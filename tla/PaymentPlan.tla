---------------------------- MODULE PaymentPlan ----------------------------
(***************************************************************************)
(* How the wallet turns a payment into a request: it prices the fare from  *)
(* the policy it read, picks coins for the amount, the fare and its change *)
(* and authorises exactly that fare.  It plans before it asks, so what it  *)
(* picks must be what the service can build a transaction from.            *)
(*                                                                         *)
(* A payment is the coins of the wallet, the asset or Sats, the amount in  *)
(* its units, and the delivery: recycle, purchase or sponsored.            *)
(***************************************************************************)
EXTENDS JointGraphs, FiniteSets

Larger(m, n) == IF m > n THEN m ELSE n

\* priceFare: -1 for a rate that is none.
PriceFare(o, base) ==
    CASE o.bps < 0 -> o.least
      [] o.bps > Parts -> -1
      [] OTHER -> Clamp((base * o.bps) \div Parts, o.least, o.most)

Least(ns) == CHOOSE n \in ns : \A m \in ns : n <= m

\* The coins, the smaller before the larger.
Sorts(s, coins) ==
    /\ coins = {s[i] : i \in DOMAIN s}
    /\ \A i, j \in DOMAIN s : i < j => s[i].sats <= s[j].sats
ByValue(coins) == CHOOSE s \in [1 .. Cardinality(coins) -> coins] : Sorts(s, coins)
Plain(coins) == ByValue({c \in coins : c.held = Nothing})
Laden(coins) == ByValue({c \in coins : c.held # Nothing})

AtLeast(n) == {sum \in Nat : sum >= n}

\* How many of the first coins have one of the sums, and the fewest of them.
Takes(coins, sums) == {n \in 0 .. Len(coins) : TotalSats(SubSeq(coins, 1, n)) \in sums}
Fewest(coins, sums) == SubSeq(coins, 1, Least(Takes(coins, sums)))

\* What coins with units must leave: spendable change for all that they hold.
Spared(required) == required + Larger(Dust, VtxoMin)

\* selectSatsForTaxi: plain coins first; then one coin with units, or several.
SelectSats(coins, required) ==
    LET covered == {required} \cup AtLeast(required + VtxoMin)
        plain == Plain(coins)
        laden == Laden(coins)
        hosts == AtLeast(Spared(required) - TotalSats(plain))
        single == {n \in DOMAIN laden : laden[n].sats \in hosts}
    IN  IF Takes(plain, covered) # {} THEN Fewest(plain, covered)
        ELSE IF single # {} THEN Append(plain, laden[Least(single)])
        ELSE IF Takes(laden, hosts) # {} THEN plain \o Fewest(laden, hosts)
        ELSE <<>>

\* selectCoinsWithAsset of the SDK: coins of the asset with units enough.
CoinsWithAsset(coins, asset, required) ==
    {s \in SUBSET {c \in coins : c.held[asset] > 0} :
        s # {} /\ TotalHeld(ByValue(s))[asset] >= required}

\* The request for coins picked: to the service their sum.
Request(payment, coins, kind, maxFare) ==
    [kind |-> kind, receiver |-> "receiver", asset |-> payment.asset,
     payment |-> IF payment.asset = Sats THEN payment.amount ELSE 0,
     units |-> IF payment.asset = Sats THEN 0 ELSE payment.amount,
     coin |-> Coin("sender", TotalSats(coins), TotalHeld(coins)),
     mode |-> IF kind = "lockup" THEN payment.delivery ELSE "recycle",
     recovery |-> "sender", minLocktime |-> 2, minExitDelay |-> 0, maxFare |-> maxFare]

\* assetPlan: a recycle pays in sats, the others in the asset itself.
AssetPlans(payment, rule) ==
    LET o == rule.fare
        inSats == payment.delivery = "recycle"
        fare == PriceFare(o, IF inSats THEN Dust ELSE payment.amount)
        units == payment.amount + (IF inSats THEN 0 ELSE fare)
        plan(s) ==
            LET picked == ByValue(s)
                kept == TotalHeld(picked)
                host == IF kept = Only(payment.asset, units) THEN 0 ELSE Larger(Dust, VtxoMin)
                fills == AtLeast((IF inSats THEN fare ELSE 0) + host - TotalSats(picked))
            IN  IF Takes(Plain(payment.coins), fills) = {} THEN {}
                ELSE {Request(payment, picked \o Fewest(Plain(payment.coins), fills),
                              IF payment.delivery = "sponsored" THEN "payment" ELSE "lockup",
                              [currency |-> IF inSats THEN Sats ELSE payment.asset, units |-> fare])}
    IN  IF /\ payment.delivery # "sponsored" => rule.claim \in {"either", payment.delivery}
           /\ o.currency = (IF inSats THEN Sats ELSE "same") /\ fare >= 0
        THEN UNION {plan(s) : s \in CoinsWithAsset(payment.coins, payment.asset, units)}
        ELSE {}

\* vetBitcoinTaxi: a covenant carries an amount below dust at no fare.
VetsBitcoin(payment, rule) ==
    /\ payment.amount >= VtxoMin /\ payment.amount < Dust /\ Dust <= MaxTopup
    /\ rule.fare.currency = Sats /\ PriceFare(rule.fare, Dust) = 0
    /\ rule.claim # "purchase"

\* bitcoinPlan
BitcoinPlans(payment, rule) ==
    LET picked == SelectSats(payment.coins, payment.amount)
    IN  IF payment.delivery = "recycle" /\ VetsBitcoin(payment, rule) /\ Len(picked) > 0
        THEN {Request(payment, picked, "lockup", [currency |-> Sats, units |-> 0])} ELSE {}

\* sendDirectTaxiLocked, up to the request.
PlansOf(payment, rule) ==
    IF rule.paused THEN {}
    ELSE IF payment.asset = Sats THEN BitcoinPlans(payment, rule) ELSE AssetPlans(payment, rule)
=============================================================================
