---------------------------- MODULE JointGraphs ----------------------------
(***************************************************************************)
(* The joint transaction of a transfer: how the service prices it, how the *)
(* service plans it, how the sender rebuilds and checks it before it       *)
(* signs, and how the service checks a graph a caller built for a fill.    *)
(*                                                                         *)
(* A request is what the sender asked for and the coin it offered; a quote *)
(* is what came back.  Either side has one coin; the operator's carries no *)
(* asset, as the selection of funding guarantees.  The covenant is an      *)
(* output to the key "covenant" whose parameters are the terms of the      *)
(* transaction; a sponsored payment has no terms.                          *)
(***************************************************************************)
EXTENDS CovenantTerms

CONSTANT MaxTopup    \* the cap on one advance, and the sender's own

NoTerms == [none |-> TRUE]
Bitcoin(p) == p.asset = Sats

-----------------------------------------------------------------------------
(* Pricing.  An option is a currency (sats, same or an asset) with flat units *)
(* or a rate of bps with a minimum and a maximum (none is -1).                *)

Parts == 10000

\* validateFareOption
ValidOption(o) ==
    IF o.bps < 0 THEN o.least >= 0
    ELSE o.currency \in {"sats", "same"} /\ o.bps <= Parts /\ o.least >= 0
         /\ (o.most >= 0 => o.most >= o.least)

\* fareBase
FareBase(o, units) == IF o.currency = "sats" THEN Dust ELSE units

\* A rate on a transfer that names no units has nothing to be a rate of.
Resolvable(o, asset, units) ==
    /\ ValidOption(o)
    /\ o.currency = "same" => asset # Sats
    /\ o.currency = "same" /\ o.bps >= 0 => units > 0

Clamp(n, least, most) ==
    LET raised == IF n < least THEN least ELSE n
    IN  IF most >= 0 /\ raised > most THEN most ELSE raised

\* resolveFare: rounded down, then raised to the minimum and capped.
ResolveFare(o, asset, units) ==
    [currency |-> IF o.currency = "same" THEN asset ELSE o.currency,
     units    |-> IF o.bps < 0 THEN o.least
                  ELSE Clamp((FareBase(o, units) * o.bps) \div Parts, o.least, o.most)]

\* resolveClaimMode: either resolves to recycle.
ClaimMode(permitted, asked) ==
    IF asked # "either" THEN asked ELSE IF permitted = "either" THEN "recycle" ELSE permitted
ModeAllowed(permitted, asked) == permitted = "either" \/ ClaimMode(permitted, asked) = permitted

\* admit, for a transfer the rule serves: the payment beside the whole dust unit.
PaymentSats(r) == IF r.asset # Sats THEN 0 ELSE IF r.payment > 0 THEN r.payment ELSE r.coin.sats
Admitted(r, rule) ==
    /\ ~rule.paused
    /\ r.asset # Sats => r.payment = 0
    /\ PaymentSats(r) # 0 => PaymentSats(r) >= VtxoMin /\ PaymentSats(r) < Dust
                             /\ PaymentSats(r) <= r.coin.sats
    /\ Dust <= MaxTopup
    /\ Resolvable(rule.fare, r.asset, r.units)
    /\ r.kind = "lockup" => ModeAllowed(rule.claim, r.mode)

\* createReservedQuote and createReservedSponsoredQuote: a sats fare comes out of the
\* sender's change, which a covenant transfer of bitcoin does not have.
FarePayable(r, fare) ==
    fare.currency = Sats /\ fare.units > 0 =>
       IF r.kind = "lockup" THEN r.asset # Sats /\ r.coin.sats >= fare.units
       ELSE r.coin.sats - PaymentSats(r) >= fare.units

-----------------------------------------------------------------------------
(* The plan of the service. *)

\* The first output: the covenant, or the payment to the receiver.
First(kind, p) == Coin(IF kind = "lockup" THEN "covenant" ELSE p.receiver, Dust + p.payment, Nothing)

\* The units an asset moves to the receiver: all but the fare unless named.
PaidUnits(p, fare, held, units) ==
    IF Bitcoin(p) THEN 0
    ELSE IF units > 0 THEN units
    ELSE held[p.asset] - (IF fare.currency = p.asset THEN fare.units ELSE 0)

\* jointPlan: sats that host the fare.
Hosting(kind, fare) ==
    IF fare.currency = Sats \/ fare.units = 0 THEN fare.units
    ELSE IF kind = "lockup" THEN Dust ELSE VtxoMin

\* operatorPayoutSats: change to the payout's own script rides on the payout.
OperatorPayoutSats(hosting, change, payoutKey, changeKey) ==
    IF hosting > 0 /\ change > 0 /\ Script(payoutKey, hosting) = Script(changeKey, change)
    THEN hosting + change ELSE hosting

FareHeld(fare) == IF fare.currency = Sats THEN Nothing ELSE Only(fare.currency, fare.units)
PaidHeld(p, n) == IF Bitcoin(p) THEN Nothing ELSE Only(p.asset, n)

\* jointPlan: the amounts.
Amounts(r) ==
    LET hosting == Hosting(r.kind, r.fare)
        senderFare == IF r.payer = "sender" THEN hosting ELSE 0
        change == r.operator.sats - r.p.topup - (hosting - senderFare)
        first == First(r.kind, r.p)
    IN  [first |-> first, hosting |-> hosting,
         senderChange |-> r.coin.sats + r.p.topup - first.sats - senderFare,
         operatorChange |-> change,
         payout |-> OperatorPayoutSats(hosting, change, r.p.operator, r.operator.key),
         paid |-> PaidUnits(r.p, r.fare, r.coin.held, r.units)]

\* Where the assets of the sender's coin go beside the payment and the fare.
AssetChange(r) ==
    Without(Without(r.coin.held, FareHeld(r.fare)), PaidHeld(r.p, Amounts(r).paid))

\* jointPlan: the value outputs, in order.
PlanOuts(r) ==
    LET a == Amounts(r)
        change == AssetChange(r)
    IN  <<[a.first EXCEPT !.held = PaidHeld(r.p, a.paid)]>>
        \o (IF a.hosting > 0 THEN <<Coin(r.p.operator, a.payout, FareHeld(r.fare))>> ELSE <<>>)
        \o (IF a.senderChange > 0 \/ change # Nothing
            THEN <<Coin(r.coin.key, a.senderChange, change)>> ELSE <<>>)
        \o (IF a.operatorChange > 0 /\ a.payout = a.hosting
            THEN <<Coin(r.operator.key, a.operatorChange, Nothing)>> ELSE <<>>)

\* assertDistinctScripts
DistinctScripts(outs) ==
    \A i, j \in DOMAIN outs :
       i # j => Script(outs[i].key, outs[i].sats) # Script(outs[j].key, outs[j].sats)

Floor(kind) == IF kind = "lockup" THEN Dust ELSE VtxoMin

\* ownerOutputScript: what is below dust pays an OP_RETURN, and the packet of the sender's
\* units is one more.  The SDK takes two at most.
TwoReturnsAtMost(r) ==
    LET outs == PlanOuts(r)
        returns == {i \in DOMAIN outs : outs[i].sats < Dust}
    IN  IF r.coin.held # Nothing THEN \A i, j \in returns : i = j
        ELSE \A i, j, k \in returns : i = j \/ j = k \/ i = k

\* lockupPlan, sponsoredPlan and jointPlan: what they refuse.
Plannable(r) ==
    LET a == Amounts(r)
        change == AssetChange(r)
        outs == PlanOuts(r)
        ins == <<r.coin, r.operator>>
    IN  /\ r.p.operator = "operator"
        /\ IF r.kind = "lockup" THEN ValidParams(r.p)
           ELSE r.p.topup >= VtxoMin /\ r.p.topup <= Dust
        /\ r.fare.units >= 0
        /\ r.payer = "sender" => r.fare.currency = Sats /\ r.fare.units > 0
        /\ a.senderChange >= 0 /\ a.operatorChange >= 0
        /\ ~Bitcoin(r.p) => r.coin.held[r.p.asset] > 0 /\ a.paid > 0
        /\ r.fare.currency # Sats /\ r.fare.units > 0 => r.coin.held[r.fare.currency] > 0
        /\ \A asset \in Assets : change[asset] >= 0
        /\ change # Nothing => a.senderChange >= VtxoMin
        /\ \A i \in DOMAIN outs : outs[i].sats >= Floor(r.kind)
        /\ DistinctScripts(outs)
        /\ TotalSats(outs) = TotalSats(ins) /\ TotalHeld(outs) = TotalHeld(ins)
        /\ TwoReturnsAtMost(r)

\* buildJointEnvelope: the transaction and what the envelope says of it.
Envelope(r) ==
    [tx |-> [ins |-> <<r.coin, r.operator>>, outs |-> PlanOuts(r),
             terms |-> IF r.kind = "lockup" THEN r.p ELSE NoTerms],
     payer |-> r.payer, units |-> Amounts(r).paid]

\* parseJointEnvelope: the stored request is planned again and nothing may differ.
Parses(r, envelope) ==
    /\ Plannable(r) /\ envelope = Envelope(r)
    /\ \A i \in DOMAIN envelope.tx.outs : envelope.tx.outs[i].sats >= VtxoMin

-----------------------------------------------------------------------------
(* What the service answers.  Requests and quotes name the operator's coin that *)
(* the selection found: it covers the advance and the hosting the operator pays. *)

\* createReservedQuote, createReservedSponsoredQuote: the request it builds from.
BuildRequest(ask, rule, operator) ==
    LET fare == ResolveFare(rule.fare, ask.asset, ask.units)
    IN  [kind |-> ask.kind, coin |-> ask.coin, operator |-> operator, units |-> ask.units,
         fare |-> fare,
         payer |-> IF fare.currency = Sats /\ fare.units > 0 THEN "sender" ELSE "none",
         p |-> [receiver |-> ask.receiver, sender |-> ask.coin.key, operator |-> "operator",
                signer |-> "signer", topup |-> Dust, payment |-> PaymentSats(ask),
                asset |-> ask.asset, locktime |-> 2, exitDelay |-> 2,
                mode |-> ClaimMode(rule.claim, ask.mode), recovery |-> "sender",
                fareIn |-> "none", fareUnits |-> 0]]

\* selectOperatorFunding, as far as the amount goes.
Covers(operator, r) ==
    operator.sats >= r.p.topup + (IF r.payer = "sender" THEN 0 ELSE Hosting(r.kind, r.fare))

QuoteOf(r) == [p |-> r.p, fare |-> r.fare, address |-> r.p, envelope |-> Envelope(r), live |-> TRUE]

-----------------------------------------------------------------------------
(* The sender's side.  ask is its own request: the coin it offers and what it *)
(* authorised.  q is the quote: parameters, fare, address, envelope.          *)

\* operatorTree: an operator coin is spent with the advertised operator's key.
OperatorCoin(q) == q.envelope.tx.ins[Len(q.envelope.tx.ins)]

\* validateLockup and validateSponsoredPayment: the amounts it expects.
ExpectedFare(ask, q) ==
    IF q.fare.currency = Sats \/ q.fare.units = 0 THEN q.fare.units
    ELSE IF ask.kind = "lockup" THEN Dust ELSE VtxoMin
ExpectedSenderFare(ask, q) ==
    IF q.envelope.payer = "none" THEN 0 ELSE ExpectedFare(ask, q)
ExpectedSenderChange(ask, q) ==
    ask.coin.sats + q.p.topup - (Dust + q.p.payment) - ExpectedSenderFare(ask, q)
ExpectedOperatorChange(ask, q) ==
    OperatorCoin(q).sats - q.p.topup - (ExpectedFare(ask, q) - ExpectedSenderFare(ask, q))

\* The units of each asset that go to the operator and to the receiver.
ExpectedFareUnits(q, asset) == IF q.fare.currency = asset THEN q.fare.units ELSE 0
ExpectedUnits(ask, q, asset) ==
    IF asset # q.p.asset THEN 0
    ELSE IF ask.units > 0 THEN ask.units
    ELSE ask.coin.held[asset] - ExpectedFareUnits(q, asset)
ExpectedAssetChange(ask, q) ==
    [asset \in Assets |-> ask.coin.held[asset] - ExpectedFareUnits(q, asset)
                                              - ExpectedUnits(ask, q, asset)]
ExpectedPaid(ask, q) == [asset \in Assets |-> ExpectedUnits(ask, q, asset)]
ExpectedFareHeld(q) == [asset \in Assets |-> ExpectedFareUnits(q, asset)]

\* Change that would repeat the payout's script joins it.
MergesChange(ask, q) ==
    /\ ExpectedFare(ask, q) > 0 /\ ExpectedOperatorChange(ask, q) > 0
    /\ Script("operator", ExpectedFare(ask, q))
          = Script(OperatorCoin(q).key, ExpectedOperatorChange(ask, q))

RebuiltOuts(ask, q) ==
    LET fare == ExpectedFare(ask, q)
        merged == IF MergesChange(ask, q) THEN ExpectedOperatorChange(ask, q) ELSE 0
        change == ExpectedAssetChange(ask, q)
    IN  <<Coin(IF ask.kind = "lockup" THEN "covenant" ELSE q.p.receiver, Dust + q.p.payment,
               ExpectedPaid(ask, q))>>
        \o (IF fare > 0 THEN <<Coin("operator", fare + merged, ExpectedFareHeld(q))>> ELSE <<>>)
        \o (IF ExpectedSenderChange(ask, q) > 0 \/ change # Nothing
            THEN <<Coin(ask.coin.key, ExpectedSenderChange(ask, q), change)>> ELSE <<>>)
        \o (IF ExpectedOperatorChange(ask, q) > 0 /\ merged = 0
            THEN <<Coin(OperatorCoin(q).key, ExpectedOperatorChange(ask, q), Nothing)>> ELSE <<>>)

\* validateLockup, validateSponsoredPayment
Validates(ask, q) ==
    LET outs == RebuiltOuts(ask, q)
        change == ExpectedAssetChange(ask, q)
        tx == q.envelope.tx
    IN  /\ Len(tx.ins) = 2 /\ tx.ins[1] = ask.coin
        /\ ask.coin.key = q.p.sender /\ OperatorCoin(q).key = "operator"
        /\ q.envelope.payer # "none" => q.fare.currency = Sats /\ q.fare.units > 0
        /\ ExpectedSenderChange(ask, q) >= 0 /\ ExpectedOperatorChange(ask, q) >= 0
        /\ q.p.asset # Sats => ask.coin.held[q.p.asset] > 0
        /\ q.envelope.units = (IF q.p.asset = Sats THEN ask.units
                               ELSE ExpectedUnits(ask, q, q.p.asset))
        /\ q.p.asset # Sats => ExpectedUnits(ask, q, q.p.asset) > 0
        /\ \A asset \in Assets : change[asset] >= 0
        /\ change # Nothing => ExpectedSenderChange(ask, q) >= VtxoMin
        /\ \A i \in DOMAIN outs : outs[i].sats >= (IF ask.kind = "lockup" THEN Dust ELSE VtxoMin)
        /\ DistinctScripts(outs)
        /\ TotalSats(outs) = ask.coin.sats + OperatorCoin(q).sats
        /\ TotalHeld(outs) = Both(ask.coin.held, OperatorCoin(q).held)
        /\ tx.outs = outs
        /\ tx.terms = IF ask.kind = "lockup" THEN q.p ELSE NoTerms

\* Mutant: the payment is taken from the quote.
MutVerifiesTerms(ask, q) ==
    /\ q.p.receiver = ask.receiver /\ q.p.sender = ask.coin.key /\ q.p.asset = ask.asset
    /\ q.p.operator = "operator" /\ q.p.topup <= MaxTopup
    /\ q.fare.currency = ask.maxFare.currency /\ q.fare.units <= ask.maxFare.units

\* verifyQuote and verifySponsoredQuote, up to the transaction.
VerifiesTerms(ask, q) ==
    /\ q.p.receiver = ask.receiver /\ q.p.sender = ask.coin.key /\ q.p.asset = ask.asset
    /\ q.p.operator = "operator" /\ q.p.topup <= MaxTopup
    /\ ask.payment > 0 => q.p.topup = Dust /\ q.p.payment = ask.payment
    /\ q.fare.currency = ask.maxFare.currency /\ q.fare.units <= ask.maxFare.units
    /\ ask.kind = "lockup" =>
          /\ q.p.locktime >= ask.minLocktime /\ q.p.exitDelay >= ask.minExitDelay
          /\ ask.mode # "either" => q.p.mode = ask.mode
          /\ ask.recovery # "any" => q.p.recovery = ask.recovery
          /\ ValidParams(q.p) /\ q.address = q.p

\* verifyQuote, verifySponsoredQuote
Verifies(ask, q) == q.live /\ VerifiesTerms(ask, q) /\ Validates(ask, q)

-----------------------------------------------------------------------------
(* The fill.  rq is the receive quote: parameters p, fare in sats, the coins *)
(* reserved for it and whether inputs outlive its floor; g is the graph of   *)
(* the caller with the units it declares for the covenant output.            *)

\* Mutant: the payout is compared as a lower bound of the sats put in.
MutPaysTaxi(rq, g) ==
    \A i \in DOMAIN g.tx.outs :
       g.tx.outs[i].key = "operator" => g.tx.outs[i].held = Nothing

\* V7: everything but the loan comes back, with the fare.
PaysTaxi(rq, g) ==
    LET outs == g.tx.outs
        payouts == {i \in DOMAIN outs : Pays(outs[i], "operator")}
    IN  /\ \A i \in payouts : outs[i].held = Nothing
        /\ Total([i \in DOMAIN outs |-> IF i \in payouts THEN outs[i].sats ELSE 0])
              = rq.operator.sats - rq.p.topup + rq.fareUnits

\* V5 and V6: the quoted covenant, with units the receiver can still collect.
DeliversCovenant(rq, g) ==
    LET covenant == g.tx.outs[g.index]
    IN  /\ covenant.key = "covenant" /\ g.tx.terms = rq.p /\ covenant.sats = LockupSats(rq.p)
        /\ g.units > 0 /\ AssetFare(rq.p) < g.units
        /\ covenant.held = Only(rq.p.asset, g.units)

\* V2 and V3: the reserved coin at its index, and no other coin of the Taxi.
TakesTheReservation(rq, g) ==
    /\ g.taxi \in DOMAIN g.tx.ins /\ g.tx.ins[g.taxi] = rq.operator
    /\ \A i \in DOMAIN g.tx.ins \ {g.taxi} : ~Pays(g.tx.ins[i], "operator")

\* V8: no output below dust, or below the minimum where it hosts units.
OutputsHost(g) ==
    \A i \in DOMAIN g.tx.outs :
       g.tx.outs[i].sats >= (IF g.tx.outs[i].held # Nothing THEN VtxoMin ELSE Dust)

\* V9: every asset is conserved.
UnitsConserved(g) == TotalHeld(g.tx.outs) = TotalHeld(g.tx.ins)

\* assertFillGraph; outlives is V10, the expiry of the inputs against the quote's floor.
FillAccepted(rq, g) ==
    /\ TakesTheReservation(rq, g)
    /\ g.index \in DOMAIN g.tx.outs /\ DeliversCovenant(rq, g)
    /\ PaysTaxi(rq, g)
    /\ OutputsHost(g) /\ UnitsConserved(g)
    /\ g.outlives
    /\ TotalSats(g.tx.outs) = TotalSats(g.tx.ins)
=============================================================================
