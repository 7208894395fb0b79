----------------------------- MODULE ValueFlow -----------------------------
(***************************************************************************)
(* The value of one transfer from the plan to the spend that ends it.  The *)
(* wallet plans a payment, or a caller asks as it likes.  The service      *)
(* quotes, honestly or with anything it names or builds altered; the       *)
(* sender verifies and signs or refuses; the joint transaction locks the   *)
(* covenant or pays the receiver.  A maker verifies a receive quote        *)
(* against the policy it read, up to half a minute ago, while the operator *)
(* may change it; a caller's graph then fills it.  The covenant is spent   *)
(* by the client, by the recovery runner or by someone else's software     *)
(* through a leaf the contract admits, and the watcher classifies it.      *)
(***************************************************************************)
EXTENDS ReceiveTerms, PaymentPlan

CONSTANTS
    Asks,          \* what senders ask for
    PlannedPayments, \* what wallets plan for: coins, asset, amount and delivery
    Rules,         \* the operator's policies: pause, and the rule for the asset
    ReceiveAsks,   \* what makers ask for
    OperatorCoins, \* coins the operator may fund with
    FillGraphs(_), \* graphs a caller may post for a receive quote
    Funds          \* coins a claimant may add

Currencies == Assets \cup {Sats}
CoinsOf(keys) == [key : keys, sats : Nat, held : [Assets -> Nat]]
Modes == {"recycle", "purchase", "either"}

\* The keys of those who are no party to the advance.
Strangers == {"receiver", "solver", "other"}

\* A transfer of sats names its payment, one of an asset its units or all there are;
\* nobody asks for a later locktime or a longer exit than the service gives.
TransferAsks ==
    {r \in [kind : {"lockup", "payment"}, receiver : Strangers, asset : Currencies, payment : Nat,
            units : Nat, coin : CoinsOf({"sender"}), mode : Modes, recovery : {"any", "sender"},
            minLocktime : 0 .. 2, minExitDelay : 0 .. 2,
            maxFare : [currency : Currencies, units : Nat]] :
        (r.asset = Sats <=> r.payment > 0) /\ (r.asset = Sats => r.units = 0)}
CarrierAsks ==
    [kind : {"fill"}, receiver : Strangers, asset : Assets, payer : {"sender", "receiver"},
     maxFare : Nat, minLocktime : 0 .. 2, minExitDelay : 0 .. 2]
Policies ==
    {r \in [paused : BOOLEAN, claim : Modes,
            fare : [currency : Currencies \cup {"same"}, bps : Int, least : Int, most : Int]] :
        ValidOption(r.fare)}

ASSUME AssetsAssumption == Sats \notin Assets /\ "same" \notin Assets
ASSUME AsksAssumption ==
    Asks \subseteq TransferAsks /\ ReceiveAsks \subseteq CarrierAsks /\ Rules \subseteq Policies
ASSUME PaymentsAssumption ==
    \A payment \in PlannedPayments :
       /\ payment.kind = "plan" /\ payment.asset \in Currencies /\ payment.amount \in Nat \ {0}
       /\ payment.delivery \in {"recycle", "purchase", "sponsored"}
       /\ payment.coins \subseteq CoinsOf({"sender"}) /\ IsFiniteSet(payment.coins)
       /\ \A c \in payment.coins : c.sats >= VtxoMin
\* The selection of funding takes coins without units only.
ASSUME OperatorCoinsAssumption == OperatorCoins \subseteq [key : {"operator"}, sats : Nat, held : {Nothing}]
\* The operator serves: its cap admits a dust unit, and it has a coin that covers the
\* advance, an output that hosts the fare, and change that may stand beside it.
ASSUME FundingAssumption == Dust <= MaxTopup /\ \E c \in OperatorCoins : c.sats >= 3 * Dust
\* A claimant's coin is its own: the operator signs for none of its coins in a claim.
ASSUME FundsAssumption == Funds \subseteq CoinsOf({"sender"} \cup Strangers)

\* Whatever a caller posts is a transaction of coins, with the units it declares.
GraphCoins == [key : {"sender", "maker", "operator", "covenant"} \cup Strangers, sats : Int,
               held : [Assets -> Int]]
IsGraph(g) ==
    g.tx.ins \in Seq(GraphCoins) /\ g.tx.outs \in Seq(GraphCoins) /\ g.units \in Int

\* A solver that delivers for a receive quote: its coin of the asset fills the covenant,
\* the fare comes out of its sats, and the rest of either coin goes back.
SolverDelivers(rq, g) ==
    LET c == g.tx.ins[2]
    IN  /\ c \in CoinsOf({"solver"}) /\ c.sats >= Dust + rq.fareUnits
        /\ c.held = Only(rq.p.asset, g.units) /\ g.units > AssetFare(rq.p)
        /\ g.taxi = 1 /\ g.index = 1 /\ g.outlives
        /\ g.tx = [ins |-> <<rq.operator, c>>, terms |-> rq.p,
                   outs |-> <<Coin("covenant", Dust, c.held),
                              Coin("operator", rq.operator.sats - Dust + rq.fareUnits, Nothing),
                              Coin("solver", c.sats - rq.fareUnits, Nothing)>>]

\* Callers post what they like; among them is a solver for every quote a maker passes on.
ASSUME FillGraphsAssumption ==
    \A r \in ReceiveAsks, rule \in Rules, operator \in OperatorCoins :
       ReceiveOffered(r, rule) /\ ReceiveCovers(operator, ServiceFare(r, rule)) =>
          LET rq == ReceiveRow(r, rule, operator)
          IN  /\ \A g \in FillGraphs(rq) : IsGraph(g)
              /\ rq.fareUnits <= r.maxFare => \E g \in FillGraphs(rq) : SolverDelivers(rq, g)

VARIABLES
    stage,    \* planning, planned, asking, quoted, refused, signed, posted, ready,
              \* locked, paid, spent
    ask,      \* the payment to plan, or the request
    policy,   \* the policy of a plan; on the maker's side the policy read, whether by an
              \* earlier call, and the operator's now; None when it no longer matters
    row,      \* what is stored with the quote; None for an altered quote
    quote,    \* the quote, or the graph of the fill
    coin,     \* the covenant's coin
    spend,    \* the leaf and the transaction that spent it
    verdict   \* what the watcher says of it

vars == <<stage, ask, policy, row, quote, coin, spend, verdict>>

None == [none |-> TRUE]
Terms == quote.tx.terms

Init ==
    /\ \/ stage = "planning" /\ ask \in PlannedPayments /\ policy = None
       \/ stage = "asking" /\ ask \in Asks /\ policy = None
       \/ /\ stage = "asking" /\ ask \in ReceiveAsks
          /\ policy \in {[read |-> r, reused |-> b, now |-> n] : r, n \in Rules, b \in BOOLEAN}
          /\ policy.read = policy.now \/ policy.reused
    /\ row = None /\ quote = None /\ coin = None /\ spend = None /\ verdict = "open"

-----------------------------------------------------------------------------
(* Quoting and signing. *)

\* sendDirectTaxi plans from the policy it reads; what it cannot plan it does not ask.
Plan(rule) ==
    /\ stage = "planning" /\ stage' = "planned"
    /\ ask' \in PlansOf(ask, rule)
    /\ policy' = rule
    /\ UNCHANGED <<row, quote, coin, spend, verdict>>

\* The request leaves; the policy is the operator's to change again.
AskForQuote ==
    /\ stage = "planned" /\ stage' = "asking"
    /\ policy' = None
    /\ UNCHANGED <<ask, row, quote, coin, spend, verdict>>

\* createQuote and createSponsoredQuote: whether they answer.
Answerable(rule, operator) ==
    LET r == BuildRequest(ask, rule, operator)
    IN  /\ Admitted(ask, rule) /\ FarePayable(ask, r.fare) /\ Covers(operator, r)
        /\ Parses(r, Envelope(r))

Quote(rule, operator) ==
    LET r == BuildRequest(ask, rule, operator)
    IN  /\ stage = "asking" /\ ask.kind # "fill"
        /\ Answerable(rule, operator)
        /\ quote' = QuoteOf(r) /\ row' = r /\ stage' = "quoted"
        /\ UNCHANGED <<ask, policy, coin, spend, verdict>>

\* Terms that differ from the honest ones in one respect.
OtherTerms(p) ==
    {[p EXCEPT !.receiver = "other"], [p EXCEPT !.sender = "other"], [p EXCEPT !.operator = "other"],
     [p EXCEPT !.payment = @ + 1], [p EXCEPT !.topup = @ + 1], [p EXCEPT !.topup = @ - 1],
     [p EXCEPT !.locktime = 1], [p EXCEPT !.recovery = "receiver"],
     [p EXCEPT !.exitDelay = 0], [p EXCEPT !.exitDelay = 1]}
    \cup {[p EXCEPT !.mode = m] : m \in {"recycle", "purchase", "either"}}
    \cup {[p EXCEPT !.asset = a] : a \in Assets \cup {Sats}}

\* A request whose terms, fare or operator coin another one has.
OtherRequests(r) ==
    {[r EXCEPT !.p = p] : p \in OtherTerms(r.p)}
    \cup {[r EXCEPT !.fare.units = @ + 1], [r EXCEPT !.payer = IF @ = "none" THEN "sender" ELSE "none"],
          [r EXCEPT !.units = @ + 1], [r EXCEPT !.operator.key = "other"],
          [r EXCEPT !.coin.sats = @ + 1]}
    \cup {[r EXCEPT !.fare.currency = c] : c \in Assets \cup {Sats}}

\* A quote that says one thing and carries another.
Mislabelled(q) ==
    {[q EXCEPT !.p = p] : p \in OtherTerms(q.p)}
    \cup {[q EXCEPT !.p = p, !.address = p] : p \in OtherTerms(q.p)}
    \cup {[q EXCEPT !.fare.units = @ + 1], [q EXCEPT !.live = FALSE],
          [q EXCEPT !.envelope.units = @ + 1], [q EXCEPT !.envelope.tx.outs = Tail(@)]}
    \cup {[q EXCEPT !.envelope.tx.outs[1].sats = @ - 1, !.envelope.tx.outs[i].sats = @ + 1] :
             i \in DOMAIN q.envelope.tx.outs}
    \cup {[q EXCEPT !.envelope.tx.outs[i].key = "other"] : i \in DOMAIN q.envelope.tx.outs}

\* A service that does anything else.
Misquote(rule, operator) ==
    LET r == BuildRequest(ask, rule, operator)
    IN  /\ stage = "asking" /\ ask.kind # "fill" /\ Admitted(ask, rule) /\ Plannable(r)
        /\ quote' \in {QuoteOf(s) : s \in OtherRequests(r)} \cup Mislabelled(QuoteOf(r))
        /\ quote' # QuoteOf(r)
        /\ stage' = "quoted"
        /\ UNCHANGED <<ask, policy, row, coin, spend, verdict>>

\* verifyQuote and signLockup, verifySponsoredQuote and signSponsoredPayment.
Verify ==
    /\ stage = "quoted" /\ ask.kind # "fill"
    /\ stage' = IF Verifies(ask, quote) THEN "signed" ELSE "refused"
    /\ UNCHANGED <<ask, policy, row, quote, coin, spend, verdict>>

\* What comes back from a sender: the envelope, or one that differs from it.
Answers(e) ==
    {e, [e EXCEPT !.payer = IF @ = "none" THEN "sender" ELSE "none"], [e EXCEPT !.units = @ + 1],
     [e EXCEPT !.tx.outs = Tail(@)], [e EXCEPT !.tx.outs[Len(e.tx.outs)].key = "sender"]}
    \cup {[e EXCEPT !.tx.outs[i].sats = @ + 1, !.tx.outs[j].sats = @ - 1] :
             i, j \in DOMAIN e.tx.outs}

\* submitLockup: the stored request is planned again before the claim.
Post(e) ==
    /\ stage = "signed" /\ row # None
    /\ Parses(row, e)
    /\ stage' = "posted" /\ quote' = e
    /\ UNCHANGED <<ask, policy, row, coin, spend, verdict>>

\* The joint transaction of the service lands, or the one a misquoting service signs.
Land ==
    /\ stage = "posted" \/ (stage = "signed" /\ row = None)
    /\ LET e == IF stage = "posted" THEN quote ELSE quote.envelope
       IN  coin' = e.tx.outs[1] /\ quote' = e
    /\ stage' = IF ask.kind = "lockup" THEN "locked" ELSE "paid"
    /\ UNCHANGED <<ask, policy, row, spend, verdict>>

\* createReceiveQuote, under the policy of the moment.
QuoteReceive(operator) ==
    LET q == ReceiveQuote(ask, policy.now, operator)
    IN  /\ stage = "asking" /\ ask.kind = "fill"
        /\ ReceiveOffered(ask, policy.now) /\ ReceiveCovers(operator, q.fareUnits)
        /\ quote' = q /\ stage' = "quoted"
        /\ row' = ReceiveRow(ask, policy.now, operator)
        /\ UNCHANGED <<ask, policy, coin, spend, verdict>>

\* A service that names other terms, another fare or another payer.
MisquoteReceive(operator) ==
    LET q == ReceiveQuote(ask, policy.now, operator)
    IN  /\ stage = "asking" /\ ask.kind = "fill" /\ ReceiveOffered(ask, policy.now)
        /\ quote' \in {[q EXCEPT !.p = p] : p \in OtherTerms(q.p)}
                       \cup {[q EXCEPT !.p = p, !.address = p] : p \in OtherTerms(q.p)}
                       \cup {[q EXCEPT !.fareUnits = @ + 1], [q EXCEPT !.receiverFare.units = @ + 1],
                             [q EXCEPT !.payer = IF @ = "sender" THEN "receiver" ELSE "sender"],
                             [q EXCEPT !.live = FALSE]}
        /\ quote' # q
        /\ stage' = "quoted"
        /\ UNCHANGED <<ask, policy, row, coin, spend, verdict>>

\* The operator saves another policy: at most once before and once after it quoted.
SetPolicy(rule) ==
    /\ ask.kind = "fill"
    /\ \/ stage = "asking" /\ policy.now = policy.read
       \/ stage = "quoted" /\ row # None /\ policy.now = row.rule
    /\ policy' = [policy EXCEPT !.now = rule]
    /\ UNCHANGED <<stage, ask, row, quote, coin, spend, verdict>>

\* Mutant: a refusal against a reused read is final.
MutAccepts(q) == VerifiesReceive(ask, q, policy.read)

\* quoteAgainstInfo: a refusal of a read made before this call is checked once more.
Accepts(q) ==
    \/ VerifiesReceive(ask, q, policy.read)
    \/ policy.reused /\ policy.now # policy.read /\ VerifiesReceive(ask, q, policy.now)

VerifyReceive ==
    /\ stage = "quoted" /\ ask.kind = "fill"
    /\ IF Accepts(quote) THEN stage' = "ready" /\ policy' = None
       ELSE stage' = "refused" /\ UNCHANGED policy
    /\ UNCHANGED <<ask, row, quote, coin, spend, verdict>>

\* assertFillGraph on the graph of a caller, then the fill lands.
Fill(g) ==
    /\ stage = "ready" /\ row # None
    /\ FillAccepted(row, g)
    /\ stage' = "locked" /\ quote' = g /\ coin' = g.tx.outs[g.index]
    /\ UNCHANGED <<ask, policy, row, spend, verdict>>

-----------------------------------------------------------------------------
(* The spend, and what the watcher makes of it. *)

SpendBy(leaf, tx, by) ==
    /\ stage = "locked"
    /\ spend' = [leaf |-> leaf, tx |-> tx, by |-> by]
    /\ verdict' = Classify(Terms, leaf, tx, coin.held, TRUE)
    /\ stage' = "spent"
    /\ UNCHANGED <<ask, policy, row, quote, coin>>

\* createClient().purchase, recycle and refund, and the reclaim of the runner.
Purchase == stage = "locked" /\ CanPurchase(Terms) /\ SpendBy("purchase", PurchaseTx(Terms, coin), "client")
Recycle(fund) ==
    /\ stage = "locked" /\ CanRecycle(Terms, coin, fund)
    /\ SpendBy("recycle", RecycleTx(Terms, coin, fund), "client")
Refund(fund) ==
    /\ stage = "locked" /\ CanRefund(Terms, fund)
    /\ SpendBy("refund", RefundTx(Terms, coin, fund), "client")
Reclaim == stage = "locked" /\ SpendBy("reclaim", ReclaimTx(Terms, coin), "runner")

\* A spend of other software: a coin more, one less paid, the units elsewhere.
OtherSpends(leaf, fund) ==
    LET base == CASE leaf = "purchase" -> PurchaseTx(Terms, coin)
                  [] leaf = "recycle" -> RecycleTx(Terms, coin, fund)
                  [] leaf = "refund" -> RefundTx(Terms, coin, fund)
                  [] OTHER -> ReclaimTx(Terms, coin)
    IN  {base,
         [ins |-> Append(base.ins, fund), outs |-> Append(base.outs, fund)],
         [base EXCEPT !.outs = Append(@, Coin("other", 0, Nothing))],
         [base EXCEPT !.outs[1].sats = @ - 1], [base EXCEPT !.outs[1].key = "other"],
         [base EXCEPT !.outs[1].held = Nothing]}

OtherSpend(leaf, fund) ==
    /\ stage = "locked"
    /\ \E tx \in OtherSpends(leaf, fund) : Admits(Terms, leaf, tx) /\ SpendBy(leaf, tx, "other")

Next ==
    \/ AskForQuote \/ \E rule \in Rules : Plan(rule)
    \/ \E rule \in Rules, operator \in OperatorCoins : Quote(rule, operator) \/ Misquote(rule, operator)
    \/ Verify \/ Land
    \/ stage = "signed" /\ \E e \in Answers(quote.envelope) : Post(e)
    \/ \E operator \in OperatorCoins : QuoteReceive(operator) \/ MisquoteReceive(operator)
    \/ \E rule \in Rules : SetPolicy(rule)
    \/ VerifyReceive
    \/ stage = "ready" /\ row # None /\ \E g \in FillGraphs(row) : Fill(g)
    \/ Purchase \/ Reclaim
    \/ \E fund \in Funds : Recycle(fund) \/ Refund(fund)
          \/ \E leaf \in {"purchase", "recycle", "refund", "reclaim"} : OtherSpend(leaf, fund)

Spec == Init /\ [][Next]_vars

-----------------------------------------------------------------------------
(* Properties. *)

\* What a key gives up and what it receives in a transaction.
SatsOut(tx, key) == SatsOf(key, tx.ins) - SatsOf(key, tx.outs)
HeldOut(tx, key) == Without(HeldOf(key, tx.ins), HeldOf(key, tx.outs))

Promised == IF ask.asset = Sats THEN Nothing
            ELSE Only(ask.asset, IF ask.units > 0 THEN ask.units
                                 ELSE ask.coin.held[ask.asset]
                                      - (IF quote.fare.currency = ask.asset THEN quote.fare.units ELSE 0))

\* The sats of the payment: an asset sent through a sponsored payment is bound to those
\* of the quote only, which the wallet shows before it signs.
SatsAgreed == IF ask.kind = "payment" /\ ask.asset # Sats
              THEN quote.p.payment + (Dust - quote.p.topup) ELSE ask.payment

\* What a sender signs pays its receiver, or a covenant on the terms it asked for,
\* exactly what it sends, and costs it that and no more than the fare it authorised.
SignedPaysAsAsked ==
    stage = "signed" =>
       LET tx == quote.envelope.tx
           first == tx.outs[1]
           fare == IF ask.maxFare.currency = Sats THEN Nothing
                   ELSE Only(ask.maxFare.currency, ask.maxFare.units)
           extra == Without(HeldOut(tx, "sender"), Promised)
       IN  /\ first.held = Promised
           /\ first.sats = quote.p.topup + SatsAgreed
           /\ IF ask.kind = "payment" THEN first.key = ask.receiver
              ELSE /\ first.key = "covenant" /\ tx.terms.receiver = ask.receiver
                   /\ tx.terms.sender = "sender" /\ tx.terms.asset = ask.asset
                   /\ tx.terms.payment = ask.payment /\ tx.terms.locktime >= ask.minLocktime
                   /\ tx.terms.exitDelay >= ask.minExitDelay
                   /\ ask.mode \in {"either", tx.terms.mode}
           /\ SatsOut(tx, "sender") >= SatsAgreed
           /\ SatsOut(tx, "sender") <= SatsAgreed + (IF ask.maxFare.currency = Sats
                                                      THEN ask.maxFare.units ELSE 0)
           /\ \A a \in Assets : extra[a] >= 0 /\ extra[a] <= fare[a]

\* The carrier a maker passes on is the one it asked for: whole dust of the operator's
\* under the receiver's recycle, at a fare within the ceiling for the maker, or at a fare
\* the operator advertised for the receiver.
CarrierIsAsAsked ==
    stage = "ready" =>
       LET p == quote.p
           due == IF p.fareIn = "none" THEN 0 ELSE OperatorSats(p) - LoanSats(p) + AssetFare(p)
       IN  /\ p.receiver = ask.receiver /\ p.asset = ask.asset /\ p.locktime >= ask.minLocktime
           /\ p.exitDelay >= ask.minExitDelay
           /\ LockupSats(p) = Dust /\ LoanSats(p) = Dust /\ Disabled(p, "purchase")
           /\ IF ask.payer = "sender" THEN quote.fareUnits <= ask.maxFare
              ELSE quote.fareUnits = 0 /\ \E rule \in Rules : due = AdvertisedFare(rule.fare)

\* Whatever the service quoted, a sender signs and a maker passes on only what it asked
\* for and authorised, in sats and in every asset.  (verifyQuote, verifySponsoredQuote
\* and verifyReceiveQuote with the rebuilt transaction.)
SignedIsAuthorised == SignedPaysAsAsked /\ CarrierIsAsAsked

\* An honest quote whose fare is within the authorisation is never refused by the sender's
\* rebuild, nor by a maker that priced it from a policy read before the operator changed
\* it: only a policy that changes after this call read it can refuse one.
AnswerIsSigned ==
    stage = "refused" /\ row # None =>
       IF ask.kind = "fill"
       THEN \/ ask.payer = "sender" /\ quote.fareUnits > ask.maxFare
            \/ policy.now # row.rule
            \/ ~policy.reused /\ policy.read # row.rule
       ELSE quote.fare.currency # ask.maxFare.currency \/ quote.fare.units > ask.maxFare.units

\* What the wallet plans the service answers, under the policy the plan was made from and
\* from any coin of its own that covers the advance, the fare's output and change, and the
\* wallet signs the answer.  Two refusals the plan does not avoid: a covenant transfer with
\* a sats fare or change below dust, and a sponsored payment whose fare rides on less than
\* dust and whose change is below dust too, which with the packet of its units makes a
\* third OP_RETURN.  (assetPlan, bitcoinPlan and selectSatsForTaxi against admit and
\* jointPlan.)
PlanIsServed ==
    stage = "planned" =>
       LET fare == IF ask.maxFare.currency = Sats THEN ask.maxFare.units ELSE 0
           left == ask.coin.sats - ask.payment - fare
       IN  \/ \A operator \in OperatorCoins : operator.sats >= 3 * Dust =>
                 /\ Answerable(policy, operator)
                 /\ Verifies(ask, QuoteOf(BuildRequest(ask, policy, operator)))
           \/ ask.kind = "lockup" /\ {fare, left} \cap 1 .. (Dust - 1) # {}
           \/ /\ ask.kind = "payment" /\ ask.maxFare.units > 0 /\ VtxoMin < Dust
              /\ left \in 1 .. (Dust - 1)

\* The two sides agree on every graph and every price: what a wallet plans is answered,
\* and what is answered is signed.  (validateLockup and validateSponsoredPayment against
\* jointPlan; quoteAgainstInfo and verifyPolicy against immutableTerms.)
HonestQuoteIsSigned == AnswerIsSigned /\ PlanIsServed

\* A locked covenant can be claimed in its mode by a receiver with a coin of its own,
\* and refunded by its sender, whether a quote or a caller's fill created it.
ClaimStaysOpen ==
    stage = "locked" =>
       LET fund == Coin(Terms.receiver, Dust + OperatorSats(Terms), Nothing)
           back == Coin(Terms.sender, Dust, Nothing)
       IN  /\ \/ /\ CanPurchase(Terms) /\ Admits(Terms, "purchase", PurchaseTx(Terms, coin))
              \/ /\ CanRecycle(Terms, coin, fund)
                 /\ Admits(Terms, "recycle", RecycleTx(Terms, coin, fund))
           /\ CanRefund(Terms, back) /\ Admits(Terms, "refund", RefundTx(Terms, coin, back))
           /\ Admits(Terms, "reclaim", ReclaimTx(Terms, coin))

\* Whatever graph a sender returns, what the service co-signs costs it the loan less the
\* fare in sats and brings it the fare in units; whatever graph a caller posts for a fill
\* costs it no more than the loan less the fare.  (Sats below dust come on top: the check
\* of a fill counts the outputs of the operator's script, which those do not have.)
TaxiPaysOnlyTheLoan ==
    /\ stage = "posted" =>
          LET fare == row.fare
          IN  /\ SatsOut(quote.tx, "operator")
                    = Dust - (IF row.payer = "sender" THEN fare.units ELSE 0)
              /\ HeldOut(quote.tx, "operator") = Without(Nothing, FareHeld(fare))
    /\ stage = "locked" /\ ask.kind = "fill" =>
          row.operator.sats - SatsOf("operator", quote.tx.outs) <= row.p.topup - row.fareUnits

\* The coins reserved for a receive quote leave room for a graph the service accepts:
\* the carrier, its own payback and the solver's change are all outputs that may stand.
QuoteCanBeFilled == stage = "ready" /\ row # None => \E g \in FillGraphs(row) : FillAccepted(row, g)

\* What the service helps to lock is fair to all sides: neither a fill's caller nor a
\* sender's identity can cost it more, no honest term shuts the recipient out, and no
\* quote a maker accepted is one that nobody can fill.
CosignedAsAgreed == ClaimStaysOpen /\ TaxiPaysOnlyTheLoan /\ QuoteCanBeFilled

\* What each verdict means for the parties, from the transaction alone: the operator
\* has its loan and fare back from a recycle, the loan from a refund and everything
\* from a reclaim, whose surplus over the loan is what custody owes.
Settles(p, tx) ==
    CASE verdict = "recycled" ->
            /\ -SatsOut(tx, "operator") = OperatorSats(p)
            /\ -SatsOut(tx, p.receiver) = LockupSats(p) - OperatorSats(p)
            /\ AssetFare(p) > 0 => -HeldOut(tx, "operator")[p.asset] = AssetFare(p)
            /\ p.asset # Sats => -HeldOut(tx, p.receiver)[p.asset] = coin.held[p.asset] - AssetFare(p)
      [] verdict = "purchased" ->
            -SatsOut(tx, p.receiver) = LockupSats(p) /\ HeldOf(p.receiver, tx.outs) = coin.held
      [] verdict = "refunded" -> -SatsOut(tx, "operator") = LoanSats(p)
      [] verdict = "recovered" ->
            /\ -SatsOut(tx, "operator") = LoanSats(p) + p.payment
            /\ HeldOf("operator", tx.outs) = coin.held
      [] OTHER -> TRUE

\* Every spend the client and the runner build passes its leaf and is classified as
\* what it is, and every verdict, on anyone's spend, moved the value it stands for.
SettledAsAgreed ==
    stage = "spent" =>
       /\ spend.by \in {"client", "runner"} =>
             /\ Admits(Terms, spend.leaf, spend.tx)
             /\ verdict = CASE spend.leaf = "purchase" -> "purchased" [] spend.leaf = "recycle" -> "recycled"
                            [] spend.leaf = "refund" -> "refunded" [] OTHER -> "recovered"
       /\ Settles(Terms, spend.tx)
=============================================================================
