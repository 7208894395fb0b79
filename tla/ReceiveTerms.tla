---------------------------- MODULE ReceiveTerms ----------------------------
(***************************************************************************)
(* The receive quote: what the service answers a maker who wants a carrier *)
(* for an asset it will deliver, and what the maker's client checks before *)
(* it hands the carrier on.  The client prices the fare again from the     *)
(* policy the operator advertises, so the two must agree on every rule.    *)
(***************************************************************************)
EXTENDS JointGraphs

ReceiveAsset(ask, currency) == IF currency = Sats THEN Sats ELSE ask.asset

\* The covenant's own fare, where the receiver pays.
ReceiverFare(p) ==
    [currency |-> IF p.fareIn = "asset" THEN p.asset ELSE Sats, units |-> p.fareUnits]

\* immutableTerms: what a policy offers a maker.
ReceiveOffered(ask, rule) ==
    /\ ~rule.paused
    /\ ModeAllowed(rule.claim, "recycle")
    /\ Dust <= MaxTopup
    /\ Resolvable(rule.fare, ask.asset, 0)
    /\ IF ask.payer = "receiver" THEN rule.fare.currency \in {Sats, "same"}
       ELSE rule.fare.currency = Sats

\* The params of the covenant the service quotes.
ReceiveParams(ask, rule) ==
    LET fare == ResolveFare(rule.fare, ask.asset, 0) IN
    [receiver |-> ask.receiver, sender |-> "maker", operator |-> "operator", signer |-> "signer",
     topup |-> Dust, payment |-> 0, asset |-> ask.asset, locktime |-> 2, exitDelay |-> 2,
     mode |-> "recycle", recovery |-> "receiver",
     fareIn |-> IF ask.payer = "sender" THEN "none" ELSE IF fare.currency = Sats THEN "sats" ELSE "asset",
     fareUnits |-> IF ask.payer = "sender" THEN 0 ELSE fare.units]

\* What the fill owes in sats.
ServiceFare(ask, rule) ==
    IF ask.payer = "receiver" THEN 0 ELSE ResolveFare(rule.fare, ask.asset, 0).units

\* The required sats leave an output of its own to pay the rest back.
ReceiveCovers(operator, fareUnits) ==
    operator.sats >= Dust + (IF Dust > fareUnits THEN Dust - fareUnits ELSE 0)

\* createReserved: the quote, and the operator's coin reserved for it.
ReceiveQuote(ask, rule, operator) ==
    LET p == ReceiveParams(ask, rule) IN
    [p |-> p, payer |-> ask.payer, fareUnits |-> ServiceFare(ask, rule), fareIn |-> Sats,
     receiverFare |-> ReceiverFare(p), address |-> p, operator |-> operator, live |-> TRUE]

\* createReserved: what is stored with it, for the fill.
ReceiveRow(ask, rule, operator) ==
    [rule |-> rule, p |-> ReceiveParams(ask, rule), fareUnits |-> ServiceFare(ask, rule),
     operator |-> operator]

-----------------------------------------------------------------------------
(* The maker. *)

\* verifyPolicy: the fare an advertised rule makes of the loan.
AdvertisedFare(o) ==
    IF o.bps < 0 THEN o.least ELSE Clamp((Dust * o.bps) \div Parts, o.least, o.most)

AgreesWithPolicy(q, rule) ==
    /\ rule.claim \in {"recycle", "either"}
    /\ Dust <= MaxTopup
    /\ IF q.payer = "receiver"
       THEN /\ rule.fare.currency \in {Sats, "same"}
            /\ q.receiverFare.currency = ReceiveAsset([asset |-> q.p.asset], rule.fare.currency)
            /\ q.receiverFare.units = AdvertisedFare(rule.fare)
       ELSE rule.fare.currency = Sats /\ q.fareUnits = AdvertisedFare(rule.fare)

\* verifyReceiveQuote
VerifiesReceive(ask, q, rule) ==
    /\ ~rule.paused /\ q.live
    /\ q.p.receiver = ask.receiver /\ q.p.sender = "maker" /\ q.p.asset = ask.asset
    /\ q.p.operator = "operator"
    /\ q.payer = ask.payer
    /\ q.p.topup = Dust /\ q.p.mode = "recycle" /\ q.p.recovery = "receiver"
    /\ IF q.payer = "receiver"
       THEN q.fareUnits = 0 /\ q.fareIn = Sats /\ q.receiverFare = ReceiverFare(q.p)
       ELSE q.fareIn = Sats /\ q.fareUnits <= ask.maxFare
    /\ AgreesWithPolicy(q, rule)
    /\ q.p.locktime >= ask.minLocktime /\ q.p.exitDelay >= ask.minExitDelay
    /\ q.operator.sats > 0
    /\ ValidParams(q.p) /\ q.address = q.p
=============================================================================
