--------------------------- MODULE ClientProofs ----------------------------
(***************************************************************************)
(* Proofs about the client and the signing it shares with the service:     *)
(* however many contexts resend, resume, recheck or reload, a signed       *)
(* payment stays on record while it may land and what the user was told    *)
(* of it is true (Sender); however the queue of claims is woken, switched  *)
(* and interrupted, no claim and no sponsored coin is spent by two graphs  *)
(* (ClaimQueue); whatever the other parties post and answer, a graph       *)
(* leaves complete but for its provider, and is done when arkd is done     *)
(* with it (JointSigning).                                                 *)
(***************************************************************************)
EXTENDS Sender, ClaimQueue, JointSigning, TLAPS

(* Whatever names a payment names one the Taxi has quoted.                 *)
PaymentsAreQuoted ==
    /\ stored # Nobody => advance[stored] # Nil
    /\ \A p \in Contexts :
          /\ op[p].payment # Nobody => advance[op[p].payment] # Nil
          /\ held[p].payment # Nobody => advance[held[p].payment] # Nil
          /\ op[p].step # Nil => op[p].payment # Nobody
          /\ held[p].kind # Nil => held[p].payment # Nobody
    /\ \A t \in signed : advance[t] # Nil

(* The context that asks its user to confirm has the lock, and nothing is  *)
(* on record; its payment is not signed yet.                               *)
ConfirmsAlone ==
    \A p \in Contexts :
        op[p].step = "confirming" =>
            /\ holder = p
            /\ stored = Nobody
            /\ op[p].payment \notin signed

(* A status read long ago still says something: an end is an end.          *)
SeenStands(status, now) ==
    /\ status = "expired" => now = "expired"
    /\ status = "returned" => now = "returned"
    /\ status \in Landed => now \in Landed

SeenIsTrue ==
    \A p \in Contexts : op[p].payment # Nobody => SeenStands(op[p].seen, advance[op[p].payment])

HeldTypeOK ==
    /\ held \in [Contexts -> [kind : {Nil, "pending", "failed"}, payment : 0 .. MaxPayments]]
    /\ told \in [Payments -> {Nil, "sent", "returned", "not sent"}]

SenderInv ==
    /\ SenderTypeOK /\ HeldTypeOK
    /\ PaymentsAreQuoted
    /\ ConfirmsAlone
    /\ SeenIsTrue
    /\ RecordKeptWhileItMayLand
    /\ OutcomeIsTrue

-----------------------------------------------------------------------------
(* A row's status only moves on: once an end, always that end.             *)
LEMMA MovesOn ==
    ASSUME NEW s, NEW t, <<s, t>> \in Moves
    PROVE  /\ t \in Statuses /\ s # Nil
           /\ \A status : SeenStands(status, s) => SeenStands(status, t)
           /\ t \in {"quoted", "locking", "failed"} => s \in {"quoted", "locking", "failed"}
           /\ s # "expired"
           /\ s = "returned" => t = "returned"
           /\ s \in Landed => t \in Landed
    BY DEF Moves, Statuses, Landed, SeenStands, Nil

(* Whatever a context names is a payment, or nobody's.                     *)
LEMMA NamesPayments ==
    ASSUME SenderTypeOK, HeldTypeOK
    PROVE  /\ stored \in Payments \cup {Nobody}
           /\ \A p \in Contexts : /\ op[p].payment \in Payments \cup {Nobody}
                                  /\ held[p].payment \in Payments \cup {Nobody}
<1>1. 0 .. MaxPayments = Payments \cup {Nobody}
    BY SenderAssumption DEF Payments, Nobody
<1>2. \A p \in Contexts : op[p].payment \in 0 .. MaxPayments
    BY DEF SenderTypeOK, Ops
<1>3. \A p \in Contexts : held[p].payment \in 0 .. MaxPayments
    BY DEF HeldTypeOK
<1> QED BY <1>1, <1>2, <1>3 DEF SenderTypeOK

LEMMA InitHolds == SenderInit => SenderInv
    BY SenderAssumption
    DEF SenderInit, SenderInv, SenderTypeOK, HeldTypeOK, PaymentsAreQuoted, ConfirmsAlone, SeenIsTrue,
        SeenStands, RecordKeptWhileItMayLand, OutcomeIsTrue, MayLand, Payments, Nobody, Nil, NoOp,
        NoError, Ops, Statuses, Landed

-----------------------------------------------------------------------------
LEMMA TaxiStep == SenderInv /\ TaxiNext => SenderInv'
<1> SUFFICES ASSUME SenderInv, TaxiNext PROVE SenderInv'
    OBVIOUS
<1> USE DEF SenderInv
<1>1. PICK t \in Payments : Arrive(t) \/ Progress(t)
    BY DEF TaxiNext
<1>2. UNCHANGED <<stored, holder, op, held, signed, forgotten, told>>
    BY DEF TaxiNext
<1> DEFINE s == advance'[t]
<1>3. /\ requests' \in SUBSET Payments
      /\ \/ advance' = advance
         \/ /\ advance' = [advance EXCEPT ![t] = s]
            /\ <<advance[t], s>> \in Moves \cup {<<"quoted", "locking">>}
    BY <1>1 DEF Arrive, Progress, Accept, SenderTypeOK
<1>4. CASE advance' = advance
    BY <1>2, <1>3, <1>4
    DEF SenderTypeOK, HeldTypeOK, PaymentsAreQuoted, ConfirmsAlone, SeenIsTrue, SeenStands,
        RecordKeptWhileItMayLand, OutcomeIsTrue, MayLand
<1>5. CASE /\ advance' = [advance EXCEPT ![t] = s]
           /\ <<advance[t], s>> \in Moves \cup {<<"quoted", "locking">>}
  <2>1. /\ s \in Statuses
        /\ \A status : SeenStands(status, advance[t]) => SeenStands(status, s)
        /\ s \in {"quoted", "locking", "failed"} => advance[t] \in {"quoted", "locking", "failed"}
        /\ advance[t] # "expired"
        /\ advance[t] = "returned" => s = "returned"
        /\ advance[t] \in Landed => s \in Landed
    <3>1. CASE <<advance[t], s>> \in Moves
        BY <3>1, MovesOn
    <3>2. CASE <<advance[t], s>> = <<"quoted", "locking">>
        BY <3>2 DEF Statuses, SeenStands, Landed
    <3> QED BY <1>5, <3>1, <3>2
  <2>2. /\ advance' \in [Payments -> Statuses \cup {Nil}]
        /\ \A u \in Payments : u # t => advance'[u] = advance[u]
        /\ s # Nil /\ advance \in [Payments -> Statuses \cup {Nil}]
    BY <1>5, <2>1 DEF SenderTypeOK, Statuses, Landed, Nil
  <2>3. SenderTypeOK' /\ HeldTypeOK'
    BY <1>2, <1>3, <2>2 DEF SenderTypeOK, HeldTypeOK
  <2>4. \A u \in Payments : advance[u] # Nil => advance'[u] # Nil
    BY <2>2
  <2>5. PaymentsAreQuoted'
    BY <1>2, <2>4, NamesPayments DEF PaymentsAreQuoted, SenderTypeOK
  <2>6. ConfirmsAlone'
    BY <1>2 DEF ConfirmsAlone
  <2>7. SeenIsTrue'
    BY <1>2, <2>1, <2>2, NamesPayments DEF SeenIsTrue
  <2>8. RecordKeptWhileItMayLand'
    BY <1>2, <2>1, <2>2 DEF RecordKeptWhileItMayLand, MayLand
  <2>9. OutcomeIsTrue'
    BY <1>2, <2>1, <2>2 DEF OutcomeIsTrue
  <2> QED BY <2>3, <2>5, <2>6, <2>7, <2>8, <2>9
<1> QED BY <1>3, <1>4, <1>5

-----------------------------------------------------------------------------
Errors == [kind : {Nil, "pending", "failed"}, payment : 0 .. MaxPayments]

(* A step of a context that signs nothing and takes no quote: it names only *)
(* payments that were named, and touches the lock only if nobody else has  *)
(* it.                                                                     *)
LEMMA OpStep ==
    ASSUME SenderInv, NEW p \in Contexts,
           UNCHANGED <<advance, signed>>,
           requests' \in SUBSET Payments, forgotten' \in SUBSET Payments,
           stored' \in {stored, Nobody},
           holder' = holder \/ (holder \in {p, Nil} /\ holder' \in {p, Nil}),
           NEW o \in Ops, NEW e \in Errors,
           op' = [op EXCEPT ![p] = o], held' = [held EXCEPT ![p] = e],
           o.payment \in {Nobody, op[p].payment, stored, held[p].payment},
           e.payment \in {Nobody, op[p].payment, stored, held[p].payment},
           o.step # Nil => o.payment # Nobody, e.kind # Nil => e.payment # Nobody,
           o.step # "confirming",
           o.payment # Nobody => SeenStands(o.seen, advance[o.payment])
    PROVE  SenderTypeOK' /\ held' \in [Contexts -> Errors]
           /\ PaymentsAreQuoted' /\ ConfirmsAlone' /\ SeenIsTrue'
<1> USE DEF SenderInv
<1>1. SenderTypeOK' /\ held' \in [Contexts -> Errors]
  <2>1. held' \in [Contexts -> Errors]
    BY DEF HeldTypeOK, Errors
  <2>2. op' \in [Contexts -> Ops]
    BY DEF SenderTypeOK
  <2>3. holder' \in Contexts \cup {Nil}
    BY DEF SenderTypeOK
  <2>4. stored' \in 0 .. MaxPayments
    BY SenderAssumption DEF SenderTypeOK, Nobody
  <2> QED BY <2>1, <2>2, <2>3, <2>4 DEF SenderTypeOK
<1>2. /\ op'[p] = o /\ \A q \in Contexts \ {p} : op'[q] = op[q]
      /\ held'[p] = e /\ \A q \in Contexts \ {p} : held'[q] = held[q]
    BY DEF SenderTypeOK, HeldTypeOK
<1>3. PaymentsAreQuoted'
    BY <1>2 DEF PaymentsAreQuoted
<1>4. ConfirmsAlone'
    BY <1>2, SenderAssumption DEF ConfirmsAlone, Nil
<1>5. SeenIsTrue'
    BY <1>2 DEF SeenIsTrue
<1> QED BY <1>1, <1>3, <1>4, <1>5

(* Nothing changes that the last two conjuncts are about.                  *)
LEMMA KeepsRecord ==
    ASSUME SenderInv, UNCHANGED <<advance, stored, signed, forgotten, told>>
    PROVE  RecordKeptWhileItMayLand' /\ OutcomeIsTrue'
    BY DEF SenderInv, RecordKeptWhileItMayLand, OutcomeIsTrue, MayLand

-----------------------------------------------------------------------------
LEMMA NoOpShape == NoOp \in Ops /\ NoOp.payment = Nobody /\ NoOp.step = Nil
    BY SenderAssumption DEF NoOp, Ops, Nobody, Nil

LEMMA ErrorShapes ==
    /\ NoError \in Errors /\ NoError.payment = Nobody /\ NoError.kind = Nil
    /\ \A t \in Payments : /\ Pending(t) \in Errors /\ Failed(t) \in Errors
                           /\ Pending(t).payment = t /\ Failed(t).payment = t
    BY SenderAssumption DEF NoError, Pending, Failed, Errors, Payments, Nobody, Nil

(* An operation that ends without an outcome.                              *)
LEMMA EndsStep ==
    ASSUME SenderInv, NEW p \in Contexts, NEW e \in Errors,
           Ends(p, e), e.payment \in {Nobody, op[p].payment, stored, held[p].payment},
           e.kind # Nil => e.payment # Nobody,
           UNCHANGED <<advance, signed>>, stored' \in {stored, Nobody},
           requests' \in SUBSET Payments, forgotten' \in SUBSET Payments
    PROVE  SenderTypeOK' /\ held' \in [Contexts -> Errors]
           /\ PaymentsAreQuoted' /\ ConfirmsAlone' /\ SeenIsTrue'
<1>1. holder' = holder \/ (holder \in {p, Nil} /\ holder' \in {p, Nil})
    BY DEF Ends, Unlocked
<1> QED BY <1>1, OpStep, NoOpShape DEF Ends, Nil

-----------------------------------------------------------------------------
LEMMA QuotedStep ==
    ASSUME SenderInv, NEW p \in Contexts, holder = Nil, Quoted(p),
           UNCHANGED <<requests, stored, signed, forgotten, told>>
    PROVE  SenderInv'
<1> USE DEF SenderInv
<1>1. PICK t \in Payments :
        /\ advance[t] = Nil /\ advance' = [advance EXCEPT ![t] = "quoted"]
        /\ op' = [op EXCEPT ![p] = [NoOp EXCEPT !.kind = "send", !.step = "confirming",
                                                !.payment = t]]
    BY DEF Quoted
<1> DEFINE o == [NoOp EXCEPT !.kind = "send", !.step = "confirming", !.payment = t]
<1>2. /\ o \in Ops /\ o.payment = t /\ o.step = "confirming" /\ o.seen = Nil
  <2>1. t \in 0 .. MaxPayments
    BY SenderAssumption DEF Payments
  <2>2. NoOp \in Ops /\ NoOp.seen = Nil
    BY NoOpShape DEF NoOp
  <2> QED BY <2>1, <2>2 DEF Ops
<1>3. /\ op'[p] = o /\ \A q \in Contexts \ {p} : op'[q] = op[q]
      /\ op' \in [Contexts -> Ops]
    BY <1>1, <1>2 DEF SenderTypeOK
<1> HIDE DEF o
<1>4. /\ advance' \in [Payments -> Statuses \cup {Nil}] /\ advance'[t] = "quoted"
      /\ \A u \in Payments : u # t => advance'[u] = advance[u]
      /\ \A u \in Payments : advance[u] # Nil => u # t
    BY <1>1 DEF SenderTypeOK, Statuses, Landed
<1>5. held' = held /\ holder' = p /\ stored = Nobody
    BY DEF Quoted
<1>6. SenderTypeOK' /\ HeldTypeOK'
    BY <1>3, <1>4, <1>5 DEF SenderTypeOK, HeldTypeOK
<1>7. t \notin signed
    BY <1>1 DEF PaymentsAreQuoted
<1>8. PaymentsAreQuoted'
  <2>1. \A u \in signed : advance'[u] # Nil
    BY <1>4 DEF PaymentsAreQuoted, SenderTypeOK, Nil
  <2>2. ASSUME NEW q \in Contexts
        PROVE  /\ op'[q].payment # Nobody => advance'[op'[q].payment] # Nil
               /\ held'[q].payment # Nobody => advance'[held'[q].payment] # Nil
               /\ op'[q].step # Nil => op'[q].payment # Nobody
               /\ held'[q].kind # Nil => held'[q].payment # Nobody
    <3>1. /\ held'[q].payment # Nobody => advance'[held'[q].payment] # Nil
          /\ held'[q].kind # Nil => held'[q].payment # Nobody
        BY <1>4, <1>5, NamesPayments DEF PaymentsAreQuoted, Nil
    <3>2. CASE q = p
        BY <1>2, <1>3, <1>4, <3>1, <3>2, SenderAssumption DEF Payments, Nobody, Nil
    <3>3. CASE q # p
        BY <1>3, <1>4, <3>1, <3>3, NamesPayments DEF PaymentsAreQuoted, Nil
    <3> QED BY <3>2, <3>3
  <2> QED BY <1>5, <2>1, <2>2 DEF PaymentsAreQuoted
<1>9. ConfirmsAlone'
    BY <1>2, <1>3, <1>5, <1>7, SenderAssumption DEF ConfirmsAlone, Nil
<1>10. SeenIsTrue'
  <2>1. SeenStands(Nil, "quoted")
    BY DEF SeenStands, Landed, Nil
  <2> QED BY <1>2, <1>3, <1>4, <2>1, NamesPayments DEF SeenIsTrue, PaymentsAreQuoted
<1>11. RecordKeptWhileItMayLand'
    BY <1>4, <1>7 DEF RecordKeptWhileItMayLand, MayLand
<1>12. OutcomeIsTrue'
    BY <1>1, <1>4 DEF OutcomeIsTrue, Landed, Nil
<1> QED BY <1>6, <1>8, <1>9, <1>10, <1>11, <1>12

LEMMA SendStep == SenderInv /\ (\E p \in Contexts : Send(p)) => SenderInv'
<1> SUFFICES ASSUME SenderInv, NEW p \in Contexts, Send(p) PROVE SenderInv'
    OBVIOUS
<1> USE DEF SenderInv
<1>1. CASE Blocked(p)
  <2>1. Pending(stored) \in Errors /\ Pending(stored).payment = stored
    BY <1>1, NamesPayments, ErrorShapes DEF Blocked
  <2>2. /\ Ends(p, Pending(stored)) /\ stored # Nobody
        /\ UNCHANGED <<advance, requests, stored, signed, forgotten, told>>
    BY <1>1 DEF Blocked, Send
  <2>3. requests' \in SUBSET Payments /\ forgotten' \in SUBSET Payments
    BY <2>2 DEF SenderTypeOK
  <2>4. /\ SenderTypeOK' /\ held' \in [Contexts -> Errors]
        /\ PaymentsAreQuoted' /\ ConfirmsAlone' /\ SeenIsTrue'
    BY <2>1, <2>2, <2>3, EndsStep
  <2> QED BY <2>2, <2>4, KeepsRecord DEF HeldTypeOK, Errors
<1>2. CASE Quoted(p)
    BY <1>2, QuotedStep DEF Send
<1> QED BY <1>1, <1>2 DEF Send

-----------------------------------------------------------------------------
(* What a context's operation becomes when only a few fields change.       *)
LEMMA OpFields ==
    ASSUME SenderTypeOK, NEW p \in Contexts
    PROVE  /\ op[p] \in Ops
           /\ \A step \in {"submitting", "asking"}, armed \in BOOLEAN :
                 LET o == [op[p] EXCEPT !.step = step, !.armed = armed] IN
                 /\ o \in Ops /\ o.step = step
                 /\ o.payment = op[p].payment /\ o.seen = op[p].seen
           /\ \A step \in {"submitting", "asking"} :
                 LET o == [op[p] EXCEPT !.step = step] IN
                 /\ o \in Ops /\ o.step = step
                 /\ o.payment = op[p].payment /\ o.seen = op[p].seen
           /\ \A status \in Statuses :
                 LET o == [op[p] EXCEPT !.step = "seen", !.seen = status] IN
                 /\ o \in Ops /\ o.step = "seen"
                 /\ o.payment = op[p].payment /\ o.seen = status
    BY DEF SenderTypeOK, Ops

LEMMA ConfirmedStep == SenderInv /\ (\E p \in Contexts : Confirmed(p)) => SenderInv'
<1> SUFFICES ASSUME SenderInv, NEW p \in Contexts, Confirmed(p) PROVE SenderInv'
    OBVIOUS
<1> USE DEF SenderInv
<1> DEFINE t == op[p].payment
           o == [op[p] EXCEPT !.step = "submitting", !.armed = TRUE]
<1>1. /\ t \in Payments /\ holder = p /\ stored = Nobody /\ t \notin signed
      /\ advance[t] # Nil
    BY NamesPayments DEF Confirmed, PaymentsAreQuoted, ConfirmsAlone, Nil
<1>2. CASE Ends(p, NoError) /\ UNCHANGED <<requests, stored, signed, advance, forgotten, told>>
  <2>1. /\ SenderTypeOK' /\ held' \in [Contexts -> Errors]
        /\ PaymentsAreQuoted' /\ ConfirmsAlone' /\ SeenIsTrue'
    BY <1>2, EndsStep, ErrorShapes DEF SenderTypeOK, Nil
  <2> QED BY <1>2, <2>1, KeepsRecord DEF HeldTypeOK, Errors
<1>3. CASE /\ signed' = signed \cup {t} /\ stored' = t /\ requests' = requests \cup {t}
           /\ op' = [op EXCEPT ![p] = o]
           /\ UNCHANGED <<holder, held, advance, forgotten, told>>
  <2>1. o \in Ops /\ o.step = "submitting" /\ o.payment = t /\ o.seen = op[p].seen
    BY OpFields
  <2> HIDE DEF o, t
  <2>2. /\ op'[p] = o /\ \A q \in Contexts \ {p} : op'[q] = op[q]
        /\ op' \in [Contexts -> Ops]
    BY <1>3, <2>1 DEF SenderTypeOK
  <2>3. SenderTypeOK' /\ HeldTypeOK'
    <3>1. stored' \in 0 .. MaxPayments /\ requests' \in SUBSET Payments /\ signed' \in SUBSET Payments
        BY <1>1, <1>3, SenderAssumption DEF SenderTypeOK, Payments
    <3> QED BY <1>3, <2>2, <3>1 DEF SenderTypeOK, HeldTypeOK
  <2>4. PaymentsAreQuoted'
    <3>1. \A u \in signed' : advance'[u] # Nil
        BY <1>1, <1>3 DEF PaymentsAreQuoted
    <3>2. t # Nobody
        BY <1>1, SenderAssumption DEF Payments, Nobody
    <3>3. \A q \in Contexts : /\ op'[q].payment = op[q].payment
                              /\ op'[q].step # Nil => op'[q].payment # Nobody
        BY <2>1, <2>2, <3>2 DEF PaymentsAreQuoted, t
    <3>4. stored' # Nobody => advance'[stored'] # Nil
        BY <1>1, <1>3
    <3>5. UNCHANGED <<advance, held>>
        BY <1>3
    <3> QED BY <3>1, <3>3, <3>4, <3>5 DEF PaymentsAreQuoted
  <2>5. ConfirmsAlone'
    BY <1>1, <1>3, <2>1, <2>2 DEF ConfirmsAlone
  <2>6. SeenIsTrue'
    BY <1>3, <2>1, <2>2 DEF SeenIsTrue, t
  <2>7. RecordKeptWhileItMayLand'
    BY <1>1, <1>3, SenderAssumption DEF RecordKeptWhileItMayLand, MayLand, Payments, Nobody
  <2>8. OutcomeIsTrue'
    BY <1>3 DEF OutcomeIsTrue
  <2> QED BY <2>3, <2>4, <2>5, <2>6, <2>7, <2>8
<1> QED BY <1>2, <1>3 DEF Confirmed, Journal

(* The steps below change the operation of one context, and no quote.      *)
LEMMA AnsweredStep == SenderInv /\ (\E p \in Contexts : Answered(p)) => SenderInv'
<1> SUFFICES ASSUME SenderInv, NEW p \in Contexts, Answered(p) PROVE SenderInv'
    OBVIOUS
<1> USE DEF SenderInv
<1> DEFINE t == op[p].payment
<1>1. /\ t \in Payments /\ UNCHANGED <<advance, requests, stored, signed, forgotten, told>>
      /\ requests' \in SUBSET Payments /\ forgotten' \in SUBSET Payments
    BY NamesPayments DEF Answered, PaymentsAreQuoted, SenderTypeOK, Nil
<1>2. /\ SenderTypeOK' /\ held' \in [Contexts -> Errors]
      /\ PaymentsAreQuoted' /\ ConfirmsAlone' /\ SeenIsTrue'
  <2>1. CASE Ends(p, Pending(t))
    BY <1>1, <2>1, EndsStep, ErrorShapes, SenderAssumption DEF Payments, Nobody
  <2>2. ASSUME NEW o \in Ops, o.step = "asking", o.payment = t, o.seen = op[p].seen,
               op' = [op EXCEPT ![p] = o], UNCHANGED <<holder, held>>
        PROVE  /\ SenderTypeOK' /\ held' \in [Contexts -> Errors]
               /\ PaymentsAreQuoted' /\ ConfirmsAlone' /\ SeenIsTrue'
    <3>1. held[p] \in Errors /\ held' = [held EXCEPT ![p] = held[p]]
        BY <2>2 DEF HeldTypeOK, Errors
    <3>2. o.payment # Nobody => SeenStands(o.seen, advance[o.payment])
        BY <2>2 DEF SeenIsTrue
    <3>3. t # Nobody
        BY <1>1, SenderAssumption DEF Payments, Nobody
    <3>4. held[p].kind # Nil => held[p].payment # Nobody
        BY DEF PaymentsAreQuoted
    <3> QED BY <1>1, <2>2, <3>1, <3>2, <3>3, <3>4, OpStep
  <2>3. CASE op' = [op EXCEPT ![p] = [@ EXCEPT !.step = "asking", !.armed = FALSE]]
             /\ UNCHANGED <<holder, held>>
    BY <2>2, <2>3, OpFields
  <2>4. CASE op' = [op EXCEPT ![p].step = "asking"] /\ UNCHANGED <<holder, held>>
    BY <2>2, <2>4, OpFields
  <2> QED BY <2>1, <2>3, <2>4 DEF Answered
<1> QED BY <1>1, <1>2, KeepsRecord DEF HeldTypeOK, Errors

LEMMA ReadStep == SenderInv /\ (\E p \in Contexts : ReadStatus(p)) => SenderInv'
<1> SUFFICES ASSUME SenderInv, NEW p \in Contexts, ReadStatus(p) PROVE SenderInv'
    OBVIOUS
<1> USE DEF SenderInv
<1> DEFINE t == op[p].payment
           o == [op[p] EXCEPT !.step = "seen", !.seen = advance[t]]
<1>1. /\ t \in Payments /\ UNCHANGED <<advance, requests, stored, signed, forgotten, told>>
      /\ requests' \in SUBSET Payments /\ forgotten' \in SUBSET Payments
      /\ t # Nobody /\ advance[t] \in Statuses
    BY NamesPayments DEF ReadStatus, PaymentsAreQuoted, SenderTypeOK, Nil
<1>2. /\ SenderTypeOK' /\ held' \in [Contexts -> Errors]
      /\ PaymentsAreQuoted' /\ ConfirmsAlone' /\ SeenIsTrue'
  <2>1. CASE Ends(p, Pending(t))
    BY <1>1, <2>1, EndsStep, ErrorShapes
  <2>2. CASE op' = [op EXCEPT ![p] = o] /\ UNCHANGED <<holder, held>>
    <3>1. o \in Ops /\ o.step = "seen" /\ o.payment = t /\ o.seen = advance[t]
        BY <1>1, OpFields
    <3> HIDE DEF o
    <3>2. held[p] \in Errors /\ held' = [held EXCEPT ![p] = held[p]]
        BY <2>2 DEF HeldTypeOK, Errors
    <3>3. SeenStands(o.seen, advance[o.payment])
        BY <3>1 DEF SeenStands
    <3>4. held[p].kind # Nil => held[p].payment # Nobody
        BY DEF PaymentsAreQuoted
    <3> QED BY <1>1, <2>2, <3>1, <3>2, <3>3, <3>4, OpStep
  <2> QED BY <2>1, <2>2 DEF ReadStatus
<1> QED BY <1>1, <1>2, KeepsRecord DEF HeldTypeOK, Errors

LEMMA HandleStep == SenderInv /\ (\E p \in Contexts : HandleStatus(p)) => SenderInv'
<1> SUFFICES ASSUME SenderInv, NEW p \in Contexts, HandleStatus(p) PROVE SenderInv'
    OBVIOUS
<1> USE DEF SenderInv
<1> DEFINE t == op[p].payment
           seen == op[p].seen
<1>1. /\ t \in Payments /\ t # Nobody /\ advance[t] # Nil /\ SeenStands(seen, advance[t])
      /\ UNCHANGED <<advance, signed>> /\ forgotten \in SUBSET Payments /\ requests \in SUBSET Payments
    BY NamesPayments DEF HandleStatus, PaymentsAreQuoted, SenderTypeOK, SeenIsTrue, Nil
<1> DEFINE Shaped == /\ SenderTypeOK' /\ held' \in [Contexts -> Errors]
                     /\ PaymentsAreQuoted' /\ ConfirmsAlone' /\ SeenIsTrue'
<1>2. CASE SettlesPayment(p, t)
  <2>1. CASE Clears(t) /\ stored' = Nobody /\ told' = [told EXCEPT ![t] = Outcome(seen)]
             /\ Ends(p, NoError) /\ UNCHANGED <<requests, forgotten>>
    <3>1. Shaped
        BY <1>1, <2>1, EndsStep, ErrorShapes
    <3>2. /\ Outcome(seen) \in {"sent", "returned", "not sent"}
          /\ Outcome(seen) = "not sent" => advance[t] = "expired"
          /\ Outcome(seen) = "sent" => advance[t] \in Landed
          /\ Outcome(seen) = "returned" => advance[t] = "returned"
        BY <1>1, <1>2 DEF SettlesPayment, Outcome, SeenStands, Landed, Nil
    <3>3. HeldTypeOK' /\ OutcomeIsTrue'
        BY <1>1, <2>1, <3>1, <3>2 DEF HeldTypeOK, Errors, OutcomeIsTrue
    <3>4. ~MayLand(t)
        BY <3>2 DEF MayLand, Landed
    <3>5. \A u \in Payments \ forgotten : ~MayLand(u)
        BY <2>1, <3>4, SenderAssumption DEF RecordKeptWhileItMayLand, Clears, Payments, Nobody
    <3>6. RecordKeptWhileItMayLand'
        BY <1>1, <2>1, <3>5 DEF RecordKeptWhileItMayLand, MayLand
    <3> QED BY <3>1, <3>3, <3>6
  <2>2. CASE Ends(p, Pending(t)) /\ UNCHANGED <<stored, told, requests, forgotten>>
    <3>1. Shaped
        BY <1>1, <2>2, EndsStep, ErrorShapes
    <3> QED BY <1>1, <2>2, <3>1, KeepsRecord DEF HeldTypeOK, Errors
  <2> QED BY <1>2, <2>1, <2>2 DEF SettlesPayment
<1>3. CASE GivesUp(p, t)
  <2>1. CASE stored = t /\ stored' = Nobody /\ forgotten' = forgotten \cup {t}
             /\ Ends(p, NoError) /\ UNCHANGED <<requests, told>>
    <3>1. Shaped
        BY <1>1, <2>1, EndsStep, ErrorShapes
    <3>2. RecordKeptWhileItMayLand'
        BY <1>1, <2>1 DEF RecordKeptWhileItMayLand, MayLand
    <3>3. HeldTypeOK' /\ OutcomeIsTrue'
        BY <1>1, <2>1, <3>1 DEF HeldTypeOK, Errors, OutcomeIsTrue
    <3> QED BY <3>1, <3>2, <3>3
  <2>2. CASE Ends(p, Failed(t)) /\ UNCHANGED <<stored, told, requests, forgotten>>
    <3>1. Shaped
        BY <1>1, <2>2, EndsStep, ErrorShapes
    <3> QED BY <1>1, <2>2, <3>1, KeepsRecord DEF HeldTypeOK, Errors
  <2> QED BY <1>3, <2>1, <2>2 DEF GivesUp
<1>4. CASE Waits(p, t)
  <2>1. ASSUME NEW o \in Ops, o.step \in {"asking", "submitting"}, o.payment = t, o.seen = seen,
               op' = [op EXCEPT ![p] = o], requests' \in SUBSET Payments
        PROVE  SenderInv'
    <3>1. /\ UNCHANGED <<stored, forgotten, told, holder, held, advance, signed>>
          /\ held[p] \in Errors /\ held' = [held EXCEPT ![p] = held[p]]
        BY <1>1, <1>4 DEF Waits, HeldTypeOK, Errors
    <3>2. held[p].kind # Nil => held[p].payment # Nobody
        BY DEF PaymentsAreQuoted
    <3>3. Shaped
        BY <1>1, <2>1, <3>1, <3>2, OpStep
    <3> QED BY <3>1, <3>3, KeepsRecord DEF HeldTypeOK, Errors
  <2>2. CASE op' = [op EXCEPT ![p].step = "submitting"] /\ requests' = requests \cup {t}
    <3>1. requests' \in SUBSET Payments
        BY <1>1, <2>2
    <3> QED BY <2>1, <2>2, <3>1, OpFields
  <2>3. CASE /\ op' = [op EXCEPT ![p] = [@ EXCEPT !.step = "asking", !.armed = (@ /\ seen = "quoted")]]
             /\ UNCHANGED requests
    <3>1. (op[p].armed /\ seen = "quoted") \in BOOLEAN
        OBVIOUS
    <3> QED BY <1>1, <2>1, <2>3, <3>1, OpFields
  <2> QED BY <1>4, <2>2, <2>3 DEF Waits
<1> QED BY <1>2, <1>3, <1>4 DEF HandleStatus

-----------------------------------------------------------------------------
(* What a context resumes it was given, or found on record.                *)
LEMMA ResumesStep ==
    ASSUME SenderInv, NEW p \in Contexts, NEW t \in Payments, t \in {stored, held[p].payment},
           NEW kind \in {"resume", "recheck", "forget"}, Resumes(p, kind, t),
           holder' = holder \/ (holder = Nil /\ holder' = p),
           UNCHANGED <<advance, requests, stored, held, signed, forgotten, told>>
    PROVE  SenderInv'
<1> USE DEF SenderInv
<1> DEFINE o == [NoOp EXCEPT !.kind = kind, !.step = "asking", !.payment = t, !.armed = TRUE]
<1>1. /\ o \in Ops /\ o.payment = t /\ o.step = "asking" /\ o.seen = Nil
  <2>1. t \in 0 .. MaxPayments
    BY SenderAssumption DEF Payments
  <2>2. NoOp \in Ops /\ NoOp.seen = Nil
    BY NoOpShape DEF NoOp
  <2> QED BY <2>1, <2>2 DEF Ops
<1>2. op' = [op EXCEPT ![p] = o]
    BY DEF Resumes
<1> HIDE DEF o
<1>3. t # Nobody
    BY SenderAssumption DEF Payments, Nobody
<1>4. /\ held[p] \in Errors /\ held' = [held EXCEPT ![p] = held[p]]
      /\ held[p].kind # Nil => held[p].payment # Nobody
    BY DEF HeldTypeOK, Errors, PaymentsAreQuoted
<1>5. SeenStands(o.seen, advance[o.payment])
    BY <1>1 DEF SeenStands, Landed, Nil
<1>6. requests' \in SUBSET Payments /\ forgotten' \in SUBSET Payments
    BY DEF SenderTypeOK
<1>7. /\ SenderTypeOK' /\ held' \in [Contexts -> Errors]
      /\ PaymentsAreQuoted' /\ ConfirmsAlone' /\ SeenIsTrue'
    BY <1>1, <1>2, <1>3, <1>4, <1>5, <1>6, OpStep
<1> QED BY <1>7, KeepsRecord DEF HeldTypeOK, Errors

LEMMA ResumeStoredStep == SenderInv /\ (\E p \in Contexts : ResumeStored(p)) => SenderInv'
<1> SUFFICES ASSUME SenderInv, NEW p \in Contexts, ResumeStored(p) PROVE SenderInv'
    OBVIOUS
<1>1. stored \in Payments
    BY NamesPayments DEF SenderInv, ResumeStored
<1> QED BY <1>1, ResumesStep DEF ResumeStored

LEMMA ResumeHeldStep == SenderInv /\ (\E p \in Contexts : ResumeHeld(p)) => SenderInv'
<1> SUFFICES ASSUME SenderInv, NEW p \in Contexts, ResumeHeld(p) PROVE SenderInv'
    OBVIOUS
<1>1. held[p].payment \in Payments
    BY NamesPayments DEF SenderInv, ResumeHeld, PaymentsAreQuoted, Nil
<1> QED BY <1>1, ResumesStep DEF ResumeHeld

LEMMA RestoreStep == SenderInv /\ (\E p \in Contexts : RestorePending(p)) => SenderInv'
<1> SUFFICES ASSUME SenderInv, NEW p \in Contexts, RestorePending(p) PROVE SenderInv'
    OBVIOUS
<1> USE DEF SenderInv
<1>1. /\ stored \in Payments /\ Pending(stored) \in Errors /\ Pending(stored).payment = stored
      /\ stored # Nobody
    BY NamesPayments, ErrorShapes DEF RestorePending
<1>2. /\ held' = [held EXCEPT ![p] = Pending(stored)] /\ op' = [op EXCEPT ![p] = op[p]]
      /\ op[p] \in Ops
    BY DEF RestorePending, SenderTypeOK, ConfirmsAlone
<1>3. UNCHANGED <<advance, requests, stored, holder, op, signed, forgotten, told>>
    BY DEF RestorePending
<1>4. SenderTypeOK' /\ held' \in [Contexts -> Errors]
    BY <1>1, <1>2, <1>3 DEF SenderTypeOK, HeldTypeOK, Errors
<1>5. /\ held'[p] = Pending(stored) /\ \A q \in Contexts \ {p} : held'[q] = held[q]
    BY <1>2 DEF HeldTypeOK
<1>6. PaymentsAreQuoted'
    BY <1>1, <1>3, <1>5 DEF PaymentsAreQuoted
<1>7. ConfirmsAlone' /\ SeenIsTrue'
    BY <1>3 DEF ConfirmsAlone, SeenIsTrue
<1> QED BY <1>3, <1>4, <1>6, <1>7, KeepsRecord DEF HeldTypeOK, Errors

LEMMA CloseStep == SenderInv /\ (\E p \in Contexts : CloseContext(p)) => SenderInv'
<1> SUFFICES ASSUME SenderInv, NEW p \in Contexts, CloseContext(p) PROVE SenderInv'
    OBVIOUS
<1> USE DEF SenderInv
<1>1. /\ Ends(p, NoError) /\ UNCHANGED <<advance, requests, stored, signed, forgotten, told>>
      /\ requests' \in SUBSET Payments /\ forgotten' \in SUBSET Payments
    BY DEF CloseContext, SenderTypeOK
<1>2. /\ SenderTypeOK' /\ held' \in [Contexts -> Errors]
      /\ PaymentsAreQuoted' /\ ConfirmsAlone' /\ SeenIsTrue'
    BY <1>1, EndsStep, ErrorShapes
<1> QED BY <1>1, <1>2, KeepsRecord DEF HeldTypeOK, Errors

LEMMA NextStep == SenderInv /\ [SenderNext]_senderVars => SenderInv'
<1> SUFFICES ASSUME SenderInv, [SenderNext]_senderVars PROVE SenderInv'
    OBVIOUS
<1>1. CASE TaxiNext
    BY <1>1, TaxiStep
<1>2. CASE \E p \in Contexts : ContextNext(p)
    BY <1>2, SendStep, ConfirmedStep, AnsweredStep, ReadStep, HandleStep, ResumeStoredStep,
       RestoreStep, ResumeHeldStep, CloseStep
    DEF ContextNext
<1>3. CASE UNCHANGED senderVars
    BY <1>3
    DEF senderVars, SenderInv, SenderTypeOK, HeldTypeOK, PaymentsAreQuoted, ConfirmsAlone,
        SeenIsTrue, SeenStands, RecordKeptWhileItMayLand, OutcomeIsTrue, MayLand
<1> QED BY <1>1, <1>2, <1>3 DEF SenderNext

-----------------------------------------------------------------------------
(* The wallet's inductive invariant: records, errors and operations name   *)
(* quoted payments, a user confirms alone, a status read stays true.       *)
THEOREM SenderInvariant == SenderSpec => []SenderInv
<1> QED BY InitHolds, NextStep, PTL DEF SenderSpec

(* For any number of contexts and payments a signed payment that may still *)
(* land is on record, unless the user forgot it after the Taxi gave up:    *)
(* no second payment is signed beside it (send.ts, waitForSettlement).     *)
THEOREM RecordAlwaysKept == SenderSpec => []RecordKeptWhileItMayLand
<1>1. SenderInv => RecordKeptWhileItMayLand
    BY DEF SenderInv
<1> QED BY <1>1, SenderInvariant, PTL

(* For any number of contexts and payments the outcome the user was given  *)
(* is the Taxi's, and the Taxi's never changes it (waitForSettlement).     *)
THEOREM OutcomesAreTrue == SenderSpec => []OutcomeIsTrue
<1>1. SenderInv => OutcomeIsTrue
    BY DEF SenderInv
<1> QED BY <1>1, SenderInvariant, PTL

-----------------------------------------------------------------------------
(* The queue of claims.                                                     *)

Steps == {Absent, "next", "lock", "facts", "signed", "submitted"}
Asks == [claim : Claims, epoch : 0 .. MaxToggles]
Spends == [claim : Claims, coin : Coins \cup {Absent}]

QueueTypeOK ==
    /\ offers \in [Claims -> 0 .. MaxOffers] /\ given \in [Claims -> 0 .. MaxOffers]
    /\ capability \subseteq Claims /\ claimed \subseteq Claims /\ spent \subseteq Claims
    /\ alive \in BOOLEAN /\ active \in BOOLEAN /\ automatic \in BOOLEAN
    /\ toggles \in 0 .. MaxToggles /\ epoch \in 0 .. toggles
    /\ scheduled \in BOOLEAN /\ woken \in BOOLEAN /\ overtaken \in BOOLEAN
    /\ running \in Runs /\ asked \subseteq Asks
    /\ consumed \subseteq Coins /\ graphs \subseteq Spends /\ landed \subseteq Spends
    /\ faults \in 0 .. MaxFaults

(* A run that is at a claim is at one whose attempts have not ended.        *)
Trying == {"lock", "facts", "signed", "submitted"}
TriesUnspent == running.step \in Trying => running.claim \in Claims \ spent

(* A signed claim was tried for good, or its capability stays consumed:     *)
(* while its run is at it, and once it is recorded as claimed.              *)
Attempted(c) == running.step \in {"signed", "submitted"} /\ running.claim = c
SignedStayConsumed ==
    \A g \in graphs : \/ g.claim \in spent
                      \/ g.claim \in capability /\ (g.claim \in claimed \/ Attempted(g.claim))

(* The run of a claim has its capability, and before it signs no graph has  *)
(* the claim or the coin set aside for it.                                  *)
HasItsCapability ==
    running.step \in {"facts", "signed", "submitted"} => running.claim \in capability
AsideForTheRun ==
    running.step = "facts" =>
       /\ running.coin # Absent => running.coin \in consumed
       /\ \A g \in graphs : /\ g.claim # running.claim
                            /\ g.coin = Absent \/ g.coin # running.coin

SignedCoinsConsumed == \A g \in graphs : g.coin # Absent => g.coin \in consumed

QueueInv ==
    /\ QueueTypeOK /\ TriesUnspent /\ SignedStayConsumed /\ HasItsCapability
    /\ AsideForTheRun /\ SignedCoinsConsumed /\ OneSpendEach

(* The run in progress is at no claim any more, or not yet.                 *)
Between == running'.step \in {Absent, "next"}

(* Steps of others than the run.                                            *)
Others ==
    /\ running' = running
    /\ UNCHANGED <<claimed, spent, consumed, graphs>>
    /\ \A c \in capability : c \in capability' \/ (c \notin claimed /\ running.claim # c)

(* The resting run is one.                                                  *)
LEMMA RestTyped == Rest \in Runs /\ Rest.step = Absent
BY QueueAssumption DEF Rest, Runs

(* A run that is done with an offer goes on or rests.                       *)
LEMMA OverGoesOn ==
    ASSUME QueueTypeOK, Over
    PROVE  running' \in Runs /\ Between /\ woken' \in BOOLEAN /\ scheduled' \in BOOLEAN
<1>1. CASE running.automatic
  <2> DEFINE r == [running EXCEPT !.step = "next", !.claim = Absent, !.offer = 0, !.coin = Absent]
  <2>1. running' = r /\ woken' = woken /\ scheduled' = scheduled
    BY <1>1 DEF Over
  <2>2. running \in Runs /\ 0 \in 0 .. MaxOffers
    BY QueueAssumption DEF QueueTypeOK
  <2>3. r \in Runs /\ r.step = "next"
    BY <2>2 DEF Runs
  <2>. QED  BY <2>1, <2>3 DEF Between, QueueTypeOK
<1>2. CASE ~running.automatic
  BY <1>2, RestTyped DEF Over, Rests, Between, QueueTypeOK
<1>. QED  BY <1>1, <1>2

(* Steps that leave the run alone keep what it relies on.                   *)
LEMMA OthersKeep == ASSUME QueueInv, Others, QueueTypeOK' PROVE QueueInv'
BY DEF QueueInv, Others, TriesUnspent, SignedStayConsumed, Attempted, HasItsCapability,
   AsideForTheRun, SignedCoinsConsumed, OneSpendEach

(* A run between two claims, or at the lock of one that was not tried.      *)
LEMMA BetweenKeeps ==
    ASSUME QueueInv, QueueTypeOK', UNCHANGED <<graphs, capability>>,
           claimed \subseteq claimed', spent \subseteq spent', consumed \subseteq consumed',
           \A c \in Claims : Attempted(c) => c \in spent' \/ c \in claimed',
           Between \/ (running'.step = "lock" /\ running'.claim \in Claims \ spent')
    PROVE  QueueInv'
<1>1. TriesUnspent' /\ HasItsCapability' /\ AsideForTheRun'
  BY DEF TriesUnspent, HasItsCapability, AsideForTheRun, Between, Trying, Absent
<1>2. SignedStayConsumed'
  BY DEF QueueInv, QueueTypeOK, Spends, SignedStayConsumed
<1>3. SignedCoinsConsumed' /\ OneSpendEach'
  BY DEF QueueInv, SignedCoinsConsumed, OneSpendEach
<1>. QED  BY <1>1, <1>2, <1>3 DEF QueueInv

(* Events from outside the run.                                             *)
LEMMA EventsKeep ==
    ASSUME QueueInv,
           \/ \E c \in Claims : Offer(c) \/ Withdraw(c) \/ Ask(c)
           \/ SetAutomatic \/ SetActive \/ Dispose \/ LandsLate
    PROVE  QueueInv'
<1>1. QueueTypeOK /\ MaxOffers \in Nat /\ MaxToggles \in Nat
  BY QueueAssumption DEF QueueInv
<1>2. ASSUME NEW c \in Claims, Offer(c) PROVE QueueInv'
  <2>1. /\ offers' = offers /\ given' = given /\ capability' = capability
        \/ /\ given[c] < MaxOffers /\ given' = [given EXCEPT ![c] = @ + 1]
           /\ offers' = [offers EXCEPT ![c] = given[c] + 1]
           /\ capability' \in Capabilities(c)
    BY <1>2 DEF Offer
  <2>2. given[c] + 1 \in 0 .. MaxOffers \/ given' = given
    BY <1>1, <2>1 DEF QueueTypeOK
  <2>3. offers' \in [Claims -> 0 .. MaxOffers] /\ given' \in [Claims -> 0 .. MaxOffers]
    BY <1>1, <2>1, <2>2 DEF QueueTypeOK
  <2>4. capability' \subseteq capability
    BY <2>1 DEF Capabilities
  <2>5. woken' \in BOOLEAN /\ scheduled' \in BOOLEAN
    BY <1>1, <1>2 DEF Offer, Wake, QueueTypeOK
  <2>6. QueueTypeOK'
    BY <1>1, <1>2, <2>3, <2>4, <2>5 DEF QueueTypeOK, Offer, switchVars, userVars, outcomeVars
  <2>7. Others
    BY <1>2, <2>1 DEF Others, Offer, Capabilities, outcomeVars
  <2>. QED  BY <2>6, <2>7, OthersKeep
<1>3. ASSUME NEW c \in Claims, Withdraw(c) PROVE QueueInv'
  <2>1. offers' \in [Claims -> 0 .. MaxOffers]
    BY <1>1, <1>3 DEF Withdraw, QueueTypeOK
  <2>. QED  BY <1>1, <1>3, <2>1, OthersKeep
            DEF Withdraw, QueueTypeOK, Others, switchVars, userVars, outcomeVars
<1>4. ASSUME NEW c \in Claims, Ask(c) PROVE QueueInv'
  <2>1. [claim |-> c, epoch |-> epoch] \in Asks
    BY <1>1 DEF Asks, QueueTypeOK
  <2>. QED  BY <1>1, <1>4, <2>1, OthersKeep DEF Ask, QueueTypeOK, Others, switchVars, outcomeVars
<1>5. CASE SetAutomatic
  BY <1>1, <1>5, OthersKeep DEF SetAutomatic, Wake, QueueTypeOK, Others, userVars, outcomeVars
<1>6. CASE SetActive
  BY <1>1, <1>6, OthersKeep DEF SetActive, Wake, QueueTypeOK, Others, userVars, outcomeVars
<1>7. CASE Dispose
  <2>1. toggles' \in 0 .. MaxToggles /\ epoch' \in 0 .. toggles'
    BY <1>1, <1>7 DEF Dispose, QueueTypeOK
  <2>2. alive' \in BOOLEAN
    BY <1>7, Zenon DEF Dispose
  <2>3. QueueTypeOK' /\ Others
    BY <1>1, <1>7, <2>1, <2>2 DEF Dispose, QueueTypeOK, Others, userVars, outcomeVars
  <2>. QED  BY <2>3, OthersKeep
<1>8. CASE LandsLate
  BY <1>1, <1>8, OthersKeep DEF LandsLate, QueueTypeOK, Others, switchVars, userVars, outcomeVars
<1>. QED  BY <1>2, <1>3, <1>4, <1>5, <1>6, <1>7, <1>8

(* A run starts between two claims, or at the one that was asked for.       *)
LEMMA RunsStart ==
    ASSUME QueueInv, Start \/ \E a \in asked : StartAsked(a) PROVE QueueInv'
<1>1. QueueTypeOK /\ MaxOffers \in Nat /\ MaxToggles \in Nat
  BY QueueAssumption DEF QueueInv
<1>2. ASSUME UNCHANGED <<running, claimed, spent, consumed, graphs, capability>>, QueueTypeOK'
      PROVE  QueueInv'
  BY <1>2, OthersKeep DEF Others
<1>3. ASSUME ~Running, NEW c, Attempted(c) PROVE FALSE
  BY <1>3 DEF Running, Rest, Attempted, Absent
<1>4. CASE Start
  <2>1. CASE alive /\ active /\ ~Running
    <3> DEFINE r == [Rest EXCEPT !.automatic = TRUE, !.epoch = epoch, !.step = "next"]
    <3>1. running' = r /\ woken' = FALSE /\ overtaken' = FALSE
      BY <1>4, <2>1 DEF Start
    <3>2. epoch \in 0 .. MaxToggles
      BY <1>1 DEF QueueTypeOK
    <3>3. r \in Runs /\ r.step = "next"
      BY <3>2, RestTyped DEF Runs
    <3>4. QueueTypeOK' /\ Between
      BY <1>1, <1>4, <3>1, <3>3 DEF QueueTypeOK, Between, Start, switchVars, outcomeVars
    <3>. QED  BY <1>3, <1>4, <2>1, <3>4, BetweenKeeps DEF Start, outcomeVars
  <2>2. CASE ~(alive /\ active /\ ~Running)
    BY <1>1, <1>2, <1>4, <2>2 DEF Start, QueueTypeOK, switchVars, outcomeVars
  <2>. QED  BY <2>1, <2>2
<1>5. ASSUME NEW a \in asked, StartAsked(a) PROVE QueueInv'
  <2>1. CASE Authorized(a.epoch) /\ offers[a.claim] # 0 /\ a.claim \notin spent
    <3> DEFINE c == a.claim
               n == offers[c]
               e == a.epoch
               r == [[Rest EXCEPT !.epoch = e] EXCEPT !.claim = c, !.offer = n, !.step = "lock"]
    <3>1. running' = r /\ woken' = FALSE /\ overtaken' = (overtaken \/ scheduled)
      BY <1>5, <2>1 DEF StartAsked, Enter
    <3>2. c \in Claims \ spent /\ e \in 0 .. MaxToggles /\ n \in 0 .. MaxOffers
      BY <1>1, <2>1 DEF QueueTypeOK, Asks
    <3>. HIDE DEF n, e, c
    <3>3. r \in Runs /\ r.step = "lock" /\ r.claim = c
      BY <3>2, RestTyped DEF Runs
    <3>. HIDE DEF r
    <3>4. QueueTypeOK'
      BY <1>1, <1>5, <3>1, <3>3 DEF QueueTypeOK, StartAsked, switchVars, outcomeVars
    <3>. QED  BY <1>3, <1>5, <3>1, <3>2, <3>3, <3>4, BetweenKeeps
              DEF StartAsked, AskedTurn, outcomeVars
  <2>2. CASE ~(Authorized(a.epoch) /\ offers[a.claim] # 0 /\ a.claim \notin spent)
    BY <1>1, <1>2, <1>5, <2>2 DEF StartAsked, QueueTypeOK, switchVars, outcomeVars
  <2>. QED  BY <2>1, <2>2
<1>. QED  BY <1>4, <1>5

(* The next standing offer, if none of its attempts has ended.              *)
LEMMA NextOfferKeeps == ASSUME QueueInv, NextOffer PROVE QueueInv'
<1>1. QueueTypeOK /\ running.step = "next" /\ \A c \in Claims : ~Attempted(c)
  BY DEF QueueInv, NextOffer, Attempted
<1>2. CASE Rests
  <2>1. QueueTypeOK' /\ Between
    BY <1>1, <1>2, RestTyped DEF NextOffer, Rests, QueueTypeOK, Between, switchVars, userVars, outcomeVars
  <2>. QED  BY <1>1, <2>1, BetweenKeeps DEF NextOffer, outcomeVars
<1>3. ASSUME NEW c \in Claims, woken' = woken, scheduled' = scheduled,
             running' = IF c \in spent THEN [running EXCEPT !.tried = @ \cup {c}]
                        ELSE Enter(c, [running EXCEPT !.tried = @ \cup {c}])
      PROVE  QueueInv'
  <2> DEFINE t == running.tried \cup {c}
             n == offers[c]
             r == [running EXCEPT !.tried = t]
             e == [r EXCEPT !.claim = c, !.offer = n, !.step = "lock"]
  <2>1. running \in Runs /\ n \in 0 .. MaxOffers
    BY <1>1 DEF QueueTypeOK
  <2>2. t \subseteq Claims
    BY <2>1 DEF Runs
  <2>3. running' = IF c \in spent THEN r ELSE e
    BY <1>3 DEF Enter
  <2>. HIDE DEF n, t
  <2>4. r \in Runs /\ r.step = "next"
    BY <1>1, <2>1, <2>2 DEF Runs
  <2>5. e \in Runs /\ e.step = "lock" /\ e.claim = c
    BY <2>1, <2>4 DEF Runs
  <2>. HIDE DEF r, e
  <2>6. QueueTypeOK'
    BY <1>1, <1>3, <2>3, <2>4, <2>5 DEF NextOffer, QueueTypeOK, switchVars, userVars, outcomeVars
  <2>7. Between \/ (running'.step = "lock" /\ running'.claim \in Claims \ spent')
    BY <2>3, <2>4, <2>5 DEF NextOffer, Between, outcomeVars
  <2>. QED  BY <1>1, <2>6, <2>7, BetweenKeeps DEF NextOffer, outcomeVars
<1>. QED  BY <1>2, <1>3 DEF NextOffer

(* A run is done with a claim it has tried, or not begun.                   *)
LEMMA OverKeeps ==
    ASSUME QueueInv, Over, UNCHANGED <<graphs, capability>>,
           claimed \subseteq claimed', spent \subseteq spent', consumed \subseteq consumed',
           \A c \in Claims : Attempted(c) => c \in spent' \/ c \in claimed',
           woken' \in BOOLEAN /\ scheduled' \in BOOLEAN /\ running' \in Runs => QueueTypeOK'
    PROVE  QueueInv'
<1>1. running' \in Runs /\ Between /\ woken' \in BOOLEAN /\ scheduled' \in BOOLEAN
  BY OverGoesOn DEF QueueInv
<1>. QED  BY <1>1, BetweenKeeps

(* The coin set aside is in no graph, and the capability was not consumed.  *)
LEMMA PlanKeeps == ASSUME QueueInv, Plan PROVE QueueInv'
<1> DEFINE c == running.claim
<1>1. /\ QueueTypeOK /\ running.step = "lock" /\ c \in Claims \ spent
      /\ MaxFaults \in Nat /\ \A d \in Claims : ~Attempted(d)
  BY QueueAssumption DEF QueueInv, Plan, TriesUnspent, Trying, Attempted
<1>2. CASE Over /\ UNCHANGED <<consumed, capability, spent>> /\ faults' \in {faults, faults + 1}
           /\ faults' \in 0 .. MaxFaults
  BY <1>1, <1>2, OverKeeps DEF Plan, QueueTypeOK, switchVars, userVars
<1>3. ASSUME NEW g \in Plans(c),
             consumed' = IF g.coin = Absent THEN consumed ELSE consumed \cup {g.coin},
             Activate(g), faults' = faults
      PROVE  QueueInv'
  <2>1. /\ g.claim = c /\ g.coin \in Coins \cup {Absent}
        /\ g.coin # Absent => g.coin \notin consumed
    BY <1>3 DEF Plans, Available, Spend, Spendable
  <2>2. consumed' \subseteq Coins /\ consumed \subseteq consumed'
    BY <1>1, <1>3, <2>1 DEF QueueTypeOK
  <2>3. CASE c \in capability
    <3>1. Over /\ spent' = spent \cup {c} /\ capability' = capability
      BY <1>3, <2>1, <2>3 DEF Activate
    <3>. QED  BY <1>1, <1>3, <2>2, <3>1, OverKeeps DEF Plan, QueueTypeOK, switchVars, userVars
  <2>4. CASE c \notin capability
    <3> DEFINE k == g.coin
               r == [running EXCEPT !.step = "facts", !.coin = k]
    <3>1. /\ running' = r /\ capability' = capability \cup {c} /\ graphs' = graphs
          /\ UNCHANGED <<woken, scheduled, spent, claimed>>
      BY <1>3, <2>1, <2>4 DEF Activate, Plan
    <3>2. running \in Runs /\ k \in Coins \cup {Absent}
      BY <1>1, <2>1 DEF QueueTypeOK
    <3>. HIDE DEF k
    <3>3. r \in Runs /\ r.step = "facts" /\ r.claim = c /\ r.coin = k
      BY <3>2 DEF Runs
    <3>. HIDE DEF r
    <3>4. QueueTypeOK'
      BY <1>1, <1>3, <2>2, <3>1, <3>3 DEF Plan, QueueTypeOK, switchVars, userVars
    <3>5. TriesUnspent' /\ HasItsCapability'
      BY <1>1, <3>1, <3>3 DEF TriesUnspent, HasItsCapability
    <3>6. \A h \in graphs : h.claim # c /\ (h.coin = Absent \/ h.coin # k)
      BY <1>1, <2>1, <2>4 DEF k, QueueInv, SignedStayConsumed, SignedCoinsConsumed
    <3>7. AsideForTheRun'
      BY <1>3, <3>1, <3>3, <3>6 DEF AsideForTheRun, k
    <3>8. SignedStayConsumed'
      BY <1>1, <3>1, <3>6 DEF QueueInv, SignedStayConsumed, Attempted
    <3>9. SignedCoinsConsumed' /\ OneSpendEach'
      BY <2>2, <3>1 DEF QueueInv, SignedCoinsConsumed, OneSpendEach
    <3>. QED  BY <3>4, <3>5, <3>7, <3>8, <3>9 DEF QueueInv
  <2>. QED  BY <2>3, <2>4
<1>. QED  BY <1>1, <1>2, <1>3 DEF Plan, Fault, QueueTypeOK

(* A graph is signed of the claim and the coin of the run.                  *)
LEMMA SignKeeps == ASSUME QueueInv, Sign PROVE QueueInv'
<1> DEFINE c == running.claim
           k == running.coin
<1>1. /\ QueueTypeOK /\ running \in Runs /\ running.step = "facts" /\ c \in Claims \ spent
      /\ MaxFaults \in Nat /\ \A d \in Claims : ~Attempted(d)
  BY QueueAssumption DEF QueueInv, QueueTypeOK, Sign, TriesUnspent, Trying, Attempted
<1>2. CASE Fails /\ faults' \in 0 .. MaxFaults
  BY <1>1, <1>2, OverKeeps DEF Sign, Fails, QueueTypeOK, switchVars, userVars
<1>3. CASE /\ graphs' = graphs \cup {Spend(c, k)}
           /\ running' = [running EXCEPT !.step = "signed"]
           /\ UNCHANGED <<woken, scheduled, spent, faults>>
  <2>1. /\ running' \in Runs /\ running'.step = "signed"
        /\ running'.claim = c
    BY <1>1, <1>3 DEF Runs
  <2>2. Spend(c, k) \in Spends /\ Spend(c, k).claim = c /\ Spend(c, k).coin = k
    BY <1>1 DEF Runs, Spends, Spend
  <2>3. QueueTypeOK'
    BY <1>1, <1>3, <2>1, <2>2 DEF Sign, QueueTypeOK, switchVars, userVars
  <2>4. TriesUnspent' /\ HasItsCapability' /\ AsideForTheRun'
    BY <1>1, <1>3, <2>1 DEF Sign, QueueInv, TriesUnspent, HasItsCapability, AsideForTheRun
  <2>5. SignedStayConsumed'
    BY <1>1, <1>3, <2>1, <2>2 DEF Sign, QueueInv, SignedStayConsumed, Attempted, HasItsCapability
  <2>6. SignedCoinsConsumed'
    BY <1>1, <1>3, <2>2 DEF Sign, QueueInv, SignedCoinsConsumed, AsideForTheRun
  <2>7. OneSpendEach'
    BY <1>1, <1>3, <2>2 DEF QueueInv, OneSpendEach, AsideForTheRun
  <2>. QED  BY <2>3, <2>4, <2>5, <2>6, <2>7 DEF QueueInv
<1>. QED  BY <1>1, <1>2, <1>3 DEF Sign, Fault, QueueTypeOK

(* What is submitted was signed; its run goes on, or its attempt is over.   *)
LEMMA SubmitKeeps == ASSUME QueueInv, Submit PROVE QueueInv'
<1> DEFINE c == running.claim
<1>1. /\ QueueTypeOK /\ running \in Runs /\ running.step = "signed" /\ c \in Claims \ spent
      /\ MaxFaults \in Nat /\ \A d \in Claims : Attempted(d) => d = c
  BY QueueAssumption DEF QueueInv, QueueTypeOK, Submit, TriesUnspent, Trying, Attempted
<1>2. /\ spent' \in {spent, spent \cup {c}} /\ landed' \in {landed, landed \cup {Spend(c, running.coin)}}
      /\ UNCHANGED <<offers, given, capability, switchVars, userVars, claimed, consumed, graphs>>
  BY DEF Submit
<1>3. Spend(c, running.coin) \in Spends
  BY <1>1 DEF Runs, Spends, Spend
<1>4. CASE Over /\ spent' = spent \cup {c} /\ faults' \in 0 .. MaxFaults
  BY <1>1, <1>2, <1>3, <1>4, OverKeeps DEF QueueTypeOK, switchVars, userVars
<1>5. CASE /\ running' = [running EXCEPT !.step = "submitted"]
           /\ UNCHANGED <<woken, scheduled, spent, faults>>
  <2>1. running' \in Runs /\ running'.step = "submitted" /\ running'.claim = c
    BY <1>1, <1>5 DEF Runs
  <2>2. QueueTypeOK'
    BY <1>1, <1>2, <1>3, <1>5, <2>1 DEF QueueTypeOK, switchVars, userVars
  <2>3. TriesUnspent' /\ HasItsCapability' /\ AsideForTheRun'
    BY <1>1, <1>2, <1>5, <2>1 DEF QueueInv, TriesUnspent, HasItsCapability, AsideForTheRun
  <2>4. SignedStayConsumed' /\ SignedCoinsConsumed' /\ OneSpendEach'
    BY <1>1, <1>2, <1>5, <2>1 DEF QueueInv, SignedStayConsumed, Attempted, SignedCoinsConsumed, OneSpendEach
  <2>. QED  BY <2>2, <2>3, <2>4 DEF QueueInv
<1>. QED  BY <1>1, <1>4, <1>5 DEF Submit, Fault, QueueTypeOK

(* A submitted claim is recorded, and not offered again.                    *)
LEMMA ClaimedKeeps == ASSUME QueueInv, Claimed PROVE QueueInv'
<1> DEFINE c == running.claim
<1>1. /\ QueueTypeOK /\ c \in Claims /\ Over /\ claimed' = claimed \cup {c}
      /\ MaxOffers \in Nat /\ \A d \in Claims : Attempted(d) => d = c
  BY QueueAssumption DEF QueueInv, Claimed, TriesUnspent, Trying, Attempted
<1>2. offers' \in [Claims -> 0 .. MaxOffers]
  BY <1>1 DEF Claimed, QueueTypeOK
<1>. QED  BY <1>1, <1>2, OverKeeps DEF Claimed, QueueTypeOK, switchVars, userVars

(* At the start nothing is offered and nothing runs.                        *)
LEMMA QueueStarts == QueueInit => QueueInv
<1> SUFFICES ASSUME QueueInit PROVE QueueInv
  OBVIOUS
<1>1. QueueTypeOK
  <2>1. /\ alive \in BOOLEAN /\ active \in BOOLEAN /\ automatic \in BOOLEAN
        /\ scheduled \in BOOLEAN /\ woken \in BOOLEAN /\ overtaken \in BOOLEAN
    BY Zenon DEF QueueInit
  <2>2. 0 \in 0 .. MaxOffers /\ 0 \in 0 .. MaxToggles /\ 0 \in 0 .. MaxFaults /\ 0 \in 0 .. 0
    BY QueueAssumption
  <2>. QED  BY <2>1, <2>2, RestTyped DEF QueueInit, QueueTypeOK
<1>. QED  BY <1>1, RestTyped DEF QueueInit, QueueInv, TriesUnspent, Trying, SignedStayConsumed,
          HasItsCapability, AsideForTheRun, SignedCoinsConsumed, OneSpendEach, Absent

(* Every step of the queue keeps the invariant.                             *)
LEMMA QueueSteps == QueueInv /\ [QueueNext]_queueVars => QueueInv'
<1> SUFFICES ASSUME QueueInv, [QueueNext]_queueVars PROVE QueueInv'
  OBVIOUS
<1>1. CASE UNCHANGED queueVars
  BY <1>1, OthersKeep DEF queueVars, Others, QueueInv, QueueTypeOK, switchVars, userVars, outcomeVars
<1>. QED  BY <1>1, EventsKeep, RunsStart, NextOfferKeeps, PlanKeeps, SignKeeps, SubmitKeeps,
             ClaimedKeeps DEF QueueNext

(* No coin is signed into two claims and no claim is signed twice, however  *)
(* offers, switches, lost answers and the user's claims interleave with the *)
(* run.                                                                     *)
THEOREM EachSpentOnce == QueueSpec => []OneSpendEach
<1>1. QueueInv => OneSpendEach
  BY DEF QueueInv
<1>. QED  BY <1>1, QueueStarts, QueueSteps, PTL DEF QueueSpec

-----------------------------------------------------------------------------
(* The signing of a graph.                                                  *)

Sheets == [body : BOOLEAN, sig : [Places -> [Keys -> Marks]]]

(* What the local party has checked of a sheet before it signs: a posted    *)
(* fill bears everyone else's signatures and none of its own.               *)
AcceptedSheet == signing = "accepted" /\ graph.route = "fill" => sheet.body /\ FillAccepts(sheet)

(* A signed fill is unsigned where the emulator signs, and its own inputs   *)
(* are signed by the Taxi alone.                                            *)
OnItsWay == {"signed", "sent", "answered", "recorded"}
SignedFill ==
    signing \in OnItsWay /\ graph.route = "fill" =>
       \A pl \in Places : /\ Gated(pl) => Empty(sheet, pl)
                          /\ Mine(pl) => Exactly(sheet, pl, {"taxi"})
SignedLockup ==
    signing \in OnItsWay /\ graph.route = "lockup" =>
       \A pl \in Places : Exactly(sheet, pl, IF Mine(pl) THEN {"taxi"} ELSE {"sender"})

(* What leaves is complete but for the provider from the moment it is       *)
(* signed, and what an emulator answered is final.                          *)
Completable ==
    signing \in OnItsWay => sheet.body /\ \A pl \in Places : CompleteBut(sheet, pl, ByProvider(pl))
AnsweredIsFinal ==
    /\ signing = "sent" /\ answer # NoAnswer /\ Emulated => arkd = "final"
    /\ signing = "recorded" => arkd = "final"
    /\ signing = "answered" => ~Emulated
AnswerIsHonest == signing \in {"sent", "answered"} /\ honest => answer = HonestAnswer
OnlyUnheardEnd == signing = "ambiguous" => ~honest

SigningInv ==
    /\ graph \in Graphs /\ sheet \in Sheets
    /\ AcceptedSheet /\ SignedFill /\ SignedLockup
    /\ Completable /\ AnsweredIsFinal /\ AnswerIsHonest /\ OnlyUnheardEnd

-----------------------------------------------------------------------------
(* Altering a sheet leaves it a sheet.                                      *)
LEMMA ChangedSheets == ASSUME NEW s \in Sheets PROVE Changed(s) \subseteq Sheets
<1> SUFFICES ASSUME NEW pl \in Places, NEW k \in Keys, NEW m \in Marks
             PROVE  [s EXCEPT !.sig[pl][k] = m] \in Sheets
  BY DEF Changed
<1>1. [s.sig[pl] EXCEPT ![k] = m] \in [Keys -> Marks]
  BY DEF Sheets
<1>2. [s.sig EXCEPT ![pl][k] = m] \in [Places -> [Keys -> Marks]]
  BY <1>1 DEF Sheets
<1> QED BY <1>2 DEF Sheets

LEMMA AlteredSheets == ASSUME NEW s \in Sheets PROVE Altered(s) \subseteq Sheets
<1>1. [s EXCEPT !.body = ~@] \in Sheets
  BY DEF Sheets
<1>2. \A t \in Changed(s) : Changed(t) \subseteq Sheets
  BY ChangedSheets
<1> QED BY <1>1, <1>2 DEF Altered

LEMMA UnsignedSheets == Unsigned \in Sheets
<1>1. [pl \in Places |-> [k \in Keys |-> "none"]] \in [Places -> [Keys -> Marks]]
  BY DEF Marks
<1> QED BY <1>1 DEF Unsigned, Sheets

(* Other marks in the places of a sheet make another one.                   *)
LEMMA MarkedSheets ==
    ASSUME NEW s \in Sheets, NEW f \in [Places -> [Keys -> Marks]]
    PROVE  [s EXCEPT !.sig = f] \in Sheets /\ [s EXCEPT !.sig = f].sig = f
                                          /\ [s EXCEPT !.sig = f].body = s.body
BY DEF Sheets

LEMMA SigningStarts == SigningInit => SigningInv
<1> SUFFICES ASSUME SigningInit PROVE SigningInv
  OBVIOUS
<1>1. sheet = Unsigned /\ graph \in Graphs
  BY DEF SigningInit, Unsigned, Places, Inputs
<1>2. sheet \in Sheets
  BY <1>1, UnsignedSheets
<1>3. signing = "open" \/ (signing = "accepted" /\ graph.route # "fill")
  BY DEF SigningInit
<1> QED BY <1>1, <1>2, <1>3 DEF SigningInv, AcceptedSheet, SignedFill, SignedLockup, OnItsWay,
     Completable, AnsweredIsFinal, AnswerIsHonest, OnlyUnheardEnd

(* A step that leaves the graph leaves its places and what is asked there.  *)
LEMMA SameGraph ==
    ASSUME graph' = graph
    PROVE  /\ Places' = Places /\ Sheets' = Sheets /\ Emulated' = Emulated
           /\ \A pl : /\ Leaf(pl)' = Leaf(pl) /\ Mine(pl)' = Mine(pl) /\ Gated(pl)' = Gated(pl)
                      /\ ByProvider(pl)' = ByProvider(pl)
                      /\ ProviderOnly(pl)' = ProviderOnly(pl)
BY DEF Places, Inputs, Sheets, Emulated, Leaf, Mine, Gated, ByProvider, ProviderOnly

(* Before the local party signs, the sheet says nothing but what it checked.*)
LEMMA EarlyKeeps ==
    ASSUME SigningInv, UNCHANGED graph, sheet' \in Sheets,
           signing' \in {"posted", "refused", "failed"}
    PROVE  SigningInv'
BY SameGraph DEF SigningInv, AcceptedSheet, SignedFill, SignedLockup, OnItsWay,
     Completable, AnsweredIsFinal, AnswerIsHonest, OnlyUnheardEnd

LEMMA AcceptKeeps == SigningInv /\ AcceptPosted => SigningInv'
<1> SUFFICES ASSUME SigningInv, AcceptPosted PROVE SigningInv'
  OBVIOUS
<1>1. graph' = graph /\ signing' \in {"accepted", "refused"}
  BY DEF AcceptPosted
<1>2. sheet' \in Sheets /\ sheet'.sig = sheet.sig
  BY DEF AcceptPosted, SigningInv, Sheets
<1>3. CASE signing' = "refused"
  BY <1>1, <1>2, <1>3, EarlyKeeps
<1>4. CASE signing' = "accepted"
  <2>1. ASSUME graph.route = "fill" PROVE sheet'.body /\ FillAccepts(sheet)'
    <3>1. sheet'.body
      BY <2>1 DEF AcceptPosted, SigningInv, Sheets
    <3>2. FillAccepts(sheet)
      BY <1>4, <2>1 DEF AcceptPosted
    <3> QED BY <1>1, <1>2, <3>1, <3>2, SameGraph
         DEF FillAccepts, ForeignInput, Empty, AllValid, Signers, At
  <2> QED BY <1>1, <1>2, <1>4, <2>1, SameGraph DEF SigningInv, AcceptedSheet, SignedFill,
       SignedLockup, OnItsWay, Completable, AnsweredIsFinal, AnswerIsHonest, OnlyUnheardEnd
<1> QED BY <1>1, <1>3, <1>4

-----------------------------------------------------------------------------
(* What the local party signs.                                              *)

(* Exactly a set of keys that a leaf has, and all of it that the provider   *)
(* does not add, is complete but for the provider.                          *)
LEMMA ExactlyCompletes ==
    ASSUME NEW s, NEW pl, NEW keys, Exactly(s, pl, keys), keys \subseteq Leaf(pl),
           Leaf(pl) \ ByProvider(pl) \subseteq keys
    PROVE  CompleteBut(s, pl, ByProvider(pl))
BY DEF Exactly, CompleteBut

LEMMA LockupLeaves ==
    ASSUME graph \in Graphs, graph.route = "lockup", NEW pl \in Places
    PROVE  /\ ~Emulated /\ ~Gated(pl) /\ ByProvider(pl) = {"server"}
           /\ Leaf(pl) = {IF Mine(pl) THEN "taxi" ELSE "sender", "server"}
<1>1. LockupGraph(graph)
  BY GraphsAssumption
<1> QED BY <1>1 DEF LockupGraph, Emulated, Gated, ByProvider, Leaf, Mine, Places, Inputs

LEMMA FillLeaves ==
    ASSUME graph \in Graphs, graph.route = "fill", NEW pl \in Places, Mine(pl)
    PROVE  Leaf(pl) = {"taxi", "server"} /\ ~Gated(pl) /\ ByProvider(pl) = {"server"}
<1>1. FillGraph(graph)
  BY GraphsAssumption
<1> QED BY <1>1 DEF FillGraph, Gated, ByProvider, Leaf, Mine, Places, Inputs

LEMMA SpendLeaves ==
    ASSUME graph \in Graphs, graph.route \notin {"lockup", "fill"}
    PROVE  /\ Emulated
           /\ \A pl \in Places : Leaf(pl) \ ByProvider(pl) = IF Mine(pl) THEN {graph.me} ELSE {}
<1>1. SpendGraph(graph)
  BY GraphsAssumption
<1> QED BY <1>1 DEF SpendGraph, Emulated, Gated, ByProvider, Leaf, Mine, Places, Inputs

LEMMA ServerInLeaf == ASSUME graph \in Graphs, NEW pl \in Places PROVE "server" \in Leaf(pl)
BY GraphsAssumption DEF Leaf, Places, Inputs

LEMMA SignGraphKeeps == ASSUME NEW t \in Sheets, SigningInv, SignGraph(t) PROVE SigningInv'
<1>1. graph' = graph /\ graph \in Graphs /\ sheet \in Sheets /\ t.sig \in [Places -> [Keys -> Marks]]
  BY DEF SignGraph, SigningInv, Sheets
<1>2. CASE ~SignsSoundly(t)
  BY <1>1, <1>2, EarlyKeeps DEF SignGraph
<1>3. CASE SignsSoundly(t)
  <2>1. signing' = "signed"
    BY <1>3 DEF SignGraph
  <2>2. SUFFICES /\ sheet' \in Sheets /\ sheet'.body
                 /\ \A pl \in Places : CompleteBut(sheet', pl, ByProvider(pl))
                 /\ graph.route = "fill" =>
                       \A pl \in Places : /\ Gated(pl) => Empty(sheet', pl)
                                          /\ Mine(pl) => Exactly(sheet', pl, {"taxi"})
                 /\ graph.route = "lockup" =>
                       \A pl \in Places : Exactly(sheet', pl, IF Mine(pl) THEN {"taxi"} ELSE {"sender"})
    <3>1. 
           \A pl \in Places :
              /\ CompleteBut(sheet', pl, ByProvider(pl)) => CompleteBut(sheet, pl, ByProvider(pl))'
              /\ Empty(sheet', pl) => Empty(sheet, pl)'
              /\ \A keys : Exactly(sheet', pl, keys) => Exactly(sheet, pl, keys)'
      BY <1>1, SameGraph DEF CompleteBut, Empty, Exactly, AllValid, Signers, At
    <3> QED BY <1>1, <2>1, <2>2, <3>1, SameGraph
         DEF SigningInv, AcceptedSheet, SignedFill, SignedLockup, OnItsWay,
             Completable, AnsweredIsFinal, AnswerIsHonest, OnlyUnheardEnd
  <2>3. CASE graph.route = "lockup"
    <3>1. sheet' = t /\ LockupSigned(t)
      BY <1>3, <2>3 DEF SignGraph, SignsSoundly
    <3>2. \A pl \in Places : Exactly(t, pl, IF Mine(pl) THEN {"taxi"} ELSE {"sender"})
      BY <3>1 DEF LockupSigned
    <3>3. \A pl \in Places : CompleteBut(t, pl, ByProvider(pl))
      BY <1>1, <2>3, <3>2, LockupLeaves, ExactlyCompletes
    <3> QED BY <2>3, <3>1, <3>2, <3>3 DEF LockupSigned
  <2>4. CASE graph.route = "fill"
    <3> DEFINE kept == [pl \in Places |-> IF Mine(pl) THEN t.sig[pl] ELSE sheet.sig[pl]]
    <3>1. sheet' = [t EXCEPT !.sig = kept] /\ SignedForOwner(t) /\ PreparedComplete(t)
      BY <1>3, <2>4 DEF SignGraph, SignsSoundly, Kept
    <3>2. kept \in [Places -> [Keys -> Marks]]
      BY <1>1 DEF Sheets
    <3>3. /\ \A pl \in Places : Mine(pl) => kept[pl] = t.sig[pl]
          /\ \A pl \in Places : ~Mine(pl) => kept[pl] = sheet.sig[pl]
      OBVIOUS
    <3> HIDE DEF kept
    <3>4. sheet' \in Sheets /\ sheet'.sig = kept /\ sheet'.body
      BY <3>1, <3>2, MarkedSheets DEF SignedForOwner
    <3>5. TrustedUnsigned(sheet) /\ FillAccepts(sheet)
      BY <2>4, <3>1 DEF SignedForOwner, SigningInv, AcceptedSheet, SignGraph
    <3>6. ASSUME NEW pl \in Places, Mine(pl)
          PROVE  /\ Exactly(sheet', pl, {"taxi"}) /\ ~Gated(pl)
                 /\ CompleteBut(sheet', pl, ByProvider(pl))
      <4>1. Exactly(sheet', pl, {"taxi"})
        BY <3>1, <3>3, <3>4, <3>6 DEF PreparedComplete, Exactly, AllValid, Signers, At
      <4> QED BY <1>1, <2>4, <3>6, <4>1, FillLeaves, ExactlyCompletes
    <3>7. ASSUME NEW pl \in Places, ~Mine(pl)
          PROVE  /\ Gated(pl) => Empty(sheet', pl)
                 /\ CompleteBut(sheet', pl, ByProvider(pl))
      <4>1. sheet'.sig[pl] = sheet.sig[pl]
        BY <3>3, <3>4, <3>7
      <4>2. ForeignInput(sheet, pl)
        BY <3>5, <3>7 DEF FillAccepts
      <4>3. Gated(pl) => Empty(sheet, pl)
        BY <3>5 DEF TrustedUnsigned
      <4>4. CompleteBut(sheet, pl, ByProvider(pl))
        BY <4>2, <4>3 DEF ForeignInput, CompleteBut, ProviderOnly, ByProvider, Empty, AllValid
      <4> QED BY <4>1, <4>3, <4>4 DEF CompleteBut, Empty, AllValid, Signers, At
    <3> QED BY <2>4, <3>4, <3>6, <3>7
  <2>5. CASE graph.route \notin {"lockup", "fill"}
    <3>1. sheet' = t /\ OwnerSigned(t)
      BY <1>3, <2>5 DEF SignGraph, SignsSoundly
    <3>2. \A pl \in Places : Exactly(t, pl, IF Mine(pl) THEN {graph.me} ELSE {})
      BY <3>1 DEF OwnerSigned
    <3>3. \A pl \in Places : CompleteBut(t, pl, ByProvider(pl))
      <4> SUFFICES ASSUME NEW pl \in Places PROVE CompleteBut(t, pl, ByProvider(pl))
        OBVIOUS
      <4>1. Leaf(pl) \ ByProvider(pl) = IF Mine(pl) THEN {graph.me} ELSE {}
        BY <1>1, <2>5, SpendLeaves
      <4> QED BY <3>2, <4>1, ExactlyCompletes
    <3> QED BY <2>5, <3>1, <3>3 DEF OwnerSigned
  <2> QED BY <2>3, <2>4, <2>5
<1> QED BY <1>2, <1>3

-----------------------------------------------------------------------------
(* The true answer, place by place.                                         *)
LEMMA HonestMarks ==
    ASSUME sheet \in Sheets
    PROVE  /\ HonestAnswer \in Sheets /\ HonestAnswer # NoAnswer
           /\ HonestAnswer.body = sheet.body
           /\ \A pl \in Places, k \in Keys :
                 At(HonestAnswer, pl, k) =
                    IF Emulated \/ pl[1] = "ark"
                    THEN IF k \in ByProvider(pl) /\ k \in Leaf(pl) THEN "good" ELSE At(sheet, pl, k)
                    ELSE IF k = "server" THEN "good" ELSE "none"
<1> DEFINE f == [pl \in Places |-> [k \in Keys |->
                    IF pl \in Places /\ k \in ByProvider(pl) \cap Leaf(pl) THEN "good"
                    ELSE At(sheet, pl, k)]]
           g == [pl \in Places |-> [k \in Keys |->
                    IF pl \in Places /\ k \in {"server"} THEN "good" ELSE At(Unsigned, pl, k)]]
           h == [pl \in Places |-> IF pl[1] = "ark" THEN f[pl] ELSE g[pl]]
           all == [sheet EXCEPT !.sig = f]
           own == [Unsigned EXCEPT !.sig = g]
<1>1. f \in [Places -> [Keys -> Marks]]
  BY DEF Sheets, At, Marks
<1>2. \A pl \in Places, k \in Keys : At(Unsigned, pl, k) = "none"
  BY DEF Unsigned, At
<1>3. g \in [Places -> [Keys -> Marks]]
  BY <1>2 DEF Marks
<1>4. h \in [Places -> [Keys -> Marks]]
  BY <1>1, <1>3
<1>5. /\ \A pl \in Places, k \in Keys :
            f[pl][k] = IF k \in ByProvider(pl) /\ k \in Leaf(pl) THEN "good" ELSE At(sheet, pl, k)
      /\ \A pl \in Places, k \in Keys : g[pl][k] = IF k = "server" THEN "good" ELSE "none"
      /\ \A pl \in Places : h[pl] = IF pl[1] = "ark" THEN f[pl] ELSE g[pl]
  BY <1>2
<1>6. /\ all = Signed(sheet, Places, LAMBDA pl : ByProvider(pl) \cap Leaf(pl))
      /\ own = Signed(Unsigned, Places, LAMBDA pl : {"server"})
  BY DEF Signed
<1> HIDE DEF f, g
<1>7. /\ all \in Sheets /\ all.sig = f /\ all.body = sheet.body
      /\ own \in Sheets /\ own.sig = g
  BY <1>1, <1>3, MarkedSheets, UnsignedSheets
<1>8. HonestAnswer = IF Emulated THEN all ELSE [all EXCEPT !.sig = h]
  BY <1>6, <1>7 DEF HonestAnswer
<1> HIDE DEF h, all, own
<1>9. /\ HonestAnswer \in Sheets /\ HonestAnswer.body = sheet.body
      /\ HonestAnswer.sig = IF Emulated THEN f ELSE h
  BY <1>4, <1>7, <1>8, MarkedSheets
<1>10. HonestAnswer # NoAnswer
  <2>1. DOMAIN HonestAnswer = {"body", "sig"}
    BY <1>9 DEF Sheets
  <2>2. DOMAIN NoAnswer = {"none"}
    BY DEF NoAnswer
  <2> QED BY <2>1, <2>2
<1> QED BY <1>5, <1>9, <1>10 DEF At

(* Nothing complete but for the provider lacks anything once it answered.   *)
LEMMA HonestCompletes ==
    ASSUME sheet \in Sheets, NEW pl \in Places, CompleteBut(sheet, pl, ByProvider(pl)),
           "server" \in Leaf(pl)
    PROVE  /\ Emulated \/ pl[1] = "ark" => Exactly(HonestAnswer, pl, Leaf(pl))
           /\ ~(Emulated \/ pl[1] = "ark") => Exactly(HonestAnswer, pl, {"server"})
<1>1. ByProvider(pl) \subseteq Keys
  BY DEF ByProvider, Keys
<1>2. \A k \in Keys : At(sheet, pl, k) \in Marks
  BY DEF Sheets, At
<1>3. CASE Emulated \/ pl[1] = "ark"
  <2>1. \A k \in Keys : At(HonestAnswer, pl, k) =
             IF k \in ByProvider(pl) /\ k \in Leaf(pl) THEN "good" ELSE At(sheet, pl, k)
    BY <1>3, HonestMarks
  <2> QED BY <1>1, <1>2, <1>3, <2>1 DEF CompleteBut, Exactly, AllValid, Signers
<1>4. CASE ~(Emulated \/ pl[1] = "ark")
  <2>1. \A k \in Keys : At(HonestAnswer, pl, k) = IF k = "server" THEN "good" ELSE "none"
    BY <1>4, HonestMarks
  <2>2. "server" \in Keys
    BY DEF Keys
  <2> QED BY <1>4, <2>1, <2>2 DEF Exactly, AllValid, Signers
<1> QED BY <1>3, <1>4

(* The true answer changes no mark of the request.                          *)
LEMMA HonestPreserves ==
    ASSUME sheet \in Sheets, NEW pl \in Places, AllValid(sheet, pl), NEW k \in Keys
    PROVE  /\ At(sheet, pl, k) = "none" \/ At(HonestAnswer, pl, k) \in {"none", At(sheet, pl, k)}
           /\ Emulated => At(sheet, pl, k) = "none" \/ At(HonestAnswer, pl, k) = At(sheet, pl, k)
BY HonestMarks DEF AllValid, Signers

-----------------------------------------------------------------------------
(* What the local party thinks of the true answer.                          *)

Accepts(a) ==
    CASE graph.route = "lockup" -> LockupAnswer(a)
      [] graph.route = "fill" /\ ~Emulated -> a.body /\ Merges(a)
      [] graph.route = "fill" /\ Emulated -> FillAnswer(a)
      [] OTHER -> SpendAnswer(a)

LEMMA OnTheWay ==
    ASSUME SigningInv, signing \in OnItsWay
    PROVE  /\ sheet \in Sheets /\ sheet.body /\ graph \in Graphs
           /\ HonestAnswer # NoAnswer /\ HonestAnswer.body
           /\ \A pl \in Places : /\ CompleteBut(sheet, pl, ByProvider(pl)) /\ AllValid(sheet, pl)
                                 /\ Signers(sheet, pl) \subseteq Leaf(pl)
                                 /\ "server" \in Leaf(pl)
BY HonestMarks, ServerInLeaf DEF SigningInv, Completable, CompleteBut

LEMMA HonestIsAccepted == SigningInv /\ signing = "sent" => Accepts(HonestAnswer)
<1> SUFFICES ASSUME SigningInv, signing = "sent" PROVE Accepts(HonestAnswer)
  OBVIOUS
<1> DEFINE H == HonestAnswer
<1>1. /\ sheet \in Sheets /\ graph \in Graphs /\ H.body
      /\ \A pl \in Places : /\ CompleteBut(sheet, pl, ByProvider(pl)) /\ AllValid(sheet, pl)
                            /\ Signers(sheet, pl) \subseteq Leaf(pl) /\ "server" \in Leaf(pl)
  BY OnTheWay DEF OnItsWay
<1>2. \A pl \in Places : (Emulated \/ pl[1] = "ark") => Exactly(H, pl, Leaf(pl))
  BY <1>1, HonestCompletes
<1>3. \A pl \in Places : ~(Emulated \/ pl[1] = "ark") => Exactly(H, pl, {"server"})
  BY <1>1, HonestCompletes
<1>4. \A pl \in Places, k \in Keys :
         /\ At(sheet, pl, k) = "none" \/ At(H, pl, k) \in {"none", At(sheet, pl, k)}
         /\ Emulated => (At(sheet, pl, k) = "none" \/ At(H, pl, k) = At(sheet, pl, k))
  BY <1>1, HonestPreserves
<1> HIDE DEF H
<1>5. \A pl \in Places : AllValid(H, pl) /\ Signers(H, pl) \subseteq Leaf(pl)
  BY <1>1, <1>2, <1>3 DEF Exactly
<1>6. CASE graph.route = "lockup"
  <2>1. LockupAnswer(H)
    BY <1>1, <1>2, <1>3, <1>6, LockupLeaves DEF LockupAnswer
  <2> QED BY <1>6, <2>1 DEF Accepts, H
<1>7. CASE graph.route = "fill" /\ ~Emulated
  <2>1. \A pl \in Places : Signers(H, pl) \cup Signers(sheet, pl) \subseteq Leaf(pl)
    BY <1>1, <1>5
  <2>2. Merges(H)
    BY <1>4, <1>5, <2>1 DEF Merges
  <2> QED BY <1>1, <1>7, <2>2 DEF Accepts, H
<1>8. CASE graph.route = "fill" /\ Emulated
  <2>1. \A pl \in Places : Preserved(H, pl)
    BY <1>4, <1>8 DEF Preserved, Signers
  <2>2. ASSUME NEW pl \in Places PROVE ResponseSigs(H, pl)
    <3>1. Exactly(H, pl, Leaf(pl))
      BY <1>2, <1>8
    <3>2. Mine(pl) => Signers(H, pl) \subseteq {"taxi", "server"}
      BY <1>1, <1>5, <1>8, FillLeaves
    <3>3. ASSUME Gated(pl) PROVE ~Empty(H, pl) /\ Signers(H, pl) \subseteq {"cosigner", "server"}
      <4>1. Signers(sheet, pl) = {}
        BY <1>8, <3>3 DEF SigningInv, SignedFill, OnItsWay, Empty
      <4>2. Leaf(pl) \ ByProvider(pl) = {}
        BY <1>1, <4>1 DEF CompleteBut
      <4>3. Leaf(pl) \subseteq {"cosigner", "server"}
        BY <3>3, <4>2 DEF ByProvider
      <4>4. Signers(H, pl) = Leaf(pl)
        BY <3>1 DEF Exactly
      <4> QED BY <1>1, <4>3, <4>4 DEF Empty
    <3> QED BY <1>5, <3>2, <3>3 DEF ResponseSigs
  <2> QED BY <1>1, <1>8, <2>1, <2>2 DEF Accepts, FillAnswer, H
<1>9. CASE graph.route \notin {"lockup", "fill"}
  <2>1. Emulated
    BY <1>1, <1>9, SpendLeaves
  <2>2. SpendAnswer(H)
    BY <1>1, <1>2, <1>4, <2>1 DEF SpendAnswer, Preserved, Signers
  <2> QED BY <1>9, <2>2 DEF Accepts, H
<1> QED BY <1>6, <1>7, <1>8, <1>9

LEMMA HonestIsFinal ==
    ASSUME SigningInv, signing = "answered"
    PROVE  /\ \A i \in Inputs : Exactly(Combined(HonestAnswer), <<"cp", i>>, graph.leaf[i])
           /\ graph.route = "fill" => FillAnswer(Combined(HonestAnswer))
<1> DEFINE H == HonestAnswer
           C == Combined(H)
<1>1. /\ sheet \in Sheets /\ graph \in Graphs /\ ~Emulated
      /\ \A pl \in Places : /\ CompleteBut(sheet, pl, ByProvider(pl)) /\ AllValid(sheet, pl)
                            /\ Signers(sheet, pl) \subseteq Leaf(pl) /\ "server" \in Leaf(pl)
  BY OnTheWay DEF OnItsWay, SigningInv, AnsweredIsFinal
<1>2. \A pl \in Places : ~Gated(pl) /\ ByProvider(pl) = {"server"}
  BY <1>1 DEF Emulated, Gated, ByProvider
<1>3. \A pl \in Places, k \in Keys : At(sheet, pl, k) # "none" => At(sheet, pl, k) = "good"
  BY <1>1 DEF AllValid, Signers
<1>4. \A pl \in Places, k \in Keys :
         At(H, pl, k) = IF pl[1] = "ark"
                        THEN IF k = "server" /\ k \in Leaf(pl) THEN "good" ELSE At(sheet, pl, k)
                        ELSE IF k = "server" THEN "good" ELSE "none"
  BY <1>1, <1>2, HonestMarks
<1> HIDE DEF H
<1>5. /\ C.body
      /\ \A pl \in Places, k \in Keys :
            At(C, pl, k) = IF At(sheet, pl, k) # "none" THEN At(sheet, pl, k) ELSE At(H, pl, k)
  BY DEF Combined, MergedSheet, At
<1> HIDE DEF C
<1>6. \A pl \in Places, k \in Keys :
         At(C, pl, k) = IF k = "server" \/ At(sheet, pl, k) # "none" THEN "good" ELSE "none"
  BY <1>1, <1>3, <1>4, <1>5
<1>7. "server" \in Keys
  BY DEF Keys
<1>8. \A pl \in Places : Exactly(C, pl, Leaf(pl))
  <2> SUFFICES ASSUME NEW pl \in Places PROVE Exactly(C, pl, Leaf(pl))
    OBVIOUS
  <2>1. \A k \in Keys : At(C, pl, k) = IF k = "server" \/ k \in Signers(sheet, pl) THEN "good" ELSE "none"
    BY <1>6 DEF Signers
  <2>2. Signers(C, pl) = {"server"} \cup Signers(sheet, pl) /\ AllValid(C, pl)
    BY <1>7, <2>1 DEF Signers, AllValid
  <2>3. Leaf(pl) = {"server"} \cup Signers(sheet, pl)
    BY <1>1, <1>2 DEF CompleteBut
  <2> QED BY <2>2, <2>3 DEF Exactly
<1>9. \A i \in Inputs : <<"cp", i>> \in Places /\ Leaf(<<"cp", i>>) = graph.leaf[i]
  BY DEF Places, Leaf
<1>10. ASSUME graph.route = "fill" PROVE FillAnswer(C)
  <2>1. \A pl \in Places : Preserved(C, pl)
    BY <1>5 DEF Preserved, Signers
  <2>2. \A pl \in Places : ResponseSigs(C, pl)
    BY <1>1, <1>2, <1>8, <1>10, FillLeaves DEF ResponseSigs, Exactly
  <2> QED BY <1>5, <2>1, <2>2 DEF FillAnswer
<1> QED BY <1>8, <1>9, <1>10 DEF C, H

-----------------------------------------------------------------------------
(* Once signed, neither the graph nor the sheet changes.                    *)
LEMMA SentSheetStays ==
    ASSUME UNCHANGED <<graph, sheet>>
    PROVE  /\ HonestAnswer' = HonestAnswer /\ Emulated' = Emulated
           /\ \A pl : /\ CompleteBut(sheet, pl, ByProvider(pl))' = CompleteBut(sheet, pl, ByProvider(pl))
                      /\ Empty(sheet, pl)' = Empty(sheet, pl)
                      /\ \A keys : Exactly(sheet, pl, keys)' = Exactly(sheet, pl, keys)
           /\ FillAccepts(sheet)' = FillAccepts(sheet)
<1>1. Places' = Places /\ Emulated' = Emulated /\ Unsigned' = Unsigned
  BY DEF Places, Inputs, Emulated, Unsigned
<1>2. \A pl : /\ ByProvider(pl)' = ByProvider(pl) /\ Leaf(pl)' = Leaf(pl)
              /\ Mine(pl)' = Mine(pl) /\ ProviderOnly(pl)' = ProviderOnly(pl)
  BY SameGraph
<1>3. HonestAnswer' = HonestAnswer
  <2> DEFINE f == [pl \in Places |-> [k \in Keys |->
                      IF pl \in Places /\ k \in ByProvider(pl) \cap Leaf(pl) THEN "good"
                      ELSE At(sheet, pl, k)]]
             g == [pl \in Places |-> [k \in Keys |->
                      IF pl \in Places /\ k \in {"server"} THEN "good" ELSE At(Unsigned, pl, k)]]
             all == [sheet EXCEPT !.sig = f]
             own == [Unsigned EXCEPT !.sig = g]
             h == [pl \in Places |-> IF pl[1] = "ark" THEN all.sig[pl] ELSE own.sig[pl]]
  <2>1. HonestAnswer = IF Emulated THEN all ELSE [all EXCEPT !.sig = h]
    BY DEF HonestAnswer, Signed
  <2>2. HonestAnswer' = IF Emulated' THEN all' ELSE [all' EXCEPT !.sig = h']
    BY DEF HonestAnswer, Signed
  <2>3. f' = f /\ g' = g
    BY <1>1, <1>2 DEF At
  <2> HIDE DEF f, g
  <2>4. all' = all /\ own' = own
    BY <1>1, <2>3
  <2> HIDE DEF all, own
  <2>5. h' = h
    BY <1>1, <2>4
  <2> HIDE DEF h
  <2> QED BY <1>1, <2>1, <2>2, <2>4, <2>5
<1> QED BY <1>1, <1>2, <1>3 DEF CompleteBut, Empty, Exactly, AllValid, Signers, At,
     FillAccepts, ForeignInput

(* A step after the signature keeps everything it says of the sheet.        *)
LEMMA LaterKeeps ==
    ASSUME SigningInv, UNCHANGED <<graph, sheet>>, signing \in OnItsWay,
           signing' \in OnItsWay \cup {"ambiguous"},
           AnsweredIsFinal', AnswerIsHonest', OnlyUnheardEnd'
    PROVE  SigningInv'
<1>1. Places' = Places /\ Sheets' = Sheets /\ \A pl : Gated(pl)' = Gated(pl) /\ Mine(pl)' = Mine(pl)
  BY SameGraph
<1> QED BY <1>1, SentSheetStays DEF SigningInv, AcceptedSheet, SignedFill, SignedLockup,
     Completable, OnItsWay

LEMMA SubmitGraphKeeps == ASSUME NEW a \in PossibleAnswers, SigningInv, SubmitGraph(a) PROVE SigningInv'
<1>1. UNCHANGED <<graph, sheet>> /\ signing = "signed" /\ signing' = "sent" /\ answer' = a
  BY DEF SubmitGraph
<1>2. ProviderAccepts
  BY <1>1, OnTheWay DEF OnItsWay, ProviderAccepts
<1>3. AnsweredIsFinal'
  BY <1>1, <1>2, SentSheetStays DEF SubmitGraph, AnsweredIsFinal
<1>4. AnswerIsHonest'
  BY <1>1, <1>2, SentSheetStays DEF SubmitGraph, AnswerIsHonest
<1> QED BY <1>1, <1>3, <1>4, LaterKeeps DEF OnItsWay, OnlyUnheardEnd

LEMMA JudgeKeeps == SigningInv /\ Judge => SigningInv'
<1> SUFFICES ASSUME SigningInv, Judge PROVE SigningInv'
  OBVIOUS
<1>1. /\ UNCHANGED <<graph, sheet, arkd, answer, honest>> /\ signing = "sent"
      /\ signing' = IF ~(answer # NoAnswer /\ Accepts(answer)) THEN "ambiguous"
                    ELSE IF Emulated THEN "recorded" ELSE "answered"
  BY DEF Judge, Accepts
<1>2. AnsweredIsFinal'
  BY <1>1, SentSheetStays DEF SigningInv, AnsweredIsFinal
<1>3. AnswerIsHonest'
  BY <1>1, SentSheetStays DEF SigningInv, AnswerIsHonest
<1>4. OnlyUnheardEnd'
  <2>1. HonestAnswer # NoAnswer /\ Accepts(HonestAnswer)
    BY <1>1, OnTheWay, HonestIsAccepted DEF OnItsWay
  <2>2. honest => answer = HonestAnswer
    BY <1>1 DEF SigningInv, AnswerIsHonest
  <2> QED BY <1>1, <2>1, <2>2 DEF OnlyUnheardEnd
<1> QED BY <1>1, <1>2, <1>3, <1>4, LaterKeeps DEF OnItsWay

LEMMA FinalizeKeeps == SigningInv /\ Finalize => SigningInv'
<1> SUFFICES ASSUME SigningInv, Finalize PROVE SigningInv'
  OBVIOUS
<1> DEFINE complete == \A i \in Inputs : Exactly(Combined(answer), <<"cp", i>>, graph.leaf[i])
           judged == graph.route = "fill" => FillAnswer(Combined(answer))
<1>1. /\ UNCHANGED <<graph, sheet, answer, honest>> /\ signing = "answered"
      /\ arkd' = IF complete THEN "final" ELSE arkd
      /\ signing' = IF complete /\ judged THEN "recorded" ELSE "ambiguous"
  BY DEF Finalize
<1>2. honest => complete /\ judged
  <2>1. honest => answer = HonestAnswer
    BY <1>1 DEF SigningInv, AnswerIsHonest
  <2> QED BY <1>1, <2>1, HonestIsFinal
<1> HIDE DEF complete, judged
<1>3. AnsweredIsFinal'
  BY <1>1 DEF AnsweredIsFinal
<1>4. AnswerIsHonest'
  BY <1>1 DEF AnswerIsHonest
<1>5. OnlyUnheardEnd'
  BY <1>1, <1>2 DEF OnlyUnheardEnd
<1> QED BY <1>1, <1>3, <1>4, <1>5, LaterKeeps DEF OnItsWay

LEMMA CrashKeeps == SigningInv /\ Crash => SigningInv'
<1> SUFFICES ASSUME SigningInv, Crash PROVE SigningInv'
  OBVIOUS
<1>1. /\ UNCHANGED <<graph, sheet, arkd>> /\ signing \in {"sent", "answered"}
      /\ signing' \in {"signed", "answered", "ambiguous"} /\ honest' = FALSE
      /\ signing' = "answered" => signing = "answered"
  BY DEF Crash
<1>2. AnsweredIsFinal' /\ AnswerIsHonest' /\ OnlyUnheardEnd'
  BY <1>1, SentSheetStays DEF SigningInv, AnsweredIsFinal, AnswerIsHonest, OnlyUnheardEnd
<1> QED BY <1>1, <1>2, LaterKeeps DEF OnItsWay

LEMMA SigningStutters == SigningInv /\ UNCHANGED signingVars => SigningInv'
<1> SUFFICES ASSUME SigningInv, UNCHANGED signingVars PROVE SigningInv'
  OBVIOUS
<1>1. Places' = Places /\ Sheets' = Sheets /\ \A pl : Gated(pl)' = Gated(pl) /\ Mine(pl)' = Mine(pl)
  BY SameGraph DEF signingVars
<1> QED BY <1>1, SentSheetStays DEF signingVars, SigningInv, AcceptedSheet, SignedFill,
     SignedLockup, Completable, OnItsWay, AnsweredIsFinal, AnswerIsHonest, OnlyUnheardEnd

LEMMA SigningSteps == SigningInv /\ [SigningNext]_signingVars => SigningInv'
<1> SUFFICES ASSUME SigningInv, SigningNext PROVE SigningInv'
  BY SigningStutters
<1>1. sheet \in Sheets /\ graph \in Graphs
  BY DEF SigningInv
<1>2. ASSUME NEW s \in Sheets, SenderSigns(s) \/ Posts(s) PROVE SigningInv'
  <2>1. graph' = graph /\ sheet' \in Sheets /\ signing' \in {"posted", "refused"}
    BY <1>2, SameGraph DEF SenderSigns, Posts
  <2> QED BY <2>1, EarlyKeeps
<1>3. ASSUME NEW s \in Altered(Signed(Unsigned, Theirs, Humans)), SenderSigns(s) \/ Posts(s)
      PROVE  SigningInv'
  <2> DEFINE f == [pl \in Places |-> [k \in Keys |->
                     IF pl \in Theirs /\ k \in (Humans(pl)) THEN "good" ELSE At(Unsigned, pl, k)]]
  <2>1. f \in [Places -> [Keys -> Marks]]
    BY <1>1, UnsignedSheets DEF Sheets, At, Marks
  <2>2. Signed(Unsigned, Theirs, Humans) = [Unsigned EXCEPT !.sig = f]
    BY DEF Signed
  <2> HIDE DEF f
  <2>3. Signed(Unsigned, Theirs, Humans) \in Sheets
    BY <1>1, <2>1, <2>2, UnsignedSheets, MarkedSheets
  <2> QED BY <1>2, <1>3, <2>3, AlteredSheets
<1>4. ASSUME NEW s \in Altered(Signed(Unsigned, Theirs, LAMBDA pl : Leaf(pl) \ {"server"})), Posts(s)
      PROVE  SigningInv'
  <2> DEFINE f == [pl \in Places |-> [k \in Keys |->
                     IF pl \in Theirs /\ k \in (Leaf(pl) \ {"server"}) THEN "good" ELSE At(Unsigned, pl, k)]]
  <2>1. f \in [Places -> [Keys -> Marks]]
    BY <1>1, UnsignedSheets DEF Sheets, At, Marks
  <2>2. Signed(Unsigned, Theirs, LAMBDA pl : Leaf(pl) \ {"server"}) = [Unsigned EXCEPT !.sig = f]
    BY DEF Signed
  <2> HIDE DEF f
  <2>3. Signed(Unsigned, Theirs, LAMBDA pl : Leaf(pl) \ {"server"}) \in Sheets
    BY <1>1, <2>1, <2>2, UnsignedSheets, MarkedSheets
  <2> QED BY <1>2, <1>4, <2>3, AlteredSheets
<1>5. ASSUME NEW t \in Altered(Signed(sheet, Places, LAMBDA pl : IF Mine(pl) THEN {graph.me} ELSE {})),
             SignGraph(t)
      PROVE  SigningInv'
  <2> DEFINE f == [pl \in Places |-> [k \in Keys |->
                     IF pl \in Places /\ k \in (IF Mine(pl) THEN {graph.me} ELSE {}) THEN "good" ELSE At(sheet, pl, k)]]
  <2>1. f \in [Places -> [Keys -> Marks]]
    BY <1>1, UnsignedSheets DEF Sheets, At, Marks
  <2>2. Signed(sheet, Places, LAMBDA pl : IF Mine(pl) THEN {graph.me} ELSE {}) = [sheet EXCEPT !.sig = f]
    BY DEF Signed
  <2> HIDE DEF f
  <2>3. Signed(sheet, Places, LAMBDA pl : IF Mine(pl) THEN {graph.me} ELSE {}) \in Sheets
    BY <1>1, <2>1, <2>2, UnsignedSheets, MarkedSheets
  <2> QED BY <1>5, <2>3, AlteredSheets, SignGraphKeeps
<1> QED BY <1>3, <1>4, <1>5, AcceptKeeps, SubmitGraphKeeps, JudgeKeeps, FinalizeKeeps, CrashKeeps
     DEF SigningNext

(* Whatever callers, identities and answers are made of, a graph leaves the *)
(* process only when its provider can complete it, and is recorded as done  *)
(* only when arkd has it final.                                             *)
THEOREM SentGraphsAreSound == SigningSpec => []SentIsSound
<1>1. SigningInv => SentIsSound
  BY DEF SigningInv, Completable, AnsweredIsFinal, OnItsWay, SentIsSound, SentIsCompletable,
     RecordedIsFinal
<1> QED BY <1>1, SigningStarts, SigningSteps, PTL DEF SigningSpec

(* No check of an answer refuses the answer of a provider that behaves: an  *)
(* outcome stays open only after a crash, a loss or a change on the way.    *)
THEOREM HonestAnswersAreAccepted == SigningSpec => []HonestAnswerIsAccepted
<1>1. SigningInv => HonestAnswerIsAccepted
  BY DEF SigningInv, OnlyUnheardEnd, HonestAnswerIsAccepted
<1> QED BY <1>1, SigningStarts, SigningSteps, PTL DEF SigningSpec

============================================================================
