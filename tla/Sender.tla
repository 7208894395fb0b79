------------------------------- MODULE Sender -------------------------------
(***************************************************************************)
(* A wallet that pays through a Taxi.  A signed payment is journaled under *)
(* the sender's key before it is submitted, a lock shared by the wallet's  *)
(* contexts admits one new payment at a time, and the record stays until   *)
(* the Taxi reports an outcome.  A resumed payment sends the same graph    *)
(* again; the error a context holds is resumed without the lock.  Answers, *)
(* requests and status reads are delayed or lost, and contexts reload.     *)
(***************************************************************************)
EXTENDS Naturals, FiniteSets

CONSTANTS
    Contexts,     \* pages or processes that share the wallet's storage and lock
    MaxPayments   \* bound: quotes ever taken

ASSUME SenderAssumption == MaxPayments \in Nat /\ "none" \notin Contexts

VARIABLES
    advance,    \* each transfer at the Taxi
    requests,   \* submissions on their way to the Taxi
    stored,     \* the pending record under the sender's key
    holder,     \* the context in the payment lock
    op,         \* what each context is doing
    held,       \* the error object each context keeps
    signed,     \* payments whose graph is signed
    forgotten,  \* payments the user gave up although the Taxi may finish them
    told        \* the outcome the user was given

senderVars == <<advance, requests, stored, holder, op, held, signed,
          forgotten, told>>

Nil == "none"
Payments == 1 .. MaxPayments
Nobody == 0

Landed == {"locked", "recovering", "returned"}
Statuses == {"quoted", "locking", "failed", "expired"} \cup Landed

NoOp == [kind |-> Nil, step |-> Nil, payment |-> Nobody, armed |-> FALSE,
         seen |-> Nil]
NoError == [kind |-> Nil, payment |-> Nobody]

Ops == [kind : {Nil, "send", "resume", "recheck", "forget"},
        step : {Nil, "confirming", "submitting", "asking", "seen"},
        payment : 0 .. MaxPayments, armed : BOOLEAN,
        seen : Statuses \cup {Nil}]

SenderInit ==
    /\ advance = [t \in Payments |-> Nil]
    /\ requests = {}
    /\ stored = Nobody
    /\ holder = Nil
    /\ op = [p \in Contexts |-> NoOp]
    /\ held = [p \in Contexts |-> NoError]
    /\ signed = {}
    /\ forgotten = {}
    /\ told = [t \in Payments |-> Nil]

-----------------------------------------------------------------------------
(* The Taxi: the row of each transfer as its status route reports it.  A    *)
(* failed submission may be tried again, a covenant may be returned before  *)
(* it is seen locked and claimed while it is recovered: a claimed one is    *)
(* reported, and told, as a locked one.                                     *)

Accept(t) == advance[t] = "quoted" /\ advance' = [advance EXCEPT ![t] = "locking"]

(* A submission arrives: it is accepted, or it changes nothing.             *)
Arrive(t) ==
    /\ t \in requests
    /\ Accept(t) \/ UNCHANGED advance
    /\ requests' = requests \ {t}

Moves ==
    {<<"quoted", "expired">>, <<"locking", "failed">>, <<"failed", "locking">>,
     <<"locked", "recovering">>, <<"recovering", "locked">>}
    \cup {"locking", "failed"} \X {"locked", "returned"}
    \cup {"locked", "recovering"} \X {"returned"}

Progress(t) ==
    /\ \E s \in Statuses : <<advance[t], s>> \in Moves /\ advance' = [advance EXCEPT ![t] = s]
    /\ UNCHANGED requests

-----------------------------------------------------------------------------
(* A new payment, under the lock.                                           *)

Unlocked(p) == IF holder = p THEN holder' = Nil ELSE UNCHANGED holder

(* The operation of p ends, with the error object it throws.                *)
Ends(p, error) ==
    /\ op' = [op EXCEPT ![p] = NoOp]
    /\ held' = [held EXCEPT ![p] = error]
    /\ Unlocked(p)

Pending(t) == [kind |-> "pending", payment |-> t]
Failed(t) == [kind |-> "failed", payment |-> t]

(* sendDirectTaxi: a stored record is thrown back instead of a new send.    *)
Blocked(p) == stored # Nobody /\ Ends(p, Pending(stored)) /\ UNCHANGED advance

(* A quote that verifies is put to the user.  (A refused plan or quote ends *)
(* the call as it began.)                                                   *)
Quoted(p) ==
    /\ stored = Nobody
    /\ \E t \in Payments :
          /\ advance[t] = Nil
          /\ \A u \in 1 .. (t - 1) : advance[u] # Nil
          /\ advance' = [advance EXCEPT ![t] = "quoted"]
          /\ op' = [op EXCEPT ![p] = [NoOp EXCEPT !.kind = "send", !.step = "confirming",
                                                  !.payment = t]]
    /\ holder' = p
    /\ UNCHANGED held

Send(p) ==
    /\ op[p].kind = Nil /\ holder = Nil
    /\ Blocked(p) \/ Quoted(p)
    /\ UNCHANGED <<requests, stored, signed, forgotten, told>>

(* journalDirectTaxi, then submit: the graph leaves only once it is stored. *)
Journal(t) == stored' = t

(* The user confirms, the coins are still free and the identity signs; or   *)
(* the user declines, the quote lapsed, a coin is gone or storage refuses.  *)
Confirmed(p) ==
    LET t == op[p].payment IN
    /\ op[p].step = "confirming"
    /\ \/ /\ signed' = signed \cup {t}
          /\ Journal(t)
          /\ requests' = requests \cup {t}
          /\ op' = [op EXCEPT ![p] = [@ EXCEPT !.step = "submitting", !.armed = TRUE]]
          /\ UNCHANGED <<holder, held>>
       \/ /\ Ends(p, NoError)
          /\ UNCHANGED <<requests, stored, signed>>
    /\ UNCHANGED <<advance, forgotten, told>>

-----------------------------------------------------------------------------
(* Waiting for the outcome.                                                 *)

(* submit answers: accepted, not ready (tolerated), or an error.            *)
Answered(p) ==
    LET t == op[p].payment IN
    /\ op[p].step = "submitting"
    /\ \/ /\ advance[t] \notin {"quoted", "expired"}
          /\ op' = [op EXCEPT ![p] = [@ EXCEPT !.step = "asking", !.armed = FALSE]]
          /\ UNCHANGED <<holder, held>>
       \/ /\ op' = [op EXCEPT ![p].step = "asking"]
          /\ UNCHANGED <<holder, held>>
       \/ Ends(p, Pending(t))
    /\ UNCHANGED <<advance, requests, stored, signed, forgotten, told>>

(* The Taxi answers a status read; or the read fails, or the 30 seconds of  *)
(* the wait are over.                                                       *)
ReadStatus(p) ==
    /\ op[p].step = "asking"
    /\ \/ /\ op' = [op EXCEPT ![p] = [@ EXCEPT !.step = "seen", !.seen = advance[op[p].payment]]]
          /\ UNCHANGED <<holder, held>>
       \/ Ends(p, Pending(op[p].payment))
    /\ UNCHANGED <<advance, requests, stored, signed, forgotten, told>>

MutClears(t) == TRUE

(* clearPending: nothing stored is fine, another payment's record is not.   *)
Clears(t) == stored \in {Nobody, t}

(* The outcomes that end a wait, each clearing the record first.            *)
MutOutcome(status) ==
    CASE status = "locked" -> "sent"
      [] status = "returned" -> "returned"
      [] status \in {"expired", "failed"} -> "not sent"
      [] OTHER -> Nil

Outcome(status) ==
    CASE status = "locked" -> "sent"
      [] status = "returned" -> "returned"
      [] status = "expired" -> "not sent"
      [] OTHER -> Nil

SettlesPayment(p, t) ==
    /\ Outcome(op[p].seen) # Nil
    /\ IF Clears(t)
       THEN /\ stored' = Nobody
            /\ told' = [told EXCEPT ![t] = Outcome(op[p].seen)]
            /\ Ends(p, NoError)
       ELSE Ends(p, Pending(t)) /\ UNCHANGED <<stored, told>>
    /\ UNCHANGED <<requests, forgotten>>

(* The Taxi gave up; forget() asks once more and only then drops the record.*)
GivesUp(p, t) ==
    /\ op[p].seen = "failed"
    /\ IF op[p].kind = "forget" /\ stored = t
       THEN /\ stored' = Nobody
            /\ forgotten' = forgotten \cup {t}
            /\ Ends(p, NoError)
       ELSE Ends(p, Failed(t)) /\ UNCHANGED <<stored, forgotten>>
    /\ UNCHANGED <<requests, told>>

(* Still quoted: the stored graph is sent again, unless it was answered.    *)
Waits(p, t) ==
    /\ op[p].seen \in {"quoted", "locking", "recovering"}
    /\ IF op[p].seen = "quoted" /\ op[p].armed
       THEN /\ op' = [op EXCEPT ![p].step = "submitting"]
            /\ requests' = requests \cup {t}
       ELSE /\ op' = [op EXCEPT ![p] = [@ EXCEPT !.step = "asking",
                                         !.armed = (@ /\ op[p].seen = "quoted")]]
            /\ UNCHANGED requests
    /\ UNCHANGED <<stored, forgotten, told, holder, held>>

HandleStatus(p) ==
    LET t == op[p].payment IN
    /\ op[p].step = "seen"
    /\ SettlesPayment(p, t) \/ GivesUp(p, t) \/ Waits(p, t)
    /\ UNCHANGED <<advance, signed>>

-----------------------------------------------------------------------------
(* Coming back to a payment.                                                *)

Resumes(p, kind, t) ==
    op' = [op EXCEPT ![p] = [NoOp EXCEPT !.kind = kind, !.step = "asking", !.payment = t,
                                         !.armed = TRUE]]

(* resumePendingDirectTaxi: under the lock, whatever record is stored.      *)
ResumeStored(p) ==
    /\ op[p].kind = Nil /\ holder = Nil /\ stored # Nobody
    /\ Resumes(p, "resume", stored)
    /\ holder' = p
    /\ UNCHANGED <<advance, requests, stored, held, signed, forgotten, told>>

(* getPendingDirectTaxi                                                     *)
RestorePending(p) ==
    /\ op[p].kind = Nil /\ stored # Nobody
    /\ held' = [held EXCEPT ![p] = Pending(stored)]
    /\ UNCHANGED <<advance, requests, stored, holder, op, signed, forgotten, told>>

(* PendingDirectTaxi.resume and FailedDirectTaxi.forget take no lock.       *)
ResumeHeld(p) ==
    /\ op[p].kind = Nil
    /\ \/ held[p].kind # Nil /\ Resumes(p, "recheck", held[p].payment)
       \/ held[p].kind = "failed" /\ Resumes(p, "forget", held[p].payment)
    /\ UNCHANGED <<advance, requests, stored, holder, held, signed, forgotten, told>>

(* A context is reloaded or closed: its lock falls, storage stays.          *)
CloseContext(p) ==
    /\ op[p].kind # Nil \/ held[p].kind # Nil
    /\ Ends(p, NoError)
    /\ UNCHANGED <<advance, requests, stored, signed, forgotten, told>>

TaxiNext ==
    /\ \E t \in Payments : Arrive(t) \/ Progress(t)
    /\ UNCHANGED <<stored, holder, op, held, signed, forgotten, told>>

ContextNext(p) ==
    \/ Send(p) \/ Confirmed(p) \/ Answered(p) \/ ReadStatus(p) \/ HandleStatus(p)
    \/ ResumeStored(p) \/ RestorePending(p) \/ ResumeHeld(p) \/ CloseContext(p)

SenderNext ==
    \/ TaxiNext
    \/ \E p \in Contexts : ContextNext(p)

SenderSpec == SenderInit /\ [][SenderNext]_senderVars

-----------------------------------------------------------------------------
(* Safety.                                                                  *)

SenderTypeOK ==
    /\ advance \in [Payments -> Statuses \cup {Nil}]
    /\ requests \in SUBSET Payments
    /\ stored \in 0 .. MaxPayments
    /\ holder \in Contexts \cup {Nil}
    /\ op \in [Contexts -> Ops]
    /\ signed \in SUBSET Payments /\ forgotten \in SUBSET Payments

(* A signed payment the Taxi may still accept or land.                      *)
MayLand(t) == t \in signed /\ advance[t] \in {"quoted", "locking", "failed"}

(* While a signed payment may still land its record is stored, so no second *)
(* payment is signed beside it: whatever was reloaded, resent or rechecked  *)
(* by another context, unless the user forgot a failed one.  (send.ts:      *)
(* journal before submit, clearPending, the lock.)                          *)
RecordKeptWhileItMayLand == \A t \in Payments \ forgotten : MayLand(t) => stored = t

(* What the user is told is so and stays so: a payment reported as not sent *)
(* never lands, one reported as sent has landed, one reported as returned   *)
(* came back.  (waitForSettlement against the Taxi's row.)                  *)
OutcomeIsTrue ==
    \A t \in Payments :
        /\ told[t] = "not sent" => advance[t] = "expired"
        /\ told[t] = "sent" => advance[t] \in Landed
        /\ told[t] = "returned" => advance[t] = "returned"
=============================================================================
