-------------------------- MODULE SubmissionProofs --------------------------
(***************************************************************************)
(* Proofs about Submission for any set of processes and any number of      *)
(* leases and faults.                                                      *)
(***************************************************************************)
EXTENDS Submission, TLAPS

Rows == [state : States, phase : Phases, token : Tokens, live : BOOLEAN,
         due : BOOLEAN, prepared : Tokens, response : Tokens]

-----------------------------------------------------------------------------
(* What the statements do to a row. *)

\* The row updates keep the row's type.
LEMMA RowUpdates ==
    ASSUME NEW r \in Rows, NEW n \in Tokens
    PROVE  /\ RecordPrepared(r, n) \in Rows
           /\ RecordResponse(r, n) \in Rows
           /\ RecordFinalized(r) \in Rows
           /\ RecordAttemptFailure(r) \in Rows
           /\ RecordPermanentFailure(r) \in Rows
           /\ Expedited(r) \in Rows
           /\ RecordObserved(r) \in Rows
           /\ [r EXCEPT !.token = n, !.live = TRUE] \in Rows
<1>0. None \in Tokens
  BY BoundsAssumption DEF Tokens, None
<1>1. RecordPrepared(r, n) \in Rows /\ RecordResponse(r, n) \in Rows
  BY DEF Rows, Phases, RecordPrepared, RecordResponse
<1>2. RecordFinalized(r) \in Rows
  BY <1>0 DEF Rows, Phases, RecordFinalized
<1>3. RecordAttemptFailure(r) \in Rows
  BY <1>0 DEF Rows, RecordAttemptFailure
<1>4. RecordPermanentFailure(r) \in Rows
  BY <1>0 DEF Rows, Phases, RecordPermanentFailure
<1>5. Expedited(r) \in Rows
  BY DEF Rows, Phases, Expedited
<1>6. RecordObserved(r) \in Rows
  BY DEF Rows, States, RecordObserved
<1>7. [r EXCEPT !.token = n, !.live = TRUE] \in Rows
  BY DEF Rows
<1> QED
  BY <1>1, <1>2, <1>3, <1>4, <1>5, <1>6, <1>7

\* The operator's retry keeps the artifacts and picks the phase they belong to.
LEMMA ExpeditedRow ==
    ASSUME NEW r \in Rows
    PROVE  /\ Expedited(r).prepared = r.prepared
           /\ Expedited(r).response = r.response
           /\ r.phase # "failed" => Expedited(r).phase = r.phase
           /\ r.phase = "failed" /\ r.response = None => Expedited(r).phase = "prepared"
           /\ r.phase = "failed" /\ r.response # None => Expedited(r).phase = "responded"
<1>1. CASE r.phase = "failed" /\ r.response = None
  <2>1. Expedited(r) = [r EXCEPT !.phase = "prepared", !.due = TRUE]
    BY <1>1 DEF Expedited
  <2> QED
    BY <1>1, <2>1 DEF Rows
<1>2. CASE r.phase = "failed" /\ r.response # None
  <2>1. Expedited(r) = [r EXCEPT !.phase = "responded", !.due = TRUE]
    BY <1>2 DEF Expedited
  <2> QED
    BY <1>2, <2>1 DEF Rows
<1>3. CASE r.phase # "failed"
  <2>1. Expedited(r) = [r EXCEPT !.due = TRUE]
    BY <1>3 DEF Expedited
  <2> QED
    BY <1>3, <2>1 DEF Rows
<1> QED
  BY <1>1, <1>2, <1>3

\* The passing of time keeps phase and artifacts.
LEMMA TimedRow ==
    ASSUME NEW r \in Rows
    PROVE  /\ [r EXCEPT !.live = FALSE].prepared = r.prepared
           /\ [r EXCEPT !.live = FALSE].response = r.response
           /\ [r EXCEPT !.live = FALSE].phase = r.phase
           /\ [r EXCEPT !.due = TRUE].prepared = r.prepared
           /\ [r EXCEPT !.due = TRUE].response = r.response
           /\ [r EXCEPT !.due = TRUE].phase = r.phase
<1>1. /\ [r EXCEPT !.live = FALSE].prepared = r.prepared
      /\ [r EXCEPT !.live = FALSE].response = r.response
      /\ [r EXCEPT !.live = FALSE].phase = r.phase
  BY DEF Rows
<1>2. /\ [r EXCEPT !.due = TRUE].prepared = r.prepared
      /\ [r EXCEPT !.due = TRUE].response = r.response
      /\ [r EXCEPT !.due = TRUE].phase = r.phase
  BY DEF Rows
<1> QED
  BY <1>1, <1>2

-----------------------------------------------------------------------------
(* Type correctness. *)

\* Typing of what a run proceeds to.
LEMMA ProceedType ==
    ASSUME TypeOK, NEW p \in Processes, NEW r \in Rows, NEW token \in Tokens,
           Proceed(p, r, token)
    PROVE  run' \in [Processes -> Runs] /\ sent' \subseteq Requests
<1>1. CASE r.phase = "claimed"
  BY <1>1, BoundsAssumption DEF TypeOK, Proceed, Runs, Tokens, None
<1>2. CASE r.phase = "prepared"
  <2>1. r.prepared \in Tokens
    BY DEF Rows
  <2>2. /\ run' = [run EXCEPT ![p] = [pc |-> "submitting", token |-> token,
                                      artifact |-> r.prepared]]
        /\ sent' = sent \cup {[call |-> "submit", artifact |-> r.prepared]}
    BY <1>2 DEF Proceed, Send
  <2>3. [pc |-> "submitting", token |-> token, artifact |-> r.prepared] \in Runs
    BY <2>1 DEF Runs
  <2>4. [call |-> "submit", artifact |-> r.prepared] \in Requests
    BY <2>1 DEF Requests
  <2> QED
    BY <2>2, <2>3, <2>4 DEF TypeOK
<1>3. CASE r.phase = "responded"
  <2>1. r.response \in Tokens
    BY DEF Rows
  <2>2. /\ run' = [run EXCEPT ![p] = [pc |-> "finalizing", token |-> token,
                                      artifact |-> r.response]]
        /\ sent' = sent \cup {[call |-> "finalize", artifact |-> r.response]}
    BY <1>3 DEF Proceed, Send
  <2>3. [pc |-> "finalizing", token |-> token, artifact |-> r.response] \in Runs
    BY <2>1 DEF Runs
  <2>4. [call |-> "finalize", artifact |-> r.response] \in Requests
    BY <2>1 DEF Requests
  <2> QED
    BY <2>2, <2>3, <2>4 DEF TypeOK
<1> QED
  BY <1>1, <1>2, <1>3 DEF Proceed

\* Typing of the variables a resumed run touches.
LEMMA BeginType ==
    ASSUME TypeOK, NEW p \in Processes, Begin(p)
    PROVE  /\ row' \in Rows /\ run' \in [Processes -> Runs] /\ sent' \subseteq Requests
           /\ claims' \in 0 .. MaxClaims /\ paused' \in BOOLEAN /\ faults' \in 0 .. MaxFaults
<1>0. row \in Rows /\ 0 \in Tokens
  BY BoundsAssumption DEF TypeOK, Rows, Tokens
<1>1. CASE /\ Claimable /\ claims < MaxClaims
           /\ claims' = claims + 1
           /\ row' = [row EXCEPT !.token = claims + 1, !.live = TRUE]
           /\ Proceed(p, row, claims + 1)
           /\ UNCHANGED <<paused, faults>>
  <2>1. claims + 1 \in Tokens /\ claims + 1 \in 0 .. MaxClaims
    BY <1>1, BoundsAssumption DEF TypeOK, Tokens
  <2>2. run' \in [Processes -> Runs] /\ sent' \subseteq Requests
    BY <1>0, <1>1, <2>1, ProceedType
  <2>3. row' \in Rows
    BY <1>0, <1>1, <2>1, RowUpdates
  <2> QED
    BY <1>1, <2>1, <2>2, <2>3 DEF TypeOK
<1>2. CASE /\ Claimable /\ claims < MaxClaims /\ Fault
           /\ claims' = claims + 1
           /\ row' = RecordPermanentFailure(row) /\ paused' = TRUE
           /\ UNCHANGED <<run, sent>>
  <2>1. row' \in Rows
    BY <1>0, <1>2, RowUpdates
  <2>2. claims' \in 0 .. MaxClaims
    BY <1>2, BoundsAssumption DEF TypeOK
  <2>3. faults' \in 0 .. MaxFaults
    BY <1>2, BoundsAssumption DEF TypeOK, Fault
  <2>4. paused' \in BOOLEAN
    BY <1>2
  <2> QED
    BY <1>2, <2>1, <2>2, <2>3, <2>4 DEF TypeOK
<1>3. CASE UNCHANGED <<row, run, sent, claims, paused, faults>>
  BY <1>0, <1>3 DEF TypeOK
<1> QED
  BY <1>1, <1>2, <1>3 DEF Begin

\* Typing after a run ends with or without a failure written.
LEMMA EndType ==
    ASSUME TypeOK, NEW p \in Processes
    PROVE  /\ EndRun(p) => run' \in [Processes -> Runs]
           /\ FailPermanently(p) => row' \in Rows /\ paused' \in BOOLEAN
           /\ FailForNow(p) => row' \in Rows
<1>0. row \in Rows /\ 0 \in Tokens
  BY BoundsAssumption DEF TypeOK, Rows, Tokens
<1>1. EndRun(p) => run' \in [Processes -> Runs]
  BY <1>0 DEF TypeOK, EndRun, Idle, Runs, None
<1>2. FailPermanently(p) => row' \in Rows
  BY <1>0, RowUpdates DEF FailPermanently
<1>3. FailPermanently(p) => paused' \in BOOLEAN
  BY DEF FailPermanently
<1>4. FailForNow(p) => row' \in Rows
  BY <1>0, RowUpdates DEF FailForNow
<1> QED
  BY <1>1, <1>2, <1>3, <1>4

\* Every step keeps the types.
LEMMA NextType == TypeOK /\ [Next]_vars => TypeOK'
<1> SUFFICES ASSUME TypeOK, [Next]_vars PROVE TypeOK'
  OBVIOUS
<1>0. row \in Rows /\ None \in Tokens
  BY BoundsAssumption DEF TypeOK, Rows, Tokens, None
<1>1. ASSUME NEW p \in Processes, ClaimLockup(p) PROVE TypeOK'
  <2>1. row' \in Rows
    BY <1>0, <1>1 DEF ClaimLockup, Rows, States
  <2> QED
    BY <1>1, <2>1 DEF TypeOK, ClaimLockup, passVars, providerVars, Rows
<1>2. ASSUME NEW p \in Processes, TakePrompt(p) PROVE TypeOK'
  <2>1. /\ row' \in Rows /\ run' \in [Processes -> Runs] /\ sent' \subseteq Requests
        /\ claims' \in 0 .. MaxClaims /\ paused' \in BOOLEAN /\ faults' \in 0 .. MaxFaults
    BY <1>0, <1>2, BeginType DEF TakePrompt, TypeOK
  <2> QED
    BY <1>2, <2>1 DEF TypeOK, TakePrompt, passVars, Rows
<1>3. ASSUME NEW p \in Processes, Prepared(p) PROVE TypeOK'
  <2>1. signatures + 1 \in Tokens /\ run[p].token \in Tokens
    BY <1>3, BoundsAssumption DEF TypeOK, Prepared, Tokens, Runs
  <2>2. RecordPrepared(row, signatures + 1) \in Rows
    BY <1>0, <2>1, RowUpdates
  <2>3. row' \in Rows
    BY <1>0, <1>3, <2>2 DEF Prepared, LoseLease
  <2>4. run' \in [Processes -> Runs] /\ sent' \subseteq Requests
    BY <1>3, <2>1, <2>3, ProceedType, EndType DEF Prepared, LoseLease, TypeOK
  <2> QED
    BY <1>3, <2>1, <2>3, <2>4 DEF TypeOK, Prepared, LoseLease, passVars, Rows, Tokens
<1>4. ASSUME NEW p \in Processes, Submitted(p) PROVE TypeOK'
  <2>1. stored \in Tokens /\ run[p].token \in Tokens
    BY DEF TypeOK, Runs
  <2>2. RecordResponse(row, stored) \in Rows
    BY <1>0, <2>1, RowUpdates
  <2>3. row' \in Rows /\ paused' \in BOOLEAN
    BY <1>0, <1>4, <2>2, EndType DEF Submitted, LoseLease, TypeOK
  <2>4. run' \in [Processes -> Runs] /\ sent' \subseteq Requests
    BY <1>4, <2>1, <2>3, ProceedType, EndType DEF Submitted, LoseLease, FailPermanently, TypeOK
  <2> QED
    BY <1>4, <2>3, <2>4 DEF TypeOK, Submitted, passVars, Rows
<1>5. ASSUME NEW p \in Processes, Finalized(p) PROVE TypeOK'
  <2>1. row' \in Rows /\ run' \in [Processes -> Runs]
    BY <1>0, <1>5, RowUpdates, EndType DEF Finalized, LoseLease
  <2> QED
    BY <1>5, <2>1 DEF TypeOK, Finalized, LoseLease, passVars, Rows
<1>6. ASSUME NEW p \in Processes, PrepareFails(p) \/ BadAnswer(p) PROVE TypeOK'
  <2>1. Fault /\ FailPermanently(p)
    BY <1>6 DEF PrepareFails, BadAnswer
  <2>2. row' \in Rows /\ paused' \in BOOLEAN /\ run' \in [Processes -> Runs]
    BY <2>1, EndType DEF FailPermanently
  <2>3. faults' \in 0 .. MaxFaults
    BY <2>1, BoundsAssumption DEF TypeOK, Fault
  <2>4. UNCHANGED <<prompted, tick, blocked, resume, up, stored, landed, claims, signatures, sent>>
    BY <1>6, <2>1 DEF PrepareFails, BadAnswer, passVars, FailPermanently
  <2> QED
    BY <2>2, <2>3, <2>4 DEF TypeOK, Rows
<1>7. ASSUME NEW p \in Processes, CallFails(p) PROVE TypeOK'
  <2>1. row' \in Rows /\ run' \in [Processes -> Runs]
    BY <1>7, EndType DEF CallFails, FailForNow
  <2>2. faults' \in 0 .. MaxFaults
    BY <1>7, BoundsAssumption DEF TypeOK, CallFails, Fault
  <2> QED
    BY <1>7, <2>1, <2>2 DEF TypeOK, CallFails, FailForNow, passVars, Rows
<1>8. ASSUME NEW p \in Processes, TickStart(p) PROVE TypeOK'
  <2>1. /\ row' \in Rows /\ run' \in [Processes -> Runs] /\ sent' \subseteq Requests
        /\ claims' \in 0 .. MaxClaims /\ paused' \in BOOLEAN /\ faults' \in 0 .. MaxFaults
    BY <1>0, <1>8, BeginType DEF TickStart, TypeOK
  <2> QED
    BY <1>8, <2>1 DEF TypeOK, TickStart, Rows
<1>9. ASSUME NEW p \in Processes, TickObserve(p) PROVE TypeOK'
  <2>1. row' \in Rows
    BY <1>0, <1>9, RowUpdates DEF TickObserve
  <2>2. faults' \in 0 .. MaxFaults
    BY <1>9, BoundsAssumption DEF TypeOK, TickObserve, Fault
  <2> QED
    BY <1>9, <2>1, <2>2 DEF TypeOK, TickObserve, workVars, providerVars, Rows
<1>10. ASSUME NEW p \in Processes,
              TickEnd(p) \/ RequestResume(p) \/ ResumeAdmission(p) \/ Restart(p)
       PROVE  TypeOK'
  BY <1>10 DEF TypeOK, TickEnd, RequestResume, ResumeAdmission, Restart, Blocking,
     workVars, providerVars
<1>11. ASSUME NEW p \in Processes, Crash(p) PROVE TypeOK'
  <2>1. run' \in [Processes -> Runs]
    BY <1>11, EndType DEF Crash
  <2>2. faults' \in 0 .. MaxFaults
    BY <1>11, BoundsAssumption DEF TypeOK, Crash, Fault
  <2> QED
    BY <1>11, <2>1, <2>2 DEF TypeOK, Crash, providerVars
<1>12. CASE PauseAdmission
  BY <1>12 DEF TypeOK, PauseAdmission, workVars, passVars, providerVars
<1>13. CASE RetrySubmission \/ Lapse \/ BecomeDue
  <2>0. /\ [row EXCEPT !.live = FALSE] \in Rows
        /\ [row EXCEPT !.due = TRUE] \in Rows
        /\ Expedited(row) \in Rows
    <3>1. [row EXCEPT !.live = FALSE] \in Rows /\ [row EXCEPT !.due = TRUE] \in Rows
      BY <1>0 DEF Rows
    <3> QED
      BY <1>0, <3>1, RowUpdates
  <2>1. row' \in Rows
    BY <2>0, <1>13 DEF RetrySubmission, Lapse, BecomeDue
  <2>2. faults' \in 0 .. MaxFaults
    BY <1>13, BoundsAssumption DEF TypeOK, RetrySubmission, Lapse, BecomeDue, Fault
  <2> QED
    BY <1>13, <2>1, <2>2 DEF TypeOK, RetrySubmission, Lapse, BecomeDue, workVars, passVars,
       providerVars, Rows
<1>14. ASSUME NEW q \in sent, Accept(q) \/ Land(q) PROVE TypeOK'
  <2>1. q.artifact \in Tokens
    BY DEF TypeOK, Requests
  <2> QED
    BY <1>14, <2>1 DEF TypeOK, Accept, Land, workVars, passVars
<1>15. CASE UNCHANGED vars
  BY <1>15 DEF TypeOK, vars, workVars, passVars, providerVars
<1> QED
  BY <1>1, <1>2, <1>3, <1>4, <1>5, <1>6, <1>7, <1>8, <1>9, <1>10, <1>11, <1>12, <1>13,
     <1>14, <1>15 DEF Next

\* The initial state is well typed.
LEMMA InitType == Init => TypeOK
<1> SUFFICES ASSUME Init PROVE TypeOK
  OBVIOUS
<1>0. None \in Tokens /\ None \in 0 .. MaxFaults
  BY BoundsAssumption DEF Tokens, None
<1>1. Idle \in Runs
  BY <1>0 DEF Idle, Runs
<1>2. row \in Rows
  BY <1>0 DEF Init, Rows, States, Phases
<1>3. claims \in Tokens /\ signatures \in Tokens /\ faults \in 0 .. MaxFaults
  BY <1>0 DEF Init, None
<1>4. /\ run \in [Processes -> Runs] /\ tick \in [Processes -> {"idle", "resuming", "closing"}]
      /\ blocked \in [Processes -> BOOLEAN]
      /\ resume \in [Processes -> {"idle", "scanning", "scanned"}]
  BY <1>1 DEF Init
<1> QED
  BY <1>0, <1>2, <1>3, <1>4 DEF Init, TypeOK, Rows, Tokens

\* The row, the runs, the calls and the counters keep their types, for any
\* processes and any number of leases and faults.
THEOREM SubmissionTypeCorrect == Spec => []TypeOK
  BY InitType, NextType, PTL DEF Spec

-----------------------------------------------------------------------------
(* The copies agree. *)

\* The artifacts a row holds in each phase.
RowShape ==
    /\ row.phase = "claimed" => row.prepared = None
    /\ row.phase \in {"prepared", "responded"} => row.prepared # None
    /\ row.phase \in {"claimed", "prepared"} => row.response = None
    /\ row.phase = "responded" => row.response # None

\* A call carries an artifact, and it is the one its row holds; so does a run.
CallsCarryTheRow ==
    /\ \A q \in sent : /\ q.artifact # None
                       /\ q.call = "submit" => q.artifact = row.prepared
                       /\ q.call = "finalize" => q.artifact = row.response
    /\ \A p \in Processes :
        /\ run[p].pc = "submitting" => run[p].artifact = row.prepared /\ row.prepared # None
        /\ run[p].pc = "finalizing" => run[p].artifact = row.response /\ row.response # None

\* The provider's copy is the row's, and the row's answer is the provider's.
ProviderAgrees ==
    /\ stored \in {None, row.prepared}
    /\ row.response \in {None, stored}

IndInv ==
    /\ TypeOK
    /\ RowShape
    /\ CallsCarryTheRow
    /\ ProviderAgrees
    /\ FinalizedHasLanded

\* A step that keeps the row's artifacts, sends nothing and starts no call
\* keeps what the calls carry.
LEMMA QuietStep ==
    ASSUME IndInv, row'.prepared = row.prepared, row'.response = row.response,
           UNCHANGED <<sent, stored>>, landed => landed',
           \A p \in Processes : run'[p] = run[p] \/ run'[p] = Idle
    PROVE  CallsCarryTheRow' /\ ProviderAgrees'
<1>1. CallsCarryTheRow'
  BY DEF IndInv, CallsCarryTheRow, Idle
<1>2. ProviderAgrees'
  BY DEF IndInv, ProviderAgrees
<1> QED
  BY <1>1, <1>2

\* Ending a run leaves the others alone.
LEMMA EndRunQuiet ==
    ASSUME TypeOK, NEW p \in Processes, EndRun(p)
    PROVE  \A o \in Processes : run'[o] = run[o] \/ run'[o] = Idle
  BY DEF TypeOK, EndRun

\* A permanent failure, written or not, keeps the invariant.
LEMMA FailPermanentlyKeeps ==
    ASSUME IndInv, NEW p \in Processes, FailPermanently(p), UNCHANGED <<stored, landed>>
    PROVE  RowShape' /\ CallsCarryTheRow' /\ ProviderAgrees' /\ FinalizedHasLanded'
<1>0. row \in Rows
  BY DEF IndInv, TypeOK, Rows
<1>1. /\ row'.prepared = row.prepared /\ row'.response = row.response
      /\ row'.phase \in {row.phase, "failed"}
  BY <1>0 DEF FailPermanently, RecordPermanentFailure, Rows
<1>2. UNCHANGED sent /\ \A o \in Processes : run'[o] = run[o] \/ run'[o] = Idle
  BY EndRunQuiet DEF IndInv, FailPermanently
<1>3. CallsCarryTheRow' /\ ProviderAgrees'
  BY <1>1, <1>2, QuietStep
<1>4. RowShape' /\ FinalizedHasLanded'
  BY <1>1 DEF IndInv, RowShape, FinalizedHasLanded
<1> QED
  BY <1>3, <1>4

\* An ambiguous failure, written or not, keeps the invariant.
LEMMA FailForNowKeeps ==
    ASSUME IndInv, NEW p \in Processes, FailForNow(p), UNCHANGED <<stored, landed>>
    PROVE  RowShape' /\ CallsCarryTheRow' /\ ProviderAgrees' /\ FinalizedHasLanded'
<1>0. row \in Rows
  BY DEF IndInv, TypeOK, Rows
<1>1. /\ row'.prepared = row.prepared /\ row'.response = row.response
      /\ row'.phase = row.phase
  BY <1>0 DEF FailForNow, RecordAttemptFailure, Rows
<1>2. UNCHANGED sent /\ \A o \in Processes : run'[o] = run[o] \/ run'[o] = Idle
  BY EndRunQuiet DEF IndInv, FailForNow
<1>3. CallsCarryTheRow' /\ ProviderAgrees'
  BY <1>1, <1>2, QuietStep
<1>4. RowShape' /\ FinalizedHasLanded'
  BY <1>1 DEF IndInv, RowShape, FinalizedHasLanded
<1> QED
  BY <1>3, <1>4

\* A run that lost its lease keeps the invariant.
LEMMA LoseLeaseKeeps ==
    ASSUME IndInv, NEW p \in Processes, NEW phase, LoseLease(p, phase),
           UNCHANGED <<stored, landed>>
    PROVE  RowShape' /\ CallsCarryTheRow' /\ ProviderAgrees' /\ FinalizedHasLanded'
<1>1. UNCHANGED <<row, sent>> /\ \A o \in Processes : run'[o] = run[o] \/ run'[o] = Idle
  BY EndRunQuiet DEF IndInv, LoseLease
<1>2. CallsCarryTheRow' /\ ProviderAgrees'
  BY <1>1, QuietStep
<1> QED
  BY <1>1, <1>2 DEF IndInv, RowShape, FinalizedHasLanded

\* A run that proceeds sends what the row it leaves behind holds.
LEMMA ProceedKeeps ==
    ASSUME TypeOK, NEW p \in Processes, NEW r \in Rows, NEW token \in Tokens,
           Proceed(p, r, token),
           r.phase \in {"prepared", "responded"} => r.prepared # None,
           r.phase = "responded" => r.response # None,
           row'.prepared = r.prepared, row'.response = r.response,
           \A q \in sent : /\ q.artifact # None
                           /\ q.call = "submit" => q.artifact = r.prepared
                           /\ q.call = "finalize" => q.artifact = r.response,
           \A o \in Processes :
               /\ run[o].pc = "submitting" => run[o].artifact = r.prepared /\ r.prepared # None
               /\ run[o].pc = "finalizing" => run[o].artifact = r.response /\ r.response # None
    PROVE  CallsCarryTheRow'
<1>1. CASE r.phase = "claimed"
  BY <1>1 DEF TypeOK, Proceed, CallsCarryTheRow
<1>2. CASE r.phase = "prepared"
  BY <1>2 DEF TypeOK, Proceed, Send, CallsCarryTheRow
<1>3. CASE r.phase = "responded"
  BY <1>3 DEF TypeOK, Proceed, Send, CallsCarryTheRow
<1> QED
  BY <1>1, <1>2, <1>3 DEF Proceed

\* resume(id) keeps the invariant.
LEMMA BeginKeeps ==
    ASSUME IndInv, NEW p \in Processes, Begin(p), UNCHANGED <<stored, landed>>
    PROVE  RowShape' /\ CallsCarryTheRow' /\ ProviderAgrees' /\ FinalizedHasLanded'
<1>0. row \in Rows
  BY DEF IndInv, TypeOK, Rows
<1>1. CASE /\ Claimable /\ claims < MaxClaims
           /\ claims' = claims + 1
           /\ row' = [row EXCEPT !.token = claims + 1, !.live = TRUE]
           /\ Proceed(p, row, claims + 1)
           /\ UNCHANGED <<paused, faults>>
  <2>1. claims + 1 \in Tokens
    BY <1>1, BoundsAssumption DEF IndInv, TypeOK, Tokens
  <2>2. /\ row'.prepared = row.prepared /\ row'.response = row.response
        /\ row'.phase = row.phase
    BY <1>0, <1>1 DEF Rows
  <2>3. CallsCarryTheRow'
    BY <1>0, <1>1, <2>1, <2>2, ProceedKeeps DEF IndInv, RowShape, CallsCarryTheRow
  <2> QED
    BY <2>2, <2>3 DEF IndInv, RowShape, ProviderAgrees, FinalizedHasLanded
<1>2. CASE /\ row' = RecordPermanentFailure(row)
           /\ UNCHANGED <<run, sent>>
  <2>1. /\ row'.prepared = row.prepared /\ row'.response = row.response
        /\ row'.phase = "failed"
    BY <1>0, <1>2 DEF RecordPermanentFailure, Rows
  <2>2. CallsCarryTheRow' /\ ProviderAgrees'
    BY <1>2, <2>1, QuietStep
  <2> QED
    BY <2>1, <2>2 DEF RowShape, FinalizedHasLanded
<1>3. CASE UNCHANGED <<row, run, sent, claims, paused, faults>>
  BY <1>3 DEF IndInv, RowShape, CallsCarryTheRow, ProviderAgrees, FinalizedHasLanded
<1> QED
  BY <1>1, <1>2, <1>3 DEF Begin

\* Every step keeps the invariant.
LEMMA NextKeeps == IndInv /\ [Next]_vars => IndInv'
<1> SUFFICES ASSUME IndInv, [Next]_vars PROVE IndInv'
  OBVIOUS
<1> DEFINE Kept == RowShape' /\ CallsCarryTheRow' /\ ProviderAgrees' /\ FinalizedHasLanded'
<1>0. TypeOK' /\ row \in Rows
  BY NextType DEF IndInv, TypeOK, Rows
<1>1. ASSUME NEW p \in Processes, ClaimLockup(p) PROVE Kept
  <2>1. /\ row'.prepared = row.prepared /\ row'.response = row.response
        /\ row'.phase = row.phase
    BY <1>0, <1>1 DEF ClaimLockup, Rows
  <2>2. UNCHANGED <<run, sent, stored, landed>>
    BY <1>1 DEF ClaimLockup, providerVars
  <2>3. CallsCarryTheRow' /\ ProviderAgrees'
    BY <2>1, <2>2, QuietStep
  <2> QED
    BY <2>1, <2>2, <2>3 DEF IndInv, RowShape, FinalizedHasLanded
<1>2. ASSUME NEW p \in Processes, TakePrompt(p) \/ TickStart(p) PROVE Kept
  <2>1. CASE Begin(p)
    BY <1>2, <2>1, BeginKeeps DEF TakePrompt, TickStart
  <2>2. CASE UNCHANGED <<row, run, sent, claims, paused, faults>>
    <3>1. UNCHANGED <<stored, landed>>
      BY <1>2 DEF TakePrompt, TickStart
    <3> QED
      BY <2>2, <3>1 DEF IndInv, RowShape, CallsCarryTheRow, ProviderAgrees, FinalizedHasLanded
  <2> QED
    BY <1>2, <2>1, <2>2 DEF TakePrompt, TickStart
<1>3. ASSUME NEW p \in Processes, Prepared(p) PROVE Kept
  <2>0. UNCHANGED <<stored, landed>>
    BY <1>3 DEF Prepared
  <2>1. CASE LoseLease(p, "claimed")
    BY <2>0, <2>1, LoseLeaseKeeps
  <2>2. CASE /\ Renewed(p, "claimed")
             /\ row' = RecordPrepared(row, signatures + 1)
             /\ Proceed(p, row', run[p].token)
    <3>1. row.phase = "claimed" /\ row.prepared = None /\ row.response = None
      BY <2>2 DEF IndInv, RowShape, Renewed
    <3>2. signatures + 1 \in Tokens /\ signatures + 1 # None /\ run[p].token \in Tokens
      BY <1>3, BoundsAssumption DEF IndInv, TypeOK, Prepared, Tokens, None, Runs
    <3>3. /\ row'.phase = "prepared" /\ row'.prepared = signatures + 1
          /\ row'.response = None /\ row' \in Rows
      BY <1>0, <2>2, <3>1, <3>2, RowUpdates DEF RecordPrepared, Rows
    <3>4. sent = {}
      <4> SUFFICES ASSUME NEW q \in sent PROVE FALSE
        OBVIOUS
      <4>1. q.call \in {"submit", "finalize"}
        BY DEF IndInv, TypeOK, Requests
      <4> QED
        BY <3>1, <4>1 DEF IndInv, CallsCarryTheRow
    <3>5. \A o \in Processes : run[o].pc # "submitting" /\ run[o].pc # "finalizing"
      BY <3>1 DEF IndInv, CallsCarryTheRow
    <3>7. CallsCarryTheRow'
      BY <2>2, <3>2, <3>3, <3>4, <3>5, ProceedKeeps DEF IndInv
    <3>8. ProviderAgrees'
      BY <2>0, <3>1, <3>3 DEF IndInv, ProviderAgrees
    <3> QED
      BY <3>2, <3>3, <3>7, <3>8 DEF RowShape, FinalizedHasLanded
  <2> QED
    BY <1>3, <2>1, <2>2 DEF Prepared
<1>4. ASSUME NEW p \in Processes, Submitted(p) PROVE Kept
  <2>0. UNCHANGED <<stored, landed>> /\ stored # None
    BY <1>4 DEF Submitted
  <2>1. CASE FailPermanently(p)
    BY <2>0, <2>1, FailPermanentlyKeeps
  <2>2. CASE LoseLease(p, "prepared")
    BY <2>0, <2>2, LoseLeaseKeeps
  <2>3. CASE /\ Renewed(p, "prepared")
             /\ row' = RecordResponse(row, stored)
             /\ Proceed(p, row', run[p].token)
    <3>1. row.phase = "prepared" /\ row.prepared # None /\ row.response = None
      BY <2>3 DEF IndInv, RowShape, Renewed
    <3>2. stored \in Tokens /\ stored = row.prepared /\ run[p].token \in Tokens
      BY <2>0 DEF IndInv, TypeOK, ProviderAgrees, Runs
    <3>3. /\ row'.phase = "responded" /\ row'.prepared = row.prepared
          /\ row'.response = stored /\ row' \in Rows
      BY <1>0, <2>3, <3>2, RowUpdates DEF RecordResponse, Rows
    <3>4. \A q \in sent : q.artifact # None /\ q.call # "finalize"
                          /\ (q.call = "submit" => q.artifact = row.prepared)
      BY <3>1 DEF IndInv, CallsCarryTheRow
    <3>5. \A o \in Processes :
             /\ run[o].pc = "submitting" => run[o].artifact = row.prepared
             /\ run[o].pc # "finalizing"
      BY <3>1 DEF IndInv, CallsCarryTheRow
    <3>7. CallsCarryTheRow'
      BY <2>0, <2>3, <3>1, <3>2, <3>3, <3>4, <3>5, ProceedKeeps DEF IndInv
    <3>8. ProviderAgrees'
      BY <2>0, <3>2, <3>3 DEF ProviderAgrees
    <3> QED
      BY <2>0, <3>1, <3>3, <3>7, <3>8 DEF RowShape, FinalizedHasLanded
  <2> QED
    BY <1>4, <2>1, <2>2, <2>3 DEF Submitted
<1>5. ASSUME NEW p \in Processes, Finalized(p) PROVE Kept
  <2>0. UNCHANGED <<stored, landed>> /\ landed
    BY <1>5 DEF Finalized
  <2>1. CASE LoseLease(p, "responded")
    BY <2>0, <2>1, LoseLeaseKeeps
  <2>2. CASE /\ row' = RecordFinalized(row)
             /\ EndRun(p)
             /\ UNCHANGED sent
    <3>1. /\ row'.prepared = row.prepared /\ row'.response = row.response
          /\ row'.phase = "finalized"
      BY <1>0, <2>2 DEF RecordFinalized, Rows
    <3>2. CallsCarryTheRow' /\ ProviderAgrees'
      BY <2>0, <2>2, <3>1, QuietStep, EndRunQuiet DEF IndInv
    <3> QED
      BY <2>0, <3>1, <3>2 DEF RowShape, FinalizedHasLanded
  <2> QED
    BY <1>5, <2>1, <2>2 DEF Finalized
<1>6. ASSUME NEW p \in Processes, PrepareFails(p) \/ BadAnswer(p) PROVE Kept
  BY <1>6, FailPermanentlyKeeps DEF PrepareFails, BadAnswer
<1>7. ASSUME NEW p \in Processes, CallFails(p) PROVE Kept
  BY <1>7, FailForNowKeeps DEF CallFails
<1>8. ASSUME NEW p \in Processes, TickObserve(p) PROVE Kept
  <2>1. /\ row'.prepared = row.prepared /\ row'.response = row.response
        /\ row'.phase = row.phase
    BY <1>0, <1>8 DEF TickObserve, RecordObserved, Rows
  <2>2. UNCHANGED <<run, sent, stored, landed>>
    BY <1>8 DEF TickObserve, workVars, providerVars
  <2>3. CallsCarryTheRow' /\ ProviderAgrees'
    BY <2>1, <2>2, QuietStep
  <2> QED
    BY <2>1, <2>2, <2>3 DEF IndInv, RowShape, FinalizedHasLanded
<1>9. ASSUME NEW p \in Processes,
             TickEnd(p) \/ RequestResume(p) \/ ResumeAdmission(p) \/ Restart(p)
      PROVE  Kept
  <2>1. UNCHANGED <<row, run, sent, stored, landed>>
    BY <1>9 DEF TickEnd, RequestResume, ResumeAdmission, Restart, workVars, providerVars
  <2> QED
    BY <2>1 DEF IndInv, RowShape, CallsCarryTheRow, ProviderAgrees, FinalizedHasLanded
<1>10. ASSUME NEW p \in Processes, Crash(p) PROVE Kept
  <2>1. UNCHANGED <<row, sent, stored, landed>> /\ EndRun(p)
    BY <1>10 DEF Crash, providerVars
  <2>2. CallsCarryTheRow' /\ ProviderAgrees'
    BY <2>1, QuietStep, EndRunQuiet DEF IndInv
  <2> QED
    BY <2>1, <2>2 DEF IndInv, RowShape, FinalizedHasLanded
<1>11. ASSUME PauseAdmission \/ UNCHANGED vars PROVE Kept
  <2>1. UNCHANGED <<row, run, sent, stored, landed>>
    BY <1>11 DEF PauseAdmission, vars, workVars, providerVars
  <2> QED
    BY <2>1 DEF IndInv, RowShape, CallsCarryTheRow, ProviderAgrees, FinalizedHasLanded
<1>12. ASSUME RetrySubmission PROVE Kept
  <2>1. row'.prepared = row.prepared /\ row'.response = row.response
    BY <1>0, <1>12, ExpeditedRow DEF RetrySubmission
  <2>2. UNCHANGED <<run, sent, stored, landed>>
    BY <1>12 DEF RetrySubmission, workVars, providerVars
  <2>3. CallsCarryTheRow' /\ ProviderAgrees'
    BY <2>1, <2>2, QuietStep
  <2>4. CASE row.phase = "failed"
    <3>1. /\ row.prepared # None
          /\ row'.phase = IF row.response = None THEN "prepared" ELSE "responded"
      BY <1>0, <1>12, <2>4, ExpeditedRow DEF RetrySubmission, Expeditable, Retryable
    <3> QED
      BY <2>1, <2>3, <3>1 DEF RowShape, FinalizedHasLanded
  <2>5. CASE row.phase # "failed"
    <3>1. row'.phase = row.phase
      BY <1>0, <1>12, <2>5, ExpeditedRow DEF RetrySubmission
    <3> QED
      BY <2>1, <2>2, <2>3, <3>1 DEF IndInv, RowShape, FinalizedHasLanded
  <2> QED
    BY <2>4, <2>5
<1>13. ASSUME Lapse \/ BecomeDue PROVE Kept
  <2>1. /\ row'.prepared = row.prepared /\ row'.response = row.response
        /\ row'.phase = row.phase
    <3>1. row' = [row EXCEPT !.live = FALSE] \/ row' = [row EXCEPT !.due = TRUE]
      BY <1>13 DEF Lapse, BecomeDue
    <3> QED
      BY <1>0, <3>1, TimedRow
  <2>2. UNCHANGED <<run, sent, stored, landed>>
    BY <1>13 DEF Lapse, BecomeDue, workVars, providerVars
  <2>3. CallsCarryTheRow' /\ ProviderAgrees'
    BY <2>1, <2>2, QuietStep
  <2> QED
    BY <2>1, <2>2, <2>3 DEF IndInv, RowShape, FinalizedHasLanded
<1>14. ASSUME NEW q \in sent, Accept(q) PROVE Kept
  <2>1. UNCHANGED <<row, run, sent, landed>> /\ stored = None /\ stored' = row.prepared
    BY <1>14 DEF Accept, workVars, IndInv, CallsCarryTheRow
  <2>2. row.response = None
    BY <2>1 DEF IndInv, ProviderAgrees
  <2> QED
    BY <2>1, <2>2 DEF IndInv, RowShape, CallsCarryTheRow, ProviderAgrees, FinalizedHasLanded
<1>15. ASSUME NEW q \in sent, Land(q) PROVE Kept
  <2>1. UNCHANGED <<row, run, sent, stored>> /\ landed'
    BY <1>15 DEF Land, workVars
  <2> QED
    BY <2>1 DEF IndInv, RowShape, CallsCarryTheRow, ProviderAgrees, FinalizedHasLanded
<1>16. Kept
  BY <1>1, <1>2, <1>3, <1>4, <1>5, <1>6, <1>7, <1>8, <1>9, <1>10, <1>11, <1>12, <1>13,
     <1>14, <1>15 DEF Next
<1> QED
  BY <1>0, <1>16 DEF IndInv

\* The invariant holds of every run.
THEOREM SubmissionIndInv == Spec => []IndInv
<1>1. Init => IndInv
  <2> SUFFICES ASSUME Init PROVE IndInv
    OBVIOUS
  <2>1. TypeOK
    BY InitType
  <2> QED
    BY <2>1 DEF Init, IndInv, RowShape, CallsCarryTheRow, ProviderAgrees,
       FinalizedHasLanded, Idle
<1> QED
  BY <1>1, NextKeeps, PTL DEF Spec

\* What was sent, what the provider keeps and what the row holds are one signed
\* graph: no worker, crash or retry signs a second one over it.
THEOREM CopiesAlwaysAgree == Spec => []CopiesAgree
<1>1. IndInv => CopiesAgree
  <2> SUFFICES ASSUME IndInv PROVE CopiesAgree
    OBVIOUS
  <2>1. \A q \in sent : q.call \in {"submit", "finalize"}
    BY DEF IndInv, TypeOK, Requests
  <2> QED
    BY <2>1 DEF IndInv, CallsCarryTheRow, ProviderAgrees, CopiesAgree
<1> QED
  BY <1>1, SubmissionIndInv, PTL

\* No row is finalized before its transaction is taken.
THEOREM FinalizedAfterLanding == Spec => []FinalizedHasLanded
<1>1. IndInv => FinalizedHasLanded
  BY DEF IndInv
<1> QED
  BY <1>1, SubmissionIndInv, PTL

\* The row, the calls and the provider tell one story of the signed graph.
THEOREM OneGraphAlways == Spec => []OneGraph
<1>1. OneGraph <=> CopiesAgree /\ FinalizedHasLanded
  BY DEF OneGraph
<1> QED
  BY <1>1, CopiesAlwaysAgree, FinalizedAfterLanding, PTL

-----------------------------------------------------------------------------
(* Workers take turns. *)

\* A proceeding run takes the token it is given and moves to the call of its row.
LEMMA ProceedMoves ==
    ASSUME TypeOK, NEW p \in Processes, NEW r, NEW token, Proceed(p, r, token)
    PROVE  /\ run'[p].token = token
           /\ \/ run'[p].pc = "preparing" /\ UNCHANGED sent
              \/ r.phase = "prepared" /\ run'[p].pc = "submitting"
              \/ r.phase = "responded" /\ run'[p].pc = "finalizing"
  BY DEF TypeOK, Proceed

\* A step that keeps both artifacts and sends nothing.
Silent == /\ row'.prepared = row.prepared /\ row'.response = row.response
          /\ UNCHANGED sent

\* The step of the two properties.
ArtifactsKept ==
    /\ row.prepared # None => row'.prepared = row.prepared
    /\ row.response # None => row'.response = row.response
SentByTheHolder ==
    sent' # sent =>
        /\ row'.live
        /\ \E p \in Processes : run'[p].token = row'.token /\ run'[p] # run[p]

\* A failure, written or not, is silent.
LEMMA FailuresAreSilent ==
    ASSUME TypeOK, NEW p \in Processes, FailPermanently(p) \/ FailForNow(p)
    PROVE  Silent
<1>1. row \in Rows
  BY DEF TypeOK, Rows
<1> QED
  BY <1>1 DEF Silent, FailPermanently, FailForNow, RecordPermanentFailure,
              RecordAttemptFailure, Rows

\* resume(id) keeps the artifacts and sends under the lease it has just taken.
LEMMA BeginTakesTurn ==
    ASSUME TypeOK, NEW p \in Processes, run[p].pc = "idle", Begin(p)
    PROVE  ArtifactsKept /\ SentByTheHolder
<1>0. row \in Rows
  BY DEF TypeOK, Rows
<1>1. CASE /\ row' = [row EXCEPT !.token = claims + 1, !.live = TRUE]
           /\ Proceed(p, row, claims + 1)
  <2>1. /\ row'.prepared = row.prepared /\ row'.response = row.response
        /\ row'.live /\ row'.token = claims + 1
    BY <1>0, <1>1 DEF Rows
  <2>2. run'[p].token = claims + 1 /\ run'[p] # run[p]
    BY <1>1, ProceedMoves
  <2> QED
    BY <2>1, <2>2 DEF ArtifactsKept, SentByTheHolder
<1>2. CASE row' = RecordPermanentFailure(row) /\ UNCHANGED sent
  BY <1>0, <1>2 DEF RecordPermanentFailure, ArtifactsKept, SentByTheHolder, Rows
<1>3. CASE UNCHANGED <<row, sent>>
  BY <1>3 DEF ArtifactsKept, SentByTheHolder
<1> QED
  BY <1>1, <1>2, <1>3 DEF Begin

\* An artifact is written once, where there was none, and what is sent is sent
\* by the run that holds the lease at that moment.
LEMMA NextTakesTurns == IndInv /\ [Next]_vars => ArtifactsKept /\ SentByTheHolder
<1> SUFFICES ASSUME IndInv, [Next]_vars PROVE ArtifactsKept /\ SentByTheHolder
  OBVIOUS
<1> DEFINE Turns == ArtifactsKept /\ SentByTheHolder
<1>0. TypeOK /\ row \in Rows
  BY DEF IndInv, TypeOK, Rows
<1>1. Silent => Turns
  BY DEF Silent, ArtifactsKept, SentByTheHolder
<1>2. ASSUME NEW p \in Processes, TakePrompt(p) \/ TickStart(p) PROVE Turns
  <2>1. CASE run[p].pc = "idle" /\ Begin(p)
    BY <1>0, <2>1, BeginTakesTurn
  <2>2. CASE UNCHANGED <<row, run, sent, claims, paused, faults>>
    BY <1>1, <2>2 DEF Silent
  <2> QED
    BY <1>2, <2>1, <2>2 DEF TakePrompt, TickStart
<1>3. ASSUME NEW p \in Processes, Prepared(p) PROVE Turns
  <2>1. CASE LoseLease(p, "claimed")
    BY <1>1, <2>1 DEF LoseLease, Silent
  <2>2. CASE /\ Renewed(p, "claimed")
             /\ row' = RecordPrepared(row, signatures + 1)
             /\ Proceed(p, row', run[p].token)
    <3>1. row.prepared = None /\ row.live /\ row.token = run[p].token
      BY <2>2 DEF IndInv, RowShape, Renewed, Owns
    <3>2. row'.response = row.response /\ row'.live = row.live /\ row'.token = row.token
      BY <1>0, <2>2 DEF RecordPrepared, Rows
    <3>3. sent' # sent => run'[p].token = run[p].token /\ run'[p].pc # "preparing"
      BY <1>0, <2>2, ProceedMoves
    <3>4. run[p].pc = "preparing"
      BY <1>3 DEF Prepared
    <3> QED
      BY <3>1, <3>2, <3>3, <3>4 DEF ArtifactsKept, SentByTheHolder
  <2> QED
    BY <1>3, <2>1, <2>2 DEF Prepared
<1>4. ASSUME NEW p \in Processes, Submitted(p) PROVE Turns
  <2>1. CASE FailPermanently(p)
    BY <1>0, <1>1, <2>1, FailuresAreSilent
  <2>2. CASE LoseLease(p, "prepared")
    BY <1>1, <2>2 DEF LoseLease, Silent
  <2>3. CASE /\ Renewed(p, "prepared")
             /\ row' = RecordResponse(row, stored)
             /\ Proceed(p, row', run[p].token)
    <3>1. row.response = None /\ row.live /\ row.token = run[p].token
      BY <2>3 DEF IndInv, RowShape, Renewed, Owns
    <3>2. /\ row'.prepared = row.prepared /\ row'.live = row.live
          /\ row'.token = row.token /\ row'.phase = "responded"
      BY <1>0, <2>3 DEF RecordResponse, Rows
    <3>3. sent' # sent => run'[p].token = run[p].token /\ run'[p].pc = "finalizing"
      BY <1>0, <2>3, <3>2, ProceedMoves
    <3>4. run[p].pc = "submitting"
      BY <1>4 DEF Submitted
    <3> QED
      BY <3>1, <3>2, <3>3, <3>4 DEF ArtifactsKept, SentByTheHolder
  <2> QED
    BY <1>4, <2>1, <2>2, <2>3 DEF Submitted
<1>5. ASSUME NEW p \in Processes, Finalized(p) PROVE Turns
  <2>1. Silent
    BY <1>0, <1>5 DEF Finalized, LoseLease, RecordFinalized, Silent, Rows
  <2> QED
    BY <1>1, <2>1
<1>6. ASSUME NEW p \in Processes, PrepareFails(p) \/ BadAnswer(p) \/ CallFails(p) PROVE Turns
  BY <1>0, <1>1, <1>6, FailuresAreSilent DEF PrepareFails, BadAnswer, CallFails
<1>7. ASSUME NEW p \in Processes, ClaimLockup(p) \/ TickObserve(p) PROVE Turns
  <2>1. Silent
    BY <1>0, <1>7 DEF ClaimLockup, TickObserve, RecordObserved, Silent, Rows, providerVars
  <2> QED
    BY <1>1, <2>1
<1>8. ASSUME NEW p \in Processes,
             TickEnd(p) \/ RequestResume(p) \/ ResumeAdmission(p) \/ Restart(p) \/ Crash(p)
      PROVE  Turns
  BY <1>1, <1>8 DEF TickEnd, RequestResume, ResumeAdmission, Restart, Crash, Silent, providerVars
<1>9. ASSUME RetrySubmission PROVE Turns
  <2>1. Silent
    BY <1>0, <1>9, ExpeditedRow DEF RetrySubmission, Silent, providerVars
  <2> QED
    BY <1>1, <2>1
<1>10. ASSUME Lapse \/ BecomeDue PROVE Turns
  <2>1. UNCHANGED sent /\ (row' = [row EXCEPT !.live = FALSE] \/ row' = [row EXCEPT !.due = TRUE])
    BY <1>10 DEF Lapse, BecomeDue, providerVars
  <2>2. Silent
    BY <1>0, <2>1, TimedRow DEF Silent
  <2> QED
    BY <1>1, <2>2
<1>11. ASSUME PauseAdmission \/ UNCHANGED vars PROVE Turns
  BY <1>1, <1>11 DEF PauseAdmission, vars, providerVars, Silent
<1>12. ASSUME NEW q \in sent, Accept(q) \/ Land(q) PROVE Turns
  BY <1>1, <1>12 DEF Accept, Land, Silent
<1> QED
  BY <1>2, <1>3, <1>4, <1>5, <1>6, <1>7, <1>8, <1>9, <1>10, <1>11, <1>12 DEF Next

\* A worker that lost its lease, was restarted or answered late changes nothing
\* that was signed or answered, and sends nothing, with any number of processes,
\* leases and faults.
THEOREM WorkersAlwaysTakeTurns == Spec => WorkersTakeTurns
<1> DEFINE A == /\ row.prepared # None => row'.prepared = row.prepared
                /\ row.response # None => row'.response = row.response
           B == sent' # sent =>
                  /\ row'.live
                  /\ \E p \in Processes : run'[p].token = row'.token /\ run'[p] # run[p]
<1>1. IndInv /\ [Next]_vars => [A]_vars /\ [B]_vars
  BY NextTakesTurns DEF ArtifactsKept, SentByTheHolder
<1> QED
  BY <1>1, SubmissionIndInv, PTL DEF Spec, WorkersTakeTurns, ArtifactsAreFinal, OnlyTheHolderSends
=============================================================================
