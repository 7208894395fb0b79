----------------------------- MODULE Submission -----------------------------
(***************************************************************************)
(* The background submission of one claimed lockup.                        *)
(*                                                                         *)
(* claimLockup leaves a locking row in phase claimed.  A leased worker of  *)
(* the process then signs (prepare), hands the signed graph to the         *)
(* provider (submit) and finalizes it, writing each artifact to the row    *)
(* before the next call.  Prompts and reconciler ticks start it; crashes,  *)
(* lapsed leases, lost replies and permanent failures interrupt it; the    *)
(* admin route sends a failed row back.  The reconciler alone makes the    *)
(* row locked, when the indexer shows its output.                          *)
(*                                                                         *)
(* Every statement of the repository names one row, so there is one.  Time *)
(* appears as two facts: whether the lease is still running and whether    *)
(* the next attempt is due.  A lease token is a fresh number, and so is    *)
(* each signature the operator's key produces: signing twice gives two     *)
(* artifacts with one transaction id.                                      *)
(***************************************************************************)
EXTENDS Integers

CONSTANTS
    Processes,     \* Taxi processes that open the database
    MaxClaims,     \* bound: leases ever granted
    MaxFaults      \* bound: crashes, stalls, failed calls and bad answers

ASSUME BoundsAssumption ==
    /\ MaxClaims \in Nat
    /\ MaxFaults \in Nat

Phases == {"claimed", "prepared", "responded", "finalized", "failed"}
Retryable == {"claimed", "prepared", "responded"}
States == {"quoted", "locking", "locked"}
None == 0
Tokens == 0 .. MaxClaims
Requests == [call : {"submit", "finalize"}, artifact : Tokens]

VARIABLES
    row,       \* the advance's submission columns; None is NULL
    run,       \* run[p]: the worker's position in resume(id), its token and artifact
    prompted,  \* processes with the id in their prompt queue
    tick,      \* tick[p]: the lockup reconciler's pass
    blocked,   \* blocked[p]: the blockers of its last pass, as status() reports them
    up,        \* processes that are running
    resume,    \* resume[p]: the admin's resume request
    paused,    \* policy.paused
    sent,      \* calls handed to the provider, answered or not
    stored,    \* provider: the signed copy it accepted
    landed,    \* provider: the lockup output is indexed
    claims, signatures, faults   \* counters: tokens, artifacts, faults

workVars == <<run, prompted>>
passVars == <<tick, blocked, resume>>
providerVars == <<sent, stored, landed>>
vars == <<row, workVars, passVars, up, paused, providerVars, claims, signatures, faults>>

Idle == [pc |-> "idle", token |-> None, artifact |-> None]
Runs == [pc : {"idle", "preparing", "submitting", "finalizing"}, token : Tokens,
         artifact : Tokens]

Init ==
    /\ row = [state |-> "quoted", phase |-> "claimed", token |-> None, live |-> FALSE,
              due |-> TRUE, prepared |-> None, response |-> None]
    /\ run = [p \in Processes |-> Idle]
    /\ prompted = {}
    /\ tick = [p \in Processes |-> "idle"]
    /\ blocked = [p \in Processes |-> FALSE]
    /\ up = Processes
    /\ resume = [p \in Processes |-> "idle"]
    /\ paused = FALSE
    /\ sent = {} /\ stored = None /\ landed = FALSE
    /\ claims = 0 /\ signatures = 0 /\ faults = 0

Fault == faults < MaxFaults /\ faults' = faults + 1

-----------------------------------------------------------------------------
(* The submission statements of AdvanceRepository. *)

\* Mutant: a lease that ran out still bars the row.
MutClaimable ==
    row.state = "locking" /\ row.phase \in Retryable /\ row.token = None /\ row.due

\* claimSubmissionLease: no lease, or one that has run out, and the retry is due.
Claimable ==
    /\ row.state = "locking" /\ row.phase \in Retryable
    /\ row.token = None \/ ~row.live
    /\ row.due

\* WHERE state = 'locking' AND lease_owner = ? AND lease_token = ?
Owns(p) == row.state = "locking" /\ run[p].token # None /\ row.token = run[p].token

\* Mutant: the token is not compared.
MutRenewed(p, phase) == row.state = "locking" /\ row.phase = phase /\ row.live

\* renewSubmissionLease, the check around every leased call: the token is still
\* the row's, its lease is running and the phase is the one the call began in.
Renewed(p, phase) == Owns(p) /\ row.phase = phase /\ row.live

\* recordPreparedSubmission
RecordPrepared(r, artifact) == [r EXCEPT !.phase = "prepared", !.prepared = artifact]

\* recordSubmissionResponse
RecordResponse(r, artifact) == [r EXCEPT !.phase = "responded", !.response = artifact]

\* recordSubmissionFinalized
RecordFinalized(r) == [r EXCEPT !.phase = "finalized", !.token = None, !.live = FALSE]

\* recordSubmissionAttemptFailure: the phase stays, the lease goes, the retry waits.
RecordAttemptFailure(r) == [r EXCEPT !.token = None, !.live = FALSE, !.due = FALSE]

\* recordPermanentSubmissionFailure; its transaction also pauses the policy.
RecordPermanentFailure(r) ==
    [r EXCEPT !.phase = "failed", !.token = None, !.live = FALSE, !.due = TRUE]

\* Mutant: a failed row starts again from its signed envelope.
MutExpedited(r) == [r EXCEPT !.phase = IF @ = "failed" THEN "claimed" ELSE @, !.due = TRUE]

\* expediteSubmission: a failed row with a signed graph goes back to the phase of
\* its artifacts, never to claimed; a retryable one only becomes due.
Expedited(r) ==
    IF r.phase = "failed"
    THEN [r EXCEPT !.phase = IF r.response = None THEN "prepared" ELSE "responded",
                   !.due = TRUE]
    ELSE [r EXCEPT !.due = TRUE]

Expeditable ==
    /\ row.state = "locking"
    /\ \/ row.phase = "failed" /\ row.prepared # None /\ row.token = None
       \/ row.phase \in Retryable /\ (row.token = None \/ ~row.live)

-----------------------------------------------------------------------------
(* The worker. *)

Send(call, artifact) == sent' = sent \cup {[call |-> call, artifact |-> artifact]}

\* The stretch of run() up to the next await, for a row it holds in this phase.
Proceed(p, r, token) ==
    \/ /\ r.phase = "claimed"
       /\ run' = [run EXCEPT ![p] = [pc |-> "preparing", token |-> token, artifact |-> None]]
       /\ UNCHANGED sent
    \/ /\ r.phase = "prepared"
       /\ run' = [run EXCEPT ![p] = [pc |-> "submitting", token |-> token,
                                     artifact |-> r.prepared]]
       /\ Send("submit", r.prepared)
    \/ /\ r.phase = "responded"
       /\ run' = [run EXCEPT ![p] = [pc |-> "finalizing", token |-> token,
                                     artifact |-> r.response]]
       /\ Send("finalize", r.response)

\* resume(id) when no run of this process is active: the lease is claimed and the
\* run goes to its first await; or the persisted envelope does not validate, which
\* is permanent; or the claim finds nothing and it returns.
Begin(p) ==
    \/ /\ Claimable /\ claims < MaxClaims
       /\ claims' = claims + 1
       /\ row' = [row EXCEPT !.token = claims + 1, !.live = TRUE]
       /\ Proceed(p, row, claims + 1)
       /\ UNCHANGED <<paused, faults>>
    \/ /\ Claimable /\ claims < MaxClaims /\ Fault
       /\ claims' = claims + 1
       /\ row' = RecordPermanentFailure(row) /\ paused' = TRUE
       /\ UNCHANGED <<run, sent>>
    \/ /\ ~(Claimable /\ claims < MaxClaims)
       /\ UNCHANGED <<row, run, sent, claims, paused, faults>>

EndRun(p) == run' = [run EXCEPT ![p] = Idle]

\* The call came back, but the lease was lost meanwhile: nothing is written and
\* nothing more is sent.
LoseLease(p, phase) ==
    /\ ~Renewed(p, phase)
    /\ EndRun(p)
    /\ UNCHANGED <<row, sent, paused>>

\* The catch branch for a permanent code, under the token alone.
FailPermanently(p) ==
    /\ row' = IF Owns(p) THEN RecordPermanentFailure(row) ELSE row
    /\ paused' = (paused \/ Owns(p))
    /\ EndRun(p)
    /\ UNCHANGED sent

\* The catch branch for an ambiguous outcome.
FailForNow(p) ==
    /\ row' = IF Owns(p) THEN RecordAttemptFailure(row) ELSE row
    /\ EndRun(p)
    /\ UNCHANGED <<sent, paused>>

\* prepare resolves: the signed graph is recorded and then submitted.
Prepared(p) ==
    /\ run[p].pc = "preparing" /\ signatures < MaxClaims
    /\ signatures' = signatures + 1
    /\ \/ LoseLease(p, "claimed")
       \/ /\ Renewed(p, "claimed")
          /\ row' = RecordPrepared(row, signatures + 1)
          /\ Proceed(p, row', run[p].token)
          /\ UNCHANGED paused
    /\ UNCHANGED <<prompted, passVars, up, stored, landed, claims, faults>>

\* prepare rejects: every signer failure is permanent.
PrepareFails(p) ==
    /\ run[p].pc = "preparing"
    /\ Fault /\ FailPermanently(p)
    /\ UNCHANGED <<prompted, passVars, up, stored, landed, claims, signatures>>

\* submitPrepared: the provider's answer, or the pending copy its lookup found
\* after a lost one, must carry the signature of the prepared artifact.
Submitted(p) ==
    /\ run[p].pc = "submitting" /\ stored # None
    /\ \/ stored # run[p].artifact /\ FailPermanently(p)
       \/ stored = run[p].artifact /\ LoseLease(p, "prepared")
       \/ /\ stored = run[p].artifact /\ Renewed(p, "prepared")
          /\ row' = RecordResponse(row, stored)
          /\ Proceed(p, row', run[p].token)
          /\ UNCHANGED paused
    /\ UNCHANGED <<prompted, passVars, up, stored, landed, claims, signatures, faults>>

\* finalizePrepared resolves once the provider has taken the final checkpoints.
Finalized(p) ==
    /\ run[p].pc = "finalizing" /\ landed
    /\ \/ LoseLease(p, "responded")
       \/ /\ Renewed(p, "responded")
          /\ row' = RecordFinalized(row)
          /\ EndRun(p)
          /\ UNCHANGED <<sent, paused>>
    /\ UNCHANGED <<prompted, passVars, up, stored, landed, claims, signatures, faults>>

\* submitTx or finalizeTx fails, and the lookup with it: ambiguous.  Once the
\* output exists the provider has nothing pending and keeps answering this way.
CallFails(p) ==
    /\ run[p].pc \in {"submitting", "finalizing"}
    /\ Fault \/ (landed /\ UNCHANGED faults)
    /\ FailForNow(p)
    /\ UNCHANGED <<prompted, passVars, up, stored, landed, claims, signatures>>

\* An answer that fails validateResponse.
BadAnswer(p) ==
    /\ run[p].pc \in {"submitting", "finalizing"}
    /\ Fault /\ FailPermanently(p)
    /\ UNCHANGED <<prompted, passVars, up, stored, landed, claims, signatures>>

-----------------------------------------------------------------------------
(* The lockup reconciler, its prompts and the admin routes. *)

\* claimLockup, served by p, prompts p's worker.
ClaimLockup(p) ==
    /\ p \in up /\ row.state = "quoted"
    /\ row' = [row EXCEPT !.state = "locking"]
    /\ prompted' = prompted \cup {p}
    /\ UNCHANGED <<run, passVars, up, paused, providerVars, claims, signatures, faults>>

\* A prompt worker takes the id from the queue; an active run is joined.
TakePrompt(p) ==
    /\ p \in prompted
    /\ prompted' = prompted \ {p}
    /\ \/ run[p].pc = "idle" /\ Begin(p)
       \/ run[p].pc # "idle" /\ UNCHANGED <<row, run, sent, claims, paused, faults>>
    /\ UNCHANGED <<passVars, up, stored, landed, signatures>>

\* tick() lists the locking rows and resumes the first; with none it goes on to
\* the watcher.
TickStart(p) ==
    /\ p \in up /\ tick[p] = "idle"
    /\ tick' = [tick EXCEPT ![p] = IF row.state = "locking" THEN "resuming" ELSE "closing"]
    /\ \/ row.state = "locking" /\ run[p].pc = "idle" /\ Begin(p)
       \/ /\ ~(row.state = "locking" /\ run[p].pc = "idle")
          /\ UNCHANGED <<row, run, sent, claims, paused, faults>>
    /\ UNCHANGED <<prompted, blocked, resume, up, stored, landed, signatures>>

\* recordLockupObserved
RecordObserved(r) == IF r.state = "locking" THEN [r EXCEPT !.state = "locked"] ELSE r

\* The run it waited for has ended; the indexer shows the lockup output or not.
TickObserve(p) ==
    /\ tick[p] = "resuming" /\ run[p].pc = "idle"
    /\ \/ landed /\ row' = RecordObserved(row) /\ UNCHANGED faults
       \/ ~landed /\ UNCHANGED <<row, faults>>
       \/ landed /\ Fault /\ UNCHANGED row
    /\ tick' = [tick EXCEPT ![p] = "closing"]
    /\ UNCHANGED <<workVars, blocked, resume, up, paused, providerVars, claims, signatures>>

\* blockingCodes over the locking rows as they are now.
Blocking == row.state = "locking" /\ row.phase = "failed"

\* The pass ends; a resume request that was waiting for it goes on with its rescan.
TickEnd(p) ==
    /\ tick[p] = "closing"
    /\ tick' = [tick EXCEPT ![p] = "idle"]
    /\ blocked' = [blocked EXCEPT ![p] = Blocking]
    /\ resume' = [resume EXCEPT ![p] = IF @ = "scanning" THEN "scanned" ELSE @]
    /\ UNCHANGED <<row, workVars, up, paused, providerVars, claims, signatures, faults>>

\* POST /admin/api/resume: rescan, then read the blockers and write the policy.
RequestResume(p) ==
    /\ p \in up /\ resume[p] = "idle" /\ paused
    /\ resume' = [resume EXCEPT ![p] = "scanning"]
    /\ UNCHANGED <<row, workVars, tick, blocked, up, paused, providerVars, claims,
                   signatures, faults>>

ResumeAdmission(p) ==
    /\ resume[p] = "scanned"
    /\ paused' = (paused /\ blocked[p])
    /\ resume' = [resume EXCEPT ![p] = "idle"]
    /\ UNCHANGED <<row, workVars, tick, blocked, up, providerVars, claims, signatures, faults>>

\* POST /admin/api/pause
PauseAdmission ==
    /\ ~paused /\ paused' = TRUE
    /\ UNCHANGED <<row, workVars, passVars, up, providerVars, claims, signatures, faults>>

\* POST /admin/api/advances/:id/retry-submission
RetrySubmission ==
    /\ Expeditable /\ row' = Expedited(row)
    /\ UNCHANGED <<workVars, passVars, up, paused, providerVars, claims, signatures, faults>>

-----------------------------------------------------------------------------
(* The process, time and the provider. *)

\* The process dies, or stop() makes its runs return without writing.
Crash(p) ==
    /\ p \in up /\ Fault
    /\ up' = up \ {p}
    /\ EndRun(p)
    /\ prompted' = prompted \ {p}
    /\ tick' = [tick EXCEPT ![p] = "idle"]
    /\ resume' = [resume EXCEPT ![p] = "idle"]
    /\ UNCHANGED <<row, blocked, paused, providerVars, claims, signatures>>

\* createLockupReconciler reads the blockers of the rows it finds.
Restart(p) ==
    /\ p \notin up
    /\ up' = up \cup {p}
    /\ blocked' = [blocked EXCEPT ![p] = Blocking]
    /\ UNCHANGED <<row, workVars, tick, resume, paused, providerVars, claims, signatures,
                   faults>>

\* submission_lease_until passes.  A worker that waits renews every third of the
\* lease, so its lease only runs out when its process stalls.
HolderRuns == \E p \in Processes : run[p].pc # "idle" /\ run[p].token = row.token

Lapse ==
    /\ row.token # None /\ row.live
    /\ Fault \/ (~HolderRuns /\ UNCHANGED faults)
    /\ row' = [row EXCEPT !.live = FALSE]
    /\ UNCHANGED <<workVars, passVars, up, paused, providerVars, claims, signatures>>

\* submission_next_attempt_at passes.
BecomeDue ==
    /\ ~row.due /\ row' = [row EXCEPT !.due = TRUE]
    /\ UNCHANGED <<workVars, passVars, up, paused, providerVars, claims, signatures, faults>>

\* The provider keeps the first signed copy of the transaction it receives.
Accept(q) ==
    /\ q \in sent /\ q.call = "submit" /\ stored = None
    /\ stored' = q.artifact
    /\ UNCHANGED <<row, workVars, passVars, up, paused, sent, landed, claims, signatures,
                   faults>>

\* It takes the final checkpoints of that copy, and the output is indexed.
Land(q) ==
    /\ q \in sent /\ q.call = "finalize" /\ q.artifact = stored /\ ~landed
    /\ landed' = TRUE
    /\ UNCHANGED <<row, workVars, passVars, up, paused, sent, stored, claims, signatures,
                   faults>>

Next ==
    \/ \E p \in Processes :
        \/ ClaimLockup(p) \/ TakePrompt(p)
        \/ Prepared(p) \/ PrepareFails(p) \/ Submitted(p) \/ Finalized(p)
        \/ CallFails(p) \/ BadAnswer(p)
        \/ TickStart(p) \/ TickObserve(p) \/ TickEnd(p)
        \/ RequestResume(p) \/ ResumeAdmission(p)
        \/ Crash(p) \/ Restart(p)
    \/ PauseAdmission \/ RetrySubmission \/ Lapse \/ BecomeDue
    \/ \E q \in sent : Accept(q) \/ Land(q)

Spec == Init /\ [][Next]_vars

-----------------------------------------------------------------------------
(* Fairness: a running process ticks and its awaited calls come back; a dead  *)
(* one is restarted; time passes; the provider serves the calls it received.  *)

Answered(p) == Prepared(p) \/ Submitted(p) \/ Finalized(p) \/ CallFails(p)

LiveSpec ==
    /\ Spec
    /\ \A p \in Processes :
        /\ WF_vars(TickStart(p)) /\ WF_vars(TickObserve(p)) /\ WF_vars(TickEnd(p))
        /\ WF_vars(Answered(p)) /\ WF_vars(Restart(p))
    /\ WF_vars(BecomeDue) /\ WF_vars(Lapse)
    /\ WF_vars(\E q \in sent : Accept(q)) /\ WF_vars(\E q \in sent : Land(q))

-----------------------------------------------------------------------------
(* Properties. *)

\* Every variable keeps the shape of its column, run or request.
TypeOK ==
    /\ row \in [state : States, phase : Phases, token : Tokens, live : BOOLEAN,
                due : BOOLEAN, prepared : Tokens, response : Tokens]
    /\ run \in [Processes -> Runs]
    /\ prompted \subseteq Processes
    /\ tick \in [Processes -> {"idle", "resuming", "closing"}]
    /\ blocked \in [Processes -> BOOLEAN]
    /\ up \subseteq Processes
    /\ resume \in [Processes -> {"idle", "scanning", "scanned"}]
    /\ paused \in BOOLEAN
    /\ sent \subseteq Requests
    /\ stored \in Tokens /\ landed \in BOOLEAN
    /\ claims \in 0 .. MaxClaims /\ signatures \in 0 .. MaxClaims
    /\ faults \in 0 .. MaxFaults

\* What a call carried is what the row holds: each phase is stored before the
\* next network effect, and neither a second worker, a crash nor the operator's
\* retry ever puts another signature in its place.  So the copy the provider
\* keeps is the one a later worker compares it with.
CopiesAgree ==
    /\ \A q \in sent : q.artifact = IF q.call = "submit" THEN row.prepared ELSE row.response
    /\ stored \in {None, row.prepared}
    /\ row.response \in {None, stored}
    /\ \A p \in Processes : run[p].pc = "submitting" => stored \in {None, run[p].artifact}

\* A row is finalized only when the provider has taken the final checkpoints.
FinalizedHasLanded == row.phase = "finalized" => landed

\* The row, the calls and the provider tell one story of the signed graph.
OneGraph == CopiesAgree /\ FinalizedHasLanded

\* Signed artifacts and answers are written once.
ArtifactsAreFinal ==
    [][/\ row.prepared # None => row'.prepared = row.prepared
       /\ row.response # None => row'.response = row.response]_vars

\* A worker that lost its lease starts no further effect: whatever is newly
\* sent is sent by the worker whose lease is running.
OnlyTheHolderSends ==
    [][sent' # sent =>
        /\ row'.live
        /\ \E p \in Processes : run'[p].token = row'.token /\ run'[p] # run[p]]_vars

\* A worker that lost its lease, was restarted or answered late changes nothing
\* that was signed or answered and sends nothing.
WorkersTakeTurns == ArtifactsAreFinal /\ OnlyTheHolderSends

\* A claimed lockup ends: observed on chain, or failed and waiting for the
\* operator.
SubmissionEnds ==
    row.state = "locking" ~> row.state = "locked" \/ row.phase = "failed"
=============================================================================
