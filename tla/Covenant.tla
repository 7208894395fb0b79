------------------------------ MODULE Covenant ------------------------------
(***************************************************************************)
(* A covenant advance from its lockup to the verdict on its spend.         *)
(*                                                                         *)
(* The recipient, the sender or anyone with the reclaim leaf may spend the *)
(* covenant coin; its delegatee may renew it into a new batch under a new  *)
(* outpoint; its owner may unroll it on chain; the provider may sweep it.  *)
(* In every process a spend watcher scans the active row (it reads the row *)
(* and the indexer, awaits, and writes under the state it read), and a     *)
(* sweeper recovers a matured covenant the last scan called recoverable:   *)
(* it prepares one reclaim graph, holds a lease while the emulator answers *)
(* and leaves the verdict to the watcher.                                  *)
(*                                                                         *)
(* Every statement names one row, so there is one.  Coins are numbered in  *)
(* the order of the renewals: 1 is the output of the lockup transaction.   *)
(* As in Submission a lease token is a fresh number, and time is whether   *)
(* the lease runs, the next attempt is due and the locktime has matured.   *)
(***************************************************************************)
EXTENDS Integers

CONSTANTS
    Processes,   \* Taxi processes that open the database
    MaxCoins,    \* bound: the lockup output and its renewals
    MaxClaims,   \* bound: recovery leases ever granted
    MaxFaults    \* bound: crashes, stalls, lost calls, bad evidence, reorgs

ASSUME BoundsAssumption ==
    /\ MaxCoins \in Nat \ {0}
    /\ MaxClaims \in Nat
    /\ MaxFaults \in Nat

Active == {"locking", "locked", "recovering"}
Terminal == {"recycled", "purchased", "refunded", "recovered"}
Phases == {"none", "prepared", "submitted", "failed"}
Failures == {"none", "unknown", "unrolled", "disagreement", "recovery"}
None == 0
Coins == 0 .. MaxCoins
Tokens == 0 .. MaxClaims
Lockup == 1

\* What one scan learns of the coin at an outpoint: nothing there, evidence it
\* cannot use, an unspent coin, one gone on chain, one settled into a batch, or
\* the leaf that spent it.
Views == {"missing", "bad", "unspent", "unrolled", "renewed"} \cup Terminal

Rows == [state : Active \cup Terminal, outpoint : Coins, phase : Phases, graph : Coins,
         token : Tokens, live : BOOLEAN, due : BOOLEAN, failure : Failures]
Scans == [pc : {"idle", "reading", "seen"}, state : Active, outpoint : Coins, view : Views,
          successor : Coins]
Runs == [pc : {"idle", "submitting"}, token : Tokens, graph : Coins]
Sends == [token : Tokens, graph : Coins]

NotScanning == [pc |-> "idle", state |-> "locking", outpoint |-> None, view |-> "missing",
                successor |-> None]
Idle == [pc |-> "idle", token |-> None, graph |-> None]

VARIABLES
    row,          \* the advance; None is NULL, failure is failure_code
    reserved,     \* the advance has operator_input_reservations rows
    custody,      \* a custody row is open
    paused,       \* policy.paused
    scan,         \* scan[p]: the watcher's scan, with the row as it was listed
    recoverable,  \* processes whose watcher has the id in its recoverable set
    run,          \* run[p]: the recovery in flight, its token and graph
    up,           \* processes that are running
    sent,         \* reclaim graphs handed to the emulator, with the token used
    coin,         \* chain: the covenant's current coin, 0 before the lockup lands
    spent,        \* chain: the leaf that spent it, or no
    exit,         \* chain: no, unrolled or swept
    spends,       \* chain: every leaf that ever spent it, reorged spends included
    matured,      \* chain: median time has passed the recovery locktime
    claims, faults   \* counters: tokens and faults

rowVars == <<row, reserved, custody, paused>>
procVars == <<scan, recoverable, run, up>>
chainVars == <<coin, spent, exit, spends, matured>>
vars == <<rowVars, procVars, sent, chainVars, claims, faults>>

Init ==
    /\ row = [state |-> "locking", outpoint |-> None, phase |-> "none", graph |-> None,
              token |-> None, live |-> FALSE, due |-> TRUE, failure |-> "none"]
    /\ reserved = TRUE /\ custody = FALSE /\ paused = FALSE
    /\ scan = [p \in Processes |-> NotScanning]
    /\ recoverable = {}
    /\ run = [p \in Processes |-> Idle]
    /\ up = Processes
    /\ sent = {}
    /\ coin = None /\ spent = "no" /\ exit = "no" /\ spends = {} /\ matured = FALSE
    /\ claims = 0 /\ faults = 0

Fault == faults < MaxFaults /\ faults' = faults + 1

\* The current coin can still be spent off chain.
Spendable == coin # None /\ spent = "no" /\ exit = "no"

-----------------------------------------------------------------------------
(* The observation statements of AdvanceRepository. *)

\* recordLockupObserved
RecordLockup(r) == [r EXCEPT !.state = "locked", !.outpoint = Lockup, !.failure = "none"]

\* recordSpendUnknown, which pauses the policy, and recordCovenantUnrolled.
RecordFailure(r, code) == IF r.state \in Active THEN [r EXCEPT !.failure = code] ELSE r

\* clearSpendUnknown: WHERE state = ? AND failure_code = 'covenant_spend_unknown'
ClearUnknown(r, state) ==
    IF r.state = state /\ r.failure = "unknown" THEN [r EXCEPT !.failure = "none"] ELSE r

\* recordCovenantRenewed: WHERE state = 'locked'
Renewable(r) == r.state = "locked"

\* Mutant: the position after the successor's is stored.
MutRecordRenewed(r, successor) == [r EXCEPT !.outpoint = successor + 1, !.failure = "none"]

RecordRenewed(r, successor) == [r EXCEPT !.outpoint = successor, !.failure = "none"]

\* recordSpendObservation when the row is still in the state the scan listed.
RecordSpend(r, leaf) ==
    [r EXCEPT !.state = leaf, !.token = None, !.live = FALSE, !.due = TRUE, !.failure = "none"]

\* Compatible forward drift: the next scan will find the row in its new state.
Drifted(expected, state) ==
    \/ expected = "locking" /\ state \in {"locked", "recovering"}
    \/ expected = "locked" /\ state = "recovering"

\* recordSpendObservation: duplicate, retry, disagreement or recorded, with the
\* custody row and the release of the coins in one transaction.  A row closed
\* by the same leaf is a duplicate, or a disagreement if another transaction
\* took that leaf after a reorg.
ObserveSpend(expected, leaf) ==
    \/ /\ row.state = leaf \/ Drifted(expected, row.state)
       /\ UNCHANGED rowVars
    \/ /\ row.state # expected /\ ~Drifted(expected, row.state)
       /\ row.state = leaf => faults > 0
       /\ row' = [row EXCEPT !.failure = "disagreement"]
       /\ paused' = TRUE
       /\ UNCHANGED <<reserved, custody>>
    \/ /\ row.state = expected
       /\ row' = RecordSpend(row, leaf)
       /\ reserved' = FALSE /\ custody' = (custody \/ leaf = "recovered")
       /\ UNCHANGED paused

-----------------------------------------------------------------------------
(* The watcher. *)

\* The lockup reconciler sees the lockup output unspent.
ObserveLockup ==
    /\ row.state = "locking" /\ coin = Lockup /\ Spendable
    /\ row' = RecordLockup(row)
    /\ UNCHANGED <<reserved, custody, paused, procVars, sent, chainVars, claims, faults>>

\* scan() forgets what was recoverable and lists the row; a locking row is looked
\* up at the outpoint of its persisted graph.
ScanStart(p) ==
    /\ p \in up /\ scan[p].pc = "idle" /\ row.state \in Active
    /\ recoverable' = recoverable \ {p}
    /\ scan' = [scan EXCEPT ![p] =
                   [NotScanning EXCEPT !.pc = "reading", !.state = row.state,
                        !.outpoint = IF row.outpoint = None THEN Lockup ELSE row.outpoint]]
    /\ UNCHANGED <<rowVars, run, up, sent, chainVars, claims, faults>>

EndScan(p) == scan' = [scan EXCEPT ![p] = NotScanning]

\* The chain tip is unavailable: pause, and no row is looked at.
ScanWithoutTip(p) ==
    /\ scan[p].pc = "reading" /\ Fault
    /\ paused' = TRUE
    /\ EndScan(p)
    /\ UNCHANGED <<row, reserved, custody, recoverable, run, up, sent, chainVars, claims>>

\* What the indexer shows of an outpoint; evidence is lost or unusable by a fault.
Shows(o, view) ==
    \/ view = "missing" /\ coin < o /\ UNCHANGED faults
    \/ view \in {"missing", "bad"} /\ Fault
    \/ view = "renewed" /\ coin > o /\ UNCHANGED faults
    \/ /\ coin = o /\ UNCHANGED faults
       /\ \/ view = "unspent" /\ spent = "no" /\ exit = "no"
          \/ view = "unrolled" /\ spent = "no" /\ exit = "unrolled"
          \/ view = "bad" /\ spent = "no" /\ exit = "swept"
          \/ view = spent /\ spent # "no"

\* prefetch, exactCoin, exactSuccessor and the reads of classifySpend.
ScanRead(p, view) ==
    /\ scan[p].pc = "reading" /\ Shows(scan[p].outpoint, view)
    /\ scan' = [scan EXCEPT ![p].pc = "seen", ![p].view = view,
                            ![p].successor = IF view = "renewed" /\ Spendable THEN coin
                                             ELSE None]
    /\ UNCHANGED <<rowVars, recoverable, run, up, sent, chainVars, claims>>

\* covenantFacts throws unless the outpoint is an output of the lockup graph.
FactsHold(s) == s.outpoint = Lockup

\* exactSuccessor found one live coin, and the row takes it.
Adopts(s) == FactsHold(s) /\ s.view = "renewed" /\ s.successor # None /\ Renewable(row)

\* The views that end in recordSpendUnknown.  A locking row whose lockup is not
\* there yet is left alone; a batch settlement without a successor is classified
\* as a spend and refused for its empty arkTxId.
Unknown(s) ==
    \/ s.view = "bad"
    \/ s.view = "missing" /\ s.state # "locking"
    \/ s.view = "renewed" /\ ~Adopts(s)
    \/ s.view \in {"unspent"} \cup Terminal /\ ~FactsHold(s)

\* The loop of scan() for the row, in the order of the code.
Record(p, s) ==
    \/ /\ s.view = "missing" /\ ~Unknown(s)
       /\ UNCHANGED <<rowVars, recoverable>>
    \/ /\ Unknown(s)
       /\ row' = RecordFailure(row, "unknown")
       /\ paused' = (paused \/ row.state \in Active)
       /\ UNCHANGED <<reserved, custody, recoverable>>
    \/ /\ s.view = "unrolled"
       /\ row' = RecordFailure(row, "unrolled")
       /\ UNCHANGED <<reserved, custody, paused, recoverable>>
    \/ /\ Adopts(s)
       /\ row' = RecordRenewed(row, s.successor)
       /\ recoverable' = recoverable \cup {p}
       /\ UNCHANGED <<reserved, custody, paused>>
    \/ /\ s.view = "unspent" /\ FactsHold(s)
       /\ row' = ClearUnknown(row, s.state)
       /\ recoverable' = recoverable \cup {p}
       /\ UNCHANGED <<reserved, custody, paused>>
    \/ /\ s.view \in Terminal /\ FactsHold(s)
       /\ ObserveSpend(s.state, s.view)
       /\ UNCHANGED recoverable

ScanWrite(p) ==
    /\ scan[p].pc = "seen"
    /\ Record(p, scan[p])
    /\ EndScan(p)
    /\ UNCHANGED <<run, up, sent, chainVars, claims, faults>>

-----------------------------------------------------------------------------
(* The sweeper and its recovery runner. *)

\* Mutant: a lease that still runs does not bar the row.
MutClaimable == row.state = "recovering" /\ row.phase = "prepared" /\ row.due

\* Mutant: a lease that ran out still bars the row.
MutNeverLapses ==
    row.state = "recovering" /\ row.phase = "prepared" /\ row.token = None /\ row.due

\* claimRecoveryLease for a prepared row: the lease is free or has run out, and
\* the next attempt is due.
Claimable ==
    /\ row.state = "recovering" /\ row.phase = "prepared"
    /\ row.token = None \/ ~row.live
    /\ row.due

\* claimRecoveryLease
Claim(r, token) ==
    IF r.state = "locked"
    THEN [r EXCEPT !.state = "recovering", !.phase = "prepared", !.graph = r.outpoint,
                   !.token = token, !.live = TRUE, !.due = TRUE]
    ELSE [r EXCEPT !.token = token, !.live = TRUE]

\* recordRecoveryPreparationFailure: a locked row enters recovery as failed.
RecordPreparationFailure(r) ==
    [r EXCEPT !.state = "recovering", !.phase = "failed", !.due = TRUE, !.failure = "recovery"]

\* recordPermanentRecoveryFailure; like the one above it pauses the policy.
RecordPermanentFailure(r) ==
    [r EXCEPT !.phase = "failed", !.token = None, !.live = FALSE, !.due = TRUE,
              !.failure = "recovery"]

\* Mutant: an accepted reclaim is taken for an observed one.
MutRecordResponse(r) ==
    [r EXCEPT !.state = "recovered", !.phase = "submitted", !.token = None, !.live = FALSE,
              !.due = TRUE, !.failure = "none"]

\* recordRecoveryResponse
RecordResponse(r) ==
    [r EXCEPT !.phase = "submitted", !.token = None, !.live = FALSE, !.due = TRUE,
              !.failure = "none"]

\* recordRecoveryAttemptFailure: the graph stays for the next attempt.
RecordAttemptFailure(r) ==
    [r EXCEPT !.token = None, !.live = FALSE, !.due = FALSE, !.failure = "recovery"]

\* WHERE state = 'recovering' AND recovery_lease_token = ?
Owns(p) == row.state = "recovering" /\ run[p].token # None /\ row.token = run[p].token

\* renewRecoveryLease
Renewed(p) == Owns(p) /\ row.phase = "prepared" /\ row.live

\* The tick's filter: an unrolled covenant is left alone, the locktime has
\* matured, the last scan saw the coin, and no recovery of it is in flight.
Due(p) ==
    /\ p \in up /\ run[p].pc = "idle" /\ p \in recoverable
    /\ row.state \in {"locked", "recovering"} /\ row.failure # "unrolled"
    /\ matured
    /\ row.phase \notin {"submitted", "failed"}

\* buildRecoveryIntent accepts only the output of the persisted lockup graph.
Buildable == row.state = "locked" => row.outpoint = Lockup

\* tick and recover() up to the emulator's answer: the graph is built and stored
\* with the lease, then sent.
Sweep(p) ==
    /\ Due(p) /\ Buildable
    /\ row.state = "locked" \/ Claimable
    /\ claims < MaxClaims /\ claims' = claims + 1
    /\ row' = Claim(row, claims + 1)
    /\ run' = [run EXCEPT ![p] = [pc |-> "submitting", token |-> claims + 1,
                                  graph |-> row'.graph]]
    /\ sent' = sent \cup {[token |-> claims + 1, graph |-> row'.graph]}
    /\ UNCHANGED <<reserved, custody, paused, scan, recoverable, up, chainVars, faults>>

\* RecoveryArtifactError: the graph of a locked row cannot be built, or the
\* stored one no longer matches the row.  Nothing is sent.
SweepFails(p) ==
    /\ Due(p)
    /\ \/ /\ row.state = "locked" /\ row' = RecordPreparationFailure(row)
          /\ UNCHANGED claims
       \/ /\ Claimable /\ row' = RecordPermanentFailure(row)
          /\ claims < MaxClaims /\ claims' = claims + 1
    /\ Fault \/ (~Buildable /\ UNCHANGED faults)
    /\ paused' = TRUE
    /\ UNCHANGED <<reserved, custody, procVars, sent, chainVars>>

EndRun(p) == run' = [run EXCEPT ![p] = Idle]

\* The run's graph can still be accepted, or was.
Acceptable(p) == run[p].graph = coin /\ exit = "no" /\ spent \in {"no", "recovered"}

\* The emulator answers with a valid signed graph.  A run that lost its lease
\* writes nothing.
Answered(p) ==
    /\ run[p].pc = "submitting" /\ Acceptable(p)
    /\ row' = IF Renewed(p) THEN RecordResponse(row) ELSE row
    /\ EndRun(p)
    /\ UNCHANGED <<reserved, custody, paused, scan, recoverable, up, sent, chainVars, claims,
                   faults>>

\* submitTx rejects: the coin is gone, or the call was lost.
CallFails(p) ==
    /\ run[p].pc = "submitting"
    /\ Fault \/ (~Acceptable(p) /\ UNCHANGED faults)
    /\ row' = IF Owns(p) /\ row.phase = "prepared" THEN RecordAttemptFailure(row) ELSE row
    /\ EndRun(p)
    /\ UNCHANGED <<reserved, custody, paused, scan, recoverable, up, sent, chainVars, claims>>

\* An answer that fails validateRecoveryResponse.
BadAnswer(p) ==
    /\ run[p].pc = "submitting" /\ Fault
    /\ row' = IF Renewed(p) THEN RecordPermanentFailure(row) ELSE row
    /\ paused' = (paused \/ Renewed(p))
    /\ EndRun(p)
    /\ UNCHANGED <<reserved, custody, scan, recoverable, up, sent, chainVars, claims>>

\* Mutant: a failed recovery with a stored graph is put back to work as well.
MutExpedite(r) ==
    IF r.state = "recovering" /\ r.phase \in {"prepared", "failed"} /\ r.graph # None
    THEN [r EXCEPT !.phase = "prepared", !.due = TRUE]
    ELSE r

\* expediteRecovery: only a prepared row without a running lease.
Expedite(r) ==
    IF r.state = "recovering" /\ r.phase = "prepared" /\ (r.token = None \/ ~r.live)
    THEN [r EXCEPT !.due = TRUE]
    ELSE r

\* POST /admin/api/advances/:id/retry-recovery
RetryRecovery ==
    /\ row' = Expedite(row) /\ row' # row
    /\ UNCHANGED <<reserved, custody, paused, procVars, sent, chainVars, claims, faults>>

-----------------------------------------------------------------------------
(* Processes, time and the chain. *)

\* The process dies, or stop() makes its runs return without writing.
Crash(p) ==
    /\ p \in up /\ Fault
    /\ up' = up \ {p}
    /\ EndScan(p) /\ EndRun(p)
    /\ recoverable' = recoverable \ {p}
    /\ UNCHANGED <<rowVars, sent, chainVars, claims>>

Restart(p) ==
    /\ p \notin up /\ up' = up \cup {p}
    /\ UNCHANGED <<rowVars, scan, recoverable, run, sent, chainVars, claims, faults>>

\* recovery_lease_until passes.  A run that waits renews every third of the
\* lease, so its lease only runs out when its process stalls.
HolderRuns == \E p \in Processes : run[p].pc # "idle" /\ run[p].token = row.token

Lapse ==
    /\ row.token # None /\ row.live
    /\ Fault \/ (~HolderRuns /\ UNCHANGED faults)
    /\ row' = [row EXCEPT !.live = FALSE]
    /\ UNCHANGED <<reserved, custody, paused, procVars, sent, chainVars, claims>>

\* recovery_next_attempt_at passes.
BecomeDue ==
    /\ ~row.due /\ row' = [row EXCEPT !.due = TRUE]
    /\ UNCHANGED <<reserved, custody, paused, procVars, sent, chainVars, claims, faults>>

\* Median time passes the recovery locktime.
Mature ==
    /\ ~matured /\ matured' = TRUE
    /\ UNCHANGED <<rowVars, procVars, sent, coin, spent, exit, spends, claims, faults>>

\* The lockup transaction lands.
LandLockup ==
    /\ coin = None /\ coin' = Lockup
    /\ UNCHANGED <<rowVars, procVars, sent, spent, exit, spends, matured, claims, faults>>

\* Anyone entitled spends the covenant through one of its leaves; the reclaim
\* leaf is open to everyone.
Spend(leaf) ==
    /\ Spendable
    /\ spent' = leaf /\ spends' = spends \cup {leaf}
    /\ UNCHANGED <<rowVars, procVars, sent, coin, exit, matured, claims, faults>>

\* A reclaim graph the emulator was handed lands.
LandReclaim ==
    /\ \E s \in sent : s.graph = coin
    /\ Spend("recovered")

\* The delegatee renews the covenant in a batch.
Renew ==
    /\ Spendable /\ coin < MaxCoins
    /\ coin' = coin + 1
    /\ UNCHANGED <<rowVars, procVars, sent, spent, exit, spends, matured, claims, faults>>

\* The owner unrolls the coin, or its batch expires and is swept.
Leave(how) ==
    /\ Spendable /\ exit' = how
    /\ UNCHANGED <<rowVars, procVars, sent, coin, spent, spends, matured, claims, faults>>

\* The canonical chain drops the spend.
Reorg ==
    /\ spent # "no" /\ Fault
    /\ spent' = "no"
    /\ UNCHANGED <<rowVars, procVars, sent, coin, exit, spends, matured, claims>>

Next ==
    \/ ObserveLockup \/ RetryRecovery
    \/ \E p \in Processes :
        \/ ScanStart(p) \/ ScanWithoutTip(p) \/ ScanWrite(p)
        \/ \E view \in Views : ScanRead(p, view)
        \/ Sweep(p) \/ SweepFails(p) \/ Answered(p) \/ CallFails(p) \/ BadAnswer(p)
        \/ Crash(p) \/ Restart(p)
    \/ Lapse \/ BecomeDue \/ Mature
    \/ LandLockup \/ LandReclaim \/ Renew \/ Reorg
    \/ \E leaf \in Terminal : Spend(leaf)
    \/ \E how \in {"unrolled", "swept"} : Leave(how)

Spec == Init /\ [][Next]_vars

\* The lifecycle tick of a running process reconciles, scans and then sweeps;
\* awaited calls come back, dead processes are restarted, time passes, and a
\* reclaim the emulator signed lands while its coin is there; one whose answer was
\* lost need not.
LiveSpec ==
    /\ Spec
    /\ WF_vars(ObserveLockup) /\ WF_vars(Lapse) /\ WF_vars(BecomeDue)
    /\ WF_vars(row.phase = "submitted" /\ LandReclaim)
    /\ \A p \in Processes :
        /\ WF_vars(ScanStart(p)) /\ WF_vars(ScanWrite(p)) /\ WF_vars(Restart(p))
        /\ WF_vars(\E view \in Views : ScanRead(p, view))
        /\ SF_vars(Sweep(p) \/ SweepFails(p))
        /\ WF_vars(Answered(p) \/ CallFails(p))

-----------------------------------------------------------------------------
(* Properties. *)

\* Every variable keeps the shape of its column, scan, run or chain fact.
TypeOK ==
    /\ row \in Rows
    /\ reserved \in BOOLEAN /\ custody \in BOOLEAN /\ paused \in BOOLEAN
    /\ scan \in [Processes -> Scans]
    /\ recoverable \in SUBSET Processes /\ up \in SUBSET Processes
    /\ run \in [Processes -> Runs]
    /\ sent \in SUBSET Sends
    /\ coin \in Coins /\ spent \in {"no"} \cup Terminal
    /\ exit \in {"no", "unrolled", "swept"} /\ spends \in SUBSET Terminal
    /\ matured \in BOOLEAN
    /\ claims \in Tokens /\ faults \in 0 .. MaxFaults

\* A verdict is a spend that happened: the row is closed only by the leaf that
\* spent the coin, never by an emulator's answer; its operator coins are given
\* back with it and custody is owed exactly for a reclaim.
ClosedByItsSpend ==
    /\ row.state \in Terminal => row.state \in spends
    /\ reserved <=> row.state \in Active
    /\ custody <=> row.state = "recovered"

\* Whatever was renewed, retried or taken over meanwhile, every reclaim handed
\* to the emulator is the one stored in the row and spends the coin the row names.
ReclaimSpendsTheRowsCoin ==
    /\ \A s \in sent : s.graph = row.graph
    /\ row.phase \in {"prepared", "submitted"} => row.graph = row.outpoint

\* What the row says of a spend happened, and what was sent spends its coin.
SpendsAreTheRows == ClosedByItsSpend /\ ReclaimSpendsTheRowsCoin

\* A verdict stands: a late answer, a stale scan or a second spend after a reorg
\* leaves state and custody of a closed row as they are.
VerdictStands ==
    [][row.state \in Terminal => row'.state = row.state /\ custody' = custody]_vars

\* Once a recovery was submitted or has failed for good nothing puts it back:
\* no late answer, no second worker and no retry of the operator.
SettledPhaseStays ==
    [][row.phase \in {"submitted", "failed"} => row'.phase = row.phase /\ sent' = sent]_vars

\* Nothing late reopens what is closed, submitted or failed.
OutcomesStand == VerdictStands /\ SettledPhaseStays

\* While the lease of a recovery runs nobody takes it over: it ends with the
\* answer to its own run or with the verdict.
LeaseProtectsRecovery ==
    [][row.token # None /\ row.live /\ row'.token # row.token =>
          \/ row'.state \in Terminal
          \/ \E p \in Processes : run[p].token = row.token /\ run'[p] = Idle]_vars

\* The covenant has left the reach of a reclaim, or an operator must look at it.
OutOfReach == exit # "no" \/ row.phase = "failed"

\* A matured covenant gets its verdict, through crashes, lapsed leases, lost
\* calls, bad evidence and a race with the recipient, unless it was renewed.  (A
\* behaviour that uses up the bound on leases says nothing.)
CovenantEnds ==
    (matured /\ coin # None)
        ~> (row.state \in Terminal \/ OutOfReach \/ coin # Lockup \/ claims = MaxClaims)

-----------------------------------------------------------------------------
(* What the repository's documentation says and the code does not do. *)

\* protocol.md: a renewal re-dates the coins, and must not be able to push the
\* Taxi's own claim out.  So a matured row at the renewed outpoint it adopted
\* gets its verdict like any other.
RenewalKeepsTheClaim ==
    (matured /\ row.state = "locked" /\ row.outpoint = coin /\ coin # Lockup)
        ~> (row.state \in Terminal \/ OutOfReach)
=============================================================================
