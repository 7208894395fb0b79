--------------------------- MODULE CovenantProofs ---------------------------
(***************************************************************************)
(* Proofs about Covenant for any set of processes and any number of        *)
(* renewals, leases and faults.                                            *)
(***************************************************************************)
EXTENDS Covenant, TLAPS

-----------------------------------------------------------------------------
(* What the statements do to a row. *)

\* The constants of the model lie in its sets.
LEMMA Members ==
    /\ None \in Coins /\ None \in Tokens /\ Lockup \in Coins
    /\ NotScanning \in Scans /\ Idle \in Runs
<1>1. None \in Coins /\ None \in Tokens /\ Lockup \in Coins
  BY BoundsAssumption DEF None, Coins, Tokens, Lockup
<1>2. NotScanning \in Scans
  BY <1>1 DEF NotScanning, Scans, Active, Views
<1>3. Idle \in Runs
  BY <1>1 DEF Idle, Runs
<1> QED
  BY <1>1, <1>2, <1>3

\* The observation statements keep the row's type and its recovery columns.
LEMMA ObservedRow ==
    ASSUME NEW r \in Rows, NEW code \in Failures, NEW state \in Active, NEW o \in Coins,
           NEW leaf \in Terminal
    PROVE  /\ RecordLockup(r) \in Rows /\ RecordFailure(r, code) \in Rows
           /\ ClearUnknown(r, state) \in Rows /\ RecordRenewed(r, o) \in Rows
           /\ RecordSpend(r, leaf) \in Rows
           /\ [r EXCEPT !.failure = code] \in Rows
<1>1. RecordLockup(r) \in Rows
  BY Members DEF RecordLockup, Rows, Active, Failures
<1>2. [r EXCEPT !.failure = code] \in Rows
  BY DEF Rows
<1>3. RecordFailure(r, code) \in Rows
  BY <1>2 DEF RecordFailure
<1>4. [r EXCEPT !.failure = "none"] \in Rows
  BY DEF Rows, Failures
<1>5. ClearUnknown(r, state) \in Rows
  BY <1>4 DEF ClearUnknown
<1>6. RecordRenewed(r, o) \in Rows
  BY DEF RecordRenewed, Rows, Failures
<1>7. RecordSpend(r, leaf) \in Rows
  BY Members DEF RecordSpend, Rows, Failures
<1> QED
  BY <1>1, <1>2, <1>3, <1>5, <1>6, <1>7

\* The recovery statements and the passing of time keep the row's type.
LEMMA RecoveryRow ==
    ASSUME NEW r \in Rows, NEW n \in Tokens
    PROVE  /\ Claim(r, n) \in Rows
           /\ RecordPreparationFailure(r) \in Rows /\ RecordPermanentFailure(r) \in Rows
           /\ RecordResponse(r) \in Rows /\ RecordAttemptFailure(r) \in Rows
           /\ Expedite(r) \in Rows
           /\ [r EXCEPT !.live = FALSE] \in Rows /\ [r EXCEPT !.due = TRUE] \in Rows
<1>1. [r EXCEPT !.state = "recovering", !.phase = "prepared", !.graph = r.outpoint,
                !.token = n, !.live = TRUE, !.due = TRUE] \in Rows
  BY DEF Rows, Active, Phases
<1>2. [r EXCEPT !.token = n, !.live = TRUE] \in Rows
  BY DEF Rows
<1>3. Claim(r, n) \in Rows
  BY <1>1, <1>2 DEF Claim
<1>4. RecordPreparationFailure(r) \in Rows /\ RecordPermanentFailure(r) \in Rows
  BY Members DEF RecordPreparationFailure, RecordPermanentFailure, Rows, Active, Phases, Failures
<1>5. RecordResponse(r) \in Rows
  BY Members DEF RecordResponse, Rows, Phases, Failures
<1>6. RecordAttemptFailure(r) \in Rows
  BY Members DEF RecordAttemptFailure, Rows, Failures
<1>7. [r EXCEPT !.live = FALSE] \in Rows /\ [r EXCEPT !.due = TRUE] \in Rows
  BY DEF Rows
<1>8. Expedite(r) \in Rows
  BY <1>7 DEF Expedite
<1> QED
  BY <1>3, <1>4, <1>5, <1>6, <1>7, <1>8

-----------------------------------------------------------------------------
(* Type correctness. *)

\* Typing of what the end of a scan writes.
LEMMA RecordType ==
    ASSUME TypeOK, NEW p \in Processes, Record(p, scan[p])
    PROVE  /\ row' \in Rows
           /\ reserved' \in BOOLEAN /\ custody' \in BOOLEAN /\ paused' \in BOOLEAN
           /\ recoverable' \in SUBSET Processes
<1> DEFINE s == scan[p]
<1>0. /\ row \in Rows /\ s \in Scans
      /\ s.state \in Active /\ s.successor \in Coins
  BY DEF TypeOK, Scans
<1>1. CASE UNCHANGED <<rowVars, recoverable>>
  BY <1>1 DEF TypeOK, rowVars
<1>2. CASE /\ row' = RecordFailure(row, "unknown")
           /\ paused' = (paused \/ row.state \in Active)
           /\ UNCHANGED <<reserved, custody, recoverable>>
  <2>1. row' \in Rows
    BY <1>0, <1>2, ObservedRow DEF Failures, Terminal
  <2> QED
    BY <1>2, <2>1 DEF TypeOK
<1>3. CASE /\ row' = RecordFailure(row, "unrolled")
           /\ UNCHANGED <<reserved, custody, paused, recoverable>>
  <2>1. row' \in Rows
    BY <1>0, <1>3, ObservedRow DEF Failures, Terminal
  <2> QED
    BY <1>3, <2>1 DEF TypeOK
<1>4. CASE /\ row' = RecordRenewed(row, s.successor)
           /\ recoverable' = recoverable \cup {p}
           /\ UNCHANGED <<reserved, custody, paused>>
  <2>1. row' \in Rows
    BY <1>0, <1>4, ObservedRow DEF Failures, Terminal
  <2> QED
    BY <1>4, <2>1 DEF TypeOK
<1>5. CASE /\ row' = ClearUnknown(row, s.state)
           /\ recoverable' = recoverable \cup {p}
           /\ UNCHANGED <<reserved, custody, paused>>
  <2>1. row' \in Rows
    BY <1>0, <1>5, ObservedRow DEF Failures, Terminal
  <2> QED
    BY <1>5, <2>1 DEF TypeOK
<1>6. CASE /\ s.view \in Terminal /\ ObserveSpend(s.state, s.view)
           /\ UNCHANGED recoverable
  <2>1. /\ RecordSpend(row, s.view) \in Rows
        /\ [row EXCEPT !.failure = "disagreement"] \in Rows
    BY <1>0, <1>6, ObservedRow DEF Failures
  <2>2. row' \in Rows
    BY <1>0, <1>6, <2>1 DEF ObserveSpend, rowVars
  <2> QED
    BY <1>6, <2>2 DEF TypeOK, ObserveSpend, rowVars
<1> QED
  BY <1>1, <1>2, <1>3, <1>4, <1>5, <1>6 DEF Record

\* A fault stays within its bound.
LEMMA FaultType ==
    ASSUME TypeOK, Fault \/ UNCHANGED faults
    PROVE  faults' \in 0 .. MaxFaults
  BY BoundsAssumption DEF TypeOK, Fault

\* Every step keeps the types.
LEMMA NextType == TypeOK /\ [Next]_vars => TypeOK'
<1> SUFFICES ASSUME TypeOK, [Next]_vars PROVE TypeOK'
  OBVIOUS
<1>0. row \in Rows /\ None \in Tokens
  BY Members DEF TypeOK
<1>1. CASE ObserveLockup \/ RetryRecovery \/ Lapse \/ BecomeDue
  <2>0. RecordLockup(row) \in Rows
    <3>1. "none" \in Failures /\ "locking" \in Active /\ "recycled" \in Terminal
      BY DEF Failures, Active, Terminal
    <3> QED
      BY <1>0, <3>1, Members, ObservedRow
  <2>1. row' \in Rows
    BY <1>0, <1>1, <2>0, RecoveryRow DEF ObserveLockup, RetryRecovery, Lapse, BecomeDue
  <2>2. faults' \in 0 .. MaxFaults
    BY <1>1, FaultType DEF ObserveLockup, RetryRecovery, Lapse, BecomeDue
  <2> QED
    BY <1>1, <2>1, <2>2 DEF TypeOK, ObserveLockup, RetryRecovery, Lapse, BecomeDue,
       procVars, chainVars
<1>2. ASSUME NEW p \in Processes, ScanStart(p) PROVE TypeOK'
  <2>1. row.outpoint \in Coins /\ row.state \in Active
    BY <1>0, <1>2 DEF ScanStart, Rows
  <2>2. [NotScanning EXCEPT !.pc = "reading", !.state = row.state,
             !.outpoint = IF row.outpoint = None THEN Lockup ELSE row.outpoint] \in Scans
    BY <2>1, Members DEF Scans
  <2> QED
    BY <1>2, <2>2 DEF TypeOK, ScanStart, rowVars, chainVars
<1>3. ASSUME NEW p \in Processes, ScanWithoutTip(p) PROVE TypeOK'
  <2>1. scan' \in [Processes -> Scans]
    BY <1>3, Members DEF TypeOK, ScanWithoutTip, EndScan
  <2>2. faults' \in 0 .. MaxFaults
    BY <1>3, FaultType DEF ScanWithoutTip
  <2> QED
    BY <1>3, <2>1, <2>2 DEF TypeOK, ScanWithoutTip, chainVars
<1>4. ASSUME NEW p \in Processes, NEW view \in Views, ScanRead(p, view) PROVE TypeOK'
  <2>1. scan[p] \in Scans /\ coin \in Coins
    BY DEF TypeOK
  <2>2. [scan[p] EXCEPT !.pc = "seen", !.view = view,
             !.successor = IF view = "renewed" /\ Spendable THEN coin ELSE None] \in Scans
    BY <2>1, Members DEF Scans
  <2>3. scan' \in [Processes -> Scans]
    BY <1>4, <2>2 DEF TypeOK, ScanRead
  <2>4. faults' \in 0 .. MaxFaults
    BY <1>4, FaultType DEF ScanRead, Shows
  <2> QED
    BY <1>4, <2>3, <2>4 DEF TypeOK, ScanRead, rowVars, chainVars
<1>5. ASSUME NEW p \in Processes, ScanWrite(p) PROVE TypeOK'
  <2>1. /\ row' \in Rows
        /\ reserved' \in BOOLEAN /\ custody' \in BOOLEAN /\ paused' \in BOOLEAN
        /\ recoverable' \in SUBSET Processes
    BY <1>5, RecordType DEF ScanWrite
  <2>2. scan' \in [Processes -> Scans]
    BY <1>5, Members DEF TypeOK, ScanWrite, EndScan
  <2> QED
    BY <1>5, <2>1, <2>2 DEF TypeOK, ScanWrite, chainVars
<1>6. ASSUME NEW p \in Processes, Sweep(p) PROVE TypeOK'
  <2>1. claims + 1 \in Tokens
    BY <1>6, BoundsAssumption DEF TypeOK, Sweep, Tokens
  <2>2. row' \in Rows
    BY <1>0, <1>6, <2>1, RecoveryRow DEF Sweep
  <2>3. row'.graph \in Coins
    BY <2>2 DEF Rows
  <2>4. /\ [pc |-> "submitting", token |-> claims + 1, graph |-> row'.graph] \in Runs
        /\ [token |-> claims + 1, graph |-> row'.graph] \in Sends
    BY <2>1, <2>3 DEF Runs, Sends
  <2>5. run' \in [Processes -> Runs] /\ sent' \in SUBSET Sends
    BY <1>6, <2>4 DEF TypeOK, Sweep
  <2> QED
    BY <1>6, <2>1, <2>2, <2>5 DEF TypeOK, Sweep, chainVars
<1>7. ASSUME NEW p \in Processes, SweepFails(p) PROVE TypeOK'
  <2>1. row' \in Rows
    BY <1>0, <1>7, RecoveryRow DEF SweepFails
  <2>2. claims' \in Tokens
    BY <1>7, BoundsAssumption DEF TypeOK, SweepFails, Tokens
  <2>3. faults' \in 0 .. MaxFaults
    BY <1>7, FaultType DEF SweepFails
  <2> QED
    BY <1>7, <2>1, <2>2, <2>3 DEF TypeOK, SweepFails, procVars, chainVars
<1>8. ASSUME NEW p \in Processes, Answered(p) \/ CallFails(p) \/ BadAnswer(p) PROVE TypeOK'
  <2>1. row' \in Rows
    BY <1>0, <1>8, RecoveryRow DEF Answered, CallFails, BadAnswer
  <2>2. run' \in [Processes -> Runs]
    BY <1>8, Members DEF TypeOK, Answered, CallFails, BadAnswer, EndRun
  <2>3. faults' \in 0 .. MaxFaults
    BY <1>8, FaultType DEF Answered, CallFails, BadAnswer
  <2>4. paused' \in BOOLEAN
    BY <1>8 DEF TypeOK, Answered, CallFails, BadAnswer
  <2> QED
    BY <1>8, <2>1, <2>2, <2>3, <2>4 DEF TypeOK, Answered, CallFails, BadAnswer, chainVars
<1>9. ASSUME NEW p \in Processes, Crash(p) \/ Restart(p) PROVE TypeOK'
  <2>1. scan' \in [Processes -> Scans] /\ run' \in [Processes -> Runs]
    BY <1>9, Members DEF TypeOK, Crash, Restart, EndScan, EndRun
  <2>2. faults' \in 0 .. MaxFaults
    BY <1>9, FaultType DEF Crash, Restart
  <2> QED
    BY <1>9, <2>1, <2>2 DEF TypeOK, Crash, Restart, rowVars, chainVars
<1>10. CASE Mature \/ LandLockup
  BY <1>10, Members DEF TypeOK, Mature, LandLockup, rowVars, procVars
<1>11. ASSUME NEW leaf \in Terminal, Spend(leaf) PROVE TypeOK'
  BY <1>11 DEF TypeOK, Spend, rowVars, procVars
<1>12. CASE LandReclaim
  BY <1>11, <1>12 DEF LandReclaim, Terminal
<1>13. CASE Renew
  <2>1. coin' \in Coins
    BY <1>13, BoundsAssumption DEF TypeOK, Renew, Coins
  <2> QED
    BY <1>13, <2>1 DEF TypeOK, Renew, rowVars, procVars
<1>14. ASSUME NEW how \in {"unrolled", "swept"}, Leave(how) PROVE TypeOK'
  BY <1>14 DEF TypeOK, Leave, rowVars, procVars
<1>15. CASE Reorg
  <2>1. faults' \in 0 .. MaxFaults
    BY <1>15, FaultType DEF Reorg
  <2> QED
    BY <1>15, <2>1 DEF TypeOK, Reorg, rowVars, procVars
<1>16. CASE UNCHANGED vars
  BY <1>16 DEF TypeOK, vars, rowVars, procVars, chainVars
<1> QED
  BY <1>1, <1>2, <1>3, <1>4, <1>5, <1>6, <1>7, <1>8, <1>9, <1>10, <1>11, <1>12, <1>13,
     <1>14, <1>15, <1>16 DEF Next

\* The initial state is well typed.
LEMMA InitType == Init => TypeOK
<1> SUFFICES ASSUME Init PROVE TypeOK
  OBVIOUS
<1>1. row \in Rows
  BY Members DEF Init, Rows, Active, Phases, Failures
<1>2. scan \in [Processes -> Scans] /\ run \in [Processes -> Runs]
  BY Members DEF Init
<1>3. claims \in Tokens /\ faults \in 0 .. MaxFaults /\ coin \in Coins
  BY Members, BoundsAssumption DEF Init, Tokens
<1> QED
  BY <1>1, <1>2, <1>3 DEF Init, TypeOK

\* The row, the scans, the runs and the chain facts keep their types, for any
\* processes and any number of renewals, leases and faults.
THEOREM CovenantTypeCorrect == Spec => []TypeOK
  BY InitType, NextType, PTL DEF Spec

-----------------------------------------------------------------------------
(* The inductive invariant. *)

\* What a scan or the chain calls a spend has happened.
SpendsHappened ==
    /\ spent # "no" => spent \in spends
    /\ \A p \in Processes : scan[p].view \in Terminal => scan[p].view \in spends

\* Before its recovery a row has no graph out, and only a recovering row is leased.
RecoveryShape ==
    /\ row.state \in {"locking", "locked"} => row.phase = "none" /\ sent = {}
    /\ row.state # "recovering" => row.token = None

IInv ==
    /\ TypeOK /\ SpendsHappened /\ RecoveryShape
    /\ ClosedByItsSpend /\ ReclaimSpendsTheRowsCoin

\* The columns the properties look at, unchanged.
SameRow(r, q) ==
    /\ q.state = r.state /\ q.phase = r.phase /\ q.graph = r.graph
    /\ q.outpoint = r.outpoint /\ q.token = r.token

\* Failure codes and the passing of time leave those columns alone.
LEMMA SameRows ==
    ASSUME NEW r \in Rows, NEW code \in Failures, NEW state \in Active
    PROVE  /\ SameRow(r, RecordFailure(r, code)) /\ SameRow(r, ClearUnknown(r, state))
           /\ SameRow(r, [r EXCEPT !.failure = code])
           /\ SameRow(r, Expedite(r)) /\ SameRow(r, [r EXCEPT !.live = FALSE])
           /\ SameRow(r, [r EXCEPT !.due = TRUE])
<1>1. /\ SameRow(r, [r EXCEPT !.failure = code]) /\ SameRow(r, [r EXCEPT !.failure = "none"])
      /\ SameRow(r, [r EXCEPT !.live = FALSE]) /\ SameRow(r, [r EXCEPT !.due = TRUE])
      /\ SameRow(r, r)
  BY DEF SameRow, Rows
<1> QED
  BY <1>1 DEF RecordFailure, ClearUnknown, Expedite

\* What the other statements do to those columns.
LEMMA ChangedRows ==
    ASSUME NEW r \in Rows, NEW n \in Tokens, NEW o \in Coins, NEW leaf \in Terminal
    PROVE  /\ RecordLockup(r).state = "locked" /\ RecordLockup(r).phase = r.phase
           /\ RecordLockup(r).graph = r.graph /\ RecordLockup(r).token = r.token
           /\ RecordRenewed(r, o).state = r.state /\ RecordRenewed(r, o).phase = r.phase
           /\ RecordRenewed(r, o).graph = r.graph /\ RecordRenewed(r, o).token = r.token
           /\ RecordSpend(r, leaf).state = leaf /\ RecordSpend(r, leaf).phase = r.phase
           /\ RecordSpend(r, leaf).graph = r.graph /\ RecordSpend(r, leaf).token = None
           /\ RecordSpend(r, leaf).outpoint = r.outpoint
           /\ RecordPreparationFailure(r).state = "recovering"
           /\ RecordPreparationFailure(r).phase = "failed"
           /\ RecordPreparationFailure(r).graph = r.graph
           /\ RecordPreparationFailure(r).token = r.token
           /\ RecordPermanentFailure(r).state = r.state
           /\ RecordPermanentFailure(r).phase = "failed"
           /\ RecordPermanentFailure(r).graph = r.graph
           /\ RecordPermanentFailure(r).token = None
           /\ RecordResponse(r).state = r.state /\ RecordResponse(r).phase = "submitted"
           /\ RecordResponse(r).graph = r.graph /\ RecordResponse(r).token = None
           /\ RecordResponse(r).outpoint = r.outpoint
           /\ RecordAttemptFailure(r).state = r.state
           /\ RecordAttemptFailure(r).phase = r.phase
           /\ RecordAttemptFailure(r).graph = r.graph
           /\ RecordAttemptFailure(r).outpoint = r.outpoint
           /\ RecordAttemptFailure(r).token = None
<1>1. /\ RecordLockup(r).state = "locked" /\ RecordLockup(r).phase = r.phase
      /\ RecordLockup(r).graph = r.graph /\ RecordLockup(r).token = r.token
  BY DEF RecordLockup, Rows
<1>2. /\ RecordRenewed(r, o).state = r.state /\ RecordRenewed(r, o).phase = r.phase
      /\ RecordRenewed(r, o).graph = r.graph /\ RecordRenewed(r, o).token = r.token
  BY DEF RecordRenewed, Rows
<1>3. /\ RecordSpend(r, leaf).state = leaf /\ RecordSpend(r, leaf).phase = r.phase
      /\ RecordSpend(r, leaf).graph = r.graph /\ RecordSpend(r, leaf).token = None
      /\ RecordSpend(r, leaf).outpoint = r.outpoint
  BY DEF RecordSpend, Rows
<1>4. /\ RecordPreparationFailure(r).state = "recovering"
      /\ RecordPreparationFailure(r).phase = "failed"
      /\ RecordPreparationFailure(r).graph = r.graph
      /\ RecordPreparationFailure(r).token = r.token
  BY DEF RecordPreparationFailure, Rows
<1>7. /\ RecordPermanentFailure(r).state = r.state
      /\ RecordPermanentFailure(r).phase = "failed"
      /\ RecordPermanentFailure(r).graph = r.graph
      /\ RecordPermanentFailure(r).token = None
  BY DEF RecordPermanentFailure, Rows
<1>5. /\ RecordResponse(r).state = r.state /\ RecordResponse(r).phase = "submitted"
      /\ RecordResponse(r).graph = r.graph /\ RecordResponse(r).token = None
      /\ RecordResponse(r).outpoint = r.outpoint
  BY DEF RecordResponse, Rows
<1>6. /\ RecordAttemptFailure(r).state = r.state
      /\ RecordAttemptFailure(r).phase = r.phase
      /\ RecordAttemptFailure(r).graph = r.graph
      /\ RecordAttemptFailure(r).outpoint = r.outpoint
      /\ RecordAttemptFailure(r).token = None
  BY DEF RecordAttemptFailure, Rows
<1> QED
  BY <1>1, <1>2, <1>3, <1>4, <1>5, <1>6, <1>7

\* A claim prepares the graph of a locked row and only leases another.
LEMMA ClaimedRow ==
    ASSUME NEW r \in Rows, NEW n \in Tokens
    PROVE  /\ r.state = "locked" =>
                /\ Claim(r, n).state = "recovering" /\ Claim(r, n).phase = "prepared"
                /\ Claim(r, n).graph = r.outpoint /\ Claim(r, n).outpoint = r.outpoint
           /\ r.state # "locked" =>
                /\ Claim(r, n).state = r.state /\ Claim(r, n).phase = r.phase
                /\ Claim(r, n).graph = r.graph /\ Claim(r, n).outpoint = r.outpoint
<1>1. CASE r.state = "locked"
  BY <1>1 DEF Claim, Rows
<1>2. CASE r.state # "locked"
  BY <1>2 DEF Claim, Rows
<1> QED
  BY <1>1, <1>2

\* The part of the invariant about the row follows when its columns, its tables
\* and the calls sent are as they were and no spend is forgotten.
LEMMA SameRowKept ==
    ASSUME IInv, SameRow(row, row'), UNCHANGED <<reserved, custody, sent>>,
           spends \subseteq spends'
    PROVE  RecoveryShape' /\ ClosedByItsSpend' /\ ReclaimSpendsTheRowsCoin'
  BY DEF IInv, SameRow, RecoveryShape, ClosedByItsSpend, ReclaimSpendsTheRowsCoin

\* The three answers to a run keep the row's part of the invariant.
LEMMA AnswerKept ==
    ASSUME IInv, NEW p \in Processes, Answered(p) \/ CallFails(p) \/ BadAnswer(p)
    PROVE  RecoveryShape' /\ ClosedByItsSpend' /\ ReclaimSpendsTheRowsCoin'
<1>0. row \in Rows /\ UNCHANGED <<reserved, custody, sent, spends>>
  BY DEF IInv, TypeOK, Answered, CallFails, BadAnswer, chainVars
<1>1. CASE row' = row
  BY <1>0, <1>1, SameRowKept DEF SameRow
<1>2. CASE Owns(p) /\ row.phase = "prepared" /\ row' # row
  <2>1. row.state = "recovering"
    BY <1>2 DEF Owns
  <2>2. \/ row' = RecordResponse(row) \/ row' = RecordAttemptFailure(row)
        \/ row' = RecordPermanentFailure(row)
    BY <1>2 DEF Answered, CallFails, BadAnswer
  <2>3. /\ row'.state = "recovering" /\ row'.graph = row.graph
        /\ row'.phase \in {"prepared", "submitted"} => row'.outpoint = row.outpoint
    BY <1>0, <1>2, <2>1, <2>2, ChangedRows, Members DEF Terminal
  <2> QED
    BY <1>0, <1>2, <2>1, <2>3 DEF IInv, RecoveryShape, ClosedByItsSpend,
       ReclaimSpendsTheRowsCoin, Terminal, Active
<1> QED
  BY <1>1, <1>2 DEF Answered, CallFails, BadAnswer, Renewed

\* So does the end of a scan.
LEMMA RecordKept ==
    ASSUME IInv, NEW p \in Processes, Record(p, scan[p]), UNCHANGED <<sent, spends>>
    PROVE  RecoveryShape' /\ ClosedByItsSpend' /\ ReclaimSpendsTheRowsCoin'
<1> DEFINE s == scan[p]
<1>0. row \in Rows /\ s.state \in Active /\ s.successor \in Coins
  BY DEF IInv, TypeOK, Scans
<1>1. CASE SameRow(row, row') /\ UNCHANGED <<reserved, custody>>
  BY <1>1, SameRowKept
<1>2. CASE \/ UNCHANGED rowVars
           \/ /\ row' = RecordFailure(row, "unknown") \/ row' = RecordFailure(row, "unrolled")
                 \/ row' = ClearUnknown(row, s.state)
                 \/ row' = [row EXCEPT !.failure = "disagreement"]
              /\ UNCHANGED <<reserved, custody>>
  <2>0. /\ SameRow(row, row)
        /\ SameRow(row, RecordFailure(row, "unknown"))
        /\ SameRow(row, RecordFailure(row, "unrolled"))
        /\ SameRow(row, ClearUnknown(row, s.state))
        /\ SameRow(row, [row EXCEPT !.failure = "disagreement"])
    <3>1. {"unknown", "unrolled", "disagreement"} \subseteq Failures
      BY DEF Failures
    <3>2. SameRow(row, row)
      BY DEF SameRow
    <3> QED
      BY <1>0, <3>1, <3>2, SameRows
  <2>1. SameRow(row, row')
    BY <1>2, <2>0 DEF rowVars
  <2> QED
    BY <1>1, <1>2, <2>1 DEF rowVars
<1>3. CASE /\ Adopts(s) /\ row' = RecordRenewed(row, s.successor)
           /\ UNCHANGED <<reserved, custody>>
  <2>1. row.state = "locked" /\ row.phase = "none" /\ sent = {} /\ row.token = None
    BY <1>3 DEF Adopts, Renewable, IInv, RecoveryShape
  <2>2. row'.state = "locked" /\ row'.phase = "none" /\ row'.token = None
    BY <1>0, <1>3, <2>1, ChangedRows, Members DEF Terminal
  <2> QED
    BY <1>3, <2>1, <2>2 DEF IInv, RecoveryShape, ClosedByItsSpend,
       ReclaimSpendsTheRowsCoin, Terminal, Active
<1>4. CASE /\ s.view \in Terminal /\ row.state = s.state /\ row' = RecordSpend(row, s.view)
           /\ reserved' = FALSE /\ custody' = (custody \/ s.view = "recovered")
  <2>1. /\ row'.state = s.view /\ row'.phase = row.phase /\ row'.graph = row.graph
        /\ row'.token = None /\ row'.outpoint = row.outpoint
    BY <1>0, <1>4, ChangedRows, Members
  <2>2. s.view \in spends'
    BY <1>4 DEF IInv, SpendsHappened
  <2>3. row.state # "recovered" /\ s.view \notin Active
    BY <1>0, <1>4 DEF Active, Terminal
  <2>4. ~custody
    BY <2>3 DEF IInv, ClosedByItsSpend
  <2>5. ClosedByItsSpend'
    <3>1. custody' <=> row'.state = "recovered"
      BY <1>4, <2>1, <2>4
    <3>2. ~reserved' /\ row'.state \notin Active
      BY <1>4, <2>1, <2>3
    <3> QED
      BY <2>1, <2>2, <3>1, <3>2 DEF ClosedByItsSpend
  <2>6. RecoveryShape' /\ ReclaimSpendsTheRowsCoin'
    BY <1>4, <2>1 DEF IInv, RecoveryShape, ReclaimSpendsTheRowsCoin, Terminal
  <2> QED
    BY <2>5, <2>6
<1> QED
  BY <1>2, <1>3, <1>4 DEF Record, ObserveSpend

\* A sweep sends the graph it stores, or stores that it cannot be built.
LEMMA SweepKept ==
    ASSUME IInv, NEW p \in Processes, Sweep(p) \/ SweepFails(p)
    PROVE  RecoveryShape' /\ ClosedByItsSpend' /\ ReclaimSpendsTheRowsCoin'
<1>0. /\ row \in Rows /\ UNCHANGED <<reserved, custody, spends>>
      /\ row.state \in {"locked", "recovering"}
  BY DEF IInv, TypeOK, Sweep, SweepFails, Due, chainVars
<1>1. CASE Sweep(p)
  <2>1. claims + 1 \in Tokens
    BY <1>1, BoundsAssumption DEF IInv, TypeOK, Sweep, Tokens
  <2>2. /\ row'.state = "recovering" /\ row'.phase = "prepared"
        /\ row'.graph = row'.outpoint
        /\ row.state = "recovering" => row'.graph = row.graph
    BY <1>0, <1>1, <2>1, ClaimedRow DEF IInv, Sweep, Claimable, ReclaimSpendsTheRowsCoin
  <2>3. \A x \in sent' : x.graph = row'.graph
    BY <1>0, <1>1, <2>2 DEF IInv, Sweep, RecoveryShape, ReclaimSpendsTheRowsCoin
  <2> QED
    BY <1>0, <2>2, <2>3 DEF IInv, RecoveryShape, ClosedByItsSpend,
       ReclaimSpendsTheRowsCoin, Terminal, Active
<1>2. CASE SweepFails(p)
  <2>1. /\ row'.state = "recovering" /\ row'.phase = "failed" /\ row'.graph = row.graph
        /\ sent' = sent
    <3>1. CASE row.state = "locked" /\ row' = RecordPreparationFailure(row)
      BY <1>0, <1>2, <3>1, ChangedRows, Members DEF SweepFails, Terminal
    <3>2. CASE row.state = "recovering" /\ row' = RecordPermanentFailure(row)
      BY <1>0, <1>2, <3>2, ChangedRows, Members DEF SweepFails, Terminal
    <3> QED
      BY <1>2, <3>1, <3>2 DEF SweepFails, Claimable
  <2> QED
    BY <1>0, <2>1 DEF IInv, RecoveryShape, ClosedByItsSpend, ReclaimSpendsTheRowsCoin,
       Terminal, Active
<1> QED
  BY <1>1, <1>2

\* Every step keeps what is said of spends: they are only ever added.
LEMMA SpendsKept ==
    ASSUME IInv, [Next]_vars
    PROVE  SpendsHappened' /\ spends \subseteq spends'
<1>0. SpendsHappened /\ TypeOK
  BY DEF IInv
<1>1. ASSUME NEW p \in Processes, NEW view \in Views, ScanRead(p, view)
      PROVE  SpendsHappened' /\ spends \subseteq spends'
  <2>1. view \in Terminal => view \in spends
    BY <1>0, <1>1 DEF ScanRead, Shows, SpendsHappened, Terminal
  <2>2. scan'[p].view = view
    BY <1>0, <1>1 DEF ScanRead, TypeOK, Scans
  <2>3. \A q \in Processes : q # p => scan'[q] = scan[q]
    BY <1>0, <1>1 DEF ScanRead, TypeOK
  <2>4. UNCHANGED <<spent, spends>>
    BY <1>1 DEF ScanRead, chainVars
  <2> QED
    BY <1>0, <2>1, <2>2, <2>3, <2>4 DEF SpendsHappened
<1>2. ASSUME NEW p \in Processes,
             ScanStart(p) \/ ScanWithoutTip(p) \/ ScanWrite(p) \/ Crash(p)
      PROVE  SpendsHappened' /\ spends \subseteq spends'
  <2>1. scan'[p].view = "missing"
    <3>1. CASE ScanStart(p)
      <4>1. [NotScanning EXCEPT !.pc = "reading", !.state = row.state,
                 !.outpoint = IF row.outpoint = None THEN Lockup ELSE row.outpoint].view
            = "missing"
        BY DEF NotScanning
      <4> QED
        BY <1>0, <3>1, <4>1 DEF ScanStart, TypeOK
    <3>2. CASE ScanWithoutTip(p) \/ ScanWrite(p) \/ Crash(p)
      <4>1. scan'[p] = NotScanning
        BY <1>0, <3>2 DEF ScanWithoutTip, ScanWrite, Crash, EndScan, TypeOK
      <4> QED
        BY <4>1 DEF NotScanning
    <3> QED
      BY <1>2, <3>1, <3>2
  <2>2. \A q \in Processes : q # p => scan'[q] = scan[q]
    BY <1>0, <1>2 DEF ScanStart, ScanWithoutTip, ScanWrite, Crash, EndScan, TypeOK
  <2>3. UNCHANGED <<spent, spends>>
    BY <1>2 DEF ScanStart, ScanWithoutTip, ScanWrite, Crash, chainVars
  <2> QED
    BY <1>0, <2>1, <2>2, <2>3 DEF SpendsHappened, Terminal
<1>3. ASSUME NEW leaf \in Terminal, Spend(leaf)
      PROVE  SpendsHappened' /\ spends \subseteq spends'
  BY <1>0, <1>3 DEF Spend, SpendsHappened, procVars
<1>4. CASE LandReclaim
  BY <1>3, <1>4 DEF LandReclaim, Terminal
<1>5. CASE Reorg
  BY <1>0, <1>5 DEF Reorg, SpendsHappened, procVars
<1>6. ASSUME UNCHANGED <<scan, spent, spends>>
      PROVE  SpendsHappened' /\ spends \subseteq spends'
  BY <1>0, <1>6 DEF SpendsHappened
<1>7. ASSUME NEW p \in Processes,
             \/ Sweep(p) \/ SweepFails(p) \/ Answered(p) \/ CallFails(p) \/ BadAnswer(p)
             \/ Restart(p)
      PROVE  SpendsHappened' /\ spends \subseteq spends'
  BY <1>6, <1>7 DEF Sweep, SweepFails, Answered, CallFails, BadAnswer, Restart, procVars,
     chainVars
<1>8. CASE \/ ObserveLockup \/ RetryRecovery \/ Lapse \/ BecomeDue \/ Mature \/ LandLockup
           \/ Renew \/ UNCHANGED vars
  BY <1>6, <1>8 DEF ObserveLockup, RetryRecovery, Lapse, BecomeDue, Mature, LandLockup,
     Renew, vars, procVars, chainVars
<1>9. ASSUME NEW how \in {"unrolled", "swept"}, Leave(how)
      PROVE  SpendsHappened' /\ spends \subseteq spends'
  BY <1>6, <1>9 DEF Leave, procVars
<1> QED
  BY <1>1, <1>2, <1>3, <1>4, <1>5, <1>7, <1>8, <1>9 DEF Next

\* The invariant is inductive.
LEMMA NextIInv == IInv /\ [Next]_vars => IInv'
<1> SUFFICES ASSUME IInv, [Next]_vars PROVE IInv'
  OBVIOUS
<1> DEFINE Goal == RecoveryShape' /\ ClosedByItsSpend' /\ ReclaimSpendsTheRowsCoin'
<1>0. TypeOK' /\ SpendsHappened' /\ spends \subseteq spends' /\ row \in Rows
  BY NextType, SpendsKept DEF IInv, TypeOK
<1>1. CASE ObserveLockup
  <2>1. row.phase = "none" /\ sent = {} /\ row.token = None
    BY <1>1 DEF ObserveLockup, IInv, RecoveryShape
  <2>2. row'.state = "locked" /\ row'.phase = "none" /\ row'.token = None
    BY <1>0, <1>1, <2>1, ChangedRows, Members DEF ObserveLockup, Terminal
  <2>3. UNCHANGED <<reserved, custody, sent, spends>> /\ row.state = "locking"
    BY <1>1 DEF ObserveLockup, chainVars
  <2>4. Goal
    BY <2>1, <2>2, <2>3 DEF IInv, RecoveryShape, ClosedByItsSpend,
       ReclaimSpendsTheRowsCoin, Terminal, Active
  <2> QED
    BY <1>0, <2>4 DEF IInv
<1>2. CASE RetryRecovery \/ Lapse \/ BecomeDue
  <2>1. SameRow(row, row')
    <3>1. "none" \in Failures /\ "locked" \in Active
      BY DEF Failures, Active
    <3> QED
      BY <1>0, <1>2, <3>1, SameRows DEF RetryRecovery, Lapse, BecomeDue
  <2>2. UNCHANGED <<reserved, custody, sent>>
    BY <1>2 DEF RetryRecovery, Lapse, BecomeDue
  <2>3. Goal
    BY <1>0, <2>1, <2>2, SameRowKept
  <2> QED
    BY <1>0, <2>3 DEF IInv
<1>3. ASSUME NEW p \in Processes, ScanWrite(p) PROVE IInv'
  <2>1. Goal
    BY <1>3, RecordKept DEF ScanWrite, chainVars
  <2> QED
    BY <1>0, <2>1 DEF IInv
<1>4. ASSUME NEW p \in Processes, Sweep(p) \/ SweepFails(p) PROVE IInv'
  <2>1. Goal
    BY <1>4, SweepKept
  <2> QED
    BY <1>0, <2>1 DEF IInv
<1>5. ASSUME NEW p \in Processes, Answered(p) \/ CallFails(p) \/ BadAnswer(p) PROVE IInv'
  <2>1. Goal
    BY <1>5, AnswerKept
  <2> QED
    BY <1>0, <2>1 DEF IInv
<1>6. ASSUME UNCHANGED <<row, reserved, custody, sent>> PROVE IInv'
  <2>1. Goal
    BY <1>0, <1>6, SameRowKept DEF SameRow
  <2> QED
    BY <1>0, <2>1 DEF IInv
<1>7. ASSUME NEW p \in Processes,
             \/ ScanStart(p) \/ ScanWithoutTip(p) \/ Crash(p) \/ Restart(p)
             \/ \E view \in Views : ScanRead(p, view)
      PROVE  IInv'
  BY <1>6, <1>7 DEF ScanStart, ScanWithoutTip, ScanRead, Crash, Restart, rowVars
<1>8. CASE \/ Mature \/ LandLockup \/ LandReclaim \/ Renew \/ Reorg \/ UNCHANGED vars
           \/ \E leaf \in Terminal : Spend(leaf)
           \/ \E how \in {"unrolled", "swept"} : Leave(how)
  BY <1>6, <1>8 DEF Mature, LandLockup, LandReclaim, Renew, Reorg, Spend, Leave, vars,
     rowVars
<1> QED
  BY <1>1, <1>2, <1>3, <1>4, <1>5, <1>7, <1>8 DEF Next

\* The initial state satisfies it.
LEMMA InitIInv == Init => IInv
<1> SUFFICES ASSUME Init PROVE IInv
  OBVIOUS
<1>1. TypeOK
  BY InitType
<1>2. SpendsHappened
  BY DEF Init, SpendsHappened, NotScanning, Terminal
<1>3. RecoveryShape /\ ReclaimSpendsTheRowsCoin
  BY DEF Init, RecoveryShape, ReclaimSpendsTheRowsCoin
<1>4. ClosedByItsSpend
  BY DEF Init, ClosedByItsSpend, Active, Terminal
<1> QED
  BY <1>1, <1>2, <1>3, <1>4 DEF IInv

\* The invariant holds in every behaviour.
THEOREM CovenantInvariant == Spec => []IInv
  BY InitIInv, NextIInv, PTL DEF Spec

\* A row is closed only by a spend that happened, gives its coins back with the
\* verdict and owes custody exactly for a reclaim.
THEOREM VerdictsAreSpends == Spec => []ClosedByItsSpend
<1>1. IInv => ClosedByItsSpend
  BY DEF IInv
<1> QED
  BY <1>1, CovenantInvariant, PTL

\* Every reclaim sent is the stored one and spends the coin the row names.
THEOREM ReclaimIsTheRows == Spec => []ReclaimSpendsTheRowsCoin
<1>1. IInv => ReclaimSpendsTheRowsCoin
  BY DEF IInv
<1> QED
  BY <1>1, CovenantInvariant, PTL

-----------------------------------------------------------------------------
(* What a step may never do. *)

\* How a step changes the row: not at all in the columns that matter, by one of
\* the statements, or by closing it.
RowStep ==
    \/ SameRow(row, row') /\ UNCHANGED <<custody, sent>>
    \/ /\ row.state \in {"locking", "locked"} /\ row'.state = "locked"
       /\ row'.phase = row.phase /\ row'.token = row.token
       /\ UNCHANGED <<custody, sent>>
    \/ /\ row.state \in Active /\ row'.state \in Terminal /\ row'.phase = row.phase
       /\ UNCHANGED sent
    \/ /\ row.state = "locked" \/ Claimable
       /\ row.phase \notin {"submitted", "failed"}
       /\ UNCHANGED custody
    \/ \E p \in Processes :
        /\ Owns(p) /\ row.phase = "prepared" /\ row'.state = "recovering"
        /\ run'[p] = Idle /\ UNCHANGED <<custody, sent>>

\* The end of a scan is such a step.
LEMMA RecordIsRowStep ==
    ASSUME TypeOK, NEW p \in Processes, Record(p, scan[p]), UNCHANGED sent
    PROVE  RowStep
<1> DEFINE s == scan[p]
<1>0. row \in Rows /\ s.state \in Active /\ s.successor \in Coins
  BY DEF TypeOK, Scans
<1>1. CASE \/ UNCHANGED rowVars
           \/ /\ row' = RecordFailure(row, "unknown") \/ row' = RecordFailure(row, "unrolled")
                 \/ row' = ClearUnknown(row, s.state)
                 \/ row' = [row EXCEPT !.failure = "disagreement"]
              /\ UNCHANGED <<reserved, custody>>
  <2>0. /\ SameRow(row, row)
        /\ SameRow(row, RecordFailure(row, "unknown"))
        /\ SameRow(row, RecordFailure(row, "unrolled"))
        /\ SameRow(row, ClearUnknown(row, s.state))
        /\ SameRow(row, [row EXCEPT !.failure = "disagreement"])
    <3>1. {"unknown", "unrolled", "disagreement"} \subseteq Failures
      BY DEF Failures
    <3>2. SameRow(row, row)
      BY DEF SameRow
    <3> QED
      BY <1>0, <3>1, <3>2, SameRows
  <2>1. SameRow(row, row') /\ UNCHANGED custody
    BY <1>1, <2>0 DEF rowVars
  <2> QED
    BY <2>1 DEF RowStep
<1>2. CASE Adopts(s) /\ row' = RecordRenewed(row, s.successor) /\ UNCHANGED custody
  <2>1. /\ row.state = "locked" /\ row'.state = "locked" /\ row'.phase = row.phase
        /\ row'.token = row.token
    BY <1>0, <1>2, ChangedRows, Members DEF Adopts, Renewable, Terminal
  <2> QED
    BY <1>2, <2>1 DEF RowStep
<1>3. CASE s.view \in Terminal /\ row.state = s.state /\ row' = RecordSpend(row, s.view)
  <2>1. row.state \in Active /\ row'.state \in Terminal /\ row'.phase = row.phase
    BY <1>0, <1>3, ChangedRows, Members
  <2> QED
    BY <2>1 DEF RowStep
<1> QED
  BY <1>1, <1>2, <1>3 DEF Record, ObserveSpend

\* So is every other step.
LEMMA NextIsRowStep == TypeOK /\ [Next]_vars => RowStep
<1> SUFFICES ASSUME TypeOK, [Next]_vars PROVE RowStep
  OBVIOUS
<1>0. row \in Rows
  BY DEF TypeOK
<1>1. CASE ObserveLockup
  <2>1. row.state = "locking" /\ row' = RecordLockup(row) /\ UNCHANGED <<custody, sent>>
    BY <1>1 DEF ObserveLockup
  <2>2. row'.state = "locked" /\ row'.phase = row.phase /\ row'.token = row.token
    BY <1>0, <2>1, ChangedRows, Members DEF Terminal
  <2> QED
    BY <2>1, <2>2 DEF RowStep
<1>2. CASE RetryRecovery \/ Lapse \/ BecomeDue
  <2>1. SameRow(row, row')
    <3>1. "none" \in Failures /\ "locked" \in Active
      BY DEF Failures, Active
    <3> QED
      BY <1>0, <1>2, <3>1, SameRows DEF RetryRecovery, Lapse, BecomeDue
  <2> QED
    BY <1>2, <2>1 DEF RetryRecovery, Lapse, BecomeDue, RowStep
<1>3. ASSUME NEW p \in Processes, ScanWrite(p) PROVE RowStep
  BY <1>3, RecordIsRowStep DEF ScanWrite
<1>4. ASSUME NEW p \in Processes, Sweep(p) \/ SweepFails(p) PROVE RowStep
  BY <1>4 DEF Sweep, SweepFails, Due, RowStep
<1>5. ASSUME NEW p \in Processes, Answered(p) \/ CallFails(p) \/ BadAnswer(p) PROVE RowStep
  <2>0. UNCHANGED <<custody, sent>> /\ run'[p] = Idle
    BY <1>5 DEF Answered, CallFails, BadAnswer, EndRun, TypeOK
  <2>1. CASE row' = row
    BY <2>0, <2>1 DEF RowStep, SameRow
  <2>2. CASE /\ Owns(p) /\ row.phase = "prepared"
             /\ \/ row' = RecordResponse(row) \/ row' = RecordAttemptFailure(row)
                \/ row' = RecordPermanentFailure(row)
    <3>1. row.state = "recovering" /\ row'.state = "recovering"
      BY <1>0, <2>2, ChangedRows, Members DEF Owns, Terminal
    <3> QED
      BY <2>0, <2>2, <3>1 DEF RowStep
  <2> QED
    BY <1>5, <2>1, <2>2 DEF Answered, CallFails, BadAnswer, Renewed
<1>6. ASSUME UNCHANGED <<row, custody, sent>> PROVE RowStep
  BY <1>6 DEF RowStep, SameRow
<1>7. ASSUME NEW p \in Processes,
             \/ ScanStart(p) \/ ScanWithoutTip(p) \/ Crash(p) \/ Restart(p)
             \/ \E view \in Views : ScanRead(p, view)
      PROVE  RowStep
  BY <1>6, <1>7 DEF ScanStart, ScanWithoutTip, ScanRead, Crash, Restart, rowVars
<1>8. CASE \/ Mature \/ LandLockup \/ LandReclaim \/ Renew \/ Reorg \/ UNCHANGED vars
           \/ \E leaf \in Terminal : Spend(leaf)
           \/ \E how \in {"unrolled", "swept"} : Leave(how)
  BY <1>6, <1>8 DEF Mature, LandLockup, LandReclaim, Renew, Reorg, Spend, Leave, vars,
     rowVars
<1> QED
  BY <1>1, <1>2, <1>3, <1>4, <1>5, <1>7, <1>8 DEF Next

\* The verdict on a covenant is final: neither a late answer nor a second spend
\* after a reorg changes a closed row or its custody.
THEOREM VerdictIsFinal == Spec => VerdictStands
<1>1. TypeOK /\ RowStep /\ row.state \in Terminal
      => row'.state = row.state /\ custody' = custody
  BY DEF TypeOK, RowStep, SameRow, Claimable, Owns, Active, Terminal
<1>2. TypeOK /\ [Next]_vars
      => [row.state \in Terminal => row'.state = row.state /\ custody' = custody]_vars
  BY <1>1, NextIsRowStep
<1> QED
  BY <1>2, CovenantTypeCorrect, PTL DEF Spec, VerdictStands

\* A recovery that was submitted or has failed for good is never taken up again.
THEOREM SettledRecoveryStays == Spec => SettledPhaseStays
<1>1. TypeOK /\ RowStep /\ row.phase \in {"submitted", "failed"}
      => row'.phase = row.phase /\ sent' = sent
  <2> SUFFICES ASSUME TypeOK, RowStep, row.phase \in {"submitted", "failed"}
               PROVE  row'.phase = row.phase /\ sent' = sent
    OBVIOUS
  <2> QED
    BY DEF RowStep, SameRow
<1>2. TypeOK /\ [Next]_vars
      => [row.phase \in {"submitted", "failed"}
            => row'.phase = row.phase /\ sent' = sent]_vars
  BY <1>1, NextIsRowStep
<1> QED
  BY <1>2, CovenantTypeCorrect, PTL DEF Spec, SettledPhaseStays

\* While its lease runs a recovery ends by its own answer or by the verdict; no
\* other worker takes the row.
THEOREM RecoveryLeaseHolds == Spec => LeaseProtectsRecovery
<1> DEFINE A == row.token # None /\ row.live /\ row'.token # row.token =>
                  \/ row'.state \in Terminal
                  \/ \E p \in Processes : run[p].token = row.token /\ run'[p] = Idle
<1>1. IInv /\ RowStep => A
  <2> SUFFICES ASSUME IInv, RowStep, row.token # None, row.live, row'.token # row.token
               PROVE  \/ row'.state \in Terminal
                      \/ \E p \in Processes : run[p].token = row.token /\ run'[p] = Idle
    OBVIOUS
  <2>1. row.state = "recovering"
    BY DEF IInv, RecoveryShape
  <2>2. ~Claimable
    BY DEF Claimable
  <2> QED
    BY <2>1, <2>2 DEF RowStep, SameRow, Owns
<1>2. IInv /\ [Next]_vars => [A]_vars
  BY <1>1, NextIsRowStep DEF IInv
<1> QED
  BY <1>2, CovenantInvariant, PTL DEF Spec, LeaseProtectsRecovery

\* What the row says of a spend happened, and what was sent spends its coin.
THEOREM SpendsStayTheRows == Spec => []SpendsAreTheRows
<1>1. SpendsAreTheRows <=> ClosedByItsSpend /\ ReclaimSpendsTheRowsCoin
  BY DEF SpendsAreTheRows
<1> QED
  BY <1>1, VerdictsAreSpends, ReclaimIsTheRows, PTL

\* Nothing late reopens what is closed, submitted or failed.
THEOREM OutcomesAlwaysStand == Spec => OutcomesStand
  BY VerdictIsFinal, SettledRecoveryStays, PTL DEF OutcomesStand
=============================================================================
