--------------------------- MODULE RuntimeProofs ---------------------------
(***************************************************************************)
(* Proofs about Runtime for any number of requests: admissions take turns, *)
(* and an orderly shutdown closes the database after everything it drains. *)
(***************************************************************************)
EXTENDS Runtime, FiniteSetTheorems, TLAPS

-----------------------------------------------------------------------------
(* The inductive invariant. *)

\* Requests arrive in order.
ArriveInOrder ==
    \A p, q \in Arrivals : q < p /\ req[p].step # "idle" => req[q].step # "idle"

\* An admission is released only after its turn came, and is not active then.
ReleasedAfterTurn ==
    \A p \in Arrivals : req[p].released => /\ req[p].step \in {"work", "done"}
                                           /\ ~req[p].active

\* A request whose turn has come has none but released ones before it.
TurnsInOrder ==
    \A p, q \in Arrivals :
        q < p /\ req[p].step \notin {"idle", "previous"} => req[q].released

\* A request that waits does so for the one just before it, or for nobody when
\* all are released.
WaitsForThePrevious ==
    \A p \in Arrivals :
        req[p].step = "previous" =>
            \/ req[p].previous # 0 /\ req[p].previous = p - 1
            \/ req[p].previous = 0 /\ \A q \in Arrivals : q < p => req[q].released

\* The end of the chain is the last to arrive, as long as it is not released.
ChainEndsAtTheLast ==
    /\ admission = 0 => \A p \in Arrivals : req[p].step # "idle" => req[p].released
    /\ admission # 0 => /\ req[admission].step # "idle" /\ ~req[admission].released
                        /\ \A p \in Arrivals : p > admission => req[p].step = "idle"

\* Each stage of the shutdown leaves nothing running that the next relies on.
DrainedFirst ==
    /\ shutdown \in {"dispose", "pending", "finish", "stopped"} => pass = AtRest /\ busy = {}
    /\ shutdown = "stopped" => ServerFinished
    /\ ~database => shutdown = "stopped"

Turns == /\ ArriveInOrder /\ ReleasedAfterTurn /\ TurnsInOrder
         /\ WaitsForThePrevious /\ ChainEndsAtTheLast

\* The part of the types that is the watcher's.
WatcherTyped == {watching, eventTick} \subseteq BOOLEAN

IndInv == RuntimeTypeOK /\ Turns /\ DrainedFirst

-----------------------------------------------------------------------------
(* Types. *)

\* The system starts typed and in turn.
LEMMA RuntimeInitIndInv == RuntimeInit => IndInv
<1> SUFFICES ASSUME RuntimeInit PROVE IndInv
  OBVIOUS
<1> USE DEF RuntimeInit, Absent, Arrivals
<1>1. RuntimeTypeOK
  <2>1. req \in [Arrivals -> Request] /\ {admission, activeAdmission} \subseteq 0 .. MaxRequests
    BY RuntimeAssumption DEF Request, Steps
  <2>2. pass \in Pass /\ shutdown \in Stages
    BY DEF Pass, AtRest, Stages
  <2>3. busy \subseteq Workers /\ {watching, eventTick} \subseteq BOOLEAN
    OBVIOUS
  <2>. QED  BY <2>1, <2>2, <2>3 DEF RuntimeTypeOK
<1>2. Turns
  BY DEF Turns, ArriveInOrder, ReleasedAfterTurn, TurnsInOrder, WaitsForThePrevious,
         ChainEndsAtTheLast
<1>3. DrainedFirst
  BY DEF DrainedFirst
<1>. QED  BY <1>1, <1>2, <1>3 DEF IndInv

\* A request queues at the end of the chain.  Types are kept.
LEMMA EnterTyped == ASSUME NEW p \in Arrivals, RuntimeTypeOK, Enter(p) PROVE RuntimeTypeOK'
<1>1. req[p] \in Request /\ p \in 0 .. MaxRequests /\ 0 \in 0 .. MaxRequests
  BY RuntimeAssumption DEF RuntimeTypeOK, Arrivals
<1>2. req' \in [Arrivals -> Request]
  BY <1>1 DEF RuntimeTypeOK, Enter, Request, Steps
<1>3. {admission, activeAdmission}' \subseteq 0 .. MaxRequests
  BY <1>1 DEF RuntimeTypeOK, Enter
<1>4. (pass \in Pass /\ shutdown \in Stages /\ busy \subseteq Workers /\ WatcherTyped)'
  BY DEF RuntimeTypeOK, Enter, lifecycleVars, watcherVars, WatcherTyped
<1>. QED  BY <1>2, <1>3, <1>4 DEF RuntimeTypeOK, WatcherTyped

\* A request's turn comes.  Types are kept.
LEMMA AwaitQueueTyped ==
    ASSUME NEW p \in Arrivals, RuntimeTypeOK, AwaitQueue(p) PROVE RuntimeTypeOK'
<1>1. req[p] \in Request /\ p \in 0 .. MaxRequests /\ 0 \in 0 .. MaxRequests
  BY RuntimeAssumption DEF RuntimeTypeOK, Arrivals
<1>2. req' \in [Arrivals -> Request]
  BY <1>1 DEF RuntimeTypeOK, AwaitQueue, Request, Steps
<1>3. {admission, activeAdmission}' \subseteq 0 .. MaxRequests
  BY <1>1 DEF RuntimeTypeOK, AwaitQueue
<1>4. (pass \in Pass /\ shutdown \in Stages /\ busy \subseteq Workers /\ WatcherTyped)'
  BY DEF RuntimeTypeOK, AwaitQueue, lifecycleVars, watcherVars, WatcherTyped
<1>. QED  BY <1>2, <1>3, <1>4 DEF RuntimeTypeOK, WatcherTyped

\* An admission becomes the active one.  Types are kept.
LEMMA ActivateTyped == ASSUME NEW p \in Arrivals, RuntimeTypeOK, Activate(p) PROVE RuntimeTypeOK'
<1>1. req[p] \in Request /\ p \in 0 .. MaxRequests /\ 0 \in 0 .. MaxRequests
  BY RuntimeAssumption DEF RuntimeTypeOK, Arrivals
<1>2. req' \in [Arrivals -> Request]
  BY <1>1 DEF RuntimeTypeOK, Activate, Request, Steps
<1>3. {admission, activeAdmission}' \subseteq 0 .. MaxRequests
  BY <1>1 DEF RuntimeTypeOK, Activate
<1>4. (pass \in Pass /\ shutdown \in Stages /\ busy \subseteq Workers /\ WatcherTyped)'
  BY DEF RuntimeTypeOK, Activate, lifecycleVars, watcherVars, WatcherTyped
<1>. QED  BY <1>2, <1>3, <1>4 DEF RuntimeTypeOK, WatcherTyped

\* A request's work begins, or it is refused.  Types are kept.
LEMMA BeginWorkTyped == ASSUME NEW p \in Arrivals, RuntimeTypeOK, BeginWork(p) PROVE RuntimeTypeOK'
<1>1. req[p] \in Request /\ p \in 0 .. MaxRequests /\ 0 \in 0 .. MaxRequests
  BY RuntimeAssumption DEF RuntimeTypeOK, Arrivals
<1>2. req' \in [Arrivals -> Request]
  <2>1. Over \in Request
    BY <1>1 DEF Over, Request, Steps
  <2>2. [req[p] EXCEPT !.step = "work", !.fresh = TRUE, !.ok = FALSE] \in Request
    BY <1>1 DEF Request, Steps
  <2>. QED  BY <1>1, <2>1, <2>2 DEF RuntimeTypeOK, BeginWork
<1>3. {admission, activeAdmission}' \subseteq 0 .. MaxRequests
  BY <1>1 DEF RuntimeTypeOK, BeginWork, Finished
<1>4. (pass \in Pass /\ shutdown \in Stages /\ busy \subseteq Workers /\ WatcherTyped)'
  BY DEF RuntimeTypeOK, BeginWork, lifecycleVars, watcherVars, WatcherTyped
<1>. QED  BY <1>2, <1>3, <1>4 DEF RuntimeTypeOK, WatcherTyped

\* A snapshot's life passes.  Types are kept.
LEMMA LapseTyped == ASSUME NEW p \in Arrivals, RuntimeTypeOK, LapseSnapshot(p) PROVE RuntimeTypeOK'
<1>1. req[p] \in Request /\ p \in 0 .. MaxRequests /\ 0 \in 0 .. MaxRequests
  BY RuntimeAssumption DEF RuntimeTypeOK, Arrivals
<1>2. req' \in [Arrivals -> Request]
  BY <1>1 DEF RuntimeTypeOK, LapseSnapshot, Request, Steps
<1>3. {admission, activeAdmission}' \subseteq 0 .. MaxRequests
  BY <1>1 DEF RuntimeTypeOK, LapseSnapshot
<1>4. (pass \in Pass /\ shutdown \in Stages /\ busy \subseteq Workers /\ WatcherTyped)'
  BY DEF RuntimeTypeOK, LapseSnapshot, lifecycleVars, watcherVars, WatcherTyped
<1>. QED  BY <1>2, <1>3, <1>4 DEF RuntimeTypeOK, WatcherTyped

\* The timer releases an admission whose work still runs.  Types are kept.
LEMMA TimeOutTyped == ASSUME NEW p \in Arrivals, RuntimeTypeOK, TimeOut(p) PROVE RuntimeTypeOK'
<1>1. req[p] \in Request /\ p \in 0 .. MaxRequests /\ 0 \in 0 .. MaxRequests
  BY RuntimeAssumption DEF RuntimeTypeOK, Arrivals
<1>2. req' \in [Arrivals -> Request]
  BY <1>1 DEF RuntimeTypeOK, TimeOut, Request, Steps
<1>3. {admission, activeAdmission}' \subseteq 0 .. MaxRequests
  BY <1>1 DEF RuntimeTypeOK, TimeOut, Finished
<1>4. (pass \in Pass /\ shutdown \in Stages /\ busy \subseteq Workers /\ WatcherTyped)'
  BY DEF RuntimeTypeOK, TimeOut, lifecycleVars, watcherVars, WatcherTyped
<1>. QED  BY <1>2, <1>3, <1>4 DEF RuntimeTypeOK, WatcherTyped

\* A handler returns.  Types are kept.
LEMMA EndWorkTyped == ASSUME NEW p \in Arrivals, RuntimeTypeOK, EndWork(p) PROVE RuntimeTypeOK'
<1>1. req[p] \in Request /\ p \in 0 .. MaxRequests /\ 0 \in 0 .. MaxRequests
  BY RuntimeAssumption DEF RuntimeTypeOK, Arrivals
<1>2. req' \in [Arrivals -> Request]
  BY <1>1 DEF RuntimeTypeOK, EndWork, Request, Steps, Over
<1>3. {admission, activeAdmission}' \subseteq 0 .. MaxRequests
  BY <1>1 DEF RuntimeTypeOK, EndWork, Finished
<1>4. (pass \in Pass /\ shutdown \in Stages /\ busy \subseteq Workers /\ WatcherTyped)'
  BY DEF RuntimeTypeOK, EndWork, lifecycleVars, Workers, watcherVars, WatcherTyped
<1>. QED  BY <1>2, <1>3, <1>4 DEF RuntimeTypeOK, WatcherTyped

\* A client hangs up.  Types are kept.
LEMMA DisconnectTyped ==
    ASSUME NEW p \in Arrivals, RuntimeTypeOK, Disconnect(p) PROVE RuntimeTypeOK'
<1>1. req[p] \in Request /\ p \in 0 .. MaxRequests /\ 0 \in 0 .. MaxRequests
  BY RuntimeAssumption DEF RuntimeTypeOK, Arrivals
<1>2. req' \in [Arrivals -> Request]
  BY <1>1 DEF RuntimeTypeOK, Disconnect, Request, Steps
<1>3. {admission, activeAdmission}' \subseteq 0 .. MaxRequests
  BY <1>1 DEF RuntimeTypeOK, Disconnect
<1>4. (pass \in Pass /\ shutdown \in Stages /\ busy \subseteq Workers /\ WatcherTyped)'
  BY DEF RuntimeTypeOK, Disconnect, lifecycleVars, watcherVars, WatcherTyped
<1>. QED  BY <1>2, <1>3, <1>4 DEF RuntimeTypeOK, WatcherTyped

\* A queued refresh starts, or is refused.  Types are kept.
LEMMA QueuedRefreshTyped == ASSUME RuntimeTypeOK, QueuedRefresh PROVE RuntimeTypeOK'
<1>1. req' \in [Arrivals -> Request]
  <2>1. \A p \in Arrivals : [req[p] EXCEPT !.step = "entering"] \in Request
    BY DEF RuntimeTypeOK, Request, Steps
  <2>. QED  BY <2>1 DEF RuntimeTypeOK, QueuedRefresh
<1>2. pass' \in Pass
  BY DEF RuntimeTypeOK, QueuedRefresh, Pass, Absent
<1>. QED  BY <1>1, <1>2 DEF RuntimeTypeOK, QueuedRefresh, watcherVars

\* A check resolves.  Types are kept.
LEMMA CheckDoneTyped == ASSUME NEW ok \in BOOLEAN, RuntimeTypeOK, CheckDone(ok) PROVE RuntimeTypeOK'
<1>1. req' \in [Arrivals -> Request]
  <2>1. \A p \in Arrivals : /\ [req[p] EXCEPT !.step = "entering"] \in Request
                            /\ [req[p] EXCEPT !.step = "checked", !.ok = ok] \in Request
    BY DEF RuntimeTypeOK, Request, Steps
  <2>. QED  BY <2>1 DEF RuntimeTypeOK, CheckDone
<1>2. pass' \in Pass
  BY DEF RuntimeTypeOK, CheckDone, Pass, Absent
<1>. QED  BY <1>1, <1>2 DEF RuntimeTypeOK, CheckDone, watcherVars

\* A pass begins, fails, advances or completes.  Types are kept.
LEMMA PassesTyped == ASSUME RuntimeTypeOK, Passes PROVE RuntimeTypeOK'
<1>1. pass' \in Pass
  BY DEF RuntimeTypeOK, Passes, BeginPass, PassFails, PassAdvances, PassCompletes, PassRefresh,
         AfterPhase, Pass, AtRest, Absent
<1>2. busy' \subseteq Workers
  BY DEF RuntimeTypeOK, Passes, BeginPass, PassFails, PassAdvances, PassCompletes, Workers
<1>3. UNCHANGED <<req, admission, activeAdmission, shutdown>>
  BY DEF Passes, BeginPass, PassFails, PassAdvances, PassCompletes, admissionVars
<1>4. WatcherTyped'
  BY DEF RuntimeTypeOK, WatcherTyped, Passes, BeginPass, PassFails, PassAdvances, PassCompletes,
         watcherVars
<1>. QED  BY <1>1, <1>2, <1>3, <1>4 DEF RuntimeTypeOK, WatcherTyped

\* A step of the shutdown.  Types are kept.
LEMMA ShutdownTyped == ASSUME RuntimeTypeOK, Shutdown PROVE RuntimeTypeOK'
<1>1. UNCHANGED <<req, admission, activeAdmission, pass, busy>> /\ shutdown' \in Stages
  BY DEF Shutdown, Stop, Drain, DisposeAdmission, DisposeCheck, CloseDatabase, ForceTerminate,
         shutdownRest, admissionVars, Stages
<1>2. eventTick' = eventTick /\ watching' \in {watching, FALSE}
  BY DEF Shutdown, Stop, Drain, DisposeAdmission, DisposeCheck, CloseDatabase, ForceTerminate,
         shutdownRest
<1>. QED  BY <1>1, <1>2 DEF RuntimeTypeOK

\* Every step keeps the types.
LEMMA NextTyped == ASSUME RuntimeTypeOK, [RuntimeNext]_runtimeVars PROVE RuntimeTypeOK'
<1>1. CASE Admissions
  BY <1>1, EnterTyped, AwaitQueueTyped, ActivateTyped, BeginWorkTyped, LapseTyped, TimeOutTyped,
     EndWorkTyped, DisconnectTyped DEF Admissions
<1>2. CASE QueuedRefresh \/ \E ok \in BOOLEAN : CheckDone(ok)
  BY <1>2, QueuedRefreshTyped, CheckDoneTyped
<1>3. CASE Passes \/ Shutdown
  BY <1>3, PassesTyped, ShutdownTyped
<1>4. CASE \E k \in Workers : WorkerEnds(k)
  BY <1>4 DEF RuntimeTypeOK, WorkerEnds, admissionVars, lifecycleVars, watcherVars
<1>5. CASE Events
  BY <1>5 DEF RuntimeTypeOK, Events, ContractEvent, EventTickEnds, admissionVars
<1>6. CASE UNCHANGED runtimeVars
  BY <1>6 DEF RuntimeTypeOK, runtimeVars
<1>. QED  BY <1>1, <1>2, <1>3, <1>4, <1>5, <1>6 DEF RuntimeNext

\* Every reachable state is typed.
THEOREM RuntimeTyped == RuntimeSpec => []RuntimeTypeOK
<1>1. RuntimeInit => RuntimeTypeOK
  BY RuntimeInitIndInv DEF IndInv
<1>. QED  BY <1>1, NextTyped, PTL DEF RuntimeSpec

-----------------------------------------------------------------------------
(* Turns. *)

\* What the turns are made of.
SameTurns ==
    /\ admission' = admission
    /\ \A p \in Arrivals :
          /\ req'[p].step = "idle" <=> req[p].step = "idle"
          /\ req'[p].step = "previous" <=> req[p].step = "previous"
          /\ req'[p].step \in {"work", "done"} <=> req[p].step \in {"work", "done"}
          /\ req'[p].previous = req[p].previous
          /\ req'[p].released = req[p].released
          /\ req'[p].active = req[p].active

\* The fields of a request that another step leaves alone.
Others(p) == \A q \in Arrivals : q # p => req'[q] = req[q]

\* A step that changes nothing of the turns keeps them.
LEMMA SameTurnsKept == ASSUME RuntimeTypeOK, Turns, SameTurns PROVE Turns'
<1>1. admission # 0 => admission \in Arrivals
  BY RuntimeAssumption DEF RuntimeTypeOK, Arrivals
<1>2. ArriveInOrder'
  BY DEF Turns, ArriveInOrder, SameTurns
<1>3. ReleasedAfterTurn'
  BY DEF Turns, ReleasedAfterTurn, SameTurns
<1>4. TurnsInOrder'
  BY DEF Turns, TurnsInOrder, SameTurns
<1>5. WaitsForThePrevious'
  BY DEF Turns, WaitsForThePrevious, SameTurns
<1>6. ChainEndsAtTheLast'
  BY <1>1 DEF Turns, ChainEndsAtTheLast, SameTurns
<1>. QED  BY <1>2, <1>3, <1>4, <1>5, <1>6 DEF Turns

\* The end of the chain is a request that arrived, and none before it is idle.
LEMMA EndOfTheChain ==
    ASSUME RuntimeTypeOK, Turns, admission # 0
    PROVE  /\ admission \in Arrivals /\ req[admission].step # "idle"
           /\ \A q \in Arrivals : q < admission => req[q].step # "idle"
BY RuntimeAssumption DEF RuntimeTypeOK, Turns, ArriveInOrder, ChainEndsAtTheLast, Arrivals

\* A request queues behind the last one of the chain: the one just before it,
\* unless that one was released.
LEMMA EnterTurns ==
    ASSUME NEW p \in Arrivals, RuntimeTypeOK, Turns, Enter(p) PROVE Turns'
<1>1. /\ Others(p) /\ admission' = p
      /\ req'[p].step = "previous" /\ req'[p].previous = admission
      /\ req'[p].released = req[p].released /\ req'[p].active = req[p].active
  BY DEF RuntimeTypeOK, Enter, Others, Request
<1>2. req[p].step = "idle" /\ \A q \in Arrivals : q < p => req[q].step # "idle"
  BY DEF Enter, Arrivals
<1>3. p \in Nat /\ p # 0 /\ \A q \in Arrivals : q \in Nat /\ (q < p \/ q = p \/ p < q)
  BY RuntimeAssumption DEF Arrivals
<1>4. \A q \in Arrivals : q > p => req[q].step = "idle"
  BY <1>2 DEF Turns, ArriveInOrder
<1>5. ~req[p].released
  BY <1>2 DEF Turns, ReleasedAfterTurn
<1>6. \/ admission = p - 1
      \/ admission = 0 /\ \A q \in Arrivals : q < p => req[q].released
  <2>1. CASE admission = 0
    BY <2>1, <1>2 DEF Turns, ChainEndsAtTheLast
  <2>2. CASE admission # 0
    <3>1. admission \in Arrivals /\ req[admission].step # "idle"
      BY <2>2, EndOfTheChain
    <3>2. admission < p
      BY <3>1, <1>2, <1>3, <1>4
    <3>3. p - 1 \in Arrivals /\ p - 1 < p
      BY <3>1, <3>2, RuntimeAssumption DEF Arrivals
    <3>4. ~(p - 1 > admission)
      BY <3>3, <1>2, <2>2 DEF Turns, ChainEndsAtTheLast
    <3>5. admission \in Nat /\ p \in Nat
      BY <3>1, RuntimeAssumption DEF Arrivals
    <3>6. admission = p - 1
      BY <3>2, <3>3, <3>4, <3>5
    <3>. QED  BY <3>6
  <2>. QED  BY <2>1, <2>2
<1>7. ArriveInOrder'
  BY <1>1, <1>2, <1>3 DEF Turns, ArriveInOrder, Others
<1>8. ReleasedAfterTurn'
  BY <1>1, <1>5 DEF Turns, ReleasedAfterTurn, Others
<1>9. TurnsInOrder'
  BY <1>1, <1>2, <1>3, <1>4 DEF Turns, TurnsInOrder, Others
<1>10. WaitsForThePrevious'
  <2>1. \A q \in Arrivals : q < p => req'[q].released = req[q].released
    BY <1>1, <1>3 DEF Others
  <2>2. ASSUME NEW q \in Arrivals, q # p, req'[q].step = "previous"
        PROVE  /\ req'[q] = req[q] /\ q < p
    BY <2>2, <1>1, <1>3, <1>4 DEF Others
  <2>3. \A q \in Arrivals : q < p => \A r \in Arrivals : r < q => r < p
    BY <1>3
  <2>. QED  BY <1>1, <1>3, <1>6, <2>1, <2>2, <2>3 DEF Turns, WaitsForThePrevious, Arrivals
<1>11. ChainEndsAtTheLast'
  BY <1>1, <1>3, <1>4, <1>5 DEF ChainEndsAtTheLast, Others
<1>. QED  BY <1>7, <1>8, <1>9, <1>10, <1>11 DEF Turns

\* A request gets its turn when all before it are released.
LEMMA AwaitQueueTurns ==
    ASSUME NEW p \in Arrivals, RuntimeTypeOK, Turns, AwaitQueue(p) PROVE Turns'
<1>1. /\ Others(p) /\ admission' = admission
      /\ req'[p].step \in {"entering", "queue"}
      /\ req'[p].released = req[p].released /\ req'[p].active = req[p].active
      /\ req[p].step = "previous"
  BY DEF RuntimeTypeOK, AwaitQueue, Others, Request
<1>2. p \in Nat /\ p # 0 /\ \A q \in Arrivals : q \in Nat
  BY RuntimeAssumption DEF Arrivals
<1>3. \A q \in Arrivals : q < p => req[q].released
  <2>1. CASE req[p].previous = 0
    BY <2>1, <1>1 DEF Turns, WaitsForThePrevious
  <2>2. CASE req[p].previous # 0
    <3>1. req[p].previous = p - 1 /\ p - 1 \in Arrivals
      BY <2>2, <1>1, RuntimeAssumption DEF Turns, WaitsForThePrevious, Arrivals
    <3>2. req[p - 1].released
      BY <3>1, <2>2 DEF AwaitQueue, Done
    <3>3. \A q \in Arrivals : q < p - 1 => req[q].released
      BY <3>1, <3>2 DEF Turns, ReleasedAfterTurn, TurnsInOrder
    <3>. QED  BY <3>2, <3>3, <1>2
  <2>. QED  BY <2>1, <2>2
<1>4. admission # 0 => admission \in Arrivals
  BY EndOfTheChain
<1>5. ~req[p].released
  BY <1>1 DEF Turns, ReleasedAfterTurn
<1>6. ArriveInOrder'
  BY <1>1, <1>2 DEF Turns, ArriveInOrder, Others
<1>7. ReleasedAfterTurn'
  BY <1>1, <1>5 DEF Turns, ReleasedAfterTurn, Others
<1>8. TurnsInOrder'
  BY <1>1, <1>2, <1>3 DEF Turns, TurnsInOrder, Others
<1>9. WaitsForThePrevious'
  BY <1>1, <1>2 DEF Turns, WaitsForThePrevious, Others
<1>10. ChainEndsAtTheLast'
  BY <1>1, <1>2, <1>4 DEF Turns, ChainEndsAtTheLast, Others
<1>. QED  BY <1>6, <1>7, <1>8, <1>9, <1>10 DEF Turns

\* A request becomes the active one in its turn.
LEMMA ActivateTurns ==
    ASSUME NEW p \in Arrivals, RuntimeTypeOK, Turns, Activate(p) PROVE Turns'
<1>1. /\ Others(p) /\ admission' = admission
      /\ req'[p].step \in {"checked", "refresh"}
      /\ req'[p].released = req[p].released
      /\ req[p].step = "entering" /\ ~req[p].released
  BY DEF RuntimeTypeOK, Activate, Others, Request, Turns, ReleasedAfterTurn
<1>2. admission # 0 => admission \in Arrivals
  BY EndOfTheChain
<1>3. ArriveInOrder'
  BY <1>1 DEF Turns, ArriveInOrder, Others
<1>4. ReleasedAfterTurn'
  BY <1>1 DEF Turns, ReleasedAfterTurn, Others
<1>5. TurnsInOrder'
  BY <1>1 DEF Turns, TurnsInOrder, Others
<1>6. WaitsForThePrevious'
  BY <1>1 DEF Turns, WaitsForThePrevious, Others
<1>7. ChainEndsAtTheLast'
  BY <1>1, <1>2 DEF Turns, ChainEndsAtTheLast, Others
<1>. QED  BY <1>3, <1>4, <1>5, <1>6, <1>7 DEF Turns

\* A request whose turn had come is released.
Releases(p) ==
    /\ Others(p) /\ Finished(p)
    /\ req[p].step \notin {"idle", "previous"}
    /\ req'[p].step \in {"work", "done"} /\ req'[p].released /\ ~req'[p].active

\* A release keeps the turns: everyone before it was released already, and the
\* chain is cleared only when nobody arrived since.
LEMMA ReleaseTurns ==
    ASSUME NEW p \in Arrivals, RuntimeTypeOK, Turns, Releases(p) PROVE Turns'
<1>1. \A q \in Arrivals : q < p => req[q].released
  BY DEF Releases, Turns, TurnsInOrder
<1>2. p \in Nat /\ p # 0 /\ \A q \in Arrivals : q \in Nat
  BY RuntimeAssumption DEF Arrivals
<1>3. admission # 0 => admission \in Arrivals
  BY EndOfTheChain
<1>4. ArriveInOrder'
  BY DEF Turns, ArriveInOrder, Others, Releases
<1>5. ReleasedAfterTurn'
  BY DEF Turns, ReleasedAfterTurn, Others, Releases
<1>6. TurnsInOrder'
  BY <1>1, <1>2 DEF Turns, TurnsInOrder, Others, Releases
<1>7. WaitsForThePrevious'
  <2>1. \A q \in Arrivals : req[q].released => req'[q].released
    BY DEF Others, Releases
  <2>. QED  BY <2>1 DEF Turns, WaitsForThePrevious, Others, Releases
<1>8. ChainEndsAtTheLast'
  <2>1. CASE admission = p
    BY <2>1, <1>1, <1>2 DEF Turns, ChainEndsAtTheLast, Others, Releases, Finished
  <2>2. CASE admission # p
    BY <2>2, <1>2, <1>3 DEF Turns, ChainEndsAtTheLast, Others, Releases, Finished
  <2>. QED  BY <2>1, <2>2
<1>. QED  BY <1>4, <1>5, <1>6, <1>7, <1>8 DEF Turns

\* Work that begins changes no turn; a refusal releases the request.
LEMMA BeginWorkTurns ==
    ASSUME NEW p \in Arrivals, RuntimeTypeOK, Turns, BeginWork(p) PROVE Turns'
<1>1. CASE req[p].ok /\ ~Stopped
  <2>1. /\ Others(p) /\ admission' = admission
        /\ req'[p].step = "work" /\ req[p].step = "checked"
        /\ req'[p].released = req[p].released /\ ~req[p].released
    BY <1>1 DEF RuntimeTypeOK, BeginWork, Others, Request, Turns, ReleasedAfterTurn
  <2>2. admission # 0 => admission \in Arrivals
    BY EndOfTheChain
  <2>3. ArriveInOrder' /\ ReleasedAfterTurn' /\ TurnsInOrder'
    BY <2>1 DEF Turns, ArriveInOrder, ReleasedAfterTurn, TurnsInOrder, Others
  <2>4. WaitsForThePrevious'
    BY <2>1 DEF Turns, WaitsForThePrevious, Others
  <2>5. ChainEndsAtTheLast'
    BY <2>1, <2>2 DEF Turns, ChainEndsAtTheLast, Others
  <2>. QED  BY <2>3, <2>4, <2>5 DEF Turns
<1>2. CASE ~(req[p].ok /\ ~Stopped)
  <2>1. Releases(p)
    BY <1>2 DEF RuntimeTypeOK, BeginWork, Releases, Others, Over
  <2>. QED  BY <2>1, ReleaseTurns
<1>. QED  BY <1>1, <1>2

\* The timer releases a request that still works.
LEMMA TimeOutTurns ==
    ASSUME NEW p \in Arrivals, RuntimeTypeOK, Turns, TimeOut(p) PROVE Turns'
<1>1. Releases(p)
  BY DEF RuntimeTypeOK, TimeOut, Releases, Others, Request
<1>. QED  BY <1>1, ReleaseTurns

\* A handler that returns releases its request.
LEMMA EndWorkTurns ==
    ASSUME NEW p \in Arrivals, RuntimeTypeOK, Turns, EndWork(p) PROVE Turns'
<1>1. Releases(p)
  BY DEF RuntimeTypeOK, EndWork, Releases, Others, Over
<1>. QED  BY <1>1, ReleaseTurns

\* No other step changes a turn.
LEMMA OtherStepsTurns ==
    ASSUME RuntimeTypeOK,
           \/ \E p \in Arrivals : LapseSnapshot(p) \/ Disconnect(p)
           \/ QueuedRefresh \/ (\E ok \in BOOLEAN : CheckDone(ok))
           \/ Passes \/ Shutdown \/ (\E k \in Workers : WorkerEnds(k))
           \/ Events \/ UNCHANGED runtimeVars
    PROVE  SameTurns
<1>1. CASE \E p \in Arrivals : LapseSnapshot(p) \/ Disconnect(p)
  BY <1>1 DEF RuntimeTypeOK, LapseSnapshot, Disconnect, SameTurns, Request
<1>2. CASE QueuedRefresh
  BY <1>2 DEF RuntimeTypeOK, QueuedRefresh, SameTurns, Request
<1>3. CASE \E ok \in BOOLEAN : CheckDone(ok)
  <2>1. PICK ok \in BOOLEAN : CheckDone(ok)
    BY <1>3
  <2>2. ASSUME NEW p \in Arrivals
        PROVE  \/ req'[p] = req[p]
               \/ /\ req[p].step \in {"refresh", "queue"}
                  /\ \/ req'[p] = [req[p] EXCEPT !.step = "checked", !.ok = ok]
                     \/ req'[p] = [req[p] EXCEPT !.step = "entering"]
    BY <2>1 DEF CheckDone
  <2>3. \A p \in Arrivals : req[p] \in Request
    BY DEF RuntimeTypeOK
  <2>4. admission' = admission
    BY <2>1 DEF CheckDone
  <2>. QED  BY <2>2, <2>3, <2>4 DEF SameTurns, Request
<1>4. CASE Passes \/ Shutdown \/ (\E k \in Workers : WorkerEnds(k))
           \/ Events \/ UNCHANGED runtimeVars
  <2>1. UNCHANGED <<req, admission>>
    BY <1>4 DEF Passes, BeginPass, PassFails, PassAdvances, PassCompletes, Shutdown, Stop, Drain,
       DisposeAdmission, DisposeCheck, CloseDatabase, ForceTerminate, WorkerEnds, runtimeVars,
       Events, ContractEvent, EventTickEnds, admissionVars, shutdownRest
  <2>. QED  BY <2>1 DEF SameTurns
<1>. QED  BY <1>1, <1>2, <1>3, <1>4

\* Every step keeps the turns.
LEMMA NextTurns == ASSUME RuntimeTypeOK, Turns, [RuntimeNext]_runtimeVars PROVE Turns'
<1>1. CASE \E p \in Arrivals : \/ Enter(p) \/ AwaitQueue(p) \/ Activate(p) \/ BeginWork(p)
                               \/ TimeOut(p) \/ EndWork(p)
  BY <1>1, EnterTurns, AwaitQueueTurns, ActivateTurns, BeginWorkTurns, TimeOutTurns, EndWorkTurns
<1>2. CASE \/ \E p \in Arrivals : LapseSnapshot(p) \/ Disconnect(p)
           \/ QueuedRefresh \/ (\E ok \in BOOLEAN : CheckDone(ok))
           \/ Passes \/ Shutdown \/ (\E k \in Workers : WorkerEnds(k))
           \/ Events \/ UNCHANGED runtimeVars
  BY <1>2, OtherStepsTurns, SameTurnsKept
<1>. QED  BY <1>1, <1>2 DEF RuntimeNext, Admissions

\* Every reachable state is in turn.
LEMMA AlwaysInTurn == RuntimeSpec => [](RuntimeTypeOK /\ Turns)
<1>1. RuntimeInit => RuntimeTypeOK /\ Turns
  BY RuntimeInitIndInv DEF IndInv
<1>2. RuntimeTypeOK /\ Turns /\ [RuntimeNext]_runtimeVars => (RuntimeTypeOK /\ Turns)'
  BY NextTyped, NextTurns
<1>. QED  BY <1>1, <1>2, PTL DEF RuntimeSpec

\* Of two requests the earlier is released before the later can hold a current
\* admission, and a released request holds none.
LEMMA CurrentIsOne ==
    ASSUME RuntimeTypeOK, Turns, NEW p \in Arrivals, NEW q \in Arrivals, Current(p), Current(q)
    PROVE  p = q
<1>1. ~req[p].released /\ ~req[q].released
  BY DEF Current, Turns, ReleasedAfterTurn
<1>2. ~(q < p) /\ ~(p < q)
  BY <1>1 DEF Current, Turns, TurnsInOrder
<1>. QED  BY <1>2, RuntimeAssumption DEF Arrivals

\* However long an admission overruns its snapshot, and however many requests
\* queue behind it, no two of them can pass assertCurrent at once.
THEOREM OneCurrentAtATime == RuntimeSpec => []OneCurrentAdmission
<1>1. RuntimeTypeOK /\ Turns => OneCurrentAdmission
  <2> SUFFICES ASSUME RuntimeTypeOK, Turns PROVE OneCurrentAdmission
    OBVIOUS
  <2> DEFINE S == {p \in Arrivals : Current(p)}
  <2>1. CASE S = {}
    BY <2>1, FS_EmptySet DEF OneCurrentAdmission
  <2>2. CASE S # {}
    <3>1. PICK p \in Arrivals : Current(p)
      BY <2>2
    <3>2. S = {p}
      BY <3>1, CurrentIsOne
    <3>3. Cardinality(S) = 1
      BY <3>2, FS_Singleton
    <3>. QED  BY <3>3 DEF OneCurrentAdmission
  <2>. QED  BY <2>1, <2>2
<1>. QED  BY <1>1, AlwaysInTurn, PTL

-----------------------------------------------------------------------------
(* Shutdown. *)

\* Once the pass and the workers are drained, a step that neither shuts down
\* nor handles a request leaves them so: what could start one is stopped.
LEMMA StaysDrained ==
    ASSUME DrainedFirst,
           \/ QueuedRefresh \/ (\E ok \in BOOLEAN : CheckDone(ok))
           \/ Passes \/ Events \/ \E k \in Workers : WorkerEnds(k)
    PROVE  /\ UNCHANGED <<shutdown, database>>
           /\ shutdown \in {"dispose", "pending", "finish", "stopped"} => UNCHANGED <<pass, busy>>
<1>1. UNCHANGED <<shutdown, database>>
  BY DEF QueuedRefresh, CheckDone, Passes, BeginPass, PassFails, PassAdvances, PassCompletes,
         WorkerEnds, Events, ContractEvent, EventTickEnds, lifecycleVars
<1>2. ASSUME shutdown \in {"dispose", "pending", "finish", "stopped"}
      PROVE  UNCHANGED <<pass, busy>>
  <2>1. pass = AtRest /\ busy = {} /\ Stopped
    BY <1>2 DEF DrainedFirst, Stopped
  <2>2. pass.awaits = "none" /\ pass.phase = "none"
    BY <2>1 DEF AtRest, Absent
  <2>. QED  BY <2>1, <2>2 DEF QueuedRefresh, CheckDone, Passes, BeginPass, PassFails,
            PassAdvances, PassCompletes, WorkerEnds, Events, ContractEvent, EventTickEnds,
            lifecycleVars
<1>. QED  BY <1>1, <1>2

\* A request that comes in the middle of a shutdown neither wakes a worker nor
\* attaches to the server again.
LEMMA RequestsDoNotRevive ==
    ASSUME RuntimeTypeOK, Admissions
    PROVE  /\ UNCHANGED <<shutdown, database, pass>>
           /\ Stopped => busy' = busy
           /\ Stopped /\ ServerFinished => ServerFinished'
<1>1. PICK p \in Arrivals : \/ Enter(p) \/ AwaitQueue(p) \/ Activate(p) \/ BeginWork(p)
                            \/ LapseSnapshot(p) \/ TimeOut(p) \/ EndWork(p) \/ Disconnect(p)
  BY DEF Admissions
<1>2. UNCHANGED <<shutdown, database, pass>>
  BY <1>1 DEF Enter, AwaitQueue, Activate, BeginWork, LapseSnapshot, TimeOut, EndWork, Disconnect,
              lifecycleVars
<1>3. Stopped => busy' = busy
  BY <1>1 DEF Enter, AwaitQueue, Activate, BeginWork, LapseSnapshot, TimeOut, EndWork,
              Disconnect, Current
<1>4. ASSUME Stopped, ServerFinished PROVE ServerFinished'
  <2>1. Others(p)
    BY <1>1 DEF Enter, AwaitQueue, Activate, BeginWork, LapseSnapshot, TimeOut, EndWork, Disconnect,
                Others, RuntimeTypeOK
  <2>2. ~req[p].attached /\ ~Enter(p)
    BY <1>1, <1>4 DEF Enter, AwaitQueue, Activate, BeginWork, LapseSnapshot, TimeOut, EndWork,
                      Disconnect, ServerFinished
  <2>3. req'[p].attached => req'[p].step = "done"
    <3>1. req[p] \in Request
      BY DEF RuntimeTypeOK
    <3>. QED  BY <1>1, <2>2, <3>1 DEF AwaitQueue, Activate, BeginWork, LapseSnapshot,
              TimeOut, EndWork, Disconnect, Request, Over, RuntimeTypeOK
  <2>. QED  BY <2>1, <2>3, <1>4 DEF Others, ServerFinished
<1>. QED  BY <1>2, <1>3, <1>4

\* A check that resolves moves only requests whose handler has not returned.
LEMMA ChecksDoNotRevive ==
    ASSUME RuntimeTypeOK, ServerFinished,
           \/ QueuedRefresh \/ (\E ok \in BOOLEAN : CheckDone(ok))
           \/ Passes \/ Events \/ \E k \in Workers : WorkerEnds(k)
    PROVE  ServerFinished'
<1>1. \A p \in Arrivals : req[p] \in Request
  BY DEF RuntimeTypeOK
<1>2. CASE QueuedRefresh
  <2>1. \A p \in Arrivals :
          \/ req'[p] = req[p]
          \/ req[p].step = "queue" /\ req'[p] = [req[p] EXCEPT !.step = "entering"]
    BY <1>2 DEF QueuedRefresh
  <2>. QED  BY <1>1, <2>1 DEF ServerFinished, Request
<1>3. CASE \E ok \in BOOLEAN : CheckDone(ok)
  <2>1. PICK ok \in BOOLEAN : CheckDone(ok)
    BY <1>3
  <2>2. \A p \in Arrivals :
          \/ req'[p] = req[p]
          \/ /\ req[p].step \in {"refresh", "queue"}
             /\ \/ req'[p] = [req[p] EXCEPT !.step = "checked", !.ok = ok]
                \/ req'[p] = [req[p] EXCEPT !.step = "entering"]
    BY <2>1 DEF CheckDone
  <2>3. ASSUME NEW p \in Arrivals, req'[p].attached
        PROVE  req'[p].step \in {"idle", "done"}
    <3>1. CASE req'[p] = req[p]
      BY <2>3, <3>1 DEF ServerFinished
    <3>2. CASE req'[p] # req[p]
      <4>1. req[p] \in Request /\ ~(req[p].step \in {"idle", "done"})
        BY <1>1, <2>2, <3>2
      <4>2. req'[p].attached = req[p].attached
        BY <2>2, <3>2, <4>1 DEF Request
      <4>. QED  BY <2>3, <4>1, <4>2 DEF ServerFinished
    <3>. QED  BY <3>1, <3>2
  <2>. QED  BY <2>3 DEF ServerFinished
<1>4. CASE Passes \/ Events \/ \E k \in Workers : WorkerEnds(k)
  <2>1. req' = req
    BY <1>4 DEF Passes, BeginPass, PassFails, PassAdvances, PassCompletes, WorkerEnds,
       Events, ContractEvent, EventTickEnds, admissionVars
  <2>. QED  BY <2>1 DEF ServerFinished
<1>. QED  BY <1>2, <1>3, <1>4

\* Every step keeps the order of the shutdown.
LEMMA NextDrained ==
    ASSUME RuntimeTypeOK, DrainedFirst, [RuntimeNext]_runtimeVars
    PROVE DrainedFirst'
<1>1. CASE Admissions
  BY <1>1, RequestsDoNotRevive DEF DrainedFirst, Stopped
<1>2. CASE \/ QueuedRefresh \/ (\E ok \in BOOLEAN : CheckDone(ok))
           \/ Passes \/ Events \/ \E k \in Workers : WorkerEnds(k)
  <2>1. ServerFinished => ServerFinished'
    BY <1>2, ChecksDoNotRevive
  <2>. QED  BY <1>2, <2>1, StaysDrained DEF DrainedFirst
<1>3. CASE Shutdown
  BY <1>3 DEF Shutdown, Stop, Drain, Drained, DisposeAdmission, DisposeCheck, CloseDatabase,
     ForceTerminate, Ended, Stopped, shutdownRest, admissionVars, DrainedFirst, ServerFinished
<1>4. CASE UNCHANGED runtimeVars
  BY <1>4 DEF runtimeVars, DrainedFirst, ServerFinished
<1>. QED  BY <1>1, <1>2, <1>3, <1>4 DEF RuntimeNext

\* An orderly shutdown closes the database only after the pass, the submission
\* and proceeds workers and every request still connected.  The tick a contract
\* event prompted is not among them.
THEOREM DatabaseClosedAfterTheDrained == RuntimeSpec => []DatabaseOutlivesTheDrained
<1>1. RuntimeInit => RuntimeTypeOK /\ DrainedFirst
  BY RuntimeInitIndInv DEF IndInv
<1>2. RuntimeTypeOK /\ DrainedFirst /\ [RuntimeNext]_runtimeVars => (RuntimeTypeOK /\ DrainedFirst)'
  BY NextTyped, NextDrained
<1>3. DrainedFirst => DatabaseOutlivesTheDrained
  BY DEF DrainedFirst, DatabaseOutlivesTheDrained
<1>. QED  BY <1>1, <1>2, <1>3, PTL DEF RuntimeSpec
=============================================================================
