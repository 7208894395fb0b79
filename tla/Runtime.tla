------------------------------ MODULE Runtime ------------------------------
(***************************************************************************)
(* The operator process: admissions, runtime checks, start-up and          *)
(* shutdown.  Admissions queue on a promise chain, each bounded by the     *)
(* life of the snapshot it took; runtime checks asked for elsewhere wait   *)
(* for the admission in progress.  The lifecycle runs its passes in order, *)
(* arms a timer that repeats them, and on shutdown stops and drains the    *)
(* workers, disposes the runtime, waits for the server and closes the      *)
(* database, all under one deadline.  The watcher, once started, has a     *)
(* contract event prompt a tick of the lockup reconciler, which nobody     *)
(* awaits.  Every await is a step boundary.                                *)
(***************************************************************************)
EXTENDS Naturals, FiniteSets

CONSTANT MaxRequests   \* bound on the public requests that take an admission

ASSUME RuntimeAssumption == MaxRequests \in Nat

VARIABLES
    req,        \* each request's handler
    admission,  \* the last admission queued, or 0
    activeAdmission,
    queued,     \* the queued refresh: absent, or the admission it waits for, or checking
    pending,    \* a runtime check is in flight
    pass,       \* the lifecycle's pass: initialization's phase and what it awaits
    backgroundStarted,
    timer,      \* the interval is armed
    busy,       \* workers with a task in flight
    watching,   \* the watcher is started
    eventTick,  \* a reconciler tick prompted by a contract event is in flight
    shutdown,   \* how far stop() has come
    database    \* the database is open

runtimeVars == <<req, admission, activeAdmission, queued, pending, pass,
          backgroundStarted, timer, busy, watching, eventTick, shutdown, database>>

Absent == "none"
Arrivals == 1 .. MaxRequests   \* numbered as they arrive
Workers == {"submission", "proceeds"}
Steps == {"idle", "previous", "queue", "entering", "refresh", "checked", "work", "done"}
Stages == {"running", "drain", "dispose", "pending", "finish", "stopped", "terminated"}

Request ==
    [step: Steps, previous: 0 .. MaxRequests, active: BOOLEAN, fresh: BOOLEAN,
     released: BOOLEAN, attached: BOOLEAN, ok: BOOLEAN]

Pass == [phase: {"provider", "reconciliation", "recovery", "streams", "background", Absent},
         awaits: {"work", "check", "queue", "failed", Absent}]

NotQueued == [state |-> Absent, behind |-> 0]
AtRest == [phase |-> Absent, awaits |-> Absent]
Stopped == shutdown # "running"
Alive == shutdown # "terminated"
Ended == shutdown \in {"stopped", "terminated"}

(* A request whose handler has returned. *)
Over == [step |-> "done", previous |-> 0, active |-> FALSE, fresh |-> FALSE,
         released |-> TRUE, attached |-> TRUE, ok |-> FALSE]

RuntimeInit ==
    /\ req = [p \in Arrivals |->
                [step |-> "idle", previous |-> 0, active |-> FALSE, fresh |-> FALSE,
                 released |-> FALSE, attached |-> TRUE, ok |-> FALSE]]
    /\ admission = 0
    /\ activeAdmission = 0
    /\ queued = NotQueued
    /\ pending = FALSE
    /\ pass = AtRest
    /\ backgroundStarted = FALSE
    /\ timer = FALSE
    /\ busy = {}
    /\ watching = FALSE
    /\ eventTick = FALSE
    /\ shutdown = "running"
    /\ database = TRUE

Done(p) == IF p = 0 THEN TRUE ELSE req[p].released

-----------------------------------------------------------------------------
(* Admissions. *)

admissionVars == <<req, admission, activeAdmission>>
watcherVars == <<watching, eventTick>>
lifecycleVars == <<pass, backgroundStarted, timer, watcherVars, shutdown, database>>

MutFinished(p) ==
    /\ admission' = 0
    /\ activeAdmission' = 0

(* finish(): the chain is cleared only by the admission at its end. *)
Finished(p) ==
    /\ admission' = IF admission = p THEN 0 ELSE admission
    /\ activeAdmission' = IF activeAdmission = p THEN 0 ELSE activeAdmission

Enter(p) ==
    /\ req[p].step = "idle"
    /\ \A q \in 1 .. p - 1 : req[q].step # "idle"
    /\ ~Stopped
    /\ req' = [req EXCEPT ![p].step = "previous", ![p].previous = admission]
    /\ admission' = p
    /\ UNCHANGED <<activeAdmission, queued, pending, busy, lifecycleVars>>

(* The previous admission resolved; a refresh queued by then goes first. *)
AwaitQueue(p) ==
    /\ Alive
    /\ req[p].step = "previous"
    /\ Done(req[p].previous)
    /\ req' = [req EXCEPT ![p].step = IF queued = NotQueued THEN "entering" ELSE "queue",
                          ![p].previous = 0]
    /\ UNCHANGED <<admission, activeAdmission, queued, pending, busy, lifecycleVars>>

(* The check of refreshNow: shared with one already in flight, refused once
   the runtime is stopped. *)
Activate(p) ==
    /\ Alive
    /\ req[p].step = "entering"
    /\ activeAdmission' = p
    /\ pending' = (pending \/ ~Stopped)
    /\ req' = [req EXCEPT ![p].step = IF Stopped THEN "checked" ELSE "refresh",
                          ![p].active = TRUE]
    /\ UNCHANGED <<admission, queued, busy, lifecycleVars>>

(* A blocked snapshot refuses the request; otherwise its work begins and the
   timer that ends the admission with the snapshot is set. *)
BeginWork(p) ==
    /\ Alive
    /\ req[p].step = "checked"
    /\ IF req[p].ok /\ ~Stopped
       THEN /\ req' = [req EXCEPT ![p].step = "work", ![p].fresh = TRUE, ![p].ok = FALSE]
            /\ UNCHANGED <<admission, activeAdmission>>
       ELSE /\ req' = [req EXCEPT ![p] = Over]
            /\ Finished(p)
    /\ UNCHANGED <<queued, pending, busy, lifecycleVars>>

LapseSnapshot(p) ==
    /\ Alive
    /\ req[p].step = "work" /\ req[p].fresh
    /\ req' = [req EXCEPT ![p].fresh = FALSE]
    /\ UNCHANGED <<admission, activeAdmission, queued, pending, busy, lifecycleVars>>

MutTimeOut(p) ==
    /\ Alive
    /\ req[p].step = "work" /\ ~req[p].fresh /\ req[p].active
    /\ req' = [req EXCEPT ![p].active = FALSE]
    /\ UNCHANGED <<admission, activeAdmission, queued, pending, busy, lifecycleVars>>

(* The timer ends the admission while its work still runs. *)
TimeOut(p) ==
    /\ Alive
    /\ req[p].step = "work" /\ ~req[p].fresh /\ req[p].active
    /\ req' = [req EXCEPT ![p].active = FALSE, ![p].released = TRUE]
    /\ Finished(p)
    /\ UNCHANGED <<queued, pending, busy, lifecycleVars>>

(* assertCurrent() guards the transaction that reserves. *)
Current(p) == req[p].step = "work" /\ req[p].active /\ req[p].fresh /\ ~Stopped

(* The handler returns: it passed assertCurrent and prompted the submission
   worker, or it gave up. *)
EndWork(p) ==
    /\ Alive
    /\ req[p].step = "work"
    /\ req' = [req EXCEPT ![p] = Over]
    /\ Finished(p)
    /\ \/ Current(p) /\ busy' = busy \cup {"submission"}
       \/ UNCHANGED busy
    /\ UNCHANGED <<queued, pending, lifecycleVars>>

(* The client hangs up; the server no longer counts the connection, which
   matters only to a shutdown waiting for it. *)
Disconnect(p) ==
    /\ Stopped /\ ~Ended
    /\ req[p].attached /\ req[p].step \notin {"idle", "done"}
    /\ req' = [req EXCEPT ![p].attached = FALSE]
    /\ UNCHANGED <<admission, activeAdmission, queued, pending, busy, lifecycleVars>>

-----------------------------------------------------------------------------
(* Runtime checks. *)

(* A queued refresh starts once the admission it was queued behind is over. *)
QueuedRefresh ==
    /\ Alive
    /\ queued.state = "waiting"
    /\ Done(queued.behind)
    /\ IF Stopped
       THEN /\ queued' = NotQueued
            /\ req' = [p \in Arrivals |-> IF req[p].step = "queue"
                                          THEN [req[p] EXCEPT !.step = "entering"] ELSE req[p]]
            /\ pass' = IF pass.awaits = "queue" THEN [pass EXCEPT !.awaits = "failed"] ELSE pass
            /\ UNCHANGED pending
       ELSE /\ queued' = [state |-> "checking", behind |-> 0]
            /\ pending' = TRUE
            /\ UNCHANGED <<req, pass>>
    /\ UNCHANGED <<admission, activeAdmission, backgroundStarted, timer, busy,
                   watcherVars, shutdown, database>>

(* The check resolves for everyone awaiting it.  After stop() the snapshot it
   yields is the closed one. *)
CheckDone(ok) ==
    /\ Alive
    /\ pending
    /\ ok => ~Stopped
    /\ pending' = FALSE
    /\ req' = [p \in Arrivals |->
                 IF req[p].step = "refresh" THEN [req[p] EXCEPT !.step = "checked", !.ok = ok]
                 ELSE IF req[p].step = "queue" /\ queued.state = "checking"
                 THEN [req[p] EXCEPT !.step = "entering"] ELSE req[p]]
    /\ queued' = IF queued.state = "checking" THEN NotQueued ELSE queued
    /\ pass' = IF pass.awaits = "check" \/ (pass.awaits = "queue" /\ queued.state = "checking")
               THEN [pass EXCEPT !.awaits = IF ok THEN "work" ELSE "failed"] ELSE pass
    /\ UNCHANGED <<admission, activeAdmission, backgroundStarted, timer, busy,
                   watcherVars, shutdown, database>>

(* refresh() as the passes call it: the pass awaits a check of its own, or one
   queued behind the admission in progress, or is refused at once. *)
PassRefresh(phase) ==
    IF Stopped THEN pass' = [phase |-> phase, awaits |-> "failed"] /\ UNCHANGED <<queued, pending>>
    ELSE IF admission = 0
    THEN /\ pass' = [phase |-> phase, awaits |-> "check"]
         /\ pending' = TRUE
         /\ UNCHANGED queued
    ELSE /\ pass' = [phase |-> phase, awaits |-> "queue"]
         /\ queued' = IF queued = NotQueued
                      THEN [state |-> "waiting", behind |-> activeAdmission] ELSE queued
         /\ UNCHANGED pending

-----------------------------------------------------------------------------
(* The lifecycle. *)

(* start(), the interval and the admin's rescan all call refresh(), which does
   nothing once stop() was called and joins a pass already running. *)
BeginPass ==
    /\ ~Stopped
    /\ pass = AtRest
    /\ timer \/ ~backgroundStarted
    /\ PassRefresh("provider")
    /\ UNCHANGED <<admissionVars, backgroundStarted, timer, busy, watcherVars, shutdown,
                   database>>

(* A pass ends; the first one arms the timer. *)
StartBackground ==
    /\ backgroundStarted' = TRUE
    /\ timer' = (timer \/ ~backgroundStarted)

PassFails ==
    /\ Alive
    /\ pass.awaits \in {"work", "failed"}
    /\ pass' = AtRest
    /\ IF ~backgroundStarted /\ ~Stopped
       THEN StartBackground ELSE UNCHANGED <<backgroundStarted, timer>>
    /\ UNCHANGED <<admissionVars, queued, pending, busy, watcherVars, shutdown, database>>

AfterPhase ==
    [provider |-> "reconciliation", reconciliation |-> "recovery", recovery |-> "streams"]

(* A phase resolved: recovery checks the runtime again before it sweeps, and
   leaves the proceeds collector running; the last one starts the watcher, also
   when a shutdown has stopped it before. *)
PassAdvances ==
    /\ Alive
    /\ pass.awaits = "work"
    /\ pass.phase \in DOMAIN AfterPhase
    /\ IF pass.phase = "reconciliation" THEN PassRefresh("recovery")
       ELSE /\ pass' = [phase |-> AfterPhase[pass.phase], awaits |-> "work"]
            /\ UNCHANGED <<queued, pending>>
    /\ busy' = IF pass.phase = "recovery" /\ ~Stopped THEN busy \cup {"proceeds"} ELSE busy
    /\ watching' = (watching \/ pass.phase = "recovery")
    /\ UNCHANGED <<admissionVars, backgroundStarted, timer, eventTick, shutdown, database>>

(* The streams are up.  What status() reports is left out. *)
PassCompletes ==
    /\ Alive
    /\ pass.awaits = "work" /\ pass.phase = "streams"
    /\ pass' = AtRest
    /\ StartBackground
    /\ UNCHANGED <<admissionVars, queued, pending, busy, watcherVars, shutdown, database>>

WorkerEnds(k) ==
    /\ Alive
    /\ k \in busy
    /\ busy' = busy \ {k}
    /\ UNCHANGED <<admissionVars, queued, pending, lifecycleVars>>

-----------------------------------------------------------------------------
(* The watcher's subscription. *)

\* dispose() drops the wallet, and its subscription with it, before it returns.
Subscribed == watching /\ shutdown \in {"running", "drain", "dispose", "pending"}

(* An event of a watched contract: the listener starts a tick of the lockup
   reconciler and keeps no hold of it.  One in flight is joined, and the start
   of the watcher binds the listener only after its own tick. *)
ContractEvent ==
    /\ Subscribed
    /\ pass.phase # "streams"
    /\ eventTick' = TRUE
    /\ UNCHANGED <<admissionVars, queued, pending, pass, backgroundStarted, timer, busy,
                   watching, shutdown, database>>

(* The indexer answered the tick; it wrote what it saw, or the closed database
   refused it. *)
EventTickEnds ==
    /\ Alive
    /\ eventTick
    /\ eventTick' = FALSE
    /\ UNCHANGED <<admissionVars, queued, pending, pass, backgroundStarted, timer, busy,
                   watching, shutdown, database>>

-----------------------------------------------------------------------------
(* Shutdown. *)

shutdownRest == <<admissionVars, queued, pending, pass, backgroundStarted, busy, eventTick>>

(* A signal: everything up to the first await. *)
Stop ==
    /\ shutdown = "running"
    /\ shutdown' = "drain"
    /\ timer' = FALSE
    /\ watching' = FALSE
    /\ UNCHANGED <<shutdownRest, database>>

MutDrained == busy = {}

(* What the shutdown awaits: the pass in flight, with the watcher's own start,
   and the two workers.  It cannot await a tick that nobody holds. *)
Drained == pass = AtRest /\ busy = {}

Drain ==
    /\ shutdown = "drain"
    /\ Drained
    /\ shutdown' = "dispose"
    /\ UNCHANGED <<shutdownRest, timer, watching, database>>

(* dispose() awaits the last admission of the chain, then the check. *)
DisposeAdmission ==
    /\ shutdown = "dispose"
    /\ admission = 0
    /\ shutdown' = "pending"
    /\ UNCHANGED <<shutdownRest, timer, watching, database>>

DisposeCheck ==
    /\ shutdown = "pending"
    /\ ~pending
    /\ shutdown' = "finish"
    /\ UNCHANGED <<shutdownRest, timer, watching, database>>

(* The server has no connection left. *)
ServerFinished == \A p \in Arrivals : req[p].attached => req[p].step \in {"idle", "done"}

CloseDatabase ==
    /\ shutdown = "finish"
    /\ ServerFinished
    /\ shutdown' = "stopped"
    /\ database' = FALSE
    /\ UNCHANGED <<shutdownRest, timer, watching>>

(* The deadline passes, or a step of the shutdown throws: the process exits. *)
ForceTerminate ==
    /\ Stopped /\ ~Ended
    /\ shutdown' = "terminated"
    /\ UNCHANGED <<shutdownRest, timer, watching, database>>

-----------------------------------------------------------------------------
Admissions ==
    \E p \in Arrivals :
        \/ Enter(p) \/ AwaitQueue(p) \/ Activate(p) \/ BeginWork(p)
        \/ LapseSnapshot(p) \/ TimeOut(p) \/ EndWork(p) \/ Disconnect(p)

Passes == BeginPass \/ PassFails \/ PassAdvances \/ PassCompletes

Events == ContractEvent \/ EventTickEnds

Shutdown ==
    Stop \/ Drain \/ DisposeAdmission \/ DisposeCheck \/ CloseDatabase \/ ForceTerminate

RuntimeNext ==
    \/ Admissions
    \/ QueuedRefresh \/ (\E ok \in BOOLEAN : CheckDone(ok))
    \/ Passes
    \/ (\E k \in Workers : WorkerEnds(k))
    \/ Events
    \/ Shutdown

(* Promise continuations and timers run; a check ends, its reads being bounded
   by the providers' timeouts.  Nothing is assumed of a request's own work or
   of a worker's. *)
RuntimeFairness ==
    /\ \A p \in Arrivals :
          /\ WF_runtimeVars(AwaitQueue(p) \/ Activate(p) \/ BeginWork(p))
          /\ WF_runtimeVars(LapseSnapshot(p) \/ TimeOut(p))
    /\ WF_runtimeVars(QueuedRefresh \/ \E ok \in BOOLEAN : CheckDone(ok))
    /\ WF_runtimeVars(Drain \/ DisposeAdmission \/ DisposeCheck \/ CloseDatabase \/ ForceTerminate)

RuntimeSpec == RuntimeInit /\ [][RuntimeNext]_runtimeVars /\ RuntimeFairness

-----------------------------------------------------------------------------
RuntimeTypeOK ==
    /\ req \in [Arrivals -> Request]
    /\ {admission, activeAdmission} \subseteq 0 .. MaxRequests
    /\ pass \in Pass
    /\ shutdown \in Stages
    /\ busy \subseteq Workers
    /\ {watching, eventTick} \subseteq BOOLEAN

(* However long an admission overruns its snapshot, no two requests can hold a
   current admission at once, so no two pass assertCurrent on one inventory. *)
OneCurrentAdmission == Cardinality({p \in Arrivals : Current(p)}) <= 1

(* An orderly shutdown closes the database only when no pass, no submission or
   proceeds worker and no connected request can still write to it, whatever
   start-up, admission or request was under way when the signal came.  The tick
   a contract event prompted is no part of it: see the next property. *)
DatabaseOutlivesTheDrained ==
    ~database => pass = AtRest /\ busy = {} /\ ServerFinished

(* What docs/runbook.md promises of a graceful termination, that it drains the
   work the process owns: nothing that uses the database outlives it.  The tick
   a contract event prompted does. *)
DatabaseOutlivesItsUsers == DatabaseOutlivesTheDrained /\ (~database => ~eventTick)

(* A request that queued for admission gets its answer or its turn, even when
   the ones before it never return, unless the process is terminated. *)
AdmissionQueueMoves ==
    \A p \in Arrivals :
        (req[p].step = "previous") ~> (req[p].step \in {"work", "done"} \/ shutdown = "terminated")
=============================================================================
