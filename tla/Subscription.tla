---------------------------- MODULE Subscription ----------------------------
(***************************************************************************)
(* How the spend watcher keeps the scripts of live covenants registered    *)
(* with the wallet's contract manager, which other code registers scripts  *)
(* with too.  Every scan ends in a request to synchronise; one sync runs   *)
(* at a time, reads the wallet and the rows once, and awaits the manager   *)
(* five times over, while rows change, the runtime replaces its wallet,    *)
(* and the watcher is stopped and started.                                 *)
(***************************************************************************)
EXTENDS Naturals

CONSTANTS
    Scripts,     \* covenant scripts
    Managers,    \* wallets the runtime has in turn, each with its manager
    Foreign,     \* registrations of other code: pairs of a manager and a script
    MaxChanges,  \* bound: changes of the live rows or of the wallet
    MaxBreaks    \* bound: failing calls of a manager

ASSUME SubscriptionAssumption ==
    Foreign \subseteq Managers \X Scripts /\ MaxChanges \in Nat /\ MaxBreaks \in Nat

VARIABLES
    live,       \* scripts of the covenants the rows say are live
    attached,   \* the runtime's wallet, or NoManager
    entries,    \* who registered each script with each manager
    started, resync,
    sync,       \* the synchronisation in progress
    binding,    \* the manager listened to, and the scripts registered there
    stop,       \* the stop in progress
    scanning,
    owed,       \* something changed or failed since the last scan ended
    lost,       \* managers where a detach failed
    changes, breaks

subscriptionVars == <<live, attached, entries, started, resync, sync, binding, stop,
                      scanning, owed, lost, changes, breaks>>

NoManager == "none"
NoBinding == [manager |-> NoManager, owned |-> {}]

(* A call in progress: the wallet it read, the manager it talks to, scripts *)
(* to register or let go, those found there, and whether the watcher was    *)
(* neither stopped nor started since it began.                              *)
NoSync == [step |-> "idle", wallet |-> NoManager, from |-> NoManager, scripts |-> {}, found |-> {},
         current |-> TRUE]
NoStop == [step |-> "idle", waits |-> FALSE, from |-> NoManager, scripts |-> {}, found |-> {}]

SubscriptionInit ==
    /\ live = {} /\ attached \in Managers
    /\ entries = [m \in Managers |-> [s \in Scripts |->
                     IF <<m, s>> \in Foreign THEN "other" ELSE "none"]]
    /\ started = FALSE /\ resync = FALSE /\ sync = NoSync
    /\ binding = NoBinding /\ stop = NoStop /\ scanning = FALSE
    /\ owed = FALSE /\ lost = {} /\ changes = 0 /\ breaks = 0

Registered(m) == {s \in Scripts : entries[m][s] # "none"}
Mine(m) == {s \in Scripts : entries[m][s] = "mine"}
Enter(m, scripts, who) ==
    entries' = [entries EXCEPT ![m] = [s \in Scripts |-> IF s \in scripts THEN who ELSE @[s]]]

-----------------------------------------------------------------------------
(* Asking for a sync.                                                       *)

MutRunsAgain == FALSE

(* requestSync: a sync that is running is followed by another.              *)
RunsAgain == sync # NoSync

RequestSync ==
    IF ~started THEN UNCHANGED <<sync, resync>>
    ELSE /\ resync' = RunsAgain
         /\ sync' = IF sync = NoSync THEN [NoSync EXCEPT !.step = "begin"] ELSE sync

EndSync ==
    IF resync /\ started THEN sync' = [NoSync EXCEPT !.step = "begin"] /\ resync' = FALSE
    ELSE sync' = NoSync /\ UNCHANGED resync

(* catchUp: a scan, prompted by the loop, a caller or an event of the       *)
(* manager.                                                                 *)
StartScan ==
    /\ ~scanning /\ scanning' = TRUE
    /\ UNCHANGED <<live, attached, entries, started, resync, sync, binding, stop, owed, lost,
                   changes, breaks>>

EndScan ==
    /\ scanning /\ scanning' = FALSE
    /\ RequestSync
    /\ owed' = (owed /\ ~started)
    /\ UNCHANGED <<live, attached, entries, started, binding, stop, lost, changes, breaks>>

-----------------------------------------------------------------------------
(* One synchronisation: syncSubscriptions.                                  *)

Standing == started /\ sync.current
Fresh == Standing /\ attached = sync.wallet

(* The live rows are read, and what is registered is asked for.             *)
ReadRows == [sync EXCEPT !.step = "list", !.scripts = live]

(* The wallet before is let go: go on with the one read at the start.       *)
Bind(wallet) ==
    IF wallet = NoManager \/ ~Standing THEN EndSync
    ELSE /\ sync' = IF binding = NoBinding THEN [sync EXCEPT !.step = "manager", !.wallet = wallet]
                    ELSE [ReadRows EXCEPT !.wallet = wallet, !.from = wallet]
         /\ UNCHANGED resync

SyncBegin ==
    /\ sync.step = "begin"
    /\ IF started /\ binding # NoBinding /\ binding.manager # attached
       THEN /\ sync' = [sync EXCEPT !.step = "detach", !.wallet = attached,
                                    !.from = binding.manager, !.scripts = binding.owned]
            /\ binding' = NoBinding
            /\ UNCHANGED resync
       ELSE Bind(attached) /\ UNCHANGED binding
    /\ UNCHANGED <<live, attached, entries, started, stop, scanning, owed, lost, changes, breaks>>

(* detach and removeOwned: of the scripts this watcher registered, those    *)
(* still under its label.                                                   *)
SyncDetach ==
    /\ sync.step = "detach"
    /\ sync' = [sync EXCEPT !.step = "drop", !.found = sync.scripts \cap Mine(sync.from)]
    /\ UNCHANGED <<live, attached, entries, started, resync, binding, stop, scanning, owed, lost,
                   changes, breaks>>

SyncDrop ==
    /\ sync.step = "drop"
    /\ Enter(sync.from, sync.found, "none")
    /\ Bind(sync.wallet)
    /\ UNCHANGED <<live, attached, started, binding, stop, scanning, owed, lost, changes, breaks>>

(* The manager is there: it is listened to.                                 *)
SyncManager ==
    /\ sync.step = "manager"
    /\ IF Fresh
       THEN /\ binding' = [NoBinding EXCEPT !.manager = sync.wallet]
            /\ sync' = [ReadRows EXCEPT !.from = sync.wallet]
            /\ UNCHANGED resync
       ELSE EndSync /\ UNCHANGED binding
    /\ UNCHANGED <<live, attached, entries, started, stop, scanning, owed, lost, changes, breaks>>

(* Only what nobody registered is registered, and owned before it is.       *)
SyncList ==
    /\ sync.step = "list"
    /\ IF Fresh
       THEN LET additions == sync.scripts \ Registered(sync.from) IN
            /\ binding' = [binding EXCEPT !.owned = @ \cup additions]
            /\ sync' = [sync EXCEPT !.step = "watch", !.found = additions]
            /\ UNCHANGED resync
       ELSE EndSync /\ UNCHANGED binding
    /\ UNCHANGED <<live, attached, entries, started, stop, scanning, owed, lost, changes, breaks>>

SyncWatch ==
    /\ sync.step = "watch"
    /\ Enter(sync.from, sync.found, "mine")
    /\ IF Fresh
       THEN /\ sync' = [sync EXCEPT !.step = "trim", !.scripts = binding.owned \ @]
            /\ UNCHANGED resync
       ELSE EndSync
    /\ UNCHANGED <<live, attached, started, binding, stop, scanning, owed, lost, changes, breaks>>

SyncTrim ==
    /\ sync.step = "trim"
    /\ sync' = [sync EXCEPT !.step = "unwatch", !.found = sync.scripts \cap Mine(sync.from)]
    /\ UNCHANGED <<live, attached, entries, started, resync, binding, stop, scanning, owed, lost,
                   changes, breaks>>

SyncUnwatch ==
    /\ sync.step = "unwatch"
    /\ Enter(sync.from, sync.found, "none")
    /\ binding' = [binding EXCEPT !.owned = @ \ sync.scripts]
    /\ EndSync
    /\ UNCHANGED <<live, attached, started, stop, scanning, owed, lost, changes, breaks>>

(* A call of the manager throws, done or not; the next scan tries again.    *)
SyncFails ==
    /\ sync.step \notin {"idle", "begin"} /\ breaks < MaxBreaks
    /\ \/ sync.step = "watch" /\ Enter(sync.from, sync.found, "mine")
       \/ sync.step \in {"drop", "unwatch"} /\ Enter(sync.from, sync.found, "none")
       \/ UNCHANGED entries
    /\ EndSync
    /\ owed' = TRUE
    /\ lost' = IF sync.step \in {"detach", "drop"} THEN lost \cup {sync.from} ELSE lost
    /\ breaks' = breaks + 1
    /\ UNCHANGED <<live, attached, started, binding, stop, scanning, changes>>

-----------------------------------------------------------------------------
(* start and stop.                                                          *)

(* Either makes the sync in progress an old one.                            *)
Outdated == sync' = IF sync = NoSync THEN NoSync ELSE [sync EXCEPT !.current = FALSE]

StartWatcher ==
    /\ ~started /\ stop = NoStop
    /\ started' = TRUE /\ scanning' = TRUE /\ owed' = TRUE
    /\ Outdated
    /\ UNCHANGED <<live, attached, entries, resync, binding, stop, lost, changes, breaks>>

(* stop waits for a sync that has a binding, which may be adding scripts.   *)
AwaitsSync == binding # NoBinding /\ sync # NoSync

StopWatcher ==
    /\ started /\ stop = NoStop
    /\ started' = FALSE
    /\ stop' = [NoStop EXCEPT !.step = "settle", !.waits = AwaitsSync]
    /\ Outdated
    /\ UNCHANGED <<live, attached, entries, resync, binding, scanning, owed, lost, changes, breaks>>

StopSettled ==
    /\ stop.step = "settle" /\ ~scanning /\ (stop.waits => sync = NoSync)
    /\ stop' = IF binding = NoBinding THEN NoStop
               ELSE [stop EXCEPT !.step = "detach", !.from = binding.manager,
                                 !.scripts = binding.owned]
    /\ binding' = NoBinding
    /\ UNCHANGED <<live, attached, entries, started, resync, sync, scanning, owed, lost, changes,
                   breaks>>

StopDetach ==
    /\ stop.step = "detach"
    /\ stop' = [stop EXCEPT !.step = "drop", !.found = stop.scripts \cap Mine(stop.from)]
    /\ UNCHANGED <<live, attached, entries, started, resync, sync, binding, scanning, owed, lost,
                   changes, breaks>>

StopDrop ==
    /\ stop.step = "drop"
    /\ Enter(stop.from, stop.found, "none")
    /\ stop' = NoStop
    /\ UNCHANGED <<live, attached, started, resync, sync, binding, scanning, owed, lost, changes,
                   breaks>>

StopFails ==
    /\ stop.step \in {"detach", "drop"} /\ breaks < MaxBreaks
    /\ stop' = NoStop /\ lost' = lost \cup {stop.from} /\ breaks' = breaks + 1
    /\ UNCHANGED <<live, attached, entries, started, resync, sync, binding, scanning, owed, changes>>

-----------------------------------------------------------------------------
(* The rows move on, and the runtime replaces or loses its wallet.          *)

RowsMove ==
    /\ changes < MaxChanges
    /\ \E s \in Scripts : live' = IF s \in live THEN live \ {s} ELSE live \cup {s}
    /\ changes' = changes + 1 /\ owed' = TRUE
    /\ UNCHANGED <<attached, entries, started, resync, sync, binding, stop, scanning, lost, breaks>>

WalletMoves ==
    /\ changes < MaxChanges
    /\ attached' \in (Managers \cup {NoManager}) \ {attached}
    /\ changes' = changes + 1 /\ owed' = TRUE
    /\ UNCHANGED <<live, entries, started, resync, sync, binding, stop, scanning, lost, breaks>>

SubscriptionNext ==
    \/ StartScan \/ EndScan
    \/ SyncBegin \/ SyncDetach \/ SyncDrop \/ SyncManager \/ SyncList \/ SyncWatch
    \/ SyncTrim \/ SyncUnwatch \/ SyncFails
    \/ StartWatcher \/ StopWatcher \/ StopSettled \/ StopDetach \/ StopDrop \/ StopFails
    \/ RowsMove \/ WalletMoves

SubscriptionSpec == SubscriptionInit /\ [][SubscriptionNext]_subscriptionVars

-----------------------------------------------------------------------------
(* Once every sync that was asked for has run, and nothing changed or       *)
(* failed since the scan that asked, exactly the live covenants are         *)
(* registered with the runtime's wallet, beside what others registered.     *)
CurrentWhenQuiet ==
    started /\ sync = NoSync /\ ~owed /\ attached # NoManager =>
       /\ binding.manager = attached
       /\ live \subseteq Registered(attached)
       /\ attached \notin lost => Mine(attached) \subseteq live

(* A stopped watcher leaves nothing registered, whatever sync it overtook,  *)
(* unless letting go failed.                                                *)
NothingLeftBehind ==
    ~started /\ stop = NoStop /\ sync = NoSync =>
       binding = NoBinding /\ \A m \in Managers \ lost : Mine(m) = {}

OthersKeepTheirs ==
    \A m \in Managers, s \in Scripts : <<m, s>> \in Foreign <=> entries[m][s] = "other"

(* The watcher listens for exactly the covenants that are live, in the      *)
(* manager of the wallet in use, and never at the expense of other code:    *)
(* through changes of the rows and of the wallet while a sync awaits, a     *)
(* request that found one running, and a stop or a restart that overtook    *)
(* it.  (requestSync, syncSubscriptions, removeOwned, detach, stop.)        *)
WatchFollowsRows == CurrentWhenQuiet /\ NothingLeftBehind /\ OthersKeepTheirs
=============================================================================
