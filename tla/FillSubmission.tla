--------------------------- MODULE FillSubmission ---------------------------
(***************************************************************************)
(* A fill from its binding to its settlement.                              *)
(*                                                                         *)
(* POST /v1/fills binds a receive quote to a fill row and a locking        *)
(* advance, signs the Taxi's inputs and submits the graph once.  The       *)
(* request handler holds a lease on the row while it signs and waits for   *)
(* the provider; three other actors work on the same rows: the expiry run  *)
(* by status reads, the fill reconciler (which reads rows, awaits the      *)
(* indexer and writes afterwards) and the lockup reconciler with its spend *)
(* watcher.  The process may die at any await; the transaction it handed   *)
(* to the provider may land later all the same.                            *)
(*                                                                         *)
(* One advance per fill, so both are indexed by the fill.  A lease token   *)
(* is drawn once per fill, so the row's token is only null or not null.    *)
(***************************************************************************)
EXTENDS Integers

CONSTANTS
    Fills,         \* fills, each with the receive quote and the advance it binds
    LeaseSeconds,  \* deps.leaseSeconds
    QuoteTtl,      \* longest time from the binding clock to the fill's deadline
    MaxTime,       \* bound: last second of the clock
    MaxRestarts    \* bound: crashes of the process

ASSUME BoundsAssumption ==
    /\ LeaseSeconds \in Nat \ {0}
    /\ QuoteTtl \in Nat \ {0}
    /\ MaxTime \in Nat
    /\ MaxRestarts \in Nat

Terminal == {"recycled", "purchased", "refunded", "recovered"}
FillStates == {"none", "submitting", "settled", "cancelled", "expired"}
AdvanceStates == {"none", "locking", "locked", "recovering", "expired"} \cup Terminal

\* What the two getVtxos reads of a pass tell about a fill: every taxi input
\* spent by its own transaction and the outputs indexed; only part of that; a
\* spend by another transaction; nothing; evidence that is not conclusive.
Views == {"own", "partial", "conflict", "none", "odd"}

FillRows == [state : FillStates, invoked : BOOLEAN, token : BOOLEAN, leaseUntil : Nat,
             nextAttempt : Nat, updatedAt : Nat, expiresAt : Nat]
NoRow == [state |-> "none", invoked |-> FALSE, token |-> FALSE, leaseUntil |-> 0,
          nextAttempt |-> 0, updatedAt |-> 0, expiresAt |-> 0]
Absent == [phase |-> "absent"]
Visits == [phase : {"listed", "observed"}, row : FillRows, view : Views]

VARIABLES
    now,        \* wall clock in seconds
    fill,       \* fills rows; a null lease_until or next_attempt_at is 0
    advance,    \* advances.state
    outpoint,   \* advances.ark_txid and outpoint: none, lockup or renewed
    reserved,   \* fills whose advance has operator_input_reservations rows
    handler,    \* request: none, signing, submitting; its clock is the row's createdAt
    startedAt,  \* the clock createFill read before its awaits
    tx,         \* the fill transaction: unsent, handed (to the provider), landed
    conflict,   \* fills of which an input was spent by another transaction
    covenant,   \* the covenant output: absent, unspent, spent, renewed, renewedSpent
    ticking,    \* a reconciler tick is under way
    visit,      \* its rows as read, and the evidence collected
    unexpected, observed,   \* the reconciler's in-memory sets
    restarts

rowVars == <<fill, advance, outpoint, reserved>>
handlerVars == <<handler, startedAt>>
chainVars == <<tx, conflict, covenant>>
passVars == <<ticking, visit, unexpected, observed>>
vars == <<now, rowVars, handlerVars, chainVars, passVars, restarts>>

Init ==
    /\ now = 1
    /\ fill = [f \in Fills |-> NoRow]
    /\ advance = [f \in Fills |-> "none"]
    /\ outpoint = [f \in Fills |-> "none"]
    /\ reserved = {}
    /\ handler = [f \in Fills |-> "none"]
    /\ startedAt = [f \in Fills |-> 0]
    /\ tx = [f \in Fills |-> "unsent"]
    /\ conflict = {}
    /\ covenant = [f \in Fills |-> "absent"]
    /\ ticking = FALSE
    /\ visit = [f \in Fills |-> Absent]
    /\ unexpected = {} /\ observed = {}
    /\ restarts = 0

-----------------------------------------------------------------------------
(* The fills repository. *)

Later(a, b) == IF a < b THEN b ELSE a
Touch(row, at) == [row EXCEPT !.updatedAt = Later(@, at)]

\* Mutant: the retry time is moved back instead of cleared.
MutClose(row, state, at) ==
    [Touch(row, at) EXCEPT !.state = state, !.token = FALSE, !.leaseUntil = 0,
                           !.nextAttempt = at - LeaseSeconds - MaxTime]

\* The columns every terminal update of a row clears.
Close(row, state, at) ==
    [Touch(row, at) EXCEPT !.state = state, !.token = FALSE, !.leaseUntil = 0,
                           !.nextAttempt = 0]

LeaseLapsed(row) == row.leaseUntil <= now

\* WHERE state = 'submitting' AND lease_token = ?, for the request's token.
HoldsLease(f) == fill[f].state = "submitting" /\ fill[f].token

\* Mutant: the advance keeps locking and its coins stay.
MutCancelLiability(f) ==
    /\ advance[f] = "locking"
    /\ UNCHANGED <<advance, reserved, outpoint>>

\* #cancelLiability throws, and rolls back, unless the advance is locking.
CancelLiability(f) ==
    /\ advance[f] = "locking"
    /\ advance' = [advance EXCEPT ![f] = "expired"]
    /\ reserved' = reserved \ {f}
    /\ UNCHANGED outpoint

\* #lockLiability accepts a locking advance, or one already seen at the outpoint
\* of the fill; anything else throws.
Lockable(f) ==
    \/ advance[f] = "locking"
    \/ advance[f] \in {"locked", "recovering"} \cup Terminal /\ outpoint[f] = "lockup"

LockLiability(f) ==
    /\ Lockable(f)
    /\ advance' = [advance EXCEPT ![f] = IF @ = "locking" THEN "locked" ELSE @]
    /\ outpoint' = [outpoint EXCEPT ![f] = IF advance[f] = "locking" THEN "lockup" ELSE @]
    /\ UNCHANGED reserved

-----------------------------------------------------------------------------
(* The request handler. *)

\* createFill after its awaits: bindFill with the clock read before them, then
\* signAndSubmit up to the signer's first await.
BindFill(f, at, ttl) ==
    /\ fill[f].state = "none"
    /\ at + LeaseSeconds <= MaxTime /\ at + ttl <= MaxTime
    /\ fill' = [fill EXCEPT ![f] =
                   [state |-> "submitting", invoked |-> FALSE, token |-> TRUE,
                    leaseUntil |-> at + LeaseSeconds, nextAttempt |-> 0,
                    updatedAt |-> at, expiresAt |-> at + ttl]]
    /\ advance' = [advance EXCEPT ![f] = "locking"]
    /\ reserved' = reserved \cup {f}
    /\ handler' = [handler EXCEPT ![f] = "signing"]
    /\ startedAt' = [startedAt EXCEPT ![f] = at]
    /\ UNCHANGED <<now, outpoint, chainVars, passVars, restarts>>

\* recordSigningFailure: nothing happens once the lease or the row is gone.
RecordSigningFailure(f) ==
    IF HoldsLease(f) /\ ~fill[f].invoked /\ advance[f] = "locking"
    THEN fill' = [fill EXCEPT ![f] = Close(@, "cancelled", now)] /\ CancelLiability(f)
    ELSE UNCHANGED rowVars

\* failSigning: the identity or the signer refused.
FailSigning(f) ==
    /\ handler[f] = "signing"
    /\ RecordSigningFailure(f)
    /\ handler' = [handler EXCEPT ![f] = "none"]
    /\ UNCHANGED <<now, startedAt, chainVars, passVars, restarts>>

\* atSubmit: the clock is read again, with nothing awaited before the submission.
LapsedAtSubmit(f) == fill[f].expiresAt <= now

\* recordPrepared or recordSubmitInvoked finds the lease gone: not submitted.
LoseLease(f) ==
    /\ handler[f] = "signing" /\ ~HoldsLease(f)
    /\ handler' = [handler EXCEPT ![f] = "none"]
    /\ UNCHANGED <<now, startedAt, rowVars, chainVars, passVars, restarts>>

\* The signatures are in, and the deadline has passed: refused, not submitted.
RefuseLapsed(f) ==
    /\ handler[f] = "signing" /\ HoldsLease(f) /\ LapsedAtSubmit(f)
    /\ RecordSigningFailure(f)
    /\ handler' = [handler EXCEPT ![f] = "none"]
    /\ UNCHANGED <<now, startedAt, chainVars, passVars, restarts>>

RecordSubmitInvoked(row, at) == [Touch(row, at) EXCEPT !.invoked = TRUE]

\* recordPrepared, recordSubmitInvoked and the provider call, in one stretch.
Submit(f) ==
    /\ handler[f] = "signing" /\ HoldsLease(f) /\ ~LapsedAtSubmit(f)
    /\ fill' = [fill EXCEPT ![f] = RecordSubmitInvoked(@, startedAt[f])]
    /\ tx' = [tx EXCEPT ![f] = "handed"]
    /\ handler' = [handler EXCEPT ![f] = "submitting"]
    /\ UNCHANGED <<now, startedAt, advance, outpoint, reserved, conflict, covenant,
                   passVars, restarts>>

\* recordSubmitted: the txid is written, the row keeps submitting.
RecordSubmitted(f) ==
    /\ handler[f] = "submitting" /\ tx[f] = "landed"
    /\ fill' = [fill EXCEPT ![f] = IF HoldsLease(f) THEN Touch(@, startedAt[f]) ELSE @]
    /\ handler' = [handler EXCEPT ![f] = "none"]
    /\ UNCHANGED <<now, startedAt, advance, outpoint, reserved, chainVars, passVars, restarts>>

\* The lease is given back and the next look is due after its length.
GiveBack(row, at) ==
    [Touch(row, at) EXCEPT !.token = FALSE, !.leaseUntil = 0, !.nextAttempt = at + LeaseSeconds]

\* recordAmbiguous: a lost, late or invalid answer gives the lease back.
RecordAmbiguous(f) ==
    /\ handler[f] = "submitting"
    /\ fill' = [fill EXCEPT ![f] = IF HoldsLease(f) THEN GiveBack(@, startedAt[f]) ELSE @]
    /\ handler' = [handler EXCEPT ![f] = "none"]
    /\ UNCHANGED <<now, startedAt, advance, outpoint, reserved, chainVars, passVars, restarts>>

\* Mutant: a live lease does not protect the row.
MutStale(f) ==
    fill[f].state = "submitting" /\ ~fill[f].invoked /\ fill[f].expiresAt <= now

\* The rows FillRepository.expire selects.
Stale(f) ==
    /\ fill[f].state = "submitting" /\ ~fill[f].invoked
    /\ fill[f].expiresAt <= now /\ LeaseLapsed(fill[f])

\* getFill and createFill expire what is stale.
ExpireFill(f) ==
    /\ Stale(f)
    /\ CancelLiability(f)
    /\ fill' = [fill EXCEPT ![f] = Close(@, "expired", now)]
    /\ UNCHANGED <<now, handlerVars, chainVars, passVars, restarts>>

-----------------------------------------------------------------------------
(* The fill reconciler: read rows, await the indexer, write. *)

\* Mutant: only submitted fills are followed up.
MutCandidate(f) ==
    /\ fill[f].state = "submitting" /\ fill[f].invoked
    /\ LeaseLapsed(fill[f]) /\ fill[f].nextAttempt <= now

\* reconcileCandidates.
Candidate(f) ==
    /\ fill[f].state = "submitting"
    /\ LeaseLapsed(fill[f]) /\ fill[f].nextAttempt <= now

\* tick: the candidates are read together; one tick runs at a time.
StartTick ==
    /\ ~ticking
    /\ ticking' = TRUE
    /\ visit' = [f \in Fills |->
                    IF Candidate(f)
                    THEN [phase |-> "listed", row |-> fill[f], view |-> "none"]
                    ELSE Absent]
    /\ UNCHANGED <<now, rowVars, handlerVars, chainVars, unexpected, observed, restarts>>

\* The end of the tick forgets the fills that are no longer submitting.
EndTick ==
    /\ ticking /\ \A f \in Fills : visit[f] = Absent
    /\ ticking' = FALSE
    /\ unexpected' = {f \in unexpected : fill[f].state = "submitting"}
    /\ observed' = {f \in observed : fill[f].state = "submitting"}
    /\ UNCHANGED <<now, rowVars, handlerVars, chainVars, visit, restarts>>

\* The indexer may lag behind the chain; it does not invent spends.
Shows(f, view) ==
    \/ view \in {"none", "odd"}
    \/ view \in {"own", "partial"} /\ tx[f] = "landed"
    \/ view = "conflict" /\ f \in conflict

Observe(f, view) ==
    /\ visit[f] # Absent /\ visit[f].phase = "listed" /\ Shows(f, view)
    /\ visit' = [visit EXCEPT ![f].phase = "observed", ![f].view = view]
    /\ observed' = observed \ {f}
    /\ UNCHANGED <<now, rowVars, handlerVars, chainVars, ticking, unexpected, restarts>>

\* A getVtxos call rejects or answers no list: the visit ends with nothing written.
MissEvidence(f) ==
    /\ visit[f] # Absent /\ visit[f].phase = "listed"
    /\ visit' = [visit EXCEPT ![f] = Absent]
    /\ observed' = observed \ {f}
    /\ UNCHANGED <<now, rowVars, handlerVars, chainVars, ticking, unexpected, restarts>>

\* Mutant: the row read before the awaits is trusted.
MutMatches(row, f) == fill[f].state = "submitting"

\* #matches: the row is still the one that was read, and nobody holds it.
Matches(row, f) ==
    /\ fill[f].state = "submitting"
    /\ fill[f].invoked = row.invoked /\ fill[f].token = row.token
    /\ fill[f].leaseUntil = row.leaseUntil /\ fill[f].updatedAt = row.updatedAt
    /\ LeaseLapsed(fill[f])

EndVisit(f) == visit' = [visit EXCEPT ![f] = Absent]

\* fill_unexpected_spend: evidence that fits no outcome keeps readiness down.
FlagUnexpected(f) ==
    /\ visit[f] # Absent /\ visit[f].phase = "observed"
    /\ \/ visit[f].view = "odd"
       \/ ~visit[f].row.invoked /\ visit[f].view \in {"own", "partial"}
    /\ unexpected' = unexpected \cup {f}
    /\ EndVisit(f)
    /\ UNCHANGED <<now, rowVars, handlerVars, chainVars, ticking, observed, restarts>>

\* Mutant: an unseen spend is taken for a transaction that is not there.
MutGivesUp(v) == v.view \in {"none", "conflict"}

\* Never submitted and no own spend, or an input spent by another transaction.
GivesUp(v) ==
    \/ ~v.row.invoked /\ v.view \in {"none", "conflict"}
    \/ v.view = "conflict"

\* reconcileCancelled.
ReconcileCancelled(f) ==
    /\ visit[f] # Absent /\ visit[f].phase = "observed" /\ GivesUp(visit[f])
    /\ IF Matches(visit[f].row, f) /\ advance[f] = "locking"
       THEN fill' = [fill EXCEPT ![f] = Close(@, "cancelled", now)] /\ CancelLiability(f)
       ELSE UNCHANGED rowVars
    /\ EndVisit(f)
    /\ UNCHANGED <<now, handlerVars, chainVars, ticking, unexpected, observed, restarts>>

\* Submitted and not spent against: remember whether the evidence was complete.
KeepWaiting(f, complete) ==
    /\ visit[f] # Absent /\ visit[f].phase = "observed"
    /\ visit[f].row.invoked /\ visit[f].view \in {"none", "partial"}
    /\ observed' = IF complete THEN observed \cup {f} ELSE observed
    /\ EndVisit(f)
    /\ UNCHANGED <<now, rowVars, handlerVars, chainVars, ticking, unexpected, restarts>>

\* reconcileSettled, when it commits; the row was seen submitted and landed.
ReconcileSettled(f) ==
    /\ visit[f] # Absent /\ visit[f].phase = "observed"
    /\ visit[f].row.invoked /\ visit[f].view = "own"
    /\ Matches(visit[f].row, f)
    /\ LockLiability(f)
    /\ fill' = [fill EXCEPT ![f] = Close(@, "settled", now)]
    /\ EndVisit(f)
    /\ UNCHANGED <<now, handlerVars, chainVars, ticking, unexpected, observed, restarts>>

\* reconcileSettled returns false or throws: the tick swallows it and goes on.
FailToSettle(f, complete) ==
    /\ visit[f] # Absent /\ visit[f].phase = "observed"
    /\ visit[f].row.invoked /\ visit[f].view = "own"
    /\ ~(Matches(visit[f].row, f) /\ Lockable(f))
    /\ observed' = IF complete THEN observed \cup {f} ELSE observed
    /\ EndVisit(f)
    /\ UNCHANGED <<now, rowVars, handlerVars, chainVars, ticking, unexpected, restarts>>

-----------------------------------------------------------------------------
(* The lockup reconciler, the spend watcher and the sweeper. *)

\* recordLockupObserved: only a covenant output that is still unspent counts.
ObserveLockup(f) ==
    /\ advance[f] = "locking" /\ covenant[f] = "unspent"
    /\ advance' = [advance EXCEPT ![f] = "locked"]
    /\ outpoint' = [outpoint EXCEPT ![f] = "lockup"]
    /\ UNCHANGED <<now, fill, reserved, handlerVars, chainVars, passVars, restarts>>

\* recordCovenantRenewed adopts the successor of a locked row only.
AdoptRenewal(f) ==
    /\ advance[f] = "locked" /\ outpoint[f] = "lockup" /\ covenant[f] = "renewed"
    /\ outpoint' = [outpoint EXCEPT ![f] = "renewed"]
    /\ UNCHANGED <<now, fill, advance, reserved, handlerVars, chainVars, passVars, restarts>>

\* claimRecoveryLease or recordRecoveryPreparationFailure.
BeginRecovery(f) ==
    /\ advance[f] = "locked"
    /\ advance' = [advance EXCEPT ![f] = "recovering"]
    /\ UNCHANGED <<now, fill, outpoint, reserved, handlerVars, chainVars, passVars, restarts>>

\* The watcher scans locking rows too, at the outpoint of the persisted graph,
\* and recordSpendObservation leaves ark_txid and outpoint as they are.  The
\* spend of a renewed covenant is never classified: covenantFacts accepts the
\* output of the lockup transaction only.
ObserveSpend(f, terminal) ==
    /\ covenant[f] = "spent" /\ advance[f] \in {"locking", "locked", "recovering"}
    /\ advance' = [advance EXCEPT ![f] = terminal]
    /\ reserved' = reserved \ {f}
    /\ UNCHANGED <<now, fill, outpoint, handlerVars, chainVars, passVars, restarts>>

-----------------------------------------------------------------------------
(* Environment: the provider, the chain, the clock, crashes. *)

\* The provider accepts what it was handed, however late; all inputs are free.
Land(f) ==
    /\ tx[f] = "handed" /\ f \notin conflict
    /\ tx' = [tx EXCEPT ![f] = "landed"]
    /\ covenant' = [covenant EXCEPT ![f] = "unspent"]
    /\ UNCHANGED <<now, rowVars, handlerVars, conflict, passVars, restarts>>

\* Another transaction spends one of the fill's inputs first.
SpendInput(f) ==
    /\ fill[f].state # "none" /\ tx[f] # "landed" /\ f \notin conflict
    /\ conflict' = conflict \cup {f}
    /\ UNCHANGED <<now, rowVars, handlerVars, tx, covenant, passVars, restarts>>

\* The receiver delegates the covenant into the next batch, or spends it.
RenewCovenant(f) ==
    /\ covenant[f] = "unspent"
    /\ covenant' = [covenant EXCEPT ![f] = "renewed"]
    /\ UNCHANGED <<now, rowVars, handlerVars, tx, conflict, passVars, restarts>>

SpendCovenant(f) ==
    /\ covenant[f] \in {"unspent", "renewed"}
    /\ covenant' = [covenant EXCEPT ![f] = IF @ = "unspent" THEN "spent" ELSE "renewedSpent"]
    /\ UNCHANGED <<now, rowVars, handlerVars, tx, conflict, passVars, restarts>>

Tick ==
    /\ now < MaxTime
    /\ now' = now + 1
    /\ UNCHANGED <<rowVars, handlerVars, chainVars, passVars, restarts>>

\* The process dies: requests and the reconciler's memory are gone.
Restart ==
    /\ restarts < MaxRestarts
    /\ restarts' = restarts + 1
    /\ handler' = [f \in Fills |-> "none"]
    /\ ticking' = FALSE
    /\ visit' = [f \in Fills |-> Absent]
    /\ unexpected' = {} /\ observed' = {}
    /\ UNCHANGED <<now, rowVars, startedAt, chainVars>>

-----------------------------------------------------------------------------
HandlerNext ==
    \E f \in Fills :
        \/ \E at \in 1 .. now, ttl \in 1 .. QuoteTtl : BindFill(f, at, ttl)
        \/ FailSigning(f) \/ LoseLease(f) \/ RefuseLapsed(f) \/ Submit(f)
        \/ RecordSubmitted(f) \/ RecordAmbiguous(f)
        \/ ExpireFill(f)

PassNext ==
    \/ StartTick \/ EndTick
    \/ \E f \in Fills :
        \/ \E view \in Views : Observe(f, view)
        \/ MissEvidence(f) \/ FlagUnexpected(f) \/ ReconcileCancelled(f)
        \/ \E complete \in BOOLEAN : KeepWaiting(f, complete)
        \/ ReconcileSettled(f)
        \/ \E complete \in BOOLEAN : FailToSettle(f, complete)

WatchNext ==
    \E f \in Fills :
        \/ ObserveLockup(f) \/ AdoptRenewal(f) \/ BeginRecovery(f)
        \/ \E terminal \in Terminal : ObserveSpend(f, terminal)

ChainNext ==
    \E f \in Fills : Land(f) \/ SpendInput(f) \/ RenewCovenant(f) \/ SpendCovenant(f)

Next == HandlerNext \/ PassNext \/ WatchNext \/ ChainNext \/ Tick \/ Restart

Spec == Init /\ [][Next]_vars

\* The operational tick repeats, each visit ends, the clock advances, and an
\* indexer that keeps being asked eventually shows what the chain holds.
LiveSpec ==
    /\ Spec
    /\ WF_vars(Tick) /\ SF_vars(StartTick) /\ WF_vars(EndTick)
    /\ \A f \in Fills :
        /\ WF_vars(MissEvidence(f) \/ \E view \in Views : Observe(f, view))
        /\ SF_vars(Observe(f, "own"))
        /\ SF_vars(Observe(f, "conflict"))
        /\ SF_vars(fill[f].invoked = FALSE /\ Observe(f, "none"))
        /\ WF_vars(FlagUnexpected(f) \/ ReconcileCancelled(f) \/ ReconcileSettled(f)
                   \/ \E complete \in BOOLEAN : KeepWaiting(f, complete)
                                               \/ FailToSettle(f, complete))
        /\ WF_vars(LoseLease(f) \/ RefuseLapsed(f) \/ FailSigning(f) \/ Submit(f))
        /\ WF_vars(RecordAmbiguous(f) \/ RecordSubmitted(f))

-----------------------------------------------------------------------------
(* Properties. *)

\* Every variable keeps the shape of its column, in-memory set or pass.
TypeOK ==
    /\ now \in Nat /\ restarts \in Nat
    /\ fill \in [Fills -> FillRows]
    /\ advance \in [Fills -> AdvanceStates]
    /\ outpoint \in [Fills -> {"none", "lockup", "renewed"}]
    /\ reserved \in SUBSET Fills
    /\ handler \in [Fills -> {"none", "signing", "submitting"}]
    /\ startedAt \in [Fills -> Nat]
    /\ tx \in [Fills -> {"unsent", "handed", "landed"}]
    /\ conflict \in SUBSET Fills
    /\ covenant \in [Fills -> {"absent", "unspent", "spent", "renewed", "renewedSpent"}]
    /\ visit \in [Fills -> Visits \cup {Absent}]
    /\ ticking \in BOOLEAN
    /\ unexpected \in SUBSET Fills /\ observed \in SUBSET Fills

Abandoned(f) == fill[f].state \in {"cancelled", "expired"}

\* A fill that was cancelled or expired never lands: no interleaving of the
\* request, the expiry, the reconciler and a crash gives up a graph the
\* provider can still accept, so no loan is on chain without a liability row.
AbandonedFillCannotLand ==
    \A f \in Fills : Abandoned(f) => tx[f] # "landed" /\ (tx[f] = "handed" => f \in conflict)

\* While the provider may still accept the graph, and while its covenant is
\* unspent, the operator's coins stay reserved for it.
ReservedWhileItMayLand ==
    \A f \in Fills :
        (tx[f] = "handed" /\ f \notin conflict) \/ covenant[f] \in {"unspent", "renewed"}
            => f \in reserved

\* A row says settled only of a transaction that landed, and then its advance
\* is anchored: it carries the outpoint of the covenant.
SettledIsAnchored ==
    \A f \in Fills :
        fill[f].state = "settled" =>
            /\ tx[f] = "landed" /\ outpoint[f] # "none"
            /\ advance[f] \in {"locked", "recovering"} \cup Terminal

\* The fill, its advance and its reservation move together.
LiabilityMatchesFill ==
    \A f \in Fills :
        /\ (advance[f] = "expired") = Abandoned(f)
        /\ (advance[f] = "none") = (fill[f].state = "none")
        /\ (f \in reserved) = (advance[f] \in {"locking", "locked", "recovering"})
        /\ advance[f] \in {"locked", "recovering"} \cup Terminal => tx[f] = "landed"

\* The graph reaches the provider strictly before the deadline the caller was
\* given, whatever was awaited since the request read its clock.
SubmitBeforeDeadline ==
    [][\A f \in Fills : tx[f] = "unsent" /\ tx'[f] = "handed" => now < fill[f].expiresAt]_vars

\* Nobody but the request itself ends a fill while the request holds its lease.
LeaseProtectsRequest ==
    [][\A f \in Fills :
          fill[f].state = "submitting" /\ fill'[f].state # "submitting"
             /\ handler[f] # "none" /\ handler'[f] = handler[f]
             => fill[f].leaseUntil <= now]_vars

\* isQuarantined: the fills readiness may overlook.
Quarantined(f) ==
    /\ fill[f].state = "submitting" /\ advance[f] = "locking"
    /\ f \in observed /\ f \notin unexpected

\* Readiness overlooks an unresolved fill only when its graph was handed over
\* and its coins are still reserved.
QuarantineIsAccounted ==
    \A f \in Fills : Quarantined(f) => fill[f].invoked /\ f \in reserved

\* The fill, its advance, its reservation and its transaction tell one story in
\* every order of answers, observations and restarts.
FillIsAccounted == SettledIsAnchored /\ LiabilityMatchesFill /\ QuarantineIsAccounted

\* A request in progress is neither overtaken by its deadline nor by the
\* reconciler, whatever it awaits.
RequestIsProtected == SubmitBeforeDeadline /\ LeaseProtectsRequest

\* The covenant was spent before the lockup was observed, or renewed before the
\* fill was settled: the outpoint the settlement compares is not in the row.
Overtaken(f) ==
    \/ advance[f] \in Terminal /\ outpoint[f] # "lockup"
    \/ covenant[f] \in {"renewed", "renewedSpent"}

\* A fill ends: one that was never submitted gives its coins back, one whose
\* input was spent elsewhere is cancelled, one that landed is settled unless it
\* was overtaken; crashes and lost answers included.
FillEnds ==
    \A f \in Fills :
        /\ (fill[f].state = "submitting" /\ ~fill[f].invoked)
               ~> (fill[f].state # "submitting" \/ fill[f].invoked)
        /\ (fill[f].state = "submitting" /\ f \in conflict) ~> fill[f].state # "submitting"
        /\ (fill[f].state = "submitting" /\ tx[f] = "landed")
               ~> (fill[f].state = "settled" \/ Overtaken(f))

-----------------------------------------------------------------------------
(* What the repository's documentation says and the code does not do. *)

\* fills-js.md: polling fillStatus observes settlement.
LandedFillSettles ==
    \A f \in Fills :
        (fill[f].state = "submitting" /\ tx[f] = "landed") ~> fill[f].state = "settled"
=============================================================================
