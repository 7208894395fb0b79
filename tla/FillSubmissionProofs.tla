------------------------ MODULE FillSubmissionProofs ------------------------
(***************************************************************************)
(* Proofs about FillSubmission for any set of fills, any lease length and  *)
(* deadline, any number of crashes.                                        *)
(***************************************************************************)
EXTENDS FillSubmission, TLAPS

-----------------------------------------------------------------------------
(* Row helpers. *)

\* Touching a row moves updatedAt only.
LEMMA TouchRow ==
    ASSUME NEW row \in FillRows, NEW at \in Nat
    PROVE  /\ Touch(row, at) \in FillRows
           /\ Touch(row, at).state = row.state
           /\ Touch(row, at).invoked = row.invoked
           /\ Touch(row, at).leaseUntil = row.leaseUntil
           /\ Touch(row, at).expiresAt = row.expiresAt
  BY DEF Touch, FillRows, Later

\* Closing a row sets its state, drops the lease and keeps the submission flag.
LEMMA CloseRow ==
    ASSUME NEW row \in FillRows, NEW at \in Nat, NEW state \in FillStates
    PROVE  /\ Close(row, state, at) \in FillRows
           /\ Close(row, state, at).state = state
           /\ Close(row, state, at).invoked = row.invoked
<1>1. Touch(row, at) \in FillRows /\ Touch(row, at).invoked = row.invoked
  BY TouchRow
<1> DEFINE t == Touch(row, at)
<1>2. t \in FillRows
  BY <1>1
<1>3. Close(row, state, at) = [t EXCEPT !.state = state, !.token = FALSE,
                                        !.leaseUntil = 0, !.nextAttempt = 0]
  BY DEF Close
<1> HIDE DEF t
<1>4. /\ [t EXCEPT !.state = state, !.token = FALSE, !.leaseUntil = 0, !.nextAttempt = 0]
            \in FillRows
      /\ [t EXCEPT !.state = state, !.token = FALSE, !.leaseUntil = 0, !.nextAttempt = 0].state
            = state
      /\ [t EXCEPT !.state = state, !.token = FALSE, !.leaseUntil = 0, !.nextAttempt = 0].invoked
            = t.invoked
  BY <1>2 DEF FillRows
<1> QED
  BY <1>1, <1>3, <1>4 DEF t

\* Recording the submission raises the flag and keeps the state.
LEMMA InvokedRow ==
    ASSUME NEW row \in FillRows, NEW at \in Nat
    PROVE  /\ RecordSubmitInvoked(row, at) \in FillRows
           /\ RecordSubmitInvoked(row, at).state = row.state
           /\ RecordSubmitInvoked(row, at).invoked = TRUE
           /\ RecordSubmitInvoked(row, at).expiresAt = row.expiresAt
<1> DEFINE t == Touch(row, at)
<1>1. t \in FillRows /\ t.state = row.state /\ t.expiresAt = row.expiresAt
  BY TouchRow
<1>2. RecordSubmitInvoked(row, at) = [t EXCEPT !.invoked = TRUE]
  BY DEF RecordSubmitInvoked
<1> HIDE DEF t
<1> QED
  BY <1>1, <1>2 DEF FillRows

\* An ambiguous answer gives the lease back and keeps state and flag.
LEMMA GivenBackRow ==
    ASSUME NEW row \in FillRows, NEW at \in Nat
    PROVE  /\ GiveBack(row, at) \in FillRows /\ GiveBack(row, at).state = row.state
           /\ GiveBack(row, at).invoked = row.invoked
<1> DEFINE t == Touch(row, at)
           next == at + LeaseSeconds
<1>1. t \in FillRows /\ t.state = row.state /\ t.invoked = row.invoked
  BY TouchRow
<1>2. next \in Nat
  BY BoundsAssumption
<1>3. GiveBack(row, at) = [t EXCEPT !.token = FALSE, !.leaseUntil = 0, !.nextAttempt = next]
  BY DEF GiveBack
<1> HIDE DEF t, next
<1>4. /\ [t EXCEPT !.token = FALSE, !.leaseUntil = 0, !.nextAttempt = next] \in FillRows
      /\ [t EXCEPT !.token = FALSE, !.leaseUntil = 0, !.nextAttempt = next].state = t.state
      /\ [t EXCEPT !.token = FALSE, !.leaseUntil = 0, !.nextAttempt = next].invoked = t.invoked
  BY <1>1, <1>2 DEF FillRows
<1> QED
  BY <1>1, <1>3, <1>4

-----------------------------------------------------------------------------
(* Type correctness. *)

\* The initial rows, sets and functions have their types.
LEMMA InitType == Init => TypeOK
<1> SUFFICES ASSUME Init PROVE TypeOK
  OBVIOUS
<1>1. NoRow \in FillRows
  BY DEF NoRow, FillRows, FillStates
<1>2. fill \in [Fills -> FillRows]
  BY <1>1 DEF Init
<1>3. visit \in [Fills -> Visits \cup {Absent}]
  BY DEF Init
<1>4. unexpected \in SUBSET Fills /\ observed \in SUBSET Fills /\ ticking \in BOOLEAN
  BY DEF Init
<1> QED
  BY <1>2, <1>3, <1>4 DEF Init, TypeOK, AdvanceStates

\* CancelLiability keeps the types of what it changes.
LEMMA CancelType ==
    ASSUME TypeOK, NEW f \in Fills, CancelLiability(f)
    PROVE  /\ advance' \in [Fills -> AdvanceStates]
           /\ reserved' \in SUBSET Fills
           /\ outpoint' = outpoint
  BY DEF CancelLiability, TypeOK, AdvanceStates

\* Closing one row keeps the type of the table.
LEMMA CloseType ==
    ASSUME TypeOK, NEW f \in Fills, NEW state \in FillStates,
           fill' = [fill EXCEPT ![f] = Close(@, state, now)]
    PROVE  fill' \in [Fills -> FillRows]
<1>1. fill[f] \in FillRows /\ now \in Nat
  BY DEF TypeOK
<1>2. Close(fill[f], state, now) \in FillRows
  BY <1>1, CloseRow
<1> QED
  BY <1>2 DEF TypeOK

\* A refused signature keeps the types of the rows.
LEMMA SigningFailureType ==
    ASSUME TypeOK, NEW f \in Fills, RecordSigningFailure(f)
    PROVE  /\ fill' \in [Fills -> FillRows]
           /\ advance' \in [Fills -> AdvanceStates]
           /\ reserved' \in SUBSET Fills
           /\ outpoint' = outpoint
<1>1. CASE HoldsLease(f) /\ ~fill[f].invoked /\ advance[f] = "locking"
  <2>1. fill' = [fill EXCEPT ![f] = Close(@, "cancelled", now)] /\ CancelLiability(f)
    BY <1>1 DEF RecordSigningFailure
  <2>2. fill' \in [Fills -> FillRows]
    BY <2>1, CloseType DEF FillStates
  <2> QED
    BY <2>1, <2>2, CancelType
<1>2. CASE ~(HoldsLease(f) /\ ~fill[f].invoked /\ advance[f] = "locking")
  BY <1>2 DEF RecordSigningFailure, rowVars, TypeOK
<1> QED
  BY <1>1, <1>2

\* Every step of the request and of the expiry keeps the types.
LEMMA HandlerType ==
    ASSUME TypeOK, HandlerNext
    PROVE  TypeOK'
<1> PICK f \in Fills :
        \/ \E at \in 1 .. now, ttl \in 1 .. QuoteTtl : BindFill(f, at, ttl)
        \/ FailSigning(f) \/ LoseLease(f) \/ RefuseLapsed(f) \/ Submit(f)
        \/ RecordSubmitted(f) \/ RecordAmbiguous(f)
        \/ ExpireFill(f)
  BY DEF HandlerNext
<1> USE DEF handlerVars, chainVars, passVars
<1>0. fill[f] \in FillRows /\ startedAt[f] \in Nat /\ now \in Nat
  BY DEF TypeOK
<1>1. ASSUME NEW at \in 1 .. now, NEW ttl \in 1 .. QuoteTtl, BindFill(f, at, ttl)
      PROVE  TypeOK'
  <2>1. at \in Nat /\ at + LeaseSeconds \in Nat /\ at + ttl \in Nat
    BY <1>0, BoundsAssumption
  <2> DEFINE r == [state |-> "submitting", invoked |-> FALSE, token |-> TRUE,
                    leaseUntil |-> at + LeaseSeconds, nextAttempt |-> 0,
                    updatedAt |-> at, expiresAt |-> at + ttl]
  <2>2. r \in FillRows
    BY <2>1 DEF FillRows, FillStates
  <2>3. fill' = [fill EXCEPT ![f] = r]
    BY <1>1 DEF BindFill
  <2> HIDE DEF r
  <2>4. fill' \in [Fills -> FillRows]
    BY <2>2, <2>3 DEF TypeOK
  <2> QED
    BY <1>1, <2>1, <2>4 DEF BindFill, TypeOK, AdvanceStates
<1>2. CASE FailSigning(f)
  BY <1>2, SigningFailureType DEF FailSigning, TypeOK
<1>3. CASE LoseLease(f)
  BY <1>3 DEF LoseLease, TypeOK, rowVars
<1>4. CASE RefuseLapsed(f)
  BY <1>4, SigningFailureType DEF RefuseLapsed, TypeOK
<1>5. CASE Submit(f)
  <2>1. RecordSubmitInvoked(fill[f], startedAt[f]) \in FillRows
    BY <1>0, InvokedRow
  <2>2. fill' \in [Fills -> FillRows]
    BY <1>5, <2>1 DEF Submit, TypeOK
  <2> QED
    BY <1>5, <2>2 DEF Submit, TypeOK
<1>6. CASE RecordSubmitted(f)
  <2>1. Touch(fill[f], startedAt[f]) \in FillRows
    BY <1>0, TouchRow
  <2>2. fill' \in [Fills -> FillRows]
    BY <1>6, <2>1 DEF RecordSubmitted, TypeOK
  <2> QED
    BY <1>6, <2>2 DEF RecordSubmitted, TypeOK
<1>7. CASE RecordAmbiguous(f)
  <2>2. GiveBack(fill[f], startedAt[f]) \in FillRows
    BY <1>0, GivenBackRow
  <2>3. fill' = [fill EXCEPT ![f] = IF HoldsLease(f) THEN GiveBack(fill[f], startedAt[f])
                                    ELSE fill[f]]
    BY <1>7 DEF RecordAmbiguous
  <2>4. fill' \in [Fills -> FillRows]
    BY <1>0, <2>2, <2>3 DEF TypeOK
  <2> QED
    BY <1>7, <2>4 DEF RecordAmbiguous, TypeOK
<1>8. CASE ExpireFill(f)
  <2>1. fill' \in [Fills -> FillRows]
    BY <1>8, CloseType DEF ExpireFill, FillStates
  <2>2. CancelLiability(f)
    BY <1>8 DEF ExpireFill
  <2> QED
    BY <1>8, <2>1, <2>2, CancelType DEF ExpireFill, TypeOK
<1> QED
  BY <1>1, <1>2, <1>3, <1>4, <1>5, <1>6, <1>7, <1>8

\* Every step of the reconciler keeps the types.
LEMMA PassType ==
    ASSUME TypeOK, PassNext
    PROVE  TypeOK'
<1> USE DEF handlerVars, chainVars
<1>1. CASE StartTick
  <2>1. \A f \in Fills :
            [phase |-> "listed", row |-> fill[f], view |-> "none"] \in Visits
    BY DEF TypeOK, Visits, Views
  <2>2. visit' \in [Fills -> Visits \cup {Absent}]
    BY <1>1, <2>1 DEF StartTick
  <2> QED
    BY <1>1, <2>2 DEF StartTick, TypeOK, rowVars
<1>2. CASE EndTick
  BY <1>2 DEF EndTick, TypeOK, rowVars
<1>3. ASSUME NEW f \in Fills,
             \/ \E view \in Views : Observe(f, view)
             \/ MissEvidence(f) \/ FlagUnexpected(f) \/ ReconcileCancelled(f)
             \/ \E complete \in BOOLEAN : KeepWaiting(f, complete)
             \/ ReconcileSettled(f)
             \/ \E complete \in BOOLEAN : FailToSettle(f, complete)
      PROVE  TypeOK'
  <2>0. EndVisit(f) => visit' \in [Fills -> Visits \cup {Absent}]
    BY DEF EndVisit, TypeOK
  <2>1. ASSUME NEW view \in Views, Observe(f, view)
        PROVE  TypeOK'
    <3> DEFINE v == [visit[f] EXCEPT !.phase = "observed", !.view = view]
    <3>1. visit[f] \in Visits
      BY <2>1 DEF Observe, TypeOK
    <3>2. v \in Visits
      BY <3>1 DEF Visits
    <3>3. visit' = [visit EXCEPT ![f] = v]
      BY <2>1 DEF Observe, TypeOK
    <3> HIDE DEF v
    <3>4. visit' \in [Fills -> Visits \cup {Absent}]
      BY <3>2, <3>3 DEF TypeOK
    <3> QED
      BY <2>1, <3>4 DEF Observe, TypeOK, rowVars
  <2>2. CASE FlagUnexpected(f)
    BY <2>0, <2>2 DEF FlagUnexpected, TypeOK, rowVars
  <2>3. CASE ReconcileCancelled(f)
    <3>1. CASE Matches(visit[f].row, f) /\ advance[f] = "locking"
      <4>1. fill' = [fill EXCEPT ![f] = Close(@, "cancelled", now)] /\ CancelLiability(f)
        BY <2>3, <3>1 DEF ReconcileCancelled
      <4>2. fill' \in [Fills -> FillRows]
        BY <4>1, CloseType DEF FillStates
      <4> QED
        BY <2>0, <2>3, <4>1, <4>2, CancelType DEF ReconcileCancelled, TypeOK
    <3>2. CASE ~(Matches(visit[f].row, f) /\ advance[f] = "locking")
      BY <2>0, <2>3, <3>2 DEF ReconcileCancelled, TypeOK, rowVars
    <3> QED
      BY <3>1, <3>2
  <2>4. ASSUME NEW complete \in BOOLEAN, KeepWaiting(f, complete)
        PROVE  TypeOK'
    BY <2>0, <2>4 DEF KeepWaiting, TypeOK, rowVars
  <2>5. CASE ReconcileSettled(f)
    <3>1. fill' \in [Fills -> FillRows]
      BY <2>5, CloseType DEF ReconcileSettled, FillStates
    <3>2. LockLiability(f)
      BY <2>5 DEF ReconcileSettled
    <3>3. /\ advance' \in [Fills -> AdvanceStates]
          /\ outpoint' \in [Fills -> {"none", "lockup", "renewed"}]
          /\ reserved' = reserved
      BY <3>2 DEF LockLiability, TypeOK, AdvanceStates
    <3> QED
      BY <2>0, <2>5, <3>1, <3>3 DEF ReconcileSettled, TypeOK
  <2>6. ASSUME NEW complete \in BOOLEAN, FailToSettle(f, complete)
        PROVE  TypeOK'
    BY <2>0, <2>6 DEF FailToSettle, TypeOK, rowVars
  <2>7. CASE MissEvidence(f)
    BY <2>7 DEF MissEvidence, TypeOK, rowVars
  <2> QED
    BY <1>3, <2>1, <2>2, <2>3, <2>4, <2>5, <2>6, <2>7
<1> QED
  BY <1>1, <1>2, <1>3 DEF PassNext

\* Every step of the watchers, the chain, the clock and a crash keeps the types.
LEMMA WorldType ==
    ASSUME TypeOK, WatchNext \/ ChainNext \/ Tick \/ Restart
    PROVE  TypeOK'
<1> USE DEF handlerVars, passVars
<1>1. CASE WatchNext
  BY <1>1 DEF WatchNext, ObserveLockup, AdoptRenewal, BeginRecovery, ObserveSpend, TypeOK,
              chainVars, AdvanceStates
<1>2. CASE ChainNext
  BY <1>2 DEF ChainNext, Land, SpendInput, RenewCovenant, SpendCovenant, TypeOK, rowVars
<1>3. CASE Tick
  BY <1>3 DEF Tick, TypeOK, rowVars, chainVars
<1>4. CASE Restart
  <2>1. visit' \in [Fills -> Visits \cup {Absent}]
    BY <1>4 DEF Restart
  <2>2. unexpected' \in SUBSET Fills /\ observed' \in SUBSET Fills /\ ticking' \in BOOLEAN
    BY <1>4 DEF Restart
  <2> QED
    BY <1>4, <2>1, <2>2 DEF Restart, TypeOK, rowVars, chainVars
<1> QED
  BY <1>1, <1>2, <1>3, <1>4

\* Type correctness: each row, in-memory set and pass of the fill service keeps
\* its shape under every action.
THEOREM FillTypeCorrect == Spec => []TypeOK
<1>1. Init => TypeOK
  BY InitType
<1>2. TypeOK /\ [Next]_vars => TypeOK'
  <2> SUFFICES ASSUME TypeOK, [Next]_vars PROVE TypeOK'
    OBVIOUS
  <2>1. CASE Next
    BY <2>1, HandlerType, PassType, WorldType DEF Next
  <2>2. CASE UNCHANGED vars
    BY <2>2 DEF vars, rowVars, handlerVars, chainVars, passVars, TypeOK
  <2> QED
    BY <2>1, <2>2
<1> QED
  BY <1>1, <1>2, PTL DEF Spec

-----------------------------------------------------------------------------
(* The inductive invariant, one fill at a time.                            *)

\* What the rows, the request, the chain and the reconciler's evidence say of
\* one fill; the parts after the liability are the strengthening.
Safe(f) ==
    /\ (advance[f] = "expired") = Abandoned(f)
    /\ (advance[f] = "none") = (fill[f].state = "none")
    /\ (f \in reserved) = (advance[f] \in {"locking", "locked", "recovering"})
    /\ advance[f] \in {"locked", "recovering"} \cup Terminal => tx[f] = "landed"
    /\ advance[f] \in Terminal => covenant[f] \in {"spent", "renewedSpent"}
    /\ fill[f].state = "settled" => outpoint[f] # "none" /\ advance[f] # "locking"
    /\ fill[f].state = "none" => tx[f] = "unsent" /\ handler[f] = "none" /\ ~fill[f].invoked
    /\ handler[f] = "signing" => tx[f] = "unsent"
    /\ tx[f] # "unsent" => fill[f].invoked
    /\ (covenant[f] = "absent") = (tx[f] # "landed")
    /\ tx[f] = "landed" => f \notin conflict
    /\ Abandoned(f) => tx[f] # "landed" /\ (tx[f] = "handed" => f \in conflict)
    /\ f \in observed => fill[f].invoked
    /\ visit[f] # Absent /\ visit[f].row.invoked => fill[f].invoked
    /\ visit[f] # Absent /\ visit[f].phase = "observed" =>
          /\ visit[f].view \in {"own", "partial"} => tx[f] = "landed"
          /\ visit[f].view = "conflict" => f \in conflict

IndInv == TypeOK /\ \A f \in Fills : Safe(f)

\* Nothing that Safe reads about f changes in the step.
Untouched(f) ==
    /\ fill'[f] = fill[f] /\ advance'[f] = advance[f] /\ outpoint'[f] = outpoint[f]
    /\ (f \in reserved') = (f \in reserved)
    /\ handler'[f] = handler[f] /\ tx'[f] = tx[f] /\ covenant'[f] = covenant[f]
    /\ (f \in conflict') = (f \in conflict)
    /\ visit'[f] = visit[f] /\ (f \in observed' => f \in observed)

\* A step that leaves a fill alone keeps its part of the invariant.
LEMMA UntouchedSafe ==
    ASSUME NEW f \in Fills, Safe(f), Untouched(f)
    PROVE  Safe(f)'
  BY DEF Untouched, Safe, Abandoned, Terminal

\* The invariant holds before anything happened.
LEMMA InitSafe == Init => IndInv
<1> SUFFICES ASSUME Init, NEW f \in Fills PROVE Safe(f)
  BY InitType DEF IndInv
<1>1. /\ fill[f].state = "none" /\ ~fill[f].invoked /\ advance[f] = "none" /\ tx[f] = "unsent"
      /\ handler[f] = "none" /\ covenant[f] = "absent" /\ visit[f] = Absent
      /\ reserved = {} /\ observed = {}
  BY DEF Init, NoRow
<1> QED
  BY <1>1 DEF Safe, Abandoned, Terminal

\* Giving up a fill is safe when its graph was never handed over, or lost an
\* input to another transaction.
LEMMA GiveUpSafe ==
    ASSUME TypeOK, NEW g \in Fills, Safe(g), CancelLiability(g),
           NEW state \in {"cancelled", "expired"},
           fill' = [fill EXCEPT ![g] = Close(@, state, now)],
           ~fill[g].invoked \/ g \in conflict,
           fill[g].state = "submitting",
           handler'[g] \in {handler[g], "none"},
           visit'[g] \in {visit[g], Absent},
           observed' = observed, UNCHANGED chainVars
    PROVE  Safe(g)'
<1>1. fill[g] \in FillRows /\ now \in Nat /\ state \in FillStates
  BY DEF TypeOK, FillStates
<1>2. fill'[g].state = state /\ fill'[g].invoked = fill[g].invoked
  <2>1. fill'[g] = Close(fill[g], state, now)
    BY DEF TypeOK
  <2> QED
    BY <1>1, <2>1, CloseRow
<1>3. advance[g] = "locking" /\ advance'[g] = "expired" /\ g \notin reserved'
      /\ outpoint' = outpoint
  BY DEF CancelLiability, TypeOK
<1>4. tx[g] # "landed" /\ (tx[g] = "handed" => g \in conflict)
  BY DEF Safe
<1> QED
  BY <1>2, <1>3, <1>4 DEF Safe, Abandoned, Terminal, chainVars

\* A refused signature is safe: the row is cancelled only when the flag is down.
LEMMA SigningFailureSafe ==
    ASSUME TypeOK, NEW g \in Fills, Safe(g), RecordSigningFailure(g),
           handler[g] = "signing", handler'[g] = "none", UNCHANGED chainVars,
           UNCHANGED passVars
    PROVE  Safe(g)'
<1>1. CASE HoldsLease(g) /\ ~fill[g].invoked /\ advance[g] = "locking"
  <2>1. fill' = [fill EXCEPT ![g] = Close(@, "cancelled", now)] /\ CancelLiability(g)
    BY <1>1 DEF RecordSigningFailure
  <2> QED
    BY <1>1, <2>1, GiveUpSafe DEF HoldsLease, passVars
<1>2. CASE ~(HoldsLease(g) /\ ~fill[g].invoked /\ advance[g] = "locking")
  BY <1>2 DEF RecordSigningFailure, rowVars, Safe, Abandoned, Terminal, chainVars, passVars
<1> QED
  BY <1>1, <1>2

\* A refused signature touches one fill only.
LEMMA SigningFailureFrame ==
    ASSUME TypeOK, NEW g \in Fills, RecordSigningFailure(g), NEW f \in Fills, f # g
    PROVE  /\ fill'[f] = fill[f] /\ advance'[f] = advance[f] /\ outpoint' = outpoint
           /\ (f \in reserved') = (f \in reserved)
  BY DEF RecordSigningFailure, CancelLiability, rowVars, TypeOK

\* Every step of the request and of the expiry keeps the invariant.
LEMMA HandlerSafe ==
    ASSUME IndInv, HandlerNext, NEW f \in Fills
    PROVE  Safe(f)'
<1> PICK g \in Fills :
        \/ \E at \in 1 .. now, ttl \in 1 .. QuoteTtl : BindFill(g, at, ttl)
        \/ FailSigning(g) \/ LoseLease(g) \/ RefuseLapsed(g) \/ Submit(g)
        \/ RecordSubmitted(g) \/ RecordAmbiguous(g)
        \/ ExpireFill(g)
  BY DEF HandlerNext
<1>0. /\ TypeOK /\ Safe(f) /\ Safe(g)
      /\ fill[g] \in FillRows /\ startedAt[g] \in Nat /\ now \in Nat
  BY DEF IndInv, TypeOK
<1>1. ASSUME NEW at \in 1 .. now, NEW ttl \in 1 .. QuoteTtl, BindFill(g, at, ttl)
      PROVE  Safe(f)'
  <2>1. CASE f # g
    <3>1. Untouched(f)
      BY <1>0, <1>1, <2>1 DEF BindFill, Untouched, chainVars, passVars, TypeOK
    <3> QED
      BY <1>0, <3>1, UntouchedSafe
  <2>2. CASE f = g
    <3>1. /\ fill'[g].state = "submitting" /\ fill'[g].invoked = FALSE
          /\ advance'[g] = "locking" /\ g \in reserved' /\ handler'[g] = "signing"
          /\ fill[g].state = "none"
      BY <1>0, <1>1 DEF BindFill, TypeOK
    <3>2. tx[g] = "unsent" /\ tx' = tx /\ covenant' = covenant /\ conflict' = conflict
          /\ visit' = visit /\ observed' = observed
      BY <1>0, <1>1, <3>1 DEF BindFill, chainVars, passVars, Safe
    <3>3. g \notin observed /\ (visit[g] # Absent => ~visit[g].row.invoked)
      BY <1>0, <1>1 DEF BindFill, Safe
    <3> QED
      BY <1>0, <2>2, <3>1, <3>2, <3>3 DEF Safe, Abandoned, Terminal
  <2> QED
    BY <2>1, <2>2
<1>2. CASE FailSigning(g) \/ RefuseLapsed(g)
  <2>0. /\ RecordSigningFailure(g) /\ handler[g] = "signing"
        /\ handler' = [handler EXCEPT ![g] = "none"]
        /\ UNCHANGED chainVars /\ UNCHANGED passVars
    BY <1>2 DEF FailSigning, RefuseLapsed
  <2>1. CASE f # g
    <3>1. Untouched(f)
      BY <1>0, <2>0, <2>1, SigningFailureFrame DEF Untouched, chainVars, passVars, TypeOK
    <3> QED
      BY <1>0, <3>1, UntouchedSafe
  <2>2. CASE f = g
    <3>1. handler'[g] = "none"
      BY <1>0, <2>0 DEF TypeOK
    <3> QED
      BY <1>0, <2>0, <2>2, <3>1, SigningFailureSafe
  <2> QED
    BY <2>1, <2>2
<1>3. CASE LoseLease(g)
  BY <1>0, <1>3 DEF LoseLease, Safe, Abandoned, Terminal, rowVars, chainVars, passVars, TypeOK
<1>4. CASE Submit(g)
  <2>1. CASE f # g
    <3>1. Untouched(f)
      BY <1>0, <1>4, <2>1 DEF Submit, Untouched, passVars, TypeOK
    <3> QED
      BY <1>0, <3>1, UntouchedSafe
  <2>2. CASE f = g
    <3>1. fill'[g] = RecordSubmitInvoked(fill[g], startedAt[g])
      BY <1>0, <1>4 DEF Submit, TypeOK
    <3>2. fill'[g].state = fill[g].state /\ fill'[g].invoked = TRUE
      <4>1. fill[g] \in FillRows /\ startedAt[g] \in Nat
        BY <1>0 DEF TypeOK
      <4>2. /\ RecordSubmitInvoked(fill[g], startedAt[g]).state = fill[g].state
            /\ RecordSubmitInvoked(fill[g], startedAt[g]).invoked = TRUE
        BY <4>1, InvokedRow
      <4> QED
        BY <3>1, <4>2
    <3>3. tx[g] = "unsent" /\ tx'[g] = "handed" /\ fill[g].state = "submitting"
          /\ handler'[g] = "submitting"
      BY <1>0, <1>4 DEF Submit, Safe, HoldsLease, TypeOK
    <3>4. advance' = advance /\ outpoint' = outpoint /\ reserved' = reserved
          /\ conflict' = conflict /\ covenant' = covenant /\ visit' = visit
          /\ observed' = observed
      BY <1>4 DEF Submit, passVars
    <3> QED
      BY <1>0, <2>2, <3>2, <3>3, <3>4 DEF Safe, Abandoned, Terminal
  <2> QED
    BY <2>1, <2>2
<1>5. CASE RecordSubmitted(g) \/ RecordAmbiguous(g)
  <2>1. /\ \A h \in Fills : fill'[h].state = fill[h].state /\ fill'[h].invoked = fill[h].invoked
        /\ handler' = [handler EXCEPT ![g] = "none"]
        /\ UNCHANGED <<advance, outpoint, reserved, chainVars, passVars>>
    <3>1. CASE RecordSubmitted(g)
      <4>1. fill' = [fill EXCEPT ![g] = IF HoldsLease(g) THEN Touch(fill[g], startedAt[g])
                                        ELSE fill[g]]
        BY <3>1 DEF RecordSubmitted
      <4>2. /\ Touch(fill[g], startedAt[g]).state = fill[g].state
            /\ Touch(fill[g], startedAt[g]).invoked = fill[g].invoked
        BY <1>0, TouchRow
      <4> QED
        BY <1>0, <3>1, <4>1, <4>2 DEF RecordSubmitted, TypeOK
    <3>2. CASE RecordAmbiguous(g)
      <4>1. fill[g] \in FillRows /\ startedAt[g] \in Nat
        BY <1>0 DEF TypeOK
      <4>2. /\ GiveBack(fill[g], startedAt[g]).state = fill[g].state
            /\ GiveBack(fill[g], startedAt[g]).invoked = fill[g].invoked
        BY <4>1, GivenBackRow
      <4>3. fill' = [fill EXCEPT ![g] = IF HoldsLease(g) THEN GiveBack(fill[g], startedAt[g])
                                        ELSE fill[g]]
        BY <3>2 DEF RecordAmbiguous
      <4> QED
        BY <1>0, <3>2, <4>2, <4>3 DEF RecordAmbiguous, TypeOK
    <3> QED
      BY <1>5, <3>1, <3>2
  <2> QED
    BY <1>0, <2>1 DEF Safe, Abandoned, Terminal, chainVars, passVars, TypeOK
<1>6. CASE ExpireFill(g)
  <2>0. /\ CancelLiability(g) /\ fill' = [fill EXCEPT ![g] = Close(@, "expired", now)]
        /\ ~fill[g].invoked /\ fill[g].state = "submitting"
        /\ handler' = handler /\ UNCHANGED chainVars /\ UNCHANGED passVars
    BY <1>6 DEF ExpireFill, Stale, handlerVars
  <2>1. CASE f # g
    <3>1. Untouched(f)
      BY <1>0, <2>0, <2>1 DEF Untouched, CancelLiability, chainVars, passVars, TypeOK
    <3> QED
      BY <1>0, <3>1, UntouchedSafe
  <2>2. CASE f = g
    BY <1>0, <2>0, <2>2, GiveUpSafe DEF passVars
  <2> QED
    BY <2>1, <2>2
<1> QED
  BY <1>1, <1>2, <1>3, <1>4, <1>5, <1>6

\* Every step of the reconciler keeps the invariant.
LEMMA PassSafe ==
    ASSUME IndInv, PassNext, NEW f \in Fills
    PROVE  Safe(f)'
<1>0. TypeOK /\ Safe(f)
  BY DEF IndInv
<1>1. CASE StartTick
  <2>1. visit'[f] # Absent =>
            visit'[f].row = fill[f] /\ visit'[f].phase = "listed"
    BY <1>1 DEF StartTick
  <2> QED
    BY <1>0, <1>1, <2>1 DEF StartTick, Safe, Abandoned, Terminal, rowVars, handlerVars, chainVars
<1>2. CASE EndTick
  BY <1>0, <1>2 DEF EndTick, Safe, Abandoned, Terminal, rowVars, handlerVars, chainVars
<1>3. ASSUME NEW g \in Fills,
             \/ \E view \in Views : Observe(g, view)
             \/ MissEvidence(g) \/ FlagUnexpected(g) \/ ReconcileCancelled(g)
             \/ \E complete \in BOOLEAN : KeepWaiting(g, complete)
             \/ ReconcileSettled(g)
             \/ \E complete \in BOOLEAN : FailToSettle(g, complete)
      PROVE  Safe(f)'
  <2>0. Safe(g) /\ fill[g] \in FillRows /\ now \in Nat
    BY <1>0 DEF IndInv, TypeOK
  <2>1. ASSUME NEW view \in Views, Observe(g, view)
        PROVE  Safe(f)'
    <3>1. CASE f # g
      <4>1. Untouched(f)
        BY <1>0, <2>1, <3>1 DEF Observe, Untouched, rowVars, handlerVars, chainVars, TypeOK
      <4> QED
        BY <1>0, <4>1, UntouchedSafe
    <3>2. CASE f = g
      <4>1. visit[g] \in Visits
        BY <1>0, <2>1 DEF Observe, TypeOK
      <4>2. visit'[g].row = visit[g].row /\ visit'[g].view = view /\ visit[g] # Absent
        BY <1>0, <2>1, <4>1 DEF Observe, TypeOK, Visits
      <4>3. /\ view \in {"own", "partial"} => tx[g] = "landed"
            /\ view = "conflict" => g \in conflict
        BY <2>1 DEF Observe, Shows
      <4> QED
        BY <1>0, <2>1, <3>2, <4>2, <4>3
           DEF Observe, Safe, Abandoned, Terminal, rowVars, handlerVars, chainVars
    <3> QED
      BY <3>1, <3>2
  <2>2. CASE FlagUnexpected(g)
    BY <1>0, <2>2 DEF FlagUnexpected, EndVisit, Safe, Abandoned, Terminal, rowVars, handlerVars,
                      chainVars, TypeOK
  <2>3. CASE ReconcileCancelled(g)
    <3>0. /\ EndVisit(g) /\ observed' = observed /\ handler' = handler /\ UNCHANGED chainVars
          /\ visit'[g] = Absent
      BY <1>0, <2>3 DEF ReconcileCancelled, EndVisit, handlerVars, TypeOK
    <3>1. CASE Matches(visit[g].row, g) /\ advance[g] = "locking"
      <4>1. fill' = [fill EXCEPT ![g] = Close(@, "cancelled", now)] /\ CancelLiability(g)
        BY <2>3, <3>1 DEF ReconcileCancelled
      <4>2. CASE f # g
        <5>1. Untouched(f)
          BY <1>0, <3>0, <4>1, <4>2 DEF Untouched, CancelLiability, EndVisit, chainVars, TypeOK
        <5> QED
          BY <1>0, <5>1, UntouchedSafe
      <4>3. CASE f = g
        <5>1. ~fill[g].invoked \/ g \in conflict
          BY <2>0, <2>3, <3>1 DEF ReconcileCancelled, GivesUp, Matches, Safe
        <5>2. fill[g].state = "submitting"
          BY <3>1 DEF Matches
        <5> QED
          BY <1>0, <2>0, <3>0, <4>1, <4>3, <5>1, <5>2, GiveUpSafe
      <4> QED
        BY <4>2, <4>3
    <3>2. CASE ~(Matches(visit[g].row, g) /\ advance[g] = "locking")
      <4>1. UNCHANGED rowVars
        BY <2>3, <3>2 DEF ReconcileCancelled
      <4> QED
        BY <1>0, <3>0, <4>1 DEF EndVisit, Safe, Abandoned, Terminal, rowVars, chainVars, TypeOK
    <3> QED
      BY <3>1, <3>2
  <2>4. ASSUME NEW complete \in BOOLEAN, KeepWaiting(g, complete) \/ FailToSettle(g, complete)
        PROVE  Safe(f)'
    <3>1. /\ EndVisit(g) /\ UNCHANGED rowVars /\ UNCHANGED handlerVars /\ UNCHANGED chainVars
          /\ visit[g] # Absent /\ visit[g].row.invoked
          /\ observed' \in {observed, observed \cup {g}}
      BY <2>4 DEF KeepWaiting, FailToSettle
    <3>2. fill[g].invoked
      BY <2>0, <3>1 DEF Safe
    <3> QED
      BY <1>0, <3>1, <3>2 DEF EndVisit, Safe, Abandoned, Terminal, rowVars, handlerVars, chainVars,
                              TypeOK
  <2>5. CASE ReconcileSettled(g)
    <3>0. /\ fill' = [fill EXCEPT ![g] = Close(@, "settled", now)] /\ LockLiability(g)
          /\ EndVisit(g) /\ observed' = observed /\ handler' = handler /\ UNCHANGED chainVars
          /\ fill[g].state = "submitting" /\ tx[g] = "landed"
      BY <2>0, <2>5 DEF ReconcileSettled, Matches, handlerVars, Safe
    <3>1. CASE f # g
      <4>1. Untouched(f)
        BY <1>0, <3>0, <3>1 DEF Untouched, LockLiability, EndVisit, chainVars, TypeOK
      <4> QED
        BY <1>0, <4>1, UntouchedSafe
    <3>2. CASE f = g
      <4>1. fill'[g] = Close(fill[g], "settled", now)
        BY <1>0, <3>0 DEF TypeOK
      <4>2. fill'[g].state = "settled" /\ fill'[g].invoked = fill[g].invoked
        <5>1. "settled" \in FillStates
          BY DEF FillStates
        <5> QED
          BY <2>0, <4>1, <5>1, CloseRow
      <4>3. /\ advance'[g] \in {"locked", "recovering"} \cup Terminal
            /\ advance'[g] \in Terminal => advance[g] = advance'[g]
            /\ advance[g] \in Terminal => advance[g] = advance'[g]
            /\ outpoint'[g] = "lockup" /\ reserved' = reserved
        BY <1>0, <3>0 DEF LockLiability, Lockable, TypeOK, Terminal
      <4>4. visit'[g] = Absent
        BY <1>0, <3>0 DEF EndVisit, TypeOK
      <4>5. advance[g] \in {"locking", "locked", "recovering"} \cup Terminal
        BY <3>0 DEF LockLiability, Lockable
      <4> QED
        BY <1>0, <3>0, <3>2, <4>2, <4>3, <4>4, <4>5 DEF Safe, Abandoned, Terminal, chainVars
    <3> QED
      BY <3>1, <3>2
  <2>6. CASE MissEvidence(g)
    BY <1>0, <2>6 DEF MissEvidence, Safe, Abandoned, Terminal, rowVars, handlerVars, chainVars,
                      TypeOK
  <2> QED
    BY <1>3, <2>1, <2>2, <2>3, <2>4, <2>5, <2>6
<1> QED
  BY <1>1, <1>2, <1>3 DEF PassNext

\* Every step of the watchers, the chain, the clock and a crash keeps it.
LEMMA WorldSafe ==
    ASSUME IndInv, WatchNext \/ ChainNext \/ Tick \/ Restart, NEW f \in Fills
    PROVE  Safe(f)'
<1>0. TypeOK /\ Safe(f)
  BY DEF IndInv
<1> USE DEF handlerVars
<1>1. CASE WatchNext
  <2> PICK g \in Fills :
        \/ ObserveLockup(g) \/ AdoptRenewal(g) \/ BeginRecovery(g)
        \/ \E terminal \in Terminal : ObserveSpend(g, terminal)
    BY <1>1 DEF WatchNext
  <2>0. Safe(g)
    BY DEF IndInv
  <2>1. CASE ObserveLockup(g)
    BY <1>0, <2>0, <2>1 DEF ObserveLockup, Safe, Abandoned, Terminal, chainVars, passVars, TypeOK
  <2>2. CASE AdoptRenewal(g)
    BY <1>0, <2>0, <2>2 DEF AdoptRenewal, Safe, Abandoned, Terminal, chainVars, passVars, TypeOK
  <2>3. CASE BeginRecovery(g)
    BY <1>0, <2>0, <2>3 DEF BeginRecovery, Safe, Abandoned, Terminal, chainVars, passVars, TypeOK
  <2>4. ASSUME NEW terminal \in Terminal, ObserveSpend(g, terminal)
        PROVE  Safe(f)'
    BY <1>0, <2>0, <2>4 DEF ObserveSpend, Safe, Abandoned, Terminal, chainVars, passVars, TypeOK
  <2> QED
    BY <2>1, <2>2, <2>3, <2>4
<1>2. CASE ChainNext
  <2> PICK g \in Fills : Land(g) \/ SpendInput(g) \/ RenewCovenant(g) \/ SpendCovenant(g)
    BY <1>2 DEF ChainNext
  <2>0. Safe(g)
    BY DEF IndInv
  <2>1. CASE Land(g)
    BY <1>0, <2>0, <2>1 DEF Land, Safe, Abandoned, Terminal, rowVars, passVars, TypeOK
  <2>2. CASE SpendInput(g)
    BY <1>0, <2>0, <2>2 DEF SpendInput, Safe, Abandoned, Terminal, rowVars, passVars, TypeOK
  <2>3. CASE RenewCovenant(g)
    BY <1>0, <2>0, <2>3 DEF RenewCovenant, Safe, Abandoned, Terminal, rowVars, passVars, TypeOK
  <2>4. CASE SpendCovenant(g)
    BY <1>0, <2>0, <2>4 DEF SpendCovenant, Safe, Abandoned, Terminal, rowVars, passVars, TypeOK
  <2> QED
    BY <2>1, <2>2, <2>3, <2>4
<1>3. CASE Tick
  BY <1>0, <1>3 DEF Tick, Safe, Abandoned, Terminal, rowVars, chainVars, passVars
<1>4. CASE Restart
  BY <1>0, <1>4 DEF Restart, Safe, Abandoned, Terminal, rowVars, chainVars
<1> QED
  BY <1>1, <1>2, <1>3, <1>4

\* The inductive invariant holds in every reachable state.
THEOREM FillIndInv == Spec => []IndInv
<1>1. Init => IndInv
  BY InitSafe
<1>2. IndInv /\ [Next]_vars => IndInv'
  <2> SUFFICES ASSUME IndInv, [Next]_vars PROVE IndInv'
    OBVIOUS
  <2>1. CASE Next
    <3>1. TypeOK'
      BY <2>1, HandlerType, PassType, WorldType DEF Next, IndInv
    <3>2. ASSUME NEW f \in Fills PROVE Safe(f)'
      BY <2>1, HandlerSafe, PassSafe, WorldSafe DEF Next
    <3> QED
      BY <3>1, <3>2 DEF IndInv
  <2>2. CASE UNCHANGED vars
    BY <2>2 DEF vars, rowVars, handlerVars, chainVars, passVars, TypeOK, IndInv, Safe, Abandoned
  <2> QED
    BY <2>1, <2>2
<1> QED
  BY <1>1, <1>2, PTL DEF Spec

-----------------------------------------------------------------------------
(* What follows. *)

\* A fill the service gave up never lands: neither the expiry, nor a refused
\* signature, nor a reconciler with stale rows abandons a graph the provider can
\* still accept.
THEOREM AbandonedNeverLands == Spec => []AbandonedFillCannotLand
<1>1. IndInv => AbandonedFillCannotLand
  BY DEF IndInv, Safe, AbandonedFillCannotLand
<1> QED
  BY <1>1, FillIndInv, PTL

\* The operator's coins stay reserved while the graph may land and while its
\* covenant is unspent.
THEOREM CoinsReservedWhileOpen == Spec => []ReservedWhileItMayLand
<1>1. IndInv => ReservedWhileItMayLand
  <2> SUFFICES ASSUME IndInv, NEW f \in Fills,
                      (tx[f] = "handed" /\ f \notin conflict)
                          \/ covenant[f] \in {"unspent", "renewed"}
               PROVE  f \in reserved
    BY DEF ReservedWhileItMayLand
  <2>1. Safe(f) /\ advance[f] \in AdvanceStates /\ fill[f] \in FillRows
    BY DEF IndInv, TypeOK
  <2>2. advance[f] \notin {"none", "expired"} \cup Terminal
    BY <2>1 DEF Safe, Abandoned, Terminal
  <2> QED
    BY <2>1, <2>2 DEF Safe, AdvanceStates
<1> QED
  BY <1>1, FillIndInv, PTL

\* A settled row is about a transaction that landed, with an anchored advance;
\* rows, advances and reservations move together; and what readiness overlooks
\* was submitted and is still reserved.
THEOREM RowsAgree == Spec => []FillIsAccounted
<1>1. IndInv => LiabilityMatchesFill
  BY DEF IndInv, Safe, LiabilityMatchesFill
<1>2. IndInv => SettledIsAnchored
  <2> SUFFICES ASSUME IndInv, NEW f \in Fills, fill[f].state = "settled"
               PROVE  /\ tx[f] = "landed" /\ outpoint[f] # "none"
                      /\ advance[f] \in {"locked", "recovering"} \cup Terminal
    BY DEF SettledIsAnchored
  <2>1. Safe(f) /\ advance[f] \in AdvanceStates
    BY DEF IndInv, TypeOK
  <2>2. advance[f] \in {"locked", "recovering"} \cup Terminal
    BY <2>1 DEF Safe, Abandoned, AdvanceStates
  <2> QED
    BY <2>1, <2>2 DEF Safe
<1>3. IndInv => QuarantineIsAccounted
  BY DEF IndInv, Safe, QuarantineIsAccounted, Quarantined
<1>4. IndInv => FillIsAccounted
  BY <1>1, <1>2, <1>3 DEF FillIsAccounted
<1> QED
  BY <1>4, FillIndInv, PTL

\* The graph is handed to the provider strictly before the fill's deadline: only
\* the submission step sends it, and it reads the clock again.
THEOREM SubmittedInTime == Spec => SubmitBeforeDeadline
<1>1. TypeOK /\ [Next]_vars =>
          [\A f \in Fills : tx[f] = "unsent" /\ tx'[f] = "handed" => now < fill[f].expiresAt]_vars
  <2> SUFFICES ASSUME TypeOK, Next, NEW f \in Fills, tx[f] = "unsent", tx'[f] = "handed"
               PROVE  now < fill[f].expiresAt
    BY DEF vars
  <2>0. tx' # tx /\ now \in Nat /\ fill[f].expiresAt \in Nat
    BY DEF TypeOK, FillRows
  <2>1. ~PassNext /\ ~WatchNext /\ ~Tick /\ ~Restart
    BY <2>0 DEF PassNext, StartTick, EndTick, Observe, MissEvidence, FlagUnexpected,
                ReconcileCancelled,
                KeepWaiting, ReconcileSettled, FailToSettle, WatchNext, ObserveLockup,
                AdoptRenewal, BeginRecovery, ObserveSpend, Tick, Restart, chainVars
  <2>2. ~ChainNext
    BY <2>0 DEF ChainNext, Land, SpendInput, RenewCovenant, SpendCovenant, TypeOK
  <2>3. PICK g \in Fills : Submit(g)
    BY <2>0, <2>1, <2>2 DEF Next, HandlerNext, BindFill, FailSigning, LoseLease, RefuseLapsed,
                            RecordSubmitted, RecordAmbiguous, ExpireFill, chainVars
  <2>4. f = g
    BY <2>3 DEF Submit, TypeOK
  <2> QED
    BY <2>0, <2>3, <2>4 DEF Submit, LapsedAtSubmit
<1> QED
  BY <1>1, FillTypeCorrect, PTL DEF Spec, SubmitBeforeDeadline

\* While a request is under way nobody else ends its fill before the lease has
\* lapsed: expiry and reconciler look at the lease, the watchers never write it.
THEOREM LeaseHolds == Spec => LeaseProtectsRequest
<1> DEFINE Ends(f) == fill[f].state = "submitting" /\ fill'[f].state # "submitting"
                         /\ handler[f] # "none" /\ handler'[f] = handler[f]
<1>1. TypeOK /\ [Next]_vars => [\A f \in Fills : Ends(f) => fill[f].leaseUntil <= now]_vars
  <2> SUFFICES ASSUME TypeOK, Next, NEW f \in Fills, Ends(f)
               PROVE  fill[f].leaseUntil <= now
    BY DEF vars
  <2>0. fill' # fill
    OBVIOUS
  <2>1. ~WatchNext /\ ~ChainNext /\ ~Tick /\ ~Restart /\ ~StartTick /\ ~EndTick
    BY <2>0 DEF WatchNext, ObserveLockup, AdoptRenewal, BeginRecovery, ObserveSpend, ChainNext,
                Land, SpendInput, RenewCovenant, SpendCovenant, Tick, Restart, StartTick, EndTick,
                rowVars
  <2>2. CASE HandlerNext
    <3> PICK g \in Fills :
          \/ \E at \in 1 .. now, ttl \in 1 .. QuoteTtl : BindFill(g, at, ttl)
          \/ FailSigning(g) \/ LoseLease(g) \/ RefuseLapsed(g) \/ Submit(g)
          \/ RecordSubmitted(g) \/ RecordAmbiguous(g)
          \/ ExpireFill(g)
      BY <2>2 DEF HandlerNext
    <3>1. fill' = [fill EXCEPT ![g] = fill'[g]]
      BY DEF BindFill, FailSigning, LoseLease, RefuseLapsed, Submit, RecordSubmitted,
             RecordAmbiguous, ExpireFill, RecordSigningFailure, rowVars, TypeOK
    <3>2. f = g
      BY <3>1 DEF TypeOK
    <3>3. CASE ExpireFill(g)
      BY <3>2, <3>3 DEF ExpireFill, Stale, LeaseLapsed
    <3>4. CASE ~ExpireFill(g)
      <4>1. \/ \E at \in 1 .. now, ttl \in 1 .. QuoteTtl : BindFill(g, at, ttl)
            \/ handler' = [handler EXCEPT ![g] = "none"]
            \/ Submit(g)
        BY <3>4 DEF FailSigning, LoseLease, RefuseLapsed, RecordSubmitted, RecordAmbiguous
      <4>2. fill[g].state = "none" \/ handler'[g] \in {"none", "submitting"}
        BY <4>1 DEF BindFill, Submit, TypeOK
      <4>3. handler'[g] = "submitting" /\ handler[g] = "submitting"
        BY <3>2, <4>2
      <4>4. ~Submit(g)
        BY <4>3 DEF Submit
      <4> QED
        BY <3>2, <4>1, <4>3, <4>4 DEF BindFill, TypeOK
    <3> QED
      BY <3>3, <3>4
  <2>3. CASE PassNext
    <3> PICK g \in Fills :
          \/ \E view \in Views : Observe(g, view)
          \/ MissEvidence(g) \/ FlagUnexpected(g) \/ ReconcileCancelled(g)
          \/ \E complete \in BOOLEAN : KeepWaiting(g, complete)
          \/ ReconcileSettled(g)
          \/ \E complete \in BOOLEAN : FailToSettle(g, complete)
      BY <2>1, <2>3 DEF PassNext
    <3>1. /\ fill' = [fill EXCEPT ![g] = fill'[g]]
          /\ Matches(visit[g].row, g)
      BY <2>0 DEF Observe, MissEvidence, FlagUnexpected, ReconcileCancelled, KeepWaiting,
                  ReconcileSettled,
                  FailToSettle, rowVars, TypeOK
    <3>2. f = g
      BY <3>1 DEF TypeOK
    <3> QED
      BY <3>1, <3>2 DEF Matches, LeaseLapsed
  <2> QED
    BY <2>1, <2>2, <2>3 DEF Next
<1> QED
  BY <1>1, FillTypeCorrect, PTL DEF Spec, LeaseProtectsRequest

\* A request in progress is overtaken neither by its deadline nor by the reconciler.
THEOREM RequestsAreProtected == Spec => RequestIsProtected
  BY SubmittedInTime, LeaseHolds, PTL DEF RequestIsProtected
=============================================================================
