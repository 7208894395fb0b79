---------------------------- MODULE Reservations ----------------------------
(***************************************************************************)
(* The operator's coins and the flows that tie them up.                    *)
(*                                                                         *)
(* Taxi fronts dust from a small set of operator coins (VTXO outpoints).   *)
(* Three SQLite tables say which flow holds which coin:                    *)
(*   operator_input_reservations (opRes)  quoted and live advances         *)
(*   receive_quote_reservations  (rqRes)  open receive quotes              *)
(*   proceeds_inputs             (procIn) the active proceeds job          *)
(* fill_reservations is not a variable: FillRepository.insert is reached   *)
(* from bindFill only, which deletes the rows it has just written in the   *)
(* same transaction, so the table is empty between transactions.           *)
(*                                                                         *)
(* Every action is one synchronous stretch of the service: a database      *)
(* transaction with the handler code around it up to the next await.  A    *)
(* request that selects coins runs in several such stretches and keeps     *)
(* what it read in between (draft, collector): those values may be stale.  *)
(* Every advance lends exactly the configured dust, so sums of topups are  *)
(* counts times Dust.                                                      *)
(***************************************************************************)
EXTENDS Integers, FiniteSets

CONSTANTS
    Coins,        \* operator outpoints in the wallet
    Transfers,    \* ids drawn by POST /v1/transfers and /v1/sponsored-transfers
    Receives,     \* ids drawn by POST /v1/receive-quotes; the bound advance keeps it
    Jobs,         \* ids drawn by the proceeds collector
    NoOwner,      \* a coin without a row
    Dust,         \* config.dust: the topup of every advance, the loan of every quote
    Limits,       \* the [sats, count] caps an administrator may set
    QuoteTtl,     \* policy.quoteTtlSeconds
    MaxAttempts,  \* reservation attempts of one admission (3 in the code)
    MaxTime,      \* bound: last second of the clock, and last quote deadline
    MaxRevision   \* bound: last policy revision

AdvanceIds == Transfers \cup Receives
Ids == AdvanceIds \cup Jobs

ASSUME IdsAssumption ==
    /\ Transfers \cap Receives = {}
    /\ AdvanceIds \cap Jobs = {}
    /\ NoOwner \notin Ids

ASSUME FiniteAssumption ==
    IsFiniteSet(Coins) /\ IsFiniteSet(AdvanceIds)

ASSUME BoundsAssumption ==
    /\ Dust \in Nat \ {0}
    /\ QuoteTtl \in Nat \ {0}
    /\ MaxAttempts \in Nat \ {0}
    /\ MaxTime \in Nat
    /\ MaxRevision \in Nat
    /\ Limits # {}
    /\ \A l \in Limits : l.sats \in Nat /\ l.count \in Nat

Kinds == {"covenant", "sponsored"}
Terminal == {"recycled", "purchased", "refunded", "recovered"}
AdvanceStates ==
    {"none", "quoted", "locking", "locked", "recovering", "expired"} \cup Terminal
QuoteStates == {"none", "quoted", "bound", "expired"}
FillStates == {"none", "submitting", "settled", "cancelled"}
JobStates == {"none", "unsubmitted", "entered", "complete", "deleted"}
Policies == [paused : BOOLEAN, revision : Nat, limit : Limits]

\* A request that has passed admission and has not persisted anything yet.
Idle == [phase |-> "idle"]
Drafts == [phase : {"admitted", "selected"}, rail : Kinds \cup {"receive", "fill"},
           id : AdvanceIds, coins : SUBSET Coins, reserved : SUBSET Coins,
           revision : Nat, at : Nat, attempts : 1 .. MaxAttempts]
Plans == [phase : {"planned"}, coins : SUBSET Coins, reserved : SUBSET Coins]

VARIABLES
    now,        \* wall clock in seconds
    policy,     \* the policy row
    aState, kind, expiresAt,   \* advances rows; expiresAt also of receive quotes
    qState, qRevision,         \* receive_quotes rows
    fState,     \* the fill bound to a receive quote; expired counts as cancelled
    located,    \* bound advances whose ark_txid and outpoint columns are set
    jState,     \* proceeds_jobs rows
    inputs,     \* operator_inputs_json / plan inputs of a row
    opRes, rqRes, procIn,      \* the three reservation tables
    draft,      \* the admission in progress (withAdmission runs one at a time)
    collector   \* the proceeds plan in progress

rows == <<aState, kind, expiresAt, qState, qRevision, fState, located, jState, inputs>>
tables == <<opRes, rqRes, procIn>>
vars == <<now, policy, rows, tables, draft, collector>>

Init ==
    /\ now = 1
    /\ \E l \in Limits : policy = [paused |-> FALSE, revision |-> 0, limit |-> l]
    /\ aState = [a \in AdvanceIds |-> "none"]
    /\ kind = [a \in AdvanceIds |-> "covenant"]
    /\ expiresAt = [a \in AdvanceIds |-> 0]
    /\ qState = [q \in Receives |-> "none"]
    /\ qRevision = [q \in Receives |-> 0]
    /\ fState = [q \in Receives |-> "none"]
    /\ located = {}
    /\ jState = [j \in Jobs |-> "none"]
    /\ inputs = [i \in Ids |-> {}]
    /\ opRes = [c \in Coins |-> NoOwner]
    /\ rqRes = [c \in Coins |-> NoOwner]
    /\ procIn = [c \in Coins |-> NoOwner]
    /\ draft = Idle
    /\ collector = Idle

-----------------------------------------------------------------------------
(* Reads. *)

HeldBy(table, i) == {c \in Coins : table[c] = i}
Occupied(table) == {c \in Coins : table[c] # NoOwner}
Release(table, dead) == [c \in Coins |-> IF table[c] \in dead THEN NoOwner ELSE table[c]]
Assign(table, coins, i) == [c \in Coins |-> IF c \in coins THEN i ELSE table[c]]

\* allReservedOutpoints, over the receive-quote table a transaction sees.
AllReserved(rq) == Occupied(opRes) \cup Occupied(procIn) \cup Occupied(rq)

isExposed(a) ==
    \/ aState[a] = "locking"
    \/ kind[a] = "covenant" /\ aState[a] \in {"locked", "recovering"}

\* totalExposure: exposed advances and open receive quotes, never quoted advances.
Exposure(quotes) ==
    Cardinality({a \in AdvanceIds : isExposed(a)})
        + Cardinality({q \in Receives : quotes[q] = "quoted"})

WithinLimits(count) ==
    /\ (count + 1) * Dust <= policy.limit.sats
    /\ count < policy.limit.count

\* expireReceiveQuotes(at): the rows and reservations it leaves.
LapsedQuotes(at) == {q \in Receives : qState[q] = "quoted" /\ expiresAt[q] <= at}
QuotesAfter(at) ==
    [q \in Receives |-> IF q \in LapsedQuotes(at) THEN "expired" ELSE qState[q]]

DeadQuotes(at) == {q \in Receives : QuotesAfter(at)[q] = "expired" /\ expiresAt[q] <= at}
RqResAfter(at) == Release(rqRes, DeadQuotes(at))

\* #expireAdvances(at)
LapsedAdvances(at) == {a \in AdvanceIds : aState[a] = "quoted" /\ expiresAt[a] <= at}
AdvancesAfter(at) ==
    [a \in AdvanceIds |-> IF a \in LapsedAdvances(at) THEN "expired" ELSE aState[a]]
\* Mutant: the subquery forgets state = 'expired'.
MutDeadAdvances(at) == {a \in AdvanceIds : expiresAt[a] <= at}

DeadAdvances(at) ==
    {a \in AdvanceIds : AdvancesAfter(at)[a] = "expired" /\ expiresAt[a] <= at}
OpResAfter(at) == Release(opRes, DeadAdvances(at))

\* Mutant: the lookup in the advances' own table is forgotten.
MutFence(coins, expected, rq) == coins \cap (Occupied(rq) \cup Occupied(procIn)) = {}

\* Mutant: the union is compared with the one read before the awaits only.
MutFenceStale(coins, expected, rq) == coins \cap expected = {}

\* The compare of expectedReservedOutpoints with the current union, then the
\* per-input lookups of the four tables.
Fence(coins, expected, rq) ==
    /\ AllReserved(rq) = expected
    /\ coins \cap AllReserved(rq) = {}

\* Mutant: the pause is not consulted.
MutOpen == TRUE

\* policy.paused refuses admission.  assertFinancialMutationReady overlooks the
\* pause (ignoreManualPause), so a quote handed out before it may be claimed; the
\* gate's other blockers are the refusals of AbandonAdmission.
Open == ~policy.paused

-----------------------------------------------------------------------------
(* Quotes: admission, funding selection, persistence. *)

\* withAdmission lets one request in; the handler expires what has lapsed and
\* takes its policy snapshot.
Admit(id, rail) ==
    /\ draft = Idle
    /\ aState' = AdvancesAfter(now) /\ opRes' = OpResAfter(now)
    /\ qState' = QuotesAfter(now) /\ rqRes' = RqResAfter(now)
    /\ draft' = [phase |-> "admitted", rail |-> rail, id |-> id, coins |-> {},
                 reserved |-> {}, revision |-> policy.revision, at |-> now, attempts |-> 1]
    /\ UNCHANGED <<now, policy, kind, expiresAt, qRevision, located, fState, jState, inputs,
                   procIn, collector>>

AdmitTransfer(id) == aState[id] = "none" /\ Admit(id, "covenant")

AdmitSponsored(id) == aState[id] = "none" /\ Admit(id, "sponsored")

AdmitReceive(q) == qState[q] = "none" /\ Admit(q, "receive")

\* selectOperatorFunding: some spendable coins no flow holds.
Selectable(coins) == coins # {} /\ coins \cap AllReserved(rqRes) = {}

\* The first selection: the reserved union is remembered as the fence's witness.
SelectFunding(coins) ==
    /\ draft.phase = "admitted" /\ (draft.rail \in Kinds => Open)
    /\ WithinLimits(Exposure(qState))
    /\ Selectable(coins)
    /\ draft' = [draft EXCEPT !.phase = "selected", !.coins = coins,
                              !.reserved = AllReserved(rqRes), !.at = now]
    /\ UNCHANGED <<now, policy, rows, tables, collector>>

\* Second selection over live inventory: it must pick the same coins again.
Reselected == Selectable(draft.coins)

\* createReservedQuote's tail and reserveQuote.  createdAt was read somewhere
\* between the selection and the transaction.
ReserveQuote(at) ==
    /\ draft.phase = "selected" /\ draft.rail \in Kinds /\ Reselected /\ Open
    /\ at + QuoteTtl <= MaxTime
    /\ policy.revision = draft.revision
    /\ Fence(draft.coins, draft.reserved, RqResAfter(at))
    /\ WithinLimits(Exposure(QuotesAfter(at)))
    /\ aState' = [aState EXCEPT ![draft.id] = "quoted"]
    /\ kind' = [kind EXCEPT ![draft.id] = draft.rail]
    /\ expiresAt' = [expiresAt EXCEPT ![draft.id] = at + QuoteTtl]
    /\ inputs' = [inputs EXCEPT ![draft.id] = draft.coins]
    /\ opRes' = Assign(opRes, draft.coins, draft.id)
    /\ qState' = QuotesAfter(at) /\ rqRes' = RqResAfter(at)
    /\ draft' = Idle
    /\ UNCHANGED <<now, policy, qRevision, located, fState, jState, procIn, collector>>

\* ReceiveQuoteRepository.insert: createdAt is the instant of the selection.
InsertReceiveQuote ==
    LET at == draft.at IN
    /\ draft.phase = "selected" /\ draft.rail = "receive" /\ Reselected /\ Open
    /\ at + QuoteTtl <= MaxTime
    /\ policy.revision = draft.revision
    /\ Fence(draft.coins, draft.reserved, RqResAfter(at))
    /\ WithinLimits(Exposure(QuotesAfter(at)))
    /\ qState' = [QuotesAfter(at) EXCEPT ![draft.id] = "quoted"]
    /\ qRevision' = [qRevision EXCEPT ![draft.id] = draft.revision]
    /\ expiresAt' = [expiresAt EXCEPT ![draft.id] = at + QuoteTtl]
    /\ inputs' = [inputs EXCEPT ![draft.id] = draft.coins]
    /\ rqRes' = Assign(RqResAfter(at), draft.coins, draft.id)
    /\ draft' = Idle
    /\ UNCHANGED <<now, policy, aState, kind, located, fState, jState, opRes, procIn,
                   collector>>

\* Mutant: one attempt too many.
MutMayRetry == draft.attempts <= MaxAttempts

MayRetry == draft.attempts < MaxAttempts

\* A ReservationConflictError rolls the transaction back and the attempt starts
\* over; a transfer reads the policy again, a receive quote keeps its first read.
RetryReservation(at) ==
    /\ draft.phase = "selected" /\ draft.rail # "fill" /\ Reselected
    /\ policy.revision = draft.revision
    /\ ~Fence(draft.coins, draft.reserved, RqResAfter(at))
    /\ draft' = IF MayRetry
                THEN [draft EXCEPT !.phase = "admitted", !.coins = {}, !.reserved = {},
                                   !.attempts = @ + 1]
                ELSE Idle
    /\ UNCHANGED <<now, policy, rows, tables, collector>>

\* Any refusal, the admission timer, or a crash: nothing was persisted.
AbandonAdmission ==
    /\ draft # Idle
    /\ draft' = Idle
    /\ UNCHANGED <<now, policy, rows, tables, collector>>

-----------------------------------------------------------------------------
(* Claiming a quoted transfer. *)

\* submitLockup waits for the admission slot, then claimLockup runs: lapsed
\* quotes expire first, capacity is weighed again against the current policy.
ClaimLockup(id) ==
    /\ draft = Idle
    /\ AdvancesAfter(now)[id] = "quoted"
    /\ WithinLimits(Exposure(QuotesAfter(now)))
    /\ HeldBy(OpResAfter(now), id) = inputs[id]
    /\ aState' = [AdvancesAfter(now) EXCEPT ![id] = "locking"]
    /\ opRes' = OpResAfter(now)
    /\ qState' = QuotesAfter(now) /\ rqRes' = RqResAfter(now)
    /\ UNCHANGED <<now, policy, kind, expiresAt, qRevision, located, fState, jState, inputs,
                   procIn, draft, collector>>

\* An identical retry, or a claim of a lapsed quote: only the expiries commit.
ReplayLockup(id) ==
    /\ AdvancesAfter(now)[id] \notin {"none", "quoted"}
    /\ aState' = AdvancesAfter(now) /\ opRes' = OpResAfter(now)
    /\ qState' = QuotesAfter(now) /\ rqRes' = RqResAfter(now)
    /\ UNCHANGED <<now, policy, kind, expiresAt, qRevision, located, fState, jState, inputs,
                   procIn, draft, collector>>

\* firstRecoveryTick: the periodic expiry of both kinds of quote.
ExpireQuotes ==
    /\ LapsedAdvances(now) # {} \/ LapsedQuotes(now) # {}
    /\ aState' = AdvancesAfter(now) /\ opRes' = OpResAfter(now)
    /\ qState' = QuotesAfter(now) /\ rqRes' = RqResAfter(now)
    /\ UNCHANGED <<now, policy, kind, expiresAt, qRevision, located, fState, jState, inputs,
                   procIn, draft, collector>>

-----------------------------------------------------------------------------
(* Receive quotes become fills. *)

\* #cancelLiability and the fill row, for every fill in dead: signing failure,
\* FillRepository.expire and reconcileCancelled share this effect.
Cancellable == {q \in Receives : fState[q] = "submitting" /\ aState[q] = "locking"}

CancelFills(dead) ==
    /\ fState' = [q \in Receives |-> IF q \in dead THEN "cancelled" ELSE fState[q]]
    /\ aState' = [a \in AdvanceIds |-> IF a \in dead THEN "expired" ELSE aState[a]]
    /\ opRes' = Release(opRes, dead)

\* createFill up to its first await.  Fills of other quotes may expire here.
AdmitFill(q, stale) ==
    /\ draft = Idle
    /\ QuotesAfter(now)[q] = "quoted" /\ qRevision[q] = policy.revision
    /\ stale \subseteq Cancellable /\ CancelFills(stale)
    /\ qState' = QuotesAfter(now) /\ rqRes' = RqResAfter(now)
    /\ draft' = [phase |-> "selected", rail |-> "fill", id |-> q, coins |-> inputs[q],
                 reserved |-> {}, revision |-> policy.revision, at |-> now, attempts |-> 1]
    /\ UNCHANGED <<now, policy, kind, expiresAt, qRevision, located, jState, inputs,
                   procIn, collector>>

\* bindFill, with the clock createFill read before its awaits: the coins move
\* from the quote's rows to the advance's rows, and the advance starts locking.
BindFill ==
    LET q == draft.id
        at == draft.at
        freed == Release(RqResAfter(at), {q})
    IN
    /\ draft.phase = "selected" /\ draft.rail = "fill" /\ Open
    /\ policy.revision = draft.revision
    /\ QuotesAfter(at)[q] = "quoted" /\ qRevision[q] = policy.revision
    /\ inputs[q] \cap AllReserved(freed) = {}
    /\ aState' = [aState EXCEPT ![q] = "locking"]
    /\ kind' = [kind EXCEPT ![q] = "covenant"]
    /\ fState' = [fState EXCEPT ![q] = "submitting"]
    /\ qState' = [QuotesAfter(at) EXCEPT ![q] = "bound"]
    /\ opRes' = Assign(opRes, inputs[q], q)
    /\ rqRes' = freed
    /\ draft' = Idle
    /\ UNCHANGED <<now, policy, expiresAt, qRevision, located, jState, inputs,
                   procIn, collector>>

CancelFill(q) ==
    /\ q \in Cancellable /\ CancelFills({q})
    /\ UNCHANGED <<now, policy, kind, expiresAt, qState, qRevision, located, jState, inputs,
                   rqRes, procIn, draft, collector>>

\* reconcileSettled: #lockLiability locks the advance unless the lockup
\* reconciler already did; it throws when the outpoint was never recorded.
SettleFill(q) ==
    /\ fState[q] = "submitting" /\ (aState[q] = "locking" \/ q \in located)
    /\ fState' = [fState EXCEPT ![q] = "settled"]
    /\ aState' = [aState EXCEPT ![q] = IF @ = "locking" THEN "locked" ELSE @]
    /\ located' = located \cup {q}
    /\ UNCHANGED <<now, policy, kind, expiresAt, qState, qRevision, jState, inputs,
                   tables, draft, collector>>

-----------------------------------------------------------------------------
(* The chain is observed: lockups, spends, recovery. *)

\* recordLockupObserved for a covenant.
ObserveLockup(a) ==
    /\ aState[a] = "locking" /\ kind[a] = "covenant"
    /\ aState' = [aState EXCEPT ![a] = "locked"]
    /\ located' = located \cup ({a} \cap Receives)
    /\ UNCHANGED <<now, policy, kind, expiresAt, qState, qRevision, fState, jState,
                   inputs, tables, draft, collector>>

\* settleSponsored: two transactions, observation then release; the process may
\* die between them.
SettleSponsored(a, crashed) ==
    /\ aState[a] = "locking" /\ kind[a] = "sponsored"
    /\ aState' = [aState EXCEPT ![a] = "locked"]
    /\ opRes' = IF crashed THEN opRes ELSE Release(opRes, {a})
    /\ UNCHANGED <<now, policy, kind, expiresAt, qState, qRevision, located, fState, jState,
                   inputs, rqRes, procIn, draft, collector>>

\* Mutant: the tick visits the rows that are still locking instead.
MutReleaseSponsored(a) ==
    /\ aState[a] = "locking" /\ kind[a] = "sponsored" /\ HeldBy(opRes, a) = {}
    /\ opRes' = Release(opRes, {a})
    /\ UNCHANGED <<now, policy, rows, rqRes, procIn, draft, collector>>

\* The reconciler's tick releases a delivered sponsored row again until clean.
ReleaseSponsored(a) ==
    /\ aState[a] = "locked" /\ kind[a] = "sponsored" /\ HeldBy(opRes, a) # {}
    /\ opRes' = Release(opRes, {a})
    /\ UNCHANGED <<now, policy, rows, rqRes, procIn, draft, collector>>

\* claimRecoveryLease or recordRecoveryPreparationFailure.
BeginRecovery(a) ==
    /\ aState[a] = "locked" /\ kind[a] = "covenant"
    /\ aState' = [aState EXCEPT ![a] = "recovering"]
    /\ UNCHANGED <<now, policy, kind, expiresAt, qState, qRevision, located, fState, jState,
                   inputs, tables, draft, collector>>

\* recordSpendObservation: the receiver or the sender may spend a covenant the
\* reconciler has not yet observed, and may win against a recovery; the reclaim
\* leaf needs no key of the Taxi, so that spend too is seen from any state.
ObserveSpend(a, terminal) ==
    /\ kind[a] = "covenant" /\ aState[a] \in {"locking", "locked", "recovering"}
    /\ aState' = [aState EXCEPT ![a] = terminal]
    /\ opRes' = Release(opRes, {a})
    /\ UNCHANGED <<now, policy, kind, expiresAt, qState, qRevision, located, fState, jState,
                   inputs, rqRes, procIn, draft, collector>>

-----------------------------------------------------------------------------
(* The proceeds collector competes for the same coins. *)

\* run() reads the reservations, then awaits the provider and the chain tip.
PlanProceeds(coins) ==
    /\ collector = Idle
    /\ \A j \in Jobs : jState[j] \notin {"unsubmitted", "entered"}
    /\ Selectable(coins)
    /\ collector' = [phase |-> "planned", coins |-> coins, reserved |-> AllReserved(rqRes)]
    /\ UNCHANGED <<now, policy, rows, tables, draft>>

\* The collector's clock is Date.now(): milliseconds.
nowMs == 1000 * now

\* ProceedsRepository.create, called with the collector's clock.
CreateJob(j) ==
    /\ collector # Idle /\ jState[j] = "none"
    /\ Fence(collector.coins, collector.reserved, RqResAfter(nowMs))
    /\ jState' = [jState EXCEPT ![j] = "unsubmitted"]
    /\ inputs' = [inputs EXCEPT ![j] = collector.coins]
    /\ procIn' = Assign(procIn, collector.coins, j)
    /\ qState' = QuotesAfter(nowMs) /\ rqRes' = RqResAfter(nowMs)
    /\ collector' = Idle
    /\ UNCHANGED <<now, policy, aState, kind, expiresAt, qRevision, located, fState, opRes,
                   draft>>

\* proceeds_reservation_changed, a stopped collector, or a crash.
DropPlan ==
    /\ collector # Idle
    /\ collector' = Idle
    /\ UNCHANGED <<now, policy, rows, tables, draft>>

\* enterSubmission, fenced ahead of registerIntent.
EnterSubmission(j) ==
    /\ jState[j] = "unsubmitted"
    /\ jState' = [jState EXCEPT ![j] = "entered"]
    /\ UNCHANGED <<now, policy, aState, kind, expiresAt, qState, qRevision, located, fState,
                   inputs, tables, draft, collector>>

\* cancel drops an unsubmitted job; complete settles an entered one.
FinishJob(j) ==
    /\ jState[j] \in {"unsubmitted", "entered"}
    /\ jState' = [jState EXCEPT ![j] = IF @ = "unsubmitted" THEN "deleted" ELSE "complete"]
    /\ procIn' = Release(procIn, {j})
    /\ UNCHANGED <<now, policy, aState, kind, expiresAt, qState, qRevision, located, fState,
                   inputs, opRes, rqRes, draft, collector>>

-----------------------------------------------------------------------------
(* Environment: the administrator and the clock. *)

\* PolicyRepository.update: an edit that changes something bumps the revision.
\* recordLockupConflict, permanent failures and the sweeper pause through it.
UpdatePolicy(paused, limit) ==
    /\ policy.revision < MaxRevision
    /\ <<paused, limit>> # <<policy.paused, policy.limit>>
    /\ policy' = [paused |-> paused, limit |-> limit, revision |-> policy.revision + 1]
    /\ UNCHANGED <<now, rows, tables, draft, collector>>

Tick ==
    /\ now < MaxTime
    /\ now' = now + 1
    /\ UNCHANGED <<policy, rows, tables, draft, collector>>

-----------------------------------------------------------------------------
QuoteNext ==
    \/ \E t \in Transfers : AdmitTransfer(t) \/ AdmitSponsored(t)
    \/ \E q \in Receives : AdmitReceive(q)
    \/ \E coins \in SUBSET Coins : SelectFunding(coins)
    \/ \E at \in 0 .. now : draft.phase = "selected" /\ at >= draft.at
                            /\ (ReserveQuote(at) \/ RetryReservation(at))
    \/ InsertReceiveQuote
    \/ AbandonAdmission

ClaimNext ==
    \/ \E t \in Transfers : ClaimLockup(t) \/ ReplayLockup(t)
    \/ ExpireQuotes

FillNext ==
    \/ \E q \in Receives, stale \in SUBSET Receives : AdmitFill(q, stale)
    \/ BindFill
    \/ \E q \in Receives : CancelFill(q) \/ SettleFill(q)

ChainNext ==
    \E a \in AdvanceIds :
        \/ ObserveLockup(a)
        \/ \E crashed \in BOOLEAN : SettleSponsored(a, crashed)
        \/ ReleaseSponsored(a)
        \/ BeginRecovery(a)
        \/ \E terminal \in Terminal : ObserveSpend(a, terminal)

ProceedsNext ==
    \/ \E coins \in SUBSET Coins : PlanProceeds(coins)
    \/ \E j \in Jobs : CreateJob(j) \/ EnterSubmission(j) \/ FinishJob(j)
    \/ DropPlan

EnvNext ==
    \/ \E paused \in BOOLEAN, limit \in Limits : UpdatePolicy(paused, limit)
    \/ Tick

Next == QuoteNext \/ ClaimNext \/ FillNext \/ ChainNext \/ ProceedsNext \/ EnvNext

Spec == Init /\ [][Next]_vars

\* The operational tick runs every reconcileIntervalMs and the clock advances.
LiveSpec ==
    /\ Spec
    /\ WF_vars(Tick)
    /\ WF_vars(ExpireQuotes)
    /\ \A a \in AdvanceIds : WF_vars(ReleaseSponsored(a))

-----------------------------------------------------------------------------
(* Properties. *)

\* Every variable keeps the shape of its table or in-memory record.
TypeOK ==
    /\ now \in Nat
    /\ policy \in Policies
    /\ aState \in [AdvanceIds -> AdvanceStates]
    /\ kind \in [AdvanceIds -> Kinds]
    /\ expiresAt \in [AdvanceIds -> Nat]
    /\ qState \in [Receives -> QuoteStates]
    /\ qRevision \in [Receives -> Nat]
    /\ fState \in [Receives -> FillStates]
    /\ located \in SUBSET Receives
    /\ jState \in [Jobs -> JobStates]
    /\ inputs \in [Ids -> SUBSET Coins]
    /\ opRes \in [Coins -> AdvanceIds \cup {NoOwner}]
    /\ rqRes \in [Coins -> Receives \cup {NoOwner}]
    /\ procIn \in [Coins -> Jobs \cup {NoOwner}]
    /\ draft \in Drafts \cup {Idle}
    /\ collector \in Plans \cup {Idle}

\* The cross-flow fence: a coin is in at most one of the three reservation
\* tables, whatever the interleaving of quotes, fills, expiry and collection.
CoinFence ==
    /\ Occupied(opRes) \cap Occupied(rqRes) = {}
    /\ Occupied(opRes) \cap Occupied(procIn) = {}
    /\ Occupied(rqRes) \cap Occupied(procIn) = {}

\* An advance holds its inputs for as long as its lockup may still be broadcast
\* or its covenant be spent, and nothing once it is over.
AdvanceHoldsInputs ==
    \A a \in AdvanceIds :
        /\ \/ aState[a] \in {"quoted", "locking", "recovering"}
           \/ aState[a] = "locked" /\ kind[a] = "covenant"
           => HeldBy(opRes, a) = inputs[a]
        /\ aState[a] = "locked" /\ kind[a] = "sponsored" => HeldBy(opRes, a) \in {inputs[a], {}}
        /\ aState[a] \in {"none", "expired"} \cup Terminal => HeldBy(opRes, a) = {}

\* An open receive quote and an active proceeds job hold exactly the coins of
\* their row; a bound, expired, cancelled or completed one holds none.
QuoteAndJobHoldInputs ==
    /\ \A q \in Receives :
          HeldBy(rqRes, q) = IF qState[q] = "quoted" THEN inputs[q] ELSE {}
    /\ \A j \in Jobs :
          HeldBy(procIn, j) =
              IF jState[j] \in {"unsubmitted", "entered"} THEN inputs[j] ELSE {}

\* A receive quote, its fill and its advance move together: the advance exists
\* exactly when the quote is bound, is never merely quoted, a cancelled fill
\* leaves an expired advance, and a settled fill or a recorded outpoint an
\* advance that is past locking.
FillMatchesAdvance ==
    \A q \in Receives :
        /\ (qState[q] = "bound") = (fState[q] # "none")
        /\ (qState[q] = "bound") = (aState[q] # "none")
        /\ aState[q] # "quoted"
        /\ (fState[q] = "cancelled") = (aState[q] = "expired")
        /\ fState[q] = "settled" \/ q \in located
              => aState[q] \in {"locked", "recovering"} \cup Terminal

\* Whoever's coins they are, a live flow holds the coins of its row and a dead
\* one none, and the rows of one receive flow agree: also after an expiry, a
\* cancel or a completion that ran between two steps of another flow.
FlowsHoldTheirCoins == AdvanceHoldsInputs /\ QuoteAndJobHoldInputs /\ FillMatchesAdvance

\* The request in progress is for a row that is not there yet, or fills a quote
\* nobody has bound since, with the coins that quote holds.
DraftIsFresh ==
    draft # Idle =>
        /\ draft.rail \in Kinds => draft.id \in Transfers /\ aState[draft.id] = "none"
        /\ draft.rail = "receive" => draft.id \in Receives /\ qState[draft.id] = "none"
        /\ draft.rail = "fill" => /\ draft.id \in Receives /\ draft.phase = "selected"
                                  /\ qState[draft.id] \in {"quoted", "expired"}
                                  /\ draft.coins = inputs[draft.id]

\* A step that raises the operator's exposure leaves it within the caps of the
\* policy in force at that step, also when the caps were cut after the quote.
ExposureRisesWithinLimits ==
    [][Exposure(qState)' > Exposure(qState) =>
          /\ Exposure(qState)' * Dust <= policy.limit.sats
          /\ Exposure(qState)' <= policy.limit.count]_vars

\* While the policy is paused no quote is issued and no fill bound: a request
\* that was admitted before the pause cannot slip through.  A transfer quoted
\* before the pause may still be claimed.
PauseClosesAdmission ==
    [][policy.paused =>
          /\ \A a \in AdvanceIds : aState'[a] = "quoted" => aState[a] = "quoted"
          /\ \A q \in Receives : aState'[q] = "locking" => aState[q] = "locking"
          /\ \A q \in Receives : qState'[q] = "quoted" => qState[q] = "quoted"]_vars

\* A sender's quote is claimed before its deadline or not at all, and nothing
\* that is expired or terminal ever comes back.
ClaimBeforeDeadline ==
    [][\A a \in AdvanceIds :
          /\ aState[a] = "quoted" /\ aState'[a] = "locking" => now < expiresAt[a]
          /\ aState[a] \in Terminal \cup {"expired"} => aState'[a] = aState[a]]_vars

\* What a request was admitted under holds when it takes effect: the caps, the
\* pause and the deadline may all change at any await before it.
AdmissionIsCurrent == ExposureRisesWithinLimits /\ PauseClosesAdmission /\ ClaimBeforeDeadline

\* Coins of an unclaimed quote and of a delivered sponsored payment are given
\* back eventually, also when the process died before releasing them.
CoinsComeBack ==
    \A a \in AdvanceIds :
        /\ aState[a] = "quoted" ~> aState[a] # "quoted"
        /\ (aState[a] = "locked" /\ kind[a] = "sponsored") ~> HeldBy(opRes, a) = {}

\* Each coin's owner over the three tables, as the single-owner ledger sees it.
Owner == [c \in Coins |-> IF opRes[c] # NoOwner THEN opRes[c]
                          ELSE IF rqRes[c] # NoOwner THEN rqRes[c] ELSE procIn[c]]

Ledger == INSTANCE CoinLedger WITH owner <- Owner

\* The three tables together behave as one ledger of exclusive owners.
ImplementsCoinLedger == Ledger!Spec

-----------------------------------------------------------------------------
(* What the repository's documentation says and the code does not do. *)

\* integration-js.md: expiresAt is in Unix seconds; an open receive quote is good
\* until that second whatever the proceeds collector does.
ReceiveQuoteLivesToDeadline ==
    [][\A q \in Receives :
          qState[q] = "quoted" /\ qState'[q] = "expired" => expiresAt[q] <= now]_vars
=============================================================================
