------------------------- MODULE ReservationsProofs -------------------------
(***************************************************************************)
(* Proofs about Reservations for every number of coins, requests and jobs: *)
(* the invariants, what holds of an admission when it takes effect, and    *)
(* that the three reservation tables implement CoinLedger.                 *)
(***************************************************************************)
EXTENDS Reservations, FiniteSetTheorems, TLAPS

USE DEF Ids, AdvanceIds

(* What the helpers on reservation tables return. *)

\* Release only removes rows: it keeps the owners of a table in their set.
LEMMA ReleaseType ==
    ASSUME NEW S, NEW t \in [Coins -> S \cup {NoOwner}], NEW dead
    PROVE  /\ Release(t, dead) \in [Coins -> S \cup {NoOwner}]
           /\ Occupied(Release(t, dead)) \subseteq Occupied(t)
    BY DEF Release, Occupied

\* Assign writes one owner's rows.
LEMMA AssignType ==
    ASSUME NEW S, NEW t \in [Coins -> S \cup {NoOwner}], NEW coins \in SUBSET Coins, NEW i \in S
    PROVE  /\ Assign(t, coins, i) \in [Coins -> S \cup {NoOwner}]
           /\ Occupied(Assign(t, coins, i)) \subseteq Occupied(t) \cup coins
    BY DEF Assign, Occupied

\* Assigning coins occupies at most those coins more.
LEMMA AssignOccupies ==
    ASSUME NEW t, NEW coins, NEW i
    PROVE  Occupied(Assign(t, coins, i)) \subseteq Occupied(t) \cup coins
    BY DEF Assign, Occupied

\* The expiry of both kinds of quote keeps every table well typed.
LEMMA ExpiryType ==
    ASSUME TypeOK, NEW at \in Nat
    PROVE  /\ QuotesAfter(at) \in [Receives -> QuoteStates]
           /\ RqResAfter(at) \in [Coins -> Receives \cup {NoOwner}]
           /\ AdvancesAfter(at) \in [AdvanceIds -> AdvanceStates]
           /\ OpResAfter(at) \in [Coins -> AdvanceIds \cup {NoOwner}]
  <1>1. QuotesAfter(at) \in [Receives -> QuoteStates]
    BY DEF TypeOK, QuotesAfter, QuoteStates
  <1>2. AdvancesAfter(at) \in [AdvanceIds -> AdvanceStates]
    BY DEF TypeOK, AdvancesAfter, AdvanceStates
  <1>3. RqResAfter(at) \in [Coins -> Receives \cup {NoOwner}]
    BY ReleaseType DEF TypeOK, RqResAfter
  <1>4. OpResAfter(at) \in [Coins -> AdvanceIds \cup {NoOwner}]
    BY ReleaseType DEF TypeOK, OpResAfter
  <1> QED BY <1>1, <1>2, <1>3, <1>4

-----------------------------------------------------------------------------
(* Type correctness. *)

LEMMA InitType == Init => TypeOK
  <1> SUFFICES ASSUME Init PROVE TypeOK OBVIOUS
  <1>1. policy \in Policies
    BY DEF Init, Policies
  <1>2. /\ aState \in [AdvanceIds -> AdvanceStates] /\ kind \in [AdvanceIds -> Kinds]
        /\ qState \in [Receives -> QuoteStates] /\ fState \in [Receives -> FillStates]
        /\ jState \in [Jobs -> JobStates]
    BY DEF Init, Kinds, AdvanceStates, QuoteStates, FillStates, JobStates
  <1>3. /\ opRes \in [Coins -> AdvanceIds \cup {NoOwner}]
        /\ rqRes \in [Coins -> Receives \cup {NoOwner}]
        /\ procIn \in [Coins -> Jobs \cup {NoOwner}]
        /\ inputs \in [Ids -> SUBSET Coins]
    BY DEF Init
  <1>4. /\ now \in Nat /\ expiresAt \in [AdvanceIds -> Nat]
        /\ qRevision \in [Receives -> Nat] /\ located \in SUBSET Receives
        /\ draft \in Drafts \cup {Idle} /\ collector \in Plans \cup {Idle}
    BY DEF Init
  <1> QED BY <1>1, <1>2, <1>3, <1>4 DEF TypeOK

LEMMA QuoteType == TypeOK /\ DraftIsFresh /\ QuoteNext => TypeOK'
  <1> SUFFICES ASSUME TypeOK, DraftIsFresh, QuoteNext PROVE TypeOK' OBVIOUS
  <1> USE BoundsAssumption
  <1>1. now \in Nat /\ \A at \in 0 .. now : at \in Nat
    BY DEF TypeOK
  <1>2. ASSUME NEW id \in AdvanceIds, NEW rail \in Kinds \cup {"receive"}, Admit(id, rail)
        PROVE TypeOK'
    <2>1. draft' \in Drafts
      BY <1>2 DEF TypeOK, Admit, Drafts, Policies
    <2> QED BY <2>1, <1>1, <1>2, ExpiryType DEF TypeOK, Admit
  <1>3. ASSUME NEW coins \in SUBSET Coins, SelectFunding(coins) PROVE TypeOK'
    <2>1. draft \in Drafts
      BY <1>3 DEF TypeOK, SelectFunding, Idle
    <2>2. draft' \in Drafts
      BY <2>1, <1>3 DEF TypeOK, SelectFunding, Drafts, AllReserved, Occupied
    <2> QED BY <2>2, <1>3 DEF TypeOK, SelectFunding, rows, tables
  <1>4. ASSUME NEW at \in 0 .. now, ReserveQuote(at) PROVE TypeOK'
    <2>1. draft \in Drafts
      BY <1>4 DEF TypeOK, ReserveQuote, Idle
    <2>2. draft.id \in AdvanceIds /\ draft.coins \in SUBSET Coins /\ at + QuoteTtl \in Nat
      BY <2>1, <1>1 DEF Drafts
    <2>3. opRes' \in [Coins -> AdvanceIds \cup {NoOwner}]
      BY <2>2, <1>4, AssignType DEF TypeOK, ReserveQuote
    <2>4. /\ aState' \in [AdvanceIds -> AdvanceStates]
          /\ kind' \in [AdvanceIds -> Kinds]
          /\ expiresAt' \in [AdvanceIds -> Nat]
          /\ inputs' \in [Ids -> SUBSET Coins]
      BY <2>2, <1>4 DEF TypeOK, ReserveQuote, AdvanceStates
    <2> QED BY <2>3, <2>4, <1>1, <1>4, ExpiryType DEF TypeOK, ReserveQuote
  <1>5. ASSUME InsertReceiveQuote PROVE TypeOK'
    <2>1. draft \in Drafts /\ draft.id \in Receives
      BY <1>5 DEF TypeOK, InsertReceiveQuote, Idle, DraftIsFresh
    <2>2. /\ draft.coins \in SUBSET Coins /\ draft.at \in Nat /\ draft.revision \in Nat
          /\ draft.at + QuoteTtl \in Nat
      BY <2>1 DEF Drafts
    <2>3. rqRes' \in [Coins -> Receives \cup {NoOwner}]
      BY <2>1, <2>2, <1>5, AssignType, ExpiryType DEF InsertReceiveQuote
    <2>4. qState' \in [Receives -> QuoteStates]
      BY <2>1, <2>2, <1>5, ExpiryType DEF InsertReceiveQuote, QuoteStates
    <2>5. /\ qRevision' \in [Receives -> Nat] /\ expiresAt' \in [AdvanceIds -> Nat]
          /\ inputs' \in [Ids -> SUBSET Coins]
      BY <2>1, <2>2, <1>5 DEF TypeOK, InsertReceiveQuote
    <2> QED BY <2>3, <2>4, <2>5, <1>5 DEF TypeOK, InsertReceiveQuote
  <1>6. ASSUME NEW at \in 0 .. now, RetryReservation(at) PROVE TypeOK'
    <2>1. draft \in Drafts
      BY <1>6 DEF TypeOK, RetryReservation, Idle
    <2>2. CASE MayRetry
      <3>1. draft.attempts + 1 \in 1 .. MaxAttempts
        BY <2>1, <2>2 DEF Drafts, MayRetry
      <3>2. draft' \in Drafts
        BY <3>1, <2>1, <2>2, <1>6 DEF RetryReservation, Drafts
      <3> QED BY <3>2, <1>6 DEF TypeOK, RetryReservation, rows, tables
    <2>3. CASE ~MayRetry
      BY <2>3, <1>6 DEF TypeOK, RetryReservation, rows, tables
    <2> QED BY <2>2, <2>3
  <1>7. ASSUME AbandonAdmission PROVE TypeOK'
    BY <1>7 DEF TypeOK, AbandonAdmission, rows, tables
  <1> QED BY <1>2, <1>3, <1>4, <1>5, <1>6, <1>7
          DEF QuoteNext, AdmitTransfer, AdmitSponsored, AdmitReceive, Kinds

LEMMA ClaimType == TypeOK /\ ClaimNext => TypeOK'
  <1> SUFFICES ASSUME TypeOK, ClaimNext PROVE TypeOK' OBVIOUS
  <1>1. now \in Nat
    BY DEF TypeOK
  <1>2. ASSUME NEW t \in Transfers, ClaimLockup(t) PROVE TypeOK'
    <2>1. aState' \in [AdvanceIds -> AdvanceStates]
      BY <1>1, <1>2, ExpiryType DEF ClaimLockup, AdvanceStates
    <2> QED BY <2>1, <1>1, <1>2, ExpiryType DEF TypeOK, ClaimLockup
  <1>3. ASSUME NEW t \in Transfers, ReplayLockup(t) PROVE TypeOK'
    BY <1>1, <1>3, ExpiryType DEF TypeOK, ReplayLockup
  <1>4. ASSUME ExpireQuotes PROVE TypeOK'
    BY <1>1, <1>4, ExpiryType DEF TypeOK, ExpireQuotes
  <1> QED BY <1>2, <1>3, <1>4 DEF ClaimNext

\* Cancelling fills keeps the three variables it writes well typed.
LEMMA CancelType ==
    ASSUME TypeOK, NEW dead, CancelFills(dead)
    PROVE  /\ fState' \in [Receives -> FillStates]
           /\ aState' \in [AdvanceIds -> AdvanceStates]
           /\ opRes' \in [Coins -> AdvanceIds \cup {NoOwner}]
  <1>1. fState' \in [Receives -> FillStates] /\ aState' \in [AdvanceIds -> AdvanceStates]
    BY DEF TypeOK, CancelFills, FillStates, AdvanceStates
  <1> QED BY <1>1, ReleaseType DEF TypeOK, CancelFills

LEMMA FillType == TypeOK /\ DraftIsFresh /\ FillNext => TypeOK'
  <1> SUFFICES ASSUME TypeOK, DraftIsFresh, FillNext PROVE TypeOK' OBVIOUS
  <1> USE BoundsAssumption
  <1>1. now \in Nat
    BY DEF TypeOK
  <1>2. ASSUME NEW q \in Receives, NEW stale \in SUBSET Receives, AdmitFill(q, stale)
        PROVE TypeOK'
    <2>1. draft' \in Drafts
      BY <1>2 DEF TypeOK, AdmitFill, Drafts, Policies
    <2> QED BY <2>1, <1>1, <1>2, ExpiryType, CancelType DEF TypeOK, AdmitFill
  <1>3. ASSUME BindFill PROVE TypeOK'
    <2>1. draft \in Drafts /\ draft.id \in Receives
      BY <1>3 DEF TypeOK, BindFill, Idle, DraftIsFresh
    <2>2. draft.at \in Nat /\ inputs[draft.id] \in SUBSET Coins
      BY <2>1 DEF Drafts, TypeOK
    <2>3. /\ rqRes' \in [Coins -> Receives \cup {NoOwner}]
          /\ opRes' \in [Coins -> AdvanceIds \cup {NoOwner}]
      BY <2>1, <2>2, <1>3, ExpiryType, ReleaseType, AssignType DEF TypeOK, BindFill
    <2>4. qState' \in [Receives -> QuoteStates]
      BY <2>1, <2>2, <1>3, ExpiryType DEF BindFill, QuoteStates
    <2>5. /\ aState' \in [AdvanceIds -> AdvanceStates] /\ kind' \in [AdvanceIds -> Kinds]
          /\ fState' \in [Receives -> FillStates]
      BY <2>1, <1>3 DEF TypeOK, BindFill, AdvanceStates, Kinds, FillStates
    <2> QED BY <2>3, <2>4, <2>5, <1>3 DEF TypeOK, BindFill
  <1>4. ASSUME NEW q \in Receives, CancelFill(q) PROVE TypeOK'
    BY <1>4, CancelType DEF TypeOK, CancelFill
  <1>5. ASSUME NEW q \in Receives, SettleFill(q) PROVE TypeOK'
    <2>1. aState' \in [AdvanceIds -> AdvanceStates] /\ fState' \in [Receives -> FillStates]
      BY <1>5 DEF TypeOK, SettleFill, AdvanceStates, FillStates
    <2> QED BY <2>1, <1>5 DEF TypeOK, SettleFill, tables
  <1> QED BY <1>2, <1>3, <1>4, <1>5 DEF FillNext

LEMMA ChainType == TypeOK /\ ChainNext => TypeOK'
  <1> SUFFICES ASSUME TypeOK, NEW a \in AdvanceIds,
                      \/ ObserveLockup(a)
                      \/ \E crashed \in BOOLEAN : SettleSponsored(a, crashed)
                      \/ ReleaseSponsored(a)
                      \/ BeginRecovery(a)
                      \/ \E terminal \in Terminal : ObserveSpend(a, terminal)
               PROVE TypeOK'
    BY DEF ChainNext
  <1>1. Release(opRes, {a}) \in [Coins -> AdvanceIds \cup {NoOwner}]
    BY ReleaseType DEF TypeOK
  <1>2. CASE ObserveLockup(a)
    BY <1>2 DEF TypeOK, ObserveLockup, AdvanceStates, tables
  <1>3. ASSUME NEW crashed \in BOOLEAN, SettleSponsored(a, crashed) PROVE TypeOK'
    BY <1>1, <1>3 DEF TypeOK, SettleSponsored, AdvanceStates
  <1>4. CASE ReleaseSponsored(a)
    BY <1>1, <1>4 DEF TypeOK, ReleaseSponsored, rows
  <1>5. CASE BeginRecovery(a)
    BY <1>5 DEF TypeOK, BeginRecovery, AdvanceStates, tables
  <1>6. ASSUME NEW terminal \in Terminal, ObserveSpend(a, terminal) PROVE TypeOK'
    BY <1>1, <1>6 DEF TypeOK, ObserveSpend, AdvanceStates
  <1> QED BY <1>2, <1>3, <1>4, <1>5, <1>6

LEMMA ProceedsType == TypeOK /\ ProceedsNext => TypeOK'
  <1> SUFFICES ASSUME TypeOK, ProceedsNext PROVE TypeOK' OBVIOUS
  <1>1. ASSUME NEW coins \in SUBSET Coins, PlanProceeds(coins) PROVE TypeOK'
    <2>1. collector' \in Plans
      BY <1>1 DEF PlanProceeds, Plans, AllReserved, Occupied
    <2> QED BY <2>1, <1>1 DEF TypeOK, PlanProceeds, rows, tables
  <1>2. ASSUME NEW j \in Jobs, CreateJob(j) PROVE TypeOK'
    <2>1. nowMs \in Nat /\ collector \in Plans /\ collector.coins \in SUBSET Coins
      BY <1>2 DEF TypeOK, nowMs, CreateJob, Plans
    <2>2. procIn' \in [Coins -> Jobs \cup {NoOwner}]
      BY <2>1, <1>2, AssignType DEF TypeOK, CreateJob
    <2>3. jState' \in [Jobs -> JobStates] /\ inputs' \in [Ids -> SUBSET Coins]
      BY <2>1, <1>2 DEF TypeOK, CreateJob, JobStates
    <2> QED BY <2>1, <2>2, <2>3, <1>2, ExpiryType DEF TypeOK, CreateJob
  <1>3. ASSUME NEW j \in Jobs, EnterSubmission(j) PROVE TypeOK'
    BY <1>3 DEF TypeOK, EnterSubmission, JobStates, tables
  <1>4. ASSUME NEW j \in Jobs, FinishJob(j) PROVE TypeOK'
    <2>1. jState' \in [Jobs -> JobStates]
      BY <1>4 DEF TypeOK, FinishJob, JobStates
    <2> QED BY <2>1, <1>4, ReleaseType DEF TypeOK, FinishJob
  <1>5. ASSUME DropPlan PROVE TypeOK'
    BY <1>5 DEF TypeOK, DropPlan, rows, tables
  <1> QED BY <1>1, <1>2, <1>3, <1>4, <1>5 DEF ProceedsNext

LEMMA EnvType == TypeOK /\ EnvNext => TypeOK'
  <1> SUFFICES ASSUME TypeOK, EnvNext PROVE TypeOK' OBVIOUS
  <1>1. ASSUME NEW paused \in BOOLEAN, NEW limit \in Limits, UpdatePolicy(paused, limit)
        PROVE TypeOK'
    <2>1. policy' \in Policies
      BY <1>1 DEF TypeOK, UpdatePolicy, Policies
    <2> QED BY <2>1, <1>1 DEF TypeOK, UpdatePolicy, rows, tables
  <1>2. CASE Tick
    BY <1>2 DEF TypeOK, Tick, rows, tables
  <1> QED BY <1>1, <1>2 DEF EnvNext

LEMMA NextType == TypeOK /\ DraftIsFresh /\ [Next]_vars => TypeOK'
  <1> SUFFICES ASSUME TypeOK, DraftIsFresh, [Next]_vars PROVE TypeOK' OBVIOUS
  <1>1. CASE UNCHANGED vars
    BY <1>1 DEF vars, rows, tables, TypeOK
  <1> QED BY <1>1, QuoteType, ClaimType, FillType, ChainType, ProceedsType, EnvType DEF Next

-----------------------------------------------------------------------------
(* The request in progress stays fresh. *)

\* Expiry never touches a row that does not exist and never unbinds a quote.
LEMMA ExpiryStates ==
    ASSUME TypeOK, NEW at \in Nat
    PROVE  /\ \A a \in AdvanceIds :
                 /\ aState[a] # "quoted" => AdvancesAfter(at)[a] = aState[a]
                 /\ AdvancesAfter(at)[a] \in {aState[a], "expired"}
           /\ \A q \in Receives :
                 /\ qState[q] # "quoted" => QuotesAfter(at)[q] = qState[q]
                 /\ QuotesAfter(at)[q] \in {qState[q], "expired"}
    BY DEF TypeOK, AdvancesAfter, LapsedAdvances, QuotesAfter, LapsedQuotes

LEMMA NextFresh == TypeOK /\ DraftIsFresh /\ [Next]_vars => DraftIsFresh'
  <1> SUFFICES ASSUME TypeOK, DraftIsFresh, [Next]_vars PROVE DraftIsFresh' OBVIOUS
  <1> USE IdsAssumption DEF Kinds
  <1>1. now \in Nat /\ nowMs \in Nat
    BY DEF TypeOK, nowMs
  \* Nothing but an expiry happens to the rows the draft is about.
  <1>2. ASSUME draft' = draft, inputs' = inputs, NEW at \in Nat,
               \/ aState' = aState \/ aState' = AdvancesAfter(at)
               \/ \A t \in Transfers : aState[t] = "none" => aState'[t] = "none",
               qState' = qState \/ qState' = QuotesAfter(at)
        PROVE DraftIsFresh'
    BY <1>2, ExpiryStates DEF DraftIsFresh, TypeOK
  <1>3. CASE draft' = Idle
    BY <1>3 DEF DraftIsFresh
  <1>4. CASE UNCHANGED vars
    BY <1>4, <1>2, <1>1 DEF vars, rows
  <1>5. ASSUME QuoteNext PROVE DraftIsFresh'
    <2>1. ASSUME NEW t \in Transfers, AdmitTransfer(t) \/ AdmitSponsored(t) PROVE DraftIsFresh'
      BY <2>1, <1>1, ExpiryStates DEF AdmitTransfer, AdmitSponsored, Admit, DraftIsFresh, TypeOK
    <2>2. ASSUME NEW q \in Receives, AdmitReceive(q) PROVE DraftIsFresh'
      BY <2>2, <1>1, ExpiryStates DEF AdmitReceive, Admit, DraftIsFresh, TypeOK
    <2>3. ASSUME NEW coins \in SUBSET Coins, SelectFunding(coins) PROVE DraftIsFresh'
      <3>1. draft \in Drafts
        BY <2>3 DEF TypeOK, SelectFunding, Idle
      <3>2. /\ draft'.rail = draft.rail /\ draft'.id = draft.id
            /\ UNCHANGED <<aState, qState, inputs>>
        BY <2>3, <3>1 DEF SelectFunding, rows, Drafts
      <3>3. draft.rail # "fill"
        BY <3>1, <2>3 DEF DraftIsFresh, SelectFunding, Idle
      <3> QED BY <3>1, <3>2, <3>3, <2>3 DEF DraftIsFresh, SelectFunding, Idle
    <2>4. ASSUME NEW at \in 0 .. now, RetryReservation(at) PROVE DraftIsFresh'
      <3>1. draft \in Drafts
        BY <2>4 DEF TypeOK, RetryReservation, Idle
      <3>2. CASE MayRetry
        <4>1. /\ draft'.rail = draft.rail /\ draft'.id = draft.id
              /\ UNCHANGED <<aState, qState, inputs>>
          BY <2>4, <3>1, <3>2 DEF RetryReservation, rows, Drafts
        <4> QED BY <3>1, <4>1, <2>4 DEF DraftIsFresh, RetryReservation, Idle
      <3> QED BY <3>2, <2>4, <1>3 DEF RetryReservation
    <2> QED BY <2>1, <2>2, <2>3, <2>4, <1>3, <1>5
            DEF QuoteNext, ReserveQuote, InsertReceiveQuote, AbandonAdmission
  <1>6. ASSUME ClaimNext PROVE DraftIsFresh'
    <2>1. ASSUME NEW t \in Transfers, ClaimLockup(t) PROVE DraftIsFresh'
      BY <2>1, <1>3 DEF ClaimLockup
    <2> QED BY <2>1, <1>1, <1>2, <1>6 DEF ClaimNext, ReplayLockup, ExpireQuotes
  <1>7. ASSUME FillNext PROVE DraftIsFresh'
    <2>1. ASSUME NEW q \in Receives, NEW stale \in SUBSET Receives, AdmitFill(q, stale)
          PROVE DraftIsFresh'
      BY <2>1, <1>1 DEF AdmitFill, DraftIsFresh, TypeOK
    <2>2. ASSUME BindFill PROVE DraftIsFresh'
      BY <2>2, <1>3 DEF BindFill
    <2>3. ASSUME NEW q \in Receives, CancelFill(q) PROVE DraftIsFresh'
      <3>1. \A t \in Transfers : aState'[t] = aState[t]
        BY <2>3 DEF CancelFill, CancelFills, TypeOK
      <3> QED BY <3>1, <2>3, <1>1, <1>2 DEF CancelFill
    <2>4. ASSUME NEW q \in Receives, SettleFill(q) PROVE DraftIsFresh'
      <3>1. \A t \in Transfers : aState'[t] = aState[t]
        BY <2>4 DEF SettleFill, TypeOK
      <3> QED BY <3>1, <2>4, <1>1, <1>2 DEF SettleFill
    <2> QED BY <2>1, <2>2, <2>3, <2>4, <1>7 DEF FillNext
  <1>8. ASSUME ChainNext PROVE DraftIsFresh'
    <2>1. \A t \in Transfers : aState[t] = "none" => aState'[t] = "none"
      BY <1>8 DEF ChainNext, ObserveLockup, SettleSponsored, ReleaseSponsored, BeginRecovery,
                  ObserveSpend, rows, TypeOK
    <2>2. UNCHANGED <<draft, inputs, qState>>
      BY <1>8 DEF ChainNext, ObserveLockup, SettleSponsored, ReleaseSponsored, BeginRecovery,
                  ObserveSpend, rows
    <2> QED BY <2>1, <2>2, <1>1, <1>2
  <1>9. ASSUME ProceedsNext PROVE DraftIsFresh'
    <2>1. ASSUME NEW j \in Jobs, CreateJob(j) PROVE DraftIsFresh'
      <3>1. \A q \in Receives : inputs'[q] = inputs[q]
        BY <2>1 DEF CreateJob, TypeOK
      <3> QED BY <3>1, <2>1, <1>1, ExpiryStates DEF CreateJob, DraftIsFresh, TypeOK
    <2> QED BY <2>1, <1>1, <1>2, <1>9
            DEF ProceedsNext, PlanProceeds, EnterSubmission, FinishJob, DropPlan, rows
  <1>10. ASSUME EnvNext PROVE DraftIsFresh'
    BY <1>10, <1>1, <1>2 DEF EnvNext, UpdatePolicy, Tick, rows
  <1> QED BY <1>4, <1>5, <1>6, <1>7, <1>8, <1>9, <1>10 DEF Next

-----------------------------------------------------------------------------
(* A receive quote, its fill and its advance agree. *)

LEMMA NextFillMatches ==
    TypeOK /\ DraftIsFresh /\ FillMatchesAdvance /\ [Next]_vars => FillMatchesAdvance'
  <1> SUFFICES ASSUME TypeOK, DraftIsFresh, FillMatchesAdvance, [Next]_vars
               PROVE  FillMatchesAdvance'
    OBVIOUS
  <1> USE IdsAssumption
  <1>1. now \in Nat /\ nowMs \in Nat
    BY DEF TypeOK, nowMs
  \* Steps that leave fills alone and do no more than expire receive quotes.
  <1>2. ASSUME UNCHANGED <<fState, located>>, NEW at \in Nat,
               \A q \in Receives : aState'[q] = aState[q],
               qState' = qState \/ qState' = QuotesAfter(at)
        PROVE FillMatchesAdvance'
    BY <1>2, ExpiryStates DEF FillMatchesAdvance, TypeOK
  <1>3. ASSUME NEW at \in Nat, aState' = AdvancesAfter(at)
        PROVE  \A q \in Receives : aState'[q] = aState[q]
    BY <1>3, ExpiryStates DEF FillMatchesAdvance
  <1>4. CASE UNCHANGED vars
    BY <1>4, <1>1, <1>2 DEF vars, rows
  <1>5. ASSUME QuoteNext PROVE FillMatchesAdvance'
    <2>1. ASSUME NEW id \in AdvanceIds, NEW rail, Admit(id, rail) PROVE FillMatchesAdvance'
      BY <2>1, <1>1, <1>2, <1>3 DEF Admit
    <2>2. ASSUME NEW at \in 0 .. now, ReserveQuote(at) PROVE FillMatchesAdvance'
      <3>1. draft # Idle /\ draft.id \in Transfers /\ at \in Nat
        BY <2>2, <1>1 DEF ReserveQuote, DraftIsFresh, Idle
      <3>2. \A q \in Receives : aState'[q] = aState[q]
        BY <2>2, <3>1 DEF ReserveQuote, TypeOK
      <3> QED BY <3>1, <3>2, <2>2, <1>2 DEF ReserveQuote
    <2>3. ASSUME InsertReceiveQuote PROVE FillMatchesAdvance'
      <3>1. draft # Idle /\ draft.id \in Receives /\ qState[draft.id] = "none" /\ draft.at \in Nat
        BY <2>3 DEF InsertReceiveQuote, DraftIsFresh, Idle, TypeOK, Drafts
      <3>2. \A q \in Receives : (qState'[q] = "bound") = (qState[q] = "bound")
        <4>1. qState' = [QuotesAfter(draft.at) EXCEPT ![draft.id] = "quoted"]
          BY <2>3 DEF InsertReceiveQuote
        <4> QED BY <3>1, <4>1, ExpiryStates, ExpiryType
      <3>3. UNCHANGED <<aState, fState, located>>
        BY <2>3 DEF InsertReceiveQuote
      <3> QED BY <3>2, <3>3 DEF FillMatchesAdvance
    <2> QED BY <2>1, <2>2, <2>3, <1>1, <1>2, <1>5
            DEF QuoteNext, AdmitTransfer, AdmitSponsored, AdmitReceive, SelectFunding,
                RetryReservation, AbandonAdmission, rows
  <1>6. ASSUME ClaimNext PROVE FillMatchesAdvance'
    <2>1. ASSUME NEW t \in Transfers, ClaimLockup(t) PROVE FillMatchesAdvance'
      <3>1. \A q \in Receives : aState'[q] = AdvancesAfter(now)[q]
        BY <2>1, <1>1, ExpiryType DEF ClaimLockup
      <3>2. \A q \in Receives : aState'[q] = aState[q]
        BY <3>1, <1>1, ExpiryStates DEF FillMatchesAdvance
      <3> QED BY <3>2, <2>1, <1>1, <1>2 DEF ClaimLockup
    <2> QED BY <2>1, <1>1, <1>2, <1>3, <1>6 DEF ClaimNext, ReplayLockup, ExpireQuotes
  <1>7. ASSUME FillNext PROVE FillMatchesAdvance'
    <2>1. ASSUME NEW dead \in SUBSET Cancellable, CancelFills(dead), located' = located,
                 NEW at \in Nat, qState' = qState \/ qState' = QuotesAfter(at)
          PROVE FillMatchesAdvance'
      <3>1. \A q \in Receives : /\ q \in dead => fState'[q] = "cancelled" /\ aState'[q] = "expired"
                                /\ q \notin dead => fState'[q] = fState[q] /\ aState'[q] = aState[q]
        BY <2>1 DEF CancelFills, TypeOK
      <3>2. \A q \in dead : fState[q] = "submitting" /\ aState[q] = "locking"
        BY DEF Cancellable
      <3>3. \A q \in Receives : (qState'[q] = "bound") = (qState[q] = "bound")
        BY <2>1, ExpiryStates
      <3> QED BY <3>1, <3>2, <3>3, <2>1 DEF FillMatchesAdvance, Terminal
    <2>2. ASSUME NEW q \in Receives, NEW stale \in SUBSET Receives, AdmitFill(q, stale)
          PROVE FillMatchesAdvance'
      BY <2>1, <2>2, <1>1 DEF AdmitFill
    <2>3. ASSUME BindFill PROVE FillMatchesAdvance'
      <3>1. draft # Idle /\ draft.id \in Receives /\ draft.at \in Nat
        BY <2>3 DEF BindFill, DraftIsFresh, Idle, TypeOK, Drafts
      <3>2. /\ qState' = [QuotesAfter(draft.at) EXCEPT ![draft.id] = "bound"]
            /\ aState' = [aState EXCEPT ![draft.id] = "locking"]
            /\ fState' = [fState EXCEPT ![draft.id] = "submitting"]
            /\ located' = located /\ qState[draft.id] = "quoted"
        BY <3>1, <2>3, ExpiryStates DEF BindFill, DraftIsFresh
      <3>3. \A q \in Receives :
                (qState'[q] = "bound") = (q = draft.id \/ qState[q] = "bound")
        BY <3>1, <3>2, ExpiryStates, ExpiryType
      <3>4. \A q \in Receives \ {draft.id} : aState'[q] = aState[q] /\ fState'[q] = fState[q]
        BY <3>1, <3>2 DEF TypeOK
      <3>5. aState'[draft.id] = "locking" /\ fState'[draft.id] = "submitting"
        BY <3>1, <3>2 DEF TypeOK
      <3>6. draft.id \notin located
        BY <3>1, <3>2 DEF FillMatchesAdvance, Terminal
      <3> QED BY <3>1, <3>2, <3>3, <3>4, <3>5, <3>6 DEF FillMatchesAdvance
    <2>4. ASSUME NEW q \in Receives, CancelFill(q) PROVE FillMatchesAdvance'
      BY <2>1, <2>4, <1>1 DEF CancelFill
    <2>5. ASSUME NEW q \in Receives, SettleFill(q) PROVE FillMatchesAdvance'
      BY <2>5 DEF SettleFill, FillMatchesAdvance, TypeOK, Terminal
    <2> QED BY <2>2, <2>3, <2>4, <2>5, <1>7 DEF FillNext
  <1>8. ASSUME ChainNext PROVE FillMatchesAdvance'
    <2>1. PICK a \in AdvanceIds :
                      \/ ObserveLockup(a)
                      \/ \E crashed \in BOOLEAN : SettleSponsored(a, crashed)
                      \/ ReleaseSponsored(a)
                      \/ BeginRecovery(a)
                      \/ \E terminal \in Terminal : ObserveSpend(a, terminal)
      BY <1>8 DEF ChainNext
    <2>2. CASE ObserveLockup(a)
      BY <2>2 DEF ObserveLockup, FillMatchesAdvance, TypeOK, Terminal
    <2>3. ASSUME NEW crashed \in BOOLEAN, SettleSponsored(a, crashed) PROVE FillMatchesAdvance'
      BY <2>3 DEF SettleSponsored, FillMatchesAdvance, TypeOK, Terminal
    <2>4. CASE ReleaseSponsored(a)
      BY <2>4, <1>1, <1>2 DEF ReleaseSponsored, rows
    <2>5. CASE BeginRecovery(a)
      BY <2>5 DEF BeginRecovery, FillMatchesAdvance, TypeOK, Terminal
    <2>6. ASSUME NEW terminal \in Terminal, ObserveSpend(a, terminal) PROVE FillMatchesAdvance'
      BY <2>6 DEF ObserveSpend, FillMatchesAdvance, TypeOK, Terminal
    <2> QED BY <2>1, <2>2, <2>3, <2>4, <2>5, <2>6
  <1>9. ASSUME ProceedsNext PROVE FillMatchesAdvance'
    BY <1>9, <1>1, <1>2
       DEF ProceedsNext, PlanProceeds, CreateJob, EnterSubmission, FinishJob, DropPlan, rows
  <1>10. ASSUME EnvNext PROVE FillMatchesAdvance'
    BY <1>10, <1>1, <1>2 DEF EnvNext, UpdatePolicy, Tick, rows
  <1> QED BY <1>4, <1>5, <1>6, <1>7, <1>8, <1>9, <1>10 DEF Next

-----------------------------------------------------------------------------
(* The cross-flow fence. *)

\* Clearing or keeping rows of one table and taking coins free in all three
\* keeps the three tables disjoint.
LEMMA NextFence == TypeOK /\ DraftIsFresh /\ CoinFence /\ [Next]_vars => CoinFence'
  <1> SUFFICES ASSUME TypeOK, DraftIsFresh, CoinFence, [Next]_vars PROVE CoinFence' OBVIOUS
  <1>1. now \in Nat /\ nowMs \in Nat
    BY DEF TypeOK, nowMs
  <1>2. ASSUME Occupied(opRes') \subseteq Occupied(opRes),
               Occupied(rqRes') \subseteq Occupied(rqRes),
               Occupied(procIn') \subseteq Occupied(procIn)
        PROVE CoinFence'
    BY <1>2 DEF CoinFence, Occupied
  <1>3. ASSUME NEW at \in Nat
        PROVE  /\ Occupied(RqResAfter(at)) \subseteq Occupied(rqRes)
               /\ Occupied(OpResAfter(at)) \subseteq Occupied(opRes)
    BY ReleaseType DEF RqResAfter, OpResAfter, TypeOK
  <1>4. \A dead : /\ Occupied(Release(opRes, dead)) \subseteq Occupied(opRes)
                  /\ Occupied(Release(procIn, dead)) \subseteq Occupied(procIn)
    BY ReleaseType DEF TypeOK
  <1>5. CASE UNCHANGED vars
    BY <1>5, <1>2 DEF vars, tables
  <1>6. ASSUME QuoteNext PROVE CoinFence'
    <2>1. ASSUME NEW id, NEW rail, Admit(id, rail) PROVE CoinFence'
      BY <2>1, <1>1, <1>2, <1>3 DEF Admit
    <2>2. ASSUME NEW at \in 0 .. now, ReserveQuote(at) PROVE CoinFence'
      <3>1. at \in Nat /\ draft.coins \in SUBSET Coins /\ draft.id \in AdvanceIds
        BY <2>2, <1>1 DEF ReserveQuote, TypeOK, Idle, Drafts
      <3>2. draft.coins \cap AllReserved(rqRes) = {}
        BY <2>2 DEF ReserveQuote, Reselected, Selectable
      <3>3. Occupied(opRes') \subseteq Occupied(opRes) \cup draft.coins
        BY <3>1, <2>2, AssignType DEF ReserveQuote, TypeOK
      <3> QED BY <3>1, <3>2, <3>3, <2>2, <1>3 DEF ReserveQuote, AllReserved, CoinFence, Occupied
    <2>3. ASSUME InsertReceiveQuote PROVE CoinFence'
      <3>1. draft.at \in Nat /\ draft.coins \in SUBSET Coins /\ draft.id \in Receives
        BY <2>3 DEF InsertReceiveQuote, TypeOK, Idle, Drafts, DraftIsFresh
      <3>2. draft.coins \cap AllReserved(rqRes) = {}
        BY <2>3 DEF InsertReceiveQuote, Reselected, Selectable
      <3>3. Occupied(rqRes') \subseteq Occupied(RqResAfter(draft.at)) \cup draft.coins
        <4>1. rqRes' = Assign(RqResAfter(draft.at), draft.coins, draft.id)
          BY <2>3 DEF InsertReceiveQuote
        <4>2. RqResAfter(draft.at) \in [Coins -> Receives \cup {NoOwner}]
          BY <3>1, ExpiryType
        <4> QED BY <3>1, <4>1, <4>2, AssignType
      <3> QED BY <3>1, <3>2, <3>3, <2>3, <1>3 DEF InsertReceiveQuote, AllReserved, CoinFence, Occupied
    <2> QED BY <2>1, <2>2, <2>3, <1>2, <1>6
            DEF QuoteNext, AdmitTransfer, AdmitSponsored, AdmitReceive, SelectFunding,
                RetryReservation, AbandonAdmission, tables
  <1>7. ASSUME ClaimNext PROVE CoinFence'
    BY <1>7, <1>1, <1>2, <1>3 DEF ClaimNext, ClaimLockup, ReplayLockup, ExpireQuotes
  <1>8. ASSUME FillNext PROVE CoinFence'
    <2>1. ASSUME NEW q \in Receives, NEW stale \in SUBSET Receives, AdmitFill(q, stale)
          PROVE CoinFence'
      BY <2>1, <1>1, <1>2, <1>3, <1>4 DEF AdmitFill, CancelFills
    <2>2. ASSUME BindFill PROVE CoinFence'
      <3> DEFINE q == draft.id
                 freed == Release(RqResAfter(draft.at), {q})
      <3>1. draft.at \in Nat /\ q \in Receives /\ inputs[q] \in SUBSET Coins
        BY <2>2 DEF BindFill, TypeOK, Idle, Drafts, DraftIsFresh
      <3>2. /\ opRes' = Assign(opRes, inputs[q], q) /\ rqRes' = freed /\ procIn' = procIn
            /\ inputs[q] \cap AllReserved(freed) = {}
        BY <2>2 DEF BindFill
      <3>3. Occupied(opRes') \subseteq Occupied(opRes) \cup inputs[q]
        <4>1. Occupied(Assign(opRes, inputs[q], q)) \subseteq Occupied(opRes) \cup inputs[q]
          BY AssignOccupies
        <4> QED BY <3>2, <4>1
      <3>4. Occupied(freed) \subseteq Occupied(rqRes)
        BY <3>1, <1>3, ExpiryType, ReleaseType
      <3> HIDE DEF q, freed
      <3> QED BY <3>2, <3>3, <3>4 DEF AllReserved, CoinFence, Occupied
    <2>3. ASSUME NEW q \in Receives, CancelFill(q) PROVE CoinFence'
      BY <2>3, <1>2, <1>4 DEF CancelFill, CancelFills
    <2> QED BY <2>1, <2>2, <2>3, <1>2, <1>8 DEF FillNext, SettleFill, tables
  <1>9. ASSUME ChainNext PROVE CoinFence'
    BY <1>9, <1>2, <1>4 DEF ChainNext, ObserveLockup, SettleSponsored, ReleaseSponsored,
                            BeginRecovery, ObserveSpend, tables
  <1>10. ASSUME ProceedsNext PROVE CoinFence'
    <2>1. ASSUME NEW j \in Jobs, CreateJob(j) PROVE CoinFence'
      <3>1. collector.coins \in SUBSET Coins
        BY <2>1 DEF CreateJob, TypeOK, Plans
      <3>2. Occupied(procIn') \subseteq Occupied(procIn) \cup collector.coins
        <4>1. procIn' = Assign(procIn, collector.coins, j)
          BY <2>1 DEF CreateJob
        <4>2. Occupied(Assign(procIn, collector.coins, j))
                \subseteq Occupied(procIn) \cup collector.coins
          BY AssignOccupies
        <4> QED BY <4>1, <4>2
      <3>3. /\ rqRes' = RqResAfter(nowMs) /\ opRes' = opRes
            /\ collector.coins \cap AllReserved(RqResAfter(nowMs)) = {}
        BY <2>1 DEF CreateJob, Fence
      <3> QED BY <3>2, <3>3, <1>1, <1>3 DEF AllReserved, CoinFence, Occupied
    <2> QED BY <2>1, <1>2, <1>4, <1>10
            DEF ProceedsNext, PlanProceeds, EnterSubmission, FinishJob, DropPlan, tables
  <1>11. ASSUME EnvNext PROVE CoinFence'
    BY <1>11, <1>2 DEF EnvNext, UpdatePolicy, Tick, tables
  <1> QED BY <1>5, <1>6, <1>7, <1>8, <1>9, <1>10, <1>11 DEF Next

-----------------------------------------------------------------------------
(* Who holds which coins. *)

\* Release clears exactly the rows of the dead.
LEMMA ReleaseHeld ==
    ASSUME NEW t, NEW dead, NEW i, i # NoOwner
    PROVE  HeldBy(Release(t, dead), i) = IF i \in dead THEN {} ELSE HeldBy(t, i)
    BY DEF HeldBy, Release

\* Assigning free coins adds them to the new owner and takes them from nobody.
LEMMA AssignHeld ==
    ASSUME NEW t, NEW coins \in SUBSET Coins, coins \cap Occupied(t) = {}, NEW i, NEW k, k # NoOwner
    PROVE  HeldBy(Assign(t, coins, i), k) = IF k = i THEN HeldBy(t, i) \cup coins ELSE HeldBy(t, k)
    BY DEF HeldBy, Assign, Occupied

LEMMA NextAdvanceHolds ==
    /\ TypeOK /\ DraftIsFresh /\ FillMatchesAdvance /\ AdvanceHoldsInputs /\ [Next]_vars
    => AdvanceHoldsInputs'
  <1> SUFFICES ASSUME TypeOK, DraftIsFresh, FillMatchesAdvance, AdvanceHoldsInputs, [Next]_vars
               PROVE  AdvanceHoldsInputs'
    OBVIOUS
  <1> USE IdsAssumption
  <1>1. now \in Nat /\ nowMs \in Nat /\ \A a \in AdvanceIds : a # NoOwner
    BY DEF TypeOK, nowMs
  <1>2. ASSUME UNCHANGED <<aState, kind, opRes>>,
               \A a \in AdvanceIds : aState[a] # "none" => inputs'[a] = inputs[a]
        PROVE AdvanceHoldsInputs'
    BY <1>2 DEF AdvanceHoldsInputs, Terminal
  \* What expiry leaves: lapsed quotes hold nothing, everybody else as before.
  <1>3. ASSUME NEW a \in AdvanceIds
        PROVE  HeldBy(OpResAfter(now), a) =
                   IF AdvancesAfter(now)[a] = aState[a] THEN HeldBy(opRes, a) ELSE {}
    <2>1. HeldBy(OpResAfter(now), a) = IF a \in DeadAdvances(now) THEN {} ELSE HeldBy(opRes, a)
      BY <1>1, ReleaseHeld DEF OpResAfter
    <2>2. CASE aState[a] = "expired"
      <3>1. AdvancesAfter(now)[a] = aState[a] /\ HeldBy(opRes, a) = {}
        BY <2>2, <1>1, ExpiryStates DEF AdvanceHoldsInputs
      <3> QED BY <2>1, <3>1
    <2>3. CASE aState[a] # "expired"
      <3>1. a \in DeadAdvances(now) <=> AdvancesAfter(now)[a] # aState[a]
        BY <2>3, <1>1 DEF DeadAdvances, AdvancesAfter, LapsedAdvances
      <3> QED BY <2>1, <3>1
    <2> QED BY <2>2, <2>3
  <1>4. ASSUME aState' = AdvancesAfter(now), opRes' = OpResAfter(now), UNCHANGED <<kind, inputs>>
        PROVE AdvanceHoldsInputs'
    <2> SUFFICES ASSUME NEW a \in AdvanceIds
                 PROVE  /\ \/ aState'[a] \in {"quoted", "locking", "recovering"}
                           \/ aState'[a] = "locked" /\ kind'[a] = "covenant"
                           => HeldBy(opRes', a) = inputs'[a]
                        /\ aState'[a] = "locked" /\ kind'[a] = "sponsored"
                           => HeldBy(opRes', a) \in {inputs'[a], {}}
                        /\ aState'[a] \in {"none", "expired"} \cup Terminal => HeldBy(opRes', a) = {}
      BY DEF AdvanceHoldsInputs, HeldBy
    <2> QED BY <1>1, <1>3, <1>4, ExpiryStates DEF AdvanceHoldsInputs
  \* One advance moves on and keeps or gives back its coins; the rest stays.
  <1>5. ASSUME NEW a \in AdvanceIds, NEW s, aState' = [aState EXCEPT ![a] = s],
               UNCHANGED <<kind, inputs>>,
               \/ /\ opRes' = opRes /\ aState[a] \in {"locking", "locked"}
                  /\ aState[a] = "locked" => kind[a] = "covenant"
                  /\ s \in {"locked", "recovering"}
               \/ opRes' = Release(opRes, {a}) /\ s \in {"expired"} \cup Terminal
               \/ opRes' = Release(opRes, {a}) /\ s = "locked" /\ kind[a] = "sponsored"
        PROVE AdvanceHoldsInputs'
    <2>1. \A b \in AdvanceIds : HeldBy(Release(opRes, {a}), b) = IF b = a THEN {} ELSE HeldBy(opRes, b)
      BY <1>1, ReleaseHeld
    <2>2. \A b \in AdvanceIds : aState'[b] = IF b = a THEN s ELSE aState[b]
      BY <1>5 DEF TypeOK
    <2>3. CASE /\ opRes' = opRes /\ aState[a] \in {"locking", "locked"}
               /\ aState[a] = "locked" => kind[a] = "covenant"
               /\ s \in {"locked", "recovering"}
      BY <2>2, <2>3, <1>5 DEF AdvanceHoldsInputs, Terminal
    <2>4. CASE opRes' = Release(opRes, {a}) /\ s \in {"expired"} \cup Terminal
      BY <2>1, <2>2, <2>4, <1>5 DEF AdvanceHoldsInputs, Terminal
    <2>5. CASE opRes' = Release(opRes, {a}) /\ s = "locked" /\ kind[a] = "sponsored"
      BY <2>1, <2>2, <2>5, <1>5 DEF AdvanceHoldsInputs, Terminal
    <2> QED BY <2>3, <2>4, <2>5, <1>5
  <1>6. CASE UNCHANGED vars
    BY <1>6, <1>2 DEF vars, rows, tables
  <1>7. ASSUME QuoteNext PROVE AdvanceHoldsInputs'
    <2>1. ASSUME NEW id, NEW rail, Admit(id, rail) PROVE AdvanceHoldsInputs'
      BY <2>1, <1>4 DEF Admit
    <2>2. ASSUME NEW at \in 0 .. now, ReserveQuote(at) PROVE AdvanceHoldsInputs'
      <3> DEFINE id == draft.id
      <3>1. /\ id \in AdvanceIds /\ draft.coins \in SUBSET Coins
            /\ aState[id] = "none" /\ HeldBy(opRes, id) = {}
        <4>1. draft \in Drafts /\ draft # Idle
          BY <2>2 DEF ReserveQuote, TypeOK, Idle
        <4>2. id \in AdvanceIds /\ draft.coins \in SUBSET Coins /\ aState[id] = "none"
          BY <4>1, <2>2 DEF ReserveQuote, Drafts, DraftIsFresh
        <4> QED BY <4>2 DEF AdvanceHoldsInputs
      <3>2. /\ aState' = [aState EXCEPT ![id] = "quoted"]
            /\ kind' = [kind EXCEPT ![id] = draft.rail]
            /\ inputs' = [inputs EXCEPT ![id] = draft.coins]
            /\ opRes' = Assign(opRes, draft.coins, id)
            /\ draft.coins \cap Occupied(opRes) = {}
        BY <2>2 DEF ReserveQuote, Reselected, Selectable, AllReserved
      <3> HIDE DEF id
      <3>3. \A b \in AdvanceIds :
                HeldBy(opRes', b) = IF b = id THEN draft.coins ELSE HeldBy(opRes, b)
        <4>1. ASSUME NEW b \in AdvanceIds
              PROVE  HeldBy(Assign(opRes, draft.coins, id), b)
                         = IF b = id THEN HeldBy(opRes, id) \cup draft.coins ELSE HeldBy(opRes, b)
          <5>1. draft.coins \in SUBSET Coins /\ draft.coins \cap Occupied(opRes) = {} /\ b # NoOwner
            BY <3>1, <3>2, <1>1
          <5> QED BY <5>1 DEF HeldBy, Assign, Occupied
        <4> QED BY <4>1, <3>1, <3>2
      <3>4. \A b \in AdvanceIds :
                /\ aState'[b] = IF b = id THEN "quoted" ELSE aState[b]
                /\ inputs'[b] = IF b = id THEN draft.coins ELSE inputs[b]
                /\ b # id => kind'[b] = kind[b]
        BY <3>1, <3>2 DEF TypeOK
      <3> QED BY <3>3, <3>4 DEF AdvanceHoldsInputs, Terminal
    <2>3. ASSUME InsertReceiveQuote PROVE AdvanceHoldsInputs'
      <3>1. draft # Idle /\ draft.id \in Receives /\ aState[draft.id] = "none"
        BY <2>3 DEF InsertReceiveQuote, Idle, DraftIsFresh, FillMatchesAdvance
      <3>2. inputs' = [inputs EXCEPT ![draft.id] = draft.coins]
        BY <2>3 DEF InsertReceiveQuote
      <3>3. \A a \in AdvanceIds : aState[a] # "none" => inputs'[a] = inputs[a]
        BY <3>1, <3>2 DEF TypeOK
      <3> QED BY <3>3, <2>3, <1>2 DEF InsertReceiveQuote
    <2> QED BY <2>1, <2>2, <2>3, <1>2, <1>7
            DEF QuoteNext, AdmitTransfer, AdmitSponsored, AdmitReceive, SelectFunding,
                RetryReservation, AbandonAdmission, rows, tables
  <1>8. ASSUME ClaimNext PROVE AdvanceHoldsInputs'
    <2>1. ASSUME NEW t \in Transfers, ClaimLockup(t) PROVE AdvanceHoldsInputs'
      <3>1. \A b \in AdvanceIds :
                aState'[b] = IF b = t THEN "locking" ELSE AdvancesAfter(now)[b]
        BY <2>1, <1>1, ExpiryType DEF ClaimLockup
      <3>2. /\ opRes' = OpResAfter(now) /\ UNCHANGED <<kind, inputs>>
            /\ AdvancesAfter(now)[t] = "quoted" /\ HeldBy(OpResAfter(now), t) = inputs[t]
        BY <2>1 DEF ClaimLockup
      <3> QED BY <3>1, <3>2, <1>1, <1>3, ExpiryStates DEF AdvanceHoldsInputs, Terminal
    <2> QED BY <2>1, <1>4, <1>8 DEF ClaimNext, ReplayLockup, ExpireQuotes
  <1>9. ASSUME FillNext PROVE AdvanceHoldsInputs'
    <2>1. ASSUME NEW dead \in SUBSET Receives, CancelFills(dead), UNCHANGED <<kind, inputs>>
          PROVE AdvanceHoldsInputs'
      <3>1. \A b \in AdvanceIds : HeldBy(opRes', b) = IF b \in dead THEN {} ELSE HeldBy(opRes, b)
        BY <2>1, <1>1, ReleaseHeld DEF CancelFills
      <3>2. \A b \in AdvanceIds : aState'[b] = IF b \in dead THEN "expired" ELSE aState[b]
        BY <2>1 DEF CancelFills
      <3> QED BY <3>1, <3>2, <2>1 DEF AdvanceHoldsInputs, Terminal
    <2>2. ASSUME NEW q \in Receives, NEW stale \in SUBSET Receives, AdmitFill(q, stale)
          PROVE AdvanceHoldsInputs'
      BY <2>1, <2>2 DEF AdmitFill
    <2>3. ASSUME BindFill PROVE AdvanceHoldsInputs'
      <3> DEFINE q == draft.id
      <3>1. /\ q \in Receives /\ inputs[q] \in SUBSET Coins
            /\ aState[q] = "none" /\ HeldBy(opRes, q) = {}
        <4>1. draft # Idle /\ q \in Receives /\ qState[q] # "bound"
          BY <2>3 DEF BindFill, Idle, DraftIsFresh
        <4>2. aState[q] = "none"
          BY <4>1 DEF FillMatchesAdvance
        <4> QED BY <4>1, <4>2 DEF AdvanceHoldsInputs, TypeOK
      <3>2. /\ aState' = [aState EXCEPT ![q] = "locking"]
            /\ kind' = [kind EXCEPT ![q] = "covenant"]
            /\ inputs' = inputs
            /\ opRes' = Assign(opRes, inputs[q], q)
            /\ inputs[q] \cap Occupied(opRes) = {}
        BY <2>3 DEF BindFill, AllReserved
      <3> HIDE DEF q
      <3>3. \A b \in AdvanceIds :
                HeldBy(opRes', b) = IF b = q THEN inputs[q] ELSE HeldBy(opRes, b)
        BY <3>1, <3>2, <1>1, AssignHeld
      <3>4. \A b \in AdvanceIds : /\ aState'[b] = IF b = q THEN "locking" ELSE aState[b]
                                  /\ b # q => kind'[b] = kind[b]
        BY <3>1, <3>2 DEF TypeOK
      <3> QED BY <3>1, <3>2, <3>3, <3>4 DEF AdvanceHoldsInputs, Terminal
    <2>4. ASSUME NEW q \in Receives, CancelFill(q) PROVE AdvanceHoldsInputs'
      BY <2>1, <2>4 DEF CancelFill
    <2>5. ASSUME NEW q \in Receives, SettleFill(q) PROVE AdvanceHoldsInputs'
      <3>1. CASE aState[q] = "locking"
        <4>1. /\ aState' = [aState EXCEPT ![q] = "locked"]
              /\ UNCHANGED <<kind, inputs, opRes>>
          BY <3>1, <2>5 DEF SettleFill, tables
        <4> QED BY <4>1, <3>1, <1>5
      <3>2. CASE aState[q] # "locking"
        <4>1. aState' = aState
          BY <3>2, <2>5 DEF SettleFill, TypeOK
        <4> QED BY <4>1, <2>5, <1>2 DEF SettleFill, tables
      <3> QED BY <3>1, <3>2
    <2> QED BY <2>2, <2>3, <2>4, <2>5, <1>9 DEF FillNext
  <1>10. ASSUME ChainNext PROVE AdvanceHoldsInputs'
    <2>1. PICK a \in AdvanceIds :
                      \/ ObserveLockup(a)
                      \/ \E crashed \in BOOLEAN : SettleSponsored(a, crashed)
                      \/ ReleaseSponsored(a)
                      \/ BeginRecovery(a)
                      \/ \E terminal \in Terminal : ObserveSpend(a, terminal)
      BY <1>10 DEF ChainNext
    <2>2. CASE ObserveLockup(a)
      BY <2>2, <1>5 DEF ObserveLockup, tables
    <2>3. ASSUME NEW crashed \in BOOLEAN, SettleSponsored(a, crashed) PROVE AdvanceHoldsInputs'
      BY <2>3, <1>5 DEF SettleSponsored
    <2>4. CASE ReleaseSponsored(a)
      <3>1. aState' = [aState EXCEPT ![a] = "locked"]
        BY <2>4 DEF ReleaseSponsored, rows, TypeOK
      <3> QED BY <3>1, <2>4, <1>5 DEF ReleaseSponsored, rows
    <2>5. CASE BeginRecovery(a)
      BY <2>5, <1>5 DEF BeginRecovery, tables
    <2>6. ASSUME NEW terminal \in Terminal, ObserveSpend(a, terminal) PROVE AdvanceHoldsInputs'
      BY <2>6, <1>5 DEF ObserveSpend
    <2> QED BY <2>1, <2>2, <2>3, <2>4, <2>5, <2>6
  <1>11. ASSUME ProceedsNext PROVE AdvanceHoldsInputs'
    <2>1. ASSUME NEW j \in Jobs, CreateJob(j) PROVE AdvanceHoldsInputs'
      <3>1. \A a \in AdvanceIds : inputs'[a] = inputs[a]
        BY <2>1 DEF CreateJob, TypeOK
      <3> QED BY <3>1, <2>1, <1>2 DEF CreateJob
    <2> QED BY <2>1, <1>2, <1>11
            DEF ProceedsNext, PlanProceeds, EnterSubmission, FinishJob, DropPlan, rows, tables
  <1>12. ASSUME EnvNext PROVE AdvanceHoldsInputs'
    BY <1>12, <1>2 DEF EnvNext, UpdatePolicy, Tick, rows, tables
  <1> QED BY <1>6, <1>7, <1>8, <1>9, <1>10, <1>11, <1>12 DEF Next

\* The two halves of QuoteAndJobHoldInputs, over the tables a step leaves.
QuoteHolds(q) == HeldBy(rqRes, q) = IF qState[q] = "quoted" THEN inputs[q] ELSE {}
JobHolds(j) ==
    HeldBy(procIn, j) = IF jState[j] \in {"unsubmitted", "entered"} THEN inputs[j] ELSE {}

LEMMA NextQuoteHolds ==
    TypeOK /\ DraftIsFresh /\ QuoteAndJobHoldInputs /\ [Next]_vars
    => \A q \in Receives : QuoteHolds(q)'
  <1> SUFFICES ASSUME TypeOK, DraftIsFresh, QuoteAndJobHoldInputs, [Next]_vars,
                      NEW q \in Receives
               PROVE  QuoteHolds(q)'
    OBVIOUS
  <1> USE IdsAssumption
  <1>1. /\ now \in Nat /\ nowMs \in Nat /\ q # NoOwner /\ q \in AdvanceIds
        /\ HeldBy(rqRes, q) = IF qState[q] = "quoted" THEN inputs[q] ELSE {}
    BY DEF TypeOK, nowMs, QuoteAndJobHoldInputs
  <1>2. ASSUME UNCHANGED <<qState, rqRes>>, inputs'[q] = inputs[q] PROVE QuoteHolds(q)'
    BY <1>1, <1>2 DEF QuoteHolds
  <1>3. ASSUME NEW at \in Nat
        PROVE  HeldBy(RqResAfter(at), q) = IF QuotesAfter(at)[q] = "quoted" THEN inputs[q] ELSE {}
    <2>1. HeldBy(RqResAfter(at), q) = IF q \in DeadQuotes(at) THEN {} ELSE HeldBy(rqRes, q)
      BY <1>1, ReleaseHeld DEF RqResAfter
    <2>2. q \in DeadQuotes(at) => QuotesAfter(at)[q] = "expired"
      BY DEF DeadQuotes
    <2>3. q \notin DeadQuotes(at) => QuotesAfter(at)[q] = qState[q]
      BY DEF DeadQuotes, QuotesAfter, LapsedQuotes
    <2> QED BY <2>1, <2>2, <2>3, <1>1
  <1>4. ASSUME NEW at \in Nat, qState' = QuotesAfter(at), rqRes' = RqResAfter(at),
               inputs'[q] = inputs[q]
        PROVE QuoteHolds(q)'
    BY <1>3, <1>4 DEF QuoteHolds
  <1>5. CASE UNCHANGED vars
    BY <1>5, <1>2 DEF vars, rows, tables
  <1>6. ASSUME QuoteNext PROVE QuoteHolds(q)'
    <2>1. ASSUME NEW id, NEW rail, Admit(id, rail) PROVE QuoteHolds(q)'
      BY <2>1, <1>1, <1>4 DEF Admit
    <2>2. ASSUME NEW at \in 0 .. now, ReserveQuote(at) PROVE QuoteHolds(q)'
      <3>1. draft # Idle /\ draft.id \in Transfers /\ at \in Nat
        BY <2>2, <1>1 DEF ReserveQuote, DraftIsFresh, Idle
      <3>2. inputs'[q] = inputs[q]
        BY <3>1, <2>2 DEF ReserveQuote, TypeOK
      <3> QED BY <3>1, <3>2, <2>2, <1>4 DEF ReserveQuote
    <2>3. ASSUME InsertReceiveQuote PROVE QuoteHolds(q)'
      <3> DEFINE id == draft.id
                 coins == draft.coins
                 at == draft.at
      <3>1. draft \in Drafts /\ draft # Idle /\ id \in Receives /\ qState[id] = "none"
        BY <2>3 DEF InsertReceiveQuote, TypeOK, Idle, DraftIsFresh
      <3>2. at \in Nat /\ coins \in SUBSET Coins
        BY <3>1 DEF Drafts
      <3>3. /\ qState' = [QuotesAfter(at) EXCEPT ![id] = "quoted"]
            /\ inputs' = [inputs EXCEPT ![id] = coins]
            /\ rqRes' = Assign(RqResAfter(at), coins, id)
            /\ coins \cap Occupied(rqRes) = {}
        BY <2>3 DEF InsertReceiveQuote, Reselected, Selectable, AllReserved
      <3> HIDE DEF id, coins, at
      <3>4. /\ qState'[q] = IF q = id THEN "quoted" ELSE QuotesAfter(at)[q]
            /\ inputs'[q] = IF q = id THEN coins ELSE inputs[q]
        BY <3>1, <3>2, <3>3, ExpiryType DEF TypeOK
      <3>5. coins \cap Occupied(RqResAfter(at)) = {}
        BY <3>2, <3>3, ReleaseType DEF RqResAfter, TypeOK
      <3>6. HeldBy(rqRes', q) =
                IF q = id THEN HeldBy(RqResAfter(at), q) \cup coins ELSE HeldBy(RqResAfter(at), q)
        BY <3>2, <3>3, <3>5, <1>1 DEF HeldBy, Assign, Occupied
      <3>7. q = id => HeldBy(RqResAfter(at), q) = {}
        BY <3>1, <3>2, <1>3, ExpiryStates
      <3> QED BY <3>2, <3>4, <3>6, <3>7, <1>3 DEF QuoteHolds
    <2> QED BY <2>1, <2>2, <2>3, <1>1, <1>2, <1>6
            DEF QuoteNext, AdmitTransfer, AdmitSponsored, AdmitReceive, SelectFunding,
                RetryReservation, AbandonAdmission, rows, tables
  <1>7. ASSUME ClaimNext PROVE QuoteHolds(q)'
    BY <1>7, <1>1, <1>4 DEF ClaimNext, ClaimLockup, ReplayLockup, ExpireQuotes
  <1>8. ASSUME FillNext PROVE QuoteHolds(q)'
    <2>1. ASSUME NEW r \in Receives, NEW stale \in SUBSET Receives, AdmitFill(r, stale)
          PROVE QuoteHolds(q)'
      BY <2>1, <1>1, <1>4 DEF AdmitFill
    <2>2. ASSUME BindFill PROVE QuoteHolds(q)'
      <3> DEFINE id == draft.id
                 at == draft.at
      <3>1. draft \in Drafts /\ id \in Receives /\ at \in Nat
        BY <2>2 DEF BindFill, TypeOK, Idle, DraftIsFresh, Drafts
      <3>2. /\ qState' = [QuotesAfter(at) EXCEPT ![id] = "bound"]
            /\ rqRes' = Release(RqResAfter(at), {id}) /\ inputs' = inputs
        BY <2>2 DEF BindFill
      <3> HIDE DEF id, at
      <3>3. qState'[q] = IF q = id THEN "bound" ELSE QuotesAfter(at)[q]
        BY <3>1, <3>2, ExpiryType
      <3>4. HeldBy(rqRes', q) = IF q = id THEN {} ELSE HeldBy(RqResAfter(at), q)
        BY <3>2, <1>1, ReleaseHeld
      <3> QED BY <3>1, <3>2, <3>3, <3>4, <1>3 DEF QuoteHolds
    <2> QED BY <2>1, <2>2, <1>2, <1>8 DEF FillNext, CancelFill, SettleFill, tables
  <1>9. ASSUME ChainNext PROVE QuoteHolds(q)'
    BY <1>9, <1>2 DEF ChainNext, ObserveLockup, SettleSponsored, ReleaseSponsored,
                      BeginRecovery, ObserveSpend, rows, tables
  <1>10. ASSUME ProceedsNext PROVE QuoteHolds(q)'
    <2>1. ASSUME NEW j \in Jobs, CreateJob(j) PROVE QuoteHolds(q)'
      <3>1. inputs'[q] = inputs[q]
        BY <2>1 DEF CreateJob, TypeOK
      <3> QED BY <3>1, <2>1, <1>1, <1>4 DEF CreateJob
    <2> QED BY <2>1, <1>2, <1>10
            DEF ProceedsNext, PlanProceeds, EnterSubmission, FinishJob, DropPlan, rows, tables
  <1>11. ASSUME EnvNext PROVE QuoteHolds(q)'
    BY <1>11, <1>2 DEF EnvNext, UpdatePolicy, Tick, rows, tables
  <1> QED BY <1>5, <1>6, <1>7, <1>8, <1>9, <1>10, <1>11 DEF Next

LEMMA NextJobHolds ==
    TypeOK /\ DraftIsFresh /\ QuoteAndJobHoldInputs /\ [Next]_vars
    => \A j \in Jobs : JobHolds(j)'
  <1> SUFFICES ASSUME TypeOK, DraftIsFresh, QuoteAndJobHoldInputs, [Next]_vars, NEW j \in Jobs
               PROVE  JobHolds(j)'
    OBVIOUS
  <1> USE IdsAssumption
  <1>1. /\ j # NoOwner /\ j \notin AdvanceIds
        /\ HeldBy(procIn, j) = IF jState[j] \in {"unsubmitted", "entered"} THEN inputs[j] ELSE {}
    BY DEF QuoteAndJobHoldInputs
  <1>2. ASSUME UNCHANGED <<jState, procIn>>, inputs'[j] = inputs[j] PROVE JobHolds(j)'
    BY <1>1, <1>2 DEF JobHolds
  <1>3. CASE UNCHANGED vars
    BY <1>3, <1>2 DEF vars, rows, tables
  <1>4. ASSUME QuoteNext PROVE JobHolds(j)'
    <2>1. ASSUME NEW at \in 0 .. now, ReserveQuote(at) PROVE JobHolds(j)'
      <3>1. draft.id # j
        BY <2>1, <1>1 DEF ReserveQuote, TypeOK, Idle, Drafts
      <3>2. inputs'[j] = inputs[j]
        BY <3>1, <2>1 DEF ReserveQuote, TypeOK
      <3> QED BY <3>2, <2>1, <1>2 DEF ReserveQuote
    <2>2. ASSUME InsertReceiveQuote PROVE JobHolds(j)'
      <3>1. draft.id # j
        BY <2>2, <1>1 DEF InsertReceiveQuote, TypeOK, Idle, Drafts
      <3>2. inputs'[j] = inputs[j]
        BY <3>1, <2>2 DEF InsertReceiveQuote, TypeOK
      <3> QED BY <3>2, <2>2, <1>2 DEF InsertReceiveQuote
    <2> QED BY <2>1, <2>2, <1>2, <1>4
            DEF QuoteNext, AdmitTransfer, AdmitSponsored, AdmitReceive, Admit, SelectFunding,
                RetryReservation, AbandonAdmission, rows, tables
  <1>5. ASSUME ClaimNext PROVE JobHolds(j)'
    BY <1>5, <1>2 DEF ClaimNext, ClaimLockup, ReplayLockup, ExpireQuotes
  <1>6. ASSUME FillNext PROVE JobHolds(j)'
    BY <1>6, <1>2 DEF FillNext, AdmitFill, BindFill, CancelFill, SettleFill, tables
  <1>7. ASSUME ChainNext PROVE JobHolds(j)'
    BY <1>7, <1>2 DEF ChainNext, ObserveLockup, SettleSponsored, ReleaseSponsored,
                      BeginRecovery, ObserveSpend, rows, tables
  <1>8. ASSUME ProceedsNext PROVE JobHolds(j)'
    <2>1. ASSUME NEW k \in Jobs, CreateJob(k) PROVE JobHolds(j)'
      <3> DEFINE coins == collector.coins
      <3>1. coins \in SUBSET Coins /\ jState[k] = "none"
        BY <2>1 DEF CreateJob, TypeOK, Plans
      <3>2. /\ jState' = [jState EXCEPT ![k] = "unsubmitted"]
            /\ inputs' = [inputs EXCEPT ![k] = coins]
            /\ procIn' = Assign(procIn, coins, k)
            /\ coins \cap Occupied(procIn) = {}
        BY <2>1 DEF CreateJob, Fence, AllReserved
      <3> HIDE DEF coins
      <3>3. /\ jState'[j] = IF j = k THEN "unsubmitted" ELSE jState[j]
            /\ inputs'[j] = IF j = k THEN coins ELSE inputs[j]
        BY <3>2 DEF TypeOK
      <3>4. HeldBy(procIn', j) = IF j = k THEN HeldBy(procIn, j) \cup coins ELSE HeldBy(procIn, j)
        BY <3>1, <3>2, <1>1 DEF HeldBy, Assign, Occupied
      <3> QED BY <3>1, <3>3, <3>4, <1>1 DEF JobHolds
    <2>2. ASSUME NEW k \in Jobs, EnterSubmission(k) PROVE JobHolds(j)'
      <3>1. jState'[j] = IF j = k THEN "entered" ELSE jState[j]
        BY <2>2 DEF EnterSubmission, TypeOK
      <3> QED BY <3>1, <2>2, <1>1 DEF EnterSubmission, JobHolds, tables
    <2>3. ASSUME NEW k \in Jobs, FinishJob(k) PROVE JobHolds(j)'
      <3>1. /\ j = k => jState'[j] \in {"deleted", "complete"}
            /\ j # k => jState'[j] = jState[j]
        BY <2>3 DEF FinishJob, TypeOK
      <3>2. HeldBy(procIn', j) = IF j = k THEN {} ELSE HeldBy(procIn, j)
        BY <2>3, <1>1, ReleaseHeld DEF FinishJob
      <3> QED BY <3>1, <3>2, <2>3, <1>1 DEF FinishJob, JobHolds
    <2> QED BY <2>1, <2>2, <2>3, <1>2, <1>8 DEF ProceedsNext, PlanProceeds, DropPlan, rows, tables
  <1>9. ASSUME EnvNext PROVE JobHolds(j)'
    BY <1>9, <1>2 DEF EnvNext, UpdatePolicy, Tick, rows, tables
  <1> QED BY <1>3, <1>4, <1>5, <1>6, <1>7, <1>8, <1>9 DEF Next

-----------------------------------------------------------------------------
(* The inductive invariant. *)

IndInv ==
    /\ TypeOK
    /\ DraftIsFresh
    /\ FillMatchesAdvance
    /\ CoinFence
    /\ AdvanceHoldsInputs
    /\ QuoteAndJobHoldInputs

LEMMA InitInv == Init => IndInv
  <1> SUFFICES ASSUME Init PROVE IndInv OBVIOUS
  <1> USE IdsAssumption
  <1>1. \A i \in Ids : /\ HeldBy(opRes, i) = {} /\ HeldBy(rqRes, i) = {} /\ HeldBy(procIn, i) = {}
    BY DEF Init, HeldBy
  <1>2. AdvanceHoldsInputs /\ QuoteAndJobHoldInputs
    BY <1>1 DEF Init, AdvanceHoldsInputs, QuoteAndJobHoldInputs
  <1>3. CoinFence /\ DraftIsFresh /\ FillMatchesAdvance
    BY DEF Init, CoinFence, Occupied, DraftIsFresh, FillMatchesAdvance
  <1> QED BY <1>2, <1>3, InitType DEF IndInv

LEMMA NextInv == IndInv /\ [Next]_vars => IndInv'
  <1> SUFFICES ASSUME IndInv, [Next]_vars PROVE IndInv' OBVIOUS
  <1>1. QuoteAndJobHoldInputs'
    BY NextQuoteHolds, NextJobHolds DEF IndInv, QuoteAndJobHoldInputs, QuoteHolds, JobHolds
  <1> QED BY <1>1, NextType, NextFresh, NextFillMatches, NextFence, NextAdvanceHolds DEF IndInv

\* The tables, rows and in-memory requests of the service keep their types.
THEOREM TypeCorrect == Spec => []TypeOK
  <1>1. Spec => []IndInv
    BY InitInv, NextInv, PTL DEF Spec
  <1>2. IndInv => TypeOK
    BY DEF IndInv
  <1> QED BY <1>1, <1>2, PTL

\* No coin is ever reserved by two flows: for any number of coins, requests and
\* jobs, whatever is expired, bound or collected between two of their steps.
THEOREM CoinFenceHolds == Spec => []CoinFence
  <1>1. Spec => []IndInv
    BY InitInv, NextInv, PTL DEF Spec
  <1>2. IndInv => CoinFence
    BY DEF IndInv
  <1> QED BY <1>1, <1>2, PTL

\* A live advance, quote or job holds exactly the coins of its row and a dead
\* one none, and the receive quote, its fill and its advance agree.
THEOREM LiveFlowsHoldTheirCoins == Spec => []FlowsHoldTheirCoins
  <1>1. Spec => []IndInv
    BY InitInv, NextInv, PTL DEF Spec
  <1>2. IndInv => FlowsHoldTheirCoins
    BY DEF IndInv, FlowsHoldTheirCoins
  <1> QED BY <1>1, <1>2, PTL

-----------------------------------------------------------------------------
(* What a request was admitted under holds when it takes effect. *)

Exposed == {a \in AdvanceIds : isExposed(a)}
OpenQuotes(quotes) == {q \in Receives : quotes[q] = "quoted"}

\* The steps of the three properties.
RisesWithinLimits ==
    Exposure(qState)' > Exposure(qState) =>
        /\ Exposure(qState)' * Dust <= policy.limit.sats
        /\ Exposure(qState)' <= policy.limit.count
NothingOpensWhilePaused ==
    policy.paused =>
        /\ \A a \in AdvanceIds : aState'[a] = "quoted" => aState[a] = "quoted"
        /\ \A q \in Receives : aState'[q] = "locking" => aState[q] = "locking"
        /\ \A q \in Receives : qState'[q] = "quoted" => qState[q] = "quoted"
ClaimedInTime ==
    \A a \in AdvanceIds :
        /\ aState[a] = "quoted" /\ aState'[a] = "locking" => now < expiresAt[a]
        /\ aState[a] \in Terminal \cup {"expired"} => aState'[a] = aState[a]

\* Sizes of finite sets that grow by at most one element, or lose one.
LEMMA SizeOfSubset ==
    ASSUME NEW S, IsFiniteSet(S), NEW T, T \subseteq S
    PROVE  /\ IsFiniteSet(T) /\ Cardinality(T) \in Nat /\ Cardinality(S) \in Nat
           /\ Cardinality(T) <= Cardinality(S)
  <1>1. T \in SUBSET S
    OBVIOUS
  <1>2. IsFiniteSet(T) /\ Cardinality(T) <= Cardinality(S)
    BY <1>1, FS_Subset
  <1> QED BY <1>2, FS_CardinalityType

LEMMA SizeWithOneMore ==
    ASSUME NEW S, IsFiniteSet(S), NEW x, NEW T, T \subseteq S \cup {x}
    PROVE  Cardinality(T) <= Cardinality(S) + 1
  <1>1. Cardinality(S) \in Nat
    BY FS_CardinalityType
  <1>2. IsFiniteSet(S \cup {x}) /\ Cardinality(S \cup {x}) <= Cardinality(S) + 1
    BY <1>1, FS_AddElement
  <1>3. Cardinality(T) <= Cardinality(S \cup {x}) /\ Cardinality(T) \in Nat /\ Cardinality(S \cup {x}) \in Nat
    BY <1>2, SizeOfSubset
  <1> QED BY <1>1, <1>2, <1>3

LEMMA SizeWithOneLess ==
    ASSUME NEW S, IsFiniteSet(S), NEW x \in S, NEW T, T \subseteq S \ {x}
    PROVE  Cardinality(T) <= Cardinality(S) - 1
  <1>1. IsFiniteSet(S \ {x}) /\ Cardinality(S \ {x}) = Cardinality(S) - 1
    BY FS_RemoveElement
  <1> QED BY <1>1, SizeOfSubset

\* Exposure is the size of two finite sets.
LEMMA ExposureType ==
    ASSUME NEW quotes
    PROVE  /\ IsFiniteSet(Exposed) /\ IsFiniteSet(OpenQuotes(quotes))
           /\ Cardinality(Exposed) \in Nat /\ Cardinality(OpenQuotes(quotes)) \in Nat
           /\ Exposure(quotes) = Cardinality(Exposed) + Cardinality(OpenQuotes(quotes))
           /\ Exposure(quotes) \in Nat
  <1>1. IsFiniteSet(AdvanceIds)
    BY FiniteAssumption
  <1>2. /\ IsFiniteSet(Exposed) /\ IsFiniteSet(OpenQuotes(quotes))
        /\ Cardinality(Exposed) \in Nat /\ Cardinality(OpenQuotes(quotes)) \in Nat
    <2>1. Exposed \subseteq AdvanceIds
      BY DEF Exposed
    <2>2. OpenQuotes(quotes) \subseteq AdvanceIds
      BY DEF OpenQuotes, AdvanceIds
    <2> QED BY <1>1, <2>1, <2>2, SizeOfSubset
  <1>3. Exposure(quotes) = Cardinality(Exposed) + Cardinality(OpenQuotes(quotes))
    BY DEF Exposure, Exposed, OpenQuotes
  <1> QED BY <1>2, <1>3

\* The same of the next state.
LEMMA NextExposureType ==
    /\ IsFiniteSet(Exposed') /\ IsFiniteSet(OpenQuotes(qState'))
    /\ Cardinality(Exposed') \in Nat /\ Cardinality(OpenQuotes(qState')) \in Nat
    /\ Exposure(qState)' = Cardinality(Exposed') + Cardinality(OpenQuotes(qState'))
    /\ Exposure(qState)' \in Nat
  <1>1. IsFiniteSet(AdvanceIds)
    BY FiniteAssumption
  <1>2. /\ IsFiniteSet(Exposed') /\ IsFiniteSet(OpenQuotes(qState'))
        /\ Cardinality(Exposed') \in Nat /\ Cardinality(OpenQuotes(qState')) \in Nat
    <2>1. Exposed' \subseteq AdvanceIds
      BY DEF Exposed
    <2>2. OpenQuotes(qState') \subseteq AdvanceIds
      BY DEF OpenQuotes, AdvanceIds
    <2> QED BY <1>1, <2>1, <2>2, SizeOfSubset
  <1>3. Exposure(qState)' = Cardinality(Exposed') + Cardinality(OpenQuotes(qState'))
    BY DEF Exposure, Exposed, OpenQuotes
  <1> QED BY <1>2, <1>3

\* Neither set grows: exposure does not rise.
LEMMA NoMoreExposure ==
    ASSUME Exposed' \subseteq Exposed, OpenQuotes(qState') \subseteq OpenQuotes(qState)
    PROVE  RisesWithinLimits
  <1>1. /\ Cardinality(Exposed') <= Cardinality(Exposed)
        /\ Cardinality(OpenQuotes(qState')) <= Cardinality(OpenQuotes(qState))
    BY ExposureType, SizeOfSubset
  <1> QED BY <1>1, ExposureType, NextExposureType DEF RisesWithinLimits

\* A quote that becomes an advance is counted once before and once after.
LEMMA MovedExposure ==
    ASSUME NEW q, q \in OpenQuotes(qState), Exposed' \subseteq Exposed \cup {q},
           OpenQuotes(qState') \subseteq OpenQuotes(qState) \ {q}
    PROVE  RisesWithinLimits
  <1>1. /\ Cardinality(Exposed') <= Cardinality(Exposed) + 1
        /\ Cardinality(OpenQuotes(qState')) <= Cardinality(OpenQuotes(qState)) - 1
    BY ExposureType, SizeWithOneMore, SizeWithOneLess
  <1> QED BY <1>1, ExposureType, NextExposureType DEF RisesWithinLimits

\* A product with the dust does not fall.
LEMMA TimesDust == \A m, n \in Nat : m <= n => m * Dust <= n * Dust
  <1> SUFFICES ASSUME NEW m \in Nat, NEW n \in Nat, m <= n PROVE m * Dust <= n * Dust
    OBVIOUS
  <1>1. Dust \in Nat
    BY BoundsAssumption
  <1>2. PICK k \in Nat : n = m + k
    BY SMT
  <1>3. n * Dust = m * Dust + k * Dust /\ k * Dust \in Nat /\ m * Dust \in Nat
    BY <1>1, <1>2
  <1> QED BY <1>3

\* One more where the caps leave room for one more.
LEMMA OneMoreExposure ==
    ASSUME TypeOK, NEW at, NEW i, WithinLimits(Exposure(QuotesAfter(at))),
           \/ /\ Exposed' \subseteq Exposed \cup {i}
              /\ OpenQuotes(qState') \subseteq OpenQuotes(QuotesAfter(at))
           \/ /\ Exposed' \subseteq Exposed
              /\ OpenQuotes(qState') \subseteq OpenQuotes(QuotesAfter(at)) \cup {i}
    PROVE  RisesWithinLimits
  <1> DEFINE open == OpenQuotes(QuotesAfter(at))
             n == Exposure(QuotesAfter(at))
             m == Exposure(qState)'
  <1>1. /\ n = Cardinality(Exposed) + Cardinality(open) /\ n \in Nat
        /\ Cardinality(Exposed) \in Nat /\ Cardinality(open) \in Nat
        /\ m = Cardinality(Exposed') + Cardinality(OpenQuotes(qState')) /\ m \in Nat
        /\ Cardinality(Exposed') \in Nat /\ Cardinality(OpenQuotes(qState')) \in Nat
    BY ExposureType, NextExposureType
  <1>2. m <= n + 1
    <2>1. CASE /\ Exposed' \subseteq Exposed \cup {i}
               /\ OpenQuotes(qState') \subseteq open
      <3>1. /\ Cardinality(Exposed') <= Cardinality(Exposed) + 1
            /\ Cardinality(OpenQuotes(qState')) <= Cardinality(open)
        BY <2>1, ExposureType, SizeOfSubset, SizeWithOneMore
      <3> QED BY <1>1, <3>1
    <2>2. CASE /\ Exposed' \subseteq Exposed
               /\ OpenQuotes(qState') \subseteq open \cup {i}
      <3>1. /\ Cardinality(Exposed') <= Cardinality(Exposed)
            /\ Cardinality(OpenQuotes(qState')) <= Cardinality(open) + 1
        BY <2>2, ExposureType, SizeOfSubset, SizeWithOneMore
      <3> QED BY <1>1, <3>1
    <2> QED BY <2>1, <2>2
  <1>3. /\ (n + 1) * Dust <= policy.limit.sats /\ n < policy.limit.count
        /\ policy.limit.sats \in Nat /\ policy.limit.count \in Nat /\ Dust \in Nat
    BY BoundsAssumption DEF WithinLimits, TypeOK, Policies
  <1>4. m * Dust <= (n + 1) * Dust
    BY <1>1, <1>2, TimesDust
  <1> HIDE DEF m, n
  <1>5. m * Dust \in Nat /\ (n + 1) * Dust \in Nat
    BY <1>1, <1>3
  <1>6. m * Dust <= policy.limit.sats /\ m <= policy.limit.count
    BY <1>1, <1>2, <1>3, <1>4, <1>5
  <1> QED BY <1>6 DEF RisesWithinLimits, m

Current == RisesWithinLimits /\ NothingOpensWhilePaused /\ ClaimedInTime

\* Rows stay, lapse or go on to a state that is not dearer; no quote opens.
Falls ==
    /\ kind' = kind
    /\ \A a \in AdvanceIds :
          \/ aState'[a] = aState[a]
          \/ /\ aState[a] \notin Terminal \cup {"expired"}
             /\ aState'[a] \notin {"quoted", "locking"}
             /\ isExposed(a)' => isExposed(a)
    /\ \A q \in Receives : qState'[q] = "quoted" => qState[q] = "quoted"

LEMMA FallsIsCurrent == Falls => Current
  <1> SUFFICES ASSUME Falls PROVE Current
    OBVIOUS
  <1>1. Exposed' \subseteq Exposed
    BY DEF Falls, Exposed, isExposed
  <1>2. OpenQuotes(qState') \subseteq OpenQuotes(qState)
    BY DEF Falls, OpenQuotes
  <1>3. NothingOpensWhilePaused /\ ClaimedInTime
    BY DEF Falls, NothingOpensWhilePaused, ClaimedInTime, AdvanceIds
  <1> QED BY <1>1, <1>2, <1>3, NoMoreExposure DEF Current

LEMMA SameRowsCurrent == UNCHANGED rows => Current
  <1>1. UNCHANGED rows => Falls
    BY DEF rows, Falls
  <1> QED BY <1>1, FallsIsCurrent

\* What expires falls.
LEMMA ExpiryCurrent ==
    ASSUME TypeOK, NEW at \in Nat, kind' = kind, qState' = QuotesAfter(at),
           aState' = aState \/ aState' = AdvancesAfter(at)
    PROVE  Current
  <1>1. \A q \in Receives : qState'[q] = "quoted" => qState[q] = "quoted"
    BY ExpiryStates
  <1>2. \A a \in AdvanceIds : \/ aState'[a] = aState[a]
                              \/ aState[a] = "quoted" /\ aState'[a] = "expired"
    BY ExpiryStates
  <1>3. Falls
    BY <1>1, <1>2 DEF Falls, Terminal, isExposed
  <1> QED BY <1>3, FallsIsCurrent

LEMMA QuoteCurrent == IndInv /\ QuoteNext => Current
  <1> SUFFICES ASSUME IndInv, QuoteNext PROVE Current
    OBVIOUS
  <1>0. TypeOK /\ now \in Nat
    BY DEF IndInv, TypeOK
  <1>1. ASSUME NEW id, NEW rail, Admit(id, rail) PROVE Current
    BY <1>0, <1>1, ExpiryCurrent DEF Admit
  <1>2. ASSUME NEW at \in 0 .. now, ReserveQuote(at) PROVE Current
    <2>1. /\ at \in Nat /\ draft.id \in AdvanceIds /\ draft.id \notin Receives
          /\ aState[draft.id] = "none" /\ ~policy.paused
      BY <1>0, <1>2, IdsAssumption
         DEF ReserveQuote, IndInv, TypeOK, Idle, Drafts, DraftIsFresh, AdvanceIds, Open
    <2>2. /\ \A a \in AdvanceIds : aState'[a] = IF a = draft.id THEN "quoted" ELSE aState[a]
          /\ \A a \in AdvanceIds : a # draft.id => kind'[a] = kind[a]
      BY <1>0, <1>2 DEF ReserveQuote, TypeOK
    <2>3. \A q \in Receives : qState'[q] = "quoted" => qState[q] = "quoted"
      BY <1>0, <1>2, <2>1, ExpiryStates DEF ReserveQuote
    <2>4. Exposed' \subseteq Exposed /\ OpenQuotes(qState') \subseteq OpenQuotes(qState)
      BY <2>2, <2>3 DEF Exposed, isExposed, OpenQuotes
    <2>5. NothingOpensWhilePaused /\ ClaimedInTime
      BY <2>1, <2>2 DEF NothingOpensWhilePaused, ClaimedInTime, Terminal
    <2> QED BY <2>4, <2>5, NoMoreExposure DEF Current
  <1>3. ASSUME InsertReceiveQuote PROVE Current
    <2>1. draft.id \in Receives /\ draft.at \in Nat /\ ~policy.paused
      BY <1>3 DEF InsertReceiveQuote, IndInv, TypeOK, Idle, Drafts, DraftIsFresh, Open
    <2>2. /\ UNCHANGED <<aState, kind>> /\ WithinLimits(Exposure(QuotesAfter(draft.at)))
          /\ \A q \in Receives : q # draft.id => qState'[q] = QuotesAfter(draft.at)[q]
      BY <1>0, <1>3, <2>1, ExpiryType DEF InsertReceiveQuote
    <2>3. /\ Exposed' \subseteq Exposed
          /\ OpenQuotes(qState') \subseteq OpenQuotes(QuotesAfter(draft.at)) \cup {draft.id}
      BY <2>2 DEF Exposed, isExposed, OpenQuotes
    <2>4. NothingOpensWhilePaused /\ ClaimedInTime
      BY <2>1, <2>2 DEF NothingOpensWhilePaused, ClaimedInTime
    <2> QED BY <1>0, <2>2, <2>3, <2>4, OneMoreExposure DEF Current
  <1>4. ASSUME UNCHANGED rows PROVE Current
    BY <1>4, SameRowsCurrent
  <1> QED BY <1>1, <1>2, <1>3, <1>4 DEF QuoteNext, AdmitTransfer, AdmitSponsored, AdmitReceive,
                                         SelectFunding, RetryReservation, AbandonAdmission

LEMMA ClaimCurrent == IndInv /\ ClaimNext => Current
  <1> SUFFICES ASSUME IndInv, ClaimNext PROVE Current
    OBVIOUS
  <1>0. TypeOK /\ now \in Nat
    BY DEF IndInv, TypeOK
  <1>1. ASSUME NEW id \in Transfers, ClaimLockup(id) PROVE Current
    <2>1. id \in AdvanceIds /\ id \notin Receives
      BY IdsAssumption DEF AdvanceIds
    <2>2. aState[id] = "quoted" /\ now < expiresAt[id]
      <3>1. AdvancesAfter(now)[id] = "quoted"
        BY <1>1 DEF ClaimLockup
      <3>2. id \notin LapsedAdvances(now) /\ aState[id] = "quoted"
        BY <2>1, <3>1 DEF AdvancesAfter
      <3>3. expiresAt[id] \in Nat
        BY <1>0, <2>1 DEF TypeOK
      <3> QED BY <1>0, <2>1, <3>2, <3>3 DEF LapsedAdvances
    <2>3. /\ \A a \in AdvanceIds :
                aState'[a] = IF a = id THEN "locking" ELSE AdvancesAfter(now)[a]
          /\ kind' = kind /\ qState' = QuotesAfter(now)
          /\ WithinLimits(Exposure(QuotesAfter(now)))
      BY <1>0, <1>1, ExpiryType DEF ClaimLockup
    <2>4. \A a \in AdvanceIds : a # id =>
             \/ aState'[a] = aState[a]
             \/ aState[a] = "quoted" /\ aState'[a] = "expired"
      BY <1>0, <2>3, ExpiryStates
    <2>5. \A q \in Receives : qState'[q] = "quoted" => qState[q] = "quoted"
      BY <1>0, <2>3, ExpiryStates
    <2>6. Exposed' \subseteq Exposed \cup {id}
      BY <2>3, <2>4 DEF Exposed, isExposed
    <2>7. RisesWithinLimits
      BY <1>0, <2>3, <2>6, OneMoreExposure
    <2>8. NothingOpensWhilePaused
      BY <2>1, <2>2, <2>3, <2>4, <2>5 DEF NothingOpensWhilePaused, AdvanceIds
    <2>9. ClaimedInTime
      BY <2>2, <2>4 DEF ClaimedInTime, Terminal
    <2> QED BY <2>7, <2>8, <2>9 DEF Current
  <1>2. ASSUME NEW id \in Transfers, ReplayLockup(id) PROVE Current
    BY <1>0, <1>2, ExpiryCurrent DEF ReplayLockup
  <1>3. ASSUME ExpireQuotes PROVE Current
    BY <1>0, <1>3, ExpiryCurrent DEF ExpireQuotes
  <1> QED BY <1>1, <1>2, <1>3 DEF ClaimNext

LEMMA BindCurrent == IndInv /\ BindFill => Current
  <1> SUFFICES ASSUME IndInv, BindFill PROVE Current
    OBVIOUS
  <1> DEFINE q == draft.id
             at == draft.at
  <1>0. TypeOK
    BY DEF IndInv
  <1>1. q \in Receives /\ q \in AdvanceIds /\ at \in Nat /\ ~policy.paused
    BY DEF BindFill, IndInv, TypeOK, Idle, Drafts, DraftIsFresh, AdvanceIds, Open
  <1>2. /\ QuotesAfter(at)[q] = "quoted"
        /\ qState' = [QuotesAfter(at) EXCEPT ![q] = "bound"]
        /\ aState' = [aState EXCEPT ![q] = "locking"] /\ kind' = [kind EXCEPT ![q] = "covenant"]
    BY DEF BindFill
  <1>3. qState[q] = "quoted" /\ aState[q] = "none"
    BY <1>0, <1>1, <1>2, ExpiryStates DEF IndInv, FillMatchesAdvance
  <1>4. /\ \A a \in AdvanceIds : aState'[a] = IF a = q THEN "locking" ELSE aState[a]
        /\ \A a \in AdvanceIds : a # q => kind'[a] = kind[a]
    BY <1>0, <1>1, <1>2 DEF TypeOK
  <1>5. \A p \in Receives : qState'[p] = IF p = q THEN "bound" ELSE QuotesAfter(at)[p]
    BY <1>0, <1>1, <1>2, ExpiryType
  <1>6. \A p \in Receives : QuotesAfter(at)[p] = "quoted" => qState[p] = "quoted"
    BY <1>0, <1>1, ExpiryStates
  <1> HIDE DEF q, at
  <1>7. Exposed' \subseteq Exposed \cup {q}
    BY <1>4 DEF Exposed, isExposed
  <1>8. q \in OpenQuotes(qState) /\ OpenQuotes(qState') \subseteq OpenQuotes(qState) \ {q}
    BY <1>1, <1>3, <1>5, <1>6 DEF OpenQuotes
  <1>9. RisesWithinLimits
    BY <1>7, <1>8, MovedExposure
  <1>10. NothingOpensWhilePaused /\ ClaimedInTime
    BY <1>1, <1>3, <1>4 DEF NothingOpensWhilePaused, ClaimedInTime, Terminal
  <1> QED BY <1>9, <1>10 DEF Current

LEMMA FillCurrent == IndInv /\ FillNext => Current
  <1> SUFFICES ASSUME IndInv, FillNext PROVE Current
    OBVIOUS
  <1>0. TypeOK /\ now \in Nat
    BY DEF IndInv, TypeOK
  <1>1. ASSUME NEW dead, dead \subseteq Cancellable, CancelFills(dead), kind' = kind,
               \A q \in Receives : qState'[q] = "quoted" => qState[q] = "quoted"
        PROVE  Current
    <2>1. \A a \in AdvanceIds : \/ aState'[a] = aState[a]
                                \/ aState[a] = "locking" /\ aState'[a] = "expired"
      BY <1>1 DEF CancelFills, Cancellable
    <2>2. Falls
      BY <1>1, <2>1 DEF Falls, Terminal, isExposed
    <2> QED BY <2>2, FallsIsCurrent
  <1>2. ASSUME NEW q \in Receives, NEW stale \in SUBSET Receives, AdmitFill(q, stale) PROVE Current
    BY <1>0, <1>1, <1>2, ExpiryStates DEF AdmitFill
  <1>3. ASSUME NEW q \in Receives, CancelFill(q) PROVE Current
    BY <1>1, <1>3 DEF CancelFill
  <1>4. ASSUME NEW q \in Receives, SettleFill(q) PROVE Current
    <2>1. /\ UNCHANGED <<kind, qState>>
          /\ \A a \in AdvanceIds : \/ aState'[a] = aState[a]
                                   \/ aState[a] = "locking" /\ aState'[a] = "locked"
      BY <1>0, <1>4 DEF SettleFill, TypeOK
    <2>2. Falls
      BY <2>1 DEF Falls, Terminal, isExposed
    <2> QED BY <2>2, FallsIsCurrent
  <1> QED BY <1>2, <1>3, <1>4, BindCurrent DEF FillNext

LEMMA ChainCurrent == IndInv /\ ChainNext => Current
  <1> SUFFICES ASSUME IndInv, NEW a \in AdvanceIds,
                      \/ ObserveLockup(a)
                      \/ \E crashed \in BOOLEAN : SettleSponsored(a, crashed)
                      \/ ReleaseSponsored(a)
                      \/ BeginRecovery(a)
                      \/ \E terminal \in Terminal : ObserveSpend(a, terminal)
               PROVE  Current
    BY DEF ChainNext
  <1>0. TypeOK
    BY DEF IndInv
  <1>1. CASE UNCHANGED rows
    BY <1>1, SameRowsCurrent
  <1>2. CASE /\ kind' = kind /\ qState' = qState
             /\ \/ aState[a] = "locking" /\ aState' = [aState EXCEPT ![a] = "locked"]
                \/ /\ aState[a] = "locked" /\ kind[a] = "covenant"
                   /\ aState' = [aState EXCEPT ![a] = "recovering"]
                \/ /\ aState[a] \in {"locking", "locked", "recovering"}
                   /\ \E terminal \in Terminal : aState' = [aState EXCEPT ![a] = terminal]
    <2>1. Falls
      BY <1>0, <1>2 DEF Falls, Terminal, isExposed, TypeOK
    <2> QED BY <2>1, FallsIsCurrent
  <1> QED BY <1>1, <1>2 DEF ObserveLockup, SettleSponsored, ReleaseSponsored, BeginRecovery, ObserveSpend

LEMMA ProceedsCurrent == IndInv /\ ProceedsNext => Current
  <1> SUFFICES ASSUME IndInv, ProceedsNext PROVE Current
    OBVIOUS
  <1>1. ASSUME NEW j \in Jobs, CreateJob(j) PROVE Current
    <2>1. nowMs \in Nat
      BY DEF IndInv, TypeOK, nowMs
    <2> QED BY <1>1, <2>1, ExpiryCurrent DEF CreateJob, IndInv
  <1>2. CASE UNCHANGED <<aState, kind, qState>>
    BY <1>2, FallsIsCurrent DEF Falls
  <1> QED BY <1>1, <1>2 DEF ProceedsNext, PlanProceeds, EnterSubmission, FinishJob, DropPlan, rows

LEMMA NextCurrent == IndInv /\ [Next]_vars => Current
  <1> SUFFICES ASSUME IndInv, [Next]_vars PROVE Current
    OBVIOUS
  <1>1. CASE EnvNext \/ UNCHANGED vars
    BY <1>1, SameRowsCurrent DEF EnvNext, UpdatePolicy, Tick, vars
  <1> QED BY <1>1, QuoteCurrent, ClaimCurrent, FillCurrent, ChainCurrent, ProceedsCurrent DEF Next

\* Exposure rises only within the caps in force at that step, nothing is quoted
\* or bound while the policy is paused, and a quote is claimed before its
\* deadline: for any number of coins, requests and jobs, however the policy and
\* the clock move between the awaits of an admission.
THEOREM AdmissionsStayCurrent == Spec => AdmissionIsCurrent
  <1> DEFINE A == Exposure(qState)' > Exposure(qState) =>
                     /\ Exposure(qState)' * Dust <= policy.limit.sats
                     /\ Exposure(qState)' <= policy.limit.count
             B == policy.paused =>
                     /\ \A a \in AdvanceIds : aState'[a] = "quoted" => aState[a] = "quoted"
                     /\ \A q \in Receives : aState'[q] = "locking" => aState[q] = "locking"
                     /\ \A q \in Receives : qState'[q] = "quoted" => qState[q] = "quoted"
             C == \A a \in AdvanceIds :
                     /\ aState[a] = "quoted" /\ aState'[a] = "locking" => now < expiresAt[a]
                     /\ aState[a] \in Terminal \cup {"expired"} => aState'[a] = aState[a]
  <1>1. Spec => []IndInv
    BY InitInv, NextInv, PTL DEF Spec
  <1>2. IndInv /\ [Next]_vars => A /\ B /\ C
    BY NextCurrent DEF Current, RisesWithinLimits, NothingOpensWhilePaused, ClaimedInTime
  <1> HIDE DEF A, B, C
  <1>3. IndInv /\ [Next]_vars => [A]_vars /\ [B]_vars /\ [C]_vars
    BY <1>2
  <1>4. Spec => [][A]_vars /\ [][B]_vars /\ [][C]_vars
    BY <1>1, <1>3, PTL DEF Spec
  <1> QED BY <1>4 DEF A, B, C, AdmissionIsCurrent, ExposureRisesWithinLimits,
                      PauseClosesAdmission, ClaimBeforeDeadline

-----------------------------------------------------------------------------
(* The three reservation tables implement CoinLedger: each step lets some  *)
(* owners go of all they hold and gives at most one owner coins that       *)
(* nobody holds.                                                           *)

(* Tables and owners are apart: whoever is dead in one table holds nothing *)
(* in the other that its id may appear in.                                 *)
Apart(A, Q) ==
    /\ \A a \in A \cap Receives : HeldBy(rqRes, a) = {}
    /\ \A q \in Q : HeldBy(opRes, q) = {}

LEMMA OwnerShape ==
    ASSUME TypeOK, CoinFence, NEW c \in Coins
    PROVE  /\ Owner[c] \in Ids \cup {NoOwner}
           /\ opRes[c] # NoOwner => Owner[c] = opRes[c] /\ rqRes[c] = NoOwner /\ procIn[c] = NoOwner
           /\ rqRes[c] # NoOwner => Owner[c] = rqRes[c] /\ opRes[c] = NoOwner /\ procIn[c] = NoOwner
           /\ procIn[c] # NoOwner => Owner[c] = procIn[c] /\ opRes[c] = NoOwner /\ rqRes[c] = NoOwner
           /\ opRes[c] = NoOwner /\ rqRes[c] = NoOwner /\ procIn[c] = NoOwner => Owner[c] = NoOwner
<1>1. /\ opRes[c] \in AdvanceIds \cup {NoOwner} /\ rqRes[c] \in Receives \cup {NoOwner}
      /\ procIn[c] \in Jobs \cup {NoOwner}
    BY DEF TypeOK
<1>2. /\ opRes[c] # NoOwner => rqRes[c] = NoOwner /\ procIn[c] = NoOwner
      /\ rqRes[c] # NoOwner => procIn[c] = NoOwner
    BY DEF CoinFence, Occupied
<1>3. Owner[c] = IF opRes[c] # NoOwner THEN opRes[c] ELSE IF rqRes[c] # NoOwner THEN rqRes[c] ELSE procIn[c]
    BY DEF Owner
<1> QED BY <1>1, <1>2, <1>3 DEF Ids, AdvanceIds

(* What an owner holds over the three tables.                              *)
LEMMA HoldsNothing ==
    ASSUME TypeOK, CoinFence, NEW i \in Ids,
           i \in AdvanceIds => HeldBy(opRes, i) = {},
           i \in Receives => HeldBy(rqRes, i) = {},
           i \in Jobs => HeldBy(procIn, i) = {}
    PROVE  \A c \in Coins : Owner[c] # i
<1> SUFFICES ASSUME NEW c \in Coins, Owner[c] = i PROVE FALSE
    OBVIOUS
<1>1. /\ opRes[c] \in AdvanceIds \cup {NoOwner} /\ rqRes[c] \in Receives \cup {NoOwner}
      /\ procIn[c] \in Jobs \cup {NoOwner} /\ i # NoOwner
    BY IdsAssumption DEF TypeOK
<1> QED BY <1>1, OwnerShape DEF HeldBy

(* The owners of A, Q and J let go, then i takes free coins.               *)
Moved(A, Q, J, i, coins) ==
    /\ Apart(A, Q)
    /\ coins = {} \/ \A c \in Coins : Owner[c] # i
    /\ \A c \in coins : Owner[c] \in A \cup Q \cup J \cup {NoOwner}
    /\ \A c \in Coins : Owner'[c] =
          IF c \in coins THEN i
          ELSE IF opRes[c] # NoOwner THEN (IF opRes[c] \in A THEN NoOwner ELSE opRes[c])
          ELSE IF rqRes[c] # NoOwner THEN (IF rqRes[c] \in Q THEN NoOwner ELSE rqRes[c])
          ELSE IF procIn[c] \in J THEN NoOwner ELSE procIn[c]

LEMMA MoveRefines ==
    ASSUME TypeOK, CoinFence,
           NEW A \in SUBSET AdvanceIds, NEW Q \in SUBSET Receives, NEW J \in SUBSET Jobs,
           NEW i \in Ids, NEW coins \in SUBSET Coins, Moved(A, Q, J, i, coins)
    PROVE  Ledger!Next
<1> USE DEF Moved
<1> DEFINE dead == A \cup Q \cup J
<1>1. dead \in SUBSET Ids
    BY DEF Ids, AdvanceIds
<1>2. ASSUME NEW c \in Coins
      PROVE  Owner'[c] = IF c \in coins THEN i ELSE IF Owner[c] \in dead THEN NoOwner ELSE Owner[c]
  <2>1. /\ opRes[c] \in AdvanceIds \cup {NoOwner} /\ rqRes[c] \in Receives \cup {NoOwner}
        /\ procIn[c] \in Jobs \cup {NoOwner} /\ NoOwner \notin Ids
    BY IdsAssumption DEF TypeOK
  <2>2. CASE c \in coins
    BY <2>2
  <2>3. CASE c \notin coins /\ opRes[c] # NoOwner
    <3>1. Owner[c] = opRes[c] /\ opRes[c] \in AdvanceIds /\ opRes[c] \notin Jobs
        BY <2>1, <2>3, OwnerShape, IdsAssumption
    <3>2. opRes[c] \notin Q
        BY <2>3 DEF Apart, HeldBy
    <3> QED BY <2>3, <3>1, <3>2
  <2>4. CASE c \notin coins /\ opRes[c] = NoOwner /\ rqRes[c] # NoOwner
    <3>1. Owner[c] = rqRes[c] /\ rqRes[c] \in Receives /\ rqRes[c] \notin Jobs
        BY <2>1, <2>4, OwnerShape, IdsAssumption DEF AdvanceIds
    <3>2. rqRes[c] \notin A
        BY <2>4, <3>1 DEF Apart, HeldBy
    <3> QED BY <2>4, <3>1, <3>2
  <2>5. CASE c \notin coins /\ opRes[c] = NoOwner /\ rqRes[c] = NoOwner
    <3>1. Owner[c] = procIn[c]
        BY <2>5, OwnerShape
    <3>2. procIn[c] \notin A \cup Q
        BY <2>1, IdsAssumption DEF Ids, AdvanceIds
    <3> QED BY <2>1, <2>5, <3>1, <3>2
  <2> QED BY <2>2, <2>3, <2>4, <2>5
<1>3. Owner' = [c \in Coins |-> IF c \in coins THEN i ELSE IF Owner[c] \in dead THEN NoOwner ELSE Owner[c]]
    BY <1>2 DEF Owner
<1>4. Ledger!Holding(i) = {} \/ coins = {}
    BY DEF Ledger!Holding
<1>5. Ledger!Move(dead, i, coins)
    BY <1>3, <1>4 DEF Ledger!Move
<1> QED BY <1>1, <1>5 DEF Ledger!Next

(* A step that only gives back.                                            *)
LEMMA ReleaseRefines ==
    ASSUME TypeOK, CoinFence,
           NEW A \in SUBSET AdvanceIds, NEW Q \in SUBSET Receives, NEW J \in SUBSET Jobs, Apart(A, Q),
           opRes' = Release(opRes, A), rqRes' = Release(rqRes, Q), procIn' = Release(procIn, J)
    PROVE  Ledger!Next \/ UNCHANGED Owner
<1>1. ASSUME NEW c \in Coins
      PROVE  Owner'[c] = IF opRes[c] # NoOwner THEN (IF opRes[c] \in A THEN NoOwner ELSE opRes[c])
                         ELSE IF rqRes[c] # NoOwner THEN (IF rqRes[c] \in Q THEN NoOwner ELSE rqRes[c])
                         ELSE IF procIn[c] \in J THEN NoOwner ELSE procIn[c]
  <2>1. Owner'[c] = IF opRes'[c] # NoOwner THEN opRes'[c]
                    ELSE IF rqRes'[c] # NoOwner THEN rqRes'[c] ELSE procIn'[c]
    BY DEF Owner
  <2>2. /\ opRes'[c] = (IF opRes[c] \in A THEN NoOwner ELSE opRes[c])
        /\ rqRes'[c] = (IF rqRes[c] \in Q THEN NoOwner ELSE rqRes[c])
        /\ procIn'[c] = (IF procIn[c] \in J THEN NoOwner ELSE procIn[c])
    BY DEF Release
  <2> QED BY <2>1, <2>2, OwnerShape
<1>2. CASE Ids = {}
  <2>1. \A c \in Coins : opRes[c] = NoOwner /\ rqRes[c] = NoOwner /\ procIn[c] = NoOwner
    BY <1>2 DEF TypeOK, Ids, AdvanceIds
  <2>2. \A c \in Coins : Owner'[c] = Owner[c]
    BY <1>1, <2>1, OwnerShape
  <2> QED BY <2>2 DEF Owner
<1>3. CASE Ids # {}
  <2>1. PICK i \in Ids : TRUE
    BY <1>3
  <2>2. Moved(A, Q, J, i, {})
    BY <1>1 DEF Moved
  <2>3. {} \in SUBSET Coins
    OBVIOUS
  <2>4. Ledger!Next
    BY <2>1, <2>2, <2>3, MoveRefines
  <2> QED BY <2>4
<1> QED BY <1>2, <1>3

(* Releasing nobody changes nothing.                                       *)
LEMMA ReleaseNobody ==
    ASSUME TypeOK
    PROVE  Release(opRes, {}) = opRes /\ Release(rqRes, {}) = rqRes /\ Release(procIn, {}) = procIn
    BY DEF TypeOK, Release

(* What lapses is in one table only.                                       *)
LEMMA ExpiryApart ==
    ASSUME IndInv, NEW at
    PROVE  /\ DeadAdvances(at) \in SUBSET AdvanceIds /\ DeadQuotes(at) \in SUBSET Receives
           /\ Apart(DeadAdvances(at), DeadQuotes(at)) /\ Apart({}, DeadQuotes(at))
<1> USE DEF IndInv
<1>1. ASSUME NEW a \in DeadAdvances(at) \cap Receives PROVE HeldBy(rqRes, a) = {}
  <2>1. aState[a] = "expired"
    BY DEF DeadAdvances, AdvancesAfter, LapsedAdvances, FillMatchesAdvance
  <2>2. qState[a] = "bound"
    BY <2>1 DEF FillMatchesAdvance
  <2> QED BY <2>2 DEF QuoteAndJobHoldInputs
<1>2. ASSUME NEW q \in DeadQuotes(at) PROVE HeldBy(opRes, q) = {}
  <2>1. q \in Receives /\ qState[q] \in {"quoted", "expired"}
    BY DEF DeadQuotes, QuotesAfter, LapsedQuotes
  <2>2. aState[q] = "none" /\ q \in AdvanceIds
    BY <2>1 DEF FillMatchesAdvance, AdvanceIds
  <2> QED BY <2>2 DEF AdvanceHoldsInputs
<1> QED BY <1>1, <1>2 DEF Apart, DeadAdvances, DeadQuotes

(* An advance that is bound to a quote holds no coin in the quote's table. *)
LEMMA LiveApart ==
    ASSUME IndInv, NEW A \in SUBSET AdvanceIds, \A a \in A : aState[a] # "none"
    PROVE  Apart(A, {})
<1> USE DEF IndInv
<1>1. \A a \in A \cap Receives : qState[a] = "bound"
    BY DEF FillMatchesAdvance
<1> QED BY <1>1 DEF Apart, QuoteAndJobHoldInputs

-----------------------------------------------------------------------------
(* Steps in which coins come back, or none moves.                          *)

Refined == Ledger!Next \/ UNCHANGED Owner

LEMMA StutterRefines == IndInv /\ UNCHANGED tables => Refined
    BY DEF tables, Owner, Refined

LEMMA ExpiryRefines ==
    ASSUME IndInv, NEW at, rqRes' = RqResAfter(at), procIn' = procIn,
           opRes' = opRes \/ opRes' = OpResAfter(at)
    PROVE  Refined
<1>1. CASE opRes' = OpResAfter(at)
    BY <1>1, ExpiryApart, ReleaseNobody, ReleaseRefines DEF OpResAfter, RqResAfter, Refined, IndInv
<1>2. CASE opRes' = opRes
    BY <1>2, ExpiryApart, ReleaseNobody, ReleaseRefines DEF RqResAfter, Refined, IndInv
<1> QED BY <1>1, <1>2

LEMMA AdvancesReleaseRefines ==
    ASSUME IndInv, NEW A \in SUBSET AdvanceIds, \A a \in A : aState[a] # "none",
           opRes' = Release(opRes, A), UNCHANGED <<rqRes, procIn>>
    PROVE  Refined
    BY LiveApart, ReleaseNobody, ReleaseRefines DEF Refined, IndInv

LEMMA ClaimRefines == IndInv /\ ClaimNext => Refined
<1> SUFFICES ASSUME IndInv, ClaimNext PROVE Refined
    OBVIOUS
<1>1. /\ opRes' = OpResAfter(now) /\ rqRes' = RqResAfter(now) /\ procIn' = procIn
    BY DEF ClaimNext, ClaimLockup, ReplayLockup, ExpireQuotes
<1> QED BY <1>1, ExpiryRefines

LEMMA ChainRefines == IndInv /\ ChainNext => Refined
<1> SUFFICES ASSUME IndInv, NEW a \in AdvanceIds,
                    \/ ObserveLockup(a)
                    \/ \E crashed \in BOOLEAN : SettleSponsored(a, crashed)
                    \/ ReleaseSponsored(a)
                    \/ BeginRecovery(a)
                    \/ \E terminal \in Terminal : ObserveSpend(a, terminal)
             PROVE  Refined
    BY DEF ChainNext
<1>1. \/ UNCHANGED tables
      \/ aState[a] # "none" /\ opRes' = Release(opRes, {a}) /\ UNCHANGED <<rqRes, procIn>>
    BY DEF ObserveLockup, SettleSponsored, ReleaseSponsored, BeginRecovery, ObserveSpend, tables
<1>2. CASE UNCHANGED tables
    BY <1>2, StutterRefines
<1>3. CASE aState[a] # "none" /\ opRes' = Release(opRes, {a}) /\ UNCHANGED <<rqRes, procIn>>
  <2>1. {a} \in SUBSET AdvanceIds /\ \A b \in {a} : aState[b] # "none"
    BY <1>3
  <2> QED BY <1>3, <2>1, AdvancesReleaseRefines
<1> QED BY <1>1, <1>2, <1>3

-----------------------------------------------------------------------------
(* Steps in which somebody takes coins.                                    *)

(* An id that is not there yet holds nothing.                              *)
LEMMA NewHoldsNothing ==
    ASSUME IndInv
    PROVE  /\ \A t \in Transfers : aState[t] = "none" => \A c \in Coins : Owner[c] # t
           /\ \A q \in Receives : qState[q] = "none" => \A c \in Coins : Owner[c] # q
           /\ \A j \in Jobs : jState[j] = "none" => \A c \in Coins : Owner[c] # j
<1> USE DEF IndInv
<1>1. ASSUME NEW t \in Transfers, aState[t] = "none" PROVE \A c \in Coins : Owner[c] # t
  <2>1. t \in Ids /\ t \in AdvanceIds /\ t \notin Receives /\ t \notin Jobs
    BY IdsAssumption DEF Ids, AdvanceIds
  <2>2. HeldBy(opRes, t) = {}
    BY <1>1, <2>1 DEF AdvanceHoldsInputs
  <2> QED BY <2>1, <2>2, HoldsNothing
<1>2. ASSUME NEW q \in Receives, qState[q] = "none" PROVE \A c \in Coins : Owner[c] # q
  <2>1. q \in Ids /\ q \in AdvanceIds /\ q \notin Jobs
    BY IdsAssumption DEF Ids, AdvanceIds
  <2>2. HeldBy(rqRes, q) = {} /\ aState[q] = "none"
    BY <1>2 DEF QuoteAndJobHoldInputs, FillMatchesAdvance
  <2>3. HeldBy(opRes, q) = {}
    BY <2>1, <2>2 DEF AdvanceHoldsInputs
  <2> QED BY <2>1, <2>2, <2>3, HoldsNothing
<1>3. ASSUME NEW j \in Jobs, jState[j] = "none" PROVE \A c \in Coins : Owner[c] # j
  <2>1. j \in Ids /\ j \notin AdvanceIds /\ j \notin Receives
    BY IdsAssumption DEF Ids, AdvanceIds
  <2>2. HeldBy(procIn, j) = {}
    BY <1>3 DEF QuoteAndJobHoldInputs
  <2> QED BY <2>1, <2>2, HoldsNothing
<1> QED BY <1>1, <1>2, <1>3

(* What the fence lets through belongs to nobody, or to a quote that lapsed.*)
LEMMA FenceFrees ==
    ASSUME IndInv, NEW at, NEW coins \in SUBSET Coins, NEW expected, Fence(coins, expected, RqResAfter(at))
    PROVE  \A c \in coins : /\ opRes[c] = NoOwner /\ procIn[c] = NoOwner
                            /\ rqRes[c] \in DeadQuotes(at) \cup {NoOwner}
                            /\ Owner[c] \in DeadQuotes(at) \cup {NoOwner}
<1> SUFFICES ASSUME NEW c \in coins
             PROVE  /\ opRes[c] = NoOwner /\ procIn[c] = NoOwner
                    /\ rqRes[c] \in DeadQuotes(at) \cup {NoOwner}
                    /\ Owner[c] \in DeadQuotes(at) \cup {NoOwner}
    OBVIOUS
<1>1. opRes[c] = NoOwner /\ procIn[c] = NoOwner /\ RqResAfter(at)[c] = NoOwner
    BY DEF Fence, AllReserved, Occupied
<1>2. rqRes[c] \in DeadQuotes(at) \cup {NoOwner}
    BY <1>1 DEF RqResAfter, Release
<1>3. Owner[c] = rqRes[c]
    BY <1>1 DEF Owner
<1> QED BY <1>1, <1>2, <1>3

(* A newcomer takes coins the fence let through, quotes of the instant at  *)
(* being expired in the same transaction.                                  *)
LEMMA TakeRefines ==
    ASSUME IndInv, NEW at, NEW i \in Ids, NEW coins \in SUBSET Coins, NEW expected,
           Fence(coins, expected, RqResAfter(at)),
           \A c \in Coins : Owner[c] # i,
           \/ /\ opRes' = Assign(opRes, coins, i)
              /\ rqRes' = RqResAfter(at) /\ procIn' = procIn
           \/ /\ rqRes' = Assign(RqResAfter(at), coins, i)
              /\ opRes' = opRes /\ procIn' = procIn
           \/ /\ procIn' = Assign(procIn, coins, i)
              /\ rqRes' = RqResAfter(at) /\ opRes' = opRes
    PROVE  Refined
<1>1. \A c \in coins : /\ opRes[c] = NoOwner /\ procIn[c] = NoOwner
                       /\ rqRes[c] \in DeadQuotes(at) \cup {NoOwner}
                       /\ Owner[c] \in DeadQuotes(at) \cup {NoOwner}
    BY FenceFrees
<1>2. i # NoOwner
    BY IdsAssumption
<1>3. ASSUME NEW c \in Coins
      PROVE  Owner'[c] = IF c \in coins THEN i
                         ELSE IF opRes[c] # NoOwner THEN (IF opRes[c] \in {} THEN NoOwner ELSE opRes[c])
                         ELSE IF rqRes[c] # NoOwner
                              THEN (IF rqRes[c] \in DeadQuotes(at) THEN NoOwner ELSE rqRes[c])
                         ELSE IF procIn[c] \in {} THEN NoOwner ELSE procIn[c]
  <2>1. Owner'[c] = IF opRes'[c] # NoOwner THEN opRes'[c]
                    ELSE IF rqRes'[c] # NoOwner THEN rqRes'[c] ELSE procIn'[c]
    BY DEF Owner
  <2>2. RqResAfter(at)[c] = IF rqRes[c] \in DeadQuotes(at) THEN NoOwner ELSE rqRes[c]
    BY DEF RqResAfter, Release
  <2>3. rqRes[c] # NoOwner => procIn[c] = NoOwner
    BY DEF IndInv, CoinFence, Occupied
  <2>4. CASE opRes' = Assign(opRes, coins, i) /\ rqRes' = RqResAfter(at) /\ procIn' = procIn
    BY <1>1, <1>2, <2>1, <2>2, <2>3, <2>4 DEF Assign
  <2>5. CASE rqRes' = Assign(RqResAfter(at), coins, i) /\ opRes' = opRes /\ procIn' = procIn
    BY <1>1, <1>2, <2>1, <2>2, <2>3, <2>5 DEF Assign
  <2>6. CASE procIn' = Assign(procIn, coins, i) /\ rqRes' = RqResAfter(at) /\ opRes' = opRes
    BY <1>1, <1>2, <2>1, <2>2, <2>3, <2>6 DEF Assign
  <2> QED BY <2>4, <2>5, <2>6
<1>4. Moved({}, DeadQuotes(at), {}, i, coins)
    BY <1>1, <1>3, ExpiryApart DEF Moved
<1>5. {} \in SUBSET AdvanceIds /\ {} \in SUBSET Jobs /\ DeadQuotes(at) \in SUBSET Receives
    BY ExpiryApart
<1> QED BY <1>4, <1>5, MoveRefines DEF Refined, IndInv

LEMMA QuoteRefines == IndInv /\ QuoteNext => Refined
<1> SUFFICES ASSUME IndInv, QuoteNext PROVE Refined
    OBVIOUS
<1>1. ASSUME NEW id, NEW rail, Admit(id, rail) PROVE Refined
  <2>1. opRes' = OpResAfter(now) /\ rqRes' = RqResAfter(now) /\ procIn' = procIn
    BY <1>1 DEF Admit
  <2> QED BY <2>1, ExpiryRefines
<1>2. ASSUME NEW at \in 0 .. now, ReserveQuote(at) PROVE Refined
  <2>1. draft.coins \in SUBSET Coins /\ draft.id \in Transfers /\ aState[draft.id] = "none"
    BY <1>2 DEF ReserveQuote, IndInv, TypeOK, Idle, Drafts, DraftIsFresh
  <2>2. draft.id \in Ids /\ \A c \in Coins : Owner[c] # draft.id
    BY <2>1, NewHoldsNothing DEF Ids, AdvanceIds
  <2>3. /\ Fence(draft.coins, draft.reserved, RqResAfter(at))
        /\ opRes' = Assign(opRes, draft.coins, draft.id)
        /\ rqRes' = RqResAfter(at) /\ procIn' = procIn
    BY <1>2 DEF ReserveQuote
  <2> QED BY <2>1, <2>2, <2>3, TakeRefines
<1>3. ASSUME InsertReceiveQuote PROVE Refined
  <2>1. draft.coins \in SUBSET Coins /\ draft.id \in Receives /\ qState[draft.id] = "none"
    BY <1>3 DEF InsertReceiveQuote, IndInv, TypeOK, Idle, Drafts, DraftIsFresh
  <2>2. draft.id \in Ids /\ \A c \in Coins : Owner[c] # draft.id
    BY <2>1, NewHoldsNothing DEF Ids, AdvanceIds
  <2>3. /\ Fence(draft.coins, draft.reserved, RqResAfter(draft.at))
        /\ rqRes' = Assign(RqResAfter(draft.at), draft.coins, draft.id)
        /\ opRes' = opRes /\ procIn' = procIn
    BY <1>3 DEF InsertReceiveQuote
  <2> QED BY <2>1, <2>2, <2>3, TakeRefines
<1> QED BY <1>1, <1>2, <1>3, StutterRefines
        DEF QuoteNext, AdmitTransfer, AdmitSponsored, AdmitReceive, SelectFunding,
            RetryReservation, AbandonAdmission

(* Binding moves a quote's coins from one table to another: their owner    *)
(* stays, and quotes that lapsed let go.                                   *)
LEMMA BindRefines == IndInv /\ BindFill => Refined
<1> SUFFICES ASSUME IndInv, BindFill PROVE Refined
    OBVIOUS
<1> USE DEF IndInv
<1> DEFINE q == draft.id
           at == draft.at
<1>1. q \in Receives /\ q \in Ids /\ q # NoOwner
    BY IdsAssumption DEF BindFill, TypeOK, Idle, Drafts, DraftIsFresh, Ids, AdvanceIds
<1>2. qState[q] = "quoted" /\ q \notin DeadQuotes(at)
    BY <1>1 DEF BindFill, QuotesAfter, DeadQuotes
<1>3. \A c \in Coins : c \in inputs[q] <=> rqRes[c] = q
    BY <1>1, <1>2 DEF QuoteAndJobHoldInputs, HeldBy
<1>4. opRes' = Assign(opRes, inputs[q], q) /\ rqRes' = Release(RqResAfter(at), {q}) /\ procIn' = procIn
    BY DEF BindFill
<1>5. ASSUME NEW c \in Coins
      PROVE  Owner'[c] = IF c \in {} THEN q
                         ELSE IF opRes[c] # NoOwner THEN (IF opRes[c] \in {} THEN NoOwner ELSE opRes[c])
                         ELSE IF rqRes[c] # NoOwner
                              THEN (IF rqRes[c] \in DeadQuotes(at) THEN NoOwner ELSE rqRes[c])
                         ELSE IF procIn[c] \in {} THEN NoOwner ELSE procIn[c]
  <2>1. Owner'[c] = IF opRes'[c] # NoOwner THEN opRes'[c]
                    ELSE IF rqRes'[c] # NoOwner THEN rqRes'[c] ELSE procIn'[c]
    BY DEF Owner
  <2>2. opRes'[c] = IF rqRes[c] = q THEN q ELSE opRes[c]
    BY <1>3, <1>4 DEF Assign
  <2>3. rqRes'[c] = IF rqRes[c] \in DeadQuotes(at) \/ rqRes[c] = q THEN NoOwner ELSE rqRes[c]
    BY <1>1, <1>4 DEF RqResAfter, Release
  <2>4. rqRes[c] # NoOwner => opRes[c] = NoOwner /\ procIn[c] = NoOwner
    BY DEF CoinFence, Occupied
  <2> HIDE DEF q, at
  <2> QED BY <1>1, <1>2, <1>4, <2>1, <2>2, <2>3, <2>4
<1>6. Moved({}, DeadQuotes(at), {}, q, {})
    BY <1>5, ExpiryApart DEF Moved
<1>7. /\ {} \in SUBSET AdvanceIds /\ {} \in SUBSET Jobs /\ {} \in SUBSET Coins
      /\ DeadQuotes(at) \in SUBSET Receives
    BY ExpiryApart
<1> QED BY <1>1, <1>6, <1>7, MoveRefines DEF Refined

LEMMA FillRefines == IndInv /\ FillNext => Refined
<1> SUFFICES ASSUME IndInv, FillNext PROVE Refined
    OBVIOUS
<1>1. ASSUME NEW q \in Receives, NEW stale \in SUBSET Receives, AdmitFill(q, stale) PROVE Refined
  <2>1. /\ stale \in SUBSET AdvanceIds /\ \A a \in stale : aState[a] # "none"
        /\ opRes' = Release(opRes, stale) /\ rqRes' = RqResAfter(now) /\ procIn' = procIn
    BY <1>1 DEF AdmitFill, CancelFills, Cancellable, AdvanceIds
  <2>2. Apart(stale, {}) /\ Apart({}, DeadQuotes(now)) /\ DeadQuotes(now) \in SUBSET Receives
    BY <2>1, LiveApart, ExpiryApart
  <2>3. Apart(stale, DeadQuotes(now))
    BY <2>2 DEF Apart
  <2>4. procIn' = Release(procIn, {}) /\ {} \in SUBSET Jobs
    BY <2>1, ReleaseNobody DEF IndInv
  <2>5. rqRes' = Release(rqRes, DeadQuotes(now))
    BY <2>1 DEF RqResAfter
  <2> QED BY <2>1, <2>2, <2>3, <2>4, <2>5, ReleaseRefines DEF Refined, IndInv
<1>2. ASSUME NEW q \in Receives, CancelFill(q) PROVE Refined
  <2>1. /\ {q} \in SUBSET AdvanceIds /\ \A a \in {q} : aState[a] # "none"
        /\ opRes' = Release(opRes, {q}) /\ UNCHANGED <<rqRes, procIn>>
    BY <1>2 DEF CancelFill, CancelFills, Cancellable, AdvanceIds
  <2> QED BY <2>1, AdvancesReleaseRefines
<1>3. ASSUME NEW q \in Receives, SettleFill(q) PROVE Refined
    BY <1>3, StutterRefines DEF SettleFill
<1> QED BY <1>1, <1>2, <1>3, BindRefines DEF FillNext

LEMMA ProceedsRefines == IndInv /\ ProceedsNext => Refined
<1> SUFFICES ASSUME IndInv, ProceedsNext PROVE Refined
    OBVIOUS
<1>1. ASSUME NEW j \in Jobs, CreateJob(j) PROVE Refined
  <2>1. collector.coins \in SUBSET Coins /\ j \in Ids
    BY <1>1 DEF CreateJob, IndInv, TypeOK, Plans, Ids
  <2>2. \A c \in Coins : Owner[c] # j
    BY <1>1, NewHoldsNothing DEF CreateJob
  <2>3. /\ Fence(collector.coins, collector.reserved, RqResAfter(nowMs))
        /\ procIn' = Assign(procIn, collector.coins, j)
        /\ rqRes' = RqResAfter(nowMs) /\ opRes' = opRes
    BY <1>1 DEF CreateJob
  <2> QED BY <2>1, <2>2, <2>3, TakeRefines
<1>2. ASSUME NEW j \in Jobs, FinishJob(j) PROVE Refined
  <2>1. opRes' = opRes /\ rqRes' = rqRes /\ procIn' = Release(procIn, {j})
    BY <1>2 DEF FinishJob
  <2>2. opRes' = Release(opRes, {}) /\ rqRes' = Release(rqRes, {})
    BY <2>1, ReleaseNobody DEF IndInv
  <2>3. Apart({}, {}) /\ {} \in SUBSET AdvanceIds /\ {} \in SUBSET Receives /\ {j} \in SUBSET Jobs
    BY DEF Apart
  <2> QED BY <2>1, <2>2, <2>3, ReleaseRefines DEF Refined, IndInv
<1> QED BY <1>1, <1>2, StutterRefines
        DEF ProceedsNext, PlanProceeds, EnterSubmission, DropPlan

LEMMA NextRefines == IndInv /\ [Next]_vars => Refined
<1> SUFFICES ASSUME IndInv, [Next]_vars PROVE Refined
    OBVIOUS
<1>1. CASE EnvNext
    BY <1>1, StutterRefines DEF EnvNext, UpdatePolicy, Tick
<1>2. CASE UNCHANGED vars
    BY <1>2, StutterRefines DEF vars, tables
<1> QED BY <1>1, <1>2, QuoteRefines, ClaimRefines, FillRefines, ChainRefines, ProceedsRefines DEF Next

LEMMA InitRefines == Init => Ledger!Init
    BY DEF Init, Ledger!Init, Owner

-----------------------------------------------------------------------------
(* The three reservation tables behave as one ledger of exclusive owners,  *)
(* for any number of coins, flows and jobs: whatever expires, is bound or  *)
(* collected, a coin never passes from one live owner to another and an    *)
(* owner takes all its coins in one step.                                  *)
THEOREM LedgerImplemented == Spec => ImplementsCoinLedger
<1>1. Spec => []IndInv
    BY InitInv, NextInv, PTL DEF Spec
<1>2. IndInv /\ [Next]_vars => [Ledger!Next]_Owner
    BY NextRefines DEF Refined
<1> QED BY <1>1, <1>2, InitRefines, PTL DEF Spec, ImplementsCoinLedger, Ledger!Spec
=============================================================================
