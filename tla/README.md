# Verification of Arkade Taxi

Arkade Taxi is a service that lends the dust a small Arkade output needs. A
sender asks for a quote, gets a transaction graph in which the operator's coins
pay the dust of a covenant output, signs it and claims the lockup; the operator
signs too, submits it, watches the covenant, and gets its dust back when the
recipient spends the covenant or, after a delay, by recovering it. One process
runs with one SQLite database (`docs/runbook.md`), though leases and fences are
written for more; everything is asynchronous JavaScript on one thread, so a
stretch of code between two awaits is atomic and an await is where everybody
else gets a turn. The client package is the other side: it plans, verifies, signs
and keeps a wallet's payments, claims and history.

This directory models the parts of the service and of its client where money is
tied up, handed out or given back, checks them with TLC on small instances and
proves the most important properties with TLAPS for every instance.

## The system and its inventory

| Component | State it keeps | Operations | What is hard | What makes it correct |
|---|---|---|---|---|
| Reservations and transfer quotes (`db/reservations`, `app/quotes`, `app/sponsoredQuotes`) | advances in `quoted`, `operator_input_reservations` | quote, reserve, expire, claim, release | coins are selected before awaits and reserved after them | a coin has one owner; nothing is admitted past caps, pause or deadline |
| Receive quotes (`db/receiveQuotes`, `app/receiveQuotes`) | quote rows, `receive_quote_reservations` | insert, expire, bind to a fill | shares coins with the table above and with proceeds | as above, and quote, fill and advance move together |
| Fills (`db/fills`, `app/fills`, `arkade/arkFillSubmitter`) | fill rows with lease, invocation flag and deadline | bind, sign, submit once, cancel, expire | a lost reply or a crash leaves a transaction that may land later | what may land is not given up, its coins are not freed; every fill ends |
| Fill reconciler (`app/fillReconciler`) | `unexpected` and `quarantineObserved` sets | a pass over a snapshot of rows | writes after awaits, with lagging evidence | acts only on rows that are still as read |
| Submission worker (`arkade/submit`, `db/advances`) | submission phase, artifacts, lease, retry time | claim, prepare, submit, finalize, fail, retry | lapsed leases, lost replies, two signatures for one transaction id | the provider's copy and the row's agree for ever |
| Lockup reconciler (`app/reconciler`) | blockers of the last pass | resume, observe, release, custody pass | two transactions per settlement, a crash between them | coins come back |
| Proceeds collector (`app/proceeds`, `db/proceeds`) | the active job, its lease and intent, `proceeds_inputs` | plan, create, guard, register, verify, complete, cancel | one long plan over many awaits; several processes | one job is offered once; a job that may be out is not cancelled |
| Policy and asset rules (`db/policy`, `db/assetRules`) | caps, pause, revision | update | changes between two steps of a request | an admission uses the policy in force |
| Operator runtime (`arkade/operatorWallet`, `arkade/inventory`) | wallet, admission chain | `withAdmission`, checks, renewal, dispose | the chain of admissions, a timeout on each | one admission at a time, none waits for ever |
| Recovery and sweeper (`arkade/recovery`, `sweeper`) | recovery phase, artifacts, lease | claim, broadcast, fail, retry | races the recipient's spend | one recovery transaction, recorded before it is sent |
| Watcher (`app/watcher`) | spend observations, subscriptions | scan, classify, adopt a renewal, review, synchronise | incomplete and contradictory evidence | a terminal state has a spend behind it; a disagreement is not taken back on one look |
| Custody (`db/custody`, `app/custody`) | releases and the coins they bind | claim, bind, send, abandon, write off | several transactions per release | a liability is paid once, from coins nobody else may take |
| Lifecycle (`app/lifecycle`) | phase, workers | start, retry, stop | a bounded drain, and work nobody awaits | the database is closed after what the drain awaits; not after a contract event's tick (see the findings) |
| Claims (`app/claimFeed`, `app/claims`, `app/delegatee`) | a subscription's baseline and pending changes | list, sample, coalesce, write | a slow stream, a late answer | the wallet ends up with what the rows say |
| Admin and public routes (`app/routes`, `admin/routes`) | none of their own | pause, resume, retry, policy | read, await, write | resume sees every blocker |
| Builders and covenant (`core`, `covenant`, `app/lockup`, `app/sponsored`) | none | price, build, verify, spend, classify | three parties build or check the same transaction | each accepts what the others honestly build and nothing worse |
| Client protocol (`client/src`, `client/src/joint`) | policy cache, signing sessions | quote, verify, sign, submit, judge | an untrusted identity, provider and service | never signs what was not authorised, never keeps an answer that is not its own |
| Client wallet (`client/src/wallet`) | pending record, offers, capability of a claim, history | pay, resume, claim, watch, record | several contexts, lost answers, a lock that outlives the wait | one payment at a time, one spend per coin, a true history |

Calls go from the routes to the repositories. Each repository operation is one
SQLite transaction. The workers (submission worker, reconcilers, sweeper,
collector) run on one operational tick every `reconcileIntervalMs`, plus
prompts, and share the rows with the requests. Nothing but the database
survives a crash of the service; the provider and the chain keep what they were
sent. The client keeps its pending record and history in storage that its
contexts share and everything else in memory.

## Modules

Service:

| Module | Models | State | Actions |
|---|---|---|---|
| `Reservations` | the operator's coins and the flows that tie them up | policy, advances, quotes, fills, jobs, three reservation tables, the admission and the plan in progress | `Admit*`, `SelectFunding`, `ReserveQuote`, `RetryReservation`, `InsertReceiveQuote`, `ClaimLockup`, `ReplayLockup`, `ExpireQuotes`, `AdmitFill`, `BindFill`, `CancelFill`, `SettleFill`, `ObserveLockup`, `SettleSponsored`, `ReleaseSponsored`, `BeginRecovery`, `ObserveSpend`, `PlanProceeds`, `CreateJob`, `EnterSubmission`, `FinishJob`, `UpdatePolicy`, `Tick` |
| `CoinLedger` | the abstract promise: one exclusive owner per coin | `owner` | `Move` |
| `FillSubmission` | a fill from binding to settlement | fill row, advance, outpoint, request, transaction, covenant, the reconciler's pass and memory | `BindFill`, `FailSigning`, `LoseLease`, `RefuseLapsed`, `Submit`, `RecordSubmitted`, `RecordAmbiguous`, `ExpireFill`, `StartTick`, `Observe`, `MissEvidence`, `FlagUnexpected`, `ReconcileCancelled`, `KeepWaiting`, `ReconcileSettled`, `FailToSettle`, `EndTick`, the watcher's and the chain's steps, `Restart` |
| `Submission` | the leased background submission of a claimed lockup | submission columns, each process's run, prompts, pass, provider | `ClaimLockup`, `TakePrompt`, `TickStart`, `Prepared`, `PrepareFails`, `Submitted`, `Finalized`, `CallFails`, `BadAnswer`, `TickObserve`, `TickEnd`, admin pause, resume and retry, `Crash`, `Restart`, `Lapse`, `BecomeDue`, `Accept`, `Land` |
| `Covenant` | a covenant advance from its lockup to the verdict on its spend: spend watcher, sweeper and recovery runner | the row's state, outpoint, recovery phase, graph and lease; each process's scan, recoverable set and run; calls to the emulator; the covenant coin | `ObserveLockup`, `ScanStart`, `ScanWithoutTip`, `ScanRead`, `ScanWrite`, `Sweep`, `SweepFails`, `Answered`, `CallFails`, `BadAnswer`, `RetryRecovery`, `Crash`, `Restart`, `Lapse`, `BecomeDue`, and the chain's `Mature`, `LandLockup`, `Spend`, `LandReclaim`, `Renew`, `Leave`, `Reorg` |
| `TerminalReview` | the review of a closed row over a chain that reorganises | the row's observation and disagreement, each watcher's review, tip, coin, pause | `ReviewStart`, `ReviewTip`, `ReviewCoin`, `ReviewCheck`, `ReviewRecord`, `ReviewStop`, `Block`, `Reorg`, `CoinReturns`, `Unpause` |
| `Subscription` | the watcher's registrations in the wallet's contract manager | rows, wallet, manager's scripts, the sync in progress and the request it owes, start and stop | `StartScan` … `SyncUnwatch`, one action per await of a sync; `StartWatcher`, `StopWatcher`, `StopSettled`, `StopDetach`, `StopDrop`; `RowsMove`, `WalletMoves` |
| `Treasury` | proceeds jobs and background renewals of several processes | coins, reservations, jobs with lease and intent, worker and renewal of each process, the settlement turn, the wallet | the collector's and the background's steps (`CollectorNext`, `BackgroundNext`), arkd's batches, quotes, lapses, crashes |
| `Custody` | what the Taxi owes after a reclaim, and its payout | custody rows, bound coins, requests' closures, landed payouts | `OpenCustodyRow`, `PrepareStart`, `PrepareBind`, `PrepareFail`, `CompleteStart`, `SubmitAnswered`, `SubmitFailed`, `RecordReleased`, `CrashRequest`, `WriteOff`, `SpendElsewhere`, `Tick` |
| `Runtime` | admissions, runtime checks, start and shutdown | requests, the admission chain, the check in progress, phase, passes, the watcher's subscription and the tick its events prompt, drain, database | `Admissions`, `QueuedRefresh`, `CheckDone`, `Passes`, `WorkerEnds`, `ContractEvent`, `EventTickEnds`, `Shutdown` and their parts |

Values and signatures, shared by service and client:

| Module | Models |
|---|---|
| `CovenantTerms` | the covenant's terms and leaves, the spends that client and recovery runner build, the watcher's classification |
| `JointGraphs` | the fare, the service's transfer and sponsored graph, the sender's check, the service's check of a fill graph |
| `ReceiveTerms` | the receive quote and the maker's check of it against the advertised policy |
| `PaymentPlan` | the wallet's plan of a payment: fare, coins, change |
| `ValueFlow` | one transfer from plan or request through quote, verification, landing or fill, to the spend and its class, with misquotes and policy changes |
| `JointSigning` | the signatures of the four routes: who signs when, what an untrusted identity, poster or provider may alter, what is judged acceptable, and a crash between the two halves of a provider call |

Client wallet:

| Module | Models | State |
|---|---|---|
| `Sender` | a payment under the sender's lock and journal, with resume, recheck and forget in several contexts | the Taxi's rows, requests under way, pending record, lock, each context's operation and error object |
| `ClaimFeed` | a claim from the Taxi's rows through the event stream to a verified offer | row, baseline, pending change, stream, the watch and its verification |
| `ClaimQueue` | the queue that spends offers, free ones by itself and paid ones on request | offers, capabilities, wakes, the run with its coins and authorization, switches |
| `Activity` | the history's merge of late status answers | record, each reader's read, the clock in seconds |

`MC*` modules are instances for TLC. `MCService`, `MCClient`, `MCOperator` and `MCWallet` hold
several modules each. Their parts share no state: they abstract different data of
one component, or meet only in what each reads as coming from outside and which
both let happen at any time. A behaviour is therefore one part's, chosen by `part`,
with the others at rest; properties of all parts are checked in one run and
interleaving them would only multiply states. `*Proofs` modules hold theorems and their proofs.

An action is one stretch between awaits. A value a handler reads before an
await and uses after it is kept in a variable (`draft`, `collector`, `visit`,
`run`, `scan`, `startedAt`, `call`, `op`), so it is as stale in the model as in the code. SQL
`WHERE` clauses are the guards; where the code throws inside a transaction the
whole action is disabled or leaves the rows alone, as the rollback does.

Abstractions. In the service's modules transaction graphs, signatures and evidence
are values that match or do not; each signing gives a new value, because the operator's
signatures are randomised. What is in a graph is `JointGraphs`', `ReceiveTerms`' and
`CovenantTerms`' subject: a transaction there is the coins it spends and the coins it makes,
a coin has a key, sats and units of every asset, and scripts, packets and anchors are left
out. Every advance lends the configured dust, so sums are counts.
`fill_reservations` is no variable: `bindFill` empties it in the transaction
that fills it. `Submission` and `Covenant` have one row because every statement of those
parts names one row, and they replace lease times by two facts, whether the lease runs
and whether the retry is due. `Reservations` and `FillSubmission` overlap on
purpose: the first has the coins of many flows and a coarse fill, the second
one fill in full; in both the advance obeys the same transitions. In `Covenant` coins are
numbered by renewal, a reclaim graph is the number of the coin it spends, and the classification
of a spend is its outcome: the leaf, or evidence that cannot be used. Whether a second
spend through the same leaf is the same transaction is left open after a fault. `Treasury`
has coins without amounts. `JointSigning` has signatures as the key that made them and
whether they still fit the graph.

## Runs

| Run | Shows |
|---|---|
| `reservations` | A transfer, a receive quote with its fill and a proceeds job fight over two coins. `CoinFence`: no coin in two tables. `FlowsHoldTheirCoins`: a live flow holds exactly its coins, a finished one none, and quote, fill and advance move together. `ImplementsCoinLedger`: the three tables refine `CoinLedger`. The administrator pauses or cuts the caps between two steps of an admission: `AdmissionIsCurrent`. |
| `reservations_live` | `CoinsComeBack`: unclaimed quotes end and delivered sponsored payments return their coins, also after a crash between observation and release. |
| `fill` | A fill against its expiry, a reconciler with stale rows and lagging evidence, the watcher, a late landing and a crash. `AbandonedFillCannotLand`, `ReservedWhileItMayLand`: what may land is not given up. `FillIsAccounted`: fill, advance and reservation move together, and readiness overlooks only submitted, reserved fills. `RequestIsProtected`: a graph leaves before its deadline, and nobody ends a fill whose request still has the lease. `FillEnds`: every fill that was never submitted, has a conflicting spend or has landed ends, except where its covenant was spent or renewed before the lockup was seen. |
| `service` | Two parts. Submission: two workers on one row. `OneGraph`: provider, calls and row hold one signed graph. `WorkersTakeTurns`: only the holder of the lease sends, and what is stored is final. `SubmissionEnds`: a claimed lockup is observed or fails for the operator to see. Runtime: `OneCurrentAdmission`, however long an admission overruns its snapshot, no two requests hold a current one; `AdmissionQueueMoves`, a queued request gets its turn or its refusal, past a hung one; `DatabaseOutlivesTheDrained`, the database closes when no pass, worker or connected request is left, or the deadline forced it. |
| `covenant` | Two processes scan and recover one covenant that is spent, renewed, unrolled, swept or reorged under them. `SpendsAreTheRows`: a verdict has a spend behind it, never an emulator's answer, and one stored reclaim goes out, of the row's coin. `OutcomesStand`: late answers, stale scans and retries change nothing that is settled. `LeaseProtectsRecovery`. `CovenantEnds`: a matured covenant that was not renewed gets its verdict or is left to the operator. |
| `client` | Three parts. Value: `SignedIsAuthorised` and `CosignedAsAgreed`, nobody signs a graph that costs more, or delivers less, than was agreed, whatever the quote or the graph says; `HonestQuoteIsSigned`, what a wallet plans every operator coin of three dust units answers, and what the service honestly builds for it or for a receive quote is accepted, but for the two refusals listed below; `SettledAsAgreed`, every admitted spend of the covenant pays what was lent and is classified as what it is. Signatures: `SentIsSound`, what is sent first can be completed and carries no stranger's signature; `HonestAnswerIsAccepted`. Sender: `RecordKeptWhileItMayLand` and `OutcomeIsTrue`. |
| `operator` | Four parts. Treasury: `OffersAreExclusive`, a job is offered by one process at a time and its coins by nobody else's; `BackgroundSparesHeld`, renewal spends no coin, spendable off-chain, that a quote or a fill reserved or a job has as an input; it says nothing of a job's receipts. Custody: `PayoutIsExclusive`. Review: `ClearedByTwoSightings`. Subscriptions: `WatchFollowsRows`. |
| `wallet` | Three parts. History: `HistoryCatchesUp`. Feed: `OffersFollowTheTaxi`. Queue: `OneSpendEach`, no coin is signed into two claims and no claim is signed twice; `FreeOffersAreTaken`. |

Four more runs are expected to be violated; each states what a document or a
comment of the repository says and the code does otherwise.

| Run | Finding |
|---|---|
| `reservations_deadline` | The proceeds collector's default clock is in milliseconds and expires receive quotes, whose `expiresAt` is in seconds, at once. |
| `fill_overtaken` | A covenant spent (or renewed) before the lockup was observed leaves the landed fill `submitting` for ever. |
| `covenant_renewal` | A row that has adopted a renewal is validated against the lockup graph at its new outpoint, which that graph does not have: every later scan calls the coin unknown and pauses admission, and the covenant is neither classified nor recovered. No fault is needed. The repository's tests scan once after the adoption. |
| `runtime_shutdown` | A contract event starts a reconciler tick whose promise nobody keeps (`watcher.ts:1616`, `cli.ts:144`). `watcher.stop()` (`watcher.ts:1721`) takes the subscription away and the drain (`cli.ts:425`) waits for the pass and the workers, so a tick that waits for the indexer goes on after `closeDatabase` and uses the closed database (`DatabaseOutlivesItsUsers`). `lifecycle.ts:150` closes the database once what it drains is done. |

### Bounds

*Reservations, fills, submission, covenant.* Two coins and one flow of each kind are enough to have every pair of flows
compete for a coin; the second transfer id appears where two quotes compete for
capacity. Flows are independent of one another except through coins, caps and
expiry, and each of those relates two flows at a time. `MaxAttempts` is 3 in the
code and 2 here, one failure and one retry; the theorems hold for any value.
Time runs far enough past each deadline for every comparison to come out both
ways: `QuoteTtl` of one second against two or three seconds of clock, a lease shorter
than the deadline in `fill` (2 against 3, clock to 5) so that the lease
lapses before, at and after the deadline. One crash is enough in
`FillSubmission`, where memory after a second crash is what it was after the
first. In `Submission` four leases let a stalled worker come back after two
others have claimed the row, and two faults combine a lost reply with a crash or
a lapse. In `Covenant` two coins give a renewal, three leases a take-over of a
take-over, and one fault a crash, a stall, a lost call, bad evidence or a reorg;
`CovenantEnds` says nothing of a behaviour that uses the leases up.

*Client.* Dust of three with a minimum of one has values below, at and above each of the two
boundaries and a change that falls between them. Two assets tell the moved one from the one a fare
is charged in. The fares are flat, proportional and capped, rounded and
not. Wallets have plain coins, coins with units and both. Graphs to verify are
the honest ones and those with any field altered. Two contexts and two payments
are what a second payment beside an unfinished one needs; the theorems about
`Sender` hold for any number.

*Operator.* Two processes, two coins and two intents let one job's offer meet another process's or a
renewal; two liabilities, two coins and two requests let every pair of payouts
meet, and three claims let one come back after two others; one reorganisation of a chain of two blocks
lets two reviews straddle it; two covenants and two wallets, three changes and one
failed call of a manager let a sync be overtaken at each of its awaits. `Distinguished`
leaves out of the state the label of a job's row that no step reads.

*Service.* The row of `Submission` has the bounds above. The runtime has three requests: one overruns, one follows,
one arrives during either; `runtime_shutdown` needs one. The phases, passes, events and the shutdown are not bounded.

*Wallet.* Two readers, with a retry, a renewal and a lost answer; a stream that breaks twice
around a renewal and a failed verification; a free and a paid claim over one coin, two offers
of each, two switches and one fault.

Symmetry over coins, processes or contexts is used only in
runs without liveness properties. `CHECK_DEADLOCK FALSE` is set where the work really ends: a settled fill, a
locked or failed lockup, a closed covenant, a signed or refused transfer, a closed process, and
exhausted bounds.

### Fairness

- Ticks start, proceed and end: the operational tick re-arms itself every
  `reconcileIntervalMs` and each pass is a loop over a finite list.
- The clock advances; a retry that waits becomes due; a lease whose holder is
  gone runs out.
- A process that died is started again by its supervisor (`docs/runbook.md`).
- The indexer eventually shows what the chain holds to a reconciler that keeps
  asking: strong fairness, because it may answer late or fail in between.
- Provider calls come back or fail, and the provider serves what it received;
  failures are limited by the fault budget. A provider that is down for ever is
  excluded, and nothing is promised for it.
- `Sweep` is strongly fair: the tick of a process reconciles, scans and then
  sweeps (`cli.ts`), and each scan empties and refills the recoverable set, so the
  sweep is enabled again and again rather than always.
- A reclaim the emulator has answered for lands while its coin is there. One whose
  answer was lost need not.
- `Runtime`: a request whose turn has come proceeds, timers fire, a check that was started
  ends, and the drain of a shutdown goes on. The work of an admission itself may hang for ever.
- `Activity`: some context polls, which the wallet's timer does, and an answer that is on
  its way arrives.
- `ClaimFeed`: the timers of subscription and sampling fire, writes end, a broken stream is
  connected again, and the watch's reads come back.
- `ClaimQueue`: wakes run and a run that started goes on; no fairness of the user.

`Sender`, `Treasury`, `Custody`, `TerminalReview`, `Subscription`, `ValueFlow` and
`JointSigning` state safety only and assume no fairness. No fairness is assumed anywhere of the
administrator, the recipients or crashes.

## Proofs

| Module | Theorems | Inductive invariant |
|---|---|---|
| `ReservationsProofs` | `TypeCorrect`, `CoinFenceHolds`, `LiveFlowsHoldTheirCoins`, `AdmissionsStayCurrent`, `LedgerImplemented` | `TypeOK`, `DraftIsFresh`, `FillMatchesAdvance`, `CoinFence`, `AdvanceHoldsInputs`, `QuoteAndJobHoldInputs` |
| `FillSubmissionProofs` | `FillTypeCorrect`, `AbandonedNeverLands`, `CoinsReservedWhileOpen`, `RowsAgree`, `RequestsAreProtected` | `TypeOK` and `Safe(f)` of every fill |
| `SubmissionProofs` | `SubmissionTypeCorrect`, `OneGraphAlways`, `WorkersAlwaysTakeTurns` | `TypeOK`, `RowShape`, `CallsCarryTheRow`, `ProviderAgrees`, `FinalizedHasLanded` |
| `CovenantProofs` | `CovenantTypeCorrect`, `SpendsStayTheRows`, `OutcomesAlwaysStand`, `RecoveryLeaseHolds` | `TypeOK`, `SpendsHappened`, `RecoveryShape`, `ClosedByItsSpend`, `ReclaimSpendsTheRowsCoin` |
| `ClientProofs` (sender) | `RecordAlwaysKept`, `OutcomesAreTrue` | `SenderInv`: types, `PaymentsAreQuoted`, `ConfirmsAlone`, `SeenIsTrue`, and the two properties |
| `ClientProofs` (claims) | `EachSpentOnce` | `QueueInv`: types, `TriesUnspent`, `SignedStayConsumed`, `HasItsCapability`, `AsideForTheRun`, `SignedCoinsConsumed` |
| `ClientProofs` (signing) | `SentGraphsAreSound`, `HonestAnswersAreAccepted` | `SigningInv`: types, `AcceptedSheet`, `SignedFill`, `SignedLockup`, `Completable`, `AnsweredIsFinal`, `AnswerIsHonest`, `OnlyUnheardEnd` |
| `OperatorProofs` (treasury) | `OffersStayExclusive`, `HeldCoinsAreSpared` | `TreasuryInv`: types, `JobsNumbered`, `KnownIntents`, `PlansTheInputs`, `PreparedAlone`, `SettledByTheirIntent`, `EnteredFirst`, `ClearUntilEntered`, `OneContender`, `OpenOffersHaveTheirJob`, `ReachedOnce`, `InputsUnreserved`, `BackgroundUnheld` |
| `OperatorProofs` (review) | `DisagreementsClearTwice` | `ReviewInv`: types, `CountsTheSighting` |
| `OperatorProofs` (subscriptions) | `WatchAlwaysFollows` | `WatchInv`: types, `SyncBound`, `SyncOwns`, `StopTakesOver`, `WritesOwn`, `OthersKeepTheirs`, `Accounted`, `UpToDate`, `DoneWhenQuiet` |
| `OperatorProofs` (custody) | `PayoutsAreExclusive` | types, `TokensAreFresh`, `SubmittedIsCommitted`, `LandedIsCommitted` |
| `ValueProofs` | `SignedAlwaysAuthorised`, `HonestQuotesAreSigned`, `CosignedAlwaysAsAgreed`, `SpendsSettleAsAgreed` | `ValueInv`: what is known of the ask, the quote and the policy at each stage; `HonestInv`: a stored quote is the service's own, under a policy it had; `PlanInv`: what is planned is a plan of that policy; `LockedInv`: what is stored is what was built (`StoredTransfer`, `StoredCarrier`), what is locked is a sound covenant (`IsLockup`), and a fill cost what was quoted |
| `RuntimeProofs` | `RuntimeTyped`, `OneCurrentAtATime`, `DatabaseClosedAfterTheDrained` | `TypeOK`, `Turns` (five conjuncts), `DrainedFirst` |

They hold for any sets of coins, ids, fills, processes, contexts, offers, rows, requests and
covenants and any bounds, under the named assumptions of the modules: ids of different kinds are different,
coins and ids are finite, times, leases and counters are natural numbers, a chain has at
least one block, and the value that stands for nobody is nobody's name. `GraphsAssumption` of
`JointSigning` says who signs which input on each route, as the routes' builders
and checks have it; `MCJointSigning` lists graphs that satisfy it. TLC evaluates these assumptions in every run.

*Reservations.* `CoinFence` alone is not inductive: binding a fill moves the
coins of its quote to the advance, which is free of conflict only if the draft
still names the coins its quote holds (`DraftIsFresh`), and releases are by
owner, which frees exactly the right coins only if an owner holds exactly its
inputs. There is one lemma per conjunct and group of actions, and two on what
`Release` and `Assign` do to a table. `AdmissionsStayCurrent` needs that the exposure is a
cardinality of finite sets: one lemma bounds it after each step that lets it grow, and
all other steps are shown to take nothing new on.

*Ledger.* The owner of a coin is read off the three tables (`Owner`). Every step that moves
coins releases owners of some tables and then lets at most one newcomer assign
(`MoveRefines`, `ReleaseRefines`, `TakeRefines`). A receive quote and its advance share an id, so a
release in one table frees the owner altogether only if the other table has no row of
it (`Apart`); that follows from `FillMatchesAdvance`. `BindFill` assigns nothing in the
ledger: the coins change table and keep their owner.

*Fills.* The reconciler's write is safe because its evidence is about the chain,
which does not take things back, and because `#matches` makes sure the row is the
one read. `Safe` therefore relates each visit in progress to the present: a row
seen as invoked is invoked, own spends mean the transaction has landed, a
conflict is a conflict. An abandoned fill then was never handed to the provider
or has lost an input. A step that leaves a fill alone keeps its part
(`UntouchedSafe`), so one fill is treated at a time. The action property
follows from the invariant and a case split on the steps that can change the
transaction or end the fill.

*Submission.* The provider and a worker are compared through the row: whatever
was sent carries the row's artifact, and the row's artifact is written once in a
given phase. That the phase tells which artifacts are there (`RowShape`) is what
makes the operator's retry safe: a failed row with a signed graph goes back to
the phase of its artifacts and is not signed again. The turns of the workers follow from it step by
step: what goes out goes out with the row's own lease, and no write touches an artifact that is stored.

*Covenant.* A verdict is written from a scan that may be old, so
`SpendsHappened` says of every scan in progress that the leaf it saw has spent the
coin at some time; a reorg may undo the spend and not that fact. That a reclaim
spends the row's coin needs `RecoveryShape`: before recovery nothing was sent and no
graph is stored, and only then does a row take a renewed outpoint. The
action properties follow from one lemma (`NextIsRowStep`) on what a step may do to
the row.

*Sender.* Only a context with the lock confirms, and it took the lock when nothing was
on record; that the record is still empty when it signs is `ConfirmsAlone`, which no
resume outside the lock disturbs because a resume writes no record. A record is cleared on a
status read some time ago, so `SeenIsTrue` says that the ends among the statuses are still
so. One lemma (`OpStep`) covers every step that changes one context's operation or
error and signs nothing.

*Claim queue.* The queue keeps no list of what it signed. That a claim is not signed again
follows from its capability, which stays consumed while a run is at the claim and after it is recorded
(`SignedStayConsumed`), and from the attempts it has left (`TriesUnspent`); that a coin is not, from the
set a run puts it in before it signs. `AsideForTheRun` carries both over the awaits between picking and signing,
while a switch, a late offer and the user's own request change everything else.

*Joint signing.* What a party accepts was handed to it by somebody else. `AcceptedSheet`, `SignedFill` and
`SignedLockup` say of each route which keys have signed which inputs when the graph leaves, and that the signatures fit it;
an input with any other mark was refused before. From them, what is sent
lacks only the provider's signatures (`Completable`), and whatever is made of an answer is judged against that sheet, so only the
complete one is recorded (`AnsweredIsFinal`). An honest answer is not altered under way (`AnswerIsHonest`), and a submission is
left ambiguous only by one that was, or was lost (`OnlyUnheardEnd`).

*Custody.* A row is paid once because the graph a payout submits is the only one its row can be
committed to: its transaction id fixes the coins and `bindReleaseInputs` is the only statement that
commits a row. That needs `TokensAreFresh`: while a request builds, the row it holds is
not committed, so an abandonment or a late binding never touches a row that may be paid.

*Treasury.* An intent outlives the process that made it, so the proof follows not processes but what
threatens a coin: an intent the provider has or had, or one a process is about to send without a further look
(`Threatens`). One intent contends for the inputs of an entered job, its own (`OneContender`). A worker enters a job only when it
found nothing unresolved on the inputs, and nothing comes to contend for them between that look and the entry
(`ClearUntilEntered`), because a coin the background selected was held by nobody (`BackgroundUnheld`) and a
process's checked intents are its own (`PreparedAlone`). Most steps move one process's place and hand coins on;
`MovesKeep` carries the invariant over all that move so, and the few others have lemmas of their own.

*Review.* A disagreement is taken back only where a review writes; the count of sightings in the row is tied to the tip of
the last one (`CountsTheSighting`), whatever other watchers wrote in between.

*Subscriptions.* A sync that fails or is overtaken leaves scripts registered or missing, so
"watched exactly if live" fails in between. The invariant says instead that somebody answers for
every difference (`Accounted`): the sync in progress, the request it owes, a stop that is still detaching, or
a change of the rows that asks for a scan. When nobody is left to answer (`DoneWhenQuiet`) there is no difference.

*Value.* What a graph costs its sender is a sum over the coins of a transaction. `Total` is a recursive function, and what
it is for every sequence needs no induction theorem: a set of natural numbers has a least member (`LeastNumber`, from the
library's well-founded order of the naturals), so a first place at which the partial sums fail to exist, to be integers or to
agree leads to a contradiction (`PartialSumsExist`, `TotalIsLast`, `TotalOfConcat`). From that follow the sums of one and of two
coins, and of the outputs of the joint graph: one that is always there and three that may be (`SumsOfOutputs`). Then
`SignedPays` adds up the transaction a wallet rebuilds, and `CarrierPasses` reads off the maker's checks. `ValueInv`
carries what is known of the ask, the quote and the policy from stage to stage; every misquote is shown to be data of the
same kind (`QuotesAreOffers`, `MislabelledAreOffers`), and nothing else is assumed of it.
`HonestQuotesAreSigned` has two halves. The sender's rebuild of an honest quote is the service's plan, output by output
(`RebuildsTheSame`), so that what the plan was checked for on one side holds on the other (`HonestIsVerified`,
`HonestCarrierIsVerified`); a refusal is then for the fare or for a policy that changed (`RefusedForItsFare`). And what the
wallet picks leaves enough: `SelectedSuffice` and `SomeSatsWithUnits` bound what the selections come to, `FareAsPriced` has the
two prices agree, `PlansAreSendable` collects what a request needs, and `SendableIsServed` shows that a request with that
passes every refusal of the builder: floors, distinct scripts, change for the units, and totals that balance.
The builder takes two OP_RETURN outputs at most (`TwoReturnsAtMost`): in a covenant transfer every output has dust, and in
a payment the packet of the units leaves room for one output below dust, so the payout of a hosted fare and the sender's
change must not both be. That is the second exception of the property; with it every coin of three dust units serves.
`FundingAssumption` has an operator with such a coin, and a cap of at least a dust unit.

`CosignedAlwaysAsAgreed` and `SpendsSettleAsAgreed` go through one predicate, `IsLockup`: valid terms, a coin of the lockup's
sats, and units above the fare its recycle owes. Each of the three ways to lock establishes it (`PlannedLockup`,
`SignedLockup`, `FilledLockup`), and from it alone follow that the claim, the refund and the reclaim pass their leaves and get
their verdicts (`PurchaseSettles`, `RecycleSettles`, `RefundSettles`, `ReclaimSettles`, `LockupIsOpen`). For the spends of others
it takes in addition that none of the inputs beside the covenant and none of the outputs behind the first is the
operator's (`IsSpend`, shown for everything a spender may build by `BuiltSpends` and `OthersSpend` from `FundsAssumption`: a claimant adds coins of its
own). Then each check of the watcher pins the outputs down so far that the sums are those of one or two coins
(`PurchasedMoves`, `RecycledMoves`, `RefundedMoves`, `RecoveredMoves`). What a fill costs is a comparison of two sums
(`TotalIsMonotone`). `FillGraphsAssumption` says of callers that they post transactions of coins, and that for a
quote within the maker's ceiling there is among them a solver that delivers (`SolverDelivers`); that the service accepts
its graph is proved (`SolverIsAccepted`). The proof corrected a property: a fill's check sums the outputs of the
operator's script, which one below dust does not have, so such an output, which must carry units, comes on top and the loan less the fare
is a bound on what a fill costs, not the exact cost.

Coins in the order of their value are a chosen enumeration rather than a sort, so that its existence is a fact about
finite sets (`CoinsCanBeSorted`).

*Runtime.* Requests number themselves as they arrive. A request whose turn has come has only released ones before
it (`TurnsInOrder`); the chain gives that as long as a request waits for the one just before it, or for nobody when
all before are released (`WaitsForThePrevious`), and the end of the chain is the last to arrive. A released admission is
not current. `DrainedFirst` orders the shutdown: past the drain no pass and no worker it waited for runs, and none starts again.
The tick of a contract event is outside of it, and the theorem says nothing of that tick.

Model-checked only. The liveness properties (`CoinsComeBack`, `FillEnds`, `SubmissionEnds`,
`CovenantEnds`, `AdmissionQueueMoves`, `HistoryCatchesUp`, `OffersFollowTheTaxi`,
`FreeOffersAreTaken`) rest on fairness, which is out of the prover's reach. Every safety property a run checks
has its theorem.

## Where code and documents differ

The four findings above are what a run shows. Other differences met while
modelling, which the models contain as the code has them:

- A quote does not reserve capacity. `totalExposure` does not count quoted advances
  (`db/reservations.ts:109`), though the repository's README says a quote "atomically reserves operator
  inputs and capacity". Several quotes share the last of a cap and `claimLockup` refuses all but one.
- Rows take transitions the ledger table in `core/ledger.ts` does not have: `locking` to `expired`,
  `locking` and `locked` to any terminal state, `recovering` to another one than `recovered`
  (`db/fills.ts:393`, `db/advances.ts`).
- The resume route decides from the blockers of the last pass and may lift the pause of a
  submission that failed since (`admin/routes.ts:705`).
- A start-up under way when the shutdown begins starts the background workers after the shutdown
  has stopped them (`lifecycle.ts:89`); the error path beside it asks first (`lifecycle.ts:107`). The drain
  waits for that start-up. The timer it leaves keeps the process alive and prompts nothing: a refresh returns at once
  when the runtime is stopping.
- The tick of a contract event is the user of the database the drain misses (`runtime_shutdown`). A request whose client
  hung up is another: its handler goes on and the server's close does not wait for it, nor does
  `DatabaseOutlivesTheDrained`, which speaks of connected requests.
- The background settlement "never spends a coin the Taxi holds for ... a proceeds job"
  (`docs/runbook.md:294`). A renewal that selected its coins before the job was created may spend a receipt of the job; the job then
  ends and is planned again. `BackgroundSparesHeld` therefore leaves receipts out. The coins a custody release has
  bound, which the same sentence does not name but the code also withholds (`cli.ts:99`), are `Custody`'s and not in `Treasury`.
- An operator's custody row stays `releasing` when the process stops between claim and binding, or when a
  coin it bound is spent elsewhere: no statement takes it back, and the repository's releaser is not wired
  in `cli.ts`.
- "A client MUST bind" `topup == dust`, "and the same with `contribution` on a sponsored payment"
  (`docs/protocol.md:64`). The client does so for a payment of sats only (`client/src/sponsored.ts:456`); the
  contribution of an asset payment it only bounds.
- A renewal reaches further than the third finding. A restart refuses to start, because
  `assertRecoveryStartupInvariants` (`arkade/recovery.ts:242`) builds the reclaim of the renewed row and throws. The
  sender's check of the outpoint then throws for ever, so its pending record is not cleared and blocks its next payment; its history passes over the new
  outpoint; the receiver's offer stays at the old one; and `/v1/claims` answers 500 for the covenant of a renewed fill.
- When a user's claim starts between a wake and its microtask, that wake is lost, and a free
  offer may stand until the next event (`claimQueue.ts:119`; the exception in `FreeOffersAreTaken`).
- Switching the wallet off revokes neither a purchase nor a recycle that is signed.
- `forget()` on a failed payment may let the user pay twice if the Taxi retries it; its
  documentation says so.
- A review runs every hour and wants two sightings under one tip, so a moving tip rarely lets a disagreement clear; overlapping
  watchers may raise one that is spurious, which fails safe.
- A receive quote accepted after the policy changed between this read and the quote is refused, and
  the user tries again.
- The wallet's plan may leave covenant change between zero and dust, which the builder refuses; a
  fare below dust is refused as documented (`README.md:73`), such a change is not avoided. It is the first exception in
  `HonestQuoteIsSigned`.
- A sponsored payment whose fare is paid in units on an output below dust and whose change is below dust too needs a
  third OP_RETURN for its packet, which the builder refuses (`lockupBuilder.ts:331`); the plan does not avoid it. Whether it
  happens depends on the operator's coin: change of the operator's at its fare output's script may lift that output to dust. It
  is the second exception. The sender's own rebuild has no such refusal.
- The plan in an asset does not compare the dust unit with the operator's cap, as the plan in bitcoin does, and asks for a
  quote that is refused; `FundingAssumption` sets such an operator aside.
- A coin spent before its row notices counts as a failed read in the claim watch.

## What is not modelled

Byte layout, scripts, PSBTs and signatures' encodings; packets and codecs; request decoding, the
admin page and the API description; configuration and wiring; listings and
traces. `DatabaseBusyError`, raised while the SDK holds its own transaction, only makes an
operation fail as a whole. Of the sweeper, the deadline severities, the pause they cause and the warnings
(`sweeper.ts:100-391`). Of the custody, the amounts of a release (`planCustodyRelease`) and its solvency check; of
the ledger, solvency and its report. Of the subscriptions, the filter on events and the
blockers; a detach that failed leaves its scripts at the old manager, which the model
names `lost`. Of the proceeds collector, amounts; that a sponsor in the renewal window has ceased to be spendable off-chain is a
choice of the guard. Of the claim queue, whether a coin's value covers a claim, which is a choice (an offer that must be recycled may
always find none), and `options.allowed()`, which stays true: `FreeOffersAreTaken` speaks of offers the wallet may take and
can buy without a coin. Of the client, the cap of 200 entries in the history, the user's
forgetting of an entry, and request codes. The delegate registration of a receiver is not modelled.
`PROJECT.json` lists every component with its status.

## Plan

Done, in order of importance: `Reservations` with `CoinLedger` and the refinement,
`FillSubmission`, `Submission` and `Covenant`, with their proofs; then the value and signature modules, the client wallet and the
operator's other workers and the runtime, with the proofs of every safety property. Next:

1. Common lemmas on finite cardinalities and on tables stated once for the modules that repeat them.
2. The deadline severities of the sweeper, and planning of proceeds with amounts.
