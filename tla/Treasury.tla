------------------------------ MODULE Treasury ------------------------------
(***************************************************************************)
(* The operator's settlements.  The proceeds collector turns receipts and  *)
(* large coins into working coins through one persisted job at a time; the *)
(* SDK's background manager renews coins near their expiry.  Both settle   *)
(* through the same wallet and arkd, several processes may run the worker  *)
(* on one database, and quotes reserve coins meanwhile.                    *)
(*                                                                         *)
(* A step is what runs between two awaits.  Amounts and fees are left out: *)
(* a plan is a set of coins.  Settle intents never expire, so an intent    *)
(* that is unresolved stays so, and "pending" has no states here.          *)
(***************************************************************************)
EXTENDS Integers, FiniteSets, Sequences

CONSTANTS Coins, Procs, NoProc,
    Receipts,    \* the coins that cannot be spent off-chain: below dust, or swept
    Plans, Renewals,   \* the sets of coins a job and a renewal may take
    Renewers,    \* the processes whose background settlement is modelled
    MaxIntents, MaxJobs, MaxLapses, MaxWallets

VARIABLES
    coin,      \* live, spent, or settled by an intent; aged: due for renewal
    reserved,  \* coins in the ledgers of quotes and fills
    draft,     \* the coins a quote has read as free and is about to reserve
    job,       \* the proceeds_jobs row that is not complete, or NoJob
    jobs,      \* number of jobs created
    intents,   \* the SDK's intent store, with what arkd has of each
    worker,    \* the collector of each process
    renewal,   \* the background settlement of each process
    turn,      \* oneSettlement of each process
    wallet,    \* number of the wallet of each process: its token
    since,     \* number of intents when the process started, or -1
    up,        \* processes that have started and not ended; each has one life
    lapses

vars == <<coin, reserved, draft, job, jobs, intents, worker, renewal, turn,
          wallet, since, up, lapses>>

NoJob == [id |-> 0, inputs |-> {}, state |-> "none", entered |-> FALSE,
          local |-> {}, owner |-> NoProc, leased |-> FALSE]
Idle == [pc |-> "idle", job |-> 0, plan |-> {}, found |-> {}, locks |-> {}, sdk |-> {}, seen |-> {}, intent |-> 0]
Resting == [pc |-> "idle", coins |-> {}, wallet |-> 0, intent |-> 0]

Live == {c \in Coins : coin[c].state = "live"}
Waiting == {"waiting_to_submit", "waiting_for_batch"}
Ids == 1 .. Len(intents)

Init ==
    /\ coin \in [Coins -> {[state |-> "live", by |-> 0, aged |-> FALSE]}]
    /\ reserved = {} /\ draft = {} /\ job = NoJob /\ jobs = 0 /\ intents = <<>>
    /\ worker = [p \in Procs |-> Idle] /\ renewal = [p \in Procs |-> Resting]
    /\ turn = [p \in Procs |-> "free"] /\ wallet = [p \in Procs |-> 1]
    /\ since = [p \in Procs |-> -1] /\ up = {} /\ lapses = 0

\* getLockedVtxoOutpoints, and heldOutpoints as cli.ts wires it.
SdkLocks == UNION {intents[i].coins : i \in {k \in Ids : intents[k].stored \in Waiting}}
Held == reserved \cup job.inputs

Leased(p) == job.owner = p /\ job.leased
Own(p) == job.id # 0 /\ job.id = worker[p].job

\* A new intent in the store, not yet at arkd.
Stored(coins, by, j) ==
    Append(intents, [coins |-> coins, by |-> by, job |-> j, stored |-> "waiting_to_submit", arkd |-> "none"])
Reached(i) == intents[i].arkd # "none"
Offered(i) == intents[i].arkd \in {"registered", "signed"}

-----------------------------------------------------------------------------
(* The collector: run() of createProceedsCollector. *)

Step(p, pc) == worker' = [worker EXCEPT ![p].pc = pc]
Stop(p) == worker' = [worker EXCEPT ![p] = Idle]

\* ProceedsRepository.active; without a job, the coins of the wallet.
StartRun(p) ==
    /\ worker[p].pc = "idle"
    /\ worker' = [worker EXCEPT ![p] = IF job = NoJob THEN [Idle EXCEPT !.pc = "discover", !.found = Live]
                                       ELSE [Idle EXCEPT !.pc = "claim", !.job = job.id]]
    /\ UNCHANGED <<coin, reserved, draft, job, jobs, intents, renewal, turn, wallet, since, up, lapses>>

\* unionReservedOutpoints: once the receipts are discovered, the snapshot of the ledgers.
ReadReservations(p) ==
    /\ worker[p].pc = "discover"
    /\ worker' = [worker EXCEPT ![p].locks = reserved, ![p].pc = "plan"]
    /\ UNCHANGED <<coin, reserved, draft, job, jobs, intents, renewal, turn, wallet, since, up, lapses>>

\* Then the SDK's, before further questions to the providers.
ReadSdkLocks(p) ==
    /\ worker[p].pc = "plan"
    /\ worker' = [worker EXCEPT ![p].sdk = SdkLocks, ![p].pc = "create"]
    /\ UNCHANGED <<coin, reserved, draft, job, jobs, intents, renewal, turn, wallet, since, up, lapses>>

\* What the wallet had and was unlocked when that was read, by now spent or not, and is
\* not due for renewal.
Free(p) ==
    (worker[p].found \ (worker[p].locks \cup worker[p].sdk)) \ {c \in Coins \ Receipts : coin[c].aged}

\* assertProceedsPlan: receipts and at most one sponsor, or one coin to split.
PlanSound(coins) == coins # {} /\ Cardinality(coins \ Receipts) <= 1

\* discoverProceeds: fares and repayments that cannot be spent as they are.
Discovered(p) == worker[p].found \cap Receipts

\* planProceeds: receipts, with a sponsor if they need one.
ProceedsPlan(p, coins) ==
    coins \cap Discovered(p) # {} /\ PlanSound(coins) /\ coins \subseteq Free(p)

\* planInventorySplit: one spendable coin, when the receipts cannot be collected.
SplitPlan(p, coins) == coins \subseteq Free(p) \ Receipts /\ PlanSound(coins)

\* ProceedsRepository.create: the reservations are still those of the snapshot.
CreateJob(p, coins) ==
    /\ worker[p].pc = "create" /\ jobs < MaxJobs
    /\ ProceedsPlan(p, coins) \/ SplitPlan(p, coins)
    /\ job = NoJob
    /\ IF reserved = worker[p].locks
       THEN /\ jobs' = jobs + 1
            /\ job' = [NoJob EXCEPT !.id = jobs + 1, !.inputs = coins, !.state = "pending"]
            /\ worker' = [worker EXCEPT ![p] = [Idle EXCEPT !.job = jobs + 1, !.pc = "claim"]]
       ELSE Stop(p) /\ UNCHANGED <<job, jobs>>
    /\ UNCHANGED <<coin, reserved, draft, intents, renewal, turn, wallet, since, up, lapses>>

\* ProceedsRepository.claim
ClaimJob(p) ==
    /\ worker[p].pc = "claim"
    /\ IF Own(p) /\ (job.leased => job.owner = p)
       THEN job' = [job EXCEPT !.owner = p, !.leased = TRUE] /\ Step(p, "observe")
       ELSE Stop(p) /\ UNCHANGED job
    /\ UNCHANGED <<coin, reserved, draft, jobs, intents, renewal, turn, wallet, since, up, lapses>>

\* The indexer's answer for the inputs: live ones, or the intent that settled all.
ObserveInputs(p) ==
    /\ worker[p].pc = "observe"
    /\ IF Own(p) /\ PlanSound(job.inputs)
       THEN worker' = [worker EXCEPT ![p].plan = job.inputs, ![p].pc = "decide",
                                     ![p].seen = {coin[c] : c \in job.inputs}]
       ELSE worker' = [worker EXCEPT ![p].pc = "failed"]
    /\ UNCHANGED <<coin, reserved, draft, job, jobs, intents, renewal, turn, wallet, since, up, lapses>>

\* Every stored intent on an input counts unless it is a cancelled one of this job.
Unresolved(p) ==
    \E i \in Ids : intents[i].coins \cap worker[p].plan # {}
                   /\ ~(intents[i].stored = "cancelled" /\ i \in job.local)

\* reconcileProceeds, on the coins as observed and the evidence of now.
Reconcile(p) ==
    LET seen == worker[p].seen IN
    CASE \E i \in Ids : \A s \in seen : s.state = "settled" /\ s.by = i -> "verify"
      [] \E s \in seen : s.state # "live" -> "quarantined"
      [] job.entered \/ Unresolved(p) -> "quarantined"
      [] OTHER -> "retry"

Decide(p) ==
    /\ worker[p].pc = "decide"
    /\ IF ~Own(p) THEN Step(p, "failed") /\ UNCHANGED job
       ELSE CASE Reconcile(p) = "verify" ->
                    /\ worker' = [worker EXCEPT ![p].pc = "confirm", ![p].seen = {},
                                                ![p].intent = CHOOSE i \in Ids : \A s \in worker[p].seen : s.by = i]
                    /\ UNCHANGED job
              [] Reconcile(p) = "retry" ->
                    worker' = [worker EXCEPT ![p].pc = "queue", ![p].seen = {}] /\ UNCHANGED job
              [] OTHER -> Stop(p) /\ job' = [job EXCEPT !.state = "quarantined"]
    /\ UNCHANGED <<coin, reserved, draft, jobs, intents, renewal, turn, wallet, since, up, lapses>>

\* withSettlement: the worker's turn.
TakeTurn(p) ==
    /\ worker[p].pc = "queue" /\ turn[p] = "free"
    /\ turn' = [turn EXCEPT ![p] = "proceeds"] /\ Step(p, "guard")
    /\ UNCHANGED <<coin, reserved, draft, job, jobs, intents, renewal, wallet, since, up, lapses>>

\* guard(): the inputs are still there, and the lease is.
Guarded(p) == worker[p].plan \subseteq Live /\ Own(p) /\ Leased(p)

\* A coin to split must be outside the renewal window.  A sponsor of receipts must only be
\* spendable off-chain, which it may have ceased to be some time after that.
Aged(p, expired) ==
    /\ worker[p].plan \subseteq Live
    /\ \E c \in worker[p].plan \ Receipts : coin[c].aged
    /\ worker[p].plan \cap Receipts = {} \/ expired

\* The row is settling, and wallet.settle stores its intent before it registers it.
Guard(p, expired) ==
    /\ worker[p].pc = "guard" /\ Len(intents) < MaxIntents
    /\ IF Guarded(p) /\ ~Aged(p, expired)
       THEN /\ job' = [job EXCEPT !.state = "settling"]
            /\ intents' = Stored(worker[p].plan, "proceeds", worker[p].job)
            /\ worker' = [worker EXCEPT ![p].pc = "remember", ![p].intent = Len(intents) + 1]
       ELSE Step(p, IF Aged(p, expired) THEN "aged" ELSE "failed") /\ UNCHANGED <<job, intents>>
    /\ UNCHANGED <<coin, reserved, draft, jobs, renewal, turn, wallet, since, up, lapses>>

\* rememberLocalIntent
RememberIntent(p) ==
    /\ worker[p].pc = "remember"
    /\ IF Own(p) /\ Leased(p) /\ ~job.entered
       THEN Step(p, "submit") /\ job' = [job EXCEPT !.local = @ \cup {worker[p].intent}]
       ELSE Step(p, "failed") /\ UNCHANGED job
    /\ UNCHANGED <<coin, reserved, draft, jobs, intents, renewal, turn, wallet, since, up, lapses>>

\* guard(true)
GuardSubmit(p, expired) ==
    /\ worker[p].pc = "submit"
    /\ Step(p, IF Aged(p, expired) THEN "aged" ELSE IF Guarded(p) THEN "enter" ELSE "failed")
    /\ UNCHANGED <<coin, reserved, draft, job, jobs, intents, renewal, turn, wallet, since, up, lapses>>

\* Mutant: the lease is not asserted again.
MutEnterSubmission(p) ==
    /\ worker[p].pc = "enter"
    /\ Step(p, "register") /\ job' = IF Own(p) THEN [job EXCEPT !.entered = TRUE] ELSE job
    /\ UNCHANGED <<coin, reserved, draft, jobs, intents, renewal, turn, wallet, since, up, lapses>>

\* enterSubmission, the last check before registerIntent.
EnterSubmission(p) ==
    /\ worker[p].pc = "enter"
    /\ IF Own(p) /\ Leased(p) /\ ~job.entered /\ worker[p].intent \in job.local
       THEN Step(p, "register") /\ job' = [job EXCEPT !.entered = TRUE]
       ELSE Step(p, "failed") /\ UNCHANGED job
    /\ UNCHANGED <<coin, reserved, draft, jobs, intents, renewal, turn, wallet, since, up, lapses>>

\* registerIntent; the call may fail on the way there or on the way back.
Register(p, arrives, answered) ==
    /\ worker[p].pc = "register" /\ (answered => arrives)
    /\ intents' = [intents EXCEPT ![worker[p].intent].arkd = IF arrives THEN "registered" ELSE @,
                                  ![worker[p].intent].stored = IF answered THEN "waiting_for_batch" ELSE @]
    /\ Step(p, IF answered THEN "batch" ELSE "failed")
    /\ UNCHANGED <<coin, reserved, draft, job, jobs, renewal, turn, wallet, since, up, lapses>>

\* The settlement returned a commitment: the turn ends with confirmOutput.
SettleReturns(p) ==
    /\ worker[p].pc = "batch" /\ intents[worker[p].intent].arkd = "settled"
    /\ Step(p, "confirm")
    /\ UNCHANGED <<coin, reserved, draft, job, jobs, intents, renewal, turn, wallet, since, up, lapses>>

\* Every input is spent and settled by this commitment.
SettledInputs(p) == \A c \in worker[p].plan : coin[c].by = worker[p].intent

\* confirmOutput: complete, or leave the job settling until the outputs show.
ConfirmOutput(p, outputs) ==
    /\ worker[p].pc = "confirm"
    /\ turn' = [turn EXCEPT ![p] = IF @ = "proceeds" THEN "free" ELSE @]
    /\ Stop(p)
    /\ IF outputs /\ SettledInputs(p) /\ Own(p)
       THEN job' = NoJob
       ELSE job' = IF Own(p) THEN [job EXCEPT !.state = "settling"] ELSE job
    /\ UNCHANGED <<coin, reserved, draft, jobs, intents, renewal, wallet, since, up, lapses>>

\* A guard or a call of the run throws.
Fail(p) ==
    /\ worker[p].pc \notin {"idle", "failed", "aged"}
    /\ worker[p].pc = "create" => job # NoJob
    /\ Step(p, "failed")
    /\ UNCHANGED <<coin, reserved, draft, job, jobs, intents, renewal, turn, wallet, since, up, lapses>>

\* ProceedsRepository.cancel
Cancellable == ~job.entered

\* The catch of tick(), on whichever job is active: aged inputs cancel a job that never
\* entered, anything else quarantines it.  The SDK may or may not get to withdraw.
Catch(p, withdrawn, cleaned) ==
    /\ worker[p].pc \in {"failed", "aged"}
    /\ job' = CASE job = NoJob -> job
                [] worker[p].pc = "aged" /\ Cancellable -> NoJob
                [] OTHER -> [job EXCEPT !.state = "quarantined"]
    /\ intents' = IF worker[p].intent = 0 THEN intents
                  ELSE [intents EXCEPT
                          ![worker[p].intent].stored = IF cleaned /\ @ \in Waiting THEN "cancelled" ELSE @,
                          ![worker[p].intent].arkd = IF withdrawn /\ @ = "registered" THEN "deleted" ELSE @]
    /\ turn' = [turn EXCEPT ![p] = IF @ = "proceeds" THEN "free" ELSE @]
    /\ Stop(p)
    /\ UNCHANGED <<coin, reserved, draft, jobs, renewal, wallet, since, up, lapses>>

\* The interval timer renews the lease during the settlement.
Heartbeat(p) ==
    /\ worker[p].pc \in {"queue", "guard", "remember", "submit", "enter", "register", "batch"}
    /\ Own(p) /\ ~job.leased
    /\ job' = [job EXCEPT !.owner = p, !.leased = TRUE]
    /\ UNCHANGED <<coin, reserved, draft, jobs, intents, worker, renewal, turn, wallet, since, up, lapses>>

-----------------------------------------------------------------------------
(* The SDK's background settlement, as operatorWallet.ts wraps it. *)

\* getSpendableVtxos inside the background: nothing that is held.
Renewable == {c \in Live : coin[c].aged \/ c \in Receipts} \ (Held \cup SdkLocks)

RenewRead(p, coins) ==
    /\ p \in Renewers /\ renewal[p].pc = "idle"
    /\ coins # {} /\ coins \subseteq Renewable
    /\ renewal' = [renewal EXCEPT ![p] = [pc |-> "queue", coins |-> coins, wallet |-> wallet[p], intent |-> 0]]
    /\ UNCHANGED <<coin, reserved, draft, job, jobs, intents, worker, turn, wallet, since, up, lapses>>

\* settle: a turn of this wallet, then the stored intent.
RenewTurn(p) ==
    /\ renewal[p].pc = "queue"
    /\ IF renewal[p].wallet # wallet[p]
       THEN renewal' = [renewal EXCEPT ![p] = Resting] /\ UNCHANGED <<turn, intents>>
       ELSE /\ turn[p] = "free" /\ Len(intents) < MaxIntents
            /\ turn' = [turn EXCEPT ![p] = "background"]
            /\ intents' = Stored(renewal[p].coins, "background", 0)
            /\ renewal' = [renewal EXCEPT ![p].pc = "check", ![p].intent = Len(intents) + 1]
    /\ UNCHANGED <<coin, reserved, draft, job, jobs, worker, wallet, since, up, lapses>>

\* The wrapped registerIntent: in its turn, of the live wallet, and of no held coin.
MayRenew(p) ==
    turn[p] = "background" /\ renewal[p].wallet = wallet[p] /\ renewal[p].coins \cap Held = {}

RenewCheck(p) ==
    /\ renewal[p].pc = "check"
    /\ renewal' = [renewal EXCEPT ![p].pc = IF MayRenew(p) THEN "register" ELSE "end"]
    /\ UNCHANGED <<coin, reserved, draft, job, jobs, intents, worker, turn, wallet, since, up, lapses>>

RenewRegister(p) ==
    /\ renewal[p].pc = "register"
    /\ intents' = [intents EXCEPT ![renewal[p].intent].arkd = "registered",
                                  ![renewal[p].intent].stored = "waiting_for_batch"]
    /\ renewal' = [renewal EXCEPT ![p].pc = "batch"]
    /\ UNCHANGED <<coin, reserved, draft, job, jobs, worker, turn, wallet, since, up, lapses>>

\* The settlement returns or throws; the turn of a retired wallet has ended already.
RenewEnd(p, withdrawn) ==
    /\ renewal[p].pc \in {"end", "batch", "register"}
    /\ intents' = [intents EXCEPT
          ![renewal[p].intent].stored = IF @ \in Waiting THEN "cancelled" ELSE @,
          ![renewal[p].intent].arkd = IF withdrawn /\ @ = "registered" THEN "deleted" ELSE @]
    /\ turn' = [turn EXCEPT ![p] = IF @ = "background" /\ renewal[p].wallet = wallet[p] THEN "free" ELSE @]
    /\ renewal' = [renewal EXCEPT ![p] = Resting]
    /\ UNCHANGED <<coin, reserved, draft, job, jobs, worker, wallet, since, up, lapses>>

\* dropWallet in check(), not in a proceeds turn: a background settlement is cut loose.
\* Without one there is nothing to tell.
Retire(p) ==
    /\ turn[p] # "proceeds" /\ wallet[p] < MaxWallets /\ renewal[p].pc # "idle"
    /\ wallet' = [wallet EXCEPT ![p] = @ + 1]
    /\ turn' = [turn EXCEPT ![p] = "free"]
    /\ UNCHANGED <<coin, reserved, draft, job, jobs, intents, worker, renewal, since, up, lapses>>

\* handleEarlierIntents: an intent from before this process, of coins nobody holds and not
\* all gone, is withdrawn; the store says cancelled even if deleteIntent failed.
HandleEarlier(p, i, withdrawn) ==
    /\ i \in 1 .. since[p] /\ intents[i].stored = "waiting_for_batch"
    /\ intents[i].coins \cap Held = {}
    /\ intents[i].coins \cap Live # {}
    /\ intents' = [intents EXCEPT ![i].stored = "cancelled",
                                  ![i].arkd = IF withdrawn /\ @ = "registered" THEN "deleted" ELSE @]
    /\ UNCHANGED <<coin, reserved, draft, job, jobs, worker, renewal, turn, wallet, since, up, lapses>>

-----------------------------------------------------------------------------
(* arkd, quotes, time and crashes. *)

\* A process whose settlement is in its batch signs.
SignBatch(p) ==
    \E i \in Ids :
       /\ intents[i].arkd = "registered" /\ intents[i].coins \subseteq Live
       /\ \/ worker[p].pc = "batch" /\ worker[p].intent = i
          \/ renewal[p].pc = "batch" /\ renewal[p].intent = i
       /\ intents' = [intents EXCEPT ![i].arkd = "signed"]
       /\ UNCHANGED <<coin, reserved, draft, job, jobs, worker, renewal, turn, wallet, since, up, lapses>>

\* arkd commits a signed batch, or drops it.
EndBatch(i, commits) ==
    /\ intents[i].arkd = "signed"
    /\ IF commits /\ intents[i].coins \subseteq Live
       THEN /\ coin' = [c \in Coins |-> IF c \in intents[i].coins
                                        THEN [coin[c] EXCEPT !.state = "settled", !.by = i] ELSE coin[c]]
            /\ intents' = [intents EXCEPT ![i].arkd = "settled", ![i].stored = "batch_succeeded"]
       ELSE UNCHANGED coin /\ intents' = [intents EXCEPT ![i].arkd = "deleted"]
    /\ UNCHANGED <<reserved, draft, job, jobs, worker, renewal, turn, wallet, since, up, lapses>>

\* Selection for a quote or a fill: fresh, and neither reserved nor locked when it was read.
QuoteReads(c) ==
    /\ draft = {} /\ c \in Live \ (Held \cup SdkLocks) /\ ~coin[c].aged /\ c \notin Receipts
    /\ draft' = {c}
    /\ UNCHANGED <<coin, reserved, job, jobs, intents, worker, renewal, turn, wallet, since, up, lapses>>

\* Mutant: the selection is not repeated at the reservation.
MutStillSelected == draft \cap Held = {}

\* The selection is repeated with the locks as read and the clock of now, and the
\* reservation checks the ledgers.
StillSelected == draft \cap Held = {} /\ \A c \in draft : ~coin[c].aged

QuoteReserves ==
    /\ draft # {}
    /\ reserved' = IF StillSelected THEN reserved \cup draft ELSE reserved
    /\ draft' = {}
    /\ UNCHANGED <<coin, job, jobs, intents, worker, renewal, turn, wallet, since, up, lapses>>

\* A reservation ends, its coin spent by a lockup or not.
ReservationEnds(c, spent) ==
    /\ c \in reserved
    /\ reserved' = reserved \ {c}
    /\ coin' = IF spent /\ c \in Live THEN [coin EXCEPT ![c].state = "spent"] ELSE coin
    /\ UNCHANGED <<draft, job, jobs, intents, worker, renewal, turn, wallet, since, up, lapses>>

Age(c) ==
    /\ c \in Live \ Receipts /\ ~coin[c].aged
    /\ coin' = [coin EXCEPT ![c].aged = TRUE]
    /\ UNCHANGED <<reserved, draft, job, jobs, intents, worker, renewal, turn, wallet, since, up, lapses>>

LapseLease ==
    /\ job.leased /\ lapses < MaxLapses
    /\ job' = [job EXCEPT !.leased = FALSE] /\ lapses' = lapses + 1
    /\ UNCHANGED <<coin, reserved, draft, jobs, intents, worker, renewal, turn, wallet, since, up>>

\* A process has a lease owner of its own; a later one takes no part in its batches.
StartProcess(p) ==
    /\ since[p] = -1
    /\ since' = [since EXCEPT ![p] = Len(intents)] /\ up' = up \cup {p}
    /\ UNCHANGED <<coin, reserved, draft, job, jobs, intents, worker, renewal, turn, wallet, lapses>>

Crash(p) ==
    /\ p \in up /\ up' = up \ {p}
    /\ worker' = [worker EXCEPT ![p] = Idle] /\ renewal' = [renewal EXCEPT ![p] = Resting]
    /\ turn' = [turn EXCEPT ![p] = "free"]
    /\ UNCHANGED <<coin, reserved, draft, job, jobs, intents, wallet, since, lapses>>

CollectorNext(p) ==
    \/ StartRun(p) \/ ReadReservations(p) \/ ReadSdkLocks(p) \/ ClaimJob(p) \/ ObserveInputs(p)
    \/ Decide(p) \/ TakeTurn(p) \/ RememberIntent(p) \/ EnterSubmission(p)
    \/ \E expired \in BOOLEAN : Guard(p, expired) \/ GuardSubmit(p, expired)
    \/ SettleReturns(p) \/ Heartbeat(p) \/ Fail(p)
    \/ \E coins \in Plans : CreateJob(p, coins)
    \/ \E a, b \in BOOLEAN : Register(p, a, b) \/ Catch(p, a, b)
    \/ \E outputs \in BOOLEAN : ConfirmOutput(p, outputs)

BackgroundNext(p) ==
    \/ \E coins \in Renewals : RenewRead(p, coins)
    \/ RenewTurn(p) \/ RenewCheck(p) \/ RenewRegister(p) \/ Retire(p) \/ SignBatch(p)
    \/ \E withdrawn \in BOOLEAN :
          RenewEnd(p, withdrawn) \/ \E i \in Ids : HandleEarlier(p, i, withdrawn)

EnvNext ==
    \/ \E i \in Ids, commits \in BOOLEAN : EndBatch(i, commits)
    \/ \E c \in Coins : QuoteReads(c) \/ Age(c) \/ \E spent \in BOOLEAN : ReservationEnds(c, spent)
    \/ QuoteReserves \/ LapseLease \/ \E p \in Procs : StartProcess(p) \/ Crash(p)

Next == (\E p \in up : CollectorNext(p) \/ BackgroundNext(p)) \/ EnvNext

Spec == Init /\ [][Next]_vars

-----------------------------------------------------------------------------
(* Properties. *)

\* Proceeds intents that arkd may still settle.
OpenOffers == {i \in Ids : intents[i].by = "proceeds" /\ Offered(i)}

\* What was once offered for a job stays fenced: while arkd may settle the intent its job
\* is there, entered, with those inputs, and no quote has them, whatever leases lapsed,
\* processes died or runs failed meanwhile.
OfferStaysFenced ==
    \A i \in OpenOffers :
       /\ job.id = intents[i].job /\ job.entered /\ intents[i].coins = job.inputs
       /\ intents[i].coins \cap reserved = {}

\* A job is offered to arkd at most once, by whichever process; and never while a
\* background renewal of one of its coins is open.
OfferedOnce ==
    \A i, j \in Ids :
       i # j /\ intents[i].by = "proceeds" =>
          /\ intents[j].job = intents[i].job => ~(Reached(i) /\ Reached(j))
          /\ Offered(i) /\ Offered(j) => intents[i].coins \cap intents[j].coins = {}

\* A coin is offered to the provider by one intent of one job, and by nothing else
\* while that job needs it, through lapsed leases, restarts and new wallets.
OffersAreExclusive == OfferStaysFenced /\ OfferedOnce

\* No batch of the background takes a coin that is spendable off-chain while a quote or a
\* fill has it reserved or a job has it as an input: a coin is committed only outside the
\* renewal window, and renewed only inside it, unheld, by the wallet whose turn it is.  The
\* receipts of a job are left out: a renewal that read one as unheld may still settle it.
Spares(coins) ==
    \A c \in coins \cap Held : coin'[c].by = coin[c].by \/ intents[coin'[c].by].by = "proceeds"
BackgroundSparesHeld == [][Spares(Coins \ Receipts)]_vars
=============================================================================
