--------------------------- MODULE OperatorProofs ---------------------------
(***************************************************************************)
(* Proofs about the operator's own money and its watcher, for any number   *)
(* of coins, processes, jobs, blocks, scripts and wallets: a disagreement  *)
(* with the chain is taken back only by two sightings, a coin is offered   *)
(* to the provider by one intent, the background renews nothing that is    *)
(* held, and exactly the live covenants are watched.                       *)
(***************************************************************************)
EXTENDS Treasury, Custody, TerminalReview, Subscription, FiniteSetTheorems, TLAPS

-----------------------------------------------------------------------------
(* The review of settled rows. *)

ReviewedRow == [seen: Tips, failure: BOOLEAN, stable: Tips \cup {NoTip}, count: 0 .. 1]

\* The last agreeing review a row counts is the one that was sighted since its
\* last disagreement.
CountsTheSighting == settled.count = 1 => sighting = settled.stable

\* Each review carries the row it was listed with, the tip and the coin it read.
Reviews ==
    /\ DOMAIN review = Watchers
    /\ \A w \in Watchers :
          /\ review[w].step \in {"tip", "read", "checked"} => review[w].tip \in Tips
          /\ review[w].step \in {"read", "checked"} =>
                review[w].coin \in {"unavailable", "agrees", "contradicts"}
          /\ review[w].step \in {"listed", "tip", "read", "checked"} => review[w].row \in ReviewedRow

ReviewInv == ReviewTypeOK /\ Reviews /\ CountsTheSighting

\* The chain and the row begin at one tip.
LEMMA ReviewInitInv == ReviewInit => ReviewInv
<1> SUFFICES ASSUME ReviewInit PROVE ReviewInv
  OBVIOUS
<1>1. tip \in Tips
  BY ReviewAssumption DEF ReviewInit, Tips
<1>2. ReviewTypeOK /\ CountsTheSighting
  BY <1>1, 0 \in 0 .. 1 DEF ReviewInit, ReviewTypeOK, ReviewedRow, CountsTheSighting
<1>3. Reviews
  BY DEF ReviewInit, Reviews, NotReviewing
<1>. QED  BY <1>2, <1>3 DEF ReviewInv

\* What a step may do to a settled row.
RowMoves ==
    /\ settled' \in ReviewedRow /\ sighting' \in Tips \cup {NoTip} /\ paused' \in BOOLEAN
    /\ CountsTheSighting'
    /\ settled'.seen.height >= settled.seen.height
    /\ settled.failure /\ ~settled'.failure => settled'.seen = sighting

\* A recorded disagreement restarts the count and moves nothing back.
LEMMA DisagreementMovesRow ==
    ASSUME ReviewInv, RecordSpendDisagreement PROVE RowMoves
<1>1. settled \in ReviewedRow /\ settled.seen.height \in Nat
  BY ReviewAssumption DEF ReviewInv, ReviewTypeOK, ReviewedRow, Tips
<1>2. settled' = [settled EXCEPT !.failure = TRUE, !.stable = NoTip, !.count = 0]
  BY DEF RecordSpendDisagreement, Disagreed
<1>3. settled' \in ReviewedRow
  BY <1>1, <1>2, 0 \in 0 .. 1 DEF ReviewedRow
<1>4. settled'.seen = settled.seen /\ settled'.failure = TRUE /\ settled'.count = 0
  BY <1>1, <1>2, 0 \in 0 .. 1 DEF ReviewedRow
<1>. QED  BY <1>1, <1>3, <1>4 DEF RecordSpendDisagreement, RowMoves, CountsTheSighting

\* An agreeing review moves the row up the chain, and clears a disagreement
\* only when it counts the sighting it repeats.
LEMMA ObservationMovesRow ==
    ASSUME ReviewInv, NEW t \in Tips, RecordStableSpendObservation(t) PROVE RowMoves
<1>1. settled \in ReviewedRow /\ settled.seen.height \in Nat /\ t.height \in Nat
  BY ReviewAssumption DEF ReviewInv, ReviewTypeOK, ReviewedRow, Tips
<1>2. CASE Contradicts(settled, t) /\ RecordSpendDisagreement
  BY <1>2, DisagreementMovesRow
<1>3. CASE /\ ~Contradicts(settled, t) /\ ~settled.failure
           /\ settled' = [settled EXCEPT !.seen = t] /\ UNCHANGED <<paused, sighting>>
  BY <1>1, <1>3 DEF Contradicts, RowMoves, ReviewedRow, CountsTheSighting, ReviewInv, ReviewTypeOK
<1>4. CASE ~Contradicts(settled, t) /\ settled.failure
  <2> DEFINE count == StableCount(settled, t)
  <2>1. /\ settled' = IF count >= 2
                      THEN [seen |-> t, failure |-> FALSE, stable |-> NoTip, count |-> 0]
                      ELSE [settled EXCEPT !.stable = t, !.count = count]
        /\ sighting' = IF settled'.failure THEN t ELSE NoTip
        /\ paused' = paused
    BY <1>4 DEF RecordStableSpendObservation
  <2>2. settled.count \in {0, 1} /\ count \in {1, 2}
    BY <1>1 DEF ReviewedRow, StableCount
  <2>3. CASE count = 2
    <3>1. settled.stable = t /\ settled.count = 1
      BY <2>2, <2>3 DEF StableCount
    <3>2. sighting = t
      BY <3>1 DEF ReviewInv, CountsTheSighting
    <3>3. settled' = [seen |-> t, failure |-> FALSE, stable |-> NoTip, count |-> 0]
      BY <2>1, <2>3
    <3>4. settled'.seen.height >= settled.seen.height
      BY <3>3, <1>1, <1>4 DEF Contradicts
    <3>5. settled' \in ReviewedRow /\ settled'.count = 0 /\ settled'.seen = t /\ settled'.failure = FALSE
      BY <3>3 DEF ReviewedRow
    <3>. QED  BY <2>1, <3>2, <3>4, <3>5 DEF RowMoves, CountsTheSighting, ReviewInv, ReviewTypeOK
  <2>4. CASE count = 1
    <3>1. settled' = [settled EXCEPT !.stable = t, !.count = 1]
      BY <2>1, <2>4
    <3>2. settled'.failure /\ settled'.seen = settled.seen /\ settled'.stable = t
      BY <3>1, <1>1, <1>4 DEF ReviewedRow
    <3>3. settled' \in ReviewedRow
      BY <3>1, <1>1, 1 \in 0 .. 1 DEF ReviewedRow
    <3>. QED  BY <1>1, <2>1, <3>2, <3>3 DEF RowMoves, CountsTheSighting, ReviewInv, ReviewTypeOK
  <2>. QED  BY <2>2, <2>3, <2>4
<1>. QED  BY <1>2, <1>3, <1>4 DEF RecordStableSpendObservation

\* A row left alone has moved as it may.
LEMMA RowStays ==
    ASSUME ReviewInv, UNCHANGED <<settled, sighting>>, paused' \in BOOLEAN PROVE RowMoves
<1>1. settled \in ReviewedRow /\ settled.seen.height \in Nat
  BY ReviewAssumption DEF ReviewInv, ReviewTypeOK, ReviewedRow, Tips
<1>. QED  BY <1>1 DEF RowMoves, CountsTheSighting, ReviewInv, ReviewTypeOK

\* The step of a review reads what is there, and moves the row as it may.
LEMMA ReviewerMoves ==
    ASSUME ReviewInv, NEW w \in Watchers,
           \/ ReviewStart(w) \/ ReviewTip(w) \/ ReviewCoin(w)
           \/ ReviewCheck(w) \/ ReviewRecord(w) \/ ReviewStop(w)
    PROVE  RowMoves /\ Reviews' /\ UNCHANGED <<tip, coinAgrees>>
<1>1. /\ settled \in ReviewedRow /\ tip \in Tips /\ paused \in BOOLEAN
  BY DEF ReviewInv, ReviewTypeOK, ReviewedRow
<1>2. CASE ReviewStart(w)
  BY <1>1, <1>2, RowStays DEF ReviewStart, Reviews, ReviewInv
<1>3. CASE ReviewTip(w)
  BY <1>1, <1>3, RowStays DEF ReviewTip, Reviews, ReviewInv
<1>4. CASE ReviewCoin(w)
  BY <1>1, <1>4, RowStays DEF ReviewCoin, Reviews, ReviewInv
<1>5. CASE ReviewCheck(w)
  <2>1. review' = [review EXCEPT ![w].step = "checked"] /\ review[w].step = "read"
    BY <1>5 DEF ReviewCheck
  <2>2. Reviews'
    BY <2>1 DEF Reviews, ReviewInv
  <2>. QED  BY <1>1, <1>5, <2>2, RowStays, DisagreementMovesRow DEF ReviewCheck
<1>6. CASE ReviewRecord(w)
  <2>1. review[w].tip \in Tips
    BY <1>6 DEF ReviewRecord, Reviews, ReviewInv
  <2>2. Reviews'
    BY <1>6 DEF ReviewRecord, Reviews, ReviewInv, NotReviewing
  <2>3. UNCHANGED <<tip, coinAgrees>>
    BY <1>6 DEF ReviewRecord
  <2>4. \/ RecordStableSpendObservation(review[w].tip) \/ RecordSpendDisagreement
        \/ UNCHANGED <<settled, paused, sighting>>
    BY <1>6 DEF ReviewRecord, Reviews, ReviewInv
  <2>. QED  BY <1>1, <2>1, <2>2, <2>3, <2>4, RowStays, DisagreementMovesRow, ObservationMovesRow
<1>7. CASE ReviewStop(w)
  BY <1>1, <1>7, RowStays DEF ReviewStop, Reviews, ReviewInv, NotReviewing
<1>. QED  BY <1>2, <1>3, <1>4, <1>5, <1>6, <1>7

\* Every step keeps the invariant and moves the row as it may.
LEMMA ReviewNextMoves ==
    ASSUME ReviewInv, [ReviewNext]_reviewVars PROVE ReviewInv' /\ RowMoves
<1>1. ASSUME NEW w \in Watchers,
             \/ ReviewStart(w) \/ ReviewTip(w) \/ ReviewCoin(w)
             \/ ReviewCheck(w) \/ ReviewRecord(w) \/ ReviewStop(w)
      PROVE  ReviewInv' /\ RowMoves
  <2>1. RowMoves /\ Reviews' /\ UNCHANGED <<tip, coinAgrees>>
    BY <1>1, ReviewerMoves
  <2>. QED  BY <2>1 DEF RowMoves, ReviewInv, ReviewTypeOK, ReviewedRow
<1>2. CASE (\E h \in Hashes : Block(h)) \/ \E h \in Hashes, n \in Heights : Reorg(h, n)
  <2>1. tip' \in Tips /\ UNCHANGED <<settled, review, sighting, paused>> /\ coinAgrees' \in BOOLEAN
    <3>1. CASE \E h \in Hashes : Block(h)
      BY <3>1, ReviewAssumption DEF Block, ReviewInv, ReviewTypeOK, Tips
    <3>2. CASE \E h \in Hashes, n \in Heights : Reorg(h, n)
      BY <3>2 DEF Reorg, Heights, Tips
    <3>. QED  BY <1>2, <3>1, <3>2
  <2>. QED  BY <2>1, RowStays DEF ReviewInv, ReviewTypeOK, Reviews, CountsTheSighting
<1>3. CASE CoinReturns \/ Unpause \/ UNCHANGED reviewVars
  <2>1. UNCHANGED <<tip, settled, review, sighting>> /\ {coinAgrees', paused'} \subseteq BOOLEAN
    BY <1>3 DEF CoinReturns, Unpause, reviewVars, ReviewInv, ReviewTypeOK
  <2>. QED  BY <2>1, RowStays DEF ReviewInv, ReviewTypeOK, Reviews, CountsTheSighting
<1>. QED  BY <1>1, <1>2, <1>3 DEF ReviewNext

\* A disagreement recorded against a settled row is taken back only by a second
\* agreeing review under the very tip of the first, however many watchers review
\* it, disagree or stop meanwhile, and the row never moves down the chain.
THEOREM DisagreementsClearTwice == ReviewSpec => ClearedByTwoSightings
<1> DEFINE A == /\ settled'.seen.height >= settled.seen.height
                /\ settled.failure /\ ~settled'.failure => settled'.seen = sighting
<1>1. ReviewInv /\ [ReviewNext]_reviewVars => ReviewInv' /\ [A]_reviewVars
  BY ReviewNextMoves DEF RowMoves
<1>. QED  BY <1>1, ReviewInitInv, PTL DEF ReviewSpec, ClearedByTwoSightings

-----------------------------------------------------------------------------
(* The operator's settlements: the inductive invariant. *)

CoinStates == {"live", "spent", "settled"}
CoinRecord == [state: CoinStates, by: Nat, aged: BOOLEAN]

IntentRecord ==
    [coins: SUBSET Coins, by: {"proceeds", "background"}, job: Nat,
     stored: {"waiting_to_submit", "waiting_for_batch", "batch_succeeded", "cancelled"},
     arkd: {"none", "registered", "signed", "settled", "deleted"}]

JobRecord ==
    [id: Nat, inputs: SUBSET Coins, state: {"none", "pending", "settling", "quarantined"},
     entered: BOOLEAN, local: SUBSET Nat, owner: Procs \cup {NoProc}, leased: BOOLEAN]

WorkerSteps ==
    {"idle", "discover", "plan", "create", "claim", "observe", "decide", "queue", "guard",
     "remember", "submit", "enter", "register", "batch", "confirm", "failed", "aged"}

WorkerRecord ==
    [pc: WorkerSteps, job: Nat, plan: SUBSET Coins, found: SUBSET Coins, locks: SUBSET Coins,
     sdk: SUBSET Coins, seen: SUBSET CoinRecord, intent: Nat]

RenewalRecord ==
    [pc: {"idle", "queue", "check", "register", "batch", "end"},
     coins: SUBSET Coins, wallet: Nat, intent: Nat]

TreasuryTypeOK ==
    /\ coin \in [Coins -> CoinRecord]
    /\ reserved \subseteq Coins /\ draft \subseteq Coins
    /\ job \in JobRecord /\ jobs \in Nat
    /\ intents \in Seq(IntentRecord)
    /\ worker \in [Procs -> WorkerRecord] /\ renewal \in [Procs -> RenewalRecord]
    /\ wallet \in [Procs -> Nat] /\ since \in [Procs -> Int] /\ up \subseteq Procs

\* Jobs are numbered as they are created; only the last may be active.
JobsNumbered ==
    /\ job.id \in {0, jobs}
    /\ job.id = 0 => job.inputs = {} /\ ~job.entered
    /\ job.id # 0 => job.inputs # {}
    /\ \A p \in Procs : worker[p].job <= jobs
    /\ \A i \in Ids : intents[i].job <= jobs /\ (intents[i].by = "proceeds" <=> intents[i].job # 0)

\* What each process refers to is in the store.
KnownIntents ==
    /\ \A p \in Procs : worker[p].intent <= Len(intents) /\ since[p] <= Len(intents)
    /\ \A p \in Procs : worker[p].pc \in {"batch", "confirm"} => worker[p].intent # 0
    /\ \A p \in Procs : renewal[p].pc \in {"check", "register", "batch", "end"} =>
                           renewal[p].intent \in Ids
    /\ job.local \subseteq Ids

\* A worker's plan, and every intent of the active job, is the job's inputs.
PlansTheInputs ==
    /\ \A p \in Procs :
          Own(p) /\ worker[p].pc \in {"decide", "queue", "guard", "remember", "submit", "enter",
                                      "register", "batch", "confirm"} =>
             worker[p].plan = job.inputs
    /\ \A i \in Ids : job.id # 0 /\ intents[i].job = job.id => intents[i].coins = job.inputs
    /\ \A i \in job.local : intents[i].job = job.id

\* Until it is registered, an intent is one process's alone, and unknown to arkd.
Preparing == {"remember", "submit", "enter", "register"}
Renewing == {"check", "register"}
PreparedAlone ==
    /\ \A p \in Procs : worker[p].pc \in Preparing =>
          /\ worker[p].intent \in Ids /\ ~Reached(worker[p].intent)
          /\ intents[worker[p].intent].job = worker[p].job /\ worker[p].job # 0
    /\ \A p, q \in Procs :
          worker[p].pc \in Preparing /\ worker[q].pc \in Preparing
             /\ worker[p].intent = worker[q].intent => p = q
    /\ \A p \in Procs : renewal[p].pc \in Renewing =>
          /\ intents[renewal[p].intent].job = 0 /\ ~Reached(renewal[p].intent)
          /\ intents[renewal[p].intent].coins = renewal[p].coins
    /\ \A p, q \in Procs :
          renewal[p].pc \in Renewing /\ renewal[q].pc \in Renewing
             /\ renewal[p].intent = renewal[q].intent => p = q

\* A coin is settled by an intent that took it, and that arkd committed.
SettledByTheirIntent ==
    \A c \in Coins : coin[c].by # 0 =>
       coin[c].by \in Ids /\ intents[coin[c].by].arkd = "settled" /\ c \in intents[coin[c].by].coins

\* An intent arkd has, or is about to have without a further check.
Submitting(i) == \E p \in Procs : worker[p].pc = "register" /\ worker[p].intent = i
Threatens(i) ==
    \/ Reached(i)
    \/ Submitting(i)
    \/ \E p \in Procs : renewal[p].pc = "register" /\ renewal[p].intent = i
Contends(i) == Threatens(i) /\ intents[i].coins \cap job.inputs # {}

\* No intent of a job reaches arkd before the job is entered.
EnteredFirst ==
    \A i \in Ids : job.id # 0 /\ intents[i].job = job.id /\ Threatens(i) => job.entered

\* Once a worker found nothing unresolved on the inputs of a job not yet
\* entered, nothing comes to contend for them.
ClearUntilEntered ==
    \A p \in Procs : Own(p) /\ ~job.entered
                     /\ worker[p].pc \in {"queue", "guard", "remember", "submit", "enter"} =>
       \A i \in Ids : ~Contends(i)

\* One intent contends for the inputs of an entered job, its own.
OneContender ==
    job.entered => \A i, j \in Ids : Contends(i) =>
                      intents[i].job = job.id /\ (Contends(j) => i = j)

\* What arkd may still settle for a job, or may be sent, has its job there.
OpenOffersHaveTheirJob ==
    \A i \in Ids : intents[i].job # 0 /\ (Offered(i) \/ Submitting(i)) =>
       job.id = intents[i].job /\ job.entered

\* At most one intent of a job ever reached arkd.
ReachedOnce ==
    \A i, j \in Ids : intents[i].job # 0 /\ intents[i].job = intents[j].job
                      /\ Reached(i) /\ Reached(j) => i = j

InputsUnreserved == job.inputs \cap reserved = {}

\* A coin the background took that is spendable off-chain was due for renewal
\* and held by nobody, and will be held by nobody.
Unheld(coins) == \A c \in coins \ Receipts : coin[c].aged /\ c \notin Held
BackgroundUnheld ==
    /\ \A p \in Procs : renewal[p].pc # "idle" => Unheld(renewal[p].coins)
    /\ \A i \in Ids : intents[i].by = "background" => Unheld(intents[i].coins)

Settlements ==
    /\ JobsNumbered /\ KnownIntents /\ PlansTheInputs /\ PreparedAlone /\ SettledByTheirIntent
    /\ EnteredFirst /\ ClearUntilEntered /\ OneContender /\ OpenOffersHaveTheirJob
    /\ ReachedOnce /\ InputsUnreserved /\ BackgroundUnheld

-----------------------------------------------------------------------------
(* What a step may do to the intents, the job and the processes. *)

\* A process keeps the job, the plan and the intent it has.
Keeps(p) ==
    /\ worker'[p].job = worker[p].job
    /\ worker'[p].plan = worker[p].plan
    /\ worker'[p].intent = worker[p].intent

\* It has no plan of a job, or gives it up.
Withdraws(p) ==
    /\ worker'[p].pc \in {"idle", "discover", "plan", "create", "claim", "observe", "failed", "aged"}
    /\ worker'[p].job <= jobs'
    /\ worker'[p].intent \in {0, worker[p].intent}

Observes(p) ==
    /\ worker'[p].pc = "decide"
    /\ worker'[p].job = worker[p].job /\ worker'[p].intent = worker[p].intent
    /\ Own(p) => worker'[p].plan = job.inputs

\* It goes on only when nothing contends for a job that was not entered.
Clears(p) ==
    /\ worker[p].pc = "decide" /\ worker'[p].pc = "queue" /\ Keeps(p)
    /\ Own(p) /\ ~job.entered => \A i \in Ids : ~Contends(i)

Advances(p) ==
    /\ <<worker[p].pc, worker'[p].pc>> \in
          {<<"queue", "guard">>, <<"remember", "submit">>, <<"submit", "enter">>}
    /\ Keeps(p)

Stores(p) ==
    /\ worker[p].pc = "guard" /\ worker'[p].pc = "remember" /\ Own(p)
    /\ worker'[p].job = worker[p].job /\ worker'[p].plan = worker[p].plan
    /\ Len(intents') = Len(intents) + 1 /\ worker'[p].intent = Len(intents')
    /\ intents'[Len(intents')].job = worker[p].job
    /\ intents'[Len(intents')].coins = worker[p].plan

Enters(p) ==
    /\ worker[p].pc = "enter" /\ worker'[p].pc = "register" /\ Keeps(p)
    /\ Own(p) /\ ~job.entered

\* It has an answer about an intent of the store.
Answered(p) ==
    /\ worker'[p].pc \in {"batch", "confirm"}
    /\ worker[p].pc \in {"decide", "register", "batch"}
    /\ worker'[p].job = worker[p].job /\ worker'[p].plan = worker[p].plan
    /\ worker'[p].intent \in Ids

WorkerMoves(p) ==
    \/ worker'[p] = worker[p]
    \/ Withdraws(p) \/ Observes(p) \/ Clears(p) \/ Advances(p)
    \/ Stores(p) \/ Enters(p) \/ Answered(p)

\* The background stores the intent of the coins it read, and sends it when no
\* coin of it is a job's.
RenewStores(p) ==
    /\ renewal[p].pc = "queue" /\ renewal'[p].pc = "check"
    /\ renewal'[p].coins = renewal[p].coins
    /\ Len(intents') = Len(intents) + 1 /\ renewal'[p].intent = Len(intents')
    /\ intents'[Len(intents')].job = 0
    /\ intents'[Len(intents')].coins = renewal[p].coins

RenewSends(p) ==
    /\ renewal[p].pc = "check" /\ renewal'[p].pc = "register"
    /\ renewal'[p].coins = renewal[p].coins /\ renewal'[p].intent = renewal[p].intent
    /\ renewal[p].coins \cap job.inputs = {}
    /\ job' = job

RenewalMoves(p) ==
    \/ renewal'[p] = renewal[p]
    \/ renewal'[p].pc = "idle"
    \/ renewal'[p].pc = "queue" /\ Unheld(renewal'[p].coins)
    \/ RenewStores(p) \/ RenewSends(p)
    \/ /\ renewal[p].pc \in Renewing /\ renewal'[p].pc \in {"batch", "end"}
       /\ renewal'[p].intent = renewal[p].intent /\ renewal'[p].coins = renewal[p].coins

ProcessesMove ==
    /\ \A p \in Procs : WorkerMoves(p) /\ RenewalMoves(p) /\ since'[p] <= Len(intents')
    /\ \A p, q \in Procs : \/ p = q
                           \/ worker'[p] = worker[p] /\ renewal'[p] = renewal[p]
                           \/ worker'[q] = worker[q] /\ renewal'[q] = renewal[q]

\* A process that sends its intent to arkd does not prepare it any longer.
Registers(i) ==
    \/ \E p \in Procs : /\ worker[p].pc = "register" /\ worker[p].intent = i
                        /\ worker'[p].pc \notin Preparing
    \/ \E p \in Procs : /\ renewal[p].pc = "register" /\ renewal[p].intent = i
                        /\ renewal'[p].pc \notin Renewing

Adds == \E p \in Procs : Stores(p) \/ RenewStores(p)

\* The intents keep what they are for; arkd forgets none it has had.
IntentsMove ==
    /\ \/ Len(intents') = Len(intents)
       \/ Len(intents') = Len(intents) + 1 /\ Adds
    /\ \A i \in Ids :
          /\ intents'[i].coins = intents[i].coins /\ intents'[i].by = intents[i].by
          /\ intents'[i].job = intents[i].job
          /\ intents[i].arkd # "none" => intents'[i].arkd # "none"
          /\ intents[i].arkd = "settled" => intents'[i].arkd = "settled"
          /\ intents[i].arkd = "none" /\ intents'[i].arkd # "none" => Registers(i)
          /\ intents'[i].arkd \in {"registered", "signed"} =>
                intents[i].arkd \in {"none", "registered", "signed"}
    /\ \A i \in Ids' \ Ids : /\ intents'[i].arkd = "none"
                             /\ intents'[i].by = "proceeds" <=> intents'[i].job # 0

JobKept ==
    /\ jobs' = jobs /\ job'.id = job.id /\ job'.inputs = job.inputs
    /\ job'.entered = job.entered
    /\ \A i \in job'.local : i \in job.local \/ (i \in Ids /\ intents[i].job = job.id)

JobEntered ==
    /\ jobs' = jobs /\ job'.id = job.id /\ job'.inputs = job.inputs
    /\ job'.entered /\ job'.local = job.local
    /\ \E p \in Procs : Enters(p)

\* A job ends when arkd has no open offer of one.
NoneOpen == \A i \in Ids : intents[i].job # 0 => ~Offered(i) /\ ~Submitting(i)
JobGone ==
    /\ jobs' = jobs /\ job'.id = 0 /\ job'.inputs = {} /\ ~job'.entered /\ job'.local = {}
    /\ NoneOpen
    /\ \A p \in Procs : worker'[p] = worker[p] \/ Withdraws(p)

JobCreated ==
    /\ job.id = 0 /\ jobs' = jobs + 1 /\ job'.id = jobs' /\ job'.inputs # {}
    /\ ~job'.entered /\ job'.local = {}
    /\ \A c \in job'.inputs \ Receipts : ~coin[c].aged
    /\ intents' = intents
    /\ \A p \in Procs : worker'[p] = worker[p] \/ Withdraws(p)

\* A coin that is due for renewal stays so, and comes to be held by nobody.
HoldsFresh ==
    \A c \in Coins \ Receipts : coin[c].aged => coin'[c].aged /\ (c \in Held' => c \in Held)

JobMoves == JobKept \/ JobEntered \/ JobGone \/ JobCreated

Moves ==
    /\ TreasuryTypeOK /\ TreasuryTypeOK'
    /\ ProcessesMove /\ IntentsMove /\ JobMoves /\ HoldsFresh
    /\ (\E p \in Procs : Enters(p)) => JobEntered

-----------------------------------------------------------------------------
(* Such a step keeps the invariant. *)

\* The store's intents are numbered from one.
LEMMA IdsGrow ==
    ASSUME Moves
    PROVE  /\ Len(intents) \in Nat /\ Len(intents') \in Nat
           /\ Ids \subseteq Ids' /\ Ids \subseteq Nat \ {0}
           /\ \A i \in Ids' : i \notin Ids => i = Len(intents') /\ Len(intents') = Len(intents) + 1
BY DEF Moves, TreasuryTypeOK, IntentsMove, Ids

\* The fields of the records are what they are declared to be.
LEMMA FieldsTyped ==
    ASSUME TreasuryTypeOK
    PROVE  /\ jobs \in Nat /\ job.id \in Nat /\ job.inputs \subseteq Coins /\ job.local \subseteq Nat
           /\ \A p \in Procs : worker[p].job \in Nat /\ worker[p].intent \in Nat
           /\ \A i \in Ids : intents[i].job \in Nat /\ intents[i].coins \subseteq Coins
<1>1. \A i \in Ids : intents[i] \in IntentRecord
  BY DEF TreasuryTypeOK, Ids
<1>2. \A p \in Procs : worker[p] \in WorkerRecord
  BY DEF TreasuryTypeOK
<1>. QED  BY <1>1, <1>2 DEF TreasuryTypeOK, IntentRecord, WorkerRecord, JobRecord

\* Numbers stay below the last.
LEMMA JobsNumberedKept == ASSUME Moves, Settlements PROVE JobsNumbered'
<1>1. /\ jobs \in Nat /\ jobs' \in Nat /\ jobs <= jobs'
      /\ \A p \in Procs : worker[p].job \in Nat /\ worker'[p].job \in Nat
      /\ \A i \in Ids : intents[i].job \in Nat
  <2>1. jobs \in Nat /\ jobs' \in Nat
    BY DEF Moves, TreasuryTypeOK
  <2>2. \A p \in Procs : worker'[p].job \in Nat
    <3>1. \A p \in Procs : worker'[p] \in WorkerRecord
      BY DEF Moves, TreasuryTypeOK
    <3>. QED  BY <3>1 DEF WorkerRecord
  <2>. QED  BY <2>1, <2>2, FieldsTyped DEF Moves, JobMoves, JobKept, JobEntered, JobGone, JobCreated
<1>2. job'.id \in {0, jobs'} /\ (job'.id = 0 => job'.inputs = {} /\ ~job'.entered)
      /\ (job'.id # 0 => job'.inputs # {})
  <2>1. CASE JobKept \/ JobGone
    BY <2>1 DEF Settlements, JobsNumbered, JobKept, JobGone
  <2>2. CASE JobEntered
    <3>1. job.id # 0
      BY <2>2 DEF JobEntered, Enters, Own
    <3>. QED  BY <2>2, <3>1 DEF Settlements, JobsNumbered, JobEntered
  <2>3. CASE JobCreated
    BY <1>1, <2>3 DEF JobCreated, Moves, TreasuryTypeOK
  <2>. QED  BY <2>1, <2>2, <2>3 DEF Moves, JobMoves
<1>3. ASSUME NEW p \in Procs PROVE worker'[p].job <= jobs'
  BY <1>1 DEF Settlements, JobsNumbered, Moves, ProcessesMove, WorkerMoves, Keeps, Withdraws,
     Observes, Clears, Advances, Stores, Enters, Answered
<1>4. ASSUME NEW i \in Ids'
      PROVE  intents'[i].job <= jobs' /\ (intents'[i].by = "proceeds" <=> intents'[i].job # 0)
  <2>1. CASE i \in Ids
    BY <1>1, <2>1 DEF Settlements, JobsNumbered, Moves, IntentsMove
  <2>2. CASE i \notin Ids
    <3>1. i = Len(intents') /\ Len(intents') = Len(intents) + 1 /\ Len(intents) \in Nat
      BY <2>2, IdsGrow
    <3>2. PICK p \in Procs : Stores(p) \/ RenewStores(p)
      BY <3>1 DEF Moves, IntentsMove, Adds
    <3>3. intents'[i].job \in {0, worker[p].job}
      BY <3>1, <3>2 DEF Stores, RenewStores
    <3>. QED  BY <1>1, <2>2, <3>3 DEF Settlements, JobsNumbered, Moves, IntentsMove
  <2>. QED  BY <2>1, <2>2
<1>. QED  BY <1>2, <1>3, <1>4 DEF JobsNumbered

\* References stay within the store.
LEMMA KnownIntentsKept == ASSUME Moves, Settlements PROVE KnownIntents'
<1>1. /\ Len(intents) \in Nat /\ Len(intents') \in Nat /\ Len(intents) <= Len(intents')
      /\ Ids \subseteq Ids' /\ \A p \in Procs : worker[p].intent \in Nat
  BY IdsGrow, FieldsTyped DEF Moves, IntentsMove
<1>2. ASSUME NEW p \in Procs
      PROVE  /\ worker'[p].intent <= Len(intents') /\ since'[p] <= Len(intents')
             /\ worker'[p].pc \in {"batch", "confirm"} => worker'[p].intent # 0
  BY <1>1, <1>2 DEF Settlements, KnownIntents, Moves, ProcessesMove, WorkerMoves, Keeps, Withdraws,
     Observes, Clears, Advances, Stores, Enters, Answered, Ids
<1>3. ASSUME NEW p \in Procs, renewal'[p].pc \in {"check", "register", "batch", "end"}
      PROVE  renewal'[p].intent \in Ids'
  BY <1>1, <1>3 DEF Settlements, KnownIntents, Moves, ProcessesMove, RenewalMoves, RenewStores,
     RenewSends, Renewing, Ids
<1>4. job'.local \subseteq Ids'
  BY <1>1 DEF Settlements, KnownIntents, Moves, JobMoves, JobKept, JobEntered, JobGone, JobCreated
<1>. QED  BY <1>2, <1>3, <1>4 DEF KnownIntents

\* Plans and intents of the active job stay its inputs.
LEMMA PlansTheInputsKept == ASSUME Moves, Settlements PROVE PlansTheInputs'
<1> DEFINE Planning == {"decide", "queue", "guard", "remember", "submit", "enter", "register",
                        "batch", "confirm"}
<1>1. /\ jobs \in Nat /\ \A p \in Procs : worker[p].job \in Nat /\ worker[p].job <= jobs
      /\ \A i \in Ids : intents[i].job \in Nat /\ intents[i].job <= jobs
  BY FieldsTyped DEF Moves, Settlements, JobsNumbered
<1>2. ASSUME NEW p \in Procs, worker'[p].pc \in Planning, job'.id # 0, job'.id = worker'[p].job
      PROVE  worker'[p].plan = job'.inputs
  <2>1. ~Withdraws(p)
    BY <1>2 DEF Withdraws
  <2>2. /\ worker'[p].job = worker[p].job
        /\ job'.id = job.id /\ job'.inputs = job.inputs
    <3>1. worker'[p].job = worker[p].job
      BY <2>1 DEF Moves, ProcessesMove, WorkerMoves, Keeps, Observes, Clears, Advances, Stores,
                  Enters, Answered
    <3>2. ~JobGone /\ ~JobCreated
      BY <1>1, <1>2, <3>1 DEF JobGone, JobCreated
    <3>. QED  BY <3>1, <3>2 DEF Moves, JobMoves, JobKept, JobEntered
  <2>3. \/ worker'[p].plan = worker[p].plan /\ worker[p].pc \in Planning
        \/ worker'[p].plan = job.inputs
    BY <1>2, <2>1, <2>2 DEF Moves, ProcessesMove, WorkerMoves, Keeps, Observes, Clears, Advances,
       Stores, Enters, Answered, Own
  <2>. QED  BY <1>2, <2>2, <2>3 DEF Settlements, PlansTheInputs, Own
<1>3. ASSUME NEW i \in Ids', job'.id # 0, intents'[i].job = job'.id
      PROVE  intents'[i].coins = job'.inputs
  <2>1. CASE i \in Ids
    <3>1. intents'[i].job = intents[i].job /\ intents'[i].coins = intents[i].coins
      BY <2>1 DEF Moves, IntentsMove
    <3>2. ~JobGone /\ ~JobCreated
      BY <1>1, <1>3, <2>1, <3>1 DEF JobGone, JobCreated
    <3>3. job'.id = job.id /\ job'.inputs = job.inputs
      BY <3>2 DEF Moves, JobMoves, JobKept, JobEntered
    <3>. QED  BY <1>3, <2>1, <3>1, <3>3 DEF Settlements, PlansTheInputs
  <2>2. CASE i \notin Ids
    <3>1. i = Len(intents') /\ Len(intents') = Len(intents) + 1 /\ Len(intents) \in Nat
      BY <2>2, IdsGrow
    <3>2. PICK p \in Procs : Stores(p)
      <4>1. PICK p \in Procs : Stores(p) \/ RenewStores(p)
        BY <3>1 DEF Moves, IntentsMove, Adds
      <4>. QED  BY <1>3, <3>1, <4>1 DEF RenewStores
    <3>3. job.id # 0 /\ ~JobGone /\ ~JobCreated
      BY <3>1, <3>2, <1>3 DEF Stores, Own, JobGone, JobCreated
    <3>4. job'.id = job.id /\ job'.inputs = job.inputs
      BY <3>3 DEF Moves, JobMoves, JobKept, JobEntered
    <3>. QED  BY <3>1, <3>2, <3>4 DEF Stores, Settlements, PlansTheInputs
  <2>. QED  BY <2>1, <2>2
<1>4. ASSUME NEW i \in job'.local PROVE intents'[i].job = job'.id
  BY <1>4 DEF Settlements, PlansTheInputs, KnownIntents, Moves, IntentsMove, JobMoves, JobKept,
     JobEntered, JobGone, JobCreated
<1>. QED  BY <1>2, <1>3, <1>4 DEF PlansTheInputs, Own

\* An intent threatens only if it did, or the background sends it with no coin
\* of the job's, or the job's own is sent at its entry.
LEMMA ThreatsMove ==
    ASSUME Moves, Settlements, NEW i \in Ids', Threatens(i)'
    PROVE  /\ i \in Ids
           /\ \/ Threatens(i)
              \/ intents[i].job = 0 /\ intents[i].coins \cap job.inputs = {} /\ job' = job
              \/ JobEntered /\ \E p \in Procs : Enters(p) /\ worker[p].intent = i
<1>1. Len(intents) \in Nat /\ Len(intents') \in Nat
  BY IdsGrow
<1>2. CASE Reached(i)'
  <2>1. i \in Ids
    BY <1>2 DEF Reached, Moves, IntentsMove
  <2>2. Reached(i) \/ Registers(i)
    BY <1>2, <2>1 DEF Reached, Moves, IntentsMove
  <2>. QED  BY <2>1, <2>2 DEF Registers, Threatens, Submitting
<1>3. CASE Submitting(i)'
  <2>1. PICK p \in Procs : worker'[p].pc = "register" /\ worker'[p].intent = i
    BY <1>3 DEF Submitting
  <2>2. worker'[p] = worker[p] \/ Enters(p)
    BY <2>1 DEF Moves, ProcessesMove, WorkerMoves, Withdraws, Observes, Clears, Advances, Stores,
                Answered
  <2>3. worker[p].pc \in Preparing /\ worker[p].intent = i
    BY <2>1, <2>2 DEF Enters, Keeps, Preparing
  <2>4. i \in Ids
    BY <2>3 DEF Settlements, PreparedAlone
  <2>. QED  BY <2>1, <2>2, <2>3, <2>4 DEF Threatens, Submitting, Moves
<1>4. CASE \E p \in Procs : renewal'[p].pc = "register" /\ renewal'[p].intent = i
  <2>1. PICK p \in Procs : renewal'[p].pc = "register" /\ renewal'[p].intent = i
    BY <1>4
  <2>2. renewal'[p] = renewal[p] \/ RenewSends(p)
    BY <2>1 DEF Moves, ProcessesMove, RenewalMoves, RenewStores
  <2>3. renewal[p].pc \in Renewing /\ renewal[p].intent = i
    BY <2>1, <2>2 DEF RenewSends, Renewing
  <2>4. i \in Ids /\ intents[i].job = 0 /\ intents[i].coins = renewal[p].coins
    BY <2>3 DEF Settlements, PreparedAlone, KnownIntents, Renewing
  <2>. QED  BY <2>1, <2>2, <2>4 DEF Threatens, RenewSends
<1>. QED  BY <1>2, <1>3, <1>4 DEF Threatens

\* What may be open was, or belongs to the background, or is the job's own at its entry.
LEMMA OpenMoves ==
    ASSUME Moves, Settlements, NEW i \in Ids', Offered(i)' \/ Submitting(i)'
    PROVE  /\ i \in Ids
           /\ \/ Offered(i) \/ Submitting(i)
              \/ intents[i].job = 0
              \/ JobEntered /\ \E p \in Procs : Enters(p) /\ worker[p].intent = i
<1>1. CASE Submitting(i)'
  <2>1. PICK p \in Procs : worker'[p].pc = "register" /\ worker'[p].intent = i
    BY <1>1 DEF Submitting
  <2>2. worker'[p] = worker[p] \/ Enters(p)
    BY <2>1 DEF Moves, ProcessesMove, WorkerMoves, Withdraws, Observes, Clears, Advances, Stores,
                Answered
  <2>3. worker[p].pc \in Preparing /\ worker[p].intent = i
    BY <2>1, <2>2 DEF Enters, Keeps, Preparing
  <2>4. i \in Ids
    BY <2>3 DEF Settlements, PreparedAlone
  <2>. QED  BY <2>1, <2>2, <2>3, <2>4 DEF Submitting, Moves
<1>2. CASE Offered(i)'
  <2>1. i \in Ids
    BY <1>2 DEF Offered, Moves, IntentsMove
  <2>2. Offered(i) \/ Registers(i)
    BY <1>2, <2>1 DEF Offered, Moves, IntentsMove
  <2>3. CASE \E p \in Procs : renewal[p].pc = "register" /\ renewal[p].intent = i
    BY <2>1, <2>3 DEF Settlements, PreparedAlone, Renewing
  <2>. QED  BY <2>1, <2>2, <2>3 DEF Registers, Submitting
<1>. QED  BY <1>1, <1>2

\* An intent being prepared stays the process's alone.
LEMMA PreparedAloneKept == ASSUME Moves, Settlements PROVE PreparedAlone'
<1>1. /\ Len(intents) \in Nat /\ Len(intents') \in Nat /\ Ids \subseteq Ids'
      /\ \A i \in Ids : i # Len(intents) + 1
  BY IdsGrow DEF Ids
<1>2. ASSUME NEW p \in Procs, worker'[p].pc \in Preparing
      PROVE  \/ /\ worker[p].pc \in Preparing
                /\ worker'[p].intent = worker[p].intent /\ worker'[p].job = worker[p].job
             \/ Stores(p)
  BY <1>2 DEF Preparing, Moves, ProcessesMove, WorkerMoves, Keeps, Withdraws, Observes, Clears,
     Advances, Stores, Enters, Answered
<1>3. ASSUME NEW p \in Procs, renewal'[p].pc \in Renewing
      PROVE  \/ /\ renewal[p].pc \in Renewing
                /\ renewal'[p].intent = renewal[p].intent /\ renewal'[p].coins = renewal[p].coins
             \/ RenewStores(p)
  BY <1>3 DEF Renewing, Moves, ProcessesMove, RenewalMoves, RenewStores, RenewSends
<1>4. ASSUME NEW p \in Procs, worker[p].pc \in Preparing, worker'[p].pc \in Preparing
      PROVE  /\ worker[p].intent \in Ids
             /\ ~Registers(worker[p].intent)
             /\ intents[worker[p].intent].job = worker[p].job /\ worker[p].job # 0
             /\ intents[worker[p].intent].arkd = "none"
  BY <1>4 DEF Settlements, PreparedAlone, Registers, Preparing, Renewing, Reached
<1>5. ASSUME NEW p \in Procs, renewal[p].pc \in Renewing, renewal'[p].pc \in Renewing
      PROVE  /\ renewal[p].intent \in Ids
             /\ ~Registers(renewal[p].intent)
             /\ intents[renewal[p].intent].job = 0
             /\ intents[renewal[p].intent].coins = renewal[p].coins
             /\ intents[renewal[p].intent].arkd = "none"
  BY <1>5 DEF Settlements, PreparedAlone, KnownIntents, Registers, Preparing, Renewing, Reached
<1>6. ASSUME NEW p \in Procs, Stores(p)
      PROVE  /\ worker'[p].intent \in Ids' /\ worker'[p].intent \notin Ids
             /\ intents'[worker'[p].intent].arkd = "none"
             /\ intents'[worker'[p].intent].job = worker'[p].job /\ worker'[p].job # 0
  BY <1>1, <1>6 DEF Stores, Own, Ids, Moves, IntentsMove
<1>7. ASSUME NEW p \in Procs, RenewStores(p)
      PROVE  /\ renewal'[p].intent \in Ids' /\ renewal'[p].intent \notin Ids
             /\ intents'[renewal'[p].intent].arkd = "none"
             /\ intents'[renewal'[p].intent].job = 0
             /\ intents'[renewal'[p].intent].coins = renewal'[p].coins
  BY <1>1, <1>7 DEF RenewStores, Ids, Moves, IntentsMove
<1>8. ASSUME NEW i \in Ids
      PROVE  /\ i \in Ids' /\ intents'[i].job = intents[i].job /\ intents'[i].coins = intents[i].coins
             /\ ~Registers(i) /\ intents[i].arkd = "none" => intents'[i].arkd = "none"
  BY <1>1 DEF Moves, IntentsMove
<1>9. ASSUME NEW p \in Procs, worker'[p].pc \in Preparing
      PROVE  /\ worker'[p].intent \in Ids' /\ intents'[worker'[p].intent].arkd = "none"
             /\ intents'[worker'[p].intent].job = worker'[p].job /\ worker'[p].job # 0
  BY <1>2, <1>4, <1>6, <1>8, <1>9
<1>10. ASSUME NEW p \in Procs, renewal'[p].pc \in Renewing
       PROVE  /\ intents'[renewal'[p].intent].job = 0
              /\ intents'[renewal'[p].intent].arkd = "none"
              /\ intents'[renewal'[p].intent].coins = renewal'[p].coins
  BY <1>3, <1>5, <1>7, <1>8, <1>10
<1>11. ASSUME NEW p \in Procs, NEW q \in Procs, worker'[p].pc \in Preparing,
              worker'[q].pc \in Preparing, worker'[p].intent = worker'[q].intent
       PROVE  p = q
  <2>1. p = q \/ ~Stores(p) \/ ~Stores(q)
    BY DEF Moves, ProcessesMove, Stores
  <2>2. CASE ~Stores(p) /\ ~Stores(q)
    BY <1>2, <1>11, <2>2 DEF Settlements, PreparedAlone
  <2>3. CASE Stores(p) \/ Stores(q)
    BY <1>2, <1>4, <1>6, <1>11, <2>1, <2>3
  <2>. QED  BY <2>2, <2>3
<1>12. ASSUME NEW p \in Procs, NEW q \in Procs, renewal'[p].pc \in Renewing,
              renewal'[q].pc \in Renewing, renewal'[p].intent = renewal'[q].intent
       PROVE  p = q
  <2>1. p = q \/ ~RenewStores(p) \/ ~RenewStores(q)
    BY DEF Moves, ProcessesMove, RenewStores
  <2>2. CASE ~RenewStores(p) /\ ~RenewStores(q)
    BY <1>3, <1>12, <2>2 DEF Settlements, PreparedAlone
  <2>3. CASE RenewStores(p) \/ RenewStores(q)
    BY <1>3, <1>5, <1>7, <1>12, <2>1, <2>3
  <2>. QED  BY <2>2, <2>3
<1>. QED  BY <1>9, <1>10, <1>11, <1>12 DEF PreparedAlone, Reached

\* The active job changes only by its entry; a new one is later than any intent.
LEMMA SameJob ==
    ASSUME Moves, Settlements, job'.id # 0, NEW n \in Nat, n <= jobs, n = job'.id
    PROVE  /\ JobKept \/ JobEntered
           /\ job.id = job'.id /\ job.inputs = job'.inputs
BY FieldsTyped DEF Moves, JobMoves, JobKept, JobEntered, JobGone, JobCreated

\* An intent's coins and job do not change.
LEMMA IntentStays ==
    ASSUME Moves, NEW i \in Ids
    PROVE  intents'[i].coins = intents[i].coins /\ intents'[i].job = intents[i].job
BY DEF Moves, IntentsMove

\* The intents of a job reach arkd after its entry.
LEMMA EnteredFirstKept == ASSUME Moves, Settlements PROVE EnteredFirst'
<1> SUFFICES ASSUME NEW i \in Ids', job'.id # 0, intents'[i].job = job'.id, Threatens(i)'
             PROVE  job'.entered
  BY DEF EnteredFirst
<1>1. i \in Ids
  BY ThreatsMove
<1>2. intents[i].job = job'.id /\ intents[i].job \in Nat /\ intents[i].job <= jobs
  BY <1>1, IntentStays, FieldsTyped DEF Settlements, JobsNumbered, Moves
<1>3. (JobKept \/ JobEntered) /\ job.id = job'.id
  BY <1>2, SameJob
<1>4. Threatens(i) \/ JobEntered
  BY <1>2, ThreatsMove
<1>5. CASE Threatens(i)
  BY <1>1, <1>2, <1>3, <1>5 DEF Settlements, EnteredFirst, JobKept, JobEntered
<1>6. CASE JobEntered
  BY <1>6 DEF JobEntered
<1>. QED  BY <1>4, <1>5, <1>6

\* Nothing comes to contend for a job that was found clear.
LEMMA ClearKept == ASSUME Moves, Settlements PROVE ClearUntilEntered'
<1> DEFINE Cleared == {"queue", "guard", "remember", "submit", "enter"}
<1> SUFFICES ASSUME NEW p \in Procs, job'.id # 0, job'.id = worker'[p].job, ~job'.entered,
                    worker'[p].pc \in Cleared,
                    NEW i \in Ids', Contends(i)'
             PROVE  FALSE
  BY DEF ClearUntilEntered, Own
<1>1. /\ worker'[p].job = worker[p].job
      /\ \/ worker[p].pc \in Cleared
         \/ Own(p) /\ ~job.entered => \A k \in Ids : ~Contends(k)
  BY DEF Moves, ProcessesMove, WorkerMoves, Keeps, Withdraws, Observes, Clears, Advances, Stores,
     Enters, Answered
<1>2. worker[p].job \in Nat /\ worker[p].job <= jobs
  BY FieldsTyped DEF Moves, Settlements, JobsNumbered
<1>3. (JobKept \/ JobEntered) /\ job.id = job'.id /\ job.inputs = job'.inputs
  BY <1>1, <1>2, SameJob
<1>4. ~JobEntered /\ ~job.entered /\ Own(p)
  BY <1>1, <1>3 DEF JobKept, JobEntered, Own
<1>5. \A k \in Ids : ~Contends(k)
  BY <1>1, <1>4 DEF Settlements, ClearUntilEntered
<1>6. i \in Ids /\ Threatens(i)' /\ intents[i].coins \cap job.inputs # {}
  BY <1>3, ThreatsMove, IntentStays DEF Contends
<1>7. Threatens(i)
  BY <1>4, <1>6, ThreatsMove
<1>. QED  BY <1>5, <1>6, <1>7 DEF Contends

\* The intent of an entry is of the job's inputs, and no other process's.
LEMMA EntryIsTheJobs ==
    ASSUME Settlements, NEW p \in Procs, Enters(p)
    PROVE  /\ worker[p].intent \in Ids /\ intents[worker[p].intent].job = job.id /\ job.id # 0
           /\ \A i \in Ids : ~Contends(i)
<1>1. worker[p].pc \in Preparing /\ Own(p) /\ ~job.entered /\ worker[p].pc = "enter"
  BY DEF Enters, Preparing
<1>. QED  BY <1>1 DEF Settlements, PreparedAlone, ClearUntilEntered, Own

\* An entered job has one contender.
LEMMA OneContenderKept == ASSUME Moves, Settlements PROVE OneContender'
<1> SUFFICES ASSUME job'.entered, NEW i \in Ids', NEW j \in Ids', Contends(i)'
             PROVE  intents'[i].job = job'.id /\ (Contends(j)' => i = j)
  BY DEF OneContender
<1>1. (JobKept \/ JobEntered) /\ job.id = job'.id /\ job.inputs = job'.inputs
  BY DEF Moves, JobMoves, JobKept, JobEntered, JobGone, JobCreated
<1>2. ASSUME NEW k \in Ids', Contends(k)'
      PROVE  /\ k \in Ids /\ intents'[k].job = intents[k].job
             /\ \/ Contends(k)
                \/ JobEntered /\ \E p \in Procs : Enters(p) /\ worker[p].intent = k
  <2>1. k \in Ids /\ Threatens(k)' /\ intents[k].coins \cap job.inputs # {}
    BY <1>1, <1>2, ThreatsMove, IntentStays DEF Contends
  <2>. QED  BY <2>1, ThreatsMove, IntentStays DEF Contends
<1>3. CASE JobEntered
  <2>1. PICK p \in Procs : Enters(p)
    BY <1>3 DEF JobEntered
  <2>2. \A q \in Procs : Enters(q) => q = p
    BY <2>1 DEF Moves, ProcessesMove, Enters
  <2>3. \A k \in Ids' : Contends(k)' => k = worker[p].intent
    BY <1>2, <2>1, <2>2, EntryIsTheJobs
  <2>. QED  BY <1>1, <1>2, <2>1, <2>3, EntryIsTheJobs
<1>4. CASE ~JobEntered
  BY <1>1, <1>2, <1>4 DEF JobKept, Settlements, OneContender
<1>. QED  BY <1>3, <1>4

\* The job of an open offer stays.
LEMMA OpenOffersKept == ASSUME Moves, Settlements PROVE OpenOffersHaveTheirJob'
<1> SUFFICES ASSUME NEW i \in Ids', intents'[i].job # 0, Offered(i)' \/ Submitting(i)'
             PROVE  job'.id = intents'[i].job /\ job'.entered
  BY DEF OpenOffersHaveTheirJob
<1>1. i \in Ids /\ intents'[i].job = intents[i].job
  BY OpenMoves, IntentStays
<1>2. CASE Offered(i) \/ Submitting(i)
  <2>1. job.id = intents[i].job /\ job.entered
    BY <1>1, <1>2 DEF Settlements, OpenOffersHaveTheirJob
  <2>2. ~JobGone /\ ~JobCreated
    BY <1>1, <1>2, <2>1 DEF JobGone, NoneOpen, JobCreated
  <2>. QED  BY <1>1, <2>1, <2>2 DEF Moves, JobMoves, JobKept, JobEntered
<1>3. CASE JobEntered /\ \E p \in Procs : Enters(p) /\ worker[p].intent = i
  BY <1>1, <1>3, EntryIsTheJobs DEF JobEntered
<1>. QED  BY <1>1, <1>2, <1>3, OpenMoves

\* A job's intent is sent once.
LEMMA ReachedOnceKept == ASSUME Moves, Settlements PROVE ReachedOnce'
<1>1. ASSUME NEW i \in Ids', Reached(i)', intents'[i].job # 0
      PROVE  /\ i \in Ids /\ intents'[i].job = intents[i].job
             /\ Reached(i) \/ Submitting(i)
  <2>1. i \in Ids
    BY <1>1 DEF Reached, Moves, IntentsMove
  <2>2. Reached(i) \/ Registers(i)
    BY <1>1, <2>1 DEF Reached, Moves, IntentsMove
  <2>3. intents[i].job # 0 /\ intents'[i].job = intents[i].job
    BY <1>1, <2>1, IntentStays
  <2>. QED  BY <2>1, <2>2, <2>3 DEF Registers, Submitting, Settlements, PreparedAlone, Renewing
<1>2. ASSUME NEW i \in Ids, NEW j \in Ids, intents[i].job # 0, intents[i].job = intents[j].job,
             Submitting(i), Reached(j) \/ Submitting(j)
      PROVE  i = j
  <2>1. job.id = intents[i].job /\ job.entered
    BY <1>2 DEF Settlements, OpenOffersHaveTheirJob
  <2>2. /\ intents[i].coins = job.inputs /\ intents[j].coins = job.inputs
        /\ job.inputs # {}
    BY <1>2, <2>1 DEF Settlements, PlansTheInputs, JobsNumbered
  <2>3. Contends(i) /\ Contends(j)
    BY <1>2, <2>2 DEF Contends, Threatens
  <2>. QED  BY <2>1, <2>3 DEF Settlements, OneContender
<1>3. ASSUME NEW i \in Ids', NEW j \in Ids', intents'[i].job # 0,
             intents'[i].job = intents'[j].job, Reached(i)', Reached(j)'
      PROVE  i = j
  <2>1. /\ i \in Ids /\ j \in Ids /\ intents[i].job # 0 /\ intents[i].job = intents[j].job
        /\ Reached(i) \/ Submitting(i)
        /\ Reached(j) \/ Submitting(j)
    BY <1>1, <1>3
  <2>2. CASE Reached(i) /\ Reached(j)
    BY <2>1, <2>2 DEF Settlements, ReachedOnce
  <2>3. CASE Submitting(i) \/ Submitting(j)
    BY <1>2, <2>1, <2>3
  <2>. QED  BY <2>1, <2>2, <2>3
<1>. QED  BY <1>3 DEF ReachedOnce

\* What the background took stays due for renewal and unheld.
LEMMA BackgroundUnheldKept == ASSUME Moves, Settlements PROVE BackgroundUnheld'
<1>1. ASSUME NEW coins \in SUBSET Coins, Unheld(coins)
      PROVE  \A c \in coins \ Receipts : coin'[c].aged /\ c \notin Held'
  BY <1>1 DEF Unheld, Moves, HoldsFresh
<1>2. ASSUME NEW p \in Procs, renewal'[p].pc # "idle", NEW c \in renewal'[p].coins \ Receipts
      PROVE  coin'[c].aged /\ c \notin Held'
  <2>1. Unheld(renewal'[p].coins)
    BY <1>2 DEF Moves, ProcessesMove, RenewalMoves, RenewStores, RenewSends, Renewing,
       Settlements, BackgroundUnheld
  <2>2. renewal'[p] \in RenewalRecord
    BY DEF Moves, TreasuryTypeOK
  <2>. QED  BY <1>1, <2>1, <2>2 DEF RenewalRecord
<1>3. ASSUME NEW i \in Ids', intents'[i].by = "background",
             NEW c \in intents'[i].coins \ Receipts
      PROVE  coin'[c].aged /\ c \notin Held'
  <2>1. Unheld(intents'[i].coins)
    <3>1. CASE i \in Ids
      BY <1>3, <3>1 DEF Moves, IntentsMove, Settlements, BackgroundUnheld
    <3>2. CASE i \notin Ids
      <4>1. i = Len(intents') /\ Len(intents') = Len(intents) + 1 /\ Len(intents) \in Nat
        BY <3>2, IdsGrow
      <4>2. PICK p \in Procs : Stores(p) \/ RenewStores(p)
        BY <4>1 DEF Moves, IntentsMove, Adds
      <4>3. intents'[i].job = 0
        BY <1>3, <3>2 DEF Moves, IntentsMove
      <4>4. RenewStores(p)
        BY <4>1, <4>2, <4>3 DEF Stores, Own
      <4>. QED  BY <4>1, <4>4 DEF RenewStores, Settlements, BackgroundUnheld
    <3>. QED  BY <3>1, <3>2
  <2>2. intents'[i] \in IntentRecord
    BY DEF Moves, TreasuryTypeOK, Ids
  <2>. QED  BY <1>1, <2>1, <2>2 DEF IntentRecord
<1>. QED  BY <1>2, <1>3 DEF BackgroundUnheld, Unheld

\* Such a step keeps all of it but what coins and reservations say.
LEMMA MovesKeep ==
    ASSUME Moves, Settlements, SettledByTheirIntent', InputsUnreserved'
    PROVE  Settlements'
BY JobsNumberedKept, KnownIntentsKept, PlansTheInputsKept, PreparedAloneKept, EnteredFirstKept,
   ClearKept, OneContenderKept, OpenOffersKept, ReachedOnceKept, BackgroundUnheldKept
   DEF Settlements

-----------------------------------------------------------------------------
(* How the steps write the records. *)

\* Only p's collector moves, to this record.
WorkerBecomes(p, r) ==
    /\ worker' \in [Procs -> WorkerRecord] /\ worker'[p] = r
    /\ \A q \in Procs : q # p => worker'[q] = worker[q]

\* A collector is replaced by another record.
LEMMA WorkerSet ==
    ASSUME TreasuryTypeOK, NEW p \in Procs, NEW r \in WorkerRecord,
           worker' = [worker EXCEPT ![p] = r]
    PROVE  WorkerBecomes(p, r)
BY DEF TreasuryTypeOK, WorkerBecomes

\* A collector goes to its next step.
LEMMA StepSet ==
    ASSUME TreasuryTypeOK, NEW p \in Procs, NEW pc \in WorkerSteps, Step(p, pc)
    PROVE  /\ WorkerBecomes(p, [worker[p] EXCEPT !.pc = pc])
           /\ worker'[p].pc = pc /\ Keeps(p)
<1>1. worker[p] \in WorkerRecord
  BY DEF TreasuryTypeOK
<1>2. [worker[p] EXCEPT !.pc = pc] \in WorkerRecord
  BY <1>1 DEF WorkerRecord
<1>3. worker' = [worker EXCEPT ![p] = [worker[p] EXCEPT !.pc = pc]]
  BY DEF Step
<1>4. WorkerBecomes(p, [worker[p] EXCEPT !.pc = pc])
  BY <1>2, <1>3, WorkerSet
<1>. QED  BY <1>1, <1>4 DEF WorkerBecomes, Keeps, WorkerRecord

\* A collector's run is over.
LEMMA StopSet ==
    ASSUME TreasuryTypeOK, NEW p \in Procs, Stop(p), jobs' \in Nat
    PROVE  WorkerBecomes(p, Idle) /\ Withdraws(p)
<1>1. Idle \in WorkerRecord
  BY DEF Idle, WorkerRecord, WorkerSteps
<1>2. WorkerBecomes(p, Idle)
  BY <1>1, WorkerSet DEF Stop
<1>. QED  BY <1>2 DEF WorkerBecomes, Withdraws, Idle

\* An intent is stored.
LEMMA StoredSet ==
    ASSUME TreasuryTypeOK, NEW coins \in SUBSET Coins, NEW by \in {"proceeds", "background"},
           NEW j \in Nat, intents' = Stored(coins, by, j)
    PROVE  /\ intents' \in Seq(IntentRecord) /\ Len(intents') = Len(intents) + 1
           /\ \A i \in Ids : intents'[i] = intents[i]
           /\ Ids' \ Ids = {Len(intents')}
           /\ intents'[Len(intents')].coins = coins /\ intents'[Len(intents')].by = by
           /\ intents'[Len(intents')].job = j /\ intents'[Len(intents')].arkd = "none"
<1> DEFINE r == [coins |-> coins, by |-> by, job |-> j, stored |-> "waiting_to_submit",
                 arkd |-> "none"]
<1>1. r \in IntentRecord /\ intents \in Seq(IntentRecord) /\ Len(intents) \in Nat
  BY DEF IntentRecord, TreasuryTypeOK
<1>2. intents' = Append(intents, r)
  BY DEF Stored
<1>. HIDE DEF r
<1>3. /\ intents' \in Seq(IntentRecord) /\ Len(intents') = Len(intents) + 1
      /\ intents'[Len(intents) + 1] = r /\ \A i \in Ids : intents'[i] = intents[i]
  BY <1>1, <1>2 DEF Ids
<1>4. Ids' \ Ids = {Len(intents')}
  BY <1>1, <1>3 DEF Ids
<1>. QED  BY <1>3, <1>4 DEF r

\* Only intent i is marked anew.
Marked(i, a) ==
    /\ intents' \in Seq(IntentRecord) /\ Len(intents') = Len(intents)
    /\ \A k \in Ids : k # i => intents'[k] = intents[k]
    /\ intents'[i].coins = intents[i].coins /\ intents'[i].by = intents[i].by
    /\ intents'[i].job = intents[i].job /\ intents'[i].arkd = a

\* An intent is replaced by one of other marks.
LEMMA IntentSet ==
    ASSUME TreasuryTypeOK, NEW i \in Ids,
           NEW s \in {"waiting_to_submit", "waiting_for_batch", "batch_succeeded", "cancelled"},
           NEW a \in {"none", "registered", "signed", "settled", "deleted"},
           intents' = [intents EXCEPT ![i] = [intents[i] EXCEPT !.stored = s, !.arkd = a]]
    PROVE  Marked(i, a)
<1> DEFINE r == [intents[i] EXCEPT !.stored = s, !.arkd = a]
<1>1. intents[i] \in IntentRecord /\ Len(intents) \in Nat
  BY DEF TreasuryTypeOK, Ids
<1>2. /\ r \in IntentRecord /\ r.coins = intents[i].coins /\ r.by = intents[i].by
      /\ r.job = intents[i].job /\ r.arkd = a
  BY <1>1 DEF IntentRecord
<1>. HIDE DEF r
<1>3. intents' = [intents EXCEPT ![i] = r]
  BY DEF r
<1>4. /\ intents' \in Seq(IntentRecord) /\ Len(intents') = Len(intents) /\ intents'[i] = r
      /\ \A k \in Ids : k # i => intents'[k] = intents[k]
  <2> DEFINE t == [intents EXCEPT ![i] = r]
  <2>1. intents \in Seq(IntentRecord) /\ i \in 1 .. Len(intents) /\ r \in IntentRecord
    BY <1>2 DEF TreasuryTypeOK, Ids
  <2>2. /\ t \in Seq(IntentRecord) /\ Len(t) = Len(intents)
        /\ \A k \in 1 .. Len(intents) : t[k] = IF k = i THEN r ELSE intents[k]
    BY <2>1
  <2>3. intents' = t
    BY <1>3
  <2>. HIDE DEF t
  <2>. QED  BY <2>1, <2>2, <2>3 DEF Ids
<1>. QED  BY <1>2, <1>4 DEF Marked

\* What leaves the store alone moves no intent.
LEMMA IntentsSame == ASSUME TreasuryTypeOK, intents' = intents PROVE IntentsMove
BY DEF IntentsMove, TreasuryTypeOK, Ids

\* Marks that neither forget what arkd had nor reopen what it ended.
LEMMA IntentMarked ==
    ASSUME TreasuryTypeOK, NEW i \in Ids, NEW a, Marked(i, a),
           intents[i].arkd # "none" => a # "none",
           intents[i].arkd = "settled" => a = "settled",
           intents[i].arkd = "none" /\ a # "none" => Registers(i),
           a \in {"registered", "signed"} => intents[i].arkd \in {"none", "registered", "signed"}
    PROVE  IntentsMove
<1>1. Ids' = Ids
  BY DEF Marked, Ids
<1>2. ASSUME NEW k \in Ids
      PROVE  /\ intents'[k].coins = intents[k].coins /\ intents'[k].by = intents[k].by
             /\ intents'[k].job = intents[k].job
             /\ intents[k].arkd # "none" => intents'[k].arkd # "none"
             /\ intents[k].arkd = "settled" => intents'[k].arkd = "settled"
             /\ intents[k].arkd = "none" /\ intents'[k].arkd # "none" => Registers(k)
             /\ intents'[k].arkd \in {"registered", "signed"} =>
                   intents[k].arkd \in {"none", "registered", "signed"}
  BY DEF Marked
<1>. QED  BY <1>1, <1>2 DEF IntentsMove, Marked

\* A collector moves, with what it writes to the job and the store.
LEMMA CollectorMoves ==
    ASSUME TreasuryTypeOK, Settlements, NEW p \in Procs,
           WorkerBecomes(p, worker'[p]), WorkerMoves(p), Enters(p) => JobEntered,
           job' \in JobRecord, jobs' \in Nat, JobMoves,
           intents' \in Seq(IntentRecord), IntentsMove,
           UNCHANGED <<coin, reserved, draft, renewal, wallet, since, up>>
    PROVE  Moves /\ SettledByTheirIntent' /\ (job'.inputs \in {{}, job.inputs} => InputsUnreserved')
<1>1. TreasuryTypeOK'
  BY DEF TreasuryTypeOK, WorkerBecomes
<1>2. Len(intents) \in Nat /\ Len(intents) <= Len(intents')
  BY DEF TreasuryTypeOK, IntentsMove
<1>3. ProcessesMove
  <2>1. \A q \in Procs : since[q] \in Int /\ since[q] <= Len(intents)
    BY DEF TreasuryTypeOK, Settlements, KnownIntents
  <2>2. \A q \in Procs : since'[q] <= Len(intents')
    BY <1>1, <1>2, <2>1 DEF TreasuryTypeOK
  <2>. QED  BY <2>2 DEF ProcessesMove, WorkerBecomes, WorkerMoves, RenewalMoves
<1>4. \A q \in Procs : Enters(q) => q = p
  BY DEF WorkerBecomes, Enters
<1>5. Moves
  <2>1. HoldsFresh
    BY DEF HoldsFresh, Held, JobMoves, JobKept, JobEntered, JobGone, JobCreated
  <2>. QED  BY <1>1, <1>3, <1>4, <2>1 DEF Moves
<1>6. SettledByTheirIntent'
  BY <1>2 DEF Settlements, SettledByTheirIntent, IntentsMove, Ids
<1>7. job'.inputs \in {{}, job.inputs} => InputsUnreserved'
  BY DEF Settlements, InputsUnreserved
<1>. QED  BY <1>5, <1>6, <1>7

\* The invariant, with its types.
TreasuryInv == TreasuryTypeOK /\ Settlements

\* A collector that moves alone keeps the invariant.
LEMMA CollectorAlone ==
    ASSUME TreasuryInv, NEW p \in Procs,
           WorkerBecomes(p, worker'[p]), WorkerMoves(p), ~Enters(p),
           job' \in JobRecord, JobKept,
           UNCHANGED <<coin, reserved, draft, jobs, intents, renewal, wallet, since, up>>
    PROVE  TreasuryInv'
<1>1. IntentsMove /\ intents' \in Seq(IntentRecord) /\ jobs' \in Nat
  BY IntentsSame DEF TreasuryInv, TreasuryTypeOK
<1>2. Moves /\ SettledByTheirIntent' /\ InputsUnreserved'
  BY <1>1, CollectorMoves DEF TreasuryInv, JobMoves, JobKept
<1>. QED  BY <1>2, MovesKeep DEF TreasuryInv, Moves

\* A job that is left alone is kept.
LEMMA JobSame == ASSUME job' = job, jobs' = jobs PROVE JobKept
BY DEF JobKept

\* A collector reads: the invariant holds.
LEMMA StartRunKeeps == ASSUME NEW p \in Procs, TreasuryInv, StartRun(p) PROVE TreasuryInv'
<1> DEFINE r == IF job = NoJob THEN [Idle EXCEPT !.pc = "discover", !.found = Live]
                ELSE [Idle EXCEPT !.pc = "claim", !.job = job.id]
<1>1. r \in WorkerRecord /\ r.pc \in {"discover", "claim"} /\ r.job \in {0, job.id} /\ r.intent = 0
  BY DEF TreasuryInv, TreasuryTypeOK, JobRecord, WorkerRecord, WorkerSteps, Idle, Live
<1>2. WorkerBecomes(p, r) /\ UNCHANGED <<job, jobs>>
  BY <1>1, WorkerSet DEF StartRun, TreasuryInv
<1>3. r.job <= jobs
  BY <1>1 DEF TreasuryInv, TreasuryTypeOK, JobRecord, Settlements, JobsNumbered
<1>4. Withdraws(p)
  BY <1>1, <1>2, <1>3 DEF WorkerBecomes, Withdraws
<1>. HIDE DEF r
<1>. QED  BY <1>2, <1>4, JobSame, CollectorAlone
          DEF StartRun, WorkerBecomes, WorkerMoves, Withdraws, Enters, TreasuryInv, TreasuryTypeOK

\* See StartRunKeeps.
LEMMA ReadReservationsKeeps ==
    ASSUME NEW p \in Procs, TreasuryInv, ReadReservations(p) PROVE TreasuryInv'
<1> DEFINE r == [worker[p] EXCEPT !.locks = reserved, !.pc = "plan"]
<1>1. worker[p] \in WorkerRecord /\ reserved \subseteq Coins /\ "plan" \in WorkerSteps
  BY DEF TreasuryInv, TreasuryTypeOK, WorkerSteps
<1>2. /\ r \in WorkerRecord /\ r.pc = "plan"
      /\ r.job = worker[p].job /\ r.intent = worker[p].intent
  BY <1>1 DEF WorkerRecord
<1>3. WorkerBecomes(p, r) /\ UNCHANGED <<job, jobs>>
  BY <1>2, WorkerSet DEF ReadReservations, TreasuryInv
<1>4. Withdraws(p)
  BY <1>2, <1>3 DEF WorkerBecomes, Withdraws, TreasuryInv, Settlements, JobsNumbered
<1>. HIDE DEF r
<1>. QED  BY <1>3, <1>4, JobSame, CollectorAlone
          DEF ReadReservations, WorkerBecomes, WorkerMoves, Withdraws, Enters, TreasuryInv,
              TreasuryTypeOK

\* See StartRunKeeps.
LEMMA ReadSdkLocksKeeps == ASSUME NEW p \in Procs, TreasuryInv, ReadSdkLocks(p) PROVE TreasuryInv'
<1> DEFINE r == [worker[p] EXCEPT !.sdk = SdkLocks, !.pc = "create"]
<1>1. worker[p] \in WorkerRecord /\ SdkLocks \subseteq Coins /\ "create" \in WorkerSteps
  <2>1. \A i \in Ids : intents[i].coins \subseteq Coins
    BY FieldsTyped DEF TreasuryInv
  <2>. QED  BY <2>1 DEF TreasuryInv, TreasuryTypeOK, SdkLocks, WorkerSteps
<1>2. /\ r \in WorkerRecord /\ r.pc = "create"
      /\ r.job = worker[p].job /\ r.intent = worker[p].intent
  BY <1>1 DEF WorkerRecord
<1>3. WorkerBecomes(p, r) /\ UNCHANGED <<job, jobs>>
  BY <1>2, WorkerSet DEF ReadSdkLocks, TreasuryInv
<1>4. Withdraws(p)
  BY <1>2, <1>3 DEF WorkerBecomes, Withdraws, TreasuryInv, Settlements, JobsNumbered
<1>. HIDE DEF r
<1>. QED  BY <1>3, <1>4, JobSame, CollectorAlone
          DEF ReadSdkLocks, WorkerBecomes, WorkerMoves, Withdraws, Enters, TreasuryInv, TreasuryTypeOK

\* A collector that goes to a step without a plan gives its plan up.
LEMMA StepWithdraws ==
    ASSUME TreasuryInv, NEW p \in Procs, NEW pc \in {"claim", "observe", "failed", "aged"},
           Step(p, pc), jobs' = jobs
    PROVE  /\ WorkerBecomes(p, worker'[p]) /\ Withdraws(p) /\ WorkerMoves(p) /\ ~Enters(p)
           /\ worker'[p].pc = pc
<1>1. pc \in WorkerSteps
  BY DEF WorkerSteps
<1>2. WorkerBecomes(p, [worker[p] EXCEPT !.pc = pc]) /\ worker'[p].pc = pc /\ Keeps(p)
  BY <1>1, StepSet DEF TreasuryInv
<1>3. Withdraws(p)
  BY <1>2 DEF Keeps, Withdraws, TreasuryInv, Settlements, JobsNumbered
<1>. QED  BY <1>2, <1>3 DEF WorkerBecomes, WorkerMoves, Enters

\* A run that is over has no plan.
LEMMA StopWithdraws ==
    ASSUME TreasuryInv, NEW p \in Procs, Stop(p), jobs' = jobs
    PROVE  /\ WorkerBecomes(p, worker'[p]) /\ Withdraws(p) /\ WorkerMoves(p) /\ ~Enters(p)
<1>1. WorkerBecomes(p, Idle) /\ Withdraws(p)
  BY StopSet DEF TreasuryInv, TreasuryTypeOK
<1>. QED  BY <1>1 DEF WorkerBecomes, WorkerMoves, Enters, Idle

\* A step along the plan.
LEMMA StepAdvances ==
    ASSUME TreasuryInv, NEW p \in Procs, NEW pc,
           <<worker[p].pc, pc>> \in
              {<<"queue", "guard">>, <<"remember", "submit">>, <<"submit", "enter">>},
           Step(p, pc)
    PROVE  WorkerBecomes(p, worker'[p]) /\ WorkerMoves(p) /\ ~Enters(p)
<1>1. pc \in WorkerSteps /\ pc # "register"
  BY DEF WorkerSteps
<1>2. WorkerBecomes(p, [worker[p] EXCEPT !.pc = pc]) /\ worker'[p].pc = pc /\ Keeps(p)
  BY <1>1, StepSet DEF TreasuryInv
<1>3. Advances(p)
  BY <1>2 DEF Advances
<1>. QED  BY <1>1, <1>2, <1>3 DEF WorkerBecomes, WorkerMoves, Enters

\* The lease is taken, or another has it.
LEMMA ClaimJobKeeps == ASSUME NEW p \in Procs, TreasuryInv, ClaimJob(p) PROVE TreasuryInv'
<1>1. JobKept /\ job' \in JobRecord
  BY DEF ClaimJob, JobKept, JobRecord, TreasuryInv, TreasuryTypeOK
<1>2. WorkerBecomes(p, worker'[p]) /\ WorkerMoves(p) /\ ~Enters(p)
  BY StepWithdraws, StopWithdraws DEF ClaimJob
<1>. QED  BY <1>1, <1>2, CollectorAlone DEF ClaimJob

\* The inputs are the active job's, if it is the worker's own.
LEMMA ObserveInputsKeeps == ASSUME NEW p \in Procs, TreasuryInv, ObserveInputs(p) PROVE TreasuryInv'
<1>1. JobKept /\ job' \in JobRecord
  BY JobSame DEF ObserveInputs, TreasuryInv, TreasuryTypeOK
<1>2. CASE Own(p) /\ PlanSound(job.inputs)
  <2> DEFINE r == [worker[p] EXCEPT !.plan = job.inputs, !.pc = "decide",
                                    !.seen = {coin[c] : c \in job.inputs}]
  <2>1. /\ worker[p] \in WorkerRecord /\ job.inputs \subseteq Coins /\ "decide" \in WorkerSteps
        /\ {coin[c] : c \in job.inputs} \subseteq CoinRecord
    BY DEF TreasuryInv, TreasuryTypeOK, JobRecord, WorkerSteps
  <2>2. /\ r \in WorkerRecord /\ r.pc = "decide" /\ r.plan = job.inputs
        /\ r.job = worker[p].job /\ r.intent = worker[p].intent
    BY <2>1 DEF WorkerRecord
  <2>3. WorkerBecomes(p, r)
    <3>1. worker' = [worker EXCEPT ![p] = r]
      BY <1>2 DEF ObserveInputs
    <3>. HIDE DEF r
    <3>. QED  BY <2>2, <3>1, WorkerSet DEF TreasuryInv
  <2>. HIDE DEF r
  <2>4. WorkerBecomes(p, worker'[p]) /\ Observes(p) /\ ~Enters(p)
    BY <2>2, <2>3 DEF WorkerBecomes, Observes, Enters
  <2>. QED  BY <1>1, <2>4, CollectorAlone DEF ObserveInputs, WorkerMoves
<1>3. CASE ~(Own(p) /\ PlanSound(job.inputs))
  <2>1. Step(p, "failed")
    BY <1>3 DEF ObserveInputs, Step
  <2>. QED  BY <1>1, <2>1, StepWithdraws, CollectorAlone DEF ObserveInputs
<1>. QED  BY <1>2, <1>3

\* Reconciliation goes on only with inputs no stored intent is unresolved on.
LEMMA Reconciled ==
    ASSUME TreasuryInv, NEW p \in Procs, worker[p].pc = "decide", Own(p)
    PROVE  /\ Reconcile(p) = "verify" =>
                \E i \in Ids : \A s \in worker[p].seen : s.by = i
           /\ Reconcile(p) = "retry" /\ ~job.entered => \A i \in Ids : ~Contends(i)
<1>1. ASSUME Reconcile(p) = "verify"
      PROVE  \E i \in Ids : \A s \in worker[p].seen : s.state = "settled" /\ s.by = i
  BY <1>1 DEF Reconcile
<1>2. ASSUME Reconcile(p) = "retry" PROVE ~Unresolved(p)
  BY <1>2 DEF Reconcile
<1>3. ASSUME ~Unresolved(p), ~job.entered, NEW i \in Ids, Contends(i) PROVE FALSE
  <2>1. worker[p].plan = job.inputs
    BY DEF TreasuryInv, Settlements, PlansTheInputs
  <2>2. i \in job.local
    BY <1>3, <2>1 DEF Unresolved, Contends
  <2>3. intents[i].job = job.id /\ job.id # 0
    BY <2>2 DEF TreasuryInv, Settlements, PlansTheInputs, Own
  <2>. QED  BY <1>3, <2>3 DEF TreasuryInv, Settlements, EnteredFirst, Contends
<1>. QED  BY <1>1, <1>2, <1>3

\* A job is verified, tried or set aside.
LEMMA DecideKeeps == ASSUME NEW p \in Procs, TreasuryInv, Decide(p) PROVE TreasuryInv'
<1>1. JobKept /\ job' \in JobRecord
  BY DEF Decide, JobKept, JobRecord, TreasuryInv, TreasuryTypeOK
<1>2. worker[p] \in WorkerRecord /\ {"confirm", "queue"} \subseteq WorkerSteps
  BY DEF TreasuryInv, TreasuryTypeOK, WorkerSteps
<1>3. CASE ~Own(p)
  BY <1>1, <1>3, StepWithdraws, CollectorAlone DEF Decide
<1>4. CASE Own(p) /\ Reconcile(p) = "verify"
  <2> DEFINE k == CHOOSE i \in Ids : \A s \in worker[p].seen : s.by = i
             r == [worker[p] EXCEPT !.pc = "confirm", !.seen = {}, !.intent = k]
  <2>1. k \in Ids
    BY <1>4, Reconciled DEF Decide
  <2>2. worker' = [worker EXCEPT ![p] = r]
    BY <1>4 DEF Decide
  <2>. HIDE DEF k
  <2>3. /\ r \in WorkerRecord /\ r.pc = "confirm" /\ r.plan = worker[p].plan
        /\ r.job = worker[p].job /\ r.intent = k
    <3>1. k \in Nat
      BY <2>1 DEF Ids, TreasuryInv, TreasuryTypeOK
    <3>. QED  BY <1>2, <3>1 DEF WorkerRecord
  <2>4. WorkerBecomes(p, r)
    BY <2>2, <2>3, WorkerSet DEF TreasuryInv
  <2>. HIDE DEF r
  <2>5. WorkerBecomes(p, worker'[p]) /\ Answered(p) /\ ~Enters(p)
    BY <2>1, <2>3, <2>4 DEF WorkerBecomes, Answered, Enters, Decide
  <2>. QED  BY <1>1, <2>5, CollectorAlone DEF Decide, WorkerMoves
<1>5. CASE Own(p) /\ Reconcile(p) = "retry"
  <2> DEFINE r == [worker[p] EXCEPT !.pc = "queue", !.seen = {}]
  <2>1. /\ r \in WorkerRecord /\ r.pc = "queue" /\ r.plan = worker[p].plan
        /\ r.job = worker[p].job /\ r.intent = worker[p].intent
    BY <1>2 DEF WorkerRecord
  <2>2. worker' = [worker EXCEPT ![p] = r]
    BY <1>5 DEF Decide
  <2>3. WorkerBecomes(p, r)
    BY <2>1, <2>2, WorkerSet DEF TreasuryInv
  <2>. HIDE DEF r
  <2>4. worker[p].pc = "decide"
    BY DEF Decide
  <2>5. WorkerBecomes(p, worker'[p]) /\ Clears(p) /\ ~Enters(p)
    BY <1>5, <2>1, <2>3, <2>4, Reconciled DEF WorkerBecomes, Clears, Keeps, Enters
  <2>. QED  BY <1>1, <2>5, CollectorAlone DEF Decide, WorkerMoves
<1>6. CASE Own(p) /\ Reconcile(p) \notin {"verify", "retry"}
  <2>1. Stop(p)
    BY <1>6 DEF Decide
  <2>. QED  BY <1>1, <2>1, StopWithdraws, CollectorAlone DEF Decide
<1>. QED  BY <1>3, <1>4, <1>5, <1>6

\* Steps along the plan, and those that give it up.
LEMMA QuietStepsKeep ==
    ASSUME NEW p \in Procs, TreasuryInv,
           \/ TakeTurn(p) \/ Fail(p) \/ Heartbeat(p)
           \/ \E expired \in BOOLEAN : GuardSubmit(p, expired)
    PROVE  TreasuryInv'
<1>1. JobKept /\ job' \in JobRecord
  BY DEF TakeTurn, GuardSubmit, Fail, Heartbeat, JobKept, JobRecord, TreasuryInv, TreasuryTypeOK
<1>2. CASE TakeTurn(p)
  BY <1>1, <1>2, StepAdvances, CollectorAlone DEF TakeTurn
<1>3. ASSUME NEW expired \in BOOLEAN, GuardSubmit(p, expired) PROVE TreasuryInv'
  <2>1. \/ Step(p, "enter") \/ Step(p, "failed") \/ Step(p, "aged")
    BY <1>3 DEF GuardSubmit
  <2>2. WorkerBecomes(p, worker'[p]) /\ WorkerMoves(p) /\ ~Enters(p)
    BY <1>3, <2>1, StepAdvances, StepWithdraws DEF GuardSubmit
  <2>. QED  BY <1>1, <1>3, <2>2, CollectorAlone DEF GuardSubmit
<1>4. CASE Fail(p)
  BY <1>1, <1>4, StepWithdraws, CollectorAlone DEF Fail
<1>5. CASE Heartbeat(p)
  <2>1. WorkerBecomes(p, worker'[p]) /\ worker'[p] = worker[p]
    BY <1>5 DEF Heartbeat, WorkerBecomes, TreasuryInv, TreasuryTypeOK
  <2>. QED  BY <1>1, <1>5, <2>1, CollectorAlone DEF Heartbeat, WorkerMoves, Enters
<1>. QED  BY <1>2, <1>3, <1>4, <1>5

\* An answer about the worker's intent leads to its confirmation.
LEMMA SettleReturnsKeeps == ASSUME NEW p \in Procs, TreasuryInv, SettleReturns(p) PROVE TreasuryInv'
<1>1. JobKept /\ job' \in JobRecord
  BY JobSame DEF SettleReturns, TreasuryInv, TreasuryTypeOK
<1>2. worker[p].intent \in Ids
  <2>1. worker[p].intent \in Nat /\ Len(intents) \in Nat
    BY FieldsTyped DEF TreasuryInv, TreasuryTypeOK
  <2>2. worker[p].intent <= Len(intents) /\ worker[p].intent # 0
    BY DEF SettleReturns, TreasuryInv, Settlements, KnownIntents
  <2>. QED  BY <2>1, <2>2 DEF Ids
<1>3. /\ WorkerBecomes(p, [worker[p] EXCEPT !.pc = "confirm"])
      /\ worker'[p].pc = "confirm" /\ Keeps(p)
  <2>1. "confirm" \in WorkerSteps
    BY DEF WorkerSteps
  <2>. QED  BY <2>1, StepSet DEF SettleReturns, TreasuryInv
<1>4. WorkerBecomes(p, worker'[p]) /\ Answered(p) /\ ~Enters(p)
  BY <1>2, <1>3 DEF WorkerBecomes, Keeps, Answered, Enters, SettleReturns
<1>. QED  BY <1>1, <1>4, CollectorAlone DEF SettleReturns, WorkerMoves

\* The job remembers an intent that is its own.
LEMMA RememberIntentKeeps ==
    ASSUME NEW p \in Procs, TreasuryInv, RememberIntent(p) PROVE TreasuryInv'
<1>1. CASE Own(p) /\ Leased(p) /\ ~job.entered
  <2>1. Step(p, "submit") /\ job' = [job EXCEPT !.local = @ \cup {worker[p].intent}]
    BY <1>1 DEF RememberIntent
  <2>2. worker[p].intent \in Ids /\ intents[worker[p].intent].job = job.id
    BY <1>1 DEF RememberIntent, Preparing, Own, TreasuryInv, Settlements, PreparedAlone
  <2>3. worker[p].intent \in Nat
    BY FieldsTyped DEF TreasuryInv
  <2>4. JobKept /\ job' \in JobRecord
    BY <2>1, <2>2, <2>3 DEF JobKept, JobRecord, TreasuryInv, TreasuryTypeOK, RememberIntent
  <2>5. WorkerBecomes(p, worker'[p]) /\ WorkerMoves(p) /\ ~Enters(p)
    BY <2>1, StepAdvances DEF RememberIntent
  <2>. QED  BY <2>4, <2>5, CollectorAlone DEF RememberIntent
<1>2. CASE ~(Own(p) /\ Leased(p) /\ ~job.entered)
  <2>1. Step(p, "failed") /\ job' = job /\ jobs' = jobs
    BY <1>2 DEF RememberIntent
  <2>2. JobKept /\ job' \in JobRecord
    BY <2>1, JobSame DEF TreasuryInv, TreasuryTypeOK
  <2>. QED  BY <2>1, <2>2, StepWithdraws, CollectorAlone DEF RememberIntent
<1>. QED  BY <1>1, <1>2

\* The job is entered once, by the worker whose own it is.
LEMMA EnterSubmissionKeeps ==
    ASSUME NEW p \in Procs, TreasuryInv, EnterSubmission(p) PROVE TreasuryInv'
<1>1. CASE Own(p) /\ Leased(p) /\ ~job.entered /\ worker[p].intent \in job.local
  <2>1. Step(p, "register") /\ job' = [job EXCEPT !.entered = TRUE] /\ worker[p].pc = "enter"
    BY <1>1 DEF EnterSubmission
  <2>2. "register" \in WorkerSteps
    BY DEF WorkerSteps
  <2>3. /\ WorkerBecomes(p, [worker[p] EXCEPT !.pc = "register"])
        /\ worker'[p].pc = "register" /\ Keeps(p)
    BY <2>1, <2>2, StepSet DEF TreasuryInv
  <2>4. Enters(p)
    BY <1>1, <2>1, <2>3 DEF Enters
  <2>5. job' \in JobRecord /\ JobEntered /\ jobs' \in Nat /\ job'.inputs = job.inputs
    BY <2>1, <2>4 DEF JobEntered, JobRecord, EnterSubmission, TreasuryInv, TreasuryTypeOK
  <2>6. IntentsMove /\ intents' \in Seq(IntentRecord)
    BY IntentsSame DEF EnterSubmission, TreasuryInv, TreasuryTypeOK
  <2>7. WorkerBecomes(p, worker'[p])
    BY <2>3 DEF WorkerBecomes
  <2>8. Moves /\ SettledByTheirIntent' /\ InputsUnreserved'
    BY <2>4, <2>5, <2>6, <2>7, CollectorMoves DEF EnterSubmission, TreasuryInv, WorkerMoves, JobMoves
  <2>. QED  BY <2>8, MovesKeep DEF TreasuryInv, Moves
<1>2. CASE ~(Own(p) /\ Leased(p) /\ ~job.entered /\ worker[p].intent \in job.local)
  <2>1. Step(p, "failed") /\ job' = job /\ jobs' = jobs
    BY <1>2 DEF EnterSubmission
  <2>2. JobKept /\ job' \in JobRecord
    BY <2>1, JobSame DEF TreasuryInv, TreasuryTypeOK
  <2>. QED  BY <2>1, <2>2, StepWithdraws, CollectorAlone DEF EnterSubmission
<1>. QED  BY <1>1, <1>2

\* The settlement of a guarded plan stores its intent first.
LEMMA GuardKeeps ==
    ASSUME NEW p \in Procs, NEW expired \in BOOLEAN, TreasuryInv, Guard(p, expired)
    PROVE  TreasuryInv'
<1>1. CASE Guarded(p) /\ ~Aged(p, expired)
  <2> DEFINE n == Len(intents) + 1
             r == [worker[p] EXCEPT !.pc = "remember", !.intent = n]
  <2>1. /\ job' = [job EXCEPT !.state = "settling"] /\ jobs' = jobs
        /\ intents' = Stored(worker[p].plan, "proceeds", worker[p].job)
        /\ worker' = [worker EXCEPT ![p] = r]
        /\ worker[p].pc = "guard" /\ Own(p)
    BY <1>1 DEF Guard, Guarded
  <2>2. JobKept /\ job' \in JobRecord /\ jobs' \in Nat
    BY <2>1 DEF JobKept, JobRecord, TreasuryInv, TreasuryTypeOK
  <2>3. worker[p] \in WorkerRecord /\ n \in Nat /\ "remember" \in WorkerSteps
    BY DEF TreasuryInv, TreasuryTypeOK, WorkerSteps
  <2>. HIDE DEF n
  <2>4. /\ r \in WorkerRecord /\ r.pc = "remember" /\ r.plan = worker[p].plan
        /\ r.job = worker[p].job /\ r.intent = n
    BY <2>3 DEF WorkerRecord
  <2>5. worker[p].plan \in SUBSET Coins /\ worker[p].job \in Nat /\ worker[p].job # 0
    BY <2>1, <2>3 DEF WorkerRecord, Own
  <2>6. WorkerBecomes(p, r)
    BY <2>1, <2>4, WorkerSet DEF TreasuryInv
  <2>. HIDE DEF r
  <2>7. /\ intents' \in Seq(IntentRecord) /\ Len(intents') = Len(intents) + 1
        /\ \A i \in Ids : intents'[i] = intents[i]
        /\ Ids' \ Ids = {Len(intents')}
        /\ intents'[Len(intents')].coins = worker[p].plan
        /\ intents'[Len(intents')].by = "proceeds"
        /\ intents'[Len(intents')].job = worker[p].job
        /\ intents'[Len(intents')].arkd = "none"
    BY <2>1, <2>5, StoredSet DEF TreasuryInv
  <2>8. WorkerBecomes(p, worker'[p]) /\ Stores(p) /\ ~Enters(p)
    BY <2>1, <2>4, <2>6, <2>7 DEF WorkerBecomes, Stores, Enters, n
  <2>9. IntentsMove
    BY <2>5, <2>7, <2>8 DEF IntentsMove, Adds
  <2>10. Moves /\ SettledByTheirIntent' /\ InputsUnreserved'
    BY <2>2, <2>7, <2>8, <2>9, CollectorMoves DEF Guard, TreasuryInv, WorkerMoves, JobMoves, JobKept
  <2>. QED  BY <2>10, MovesKeep DEF TreasuryInv, Moves
<1>2. CASE ~(Guarded(p) /\ ~Aged(p, expired))
  <2>1. /\ Step(p, "failed") \/ Step(p, "aged")
        /\ job' = job /\ jobs' = jobs /\ intents' = intents
    BY <1>2 DEF Guard
  <2>2. JobKept /\ job' \in JobRecord
    BY <2>1, JobSame DEF TreasuryInv, TreasuryTypeOK
  <2>. QED  BY <2>1, <2>2, StepWithdraws, CollectorAlone DEF Guard
<1>. QED  BY <1>1, <1>2

\* The one registration of an intent, that may be lost on either way.
LEMMA RegisterKeeps ==
    ASSUME NEW p \in Procs, NEW arrives \in BOOLEAN, NEW answered \in BOOLEAN,
           TreasuryInv, Register(p, arrives, answered)
    PROVE  TreasuryInv'
<1> DEFINE i == worker[p].intent
           a == IF arrives THEN "registered" ELSE intents[i].arkd
           s == IF answered THEN "waiting_for_batch" ELSE intents[i].stored
<1>1. worker[p].pc = "register" /\ i \in Ids /\ intents[i].arkd = "none"
  BY DEF Register, TreasuryInv, Settlements, PreparedAlone, Preparing, Reached
<1>2. /\ s \in {"waiting_to_submit", "waiting_for_batch", "batch_succeeded", "cancelled"}
      /\ a \in {"none", "registered"}
  <2>1. intents[i] \in IntentRecord
    BY <1>1 DEF TreasuryInv, TreasuryTypeOK, Ids
  <2>. QED  BY <1>1, <2>1 DEF IntentRecord
<1>3. intents' = [intents EXCEPT ![i] = [intents[i] EXCEPT !.stored = s, !.arkd = a]]
  BY <1>1 DEF Register, TreasuryInv, TreasuryTypeOK, IntentRecord, Ids
<1>. HIDE DEF a, s
<1>4. Marked(i, a)
  BY <1>1, <1>2, <1>3, IntentSet DEF TreasuryInv
<1>5. /\ WorkerBecomes(p, worker'[p]) /\ WorkerMoves(p) /\ ~Enters(p)
      /\ worker'[p].pc \in {"batch", "failed"}
  <2>1. CASE answered
    <3>1. "batch" \in WorkerSteps /\ Step(p, "batch")
      BY <2>1 DEF WorkerSteps, Register
    <3>2. WorkerBecomes(p, [worker[p] EXCEPT !.pc = "batch"]) /\ worker'[p].pc = "batch" /\ Keeps(p)
      BY <3>1, StepSet DEF TreasuryInv
    <3>3. Answered(p)
      BY <1>1, <3>2 DEF Answered, Keeps
    <3>. QED  BY <3>2, <3>3 DEF WorkerBecomes, WorkerMoves, Enters
  <2>2. CASE ~answered
    BY <2>2, StepWithdraws DEF Register
  <2>. QED  BY <2>1, <2>2
<1>6. Registers(i)
  BY <1>1, <1>5 DEF Registers, Preparing
<1>7. IntentsMove
  BY <1>1, <1>2, <1>4, <1>6, IntentMarked DEF TreasuryInv
<1>8. JobKept /\ job' \in JobRecord /\ jobs' \in Nat /\ job'.inputs = job.inputs
  BY JobSame DEF Register, TreasuryInv, TreasuryTypeOK
<1>9. Moves /\ SettledByTheirIntent' /\ InputsUnreserved'
  BY <1>4, <1>5, <1>7, <1>8, CollectorMoves DEF Register, TreasuryInv, JobMoves, Marked
<1>. QED  BY <1>9, MovesKeep DEF TreasuryInv, Moves

\* A run that is over leaves the job or ends it when nothing of it is open.
LEMMA CollectorStops ==
    ASSUME TreasuryInv, NEW p \in Procs, Stop(p),
           job' \in JobRecord, jobs' = jobs,
           JobKept \/ (job' = NoJob /\ NoneOpen),
           intents' \in Seq(IntentRecord), IntentsMove,
           UNCHANGED <<coin, reserved, draft, renewal, wallet, since, up>>
    PROVE  TreasuryInv'
<1>1. WorkerBecomes(p, worker'[p]) /\ Withdraws(p) /\ WorkerMoves(p) /\ ~Enters(p)
  BY StopWithdraws
<1>2. CASE JobKept
  <2>1. Moves /\ SettledByTheirIntent' /\ InputsUnreserved'
    BY <1>1, <1>2, CollectorMoves DEF TreasuryInv, TreasuryTypeOK, JobMoves, JobKept
  <2>. QED  BY <2>1, MovesKeep DEF TreasuryInv, Moves
<1>3. CASE job' = NoJob /\ NoneOpen
  <2>1. JobGone /\ job'.inputs = {}
    BY <1>1, <1>3 DEF JobGone, NoJob, WorkerBecomes
  <2>2. Moves /\ SettledByTheirIntent' /\ InputsUnreserved'
    BY <1>1, <2>1, CollectorMoves DEF TreasuryInv, TreasuryTypeOK, JobMoves
  <2>. QED  BY <2>2, MovesKeep DEF TreasuryInv, Moves
<1>. QED  BY <1>2, <1>3

\* No job is one.
LEMMA NoJobTyped == NoJob \in JobRecord
BY DEF NoJob, JobRecord

\* A job completes once the intent that contended for its inputs has settled them.
LEMMA ConfirmOutputKeeps ==
    ASSUME NEW p \in Procs, NEW outputs \in BOOLEAN, TreasuryInv, ConfirmOutput(p, outputs)
    PROVE  TreasuryInv'
<1>1. /\ Stop(p) /\ jobs' = jobs /\ intents' \in Seq(IntentRecord) /\ IntentsMove
      /\ worker[p].pc = "confirm"
  BY IntentsSame DEF ConfirmOutput, TreasuryInv, TreasuryTypeOK
<1>2. CASE outputs /\ SettledInputs(p) /\ Own(p)
  <2> DEFINE k == worker[p].intent
  <2>1. worker[p].plan = job.inputs /\ job.inputs # {} /\ job.inputs \subseteq Coins
    BY <1>1, <1>2, FieldsTyped DEF TreasuryInv, Settlements, PlansTheInputs, JobsNumbered, Own
  <2>2. PICK c \in job.inputs : coin[c].by = k
    BY <1>2, <2>1 DEF SettledInputs
  <2>3. k # 0
    BY <1>1 DEF TreasuryInv, Settlements, KnownIntents
  <2>4. k \in Ids /\ intents[k].arkd = "settled" /\ c \in intents[k].coins
    BY <2>1, <2>2, <2>3 DEF TreasuryInv, Settlements, SettledByTheirIntent
  <2>5. Contends(k) /\ ~Offered(k)
    BY <2>2, <2>4 DEF Contends, Threatens, Reached, Offered
  <2>6. ~Submitting(k)
    BY <2>4 DEF Submitting, Preparing, Reached, TreasuryInv, Settlements, PreparedAlone
  <2>7. ASSUME NEW i \in Ids, intents[i].job # 0, Offered(i) \/ Submitting(i) PROVE FALSE
    <3>1. job.id = intents[i].job /\ job.entered
      BY <2>7 DEF TreasuryInv, Settlements, OpenOffersHaveTheirJob
    <3>2. intents[i].coins = job.inputs
      BY <2>7, <3>1 DEF TreasuryInv, Settlements, PlansTheInputs
    <3>3. Contends(i)
      BY <2>1, <2>7, <3>2 DEF Contends, Threatens, Reached, Offered
    <3>4. i = k
      BY <2>4, <2>5, <3>1, <3>3 DEF TreasuryInv, Settlements, OneContender
    <3>. QED  BY <2>5, <2>6, <2>7, <3>4
  <2>8. NoneOpen /\ job' = NoJob
    BY <1>2, <2>7 DEF NoneOpen, ConfirmOutput
  <2>. QED  BY <1>1, <2>8, NoJobTyped, CollectorStops DEF ConfirmOutput
<1>3. CASE ~(outputs /\ SettledInputs(p) /\ Own(p))
  <2>1. JobKept /\ job' \in JobRecord
    BY <1>3 DEF ConfirmOutput, JobKept, JobRecord, TreasuryInv, TreasuryTypeOK
  <2>. QED  BY <1>1, <2>1, CollectorStops DEF ConfirmOutput
<1>. QED  BY <1>2, <1>3

\* A job is cancelled only before it is entered: then nothing of it is open.
LEMMA CatchKeeps ==
    ASSUME NEW p \in Procs, NEW withdrawn \in BOOLEAN, NEW cleaned \in BOOLEAN,
           TreasuryInv, Catch(p, withdrawn, cleaned)
    PROVE  TreasuryInv'
<1>1. IntentsMove /\ intents' \in Seq(IntentRecord)
  <2> DEFINE i == worker[p].intent
  <2>1. CASE i = 0
    BY <2>1, IntentsSame DEF Catch, TreasuryInv, TreasuryTypeOK
  <2>2. CASE i # 0
    <3> DEFINE a == IF withdrawn /\ intents[i].arkd = "registered" THEN "deleted" ELSE intents[i].arkd
               s == IF cleaned /\ intents[i].stored \in Waiting THEN "cancelled" ELSE intents[i].stored
    <3>1. i \in Ids
      <4>1. i \in Nat /\ Len(intents) \in Nat /\ i <= Len(intents)
        BY FieldsTyped DEF TreasuryInv, TreasuryTypeOK, Settlements, KnownIntents
      <4>. QED  BY <2>2, <4>1 DEF Ids
    <3>2. intents[i] \in IntentRecord
      BY <3>1 DEF TreasuryInv, TreasuryTypeOK, Ids
    <3>3. intents' = [intents EXCEPT ![i] = [intents[i] EXCEPT !.stored = s, !.arkd = a]]
      BY <2>2, <3>1, <3>2 DEF Catch, TreasuryInv, TreasuryTypeOK, IntentRecord, Ids
    <3>4. /\ s \in {"waiting_to_submit", "waiting_for_batch", "batch_succeeded", "cancelled"}
          /\ a \in {"none", "registered", "signed", "settled", "deleted"}
          /\ a = intents[i].arkd \/ (a = "deleted" /\ intents[i].arkd = "registered")
      BY <3>2 DEF IntentRecord
    <3>. HIDE DEF a, s, i
    <3>5. Marked(i, a)
      BY <3>1, <3>3, <3>4, IntentSet DEF TreasuryInv
    <3>6. IntentsMove
      BY <3>1, <3>4, <3>5, IntentMarked DEF TreasuryInv
    <3>. QED  BY <3>5, <3>6 DEF Marked
  <2>. QED  BY <2>1, <2>2
<1>2. CASE job # NoJob /\ worker[p].pc = "aged" /\ ~job.entered
  <2>1. NoneOpen
    BY <1>2 DEF NoneOpen, TreasuryInv, Settlements, OpenOffersHaveTheirJob
  <2>2. job' = NoJob
    BY <1>2 DEF Catch, Cancellable
  <2>. QED  BY <1>1, <2>1, <2>2, NoJobTyped, CollectorStops DEF Catch
<1>3. CASE ~(job # NoJob /\ worker[p].pc = "aged" /\ ~job.entered)
  <2>1. job' = job \/ job' = [job EXCEPT !.state = "quarantined"]
    BY <1>3 DEF Catch, Cancellable
  <2>2. JobKept /\ job' \in JobRecord
    BY <2>1 DEF Catch, JobKept, JobRecord, TreasuryInv, TreasuryTypeOK
  <2>. QED  BY <1>1, <2>2, CollectorStops DEF Catch
<1>. QED  BY <1>2, <1>3

\* A job is created of coins that no quote has reserved since they were read.
LEMMA CreateJobKeeps ==
    ASSUME NEW p \in Procs, NEW coins, TreasuryInv, CreateJob(p, coins) PROVE TreasuryInv'
<1>1. /\ coins # {} /\ coins \subseteq Coins /\ coins \cap worker[p].locks = {}
      /\ \A c \in coins \ Receipts : ~coin[c].aged
      /\ job = NoJob
  BY DEF CreateJob, ProceedsPlan, SplitPlan, PlanSound, Free, TreasuryInv, TreasuryTypeOK, WorkerRecord
<1>2. IntentsMove /\ intents' \in Seq(IntentRecord)
  BY IntentsSame DEF CreateJob, TreasuryInv, TreasuryTypeOK
<1>3. CASE reserved = worker[p].locks
  <2> DEFINE n == jobs + 1
             r == [Idle EXCEPT !.job = n, !.pc = "claim"]
  <2>1. /\ jobs' = n /\ worker' = [worker EXCEPT ![p] = r]
        /\ job' = [NoJob EXCEPT !.id = n, !.inputs = coins, !.state = "pending"]
    BY <1>3 DEF CreateJob
  <2>2. n \in Nat /\ n # 0 /\ jobs \in Nat /\ n = jobs + 1
    BY DEF TreasuryInv, TreasuryTypeOK
  <2>. HIDE DEF n
  <2>3. /\ job' \in JobRecord /\ job'.id = n /\ job'.inputs = coins /\ ~job'.entered
        /\ job'.local = {}
    BY <1>1, <2>1, <2>2 DEF JobRecord, NoJob
  <2>4. r \in WorkerRecord /\ r.pc = "claim" /\ r.job = n /\ r.intent = 0
    BY <2>2 DEF WorkerRecord, WorkerSteps, Idle
  <2>5. WorkerBecomes(p, r)
    BY <2>1, <2>4, WorkerSet DEF TreasuryInv
  <2>. HIDE DEF r
  <2>6. WorkerBecomes(p, worker'[p]) /\ Withdraws(p) /\ ~Enters(p)
    BY <2>1, <2>2, <2>4, <2>5 DEF WorkerBecomes, Withdraws, Enters
  <2>7. JobCreated
    BY <1>1, <2>1, <2>2, <2>3, <2>6 DEF JobCreated, CreateJob, NoJob, WorkerBecomes
  <2>8. Moves /\ SettledByTheirIntent'
    BY <1>2, <2>1, <2>2, <2>3, <2>6, <2>7, CollectorMoves
    DEF CreateJob, TreasuryInv, WorkerMoves, JobMoves
  <2>9. InputsUnreserved'
    BY <1>1, <1>3, <2>3 DEF InputsUnreserved, CreateJob
  <2>. QED  BY <2>8, <2>9, MovesKeep DEF TreasuryInv, Moves
<1>4. CASE reserved # worker[p].locks
  <2>1. Stop(p) /\ job' = job /\ jobs' = jobs
    BY <1>4 DEF CreateJob
  <2>2. JobKept /\ job' \in JobRecord
    BY <2>1, JobSame DEF TreasuryInv, TreasuryTypeOK
  <2>. QED  BY <1>2, <2>1, <2>2, CollectorStops DEF CreateJob
<1>. QED  BY <1>3, <1>4

\* Only p's background settlement moves, to this record.
RenewalBecomes(p, r) ==
    /\ renewal' \in [Procs -> RenewalRecord] /\ renewal'[p] = r
    /\ \A q \in Procs : q # p => renewal'[q] = renewal[q]

\* A background settlement is replaced by another record.
LEMMA RenewalSet ==
    ASSUME TreasuryTypeOK, NEW p \in Procs, NEW r \in RenewalRecord,
           renewal' = [renewal EXCEPT ![p] = r]
    PROVE  RenewalBecomes(p, r)
BY DEF TreasuryTypeOK, RenewalBecomes

\* A background settlement goes to its next step.
LEMMA RenewalStepSet ==
    ASSUME TreasuryTypeOK, NEW p \in Procs, NEW pc \in {"register", "end"},
           renewal' = [renewal EXCEPT ![p].pc = pc]
    PROVE  /\ RenewalBecomes(p, renewal'[p]) /\ renewal'[p].pc = pc
           /\ renewal'[p].coins = renewal[p].coins /\ renewal'[p].intent = renewal[p].intent
<1> DEFINE r == [renewal[p] EXCEPT !.pc = pc]
<1>1. renewal[p] \in RenewalRecord
  BY DEF TreasuryTypeOK
<1>2. /\ r \in RenewalRecord /\ r.pc = pc
      /\ r.coins = renewal[p].coins /\ r.intent = renewal[p].intent
  BY <1>1 DEF RenewalRecord
<1>3. renewal' = [renewal EXCEPT ![p] = r]
  OBVIOUS
<1>. HIDE DEF r
<1>4. RenewalBecomes(p, r)
  BY <1>2, <1>3, RenewalSet
<1>. QED  BY <1>2, <1>4 DEF RenewalBecomes

\* A background settlement moves, with what it writes to the store.
LEMMA BackgroundMoves ==
    ASSUME TreasuryInv, NEW p \in Procs,
           RenewalBecomes(p, renewal'[p]), RenewalMoves(p), wallet' \in [Procs -> Nat],
           intents' \in Seq(IntentRecord), IntentsMove,
           UNCHANGED <<coin, reserved, draft, job, jobs, worker, since, up>>
    PROVE  TreasuryInv'
<1>1. TreasuryTypeOK'
  BY DEF TreasuryInv, TreasuryTypeOK, RenewalBecomes
<1>2. Len(intents) \in Nat /\ Len(intents) <= Len(intents')
  BY DEF TreasuryInv, TreasuryTypeOK, IntentsMove
<1>3. ProcessesMove
  <2>1. \A q \in Procs : since[q] \in Int /\ since[q] <= Len(intents)
    BY DEF TreasuryInv, TreasuryTypeOK, Settlements, KnownIntents
  <2>2. \A q \in Procs : since'[q] <= Len(intents')
    BY <1>1, <1>2, <2>1 DEF TreasuryTypeOK
  <2>. QED  BY <2>2 DEF ProcessesMove, RenewalBecomes, WorkerMoves, RenewalMoves
<1>4. \A q \in Procs : ~Enters(q)
  BY DEF Enters
<1>5. JobMoves
  BY JobSame DEF JobMoves
<1>6. Moves
  <2>1. HoldsFresh
    BY DEF HoldsFresh, Held
  <2>. QED  BY <1>1, <1>3, <1>4, <1>5, <2>1 DEF Moves, TreasuryInv
<1>7. SettledByTheirIntent' /\ InputsUnreserved'
  BY <1>2 DEF TreasuryInv, Settlements, SettledByTheirIntent, InputsUnreserved, IntentsMove, Ids
<1>. QED  BY <1>1, <1>6, <1>7, MovesKeep DEF TreasuryInv

\* The steps that leave the collectors' and the renewals' records alone.
LEMMA StoreMoves ==
    ASSUME TreasuryInv, wallet' \in [Procs -> Nat], intents' \in Seq(IntentRecord), IntentsMove,
           NEW p \in Procs,
           UNCHANGED <<coin, reserved, draft, job, jobs, worker, renewal, since, up>>
    PROVE  TreasuryInv'
<1>1. RenewalBecomes(p, renewal'[p]) /\ RenewalMoves(p)
  BY DEF RenewalBecomes, RenewalMoves, TreasuryInv, TreasuryTypeOK
<1>. QED  BY <1>1, BackgroundMoves

\* Resting is a record of the background.
LEMMA RestingTyped == Resting \in RenewalRecord /\ Resting.pc = "idle"
BY DEF Resting, RenewalRecord

\* The background reads what it may renew.
LEMMA RenewReadKeeps ==
    ASSUME NEW p \in Procs, NEW coins, TreasuryInv, RenewRead(p, coins) PROVE TreasuryInv'
<1> DEFINE r == [pc |-> "queue", coins |-> coins, wallet |-> wallet[p], intent |-> 0]
<1>1. wallet[p] \in Nat /\ coins \subseteq Coins
  BY DEF RenewRead, Renewable, Live, TreasuryInv, TreasuryTypeOK
<1>2. r \in RenewalRecord /\ r.pc = "queue"
  BY <1>1 DEF RenewalRecord
<1>3. RenewalBecomes(p, r)
  BY <1>2, RenewalSet DEF RenewRead, TreasuryInv
<1>. HIDE DEF r
<1>4. RenewalBecomes(p, renewal'[p]) /\ RenewalMoves(p)
  <2>1. r.coins = coins /\ Unheld(coins)
    BY DEF r, RenewRead, Renewable, Unheld
  <2>. QED  BY <1>2, <1>3, <2>1 DEF RenewalBecomes, RenewalMoves
<1>5. IntentsMove /\ intents' \in Seq(IntentRecord) /\ wallet' \in [Procs -> Nat]
  BY IntentsSame DEF RenewRead, TreasuryInv, TreasuryTypeOK
<1>. QED  BY <1>4, <1>5, BackgroundMoves DEF RenewRead

\* In its turn it stores the intent of these coins.
LEMMA RenewTurnKeeps == ASSUME NEW p \in Procs, TreasuryInv, RenewTurn(p) PROVE TreasuryInv'
<1>1. wallet' \in [Procs -> Nat]
  BY DEF RenewTurn, TreasuryInv, TreasuryTypeOK
<1>2. CASE renewal[p].wallet # wallet[p]
  <2>1. renewal' = [renewal EXCEPT ![p] = Resting] /\ intents' = intents
    BY <1>2 DEF RenewTurn
  <2>2. RenewalBecomes(p, renewal'[p]) /\ RenewalMoves(p)
    BY <2>1, RestingTyped, RenewalSet DEF RenewalBecomes, RenewalMoves, TreasuryInv
  <2>3. IntentsMove /\ intents' \in Seq(IntentRecord)
    BY <2>1, IntentsSame DEF TreasuryInv, TreasuryTypeOK
  <2>. QED  BY <1>1, <2>2, <2>3, BackgroundMoves DEF RenewTurn
<1>3. CASE renewal[p].wallet = wallet[p]
  <2> DEFINE n == Len(intents) + 1
             r == [renewal[p] EXCEPT !.pc = "check", !.intent = n]
  <2>1. /\ intents' = Stored(renewal[p].coins, "background", 0) /\ renewal[p].pc = "queue"
        /\ renewal' = [renewal EXCEPT ![p] = r]
    BY <1>3 DEF RenewTurn
  <2>2. renewal[p] \in RenewalRecord /\ n \in Nat
    BY DEF TreasuryInv, TreasuryTypeOK
  <2>3. n = Len(intents) + 1
    OBVIOUS
  <2>. HIDE DEF n
  <2>4. r \in RenewalRecord /\ r.pc = "check" /\ r.intent = n /\ r.coins = renewal[p].coins
    BY <2>2 DEF RenewalRecord
  <2>5. RenewalBecomes(p, r)
    BY <2>1, <2>4, RenewalSet DEF TreasuryInv
  <2>. HIDE DEF r
  <2>6. renewal[p].coins \in SUBSET Coins
    BY <2>2 DEF RenewalRecord
  <2>7. /\ intents' \in Seq(IntentRecord) /\ Len(intents') = Len(intents) + 1
        /\ \A i \in Ids : intents'[i] = intents[i]
        /\ Ids' \ Ids = {Len(intents')}
        /\ intents'[Len(intents')].coins = renewal[p].coins
        /\ intents'[Len(intents')].by = "background"
        /\ intents'[Len(intents')].job = 0
        /\ intents'[Len(intents')].arkd = "none"
    BY <2>1, <2>6, StoredSet DEF TreasuryInv
  <2>8. RenewalBecomes(p, renewal'[p]) /\ RenewStores(p)
    BY <2>1, <2>3, <2>4, <2>5, <2>7 DEF RenewalBecomes, RenewStores
  <2>9. IntentsMove
    BY <2>7, <2>8 DEF IntentsMove, Adds
  <2>. QED  BY <1>1, <2>7, <2>8, <2>9, BackgroundMoves DEF RenewTurn, RenewalMoves
<1>. QED  BY <1>2, <1>3

\* It goes on to send it only if nobody holds a coin of it.
LEMMA RenewCheckKeeps == ASSUME NEW p \in Procs, TreasuryInv, RenewCheck(p) PROVE TreasuryInv'
<1>1. PICK pc \in {"register", "end"} :
         renewal' = [renewal EXCEPT ![p].pc = pc] /\ (pc = "register" => MayRenew(p))
  BY DEF RenewCheck
<1>2. /\ RenewalBecomes(p, renewal'[p]) /\ renewal'[p].pc = pc
      /\ renewal'[p].coins = renewal[p].coins /\ renewal'[p].intent = renewal[p].intent
  BY <1>1, RenewalStepSet DEF TreasuryInv
<1>3. RenewalMoves(p)
  BY <1>1, <1>2 DEF RenewalMoves, RenewSends, RenewCheck, MayRenew, Held, Renewing
<1>4. IntentsMove /\ intents' \in Seq(IntentRecord) /\ wallet' \in [Procs -> Nat]
  BY IntentsSame DEF RenewCheck, TreasuryInv, TreasuryTypeOK
<1>. QED  BY <1>2, <1>3, <1>4, BackgroundMoves DEF RenewCheck

\* Its intent reaches arkd.
LEMMA RenewRegisterKeeps == ASSUME NEW p \in Procs, TreasuryInv, RenewRegister(p) PROVE TreasuryInv'
<1> DEFINE i == renewal[p].intent
           r == [renewal[p] EXCEPT !.pc = "batch"]
<1>1. renewal[p].pc = "register" /\ i \in Ids /\ intents[i].arkd = "none"
  BY DEF RenewRegister, TreasuryInv, Settlements, PreparedAlone, KnownIntents, Renewing, Reached
<1>2. intents[i] \in IntentRecord /\ renewal[p] \in RenewalRecord
  BY <1>1 DEF TreasuryInv, TreasuryTypeOK, Ids
<1>3. r \in RenewalRecord /\ r.pc = "batch" /\ r.intent = i /\ r.coins = renewal[p].coins
  BY <1>2 DEF RenewalRecord
<1>4. RenewalBecomes(p, r)
  <2>1. renewal' = [renewal EXCEPT ![p] = r]
    BY DEF RenewRegister
  <2>. HIDE DEF r
  <2>. QED  BY <1>3, <2>1, RenewalSet DEF TreasuryInv
<1>. HIDE DEF r
<1>5. RenewalBecomes(p, renewal'[p]) /\ RenewalMoves(p) /\ Registers(i)
  BY <1>1, <1>3, <1>4 DEF RenewalBecomes, RenewalMoves, Registers, Renewing
<1>6. intents' = [intents EXCEPT ![i] =
                     [intents[i] EXCEPT !.stored = "waiting_for_batch", !.arkd = "registered"]]
  BY <1>1, <1>2 DEF RenewRegister, TreasuryInv, TreasuryTypeOK, IntentRecord, Ids
<1>. HIDE DEF i
<1>7. Marked(i, "registered")
  BY <1>1, <1>6, IntentSet DEF TreasuryInv
<1>8. IntentsMove /\ intents' \in Seq(IntentRecord) /\ wallet' \in [Procs -> Nat]
  BY <1>1, <1>5, <1>7, IntentMarked DEF RenewRegister, TreasuryInv, TreasuryTypeOK, Marked
<1>. QED  BY <1>5, <1>8, BackgroundMoves DEF RenewRegister

\* Intents that are taken back, at arkd or only in the store.
LEMMA WithdrawalMarks ==
    ASSUME TreasuryInv, NEW i \in Ids,
           NEW s \in {"waiting_to_submit", "waiting_for_batch", "batch_succeeded", "cancelled"},
           NEW a, a = intents[i].arkd \/ (a = "deleted" /\ intents[i].arkd \in {"registered", "signed"}),
           intents' = [intents EXCEPT ![i] = [intents[i] EXCEPT !.stored = s, !.arkd = a]]
    PROVE  IntentsMove /\ intents' \in Seq(IntentRecord) /\ Marked(i, a)
<1>1. intents[i] \in IntentRecord
  BY DEF TreasuryInv, TreasuryTypeOK, Ids
<1>2. a \in {"none", "registered", "signed", "settled", "deleted"}
  BY <1>1 DEF IntentRecord
<1>3. Marked(i, a)
  BY <1>2, IntentSet DEF TreasuryInv
<1>. QED  BY <1>3, IntentMarked DEF TreasuryInv, Marked

\* A renewal that is over, taken back or not.
LEMMA RenewEndKeeps ==
    ASSUME NEW p \in Procs, NEW withdrawn \in BOOLEAN, TreasuryInv, RenewEnd(p, withdrawn)
    PROVE  TreasuryInv'
<1> DEFINE i == renewal[p].intent
           a == IF withdrawn /\ intents[i].arkd = "registered" THEN "deleted" ELSE intents[i].arkd
           s == IF intents[i].stored \in Waiting THEN "cancelled" ELSE intents[i].stored
<1>1. i \in Ids
  BY DEF RenewEnd, TreasuryInv, Settlements, KnownIntents
<1>2. intents[i] \in IntentRecord
  BY <1>1 DEF TreasuryInv, TreasuryTypeOK, Ids
<1>3. intents' = [intents EXCEPT ![i] = [intents[i] EXCEPT !.stored = s, !.arkd = a]]
  BY <1>1, <1>2 DEF RenewEnd, TreasuryInv, TreasuryTypeOK, IntentRecord, Ids
<1>4. /\ s \in {"waiting_to_submit", "waiting_for_batch", "batch_succeeded", "cancelled"}
      /\ a = intents[i].arkd \/ (a = "deleted" /\ intents[i].arkd \in {"registered", "signed"})
  BY <1>2 DEF IntentRecord
<1>. HIDE DEF a, s, i
<1>5. IntentsMove /\ intents' \in Seq(IntentRecord)
  BY <1>1, <1>3, <1>4, WithdrawalMarks
<1>6. RenewalBecomes(p, renewal'[p]) /\ RenewalMoves(p)
  BY RestingTyped, RenewalSet DEF RenewEnd, RenewalBecomes, RenewalMoves, TreasuryInv
<1>7. wallet' \in [Procs -> Nat]
  BY DEF RenewEnd, TreasuryInv, TreasuryTypeOK
<1>. QED  BY <1>5, <1>6, <1>7, BackgroundMoves DEF RenewEnd

\* An earlier process's intent is withdrawn, or only the store says so.
LEMMA HandleEarlierKeeps ==
    ASSUME NEW p \in Procs, NEW i \in Ids, NEW withdrawn \in BOOLEAN, TreasuryInv,
           HandleEarlier(p, i, withdrawn)
    PROVE  TreasuryInv'
<1> DEFINE a == IF withdrawn /\ intents[i].arkd = "registered" THEN "deleted" ELSE intents[i].arkd
<1>1. intents[i] \in IntentRecord
  BY DEF TreasuryInv, TreasuryTypeOK, Ids
<1>2. intents' = [intents EXCEPT ![i] = [intents[i] EXCEPT !.stored = "cancelled", !.arkd = a]]
  BY <1>1 DEF HandleEarlier, TreasuryInv, TreasuryTypeOK, IntentRecord, Ids
<1>3. a = intents[i].arkd \/ (a = "deleted" /\ intents[i].arkd \in {"registered", "signed"})
  OBVIOUS
<1>. HIDE DEF a
<1>4. IntentsMove /\ intents' \in Seq(IntentRecord) /\ wallet' \in [Procs -> Nat]
  BY <1>2, <1>3, WithdrawalMarks DEF HandleEarlier, TreasuryInv, TreasuryTypeOK
<1>. QED  BY <1>4, StoreMoves DEF HandleEarlier

\* A process signs its batch.
LEMMA SignBatchKeeps == ASSUME NEW p \in Procs, TreasuryInv, SignBatch(p) PROVE TreasuryInv'
<1>1. PICK i \in Ids : /\ intents[i].arkd = "registered"
                       /\ intents' = [intents EXCEPT ![i].arkd = "signed"]
                       /\ UNCHANGED <<coin, reserved, draft, job, jobs, worker, renewal, turn, wallet,
                                      since, up, lapses>>
  BY DEF SignBatch
<1> DEFINE s == intents[i].stored
<1>2. intents[i] \in IntentRecord
  BY DEF TreasuryInv, TreasuryTypeOK, Ids
<1>3. intents' = [intents EXCEPT ![i] = [intents[i] EXCEPT !.stored = s, !.arkd = "signed"]]
  BY <1>1, <1>2 DEF IntentRecord, TreasuryInv, TreasuryTypeOK, Ids
<1>4. s \in {"waiting_to_submit", "waiting_for_batch", "batch_succeeded", "cancelled"}
  BY <1>2 DEF IntentRecord
<1>. HIDE DEF s
<1>5. Marked(i, "signed")
  BY <1>3, <1>4, IntentSet DEF TreasuryInv
<1>6. IntentsMove /\ intents' \in Seq(IntentRecord) /\ wallet' \in [Procs -> Nat]
  BY <1>1, <1>5, IntentMarked DEF TreasuryInv, TreasuryTypeOK, Marked
<1>. QED  BY <1>1, <1>6, StoreMoves

\* A wallet is retired.
LEMMA RetireKeeps == ASSUME NEW p \in Procs, TreasuryInv, Retire(p) PROVE TreasuryInv'
<1>1. IntentsMove /\ intents' \in Seq(IntentRecord) /\ wallet' \in [Procs -> Nat]
  BY IntentsSame DEF Retire, TreasuryInv, TreasuryTypeOK
<1>. QED  BY <1>1, StoreMoves DEF Retire

\* No process moves.
LEMMA StandStill ==
    ASSUME TreasuryInv, UNCHANGED <<worker, renewal, since>>, intents' \in Seq(IntentRecord), IntentsMove
    PROVE  ProcessesMove /\ \A p \in Procs : ~Enters(p)
<1>1. /\ Len(intents) \in Nat /\ Len(intents') \in Nat /\ Len(intents) <= Len(intents')
      /\ \A p \in Procs : since[p] \in Int /\ since[p] <= Len(intents)
  BY DEF TreasuryInv, TreasuryTypeOK, Settlements, KnownIntents, IntentsMove
<1>. QED  BY <1>1 DEF ProcessesMove, WorkerMoves, RenewalMoves, Enters

\* The coins, the reservations and the processes change, and the job is kept.
LEMMA SurroundingsMove ==
    ASSUME TreasuryInv, TreasuryTypeOK', IntentsMove, JobKept, HoldsFresh, ProcessesMove,
           \A p \in Procs : ~Enters(p), SettledByTheirIntent', InputsUnreserved'
    PROVE  TreasuryInv'
<1>1. Moves
  BY DEF Moves, TreasuryInv, JobMoves
<1>. QED  BY <1>1, MovesKeep DEF TreasuryInv

\* Nobody's intent is marked: coins stay settled by their intent.
LEMMA SettledStay ==
    ASSUME TreasuryInv, intents' = intents, \A c \in Coins : coin'[c].by = coin[c].by
    PROVE  SettledByTheirIntent'
BY DEF TreasuryInv, Settlements, SettledByTheirIntent, Ids

\* arkd settles the coins of a batch it has, or forgets it.
LEMMA EndBatchKeeps ==
    ASSUME NEW i \in Ids, NEW commits \in BOOLEAN, TreasuryInv, EndBatch(i, commits)
    PROVE  TreasuryInv'
<1>1. /\ intents[i] \in IntentRecord /\ Len(intents) \in Nat /\ intents[i].arkd = "signed"
      /\ i \in Nat /\ i # 0 /\ intents[i].coins \subseteq Coins
  <2>1. intents[i] \in IntentRecord /\ Len(intents) \in Nat /\ i \in Nat /\ i # 0
    BY DEF TreasuryInv, TreasuryTypeOK, Ids
  <2>. QED  BY <2>1 DEF EndBatch, IntentRecord
<1>2. JobKept
  BY JobSame DEF EndBatch
<1>3. InputsUnreserved'
  BY DEF EndBatch, TreasuryInv, Settlements, InputsUnreserved
<1>4. CASE commits /\ intents[i].coins \subseteq Live
  <2>1. /\ coin' = [c \in Coins |-> IF c \in intents[i].coins
                                    THEN [coin[c] EXCEPT !.state = "settled", !.by = i] ELSE coin[c]]
        /\ intents' = [intents EXCEPT ![i].arkd = "settled", ![i].stored = "batch_succeeded"]
    BY <1>4 DEF EndBatch
  <2>2. intents' = [intents EXCEPT ![i] =
                       [intents[i] EXCEPT !.stored = "batch_succeeded", !.arkd = "settled"]]
    BY <1>1, <2>1 DEF TreasuryInv, TreasuryTypeOK, IntentRecord, Ids
  <2>3. Marked(i, "settled")
    BY <2>2, IntentSet DEF TreasuryInv
  <2>4. IntentsMove /\ intents' \in Seq(IntentRecord)
    BY <1>1, <2>3, IntentMarked DEF TreasuryInv, Marked
  <2>5. ASSUME NEW c \in Coins
        PROVE  /\ coin'[c] \in CoinRecord /\ coin'[c].aged = coin[c].aged
               /\ coin'[c].by = IF c \in intents[i].coins THEN i ELSE coin[c].by
    <3>1. coin[c] \in CoinRecord
      BY DEF TreasuryInv, TreasuryTypeOK
    <3>. QED  BY <1>1, <2>1, <3>1 DEF CoinRecord, CoinStates
  <2>6. TreasuryTypeOK'
    BY <2>1, <2>4, <2>5 DEF EndBatch, TreasuryInv, TreasuryTypeOK
  <2>7. SettledByTheirIntent'
    BY <1>1, <2>3, <2>5 DEF TreasuryInv, Settlements, SettledByTheirIntent, Marked, Ids
  <2>8. HoldsFresh
    BY <2>5 DEF HoldsFresh, Held, EndBatch
  <2>. QED  BY <1>2, <1>3, <2>4, <2>6, <2>7, <2>8, StandStill, SurroundingsMove DEF EndBatch
<1>5. CASE ~(commits /\ intents[i].coins \subseteq Live)
  <2> DEFINE s == intents[i].stored
  <2>1. coin' = coin /\ intents' = [intents EXCEPT ![i].arkd = "deleted"]
    BY <1>5 DEF EndBatch
  <2>2. intents' = [intents EXCEPT ![i] = [intents[i] EXCEPT !.stored = s, !.arkd = "deleted"]]
    BY <1>1, <2>1 DEF TreasuryInv, TreasuryTypeOK, IntentRecord, Ids
  <2>3. s \in {"waiting_to_submit", "waiting_for_batch", "batch_succeeded", "cancelled"}
    BY <1>1 DEF IntentRecord
  <2>. HIDE DEF s
  <2>4. IntentsMove /\ intents' \in Seq(IntentRecord) /\ Marked(i, "deleted")
    BY <1>1, <2>2, <2>3, WithdrawalMarks
  <2>5. TreasuryTypeOK'
    BY <2>1, <2>4 DEF EndBatch, TreasuryInv, TreasuryTypeOK
  <2>6. SettledByTheirIntent'
    BY <1>1, <2>1, <2>4 DEF TreasuryInv, Settlements, SettledByTheirIntent, Marked, Ids
  <2>7. HoldsFresh
    BY <2>1 DEF HoldsFresh, Held, EndBatch
  <2>. QED  BY <1>2, <1>3, <2>4, <2>5, <2>6, <2>7, StandStill, SurroundingsMove DEF EndBatch
<1>. QED  BY <1>4, <1>5

\* Coins keep the intent that settled them, and do not get younger.
CoinsKept ==
    /\ coin' \in [Coins -> CoinRecord]
    /\ \A d \in Coins : coin'[d].by = coin[d].by /\ (coin[d].aged => coin'[d].aged)

\* A coin is spent.
LEMMA CoinSpent ==
    ASSUME TreasuryTypeOK, NEW c \in Coins, coin' = [coin EXCEPT ![c].state = "spent"]
    PROVE  CoinsKept
<1> DEFINE r == [coin[c] EXCEPT !.state = "spent"]
<1>1. coin[c] \in CoinRecord /\ "spent" \in CoinStates
  BY DEF TreasuryTypeOK, CoinStates
<1>2. r \in CoinRecord /\ r.by = coin[c].by /\ r.aged = coin[c].aged
  BY <1>1 DEF CoinRecord
<1>3. coin' = [coin EXCEPT ![c] = r]
  OBVIOUS
<1>. HIDE DEF r
<1>. QED  BY <1>2, <1>3 DEF TreasuryTypeOK, CoinsKept

\* A coin becomes due for renewal.
LEMMA CoinAged ==
    ASSUME TreasuryTypeOK, NEW c \in Coins, coin' = [coin EXCEPT ![c].aged = TRUE]
    PROVE  CoinsKept
<1> DEFINE r == [coin[c] EXCEPT !.aged = TRUE]
<1>1. coin[c] \in CoinRecord
  BY DEF TreasuryTypeOK
<1>2. r \in CoinRecord /\ r.by = coin[c].by /\ r.aged
  BY <1>1 DEF CoinRecord
<1>3. coin' = [coin EXCEPT ![c] = r]
  OBVIOUS
<1>. HIDE DEF r
<1>. QED  BY <1>2, <1>3 DEF TreasuryTypeOK, CoinsKept

\* Quotes read, reserve and release coins.
LEMMA QuotesKeep ==
    ASSUME TreasuryInv,
           \/ \E c \in Coins : QuoteReads(c)
           \/ QuoteReserves
           \/ \E c \in Coins, gone \in BOOLEAN : ReservationEnds(c, gone)
    PROVE  TreasuryInv'
<1>1. /\ JobKept /\ intents' = intents /\ UNCHANGED <<job, jobs, worker, renewal, since, up, wallet>>
  BY JobSame DEF QuoteReads, QuoteReserves, ReservationEnds
<1>2. IntentsMove /\ intents' \in Seq(IntentRecord)
  BY <1>1, IntentsSame DEF TreasuryInv, TreasuryTypeOK
<1>3. ASSUME NEW c \in Coins, QuoteReads(c) PROVE TreasuryInv'
  <2>1. TreasuryTypeOK' /\ HoldsFresh /\ InputsUnreserved'
    BY <1>3 DEF QuoteReads, TreasuryInv, TreasuryTypeOK, HoldsFresh, Held, Settlements, InputsUnreserved
  <2>2. SettledByTheirIntent'
    BY <1>3, SettledStay DEF QuoteReads
  <2>. QED  BY <1>1, <1>2, <2>1, <2>2, StandStill, SurroundingsMove
<1>4. CASE QuoteReserves
  <2>1. /\ coin' = coin /\ job' = job /\ draft' = {}
        /\ reserved' = reserved \/ (reserved' = reserved \cup draft /\ StillSelected)
    BY <1>4 DEF QuoteReserves
  <2>2. TreasuryTypeOK'
    BY <1>1, <2>1 DEF TreasuryInv, TreasuryTypeOK
  <2>3. HoldsFresh /\ InputsUnreserved'
    BY <2>1 DEF HoldsFresh, Held, StillSelected, TreasuryInv, Settlements, InputsUnreserved
  <2>4. SettledByTheirIntent'
    BY <1>1, <2>1, SettledStay
  <2>. QED  BY <1>1, <1>2, <2>2, <2>3, <2>4, StandStill, SurroundingsMove
<1>5. ASSUME NEW c \in Coins, NEW gone \in BOOLEAN, ReservationEnds(c, gone) PROVE TreasuryInv'
  <2>1. /\ reserved' \subseteq reserved /\ draft' = draft
        /\ coin' = coin \/ coin' = [coin EXCEPT ![c].state = "spent"]
    BY <1>5 DEF ReservationEnds
  <2>2. CoinsKept
    BY <2>1, CoinSpent DEF CoinsKept, TreasuryInv, TreasuryTypeOK
  <2>3. TreasuryTypeOK'
    BY <1>1, <2>1, <2>2 DEF TreasuryInv, TreasuryTypeOK, CoinsKept
  <2>4. HoldsFresh /\ InputsUnreserved'
    BY <1>1, <2>1, <2>2 DEF CoinsKept, HoldsFresh, Held, TreasuryInv, Settlements, InputsUnreserved
  <2>5. SettledByTheirIntent'
    BY <1>1, <2>2, SettledStay DEF CoinsKept
  <2>. QED  BY <1>1, <1>2, <2>3, <2>4, <2>5, StandStill, SurroundingsMove
<1>. QED  BY <1>3, <1>4, <1>5

\* Time passes for a coin or a lease.
LEMMA TimeKeeps ==
    ASSUME TreasuryInv, LapseLease \/ \E c \in Coins : Age(c) PROVE TreasuryInv'
<1>1. intents' = intents /\ UNCHANGED <<reserved, draft, jobs, worker, renewal, since, up, wallet>>
  BY DEF LapseLease, Age
<1>2. IntentsMove /\ intents' \in Seq(IntentRecord)
  BY <1>1, IntentsSame DEF TreasuryInv, TreasuryTypeOK
<1>3. JobKept /\ job' \in JobRecord /\ job'.inputs = job.inputs
  BY DEF LapseLease, Age, JobKept, JobRecord, TreasuryInv, TreasuryTypeOK
<1>4. CoinsKept
  BY CoinAged DEF LapseLease, Age, CoinsKept, TreasuryInv, TreasuryTypeOK
<1>5. TreasuryTypeOK'
  BY <1>1, <1>2, <1>3, <1>4 DEF TreasuryInv, TreasuryTypeOK, JobKept, CoinsKept
<1>6. HoldsFresh /\ InputsUnreserved'
  BY <1>1, <1>3, <1>4 DEF CoinsKept, HoldsFresh, Held, TreasuryInv, Settlements, InputsUnreserved
<1>7. SettledByTheirIntent'
  BY <1>1, <1>4, SettledStay DEF CoinsKept
<1>. QED  BY <1>1, <1>2, <1>3, <1>5, <1>6, <1>7, StandStill, SurroundingsMove

\* A process starts, or ends in the middle of whatever it did.
LEMMA ProcessesKeep ==
    ASSUME NEW p \in Procs, TreasuryInv, StartProcess(p) \/ Crash(p) PROVE TreasuryInv'
<1>1. /\ UNCHANGED <<coin, reserved, draft, job, jobs, intents, wallet>>
  BY DEF StartProcess, Crash
<1>2. IntentsMove /\ intents' \in Seq(IntentRecord) /\ JobKept
  BY <1>1, IntentsSame, JobSame DEF TreasuryInv, TreasuryTypeOK
<1>3. HoldsFresh /\ InputsUnreserved' /\ SettledByTheirIntent'
  BY <1>1, SettledStay DEF HoldsFresh, Held, TreasuryInv, Settlements, InputsUnreserved
<1>4. Len(intents) \in Nat /\ \A q \in Procs : since[q] \in Int /\ since[q] <= Len(intents)
  BY DEF TreasuryInv, TreasuryTypeOK, Settlements, KnownIntents
<1>5. CASE StartProcess(p)
  <2>1. UNCHANGED <<worker, renewal>> /\ up' = up \cup {p} /\ since' = [since EXCEPT ![p] = Len(intents)]
    BY <1>5 DEF StartProcess
  <2>2. since' \in [Procs -> Int] /\ \A q \in Procs : since'[q] <= Len(intents')
    BY <1>1, <1>4, <2>1 DEF TreasuryInv, TreasuryTypeOK
  <2>3. TreasuryTypeOK'
    BY <1>1, <1>2, <2>1, <2>2 DEF TreasuryInv, TreasuryTypeOK
  <2>4. ProcessesMove /\ \A q \in Procs : ~Enters(q)
    BY <2>1, <2>2 DEF ProcessesMove, WorkerMoves, RenewalMoves, Enters
  <2>. QED  BY <1>2, <1>3, <2>3, <2>4, SurroundingsMove
<1>6. CASE Crash(p)
  <2>1. /\ Stop(p) /\ renewal' = [renewal EXCEPT ![p] = Resting] /\ since' = since
        /\ up' = up \ {p}
    BY <1>6 DEF Crash, Stop
  <2>2. WorkerBecomes(p, worker'[p]) /\ WorkerMoves(p) /\ ~Enters(p)
    BY <1>1, <2>1, StopWithdraws
  <2>3. RenewalBecomes(p, Resting)
    BY <2>1, RestingTyped, RenewalSet DEF TreasuryInv
  <2>4. TreasuryTypeOK'
    BY <1>1, <1>2, <2>1, <2>2, <2>3 DEF TreasuryInv, TreasuryTypeOK, WorkerBecomes, RenewalBecomes
  <2>5. ProcessesMove /\ \A q \in Procs : ~Enters(q)
    BY <1>1, <1>4, <2>1, <2>2, <2>3, RestingTyped
    DEF ProcessesMove, WorkerMoves, RenewalMoves, Enters, WorkerBecomes, RenewalBecomes
  <2>. QED  BY <1>2, <1>3, <2>4, <2>5, SurroundingsMove
<1>. QED  BY <1>5, <1>6

-----------------------------------------------------------------------------
(* The theorems. *)

\* At the start there is no job and no intent.
LEMMA TreasuryInit == Init => TreasuryInv
<1> SUFFICES ASSUME Init PROVE TreasuryInv
  OBVIOUS
<1>1. intents = <<>> /\ Len(intents) = 0 /\ Ids = {}
  BY DEF Init, Ids
<1>2. TreasuryTypeOK
  <2>1. [state |-> "live", by |-> 0, aged |-> FALSE] \in CoinRecord
    BY DEF CoinRecord, CoinStates
  <2>2. NoJob \in JobRecord /\ Resting \in RenewalRecord
    BY NoJobTyped, RestingTyped
  <2>3. Idle \in WorkerRecord
    BY DEF Idle, WorkerRecord, WorkerSteps
  <2>4. <<>> \in Seq(IntentRecord)
    OBVIOUS
  <2>5. coin \in [Coins -> CoinRecord]
    BY <2>1 DEF Init
  <2>. QED  BY <2>2, <2>3, <2>4, <2>5 DEF Init, TreasuryTypeOK
<1>3. /\ job.id = 0 /\ job.inputs = {} /\ ~job.entered /\ job.local = {} /\ jobs = 0
      /\ \A p \in Procs : /\ worker[p].pc = "idle" /\ worker[p].job = 0 /\ worker[p].intent = 0
                          /\ renewal[p].pc = "idle" /\ since[p] = -1
      /\ \A c \in Coins : coin[c].by = 0
  BY DEF Init, NoJob, Idle, Resting
<1>4. JobsNumbered /\ KnownIntents /\ PlansTheInputs /\ PreparedAlone
  BY <1>1, <1>3 DEF JobsNumbered, KnownIntents, PlansTheInputs, PreparedAlone, Own, Preparing, Renewing
<1>5. SettledByTheirIntent /\ EnteredFirst /\ ClearUntilEntered /\ OneContender
      /\ OpenOffersHaveTheirJob /\ ReachedOnce /\ InputsUnreserved /\ BackgroundUnheld
  BY <1>1, <1>3 DEF SettledByTheirIntent, EnteredFirst, ClearUntilEntered, OneContender, Own,
     OpenOffersHaveTheirJob, ReachedOnce, InputsUnreserved, BackgroundUnheld
<1>. QED  BY <1>2, <1>4, <1>5 DEF TreasuryInv, Settlements

\* Steps outside the processes: arkd, quotes, time, starts and crashes.
LEMMA EnvKeeps == ASSUME TreasuryInv, EnvNext PROVE TreasuryInv'
BY EndBatchKeeps, QuotesKeep, TimeKeeps, ProcessesKeep DEF EnvNext

\* Every step keeps the invariant.
LEMMA TreasuryNext == TreasuryInv /\ [Next]_vars => TreasuryInv'
<1> SUFFICES ASSUME TreasuryInv, [Next]_vars PROVE TreasuryInv'
  OBVIOUS
<1>1. ASSUME NEW p \in Procs, CollectorNext(p) PROVE TreasuryInv'
  BY <1>1, StartRunKeeps, ReadReservationsKeeps, ReadSdkLocksKeeps, ClaimJobKeeps,
     ObserveInputsKeeps, DecideKeeps,
     QuietStepsKeep, GuardKeeps, RememberIntentKeeps, EnterSubmissionKeeps, SettleReturnsKeeps,
     CreateJobKeeps, RegisterKeeps, CatchKeeps, ConfirmOutputKeeps
  DEF CollectorNext
<1>2. ASSUME NEW p \in Procs, BackgroundNext(p) PROVE TreasuryInv'
  BY <1>2, RenewReadKeeps, RenewTurnKeeps, RenewCheckKeeps, RenewRegisterKeeps, RetireKeeps,
     SignBatchKeeps, RenewEndKeeps, HandleEarlierKeeps
  DEF BackgroundNext
<1>3. CASE EnvNext
  BY <1>3, EnvKeeps
<1>4. CASE UNCHANGED vars
  <2>1. JobKept /\ IntentsMove /\ ProcessesMove /\ \A p \in Procs : ~Enters(p)
    BY <1>4, JobSame, IntentsSame, StandStill DEF vars, TreasuryInv, TreasuryTypeOK
  <2>2. TreasuryTypeOK' /\ HoldsFresh /\ InputsUnreserved'
    BY <1>4 DEF vars, TreasuryInv, TreasuryTypeOK, HoldsFresh, Held, Settlements, InputsUnreserved
  <2>3. SettledByTheirIntent'
    BY <1>4, SettledStay DEF vars
  <2>. QED  BY <2>1, <2>2, <2>3, SurroundingsMove
<1>5. up \subseteq Procs
  BY DEF TreasuryInv, TreasuryTypeOK
<1>. QED  BY <1>1, <1>2, <1>3, <1>4, <1>5 DEF Next

\* The invariant holds throughout.
LEMMA TreasuryInvariant == Spec => []TreasuryInv
BY TreasuryInit, TreasuryNext, PTL DEF Spec

\* What was offered for a job stays fenced, and a coin of a job is offered by one intent:
\* whatever leases lapse, processes die, wallets are retired or calls are lost, and however
\* many processes, jobs and renewals there are.
THEOREM OffersStayExclusive == Spec => []OffersAreExclusive
<1>1. ASSUME TreasuryInv PROVE OfferStaysFenced
  <2> SUFFICES ASSUME NEW i \in OpenOffers
               PROVE  /\ job.id = intents[i].job /\ job.entered /\ intents[i].coins = job.inputs
                      /\ intents[i].coins \cap reserved = {}
    BY DEF OfferStaysFenced
  <2>1. i \in Ids /\ intents[i].job # 0 /\ Offered(i)
    BY <1>1 DEF OpenOffers, TreasuryInv, Settlements, JobsNumbered
  <2>2. job.id = intents[i].job /\ job.entered
    BY <1>1, <2>1 DEF TreasuryInv, Settlements, OpenOffersHaveTheirJob
  <2>3. intents[i].coins = job.inputs
    BY <1>1, <2>1, <2>2 DEF TreasuryInv, Settlements, PlansTheInputs
  <2>. QED  BY <1>1, <2>2, <2>3 DEF TreasuryInv, Settlements, InputsUnreserved
<1>2. ASSUME TreasuryInv PROVE OfferedOnce
  <2> SUFFICES ASSUME NEW i \in Ids, NEW j \in Ids, i # j, intents[i].by = "proceeds"
               PROVE  /\ intents[j].job = intents[i].job => ~(Reached(i) /\ Reached(j))
                      /\ Offered(i) /\ Offered(j) => intents[i].coins \cap intents[j].coins = {}
    BY DEF OfferedOnce
  <2>1. intents[i].job # 0
    BY <1>2 DEF TreasuryInv, Settlements, JobsNumbered
  <2>2. intents[j].job = intents[i].job => ~(Reached(i) /\ Reached(j))
    BY <1>2, <2>1 DEF TreasuryInv, Settlements, ReachedOnce
  <2>3. ASSUME Offered(i), Offered(j), intents[i].coins \cap intents[j].coins # {}
        PROVE  FALSE
    <3>1. job.id = intents[i].job /\ job.entered
      BY <1>2, <2>1, <2>3 DEF TreasuryInv, Settlements, OpenOffersHaveTheirJob
    <3>2. intents[i].coins = job.inputs
      BY <1>2, <2>1, <3>1 DEF TreasuryInv, Settlements, PlansTheInputs
    <3>3. Contends(i) /\ Contends(j)
      BY <2>3, <3>2 DEF Contends, Threatens, Reached, Offered
    <3>. QED  BY <1>2, <3>1, <3>3 DEF TreasuryInv, Settlements, OneContender
  <2>. QED  BY <2>2, <2>3
<1>3. TreasuryInv => OffersAreExclusive
  BY <1>1, <1>2 DEF OffersAreExclusive
<1>. QED  BY <1>3, TreasuryInvariant, PTL

\* Only the end of a batch says which intent settled a coin.
LEMMA SettledAtTheEnd ==
    ASSUME TreasuryInv, [Next]_vars, NEW c \in Coins, coin'[c].by # coin[c].by
    PROVE  \E i \in Ids : coin'[c].by = i /\ c \in intents[i].coins
<1>1. coin' # coin
  OBVIOUS
<1>2. ASSUME NEW p \in up, CollectorNext(p) \/ BackgroundNext(p) PROVE FALSE
  <2>1. CASE \/ StartRun(p) \/ ReadReservations(p) \/ ReadSdkLocks(p) \/ ClaimJob(p)
             \/ ObserveInputs(p) \/ Decide(p) \/ TakeTurn(p)
    BY <1>1, <2>1
    DEF StartRun, ReadReservations, ReadSdkLocks, ClaimJob, ObserveInputs, Decide, TakeTurn
  <2>2. CASE \/ RememberIntent(p) \/ EnterSubmission(p)
             \/ \E expired \in BOOLEAN : Guard(p, expired) \/ GuardSubmit(p, expired)
             \/ SettleReturns(p) \/ Heartbeat(p) \/ Fail(p)
    BY <1>1, <2>2 DEF Guard, RememberIntent, GuardSubmit, EnterSubmission, SettleReturns, Heartbeat, Fail
  <2>3. CASE \/ \E coins \in Plans : CreateJob(p, coins)
             \/ \E a, b \in BOOLEAN : Register(p, a, b) \/ Catch(p, a, b)
             \/ \E outputs \in BOOLEAN : ConfirmOutput(p, outputs)
    BY <1>1, <2>3 DEF CreateJob, Register, Catch, ConfirmOutput
  <2>4. CASE BackgroundNext(p)
    BY <1>1, <2>4 DEF BackgroundNext, RenewRead, RenewTurn, RenewCheck, RenewRegister, Retire, SignBatch,
       RenewEnd, HandleEarlier
  <2>. QED  BY <1>2, <2>1, <2>2, <2>3, <2>4 DEF CollectorNext
<1>3. ASSUME NEW d \in Coins, NEW gone \in BOOLEAN, ReservationEnds(d, gone) PROVE FALSE
  <2>1. coin' = [coin EXCEPT ![d].state = "spent"]
    BY <1>1, <1>3 DEF ReservationEnds
  <2>. QED  BY <2>1, CoinSpent DEF CoinsKept, TreasuryInv
<1>4. ASSUME NEW d \in Coins, Age(d) PROVE FALSE
  BY <1>4, CoinAged DEF Age, CoinsKept, TreasuryInv
<1>5. PICK i \in Ids, commits \in BOOLEAN : EndBatch(i, commits)
  BY <1>1, <1>2, <1>3, <1>4 DEF Next, EnvNext, vars, QuoteReads, QuoteReserves, LapseLease,
     StartProcess, Crash
<1>6. coin[c] \in CoinRecord
  BY DEF TreasuryInv, TreasuryTypeOK
<1>7. coin' = [d \in Coins |-> IF d \in intents[i].coins
                               THEN [coin[d] EXCEPT !.state = "settled", !.by = i] ELSE coin[d]]
  BY <1>1, <1>5 DEF EndBatch
<1>8. coin'[c] = IF c \in intents[i].coins
                 THEN [coin[c] EXCEPT !.state = "settled", !.by = i] ELSE coin[c]
  BY <1>7
<1>. QED  BY <1>6, <1>8 DEF CoinRecord

\* No batch of the background takes a coin that is spendable off-chain while a quote or a
\* fill has it reserved or a job has it as an input: what the background has read of such
\* coins was due for renewal and unheld, and stays both.  Nothing is said of receipts.
THEOREM HeldCoinsAreSpared == Spec => BackgroundSparesHeld
<1> DEFINE A == Spares(Coins \ Receipts)
<1>1. TreasuryInv /\ [Next]_vars => [A]_vars
  <2> SUFFICES ASSUME TreasuryInv, [Next]_vars PROVE A
    OBVIOUS
  <2> SUFFICES ASSUME NEW c \in (Coins \ Receipts) \cap Held, coin'[c].by # coin[c].by,
                      intents[coin'[c].by].by # "proceeds"
               PROVE  FALSE
    BY DEF Spares
  <2>1. PICK i \in Ids : coin'[c].by = i /\ c \in intents[i].coins
    BY SettledAtTheEnd
  <2>2. intents[i] \in IntentRecord
    BY DEF TreasuryInv, TreasuryTypeOK, Ids
  <2>3. intents[i].by = "background"
    BY <2>1, <2>2 DEF IntentRecord
  <2>. QED  BY <2>1, <2>3 DEF TreasuryInv, Settlements, BackgroundUnheld, Unheld
<1>2. TreasuryInv => TreasuryInv
  OBVIOUS
<1>. QED  BY <1>1, TreasuryInvariant, PTL DEF Spec, BackgroundSparesHeld

-----------------------------------------------------------------------------
(* The scripts of live covenants. *)

SyncSteps == {"idle", "begin", "detach", "drop", "manager", "list", "watch", "trim", "unwatch"}
SyncRecord ==
    [step: SyncSteps, wallet: Managers \cup {NoManager}, from: Managers \cup {NoManager},
     scripts: SUBSET Scripts, found: SUBSET Scripts, current: BOOLEAN]
StopSteps == {"idle", "settle", "detach", "drop"}
StopRecord ==
    [step: StopSteps, waits: BOOLEAN, from: Managers \cup {NoManager},
     scripts: SUBSET Scripts, found: SUBSET Scripts]
BindingRecord == [manager: Managers \cup {NoManager}, owned: SUBSET Scripts]
Registrars == {"none", "other", "mine"}

SubscriptionTypeOK ==
    /\ live \subseteq Scripts /\ attached \in Managers \cup {NoManager}
    /\ entries \in [Managers -> [Scripts -> Registrars]]
    /\ sync \in SyncRecord /\ binding \in BindingRecord /\ stop \in StopRecord
    /\ lost \subseteq Managers

\* A sync at work with a manager is bound to it; between two it is bound to none.
AtWork == {"list", "watch", "trim", "unwatch"}
SyncBound ==
    /\ sync.step = "idle" => sync = NoSync
    /\ sync.step \in {"detach", "drop", "manager"} => binding = NoBinding
    /\ sync.step \in {"detach", "drop"} => sync.from \in Managers
    /\ sync.step = "manager" => sync.wallet \in Managers \ {NoManager}
    /\ binding = NoBinding <=> binding.manager = NoManager
    /\ sync.step \in AtWork =>
          /\ sync.from \in Managers \ {NoManager}
          /\ binding.manager = sync.from /\ sync.wallet = sync.from

\* What a sync adds it owns, and what it takes away is all it finds of its own.
SyncOwns ==
    /\ sync.step = "watch" => sync.found \subseteq binding.owned
    /\ sync.step = "unwatch" => sync.scripts \cap Mine(sync.from) \subseteq sync.found

\* A stop leaves the binding to the sync that has it, and takes what is left.
StopTakesOver ==
    /\ stop.step = "idle" => stop = NoStop
    /\ stop.step # "idle" => ~started
    /\ stop.step = "settle" => binding = NoBinding \/ sync = NoSync \/ stop.waits
    /\ stop.step \in {"detach", "drop"} =>
          binding = NoBinding /\ sync = NoSync /\ stop.from \in Managers
    /\ ~started /\ binding # NoBinding => stop.step = "settle"

\* Nothing another registered is about to be written.
WritesOwn ==
    /\ sync.step \in {"watch", "drop", "unwatch"} =>
          \A s \in sync.found : entries[sync.from][s] # "other"
    /\ stop.step = "drop" => \A s \in stop.found : entries[stop.from][s] # "other"

\* Somebody answers for whatever is registered in the watcher's name.
Answers(m, s) ==
    \/ binding.manager = m /\ s \in binding.owned
    \/ sync.from = m /\ sync.step = "detach" /\ s \in sync.scripts
    \/ sync.from = m /\ sync.step = "drop" /\ s \in sync.found
    \/ stop.from = m /\ stop.step = "detach" /\ s \in stop.scripts
    \/ stop.from = m /\ stop.step = "drop" /\ s \in stop.found
Accounted == \A m \in Managers \ lost : \A s \in Mine(m) : Answers(m, s)

\* While nothing changed since the last scan asked, a sync that is not to be
\* followed by another works on what is so now.
UpToDate ==
    started /\ ~owed /\ ~resync =>
       /\ sync.step # "idle" => sync.current
       /\ sync.step \notin {"idle", "begin"} => sync.wallet = attached
       /\ sync.step \in {"list", "watch"} => sync.scripts = live
       /\ sync.step = "watch" => live \subseteq Registered(attached) \cup sync.found
       /\ sync.step \in {"trim", "unwatch"} =>
             /\ live \subseteq Registered(attached) /\ sync.scripts \cap live = {}
             /\ binding.owned \subseteq live \cup sync.scripts
       /\ sync.step = "unwatch" => sync.found \subseteq sync.scripts

\* And with none in progress it has been done.
DoneWhenQuiet ==
    started /\ ~owed /\ sync.step = "idle" /\ attached # NoManager =>
       /\ binding.manager = attached /\ live \subseteq Registered(attached)
       /\ binding.owned \subseteq live

WatchInv ==
    /\ SubscriptionTypeOK /\ SyncBound /\ SyncOwns /\ StopTakesOver /\ WritesOwn
    /\ OthersKeepTheirs /\ Accounted /\ UpToDate /\ DoneWhenQuiet

\* A sync that is over is followed by another if one was asked for.
LEMMA SyncEnds ==
    ASSUME EndSync
    PROVE  /\ sync' \in SyncRecord /\ sync'.step \in {"idle", "begin"} /\ sync'.current
           /\ sync'.step = "idle" => sync' = NoSync
           /\ started /\ sync'.step = "idle" => ~resync
<1> DEFINE b == [NoSync EXCEPT !.step = "begin"]
<1>1. b \in SyncRecord /\ b.step = "begin" /\ b.current
  BY DEF NoSync, SyncRecord, SyncSteps
<1>2. NoSync \in SyncRecord /\ NoSync.step = "idle" /\ NoSync.current
  BY DEF NoSync, SyncRecord, SyncSteps
<1>3. sync' = b \/ (sync' = NoSync /\ ~(resync /\ started))
  BY DEF EndSync
<1>. QED  BY <1>1, <1>2, <1>3

\* A manager's registrations are rewritten.
LEMMA EnterSet ==
    ASSUME SubscriptionTypeOK, NEW m \in Managers, NEW scripts, NEW who \in {"none", "mine"},
           Enter(m, scripts, who)
    PROVE  /\ entries' \in [Managers -> [Scripts -> Registrars]]
           /\ \A n \in Managers, s \in Scripts :
                 entries'[n][s] = IF n = m /\ s \in scripts THEN who ELSE entries[n][s]
BY DEF SubscriptionTypeOK, Registrars, Enter

\* What is idle, and bound to nothing.
LEMMA NothingTyped ==
    /\ NoSync \in SyncRecord /\ NoSync.step = "idle"
    /\ NoStop \in StopRecord /\ NoStop.step = "idle"
    /\ NoBinding \in BindingRecord /\ NoBinding.manager = NoManager /\ NoBinding.owned = {}
BY DEF NoSync, NoStop, NoBinding, SyncRecord, SyncSteps, StopRecord, StopSteps, BindingRecord

\* At the start nothing is registered but what others registered.
LEMMA SubscriptionStarts == SubscriptionInit => WatchInv
<1> SUFFICES ASSUME SubscriptionInit PROVE WatchInv
  OBVIOUS
<1>1. SubscriptionTypeOK
  BY NothingTyped DEF SubscriptionInit, SubscriptionTypeOK, Registrars
<1>2. \A m \in Managers, s \in Scripts :
         entries[m][s] = IF <<m, s>> \in Foreign THEN "other" ELSE "none"
  BY DEF SubscriptionInit
<1>3. SyncBound /\ SyncOwns /\ StopTakesOver /\ WritesOwn /\ UpToDate /\ DoneWhenQuiet
  BY NothingTyped DEF SubscriptionInit, SyncBound, SyncOwns, StopTakesOver, WritesOwn, UpToDate,
     DoneWhenQuiet, AtWork
<1>4. OthersKeepTheirs /\ Accounted
  BY <1>2 DEF OthersKeepTheirs, Accounted, Mine
<1>. QED  BY <1>1, <1>3, <1>4 DEF WatchInv

\* Scans, and the rows and the wallet that move on.
LEMMA ScansKeep == ASSUME WatchInv, StartScan \/ EndScan PROVE WatchInv'
<1>1. UNCHANGED <<live, attached, entries, started, binding, stop, lost>>
  BY DEF StartScan, EndScan
<1>2. \/ UNCHANGED <<sync, resync, owed>>
      \/ started /\ sync.step # "idle" /\ sync' = sync /\ resync' /\ ~owed'
      \/ /\ started /\ sync = NoSync /\ ~resync' /\ ~owed'
         /\ sync'.step = "begin" /\ sync'.current /\ sync' \in SyncRecord
      \/ ~started /\ sync' = sync
  BY DEF StartScan, EndScan, RequestSync, RunsAgain, NoSync, SyncRecord, SyncSteps, WatchInv, SyncBound
<1>3. SubscriptionTypeOK'
  BY <1>1, <1>2 DEF WatchInv, SubscriptionTypeOK
<1>4. SyncBound' /\ SyncOwns' /\ StopTakesOver' /\ WritesOwn' /\ OthersKeepTheirs'
  BY <1>1, <1>2, NothingTyped DEF WatchInv, SyncBound, SyncOwns, StopTakesOver, WritesOwn,
     OthersKeepTheirs, AtWork, Mine
<1>5. Accounted' /\ UpToDate' /\ DoneWhenQuiet'
  BY <1>1, <1>2, NothingTyped DEF WatchInv, Accounted, Answers, UpToDate, DoneWhenQuiet, Mine, Registered
<1>. QED  BY <1>3, <1>4, <1>5 DEF WatchInv

\* See ScansKeep.
LEMMA MovesOnKeep == ASSUME WatchInv, RowsMove \/ WalletMoves PROVE WatchInv'
<1>1. owed' /\ UNCHANGED <<entries, started, resync, sync, binding, stop, lost>>
  BY DEF RowsMove, WalletMoves
<1>2. SubscriptionTypeOK'
  BY <1>1 DEF RowsMove, WalletMoves, WatchInv, SubscriptionTypeOK
<1>3. SyncBound' /\ SyncOwns' /\ StopTakesOver' /\ WritesOwn' /\ OthersKeepTheirs'
  BY <1>1 DEF WatchInv, SyncBound, SyncOwns, StopTakesOver, WritesOwn, OthersKeepTheirs, Mine
<1>4. Accounted' /\ UpToDate' /\ DoneWhenQuiet'
  BY <1>1 DEF WatchInv, Accounted, Answers, UpToDate, DoneWhenQuiet, Mine
<1>. QED  BY <1>2, <1>3, <1>4 DEF WatchInv

\* A sync that ends, with what it has written, asks for the next or is the last.
LEMMA EndedKeeps ==
    ASSUME WatchInv, EndSync, sync.step # "idle",
           binding' \in BindingRecord, binding'.manager = binding.manager,
           binding' = NoBinding <=> binding'.manager = NoManager,
           entries' \in [Managers -> [Scripts -> Registrars]], lost' \subseteq Managers,
           OthersKeepTheirs', Accounted',
           UNCHANGED <<live, attached, started, stop>>, owed => owed',
           started /\ ~owed' /\ ~resync /\ attached # NoManager =>
              /\ binding'.manager = attached /\ live \subseteq Registered(attached)'
              /\ binding'.owned \subseteq live
    PROVE  WatchInv'
<1>1. SubscriptionTypeOK'
  BY SyncEnds DEF WatchInv, SubscriptionTypeOK
<1>2. stop.step \notin {"detach", "drop"}
  BY NothingTyped DEF WatchInv, StopTakesOver
<1>3. SyncBound' /\ SyncOwns' /\ StopTakesOver' /\ WritesOwn'
  BY <1>2, SyncEnds, NothingTyped DEF WatchInv, SyncBound, SyncOwns, StopTakesOver, WritesOwn, AtWork
<1>4. UpToDate' /\ DoneWhenQuiet'
  BY SyncEnds DEF UpToDate, DoneWhenQuiet
<1>. QED  BY <1>1, <1>3, <1>4 DEF WatchInv

\* The end of a sync that has written nothing.
LEMMA EndedEarlyKeeps ==
    ASSUME WatchInv, EndSync, sync.step \notin {"idle", "detach", "drop"},
           UNCHANGED <<live, attached, entries, started, stop, binding, owed, lost>>,
           ~(started /\ ~owed /\ ~resync /\ attached # NoManager)
    PROVE  WatchInv'
<1>1. OthersKeepTheirs' /\ Accounted'
  BY SyncEnds DEF WatchInv, OthersKeepTheirs, Accounted, Answers, Mine
<1>. QED  BY <1>1, EndedKeeps DEF WatchInv, SubscriptionTypeOK, SyncBound

\* The wallet before is let go of: the sync goes on with the one it read, or ends.
LEMMA BindKeeps ==
    ASSUME WatchInv, NEW w \in Managers \cup {NoManager}, Bind(w),
           sync.step \in {"begin", "drop"},
           UNCHANGED <<live, attached, started, stop, binding, owed, lost>>,
           entries' \in [Managers -> [Scripts -> Registrars]], OthersKeepTheirs',
           \A m \in Managers \ lost : \A s \in Mine(m)' : binding.manager = m /\ s \in binding.owned,
           started /\ ~owed /\ ~resync => w = attached,
           started /\ binding # NoBinding => binding.manager = w
    PROVE  WatchInv'
<1>1. /\ sync \in SyncRecord /\ binding \in BindingRecord /\ live \subseteq Scripts
      /\ stop.step \notin {"detach", "drop"}
  BY NothingTyped DEF WatchInv, SubscriptionTypeOK, StopTakesOver
<1>2. Accounted'
  BY DEF Accounted, Answers
<1>3. CASE w = NoManager \/ ~Standing
  <2>1. ~(started /\ ~owed /\ ~resync /\ attached # NoManager)
    BY <1>3 DEF Standing, WatchInv, UpToDate
  <2>2. EndSync
    BY <1>3 DEF Bind
  <2>. QED  BY <1>1, <1>2, <2>1, <2>2, EndedKeeps DEF WatchInv, SyncBound, SubscriptionTypeOK
<1>4. CASE ~(w = NoManager \/ ~Standing)
  <2> DEFINE r == [sync EXCEPT !.step = "manager", !.wallet = w]
             q == [ReadRows EXCEPT !.wallet = w, !.from = w]
  <2>1. started /\ sync.current /\ w \in Managers \ {NoManager} /\ stop = NoStop
    BY <1>4 DEF Standing, WatchInv, StopTakesOver
  <2>2. sync' = (IF binding = NoBinding THEN r ELSE q) /\ resync' = resync
    BY <1>4 DEF Bind
  <2>3. "manager" \in SyncSteps /\ "list" \in SyncSteps
    BY DEF SyncSteps
  <2>4. /\ r \in SyncRecord /\ r.step = "manager" /\ r.wallet = w /\ r.current = sync.current
    BY <1>1, <2>3 DEF SyncRecord
  <2>5. /\ q \in SyncRecord /\ q.step = "list" /\ q.wallet = w /\ q.from = w
        /\ q.current = sync.current /\ q.scripts = live
    BY <1>1, <2>1, <2>3 DEF SyncRecord, ReadRows
  <2>. HIDE DEF r, q
  <2>6. SubscriptionTypeOK'
    BY <2>2, <2>4, <2>5 DEF WatchInv, SubscriptionTypeOK
  <2>7. SyncBound' /\ SyncOwns' /\ StopTakesOver' /\ WritesOwn'
    BY <2>1, <2>2, <2>4, <2>5, NothingTyped
       DEF WatchInv, SyncBound, SyncOwns, StopTakesOver, WritesOwn, AtWork
  <2>8. UpToDate' /\ DoneWhenQuiet'
    BY <2>1, <2>2, <2>4, <2>5 DEF UpToDate, DoneWhenQuiet
  <2>. QED  BY <1>2, <2>6, <2>7, <2>8 DEF WatchInv
<1>. QED  BY <1>3, <1>4

\* A sync begins at the wallet there is, and lets another one go first.
LEMMA SyncBeginKeeps == ASSUME WatchInv, SyncBegin PROVE WatchInv'
<1>1. /\ sync.step = "begin" /\ UNCHANGED <<live, attached, entries, started, stop, owed, lost>>
      /\ sync \in SyncRecord /\ binding \in BindingRecord /\ attached \in Managers \cup {NoManager}
      /\ stop.step \notin {"detach", "drop"}
  BY NothingTyped DEF SyncBegin, WatchInv, SubscriptionTypeOK, StopTakesOver
<1>2. \A m \in Managers \ lost : \A s \in Mine(m) : binding.manager = m /\ s \in binding.owned
  BY <1>1 DEF WatchInv, Accounted, Answers
<1>3. CASE started /\ binding # NoBinding /\ binding.manager # attached
  <2> DEFINE r == [sync EXCEPT !.step = "detach", !.wallet = attached, !.from = binding.manager,
                               !.scripts = binding.owned]
  <2>1. sync' = r /\ binding' = NoBinding /\ resync' = resync
    BY <1>3 DEF SyncBegin
  <2>2. binding.manager \in Managers /\ binding.owned \subseteq Scripts /\ "detach" \in SyncSteps
    BY <1>1, <1>3 DEF BindingRecord, SyncSteps, WatchInv, SyncBound
  <2>3. /\ r \in SyncRecord /\ r.step = "detach" /\ r.wallet = attached
        /\ r.from = binding.manager /\ r.scripts = binding.owned /\ r.current = sync.current
    BY <1>1, <2>2 DEF SyncRecord
  <2>. HIDE DEF r
  <2>4. SubscriptionTypeOK'
    BY <1>1, <2>1, <2>3, NothingTyped DEF WatchInv, SubscriptionTypeOK
  <2>5. SyncBound' /\ SyncOwns' /\ StopTakesOver' /\ WritesOwn' /\ OthersKeepTheirs'
    BY <1>1, <1>3, <2>1, <2>2, <2>3, NothingTyped DEF WatchInv, SyncBound, SyncOwns, StopTakesOver,
       WritesOwn, OthersKeepTheirs, AtWork
  <2>6. Accounted'
    BY <1>1, <1>2, <2>1, <2>3 DEF Accounted, Answers, Mine
  <2>7. UpToDate' /\ DoneWhenQuiet'
    BY <1>1, <2>1, <2>3 DEF WatchInv, UpToDate, DoneWhenQuiet
  <2>. QED  BY <2>4, <2>5, <2>6, <2>7 DEF WatchInv
<1>4. CASE ~(started /\ binding # NoBinding /\ binding.manager # attached)
  <2>1. Bind(attached) /\ binding' = binding
    BY <1>4 DEF SyncBegin
  <2>2. \A m : Mine(m)' = Mine(m)
    BY <1>1 DEF Mine
  <2>3. OthersKeepTheirs' /\ entries' \in [Managers -> [Scripts -> Registrars]]
    BY <1>1 DEF WatchInv, OthersKeepTheirs, SubscriptionTypeOK
  <2>. QED  BY <1>1, <1>2, <1>4, <2>1, <2>2, <2>3, BindKeeps
<1>. QED  BY <1>3, <1>4

\* What is looked for, and what is taken away, of the watcher's own.
LEMMA DetachTrimKeep == ASSUME WatchInv, SyncDetach \/ SyncTrim PROVE WatchInv'
<1> DEFINE f == sync.scripts \cap Mine(sync.from)
           r(step) == [sync EXCEPT !.step = step, !.found = f]
<1>1. /\ UNCHANGED <<live, attached, entries, started, resync, binding, stop, owed, lost>>
      /\ \/ sync.step = "detach" /\ sync' = r("drop")
         \/ sync.step = "trim" /\ sync' = r("unwatch")
      /\ sync \in SyncRecord
  BY DEF SyncDetach, SyncTrim, WatchInv, SubscriptionTypeOK
<1>2. /\ f \subseteq Scripts /\ f \subseteq sync.scripts /\ f \subseteq Mine(sync.from)
      /\ sync.scripts \cap Mine(sync.from) \subseteq f
  BY <1>1 DEF SyncRecord
<1>. HIDE DEF f
<1>3. /\ sync' \in SyncRecord /\ sync'.wallet = sync.wallet /\ sync'.from = sync.from
      /\ sync'.scripts = sync.scripts /\ sync'.found = f /\ sync'.current = sync.current
      /\ \/ sync.step = "detach" /\ sync'.step = "drop"
         \/ sync.step = "trim" /\ sync'.step = "unwatch"
  <2>1. "drop" \in SyncSteps /\ "unwatch" \in SyncSteps
    BY DEF SyncSteps
  <2>. QED  BY <1>1, <1>2, <2>1 DEF SyncRecord
<1>4. stop.step \notin {"detach", "drop"}
  BY <1>1, NothingTyped DEF WatchInv, StopTakesOver
<1>5. SubscriptionTypeOK'
  BY <1>1, <1>3 DEF WatchInv, SubscriptionTypeOK
<1>6. SyncBound' /\ OthersKeepTheirs'
  BY <1>1, <1>3, NothingTyped DEF WatchInv, SyncBound, OthersKeepTheirs, AtWork
<1>7. StopTakesOver'
  BY <1>1, <1>3, <1>4, NothingTyped DEF WatchInv, StopTakesOver
<1>8. SyncOwns' /\ WritesOwn'
  BY <1>1, <1>2, <1>3, <1>4 DEF SyncOwns, WritesOwn, Mine
<1>9. Accounted'
  BY <1>1, <1>2, <1>3 DEF WatchInv, Accounted, Answers, Mine
<1>10. UpToDate' /\ DoneWhenQuiet'
  BY <1>1, <1>2, <1>3 DEF WatchInv, UpToDate, DoneWhenQuiet, Registered
<1>. QED  BY <1>5, <1>6, <1>7, <1>8, <1>9, <1>10 DEF WatchInv

\* What was found of the watcher's own is let go, and the sync binds.
LEMMA SyncDropKeeps == ASSUME WatchInv, SyncDrop PROVE WatchInv'
<1>1. /\ sync.step = "drop" /\ UNCHANGED <<live, attached, started, stop, binding, owed, lost>>
      /\ Enter(sync.from, sync.found, "none") /\ Bind(sync.wallet)
      /\ SubscriptionTypeOK /\ sync.from \in Managers /\ binding = NoBinding
      /\ sync.wallet \in Managers \cup {NoManager}
      /\ stop.step \notin {"detach", "drop"}
  BY NothingTyped DEF SyncDrop, WatchInv, SubscriptionTypeOK, StopTakesOver, SyncBound, SyncRecord
<1>2. /\ entries' \in [Managers -> [Scripts -> Registrars]]
      /\ \A n \in Managers, s \in Scripts :
            entries'[n][s] = IF n = sync.from /\ s \in sync.found THEN "none" ELSE entries[n][s]
  BY <1>1, EnterSet
<1>3. OthersKeepTheirs'
  <2>1. \A s \in sync.found : entries[sync.from][s] # "other"
    BY <1>1 DEF WatchInv, WritesOwn
  <2>2. \A n \in Managers, s \in Scripts : entries'[n][s] = "other" <=> entries[n][s] = "other"
    BY <1>2, <2>1
  <2>. QED  BY <2>2 DEF WatchInv, OthersKeepTheirs
<1>4. \A m \in Managers \ lost : \A s \in Mine(m)' : binding.manager = m /\ s \in binding.owned
  BY <1>1, <1>2, NothingTyped DEF WatchInv, Accounted, Answers, Mine
<1>5. started /\ ~owed /\ ~resync => sync.wallet = attached
  BY <1>1 DEF WatchInv, UpToDate
<1>. QED  BY <1>1, <1>2, <1>3, <1>4, <1>5, BindKeeps

\* The manager found is listened to, or no longer the one to ask.
LEMMA SyncManagerKeeps == ASSUME WatchInv, SyncManager PROVE WatchInv'
<1>1. /\ sync.step = "manager" /\ UNCHANGED <<live, attached, entries, started, stop, owed, lost>>
      /\ SubscriptionTypeOK /\ binding = NoBinding /\ sync.wallet \in Managers \ {NoManager}
      /\ stop.step \notin {"detach", "drop"}
  BY NothingTyped DEF SyncManager, WatchInv, StopTakesOver, SyncBound
<1>2. CASE ~Fresh
  <2>1. EndSync /\ binding' = binding
    BY <1>2 DEF SyncManager
  <2>2. ~(started /\ ~owed /\ ~resync /\ attached # NoManager)
    BY <1>1, <1>2 DEF Fresh, Standing, WatchInv, UpToDate
  <2>. QED  BY <1>1, <2>1, <2>2, EndedEarlyKeeps
<1>3. CASE Fresh
  <2> DEFINE r == [ReadRows EXCEPT !.from = sync.wallet]
             b == [NoBinding EXCEPT !.manager = sync.wallet]
  <2>1. started /\ sync.current /\ attached = sync.wallet /\ stop = NoStop
    BY <1>3 DEF Fresh, Standing, WatchInv, StopTakesOver
  <2>2. sync' = r /\ binding' = b /\ resync' = resync
    BY <1>3 DEF SyncManager
  <2>3. "list" \in SyncSteps
    BY DEF SyncSteps
  <2>4. /\ r \in SyncRecord /\ r.step = "list" /\ r.wallet = sync.wallet /\ r.from = sync.wallet
        /\ r.current = sync.current /\ r.scripts = live
    BY <1>1, <2>3 DEF SyncRecord, ReadRows, SubscriptionTypeOK
  <2>5. b \in BindingRecord /\ b.manager = sync.wallet /\ b.owned = {} /\ b # NoBinding
    BY <1>1, NothingTyped DEF BindingRecord, NoBinding
  <2>. HIDE DEF r, b
  <2>6. SubscriptionTypeOK'
    BY <1>1, <2>2, <2>4, <2>5 DEF SubscriptionTypeOK
  <2>7. SyncBound' /\ SyncOwns' /\ StopTakesOver' /\ WritesOwn' /\ OthersKeepTheirs'
    BY <1>1, <2>1, <2>2, <2>4, <2>5, NothingTyped DEF WatchInv, SyncBound, SyncOwns, StopTakesOver,
       WritesOwn, OthersKeepTheirs, AtWork
  <2>8. Accounted'
    BY <1>1, <2>2, <2>4, <2>5, NothingTyped DEF WatchInv, Accounted, Answers, Mine
  <2>9. UpToDate' /\ DoneWhenQuiet'
    BY <1>1, <2>1, <2>2, <2>4 DEF UpToDate, DoneWhenQuiet
  <2>. QED  BY <2>6, <2>7, <2>8, <2>9 DEF WatchInv
<1>. QED  BY <1>2, <1>3

\* Only what nobody registered is added, and owned before it is.
LEMMA SyncListKeeps == ASSUME WatchInv, SyncList PROVE WatchInv'
<1>1. /\ sync.step = "list" /\ UNCHANGED <<live, attached, entries, started, stop, owed, lost>>
      /\ SubscriptionTypeOK /\ sync \in SyncRecord /\ binding \in BindingRecord
      /\ sync.from \in Managers \ {NoManager}
      /\ binding.manager = sync.from /\ sync.wallet = sync.from
      /\ stop.step \notin {"detach", "drop"}
  BY NothingTyped DEF SyncList, WatchInv, StopTakesOver, SyncBound, AtWork, SubscriptionTypeOK
<1>2. CASE ~Fresh
  <2>1. EndSync /\ binding' = binding
    BY <1>2 DEF SyncList
  <2>2. ~(started /\ ~owed /\ ~resync /\ attached # NoManager)
    BY <1>1, <1>2 DEF Fresh, Standing, WatchInv, UpToDate
  <2>. QED  BY <1>1, <2>1, <2>2, EndedEarlyKeeps
<1>3. CASE Fresh
  <2> DEFINE a == sync.scripts \ Registered(sync.from)
             r == [sync EXCEPT !.step = "watch", !.found = a]
             b == [binding EXCEPT !.owned = @ \cup a]
  <2>1. started /\ sync.current /\ attached = sync.wallet /\ stop = NoStop
    BY <1>3 DEF Fresh, Standing, WatchInv, StopTakesOver
  <2>2. sync' = r /\ binding' = b /\ resync' = resync
    BY <1>3 DEF SyncList
  <2>3. /\ a \subseteq Scripts /\ sync.scripts \subseteq Registered(sync.from) \cup a
        /\ \A s \in a : entries[sync.from][s] = "none"
    BY <1>1 DEF SyncRecord, Registered
  <2>4. "watch" \in SyncSteps
    BY DEF SyncSteps
  <2>. HIDE DEF a
  <2>5. /\ r \in SyncRecord /\ r.step = "watch" /\ r.wallet = sync.wallet /\ r.from = sync.from
        /\ r.current = sync.current /\ r.scripts = sync.scripts /\ r.found = a
    BY <1>1, <2>3, <2>4 DEF SyncRecord
  <2>6. b \in BindingRecord /\ b.manager = binding.manager /\ b.owned = binding.owned \cup a
    BY <1>1, <2>3 DEF BindingRecord
  <2>7. b # NoBinding /\ b.manager # NoManager
    BY <1>1, <2>6, NothingTyped
  <2>. HIDE DEF r, b
  <2>8. SubscriptionTypeOK'
    BY <1>1, <2>2, <2>5, <2>6 DEF SubscriptionTypeOK
  <2>9. SyncBound' /\ SyncOwns' /\ StopTakesOver' /\ WritesOwn' /\ OthersKeepTheirs'
    BY <1>1, <2>1, <2>2, <2>3, <2>5, <2>6, <2>7, NothingTyped DEF WatchInv, SyncBound, SyncOwns,
       StopTakesOver, WritesOwn, OthersKeepTheirs, AtWork
  <2>10. Accounted'
    BY <1>1, <2>2, <2>5, <2>6 DEF WatchInv, Accounted, Answers, Mine
  <2>11. UpToDate' /\ DoneWhenQuiet'
    BY <1>1, <2>1, <2>2, <2>3, <2>5, <2>6 DEF WatchInv, UpToDate, DoneWhenQuiet, Registered
  <2>. QED  BY <2>8, <2>9, <2>10, <2>11 DEF WatchInv
<1>. QED  BY <1>2, <1>3

\* What a sync writes with its manager leaves alone what others registered.
LEMMA OwnWrites ==
    ASSUME WatchInv, NEW who \in {"none", "mine"}, sync.step \in {"watch", "drop", "unwatch"},
           Enter(sync.from, sync.found, who)
    PROVE  /\ entries' \in [Managers -> [Scripts -> Registrars]] /\ OthersKeepTheirs'
           /\ \A n \in Managers, s \in Scripts :
                 entries'[n][s] = IF n = sync.from /\ s \in sync.found THEN who ELSE entries[n][s]
<1>1. SubscriptionTypeOK /\ sync.from \in Managers
  BY DEF WatchInv, SyncBound, AtWork
<1>2. /\ entries' \in [Managers -> [Scripts -> Registrars]]
      /\ \A n \in Managers, s \in Scripts :
            entries'[n][s] = IF n = sync.from /\ s \in sync.found THEN who ELSE entries[n][s]
  BY <1>1, EnterSet
<1>3. \A s \in sync.found : entries[sync.from][s] # "other"
  BY DEF WatchInv, WritesOwn
<1>4. \A n \in Managers, s \in Scripts : entries'[n][s] = "other" <=> entries[n][s] = "other"
  BY <1>2, <1>3
<1>. QED  BY <1>2, <1>4 DEF WatchInv, OthersKeepTheirs

\* What was added is owned already.
LEMMA WatchedAccounted ==
    ASSUME WatchInv, sync.step = "watch", UNCHANGED <<binding, stop, lost>>,
           Enter(sync.from, sync.found, "mine")
    PROVE  \A m \in Managers \ lost : \A s \in Mine(m)' : binding.manager = m /\ s \in binding.owned
<1>1. \A n \in Managers, s \in Scripts :
         entries'[n][s] = IF n = sync.from /\ s \in sync.found THEN "mine" ELSE entries[n][s]
  BY OwnWrites
<1>2. sync.found \subseteq binding.owned /\ binding.manager = sync.from
  BY DEF WatchInv, SyncOwns, SyncBound, AtWork
<1>3. stop.step \notin {"detach", "drop"}
  BY NothingTyped DEF WatchInv, StopTakesOver
<1>4. \A m \in Managers \ lost : \A s \in Mine(m) : binding.manager = m /\ s \in binding.owned
  BY <1>3 DEF WatchInv, Accounted, Answers
<1>. QED  BY <1>1, <1>2, <1>4 DEF Mine

\* The live scripts are registered; what else is owned is to be let go.
LEMMA SyncWatchKeeps == ASSUME WatchInv, SyncWatch PROVE WatchInv'
<1>1. /\ sync.step = "watch" /\ UNCHANGED <<live, attached, started, stop, binding, owed, lost>>
      /\ Enter(sync.from, sync.found, "mine")
      /\ SubscriptionTypeOK /\ sync \in SyncRecord /\ binding \in BindingRecord
      /\ sync.from \in Managers \ {NoManager}
      /\ binding.manager = sync.from /\ sync.wallet = sync.from
      /\ stop.step \notin {"detach", "drop"}
  BY NothingTyped DEF SyncWatch, WatchInv, StopTakesOver, SyncBound, AtWork, SubscriptionTypeOK
<1>2. /\ entries' \in [Managers -> [Scripts -> Registrars]] /\ OthersKeepTheirs'
      /\ \A n \in Managers, s \in Scripts :
            entries'[n][s] = IF n = sync.from /\ s \in sync.found THEN "mine" ELSE entries[n][s]
  BY <1>1, OwnWrites
<1>3. \A m \in Managers \ lost : \A s \in Mine(m)' : binding.manager = m /\ s \in binding.owned
  BY <1>1, WatchedAccounted
<1>4. Accounted'
  BY <1>1, <1>3 DEF Accounted, Answers
<1>5. CASE ~Fresh
  <2>1. EndSync
    BY <1>5 DEF SyncWatch
  <2>2. ~(started /\ ~owed /\ ~resync)
    BY <1>1, <1>5 DEF Fresh, Standing, WatchInv, UpToDate
  <2>3. binding = NoBinding <=> binding.manager = NoManager
    BY DEF WatchInv, SyncBound
  <2>. QED  BY <1>1, <1>2, <1>4, <2>1, <2>2, <2>3, EndedKeeps DEF SubscriptionTypeOK
<1>6. CASE Fresh
  <2> DEFINE r == [sync EXCEPT !.step = "trim", !.scripts = binding.owned \ @]
  <2>1. started /\ sync.current /\ attached = sync.wallet /\ stop = NoStop
    BY <1>6 DEF Fresh, Standing, WatchInv, StopTakesOver
  <2>2. sync' = r /\ resync' = resync
    BY <1>6 DEF SyncWatch
  <2>3. "trim" \in SyncSteps
    BY DEF SyncSteps
  <2>4. /\ r \in SyncRecord /\ r.step = "trim" /\ r.wallet = sync.wallet /\ r.from = sync.from
        /\ r.current = sync.current /\ r.scripts = binding.owned \ sync.scripts
    BY <1>1, <2>3 DEF SyncRecord, BindingRecord
  <2>. HIDE DEF r
  <2>5. SubscriptionTypeOK'
    BY <1>1, <1>2, <2>2, <2>4 DEF SubscriptionTypeOK
  <2>6. SyncBound' /\ SyncOwns' /\ StopTakesOver' /\ WritesOwn'
    BY <1>1, <2>1, <2>2, <2>4, NothingTyped DEF WatchInv, SyncBound, SyncOwns, StopTakesOver,
       WritesOwn, AtWork
  <2>7. UpToDate'
    <3>1. Registered(attached)' = Registered(attached) \cup (sync.found \cap Scripts)
      BY <1>1, <1>2, <2>1 DEF Registered
    <3>2. live \subseteq Scripts
      BY <1>1 DEF SubscriptionTypeOK
    <3>. QED  BY <1>1, <2>1, <2>2, <2>4, <3>1, <3>2 DEF WatchInv, UpToDate
  <2>8. DoneWhenQuiet'
    BY <2>2, <2>4 DEF DoneWhenQuiet
  <2>. QED  BY <1>2, <1>4, <2>5, <2>6, <2>7, <2>8 DEF WatchInv
<1>. QED  BY <1>5, <1>6

\* What is no longer live is let go, and the sync is over.
LEMMA SyncUnwatchKeeps == ASSUME WatchInv, SyncUnwatch PROVE WatchInv'
<1> DEFINE b == [binding EXCEPT !.owned = @ \ sync.scripts]
<1>1. /\ sync.step = "unwatch" /\ UNCHANGED <<live, attached, started, stop, owed, lost>>
      /\ Enter(sync.from, sync.found, "none") /\ binding' = b /\ EndSync
      /\ SubscriptionTypeOK /\ sync \in SyncRecord /\ binding \in BindingRecord
      /\ sync.from \in Managers \ {NoManager}
      /\ binding.manager = sync.from /\ sync.wallet = sync.from
      /\ stop.step \notin {"detach", "drop"}
  BY NothingTyped DEF SyncUnwatch, WatchInv, StopTakesOver, SyncBound, AtWork, SubscriptionTypeOK
<1>2. /\ b \in BindingRecord /\ b.manager = binding.manager /\ b.owned = binding.owned \ sync.scripts
  BY <1>1 DEF BindingRecord
<1>3. b # NoBinding /\ b.manager # NoManager
  BY <1>1, <1>2, NothingTyped
<1>. HIDE DEF b
<1>4. /\ entries' \in [Managers -> [Scripts -> Registrars]] /\ OthersKeepTheirs'
      /\ \A n \in Managers, s \in Scripts :
            entries'[n][s] = IF n = sync.from /\ s \in sync.found THEN "none" ELSE entries[n][s]
  BY <1>1, OwnWrites
<1>5. Accounted'
  <2>1. \A m \in Managers \ lost : \A s \in Mine(m) : binding.manager = m /\ s \in binding.owned
    BY <1>1 DEF WatchInv, Accounted, Answers
  <2>2. sync.scripts \cap Mine(sync.from) \subseteq sync.found
    BY <1>1 DEF WatchInv, SyncOwns
  <2>3. \A m \in Managers \ lost : \A s \in Mine(m)' : binding'.manager = m /\ s \in binding'.owned
    BY <1>1, <1>2, <1>4, <2>1, <2>2 DEF Mine
  <2>. QED  BY <1>1, <2>3 DEF Accounted, Answers
<1>6. ASSUME started, ~owed, ~resync, attached # NoManager
      PROVE  /\ binding'.manager = attached /\ live \subseteq Registered(attached)'
             /\ binding'.owned \subseteq live
  <2>1. /\ sync.wallet = attached /\ live \subseteq Registered(attached)
        /\ sync.scripts \cap live = {} /\ binding.owned \subseteq live \cup sync.scripts
        /\ sync.found \subseteq sync.scripts
    BY <1>1, <1>6 DEF WatchInv, UpToDate
  <2>2. live \subseteq Registered(attached)'
    BY <1>1, <1>4, <2>1 DEF Registered
  <2>. QED  BY <1>1, <1>2, <2>1, <2>2
<1>. QED  BY <1>1, <1>2, <1>3, <1>4, <1>5, <1>6, EndedKeeps DEF SubscriptionTypeOK

\* A call that throws, done or not, leaves the rest to the next scan.
LEMMA SyncFailsKeeps == ASSUME WatchInv, SyncFails PROVE WatchInv'
<1>1. /\ sync.step \notin {"idle", "begin"} /\ EndSync /\ owed'
      /\ UNCHANGED <<live, attached, started, stop, binding>>
      /\ lost' = IF sync.step \in {"detach", "drop"} THEN lost \cup {sync.from} ELSE lost
      /\ SubscriptionTypeOK /\ binding \in BindingRecord
      /\ stop.step \notin {"detach", "drop"}
      /\ binding = NoBinding <=> binding.manager = NoManager
  BY NothingTyped DEF SyncFails, WatchInv, StopTakesOver, SyncBound, SubscriptionTypeOK
<1>2. \/ sync.step = "watch" /\ Enter(sync.from, sync.found, "mine")
      \/ sync.step \in {"drop", "unwatch"} /\ Enter(sync.from, sync.found, "none")
      \/ UNCHANGED entries
  BY DEF SyncFails
<1>3. sync.step \in {"detach", "drop"} => sync.from \in Managers
  BY DEF WatchInv, SyncBound
<1>4. lost' \subseteq Managers
  BY <1>1, <1>3 DEF SubscriptionTypeOK
<1>5. \A m \in Managers \ lost' : \A s \in Mine(m) : binding.manager = m /\ s \in binding.owned
  BY <1>1 DEF WatchInv, Accounted, Answers
<1>6. /\ entries' \in [Managers -> [Scripts -> Registrars]] /\ OthersKeepTheirs'
      /\ \A m \in Managers \ lost' : \A s \in Mine(m)' : binding.manager = m /\ s \in binding.owned
  <2>1. CASE sync.step = "watch" /\ Enter(sync.from, sync.found, "mine")
    <3>1. lost' = lost /\ UNCHANGED <<binding, stop, lost>>
      BY <1>1, <2>1
    <3>. QED  BY <2>1, <3>1, OwnWrites, WatchedAccounted
  <2>2. CASE sync.step \in {"drop", "unwatch"} /\ Enter(sync.from, sync.found, "none")
    <3>1. /\ entries' \in [Managers -> [Scripts -> Registrars]] /\ OthersKeepTheirs'
          /\ \A n \in Managers, s \in Scripts :
               entries'[n][s] = IF n = sync.from /\ s \in sync.found THEN "none" ELSE entries[n][s]
      BY <2>2, OwnWrites
    <3>. QED  BY <1>5, <3>1 DEF Mine
  <2>3. CASE UNCHANGED entries
    BY <1>1, <1>5, <2>3 DEF WatchInv, OthersKeepTheirs, Mine, SubscriptionTypeOK
  <2>. QED  BY <1>2, <2>1, <2>2, <2>3
<1>7. Accounted'
  BY <1>1, <1>6 DEF Accounted, Answers
<1>. QED  BY <1>1, <1>4, <1>6, <1>7, EndedKeeps

\* A start and a stop make the sync in progress an old one, and no more.
LEMMA OutdatedSync ==
    ASSUME Outdated, WatchInv
    PROVE  /\ sync' \in SyncRecord
           /\ sync' = NoSync <=> sync = NoSync
           /\ sync'.step = sync.step /\ sync'.wallet = sync.wallet /\ sync'.from = sync.from
           /\ sync'.scripts = sync.scripts /\ sync'.found = sync.found
<1>1. sync \in SyncRecord /\ (sync.step = "idle" => sync = NoSync)
  BY DEF WatchInv, SubscriptionTypeOK, SyncBound
<1>2. CASE sync = NoSync
  BY <1>1, <1>2 DEF Outdated
<1>3. CASE sync # NoSync
  BY <1>1, <1>3, NothingTyped DEF Outdated, SyncRecord
<1>. QED  BY <1>2, <1>3

LEMMA StartStopKeep == ASSUME WatchInv, StartWatcher \/ StopWatcher PROVE WatchInv'
<1> DEFINE r == [NoStop EXCEPT !.step = "settle", !.waits = AwaitsSync]
<1>1. /\ UNCHANGED <<live, attached, entries, binding, lost>> /\ Outdated /\ stop = NoStop
      /\ \/ started' /\ owed' /\ stop' = stop
         \/ started /\ ~started' /\ stop' = r
  BY DEF StartWatcher, StopWatcher
<1>2. /\ r \in StopRecord /\ r.step = "settle"
      /\ binding = NoBinding \/ sync = NoSync \/ r.waits
  BY NothingTyped DEF StopRecord, StopSteps, NoStop, AwaitsSync
<1>. HIDE DEF r
<1>3. SubscriptionTypeOK'
  <2>1. sync' \in SyncRecord
    BY <1>1, OutdatedSync
  <2>2. SubscriptionTypeOK
    BY DEF WatchInv
  <2>3. stop' \in StopRecord
    BY <1>1, <1>2, <2>2 DEF SubscriptionTypeOK
  <2>. QED  BY <1>1, <2>1, <2>2, <2>3 DEF SubscriptionTypeOK
<1>4. SyncBound' /\ SyncOwns' /\ OthersKeepTheirs'
  BY <1>1, OutdatedSync DEF WatchInv, SyncBound, SyncOwns, OthersKeepTheirs, AtWork, Mine
<1>5. StopTakesOver' /\ WritesOwn'
  BY <1>1, <1>2, OutdatedSync, NothingTyped DEF WatchInv, StopTakesOver, WritesOwn
<1>6. Accounted'
  BY <1>1, <1>2, OutdatedSync, NothingTyped DEF WatchInv, Accounted, Answers, Mine
<1>7. UpToDate' /\ DoneWhenQuiet'
  BY <1>1 DEF UpToDate, DoneWhenQuiet
<1>. QED  BY <1>3, <1>4, <1>5, <1>6, <1>7 DEF WatchInv

\* The stop has the binding once no sync works with it.
LEMMA StopSettledKeeps == ASSUME WatchInv, StopSettled PROVE WatchInv'
<1> DEFINE r == [stop EXCEPT !.step = "detach", !.from = binding.manager,
                             !.scripts = binding.owned]
<1>1. /\ stop.step = "settle" /\ (stop.waits => sync = NoSync) /\ ~started
      /\ UNCHANGED <<live, attached, entries, started, resync, sync, owed, lost>>
      /\ stop' = (IF binding = NoBinding THEN NoStop ELSE r) /\ binding' = NoBinding
      /\ SubscriptionTypeOK /\ binding \in BindingRecord /\ stop \in StopRecord
      /\ binding = NoBinding \/ sync = NoSync
  BY DEF StopSettled, WatchInv, SubscriptionTypeOK, StopTakesOver
<1>2. binding # NoBinding => binding.manager \in Managers
  BY <1>1 DEF WatchInv, SyncBound, BindingRecord
<1>3. "detach" \in StopSteps
  BY DEF StopSteps
<1>4. /\ r \in StopRecord /\ r.step = "detach" /\ r.from = binding.manager
      /\ r.scripts = binding.owned
  BY <1>1, <1>3 DEF StopRecord, BindingRecord
<1>. HIDE DEF r
<1>5. SubscriptionTypeOK'
  BY <1>1, <1>4, NothingTyped DEF SubscriptionTypeOK
<1>6. SyncBound' /\ SyncOwns' /\ OthersKeepTheirs'
  BY <1>1, NothingTyped DEF WatchInv, SyncBound, SyncOwns, OthersKeepTheirs, AtWork, Mine
<1>7. StopTakesOver' /\ WritesOwn'
  BY <1>1, <1>2, <1>4, NothingTyped DEF WatchInv, StopTakesOver, WritesOwn
<1>8. Accounted'
  BY <1>1, <1>4, NothingTyped DEF WatchInv, Accounted, Answers, Mine
<1>9. UpToDate' /\ DoneWhenQuiet'
  BY <1>1 DEF UpToDate, DoneWhenQuiet
<1>. QED  BY <1>5, <1>6, <1>7, <1>8, <1>9 DEF WatchInv

\* The stop finds what is the watcher's own, and lets it go or fails to.
LEMMA StopDetachKeeps == ASSUME WatchInv, StopDetach PROVE WatchInv'
<1> DEFINE f == stop.scripts \cap Mine(stop.from)
           r == [stop EXCEPT !.step = "drop", !.found = f]
<1>1. /\ stop.step = "detach" /\ stop' = r /\ ~started /\ stop.from \in Managers
      /\ UNCHANGED <<live, attached, entries, started, resync, sync, binding, owed, lost>>
      /\ SubscriptionTypeOK /\ stop \in StopRecord /\ binding = NoBinding /\ sync = NoSync
  BY DEF StopDetach, WatchInv, SubscriptionTypeOK, StopTakesOver
<1>2. f \subseteq Scripts /\ f \subseteq Mine(stop.from) /\ stop.scripts \cap Mine(stop.from) \subseteq f
  BY <1>1 DEF StopRecord
<1>3. "drop" \in StopSteps
  BY DEF StopSteps
<1>. HIDE DEF f
<1>4. r \in StopRecord /\ r.step = "drop" /\ r.from = stop.from /\ r.found = f
  BY <1>1, <1>2, <1>3 DEF StopRecord
<1>. HIDE DEF r
<1>5. SubscriptionTypeOK'
  BY <1>1, <1>4 DEF SubscriptionTypeOK
<1>6. SyncBound' /\ SyncOwns' /\ OthersKeepTheirs' /\ StopTakesOver'
  BY <1>1, <1>4, NothingTyped DEF WatchInv, SyncBound, SyncOwns, OthersKeepTheirs, AtWork, Mine,
     StopTakesOver
<1>7. WritesOwn'
  BY <1>1, <1>2, <1>4, NothingTyped DEF WritesOwn, Mine
<1>8. Accounted'
  BY <1>1, <1>2, <1>4, NothingTyped DEF WatchInv, Accounted, Answers, Mine
<1>9. UpToDate' /\ DoneWhenQuiet'
  BY <1>1 DEF UpToDate, DoneWhenQuiet
<1>. QED  BY <1>5, <1>6, <1>7, <1>8, <1>9 DEF WatchInv

\* See StopDetachKeeps.
LEMMA StopEndsKeeps == ASSUME WatchInv, StopDrop \/ StopFails PROVE WatchInv'
<1>1. /\ stop.step \in {"detach", "drop"} /\ stop' = NoStop /\ ~started /\ stop.from \in Managers
      /\ UNCHANGED <<live, attached, started, resync, sync, binding, owed>>
      /\ SubscriptionTypeOK /\ binding = NoBinding /\ sync = NoSync
      /\ \/ entries' = entries /\ lost' = lost \cup {stop.from}
         \/ stop.step = "drop" /\ Enter(stop.from, stop.found, "none") /\ lost' = lost
  BY DEF StopDrop, StopFails, WatchInv, StopTakesOver
<1>2. \A m \in Managers \ lost, s \in Scripts : entries[m][s] = "mine" =>
         m = stop.from /\ (stop.step = "drop" => s \in stop.found)
  BY <1>1, NothingTyped DEF WatchInv, Accounted, Answers, Mine
<1>3. /\ entries' \in [Managers -> [Scripts -> Registrars]] /\ OthersKeepTheirs'
      /\ \A m \in Managers \ lost', s \in Scripts : entries'[m][s] # "mine"
  <2>1. CASE entries' = entries /\ lost' = lost \cup {stop.from}
    BY <1>1, <1>2, <2>1 DEF SubscriptionTypeOK, WatchInv, OthersKeepTheirs
  <2>2. CASE stop.step = "drop" /\ Enter(stop.from, stop.found, "none") /\ lost' = lost
    <3>1. /\ entries' \in [Managers -> [Scripts -> Registrars]]
          /\ \A n \in Managers, s \in Scripts :
               entries'[n][s] = IF n = stop.from /\ s \in stop.found THEN "none" ELSE entries[n][s]
      BY <1>1, <2>2, EnterSet
    <3>2. \A s \in stop.found : entries[stop.from][s] # "other"
      BY <2>2 DEF WatchInv, WritesOwn
    <3>3. \A n \in Managers, s \in Scripts : entries'[n][s] = "other" <=> entries[n][s] = "other"
      BY <3>1, <3>2
    <3>4. OthersKeepTheirs'
      BY <3>3 DEF WatchInv, OthersKeepTheirs
    <3>. QED  BY <1>2, <2>2, <3>1, <3>4
  <2>. QED  BY <1>1, <2>1, <2>2
<1>4. SubscriptionTypeOK'
  BY <1>1, <1>3, NothingTyped DEF SubscriptionTypeOK
<1>5. SyncBound' /\ SyncOwns' /\ StopTakesOver' /\ WritesOwn'
  BY <1>1, NothingTyped DEF WatchInv, SyncBound, SyncOwns, StopTakesOver, WritesOwn, AtWork
<1>6. Accounted' /\ UpToDate' /\ DoneWhenQuiet'
  BY <1>1, <1>3 DEF Accounted, Mine, UpToDate, DoneWhenQuiet
<1>. QED  BY <1>3, <1>4, <1>5, <1>6 DEF WatchInv

-----------------------------------------------------------------------------
LEMMA SubscriptionSteps == WatchInv /\ [SubscriptionNext]_subscriptionVars => WatchInv'
<1>1. ASSUME WatchInv, SubscriptionNext PROVE WatchInv'
  BY <1>1, ScansKeep, MovesOnKeep, SyncBeginKeeps, DetachTrimKeep, SyncDropKeeps, SyncManagerKeeps,
     SyncListKeeps, SyncWatchKeeps, SyncUnwatchKeeps, SyncFailsKeeps, StartStopKeep,
     StopSettledKeeps, StopDetachKeeps, StopEndsKeeps DEF SubscriptionNext
<1>2. ASSUME WatchInv, UNCHANGED subscriptionVars PROVE WatchInv'
  BY <1>2 DEF subscriptionVars, WatchInv, SubscriptionTypeOK, SyncBound, SyncOwns, StopTakesOver,
     WritesOwn, OthersKeepTheirs, Accounted, Answers, UpToDate, DoneWhenQuiet, Mine, Registered
<1>. QED  BY <1>1, <1>2

\* Once nothing is in progress the watcher listens for exactly what is live, in the wallet
\* in use, and a stopped one for nothing; and what others registered stays theirs.
LEMMA WatchInvSuffices == WatchInv => WatchFollowsRows
<1> SUFFICES ASSUME WatchInv PROVE WatchFollowsRows
  OBVIOUS
<1>1. sync = NoSync /\ stop = NoStop =>
         \A m \in Managers \ lost : \A s \in Mine(m) : binding.manager = m /\ s \in binding.owned
  BY NothingTyped DEF WatchInv, Accounted, Answers
<1>2. CurrentWhenQuiet
  <2> SUFFICES ASSUME started, sync = NoSync, ~owed, attached # NoManager
               PROVE  /\ binding.manager = attached /\ live \subseteq Registered(attached)
                      /\ attached \notin lost => Mine(attached) \subseteq live
    BY DEF CurrentWhenQuiet
  <2>1. /\ binding.manager = attached /\ live \subseteq Registered(attached)
        /\ binding.owned \subseteq live
    BY NothingTyped DEF WatchInv, DoneWhenQuiet
  <2>2. stop = NoStop /\ attached \in Managers
    BY DEF WatchInv, StopTakesOver, SubscriptionTypeOK
  <2>. QED  BY <1>1, <2>1, <2>2
<1>3. NothingLeftBehind
  <2> SUFFICES ASSUME ~started, stop = NoStop, sync = NoSync
               PROVE  binding = NoBinding /\ \A m \in Managers \ lost : Mine(m) = {}
    BY DEF NothingLeftBehind
  <2>1. binding = NoBinding
    BY NothingTyped DEF WatchInv, StopTakesOver
  <2>. QED  BY <1>1, <2>1, NothingTyped
<1>. QED  BY <1>2, <1>3 DEF WatchInv, WatchFollowsRows

\* The watcher follows the rows and the wallet, through overlapping scans, failing calls,
\* stops and restarts, for any scripts, managers and registrations of other code.
THEOREM WatchAlwaysFollows == SubscriptionSpec => []WatchFollowsRows
<1>. QED  BY SubscriptionStarts, SubscriptionSteps, WatchInvSuffices, PTL DEF SubscriptionSpec

-----------------------------------------------------------------------------
(* The payouts of reclaimed advances. *)

(* What a request holds in its closure.                                    *)
CallsOK ==
    call \in [Calls -> {NoCall} \cup [step : {"building", "submitting", "answered"},
                                    graph : Graphs, token : 0 .. MaxTokens]]

(* A claim's token was never given before, and while its request builds    *)
(* nothing was committed under it.                                         *)
TokensAreFresh ==
    /\ \A r \in Rows : row[r].token <= tokens
    /\ \A p \in Calls : call[p].step = "building" =>
          /\ call[p].token <= tokens
          /\ HoldsRelease(row[call[p].graph.row], call[p].token) =>
                row[call[p].graph.row].expected = "pending"
          /\ \A q \in Calls \ {p} : call[q].step = "building" => call[q].token # call[p].token

(* A row that is committed to a graph: closed, or with its coins bound.    *)
Pays(g) ==
    \/ row[g.row].state = "released"
    \/ row[g.row].state = "releasing" /\ CommittedTo(g.row, g)

SubmittedIsCommitted ==
    \A p \in Calls : call[p].step \in {"submitting", "answered"} =>
        /\ Pays(call[p].graph)
        /\ call[p].step = "answered" \/ row[call[p].graph.row].state = "released" =>
              call[p].graph \in landed

LandedIsCommitted ==
    /\ \A g \in landed : Pays(g)
    /\ \A g, h \in landed : g.row = h.row => g = h
    /\ \A r \in Rows : row[r].state = "released" => \E g \in landed : g.row = r

CustodyInv ==
    /\ TypeOK /\ CallsOK
    /\ TokensAreFresh
    /\ SubmittedIsCommitted
    /\ LandedIsCommitted

-----------------------------------------------------------------------------
LEMMA CustodyInitInv == CustodyInit => CustodyInv
    BY CustodyAssumption
    DEF CustodyInit, CustodyInv, TypeOK, CallsOK, TokensAreFresh, SubmittedIsCommitted,
        LandedIsCommitted, NoCall, NoRow, None, Row, RowStates

(* The shape of a call that has begun.                                     *)
LEMMA CallShape ==
    ASSUME CallsOK, NEW p \in Calls, call[p].step # "idle"
    PROVE  /\ call[p] \in [step : {"building", "submitting", "answered"}, graph : Graphs,
                           token : 0 .. MaxTokens]
           /\ call[p].graph \in Graphs /\ call[p].token \in 0 .. MaxTokens
           /\ call[p].graph.row \in Rows /\ call[p].graph.coins \in SUBSET Floats
<1>1. call[p] \in [step : {"building", "submitting", "answered"}, graph : Graphs,
                  token : 0 .. MaxTokens]
    BY DEF CallsOK, NoCall
<1>2. call[p].graph \in Graphs
    BY <1>1
<1>3. \A g \in Graphs : g.row \in Rows /\ g.coins \in SUBSET Floats
    BY CustodyAssumption DEF Graphs
<1> QED BY <1>1, <1>2, <1>3

(* The only steps that touch a row are about one row: what the others are  *)
(* committed to stays.                                                     *)
LEMMA OthersAlone ==
    ASSUME CustodyInv, NEW r \in Rows, NEW w, row' = [row EXCEPT ![r] = w],
           \A c \in Floats : inputs'[c] = inputs[c] \/ (inputs[c] \in {None, r} /\ inputs'[c] \in {None, r})
    PROVE  /\ row'[r] = w
           /\ \A s \in Rows \ {r} : row'[s] = row[s] /\ Bound(s)' = Bound(s)
           /\ \A g \in Graphs : g.row # r => Pays(g)' = Pays(g)
<1> USE DEF CustodyInv
<1>1. row'[r] = w /\ \A s \in Rows \ {r} : row'[s] = row[s]
    BY DEF TypeOK
<1>2. \A s \in Rows \ {r} : Bound(s)' = Bound(s)
    BY CustodyAssumption DEF Bound, None
<1>3. \A g \in Graphs : g.row # r => Pays(g)' = Pays(g)
  <2> SUFFICES ASSUME NEW g \in Graphs, g.row # r PROVE Pays(g)' = Pays(g)
    OBVIOUS
  <2>1. g.row \in Rows \ {r}
    BY DEF Graphs
  <2> QED BY <1>1, <1>2, <2>1 DEF Pays, CommittedTo
<1> QED BY <1>1, <1>2, <1>3

(* A row nothing was committed to yet: it is named by no submitted call    *)
(* and paid by no landed graph.                                            *)
LEMMA Uncommitted ==
    ASSUME CustodyInv, NEW r \in Rows, row[r].state # "released",
           row[r].state # "releasing" \/ row[r].expected # "graph"
    PROVE  /\ \A g \in landed : g.row # r
           /\ \A p \in Calls : call[p].step \in {"submitting", "answered"} => call[p].graph.row # r
    BY DEF CustodyInv, Pays, CommittedTo, SubmittedIsCommitted, LandedIsCommitted

(* A request that stops leaves what it has done.                           *)
LEMMA CallEnds ==
    ASSUME CustodyInv, NEW p \in Calls, call' = [call EXCEPT ![p] = NoCall]
    PROVE  /\ CallsOK'
           /\ \A q \in Calls : q # p => call'[q] = call[q]
           /\ call'[p].step = "idle"
    BY DEF CustodyInv, CallsOK, NoCall

(* A row that is nobody's takes a value that is not committed either.      *)
LEMMA FreeRowStep ==
    ASSUME CustodyInv, TypeOK', NEW r \in Rows, NEW w, row' = [row EXCEPT ![r] = w],
           row[r].state # "released", row[r].state # "releasing" \/ row[r].expected # "graph",
           w.state # "released", UNCHANGED <<landed>>,
           \A c \in Floats : inputs'[c] = inputs[c] \/ (inputs[c] \in {None, r} /\ inputs'[c] \in {None, r}),
           \A q \in Calls : call'[q].step \in {"submitting", "answered"} => call'[q] = call[q]
    PROVE  SubmittedIsCommitted' /\ LandedIsCommitted'
<1> USE DEF CustodyInv
<1>1. /\ row'[r] = w /\ \A s \in Rows \ {r} : row'[s] = row[s]
      /\ \A g \in Graphs : g.row # r => Pays(g)' = Pays(g)
    BY OthersAlone
<1>2. /\ \A g \in landed : g.row # r
      /\ \A q \in Calls : call[q].step \in {"submitting", "answered"} => call[q].graph.row # r
    BY Uncommitted
<1>3. \A g \in landed : Pays(g)'
    BY <1>1, <1>2 DEF LandedIsCommitted, TypeOK
<1>4. \A s \in Rows : row'[s].state = "released" => row[s].state = "released"
    BY <1>1
<1>5. LandedIsCommitted'
    BY <1>3, <1>4 DEF LandedIsCommitted
<1>6. SubmittedIsCommitted'
  <2> SUFFICES ASSUME NEW q \in Calls, call'[q].step \in {"submitting", "answered"}
               PROVE  (/\ Pays(call[q].graph)
                       /\ call[q].step = "answered" \/ row[call[q].graph.row].state = "released" =>
                             call[q].graph \in landed)'
    BY DEF SubmittedIsCommitted
  <2>1. call'[q] = call[q] /\ call[q].step \in {"submitting", "answered"}
    OBVIOUS
  <2>2. call[q].graph \in Graphs /\ call[q].graph.row \in Rows \ {r}
    BY <1>2, <2>1, CallShape
  <2> QED BY <1>1, <2>1, <2>2 DEF SubmittedIsCommitted
<1> QED BY <1>5, <1>6

-----------------------------------------------------------------------------
(* The custody row opens, or is written off: it has no claim.              *)
LEMMA OpenStep == CustodyInv /\ (\E r \in Rows : OpenCustodyRow(r) \/ WriteOff(r)) => CustodyInv'
<1> SUFFICES ASSUME CustodyInv, NEW r \in Rows, OpenCustodyRow(r) \/ WriteOff(r) PROVE CustodyInv'
    OBVIOUS
<1> USE DEF CustodyInv
<1> DEFINE w == row'[r]
<1>1. /\ row' = [row EXCEPT ![r] = w] /\ w \in Row /\ w.state \in {"held", "forfeit"}
      /\ w.token \in {0, row[r].token} /\ row[r].state \in {None, "held"}
  <2>1. CASE OpenCustodyRow(r)
    <3>1. w = [NoRow EXCEPT !.state = "held", !.expiresAt = now + Window]
        BY <2>1 DEF OpenCustodyRow, TypeOK
    <3>2. now + Window \in 0 .. MaxTime + Window
        BY CustodyAssumption DEF TypeOK
    <3>3. 0 \in 0 .. MaxTokens /\ 0 \in 0 .. MaxTime + LeaseTicks
        BY CustodyAssumption
    <3>4. w \in Row
        BY <3>1, <3>2, <3>3 DEF NoRow, Row, RowStates, None
    <3>5. row' = [row EXCEPT ![r] = w]
        BY <2>1, <3>1 DEF OpenCustodyRow
    <3>6. w.state = "held" /\ w.token = 0
        BY <3>1 DEF NoRow
    <3>7. row[r].state = None
        BY <2>1 DEF OpenCustodyRow
    <3> QED BY <3>4, <3>5, <3>6, <3>7
  <2>2. CASE WriteOff(r)
    <3>1. w = [row[r] EXCEPT !.state = "forfeit"] /\ row[r] \in Row
        BY <2>2 DEF WriteOff, TypeOK
    <3> QED BY <2>2, <3>1 DEF WriteOff, Row, RowStates, None, TypeOK
  <2> QED BY <2>1, <2>2
<1>2. UNCHANGED <<inputs, call, spent, landed, now, tokens>>
    BY DEF OpenCustodyRow, WriteOff
<1> HIDE DEF w
<1>3. TypeOK' /\ CallsOK'
    BY <1>1, <1>2 DEF TypeOK, CallsOK
<1>4. TokensAreFresh'
  <2>1. \A s \in Rows : row'[s].token <= tokens
    BY <1>1, CustodyAssumption DEF TypeOK, TokensAreFresh
  <2>2. \A token : \A s \in Rows : HoldsRelease(row'[s], token) =>
            HoldsRelease(row[s], token) /\ row'[s] = row[s]
    BY <1>1 DEF HoldsRelease, TypeOK
  <2>3. \A q \in Calls : call[q].step = "building" => call[q].graph.row \in Rows
    BY CallShape
  <2> QED BY <1>2, <2>1, <2>2, <2>3 DEF TokensAreFresh
<1>5. SubmittedIsCommitted' /\ LandedIsCommitted'
    BY <1>1, <1>2, <1>3, FreeRowStep DEF None
<1> QED BY <1>3, <1>4, <1>5

-----------------------------------------------------------------------------
(* Steps of a request that touch no row that is committed.                 *)

(* What a request that prepares may do: its row, still free, takes a value *)
(* with its token or none, and no later claim is disturbed.                *)
LEMMA BuilderStep ==
    ASSUME CustodyInv, TypeOK', NEW p \in Calls, NEW r \in Rows, NEW w \in Row, row' = [row EXCEPT ![r] = w],
           call[p].step = "building", call[p].graph.row = r, HoldsRelease(row[r], call[p].token),
           call' = [call EXCEPT ![p] = NoCall], UNCHANGED <<landed, tokens>>,
           w.state # "released", w.token \in {0, row[r].token},
           w.state = "releasing" => w.token = row[r].token,
           \A c \in Floats : inputs'[c] = inputs[c] \/ (inputs[c] \in {None, r} /\ inputs'[c] \in {None, r})
    PROVE  CustodyInv'
<1> USE DEF CustodyInv
<1>1. /\ CallsOK' /\ call'[p].step = "idle"
      /\ \A q \in Calls : q # p => call'[q] = call[q]
    BY CallEnds
<1>2. row[r].expected = "pending" /\ row[r].state = "releasing"
    BY DEF TokensAreFresh, HoldsRelease
<1>3. SubmittedIsCommitted' /\ LandedIsCommitted'
  <2>1. \A q \in Calls : call'[q].step \in {"submitting", "answered"} => call'[q] = call[q]
    BY <1>1
  <2> QED BY <1>2, <2>1, FreeRowStep
<1>4. row'[r] = w /\ \A s \in Rows \ {r} : row'[s] = row[s]
    BY DEF TypeOK
<1>5. \A s \in Rows : row'[s].token <= tokens'
    BY <1>4, CustodyAssumption DEF TokensAreFresh, TypeOK
<1>6. ASSUME NEW q \in Calls, call'[q].step = "building"
      PROVE  (/\ call[q].token <= tokens
              /\ HoldsRelease(row[call[q].graph.row], call[q].token) =>
                    row[call[q].graph.row].expected = "pending"
              /\ \A o \in Calls \ {q} : call[o].step = "building" => call[o].token # call[q].token)'
  <2>1. q # p /\ call'[q] = call[q]
    BY <1>1, <1>6
  <2>2. call[q].graph.row \in Rows /\ call[q].token # call[p].token
    BY <1>6, <2>1, CallShape DEF TokensAreFresh
  <2>3. HoldsRelease(row'[call[q].graph.row], call[q].token) =>
            row'[call[q].graph.row].expected = "pending"
    BY <1>4, <1>6, <2>1, <2>2 DEF HoldsRelease, TokensAreFresh
  <2>4. \A o \in Calls \ {q} : call'[o].step = "building" => call'[o].token # call[q].token
    BY <1>1, <1>6, <2>1 DEF TokensAreFresh
  <2> QED BY <1>6, <2>1, <2>3, <2>4 DEF TokensAreFresh
<1>7. TokensAreFresh'
    BY <1>5, <1>6 DEF TokensAreFresh
<1> QED BY <1>1, <1>3, <1>7

(* A request starts, ends or stops: the table is as it was.                *)
LEMMA CallStep ==
    ASSUME CustodyInv, TypeOK', CallsOK', NEW p \in Calls, UNCHANGED <<row, inputs, landed, tokens>>,
           \A q \in Calls : q # p => call'[q] = call[q],
           call'[p].step # "building",
           call'[p].step # "answered",
           call'[p].step = "submitting" =>
              Pays(call'[p].graph) /\ row[call'[p].graph.row].state # "released"
    PROVE  CustodyInv'
<1> USE DEF CustodyInv
<1>1. /\ \A g : Pays(g)' = Pays(g)
      /\ \A r, token : HoldsRelease(row[r], token)' = HoldsRelease(row[r], token)
    BY DEF Pays, CommittedTo, Bound, HoldsRelease
<1>2. TokensAreFresh'
    BY <1>1 DEF TokensAreFresh
<1>3. SubmittedIsCommitted'
    BY <1>1 DEF SubmittedIsCommitted
<1>4. LandedIsCommitted'
    BY <1>1 DEF LandedIsCommitted
<1> QED BY <1>2, <1>3, <1>4

LEMMA PrepareStartStep ==
    CustodyInv /\ (\E p \in Calls, r \in Rows, plan \in Payouts : PrepareStart(p, r, plan)) => CustodyInv'
<1> SUFFICES ASSUME CustodyInv, NEW p \in Calls, NEW r \in Rows, NEW plan \in Payouts, PrepareStart(p, r, plan)
             PROVE  CustodyInv'
    OBVIOUS
<1> USE DEF CustodyInv
<1> DEFINE w == Claimed(row[r], tokens + 1)
           o == [step |-> "building", graph |-> [row |-> r, coins |-> plan], token |-> tokens + 1]
<1>1. /\ row' = [row EXCEPT ![r] = w] /\ call' = [call EXCEPT ![p] = o] /\ call[p] = NoCall
      /\ tokens' = tokens + 1 /\ UNCHANGED <<inputs, spent, landed, now>> /\ row[r].state = "held"
    BY DEF PrepareStart, Releasable
<1>2. tokens \in 0 .. MaxTokens /\ tokens + 1 \in 0 .. MaxTokens /\ MaxTokens \in Nat
    BY CustodyAssumption DEF PrepareStart, TypeOK
<1>3. w \in Row /\ w.state = "releasing" /\ w.token = tokens + 1 /\ w.expected = "pending"
  <2>1. row[r] \in Row /\ now + LeaseTicks \in 0 .. MaxTime + LeaseTicks
    BY CustodyAssumption DEF TypeOK
  <2> QED BY <1>2, <2>1 DEF Row, RowStates, Claimed
<1>4. o \in [step : {"building", "submitting", "answered"}, graph : Graphs, token : 0 .. MaxTokens]
    BY <1>2 DEF Graphs
<1>5. /\ o.step = "building" /\ o.token = tokens + 1 /\ o.graph.row = r
    OBVIOUS
<1> HIDE DEF w, o
<1>6. TypeOK' /\ CallsOK'
    BY <1>1, <1>2, <1>3, <1>4 DEF TypeOK, CallsOK
<1>7. /\ call'[p] = o /\ \A q \in Calls : q # p => call'[q] = call[q]
      /\ row'[r] = w /\ \A s \in Rows : s # r => row'[s] = row[s]
    BY <1>1 DEF CallsOK, TypeOK
<1>8. SubmittedIsCommitted' /\ LandedIsCommitted'
  <2>1. \A q \in Calls : call'[q].step \in {"submitting", "answered"} => call'[q] = call[q]
    BY <1>5, <1>7
  <2> QED BY <1>1, <1>3, <1>6, <2>1, FreeRowStep
<1>9. TokensAreFresh'
  <2>1. \A s \in Rows : row'[s].token <= tokens'
    <3>1. \A s \in Rows : row[s].token <= tokens /\ row[s].token \in 0 .. MaxTokens
        BY DEF TokensAreFresh, TypeOK, Row
    <3> QED BY <1>1, <1>2, <1>3, <1>7, <3>1
  <2>2. \A q \in Calls : call[q].step = "building" =>
            call[q].token <= tokens /\ call[q].token \in 0 .. MaxTokens /\ call[q].graph.row \in Rows
    BY CallShape DEF TokensAreFresh
  <2>3. \A q \in Calls : call[q].step = "building" => call[q].token # tokens + 1
    BY <1>2, <2>2
  <2>4. ASSUME NEW q \in Calls, call'[q].step = "building"
        PROVE  (/\ call[q].token <= tokens
                /\ HoldsRelease(row[call[q].graph.row], call[q].token) =>
                      row[call[q].graph.row].expected = "pending"
                /\ \A u \in Calls \ {q} : call[u].step = "building" => call[u].token # call[q].token)'
    <3>1. CASE q = p
        BY <1>1, <1>2, <1>3, <1>5, <1>7, <2>3, <3>1 DEF HoldsRelease
    <3>2. CASE q # p
      <4>1. call'[q] = call[q] /\ call[q].step = "building"
        BY <1>7, <2>4, <3>2
      <4>2. call[q].token <= tokens'
        BY <1>1, <1>2, <2>2, <4>1
      <4>3. HoldsRelease(row'[call[q].graph.row], call[q].token) =>
                row'[call[q].graph.row].expected = "pending"
        BY <1>3, <1>7, <2>2, <4>1 DEF HoldsRelease, TokensAreFresh
      <4>4. \A u \in Calls \ {q} : call'[u].step = "building" => call'[u].token # call[q].token
        BY <1>5, <1>7, <2>3, <4>1 DEF TokensAreFresh
      <4> QED BY <4>1, <4>2, <4>3, <4>4
    <3> QED BY <3>1, <3>2
  <2> QED BY <2>1, <2>4 DEF TokensAreFresh
<1> QED BY <1>6, <1>8, <1>9
LEMMA BuildEndsStep == CustodyInv /\ (\E p \in Calls : PrepareBind(p) \/ PrepareFail(p)) => CustodyInv'
<1> SUFFICES ASSUME CustodyInv, NEW p \in Calls, PrepareBind(p) \/ PrepareFail(p) PROVE CustodyInv'
    OBVIOUS
<1> USE DEF CustodyInv
<1> DEFINE g == call[p].graph
           r == g.row
           token == call[p].token
<1>1. /\ call[p].step = "building" /\ call' = [call EXCEPT ![p] = NoCall]
      /\ UNCHANGED <<spent, landed, now, tokens>>
    BY DEF PrepareBind, PrepareFail
<1>2. r \in Rows /\ g.coins \in SUBSET Floats
    BY <1>1, CallShape
<1>3. CallsOK' /\ call'[p].step = "idle" /\ \A q \in Calls : q # p => call'[q] = call[q]
    BY <1>1, CallEnds
<1>4. ASSUME HoldsRelease(row[r], token), row' = [row EXCEPT ![r] = Abandoned(row[r])], inputs' = Freed(r)
      PROVE  CustodyInv'
  <2> DEFINE w == Abandoned(row[r])
  <2>1. w \in Row /\ w.state = "held" /\ w.token = 0
    <3>1. row[r] \in Row /\ 0 \in 0 .. MaxTokens /\ 0 \in 0 .. MaxTime + LeaseTicks
        BY <1>2, CustodyAssumption DEF TypeOK
    <3> QED BY <3>1 DEF Abandoned, Row, RowStates, None
  <2> HIDE DEF w
  <2>2. \A c \in Floats : inputs'[c] = inputs[c] \/ (inputs[c] \in {None, r} /\ inputs'[c] \in {None, r})
    BY <1>4 DEF Freed
  <2>3. TypeOK'
    BY <1>1, <1>4, <2>1 DEF TypeOK, Freed, w
  <2>4. row' = [row EXCEPT ![r] = w] /\ call[p].graph.row = r /\ HoldsRelease(row[r], call[p].token)
    BY <1>4 DEF w
  <2> HIDE DEF r, token, g
  <2> QED BY <1>1, <1>2, <2>1, <2>2, <2>3, <2>4, BuilderStep
<1>5. CASE UNCHANGED <<row, inputs>>
  <2>1. TypeOK'
    BY <1>1, <1>5 DEF TypeOK
  <2> QED BY <1>1, <1>3, <1>5, <2>1, CallStep
<1>6. ASSUME HoldsRelease(row[r], token), ~Conflicts(r, g.coins),
             row' = [row EXCEPT ![r].expected = "graph"],
             inputs' = [c \in Floats |-> IF c \in g.coins THEN r ELSE Freed(r)[c]]
      PROVE  CustodyInv'
  <2> DEFINE w == [row[r] EXCEPT !.expected = "graph"]
  <2>1. w \in Row /\ w.state = "releasing" /\ w.token = row[r].token /\ row' = [row EXCEPT ![r] = w]
    <3>1. row[r] \in Row
        BY <1>2 DEF TypeOK
    <3> QED BY <1>6, <3>1 DEF Row, HoldsRelease
  <2> HIDE DEF w
  <2>2. \A c \in Floats : inputs'[c] = inputs[c] \/ (inputs[c] \in {None, r} /\ inputs'[c] \in {None, r})
    BY <1>6 DEF Freed, Conflicts
  <2>3. inputs' \in [Floats -> Rows \cup {None}]
    BY <1>2, <1>6 DEF TypeOK, Freed
  <2>4. row' \in [Rows -> Row]
    BY <2>1 DEF TypeOK
  <2>5. TypeOK'
    BY <1>1, <2>3, <2>4 DEF TypeOK
  <2>6. call[p].graph.row = r /\ HoldsRelease(row[r], call[p].token)
    BY <1>6
  <2> HIDE DEF r, token, g
  <2> QED BY <1>1, <1>2, <2>1, <2>2, <2>5, <2>6, BuilderStep
<1> QED BY <1>4, <1>5, <1>6 DEF PrepareBind, PrepareFail, AbandonRelease

-----------------------------------------------------------------------------
(* Steps of a request that completes a payout.                             *)

LEMMA CompleteStartStep == CustodyInv /\ (\E p \in Calls, g \in Graphs : CompleteStart(p, g)) => CustodyInv'
<1> SUFFICES ASSUME CustodyInv, NEW p \in Calls, NEW g \in Graphs, CompleteStart(p, g) PROVE CustodyInv'
    OBVIOUS
<1> USE DEF CustodyInv
<1> DEFINE o == [step |-> "submitting", graph |-> g, token |-> row[g.row].token]
<1>1. /\ call' = [call EXCEPT ![p] = o] /\ UNCHANGED <<row, inputs, spent, landed, now, tokens>>
      /\ row[g.row].state = "releasing" /\ CommittedTo(g.row, g)
    BY DEF CompleteStart
<1>2. o \in [step : {"building", "submitting", "answered"}, graph : Graphs, token : 0 .. MaxTokens]
  <2>1. g.row \in Rows
    BY DEF Graphs
  <2> QED BY <2>1 DEF TypeOK, Row
<1>3. o.step = "submitting" /\ o.graph = g
    OBVIOUS
<1> HIDE DEF o
<1>4. CallsOK' /\ TypeOK'
    BY <1>1, <1>2 DEF CallsOK, TypeOK
<1>5. call'[p] = o /\ \A q \in Calls : q # p => call'[q] = call[q]
    BY <1>1 DEF CallsOK
<1>6. Pays(g)
    BY <1>1 DEF Pays
<1> QED BY <1>1, <1>3, <1>4, <1>5, <1>6, CallStep

(* The same row is committed to one graph.                                 *)
LEMMA CommittedOnce ==
    ASSUME CustodyInv, NEW g \in Graphs, NEW h \in Graphs, g.row = h.row, row[g.row].state # "released",
           Pays(g), Pays(h)
    PROVE  g = h
<1>1. g.coins = h.coins
    BY DEF Pays, CommittedTo
<1>2. g = [row |-> g.row, coins |-> g.coins] /\ h = [row |-> h.row, coins |-> h.coins]
    BY DEF Graphs
<1> QED BY <1>1, <1>2

(* A submitted graph lands: it is the one its row is committed to.         *)
LEMMA LandsStep ==
    ASSUME CustodyInv, TypeOK', CallsOK', NEW p \in Calls, call[p].step = "submitting",
           landed' \in {landed, landed \cup {call[p].graph}}, UNCHANGED <<row, inputs, tokens>>,
           \A q \in Calls : q # p => call'[q] = call[q],
           \/ call'[p].step = "idle"
           \/ call'[p].step = "answered" /\ call'[p].graph = call[p].graph /\ call[p].graph \in landed'
    PROVE  CustodyInv'
<1> USE DEF CustodyInv
<1> DEFINE g == call[p].graph
<1>1. /\ \A h : Pays(h)' = Pays(h)
      /\ \A r, token : HoldsRelease(row[r], token)' = HoldsRelease(row[r], token)
    BY DEF Pays, CommittedTo, Bound, HoldsRelease
<1>2. g \in Graphs /\ Pays(g) /\ (row[g.row].state = "released" => g \in landed)
    BY CallShape DEF SubmittedIsCommitted
<1>3. \A h \in landed : h.row = g.row => h = g
    BY <1>2, CommittedOnce DEF LandedIsCommitted, TypeOK
<1>4. LandedIsCommitted'
    BY <1>1, <1>2, <1>3 DEF LandedIsCommitted
<1>5. TokensAreFresh'
    BY <1>1 DEF TokensAreFresh
<1>6. SubmittedIsCommitted'
  <2> SUFFICES ASSUME NEW q \in Calls, call'[q].step \in {"submitting", "answered"}
               PROVE  (/\ Pays(call[q].graph)
                       /\ call[q].step = "answered" \/ row[call[q].graph.row].state = "released" =>
                             call[q].graph \in landed)'
    BY DEF SubmittedIsCommitted
  <2>1. CASE q = p
    BY <1>1, <1>2, <2>1
  <2>2. CASE q # p
    BY <1>1, <2>2 DEF SubmittedIsCommitted
  <2> QED BY <2>1, <2>2
<1> QED BY <1>4, <1>5, <1>6

LEMMA SubmitStep == CustodyInv /\ (\E p \in Calls : SubmitAnswered(p) \/ SubmitFailed(p)) => CustodyInv'
<1> SUFFICES ASSUME CustodyInv, NEW p \in Calls, SubmitAnswered(p) \/ SubmitFailed(p) PROVE CustodyInv'
    OBVIOUS
<1> USE DEF CustodyInv
<1>1. /\ call[p].step = "submitting" /\ UNCHANGED <<row, inputs, now, tokens>>
      /\ landed' \in {landed, landed \cup {call[p].graph}}
      /\ spent' \in {spent, spent \cup call[p].graph.coins}
    BY DEF SubmitAnswered, SubmitFailed
<1>2. /\ call[p] \in [step : {"building", "submitting", "answered"}, graph : Graphs, token : 0 .. MaxTokens]
      /\ call[p].graph \in Graphs /\ call[p].graph.coins \in SUBSET Floats
    BY <1>1, CallShape
<1>3. TypeOK'
    BY <1>1, <1>2 DEF TypeOK
<1>4. CASE SubmitAnswered(p)
  <2> DEFINE o == [call[p] EXCEPT !.step = "answered"]
  <2>1. /\ o \in [step : {"building", "submitting", "answered"}, graph : Graphs, token : 0 .. MaxTokens]
        /\ o.step = "answered" /\ o.graph = call[p].graph
    BY <1>2
  <2>2. call' = [call EXCEPT ![p] = o] /\ call[p].graph \in landed'
    BY <1>4 DEF SubmitAnswered
  <2> HIDE DEF o
  <2>3. CallsOK' /\ call'[p] = o /\ \A q \in Calls : q # p => call'[q] = call[q]
    BY <2>1, <2>2 DEF CallsOK
  <2> QED BY <1>1, <1>3, <2>1, <2>2, <2>3, LandsStep
<1>5. CASE SubmitFailed(p)
  <2>1. CallsOK' /\ call'[p].step = "idle" /\ \A q \in Calls : q # p => call'[q] = call[q]
    BY <1>5, CallEnds DEF SubmitFailed
  <2> QED BY <1>1, <1>3, <2>1, LandsStep
<1> QED BY <1>4, <1>5

LEMMA RecordStep == CustodyInv /\ (\E p \in Calls : RecordReleased(p)) => CustodyInv'
<1> SUFFICES ASSUME CustodyInv, NEW p \in Calls, RecordReleased(p) PROVE CustodyInv'
    OBVIOUS
<1> USE DEF CustodyInv
<1> DEFINE g == call[p].graph
           r == g.row
           w == Released(row[r])
<1>1. /\ call[p].step = "answered" /\ UNCHANGED <<spent, landed, now, tokens>>
      /\ call' = [call EXCEPT ![p] = NoCall]
    BY DEF RecordReleased
<1>2. CallsOK' /\ call'[p].step = "idle" /\ \A q \in Calls : q # p => call'[q] = call[q]
    BY <1>1, CallEnds
<1>3. g \in Graphs /\ r \in Rows /\ Pays(g) /\ g \in landed
    BY <1>1, CallShape DEF SubmittedIsCommitted
<1>4. CASE UNCHANGED <<row, inputs>>
  <2>1. TypeOK'
    BY <1>1, <1>4 DEF TypeOK
  <2> QED BY <1>1, <1>2, <1>4, <2>1, CallStep
<1>5. CASE /\ row[r].state = "releasing" /\ row' = [row EXCEPT ![r] = w] /\ inputs' = Freed(r)
  <2>1. w \in Row /\ w.state = "released" /\ w.token = 0
    <3>1. row[r] \in Row /\ 0 \in 0 .. MaxTokens /\ 0 \in 0 .. MaxTime + LeaseTicks
        BY <1>3, CustodyAssumption DEF TypeOK
    <3> QED BY <3>1 DEF Released, Row, RowStates
  <2>2. TypeOK'
    BY <1>1, <1>5, <2>1 DEF TypeOK, Freed
  <2> HIDE DEF w
  <2>3. \A c \in Floats : inputs'[c] = inputs[c] \/ (inputs[c] \in {None, r} /\ inputs'[c] \in {None, r})
    BY <1>5 DEF Freed
  <2> HIDE DEF g, r
  <2>4. /\ row'[r] = w /\ \A s \in Rows \ {r} : row'[s] = row[s]
        /\ \A h \in Graphs : h.row # r => Pays(h)' = Pays(h)
    BY <1>3, <1>5, <2>3, OthersAlone
  <2>5. r = g.row
    BY DEF r
  <2>6. \A h \in Graphs : h.row = r => Pays(h)'
    BY <2>1, <2>4 DEF Pays
  <2>7. \A h \in Graphs : h.row = r /\ Pays(h) => h \in landed
    BY <1>3, <1>5, <2>5, CommittedOnce
  <2>8. LandedIsCommitted'
    BY <1>1, <1>3, <2>4, <2>5, <2>6 DEF LandedIsCommitted, TypeOK
  <2>9. SubmittedIsCommitted'
    <3> SUFFICES ASSUME NEW q \in Calls, call'[q].step \in {"submitting", "answered"}
                 PROVE  (/\ Pays(call[q].graph)
                         /\ call[q].step = "answered" \/ row[call[q].graph.row].state = "released" =>
                               call[q].graph \in landed)'
        BY DEF SubmittedIsCommitted
    <3>1. call'[q] = call[q] /\ call[q].step \in {"submitting", "answered"}
        BY <1>2
    <3>2. /\ call[q].graph \in Graphs /\ call[q].graph.row \in Rows /\ Pays(call[q].graph)
          /\ call[q].step = "answered" \/ row[call[q].graph.row].state = "released" =>
                call[q].graph \in landed
        BY <3>1, CallShape DEF SubmittedIsCommitted
    <3>3. CASE call[q].graph.row = r
        BY <1>1, <2>6, <2>7, <3>1, <3>2, <3>3
    <3>4. CASE call[q].graph.row # r
        BY <1>1, <2>4, <3>1, <3>2, <3>4
    <3> QED BY <3>3, <3>4
  <2>10. TokensAreFresh'
    <3>1. \A s \in Rows : row'[s].token <= tokens
        BY <2>1, <2>4, CustodyAssumption DEF TypeOK, TokensAreFresh
    <3>2. \A token : \A s \in Rows : HoldsRelease(row'[s], token) =>
              HoldsRelease(row[s], token) /\ row'[s] = row[s]
        BY <2>1, <2>4 DEF HoldsRelease
    <3>3. \A q \in Calls : call'[q].step = "building" =>
              /\ call'[q] = call[q] /\ call[q].step = "building" /\ call[q].graph.row \in Rows
        BY <1>2, CallShape
    <3>4. ASSUME NEW q \in Calls, call'[q].step = "building"
          PROVE  (/\ call[q].token <= tokens
                  /\ HoldsRelease(row[call[q].graph.row], call[q].token) =>
                        row[call[q].graph.row].expected = "pending"
                  /\ \A u \in Calls \ {q} : call[u].step = "building" => call[u].token # call[q].token)'
      <4>1. call'[q] = call[q] /\ call[q].step = "building" /\ call[q].graph.row \in Rows
        BY <3>3, <3>4
      <4>2. call[q].token <= tokens'
        BY <1>1, <4>1 DEF TokensAreFresh
      <4>3. HoldsRelease(row'[call[q].graph.row], call[q].token) =>
                row'[call[q].graph.row].expected = "pending"
        BY <3>2, <4>1 DEF TokensAreFresh
      <4>4. \A u \in Calls \ {q} : call'[u].step = "building" => call'[u].token # call[q].token
        BY <3>3, <4>1 DEF TokensAreFresh
      <4> QED BY <4>1, <4>2, <4>3, <4>4
    <3> QED BY <1>1, <3>1, <3>4 DEF TokensAreFresh
  <2> QED BY <1>2, <2>2, <2>8, <2>9, <2>10
<1> QED BY <1>4, <1>5 DEF RecordReleased, HoldsRelease

LEMMA QuietStep ==
    CustodyInv /\ ((\E p \in Calls : CrashRequest(p)) \/ (\E c \in Floats : SpendElsewhere(c)) \/ Tick) => CustodyInv'
<1>1. ASSUME CustodyInv, NEW p \in Calls, CrashRequest(p) PROVE CustodyInv'
  <2>1. /\ CallsOK' /\ call'[p].step = "idle" /\ \A q \in Calls : q # p => call'[q] = call[q]
        /\ UNCHANGED <<row, inputs, landed, tokens>>
    BY <1>1, CallEnds DEF CrashRequest
  <2>2. TypeOK'
    BY <1>1 DEF CrashRequest, CustodyInv, TypeOK
  <2> QED BY <1>1, <2>1, <2>2, CallStep
<1>2. ASSUME CustodyInv, UNCHANGED <<row, inputs, call, landed, tokens>>, spent' \subseteq Floats, now' \in 0 .. MaxTime
      PROVE  CustodyInv'
    BY <1>2
    DEF CustodyInv, TypeOK, CallsOK, TokensAreFresh, SubmittedIsCommitted, LandedIsCommitted, Pays,
        CommittedTo, Bound, HoldsRelease
<1>3. ASSUME CustodyInv, NEW c \in Floats, SpendElsewhere(c) PROVE CustodyInv'
    BY <1>2, <1>3 DEF SpendElsewhere, CustodyInv, TypeOK
<1>4. ASSUME CustodyInv, Tick PROVE CustodyInv'
    BY <1>2, <1>4, CustodyAssumption DEF Tick, CustodyInv, TypeOK
<1> QED BY <1>1, <1>3, <1>4

LEMMA CustodyNextKeeps == CustodyInv /\ [CustodyNext]_custodyVars => CustodyInv'
<1> SUFFICES ASSUME CustodyInv, [CustodyNext]_custodyVars PROVE CustodyInv'
    OBVIOUS
<1>1. CASE UNCHANGED custodyVars
    BY <1>1
    DEF custodyVars, CustodyInv, TypeOK, CallsOK, TokensAreFresh, SubmittedIsCommitted,
        LandedIsCommitted, Pays, CommittedTo, Bound, HoldsRelease
<1>2. CASE CustodyNext
    BY <1>2, OpenStep, PrepareStartStep, BuildEndsStep, CompleteStartStep, SubmitStep, RecordStep,
       QuietStep
    DEF CustodyNext
<1> QED BY <1>1, <1>2

-----------------------------------------------------------------------------
(* One graph per row: at most one payout.                                  *)
LEMMA PaysExclusively == CustodyInv => PayoutIsExclusive
<1> SUFFICES ASSUME CustodyInv PROVE PayoutIsExclusive
    OBVIOUS
<1> USE DEF CustodyInv
<1>1. ASSUME NEW r \in Rows
      PROVE  LET paid == {g \in landed : g.row = r} IN
             /\ Cardinality(paid) <= 1
             /\ row[r].state \in {"held", "forfeit"} => paid = {}
             /\ row[r].state = "released" => paid # {}
  <2> DEFINE paid == {g \in landed : g.row = r}
  <2>1. Cardinality(paid) <= 1
    <3>1. CASE paid = {}
        BY <3>1, FS_EmptySet
    <3>2. CASE paid # {}
      <4>1. PICK g \in paid : TRUE
        BY <3>2
      <4>2. paid = {g}
        BY <4>1 DEF LandedIsCommitted
      <4>3. Cardinality({g}) = 1
        BY FS_Singleton
      <4> HIDE DEF paid
      <4> QED BY <4>2, <4>3
    <3> QED BY <3>1, <3>2
  <2>2. row[r].state \in {"held", "forfeit"} => paid = {}
    BY DEF LandedIsCommitted, Pays
  <2>3. row[r].state = "released" => paid # {}
    BY DEF LandedIsCommitted
  <2> QED BY <2>1, <2>2, <2>3
<1>2. PaidOnce
    BY <1>1 DEF PaidOnce
<1>3. LivePayoutHoldsItsCoins
    BY DEF LivePayoutHoldsItsCoins, SubmittedIsCommitted, Pays, CommittedTo
<1> QED BY <1>2, <1>3 DEF PayoutIsExclusive

(* Custody's inductive invariant: fresh tokens, and rows that stay         *)
(* committed to what was submitted for them.                               *)
THEOREM CustodyInvariant == CustodySpec => []CustodyInv
<1> QED BY CustodyInitInv, CustodyNextKeeps, PTL DEF CustodySpec

(* For any rows, coins, plans and requests a liability is paid at most     *)
(* once, never after it was written off, and from coins no other payout    *)
(* has bound (bindReleaseInputs, recordReleased, abandonRelease).          *)
THEOREM PayoutsAreExclusive == CustodySpec => []PayoutIsExclusive
<1> QED BY CustodyInvariant, PaysExclusively, PTL
=============================================================================
