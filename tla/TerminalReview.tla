--------------------------- MODULE TerminalReview ---------------------------
(***************************************************************************)
(* A settled covenant is re-examined from its coin: on start, when the     *)
(* contract subscription drops, when an event names its script, and at an  *)
(* interval.  A review that contradicts the row raises                     *)
(* `covenant_observation_disagreement` and pauses the service; two reviews *)
(* in succession that agree, under one and the same tip, clear it.  The    *)
(* row is read before the reads of the chain and written after them, so    *)
(* reviews of two processes overlap, and the chain may reorganise between  *)
(* them.                                                                   *)
(***************************************************************************)
EXTENDS Naturals

CONSTANTS
    Watchers,   \* processes reviewing the row
    Hashes,     \* block hashes
    MaxHeight,  \* bound on the chain's height
    MaxReorgs   \* bound on the reorganisations

ASSUME ReviewAssumption == MaxHeight \in Nat \ {0} /\ MaxReorgs \in Nat /\ Hashes # {}

VARIABLES
    tip,        \* the canonical tip
    settled,    \* the row: the tip it was observed under, its failure and stable count
    review,     \* each watcher's review in progress
    coinAgrees, \* the indexer shows the coin as the row records it
    paused,     \* the policy's pause
    reorgs,
    sighting    \* the tip of the last agreeing review since a disagreement, or NoTip

reviewVars == <<tip, settled, review, coinAgrees, paused, reorgs, sighting>>

Tips == [hash: Hashes, height: 0 .. MaxHeight]
NoTip == [hash |-> "none", height |-> 0]
NotReviewing == [step |-> "idle"]
Heights == 0 .. MaxHeight

ReviewInit ==
    /\ tip \in [hash: Hashes, height: {1}]
    /\ settled = [seen |-> tip, failure |-> FALSE, stable |-> NoTip, count |-> 0]
    /\ review = [w \in Watchers |-> NotReviewing]
    /\ coinAgrees = TRUE
    /\ paused = FALSE
    /\ reorgs = 0
    /\ sighting = NoTip

-----------------------------------------------------------------------------
Disagreed(row) == [row EXCEPT !.failure = TRUE, !.stable = NoTip, !.count = 0]

(* recordSpendDisagreement and the pause it takes in the same transaction. *)
RecordSpendDisagreement ==
    /\ settled' = Disagreed(settled)
    /\ paused' = TRUE
    /\ sighting' = NoTip

(* A tip that cannot follow the one the row was last observed under. *)
Contradicts(row, t) ==
    \/ t.height < row.seen.height
    \/ t.height = row.seen.height /\ t.hash # row.seen.hash /\ ~row.failure
    \/ t.height > row.seen.height /\ t.hash = row.seen.hash

MutStableCount(row, t) == row.count + 1

(* The number of successive agreeing sighting of this tip. *)
StableCount(row, t) == IF row.stable = t THEN row.count + 1 ELSE 1

(* recordStableSpendObservation, which reads the row again. *)
RecordStableSpendObservation(t) ==
    \/ /\ Contradicts(settled, t)
       /\ RecordSpendDisagreement
    \/ /\ ~Contradicts(settled, t)
       /\ ~settled.failure
       /\ settled' = [settled EXCEPT !.seen = t]
       /\ UNCHANGED <<paused, sighting>>
    \/ /\ ~Contradicts(settled, t)
       /\ settled.failure
       /\ LET count == StableCount(settled, t) IN
          settled' = IF count >= 2
                     THEN [seen |-> t, failure |-> FALSE, stable |-> NoTip, count |-> 0]
                     ELSE [settled EXCEPT !.stable = t, !.count = count]
       /\ sighting' = IF settled'.failure THEN t ELSE NoTip
       /\ UNCHANGED paused

-----------------------------------------------------------------------------
(* The scan lists the settled rows, then awaits the tip. *)
ReviewStart(w) ==
    /\ review[w] = NotReviewing
    /\ review' = [review EXCEPT ![w] = [step |-> "listed", row |-> settled]]
    /\ UNCHANGED <<tip, settled, coinAgrees, paused, reorgs, sighting>>

ReviewTip(w) ==
    /\ review[w].step = "listed"
    /\ review' = [review EXCEPT ![w] = [step |-> "tip", row |-> @.row, tip |-> tip]]
    /\ UNCHANGED <<tip, settled, coinAgrees, paused, reorgs, sighting>>

(* A tip below the listed observation, or another block at its height, unless
   it is the tip the row is already counting. *)
TipMoved(row, t) ==
    \/ t.height < row.seen.height
    \/ /\ t.height = row.seen.height
       /\ t.hash # row.seen.hash
       /\ ~(row.failure /\ row.stable = t)

(* The prefetched coin, read before the loop over the rows. *)
ReviewCoin(w) ==
    /\ review[w].step = "tip"
    /\ \E coin \in {"unavailable", IF coinAgrees THEN "agrees" ELSE "contradicts"} :
          review' = [review EXCEPT ![w] = [step |-> "read", row |-> @.row, tip |-> @.tip,
                                           coin |-> coin]]
    /\ UNCHANGED <<tip, settled, coinAgrees, paused, reorgs, sighting>>

(* The tip is compared with the listed row; a disagreement does not end the
   row's turn. *)
ReviewCheck(w) ==
    /\ review[w].step = "read"
    /\ IF TipMoved(review[w].row, review[w].tip)
       THEN RecordSpendDisagreement
       ELSE UNCHANGED <<settled, paused, sighting>>
    /\ review' = [review EXCEPT ![w].step = "checked"]
    /\ UNCHANGED <<tip, coinAgrees, reorgs>>

(* Evidence that is merely unavailable is a warning. *)
ReviewRecord(w) ==
    /\ review[w].step = "checked"
    /\ CASE review[w].coin = "agrees" -> RecordStableSpendObservation(review[w].tip)
         [] review[w].coin = "contradicts" -> RecordSpendDisagreement
         [] review[w].coin = "unavailable" -> UNCHANGED <<settled, paused, sighting>>
    /\ review' = [review EXCEPT ![w] = NotReviewing]
    /\ UNCHANGED <<tip, coinAgrees, reorgs>>

(* The process stops, or its scan is abandoned. *)
ReviewStop(w) ==
    /\ review[w] # NotReviewing
    /\ review' = [review EXCEPT ![w] = NotReviewing]
    /\ UNCHANGED <<tip, settled, coinAgrees, paused, reorgs, sighting>>

-----------------------------------------------------------------------------
(* The chain and the indexer. *)
Block(hash) ==
    /\ tip.height < MaxHeight
    /\ hash # tip.hash
    /\ tip' = [hash |-> hash, height |-> tip.height + 1]
    /\ UNCHANGED <<settled, review, coinAgrees, paused, reorgs, sighting>>

Reorg(hash, height) ==
    /\ reorgs < MaxReorgs
    /\ height <= tip.height
    /\ hash # tip.hash
    /\ tip' = [hash |-> hash, height |-> height]
    /\ coinAgrees' \in BOOLEAN
    /\ reorgs' = reorgs + 1
    /\ UNCHANGED <<settled, review, paused, sighting>>

CoinReturns ==
    /\ ~coinAgrees
    /\ coinAgrees' = TRUE
    /\ UNCHANGED <<tip, settled, review, paused, reorgs, sighting>>

Unpause ==
    /\ paused
    /\ paused' = FALSE
    /\ UNCHANGED <<tip, settled, review, coinAgrees, reorgs, sighting>>

ReviewNext ==
    \/ \E w \in Watchers :
          \/ ReviewStart(w) \/ ReviewTip(w) \/ ReviewCoin(w)
          \/ ReviewCheck(w) \/ ReviewRecord(w) \/ ReviewStop(w)
    \/ \E h \in Hashes : Block(h)
    \/ \E h \in Hashes, n \in Heights : Reorg(h, n)
    \/ CoinReturns
    \/ Unpause

ReviewSpec == ReviewInit /\ [][ReviewNext]_reviewVars

-----------------------------------------------------------------------------
ReviewTypeOK ==
    /\ tip \in Tips
    /\ settled \in [seen: Tips, failure: BOOLEAN, stable: Tips \cup {NoTip}, count: 0 .. 1]
    /\ sighting \in Tips \cup {NoTip}
    /\ {coinAgrees, paused} \subseteq BOOLEAN

(* A disagreement is taken back only by a second agreeing review under the very
   tip of the first, with no disagreement from any process in between, and the
   tip a settled row stands on never moves down the chain. *)
ClearedByTwoSightings ==
    [][/\ settled'.seen.height >= settled.seen.height
       /\ settled.failure /\ ~settled'.failure => settled'.seen = sighting]_reviewVars
=============================================================================
