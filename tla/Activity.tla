------------------------------ MODULE Activity ------------------------------
(***************************************************************************)
(* The wallet's history of a payment.  The record is kept in storage the   *)
(* wallet's contexts share; each context reads the transfer's status, one  *)
(* read of its own at a time, and merges the answer when it arrives.       *)
(* Answers overtake one another, reads fail, and a Taxi that no longer     *)
(* knows the transfer closes the record.                                   *)
(***************************************************************************)
EXTENDS Naturals

CONSTANTS
    Readers,        \* contexts that read the status: tabs, and a send that waits
    MaxSeconds,     \* bound: the clock
    MaxRetries,     \* bound: failed submissions the Taxi tries again
    MaxMoves,       \* bound: renewals of the covenant into a new outpoint
    MaxLost         \* bound: reads that fail or are answered not_found

ASSUME HistoryAssumption ==
    MaxSeconds \in Nat /\ MaxRetries \in Nat /\ MaxMoves \in Nat /\ MaxLost \in Nat

VARIABLES
    mode, role,  \* the kind of the payment and the wallet's part in it
    transfer,    \* the transfer at the Taxi
    second,      \* the clock, in the seconds updatedAt counts
    entry,       \* the record in storage
    reading,     \* each reader's status on its way back
    lost, retries

historyVars == <<mode, role, transfer, second, entry, reading, lost, retries>>

(* version counts the changes of the transfer: no reader sees it.           *)
Status(state, failed, renewals, at, version) ==
    [state |-> state, failed |-> failed, renewals |-> renewals, updatedAt |-> at, version |-> version]

NoRead == [state |-> "none"]

Rank(state) ==
    CASE state = "quoted" -> 0
      [] state = "locking" -> 1
      [] state = "locked" -> 2
      [] state = "recovering" -> 3
      [] OTHER -> 4

HistoryInit ==
    /\ mode \in {"covenant", "sponsored"}
    /\ role \in {"sender", "receiver"}
    /\ lost = 0 /\ retries = 0
    /\ second = 1
    /\ transfer = Status("quoted", FALSE, 0, 1, 1)
    /\ entry = transfer
    /\ reading = [r \in Readers |-> NoRead]

-----------------------------------------------------------------------------
(* The Taxi's row: every change stamps updated_at with the second it falls in. *)

Becomes(state, failed) ==
    transfer' = Status(state, failed, transfer.renewals, second, transfer.version + 1)

TransferMoves ==
    /\ \/ transfer.state = "quoted" /\ \E s \in {"locking", "expired"} : Becomes(s, FALSE)
       \/ /\ transfer.state = "locking"
          /\ \/ Becomes("locked", FALSE)
             \/ mode = "covenant" /\ Becomes("recycled", FALSE)
             \/ ~transfer.failed /\ Becomes("locking", TRUE)
       \/ /\ transfer.state = "locked" /\ mode = "covenant"
          /\ \E s \in {"recovering", "recycled"} : Becomes(s, FALSE)
       \/ transfer.state = "recovering" /\ Becomes("refunded", FALSE)
    /\ UNCHANGED <<mode, role, second, entry, reading, lost, retries>>

TransferRetried ==
    /\ transfer.state = "locking" /\ transfer.failed /\ retries < MaxRetries
    /\ retries' = retries + 1
    /\ Becomes("locking", FALSE)
    /\ UNCHANGED <<mode, role, second, entry, reading, lost>>

(* recordCovenantRenewed: the outpoint is no longer of the lockup's transaction. *)
TransferRenewed ==
    /\ transfer.state = "locked" /\ mode = "covenant" /\ transfer.renewals < MaxMoves
    /\ transfer' = Status("locked", FALSE, transfer.renewals + 1, second, transfer.version + 1)
    /\ UNCHANGED <<mode, role, second, entry, reading, lost, retries>>

Second ==
    /\ second < MaxSeconds
    /\ second' = second + 1
    /\ UNCHANGED <<mode, role, transfer, entry, reading, lost, retries>>

-----------------------------------------------------------------------------
(* The store.                                                               *)

Open(state) ==
    state \in {"quoted", "locking"} \cup IF mode = "sponsored" THEN {} ELSE {"locked", "recovering"}

MutIsOpen(record) == record.state \in {"quoted", "locking"}

(* isTaxiActivityOpen *)
IsOpen(record) == Open(record.state)

(* advances *)
Advances(current, next) ==
    IF next.state = "gone" THEN IsOpen(current)
    ELSE \/ current.state = "gone"
         \/ Rank(next.state) > Rank(current.state)
         \/ Rank(next.state) = Rank(current.state) /\ next.updatedAt >= current.updatedAt

Record(next) == entry' = IF Advances(entry, next) THEN next ELSE entry

(* recordStatus: a sender's status that names another transaction than its  *)
(* lockup is passed over.                                                   *)
Passed(status) == role = "sender" /\ status.renewals > 0

(* refresh: one read of a record in flight per context; a wait of a send    *)
(* reads whatever the record says.                                          *)
Refresh(r) ==
    /\ reading[r] = NoRead
    /\ reading' = [reading EXCEPT ![r] = transfer]
    /\ UNCHANGED <<mode, role, transfer, second, entry, lost, retries>>

Poll(r) == IsOpen(entry) /\ Refresh(r)

Answer(r) ==
    /\ reading[r] # NoRead
    /\ reading' = [reading EXCEPT ![r] = NoRead]
    /\ IF Passed(reading[r]) THEN UNCHANGED entry ELSE Record(reading[r])
    /\ UNCHANGED <<mode, role, transfer, second, lost, retries>>

(* The read fails, or the Taxi answers not_found.                           *)
Lose(r) ==
    /\ reading[r] # NoRead /\ lost < MaxLost
    /\ lost' = lost + 1
    /\ reading' = [reading EXCEPT ![r] = NoRead]
    /\ \/ UNCHANGED entry
       \/ Record(Status("gone", FALSE, 0, second, entry.version))
    /\ UNCHANGED <<mode, role, transfer, second, retries>>

HistoryNext ==
    \/ TransferMoves \/ TransferRetried \/ TransferRenewed \/ Second
    \/ \E r \in Readers : Refresh(r) \/ Answer(r) \/ Lose(r)

(* Reads return, and some context keeps polling what is open.               *)
HistoryFairness ==
    /\ WF_historyVars(\E r \in Readers : Poll(r))
    /\ \A r \in Readers : WF_historyVars(Answer(r))

HistorySpec == HistoryInit /\ [][HistoryNext]_historyVars /\ HistoryFairness
-----------------------------------------------------------------------------
(* A history some context polls ends up with the transfer's last status,    *)
(* unless the Taxi denied the transfer: nothing late, lost or tied leaves   *)
(* it behind, and no record is closed before its time.  Excepted is a       *)
(* sender's record once its covenant is renewed: its statuses are passed    *)
(* over.  (poll, refresh, recordStatus.)                                    *)
HistoryCatchesUp ==
    <>[](entry.state # "gone" => \/ entry.version = transfer.version
                                 \/ role = "sender" /\ transfer.renewals > 0)
=============================================================================
