\* One fill against expiry, reconciler, watcher, late landing and crashes, with
\* fair ticks and an indexer that catches up.
SPECIFICATION LiveSpec
CONSTANTS
    Fills = {f1}
    LeaseSeconds = 2
    QuoteTtl = 3
    MaxTime = 5
    MaxRestarts = 1
INVARIANTS
    TypeOK
    AbandonedFillCannotLand
    ReservedWhileItMayLand
    FillIsAccounted
PROPERTIES
    FillEnds
    RequestIsProtected
CHECK_DEADLOCK FALSE
