\* Two processes on one row: lapsed leases, lost replies, crashes, retries.
\* Three requests: one overruns its snapshot, one follows it, one arrives late.
CONSTANTS
    Processes = {p1, p2}
    MaxClaims = 4
    MaxFaults = 2
    MaxRequests = 3
SPECIFICATION ServiceSpec
INVARIANTS
    OneGraph
    OneCurrentAdmission
    DatabaseOutlivesTheDrained
PROPERTIES
    SubmissionEnds
    WorkersTakeTurns
    AdmissionQueueMoves
CHECK_DEADLOCK FALSE
