\* A contract event's tick waits for the indexer when the signal comes.
CONSTANT MaxRequests = 1
SPECIFICATION RuntimeSpec
INVARIANT DatabaseOutlivesItsUsers
CHECK_DEADLOCK FALSE
