\* Two processes watch and recover one covenant, whose coin is renewed once.
SPECIFICATION LiveSpec
CONSTANTS
    Processes = {p1, p2}
    MaxCoins = 2
    MaxClaims = 3
    MaxFaults = 1
INVARIANTS
    TypeOK
    SpendsAreTheRows
PROPERTIES
    OutcomesStand
    LeaseProtectsRecovery
    CovenantEnds
CHECK_DEADLOCK FALSE
