\* A documented claim about renewals.
SPECIFICATION LiveSpec
CONSTANTS
    Processes = {p1}
    MaxCoins = 2
    MaxClaims = 2
    MaxFaults = 0
PROPERTIES
    RenewalKeepsTheClaim
CHECK_DEADLOCK FALSE
