\* A documented claim about settlement.
SPECIFICATION LiveSpec
CONSTANTS
    Fills = {f1}
    LeaseSeconds = 1
    QuoteTtl = 1
    MaxTime = 3
    MaxRestarts = 1
PROPERTIES
    LandedFillSettles
CHECK_DEADLOCK FALSE
