\* A transfer, a receive quote and a proceeds job fight over two coins while the
\* administrator pauses and moves the caps.
SPECIFICATION Spec
CONSTANTS
    c1 = c1
    c2 = c2
    t1 = t1
    t2 = t2
    r1 = r1
    j1 = j1
    NoOwner = NoOwner
    Coins = {c1, c2}
    Transfers = {t1}
    Receives = {r1}
    Jobs = {j1}
    Dust = 330
    Limits <- MCLimits
    QuoteTtl = 1
    MaxAttempts = 2
    MaxTime = 2
    MaxRevision = 1
SYMMETRY CoinSymmetry
INVARIANTS
    TypeOK
    CoinFence
    FlowsHoldTheirCoins
PROPERTIES
    AdmissionIsCurrent
    ImplementsCoinLedger
