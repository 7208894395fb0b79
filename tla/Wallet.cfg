\* Two readers of one history; a stream that breaks
\* twice; one free and one paid claim over one coin.
CONSTANTS
    Readers = {a1, a2}
    MaxSeconds = 2
    MaxRetries = 1
    MaxMoves = 1
    MaxLost = 1
    MaxDrops = 2
    MaxRenewals = 1
    MaxFailures = 1
    Claims = {c1, c2}
    Coins = {k1}
    Paid = {c2}
    Recycled = {c2}
    MaxOffers = 2
    MaxToggles = 2
    MaxFaults = 1
SPECIFICATION WalletSpec
INVARIANTS
    OneSpendEach
PROPERTIES
    HistoryCatchesUp
    OffersFollowTheTaxi
    FreeOffersAreTaken
CHECK_DEADLOCK FALSE
