\* Expiry and the release of delivered sponsored payments, under fairness.
SPECIFICATION LiveSpec
CONSTANTS
    c1 = c1
    c2 = c2
    t1 = t1
    t2 = t2
    r1 = r1
    j1 = j1
    NoOwner = NoOwner
    Coins = {c1, c2}
    Transfers = {t1}
    Receives = {r1}
    Jobs = {}
    Dust = 330
    Limits <- WideLimits
    QuoteTtl = 1
    MaxAttempts = 1
    MaxTime = 3
    MaxRevision = 0
PROPERTIES
    CoinsComeBack
