\* Two processes, coins and intents, and one proceeds job; two liabilities, two
\* coins and two requests in flight; one reorganisation under two reviews; two
\* covenants and two wallets in turn, with one call of a manager that fails.
CONSTANTS
    Coins = {c1, c2}
    Procs = {p1, p2}
    Receipts = {c2}
    Plans = {{c1}, {c1, c2}}
    Renewals = {{c1}}
    Renewers = {p1}
    NoProc = NoProc
    MaxIntents = 2
    MaxJobs = 1
    MaxLapses = 1
    MaxWallets = 2
    Rows = {r1, r2}
    Floats = {f1, f2}
    Payouts = {{f1}, {f2}, {f1, f2}}
    Calls = {q1, q2}
    Window = 1
    LeaseTicks = 1
    MaxTime = 2
    MaxTokens = 3
    Watchers = {w1, w2}
    Hashes = {h1, h2}
    MaxHeight = 2
    MaxReorgs = 1
    Scripts = {s1, s2}
    Managers = {m1, m2}
    Foreign <- MCForeign
    MaxChanges = 3
    MaxBreaks = 1
SPECIFICATION OperatorSpec
VIEW Distinguished
INVARIANTS
    OffersAreExclusive
    PayoutIsExclusive
    WatchFollowsRows
PROPERTIES
    BackgroundSparesHeld
    ClearedByTwoSightings
CHECK_DEADLOCK FALSE
