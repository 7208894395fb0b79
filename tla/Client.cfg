\* The economy, the graphs of every route, and two contexts that pay twice.
SPECIFICATION ClientSpec
CONSTANTS
    Dust = 3
    VtxoMin = 1
    Assets = {"A", "B"}
    MaxTopup = 3
    Asks <- MCAsks
    PlannedPayments <- MCPlannedPayments
    Rules <- MCRules
    ReceiveAsks <- MCReceiveAsks
    OperatorCoins <- MCOperatorCoins
    FillGraphs <- MCFillGraphs
    Funds <- MCFunds
    Graphs <- MCGraphs
    Contexts = {p1, p2}
    MaxPayments = 2
SYMMETRY AnyContext
INVARIANTS
    SignedIsAuthorised
    HonestQuoteIsSigned
    CosignedAsAgreed
    SettledAsAgreed
    SentIsSound
    HonestAnswerIsAccepted
    RecordKeptWhileItMayLand
    OutcomeIsTrue
CHECK_DEADLOCK FALSE
