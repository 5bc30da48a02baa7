SPECIFICATION Spec
CONSTANTS
    Null = Null
    Plans <- MCPlans
    Rates <- MCRates
    HoursPerMonth = 3
    TicksPerCent = 10
    Precision = 1000
INVARIANTS
    TypeOK
    Accounted
    TotalIsSumOfLines
    RoundingIsBounded
    UndoCostsTheOpposite
    SignsFollowActions
CHECK_DEADLOCK FALSE
