SPECIFICATION Spec
CONSTANTS
    Null = Null
    Plans <- MCPlans
    Rates <- MCRates
    HoursPerMonth = 3
    TicksPerCent = 10
    Precision = 1000
INVARIANT HugeSizeDoesNotCrash
CHECK_DEADLOCK FALSE
