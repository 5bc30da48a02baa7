SPECIFICATION Spec
CONSTANTS
    Null = Null
    Unlimited = Unlimited
    Blank = Blank
    Plans <- MCPlans
    Rates <- MCRates
    HoursPerMonth = 3
    TicksPerCent = 10
    Precision = 100
    Ids = {"logs"}
    TypeOf <- MCTypeOf
    Values = {"v"}
    States <- MCStates
    MaxRows = 1
    MaxEdits = 1
    Providers <- MCProviders
    PolicyFiles <- MCPolicyFiles
    Paths = {"a", "b"}
    OptionSets <- GateOptions
    Faults = {}
INVARIANTS
    GreenMeansClean
    RedMeansGated
    ReportAddsUp
    SilentPageIsClean
    CauseIsShown
CHECK_DEADLOCK FALSE
