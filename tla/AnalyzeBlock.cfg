SPECIFICATION Spec
CONSTANTS
    Null = Null
    Unlimited = Unlimited
    Blank = Blank
    Plans <- FewPlans
    Rates <- MCRates
    HoursPerMonth = 3
    TicksPerCent = 10
    Precision = 100
    Ids = {"logs"}
    TypeOf <- MCTypeOf
    Values = {"v"}
    States <- FewStates
    MaxRows = 1
    MaxEdits = 0
    Providers <- MCProviders
    PolicyFiles <- FewPolicyFiles
    Paths = {"a", "b"}
    OptionSets <- EndOptions
    Faults = {"disk"}
INVARIANT BlockExitsOne
CHECK_DEADLOCK FALSE
