SPECIFICATION Spec
CONSTANTS
    Null = Null
    Blank = Blank
    Ids <- InstanceAndBucket
    TypeOf <- MCTypeOf
    Values = {"v"}
    States <- MCStates
    MaxEdits = 1
INVARIANT GoneIsMissing
CHECK_DEADLOCK FALSE
