SPECIFICATION Spec
CONSTANTS
    Null = Null
    Blank = Blank
    Ids <- AllThree
    TypeOf <- MCTypeOf
    Values = {"v"}
    States <- MCStates
    MaxEdits = 2
INVARIANTS
    TypeOK
    OneFateEach
    DriftIsReal
    SilenceIsReal
    WholeReadsAreSnapshots
    NoDriftTwice
PROPERTY DetectTerminates
CHECK_DEADLOCK FALSE
