SPECIFICATION Spec
CONSTANTS
    Null = Null
    Nil = Nil
    Kinds = {"plan", "state", "policy", "snapshot"}
    Things <- MCThings
    Cap = 1
    MaxEdits = 2
    Modules <- MCModules
    Trees <- MCTrees
INVARIANTS
    LoadTypeOK
    AcceptedWasThere
    RefusalIsEarned
    CapIsEnforced
    EveryResourceOnce
    StateIsOfOneMoment
    WalkIsDepthFirst
PROPERTY IngestionEnds
CHECK_DEADLOCK FALSE
