SPECIFICATION Spec
CONSTANTS
    Null = Null
    Nil = Nil
    Kinds = {"plan", "state", "policy"}
    Things <- Unremarkable
    Cap = 1
    MaxEdits = 0
    Modules <- MCModules
    Trees <- MCTrees
INVARIANT FailsClosed
CHECK_DEADLOCK FALSE
