SPECIFICATION Spec
CONSTANTS
    Null = Null
    Hidden = Hidden
    V4 <- MCV4
    V6 <- MCV6
    Groups <- MCGroups
    Grants <- AllTrafficGrants
    Rank <- MCRank
INVARIANT UnchangedIsSilent
CHECK_DEADLOCK FALSE
