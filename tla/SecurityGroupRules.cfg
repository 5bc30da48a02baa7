SPECIFICATION Spec
CONSTANTS
    Null = Null
    Hidden = Hidden
    V4 <- MCV4
    V6 <- MCV6
    Groups <- MCGroups
    Grants <- PortGrants
    Rank <- MCRank
INVARIANTS
    TypeOK
    DriftIffChanged
    OneRendering
    ReportShowsWhatDiffers
CHECK_DEADLOCK FALSE
