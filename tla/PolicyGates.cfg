SPECIFICATION ReviewSpec
CONSTANTS
    Null = Null
    Unlimited = Unlimited
    Candidates <- MCCandidates
    Stricter <- MCStricter
    Findings <- MCReports
INVARIANT IngressGateExact
PROPERTY TighteningNeverRelaxes
CHECK_DEADLOCK FALSE
