SPECIFICATION FairSpec

CONSTANTS
    Plans <- AllPlans
    Cases <- MCCases

CHECK_DEADLOCK FALSE

INVARIANTS
    TypeOK
    RunComplete

PROPERTIES
    RunRefines
    ExecReturns
