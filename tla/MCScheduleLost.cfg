SPECIFICATION Spec

CONSTANTS
    Plans <- AllPlans
    Cases <- LostCases

CHECK_DEADLOCK FALSE

INVARIANTS
    NoEventLost
