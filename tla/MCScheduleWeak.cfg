SPECIFICATION FairSpec

CONSTANTS
    Plans <- AllPlans
    Cases <- WeakCases

CHECK_DEADLOCK FALSE

PROPERTIES
    OrdersHold
