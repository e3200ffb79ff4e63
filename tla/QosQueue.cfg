CONSTANTS
    Last = 2
    Weight <- MCWeight
    MaxSize = 3
SPECIFICATION Spec
INVARIANTS
    WaitBounded
PROPERTIES
    WorkConserving
