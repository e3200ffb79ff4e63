CONSTANT N = 6
SPECIFICATION Spec
INVARIANTS
    NoLinkTwice
    WalkIsPath
    ShortPathIsShortest
PROPERTY Terminates
CHECK_DEADLOCK FALSE
