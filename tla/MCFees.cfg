SPECIFICATION Spec
CHECK_DEADLOCK FALSE
INVARIANTS
    FeeIsFloor
    SplitIsExact
    DustIsBounded
