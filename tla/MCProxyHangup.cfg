CONSTANTS
    Session = {s1}
    Operator = {o1, o2}
    MaxCalls = 0
SPECIFICATION MCSpec
PROPERTY StopsWhenEitherSideCloses
CHECK_DEADLOCK FALSE
