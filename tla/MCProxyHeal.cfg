CONSTANTS
    Session = {s1}
    Operator = {o1, o2}
    MaxCalls = 3
SPECIFICATION MCSafety
PROPERTY HealedSessionsSurvive
CHECK_DEADLOCK FALSE
