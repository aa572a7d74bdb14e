SPECIFICATION Spec
CONSTANTS
    Calls = {"c1", "c2"}
    Kinds <- TwoCalls
    MaxConns = 2
INVARIANT ReasonsAreUnderstood
CHECK_DEADLOCK FALSE
