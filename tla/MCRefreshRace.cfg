CONSTANTS
    p = p
    q = q
    Calls <- TwoCalls
    TTL = 1
    Careful = {}
    MaxTokens = 3
    MaxTime = 2
SYMMETRY CallSymmetry
SPECIFICATION Spec
INVARIANT SingleUse
CHECK_DEADLOCK FALSE
