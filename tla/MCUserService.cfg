CONSTANTS
    p = p
    q = q
    Calls <- TwoCalls
    TTL = 1
    Careful = {1}
    MaxTokens = 4
    MaxTime = 2
    c1 = c1
    c2 = c2
    a1 = a1
    a2 = a2
    n1 = n1
    n2 = n2
    p1 = p1
    p2 = p2
    t1 = t1
    t2 = t2
    UpdateCalls = {c1, c2}
    Addresses = {a1, a2}
    Usernames = {n1, n2}
    Passwords = {p1, p2}
    Texts = {t1, t2}
    MaxUsers = 2
    CarefulUsers = {1}
SPECIFICATION UserSpec
INVARIANTS OldRevokedBeforeNew LateRefreshRefused CarefulSingleUse OneUsablePerSession
INVARIANTS OneAccountEach AckedCanLogin NoLostUpdate
SYMMETRY UserSymmetry
\* The bounds of the tokens end their part.
CHECK_DEADLOCK FALSE
