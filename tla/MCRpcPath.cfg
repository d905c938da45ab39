CONSTANTS
    p = p
    q = q
    alice = alice
    bob = bob
    NoUser = NoUser
    Calls <- TwoCalls
    Users <- TwoUsers
SPECIFICATION FairSpec
INVARIANTS RefusalChangesNothing
PROPERTIES AnsweredInTheEnd
\* The calls of a behaviour come to an end.
CHECK_DEADLOCK FALSE
