CONSTANTS
    c1 = c1
    c2 = c2
    c3 = c3
    Conns <- ThreeConns
SPECIFICATION FairSpec
INVARIANTS ServedByAll
PROPERTIES ProcessEnds
\* The process ends.
CHECK_DEADLOCK FALSE
