CONSTANTS
    r1 = r1
    r2 = r2
    r3 = r3
    Rpcs <- ThreeRpcs
SPECIFICATION FairSpec
INVARIANTS GracefulCutsNobody KeysStoppedLast OpenedAndClosed
PROPERTIES ProcessEnds
\* The process ends.
CHECK_DEADLOCK FALSE
