CONSTANTS
    r1 = r1
    r2 = r2
    r3 = r3
    Rpcs <- ThreeRpcs
SPECIFICATION FairSpec
PROPERTIES StopIsForced
\* The process ends.
CHECK_DEADLOCK FALSE
