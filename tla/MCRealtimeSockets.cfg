CONSTANTS
    c1 = c1
    c2 = c2
    c3 = c3
    Conns <- ThreeConns
SPECIFICATION Spec
INVARIANTS SocketsEndBeforeRedis
\* The process ends.
CHECK_DEADLOCK FALSE
