CONSTANTS
    a = a
    b = b
    d = d
    general = general
    other = other
    Clients <- ThreeClients
    Rooms <- TwoRooms
    RoomOf <- RoomOfThree
    RegCap = 2
    UnregCap = 1
    BcastCap = 2
    SendCap = 2
    MaxEvents = 4
SPECIFICATION Spec
INVARIANTS NoPanic ClosedOnlyAfterLeave InOrderOwnRoom GapsOnlyWhenFull
PROPERTIES StaysSubscribed FansOut
SYMMETRY Symmetric
\* A connection is used once and MaxEvents bounds the broadcasts.
CHECK_DEADLOCK FALSE
