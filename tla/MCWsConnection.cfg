CONSTANTS
    a = a
    b = b
    general = general
    Clients <- TwoClients
    Rooms <- OneRoom
    RoomOf <- RoomOfTwo
    RegCap = 1
    UnregCap = 1
    BcastCap = 1
    SendCap = 1
    MaxEvents = 2
SPECIFICATION WsFairSpec
INVARIANTS CloseAfterCancel NothingLostInWriter
PROPERTIES BothLoopsEnd EveryPayloadDispatched SubscribedLeaverReleased
\* A connection is used once and MaxEvents bounds the broadcasts.
CHECK_DEADLOCK FALSE
