----------------------- MODULE RealtimeLifecycleProofs ----------------------
(***************************************************************************)
(* Proofs about RealtimeLifecycle, for any number of connections.           *)
(***************************************************************************)
EXTENDS RealtimeLifecycle, TLAPS

LEMMA TypeInit == Init => TypeOK
BY DEF Init, TypeOK, ConnStates

LEMMA TypeStep == TypeOK /\ [Next]_vars => TypeOK'
<1> SUFFICES ASSUME TypeOK, [Next]_vars PROVE TypeOK'
  OBVIOUS
<1> USE DEF clients
<1>1. CASE UNCHANGED vars
  BY <1>1 DEF vars, TypeOK
<1>2. ASSUME NEW c \in Conns, Handler(c) PROVE TypeOK'
  BY <1>2 DEF Handler, Request, Refuse, Accept, Register, PeerLeaves, Connection,
     TypeOK, ConnStates
<1>3. CASE Signal \/ ListenerOpens \/ ListenerFails \/ SubscriberEnds
  BY <1>3 DEF Signal, ListenerOpens, ListenerFails, SubscriberEnds, TypeOK
<1>4. CASE SignalSeen \/ ErrorSeen \/ Shutdown \/ TenSecondsOver
  BY <1>4 DEF SignalSeen, ErrorSeen, Shutdown, TenSecondsOver, TypeOK
<1>5. CASE HubStop \/ ChatClose \/ RedisClose
  BY <1>5 DEF HubStop, ChatClose, RedisClose, TypeOK
<1>6. CASE Exit
  BY <1>6 DEF Exit, TypeOK, ConnStates
<1>7. CASE LoadConfig \/ Ping \/ Dial \/ StartFails
  BY <1>7 DEF LoadConfig, Ping, Dial, StartFails, TypeOK
<1> QED
  BY <1>1, <1>2, <1>3, <1>4, <1>5, <1>6, <1>7 DEF Next, World, Main

(* Types, that the listener is open in the select only, and that run has   *)
(* its outcome when it leaves for the defers.                              *)
THEOREM TypeCorrect == Spec => []TypeOK
BY TypeInit, TypeStep, PTL DEF Spec

(* Clients opened by the start are open until the outcome is known, and    *)
(* before the select nobody is connected.                                  *)
AllOpen ==
    /\ main \in {"select", "shutdown"} =>
        /\ hub = "open" /\ chat = "open" /\ redis = "open"
        /\ subscriber = "running" \/ signalled
    /\ main = "dial" => redis = "open"
    /\ main \in {"load", "ping", "dial"} =>
        listener = "none" /\ \A c \in Conns : conn[c] = "none"

LEMMA AllOpenStep ==
    ASSUME TypeOK, AllOpen, [Next]_vars
    PROVE  AllOpen'
<1> USE DEF AllOpen, clients
<1>1. CASE UNCHANGED vars
  BY <1>1 DEF vars
<1>2. ASSUME NEW c \in Conns, Handler(c) PROVE AllOpen'
  BY <1>2 DEF Handler, Request, Refuse, Accept, Register, PeerLeaves, Connection,
     TypeOK, ConnStates
<1>3. CASE Signal \/ ListenerOpens \/ ListenerFails \/ SubscriberEnds
  BY <1>3 DEF Signal, ListenerOpens, ListenerFails, SubscriberEnds, TypeOK
<1>4. CASE SignalSeen \/ ErrorSeen \/ Shutdown \/ TenSecondsOver
  BY <1>4 DEF SignalSeen, ErrorSeen, Shutdown, TenSecondsOver
<1>5. CASE HubStop \/ ChatClose \/ RedisClose
  BY <1>5 DEF HubStop, ChatClose, RedisClose
<1>6. CASE Exit
  BY <1>6 DEF Exit
<1>7. CASE LoadConfig \/ Ping \/ Dial \/ StartFails
  BY <1>7 DEF LoadConfig, Ping, Dial, StartFails
<1> QED
  BY <1>1, <1>2, <1>3, <1>4, <1>5, <1>6, <1>7 DEF Next, World, Main

(* Whoever is connected while run has no outcome is served by all parts.   *)
THEOREM ConnectedAreServed == Spec => []ServedByAll
<1>1. Init => TypeOK /\ AllOpen
  BY TypeInit DEF Init, AllOpen
<1>2. TypeOK /\ AllOpen /\ [Next]_vars => (TypeOK /\ AllOpen)'
  BY TypeStep, AllOpenStep
<1>3. TypeOK /\ AllOpen => ServedByAll
  BY DEF TypeOK, AllOpen, ServedByAll, Upgrading, Sockets
<1> QED
  BY <1>1, <1>2, <1>3, PTL DEF Spec
=============================================================================
