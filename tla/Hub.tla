-------------------------------- MODULE Hub --------------------------------
(***************************************************************************)
(* The WebSocket hub of realtime-service: hub.Hub and hub.Client           *)
(* (services/realtime-service/internal/hub).                               *)
(*                                                                         *)
(* One goroutine, Run, owns the map rooms.  Everybody else reaches it      *)
(* through three buffered channels, register, unregister and broadcast,    *)
(* which Run empties with one select: when several are ready, Go picks any *)
(* of them.  Every client has a bounded channel send, filled by Run        *)
(* without blocking and emptied by the client's write goroutine.           *)
(*                                                                         *)
(* A client of the model is one *hub.Client, that is one connection: its   *)
(* handler calls Register once and, later, Unregister once                 *)
(* (ws.Handler.ServeHTTP; WsConnection models that handler in full).       *)
(* A payload is the number of the LocalBroadcast call that brought it.     *)
(***************************************************************************)
EXTENDS Naturals, Sequences

CONSTANTS
    Clients,    \* the connections
    Rooms,      \* the room ids
    RoomOf,     \* Client.RoomID, fixed by NewClient
    RegCap,     \* capacity of h.register (16)
    UnregCap,   \* capacity of h.unregister (16)
    BcastCap,   \* capacity of h.broadcast (256)
    SendCap,    \* capacity of c.send (32)
    MaxEvents   \* bound: LocalBroadcast calls in a behaviour

ASSUME HubAssumption ==
    /\ RoomOf \in [Clients -> Rooms]
    /\ {RegCap, UnregCap, BcastCap, SendCap} \subseteq Nat \ {0}
    /\ MaxEvents \in Nat

VARIABLES
    register, unregister,  \* channels of clients
    broadcast,             \* channel of payloads
    rooms,      \* h.rooms: a map from some rooms to sets of clients
    send,       \* what is buffered in each c.send
    closed,     \* which c.send channels were closed
    run,        \* the Run goroutine: "running", "returned" or "panicked"
    stop,       \* h.stop was closed
    caller,     \* each connection's handler: "new", "open" or "left"
    got,        \* history: the payloads each write goroutine took
    target      \* history: the room of every LocalBroadcast call

queues == <<register, unregister, broadcast>>
vars == <<register, unregister, broadcast, rooms, send, closed, run, stop,
          caller, got, target>>

Payloads == 1..MaxEvents

(***************************************************************************)
(* h.rooms[r] and membership as Run reads them: a missing key is an empty  *)
(* set of subscribers.                                                     *)
(***************************************************************************)
Subscribers(r) == IF r \in DOMAIN rooms THEN rooms[r] ELSE {}
Member(c) == c \in Subscribers(RoomOf[c])

Init ==
    /\ register = <<>> /\ unregister = <<>> /\ broadcast = <<>>
    /\ rooms = [r \in {} |-> {}]
    /\ send = [c \in Clients |-> <<>>]
    /\ closed = [c \in Clients |-> FALSE]
    /\ run = "running" /\ stop = FALSE
    /\ caller = [c \in Clients |-> "new"]
    /\ got = [c \in Clients |-> <<>>]
    /\ target = <<>>

-----------------------------------------------------------------------------
(* The operations other goroutines call.  Each is one send on a buffered   *)
(* channel: it waits while the channel is full.                            *)

Register(c) ==
    /\ caller[c] = "new" /\ Len(register) < RegCap
    /\ register' = Append(register, c)
    /\ caller' = [caller EXCEPT ![c] = "open"]
    /\ UNCHANGED <<unregister, broadcast, rooms, send, closed, run, stop, got, target>>

Unregister(c) ==
    /\ caller[c] = "open" /\ Len(unregister) < UnregCap
    /\ unregister' = Append(unregister, c)
    /\ caller' = [caller EXCEPT ![c] = "left"]
    /\ UNCHANGED <<register, broadcast, rooms, send, closed, run, stop, got, target>>

LocalBroadcast(r) ==
    /\ Len(target) < MaxEvents /\ Len(broadcast) < BcastCap
    /\ target' = Append(target, r)
    /\ broadcast' = Append(broadcast, Len(target'))
    /\ UNCHANGED <<register, unregister, rooms, send, closed, run, stop, caller, got>>

Stop ==
    /\ ~stop
    /\ stop' = TRUE
    /\ UNCHANGED <<queues, rooms, send, closed, run, caller, got, target>>

(* The write goroutine receives from Client.Outbound(). *)
Receive(c) ==
    /\ caller[c] # "new" /\ send[c] # <<>>
    /\ got' = [got EXCEPT ![c] = Append(@, Head(send[c]))]
    /\ send' = [send EXCEPT ![c] = Tail(@)]
    /\ UNCHANGED <<queues, rooms, closed, run, stop, caller, target>>

-----------------------------------------------------------------------------
(* The cases of Run's select. *)

WithClient(r, c) ==
    [x \in DOMAIN rooms \cup {r} |-> IF x = r THEN Subscribers(r) \cup {c} ELSE rooms[x]]

(* Mutants: the client stays a member; the room goes with everybody in it. *)
StillWithClient(r, c) == rooms

WithoutRoomOf(r, c) == [x \in DOMAIN rooms \ {r} |-> rooms[x]]

WithoutClient(r, c) ==
    [x \in {y \in DOMAIN rooms : y = r => rooms[r] # {c}} |->
        IF x = r THEN rooms[r] \ {c} ELSE rooms[x]]

TakeRegister ==
    /\ run = "running" /\ register # <<>>
    /\ register' = Tail(register)
    /\ rooms' = WithClient(RoomOf[Head(register)], Head(register))
    /\ UNCHANGED <<unregister, broadcast, send, closed, run, stop, caller, got, target>>

(* Mutants: the channel is never closed; those of the whole room are.      *)
NeverCloseSend(c) == UNCHANGED <<closed, run>>

CloseSendOfRoom(c) ==
    /\ closed' = [x \in Clients |-> closed[x] \/ x \in Subscribers(RoomOf[c])]
    /\ UNCHANGED run

(* Closing a channel twice panics.                                         *)
CloseSend(c) ==
    /\ closed' = [closed EXCEPT ![c] = TRUE]
    /\ run' = IF closed[c] THEN "panicked" ELSE run

(* An unregistration of a client that is not a member changes nothing.     *)
TakeUnregister ==
    LET c == Head(unregister) IN
    /\ run = "running" /\ unregister # <<>>
    /\ unregister' = Tail(unregister)
    /\ \/ /\ ~Member(c)
          /\ UNCHANGED <<rooms, closed, run>>
       \/ /\ Member(c)
          /\ rooms' = WithoutClient(RoomOf[c], c)
          /\ CloseSend(c)
    /\ UNCHANGED <<register, broadcast, send, stop, caller, got, target>>

(* Mutant: the last slot of the buffer is never used.                      *)
HasTwoSlots(c) == Len(send[c]) + 1 < SendCap

HasRoom(c) == Len(send[c]) < SendCap

(* Mutants: a payload goes to every room; a send waits for a full buffer.  *)
DeliverEverywhere(n) ==
    /\ send' = [c \in Clients |-> IF Member(c) /\ ~closed[c] /\ HasRoom(c)
                                 THEN Append(send[c], n) ELSE send[c]]
    /\ UNCHANGED run

DeliverBlocking(n) ==
    LET subs == Subscribers(target[n]) IN
    /\ \A c \in subs : HasRoom(c)
    /\ send' = [c \in Clients |-> IF c \in subs THEN Append(send[c], n) ELSE send[c]]
    /\ UNCHANGED run

(* The payload goes to every subscriber whose buffer has room and is       *)
(* dropped for the others; sending on a closed channel panics.  The        *)
(* iteration is one step: no other goroutine writes rooms, and a receiver  *)
(* that empties one buffer meanwhile does the same as one that ran before. *)
Deliver(n) ==
    LET subs == Subscribers(target[n]) IN
    /\ send' = [c \in Clients |-> IF c \in subs /\ ~closed[c] /\ HasRoom(c)
                                 THEN Append(send[c], n) ELSE send[c]]
    /\ run' = IF \E c \in subs : closed[c] THEN "panicked" ELSE run

TakeBroadcast ==
    /\ run = "running" /\ broadcast # <<>>
    /\ broadcast' = Tail(broadcast)
    /\ Deliver(Head(broadcast))
    /\ UNCHANGED <<register, unregister, rooms, closed, stop, caller, got, target>>

TakeStop ==
    /\ run = "running" /\ stop
    /\ run' = "returned"
    /\ UNCHANGED <<queues, rooms, send, closed, stop, caller, got, target>>

Run == TakeRegister \/ TakeUnregister \/ TakeBroadcast \/ TakeStop

Next ==
    \/ \E c \in Clients : Register(c) \/ Unregister(c) \/ Receive(c)
    \/ \E r \in Rooms : LocalBroadcast(r)
    \/ Stop
    \/ Run

Spec == Init /\ [][Next]_vars

-----------------------------------------------------------------------------
TypeOK ==
    /\ register \in Seq(Clients) /\ unregister \in Seq(Clients)
    /\ broadcast \in Seq(Payloads)
    /\ DOMAIN rooms \subseteq Rooms
    /\ \A r \in DOMAIN rooms : rooms[r] \subseteq Clients
    /\ send \in [Clients -> Seq(Payloads)] /\ got \in [Clients -> Seq(Payloads)]
    /\ closed \in [Clients -> BOOLEAN]
    /\ run \in {"running", "returned", "panicked"} /\ stop \in BOOLEAN
    /\ caller \in [Clients -> {"new", "open", "left"}]
    /\ target \in Seq(Rooms)

(* Everything Run ever put in c.send, in order. *)
Delivered(c) == got[c] \o send[c]

Occurs(x, s) == \E i \in DOMAIN s : s[i] = x

(***************************************************************************)
(* Run never closes c.send twice and never sends on it once closed: either *)
(* would panic and take the whole process down (hub.go:69-75 checks the    *)
(* membership for that reason, docs/phase/phase-2.md:142).                 *)
(***************************************************************************)
NoPanic == run # "panicked"

(***************************************************************************)
(* c.send is closed only under a handler that has called Unregister, so a  *)
(* live connection's write goroutine never ends because of another client. *)
(***************************************************************************)
ClosedOnlyAfterLeave == \A c \in Clients : closed[c] => caller[c] = "left"

(***************************************************************************)
(* What a client receives are broadcasts to its own room, each at most     *)
(* once and in the order of the LocalBroadcast calls, however full its     *)
(* buffer gets and whatever is dropped.                                    *)
(***************************************************************************)
InOrderOwnRoom ==
    \A c \in Clients :
        /\ \A i, j \in DOMAIN Delivered(c) : i < j => Delivered(c)[i] < Delivered(c)[j]
        /\ \A i \in DOMAIN Delivered(c) : target[Delivered(c)[i]] = RoomOf[c]

(***************************************************************************)
(* Run drops a payload only for a client whose buffer is full: whenever a  *)
(* client received something before and something after a payload of its   *)
(* room that it missed, at least SendCap payloads had been put in its      *)
(* channel by then (hub.go:80-86).                                         *)
(***************************************************************************)
GapsOnlyWhenFull ==
    \A c \in Clients : \A i \in DOMAIN Delivered(c) \ {1} :
        (\E n \in Payloads : /\ Delivered(c)[i - 1] < n /\ n < Delivered(c)[i]
                             /\ target[n] = RoomOf[c])
            => i > SendCap

(***************************************************************************)
(* A subscriber stays one until its own handler has left: neither another  *)
(* client's departure, nor the removal of an empty room, nor a drop        *)
(* unsubscribes it (hub.go:68-77).                                         *)
(***************************************************************************)
StaysSubscribed ==
    [][\A c \in Clients : Member(c) /\ caller[c] # "left" => Member(c)']_vars

(***************************************************************************)
(* h.rooms keeps no room without subscribers (hub.go:73-75), whatever the  *)
(* order in which connections come and go: its size is bounded by the      *)
(* number of subscribed connections, not by the rooms ever used.           *)
(***************************************************************************)
NoEmptyRoom == \A r \in DOMAIN rooms : rooms[r] # {}

(***************************************************************************)
(* A slow client never stops the Hub: while Run is not told to stop, every *)
(* payload accepted by LocalBroadcast is dispatched, though no reader is   *)
(* assumed to read (docs/phase/phase-2.md:143).                            *)
(***************************************************************************)
EveryPayloadDispatched ==
    \A n \in Payloads : Occurs(n, broadcast) ~> (~Occurs(n, broadcast) \/ stop)

(***************************************************************************)
(* A departed client that is a member at the moment its Unregister is      *)
(* queued is removed and its channel is closed, unless the Hub is stopped. *)
(***************************************************************************)
SubscribedLeaverReleased ==
    \A c \in Clients :
        (Member(c) /\ Occurs(c, unregister)) ~> (closed[c] \/ stop)

(***************************************************************************)
(* hub.go:52, translated: "on the end of a connection, Unregister takes    *)
(* the Client out of the hub; close(c.send) is done on Run's side."  Once  *)
(* a Run that was not stopped has taken everything a departed client       *)
(* queued, the client is not a member and its channel is closed.           *)
(***************************************************************************)
UnregisterRemoves ==
    \A c \in Clients :
        (caller[c] = "left" /\ ~stop /\ ~Occurs(c, register) /\ ~Occurs(c, unregister))
            => (closed[c] /\ ~Member(c))
=============================================================================
