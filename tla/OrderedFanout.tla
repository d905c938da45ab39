--------------------------- MODULE OrderedFanout ---------------------------
(***************************************************************************)
(* What the Hub promises its callers: payloads are accepted in some order, *)
(* dispatched in that order, each once, and each goes to some of the       *)
(* connections of its room and to nobody else.  Who misses a payload, and  *)
(* whether dispatching ever stops, is left open.                           *)
(*                                                                         *)
(* Hub implements this (HubFanout): channels, registrations, slow readers  *)
(* and the stop are hidden behind "some of the connections".               *)
(***************************************************************************)
EXTENDS Naturals, Sequences

CONSTANTS Clients, Rooms, RoomOf

VARIABLES
    accepted,    \* the room of every payload, in the order of acceptance
    dispatched,  \* how many of them were dispatched
    received     \* the payloads each connection was given

fanoutVars == <<accepted, dispatched, received>>

FanoutInit ==
    /\ accepted = <<>> /\ dispatched = 0
    /\ received = [c \in Clients |-> <<>>]

Accept(r) ==
    /\ accepted' = Append(accepted, r)
    /\ UNCHANGED <<dispatched, received>>

InRoom(n) == {c \in Clients : RoomOf[c] = accepted[n]}

Dispatch ==
    /\ dispatched < Len(accepted)
    /\ dispatched' = dispatched + 1
    /\ \E some \in SUBSET InRoom(dispatched') :
        received' = [c \in Clients |-> IF c \in some THEN Append(received[c], dispatched')
                                                     ELSE received[c]]
    /\ UNCHANGED accepted

FanoutNext == Dispatch \/ \E r \in Rooms : Accept(r)

FanoutSpec == FanoutInit /\ [][FanoutNext]_fanoutVars
=============================================================================
