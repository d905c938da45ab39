------------------------------- MODULE MCHub -------------------------------
(* Instances of Hub for TLC: two connections share a room and a third one  *)
(* is alone in another; every channel is small enough to fill up.          *)
EXTENDS HubFanout, TLC

CONSTANTS a, b, d, general, other

ThreeClients == {a, b, d}
TwoRooms == {general, other}
Symmetric == Permutations({a, b})
RoomOfThree == [c \in ThreeClients |-> IF c = d THEN other ELSE general]

TwoClients == {a, b}
RoomOfTwo == [c \in TwoClients |-> general]
=============================================================================
