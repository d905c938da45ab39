--------------------------- MODULE MCWsConnection ---------------------------
(* Instances of WsConnection for TLC: two connections in one room. *)
EXTENDS WsConnection

CONSTANTS a, b, general

TwoClients == {a, b}
OneRoom == {general}
RoomOfTwo == [c \in TwoClients |-> general]
=============================================================================
