------------------------ MODULE MCRealtimeLifecycle ------------------------
(* Instances of RealtimeLifecycle for TLC.                                 *)
EXTENDS RealtimeLifecycle

CONSTANTS c1, c2, c3

ThreeConns == {c1, c2, c3}
=============================================================================
