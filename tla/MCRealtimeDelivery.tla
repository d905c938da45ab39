------------------------- MODULE MCRealtimeDelivery -------------------------
(* Instances of RealtimeDelivery for TLC: two processes, a question and an *)
(* answer, every command sent at most twice.                               *)
EXTENDS DeliveryLog, TLC

CONSTANTS a, b

TwoProcs == {a, b}
Symmetric == Permutations(TwoProcs)
=============================================================================
