--------------------------- MODULE MCGrpcLifecycle ---------------------------
(* Instances of GrpcLifecycle for TLC.                                      *)
EXTENDS GrpcLifecycle

CONSTANTS r1, r2, r3

ThreeRpcs == {r1, r2, r3}
=============================================================================
