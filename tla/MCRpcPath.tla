----------------------------- MODULE MCRpcPath -----------------------------
(* Instances of RpcPath for TLC: two calls of two users at once.           *)
EXTENDS RpcPath

CONSTANTS p, q, alice, bob

TwoCalls == {p, q}
TwoUsers == {alice, bob}
=============================================================================
