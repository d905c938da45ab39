-------------------------- MODULE MCRefreshTokens --------------------------
(* Instances of RefreshTokens for TLC: two interchangeable calls. *)
EXTENDS RefreshTokens, TLC

CONSTANTS p, q

TwoCalls == {p, q}
CallSymmetry == Permutations(TwoCalls)
=============================================================================
