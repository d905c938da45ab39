---------------------------- MODULE MCUserService ----------------------------
(***************************************************************************)
(* User-service for TLC: its accounts and its refresh tokens.  They share  *)
(* no table, call or client, so what one part does never depends on the    *)
(* other, and it is enough to let each run while the other rests.          *)
(*                                                                         *)
(* Two of everything in Accounts, so that two users can ask for the same   *)
(* address or name and two calls can meet in one row.                      *)
(***************************************************************************)
EXTENDS MCRefreshTokens, Accounts

CONSTANTS c1, c2, a1, a2, n1, n2, p1, p2, t1, t2

UserSymmetry ==
    CallSymmetry \union Permutations({c1, c2}) \union Permutations({a1, a2})
        \union Permutations({n1, n2}) \union Permutations({t1, t2})

VARIABLE part   \* the part of the service that a behaviour is about

UserInit == Init /\ AccountsInit /\ part \in {"tokens", "accounts"}

UserNext ==
    \/ part = "tokens" /\ Next /\ UNCHANGED <<accountsVars, part>>
    \/ part = "accounts" /\ AccountsNext /\ UNCHANGED <<vars, part>>

UserSpec == UserInit /\ [][UserNext]_<<vars, accountsVars, part>>
=============================================================================
