---------------------------- MODULE MCChatService ----------------------------
(***************************************************************************)
(* Chat-service for TLC: its rooms, and the history of one of them.  The   *)
(* history takes Send as it is called, after EnsureMember, so what one     *)
(* part does never depends on the other, and it is enough to let each run  *)
(* while the other rests.                                                  *)
(***************************************************************************)
EXTENDS ChatRooms, MessageHistory, TLC

CONSTANTS p, q, c, alice, bob, general, s1, s2

ThreeCalls == {p, q, c}
TwoUsers == {alice, bob}
OneRoom == {general}
NoneOrMany == {0, 9}
TwoSenders == {s1, s2}
FourIds == 1..4
OneOrTwo == {1, 2}

Symmetry == Permutations(ThreeCalls) \cup Permutations(TwoUsers) \cup Permutations(TwoSenders)

VARIABLE part   \* the part of the service that a behaviour is about

ChatInit == Init /\ HistoryInit /\ part \in {"rooms", "history"}

ChatNext ==
    \/ part = "rooms" /\ Next /\ UNCHANGED <<historyVars, part>>
    \/ part = "history" /\ HistoryNext /\ UNCHANGED <<vars, part>>

ChatSpec == ChatInit /\ [][ChatNext]_<<vars, historyVars, part>>
==============================================================================
