----------------------------- MODULE HubFanout -----------------------------
(***************************************************************************)
(* Hub implements OrderedFanout: what was dispatched is what was accepted  *)
(* and no longer waits in the broadcast channel, and what a client was     *)
(* given is what its write goroutine took followed by what is buffered.    *)
(***************************************************************************)
EXTENDS Hub

Fanout == INSTANCE OrderedFanout WITH
    accepted <- target,
    dispatched <- Len(target) - Len(broadcast),
    received <- [c \in Clients |-> Delivered(c)]

(***************************************************************************)
(* Every step of the Hub is a step of the abstract fan-out or none: a      *)
(* payload is given out once, in the order of LocalBroadcast, to           *)
(* connections of its room only, however registrations, departures, drops  *)
(* and the stop interleave (hub.go:60-92).                                 *)
(***************************************************************************)
FansOut == Fanout!FanoutSpec
=============================================================================
