----------------------------- MODULE SharedLog -----------------------------
(***************************************************************************)
(* What Redis and the subscribers promise the Hubs: one log of events that *)
(* every process shows in its order.  A process goes to an event only when *)
(* it has shown or lost all before it; what is lost stays lost, and what   *)
(* is shown is shown once and for good.  Which events are lost, and        *)
(* whether a process ever shows one, is left open.                         *)
(*                                                                         *)
(* RealtimeDelivery implements this (DeliveryLog): goroutines, commands,   *)
(* retries, broken subscriptions and crashes are hidden behind "published" *)
(* and "lost".                                                             *)
(***************************************************************************)
EXTENDS Naturals, SequencesExt

CONSTANT Procs

VARIABLES
    published,   \* how many events there are; they are numbered from 1
    shown,       \* the events each process has shown, in its order
    lost         \* the events each process will never show

logVars == <<published, shown, lost>>

LogInit ==
    /\ published = 0
    /\ shown = [p \in Procs |-> <<>>]
    /\ lost = [p \in Procs |-> {}]

(* Some of the processes are not there to receive the event.               *)
Publish ==
    /\ published' = published + 1
    /\ \E absent \in SUBSET Procs :
        lost' = [p \in Procs |-> IF p \in absent THEN lost[p] \union {published'} ELSE lost[p]]
    /\ UNCHANGED shown

Behind(p, e) == e \in ToSet(shown[p]) \union lost[p]

Show(p) ==
    /\ \E e \in 1..published :
        /\ ~Behind(p, e) /\ \A i \in 1..(e - 1) : Behind(p, i)
        /\ shown' = [shown EXCEPT ![p] = Append(@, e)]
    /\ UNCHANGED <<published, lost>>

Lose(p) ==
    /\ \E some \in SUBSET {e \in 1..published : ~Behind(p, e)} :
        lost' = [lost EXCEPT ![p] = @ \union some]
    /\ UNCHANGED <<published, shown>>

LogNext == Publish \/ \E p \in Procs : Show(p) \/ Lose(p)

LogSpec == LogInit /\ [][LogNext]_logVars
=============================================================================
