-------------------------- MODULE RealtimeDelivery --------------------------
(***************************************************************************)
(* A chat message on its way through several realtime-service processes    *)
(* (services/realtime-service: ws/handler.go HandleMessage, pubsub/redis.go*)
(* and the subscriber goroutine of cmd/server/main.go).                    *)
(*                                                                         *)
(* HandleMessage starts two goroutines and waits for neither: one asks     *)
(* chat-service to store the message, the other PUBLISHes it.  Redis gives *)
(* an event to every process subscribed at that moment and keeps nothing;  *)
(* each process, the sender's included, hands what it receives to its Hub. *)
(*                                                                         *)
(* Redis and the go-redis client are external.  Redis executes one command *)
(* at a time.  A command whose answer does not come is sent again, up to   *)
(* MaxTries times, so it may be executed more than once, or late.  A       *)
(* subscription that breaks loses what it had not read and is restored.    *)
(*                                                                         *)
(* PSUBSCRIBE "room:*" carries every room on one stream: rooms play no     *)
(* part before the Hub.  Messages are numbered as they are handled, events *)
(* by their place in log.                                                  *)
(***************************************************************************)
EXTENDS Naturals, Sequences, SequencesExt

CONSTANTS
    Procs,        \* the realtime-service processes
    MaxTries,     \* how often go-redis sends a command (MaxRetries + 1)
    MaxMessages,  \* bounds the messages of a behaviour
    MaxEvents     \* bounds the PUBLISHes Redis executes

ASSUME DeliveryAssumption == {MaxTries, MaxMessages, MaxEvents} \subseteq Nat

VARIABLES
    alive,       \* the processes that run
    origin,      \* origin[n]: the process that handled message n
    known,       \* history: the messages that process had dispatched by then
    persist,     \* the goroutine that has n stored: "calling", "ended"
    publish,     \* the goroutine that publishes n: "trying", "ended"
    tries,       \* how often its command was sent
    pending,     \* how many of these commands may still reach Redis
    log,         \* history: the message of every PUBLISH Redis executed, in order
    linked,      \* the processes whose subscription stands
    inbox,       \* per process: events received and not yet handed on
    dispatched,  \* per process: events given to Hub.LocalBroadcast
    missed       \* history: per process, the events its subscription lost

goroutines == <<persist, publish, tries>>
redis == <<pending, log>>
subscription == <<linked, inbox, dispatched, missed>>
vars == <<alive, origin, known, goroutines, redis, subscription>>

Messages == DOMAIN origin
Content(p) == {log[i] : i \in ToSet(dispatched[p])}

Init ==
    /\ alive = Procs
    /\ origin = <<>> /\ known = <<>>
    /\ persist = <<>> /\ publish = <<>> /\ tries = <<>> /\ pending = <<>>
    /\ log = <<>>
    /\ linked = {}
    /\ inbox = [p \in Procs |-> <<>>] /\ dispatched = [p \in Procs |-> <<>>]
    /\ missed = [p \in Procs |-> {}]

-----------------------------------------------------------------------------
(* HandleMessage and the goroutines it starts. *)

HandleMessage(p) ==
    /\ p \in alive /\ Len(origin) < MaxMessages
    /\ origin' = Append(origin, p)
    /\ known' = Append(known, Content(p))
    /\ persist' = Append(persist, "calling")
    /\ publish' = Append(publish, "trying")
    /\ tries' = Append(tries, 0) /\ pending' = Append(pending, 0)
    /\ UNCHANGED <<alive, log, subscription>>

(* Stored or not: the outcome is only logged.  ChatRooms and               *)
(* MessageHistory say what the call does in chat-service.                  *)
Persist(n) ==
    /\ persist[n] = "calling"
    /\ persist' = [persist EXCEPT ![n] = "ended"]
    /\ UNCHANGED <<alive, origin, known, publish, tries, redis, subscription>>

(* The first time at once, again when no answer came in time.              *)
Send(n) ==
    /\ publish[n] = "trying" /\ tries[n] < MaxTries
    /\ tries' = [tries EXCEPT ![n] = @ + 1]
    /\ pending' = [pending EXCEPT ![n] = @ + 1]
    /\ UNCHANGED <<alive, origin, known, persist, publish, log, subscription>>

(* The five seconds are over, or the retries are.                          *)
PublishFails(n) ==
    /\ publish[n] = "trying"
    /\ publish' = [publish EXCEPT ![n] = "ended"]
    /\ UNCHANGED <<alive, origin, known, persist, tries, redis, subscription>>

-----------------------------------------------------------------------------
(* Redis. *)

Execute(n) ==
    /\ pending[n] > 0 /\ Len(log) < MaxEvents
    /\ pending' = [pending EXCEPT ![n] = @ - 1]
    /\ log' = Append(log, n)
    /\ inbox' = [p \in Procs |-> IF p \in linked THEN Append(inbox[p], Len(log')) ELSE inbox[p]]
    /\ missed' = [p \in Procs |-> IF p \in linked THEN missed[p] ELSE missed[p] \union {Len(log')}]
    /\ \E answer \in {publish[n], "ended"} : publish' = [publish EXCEPT ![n] = answer]
    /\ UNCHANGED <<alive, origin, known, persist, tries, linked, dispatched>>

CommandLost(n) ==
    /\ pending[n] > 0
    /\ pending' = [pending EXCEPT ![n] = @ - 1]
    /\ UNCHANGED <<alive, origin, known, goroutines, log, subscription>>

Link(p) ==
    /\ p \in alive /\ p \notin linked
    /\ linked' = linked \union {p}
    /\ UNCHANGED <<alive, origin, known, goroutines, redis, inbox, dispatched, missed>>

Unlink(p) ==
    /\ p \in linked
    /\ linked' = linked \ {p}
    /\ \E k \in 0..Len(inbox[p]) :
        /\ inbox' = [inbox EXCEPT ![p] = SubSeq(@, 1, k)]
        /\ missed' = [missed EXCEPT ![p] = @ \union ToSet(SubSeq(inbox[p], k + 1, Len(inbox[p])))]
    /\ UNCHANGED <<alive, origin, known, goroutines, redis, dispatched>>

-----------------------------------------------------------------------------
(* The subscriber goroutine, and the process as a whole. *)

(* Mutant: a goroutine per event.                                          *)
SubscriberInAnyOrder(p) ==
    \E i \in DOMAIN inbox[p] :
        /\ dispatched' = [dispatched EXCEPT ![p] = Append(@, inbox[p][i])]
        /\ inbox' = [inbox EXCEPT ![p] = RemoveAt(@, i)]
        /\ UNCHANGED <<alive, origin, known, goroutines, redis, linked, missed>>

(* Mutant: an event of this process is taken for an echo and skipped.      *)
SubscriberWithoutEcho(p) ==
    /\ inbox[p] # <<>>
    /\ dispatched' = [dispatched EXCEPT ![p] =
                        IF origin[log[Head(inbox[p])]] = p THEN @ ELSE Append(@, Head(inbox[p]))]
    /\ inbox' = [inbox EXCEPT ![p] = Tail(@)]
    /\ UNCHANGED <<alive, origin, known, goroutines, redis, linked, missed>>

(* Mutant: the event is dropped when the Hub is busy.                      *)
SubscriberNonBlocking(p) ==
    /\ inbox[p] # <<>>
    /\ \E handed \in {<<>>, <<Head(inbox[p])>>} :
        dispatched' = [dispatched EXCEPT ![p] = @ \o handed]
    /\ inbox' = [inbox EXCEPT ![p] = Tail(@)]
    /\ UNCHANGED <<alive, origin, known, goroutines, redis, linked, missed>>

Subscriber(p) ==
    /\ inbox[p] # <<>>
    /\ dispatched' = [dispatched EXCEPT ![p] = Append(@, Head(inbox[p]))]
    /\ inbox' = [inbox EXCEPT ![p] = Tail(@)]
    /\ UNCHANGED <<alive, origin, known, goroutines, redis, linked, missed>>

EndedWith(p, states) == [n \in Messages |-> IF origin[n] = p THEN "ended" ELSE states[n]]

Crash(p) ==
    /\ p \in alive
    /\ alive' = alive \ {p} /\ linked' = linked \ {p}
    /\ persist' = EndedWith(p, persist)
    /\ publish' = EndedWith(p, publish)
    /\ missed' = [missed EXCEPT ![p] = @ \union ToSet(inbox[p])]
    /\ inbox' = [inbox EXCEPT ![p] = <<>>]
    /\ UNCHANGED <<origin, known, tries, redis, dispatched>>

Start(p) ==
    /\ p \notin alive
    /\ alive' = alive \union {p}
    /\ UNCHANGED <<origin, known, goroutines, redis, subscription>>

Goroutine(n) == Persist(n) \/ Send(n) \/ PublishFails(n)
Network(n) == Execute(n) \/ CommandLost(n)
Process(p) ==
    \/ HandleMessage(p) \/ Link(p) \/ Unlink(p) \/ Subscriber(p) \/ Crash(p) \/ Start(p)

Next ==
    \/ \E n \in Messages : Goroutine(n) \/ Network(n)
    \/ \E p \in Procs : Process(p)

Spec == Init /\ [][Next]_vars

-----------------------------------------------------------------------------
Events == DOMAIN log

(***************************************************************************)
(* An answer never overtakes the question: before a process dispatches a   *)
(* message, it has dispatched, or lost, everything the writer's process    *)
(* had dispatched when the message was handled.  Retries that duplicate a  *)
(* command or execute it late, broken subscriptions and restarts do not    *)
(* change this (ws/handler.go:170-176, redis.go:45-54).                    *)
(***************************************************************************)
CausalOrder ==
    \A p \in Procs : \A j \in DOMAIN dispatched[p] :
        \A m \in known[log[dispatched[p][j]]] :
            \E i \in 1..(dispatched[p][j] - 1) :
                /\ log[i] = m
                /\ i \in missed[p] \/ \E k \in 1..(j - 1) : dispatched[p][k] = i

(***************************************************************************)
(* All processes show the events in one order, Redis's, each event once,   *)
(* and a process goes without an event only if its subscription lost it:   *)
(* its own messages come back to it like everybody else's (redis.go:45-54, *)
(* main.go:75-77).                                                         *)
(***************************************************************************)
OneStream ==
    \A p \in Procs :
        LET stream == dispatched[p] \o inbox[p] IN
        /\ \A j \in DOMAIN stream : \A k \in 1..(j - 1) : stream[k] < stream[j]
        /\ ToSet(stream) = Events \ missed[p]
=============================================================================
