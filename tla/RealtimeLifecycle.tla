-------------------------- MODULE RealtimeLifecycle -------------------------
(***************************************************************************)
(* Life and end of a realtime-service process (run in                      *)
(* services/realtime-service/cmd/server/main.go): configuration, the Ping  *)
(* of Redis with its five seconds, the connection to chat-service, Hub,    *)
(* subscriber and HTTP server; the select on the signal and the server;    *)
(* Shutdown with its ten seconds; and the defers in their order: h.Stop,   *)
(* cc.Close, ps.Close.                                                     *)
(*                                                                         *)
(* External: http.Server.Shutdown closes the listener and waits for the    *)
(* requests in progress, but forgets a connection once Accept has hijacked *)
(* it, before its handler registers with the Hub; the context of its       *)
(* request does not derive from the signal's.                              *)
(***************************************************************************)
EXTENDS Naturals

CONSTANT Conns   \* the connections of a behaviour

VARIABLES
    main,        \* "load", "ping", "dial", "select", "shutdown", "defers", "returned"
    signalled,   \* SIGTERM or SIGINT arrived: the context of run is done
    listener,    \* "none", "starting", "open", "failed" or "closed"
    outcome,     \* what run returned: "none" before, "nil", "timeout", "error"
    conn,        \* as in ConnStates
    subscriber,  \* "none", "running" or "ended"
    hub, chat, redis   \* "none", "open" or "closed": Run, and the two clients

clients == <<hub, chat, redis>>
vars == <<main, signalled, listener, outcome, conn, subscriber, clients>>

ConnStates == {"none", "upgrading", "hijacked", "registered", "gone", "cut"}

Upgrading == {c \in Conns : conn[c] = "upgrading"}
Sockets == {c \in Conns : conn[c] \in {"hijacked", "registered"}}

Init ==
    /\ main = "load" /\ signalled = FALSE /\ listener = "none" /\ outcome = "none"
    /\ conn = [c \in Conns |-> "none"] /\ subscriber = "none"
    /\ hub = "none" /\ chat = "none" /\ redis = "none"

-----------------------------------------------------------------------------
(* run, up to its select.                                                  *)

LoadConfig ==
    /\ main = "load" /\ main' = "ping"
    /\ UNCHANGED <<signalled, listener, outcome, conn, subscriber, clients>>

(* From here on ps.Close is deferred.                                      *)
Ping ==
    /\ main = "ping" /\ main' = "dial"
    /\ redis' = "open"
    /\ UNCHANGED <<signalled, listener, outcome, conn, subscriber, hub, chat>>

(* Mutant: the error of Dial is overlooked.                                *)
DialFailureIgnored ==
    /\ main = "dial" /\ main' = "select"
    /\ hub' = "open" /\ subscriber' = "running" /\ listener' = "starting"
    /\ UNCHANGED <<signalled, outcome, conn, chat, redis>>

(* chatclient, and then Hub, subscriber and server in their goroutines.    *)
Dial ==
    /\ main = "dial" /\ main' = "select"
    /\ chat' = "open" /\ hub' = "open" /\ subscriber' = "running" /\ listener' = "starting"
    /\ UNCHANGED <<signalled, outcome, conn, redis>>

(* A missing variable, five seconds without Redis or a signal during them, *)
(* a malformed address.                                                    *)
StartFails ==
    /\ main \in {"load", "ping", "dial"} /\ main' = "defers"
    /\ outcome' = "error"
    /\ UNCHANGED <<signalled, listener, conn, subscriber, clients>>

-----------------------------------------------------------------------------
(* Before NotifyContext a signal ends the process by itself.               *)
Signal ==
    /\ main \notin {"load", "returned"} /\ ~signalled
    /\ signalled' = TRUE
    /\ UNCHANGED <<main, listener, outcome, conn, subscriber, clients>>

ListenerOpens ==
    /\ listener = "starting" /\ main # "returned"
    /\ listener' = "open"
    /\ UNCHANGED <<main, signalled, outcome, conn, subscriber, clients>>

ListenerFails ==
    /\ listener \in {"starting", "open"} /\ main = "select"
    /\ listener' = "failed"
    /\ UNCHANGED <<main, signalled, outcome, conn, subscriber, clients>>

Connection(c, from, to) ==
    /\ main # "returned"
    /\ conn[c] = from /\ conn' = [conn EXCEPT ![c] = to]
    /\ UNCHANGED <<main, signalled, listener, outcome, subscriber, clients>>

Request(c) == listener = "open" /\ Connection(c, "none", "upgrading")
Refuse(c) == Connection(c, "upgrading", "gone")
Accept(c) == Connection(c, "upgrading", "hijacked")

(* Even into the channel of a Hub that has stopped.                        *)
Register(c) == Connection(c, "hijacked", "registered")

PeerLeaves(c) == Connection(c, "registered", "gone")

(* Subscribe returns on the signal or because Redis was closed.            *)
SubscriberEnds ==
    /\ main # "returned"
    /\ subscriber = "running" /\ (signalled \/ redis = "closed")
    /\ subscriber' = "ended"
    /\ UNCHANGED <<main, signalled, listener, outcome, conn, clients>>

-----------------------------------------------------------------------------
(* run. *)

SignalSeen ==
    /\ main = "select" /\ signalled
    /\ main' = "shutdown"
    /\ listener' = (IF listener = "failed" THEN listener ELSE "closed")
    /\ UNCHANGED <<signalled, outcome, conn, subscriber, clients>>

ErrorSeen ==
    /\ main = "select" /\ listener = "failed"
    /\ main' = "defers" /\ outcome' = "error"
    /\ UNCHANGED <<signalled, listener, conn, subscriber, clients>>

Shutdown ==
    /\ main = "shutdown" /\ Upgrading = {}
    /\ main' = "defers" /\ outcome' = "nil"
    /\ UNCHANGED <<signalled, listener, conn, subscriber, clients>>

(* Mutant: Shutdown gets a context that does not end.                      *)
NeverOver == FALSE

TenSecondsOver ==
    /\ main = "shutdown" /\ Upgrading # {}
    /\ main' = "defers" /\ outcome' = "timeout"
    /\ UNCHANGED <<signalled, listener, conn, subscriber, clients>>

(* The defers; only what was opened has one.                               *)
HubStop ==
    /\ main = "defers" /\ hub = "open"
    /\ hub' = "closed"
    /\ UNCHANGED <<main, signalled, listener, outcome, conn, subscriber, chat, redis>>

ChatClose ==
    /\ main = "defers" /\ hub # "open" /\ chat = "open"
    /\ chat' = "closed"
    /\ UNCHANGED <<main, signalled, listener, outcome, conn, subscriber, hub, redis>>

RedisClose ==
    /\ main = "defers" /\ hub # "open" /\ chat # "open" /\ redis = "open"
    /\ redis' = "closed"
    /\ UNCHANGED <<main, signalled, listener, outcome, conn, subscriber, hub, chat>>

(* With the process go the connections that remain.                        *)
Exit ==
    /\ main = "defers" /\ {hub, chat, redis} \subseteq {"none", "closed"}
    /\ main' = "returned"
    /\ conn' = [c \in Conns |-> IF c \in Upgrading \cup Sockets THEN "cut" ELSE conn[c]]
    /\ UNCHANGED <<signalled, listener, outcome, subscriber, clients>>

Main ==
    \/ LoadConfig \/ Ping \/ Dial \/ StartFails
    \/ SignalSeen \/ ErrorSeen \/ Shutdown \/ TenSecondsOver
    \/ HubStop \/ ChatClose \/ RedisClose \/ Exit

Handler(c) == Request(c) \/ Refuse(c) \/ Accept(c) \/ Register(c) \/ PeerLeaves(c)

World ==
    \/ Signal \/ ListenerOpens \/ ListenerFails \/ SubscriberEnds
    \/ \E c \in Conns : Handler(c)

Next == Main \/ World

Spec == Init /\ [][Next]_vars

(* run takes every step it can; the contexts of Ping and Shutdown end.     *)
FairSpec == Spec /\ WF_vars(Main)

-----------------------------------------------------------------------------
(* Nobody listens before the select or after it, and run has its outcome   *)
(* once it leaves for the defers.                                          *)
TypeOK ==
    /\ main \in {"load", "ping", "dial", "select", "shutdown", "defers", "returned"}
    /\ signalled \in BOOLEAN
    /\ listener \in {"none", "starting", "open", "failed", "closed"}
    /\ outcome \in {"none", "nil", "timeout", "error"}
    /\ conn \in [Conns -> ConnStates]
    /\ subscriber \in {"none", "running", "ended"}
    /\ {hub, chat, redis} \subseteq {"none", "open", "closed"}
    /\ listener \in {"starting", "open"} => main = "select"
    /\ main = "shutdown" => listener \in {"closed", "failed"}
    /\ (outcome = "none") = (main \notin {"defers", "returned"})

(***************************************************************************)
(* Whoever is connected before run knows its outcome finds Hub, chat       *)
(* client and Redis open, and a subscriber that runs unless the signal     *)
(* came: nobody is let in halfway through the start, and the clients wait  *)
(* for Shutdown (main.go:53-70, 108-110).                                  *)
(***************************************************************************)
ServedByAll ==
    Upgrading \cup Sockets # {} /\ outcome = "none" =>
        /\ hub = "open" /\ chat = "open" /\ redis = "open"
        /\ subscriber = "running" \/ signalled

(***************************************************************************)
(* A signal, a server or a start that fails end the process, whatever      *)
(* becomes of Redis, of a handshake that never ends or of the WebSockets   *)
(* (main.go:52, 108).                                                      *)
(***************************************************************************)
ProcessEnds ==
    (signalled \/ listener = "failed" \/ outcome = "error") ~> (main = "returned")

(***************************************************************************)
(* What docs/phase/phase-2.md:188 asks of a graceful shutdown and main.go  *)
(* :106-107 says happens: the WebSockets end before Redis is closed.  The  *)
(* read loops wait on the context of their request (handler.go:68), which  *)
(* the signal does not end, and Shutdown does not wait for them.           *)
(***************************************************************************)
SocketsEndBeforeRedis ==
    redis = "closed" /\ outcome = "nil" => \A c \in Conns : conn[c] # "registered"
=============================================================================
