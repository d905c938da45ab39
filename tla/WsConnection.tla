---------------------------- MODULE WsConnection ----------------------------
(***************************************************************************)
(* The two goroutines of a WebSocket connection (ws.Handler in             *)
(* services/realtime-service/internal/ws/handler.go) on top of Hub.        *)
(*                                                                         *)
(* ServeHTTP accepts the connection, registers a client, starts writeLoop  *)
(* and becomes readLoop.  When readLoop returns it closes the connection   *)
(* and its defers run: cancel the context, Unregister, close again.        *)
(* writeLoop ends on the context, on a closed c.send or on a failed write. *)
(*                                                                         *)
(* The connection is the library's (github.com/coder/websocket): the peer  *)
(* may vanish at any moment, and a Write that fails or outlives its five   *)
(* seconds closes it, which makes the pending Read fail.                   *)
(*                                                                         *)
(* What HandleMessage starts for a valid message runs in goroutines of its *)
(* own and touches neither loop: here, a LocalBroadcast at any time.       *)
(***************************************************************************)
EXTENDS Hub

VARIABLES
    handler,   \* "idle", "accepted", "reading", "replying", "closing", "leaving", "done"
    writer,    \* "none", "waiting", "writing" or "done"
    conn,      \* "none", "open" or "closed"
    ctxDone,   \* the connection's context was cancelled
    wire       \* history: the payloads written to the connection

wsVars == <<handler, writer, conn, ctxDone, wire>>
allVars == <<vars, wsVars>>

WsInit ==
    /\ Init
    /\ handler = [c \in Clients |-> "idle"]
    /\ writer = [c \in Clients |-> "none"]
    /\ conn = [c \in Clients |-> "none"]
    /\ ctxDone = [c \in Clients |-> FALSE]
    /\ wire = [c \in Clients |-> <<>>]

HandlerGoes(c, from, to) ==
    handler[c] = from /\ handler' = [handler EXCEPT ![c] = to]

WriterGoes(c, from, to) ==
    writer[c] = from /\ writer' = [writer EXCEPT ![c] = to]

-----------------------------------------------------------------------------
(* ServeHTTP and readLoop. *)

Accept(c) ==
    /\ HandlerGoes(c, "idle", "accepted")
    /\ conn' = [conn EXCEPT ![c] = "open"]
    /\ UNCHANGED <<vars, writer, ctxDone, wire>>

RegisterAndStart(c) ==
    /\ HandlerGoes(c, "accepted", "reading")
    /\ Register(c)
    /\ WriterGoes(c, "none", "waiting")
    /\ UNCHANGED <<conn, ctxDone, wire>>

PeerGone(c) ==
    /\ conn[c] = "open"
    /\ conn' = [conn EXCEPT ![c] = "closed"]
    /\ UNCHANGED <<vars, handler, writer, ctxDone, wire>>

(* A frame that is not JSON or of an unknown type is answered from the     *)
(* read loop, which reads on whether or not the answer could be written.   *)
BadFrame(c) ==
    /\ HandlerGoes(c, "reading", "replying") /\ conn[c] = "open"
    /\ UNCHANGED <<vars, writer, conn, ctxDone, wire>>

SendError(c) ==
    /\ HandlerGoes(c, "replying", "reading")
    /\ \E after \in {conn[c], "closed"} : conn' = [conn EXCEPT ![c] = after]
    /\ UNCHANGED <<vars, writer, ctxDone, wire>>

ReadFails(c) ==
    /\ HandlerGoes(c, "reading", "closing") /\ conn[c] = "closed"
    /\ UNCHANGED <<vars, writer, conn, ctxDone, wire>>

Cancel(c) ==
    /\ HandlerGoes(c, "closing", "leaving")
    /\ ctxDone' = [ctxDone EXCEPT ![c] = TRUE]
    /\ UNCHANGED <<vars, writer, conn, wire>>

(* Mutant: without the deferred cancel.                                    *)
UnregisterWithoutCancel(c) ==
    /\ HandlerGoes(c, "closing", "done")
    /\ Unregister(c)
    /\ UNCHANGED <<writer, conn, ctxDone, wire>>

UnregisterAndReturn(c) ==
    /\ HandlerGoes(c, "leaving", "done")
    /\ Unregister(c)
    /\ UNCHANGED <<writer, conn, ctxDone, wire>>

-----------------------------------------------------------------------------
(* writeLoop. *)

TakePayload(c) ==
    /\ WriterGoes(c, "waiting", "writing")
    /\ Receive(c)
    /\ UNCHANGED <<handler, conn, ctxDone, wire>>

Write(c) ==
    /\ WriterGoes(c, "writing", "waiting") /\ conn[c] = "open"
    /\ wire' = [wire EXCEPT ![c] = Append(@, got[c][Len(got[c])])]
    /\ UNCHANGED <<vars, handler, conn, ctxDone>>

(* Mutant: a failed write is skipped.                                      *)
WriteFailsAndGoesOn(c) ==
    /\ WriterGoes(c, "writing", "waiting")
    /\ UNCHANGED <<vars, handler, conn, ctxDone, wire>>

WriteFails(c) ==
    /\ WriterGoes(c, "writing", "done")
    /\ conn' = [conn EXCEPT ![c] = "closed"]
    /\ UNCHANGED <<vars, handler, ctxDone, wire>>

(* Mutant: the loop waits for the closed channel only.                     *)
StopWritingOnClose(c) ==
    /\ WriterGoes(c, "waiting", "done")
    /\ closed[c] /\ send[c] = <<>>
    /\ UNCHANGED <<vars, handler, conn, ctxDone, wire>>

StopWriting(c) ==
    /\ WriterGoes(c, "waiting", "done")
    /\ ctxDone[c] \/ (closed[c] /\ send[c] = <<>>)
    /\ UNCHANGED <<vars, handler, conn, ctxDone, wire>>

-----------------------------------------------------------------------------
HubStep ==
    /\ Run \/ Stop \/ \E r \in Rooms : LocalBroadcast(r)
    /\ UNCHANGED wsVars

HandlerStep(c) ==
    \/ RegisterAndStart(c) \/ SendError(c) \/ ReadFails(c) \/ Cancel(c)
    \/ UnregisterAndReturn(c)

WriterStep(c) == TakePayload(c) \/ Write(c) \/ WriteFails(c) \/ StopWriting(c)

PeerStep(c) == Accept(c) \/ PeerGone(c) \/ BadFrame(c)

WsNext == HubStep \/ \E c \in Clients : HandlerStep(c) \/ WriterStep(c) \/ PeerStep(c)

(***************************************************************************)
(* A goroutine that can step does: no call blocks but on a channel, and    *)
(* every Write returns within its timeout.  Run's select chooses uniformly *)
(* at random among the ready cases, so a case that is ready again and      *)
(* again is taken.  Peers owe nothing.                                     *)
(***************************************************************************)
WsFairness ==
    /\ SF_allVars(TakeRegister /\ UNCHANGED wsVars)
    /\ SF_allVars(TakeUnregister /\ UNCHANGED wsVars)
    /\ SF_allVars(TakeBroadcast /\ UNCHANGED wsVars)
    /\ SF_allVars(TakeStop /\ UNCHANGED wsVars)
    /\ \A c \in Clients : WF_allVars(HandlerStep(c)) /\ WF_allVars(WriterStep(c))

WsSpec == WsInit /\ [][WsNext]_allVars
WsFairSpec == WsSpec /\ WsFairness

-----------------------------------------------------------------------------
WsTypeOK ==
    /\ TypeOK
    /\ handler \in [Clients -> {"idle", "accepted", "reading", "replying",
                                "closing", "leaving", "done"}]
    /\ writer \in [Clients -> {"none", "waiting", "writing", "done"}]
    /\ conn \in [Clients -> {"none", "open", "closed"}]
    /\ ctxDone \in [Clients -> BOOLEAN]
    /\ wire \in [Clients -> Seq(Payloads)]

(***************************************************************************)
(* Run closes c.send only when the connection is closed and its context    *)
(* cancelled: the Hub never cuts a connection that could still be written  *)
(* to, whoever else leaves the room meanwhile (handler.go:65, 69 and 76:   *)
(* the order of the defers).                                               *)
(***************************************************************************)
CloseAfterCancel ==
    \A c \in Clients : closed[c] => ctxDone[c] /\ conn[c] = "closed"

(***************************************************************************)
(* What reached the wire is exactly what writeLoop took, less the payload  *)
(* in hand or the one whose write failed: a failed write is never followed *)
(* by a later payload, so a peer sees a gap only where the Hub dropped.    *)
(***************************************************************************)
NothingLostInWriter ==
    \A c \in Clients :
        \/ wire[c] = got[c]
        \/ /\ writer[c] \in {"writing", "done"} /\ got[c] # <<>>
           /\ wire[c] = SubSeq(got[c], 1, Len(got[c]) - 1)

(***************************************************************************)
(* handler.go:67: whichever goroutine of a connection ends first, the      *)
(* other one ends too and the handler returns, unless the Hub is stopped.  *)
(* That includes a connection whose channel Run never closes.              *)
(***************************************************************************)
BothLoopsEnd ==
    \A c \in Clients :
        (writer[c] = "done" \/ handler[c] = "closing" \/ (handler[c] = "reading" /\ conn[c] = "closed"))
            ~> ((writer[c] = "done" /\ handler[c] = "done") \/ stop)
=============================================================================
