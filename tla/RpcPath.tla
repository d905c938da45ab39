------------------------------ MODULE RpcPath ------------------------------
(***************************************************************************)
(* The way of a request through the services: the generated stubs and      *)
(* handlers, the interceptor, the identity in the metadata, the            *)
(* adapters, the order of each operation's statements, and the call that   *)
(* chat-service makes to user-service to complete a list of members.       *)
(*                                                                         *)
(* A call from outside is a hop of its own, and so is the one chat-service *)
(* makes for it.  What a statement answers is any answer its table can     *)
(* give (ChatRooms, Accounts and RefreshTokens keep the tables); any of    *)
(* them may fail, and any client may stop waiting while its server goes    *)
(* on.  External: Envoy, which turns HTTP into RPCs and sets x-user-id.    *)
(***************************************************************************)
EXTENDS Naturals, Sequences

CONSTANTS
    Calls,    \* the calls from outside in a behaviour
    Users,    \* the users they come from
    NoUser    \* no x-user-id, or no sender_id

ASSUME RpcAssumption == NoUser \notin Users

VARIABLES
    request,  \* of each hop: the RPC, its x-user-id and its sender_id
    stage,    \* of each hop: "idle", "sent", "serving", "enriching", "done"
    at,       \* the statement a served hop executes next
    wrote,    \* history: the hops that changed a table
    code      \* what the client of each hop was told; "none" while it waits

vars == <<request, stage, at, wrote, code>>

Outer(p) == <<p, "outer">>
Inner(p) == <<p, "inner">>
Hops == Calls \X {"outer", "inner"}

-----------------------------------------------------------------------------
(* The operations and their statements, in order.  A statement reads or    *)
(* writes, and it, or the checks right before it, refuse with the errors   *)
(* named.  Users, tokens and rooms are never deleted, so a row that one    *)
(* statement of an operation found is there for the next one.              *)

Read(errors) == [writes |-> FALSE, refuses |-> errors]
Write(errors) == [writes |-> TRUE, refuses |-> errors]

RoomProgram == [
    CreateRoom      |-> <<Write({"ErrInvalidArgument"}), Write({"ErrAlreadyMember"})>>,
    GetRoom         |-> <<Read({"ErrNotFound"}), Read({})>>,
    ListRooms       |-> <<Read({})>>,
    SearchRooms     |-> <<Read({})>>,
    JoinRoom        |-> <<Read({"ErrNotFound"}), Write({})>>,
    LeaveRoom       |-> <<Write({"ErrNotMember"})>>,
    ListRoomMembers |-> <<Read({"ErrNotFound"}), Read({})>>]

(* Mutant: Send stores the message before it asks for the content.         *)
MessageProgramStoresFirst == [
    SendMessage |-> <<Write({"ErrNotMember"}), Read({"ErrInvalidArgument"})>>,
    GetMessages |-> <<Read({"ErrNotMember"}), Read({"ErrInvalidArgument", "ErrInvalidCursor"})>>]

MessageProgram == [
    SendMessage |-> <<Read({"ErrNotMember"}), Write({"ErrInvalidArgument"})>>,
    GetMessages |-> <<Read({"ErrNotMember"}), Read({"ErrInvalidArgument", "ErrInvalidCursor"})>>]

UserProgram == [
    Register      |-> <<Write({"ErrInvalidCreds", "ErrAlreadyExists"})>>,
    Login         |-> <<Read({"ErrInvalidCreds"}), Write({})>>,
    Refresh       |-> <<Read({"ErrTokenInvalid"}), Write({}), Read({}), Write({})>>,
    GetMe         |-> <<Read({"ErrNotFound"})>>,
    UpdateMe      |-> <<Read({"ErrNotFound"}), Write({})>>,
    GetUser       |-> <<Read({"ErrNotFound"})>>,
    BatchGetUsers |-> <<Read({})>>]

RoomRpcs == DOMAIN RoomProgram
MessageRpcs == DOMAIN MessageProgram
ChatRpcs == RoomRpcs \cup MessageRpcs
UserRpcs == DOMAIN UserProgram

(* The chat server forwards each RPC to the adapter of its domain.         *)
Program(rpc) ==
    IF rpc \in RoomRpcs THEN RoomProgram[rpc]
    ELSE IF rpc \in MessageRpcs THEN MessageProgram[rpc] ELSE UserProgram[rpc]

NeedsRequester ==
    {"CreateRoom", "ListRooms", "JoinRoom", "LeaveRoom", "SendMessage", "GetMessages",
     "GetMe", "UpdateMe"}

-----------------------------------------------------------------------------
(* Domain errors become codes; an error of no domain, of the database for  *)
(* instance, is Internal everywhere.                                       *)

RoomCode(err) ==
    CASE err = "ErrNotFound" -> "NotFound"
      [] err = "ErrAlreadyMember" -> "AlreadyExists"
      [] err = "ErrNotMember" -> "FailedPrecondition"
      [] err = "ErrInvalidArgument" -> "InvalidArgument"
      [] OTHER -> "Internal"

MessageCode(err) ==
    CASE err \in {"ErrInvalidArgument", "ErrInvalidCursor"} -> "InvalidArgument"
      [] err = "ErrNotFound" -> "NotFound"
      [] err = "ErrNotMember" -> "PermissionDenied"
      [] OTHER -> "Internal"

UserCode(err) ==
    CASE err = "ErrNotFound" -> "NotFound"
      [] err = "ErrAlreadyExists" -> "AlreadyExists"
      [] err \in {"ErrInvalidCreds", "ErrTokenInvalid"} -> "Unauthenticated"
      [] OTHER -> "Internal"

Code(rpc, err) ==
    IF rpc \in RoomRpcs THEN RoomCode(err)
    ELSE IF rpc \in MessageRpcs THEN MessageCode(err) ELSE UserCode(err)

Missing(rpc) ==
    IF rpc \in MessageRpcs THEN "Unauthenticated"
    ELSE Code(rpc, IF rpc \in RoomRpcs THEN "ErrInvalidArgument" ELSE "ErrInvalidCreds")

(* The codes that say: refused, and nothing done.                          *)
Refusals ==
    {"InvalidArgument", "NotFound", "AlreadyExists", "FailedPrecondition",
     "PermissionDenied", "Unauthenticated"}

-----------------------------------------------------------------------------
NoRequest == [rpc |-> "none", user |-> NoUser, sender |-> NoUser]

Init ==
    /\ request = [h \in Hops |-> NoRequest]
    /\ stage = [h \in Hops |-> "idle"]
    /\ at = [h \in Hops |-> 0]
    /\ wrote = {}
    /\ code = [h \in Hops |-> "none"]

(* A stub of the generated clients.                                        *)
Invoke(h, r) ==
    /\ stage[h] = "idle"
    /\ stage' = [stage EXCEPT ![h] = "sent"]
    /\ request' = [request EXCEPT ![h] = r]
    /\ UNCHANGED <<at, wrote, code>>

(* Envoy: any RPC, with the user of a token it verified or without one;    *)
(* the body of SendMessage may name anybody.                               *)
GatewayCall(p, rpc, u, s) ==
    /\ rpc # "SendMessage" => s = NoUser
    /\ Invoke(Outer(p), [rpc |-> rpc, user |-> u, sender |-> s])

(* realtime-service, for the user of a WebSocket.                          *)
RealtimeCall(p, u) == Invoke(Outer(p), [rpc |-> "SendMessage", user |-> u, sender |-> u])

(* The metadata of the hop, and of the hops made for it.                   *)
RequesterID(h) == request[h].user

PropagateRequester(h) == RequesterID(h)

-----------------------------------------------------------------------------
(* The end of a handler: its client is told, if it still waits.  The       *)
(* interceptor passes the answer on as it is.                              *)
Finish(h, c) ==
    /\ stage' = [stage EXCEPT ![h] = "done"]
    /\ code' = [code EXCEPT ![h] = IF @ = "none" THEN c ELSE @]

Anonymous(h) == request[h].rpc \in NeedsRequester /\ RequesterID(h) = NoUser

Impersonates(h) == request[h].sender \notin {NoUser, RequesterID(h)}

Refuse(h) ==
    /\ stage[h] = "sent"
    /\ \/ Anonymous(h) /\ Finish(h, Missing(request[h].rpc))
       \/ ~Anonymous(h) /\ Impersonates(h) /\ Finish(h, "PermissionDenied")
    /\ UNCHANGED <<request, at, wrote>>

Serve(h) ==
    /\ stage[h] = "sent" /\ ~Anonymous(h) /\ ~Impersonates(h)
    /\ stage' = [stage EXCEPT ![h] = "serving"]
    /\ at' = [at EXCEPT ![h] = 1]
    /\ UNCHANGED <<request, wrote, code>>

(* Answered before the interceptor is called.                              *)
DecodeFails(h) ==
    /\ stage[h] = "sent"
    /\ Finish(h, "Internal")
    /\ UNCHANGED <<request, at, wrote>>

(* The generated handlers: decode, then interceptor, then implementation.  *)
Receives(h) == DecodeFails(h) \/ Refuse(h) \/ Serve(h)

ChatReceives(h) == request[h].rpc \in ChatRpcs /\ Receives(h)
UserReceives(h) == request[h].rpc \in UserRpcs /\ Receives(h)

Statement(h) == Program(request[h].rpc)[at[h]]
LastStatement(h) == at[h] = Len(Program(request[h].rpc))

Commit(h) == wrote' = wrote \cup {h}

(* JoinRoom by a member inserts nothing and succeeds.                      *)
Executes(h) ==
    /\ stage[h] = "serving"
    /\ \/ Statement(h).writes /\ Commit(h)
       \/ (Statement(h).writes => request[h].rpc = "JoinRoom") /\ UNCHANGED wrote

NextStatement(h) ==
    /\ Executes(h) /\ ~LastStatement(h)
    /\ at' = [at EXCEPT ![h] = @ + 1]
    /\ UNCHANGED <<request, stage, code>>

(* An empty list of members needs nobody's profile.                        *)
Complete(h) ==
    /\ Executes(h) /\ LastStatement(h)
    /\ Finish(h, "OK")
    /\ UNCHANGED <<request, at>>

Refused(h) ==
    /\ stage[h] = "serving"
    /\ \E e \in Statement(h).refuses : Finish(h, Code(request[h].rpc, e))
    /\ UNCHANGED <<request, at, wrote>>

(* The database fails, or its answer is lost after a statement committed.  *)
Fails(h) ==
    /\ stage[h] = "serving"
    /\ \/ Statement(h).writes /\ Commit(h)
       \/ UNCHANGED wrote
    /\ Finish(h, "Internal")
    /\ UNCHANGED <<request, at>>

(* ListRoomMembers with members: one BatchGetUsers for all of them.        *)
Enrich(h) ==
    /\ request[h].rpc = "ListRoomMembers"
    /\ Executes(h) /\ LastStatement(h)
    /\ stage' = [stage EXCEPT ![h] = "enriching"]
    /\ UNCHANGED <<request, at, code>>

BatchGetUsers(p) ==
    /\ stage[Outer(p)] = "enriching"
    /\ Invoke(Inner(p), [rpc |-> "BatchGetUsers",
                         user |-> PropagateRequester(Outer(p)), sender |-> NoUser])

(* Mutant: an error of user-service is not passed on.                      *)
EnrichedOnlyIfOK(p) ==
    /\ stage[Outer(p)] = "enriching" /\ code[Inner(p)] = "OK"
    /\ Finish(Outer(p), "OK")
    /\ UNCHANGED <<request, at, wrote>>

Enriched(p) ==
    /\ stage[Outer(p)] = "enriching" /\ code[Inner(p)] # "none"
    /\ Finish(Outer(p), IF code[Inner(p)] = "OK" THEN "OK" ELSE "Internal")
    /\ UNCHANGED <<request, at, wrote>>

(* The client stops waiting: its peer went away (Canceled), five seconds   *)
(* are over in realtime-service, whose context is not the WebSocket's      *)
(* (DeadlineExceeded), or the connection broke (Unavailable).  The server  *)
(* may go on.                                                              *)
GiveUp(h) ==
    /\ stage[h] # "idle" /\ code[h] = "none"
    /\ code' = [code EXCEPT ![h] = "Lost"]
    /\ UNCHANGED <<request, stage, at, wrote>>

-----------------------------------------------------------------------------
Outside ==
    \/ \E p \in Calls : stage[Outer(p)] = "idle" /\
        \/ \E u \in Users \cup {NoUser}, s \in Users \cup {NoUser} :
            \E rpc \in ChatRpcs \cup UserRpcs : GatewayCall(p, rpc, u, s)
        \/ \E u \in Users : RealtimeCall(p, u)
    \/ \E h \in Hops : GiveUp(h)

Served(h) ==
    \/ ChatReceives(h) \/ UserReceives(h)
    \/ NextStatement(h) \/ Complete(h) \/ Refused(h) \/ Fails(h) \/ Enrich(h)

Hop(p) == BatchGetUsers(p) \/ Enriched(p)

Next == Outside \/ (\E h \in Hops : Served(h)) \/ \E p \in Calls : Hop(p)

Spec == Init /\ [][Next]_vars

(***************************************************************************)
(* A request that was sent arrives or its client is told that the          *)
(* connection broke, grpc runs its handler in a goroutine, and what the    *)
(* handler of ListRoomMembers does before and after the call to            *)
(* user-service takes no time.  Nothing is assumed of statements, which    *)
(* have no deadline, nor of user-service, which may never answer.          *)
(***************************************************************************)
FairSpec ==
    /\ Spec
    /\ \A p \in Calls :
        /\ WF_vars(code[Outer(p)] = "none" /\ Receives(Outer(p)))
        /\ WF_vars(Hop(p))

-----------------------------------------------------------------------------
Requests ==
    [rpc : ChatRpcs \cup UserRpcs \cup {"none"},
     user : Users \cup {NoUser}, sender : Users \cup {NoUser}]

TypeOK ==
    /\ request \in [Hops -> Requests]
    /\ stage \in [Hops -> {"idle", "sent", "serving", "enriching", "done"}]
    /\ at \in [Hops -> 0..4]
    /\ wrote \subseteq Hops
    /\ code \in [Hops -> {"none", "Lost", "OK", "Internal"} \cup Refusals]

(***************************************************************************)
(* A code that says "refused" means that nothing was done, so a client may *)
(* correct its request and try again.  Only CreateRoom breaks it, for a    *)
(* creator who joined the room between its two statements: AlreadyExists,  *)
(* and the room is there (room/service.go:53-58, room/grpc.go:149-162).    *)
(***************************************************************************)
RefusalChangesNothing ==
    \A h \in Hops : code[h] \in Refusals /\ h \in wrote =>
        request[h].rpc = "CreateRoom" /\ code[h] = "AlreadyExists"

(* A statement of the call is out, or its request to user-service.         *)
Waiting(p) ==
    \/ stage[Outer(p)] = "serving"
    \/ /\ stage[Outer(p)] = "enriching"
       /\ stage[Inner(p)] # "idle" /\ code[Inner(p)] = "none"

(***************************************************************************)
(* Only the database or user-service can hold a call for ever: it is       *)
(* answered or given up, or it waits for a statement or for BatchGetUsers, *)
(* to which the code gives no deadline (userclient/client.go:63-71).       *)
(* Whatever user-service answers, and if its connection breaks, the        *)
(* handler of ListRoomMembers comes to an end (room/grpc.go:94-97).        *)
(***************************************************************************)
AnsweredInTheEnd ==
    \A p \in Calls : stage[Outer(p)] = "sent" ~> (code[Outer(p)] # "none" \/ []Waiting(p))
=============================================================================
