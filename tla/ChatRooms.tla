----------------------------- MODULE ChatRooms -----------------------------
(***************************************************************************)
(* Rooms, memberships and who may post, in chat-service: room.Service and  *)
(* its repository, the gRPC adapters, and the one place where messages ask *)
(* about rooms, EnsureMember (services/chat-service/internal/room,         *)
(* internal/message/grpc.go).                                              *)
(*                                                                         *)
(* Concurrent gRPC calls share three tables: rooms, room_members, whose    *)
(* pairs (room, user) are unique, and messages.  CreateRoom, JoinRoom,     *)
(* SendMessage, GetRoom and ListRoomMembers are each two statements        *)
(* without a transaction, with other calls in between; a call may end      *)
(* after its first statement because the second fails, its request is      *)
(* cancelled or the process dies, and the second may have been executed.   *)
(*                                                                         *)
(* Requests that are refused before they reach a statement change nothing  *)
(* and are left to RpcPath, as is SearchRooms, one SELECT of the rooms.    *)
(***************************************************************************)
EXTENDS Integers, FiniteSets

CONSTANTS
    Calls,    \* concurrent gRPC calls
    Users,    \* the requesters
    RoomIds,  \* bound: the ids of the rooms ever created
    NoUser,   \* not a user
    Asked,    \* the limits clients ask for, 0 for none
    DefaultListLimit, MaxListLimit    \* 50 and 200

ASSUME RoomsAssumption ==
    /\ NoUser \notin Users
    /\ Asked \subseteq Int
    /\ DefaultListLimit \in Nat \ {0} /\ MaxListLimit \in Nat \ {0}

VARIABLES
    createdBy,  \* rooms.created_by; NoUser for a room that does not exist
    members,    \* room_members: pairs <<room, user>>
    messages,   \* messages: the pairs <<room, sender>> of its rows
    pc,         \* the statement each call executes next
    on,         \* the pair <<room, user>> each call is about
    acked,      \* history: pairs told of success after they last left
    quit,       \* history: pairs for which LeaveRoom succeeded
    failed,     \* history: rooms whose CreateRoom ended without success
    sure,       \* history: the pairs of acked no LeaveRoom touched since the call began
    missed      \* history: pairs a reader was sure of and did not see

tables == <<createdBy, members, messages>>
history == <<acked, quit, failed, missed>>
vars == <<createdBy, members, messages, pc, on, acked, quit, failed, sure, missed>>

Pairs == RoomIds \X Users

Exists(r) == createdBy[r] # NoUser

NoPair == <<>>

Init ==
    /\ createdBy = [r \in RoomIds |-> NoUser]
    /\ members = {} /\ messages = {}
    /\ acked = {} /\ quit = {} /\ failed = {} /\ missed = {}
    /\ sure = [p \in Calls |-> {}]
    /\ pc = [p \in Calls |-> "idle"]
    /\ on = [p \in Calls |-> NoPair]

Call(p, statement, pair) ==
    /\ pc[p] = "idle"
    /\ pc' = [pc EXCEPT ![p] = statement]
    /\ on' = [on EXCEPT ![p] = pair]
    /\ sure' = [sure EXCEPT ![p] = acked]

Return(p) ==
    /\ pc' = [pc EXCEPT ![p] = "idle"]
    /\ on' = [on EXCEPT ![p] = NoPair]
    /\ sure' = [sure EXCEPT ![p] = {}]

-----------------------------------------------------------------------------
(* CreateRoom: insert the room, then its creator as a member.  The room is *)
(* visible to the other calls in between; a creator who joined meanwhile   *)
(* makes the second statement fail with ErrAlreadyMember.                          *)

CreateRoom(p, u, r) ==
    /\ ~Exists(r)
    /\ createdBy' = [createdBy EXCEPT ![r] = u]
    /\ Call(p, "add creator", <<r, u>>)
    /\ UNCHANGED <<members, messages, history>>

AddCreator(p) ==
    /\ pc[p] = "add creator" /\ on[p] \notin members
    /\ members' = members \cup {on[p]}
    /\ acked' = acked \cup {on[p]}
    /\ Return(p)
    /\ UNCHANGED <<createdBy, messages, quit, failed, missed>>

(* Mutant: the failure is compensated by removing the membership.          *)
CreatorRolledBack(p) ==
    /\ pc[p] = "add creator" /\ on[p] \in members
    /\ members' = members \ {on[p]}
    /\ Return(p)
    /\ UNCHANGED <<createdBy, messages, history>>

CreatorAlreadyMember(p) ==
    /\ pc[p] = "add creator" /\ on[p] \in members
    /\ Return(p)
    /\ UNCHANGED <<tables, history>>

(* JoinRoom: the room must exist; a member who joins again succeeds.       *)

JoinRoom(p, u, r) ==
    /\ Exists(r)
    /\ Call(p, "add member", <<r, u>>)
    /\ UNCHANGED <<tables, history>>

AddMember(p) ==
    /\ pc[p] = "add member"
    /\ members' = members \cup {on[p]}
    /\ acked' = acked \cup {on[p]}
    /\ Return(p)
    /\ UNCHANGED <<createdBy, messages, quit, failed, missed>>

(* LeaveRoom is one DELETE; leaving twice answers ErrNotMember.            *)
(* Mutant: the DELETE forgets user_id.                                     *)
LeaveForAll(u, r) ==
    /\ <<r, u>> \in members
    /\ members' = {pair \in members : pair[1] # r}
    /\ acked' = acked \ {<<r, u>>}
    /\ quit' = quit \cup {<<r, u>>}
    /\ sure' = [p \in Calls |-> sure[p] \ {<<r, u>>}]
    /\ UNCHANGED <<createdBy, messages, pc, on, failed, missed>>

LeaveRoom(u, r) ==
    /\ <<r, u>> \in members
    /\ members' = members \ {<<r, u>>}
    /\ acked' = acked \ {<<r, u>>}
    /\ quit' = quit \cup {<<r, u>>}
    /\ sure' = [p \in Calls |-> sure[p] \ {<<r, u>>}]
    /\ UNCHANGED <<createdBy, messages, pc, on, failed, missed>>

(* SendMessage: EnsureMember, then the INSERT, which asks nothing more.    *)

(* Mutant: the room must exist, membership is not asked for.               *)
EnsureRoom(p, u, r) ==
    /\ Exists(r)
    /\ Call(p, "insert message", <<r, u>>)
    /\ UNCHANGED <<tables, history>>

EnsureMember(p, u, r) ==
    /\ <<r, u>> \in members
    /\ Call(p, "insert message", <<r, u>>)
    /\ UNCHANGED <<tables, history>>

InsertMessage(p) ==
    /\ pc[p] = "insert message"
    /\ messages' = messages \cup {on[p]}
    /\ Return(p)
    /\ UNCHANGED <<createdBy, members, history>>

-----------------------------------------------------------------------------
(* GetRoom and ListRoomMembers: the room, then its members, whose number   *)
(* is what GetRoom answers.                                                *)

ReadRoom(p, u, r) ==
    /\ Exists(r)
    /\ Call(p, "read members", <<r, u>>)
    /\ UNCHANGED <<tables, history>>

MembersOf(r) == {pair \in members : pair[1] = r}

(* Mutant: one member is answered, like CreateRoom does.                   *)
ReadOneMember(p) ==
    /\ pc[p] = "read members"
    /\ missed' = missed \cup {pair \in sure[p] : pair[1] = on[p][1] /\ pair[2] # createdBy[pair[1]]}
    /\ Return(p)
    /\ UNCHANGED <<tables, acked, quit, failed>>

ReadMembers(p) ==
    /\ pc[p] = "read members"
    /\ missed' = missed \cup ({pair \in sure[p] : pair[1] = on[p][1]} \ MembersOf(on[p][1]))
    /\ Return(p)
    /\ UNCHANGED <<tables, acked, quit, failed>>

(* ListRooms is one statement and changes nothing: it answers rooms of the *)
(* requester, no more than the limit of the request lets through (which of *)
(* them, by created_at, is left open).  The cursor of the request is       *)
(* ignored and next_cursor is always empty.                                *)

EffectiveLimit(n) ==
    IF n <= 0 THEN DefaultListLimit ELSE IF n > MaxListLimit THEN MaxListLimit ELSE n

RoomsOf(u) == {pair \in members : pair[2] = u /\ Exists(pair[1])}

ListRooms(u, n) ==
    LET limit == EffectiveLimit(n) IN
    {rows \in SUBSET RoomsOf(u) :
        /\ Cardinality(rows) <= limit
        /\ rows = RoomsOf(u) \/ Cardinality(rows) = limit}

-----------------------------------------------------------------------------
(* A call ends without success: its statement failed, or was executed and  *)
(* the answer lost.                                                        *)

Executed(p) ==
    IF pc[p] = "insert message"
    THEN messages' = messages \cup {on[p]} /\ UNCHANGED members
    ELSE members' = members \cup {on[p]} /\ UNCHANGED messages

Abort(p) ==
    /\ pc[p] # "idle"
    /\ \/ UNCHANGED <<members, messages>>
       \/ pc[p] # "read members" /\ Executed(p)
    /\ failed' = IF pc[p] = "add creator" THEN failed \cup {on[p][1]} ELSE failed
    /\ Return(p)
    /\ UNCHANGED <<createdBy, acked, quit, missed>>

Next ==
    \/ \E p \in Calls, u \in Users, r \in RoomIds :
        CreateRoom(p, u, r) \/ JoinRoom(p, u, r) \/ EnsureMember(p, u, r) \/ ReadRoom(p, u, r)
    \/ \E p \in Calls :
        \/ AddCreator(p) \/ CreatorAlreadyMember(p) \/ AddMember(p)
        \/ InsertMessage(p) \/ ReadMembers(p) \/ Abort(p)
    \/ \E u \in Users, r \in RoomIds : LeaveRoom(u, r)

Spec == Init /\ [][Next]_vars

-----------------------------------------------------------------------------
TypeOK ==
    /\ createdBy \in [RoomIds -> Users \cup {NoUser}]
    /\ members \subseteq Pairs /\ messages \subseteq Pairs
    /\ acked \subseteq Pairs /\ quit \subseteq Pairs /\ missed \subseteq Pairs
    /\ failed \subseteq RoomIds
    /\ sure \in [Calls -> SUBSET Pairs]
    /\ pc \in [Calls -> {"idle", "add creator", "add member", "insert message", "read members"}]
    /\ on \in [Calls -> Pairs \cup {NoPair}]
    /\ \A p \in Calls : pc[p] # "idle" => on[p] \in Pairs

(***************************************************************************)
(* A user who was told that CreateRoom or JoinRoom succeeded is a member   *)
(* until leaving: no other call, overlapping or failing half way, takes    *)
(* the membership back, and a creator is never acknowledged before the     *)
(* second statement.                                                       *)
(***************************************************************************)
AckedAreMembers == acked \subseteq members

(***************************************************************************)
(* Whoever has a message in a room is a member of it or has been one and   *)
(* left: the check before the INSERT may be out of date, but only by a     *)
(* LeaveRoom of the sender (message/grpc.go:41-44).                        *)
(***************************************************************************)
SendersWereMembers == messages \subseteq members \cup quit

(***************************************************************************)
(* service.go:36-37: "the creator is automatically added as a member".     *)
(* Without a transaction this can fail (service.go:53-58), but only so: a  *)
(* room is without its creator while its CreateRoom is on the way, after   *)
(* one that was answered with an error or died, or once the creator left.  *)
(***************************************************************************)
CreatorLostOnlyByFailure ==
    \A r \in RoomIds \ failed :
        Exists(r) /\ (\A p \in Calls : ~(pc[p] = "add creator" /\ on[p][1] = r))
            => <<r, createdBy[r]>> \in members \cup quit

(***************************************************************************)
(* What GetRoom and ListRoomMembers answer includes everybody who was told *)
(* of a membership before the call began and has not left since, though    *)
(* room and members are read in two statements with the joins and          *)
(* departures of others in between (service.go:65-77).                     *)
(***************************************************************************)
ReadersSeeAcked == missed = {}

(* Some request of ListRooms is certain to be answered with every room the *)
(* user was told to be in.                                                 *)
AllInReach(u) ==
    \E n \in Asked : \A rows \in ListRooms(u, n) : {pair \in acked : pair[2] = u} \subseteq rows

(***************************************************************************)
(* A user who is in no more rooms than the largest limit can be shown all  *)
(* those acknowledged: the clamping of limits never shortens a list        *)
(* further (service.go:149-157, repository.go:68-82).  Of a user in more   *)
(* rooms the rest is out of reach, since the cursor is ignored.            *)
(***************************************************************************)
RoomsWithinLimitInReach ==
    \A u \in Users : Cardinality(RoomsOf(u)) <= MaxListLimit => AllInReach(u)
=============================================================================
