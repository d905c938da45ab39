------------------------- MODULE ChatServiceProofs -------------------------
(***************************************************************************)
(* Proofs about the rooms and the message history of chat-service          *)
(* (ChatRooms, MessageHistory), for any number of calls, users, rooms and  *)
(* messages.  The properties are defined and explained there.              *)
(***************************************************************************)
EXTENDS ChatRooms, MessageHistory, FiniteSetTheorems, TLAPS

-----------------------------------------------------------------------------
(* Rooms and members. *)

(* What a call found when it began stays true until it goes on: rooms are  *)
(* never deleted, and whoever was a member is one or has left.             *)
Begun(p) ==
    pc[p] # "idle" =>
        /\ Exists(on[p][1])
        /\ pc[p] = "add creator" => on[p] = <<on[p][1], createdBy[on[p][1]]>>
        /\ pc[p] = "insert message" => on[p] \in members \cup quit

IInv ==
    /\ TypeOK
    /\ \A p \in Calls : Begun(p)
    /\ \A pair \in members : Exists(pair[1])
    /\ acked \subseteq members
    /\ \A p \in Calls : sure[p] \subseteq acked
    /\ SendersWereMembers
    /\ CreatorLostOnlyByFailure
    /\ ReadersSeeAcked

(* The steps of one call.                                                  *)
Step(p) ==
    \/ AddCreator(p) \/ CreatorAlreadyMember(p) \/ AddMember(p)
    \/ InsertMessage(p) \/ ReadMembers(p) \/ Abort(p)

LEMMA Inits == Init => IInv
BY RoomsAssumption
   DEF Init, IInv, TypeOK, Begun, Pairs, NoPair, Exists, SendersWereMembers,
       CreatorLostOnlyByFailure, ReadersSeeAcked

-----------------------------------------------------------------------------
LEMMA PairParts ==
    ASSUME NEW pair \in Pairs
    PROVE  pair[1] \in RoomIds /\ pair[2] \in Users /\ pair = <<pair[1], pair[2]>>
BY DEF Pairs

(* A call begins: its history starts with what was acknowledged so far.    *)
LEMMA CallTypes ==
    ASSUME TypeOK, NEW p \in Calls, NEW pair \in Pairs,
           NEW statement \in {"add creator", "add member", "insert message", "read members"},
           Call(p, statement, pair)
    PROVE  /\ sure' \in [Calls -> SUBSET Pairs]
           /\ pc' \in [Calls -> {"idle", "add creator", "add member", "insert message", "read members"}]
           /\ on' \in [Calls -> Pairs \cup {NoPair}]
           /\ \A q \in Calls : pc'[q] # "idle" => on'[q] \in Pairs
           /\ pc'[p] = statement /\ on'[p] = pair /\ sure'[p] = acked
           /\ \A q \in Calls : q # p => pc'[q] = pc[q] /\ on'[q] = on[q] /\ sure'[q] = sure[q]
BY DEF TypeOK, Call

LEMMA ReturnTypes ==
    ASSUME TypeOK, NEW p \in Calls, Return(p)
    PROVE  /\ sure' \in [Calls -> SUBSET Pairs]
           /\ pc' \in [Calls -> {"idle", "add creator", "add member", "insert message", "read members"}]
           /\ on' \in [Calls -> Pairs \cup {NoPair}]
           /\ \A q \in Calls : pc'[q] # "idle" => on'[q] \in Pairs
           /\ pc'[p] = "idle" /\ sure'[p] = {}
           /\ \A q \in Calls : q # p => pc'[q] = pc[q] /\ on'[q] = on[q] /\ sure'[q] = sure[q]
BY DEF TypeOK, Return

(* Another call notices nothing but that rooms and members were added, and *)
(* that members became former ones.                                        *)
LEMMA OtherCalls ==
    ASSUME NEW q \in Calls, Begun(q), TypeOK,
           pc'[q] = pc[q], on'[q] = on[q],
           members \cup quit \subseteq members' \cup quit',
           \A r \in RoomIds : Exists(r) => createdBy'[r] = createdBy[r]
    PROVE  Begun(q)'
BY PairParts DEF Begun, TypeOK, Exists

LEMMA Creating ==
    ASSUME IInv, NEW p \in Calls, NEW u \in Users, NEW r \in RoomIds, CreateRoom(p, u, r)
    PROVE  IInv'
<1>1. <<r, u>> \in Pairs /\ Call(p, "add creator", <<r, u>>)
  BY DEF Pairs, CreateRoom
<1>2. /\ createdBy' \in [RoomIds -> Users \cup {NoUser}] /\ createdBy'[r] = u /\ u # NoUser
      /\ ~Exists(r) /\ \A s \in RoomIds : s # r => createdBy'[s] = createdBy[s]
      /\ UNCHANGED <<members, messages, acked, quit, failed, missed>>
  BY RoomsAssumption DEF IInv, TypeOK, CreateRoom, history
<1>3. TypeOK'
  BY <1>1, <1>2, CallTypes DEF IInv, TypeOK
<1>4. /\ pc'[p] = "add creator" /\ on'[p] = <<r, u>> /\ sure'[p] = acked
      /\ \A q \in Calls : q # p => pc'[q] = pc[q] /\ on'[q] = on[q] /\ sure'[q] = sure[q]
  BY <1>1, CallTypes DEF IInv
<1>0. on'[p] = <<on'[p][1], u>> /\ on'[p][1] = r
  <2> DEFINE pair == <<r, u>>
  <2>1. pair[1] = r /\ pair = <<pair[1], u>> /\ on'[p] = pair
    BY <1>4
  <2> HIDE DEF pair
  <2> QED
    BY <2>1
<1>5. ASSUME NEW q \in Calls PROVE Begun(q)'
  <2>1. CASE q = p
    BY <1>0, <1>2, <1>4, <2>1 DEF Begun, Exists
  <2>2. CASE q # p
    BY <1>2, <1>4, <2>2, OtherCalls DEF IInv, Exists
  <2> QED
    BY <2>1, <2>2
<1>6. \A pair \in members' : Exists(pair[1])'
  BY <1>2, PairParts DEF IInv, TypeOK, Exists
<1>7. CreatorLostOnlyByFailure'
  <2> SUFFICES ASSUME NEW s \in RoomIds \ failed', Exists(s)',
                      \A q \in Calls : ~(pc'[q] = "add creator" /\ on'[q][1] = s)
               PROVE  <<s, createdBy'[s]>> \in members' \cup quit'
    BY DEF CreatorLostOnlyByFailure
  <2>1. s # r
    BY <1>0, <1>4
  <2>2. ASSUME NEW q \in Calls PROVE ~(pc[q] = "add creator" /\ on[q][1] = s)
    <3>1. pc[p] = "idle"
      BY <1>1 DEF Call
    <3> QED
      BY <1>4, <3>1
  <2> QED
    BY <1>2, <2>1, <2>2 DEF IInv, CreatorLostOnlyByFailure, Exists
<1> QED
  BY <1>2, <1>3, <1>4, <1>5, <1>6, <1>7 DEF IInv, SendersWereMembers, ReadersSeeAcked

(* The first statements of the other operations only read.                 *)
LEMMA Asking ==
    ASSUME IInv, NEW p \in Calls, NEW pair \in Pairs,
           NEW statement \in {"add member", "insert message", "read members"},
           Call(p, statement, pair), Exists(pair[1]),
           statement = "insert message" => pair \in members,
           UNCHANGED <<tables, history>>
    PROVE  IInv'
<1>1. UNCHANGED <<createdBy, members, messages, acked, quit, failed, missed>>
  BY DEF tables, history
<1>0. statement \in {"add creator", "add member", "insert message", "read members"}
  OBVIOUS
<1>2. /\ pc'[p] = statement /\ on'[p] = pair /\ sure'[p] = acked
      /\ \A q \in Calls : q # p => pc'[q] = pc[q] /\ on'[q] = on[q] /\ sure'[q] = sure[q]
  <2>1. TypeOK
    BY DEF IInv
  <2> QED
    BY <1>0, <2>1, CallTypes
<1>3. TypeOK'
  BY <1>0, <1>1, CallTypes DEF IInv, TypeOK
<1>4. ASSUME NEW q \in Calls PROVE Begun(q)'
  <2>1. CASE q = p
    BY <1>1, <1>2, <2>1 DEF Begun, Exists
  <2>2. CASE q # p
    BY <1>1, <1>2, <2>2, OtherCalls DEF IInv
  <2> QED
    BY <2>1, <2>2
<1>5. CreatorLostOnlyByFailure'
  <2> SUFFICES ASSUME NEW s \in RoomIds \ failed', Exists(s)',
                      \A q \in Calls : ~(pc'[q] = "add creator" /\ on'[q][1] = s)
               PROVE  <<s, createdBy'[s]>> \in members' \cup quit'
    BY DEF CreatorLostOnlyByFailure
  <2>1. ASSUME NEW q \in Calls PROVE ~(pc[q] = "add creator" /\ on[q][1] = s)
    <3>1. pc[p] = "idle"
      BY DEF Call
    <3> QED
      BY <1>2, <3>1
  <2> QED
    BY <1>1, <2>1 DEF IInv, CreatorLostOnlyByFailure, Exists
<1> QED
  BY <1>1, <1>2, <1>3, <1>4, <1>5 DEF IInv, Exists, SendersWereMembers, ReadersSeeAcked

LEMMA Leaving ==
    ASSUME IInv, NEW u \in Users, NEW r \in RoomIds, LeaveRoom(u, r)
    PROVE  IInv'
<1> DEFINE gone == <<r, u>>
<1>1. /\ gone \in Pairs /\ members' = members \ {gone} /\ acked' = acked \ {gone}
      /\ quit' = quit \cup {gone} /\ sure' = [p \in Calls |-> sure[p] \ {gone}]
      /\ UNCHANGED <<createdBy, messages, pc, on, failed, missed>>
  BY DEF LeaveRoom, Pairs
<1> HIDE DEF gone
<1>2. TypeOK'
  BY <1>1 DEF IInv, TypeOK
<1>3. \A q \in Calls : Begun(q)'
  BY <1>1, OtherCalls DEF IInv
<1>4. \A p \in Calls : sure'[p] \subseteq acked'
  BY <1>1 DEF IInv
<1>5. CreatorLostOnlyByFailure'
  BY <1>1 DEF IInv, CreatorLostOnlyByFailure, Exists
<1>6. SendersWereMembers'
  BY <1>1 DEF IInv, SendersWereMembers
<1> QED
  BY <1>1, <1>2, <1>3, <1>4, <1>5, <1>6 DEF IInv, Exists, ReadersSeeAcked

-----------------------------------------------------------------------------
(* The second statement: it may add the call's pair to the members, or a   *)
(* row to the messages, and the call is over.                              *)
LEMMA Returning ==
    ASSUME IInv, NEW p \in Calls, pc[p] # "idle", Return(p),
           UNCHANGED <<createdBy, quit>>,
           members' = members \/ (members' = members \cup {on[p]}),
           messages' = messages \/ (pc[p] = "insert message" /\ messages' = messages \cup {on[p]}),
           acked' = acked \/ (acked' = acked \cup {on[p]} /\ on[p] \in members'),
           failed \subseteq failed', failed' \subseteq failed \cup {on[p][1]},
           missed' = {},
           pc[p] = "add creator" => on[p] \in members' \/ on[p][1] \in failed'
    PROVE  IInv'
<1>1. /\ on[p] \in Pairs /\ on[p][1] \in RoomIds /\ Exists(on[p][1])
      /\ pc[p] = "add creator" => on[p] = <<on[p][1], createdBy[on[p][1]]>>
      /\ pc[p] = "insert message" => on[p] \in members \cup quit
  <2>1. on[p] \in Pairs
    BY DEF IInv, TypeOK
  <2> QED
    BY <2>1, PairParts DEF IInv, Begun
<1>2. /\ pc'[p] = "idle" /\ sure'[p] = {}
      /\ \A q \in Calls : q # p => pc'[q] = pc[q] /\ on'[q] = on[q] /\ sure'[q] = sure[q]
  BY ReturnTypes DEF IInv
<1>3. TypeOK'
  BY <1>1, ReturnTypes DEF IInv, TypeOK
<1>4. ASSUME NEW q \in Calls PROVE Begun(q)'
  <2>1. CASE q = p
    BY <1>2, <2>1 DEF Begun
  <2>2. CASE q # p
    BY <1>2, <2>2, OtherCalls DEF IInv
  <2> QED
    BY <2>1, <2>2
<1>5. \A pair \in members' : Exists(pair[1])'
  BY <1>1 DEF IInv, Exists
<1>6. acked' \subseteq members'
  BY DEF IInv
<1>7. \A q \in Calls : sure'[q] \subseteq acked'
  BY <1>2 DEF IInv
<1>8. SendersWereMembers'
  BY <1>1 DEF IInv, SendersWereMembers
<1>9. CreatorLostOnlyByFailure'
  <2> SUFFICES ASSUME NEW s \in RoomIds \ failed', Exists(s)',
                      \A q \in Calls : ~(pc'[q] = "add creator" /\ on'[q][1] = s)
               PROVE  <<s, createdBy'[s]>> \in members' \cup quit'
    BY DEF CreatorLostOnlyByFailure
  <2>1. s \in RoomIds \ failed /\ Exists(s)
    BY DEF Exists
  <2>2. CASE pc[p] = "add creator" /\ on[p][1] = s
    BY <1>1, <2>2
  <2>3. CASE ~(pc[p] = "add creator" /\ on[p][1] = s)
    <3>1. ASSUME NEW q \in Calls PROVE ~(pc[q] = "add creator" /\ on[q][1] = s)
      BY <1>2, <2>3
    <3>2. <<s, createdBy[s]>> \in members \cup quit
      BY <2>1, <3>1 DEF IInv, CreatorLostOnlyByFailure
    <3> QED
      BY <3>2
  <2> QED
    BY <2>2, <2>3
<1> QED
  BY <1>3, <1>4, <1>5, <1>6, <1>7, <1>8, <1>9 DEF IInv, ReadersSeeAcked

LEMMA Stepping == ASSUME IInv, NEW p \in Calls, Step(p) PROVE IInv'
<1>0. missed = {}
  BY DEF IInv, ReadersSeeAcked
<1>1. CASE AddCreator(p)
  BY <1>0, <1>1, Returning DEF AddCreator
<1>2. CASE CreatorAlreadyMember(p)
  BY <1>0, <1>2, Returning DEF CreatorAlreadyMember, tables, history
<1>3. CASE AddMember(p)
  BY <1>0, <1>3, Returning DEF AddMember
<1>4. CASE InsertMessage(p)
  BY <1>0, <1>4, Returning DEF InsertMessage, history
<1>5. CASE ReadMembers(p)
  <2>1. {pair \in sure[p] : pair[1] = on[p][1]} \subseteq MembersOf(on[p][1])
    BY DEF IInv, MembersOf
  <2>2. missed' = {}
    BY <1>0, <1>5, <2>1 DEF ReadMembers
  <2> QED
    BY <1>5, <2>2, Returning DEF ReadMembers, tables
<1>6. CASE Abort(p)
  <2>1. /\ pc[p] # "idle" /\ Return(p) /\ UNCHANGED <<createdBy, acked, quit, missed>>
        /\ failed' = IF pc[p] = "add creator" THEN failed \cup {on[p][1]} ELSE failed
    BY <1>6 DEF Abort
  <2>2. /\ members' = members \/ members' = members \cup {on[p]}
        /\ messages' = messages \/ (pc[p] = "insert message" /\ messages' = messages \cup {on[p]})
    BY <1>6 DEF Abort, Executed
  <2> QED
    BY <1>0, <2>1, <2>2, Returning
<1> QED
  BY <1>1, <1>2, <1>3, <1>4, <1>5, <1>6 DEF Step

LEMMA NextStep == IInv /\ [Next]_vars => IInv'
<1> SUFFICES ASSUME IInv, [Next]_vars PROVE IInv'
  OBVIOUS
<1>1. CASE UNCHANGED vars
  BY <1>1 DEF vars, IInv, TypeOK, Begun, Exists, SendersWereMembers,
     CreatorLostOnlyByFailure, ReadersSeeAcked
<1>2. ASSUME NEW p \in Calls, NEW u \in Users, NEW r \in RoomIds,
             JoinRoom(p, u, r) \/ EnsureMember(p, u, r) \/ ReadRoom(p, u, r)
      PROVE  IInv'
  <2> DEFINE pair == <<r, u>>
  <2>1. pair \in Pairs /\ pair[1] = r
    BY DEF Pairs
  <2>2. PICK statement \in {"add member", "insert message", "read members"} :
            /\ Call(p, statement, pair)
            /\ IF statement = "insert message" THEN pair \in members ELSE Exists(r)
    BY <1>2 DEF JoinRoom, EnsureMember, ReadRoom
  <2>3. UNCHANGED <<tables, history>>
    BY <1>2 DEF JoinRoom, EnsureMember, ReadRoom
  <2> HIDE DEF pair
  <2>4. Exists(pair[1])
    BY <2>1, <2>2 DEF IInv
  <2> QED
    BY <2>1, <2>2, <2>3, <2>4, Asking
<1>3. ASSUME NEW p \in Calls, Step(p) PROVE IInv'
  BY <1>3, Stepping
<1> QED
  BY <1>1, <1>2, <1>3, Creating, Leaving DEF Next, Step

-----------------------------------------------------------------------------
LEMMA Invariance == Spec => []IInv
BY Inits, NextStep, PTL DEF Spec

(* The tables and the calls keep their types.                              *)
THEOREM TypeCorrect == Spec => []TypeOK
<1>1. IInv => TypeOK
  BY DEF IInv
<1> QED
  BY <1>1, Invariance, PTL

(* Whoever was told of a membership is a member until leaving              *)
(* (room/service.go:36-62, 93-125).                                        *)
THEOREM AcknowledgedAreMembers == Spec => []AckedAreMembers
<1>1. IInv => AckedAreMembers
  BY DEF IInv, AckedAreMembers
<1> QED
  BY <1>1, Invariance, PTL

(* Whoever has a message in a room has been a member of it                 *)
(* (message/grpc.go:41-44).                                                *)
THEOREM OnlyMembersSend == Spec => []SendersWereMembers
<1>1. IInv => SendersWereMembers
  BY DEF IInv
<1> QED
  BY <1>1, Invariance, PTL

(* A room lacks its creator only after a CreateRoom that failed, while it  *)
(* runs, or once the creator has left (room/service.go:36-58).             *)
THEOREM CreatorIsLostOnlyByFailure == Spec => []CreatorLostOnlyByFailure
<1>1. IInv => CreatorLostOnlyByFailure
  BY DEF IInv
<1> QED
  BY <1>1, Invariance, PTL

(* Two statements of a reader show every acknowledged member who did not   *)
(* leave meanwhile (room/service.go:65-77).                                *)
THEOREM AcknowledgedAreSeen == Spec => []ReadersSeeAcked
<1>1. IInv => ReadersSeeAcked
  BY DEF IInv
<1> QED
  BY <1>1, Invariance, PTL

(* Each step changes at most one membership, so there are finitely many.   *)
MembersFinite == IsFiniteSet(members)

LEMMA FinitelyManyMembers == Spec => []MembersFinite
<1> USE DEF MembersFinite
<1>1. Init => MembersFinite
  BY FS_EmptySet DEF Init
<1>2. MembersFinite /\ [Next]_vars => MembersFinite'
  <2> SUFFICES ASSUME IsFiniteSet(members), [Next]_vars PROVE IsFiniteSet(members')
    OBVIOUS
  <2>1. ASSUME members' = members PROVE IsFiniteSet(members')
    BY <2>1
  <2>2. ASSUME NEW pair, members' = members \cup {pair} PROVE IsFiniteSet(members')
    BY <2>2, FS_AddElement
  <2>3. ASSUME NEW u \in Users, NEW r \in RoomIds, LeaveRoom(u, r) PROVE IsFiniteSet(members')
    BY <2>3, FS_RemoveElement DEF LeaveRoom
  <2>4. ASSUME NEW p \in Calls, Step(p)
        PROVE  members' = members \/ members' = members \cup {on[p]}
    BY <2>4 DEF Step, AddCreator, CreatorAlreadyMember, AddMember, InsertMessage,
       ReadMembers, Abort, Executed, tables
  <2>5. ASSUME NEW p \in Calls, NEW u \in Users, NEW r \in RoomIds,
               CreateRoom(p, u, r) \/ JoinRoom(p, u, r) \/ EnsureMember(p, u, r)
                 \/ ReadRoom(p, u, r)
        PROVE  members' = members
    BY <2>5 DEF CreateRoom, JoinRoom, EnsureMember, ReadRoom, tables
  <2>6. CASE UNCHANGED vars
    BY <2>1, <2>6 DEF vars
  <2> QED
    BY <2>1, <2>2, <2>3, <2>4, <2>5, <2>6 DEF Next, Step
<1> QED
  BY <1>1, <1>2, PTL DEF Spec

(* If clients may ask for as many rooms as the limit lets through, whoever *)
(* is in no more can be shown all rooms acknowledged, for any limits       *)
(* (room/service.go:149-157, room/repository.go:68-82).                    *)
THEOREM ClampedListsAreWhole ==
    ASSUME \E n \in Asked : n >= MaxListLimit
    PROVE  Spec => []RoomsWithinLimitInReach
<1>1. PICK n \in Asked : n >= MaxListLimit
  OBVIOUS
<1>2. EffectiveLimit(n) = MaxListLimit
  BY <1>1, RoomsAssumption DEF EffectiveLimit
<1>3. IInv /\ MembersFinite => RoomsWithinLimitInReach
  <2> SUFFICES ASSUME IInv, IsFiniteSet(members), NEW u \in Users,
                      Cardinality(RoomsOf(u)) <= MaxListLimit,
                      NEW rows \in ListRooms(u, n)
               PROVE  {pair \in acked : pair[2] = u} \subseteq rows
    BY <1>1 DEF RoomsWithinLimitInReach, AllInReach, MembersFinite
  <2>1. IsFiniteSet(RoomsOf(u))
    BY FS_Subset DEF RoomsOf
  <2>2. /\ rows \in SUBSET RoomsOf(u)
        /\ rows = RoomsOf(u) \/ Cardinality(rows) = MaxListLimit
    BY <1>2 DEF ListRooms
  <2>3. /\ Cardinality(rows) <= Cardinality(RoomsOf(u))
        /\ Cardinality(RoomsOf(u)) = Cardinality(rows) => RoomsOf(u) = rows
    BY <2>1, <2>2, FS_Subset
  <2>4. rows = RoomsOf(u)
    BY <2>1, <2>2, <2>3, RoomsAssumption, FS_CardinalityType
  <2>5. {pair \in acked : pair[2] = u} \subseteq RoomsOf(u)
    BY DEF IInv, RoomsOf
  <2> QED
    BY <2>4, <2>5
<1> QED
  BY <1>3, Invariance, FinitelyManyMembers, PTL

-----------------------------------------------------------------------------
(* The history of a room. *)

(* The keys of rows. *)
Rows == [at : Nat, id : Ids]

(* How many rows of S an ORDER BY puts before m, and the rows it puts      *)
(* among the first n: ListByRoom in terms of any set of rows.              *)
Above(S, m) == {k \in S : Older(m, k)}

Newest(S, n) == {m \in S : Cardinality(Above(S, m)) < n}

HistoryTypeOK ==
    /\ stored \subseteq Rows /\ IsFiniteSet(stored)
    /\ memory \subseteq Rows /\ IsFiniteSet(memory)
    /\ stored = {Row(m) : m \in memory}
    /\ sending \in [Senders -> Rows \cup {None}]
    /\ cursor \in Rows \cup {Start, End}
    /\ shown \subseteq stored /\ present \subseteq stored
    /\ count \in Nat /\ now \in Nat

(* Where a walk stands: its cursor is the oldest row shown, and whatever   *)
(* was stored at its begin and is not shown yet lies behind the cursor.    *)
Walk ==
    /\ cursor = Start => shown = {}
    /\ cursor \in Rows =>
         /\ cursor \in shown
         /\ \A m \in shown : m = cursor \/ Older(cursor, m)
         /\ \A m \in present : m \in shown \/ Older(m, cursor)
    /\ cursor = End => present \subseteq shown

HistoryInv == HistoryTypeOK /\ Walk

(* (created_at, id) is a strict total order of the rows: ids differ or     *)
(* stamps do.                                                              *)
LEMMA RowsAreOrdered ==
    \A m, n, k \in Rows :
        /\ ~Older(m, m)
        /\ Older(m, n) /\ Older(n, k) => Older(m, k)
        /\ m = n \/ Older(m, n) \/ Older(n, m)
<1>1. ASSUME NEW m \in Rows, NEW n \in Rows, m.at = n.at, m.id = n.id PROVE m = n
  BY <1>1 DEF Rows
<1>2. \A m \in Rows : m.at \in Nat /\ m.id \in Nat
  BY HistoryAssumption DEF Rows
<1> QED
  BY <1>1, <1>2 DEF Older

(* Cutting a stamp to microseconds keeps or forgets an order, but never    *)
(* turns it round.                                                         *)
LEMMA CutStamps ==
    \A m, n \in Rows : Row(m) \in Rows /\ (m.at <= n.at => Row(m).at <= Row(n).at)
<1>1. ASSUME NEW a \in Nat, NEW k \in Nat \ {0}
      PROVE  a \div k \in Nat /\ k * (a \div k) <= a /\ a < k * (a \div k) + k
  BY <1>1
<1>2. ASSUME NEW a \in Nat, NEW b \in Nat, NEW k \in Nat \ {0}, a <= b
      PROVE  a \div k <= b \div k
  <2> DEFINE p == a \div k
             q == b \div k
  <2>1. /\ p \in Nat /\ k * p <= a
        /\ q \in Nat /\ b < k * q + k
    BY <1>1
  <2> HIDE DEF p, q
  <2>2. ASSUME q + 1 <= p PROVE FALSE
    <3>1. k * (q + 1) <= k * p
      BY <2>1, <2>2
    <3>2. k * (q + 1) = k * q + k
      BY <2>1
    <3> QED
      BY <1>2, <2>1, <3>1, <3>2
  <2>3. p <= q
    BY <2>1, <2>2
  <2> QED
    BY <2>3 DEF p, q
<1> QED
  BY <1>1, <1>2, HistoryAssumption DEF Rows, Row

(* The older a row, the more rows are above it.                            *)
LEMMA AboveShrinks ==
    ASSUME NEW S \in SUBSET Rows, NEW m \in S, NEW k \in Above(S, m)
    PROVE  Above(S, k) \subseteq Above(S, m) /\ k \notin Above(S, k)
BY RowsAreOrdered DEF Above

(* A finite set of rows that is not empty has an oldest row.               *)
LEMMA OldestExists ==
    ASSUME NEW S \in SUBSET Rows, IsFiniteSet(S), S # {}
    PROVE  \E o \in S : \A k \in S \ {o} : Older(o, k)
<1> DEFINE Below(m) == {k \in S : Older(k, m)}
           T == {Below(m) : m \in S}
           R == StrictSubsetOrdering(S)
<1>1. T \subseteq FiniteSubsetsOf(S)
  BY FS_Subset DEF FiniteSubsetsOf
<1>2. PICK x \in T : \A y \in T : ~ (<<y, x>> \in R)
  <2>1. IsWellFoundedOn(R, FiniteSubsetsOf(S))
    BY FS_StrictSubsetOrderingWellFounded
  <2>2. T # {}
    OBVIOUS
  <2> HIDE DEF T, R
  <2> QED
    BY <2>1, <2>2, <1>1, WFMin
<1>3. PICK o \in S : x = Below(o)
  OBVIOUS
<1>4. ASSUME NEW k \in Below(o) PROVE FALSE
  <2>1. Below(k) \subseteq Below(o) /\ k \notin Below(k)
    BY <1>4, RowsAreOrdered
  <2>2. Below(k) \in T
    OBVIOUS
  <2>3. <<Below(k), Below(o)>> \in R
    BY <1>4, <2>1 DEF StrictSubsetOrdering
  <2> QED
    BY <1>2, <1>3, <2>2, <2>3
<1> QED
  BY <1>4, RowsAreOrdered

(* Of the rows of S outside P, one has only rows of P above it.            *)
LEMMA FirstOutside ==
    ASSUME NEW S \in SUBSET Rows, IsFiniteSet(S), NEW P, ~ (S \subseteq P)
    PROVE  \E m \in S \ P : Above(S, m) \subseteq P
<1> DEFINE T == {Above(S, m) : m \in S \ P}
           R == StrictSubsetOrdering(S)
<1>1. T \subseteq FiniteSubsetsOf(S)
  BY FS_Subset DEF FiniteSubsetsOf, Above
<1>2. PICK x \in T : \A y \in T : ~ (<<y, x>> \in R)
  <2>1. IsWellFoundedOn(R, FiniteSubsetsOf(S))
    BY FS_StrictSubsetOrderingWellFounded
  <2>2. T # {}
    OBVIOUS
  <2> HIDE DEF T, R
  <2> QED
    BY <2>1, <2>2, <1>1, WFMin
<1>3. PICK m \in S \ P : x = Above(S, m)
  OBVIOUS
<1>4. ASSUME NEW k \in Above(S, m), k \notin P PROVE FALSE
  <2>1. k \in S \ P
    BY <1>4 DEF Above
  <2>2. Above(S, k) \subseteq Above(S, m) /\ k \notin Above(S, k)
    BY <1>4, AboveShrinks
  <2>3. Above(S, k) \in SUBSET S /\ Above(S, m) \in SUBSET S
    BY DEF Above
  <2>4. <<Above(S, k), Above(S, m)>> \in R
    BY <1>4, <2>2, <2>3 DEF StrictSubsetOrdering
  <2>5. Above(S, k) \in T
    BY <2>1
  <2> QED
    BY <1>2, <1>3, <2>4, <2>5
<1> QED
  BY <1>3, <1>4

LEMMA AboveIsFinite ==
    ASSUME NEW S \in SUBSET Rows, IsFiniteSet(S), NEW m
    PROVE  IsFiniteSet(Above(S, m)) /\ Cardinality(Above(S, m)) \in Nat
BY FS_Subset, FS_CardinalityType DEF Above

(* What is newer than a row among the newest n is among them too.          *)
LEMMA NewestIsAPrefix ==
    ASSUME NEW S \in SUBSET Rows, IsFiniteSet(S), NEW n \in Nat,
           NEW m \in Newest(S, n), NEW k \in Above(S, m)
    PROVE  k \in Newest(S, n)
<1>1. m \in S /\ k \in S
  BY DEF Newest, Above
<1>2. Above(S, k) \subseteq Above(S, m)
  BY <1>1, AboveShrinks
<1>3. Cardinality(Above(S, k)) <= Cardinality(Above(S, m))
  BY <1>2, AboveIsFinite, FS_Subset
<1>4. Cardinality(Above(S, m)) < n
  BY DEF Newest
<1> QED
  BY <1>1, <1>3, <1>4, AboveIsFinite DEF Newest

(* If n + 1 rows are asked for and no more than n come, the first n rows   *)
(* are all there are.                                                      *)
LEMMA ShortPageIsLast ==
    ASSUME NEW S \in SUBSET Rows, IsFiniteSet(S), NEW n \in Nat,
           Cardinality(Newest(S, n + 1)) <= n
    PROVE  S \subseteq Newest(S, n)
<1> SUFFICES ASSUME ~ (S \subseteq Newest(S, n)) PROVE FALSE
  OBVIOUS
<1>1. PICK m \in S \ Newest(S, n) : Above(S, m) \subseteq Newest(S, n)
  BY FirstOutside
<1> DEFINE A == Above(S, m)
<1>2. IsFiniteSet(A) /\ Cardinality(A) \in Nat /\ A \subseteq S /\ m \notin A
  <2>1. A \subseteq S /\ m \notin A
    BY RowsAreOrdered DEF Above
  <2> QED
    BY <2>1, AboveIsFinite
<1>3. Cardinality(A) <= n
  <2>1. CASE A = {}
    BY <2>1, FS_EmptySet
  <2>2. CASE A # {}
    <3>1. PICK o \in A : \A k \in A \ {o} : Older(o, k)
      BY <1>2, <2>2, OldestExists
    <3>2. Above(S, o) = A \ {o}
      <4>1. Above(S, o) \subseteq A /\ o \notin Above(S, o)
        BY AboveShrinks
      <4>2. A \ {o} \subseteq Above(S, o)
        BY <1>2, <3>1 DEF Above
      <4> QED
        BY <4>1, <4>2
    <3>3. Cardinality(A \ {o}) = Cardinality(A) - 1
      BY <1>2, FS_RemoveElement
    <3>4. Cardinality(Above(S, o)) < n
      BY <1>1 DEF Newest
    <3> QED
      BY <1>2, <3>2, <3>3, <3>4
  <2> QED
    BY <2>1, <2>2
<1>4. Cardinality(A) = n
  BY <1>1, <1>2, <1>3 DEF Newest
<1>5. A \cup {m} \subseteq Newest(S, n + 1)
  <2>1. m \in Newest(S, n + 1)
    BY <1>4 DEF Newest
  <2> QED
    BY <2>1, NewestIsAPrefix
<1>6. Cardinality(A \cup {m}) = n + 1
  BY <1>2, <1>4, FS_AddElement
<1>7. IsFiniteSet(Newest(S, n + 1))
  BY FS_Subset DEF Newest
<1>8. Cardinality(A \cup {m}) <= Cardinality(Newest(S, n + 1))
  BY <1>5, <1>7, FS_Subset
<1>9. Cardinality(Newest(S, n + 1)) \in Nat
  BY <1>7, FS_CardinalityType
<1> QED
  BY <1>6, <1>8, <1>9

(* A page of a set that is not empty is not empty.                         *)
LEMMA FirstRowIsShown ==
    ASSUME NEW S \in SUBSET Rows, IsFiniteSet(S), NEW n \in Nat \ {0}, S # {}
    PROVE  Newest(S, n) # {}
<1>1. PICK P : P = {}
  OBVIOUS
<1>2. PICK m \in S \ P : Above(S, m) \subseteq P
  BY <1>1, FirstOutside
<1>3. Above(S, m) = {}
  BY <1>1, <1>2
<1> QED
  BY <1>3, FS_EmptySet DEF Newest

-----------------------------------------------------------------------------
LEMMA StartAndEnd == Start \notin Rows /\ End \notin Rows /\ Start # End
<1>1. \A r \in Rows : DOMAIN r = {"at", "id"}
  BY DEF Rows
<1>2. DOMAIN Start = {"is"} /\ DOMAIN End = {"is"}
  BY DEF Start, End
<1>3. Start.is = "start" /\ End.is = "end"
  BY DEF Start, End
<1> QED
  BY <1>1, <1>2, <1>3

LEMMA HistoryTypes == HistoryTypeOK /\ [HistoryNext]_historyVars => HistoryTypeOK'
<1> SUFFICES ASSUME HistoryTypeOK, [HistoryNext]_historyVars PROVE HistoryTypeOK'
  OBVIOUS
<1> USE DEF HistoryTypeOK
<1>1. ASSUME NEW s \in Senders, Stamp(s) PROVE HistoryTypeOK'
  <2>1. \A i \in Ids : [at |-> now, id |-> i] \in Rows
    BY DEF Rows
  <2> QED
    BY <1>1, <2>1 DEF Stamp
<1>2. ASSUME NEW s \in Senders, Insert(s) PROVE HistoryTypeOK'
  <2>1. sending[s] \in Rows /\ Row(sending[s]) \in Rows
    BY <1>2, CutStamps DEF Insert
  <2>2. IsFiniteSet(stored') /\ IsFiniteSet(memory')
    BY <1>2, FS_AddElement DEF Insert
  <2>3. stored' = {Row(m) : m \in memory'}
    BY <1>2 DEF Insert
  <2> QED
    BY <1>2, <2>1, <2>2, <2>3 DEF Insert
<1>3. ASSUME NEW s \in Senders, Fail(s) PROVE HistoryTypeOK'
  BY <1>3 DEF Fail
<1>4. ASSUME NEW limit \in Limits, GetMessages(limit) PROVE HistoryTypeOK'
  <2> DEFINE C == Candidates(cursor)
             P == Page(limit, cursor)
  <2>1. C \subseteq stored /\ P \subseteq C
    BY DEF Candidates, Page, ListByRoom
  <2>2. IsFiniteSet(P) /\ Cardinality(P) \in Nat
    BY <2>1, FS_Subset, FS_CardinalityType
  <2>3. NextCursor(limit, cursor) \in Rows \cup {End}
    <3>1. CASE Cardinality(ListByRoom(limit + 1, cursor)) > limit
      <4>1. C \in SUBSET Rows /\ IsFiniteSet(C)
        BY <2>1, FS_Subset
      <4>2. limit \in Nat \ {0}
        BY HistoryAssumption
      <4>3. C # {}
        <5>1. C = {} => ListByRoom(limit + 1, cursor) = {}
          BY DEF ListByRoom
        <5>2. Cardinality({}) = 0
          BY FS_EmptySet
        <5>3. ListByRoom(limit + 1, cursor) # {}
          <6> HIDE DEF HistoryTypeOK
          <6> QED
            BY <3>1, <4>2, <5>2
        <5> QED
          BY <5>1, <5>3
      <4>4. P # {}
        BY <4>1, <4>2, <4>3, FirstRowIsShown DEF Page, ListByRoom, Newest, Above
      <4>5. Oldest(P) \in P
        BY <4>1, <4>4, <2>1, <2>2, OldestExists DEF Oldest
      <4> QED
        BY <3>1, <4>1, <4>5, <2>1 DEF NextCursor
    <3>2. CASE ~ (Cardinality(ListByRoom(limit + 1, cursor)) > limit)
      BY <3>2 DEF NextCursor
    <3> QED
      BY <3>1, <3>2
  <2> QED
    BY <1>4, <2>1, <2>2, <2>3 DEF GetMessages
<1>5. CASE BeginWalk
  BY <1>5 DEF BeginWalk
<1>6. CASE Tick
  BY <1>6 DEF Tick
<1>7. CASE UNCHANGED historyVars
  BY <1>7 DEF historyVars
<1> QED
  BY <1>1, <1>2, <1>3, <1>4, <1>5, <1>6, <1>7 DEF HistoryNext

(* Whatever a request may be answered with is older than all shown before. *)
LEMMA CandidatesAreOlder ==
    ASSUME HistoryInv, cursor # End
    PROVE  \A m \in Candidates(cursor), k \in shown : Older(m, k)
<1> USE DEF HistoryInv, Walk
<1>1. cursor \in Rows \/ cursor = Start
  BY DEF HistoryTypeOK
<1>2. CASE cursor = Start
  BY <1>2
<1>3. CASE cursor \in Rows
  <2>1. \A m \in Candidates(cursor) : m \in Rows /\ Older(m, cursor)
    BY <1>3, StartAndEnd DEF Candidates, HistoryTypeOK
  <2>2. \A k \in shown : k \in Rows /\ (k = cursor \/ Older(cursor, k))
    BY <1>3 DEF HistoryTypeOK
  <2> QED
    BY <1>3, <2>1, <2>2, RowsAreOrdered
<1> QED
  BY <1>1, <1>2, <1>3

LEMMA HistoryWalk == HistoryInv /\ [HistoryNext]_historyVars => Walk'
<1> SUFFICES ASSUME HistoryTypeOK, Walk, [HistoryNext]_historyVars PROVE Walk'
  BY DEF HistoryInv
<1> USE DEF Walk
<1>1. ASSUME NEW s \in Senders, Stamp(s) \/ Insert(s) \/ Fail(s) PROVE Walk'
  BY <1>1 DEF Stamp, Insert, Fail
<1>2. ASSUME NEW limit \in Limits, GetMessages(limit) PROVE Walk'
  <2> DEFINE C == Candidates(cursor)
             P == Page(limit, cursor)
  <2>1. C \in SUBSET Rows /\ IsFiniteSet(C) /\ C \subseteq stored
    BY FS_Subset DEF Candidates, HistoryTypeOK
  <2>2. limit \in Nat \ {0}
    BY HistoryAssumption
  <2>3. P = Newest(C, limit) /\ P \subseteq C
    BY DEF Page, ListByRoom, Newest, Above
  <2>4. ListByRoom(limit + 1, cursor) = Newest(C, limit + 1)
    BY DEF ListByRoom, Newest, Above
  <2>5. cursor \in Rows \/ cursor = Start
    BY <1>2 DEF GetMessages, HistoryTypeOK
  <2>6. \A m \in present : m \in shown \/ m \in C
    BY <2>5, StartAndEnd DEF Candidates, HistoryTypeOK
  <2>7. \A m \in C, k \in shown : Older(m, k)
    BY <1>2, CandidatesAreOlder DEF HistoryInv, GetMessages
  <2>8. CASE Cardinality(ListByRoom(limit + 1, cursor)) > limit
    <3>1. C # {}
      BY <2>2, <2>8, FS_EmptySet DEF ListByRoom
    <3>2. P # {} /\ IsFiniteSet(P) /\ P \in SUBSET Rows
      BY <2>1, <2>2, <2>3, <3>1, FirstRowIsShown, FS_Subset
    <3> DEFINE o == Oldest(P)
    <3>3. o \in P /\ \A k \in P \ {o} : Older(o, k)
      BY <3>2, OldestExists DEF Oldest
    <3>4. cursor' = o /\ shown' = shown \cup P /\ present' = present
      BY <1>2, <2>8 DEF GetMessages, NextCursor
    <3>5. o \in C /\ o \in Rows
      BY <2>1, <2>3, <3>3
    <3>6. ASSUME NEW m \in C \ P PROVE Older(m, o)
      <4>1. m # o /\ ~ Older(o, m)
        BY <2>1, <2>2, <2>3, <3>3, <3>6, NewestIsAPrefix DEF Above
      <4> QED
        BY <2>1, <3>5, <3>6, <4>1, RowsAreOrdered
    <3> HIDE DEF C, P, o
    <3>7. \A m \in shown' : m = o \/ Older(o, m)
      BY <2>7, <3>3, <3>4, <3>5
    <3>8. \A m \in present' : m \in shown' \/ Older(m, o)
      BY <2>6, <3>4, <3>6
    <3> QED
      BY <3>3, <3>4, <3>5, <3>7, <3>8, StartAndEnd
  <2>9. CASE ~ (Cardinality(ListByRoom(limit + 1, cursor)) > limit)
    <3>1. cursor' = End /\ shown' = shown \cup P /\ present' = present
      BY <1>2, <2>9 DEF GetMessages, NextCursor
    <3>2. Cardinality(Newest(C, limit + 1)) <= limit
      <4>1. IsFiniteSet(Newest(C, limit + 1))
        BY <2>1, FS_Subset DEF Newest
      <4> QED
        BY <2>2, <2>4, <2>9, <4>1, FS_CardinalityType
    <3>3. C \subseteq P
      BY <2>1, <2>2, <2>3, <3>2, ShortPageIsLast
    <3> HIDE DEF C, P
    <3> QED
      BY <2>6, <3>1, <3>3, StartAndEnd
  <2> QED
    BY <2>8, <2>9
<1>3. CASE BeginWalk
  BY <1>3, StartAndEnd DEF BeginWalk
<1>4. CASE Tick
  BY <1>4 DEF Tick
<1>5. CASE UNCHANGED historyVars
  BY <1>5 DEF historyVars
<1> QED
  BY <1>1, <1>2, <1>3, <1>4, <1>5 DEF HistoryNext

LEMMA HistoryInvariant == HistorySpec => []HistoryInv
<1>1. HistoryInit => HistoryInv
  BY StartAndEnd, FS_EmptySet DEF HistoryInit, HistoryInv, HistoryTypeOK, Walk
<1>2. HistoryInv /\ [HistoryNext]_historyVars => HistoryInv'
  BY HistoryTypes, HistoryWalk DEF HistoryInv
<1> QED
  BY <1>1, <1>2, PTL DEF HistorySpec

(* Every variable keeps its type; in particular only stored rows are shown.*)
THEOREM HistoryTypeCorrect == HistorySpec => []HistoryTypeOK
<1>1. HistoryInv => HistoryTypeOK
  BY DEF HistoryInv
<1> QED
  BY <1>1, HistoryInvariant, PTL

(* A walk that has ended has shown every row that was stored at its begin, *)
(* whatever was inserted, whichever limits were used (repository.go:37-38).*)
THEOREM WalksMissNothing == HistorySpec => []NothingMissed
<1>1. HistoryInv => NothingMissed
  BY DEF HistoryInv, Walk, NothingMissed
<1> QED
  BY <1>1, HistoryInvariant, PTL

(* Every page holds only rows older than all shown before, each once       *)
(* (repository.go:37-38).                                                  *)
THEOREM PagesGoBack == HistorySpec => WalksBack
<1> DEFINE GoesBack ==
        shown' # {} =>
            /\ Cardinality(shown' \ shown) = count' - count
            /\ \A m \in shown' \ shown, k \in shown : Older(m, k)
<1>1. HistoryInv /\ [HistoryNext]_historyVars => [GoesBack]_historyVars
  <2> SUFFICES ASSUME HistoryInv, HistoryNext PROVE GoesBack
    OBVIOUS
  <2>1. ASSUME shown' = shown, count' = count PROVE GoesBack
    <3>1. shown' \ shown = {}
      BY <2>1
    <3>2. count' - count = 0
      BY <2>1 DEF HistoryInv, HistoryTypeOK
    <3> QED
      BY <3>1, <3>2, FS_EmptySet
  <2>2. ASSUME NEW limit \in Limits, GetMessages(limit) PROVE GoesBack
    <3> DEFINE P == Page(limit, cursor)
    <3>1. P \subseteq Candidates(cursor) /\ P \in SUBSET Rows /\ IsFiniteSet(P)
      BY FS_Subset DEF Page, ListByRoom, Candidates, HistoryInv, HistoryTypeOK
    <3>2. \A m \in P, k \in shown : Older(m, k)
      BY <2>2, <3>1, CandidatesAreOlder DEF GetMessages
    <3>3. shown \in SUBSET Rows
      BY DEF HistoryInv, HistoryTypeOK
    <3>4. P \cap shown = {}
      BY <3>1, <3>2, RowsAreOrdered
    <3>5. shown' = shown \cup P /\ count' = count + Cardinality(P)
      BY <2>2 DEF GetMessages
    <3> HIDE DEF P
    <3>6. shown' \ shown = P
      BY <3>4, <3>5
    <3>7. Cardinality(P) = count' - count
      BY <3>1, <3>5, FS_CardinalityType DEF HistoryInv, HistoryTypeOK
    <3> QED
      BY <3>2, <3>6, <3>7
  <2>3. CASE BeginWalk
    BY <2>3 DEF BeginWalk
  <2>4. ASSUME NEW s \in Senders, Stamp(s) \/ Insert(s) \/ Fail(s) PROVE GoesBack
    BY <2>1, <2>4 DEF Stamp, Insert, Fail
  <2>5. CASE Tick
    BY <2>1, <2>5 DEF Tick
  <2> QED
    BY <2>2, <2>3, <2>4, <2>5 DEF HistoryNext
<1> QED
  BY <1>1, HistoryInvariant, PTL DEF HistorySpec, WalksBack

-----------------------------------------------------------------------------
(* The order in which the in-memory repository sorts.                      *)
Ranked(s) == \A i, j \in DOMAIN s : i < j => Newer(s[i], s[j])

LEMMA RankGrows ==
    ASSUME NEW S \in SUBSET Rows, IsFiniteSet(S), NEW m \in S, NEW k \in S, Older(m, k)
    PROVE  Cardinality(Above(S, k)) < Cardinality(Above(S, m))
<1>1. k \in Above(S, m)
  BY DEF Above
<1>2. Above(S, k) \subseteq Above(S, m) /\ Above(S, k) # Above(S, m)
  BY <1>1, AboveShrinks
<1> QED
  BY <1>2, AboveIsFinite, FS_Subset

(* A list of all rows without repetition holds each at some position.      *)
LEMMA SeqsOfRows ==
    ASSUME NEW S \in SUBSET Rows, IsFiniteSet(S), NEW s \in SetToSeqs(S)
    PROVE  /\ s \in [1..Cardinality(S) -> S]
           /\ s \in Seq(S) /\ Len(s) = Cardinality(S) /\ DOMAIN s = 1..Cardinality(S)
           /\ \A m \in S : \E i \in 1..Cardinality(S) : s[i] = m
<1> DEFINE c == Cardinality(S)
<1>1. c \in Nat
  BY FS_CardinalityType
<1>2. s \in [1..c -> S] /\ \A i, j \in 1..c : i # j => s[i] # s[j]
  BY DEF SetToSeqs
<1>3. s \in Injection(1..c, S)
  BY <1>2 DEF Injection, IsInjective
<1>4. Cardinality(1..c) = c
  BY <1>1, FS_Interval
<1>5. s \in Surjection(1..c, S)
  BY <1>3, <1>4, FS_Injection
<1>6. \A m \in S : \E i \in 1..c : s[i] = m
  BY <1>5 DEF Surjection
<1> HIDE DEF c
<1>7. s \in Seq(S) /\ Len(s) = c /\ DOMAIN s = 1..c
  BY <1>1, <1>2
<1> QED
  BY <1>2, <1>6, <1>7 DEF c

(* Every finite set of rows can be sorted: put each row at the position    *)
(* that the number of rows above it says.                                  *)
LEMMA RankedSeqExists ==
    ASSUME NEW S \in SUBSET Rows, IsFiniteSet(S)
    PROVE  \E s \in SetToSeqs(S) : Ranked(s)
<1> DEFINE c == Cardinality(S)
           rank == [m \in S |-> Cardinality(Above(S, m)) + 1]
           s == [i \in 1..c |-> CHOOSE m \in S : rank[m] = i]
<1>1. c \in Nat
  BY FS_CardinalityType
<1>2. \A m \in S : rank[m] \in 1..c
  <2> SUFFICES ASSUME NEW m \in S PROVE Cardinality(Above(S, m)) + 1 \in 1..c
    OBVIOUS
  <2>1. Above(S, m) \subseteq S /\ m \notin Above(S, m)
    BY RowsAreOrdered DEF Above
  <2>2. Cardinality(Above(S, m)) < c
    BY <1>1, <2>1, FS_Subset, AboveIsFinite
  <2> QED
    BY <1>1, <2>2, AboveIsFinite
<1>3. \A m, k \in S : Older(m, k) => rank[k] < rank[m]
  BY RankGrows, AboveIsFinite
<1>4. rank \in Injection(S, 1..c)
  <2>1. rank \in [S -> 1..c]
    BY <1>2
  <2>2. \A m, k \in S : rank[m] = rank[k] => m = k
    <3> HIDE DEF rank
    <3> QED
      BY <1>1, <1>2, <1>3, RowsAreOrdered
  <2> QED
    BY <2>1, <2>2 DEF Injection, IsInjective
<1>5. rank \in Surjection(S, 1..c)
  <2>1. IsFiniteSet(1..c) /\ Cardinality(1..c) = c
    BY <1>1, FS_Interval
  <2> HIDE DEF rank
  <2> QED
    BY <1>4, <2>1, FS_Injection
<1> HIDE DEF rank
<1>6. \A i \in 1..c : s[i] \in S /\ rank[s[i]] = i
  BY <1>5 DEF Surjection
<1>7. s \in [1..c -> S] /\ DOMAIN s = 1..c
  BY <1>6
<1> HIDE DEF s
<1>8. s \in SetToSeqs(S)
  BY <1>6, <1>7 DEF SetToSeqs
<1>9. Ranked(s)
  <2> SUFFICES ASSUME NEW i \in 1..c, NEW j \in 1..c, i < j PROVE Older(s[j], s[i])
    BY <1>7 DEF Ranked, Newer
  <2>1. s[i] # s[j] /\ ~ Older(s[i], s[j])
    BY <1>1, <1>3, <1>6
  <2> QED
    BY <1>6, <2>1, RowsAreOrdered
<1> QED
  BY <1>8, <1>9

(* The first n elements of a list in the order of ORDER BY are the newest  *)
(* n rows.                                                                 *)
LEMMA FirstOfRanked ==
    ASSUME NEW S \in SUBSET Rows, IsFiniteSet(S),
           NEW s \in SetToSeqs(S), Ranked(s), NEW n \in Nat
    PROVE  Newest(S, n) = {s[i] : i \in {j \in 1..Cardinality(S) : j <= n}}
<1> DEFINE c == Cardinality(S)
<1>1. c \in Nat
  BY FS_CardinalityType
<1>2. s \in [1..c -> S] /\ DOMAIN s = 1..c /\ \A m \in S : \E i \in 1..c : s[i] = m
  BY SeqsOfRows
<1>3. \A i, j \in 1..c : i # j => s[i] # s[j]
  BY DEF SetToSeqs
<1> HIDE DEF c
<1>4. \A i, j \in 1..c : i < j => Older(s[j], s[i])
  BY <1>2 DEF Ranked, Newer
<1>5. ASSUME NEW i \in 1..c PROVE Cardinality(Above(S, s[i])) = i - 1
  <2>1. \A j \in 1..c : Older(s[i], s[j]) <=> j < i
    BY <1>1, <1>2, <1>4, RowsAreOrdered
  <2>2. Above(S, s[i]) = {s[j] : j \in 1..(i - 1)}
    BY <1>1, <1>2, <2>1 DEF Above
  <2> DEFINE f == [j \in 1..(i - 1) |-> s[j]]
  <2>3. f \in Bijection(1..(i - 1), Above(S, s[i]))
    <3>1. 1..(i - 1) \subseteq 1..c
      BY <1>1
    <3>2. \A j, k \in 1..(i - 1) : f[j] = f[k] => j = k
      BY <1>3, <3>1
    <3>3. f \in [1..(i - 1) -> Above(S, s[i])]
      BY <2>2
    <3>4. \A m \in Above(S, s[i]) : \E j \in 1..(i - 1) : f[j] = m
      BY <2>2
    <3> HIDE DEF f
    <3> QED
      BY <3>2, <3>3, <3>4 DEF Bijection, Injection, Surjection, IsInjective
  <2>4. ExistsBijection(1..(i - 1), Above(S, s[i]))
    BY <2>3 DEF ExistsBijection
  <2>5. i - 1 \in Nat
    BY <1>1
  <2> QED
    BY <2>4, <2>5, FS_CountingElements
<1>6. \A i \in 1..c : s[i] \in Newest(S, n) <=> i <= n
  BY <1>1, <1>2, <1>5 DEF Newest
<1>7. Newest(S, n) \subseteq S
  BY DEF Newest
<1> QED
  BY <1>2, <1>6, <1>7 DEF c

(* What InMemListByRoom makes of the messages that pass its filter.  A     *)
(* list sorted by the comparison exists (RankedSeqExists) and any such     *)
(* list begins with the newest rows (FirstOfRanked), so sort.Slice, which  *)
(* is not stable, has no choice.                                           *)
LEMMA InMemoryShowsNewest ==
    ASSUME HistoryTypeOK, NEW cur, NEW n \in Nat \ {0}
    PROVE  InMemListByRoom(n, cur)
             = Newest({m \in memory : cur # Start => Older(m, cur)}, n)
<1> DEFINE C == {m \in memory : cur # Start => Older(m, cur)}
           c == Cardinality(C)
           s == CHOOSE t \in SetToSeqs(C) : Ranked(t)
           l == IF n > 0 /\ Len(s) > n THEN n ELSE Len(s)
<1>1. C \in SUBSET Rows /\ IsFiniteSet(C)
  BY FS_Subset DEF HistoryTypeOK
<1>2. InMemListByRoom(n, cur) = ToSet(SubSeq(s, 1, l))
  BY DEF InMemListByRoom, Ranked
<1>3. s \in SetToSeqs(C) /\ Ranked(s)
  BY <1>1, RankedSeqExists
<1>4. c \in Nat
  BY <1>1, FS_CardinalityType
<1> HIDE DEF C, s
<1>5. s \in Seq(C) /\ Len(s) = c
  BY <1>1, <1>3, SeqsOfRows
<1>6. Newest(C, n) = {s[i] : i \in {j \in 1..c : j <= n}}
  BY <1>1, <1>3, FirstOfRanked
<1> HIDE DEF c
<1>7. l \in 0..c /\ 1..l = {j \in 1..c : j <= n}
  BY <1>4, <1>5
<1> HIDE DEF l
<1>8. ToSet(SubSeq(s, 1, l)) = {s[i] : i \in 1..l}
  <2>1. DOMAIN SubSeq(s, 1, l) = 1..l /\ \A i \in 1..l : SubSeq(s, 1, l)[i] = s[i]
    BY <1>4, <1>5, <1>7
  <2> QED
    BY <2>1 DEF ToSet
<1> QED
  BY <1>2, <1>6, <1>7, <1>8 DEF C

(* No two messages of S have different stamps within one microsecond.      *)
Apart(S) == \A m, k \in S : Row(m).at = Row(k).at => m.at = k.at

(* Then cutting the stamps keeps every order, tells all messages apart,    *)
LEMMA ApartKeepsOrder ==
    ASSUME NEW S \in SUBSET Rows, Apart(S), NEW m \in S, NEW k \in S
    PROVE  (Older(Row(m), Row(k)) <=> Older(m, k)) /\ (Row(m) = Row(k) => m = k)
<1>1. /\ m.at \in Nat /\ k.at \in Nat
      /\ Row(m).at \in Nat /\ Row(k).at \in Nat
  BY CutStamps DEF Rows
<1>2. Row(m).id = m.id /\ Row(k).id = k.id
  BY DEF Row
<1>3. /\ m.at <= k.at => Row(m).at <= Row(k).at
      /\ k.at <= m.at => Row(k).at <= Row(m).at
  BY CutStamps
<1>4. Row(m).at = Row(k).at => m.at = k.at
  BY DEF Apart
<1>5. m.at = k.at /\ m.id = k.id => m = k
  BY DEF Rows
<1> QED
  BY <1>1, <1>2, <1>3, <1>4, <1>5 DEF Older

(* and the newest rows are those of the newest messages.                   *)
LEMMA ApartKeepsNewest ==
    ASSUME NEW S \in SUBSET Rows, IsFiniteSet(S), Apart(S), NEW n \in Nat
    PROVE  {Row(m) : m \in Newest(S, n)} = Newest({Row(m) : m \in S}, n)
<1> DEFINE R == {Row(m) : m \in S}
<1>1. ASSUME NEW m \in S
      PROVE  Cardinality(Above(R, Row(m))) = Cardinality(Above(S, m))
  <2>1. Above(R, Row(m)) = {Row(k) : k \in Above(S, m)}
    BY ApartKeepsOrder DEF Above
  <2> DEFINE f == [k \in Above(S, m) |-> Row(k)]
  <2>2. f \in Bijection(Above(S, m), Above(R, Row(m)))
    <3>1. \A j, k \in Above(S, m) : f[j] = f[k] => j = k
      BY ApartKeepsOrder DEF Above
    <3>2. f \in [Above(S, m) -> Above(R, Row(m))]
      BY <2>1
    <3>3. \A r \in Above(R, Row(m)) : \E k \in Above(S, m) : f[k] = r
      BY <2>1
    <3> HIDE DEF f
    <3> QED
      BY <3>1, <3>2, <3>3 DEF Bijection, Injection, Surjection, IsInjective
  <2>3. IsFiniteSet(Above(S, m))
    BY AboveIsFinite
  <2>4. ExistsBijection(Above(S, m), Above(R, Row(m)))
    BY <2>2 DEF ExistsBijection
  <2> HIDE DEF R
  <2> QED
    BY <2>3, <2>4, FS_Bijection
<1> QED
  BY <1>1 DEF Newest

(* As long as no two messages have different stamps within one             *)
(* microsecond, the in-memory repository answers every request as          *)
(* PostgreSQL does (repository_inmem.go:28-61), for any number of them.    *)
THEOREM InMemoryAnswersAlike == HistorySpec => []RepositoriesAgree
<1>1. HistoryInv => RepositoriesAgree
  <2> SUFFICES ASSUME HistoryTypeOK, Apart(memory),
                      NEW cur \in memory \cup {Start}, NEW n \in Nat \ {0}
               PROVE  {Row(m) : m \in InMemListByRoom(n, cur)}
                        = ListByRoom(n, IF cur = Start THEN Start ELSE Row(cur))
    BY HistoryAssumption DEF HistoryInv, RepositoriesAgree, SameMeaning, Apart
  <2> DEFINE C == {m \in memory : cur # Start => Older(m, cur)}
             at == IF cur = Start THEN Start ELSE Row(cur)
  <2>1. C \in SUBSET Rows /\ IsFiniteSet(C) /\ Apart(C)
    BY FS_Subset DEF HistoryTypeOK, Apart
  <2>2. memory \in SUBSET Rows
    BY DEF HistoryTypeOK
  <2>3. Candidates(at) = {Row(m) : m \in C}
    <3>1. CASE cur = Start
      BY <3>1 DEF Candidates, HistoryTypeOK
    <3>2. CASE cur # Start
      <4>1. Row(cur) # Start
        BY <2>2, <3>2, CutStamps, StartAndEnd
      <4>2. \A m \in memory : Older(Row(m), Row(cur)) <=> Older(m, cur)
        BY <2>2, <3>2, ApartKeepsOrder
      <4> QED
        BY <3>2, <4>1, <4>2 DEF Candidates, HistoryTypeOK
    <3> QED
      BY <3>1, <3>2
  <2>4. InMemListByRoom(n, cur) = Newest(C, n)
    BY InMemoryShowsNewest
  <2>5. ListByRoom(n, at) = Newest(Candidates(at), n)
    BY DEF ListByRoom, Newest, Above
  <2> HIDE DEF C
  <2> QED
    BY <2>1, <2>3, <2>4, <2>5, ApartKeepsNewest
<1> QED
  BY <1>1, HistoryInvariant, PTL
=============================================================================
