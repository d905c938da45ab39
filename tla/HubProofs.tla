----------------------------- MODULE HubProofs -----------------------------
(***************************************************************************)
(* Proofs about Hub and about WsConnection, which implements its clients,  *)
(* for any number of connections, rooms and events and any channel         *)
(* capacities.  The properties are defined and explained in Hub, HubFanout *)
(* and WsConnection.                                                       *)
(***************************************************************************)
EXTENDS HubFanout, WsConnection, TLAPS

-----------------------------------------------------------------------------
(* Type correctness. *)

(* What the two updates of the room map make of its keys and its sets.     *)
LEMMA RoomMapUpdates ==
    ASSUME TypeOK, NEW r \in Rooms, NEW c \in Clients
    PROVE  /\ DOMAIN WithClient(r, c) \subseteq Rooms
           /\ \A x \in DOMAIN WithClient(r, c) : WithClient(r, c)[x] \subseteq Clients
           /\ DOMAIN WithoutClient(r, c) \subseteq Rooms
           /\ \A x \in DOMAIN WithoutClient(r, c) : WithoutClient(r, c)[x] \subseteq Clients
BY DEF TypeOK, WithClient, WithoutClient, Subscribers

(* Every variable keeps its type: in particular the payloads queued for    *)
(* and taken by the write goroutines are always broadcasts that were made. *)
THEOREM TypeCorrect == Spec => []TypeOK
<1>1. Init => TypeOK
  <2> SUFFICES ASSUME Init PROVE TypeOK
    OBVIOUS
  <2>1. DOMAIN rooms = {}
    BY DEF Init
  <2>2. /\ register = <<>> /\ unregister = <<>> /\ broadcast = <<>> /\ target = <<>>
        /\ run = "running" /\ stop = FALSE
    BY DEF Init
  <2>3. /\ send \in [Clients -> Seq(Payloads)] /\ got \in [Clients -> Seq(Payloads)]
        /\ closed \in [Clients -> BOOLEAN]
        /\ caller \in [Clients -> {"new", "open", "left"}]
    BY DEF Init
  <2>4. /\ <<>> \in Seq(Clients) /\ <<>> \in Seq(Payloads) /\ <<>> \in Seq(Rooms)
    OBVIOUS
  <2> QED
    BY <2>1, <2>2, <2>3, <2>4 DEF TypeOK
<1>2. TypeOK /\ [Next]_vars => TypeOK'
  <2> SUFFICES ASSUME TypeOK, [Next]_vars PROVE TypeOK'
    OBVIOUS
  <2> USE HubAssumption DEF HubAssumption, TypeOK, Payloads, queues
  <2>1. CASE \E c \in Clients : Register(c)
    BY <2>1 DEF Register
  <2>2. CASE \E c \in Clients : Unregister(c)
    BY <2>2 DEF Unregister
  <2>3. CASE \E c \in Clients : Receive(c)
    <3> PICK c \in Clients : Receive(c)
      BY <2>3
    <3>1. send[c] \in Seq(Payloads) /\ send[c] # <<>> /\ got[c] \in Seq(Payloads)
      BY DEF Receive
    <3>2. Head(send[c]) \in Payloads /\ Tail(send[c]) \in Seq(Payloads)
      BY <3>1
    <3>3. send' \in [Clients -> Seq(Payloads)] /\ got' \in [Clients -> Seq(Payloads)]
      BY <3>1, <3>2 DEF Receive
    <3> QED
      BY <3>3 DEF Receive
  <2>4. CASE \E r \in Rooms : LocalBroadcast(r)
    BY <2>4 DEF LocalBroadcast
  <2>5. CASE Stop
    BY <2>5 DEF Stop
  <2>6. CASE TakeRegister
    <3> DEFINE c == Head(register)
    <3>1. c \in Clients /\ RoomOf[c] \in Rooms
      BY <2>6 DEF TakeRegister
    <3>2. rooms' = WithClient(RoomOf[c], c)
      BY <2>6 DEF TakeRegister
    <3>3. DOMAIN rooms' \subseteq Rooms /\ \A x \in DOMAIN rooms' : rooms'[x] \subseteq Clients
      BY <3>1, <3>2, RoomMapUpdates
    <3> QED
      BY <2>6, <3>3 DEF TakeRegister
  <2>7. CASE TakeUnregister
    <3> DEFINE c == Head(unregister)
    <3>1. c \in Clients /\ RoomOf[c] \in Rooms
      BY <2>7 DEF TakeUnregister, CloseSend
    <3>2. rooms' = rooms \/ rooms' = WithoutClient(RoomOf[c], c)
      BY <2>7 DEF TakeUnregister, CloseSend
    <3>3. DOMAIN rooms' \subseteq Rooms /\ \A x \in DOMAIN rooms' : rooms'[x] \subseteq Clients
      BY <3>1, <3>2, RoomMapUpdates
    <3>4. unregister' \in Seq(Clients)
      BY <2>7 DEF TakeUnregister, CloseSend
    <3>5. closed' \in [Clients -> BOOLEAN]
      BY <2>7, <3>1 DEF TakeUnregister, CloseSend
    <3>6. run' \in {"running", "returned", "panicked"}
      BY <2>7 DEF TakeUnregister, CloseSend
    <3> QED
      BY <2>7, <3>3, <3>4, <3>5, <3>6 DEF TakeUnregister, CloseSend
  <2>8. CASE TakeBroadcast
    <3> DEFINE n == Head(broadcast)
    <3>1. n \in Payloads /\ broadcast' \in Seq(Payloads)
      BY <2>8 DEF TakeBroadcast, Deliver, HasRoom
    <3>2. \A c \in Clients : Append(send[c], n) \in Seq(Payloads)
      BY <3>1
    <3>3. send' \in [Clients -> Seq(Payloads)]
      BY <2>8, <3>2 DEF TakeBroadcast, Deliver, HasRoom
    <3>4. run' \in {"running", "returned", "panicked"}
      BY <2>8 DEF TakeBroadcast, Deliver, HasRoom
    <3> QED
      BY <2>8, <3>1, <3>3, <3>4 DEF TakeBroadcast, Deliver, HasRoom
  <2>9. CASE TakeStop
    BY <2>9 DEF TakeStop
  <2>10. CASE UNCHANGED vars
    BY <2>10 DEF vars
  <2> QED
    BY <2>1, <2>2, <2>3, <2>4, <2>5, <2>6, <2>7, <2>8, <2>9, <2>10 DEF Next, Run
<1> QED
  BY <1>1, <1>2, PTL DEF Spec

-----------------------------------------------------------------------------
(* Membership and channels: the inductive invariant behind NoPanic.        *)

(***************************************************************************)
(* A connection waits in register at most once, and once its channel is    *)
(* closed it is neither a member nor waiting to become one.  That last     *)
(* fact is why the membership check before close(c.send) is enough.        *)
(***************************************************************************)
RegisterOnce == \A i, j \in DOMAIN register : register[i] = register[j] => i = j

OwnRoomOnly == \A r \in DOMAIN rooms : \A c \in rooms[r] : RoomOf[c] = r

Phase(c) ==
    /\ Occurs(c, register) => caller[c] # "new" /\ ~Member(c)
    /\ Member(c) => caller[c] # "new"
    /\ Occurs(c, unregister) => caller[c] = "left"
    /\ closed[c] => caller[c] = "left" /\ ~Member(c) /\ ~Occurs(c, register)

SubInv == RegisterOnce /\ OwnRoomOnly /\ \A c \in Clients : Phase(c)

LEMMA OccursAppend ==
    ASSUME NEW S, NEW s \in Seq(S), NEW x, NEW y
    PROVE  Occurs(x, Append(s, y)) <=> Occurs(x, s) \/ x = y
<1>1. DOMAIN Append(s, y) = DOMAIN s \cup {Len(s) + 1} /\ DOMAIN s = 1..Len(s)
  OBVIOUS
<1>2. Append(s, y)[Len(s) + 1] = y /\ \A i \in DOMAIN s : Append(s, y)[i] = s[i]
  OBVIOUS
<1> QED
  BY <1>1, <1>2 DEF Occurs

(* Taking the head of a channel removes it for good if it was there once.  *)
LEMMA OccursTail ==
    ASSUME NEW S, NEW s \in Seq(S), s # <<>>
    PROVE  /\ Occurs(Head(s), s)
           /\ \A x : Occurs(x, Tail(s)) => Occurs(x, s)
           /\ (\A i, j \in DOMAIN s : s[i] = s[j] => i = j)
                => /\ ~Occurs(Head(s), Tail(s))
                   /\ \A i, j \in DOMAIN Tail(s) : Tail(s)[i] = Tail(s)[j] => i = j
<1>1. DOMAIN s = 1..Len(s) /\ Len(s) \in Nat \ {0} /\ Head(s) = s[1]
  OBVIOUS
<1>2. DOMAIN Tail(s) = 1..(Len(s) - 1) /\ \A i \in DOMAIN Tail(s) : Tail(s)[i] = s[i + 1]
  OBVIOUS
<1>3. \A i \in DOMAIN Tail(s) : i + 1 \in DOMAIN s /\ i + 1 # 1
  BY <1>1, <1>2
<1> QED
  BY <1>1, <1>2, <1>3 DEF Occurs

LEMMA MemberAfterWith ==
    ASSUME TypeOK, NEW d \in Clients, rooms' = WithClient(RoomOf[d], d)
    PROVE  \A c \in Clients : Member(c)' <=> Member(c) \/ c = d
BY HubAssumption DEF HubAssumption, TypeOK, Member, Subscribers, WithClient

LEMMA MemberAfterWithout ==
    ASSUME TypeOK, NEW d \in Clients, rooms' = WithoutClient(RoomOf[d], d)
    PROVE  \A c \in Clients : Member(c)' <=> Member(c) /\ c # d
BY HubAssumption DEF HubAssumption, TypeOK, Member, Subscribers, WithoutClient

(* Membership depends on rooms alone. *)
LEMMA MemberUnchanged ==
    ASSUME rooms' = rooms, NEW c PROVE Member(c)' <=> Member(c)
BY DEF Member, Subscribers

LEMMA SubInvInit == Init => SubInv
<1> SUFFICES ASSUME Init PROVE SubInv
  OBVIOUS
<1>1. DOMAIN rooms = {} /\ register = <<>> /\ unregister = <<>>
  BY DEF Init
<1>2. \A c \in Clients : ~closed[c]
  BY DEF Init
<1>3. \A c : ~Occurs(c, register) /\ ~Occurs(c, unregister) /\ ~Member(c)
  BY <1>1 DEF Occurs, Member, Subscribers
<1> QED
  BY <1>1, <1>2, <1>3 DEF SubInv, RegisterOnce, OwnRoomOnly, Phase

LEMMA SubInvStep == TypeOK /\ SubInv /\ [Next]_vars => SubInv'
<1> SUFFICES ASSUME TypeOK, SubInv, [Next]_vars PROVE SubInv'
  OBVIOUS
<1>1. ASSUME NEW d \in Clients, Register(d) PROVE SubInv'
  <2>1. register \in Seq(Clients) /\ register' = Append(register, d)
    BY <1>1 DEF TypeOK, Register
  <2>2. ~Occurs(d, register) /\ ~closed[d] /\ ~Member(d)
    BY <1>1 DEF Register, SubInv, Phase
  <2>3. RegisterOnce'
    BY <2>1, <2>2 DEF SubInv, RegisterOnce, Occurs
  <2>4. OwnRoomOnly'
    BY <1>1 DEF Register, SubInv, OwnRoomOnly
  <2>5. ASSUME NEW c \in Clients PROVE Phase(c)'
    <3>1. Occurs(c, register)' <=> Occurs(c, register) \/ c = d
      BY <2>1, OccursAppend DEF Occurs
    <3>2. Member(c)' <=> Member(c)
      BY <1>1, MemberUnchanged DEF Register
    <3>3. caller'[c] = IF c = d THEN "open" ELSE caller[c]
      BY <1>1 DEF Register, TypeOK
    <3>4. Occurs(c, unregister)' <=> Occurs(c, unregister)
      BY <1>1 DEF Register, Occurs
    <3>5. closed' = closed /\ caller[d] = "new"
      BY <1>1 DEF Register
    <3> QED
      BY <2>2, <3>1, <3>2, <3>3, <3>4, <3>5 DEF SubInv, Phase
  <2> QED
    BY <2>3, <2>4, <2>5 DEF SubInv
<1>2. ASSUME NEW d \in Clients, Unregister(d) PROVE SubInv'
  <2>1. unregister \in Seq(Clients) /\ unregister' = Append(unregister, d)
    BY <1>2 DEF TypeOK, Unregister
  <2>2. RegisterOnce' /\ OwnRoomOnly'
    BY <1>2 DEF Unregister, SubInv, RegisterOnce, OwnRoomOnly
  <2>3. ASSUME NEW c \in Clients PROVE Phase(c)'
    <3>1. Occurs(c, unregister)' <=> Occurs(c, unregister) \/ c = d
      BY <2>1, OccursAppend DEF Occurs
    <3>2. Member(c)' <=> Member(c)
      BY <1>2, MemberUnchanged DEF Unregister
    <3>3. caller'[c] = IF c = d THEN "left" ELSE caller[c]
      BY <1>2 DEF Unregister, TypeOK
    <3>4. Occurs(c, register)' <=> Occurs(c, register)
      BY <1>2 DEF Unregister, Occurs
    <3>5. closed' = closed
      BY <1>2 DEF Unregister
    <3> QED
      BY <3>1, <3>2, <3>3, <3>4, <3>5 DEF SubInv, Phase
  <2> QED
    BY <2>2, <2>3 DEF SubInv
<1>3. CASE TakeRegister
  <2> DEFINE d == Head(register)
  <2>1. register \in Seq(Clients) /\ register # <<>> /\ register' = Tail(register)
    BY <1>3 DEF TypeOK, TakeRegister
  <2>2. d \in Clients /\ rooms' = WithClient(RoomOf[d], d)
    BY <1>3, <2>1 DEF TakeRegister
  <2>3. RegisterOnce' /\ ~Occurs(d, register')
    BY <2>1, OccursTail DEF SubInv, RegisterOnce
  <2>4. OwnRoomOnly'
    BY <2>2 DEF SubInv, OwnRoomOnly, WithClient, Subscribers
  <2>5. ASSUME NEW c \in Clients PROVE Phase(c)'
    <3>1. Occurs(c, register)' => Occurs(c, register) /\ c # d
      BY <2>1, <2>3, OccursTail
    <3>2. Member(c)' <=> Member(c) \/ c = d
      BY <2>2, MemberAfterWith
    <3>3. Occurs(d, register)
      BY <2>1, OccursTail
    <3>4. Occurs(c, unregister)' <=> Occurs(c, unregister)
      BY <1>3 DEF TakeRegister, Occurs
    <3>5. closed' = closed /\ caller' = caller
      BY <1>3 DEF TakeRegister
    <3> QED
      BY <2>2, <3>1, <3>2, <3>3, <3>4, <3>5 DEF SubInv, Phase
  <2> QED
    BY <2>3, <2>4, <2>5 DEF SubInv
<1>4. CASE TakeUnregister
  <2> DEFINE d == Head(unregister)
  <2>1. unregister \in Seq(Clients) /\ unregister # <<>> /\ unregister' = Tail(unregister)
    BY <1>4 DEF TypeOK, TakeUnregister, CloseSend
  <2>2. d \in Clients /\ caller[d] = "left" /\ (Member(d) => ~Occurs(d, register))
    BY <2>1, OccursTail DEF SubInv, Phase
  <2>3. RegisterOnce'
    BY <1>4 DEF TakeUnregister, CloseSend, SubInv, RegisterOnce
  <2>4. CASE ~Member(d)
    <3>1. rooms' = rooms /\ closed' = closed
      BY <1>4, <2>4 DEF TakeUnregister, CloseSend
    <3>2. OwnRoomOnly'
      BY <3>1 DEF SubInv, OwnRoomOnly
    <3>3. ASSUME NEW c \in Clients PROVE Phase(c)'
      <4>1. Occurs(c, unregister)' => Occurs(c, unregister)
        BY <2>1, OccursTail
      <4>2. Member(c)' <=> Member(c)
        BY <3>1, MemberUnchanged
      <4>3. register' = register /\ caller' = caller
        BY <1>4 DEF TakeUnregister, CloseSend
      <4> QED
        BY <3>1, <4>1, <4>2, <4>3 DEF SubInv, Phase, Occurs
    <3> QED
      BY <2>3, <3>2, <3>3 DEF SubInv
  <2>5. CASE Member(d)
    <3>1. rooms' = WithoutClient(RoomOf[d], d) /\ closed' = [closed EXCEPT ![d] = TRUE]
      BY <1>4, <2>5 DEF TakeUnregister, CloseSend
    <3>2. OwnRoomOnly'
      BY <3>1 DEF SubInv, OwnRoomOnly, WithoutClient
    <3>3. ASSUME NEW c \in Clients PROVE Phase(c)'
      <4>1. Occurs(c, unregister)' => Occurs(c, unregister)
        BY <2>1, OccursTail
      <4>2. Member(c)' <=> Member(c) /\ c # d
        BY <2>2, <3>1, MemberAfterWithout
      <4>3. register' = register /\ caller' = caller
        BY <1>4 DEF TakeUnregister, CloseSend
      <4>4. c # d => closed'[c] = closed[c]
        BY <3>1 DEF TypeOK
      <4>5. Occurs(c, register)' <=> Occurs(c, register)
        BY <4>3 DEF Occurs
      <4> QED
        BY <2>2, <2>5, <4>1, <4>2, <4>3, <4>4, <4>5 DEF SubInv, Phase
    <3> QED
      BY <2>3, <3>2, <3>3 DEF SubInv
  <2> QED
    BY <2>4, <2>5
<1>5. CASE UNCHANGED <<register, unregister, rooms, closed, caller>>
  BY <1>5 DEF SubInv, RegisterOnce, OwnRoomOnly, Phase, Occurs, Member, Subscribers
<1> QED
  <2>1. ASSUME NEW r \in Rooms, LocalBroadcast(r)
        PROVE  UNCHANGED <<register, unregister, rooms, closed, caller>>
    BY <2>1 DEF LocalBroadcast
  <2>2. ASSUME NEW c \in Clients, Receive(c)
        PROVE  UNCHANGED <<register, unregister, rooms, closed, caller>>
    BY <2>2 DEF Receive, queues
  <2>3. Stop \/ TakeBroadcast \/ TakeStop \/ UNCHANGED vars
          => UNCHANGED <<register, unregister, rooms, closed, caller>>
    BY DEF Stop, TakeBroadcast, Deliver, HasRoom, TakeStop, queues, vars
  <2> QED
    BY <1>1, <1>2, <1>3, <1>4, <1>5, <2>1, <2>2, <2>3 DEF Next, Run

(* Run closes a channel only under a handler that has left. *)
THEOREM ChannelClosedOnlyAfterLeave == Spec => []ClosedOnlyAfterLeave
<1>1. SubInv => ClosedOnlyAfterLeave
  BY DEF SubInv, Phase, ClosedOnlyAfterLeave
<1> QED
  BY <1>1, SubInvInit, SubInvStep, TypeCorrect, PTL DEF Spec

(* No interleaving of callers and of Run's random select makes Run close a *)
(* channel twice or send on a closed one.                                  *)
THEOREM RunNeverPanics == Spec => []NoPanic
<1>1. Init => NoPanic
  BY DEF Init, NoPanic
<1>2. TypeOK /\ SubInv /\ NoPanic /\ [Next]_vars => NoPanic'
  <2> SUFFICES ASSUME TypeOK, SubInv, NoPanic, [Next]_vars PROVE run' # "panicked"
    BY DEF NoPanic
  <2>1. CASE TakeUnregister
    <3>1. unregister \in Seq(Clients) /\ unregister # <<>>
      BY <2>1 DEF TypeOK, TakeUnregister, CloseSend
    <3>2. Head(unregister) \in Clients
      BY <3>1
    <3>3. Member(Head(unregister)) => ~closed[Head(unregister)]
      BY <3>2 DEF SubInv, Phase
    <3> QED
      BY <2>1, <3>3 DEF TakeUnregister, CloseSend, NoPanic
  <2>2. CASE TakeBroadcast
    <3>1. \A r : \A c \in Subscribers(r) : c \in Clients /\ Member(c)
      BY DEF SubInv, OwnRoomOnly, Subscribers, Member, TypeOK
    <3>2. \A r : \A c \in Subscribers(r) : ~closed[c]
      BY <3>1 DEF SubInv, Phase
    <3> QED
      BY <2>2, <3>2 DEF TakeBroadcast, Deliver, HasRoom, NoPanic
  <2>3. ASSUME NEW c \in Clients, Register(c) \/ Unregister(c) \/ Receive(c)
        PROVE  run' = run
    BY <2>3 DEF Register, Unregister, Receive
  <2>4. ASSUME NEW r \in Rooms, LocalBroadcast(r)
        PROVE  run' = run
    BY <2>4 DEF LocalBroadcast
  <2>5. TakeRegister \/ Stop \/ UNCHANGED vars => run' = run
    BY DEF TakeRegister, Stop, vars
  <2>6. TakeStop => run' = "returned"
    BY DEF TakeStop
  <2> QED
    BY <2>1, <2>2, <2>3, <2>4, <2>5, <2>6 DEF Next, Run, NoPanic
<1> QED
  BY <1>1, <1>2, SubInvInit, SubInvStep, TypeCorrect, PTL DEF Spec

(* Only its own departure ends a subscription. *)
THEOREM SubscriptionOutlivesOthers == Spec => StaysSubscribed
<1> DEFINE Stays == \A c \in Clients : Member(c) /\ caller[c] # "left" => Member(c)'
<1>1. TypeOK /\ SubInv /\ [Next]_vars => [Stays]_vars
  <2> SUFFICES ASSUME TypeOK, SubInv, Next,
                      NEW c \in Clients, Member(c), caller[c] # "left"
               PROVE  Member(c)'
    OBVIOUS
  <2>1. CASE TakeRegister
    <3>1. Head(register) \in Clients
      BY <2>1 DEF TypeOK, TakeRegister
    <3> QED
      BY <2>1, <3>1, MemberAfterWith DEF TakeRegister
  <2>2. CASE TakeUnregister
    <3>1. unregister \in Seq(Clients) /\ unregister # <<>>
      BY <2>2 DEF TypeOK, TakeUnregister, CloseSend
    <3>2. Head(unregister) \in Clients /\ Head(unregister) # c
      BY <3>1, OccursTail DEF SubInv, Phase
    <3>3. rooms' = rooms \/ rooms' = WithoutClient(RoomOf[Head(unregister)], Head(unregister))
      BY <2>2 DEF TakeUnregister, CloseSend
    <3> QED
      BY <3>2, <3>3, MemberAfterWithout, MemberUnchanged
  <2>3. ASSUME NEW d \in Clients, Register(d) \/ Unregister(d) \/ Receive(d)
        PROVE  rooms' = rooms
    BY <2>3 DEF Register, Unregister, Receive
  <2>4. ASSUME NEW r \in Rooms, LocalBroadcast(r)
        PROVE  rooms' = rooms
    BY <2>4 DEF LocalBroadcast
  <2>5. TakeBroadcast \/ TakeStop \/ Stop => rooms' = rooms
    BY DEF TakeBroadcast, Deliver, HasRoom, TakeStop, Stop
  <2> QED
    BY <2>1, <2>2, <2>3, <2>4, <2>5, MemberUnchanged DEF Next, Run
<1> QED
  BY <1>1, SubInvInit, SubInvStep, TypeCorrect, PTL DEF Spec, StaysSubscribed

-----------------------------------------------------------------------------
(* Order of delivery. *)

(***************************************************************************)
(* The payloads on their way are ordered: what a client was given, then    *)
(* what waits in broadcast, then the calls still to come.                  *)
(***************************************************************************)
PipelineOrdered ==
    /\ \A i, j \in DOMAIN broadcast : i < j => broadcast[i] < broadcast[j]
    /\ \A j \in DOMAIN broadcast : broadcast[j] <= Len(target)
    /\ \A c \in Clients : \A i \in DOMAIN Delivered(c) :
        /\ Delivered(c)[i] <= Len(target)
        /\ \A j \in DOMAIN broadcast : Delivered(c)[i] < broadcast[j]

LEMMA HandOver ==
    ASSUME NEW S, NEW s \in Seq(S), NEW t \in Seq(S), t # <<>>
    PROVE  Append(s, Head(t)) \o Tail(t) = s \o t
OBVIOUS

LEMMA AppendToConcat ==
    ASSUME NEW s \in Seq(Payloads), NEW t \in Seq(Payloads), NEW x \in Payloads
    PROVE  s \o Append(t, x) = Append(s \o t, x)
OBVIOUS

(* Taking a payload from its buffer changes nothing of what was delivered. *)
LEMMA DeliveredAfterReceive ==
    ASSUME TypeOK, NEW d \in Clients, Receive(d), NEW c \in Clients
    PROVE  Delivered(c)' = Delivered(c)
<1>1. CASE c = d
  <2>1. got[d] \in Seq(Payloads) /\ send[d] \in Seq(Payloads) /\ send[d] # <<>>
    BY DEF TypeOK, Receive
  <2>2. got'[d] = Append(got[d], Head(send[d])) /\ send'[d] = Tail(send[d])
    BY DEF TypeOK, Receive
  <2> QED
    BY <1>1, <2>1, <2>2, HandOver DEF Delivered
<1>2. CASE c # d
  <2>1. got'[c] = got[c] /\ send'[c] = send[c]
    BY <1>2 DEF TypeOK, Receive
  <2> QED
    BY <2>1 DEF Delivered
<1> QED
  BY <1>1, <1>2

(* A dispatched payload goes, if anywhere, to the end of what a client of  *)
(* its room was given.                                                     *)
LEMMA DeliveredAfterBroadcast ==
    ASSUME TypeOK, OwnRoomOnly, TakeBroadcast, NEW c \in Clients
    PROVE  \/ Delivered(c)' = Delivered(c)
           \/ /\ Delivered(c)' = Append(Delivered(c), Head(broadcast))
              /\ target[Head(broadcast)] = RoomOf[c]
<1> DEFINE n == Head(broadcast)
<1>1. n \in Payloads
  BY DEF TypeOK, TakeBroadcast, Deliver, HasRoom
<1>2. got[c] \in Seq(Payloads) /\ send[c] \in Seq(Payloads) /\ got' = got
  BY DEF TypeOK, TakeBroadcast, Deliver, HasRoom
<1>3. CASE c \in Subscribers(target[n]) /\ ~closed[c] /\ Len(send[c]) < SendCap
  <2>1. send'[c] = Append(send[c], n)
    BY <1>3 DEF TakeBroadcast, Deliver, HasRoom
  <2>2. RoomOf[c] = target[n]
    BY <1>3 DEF OwnRoomOnly, Subscribers
  <2>3. got[c] \o Append(send[c], n) = Append(got[c] \o send[c], n)
    BY <1>1, <1>2, AppendToConcat
  <2> QED
    BY <1>2, <2>1, <2>2, <2>3 DEF Delivered
<1>4. CASE ~(c \in Subscribers(target[n]) /\ ~closed[c] /\ Len(send[c]) < SendCap)
  <2>1. send'[c] = send[c]
    BY <1>4 DEF TakeBroadcast, Deliver, HasRoom
  <2> QED
    BY <1>2, <2>1 DEF Delivered
<1> QED
  BY <1>3, <1>4

LEMMA DeliveredType ==
    ASSUME TypeOK, NEW c \in Clients
    PROVE  Delivered(c) \in Seq(Payloads)
BY DEF TypeOK, Delivered

OrderInv == PipelineOrdered /\ InOrderOwnRoom

LEMMA OrderInvInit == Init => OrderInv
<1> SUFFICES ASSUME Init PROVE OrderInv
  OBVIOUS
<1>1. \A c \in Clients : Delivered(c) = <<>>
  <2>1. \A c \in Clients : got[c] = <<>> /\ send[c] = <<>>
    BY DEF Init
  <2>2. <<>> \o <<>> = <<>>
    OBVIOUS
  <2> QED
    BY <2>1, <2>2 DEF Delivered
<1>2. broadcast = <<>>
  BY DEF Init
<1> QED
  BY <1>1, <1>2 DEF OrderInv, PipelineOrdered, InOrderOwnRoom

LEMMA OrderInvStep == TypeOK /\ SubInv /\ OrderInv /\ [Next]_vars => OrderInv'
<1> SUFFICES ASSUME TypeOK, SubInv, OrderInv, [Next]_vars PROVE OrderInv'
  OBVIOUS
<1>0. /\ broadcast \in Seq(Nat) /\ target \in Seq(Rooms)
      /\ \A c \in Clients : Delivered(c) \in Seq(Nat)
  BY DeliveredType, HubAssumption DEF TypeOK, Payloads, HubAssumption
<1>1. ASSUME NEW r \in Rooms, LocalBroadcast(r) PROVE OrderInv'
  <2>1. /\ target' = Append(target, r)
        /\ broadcast' = Append(broadcast, Len(target) + 1)
    BY <1>1, <1>0 DEF LocalBroadcast
  <2>2. \A c \in Clients : Delivered(c)' = Delivered(c)
    BY <1>1 DEF LocalBroadcast, Delivered
  <2>3. Len(target') = Len(target) + 1 /\ \A i \in 1..Len(target) : target'[i] = target[i]
    BY <2>1, <1>0
  <2>4. PipelineOrdered'
    BY <1>0, <2>1, <2>2, <2>3 DEF OrderInv, PipelineOrdered
  <2>5. \A c \in Clients : \A i \in DOMAIN Delivered(c) : Delivered(c)[i] \in 1..Len(target)
    <3>1. \A c \in Clients : \A i \in DOMAIN Delivered(c) : Delivered(c)[i] \in Payloads
      BY DeliveredType
    <3> QED
      BY <3>1, <1>0 DEF OrderInv, PipelineOrdered, Payloads
  <2>6. InOrderOwnRoom'
    BY <2>2, <2>3, <2>5 DEF OrderInv, InOrderOwnRoom
  <2> QED
    BY <2>4, <2>6 DEF OrderInv
<1>2. CASE TakeBroadcast
  <2> DEFINE n == Head(broadcast)
  <2>1. broadcast # <<>> /\ broadcast' = Tail(broadcast) /\ target' = target
    BY <1>2 DEF TakeBroadcast, Deliver, HasRoom
  <2>2. ASSUME NEW c \in Clients
        PROVE  \/ Delivered(c)' = Delivered(c)
               \/ Delivered(c)' = Append(Delivered(c), n) /\ target[n] = RoomOf[c]
    BY <1>2, DeliveredAfterBroadcast DEF SubInv
  <2>3. /\ n = broadcast[1] /\ 1 \in DOMAIN broadcast /\ n \in Nat
        /\ \A j \in DOMAIN broadcast' : j + 1 \in DOMAIN broadcast /\ broadcast'[j] = broadcast[j + 1]
        /\ \A j \in DOMAIN broadcast' : j \in Nat \ {0}
    BY <2>1, <1>0
  <2>4. \A j \in DOMAIN broadcast' : n < broadcast'[j]
    BY <2>3, <1>0 DEF OrderInv, PipelineOrdered
  <2>5. PipelineOrdered'
    <3>1. \A i, j \in DOMAIN broadcast' : i < j => broadcast'[i] < broadcast'[j]
      BY <2>3, <1>0 DEF OrderInv, PipelineOrdered
    <3>2. \A j \in DOMAIN broadcast' : broadcast'[j] <= Len(target')
      BY <2>1, <2>3 DEF OrderInv, PipelineOrdered
    <3>3. ASSUME NEW c \in Clients, NEW i \in DOMAIN Delivered(c)'
          PROVE  /\ Delivered(c)'[i] <= Len(target')
                 /\ \A j \in DOMAIN broadcast' : Delivered(c)'[i] < broadcast'[j]
      <4>1. CASE Delivered(c)' = Delivered(c)
        BY <4>1, <2>1, <2>3, <3>3 DEF OrderInv, PipelineOrdered
      <4>2. CASE Delivered(c)' = Append(Delivered(c), n)
        <5>1. \/ i \in DOMAIN Delivered(c) /\ Delivered(c)'[i] = Delivered(c)[i]
              \/ Delivered(c)'[i] = n
          BY <4>2, <1>0, <2>3
        <5> QED
          BY <5>1, <2>1, <2>3, <2>4 DEF OrderInv, PipelineOrdered
      <4> QED
        BY <4>1, <4>2, <2>2
    <3> QED
      BY <3>1, <3>2, <3>3 DEF PipelineOrdered
  <2>6. InOrderOwnRoom'
    <3> SUFFICES ASSUME NEW c \in Clients
                 PROVE  /\ \A i, j \in DOMAIN Delivered(c)' :
                              i < j => Delivered(c)'[i] < Delivered(c)'[j]
                        /\ \A i \in DOMAIN Delivered(c)' : target[Delivered(c)'[i]] = RoomOf[c]
      BY <2>1 DEF InOrderOwnRoom
    <3>1. CASE Delivered(c)' = Delivered(c)
      BY <3>1 DEF OrderInv, InOrderOwnRoom
    <3>2. CASE Delivered(c)' = Append(Delivered(c), n) /\ target[n] = RoomOf[c]
      <4>1. DOMAIN Delivered(c)' = DOMAIN Delivered(c) \cup {Len(Delivered(c)) + 1}
        BY <3>2, <1>0
      <4>2. /\ Delivered(c)'[Len(Delivered(c)) + 1] = n
            /\ \A i \in DOMAIN Delivered(c) : Delivered(c)'[i] = Delivered(c)[i]
        BY <3>2, <1>0, <2>3
      <4>3. \A i \in DOMAIN Delivered(c) : Delivered(c)[i] < n /\ i <= Len(Delivered(c))
        BY <2>3, <1>0 DEF OrderInv, PipelineOrdered
      <4>4. \A i \in DOMAIN Delivered(c) : i \in Nat
        BY <1>0
      <4> QED
        BY <3>2, <4>1, <4>2, <4>3, <4>4, <1>0 DEF OrderInv, InOrderOwnRoom
    <3> QED
      BY <3>1, <3>2, <2>2
  <2> QED
    BY <2>5, <2>6 DEF OrderInv
<1>3. CASE /\ UNCHANGED <<broadcast, target>>
           /\ \A c \in Clients : Delivered(c)' = Delivered(c)
  BY <1>3 DEF OrderInv, PipelineOrdered, InOrderOwnRoom
<1> QED
  <2>1. ASSUME NEW c \in Clients, Register(c) \/ Unregister(c)
        PROVE  UNCHANGED <<broadcast, target, got, send>>
    BY <2>1 DEF Register, Unregister
  <2>2. ASSUME NEW d \in Clients, Receive(d)
        PROVE  UNCHANGED <<broadcast, target>> /\ \A c \in Clients : Delivered(c)' = Delivered(c)
    BY <2>2, DeliveredAfterReceive DEF Receive, queues
  <2>3. Stop \/ TakeRegister \/ TakeUnregister \/ TakeStop \/ UNCHANGED vars
          => UNCHANGED <<broadcast, target, got, send>>
    BY DEF Stop, TakeRegister, TakeUnregister, CloseSend, TakeStop, queues, vars
  <2>4. UNCHANGED <<broadcast, target, got, send>>
          => \A c \in Clients : Delivered(c)' = Delivered(c)
    BY DEF Delivered
  <2> QED
    BY <1>1, <1>2, <1>3, <2>1, <2>2, <2>3, <2>4 DEF Next, Run

(* Every connection is given broadcasts of its own room only, each at most *)
(* once and in order, for any buffer size and any pattern of drops.        *)
THEOREM DeliveryInOrder == Spec => []InOrderOwnRoom
<1>1. OrderInv => InOrderOwnRoom
  BY DEF OrderInv
<1> QED
  BY <1>1, OrderInvInit, OrderInvStep, SubInvInit, SubInvStep, TypeCorrect, PTL DEF Spec

-----------------------------------------------------------------------------
(* Empty rooms are forgotten: the map holds subscribed connections only.   *)
THEOREM EmptyRoomsAreForgotten == Spec => []NoEmptyRoom
<1>1. Init => NoEmptyRoom
  BY DEF Init, NoEmptyRoom
<1>2. NoEmptyRoom /\ [Next]_vars => NoEmptyRoom'
  <2> SUFFICES ASSUME NoEmptyRoom, [Next]_vars PROVE NoEmptyRoom'
    OBVIOUS
  <2>1. CASE TakeRegister
    BY <2>1 DEF TakeRegister, WithClient, NoEmptyRoom
  <2>2. CASE TakeUnregister
    <3>1. rooms' = rooms \/ rooms' = WithoutClient(RoomOf[Head(unregister)], Head(unregister))
      BY <2>2 DEF TakeUnregister, CloseSend
    <3> QED
      BY <3>1 DEF WithoutClient, NoEmptyRoom
  <2>3. ASSUME NEW d \in Clients, Register(d) \/ Unregister(d) \/ Receive(d)
        PROVE  rooms' = rooms
    BY <2>3 DEF Register, Unregister, Receive
  <2>4. ASSUME NEW r \in Rooms, LocalBroadcast(r)
        PROVE  rooms' = rooms
    BY <2>4 DEF LocalBroadcast
  <2>5. TakeBroadcast \/ TakeStop \/ Stop \/ UNCHANGED vars => rooms' = rooms
    BY DEF TakeBroadcast, Deliver, HasRoom, TakeStop, Stop, vars
  <2> QED
    BY <2>1, <2>2, <2>3, <2>4, <2>5 DEF Next, Run, NoEmptyRoom
<1> QED
  BY <1>1, <1>2, PTL DEF Spec

-----------------------------------------------------------------------------
(* The Hub implements the ordered fan-out. *)

(* What waits in broadcast are the last calls of LocalBroadcast, all of    *)
(* them and in order.                                                      *)
Waiting ==
    /\ Len(broadcast) <= Len(target)
    /\ \A j \in DOMAIN broadcast : broadcast[j] = Len(target) - Len(broadcast) + j

LEMMA WaitingInit == Init => Waiting
<1> SUFFICES ASSUME Init PROVE Waiting
  OBVIOUS
<1>1. broadcast = <<>> /\ target = <<>>
  BY DEF Init
<1> QED
  BY <1>1 DEF Waiting

LEMMA WaitingStep == TypeOK /\ Waiting /\ [Next]_vars => Waiting'
<1> SUFFICES ASSUME TypeOK, Waiting, [Next]_vars PROVE Waiting'
  OBVIOUS
<1>0. broadcast \in Seq(Nat) /\ target \in Seq(Rooms)
  BY HubAssumption DEF TypeOK, Payloads, HubAssumption
<1>1. ASSUME NEW r \in Rooms, LocalBroadcast(r) PROVE Waiting'
  <2>1. /\ Len(target') = Len(target) + 1
        /\ broadcast' = Append(broadcast, Len(target) + 1)
    BY <1>1, <1>0 DEF LocalBroadcast
  <2>2. /\ Len(broadcast') = Len(broadcast) + 1
        /\ broadcast'[Len(broadcast) + 1] = Len(target) + 1
        /\ DOMAIN broadcast' = DOMAIN broadcast \cup {Len(broadcast) + 1}
        /\ \A j \in DOMAIN broadcast : j \in Nat /\ broadcast'[j] = broadcast[j]
    BY <2>1, <1>0
  <2>3. Len(broadcast) \in Nat /\ Len(target) \in Nat
    BY <1>0
  <2> QED
    BY <2>1, <2>2, <2>3 DEF Waiting
<1>2. CASE TakeBroadcast
  <2>1. broadcast # <<>> /\ broadcast' = Tail(broadcast) /\ target' = target
    BY <1>2 DEF TakeBroadcast, Deliver, HasRoom
  <2>2. /\ Len(broadcast') = Len(broadcast) - 1
        /\ \A j \in DOMAIN broadcast' :
            j \in Nat /\ j + 1 \in DOMAIN broadcast /\ broadcast'[j] = broadcast[j + 1]
    BY <2>1, <1>0
  <2>3. Len(broadcast) \in Nat /\ Len(target) \in Nat
    BY <1>0
  <2> QED
    BY <2>1, <2>2, <2>3 DEF Waiting
<1>3. CASE UNCHANGED <<broadcast, target>>
  BY <1>3 DEF Waiting
<1> QED
  <2>1. ASSUME NEW c \in Clients, Register(c) \/ Unregister(c) \/ Receive(c)
        PROVE  UNCHANGED <<broadcast, target>>
    BY <2>1 DEF Register, Unregister, Receive, queues
  <2>2. Stop \/ TakeRegister \/ TakeUnregister \/ TakeStop \/ UNCHANGED vars
          => UNCHANGED <<broadcast, target>>
    BY DEF Stop, TakeRegister, TakeUnregister, CloseSend, TakeStop, queues, vars
  <2> QED
    BY <1>1, <1>2, <1>3, <2>1, <2>2 DEF Next, Run

LEMMA FanoutStep ==
    TypeOK /\ SubInv /\ Waiting /\ [Next]_vars => [Fanout!FanoutNext]_(Fanout!fanoutVars)
<1> SUFFICES ASSUME TypeOK, SubInv, Waiting, [Next]_vars
             PROVE  [Fanout!FanoutNext]_(Fanout!fanoutVars)
  OBVIOUS
<1>0. /\ broadcast \in Seq(Nat) /\ target \in Seq(Rooms)
      /\ Len(broadcast) \in Nat /\ Len(target) \in Nat
  BY HubAssumption DEF TypeOK, Payloads, HubAssumption
<1>1. ASSUME NEW r \in Rooms, LocalBroadcast(r) PROVE Fanout!Accept(r)
  <2>1. target' = Append(target, r) /\ Len(target') = Len(target) + 1
    BY <1>1, <1>0 DEF LocalBroadcast
  <2>2. Len(broadcast') = Len(broadcast) + 1
    BY <1>1, <1>0 DEF LocalBroadcast
  <2>3. Len(target') - Len(broadcast') = Len(target) - Len(broadcast)
    BY <2>1, <2>2, <1>0
  <2>4. [c \in Clients |-> Delivered(c)]' = [c \in Clients |-> Delivered(c)]
    BY <1>1 DEF LocalBroadcast, Delivered
  <2> QED
    BY <2>1, <2>3, <2>4 DEF Fanout!Accept
<1>2. CASE TakeBroadcast
  <2> DEFINE n == Head(broadcast)
  <2>1. broadcast # <<>> /\ broadcast' = Tail(broadcast) /\ target' = target
    BY <1>2 DEF TakeBroadcast, Deliver, HasRoom
  <2>2. Len(broadcast') = Len(broadcast) - 1 /\ n = broadcast[1] /\ 1 \in DOMAIN broadcast
    BY <2>1, <1>0
  <2>3. /\ n = Len(target) - Len(broadcast) + 1
        /\ Len(target') - Len(broadcast') = n
        /\ Len(target) - Len(broadcast) < Len(target)
    BY <2>1, <2>2, <1>0 DEF Waiting
  <2> DEFINE some == {c \in Clients : RoomOf[c] = target[n] /\ Delivered(c)' # Delivered(c)}
  <2>4. \A c \in Clients :
            Delivered(c)' = IF c \in some THEN Append(Delivered(c), n) ELSE Delivered(c)
    <3> SUFFICES ASSUME NEW c \in Clients
                 PROVE  Delivered(c)' = IF c \in some THEN Append(Delivered(c), n) ELSE Delivered(c)
      OBVIOUS
    <3>1. \/ Delivered(c)' = Delivered(c)
          \/ Delivered(c)' = Append(Delivered(c), n) /\ target[n] = RoomOf[c]
      BY <1>2, DeliveredAfterBroadcast DEF SubInv
    <3> QED
      BY <3>1
  <2>5. some \in SUBSET Fanout!InRoom(n)
    BY DEF Fanout!InRoom
  <2> HIDE DEF some, n
  <2>6. [c \in Clients |-> Delivered(c)]' =
            [c \in Clients |-> IF c \in some THEN Append([d \in Clients |-> Delivered(d)][c], n)
                                             ELSE [d \in Clients |-> Delivered(d)][c]]
    BY <2>4
  <2>7. Fanout!Dispatch
    BY <2>1, <2>3, <2>5, <2>6 DEF Fanout!Dispatch
  <2> QED
    BY <2>7 DEF Fanout!FanoutNext
<1>3. CASE /\ UNCHANGED <<broadcast, target>>
           /\ \A c \in Clients : Delivered(c)' = Delivered(c)
  BY <1>3 DEF Fanout!fanoutVars
<1> QED
  <2>1. ASSUME NEW c \in Clients, Register(c) \/ Unregister(c)
        PROVE  UNCHANGED <<broadcast, target, got, send>>
    BY <2>1 DEF Register, Unregister
  <2>2. ASSUME NEW d \in Clients, Receive(d)
        PROVE  UNCHANGED <<broadcast, target>> /\ \A c \in Clients : Delivered(c)' = Delivered(c)
    BY <2>2, DeliveredAfterReceive DEF Receive, queues
  <2>3. Stop \/ TakeRegister \/ TakeUnregister \/ TakeStop \/ UNCHANGED vars
          => UNCHANGED <<broadcast, target, got, send>>
    BY DEF Stop, TakeRegister, TakeUnregister, CloseSend, TakeStop, queues, vars
  <2>4. UNCHANGED <<broadcast, target, got, send>>
          => \A c \in Clients : Delivered(c)' = Delivered(c)
    BY DEF Delivered
  <2> QED
    BY <1>1, <1>2, <1>3, <2>1, <2>2, <2>3, <2>4 DEF Next, Run, Fanout!FanoutNext

LEMMA FanoutStarts == Init => Fanout!FanoutInit
<1> SUFFICES ASSUME Init PROVE Fanout!FanoutInit
  OBVIOUS
<1>1. target = <<>> /\ broadcast = <<>> /\ \A c \in Clients : got[c] = <<>> /\ send[c] = <<>>
  BY DEF Init
<1>2. <<>> \o <<>> = <<>> /\ Len(target) - Len(broadcast) = 0
  BY <1>1
<1>3. \A c \in Clients : Delivered(c) = <<>>
  BY <1>1, <1>2 DEF Delivered
<1> QED
  BY <1>1, <1>2, <1>3 DEF Fanout!FanoutInit

(* Hub implements OrderedFanout: each payload is dispatched once, in the   *)
(* order of LocalBroadcast, to some connections of its room (hub.go:60-92).*)
THEOREM HubFansOut == Spec => FansOut
<1>1. Spec => [](TypeOK /\ SubInv /\ Waiting)
  BY TypeCorrect, SubInvInit, SubInvStep, WaitingInit, WaitingStep, PTL DEF Spec
<1>2. Spec => Fanout!FanoutSpec
  BY <1>1, FanoutStarts, FanoutStep, PTL DEF Spec, Fanout!FanoutSpec
<1> QED
  BY <1>2 DEF FansOut

-----------------------------------------------------------------------------
(* Payloads are dropped for full buffers only. *)

Dispatched == 1..(Len(target) - Len(broadcast))

(***************************************************************************)
(* The inductive form of GapsOnlyWhenFull also speaks of the payloads a    *)
(* client has missed since the last it was given: such a client has been a *)
(* member all along, so its buffer was full, unless it is out for good.    *)
(***************************************************************************)
MissedSince(c) ==
    LET given == Delivered(c) IN
    given # <<>> =>
        \/ closed[c]
        \/ /\ Member(c)
           /\ \A n \in Dispatched :
                given[Len(given)] < n /\ target[n] = RoomOf[c] => Len(given) >= SendCap

GapInv == GapsOnlyWhenFull /\ \A c \in Clients : MissedSince(c)

LEMMA GapInit == Init => GapInv
<1> SUFFICES ASSUME Init PROVE GapInv
  OBVIOUS
<1>1. \A c \in Clients : Delivered(c) = <<>>
  <2>1. \A c \in Clients : got[c] = <<>> /\ send[c] = <<>>
    BY DEF Init
  <2>2. <<>> \o <<>> = <<>>
    OBVIOUS
  <2> QED
    BY <2>1, <2>2 DEF Delivered
<1> QED
  BY <1>1 DEF GapInv, GapsOnlyWhenFull, MissedSince

(* Who takes no part in a dispatch had its buffer full, or is of another   *)
(* room, or is not subscribed.                                             *)
LEMMA NotServed ==
    ASSUME TypeOK, SubInv, TakeBroadcast, NEW c \in Clients, Delivered(c)' = Delivered(c),
           Member(c), target[Head(broadcast)] = RoomOf[c]
    PROVE  Len(Delivered(c)) >= SendCap
<1> DEFINE n == Head(broadcast)
<1>1. got[c] \in Seq(Payloads) /\ send[c] \in Seq(Payloads) /\ got' = got
  BY DEF TypeOK, TakeBroadcast, Deliver
<1>2. n \in Payloads
  BY DEF TypeOK, TakeBroadcast
<1>3. c \in Subscribers(target[n]) /\ ~closed[c]
  BY DEF Member, SubInv, Phase
<1>4. ~HasRoom(c)
  <2>1. SUFFICES ASSUME HasRoom(c) PROVE FALSE
    OBVIOUS
  <2>2. send'[c] = Append(send[c], n)
    BY <1>3, <2>1 DEF TakeBroadcast, Deliver
  <2>3. Delivered(c)' = Append(Delivered(c), n)
    BY <1>1, <1>2, <2>2, AppendToConcat DEF Delivered
  <2>4. Delivered(c) \in Seq(Payloads)
    BY DeliveredType
  <2> QED
    BY <1>2, <2>3, <2>4
<1>5. Len(send[c]) >= SendCap
  BY <1>1, <1>4, HubAssumption DEF HasRoom, HubAssumption
<1>6. Len(got[c] \o send[c]) = Len(got[c]) + Len(send[c]) /\ Len(got[c]) \in Nat /\ Len(send[c]) \in Nat
  BY <1>1
<1>7. Len(got[c]) + Len(send[c]) >= SendCap
  <2>1. SendCap \in Nat
    BY HubAssumption DEF HubAssumption
  <2>2. \A x, y, z \in Nat : y >= z => x + y >= z
    OBVIOUS
  <2> QED
    BY <1>5, <1>6, <2>1, <2>2
<1> QED
  BY <1>6, <1>7 DEF Delivered

LEMMA GapBroadcast ==
    ASSUME TypeOK, SubInv, OrderInv, Waiting, GapInv, TakeBroadcast
    PROVE  GapInv'
<1> DEFINE n == Head(broadcast)
<1>1. /\ broadcast \in Seq(Nat) /\ broadcast # <<>> /\ target \in Seq(Rooms)
      /\ broadcast' = Tail(broadcast) /\ UNCHANGED <<target, rooms, closed>>
  BY HubAssumption DEF TypeOK, Payloads, HubAssumption, TakeBroadcast
<1>2. /\ Len(broadcast) \in Nat \ {0} /\ Len(target) \in Nat /\ n = broadcast[1] /\ 1 \in DOMAIN broadcast
      /\ Len(broadcast') = Len(broadcast) - 1
  BY <1>1
<1>3. n = Len(target) - Len(broadcast) + 1 /\ Len(broadcast) <= Len(target)
  BY <1>2 DEF Waiting
<1>4. n \in Nat /\ Dispatched = 1..(n - 1) /\ Dispatched' = 1..n
  BY <1>1, <1>2, <1>3 DEF Dispatched
<1> HIDE DEF n
<1> SUFFICES ASSUME NEW c \in Clients
             PROVE  /\ MissedSince(c)'
                    /\ \A i \in DOMAIN Delivered(c)' \ {1} :
                        (\E m \in Payloads : /\ Delivered(c)'[i - 1] < m /\ m < Delivered(c)'[i]
                                             /\ target[m] = RoomOf[c]) => i > SendCap
  BY <1>1 DEF GapInv, GapsOnlyWhenFull
<1>5. Delivered(c) \in Seq(Nat) /\ SendCap \in Nat /\ Payloads \subseteq Nat
  BY DeliveredType, HubAssumption DEF Payloads, HubAssumption
<1>6. MissedSince(c)
  BY DEF GapInv
<1>7. \A i \in DOMAIN Delivered(c) \ {1} :
         (\E m \in Payloads : /\ Delivered(c)[i - 1] < m /\ m < Delivered(c)[i]
                              /\ target[m] = RoomOf[c]) => i > SendCap
  BY DEF GapInv, GapsOnlyWhenFull
<1>8. Member(c)' <=> Member(c)
  BY <1>1, MemberUnchanged
<1>9. CASE Delivered(c)' = Delivered(c)
  <2>1. ASSUME Delivered(c) # <<>>, ~closed[c]
        PROVE  /\ Member(c)
               /\ \A m \in 1..n : Delivered(c)[Len(Delivered(c))] < m /\ target[m] = RoomOf[c]
                                    => Len(Delivered(c)) >= SendCap
    <3>1. /\ Member(c)
          /\ \A m \in 1..(n - 1) : Delivered(c)[Len(Delivered(c))] < m /\ target[m] = RoomOf[c]
                                    => Len(Delivered(c)) >= SendCap
      BY <1>4, <1>6, <2>1 DEF MissedSince
    <3>2. target[n] = RoomOf[c] => Len(Delivered(c)) >= SendCap
      BY <1>9, <3>1, NotServed DEF n
    <3>3. 1..n = 1..(n - 1) \cup {n} \/ n = 0
      BY <1>4
    <3> QED
      BY <3>1, <3>2, <3>3, <1>4
  <2>2. MissedSince(c)'
    BY <1>1, <1>4, <1>8, <1>9, <2>1 DEF MissedSince
  <2> QED
    BY <1>7, <1>9, <2>2
<1>10. CASE Delivered(c)' = Append(Delivered(c), n) /\ c \in Subscribers(target[n]) /\ target[n] = RoomOf[c]
  <2> DEFINE d == Delivered(c)
             e == Append(d, n)
  <2>1. /\ Len(d) \in Nat /\ Len(e) = Len(d) + 1 /\ e[Len(d) + 1] = n
        /\ DOMAIN d = 1..Len(d) /\ DOMAIN e = 1..(Len(d) + 1)
        /\ \A i \in 1..Len(d) : e[i] = d[i]
        /\ e # <<>>
    BY <1>4, <1>5
  <2>2. Member(c)
    BY <1>10 DEF Member
  <2>3. MissedSince(c)'
    <3>1. \A m \in 1..n : ~(n < m)
      BY <1>4
    <3> HIDE DEF e
    <3>2. Delivered(c)' = e
      BY <1>10 DEF e
    <3> QED
      BY <1>1, <1>4, <1>8, <2>1, <2>2, <3>1, <3>2 DEF MissedSince
  <2>4. ASSUME NEW i \in DOMAIN e \ {1}, NEW m \in Payloads, e[i - 1] < m, m < e[i],
               target[m] = RoomOf[c]
        PROVE  i > SendCap
    <3> HIDE DEF e
    <3>1. CASE i \in 1..Len(d)
      <4>1. i - 1 \in 1..Len(d)
        BY <2>1, <2>4, <3>1
      <4>2. e[i] = d[i] /\ e[i - 1] = d[i - 1]
        BY <2>1, <3>1, <4>1
      <4> QED
        BY <1>7, <2>1, <2>4, <3>1, <4>2
    <3>2. CASE i = Len(d) + 1
      <4>1. Len(d) \in 1..Len(d) /\ i - 1 = Len(d) /\ d # <<>>
        BY <2>1, <2>4, <3>2
      <4>2. d[Len(d)] < m /\ m < n
        BY <2>1, <2>4, <3>2, <4>1
      <4>3. ~closed[c]
        BY <2>2 DEF SubInv, Phase
      <4>4. m \in Dispatched
        BY <1>4, <1>5, <4>2, <4>1 DEF Payloads
      <4>5. Len(d) >= SendCap
        BY <1>6, <2>4, <4>1, <4>2, <4>3, <4>4 DEF MissedSince
      <4> QED
        BY <1>5, <2>1, <3>2, <4>5
    <3> QED
      BY <2>1, <3>1, <3>2
  <2> QED
    BY <1>10, <2>3, <2>4
<1>11. \/ Delivered(c)' = Delivered(c)
       \/ Delivered(c)' = Append(Delivered(c), n) /\ c \in Subscribers(target[n]) /\ target[n] = RoomOf[c]
  <2>1. \/ Delivered(c)' = Delivered(c)
        \/ Delivered(c)' = Append(Delivered(c), n) /\ target[n] = RoomOf[c]
    BY DeliveredAfterBroadcast DEF SubInv, n
  <2>2. ASSUME c \notin Subscribers(target[n]) PROVE Delivered(c)' = Delivered(c)
    BY <2>2 DEF TypeOK, TakeBroadcast, Deliver, Delivered, n
  <2> QED
    BY <2>1, <2>2
<1> QED
  BY <1>9, <1>10, <1>11

LEMMA GapStep ==
    TypeOK /\ SubInv /\ OrderInv /\ Waiting /\ GapInv /\ [Next]_vars => GapInv'
<1> SUFFICES ASSUME TypeOK, SubInv, OrderInv, Waiting, GapInv, [Next]_vars PROVE GapInv'
  OBVIOUS
<1>0. /\ broadcast \in Seq(Nat) /\ target \in Seq(Rooms) /\ Len(broadcast) \in Nat /\ Len(target) \in Nat
      /\ \A c \in Clients : Delivered(c) \in Seq(Nat)
  BY DeliveredType, HubAssumption DEF TypeOK, Payloads, HubAssumption
<1>1. ASSUME NEW r \in Rooms, LocalBroadcast(r) PROVE GapInv'
  <2>1. /\ target' = Append(target, r) /\ broadcast' = Append(broadcast, Len(target) + 1)
        /\ UNCHANGED <<rooms, closed>>
    BY <1>1, <1>0 DEF LocalBroadcast
  <2>2. /\ Len(target') = Len(target) + 1 /\ Len(broadcast') = Len(broadcast) + 1
        /\ \A m \in 1..Len(target) : target'[m] = target[m]
    BY <2>1, <1>0
  <2>3. Dispatched' = Dispatched /\ Dispatched \subseteq 1..Len(target)
    BY <2>2, <1>0 DEF Dispatched
  <2>4. \A c \in Clients : Delivered(c)' = Delivered(c)
    BY <1>1 DEF LocalBroadcast, Delivered
  <2>5. \A c \in Clients : MissedSince(c)'
    BY <2>1, <2>2, <2>3, <2>4, MemberUnchanged DEF GapInv, MissedSince
  <2>6. ASSUME NEW c \in Clients, NEW i \in DOMAIN Delivered(c), NEW m \in Payloads,
               m < Delivered(c)[i]
        PROVE  target'[m] = target[m]
    <3>1. Delivered(c)[i] <= Len(target) /\ Delivered(c)[i] \in Nat
      BY <1>0 DEF OrderInv, PipelineOrdered
    <3>2. m \in 1..Len(target)
      BY <2>6, <3>1, <1>0, HubAssumption DEF Payloads, HubAssumption
    <3> QED
      BY <3>2, <2>2
  <2>7. GapsOnlyWhenFull'
    BY <2>4, <2>6 DEF GapInv, GapsOnlyWhenFull
  <2> QED
    BY <2>5, <2>7 DEF GapInv
<1>2. CASE TakeBroadcast
  BY <1>2, GapBroadcast
<1>3. CASE /\ UNCHANGED <<broadcast, target>>
           /\ \A c \in Clients : /\ Delivered(c)' = Delivered(c)
                                 /\ closed[c] => closed'[c]
                                 /\ Member(c) => Member(c)' \/ closed'[c]
  BY <1>3 DEF GapInv, GapsOnlyWhenFull, MissedSince, Dispatched
<1> QED
  <2>1. ASSUME NEW c \in Clients, Register(c) \/ Unregister(c)
        PROVE  UNCHANGED <<broadcast, target, got, send, rooms, closed>>
    BY <2>1 DEF Register, Unregister
  <2>2. ASSUME NEW d \in Clients, Receive(d)
        PROVE  /\ UNCHANGED <<broadcast, target, rooms, closed>>
               /\ \A c \in Clients : Delivered(c)' = Delivered(c)
    BY <2>2, DeliveredAfterReceive DEF Receive, queues
  <2>3. Stop \/ TakeStop \/ UNCHANGED vars
          => UNCHANGED <<broadcast, target, got, send, rooms, closed>>
    BY DEF Stop, TakeStop, queues, vars
  <2>4. ASSUME UNCHANGED <<got, send>> PROVE \A c \in Clients : Delivered(c)' = Delivered(c)
    BY <2>4 DEF Delivered
  <2>5. ASSUME UNCHANGED <<broadcast, target, rooms, closed>>,
               \A c \in Clients : Delivered(c)' = Delivered(c)
        PROVE  GapInv'
    BY <1>3, <2>5, MemberUnchanged
  <2>6. ASSUME TakeRegister PROVE GapInv'
    <3> DEFINE d == Head(register)
    <3>1. /\ UNCHANGED <<broadcast, target, got, send, closed>> /\ d \in Clients
          /\ rooms' = WithClient(RoomOf[d], d)
      BY <2>6 DEF TypeOK, TakeRegister
    <3>2. \A c \in Clients : Member(c) => Member(c)'
      BY <3>1, MemberAfterWith
    <3> QED
      BY <1>3, <2>4, <3>1, <3>2
  <2>7. ASSUME TakeUnregister PROVE GapInv'
    <3> DEFINE d == Head(unregister)
    <3>1. UNCHANGED <<broadcast, target, got, send>> /\ d \in Clients
      BY <2>7 DEF TypeOK, TakeUnregister
    <3>2. CASE UNCHANGED <<rooms, closed>>
      BY <2>4, <2>5, <3>1, <3>2
    <3>3. CASE rooms' = WithoutClient(RoomOf[d], d) /\ closed' = [closed EXCEPT ![d] = TRUE]
      <4>1. \A c \in Clients : Member(c) => Member(c)' \/ c = d
        BY <3>1, <3>3, MemberAfterWithout
      <4>2. \A c \in Clients : (closed[c] => closed'[c]) /\ (c = d => closed'[c])
        BY <3>3 DEF TypeOK
      <4> QED
        BY <1>3, <2>4, <3>1, <4>1, <4>2
    <3> QED
      BY <2>7, <3>2, <3>3 DEF TakeUnregister, CloseSend
  <2> QED
    BY <1>1, <1>2, <2>1, <2>2, <2>3, <2>4, <2>5, <2>6, <2>7 DEF Next, Run

(* Between two payloads a connection was given, none of its room is        *)
(* missing unless SendCap payloads had been put in its buffer by then      *)
(* (hub.go:80-86).  What is lost before the first and after the last       *)
(* payload given is not constrained.                                       *)
THEOREM DroppedOnlyWhenFull == Spec => []GapsOnlyWhenFull
<1>1. Spec => [](TypeOK /\ SubInv /\ OrderInv /\ Waiting)
  BY TypeCorrect, SubInvInit, SubInvStep, OrderInvInit, OrderInvStep, WaitingInit, WaitingStep, PTL
     DEF Spec
<1>2. GapInv => GapsOnlyWhenFull
  BY DEF GapInv
<1> QED
  BY <1>1, <1>2, GapInit, GapStep, PTL DEF Spec

-----------------------------------------------------------------------------
(***************************************************************************)
(* A connection with its two goroutines implements the Hub's clients, so   *)
(* what is shown above of the Hub holds under the handler, too.            *)
(***************************************************************************)

HandlerSteps == {"idle", "accepted", "reading", "replying", "closing", "leaving", "done"}

(* How far a connection has come, in its handler, its caller and its conn. *)
Progress(c) ==
    /\ caller[c] = "left" => handler[c] = "done"
    /\ handler[c] \in {"leaving", "done"} => ctxDone[c]
    /\ handler[c] \in {"closing", "leaving", "done"} => conn[c] = "closed"

(* The payload in hand is the last one taken.                              *)
Written(c) ==
    /\ writer[c] \in {"none", "waiting"} => wire[c] = got[c]
    /\ writer[c] = "writing" =>
        got[c] # <<>> /\ wire[c] = SubSeq(got[c], 1, Len(got[c]) - 1)
    /\ writer[c] = "done" =>
        \/ wire[c] = got[c]
        \/ got[c] # <<>> /\ wire[c] = SubSeq(got[c], 1, Len(got[c]) - 1)

WsTypes ==
    /\ handler \in [Clients -> HandlerSteps]
    /\ writer \in [Clients -> {"none", "waiting", "writing", "done"}]
    /\ conn \in [Clients -> {"none", "open", "closed"}]
    /\ ctxDone \in [Clients -> BOOLEAN]
    /\ wire \in [Clients -> Seq(Payloads)]

WsInv == WsTypes /\ \A c \in Clients : Progress(c) /\ Written(c)

-----------------------------------------------------------------------------
LEMMA HubInit == WsInit => Init
BY DEF WsInit

LEMMA HubNext == [WsNext]_allVars => [Next]_vars
<1> SUFFICES ASSUME [WsNext]_allVars PROVE [Next]_vars
  OBVIOUS
<1>1. CASE UNCHANGED allVars
  BY <1>1 DEF allVars
<1>2. CASE HubStep
  BY <1>2 DEF HubStep, Next
<1>3. ASSUME NEW c \in Clients, HandlerStep(c) PROVE [Next]_vars
  BY <1>3 DEF HandlerStep, RegisterAndStart, SendError, ReadFails, Cancel,
     UnregisterAndReturn, Next
<1>4. ASSUME NEW c \in Clients, WriterStep(c) PROVE [Next]_vars
  BY <1>4 DEF WriterStep, TakePayload, Write, WriteFails, StopWriting, Next
<1>5. ASSUME NEW c \in Clients, PeerStep(c) PROVE [Next]_vars
  BY <1>5 DEF PeerStep, Accept, PeerGone, BadFrame
<1> QED
  BY <1>1, <1>2, <1>3, <1>4, <1>5 DEF WsNext

(* Every step of a connection is a step of Hub or leaves its variables     *)
(* alone, so what is proved of Hub holds of the running connections.       *)
LEMMA ConnectionsUseTheHub == WsSpec => Spec
BY HubInit, HubNext, PTL DEF WsSpec, Spec

-----------------------------------------------------------------------------
(* What a client of the Hub does moves no other.                           *)
LEMMA Untouched ==
    ASSUME NEW c \in Clients, Progress(c), Written(c),
           caller'[c] = caller[c], got'[c] = got[c],
           handler'[c] = handler[c], writer'[c] = writer[c], conn'[c] = conn[c],
           ctxDone'[c] = ctxDone[c], wire'[c] = wire[c]
    PROVE  Progress(c)' /\ Written(c)'
BY DEF Progress, Written

LEMMA WsInits == WsInit => WsInv
<1> SUFFICES ASSUME WsInit PROVE WsInv
  OBVIOUS
<1>1. WsTypes
  BY DEF WsInit, WsTypes, HandlerSteps
<1>2. \A c \in Clients : Progress(c) /\ Written(c)
  BY DEF WsInit, Init, Progress, Written
<1> QED
  BY <1>1, <1>2 DEF WsInv

LEMMA WsTypesStep == TypeOK /\ WsInv /\ [WsNext]_allVars => WsTypes'
<1> SUFFICES ASSUME TypeOK, WsInv, [WsNext]_allVars PROVE WsTypes'
  OBVIOUS
<1> USE DEF WsInv, WsTypes, HandlerSteps
<1>1. CASE UNCHANGED allVars
  BY <1>1 DEF allVars, wsVars
<1>2. CASE HubStep
  BY <1>2 DEF HubStep, wsVars
<1>3. ASSUME NEW c \in Clients, HandlerStep(c) PROVE WsTypes'
  <2>1. CASE RegisterAndStart(c)
    BY <2>1 DEF RegisterAndStart, HandlerGoes, WriterGoes
  <2>2. CASE SendError(c)
    BY <2>2 DEF SendError, HandlerGoes
  <2>3. CASE ReadFails(c)
    BY <2>3 DEF ReadFails, HandlerGoes
  <2>4. CASE Cancel(c)
    BY <2>4 DEF Cancel, HandlerGoes
  <2>5. CASE UnregisterAndReturn(c)
    BY <2>5 DEF UnregisterAndReturn, HandlerGoes
  <2> QED
    BY <1>3, <2>1, <2>2, <2>3, <2>4, <2>5 DEF HandlerStep
<1>4. ASSUME NEW c \in Clients, WriterStep(c) PROVE WsTypes'
  <2>1. CASE TakePayload(c)
    BY <2>1 DEF TakePayload, WriterGoes
  <2>2. CASE Write(c)
    <3>1. got[c] \in Seq(Payloads) /\ wire[c] \in Seq(Payloads) /\ got[c] # <<>>
      BY <2>2 DEF TypeOK, Write, WriterGoes, Written
    <3>2. got[c][Len(got[c])] \in Payloads
      BY <3>1
    <3>3. Append(wire[c], got[c][Len(got[c])]) \in Seq(Payloads)
      BY <3>1, <3>2
    <3>4. wire' \in [Clients -> Seq(Payloads)]
      BY <2>2, <3>3 DEF Write
    <3> QED
      BY <2>2, <3>4 DEF Write, WriterGoes
  <2>3. CASE WriteFails(c)
    BY <2>3 DEF WriteFails, WriterGoes
  <2>4. CASE StopWriting(c)
    BY <2>4 DEF StopWriting, WriterGoes
  <2> QED
    BY <1>4, <2>1, <2>2, <2>3, <2>4 DEF WriterStep
<1>5. ASSUME NEW c \in Clients, PeerStep(c) PROVE WsTypes'
  BY <1>5 DEF PeerStep, Accept, PeerGone, BadFrame, HandlerGoes
<1> QED
  BY <1>1, <1>2, <1>3, <1>4, <1>5 DEF WsNext

(* The hub's own steps leave the handlers and the write goroutines alone.  *)
LEMMA HubKeepsClients ==
    ASSUME HubStep PROVE UNCHANGED <<caller, got, wsVars>>
BY DEF HubStep, Run, TakeRegister, TakeUnregister, TakeBroadcast, TakeStop, Stop, LocalBroadcast

LEMMA PayloadInHand ==
    ASSUME NEW s \in Seq(Payloads), NEW x \in Payloads
    PROVE  /\ Append(s, x) # <<>>
           /\ SubSeq(Append(s, x), 1, Len(Append(s, x)) - 1) = s
<1> DEFINE t == Append(s, x)
<1>1. /\ t \in Seq(Payloads) /\ Len(t) = Len(s) + 1 /\ Len(s) \in Nat
      /\ \A i \in 1..Len(s) : t[i] = s[i]
  OBVIOUS
<1> HIDE DEF t
<1>2. t # <<>>
  BY <1>1
<1>3. SubSeq(t, 1, Len(s)) = s
  <2>1. Len(SubSeq(t, 1, Len(s))) = Len(s) /\ SubSeq(t, 1, Len(s)) \in Seq(Payloads)
    BY <1>1
  <2>2. \A i \in 1..Len(s) : SubSeq(t, 1, Len(s))[i] = s[i]
    BY <1>1
  <2> QED
    BY <2>1, <2>2
<1>4. Len(t) - 1 = Len(s)
  BY <1>1
<1> QED
  BY <1>2, <1>3, <1>4 DEF t

LEMMA PayloadWritten ==
    ASSUME NEW s \in Seq(Payloads), s # <<>>
    PROVE  Append(SubSeq(s, 1, Len(s) - 1), s[Len(s)]) = s
<1> DEFINE t == SubSeq(s, 1, Len(s) - 1)
           u == Append(t, s[Len(s)])
<1>1. Len(s) \in Nat /\ Len(s) # 0 /\ s[Len(s)] \in Payloads
  OBVIOUS
<1> HIDE DEF u
<1>2. /\ t \in Seq(Payloads) /\ Len(t) = Len(s) - 1
      /\ \A i \in 1..(Len(s) - 1) : t[i] = s[i]
  <2>1. Len(s) - 1 \in 0..Len(s)
    BY <1>1
  <2>2. Len(t) = Len(s) - 1
    <3> DEFINE n == Len(s) - 1
    <3>1. n \in Nat
      BY <2>1
    <3> HIDE DEF n
    <3>2. Len(SubSeq(s, 1, n)) = n
      BY <3>1
    <3> QED
      BY <3>2 DEF n, t
  <2>3. \A i \in 1..(Len(s) - 1) : s[i] \in Payloads /\ t[i] = s[i]
    BY <2>1
  <2>4. t \in Seq(Payloads)
    BY <2>1, <2>3
  <2> QED
    BY <2>2, <2>3, <2>4
<1> HIDE DEF t
<1> USE DEF u
<1>3. /\ u \in Seq(Payloads) /\ Len(u) = Len(s) /\ u[Len(s)] = s[Len(s)]
      /\ \A i \in 1..(Len(s) - 1) : u[i] = t[i]
  BY <1>1, <1>2
<1> HIDE DEF u
<1>4. \A i \in 1..Len(s) : u[i] = s[i]
  BY <1>1, <1>2, <1>3
<1>5. u = s
  BY <1>1, <1>3, <1>4
<1> QED
  BY <1>5 DEF u, t

LEMMA WsStep == TypeOK /\ WsInv /\ [WsNext]_allVars => WsInv'
<1> SUFFICES ASSUME TypeOK, WsInv, [WsNext]_allVars, NEW d \in Clients
             PROVE  Progress(d)' /\ Written(d)'
  BY WsTypesStep DEF WsInv
<1>0. /\ Progress(d) /\ Written(d) /\ WsTypes
      /\ caller \in [Clients -> {"new", "open", "left"}] /\ got \in [Clients -> Seq(Payloads)]
  BY DEF WsInv, TypeOK
<1>1. CASE UNCHANGED allVars
  BY <1>0, <1>1, Untouched DEF allVars, wsVars, vars
<1>2. CASE HubStep
  BY <1>0, <1>2, HubKeepsClients, Untouched DEF wsVars
<1>3. ASSUME NEW c \in Clients, HandlerStep(c), c # d PROVE Progress(d)' /\ Written(d)'
  <2>1. /\ caller'[d] = caller[d] /\ got'[d] = got[d] /\ handler'[d] = handler[d]
        /\ writer'[d] = writer[d] /\ conn'[d] = conn[d] /\ ctxDone'[d] = ctxDone[d]
        /\ wire'[d] = wire[d]
    BY <1>0, <1>3 DEF HandlerStep, RegisterAndStart, SendError, ReadFails, Cancel,
       UnregisterAndReturn, HandlerGoes, WriterGoes, Register, Unregister, WsTypes, vars
  <2> QED
    BY <1>0, <2>1, Untouched
<1>4. ASSUME NEW c \in Clients, WriterStep(c) \/ PeerStep(c), c # d
      PROVE  Progress(d)' /\ Written(d)'
  <2>1. /\ caller'[d] = caller[d] /\ got'[d] = got[d] /\ handler'[d] = handler[d]
        /\ writer'[d] = writer[d] /\ conn'[d] = conn[d] /\ ctxDone'[d] = ctxDone[d]
        /\ wire'[d] = wire[d]
    BY <1>0, <1>4 DEF WriterStep, TakePayload, Write, WriteFails, StopWriting, PeerStep,
       Accept, PeerGone, BadFrame, HandlerGoes, WriterGoes, Receive, WsTypes, vars
  <2> QED
    BY <1>0, <2>1, Untouched
<1>5. CASE HandlerStep(d)
  <2>1. CASE RegisterAndStart(d)
    BY <1>0, <2>1 DEF RegisterAndStart, HandlerGoes, WriterGoes, Register, Progress, Written, WsTypes
  <2>2. CASE SendError(d)
    BY <1>0, <2>2 DEF SendError, HandlerGoes, Progress, Written, WsTypes, vars
  <2>3. CASE ReadFails(d)
    BY <1>0, <2>3 DEF ReadFails, HandlerGoes, Progress, Written, WsTypes, vars
  <2>4. CASE Cancel(d)
    BY <1>0, <2>4 DEF Cancel, HandlerGoes, Progress, Written, WsTypes, vars
  <2>5. CASE UnregisterAndReturn(d)
    BY <1>0, <2>5 DEF UnregisterAndReturn, HandlerGoes, Unregister, Progress, Written, WsTypes
  <2> QED
    BY <1>5, <2>1, <2>2, <2>3, <2>4, <2>5 DEF HandlerStep
<1>6. CASE WriterStep(d)
  <2>1. CASE TakePayload(d)
    <3>1. /\ UNCHANGED <<caller, handler, conn, ctxDone, wire>> /\ wire[d] = got[d]
          /\ writer'[d] = "writing" /\ got'[d] = Append(got[d], Head(send[d]))
      BY <1>0, <2>1 DEF TakePayload, WriterGoes, Receive, WsTypes, Written
    <3>2. got[d] \in Seq(Payloads) /\ Head(send[d]) \in Payloads
      BY <1>0, <2>1 DEF TakePayload, Receive, TypeOK
    <3>3. got'[d] # <<>> /\ SubSeq(got'[d], 1, Len(got'[d]) - 1) = got[d]
      BY <3>1, <3>2, PayloadInHand
    <3> QED
      BY <1>0, <3>1, <3>3 DEF Progress, Written
  <2>2. CASE Write(d)
    <3>1. /\ UNCHANGED <<caller, got, handler, conn, ctxDone>> /\ writer'[d] = "waiting"
          /\ got[d] # <<>> /\ wire[d] = SubSeq(got[d], 1, Len(got[d]) - 1)
          /\ wire'[d] = Append(wire[d], got[d][Len(got[d])])
      BY <1>0, <2>2 DEF Write, WriterGoes, WsTypes, Written, vars
    <3>2. wire'[d] = got[d]
      BY <1>0, <3>1, PayloadWritten
    <3> QED
      BY <1>0, <3>1, <3>2 DEF Progress, Written
  <2>3. CASE WriteFails(d)
    BY <1>0, <2>3 DEF WriteFails, WriterGoes, Progress, Written, WsTypes, vars
  <2>4. CASE StopWriting(d)
    BY <1>0, <2>4 DEF StopWriting, WriterGoes, Progress, Written, WsTypes, vars
  <2> QED
    BY <1>6, <2>1, <2>2, <2>3, <2>4 DEF WriterStep
<1>7. CASE PeerStep(d)
  BY <1>0, <1>7 DEF PeerStep, Accept, PeerGone, BadFrame, HandlerGoes, Progress, Written,
     WsTypes, HandlerSteps, vars
<1> QED
  BY <1>1, <1>2, <1>3, <1>4, <1>5, <1>6, <1>7 DEF WsNext

LEMMA WsInvariant == WsSpec => [](TypeOK /\ WsInv)
<1>1. WsSpec => []TypeOK
  BY ConnectionsUseTheHub, TypeCorrect, PTL
<1>2. WsSpec => []WsInv
  BY <1>1, WsInits, WsStep, PTL DEF WsSpec
<1> QED
  BY <1>1, <1>2, PTL

-----------------------------------------------------------------------------
(* The variables of the Hub and of its connections keep their types.       *)
THEOREM WsTypeCorrect == WsSpec => []WsTypeOK
<1>1. TypeOK /\ WsInv => WsTypeOK
  BY DEF WsInv, WsTypes, HandlerSteps, WsTypeOK
<1> QED
  BY <1>1, WsInvariant, PTL

(* Run closes the channel of a connection that is closed and cancelled     *)
(* only (handler.go:65, 69, 76).                                           *)
THEOREM ClosedAfterCancel == WsSpec => []CloseAfterCancel
<1>1. WsInv /\ ClosedOnlyAfterLeave => CloseAfterCancel
  BY DEF WsInv, Progress, ClosedOnlyAfterLeave, CloseAfterCancel
<1>2. WsSpec => []ClosedOnlyAfterLeave
  BY ConnectionsUseTheHub, ChannelClosedOnlyAfterLeave, PTL
<1> QED
  BY <1>1, <1>2, WsInvariant, PTL

(* The wire carries what writeLoop took, in order and without gaps         *)
(* (handler.go:96-117).                                                    *)
THEOREM WriterLosesNothing == WsSpec => []NothingLostInWriter
<1>1. WsInv => NothingLostInWriter
  <2> SUFFICES ASSUME WsInv, NEW c \in Clients
               PROVE  \/ wire[c] = got[c]
                      \/ /\ writer[c] \in {"writing", "done"} /\ got[c] # <<>>
                         /\ wire[c] = SubSeq(got[c], 1, Len(got[c]) - 1)
    BY DEF NothingLostInWriter
  <2>1. Written(c) /\ writer[c] \in {"none", "waiting", "writing", "done"}
    BY DEF WsInv, WsTypes
  <2> QED
    BY <2>1 DEF Written
<1> QED
  BY <1>1, WsInvariant, PTL
=============================================================================
