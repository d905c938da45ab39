--------------------------- MODULE RpcPathProofs ---------------------------
(***************************************************************************)
(* Proofs about RpcPath, for any number of calls and users.                *)
(***************************************************************************)
EXTENDS RpcPath, TLAPS

Rpcs == ChatRpcs \cup UserRpcs
Errors ==
    {"ErrNotFound", "ErrAlreadyMember", "ErrNotMember", "ErrInvalidArgument",
     "ErrInvalidCursor", "ErrAlreadyExists", "ErrInvalidCreds", "ErrTokenInvalid"}
Statements == [writes : BOOLEAN, refuses : SUBSET Errors]

LEMMA RoomNames ==
    RoomRpcs = {"CreateRoom", "GetRoom", "ListRooms", "SearchRooms", "JoinRoom",
                "LeaveRoom", "ListRoomMembers"}
BY DEF RoomRpcs, RoomProgram

LEMMA MessageNames == MessageRpcs = {"SendMessage", "GetMessages"}
BY DEF MessageRpcs, MessageProgram

LEMMA UserNames ==
    UserRpcs = {"Register", "Login", "Refresh", "GetMe", "UpdateMe", "GetUser", "BatchGetUsers"}
BY DEF UserRpcs, UserProgram

(* What the table of programs says of one program.                         *)
Fits(program, rpc) ==
    /\ Len(program) \in 1..4
    /\ \A k \in 1..Len(program) :
        /\ program[k].writes \in BOOLEAN
        /\ program[k].refuses \subseteq Errors
        /\ \A j \in 1..(k - 1) : \A e \in program[k].refuses :
            program[j].writes => rpc = "CreateRoom" /\ e = "ErrAlreadyMember"

LEMMA Unit == ASSUME NEW a, NEW rpc, a.writes \in BOOLEAN, a.refuses \subseteq Errors
              PROVE  Fits(<<a>>, rpc)
BY DEF Fits

LEMMA Pair ==
    ASSUME NEW a, NEW b, NEW rpc,
           a.writes \in BOOLEAN, a.refuses \subseteq Errors,
           b.writes \in BOOLEAN, b.refuses \subseteq Errors,
           a.writes => \A e \in b.refuses : rpc = "CreateRoom" /\ e = "ErrAlreadyMember"
    PROVE  Fits(<<a, b>>, rpc)
<1> DEFINE s == <<a, b>>
<1>1. Len(s) = 2 /\ s[1] = a /\ s[2] = b
  OBVIOUS
<1> HIDE DEF s
<1>2. \A k \in 1..2 : k = 1 \/ k = 2
  OBVIOUS
<1>3. Fits(s, rpc)
  BY <1>1, <1>2 DEF Fits
<1> QED
  BY <1>3 DEF s

LEMMA OneRead == ASSUME NEW E \in SUBSET Errors, NEW rpc PROVE Fits(<<Read(E)>>, rpc)
<1> DEFINE a == Read(E)
<1>1. a.writes \in BOOLEAN /\ a.refuses \subseteq Errors
  BY DEF Read
<1> HIDE DEF a
<1>2. Fits(<<a>>, rpc)
  BY <1>1, Unit
<1> QED
  BY <1>2 DEF a

LEMMA OneWrite == ASSUME NEW E \in SUBSET Errors, NEW rpc PROVE Fits(<<Write(E)>>, rpc)
<1> DEFINE a == Write(E)
<1>1. a.writes \in BOOLEAN /\ a.refuses \subseteq Errors
  BY DEF Write
<1> HIDE DEF a
<1>2. Fits(<<a>>, rpc)
  BY <1>1, Unit
<1> QED
  BY <1>2 DEF a

LEMMA TwoReads ==
    ASSUME NEW E \in SUBSET Errors, NEW F \in SUBSET Errors, NEW rpc
    PROVE  Fits(<<Read(E), Read(F)>>, rpc)
<1> DEFINE a == Read(E)
           b == Read(F)
<1>1. a.writes \in BOOLEAN /\ a.refuses \subseteq Errors
  BY DEF Read
<1>2. b.writes \in BOOLEAN /\ b.refuses \subseteq Errors
  BY DEF Read
<1>3. a.writes => \A e \in b.refuses : rpc = "CreateRoom" /\ e = "ErrAlreadyMember"
  BY DEF Read
<1> HIDE DEF a, b
<1>4. Fits(<<a, b>>, rpc)
  BY <1>1, <1>2, <1>3, Pair
<1> QED
  BY <1>4 DEF a, b

LEMMA ReadThenWrite ==
    ASSUME NEW E \in SUBSET Errors, NEW F \in SUBSET Errors, NEW rpc
    PROVE  Fits(<<Read(E), Write(F)>>, rpc)
<1> DEFINE a == Read(E)
           b == Write(F)
<1>1. a.writes \in BOOLEAN /\ a.refuses \subseteq Errors
  BY DEF Read
<1>2. b.writes \in BOOLEAN /\ b.refuses \subseteq Errors
  BY DEF Write
<1>3. a.writes => \A e \in b.refuses : rpc = "CreateRoom" /\ e = "ErrAlreadyMember"
  BY DEF Read
<1> HIDE DEF a, b
<1>4. Fits(<<a, b>>, rpc)
  BY <1>1, <1>2, <1>3, Pair
<1> QED
  BY <1>4 DEF a, b

LEMMA TwoWrites ==
    Fits(<<Write({"ErrInvalidArgument"}), Write({"ErrAlreadyMember"})>>, "CreateRoom")
<1> DEFINE a == Write({"ErrInvalidArgument"})
           b == Write({"ErrAlreadyMember"})
<1>1. a.writes \in BOOLEAN /\ a.refuses \subseteq Errors
  BY DEF Write, Errors
<1>2. b.writes \in BOOLEAN /\ b.refuses \subseteq Errors
  BY DEF Write, Errors
<1>3. a.writes => \A e \in b.refuses : "CreateRoom" = "CreateRoom" /\ e = "ErrAlreadyMember"
  BY DEF Write
<1> HIDE DEF a, b
<1>4. Fits(<<a, b>>, "CreateRoom")
  BY <1>1, <1>2, <1>3, Pair
<1> QED
  BY <1>4 DEF a, b

LEMMA Programs == ASSUME NEW rpc \in Rpcs PROVE Fits(Program(rpc), rpc)
<1>1. CASE rpc \in RoomRpcs
  <2>1. Program(rpc) = RoomProgram[rpc]
    BY <1>1 DEF Program
  <2>2. CASE rpc = "CreateRoom"
    <3>1. Program(rpc) = <<Write({"ErrInvalidArgument"}), Write({"ErrAlreadyMember"})>>
      BY <2>1, <2>2 DEF RoomProgram
    <3> QED
      BY <3>1, <2>2, TwoWrites
  <2>3. CASE rpc = "GetRoom" \/ rpc = "ListRoomMembers"
    <3>1. Program(rpc) = <<Read({"ErrNotFound"}), Read({})>>
      BY <2>1, <2>3 DEF RoomProgram
    <3>2. {"ErrNotFound"} \in SUBSET Errors /\ {} \in SUBSET Errors
      BY DEF Errors
    <3>3. Fits(<<Read({"ErrNotFound"}), Read({})>>, rpc)
      BY <3>2, TwoReads
    <3> QED
      BY <3>1, <3>3
  <2>4. CASE rpc = "ListRooms" \/ rpc = "SearchRooms"
    <3>1. Program(rpc) = <<Read({})>>
      BY <2>1, <2>4 DEF RoomProgram
    <3>2. {} \in SUBSET Errors
      BY DEF Errors
    <3>3. Fits(<<Read({})>>, rpc)
      BY <3>2, OneRead
    <3> QED
      BY <3>1, <3>3
  <2>5. CASE rpc = "JoinRoom"
    <3>1. Program(rpc) = <<Read({"ErrNotFound"}), Write({})>>
      BY <2>1, <2>5 DEF RoomProgram
    <3>2. {"ErrNotFound"} \in SUBSET Errors /\ {} \in SUBSET Errors
      BY DEF Errors
    <3>3. Fits(<<Read({"ErrNotFound"}), Write({})>>, rpc)
      BY <3>2, ReadThenWrite
    <3> QED
      BY <3>1, <3>3
  <2>6. CASE rpc = "LeaveRoom"
    <3>1. Program(rpc) = <<Write({"ErrNotMember"})>>
      BY <2>1, <2>6 DEF RoomProgram
    <3>2. {"ErrNotMember"} \in SUBSET Errors
      BY DEF Errors
    <3>3. Fits(<<Write({"ErrNotMember"})>>, rpc)
      BY <3>2, OneWrite
    <3> QED
      BY <3>1, <3>3
  <2> QED
    BY <1>1, RoomNames, <2>2, <2>3, <2>4, <2>5, <2>6
<1>2. CASE rpc \in MessageRpcs
  <2>0. rpc \notin RoomRpcs
    BY <1>2, RoomNames, MessageNames
  <2>1. Program(rpc) = MessageProgram[rpc]
    BY <1>2, <2>0 DEF Program
  <2>2. CASE rpc = "SendMessage"
    <3>1. Program(rpc) = <<Read({"ErrNotMember"}), Write({"ErrInvalidArgument"})>>
      BY <2>1, <2>2 DEF MessageProgram
    <3>2. {"ErrNotMember"} \in SUBSET Errors /\ {"ErrInvalidArgument"} \in SUBSET Errors
      BY DEF Errors
    <3>3. Fits(<<Read({"ErrNotMember"}), Write({"ErrInvalidArgument"})>>, rpc)
      BY <3>2, ReadThenWrite
    <3> QED
      BY <3>1, <3>3
  <2>3. CASE rpc = "GetMessages"
    <3>1. Program(rpc) =
            <<Read({"ErrNotMember"}), Read({"ErrInvalidArgument", "ErrInvalidCursor"})>>
      BY <2>1, <2>3 DEF MessageProgram
    <3>2. {"ErrNotMember"} \in SUBSET Errors /\ {"ErrInvalidArgument", "ErrInvalidCursor"} \in SUBSET Errors
      BY DEF Errors
    <3>3. Fits(<<Read({"ErrNotMember"}), Read({"ErrInvalidArgument", "ErrInvalidCursor"})>>, rpc)
      BY <3>2, TwoReads
    <3> QED
      BY <3>1, <3>3
  <2> QED
    BY <1>2, MessageNames, <2>2, <2>3
<1>3. CASE rpc \in UserRpcs
  <2>0. rpc \notin RoomRpcs /\ rpc \notin MessageRpcs
    BY <1>3, RoomNames, MessageNames, UserNames
  <2>1. Program(rpc) = UserProgram[rpc]
    BY <1>3, <2>0 DEF Program
  <2>2. CASE rpc = "Register"
    <3>1. Program(rpc) = <<Write({"ErrInvalidCreds", "ErrAlreadyExists"})>>
      BY <2>1, <2>2 DEF UserProgram
    <3>2. {"ErrInvalidCreds", "ErrAlreadyExists"} \in SUBSET Errors
      BY DEF Errors
    <3>3. Fits(<<Write({"ErrInvalidCreds", "ErrAlreadyExists"})>>, rpc)
      BY <3>2, OneWrite
    <3> QED
      BY <3>1, <3>3
  <2>3. CASE rpc = "Login"
    <3>1. Program(rpc) = <<Read({"ErrInvalidCreds"}), Write({})>>
      BY <2>1, <2>3 DEF UserProgram
    <3>2. {"ErrInvalidCreds"} \in SUBSET Errors /\ {} \in SUBSET Errors
      BY DEF Errors
    <3>3. Fits(<<Read({"ErrInvalidCreds"}), Write({})>>, rpc)
      BY <3>2, ReadThenWrite
    <3> QED
      BY <3>1, <3>3
  <2>4. CASE rpc = "Refresh"
    <3> DEFINE s == <<Read({"ErrTokenInvalid"}), Write({}), Read({}), Write({})>>
    <3>1. Program(rpc) = s
      BY <2>1, <2>4 DEF UserProgram
    <3>2. Len(s) = 4 /\ s[1] = Read({"ErrTokenInvalid"}) /\ s[2] = Write({})
          /\ s[3] = Read({}) /\ s[4] = Write({})
      OBVIOUS
    <3>3. /\ Read({"ErrTokenInvalid"}).writes \in BOOLEAN
          /\ Read({"ErrTokenInvalid"}).refuses \subseteq Errors
          /\ Write({}).writes \in BOOLEAN /\ Write({}).refuses = {}
          /\ Read({}).writes \in BOOLEAN /\ Read({}).refuses = {}
      BY DEF Read, Write, Errors
    <3> HIDE DEF s
    <3>4. \A k \in 1..4 : k = 1 \/ k = 2 \/ k = 3 \/ k = 4
      OBVIOUS
    <3>5. \A k \in 2..4 : s[k].refuses = {}
      <4>1. s[2].refuses = {} /\ s[3].refuses = {} /\ s[4].refuses = {}
        BY <3>2, <3>3
      <4> QED
        BY <4>1
    <3>6. \A k \in 1..4 : s[k].writes \in BOOLEAN /\ s[k].refuses \subseteq Errors
      <4>1. s[1].writes \in BOOLEAN /\ s[1].refuses \subseteq Errors
        BY <3>2, <3>3
      <4>2. s[2].writes \in BOOLEAN /\ s[3].writes \in BOOLEAN /\ s[4].writes \in BOOLEAN
        BY <3>2, <3>3
      <4> QED
        BY <3>4, <3>5, <4>1, <4>2
    <3>7. \A k \in 1..4 : \A j \in 1..(k - 1) : k \in 2..4
      OBVIOUS
    <3>8. Fits(s, rpc)
      BY <3>2, <3>5, <3>6, <3>7 DEF Fits
    <3> QED
      BY <3>1, <3>8
  <2>5. CASE rpc = "GetMe" \/ rpc = "GetUser"
    <3>1. Program(rpc) = <<Read({"ErrNotFound"})>>
      BY <2>1, <2>5 DEF UserProgram
    <3>2. {"ErrNotFound"} \in SUBSET Errors
      BY DEF Errors
    <3>3. Fits(<<Read({"ErrNotFound"})>>, rpc)
      BY <3>2, OneRead
    <3> QED
      BY <3>1, <3>3
  <2>6. CASE rpc = "UpdateMe"
    <3>1. Program(rpc) = <<Read({"ErrNotFound"}), Write({})>>
      BY <2>1, <2>6 DEF UserProgram
    <3>2. {"ErrNotFound"} \in SUBSET Errors /\ {} \in SUBSET Errors
      BY DEF Errors
    <3>3. Fits(<<Read({"ErrNotFound"}), Write({})>>, rpc)
      BY <3>2, ReadThenWrite
    <3> QED
      BY <3>1, <3>3
  <2>7. CASE rpc = "BatchGetUsers"
    <3>1. Program(rpc) = <<Read({})>>
      BY <2>1, <2>7 DEF UserProgram
    <3>2. {} \in SUBSET Errors
      BY DEF Errors
    <3>3. Fits(<<Read({})>>, rpc)
      BY <3>2, OneRead
    <3> QED
      BY <3>1, <3>3
  <2> QED
    BY <1>3, UserNames, <2>2, <2>3, <2>4, <2>5, <2>6, <2>7
<1> QED
  BY <1>1, <1>2, <1>3 DEF Rpcs, ChatRpcs

(* An error becomes a refusal or Internal.                                 *)
LEMMA Codes ==
    ASSUME NEW rpc \in Rpcs, NEW e \in Errors
    PROVE  Code(rpc, e) \in Refusals \cup {"Internal"}
BY DEF Code, RoomCode, MessageCode, UserCode, Refusals

LEMMA MissingCodes == ASSUME NEW rpc \in Rpcs PROVE Missing(rpc) \in Refusals
BY RoomNames, MessageNames DEF Missing, Code, RoomCode, UserCode, Refusals

-----------------------------------------------------------------------------
(* The inductive invariant: what holds of each hop by itself.              *)

HopOK(h) ==
    /\ stage[h] = "idle" => request[h] = NoRequest
    /\ stage[h] # "idle" => request[h].rpc \in Rpcs
    /\ stage[h] \in {"idle", "sent"} => h \notin wrote
    /\ stage[h] = "serving" =>
        /\ at[h] \in 1..Len(Program(request[h].rpc))
        /\ h \in wrote => \E j \in 1..(at[h] - 1) : Program(request[h].rpc)[j].writes
    /\ stage[h] # "done" => code[h] \in {"none", "Lost"}
    /\ code[h] \in Refusals /\ h \in wrote =>
        request[h].rpc = "CreateRoom" /\ code[h] = "AlreadyExists"

IInv == TypeOK /\ \A h \in Hops : HopOK(h)

Answers == {"OK", "Internal"} \cup Refusals

(* No other hop notices.                                                   *)
Untouched(g) ==
    /\ request'[g] = request[g] /\ stage'[g] = stage[g] /\ at'[g] = at[g]
    /\ g \in wrote' <=> g \in wrote
    /\ code'[g] = code[g]

LEMMA OtherHops == ASSUME NEW g, HopOK(g), Untouched(g) PROVE HopOK(g)'
BY DEF HopOK, Untouched

LEMMA HopNames == ASSUME NEW p \in Calls PROVE Outer(p) \in Hops /\ Inner(p) \in Hops
BY DEF Hops, Outer, Inner

(* What a statement leaves in the table, whether it succeeds or not.       *)
LEMMA StatementOfProgram ==
    ASSUME IInv, NEW h \in Hops, stage[h] = "serving"
    PROVE  /\ Statement(h).writes \in BOOLEAN
           /\ Statement(h).refuses \subseteq Errors
           /\ h \in wrote =>
                \A e \in Statement(h).refuses :
                    request[h].rpc = "CreateRoom" /\ e = "ErrAlreadyMember"
           /\ Len(Program(request[h].rpc)) \in 1..4
<1> DEFINE program == Program(request[h].rpc)
<1>1. request[h].rpc \in Rpcs /\ at[h] \in 1..Len(program)
  BY DEF IInv, HopOK
<1>2. Fits(program, request[h].rpc)
  BY <1>1, Programs
<1>3. h \in wrote => \E j \in 1..(at[h] - 1) : program[j].writes
  BY DEF IInv, HopOK
<1>4. Statement(h) = program[at[h]]
  BY DEF Statement
<1> HIDE DEF program
<1>5. Len(program) \in 1..4
  BY <1>2 DEF Fits
<1>6. program[at[h]].writes \in BOOLEAN /\ program[at[h]].refuses \subseteq Errors
  BY <1>1, <1>2 DEF Fits
<1>7. ASSUME h \in wrote
      PROVE  \A e \in program[at[h]].refuses :
                request[h].rpc = "CreateRoom" /\ e = "ErrAlreadyMember"
  BY <1>1, <1>2, <1>3, <1>7 DEF Fits
<1> QED
  BY <1>4, <1>5, <1>6, <1>7 DEF program

(* The hops of others are in wrote as before.                              *)
Marked(h) == wrote' \subseteq Hops /\ \A g \in Hops : g # h => (g \in wrote' <=> g \in wrote)

LEMMA Commits ==
    ASSUME IInv, NEW h \in Hops, Commit(h) \/ UNCHANGED wrote
    PROVE  Marked(h)
BY DEF IInv, TypeOK, Commit, Marked

(* The end of a handler, with an answer that says the truth about wrote.   *)
LEMMA Finishes ==
    ASSUME IInv, NEW h \in Hops, NEW c \in Answers, Finish(h, c),
           stage[h] \in {"sent", "serving", "enriching"},
           UNCHANGED <<request, at>>, Marked(h),
           c \in Refusals /\ h \in wrote' =>
                request[h].rpc = "CreateRoom" /\ c = "AlreadyExists"
    PROVE  IInv'
<1>1. TypeOK /\ \A g \in Hops : HopOK(g)
  BY DEF IInv
<1>2. /\ stage' = [stage EXCEPT ![h] = "done"] /\ stage'[h] = "done"
      /\ \A g \in Hops : g # h => stage'[g] = stage[g]
  BY <1>1 DEF Finish, TypeOK
<1>3. /\ code[h] \in {"none", "Lost"}
      /\ code'[h] = (IF code[h] = "none" THEN c ELSE code[h])
      /\ \A g \in Hops : g # h => code'[g] = code[g]
  BY <1>1 DEF Finish, TypeOK, HopOK
<1>4. TypeOK'
  <2>1. stage' \in [Hops -> {"idle", "sent", "serving", "enriching", "done"}]
    BY <1>1, <1>2 DEF TypeOK
  <2>2. code' \in [Hops -> {"none", "Lost", "OK", "Internal"} \cup Refusals]
    BY <1>1 DEF TypeOK, Finish, Answers
  <2> QED
    BY <1>1, <2>1, <2>2 DEF TypeOK, Marked
<1>5. ASSUME NEW g \in Hops, g # h PROVE HopOK(g)'
  BY <1>1, <1>2, <1>3, <1>5, OtherHops DEF Untouched, Marked
<1>6. HopOK(h)'
  <2>1. request[h].rpc \in Rpcs
    BY <1>1 DEF HopOK
  <2>2. code'[h] \in Refusals => code'[h] = c
    BY <1>3 DEF Refusals
  <2> QED
    BY <1>2, <2>1, <2>2 DEF HopOK
<1> QED
  BY <1>4, <1>5, <1>6 DEF IInv

-----------------------------------------------------------------------------
LEMMA Begins ==
    ASSUME IInv, NEW h \in Hops, NEW r \in Requests, Invoke(h, r), r.rpc \in Rpcs
    PROVE  IInv'
<1>1. TypeOK /\ \A g \in Hops : HopOK(g)
  BY DEF IInv
<1>2. /\ stage'[h] = "sent" /\ stage[h] = "idle" /\ request'[h] = r
      /\ \A g \in Hops : g # h => stage'[g] = stage[g] /\ request'[g] = request[g]
      /\ UNCHANGED <<at, wrote, code>>
  BY <1>1 DEF Invoke, TypeOK
<1>3. TypeOK'
  BY <1>1 DEF Invoke, TypeOK
<1>4. ASSUME NEW g \in Hops, g # h PROVE HopOK(g)'
  BY <1>1, <1>2, <1>4, OtherHops DEF Untouched
<1>5. HopOK(h)'
  BY <1>1, <1>2 DEF HopOK, Refusals
<1> QED
  BY <1>3, <1>4, <1>5 DEF IInv

LEMMA Initially == Init => IInv
<1> SUFFICES ASSUME Init PROVE IInv
  OBVIOUS
<1>1. TypeOK
  BY DEF Init, TypeOK, Requests, NoRequest
<1>2. \A h \in Hops : HopOK(h)
  BY DEF Init, HopOK, NoRequest, Refusals
<1> QED
  BY <1>1, <1>2 DEF IInv

LEMMA SomeRpc ==
    /\ \A rpc \in ChatRpcs \cup UserRpcs : rpc \in Rpcs
    /\ "SendMessage" \in Rpcs /\ "BatchGetUsers" \in Rpcs
BY MessageNames, UserNames DEF Rpcs, ChatRpcs

LEMMA FromOutside ==
    ASSUME IInv, NEW p \in Calls,
           NEW rpc \in Rpcs, NEW u \in Users \cup {NoUser}, NEW s \in Users \cup {NoUser},
           Invoke(Outer(p), [rpc |-> rpc, user |-> u, sender |-> s])
    PROVE  IInv'
<1> DEFINE r == [rpc |-> rpc, user |-> u, sender |-> s]
<1>1. r \in Requests /\ r.rpc = rpc
  BY DEF Requests, Rpcs
<1> HIDE DEF r
<1>2. Invoke(Outer(p), r)
  BY DEF r
<1> QED
  BY <1>1, <1>2, HopNames, Begins

LEMMA GivingUp == ASSUME IInv, NEW h \in Hops, GiveUp(h) PROVE IInv'
<1>1. TypeOK /\ \A g \in Hops : HopOK(g)
  BY DEF IInv
<1>2. code'[h] = "Lost" /\ \A g \in Hops : g # h => code'[g] = code[g]
  BY <1>1 DEF GiveUp, TypeOK
<1>3. TypeOK'
  BY <1>1 DEF GiveUp, TypeOK
<1>4. ASSUME NEW g \in Hops, g # h PROVE HopOK(g)'
  BY <1>1, <1>2, <1>4, OtherHops DEF GiveUp, Untouched
<1>5. HopOK(h)'
  BY <1>1, <1>2 DEF GiveUp, HopOK, Refusals
<1> QED
  BY <1>3, <1>4, <1>5 DEF IInv

(* A step that leaves the hop in the hands of its server.                  *)
LEMMA GoesOn ==
    ASSUME IInv, NEW h \in Hops, stage[h] # "idle", stage[h] # "done",
           NEW to \in {"serving", "enriching"}, stage' = [stage EXCEPT ![h] = to],
           at' \in [Hops -> 0..4], \A g \in Hops : g # h => at'[g] = at[g],
           UNCHANGED <<request, code>>, Marked(h),
           to = "serving" =>
                /\ at'[h] \in 1..Len(Program(request[h].rpc))
                /\ h \in wrote' => \E j \in 1..(at'[h] - 1) : Program(request[h].rpc)[j].writes
    PROVE  IInv'
<1>1. TypeOK /\ \A g \in Hops : HopOK(g)
  BY DEF IInv
<1>2. stage'[h] = to /\ \A g \in Hops : g # h => stage'[g] = stage[g]
  BY <1>1 DEF TypeOK
<1>3. TypeOK'
  BY <1>1 DEF TypeOK, Marked
<1>4. ASSUME NEW g \in Hops, g # h PROVE HopOK(g)'
  BY <1>1, <1>2, <1>4, OtherHops DEF Untouched, Marked
<1>5. HopOK(h)'
  BY <1>1, <1>2 DEF HopOK, Refusals
<1> QED
  BY <1>3, <1>4, <1>5 DEF IInv

LEMMA Undecoded == ASSUME IInv, NEW h \in Hops, DecodeFails(h) PROVE IInv'
<1>1. stage[h] = "sent" /\ Finish(h, "Internal") /\ UNCHANGED <<request, at, wrote>>
  BY DEF DecodeFails
<1>2. "Internal" \in Answers /\ "Internal" \notin Refusals
  BY DEF Answers, Refusals
<1> QED
  BY <1>1, <1>2, Commits, Finishes

LEMMA Refusing == ASSUME IInv, NEW h \in Hops, Refuse(h) PROVE IInv'
<1>1. request[h].rpc \in Rpcs /\ h \notin wrote /\ stage[h] = "sent"
  BY DEF IInv, HopOK, Refuse
<1>2. PICK c \in Answers : Finish(h, c)
  <2>1. Missing(request[h].rpc) \in Answers /\ "PermissionDenied" \in Answers
    BY <1>1, MissingCodes DEF Answers, Refusals
  <2> QED
    BY <2>1 DEF Refuse
<1>3. UNCHANGED <<request, at, wrote>>
  BY DEF Refuse
<1> QED
  BY <1>1, <1>2, <1>3, Commits, Finishes

LEMMA Serving == ASSUME IInv, NEW h \in Hops, Serve(h) PROVE IInv'
<1>1. request[h].rpc \in Rpcs /\ h \notin wrote /\ stage[h] = "sent"
  BY DEF IInv, HopOK, Serve
<1> DEFINE n == Len(Program(request[h].rpc))
<1>2. n \in 1..4
  BY <1>1, Programs DEF Fits
<1>3. at' \in [Hops -> 0..4] /\ at'[h] = 1 /\ \A g \in Hops : g # h => at'[g] = at[g]
  BY DEF Serve, IInv, TypeOK
<1> DEFINE to == "serving"
<1>4. /\ to \in {"serving", "enriching"} /\ stage' = [stage EXCEPT ![h] = to]
      /\ UNCHANGED <<request, code, wrote>>
  BY DEF Serve
<1> HIDE DEF n, to
<1>5. at'[h] \in 1..n
  BY <1>2, <1>3
<1>6. at'[h] \in 1..Len(Program(request[h].rpc))
  BY <1>5 DEF n
<1> QED
  BY <1>1, <1>3, <1>4, <1>6, Commits, GoesOn

LEMMA Executing ==
    ASSUME IInv, NEW h \in Hops, Executes(h)
    PROVE  Marked(h) /\ (h \in wrote' => h \in wrote \/ Statement(h).writes)
<1>1. Commit(h) \/ UNCHANGED wrote
  BY DEF Executes
<1> QED
  BY <1>1, Commits DEF Executes

LEMMA ToNextStatement == ASSUME IInv, NEW h \in Hops, NextStatement(h) PROVE IInv'
<1> DEFINE program == Program(request[h].rpc)
           n == Len(program)
<1>1. stage[h] = "serving" /\ Executes(h) /\ at[h] # n
  BY DEF NextStatement, Executes, LastStatement
<1>2. /\ n \in 1..4 /\ at[h] \in 1..n
      /\ h \in wrote => \E j \in 1..(at[h] - 1) : program[j].writes
      /\ Statement(h) = program[at[h]]
  BY <1>1, StatementOfProgram DEF IInv, HopOK, Statement
<1>3. /\ at \in [Hops -> 0..4] /\ at' = [at EXCEPT ![h] = @ + 1]
      /\ stage \in [Hops -> {"idle", "sent", "serving", "enriching", "done"}]
      /\ UNCHANGED <<request, stage, code>>
  BY DEF IInv, TypeOK, NextStatement
<1>4. Marked(h) /\ (h \in wrote' => h \in wrote \/ program[at[h]].writes)
  BY <1>1, <1>2, Executing
<1> HIDE DEF program, n
<1>5. at' \in [Hops -> 0..4] /\ at'[h] = at[h] + 1 /\ \A g \in Hops : g # h => at'[g] = at[g]
  <2>1. at[h] + 1 \in 0..4 /\ at'[h] = at[h] + 1
    BY <1>1, <1>2, <1>3
  <2> QED
    BY <1>3, <2>1
<1>6. at'[h] \in 1..n
  BY <1>1, <1>2, <1>5
<1>7. h \in wrote' => \E j \in 1..(at'[h] - 1) : program[j].writes
  <2>1. CASE h \in wrote
    <3>1. PICK j \in 1..(at[h] - 1) : program[j].writes
      BY <1>2, <2>1
    <3>2. j \in 1..(at'[h] - 1)
      BY <1>2, <1>5, <3>1
    <3> QED
      BY <3>1, <3>2
  <2>2. CASE program[at[h]].writes
    <3>1. at[h] \in 1..(at'[h] - 1)
      BY <1>2, <1>5
    <3> QED
      BY <2>2, <3>1
  <2> QED
    BY <1>4, <2>1, <2>2
<1> DEFINE to == "serving"
<1>8. to \in {"serving", "enriching"} /\ stage' = [stage EXCEPT ![h] = to]
  BY <1>1, <1>3
<1>9. stage[h] # "idle" /\ stage[h] # "done"
  BY <1>1
<1>10. /\ at'[h] \in 1..Len(Program(request[h].rpc))
       /\ h \in wrote' => \E j \in 1..(at'[h] - 1) : Program(request[h].rpc)[j].writes
  BY <1>6, <1>7 DEF program, n
<1> HIDE DEF to
<1> QED
  BY <1>3, <1>4, <1>5, <1>8, <1>9, <1>10, GoesOn

LEMMA Completing == ASSUME IInv, NEW h \in Hops, Complete(h) PROVE IInv'
<1>1. stage[h] = "serving" /\ Executes(h) /\ Finish(h, "OK") /\ UNCHANGED <<request, at>>
  BY DEF Complete, Executes
<1>2. "OK" \in Answers /\ "OK" \notin Refusals
  BY DEF Answers, Refusals
<1> QED
  BY <1>1, <1>2, Executing, Finishes

LEMMA Failing == ASSUME IInv, NEW h \in Hops, Fails(h) PROVE IInv'
<1>1. stage[h] = "serving" /\ Finish(h, "Internal") /\ UNCHANGED <<request, at>>
      /\ (Commit(h) \/ UNCHANGED wrote)
  BY DEF Fails
<1>2. "Internal" \in Answers /\ "Internal" \notin Refusals
  BY DEF Answers, Refusals
<1> QED
  BY <1>1, <1>2, Commits, Finishes

LEMMA Refusal == ASSUME IInv, NEW h \in Hops, Refused(h) PROVE IInv'
<1>1. stage[h] = "serving" /\ UNCHANGED <<request, at, wrote>>
  BY DEF Refused
<1>2. PICK e \in Statement(h).refuses : Finish(h, Code(request[h].rpc, e))
  BY DEF Refused
<1>3. request[h].rpc \in Rpcs /\ e \in Errors
  BY <1>1, <1>2, StatementOfProgram DEF IInv, HopOK
<1> DEFINE c == Code(request[h].rpc, e)
<1>4. c \in Answers
  BY <1>3, Codes DEF Answers
<1>5. h \in wrote => request[h].rpc = "CreateRoom" /\ c = "AlreadyExists"
  <2>1. ASSUME h \in wrote PROVE request[h].rpc = "CreateRoom" /\ e = "ErrAlreadyMember"
    BY <1>1, <1>2, <2>1, StatementOfProgram
  <2>2. ASSUME request[h].rpc = "CreateRoom", e = "ErrAlreadyMember" PROVE c = "AlreadyExists"
    BY <2>2, RoomNames DEF Code, RoomCode
  <2> QED
    BY <2>1, <2>2
<1>6. Finish(h, c)
  BY <1>2
<1> HIDE DEF c
<1> QED
  BY <1>1, <1>4, <1>5, <1>6, Commits, Finishes

LEMMA Enriching == ASSUME IInv, NEW h \in Hops, Enrich(h) PROVE IInv'
<1>1. /\ stage[h] = "serving" /\ Executes(h) /\ UNCHANGED <<request, at, code>>
      /\ stage' = [stage EXCEPT ![h] = "enriching"]
  BY DEF Enrich, Executes
<1>2. Marked(h) /\ at' \in [Hops -> 0..4] /\ \A g \in Hops : g # h => at'[g] = at[g]
  BY <1>1, Executing DEF IInv, TypeOK
<1> DEFINE to == "enriching"
<1>3. to \in {"serving", "enriching"} /\ stage' = [stage EXCEPT ![h] = to] /\ to # "serving"
  BY <1>1
<1>4. stage[h] # "idle" /\ stage[h] # "done"
  BY <1>1
<1> HIDE DEF to
<1> QED
  BY <1>1, <1>2, <1>3, <1>4, GoesOn

LEMMA AskingForProfiles == ASSUME IInv, NEW p \in Calls, BatchGetUsers(p) PROVE IInv'
<1> DEFINE r == [rpc |-> "BatchGetUsers", user |-> RequesterID(Outer(p)), sender |-> NoUser]
<1>1. Invoke(Inner(p), r)
  BY DEF BatchGetUsers, PropagateRequester
<1>2. RequesterID(Outer(p)) \in Users \cup {NoUser}
  BY HopNames DEF IInv, TypeOK, Requests, RequesterID
<1>3. r \in Requests /\ r.rpc \in Rpcs
  BY <1>2, SomeRpc DEF Requests, Rpcs
<1> HIDE DEF r
<1> QED
  BY <1>1, <1>3, HopNames, Begins

LEMMA Answering == ASSUME IInv, NEW p \in Calls, Enriched(p) PROVE IInv'
<1>1. /\ Outer(p) \in Hops /\ stage[Outer(p)] = "enriching"
      /\ UNCHANGED <<request, at, wrote>>
  BY HopNames DEF Enriched
<1>2. PICK c \in {"OK", "Internal"} : Finish(Outer(p), c)
  BY DEF Enriched
<1>3. c \in Answers /\ c \notin Refusals
  BY <1>2 DEF Answers, Refusals
<1> QED
  BY <1>1, <1>2, <1>3, Commits, Finishes

LEMMA NextStep == IInv /\ [Next]_vars => IInv'
<1> SUFFICES ASSUME IInv, [Next]_vars PROVE IInv'
  OBVIOUS
<1>1. CASE UNCHANGED vars
  BY <1>1 DEF vars, IInv, TypeOK, HopOK
<1>2. CASE Outside
  <2>1. ASSUME NEW p \in Calls, NEW u \in Users \cup {NoUser}, NEW s \in Users \cup {NoUser},
               NEW rpc \in ChatRpcs \cup UserRpcs, GatewayCall(p, rpc, u, s)
        PROVE  IInv'
    BY <2>1, SomeRpc, FromOutside DEF GatewayCall
  <2>2. ASSUME NEW p \in Calls, NEW u \in Users, RealtimeCall(p, u) PROVE IInv'
    BY <2>2, SomeRpc, FromOutside DEF RealtimeCall
  <2> QED
    BY <1>2, <2>1, <2>2, GivingUp DEF Outside
<1>3. ASSUME NEW h \in Hops, Served(h) PROVE IInv'
  BY <1>3, Undecoded, Refusing, Serving, ToNextStatement, Completing, Refusal, Failing,
     Enriching DEF Served, ChatReceives, UserReceives, Receives
<1>4. ASSUME NEW p \in Calls, Hop(p) PROVE IInv'
  BY <1>4, AskingForProfiles, Answering DEF Hop
<1> QED
  BY <1>1, <1>2, <1>3, <1>4 DEF Next

-----------------------------------------------------------------------------
LEMMA Invariance == Spec => []IInv
BY Initially, NextStep, PTL DEF Spec

(* The variables of RpcPath keep their types.                              *)
THEOREM TypeCorrect == Spec => []TypeOK
<1>1. IInv => TypeOK
  BY DEF IInv
<1> QED
  BY <1>1, Invariance, PTL

(* A refusal means that nothing was changed, but for CreateRoom's          *)
(* AlreadyExists (room/service.go:53-58).                                  *)
THEOREM RefusalsChangeNothing == Spec => []RefusalChangesNothing
<1>1. IInv => RefusalChangesNothing
  BY DEF IInv, HopOK, RefusalChangesNothing
<1> QED
  BY <1>1, Invariance, PTL
=============================================================================
