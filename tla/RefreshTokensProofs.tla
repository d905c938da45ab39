------------------------ MODULE RefreshTokensProofs ------------------------
(***************************************************************************)
(* Proofs about RefreshTokens, for any number of calls, rows and ticks.    *)
(* The properties are defined and explained in RefreshTokens.              *)
(***************************************************************************)
EXTENDS RefreshTokens, TLAPS

-----------------------------------------------------------------------------
(* Type correctness. *)

LEMMA TypeInit == Init => TypeOK
<1> SUFFICES ASSUME Init PROVE TypeOK
  OBVIOUS
<1>1. <<>> \in Seq(Row) /\ DOMAIN table = {} /\ Len(table) = 0
  BY DEF Init
<1>2. /\ pc \in [Calls -> {"idle", "read", "check", "revoke", "issue"}]
      /\ arg \in [Calls -> Nat]
      /\ seen \in [Calls -> Row \cup {NoRow}]
      /\ late \in [Calls -> BOOLEAN]
  BY DEF Init
<1>3. \A p \in Calls : CallOK(p)
  BY DEF Init, CallOK
<1> QED
  BY <1>1, <1>2, <1>3, TokensAssumption DEF Init, TypeOK, TokensAssumption

LEMMA TypeStep == TypeOK /\ [Next]_vars => TypeOK'
<1> SUFFICES ASSUME TypeOK, [Next]_vars PROVE TypeOK'
  OBVIOUS
<1> USE TokensAssumption DEF TokensAssumption
<1>1. ASSUME NEW p \in Calls, Return(p), UNCHANGED <<table, held, now>>
      PROVE  TypeOK'
  BY <1>1 DEF Return, TypeOK, CallOK
<1>2. ASSUME NEW p \in Calls, Login(p) PROVE TypeOK'
  <2>1. /\ pc' = [pc EXCEPT ![p] = "issue"] /\ pc[p] = "idle"
        /\ UNCHANGED <<table, held, now, arg, seen, late>>
    BY <1>2 DEF Login, Goes
  <2>2. arg[p] = 0
    BY <2>1 DEF TypeOK, CallOK
  <2> QED
    BY <2>1, <2>2 DEF TypeOK, CallOK
<1>3. ASSUME NEW p \in Calls, NEW t \in held, Refresh(p, t) PROVE TypeOK'
  <2>1. t \in 1..Len(table) /\ table[t] \in Row
    BY DEF TypeOK
  <2>2. t \in DOMAIN table /\ t \in Nat \ {0} /\ table[t].revoked \in BOOLEAN
    BY <2>1 DEF TypeOK, Row
  <2> QED
    BY <1>3, <2>2 DEF Refresh, Goes, TypeOK, CallOK
<1>4. ASSUME NEW p \in Calls, GetRefreshTokenByHash(p) PROVE TypeOK'
  <2>1. arg[p] \in DOMAIN table /\ table[arg[p]] \in Row
    BY <1>4 DEF GetRefreshTokenByHash, Goes, TypeOK, CallOK
  <2> QED
    BY <1>4, <2>1 DEF GetRefreshTokenByHash, Goes, TypeOK, CallOK
<1>5. ASSUME NEW p \in Calls, Check(p) PROVE TypeOK'
  BY <1>5 DEF Check, Goes, TypeOK, CallOK
<1>6. ASSUME NEW p \in Calls, RevokeRefreshToken(p) PROVE TypeOK'
  <2>1. arg[p] \in DOMAIN table /\ table[arg[p]] \in Row
    BY <1>6 DEF RevokeRefreshToken, Goes, TypeOK, CallOK
  <2>2. [table[arg[p]] EXCEPT !.revoked = TRUE] \in Row
    BY <2>1 DEF Row
  <2>3. /\ table' = [table EXCEPT ![arg[p]] = [table[arg[p]] EXCEPT !.revoked = TRUE]]
        /\ pc' = [pc EXCEPT ![p] = "issue"] /\ pc[p] = "revoke"
        /\ UNCHANGED <<held, now, arg, seen, late>>
    BY <1>6 DEF RevokeRefreshToken, Goes
  <2>4. table' \in Seq(Row) /\ DOMAIN table' = DOMAIN table /\ Len(table') = Len(table)
    BY <2>1, <2>2, <2>3 DEF TypeOK
  <2> QED
    BY <2>3, <2>4 DEF TypeOK, CallOK
<1>7. ASSUME NEW p \in Calls, CreateRefreshToken(p) PROVE TypeOK'
  <2> DEFINE id == Len(table) + 1
             row == [parent |-> arg[p],
                     session |-> IF arg[p] = 0 THEN id ELSE seen[p].session,
                     expires |-> Expiry, revoked |-> FALSE]
  <2>1. id \in Tokens /\ pc[p] = "issue" /\ table' = Append(table, row)
        /\ held' \in {held, held \cup {id}} /\ Return(p) /\ now' = now
    BY <1>7 DEF CreateRefreshToken
  <2>2. arg[p] \in {0} \cup Tokens
    BY DEF TypeOK, CallOK, Tokens
  <2>3. row.session \in Tokens
    BY <2>1 DEF TypeOK, CallOK, Row
  <2>4. row \in Row
    BY <2>2, <2>3 DEF TypeOK, Row, Expiry
  <2>5. /\ table' \in Seq(Row) /\ Len(table') <= MaxTokens
        /\ DOMAIN table' = DOMAIN table \cup {id}
    <3> HIDE DEF row
    <3> QED
      BY <2>1, <2>4 DEF TypeOK, Tokens
  <2> QED
    BY <2>1, <2>5 DEF Return, TypeOK, CallOK
<1>8. ASSUME Tick PROVE TypeOK'
  BY <1>8 DEF Tick, TypeOK, CallOK
<1>9. ASSUME UNCHANGED vars PROVE TypeOK'
  BY <1>9 DEF vars, TypeOK, CallOK
<1> QED
  BY <1>1, <1>2, <1>3, <1>4, <1>5, <1>6, <1>7, <1>8, <1>9
     DEF Next, CallStep, Refuse, Abort

(* Every row and every local variable of a call keeps its type; a call     *)
(* that rotates a token rotates one that is in the table.                  *)
THEOREM TypeCorrect == Spec => []TypeOK
BY TypeInit, TypeStep, PTL DEF Spec


-----------------------------------------------------------------------------
(* What the two writing statements do to the table.                        *)

LEMMA RevokeEffect ==
    ASSUME TypeOK, NEW p \in Calls, RevokeRefreshToken(p)
    PROVE  /\ arg[p] \in DOMAIN table /\ arg[p] # 0
           /\ DOMAIN table' = DOMAIN table
           /\ \A t \in DOMAIN table :
                /\ table'[t].parent = table[t].parent
                /\ table'[t].session = table[t].session
                /\ table'[t].revoked = (table[t].revoked \/ t = arg[p])
<1>1. arg[p] \in DOMAIN table /\ arg[p] # 0
  BY DEF RevokeRefreshToken, Goes, TypeOK, CallOK
<1>2. table' = [table EXCEPT ![arg[p]] = [table[arg[p]] EXCEPT !.revoked = TRUE]]
  BY DEF RevokeRefreshToken
<1>3. DOMAIN table' = DOMAIN table
  BY <1>2
<1>4. ASSUME NEW t \in DOMAIN table
      PROVE  /\ table'[t].parent = table[t].parent
             /\ table'[t].session = table[t].session
             /\ table'[t].revoked = (table[t].revoked \/ t = arg[p])
  <2>1. table[t] \in Row
    BY DEF TypeOK
  <2>2. table[t].revoked \in BOOLEAN
    BY <2>1 DEF Row
  <2>3. CASE t = arg[p]
    BY <1>2, <2>1, <2>2, <2>3 DEF Row
  <2>4. CASE t # arg[p]
    BY <1>2, <2>2, <2>4
  <2> QED
    BY <2>3, <2>4
<1> QED
  BY <1>1, <1>3, <1>4

LEMMA CreateEffect ==
    ASSUME TypeOK, NEW p \in Calls, CreateRefreshToken(p)
    PROVE  LET id == Len(table) + 1 IN
           /\ id \notin DOMAIN table /\ id # 0
           /\ DOMAIN table' = DOMAIN table \cup {id}
           /\ \A t \in DOMAIN table : table'[t] = table[t]
           /\ table'[id].parent = arg[p]
           /\ table'[id].session = IF arg[p] = 0 THEN id ELSE seen[p].session
           /\ ~table'[id].revoked
<1> DEFINE id == Len(table) + 1
           row == [parent |-> arg[p],
                   session |-> IF arg[p] = 0 THEN id ELSE seen[p].session,
                   expires |-> Expiry, revoked |-> FALSE]
<1>1. table' = Append(table, row)
  BY DEF CreateRefreshToken
<1>2. table \in Seq(Row) /\ DOMAIN table = 1..Len(table) /\ Len(table) \in Nat
  BY DEF TypeOK
<1>3. /\ DOMAIN table' = DOMAIN table \cup {id}
      /\ \A t \in DOMAIN table : table'[t] = table[t]
      /\ table'[id] = row
  <2> HIDE DEF row
  <2> QED
    BY <1>1, <1>2
<1> QED
  BY <1>2, <1>3

(* The local variables of the other calls do not change.                   *)
LEMMA OthersUnchanged ==
    ASSUME TypeOK, NEW p \in Calls, CallStep(p)
    PROVE  \A q \in Calls \ {p} :
              /\ pc'[q] = pc[q] /\ arg'[q] = arg[q]
              /\ seen'[q] = seen[q] /\ late'[q] = late[q]
BY DEF TypeOK, CallStep, Login, Refresh, GetRefreshTokenByHash, Check, Refuse,
       RevokeRefreshToken, CreateRefreshToken, Abort, Return, Goes

-----------------------------------------------------------------------------
(* Rotation, whatever the clients do.                                      *)

(* What a call knows of the token it rotates: one revoked before the call  *)
(* began was read as revoked, the check let through only a row read as     *)
(* usable, and a successor is issued only for a revoked token.             *)
CallInv(p) ==
    /\ late[p] => arg[p] # 0 /\ table[arg[p]].revoked
    /\ pc[p] \in {"check", "revoke", "issue"} /\ late[p] => seen[p].revoked
    /\ pc[p] \in {"revoke", "issue"} /\ arg[p] # 0 => ~seen[p].revoked
    /\ pc[p] = "issue" /\ arg[p] # 0 => table[arg[p]].revoked

RotationInv ==
    /\ TypeOK
    /\ \A t \in DOMAIN table : Parent(t) # 0 => Parent(t) \in DOMAIN table
    /\ OldRevokedBeforeNew
    /\ \A p \in Calls : CallInv(p)

LEMMA RotationInit == Init => RotationInv
<1> SUFFICES ASSUME Init PROVE RotationInv
  OBVIOUS
<1>1. TypeOK
  BY TypeInit
<1>2. DOMAIN table = {}
  BY DEF Init
<1> QED
  BY <1>1, <1>2 DEF Init, RotationInv, OldRevokedBeforeNew, CallInv

LEMMA RotationStep == RotationInv /\ [Next]_vars => RotationInv'
<1> SUFFICES ASSUME RotationInv, [Next]_vars PROVE RotationInv'
  OBVIOUS
<1> USE DEF Parent
<1>0. TypeOK /\ TypeOK'
  BY TypeStep DEF RotationInv
<1>1. ASSUME NEW p \in Calls, Return(p), UNCHANGED <<table, held, now>>
      PROVE  RotationInv'
  BY <1>0, <1>1 DEF Return, RotationInv, OldRevokedBeforeNew, CallInv, TypeOK, CallOK
<1>2. ASSUME NEW p \in Calls, Login(p) PROVE RotationInv'
  <2>1. pc[p] = "idle" /\ arg[p] = 0 /\ ~late[p]
    BY <1>0, <1>2 DEF Login, Goes, RotationInv, CallInv, TypeOK, CallOK
  <2> QED
    BY <1>0, <1>2, <2>1 DEF Login, Goes, RotationInv, OldRevokedBeforeNew, CallInv, TypeOK
<1>3. ASSUME NEW p \in Calls, NEW t \in held, Refresh(p, t) PROVE RotationInv'
  <2>1. t # 0 /\ t \in DOMAIN table
    BY <1>0 DEF TypeOK
  <2> QED
    BY <1>0, <1>3, <2>1 DEF Refresh, Goes, RotationInv, OldRevokedBeforeNew, CallInv, TypeOK
<1>4. ASSUME NEW p \in Calls, GetRefreshTokenByHash(p) PROVE RotationInv'
  BY <1>0, <1>4
     DEF GetRefreshTokenByHash, Goes, RotationInv, OldRevokedBeforeNew, CallInv, TypeOK
<1>5. ASSUME NEW p \in Calls, Check(p) PROVE RotationInv'
  BY <1>0, <1>5 DEF Check, Usable, Goes, RotationInv, OldRevokedBeforeNew, CallInv, TypeOK
<1>6. ASSUME NEW p \in Calls, RevokeRefreshToken(p) PROVE RotationInv'
  <2>1. OldRevokedBeforeNew'
    BY <1>0, <1>6, RevokeEffect DEF RotationInv, OldRevokedBeforeNew
  <2>2. \A t \in DOMAIN table' : Parent(t)' # 0 => Parent(t)' \in DOMAIN table'
    BY <1>0, <1>6, RevokeEffect DEF RotationInv
  <2>3. ASSUME NEW q \in Calls PROVE CallInv(q)'
    <3>1. /\ arg' = arg /\ seen' = seen /\ late' = late
          /\ pc'[q] = IF q = p THEN "issue" ELSE pc[q]
          /\ pc[p] = "revoke"
      BY <1>0, <1>6 DEF RevokeRefreshToken, Goes, TypeOK
    <3>2. arg[q] # 0 => arg[q] \in DOMAIN table
      BY <1>0 DEF TypeOK, CallOK
    <3>3. CallInv(q)
      BY DEF RotationInv
    <3>4. arg[q] # 0 => table'[arg[q]].revoked = (table[arg[q]].revoked \/ arg[q] = arg[p])
      BY <1>0, <1>6, <3>2, RevokeEffect
    <3> QED
      BY <3>1, <3>3, <3>4 DEF CallInv
  <2> QED
    BY <1>0, <2>1, <2>2, <2>3 DEF RotationInv
<1>7. ASSUME NEW p \in Calls, CreateRefreshToken(p) PROVE RotationInv'
  <2>1. arg[p] # 0 => arg[p] \in DOMAIN table /\ table[arg[p]].revoked
    BY <1>0, <1>7 DEF CreateRefreshToken, RotationInv, CallInv, TypeOK, CallOK
  <2>2. /\ OldRevokedBeforeNew'
        /\ \A t \in DOMAIN table' : Parent(t)' # 0 => Parent(t)' \in DOMAIN table'
    BY <1>0, <1>7, <2>1, CreateEffect DEF RotationInv, OldRevokedBeforeNew
  <2>3. ASSUME NEW q \in Calls PROVE CallInv(q)'
    <3>1. CASE q = p
      BY <1>0, <1>7, <3>1 DEF CreateRefreshToken, Return, CallInv, TypeOK
    <3>2. CASE q # p
      <4>1. pc'[q] = pc[q] /\ arg'[q] = arg[q] /\ seen'[q] = seen[q] /\ late'[q] = late[q]
        BY <1>0, <1>7, <3>2, OthersUnchanged DEF CallStep
      <4>2. arg[q] # 0 => arg[q] \in DOMAIN table /\ table'[arg[q]] = table[arg[q]]
        BY <1>0, <1>7, CreateEffect DEF TypeOK, CallOK
      <4> QED
        BY <4>1, <4>2 DEF RotationInv, CallInv
    <3> QED
      BY <3>1, <3>2
  <2> QED
    BY <1>0, <2>2, <2>3 DEF RotationInv
<1>8. CASE Tick \/ UNCHANGED vars
  BY <1>0, <1>8 DEF Tick, vars, RotationInv, OldRevokedBeforeNew, CallInv
<1> QED
  BY <1>1, <1>2, <1>3, <1>4, <1>5, <1>6, <1>7, <1>8 DEF Next, CallStep, Refuse, Abort

LEMMA RotationInvariant == Spec => []RotationInv
BY RotationInit, RotationStep, PTL DEF Spec

(* A token and its successor are never both usable, for any number of      *)
(* overlapping, failing or dying calls.                                    *)
THEOREM RevokedBeforeSuccessor == Spec => []OldRevokedBeforeNew
<1>1. RotationInv => OldRevokedBeforeNew
  BY DEF RotationInv
<1> QED
  BY <1>1, RotationInvariant, PTL

(* A refresh begun after its token was revoked never gets past the check.  *)
THEOREM LateRefreshIsRefused == Spec => []LateRefreshRefused
<1>1. RotationInv => LateRefreshRefused
  BY DEF RotationInv, CallInv, LateRefreshRefused
<1> QED
  BY <1>1, RotationInvariant, PTL

-----------------------------------------------------------------------------
(* The sessions whose client presents a token in one call at a time,       *)
(* whatever the clients of the other sessions do.                          *)

(* A session is passed on from a token to its successor.                   *)
SessionKept ==
    /\ \A t \in DOMAIN table :
        /\ table[t].session \in DOMAIN table
        /\ Parent(t) # 0 => table[t].session = table[Parent(t)].session
    /\ \A p \in Calls :
        pc[p] \in {"check", "revoke", "issue"} /\ arg[p] # 0
            => seen[p].session = table[arg[p]].session

LEMMA SessionKeptInit == Init => SessionKept
BY DEF Init, SessionKept

LEMMA SessionKeptStep ==
    ASSUME RotationInv, SessionKept, [Next]_vars
    PROVE  SessionKept'
<1> USE DEF Parent
<1>0. TypeOK
  BY DEF RotationInv
<1>1. ASSUME NEW p \in Calls, Return(p), UNCHANGED <<table, held, now>>
      PROVE  SessionKept'
  BY <1>0, <1>1 DEF Return, SessionKept, TypeOK
<1>2. ASSUME NEW p \in Calls, Login(p) PROVE SessionKept'
  BY <1>0, <1>2 DEF Login, Goes, SessionKept, TypeOK, CallOK
<1>3. ASSUME NEW p \in Calls, NEW t \in held, Refresh(p, t) PROVE SessionKept'
  BY <1>0, <1>3 DEF Refresh, Goes, SessionKept, TypeOK
<1>4. ASSUME NEW p \in Calls, GetRefreshTokenByHash(p) PROVE SessionKept'
  BY <1>0, <1>4 DEF GetRefreshTokenByHash, Goes, SessionKept, TypeOK
<1>5. ASSUME NEW p \in Calls, Check(p) PROVE SessionKept'
  BY <1>0, <1>5 DEF Check, Goes, SessionKept, TypeOK
<1>6. ASSUME NEW p \in Calls, RevokeRefreshToken(p) PROVE SessionKept'
  <2>1. /\ arg' = arg /\ seen' = seen /\ pc[p] = "revoke"
        /\ \A q \in Calls : pc'[q] = IF q = p THEN "issue" ELSE pc[q]
    BY <1>0, <1>6 DEF RevokeRefreshToken, Goes, TypeOK
  <2>2. \A t \in DOMAIN table' :
          /\ table'[t].session \in DOMAIN table'
          /\ Parent(t)' # 0 => table'[t].session = table'[Parent(t)'].session
    BY <1>0, <1>6, RevokeEffect DEF SessionKept, RotationInv
  <2>3. ASSUME NEW q \in Calls, pc'[q] \in {"check", "revoke", "issue"}, arg'[q] # 0
        PROVE  seen'[q].session = table'[arg'[q]].session
    <3>1. arg[q] \in DOMAIN table
      BY <1>0, <2>1, <2>3 DEF TypeOK, CallOK
    <3> QED
      BY <1>0, <1>6, <2>1, <2>3, <3>1, RevokeEffect DEF SessionKept
  <2> QED
    BY <2>2, <2>3 DEF SessionKept
<1>7. ASSUME NEW p \in Calls, CreateRefreshToken(p) PROVE SessionKept'
  <2> DEFINE id == Len(table) + 1
  <2>1. /\ pc[p] = "issue" /\ arg'[p] = 0
        /\ \A q \in Calls \ {p} : pc'[q] = pc[q] /\ arg'[q] = arg[q] /\ seen'[q] = seen[q]
    BY <1>0, <1>7 DEF CreateRefreshToken, Return, TypeOK
  <2>2. /\ DOMAIN table' = DOMAIN table \cup {id}
        /\ \A t \in DOMAIN table : table'[t] = table[t]
        /\ table'[id].parent = arg[p]
        /\ table'[id].session = IF arg[p] = 0 THEN id ELSE seen[p].session
    BY <1>0, <1>7, CreateEffect
  <2> HIDE DEF id
  <2>3. \A q \in Calls : arg[q] # 0 => arg[q] \in DOMAIN table
    BY <1>0 DEF TypeOK, CallOK
  <2>4. arg[p] # 0 => /\ seen[p].session \in DOMAIN table
                      /\ seen[p].session = table[arg[p]].session
    BY <2>1, <2>3 DEF SessionKept
  <2>5. \A t \in DOMAIN table' : table'[t].session \in DOMAIN table'
    BY <2>2, <2>4 DEF SessionKept
  <2>6. ASSUME NEW t \in DOMAIN table', Parent(t)' # 0
        PROVE  table'[t].session = table'[Parent(t)'].session
    <3>1. CASE t \in DOMAIN table
      <4>1. table'[t] = table[t] /\ Parent(t) \in DOMAIN table
        BY <2>2, <2>6, <3>1 DEF RotationInv
      <4> QED
        BY <2>2, <2>6, <3>1, <4>1 DEF SessionKept
    <3>2. CASE t = id
      BY <2>2, <2>3, <2>4, <2>6, <3>2
    <3> QED
      BY <2>2, <3>1, <3>2
  <2>7. ASSUME NEW q \in Calls, pc'[q] \in {"check", "revoke", "issue"}, arg'[q] # 0
        PROVE  seen'[q].session = table'[arg'[q]].session
    BY <2>1, <2>2, <2>3, <2>7 DEF SessionKept
  <2> QED
    BY <2>5, <2>6, <2>7 DEF SessionKept
<1>8. CASE Tick \/ UNCHANGED vars
  BY <1>8 DEF Tick, vars, SessionKept
<1> QED
  BY <1>1, <1>2, <1>3, <1>4, <1>5, <1>6, <1>7, <1>8 DEF Next, CallStep, Refuse, Abort

(* The call rotates a token of a careful session.                          *)
Rotates(p) == arg[p] # 0 /\ table[arg[p]].session \in Careful

(* A token that passed the check is still usable when it is revoked, and   *)
(* it has no successor when one is issued.                                 *)
FlightInv ==
    /\ \A p, q \in Calls : arg[p] = arg[q] /\ Rotates(p) => p = q
    /\ \A p \in Calls :
        /\ pc[p] \in {"check", "revoke"} /\ ~seen[p].revoked /\ Rotates(p)
        => ~table[arg[p]].revoked
    /\ \A p \in Calls :
        pc[p] = "issue" /\ Rotates(p) => \A t \in DOMAIN table : Parent(t) # arg[p]
    /\ CarefulSingleUse

(* By then its session has no usable token, and no other call is about to  *)
(* issue one for it.                                                       *)
Issues(p) == pc[p] = "issue" /\ arg[p] # 0 /\ seen[p].session \in Careful

SessionInv ==
    /\ \A p \in Calls : Issues(p) =>
        \A t \in DOMAIN table : table[t].session = seen[p].session => table[t].revoked
    /\ \A p, q \in Calls :
        Issues(p) /\ Issues(q) /\ seen[p].session = seen[q].session => p = q
    /\ OneUsablePerSession

LEMMA FlightInit == Init => FlightInv /\ SessionInv
BY DEF Init, FlightInv, SessionInv, CarefulSingleUse, OneUsablePerSession, Rotates, Issues

LEMMA FlightStep ==
    ASSUME RotationInv, SessionKept, FlightInv, [Next]_vars
    PROVE  FlightInv'
<1> USE DEF Parent, Rotates
<1>0. TypeOK
  BY DEF RotationInv
<1>1. ASSUME NEW p \in Calls, Return(p), UNCHANGED <<table, held, now>>
      PROVE  FlightInv'
  BY <1>0, <1>1 DEF Return, FlightInv, CarefulSingleUse, TypeOK
<1>2. ASSUME NEW p \in Calls, Login(p) PROVE FlightInv'
  BY <1>0, <1>2 DEF Login, Goes, FlightInv, CarefulSingleUse, TypeOK, CallOK
<1>3. ASSUME NEW p \in Calls, NEW t \in held, Refresh(p, t) PROVE FlightInv'
  BY <1>0, <1>3 DEF Refresh, Goes, FlightInv, CarefulSingleUse, TypeOK
<1>4. ASSUME NEW p \in Calls, GetRefreshTokenByHash(p) PROVE FlightInv'
  BY <1>0, <1>4 DEF GetRefreshTokenByHash, Goes, FlightInv, CarefulSingleUse, TypeOK
<1>5. ASSUME NEW p \in Calls, Check(p) PROVE FlightInv'
  BY <1>0, <1>5 DEF Check, Goes, FlightInv, CarefulSingleUse, TypeOK
<1>6. ASSUME NEW p \in Calls, RevokeRefreshToken(p) PROVE FlightInv'
  <2>1. /\ arg' = arg /\ seen' = seen /\ pc[p] = "revoke"
        /\ \A q \in Calls : pc'[q] = IF q = p THEN "issue" ELSE pc[q]
    BY <1>0, <1>6 DEF RevokeRefreshToken, Goes, TypeOK
  <2>2. \A q \in Calls : arg[q] # 0 =>
          /\ arg[q] \in DOMAIN table
          /\ table'[arg[q]].session = table[arg[q]].session
    BY <1>0, <1>6, RevokeEffect DEF TypeOK, CallOK
  <2>3. \A q, r \in Calls : arg'[q] = arg'[r] /\ Rotates(q)' => q = r
    BY <2>1, <2>2 DEF FlightInv
  <2>4. CarefulSingleUse'
    BY <1>0, <1>6, RevokeEffect DEF FlightInv, CarefulSingleUse
  <2>5. ASSUME NEW q \in Calls, pc'[q] \in {"check", "revoke"}, ~seen'[q].revoked, Rotates(q)'
        PROVE  ~table'[arg'[q]].revoked
    <3>1. q # p /\ pc[q] = pc'[q] /\ Rotates(q)
      BY <2>1, <2>2, <2>5
    <3>2. arg[q] # arg[p]
      BY <3>1 DEF FlightInv
    <3>3. ~table[arg[q]].revoked
      BY <2>1, <2>5, <3>1 DEF FlightInv
    <3> QED
      BY <1>0, <1>6, <2>1, <2>2, <3>1, <3>2, <3>3, RevokeEffect
  <2>6. ASSUME NEW q \in Calls, pc'[q] = "issue", Rotates(q)'
        PROVE  \A t \in DOMAIN table' : Parent(t)' # arg'[q]
    <3>1. Rotates(q)
      BY <2>1, <2>2, <2>6
    <3>2. CASE q = p
      <4>1. ~table[arg[p]].revoked
        BY <1>0, <2>1, <3>1, <3>2 DEF RotationInv, CallInv, FlightInv
      <4>2. \A t \in DOMAIN table : Parent(t) # arg[p]
        BY <2>2, <3>1, <3>2, <4>1 DEF RotationInv, OldRevokedBeforeNew
      <4> QED
        BY <1>0, <1>6, <2>1, <3>2, <4>2, RevokeEffect
    <3>3. CASE q # p
      <4>1. \A t \in DOMAIN table : Parent(t) # arg[q]
        BY <2>1, <2>6, <3>1, <3>3 DEF FlightInv
      <4> QED
        BY <1>0, <1>6, <2>1, <4>1, RevokeEffect
    <3> QED
      BY <3>2, <3>3
  <2> QED
    BY <2>3, <2>4, <2>5, <2>6 DEF FlightInv
<1>7. ASSUME NEW p \in Calls, CreateRefreshToken(p) PROVE FlightInv'
  <2> DEFINE id == Len(table) + 1
  <2>1. /\ pc[p] = "issue" /\ arg'[p] = 0 /\ pc'[p] = "idle"
        /\ \A q \in Calls \ {p} : pc'[q] = pc[q] /\ arg'[q] = arg[q] /\ seen'[q] = seen[q]
    BY <1>0, <1>7 DEF CreateRefreshToken, Return, TypeOK
  <2>2. /\ id \notin DOMAIN table /\ DOMAIN table' = DOMAIN table \cup {id}
        /\ \A t \in DOMAIN table : table'[t] = table[t]
        /\ table'[id].parent = arg[p]
        /\ table'[id].session = IF arg[p] = 0 THEN id ELSE seen[p].session
    BY <1>0, <1>7, CreateEffect
  <2> HIDE DEF id
  <2>3. \A q \in Calls : arg[q] # 0 => arg[q] \in DOMAIN table
    BY <1>0 DEF TypeOK, CallOK
  <2>4. \A q \in Calls : Rotates(q)' => q # p /\ Rotates(q) /\ arg'[q] = arg[q]
    BY <2>1, <2>2, <2>3
  <2>5. arg[p] # 0 => seen[p].session = table[arg[p]].session
    BY <2>1 DEF SessionKept
  <2>6. \A t \in DOMAIN table : Rotates(p) => Parent(t) # arg[p]
    BY <2>1 DEF FlightInv
  <2>7. CarefulSingleUse'
    <3> SUFFICES ASSUME NEW s \in DOMAIN table', NEW t \in DOMAIN table',
                        Parent(s)' = Parent(t)', Parent(s)' # 0,
                        table'[s].session \in Careful
                 PROVE  s = t
      BY DEF CarefulSingleUse
    <3>1. CASE s \in DOMAIN table /\ t \in DOMAIN table
      BY <2>2, <3>1 DEF FlightInv, CarefulSingleUse
    <3>2. CASE s = id /\ t \in DOMAIN table
      BY <2>2, <2>5, <2>6, <3>2
    <3>3. CASE s \in DOMAIN table /\ t = id
      <4>1. table[s].session = table[arg[p]].session /\ Parent(s) = arg[p]
        BY <2>2, <3>3 DEF SessionKept
      <4> QED
        BY <2>2, <2>6, <3>3, <4>1
    <3> QED
      BY <2>2, <3>1, <3>2, <3>3
  <2>8. \A q, r \in Calls : arg'[q] = arg'[r] /\ Rotates(q)' => q = r
    <3> SUFFICES ASSUME NEW q \in Calls, NEW r \in Calls, arg'[q] = arg'[r], Rotates(q)'
                 PROVE  q = r
      OBVIOUS
    <3>1. q # p /\ Rotates(q) /\ arg'[q] = arg[q] /\ r # p
      BY <2>1, <2>4
    <3> QED
      BY <2>1, <3>1 DEF FlightInv
  <2>9. ASSUME NEW q \in Calls, pc'[q] \in {"check", "revoke"}, ~seen'[q].revoked, Rotates(q)'
        PROVE  ~table'[arg'[q]].revoked
    BY <2>1, <2>2, <2>3, <2>4, <2>9 DEF FlightInv
  <2>10. ASSUME NEW q \in Calls, pc'[q] = "issue", Rotates(q)'
        PROVE  \A t \in DOMAIN table' : Parent(t)' # arg'[q]
    <3>1. q # p /\ pc[q] = "issue" /\ Rotates(q) /\ arg'[q] = arg[q]
      BY <2>1, <2>4, <2>10
    <3>2. arg[q] # arg[p]
      BY <3>1 DEF FlightInv
    <3> QED
      BY <2>2, <3>1, <3>2 DEF FlightInv
  <2> QED
    BY <2>7, <2>8, <2>9, <2>10 DEF FlightInv
<1>8. CASE Tick \/ UNCHANGED vars
  BY <1>8 DEF Tick, vars, FlightInv, CarefulSingleUse
<1> QED
  BY <1>1, <1>2, <1>3, <1>4, <1>5, <1>6, <1>7, <1>8 DEF Next, CallStep, Refuse, Abort

LEMMA SessionStep ==
    ASSUME RotationInv, SessionKept, FlightInv, SessionInv, [Next]_vars
    PROVE  SessionInv'
<1> USE DEF Issues
<1>0. TypeOK
  BY DEF RotationInv
<1>1. ASSUME NEW p \in Calls, Return(p), UNCHANGED <<table, held, now>>
      PROVE  SessionInv'
  BY <1>0, <1>1 DEF Return, SessionInv, OneUsablePerSession, TypeOK
<1>2. ASSUME NEW p \in Calls, Login(p) PROVE SessionInv'
  BY <1>0, <1>2 DEF Login, Goes, SessionInv, OneUsablePerSession, TypeOK, CallOK
<1>3. ASSUME NEW p \in Calls, NEW t \in held, Refresh(p, t) PROVE SessionInv'
  BY <1>0, <1>3 DEF Refresh, Goes, SessionInv, OneUsablePerSession, TypeOK
<1>4. ASSUME NEW p \in Calls, GetRefreshTokenByHash(p) PROVE SessionInv'
  BY <1>0, <1>4 DEF GetRefreshTokenByHash, Goes, SessionInv, OneUsablePerSession, TypeOK
<1>5. ASSUME NEW p \in Calls, Check(p) PROVE SessionInv'
  BY <1>0, <1>5 DEF Check, Goes, SessionInv, OneUsablePerSession, TypeOK
<1>6. ASSUME NEW p \in Calls, RevokeRefreshToken(p) PROVE SessionInv'
  <2> DEFINE S == seen[p].session
  <2>1. /\ arg' = arg /\ seen' = seen /\ pc[p] = "revoke"
        /\ \A q \in Calls : pc'[q] = IF q = p THEN "issue" ELSE pc[q]
    BY <1>0, <1>6 DEF RevokeRefreshToken, Goes, TypeOK
  <2>2. /\ arg[p] \in DOMAIN table /\ arg[p] # 0 /\ S = table[arg[p]].session
        /\ S \in Careful => ~table[arg[p]].revoked
    BY <1>0, <1>6, <2>1, RevokeEffect
       DEF RotationInv, CallInv, FlightInv, Rotates, SessionKept
  <2>3. ASSUME S \in Careful
        PROVE  \A t \in DOMAIN table' : table'[t].session = S => table'[t].revoked
    <3> SUFFICES ASSUME NEW t \in DOMAIN table, table'[t].session = S
                 PROVE  table'[t].revoked
      BY <1>0, <1>6, RevokeEffect
    <3>1. table[t].session = table[arg[p]].session
      BY <1>0, <1>6, <2>2, RevokeEffect
    <3>2. table[t].revoked \/ t = arg[p]
      BY <2>2, <2>3, <3>1 DEF SessionInv, OneUsablePerSession
    <3> QED
      BY <1>0, <1>6, <3>2, RevokeEffect
  <2>4. \A q \in Calls : Issues(q) => seen[q].session # S
    BY <2>2 DEF SessionInv
  <2>5. OneUsablePerSession'
    BY <1>0, <1>6, RevokeEffect DEF SessionInv, OneUsablePerSession
  <2>6. ASSUME NEW q \in Calls, Issues(q)'
        PROVE  \A t \in DOMAIN table' :
                  table'[t].session = seen'[q].session => table'[t].revoked
    <3>1. CASE q = p
      BY <2>1, <2>3, <2>6, <3>1
    <3>2. CASE q # p
      <4>1. Issues(q) /\ seen'[q] = seen[q]
        BY <2>1, <2>6, <3>2
      <4>2. \A t \in DOMAIN table : table[t].session = seen[q].session => table[t].revoked
        BY <4>1 DEF SessionInv
      <4> QED
        BY <1>0, <1>6, <4>1, <4>2, RevokeEffect
    <3> QED
      BY <3>1, <3>2
  <2>7. \A q, r \in Calls :
          Issues(q)' /\ Issues(r)' /\ seen'[q].session = seen'[r].session => q = r
    BY <2>1, <2>4 DEF SessionInv
  <2> QED
    BY <2>5, <2>6, <2>7 DEF SessionInv
<1>7. ASSUME NEW p \in Calls, CreateRefreshToken(p) PROVE SessionInv'
  <2> DEFINE id == Len(table) + 1
  <2>1. /\ pc[p] = "issue" /\ arg'[p] = 0 /\ pc'[p] = "idle"
        /\ \A q \in Calls \ {p} : pc'[q] = pc[q] /\ arg'[q] = arg[q] /\ seen'[q] = seen[q]
    BY <1>0, <1>7 DEF CreateRefreshToken, Return, TypeOK
  <2>2. /\ id \notin DOMAIN table /\ DOMAIN table' = DOMAIN table \cup {id}
        /\ \A t \in DOMAIN table : table'[t] = table[t]
        /\ table'[id].session = IF arg[p] = 0 THEN id ELSE seen[p].session
    BY <1>0, <1>7, CreateEffect
  <2> HIDE DEF id
  <2>3. \A q \in Calls : arg[q] # 0 => arg[q] \in DOMAIN table
    BY <1>0 DEF TypeOK, CallOK
  <2>4. \A t \in DOMAIN table :
          /\ table[t].session = table'[id].session /\ table'[id].session \in Careful
          => table[t].revoked
    BY <2>1, <2>2 DEF SessionInv, SessionKept
  <2>5. OneUsablePerSession'
    BY <2>2, <2>4 DEF SessionInv, OneUsablePerSession
  <2>6. ASSUME NEW q \in Calls, Issues(q)'
        PROVE  \A t \in DOMAIN table' :
                  table'[t].session = seen'[q].session => table'[t].revoked
    <3>1. q # p /\ Issues(q) /\ seen'[q] = seen[q] /\ arg[q] \in DOMAIN table
      BY <2>1, <2>3, <2>6
    <3>2. seen[q].session \in DOMAIN table
      BY <3>1 DEF SessionKept
    <3>3. table'[id].session # seen[q].session
      BY <2>1, <2>2, <3>1, <3>2 DEF SessionInv
    <3> QED
      BY <2>2, <3>1, <3>3 DEF SessionInv
  <2>7. \A q, r \in Calls :
          Issues(q)' /\ Issues(r)' /\ seen'[q].session = seen'[r].session => q = r
    BY <2>1 DEF SessionInv
  <2> QED
    BY <2>5, <2>6, <2>7 DEF SessionInv
<1>8. CASE Tick \/ UNCHANGED vars
  BY <1>8 DEF Tick, vars, SessionInv, OneUsablePerSession
<1> QED
  BY <1>1, <1>2, <1>3, <1>4, <1>5, <1>6, <1>7, <1>8 DEF Next, CallStep, Refuse, Abort

LEMMA FlightInvariant == Spec => [](RotationInv /\ SessionKept /\ FlightInv /\ SessionInv)
<1>1. Init => RotationInv /\ SessionKept /\ FlightInv /\ SessionInv
  BY RotationInit, SessionKeptInit, FlightInit
<1>2. RotationInv /\ SessionKept /\ FlightInv /\ SessionInv /\ [Next]_vars
        => (RotationInv /\ SessionKept /\ FlightInv /\ SessionInv)'
  BY RotationStep, SessionKeptStep, FlightStep, SessionStep
<1> QED
  BY <1>1, <1>2, PTL DEF Spec

(* No token of a careful session is rotated twice, whatever the clients of *)
(* other sessions do.  For the others the run tokens_race refutes it.      *)
THEOREM RotatedOnce == Spec => []CarefulSingleUse
<1>1. FlightInv => CarefulSingleUse
  BY DEF FlightInv
<1> QED
  BY <1>1, FlightInvariant, PTL

(* A careful login session never has two usable tokens.                    *)
THEOREM OneUsableToken == Spec => []OneUsablePerSession
<1>1. SessionInv => OneUsablePerSession
  BY DEF SessionInv
<1> QED
  BY <1>1, FlightInvariant, PTL
=============================================================================
