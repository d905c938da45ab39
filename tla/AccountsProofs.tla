--------------------------- MODULE AccountsProofs ---------------------------
(***************************************************************************)
(* Proofs about Accounts, for any number of users, calls and values.       *)
(***************************************************************************)
EXTENDS Accounts, TLAPS

(* UpdateCalls for a careful user: one at a time, and what it read is still      *)
(* what the table holds.                                                   *)
Alone ==
    \A c \in UpdateCalls : stage[c] = "read" /\ who[c] \in CarefulUsers =>
        /\ copy[c] = users[who[c]].profile
        /\ \A d \in UpdateCalls : who[d] = who[c] => d = c

(* The row of every acknowledged Register.                                 *)
Stored ==
    \A a \in acked : \E u \in Ids :
        users[u].email.address = a.address /\ users[u].password = a.password

IInv == AccountsTypeOK /\ OneAccountEach /\ Stored /\ Alone /\ NoLostUpdate

LEMMA Inits == AccountsInit => IInv
BY DEF AccountsInit, IInv, AccountsTypeOK, locals, Ids, OneAccountEach, Stored, Alone, NoLostUpdate

-----------------------------------------------------------------------------
LEMMA RowTypes ==
    ASSUME AccountsTypeOK
    PROVE  /\ Ids = 1..Len(users) /\ DOMAIN given = Ids /\ Len(users) \in Nat
           /\ \A u \in Ids :
                /\ users[u] \in Rows
                /\ given[u] \in Profiles
                /\ users[u].profile \in Profiles
                /\ users[u].email.address \in Addresses /\ ~users[u].email.capitals
                /\ u \in Nat /\ u # 0
<1>1. users \in Seq(Rows) /\ given \in Seq(Profiles) /\ Len(given) = Len(users)
  BY DEF AccountsTypeOK
<1>2. Ids = 1..Len(users) /\ DOMAIN given = Ids /\ Len(users) \in Nat
  BY <1>1 DEF Ids
<1>3. \A u \in Ids : users[u] \in Rows /\ given[u] \in Profiles /\ u \in Nat /\ u # 0
  BY <1>1, <1>2
<1>4. \A row \in Rows : row.profile \in Profiles /\ row.email.address \in Addresses /\ ~row.email.capitals
  BY DEF Rows
<1> QED
  BY <1>2, <1>3, <1>4

LEMMA Registering ==
    ASSUME IInv, NEW email \in Spellings, NEW username \in Usernames,
           NEW password \in Passwords, NEW text \in Texts,
           Register(email, username, password, text)
    PROVE  IInv'
<1> DEFINE row == [email |-> Normalise(email), username |-> username, password |-> password,
                   profile |-> [f \in Fields |-> text]]
           n == Len(users) + 1
<1>1. /\ row \in Rows /\ row.profile \in Profiles
      /\ row.email.address = email.address /\ ~row.email.capitals
      /\ row.password = password /\ row.username = username /\ row.email = Normalise(email)
  BY DEF Rows, Normalise, Spellings, Profiles
<1>2. /\ ~Taken(row) /\ users' = Append(users, row) /\ given' = Append(given, row.profile)
      /\ UNCHANGED <<stage, who, change, copy>>
      /\ \/ acked' = acked
         \/ acked' = acked \union {[address |-> email.address, password |-> password]}
  BY DEF Register, locals
<1> HIDE DEF row
<1>3. AccountsTypeOK
  BY DEF IInv
<1>4. /\ users' \in Seq(Rows) /\ given' \in Seq(Profiles)
      /\ Len(users') = n /\ Len(given') = n
      /\ Ids' = 1..n /\ n \in Ids' /\ n \notin Ids /\ Ids' = Ids \union {n}
      /\ users'[n] = row /\ given'[n] = row.profile
      /\ \A u \in Ids : users'[u] = users[u] /\ given'[u] = given[u]
  BY <1>1, <1>2, <1>3, RowTypes DEF AccountsTypeOK, Ids
<1>5. AccountsTypeOK'
  <2>1. acked' \subseteq [address : Addresses, password : Passwords]
    BY <1>2, <1>3 DEF AccountsTypeOK, Spellings
  <2>2. \A c \in UpdateCalls :
            \/ stage[c] = "idle" /\ who[c] = 0 /\ change[c] = <<>> /\ copy[c] = <<>>
            \/ stage[c] = "read" /\ who[c] \in Ids' /\ change[c] \in Changes /\ copy[c] \in Profiles
    BY <1>3, <1>4 DEF AccountsTypeOK
  <2> QED
    BY <1>2, <1>3, <1>4, <2>1, <2>2 DEF AccountsTypeOK
<1>6. OneAccountEach'
  <2>1. \A u \in Ids : users[u].email.address # row.email.address
                       /\ users[u].username # row.username
    <3> SUFFICES ASSUME NEW u \in Ids PROVE users[u].email.address # row.email.address
                       /\ users[u].username # row.username
      OBVIOUS
    <3>1. users[u].email # row.email /\ users[u].username # row.username
      BY <1>2 DEF Taken
    <3>2. users[u].email = [address |-> users[u].email.address, capitals |-> FALSE]
      BY <1>3, RowTypes DEF Rows
    <3>3. row.email = [address |-> row.email.address, capitals |-> FALSE]
      BY <1>1 DEF Rows
    <3> QED
      BY <3>1, <3>2, <3>3
  <2> QED
    BY <1>4, <2>1 DEF IInv, OneAccountEach
<1>7. Stored'
  <2>1. \A a \in acked : \E u \in Ids' :
            users'[u].email.address = a.address /\ users'[u].password = a.password
    BY <1>4 DEF IInv, Stored
  <2>2. users'[n].email.address = email.address /\ users'[n].password = password
    BY <1>1, <1>4
  <2> QED
    BY <1>2, <1>4, <2>1, <2>2 DEF Stored
<1>8. Alone'
  <2>1. \A c \in UpdateCalls : stage[c] = "read" => who[c] \in Ids
    BY <1>3 DEF AccountsTypeOK
  <2> QED
    BY <1>2, <1>4, <2>1 DEF IInv, Alone
<1>9. NoLostUpdate'
  BY <1>4 DEF IInv, NoLostUpdate
<1> QED
  BY <1>5, <1>6, <1>7, <1>8, <1>9 DEF IInv

LEMMA Reading ==
    ASSUME IInv, NEW c \in UpdateCalls, NEW u \in Ids, NEW fields \in Changes,
           ReadProfile(c, u, fields)
    PROVE  IInv'
<1>1. AccountsTypeOK
  BY DEF IInv
<1>2. /\ stage'[c] = "read" /\ who'[c] = u /\ change'[c] = fields /\ copy'[c] = users[u].profile
      /\ \A d \in UpdateCalls : d # c =>
            stage'[d] = stage[d] /\ who'[d] = who[d] /\ change'[d] = change[d] /\ copy'[d] = copy[d]
      /\ UNCHANGED <<users, acked, given>> /\ Ids' = Ids
      /\ u \in CarefulUsers => \A d \in UpdateCalls : who[d] # u
  BY <1>1 DEF ReadProfile, AccountsTypeOK, Ids
<1>3. users[u].profile \in Profiles /\ u \in Nat
  BY <1>1, RowTypes
<1>4. AccountsTypeOK'
  <2>1. /\ stage' \in [UpdateCalls -> {"idle", "read"}] /\ who' \in [UpdateCalls -> Nat]
        /\ change' \in [UpdateCalls -> Changes \union {<<>>}]
        /\ copy' \in [UpdateCalls -> Profiles \union {<<>>}]
    BY <1>1, <1>3 DEF ReadProfile, AccountsTypeOK
  <2>2. ASSUME NEW d \in UpdateCalls
        PROVE  \/ stage'[d] = "idle" /\ who'[d] = 0 /\ change'[d] = <<>> /\ copy'[d] = <<>>
               \/ stage'[d] = "read" /\ who'[d] \in Ids' /\ change'[d] \in Changes /\ copy'[d] \in Profiles
    <3>1. CASE d = c
      BY <1>2, <1>3, <3>1
    <3>2. CASE d # c
      BY <1>1, <1>2, <3>2 DEF AccountsTypeOK
    <3> QED
      BY <3>1, <3>2
  <2> QED
    BY <1>1, <1>2, <2>1, <2>2 DEF AccountsTypeOK
<1>5. Alone'
  <2> SUFFICES ASSUME NEW d \in UpdateCalls, stage'[d] = "read", who'[d] \in CarefulUsers
               PROVE  /\ copy'[d] = users[who'[d]].profile
                      /\ \A e \in UpdateCalls : who'[e] = who'[d] => e = d
    BY <1>2 DEF Alone
  <2>1. CASE d = c
    BY <1>2, <2>1
  <2>2. CASE d # c
    BY <1>2, <2>2 DEF IInv, Alone
  <2> QED
    BY <2>1, <2>2
<1>6. OneAccountEach' /\ Stored' /\ NoLostUpdate'
  BY <1>2 DEF IInv, OneAccountEach, Stored, NoLostUpdate
<1> QED
  BY <1>4, <1>5, <1>6 DEF IInv

(* A call ends, whatever it did.                                           *)
LEMMA Ending ==
    ASSUME AccountsTypeOK, NEW c \in UpdateCalls, Done(c)
    PROVE  /\ stage' \in [UpdateCalls -> {"idle", "read"}] /\ who' \in [UpdateCalls -> Nat]
           /\ change' \in [UpdateCalls -> Changes \union {<<>>}]
           /\ copy' \in [UpdateCalls -> Profiles \union {<<>>}]
           /\ stage'[c] = "idle" /\ who'[c] = 0 /\ change'[c] = <<>> /\ copy'[c] = <<>>
           /\ \A d \in UpdateCalls : d # c =>
                stage'[d] = stage[d] /\ who'[d] = who[d] /\ change'[d] = change[d] /\ copy'[d] = copy[d]
BY DEF AccountsTypeOK, Done

LEMMA Aborting == ASSUME IInv, NEW c \in UpdateCalls, AbortUpdate(c) PROVE IInv'
<1>1. AccountsTypeOK
  BY DEF IInv
<1>2. UNCHANGED <<users, acked, given>> /\ Ids' = Ids /\ Done(c)
  BY DEF AbortUpdate, Ids
<1>3. AccountsTypeOK'
  BY <1>1, <1>2, Ending DEF AccountsTypeOK
<1>4. Alone'
  <2> SUFFICES ASSUME NEW d \in UpdateCalls, stage'[d] = "read", who'[d] \in CarefulUsers
               PROVE  /\ copy'[d] = users[who'[d]].profile
                      /\ \A e \in UpdateCalls : who'[e] = who'[d] => e = d
    BY <1>2 DEF Alone
  <2>1. d # c /\ who[d] \in Ids
    BY <1>1, <1>2, Ending DEF AccountsTypeOK
  <2>2. 0 \notin Ids
    BY <1>1, RowTypes
  <2> QED
    BY <1>1, <1>2, <2>1, <2>2, Ending DEF IInv, Alone
<1>5. OneAccountEach' /\ Stored' /\ NoLostUpdate'
  BY <1>2 DEF IInv, OneAccountEach, Stored, NoLostUpdate
<1> QED
  BY <1>3, <1>4, <1>5 DEF IInv

LEMMA Merges ==
    ASSUME NEW new \in Changes, NEW old \in Profiles
    PROVE  Merge(new, old) \in Profiles
<1>1. \A f \in DOMAIN new : new[f] \in Texts
  BY DEF Changes
<1> QED
  BY <1>1 DEF Merge, Profiles

LEMMA Writing == ASSUME IInv, NEW c \in UpdateCalls, WriteProfile(c) PROVE IInv'
<1> DEFINE u == who[c]
           profile == Merge(change[c], copy[c])
<1>1. AccountsTypeOK /\ Done(c) /\ acked' = acked
  BY DEF IInv, WriteProfile
<1>2. u \in Ids /\ change[c] \in Changes /\ copy[c] \in Profiles /\ stage[c] = "read"
  BY <1>1 DEF WriteProfile, AccountsTypeOK
<1>3. profile \in Profiles
  BY <1>2, Merges
<1>4. /\ users' = [users EXCEPT ![u].profile = profile]
      /\ given' = [given EXCEPT ![u] = Merge(change[c], given[u])]
  BY DEF WriteProfile, UpdateUser, Merge
<1> HIDE DEF profile, u
<1>5. given[u] \in Profiles /\ Merge(change[c], given[u]) \in Profiles
  BY <1>1, <1>2, RowTypes, Merges
<1>6. /\ Ids' = Ids /\ Len(users') = Len(users) /\ Len(given') = Len(given)
      /\ users'[u] = [users[u] EXCEPT !.profile = profile]
      /\ given'[u] = Merge(change[c], given[u])
      /\ \A v \in Ids : v # u => users'[v] = users[v] /\ given'[v] = given[v]
  BY <1>1, <1>2, <1>4, RowTypes DEF AccountsTypeOK, Ids
<1>7. /\ users'[u].profile = profile
      /\ \A v \in Ids : /\ users'[v].email = users[v].email
                        /\ users'[v].username = users[v].username
                        /\ users'[v].password = users[v].password
  BY <1>1, <1>2, <1>6, RowTypes DEF Rows
<1>8. users' \in Seq(Rows) /\ given' \in Seq(Profiles)
  <2>1. [users[u] EXCEPT !.profile = profile] \in Rows
    BY <1>1, <1>2, <1>3, RowTypes DEF Rows
  <2> QED
    BY <1>1, <1>2, <1>4, <1>5, <2>1, RowTypes DEF AccountsTypeOK, Ids
<1>9. AccountsTypeOK'
  BY <1>1, <1>6, <1>8, Ending DEF AccountsTypeOK
<1>10. OneAccountEach' /\ Stored'
  BY <1>1, <1>6, <1>7 DEF IInv, OneAccountEach, Stored
<1>11. u \in CarefulUsers => profile = Merge(change[c], given[u])
  BY <1>2 DEF IInv, Alone, NoLostUpdate, profile, u
<1>12. NoLostUpdate'
  BY <1>6, <1>7, <1>11 DEF IInv, NoLostUpdate
<1>13. Alone'
  <2> SUFFICES ASSUME NEW d \in UpdateCalls, stage'[d] = "read", who'[d] \in CarefulUsers
               PROVE  /\ copy'[d] = users'[who'[d]].profile
                      /\ \A e \in UpdateCalls : who'[e] = who'[d] => e = d
    BY DEF Alone
  <2>1. d # c /\ stage[d] = "read" /\ who'[d] = who[d] /\ who[d] \in Ids /\ who'[c] = 0
        /\ copy'[d] = copy[d]
    BY <1>1, Ending DEF AccountsTypeOK
  <2>2. 0 \notin Ids
    BY <1>1, RowTypes
  <2>3. who[d] # u /\ copy[d] = users[who[d]].profile
        /\ \A e \in UpdateCalls : who[e] = who[d] => e = d
    BY <2>1 DEF IInv, Alone, u
  <2>4. users'[who[d]] = users[who[d]]
    BY <1>6, <2>1, <2>3
  <2> QED
    BY <1>1, <2>1, <2>2, <2>3, <2>4, Ending
<1> QED
  BY <1>9, <1>10, <1>12, <1>13 DEF IInv

LEMMA NextStep == IInv /\ [AccountsNext]_accountsVars => IInv'
<1> SUFFICES ASSUME IInv, [AccountsNext]_accountsVars PROVE IInv'
  OBVIOUS
<1>1. CASE UNCHANGED accountsVars
  BY <1>1 DEF accountsVars, locals, IInv, AccountsTypeOK, Ids, OneAccountEach, Stored, Alone, NoLostUpdate
<1> QED
  BY <1>1, Registering, Reading, Writing, Aborting DEF AccountsNext

-----------------------------------------------------------------------------
LEMMA Invariance == AccountsSpec => []IInv
BY Inits, NextStep, PTL DEF AccountsSpec

(* The table and the calls keep their types.                               *)
THEOREM TypeCorrect == AccountsSpec => []AccountsTypeOK
<1>1. IInv => AccountsTypeOK
  BY DEF IInv
<1> QED
  BY <1>1, Invariance, PTL

(* An address, however it is spelled, and a username belong to one account *)
(* (service.go:51-53, repository.go:52-55).                                *)
THEOREM OneAccountPerName == AccountsSpec => []OneAccountEach
<1>1. IInv => OneAccountEach
  BY DEF IInv
<1> QED
  BY <1>1, Invariance, PTL

(* Whoever was told of an account can log in with any spelling of the      *)
(* address (service.go:51, 83-97).                                         *)
THEOREM AcknowledgedCanLogin == AccountsSpec => []AckedCanLogin
<1>1. IInv => AckedCanLogin
  <2> SUFFICES ASSUME IInv, NEW a \in acked, NEW e \in Spellings, e.address = a.address
               PROVE  LoginAccepts(e, a.password)
    BY DEF AckedCanLogin
  <2>1. PICK u \in Ids : users[u].email.address = a.address /\ users[u].password = a.password
    BY DEF IInv, Stored
  <2>2. users[u].email = [address |-> users[u].email.address, capitals |-> FALSE]
    BY RowTypes DEF IInv, Rows
  <2>3. Normalise(e) = [address |-> e.address, capitals |-> FALSE]
    <3> DEFINE n == Normalise(e)
    <3>1. n \in Spellings /\ n.address = e.address /\ n.capitals = FALSE
      BY DEF Normalise, Spellings
    <3> HIDE DEF n
    <3>2. n = [address |-> n.address, capitals |-> n.capitals]
      BY <3>1 DEF Spellings
    <3>3. n = [address |-> e.address, capitals |-> FALSE]
      BY <3>1, <3>2
    <3> QED
      BY <3>3 DEF n
  <2> QED
    BY <2>1, <2>2, <2>3 DEF LoginAccepts
<1> QED
  BY <1>1, Invariance, PTL

(* A field of a careful user's profile shows the last value written for it *)
(* (service.go:146-171).                                                   *)
THEOREM UpdatesAreKept == AccountsSpec => []NoLostUpdate
<1>1. IInv => NoLostUpdate
  BY DEF IInv
<1> QED
  BY <1>1, Invariance, PTL
=============================================================================
