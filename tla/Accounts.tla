------------------------------ MODULE Accounts ------------------------------
(***************************************************************************)
(* Accounts and profiles of user-service (internal/user/service.go         *)
(* Register, Login, UpdateMe and the users statements of repository.go).   *)
(*                                                                         *)
(* Register is one INSERT under UNIQUE(email) and UNIQUE(username).  The   *)
(* e-mail address is lower-cased before it is stored or looked up: here a  *)
(* spelling is an address and whether it has capitals.  UpdateMe reads the *)
(* row, overwrites the fields that were given and writes all of them back, *)
(* in two statements without a transaction.                                *)
(*                                                                         *)
(* A user's id is the place of its row in users.  Whether a password       *)
(* matches its hash is equality.  status_text is treated like avatar_url.  *)
(* The client of one of the CarefulUsers waits for the answer of an        *)
(* UpdateMe before it sends the next; others do as they please.  The       *)
(* server does not care.                                                   *)
(***************************************************************************)
EXTENDS Naturals, Sequences

CONSTANTS
    UpdateCalls,   \* concurrent UpdateMe calls
    Addresses, Usernames, Passwords, Texts,
    CarefulUsers,  \* users whose updates do not overlap
    MaxUsers       \* bounds the users of a behaviour

ASSUME AccountsAssumption == MaxUsers \in Nat

VARIABLES
    users,   \* the table users
    stage,   \* per call: "idle" or "read"
    who,     \* the requester of a call that has read
    change,  \* the fields the request gave
    copy,    \* the profile it read
    acked,   \* history: address and password of every acknowledged Register
    given    \* history: per user and field, the last value written for it

locals == <<stage, who, change, copy>>
accountsVars == <<users, locals, acked, given>>

Fields == {"displayName", "avatarURL"}
Profiles == [Fields -> Texts]
Changes == UNION {[present -> Texts] : present \in SUBSET Fields}
Spellings == [address : Addresses, capitals : BOOLEAN]
Ids == DOMAIN users

AccountsInit ==
    /\ users = <<>> /\ acked = {} /\ given = <<>>
    /\ stage = [c \in UpdateCalls |-> "idle"] /\ who = [c \in UpdateCalls |-> 0]
    /\ change = [c \in UpdateCalls |-> <<>>] /\ copy = [c \in UpdateCalls |-> <<>>]

(* Mutant: the address is stored and looked up as it was typed.            *)
AsTyped(email) == email

Normalise(email) == [email EXCEPT !.capitals = FALSE]

-----------------------------------------------------------------------------
(* Mutant: without UNIQUE(username).                                       *)
EmailTaken(row) == \E u \in Ids : users[u].email = row.email

Taken(row) ==
    \E u \in Ids : users[u].email = row.email \/ users[u].username = row.username

(* The answer may be lost after the INSERT.                                *)
Register(email, username, password, text) ==
    LET row == [email |-> Normalise(email), username |-> username, password |-> password,
                profile |-> [f \in Fields |-> text]] IN
    /\ Len(users) < MaxUsers /\ ~Taken(row)
    /\ users' = Append(users, row)
    /\ given' = Append(given, row.profile)
    /\ \E answered \in BOOLEAN :
        acked' = IF answered THEN acked \union {[address |-> email.address, password |-> password]}
                             ELSE acked
    /\ UNCHANGED locals

(* Login looks at the one row of the address, or refuses.                  *)
LoginAccepts(email, password) ==
    \E u \in Ids : users[u].email = Normalise(email) /\ users[u].password = password

ReadProfile(c, u, fields) ==
    /\ stage[c] = "idle" /\ u \in Ids
    /\ u \in CarefulUsers => \A d \in UpdateCalls : who[d] # u
    /\ stage' = [stage EXCEPT ![c] = "read"] /\ who' = [who EXCEPT ![c] = u]
    /\ change' = [change EXCEPT ![c] = fields]
    /\ copy' = [copy EXCEPT ![c] = users[u].profile]
    /\ UNCHANGED <<users, acked, given>>

(* Mutant: one check of presence for all fields.                           *)
MergeTogether(new, old) == [f \in Fields |-> IF DOMAIN new = Fields THEN new[f] ELSE old[f]]

Merge(new, old) == [f \in Fields |-> IF f \in DOMAIN new THEN new[f] ELSE old[f]]

UpdateUser(u, profile) == users' = [users EXCEPT ![u].profile = profile]

Done(c) ==
    /\ stage' = [stage EXCEPT ![c] = "idle"] /\ who' = [who EXCEPT ![c] = 0]
    /\ change' = [change EXCEPT ![c] = <<>>] /\ copy' = [copy EXCEPT ![c] = <<>>]

WriteProfile(c) ==
    /\ stage[c] = "read"
    /\ UpdateUser(who[c], Merge(change[c], copy[c]))
    /\ given' = [given EXCEPT ![who[c]] = [f \in Fields |->
                    IF f \in DOMAIN change[c] THEN change[c][f] ELSE @[f]]]
    /\ Done(c)
    /\ UNCHANGED acked

(* The call ends between its statements: deadline, crash, lost database.   *)
AbortUpdate(c) ==
    /\ stage[c] = "read"
    /\ Done(c)
    /\ UNCHANGED <<users, acked, given>>

AccountsNext ==
    \/ \E e \in Spellings, n \in Usernames, p \in Passwords, t \in Texts : Register(e, n, p, t)
    \/ \E c \in UpdateCalls :
        \/ \E u \in Ids, fields \in Changes : ReadProfile(c, u, fields)
        \/ WriteProfile(c) \/ AbortUpdate(c)

AccountsSpec == AccountsInit /\ [][AccountsNext]_accountsVars

-----------------------------------------------------------------------------
Rows ==
    [email : [address : Addresses, capitals : {FALSE}], username : Usernames,
     password : Passwords, profile : Profiles]

AccountsTypeOK ==
    /\ users \in Seq(Rows) /\ given \in Seq(Profiles) /\ Len(given) = Len(users)
    /\ acked \subseteq [address : Addresses, password : Passwords]
    /\ stage \in [UpdateCalls -> {"idle", "read"}] /\ who \in [UpdateCalls -> Nat]
    /\ change \in [UpdateCalls -> Changes \union {<<>>}]
    /\ copy \in [UpdateCalls -> Profiles \union {<<>>}]
    /\ \A c \in UpdateCalls :
        \/ stage[c] = "idle" /\ who[c] = 0 /\ change[c] = <<>> /\ copy[c] = <<>>
        \/ stage[c] = "read" /\ who[c] \in Ids /\ change[c] \in Changes /\ copy[c] \in Profiles

(***************************************************************************)
(* However an address is spelled, it and a username belong to one account  *)
(* (service.go:51-53, repository.go:52-55).                                *)
(***************************************************************************)
OneAccountEach ==
    \A u, v \in Ids :
        \/ users[u].email.address = users[v].email.address
        \/ users[u].username = users[v].username
        => u = v

(***************************************************************************)
(* service.go:51: who was told of an account can log in for ever, with any *)
(* spelling of the address, and whatever others register or update.        *)
(***************************************************************************)
AckedCanLogin ==
    \A a \in acked : \A e \in Spellings :
        e.address = a.address => LoginAccepts(e, a.password)

(***************************************************************************)
(* Every field shows the last value written for it: leaving it out of an   *)
(* UpdateMe does not bring an older one back (service.go:153-167), nor     *)
(* does what any other user's overlapping calls do.  It holds of users     *)
(* whose own updates do not overlap; UPDATE writes all fields, so of two   *)
(* at once the second restores what it had read.                           *)
(***************************************************************************)
NoLostUpdate == \A u \in Ids \cap CarefulUsers : users[u].profile = given[u]
=============================================================================
