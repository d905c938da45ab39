--------------------------- MODULE RefreshTokens ---------------------------
(***************************************************************************)
(* Refresh-token rotation in user-service (user.Service.Refresh and        *)
(* issueTokenPair, services/user-service/internal/user).                   *)
(*                                                                         *)
(* Concurrent gRPC calls share one table, refresh_tokens.  A call is a     *)
(* sequence of separate SQL statements without a transaction: read the     *)
(* row, check it in memory, revoke it, insert its successor.  A call may   *)
(* end after any of them: a statement fails, the request is cancelled, the *)
(* process dies, or the answer is lost on the way to the client.           *)
(*                                                                         *)
(* A token is its position in the table, a login session its first token.  *)
(* The clients of the Careful sessions never present a token in two calls  *)
(* at once; the others do as they please.  The server does not care.       *)
(***************************************************************************)
EXTENDS Naturals, Sequences

CONSTANTS
    Calls,      \* concurrent gRPC calls
    TTL,        \* refreshTokenTTL
    Careful,    \* sessions whose client uses a token in one call at a time
    MaxTokens,  \* bound: rows ever inserted
    MaxTime     \* bound: the clock

ASSUME TokensAssumption == TTL \in Nat /\ MaxTokens \in Nat /\ MaxTime \in Nat

VARIABLES
    table,  \* refresh_tokens, with each row's parent and login session
    held,   \* the tokens some client has received
    now,    \* the clock
    pc,     \* what each call does next
    arg,    \* the token a call rotates; 0 for a login
    seen,   \* the row a refresh read
    late    \* history: the token was revoked before the call began

vars == <<table, held, now, pc, arg, seen, late>>

Tokens == 1..MaxTokens

Row == [parent : {0} \cup Tokens, session : Tokens, expires : Nat, revoked : BOOLEAN]

NoRow == [parent |-> 0, session |-> 0, expires |-> 0, revoked |-> FALSE]

Init ==
    /\ table = <<>> /\ held = {} /\ now = 0
    /\ pc = [p \in Calls |-> "idle"]
    /\ arg = [p \in Calls |-> 0]
    /\ seen = [p \in Calls |-> NoRow]
    /\ late = [p \in Calls |-> FALSE]

Goes(p, from, to) == pc[p] = from /\ pc' = [pc EXCEPT ![p] = to]

(* The call is over and its local variables with it.                       *)
Return(p) ==
    /\ pc' = [pc EXCEPT ![p] = "idle"]
    /\ arg' = [arg EXCEPT ![p] = 0]
    /\ seen' = [seen EXCEPT ![p] = NoRow]
    /\ late' = [late EXCEPT ![p] = FALSE]

-----------------------------------------------------------------------------
(* Login, once the password matched. *)
Login(p) ==
    /\ Goes(p, "idle", "issue")
    /\ UNCHANGED <<table, held, now, arg, seen, late>>

Refresh(p, t) ==
    /\ t \in held
    /\ table[t].session \in Careful => \A q \in Calls : arg[q] # t
    /\ Goes(p, "idle", "read")
    /\ arg' = [arg EXCEPT ![p] = t]
    /\ late' = [late EXCEPT ![p] = table[t].revoked]
    /\ UNCHANGED <<table, held, now, seen>>

GetRefreshTokenByHash(p) ==
    /\ Goes(p, "read", "check")
    /\ seen' = [seen EXCEPT ![p] = table[arg[p]]]
    /\ UNCHANGED <<table, held, now, arg, late>>

(* Mutant: only the expiry is checked.                                     *)
UsableUntilExpiry(row) == now <= row.expires

Usable(row) == ~row.revoked /\ now <= row.expires

(* Mutant: the successor is issued without revoking the old token.         *)
CheckThenIssue(p) ==
    /\ Usable(seen[p])
    /\ Goes(p, "check", "issue")
    /\ UNCHANGED <<table, held, now, arg, seen, late>>

Check(p) ==
    /\ Usable(seen[p])
    /\ Goes(p, "check", "revoke")
    /\ UNCHANGED <<table, held, now, arg, seen, late>>

Refuse(p) ==
    /\ pc[p] = "check" /\ ~Usable(seen[p])
    /\ Return(p)
    /\ UNCHANGED <<table, held, now>>

RevokeRefreshToken(p) ==
    /\ Goes(p, "revoke", "issue")
    /\ table' = [table EXCEPT ![arg[p]].revoked = TRUE]
    /\ UNCHANGED <<held, now, arg, seen, late>>

Expiry == now + TTL

(* issueTokenPair: the new row belongs to the session of the rotated one,  *)
(* or, for a login, starts one.  The answer may be lost after the commit.  *)
CreateRefreshToken(p) ==
    LET id == Len(table) + 1 IN
    /\ pc[p] = "issue" /\ id \in Tokens
    /\ table' = Append(table,
          [parent |-> arg[p],
           session |-> IF arg[p] = 0 THEN id ELSE seen[p].session,
           expires |-> Expiry, revoked |-> FALSE])
    /\ held' \in {held, held \cup {id}}
    /\ Return(p)
    /\ UNCHANGED now

(* A statement fails, the request is cancelled or the process dies.        *)
Abort(p) ==
    /\ pc[p] # "idle"
    /\ Return(p)
    /\ UNCHANGED <<table, held, now>>

Tick ==
    /\ now < MaxTime
    /\ now' = now + 1
    /\ UNCHANGED <<table, held, pc, arg, seen, late>>

CallStep(p) ==
    \/ Login(p) \/ \E t \in held : Refresh(p, t)
    \/ GetRefreshTokenByHash(p) \/ Check(p) \/ Refuse(p) \/ RevokeRefreshToken(p)
    \/ CreateRefreshToken(p) \/ Abort(p)

Next == Tick \/ \E p \in Calls : CallStep(p)

Spec == Init /\ [][Next]_vars

-----------------------------------------------------------------------------
(* The token a call rotates is in the table, and it knows the row it read. *)
CallOK(p) ==
    /\ pc[p] = "idle" => arg[p] = 0
    /\ arg[p] # 0 => arg[p] \in DOMAIN table
    /\ pc[p] \in {"read", "check", "revoke"} => arg[p] # 0
    /\ pc[p] \in {"check", "revoke", "issue"} /\ arg[p] # 0 => seen[p] \in Row

TypeOK ==
    /\ table \in Seq(Row) /\ Len(table) <= MaxTokens
    /\ held \subseteq DOMAIN table /\ now \in Nat
    /\ pc \in [Calls -> {"idle", "read", "check", "revoke", "issue"}]
    /\ arg \in [Calls -> Nat]
    /\ seen \in [Calls -> Row \cup {NoRow}]
    /\ late \in [Calls -> BOOLEAN]
    /\ \A p \in Calls : CallOK(p)

Parent(t) == table[t].parent

(***************************************************************************)
(* service.go:125: the old token is revoked before its successor exists,   *)
(* so at no moment are a token and its successor both usable, wherever     *)
(* calls overlap or die.                                                   *)
(***************************************************************************)
OldRevokedBeforeNew ==
    \A t \in DOMAIN table : Parent(t) # 0 => table[Parent(t)].revoked

(***************************************************************************)
(* A refresh that begins after its token was revoked is refused: it never  *)
(* reaches the statements that revoke and issue (service.go:122).          *)
(***************************************************************************)
LateRefreshRefused ==
    \A p \in Calls : pc[p] \in {"revoke", "issue"} => ~late[p]

(***************************************************************************)
(* service.go:107: "one token can be used only once".  No token has two    *)
(* successors.                                                             *)
(***************************************************************************)
SingleUse ==
    \A s, t \in DOMAIN table : Parent(s) = Parent(t) /\ Parent(s) # 0 => s = t

(***************************************************************************)
(* The same for the sessions whose client waits for an answer before it    *)
(* presents a token again, whatever the clients of other sessions do.      *)
(***************************************************************************)
CarefulSingleUse ==
    \A s, t \in DOMAIN table :
        Parent(s) = Parent(t) /\ Parent(s) # 0 /\ table[s].session \in Careful => s = t

(***************************************************************************)
(* Such a session has at most one usable refresh token, which is what the  *)
(* rotation is for (service.go:103-107): not even calls that die and       *)
(* overlapping calls of other sessions give it a second one.               *)
(***************************************************************************)
OneUsablePerSession ==
    \A s, t \in DOMAIN table :
        /\ table[s].session \in Careful /\ table[s].session = table[t].session
        /\ ~table[s].revoked /\ ~table[t].revoked
        => s = t
=============================================================================
