--------------------------- MODULE MessageHistory ---------------------------
(***************************************************************************)
(* The message history of one room in chat-service: message.Service.Send   *)
(* and GetMessages and the repository's Insert and ListByRoom              *)
(* (services/chat-service/internal/message).                               *)
(*                                                                         *)
(* A reader walks the history from new to old, page after page, giving     *)
(* back the cursor of each answer, with a limit of its choice every time.  *)
(* Meanwhile messages are sent.  Send stamps created_at and a random id    *)
(* before the INSERT, so rows need not appear in the order of their        *)
(* stamps, and several may carry the same one.                             *)
(*                                                                         *)
(* The clock counts nanoseconds; the column is a TIMESTAMPTZ, which keeps  *)
(* microseconds.  The in-memory repository keeps the stamp as it is.       *)
(*                                                                         *)
(* Rows are compared by (created_at, id) alone; contents play no role.     *)
(***************************************************************************)
EXTENDS Naturals, SequencesExt

CONSTANTS
    Senders,   \* concurrent SendMessage calls
    Ids,       \* the random message ids, ordered
    Limits,    \* the limits readers ask for, after effectiveLimit (1..200)
    Micro,     \* ticks of the clock in a unit of TIMESTAMPTZ (1000 ns in 1 us)
    MaxTime    \* bound: the clock

ASSUME HistoryAssumption ==
    /\ Ids \subseteq Nat /\ Limits \subseteq Nat \ {0}
    /\ Micro \in Nat \ {0} /\ MaxTime \in Nat

VARIABLES
    stored,    \* the rows of messages for this room
    memory,    \* what the same Inserts leave in an in-memory repository
    now,       \* the clock of chat-service
    sending,   \* the stamped messages not inserted yet, by sender
    cursor,    \* the cursor the reader holds: a row key, or Start or End
    shown,     \* the rows the reader has been given
    count,     \* history: how many rows the answers held in all
    present    \* history: the rows stored when the walk began

historyVars == <<stored, memory, now, sending, cursor, shown, count, present>>

None == [is |-> "no message"]
Start == [is |-> "start"]   \* the empty cursor of a first request
End == [is |-> "end"]       \* the empty next_cursor of a last answer

(* The row comparison (created_at, id) < (at, id) of ListByRoom.           *)
Older(m, n) == m.at < n.at \/ (m.at = n.at /\ m.id < n.id)

(* What the column created_at keeps of a stamp: whole microseconds.        *)
Row(m) == [at |-> m.at \div Micro, id |-> m.id]

HistoryInit ==
    /\ stored = {} /\ memory = {} /\ now = 0
    /\ sending = [s \in Senders |-> None]
    /\ cursor = End /\ shown = {} /\ count = 0 /\ present = {}

-----------------------------------------------------------------------------
(* Service.Send: stamp, then Repository.Insert; the call may die between.  *)

UsedIds == {m.id : m \in (memory \cup {sending[s] : s \in Senders}) \ {None}}

Stamp(s) ==
    /\ sending[s] = None
    /\ \E i \in Ids \ UsedIds : sending' = [sending EXCEPT ![s] = [at |-> now, id |-> i]]
    /\ UNCHANGED <<stored, memory, now, cursor, shown, count, present>>

Insert(s) ==
    /\ sending[s] # None
    /\ stored' = stored \cup {Row(sending[s])}
    /\ memory' = memory \cup {sending[s]}
    /\ sending' = [sending EXCEPT ![s] = None]
    /\ UNCHANGED <<now, cursor, shown, count, present>>

Fail(s) ==
    /\ sending[s] # None
    /\ sending' = [sending EXCEPT ![s] = None]
    /\ UNCHANGED <<stored, memory, now, cursor, shown, count, present>>

Tick ==
    /\ now < MaxTime
    /\ now' = now + 1
    /\ UNCHANGED <<stored, memory, sending, cursor, shown, count, present>>

-----------------------------------------------------------------------------
(* GetMessages. *)

(* Mutants: the cursor compares created_at alone, with <= or with <.       *)
CandidatesUpTo(cur) == {m \in stored : cur = Start \/ m.at <= cur.at}

CandidatesBefore(cur) == {m \in stored : cur = Start \/ m.at < cur.at}

(* The rows a request with this cursor may be answered with.               *)
Candidates(cur) == {m \in stored : cur = Start \/ Older(m, cur)}

(* ListByRoom: the newest n rows, ORDER BY created_at DESC, id DESC.       *)
ListByRoom(n, cur) ==
    {m \in Candidates(cur) : Cardinality({k \in Candidates(cur) : Older(m, k)}) < n}

(* The same by the in-memory repository that the tests of the repository   *)
(* run on: filter the rows in order of insertion, sort, cut.               *)
(* Mutant: rows with the same created_at stay in the order of their ids.   *)
NewerByTime(m, n) == n.at < m.at \/ (n.at = m.at /\ m.id < n.id)

Newer(m, n) == Older(n, m)

InMemListByRoom(n, cur) ==
    LET filtered == {m \in memory : cur # Start => Older(m, cur)}
        sorted == CHOOSE s \in SetToSeqs(filtered) :
                    \A i, j \in DOMAIN s : i < j => Newer(s[i], s[j])
    IN  ToSet(SubSeq(sorted, 1, IF n > 0 /\ Len(sorted) > n THEN n ELSE Len(sorted)))

Oldest(rows) == CHOOSE m \in rows : \A k \in rows \ {m} : Older(m, k)

(* One row more than the limit is read to learn whether the walk goes on.  *)
Page(limit, cur) == ListByRoom(limit, cur)

NextCursor(limit, cur) ==
    IF Cardinality(ListByRoom(limit + 1, cur)) > limit
    THEN Oldest(Page(limit, cur)) ELSE End

GetMessages(limit) ==
    /\ cursor # End
    /\ shown' = shown \cup Page(limit, cursor)
    /\ count' = count + Cardinality(Page(limit, cursor))
    /\ cursor' = NextCursor(limit, cursor)
    /\ UNCHANGED <<stored, memory, now, sending, present>>

(* The reader opens the room, or reloads it, at any time.                  *)
BeginWalk ==
    /\ cursor' = Start /\ shown' = {} /\ count' = 0
    /\ present' = stored
    /\ UNCHANGED <<stored, memory, now, sending>>

HistoryNext ==
    \/ \E s \in Senders : Stamp(s) \/ Insert(s) \/ Fail(s)
    \/ \E limit \in Limits : GetMessages(limit)
    \/ BeginWalk
    \/ Tick

HistorySpec == HistoryInit /\ [][HistoryNext]_historyVars

-----------------------------------------------------------------------------
(***************************************************************************)
(* repository_inmem.go:36 says that its filter has the same meaning as     *)
(* PostgreSQL's (created_at, id) < (at, id): after the same Inserts, both  *)
(* answer a request for the rows behind a message, or for the first ones,  *)
(* with the same messages.                                                 *)
(***************************************************************************)
SameMeaning ==
    \A cur \in memory \cup {Start} : \A limit \in Limits : \A n \in {limit, limit + 1} :
        {Row(m) : m \in InMemListByRoom(n, cur)}
            = ListByRoom(n, IF cur = Start THEN Start ELSE Row(cur))

(***************************************************************************)
(* The two implementations of ListByRoom answer every request alike as     *)
(* long as no two messages of the room have different stamps within one    *)
(* microsecond: equal stamps, the order, the cut and the row of the cursor *)
(* make no difference (repository_inmem.go:28-61).                         *)
(***************************************************************************)
RepositoriesAgree ==
    (\A m, k \in memory : Row(m).at = Row(k).at => m.at = k.at) => SameMeaning

(***************************************************************************)
(* Every row stored before the walk began has been shown when the answer   *)
(* without next_cursor arrives: equal stamps, changing limits and rows     *)
(* inserted meanwhile make it skip none (repository.go:37-38).             *)
(***************************************************************************)
NothingMissed == cursor = End => present \subseteq shown

(***************************************************************************)
(* A walk only goes back in time: every row of a page is older than all    *)
(* that was shown before, so no row comes twice and a client that appends  *)
(* pages keeps its list sorted, though rows share a created_at or are      *)
(* inserted with stamps of the past (repository.go:37-38).                 *)
(***************************************************************************)
WalksBack ==
    [][shown' # {} =>
        /\ Cardinality(shown' \ shown) = count' - count
        /\ \A m \in shown' \ shown, k \in shown : Older(m, k)]_historyVars
=============================================================================
