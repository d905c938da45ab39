# TLA+ models of go-microservices-chat

A chat application of three Go services: `user-service` (accounts, login,
tokens, profiles), `chat-service` (rooms, memberships, message history) and
`realtime-service` (WebSocket delivery), with PostgreSQL behind the first two,
Redis Pub/Sub between the processes of the third, and Envoy in front of all.
This directory holds TLA+ specifications translated from the Go sources, the
TLC configurations that check them and TLAPS proofs of their main properties.

Run things from this directory: `tlc -config MCHub.cfg MCHub.tla`,
`tlapm HubProofs.tla`.

## 1. Inventory

| part | state it keeps | operations | interacts with |
|---|---|---|---|
| `hub.Hub`, `hub.Client` | three channels, the map room -> clients (owned by one goroutine), a bounded channel per client | Register, Unregister, LocalBroadcast, Stop, Run | handlers and the Redis subscriber send on its channels; it fills the clients' channels |
| `ws.Handler` | per connection: a read and a write goroutine, a context, the `websocket.Conn` | ServeHTTP, readLoop, writeLoop, HandleMessage, sendError | Register/Unregister on the Hub; persist and publish goroutines per message |
| `pubsub` (Redis) | subscriptions | Ping, Publish, Subscribe, Close | Hub.LocalBroadcast through the subscriber callback |
| `chatclient` | one gRPC connection | Dial, SendMessage, Close | chat-service |
| realtime `main` | lifecycle | start, select, Shutdown, defers | all of the above |
| `room.Service`, repositories, gRPC adapter | tables rooms, room_members | CreateRoom, GetRoom, ListMyRooms, SearchRooms, JoinRoom, LeaveRoom, ListRoomMembers, EnsureMember | message adapter asks EnsureMember; member lists are enriched from user-service |
| `message.Service`, repositories, gRPC adapter | table messages | Send, GetMessages | EnsureMember |
| `userclient` | one gRPC connection | Dial, BatchGetUsers, Close | user-service |
| `user.Service`, repositories, gRPC adapter | tables users, refresh_tokens | Register, Login, Refresh, GetMe, UpdateMe, GetUser, BatchGetUsers | issuer |
| `pkg/auth`, `pkg/interceptor` | signing key | RequesterID, PropagateRequester, IssueAccessToken, JWKS; logging | every service |
| generated gRPC code | none | stubs, handlers | carries every call between services |
| `main`s, configs, migrations, docs | lifecycle, environment, schema | start and stop | |

What is hard here: `Run` takes ready channels in an arbitrary order; channels
close while others send; buffers fill up; either goroutine of a connection may
end first; every operation of chat- and user-service that writes twice does so
in separate SQL statements without a transaction, while other calls run, and may
die in between; reads of two statements see two states; stamps are taken before
the INSERT; a request passes up to three processes, each with an identity, an
error code and a client that may stop waiting; processes start and stop
halfway. The full list, with the line where each bites and the properties that
cover it, is `hazards` in `PROJECT.json`.

What makes each part correct, in a sentence: the Hub never panics, delivers to
subscribers of the room only, in order, drops only for full buffers and keeps
nobody waiting; a connection releases its goroutines and is never cut while it
is usable; a refresh token is revoked before its successor exists and is good
for one rotation; an account belongs to one address, and a profile keeps what
was written to it; a message reaches every process that listens, and no answer
overtakes its question; pages of the history neither repeat nor skip a message;
who posts in a room is or was its member, and who was told of a membership has
it and is seen by readers; a refusal means that nothing was done, and only the
database or user-service can hold a request; a graceful stop costs no accepted
request its answer and withdraws the keys last, and a start that fails leaves
nothing open.

## 2. Modules

| module | models | state and actions |
|---|---|---|
| `Hub` | `hub.go`, `client.go` | a variable per channel, `rooms`, `send`, `closed`; an action per method and per `case` of the select in `Run`. `got`, `target`: history |
| `OrderedFanout`, `HubFanout` | what `Hub` promises | the abstract specification: payloads are accepted in a room, dispatched once, in order, to connections of that room; `HubFanout` maps `Hub` to it (`FansOut`) |
| `WsConnection` (extends `Hub`) | `ws/handler.go` | `handler` and `writer` are the program counters of the two goroutines, `conn` and `ctxDone` what they share; every step of theirs that touches the Hub is the action of `Hub`, taken where the code calls it |
| `RealtimeDelivery` | `HandleMessage`, `pubsub/redis.go`, `chatclient`, the subscriber of realtime `main` | per message the state of its two goroutines and of its PUBLISH commands; per process the subscription, what it received and what it gave to its Hub. Redis is external |
| `SharedLog`, `DeliveryLog` | what `RealtimeDelivery` promises | the abstract specification: one numbered log, of which each process shows the next event or loses some it has not shown; `DeliveryLog` maps `RealtimeDelivery` to it (`SharesOneLog`) |
| `RealtimeLifecycle` | realtime `main` and its configuration | `main` is the program counter of `run`, from `config.Load` to the exit; the listener, each connection (in its handshake, hijacked by `Accept`, registered with the Hub), the subscriber and the three things the defers close |
| `GrpcLifecycle` | user and chat `main` and their configurations, `userclient.Dial` and `Close` | the same for the two gRPC services: `errCh`, each server, the pool, the connection to user-service, and RPCs with their statements and calls. `service` says which of the two a behaviour is |
| `RpcPath` | `chat_grpc.pb.go`, `user_grpc.pb.go`, `pkg/auth/context.go`, all adapters and `mapError`s, chat `grpc/server.go`, `userclient` | a call from outside and the call chat-service makes for it are two hops, each with its request, the statement it is at, whether it wrote and what its client was told; a request that cannot be decoded is answered before the interceptor. `RoomProgram`, `MessageProgram` and `UserProgram` are the statements of every operation of the system, in order, each with the errors that refuse it |
| `RefreshTokens` | `user/service.go` Login, Refresh, issueTokenPair and the refresh-token statements | `pc`, `arg`, `seen` are the locals of concurrent calls; an action per SQL statement and one for the check in memory; `Abort` after any of them |
| `Accounts` | `user/service.go` Register, Login, UpdateMe and the `users` statements | the table; `who`, `change`, `copy` are the locals of concurrent UpdateMe calls |
| `MessageHistory` | `message/service.go` Send, GetMessages; `Insert`, and `ListByRoom` of both repositories | stamped but uninserted messages, one reader's cursor, and the rows of both repositories: `stored` in PostgreSQL, whose stamps are cut to microseconds (`Row`), and `memory`, which keeps them whole |
| `ChatRooms` | `room/service.go`, its statements, `message/grpc.go` SendMessage | an action per SQL statement of CreateRoom, JoinRoom, LeaveRoom, SendMessage, GetRoom and ListRoomMembers; the answers ListRooms can give with its limit (`ListRooms`, an operator, since it changes nothing); `acked`, `quit`, `failed`, `sure`, `missed`: history |
| `HubProofs`, `ChatServiceProofs`, other `*Proofs` | theorems: about `Hub`, `HubFanout` and `WsConnection`; about `ChatRooms` and `MessageHistory`; about the module of that name | |
| `MC*` | TLC instances | |

How they fit: `WsConnection` contains `Hub` and shows that handlers use it as
`Hub` assumes; `RealtimeDelivery` ends where `Hub` begins (an element of
`dispatched[p]` is a `LocalBroadcast` call of process `p`) and begins where
`WsConnection` reads a valid frame; its `Persist` is a `RealtimeCall` of
`RpcPath`. `RpcPath` carries every operation between the services and keeps only
the order of its statements; what the statements do to the tables while others
run is in `ChatRooms`, `MessageHistory`, `Accounts` and `RefreshTokens`, whose
second statements are the `InsertMessage`, `Insert`, `WriteProfile` and so on of
its programs. A login of `RefreshTokens` starts after the password check of
`Accounts`. The two lifecycles are the processes in which all of this runs.

Definitions named in comments as "Mutant" are wrong variants of the definition
that follows them, each a plausible bug; substituting one must make TLC report
the property it is paired with in `PROJECT.json`. No specification uses them.

Abstractions. Payloads, names, contents and ids are numbers or model values. A
broadcast is one step: `Run` alone writes `rooms`, and a receiver that empties
one buffer in the middle of the iteration does the same as one that ran before
it. An SQL statement is atomic. A WebSocket `Write` or `Read` that fails has
closed the connection, as `github.com/coder/websocket` does. A PUBLISH reaches
the inboxes of all subscribed processes at once; that one process reads later
than another is in `inbox`. `RpcPath` lets a statement answer anything its table
can answer, and adds to that a failure before or after it took effect. A hop
whose client stopped waiting may stay unserved or go on for any time. The
lifecycles skip what has no effect on anything they keep (`signal.NotifyContext`,
constructors). "Careful" clients wait for an answer before they repeat a call on
the same token or profile. The server does not ask for that; the properties that
need it say so, and the other clients of the same behaviour do not do it.

## 3. Runs

| run | cfg | shows | bounds | states |
|---|---|---|---|---|
| `hub` | `MCHub.cfg` | no panic, channels closed only after the owner left, order and rooms of deliveries, gaps between deliveries only after a full buffer, subscriptions end only by their owner; `Hub` implements `OrderedFanout` | 3 connections in 2 rooms (two share one, so departures disturb somebody), capacities 2/1/2, buffers of 2 and 4 broadcasts: a buffer overflows and is read again, so gaps occur | 1.3 M |
| `ws` | `MCWsConnection.cfg` | order of the defers, nothing lost in the write loop; both goroutines end, payloads are dispatched though nobody reads, subscribed leavers are released | 2 connections in a room, all capacities 1, 2 broadcasts: the second finds a full buffer | 103 k |
| `ws_zombie` | `MCWsZombie.cfg` | **violation** of `UnregisterRemoves` (comment at `hub.go:52`) | the same, 1 broadcast | |
| `delivery` | `MCRealtimeDelivery.cfg` | an answer never overtakes its question; all processes show one stream, each event once, and lack only what their subscription lost; `RealtimeDelivery` implements `SharedLog` | 2 processes, 2 messages (question and answer), each command sent twice at most, 3 PUBLISHes executed: a duplicate of the question may come before, between and after | 1.7 M |
| `realtime_process` | `MCRealtimeLifecycle.cfg` | whoever is connected before the outcome finds everything open, the process ends | 3 connections: one in a handshake, one registered, one to come | 6 k |
| `realtime_sockets` | `MCRealtimeSockets.cfg` | **violation** of `SocketsEndBeforeRedis` (`docs/phase/phase-2.md:188`, comment at realtime `main.go:106-107`) | the same | |
| `lifecycle` | `MCGrpcLifecycle.cfg` | a signal costs no RPC its answer, the key server is stopped after the last RPC, what was opened is closed wherever the start fails, only an RPC that never ends holds the process | 3 RPCs of any number of statements and calls; user-service and chat-service | 5 k |
| `stop_hangs` | `MCGrpcStopHangs.cfg` | **violation** of `StopIsForced` (comment at user `main.go:117`) | the same | |
| `rpc_path` | `MCRpcPath.cfg` | refusals that changed nothing; an answer in the end, unless the database or user-service never answers | 2 calls of 2 users, each any of the 16 RPCs, with or without a user, and their inner calls: two member lists may be completed at once | 563 k |
| `user_service` | `MCUserService.cfg` | tokens: old revoked before new, late refreshes refused; one rotation per token and one usable token in a careful session. Accounts: one per address and name, who was told of an account can log in, no lost update for a careful user | tokens: 2 calls, 4 tokens, time 0..2 with a lifetime of 1; session 1 is careful, the others are not. Accounts: 2 users, 2 of each of addresses (with and without capitals), names, passwords, texts; 2 calls; user 1 is careful | 1.1 M |
| `tokens_race` | `MCRefreshRace.cfg` | **violation** of `SingleUse` (comment at `user/service.go:107`) | 2 calls, 3 tokens, nobody careful | |
| `chat_service` | `MCChatService.cfg` | rooms: acknowledged members are members and are seen by readers of the room, senders were members, a room lacks its creator only after a failure. History: nothing missed, walks go back without repeating; both repositories answer alike while no two different stamps share a microsecond | rooms: 3 calls, 2 users, 1 room: a reader between the statements of two writers; rooms do not interact in these properties. History: 2 senders, 4 ids, 4 stamps, two of them to a microsecond, limits 1 and 2: stamps that are equal, that become equal when they are cut, and that stay apart, on both sides of a page boundary | 277 k |

`user_service` and `chat_service` each check two modules whose parts share no
variable: in `MCUserService` and `MCChatService` a behaviour is one of either part
(`part`) while the other rests, which reaches every state of each.

`CHECK_DEADLOCK FALSE` appears where the bounds, the end of the process or the
single use of a connection or call let the system come to rest. Symmetry is used
in runs without liveness only.

Fairness. `Run` is a goroutine that is never blocked outside its select, and
Go's select picks uniformly at random among the ready cases, so a case that is
ready infinitely often is taken: strong fairness of each case. The two
goroutines of a connection block only on their channels, on `Read` and on
`Write`, which returns within its 5 s timeout: weak fairness of each goroutine.
Peers, publishers and the decision to disconnect have no fairness. In
`RpcPath`, a request from outside arrives or its client learns that the connection
broke, grpc begins its handler in a goroutine of its own, and the handler of
ListRoomMembers takes its steps around the call to user-service: weak fairness of
these. Statements, user-service and clients have none, because the code gives
statements and BatchGetUsers no deadline: `AnsweredInTheEnd` says that these two
are all a call can hang on. In `RealtimeLifecycle`, `run` takes every step it can:
its contexts of five and ten seconds end. In `GrpcLifecycle` that holds, too, but
nothing is assumed of RPCs, because no line of the code bounds them: `ProcessEnds`
says that only an RPC or a statement that never ends holds the process, and
`StopIsForced`, which the comment at user `main.go:117` promises, is violated.

Disagreements a run shows are `findings` in `PROJECT.json`: `ws_zombie`,
`tokens_race`, `realtime_sockets` and `stop_hangs`. Seen while modelling, and not
given a run:

- `room/repository.go:65` says of `ListRoomsByMember` that it returns all rooms
  (全ルーム) the user is in. Its SELECT ends in `LIMIT $2` (line 75), which Service
  caps at 200 and sets to 50 when the request names none (`room/service.go:92,
  149-157`), and the cursor is not used (line 67 says that paging is not
  implemented yet). Of a user in more rooms the rest is out of reach of ListRooms
  for good, whatever it asks for. `ClampedListsAreWhole` says what remains.
- `message/repository_inmem.go:36` says of its filter that it has the same meaning
  as PostgreSQL's (PostgreSQL の (created_at, id) < ... と同じ意味). It compares
  nanoseconds, and the column, a TIMESTAMPTZ (`migrations/003`), keeps microseconds
  of the `time.Now()` that Service stamps (`message/service.go:57`). Two messages
  stamped within one microsecond come in the order of their ids from PostgreSQL and
  in the order of their nanoseconds from memory, so an unconditional `SameMeaning`
  is false (TLC finds it with two stamps in one microsecond); `RepositoriesAgree`
  excludes just this.
- `room/service.go:36-37` says that the creator is automatically a member.
  CreateRoom is two statements without a transaction; when it ends in between,
  the room exists, others find and join it, and its creator is not a member.
  `CreatorLostOnlyByFailure` says that nothing else does this. If the creator
  joined meanwhile, CreateRoom answers AlreadyExists although the room is there,
  the one exception in `RefusalChangesNothing`. Its answer's `member_count` of 1
  (`room/grpc.go:32`) is not counted.
- realtime `main.go:9` names the order HTTP, subscriber, Redis, chat-service. The
  subscriber's context is the signal's own, so it ends first, and the defers run
  last in, first out: the client of chat-service is closed before Redis. When
  `Ping` fails the Redis client is not closed (`main.go:53-58`), and a SIGTERM
  during `Ping` ends the process with an error.
- `interceptor/logging.go:20` speaks of a log line for every RPC. The generated
  handlers answer a request they cannot decode before they call the interceptor
  (`chat_grpc.pb.go:239-241`; `DecodeFails`), so that one has none.
- `interceptor/logging.go:55-59` expects one request id in the logs of all hops;
  `userclient` passes on `x-user-id` only (`client.go:69`), so user-service logs
  another.
- `auth/context.go:23-24` asks callers to answer Unauthenticated without a
  requester; `room.Service` answers InvalidArgument (`room/service.go:41`).
- `ListRooms` answers `member_count` 0 for every room (`room/grpc.go:54`), where
  `api-design.md:114-118` shows counts. `SearchRooms` ignores its cursor
  (`room/repository.go:86`) as `ListRooms` does, so what it finds beyond the limit
  is out of reach, too.
- Two overlapping `UpdateMe` calls of one user: the second writes back the fields
  it read before the first wrote (`user/service.go:153-167`).

## 4. Proofs

All for every value of the constants: any number of connections, rooms, calls,
users, RPCs and any capacities, lifetimes and bounds. Assumptions:
`HubAssumption`, `TokensAssumption`, `AccountsAssumption`, `RoomsAssumption`,
`HistoryAssumption`, `DeliveryAssumption` and `RpcAssumption`, each checked by TLC
on every run of its module. Every component below first has its type invariant
proved (`TypeOK`, `WsTypeOK`, `HistoryTypeOK`, `Types`), which no run repeats.

`HubProofs`: the inductive invariant `SubInv` says where a client is in its life
(at most one registration and one unregistration, a closed client is out of the
map and will not come back); `ClosedOnlyAfterLeave`, `NoPanic` and the action
property `StaysSubscribed` follow. `NoPanic` alone is not inductive: it needs to
know that an unregistration is queued once and that a closed client has no
registration left. `OrderInv` (numbers waiting in `broadcast` are increasing and
larger than everything delivered) gives `InOrderOwnRoom`; `NoEmptyRoom` is
inductive itself; no run repeats it. `GapsOnlyWhenFull` speaks of gaps between two payloads given (what
is lost before the first or after the last is not constrained); a
gap opens before its second payload is there, so `GapInv` adds `MissedSince`:
while a client that was given something has missed payloads after the last, it
has been subscribed all along and was given at least `SendCap`, or it is out for
good. The refinement `FansOut` maps `LocalBroadcast` to `Accept`,
`TakeBroadcast` to `Dispatch` and everything else to a stutter; its invariant
`Waiting` says that what waits in `broadcast` are the last calls of
`LocalBroadcast`, all of them, so that the first to wait is the next to dispatch.

The same module goes on to the connections: by the lemma `ConnectionsUseTheHub`
(`WsSpec => Spec`, which follows from the shape of the definitions) the theorems
about the Hub hold of the running connections; `ClosedAfterCancel` uses one of them, `ClosedOnlyAfterLeave`, together with `Progress` (who left has
returned, and who returns has cancelled), and `WriterLosesNothing` follows from
`Written` (the payload in hand is the last one taken).

`RefreshTokensProofs`: `RotationInv` (what a call knows of the token it holds)
gives `OldRevokedBeforeNew` and `LateRefreshRefused`. `SessionKept` says that a
session is handed on with the rotation. For the careful sessions, whatever they
are, `FlightInv` (a token past the check is still usable; one being succeeded has
no successor) gives `CarefulSingleUse`, and `SessionInv` (when a successor is
about to be issued its session has no usable token and no other call about to
issue one) gives `OneUsablePerSession`; neither is inductive alone, because the
state between the check and the insertion is in the calls and not in the table.
`RevokeEffect` and `CreateEffect` say what the two writing statements do to the
table. With `Careful` empty both are void, and with all sessions in it they hold
of all.

`RealtimeDeliveryProofs`: the invariant is `Types`, `OneStream` itself and
`Published` (what a process had shown when it handled a message is in the log, and
stands there before every event of that message). `Longer`, `Cut` and `HandOn` say
what a new event, a broken subscription and the subscriber make of a stream, the
events handed on followed by those waiting. `CausalOrder` is not inductive: it
follows from the other two, because every process goes through the log in its
order. The refinement `SharesOneLog` maps `Execute` to `Publish`, `Subscriber` to
`Show`, everything that cuts an inbox to `Lose` and the goroutines to stutters; by
`WaitingEvents`, what waits is neither shown nor lost, and all before the first
waiting event is one or the other.

`ChatServiceProofs`, rooms: the invariant carries what a call found when it began to the
moment it goes on (`Begun`: its room exists, the pair it adds is the creator's,
its sender is a member or has left) and the chain `sure` ⊆ `acked` ⊆ `members`,
from which a reader's second statement cannot miss anybody it was sure of.

`ChatServiceProofs`, history: `Walk` says where a walk stands (its cursor is the
oldest row shown; what was there at its begin and is not shown lies behind the
cursor), which gives `NothingMissed` and `WalksBack`. What a page is, is a matter
of counting: a row belongs to the newest n when fewer than n rows are above it.
`ShortPageIsLast` shows that when a request for one row more brings no more rows
than the limit, the page holds every row there is; it takes, of the rows outside
the page, one with only rows of the page above it (`FirstOutside`, from the
well-foundedness of strict inclusion among finite sets, since an induction over
the size of the table is out of reach). For `RepositoriesAgree`,
`RankedSeqExists` shows that every finite set of rows can be sorted and
`FirstOfRanked` that any sorted list begins with the newest rows; `Apart` (two
messages with different stamps are in different microseconds) makes the cut of the
stamps keep their order (`ApartKeepsOrder`), and with it the newest rows
(`ApartKeepsNewest`). Without `Apart` the answers differ.
`ClampedListsAreWhole` says that who is in no more rooms than the limit can get
all of them from `ListRooms` (`RoomsWithinLimitInReach`; no run repeats it).

`AccountsProofs`: `Stored` (an acknowledged address has its row, folded and with
the password it was registered with) gives `AckedCanLogin` together with
`OneAccountEach`; `Alone` (what a careful call read is still what the table holds
and no other call is at the same row) makes `NoLostUpdate` inductive.

`RpcPathProofs`: `Programs` shows that every operation of the three programs
`Fits`: a statement that can refuse comes after no statement that writes, except
in CreateRoom. `HopOK` keeps for each hop whether it has written consistent with
the statement it is at. `RefusalChangesNothing` follows from the two: without the
table of programs it is a statement about all interleavings, with it about one
list.

`GrpcLifecycleProofs`: `Counted` bounds `errCh` by the number of ended servers, so
no server goroutine blocks on it; `Opened` ties what is open to where `run` is;
`Served` says that RPCs run only while grpc does and that grpc is stopped, and no
RPC left, when the keys are. They give `GracefulCutsNobody`, `KeysStoppedLast` and
`OpenedAndClosed`. Nothing is claimed of the keys while the key server starts or
after it failed.

`RealtimeLifecycleProofs`: `AllOpen` (until the outcome is known nothing the
handler needs is closed, and nobody is connected before the select) gives
`ServedByAll`. Nothing is claimed of the WebSockets after Shutdown: it forgets a
connection once it is hijacked, and the handler may still call Register when the
Hub has stopped.

Only model-checked: liveness (`EveryPayloadDispatched`, `SubscribedLeaverReleased`,
`BothLoopsEnd`, `AnsweredInTheEnd`, `ProcessEnds` of both lifecycles), which is
out of the prover's reach. Every other property of the passing runs is proved:
invariants, action properties and refinements.

## 5. Plan

What could come next, in this order:

1. An abstract specification of the sessions of `RefreshTokens` (a usable token
   handed on from rotation to rotation) and the refinement to it.
2. The exponent encoding of the key document (`pkg/auth/jwks.go`) as a pure
   operator against a reference definition.

## 6. Not modelled

- Contents and formats: JSON, cursors' encoding, hashes, JWT signing and the key
  document, request ids, log lines, names and defaults of the environment. They
  are data without control.
- Generated messages (`chat.pb.go`, `user.pb.go`), a third of the lines: accessors
  and descriptors, whose fields appear as records in `RpcPath`. Of the generated
  gRPC code the interfaces and `Unimplemented` servers.
- Test doubles: `pubsub/inmem.go`, the fakes, and the in-memory repositories of
  rooms and users, which no process runs. They differ from PostgreSQL in places:
  `RemoveMember` of a missing room is ErrNotFound there, and `SearchRooms` knows
  no wildcards. The in-memory message repository is modelled, because the tests
  of the paging rest on it.
- Which rooms `SearchRooms` chooses: `RpcPath` keeps only that it reads. `ListRooms`
  answers the newest rooms; `ChatRooms` keeps how many it answers, and lets it leave
  out any of those beyond the limit.
- Migrations, beyond the uniqueness they state; Envoy, Redis, PostgreSQL and the
  libraries, beyond what the code relies on (external definitions of the map).

`components` in `PROJECT.json` lists every part with its status.
