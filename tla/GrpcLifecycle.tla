---------------------------- MODULE GrpcLifecycle ----------------------------
(***************************************************************************)
(* Life and end of a user-service or chat-service process (run in          *)
(* services/*/cmd/server/main.go): configuration, key or connection to     *)
(* user-service, listener, servers; the wait for a signal or the error of  *)
(* a server; the graceful stop (signal) or the return at once (error); and *)
(* in either case the deferred closes of what had been opened.  A          *)
(* behaviour is one of a user-service or of a chat-service.                *)
(*                                                                         *)
(* External: grpc's GracefulStop waits for the RPCs it accepted, those     *)
(* that arrive before a client heard of it included; pgxpool's Close       *)
(* refuses further statements and waits for those that run; a closed       *)
(* ClientConn cancels its calls.  pgxpool.New and grpc.NewClient connect   *)
(* later: they fail for a malformed address only.                          *)
(***************************************************************************)
EXTENDS Naturals, Sequences

CONSTANT Rpcs   \* the RPCs of a behaviour

VARIABLES
    service,   \* "user" or "chat"
    main,      \* where run is, as in Places
    signalled, \* SIGTERM or SIGINT arrived
    errCh,     \* what Serve and ListenAndServe returned: "error" or "nil"
    grpc,      \* "none", "starting", "serving", "failed", "draining", "stopped"
    jwks,      \* the same for the key server of user-service
    pool,      \* "none", "open" or "closed" to further statements
    client,    \* the connection to user-service: "none", "open", "closed"
    rpc,       \* as in RpcStates
    outcome    \* what run returns: "nil" or "error"; "none" before

vars == <<service, main, signalled, errCh, grpc, jwks, pool, client, rpc, outcome>>
servers == <<errCh, grpc, jwks>>
resources == <<pool, client>>

Places == {"load", "connect", "dial", "listen", "select", "draining", "stoppingKeys",
           "closing", "closingPool", "returned"}
RpcStates == {"none", "running", "querying", "asking", "answered", "refused", "cut"}

HasJwks == service = "user"

ErrChCap == IF HasJwks THEN 2 ELSE 1
Active == {r \in Rpcs : rpc[r] \in {"running", "querying", "asking"}}

Init ==
    /\ service \in {"user", "chat"}
    /\ main = "load" /\ signalled = FALSE /\ errCh = <<>>
    /\ grpc = "none" /\ jwks = "none" /\ pool = "none" /\ client = "none"
    /\ rpc = [r \in Rpcs |-> "none"] /\ outcome = "none"

-----------------------------------------------------------------------------
(* run, up to its select.                                                  *)

(* The required variables and, in user-service, the key that signs tokens. *)
LoadConfig ==
    /\ main = "load" /\ main' = "connect"
    /\ UNCHANGED <<service, signalled, servers, resources, rpc, outcome>>

OpenPool ==
    /\ main = "connect" /\ main' = (IF service = "chat" THEN "dial" ELSE "listen")
    /\ pool' = "open"
    /\ UNCHANGED <<service, signalled, servers, client, rpc, outcome>>

DialUserService ==
    /\ main = "dial" /\ main' = "listen"
    /\ client' = "open"
    /\ UNCHANGED <<service, signalled, servers, pool, rpc, outcome>>

(* The listener accepts from here on; the goroutines of the servers begin. *)
Listen ==
    /\ main = "listen" /\ main' = "select"
    /\ grpc' = "starting" /\ jwks' = (IF HasJwks THEN "starting" ELSE jwks)
    /\ UNCHANGED <<service, signalled, errCh, resources, rpc, outcome>>

(* Mutant: log.Fatal instead of the return, which skips the defers.        *)
StartFailsFatally ==
    /\ main \in {"load", "connect", "dial", "listen"}
    /\ main' = "returned" /\ outcome' = "error"
    /\ UNCHANGED <<service, signalled, servers, resources, rpc>>

StartFails ==
    /\ main \in {"load", "connect", "dial", "listen"}
    /\ main' = "closing" /\ outcome' = "error"
    /\ UNCHANGED <<service, signalled, servers, resources, rpc>>

-----------------------------------------------------------------------------
(* The world: signals, servers and RPCs.                                   *)

(* Before NotifyContext a signal ends the process by itself.               *)
Signal ==
    /\ ~signalled /\ main \notin {"load", "returned"}
    /\ signalled' = TRUE
    /\ UNCHANGED <<service, main, servers, resources, rpc, outcome>>

GrpcServes ==
    /\ grpc = "starting" /\ main \in {"select", "closing", "closingPool"}
    /\ grpc' = "serving"
    /\ UNCHANGED <<service, main, signalled, errCh, jwks, resources, rpc, outcome>>

JwksServes ==
    /\ jwks = "starting" /\ main # "returned"
    /\ jwks' = "serving"
    /\ UNCHANGED <<service, main, signalled, errCh, grpc, resources, rpc, outcome>>

GrpcFails ==
    /\ grpc \in {"starting", "serving"} /\ main # "returned"
    /\ grpc' = "failed" /\ errCh' = Append(errCh, "error")
    /\ UNCHANGED <<service, main, signalled, jwks, resources, rpc, outcome>>

JwksFails ==
    /\ jwks \in {"starting", "serving"} /\ main # "returned"
    /\ jwks' = "failed" /\ errCh' = Append(errCh, "error")
    /\ UNCHANGED <<service, main, signalled, grpc, resources, rpc, outcome>>

Rpc(r, from, to) ==
    /\ main # "returned"
    /\ rpc[r] = from /\ rpc' = [rpc EXCEPT ![r] = to]
    /\ UNCHANGED <<service, main, signalled, servers, resources, outcome>>

(* Established connections outlive the listener that failed.               *)
Begin(r) == grpc \in {"serving", "failed", "draining"} /\ Rpc(r, "none", "running")
Query(r) == pool = "open" /\ Rpc(r, "running", "querying")
QueryRefused(r) == pool = "closed" /\ Rpc(r, "running", "refused")
Ask(r) == client = "open" /\ Rpc(r, "running", "asking")
AskRefused(r) == client = "closed" /\ Rpc(r, "running", "refused")
StatementEnds(r) == Rpc(r, "querying", "running") \/ Rpc(r, "asking", "running")
Answer(r) == Rpc(r, "running", "answered")

-----------------------------------------------------------------------------
(* run, after its select.                                                  *)

(* Mutant: the key server is shut down before GracefulStop.                *)
KeysStoppedFirst ==
    /\ main = "select" /\ signalled
    /\ main' = "draining"
    /\ grpc' = (IF grpc = "serving" THEN "draining" ELSE grpc)
    /\ jwks' = (IF HasJwks /\ jwks # "failed" THEN "stopped" ELSE jwks)
    /\ errCh' = (IF jwks' = "stopped" THEN Append(errCh, "nil") ELSE errCh)
    /\ UNCHANGED <<service, signalled, resources, rpc, outcome>>

GracefulStop ==
    /\ main = "select" /\ signalled
    /\ main' = "draining"
    /\ grpc' = (IF grpc = "serving" THEN "draining" ELSE grpc)
    /\ UNCHANGED <<service, signalled, errCh, jwks, resources, rpc, outcome>>

(* Serve returns nil when GracefulStop does, and ErrServerStopped if it    *)
(* was called after it.                                                    *)
ServeReturns ==
    /\ grpc' = "stopped"
    /\ errCh' = CASE grpc = "draining" -> Append(errCh, "nil")
                  [] grpc = "starting" -> Append(errCh, "error")
                  [] OTHER -> errCh

(* Mutant: Stop instead of GracefulStop.                                   *)
StoppedAtOnce ==
    /\ main = "draining"
    /\ main' = (IF HasJwks THEN "stoppingKeys" ELSE "closing")
    /\ outcome' = (IF HasJwks THEN outcome ELSE "nil")
    /\ ServeReturns
    /\ UNCHANGED <<service, signalled, jwks, resources, rpc>>

Stopped ==
    /\ main = "draining" /\ Active = {}
    /\ main' = (IF HasJwks THEN "stoppingKeys" ELSE "closing")
    /\ outcome' = (IF HasJwks THEN outcome ELSE "nil")
    /\ ServeReturns
    /\ UNCHANGED <<service, signalled, jwks, resources, rpc>>

(* Within five seconds.                                                    *)
StopKeys ==
    /\ main = "stoppingKeys"
    /\ main' = "closing" /\ outcome' = "nil"
    /\ IF jwks = "failed"
       THEN UNCHANGED <<jwks, errCh>>
       ELSE jwks' = "stopped" /\ errCh' = Append(errCh, "nil")
    /\ UNCHANGED <<service, signalled, grpc, resources, rpc>>

(* Mutant: run waits for the signal only.                                  *)
ReturnErrorOnSignal ==
    /\ main = "select" /\ errCh # <<>> /\ Head(errCh) = "error" /\ signalled
    /\ main' = "closing" /\ errCh' = Tail(errCh) /\ outcome' = "error"
    /\ UNCHANGED <<service, signalled, grpc, jwks, resources, rpc>>

ReturnError ==
    /\ main = "select" /\ errCh # <<>> /\ Head(errCh) = "error"
    /\ main' = "closing" /\ errCh' = Tail(errCh) /\ outcome' = "error"
    /\ UNCHANGED <<service, signalled, grpc, jwks, resources, rpc>>

(* The defers, last in, first out; only what was opened has one.           *)
CloseClient ==
    /\ main = "closing" /\ client = "open"
    /\ client' = "closed"
    /\ rpc' = [r \in Rpcs |-> IF rpc[r] = "asking" THEN "refused" ELSE rpc[r]]
    /\ UNCHANGED <<service, main, signalled, servers, pool, outcome>>

ClosePool ==
    /\ main = "closing" /\ client # "open" /\ pool = "open"
    /\ main' = "closingPool" /\ pool' = "closed"
    /\ UNCHANGED <<service, signalled, servers, client, rpc, outcome>>

(* With the process go the RPCs that remain.                               *)
Return ==
    /\ \/ main = "closing" /\ pool = "none"
       \/ main = "closingPool" /\ \A r \in Rpcs : rpc[r] # "querying"
    /\ main' = "returned"
    /\ rpc' = [r \in Rpcs |-> IF r \in Active THEN "cut" ELSE rpc[r]]
    /\ UNCHANGED <<service, signalled, servers, resources, outcome>>

Start == LoadConfig \/ OpenPool \/ DialUserService \/ Listen \/ StartFails
Stop == GracefulStop \/ Stopped \/ StopKeys \/ ReturnError
Close == CloseClient \/ ClosePool \/ Return
Main == Start \/ Stop \/ Close

World ==
    \/ Signal \/ GrpcServes \/ JwksServes \/ GrpcFails \/ JwksFails
    \/ \E r \in Rpcs : Begin(r)

RpcStep(r) ==
    \/ Query(r) \/ QueryRefused(r) \/ Ask(r) \/ AskRefused(r)
    \/ StatementEnds(r) \/ Answer(r)

Next == World \/ Main \/ \E r \in Rpcs : RpcStep(r)

Spec == Init /\ [][Next]_vars

(***************************************************************************)
(* main takes every step it can.  Nothing is assumed of the RPCs: the code *)
(* gives them no deadline, and their statements may never come back.       *)
(***************************************************************************)
FairSpec == Spec /\ WF_vars(Main)

-----------------------------------------------------------------------------
(***************************************************************************)
(* errCh holds what the servers send, so no goroutine blocks on it         *)
(* (user main.go:92, chat main.go:85).                                     *)
(***************************************************************************)
TypeOK ==
    /\ service \in {"user", "chat"} /\ main \in Places
    /\ signalled \in BOOLEAN
    /\ errCh \in Seq({"error", "nil"}) /\ Len(errCh) <= ErrChCap
    /\ grpc \in {"none", "starting", "serving", "failed", "draining", "stopped"}
    /\ jwks \in {"none", "starting", "serving", "failed", "stopped"}
    /\ pool \in {"none", "open", "closed"} /\ client \in {"none", "open", "closed"}
    /\ rpc \in [Rpcs -> RpcStates]
    /\ outcome \in {"none", "nil", "error"}

(***************************************************************************)
(* Only an error costs an RPC its answer: after a signal every accepted    *)
(* RPC finds the pool and user-service open and is answered, even if a     *)
(* server fails while others drain (user main.go:116-118, chat             *)
(* main.go:101-102).                                                       *)
(***************************************************************************)
GracefulCutsNobody ==
    (\E r \in Rpcs : rpc[r] \in {"refused", "cut"}) => outcome = "error"

(***************************************************************************)
(* The keys are withdrawn only when the gRPC server has stopped for good   *)
(* and the last of its RPCs, which may have issued a token, is over (user  *)
(* main.go:118-121: the order of the two stops).  It does not say that the *)
(* keys can be fetched while RPCs run: the key server may still be         *)
(* starting, or have failed.                                               *)
(***************************************************************************)
KeysStoppedLast == jwks = "stopped" => grpc = "stopped" /\ Active = {}

(***************************************************************************)
(* Wherever the start fails and whatever ends the service, no RPC runs     *)
(* before the pool and the connection to user-service are open, and none   *)
(* of the two stays open when run returns, the one on which RPCs depend    *)
(* for the other's answers last (user main.go:64, chat main.go:56-64).     *)
(***************************************************************************)
OpenedAndClosed ==
    /\ Active # {} => pool # "none" /\ (service = "chat" => client # "none")
    /\ pool = "closed" => client # "open"
    /\ main = "returned" => pool # "open" /\ client # "open"

(* run waits for RPCs to be over, or for their statements.                 *)
Waiting ==
    \/ main = "draining" /\ Active # {}
    \/ main = "closingPool" /\ \E r \in Rpcs : rpc[r] = "querying"

(***************************************************************************)
(* A signal, a failed server or a failed start ends the process, unless it *)
(* waits for ever in GracefulStop or pool.Close for an RPC that never ends *)
(* (user main.go:107-122, chat main.go:92-103): nothing else can hold it.  *)
(***************************************************************************)
ProcessEnds ==
    (signalled \/ grpc = "failed" \/ jwks = "failed" \/ outcome = "error") ~>
    (main = "returned" \/ []Waiting)

(***************************************************************************)
(* What user main.go:117 promises: a graceful stop that takes too long is  *)
(* forced to its end.  The code has a limit for the key server only (line  *)
(* 119); GracefulStop before it waits for the RPCs however long they take. *)
(***************************************************************************)
StopIsForced == (service = "user" /\ main = "draining") ~> (main = "returned")
=============================================================================
