------------------------- MODULE GrpcLifecycleProofs -------------------------
(***************************************************************************)
(* Proofs about GrpcLifecycle, for any number of RPCs.                     *)
(***************************************************************************)
EXTENDS GrpcLifecycle, TLAPS

Ended(server) == IF server \in {"failed", "stopped"} THEN 1 ELSE 0

(* Types, with what errCh holds counted by server.                         *)
Types ==
    /\ service \in {"user", "chat"} /\ main \in Places
    /\ signalled \in BOOLEAN
    /\ errCh \in Seq({"error", "nil"})
    /\ grpc \in {"none", "starting", "serving", "failed", "draining", "stopped"}
    /\ jwks \in {"none", "starting", "serving", "failed", "stopped"}
    /\ pool \in {"none", "open", "closed"} /\ client \in {"none", "open", "closed"}
    /\ rpc \in [Rpcs -> RpcStates]
    /\ outcome \in {"none", "nil", "error"}

Counted ==
    /\ Len(errCh) <= Ended(grpc) + Ended(jwks)
    /\ service = "chat" => jwks = "none"
    /\ jwks = "stopped" => outcome = "nil"
    /\ grpc = "stopped" => main \notin {"select", "draining"}

(* What is open follows from where run is.                                 *)
Opened ==
    /\ (outcome = "none") = (main \notin {"closing", "closingPool", "returned"})
    /\ main \in {"load", "connect", "dial", "listen"} => grpc = "none" /\ jwks = "none"
    /\ main \in {"load", "connect"} => pool = "none"
    /\ main \in {"dial", "listen", "select", "draining", "stoppingKeys"} => pool = "open"
    /\ main \in {"listen", "select", "draining", "stoppingKeys"} /\ service = "chat" =>
        client = "open"
    /\ main \in {"load", "connect", "dial"} => client = "none"
    /\ service = "user" => client = "none" /\ main # "dial"
    /\ main = "stoppingKeys" => service = "user"
    /\ grpc # "none" => pool # "none" /\ (service = "chat" => client # "none")
    /\ pool = "none" => client = "none"
    /\ client = "closed" => outcome # "none"
    /\ (pool = "closed") = (main = "closingPool" \/ (main = "returned" /\ pool # "none"))
    /\ pool = "closed" => client # "open"

(* RPCs run while grpc does, and none is left when run returns nil.        *)
Served ==
    /\ Active # {} => grpc # "none"
    /\ outcome = "nil" \/ main = "stoppingKeys" => grpc = "stopped" /\ Active = {}
    /\ (\E r \in Rpcs : rpc[r] \in {"refused", "cut"}) => outcome = "error"

IInv == Types /\ Counted /\ Opened /\ Served

RpcAction(r) == Begin(r) \/ RpcStep(r)
Serving == Signal \/ GrpcServes \/ JwksServes \/ GrpcFails \/ JwksFails

LEMMA Inits == Init => IInv
<1> SUFFICES ASSUME Init PROVE IInv
  OBVIOUS
<1>1. Types
  <2>1. errCh \in Seq({"error", "nil"})
    BY DEF Init
  <2>2. rpc \in [Rpcs -> RpcStates]
    BY DEF Init, RpcStates
  <2> QED
    BY <2>1, <2>2 DEF Init, Types, Places
<1>2. Counted
  BY DEF Init, Counted, Ended
<1>3. Opened
  BY DEF Init, Opened
<1>4. Served
  BY DEF Init, Served, Active
<1> QED
  BY <1>1, <1>2, <1>3, <1>4 DEF IInv

LEMMA TypesStep == IInv /\ [Next]_vars => Types'
<1> SUFFICES ASSUME IInv, [Next]_vars PROVE Types'
  OBVIOUS
<1>0. Types
  BY DEF IInv
<1> USE <1>0 DEF Types, servers, resources, Places, RpcStates
<1>1. CASE UNCHANGED vars
  BY <1>1 DEF vars
<1>2. ASSUME NEW r \in Rpcs, RpcAction(r) PROVE Types'
  BY <1>2 DEF RpcAction, RpcStep, Begin, Query, QueryRefused, Ask, AskRefused,
     StatementEnds, Answer, Rpc
<1>3. CASE Serving
  <2>1. CASE Signal
    BY <2>1 DEF Signal
  <2>3. CASE GrpcServes \/ JwksServes
    BY <2>3 DEF GrpcServes, JwksServes
  <2>2. CASE GrpcFails \/ JwksFails
    <3>1. errCh' = Append(errCh, "error")
      BY <2>2 DEF GrpcFails, JwksFails
    <3>2. errCh' \in Seq({"error", "nil"})
      BY <3>1
    <3>3. CASE GrpcFails
      BY <3>2, <3>3 DEF GrpcFails
    <3>4. CASE JwksFails
      BY <3>2, <3>4 DEF JwksFails
    <3> QED
      BY <2>2, <3>3, <3>4
  <2> QED
    BY <1>3, <2>1, <2>2, <2>3 DEF Serving
<1>4. CASE Start
  BY <1>4 DEF Start, LoadConfig, OpenPool, DialUserService, Listen, StartFails
<1>5. CASE GracefulStop \/ Stopped
  BY <1>5 DEF GracefulStop, Stopped, ServeReturns
<1>6. CASE StopKeys
  BY <1>6 DEF StopKeys
<1>7. CASE ReturnError
  BY <1>7 DEF ReturnError
<1>8. CASE Close
  BY <1>8 DEF Close, CloseClient, ClosePool, Return
<1> QED
  BY <1>1, <1>2, <1>3, <1>4, <1>5, <1>6, <1>7, <1>8
  DEF Next, World, Main, Stop, RpcAction, Serving

LEMMA CountedStep == IInv /\ [Next]_vars => Counted'
<1> SUFFICES ASSUME IInv, [Next]_vars PROVE Counted'
  OBVIOUS
<1>0. Types /\ Counted /\ Opened
  BY DEF IInv
<1> USE <1>0 DEF Counted, servers, resources, Ended
<1>1. CASE UNCHANGED vars
  BY <1>1 DEF vars
<1>2. ASSUME NEW r \in Rpcs, RpcAction(r) PROVE Counted'
  BY <1>2 DEF RpcAction, RpcStep, Begin, Query, QueryRefused, Ask, AskRefused,
     StatementEnds, Answer, Rpc
<1>3. CASE Signal \/ GrpcServes \/ JwksServes
  BY <1>3 DEF Signal, GrpcServes, JwksServes
<1>4. CASE GrpcFails
  BY <1>4 DEF GrpcFails, Types
<1>5. CASE JwksFails
  BY <1>5 DEF JwksFails, Types
<1>6. CASE Start
  BY <1>6 DEF Start, LoadConfig, OpenPool, DialUserService, Listen, StartFails, Opened, HasJwks, Types
<1>7. CASE GracefulStop
  BY <1>7 DEF GracefulStop
<1>8. CASE Stopped
  BY <1>8 DEF Stopped, ServeReturns, Types, Opened
<1>9. CASE StopKeys
  BY <1>9 DEF StopKeys, Types, Opened
<1>10. CASE ReturnError
  BY <1>10 DEF ReturnError, Types, Opened
<1>11. CASE Close
  BY <1>11 DEF Close, CloseClient, ClosePool, Return
<1> QED
  BY <1>1, <1>2, <1>3, <1>4, <1>5, <1>6, <1>7, <1>8, <1>9, <1>10, <1>11
  DEF Next, World, Main, Stop, RpcAction

LEMMA OpenedStep == IInv /\ [Next]_vars => Opened'
<1> SUFFICES ASSUME IInv, [Next]_vars PROVE Opened'
  OBVIOUS
<1>0. Types /\ Opened
  BY DEF IInv
<1> USE <1>0 DEF Opened, servers, resources
<1>1. CASE UNCHANGED vars
  BY <1>1 DEF vars
<1>2. ASSUME NEW r \in Rpcs, RpcAction(r) PROVE Opened'
  BY <1>2 DEF RpcAction, RpcStep, Begin, Query, QueryRefused, Ask, AskRefused,
     StatementEnds, Answer, Rpc
<1>3. CASE Serving
  BY <1>3 DEF Serving, Signal, GrpcServes, JwksServes, GrpcFails, JwksFails
<1>4. CASE Start
  BY <1>4 DEF Start, LoadConfig, OpenPool, DialUserService, Listen, StartFails, HasJwks, Types
<1>5. CASE GracefulStop \/ StopKeys \/ ReturnError
  BY <1>5 DEF GracefulStop, StopKeys, ReturnError
<1>6. CASE Stopped
  BY <1>6 DEF Stopped, ServeReturns, HasJwks, Types
<1>7. CASE Close
  BY <1>7 DEF Close, CloseClient, ClosePool, Return
<1> QED
  BY <1>1, <1>2, <1>3, <1>4, <1>5, <1>6, <1>7
  DEF Next, World, Main, Stop, RpcAction, Serving

LEMMA ServedStep == IInv /\ [Next]_vars => Served'
<1> SUFFICES ASSUME IInv, [Next]_vars PROVE Served'
  OBVIOUS
<1>0. Types /\ Opened /\ Counted /\ Served
  BY DEF IInv
<1> USE <1>0 DEF Served, servers, resources, Active
<1>1. CASE UNCHANGED vars
  BY <1>1 DEF vars
<1>2. ASSUME NEW r \in Rpcs, Begin(r) PROVE Served'
  BY <1>2 DEF Begin, Rpc, Types
<1>3. ASSUME NEW r \in Rpcs, Query(r) \/ Ask(r) \/ StatementEnds(r) \/ Answer(r)
      PROVE  Served'
  BY <1>3 DEF Query, Ask, StatementEnds, Answer, Rpc, Types
<1>4. ASSUME NEW r \in Rpcs, QueryRefused(r) \/ AskRefused(r) PROVE Served'
  <2>1. outcome = "error"
    BY <1>4 DEF QueryRefused, AskRefused, Rpc, Types, Opened
  <2> QED
    BY <1>4, <2>1 DEF QueryRefused, AskRefused, Rpc, Types
<1>5. CASE Serving
  BY <1>5 DEF Serving, Signal, GrpcServes, JwksServes, GrpcFails, JwksFails
<1>6. CASE Start
  BY <1>6 DEF Start, LoadConfig, OpenPool, DialUserService, Listen, StartFails, Opened
<1>7. CASE GracefulStop
  BY <1>7 DEF GracefulStop
<1>8. CASE Stopped
  BY <1>8 DEF Stopped, ServeReturns, Opened
<1>9. CASE StopKeys
  BY <1>9 DEF StopKeys, Opened
<1>10. CASE ReturnError
  BY <1>10 DEF ReturnError, Opened
<1>11. CASE CloseClient
  <2>1. outcome # "none"
    BY <1>11 DEF CloseClient, Opened
  <2> QED
    BY <1>11, <2>1 DEF CloseClient, Types
<1>12. CASE ClosePool
  BY <1>12 DEF ClosePool
<1>13. CASE Return
  <2>1. outcome # "none"
    BY <1>13 DEF Return, Opened
  <2> QED
    BY <1>13, <2>1 DEF Return, Types
<1> QED
  BY <1>1, <1>2, <1>3, <1>4, <1>5, <1>6, <1>7, <1>8, <1>9, <1>10, <1>11, <1>12, <1>13
  DEF Next, World, Main, Stop, Close, RpcStep, Serving

LEMMA Invariant == Spec => []IInv
<1>1. IInv /\ [Next]_vars => IInv'
  BY TypesStep, CountedStep, OpenedStep, ServedStep DEF IInv
<1> QED
  BY Inits, <1>1, PTL DEF Spec

(* The types, and that no server blocks on errCh: each returns once.       *)
THEOREM TypeCorrect == Spec => []TypeOK
<1>1. IInv => TypeOK
  BY DEF IInv, Types, Counted, TypeOK, ErrChCap, HasJwks, Ended
<1> QED
  BY Invariant, <1>1, PTL

(* An RPC loses its answer only if run returns an error.                   *)
THEOREM GracefulStopCutsNobody == Spec => []GracefulCutsNobody
<1>1. IInv => GracefulCutsNobody
  BY DEF IInv, Served, GracefulCutsNobody
<1> QED
  BY Invariant, <1>1, PTL

(* The key server is stopped after the gRPC server and its last RPC.       *)
THEOREM KeysStoppedAfterRpcs == Spec => []KeysStoppedLast
<1>1. IInv => KeysStoppedLast
  BY DEF IInv, Counted, Served, KeysStoppedLast
<1> QED
  BY Invariant, <1>1, PTL

(* Pool and client are open before an RPC runs and closed when run returns,*)
(* in that order.                                                          *)
THEOREM ClosedInReverse == Spec => []OpenedAndClosed
<1>1. IInv => OpenedAndClosed
  BY DEF IInv, Types, Opened, Served, OpenedAndClosed
<1> QED
  BY Invariant, <1>1, PTL
=============================================================================
