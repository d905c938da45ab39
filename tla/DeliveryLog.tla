---------------------------- MODULE DeliveryLog ----------------------------
(***************************************************************************)
(* RealtimeDelivery implements SharedLog: an event is a PUBLISH that Redis *)
(* executed, shown when the subscriber goroutine hands it to the Hub, lost *)
(* when the subscription was down or broke before that.                    *)
(***************************************************************************)
EXTENDS RealtimeDelivery

Log == INSTANCE SharedLog WITH
    published <- Len(log), shown <- dispatched, lost <- missed

(***************************************************************************)
(* Every step of the processes, Redis and the network between them is a    *)
(* step of one shared log or none: retried, duplicated and late commands   *)
(* only make further events, a subscription that breaks or a crash only    *)
(* loses what was not shown yet, and no process skips an event it still    *)
(* holds or comes back to one (redis.go:45-54, main.go:75-77).             *)
(***************************************************************************)
SharesOneLog == Log!LogSpec
=============================================================================
