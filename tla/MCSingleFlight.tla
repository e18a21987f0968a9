---------------------------- MODULE MCSingleFlight ----------------------------
(***************************************************************************)
(* Three goroutines on two keys: leader, duplicate and latecomer of one    *)
(* flight, next to another one.  Three call objects are as many as they    *)
(* can refer to, so that objects are reused.                               *)
(***************************************************************************)
EXTENDS SingleFlight
===============================================================================
