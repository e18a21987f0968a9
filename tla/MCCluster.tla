------------------------------- MODULE MCCluster -------------------------------
(***************************************************************************)
(* Two daemons, one group, two requests.                                   *)
(***************************************************************************)
EXTENDS Cluster
===============================================================================
