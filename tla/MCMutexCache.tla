----------------------------- MODULE MCMutexCache -----------------------------
(***************************************************************************)
(* A budget of 8 bytes gives the main cache 7, which k3 with "big" exceeds *)
(* on its own and other pairs fill, and the hot cache 1, which holds k1 or *)
(* k2 with an empty value.  A budget of 3 leaves both without a limit, one *)
(* below zero closes them.                                                 *)
(***************************************************************************)
EXTENDS MutexCache, TLC

CONSTANTS k1, k2, k3, nothing, big

MCKeyLen == k1 :> 0 @@ k2 :> 1 @@ k3 :> 3
MCValLen == nothing :> 0 @@ big :> 5
MCBudgets == {-1, 3, 8}
===============================================================================
