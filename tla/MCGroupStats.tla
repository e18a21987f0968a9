----------------------------- MODULE MCGroupStats ------------------------------
(***************************************************************************)
(* The clusters of MCGroupCache, with statistics.                          *)
(***************************************************************************)
EXTENDS GroupStats, MCGroupCache
===============================================================================
