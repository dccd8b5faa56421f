---------------------------- MODULE MC_LBManager ----------------------------
(***************************************************************************)
(* Instances of LBManager for TLC: two PEs and three or two strategies.    *)
(***************************************************************************)
EXTENDS LBManager
=============================================================================
