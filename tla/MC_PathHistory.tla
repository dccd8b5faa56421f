---------------------------- MODULE MC_PathHistory ----------------------------
(***************************************************************************)
(* PathHistory for TLC: three messages, two of the same path length from   *)
(* different senders, and one longer; paths of a running program have a   *)
(* positive length.                                                        *)
(***************************************************************************)
EXTENDS PathHistory

MCEnvs ==
  { [src |-> 0, idx |-> 0, ep |-> 1, arr |-> 1, time |-> 1],
    [src |-> 1, idx |-> 0, ep |-> 2, arr |-> 2, time |-> 1],
    [src |-> 1, idx |-> 1, ep |-> 1, arr |-> 1, time |-> 2] }
=============================================================================
