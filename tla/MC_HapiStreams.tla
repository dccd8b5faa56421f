--------------------------- MODULE MC_HapiStreams ---------------------------
(***************************************************************************)
(* Instance of HapiStreams for TLC: a non-SMP build on the devices of the  *)
(* compute-capability table, alone or shared by up to 64 PEs.              *)
(***************************************************************************)
EXTENDS HapiStreams

MCCapabilities ==
  {<<3, 0>>, <<3, 2>>, <<3, 5>>, <<5, 0>>, <<5, 3>>,
   <<6, 0>>, <<6, 1>>, <<6, 2>>, <<7, 0>>}
=============================================================================
