------------------------- MODULE MC_HapiGPUManager -------------------------
(***************************************************************************)
(* Instances of HapiGPUManager for TLC: two id slots per half, two         *)
(* requesters, and requests built from the buffers below.                  *)
(***************************************************************************)
EXTENDS HapiGPUManager, TLC

CONSTANTS l1, l2

MCLanes == {l1, l2}

\* A buffer with the given requested id, size and need_free flag, copied in
\* and out.
Buf(id, size, free) ==
  [id |-> id, size |-> size, transfer_to_device |-> TRUE,
   transfer_to_host |-> TRUE, need_free |-> free]

\* The mix of the checked run: auto-assigned buffers freed or kept, a caller
\* passing a system-range id (treated as invalid), a user-addressed buffer
\* shared and kept, a data-only request without a kernel, and a request
\* with two buffers.
MCRequests ==
  { [buffers |-> << Buf(-1, 1, TRUE) >>,            kernel |-> TRUE],
    [buffers |-> << Buf(-1, 1, FALSE) >>,           kernel |-> FALSE],
    [buffers |-> << Buf(2, 1, TRUE) >>,             kernel |-> TRUE],
    [buffers |-> << Buf(0, 1, FALSE) >>,            kernel |-> TRUE],
    [buffers |-> << Buf(-1, 1, TRUE), Buf(0, 1, FALSE) >>, kernel |-> TRUE] }

\* Two requesters that share user-addressed slot 0 and read results back.
SharedOutRequests ==
  { [buffers |-> << Buf(0, 1, FALSE) >>, kernel |-> TRUE] }

Symmetry == Permutations(MCLanes)
=============================================================================
