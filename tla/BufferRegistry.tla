---------------------------- MODULE BufferRegistry ----------------------------
(***************************************************************************)
(* What the HAPI buffer registry promises its work requests (the Buffer    *)
(* Slot and Buffer Registry contract), with the cursor, the host pointers  *)
(* and the transfer stages left out.                                       *)
(*                                                                         *)
(* A slot is live while it holds a device allocation.  A request's buffer  *)
(* with a user-addressed id gets that slot, live or not (a live one is     *)
(* reused); any other buffer gets some free system-addressed slot, a       *)
(* different one for each of the request's buffers.  If a buffer finds no  *)
(* free system-addressed slot the process aborts, keeping what it          *)
(* allocated on the way.  When the request completes, exactly the slots of *)
(* its buffers flagged need_free become free again.                        *)
(*                                                                         *)
(* HapiGPUManager implements it (HapiGPUManager!Registry, checked by the   *)
(* hapi_registry run).                                                     *)
(***************************************************************************)
EXTENDS Integers, Sequences

CONSTANTS
  NumBuffers,   \* size of each half of the id space
  Lanes,        \* requesters, each with at most one request in flight
  Requests      \* the work requests a lane may submit

Slots       == 0 .. 2 * NumBuffers - 1
UserSlots   == 0 .. NumBuffers - 1
SystemSlots == NumBuffers .. 2 * NumBuffers - 1

VARIABLES
  live,      \* the slots holding a device allocation
  busy,      \* the lanes with a request in flight
  held,      \* the slot of each buffer of a lane's request in flight
  release,   \* the slots a lane's request frees when it completes
  halted     \* the process aborted

vars == <<live, busy, held, release, halted>>

\* A buffer whose id the caller chose.
UserAddressed(b) == b.id \in UserSlots

\* The slot assignments of request r that the contract allows: user ids
\* as given, distinct free system-addressed slots for the other buffers.
Assignments(r) ==
  LET B == r.buffers IN
  {s \in [DOMAIN B -> Slots] :
     /\ \A k \in DOMAIN B :
          IF UserAddressed(B[k]) THEN s[k] = B[k].id
          ELSE s[k] \in SystemSlots \ live
     /\ \A k1, k2 \in DOMAIN B :
          k1 # k2 /\ ~UserAddressed(B[k1]) /\ ~UserAddressed(B[k2])
            => s[k1] # s[k2]}

Init ==
  /\ live = {}
  /\ busy = {}
  /\ held = [w \in Lanes |-> << >>]
  /\ release = [w \in Lanes |-> {}]
  /\ halted = FALSE

\* A request of lane w gets its slots.
Allocate(w) ==
  /\ ~halted
  /\ w \notin busy
  /\ \E r \in Requests : \E s \in Assignments(r) :
       /\ held'    = [held EXCEPT ![w] = s]
       /\ release' = [release EXCEPT ![w] =
                        {s[k] : k \in {i \in DOMAIN s : r.buffers[i].need_free}}]
       /\ live'    = live \cup {s[k] : k \in DOMAIN s}
  /\ busy' = busy \cup {w}
  /\ UNCHANGED halted

\* A request of lane w needs a system-addressed slot when every one is
\* live: the process aborts, with the slots it took on the way.
Abort(w) ==
  /\ ~halted
  /\ w \notin busy
  /\ \E r \in Requests :
       /\ \E k \in DOMAIN r.buffers : ~UserAddressed(r.buffers[k])
       /\ \E new \in SUBSET ((SystemSlots \ live) \cup
                             {r.buffers[k].id : k \in {i \in DOMAIN r.buffers :
                                                      UserAddressed(r.buffers[i])}}) :
            /\ live' = live \cup new
            /\ SystemSlots \subseteq live'
  /\ halted' = TRUE
  /\ UNCHANGED <<busy, held, release>>

\* The request of lane w completes and frees its need_free slots.
Complete(w) ==
  /\ ~halted
  /\ w \in busy
  /\ live'    = live \ release[w]
  /\ busy'    = busy \ {w}
  /\ held'    = [held EXCEPT ![w] = << >>]
  /\ release' = [release EXCEPT ![w] = {}]
  /\ UNCHANGED halted

Next == \E w \in Lanes : Allocate(w) \/ Abort(w) \/ Complete(w)

Spec == Init /\ [][Next]_vars

=============================================================================
