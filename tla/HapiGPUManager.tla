--------------------------- MODULE HapiGPUManager ---------------------------
(***************************************************************************)
(* The HAPI buffer registry of GPUManager (src/src/arch/cuda/hybridAPI/    *)
(* gpumanager.h) driven by concurrent work requests.                       *)
(*                                                                         *)
(* The registry is the pair of slot arrays host_buffers_/device_buffers_,  *)
(* of 2*NUM_BUFFERS entries: ids 0..NUM_BUFFERS-1 are user-addressed, the  *)
(* others are system-addressed and handed out by a rotating cursor         *)
(* next_buffer_.  A work request goes through the stages of the executor:  *)
(* allocateBuffers, hostToDeviceTransfer, runKernel, deviceToHostTransfer, *)
(* freeBuffers.  Each stage is issued from a completion callback, so the   *)
(* stages of requests of different requesters ("lanes") interleave.        *)
(*                                                                         *)
(* A device allocation is identified by the number of the cudaMalloc that  *)
(* made it; the host buffer of the k-th buffer of a lane's request by     *)
(* <<lane, k>>.                                                            *)
(***************************************************************************)
EXTENDS Integers, Sequences, FiniteSetsExt

CONSTANTS
  NumBuffers,   \* NUM_BUFFERS: size of each half of the id space
  Lanes,        \* requesters, each with at most one request in flight
  Requests,     \* the work requests a lane may submit
  MaxRequests,  \* bound on the number of requests submitted
  NULL,         \* a null device pointer
  UNSET         \* a host_buffers_ entry never written (new void*[] is uninitialised)

\* A buffer of a request: hapiBufferInfo (id, size and the three flags).
BufferInfo == [id : Int, size : Nat, transfer_to_device : BOOLEAN,
               transfer_to_host : BOOLEAN, need_free : BOOLEAN]

ASSUME NumBuffers \in Nat \ {0}
ASSUME Requests \subseteq [buffers : Seq(BufferInfo), kernel : BOOLEAN]
ASSUME MaxRequests \in Nat

Slots       == 0 .. 2 * NumBuffers - 1
UserSlots   == 0 .. NumBuffers - 1
SystemSlots == NumBuffers .. 2 * NumBuffers - 1
Allocation  == [gen : Nat, size : Nat]

HostBuffer  == Lanes \X Nat

Stages == {"idle", "allocated", "in", "kernel", "out"}

VARIABLES
  device_buffers,  \* device_buffers_: [Slots -> Allocation \cup {NULL}]
  host_buffers,    \* host_buffers_:   [Slots -> HostBuffer \cup {UNSET}]
  next_buffer,     \* next_buffer_
  mallocs,         \* number of cudaMalloc calls so far
  aborted,         \* CmiAbort("[HAPI] ran out of device buffer indices") reached
  stage,           \* stage of each lane's current request
  req,             \* the request as submitted (ids as the caller gave them)
  bid,             \* bi.id of each buffer after allocateBuffers wrote it back
  got,             \* history: the allocation each buffer resolved to
  submitted        \* number of requests submitted

vars == <<device_buffers, host_buffers, next_buffer, mallocs, aborted,
          stage, req, bid, got, submitted>>

(***************************************************************************)
(* allocateBuffers, one buffer at a time, as a function of the registry    *)
(* state st = [dev, next, mallocs, ids, aborted].                          *)
(***************************************************************************)
FreeIn(dev, lo, hi) == {j \in lo .. hi : dev[j] = NULL}

\* Faulty variants of the operators below, each a plausible slip in the
\* code; checking a property with one of them in place must fail.
MutAllocateBuffer(bi, st, userRangeOffByOne, noWrap, cursorOffByOne) ==
  LET invalid == IF userRangeOffByOne THEN bi.id < 0 \/ bi.id > NumBuffers
                 ELSE bi.id < 0 \/ bi.id >= NumBuffers
      upper   == FreeIn(st.dev, st.next, 2 * NumBuffers - 1)
      lower   == IF noWrap THEN {} ELSE FreeIn(st.dev, NumBuffers, st.next - 1)
      index   == IF ~invalid THEN bi.id
                 ELSE IF upper # {} THEN Min(upper) ELSE Min(lower)
      wrapAt  == IF cursorOffByOne THEN 2 * NumBuffers + 1 ELSE 2 * NumBuffers
      cursor  == IF index + 1 = wrapAt THEN NumBuffers ELSE index + 1
      fresh   == st.dev[index] = NULL
  IN  IF invalid /\ upper = {} /\ lower = {}
      THEN [st EXCEPT !.aborted = TRUE]
      ELSE [st EXCEPT
              !.next    = IF invalid THEN cursor ELSE @,
              !.ids     = Append(@, index),
              !.dev     = IF fresh
                          THEN [@ EXCEPT ![index] =
                                  [gen |-> st.mallocs + 1, size |-> bi.size]]
                          ELSE @,
              !.mallocs = IF fresh THEN @ + 1 ELSE @]
\* The range check accepts id NUM_BUFFERS as user-addressed.
AllocateBufferUserRangeOffByOne(bi, st) == MutAllocateBuffer(bi, st, TRUE, FALSE, FALSE)
\* The second scan, from the start of the system half, is missing.
AllocateBufferNoWrap(bi, st) == MutAllocateBuffer(bi, st, FALSE, TRUE, FALSE)
\* The cursor wraps one slot too late.
AllocateBufferCursorOffByOne(bi, st) == MutAllocateBuffer(bi, st, FALSE, FALSE, TRUE)

AllocateBuffer(bi, st) ==
  LET invalid == bi.id < 0 \/ bi.id >= NumBuffers
      upper   == FreeIn(st.dev, st.next, 2 * NumBuffers - 1)
      lower   == FreeIn(st.dev, NumBuffers, st.next - 1)
      index   == IF ~invalid THEN bi.id
                 ELSE IF upper # {} THEN Min(upper) ELSE Min(lower)
      cursor  == IF index + 1 = 2 * NumBuffers THEN NumBuffers ELSE index + 1
      fresh   == st.dev[index] = NULL
  IN  IF invalid /\ upper = {} /\ lower = {}
      THEN [st EXCEPT !.aborted = TRUE]
      ELSE [st EXCEPT
              !.next    = IF invalid THEN cursor ELSE @,
              !.ids     = Append(@, index),
              !.dev     = IF fresh
                          THEN [@ EXCEPT ![index] =
                                  [gen |-> st.mallocs + 1, size |-> bi.size]]
                          ELSE @,
              !.mallocs = IF fresh THEN @ + 1 ELSE @]

RECURSIVE AllocateLoop(_, _, _)
AllocateLoop(buffers, k, st) ==
  IF k > Len(buffers) \/ st.aborted THEN st
  ELSE AllocateLoop(buffers, k + 1, AllocateBuffer(buffers[k], st))

AllocateBuffers(buffers) ==
  AllocateLoop(buffers, 1,
    [dev |-> device_buffers, next |-> next_buffer, mallocs |-> mallocs,
     ids |-> << >>, aborted |-> FALSE])

\* freeBuffers without the need_free test.
FreeBuffersIgnoringFlag(w) ==
  [j \in Slots |-> IF j \in Range(bid[w]) THEN NULL ELSE device_buffers[j]]

\* freeBuffers: every buffer flagged need_free is freed and its slot nulled.
FreeBuffers(w) ==
  LET freed == {bid[w][k] : k \in {i \in DOMAIN req[w].buffers :
                                     req[w].buffers[i].need_free}}
  IN  [j \in Slots |-> IF j \in freed THEN NULL ELSE device_buffers[j]]

(***************************************************************************)
(* Actions                                                                 *)
(***************************************************************************)
Init ==
  /\ device_buffers = [j \in Slots |-> NULL]
  /\ host_buffers   = [j \in Slots |-> UNSET]
  /\ next_buffer    = NumBuffers
  /\ mallocs        = 0
  /\ aborted        = FALSE
  /\ stage          = [w \in Lanes |-> "idle"]
  /\ req            = [w \in Lanes |-> [buffers |-> << >>, kernel |-> FALSE]]
  /\ bid            = [w \in Lanes |-> << >>]
  /\ got            = [w \in Lanes |-> << >>]
  /\ submitted      = 0

\* allocateBuffers of a newly submitted request that finds every slot it needs.
AllocateBuffersOk(w) ==
  /\ ~aborted
  /\ stage[w] = "idle"
  /\ submitted < MaxRequests
  /\ \E r \in Requests :
       LET st == AllocateBuffers(r.buffers) IN
       /\ ~st.aborted
       /\ device_buffers' = st.dev
       /\ next_buffer'    = st.next
       /\ mallocs'        = st.mallocs
       /\ req'   = [req EXCEPT ![w] = r]
       /\ bid'   = [bid EXCEPT ![w] = st.ids]
       /\ got'   = [got EXCEPT ![w] = [k \in DOMAIN st.ids |-> st.dev[st.ids[k]]]]
  /\ stage'     = [stage EXCEPT ![w] = "allocated"]
  /\ submitted' = submitted + 1
  /\ UNCHANGED <<host_buffers, aborted>>

\* allocateBuffers of a request that needs a system-addressed id when none is free.
AllocateBuffersAbort(w) ==
  /\ ~aborted
  /\ stage[w] = "idle"
  /\ submitted < MaxRequests
  /\ \E r \in Requests :
       LET st == AllocateBuffers(r.buffers) IN
       /\ st.aborted
       /\ device_buffers' = st.dev
       /\ next_buffer'    = st.next
       /\ mallocs'        = st.mallocs
  /\ aborted' = TRUE
  /\ UNCHANGED <<host_buffers, stage, req, bid, got, submitted>>

\* hostToDeviceTransfer: records each buffer's host pointer in its slot
\* (whatever the flag) and copies the flagged ones in.
HostToDeviceTransfer(w) ==
  /\ ~aborted
  /\ stage[w] = "allocated"
  /\ host_buffers' =
       [j \in Slots |->
          LET ks == {k \in DOMAIN bid[w] : bid[w][k] = j}
          IN  IF ks = {} THEN host_buffers[j] ELSE <<w, Max(ks)>>]
  /\ stage' = [stage EXCEPT ![w] = "in"]
  /\ UNCHANGED <<device_buffers, next_buffer, mallocs, aborted, req, bid,
                 got, submitted>>

\* runKernel: calls the kernel closure, if any, with device_buffers_.
RunKernel(w) ==
  /\ ~aborted
  /\ stage[w] = "in"
  /\ stage' = [stage EXCEPT ![w] = "kernel"]
  /\ UNCHANGED <<device_buffers, host_buffers, next_buffer, mallocs, aborted,
                 req, bid, got, submitted>>

\* deviceToHostTransfer: copies each flagged buffer out of its slot's device
\* pointer into its slot's host pointer.
DeviceToHostTransfer(w) ==
  /\ ~aborted
  /\ stage[w] = "kernel"
  /\ stage' = [stage EXCEPT ![w] = "out"]
  /\ UNCHANGED <<device_buffers, host_buffers, next_buffer, mallocs, aborted,
                 req, bid, got, submitted>>

\* Completion: freeBuffers, then the request's callback.
Complete(w) ==
  /\ ~aborted
  /\ stage[w] = "out"
  /\ device_buffers' = FreeBuffers(w)
  /\ stage' = [stage EXCEPT ![w] = "idle"]
  /\ UNCHANGED <<host_buffers, next_buffer, mallocs, aborted, req, bid, got,
                 submitted>>

Next ==
  \E w \in Lanes :
    \/ AllocateBuffersOk(w)
    \/ AllocateBuffersAbort(w)
    \/ HostToDeviceTransfer(w)
    \/ RunKernel(w)
    \/ DeviceToHostTransfer(w)
    \/ Complete(w)

Spec == Init /\ [][Next]_vars

(***************************************************************************)
(* Properties                                                              *)
(***************************************************************************)
InFlight(w) == stage[w] # "idle"

\* The buffers of the requests in flight, as <<lane, position>> pairs.
Held == UNION {{<<w, k>> : k \in DOMAIN bid[w]} : w \in {l \in Lanes : InFlight(l)}}

\* The id the caller gave a buffer, and the id allocateBuffers gave it.
Requested(h) == req[h[1]].buffers[h[2]].id
Resolved(h)  == bid[h[1]][h[2]]

TypeOK ==
  /\ device_buffers \in [Slots -> Allocation \cup {NULL}]
  /\ host_buffers   \in [Slots -> HostBuffer \cup {UNSET}]
  /\ next_buffer    \in SystemSlots
  /\ mallocs        \in Nat
  /\ aborted        \in BOOLEAN
  /\ stage          \in [Lanes -> Stages]
  /\ \A w \in Lanes : bid[w] \in Seq(Slots) /\ got[w] \in Seq(Allocation)
  /\ submitted      \in 0 .. MaxRequests

\* allocateBuffers never hands two buffers in flight the same slot, unless
\* both callers named that user-addressed id themselves: the cursor scan
\* only takes system-addressed slots whose device pointer is NULL, and a
\* slot stays non-NULL until the request holding it frees it.
NoSharedSlot ==
  \A h1, h2 \in Held :
    h1 # h2 /\ Resolved(h1) = Resolved(h2) =>
      Requested(h1) = Resolved(h1) /\ Requested(h2) = Resolved(h2)

\* While a request is in flight, the device pointer in each of its slots is
\* still the allocation allocateBuffers gave it: no other request's
\* freeBuffers nulls it and no allocation replaces it.
InFlightAllocationStable ==
  \A h \in Held : device_buffers[Resolved(h)] = got[h[1]][h[2]]

\* The process aborts for lack of buffer ids only when every
\* system-addressed slot is really taken: the scan from next_buffer_ wraps
\* around to the start of the system-addressed half before giving up.
AbortOnlyWhenExhausted ==
  aborted => \A j \in SystemSlots : device_buffers[j] # NULL

\* deviceToHostTransfer copies each buffer into the host memory of the
\* request it belongs to.  The code copies into host_buffers_[bi.id], the
\* host pointer last recorded in that slot by any request.
DeviceToHostIntoOwnBuffer ==
  [][\A w \in Lanes :
       DeviceToHostTransfer(w) =>
         \A k \in DOMAIN bid[w] :
           req[w].buffers[k].transfer_to_host =>
             host_buffers[bid[w][k]] = <<w, k>>
    ]_vars

\* The registry as its contract describes it: the live slots, the requests
\* in flight with the slots they hold, and the slots they will free.
Registry == INSTANCE BufferRegistry WITH
  live    <- {j \in Slots : device_buffers[j] # NULL},
  busy    <- {w \in Lanes : stage[w] # "idle"},
  held    <- [w \in Lanes |-> IF stage[w] = "idle" THEN << >> ELSE bid[w]],
  release <- [w \in Lanes |->
                IF stage[w] = "idle" THEN {}
                ELSE {bid[w][k] : k \in {i \in DOMAIN req[w].buffers :
                                           req[w].buffers[i].need_free}}],
  halted  <- aborted

\* Every step of the requests and the registry is a step the contract
\* allows: allocateBuffers takes only free system-addressed slots (distinct
\* ones within a request), reuses user-addressed ones, aborts only with the
\* system half full, and freeBuffers frees exactly the need_free slots of
\* the completing request.
RegistryContract == Registry!Spec

=============================================================================
