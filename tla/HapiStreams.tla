----------------------------- MODULE HapiStreams -----------------------------
(***************************************************************************)
(* The stream pool of GPUManager (src/src/arch/cuda/hybridAPI/             *)
(* gpumanager.h): the array streams_ of n_streams_ CUDA streams, grown by  *)
(* createNStreams and createStreams, handed out round-robin by             *)
(* getNextStream and by index by getStream.                                *)
(*                                                                         *)
(* A stream is identified by the number of the cudaStreamCreate that made  *)
(* it.  streams_ = NULL is the empty sequence: n_streams_ is 0 exactly     *)
(* when streams_ is NULL, because streams_ is only replaced when the new   *)
(* count exceeds the old one.                                              *)
(***************************************************************************)
EXTENDS Integers, Sequences, FiniteSets

CONSTANTS
  SMP,            \* CMK_SMP
  Capabilities,   \* the <<major, minor>> compute capabilities a device may have
  PesOnNode,      \* values of CmiNumPesOnPhysicalNode(0)
  DeviceCounts,   \* values of cudaGetDeviceCount
  StreamRequests, \* arguments a caller may pass to createNStreams
  MaxCalls        \* bound on the number of getNextStream/getStream calls

ASSUME SMP \in BOOLEAN
ASSUME DeviceCounts \subseteq Nat \ {0}
ASSUME MaxCalls \in Nat

VARIABLES
  streams,          \* streams_[0 .. n_streams_-1], as a sequence
  last_stream_id,   \* last_stream_id_
  created,          \* number of cudaStreamCreate calls so far
  destroyed,        \* destroyStreams has run
  aborted,          \* CmiAbort("[HAPI] invalid stream ID") reached
  calls,            \* number of stream lookups so far
  lastTurn          \* history: for each index returned, the call that last
                    \* returned it and the pool size at that call

vars == <<streams, last_stream_id, created, destroyed, aborted, calls, lastTurn>>

n_streams == Len(streams)

(***************************************************************************)
(* The number of concurrent kernels of a compute capability, the table of  *)
(* createStreams.                                                          *)
(***************************************************************************)
ConcurrentKernels(major, minor) ==
  CASE major = 3 -> (CASE minor = 0 -> 16 [] minor = 2 -> 4 [] OTHER -> 32)
    [] major = 5 -> (IF minor = 3 THEN 16 ELSE 32)
    [] major = 6 -> (CASE minor = 1 -> 32 [] minor = 2 -> 16 [] OTHER -> 128)
    [] OTHER     -> 128

\* Without SMP the device's streams are split among the PEs sharing it.
StreamsPerProcess(major, minor, pes, devices) ==
  LET n   == ConcurrentKernels(major, minor)
      ppd == IF pes \div devices > 0 THEN pes \div devices ELSE 1
  IN  IF SMP THEN n ELSE (n + ppd - 1) \div ppd

\* Faulty variant: growth recreates every stream instead of copying the old ones.
GrowRecreatingAll(new_n) ==
  [i \in 1 .. new_n |-> created + i]

\* createNStreams beyond n_streams_: keeps the old handles, creates the rest.
Grow(new_n) ==
  [i \in 1 .. new_n |-> IF i <= n_streams THEN streams[i]
                        ELSE created + (i - n_streams)]

\* Faulty variant: growth also resets the round-robin cursor.
CursorAfterGrowthReset == -1

CursorAfterGrowth == last_stream_id

\* Faulty variant: the cursor is advanced without wrapping.
NextIndexUnwrapped == last_stream_id + 1

\* last_stream_id_ = (++last_stream_id_) % n_streams_
NextIndex == (last_stream_id + 1) % n_streams

(***************************************************************************)
(* Actions                                                                 *)
(***************************************************************************)
Init ==
  /\ streams        = << >>
  /\ last_stream_id = -1
  /\ created        = 0
  /\ destroyed      = FALSE
  /\ aborted        = FALSE
  /\ calls          = 0
  /\ lastTurn       = << >>

Live == ~destroyed /\ ~aborted

\* createNStreams(new_n); createStreams(), whose count comes from the
\* device's compute capability, is the same step with that count.
CreateNStreamsOf(new_n) ==
  /\ Live
  /\ IF new_n <= n_streams
     THEN UNCHANGED <<streams, created, last_stream_id>>
     ELSE /\ streams' = Grow(new_n)
          /\ created' = created + (new_n - n_streams)
          /\ last_stream_id' = CursorAfterGrowth
  /\ UNCHANGED <<destroyed, aborted, calls, lastTurn>>

CreateNStreams ==
  \E new_n \in StreamRequests : CreateNStreamsOf(new_n)

CreateStreams ==
  \E c \in Capabilities, pes \in PesOnNode, d \in DeviceCounts :
    CreateNStreamsOf(StreamsPerProcess(c[1], c[2], pes, d))

\* getNextStream with streams: the stream after the last one returned.
\* (With streams_ NULL it returns the default stream and changes nothing.)
GetNextStream ==
  /\ Live
  /\ streams # << >>
  /\ calls < MaxCalls
  /\ LET i == NextIndex IN
       /\ last_stream_id' = i
       /\ lastTurn' = [j \in DOMAIN lastTurn \cup {i} |->
                         IF j = i THEN [call |-> calls + 1, size |-> n_streams]
                         ELSE lastTurn[j]]
  /\ calls' = calls + 1
  /\ UNCHANGED <<streams, created, destroyed, aborted>>

\* getStream(i) with an index outside 0 .. n_streams_-1 aborts.
GetStreamInvalid ==
  /\ Live
  /\ streams # << >>
  /\ calls < MaxCalls
  /\ \E i \in -1 .. n_streams : i < 0 \/ i >= n_streams
  /\ aborted' = TRUE
  /\ calls' = calls + 1
  /\ UNCHANGED <<streams, last_stream_id, created, destroyed, lastTurn>>

\* destroyStreams at exit: destroys every stream, leaves streams_ as it is.
DestroyStreams ==
  /\ Live
  /\ destroyed' = TRUE
  /\ UNCHANGED <<streams, last_stream_id, created, aborted, calls, lastTurn>>

Next ==
  \/ CreateNStreams
  \/ CreateStreams
  \/ GetNextStream
  \/ GetStreamInvalid
  \/ DestroyStreams

Spec == Init /\ [][Next]_vars

(***************************************************************************)
(* Properties                                                              *)
(***************************************************************************)
TypeOK ==
  /\ streams \in Seq(Nat)
  /\ last_stream_id \in -1 .. n_streams - 1
  /\ created \in Nat
  /\ destroyed \in BOOLEAN
  /\ aborted \in BOOLEAN
  /\ calls \in 0 .. MaxCalls

\* Growing the pool never shrinks it and never changes a stream already
\* handed out: createNStreams copies the old handles before creating new
\* ones, and ignores a count that is not larger.
StreamsOnlyGrow ==
  [][/\ n_streams' >= n_streams
     /\ \A i \in 1 .. n_streams : streams'[i] = streams[i]]_vars

\* getNextStream is round-robin across growth: when it returns index i
\* again, every other index the pool had when i was last returned has been
\* returned since.
RoundRobin ==
  [][GetNextStream =>
       LET i == last_stream_id' IN
       i \in DOMAIN lastTurn =>
         \A j \in (0 .. lastTurn[i].size - 1) \ {i} :
           j \in DOMAIN lastTurn /\ lastTurn[j].call > lastTurn[i].call]_vars

=============================================================================
