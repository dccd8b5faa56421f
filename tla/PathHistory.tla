----------------------------- MODULE PathHistory -----------------------------
(***************************************************************************)
(* Merging of critical paths on one PE (src/src/ck-cp/pathHistory.h, with *)
(* USE_CRITICAL_PATH_HEADER_ARRAY).                                        *)
(*                                                                         *)
(* Each entry method starts with currentlyExecutingPath taken from its     *)
(* message's envelope.  Where a computation depends on several messages,   *)
(* the application merges their paths with the MERGE_PATH macros: a       *)
(* merge point (a MergeablePathHistory declared with MERGE_PATH_DECLARE,   *)
(* or one entry of a std::map declared with MERGE_PATH_DECLARE_D) keeps    *)
(* the longest path merged into it since its last reset, and               *)
(* MERGE_PATH_MAX copies it back into currentlyExecutingPath.  A path is   *)
(* abstracted to its length and to whom it leads back: the sender PE and   *)
(* table index, the entry point and the array.  A PE runs one entry        *)
(* method at a time, so the macros of one merge point never interleave.    *)
(***************************************************************************)
EXTENDS Integers, FiniteSets

CONSTANTS
  Envs,      \* the envelopes messages arrive with (records, see Envelope)
  Keys,      \* the keys n of a MERGE_PATH_DECLARE_D merge point
  Arrs,      \* array ids a local_arr can hold
  GARBAGE,   \* the bits of a local_arr no constructor initialised
  MaxSteps   \* bound on the number of steps

Envelope == [src : Nat, idx : Nat, ep : Nat, arr : Arrs, time : Nat]

ASSUME Envs \subseteq Envelope /\ MaxSteps \in Nat

\* The value of an int member nobody wrote: any bits the build leaves there.
Indeterminate == Arrs \cup {GARBAGE}

VARIABLES
  current,   \* CkpvAccess(currentlyExecutingPath)
  mergeX,    \* merge_path_x (MERGE_PATH_DECLARE(x)), a member of the chare
  mergeD,    \* merge_path_D_x (MERGE_PATH_DECLARE_D(x)), a std::map
  sinceX,    \* the paths merged into merge_path_x since its last reset
  sinceD,    \* the same for each key of merge_path_D_x
  inEntry,   \* an entry method runs (the macros are used in entry methods)
  arrived,   \* the length of the path the running entry's message brought
  steps      \* steps so far

vars == <<current, mergeX, mergeD, sinceX, sinceD, inEntry, arrived, steps>>

(***************************************************************************)
(* MergeablePathHistory                                                    *)
(***************************************************************************)
\* The constructor from an envelope: the sender, its table index, the
\* entry point and array the message is for, and the path length so far.
FromEnvelope(e) ==
  [started |-> 0, time |-> e.time, pe |-> e.src, idx |-> e.idx,
   ep |-> e.ep, arr |-> e.arr]

\* Faulty variant: reset leaves the path length.
ResetKeepingTime(h) == [h EXCEPT !.pe = -1, !.idx = -1, !.ep = -1, !.started = 0]

\* reset(): everything but local_arr.
Reset(h) == [h EXCEPT !.pe = -1, !.idx = -1, !.ep = -1, !.time = 0, !.started = 0]

\* The default constructor: reset() on a local_arr nobody initialised.
Defaults == {Reset([started |-> 0, time |-> 0, pe |-> 0, idx |-> 0, ep |-> 0,
                    arr |-> a]) : a \in Indeterminate}

\* Faulty variant: the comparison is reversed.
UpdateMaxReversed(h, other) == IF other.time < h.time THEN other ELSE h

\* updateMax(other): *this = other if other is strictly longer.
UpdateMax(h, other) == IF h.time < other.time THEN other ELSE h

\* std::map::operator[]: the entry, default-constructed if missing.
Entry(n, d) == IF n \in DOMAIN mergeD THEN mergeD[n] ELSE d

\* The map with entry n set to h.
MapSet(n, h) == [k \in DOMAIN mergeD \cup {n} |-> IF k = n THEN h ELSE mergeD[k]]

(***************************************************************************)
(* Actions                                                                 *)
(***************************************************************************)
\* CkpvInitialize of currentlyExecutingPath and the chare's constructor:
\* default-constructed paths, and an empty map.
Init ==
  /\ current \in Defaults
  /\ mergeX \in Defaults
  /\ mergeD = [n \in {} |-> current]
  /\ sinceX = {}
  /\ sinceD = [n \in Keys |-> {}]
  /\ inEntry = FALSE
  /\ arrived = 0
  /\ steps = 0

Step == steps < MaxSteps /\ steps' = steps + 1

\* A macro, in the entry method that runs.
Macro == inEntry /\ Step /\ UNCHANGED <<inEntry, arrived>>

\* An entry method starts: currentlyExecutingPath is the envelope's path.
Deliver(e) ==
  /\ Step
  /\ current' = FromEnvelope(e)
  /\ inEntry' = TRUE
  /\ arrived' = e.time
  /\ UNCHANGED <<mergeX, mergeD, sinceX, sinceD>>

\* MERGE_PATH_RESET(x).
MergeReset ==
  /\ Macro
  /\ mergeX' = Reset(mergeX)
  /\ sinceX' = {}
  /\ UNCHANGED <<current, mergeD, sinceD>>

\* MERGE_PATH_MAX(x): merge the executing path into merge_path_x, then
\* make the result the executing path.
MergeMax ==
  LET r == UpdateMax(mergeX, current) IN
  /\ Macro
  /\ mergeX' = r
  /\ current' = r
  /\ sinceX' = sinceX \cup {current}
  /\ UNCHANGED <<mergeD, sinceD>>

\* MERGE_PATH_RESET_D(x, n): operator[] creates the entry if missing.
MergeResetD(n) ==
  /\ Macro
  /\ \E d \in Defaults : mergeD' = MapSet(n, Reset(Entry(n, d)))
  /\ sinceD' = [sinceD EXCEPT ![n] = {}]
  /\ UNCHANGED <<current, mergeX, sinceX>>

\* Faulty variant: the entry is copied to the executing path before the
\* merge.
MergeMaxDCopyFirst(n) ==
  /\ Macro
  /\ \E d \in Defaults :
       /\ mergeD' = MapSet(n, UpdateMax(Entry(n, d), current))
       /\ current' = Entry(n, d)
  /\ sinceD' = [sinceD EXCEPT ![n] = @ \cup {current}]
  /\ UNCHANGED <<mergeX, sinceX>>

\* MERGE_PATH_MAX_D(x, n).
MergeMaxD(n) ==
  /\ Macro
  /\ \E d \in Defaults :
       LET r == UpdateMax(Entry(n, d), current) IN
       /\ mergeD' = MapSet(n, r)
       /\ current' = r
  /\ sinceD' = [sinceD EXCEPT ![n] = @ \cup {current}]
  /\ UNCHANGED <<mergeX, sinceX>>

\* MERGE_PATH_DELETE_D(x, n): erase.
MergeDeleteD(n) ==
  /\ Macro
  /\ mergeD' = [k \in DOMAIN mergeD \ {n} |-> mergeD[k]]
  /\ sinceD' = [sinceD EXCEPT ![n] = {}]
  /\ UNCHANGED <<current, mergeX, sinceX>>

\* MERGE_PATH_DELETE_ALL_D(x): clear.
MergeDeleteAllD ==
  /\ Macro
  /\ mergeD' = [k \in {} |-> current]
  /\ sinceD' = [n \in Keys |-> {}]
  /\ UNCHANGED <<current, mergeX, sinceX>>

Next ==
  \/ \E e \in Envs : Deliver(e)
  \/ MergeReset
  \/ MergeMax
  \/ MergeDeleteAllD
  \/ \E n \in Keys : MergeResetD(n) \/ MergeMaxD(n) \/ MergeDeleteD(n)

Spec == Init /\ [][Next]_vars

(***************************************************************************)
(* Properties                                                              *)
(***************************************************************************)
Paths == {FromEnvelope(e) : e \in Envs} \cup Defaults

TypeOK ==
  /\ current \in Paths
  /\ mergeX \in Paths
  /\ DOMAIN mergeD \subseteq Keys
  /\ \A n \in DOMAIN mergeD : mergeD[n] \in Paths

\* A merge point that had paths merged into it since its last reset (or
\* erase) holds one of them, and none of them is longer: the longest path,
\* not the reset's empty path, not a path from before the reset, and not
\* a mixture of two.
Longest(h, merged) ==
  merged # {} => h \in merged /\ \A m \in merged : m.time <= h.time

MergePointsHoldLongest ==
  /\ Longest(mergeX, sinceX)
  /\ \A n \in DOMAIN mergeD : Longest(mergeD[n], sinceD[n])

\* In an entry method the executing path, which criticalPath_send passes
\* on, is never shorter than the path its message arrived with: the
\* MERGE_PATH_MAX macros only lengthen it.
ExecutingPathNotShortened == inEntry => current.time >= arrived

=============================================================================
