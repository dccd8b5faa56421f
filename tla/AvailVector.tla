----------------------------- MODULE AvailVector -----------------------------
(***************************************************************************)
(* The availability vector of src/src/ck-ldb/LBManager.C: the static       *)
(* avail_vector, one per process and so shared by the LBManager branches   *)
(* of all PEs of an SMP process, filled with 1 by initnodeFn, written by   *)
(* set_avail_vector and read by get_avail_vector, which copy it one PE     *)
(* entry at a time and take no lock (only pup takes avail_vector_lock).  *)
(* Each PE's branch keeps                                                  *)
(* its own new_ld_balancer, which set_avail_vector recomputes as the      *)
(* first available PE when asked to (new_ld = -1).                         *)
(*                                                                         *)
(* A restart from a checkpoint taken on np PEs re-runs initnodeFn and      *)
(* recreates every branch by LBManager::pup: under avail_vector_lock the  *)
(* first branch to unpack restores the vector (reallocated to np entries  *)
(* when np is larger), the others unpack into a scratch vector.           *)
(*                                                                         *)
(* Each loop iteration is a step, so that the copies of PEs running on     *)
(* different threads of the process interleave.                            *)
(***************************************************************************)
EXTENDS Integers, FiniteSets

CONSTANTS
  Threads,    \* the PEs of the process, each running its LBManager branch
  NumProc,    \* CkNumPes()
  Bitmaps,    \* bitmaps callers pass to set_avail_vector
  MaxCalls,   \* bound on the calls per thread
  CkptPes,    \* PE counts a checkpoint may have been taken with
  MaxRestarts, \* bound on the restarts
  NONE

Procs == 0 .. NumProc - 1

ASSUME Bitmaps \subseteq [Procs -> {0, 1}]
ASSUME MaxCalls \in Nat /\ MaxRestarts \in Nat
ASSUME CkptPes \subseteq Nat \ {0}

\* Faulty variant: a new_ld one past the last PE gets through.
NewLdsUnchecked == {-2, -1} \cup 0 .. NumProc

\* new_ld arguments set_avail_vector accepts: -2 keep, -1 compute, or a PE
\* (CmiAssert(new_ld < num_proc)).
NewLds == {-2, -1} \cup Procs

AllOnes == [q \in Procs |-> 1]

VARIABLES
  avail_vector,     \* the shared vector
  new_ld_balancer,  \* each branch's new_ld_balancer
  pc,               \* "idle", "set", "get" per thread
  count,            \* loop index per thread
  bitmap,           \* the argument of the call in progress, per thread
  assigned,         \* set_avail_vector's local assigned, per thread
  lastLd,           \* the new_ld of each thread's last set_avail_vector
  snapshot,         \* what get_avail_vector has copied so far, per thread
  read,             \* the last bitmap get_avail_vector returned, per thread
  written,          \* history: the vectors some call has written as a whole
  calls,            \* calls per thread
  avail_vector_set, \* the static avail_vector_set
  branch,           \* the threads whose LBManager branch exists
  ckpt,             \* the checkpoint restarted from: [np, bits], or NONE
  pristine,         \* no set_avail_vector has written since the restore
  outOfBounds,      \* an access past the end of avail_vector happened
  restarts          \* restarts so far

vars == <<avail_vector, new_ld_balancer, pc, count, bitmap,
          assigned, lastLd, snapshot, read, written, calls,
          avail_vector_set, branch, ckpt, pristine, outOfBounds, restarts>>

Len(v) == Cardinality(DOMAIN v)
ckptVars == <<avail_vector_set, branch, ckpt, pristine, outOfBounds, restarts>>

(***************************************************************************)
(* Operations                                                              *)
(***************************************************************************)
\* Faulty variant: the loop stops one entry short.
LastIndexShort == NumProc - 2

\* The last index the copy loops visit.
LastIndex == NumProc - 1

\* Faulty variant: the first PE is chosen whether or not it is available.
ChoosesNewLd(t, c) == ~assigned[t]

\* set_avail_vector picks PE c as the new balancer when it is available and
\* none was assigned yet.
ChoosesNewLdIfAvailable(t, c) == bitmap[t][c] = 1 /\ ~assigned[t]

\* A vector of n entries, all 1.
Fresh(n) == [i \in 0 .. n - 1 |-> 1]

\* Faulty variant: the vector is never reallocated.
ReallocatedNever(v, np) == v

\* pup's reallocation: a checkpoint of more PEs than this run has gets a
\* fresh vector of np entries.
Reallocated(v, np) == IF np > NumProc THEN Fresh(np) ELSE v

\* Faulty variant: the last checkpointed entry is not copied.
UnpackedShort(v, c) == [i \in DOMAIN v |-> IF i < c.np - 1 THEN c.bits[i] ELSE v[i]]

\* p(avail_vector, np): the checkpoint's np entries overwrite the first np
\* entries of v; the rest keep initnodeFn's 1.
Unpacked(v, c) == [i \in DOMAIN v |-> IF i < c.np THEN c.bits[i] ELSE v[i]]

(***************************************************************************)
(* Actions                                                                 *)
(***************************************************************************)
Init ==
  /\ avail_vector = AllOnes
  /\ new_ld_balancer = [t \in Threads |-> 0]
  /\ pc = [t \in Threads |-> "idle"]
  /\ count = [t \in Threads |-> 0]
  /\ bitmap = [t \in Threads |-> AllOnes]
  /\ assigned = [t \in Threads |-> FALSE]
  /\ lastLd = [t \in Threads |-> NONE]
  /\ snapshot = [t \in Threads |-> << >>]
  /\ read = [t \in Threads |-> NONE]
  /\ written = {AllOnes}
  /\ calls = [t \in Threads |-> 0]
  /\ avail_vector_set = FALSE
  /\ branch = Threads
  /\ ckpt = NONE
  /\ pristine = FALSE
  /\ outOfBounds = FALSE
  /\ restarts = 0

Call(t) ==
  /\ t \in branch
  /\ pc[t] = "idle"
  /\ calls[t] < MaxCalls
  /\ calls' = [calls EXCEPT ![t] = @ + 1]

\* set_avail_vector(bm, ld), up to the loop.
SetAvailVector(t) ==
  /\ Call(t)
  /\ \E bm \in Bitmaps, ld \in NewLds :
       /\ bitmap' = [bitmap EXCEPT ![t] = bm]
       /\ assigned' = [assigned EXCEPT ![t] = ld # -1]
       /\ new_ld_balancer' = IF ld >= 0 THEN [new_ld_balancer EXCEPT ![t] = ld]
                             ELSE new_ld_balancer
       /\ lastLd' = [lastLd EXCEPT ![t] = ld]
       /\ written' = written \cup {bm}
  /\ pc' = [pc EXCEPT ![t] = "set"]
  /\ count' = [count EXCEPT ![t] = 0]
  /\ UNCHANGED <<avail_vector, snapshot, read>>
  /\ UNCHANGED ckptVars

\* One iteration of set_avail_vector's loop.
SetStep(t) ==
  LET c == count[t] IN
  /\ pc[t] = "set"
  /\ avail_vector' = [avail_vector EXCEPT ![c] = bitmap[t][c]]
  /\ IF ChoosesNewLdIfAvailable(t, c)
     THEN /\ new_ld_balancer' = [new_ld_balancer EXCEPT ![t] = c]
          /\ assigned' = [assigned EXCEPT ![t] = TRUE]
     ELSE UNCHANGED <<new_ld_balancer, assigned>>
  /\ count' = [count EXCEPT ![t] = c + 1]
  /\ pc' = [pc EXCEPT ![t] = IF c = LastIndex THEN "idle" ELSE "set"]
  /\ pristine' = FALSE
  /\ UNCHANGED <<bitmap, lastLd, snapshot, read, written, calls>>
  /\ UNCHANGED <<avail_vector_set, branch, ckpt, outOfBounds, restarts>>

\* get_avail_vector(bm), up to the loop.
GetAvailVector(t) ==
  /\ Call(t)
  /\ pc' = [pc EXCEPT ![t] = "get"]
  /\ count' = [count EXCEPT ![t] = 0]
  /\ snapshot' = [snapshot EXCEPT ![t] = << >>]
  /\ UNCHANGED <<avail_vector, new_ld_balancer, bitmap,
                 assigned, lastLd, read, written>>
  /\ UNCHANGED ckptVars

\* One iteration of get_avail_vector's loop.
GetStep(t) ==
  LET c == count[t]
      s == [q \in 0 .. c |-> IF q = c THEN avail_vector[c] ELSE snapshot[t][q]]
  IN
  /\ pc[t] = "get"
  /\ snapshot' = [snapshot EXCEPT ![t] = s]
  /\ count' = [count EXCEPT ![t] = c + 1]
  /\ IF c = LastIndex
     THEN /\ pc' = [pc EXCEPT ![t] = "idle"]
          /\ read' = [read EXCEPT ![t] = s]
     ELSE UNCHANGED <<pc, read>>
  /\ UNCHANGED <<avail_vector, new_ld_balancer, bitmap,
                 assigned, lastLd, written, calls>>
  /\ UNCHANGED ckptVars

\* The process fails and restarts from a checkpoint taken on np PEs:
\* everything in memory is lost, initnodeFn refills the vector, and the
\* branches do not exist until the runtime unpacks them.
Restart ==
  /\ restarts < MaxRestarts
  /\ \E np \in CkptPes :
       \E bits \in [0 .. np - 1 -> {0, 1}] : ckpt' = [np |-> np, bits |-> bits]
  /\ avail_vector' = AllOnes
  /\ avail_vector_set' = FALSE
  /\ branch' = {}
  /\ pc' = [t \in Threads |-> "idle"]
  /\ count' = [t \in Threads |-> 0]
  /\ bitmap' = [t \in Threads |-> AllOnes]
  /\ assigned' = [t \in Threads |-> FALSE]
  /\ lastLd' = [t \in Threads |-> NONE]
  /\ snapshot' = [t \in Threads |-> << >>]
  /\ read' = [t \in Threads |-> NONE]
  /\ written' = {AllOnes}
  /\ pristine' = TRUE
  /\ restarts' = restarts + 1
  /\ UNCHANGED <<new_ld_balancer, calls, outOfBounds>>

\* LBManager::pup unpacking thread t's branch, under avail_vector_lock: the
\* first branch restores the vector, the others unpack into a scratch
\* vector.  new_ld_balancer is not packed; the constructor the runtime
\* recreates the branch with (LBManager.h) may leave any PE there.
Restore(t) ==
  /\ ckpt # NONE
  /\ t \notin branch
  /\ branch' = branch \cup {t}
  /\ \E ld \in Procs : new_ld_balancer' = [new_ld_balancer EXCEPT ![t] = ld]
  /\ IF avail_vector_set
     THEN UNCHANGED <<avail_vector, avail_vector_set, written, outOfBounds>>
     ELSE LET v == Reallocated(avail_vector, ckpt.np) IN
          /\ avail_vector_set' = TRUE
          /\ avail_vector' = Unpacked(v, ckpt)
          /\ outOfBounds' = (outOfBounds \/ ckpt.np > Len(v))
          /\ written' = written \cup {[q \in Procs |-> avail_vector'[q]]}
  /\ UNCHANGED <<pc, count, bitmap, assigned, lastLd, snapshot, read, calls,
                 ckpt, pristine, restarts>>

Next ==
  \/ Restart
  \/ \E t \in Threads : Restore(t)
  \/ \E t \in Threads :
    \/ SetAvailVector(t)
    \/ SetStep(t)
    \/ GetAvailVector(t)
    \/ GetStep(t)

Spec == Init /\ [][Next]_vars

(***************************************************************************)
(* Properties                                                              *)
(***************************************************************************)
TypeOK ==
  /\ avail_vector \in UNION {[0 .. n - 1 -> {0, 1}] : n \in {NumProc} \cup CkptPes}
  /\ Len(avail_vector) >= NumProc
  /\ new_ld_balancer \in [Threads -> Procs]
  /\ pc \in [Threads -> {"idle", "set", "get"}]

\* Every bitmap get_avail_vector returns is one vector that a single call
\* wrote as a whole (or the initial one): the vector is read and written as
\* a unit.
ReadIsWrittenBitmap ==
  \A t \in Threads : read[t] # NONE => read[t] \in written

\* After set_avail_vector(bm, -1) has returned and while no other write is
\* in progress, the branch's new_ld_balancer is an available PE, if there is
\* one.
NewLdBalancerAvailable ==
  \A t \in Threads :
    (/\ pc[t] = "idle" /\ lastLd[t] = -1
     /\ \A u \in Threads : pc[u] # "set"
     /\ \E q \in Procs : avail_vector[q] = 1)
    => avail_vector[new_ld_balancer[t]] = 1

\* A restart from a checkpoint taken on any number of PEs never makes pup
\* copy past the end of avail_vector, nor leaves it shorter than
\* CkNumPes() for the copy loops.
AccessesInBounds == ~outOfBounds

\* After a restart, once the vector is restored and until a
\* set_avail_vector writes it, it holds the checkpointed availability of
\* the checkpoint's PEs and 1 for the PEs the checkpoint did not have.
RestoredAsCheckpointed ==
  (ckpt # NONE /\ avail_vector_set /\ pristine) =>
    \A i \in DOMAIN avail_vector :
      avail_vector[i] = IF i < ckpt.np THEN ckpt.bits[i] ELSE 1

=============================================================================
