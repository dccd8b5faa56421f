----------------------------- MODULE LBCallbacks -----------------------------
(***************************************************************************)
(* The two callback lists of an LBManager branch (src/src/ck-ldb/          *)
(* LBManager.C): startLBFnList, with its live count startLBFn_count, and   *)
(* migrationDoneCBList.  Add* appends and returns the index as the         *)
(* handle; Remove* deletes the entry and leaves a null in its place, so   *)
(* handles never move; StartLB (which aborts if no callback is live) and   *)
(* MigrationDone call the live entries in index order, re-reading the      *)
(* list's size on every iteration.                                         *)
(*                                                                         *)
(* The branch runs on one PE, so the only interleaving is re-entrance: a   *)
(* callback called by the loop may itself add or remove callbacks of       *)
(* either list.  A callback is identified by the number of the Add that    *)
(* registered it.                                                          *)
(***************************************************************************)
EXTENDS Integers, SequencesExt

CONSTANTS
  MaxAdds,   \* bound on the number of Add calls
  MaxLoops,  \* bound on the number of StartLB / MigrationDone calls
  NULL

Lists == {"startLB", "migrationDone"}

VARIABLES
  list,      \* list[k]: the callbacks of list k by handle (index), or NULL
  count,     \* startLBFn_count
  adds,      \* Add calls so far (the next callback's number is adds + 1)
  handle,    \* history: the list and handle each Add returned
  loop,      \* list k's loop in progress: [k, i, live, called], or NULL
  loops,     \* loops started so far
  aborted    \* CmiAbort("StartLB is not supported in this LB") reached

vars == <<list, count, adds, handle, loop, loops, aborted>>

Live(k) == {list[k][h] : h \in DOMAIN list[k]} \ {NULL}

(***************************************************************************)
(* Operations on a list, as functions of the branch's state.              *)
(***************************************************************************)
\* Add*Fn: push_back, and for startLBFnList count it.
Added(k) ==
  [list  |-> [list EXCEPT ![k] = Append(@, adds + 1)],
   count |-> IF k = "startLB" THEN count + 1 ELSE count,
   adds  |-> adds + 1,
   handle |-> handle @@ (adds + 1 :> [k |-> k, h |-> Len(list[k]) + 1])]

\* Faulty variant: the entry is erased, shifting the later handles.
RemovedErasing(k, h) ==
  [list  |-> [list EXCEPT ![k] = RemoveAt(@, h)],
   count |-> IF k = "startLB" /\ list[k][h] # NULL THEN count - 1 ELSE count,
   adds  |-> adds, handle |-> handle]

\* Faulty variant: the null test is missing, a second removal counts again.
RemovedUnchecked(k, h) ==
  [list  |-> [list EXCEPT ![k][h] = NULL],
   count |-> IF k = "startLB" THEN count - 1 ELSE count,
   adds  |-> adds, handle |-> handle]

\* Remove*Fn(handle): if the entry is not null, delete it and null it.
Removed(k, h) ==
  [list  |-> [list EXCEPT ![k][h] = NULL],
   count |-> IF k = "startLB" /\ list[k][h] # NULL THEN count - 1 ELSE count,
   adds  |-> adds, handle |-> handle]

\* Faulty variant: the loop starts at the second entry.
FirstIndexSkipping == 2

\* The loops start at the first entry.
FirstIndex == 1

\* What a piece of code may do to the lists: add a callback, remove one by
\* a handle it was given, or nothing.
Effects ==
  {[list |-> list, count |-> count, adds |-> adds, handle |-> handle]}
  \cup (IF adds < MaxAdds THEN {Added(k) : k \in Lists} ELSE {})
  \cup UNION {{Removed(k, h) : h \in DOMAIN list[k]} : k \in Lists}

Apply(e) ==
  /\ list' = e.list
  /\ count' = e.count
  /\ adds' = e.adds
  /\ handle' = e.handle

(***************************************************************************)
(* Actions                                                                 *)
(***************************************************************************)
Init ==
  /\ list = [k \in Lists |-> << >>]
  /\ count = 0
  /\ adds = 0
  /\ handle = << >>
  /\ loop = NULL
  /\ loops = 0
  /\ aborted = FALSE

\* The owner (a strategy, the runtime) adds or removes a callback between
\* loops.
AddFn ==
  /\ ~aborted /\ loop = NULL
  /\ adds < MaxAdds
  /\ \E k \in Lists : Apply(Added(k))
  /\ UNCHANGED <<loop, loops, aborted>>

RemoveFn ==
  /\ ~aborted /\ loop = NULL
  /\ \E k \in Lists, h \in 1 .. MaxAdds :
       h \in DOMAIN list[k] /\ Apply(Removed(k, h))
  /\ UNCHANGED <<loop, loops, aborted>>

\* StartLB: aborts when no callback is live, else starts the loop.
StartLB ==
  /\ ~aborted /\ loop = NULL
  /\ loops < MaxLoops
  /\ loops' = loops + 1
  /\ IF count = 0
     THEN aborted' = TRUE /\ UNCHANGED loop
     ELSE /\ loop' = [k |-> "startLB", i |-> FirstIndex,
                      live |-> Live("startLB"), called |-> << >>]
          /\ UNCHANGED aborted
  /\ UNCHANGED <<list, count, adds, handle>>

\* MigrationDone: starts the loop.
MigrationDone ==
  /\ ~aborted /\ loop = NULL
  /\ loops < MaxLoops
  /\ loops' = loops + 1
  /\ loop' = [k |-> "migrationDone", i |-> FirstIndex,
              live |-> Live("migrationDone"), called |-> << >>]
  /\ UNCHANGED <<list, count, adds, handle, aborted>>

\* One iteration of the loop: call the entry at i if it is not null; the
\* callback's body may change either list.
LoopStep ==
  LET k  == loop.k
      i  == loop.i
      cb == IF i \in DOMAIN list[k] THEN list[k][i] ELSE NULL
  IN
  /\ loop # NULL
  /\ i <= Len(list[k])
  /\ IF cb = NULL
     THEN /\ loop' = [loop EXCEPT !.i = i + 1]
          /\ UNCHANGED <<list, count, adds, handle>>
     ELSE /\ loop' = [loop EXCEPT !.i = i + 1, !.called = Append(@, cb)]
          /\ \E e \in Effects : Apply(e)
  /\ UNCHANGED <<loops, aborted>>

\* i reached the list's size: the loop returns.
LoopEnd ==
  /\ loop # NULL
  /\ loop.i > Len(list[loop.k])
  /\ loop' = NULL
  /\ UNCHANGED <<list, count, adds, handle, loops, aborted>>

Next ==
  \/ AddFn
  \/ RemoveFn
  \/ StartLB
  \/ MigrationDone
  \/ LoopStep
  \/ LoopEnd

Spec == Init /\ [][Next]_vars

(***************************************************************************)
(* Properties                                                              *)
(***************************************************************************)
\* However adds and removals, double removals included, interleave with
\* StartLB and with each other from within callbacks, startLBFn_count is
\* the number of live StartLB callbacks: StartLB aborts exactly when none
\* is live.
CountIsLive ==
  count = Cardinality(Live("startLB"))

\* A handle keeps naming the callback it was returned for until that
\* callback is removed, whatever was added and removed around it: no entry
\* ever moves.
HandlesStable ==
  \A n \in DOMAIN handle :
    LET k == handle[n].k
        h == handle[n].h
    IN  n \in Live(k) => h \in DOMAIN list[k] /\ list[k][h] = n

\* A loop that returns has called every callback live when it started and
\* not removed since exactly once, and no callback twice.
EachLiveCalledOnce ==
  [][LoopEnd =>
       /\ \A cb \in loop.live \cap Live(loop.k) :
            Cardinality({j \in DOMAIN loop.called : loop.called[j] = cb}) = 1
       /\ \A j1, j2 \in DOMAIN loop.called :
            j1 # j2 => loop.called[j1] # loop.called[j2]]_vars

=============================================================================
