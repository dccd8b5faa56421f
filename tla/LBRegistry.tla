------------------------------ MODULE LBRegistry ------------------------------
(***************************************************************************)
(* The strategy catalogue LBDBRegistry of src/src/ck-ldb/LBManager.C and   *)
(* the start-up path that uses it on PE 0:                                 *)
(*   - LBRegisterBalancer / LBDefaultCreate, called by the strategies'     *)
(*     module initialisers, fill lbtables and compile_lbs;                 *)
(*   - _loadbalancerInit parses the +balancer arguments into runtime_lbs,  *)
(*     translating the legacy strategy names into TreeLB with a legacy     *)
(*     configuration recorded in legacy_runtime_treelbs, or, with          *)
(*     +MetaLB and +MetaLBModelDir, selects TreeLB alone;                  *)
(*   - the mainchare LBMgrInit creates one group per selected name, the    *)
(*     run-time selection taking precedence over the compile-time one,     *)
(*     through search(), and aborts on a name no entry matches;            *)
(*   - getLBAllocFn looks a name up again for its allocation function.     *)
(*   - +LBSim n turns on simulation mode: _loadbalancerInit aborts on a    *)
(*     negative n, and LBMgrInit calls StartLB on PE 0 once the groups are *)
(*     created, which aborts if no strategy registered a StartLB function. *)
(*     A group's branch on the creating PE is built within the creation    *)
(*     call, so the strategies created before StartLB have registered.     *)
(*                                                                         *)
(* A strategy name is a sequence of syllables, so that the prefix match of *)
(* strncmp(name, entry, slen) is IsPrefix.  A +balancer argument is its    *)
(* stem (the text before the first ':' or ',') and whether it has options *)
(* after it; the option text itself is not looked at here.  The numeric   *)
(* options _loadbalancerInit clamps and prints are data nothing here reads. *)
(***************************************************************************)
EXTENDS Integers, SequencesExt

CONSTANTS
  Entries,      \* [name, fn, startLB] registrations LBRegisterBalancer may
                \* make; startLB: the strategy's constructor calls AddStartLBFn
  Defaults,     \* arguments LBDefaultCreate may record
  Args,         \* +balancer arguments: [stem, opts]
  MaxEntries,   \* bound on the number of registrations
  MaxDefaults,  \* bound on the number of compile-time defaults
  MaxArgs,      \* bound on the number of +balancer arguments
  SimArgs,      \* the values a +LBSim argument may give
  USE_ZLIB,     \* CMK_USE_ZLIB
  NONE          \* a null function pointer / no legacy name

ASSUME MaxEntries \in Nat /\ MaxDefaults \in Nat /\ MaxArgs \in Nat
ASSUME USE_ZLIB \in BOOLEAN /\ SimArgs \subseteq Int

TreeLB == <<"Tree", "LB">>

\* The legacy names _loadbalancerInit maps onto TreeLB configurations.
LegacyTreeLB ==
     (<<"Greedy", "LB">>           :> <<"Greedy">>)
  @@ (<<"Greedy", "Refine", "LB">> :> <<"Greedy", "Refine">>)
  @@ (<<"Refine", "LB">>           :> <<"RefineA">>)
  @@ (<<"RandCent", "LB">>         :> <<"Random">>)
  @@ (<<"Dummy", "LB">>            :> <<"Dummy">>)
  @@ (<<"Rotate", "LB">>           :> <<"Rotate">>)

\* strcmp compares the whole argument, options included.
IsLegacy(a) == ~a.opts /\ a.stem \in DOMAIN LegacyTreeLB

VARIABLES
  lbtables,                \* lbtables: the registrations, in order
  compile_lbs,             \* compile_lbs
  runtime_lbs,             \* runtime_lbs
  legacy_runtime_treelbs,  \* index in runtime_lbs -> legacy name
  argv,                    \* the +balancer arguments on the command line
  metaLB,                  \* +MetaLB given, +MetaLBModelDir given
  phase,                   \* "link", "parsed" (by _loadbalancerInit), "done"
  created,                 \* the groups LBMgrInit created: [fn, legacy]
  alloc,                   \* the last getLBAllocFn call: [arg, fn], or NONE
  aborted,                 \* CkAbort reached
  simStep                  \* the +LBSim argument, NONE if not given

vars == <<lbtables, compile_lbs, runtime_lbs, legacy_runtime_treelbs, argv,
          metaLB, phase, created, alloc, aborted, simStep>>

(***************************************************************************)
(* Registry operations                                                     *)
(***************************************************************************)
\* Faulty variant of search(): entry 0 of lbtables is never searched.
SearchSkippingFirst(a) ==
  LET i == SelectInSubSeq(lbtables, 2, Len(lbtables),
                          LAMBDA e : IsPrefix(a.stem, e.name))
  IN  IF i = 0 THEN NONE ELSE lbtables[i].fn

\* search(name): the create function of the FIRST entry whose name starts
\* with the argument's stem.
Search(a) ==
  LET i == SelectInSeq(lbtables, LAMBDA e : IsPrefix(a.stem, e.name))
  IN  IF i = 0 THEN NONE ELSE lbtables[i].fn

\* getLBAllocFn(name) compares slen characters, where slen is ptr - name.
\* Without a delimiter ptr is NULL and slen is whatever the truncated
\* difference of a null and a real pointer is: no characters, some of them,
\* or (as a huge size_t) the whole string, terminator included (-1 here).
AllocSlens(a) ==
  IF a.opts THEN {Len(a.stem)} ELSE (0 .. Len(a.stem)) \cup {-1}

AllocMatches(a, slen, e) ==
  IF slen = -1 THEN e.name = a.stem ELSE IsPrefix(SubSeq(a.stem, 1, slen), e.name)

GetLBAllocFnWith(a, slen) ==
  LET i == SelectInSeq(lbtables, LAMBDA e : AllocMatches(a, slen, e))
  IN  IF i = 0 THEN NONE ELSE lbtables[i].fn

\* Faulty variant: the legacy name is keyed by the index after the push.
AddRuntimeBalancerAfterPush(st, name, legacyName) ==
  [st EXCEPT
     !.legacy = IF legacyName = NONE \/ Len(st.rt) + 1 \in DOMAIN @ THEN @
                ELSE @ @@ (Len(st.rt) + 1 :> legacyName),
     !.rt     = Append(@, name)]

\* addRuntimeBalancer on st = [rt, legacy]: emplace (which keeps an
\* existing key) at runtime_lbs.size(), then push_back.
AddRuntimeBalancer(st, name, legacyName) ==
  [st EXCEPT
     !.legacy = IF legacyName = NONE \/ Len(st.rt) \in DOMAIN @ THEN @
                ELSE @ @@ (Len(st.rt) :> legacyName),
     !.rt     = Append(@, name)]

\* Faulty variant: the legacy argument itself is passed as the TreeLB
\* configuration name.
ParseBalancerPassingOldName(st, a) ==
  IF IsLegacy(a)
  THEN AddRuntimeBalancer(st, [stem |-> TreeLB, opts |-> FALSE], a.stem)
  ELSE AddRuntimeBalancer(st, a, NONE)

\* One iteration of the +balancer loop of _loadbalancerInit.
ParseBalancer(st, a) ==
  IF IsLegacy(a)
  THEN AddRuntimeBalancer(st, [stem |-> TreeLB, opts |-> FALSE], LegacyTreeLB[a.stem])
  ELSE AddRuntimeBalancer(st, a, NONE)

\* The legacy name LBMgrInit passes for the i-th (0-based) selection.
LegacyOf(useRuntime, i) ==
  IF useRuntime /\ i \in DOMAIN legacy_runtime_treelbs
  THEN legacy_runtime_treelbs[i] ELSE NONE

\* The loop of LBMgrInit over the selected names: createLoadBalancer each
\* one, stopping at the first name search() does not know.
RECURSIVE CreateFrom(_, _, _, _)
CreateFrom(sel, useRuntime, i, acc) ==
  IF i > Len(sel) \/ acc.aborted THEN acc
  ELSE LET fn == Search(sel[i]) IN
       IF fn = NONE THEN [acc EXCEPT !.aborted = TRUE]
       ELSE CreateFrom(sel, useRuntime, i + 1,
              [acc EXCEPT !.created =
                 Append(@, [fn |-> fn, legacy |-> LegacyOf(useRuntime, i - 1)])])

\* Faulty variant: a simulation from step 0 is refused as well.
SimStepInvalidAtZero(n) == n <= 0

\* The check of _loadbalancerInit on +LBSim: "should be >= 0".
SimStepInvalid(n) == n < 0

\* StartLB on PE 0's branch: startLBFn_count counts the StartLB functions
\* the constructors of the strategies created so far registered; with
\* none, CmiAbort("StartLB is not supported in this LB").
StartLBAborts(made) ==
  ~\E c \in Range(made) : \E e \in Range(lbtables) : e.fn = c.fn /\ e.startLB

(***************************************************************************)
(* Actions                                                                 *)
(***************************************************************************)
Init ==
  /\ lbtables = << >>
  /\ compile_lbs = << >>
  /\ runtime_lbs = << >>
  /\ legacy_runtime_treelbs = << >>
  /\ argv \in SeqOf(Args, MaxArgs)
  /\ metaLB \in [on : BOOLEAN, dir : BOOLEAN]
  /\ phase = "link"
  /\ created = << >>
  /\ alloc = NONE
  /\ aborted = FALSE
  /\ simStep \in SimArgs \cup {NONE}

\* LBRegisterBalancer from a strategy's module initialiser: addEntry.
LBRegisterBalancer ==
  /\ phase = "link"
  /\ Len(lbtables) < MaxEntries
  /\ \E e \in Entries : lbtables' = Append(lbtables, e)
  /\ UNCHANGED <<compile_lbs, runtime_lbs, legacy_runtime_treelbs, argv, metaLB,
                 phase, created, alloc, aborted, simStep>>

\* LBDefaultCreate: a strategy linked in as the default.
LBDefaultCreate ==
  /\ phase = "link"
  /\ Len(compile_lbs) < MaxDefaults
  /\ \E d \in Defaults : compile_lbs' = Append(compile_lbs, d)
  /\ UNCHANGED <<lbtables, runtime_lbs, legacy_runtime_treelbs, argv, metaLB,
                 phase, created, alloc, aborted, simStep>>

\* _loadbalancerInit on rank 0: the strategy selection, then the +LBSim
\* check, which aborts (and returns) on a negative step.
LoadbalancerInit ==
  /\ phase = "link"
  /\ IF metaLB.on /\ metaLB.dir
     THEN IF USE_ZLIB
          THEN /\ runtime_lbs' = Append(runtime_lbs, [stem |-> TreeLB, opts |-> FALSE])
               /\ UNCHANGED legacy_runtime_treelbs
          ELSE UNCHANGED <<runtime_lbs, legacy_runtime_treelbs>>
     ELSE LET st == FoldLeft(ParseBalancer,
                             [rt |-> runtime_lbs, legacy |-> legacy_runtime_treelbs],
                             argv)
          IN  /\ runtime_lbs' = st.rt
              /\ legacy_runtime_treelbs' = st.legacy
  /\ aborted' = \/ metaLB.on /\ metaLB.dir /\ ~USE_ZLIB
                \/ simStep # NONE /\ SimStepInvalid(simStep)
  /\ phase' = "parsed"
  /\ UNCHANGED <<lbtables, compile_lbs, argv, metaLB, created, alloc, simStep>>

\* The mainchare LBMgrInit: create the selected strategies, then, in
\* simulation mode, StartLB.
LBMgrInit ==
  /\ phase = "parsed"
  /\ ~aborted
  /\ LET useRuntime == Len(runtime_lbs) > 0
         sel == IF useRuntime THEN runtime_lbs ELSE compile_lbs
         res == CreateFrom(sel, useRuntime, 1, [created |-> created, aborted |-> FALSE])
     IN  /\ created' = res.created
         /\ aborted' = \/ res.aborted
                       \/ simStep # NONE /\ StartLBAborts(res.created)
  /\ phase' = "done"
  /\ UNCHANGED <<lbtables, compile_lbs, runtime_lbs, legacy_runtime_treelbs,
                 argv, metaLB, alloc, simStep>>

\* getLBAllocFn(name), by a strategy that needs its allocation function.
GetLBAllocFn ==
  /\ phase = "done"
  /\ ~aborted
  /\ \E a \in Args : \E slen \in AllocSlens(a) :
       alloc' = [arg |-> a, fn |-> GetLBAllocFnWith(a, slen)]
  /\ UNCHANGED <<lbtables, compile_lbs, runtime_lbs, legacy_runtime_treelbs,
                 argv, metaLB, phase, created, aborted, simStep>>

Next ==
  \/ LBRegisterBalancer
  \/ LBDefaultCreate
  \/ LoadbalancerInit
  \/ LBMgrInit
  \/ GetLBAllocFn

Spec == Init /\ [][Next]_vars

(***************************************************************************)
(* Properties                                                              *)
(***************************************************************************)
TypeOK ==
  /\ lbtables \in Seq(Entries)
  /\ phase \in {"link", "parsed", "done"}
  /\ created \in Seq([fn : {e.fn : e \in Entries},
                      legacy : Range(LegacyTreeLB) \cup {NONE}])
  /\ aborted \in BOOLEAN

\* What the command line selects, as the spec states it: TreeLB alone with
\* a model-based MetaLB, else the +balancer arguments in order with the
\* legacy names turned into TreeLB with their configuration, else the
\* compile-time defaults.
Selected ==
  IF metaLB.on /\ metaLB.dir THEN << [stem |-> TreeLB, legacy |-> NONE] >>
  ELSE IF argv # << >>
  THEN [i \in DOMAIN argv |->
          IF IsLegacy(argv[i])
          THEN [stem |-> TreeLB, legacy |-> LegacyTreeLB[argv[i].stem]]
          ELSE [stem |-> argv[i].stem, legacy |-> NONE]]
  ELSE [i \in DOMAIN compile_lbs |-> [stem |-> compile_lbs[i].stem, legacy |-> NONE]]

Known(stem) == \E e \in Range(lbtables) : IsPrefix(stem, e.name)

\* Once LBMgrInit has run, one group was created per selected strategy, in
\* command-line order, each by a registration matching its name and with
\* the legacy configuration of its own argument: the index bookkeeping of
\* addRuntimeBalancer and of LBMgrInit agree.
StrategiesAsSelected ==
  phase = "done" /\ ~aborted =>
    /\ Len(created) = Len(Selected)
    /\ \A i \in DOMAIN created :
         /\ created[i].legacy = Selected[i].legacy
         /\ \E e \in Range(lbtables) :
              e.fn = created[i].fn /\ IsPrefix(Selected[i].stem, e.name)

\* Start-up aborts only on a bad command line: a selected name no
\* registration matches, a model-based MetaLB without zlib, a negative
\* +LBSim step, or a simulation none of whose selected strategies can be
\* started by StartLB.  A known name is always found, a simulation from
\* step 0 is accepted, and StartLB runs after the strategies exist.
AbortOnlyOnBadArguments ==
  aborted =>
    \/ metaLB.on /\ metaLB.dir /\ ~USE_ZLIB
    \/ \E i \in DOMAIN Selected : ~Known(Selected[i].stem)
    \/ simStep # NONE /\ simStep < 0
    \/ simStep # NONE /\
       \A i \in DOMAIN Selected :
         \A e \in Range(lbtables) : IsPrefix(Selected[i].stem, e.name) => ~e.startLB

\* getLBAllocFn finds the registration search() finds for the same name.
\* Without a ':' or ',' in the name its length is computed from a null
\* pointer.
AllocFnAgreesWithSearch ==
  alloc # NONE => alloc.fn = Search(alloc.arg)

=============================================================================
