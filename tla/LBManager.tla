------------------------------ MODULE LBManager ------------------------------
(***************************************************************************)
(* Strategy tickets and strategy rotation of the LBManager group           *)
(* (src/src/ck-ldb/LBManager.C).                                           *)
(*                                                                         *)
(* On PE 0 the mainchare LBMgrInit calls createLoadBalancer once per       *)
(* selected strategy: it takes a ticket (getLoadbalancerTicket appends a   *)
(* null entry to loadbalancers and returns its index) and creates the      *)
(* strategy's group with that ticket.  The group's branch on every PE,     *)
(* PE 0 included, is constructed later and in any order, and registers    *)
(* itself with addLoadbalancer(lb, ticket).  Once the runtime's startup is *)
(* over every branch exists, and each load balancing step invokes the      *)
(* strategy at currentLBIndex; when the strategy finishes it calls         *)
(* nextLoadbalancer(its ticket), which turns it off and the next one on.   *)
(*                                                                         *)
(* A strategy instance is identified by the number k of the                *)
(* createLoadBalancer call that made it.                                   *)
(*                                                                         *)
(* The steps are triggered per PE as LBManager::init chose: by a timer     *)
(* (setTimer, re-armed by ResumeClients) when +LBPeriod or LBSetPeriod     *)
(* gave a period, else by a receiver on the local sync barrier, which      *)
(* calls InvokeLB once the PE's AtSync clients have all reached it;        *)
(* ResumeClients releases them after the step.  TurnManualLBOn/Off and     *)
(* LBSetPeriod act on the PE's manager if it exists and otherwise on the   *)
(* static settings init reads.  Each PE is its own process (a non-SMP      *)
(* build), so manualOn and _lb_args are per PE.  The AtSync clients of a   *)
(* PE move together through the barrier, as CkSyncBarrier releases them    *)
(* together.                                                               *)
(***************************************************************************)
EXTENDS Integers, Sequences, FiniteSets

CONSTANTS
  PEs,      \* the PEs, 0 among them
  NumLBs,   \* number of strategies selected (+balancer given NumLBs times)
  NIL,      \* a null BaseLB*
  LateSetPeriod,  \* LBSetPeriod may be called after the LBManager is constructed
  MaxCalls        \* bound on the number of user calls

ASSUME 0 \in PEs /\ PEs \subseteq Nat
ASSUME NumLBs \in Nat \ {0}
ASSUME LateSetPeriod \in BOOLEAN /\ MaxCalls \in Nat

Instances == 0 .. NumLBs - 1

VARIABLES
  loadbalancers,   \* loadbalancers of each PE's LBManager branch
  currentLBIndex,  \* currentLBIndex of each branch
  on,              \* the instances turned on, per PE
  created,         \* createLoadBalancer calls done by LBMgrInit
  ticket,          \* the ticket (seqno) each instance was created with
  pending,         \* <<pe, instance>> branches not yet constructed
  phase,           \* "idle" or "balancing", per PE
  running,         \* the index invoked in the current step, per PE
  steps,           \* load balancing steps finished, per PE (mod 2)
  aborted,         \* CmiAbort("LBManager") reached
  Loop,            \* _lb_args.loop(): +LBLoop, fixed by the command line
  manualOn,        \* the static LBManager::manualOn, per PE
  manual,          \* the manager's manual mode (LBManager::TurnManualLBOn/Off)
  periodSet,       \* _lb_args.lbperiod() != -1.0, per PE
  inited,          \* LBManager::init has run on the PE (lbmanagerInited)
  timer,           \* a periodicLB call is scheduled (CcdCallFnAfterOnPE)
  receiver,        \* InvokeLB is a local barrier receiver
  clients,         \* the PE's AtSync clients: "running", "waiting", "held"
  calls            \* user calls so far

trigger == <<manualOn, manual, periodSet, inited, timer, receiver, clients,
             calls>>
rotation == <<loadbalancers, currentLBIndex, on, created, ticket, pending,
              phase, running, steps, aborted, Loop>>
vars == <<rotation, trigger>>

(***************************************************************************)
(* Operations of LBManager as functions of a branch's state.               *)
(***************************************************************************)

\* Faulty variant: the ticket is the new size instead of the new last index.
TicketPastEnd(lbs) == Len(lbs) + 1

\* getLoadbalancerTicket: the index of the null entry just appended.
Ticket(lbs) == Len(lbs)

\* loadbalancers.resize(seq + 1) when it is shorter.
Resized(lbs, seq) ==
  IF Len(lbs) < seq + 1 THEN lbs \o [i \in 1 .. seq + 1 - Len(lbs) |-> NIL]
  ELSE lbs

\* Entry i (0-based) of a loadbalancers vector.
At(lbs, i) == lbs[i + 1]

\* Faulty variants of NextIndex: the wrap test is off by one either way,
\* or the loop flag is ignored.
MutNextIndex(seq, size, variant) ==
  LET idx == seq + 1 IN
  CASE variant = "wrapEarly" -> IF Loop /\ idx = size - 1 THEN 0 ELSE
                                IF idx = size THEN (IF Loop THEN 0 ELSE seq)
                                ELSE idx
    [] variant = "wrapLate"  -> IF Loop /\ idx = size + 1 THEN 0 ELSE
                                IF ~Loop /\ idx = size THEN seq ELSE idx
    [] variant = "alwaysLoop" -> IF idx = size THEN 0 ELSE idx
NextIndexWrapLate(seq, size)  == MutNextIndex(seq, size, "wrapLate")
NextIndex(seq, size) ==
  IF Loop THEN (IF seq + 1 = size THEN 0 ELSE seq + 1)
  ELSE (IF seq + 1 = size THEN seq ELSE seq + 1)

\* Faulty variant: the old strategy is not turned off.
SwitchedOnKeepingOld(onp, lbs, seq, idx) ==
  IF seq # idx THEN onp \cup {At(lbs, idx)} ELSE onp

\* turnOff of the old strategy and turnOn of the new one, if they differ.
SwitchedOn(onp, lbs, seq, idx) ==
  IF seq # idx THEN (onp \ {At(lbs, seq)}) \cup {At(lbs, idx)} ELSE onp


\* Faulty variant: init arms the timer and registers the receiver.
TriggerBoth(period) == [timer |-> period, receiver |-> TRUE]

\* init: the timer if a period is set, else the barrier receiver.
Trigger(period) == [timer |-> period, receiver |-> ~period]

(***************************************************************************)
(* Actions                                                                 *)
(***************************************************************************)
Init ==
  /\ loadbalancers  = [p \in PEs |-> << >>]
  /\ currentLBIndex = [p \in PEs |-> 0]
  /\ on             = [p \in PEs |-> {}]
  /\ created        = 0
  /\ ticket         = [k \in Instances |-> -1]
  /\ pending        = {}
  /\ phase          = [p \in PEs |-> "idle"]
  /\ running        = [p \in PEs |-> -1]
  /\ steps          = [p \in PEs |-> 0]
  /\ aborted        = FALSE
  /\ Loop           \in BOOLEAN
  /\ manualOn       = [p \in PEs |-> FALSE]
  /\ manual         = [p \in PEs |-> FALSE]
  /\ \E period \in BOOLEAN : periodSet = [p \in PEs |-> period]  \* +LBPeriod
  /\ inited         = [p \in PEs |-> FALSE]
  /\ timer          = [p \in PEs |-> FALSE]
  /\ receiver       = [p \in PEs |-> FALSE]
  /\ clients        = [p \in PEs |-> "running"]
  /\ calls          = 0

UserCall == calls < MaxCalls /\ calls' = calls + 1

\* The global TurnManualLBOn() on PE p.
TurnManualLBOn(p) ==
  /\ UserCall
  /\ IF inited[p] THEN manual' = [manual EXCEPT ![p] = TRUE] /\ UNCHANGED manualOn
     ELSE manualOn' = [manualOn EXCEPT ![p] = TRUE] /\ UNCHANGED manual
  /\ UNCHANGED <<rotation, periodSet, inited, timer, receiver, clients>>

\* The global TurnManualLBOff() on PE p: without a manager it sets
\* manualOn to true.
TurnManualLBOff(p) ==
  /\ UserCall
  /\ IF inited[p] THEN manual' = [manual EXCEPT ![p] = FALSE] /\ UNCHANGED manualOn
     ELSE manualOn' = [manualOn EXCEPT ![p] = TRUE] /\ UNCHANGED manual
  /\ UNCHANGED <<rotation, periodSet, inited, timer, receiver, clients>>

\* LBSetPeriod(s) on PE p: SetLBPeriod on the manager, or
\* _lb_args.lbperiod() = s; either way the period ResumeClients and init read.
LBSetPeriod(p) ==
  /\ UserCall
  /\ ~inited[p] \/ LateSetPeriod
  /\ \E set \in BOOLEAN : periodSet' = [periodSet EXCEPT ![p] = set]
  /\ UNCHANGED <<rotation, manualOn, manual, inited, timer, receiver, clients>>

\* The LBManager branch of PE p is constructed: LBManager::init.
Construct(p) ==
  /\ ~inited[p]
  /\ inited'   = [inited EXCEPT ![p] = TRUE]
  /\ manual'   = [manual EXCEPT ![p] = @ \/ manualOn[p]]
  /\ timer'    = [timer EXCEPT ![p] = Trigger(periodSet[p]).timer]
  /\ receiver' = [receiver EXCEPT ![p] = Trigger(periodSet[p]).receiver]
  /\ UNCHANGED <<rotation, manualOn, periodSet, clients, calls>>

\* createLoadBalancer on PE 0, after LBMgrInit's ckNew constructed PE 0's
\* branch: take a ticket, then create the group, whose branches are
\* constructed later.
CreateLoadBalancer ==
  /\ ~aborted
  /\ inited[0]
  /\ created < NumLBs
  /\ LET seq == Ticket(loadbalancers[0]) IN
       /\ loadbalancers' = [loadbalancers EXCEPT ![0] = Append(@, NIL)]
       /\ ticket' = [ticket EXCEPT ![created] = seq]
  /\ pending' = pending \cup {<<p, created>> : p \in PEs}
  /\ created' = created + 1
  /\ UNCHANGED <<currentLBIndex, on, phase, running, steps, aborted, Loop,
                 trigger>>

\* The strategy's constructor on PE p: addLoadbalancer(lb, seq) on the
\* PE's manager.  On PE 0 the ticket must name an existing, still empty
\* entry.  A strategy starts turned on only if its ticket is 0.
AddLoadbalancer(p, k) ==
  LET seq == ticket[k]
      lbs == loadbalancers[p]
      bad == p = 0 /\ (seq >= Len(lbs) \/ At(lbs, seq) # NIL)
  IN
  /\ ~aborted
  /\ inited[p]
  /\ <<p, k>> \in pending
  /\ pending' = pending \ {<<p, k>>}
  /\ IF bad
     THEN /\ aborted' = TRUE
          /\ UNCHANGED <<loadbalancers, on>>
     ELSE /\ loadbalancers' =
               [loadbalancers EXCEPT ![p] =
                  LET r == Resized(lbs, seq) IN
                  [i \in DOMAIN r |-> IF i = seq + 1 THEN k ELSE r[i]]]
          /\ on' = [on EXCEPT ![p] = IF seq = 0 THEN @ \cup {k} ELSE @]
          /\ UNCHANGED aborted
  /\ UNCHANGED <<currentLBIndex, created, ticket, phase, running, steps, Loop,
                 trigger>>

\* Startup is over: LBMgrInit has run and every branch is constructed.
Started == created = NumLBs /\ pending = {}

\* InvokeLB on PE p: the current strategy starts a step.  The steps of the
\* PEs are collective, so a PE starts step n only when every PE has
\* finished step n - 1.  A trigger fires only once startup is over: the
\* PE's AtSync clients run after it, and the period outlasts it.
InvokeLB(p) ==
  /\ ~aborted
  /\ Started
  /\ phase[p] = "idle"
  /\ \A q \in PEs : steps[q] = steps[p]
  /\ phase'   = [phase EXCEPT ![p] = "balancing"]
  /\ running' = [running EXCEPT ![p] = currentLBIndex[p]]
  /\ UNCHANGED <<loadbalancers, currentLBIndex, on, created, ticket, pending,
                 steps, aborted, Loop>>

\* The PE's AtSync clients reach the barrier (AtLocalBarrier).
AtLocalBarrier(p) ==
  /\ receiver[p]
  /\ clients[p] = "running"
  /\ clients' = [clients EXCEPT ![p] = "waiting"]
  /\ UNCHANGED <<rotation, manualOn, manual, periodSet, inited, timer,
                 receiver, calls>>

\* Every client is at the barrier: the barrier calls its receiver, InvokeLB.
BarrierReceiver(p) ==
  /\ receiver[p]
  /\ clients[p] = "waiting"
  /\ InvokeLB(p)
  /\ clients' = [clients EXCEPT ![p] = "held"]
  /\ UNCHANGED <<manualOn, manual, periodSet, inited, timer, receiver, calls>>

\* The timer fires: periodicLB calls InvokeLB.
PeriodicLB(p) ==
  /\ timer[p]
  /\ InvokeLB(p)
  /\ timer' = [timer EXCEPT ![p] = FALSE]
  /\ UNCHANGED <<manualOn, manual, periodSet, inited, receiver, clients, calls>>

\* The strategy's step ends on PE p once every PE has joined it; the
\* strategy calls nextLoadbalancer(seq) with its own ticket.
NextLoadbalancer(p) ==
  LET seq == running[p]
      lbs == loadbalancers[p]
      idx == NextIndex(seq, Len(lbs))
  IN
  /\ ~aborted
  /\ phase[p] = "balancing"
  /\ \A q \in PEs : phase[q] = "balancing" \/ steps[q] # steps[p]
  /\ currentLBIndex' = [currentLBIndex EXCEPT ![p] = idx]
  /\ IF seq = idx \/ (idx < Len(lbs) /\ At(lbs, idx) # NIL)
     THEN /\ on' = [on EXCEPT ![p] = SwitchedOn(@, lbs, seq, idx)]
          /\ UNCHANGED aborted
     ELSE /\ aborted' = TRUE          \* CmiAssert(loadbalancers[currentLBIndex])
          /\ UNCHANGED on
  /\ phase'   = [phase EXCEPT ![p] = "idle"]
  /\ steps'   = [steps EXCEPT ![p] = (@ + 1) % 2]
  /\ UNCHANGED <<loadbalancers, created, ticket, pending, running, Loop>>

AfterResume(p) ==
  IF periodSet[p] THEN [timer |-> TRUE, clients |-> clients[p]]
  ELSE [timer |-> timer[p], clients |-> "running"]

ResumeClients(p) ==
  /\ timer'   = [timer EXCEPT ![p] = AfterResume(p).timer]
  /\ clients' = [clients EXCEPT ![p] = AfterResume(p).clients]

\* The end of the step on PE p: the strategy moves the manager on to the
\* next strategy and resumes the PE's clients.
EndStep(p) ==
  /\ NextLoadbalancer(p)
  /\ ResumeClients(p)
  /\ UNCHANGED <<manualOn, manual, periodSet, inited, receiver, calls>>

Next ==
  \/ CreateLoadBalancer
  \/ \E p \in PEs, k \in Instances : AddLoadbalancer(p, k)
  \/ \E p \in PEs :
       \/ TurnManualLBOn(p) \/ TurnManualLBOff(p) \/ LBSetPeriod(p)
       \/ Construct(p)
       \/ AtLocalBarrier(p) \/ BarrierReceiver(p) \/ PeriodicLB(p)
       \/ EndStep(p)

\* The runtime delivers every group creation, LBMgrInit runs to its end,
\* the scheduler runs due timers and barrier receivers, strategies finish
\* their steps, and the application keeps reaching AtSync.  The user's
\* calls are not required to happen.
Fairness ==
  /\ WF_vars(CreateLoadBalancer)
  /\ \A p \in PEs, k \in Instances : WF_vars(AddLoadbalancer(p, k))
  /\ \A p \in PEs :
       /\ WF_vars(Construct(p))
       /\ WF_vars(AtLocalBarrier(p))
       /\ WF_vars(BarrierReceiver(p))
       /\ WF_vars(PeriodicLB(p))
       /\ WF_vars(EndStep(p))

Spec == Init /\ [][Next]_vars /\ Fairness

(***************************************************************************)
(* Properties                                                              *)
(***************************************************************************)
TypeOK ==
  /\ \A p \in PEs : loadbalancers[p] \in Seq(Instances \cup {NIL})
  /\ currentLBIndex \in [PEs -> 0 .. NumLBs - 1]
  /\ on \in [PEs -> SUBSET Instances]
  /\ created \in 0 .. NumLBs
  /\ phase \in [PEs -> {"idle", "balancing"}]
  /\ clients \in [PEs -> {"running", "waiting", "held"}]
  /\ aborted \in BOOLEAN
  /\ Loop \in BOOLEAN

\* However the construction of the strategies' branches interleaves across
\* PEs (PE 0 included), once startup is over no PE has aborted on a
\* duplicate ticket and every PE's loadbalancers holds each strategy at the
\* index of its ticket, with no entry left null.
StartupConsistent ==
  /\ ~aborted
  /\ Started =>
       \A p \in PEs :
         /\ Len(loadbalancers[p]) = NumLBs
         /\ \A k \in Instances : At(loadbalancers[p], ticket[k]) = k

\* After startup exactly one strategy is on on each PE, and it is the one
\* InvokeLB calls: nextLoadbalancer turns the old one off and the new one on.
OneStrategyOn ==
  Started =>
    \A p \in PEs : on[p] = {At(loadbalancers[p], currentLBIndex[p])}

WaitersResumed ==
  \A p \in PEs : (clients[p] = "waiting") ~> (clients[p] = "running")

=============================================================================
