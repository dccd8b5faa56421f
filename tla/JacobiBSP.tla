------------------------------ MODULE JacobiBSP ------------------------------
(***************************************************************************)
(* What the GPU-direct Jacobi2d example promises, with the messages, the   *)
(* buffers and the reductions left out: a fixed set of workers performs    *)
(* Rounds bulk-synchronous rounds.  In a round each worker updates once;   *)
(* no worker starts round r + 1 before every worker finished round r; and  *)
(* after the last round the program halts.                                 *)
(*                                                                         *)
(* Jacobi2d implements it (Jacobi2d!BSP, checked by the jacobi2d run).     *)
(***************************************************************************)
EXTENDS Naturals

CONSTANTS
  Workers,   \* the chare array elements
  Rounds     \* the number of iterations

VARIABLES
  round,     \* the round in progress, Rounds + 1 once all are over
  updated,   \* the workers that performed their update of this round
  halted     \* the program has exited

vars == <<round, updated, halted>>

Init ==
  /\ round = 1
  /\ updated = {}
  /\ halted = FALSE

\* Worker w performs its update of the current round.
Step(w) ==
  /\ round <= Rounds
  /\ w \notin updated
  /\ updated' = updated \cup {w}
  /\ UNCHANGED <<round, halted>>

\* Every worker updated: the next round begins.
Advance ==
  /\ updated = Workers
  /\ round' = round + 1
  /\ updated' = {}
  /\ UNCHANGED halted

\* After the last round the program halts.
Halt ==
  /\ round = Rounds + 1
  /\ ~halted
  /\ halted' = TRUE
  /\ UNCHANGED <<round, updated>>

Next == Advance \/ Halt \/ \E w \in Workers : Step(w)

Spec == Init /\ [][Next]_vars /\ WF_vars(Next)

=============================================================================
