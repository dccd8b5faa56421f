------------------------------ MODULE Jacobi2d ------------------------------
(***************************************************************************)
(* The GPU-direct 2D Jacobi example,                                       *)
(* src/examples/charm++/cuda/gpudirect/jacobi2d/jacobi2d.C: Main drives    *)
(* an n_chares x n_chares array of Blocks through n_iters bulk-synchronous *)
(* iterations (initDone, then exchangeGhosts / commDone / update /         *)
(* updateDone reductions), and on done() optionally lets the blocks print  *)
(* one after the other in row-major order.                                 *)
(*                                                                         *)
(* In an iteration a block packs its four boundaries into per-side         *)
(* buffers and sends each one to the neighbour on that side, tagged with   *)
(* its my_iter and the side as the receiver sees it.  With -z             *)
(* (use_zerocopy) the message carries a reference to the sender's device   *)
(* buffer, which the receiver's post entry fetches into its own buffer of *)
(* that side; without it the message carries a copy.  The data in a       *)
(* buffer is abstracted to whose boundary of which iteration it holds.    *)
(*                                                                         *)
(* The SDAG code (the .ci file) is not in this tree: a block receives     *)
(* ghosts after it sent its own, only those tagged with its my_iter, and  *)
(* counts neighbors of them; it increments my_iter after update.  The      *)
(* broadcasts and reductions are per-block pending entries and Main steps *)
(* that wait for every block.                                              *)
(***************************************************************************)
EXTENDS Integers, Sequences, FiniteSets

CONSTANTS
  N,         \* n_chares (grid_size / block_size)
  NIters,    \* n_iters
  ZCModes,   \* the values of use_zerocopy to check
  PrintModes \* the values of print to check

ASSUME N \in Nat \ {0} /\ NIters \in Nat \ {0}
ASSUME ZCModes \subseteq BOOLEAN /\ PrintModes \subseteq BOOLEAN

Blocks == (0 .. N - 1) \X (0 .. N - 1)    \* thisIndex = <<x, y>>
Sides == {"LEFT", "RIGHT", "TOP", "BOTTOM"}

\* The block on side s of b.
Neighbour(b, s) ==
  CASE s = "LEFT"   -> <<b[1] - 1, b[2]>>
    [] s = "RIGHT"  -> <<b[1] + 1, b[2]>>
    [] s = "TOP"    -> <<b[1], b[2] - 1>>
    [] s = "BOTTOM" -> <<b[1], b[2] + 1>>

\* Faulty variant: the right and bottom bounds are tested at n_chares.
BoundOffByOne(b, s) ==
  CASE s = "LEFT"   -> b[1] = 0
    [] s = "RIGHT"  -> b[1] = N
    [] s = "TOP"    -> b[2] = 0
    [] s = "BOTTOM" -> b[2] = N

\* init's left_bound, right_bound, top_bound, bottom_bound.
Bound(b, s) ==
  CASE s = "LEFT"   -> b[1] = 0
    [] s = "RIGHT"  -> b[1] = N - 1
    [] s = "TOP"    -> b[2] = 0
    [] s = "BOTTOM" -> b[2] = N - 1

\* Faulty variant: the count starts at 1.
NeighborCountFromOne(b) == 1 + Cardinality({s \in Sides : ~Bound(b, s)})

\* init's neighbors: one per side that is not a bound.
NeighborCount(b) == Cardinality({s \in Sides : ~Bound(b, s)})

\* Faulty variant: the direction is not swapped.
OppUnswapped(s) == s

\* sendGhosts tags the ghost sent to the neighbour on side s with the side
\* the receiver gets it from.
Opp(s) ==
  CASE s = "LEFT" -> "RIGHT" [] s = "RIGHT" -> "LEFT"
    [] s = "TOP" -> "BOTTOM" [] s = "BOTTOM" -> "TOP"

\* Faulty variant: the iteration test pre-increments.
LastIterPreIncrement(i) == i + 1 = NIters

\* updateDone's test my_iter++ == n_iters, on the value before the increment.
LastIter(i) == i = NIters

\* Faulty variant: the last column wraps to the same column of the next row.
NextToPrintSameColumn(b) ==
  IF b[1] = N - 1 THEN <<b[1], b[2] + 1>> ELSE <<b[1] + 1, b[2]>>

\* print() hands over to the next block in row-major order.
NextToPrint(b) ==
  IF b[1] = N - 1 THEN <<0, b[2] + 1>> ELSE <<b[1] + 1, b[2]>>

RowMajor == [i \in 1 .. N * N |-> <<(i - 1) % N, (i - 1) \div N>>]

VARIABLES
  use_zerocopy,  \* readonly use_zerocopy (-z)
  print,         \* readonly print (-p)
  mainIter,      \* Main's my_iter
  mainPhase,     \* which reduction Main waits for, or "done", "exit"
  pending,       \* per block: the broadcast entry delivered but not run
  blockPhase,    \* per block: "new", "inited", "recv", "commdone", "updated"
  iter,          \* per block: my_iter
  neighbors,     \* per block: neighbors
  recv,          \* per block: remote_count
  region,        \* per block and side: whose boundary of which iteration
                 \* the side's ghost buffer holds
  got,           \* per block and side: the ghost last unpacked from it
  hostIter,      \* per block: the iteration copied into h_temperature
  msgs,          \* ghost messages in flight
  printTok,      \* the block a print() message is addressed to, or <<>>
  printed        \* the blocks that printed, in order

vars == <<use_zerocopy, print, mainIter, mainPhase, pending, blockPhase, iter,
          neighbors, recv, region, got, hostIter, msgs, printTok, printed>>

Data == (Blocks \X (0 .. NIters)) \cup {<<>>}
NoData == <<>>

\* A reduction of the whole array (contribute with a CkReductionTarget of
\* Main): its target runs once every block contributed from phase ph.
Reduced(ph) == \A b \in Blocks : blockPhase[b] = ph

(***************************************************************************)
(* Actions                                                                 *)
(***************************************************************************)
\* Main's constructor: the options, then ckNew of the array and the init
\* broadcast.
Init ==
  /\ use_zerocopy \in ZCModes
  /\ print \in PrintModes
  /\ mainIter = 0
  /\ mainPhase = "init"
  /\ pending = [b \in Blocks |-> "init"]
  /\ blockPhase = [b \in Blocks |-> "new"]
  /\ iter = [b \in Blocks |-> 0]
  /\ neighbors = [b \in Blocks |-> 0]
  /\ recv = [b \in Blocks |-> 0]
  /\ region = [b \in Blocks |-> [s \in Sides |-> NoData]]
  /\ got = [b \in Blocks |-> [s \in Sides |-> NoData]]
  /\ hostIter = [b \in Blocks |-> 0]
  /\ msgs = {}
  /\ printTok = <<>>
  /\ printed = << >>

\* Block::init, and its initDone once the stream's init kernel completed:
\* contribute to Main::initDone.
BlockInit(b) ==
  /\ pending[b] = "init"
  /\ pending' = [pending EXCEPT ![b] = "none"]
  /\ iter' = [iter EXCEPT ![b] = 1]
  /\ neighbors' = [neighbors EXCEPT ![b] = NeighborCount(b)]
  /\ blockPhase' = [blockPhase EXCEPT ![b] = "inited"]
  /\ UNCHANGED <<use_zerocopy, print, mainIter, mainPhase, recv, region, got,
                 hostIter, msgs, printTok, printed>>

\* Broadcast to every block.
Broadcast(e) == [b \in Blocks |-> e]

\* Main::initDone: my_iter = 1 and the first exchangeGhosts broadcast.
MainInitDone ==
  /\ mainPhase = "init"
  /\ Reduced("inited")
  /\ mainIter' = 1
  /\ mainPhase' = "comm"
  /\ pending' = Broadcast("exchange")
  /\ UNCHANGED <<use_zerocopy, print, blockPhase, iter, neighbors, recv, region,
                 got, hostIter, msgs, printTok, printed>>

\* exchangeGhosts: packGhosts puts the block's boundaries of this iteration
\* into its ghost buffers (and, without -z, to host, with packGhostsDone
\* after it); sendGhosts then sends each to the neighbour on that side,
\* a copy without -z, a reference to the buffer with it.
Exchange(b) ==
  LET packed == [s \in Sides |-> <<b, iter[b]>>] IN
  /\ pending[b] = "exchange"
  /\ pending' = [pending EXCEPT ![b] = "none"]
  /\ region' = [region EXCEPT ![b] = packed]
  /\ msgs' = msgs \cup
       { [to |-> Neighbour(b, s), from |-> b, side |-> s, dir |-> Opp(s),
          iter |-> iter[b],
          data |-> IF use_zerocopy THEN NoData ELSE packed[s]] :
         s \in {s2 \in Sides : ~Bound(b, s2)} }
  /\ recv' = [recv EXCEPT ![b] = 0]
  /\ blockPhase' = [blockPhase EXCEPT ![b] =
                      IF neighbors[b] = 0 THEN "commdone" ELSE "recv"]
  /\ UNCHANGED <<use_zerocopy, print, mainIter, mainPhase, iter, neighbors, got,
                 hostIter, printTok, printed>>

\* What a ghost message delivers: the copy it carries, or with -z what the
\* sender's buffer of that side holds when the receiver fetches it.
Payload(m) == IF use_zerocopy THEN region[m.from][m.side] ELSE m.data

\* A ghost tagged with the block's my_iter: receiveGhostsZC gives the
\* buffer of side dir and the data lands there, or processGhostsReg copies
\* it there; processGhosts unpacks it into the halo.  The last of the
\* neighbors ghosts contributes to Main::commDone.
Receive(b, m) ==
  /\ m \in msgs
  /\ m.to = b
  /\ blockPhase[b] = "recv"
  /\ m.iter = iter[b]
  /\ msgs' = msgs \ {m}
  /\ region' = [region EXCEPT ![b][m.dir] = Payload(m)]
  /\ got' = [got EXCEPT ![b][m.dir] = Payload(m)]
  /\ recv' = [recv EXCEPT ![b] = @ + 1]
  /\ blockPhase' = [blockPhase EXCEPT ![b] =
                      IF recv[b] + 1 = neighbors[b] THEN "commdone" ELSE "recv"]
  /\ UNCHANGED <<use_zerocopy, print, mainIter, mainPhase, pending, iter,
                 neighbors, hostIter, printTok, printed>>

\* Main::commDone: broadcast update.
MainCommDone ==
  /\ mainPhase = "comm"
  /\ Reduced("commdone")
  /\ mainPhase' = "update"
  /\ pending' = Broadcast("update")
  /\ UNCHANGED <<use_zerocopy, print, mainIter, blockPhase, iter, neighbors, recv,
                 region, got, hostIter, msgs, printTok, printed>>

\* Block::update: the Jacobi kernel, the copy of the result to
\* h_temperature in the last iteration, then updateDone: my_iter is
\* incremented and the block contributes to Main::updateDone.
Update(b) ==
  /\ pending[b] = "update"
  /\ pending' = [pending EXCEPT ![b] = "none"]
  /\ hostIter' = [hostIter EXCEPT ![b] = IF iter[b] = NIters THEN iter[b] ELSE @]
  /\ iter' = [iter EXCEPT ![b] = @ + 1]
  /\ blockPhase' = [blockPhase EXCEPT ![b] = "updated"]
  /\ UNCHANGED <<use_zerocopy, print, mainIter, mainPhase, neighbors, recv,
                 region, got, msgs, printTok, printed>>

\* Main::updateDone: done() after the last iteration, else the next
\* exchangeGhosts broadcast; my_iter is incremented either way.
MainUpdateDone ==
  /\ mainPhase = "update"
  /\ Reduced("updated")
  /\ mainIter' = mainIter + 1
  /\ IF LastIter(mainIter)
     THEN /\ mainPhase' = "done"
          /\ UNCHANGED pending
     ELSE /\ mainPhase' = "comm"
          /\ pending' = Broadcast("exchange")
  /\ UNCHANGED <<use_zerocopy, print, blockPhase, iter, neighbors, recv, region,
                 got, hostIter, msgs, printTok, printed>>

\* Main::done: with -p block (0,0) prints first, else CkExit.
MainDone ==
  /\ mainPhase = "done"
  /\ IF print
     THEN /\ mainPhase' = "printing"
          /\ printTok' = <<0, 0>>
     ELSE /\ mainPhase' = "exit"
          /\ UNCHANGED printTok
  /\ UNCHANGED <<use_zerocopy, print, mainIter, pending, blockPhase, iter,
                 neighbors, recv, region, got, hostIter, msgs, printed>>

\* Block::print: prints h_temperature, then passes on to the next block,
\* or, at the last block, calls Main::printDone.
PrintBlock(b) ==
  /\ printTok = b
  /\ printed' = Append(printed, b)
  /\ printTok' = IF b = <<N - 1, N - 1>> THEN <<>> ELSE NextToPrint(b)
  /\ mainPhase' = IF b = <<N - 1, N - 1>> THEN "printDone" ELSE mainPhase
  /\ UNCHANGED <<use_zerocopy, print, mainIter, pending, blockPhase, iter,
                 neighbors, recv, region, got, hostIter, msgs>>

\* Main::printDone: CkExit.
MainPrintDone ==
  /\ mainPhase = "printDone"
  /\ mainPhase' = "exit"
  /\ UNCHANGED <<use_zerocopy, print, mainIter, pending, blockPhase, iter,
                 neighbors, recv, region, got, hostIter, msgs, printTok, printed>>

Next ==
  \/ MainInitDone
  \/ MainCommDone
  \/ MainUpdateDone
  \/ MainDone
  \/ MainPrintDone
  \/ \E b \in Blocks :
       \/ BlockInit(b)
       \/ Exchange(b)
       \/ Update(b)
       \/ PrintBlock(b)
       \/ \E m \in msgs : Receive(b, m)

\* The runtime delivers every message and broadcast, and every stream
\* callback fires, so each enabled step eventually runs.
Spec == Init /\ [][Next]_vars /\ WF_vars(Next)

(***************************************************************************)
(* Properties                                                              *)
(***************************************************************************)
TypeOK ==
  /\ mainIter \in 0 .. NIters + 1
  /\ iter \in [Blocks -> 0 .. NIters + 1]
  /\ region \in [Blocks -> [Sides -> Data]]
  /\ \A m \in msgs : m.to \in Blocks /\ m.dir \in Sides
  /\ printTok \in Blocks \cup {<<>>}

\* When a block has unpacked all its ghosts of an iteration (and so
\* contributes to commDone), the ghost of each side that is not a bound is
\* the boundary of the neighbour on that side, of the same iteration: the
\* sender's packing, the direction swap in sendGhosts, the side
\* processGhosts writes and the buffer the data travels through agree.
GhostsFromNeighbours ==
  \A b \in Blocks :
    blockPhase[b] = "commdone" =>
      \A s \in Sides : ~Bound(b, s) => got[b][s] = <<Neighbour(b, s), iter[b]>>

\* The same for the runs without -z, where ghosts travel as copies.
RegularGhostsFromNeighbours == ~use_zerocopy => GhostsFromNeighbours

\* Every block that prints holds in h_temperature the result of the last
\* iteration: Main's count of iterations (my_iter++ == n_iters) and the
\* blocks' test in update (my_iter == n_iters) agree.
PrintsFinalResult ==
  \A i \in 1 .. Len(printed) : hostIter[printed[i]] = NIters

\* With -p, the program exits only after every block printed once, in
\* row-major order.
PrintVisitsAll ==
  (mainPhase = "exit" /\ print) => printed = RowMajor

\* The program reaches CkExit.
Terminates == <>(mainPhase = "exit")

\* Refinement: Main's round is its my_iter (1 before initDone); a block
\* has updated in it once its own my_iter is one ahead; the program has
\* halted at CkExit.
BSP == INSTANCE JacobiBSP WITH
  Workers <- Blocks,
  Rounds  <- NIters,
  round   <- IF mainIter = 0 THEN 1 ELSE mainIter,
  updated <- {b \in Blocks : iter[b] = IF mainIter = 0 THEN 2 ELSE mainIter + 1},
  halted  <- (mainPhase = "exit")

\* The example implements bulk-synchronous iteration: no block updates
\* twice in an iteration or runs ahead of the others, Main starts the
\* next iteration only when every block updated, there are exactly
\* n_iters of them, and the program then exits.
BulkSynchronous == BSP!Spec

=============================================================================
