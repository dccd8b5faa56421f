---------------------------- MODULE MC_LBRegistry ----------------------------
EXTENDS LBRegistry

CONSTANTS f1, f2, f3

DistLB == <<"Dist", "LB">>

\* TreeLB registered twice (by two linked libraries), and one more strategy
\* whose constructor registers no StartLB function.
MCEntries ==
  { [name |-> TreeLB, fn |-> f1, startLB |-> TRUE],
    [name |-> TreeLB, fn |-> f2, startLB |-> TRUE],
    [name |-> DistLB, fn |-> f3, startLB |-> FALSE] }

\* +LBSim with a negative step and with step 0.
MCSimArgs == {-1, 0}

MCDefaults == { [stem |-> DistLB, opts |-> FALSE] }

\* A legacy name, a legacy name with options (no longer legacy), TreeLB with
\* options, an abbreviation of DistLB, and a name nothing registers.
MCArgs ==
  { [stem |-> <<"Greedy", "LB">>, opts |-> FALSE],
    [stem |-> <<"Greedy", "LB">>, opts |-> TRUE],
    [stem |-> TreeLB, opts |-> TRUE],
    [stem |-> <<"Dist">>, opts |-> FALSE],
    [stem |-> <<"Metis", "LB">>, opts |-> FALSE] }
=============================================================================
