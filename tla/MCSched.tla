------------------------------ MODULE MCSched ------------------------------
(***************************************************************************)
(* The scheduler on two CPUs, in two instances that differ in what the     *)
(* tasks do: they fork, wait for their children and block, or they sleep   *)
(* and block.  Only the second one goes below the top level of the queues. *)
(***************************************************************************)
EXTENDS Sched

VARIABLE part \* the instance that is explored, fixed

Sleep == INSTANCE Sched WITH Ops <- {"block", "sleep", "exit"}

allVars == <<part, vars>>

MCInit == part \in {"family", "sleep"} /\ Init

MCNext ==
    /\ UNCHANGED part
    /\ \/ part = "family" /\ Next
       \/ part = "sleep" /\ Sleep!Next

MCSpec == MCInit /\ [][MCNext]_allVars

\* Beyond a state in which two CPUs run one task (which stealing can cause,
\* see the README) nothing is claimed.
Explored ==
    /\ OneCpuPerTask
    /\ part = "family" => \A t \in Proc : priority[t] = 0
=============================================================================
