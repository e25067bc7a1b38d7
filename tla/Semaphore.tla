------------------------------ MODULE Semaphore ------------------------------
(***************************************************************************)
(* jlos_semaphore_wait and jlos_semaphore_post of kernel/sync.c: a resource*)
(* counter that tasks on any number of CPUs take and give back, and that   *)
(* interrupt handlers post to as well.                                     *)
(*                                                                         *)
(* The region each function executes under sem->lock is one step.          *)
(* schedule() is seen from the task: a BLOCKED task goes on once somebody  *)
(* has called jlos_task_wakeup for it.                                     *)
(***************************************************************************)
EXTENDS Integers, Sequences, FiniteSets

CONSTANTS Task,
          Initial,     \* init_count of jlos_semaphore_init
          MaxCount     \* bound on the count that interrupt handlers reach

ASSUME SemaphoreAssumption ==
    IsFiniteSet(Task) /\ Initial \in Nat /\ MaxCount \in Nat

VARIABLES resource_count,
          wait_queue,
          blocked,     \* the tasks whose status is BLOCKED
          pc           \* outside, asleep inside wait, or past it

vars == <<resource_count, wait_queue, blocked, pc>>

Init ==
    /\ resource_count = Initial
    /\ wait_queue = <<>>
    /\ blocked = {}
    /\ pc = [t \in Task |-> "out"]

\* jlos_semaphore_wait up to the unlock.
SemWait_StayRunning(t) ==
    /\ pc[t] = "out"
    /\ resource_count' = resource_count - 1
    /\ IF resource_count' >= 0
       THEN pc' = [pc EXCEPT ![t] = "passed"] /\ UNCHANGED <<wait_queue, blocked>>
       ELSE /\ wait_queue' = Append(wait_queue, t)
            /\ pc' = [pc EXCEPT ![t] = "asleep"]
            /\ UNCHANGED blocked
SemWait_OffByOne(t) ==
    /\ pc[t] = "out"
    /\ resource_count' = resource_count - 1
    /\ IF resource_count >= 0
       THEN pc' = [pc EXCEPT ![t] = "passed"] /\ UNCHANGED <<wait_queue, blocked>>
       ELSE /\ wait_queue' = Append(wait_queue, t)
            /\ pc' = [pc EXCEPT ![t] = "asleep"]
            /\ blocked' = blocked \cup {t}
SemWait(t) ==
    /\ pc[t] = "out"
    /\ resource_count' = resource_count - 1
    /\ IF resource_count' >= 0
       THEN pc' = [pc EXCEPT ![t] = "passed"] /\ UNCHANGED <<wait_queue, blocked>>
       ELSE /\ wait_queue' = Append(wait_queue, t)
            /\ blocked' = blocked \cup {t}
            /\ pc' = [pc EXCEPT ![t] = "asleep"]

\* schedule() returns in a task that was woken.
Return(t) ==
    /\ pc[t] = "asleep" /\ t \notin blocked
    /\ pc' = [pc EXCEPT ![t] = "passed"]
    /\ UNCHANGED <<resource_count, wait_queue, blocked>>

\* jlos_semaphore_post: a count that stays at or below zero means somebody
\* waits; the first in the queue gets the token.
jlos_semaphore_post ==
    /\ resource_count' = resource_count + 1
    /\ IF resource_count' > 0 \/ wait_queue = <<>>
       THEN UNCHANGED <<wait_queue, blocked>>
       ELSE /\ wait_queue' = Tail(wait_queue)
            /\ blocked' = blocked \ {Head(wait_queue)}

\* A task gives back what it took.
Release(t) ==
    /\ pc[t] = "passed"
    /\ jlos_semaphore_post
    /\ pc' = [pc EXCEPT ![t] = "out"]

\* An interrupt handler posts.
IrqPost ==
    /\ resource_count < MaxCount
    /\ jlos_semaphore_post
    /\ UNCHANGED pc

Next == IrqPost \/ \E t \in Task : SemWait(t) \/ Return(t) \/ Release(t)

Spec == Init /\ [][Next]_vars

\* A woken task is scheduled and a holder releases; nobody has to ask and no
\* interrupt has to come.
Continue(t) == Return(t) \/ Release(t)
Fairness == \A t \in Task : WF_vars(Continue(t))
FairSpec == Spec /\ Fairness

-----------------------------------------------------------------------------
(* Properties *)

TypeOK ==
    /\ resource_count \in Int /\ resource_count >= -Cardinality(Task)
    /\ wait_queue \in Seq(Task)
    /\ blocked \subseteq Task
    /\ pc \in [Task -> {"out", "asleep", "passed"}]

\* No wakeup is lost and none is given twice: the BLOCKED tasks are exactly
\* the queued ones, each queued once, and a negative count is their number.
\* In particular nobody is queued while the count says there is a token.
WaitersAccounted ==
    /\ blocked = {wait_queue[i] : i \in 1 .. Len(wait_queue)}
    /\ \A i, j \in 1 .. Len(wait_queue) :
            wait_queue[i] = wait_queue[j] => i = j
    /\ \A t \in blocked : pc[t] = "asleep"
    /\ Len(wait_queue) = IF resource_count < 0 THEN -resource_count ELSE 0

\* Tokens given to a waiter that has not returned yet.
Granted == {t \in Task : pc[t] = "asleep" /\ t \notin blocked}

\* wait returns only with a token, over all interleavings of waits and posts:
\* the code implements CountingSemaphore.
Abstract == INSTANCE CountingSemaphore WITH
    Client <- Task,
    tokens <- Cardinality(Granted) + (IF resource_count > 0 THEN resource_count ELSE 0),
    asking <- {t \in Task : pc[t] = "asleep"},
    passed <- {t \in Task : pc[t] = "passed"}
RefinesCountingSemaphore == Abstract!Spec

\* With at least one token in the system that holders give back, every wait
\* returns: the queue is first come, first served.
EveryWaitReturns == \A t \in Task : []<>(pc[t] # "asleep")
=============================================================================
