------------------------------ MODULE MCTasks -------------------------------
(***************************************************************************)
(* Tasks: the semaphore, the scheduler with every operation of a task on   *)
(* one CPU, high-resolution timers, and what processes share, in one run.  *)
(* The behaviours of each component are explored on their own, with the    *)
(* others at rest.                                                         *)
(***************************************************************************)
EXTENDS Semaphore, HrTimer

CONSTANTS
    t1, t2, t3, t4, NCPU, MaxPid, Levels, Kernel, Boot, Ops, PrTasks, PrSlots

VARIABLES
    part, \* the component whose behaviours are explored, fixed
    status, sleeping, timer, cpu, priority, rq, current, prev, next, at, tp,
    parent, waiting, zombies, waitq, killed, fresh, st, task_pc, parent_pid,
    waits, pids, orphans, mm, mmref, fds, ref, budget, failed, wild

\* A process that execs, or processes that share a pipe or a file.
MCBudgets ==
    {[execs |-> 1, forks |-> 2, objects |-> 0], [execs |-> 0, forks |-> 1, objects |-> 2]}

Sched == INSTANCE Sched
Proc == INSTANCE Process WITH
    PrBudgets <- MCBudgets, pc <- task_pc, parent <- parent_pid,
    zombies <- orphans

schedVars == <<status, sleeping, timer, cpu, priority, rq, current, prev, next, at, tp,
    parent, waiting, zombies, waitq, killed, fresh>>
processVars == <<st, task_pc, parent_pid, waits, pids, orphans, mm, mmref, fds, ref,
    budget, failed, wild>>
allVars == <<part, vars, schedVars, hrVars, processVars>>

\* The components that are not explored keep their initial state.
MCInit ==
    /\ part \in {"semaphore", "sched", "hrtimer", "process"}
    /\ Init
    /\ Sched!Init
    /\ HrInit
    /\ Proc!PrInit /\ (part # "process" => budget.execs = 0)

\* A step of one component.
semaphoreStep ==
    part = "semaphore" /\ UNCHANGED <<part, schedVars, hrVars, processVars>>
schedStep ==
    part = "sched" /\ UNCHANGED <<part, vars, hrVars, processVars>>
hrtimerStep ==
    part = "hrtimer" /\ UNCHANGED <<part, vars, schedVars, processVars>>
processStep ==
    part = "process" /\ UNCHANGED <<part, vars, schedVars, hrVars>>

\* These may come to a stop: everything is closed, destroyed or sent.
Stopped == part \in {"hrtimer", "process"} /\ UNCHANGED allVars

MCNext ==
    \/ semaphoreStep /\ Next
    \/ schedStep /\ Sched!Next
    \/ hrtimerStep /\ HrNext
    \/ processStep /\ Proc!PrNext
    \/ Stopped

\* part never changes: each conjunct is a fairness condition of the component
\* that is explored.
MCFairness ==
    /\ WF_allVars(\/ semaphoreStep /\ Continue(t1)
                  \/ schedStep /\ Sched!Tick(0)
                  \/ processStep /\ Proc!ExitNotify(1))
    /\ WF_allVars(\/ semaphoreStep /\ Continue(t2)
                  \/ schedStep /\ (Sched!ScheduleStep(0) \/ Sched!OperationStep(0))
                  \/ processStep /\ Proc!ExitNotify(2))
    /\ WF_allVars(\/ semaphoreStep /\ Continue(t3)
                  \/ schedStep /\ Sched!Due(1)
                  \/ processStep /\ Proc!ExitNotify(3))
    /\ WF_allVars(\/ semaphoreStep /\ Continue(t4)
                  \/ schedStep /\ Sched!Due(2))
    /\ WF_allVars(schedStep /\ Sched!Due(3))

MCSpec == MCInit /\ [][MCNext]_allVars /\ MCFairness

-----------------------------------------------------------------------------
\* What processes share is counted: an address space lives exactly as long as
\* its users, a pipe end as long as a descriptor refers to it, and a living
\* process is found by its pid.
SharedCounted ==
    part = "process" =>
        /\ Proc!PrTypeOK /\ Proc!MmCounted
        /\ Proc!PipeHeld /\ Proc!PidFindable

-----------------------------------------------------------------------------
\* With SIGKILL on one CPU the run queues stay sound lists, no freed task is
\* used, and wait_pid frees the zombie it reports in the same step.
KillSafe ==
    /\ [](part = "sched" => Sched!QueuedOnce /\ Sched!NoUseAfterFree)
    /\ Sched!ReapedIsFreed

-----------------------------------------------------------------------------
\* Whoever waits resumes: a semaphore wait returns, a ready task runs, a
\* sleeper wakes, a waiting parent resumes when its child exits, and a listed
\* zombie is freed.
TasksResume ==
    /\ EveryWaitReturns
    /\ \A t \in 1 .. MaxPid : []<>(part = "sched" => status[t] # "ready")
    /\ Sched!SleeperWakes /\ Sched!WaiterResumes /\ Sched!ListedZombieFreed
    /\ Proc!ExitWakesParent
=============================================================================
