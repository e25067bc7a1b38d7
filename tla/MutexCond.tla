------------------------------ MODULE MutexCond ------------------------------
(***************************************************************************)
(* The recursive mutex with ownership hand-off and the condition variable  *)
(* of kernel/sync.c, one of each, used by tasks on any number of CPUs.     *)
(*                                                                         *)
(* The region under mutex->lock or cond->lock is one step.  schedule() is  *)
(* seen from the task: a BLOCKED task goes on once it has been woken.  A   *)
(* task that runs with interrupts on may also lose the CPU to the timer    *)
(* between the step that marks it BLOCKED and the end of the operation;    *)
(* schedule() does not requeue it then, so it stops there until it is      *)
(* woken (Preempt).  SIGKILL wakes a task that waits for the mutex without *)
(* taking it off the queue (Kill); it finishes the system call as if it    *)
(* had the mutex and then exits.                                           *)
(***************************************************************************)
EXTENDS Integers, Sequences, Functions

CONSTANTS Task,
          None,          \* owner of a free mutex
          Preemptible,   \* tasks that run with interrupts on
          Killable,      \* tasks that may be sent SIGKILL
          MaxRecursion   \* bound on nested locking

\* The null owner is no task, and a task may lock at least once.
MutexConstants == None \notin Task /\ MaxRecursion \in Nat \ {0}

VARIABLES mutex_owner, recursion,      \* mutex->owner, mutex->recursion
          mutex_queue, cond_queue,
          blocked,               \* the tasks whose status is BLOCKED
          stopped,               \* BLOCKED tasks the timer has switched out
          killed,                \* tasks with SIGKILL pending
          place                  \* where each task is in its calls

mutexVars == <<mutex_owner, recursion, mutex_queue, cond_queue, blocked, stopped,
               killed, place>>

\* mutex->locked is set exactly when there is an owner: both are written
\* together everywhere.
Locked == mutex_owner # None

Goto(t, label) == place' = [place EXCEPT ![t] = label]

MutexInit ==
    /\ mutex_owner = None /\ recursion = 0
    /\ mutex_queue = <<>> /\ cond_queue = <<>>
    /\ blocked = {} /\ stopped = {} /\ killed = {}
    /\ place = [t \in Task |-> "out"]

\* jlos_task_wakeup for the tasks of S.
Wakeup(S) == blocked' = blocked \ S /\ stopped' = stopped \ S

\* jlos_mutex_lock by a task that does not own the mutex: take it, or queue.
MutexLock(t) ==
    IF ~Locked
    THEN /\ mutex_owner' = t /\ recursion' = 1 /\ Goto(t, "in")
         /\ UNCHANGED <<mutex_queue, blocked>>
    ELSE /\ mutex_queue' = Append(mutex_queue, t)
         /\ blocked' = blocked \cup {t}
         /\ Goto(t, "locking") /\ UNCHANGED <<mutex_owner, recursion>>

\* jlos_mutex_unlock by the owner: undo one level; at the last one hand the
\* mutex to the first waiter.
MutexUnlock_NoHandOff ==
    IF recursion > 1
    THEN recursion' = recursion - 1
         /\ UNCHANGED <<mutex_owner, mutex_queue, blocked, stopped>>
    ELSE /\ mutex_owner' = None /\ recursion' = 0
         /\ IF mutex_queue = <<>> THEN UNCHANGED <<mutex_queue, blocked, stopped>>
            ELSE mutex_queue' = Tail(mutex_queue) /\ Wakeup({Head(mutex_queue)})
MutexUnlock ==
    IF recursion > 1
    THEN recursion' = recursion - 1
         /\ UNCHANGED <<mutex_owner, mutex_queue, blocked, stopped>>
    ELSE IF mutex_queue = <<>>
    THEN mutex_owner' = None /\ recursion' = 0
         /\ UNCHANGED <<mutex_queue, blocked, stopped>>
    ELSE LET w == Head(mutex_queue) IN
         /\ mutex_queue' = Tail(mutex_queue)
         /\ IF w \in blocked
            THEN mutex_owner' = w /\ recursion' = 1 /\ Wakeup({w})
            ELSE mutex_owner' = None /\ recursion' = 0 /\ UNCHANGED <<blocked, stopped>>

Lock(t) ==
    /\ place[t] = "out"
    /\ MutexLock(t)
    /\ UNCHANGED <<cond_queue, stopped, killed>>

\* The owner locks again.
Relock(t) ==
    /\ place[t] = "in" /\ mutex_owner = t /\ recursion < MaxRecursion
    /\ recursion' = recursion + 1
    /\ UNCHANGED <<mutex_owner, mutex_queue, cond_queue, blocked, stopped, killed, place>>

\* schedule() returns in a lock call, which does not look whether the mutex
\* was handed over.
LockReturn(t) ==
    /\ place[t] = "locking" /\ t \notin blocked
    /\ Goto(t, "in")
    /\ UNCHANGED <<mutex_owner, recursion, mutex_queue, cond_queue, blocked, stopped, killed>>

\* Unlocking does nothing for a task that is not the owner.  A killed task
\* exits when it returns to user mode.
UnlockCall(t) ==
    /\ place[t] = "in"
    /\ IF mutex_owner = t THEN MutexUnlock
       ELSE UNCHANGED <<mutex_owner, recursion, mutex_queue, blocked, stopped>>
    /\ IF mutex_owner = t /\ recursion > 1 THEN UNCHANGED place
       ELSE Goto(t, IF t \in killed THEN "dead" ELSE "out")
    /\ UNCHANGED <<cond_queue, killed>>

\* jlos_cond_wait: queue and become BLOCKED under cond->lock ...
CondWait(t) ==
    /\ place[t] = "in" /\ t \notin killed
    /\ cond_queue' = Append(cond_queue, t)
    /\ blocked' = blocked \cup {t}
    /\ Goto(t, "waiting")
    /\ UNCHANGED <<mutex_owner, recursion, mutex_queue, stopped, killed>>

\* ... then, still running although BLOCKED, release the mutex and call
\* schedule() ...
CondRelease(t) ==
    /\ place[t] = "waiting" /\ t \notin stopped
    /\ IF mutex_owner = t THEN MutexUnlock
       ELSE UNCHANGED <<mutex_owner, recursion, mutex_queue, blocked, stopped>>
    /\ Goto(t, "released")
    /\ UNCHANGED <<cond_queue, killed>>

\* ... which returns after a signal; take the mutex back.
CondReturn(t) ==
    /\ place[t] = "released" /\ t \notin blocked
    /\ IF mutex_owner = t
       THEN /\ recursion' = recursion + 1 /\ Goto(t, "in")
            /\ UNCHANGED <<mutex_owner, mutex_queue, blocked>>
       ELSE MutexLock(t)
    /\ UNCHANGED <<cond_queue, stopped, killed>>

\* The timer switches out a task that is BLOCKED but still running.
Preempt(t) ==
    /\ t \in Preemptible \cap blocked /\ place[t] = "waiting"
    /\ stopped' = stopped \cup {t}
    /\ UNCHANGED <<mutex_owner, recursion, mutex_queue, cond_queue, blocked, killed, place>>

\* jlos_signal_send with SIGKILL: jlos_task_wakeup, and the task stays queued.
Kill(t) ==
    /\ t \in Killable \cap blocked /\ place[t] = "locking"
    /\ killed' = killed \cup {t}
    /\ Wakeup({t})
    /\ UNCHANGED <<mutex_owner, recursion, mutex_queue, cond_queue, place>>

\* task_free_locked unlinks wait_node, so the queue forgets the dead task.
Free(t) ==
    /\ place[t] = "dead"
    /\ IF t \in Range(mutex_queue)
       THEN \E i \in DOMAIN mutex_queue :
               /\ mutex_queue[i] = t
               /\ mutex_queue' = SubSeq(mutex_queue, 1, i - 1)
                                 \o SubSeq(mutex_queue, i + 1, Len(mutex_queue))
       ELSE UNCHANGED mutex_queue
    /\ Goto(t, "freed")
    /\ UNCHANGED <<mutex_owner, recursion, cond_queue, blocked, stopped, killed>>

\* jlos_cond_signal and jlos_cond_broadcast, by a task or a handler.
Signal ==
    /\ cond_queue # <<>>
    /\ cond_queue' = Tail(cond_queue)
    /\ Wakeup({Head(cond_queue)})
    /\ UNCHANGED <<mutex_owner, recursion, mutex_queue, killed, place>>

Broadcast_KeepQueue ==
    /\ cond_queue # <<>> /\ UNCHANGED cond_queue
    /\ Wakeup(Range(cond_queue))
    /\ UNCHANGED <<mutex_owner, recursion, mutex_queue, killed, place>>
Broadcast ==
    /\ cond_queue # <<>>
    /\ cond_queue' = <<>>
    /\ Wakeup(Range(cond_queue))
    /\ UNCHANGED <<mutex_owner, recursion, mutex_queue, killed, place>>

MutexNext ==
    \/ Signal \/ Broadcast
    \/ \E t \in Task : \/ Lock(t) \/ Relock(t) \/ LockReturn(t) \/ UnlockCall(t)
                       \/ CondWait(t) \/ CondRelease(t) \/ CondReturn(t)
                       \/ Preempt(t) \/ Kill(t) \/ Free(t)

MutexSpec == MutexInit /\ [][MutexNext]_mutexVars

\* Woken tasks are scheduled, owners release the mutex and waiters are
\* signalled in the end; nobody has to lock or to wait.
MutexContinue(t) == LockReturn(t) \/ CondRelease(t) \/ CondReturn(t)
MutexFairness ==
    /\ WF_mutexVars(Broadcast)
    /\ \A t \in Task : WF_mutexVars(MutexContinue(t)) /\ SF_mutexVars(UnlockCall(t))
MutexFairSpec == MutexSpec /\ MutexFairness

-----------------------------------------------------------------------------
(* Properties *)

MutexTypeOK ==
    /\ mutex_owner \in Task \cup {None} /\ recursion \in 0 .. MaxRecursion
    /\ mutex_queue \in Seq(Task) /\ cond_queue \in Seq(Task)
    /\ blocked \subseteq Task /\ stopped \subseteq blocked
    /\ killed \subseteq Killable
    /\ place \in [Task -> {"out", "locking", "in", "waiting", "released", "dead", "freed"}]

\* A task that has left or exited never owns the mutex, so whoever owns it
\* will unlock it: the status test before the hand-off skips killed waiters.
OwnerIsPresent == \A t \in Task : mutex_owner = t => place[t] \notin {"out", "dead", "freed"}

\* Only the owner is between lock and unlock: hand-off, recursion and the
\* release inside cond_wait never let a second task in.  A waiter that was
\* killed is the exception: jlos_mutex_lock does not test the owner when
\* schedule() returns.
OwnerOnly == \A t \in Task \ killed : place[t] = "in" => mutex_owner = t

\* The same of every task, as the hand-over of ownership promises.
InsideMeansOwner == \A t \in Task : place[t] = "in" => mutex_owner = t

\* While no waiter has been killed, a free mutex has no waiters, so a queued
\* task is always preceded by an owner whose unlock will hand the mutex on.
FreeMeansNoWaiter ==
    /\ (mutex_owner = None) = (recursion = 0)
    /\ mutex_queue # <<>> /\ killed = {} => mutex_owner # None

\* The mutex has one user at a time and is always on its way to the next: the
\* three statements above together.
MutexSound == OwnerIsPresent /\ OwnerOnly /\ FreeMeansNoWaiter

\* Nobody sleeps forgotten: a BLOCKED task is in exactly one of the two
\* queues, once, and a queued task is BLOCKED, unless it was killed: then it
\* stays in the queue of the mutex, once, until an unlock meets it.
BlockedIsQueued ==
    /\ IsInjective(mutex_queue) /\ IsInjective(cond_queue)
    /\ Range(mutex_queue) \cap Range(cond_queue) = {}
    /\ blocked \subseteq Range(mutex_queue) \cup Range(cond_queue)
    /\ (Range(mutex_queue) \cup Range(cond_queue)) \ blocked \subseteq killed

\* Whoever locks gets the mutex, also behind a task the timer stopped inside
\* cond_wait, if nobody is killed and nobody locks the mutex twice: cond_wait
\* undoes one level only and sleeps with the mutex held.
LockerGetsIn ==
    [](killed = {} /\ recursion <= 1)
        => \A t \in Task : place[t] = "locking" ~> place[t] = "in"
=============================================================================
