------------------------------- MODULE Sched -------------------------------
(***************************************************************************)
(* The task manager of kernel/multitask.c: one multilevel feedback run     *)
(* queue per CPU, schedule() with its reaping, timer, work-stealing and    *)
(* context-switch phases, and the operations by which a task blocks,       *)
(* sleeps, forks, waits for a child, is killed and exits.                  *)
(*                                                                         *)
(* A region protected by a spinlock is one step (TicketLock.tla shows that *)
(* the lock gives mutual exclusion); everything between two regions is a   *)
(* point where the other CPUs may act.  schedule() runs with interrupts    *)
(* off, so only other CPUs interleave with it; a kernel task's own code    *)
(* runs with interrupts on (jlos_task_entry_stub does sti), so the timer   *)
(* may also preempt it between any two of its steps, while a user task is  *)
(* preempted in user mode only (system calls run with interrupts off).     *)
(*                                                                         *)
(* Time slices are not counted: whether the slice of the running task is   *)
(* used up when schedule() looks at it is a free choice, and so is the     *)
(* number of levels by which aging raises a task.  need_resched only makes *)
(* the next timer tick call schedule() earlier, and is left out.           *)
(***************************************************************************)
EXTENDS Integers, Sequences, FiniteSets, Functions

CONSTANTS
    NCPU,       \* jlos_hal_num_cpus()
    MaxPid,     \* largest pid handed out by s_next_pid (bound of the model)
    Levels,     \* JLOS_TASK_MLFQ_LEVELS
    Kernel,     \* the pids of kernel tasks
    Boot,       \* the number of tasks spawned at boot; the others are forked
    Ops         \* the operations the tasks of an instance use

\* There are a CPU and a level, and pids for the idle and the boot tasks.
ASSUME SchedAssumption ==
    /\ NCPU \in Nat \ {0} /\ Levels \in Nat \ {0}
    /\ MaxPid \in Nat /\ Boot \in Nat /\ NCPU + Boot - 1 <= MaxPid

CPU == 0 .. NCPU - 1
Level == 0 .. Levels - 1
Pid == 0 .. MaxPid
Idle(c) == c                \* idle_task[c]; the pid of the boot task is 0
Proc == NCPU .. MaxPid
Root == NCPU .. NCPU + Boot - 1     \* pids are handed out in order
None == -1

VARIABLES
    status,     \* task->status; "none" before creation, "freed" after kfree
    sleeping,   \* the tasks with task->sleeping set
    timer,      \* sleep_node: not in the wheel, armed, or armed and due
    cpu,        \* task->cpu
    priority,   \* task->priority
    rq,         \* rq[c].queue[level]
    current,    \* per-CPU current task
    prev,       \* per-CPU prev_task, guards the stack being left
    next,       \* the local of schedule(), or the target of a wakeup
    at,         \* where CPU c is: in task code ("run") or in a kernel path
    tp,         \* where task t is in the operation it executes
    parent,     \* task->parent_pid
    waiting,    \* task->waiting_pid, or the child of the wait in progress
    zombies,    \* zombie_head
    waitq,      \* the wait queue of one synchronisation object
    killed,     \* the tasks with SIGKILL pending
    fresh       \* the tasks that have not run yet

taskVars == <<sleeping, timer, parent, waiting, zombies, waitq, killed>>
vars == <<status, sleeping, timer, cpu, priority, rq, current, prev, next, at,
          tp, parent, waiting, zombies, waitq, killed, fresh>>

----------------------------------------------------------------------------
(* Run queues                                                              *)

Queued(t) == \E c \in CPU, l \in Level : t \in Range(rq[c][l])
RqEmpty(c) == \A l \in Level : rq[c][l] = <<>>
RqCount(c) == FoldFunction(LAMBDA q, n : Len(q) + n, 0, rq[c])

\* ctz(rq->nonempty): the highest priority that has a task, if any has.
TopLevel(c) ==
    {l \in Level : rq[c][l] # <<>> /\ \A m \in Level : m < l => rq[c][m] = <<>>}

\* The task goes to the tail of the queue its own cpu and priority name.
rq_enqueue(t, c, l) == [rq EXCEPT ![c][l] = Append(@, t)]

\* The tasks of S that are linked into q are unlinked.
Unlink(q, S) ==
    IF Range(q) \cap S = {} THEN q ELSE SelectSeq(q, LAMBDA t : t \notin S)

\* rq_remove_specific for the tasks of S that are queued.
rq_remove(S) == [c \in CPU |-> [l \in Level |-> Unlink(rq[c][l], S)]]

\* jlos_sched_balance looks for the longest queue, lowest CPU number first.
Busiest(c) ==
    {v \in CPU \ {c} : \A w \in CPU \ {c} :
        RqCount(v) > RqCount(w) \/ (RqCount(v) = RqCount(w) /\ v <= w)}

----------------------------------------------------------------------------
(* Task states                                                             *)

Alive(t) == status[t] \notin {"none", "freed"}

\* jlos_hal_is_task_in_use: some CPU runs on the task's stack or leaves it.
InUse_NoPrev(t) == \E c \in CPU : t = current[c]
InUse(t) == \E c \in CPU : t \in {current[c], prev[c]}

\* manager_lock is held across the steps of the timer wheel.
ManagerFree(c) == \A d \in CPU \ {c} : at[d] \notin {"expire", "expwake"}

\* Interrupts reach CPU c: it is in user mode, idle or in a kernel task.
IrqOn(c) ==
    /\ at[c] = "run"
    /\ current[c] \in Kernel \/ tp[current[c]] = "run"

\* The running task starts an operation.  A user task with SIGKILL pending
\* does not get past the return to user mode (jlos_signal_check_deliver).
Starts(c, op) ==
    LET t == current[c] IN
    /\ op \in Ops
    /\ at[c] = "run" /\ t \in Proc /\ tp[t] = "run"
    /\ t \in Kernel \/ t \notin killed

Goto(c, label) == at' = [at EXCEPT ![c] = label]
TaskGoto(t, label) == tp' = [tp EXCEPT ![t] = label]
SetStatus(t, s) == status' = [status EXCEPT ![t] = s]

\* JLOS_TASK_SET_BLOCKED and SET_ZOMBIE also leave the queue.
SetInactive(t, s) == SetStatus(t, s) /\ rq' = rq_remove({t})

\* JLOS_TASK_SET_READY followed by rq_enqueue.
MakeReady_NoEnqueue(t) == SetStatus(t, "ready") /\ UNCHANGED rq
MakeReady(t) ==
    SetStatus(t, "ready") /\ rq' = rq_enqueue(t, cpu[t], priority[t])

\* task_free_locked for the tasks of set F that no CPU uses: the lists the
\* task may be linked into, its timer and its memory.
task_free_locked_Linked(F) ==
    LET G == {t \in F : ~InUse(t)} IN
    /\ status' = [t \in Pid |-> IF t \in G THEN "freed" ELSE status[t]]
    /\ zombies' = zombies \ G /\ killed' = killed \ G
    /\ timer' = [t \in Pid |-> IF t \in G THEN "off" ELSE timer[t]]
    /\ UNCHANGED <<waitq, rq>>
task_free_locked(F) ==
    LET G == {t \in F : ~InUse(t)} IN
    /\ status' = [t \in Pid |-> IF t \in G THEN "freed" ELSE status[t]]
    /\ zombies' = zombies \ G
    /\ waitq' = Unlink(waitq, G)
    /\ rq' = rq_remove(G)
    /\ timer' = [t \in Pid |-> IF t \in G THEN "off" ELSE timer[t]]
    /\ killed' = killed \ G

----------------------------------------------------------------------------
\* The idle tasks run; the root tasks are queued on the boot CPU.
Init ==
    /\ status = [t \in Pid |-> IF t \in CPU THEN "running"
                                ELSE IF t \in Root THEN "ready" ELSE "none"]
    /\ sleeping = {} /\ killed = {} /\ zombies = {} /\ waitq = <<>>
    /\ timer = [t \in Pid |-> "off"]
    /\ cpu = [t \in Pid |-> IF t \in CPU THEN t ELSE 0]
    /\ priority = [t \in Pid |-> 0]
    /\ rq = [c \in CPU |-> [l \in Level |->
                IF c = 0 /\ l = 0 THEN [i \in 1 .. Boot |-> NCPU + i - 1]
                ELSE <<>>]]
    /\ current = [c \in CPU |-> Idle(c)]
    /\ prev = [c \in CPU |-> None]
    /\ next = [c \in CPU |-> None]
    /\ at = [c \in CPU |-> "run"]
    /\ tp = [t \in Pid |-> "run"]
    /\ parent = [t \in Pid |-> IF t \in Root THEN Idle(0) ELSE None]
    /\ waiting = [t \in Pid |-> None]
    /\ fresh = Proc

----------------------------------------------------------------------------
(* schedule()                                                              *)

\* What schedule() does with prev: a sleeping task becomes BLOCKED, a
\* running one READY at the tail of its queue, one level lower when its
\* slice is used up.  Any other status is left to whoever set it.
Deactivate_AnyStatus(c, sliceUsed) ==
    LET t == current[c] IN
    /\ Goto(c, "reap") /\ UNCHANGED priority
    /\ IF t = Idle(c) THEN UNCHANGED <<status, rq>>
       ELSE /\ status' = [status EXCEPT ![t] =
                            IF @ = "running" THEN "ready" ELSE @]
            /\ rq' = rq_enqueue(t, cpu[t], priority[t])
Deactivate(c, sliceUsed) ==
    LET t == current[c]
        demoted == IF sliceUsed /\ priority[t] < Levels - 1
                   THEN priority[t] + 1 ELSE priority[t]
    IN
    /\ Goto(c, "reap")
    /\ IF status[t] # "running" \/ t = Idle(c)
       THEN UNCHANGED <<status, priority, rq>>
       ELSE IF t \in sleeping
       THEN SetInactive(t, "blocked") /\ UNCHANGED priority
       ELSE /\ SetStatus(t, "ready")
            /\ priority' = [priority EXCEPT ![t] = demoted]
            /\ rq' = rq_enqueue(t, cpu[t], demoted)

\* jlos_task_manager_tick_and_schedule, or the reschedule interrupt.
Tick(c) ==
    /\ IrqOn(c)
    /\ \E used \in BOOLEAN : Deactivate(c, used)
    /\ UNCHANGED <<taskVars, cpu, current, prev, next, tp, fresh>>

\* A blocking operation, a wait or an exit calls schedule() itself.
ScheduleCall(c) ==
    LET t == current[c] IN
    /\ at[c] = "run" /\ tp[t] \in {"block", "waitcall", "dead"}
    /\ \E used \in BOOLEAN : Deactivate(c, used)
    /\ TaskGoto(t, IF tp[t] = "block" THEN "run"
                   ELSE IF tp[t] = "waitcall" THEN "wait" ELSE "dead")
    /\ UNCHANGED <<taskVars, cpu, current, prev, next, fresh>>

\* Under manager_lock: free the listed zombies, except the task whose stack
\* this call runs on and those in use elsewhere.
Reap(c) ==
    /\ at[c] = "reap" /\ ManagerFree(c)
    /\ task_free_locked(zombies \ {current[c]})
    /\ Goto(c, "expire")
    /\ UNCHANGED <<sleeping, cpu, priority, current, prev, next, tp, parent,
                   waiting, fresh>>

\* Still under manager_lock, sleep_expire for each timer that is due.  The
\* lock does not protect the status, so its test and its change are two steps.
sleep_expire(c, t) ==
    /\ at[c] = "expire" /\ timer[t] = "due"
    /\ timer' = [timer EXCEPT ![t] = "off"]
    /\ sleeping' = sleeping \ {t}
    /\ IF status[t] = "blocked"
       THEN Goto(c, "expwake") /\ next' = [next EXCEPT ![c] = t]
       ELSE UNCHANGED <<at, next>>
    /\ UNCHANGED <<status, rq, cpu, priority, current, prev, tp, parent,
                   waiting, zombies, waitq, killed, fresh>>

ExpireWake(c) ==
    /\ at[c] = "expwake"
    /\ MakeReady(next[c])
    /\ next' = [next EXCEPT ![c] = None] /\ Goto(c, "expire")
    /\ UNCHANGED <<taskVars, cpu, priority, current, prev, tp, fresh>>

ExpireDone(c) ==
    /\ at[c] = "expire" /\ \A t \in Pid : timer[t] # "due"
    /\ Goto(c, "pick")
    /\ UNCHANGED <<taskVars, status, cpu, priority, rq, current, prev, next,
                   tp, fresh>>

\* next is known: go on in the same task, or switch.
Choose(c, n) ==
    IF n = current[c]
    THEN SetStatus(n, "running") /\ Goto(c, "run")
         /\ next' = [next EXCEPT ![c] = None]
    ELSE next' = [next EXCEPT ![c] = n] /\ Goto(c, "switch")
         /\ UNCHANGED status

\* rq_dequeue takes the first task of the top level; aging may raise it.
rq_dequeue(c) ==
    \E l \in TopLevel(c) :
        LET t == Head(rq[c][l]) IN
        /\ rq' = [rq EXCEPT ![c][l] = Tail(@)]
        /\ \E level \in 0 .. l : priority' = [priority EXCEPT ![t] = level]
        /\ Choose(c, t)

ChooseIdle(c) == Choose(c, Idle(c)) /\ UNCHANGED <<rq, priority>>

Pick(c) ==
    /\ at[c] = "pick"
    /\ \/ rq_dequeue(c)
       \/ /\ RqEmpty(c) /\ \A v \in CPU : RqEmpty(v)
          /\ ChooseIdle(c)
       \/ /\ RqEmpty(c) /\ \E v \in CPU : ~RqEmpty(v)
          /\ \E v \in Busiest(c) : next' = [next EXCEPT ![c] = v]
          /\ Goto(c, "steal")
          /\ UNCHANGED <<status, priority, rq>>
    /\ UNCHANGED <<taskVars, cpu, current, prev, tp, fresh>>

\* rq_steal_cpu and the move to the thief's own queue.  The counts were read
\* without a lock: the victim's queue may be empty by now.
Steal_SameCpu(c) ==
    LET v == next[c] IN
    /\ at[c] = "steal" /\ Goto(c, "repick")
    /\ \/ RqEmpty(v) /\ UNCHANGED rq
       \/ \E l \in TopLevel(v) :
             LET t == Head(rq[v][l]) IN
             rq' = [rq EXCEPT ![v][l] = Tail(@), ![c][priority[t]] = Append(@, t)]
    /\ UNCHANGED <<taskVars, status, cpu, priority, current, prev, next, tp,
                   fresh>>
Steal(c) ==
    LET v == next[c] IN
    /\ at[c] = "steal"
    /\ \/ RqEmpty(v) /\ UNCHANGED <<rq, cpu>>
       \/ \E l \in TopLevel(v) :
             LET t == Head(rq[v][l]) IN
             /\ cpu' = [cpu EXCEPT ![t] = c]
             /\ rq' = [rq EXCEPT ![v][l] = Tail(@),
                                 ![c][priority[t]] = Append(@, t)]
    /\ Goto(c, "repick")
    /\ UNCHANGED <<taskVars, status, priority, current, prev, next, tp, fresh>>

Repick(c) ==
    /\ at[c] = "repick"
    /\ rq_dequeue(c) \/ (RqEmpty(c) /\ ChooseIdle(c))
    /\ UNCHANGED <<taskVars, cpu, current, prev, tp, fresh>>

\* The per-CPU pointers change before the stacks do.
Switch(c) ==
    /\ at[c] = "switch"
    /\ prev' = [prev EXCEPT ![c] = current[c]]
    /\ current' = [current EXCEPT ![c] = next[c]]
    /\ SetStatus(next[c], "running")
    /\ next' = [next EXCEPT ![c] = None]
    /\ Goto(c, "resume")
    /\ UNCHANGED <<taskVars, cpu, priority, rq, tp, fresh>>

\* jlos_hal_context_switch.  A task that was switched out before continues
\* in schedule() and clears prev_task; a new one starts in its entry stub.
Resume(c) ==
    /\ at[c] = "resume"
    /\ prev' = [prev EXCEPT ![c] = IF current[c] \in fresh THEN @ ELSE None]
    /\ fresh' = fresh \ {current[c]}
    /\ Goto(c, "run")
    /\ UNCHANGED <<taskVars, status, cpu, priority, rq, current, next, tp>>

----------------------------------------------------------------------------
(* Blocking and waking                                                     *)

\* The blocking half of jlos_semaphore_wait and its like, under the lock of
\* the synchronisation object.
Block(c) ==
    LET t == current[c] IN
    /\ Starts(c, "block")
    /\ waitq' = Append(waitq, t)
    /\ SetInactive(t, "blocked") /\ TaskGoto(t, "block")
    /\ UNCHANGED <<sleeping, timer, cpu, priority, current, prev, next, at,
                   parent, waiting, zombies, killed, fresh>>

\* jlos_task_wakeup up to the test of the status: cancel the sleep, then see
\* whether the task is BLOCKED.  The second half is Wake.
jlos_task_wakeup(c, t) ==
    /\ sleeping' = sleeping \ {t}
    /\ timer' = [timer EXCEPT ![t] = IF t \in sleeping THEN "off" ELSE @]
    /\ IF status[t] = "blocked"
       THEN Goto(c, "wake") /\ next' = [next EXCEPT ![c] = t]
       ELSE UNCHANGED <<at, next>>

\* A post, by a task or an interrupt handler: take the first waiter.
Post(c) ==
    LET t == Head(waitq) IN
    /\ "block" \in Ops /\ IrqOn(c) /\ waitq # <<>>
    /\ waitq' = Tail(waitq)
    /\ IF status[t] = "blocked" THEN jlos_task_wakeup(c, t)
       ELSE UNCHANGED <<sleeping, timer, at, next>>
    /\ UNCHANGED <<status, cpu, priority, rq, current, prev, tp, parent,
                   waiting, zombies, killed, fresh>>

Wake(c) ==
    /\ at[c] = "wake"
    /\ MakeReady(next[c])
    /\ next' = [next EXCEPT ![c] = None] /\ Goto(c, "run")
    /\ UNCHANGED <<taskVars, cpu, priority, current, prev, tp, fresh>>

\* jlos_signal_send(SIGKILL) to another task.
Kill(c, t) ==
    /\ Starts(c, "kill") /\ current[c] \notin Kernel
    /\ t \in Proc \ {current[c]} /\ Alive(t) /\ status[t] # "zombie"
    /\ t \in sleeping => ManagerFree(c)
    /\ killed' = killed \cup {t}
    /\ jlos_task_wakeup(c, t)
    /\ UNCHANGED <<status, cpu, priority, rq, current, prev, tp, parent,
                   waiting, zombies, waitq, fresh>>

----------------------------------------------------------------------------
(* jlos_task_sleep_until                                                   *)

SleepMark(c) ==
    LET t == current[c] IN
    /\ Starts(c, "sleep")
    /\ sleeping' = sleeping \cup {t}
    /\ TaskGoto(t, "mark")
    /\ UNCHANGED <<status, timer, cpu, priority, rq, current, prev, next, at,
                   parent, waiting, zombies, waitq, killed, fresh>>

SleepBlock(c) ==
    LET t == current[c] IN
    /\ at[c] = "run" /\ tp[t] = "mark"
    /\ SetInactive(t, "blocked") /\ TaskGoto(t, "arm")
    /\ UNCHANGED <<taskVars, cpu, priority, current, prev, next, at, fresh>>

SleepArm_Forgotten(c) ==
    /\ at[c] = "run" /\ tp[current[c]] = "arm"
    /\ TaskGoto(current[c], "block")
    /\ UNCHANGED <<taskVars, status, cpu, priority, rq, current, prev, next,
                   at, fresh>>
SleepArm(c) ==
    LET t == current[c] IN
    /\ at[c] = "run" /\ tp[t] = "arm" /\ ManagerFree(c)
    /\ timer' = [timer EXCEPT ![t] = "armed"]
    /\ TaskGoto(t, "block")
    /\ UNCHANGED <<status, sleeping, cpu, priority, rq, current, prev, next,
                   at, parent, waiting, zombies, waitq, killed, fresh>>

\* The clock reaches wake_tick.
Due(t) ==
    /\ timer[t] = "armed"
    /\ timer' = [timer EXCEPT ![t] = "due"]
    /\ UNCHANGED <<status, sleeping, cpu, priority, rq, current, prev, next,
                   at, tp, parent, waiting, zombies, waitq, killed, fresh>>

----------------------------------------------------------------------------
(* fork, wait_pid and exit                                                 *)

\* The child inherits cpu and priority and is queued once it is complete.
Fork(c) ==
    LET t == current[c]
        unborn == {k \in Proc : status[k] = "none"}
    IN
    /\ Starts(c, "fork") /\ t \notin Kernel /\ ManagerFree(c)
    /\ \E k \in unborn :
          /\ \A m \in unborn : k <= m
          /\ SetStatus(k, "ready")
          /\ cpu' = [cpu EXCEPT ![k] = cpu[t]]
          /\ priority' = [priority EXCEPT ![k] = priority[t]]
          /\ rq' = rq_enqueue(k, cpu[t], priority[t])
          /\ parent' = [parent EXCEPT ![k] = t]
    /\ UNCHANGED <<sleeping, timer, current, prev, next, at, tp, waiting,
                   zombies, waitq, killed, fresh>>

\* One round of syscall_wait_pid: jlos_task_wait_or_reap under manager_lock.
\* The call returns when the child is gone or a zombie, whose exit code it
\* reports and which it frees; otherwise it is to call schedule().
WaitRound(c, k) ==
    LET t == current[c] IN
    /\ ManagerFree(c) /\ parent[k] = t
    /\ IF status[k] \in {"freed", "zombie"}
       THEN /\ task_free_locked({k} \cap {z \in Pid : status[z] = "zombie"})
            /\ TaskGoto(t, "run") /\ waiting' = [waiting EXCEPT ![t] = None]
       ELSE /\ SetStatus(t, "waiting")
            /\ TaskGoto(t, "waitcall") /\ waiting' = [waiting EXCEPT ![t] = k]
            /\ UNCHANGED <<rq, timer, zombies, waitq, killed>>
    /\ UNCHANGED <<sleeping, cpu, priority, current, prev, next, at, parent,
                   fresh>>

WaitPid(c, k) == Starts(c, "wait") /\ WaitRound(c, k)

WaitAgain(c) ==
    /\ at[c] = "run" /\ tp[current[c]] = "wait"
    /\ WaitRound(c, waiting[current[c]])

\* jlos_process_exit up to SET_ZOMBIE, called by the task itself or on the
\* delivery of SIGKILL.
Exit(c) ==
    LET t == current[c] IN
    /\ \/ Starts(c, "exit")
       \/ at[c] = "run" /\ t \in killed \ Kernel /\ tp[t] = "run"
    /\ SetInactive(t, "zombie") /\ TaskGoto(t, "exit")
    /\ UNCHANGED <<taskVars, cpu, priority, current, prev, next, at, fresh>>

\* The rest of it, under manager_lock: a living parent is woken if it waits
\* for this child; without one the task is listed for reaping.
ExitNotify_NoWake(c) ==
    LET t == current[c] IN
    /\ at[c] = "run" /\ tp[t] = "exit"
    /\ TaskGoto(t, "dead")
    /\ UNCHANGED <<taskVars, status, cpu, priority, rq, current, prev, next,
                   at, fresh>>
ExitNotify(c) ==
    LET t == current[c]
        p == parent[t]
    IN
    /\ at[c] = "run" /\ tp[t] = "exit" /\ ManagerFree(c)
    /\ TaskGoto(t, "dead")
    /\ IF status[p] \notin {"freed", "zombie"}
       THEN /\ IF p # 0 /\ status[p] = "waiting" /\ waiting[p] = t
               THEN /\ SetStatus(p, "ready")
                    /\ rq' = IF Queued(p) THEN rq
                             ELSE rq_enqueue(p, cpu[p], priority[p])
               ELSE UNCHANGED <<status, rq>>
            /\ UNCHANGED zombies
       ELSE zombies' = zombies \cup {t} /\ UNCHANGED <<status, rq>>
    /\ UNCHANGED <<sleeping, timer, cpu, priority, current, prev, next, at,
                   parent, waiting, waitq, killed, fresh>>

----------------------------------------------------------------------------
ScheduleStep(c) ==
    \/ ScheduleCall(c) \/ Reap(c) \/ (\E t \in Proc : sleep_expire(c, t))
    \/ ExpireWake(c) \/ ExpireDone(c) \/ Pick(c) \/ Steal(c) \/ Repick(c) \/ Switch(c)
    \/ Resume(c)

\* Steps of an operation that has begun.
OperationStep(c) ==
    \/ Wake(c) \/ SleepBlock(c) \/ SleepArm(c) \/ WaitAgain(c) \/ ExitNotify(c)

Begin(c) ==
    \/ Block(c) \/ Post(c) \/ (\E t \in Proc : Kill(c, t)) \/ SleepMark(c)
    \/ Fork(c) \/ (\E k \in Proc : WaitPid(c, k)) \/ Exit(c)

Next ==
    \/ \E c \in CPU : Tick(c) \/ ScheduleStep(c) \/ OperationStep(c) \/ Begin(c)
    \/ \E t \in Proc : Due(t)

Spec == Init /\ [][Next]_vars

\* Every CPU executes its kernel paths, the timer interrupt keeps coming and
\* the clock advances; no task is obliged to begin anything.
Fairness ==
    /\ \A c \in CPU : WF_vars(Tick(c)) /\ WF_vars(ScheduleStep(c) \/ OperationStep(c))
    /\ \A t \in Proc : WF_vars(Due(t))

FairSpec == Spec /\ Fairness

----------------------------------------------------------------------------
(* Properties                                                              *)

TypeOK ==
    /\ status \in [Pid -> {"none", "ready", "running", "blocked", "waiting",
                             "zombie", "freed"}]
    /\ sleeping \subseteq Proc /\ killed \subseteq Proc
    /\ zombies \subseteq Proc /\ fresh \subseteq Proc
    /\ timer \in [Pid -> {"off", "armed", "due"}]
    /\ cpu \in [Pid -> CPU] /\ priority \in [Pid -> Level]
    /\ rq \in [CPU -> [Level -> Seq(Pid)]] /\ waitq \in Seq(Proc)
    /\ current \in [CPU -> Pid] /\ prev \in [CPU -> Pid \cup {None}]
    /\ next \in [CPU -> Pid \cup CPU \cup {None}]
    /\ at \in [CPU -> {"run", "reap", "expire", "expwake", "pick", "steal",
                        "repick", "switch", "resume", "wake"}]
    /\ tp \in [Pid -> {"run", "block", "mark", "arm", "waitcall", "wait",
                         "exit", "dead"}]
    /\ parent \in [Pid -> Pid \cup {None}]
    /\ waiting \in [Pid -> Pid \cup {None}]

\* A task is linked into at most one run queue, once: rq_enqueue adds a node
\* without looking whether it is linked already, which would corrupt the list.
QueuedOnce ==
    \A c, d \in CPU, l, m \in Level :
        \A i \in 1 .. Len(rq[c][l]), j \in 1 .. Len(rq[d][m]) :
            rq[c][l][i] = rq[d][m][j] => c = d /\ l = m /\ i = j

\* No READY task is forgotten: it is in a run queue, or a CPU has taken it
\* out and is about to switch to it.
ReadyIsQueued ==
    \A t \in Pid : status[t] = "ready" =>
        Queued(t) \/ \E c \in CPU : at[c] = "switch" /\ next[c] = t

\* A queued task is READY, and is in the queue that its cpu and priority
\* fields name: rq_remove_specific finds the counter to decrement by them.
QueuedWhereRecorded ==
    \A c \in CPU, l \in Level : \A t \in Range(rq[c][l]) :
        status[t] = "ready" /\ cpu[t] = c /\ priority[t] = l

\* The tasks whose saved context or kernel stack CPU c works with: its current
\* task and, until the context switch is done, the one it leaves.
Uses(c) == {current[c]} \cup (IF at[c] = "resume" THEN {prev[c]} ELSE {})

\* Two CPUs never run the same task, and none switches to a task while
\* another CPU is still leaving it, its registers not yet saved.
OneCpuPerTask == \A c, d \in CPU : c # d => Uses(c) \cap Uses(d) = {}

\* A freed task is in no queue and no CPU runs it, switches to it, wakes it or
\* still uses its stack (is_task_in_use and the skip of prev in schedule()).
NoUseAfterFree ==
    \A t \in Pid : status[t] = "freed" =>
        /\ ~Queued(t) /\ t \notin Range(waitq) /\ t \notin zombies
        /\ timer[t] = "off"
        /\ \A c \in CPU : /\ t \notin Uses(c)
                          /\ at[c] \in {"switch", "wake", "expwake"} => next[c] # t

\* A parent never waits for a child that has finished exiting: the check and
\* the change to WAITING happen under the lock exit uses.
NoMissedExit ==
    \A p, k \in Proc :
        status[p] = "waiting" /\ waiting[p] = k =>
            /\ status[k] # "freed"
            /\ status[k] = "zombie" => tp[k] = "exit"

\* A BLOCKED task can still be woken: it is in the wait queue, its timer runs,
\* a waker has it in hand, or it executes its way into the timer wheel (where
\* a kernel task can be preempted, and is then lost: see the README).
BlockedCanWake ==
    \A t \in Pid : status[t] = "blocked" =>
        \/ t \in Range(waitq) \/ timer[t] # "off"
        \/ /\ tp[t] \in {"mark", "arm"}
           /\ t \in Kernel \/ \E c \in CPU : current[c] = t /\ at[c] = "run"
        \/ \E c \in CPU : at[c] \in {"wake", "expwake"} /\ next[c] = t

\* The run queues are sound lists, each task where its fields say.
RunQueuesSound == TypeOK /\ QueuedOnce /\ QueuedWhereRecorded

\* No task that should run, now or after a wake-up, is lost.
NobodyForgotten == ReadyIsQueued /\ BlockedCanWake

\* schedule() switches to READY tasks and to the idle task only.  So an exited
\* task is never switched to again, and the report "exit: BUG ... returned
\* from schedule!" of jlos_process_exit cannot happen.
SwitchesToReady ==
    [][\A c \in CPU : current'[c] # current[c] =>
        status[current'[c]] = "ready" \/ current'[c] = Idle(c)]_vars

\* wait_pid reaps: when the call in progress reports an exited child, the
\* child's PCB is freed in that very step.
ReapedIsFreed ==
    [][\A t, k \in Proc :
        /\ tp[t] = "wait" /\ tp'[t] = "run"
        /\ waiting[t] = k /\ status[k] = "zombie"
        => status'[k] = "freed"]_vars

----
\* Liveness

\* A zombie in the zombie list is freed once no CPU uses it.  (A new task
\* does not clear prev_task: while it runs alone it pins its predecessor.)
ListedZombieFreed ==
    \A t \in Proc : (t \in zombies /\ ~InUse(t)) ~> status[t] = "freed"

\* No parent goes on waiting for a child that has exited.
WaiterResumes ==
    \A p \in Proc :
        []<>(status[p] = "waiting" => tp[waiting[p]] \notin {"exit", "dead"})

\* A task that goes to sleep wakes up.
SleeperWakes == \A t \in Proc : []<>(t \notin sleeping)

\* A zombie without a parent to wait for it is freed.
OrphanReaped ==
    \A t \in Proc :
        (status[t] = "zombie" /\ status[parent[t]] \in {"zombie", "freed"})
            ~> status[t] = "freed"

\* A task that becomes ready gets the CPU.
ReadyRuns == \A t \in Proc : []<>(status[t] # "ready")
=============================================================================
