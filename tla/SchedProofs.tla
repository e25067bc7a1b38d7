----------------------------- MODULE SchedProofs -----------------------------
(***************************************************************************)
(* The scheduler loses no task and uses none that is freed, for any number *)
(* of CPUs, levels and tasks, as long as no task is killed by a signal and *)
(* no two CPUs run one task.                                               *)
(***************************************************************************)
EXTENDS SchedInvariant

\* A leaf is proved by Zenon unless it names SMT.
USE ZenonT(30)
-----------------------------------------------------------------------------
(* The operations of the tasks                                             *)

\* The task that executes an operation of its own.
LEMMA Executing ==
    ASSUME IInv, OneCpuPerTask, NEW c \in CPU, at[c] = "run",
           tp[current[c]] # "run" \/ current[c] \in Proc
    PROVE  /\ current[c] \in Proc /\ current[c] \in Pid /\ InUse(current[c])
           /\ \A d \in CPU : d # c => current[d] # current[c]
           /\ tp[current[c]] \in {"run", "mark", "wait"} => status[current[c]] = "running"
<1>1. current[c] \in Proc /\ current[c] \in Pid /\ InUse(current[c])
    BY Pids DEF IInv, HandInv, InUse
<1>2. \A d \in CPU : d # c => current[d] # current[c]
    BY OwnTask
<1>3. RunsOwn(c)
    BY DEF IInv, RunInv
<1>4. QED
    BY <1>1, <1>2, <1>3 DEF RunsOwn

\* A WAITING task waits for a child of its own that has not ended yet.
LEMMA WaitsForChild ==
    ASSUME EndInv, NEW y \in Proc, status[y] = "waiting"
    PROVE  /\ waiting[y] \in Proc /\ parent[waiting[y]] = y
           /\ status[waiting[y]] # "freed"
           /\ status[waiting[y]] = "zombie" => tp[waiting[y]] = "exit"
<1>1. Lifetime(y)
    BY DEF EndInv
<1>2. QED
    BY <1>1 DEF Lifetime

\* A RUNNING task is in no queue, has no timer and is in no waker's hand.
LEMMA RunningIsFree ==
    ASSUME IInv, NEW t \in Proc, status[t] = "running"
    PROVE  /\ ~InRq(rq, t) /\ t \notin Elements(waitq) /\ timer[t] = "off"
           /\ rq \in RqType /\ rq_remove({t}) = rq
           /\ tp[t] # "mark" => t \notin sleeping
<1>1. ~InRq(rq, t) /\ rq \in RqType
    BY QueuedIsReady DEF IInv, TypeOK, RqType
<1>2. rq_remove({t}) = rq
    BY <1>1, RemoveNothing
<1>3. QED
    BY <1>1, <1>2, Pids DEF IInv, WakeInv, WaitqInv, TimerInv

\* A task changes itself, and may free a zombie, while its CPU runs it.
LEMMA KeepOwn ==
    ASSUME IInv, OneCpuPerTask, NEW c \in CPU, NEW t \in Proc, t = current[c], at[c] = "run",
           UNCHANGED <<current, at, next, rq>>, status[t] # "ready", status'[t] # "ready",
           \A x \in Pid : x # t => tp'[x] = tp[x],
           \A x \in Pid : x # t => \/ status'[x] = status[x]
                                   \/ status[x] = "zombie" /\ status'[x] = "freed",
           tp'[t] \in {"run", "mark", "wait"} => status'[t] = "running"
    PROVE  HandInv' /\ RunInv' /\ MarkInv'
<1>1. \A x \in CPU : x \in Pid /\ x # t
    BY Pids
<1>2. \A x \in CPU : status[x] = "running"
    BY DEF IInv, HandInv
<1>3. HandInv'
  <2>1. \A x \in CPU : status'[x] = status[x] /\ tp'[x] = tp[x]
      BY <1>1, <1>2
  <2>2. \A x \in Proc : status'[x] = "ready" <=> status[x] = "ready"
      BY Pids
  <2>3. QED
      BY <2>1, <2>2, KeepHand DEF IInv
<1>4. RunInv'
  <2>1. RunsOwn(c)'
      BY DEF RunsOwn
  <2>2. \A d \in CPU : d # c => current[d] # t /\ current[d] \in Pid
      BY OwnTask DEF IInv, TypeOK
  <2>3. \A d \in CPU : d # c =>
            /\ status[current[d]] = "running" => status'[current[d]] = "running"
            /\ tp'[current[d]] = tp[current[d]]
      BY <2>2
  <2>4. QED
      BY <2>1, <2>3, KeepRun DEF IInv
<1>5. MarkInv'
  <2> SUFFICES ASSUME NEW x \in Proc \ Kernel, tp'[x] \in {"mark", "arm"}
               PROVE  \E d \in CPU : current[d] = x /\ at[d] = "run"
      BY DEF MarkInv
  <2>1. CASE x = t
      BY <2>1
  <2>2. CASE x # t
    <3>1. tp[x] \in {"mark", "arm"}
        BY <2>2, Pids
    <3>2. MarkInv
        BY DEF IInv
    <3>3. QED
        BY ONLY <3>1, <3>2, x \in Proc \ Kernel, ZenonT(30) DEF MarkInv
  <2>3. QED
      BY <2>1, <2>2
<1>6. QED
    BY <1>3, <1>4, <1>5

\* A task that stays alive and does not wait changes itself.
LEMMA KeepAlive ==
    ASSUME EndInv, NEW t \in Proc,
           UNCHANGED <<killed, parent, waiting, zombies, current, prev>>,
           \A x \in Proc : x # t => status'[x] = status[x] /\ tp'[x] = tp[x],
           status[t] \in {"ready", "running", "blocked"},
           status'[t] \in {"ready", "running", "blocked"},
           tp'[t] \in {"run", "block", "mark", "arm"}
    PROVE  EndInv'
<1>1. Lifetime(t)'
    BY StaysAlive
<1>2. QED
    BY <1>1, KeepUse, KeepEnd

LEMMA BlockStep ==
    ASSUME IInv, OneCpuPerTask, NEW c \in CPU, Block(c)
    PROVE  IInv'
<1> USE DEF IInv
<1>0. PICK t : t = current[c]
    OBVIOUS
<1>1. at[c] = "run" /\ tp[t] = "run" /\ t \in Proc /\ t \in Pid /\ status[t] = "running"
    BY <1>0, Executing DEF Block, Starts
<1>2. /\ t \notin Elements(waitq) /\ timer[t] = "off" /\ t \notin sleeping
      /\ rq_remove({t}) = rq
    BY <1>1, RunningIsFree
<1>3. /\ waitq' = Append(waitq, t) /\ rq' = rq /\ status' = [status EXCEPT ![t] = "blocked"]
      /\ tp' = [tp EXCEPT ![t] = "block"]
      /\ UNCHANGED <<sleeping, timer, cpu, priority, current, prev, next, at, parent, waiting,
                     zombies, killed, fresh>>
    BY <1>0, <1>2 DEF Block, SetInactive, SetStatus, TaskGoto
<1>4. /\ status'[t] = "blocked" /\ \A x \in Pid : x # t => status'[x] = status[x]
      /\ tp'[t] = "block" /\ \A x \in Pid : x # t => tp'[x] = tp[x]
    BY <1>1, <1>3 DEF TypeOK
<1>5. waitq' \in Seq(Proc) /\ Distinct(waitq') /\ Elements(waitq') = Elements(waitq) \cup {t}
  <2>1. waitq \in Seq(Proc) /\ Distinct(waitq)
      BY DEF TypeOK, WakeInv, WaitqInv
  <2>2. waitq' = Append(waitq, t)
      BY <1>3
  <2>3. QED
      BY <1>1, <1>2, <2>1, <2>2, AppendQueue, SMTT(30)
<1>6. TypeOK'
  <2>1. TypeOK
      OBVIOUS
  <2>2. QED
      BY ONLY <1>3, <1>5, <2>1, ZenonT(30) DEF TypeOK
<1>7. QueueInv'
  <2>1. \A x \in Proc : status[x] = "ready" => status'[x] = "ready"
      BY <1>1, <1>4, Pids
  <2>2. QED
      BY <1>3, <2>1, SameQueues
<1>8. HandInv' /\ RunInv' /\ MarkInv'
  <2>1. /\ status[t] # "ready" /\ status'[t] # "ready"
        /\ tp'[t] \in {"run", "mark", "wait"} => status'[t] = "running"
        /\ UNCHANGED <<current, at, next, rq>>
      BY <1>1, <1>3, <1>4
  <2>2. /\ \A x \in Pid : x # t => tp'[x] = tp[x]
        /\ \A x \in Pid : x # t => \/ status'[x] = status[x]
                                   \/ status[x] = "zombie" /\ status'[x] = "freed"
      BY <1>3, <1>4
  <2>3. QED
      BY <1>0, <1>1, <2>1, <2>2, KeepOwn
<1>9. WakeInv'
  <2> USE DEF WakeInv
  <2>1. UNCHANGED <<sleeping, timer, next, at>>
      BY <1>3
  <2>2. WaitqInv'
      BY <1>1, <1>2, <1>4, <1>5, <2>1, Pids, SMTT(30) DEF WaitqInv
  <2>3. WakerInv'
      BY <1>1, <1>4, <1>5, <2>1, Pids, SMTT(30) DEF WakerInv
  <2>4. TimerInv'
      BY <1>1, <1>2, <1>4, <2>1, Pids, SMTT(30) DEF TimerInv
  <2>5. BlockedInv'
      BY <1>4, <1>5, <2>1, Pids, SMTT(30) DEF BlockedInv
  <2>6. QED
      BY <2>2, <2>3, <2>4, <2>5
<1>10. EndInv'
    BY <1>1, <1>3, <1>4, KeepAlive, Pids
<1>11. QED
    BY <1>6, <1>7, <1>8, <1>9, <1>10

LEMMA PostStep ==
    ASSUME IInv, NEW c \in CPU, Post(c)
    PROVE  IInv'
<1> USE DEF IInv
<1>0. PICK t : t = Head(waitq)
    OBVIOUS
<1>1. /\ waitq' \in Seq(Proc) /\ Distinct(waitq') /\ Elements(waitq') = Elements(waitq) \ {t}
      /\ t \in Elements(waitq)
  <2>1. waitq \in Seq(Proc) /\ Distinct(waitq) /\ waitq # <<>> /\ waitq' = Tail(waitq)
      BY DEF Post, TypeOK, WakeInv, WaitqInv
  <2>2. QED
      BY <1>0, <2>1, TailQueue
<1>2. /\ t \in Proc /\ t \in Pid /\ status[t] = "blocked" /\ timer[t] = "off"
      /\ tp[t] \notin {"mark", "arm"}
    BY <1>1, Pids DEF WakeInv, WaitqInv
<1>3. /\ sleeping' = sleeping \ {t} /\ timer' = [timer EXCEPT ![t] = IF t \in sleeping THEN "off" ELSE @]
      /\ at' = [at EXCEPT ![c] = "wake"] /\ next' = [next EXCEPT ![c] = t]
      /\ at[c] = "run" /\ (current[c] \in Kernel \/ tp[current[c]] = "run")
      /\ UNCHANGED <<status, cpu, priority, rq, current, prev, tp, parent,
                     waiting, zombies, killed, fresh>>
    BY <1>0, <1>2 DEF Post, IrqOn, jlos_task_wakeup, Goto
<1>4. timer' = timer
  <2>1. timer' = [timer EXCEPT ![t] = IF t \in sleeping THEN "off" ELSE @]
      BY <1>3
  <2>2. timer = [x \in Pid |-> timer[x]]
      BY DEF TypeOK
  <2>3. QED
      BY <1>2, <2>1, <2>2
<1>5. /\ at'[c] = "wake" /\ next'[c] = t
      /\ \A d \in CPU : d # c => at'[d] = at[d] /\ next'[d] = next[d]
      /\ \A x : x \in sleeping' <=> x \in sleeping /\ x # t
    BY <1>3 DEF TypeOK
<1>6. TypeOK'
    BY <1>1, <1>2, <1>3, <1>4 DEF TypeOK
<1>7. QueueInv'
    BY <1>3, SameQueues
<1>8. HandInv'
    BY <1>3, <1>5, KeepHand
<1>9. WakeInv'
  <2> USE DEF WakeInv
  <2>1. UNCHANGED <<status, timer, tp>>
      BY <1>3, <1>4
  <2>2. WaitqInv'
      BY <1>1, <2>1 DEF WaitqInv
  <2>3. \A d \in CPU : at[d] \in {"wake", "expwake"} => next[d] # t
      BY <1>1 DEF WakerInv
  <2>4. WakerInv'
      BY <1>1, <1>2, <1>5, <2>1, <2>3, SMTT(30) DEF WakerInv
  <2>5. TimerInv'
    <3>1. tp[t] # "mark"
        BY <1>2
    <3>2. \A x : x \in sleeping' <=> x \in sleeping /\ x # t
        BY <1>5
    <3>3. QED
        BY <2>1, <3>1, <3>2, SMTT(30) DEF TimerInv
  <2>6. at[c] # "wake" /\ at[c] # "expwake"
      BY <1>3
  <2>7. BlockedInv'
      BY <1>1, <1>5, <2>1, <2>6, SMTT(30) DEF BlockedInv
  <2>8. QED
      BY <2>2, <2>4, <2>5, <2>7
<1>10. RunInv' /\ MarkInv'
  <2>1. RunsOwn(c)
      BY DEF RunInv
  <2>2. RunsOwn(c)'
    <3>1. at[c] = "run" /\ at'[c] = "wake" /\ UNCHANGED <<status, tp, current>>
        BY <1>3, <1>5
    <3>2. QED
        BY <2>1, <3>1 DEF RunsOwn
  <2>3. RunInv'
      BY <1>3, <1>5, <2>2, KeepRun
  <2>4. MarkInv'
      BY <1>3, <1>5, KeepMark
  <2>5. QED
      BY <2>3, <2>4
<1>11. EndInv'
    BY <1>3, KeepUse, KeepEnd
<1>12. QED
    BY <1>6, <1>7, <1>8, <1>9, <1>10, <1>11

LEMMA SleepMarkStep ==
    ASSUME IInv, OneCpuPerTask, NEW c \in CPU, SleepMark(c)
    PROVE  IInv'
<1> USE DEF IInv
<1>0. PICK t : t = current[c]
    OBVIOUS
<1>1. at[c] = "run" /\ tp[t] = "run" /\ t \in Proc /\ t \in Pid /\ status[t] = "running"
    BY <1>0, Executing DEF SleepMark, Starts
<1>2. t \notin Elements(waitq) /\ timer[t] = "off"
    BY <1>1, RunningIsFree
<1>3. /\ sleeping' = sleeping \cup {t} /\ tp' = [tp EXCEPT ![t] = "mark"]
      /\ UNCHANGED <<status, timer, cpu, priority, rq, current, prev, next, at,
                     parent, waiting, zombies, waitq, killed, fresh>>
    BY <1>0 DEF SleepMark, TaskGoto
<1>4. /\ tp'[t] = "mark" /\ \A x \in Pid : x # t => tp'[x] = tp[x]
      /\ \A x : x \in sleeping' <=> x \in sleeping \/ x = t
    BY <1>1, <1>3 DEF TypeOK
<1>5. TypeOK'
    BY <1>1, <1>3 DEF TypeOK
<1>6. QueueInv'
    BY <1>3, SameQueues
<1>7. HandInv' /\ RunInv' /\ MarkInv'
  <2>1. /\ status[t] # "ready" /\ status'[t] # "ready"
        /\ tp'[t] \in {"run", "mark", "wait"} => status'[t] = "running"
        /\ UNCHANGED <<current, at, next, rq>>
      BY <1>1, <1>3, <1>4
  <2>2. /\ \A x \in Pid : x # t => tp'[x] = tp[x]
        /\ \A x \in Pid : x # t => \/ status'[x] = status[x]
                                   \/ status[x] = "zombie" /\ status'[x] = "freed"
      BY <1>3, <1>4
  <2>3. QED
      BY <1>0, <1>1, <2>1, <2>2, KeepOwn
<1>8. WakeInv'
  <2> USE DEF WakeInv
  <2>1. UNCHANGED <<status, timer, next, at, waitq>>
      BY <1>3
  <2>2. WaitqInv'
      BY <1>2, <1>4, <2>1, Pids, SMTT(30) DEF WaitqInv
  <2>3. WakerInv'
      BY <1>1, <1>4, <2>1, Pids, SMTT(30) DEF WakerInv
  <2>4. TimerInv'
      BY <1>1, <1>2, <1>4, <2>1, Pids, SMTT(30) DEF TimerInv
  <2>5. BlockedInv'
      BY <1>4, <2>1, Pids, SMTT(30) DEF BlockedInv
  <2>6. QED
      BY <2>2, <2>3, <2>4, <2>5
<1>9. EndInv'
    BY <1>1, <1>3, <1>4, KeepAlive, Pids
<1>10. QED
    BY <1>5, <1>6, <1>7, <1>8, <1>9

LEMMA SleepBlockStep ==
    ASSUME IInv, OneCpuPerTask, NEW c \in CPU, SleepBlock(c)
    PROVE  IInv'
<1> USE DEF IInv
<1>0. PICK t : t = current[c]
    OBVIOUS
<1>1. at[c] = "run" /\ tp[t] = "mark" /\ t \in Proc /\ t \in Pid /\ status[t] = "running"
    BY <1>0, Executing DEF SleepBlock
<1>2. t \notin Elements(waitq) /\ timer[t] = "off" /\ rq_remove({t}) = rq
    BY <1>1, RunningIsFree
<1>3. /\ rq' = rq /\ status' = [status EXCEPT ![t] = "blocked"] /\ tp' = [tp EXCEPT ![t] = "arm"]
      /\ UNCHANGED <<sleeping, timer, cpu, priority, current, prev, next, at, parent, waiting,
                     zombies, waitq, killed, fresh>>
    BY <1>0, <1>2 DEF SleepBlock, SetInactive, SetStatus, TaskGoto, taskVars
<1>4. /\ status'[t] = "blocked" /\ \A x \in Pid : x # t => status'[x] = status[x]
      /\ tp'[t] = "arm" /\ \A x \in Pid : x # t => tp'[x] = tp[x]
    BY <1>1, <1>3 DEF TypeOK
<1>5. TypeOK'
    BY <1>3 DEF TypeOK
<1>6. QueueInv'
  <2>1. \A x \in Proc : status[x] = "ready" => status'[x] = "ready"
      BY <1>1, <1>4, Pids
  <2>2. QED
      BY <1>3, <2>1, SameQueues
<1>7. HandInv' /\ RunInv' /\ MarkInv'
  <2>1. /\ status[t] # "ready" /\ status'[t] # "ready"
        /\ tp'[t] \in {"run", "mark", "wait"} => status'[t] = "running"
        /\ UNCHANGED <<current, at, next, rq>>
      BY <1>1, <1>3, <1>4
  <2>2. /\ \A x \in Pid : x # t => tp'[x] = tp[x]
        /\ \A x \in Pid : x # t => \/ status'[x] = status[x]
                                   \/ status[x] = "zombie" /\ status'[x] = "freed"
      BY <1>3, <1>4
  <2>3. QED
      BY <1>0, <1>1, <2>1, <2>2, KeepOwn
<1>8. WakeInv'
  <2> USE DEF WakeInv
  <2>1. UNCHANGED <<sleeping, timer, next, at, waitq>>
      BY <1>3
  <2>2. WaitqInv'
      BY <1>2, <1>4, <2>1, Pids, SMTT(30) DEF WaitqInv
  <2>3. WakerInv'
      BY <1>1, <1>4, <2>1, Pids, SMTT(30) DEF WakerInv
  <2>4. TimerInv'
      BY <1>2, <1>4, <2>1, Pids, SMTT(30) DEF TimerInv
  <2>5. BlockedInv'
      BY <1>4, <2>1, Pids, SMTT(30) DEF BlockedInv
  <2>6. QED
      BY <2>2, <2>3, <2>4, <2>5
<1>9. EndInv'
    BY <1>1, <1>3, <1>4, KeepAlive, Pids
<1>10. QED
    BY <1>5, <1>6, <1>7, <1>8, <1>9

LEMMA SleepArmStep ==
    ASSUME IInv, OneCpuPerTask, NEW c \in CPU, SleepArm(c)
    PROVE  IInv'
<1> USE DEF IInv
<1>0. PICK t : t = current[c]
    OBVIOUS
<1>1. at[c] = "run" /\ tp[t] = "arm" /\ t \in Proc /\ t \in Pid /\ status[t] = "blocked"
    BY <1>0, Executing DEF SleepArm, WakeInv, TimerInv
<1>2. /\ timer' = [timer EXCEPT ![t] = "armed"] /\ tp' = [tp EXCEPT ![t] = "block"]
      /\ UNCHANGED <<status, sleeping, cpu, priority, rq, current, prev, next,
                     at, parent, waiting, zombies, waitq, killed, fresh>>
    BY <1>0 DEF SleepArm, TaskGoto
<1>3. /\ timer'[t] = "armed" /\ \A x \in Pid : x # t => timer'[x] = timer[x]
      /\ tp'[t] = "block" /\ \A x \in Pid : x # t => tp'[x] = tp[x]
    BY <1>1, <1>2 DEF TypeOK
<1>4. TypeOK'
    BY <1>2 DEF TypeOK
<1>5. QueueInv'
    BY <1>2, SameQueues
<1>6. HandInv' /\ RunInv' /\ MarkInv'
    BY <1>0, <1>1, <1>2, <1>3, KeepOwn
<1>7. WakeInv'
  <2> USE DEF WakeInv
  <2>1. UNCHANGED <<status, sleeping, next, at, waitq>>
      BY <1>2
  <2>2. WaitqInv'
      BY <1>1, <1>3, <2>1, Pids, SMTT(30) DEF WaitqInv
  <2>3. WakerInv'
      BY <1>1, <1>3, <2>1, Pids, SMTT(30) DEF WakerInv
  <2>4. TimerInv'
      BY <1>1, <1>3, <2>1, Pids, SMTT(30) DEF TimerInv
  <2>5. BlockedInv'
      BY <1>3, <2>1, Pids, SMTT(30) DEF BlockedInv
  <2>6. QED
      BY <2>2, <2>3, <2>4, <2>5
<1>8. EndInv'
    BY <1>1, <1>2, <1>3, KeepAlive, Pids
<1>9. QED
    BY <1>4, <1>5, <1>6, <1>7, <1>8

LEMMA ForkStep ==
    ASSUME IInv, OneCpuPerTask, NEW c \in CPU, Fork(c)
    PROVE  IInv'
<1> USE DEF IInv
<1>0. PICK t : t = current[c]
    OBVIOUS
<1>1. t \in Proc /\ t \in Pid /\ status[t] = "running" /\ rq \in RqType
    BY <1>0, Executing DEF Fork, Starts, TypeOK, RqType
<1>2. PICK k \in Proc :
        /\ status[k] = "none" /\ SetStatus(k, "ready")
        /\ cpu' = [cpu EXCEPT ![k] = cpu[t]]
        /\ priority' = [priority EXCEPT ![k] = priority[t]]
        /\ rq' = rq_enqueue(k, cpu[t], priority[t])
        /\ parent' = [parent EXCEPT ![k] = t]
    BY <1>0 DEF Fork
<1>3. UNCHANGED <<sleeping, timer, current, prev, next, at, tp, waiting, zombies, waitq, killed,
                  fresh>>
    BY DEF Fork
<1>4. cpu[t] \in CPU /\ priority[t] \in Level /\ k \in Pid /\ k # t /\ status[k] = "none"
    BY <1>1, <1>2, Pids DEF TypeOK
<1>5. /\ status'[k] = "ready" /\ \A x \in Pid : x # k => status'[x] = status[x]
      /\ cpu'[k] = cpu[t] /\ priority'[k] = priority[t] /\ parent'[k] = t
      /\ \A x \in Pid : x # k => cpu'[x] = cpu[x] /\ priority'[x] = priority[x]
      /\ \A x \in Pid : x # k => parent'[x] = parent[x]
    BY <1>2, <1>4 DEF TypeOK, SetStatus
<1>6. ~InRq(rq, k) /\ tp[k] = "run" /\ parent[k] = None /\ k \notin zombies
    BY <1>4, QueuedIsReady DEF EndInv, Lifetime
<1>7. \A x \in Proc : InRq(rq, x) =>
          status'[x] = "ready" /\ cpu'[x] = cpu[x] /\ priority'[x] = priority[x]
    BY <1>5, <1>6, QueuedIsReady, Pids
<1>8. rq' = rq_enqueue(k, cpu[t], priority[t])
    BY <1>2
<1>9. rq' \in RqType /\ QueueInv' /\ \A x : InRq(rq', x) <=> InRq(rq, x) \/ x = k
    BY <1>1, <1>4, <1>5, <1>6, <1>7, <1>8, EnqueueQueues
<1>10. TypeOK'
  <2>1. status' \in [Pid -> {"none", "ready", "running", "blocked", "waiting",
                             "zombie", "freed"}]
      BY <1>2 DEF TypeOK, SetStatus
  <2>2. cpu' \in [Pid -> CPU] /\ priority' \in [Pid -> Level]
      BY <1>2, <1>4 DEF TypeOK
  <2>3. parent' \in [Pid -> Pid \cup {None}]
      BY <1>1, <1>2 DEF TypeOK
  <2>4. rq' \in [CPU -> [Level -> Seq(Pid)]]
      BY <1>9 DEF RqType
  <2>5. TypeOK
      OBVIOUS
  <2>6. QED
      BY ONLY <1>3, <2>1, <2>2, <2>3, <2>4, <2>5, ZenonT(30) DEF TypeOK
<1>11. \A x \in Proc : x # k => status'[x] = status[x] /\ parent'[x] = parent[x]
    BY <1>5, Pids
<1>12. HandInv'
  <2>1. \A x \in CPU : status'[x] = status[x]
      BY <1>5, Pids
  <2>2. QED
      BY <1>3, <1>4, <1>5, <1>9, <1>11, <2>1, KeepHand
<1>13. WakeInv'
    BY <1>3, <1>4, <1>5, <1>6, KeepWake
<1>14. RunInv' /\ MarkInv'
  <2>1. \A d \in CPU : status[current[d]] = "running" => status'[current[d]] = "running"
      BY <1>4, <1>5 DEF TypeOK
  <2>2. QED
      BY <1>3, <2>1, KeepRun, KeepMark
<1>15. EndInv'
  <2>1. Lifetime(k)'
    <3>1. status'[k] = "ready" /\ tp'[k] = "run" /\ parent'[k] \in Pid /\ k \notin zombies'
        BY <1>1, <1>3, <1>5, <1>6
    <3>2. QED
        BY <3>1 DEF Lifetime
  <2>2. ASSUME NEW y \in Proc, status[y] = "waiting" PROVE waiting[y] # k
    <3>1. parent[waiting[y]] = y
        BY <2>2, WaitsForChild
    <3>2. y # None
        BY Pids
    <3>3. QED
        BY <1>6, <3>1, <3>2
  <2>3. QED
      BY <1>3, <1>11, <2>1, <2>2, KeepUse, KeepEnd
<1>16. QED
    BY <1>9, <1>10, <1>12, <1>13, <1>14, <1>15

LEMMA ExitStep ==
    ASSUME IInv, OneCpuPerTask, NEW c \in CPU, Exit(c)
    PROVE  IInv'
<1> USE DEF IInv
<1>0. PICK t : t = current[c]
    OBVIOUS
<1>1. at[c] = "run" /\ tp[t] = "run" /\ t \in Proc /\ t \in Pid /\ status[t] = "running"
    BY <1>0, Executing DEF Exit, Starts, EndInv
<1>2. rq_remove({t}) = rq
    BY <1>1, RunningIsFree
<1>3. /\ rq' = rq /\ status' = [status EXCEPT ![t] = "zombie"] /\ tp' = [tp EXCEPT ![t] = "exit"]
      /\ UNCHANGED <<sleeping, timer, cpu, priority, current, prev, next, at, parent, waiting,
                     zombies, waitq, killed, fresh>>
    BY <1>0, <1>2 DEF Exit, SetInactive, SetStatus, TaskGoto, taskVars
<1>4. /\ status'[t] = "zombie" /\ \A x \in Pid : x # t => status'[x] = status[x]
      /\ tp'[t] = "exit" /\ \A x \in Pid : x # t => tp'[x] = tp[x]
    BY <1>1, <1>3 DEF TypeOK
<1>5. TypeOK'
    BY <1>3 DEF TypeOK
<1>6. QueueInv'
  <2>1. \A x \in Proc : status[x] = "ready" => status'[x] = "ready"
      BY <1>1, <1>4, Pids
  <2>2. QED
      BY <1>3, <2>1, SameQueues
<1>7. HandInv' /\ RunInv' /\ MarkInv'
  <2>1. /\ status[t] # "ready" /\ status'[t] # "ready"
        /\ tp'[t] \in {"run", "mark", "wait"} => status'[t] = "running"
        /\ UNCHANGED <<current, at, next, rq>>
      BY <1>1, <1>3, <1>4
  <2>2. /\ \A x \in Pid : x # t => tp'[x] = tp[x]
        /\ \A x \in Pid : x # t => \/ status'[x] = status[x]
                                   \/ status[x] = "zombie" /\ status'[x] = "freed"
      BY <1>4
  <2>3. QED
      BY <1>0, <1>1, <2>1, <2>2, KeepOwn
<1>8. WakeInv'
    BY <1>1, <1>3, <1>4, KeepWake
<1>9. EndInv'
  <2>1. Lifetime(t)'
    <3>1. status[t] = "running" /\ status'[t] = "zombie" /\ tp'[t] = "exit"
        BY <1>1, <1>4
    <3>2. parent'[t] \in Pid /\ t \notin zombies'
        BY <1>1, <1>3 DEF EndInv, Lifetime
    <3>3. QED
        BY <3>1, <3>2 DEF Lifetime
  <2>2. \A x \in Proc : x # t => status'[x] = status[x] /\ tp'[x] = tp[x]
      BY <1>4, Pids
  <2>3. QED
      BY <1>3, <1>4, <2>1, <2>2, KeepUse, KeepEnd
<1>10. QED
    BY <1>5, <1>6, <1>7, <1>8, <1>9

\* The rest of exit, with a parent that waits for this task.
LEMMA NotifyParent ==
    ASSUME IInv, NEW t \in Proc, NEW p \in Proc, tp[t] = "exit",
           status[t] = "zombie", parent[t] = p, status[p] = "waiting", waiting[p] = t,
           tp' = [tp EXCEPT ![t] = "dead"], status' = [status EXCEPT ![p] = "ready"],
           rq' = rq_enqueue(p, cpu[p], priority[p]),
           UNCHANGED <<sleeping, timer, cpu, priority, current, prev, next, at, parent, waiting,
                       waitq, killed, fresh, zombies>>
    PROVE  IInv'
<1> USE DEF IInv
<1>1. /\ t \in Pid /\ p \in Pid /\ t # p /\ rq \in RqType /\ ~InRq(rq, p)
      /\ cpu[p] \in CPU /\ priority[p] \in Level
    BY Pids, QueuedIsReady DEF TypeOK, RqType
<1>2. /\ status'[p] = "ready" /\ \A x \in Pid : x # p => status'[x] = status[x]
      /\ tp'[t] = "dead" /\ \A x \in Pid : x # t => tp'[x] = tp[x]
    BY <1>1 DEF TypeOK
<1>3. \A x \in Proc : InRq(rq, x) => status'[x] = "ready"
    BY <1>1, <1>2, QueuedIsReady, Pids
<1>4. rq' \in RqType /\ QueueInv' /\ \A x : InRq(rq', x) <=> InRq(rq, x) \/ x = p
    BY <1>1, <1>2, <1>3, EnqueueQueues
<1>5. TypeOK'
    BY <1>4 DEF TypeOK, RqType
<1>6. HandInv'
  <2>1. \A x \in CPU : status'[x] = status[x] /\ tp'[x] = tp[x]
      BY <1>2, Pids
  <2>2. \A x \in Proc :
            \/ /\ status'[x] = "ready" <=> status[x] = "ready"
               /\ InRq(rq', x) <=> InRq(rq, x)
            \/ status[x] # "ready" /\ status'[x] = "ready" /\ InRq(rq', x)
      BY <1>2, <1>4, Pids
  <2>3. QED
      BY <2>1, <2>2, KeepHand
<1>7. WakeInv'
  <2>1. tp[p] \notin {"mark", "arm"}
      BY DEF WakeInv, TimerInv
  <2>2. QED
      BY <1>2, <2>1, KeepWake
<1>8. RunInv' /\ MarkInv'
  <2>1. ASSUME NEW d \in CPU, current[d] = t PROVE RunsOwn(d)'
    <3>1. RunsOwn(d)
        BY DEF RunInv
    <3>2. QED
        BY <1>2, <2>1, <3>1 DEF RunsOwn
  <2>2. \A d \in CPU : current[d] # t =>
            /\ tp'[current[d]] = tp[current[d]]
            /\ status[current[d]] = "running" => status'[current[d]] = "running"
      BY <1>2 DEF TypeOK
  <2>3. \A x \in Proc : tp'[x] \in {"mark", "arm"} => tp[x] \in {"mark", "arm"}
      BY <1>2, Pids
  <2>4. QED
      BY <2>1, <2>2, <2>3, KeepRun, KeepMark
<1>9. EndInv'
  <2>1. Lifetime(t) /\ Lifetime(p)
      BY DEF EndInv
  <2>2. status'[t] = "zombie" /\ tp'[t] = "dead" /\ status'[p] = "ready" /\ tp'[p] = tp[p]
      BY <1>1, <1>2
  <2>3. Lifetime(t)'
      BY <2>1, <2>2 DEF Lifetime
  <2>4. Lifetime(p)'
      BY <2>1, <2>2 DEF Lifetime
  <2>5. \A y \in Proc : status[y] = "waiting" /\ waiting[y] = t => y = p
      BY WaitsForChild
  <2>6. \A x \in Proc : x # t /\ x # p => status'[x] = status[x] /\ tp'[x] = tp[x]
      BY <1>2, Pids
  <2>7. ASSUME NEW x \in Proc, x \in {t, p}
        PROVE  /\ Lifetime(x)'
               /\ \A y \in Proc :
                   status[y] = "waiting" /\ status'[y] = "waiting" /\ waiting[y] = x =>
                       /\ parent'[x] = parent[x] /\ status'[x] # "freed"
                       /\ status'[x] = "zombie" => tp'[x] = "exit"
    <3>1. CASE x = t
        BY <2>2, <2>3, <2>5, <3>1
    <3>2. CASE x = p
        BY <2>2, <2>4, <3>2
    <3>3. QED
        BY <2>7, <3>1, <3>2
  <2>8. QED
      BY <2>6, <2>7, KeepUse, KeepEnd
<1>10. QED
    BY <1>4, <1>5, <1>6, <1>7, <1>8, <1>9

\* The rest of exit, with nobody to wake.
LEMMA NotifyNobody ==
    ASSUME IInv, OneCpuPerTask, NEW c \in CPU, NEW t \in Proc, t = current[c], at[c] = "run",
           tp[t] = "exit", status[t] = "zombie",
           \A p \in Proc : ~(status[p] = "waiting" /\ waiting[p] = t),
           tp' = [tp EXCEPT ![t] = "dead"], zombies' \in {zombies, zombies \cup {t}},
           UNCHANGED <<status, rq, sleeping, timer, cpu, priority, current, prev, next, at,
                       parent, waiting, waitq, killed, fresh>>
    PROVE  IInv'
<1> USE DEF IInv
<1>1. t \in Pid
    BY Pids
<1>2. tp'[t] = "dead" /\ \A x \in Pid : x # t => tp'[x] = tp[x]
    BY <1>1 DEF TypeOK
<1>3. TypeOK'
    BY <1>1 DEF TypeOK
<1>4. QueueInv'
    BY SameQueues
<1>5. HandInv' /\ RunInv' /\ MarkInv'
    BY <1>2, KeepOwn
<1>6. WakeInv'
    BY <1>2, KeepWake
<1>7. EndInv'
  <2>1. Lifetime(t)'
    <3>1. Lifetime(t)
        BY DEF EndInv
    <3>2. QED
        BY <1>2, <3>1 DEF Lifetime
  <2>2. \A x \in Proc : x # t => tp'[x] = tp[x] /\ (x \in zombies' => x \in zombies)
      BY <1>2, Pids
  <2>3. QED
      BY <2>1, <2>2, KeepUse, KeepEnd
<1>8. QED
    BY <1>3, <1>4, <1>5, <1>6, <1>7

LEMMA ExitNotifyStep ==
    ASSUME IInv, OneCpuPerTask, NEW c \in CPU, ExitNotify(c)
    PROVE  IInv'
<1> DEFINE t == current[c]
           p == parent[t]
<1> USE DEF IInv
<1>1. /\ at[c] = "run" /\ t \in Proc /\ t \in Pid /\ tp[t] = "exit" /\ status[t] = "zombie"
      /\ p \in Pid
  <2>1. at[c] = "run" /\ tp[t] = "exit" /\ t \in Proc /\ t \in Pid /\ InUse(t)
      BY Executing DEF ExitNotify
  <2>2. QED
      BY <2>1 DEF EndInv, Lifetime
<1>2. \A x \in Proc : status[x] = "waiting" /\ waiting[x] = t => x = p
    BY WaitsForChild
<1>3. \A d \in CPU : status[d] = "running"
    BY DEF HandInv
<1>4. /\ tp' = [tp EXCEPT ![t] = "dead"]
      /\ UNCHANGED <<sleeping, timer, cpu, priority, current, prev, next, at, parent, waiting,
                     waitq, killed, fresh>>
    BY DEF ExitNotify, TaskGoto
<1>5. CASE status[p] \notin {"freed", "zombie"} /\ p # 0 /\ status[p] = "waiting" /\ waiting[p] = t
  <2>1. p \in Proc
      BY <1>1, <1>3, <1>5, Pids
  <2>2. ~Queued(p)
      BY <1>5, QueuedIsInRq, QueuedIsReady DEF TypeOK, RqType
  <2>3. /\ status' = [status EXCEPT ![p] = "ready"] /\ UNCHANGED zombies
        /\ rq' = rq_enqueue(p, cpu[p], priority[p])
      BY <1>5, <2>2 DEF ExitNotify, SetStatus
  <2>4. p = parent[t]
      OBVIOUS
  <2> HIDE DEF p, t
  <2>5. QED
      BY <1>1, <1>4, <1>5, <2>1, <2>3, <2>4, NotifyParent
<1>6. CASE ~(status[p] \notin {"freed", "zombie"} /\ p # 0 /\ status[p] = "waiting" /\ waiting[p] = t)
  <2>1. UNCHANGED <<status, rq>> /\ zombies' \in {zombies, zombies \cup {t}} /\ t = current[c]
      BY <1>6 DEF ExitNotify
  <2>2. \A x \in Proc : ~(status[x] = "waiting" /\ waiting[x] = t)
      BY <1>2, <1>6, Pids
  <2> HIDE DEF p, t
  <2>3. QED
      BY <1>1, <1>4, <2>1, <2>2, NotifyNobody
<1>7. QED
    BY <1>5, <1>6

\* One round of wait_pid that finds the child alive.
LEMMA WaitOnStep ==
    ASSUME IInv, OneCpuPerTask, NEW c \in CPU, at[c] = "run", current[c] \in Proc,
           tp[current[c]] \in {"run", "wait"}, NEW k \in Proc, parent[k] = current[c],
           status[k] \notin {"freed", "zombie"},
           status' = [status EXCEPT ![current[c]] = "waiting"],
           tp' = [tp EXCEPT ![current[c]] = "waitcall"],
           waiting' = [waiting EXCEPT ![current[c]] = k],
           UNCHANGED <<rq, timer, zombies, waitq, killed, sleeping, cpu, priority, current, prev,
                       next, at, parent, fresh>>
    PROVE  IInv'
<1> USE DEF IInv
<1>0. PICK t : t = current[c]
    OBVIOUS
<1>1. /\ t \in Proc /\ t \in Pid /\ status[t] = "running" /\ k \in Pid
      /\ tp[t] \notin {"mark", "arm"}
    BY <1>0, Executing, Pids
<1>2. /\ status'[t] = "waiting" /\ \A x \in Pid : x # t => status'[x] = status[x]
      /\ tp'[t] = "waitcall" /\ \A x \in Pid : x # t => tp'[x] = tp[x]
      /\ waiting'[t] = k /\ \A x \in Pid : x # t => waiting'[x] = waiting[x]
    BY <1>0, <1>1 DEF TypeOK
<1>3. TypeOK'
    BY <1>0, <1>1 DEF TypeOK
<1>4. QueueInv'
  <2>1. \A x \in Proc : status[x] = "ready" => status'[x] = "ready"
      BY <1>1, <1>2, Pids
  <2>2. QED
      BY <2>1, SameQueues
<1>5. HandInv' /\ RunInv' /\ MarkInv'
  <2>1. /\ status[t] # "ready" /\ status'[t] # "ready"
        /\ tp'[t] \in {"run", "mark", "wait"} => status'[t] = "running"
      BY <1>1, <1>2
  <2>2. /\ \A x \in Pid : x # t => tp'[x] = tp[x]
        /\ \A x \in Pid : x # t => \/ status'[x] = status[x]
                                   \/ status[x] = "zombie" /\ status'[x] = "freed"
      BY <1>2
  <2>3. QED
      BY <1>0, <1>1, <2>1, <2>2, KeepOwn
<1>6. WakeInv'
    BY <1>1, <1>2, KeepWake
<1>7. EndInv'
  <2>1. Lifetime(t)
      BY <1>1 DEF EndInv
  <2>2. status'[k] \notin {"freed", "zombie"}
      BY <1>1, <1>2
  <2>3. parent'[k] = t /\ UNCHANGED <<parent, zombies>>
      BY <1>0
  <2>4. Lifetime(t)'
      BY <1>1, <1>2, <2>1, <2>2, <2>3 DEF Lifetime
  <2>5. \A x \in Proc : x # t =>
            status'[x] = status[x] /\ tp'[x] = tp[x] /\ waiting'[x] = waiting[x]
      BY <1>2, Pids
  <2>6. QED
      BY <1>2, <2>4, <2>5, KeepUse, KeepEnd
<1>8. QED
    BY <1>3, <1>4, <1>5, <1>6, <1>7

\* One round of wait_pid that finds the child gone, or a zombie to free.
LEMMA WaitEndStep ==
    ASSUME IInv, OneCpuPerTask, NEW c \in CPU, at[c] = "run", current[c] \in Proc,
           tp[current[c]] \in {"run", "wait"}, NEW k \in Proc, parent[k] = current[c],
           task_free_locked({k} \cap {z \in Pid : status[z] = "zombie"}),
           tp' = [tp EXCEPT ![current[c]] = "run"],
           waiting' = [waiting EXCEPT ![current[c]] = None],
           UNCHANGED <<sleeping, cpu, priority, current, prev, next, at, parent, fresh>>
    PROVE  IInv'
<1> DEFINE F == {k} \cap {z \in Pid : status[z] = "zombie"}
<1> USE DEF IInv
<1>0. PICK t : t = current[c]
    OBVIOUS
<1>1. /\ t \in Proc /\ t \in Pid /\ status[t] = "running" /\ k \in Pid
      /\ tp[t] \notin {"mark", "arm"}
    BY <1>0, Executing, Pids
<1>2. F \in SUBSET Pid /\ \A x \in F : x = k /\ status[x] = "zombie"
    OBVIOUS
<1> HIDE DEF F
<1>3. /\ \A x \in Pid : \/ x \in F /\ ~InUse(x) /\ status'[x] = "freed"
                        \/ ~(x \in F /\ ~InUse(x)) /\ status'[x] = status[x]
      /\ status' \in [Pid -> {"none", "ready", "running", "blocked", "waiting",
                              "zombie", "freed"}]
      /\ \A x \in zombies' : x \in zombies /\ ~(x \in F /\ ~InUse(x))
      /\ UNCHANGED <<waitq, rq, timer, killed>>
    BY <1>2, FreeFacts DEF F
<1>4. /\ tp'[t] = "run" /\ \A x \in Pid : x # t => tp'[x] = tp[x]
      /\ waiting'[t] = None /\ \A x \in Pid : x # t => waiting'[x] = waiting[x]
    BY <1>0, <1>1 DEF TypeOK
<1>5. TypeOK'
    BY <1>3 DEF TypeOK
<1>6. /\ \A x \in Pid : \/ status'[x] = status[x]
                        \/ status[x] = "zombie" /\ status'[x] = "freed"
      /\ status'[t] = "running"
    BY <1>1, <1>2, <1>3
<1>7. QueueInv'
    BY <1>3, <1>6, SameQueues, Pids
<1>8. HandInv' /\ RunInv' /\ MarkInv'
  <2>1. UNCHANGED <<current, at, next, rq>>
      BY <1>3
  <2>2. QED
      BY <1>0, <1>1, <1>4, <1>6, <2>1, KeepOwn
<1>9. WakeInv'
  <2>1. \A x \in Pid : status[x] = "zombie" => tp[x] \notin {"mark", "arm"}
      BY Pids DEF HandInv, EndInv, Lifetime
  <2>2. \A x \in Pid :
               /\ \/ status'[x] = status[x]
                  \/ /\ status[x] # "blocked" /\ status'[x] # "blocked"
                     /\ tp[x] \notin {"mark", "arm"}
               /\ \/ tp'[x] = tp[x]
                  \/ tp[x] \notin {"mark", "arm"} /\ tp'[x] \notin {"mark", "arm"}
      BY <1>1, <1>4, <1>6, <2>1
  <2>3. QED
      BY <1>3, <2>2, KeepWake
<1>10. EndInv'
  <2>1. Lifetime(t)'
    <3>1. Lifetime(t) /\ (t \in zombies' => t \in zombies)
        BY <1>1, <1>3 DEF EndInv
    <3>2. QED
        BY <1>1, <1>4, <1>6, <3>1 DEF Lifetime
  <2>2. ASSUME NEW x \in Proc, status'[x] # status[x]
        PROVE  /\ Lifetime(x)'
               /\ \A y \in Proc : ~(status[y] = "waiting" /\ waiting[y] = x)
    <3>1. x = k /\ ~InUse(x) /\ status[x] = "zombie" /\ status'[x] = "freed" /\ x \notin zombies'
        BY <1>2, <1>3, <2>2, Pids
    <3>2. Lifetime(x) /\ ~InUse(x)' /\ tp'[x] = tp[x]
        BY <1>1, <1>4, <3>1, KeepUse, Pids DEF EndInv
    <3>3. Lifetime(x)'
        BY <3>1, <3>2 DEF Lifetime
    <3>4. ASSUME NEW y \in Proc, status[y] = "waiting", waiting[y] = x PROVE FALSE
      <4>1. parent[x] = y
          BY <3>4, WaitsForChild
      <4>2. parent[x] = t
          BY <1>0, <3>1
      <4>3. QED
          BY <1>1, <3>4, <4>1, <4>2
    <3>5. QED
        BY <3>3, <3>4
  <2>3. \A x \in Proc : x # t => tp'[x] = tp[x] /\ waiting'[x] = waiting[x]
      BY <1>4, Pids
  <2>4. QED
      BY <1>3, <1>6, <2>1, <2>2, <2>3, KeepUse, KeepEnd
<1>11. QED
    BY <1>5, <1>7, <1>8, <1>9, <1>10

LEMMA WaitStep ==
    ASSUME IInv, OneCpuPerTask, NEW c \in CPU, WaitAgain(c) \/ \E k \in Proc : WaitPid(c, k)
    PROVE  IInv'
<1>1. PICK k \in Proc : WaitRound(c, k)
    BY Executing DEF WaitAgain, WaitPid, IInv, EndInv, Lifetime
<1>2. at[c] = "run" /\ current[c] \in Proc /\ tp[current[c]] \in {"run", "wait"}
    BY Executing DEF WaitAgain, WaitPid, Starts
<1>3. CASE status[k] \in {"freed", "zombie"}
    BY <1>1, <1>2, <1>3, WaitEndStep DEF WaitRound, TaskGoto
<1>4. CASE status[k] \notin {"freed", "zombie"}
    BY <1>1, <1>2, <1>4, WaitOnStep DEF WaitRound, TaskGoto, SetStatus
<1>5. QED
    BY <1>3, <1>4

-----------------------------------------------------------------------------
(* The theorems                                                            *)

LEMMA StepInv ==
    ASSUME "kill" \notin Ops, IInv, OneCpuPerTask, [Next]_vars
    PROVE  IInv'
<1>1. CASE UNCHANGED vars
  <2> USE <1>1 DEF IInv, vars
  <2>1. TypeOK'
      BY DEF TypeOK
  <2>2. QueueInv'
      BY SameQueues
  <2>3. HandInv' /\ WakeInv'
      BY KeepHand, KeepWake
  <2>4. RunInv' /\ MarkInv' /\ EndInv'
      BY KeepRun, KeepMark, KeepUse, KeepEnd
  <2>5. QED
      BY <2>1, <2>2, <2>3, <2>4
<1>2. ASSUME NEW t \in Proc, Due(t) PROVE IInv'
    BY <1>2, DueStep
<1>3. ASSUME NEW c \in CPU, Tick(c) PROVE IInv'
    BY <1>3, TickStep
<1>4. ASSUME NEW c \in CPU, ScheduleStep(c) PROVE IInv'
    BY <1>4, ScheduleCallStep, ReapStep, ExpireStep, WakeStep, ExpireDoneStep, PickStep,
       StealStep, RepickStep, SwitchStep, ResumeStep DEF ScheduleStep
<1>5. ASSUME NEW c \in CPU, OperationStep(c) PROVE IInv'
    BY <1>5, WakeStep, SleepBlockStep, SleepArmStep, WaitStep, ExitNotifyStep DEF OperationStep
<1>6. ASSUME NEW c \in CPU, Begin(c) PROVE IInv'
  <2>1. ~\E t \in Proc : Kill(c, t)
      BY DEF Kill, Starts
  <2>2. QED
      BY <1>6, <2>1, BlockStep, PostStep, SleepMarkStep, ForkStep, WaitStep, ExitStep DEF Begin
<1>7. QED
    BY <1>1, <1>2, <1>3, <1>4, <1>5, <1>6 DEF Next

LEMMA InvRunQueues == IInv => RunQueuesSound
<1> SUFFICES ASSUME IInv PROVE RunQueuesSound
    OBVIOUS
<1> USE DEF IInv
<1>1. ASSUME NEW c \in CPU, NEW l \in Level
      PROVE  /\ rq[c][l] \in Seq(Pid) /\ Distinct(rq[c][l])
             /\ Range(rq[c][l]) = Elements(rq[c][l])
             /\ \A t \in Elements(rq[c][l]) : status[t] = "ready" /\ cpu[t] = c /\ priority[t] = l
  <2>1. rq[c][l] \in Seq(Pid)
      BY SMTT(30) DEF TypeOK
  <2>2. Range(rq[c][l]) = Elements(rq[c][l])
      BY <2>1, SeqLen DEF Range, Elements
  <2>3. QED
      BY <2>1, <2>2, SMTT(30) DEF QueueInv, QueuesOf
<1>2. QueuedWhereRecorded
    BY <1>1, SMTT(30) DEF QueuedWhereRecorded
<1>3. QueuedOnce
  <2> SUFFICES ASSUME NEW c \in CPU, NEW d \in CPU, NEW l \in Level, NEW m \in Level,
                      NEW i \in 1 .. Len(rq[c][l]), NEW j \in 1 .. Len(rq[d][m]),
                      rq[c][l][i] = rq[d][m][j]
               PROVE  c = d /\ l = m /\ i = j
      BY DEF QueuedOnce
  <2>1. rq[c][l][i] \in Elements(rq[c][l]) /\ rq[d][m][j] \in Elements(rq[d][m])
      BY DEF Elements
  <2>2. cpu[rq[c][l][i]] = c /\ priority[rq[c][l][i]] = l
      BY <1>1, <2>1, SMTT(30)
  <2>3. cpu[rq[d][m][j]] = d /\ priority[rq[d][m][j]] = m
      BY <1>1, <2>1, SMTT(30)
  <2>4. c = d /\ l = m
      BY <2>2, <2>3
  <2>5. Distinct(rq[c][l])
      BY <1>1
  <2>6. QED
      BY <2>4, <2>5 DEF Distinct
<1>4. QED
    BY <1>2, <1>3 DEF RunQueuesSound

\* Range, of the model, of the wait queue and of the run queues.
LEMMA ModelQueues ==
    ASSUME IInv, NEW t
    PROVE  /\ t \in Range(waitq) <=> t \in Elements(waitq)
           /\ Queued(t) <=> InRq(rq, t)
<1>1. waitq \in Seq(Proc) /\ rq \in RqType
    BY DEF IInv, TypeOK, RqType
<1>2. Range(waitq) = Elements(waitq)
    BY <1>1, SeqLen DEF Range, Elements
<1>3. QED
    BY <1>1, <1>2, QueuedIsInRq

LEMMA InvNobodyForgotten == IInv => NobodyForgotten
<1> SUFFICES ASSUME IInv, NEW t \in Pid
             PROVE  /\ status[t] = "ready" =>
                         Queued(t) \/ \E c \in CPU : at[c] = "switch" /\ next[c] = t
                    /\ status[t] = "blocked" =>
                         \/ t \in Range(waitq) \/ timer[t] # "off"
                         \/ /\ tp[t] \in {"mark", "arm"}
                            /\ t \in Kernel \/ \E c \in CPU : current[c] = t /\ at[c] = "run"
                         \/ \E c \in CPU : at[c] \in {"wake", "expwake"} /\ next[c] = t
    BY DEF NobodyForgotten, ReadyIsQueued, BlockedCanWake
<1> USE DEF IInv
<1>1. status[t] \in {"ready", "blocked"} => t \in Proc
    BY Pids DEF HandInv
<1>2. status[t] = "ready" => Queued(t) \/ \E c \in CPU : at[c] = "switch" /\ next[c] = t
    BY <1>1, ModelQueues DEF HandInv
<1>3. status[t] = "blocked" =>
          \/ t \in Range(waitq) \/ timer[t] # "off"
          \/ /\ tp[t] \in {"mark", "arm"}
             /\ t \in Kernel \/ \E c \in CPU : current[c] = t /\ at[c] = "run"
          \/ \E c \in CPU : at[c] \in {"wake", "expwake"} /\ next[c] = t
    BY <1>1, ModelQueues DEF WakeInv, BlockedInv, MarkInv
<1>4. QED
    BY <1>2, <1>3

LEMMA InvNoUseAfterFree == IInv => NoUseAfterFree
<1> SUFFICES ASSUME IInv, NEW t \in Pid, status[t] = "freed"
             PROVE  /\ ~Queued(t) /\ t \notin Range(waitq) /\ t \notin zombies
                    /\ timer[t] = "off"
                    /\ \A c \in CPU :
                        /\ t \notin Uses(c)
                        /\ at[c] \in {"switch", "wake", "expwake"} => next[c] # t
    BY DEF NoUseAfterFree
<1> USE DEF IInv
<1>1. t \in Proc /\ ~InUse(t)
    BY Pids DEF HandInv, EndInv, Lifetime
<1>2. ~Queued(t) /\ t \notin Range(waitq)
    BY <1>1, ModelQueues, QueuedIsReady DEF WakeInv, WaitqInv
<1>3. t \notin zombies /\ timer[t] = "off"
    BY <1>1 DEF EndInv, Lifetime, WakeInv, TimerInv
<1>4. \A c \in CPU : t \notin Uses(c)
    BY <1>1 DEF InUse, Uses
<1>5. \A c \in CPU : at[c] \in {"switch", "wake", "expwake"} => next[c] # t
    BY <1>1, SMTT(30) DEF HandInv, WakeInv, WakerInv
<1>6. QED
    BY <1>2, <1>3, <1>4, <1>5

LEMMA InvNoMissedExit == IInv => NoMissedExit
BY WaitsForChild DEF IInv, NoMissedExit

\* Only the context switch changes the current task of a CPU.
LEMMA SwitchOnly ==
    ASSUME IInv, [Next]_vars, NEW c \in CPU, current'[c] # current[c]
    PROVE  status[current'[c]] = "ready" \/ current'[c] = Idle(c)
<1>1. ASSUME NEW d \in CPU, Switch(d)
      PROVE  status[current'[c]] = "ready" \/ current'[c] = Idle(c)
  <2>1. d = c /\ current'[c] = next[c] /\ at[c] = "switch"
      BY <1>1 DEF Switch, IInv, TypeOK
  <2>2. QED
      BY <2>1, SMTT(30) DEF IInv, HandInv, Idle
<1>2. ASSUME NEW d \in CPU, ScheduleStep(d), ~Switch(d) PROVE current' = current
    BY <1>2 DEF ScheduleStep, ScheduleCall, Reap, sleep_expire, ExpireWake, ExpireDone, Pick, Steal,
        Repick, Resume
<1>3. ASSUME NEW d \in CPU, OperationStep(d) PROVE current' = current
    BY <1>3 DEF OperationStep, Wake, SleepBlock, SleepArm, WaitAgain, WaitRound, ExitNotify
<1>4. ASSUME NEW d \in CPU, Begin(d) PROVE current' = current
    BY <1>4 DEF Begin, Block, Post, Kill, SleepMark, Fork, WaitPid, WaitRound, Exit
<1>5. QED
    BY <1>1, <1>2, <1>3, <1>4 DEF Next, Tick, Due, vars

\* The inductive invariant holds as long as no two CPUs run one task.
LEMMA Invariance ==
    ASSUME "kill" \notin Ops
    PROVE  Spec /\ []OneCpuPerTask => []IInv
<1>1. IInv /\ OneCpuPerTask /\ [Next]_vars => IInv'
    BY StepInv
<1>2. QED
    BY InitInv, <1>1, PTL DEF Spec

\* The run queues of kernel/multitask.c stay sound lists and hold each task
\* once, READY, where its cpu and priority fields say, for any number of CPUs,
\* levels and tasks.
THEOREM RunQueuesSafe ==
    ASSUME "kill" \notin Ops
    PROVE  Spec /\ []OneCpuPerTask => []RunQueuesSound
BY Invariance, InvRunQueues, PTL

\* schedule(), the wake-ups and exit lose no task that is READY or BLOCKED.
THEOREM NobodyLost ==
    ASSUME "kill" \notin Ops
    PROVE  Spec /\ []OneCpuPerTask => []NobodyForgotten
BY Invariance, InvNobodyForgotten, PTL

\* No CPU, queue, timer or waker refers to a task that task_free_locked freed.
THEOREM FreedIsUnused ==
    ASSUME "kill" \notin Ops
    PROVE  Spec /\ []OneCpuPerTask => []NoUseAfterFree
BY Invariance, InvNoUseAfterFree, PTL

\* No parent is left WAITING for a child that has completed its exit.
THEOREM ExitIsNotMissed ==
    ASSUME "kill" \notin Ops
    PROVE  Spec /\ []OneCpuPerTask => []NoMissedExit
BY Invariance, InvNoMissedExit, PTL

\* A context switch goes to a READY task or to the idle task.
THEOREM SwitchIsSafe ==
    ASSUME "kill" \notin Ops
    PROVE  Spec /\ []OneCpuPerTask => SwitchesToReady
<1>1. IInv /\ [Next]_vars =>
        [\A c \in CPU : current'[c] # current[c] =>
            status[current'[c]] = "ready" \/ current'[c] = Idle(c)]_vars
    BY SwitchOnly
<1>2. QED
    BY Invariance, <1>1, PTL DEF Spec, SwitchesToReady

\* On one CPU no hypothesis on the CPUs is needed: nothing can be stolen.
THEOREM Uniprocessor ==
    ASSUME "kill" \notin Ops, NCPU = 1
    PROVE  Spec => [](RunQueuesSound /\ NobodyForgotten /\ NoUseAfterFree /\ NoMissedExit)
<1>1. OneCpuPerTask
    BY SMTT(30) DEF OneCpuPerTask, CPU
<1>2. QED
    BY <1>1, RunQueuesSafe, NobodyLost, FreedIsUnused, ExitIsNotMissed, PTL

=============================================================================
