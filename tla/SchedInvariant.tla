--------------------------- MODULE SchedInvariant ---------------------------
(***************************************************************************)
(* The inductive invariant of the scheduler, and the steps of schedule()   *)
(* that keep it: reaping, expired sleeps, the pick, stealing, the switch   *)
(* and the end of it, for any number of CPUs, levels and tasks.            *)
(***************************************************************************)
EXTENDS Sched, QueueLemmas

\* A leaf is proved by Zenon unless it names SMT.
USE ZenonT(30)

-----------------------------------------------------------------------------
(* The inductive invariant                                                 *)

\* The run queues R under the fields st, cp and pr: a task is linked once, is
\* READY, and stands in the queue its own fields name.
QueuesOf(R, st, cp, pr) ==
    \A c \in CPU, l \in Level :
        /\ Distinct(R[c][l])
        /\ \A t \in Elements(R[c][l]) :
              t \in Proc /\ st[t] = "ready" /\ cp[t] = c /\ pr[t] = l

InRq(R, t) == \E c \in CPU, l \in Level : t \in Elements(R[c][l])

QueueInv == QueuesOf(rq, status, cpu, priority)

\* What a CPU is about to do with the task it has taken, and with its own.
HandInv ==
    /\ \A c \in CPU :
        /\ current[c] \in Proc \cup {c}
        /\ status[c] = "running" /\ tp[c] = "run"
        /\ at[c] = "steal" => next[c] \in CPU \ {c}
        /\ at[c] = "switch" =>
            /\ next[c] \in Proc \cup {c} /\ next[c] # current[c]
            /\ next[c] \in Proc => status[next[c]] = "ready" /\ ~InRq(rq, next[c])
            /\ \A d \in CPU : at[d] = "switch" /\ next[d] = next[c] => d = c
    /\ \A t \in Proc : status[t] = "ready" =>
        InRq(rq, t) \/ \E c \in CPU : at[c] = "switch" /\ next[c] = t

\* A BLOCKED task has one waker: the wait queue, its timer, the CPU that has
\* taken it from there, or itself on the way into the timer wheel.
WaitqInv ==
    /\ Distinct(waitq)
    /\ \A t \in Elements(waitq) :
        t \in Proc /\ status[t] = "blocked" /\ timer[t] = "off" /\ tp[t] \notin {"mark", "arm"}

WakerInv ==
    \A c \in CPU : at[c] \in {"wake", "expwake"} =>
        /\ next[c] \in Proc /\ status[next[c]] = "blocked" /\ timer[next[c]] = "off"
        /\ next[c] \notin sleeping /\ next[c] \notin Elements(waitq)
        /\ tp[next[c]] \notin {"mark", "arm"}
        /\ \A d \in CPU : at[d] \in {"wake", "expwake"} /\ next[d] = next[c] => d = c

TimerInv ==
    /\ \A t \in Pid : timer[t] # "off" =>
        t \in Proc /\ status[t] = "blocked" /\ tp[t] \notin {"mark", "arm"}
    /\ \A t \in sleeping :
        t \in Proc /\ (status[t] = "blocked" \/ (status[t] = "running" /\ tp[t] = "mark"))
    /\ \A t \in Proc :
        /\ tp[t] = "mark" => t \in sleeping /\ status[t] \in {"running", "blocked"}
        /\ tp[t] = "arm" => status[t] = "blocked"

BlockedInv ==
    \A t \in Proc : status[t] = "blocked" =>
        \/ t \in Elements(waitq) \/ timer[t] # "off" \/ tp[t] \in {"mark", "arm"}
        \/ \E c \in CPU : at[c] \in {"wake", "expwake"} /\ next[c] = t

WakeInv == WaitqInv /\ WakerInv /\ TimerInv /\ BlockedInv

\* A task that starts or continues an operation of its own is RUNNING.
RunsOwn(c) ==
    /\ at[c] \in {"run", "wake"} /\ tp[current[c]] \in {"run", "mark", "wait"}
        => status[current[c]] = "running"
    /\ at[c] = "resume" => status[current[c]] = "running"

RunInv == \A c \in CPU : RunsOwn(c)

\* Only a kernel task is preempted on its way into the timer wheel.
MarkInv ==
    \A t \in Proc \ Kernel : tp[t] \in {"mark", "arm"} =>
        \E c \in CPU : current[c] = t /\ at[c] = "run"

\* Birth, the wait for a child, and the end of a task.
Lifetime(t) ==
    /\ status[t] = "none" => tp[t] = "run" /\ parent[t] = None
    /\ status[t] # "none" => parent[t] \in Pid
    /\ status[t] = "zombie" => tp[t] \in {"exit", "dead"}
    /\ tp[t] \in {"exit", "dead"} => status[t] \in {"zombie", "freed"}
    /\ t \in zombies => status[t] = "zombie" /\ tp[t] = "dead"
    /\ status[t] = "freed" => ~InUse(t)
    /\ tp[t] \in {"waitcall", "wait"} => waiting[t] \in Proc
    /\ status[t] = "waiting" =>
        /\ waiting[t] \in Proc /\ parent[waiting[t]] = t
        /\ status[waiting[t]] # "freed"
        /\ status[waiting[t]] = "zombie" => tp[waiting[t]] = "exit"

EndInv == killed = {} /\ \A t \in Proc : Lifetime(t)

IInv == TypeOK /\ QueueInv /\ HandInv /\ WakeInv /\ RunInv /\ MarkInv /\ EndInv

-----------------------------------------------------------------------------
(* Pids, and the run queues                                                *)

LEMMA Pids ==
    /\ CPU \subseteq Pid /\ Proc \subseteq Pid /\ Pid = CPU \cup Proc
    /\ CPU \cap Proc = {} /\ 0 \in CPU /\ 0 \in Level
    /\ None \notin Pid /\ Root \subseteq Proc
BY SchedAssumption, SMTT(30) DEF CPU, Proc, Pid, Level, None, Root

RqType == [CPU -> [Level -> Seq(Pid)]]

\* Queued, of the model, is membership in a run queue.
LEMMA QueuedIsInRq ==
    ASSUME rq \in RqType, NEW t
    PROVE  Queued(t) <=> InRq(rq, t)
<1>1. ASSUME NEW c \in CPU, NEW l \in Level
      PROVE  Range(rq[c][l]) = Elements(rq[c][l])
  <2>1. rq[c][l] \in Seq(Pid)
      BY DEF RqType
  <2>2. DOMAIN rq[c][l] = 1 .. Len(rq[c][l])
      BY <2>1, SeqLen
  <2>3. QED
      BY <2>2 DEF Range, Elements
<1>2. QED
    BY <1>1 DEF Queued, InRq

\* The queues stay sound when the fields of the queued tasks stay.
LEMMA KeepQueues ==
    ASSUME NEW R, NEW st, NEW cp, NEW pr, NEW st2, NEW cp2, NEW pr2,
           QueuesOf(R, st, cp, pr),
           \A x \in Proc : InRq(R, x) =>
               st2[x] = "ready" /\ cp2[x] = cp[x] /\ pr2[x] = pr[x]
    PROVE  QueuesOf(R, st2, cp2, pr2)
BY SMTT(30) DEF QueuesOf, InRq

\* A queued task is READY, and no other place holds it.
LEMMA QueuedFacts ==
    ASSUME NEW R, NEW st, NEW cp, NEW pr, QueuesOf(R, st, cp, pr), NEW x, InRq(R, x)
    PROVE  x \in Proc /\ st[x] = "ready"
BY SMTT(30) DEF QueuesOf, InRq

LEMMA QueuedIsReady ==
    ASSUME IInv, NEW x, InRq(rq, x)
    PROVE  x \in Proc /\ status[x] = "ready"
BY QueuedFacts DEF IInv, QueueInv

\* rq_enqueue of a task that is not linked.
LEMMA EnqueueQueues ==
    ASSUME rq \in RqType, QueueInv,
           NEW t \in Proc, ~InRq(rq, t), NEW c \in CPU, NEW l \in Level,
           status'[t] = "ready", cpu'[t] = c, priority'[t] = l,
           \A x \in Proc : InRq(rq, x) =>
               status'[x] = "ready" /\ cpu'[x] = cpu[x] /\ priority'[x] = priority[x],
           rq' = rq_enqueue(t, c, l)
    PROVE  /\ rq' \in RqType /\ QueueInv'
           /\ \A x : InRq(rq', x) <=> InRq(rq, x) \/ x = t
<1>1. rq[c][l] \in Seq(Pid) /\ t \in Pid /\ Distinct(rq[c][l]) /\ t \notin Elements(rq[c][l])
    BY Pids, SMTT(30) DEF RqType, QueueInv, QueuesOf, InRq
<1>2. /\ Append(rq[c][l], t) \in Seq(Pid) /\ Distinct(Append(rq[c][l], t))
      /\ Elements(Append(rq[c][l], t)) = Elements(rq[c][l]) \cup {t}
    BY <1>1, AppendQueue, SMTT(30)
<1>3. rq' \in RqType
    BY <1>2 DEF RqType, rq_enqueue
<1>4. ASSUME NEW d \in CPU, NEW m \in Level
      PROVE  rq'[d][m] = IF d = c /\ m = l THEN Append(rq[c][l], t) ELSE rq[d][m]
    BY DEF RqType, rq_enqueue
<1>5. ASSUME NEW d \in CPU, NEW m \in Level
      PROVE  \A x : x \in Elements(rq'[d][m]) <=>
                       x \in Elements(rq[d][m]) \/ (x = t /\ d = c /\ m = l)
  <2>1. CASE d = c /\ m = l
      BY <1>2, <1>4, <2>1, SMTT(30)
  <2>2. CASE ~(d = c /\ m = l)
      BY <1>4, <2>2
  <2>3. QED
      BY <2>1, <2>2
<1>6. \A x : InRq(rq', x) <=> InRq(rq, x) \/ x = t
    BY <1>5, SMTT(30) DEF InRq
<1>7. QueueInv'
  <2> SUFFICES ASSUME NEW d \in CPU, NEW m \in Level
               PROVE  /\ Distinct(rq'[d][m])
                      /\ \A x \in Elements(rq'[d][m]) :
                            x \in Proc /\ status'[x] = "ready" /\ cpu'[x] = d /\ priority'[x] = m
      BY DEF QueueInv, QueuesOf
  <2>1. Distinct(rq'[d][m])
      BY <1>2, <1>4, SMTT(30) DEF QueueInv, QueuesOf
  <2>2. ASSUME NEW x \in Elements(rq[d][m])
        PROVE  x \in Proc /\ status'[x] = "ready" /\ cpu'[x] = d /\ priority'[x] = m
      BY SMTT(30) DEF QueueInv, QueuesOf, InRq
  <2>3. QED
      BY <1>5, <2>1, <2>2, SMTT(30)
<1>8. QED
    BY <1>3, <1>6, <1>7

First(c, l) == Head(rq[c][l])
WithoutFirst(c, l) == [rq EXCEPT ![c][l] = Tail(@)]

\* The first task is taken out of a queue.
LEMMA DequeueQueues ==
    ASSUME rq \in RqType, QueueInv,
           NEW c \in CPU, NEW l \in Level, rq[c][l] # <<>>,
           NEW t, t = First(c, l),
           \A x \in Proc : InRq(rq, x) /\ x # t =>
               status'[x] = "ready" /\ cpu'[x] = cpu[x] /\ priority'[x] = priority[x],
           rq' = WithoutFirst(c, l)
    PROVE  /\ rq' \in RqType /\ QueueInv'
           /\ \A x : InRq(rq', x) <=> InRq(rq, x) /\ x # t
           /\ t \in Proc /\ status[t] = "ready" /\ cpu[t] = c /\ priority[t] = l /\ InRq(rq, t)
<1> USE DEF First, WithoutFirst
<1>1. rq[c][l] \in Seq(Pid) /\ Distinct(rq[c][l])
    BY SMTT(30) DEF RqType, QueueInv, QueuesOf
<1>2. /\ Tail(rq[c][l]) \in Seq(Pid) /\ Distinct(Tail(rq[c][l]))
      /\ Elements(Tail(rq[c][l])) = Elements(rq[c][l]) \ {t} /\ t \in Elements(rq[c][l])
    BY <1>1, TailQueue
<1>3. rq' \in RqType
    BY <1>2 DEF RqType
<1>4. ASSUME NEW d \in CPU, NEW m \in Level
      PROVE  rq'[d][m] = IF d = c /\ m = l THEN Tail(rq[c][l]) ELSE rq[d][m]
    BY DEF RqType
<1>5. t \in Proc /\ status[t] = "ready" /\ cpu[t] = c /\ priority[t] = l /\ InRq(rq, t)
    BY <1>2, SMTT(30) DEF QueueInv, QueuesOf, InRq
<1>6. ASSUME NEW d \in CPU, NEW m \in Level
      PROVE  \A x : x \in Elements(rq'[d][m]) <=> x \in Elements(rq[d][m]) /\ x # t
  <2>1. CASE d = c /\ m = l
      BY <1>2, <1>4, <2>1, SMTT(30)
  <2>2. CASE ~(d = c /\ m = l)
    <3>1. t \notin Elements(rq[d][m])
        BY <1>5, <2>2, SMTT(30) DEF QueueInv, QueuesOf
    <3>2. QED
        BY <1>4, <2>2, <3>1, SMTT(30)
  <2>3. QED
      BY <2>1, <2>2
<1>7. \A x : InRq(rq', x) <=> InRq(rq, x) /\ x # t
    BY <1>6 DEF InRq
<1>8. QueueInv'
  <2> SUFFICES ASSUME NEW d \in CPU, NEW m \in Level
               PROVE  /\ Distinct(rq'[d][m])
                      /\ \A x \in Elements(rq'[d][m]) :
                            x \in Proc /\ status'[x] = "ready" /\ cpu'[x] = d /\ priority'[x] = m
      BY DEF QueueInv, QueuesOf
  <2>1. Distinct(rq'[d][m])
      BY <1>2, <1>4, SMTT(30) DEF QueueInv, QueuesOf
  <2>2. ASSUME NEW x \in Elements(rq[d][m]), x # t
        PROVE  x \in Proc /\ status'[x] = "ready" /\ cpu'[x] = d /\ priority'[x] = m
      BY <2>2, SMTT(30) DEF QueueInv, QueuesOf, InRq
  <2>3. QED
      BY <1>6, <2>1, <2>2
<1>9. QED
    BY <1>3, <1>5, <1>7, <1>8

Moved(t, v, c, l) == [rq EXCEPT ![v][l] = Tail(@), ![c][priority[t]] = Append(@, t)]

\* The task moves to the queue of the thief, at the level its field names.
LEMMA StealQueues ==
    ASSUME rq \in RqType, QueueInv, cpu \in [Pid -> CPU],
           NEW v \in CPU, NEW c \in CPU, v # c, NEW l \in Level, rq[v][l] # <<>>,
           NEW t, t = First(v, l), status' = status, priority' = priority,
           cpu' = [cpu EXCEPT ![t] = c],
           rq' = Moved(t, v, c, l)
    PROVE  /\ rq' \in RqType /\ QueueInv'
           /\ \A x : InRq(rq', x) <=> InRq(rq, x)
           /\ t \in Proc
<1>1. rq[v][l] \in Seq(Pid) /\ Distinct(rq[v][l]) /\ rq[c][l] \in Seq(Pid) /\ Distinct(rq[c][l])
    BY SMTT(30) DEF RqType, QueueInv, QueuesOf
<1>2. /\ Tail(rq[v][l]) \in Seq(Pid) /\ Distinct(Tail(rq[v][l]))
      /\ Elements(Tail(rq[v][l])) = Elements(rq[v][l]) \ {t} /\ t \in Elements(rq[v][l])
    BY <1>1, TailQueue DEF First
<1>3. t \in Proc /\ t \in Pid /\ status[t] = "ready" /\ cpu[t] = v /\ priority[t] = l
    BY <1>2, Pids, SMTT(30) DEF QueueInv, QueuesOf
<1>4. t \notin Elements(rq[c][l])
    BY <1>3, SMTT(30) DEF QueueInv, QueuesOf
<1>5. /\ Append(rq[c][l], t) \in Seq(Pid) /\ Distinct(Append(rq[c][l], t))
      /\ Elements(Append(rq[c][l], t)) = Elements(rq[c][l]) \cup {t}
    BY <1>1, <1>3, <1>4, AppendQueue, SMTT(30)
<1> DEFINE R == [rq EXCEPT ![v][l] = Tail(@)]
<1>6. /\ R \in RqType /\ R[c][l] = rq[c][l]
      /\ \A d \in CPU, m \in Level :
            R[d][m] = IF d = v /\ m = l THEN Tail(rq[v][l]) ELSE rq[d][m]
    BY <1>2 DEF RqType
<1>7. rq' = [R EXCEPT ![c][l] = Append(@, t)]
    BY <1>3 DEF Moved
<1> HIDE DEF R
<1>8. ASSUME NEW d \in CPU, NEW m \in Level
      PROVE  rq'[d][m] = IF d = c /\ m = l THEN Append(rq[c][l], t)
                         ELSE IF d = v /\ m = l THEN Tail(rq[v][l]) ELSE rq[d][m]
  <2>1. rq'[d][m] = IF d = c /\ m = l THEN Append(R[c][l], t) ELSE R[d][m]
    <3>1. R \in [CPU -> [Level -> Seq(Pid)]] /\ R[c] \in [Level -> Seq(Pid)]
        BY <1>6 DEF RqType
    <3>2. rq' = [R EXCEPT ![c] = [R[c] EXCEPT ![l] = Append(R[c][l], t)]]
        BY <1>7
    <3>3. rq'[d] = IF d = c THEN [R[c] EXCEPT ![l] = Append(R[c][l], t)] ELSE R[d]
        BY <3>1, <3>2
    <3>4. QED
        BY <3>1, <3>3
  <2>2. QED
      BY <1>6, <2>1
<1>9. rq' \in RqType
    BY <1>5, <1>6, <1>7, SMTT(30) DEF RqType
<1>10. ASSUME NEW d \in CPU, NEW m \in Level
      PROVE  \A x : x \in Elements(rq'[d][m]) <=>
                 \/ x \in Elements(rq[d][m]) /\ x # t
                 \/ x = t /\ d = c /\ m = l
  <2>1. CASE d = c /\ m = l
      BY <1>4, <1>5, <1>8, <2>1
  <2>2. CASE d = v /\ m = l
      BY <1>2, <1>8, <2>2
  <2>3. CASE m # l \/ (d # c /\ d # v)
    <3>1. t \notin Elements(rq[d][m])
        BY <1>3, <2>3, SMTT(30) DEF QueueInv, QueuesOf
    <3>2. QED
        BY <1>8, <2>3, <3>1
  <2>4. QED
      BY <2>1, <2>2, <2>3
<1>11. \A x : InRq(rq', x) <=> InRq(rq, x)
  <2>1. InRq(rq, t)
      BY <1>2 DEF InRq
  <2>2. t \in Elements(rq'[c][l])
      BY <1>10
  <2>3. ASSUME NEW x, x # t PROVE InRq(rq', x) <=> InRq(rq, x)
      BY <1>10, <2>3 DEF InRq
  <2>4. InRq(rq', t)
      BY <2>2 DEF InRq
  <2>5. QED
      BY <2>1, <2>3, <2>4
<1>12. QueueInv'
  <2> SUFFICES ASSUME NEW d \in CPU, NEW m \in Level
               PROVE  /\ Distinct(rq'[d][m])
                      /\ \A x \in Elements(rq'[d][m]) :
                            x \in Proc /\ status'[x] = "ready" /\ cpu'[x] = d /\ priority'[x] = m
      BY DEF QueueInv, QueuesOf
  <2>1. Distinct(rq'[d][m])
      BY <1>2, <1>5, <1>8, SMTT(30) DEF QueueInv, QueuesOf
  <2>2. ASSUME NEW x \in Elements(rq[d][m]), x # t
        PROVE  x \in Proc /\ status'[x] = "ready" /\ cpu'[x] = d /\ priority'[x] = m
      BY <2>2, Pids, SMTT(30) DEF QueueInv, QueuesOf
  <2>3. status'[t] = "ready" /\ cpu'[t] = c /\ priority'[t] = l
      BY <1>3
  <2>4. QED
      BY <1>3, <1>10, <2>1, <2>2, <2>3, SMTT(30)
<1>13. QED
    BY <1>3, <1>9, <1>11, <1>12

\* Unlinking tasks that are not linked changes nothing.
LEMMA RemoveNothing ==
    ASSUME rq \in RqType, NEW S, \A x \in S : ~InRq(rq, x)
    PROVE  rq_remove(S) = rq
<1>1. ASSUME NEW c \in CPU, NEW l \in Level
      PROVE  Unlink(rq[c][l], S) = rq[c][l]
  <2>1. rq[c][l] \in Seq(Pid)
      BY DEF RqType
  <2>2. Range(rq[c][l]) = Elements(rq[c][l])
      BY <2>1, SeqLen DEF Range, Elements
  <2>3. Range(rq[c][l]) \cap S = {}
      BY <2>2 DEF InRq
  <2>4. QED
      BY <2>3 DEF Unlink
<1>2. QED
    BY <1>1 DEF rq_remove, RqType


-----------------------------------------------------------------------------
(* The initial state                                                       *)

LEMMA BootQueue ==
    LET q == [i \in 1 .. Boot |-> NCPU + i - 1] IN
    q \in Seq(Pid) /\ Distinct(q) /\ Elements(q) = Root
<1> DEFINE q == [i \in 1 .. Boot |-> NCPU + i - 1]
<1>1. \A i \in 1 .. Boot : q[i] \in Pid
    BY SchedAssumption, SMTT(30) DEF Pid
<1>2. q \in Seq(Pid) /\ Len(q) = Boot
    BY <1>1, SchedAssumption, SMTT(30)
<1>3. Distinct(q)
    BY <1>2, SchedAssumption, SMTT(30) DEF Distinct
<1>4. Elements(q) \subseteq Root
    BY <1>2, SchedAssumption, SMTT(30) DEF Elements, Root
<1>5. ASSUME NEW t \in Root PROVE t \in Elements(q)
  <2>1. t - NCPU + 1 \in 1 .. Boot /\ q[t - NCPU + 1] = t
      BY SchedAssumption, SMTT(30) DEF Root
  <2>2. QED
      BY <1>2, <2>1 DEF Elements
<1>6. QED
    BY <1>2, <1>3, <1>4, <1>5

LEMMA InitInv == Init => IInv
<1> SUFFICES ASSUME Init PROVE IInv
    OBVIOUS
<1> DEFINE q == [i \in 1 .. Boot |-> NCPU + i - 1]
<1>1. q \in Seq(Pid) /\ Distinct(q) /\ Elements(q) = Root
    BY BootQueue
<1>2. <<>> \in Seq(Pid) /\ <<>> \in Seq(Proc) /\ Distinct(<<>>) /\ Elements(<<>>) = {}
    BY EmptyQueue
<1> HIDE DEF q
<1>3. rq = [c \in CPU |-> [l \in Level |-> IF c = 0 /\ l = 0 THEN q ELSE <<>>]]
    BY DEF Init, q
<1>4. TypeOK
  <2>1. rq \in [CPU -> [Level -> Seq(Pid)]]
    <3> DEFINE at0(c, l) == IF c = 0 /\ l = 0 THEN q ELSE <<>>
    <3>1. \A c \in CPU, l \in Level : at0(c, l) \in Seq(Pid)
        BY <1>1, <1>2
    <3>2. rq = [c \in CPU |-> [l \in Level |-> at0(c, l)]]
        BY <1>3
    <3> HIDE DEF at0
    <3>3. QED
        BY <3>1, <3>2
  <2>2. waitq \in Seq(Proc)
      BY <1>2 DEF Init
  <2>3. QED
      BY <2>1, <2>2, Pids DEF Init, TypeOK, Idle
<1>5. QueueInv
  <2> SUFFICES ASSUME NEW c \in CPU, NEW l \in Level
               PROVE  /\ Distinct(rq[c][l])
                      /\ \A t \in Elements(rq[c][l]) : t \in Proc /\ status[t] = "ready"
                                                        /\ cpu[t] = c /\ priority[t] = l
      BY DEF QueueInv, QueuesOf
  <2>1. rq[c][l] = IF c = 0 /\ l = 0 THEN q ELSE <<>>
      BY <1>3
  <2>2. CASE c = 0 /\ l = 0
      BY <1>1, <2>1, <2>2, Pids DEF Init
  <2>3. CASE ~(c = 0 /\ l = 0)
      BY <1>2, <2>1, <2>3
  <2>4. QED
      BY <2>2, <2>3
<1>6. \A t \in Root : InRq(rq, t)
    BY <1>1, <1>3, Pids DEF InRq
<1>7. HandInv
    BY <1>6, Pids DEF Init, HandInv, Idle
<1>8. WakeInv
    BY <1>2, Pids DEF Init, WakeInv, WaitqInv, WakerInv, TimerInv, BlockedInv
<1>9. RunInv
    BY Pids DEF Init, RunInv, RunsOwn, Idle
<1>10. MarkInv
    BY Pids DEF Init, MarkInv
<1>11. EndInv
    BY Pids DEF Init, EndInv, Lifetime, InUse, Idle
<1>12. QED
    BY <1>4, <1>5, <1>7, <1>8, <1>9, <1>10, <1>11 DEF IInv

-----------------------------------------------------------------------------
(* What a step must leave alone, for each part of the invariant            *)

\* A task that becomes READY is queued; no CPU takes or drops one.
LEMMA KeepHand ==
    ASSUME HandInv, UNCHANGED current,
           \A x \in CPU : status'[x] = status[x] /\ tp'[x] = tp[x],
           \A d \in CPU :
               \/ at'[d] = at[d] /\ next'[d] = next[d]
               \/ /\ at[d] # "switch" /\ at'[d] # "switch"
                  /\ at'[d] = "steal" => next'[d] \in CPU \ {d},
           \A x \in Proc :
               \/ /\ status'[x] = "ready" <=> status[x] = "ready"
                  /\ InRq(rq', x) <=> InRq(rq, x)
               \/ status[x] # "ready" /\ status'[x] = "ready" /\ InRq(rq', x)
    PROVE  HandInv'
BY SMTT(30) DEF HandInv

\* A task that changes is not, and does not become, BLOCKED; no CPU takes or
\* drops a task that it wakes.
LEMMA KeepWake ==
    ASSUME WakeInv, UNCHANGED <<sleeping, waitq>>,
           \A x \in Pid : timer'[x] = "off" <=> timer[x] = "off",
           \A x \in Pid :
               /\ \/ status'[x] = status[x]
                  \/ /\ status[x] # "blocked" /\ status'[x] # "blocked"
                     /\ tp[x] \notin {"mark", "arm"}
               /\ \/ tp'[x] = tp[x]
                  \/ tp[x] \notin {"mark", "arm"} /\ tp'[x] \notin {"mark", "arm"},
           \A d \in CPU :
               \/ at'[d] = at[d] /\ next'[d] = next[d]
               \/ at[d] \notin {"wake", "expwake"} /\ at'[d] \notin {"wake", "expwake"}
    PROVE  WakeInv'
<1> USE DEF WakeInv
<1>1. WaitqInv'
    BY Pids, SMTT(30) DEF WaitqInv
<1>2. WakerInv'
    BY Pids, SMTT(30) DEF WakerInv
<1>3. TimerInv'
    BY Pids, SMTT(30) DEF TimerInv
<1>4. BlockedInv'
    BY Pids, SMTT(30) DEF BlockedInv
<1>5. QED
    BY <1>1, <1>2, <1>3, <1>4

LEMMA KeepRun ==
    ASSUME RunInv,
           \A d \in CPU :
               \/ RunsOwn(d)'
               \/ /\ at'[d] = at[d] /\ current'[d] = current[d]
                  /\ status[current[d]] = "running" => status'[current[d]] = "running"
                  /\ tp'[current[d]] = tp[current[d]]
    PROVE  RunInv'
BY SMTT(30) DEF RunInv, RunsOwn

LEMMA KeepMark ==
    ASSUME MarkInv,
           \A x \in Proc : tp'[x] \in {"mark", "arm"} => tp[x] \in {"mark", "arm"},
           \A d \in CPU :
               \/ current'[d] = current[d] /\ at'[d] = at[d]
               \/ at[d] # "run" \/ current[d] \in Kernel
               \/ tp'[current[d]] \notin {"mark", "arm"}
    PROVE  MarkInv'
BY SMTT(30) DEF MarkInv

\* A task is in use as long as a CPU runs or leaves it.
LEMMA KeepUse ==
    ASSUME UNCHANGED <<current, prev>>, NEW x
    PROVE  InUse(x)' <=> InUse(x)
BY DEF InUse

\* A task begins, waits or ends; who waits for it may go on waiting.
LEMMA KeepEnd ==
    ASSUME EndInv, UNCHANGED killed,
           \A x \in Proc :
               \/ /\ status'[x] = status[x] /\ tp'[x] = tp[x]
                  /\ parent'[x] = parent[x] /\ waiting'[x] = waiting[x]
                  /\ x \in zombies' => x \in zombies
                  /\ status[x] = "freed" /\ InUse(x)' => InUse(x)
               \/ /\ Lifetime(x)'
                  /\ \A y \in Proc :
                      status[y] = "waiting" /\ status'[y] = "waiting" /\ waiting[y] = x =>
                          /\ parent'[x] = parent[x] /\ status'[x] # "freed"
                          /\ status'[x] = "zombie" => tp'[x] = "exit"
    PROVE  EndInv'
<1>1. ASSUME NEW x \in Proc PROVE Lifetime(x)'
    BY SMTT(30) DEF EndInv, Lifetime
<1>2. QED
    BY <1>1 DEF EndInv

\* The birth, wait and end of a task that stays alive and does not wait.
LEMMA StaysAlive ==
    ASSUME EndInv, NEW t \in Proc, UNCHANGED <<parent, waiting, zombies>>,
           status[t] \in {"ready", "running", "blocked"},
           status'[t] \in {"ready", "running", "blocked"},
           \/ tp'[t] = tp[t] \/ tp'[t] \in {"run", "block", "mark", "arm"}
           \/ tp[t] = "waitcall" /\ tp'[t] = "wait"
    PROVE  Lifetime(t)'
BY SMTT(30) DEF EndInv, Lifetime

-----------------------------------------------------------------------------
(* schedule()                                                              *)

\* What Deactivate does to the task that is left.
LEMMA DeactivateFacts ==
    ASSUME IInv, NEW c \in CPU, NEW used \in BOOLEAN, Deactivate(c, used), cpu' = cpu
    PROVE  LET t == current[c] IN
           /\ at' = [at EXCEPT ![c] = "reap"]
           /\ rq' \in RqType /\ priority' \in [Pid -> Level] /\ QueueInv'
           /\ \/ UNCHANGED <<status, rq>> /\ (status[t] # "running" \/ t = c)
              \/ /\ status[t] = "running" /\ t \in Proc /\ t \in sleeping
                 /\ status' = [status EXCEPT ![t] = "blocked"] /\ UNCHANGED rq
              \/ /\ status[t] = "running" /\ t \in Proc /\ t \notin sleeping
                 /\ status' = [status EXCEPT ![t] = "ready"]
                 /\ \A x : InRq(rq', x) <=> InRq(rq, x) \/ x = t
<1> DEFINE t == current[c]
           demoted == IF used /\ priority[t] < Levels - 1 THEN priority[t] + 1
                      ELSE priority[t]
<1> USE DEF IInv
<1>1. t \in Proc \cup {c} /\ t \in Pid /\ rq \in RqType
    BY Pids DEF HandInv, TypeOK, RqType
<1>2. \A x : InRq(rq, x) => x \in Proc /\ status[x] = "ready"
    BY QueuedIsReady
<1>3. at' = [at EXCEPT ![c] = "reap"]
    BY DEF Deactivate, Goto
<1>4. CASE status[t] # "running" \/ t = c
  <2>1. UNCHANGED <<status, priority, rq>>
      BY <1>4 DEF Deactivate, Idle
  <2>2. QED
      BY <1>1, <1>3, <1>4, <2>1 DEF TypeOK, QueueInv
<1>5. CASE status[t] = "running" /\ t # c /\ t \in sleeping
  <2>1. /\ status' = [status EXCEPT ![t] = "blocked"] /\ rq' = rq_remove({t})
        /\ priority' = priority
      BY <1>5 DEF Deactivate, Idle, SetInactive, SetStatus
  <2>2. rq' = rq
      BY <1>1, <1>2, <1>5, <2>1, RemoveNothing
  <2>3. \A x \in Proc : InRq(rq, x) => status'[x] = "ready"
      BY <1>1, <1>2, <1>5, <2>1, Pids DEF TypeOK
  <2>4. QueuesOf(rq, status', cpu, priority)
      BY <2>3, KeepQueues DEF QueueInv
  <2>5. QED
      BY <1>1, <1>3, <1>5, <2>1, <2>2, <2>4, SMTT(30) DEF TypeOK, QueueInv
<1>6. CASE status[t] = "running" /\ t # c /\ t \notin sleeping
  <2>1. /\ status' = [status EXCEPT ![t] = "ready"]
        /\ priority' = [priority EXCEPT ![t] = demoted]
        /\ rq' = rq_enqueue(t, cpu[t], demoted)
      BY <1>6 DEF Deactivate, Idle, SetStatus
  <2>2. demoted \in Level /\ cpu[t] \in CPU
    <3>1. priority[t] \in Level /\ cpu[t] \in CPU
        BY <1>1 DEF TypeOK
    <3>2. QED
        BY <3>1, SchedAssumption, SMTT(30) DEF Level
  <2>3. priority' \in [Pid -> Level] /\ priority'[t] = demoted /\ status'[t] = "ready"
      BY <1>1, <2>1, <2>2 DEF TypeOK
  <2>4. \A x \in Proc : InRq(rq, x) => status'[x] = "ready" /\ priority'[x] = priority[x]
      BY <1>1, <1>2, <1>6, <2>1, Pids DEF TypeOK
  <2>5. ~InRq(rq, t) /\ t \in Proc
      BY <1>1, <1>2, <1>6
  <2> HIDE DEF t, demoted
  <2>6. /\ rq' \in RqType /\ QueueInv'
        /\ \A x : InRq(rq', x) <=> InRq(rq, x) \/ x = t
      BY <1>1, <2>1, <2>2, <2>3, <2>4, <2>5, EnqueueQueues
  <2> USE DEF t
  <2>7. QED
      BY <1>3, <1>6, <2>1, <2>3, <2>5, <2>6 DEF QueueInv
<1>7. QED
    BY <1>4, <1>5, <1>6

\* Two CPUs run two tasks.
LEMMA OwnTask ==
    ASSUME OneCpuPerTask, NEW c \in CPU, NEW d \in CPU, c # d
    PROVE  current[c] # current[d]
BY DEF OneCpuPerTask, Uses

\* The queues are kept when they and the fields of their tasks are.
LEMMA SameQueues ==
    ASSUME IInv, rq' = rq, cpu' = cpu, priority' = priority,
           \A x \in Proc : status[x] = "ready" => status'[x] = "ready"
    PROVE  rq' \in RqType /\ QueueInv'
<1>1. \A x \in Proc : InRq(rq, x) => status'[x] = "ready"
    BY QueuedIsReady
<1>2. QueuesOf(rq, status', cpu, priority)
    BY <1>1, KeepQueues DEF IInv, QueueInv
<1>3. QED
    BY <1>2 DEF IInv, TypeOK, QueueInv, RqType

LEMMA DueStep ==
    ASSUME IInv, NEW t \in Proc, Due(t)
    PROVE  IInv'
<1> USE DEF IInv
<1>1. /\ timer[t] = "armed" /\ timer'[t] = "due"
      /\ \A x \in Pid : x # t => timer'[x] = timer[x]
      /\ UNCHANGED <<status, sleeping, cpu, priority, rq, current, prev, next,
                     at, tp, parent, waiting, zombies, waitq, killed, fresh>>
    BY Pids DEF Due, TypeOK
<1>2. TypeOK'
    BY <1>1 DEF Due, TypeOK
<1>3. QueueInv'
    BY <1>1, SameQueues
<1>4. HandInv'
    BY <1>1, KeepHand
<1>5. WakeInv'
    BY <1>1, KeepWake
<1>6. RunInv' /\ MarkInv'
    BY <1>1, KeepRun, KeepMark
<1>7. EndInv'
    BY <1>1, KeepEnd, KeepUse
<1>8. QED
    BY <1>2, <1>3, <1>4, <1>5, <1>6, <1>7

LEMMA ExpireDoneStep ==
    ASSUME IInv, NEW c \in CPU, ExpireDone(c)
    PROVE  IInv'
<1> USE DEF IInv
<1>1. /\ at[c] = "expire" /\ at'[c] = "pick" /\ \A d \in CPU : d # c => at'[d] = at[d]
      /\ UNCHANGED <<status, sleeping, timer, cpu, priority, rq, current, prev, next,
                     tp, parent, waiting, zombies, waitq, killed, fresh>>
    BY DEF ExpireDone, Goto, taskVars, TypeOK
<1>2. TypeOK'
    BY <1>1 DEF ExpireDone, Goto, TypeOK
<1>3. QueueInv'
    BY <1>1, SameQueues
<1>4. HandInv'
    BY <1>1, KeepHand
<1>5. WakeInv'
    BY <1>1, KeepWake
<1>6. RunInv' /\ MarkInv'
  <2>1. RunsOwn(c)'
      BY <1>1 DEF RunsOwn
  <2>2. QED
      BY <1>1, <2>1, KeepRun, KeepMark
<1>7. EndInv'
    BY <1>1, KeepEnd, KeepUse
<1>8. QED
    BY <1>2, <1>3, <1>4, <1>5, <1>6, <1>7

LEMMA ResumeStep ==
    ASSUME IInv, NEW c \in CPU, Resume(c)
    PROVE  IInv'
<1> USE DEF IInv
<1>1. /\ at[c] = "resume" /\ at'[c] = "run" /\ \A d \in CPU : d # c => at'[d] = at[d]
      /\ \A d \in CPU : prev'[d] \in {prev[d], None}
      /\ UNCHANGED <<status, sleeping, timer, cpu, priority, rq, current, next,
                     tp, parent, waiting, zombies, waitq, killed>>
    BY DEF Resume, Goto, taskVars, TypeOK
<1>2. TypeOK'
    BY <1>1 DEF Resume, Goto, TypeOK
<1>3. QueueInv'
    BY <1>1, SameQueues
<1>4. HandInv'
    BY <1>1, KeepHand
<1>5. WakeInv'
    BY <1>1, KeepWake
<1>6. RunInv' /\ MarkInv'
  <2>1. RunsOwn(c)'
      BY <1>1 DEF RunInv, RunsOwn
  <2>2. QED
      BY <1>1, <2>1, KeepRun, KeepMark
<1>7. EndInv'
  <2>1. \A x \in Proc : InUse(x)' => InUse(x)
      BY <1>1, Pids DEF InUse
  <2>2. QED
      BY <1>1, <2>1, KeepEnd
<1>8. QED
    BY <1>2, <1>3, <1>4, <1>5, <1>6, <1>7

LEMMA SwitchStep ==
    ASSUME IInv, NEW c \in CPU, Switch(c)
    PROVE  IInv'
<1> USE DEF IInv
<1>1. /\ next[c] \in Proc \cup {c} /\ next[c] \in Pid
      /\ next[c] \in Proc => status[next[c]] = "ready" /\ ~InRq(rq, next[c])
      /\ next[c] = c => status[next[c]] = "running"
    BY Pids, SMTT(30) DEF Switch, HandInv
<1>2. /\ at[c] = "switch" /\ at'[c] = "resume" /\ \A d \in CPU : d # c => at'[d] = at[d]
      /\ current'[c] = next[c] /\ prev'[c] = current[c] /\ next'[c] = None
      /\ \A d \in CPU : d # c => current'[d] = current[d] /\ prev'[d] = prev[d]
                                 /\ next'[d] = next[d]
      /\ status'[next[c]] = "running" /\ \A x \in Pid : x # next[c] => status'[x] = status[x]
      /\ UNCHANGED <<sleeping, timer, cpu, priority, rq, tp, parent, waiting, zombies, waitq,
                     killed, fresh>>
    BY <1>1, SMTT(30) DEF Switch, Goto, SetStatus, taskVars, TypeOK
<1>3. TypeOK'
    BY <1>1, <1>2 DEF Switch, Goto, SetStatus, TypeOK
<1>4. QueueInv'
  <2>1. \A x \in Proc : InRq(rq, x) => status'[x] = "ready"
      BY <1>1, <1>2, QueuedIsReady, Pids
  <2>2. QED
      BY <1>2, <2>1, KeepQueues, SMTT(30) DEF QueueInv
<1>5. HandInv'
  <2>1. /\ at[c] = "switch" /\ at'[c] = "resume" /\ \A d \in CPU : d # c => at'[d] = at[d]
        /\ current'[c] = next[c]
        /\ \A d \in CPU : d # c => current'[d] = current[d] /\ next'[d] = next[d]
        /\ status'[next[c]] = "running"
        /\ \A x \in Pid : x # next[c] => status'[x] = status[x]
        /\ UNCHANGED <<rq, tp>>
      BY <1>2
  <2>2. QED
      BY <1>1, <2>1, Pids, SMTT(30) DEF HandInv
<1>6. \A x \in Pid : status'[x] = status[x] \/ (status[x] = "ready" /\ status'[x] = "running")
    BY <1>1, <1>2, Pids
<1>7. WakeInv'
  <2>1. \A x \in Pid : status[x] = "ready" => tp[x] \notin {"mark", "arm"}
      BY Pids DEF WakeInv, TimerInv, HandInv
  <2>2. QED
      BY <1>2, <1>6, <2>1, KeepWake
<1>8. RunInv' /\ MarkInv'
  <2>1. RunsOwn(c)'
      BY <1>2 DEF RunsOwn
  <2>2. \A d \in CPU : status[current[d]] = "running" => status'[current[d]] = "running"
      BY <1>6 DEF TypeOK
  <2>3. QED
      BY <1>2, <2>1, <2>2, KeepRun, KeepMark
<1>9. EndInv'
  <2>1. PICK n : n = next[c]
      OBVIOUS
  <2>2. \A x \in Proc : x # n => (InUse(x)' => InUse(x))
      BY <1>2, <2>1 DEF InUse
  <2>3. n \in Proc => Lifetime(n)'
    <3>1. UNCHANGED <<tp, parent, waiting, zombies>>
        BY <1>2
    <3>2. n \in Proc => status[n] = "ready" /\ status'[n] = "running"
        BY <1>1, <1>2, <2>1
    <3>3. QED
        BY <3>1, <3>2, StaysAlive
  <2>4. \A x \in Proc : x # n => status'[x] = status[x]
      BY <1>2, <2>1, Pids
  <2>5. n \in Proc => status'[n] = "running"
      BY <1>2, <2>1
  <2>6. QED
      BY <1>2, <2>2, <2>3, <2>4, <2>5, KeepEnd
<1>10. QED
    BY <1>3, <1>4, <1>5, <1>7, <1>8, <1>9

\* schedule() leaves a task that is on its way into the timer wheel.
LEMMA KeepSleeper ==
    ASSUME WakeInv, UNCHANGED <<sleeping, timer, waitq, tp>>, NEW t \in Proc,
           status[t] = "running", status'[t] = "blocked", tp[t] = "mark",
           \A x \in Pid : x # t => status'[x] = status[x],
           \A d \in CPU :
               \/ at'[d] = at[d] /\ next'[d] = next[d]
               \/ at[d] \notin {"wake", "expwake"} /\ at'[d] \notin {"wake", "expwake"}
    PROVE  WakeInv'
<1> USE DEF WakeInv
<1>1. WaitqInv' /\ WakerInv'
    BY Pids, SMTT(30) DEF WaitqInv, WakerInv
<1>2. TimerInv' /\ BlockedInv'
    BY Pids, SMTT(30) DEF TimerInv, BlockedInv
<1>3. QED
    BY <1>1, <1>2

\* schedule() up to the reaping, by a timer interrupt or by the task's own call.
LEMMA DeactivateStep ==
    ASSUME IInv, OneCpuPerTask, NEW c \in CPU, NEW used \in BOOLEAN, Deactivate(c, used),
           at[c] = "run", NEW l, tp' = [tp EXCEPT ![current[c]] = l],
           \/ l = tp[current[c]] /\ (current[c] \in Kernel \/ l = "run")
           \/ tp[current[c]] = "block" /\ l = "run"
           \/ tp[current[c]] = "waitcall" /\ l = "wait"
           \/ tp[current[c]] = "dead" /\ l = "dead",
           UNCHANGED <<taskVars, cpu, current, prev, next, fresh>>
    PROVE  IInv'
<1> USE DEF IInv
<1>0. PICK t : t = current[c]
    OBVIOUS
<1>1. t \in Proc \cup {c} /\ t \in Pid /\ \A d \in CPU : d # c => current[d] # t
  <2>1. t \in Proc \cup {c}
      BY <1>0 DEF HandInv
  <2>2. \A d \in CPU : d # c => current[d] # t
      BY <1>0, OwnTask
  <2>3. QED
      BY <2>1, <2>2, Pids
<1>2. /\ at' = [at EXCEPT ![c] = "reap"]
      /\ rq' \in RqType /\ priority' \in [Pid -> Level] /\ QueueInv'
      /\ \/ UNCHANGED <<status, rq>> /\ (status[t] # "running" \/ t = c)
         \/ /\ status[t] = "running" /\ t \in Proc /\ t \in sleeping
            /\ status' = [status EXCEPT ![t] = "blocked"] /\ UNCHANGED rq
         \/ /\ status[t] = "running" /\ t \in Proc /\ t \notin sleeping
            /\ status' = [status EXCEPT ![t] = "ready"]
            /\ \A x : InRq(rq', x) <=> InRq(rq, x) \/ x = t
    BY <1>0, DeactivateFacts
<1>3. /\ at'[c] = "reap" /\ \A d \in CPU : d # c => at'[d] = at[d]
      /\ tp'[t] = l /\ \A x \in Pid : x # t => tp'[x] = tp[x]
      /\ \/ UNCHANGED <<status, rq>> /\ (status[t] # "running" \/ t = c)
         \/ /\ status[t] = "running" /\ t \in Proc /\ t \in sleeping
            /\ status'[t] = "blocked" /\ \A x \in Pid : x # t => status'[x] = status[x]
            /\ rq' = rq
         \/ /\ status[t] = "running" /\ t \in Proc /\ t \notin sleeping
            /\ status'[t] = "ready" /\ \A x \in Pid : x # t => status'[x] = status[x]
            /\ \A x : InRq(rq', x) <=> InRq(rq, x) \/ x = t
      /\ UNCHANGED <<sleeping, timer, parent, waiting, zombies, waitq, killed, cpu, current,
                     prev, next, fresh>>
  <2>1. /\ at'[c] = "reap" /\ \A d \in CPU : d # c => at'[d] = at[d]
        /\ tp'[t] = l /\ \A x \in Pid : x # t => tp'[x] = tp[x]
      BY <1>0, <1>1, <1>2 DEF TypeOK
  <2>2. \A w : status' = [status EXCEPT ![t] = w] =>
               status'[t] = w /\ \A x \in Pid : x # t => status'[x] = status[x]
      BY <1>1 DEF TypeOK
  <2>3. UNCHANGED <<sleeping, timer, parent, waiting, zombies, waitq, killed, cpu, current,
                    prev, next, fresh>>
      BY DEF taskVars
  <2>4. QED
      BY <1>2, <2>1, <2>2, <2>3
<1>4. TypeOK'
  <2>1. status' \in [Pid -> {"none", "ready", "running", "blocked", "waiting",
                             "zombie", "freed"}]
    <3>1. status \in [Pid -> {"none", "ready", "running", "blocked", "waiting",
                              "zombie", "freed"}]
        BY DEF TypeOK
    <3>2. \/ status' = status \/ status' = [status EXCEPT ![t] = "blocked"]
          \/ status' = [status EXCEPT ![t] = "ready"]
        BY <1>2
    <3>3. QED
        BY <1>1, <3>1, <3>2
  <2>2. tp' \in [Pid -> {"run", "block", "mark", "arm", "waitcall", "wait", "exit", "dead"}]
      BY <1>0, <1>1 DEF TypeOK
  <2>3. at' \in [CPU -> {"run", "reap", "expire", "expwake", "pick", "steal", "repick",
                         "switch", "resume", "wake"}]
      BY <1>2 DEF TypeOK
  <2>4. rq' \in [CPU -> [Level -> Seq(Pid)]] /\ priority' \in [Pid -> Level]
      BY <1>2 DEF RqType
  <2>5. UNCHANGED <<sleeping, killed, zombies, fresh, timer, cpu, waitq, current, prev, next, parent, waiting>>
      BY <1>3
  <2>6. TypeOK
      OBVIOUS
  <2>7. QED
      BY ONLY <2>1, <2>2, <2>3, <2>4, <2>5, <2>6, ZenonT(30) DEF TypeOK
<1>5. HandInv'
  <2>1. ~InRq(rq, t) \/ status[t] = "ready"
      BY QueuedIsReady
  <2>2. t \in CPU => l = "run" /\ tp[t] = "run" /\ t \notin Proc
      BY <1>0, <1>1, Pids DEF HandInv
  <2>3. \A x \in CPU : status'[x] = status[x] /\ tp'[x] = tp[x]
      BY <1>3, <2>2, Pids
  <2>4. \A x \in Proc :
            \/ /\ status'[x] = "ready" <=> status[x] = "ready"
               /\ InRq(rq', x) <=> InRq(rq, x)
            \/ status[x] # "ready" /\ status'[x] = "ready" /\ InRq(rq', x)
      BY <1>3, <2>1, Pids
  <2>5. QED
      BY <1>3, <2>3, <2>4, KeepHand
<1>6. WakeInv'
  <2>1. status[t] = "running" /\ t \in Proc =>
            tp[t] # "arm" /\ (tp[t] = "mark" <=> t \in sleeping)
      BY DEF WakeInv, TimerInv
  <2>2. l = tp[t] \/ (tp[t] \notin {"mark", "arm"} /\ l \notin {"mark", "arm"})
      BY <1>0
  <2>3. CASE t \in sleeping /\ status[t] = "running" /\ t \in Proc
    <3>0. t # c
        BY <2>3, Pids
    <3>1. tp[t] = "mark" /\ l = "mark" /\ status'[t] = "blocked" /\ t \in Proc
        BY <1>3, <2>1, <2>2, <2>3, <3>0
    <3>2. tp' = tp
        BY <1>0, <1>1, <3>1, <2>2 DEF TypeOK
    <3>3. \A d \in CPU :
              \/ at'[d] = at[d] /\ next'[d] = next[d]
              \/ at[d] \notin {"wake", "expwake"} /\ at'[d] \notin {"wake", "expwake"}
        BY <1>3
    <3>4. QED
        BY <1>3, <2>3, <3>1, <3>2, <3>3, KeepSleeper
  <2>4. CASE ~(t \in sleeping /\ status[t] = "running" /\ t \in Proc)
    <3>1. \A x \in Pid : \/ status'[x] = status[x]
                         \/ /\ status[x] = "running" /\ status'[x] = "ready"
                            /\ tp[x] \notin {"mark", "arm"}
        BY <1>3, <2>1, <2>4
    <3>2. \A x \in Pid : \/ tp'[x] = tp[x]
                         \/ tp[x] \notin {"mark", "arm"} /\ tp'[x] \notin {"mark", "arm"}
        BY <1>3, <2>2
    <3>3. QED
        BY <1>3, <3>1, <3>2, KeepWake
  <2>5. QED
      BY <2>3, <2>4
<1>7. RunInv'
  <2>1. RunsOwn(c)'
      BY <1>3 DEF RunsOwn
  <2>2. \A d \in CPU : d # c => /\ status'[current[d]] = status[current[d]]
                                /\ tp'[current[d]] = tp[current[d]]
      BY <1>1, <1>3 DEF TypeOK
  <2>3. QED
      BY <1>3, <2>1, <2>2, KeepRun
<1>8. MarkInv'
    BY <1>0, <1>1, <1>3, Pids, KeepMark
<1>9. EndInv'
  <2>1. UNCHANGED <<parent, waiting, zombies>> /\ tp'[t] = l
      BY <1>3
  <2>2. \/ l = tp[t] \/ (tp[t] = "block" /\ l = "run")
        \/ tp[t] = "waitcall" /\ l = "wait"
      BY <1>0
  <2>3. CASE status'[t] # status[t]
    <3>1. status[t] = "running" /\ status'[t] \in {"blocked", "ready"} /\ t \in Proc
        BY <1>3, <2>3
    <3>2. Lifetime(t)'
        BY <2>1, <2>2, <3>1, StaysAlive
    <3>3. QED
        BY <1>3, <3>1, <3>2, Pids, KeepUse, KeepEnd
  <2>4. CASE status'[t] = status[t]
    <3>1. \A x \in Proc : status'[x] = status[x]
        BY <1>3, <2>4, Pids
    <3>2. t \in Proc => Lifetime(t)'
        BY <2>1, <2>2, <3>1, KeepUse, SMTT(30) DEF EndInv, Lifetime
    <3>3. t \in Proc => \A y \in Proc : status[y] = "waiting" /\ waiting[y] = t =>
              status'[t] # "freed" /\ (status'[t] = "zombie" => tp'[t] = "exit")
        BY <2>1, <2>2, <2>4, SMTT(30) DEF EndInv, Lifetime
    <3>4. QED
        BY <1>3, <3>1, <3>2, <3>3, Pids, KeepUse, KeepEnd
  <2>5. QED
      BY <2>3, <2>4
<1>10. QED
    BY <1>2, <1>4, <1>5, <1>6, <1>7, <1>8, <1>9

LEMMA TickStep ==
    ASSUME IInv, OneCpuPerTask, NEW c \in CPU, Tick(c)
    PROVE  IInv'
<1>1. PICK used \in BOOLEAN : Deactivate(c, used)
    BY DEF Tick
<1>2. /\ tp' = [tp EXCEPT ![current[c]] = tp[current[c]]] /\ at[c] = "run"
      /\ current[c] \in Kernel \/ tp[current[c]] = "run"
      /\ UNCHANGED <<taskVars, cpu, current, prev, next, fresh>>
    BY DEF Tick, IrqOn, IInv, TypeOK
<1>3. QED
    BY <1>1, <1>2, DeactivateStep

LEMMA ScheduleCallStep ==
    ASSUME IInv, OneCpuPerTask, NEW c \in CPU, ScheduleCall(c)
    PROVE  IInv'
<1> DEFINE l == IF tp[current[c]] = "block" THEN "run"
                ELSE IF tp[current[c]] = "waitcall" THEN "wait" ELSE "dead"
<1>1. PICK used \in BOOLEAN : Deactivate(c, used)
    BY DEF ScheduleCall
<1>2. /\ tp' = [tp EXCEPT ![current[c]] = l] /\ at[c] = "run"
      /\ \/ tp[current[c]] = "block" /\ l = "run"
         \/ tp[current[c]] = "waitcall" /\ l = "wait"
         \/ tp[current[c]] = "dead" /\ l = "dead"
      /\ UNCHANGED <<taskVars, cpu, current, prev, next, fresh>>
    BY DEF ScheduleCall, TaskGoto
<1> HIDE DEF l
<1>3. QED
    BY <1>1, <1>2, DeactivateStep

\* A BLOCKED task that a CPU has in hand becomes READY and is queued.
LEMMA ReadyStep ==
    ASSUME IInv, NEW c \in CPU, at[c] \in {"wake", "expwake"}, MakeReady(next[c]),
           next' = [next EXCEPT ![c] = None], NEW l \in {"run", "expire"},
           at' = [at EXCEPT ![c] = l], l = "run" => at[c] = "wake",
           UNCHANGED <<taskVars, cpu, priority, current, prev, tp, fresh>>
    PROVE  IInv'
<1> USE DEF IInv
<1>0. PICK t : t = next[c]
    OBVIOUS
<1>1. t \in Proc /\ t \in Pid /\ status[t] = "blocked" /\ ~InRq(rq, t) /\ rq \in RqType
    BY <1>0, QueuedIsReady, Pids DEF WakeInv, WakerInv, TypeOK, RqType
<1>2. cpu[t] \in CPU /\ priority[t] \in Level
    BY <1>1 DEF TypeOK
<1>3. /\ at'[c] = l /\ \A d \in CPU : d # c => at'[d] = at[d] /\ next'[d] = next[d]
      /\ next'[c] = None
      /\ status'[t] = "ready" /\ \A x \in Pid : x # t => status'[x] = status[x]
      /\ UNCHANGED <<sleeping, timer, parent, waiting, zombies, waitq, killed, cpu, priority,
                     current, prev, tp, fresh>>
    BY <1>0, <1>1 DEF TypeOK, taskVars, MakeReady, SetStatus
<1>4. rq' = rq_enqueue(t, cpu[t], priority[t])
    BY <1>0 DEF MakeReady
<1>5. \A x \in Proc : InRq(rq, x) => status'[x] = "ready"
    BY <1>1, <1>3, QueuedIsReady, Pids
<1>6. /\ rq' \in RqType /\ QueueInv'
      /\ \A x : InRq(rq', x) <=> InRq(rq, x) \/ x = t
    BY <1>1, <1>2, <1>3, <1>4, <1>5, EnqueueQueues
<1>7. TypeOK'
  <2>1. status' \in [Pid -> {"none", "ready", "running", "blocked", "waiting",
                             "zombie", "freed"}]
      BY DEF TypeOK, MakeReady, SetStatus
  <2>2. at' \in [CPU -> {"run", "reap", "expire", "expwake", "pick", "steal",
                        "repick", "switch", "resume", "wake"}]
      BY DEF TypeOK
  <2>3. next' \in [CPU -> Pid \cup CPU \cup {None}]
      BY DEF TypeOK
  <2>4. rq' \in [CPU -> [Level -> Seq(Pid)]]
      BY <1>6 DEF RqType
  <2>5. UNCHANGED <<sleeping, killed, zombies, fresh, timer, cpu, priority, waitq, current, prev, tp,
                    parent, waiting>>
      BY <1>3
  <2>6. TypeOK
      OBVIOUS
  <2>7. QED
      BY ONLY <2>1, <2>2, <2>3, <2>4, <2>5, <2>6, ZenonT(30) DEF TypeOK
<1>8. \A d \in CPU : at[d] \in {"wake", "expwake"} /\ next[d] = t => d = c
    BY <1>0 DEF WakeInv, WakerInv
<1>9. \A x \in Proc : x # t => status'[x] = status[x]
    BY <1>3, Pids
<1>10. HandInv'
  <2>1. \A x \in CPU : status'[x] = status[x]
      BY <1>1, <1>3, Pids
  <2>2. \A d \in CPU :
            \/ at'[d] = at[d] /\ next'[d] = next[d]
            \/ /\ at[d] # "switch" /\ at'[d] # "switch"
               /\ at'[d] = "steal" => next'[d] \in CPU \ {d}
      BY <1>3
  <2>3. QED
      BY <1>1, <1>3, <1>6, <1>9, <2>1, <2>2, KeepHand
<1>11. WakeInv'
  <2> USE DEF WakeInv
  <2>1. /\ UNCHANGED <<sleeping, timer, waitq, tp>>
        /\ at'[c] \notin {"wake", "expwake"}
        /\ \A d \in CPU : d # c => at'[d] = at[d] /\ next'[d] = next[d]
        /\ status'[t] = "ready" /\ \A x \in Pid : x # t => status'[x] = status[x]
      BY <1>3
  <2>2. WaitqInv'
      BY <1>0, <2>1, Pids, SMTT(30) DEF WaitqInv, WakerInv
  <2>3. WakerInv'
      BY <1>8, <2>1, Pids, SMTT(30) DEF WakerInv
  <2>4. TimerInv'
      BY <1>0, <2>1, Pids, SMTT(30) DEF TimerInv, WakerInv
  <2>5. BlockedInv'
      BY <1>0, <2>1, Pids, SMTT(30) DEF BlockedInv
  <2>6. QED
      BY <2>2, <2>3, <2>4, <2>5
<1>12. RunInv' /\ MarkInv'
  <2>1. \A d \in CPU : status[current[d]] = "running" => status'[current[d]] = "running"
      BY <1>1, <1>3 DEF TypeOK
  <2>2. RunsOwn(c)'
      BY <1>3, <2>1 DEF RunInv, RunsOwn
  <2>3. QED
      BY <1>3, <2>1, <2>2, KeepRun, KeepMark
<1>13. EndInv'
  <2>1. Lifetime(t)'
      BY <1>1, <1>3, StaysAlive
  <2>2. QED
      BY <1>3, <1>9, <2>1, KeepUse, KeepEnd
<1>14. QED
    BY <1>6, <1>7, <1>10, <1>11, <1>12, <1>13

LEMMA WakeStep ==
    ASSUME IInv, NEW c \in CPU, Wake(c) \/ ExpireWake(c)
    PROVE  IInv'
BY ReadyStep DEF Wake, ExpireWake, Goto

\* task_free_locked frees zombies; they are linked nowhere.
LEMMA FreeFacts ==
    ASSUME IInv, NEW F \in SUBSET Pid, \A x \in F : status[x] = "zombie", task_free_locked(F)
    PROVE  /\ \A x \in Pid : \/ x \in F /\ ~InUse(x) /\ status'[x] = "freed"
                             \/ ~(x \in F /\ ~InUse(x)) /\ status'[x] = status[x]
           /\ status' \in [Pid -> {"none", "ready", "running", "blocked", "waiting",
                                   "zombie", "freed"}]
           /\ \A x \in zombies' : x \in zombies /\ ~(x \in F /\ ~InUse(x))
           /\ UNCHANGED <<waitq, rq, timer, killed>>
           /\ rq \in RqType
<1> DEFINE G == {x \in F : ~InUse(x)}
<1> USE DEF IInv
<1>1. /\ status' = [x \in Pid |-> IF x \in G THEN "freed" ELSE status[x]]
      /\ zombies' = zombies \ G /\ killed' = killed \ G
      /\ waitq' = Unlink(waitq, G) /\ rq' = rq_remove(G)
      /\ timer' = [x \in Pid |-> IF x \in G THEN "off" ELSE timer[x]]
    BY DEF task_free_locked
<1>2. \A x \in G : x \in F /\ x \in Pid /\ status[x] = "zombie" /\ ~InUse(x)
    OBVIOUS
<1>3. rq \in RqType /\ \A x \in G : ~InRq(rq, x)
    BY <1>2, QueuedIsReady DEF TypeOK, RqType
<1>4. Range(waitq) \cap G = {}
  <2>1. waitq \in Seq(Proc)
      BY DEF TypeOK
  <2>2. Range(waitq) = Elements(waitq)
      BY <2>1, SeqLen DEF Range, Elements
  <2>3. QED
      BY <1>2, <2>2 DEF WakeInv, WaitqInv
<1>5. waitq' = waitq
    BY <1>1, <1>4 DEF Unlink
<1>6. rq' = rq
    BY <1>1, <1>3, RemoveNothing
<1>7. timer' = timer
  <2>1. \A x \in G : timer[x] = "off"
      BY <1>2 DEF WakeInv, TimerInv, TypeOK
  <2>2. timer \in [Pid -> {"off", "armed", "due"}]
      BY DEF TypeOK
  <2>3. QED
      BY <1>1, <2>1, <2>2
<1>8. killed' = killed
    BY <1>1 DEF EndInv
<1>9. status' \in [Pid -> {"none", "ready", "running", "blocked", "waiting",
                           "zombie", "freed"}]
  <2>1. \A x \in Pid : status[x] \in {"none", "ready", "running", "blocked", "waiting",
                                      "zombie", "freed"}
      BY DEF TypeOK
  <2>2. QED
      BY <1>1, <2>1
<1>10. QED
    BY <1>1, <1>3, <1>5, <1>6, <1>7, <1>8, <1>9

LEMMA ReapStep ==
    ASSUME IInv, NEW c \in CPU, Reap(c)
    PROVE  IInv'
<1> DEFINE F == zombies \ {current[c]}
<1> USE DEF IInv
<1>1. F \in SUBSET Pid /\ \A x \in F : x \in Proc /\ status[x] = "zombie" /\ tp[x] = "dead"
    BY Pids DEF EndInv, Lifetime, TypeOK
<1>2. task_free_locked(F)
    BY DEF Reap
<1> HIDE DEF F
<1>3. /\ \A x \in Pid : \/ x \in F /\ ~InUse(x) /\ status'[x] = "freed"
                        \/ ~(x \in F /\ ~InUse(x)) /\ status'[x] = status[x]
      /\ status' \in [Pid -> {"none", "ready", "running", "blocked", "waiting",
                              "zombie", "freed"}]
      /\ \A x \in zombies' : x \in zombies /\ ~(x \in F /\ ~InUse(x))
      /\ UNCHANGED <<waitq, rq, timer, killed>>
    BY <1>1, <1>2, FreeFacts
<1>4. /\ at[c] = "reap" /\ at'[c] = "expire" /\ \A d \in CPU : d # c => at'[d] = at[d]
      /\ at' = [at EXCEPT ![c] = "expire"]
      /\ UNCHANGED <<sleeping, cpu, priority, current, prev, next, tp, parent, waiting, fresh>>
    BY DEF Reap, Goto, TypeOK
<1>5. TypeOK'
    BY <1>3, <1>4 DEF TypeOK
<1>6. QueueInv'
    BY <1>1, <1>3, <1>4, SameQueues, Pids
<1>7. \A x \in Pid : status'[x] = status[x] \/ (status[x] = "zombie" /\ status'[x] = "freed")
    BY <1>1, <1>3
<1>8. HandInv'
  <2>1. \A x \in CPU : status'[x] = status[x]
      BY <1>7, Pids DEF HandInv
  <2>2. \A x \in Proc : status'[x] = "ready" <=> status[x] = "ready"
      BY <1>7, Pids
  <2>3. QED
      BY <1>3, <1>4, <2>1, <2>2, KeepHand
<1>9. WakeInv'
  <2>1. \A x \in Pid : status[x] = "zombie" => tp[x] \notin {"mark", "arm"}
      BY Pids DEF HandInv, EndInv, Lifetime
  <2>2. QED
      BY <1>3, <1>4, <1>7, <2>1, KeepWake
<1>10. RunInv' /\ MarkInv'
  <2>1. RunsOwn(c)'
      BY <1>4 DEF RunsOwn
  <2>2. \A d \in CPU : status[current[d]] = "running" => status'[current[d]] = "running"
      BY <1>7 DEF TypeOK
  <2>3. QED
      BY <1>4, <2>1, <2>2, KeepRun, KeepMark
<1>11. EndInv'
  <2>1. ASSUME NEW x \in Proc, status'[x] # status[x]
        PROVE  /\ Lifetime(x)'
               /\ \A y \in Proc : ~(status[y] = "waiting" /\ waiting[y] = x)
    <3>1. x \in F /\ ~InUse(x) /\ status'[x] = "freed" /\ x \notin zombies'
        BY <1>3, <2>1, Pids
    <3>2. ~InUse(x)'
        BY <1>4, <3>1, KeepUse
    <3>3. tp'[x] = "dead" /\ parent'[x] = parent[x] /\ tp[x] = "dead" /\ status[x] = "zombie"
        BY <1>1, <1>4, <3>1
    <3>4. QED
        BY <3>1, <3>2, <3>3, SMTT(30) DEF EndInv, Lifetime
  <2>2. QED
      BY <1>3, <1>4, <2>1, KeepUse, KeepEnd
<1>12. QED
    BY <1>5, <1>6, <1>8, <1>9, <1>10, <1>11

LEMMA ExpireStep ==
    ASSUME IInv, NEW c \in CPU, NEW t \in Proc, sleep_expire(c, t)
    PROVE  IInv'
<1> USE DEF IInv
<1>1. /\ at[c] = "expire" /\ timer[t] = "due" /\ status[t] = "blocked" /\ t \in Pid
      /\ tp[t] \notin {"mark", "arm"}
    BY Pids DEF sleep_expire, WakeInv, TimerInv
<1>2. /\ timer' = [timer EXCEPT ![t] = "off"] /\ sleeping' = sleeping \ {t}
      /\ at' = [at EXCEPT ![c] = "expwake"] /\ next' = [next EXCEPT ![c] = t]
      /\ UNCHANGED <<status, rq, cpu, priority, current, prev, tp, parent,
                     waiting, zombies, waitq, killed, fresh>>
    BY <1>1 DEF sleep_expire, Goto
<1>3. /\ timer'[t] = "off" /\ \A x \in Pid : x # t => timer'[x] = timer[x]
      /\ at'[c] = "expwake" /\ next'[c] = t
      /\ \A d \in CPU : d # c => at'[d] = at[d] /\ next'[d] = next[d]
      /\ \A x : x \in sleeping' <=> x \in sleeping /\ x # t
    BY <1>1, <1>2 DEF TypeOK
<1>4. TypeOK'
    BY <1>1, <1>2 DEF TypeOK
<1>5. QueueInv'
    BY <1>2, SameQueues
<1>6. HandInv'
    BY <1>1, <1>2, <1>3, KeepHand
<1>7. WakeInv'
  <2> USE DEF WakeInv
  <2>1. UNCHANGED <<status, waitq, tp>>
      BY <1>2
  <2>2. WaitqInv'
      BY <1>3, <2>1, Pids, SMTT(30) DEF WaitqInv
  <2>3. WakerInv'
      BY <1>1, <1>3, <2>1, Pids, SMTT(30) DEF WaitqInv, WakerInv
  <2>4. TimerInv'
      BY <1>1, <1>3, <2>1, Pids, SMTT(30) DEF TimerInv
  <2>5. BlockedInv'
      BY <1>1, <1>3, <2>1, Pids, SMTT(30) DEF BlockedInv
  <2>6. QED
      BY <2>2, <2>3, <2>4, <2>5
<1>8. RunInv' /\ MarkInv'
  <2>1. RunsOwn(c)'
      BY <1>3 DEF RunsOwn
  <2>2. QED
      BY <1>1, <1>2, <1>3, <2>1, KeepRun, KeepMark
<1>9. EndInv'
    BY <1>2, KeepUse, KeepEnd
<1>10. QED
    BY <1>4, <1>5, <1>6, <1>7, <1>8, <1>9

\* The first task of CPU c's queue is taken: c goes on in it, or switches to it.
LEMMA DequeueStep ==
    ASSUME IInv, NEW c \in CPU, at[c] \in {"pick", "repick"}, rq_dequeue(c),
           UNCHANGED <<taskVars, cpu, current, prev, tp, fresh>>
    PROVE  IInv'
<1> USE DEF IInv
<1>1. PICK l \in TopLevel(c) :
        LET t == Head(rq[c][l]) IN
        /\ rq' = [rq EXCEPT ![c][l] = Tail(@)]
        /\ \E level \in 0 .. l : priority' = [priority EXCEPT ![t] = level]
        /\ Choose(c, t)
    BY DEF rq_dequeue
<1>0. PICK t : t = First(c, l)
    OBVIOUS
<1>2. l \in Level /\ rq[c][l] # <<>> /\ rq \in RqType
    BY DEF TopLevel, TypeOK, RqType
<1>3. PICK level \in 0 .. l : priority' = [priority EXCEPT ![t] = level]
    BY <1>0, <1>1 DEF First
<1>4. rq' = [rq EXCEPT ![c][l] = Tail(@)] /\ Choose(c, t)
    BY <1>0, <1>1 DEF First
<1>5. t \in Proc /\ status[t] = "ready" /\ InRq(rq, t) /\ t \in Pid
  <2>1. rq[c][l] \in Seq(Pid) /\ Distinct(rq[c][l])
      BY <1>2, SMTT(30) DEF RqType, QueueInv, QueuesOf
  <2>2. t \in Elements(rq[c][l])
      BY <1>0, <1>2, <2>1, TailQueue DEF First
  <2>3. QED
      BY <1>2, <2>2, Pids, SMTT(30) DEF QueueInv, QueuesOf, InRq
<1>6. priority' \in [Pid -> Level] /\ \A x \in Pid : x # t => priority'[x] = priority[x]
  <2>1. level \in Level
      BY <1>2, <1>3, SchedAssumption, SMTT(30) DEF Level
  <2>2. priority \in [Pid -> Level]
      BY DEF TypeOK
  <2>3. QED
      BY <1>3, <1>5, <2>1, <2>2
<1>7. \/ /\ t = current[c] /\ at' = [at EXCEPT ![c] = "run"] /\ next' = [next EXCEPT ![c] = None]
         /\ status' = [status EXCEPT ![t] = "running"]
      \/ /\ t # current[c] /\ at' = [at EXCEPT ![c] = "switch"] /\ next' = [next EXCEPT ![c] = t]
         /\ status' = status
    BY <1>4 DEF Choose, SetStatus, Goto
<1>8. /\ \A d \in CPU : d # c => at'[d] = at[d] /\ next'[d] = next[d]
      /\ \A x \in Pid : x # t => status'[x] = status[x]
      /\ \/ t = current[c] /\ at'[c] = "run" /\ next'[c] = None /\ status'[t] = "running"
         \/ t # current[c] /\ at'[c] = "switch" /\ next'[c] = t /\ status'[t] = "ready"
      /\ UNCHANGED <<sleeping, timer, parent, waiting, zombies, waitq, killed, cpu, current,
                     prev, tp, fresh>>
  <2>1. /\ \A d \in CPU : d # c => at'[d] = at[d] /\ next'[d] = next[d]
        /\ \A x \in Pid : x # t => status'[x] = status[x]
        /\ \/ t = current[c] /\ at'[c] = "run" /\ next'[c] = None /\ status'[t] = "running"
           \/ t # current[c] /\ at'[c] = "switch" /\ next'[c] = t /\ status'[t] = "ready"
    <3>1. at \in [CPU -> {"run", "reap", "expire", "expwake", "pick", "steal",
                          "repick", "switch", "resume", "wake"}]
        BY DEF TypeOK
    <3>2. next \in [CPU -> Pid \cup CPU \cup {None}]
        BY DEF TypeOK
    <3>3. status \in [Pid -> {"none", "ready", "running", "blocked", "waiting",
                              "zombie", "freed"}]
        BY DEF TypeOK
    <3>4. QED
        BY <1>5, <1>7, <3>1, <3>2, <3>3
  <2>2. QED
      BY <2>1 DEF taskVars
<1>9. \A x \in Proc : InRq(rq, x) /\ x # t =>
         status'[x] = "ready" /\ cpu'[x] = cpu[x] /\ priority'[x] = priority[x]
    BY <1>6, <1>8, QueuedIsReady, Pids
<1>10. t = First(c, l) /\ rq' = WithoutFirst(c, l)
    BY <1>0, <1>4 DEF WithoutFirst
<1>11. rq' \in RqType /\ QueueInv' /\ \A x : InRq(rq', x) <=> InRq(rq, x) /\ x # t
    BY <1>2, <1>9, <1>10, DequeueQueues, SMTT(30)
<1>12. TypeOK'
  <2>1. status' \in [Pid -> {"none", "ready", "running", "blocked", "waiting",
                             "zombie", "freed"}]
      BY <1>7 DEF TypeOK
  <2>2. at' \in [CPU -> {"run", "reap", "expire", "expwake", "pick", "steal",
                        "repick", "switch", "resume", "wake"}]
    <3>1. PICK w \in {"run", "switch"} : at' = [at EXCEPT ![c] = w]
        BY <1>7
    <3>2. QED
        BY <3>1 DEF TypeOK
  <2>3. next' \in [CPU -> Pid \cup CPU \cup {None}]
    <3>1. PICK n \in Pid \cup {None} : next' = [next EXCEPT ![c] = n]
        BY <1>5, <1>7
    <3>2. QED
        BY <3>1 DEF TypeOK
  <2>4. rq' \in [CPU -> [Level -> Seq(Pid)]]
      BY <1>11 DEF RqType
  <2>5. UNCHANGED <<sleeping, killed, zombies, fresh, timer, cpu, waitq, current, prev, tp, parent, waiting>>
      BY <1>8
  <2>6. TypeOK
      OBVIOUS
  <2>7. QED
      BY ONLY <1>6, <2>1, <2>2, <2>3, <2>4, <2>5, <2>6, ZenonT(30) DEF TypeOK
<1>13. HandInv'
  <2>1. /\ \A d \in CPU : d # c => at'[d] = at[d] /\ next'[d] = next[d]
        /\ \A x \in Pid : x # t => status'[x] = status[x]
        /\ \/ at'[c] = "run" /\ status'[t] = "running"
           \/ t # current[c] /\ at'[c] = "switch" /\ next'[c] = t /\ status'[t] = "ready"
        /\ UNCHANGED <<current, tp>>
        /\ \A x : InRq(rq', x) <=> InRq(rq, x) /\ x # t
      BY <1>8, <1>11
  <2>2. QED
      BY <1>5, <2>1, Pids, SMTT(30) DEF HandInv
<1>14. /\ \A x \in Pid : \/ status'[x] = status[x]
                         \/ x = t /\ status[x] = "ready" /\ status'[x] = "running"
       /\ at[c] \notin {"wake", "expwake", "run"} /\ at'[c] \notin {"wake", "expwake"}
  <2>1. \A x \in Pid : \/ status'[x] = status[x]
                       \/ x = t /\ status[x] = "ready" /\ status'[x] = "running"
      BY <1>5, <1>8
  <2>2. at[c] \notin {"wake", "expwake", "run"} /\ at'[c] \notin {"wake", "expwake"}
      BY <1>8
  <2>3. QED
      BY <2>1, <2>2
<1>15. WakeInv'
  <2>1. tp[t] \notin {"mark", "arm"}
      BY <1>5 DEF WakeInv, TimerInv
  <2>2. QED
      BY <1>8, <1>14, <2>1, KeepWake
<1>16. RunInv' /\ MarkInv'
  <2>1. RunsOwn(c)'
      BY <1>8 DEF RunsOwn
  <2>2. \A d \in CPU : status[current[d]] = "running" => status'[current[d]] = "running"
      BY <1>14 DEF TypeOK
  <2>3. QED
      BY <1>8, <1>14, <2>1, <2>2, KeepRun, KeepMark
<1>17. EndInv'
  <2>1. Lifetime(t)'
    <3>1. UNCHANGED <<tp, parent, waiting, zombies>> /\ status'[t] \in {"ready", "running"}
        BY <1>8
    <3>2. QED
        BY <1>5, <3>1, StaysAlive
  <2>2. \A x \in Proc : x # t => status'[x] = status[x]
      BY <1>8, Pids
  <2>3. QED
      BY <1>8, <2>1, <2>2, KeepUse, KeepEnd
<1>18. QED
    BY <1>11, <1>12, <1>13, <1>15, <1>16, <1>17

\* With nothing to run CPU c goes on in its idle task, or switches to it.
LEMMA IdleStep ==
    ASSUME IInv, NEW c \in CPU, at[c] \in {"pick", "repick"}, ChooseIdle(c),
           UNCHANGED <<taskVars, cpu, current, prev, tp, fresh>>
    PROVE  IInv'
<1> USE DEF IInv
<1>1. c \in Pid /\ status[c] = "running" /\ tp[c] = "run"
    BY Pids DEF HandInv
<1>2. /\ status' = status
      /\ \/ c = current[c] /\ at' = [at EXCEPT ![c] = "run"] /\ next' = [next EXCEPT ![c] = None]
         \/ c # current[c] /\ at' = [at EXCEPT ![c] = "switch"] /\ next' = [next EXCEPT ![c] = c]
    BY <1>1 DEF ChooseIdle, Choose, Idle, SetStatus, Goto, TypeOK
<1>3. /\ \A d \in CPU : d # c => at'[d] = at[d] /\ next'[d] = next[d]
      /\ \/ c = current[c] /\ at'[c] = "run" /\ next'[c] = None
         \/ c # current[c] /\ at'[c] = "switch" /\ next'[c] = c
      /\ UNCHANGED <<status, sleeping, timer, parent, waiting, zombies, waitq, killed, cpu,
                     current, prev, tp, fresh, rq, priority>>
    BY <1>2 DEF TypeOK, taskVars, ChooseIdle
<1>4. TypeOK'
  <2>1. PICK w \in {"run", "switch"}, n \in Pid \cup {None} :
            at' = [at EXCEPT ![c] = w] /\ next' = [next EXCEPT ![c] = n]
      BY <1>1, <1>2
  <2>2. QED
      BY <1>3, <2>1 DEF TypeOK
<1>5. QueueInv'
    BY <1>3, SameQueues
<1>6. HandInv'
  <2>1. /\ \A d \in CPU : d # c => at'[d] = at[d] /\ next'[d] = next[d]
        /\ \/ at'[c] = "run"
           \/ c # current[c] /\ at'[c] = "switch" /\ next'[c] = c
        /\ UNCHANGED <<status, current, tp, rq>>
      BY <1>3
  <2>2. QED
      BY <2>1, Pids, SMTT(30) DEF HandInv
<1>7. at[c] \notin {"wake", "expwake", "run"} /\ at'[c] \notin {"wake", "expwake"}
    BY <1>3
<1>8. WakeInv'
    BY <1>3, <1>7, KeepWake
<1>9. RunInv' /\ MarkInv'
  <2>1. RunsOwn(c)'
      BY <1>1, <1>3 DEF RunsOwn
  <2>2. QED
      BY <1>3, <1>7, <2>1, KeepRun, KeepMark
<1>10. EndInv'
    BY <1>3, KeepUse, KeepEnd
<1>11. QED
    BY <1>4, <1>5, <1>6, <1>8, <1>9, <1>10

LEMMA RepickStep ==
    ASSUME IInv, NEW c \in CPU, Repick(c)
    PROVE  IInv'
BY DequeueStep, IdleStep DEF Repick

LEMMA PickStep ==
    ASSUME IInv, NEW c \in CPU, Pick(c)
    PROVE  IInv'
<1>1. CASE rq_dequeue(c)
    BY <1>1, DequeueStep DEF Pick
<1>2. CASE ChooseIdle(c)
    BY <1>2, IdleStep DEF Pick
<1>3. ASSUME NEW v \in Busiest(c), next' = [next EXCEPT ![c] = v], Goto(c, "steal"),
             UNCHANGED <<status, priority, rq>>
      PROVE  IInv'
  <2> USE DEF IInv
  <2>1. v \in CPU \ {c}
      BY DEF Busiest
  <2>2. /\ at[c] = "pick" /\ at'[c] = "steal" /\ next'[c] = v
        /\ \A d \in CPU : d # c => at'[d] = at[d] /\ next'[d] = next[d]
        /\ UNCHANGED <<status, sleeping, timer, parent, waiting, zombies, waitq, killed, cpu,
                       current, prev, tp, fresh, rq, priority>>
      BY <1>3, SMTT(30) DEF Pick, Goto, TypeOK, taskVars
  <2>3. TypeOK'
      BY <1>3, <2>1, <2>2 DEF TypeOK, Goto
  <2>4. QueueInv'
      BY <2>2, SameQueues
  <2>5. HandInv'
      BY <2>1, <2>2, KeepHand
  <2>6. WakeInv'
      BY <2>2, KeepWake
  <2>7. RunInv' /\ MarkInv'
    <3>1. RunsOwn(c)'
        BY <2>2 DEF RunsOwn
    <3>2. QED
        BY <2>2, <3>1, KeepRun, KeepMark
  <2>8. EndInv'
      BY <2>2, KeepUse, KeepEnd
  <2>9. QED
      BY <2>3, <2>4, <2>5, <2>6, <2>7, <2>8
<1>4. QED
    BY <1>1, <1>2, <1>3 DEF Pick

LEMMA StealStep ==
    ASSUME IInv, NEW c \in CPU, Steal(c)
    PROVE  IInv'
<1> DEFINE v == next[c]
<1> USE DEF IInv
<1>1. /\ at[c] = "steal" /\ at'[c] = "repick" /\ \A d \in CPU : d # c => at'[d] = at[d]
      /\ at' = [at EXCEPT ![c] = "repick"]
      /\ UNCHANGED <<status, sleeping, timer, priority, current, prev, next, tp, parent, waiting,
                     zombies, waitq, killed, fresh>>
    BY DEF Steal, Goto, taskVars, TypeOK
<1>2. v \in CPU /\ v # c /\ rq \in RqType /\ cpu \in [Pid -> CPU]
    BY <1>1 DEF HandInv, TypeOK, RqType
<1>3. /\ rq' \in RqType /\ QueueInv' /\ cpu' \in [Pid -> CPU]
      /\ \A x : InRq(rq', x) <=> InRq(rq, x)
  <2>1. CASE UNCHANGED <<rq, cpu>>
      BY <1>1, <1>2, <2>1, SameQueues
  <2>2. ASSUME NEW l \in TopLevel(v),
               cpu' = [cpu EXCEPT ![First(v, l)] = c],
               rq' = Moved(First(v, l), v, c, l)
        PROVE  /\ rq' \in RqType /\ QueueInv' /\ cpu' \in [Pid -> CPU]
               /\ \A x : InRq(rq', x) <=> InRq(rq, x)
    <3> HIDE DEF v
    <3>1. l \in Level /\ rq[v][l] # <<>>
        BY DEF TopLevel
    <3>2. cpu' \in [Pid -> CPU]
        BY <1>2, <2>2
    <3>3. rq' \in RqType /\ QueueInv' /\ \A x : InRq(rq', x) <=> InRq(rq, x)
        BY <1>1, <1>2, <2>2, <3>1, StealQueues
    <3>4. QED
        BY <3>2, <3>3
  <2>3. QED
      BY <2>1, <2>2 DEF Steal, First, Moved
<1> HIDE DEF v
<1>4. TypeOK'
    BY <1>1, <1>3 DEF TypeOK, RqType
<1>5. HandInv'
    BY <1>1, <1>3, KeepHand
<1>6. WakeInv'
    BY <1>1, KeepWake
<1>7. RunInv' /\ MarkInv'
  <2>1. RunsOwn(c)'
      BY <1>1 DEF RunsOwn
  <2>2. QED
      BY <1>1, <2>1, KeepRun, KeepMark
<1>8. EndInv'
    BY <1>1, KeepUse, KeepEnd
<1>9. QED
    BY <1>3, <1>4, <1>5, <1>6, <1>7, <1>8
=============================================================================
