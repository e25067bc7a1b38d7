-------------------------- MODULE SemaphoreProofs ---------------------------
(***************************************************************************)
(* The semaphore, and what is built on it: kernel threads and the message  *)
(* queue.  No wakeup is lost, for any number of tasks, any initial count   *)
(* and any number of posts from interrupt handlers; requests and control   *)
(* blocks are there when they are used, and the tokens of the queue cover  *)
(* its messages, for any number of callers, senders and receivers.         *)
(***************************************************************************)
EXTENDS Semaphore, Kthread, MessageQueue, QueueLemmas, FiniteSetTheorems

\* A leaf is proved by Zenon unless it names SMT.
USE ZenonT(30)

-----------------------------------------------------------------------------
(* The semaphore.                                                          *)

\* TypeOK bounds the count from below by the number of tasks; that bound
\* follows from the queue holding every waiter once.
Counted == resource_count \in Int
Shape == /\ wait_queue \in Seq(Task) /\ blocked \subseteq Task
         /\ pc \in [Task -> {"out", "asleep", "passed"}]
IInv == Counted /\ Shape /\ WaitersAccounted

-----------------------------------------------------------------------------
\* A queue without repetitions is no longer than the set it draws from.
LEMMA QueueBound ==
    ASSUME NEW S, IsFiniteSet(S), NEW q \in Seq(S), Distinct(q)
    PROVE  Len(q) <= Cardinality(S)
<1>1. Len(q) \in Nat /\ q \in [1 .. Len(q) -> S]
    BY SeqLen
<1>2. q \in Injection(1 .. Len(q), S)
    BY <1>1 DEF Distinct, Injection, IsInjective
<1>3. Cardinality(1 .. Len(q)) <= Cardinality(S)
    BY <1>2, FS_Injection
<1>4. Cardinality(1 .. Len(q)) = Len(q)
    BY <1>1, FS_Interval, SMTT(30)
<1>5. QED
    BY <1>3, <1>4

\* jlos_semaphore_post keeps the queue, the blocked set and the count in step,
\* and wakes nobody who is not asleep.
LEMMA PostStep ==
    ASSUME IInv, jlos_semaphore_post
    PROVE  /\ resource_count' \in Int
           /\ wait_queue' \in Seq(Task) /\ blocked' \subseteq blocked
           /\ Distinct(wait_queue') /\ blocked' = Elements(wait_queue')
           /\ Len(wait_queue') = IF resource_count' < 0 THEN -resource_count' ELSE 0
<1> USE DEF IInv, Counted, Shape
<1>1. /\ blocked = Elements(wait_queue) /\ Distinct(wait_queue)
      /\ Len(wait_queue) = IF resource_count < 0 THEN -resource_count ELSE 0
    BY DEF WaitersAccounted, Elements, Distinct
<1>2. resource_count' = resource_count + 1
    BY DEF jlos_semaphore_post
<1>3. CASE resource_count' > 0 \/ wait_queue = <<>>
  <2>1. UNCHANGED <<wait_queue, blocked>>
      BY <1>3 DEF jlos_semaphore_post
  <2>2. wait_queue = <<>> => Len(wait_queue) = 0
      BY SMTT(30)
  <2>3. Len(wait_queue) = IF resource_count' < 0 THEN -resource_count' ELSE 0
      BY <1>1, <1>2, <1>3, <2>2, SMTT(30)
  <2>4. QED
      BY <1>1, <1>2, <2>1, <2>3, SMTT(30)
<1>4. CASE ~(resource_count' > 0 \/ wait_queue = <<>>)
  <2>1. wait_queue' = Tail(wait_queue) /\ blocked' = blocked \ {Head(wait_queue)}
      BY <1>4 DEF jlos_semaphore_post
  <2>2. QED
      BY <1>1, <1>2, <1>4, <2>1, TailQueue, SMTT(30)
<1>5. QED
    BY <1>3, <1>4

LEMMA InitInv == Init => IInv
<1> SUFFICES ASSUME Init PROVE IInv
    OBVIOUS
<1>1. wait_queue \in Seq(Task) /\ Len(wait_queue) = 0
    BY SMTT(30) DEF Init
<1>2. QED
    BY <1>1, SemaphoreAssumption, SMTT(30) DEF Init, IInv, Counted, Shape, WaitersAccounted

LEMMA NextInv == IInv /\ [Next]_vars => IInv'
<1> SUFFICES ASSUME IInv, [Next]_vars PROVE IInv'
    OBVIOUS
<1> USE DEF IInv, Counted, Shape
<1>0. /\ blocked = Elements(wait_queue) /\ Distinct(wait_queue)
      /\ \A t \in blocked : pc[t] = "asleep"
      /\ Len(wait_queue) = IF resource_count < 0 THEN -resource_count ELSE 0
    BY DEF WaitersAccounted, Elements, Distinct
<1>1. ASSUME /\ resource_count' \in Int
             /\ wait_queue' \in Seq(Task) /\ blocked' \subseteq Task
             /\ pc' \in [Task -> {"out", "asleep", "passed"}]
             /\ Distinct(wait_queue') /\ blocked' = Elements(wait_queue')
             /\ \A t \in blocked' : pc'[t] = "asleep"
             /\ Len(wait_queue') = IF resource_count' < 0 THEN -resource_count' ELSE 0
      PROVE  IInv'
    BY <1>1 DEF WaitersAccounted, Elements, Distinct
<1>2. CASE IrqPost
    BY <1>0, <1>1, <1>2, PostStep DEF IrqPost
<1>3. ASSUME NEW t \in Task, Release(t)
      PROVE  IInv'
    BY <1>0, <1>1, <1>3, PostStep DEF Release
<1>4. ASSUME NEW t \in Task, Return(t)
      PROVE  IInv'
    BY <1>0, <1>1, <1>4 DEF Return
<1>5. ASSUME NEW t \in Task, SemWait(t)
      PROVE  IInv'
  <2>1. pc[t] = "out" /\ resource_count' = resource_count - 1
      BY <1>5 DEF SemWait
  <2>2. CASE resource_count' >= 0
      BY <1>0, <1>1, <1>5, <2>1, <2>2, SMTT(30) DEF SemWait
  <2>3. CASE ~(resource_count' >= 0)
    <3>1. /\ wait_queue' = Append(wait_queue, t)
          /\ blocked' = blocked \cup {t}
          /\ pc' = [pc EXCEPT ![t] = "asleep"]
        BY <1>5, <2>3 DEF SemWait
    <3>2. t \notin Elements(wait_queue)
        BY <1>0, <2>1
    <3>3. /\ wait_queue' \in Seq(Task) /\ Distinct(wait_queue')
          /\ Elements(wait_queue') = Elements(wait_queue) \cup {t}
          /\ Len(wait_queue') = Len(wait_queue) + 1
        BY <1>0, <3>1, <3>2, AppendQueue, SMTT(30)
    <3>4. QED
        BY <1>0, <1>1, <2>1, <2>3, <3>1, <3>3, SMTT(30)
  <2>4. QED
      BY <2>2, <2>3
<1>6. CASE UNCHANGED vars
    BY <1>0, <1>1, <1>6 DEF vars
<1>7. QED
    BY <1>2, <1>3, <1>4, <1>5, <1>6 DEF Next

-----------------------------------------------------------------------------
\* The types of the semaphore's fields, and that the count never falls below
\* minus the number of tasks.
THEOREM TypeCorrect == Spec => []TypeOK
<1>1. IInv => TypeOK
  <2> SUFFICES ASSUME IInv PROVE TypeOK
      OBVIOUS
  <2>1. Len(wait_queue) <= Cardinality(Task)
      BY QueueBound, SemaphoreAssumption DEF IInv, Shape, WaitersAccounted, Distinct
  <2>2. Cardinality(Task) \in Nat
      BY SemaphoreAssumption, FS_CardinalityType
  <2>3. resource_count >= -Cardinality(Task)
      BY <2>1, <2>2, SMTT(30) DEF IInv, Counted, WaitersAccounted
  <2>4. QED
      BY <2>3 DEF IInv, Counted, Shape, TypeOK
<1>2. QED
    BY InitInv, NextInv, <1>1, PTL DEF Spec

\* No wakeup is lost and none is given twice: the BLOCKED tasks are the queued
\* ones and a negative count is their number.
THEOREM NoLostWakeup == Spec => []WaitersAccounted
<1>1. IInv => WaitersAccounted
    BY DEF IInv
<1>2. QED
    BY InitInv, NextInv, <1>1, PTL DEF Spec

-----------------------------------------------------------------------------
(* The code implements CountingSemaphore: a step of the code is a step of  *)
(* the abstract semaphore under the mapping in Semaphore, or a stutter.    *)

\* The tokens of the abstract semaphore: those that waiters were given and the
\* positive part of the count.
Tokens == Cardinality(Granted) + (IF resource_count > 0 THEN resource_count ELSE 0)
Asking == {t \in Task : pc[t] = "asleep"}
Passed == {t \in Task : pc[t] = "passed"}

\* The waiters that were given a token are finitely many.
LEMMA GrantedFinite ==
    IsFiniteSet(Granted) /\ Cardinality(Granted) \in Nat
<1>1. Granted \subseteq Task
    BY DEF Granted
<1>2. QED
    BY <1>1, SemaphoreAssumption, FS_Subset, FS_CardinalityType

\* A post makes one token: for the first in the queue, or on the count.
LEMMA PostMakesToken ==
    ASSUME IInv, jlos_semaphore_post,
           \A t \in Task : pc'[t] = "asleep" <=> pc[t] = "asleep"
    PROVE  Tokens' = Tokens + 1
<1> USE DEF IInv, Counted, Shape
<1>0. Cardinality(Granted) \in Nat /\ IsFiniteSet(Granted)
    BY GrantedFinite
<1>1. /\ blocked = Elements(wait_queue) /\ Distinct(wait_queue)
      /\ \A t \in blocked : pc[t] = "asleep"
      /\ Len(wait_queue) = IF resource_count < 0 THEN -resource_count ELSE 0
      /\ resource_count' = resource_count + 1
    BY DEF WaitersAccounted, Elements, Distinct, jlos_semaphore_post
<1>2. CASE resource_count' > 0
  <2>1. blocked' = blocked
      BY <1>2 DEF jlos_semaphore_post
  <2>2. Granted' = Granted
      BY <2>1 DEF Granted
  <2>3. QED
      BY <1>0, <1>1, <1>2, <2>2, SMTT(30) DEF Tokens
<1>3. CASE ~(resource_count' > 0)
  <2>1. resource_count < 0
      BY <1>1, <1>3, SMTT(30)
  <2>2. wait_queue # <<>>
      BY <1>1, <2>1, SeqLen, SMTT(30)
  <2>3. blocked' = blocked \ {Head(wait_queue)}
      BY <1>3, <2>2 DEF jlos_semaphore_post
  <2>4. Head(wait_queue) \in blocked
      BY <1>1, <2>2, TailQueue
  <2>5. Granted' = Granted \cup {Head(wait_queue)} /\ Head(wait_queue) \notin Granted
      BY <1>1, <2>3, <2>4 DEF Granted
  <2>6. Cardinality(Granted') = Cardinality(Granted) + 1
      BY <1>0, <2>5, FS_AddElement
  <2>7. QED
      BY <1>0, <1>1, <1>3, <2>1, <2>6, SMTT(30) DEF Tokens
<1>4. QED
    BY <1>2, <1>3

\* An initial state of the code is an initial state of the abstract semaphore.
LEMMA InitAbstract == Init => Abstract!Init
<1> SUFFICES ASSUME Init PROVE Abstract!Init
    OBVIOUS
<1>1. Granted = {}
    BY DEF Init, Granted
<1>2. QED
    BY <1>1, FS_EmptySet, SemaphoreAssumption, SMTT(30) DEF Init, Abstract!Init

\* jlos_semaphore_wait takes a token at once or asks for one.
LEMMA WaitAbstract ==
    ASSUME IInv, NEW t \in Task, SemWait(t)
    PROVE  Abstract!Try(t) \/ Abstract!Ask(t)
<1> USE DEF IInv, Counted, Shape
<1>0. Cardinality(Granted) \in Nat
    BY GrantedFinite
<1>1. pc[t] = "out" /\ resource_count' = resource_count - 1
    BY DEF SemWait
<1>2. CASE resource_count' >= 0
  <2>1. pc' = [pc EXCEPT ![t] = "passed"] /\ blocked' = blocked
      BY <1>2 DEF SemWait
  <2>2. Granted' = Granted /\ Asking' = Asking /\ Passed' = Passed \cup {t}
        /\ t \notin Asking \cup Passed
      BY <1>1, <2>1 DEF Granted, Asking, Passed
  <2>3. Tokens' = Tokens - 1 /\ Tokens > 0
      BY <1>0, <1>1, <1>2, <2>2, SMTT(30) DEF Tokens
  <2>4. QED
      BY <2>2, <2>3 DEF Abstract!Try, Tokens, Asking, Passed
<1>3. CASE ~(resource_count' >= 0)
  <2>1. pc' = [pc EXCEPT ![t] = "asleep"] /\ blocked' = blocked \cup {t}
      BY <1>3 DEF SemWait
  <2>2. Granted' = Granted /\ Asking' = Asking \cup {t} /\ Passed' = Passed
        /\ t \notin Asking \cup Passed
      BY <1>1, <2>1 DEF Granted, Asking, Passed
  <2>3. Tokens' = Tokens
      BY <1>0, <1>1, <1>3, <2>2, SMTT(30) DEF Tokens
  <2>4. QED
      BY <2>2, <2>3 DEF Abstract!Ask, Tokens, Asking, Passed
<1>4. QED
    BY <1>2, <1>3

\* A wait that was asleep returns with the token it was given.
LEMMA ReturnAbstract ==
    ASSUME IInv, NEW t \in Task, Return(t)
    PROVE  Abstract!Pass(t)
<1> USE DEF IInv, Counted, Shape
<1>0. Cardinality(Granted) \in Nat /\ IsFiniteSet(Granted)
    BY GrantedFinite
<1>1. /\ pc[t] = "asleep" /\ t \notin blocked /\ pc' = [pc EXCEPT ![t] = "passed"]
      /\ UNCHANGED <<resource_count, blocked>>
    BY DEF Return
<1>2. Granted' = Granted \ {t} /\ t \in Granted
    BY <1>1 DEF Granted
<1>3. Asking' = Asking \ {t} /\ t \in Asking /\ Passed' = Passed \cup {t}
    BY <1>1 DEF Asking, Passed
<1>4. Cardinality(Granted') = Cardinality(Granted) - 1 /\ Cardinality(Granted') \in Nat
    BY <1>0, <1>2, FS_RemoveElement, FS_Subset, FS_CardinalityType
<1>5. Tokens' = Tokens - 1 /\ Tokens > 0
    BY <1>0, <1>1, <1>4, SMTT(30) DEF Tokens
<1>6. QED
    BY <1>3, <1>5 DEF Abstract!Pass, Tokens, Asking, Passed

\* A holder's post gives its token back.
LEMMA ReleaseAbstract ==
    ASSUME IInv, NEW t \in Task, Release(t)
    PROVE  Abstract!Release(t)
<1>1. pc[t] = "passed" /\ pc' = [pc EXCEPT ![t] = "out"] /\ jlos_semaphore_post
    BY DEF Release
<1>2. \A u \in Task : pc'[u] = "asleep" <=> pc[u] = "asleep"
    BY <1>1 DEF IInv, Shape
<1>3. Tokens' = Tokens + 1
    BY <1>1, <1>2, PostMakesToken
<1>4. Asking' = Asking /\ Passed' = Passed \ {t} /\ t \in Passed
    BY <1>1 DEF IInv, Shape, Asking, Passed
<1>5. QED
    BY <1>3, <1>4 DEF Abstract!Release, Tokens, Asking, Passed

\* An interrupt handler's post makes a token.
LEMMA IrqAbstract ==
    ASSUME IInv, IrqPost
    PROVE  Abstract!Post
<1>1. pc' = pc /\ jlos_semaphore_post
    BY DEF IrqPost
<1>2. Tokens' = Tokens + 1
    BY <1>1, PostMakesToken
<1>3. Asking' = Asking /\ Passed' = Passed
    BY <1>1 DEF Asking, Passed
<1>4. QED
    BY <1>2, <1>3 DEF Abstract!Post, Tokens, Asking, Passed

\* Every step of the code is a step of the abstract semaphore or a stutter.
LEMMA StepAbstract == IInv /\ [Next]_vars => [Abstract!Next]_(Abstract!vars)
<1> SUFFICES ASSUME IInv, [Next]_vars PROVE [Abstract!Next]_(Abstract!vars)
    OBVIOUS
<1>1. CASE IrqPost
    BY <1>1, IrqAbstract DEF Abstract!Next
<1>2. ASSUME NEW t \in Task, SemWait(t) PROVE Abstract!Next
    BY <1>2, WaitAbstract DEF Abstract!Next
<1>3. ASSUME NEW t \in Task, Return(t) PROVE Abstract!Next
    BY <1>3, ReturnAbstract DEF Abstract!Next
<1>4. ASSUME NEW t \in Task, Release(t) PROVE Abstract!Next
    BY <1>4, ReleaseAbstract DEF Abstract!Next
<1>5. CASE UNCHANGED vars
    BY <1>5 DEF vars, Abstract!vars, Granted
<1>6. QED
    BY <1>1, <1>2, <1>3, <1>4, <1>5 DEF Next

\* The code of jlos_semaphore_wait and jlos_semaphore_post implements a
\* counting semaphore: a wait returns only with a token of its own.
THEOREM SemaphoreImplements == Spec => RefinesCountingSemaphore
BY InitInv, NextInv, InitAbstract, StepAbstract, PTL DEF Spec, RefinesCountingSemaphore, Abstract!Spec

-----------------------------------------------------------------------------
(* Kernel threads.                                                         *)

KtShape ==
    /\ queue \in Seq(KtCaller) /\ Distinct(queue) /\ work \in Nat
    /\ daemon \in [pc : {"wait", "drain", "alloc"}, req : KtCaller \cup {NoOne}]
    /\ caller \in [KtCaller -> {"idle", "post", "await", "own", "join"}]
    /\ info \in [KtCaller -> [done : {0, 1}, task : BOOLEAN]]
    /\ task \in [KtCaller -> {"none", "new", "ready", "zombie"}]
    /\ kth \in [KtCaller -> [should_stop : BOOLEAN, stopping : BOOLEAN,
                             exited_sem : {0, 1}, alive : BOOLEAN]]

\* The daemon has the caller's request, on its list or in its hands.
AtDaemon(t) == daemon.pc = "alloc" /\ daemon.req = t
Pending(t) == t \in Elements(queue) \/ AtDaemon(t)

\* A request is in one place, and a token or a post on its way covers the list.
Requests ==
    /\ daemon.pc = "alloc" => daemon.req \in KtCaller \ Elements(queue)
    /\ daemon.pc # "alloc" => daemon.req = NoOne
    /\ queue # <<>> => work > 0 \/ daemon.pc # "wait"
                       \/ \E t \in Elements(queue) : caller[t] = "post"

\* A thread that is created and not told to stop.
Live(t) ==
    kth[t] = [should_stop |-> FALSE, stopping |-> FALSE, exited_sem |-> 0, alive |-> TRUE]

\* What each place of the caller says about its request, the thread and the
\* thread's control block.
Where(t) ==
    /\ Pending(t) => caller[t] \in {"post", "await"} /\ info[t].done = 0 /\ task[t] = "none"
    /\ caller[t] \in {"post", "await"} /\ ~Pending(t) =>
           /\ info[t].done = 1
           /\ IF info[t].task THEN task[t] = "new" /\ Live(t)
              ELSE task[t] = "none" /\ ~kth[t].stopping
    /\ caller[t] = "idle" => task[t] \in {"none", "zombie"} /\ ~kth[t].stopping
    /\ caller[t] = "own" => task[t] = "ready" /\ Live(t)
    /\ caller[t] = "join" =>
           /\ kth[t].alive /\ kth[t].stopping /\ kth[t].should_stop
           /\ \/ task[t] = "ready" /\ kth[t].exited_sem = 0
              \/ task[t] = "zombie" /\ kth[t].exited_sem = 1

KtIInv == KtShape /\ Requests /\ \A t \in KtCaller : Where(t)

LEMMA KtInitInv == KtInit => KtIInv
<1> SUFFICES ASSUME KtInit PROVE KtIInv
    OBVIOUS
<1>1. queue \in Seq(KtCaller) /\ Distinct(queue) /\ Elements(queue) = {}
    BY EmptyQueue DEF KtInit
<1>2. KtShape
    BY <1>1 DEF KtInit, KtShape, Fresh
<1>3. Requests
    BY DEF KtInit, Requests
<1>4. \A t \in KtCaller : Where(t)
    BY <1>1 DEF KtInit, Where, Pending, AtDaemon, Fresh
<1>5. QED
    BY <1>2, <1>3, <1>4 DEF KtIInv

\* A step that leaves what Where says about u as it was.
Same(u) ==
    /\ caller'[u] = caller[u] /\ info'[u] = info[u] /\ task'[u] = task[u]
    /\ kth'[u] = kth[u] /\ (Pending(u)' <=> Pending(u))

LEMMA SameWhere ==
    ASSUME NEW u \in KtCaller, Where(u), Same(u)
    PROVE  Where(u)'
BY DEF Where, Same, Live

\* jlos_kthread_create links a request that is not on the list.
LEMMA PushStep ==
    ASSUME KtIInv, NEW t \in KtCaller, CreatePush(t)
    PROVE  KtIInv'
<1> USE DEF KtIInv
<1>1. /\ caller[t] = "idle" /\ task[t] = "none"
      /\ info' = [info EXCEPT ![t] = [done |-> 0, task |-> FALSE]]
      /\ queue' = <<t>> \o queue /\ caller' = [caller EXCEPT ![t] = "post"]
      /\ UNCHANGED <<work, daemon, task, kth>>
    BY DEF CreatePush, To
<1>2. ~Pending(t)
    BY <1>1 DEF Where
<1>3. /\ queue' \in Seq(KtCaller) /\ Distinct(queue')
      /\ Elements(queue') = Elements(queue) \cup {t}
    BY <1>1, <1>2, PushQueue, SMTT(30) DEF KtShape, Pending
<1>4. KtShape'
    BY <1>1, <1>3 DEF KtShape
<1>5. caller'[t] = "post" /\ info'[t].done = 0 /\ task'[t] = "none"
    BY <1>1 DEF KtShape
<1>6. Requests'
    BY <1>1, <1>2, <1>3, <1>5 DEF Requests, Pending, AtDaemon
<1>7. Where(t)'
    BY <1>3, <1>5 DEF Where, Pending
<1>8. ASSUME NEW u \in KtCaller, u # t PROVE Where(u)'
  <2>1. Same(u)
      BY <1>1, <1>3, <1>8 DEF Same, Pending, AtDaemon, KtShape
  <2>2. QED
      BY <2>1, SameWhere
<1>9. QED
    BY <1>4, <1>6, <1>7, <1>8

\* It posts the daemon's semaphore and waits for its own.
LEMMA KtPostStep ==
    ASSUME KtIInv, NEW t \in KtCaller, CreatePost(t)
    PROVE  KtIInv'
<1> USE DEF KtIInv
<1>1. /\ caller[t] = "post" /\ work' = work + 1 /\ caller' = [caller EXCEPT ![t] = "await"]
      /\ UNCHANGED <<queue, daemon, info, task, kth>>
    BY DEF CreatePost, To
<1>2. KtShape'
    BY <1>1, SMTT(30) DEF KtShape
<1>3. work' > 0
    BY <1>1, SMTT(30) DEF KtShape
<1>4. Requests'
    BY <1>1, <1>3 DEF Requests
<1>5. caller'[t] = "await" /\ \A u \in KtCaller : u # t => caller'[u] = caller[u]
    BY <1>1 DEF KtShape
<1>6. Where(t)'
    BY <1>1, <1>5 DEF Where, Pending, AtDaemon, Live
<1>7. ASSUME NEW u \in KtCaller, u # t PROVE Where(u)'
  <2>1. Same(u)
      BY <1>1, <1>5, <1>7 DEF Same, Pending, AtDaemon
  <2>2. QED
      BY <2>1, SameWhere
<1>8. QED
    BY <1>2, <1>4, <1>6, <1>7

\* The daemon takes a token.
LEMMA DaemonWaitStep ==
    ASSUME KtIInv, DaemonWait
    PROVE  KtIInv'
<1> USE DEF KtIInv
<1>1. /\ daemon.pc = "wait" /\ work > 0 /\ work' = work - 1
      /\ daemon' = [pc |-> "drain", req |-> NoOne]
      /\ UNCHANGED <<queue, caller, info, task, kth>>
    BY DEF DaemonWait
<1>2. KtShape'
    BY <1>1, SMTT(30) DEF KtShape
<1>3. Requests'
    BY <1>1 DEF Requests
<1>4. ASSUME NEW u \in KtCaller PROVE Where(u)'
  <2>1. Same(u)
      BY <1>1 DEF Same, Pending, AtDaemon
  <2>2. QED
      BY <2>1, SameWhere
<1>5. QED
    BY <1>2, <1>3, <1>4

\* The daemon takes the first request, or finds none left.
LEMMA PopStep ==
    ASSUME KtIInv, DaemonPop
    PROVE  KtIInv'
<1> USE DEF KtIInv
<1>1. daemon.pc = "drain" /\ UNCHANGED <<work, caller, info, task, kth>>
    BY DEF DaemonPop
<1>2. CASE queue = <<>>
  <2>1. daemon' = [pc |-> "wait", req |-> NoOne] /\ queue' = queue
      BY <1>2 DEF DaemonPop
  <2>2. KtShape'
      BY <1>1, <2>1 DEF KtShape
  <2>3. Requests'
      BY <1>2, <2>1 DEF Requests
  <2>4. ASSUME NEW u \in KtCaller PROVE Where(u)'
    <3>1. Same(u)
        BY <1>1, <2>1 DEF Same, Pending, AtDaemon
    <3>2. QED
        BY <3>1, SameWhere
  <2>5. QED
      BY <2>2, <2>3, <2>4
<1>3. CASE queue # <<>>
  <2>1. daemon' = [pc |-> "alloc", req |-> Head(queue)] /\ queue' = Tail(queue)
      BY <1>3 DEF DaemonPop
  <2>2. /\ queue' \in Seq(KtCaller) /\ Distinct(queue')
        /\ Elements(queue') = Elements(queue) \ {Head(queue)}
        /\ Head(queue) \in Elements(queue) /\ Head(queue) \in KtCaller
      BY <1>3, <2>1, TailQueue, QueueEmpty DEF KtShape
  <2>3. KtShape'
      BY <1>1, <2>1, <2>2 DEF KtShape
  <2>4. Requests'
      BY <2>1, <2>2 DEF Requests
  <2>5. ASSUME NEW u \in KtCaller PROVE Where(u)'
    <3>1. Same(u)
        BY <1>1, <2>1, <2>2 DEF Same, Pending, AtDaemon
    <3>2. QED
        BY <3>1, SameWhere
  <2>6. QED
      BY <2>3, <2>4, <2>5
<1>4. QED
    BY <1>2, <1>3

\* The daemon answers the request in its hands.
LEMMA AllocStep ==
    ASSUME KtIInv, NEW ok \in BOOLEAN, DaemonAlloc(ok)
    PROVE  KtIInv'
<1> USE DEF KtIInv
<1>1. PICK t \in KtCaller : t = daemon.req /\ t \notin Elements(queue)
    BY DEF DaemonAlloc, Requests
<1>2. /\ daemon.pc = "alloc"
      /\ info' = [info EXCEPT ![t] = [done |-> 1, task |-> ok]]
      /\ task' = [task EXCEPT ![t] = IF ok THEN "new" ELSE "none"]
      /\ kth' = [kth EXCEPT ![t] = Fresh(ok)]
      /\ daemon' = [pc |-> "drain", req |-> NoOne]
      /\ UNCHANGED <<queue, work, caller>>
    BY <1>1 DEF DaemonAlloc
<1>3. Fresh(ok) =
        [should_stop |-> FALSE, stopping |-> FALSE, exited_sem |-> 0, alive |-> ok]
    BY DEF Fresh
<1>4. KtShape'
    BY <1>2, <1>3, SMTT(30) DEF KtShape
<1>5. Requests'
    BY <1>2 DEF Requests
<1>6. /\ info'[t] = [done |-> 1, task |-> ok] /\ task'[t] = IF ok THEN "new" ELSE "none"
      /\ kth'[t] = [should_stop |-> FALSE, stopping |-> FALSE, exited_sem |-> 0, alive |-> ok]
      /\ \A u \in KtCaller : u # t => info'[u] = info[u] /\ task'[u] = task[u] /\ kth'[u] = kth[u]
    BY <1>2, <1>3 DEF KtShape
<1>7. Where(t)'
  <2>1. caller'[t] \in {"post", "await"} /\ ~Pending(t)'
      BY <1>1, <1>2 DEF Where, Pending, AtDaemon
  <2>2. info'[t].done = 1 /\ info'[t].task = ok
      BY <1>6, SMTT(30)
  <2>3. CASE ok = TRUE
    <3>1. info'[t].task /\ task'[t] = "new" /\ Live(t)'
        BY <1>6, <2>2, <2>3 DEF Live
    <3>2. QED
        BY <2>1, <2>2, <3>1 DEF Where
  <2>4. CASE ok = FALSE
    <3>1. ~info'[t].task /\ task'[t] = "none" /\ ~kth'[t].stopping
        BY <1>6, <2>2, <2>4, SMTT(30)
    <3>2. QED
        BY <2>1, <2>2, <3>1 DEF Where
  <2>5. QED
      BY <2>3, <2>4
<1>8. ASSUME NEW u \in KtCaller, u # t PROVE Where(u)'
  <2>1. Same(u)
      BY <1>1, <1>2, <1>6, <1>8 DEF Same, Pending, AtDaemon
  <2>2. QED
      BY <2>1, SameWhere
<1>9. QED
    BY <1>4, <1>5, <1>7, <1>8

\* The caller has its answer: the request leaves its stack.
LEMMA CreateReturnStep ==
    ASSUME KtIInv, NEW t \in KtCaller, CreateReturn(t)
    PROVE  KtIInv'
<1> USE DEF KtIInv
<1>1. /\ caller[t] = "await" /\ info[t].done = 1 /\ info' = [info EXCEPT ![t].done = 0]
      /\ UNCHANGED <<queue, work, daemon, kth>>
      /\ IF info[t].task
         THEN caller' = [caller EXCEPT ![t] = "own"] /\ task' = [task EXCEPT ![t] = "ready"]
         ELSE caller' = [caller EXCEPT ![t] = "idle"] /\ task' = task
    BY DEF CreateReturn, To
<1>2. ~Pending(t) /\ ~Pending(t)'
    BY <1>1, SMTT(30) DEF Where, Pending, AtDaemon
<1>3. KtShape'
    BY <1>1 DEF KtShape
<1>4. \A u \in KtCaller : u # t => /\ caller'[u] = caller[u] /\ info'[u] = info[u]
                                    /\ task'[u] = task[u]
    BY <1>1 DEF KtShape
<1>5. Requests'
  <2>1. \A u \in Elements(queue) : u # t /\ u \in KtCaller
      BY <1>2, QueueEmpty, SMTT(30) DEF Pending, KtShape
  <2>2. QED
      BY <1>1, <1>4, <2>1 DEF Requests
<1>6. Where(t)'
  <2>1. CASE info[t].task
    <3>1. caller'[t] = "own" /\ task'[t] = "ready" /\ Live(t)'
        BY <1>1, <1>2, <2>1, SMTT(30) DEF KtShape, Where, Live
    <3>2. QED
        BY <1>2, <3>1 DEF Where
  <2>2. CASE ~info[t].task
    <3>1. caller'[t] = "idle" /\ task'[t] = "none"
        BY <1>1, <1>2, <2>2, SMTT(30) DEF KtShape, Where
    <3>2. ~kth'[t].stopping
        BY <1>1, <1>2, <2>2 DEF Where
    <3>3. QED
        BY <1>2, <3>1, <3>2 DEF Where
  <2>3. QED
      BY <2>1, <2>2
<1>7. ASSUME NEW u \in KtCaller, u # t PROVE Where(u)'
  <2>1. Same(u)
      BY <1>1, <1>4, <1>7 DEF Same, Pending, AtDaemon
  <2>2. QED
      BY <2>1, SameWhere
<1>8. QED
    BY <1>3, <1>5, <1>6, <1>7

\* jlos_kthread_stop marks the thread before it tells it to stop.
LEMMA StopBeginStep ==
    ASSUME KtIInv, NEW t \in KtCaller, StopBegin(t)
    PROVE  KtIInv'
<1> USE DEF KtIInv
<1>1. /\ caller[t] = "own" /\ caller' = [caller EXCEPT ![t] = "join"]
      /\ kth' = [kth EXCEPT ![t].stopping = TRUE, ![t].should_stop = TRUE]
      /\ UNCHANGED <<queue, work, daemon, info, task>>
    BY DEF StopBegin, To
<1>2. ~Pending(t) /\ ~Pending(t)' /\ task[t] = "ready" /\ Live(t)
    BY <1>1 DEF Where, Pending, AtDaemon
<1>3. KtShape'
    BY <1>1 DEF KtShape
<1>4. /\ caller'[t] = "join" /\ kth'[t].alive /\ kth'[t].stopping
      /\ kth'[t].should_stop /\ kth'[t].exited_sem = 0
      /\ \A u \in KtCaller : u # t => caller'[u] = caller[u] /\ kth'[u] = kth[u]
    BY <1>1, <1>2, SMTT(30) DEF KtShape, Live
<1>5. Requests'
  <2>1. \A u \in Elements(queue) : u # t /\ u \in KtCaller
      BY <1>2, QueueEmpty DEF Pending, KtShape
  <2>2. QED
      BY <1>1, <1>4, <2>1 DEF Requests
<1>6. Where(t)'
    BY <1>1, <1>2, <1>4 DEF Where
<1>7. ASSUME NEW u \in KtCaller, u # t PROVE Where(u)'
  <2>1. Same(u)
      BY <1>1, <1>4, <1>7 DEF Same, Pending, AtDaemon
  <2>2. QED
      BY <2>1, SameWhere
<1>8. QED
    BY <1>3, <1>5, <1>6, <1>7

\* The thread returns: only one whose stop is waiting for it does.
LEMMA EntryStep ==
    ASSUME KtIInv, NEW t \in KtCaller, jlos_kthread_entry(t)
    PROVE  KtIInv'
<1> USE DEF KtIInv
<1>1. /\ task[t] = "ready" /\ kth[t].should_stop
      /\ kth' = [kth EXCEPT ![t].exited_sem = 1] /\ task' = [task EXCEPT ![t] = "zombie"]
      /\ UNCHANGED <<queue, work, daemon, caller, info>>
    BY DEF jlos_kthread_entry
<1>2. caller[t] = "join" /\ ~Pending(t) /\ ~Pending(t)'
  <2>1. Where(t) /\ caller[t] \in {"idle", "post", "await", "own", "join"}
      BY DEF KtShape
  <2>2. ~Live(t)
      BY <1>1, SMTT(30) DEF Live
  <2>3. ~Pending(t)
      BY <1>1, <2>1 DEF Where
  <2>4. caller[t] = "join"
      BY <1>1, <2>1, <2>2, <2>3 DEF Where
  <2>5. QED
      BY <1>1, <2>3, <2>4 DEF Pending, AtDaemon
<1>3. KtShape'
  <2>1. kth' \in [KtCaller -> [should_stop : BOOLEAN, stopping : BOOLEAN,
                               exited_sem : {0, 1}, alive : BOOLEAN]]
      BY <1>1 DEF KtShape
  <2>2. task' \in [KtCaller -> {"none", "new", "ready", "zombie"}]
      BY <1>1 DEF KtShape
  <2>3. QED
      BY <1>1, <2>1, <2>2 DEF KtShape
<1>4. /\ task'[t] = "zombie" /\ kth'[t].exited_sem = 1
      /\ kth'[t].alive = kth[t].alive /\ kth'[t].stopping = kth[t].stopping
      /\ kth'[t].should_stop = kth[t].should_stop
      /\ \A u \in KtCaller : u # t => task'[u] = task[u] /\ kth'[u] = kth[u]
    BY <1>1 DEF KtShape
<1>5. Requests'
    BY <1>1 DEF Requests
<1>6. Where(t)'
    BY <1>1, <1>2, <1>4 DEF Where
<1>7. ASSUME NEW u \in KtCaller, u # t PROVE Where(u)'
  <2>1. Same(u)
      BY <1>1, <1>4, <1>7 DEF Same, Pending, AtDaemon
  <2>2. QED
      BY <2>1, SameWhere
<1>8. QED
    BY <1>3, <1>5, <1>6, <1>7

\* The stop returns and leaves the thread to the reaper.
LEMMA StopReturnStep ==
    ASSUME KtIInv, NEW t \in KtCaller, StopReturn(t)
    PROVE  KtIInv'
<1> USE DEF KtIInv
<1>1. /\ caller[t] = "join" /\ kth[t].exited_sem = 1
      /\ kth' = [kth EXCEPT ![t].exited_sem = 0, ![t].stopping = FALSE]
      /\ caller' = [caller EXCEPT ![t] = "idle"]
      /\ UNCHANGED <<queue, work, daemon, info, task>>
    BY DEF StopReturn, To
<1>2. ~Pending(t) /\ ~Pending(t)' /\ task[t] = "zombie"
    BY <1>1, SMTT(30) DEF Where, Pending, AtDaemon
<1>3. KtShape'
    BY <1>1 DEF KtShape
<1>4. /\ caller'[t] = "idle" /\ ~kth'[t].stopping
      /\ \A u \in KtCaller : u # t => caller'[u] = caller[u] /\ kth'[u] = kth[u]
    BY <1>1 DEF KtShape
<1>5. Requests'
  <2>1. \A u \in Elements(queue) : u # t /\ u \in KtCaller
      BY <1>2, QueueEmpty, SMTT(30) DEF Pending, KtShape
  <2>2. QED
      BY <1>1, <1>4, <2>1 DEF Requests
<1>6. Where(t)'
    BY <1>1, <1>2, <1>4 DEF Where
<1>7. ASSUME NEW u \in KtCaller, u # t PROVE Where(u)'
  <2>1. Same(u)
      BY <1>1, <1>4, <1>7 DEF Same, Pending, AtDaemon
  <2>2. QED
      BY <2>1, SameWhere
<1>8. QED
    BY <1>3, <1>5, <1>6, <1>7

\* The reaper takes only a thread that no stop waits for.
LEMMA ReapStep ==
    ASSUME KtIInv, NEW t \in KtCaller, Reap(t)
    PROVE  KtIInv'
<1> USE DEF KtIInv
<1>1. /\ task[t] = "zombie" /\ ~kth[t].stopping
      /\ task' = [task EXCEPT ![t] = "none"] /\ kth' = [kth EXCEPT ![t] = Fresh(FALSE)]
      /\ UNCHANGED <<queue, work, daemon, caller, info>>
    BY DEF Reap
<1>2. caller[t] = "idle" /\ ~Pending(t) /\ ~Pending(t)'
  <2>1. Where(t) /\ caller[t] \in {"idle", "post", "await", "own", "join"}
      BY DEF KtShape
  <2>2. ~Pending(t)
      BY <1>1, <2>1 DEF Where
  <2>3. caller[t] = "idle"
      BY <1>1, <2>1, <2>2 DEF Where
  <2>4. QED
      BY <1>1, <2>2, <2>3 DEF Pending, AtDaemon
<1>3. KtShape'
    BY <1>1 DEF KtShape, Fresh
<1>4. /\ task'[t] = "none" /\ ~kth'[t].stopping
      /\ \A u \in KtCaller : u # t => task'[u] = task[u] /\ kth'[u] = kth[u]
    BY <1>1 DEF KtShape, Fresh
<1>5. Requests'
    BY <1>1 DEF Requests
<1>6. Where(t)'
    BY <1>1, <1>2, <1>4 DEF Where
<1>7. ASSUME NEW u \in KtCaller, u # t PROVE Where(u)'
  <2>1. Same(u)
      BY <1>1, <1>4, <1>7 DEF Same, Pending, AtDaemon
  <2>2. QED
      BY <2>1, SameWhere
<1>8. QED
    BY <1>3, <1>5, <1>6, <1>7

\* KtIInv is inductive.
LEMMA KtNextInv == KtIInv /\ [KtNext]_ktVars => KtIInv'
<1> SUFFICES ASSUME KtIInv, [KtNext]_ktVars PROVE KtIInv'
    OBVIOUS
<1>1. CASE Daemon
    BY <1>1, DaemonWaitStep, PopStep, AllocStep DEF Daemon
<1>2. ASSUME NEW t \in KtCaller, CreatePush(t) \/ StopBegin(t) \/ KtStep(t)
      PROVE  KtIInv'
    BY <1>2, PushStep, StopBeginStep, KtPostStep, CreateReturnStep, StopReturnStep,
       EntryStep, ReapStep DEF KtStep
<1>3. CASE UNCHANGED ktVars
  <2>1. UNCHANGED <<queue, work, daemon, caller, info, task, kth>>
      BY <1>3 DEF ktVars
  <2>2. KtShape'
      BY <2>1 DEF KtIInv, KtShape
  <2>3. Requests'
      BY <2>1 DEF KtIInv, Requests
  <2>4. \A t \in KtCaller : Where(t)'
      BY <2>1, SMTT(30) DEF KtIInv, Where, Pending, AtDaemon, Live
  <2>5. QED
      BY <2>2, <2>3, <2>4 DEF KtIInv
<1>4. QED
    BY <1>1, <1>2, <1>3 DEF KtNext

\* The invariant implies what the run checks.
LEMMA KtInvSound == KtIInv => KtSound
<1> SUFFICES ASSUME KtIInv PROVE KtSound
    OBVIOUS
<1> USE DEF KtIInv
<1>1. \A i \in 1 .. Len(queue) : queue[i] \in Elements(queue) /\ queue[i] \in KtCaller
    BY QueueEmpty, SMTT(30) DEF KtShape, Elements
<1>2. KtTypeOK
    BY <1>1 DEF KtTypeOK, KtShape
<1>3. RequestAlive
  <2>1. daemon.req # NoOne => caller[daemon.req] \in {"post", "await"}
      BY DEF Requests, Where, Pending, AtDaemon
  <2>2. \A i \in 1 .. Len(queue) : caller[queue[i]] \in {"post", "await"}
      BY <1>1 DEF Where, Pending
  <2>3. queue # <<>> => work > 0 \/ daemon.pc # "wait"
                        \/ \E i \in 1 .. Len(queue) : caller[queue[i]] = "post"
      BY DEF Requests, Elements
  <2>4. QED
      BY <2>1, <2>2, <2>3 DEF RequestAlive
<1>4. StopOnLive
    BY DEF StopOnLive, Where
<1>5. QED
    BY <1>2, <1>3, <1>4 DEF KtSound

\* jlos_kthread_daemon_main writes only to requests whose caller still waits,
\* and jlos_kthread_stop waits only on a control block that is not freed.
THEOREM KthreadsSafe == KtSpec => []KtSound
BY KtInitInv, KtNextInv, KtInvSound, PTL DEF KtSpec

-----------------------------------------------------------------------------
(* The message queue.                                                      *)

MqIInv == MqTypeOK /\ TokensCoverMessages

\* Counting the senders and receivers that a step adds or takes away.
LEMMA Count ==
    ASSUME NEW S, IsFiniteSet(S), NEW T \in SUBSET S
    PROVE  /\ IsFiniteSet(T) /\ Cardinality(T) \in Nat
           /\ \A x \in S : x \notin T => Cardinality(T \cup {x}) = Cardinality(T) + 1
           /\ \A x \in T : Cardinality(T \ {x}) = Cardinality(T) - 1 /\ Cardinality(T) > 0
<1>1. IsFiniteSet(T) /\ Cardinality(T) \in Nat
    BY FS_Subset, FS_CardinalityType
<1>2. \A x \in S : x \notin T => Cardinality(T \cup {x}) = Cardinality(T) + 1
    BY <1>1, FS_AddElement
<1>3. \A x \in T : Cardinality(T \ {x}) = Cardinality(T) - 1
    BY <1>1, FS_RemoveElement
<1>4. \A x \in T : Cardinality(T) # 0
    BY <1>1, FS_EmptySet
<1>5. QED
    BY <1>1, <1>2, <1>3, <1>4, SMTT(30)

LEMMA MqNextInv == MqIInv /\ [MqNext]_mqVars => MqIInv'
<1> SUFFICES ASSUME MqIInv, [MqNext]_mqVars PROVE MqIInv'
    OBVIOUS
<1> USE DEF MqIInv
<1>0. /\ posting \in SUBSET MqSender /\ taking \in SUBSET MqReceiver
      /\ Cardinality(posting) \in Nat /\ Cardinality(taking) \in Nat
    BY Count, MqAssumption DEF MqTypeOK
<1>1. ASSUME NEW s \in MqSender, jlos_mq_send(s) PROVE MqIInv'
  <2>1. Cardinality(posting') = Cardinality(posting) + 1
      BY <1>0, <1>1, Count, MqAssumption DEF jlos_mq_send
  <2>2. TokensCoverMessages'
      BY <1>0, <1>1, <2>1, SMTT(30) DEF jlos_mq_send, TokensCoverMessages, MqTypeOK
  <2>3. MqTypeOK'
      BY <1>1, MqAssumption, SMTT(30) DEF jlos_mq_send, MqTypeOK
  <2>4. QED
      BY <2>2, <2>3
<1>2. ASSUME NEW s \in MqSender, SendPost(s) PROVE MqIInv'
  <2>1. Cardinality(posting') = Cardinality(posting) - 1
      BY <1>0, <1>2, Count, MqAssumption DEF SendPost
  <2>2. TokensCoverMessages'
      BY <1>0, <1>2, <2>1, SMTT(30) DEF SendPost, TokensCoverMessages, MqTypeOK
  <2>3. MqTypeOK'
      BY <1>2, SMTT(30) DEF SendPost, MqTypeOK
  <2>4. QED
      BY <2>2, <2>3
<1>3. ASSUME NEW r \in MqReceiver, jlos_mq_recv(r) PROVE MqIInv'
    BY <1>3 DEF jlos_mq_recv, TokensCoverMessages, MqTypeOK
<1>4. ASSUME NEW r \in MqReceiver, RecvWait(r) PROVE MqIInv'
  <2>1. r \notin taking
      BY <1>4 DEF RecvWait, MqTypeOK
  <2>2. Cardinality(taking') = Cardinality(taking) + 1
      BY <1>0, <1>4, <2>1, Count, MqAssumption DEF RecvWait
  <2>3. TokensCoverMessages'
      BY <1>0, <1>4, <2>2, SMTT(30) DEF RecvWait, TokensCoverMessages, MqTypeOK
  <2>4. MqTypeOK'
      BY <1>4, SMTT(30) DEF RecvWait, MqTypeOK
  <2>5. QED
      BY <2>3, <2>4
<1>5. ASSUME NEW r \in MqReceiver, RecvTake(r) PROVE MqIInv'
  <2>1. r \in taking /\ taking' = taking \ {r} /\ UNCHANGED <<items, posting, waiting>>
      BY <1>5 DEF RecvTake
  <2>2. Cardinality(taking') = Cardinality(taking) - 1 /\ Cardinality(taking) > 0
      BY <1>0, <2>1, Count, MqAssumption
  <2>3. CASE count = 0
    <3>1. lost' = lost - 1 /\ count' = count
        BY <1>5, <2>3 DEF RecvTake
    <3>2. lost > 0
        BY <1>0, <2>2, <2>3, SMTT(30) DEF TokensCoverMessages, MqTypeOK
    <3>3. TokensCoverMessages'
        BY <1>0, <2>1, <2>2, <3>1, SMTT(30) DEF TokensCoverMessages, MqTypeOK
    <3>4. MqTypeOK'
        BY <2>1, <3>1, <3>2, MqAssumption, SMTT(30) DEF MqTypeOK
    <3>5. QED
        BY <3>3, <3>4
  <2>4. CASE count # 0
    <3>1. count' = count - 1 /\ lost' = lost
        BY <1>5, <2>4 DEF RecvTake
    <3>2. TokensCoverMessages'
        BY <1>0, <2>1, <2>2, <3>1, SMTT(30) DEF TokensCoverMessages, MqTypeOK
    <3>3. MqTypeOK'
        BY <2>1, <2>4, <3>1, MqAssumption, SMTT(30) DEF MqTypeOK
    <3>4. QED
        BY <3>2, <3>3
  <2>5. QED
      BY <2>3, <2>4
<1>6. CASE jlos_mq_destroy
    BY <1>0, <1>6, MqAssumption, SMTT(30) DEF jlos_mq_destroy, TokensCoverMessages, MqTypeOK
<1>7. CASE UNCHANGED mqVars
    BY <1>7 DEF mqVars, TokensCoverMessages, MqTypeOK
<1>8. QED
    BY <1>1, <1>2, <1>3, <1>4, <1>5, <1>6, <1>7 DEF MqNext

\* jlos_mq_send and jlos_mq_recv lose no token and make none up: a receive that
\* finds the list empty has the token of a message that a destroy has freed.
THEOREM TokensAccounted == MqSpec => []TokensCoverMessages
<1>1. MqInit => MqIInv
    BY FS_EmptySet, MqAssumption, SMTT(30) DEF MqInit, MqIInv, MqTypeOK, TokensCoverMessages
<1>2. MqIInv => TokensCoverMessages
    BY DEF MqIInv
<1>3. QED
    BY <1>1, <1>2, MqNextInv, PTL DEF MqSpec
=============================================================================
