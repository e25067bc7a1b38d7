------------------------------ MODULE Kthread ------------------------------
(***************************************************************************)
(* Kernel threads: a caller pushes a request that lives on its own stack,  *)
(* the daemon allocates the thread and posts the request's semaphore; a    *)
(* thread that has returned is freed by the reaper unless a stop is in     *)
(* progress.  Threads return only when they are told to stop.              *)
(*                                                                         *)
(* kernel/kthread.c, kernel/multitask.c                                    *)
(***************************************************************************)
EXTENDS Integers, Sequences

CONSTANTS
    KtCaller,    \* threads that create and stop one kernel thread each
    KtTokens     \* bound on the tokens a busy daemon leaves behind

VARIABLES
    queue,     \* s_kthread_daemon_queue
    work,      \* tokens of s_kthread_daemon_work
    daemon,    \* [pc, req]
    caller,    \* [KtCaller -> where the caller is]
    info,      \* [KtCaller -> [done, task]]: the request on the caller's stack
    task,      \* [KtCaller -> status of the thread created for this caller]
    kth        \* [KtCaller -> [should_stop, stopping, exited_sem, alive]]

ktVars == <<queue, work, daemon, caller, info, task, kth>>

NoOne == "none"
Fresh(alive) == [should_stop |-> FALSE, stopping |-> FALSE, exited_sem |-> 0, alive |-> alive]

KtTypeOK ==
    /\ \A i \in 1 .. Len(queue) : queue[i] \in KtCaller
    /\ work \in Nat
    /\ daemon.pc \in {"wait", "drain", "alloc"} /\ daemon.req \in KtCaller \cup {NoOne}
    /\ caller \in [KtCaller -> {"idle", "post", "await", "own", "join"}]
    /\ task \in [KtCaller -> {"none", "new", "ready", "zombie"}]

KtInit ==
    /\ queue = <<>> /\ work = 0 /\ daemon = [pc |-> "wait", req |-> NoOne]
    /\ caller = [t \in KtCaller |-> "idle"]
    /\ info = [t \in KtCaller |-> [done |-> 0, task |-> FALSE]]
    /\ task = [t \in KtCaller |-> "none"] /\ kth = [t \in KtCaller |-> Fresh(FALSE)]

To(t, pc) == caller' = [caller EXCEPT ![t] = pc]
---------------------------------------------------------------------------
(* jlos_kthread_create, jlos_kthread_daemon_main                           *)

CreatePush(t) ==
    /\ caller[t] = "idle" /\ task[t] = "none" /\ work < KtTokens
    /\ info' = [info EXCEPT ![t] = [done |-> 0, task |-> FALSE]]
    /\ queue' = <<t>> \o queue /\ To(t, "post")
    /\ UNCHANGED <<work, daemon, task, kth>>

CreatePost(t) ==
    /\ caller[t] = "post" /\ work' = work + 1 /\ To(t, "await")
    /\ UNCHANGED <<queue, daemon, info, task, kth>>

DaemonWait ==
    /\ daemon.pc = "wait" /\ work > 0 /\ work' = work - 1
    /\ daemon' = [pc |-> "drain", req |-> NoOne]
    /\ UNCHANGED <<queue, caller, info, task, kth>>

\* one request for each token
DaemonPop ==
    /\ daemon.pc = "drain"
    /\ daemon' = IF queue = <<>> THEN [pc |-> "wait", req |-> NoOne]
                 ELSE [pc |-> "alloc", req |-> Head(queue)]
    /\ queue' = IF queue = <<>> THEN <<>> ELSE Tail(queue)
    /\ UNCHANGED <<work, caller, info, task, kth>>

\* jlos_kthread_alloc, which may fail, and the post of the request.
DaemonAlloc(ok) ==
    LET t == daemon.req
    IN  /\ daemon.pc = "alloc"
        /\ info' = [info EXCEPT ![t] = [done |-> 1, task |-> ok]]
        /\ task' = [task EXCEPT ![t] = IF ok THEN "new" ELSE "none"]
        /\ kth' = [kth EXCEPT ![t] = Fresh(ok)]
        /\ daemon' = [pc |-> "drain", req |-> NoOne]
        /\ UNCHANGED <<queue, work, caller>>

\* jlos_kthread_run: the new thread is put on a run queue.
CreateReturn(t) ==
    /\ caller[t] = "await" /\ info[t].done = 1
    /\ info' = [info EXCEPT ![t].done = 0]
    /\ IF info[t].task THEN To(t, "own") /\ task' = [task EXCEPT ![t] = "ready"]
       ELSE To(t, "idle") /\ UNCHANGED task
    /\ UNCHANGED <<queue, work, daemon, kth>>
---------------------------------------------------------------------------
(* jlos_kthread_stop, jlos_kthread_entry and the reaper                    *)

\* Fault: the thread may be reaped while the stop waits for it.
StopBegin_Unmarked(t) ==
    /\ caller[t] = "own"
    /\ kth' = [kth EXCEPT ![t].should_stop = TRUE]
    /\ To(t, "join") /\ UNCHANGED <<queue, work, daemon, info, task>>

\* The thread is marked against the reaper before it is told to stop.
StopBegin(t) ==
    /\ caller[t] = "own"
    /\ kth' = [kth EXCEPT ![t].stopping = TRUE, ![t].should_stop = TRUE]
    /\ To(t, "join") /\ UNCHANGED <<queue, work, daemon, info, task>>

\* Fault: the thread leaves without a word.
jlos_kthread_entry_NoPost(t) ==
    /\ task[t] = "ready" /\ kth[t].should_stop /\ kth[t].exited_sem = 0
    /\ task' = [task EXCEPT ![t] = "zombie"]
    /\ UNCHANGED <<queue, work, daemon, caller, info, kth>>

\* The thread sees should_stop, returns, and becomes a zombie.
jlos_kthread_entry(t) ==
    /\ task[t] = "ready" /\ kth[t].should_stop /\ kth[t].exited_sem = 0
    /\ kth' = [kth EXCEPT ![t].exited_sem = 1]
    /\ task' = [task EXCEPT ![t] = "zombie"]
    /\ UNCHANGED <<queue, work, daemon, caller, info>>

StopReturn(t) ==
    /\ caller[t] = "join" /\ kth[t].exited_sem = 1
    /\ kth' = [kth EXCEPT ![t].exited_sem = 0, ![t].stopping = FALSE]
    /\ To(t, "idle") /\ UNCHANGED <<queue, work, daemon, info, task>>

\* jlos_kthread_can_release, jlos_kthread_release
Reap(t) ==
    /\ task[t] = "zombie" /\ ~kth[t].stopping
    /\ task' = [task EXCEPT ![t] = "none"]
    /\ kth' = [kth EXCEPT ![t] = Fresh(FALSE)]
    /\ UNCHANGED <<queue, work, daemon, caller, info>>

Daemon == DaemonWait \/ DaemonPop \/ \E ok \in BOOLEAN : DaemonAlloc(ok)
KtStep(t) == CreatePost(t) \/ CreateReturn(t) \/ StopReturn(t) \/ jlos_kthread_entry(t) \/ Reap(t)

KtNext ==
    \/ Daemon
    \/ \E t \in KtCaller : CreatePush(t) \/ StopBegin(t) \/ KtStep(t)

KtFairness == WF_ktVars(Daemon) /\ \A t \in KtCaller : WF_ktVars(KtStep(t))

KtSpec == KtInit /\ [][KtNext]_ktVars /\ KtFairness
---------------------------------------------------------------------------
\* The daemon writes to a request only while its caller waits for it: the
\* request is on a stack that is gone once the call has returned.
RequestAlive ==
    /\ daemon.req # NoOne => caller[daemon.req] \in {"post", "await"}
    /\ \A i \in 1 .. Len(queue) : caller[queue[i]] \in {"post", "await"}
    /\ queue # <<>> => work > 0 \/ daemon.pc # "wait"
                       \/ \E i \in 1 .. Len(queue) : caller[queue[i]] = "post"

\* The control block a stop waits on is not freed under it by the reaper.
StopOnLive == \A t \in KtCaller : caller[t] = "join" => kth[t].alive

\* Whoever uses a request or a control block finds it there.
KtSound == KtTypeOK /\ RequestAlive /\ StopOnLive

\* A stop returns once the thread has, and the thread is then reaped.
StopReturns == \A t \in KtCaller : []<>(caller[t] # "join") /\ []<>(task[t] # "zombie")
=============================================================================
