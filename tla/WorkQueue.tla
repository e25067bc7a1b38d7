----------------------------- MODULE WorkQueue -----------------------------
(***************************************************************************)
(* Work queues: one list, one counting semaphore and one worker thread per *)
(* CPU; flush puts a barrier on each list in turn and waits for it, and    *)
(* destroy flushes, stops the workers and waits until each has left.       *)
(* Semaphores are the atomic ones of CountingSemaphore.                    *)
(*                                                                         *)
(* kernel/workqueue.c                                                      *)
(***************************************************************************)
EXTENDS Integers, Sequences

CONSTANTS
    WqCpus,     \* jlos_hal_num_cpus: the CPUs are 1 .. WqCpus
    WqWork,     \* work items
    WqClient,   \* threads that queue, flush and destroy
    WqTokens    \* bound on the tokens a busy worker leaves behind

\* A work item is no barrier, and there is a CPU.
ASSUME WqAssumption ==
    /\ WqCpus \in Nat \ {0} /\ WqTokens \in Nat
    /\ WqWork \cap WqClient = {} /\ "none" \notin WqWork \cup WqClient

WqCpu == 1 .. WqCpus
NoItem == [item |-> "none", owed |-> {}]

VARIABLES
    list,      \* [WqCpu -> sequence of [item, owed]]; owed is a ghost: the
               \* clients whose flush began when the item was already queued
    work_sem,  \* [WqCpu -> tokens]
    pending,   \* [WqWork -> BOOLEAN]
    worker,    \* [WqCpu -> [pc, cur]]
    stop,      \* [WqCpu -> BOOLEAN]
    exited,    \* [WqCpu -> tokens of exited_sem]
    client,    \* [WqClient -> [pc, cpu, item, destroy]]
    done,      \* [WqClient -> tokens of the barrier's semaphore]
    freed      \* the work queue is freed

wqVars == <<list, work_sem, pending, worker, stop, exited, client, done, freed>>

Item == WqWork \cup WqClient
Entry == [item : Item, owed : SUBSET WqClient]
NoCall == [pc |-> "idle", cpu |-> 0, item |-> "none", destroy |-> FALSE]

WqTypeOK ==
    /\ list \in [WqCpu -> Seq(Entry)]
    /\ work_sem \in [WqCpu -> Nat] /\ exited \in [WqCpu -> 0 .. 1]
    /\ pending \in [WqWork -> BOOLEAN] /\ stop \in [WqCpu -> BOOLEAN]
    /\ done \in [WqClient -> 0 .. 1] /\ freed \in BOOLEAN
    /\ worker \in [WqCpu -> [pc : {"wait", "drain", "clear", "run", "exit"},
                             cur : Entry \cup {NoItem}]]
    /\ client \in [WqClient -> [pc : {"idle", "add", "post", "wait", "stop", "join"},
                                cpu : 0 .. WqCpus, item : Item \cup {"none"}, destroy : BOOLEAN]]

\* jlos_workqueue_create
WqInit ==
    /\ list = [c \in WqCpu |-> <<>>] /\ work_sem = [c \in WqCpu |-> 0]
    /\ pending = [w \in WqWork |-> FALSE] /\ stop = [c \in WqCpu |-> FALSE]
    /\ worker = [c \in WqCpu |-> [pc |-> "wait", cur |-> NoItem]]
    /\ exited = [c \in WqCpu |-> 0] /\ client = [t \in WqClient |-> NoCall]
    /\ done = [t \in WqClient |-> 0] /\ freed = FALSE
---------------------------------------------------------------------------
(* jlos_workqueue_worker                                                   *)

WorkerTo(c, pc, cur) == worker' = [worker EXCEPT ![c] = [pc |-> pc, cur |-> cur]]

WorkerWait(c) ==
    /\ worker[c].pc = "wait" /\ work_sem[c] > 0
    /\ work_sem' = [work_sem EXCEPT ![c] = @ - 1]
    /\ WorkerTo(c, "drain", NoItem)
    /\ UNCHANGED <<list, pending, stop, exited, client, done, freed>>

\* The next item; with none left, leave when told to stop.
WorkerPop(c) ==
    /\ worker[c].pc = "drain"
    /\ IF list[c] # <<>>
       THEN /\ WorkerTo(c, "clear", Head(list[c]))
            /\ list' = [list EXCEPT ![c] = Tail(@)] /\ UNCHANGED exited
       ELSE /\ UNCHANGED list
            /\ IF stop[c] THEN WorkerTo(c, "exit", NoItem) /\ exited' = [exited EXCEPT ![c] = 1]
               ELSE WorkerTo(c, "wait", NoItem) /\ UNCHANGED exited
    /\ UNCHANGED <<work_sem, pending, stop, client, done, freed>>

\* From here the item may be queued again, here or elsewhere.
WorkerClear(c) ==
    /\ worker[c].pc = "clear"
    /\ pending' = [w \in WqWork |-> pending[w] /\ w # worker[c].cur.item]
    /\ WorkerTo(c, "run", worker[c].cur)
    /\ UNCHANGED <<list, work_sem, stop, exited, client, done, freed>>

\* work->func; the function of a barrier posts its semaphore.
WorkerRun(c) ==
    /\ worker[c].pc = "run"
    /\ done' = [t \in WqClient |-> IF t = worker[c].cur.item THEN 1 ELSE done[t]]
    /\ WorkerTo(c, "drain", NoItem)
    /\ UNCHANGED <<list, work_sem, pending, stop, exited, client, freed>>

Worker(c) == WorkerWait(c) \/ WorkerPop(c) \/ WorkerClear(c) \/ WorkerRun(c)
---------------------------------------------------------------------------
(* jlos_queue_work_on, also the way a barrier gets on a list               *)

ClientTo(t, pc, cpu, item) ==
    client' = [client EXCEPT ![t] = [@ EXCEPT !.pc = pc, !.cpu = cpu, !.item = item]]

Destroying == \E t \in WqClient : client[t].destroy

\* An item that is pending already is not queued again.
QueueMark(t, c, w) ==
    /\ client[t].pc = "idle" /\ ~freed /\ ~Destroying /\ work_sem[c] < WqTokens
    /\ pending' = [pending EXCEPT ![w] = TRUE]
    /\ IF pending[w] THEN UNCHANGED client ELSE ClientTo(t, "add", c, w)
    /\ UNCHANGED <<list, work_sem, worker, stop, exited, done, freed>>

\* Fault: the work goes to the head of the list.
QueueAdd_AtHead(t) ==
    LET k == client[t]
    IN  /\ k.pc = "add"
        /\ list' = [list EXCEPT ![k.cpu] = <<[item |-> k.item, owed |-> {}]>> \o @]
        /\ ClientTo(t, "post", k.cpu, k.item)
        /\ UNCHANGED <<work_sem, pending, worker, stop, exited, done, freed>>

\* The item is linked at the tail, under the lock of the list.
QueueAdd(t) ==
    LET k == client[t]
    IN  /\ k.pc = "add"
        /\ list' = [list EXCEPT ![k.cpu] = Append(@, [item |-> k.item, owed |-> {}])]
        /\ ClientTo(t, "post", k.cpu, k.item)
        /\ UNCHANGED <<work_sem, pending, worker, stop, exited, done, freed>>

\* A token for every item; a flush then waits for its barrier.
QueuePost(t) ==
    LET k == client[t]
    IN  /\ k.pc = "post"
        /\ work_sem' = [work_sem EXCEPT ![k.cpu] = @ + 1]
        /\ IF k.item = t THEN ClientTo(t, "wait", k.cpu, t) ELSE ClientTo(t, "idle", 0, "none")
        /\ UNCHANGED <<list, pending, worker, stop, exited, done, freed>>
---------------------------------------------------------------------------
(* jlos_flush_workqueue and jlos_workqueue_destroy                         *)

\* Everything queued or running now is owed to client t.
Owe(t) ==
    LET mark(e) == [e EXCEPT !.owed = @ \cup {t}]
    IN  /\ list' = [c \in WqCpu |-> [i \in 1 .. Len(list[c]) |-> mark(list[c][i])]]
        /\ worker' = [c \in WqCpu |-> IF worker[c].cur = NoItem THEN worker[c]
                                      ELSE [worker[c] EXCEPT !.cur = mark(@)]]

jlos_flush_workqueue(t, destroy) ==
    /\ client[t].pc = "idle" /\ ~freed /\ ~Destroying
    /\ \A c \in WqCpu : work_sem[c] < WqTokens
    /\ destroy => \A u \in WqClient \ {t} : client[u].pc = "idle"
    /\ Owe(t)
    /\ client' = [client EXCEPT ![t] = [pc |-> "add", cpu |-> 1, item |-> t, destroy |-> destroy]]
    /\ UNCHANGED <<work_sem, pending, stop, exited, done, freed>>

\* The barrier of this CPU has run: on to the next one.
FlushWait(t) ==
    LET k == client[t]
    IN  /\ k.pc = "wait" /\ done[t] = 1
        /\ done' = [done EXCEPT ![t] = 0]
        /\ IF k.cpu < WqCpus THEN ClientTo(t, "add", k.cpu + 1, t)
           ELSE IF k.destroy THEN ClientTo(t, "stop", 1, t)
           ELSE ClientTo(t, "idle", 0, "none")
        /\ UNCHANGED <<list, work_sem, pending, worker, stop, exited, freed>>

\* Every worker is told to stop and woken.
DestroyStop(t) ==
    LET k == client[t]
    IN  /\ k.pc = "stop"
        /\ stop' = [stop EXCEPT ![k.cpu] = TRUE]
        /\ work_sem' = [work_sem EXCEPT ![k.cpu] = @ + 1]
        /\ IF k.cpu < WqCpus THEN ClientTo(t, "stop", k.cpu + 1, t) ELSE ClientTo(t, "join", 1, t)
        /\ UNCHANGED <<list, pending, worker, exited, done, freed>>

\* The last worker to leave ends the destroy, which frees the work queue.
DestroyJoin(t) ==
    LET k == client[t]
    IN  /\ k.pc = "join" /\ exited[k.cpu] = 1
        /\ exited' = [exited EXCEPT ![k.cpu] = 0]
        /\ IF k.cpu < WqCpus THEN ClientTo(t, "join", k.cpu + 1, t) /\ UNCHANGED freed
           ELSE client' = [client EXCEPT ![t] = NoCall] /\ freed' = TRUE
        /\ UNCHANGED <<list, work_sem, pending, worker, stop, done>>

Client(t) == QueueAdd(t) \/ QueuePost(t) \/ FlushWait(t) \/ DestroyStop(t) \/ DestroyJoin(t)

jlos_workqueue_create ==
    /\ freed /\ freed' = FALSE
    /\ worker' = [c \in WqCpu |-> [pc |-> "wait", cur |-> NoItem]]
    /\ work_sem' = [c \in WqCpu |-> 0] /\ stop' = [c \in WqCpu |-> FALSE]
    /\ list' = [c \in WqCpu |-> <<>>] /\ exited' = [c \in WqCpu |-> 0]
    /\ UNCHANGED <<pending, client, done>>

WqNext ==
    \/ \E c \in WqCpu : Worker(c)
    \/ \E t \in WqClient : Client(t)
    \/ \E t \in WqClient, c \in WqCpu, w \in WqWork : QueueMark(t, c, w)
    \/ \E t \in WqClient, destroy \in BOOLEAN : jlos_flush_workqueue(t, destroy)
    \/ jlos_workqueue_create

WqFairness == /\ \A c \in WqCpu : WF_wqVars(Worker(c))
              /\ \A t \in WqClient : WF_wqVars(Client(t))

WqSpec == WqInit /\ [][WqNext]_wqVars /\ WqFairness
---------------------------------------------------------------------------
Entries(c) == {list[c][i] : i \in 1 .. Len(list[c])} \cup {worker[c].cur}

\* Where an item is linked, on its way to a list, or on its way from one.
Places(w) ==
    {<<"list", c>> : c \in {d \in WqCpu : \E i \in 1 .. Len(list[d]) : list[d][i].item = w}}
    \cup {<<"add", t>> : t \in {u \in WqClient : client[u].pc = "add" /\ client[u].item = w}}
    \cup {<<"clear", c>> : c \in {d \in WqCpu : worker[d].pc = "clear" /\ worker[d].cur.item = w}}

LinkedOnce(w) ==
    /\ pending[w] <=> Places(w) # {}
    /\ \A p, q \in Places(w) : p = q
    /\ \A c \in WqCpu : \A i, j \in 1 .. Len(list[c]) :
          list[c][i].item = w /\ list[c][j].item = w => i = j

\* An item whose pending flag is set is on exactly one list, or on its way to
\* one or from one: it is never linked twice, however often it is queued.
WorkLinkedOnce == \A w \in WqWork : LinkedOnce(w)

\* When a flush returns, everything that was queued or running when it was
\* called has run to its end.
FlushCovers ==
    \A t \in WqClient : client[t].item # t \/ client[t].pc \in {"stop", "join"} =>
       \A c \in WqCpu : \A e \in Entries(c) : e.item # t /\ t \notin e.owed

\* A destroyed work queue has no worker left inside it and no work on it.
DestroyedQuiet ==
    freed => \A c \in WqCpu : worker[c].pc = "exit" /\ list[c] = <<>>

\* Work is linked at most once, a flush covers all that was queued or running
\* when it was called, and a destroyed work queue is empty and has no worker
\* left.
WorkAccounted == WqTypeOK /\ WorkLinkedOnce /\ FlushCovers /\ DestroyedQuiet

\* Queued work is run: no token is lost between queueing and the worker.
WorkRuns == \A w \in WqWork : []<>(~pending[w])

\* Calls of flush and destroy return: every barrier runs and every worker
\* that is told to stop leaves.
FlushReturns == \A t \in WqClient : []<>(client[t].item # t)
=============================================================================
