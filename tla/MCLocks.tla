------------------------------ MODULE MCLocks -------------------------------
(***************************************************************************)
(* Locks, the TLB shootdown, and the queues and daemons built on locks, in *)
(* one run: the behaviours of each component are explored on their own,    *)
(* with the others at rest. Three CPUs and four ticket values: with every  *)
(* CPU contending one ticket value is unused, so the counters wrap         *)
(* constantly.                                                             *)
(***************************************************************************)
EXTENDS TicketLock, MutexCond, Tlb, WorkQueue, Kthread, MessageQueue

CONSTANTS
    t1, t2, t3, t4

VARIABLE
    part \* the component whose behaviours are explored, fixed

MCCPU == 1..3
MCModulus == 4

allVars == <<
    part, vars, mutexVars, tlVars, wqVars, ktVars, mqVars>>

\* The components that are not explored keep their initial state.
MCInit ==
    /\ part \in {"ticket", "mutex", "tlb", "workqueue", "kthread", "queue"}
    /\ Init /\ (part # "ticket" => intr = [c \in CPU |-> TRUE])
    /\ MutexInit
    /\ TlInit
    /\ WqInit
    /\ KtInit
    /\ MqInit

\* A step of one component.
ticketStep ==
    part = "ticket" /\ UNCHANGED <<part, mutexVars, tlVars, wqVars, ktVars, mqVars>>
mutexStep ==
    part = "mutex" /\ UNCHANGED <<part, vars, tlVars, wqVars, ktVars, mqVars>>
tlbStep ==
    part = "tlb" /\ UNCHANGED <<part, vars, mutexVars, wqVars, ktVars, mqVars>>
workqueueStep ==
    part = "workqueue" /\ UNCHANGED <<part, vars, mutexVars, tlVars, ktVars, mqVars>>
kthreadStep ==
    part = "kthread" /\ UNCHANGED <<part, vars, mutexVars, tlVars, wqVars, mqVars>>
queueStep ==
    part = "queue" /\ UNCHANGED <<part, vars, mutexVars, tlVars, wqVars, ktVars>>

\* These may come to a stop: everything is closed, destroyed or sent.
Stopped == part \in {"workqueue", "kthread", "queue"} /\ UNCHANGED allVars

MCNext ==
    \/ ticketStep /\ Next
    \/ mutexStep /\ MutexNext
    \/ tlbStep /\ TlNext
    \/ workqueueStep /\ WqNext
    \/ kthreadStep /\ KtNext
    \/ queueStep /\ MqNext
    \/ Stopped

\* part never changes: each conjunct is a fairness condition of the component
\* that is explored.
MCFairness ==
    /\ WF_allVars(\/ ticketStep /\ Continue(1)
                  \/ mutexStep /\ MutexContinue(t1)
                  \/ tlbStep /\ TlContinue(0)
                  \/ workqueueStep /\ Worker(1)
                  \/ kthreadStep /\ Daemon
                  \/ queueStep /\ SendPost(t1))
    /\ WF_allVars(\/ ticketStep /\ Continue(2)
                  \/ mutexStep /\ MutexContinue(t2)
                  \/ tlbStep /\ TlContinue(1)
                  \/ workqueueStep /\ Worker(2)
                  \/ kthreadStep /\ KtStep(t1)
                  \/ queueStep /\ SendPost(t2))
    /\ WF_allVars(\/ ticketStep /\ Continue(3)
                  \/ mutexStep /\ MutexContinue(t3)
                  \/ tlbStep /\ TlContinue(2)
                  \/ workqueueStep /\ Client(t1)
                  \/ kthreadStep /\ KtStep(t2)
                  \/ queueStep /\ RecvTake(t3))
    /\ WF_allVars(\/ mutexStep /\ Broadcast
                  \/ workqueueStep /\ Client(t2)
                  \/ queueStep /\ RecvTake(t4))
    /\ SF_allVars(\/ mutexStep /\ UnlockCall(t1)
                  \/ tlbStep /\ jlos_irq_manager_do_handle(0)
                  \/ queueStep /\ RecvWait(t3))
    /\ SF_allVars(\/ mutexStep /\ UnlockCall(t2)
                  \/ tlbStep /\ jlos_irq_manager_do_handle(1)
                  \/ queueStep /\ RecvWait(t4))
    /\ SF_allVars(\/ mutexStep /\ UnlockCall(t3)
                  \/ tlbStep /\ jlos_irq_manager_do_handle(2))

MCSpec == MCInit /\ [][MCNext]_allVars /\ MCFairness

-----------------------------------------------------------------------------
\* Every wait ends: a drawn ticket is served, a locker gets the mutex (if
\* nobody is killed and nobody locks twice), a shootdown is acknowledged,
\* queued work runs, and flush, destroy, the stop of a thread and the receipt
\* of a message that is there return.
WaitsEnd ==
    /\ EveryTicketServed
    /\ LockerGetsIn
    /\ ShootdownEnds
    /\ WorkRuns /\ FlushReturns
    /\ StopReturns /\ ReceiveReturns
=============================================================================
