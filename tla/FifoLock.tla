------------------------------ MODULE FifoLock ------------------------------
(***************************************************************************)
(* What a kernel spinlock promises its users: contenders are served one at *)
(* a time, in the order in which they asked.  TicketLock implements this   *)
(* specification; the other modules of the project rely on it when they    *)
(* treat a region between jlos_spin_lock_irqsave and                       *)
(* jlos_spin_unlock_irqrestore as one step.                                *)
(***************************************************************************)
EXTENDS Naturals, Sequences

CONSTANT Client        \* execution contexts that may ask for the lock

VARIABLES queue,       \* clients that asked and have not released, in order
          inside       \* clients between acquisition and release

lockVars == <<queue, inside>>

Queued == {queue[i] : i \in DOMAIN queue}

Init ==
    /\ queue = <<>>
    /\ inside = {}

Ask(x) ==
    /\ x \notin Queued
    /\ queue' = Append(queue, x)
    /\ UNCHANGED inside

Enter(x) ==
    /\ queue # <<>>
    /\ Head(queue) = x
    /\ x \notin inside
    /\ inside' = inside \cup {x}
    /\ UNCHANGED queue

Leave(x) ==
    /\ x \in inside
    /\ queue' = Tail(queue)
    /\ inside' = inside \ {x}

Next == \E x \in Client : Ask(x) \/ Enter(x) \/ Leave(x)

Spec == Init /\ [][Next]_lockVars
=============================================================================
