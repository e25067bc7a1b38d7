----------------------------- MODULE TicketLock -----------------------------
(***************************************************************************)
(* The ticket spinlock of hal/spinlock.h as arch/x86/spinlock.c and        *)
(* arch/arm64/spinlock.c implement it, used through the irqsave and        *)
(* irqrestore entry points by task code and by interrupt handlers.         *)
(*                                                                         *)
(* A CPU runs its task context until an interrupt arrives while IF is set; *)
(* the handler then runs with IF clear on the same CPU, over the           *)
(* interrupted context, until it returns.  next and owner are the two      *)
(* 16-bit halves of the lock word; Modulus stands for 2^16.                *)
(***************************************************************************)
EXTENDS Integers, FiniteSets

CONSTANTS CPU,         \* the processors
          Modulus      \* number of ticket values, 2^16 in the code

\* JLOS_MAX_CPUS (8) is far below 2^16: a CPU has at most one context that
\* waits for or holds a given lock, so tickets never lap each other.
ASSUME TicketAssumption ==
    /\ IsFiniteSet(CPU)
    /\ Modulus \in Nat
    /\ Cardinality(CPU) < Modulus

VARIABLES next,        \* lock_word.tickets.next
          owner,       \* lock_word.tickets.owner
          pc,          \* where each context is in the lock functions
          ticket,      \* my_ticket of each context
          flags,       \* interrupt flag saved by jlos_spin_lock_irqsave
          intr,        \* interrupt flag of each CPU
          inIrq        \* is the CPU running a handler over its task

vars == <<next, owner, pc, ticket, flags, intr, inIrq>>

Level == {"task", "irq"}
Context == CPU \X Level

\* The context that executes on cpu c.
Running(c) == <<c, IF inIrq[c] THEN "irq" ELSE "task">>

\* pc values: "out" outside, "masked" after cli, "spin" with a ticket,
\* "held" in the critical section, "released" before the flags are restored.
\* my_ticket and flags are locals: they are reset when they die.
Init ==
    /\ next = 0 /\ owner = 0
    /\ pc = [x \in Context |-> "out"]
    /\ ticket = [x \in Context |-> 0]
    /\ flags = [x \in Context |-> FALSE]
    \* Kernel threads run with interrupts on, system calls with them off.
    /\ intr \in [CPU -> BOOLEAN]
    /\ inIrq = [c \in CPU |-> FALSE]

Step(x, from, to) ==
    /\ pc[x] = from
    /\ pc' = [pc EXCEPT ![x] = to]

\* pushf; pop flags; cli
IrqSave_NoCli(c) ==
    LET x == Running(c) IN
    /\ Step(x, "out", "masked")
    /\ flags' = [flags EXCEPT ![x] = intr[c]]
    /\ UNCHANGED <<next, owner, ticket, intr, inIrq>>
IrqSave(c) ==
    LET x == Running(c) IN
    /\ Step(x, "out", "masked")
    /\ flags' = [flags EXCEPT ![x] = intr[c]]
    /\ intr' = [intr EXCEPT ![c] = FALSE]
    /\ UNCHANGED <<next, owner, ticket, inIrq>>

\* lock xaddw: the old value of next is the ticket
TakeTicket(c) ==
    LET x == Running(c) IN
    /\ Step(x, "masked", "spin")
    /\ ticket' = [ticket EXCEPT ![x] = next]
    /\ next' = (next + 1) % Modulus
    /\ UNCHANGED <<owner, flags, intr, inIrq>>

\* the load of owner that ends the spin loop
Acquire_AtLeast(c) ==
    LET x == Running(c) IN
    /\ Step(x, "spin", "held")
    /\ owner >= ticket[x]
    /\ UNCHANGED <<next, owner, ticket, flags, intr, inIrq>>
Acquire_TestAndSet(c) ==
    LET x == Running(c) IN
    /\ Step(x, "spin", "held")
    /\ \A y \in Context : pc[y] # "held"
    /\ UNCHANGED <<next, owner, ticket, flags, intr, inIrq>>
Acquire(c) ==
    LET x == Running(c) IN
    /\ Step(x, "spin", "held")
    /\ owner = ticket[x]
    /\ UNCHANGED <<next, owner, ticket, flags, intr, inIrq>>

Unlock(c) ==
    LET x == Running(c) IN
    /\ Step(x, "held", "released")
    /\ owner' = (owner + 1) % Modulus
    /\ ticket' = [ticket EXCEPT ![x] = 0]
    /\ UNCHANGED <<next, flags, intr, inIrq>>

\* popf
IrqRestore(c) ==
    LET x == Running(c) IN
    /\ Step(x, "released", "out")
    /\ intr' = [intr EXCEPT ![c] = flags[x]]
    /\ flags' = [flags EXCEPT ![x] = FALSE]
    /\ UNCHANGED <<next, owner, ticket, inIrq>>

\* An interrupt gate clears IF; it is taken only while IF is set.
Interrupt(c) ==
    /\ intr[c] /\ ~inIrq[c]
    /\ inIrq' = [inIrq EXCEPT ![c] = TRUE]
    /\ intr' = [intr EXCEPT ![c] = FALSE]
    /\ UNCHANGED <<next, owner, pc, ticket, flags>>

\* iret restores the interrupted IF, which was set.
InterruptReturn(c) ==
    /\ inIrq[c] /\ pc[<<c, "irq">>] = "out"
    /\ inIrq' = [inIrq EXCEPT ![c] = FALSE]
    /\ intr' = [intr EXCEPT ![c] = TRUE]
    /\ UNCHANGED <<next, owner, pc, ticket, flags>>

Next == \E c \in CPU :
    \/ IrqSave(c) \/ TakeTicket(c) \/ Acquire(c)
    \/ Unlock(c) \/ IrqRestore(c)
    \/ Interrupt(c) \/ InterruptReturn(c)

\* A CPU keeps executing instructions, so a context inside the lock
\* functions goes on; nobody is obliged to ask for the lock, and interrupts
\* need not arrive.
Continue(c) == TakeTicket(c) \/ Acquire(c) \/ Unlock(c) \/ IrqRestore(c)
Fairness == \A c \in CPU : WF_vars(Continue(c))

Spec == Init /\ [][Next]_vars
FairSpec == Spec /\ Fairness

-----------------------------------------------------------------------------
(* Properties *)

TypeOK ==
    /\ next \in 0..(Modulus - 1) /\ owner \in 0..(Modulus - 1)
    /\ pc \in [Context -> {"out", "masked", "spin", "held", "released"}]
    /\ ticket \in [Context -> 0..(Modulus - 1)]
    /\ flags \in [Context -> BOOLEAN]
    /\ intr \in [CPU -> BOOLEAN]
    /\ inIrq \in [CPU -> BOOLEAN]

\* The contexts that drew a ticket and have not yet advanced owner.
Contending == {x \in Context : pc[x] \in {"spin", "held"}}

\* At most one context, over all CPUs and interrupt levels, is between
\* jlos_spin_lock_irqsave and jlos_spin_unlock, also after the 16-bit ticket
\* counters wrapped.
MutualExclusion ==
    \A x, y \in Context : pc[x] = "held" /\ pc[y] = "held" => x = y

\* A handler never spins on a lock the context it interrupted waits for or
\* holds: the CPU would spin for ever.  This is what irqsave is for.
NoSelfDeadlock ==
    \A c \in CPU : inIrq[c] => <<c, "task">> \notin Contending

\* Distance of ticket t from the ticket being served.
Ahead(t) == (t - owner) % Modulus

\* The contenders in the order of their tickets.
ServiceOrder ==
    [i \in 1..Cardinality(Contending) |->
        CHOOSE x \in Contending : Ahead(ticket[x]) = i - 1]

\* The lock implements FifoLock: contenders are served one at a time in the
\* order of their atomic fetch-and-add on next.
Fifo == INSTANCE FifoLock WITH
            Client <- Context,
            queue <- ServiceOrder,
            inside <- {x \in Context : pc[x] = "held"}
RefinesFifoLock == Fifo!Spec

\* Whoever drew a ticket gets the lock: holders release it and the ticket
\* order lets nobody overtake.
EveryTicketServed ==
    \A c \in CPU : \A l \in Level :
        []<>(pc[<<c, l>>] # "spin")
=============================================================================
