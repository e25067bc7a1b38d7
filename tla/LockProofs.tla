----------------------------- MODULE LockProofs -----------------------------
(***************************************************************************)
(* The ticket lock, the mutex and the condition variable.  The ticket lock *)
(* excludes and implements a first come, first served lock, for any number *)
(* of CPUs and any number of ticket values larger than that; the mutex and *)
(* the condition variable are proved for any number of tasks, any depth of *)
(* recursion and any choice of the tasks that may be preempted or killed.  *)
(***************************************************************************)
EXTENDS TicketLock, MutexCond, QueueLemmas, FiniteSetTheorems

\* A leaf is proved by Zenon unless it names SMT.
USE ZenonT(30)

-----------------------------------------------------------------------------
(* The ticket lock.                                                        *)

Tickets == 0 .. (Modulus - 1)

\* A CPU has at most one context in the lock functions, and it is masked
\* there: the handler finds the task outside, the task finds no handler.
OneContext ==
    \A c \in CPU :
        /\ pc[<<c, "task">>] # "out" => ~inIrq[c] /\ ~intr[c]
        /\ ~inIrq[c] => pc[<<c, "irq">>] = "out"

\* How many tickets are served before ticket t, without the remainder.
Dist(t) == IF t >= owner THEN t - owner ELSE t - owner + Modulus

\* The outstanding tickets are the ones from owner up to next, one for each
\* contender, and whoever is inside holds the first.
TicketOrder ==
    /\ Dist(next) = Cardinality(Contending)
    /\ \A x \in Contending : Dist(ticket[x]) < Dist(next)
    /\ \A x, y \in Contending : ticket[x] = ticket[y] => x = y
    /\ \A x \in Context : pc[x] = "held" => ticket[x] = owner

IInv == TypeOK /\ OneContext /\ TicketOrder

-----------------------------------------------------------------------------
\* The 16-bit increment: the next ticket value, or zero after the last one.
LEMMA Increment ==
    ASSUME NEW t \in Tickets
    PROVE  (t + 1) % Modulus = IF t + 1 = Modulus THEN 0 ELSE t + 1
BY TicketAssumption, SMTT(30) DEF Tickets

\* Contexts are pairs of a CPU and a level, and a CPU runs one of its two.
LEMMA ContextFacts ==
    ASSUME NEW c \in CPU
    PROVE  /\ <<c, "task">> \in Context /\ <<c, "irq">> \in Context
           /\ Running(c) \in Context /\ Running(c)[1] = c
           /\ \A x \in Context : x[1] = c => x \in {<<c, "task">>, <<c, "irq">>}
BY SMTT(30) DEF Context, Level, Running

\* A set with at most one context per CPU is smaller than the ticket range.
LEMMA OnePerCpu ==
    ASSUME NEW S \in SUBSET Context,
           \A x, y \in S : x[1] = y[1] => x = y
    PROVE  /\ IsFiniteSet(S) /\ Cardinality(S) \in Nat
           /\ Cardinality(S) < Modulus
<1> DEFINE f == [x \in S |-> x[1]]
<1>1. f \in [S -> CPU]
    BY DEF Context
<1>2. f \in Injection(S, CPU)
    BY <1>1 DEF Injection, IsInjective
<1>3. /\ IsFiniteSet(S) /\ Cardinality(S) <= Cardinality(CPU)
      /\ Cardinality(S) \in Nat /\ Cardinality(CPU) \in Nat
    BY <1>2, FS_Injection, FS_CardinalityType, TicketAssumption
<1>4. QED
    BY <1>3, TicketAssumption, SMTT(30)

\* In a reachable state the contenders are such a set, and a context that
\* runs before it draws a ticket can be added to it.
LEMMA Contenders ==
    ASSUME TypeOK, OneContext
    PROVE  /\ Contending \in SUBSET Context
           /\ IsFiniteSet(Contending) /\ Cardinality(Contending) \in Nat
           /\ \A c \in CPU : pc[Running(c)] = "masked" =>
                /\ Running(c) \notin Contending
                /\ IsFiniteSet(Contending \cup {Running(c)})
                /\ Cardinality(Contending \cup {Running(c)}) = Cardinality(Contending) + 1
                /\ Cardinality(Contending) + 1 < Modulus
<1>1. Contending \in SUBSET Context
    BY DEF Contending
<1>2. \A x, y \in Contending : x[1] = y[1] => x = y
    BY SMTT(30) DEF Contending, Context, Level, OneContext
<1>3. IsFiniteSet(Contending) /\ Cardinality(Contending) \in Nat
    BY <1>1, <1>2, OnePerCpu
<1>4. ASSUME NEW c \in CPU, pc[Running(c)] = "masked"
      PROVE  /\ Running(c) \notin Contending
             /\ IsFiniteSet(Contending \cup {Running(c)})
             /\ Cardinality(Contending \cup {Running(c)}) = Cardinality(Contending) + 1
             /\ Cardinality(Contending) + 1 < Modulus
  <2> DEFINE S == Contending \cup {Running(c)}
  <2>1. Running(c) \notin Contending
      BY <1>4 DEF Contending
  <2>2. S \in SUBSET Context
      BY <1>1, ContextFacts
  <2>3. \A x \in Contending : x[1] # c
      BY <1>4, ContextFacts DEF Contending, OneContext, Running
  <2>4. \A x, y \in S : x[1] = y[1] => x = y
      BY <1>2, <2>3, ContextFacts
  <2>5. IsFiniteSet(S) /\ Cardinality(S) < Modulus
      BY <2>2, <2>4, OnePerCpu
  <2>6. Cardinality(S) = Cardinality(Contending) + 1
      BY <1>3, <2>1, FS_AddElement
  <2>7. QED
      BY <2>1, <2>5, <2>6
<1>5. QED
    BY <1>1, <1>3, <1>4

-----------------------------------------------------------------------------
\* The initial states satisfy the invariant.
LEMMA InitInv == Init => IInv
<1> SUFFICES ASSUME Init PROVE IInv
    OBVIOUS
<1>1. 0 \in Tickets /\ Modulus \in Nat \ {0}
    BY TicketAssumption, FS_CardinalityType, SMTT(30) DEF Tickets
<1>2. TypeOK
    BY <1>1 DEF Init, TypeOK, Tickets
<1>3. OneContext
    BY ContextFacts DEF Init, OneContext
<1>4. Contending = {}
    BY DEF Init, Contending
<1>5. TicketOrder
    BY <1>1, <1>4, FS_EmptySet, SMTT(30) DEF Init, TicketOrder, Dist, Contending
<1>6. QED
    BY <1>2, <1>3, <1>5 DEF IInv

\* Drawing a ticket: the new ticket is different from all outstanding ones.
LEMMA TakeTicketOrder ==
    ASSUME IInv, NEW c \in CPU, TakeTicket(c)
    PROVE  TicketOrder'
<1> USE DEF IInv
<1>0. PICK x \in Context : x = Running(c)
    BY ContextFacts
<1>1. x \in Context /\ pc[x] = "masked" /\ pc' = [pc EXCEPT ![x] = "spin"]
      /\ ticket' = [ticket EXCEPT ![x] = next] /\ owner' = owner
    BY <1>0 DEF TakeTicket, Step
<1>2. next \in Tickets /\ owner \in Tickets /\ Modulus \in Nat
      /\ \A y \in Context : ticket[y] \in Tickets
    BY TicketAssumption DEF TypeOK, Tickets
<1>3. next' = IF next + 1 = Modulus THEN 0 ELSE next + 1
    BY <1>2, Increment DEF TakeTicket
<1>4. Contending' = Contending \cup {x}
    BY <1>1 DEF Contending, TypeOK
<1>5. /\ x \notin Contending
      /\ Cardinality(Contending') = Cardinality(Contending) + 1
      /\ Cardinality(Contending) + 1 < Modulus
      /\ Cardinality(Contending) \in Nat
    BY <1>0, <1>1, <1>4, Contenders
<1>6. Dist(next) = Cardinality(Contending)
    BY DEF TicketOrder
<1>7. Dist(next)' = Dist(next) + 1
    BY <1>1, <1>2, <1>3, <1>5, <1>6, SMTT(30) DEF Dist, Tickets
<1>8. \A y \in Contending : /\ y \in Context /\ ticket'[y] = ticket[y]
                             /\ Dist(ticket[y])' = Dist(ticket[y])
                             /\ ticket[y] # next
    BY <1>1, <1>5, SMTT(30) DEF Contending, TypeOK, Dist, TicketOrder
<1>9. ticket'[x] = next /\ Dist(ticket[x])' = Dist(next)
    BY <1>1 DEF TypeOK, Dist
<1>10. \A y \in Contending' : Dist(ticket[y])' < Dist(next)'
    BY <1>2, <1>4, <1>6, <1>5, <1>7, <1>8, <1>9, SMTT(30) DEF TicketOrder, Dist, Tickets
<1>11. \A y, z \in Contending' : ticket'[y] = ticket'[z] => y = z
    BY <1>4, <1>8, <1>9, SMTT(30) DEF TicketOrder
<1>12. \A y \in Context : pc'[y] = "held" => ticket'[y] = owner'
    BY <1>1 DEF TypeOK, TicketOrder
<1>13. QED
    BY <1>5, <1>6, <1>7, <1>10, <1>11, <1>12 DEF TicketOrder

\* Releasing: every other contender moves up by one.
LEMMA UnlockOrder ==
    ASSUME IInv, NEW c \in CPU, Unlock(c)
    PROVE  TicketOrder'
<1> USE DEF IInv
<1>0. PICK x \in Context : x = Running(c)
    BY ContextFacts
<1>1. x \in Context /\ pc[x] = "held" /\ pc' = [pc EXCEPT ![x] = "released"]
      /\ ticket' = [ticket EXCEPT ![x] = 0] /\ next' = next
    BY <1>0 DEF Unlock, Step
<1>2. next \in Tickets /\ owner \in Tickets /\ Modulus \in Nat
      /\ \A y \in Context : ticket[y] \in Tickets
    BY TicketAssumption DEF TypeOK, Tickets
<1>3. owner' = IF owner + 1 = Modulus THEN 0 ELSE owner + 1
    BY <1>2, Increment DEF Unlock
<1>4. Contending' = Contending \ {x} /\ x \in Contending
    BY <1>1 DEF Contending, TypeOK
<1>5. /\ IsFiniteSet(Contending)
      /\ Cardinality(Contending') = Cardinality(Contending) - 1
      /\ Cardinality(Contending) \in Nat
    BY <1>4, Contenders, FS_RemoveElement
<1>6. ticket[x] = owner
    BY <1>1 DEF TicketOrder
<1>7. \A t \in Tickets : t # owner =>
            (IF t >= owner' THEN t - owner' ELSE t - owner' + Modulus) = Dist(t) - 1
    BY <1>2, <1>3, SMTT(30) DEF Dist, Tickets
<1>8. next # owner
    BY <1>2, <1>4, <1>6, SMTT(30) DEF TicketOrder, Dist, Tickets
<1>9. Dist(next)' = Dist(next) - 1
    BY <1>1, <1>2, <1>7, <1>8 DEF Dist
<1>10. \A y \in Contending' : /\ y \in Contending /\ y \in Context /\ y # x
                              /\ ticket'[y] = ticket[y] /\ ticket[y] # owner
    BY <1>1, <1>4, <1>6 DEF Contending, TypeOK, TicketOrder
<1>11. \A y \in Contending' : Dist(ticket[y])' = Dist(ticket[y]) - 1
    BY <1>2, <1>7, <1>10 DEF Dist
<1>12. \A y \in Contending' : Dist(ticket[y])' < Dist(next)'
    BY <1>2, <1>9, <1>10, <1>11, SMTT(30) DEF TicketOrder, Dist, Tickets
<1>13. \A y, z \in Contending' : ticket'[y] = ticket'[z] => y = z
    BY <1>10 DEF TicketOrder
<1>14. \A y \in Context : pc'[y] # "held"
    BY <1>1, <1>4, <1>6 DEF TypeOK, TicketOrder, Contending
<1>15. QED
    BY <1>5, <1>9, <1>12, <1>13, <1>14 DEF TicketOrder

\* Every step keeps the types and the masking discipline.
LEMMA TypeStep ==
    ASSUME IInv, NEW c \in CPU,
           \/ IrqSave(c) \/ TakeTicket(c) \/ Acquire(c) \/ Unlock(c)
           \/ IrqRestore(c) \/ Interrupt(c) \/ InterruptReturn(c)
    PROVE  TypeOK' /\ OneContext'
<1> USE DEF IInv
<1>0. PICK x \in Context : x = Running(c)
    BY ContextFacts
<1>1. \A t \in Tickets : (t + 1) % Modulus \in Tickets
    BY Increment, TicketAssumption, SMTT(30) DEF Tickets
<1>2. 0 \in Tickets
    BY TicketAssumption, SMTT(30) DEF TypeOK, Tickets
<1>3. x = IF inIrq[c] THEN <<c, "irq">> ELSE <<c, "task">>
    BY <1>0 DEF Running
<1>4. TypeOK'
    BY <1>0, <1>1, <1>2 DEF TypeOK, Tickets, Step, IrqSave, TakeTicket, Acquire,
       Unlock, IrqRestore, Interrupt, InterruptReturn
<1>5. OneContext'
  <2> SUFFICES ASSUME NEW d \in CPU
               PROVE  /\ pc'[<<d, "task">>] # "out" => ~inIrq'[d] /\ ~intr'[d]
                      /\ ~inIrq'[d] => pc'[<<d, "irq">>] = "out"
      BY DEF OneContext
  <2>1. <<d, "task">> \in Context /\ <<d, "irq">> \in Context
      BY ContextFacts
  <2> DEFINE T == <<d, "task">>
             I == <<d, "irq">>
  <2>0. /\ pc[T] # "out" => ~inIrq[d] /\ ~intr[d]
        /\ ~inIrq[d] => pc[I] = "out"
        /\ x = T => d = c /\ ~inIrq[d]
        /\ x = I => d = c /\ inIrq[d]
        /\ d = c => x \in {T, I}
        /\ T # I
      BY <1>3 DEF OneContext
  <2> HIDE DEF T, I
  <2>2. CASE IrqSave(c)
    <3>1. /\ pc'[T] = IF x = T THEN "masked" ELSE pc[T]
          /\ pc'[I] = IF x = I THEN "masked" ELSE pc[I]
          /\ intr'[d] = IF c = d THEN FALSE ELSE intr[d]
          /\ inIrq'[d] = inIrq[d]
        BY <1>0, <2>1, <2>2 DEF TypeOK, IrqSave, Step, T, I
    <3>2. QED
        BY <2>0, <3>1 DEF T, I
  <2>3. CASE TakeTicket(c) \/ Acquire(c) \/ Unlock(c)
      BY <1>0, <1>3, <2>1, <2>3, SMTT(30) DEF OneContext, TypeOK, TakeTicket, Acquire, Unlock, Step
  <2>4. CASE IrqRestore(c)
      BY <1>0, <1>3, <2>1, <2>4 DEF OneContext, TypeOK, IrqRestore, Step
  <2>5. CASE Interrupt(c)
      BY <2>1, <2>5 DEF OneContext, TypeOK, Interrupt
  <2>6. CASE InterruptReturn(c)
      BY <2>1, <2>6 DEF OneContext, TypeOK, InterruptReturn
  <2>7. QED
      BY <2>2, <2>3, <2>4, <2>5, <2>6, SMTT(30)
<1>6. QED
    BY <1>4, <1>5

\* IInv is inductive.
LEMMA NextInv == IInv /\ [Next]_vars => IInv'
<1> SUFFICES ASSUME IInv, [Next]_vars PROVE IInv'
    OBVIOUS
<1>1. CASE UNCHANGED vars
  <2>1. TypeOK' /\ OneContext'
      BY <1>1 DEF IInv, TypeOK, OneContext, vars
  <2>2. TicketOrder'
      BY <1>1 DEF IInv, TicketOrder, Dist, Contending, vars
  <2>3. QED
      BY <2>1, <2>2 DEF IInv
<1>2. ASSUME NEW c \in CPU,
             \/ IrqSave(c) \/ TakeTicket(c) \/ Acquire(c) \/ Unlock(c)
             \/ IrqRestore(c) \/ Interrupt(c) \/ InterruptReturn(c)
      PROVE  IInv'
  <2>1. TypeOK' /\ OneContext'
      BY <1>2, TypeStep
  <2>2. PICK x \in Context : x = Running(c)
      BY ContextFacts
  <2>3. CASE IrqSave(c) \/ IrqRestore(c) \/ Interrupt(c) \/ InterruptReturn(c)
    <3>1. /\ UNCHANGED <<next, owner, ticket>> /\ Contending' = Contending
          /\ \A y \in Context : pc'[y] = "held" => pc[y] = "held"
        BY <2>2, <2>3 DEF IInv, TypeOK, Contending, Step, IrqSave, IrqRestore,
           Interrupt, InterruptReturn
    <3>2. TicketOrder'
        BY <3>1 DEF IInv, TicketOrder, Dist
    <3>3. QED
        BY <2>1, <3>2 DEF IInv
  <2>4. CASE Acquire(c)
    <3>1. /\ UNCHANGED <<next, owner, ticket>> /\ Contending' = Contending
          /\ \A y \in Context : pc'[y] = "held" => pc[y] = "held" \/ ticket[y] = owner
        BY <2>2, <2>4 DEF IInv, TypeOK, Contending, Step, Acquire
    <3>2. TicketOrder'
        BY <3>1 DEF IInv, TicketOrder, Dist
    <3>3. QED
        BY <2>1, <3>2 DEF IInv
  <2>5. CASE TakeTicket(c)
      BY <2>1, <2>5, TakeTicketOrder DEF IInv
  <2>6. CASE Unlock(c)
      BY <2>1, <2>6, UnlockOrder DEF IInv
  <2>7. QED
      BY <1>2, <2>3, <2>4, <2>5, <2>6, SMTT(30)
<1>3. QED
    BY <1>1, <1>2 DEF Next

-----------------------------------------------------------------------------
\* The lock word stays inside the 16-bit halves and the contexts inside the
\* five places of the lock functions.
THEOREM TypeCorrect == Spec => []TypeOK
<1>1. IInv => TypeOK
    BY DEF IInv
<1>2. QED
    BY InitInv, NextInv, <1>1, PTL DEF Spec

\* At most one context is inside the critical section of a spinlock, with
\* any number of CPUs below the number of ticket values.
THEOREM LockExcludes == Spec => []MutualExclusion
<1>1. IInv => MutualExclusion
    BY DEF IInv, TicketOrder, MutualExclusion, Contending
<1>2. QED
    BY InitInv, NextInv, <1>1, PTL DEF Spec

\* Because irqsave masks interrupts before the ticket is drawn, no handler
\* runs over a context that waits for or holds the lock.
THEOREM HandlerNeverBlocks == Spec => []NoSelfDeadlock
<1>1. IInv => NoSelfDeadlock
    BY ContextFacts DEF IInv, OneContext, NoSelfDeadlock, Contending
<1>2. QED
    BY InitInv, NextInv, <1>1, PTL DEF Spec

-----------------------------------------------------------------------------
(* The lock implements FifoLock.                                           *)

\* Places of a ticket t in the service order, when o is being served.
Place(t, o) == IF t >= o THEN t - o ELSE t - o + Modulus

\* The contenders C hold different tickets, the first ones from o on.
Window(C, tk, o) ==
    /\ C \subseteq Context /\ IsFiniteSet(C) /\ tk \in [Context -> Tickets] /\ o \in Tickets
    /\ \A x \in C : Place(tk[x], o) < Cardinality(C)
    /\ \A x, y \in C : tk[x] = tk[y] => x = y

\* q lists the contenders in the order of their tickets.
InOrder(q, C, tk, o) ==
    /\ q \in Seq(Context) /\ Len(q) = Cardinality(C)
    /\ \A i \in 1 .. Len(q) : q[i] \in C /\ Place(tk[q[i]], o) = i - 1

\* The remainder of the 16-bit subtraction is the place.
LEMMA Remainder ==
    ASSUME NEW t \in Tickets, NEW o \in Tickets
    PROVE  (t - o) % Modulus = Place(t, o) /\ Place(t, o) \in Nat
BY TicketAssumption, SMTT(30) DEF Tickets, Place

\* Different tickets have different places.
LEMMA PlaceUnique ==
    ASSUME NEW t \in Tickets, NEW u \in Tickets, NEW o \in Tickets, Place(t, o) = Place(u, o)
    PROVE  t = u
BY TicketAssumption, SMTT(30) DEF Tickets, Place

\* There is only one such order.
LEMMA OrderUnique ==
    ASSUME NEW C, NEW tk, NEW o, Window(C, tk, o),
           NEW q, NEW r, InOrder(q, C, tk, o), InOrder(r, C, tk, o)
    PROVE  q = r
<1>1. q \in Seq(Context) /\ r \in Seq(Context) /\ Len(q) = Len(r)
    BY DEF InOrder
<1>2. ASSUME NEW i \in 1 .. Len(q) PROVE q[i] = r[i]
  <2>1. /\ q[i] \in C /\ r[i] \in C /\ q[i] \in Context /\ r[i] \in Context
        /\ Place(tk[q[i]], o) = Place(tk[r[i]], o)
      BY <1>1 DEF InOrder, Window
  <2>2. tk[q[i]] \in Tickets /\ tk[r[i]] \in Tickets /\ o \in Tickets
      BY <2>1 DEF Window
  <2>3. tk[q[i]] = tk[r[i]]
      BY <2>1, <2>2, PlaceUnique
  <2>4. QED
      BY <2>1, <2>3 DEF Window
<1>3. QED
    BY <1>1, <1>2, SeqSame

\* Every place is taken: as many contenders as places, no two in one.
LEMMA PlacesTaken ==
    ASSUME NEW C, NEW tk, NEW o, Window(C, tk, o), NEW i \in 1 .. Cardinality(C)
    PROVE  \E x \in C : Place(tk[x], o) = i - 1
<1> DEFINE n == Cardinality(C)
           f == [x \in C |-> Place(tk[x], o) + 1]
<1>0. n \in Nat
    BY FS_CardinalityType DEF Window
<1>1. \A x \in C : tk[x] \in Tickets /\ o \in Tickets
    BY DEF Window
<1>2. \A x \in C : Place(tk[x], o) \in Nat /\ Place(tk[x], o) < n
    BY <1>1, Remainder DEF Window
<1>3. f \in [C -> 1 .. n]
    BY <1>0, <1>2, SMTT(30)
<1>4. ASSUME NEW x \in C, NEW y \in C, f[x] = f[y] PROVE x = y
  <2>1. Place(tk[x], o) = Place(tk[y], o)
      BY <1>2, <1>4, SMTT(30)
  <2>2. tk[x] = tk[y]
      BY <1>1, <2>1, PlaceUnique
  <2>3. QED
      BY <2>2 DEF Window
<1>5. f \in Injection(C, 1 .. n)
    BY <1>3, <1>4 DEF Injection, IsInjective
<1>6. IsFiniteSet(1 .. n) /\ Cardinality(1 .. n) = n
    BY <1>0, FS_Interval, SMTT(30)
<1>7. f \in Surjection(C, 1 .. n)
    BY <1>5, <1>6, FS_Injection
<1>8. PICK x \in C : f[x] = i
    BY <1>7 DEF Surjection
<1>9. QED
    BY <1>2, <1>8, SMTT(30)

\* ServiceOrder is that order.
OrderOf(C, tk, o) ==
    [i \in 1 .. Cardinality(C) |-> CHOOSE x \in C : (tk[x] - o) % Modulus = i - 1]

LEMMA OrderExists ==
    ASSUME NEW C, NEW tk, NEW o, Window(C, tk, o)
    PROVE  InOrder(OrderOf(C, tk, o), C, tk, o)
<1> DEFINE n == Cardinality(C)
           At(i) == CHOOSE x \in C : (tk[x] - o) % Modulus = i - 1
           q == OrderOf(C, tk, o)
<1>0. n \in Nat /\ C \subseteq Context
    BY FS_CardinalityType DEF Window
<1>1. ASSUME NEW i \in 1 .. n
      PROVE  At(i) \in C /\ Place(tk[At(i)], o) = i - 1
  <2>1. \A x \in C : tk[x] \in Tickets /\ o \in Tickets
      BY DEF Window
  <2>2. \A x \in C : (tk[x] - o) % Modulus = Place(tk[x], o)
      BY <2>1, Remainder
  <2>3. PICK x \in C : Place(tk[x], o) = i - 1
      BY PlacesTaken, SMTT(30)
  <2>4. \E y \in C : (tk[y] - o) % Modulus = i - 1
      BY <2>2, <2>3
  <2>5. At(i) \in C /\ (tk[At(i)] - o) % Modulus = i - 1
      BY <2>4
  <2>6. QED
      BY <2>2, <2>5
<1> HIDE DEF At
<1>2. q = [i \in 1 .. n |-> At(i)]
    BY DEF OrderOf, At
<1>3. q \in [1 .. n -> Context]
    BY <1>0, <1>1, <1>2
<1>4. q \in Seq(Context) /\ Len(q) = n
    BY <1>0, <1>3, SMTT(30)
<1>5. \A i \in 1 .. n : q[i] = At(i)
    BY <1>2
<1> HIDE DEF q
<1>6. QED
    BY <1>1, <1>4, <1>5 DEF InOrder, q

\* In a reachable state the contenders are such a window.
Ordered ==
    /\ Window(Contending, ticket, owner)
    /\ InOrder(ServiceOrder, Contending, ticket, owner)

LEMMA OrderedInv == IInv => Ordered
<1> SUFFICES ASSUME IInv PROVE Ordered
    OBVIOUS
<1>1. Window(Contending, ticket, owner)
    BY Contenders DEF IInv, TypeOK, TicketOrder, Window, Place, Dist, Tickets
<1>2. ServiceOrder = OrderOf(Contending, ticket, owner)
    BY DEF ServiceOrder, OrderOf, Ahead
<1>3. QED
    BY <1>1, <1>2, OrderExists DEF Ordered

LEMMA OrderedNext == IInv' => Ordered'
BY OrderedInv, PTL

Inside == {x \in Context : pc[x] = "held"}

\* A step that leaves the lock word and the tickets alone keeps the order.
LEMMA SameOrder ==
    ASSUME IInv, IInv', UNCHANGED <<owner, ticket>>, Contending' = Contending
    PROVE  ServiceOrder' = ServiceOrder
<1>1. Ordered /\ Ordered'
    BY OrderedInv, OrderedNext
<1>2. InOrder(ServiceOrder', Contending, ticket, owner)
    BY <1>1 DEF Ordered
<1>3. QED
    BY <1>1, <1>2, OrderUnique DEF Ordered

\* Drawing a ticket is asking: the context becomes the last in the order.
LEMMA TakeAsks ==
    ASSUME IInv, IInv', NEW c \in CPU, TakeTicket(c)
    PROVE  \E x \in Context : Fifo!Ask(x)
<1>0. PICK x \in Context : x = Running(c)
    BY ContextFacts
<1>1. Ordered /\ Ordered'
    BY OrderedInv, OrderedNext
<1>2. /\ pc[x] = "masked" /\ pc' = [pc EXCEPT ![x] = "spin"]
      /\ ticket' = [ticket EXCEPT ![x] = next] /\ owner' = owner
    BY <1>0 DEF TakeTicket, Step
<1>3. /\ x \notin Contending /\ Contending' = Contending \cup {x}
      /\ Inside' = Inside
    BY <1>2, SMTT(30) DEF IInv, TypeOK, Contending, Inside
<1>4. /\ Cardinality(Contending) \in Nat
      /\ Cardinality(Contending') = Cardinality(Contending) + 1
    BY <1>0, <1>2, <1>3, Contenders DEF IInv
<1>5. /\ ticket'[x] = next /\ \A y \in Contending : ticket'[y] = ticket[y]
      /\ Place(next, owner) = Cardinality(Contending)
    BY <1>2, <1>3 DEF IInv, TypeOK, TicketOrder, Dist, Place, Contending
<1> DEFINE q == ServiceOrder
           r == Append(q, x)
<1>6. /\ q \in Seq(Context) /\ Len(q) = Cardinality(Contending)
      /\ \A i \in 1 .. Len(q) : q[i] \in Contending /\ Place(ticket[q[i]], owner) = i - 1
    BY <1>1 DEF Ordered, InOrder
<1> HIDE DEF q
<1>7. /\ r \in Seq(Context) /\ Len(r) = Len(q) + 1
      /\ \A i \in 1 .. Len(q) : r[i] = q[i]
      /\ r[Len(q) + 1] = x
    BY <1>6, SeqAppend, SMTT(30)
<1> HIDE DEF r
<1>8. InOrder(r, Contending', ticket', owner')
  <2> SUFFICES ASSUME NEW i \in 1 .. Len(r)
               PROVE  r[i] \in Contending' /\ Place(ticket'[r[i]], owner') = i - 1
      BY <1>4, <1>6, <1>7 DEF InOrder
  <2>1. CASE i \in 1 .. Len(q)
      BY <1>2, <1>3, <1>5, <1>6, <1>7, <2>1, SMTT(30)
  <2>2. CASE i = Len(q) + 1
      BY <1>2, <1>3, <1>4, <1>5, <1>6, <1>7, <2>2, SMTT(30)
  <2>3. QED
      BY <1>4, <1>6, <1>7, <2>1, <2>2, SMTT(30)
<1>9. ServiceOrder' = r
    BY <1>1, <1>8, OrderUnique DEF Ordered
<1>10. x \notin {ServiceOrder[i] : i \in DOMAIN ServiceOrder}
    BY <1>3, <1>6, SeqLen DEF q
<1>11. Fifo!Ask(x)
    BY <1>3, <1>9, <1>10, SMTT(30) DEF Fifo!Ask, Fifo!Queued, r, q, Inside
<1>12. QED
    BY <1>11

\* The end of the spin is entering: the context is the first in the order.
LEMMA AcquireEnters ==
    ASSUME IInv, IInv', NEW c \in CPU, Acquire(c)
    PROVE  \E x \in Context : Fifo!Enter(x)
<1>0. PICK x \in Context : x = Running(c)
    BY ContextFacts
<1>1. Ordered /\ Ordered'
    BY OrderedInv, OrderedNext
<1>2. /\ pc[x] = "spin" /\ pc' = [pc EXCEPT ![x] = "held"] /\ owner = ticket[x]
      /\ UNCHANGED <<owner, ticket>>
    BY <1>0 DEF Acquire, Step
<1>3. /\ x \in Contending /\ Contending' = Contending
      /\ x \notin Inside /\ Inside' = Inside \cup {x}
    BY <1>2, SMTT(30) DEF IInv, TypeOK, Contending, Inside
<1>4. ServiceOrder' = ServiceOrder
    BY <1>2, <1>3, SameOrder
<1> DEFINE q == ServiceOrder
<1>5. /\ q \in Seq(Context) /\ Len(q) = Cardinality(Contending)
      /\ \A i \in 1 .. Len(q) : q[i] \in Contending /\ Place(ticket[q[i]], owner) = i - 1
    BY <1>1 DEF Ordered, InOrder
<1> HIDE DEF q
<1>6. Cardinality(Contending) \in Nat \ {0}
    BY <1>3, Contenders, FS_EmptySet DEF IInv
<1>7. q # <<>> /\ Head(q) = q[1] /\ 1 \in 1 .. Len(q)
    BY <1>5, <1>6, SMTT(30)
<1>8. Place(owner, owner) = 0 /\ owner \in Tickets /\ ticket[q[1]] \in Tickets
    BY <1>1, <1>5, <1>7, SMTT(30) DEF Ordered, Window, Place, Tickets
<1>9. ticket[q[1]] = owner
    BY <1>5, <1>7, <1>8, PlaceUnique, SMTT(30)
<1>10. q[1] = x
    BY <1>1, <1>2, <1>3, <1>5, <1>7, <1>9, SMTT(30) DEF Ordered, Window
<1>11. Fifo!Enter(x)
    BY <1>3, <1>4, <1>7, <1>10, SMTT(30) DEF Fifo!Enter, q, Inside
<1>12. QED
    BY <1>11

\* The increment of owner is leaving: everybody else moves up.
LEMMA UnlockLeaves ==
    ASSUME IInv, IInv', NEW c \in CPU, Unlock(c)
    PROVE  \E x \in Context : Fifo!Leave(x)
<1>0. PICK x \in Context : x = Running(c)
    BY ContextFacts
<1>1. Ordered /\ Ordered'
    BY OrderedInv, OrderedNext
<1>2. /\ pc[x] = "held" /\ pc' = [pc EXCEPT ![x] = "released"]
      /\ ticket' = [ticket EXCEPT ![x] = 0] /\ owner' = (owner + 1) % Modulus
    BY <1>0 DEF Unlock, Step
<1>3. /\ x \in Contending /\ Contending' = Contending \ {x}
      /\ x \in Inside /\ Inside' = Inside \ {x}
    BY <1>2 DEF IInv, TypeOK, Contending, Inside
<1>4. /\ Cardinality(Contending) \in Nat \ {0}
      /\ Cardinality(Contending') = Cardinality(Contending) - 1
    BY <1>3, Contenders, FS_RemoveElement, FS_EmptySet DEF IInv
<1>5. owner \in Tickets /\ ticket[x] = owner /\ \A y \in Context : ticket[y] \in Tickets
    BY <1>2 DEF IInv, TypeOK, TicketOrder, Tickets
<1>6. \A t \in Tickets : t # owner => Place(t, owner') = Place(t, owner) - 1
    BY <1>2, <1>5, Increment, TicketAssumption, SMTT(30) DEF Place, Tickets
<1> DEFINE q == ServiceOrder
           r == Tail(q)
<1>7. /\ q \in Seq(Context) /\ Len(q) = Cardinality(Contending)
      /\ \A i \in 1 .. Len(q) : q[i] \in Contending /\ Place(ticket[q[i]], owner) = i - 1
    BY <1>1 DEF Ordered, InOrder
<1> HIDE DEF q
<1>8. q # <<>> /\ Len(q) \in Nat \ {0}
    BY <1>4, <1>7
<1>9. /\ r \in Seq(Context) /\ Len(r) = Len(q) - 1
      /\ \A i \in 1 .. Len(r) : r[i] = q[i + 1]
    BY <1>7, <1>8, SeqTail
<1> HIDE DEF r
<1>10. ASSUME NEW i \in 1 .. Len(r)
       PROVE  r[i] \in Contending' /\ Place(ticket'[r[i]], owner') = i - 1
  <2>1. i + 1 \in 1 .. Len(q) /\ (i + 1) - 1 = i /\ i # 0
      BY <1>8, <1>9, SMTT(30)
  <2>2. r[i] \in Contending /\ Place(ticket[r[i]], owner) = i /\ r[i] \in Context
      BY <1>7, <1>9, <2>1 DEF Contending
  <2>3. Place(owner, owner) = 0
      BY <1>5, SMTT(30) DEF Place, Tickets
  <2>4. ticket[r[i]] # owner /\ r[i] # x
      BY <1>5, <2>1, <2>2, <2>3
  <2>5. ticket'[r[i]] = ticket[r[i]]
      BY <1>2, <2>2, <2>4 DEF IInv, TypeOK
  <2>6. Place(ticket[r[i]], owner') = i - 1
      BY <1>5, <1>6, <2>2, <2>4
  <2>7. QED
      BY <1>3, <2>2, <2>4, <2>5, <2>6, SMTT(30)
<1>11. InOrder(r, Contending', ticket', owner')
    BY <1>4, <1>7, <1>9, <1>10, SMTT(30) DEF InOrder
<1>12. ServiceOrder' = r
    BY <1>1, <1>11, OrderUnique DEF Ordered
<1>13. Fifo!Leave(x)
    BY <1>3, <1>12, SMTT(30) DEF Fifo!Leave, r, q, Inside
<1>14. QED
    BY <1>13

\* Every step is a step of FifoLock or a stutter.
LEMMA StepFifo == IInv /\ IInv' /\ [Next]_vars => [Fifo!Next]_(Fifo!lockVars)
<1> SUFFICES ASSUME IInv, IInv', [Next]_vars PROVE [Fifo!Next]_(Fifo!lockVars)
    OBVIOUS
<1>1. CASE UNCHANGED vars
  <2>1. UNCHANGED <<owner, ticket>> /\ Contending' = Contending /\ Inside' = Inside
      BY <1>1 DEF vars, Contending, Inside
  <2>2. ServiceOrder' = ServiceOrder
      BY <2>1, SameOrder
  <2>3. QED
      BY <2>1, <2>2 DEF Fifo!lockVars, Inside
<1>2. ASSUME NEW c \in CPU,
             IrqSave(c) \/ IrqRestore(c) \/ Interrupt(c) \/ InterruptReturn(c)
      PROVE  UNCHANGED Fifo!lockVars
  <2>1. PICK x \in Context : x = Running(c)
      BY ContextFacts
  <2>2. UNCHANGED <<owner, ticket>> /\ Contending' = Contending /\ Inside' = Inside
      BY <1>2, <2>1, SMTT(30) DEF IInv, TypeOK, Contending, Inside, Step, IrqSave, IrqRestore,
         Interrupt, InterruptReturn
  <2>3. ServiceOrder' = ServiceOrder
      BY <2>2, SameOrder
  <2>4. QED
      BY <2>2, <2>3 DEF Fifo!lockVars, Inside
<1>3. ASSUME NEW c \in CPU, TakeTicket(c) PROVE Fifo!Next
    BY <1>3, TakeAsks DEF Fifo!Next
<1>4. ASSUME NEW c \in CPU, Acquire(c) PROVE Fifo!Next
    BY <1>4, AcquireEnters DEF Fifo!Next
<1>5. ASSUME NEW c \in CPU, Unlock(c) PROVE Fifo!Next
    BY <1>5, UnlockLeaves DEF Fifo!Next
<1>6. QED
    BY <1>1, <1>2, <1>3, <1>4, <1>5, SMTT(30) DEF Next

\* The ticket lock implements FifoLock: contenders enter one at a time, in the
\* order of their atomic fetch-and-add, also after the counters have wrapped.
THEOREM LockIsFifo == Spec => RefinesFifoLock
<1>1. Init => Fifo!Init
  <2> SUFFICES ASSUME Init PROVE Fifo!Init
      OBVIOUS
  <2>1. Contending = {} /\ Inside = {}
      BY DEF Init, Contending, Inside
  <2>2. Ordered
      BY InitInv, OrderedInv
  <2>3. ServiceOrder \in Seq(Context) /\ Len(ServiceOrder) = 0
      BY <2>1, <2>2, FS_EmptySet DEF Ordered, InOrder
  <2>4. ServiceOrder = <<>>
      BY <2>3, SeqLen
  <2>5. QED
      BY <2>1, <2>4 DEF Fifo!Init, Inside
<1>2. QED
    BY <1>1, InitInv, NextInv, StepFifo, PTL DEF Spec, RefinesFifoLock, Fifo!Spec

-----------------------------------------------------------------------------
(* The mutex and the condition variable.                                   *)

MutexPlace == {"out", "locking", "in", "waiting", "released", "dead", "freed"}

MutexShape ==
    /\ mutex_owner \in Task \cup {None} /\ recursion \in 0 .. MaxRecursion
    /\ mutex_queue \in Seq(Task) /\ cond_queue \in Seq(Task)
    /\ Distinct(mutex_queue) /\ Distinct(cond_queue)
    /\ blocked \subseteq Task /\ stopped \subseteq blocked
    /\ killed \subseteq Killable
    /\ place \in [Task -> MutexPlace]

\* Who is in which queue: a waiter for the mutex is BLOCKED in jlos_mutex_lock
\* or was killed there; a waiter for the condition is BLOCKED in
\* jlos_cond_wait.  Nobody else is BLOCKED.
Queues ==
    /\ \A t \in Elements(mutex_queue) :
          \/ place[t] = "locking" /\ t \in blocked
          \/ place[t] \in {"locking", "in", "dead"} /\ t \in killed
    /\ \A t \in Elements(cond_queue) : place[t] \in {"waiting", "released"} /\ t \in blocked
    /\ blocked = (Elements(mutex_queue) \ killed) \cup Elements(cond_queue)

\* A killed task is on its way out; it never owns the mutex again.
Killed ==
    /\ \A t \in Task : place[t] \in {"dead", "freed"} => t \in killed
    /\ \A t \in Task \cap killed : place[t] \in {"locking", "in", "dead", "freed"} /\ mutex_owner # t

\* Where the owner is, and who must be the owner: a task that was woken in
\* jlos_mutex_lock was handed the mutex, and jlos_cond_wait keeps it until it
\* releases it.  A task that sleeps on the condition with the mutex held has
\* room for one more level.
Ownership ==
    /\ (mutex_owner = None) <=> (recursion = 0)
    /\ \A t \in Task : mutex_owner = t =>
          /\ place[t] \in {"locking", "in", "waiting", "released"}
          /\ place[t] = "locking" => t \notin blocked
          /\ place[t] = "released" => recursion < MaxRecursion
    /\ \A t \in Task \ killed :
          \/ place[t] \in {"in", "waiting"}
          \/ place[t] = "locking" /\ t \notin blocked
          => mutex_owner = t
    /\ killed = {} /\ mutex_owner = None => Elements(mutex_queue) = {}

MutexIInv == MutexShape /\ Queues /\ Killed /\ Ownership

-----------------------------------------------------------------------------
\* jlos_mutex_lock by a task that is in no queue: the mutex, or a place in the
\* queue behind an owner.
LEMMA LockStep ==
    ASSUME MutexIInv, NEW t \in Task, t \notin Elements(mutex_queue), MutexLock(t)
    PROVE  \/ /\ mutex_owner = None /\ mutex_owner' = t /\ recursion' = 1
              /\ place' = [place EXCEPT ![t] = "in"]
              /\ UNCHANGED <<mutex_queue, blocked>>
           \/ /\ mutex_owner # None /\ UNCHANGED <<mutex_owner, recursion>>
              /\ place' = [place EXCEPT ![t] = "locking"]
              /\ blocked' = blocked \cup {t}
              /\ mutex_queue' \in Seq(Task) /\ Distinct(mutex_queue')
              /\ Elements(mutex_queue') = Elements(mutex_queue) \cup {t}
<1>1. mutex_queue \in Seq(Task) /\ Distinct(mutex_queue)
    BY DEF MutexIInv, MutexShape
<1>2. CASE Locked
  <2>1. /\ Append(mutex_queue, t) \in Seq(Task) /\ Distinct(Append(mutex_queue, t))
        /\ Elements(Append(mutex_queue, t)) = Elements(mutex_queue) \cup {t}
      BY <1>1, AppendQueue, SMTT(30)
  <2>2. /\ mutex_owner # None /\ mutex_queue' = Append(mutex_queue, t)
        /\ blocked' = blocked \cup {t} /\ UNCHANGED <<mutex_owner, recursion>>
        /\ place' = [place EXCEPT ![t] = "locking"]
      BY <1>2 DEF MutexLock, Locked, Goto
  <2>3. QED
      BY <2>1, <2>2
<1>3. CASE ~Locked
    BY <1>3 DEF MutexLock, Locked, Goto
<1>4. QED
    BY <1>2, <1>3

\* jlos_mutex_unlock by the owner: one level less, or the mutex is free with
\* nobody queued, or handed to the first waiter if that one is BLOCKED, or
\* free with the killed first waiter dropped from the queue.
LEMMA UnlockStep ==
    ASSUME MutexIInv, MutexUnlock
    PROVE  \/ /\ recursion > 1 /\ recursion' = recursion - 1
              /\ UNCHANGED <<mutex_owner, mutex_queue, blocked, stopped>>
           \/ /\ recursion <= 1 /\ mutex_owner' = None /\ recursion' = 0
              /\ Elements(mutex_queue) = {}
              /\ UNCHANGED <<mutex_queue, blocked, stopped>>
           \/ /\ recursion <= 1 /\ mutex_queue' \in Seq(Task) /\ Distinct(mutex_queue')
              /\ \E w \in Elements(mutex_queue) :
                    /\ Elements(mutex_queue') = Elements(mutex_queue) \ {w}
                    /\ \/ /\ w \in blocked /\ mutex_owner' = w /\ recursion' = 1
                          /\ blocked' = blocked \ {w} /\ stopped' = stopped \ {w}
                       \/ /\ w \notin blocked /\ mutex_owner' = None /\ recursion' = 0
                          /\ UNCHANGED <<blocked, stopped>>
<1>1. mutex_queue \in Seq(Task) /\ Distinct(mutex_queue) /\ recursion \in Int
    BY SMTT(30) DEF MutexIInv, MutexShape
<1>2. CASE recursion > 1
    BY <1>2 DEF MutexUnlock
<1>3. CASE recursion <= 1 /\ mutex_queue = <<>>
    BY <1>1, <1>3, EmptyQueue DEF MutexUnlock
<1>4. CASE recursion <= 1 /\ mutex_queue # <<>>
  <2>1. /\ mutex_queue' = Tail(mutex_queue)
        /\ \/ /\ Head(mutex_queue) \in blocked
              /\ mutex_owner' = Head(mutex_queue) /\ recursion' = 1
              /\ blocked' = blocked \ {Head(mutex_queue)}
              /\ stopped' = stopped \ {Head(mutex_queue)}
           \/ /\ Head(mutex_queue) \notin blocked /\ mutex_owner' = None /\ recursion' = 0
              /\ UNCHANGED <<blocked, stopped>>
      BY <1>1, <1>4, SMTT(30) DEF MutexUnlock, Wakeup
  <2>2. /\ Tail(mutex_queue) \in Seq(Task) /\ Distinct(Tail(mutex_queue))
        /\ Elements(Tail(mutex_queue)) = Elements(mutex_queue) \ {Head(mutex_queue)}
        /\ Head(mutex_queue) \in Elements(mutex_queue)
      BY <1>1, <1>4, TailQueue
  <2>3. QED
      BY <1>4, <2>1, <2>2
<1>5. QED
    BY <1>1, <1>2, <1>3, <1>4, SMTT(30)

\* The tasks of a queue are tasks.
LEMMA Queued ==
    ASSUME MutexShape
    PROVE  Elements(mutex_queue) \subseteq Task /\ Elements(cond_queue) \subseteq Task
BY QueueEmpty DEF MutexShape

\* jlos_mutex_lock, alone or as the end of jlos_cond_wait, keeps the invariant.
LEMMA LockInv ==
    ASSUME MutexConstants, MutexIInv, NEW t \in Task, MutexLock(t),
           place[t] \in {"out", "released"}, mutex_owner # t,
           t \notin Elements(mutex_queue) \cup Elements(cond_queue) \cup killed \cup blocked,
           UNCHANGED <<cond_queue, stopped, killed>>
    PROVE  MutexIInv'
<1> USE DEF MutexConstants, MutexPlace
<1>0. Elements(mutex_queue) \subseteq Task /\ Elements(cond_queue) \subseteq Task
    BY Queued DEF MutexIInv
<1>1. CASE mutex_owner = None
  <2>1. /\ mutex_owner' = t /\ recursion' = 1 /\ place' = [place EXCEPT ![t] = "in"]
        /\ UNCHANGED <<mutex_queue, blocked>>
      BY <1>1, LockStep
  <2>2. MutexShape' /\ Queues' /\ Killed'
      BY <1>0, <2>1, SMTT(30) DEF MutexIInv, MutexShape, Queues, Killed
  <2>3. Ownership'
      BY <1>0, <1>1, <2>1, SMTT(30) DEF MutexIInv, MutexShape, Killed, Ownership
  <2>4. QED
      BY <2>2, <2>3 DEF MutexIInv
<1>2. CASE mutex_owner # None
  <2>1. /\ place' = [place EXCEPT ![t] = "locking"] /\ UNCHANGED <<mutex_owner, recursion>>
        /\ blocked' = blocked \cup {t}
        /\ mutex_queue' \in Seq(Task) /\ Distinct(mutex_queue')
        /\ Elements(mutex_queue') = Elements(mutex_queue) \cup {t}
      BY <1>2, LockStep
  <2>2. MutexShape' /\ Killed' /\ Ownership'
      BY <1>0, <1>2, <2>1 DEF MutexIInv, MutexShape, Killed, Ownership
  <2>3. Queues'
      BY <1>0, <2>1, SMTT(30) DEF MutexIInv, MutexShape, Queues
  <2>4. QED
      BY <2>2, <2>3 DEF MutexIInv
<1>3. QED
    BY <1>1, <1>2

LEMMA MutexInitInv == MutexConstants /\ MutexInit => MutexIInv
<1> SUFFICES ASSUME MutexConstants, MutexInit PROVE MutexIInv
    OBVIOUS
<1>1. /\ mutex_queue \in Seq(Task) /\ Distinct(mutex_queue) /\ Elements(mutex_queue) = {}
      /\ cond_queue \in Seq(Task) /\ Distinct(cond_queue) /\ Elements(cond_queue) = {}
    BY EmptyQueue DEF MutexInit
<1>2. QED
    BY <1>1, SMTT(30) DEF MutexInit, MutexConstants, MutexIInv, MutexShape, MutexPlace, Queues, Killed, Ownership

LEMMA MutexNextInv == MutexConstants /\ MutexIInv /\ [MutexNext]_mutexVars => MutexIInv'
<1> SUFFICES ASSUME MutexConstants, MutexIInv, [MutexNext]_mutexVars PROVE MutexIInv'
    OBVIOUS
<1> USE DEF MutexConstants, MutexPlace
<1>0. /\ Elements(mutex_queue) \subseteq Task /\ Elements(cond_queue) \subseteq Task
      /\ Elements(mutex_queue) \cap Elements(cond_queue) = {}
    BY Queued DEF MutexIInv, Queues, Killed
<1>1. ASSUME NEW t \in Task, Lock(t)
      PROVE  MutexIInv'
  <2>1. place[t] = "out" /\ MutexLock(t) /\ UNCHANGED <<cond_queue, stopped, killed>>
      BY <1>1 DEF Lock
  <2>2. /\ t \notin Elements(mutex_queue) \cup Elements(cond_queue) \cup killed \cup blocked
        /\ mutex_owner # t
      BY <2>1 DEF MutexIInv, MutexShape, Queues, Killed, Ownership
  <2>3. QED
      BY <2>1, <2>2, LockInv
<1>2. ASSUME NEW t \in Task, Relock(t)
      PROVE  MutexIInv'
    BY <1>0, <1>2, SMTT(30) DEF Relock, MutexIInv, MutexShape, Queues, Killed, Ownership
<1>3. ASSUME NEW t \in Task, LockReturn(t)
      PROVE  MutexIInv'
    BY <1>0, <1>3, SMTT(30) DEF LockReturn, Goto, MutexIInv, MutexShape, Queues, Killed, Ownership
<1>4. ASSUME NEW t \in Task, UnlockCall(t)
      PROVE  MutexIInv'
  <2>1. place[t] = "in" /\ UNCHANGED <<cond_queue, killed>>
      BY <1>4 DEF UnlockCall
  <2>2. CASE mutex_owner # t
    <3>1. /\ t \in killed /\ place' = [place EXCEPT ![t] = "dead"]
          /\ UNCHANGED <<mutex_owner, recursion, mutex_queue, blocked, stopped>>
        BY <1>4, <2>1, <2>2 DEF UnlockCall, Goto, MutexIInv, Ownership
    <3>2. QED
        BY <1>0, <2>1, <3>1, SMTT(30) DEF MutexIInv, MutexShape, Queues, Killed, Ownership
  <2>3. CASE mutex_owner = t
    <3>1. /\ MutexUnlock /\ t \notin killed
          /\ place' = IF recursion > 1 THEN place ELSE [place EXCEPT ![t] = "out"]
        BY <1>4, <2>1, <2>3 DEF UnlockCall, Goto, MutexIInv, Killed
    <3>2. t \notin Elements(mutex_queue) \cup Elements(cond_queue)
        BY <2>1, <3>1 DEF MutexIInv, Queues
    <3>3. QED
        BY <1>0, <2>1, <2>3, <3>1, <3>2, UnlockStep, SMTT(30)
        DEF MutexIInv, MutexShape, Queues, Killed, Ownership
  <2>4. QED
      BY <2>2, <2>3
<1>5. ASSUME NEW t \in Task, CondWait(t)
      PROVE  MutexIInv'
  <2>1. /\ place[t] = "in" /\ t \notin killed /\ cond_queue' = Append(cond_queue, t)
        /\ blocked' = blocked \cup {t} /\ place' = [place EXCEPT ![t] = "waiting"]
        /\ UNCHANGED <<mutex_owner, recursion, mutex_queue, stopped, killed>>
      BY <1>5 DEF CondWait, Goto
  <2>2. t \notin Elements(mutex_queue) \cup Elements(cond_queue) /\ mutex_owner = t
      BY <2>1 DEF MutexIInv, Queues, Ownership
  <2>3. /\ cond_queue' \in Seq(Task) /\ Distinct(cond_queue')
        /\ Elements(cond_queue') = Elements(cond_queue) \cup {t}
      BY <2>1, <2>2, AppendQueue, SMTT(30) DEF MutexIInv, MutexShape
  <2>4. QED
      BY <1>0, <2>1, <2>2, <2>3, SMTT(30) DEF MutexIInv, MutexShape, Queues, Killed, Ownership
<1>6. ASSUME NEW t \in Task, CondRelease(t)
      PROVE  MutexIInv'
  <2>1. /\ place[t] = "waiting" /\ t \notin killed /\ mutex_owner = t
        /\ MutexUnlock /\ place' = [place EXCEPT ![t] = "released"]
        /\ UNCHANGED <<cond_queue, killed>>
      BY <1>6 DEF CondRelease, Goto, MutexIInv, Killed, Ownership
  <2>2. t \notin Elements(mutex_queue)
      BY <2>1 DEF MutexIInv, Queues
  <2>3. QED
      BY <1>0, <2>1, <2>2, UnlockStep, SMTT(30) DEF MutexIInv, MutexShape, Queues, Killed, Ownership
<1>7. ASSUME NEW t \in Task, CondReturn(t)
      PROVE  MutexIInv'
  <2>1. /\ place[t] = "released" /\ t \notin blocked
        /\ UNCHANGED <<cond_queue, stopped, killed>>
      BY <1>7 DEF CondReturn
  <2>2. t \notin Elements(mutex_queue) \cup Elements(cond_queue) \cup killed
      BY <2>1 DEF MutexIInv, Queues, Killed
  <2>3. CASE mutex_owner = t
    <3>1. /\ recursion' = recursion + 1 /\ place' = [place EXCEPT ![t] = "in"]
          /\ UNCHANGED <<mutex_owner, mutex_queue, blocked>>
        BY <1>7, <2>3 DEF CondReturn, Goto
    <3>2. QED
        BY <1>0, <2>1, <2>2, <2>3, <3>1, SMTT(30) DEF MutexIInv, MutexShape, Queues, Killed, Ownership
  <2>4. CASE mutex_owner # t
    <3>1. MutexLock(t)
        BY <1>7, <2>4 DEF CondReturn
    <3>2. QED
        BY <2>1, <2>2, <2>4, <3>1, LockInv, SMTT(30)
  <2>5. QED
      BY <2>3, <2>4
<1>8. ASSUME NEW t \in Task, Preempt(t)
      PROVE  MutexIInv'
    BY <1>0, <1>8 DEF Preempt, MutexIInv, MutexShape, Queues, Killed, Ownership
<1>9. ASSUME NEW t \in Task, Kill(t)
      PROVE  MutexIInv'
    BY <1>0, <1>9 DEF Kill, Wakeup, MutexIInv, MutexShape, Queues, Killed, Ownership
<1>10. ASSUME NEW t \in Task, Free(t)
       PROVE  MutexIInv'
  <2>1. /\ place[t] = "dead" /\ t \in killed /\ place' = [place EXCEPT ![t] = "freed"]
        /\ UNCHANGED <<mutex_owner, recursion, cond_queue, blocked, stopped, killed>>
      BY <1>10 DEF Free, Goto, MutexIInv, Killed
  <2>2. Range(mutex_queue) = Elements(mutex_queue) /\ DOMAIN mutex_queue = 1 .. Len(mutex_queue)
      BY SeqLen DEF MutexIInv, MutexShape, Range, Elements
  <2>3. /\ mutex_queue' \in Seq(Task) /\ Distinct(mutex_queue')
        /\ Elements(mutex_queue') = Elements(mutex_queue) \ {t}
    <3>1. CASE t \notin Elements(mutex_queue)
        BY <1>10, <2>2, <3>1 DEF Free, MutexIInv, MutexShape
    <3>2. CASE t \in Elements(mutex_queue)
      <4>1. PICK i \in 1 .. Len(mutex_queue) :
                mutex_queue[i] = t /\ mutex_queue' = Unlinked(mutex_queue, i)
          BY <1>10, <2>2, <3>2 DEF Free, Unlinked
      <4>2. QED
          BY <4>1, UnlinkQueue DEF MutexIInv, MutexShape
    <3>3. QED
        BY <3>1, <3>2
  <2>4. QED
      BY <1>0, <2>1, <2>3, SMTT(30) DEF MutexIInv, MutexShape, Queues, Killed, Ownership
<1>11. CASE Signal
  <2>1. /\ cond_queue' = Tail(cond_queue) /\ cond_queue # <<>>
        /\ blocked' = blocked \ {Head(cond_queue)} /\ stopped' = stopped \ {Head(cond_queue)}
        /\ UNCHANGED <<mutex_owner, recursion, mutex_queue, killed, place>>
      BY <1>11 DEF Signal, Wakeup
  <2>2. /\ cond_queue' \in Seq(Task) /\ Distinct(cond_queue')
        /\ Elements(cond_queue') = Elements(cond_queue) \ {Head(cond_queue)}
        /\ Head(cond_queue) \in Elements(cond_queue)
      BY <2>1, TailQueue DEF MutexIInv, MutexShape
  <2>3. QED
      BY <1>0, <2>1, <2>2 DEF MutexIInv, MutexShape, Queues, Killed, Ownership
<1>12. CASE Broadcast
  <2>1. Range(cond_queue) = Elements(cond_queue)
      BY SeqLen DEF MutexIInv, MutexShape, Range, Elements
  <2>2. /\ blocked' = blocked \ Elements(cond_queue) /\ stopped' = stopped \ Elements(cond_queue)
        /\ cond_queue' \in Seq(Task) /\ Distinct(cond_queue') /\ Elements(cond_queue') = {}
        /\ UNCHANGED <<mutex_owner, recursion, mutex_queue, killed, place>>
      BY <1>12, <2>1, EmptyQueue DEF Broadcast, Wakeup
  <2>3. QED
      BY <1>0, <2>2 DEF MutexIInv, MutexShape, Queues, Killed, Ownership
<1>13. CASE UNCHANGED mutexVars
    BY <1>0, <1>13 DEF mutexVars, MutexIInv, MutexShape, Queues, Killed, Ownership
<1>14. QED
    BY <1>1, <1>2, <1>3, <1>4, <1>5, <1>6, <1>7, <1>8, <1>9, <1>10, <1>11, <1>12, <1>13, SMTT(30)
    DEF MutexNext

-----------------------------------------------------------------------------
\* The fields of the mutex and of the condition keep their types; nesting never
\* exceeds its bound, also through jlos_cond_wait.
THEOREM MutexTypeCorrect ==
    ASSUME MutexConstants PROVE MutexSpec => []MutexTypeOK
<1>1. MutexIInv => MutexTypeOK
    BY DEF MutexIInv, MutexShape, MutexPlace, MutexTypeOK
<1>2. MutexInit => MutexIInv
    BY MutexInitInv
<1>3. MutexIInv /\ [MutexNext]_mutexVars => MutexIInv'
    BY MutexNextInv
<1>4. QED
    BY <1>1, <1>2, <1>3, PTL DEF MutexSpec

\* The mutex has one user: jlos_mutex_lock and jlos_cond_wait return to a task
\* that was not killed only with the mutex, the status test before the hand-off
\* never makes a task the owner that is gone and, while nobody has been killed,
\* jlos_mutex_unlock leaves no waiter behind a free mutex.
THEOREM MutexSafe ==
    ASSUME MutexConstants PROVE MutexSpec => []MutexSound
<1>1. MutexIInv => MutexSound
  <2>1. MutexIInv => OwnerIsPresent /\ OwnerOnly
      BY DEF MutexIInv, Ownership, OwnerIsPresent, OwnerOnly
  <2>2. MutexIInv => FreeMeansNoWaiter
      BY QueueEmpty, SMTT(30) DEF MutexIInv, MutexShape, Ownership, FreeMeansNoWaiter
  <2>3. QED
      BY <2>1, <2>2 DEF MutexSound
<1>2. MutexInit => MutexIInv
    BY MutexInitInv
<1>3. MutexIInv /\ [MutexNext]_mutexVars => MutexIInv'
    BY MutexNextInv
<1>4. QED
    BY <1>1, <1>2, <1>3, PTL DEF MutexSpec

\* Nobody sleeps forgotten and nobody is linked twice, in spite of signals,
\* broadcasts, preemption and SIGKILL.
THEOREM NobodyForgotten ==
    ASSUME MutexConstants PROVE MutexSpec => []BlockedIsQueued
<1>1. MutexIInv => BlockedIsQueued
  <2> SUFFICES ASSUME MutexIInv PROVE BlockedIsQueued
      OBVIOUS
  <2>1. /\ Range(mutex_queue) = Elements(mutex_queue)
        /\ Range(cond_queue) = Elements(cond_queue)
        /\ IsInjective(mutex_queue) /\ IsInjective(cond_queue)
      BY SeqLen DEF MutexIInv, MutexShape, Range, Elements, Distinct, IsInjective
  <2>2. QED
      BY <2>1 DEF MutexIInv, Queues, Killed, BlockedIsQueued
<1>2. MutexInit => MutexIInv
    BY MutexInitInv
<1>3. MutexIInv /\ [MutexNext]_mutexVars => MutexIInv'
    BY MutexNextInv
<1>4. QED
    BY <1>1, <1>2, <1>3, PTL DEF MutexSpec
=============================================================================
