------------------------------ MODULE Process ------------------------------
(***************************************************************************)
(* What a process owns, through fork, clone, exec, exit, wait and reaping: *)
(* its entry in the pid table, its reference to the address space and the  *)
(* objects behind its descriptors.                                         *)
(*                                                                         *)
(* kernel/multitask.c (fork, exec, exit, wait, the descriptor table),      *)
(* kernel/syscall.c (their system calls, pipe, open, close), fs/elf.c,     *)
(* mm references of kernel/vma.c, pipe references of kernel/ipc.c.         *)
(* System calls run with interrupts off, on any CPU; what the manager lock *)
(* covers is one step.                                                     *)
(***************************************************************************)
EXTENDS Integers, FiniteSets, HashChain

CONSTANTS
    PrTasks,     \* pids are 1 .. PrTasks, handed out in order; 1 is the first process
    PrSlots,     \* descriptors of a process beyond the console ones
    PrBudgets    \* set of [execs, forks, objects]: what a run has of each

PrTask == 1 .. PrTasks
Mm == 1 .. 2 * PrTasks
NoObj == [type |-> "UNUSED", id |-> 0]

VARIABLES
    st,        \* per task: "none", "ready", "waiting", "zombie" or "gone"
    pc,        \* per task: "user", "exec", "wait", "notify", "leaving" or "off"
    parent,    \* per task: parent_pid
    waits,     \* per task: waiting_pid
    pids,      \* the pid hash
    zombies,   \* zombie_head
    mm,        \* per task: its address space or 0
    mmref,     \* per address space: its count; 0 is not allocated
    fds,       \* per task: per slot [type, id]
    ref,       \* per pipe or file: its count; -1 before it is created, 0 freed
    budget,    \* [execs, forks]: those still to come
    failed,    \* tasks whose exec failed after they left the pid hash
    wild       \* a freed file was used

prVars == <<st, pc, parent, waits, pids, zombies, mm, mmref, fds, ref, budget, failed, wild>>

PrInit ==
    /\ st = [t \in PrTask |-> IF t = 1 THEN "ready" ELSE "none"]
    /\ pc = [t \in PrTask |-> IF t = 1 THEN "user" ELSE "off"]
    /\ parent = [t \in PrTask |-> 0] /\ waits = [t \in PrTask |-> t]
    /\ pids = jlos_hash_chain_insert(jlos_hash_chain_init(PrTask), 1)
    /\ zombies = {} /\ failed = {} /\ wild = FALSE
    /\ mm = [t \in PrTask |-> IF t = 1 THEN 1 ELSE 0]
    /\ mmref = [m \in Mm |-> IF m = 1 THEN 1 ELSE 0]
    /\ fds = [t \in PrTask |-> [i \in 1 .. PrSlots |-> NoObj]]
    /\ \E b \in PrBudgets :
            budget = [execs |-> b.execs, forks |-> b.forks] /\ ref = [o \in 1 .. b.objects |-> -1]

\* After a use of freed memory nothing more is said.
Running(t) == st[t] = "ready" /\ pc[t] = "user" /\ ~wild
find_pid_locked(n) == n # 0 /\ jlos_hash_chain_see(pids, n)
FreshMm == CHOOSE m \in Mm : mmref[m] = 0
FreeSlots(t) == {i \in 1 .. PrSlots : fds[t][i].type = "UNUSED"}
Least(S) == CHOOSE i \in S : \A j \in S : i <= j
---------------------------------------------------------------------------
(* fork and clone                                                          *)

\* A fork that runs out of memory, or finds no room in the task table, undoes
\* what it did and leaves no trace.  File descriptors are copied without a
\* reference.
jlos_process_fork_inner(p, c, vm) ==
    LET m == IF vm THEN mm[p] ELSE FreshMm
        copies(o) == Cardinality({i \in 1 .. PrSlots : fds[p][i] = [type |-> "PIPE", id |-> o]})
    IN  /\ st' = [st EXCEPT ![c] = "ready"] /\ pc' = [pc EXCEPT ![c] = "user"]
        /\ parent' = [parent EXCEPT ![c] = p] /\ mm' = [mm EXCEPT ![c] = m]
        /\ mmref' = [mmref EXCEPT ![m] = @ + 1] /\ fds' = [fds EXCEPT ![c] = fds[p]]
        /\ pids' = jlos_hash_chain_insert(pids, c)
        /\ ref' = [o \in DOMAIN ref |-> ref[o] + copies(o)]
        /\ UNCHANGED <<waits, zombies, failed, wild>>

Fork(p, vm) ==
    /\ Running(p) /\ \E c \in PrTask : st[c] = "none"
    /\ budget.forks > 0 /\ budget' = [budget EXCEPT !.forks = @ - 1]
    /\ jlos_process_fork_inner(p, Least({t \in PrTask : st[t] = "none"}), vm)
syscall_fork(p) == Fork(p, FALSE)
syscall_clone(p) == Fork(p, TRUE)
---------------------------------------------------------------------------
(* exec                                                                    *)

\* The old address space is freed when this was its last user.
ExecBegin(t) ==
    /\ pids' = jlos_hash_chain_remove(pids, t)
    /\ mmref' = [mmref EXCEPT ![mm[t]] = @ - 1] /\ mm' = [mm EXCEPT ![t] = 0]
    /\ pc' = [pc EXCEPT ![t] = "exec"]
    /\ UNCHANGED <<st, parent, waits, zombies, fds, ref, failed, wild>>
syscall_execve(t) ==
    Running(t) /\ budget.execs > 0 /\ budget' = [budget EXCEPT !.execs = @ - 1] /\ ExecBegin(t)

ExecDone(t) ==
    /\ pc[t] = "exec"
    /\ mm' = [mm EXCEPT ![t] = FreshMm] /\ mmref' = [mmref EXCEPT ![FreshMm] = 1]
    /\ pids' = jlos_hash_chain_insert(pids, t) /\ pc' = [pc EXCEPT ![t] = "user"]
    /\ UNCHANGED <<st, parent, waits, zombies, fds, ref, budget, failed, wild>>

\* The image cannot be loaded (the new address space is destroyed) or its stack
\* cannot be set up (it is kept): the task exits, outside the pid hash.
ExecFails(t, kept) ==
    /\ pc[t] = "exec"
    /\ st' = [st EXCEPT ![t] = "zombie"] /\ pc' = [pc EXCEPT ![t] = "notify"]
    /\ mm' = [mm EXCEPT ![t] = IF kept THEN FreshMm ELSE 0]
    /\ mmref' = IF kept THEN [mmref EXCEPT ![FreshMm] = 1] ELSE mmref
    /\ failed' = failed \cup {t}
    /\ UNCHANGED <<parent, waits, pids, zombies, fds, ref, budget, wild>>
---------------------------------------------------------------------------
(* exit, wait and reaping                                                  *)

jlos_process_exit(t) ==
    /\ Running(t)
    /\ st' = [st EXCEPT ![t] = "zombie"] /\ pc' = [pc EXCEPT ![t] = "notify"]
    /\ UNCHANGED <<parent, waits, pids, zombies, mm, mmref, fds, ref, budget, failed, wild>>

\* The parent wakes if it waits for this child, and the pid hash finds the child.
wake_waiter_locked(t) ==
    IF find_pid_locked(t) /\ st[parent[t]] = "waiting" /\ waits[parent[t]] = t
    THEN /\ st' = [st EXCEPT ![parent[t]] = "ready"]
         /\ waits' = [waits EXCEPT ![parent[t]] = parent[t]]
    ELSE UNCHANGED <<st, waits>>

ExitNotify(t) ==
    /\ pc[t] = "notify" /\ pc' = [pc EXCEPT ![t] = "leaving"]
    /\ IF find_pid_locked(parent[t]) /\ st[parent[t]] # "zombie"
       THEN wake_waiter_locked(t) /\ UNCHANGED zombies
       ELSE zombies' = zombies \cup {t} /\ UNCHANGED <<st, waits>>
    /\ UNCHANGED <<parent, pids, mm, mmref, fds, ref, budget, failed, wild>>

\* The exited task's CPU has switched to another task.
Leave(t) ==
    /\ pc[t] = "leaving" /\ pc' = [pc EXCEPT ![t] = "off"]
    /\ UNCHANGED <<st, parent, waits, pids, zombies, mm, mmref, fds, ref, budget, failed, wild>>

\* Fault: the address space is not given back.
task_free_locked_KeepsMm(t) ==
    /\ st' = [st EXCEPT ![t] = "gone"] /\ pids' = jlos_hash_chain_remove(pids, t)
    /\ mm' = [mm EXCEPT ![t] = 0] /\ mmref' = mmref
    /\ fds' = [fds EXCEPT ![t] = [i \in 1 .. PrSlots |-> NoObj]] /\ zombies' = zombies \ {t}

\* The table of descriptors goes, what it refers to is not closed.
task_free_locked(t) ==
    /\ st' = [st EXCEPT ![t] = "gone"] /\ pids' = jlos_hash_chain_remove(pids, t)
    /\ mm' = [mm EXCEPT ![t] = 0]
    /\ mmref' = IF mm[t] = 0 THEN mmref ELSE [mmref EXCEPT ![mm[t]] = @ - 1]
    /\ fds' = [fds EXCEPT ![t] = [i \in 1 .. PrSlots |-> NoObj]] /\ zombies' = zombies \ {t}

\* One round of the wait loop: an unknown pid and one that is not a child end
\* it; a zombie that a CPU still uses ends it too and is not freed.
jlos_task_wait_or_reap(p, c) ==
    CASE ~find_pid_locked(c) \/ parent[c] # p \/ (st[c] = "zombie" /\ pc[c] # "off") ->
           pc' = [pc EXCEPT ![p] = "user"] /\ UNCHANGED <<st, waits, pids, zombies, mm, mmref, fds>>
      [] find_pid_locked(c) /\ parent[c] = p /\ st[c] = "zombie" /\ pc[c] = "off" ->
           task_free_locked(c) /\ pc' = [pc EXCEPT ![p] = "user"] /\ UNCHANGED waits
      [] OTHER ->
           /\ st' = [st EXCEPT ![p] = "waiting"] /\ waits' = [waits EXCEPT ![p] = c]
           /\ pc' = [pc EXCEPT ![p] = "wait"] /\ UNCHANGED <<pids, zombies, mm, mmref, fds>>

\* A woken waiter asks again for the pid that it slept on.
syscall_wait_pid(p, c) ==
    /\ c # p /\ st[p] = "ready" /\ pc[p] \in {"user", "wait"}
    /\ parent[c] = p \/ pc[p] = "user"
    /\ jlos_task_wait_or_reap(p, c)
    /\ UNCHANGED <<parent, ref, budget, failed, wild>>

ReapListed(t) ==
    /\ t \in zombies /\ pc[t] = "off"
    /\ task_free_locked(t)
    /\ UNCHANGED <<pc, parent, waits, ref, budget, failed, wild>>
---------------------------------------------------------------------------
(* Descriptors                                                             *)

syscall_create_pipe(t, o) ==
    /\ Running(t) /\ ref[o] = -1 /\ Cardinality(FreeSlots(t)) >= 2
    /\ LET r == Least(FreeSlots(t))
           w == Least(FreeSlots(t) \ {r})
           e == [type |-> "PIPE", id |-> o]
       IN  fds' = [fds EXCEPT ![t][r] = e, ![t][w] = e]
    /\ ref' = [ref EXCEPT ![o] = 2]
    /\ UNCHANGED <<st, pc, parent, waits, pids, zombies, mm, mmref, budget, failed, wild>>

syscall_open(t, o) ==
    /\ Running(t) /\ ref[o] = -1 /\ FreeSlots(t) # {}
    /\ fds' = [fds EXCEPT ![t][Least(FreeSlots(t))] = [type |-> "FILE", id |-> o]]
    /\ ref' = [ref EXCEPT ![o] = 1]
    /\ UNCHANGED <<st, pc, parent, waits, pids, zombies, mm, mmref, budget, failed, wild>>

\* Closing a file frees it whatever its count.
syscall_task_fd_close(t, i) ==
    LET e == fds[t][i]
    IN  /\ Running(t) /\ e # NoObj
        /\ ref' = [ref EXCEPT ![e.id] = IF e.type = "PIPE" THEN @ - 1 ELSE 0]
        /\ wild' = (e.type = "FILE" /\ ref[e.id] = 0)
        /\ fds' = [fds EXCEPT ![t][i] = NoObj]
        /\ UNCHANGED <<st, pc, parent, waits, pids, zombies, mm, mmref, budget, failed>>

PrNext ==
    \E t \in PrTask :
        \/ syscall_fork(t) \/ syscall_clone(t) \/ syscall_execve(t) \/ ExecDone(t)
        \/ \E kept \in BOOLEAN : ExecFails(t, kept)
        \/ jlos_process_exit(t) \/ ExitNotify(t) \/ Leave(t) \/ ReapListed(t)
        \/ \E c \in PrTask : syscall_wait_pid(t, c)
        \/ \E o \in DOMAIN ref : syscall_create_pipe(t, o) \/ syscall_open(t, o)
        \/ \E i \in 1 .. PrSlots : syscall_task_fd_close(t, i)

\* An exiting task runs on to its last switch.
PrFairness == \A t \in PrTask : WF_prVars(ExitNotify(t))

PrSpec == PrInit /\ [][PrNext]_prVars /\ PrFairness
---------------------------------------------------------------------------
PrTypeOK ==
    /\ st \in [PrTask -> {"none", "ready", "waiting", "zombie", "gone"}]
    /\ pc \in [PrTask -> {"user", "exec", "wait", "notify", "leaving", "off"}]
    /\ parent \in [PrTask -> 0 .. PrTasks] /\ waits \in [PrTask -> PrTask]
    /\ zombies \subseteq PrTask /\ failed \subseteq PrTask /\ wild \in BOOLEAN
    /\ mm \in [PrTask -> {0} \cup Mm] /\ mmref \in [Mm -> 0 .. PrTasks]
    /\ budget \in [execs : Nat, forks : Nat] /\ \A o \in DOMAIN ref : ref[o] \in -1 .. PrTasks * PrSlots

\* An address space is counted once for every task that uses it, through clone,
\* exec of one of several threads, failed execs and reaping: it is freed exactly
\* with its last user.
MmCounted == \A m \in Mm : mmref[m] = Cardinality({t \in PrTask : mm[t] = m})

\* A pipe has a reference for every descriptor that names it: none outlives it.
PipeHeld ==
    \A o \in DOMAIN ref :
        LET users == {<<t, i>> \in PrTask \X (1 .. PrSlots) : fds[t][i] = [type |-> "PIPE", id |-> o]}
        IN  users # {} => ref[o] >= Cardinality(users)

\* As long as no exec has failed, the pid table finds every task that is not in
\* the middle of an exec, and none that was freed.
PidFindable ==
    failed = {} => \A t \in PrTask :
        /\ st[t] \in {"ready", "waiting", "zombie"} /\ pc[t] # "exec" => find_pid_locked(t)
        /\ st[t] \in {"none", "gone"} => ~find_pid_locked(t)

\* No process waits for ever for a child that has exited or is gone, unless the
\* child's exec had failed.
ExitWakesParent ==
    \A p \in PrTask :
        []<>(st[p] = "waiting" => failed # {} \/ st[waits[p]] \notin {"zombie", "gone"})
=============================================================================
