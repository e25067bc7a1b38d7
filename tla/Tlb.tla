-------------------------------- MODULE Tlb --------------------------------
(***************************************************************************)
(* fork on a machine with several CPUs: the parent's pages lose their      *)
(* write permission and every CPU that may have cached the old permission  *)
(* is told to drop it (TLB shootdown).  Threads of the parent run on the   *)
(* other CPUs meanwhile.  The initiator posts the page to each CPU, sends  *)
(* an interrupt and spins until every CPU has acknowledged.                *)
(*                                                                         *)
(* arch/x86/paging.c, arch/x86/interrupts.c, kernel/paging.c               *)
(***************************************************************************)
EXTENDS Integers

CONSTANTS
    TlCpu,      \* CPUs 0 .. n - 1, all running threads of the parent
    TlVa,       \* the pages of the parent, naturals
    TlForkers   \* the CPUs on which a thread may call fork

\* With one CPU there is nobody to tell.
ASSUME TlAssumption ==
    /\ TlCpu \subseteq Nat /\ \A c \in TlCpu : TlCpu # {c}
    /\ TlVa \subseteq Nat /\ TlForkers \subseteq TlCpu

Nobody == -1

VARIABLES
    writable,   \* [TlVa -> BOOLEAN]: write bit of the parent's entries
    shared,     \* pages a child maps as well, once fork has returned
    tlb,        \* [TlCpu -> [TlVa -> {"none", "ro", "rw"}]]
    at,         \* [TlCpu -> {"user", "kernel", "post", "wait"}]
    page,       \* the page being shot down by a CPU
    peer,       \* the CPU it posts to, or waits for
    flush_va,   \* jlos_cpu_tlb_flush_va, one slot per CPU
    flush_done, \* jlos_cpu_tlb_flush_done, one flag per CPU
    ipi         \* a shootdown interrupt is pending at the CPU

tlVars == <<writable, shared, tlb, at, page, peer, flush_va, flush_done, ipi>>

TlTypeOK ==
    /\ writable \in [TlVa -> BOOLEAN] /\ shared \subseteq TlVa
    /\ tlb \in [TlCpu -> [TlVa -> {"none", "ro", "rw"}]]
    /\ at \in [TlCpu -> {"user", "kernel", "post", "wait"}]
    /\ page \in [TlCpu -> TlVa \cup {Nobody}] /\ peer \in [TlCpu -> TlCpu \cup {Nobody}]
    /\ flush_va \in [TlCpu -> TlVa \cup {Nobody}]
    /\ flush_done \in [TlCpu -> BOOLEAN] /\ ipi \in [TlCpu -> BOOLEAN]

TlInit ==
    /\ writable = [v \in TlVa |-> TRUE] /\ shared = {}
    /\ tlb = [c \in TlCpu |-> [v \in TlVa |-> "none"]]
    /\ at = [c \in TlCpu |-> "user"]
    /\ page = [c \in TlCpu |-> Nobody] /\ peer = [c \in TlCpu |-> Nobody]
    /\ flush_va = [c \in TlCpu |-> Nobody]
    /\ flush_done = [c \in TlCpu |-> FALSE] /\ ipi = [c \in TlCpu |-> FALSE]

\* Interrupts are on in user mode and off from the entry of a system call.
IrqOn(c) == at[c] = "user"

Others(c) == TlCpu \ {c}
NextIn(S, i) ==
    LET above == {d \in S : d > i}
    IN  IF above = {} THEN Nobody ELSE CHOOSE d \in above : \A e \in above : d <= e

\* invlpg on the CPU itself.
jlos_hal_paging_flush_tlb(t, c, v) == [t EXCEPT ![c][v] = "none"]

---------------------------------------------------------------------------
(* Threads of the parent.                                                  *)

\* An access caches the permission of the entry.
Access(c, v) ==
    /\ at[c] = "user" /\ tlb[c][v] = "none"
    /\ tlb' = [tlb EXCEPT ![c][v] = IF writable[v] THEN "rw" ELSE "ro"]
    /\ UNCHANGED <<writable, shared, at, page, peer, flush_va, flush_done, ipi>>

\* A write through a read-only entry faults.  A shared page is copied, the
\* last sharer gets the write bit back; only this CPU drops the page.
CowBreak(c, v) ==
    /\ at[c] = "user" /\ tlb[c][v] = "ro"
    /\ writable' = [writable EXCEPT ![v] = TRUE]
    /\ shared' = shared \ {v}
    /\ tlb' = jlos_hal_paging_flush_tlb(tlb, c, v)
    /\ UNCHANGED <<at, page, peer, flush_va, flush_done, ipi>>

\* Another address space is loaded: writing CR3 drops the cached entries.
jlos_hal_paging_switch(c) ==
    /\ at[c] = "user"
    /\ tlb' = [tlb EXCEPT ![c] = [v \in TlVa |-> "none"]]
    /\ UNCHANGED <<writable, shared, at, page, peer, flush_va, flush_done, ipi>>

EnterKernel(c) ==
    /\ at[c] = "user" /\ at' = [at EXCEPT ![c] = "kernel"]
    /\ UNCHANGED <<writable, shared, tlb, page, peer, flush_va, flush_done, ipi>>

LeaveKernel(c) ==
    /\ at[c] = "kernel" /\ at' = [at EXCEPT ![c] = "user"]
    /\ UNCHANGED <<writable, shared, tlb, page, peer, flush_va, flush_done, ipi>>

---------------------------------------------------------------------------
(* fork and its shootdowns.                                                *)

\* The shootdown of v begins with the CPU's own entry.
StartPage(c, v, t) ==
    /\ page' = [page EXCEPT ![c] = v]
    /\ peer' = [peer EXCEPT ![c] = NextIn(Others(c), Nobody)]
    /\ at' = [at EXCEPT ![c] = "post"]
    /\ tlb' = jlos_hal_paging_flush_tlb(t, c, v)

\* Under the locks of both contexts every page becomes read-only.
jlos_paging_cow_range(c) ==
    /\ at[c] = "kernel" /\ c \in TlForkers
    /\ \E v \in TlVa : writable[v]
    /\ writable' = [v \in TlVa |-> FALSE]
    /\ StartPage(c, NextIn(TlVa, Nobody), tlb)
    /\ UNCHANGED <<shared, flush_va, flush_done, ipi>>

\* Fault: flush_done is left as it was.
PostShootdown_NotReset(c) ==
    LET d == peer[c]
        n == NextIn(Others(c), d)
    IN  /\ at[c] = "post"
        /\ flush_va' = [flush_va EXCEPT ![d] = page[c]]
        /\ ipi' = [ipi EXCEPT ![d] = TRUE]
        /\ at' = [at EXCEPT ![c] = IF n = Nobody THEN "wait" ELSE "post"]
        /\ peer' = [peer EXCEPT ![c] = IF n = Nobody THEN NextIn(Others(c), Nobody) ELSE n]
        /\ UNCHANGED <<writable, shared, tlb, page, flush_done>>

\* One CPU gets the page, its flag is cleared and the interrupt sent.
PostShootdown(c) ==
    LET d == peer[c]
        n == NextIn(Others(c), d)
    IN  /\ at[c] = "post"
        /\ flush_va' = [flush_va EXCEPT ![d] = page[c]]
        /\ flush_done' = [flush_done EXCEPT ![d] = FALSE]
        /\ ipi' = [ipi EXCEPT ![d] = TRUE]
        /\ at' = [at EXCEPT ![c] = IF n = Nobody THEN "wait" ELSE "post"]
        /\ peer' = [peer EXCEPT ![c] = IF n = Nobody THEN NextIn(Others(c), Nobody) ELSE n]
        /\ UNCHANGED <<writable, shared, tlb, page>>

\* The spin on one CPU's flag ends; after the last CPU comes the next page,
\* after the last page fork returns and the child may run.
AwaitShootdown(c) ==
    LET n == NextIn(Others(c), peer[c])
        v == NextIn(TlVa, page[c])
    IN  /\ at[c] = "wait" /\ flush_done[peer[c]]
        /\ IF n # Nobody THEN peer' = [peer EXCEPT ![c] = n] /\ UNCHANGED <<at, page, tlb, shared>>
           ELSE IF v # Nobody THEN StartPage(c, v, tlb) /\ UNCHANGED shared
           ELSE /\ at' = [at EXCEPT ![c] = "user"] /\ shared' = {u \in TlVa : ~writable[u]}
                /\ page' = [page EXCEPT ![c] = Nobody] /\ peer' = [peer EXCEPT ![c] = Nobody]
                /\ UNCHANGED tlb
        /\ UNCHANGED <<writable, flush_va, flush_done, ipi>>

\* The shootdown interrupt.
jlos_irq_manager_do_handle(c) ==
    /\ ipi[c] /\ IrqOn(c)
    /\ tlb' = jlos_hal_paging_flush_tlb(tlb, c, flush_va[c])
    /\ flush_done' = [flush_done EXCEPT ![c] = TRUE]
    /\ ipi' = [ipi EXCEPT ![c] = FALSE]
    /\ UNCHANGED <<writable, shared, at, page, peer, flush_va>>

TlNext ==
    \E c \in TlCpu :
        \/ \E v \in TlVa : Access(c, v) \/ CowBreak(c, v)
        \/ jlos_hal_paging_switch(c) \/ EnterKernel(c) \/ LeaveKernel(c)
        \/ jlos_paging_cow_range(c) \/ PostShootdown(c) \/ AwaitShootdown(c)
        \/ jlos_irq_manager_do_handle(c)

\* A CPU in a loop keeps running it, a system call returns, and a pending
\* interrupt is taken once interrupts are on.
TlContinue(c) == LeaveKernel(c) \/ PostShootdown(c) \/ AwaitShootdown(c)
TlFairness ==
    \A c \in TlCpu : WF_tlVars(TlContinue(c)) /\ SF_tlVars(jlos_irq_manager_do_handle(c))

TlSpec == TlInit /\ [][TlNext]_tlVars /\ TlFairness
---------------------------------------------------------------------------
\* When fork returns no CPU can still write a page the child shares: every
\* cached write permission is gone before the child runs.
CowShotDown == \A c \in TlCpu, v \in shared : ~writable[v] => tlb[c][v] # "rw"

\* The mailbox of a CPU has one slot: two shootdowns at a time would overwrite
\* each other's pages.
OneInitiator ==
    \A c, d \in TlCpu : at[c] \in {"post", "wait"} /\ at[d] \in {"post", "wait"} => c = d

\* After a fork no CPU holds a write permission that the tables no longer
\* grant for a page that is shared.
ShotDown == TlTypeOK /\ CowShotDown

\* An initiator's spin ends: each shootdown is acknowledged by every CPU.
ShootdownEnds ==
    \A c \in TlCpu : []<>(at[c] \notin {"post", "wait"})
=============================================================================
