----------------------------- MODULE PageTable -----------------------------
(***************************************************************************)
(* The page-table trees of the kernel and of its processes, for the three  *)
(* architectures: x86_64 and arm64 (four levels) and x86 (two levels).     *)
(* Each operation runs under the lock of its paging context and is one     *)
(* step.  A table and a page both occupy one page frame; the frame         *)
(* allocator is reduced to its reference counts, and may run out.          *)
(*                                                                         *)
(* arch/x86/paging.c, arch/arm64/paging.c, kernel/paging.c                 *)
(***************************************************************************)
EXTENDS Integers, Sequences, FiniteSets, SequencesExt, FiniteSetsExt

CONSTANTS
    PtArch,         \* the architectures considered
    PtProc,         \* paging contexts of processes
    PtFrames,       \* number of page frames
    PtEntries,      \* entries of a last-level table
    PtUserPages,    \* USER_SPACE_LIMIT, in pages
    PtTouched,      \* the pages below it that processes use
    PtKernPages,    \* pages of the kernel half, above them
    PtRefMax,       \* JLOS_PAGE_FRAME_REFCOUNT_MAX
    PtCountMod      \* pt_present_count is a counter modulo PtCountMod

Kernel == "kernel"
Ctx == PtProc \cup {Kernel}
PFrame == 1 .. PtFrames
UserVa == PtTouched
KernVa == PtUserPages .. PtUserPages + PtKernPages - 1
Slot == 0 .. (PtUserPages + PtKernPages) \div PtEntries

VARIABLES
    arch,   \* the architecture, fixed at boot
    mem,    \* frames and tables, see MemOK
    heap,   \* first page of the kernel half the heap has not reached
    oom     \* some allocation has failed

ptVars == <<arch, mem, heap, oom>>

Entry == [f : PFrame \cup {0}, w : BOOLEAN, ps : BOOLEAN]
NotPresent == [f |-> 0, w |-> FALSE, ps |-> FALSE]
EmptyTable == [s \in Slot |-> NotPresent]

PtTypeOK ==
    /\ arch \in PtArch
    /\ mem \in [ref : [PFrame -> Nat], ent : [PFrame -> [Slot -> Entry]],
                cnt : [PFrame -> 0 .. PtCountMod - 1],
                root : [Ctx -> PFrame \cup {0}], halt : BOOLEAN]
    /\ heap \in KernVa
    /\ oom \in BOOLEAN

---------------------------------------------------------------------------
(* Page frames, as the paging code sees them.                              *)

FreeFrames(m) == {f \in PFrame : m.ref[f] = 0}

\* A frame with one reference.  (Tables are zeroed when they are made; here
\* a frame is cleared when it is freed, so that free frames are alike.)
TakeFrame(m, f) == [m EXCEPT !.ref[f] = 1]

jlos_page_frame_refcount_dec(m, f) ==
    IF m.ref[f] = 0 THEN [m EXCEPT !.halt = TRUE]
    ELSE IF m.ref[f] = 1 THEN [m EXCEPT !.ref[f] = 0, !.cnt[f] = 0, !.ent[f] = EmptyTable]
    ELSE [m EXCEPT !.ref[f] = @ - 1]

jlos_page_frame_refcount_inc(m, f) ==
    IF m.ref[f] \in 1 .. PtRefMax - 1 THEN [m EXCEPT !.ref[f] = @ + 1]
    ELSE [m EXCEPT !.halt = TRUE]

pt_present_count_inc(m, f) == [m EXCEPT !.cnt[f] = (@ + 1) % PtCountMod]
pt_present_count_dec(m, f) == [m EXCEPT !.cnt[f] = IF @ > 0 THEN @ - 1 ELSE 0]

---------------------------------------------------------------------------
(* Walking the tree.                                                       *)

\* The levels between the root and the last-level tables are one here: on
\* x86_64 and arm64 the root has an entry for va's half and names an upper
\* table with an entry for every last-level table; on x86 the root is it.
TopIndex(va) == IF arch = "x86_64" /\ va \in KernVa THEN 1 ELSE 0
DirIndex(va) == va \div PtEntries
PtIndex(va) == va % PtEntries

\* arm64 walks the kernel half from a root of its own.
table_root(m, c, va) ==
    IF arch = "arm64" /\ va \in KernVa THEN m.root[Kernel] ELSE m.root[c]

\* The table that holds the entry naming va's last-level table.
ParentOf(m, c, va) ==
    LET r == table_root(m, c, va)
    IN  IF arch = "x86" \/ r = 0 THEN r ELSE m.ent[r][TopIndex(va)].f

DirEntry(m, c, va) ==
    LET p == ParentOf(m, c, va) IN IF p = 0 THEN NotPresent ELSE m.ent[p][DirIndex(va)]

\* The last-level table of va, 0 when there is none.
pte_walk(m, c, va) ==
    LET d == DirEntry(m, c, va) IN IF d.ps THEN 0 ELSE d.f

Pte(m, c, va) ==
    LET pt == pte_walk(m, c, va)
    IN  IF pt = 0 THEN NotPresent ELSE m.ent[pt][PtIndex(va)]

SetPte(m, c, va, e) == [m EXCEPT !.ent[pte_walk(m, c, va)][PtIndex(va)] = e]

\* The large page of va or its entry changes between writable and read-only.
jlos_arch_change_flags_entry(m, c, va, w) ==
    IF DirEntry(m, c, va).ps THEN [m EXCEPT !.ent[ParentOf(m, c, va)][DirIndex(va)].w = w]
    ELSE IF Pte(m, c, va).f = 0 THEN m
    ELSE SetPte(m, c, va, [Pte(m, c, va) EXCEPT !.w = w])

\* What va translates to; a large page stands for a whole last-level table.
jlos_arch_get_phys_entry(m, c, va) ==
    LET d == DirEntry(m, c, va) IN IF d.ps THEN d.f + PtIndex(va) ELSE Pte(m, c, va).f

\* arm64 reads the last level first, and looks for a block when it is empty.
get_phys_entry_arm64(m, c, va) ==
    LET e == Pte(m, c, va)
        d == DirEntry(m, c, va)
    IN  IF e.f # 0 THEN e.f ELSE IF d.ps THEN d.f + PtIndex(va) ELSE 0

Translate(m, c, va) ==
    IF arch = "arm64" THEN get_phys_entry_arm64(m, c, va)
                      ELSE jlos_arch_get_phys_entry(m, c, va)

---------------------------------------------------------------------------
(* Mapping one page.  The operators return [m, ok].                        *)

Fail(m) == [m |-> m, ok |-> FALSE]
Done(m) == [m |-> m, ok |-> TRUE]

\* A table for slot i of table t, made when it is missing: r is [m, t].
paging_level_ensure(r, i) ==
    IF r.t = 0 THEN r
    ELSE IF r.m.ent[r.t][i].f # 0 THEN [r EXCEPT !.t = r.m.ent[r.t][i].f]
    ELSE IF FreeFrames(r.m) = {} THEN [r EXCEPT !.t = 0]
    ELSE LET n == Min(FreeFrames(r.m))
         IN  [t |-> n, m |-> [TakeFrame(r.m, n) EXCEPT
                              !.ent[r.t][i] = [f |-> n, w |-> TRUE, ps |-> FALSE]]]

root_ensure(m, c) ==
    IF m.root[c] # 0 THEN Done(m)
    ELSE IF FreeFrames(m) = {} THEN Fail(m)
    ELSE LET n == Min(FreeFrames(m)) IN Done([TakeFrame(m, n) EXCEPT !.root[c] = n])

SetEntry(r, va, f, w) ==
    IF r.t = 0 \/ r.m.ent[r.t][PtIndex(va)].f # 0 THEN Fail(r.m)
    ELSE Done(pt_present_count_inc(
                [r.m EXCEPT !.ent[r.t][PtIndex(va)] = [f |-> f, w |-> w, ps |-> FALSE]], r.t))

MapUnder(m, root, va, f, w) ==
    LET r == [m |-> m, t |-> root]
        u == IF arch = "x86" THEN r ELSE paging_level_ensure(r, TopIndex(va))
    IN  SetEntry(paging_level_ensure(u, DirIndex(va)), va, f, w)

\* x86_64 ensures PDPT, PD and PT; the levels made before a failure stay.
jlos_arch_map_entry(m, c, va, f, w) ==
    LET e == root_ensure(m, c)
    IN  IF e.ok THEN MapUnder(e.m, e.m.root[c], va, f, w) ELSE Fail(m)

\* x86: the root is the page directory, there is one level to ensure.
map_entry_x86(m, c, va, f, w) ==
    LET e == root_ensure(m, c)
    IN  IF e.ok THEN MapUnder(e.m, e.m.root[c], va, f, w) ELSE Fail(m)

\* arm64: the kernel half has its own root, and a block is never descended.
map_entry_arm64(m, c, va, f, w) ==
    LET e == IF va \in KernVa THEN Done(m) ELSE root_ensure(m, c)
    IN  IF ~e.ok \/ DirEntry(m, c, va).ps THEN Fail(m)
        ELSE MapUnder(e.m, table_root(e.m, c, va), va, f, w)

MapEntry(m, c, va, f, w) ==
    CASE arch = "x86_64" -> jlos_arch_map_entry(m, c, va, f, w)
      [] arch = "x86"    -> map_entry_x86(m, c, va, f, w)
      [] arch = "arm64"  -> map_entry_arm64(m, c, va, f, w)

---------------------------------------------------------------------------
(* Unmapping one page: the page loses a reference, and a last-level table  *)
(* whose count of present entries is zero is unhooked.  The table's frame  *)
(* is freed in the user half only.                                         *)

ReleaseTable(m, c, va, pt) ==
    IF m.cnt[pt] # 0 THEN m
    ELSE [IF va \in UserVa THEN jlos_page_frame_refcount_dec(m, pt) ELSE m
          EXCEPT !.ent[ParentOf(m, c, va)][DirIndex(va)] = NotPresent]

ClearPte(m, c, va, pt) ==
    LET e == m.ent[pt][PtIndex(va)]
        d == IF e.f = 0 THEN m
             ELSE pt_present_count_dec(jlos_page_frame_refcount_dec(m, e.f), pt)
    IN  ReleaseTable([d EXCEPT !.ent[pt][PtIndex(va)] = NotPresent], c, va, pt)

\* x86_64: succeeds when the table exists, whether or not the entry does.
unmap_locked(m, c, va) ==
    LET pt == pte_walk(m, c, va) IN IF pt = 0 THEN Fail(m) ELSE Done(ClearPte(m, c, va, pt))

unmap_locked_x86(m, c, va) ==
    LET pt == pte_walk(m, c, va) IN IF pt = 0 THEN Fail(m) ELSE Done(ClearPte(m, c, va, pt))

\* arm64: nothing to do unless the entry is valid.
unmap_locked_arm64(m, c, va) ==
    LET pt == pte_walk(m, c, va)
    IN  IF Pte(m, c, va).f = 0 THEN Fail(m) ELSE Done(ClearPte(m, c, va, pt))

UnmapEntry(m, c, va) ==
    CASE arch = "x86_64" -> unmap_locked(m, c, va)
      [] arch = "x86"    -> unmap_locked_x86(m, c, va)
      [] arch = "arm64"  -> unmap_locked_arm64(m, c, va)

---------------------------------------------------------------------------
(* Mapping a range of n pages from va to the frames fs; a failure unmaps   *)
(* what was mapped, which also drops a reference of every such frame.      *)

MapPage(r, c, va, f) ==
    LET s == MapEntry(r.m, c, va, f, TRUE)
    IN  [m |-> s.m, ok |-> s.ok, n |-> IF s.ok THEN r.n + 1 ELSE r.n]

Rollback(m, c, va, n) ==
    FoldLeft(LAMBDA k, i : UnmapEntry(k, c, va + n - i).m, m, [i \in 1 .. n |-> i])

jlos_arch_map_range_entry(m, c, va, fs) ==
    LET r == FoldLeft(LAMBDA a, i : IF a.ok THEN MapPage(a, c, va + i - 1, fs[i]) ELSE a,
                      [m |-> m, ok |-> TRUE, n |-> 0], [i \in 1 .. Len(fs) |-> i])
    IN  IF r.ok THEN Done(r.m) ELSE Fail(Rollback(r.m, c, va, r.n))

\* x86 keeps its own directory index, stepped when a table has been filled.
map_range_entry_x86(m, c, va, fs) ==
    LET Step(a, i) ==
            LET v == va + i - 1
                s == SetEntry(paging_level_ensure([m |-> a.m, t |-> a.m.root[c]], a.pd),
                              v, fs[i], TRUE)
            IN  [m |-> s.m, ok |-> s.ok, n |-> IF s.ok THEN a.n + 1 ELSE a.n,
                 pd |-> IF s.ok /\ (v + 1) % PtEntries = 0 THEN a.pd + 1 ELSE a.pd]
        e == root_ensure(m, c)
        r == FoldLeft(LAMBDA a, i : IF a.ok THEN Step(a, i) ELSE a,
                      [m |-> e.m, ok |-> e.ok, n |-> 0, pd |-> va \div PtEntries],
                      [i \in 1 .. Len(fs) |-> i])
    IN  IF r.ok THEN Done(r.m) ELSE Fail(Rollback(r.m, c, va, r.n))

\* A large page: hooks frames f .. f + PtEntries - 1 in place of a last-level
\* table, unless something is there.
map_large_locked(m, c, va, f) ==
    LET r == paging_level_ensure([m |-> m, t |-> m.root[c]], TopIndex(va))
    IN  IF r.t = 0 \/ r.m.ent[r.t][DirIndex(va)].f # 0 THEN Fail(r.m)
        ELSE Done([r.m EXCEPT !.ent[r.t][DirIndex(va)] = [f |-> f, w |-> TRUE, ps |-> TRUE]])

\* x86 replaces a table that is there.  (It also frees the table, but its
\* one caller runs before there is an allocator to take it back.)
map_4mb_locked(m, c, va, f) ==
    Done([m EXCEPT !.ent[m.root[c]][DirIndex(va)] = [f |-> f, w |-> TRUE, ps |-> TRUE]])

jlos_arm64_map_block_2mb(m, va, f) ==
    LET r == paging_level_ensure([m |-> m, t |-> m.root[Kernel]], TopIndex(va))
    IN  IF r.t = 0 \/ r.m.ent[r.t][DirIndex(va)].f # 0 THEN Fail(r.m)
        ELSE Done([r.m EXCEPT !.ent[r.t][DirIndex(va)] = [f |-> f, w |-> TRUE, ps |-> TRUE]])

\* arm64 begins with blocks where a kernel range and its frames are aligned;
\* a failure further on leaves the blocks in place.
map_range_entry_arm64(m, c, va, fs) ==
    LET b == jlos_arm64_map_block_2mb(m, va, fs[1])
        aligned == va \in KernVa /\ PtIndex(va) = 0 /\ (fs[1] - 1) % PtEntries = 0
                   /\ Len(fs) >= PtEntries
    IN  IF aligned /\ b.ok
        THEN jlos_arch_map_range_entry(b.m, c, va + PtEntries,
                                       SubSeq(fs, PtEntries + 1, Len(fs)))
        ELSE jlos_arch_map_range_entry(IF aligned THEN b.m ELSE m, c, va, fs)

MapRange(m, c, va, fs) ==
    CASE arch = "x86_64" -> jlos_arch_map_range_entry(m, c, va, fs)
      [] arch = "x86"    -> map_range_entry_x86(m, c, va, fs)
      [] arch = "arm64"  -> map_range_entry_arm64(m, c, va, fs)

---------------------------------------------------------------------------
(* The kernel half: the image, then the heap, then the rest of the direct  *)
(* map.  Boot memory is the last two aligned runs of frames.               *)

ImageFrame == PtFrames - 2 * PtEntries + 1
DirectFrame == PtFrames - PtEntries + 1
HeapBase == PtUserPages + PtEntries
HeapEnd == PtUserPages + PtKernPages - PtEntries

NoTables ==
    [ref |-> [f \in PFrame |-> IF f >= ImageFrame THEN 1 ELSE 0],
     ent |-> [f \in PFrame |-> EmptyTable],
     cnt |-> [f \in PFrame |-> 0], root |-> [c \in Ctx |-> 0], halt |-> FALSE]

\* x86_64: the image by pages, whose text becomes read-only, the rest of the
\* direct map by large pages.
jlos_arch_paging_initialize_kernel ==
    LET image == jlos_arch_map_range_entry(NoTables, Kernel, PtUserPages, <<ImageFrame>>).m
        text  == jlos_arch_change_flags_entry(image, Kernel, PtUserPages, FALSE)
    IN  map_large_locked(text, Kernel, HeapEnd, DirectFrame).m

\* x86: huge_start is a number of large pages where an address is meant, so
\* that one page is mapped, and then replaced with the rest.
initialize_kernel_x86 ==
    LET image == map_range_entry_x86(NoTables, Kernel, PtUserPages, <<ImageFrame>>).m
        text  == jlos_arch_change_flags_entry(image, Kernel, PtUserPages, FALSE)
    IN  map_4mb_locked(map_4mb_locked(text, Kernel, PtUserPages, ImageFrame).m,
                       Kernel, HeapEnd, DirectFrame).m

\* arm64: the blocks the boot code has made are kept.
initialize_kernel_arm64 ==
    LET root == root_ensure(NoTables, Kernel).m
    IN  jlos_arm64_map_block_2mb(jlos_arm64_map_block_2mb(root, PtUserPages, ImageFrame).m,
                                 HeapEnd, DirectFrame).m

\* The heap's first page is mapped with two references before any process is.
jlos_memory_manager_init_main(m) ==
    LET f == Min(FreeFrames(m))
    IN  jlos_page_frame_refcount_inc(MapEntry(TakeFrame(m, f), Kernel, HeapBase, f, TRUE).m, f)

---------------------------------------------------------------------------
(* Contexts of processes.                                                  *)

NewRoot(m, c, shared) ==
    LET n == Min(FreeFrames(m))
    IN  [TakeFrame(m, n) EXCEPT !.root[c] = n,
             !.ent[n] = [s \in Slot |-> IF s \in shared THEN m.ent[m.root[Kernel]][s]
                                       ELSE NotPresent]]

\* x86_64: a new root shares the top-level entries of the kernel half.
jlos_arch_paging_context_tables_clone(m, c) == NewRoot(m, c, {1})

\* x86: it shares the directory entries the kernel has by then.
context_tables_clone_x86(m, c) == NewRoot(m, c, {DirIndex(va) : va \in KernVa})

\* arm64: the kernel half is not under the root.
context_tables_clone_arm64(m, c) == NewRoot(m, c, {})

CloneTables(m, c) ==
    CASE arch = "x86_64" -> jlos_arch_paging_context_tables_clone(m, c)
      [] arch = "x86"    -> context_tables_clone_x86(m, c)
      [] arch = "arm64"  -> context_tables_clone_arm64(m, c)

\* The tables under c's root for the user half, the root excluded.
UserTables(m, c) ==
    UNION {{ParentOf(m, c, va), pte_walk(m, c, va)} : va \in UserVa} \ {m.root[c], 0}

UserMappings(m, c, f) == Cardinality({va \in UserVa : Pte(m, c, va).f = f})

\* Every mapped page loses a reference per mapping and every frame of gone
\* its only one.
ReleaseTree(m, c, gone) ==
    LET ref == [f \in PFrame |-> m.ref[f] - UserMappings(m, c, f)
                                 - (IF f \in gone THEN 1 ELSE 0)]
    IN  IF \E f \in PFrame : ref[f] < 0 THEN [m EXCEPT !.halt = TRUE]
        ELSE [m EXCEPT !.ref = ref, !.root[c] = 0,
                       !.cnt = [f \in PFrame |-> IF ref[f] = 0 THEN 0 ELSE @[f]],
                       !.ent = [f \in PFrame |-> IF ref[f] = 0 THEN EmptyTable ELSE @[f]]]

\* x86_64: the user half is below a top-level index; the rest is left alone.
jlos_arch_paging_context_tables_destroy(m, c) ==
    ReleaseTree(m, c, UserTables(m, c) \cup {m.root[c]})

\* x86: entries of the kernel half are skipped one by one.
context_tables_destroy_x86(m, c) ==
    ReleaseTree(m, c, UserTables(m, c) \cup {m.root[c]})

\* arm64: everything under the root belongs to the process.
context_tables_destroy_arm64(m, c) ==
    ReleaseTree(m, c, UserTables(m, c) \cup {m.root[c]})

DestroyTables(m, c) ==
    CASE arch = "x86_64" -> jlos_arch_paging_context_tables_destroy(m, c)
      [] arch = "x86"    -> context_tables_destroy_x86(m, c)
      [] arch = "arm64"  -> context_tables_destroy_arm64(m, c)

---------------------------------------------------------------------------
PtInit ==
    /\ arch \in PtArch
    /\ \E booted \in {CASE arch = "x86_64" -> jlos_arch_paging_initialize_kernel
                       [] arch = "x86"    -> initialize_kernel_x86
                       [] arch = "arm64"  -> initialize_kernel_arm64} :
          mem = jlos_memory_manager_init_main(booted)
    /\ heap = HeapBase + 1
    /\ oom = FALSE

LiveCtx == {c \in Ctx : mem.root[c] # 0}
NoMemory == FreeFrames(mem) = {}

\* A process's address space is made: nothing but the kernel half.
CreateMm(p) ==
    /\ ~mem.halt /\ p \notin LiveCtx
    /\ oom' = (oom \/ NoMemory)
    /\ mem' = IF NoMemory THEN mem ELSE CloneTables(mem, p)
    /\ UNCHANGED <<arch, heap>>

\* A fault on a page that is not present: a zeroed frame is mapped, or given
\* back when the tables cannot be made.
DemandMap(p, va) ==
    /\ ~mem.halt /\ p \in LiveCtx /\ Pte(mem, p, va).f = 0
    /\ LET f == Min(FreeFrames(mem))
           r == MapEntry(TakeFrame(mem, f), p, va, f, TRUE)
       IN  IF NoMemory THEN oom' = TRUE /\ mem' = mem
           ELSE /\ oom' = (oom \/ ~r.ok)
                /\ mem' = IF r.ok THEN r.m ELSE jlos_page_frame_refcount_dec(r.m, f)
    /\ UNCHANGED <<arch, heap>>

jlos_paging_unmap(p, va) ==
    /\ ~mem.halt /\ p \in LiveCtx
    /\ mem' = UnmapEntry(mem, p, va).m
    /\ UNCHANGED <<arch, oom, heap>>

\* Fault: the parent keeps the right to write.
CowPage_ParentWrites(m, src, dst, va) ==
    LET e == Pte(m, src, va)
    IN  IF e.f = 0 \/ m.halt THEN m
        ELSE MapEntry(jlos_page_frame_refcount_inc(m, e.f), dst, va, e.f, FALSE).m

\* One page of fork: the frame gains a reference, the child maps it
\* read-only (the outcome is not looked at), the parent loses the write bit.
CowPage(m, src, dst, va) ==
    LET e == Pte(m, src, va)
        k == MapEntry(jlos_page_frame_refcount_inc(m, e.f), dst, va, e.f, FALSE).m
    IN  IF e.f = 0 \/ m.halt THEN m ELSE SetPte(k, src, va, [e EXCEPT !.w = FALSE])

jlos_paging_cow_range(m, src, dst) ==
    FoldLeft(LAMBDA k, va : CowPage(k, src, dst, va), m, SetToSortSeq(UserVa, <))

Fork(p, q) ==
    /\ ~mem.halt /\ p \in LiveCtx /\ q \notin LiveCtx
    /\ LET m == jlos_paging_cow_range(CloneTables(mem, q), p, q)
       IN  IF NoMemory THEN oom' = TRUE /\ mem' = mem
           ELSE /\ mem' = m
                /\ oom' = (oom \/ \E va \in UserVa : Pte(m, p, va).f # Pte(m, q, va).f)
    /\ UNCHANGED <<arch, heap>>

\* A write fault on a present page: the last sharer takes the page, another
\* one takes a copy.  When no frame is left the process is killed.
jlos_paging_page_fault_handler(p, va) ==
    LET e == Pte(mem, p, va)
        f == Min(FreeFrames(mem))
    IN  /\ ~mem.halt /\ p \in LiveCtx /\ e.f # 0 /\ ~e.w
        /\ oom' = (oom \/ (mem.ref[e.f] > 1 /\ NoMemory))
        /\ mem' = IF mem.ref[e.f] <= 1 THEN jlos_arch_change_flags_entry(mem, p, va, TRUE)
                  ELSE IF NoMemory THEN DestroyTables(mem, p)
                  ELSE jlos_page_frame_refcount_dec(
                           SetPte(TakeFrame(mem, f), p, va, [f |-> f, w |-> TRUE, ps |-> FALSE]), e.f)
        /\ UNCHANGED <<arch, heap>>

Exit(p) ==
    /\ ~mem.halt /\ p \in LiveCtx
    /\ mem' = DestroyTables(mem, p)
    /\ UNCHANGED <<arch, oom, heap>>

\* The aligned runs of n free frames.
AlignedRuns(m, n) == {f \in FreeFrames(m) : (f - 1) % n = 0 /\ f .. f + n - 1 \subseteq FreeFrames(m)}

\* The heap grows by n pages through whatever context is active, and their
\* frames gain a second reference; when the range cannot be mapped they are
\* given back one by one, the ones the rollback has freed included.
expand_heap(c, n) ==
    /\ ~mem.halt /\ c \in LiveCtx /\ heap + n <= HeapEnd
    /\ LET f  == Min(AlignedRuns(mem, n))
           fs == [i \in 1 .. n |-> f + i - 1]
           r  == MapRange(FoldLeft(TakeFrame, mem, fs), c, heap, fs)
       IN  IF AlignedRuns(mem, n) = {} THEN oom' = TRUE /\ UNCHANGED <<mem, heap>>
           ELSE /\ oom' = (oom \/ ~r.ok)
                /\ heap' = IF r.ok THEN heap + n ELSE heap
                /\ mem' = IF r.ok THEN FoldLeft(jlos_page_frame_refcount_inc, r.m, fs)
                          ELSE FoldLeft(jlos_page_frame_refcount_dec, r.m, fs)
    /\ UNCHANGED arch

\* The allocator halts the machine on a reference count that underflows.
Halted == mem.halt /\ UNCHANGED ptVars

PtNext ==
    \/ \E p \in PtProc : CreateMm(p) \/ Exit(p)
    \/ \E p \in PtProc, va \in UserVa :
          DemandMap(p, va) \/ jlos_paging_unmap(p, va) \/ jlos_paging_page_fault_handler(p, va)
    \/ \E p, q \in PtProc : Fork(p, q)
    \/ \E c \in Ctx, n \in {1, 2} : expand_heap(c, n)
    \/ Halted

PtSpec == PtInit /\ [][PtNext]_ptVars
---------------------------------------------------------------------------
(* Properties.                                                             *)

Tables == UNION {UserTables(mem, c) : c \in LiveCtx \ {Kernel}}

\* How many times frame f is in use by a process: as a root, as a table of
\* the user half, or behind an entry of one.
Uses(f) ==
    Cardinality({c \in PtProc : mem.root[c] = f})
    + Cardinality({<<c, va>> \in (LiveCtx \cap PtProc) \X UserVa : Pte(mem, c, va).f = f})
    + (IF f \in Tables THEN 1 ELSE 0)

\* No frame is free, or counted for fewer references than it has, while an
\* address space still reaches it; and a table belongs to one process.
NoDanglingFrame ==
    ~mem.halt => /\ \A f \in PFrame : mem.ref[f] >= Uses(f)
                 /\ \A c, d \in LiveCtx \ {Kernel} :
                       c # d => UserTables(mem, c) \cap UserTables(mem, d) = {}

\* What the kernel holds: the image and the direct map's memory, the first
\* two pages of the boot allocator (on x86 one is the replaced table), the
\* tables of the kernel half and what they map.
KernelFrames ==
    {1, 2} \cup ImageFrame .. PtFrames \cup
    UNION {{ParentOf(mem, Kernel, va), pte_walk(mem, Kernel, va),
            Translate(mem, Kernel, va)} : va \in KernVa}

\* As long as no allocation has failed, every frame outside the kernel half
\* has exactly the references the processes' page tables hold: unmapping,
\* copy-on-write and exit leave nothing behind.  (x86: until the heap leaves its first table,
\* since the tables of that growth hang under one process's root.)
FramesAccounted ==
    (~oom /\ ~mem.halt /\ (arch = "x86" => heap <= HeapBase + PtEntries)) =>
        \A f \in PFrame \ KernelFrames : mem.ref[f] = Uses(f)

\* pt_present_count of a last-level table is the number of its present
\* entries: the table is freed when, and only when, it is empty.
PresentCountExact ==
    \A c \in PtProc \cap LiveCtx, va \in UserVa :
        LET pt == pte_walk(mem, c, va)
        IN  pt # 0 => mem.cnt[pt] = Cardinality({s \in Slot : mem.ent[pt][s].f # 0})

\* A page a process may write is mapped nowhere else: copy-on-write never
\* lets a write of one process reach another.
WritableNotShared ==
    \A c \in PtProc \cap LiveCtx, va \in UserVa :
        (Pte(mem, c, va).w /\ ~mem.halt) => mem.ref[Pte(mem, c, va).f] = 1

\* On the four-level architectures every context translates the kernel half
\* alike, the heap mapped after the context was made included.
KernelHalfShared ==
    arch # "x86" => \A c \in LiveCtx, va \in KernVa :
        Translate(mem, c, va) = Translate(mem, Kernel, va)

\* Two states that differ only in which used frame serves what have the same view.
PtView ==
    LET pages == PtProc \X UserVa
        pte(x) == Pte(mem, x[1], x[2])
        shape(c, va) == LET pt == pte_walk(mem, c, va)
                        IN  <<ParentOf(mem, c, va) # 0, pt # 0, IF pt = 0 THEN 0 ELSE mem.cnt[pt],
                              Translate(mem, c, va) # 0>>
    IN  <<arch, heap, oom, mem.halt, FreeFrames(mem), [c \in Ctx |-> mem.root[c] # 0],
          [x \in Ctx \X (UserVa \cup KernVa) |-> shape(x[1], x[2])],
          [x \in pages |-> IF pte(x).f = 0 THEN <<>>
             ELSE <<{y \in pages : pte(y).f = pte(x).f}, pte(x).w, mem.ref[pte(x).f]>>]>>
=============================================================================
