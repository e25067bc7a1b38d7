------------------------------ MODULE MCMemory ------------------------------
(***************************************************************************)
(* Page tables, frames, the slab and heap allocators and the areas of a    *)
(* process, in one run: the behaviours of each component are explored on   *)
(* their own, with the others at rest.                                     *)
(***************************************************************************)
EXTENDS Vma

CONSTANTS
    PtArch, PtProc, PtFrames, PtEntries, PtUserPages, PtTouched, PtKernPages,
    PtRefMax, PtCountMod, PfCpu, PfTotal, PfMaxOrder, PfBatch, PfHigh,
    PfMaxRef, PfMaxFree, PfReserved, PfSizes, SlThread, SlCpu, SlPage,
    SlObjCount, SlMinPartial, HpThread, HpHeader, HpPageSize, HpInitial,
    HpMaxPages, HpSizes

VARIABLES
    part, \* the component whose behaviours are explored, fixed
    arch, mem, heap, oom, buddy, refcount, percpu, release, blocks, sp,
    cpuPartial, cache, live, at, chunks, class_head, heap_current, grown,
    call, held

Pt == INSTANCE PageTable
Pf == INSTANCE PageFrame
Slab == INSTANCE Slab
Heap == INSTANCE Heap

tablesVars == <<arch, mem, heap, oom>>
framesVars == <<buddy, refcount, percpu, release, blocks>>
slabVars == <<sp, cpuPartial, cache, live, at>>
heapVars == <<chunks, class_head, heap_current, grown, call, held>>
allVars == <<
    part, tablesVars, framesVars, slabVars, heapVars, vmVars>>

AtRest == "at rest"

\* The components that are not explored are at rest.
MCInit ==
    /\ part \in {"tables", "frames", "slab", "heap", "vma"}
    /\ IF part = "tables" THEN Pt!PtInit
       ELSE /\ arch = AtRest /\ mem = AtRest /\ heap = AtRest
            /\ oom = AtRest
    /\ IF part = "frames" THEN Pf!PfInit
       ELSE /\ buddy = AtRest /\ refcount = AtRest /\ percpu = AtRest
            /\ release = AtRest /\ blocks = AtRest
    /\ IF part = "slab" THEN Slab!SlInit
       ELSE /\ sp = AtRest /\ cpuPartial = AtRest /\ cache = AtRest
            /\ live = AtRest /\ at = AtRest
    /\ IF part = "heap" THEN Heap!HpInit
       ELSE /\ chunks = AtRest /\ class_head = AtRest /\ heap_current = AtRest
            /\ grown = AtRest /\ call = AtRest /\ held = AtRest
    /\ VmInit

\* A step of one component.
tablesStep ==
    part = "tables" /\ UNCHANGED <<part, framesVars, slabVars, heapVars, vmVars>>
framesStep ==
    part = "frames" /\ UNCHANGED <<part, tablesVars, slabVars, heapVars, vmVars>>
slabStep ==
    part = "slab" /\ UNCHANGED <<part, tablesVars, framesVars, heapVars, vmVars>>
heapStep ==
    part = "heap" /\ UNCHANGED <<part, tablesVars, framesVars, slabVars, vmVars>>
vmaStep ==
    part = "vma" /\ UNCHANGED <<part, tablesVars, framesVars, slabVars, heapVars>>

MCNext ==
    \/ tablesStep /\ Pt!PtNext
    \/ framesStep /\ Pf!PfNext
    \/ slabStep /\ Slab!SlNext
    \/ heapStep /\ Heap!HpNext
    \/ vmaStep /\ VmNext

MCSpec == MCInit /\ [][MCNext]_allVars

\* PageTable says which of its states differ only in the names of frames.
MCView ==
    CASE part = "tables" -> <<part, Pt!PtView, mem = mem>>
      [] part = "frames" -> <<part, framesVars>>
      [] part = "slab" -> <<part, slabVars>>
      [] part = "heap" -> <<part, heapVars>>
      [] part = "vma" -> <<part, vmVars>>

-----------------------------------------------------------------------------
\* The page tables, the frame counts and the counts of present entries agree
\* on three architectures: no entry or table refers to a free frame, no frame
\* leaks, a frame that is shared is not writable, and all processes share the
\* kernel half.
TablesSound ==
    part = "tables" =>
        /\ Pt!PtTypeOK /\ Pt!NoDanglingFrame
        /\ Pt!FramesAccounted /\ Pt!PresentCountExact
        /\ Pt!WritableNotShared /\ Pt!KernelHalfShared

-----------------------------------------------------------------------------
\* A page frame is in one place: free in the buddy lists, in a CPU cache, or
\* in use with its count; free buddies are merged, the free counter never
\* understates, and the allocator meets no state it halts on.
FramesSound ==
    part = "frames" =>
        /\ Pf!PfTypeOK /\ Pf!FrameInOnePlace
        /\ Pf!NoPfaHalt /\ Pf!BuddiesMerged
        /\ Pf!FreeNotUnderstated

-----------------------------------------------------------------------------
\* A slab page is on the list its use calls for, its objects are free or
\* handed out and never both, no freed page is used, and a cache keeps few
\* empty pages.
SlabSound ==
    part = "slab" =>
        /\ Slab!SlTypeOK /\ Slab!SlabPageListed
        /\ Slab!SlabObjectsAccounted /\ Slab!NoStalePage
        /\ Slab!SlabEmptyBounded

-----------------------------------------------------------------------------
\* The chunks tile the heap, free neighbours are merged, and the classes list
\* exactly the free chunks.
HeapSound ==
    part = "heap" =>
        /\ Heap!HeapTiled /\ Heap!HeapMerged
        /\ Heap!HeapClassExact
=============================================================================
