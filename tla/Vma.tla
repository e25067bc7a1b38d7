-------------------------------- MODULE Vma --------------------------------
(***************************************************************************)
(* The virtual memory areas (VMAs) of one process and the system calls     *)
(* that change them: brk, mmap, munmap and the fault that maps a page on   *)
(* demand.  Addresses are page numbers.  The red-black tree of areas is a  *)
(* set ordered by start; the page table is the set of present pages.  Any  *)
(* allocation of an area or a frame may fail.                              *)
(*                                                                         *)
(* kernel/vma.c, kernel/syscall.c (brk, mmap, munmap)                      *)
(***************************************************************************)
EXTENDS Integers, FiniteSets

CONSTANTS
    VmBrkStart, VmBrkLimit,     \* JLOS_TASK_USER_BRK_START, _LIMIT
    VmBase, VmLimit,            \* JLOS_TASK_USER_MMAP_BASE, _LIMIT
    VmLens,                     \* lengths asked for, in pages
    VmMaxAreas                  \* areas of the process, at most

\* The brk range lies below the range of mmap; nobody asks for no pages.
ASSUME VmAssumption ==
    /\ VmBrkStart \in Nat /\ VmBrkLimit \in Nat /\ VmBase \in Nat /\ VmLimit \in Nat
    /\ 0 < VmBrkStart /\ VmBrkStart < VmBrkLimit /\ VmBrkLimit <= VmBase /\ VmBase < VmLimit
    /\ VmLens \subseteq Nat \ {0}

Addr == VmBrkStart .. VmLimit - 1
Area == [s : Addr, e : Addr \cup {VmLimit}, t : {"brk", "anon"}]

VARIABLES
    areas,      \* mm->vma_tree
    brk_end,    \* mm->brk_end
    present,    \* pages with a present entry
    vmoom,      \* an allocation has failed
    clobbered   \* mmap(FIXED) or munmap has touched the brk range

vmVars == <<areas, brk_end, present, vmoom, clobbered>>

VmTypeOK ==
    /\ areas \subseteq Area
    /\ brk_end \in VmBrkStart .. VmBrkLimit
    /\ present \subseteq Addr
    /\ vmoom \in BOOLEAN /\ clobbered \in BOOLEAN

VmInit ==
    /\ areas = {} /\ brk_end = VmBrkStart /\ present = {}
    /\ vmoom = FALSE /\ clobbered = FALSE

Covers(v, a) == v.s <= a /\ a < v.e
Pages(s, e) == s .. e - 1
Upper(a, b) == IF a >= b THEN a ELSE b
Lower(a, b) == IF a <= b THEN a ELSE b

\* The part of area v from s to e.
Piece(v, s, e) == [s |-> s, e |-> e, t |-> v.t]

---------------------------------------------------------------------------
(* The tree and its searches.                                              *)

\* jlos_rbtree_find_key_le: the areas with the greatest start up to a.
FindLe(a) ==
    {v \in areas : v.s <= a /\ \A u \in areas : u.s <= a => u.s <= v.s}

\* The area that holds a: only the nearest one below is looked at.
jlos_vma_find(a) == {v \in FindLe(a) : a < v.e}

\* The hint is taken when no area begins before its end.
HintFits(h, len) ==
    /\ h >= VmBase /\ h < VmLimit /\ len <= VmLimit - h
    /\ jlos_vma_find(h) = {}
    /\ \A v \in areas : v.s > h => v.s >= h + len

\* Where the walk is after the areas B: at the end of the last one or, before
\* the first, at the base or the end of the area that holds it.
Cursor(B) ==
    LET low == {v \in FindLe(VmBase) : v.e > VmBase}
    IN  IF B # {} THEN (CHOOSE u \in B : \A v \in B : v.s <= u.s).e
        ELSE IF low # {} THEN (CHOOSE u \in low : \A v \in low : v.e <= u.e).e
        ELSE VmBase

\* First fit from the base: the walk stops at the first gap of len pages.
FirstGap(len) ==
    LET above == {v \in areas : v.s > VmBase}
        before(v) == {u \in above : u.s < v.s}
        stops == {v \in above : v.s - Cursor(before(v)) >= len}
    IN  IF stops = {} THEN Cursor(above)
        ELSE Cursor(before(CHOOSE v \in stops : \A u \in stops : v.s <= u.s))

\* 0 stands for failure.
jlos_vma_find_free_area(h, len) ==
    IF HintFits(h, len) THEN h
    ELSE LET c == FirstGap(len)
         IN  IF c < VmBase \/ c >= VmLimit \/ len > VmLimit - c THEN 0 ELSE c

---------------------------------------------------------------------------
(* Changing the tree.  ok says whether the area structures are obtained.   *)

jlos_vma_add(A, s, e, t, ok) == IF ok THEN A \cup {[s |-> s, e |-> e, t |-> t]} ELSE A

\* What is left of v without [s, e).  A hole in the middle takes a second
\* area for the tail; without one v stays as it is.
Cut(v, s, e, ok) ==
    IF v.e <= s \/ v.s >= e THEN {v}
    ELSE IF s <= v.s /\ e >= v.e THEN {}
    ELSE IF s <= v.s THEN {Piece(v, e, v.e)}
    ELSE IF e >= v.e THEN {Piece(v, v.s, s)}
    ELSE IF ok THEN {Piece(v, v.s, s), Piece(v, e, v.e)}
    ELSE {v}

jlos_vma_remove_range(A, s, e, ok) == UNION {Cut(v, s, e, ok) : v \in A}

Overlap(A, s, e) == UNION {Pages(Upper(v.s, s), Lower(v.e, e)) : v \in A}

\* brk grows: the area that starts at brk_start is extended, or one is added.
jlos_vma_grow_tail(A, new, ok) ==
    LET b == {v \in A : v.s = VmBrkStart /\ v.t = "brk"}
    IN  IF b = {} THEN jlos_vma_add(A, VmBrkStart, new, "brk", ok)
        ELSE (A \ b) \cup {Piece(v, v.s, new) : v \in b}

\* brk shrinks: the first area of the brk type is cut back or removed.
jlos_vma_shrink_tail(A, new) ==
    LET b == {v \in A : v.t = "brk" /\ \A u \in A : u.t = "brk" => v.s <= u.s}
    IN  UNION {IF v \notin b THEN {v}
               ELSE IF new <= v.s THEN {}
               ELSE {Piece(v, v.s, Lower(v.e, new))} : v \in A}

\* Fault: the pages of an area that shrinks keep their frames.
Dropped_None(A, new) == {}

\* The pages that brk gives back.
Dropped(A, new) ==
    LET b == {v \in A : v.t = "brk" /\ \A u \in A : u.t = "brk" => v.s <= u.s}
    IN  UNION {Pages(Upper(v.s, new), v.e) : v \in b}

---------------------------------------------------------------------------
(* System calls and faults.                                                *)

syscall_task_brk(new, ok) ==
    /\ new \in VmBrkStart .. VmBrkLimit /\ new # brk_end
    /\ areas' = IF new > brk_end THEN jlos_vma_grow_tail(areas, new, ok)
                                 ELSE jlos_vma_shrink_tail(areas, new)
    /\ present' = IF new > brk_end THEN present ELSE present \ Dropped(areas, new)
    /\ brk_end' = new
    /\ vmoom' = (vmoom \/ ~ok)
    /\ UNCHANGED clobbered

InBrk(s, e) == s < VmBrkLimit /\ e > VmBrkStart

syscall_mmap(h, len, ok) ==
    LET a == jlos_vma_find_free_area(h, len)
    IN  /\ a # 0 /\ Cardinality(areas) < VmMaxAreas
        /\ areas' = jlos_vma_add(areas, a, a + len, "anon", ok)
        /\ vmoom' = (vmoom \/ ~ok)
        /\ UNCHANGED <<brk_end, present, clobbered>>

\* With FIXED the range is cleared first, even if the area cannot be made.
syscall_mmap_fixed(a, len, ok, ok2) ==
    /\ a + len <= VmLimit /\ Cardinality(areas) < VmMaxAreas
    /\ areas' = jlos_vma_add(jlos_vma_remove_range(areas, a, a + len, ok), a, a + len, "anon", ok2)
    /\ present' = present \ Overlap(areas, a, a + len)
    /\ vmoom' = (vmoom \/ ~ok \/ ~ok2)
    /\ clobbered' = (clobbered \/ InBrk(a, a + len))
    /\ UNCHANGED brk_end

syscall_munmap(a, len, ok) ==
    /\ a + len <= VmLimit /\ Cardinality(areas) < VmMaxAreas
    /\ areas' = jlos_vma_remove_range(areas, a, a + len, ok)
    /\ present' = present \ Overlap(areas, a, a + len)
    /\ vmoom' = (vmoom \/ ~ok)
    /\ clobbered' = (clobbered \/ InBrk(a, a + len))
    /\ UNCHANGED brk_end

\* A fault on a page that is not present; without an area or a frame the
\* process gets SIGSEGV and nothing changes.
jlos_vma_demand_map(a) ==
    /\ a \notin present /\ jlos_vma_find(a) # {}
    /\ present' = present \cup {a}
    /\ UNCHANGED <<areas, brk_end, vmoom, clobbered>>

\* The process exits: areas and tables are destroyed.
jlos_mm_destroy ==
    /\ areas' = {} /\ present' = {} /\ brk_end' = VmBrkStart
    /\ vmoom' = FALSE /\ clobbered' = FALSE

VmNext ==
    \/ \E new \in Addr, ok \in BOOLEAN : syscall_task_brk(new, ok)
    \/ \E h \in Addr, len \in VmLens, ok \in BOOLEAN : syscall_mmap(h, len, ok)
    \/ \E a \in Addr, len \in VmLens, ok, ok2 \in BOOLEAN : syscall_mmap_fixed(a, len, ok, ok2)
    \/ \E a \in Addr, len \in VmLens, ok \in BOOLEAN : syscall_munmap(a, len, ok)
    \/ \E a \in Addr : jlos_vma_demand_map(a)
    \/ jlos_mm_destroy

VmSpec == VmInit /\ [][VmNext]_vmVars
---------------------------------------------------------------------------
(* Properties.                                                             *)

\* A present page always lies in an area: whatever munmap, mmap(FIXED) and
\* brk cut away has been unmapped, also when splitting an area fails.
PresentInArea == \A a \in present : \E v \in areas : Covers(v, a)

\* Areas are not empty and no two overlap, as long as neither mmap(FIXED) nor
\* munmap has touched the brk range and no allocation has failed (without the
\* area for a tail, mmap(FIXED) adds its area on top of the uncut one).
AreasDisjoint ==
    /\ \A v \in areas : v.s < v.e
    /\ (~clobbered /\ ~vmoom) => \A u, v \in areas : u # v => u.e <= v.s \/ v.e <= u.s

\* While no allocation has failed and the brk range is left to brk, exactly
\* the pages below brk_end can be faulted in there.
BrkBacked ==
    (~vmoom /\ ~clobbered) =>
        \A a \in Pages(VmBrkStart, VmBrkLimit) :
            (jlos_vma_find(a) # {}) <=> (a < brk_end)

\* What is mapped lies in an area, areas are apart, and brk owns its range.
VmSound == VmTypeOK /\ PresentInArea /\ AreasDisjoint /\ BrkBacked
=============================================================================
