--------------------------- MODULE ServiceProofs ----------------------------
(***************************************************************************)
(* Three services of the kernel.  The areas of a process stay apart and    *)
(* hold every present page, for any layout of the address space and any    *)
(* lengths; high-resolution timers keep time, for any period and latency;  *)
(* and a page that became copy-on-write is writable in no TLB when its     *)
(* shootdown is over, for any number of CPUs and pages.                    *)
(***************************************************************************)
EXTENDS Vma, HrTimer, Tlb, WellFoundedInduction, TLAPS

\* A leaf is proved by Zenon unless it names SMT.
USE ZenonT(30)

\* A set of numbers has a least one.
LEMMA LeastNumber ==
    ASSUME NEW T, T \subseteq Nat, T # {}
    PROVE  \E x \in T : \A y \in T : x <= y
<1>1. \E x \in T : \A y \in T : ~(<<y, x>> \in OpToRel(<, Nat))
    BY WFMin, NatLessThanWellFounded
<1>2. PICK x \in T : \A y \in T : ~(<<y, x>> \in OpToRel(<, Nat))
    BY <1>1
<1>3. \A y \in T : ~(y < x)
    BY <1>2 DEF OpToRel
<1>4. QED
    BY <1>3, SMTT(30)

-----------------------------------------------------------------------------
(* The areas of a process.                                                 *)

Sized(A) == A \subseteq Area /\ \A v \in A : v.s < v.e
Apart(A) == \A u, v \in A : u # v => u.e <= v.s \/ v.e <= u.s
Holds(A, P) == \A a \in P : \E v \in A : Covers(v, a)

\* The brk area that begins where brk begins never reaches past brk_end: this
\* is what lets brk move the end of that area without losing a present page.
Headed(A, end) == \A v \in A : v.t = "brk" /\ v.s = VmBrkStart => v.e <= end

\* Until somebody else touches the brk range it holds one area, which ends at
\* brk_end, or none when brk_end is where it began.
Owned(A, end) ==
    /\ \A v \in A : v.t = "brk" => v.s = VmBrkStart /\ v.e = end
    /\ \A v \in A : v.t = "anon" => v.s >= VmBrkLimit
    /\ end > VmBrkStart => \E v \in A : v.t = "brk"

Intact == ~clobbered /\ ~vmoom

VmIInv ==
    /\ VmTypeOK /\ Sized(areas) /\ Holds(areas, present) /\ Headed(areas, brk_end)
    /\ Intact => Apart(areas) /\ Owned(areas, brk_end)

-----------------------------------------------------------------------------
(* Areas, and the extreme ones of a set of areas.                          *)

LEMMA AreaFacts ==
    ASSUME NEW v \in Area
    PROVE  /\ v.s \in Nat /\ v.e \in Nat /\ VmBrkStart <= v.s /\ v.s < VmLimit
           /\ VmBrkStart <= v.e /\ v.e <= VmLimit /\ v.t \in {"brk", "anon"}
BY VmAssumption, SMTT(30) DEF Area, Addr

\* Three fields make an area.
LEMMA AreaMade ==
    ASSUME NEW s \in Nat, NEW e \in Nat, VmBrkStart <= s, s < e, e <= VmLimit,
           NEW t \in {"brk", "anon"}
    PROVE  [s |-> s, e |-> e, t |-> t] \in Area
<1>1. s \in Addr /\ e \in Addr \cup {VmLimit}
    BY VmAssumption, SMTT(30) DEF Addr
<1>2. QED
    BY <1>1 DEF Area

LEMMA AreaEqual ==
    ASSUME NEW u \in Area, NEW v \in Area, u.s = v.s, u.e = v.e, u.t = v.t
    PROVE  u = v
BY SMTT(30) DEF Area

LEMMA LowestArea ==
    ASSUME NEW B, B \subseteq Area, B # {}
    PROVE  \E u \in B : \A v \in B : u.s <= v.s
<1> DEFINE T == {v.s : v \in B}
<1>1. T \subseteq Nat /\ T # {}
    BY AreaFacts
<1>2. PICK x \in T : \A y \in T : x <= y
    BY <1>1, LeastNumber
<1>3. QED
    BY <1>2

LEMMA HighestArea ==
    ASSUME NEW B, B \subseteq Area, B # {}
    PROVE  /\ \E u \in B : \A v \in B : v.s <= u.s
           /\ \E u \in B : \A v \in B : v.e <= u.e
<1>1. \A v \in B : v.s \in Nat /\ v.e \in Nat /\ v.s <= VmLimit /\ v.e <= VmLimit /\ VmLimit \in Nat
    BY AreaFacts, VmAssumption, SMTT(30)
<1>2. \E u \in B : \A v \in B : v.s <= u.s
  <2> DEFINE T == {VmLimit - v.s : v \in B}
  <2>1. T \subseteq Nat /\ T # {}
      BY <1>1, SMTT(30)
  <2>2. PICK x \in T : \A y \in T : x <= y
      BY <2>1, LeastNumber
  <2>3. PICK u \in B : x = VmLimit - u.s
      BY <2>2
  <2>4. \A v \in B : VmLimit - u.s <= VmLimit - v.s
      BY <2>2, <2>3
  <2>5. QED
      BY <1>1, <2>4, SMTT(30)
<1>3. \E u \in B : \A v \in B : v.e <= u.e
  <2> DEFINE T == {VmLimit - v.e : v \in B}
  <2>1. T \subseteq Nat /\ T # {}
      BY <1>1, SMTT(30)
  <2>2. PICK x \in T : \A y \in T : x <= y
      BY <2>1, LeastNumber
  <2>3. PICK u \in B : x = VmLimit - u.e
      BY <2>2
  <2>4. \A v \in B : VmLimit - u.e <= VmLimit - v.e
      BY <2>2, <2>3
  <2>5. QED
      BY <1>1, <2>4, SMTT(30)
<1>4. QED
    BY <1>2, <1>3

-----------------------------------------------------------------------------
(* The search for a free range.                                            *)

\* The walk is always at a page number from the base up.
LEMMA CursorType ==
    ASSUME Sized(areas), NEW B, B \subseteq {v \in areas : v.s > VmBase}
    PROVE  Cursor(B) \in Nat /\ Cursor(B) >= VmBase
<1> DEFINE low == {v \in FindLe(VmBase) : v.e > VmBase}
<1>0. B \subseteq Area /\ low \subseteq Area /\ VmBase \in Nat
    BY VmAssumption DEF Sized, FindLe
<1>1. CASE B # {}
  <2> DEFINE m == CHOOSE u \in B : \A v \in B : v.s <= u.s
  <2>1. m \in B
      BY <1>0, <1>1, HighestArea
  <2>2. m.s \in Nat /\ m.e \in Nat /\ m.s > VmBase /\ m.s < m.e
      BY <1>0, <2>1, AreaFacts DEF Sized
  <2>3. Cursor(B) = m.e
      BY <1>1 DEF Cursor
  <2>4. QED
      BY <1>0, <2>2, <2>3, SMTT(30)
<1>2. CASE B = {} /\ low # {}
  <2> DEFINE m == CHOOSE u \in low : \A v \in low : v.e <= u.e
  <2>1. m \in low
      BY <1>0, <1>2, HighestArea
  <2>2. m.e \in Nat /\ m.e > VmBase
      BY <1>0, <2>1, AreaFacts
  <2>3. Cursor(B) = m.e
      BY <1>2 DEF Cursor
  <2>4. QED
      BY <1>0, <2>2, <2>3, SMTT(30)
<1>3. CASE B = {} /\ low = {}
    BY <1>0, <1>3, SMTT(30) DEF Cursor
<1>4. QED
    BY <1>1, <1>2, <1>3

\* While areas are apart, every area that the walk has passed, or that begins
\* at the base or below, ends where the walk is or before.
LEMMA CursorPast ==
    ASSUME Sized(areas), Apart(areas), NEW B, B \subseteq {v \in areas : v.s > VmBase},
           NEW u \in areas, u.s <= VmBase \/ u \in B
    PROVE  u.e <= Cursor(B)
<1> DEFINE low == {v \in FindLe(VmBase) : v.e > VmBase}
<1>0. /\ B \subseteq Area /\ low \subseteq Area /\ FindLe(VmBase) \subseteq Area /\ VmBase \in Nat
      /\ \A v \in areas : v.s \in Nat /\ v.e \in Nat /\ v.s < v.e
    BY VmAssumption, AreaFacts DEF Sized, FindLe
<1>1. CASE B # {}
  <2> DEFINE m == CHOOSE w \in B : \A v \in B : v.s <= w.s
  <2>1. m \in B /\ \A v \in B : v.s <= m.s
      BY <1>0, <1>1, HighestArea
  <2>2. Cursor(B) = m.e
      BY <1>1 DEF Cursor
  <2> HIDE DEF m
  <2>3. m \in areas /\ m.s > VmBase /\ u.s <= m.s
      BY <1>0, <2>1, SMTT(30)
  <2>4. u # m => u.e <= m.s \/ m.e <= u.s
      BY <2>3 DEF Apart
  <2>5. QED
      BY <1>0, <2>2, <2>3, <2>4, SMTT(30)
<1>2. CASE B = {}
  <2>1. u.s <= VmBase
      BY <1>2
  <2> DEFINE C == {v \in areas : v.s <= VmBase}
  <2>2. C \subseteq Area /\ C # {}
      BY <2>1 DEF Sized
  <2>3. PICK w \in C : \A v \in C : v.s <= w.s
      BY <2>2, HighestArea
  <2>4. w \in FindLe(VmBase) /\ w \in areas
      BY <2>3 DEF FindLe
  <2>5. CASE low # {}
    <3> DEFINE m == CHOOSE x \in low : \A v \in low : v.e <= x.e
    <3>1. m \in low
        BY <1>0, <2>5, HighestArea
    <3>2. Cursor(B) = m.e
        BY <1>2, <2>5 DEF Cursor
    <3> HIDE DEF m
    <3>3. m \in areas /\ u.s <= m.s
        BY <2>1, <3>1 DEF FindLe
    <3>4. u # m => u.e <= m.s \/ m.e <= u.s
        BY <3>3 DEF Apart
    <3>5. QED
        BY <1>0, <3>2, <3>3, <3>4, SMTT(30)
  <2>6. CASE low = {}
    <3>1. w.e <= VmBase
        BY <1>0, <2>4, <2>6, SMTT(30)
    <3>2. u.s <= w.s /\ w.s <= VmBase
        BY <2>1, <2>3
    <3>3. u # w => u.e <= w.s \/ w.e <= u.s
        BY <2>4 DEF Apart
    <3>4. Cursor(B) = VmBase
        BY <1>2, <2>6 DEF Cursor
    <3>5. QED
        BY <1>0, <2>4, <3>1, <3>2, <3>3, <3>4, SMTT(30)
  <2>7. QED
      BY <2>5, <2>6
<1>3. QED
    BY <1>1, <1>2

LEMMA GapType ==
    ASSUME Sized(areas), NEW len \in VmLens
    PROVE  FirstGap(len) \in Nat /\ FirstGap(len) >= VmBase
<1> DEFINE above == {v \in areas : v.s > VmBase}
           before(v) == {u \in above : u.s < v.s}
           stops == {v \in above : v.s - Cursor(before(v)) >= len}
           v0 == CHOOSE v \in stops : \A u \in stops : v.s <= u.s
<1>1. above \subseteq {v \in areas : v.s > VmBase} /\ before(v0) \subseteq {v \in areas : v.s > VmBase}
    OBVIOUS
<1>2. FirstGap(len) = IF stops = {} THEN Cursor(above) ELSE Cursor(before(v0))
    BY DEF FirstGap
<1> HIDE DEF above, before, stops, v0
<1>3. QED
    BY <1>1, <1>2, CursorType

\* First fit: the len pages from the gap on are free.
LEMMA GapFree ==
    ASSUME Sized(areas), Apart(areas), NEW len \in VmLens, NEW u \in areas
    PROVE  u.e <= FirstGap(len) \/ FirstGap(len) + len <= u.s
<1> DEFINE above == {v \in areas : v.s > VmBase}
           before(v) == {w \in above : w.s < v.s}
           stops == {v \in above : v.s - Cursor(before(v)) >= len}
           v0 == CHOOSE v \in stops : \A w \in stops : v.s <= w.s
<1>0. /\ VmBase \in Nat /\ len \in Nat
      /\ \A v \in areas : v.s \in Nat /\ v.e \in Nat
    BY VmAssumption, AreaFacts DEF Sized
<1>1. CASE stops = {}
  <2>1. u.s <= VmBase \/ u \in above
      BY <1>0, SMTT(30)
  <2>2. FirstGap(len) = Cursor(above)
      BY <1>1 DEF FirstGap
  <2>3. QED
      BY <2>1, <2>2, CursorPast
<1>2. CASE stops # {}
  <2>1. stops \subseteq Area
      BY DEF Sized
  <2>2. v0 \in stops
      BY <1>2, <2>1, LowestArea
  <2>3. FirstGap(len) = Cursor(before(v0))
      BY <1>2 DEF FirstGap
  <2>4. before(v0) \subseteq {v \in areas : v.s > VmBase}
      OBVIOUS
  <2>5. v0 \in areas /\ v0.s - FirstGap(len) >= len
      BY <2>2, <2>3
  <2>6. FirstGap(len) \in Nat
      BY GapType
  <2>7. CASE u.s <= VmBase \/ u \in before(v0)
      BY <2>3, <2>4, <2>7, CursorPast
  <2>8. CASE ~(u.s <= VmBase \/ u \in before(v0))
    <3>1. u.s >= v0.s
        BY <1>0, <2>5, <2>8, SMTT(30)
    <3>2. QED
        BY <1>0, <2>5, <2>6, <3>1, SMTT(30)
  <2>9. QED
      BY <2>7, <2>8
<1>3. QED
    BY <1>1, <1>2

\* jlos_vma_find_free_area answers with a range inside the mmap range which,
\* while areas are apart, no area overlaps.
LEMMA FreeArea ==
    ASSUME Sized(areas), NEW h \in Addr, NEW len \in VmLens, jlos_vma_find_free_area(h, len) # 0
    PROVE  LET a == jlos_vma_find_free_area(h, len) IN
           /\ a \in Nat /\ a >= VmBase /\ a + len <= VmLimit
           /\ Apart(areas) => \A u \in areas : u.e <= a \/ a + len <= u.s
<1> DEFINE a == jlos_vma_find_free_area(h, len)
<1>0. /\ VmBase \in Nat /\ VmLimit \in Nat /\ len \in Nat \ {0} /\ h \in Nat
      /\ \A v \in areas : v.s \in Nat /\ v.e \in Nat /\ v.s < v.e
    BY VmAssumption, AreaFacts, SMTT(30) DEF Sized, Addr
<1>1. CASE HintFits(h, len)
  <2>1. a = h /\ h >= VmBase /\ h + len <= VmLimit
      BY <1>0, <1>1, SMTT(30) DEF jlos_vma_find_free_area, HintFits
  <2>2. ASSUME Apart(areas), NEW u \in areas
        PROVE  u.e <= h \/ h + len <= u.s
    <3>1. CASE u.s > h
        BY <1>1, <3>1 DEF HintFits
    <3>2. CASE u.s <= h
      <4> DEFINE C == {v \in areas : v.s <= h}
      <4>1. C \subseteq Area /\ C # {}
          BY <3>2 DEF Sized
      <4>2. PICK w \in C : \A v \in C : v.s <= w.s
          BY <4>1, HighestArea
      <4>3. w \in FindLe(h) /\ w \in areas /\ u.s <= w.s
          BY <3>2, <4>2 DEF FindLe
      <4>4. ~(h < w.e)
          BY <1>1, <4>3 DEF HintFits, jlos_vma_find
      <4>5. u # w => u.e <= w.s \/ w.e <= u.s
          BY <2>2, <4>3 DEF Apart
      <4>6. QED
          BY <1>0, <4>3, <4>4, <4>5, SMTT(30)
    <3>3. QED
        BY <1>0, <3>1, <3>2, SMTT(30)
  <2>3. QED
      BY <1>0, <2>1, <2>2
<1>2. CASE ~HintFits(h, len)
  <2> DEFINE c == FirstGap(len)
  <2>1. c \in Nat /\ c >= VmBase
      BY GapType
  <2>2. a = IF c < VmBase \/ c >= VmLimit \/ len > VmLimit - c THEN 0 ELSE c
      BY <1>2 DEF jlos_vma_find_free_area
  <2> HIDE DEF c, a
  <2>3. a # 0
      BY DEF a
  <2>4. a = c /\ ~(len > VmLimit - c)
      BY <2>2, <2>3
  <2>5. Apart(areas) => \A u \in areas : u.e <= c \/ c + len <= u.s
      BY GapFree DEF c
  <2>6. QED
      BY <1>0, <2>1, <2>4, <2>5, SMTT(30) DEF a
<1>3. QED
    BY <1>1, <1>2

-----------------------------------------------------------------------------
(* Cutting a range out of the areas.                                       *)

LEMMA PieceFacts ==
    ASSUME NEW v \in Area, NEW s \in Nat, NEW e \in Nat, v.s <= s, s < e, e <= VmLimit
    PROVE  /\ Piece(v, s, e) \in Area
           /\ Piece(v, s, e).s = s /\ Piece(v, s, e).e = e /\ Piece(v, s, e).t = v.t
<1>1. VmBrkStart <= s /\ v.t \in {"brk", "anon"}
    BY AreaFacts, VmAssumption, SMTT(30)
<1>2. [s |-> s, e |-> e, t |-> v.t] \in Area
    BY <1>1, AreaMade
<1>3. QED
    BY <1>2 DEF Piece

\* What is left of an area lies within it and, unless the area for a tail
\* could not be had, outside the range.
LEMMA CutPieces ==
    ASSUME NEW v \in Area, v.s < v.e, NEW s \in Nat, NEW e \in Nat, s < e,
           NEW ok \in BOOLEAN, NEW w \in Cut(v, s, e, ok)
    PROVE  /\ w \in Area /\ w.s < w.e /\ v.s <= w.s /\ w.e <= v.e /\ w.t = v.t
           /\ ok => w.e <= s \/ e <= w.s
<1>0. /\ v.s \in Nat /\ v.e \in Nat /\ VmBrkStart <= v.s /\ v.e <= VmLimit /\ VmBrkStart \in Nat
      /\ VmLimit \in Nat /\ v.t \in {"brk", "anon"}
    BY AreaFacts, VmAssumption
<1>1. CASE w = v
    BY <1>0, <1>1, SMTT(30) DEF Cut, Piece
<1>2. CASE w = Piece(v, e, v.e) /\ v.s < e /\ e < v.e
    BY <1>0, <1>2, PieceFacts, SMTT(30)
<1>3. CASE w = Piece(v, v.s, s) /\ v.s < s /\ s < v.e
    BY <1>0, <1>3, PieceFacts, SMTT(30)
<1>4. QED
    BY <1>0, <1>1, <1>2, <1>3, SMTT(30) DEF Cut

\* No page outside the range is lost.
LEMMA CutCovers ==
    ASSUME NEW v \in Area, NEW s \in Nat, NEW e \in Nat, s < e, NEW ok \in BOOLEAN,
           NEW a \in Nat, Covers(v, a), ~(s <= a /\ a < e)
    PROVE  \E w \in Cut(v, s, e, ok) : Covers(w, a)
<1>0. v.s \in Nat /\ v.e \in Nat
    BY AreaFacts
<1>1. Covers(Piece(v, e, v.e), a) \/ a < s
    BY <1>0, SMTT(30) DEF Covers, Piece
<1>2. Covers(Piece(v, v.s, s), a) \/ e <= a
    BY <1>0, SMTT(30) DEF Covers, Piece
<1>3. QED
    BY <1>0, <1>1, <1>2, SMTT(30) DEF Cut, Covers

\* The two ends of an area that is split are apart.
LEMMA CutApart ==
    ASSUME NEW v \in Area, NEW s \in Nat, NEW e \in Nat, s < e, NEW ok \in BOOLEAN,
           NEW x \in Cut(v, s, e, ok), NEW y \in Cut(v, s, e, ok), x # y
    PROVE  x.e <= y.s \/ y.e <= x.s
BY AreaFacts, SMTT(30) DEF Cut, Piece

\* jlos_vma_remove_range: the rest of the areas is sound, stays apart, is
\* outside the range and still holds the pages that were not unmapped.
LEMMA RemoveRange ==
    ASSUME NEW A, Sized(A), NEW s \in Nat, NEW e \in Nat, s < e, NEW ok \in BOOLEAN,
           NEW P, P \subseteq Nat, NEW end \in Nat
    PROVE  LET R == jlos_vma_remove_range(A, s, e, ok) IN
           /\ Sized(R)
           /\ Apart(A) => Apart(R)
           /\ ok => \A w \in R : w.e <= s \/ e <= w.s
           /\ Holds(A, P) => Holds(R, P \ Overlap(A, s, e))
           /\ Headed(A, end) => Headed(R, end)
           /\ Owned(A, end) /\ end <= VmBrkLimit /\ VmBrkLimit <= s => Owned(R, end)
<1> DEFINE R == jlos_vma_remove_range(A, s, e, ok)
<1>0. \A v \in A : v \in Area /\ v.s < v.e /\ v.s \in Nat /\ v.e \in Nat /\ VmBrkStart <= v.s
    BY AreaFacts DEF Sized
<1>1. \A w : w \in R <=> \E v \in A : w \in Cut(v, s, e, ok)
    BY DEF jlos_vma_remove_range
<1> HIDE DEF R
<1>2. \A v \in A : \A w \in Cut(v, s, e, ok) :
          /\ w \in Area /\ w.s < w.e /\ v.s <= w.s /\ w.e <= v.e /\ w.t = v.t
          /\ ok => w.e <= s \/ e <= w.s
    BY <1>0, CutPieces, SMTT(30)
<1>3. \A w \in R : w \in Area /\ w.s \in Nat /\ w.e \in Nat
    BY <1>1, <1>2, AreaFacts
<1>4. Sized(R) /\ (ok => \A w \in R : w.e <= s \/ e <= w.s)
    BY <1>1, <1>2 DEF Sized
<1>5. ASSUME Apart(A), NEW x \in R, NEW y \in R, x # y
      PROVE  x.e <= y.s \/ y.e <= x.s
  <2>1. PICK u \in A : x \in Cut(u, s, e, ok)
      BY <1>1
  <2>2. PICK v \in A : y \in Cut(v, s, e, ok)
      BY <1>1
  <2>3. CASE u = v
      BY <1>0, <1>5, <2>1, <2>2, <2>3, CutApart
  <2>4. CASE u # v
    <3>1. u.e <= v.s \/ v.e <= u.s
        BY <1>5, <2>4 DEF Apart
    <3>2. u.s <= x.s /\ x.e <= u.e /\ v.s <= y.s /\ y.e <= v.e
        BY <1>2, <2>1, <2>2
    <3>3. QED
        BY <1>0, <1>3, <3>1, <3>2, SMTT(30)
  <2>5. QED
      BY <2>3, <2>4
<1>6. ASSUME Holds(A, P), NEW a \in P \ Overlap(A, s, e)
      PROVE  \E w \in R : Covers(w, a)
  <2>1. a \in Nat /\ a \in P
      OBVIOUS
  <2>2. PICK v \in A : Covers(v, a)
      BY <1>6, <2>1 DEF Holds
  <2>3. v.s <= a /\ a < v.e /\ v.s \in Nat /\ v.e \in Nat /\ v \in Area
      BY <1>0, <2>2 DEF Covers
  <2>4. a \notin Pages(Upper(v.s, s), Lower(v.e, e))
      BY <1>6 DEF Overlap
  <2>5. ~(s <= a /\ a < e)
      BY <2>1, <2>3, <2>4, SMTT(30) DEF Pages, Upper, Lower
  <2>6. PICK w \in Cut(v, s, e, ok) : Covers(w, a)
      BY <2>1, <2>2, <2>3, <2>5, CutCovers
  <2>7. QED
      BY <1>1, <2>6
<1>7. ASSUME Headed(A, end), NEW w \in R, w.t = "brk", w.s = VmBrkStart
      PROVE  w.e <= end
  <2>1. PICK v \in A : w \in Cut(v, s, e, ok)
      BY <1>1
  <2>2. v.s <= w.s /\ w.e <= v.e /\ v.t = "brk"
      BY <1>2, <1>7, <2>1
  <2>3. v.s = VmBrkStart
      BY <1>0, <1>7, <2>2, VmAssumption, SMTT(30)
  <2>4. v.e <= end
      BY <1>7, <2>2, <2>3 DEF Headed
  <2>5. QED
      BY <1>0, <1>3, <2>2, <2>4, SMTT(30)
<1>8. ASSUME Owned(A, end), end <= VmBrkLimit, VmBrkLimit <= s
      PROVE  Owned(R, end)
  <2>1. ASSUME NEW v \in A, v.t = "brk"
        PROVE  v.s = VmBrkStart /\ v.e = end /\ Cut(v, s, e, ok) = {v}
    <3>1. v.s = VmBrkStart /\ v.e = end
        BY <1>8, <2>1 DEF Owned
    <3>2. v.e <= s
        BY <1>8, <3>1, VmAssumption, SMTT(30)
    <3>3. QED
        BY <3>1, <3>2 DEF Cut
  <2>2. ASSUME NEW w \in R, w.t = "brk"
        PROVE  w.s = VmBrkStart /\ w.e = end
    <3>1. PICK v \in A : w \in Cut(v, s, e, ok)
        BY <1>1
    <3>2. v.t = "brk"
        BY <1>2, <2>2, <3>1
    <3>3. QED
        BY <2>1, <3>1, <3>2
  <2>3. ASSUME NEW w \in R, w.t = "anon"
        PROVE  w.s >= VmBrkLimit
    <3>1. PICK v \in A : w \in Cut(v, s, e, ok)
        BY <1>1
    <3>2. v.t = "anon" /\ v.s <= w.s
        BY <1>2, <2>3, <3>1
    <3>3. v.s >= VmBrkLimit
        BY <1>8, <3>2 DEF Owned
    <3>4. QED
        BY <1>0, <1>3, <3>2, <3>3, VmAssumption, SMTT(30)
  <2>4. ASSUME end > VmBrkStart
        PROVE  \E w \in R : w.t = "brk"
    <3>1. PICK v \in A : v.t = "brk"
        BY <1>8, <2>4 DEF Owned
    <3>2. v \in R
        BY <1>1, <2>1, <3>1
    <3>3. QED
        BY <3>1, <3>2
  <2>5. QED
      BY <2>2, <2>3, <2>4 DEF Owned
<1>9. QED
    BY <1>4, <1>5, <1>6, <1>7, <1>8 DEF R, Apart, Holds, Headed

\* jlos_vma_add of an anonymous area.
LEMMA AddAnon ==
    ASSUME NEW A, Sized(A), NEW s \in Nat, NEW e \in Nat, VmBrkStart <= s, s < e, e <= VmLimit,
           NEW ok \in BOOLEAN, NEW P, NEW end \in Nat
    PROVE  LET B == jlos_vma_add(A, s, e, "anon", ok) IN
           /\ Sized(B)
           /\ Holds(A, P) => Holds(B, P)
           /\ Headed(A, end) => Headed(B, end)
           /\ Apart(A) /\ (\A u \in A : u.e <= s \/ e <= u.s) => Apart(B)
           /\ Owned(A, end) /\ VmBrkLimit <= s => Owned(B, end)
<1> DEFINE B == jlos_vma_add(A, s, e, "anon", ok)
           r == [s |-> s, e |-> e, t |-> "anon"]
<1>1. r \in Area
    BY AreaMade
<1>2. r.s = s /\ r.e = e /\ r.t = "anon"
    OBVIOUS
<1>3. B = A \/ B = A \cup {r}
    BY DEF jlos_vma_add
<1> HIDE DEF B, r
<1>4. Sized(B)
    BY <1>1, <1>2, <1>3 DEF Sized
<1>5. Holds(A, P) => Holds(B, P)
    BY <1>3 DEF Holds
<1>6. Headed(A, end) => Headed(B, end)
    BY <1>2, <1>3 DEF Headed
<1>7. Apart(A) /\ (\A u \in A : u.e <= s \/ e <= u.s) => Apart(B)
    BY <1>2, <1>3 DEF Apart
<1>8. Owned(A, end) /\ VmBrkLimit <= s => Owned(B, end)
    BY <1>2, <1>3 DEF Owned
<1>9. QED
    BY <1>4, <1>5, <1>6, <1>7, <1>8 DEF B

-----------------------------------------------------------------------------
(* One lemma for each system call.                                         *)

\* brk grows: the area at brk_start, if there is one, now ends at new.
LEMMA GrowStep ==
    ASSUME VmIInv, NEW new \in Addr, NEW ok \in BOOLEAN, syscall_task_brk(new, ok), new > brk_end
    PROVE  VmIInv'
<1> DEFINE b == {v \in areas : v.s = VmBrkStart /\ v.t = "brk"}
           r == [s |-> VmBrkStart, e |-> new, t |-> "brk"]
           B == (areas \ b) \cup {r}
<1>0. /\ new \in Nat /\ new <= VmBrkLimit /\ brk_end \in Nat /\ VmBrkStart <= brk_end
      /\ VmBrkStart \in Nat /\ VmBrkLimit \in Nat /\ VmLimit \in Nat /\ VmBrkLimit < VmLimit
      /\ \A v \in areas : v \in Area /\ v.s \in Nat /\ v.e \in Nat /\ VmBrkStart <= v.s
                          /\ v.t \in {"brk", "anon"}
    BY VmAssumption, AreaFacts, SMTT(30) DEF VmIInv, VmTypeOK, syscall_task_brk, Sized, Addr
<1>1. r \in Area /\ r.s = VmBrkStart /\ r.e = new /\ r.t = "brk"
  <2>1. VmBrkStart \in Nat /\ new \in Nat /\ VmBrkStart <= VmBrkStart /\ VmBrkStart < new /\ new <= VmLimit
      BY <1>0, SMTT(30)
  <2>2. r \in Area
      BY <2>1, AreaMade
  <2>3. QED
      BY <2>2
<1>2. areas' = B \/ (areas' = areas /\ ~ok)
  <2>1. areas' = jlos_vma_grow_tail(areas, new, ok)
      BY DEF syscall_task_brk
  <2>2. CASE b = {}
      BY <2>1, <2>2 DEF jlos_vma_grow_tail, jlos_vma_add
  <2>3. CASE b # {}
    <3>1. areas' = (areas \ b) \cup {Piece(v, v.s, new) : v \in b}
        BY <2>1, <2>3 DEF jlos_vma_grow_tail
    <3>2. \A v \in b : Piece(v, v.s, new) = r
        BY DEF Piece
    <3>3. {Piece(v, v.s, new) : v \in b} = {r}
        BY <2>3, <3>2
    <3>4. QED
        BY <3>1, <3>3
  <2>4. QED
      BY <2>2, <2>3
<1>3. present' = present /\ brk_end' = new /\ vmoom' = (vmoom \/ ~ok) /\ clobbered' = clobbered
    BY DEF syscall_task_brk
<1>4. \A v \in areas \ b : v.t = "brk" => v.s # VmBrkStart
    OBVIOUS
<1>5. \A v \in b : v \in areas /\ v.s = VmBrkStart /\ v.e <= brk_end
    BY DEF VmIInv, Headed
<1> HIDE DEF b, r
<1>6. Sized(areas') /\ VmTypeOK'
    BY <1>0, <1>1, <1>2, <1>3, SMTT(30) DEF VmIInv, VmTypeOK, Sized
<1>7. Holds(areas', present')
  <2> SUFFICES ASSUME NEW a \in present PROVE \E v \in areas' : Covers(v, a)
      BY <1>3 DEF Holds
  <2>1. PICK v \in areas : Covers(v, a)
      BY DEF VmIInv, Holds
  <2>2. v \in b => Covers(r, a)
    <3>1. a \in Nat
        BY VmAssumption, SMTT(30) DEF VmIInv, VmTypeOK, Addr
    <3>2. QED
        BY <1>0, <1>1, <1>5, <2>1, <3>1, SMTT(30) DEF Covers
  <2>3. QED
      BY <1>2, <2>1, <2>2
<1>8. Headed(areas', brk_end')
    BY <1>0, <1>1, <1>2, <1>3, SMTT(30) DEF VmIInv, Headed
<1>9. ASSUME Intact' PROVE Apart(areas') /\ Owned(areas', brk_end')
  <2>1. areas' = B /\ Apart(areas) /\ Owned(areas, brk_end)
      BY <1>2, <1>3, <1>9 DEF VmIInv, Intact
  <2>2. \A v \in areas \ b : v.t = "anon" /\ v.s >= VmBrkLimit
      BY <1>0, <1>4, <2>1 DEF Owned
  <2>3. Apart(areas')
    <3>1. \A v \in areas \ b : r.e <= v.s
        BY <1>0, <1>1, <2>2, SMTT(30)
    <3>2. QED
        BY <2>1, <3>1 DEF Apart
  <2>4. Owned(areas', brk_end')
      BY <1>1, <1>3, <2>1, <2>2 DEF Owned
  <2>5. QED
      BY <2>3, <2>4
<1>10. QED
    BY <1>6, <1>7, <1>8, <1>9 DEF VmIInv

\* brk shrinks: what lies past new is cut off the first brk area and unmapped.
LEMMA ShrinkStep ==
    ASSUME VmIInv, NEW new \in Addr, NEW ok \in BOOLEAN, syscall_task_brk(new, ok), ~(new > brk_end)
    PROVE  VmIInv'
<1> DEFINE b == {v \in areas : v.t = "brk" /\ \A u \in areas : u.t = "brk" => v.s <= u.s}
           Rest(v) == Piece(v, v.s, Lower(v.e, new))
           D == UNION {Pages(Upper(v.s, new), v.e) : v \in b}
<1>0. /\ new \in Nat /\ VmBrkStart <= new /\ new <= VmBrkLimit /\ brk_end \in Nat /\ new < brk_end
      /\ VmBrkStart \in Nat /\ VmBrkLimit \in Nat /\ VmLimit \in Nat
      /\ \A v \in areas : v \in Area /\ v.s \in Nat /\ v.e \in Nat /\ VmBrkStart <= v.s /\ v.s < v.e
                          /\ v.e <= VmLimit
    BY VmAssumption, AreaFacts, SMTT(30) DEF VmIInv, VmTypeOK, syscall_task_brk, Sized, Addr
<1>1. areas' = UNION {IF v \notin b THEN {v} ELSE IF new <= v.s THEN {} ELSE {Rest(v)} : v \in areas}
    BY <1>0 DEF syscall_task_brk, jlos_vma_shrink_tail
<1>2. present' = present \ D
    BY <1>0 DEF syscall_task_brk, Dropped
<1>3. brk_end' = new /\ vmoom' = (vmoom \/ ~ok) /\ clobbered' = clobbered
    BY DEF syscall_task_brk
<1>4. \A v \in areas : v.t = "brk" /\ v.s = VmBrkStart => v \in b
    BY <1>0
<1>5. b \subseteq areas /\ \A v \in b : v.t = "brk"
    OBVIOUS
<1> HIDE DEF b, D
<1>6. \A w : w \in areas' <=> \E v \in areas : (v \notin b /\ w = v) \/ (v \in b /\ v.s < new /\ w = Rest(v))
  <2>1. \A v \in areas : ~(new <= v.s) <=> v.s < new
      BY <1>0, SMTT(30)
  <2>2. QED
      BY <1>1, <2>1
<1>7. \A v \in areas : v.s < new =>
          /\ Rest(v) \in Area /\ Rest(v).s = v.s /\ Rest(v).e = Lower(v.e, new) /\ Rest(v).t = v.t
          /\ Rest(v).s < Rest(v).e /\ Rest(v).e <= v.e /\ Rest(v).e <= new /\ Rest(v).e \in Nat
    BY <1>0, PieceFacts, SMTT(30) DEF Lower
<1> HIDE DEF Rest
<1>8. \A w \in areas' : w \in Area /\ w.s < w.e
    BY <1>0, <1>6, <1>7
<1>9. Sized(areas') /\ VmTypeOK'
  <2>1. Sized(areas')
      BY <1>8 DEF Sized
  <2>2. brk_end' \in VmBrkStart .. VmBrkLimit
      BY <1>0, <1>3, SMTT(30)
  <2>3. present' \subseteq Addr
      BY <1>2 DEF VmIInv, VmTypeOK
  <2>4. vmoom' \in BOOLEAN /\ clobbered' \in BOOLEAN
      BY <1>3 DEF VmIInv, VmTypeOK
  <2>5. QED
      BY <2>1, <2>2, <2>3, <2>4 DEF VmTypeOK, Sized
<1>10. Holds(areas', present')
  <2> SUFFICES ASSUME NEW a \in present' PROVE \E w \in areas' : Covers(w, a)
      BY DEF Holds
  <2>1. a \in present /\ a \in Nat /\ \A v \in b : a \notin Pages(Upper(v.s, new), v.e)
    <3>1. a \in present /\ a \notin D
        BY <1>2
    <3>2. a \in Nat
        BY <3>1, VmAssumption, SMTT(30) DEF VmIInv, VmTypeOK, Addr
    <3>3. QED
        BY <3>1, <3>2 DEF D
  <2>2. PICK v \in areas : v.s <= a /\ a < v.e
      BY <2>1 DEF VmIInv, Holds, Covers
  <2>3. CASE v \notin b
      BY <1>6, <2>2, <2>3 DEF Covers
  <2>4. CASE v \in b
    <3>1. a < new
        BY <1>0, <2>1, <2>2, <2>4, SMTT(30) DEF Pages, Upper
    <3>2. v.s < new
        BY <1>0, <2>1, <2>2, <3>1, SMTT(30)
    <3>3. Rest(v) \in areas'
        BY <1>6, <2>4, <3>2
    <3>4. Rest(v).s <= a /\ a < Rest(v).e
        BY <1>0, <1>7, <2>1, <2>2, <3>1, <3>2 DEF Lower
    <3>5. QED
        BY <3>3, <3>4 DEF Covers
  <2>5. QED
      BY <2>3, <2>4
<1>11. Headed(areas', brk_end')
    BY <1>3, <1>4, <1>6, <1>7 DEF Headed
<1>12. ASSUME Intact' PROVE Apart(areas') /\ Owned(areas', brk_end')
  <2>1. Apart(areas) /\ Owned(areas, brk_end)
      BY <1>3, <1>12 DEF VmIInv, Intact
  <2>2. Apart(areas')
    <3> SUFFICES ASSUME NEW x \in areas', NEW y \in areas', x # y
                 PROVE  x.e <= y.s \/ y.e <= x.s
        BY DEF Apart
    <3>1. PICK u \in areas : x = u \/ (u.s < new /\ x = Rest(u))
        BY <1>6
    <3>2. PICK v \in areas : y = v \/ (v.s < new /\ y = Rest(v))
        BY <1>6
    <3>3. x.s = u.s /\ x.e <= u.e /\ x.e \in Nat /\ y.s = v.s /\ y.e <= v.e /\ y.e \in Nat
        BY <1>0, <1>7, <3>1, <3>2, SMTT(30)
    <3>4. CASE u # v
      <4>1. u.e <= v.s \/ v.e <= u.s
          BY <2>1, <3>4 DEF Apart
      <4>2. QED
          BY <1>0, <3>3, <4>1, SMTT(30)
    <3>5. CASE u = v
        BY <1>6, <2>1, <3>1, <3>2, <3>3, <3>5, <1>0, <1>7, SMTT(30) DEF Apart
    <3>6. QED
        BY <3>4, <3>5
  <2>3. \A v \in areas : v.t = "brk" => v \in b /\ v.s = VmBrkStart /\ v.e = brk_end
      BY <1>4, <2>1 DEF Owned
  <2>4. \A w \in areas' : w.t = "brk" => w.s = VmBrkStart /\ w.e = new
    <3> SUFFICES ASSUME NEW w \in areas', w.t = "brk"
                 PROVE  w.s = VmBrkStart /\ w.e = new
        OBVIOUS
    <3>1. PICK v \in areas : (v \notin b /\ w = v) \/ (v \in b /\ v.s < new /\ w = Rest(v))
        BY <1>6
    <3>2. v.t = "brk"
        BY <1>7, <3>1
    <3>3. v.s < new /\ w = Rest(v) /\ v.s = VmBrkStart /\ v.e = brk_end
        BY <2>3, <3>1, <3>2
    <3>4. QED
        BY <1>0, <1>7, <3>3, SMTT(30) DEF Lower
  <2>5. \A w \in areas' : w.t = "anon" => w.s >= VmBrkLimit
    <3> SUFFICES ASSUME NEW w \in areas', w.t = "anon"
                 PROVE  w.s >= VmBrkLimit
        OBVIOUS
    <3>1. PICK v \in areas : (v \notin b /\ w = v) \/ (v \in b /\ v.s < new /\ w = Rest(v))
        BY <1>6
    <3>2. v.t = "anon" /\ w.s = v.s
        BY <1>7, <3>1
    <3>3. QED
        BY <2>1, <3>2 DEF Owned
  <2>6. ASSUME new > VmBrkStart PROVE \E w \in areas' : w.t = "brk"
    <3>1. PICK v \in areas : v.t = "brk"
        BY <1>0, <2>1, <2>6, SMTT(30) DEF Owned
    <3>2. v \in b /\ v.s < new
        BY <1>0, <2>3, <2>6, <3>1
    <3>3. Rest(v) \in areas' /\ Rest(v).t = "brk"
        BY <1>6, <1>7, <3>1, <3>2
    <3>4. QED
        BY <3>3
  <2>7. QED
      BY <1>3, <2>2, <2>4, <2>5, <2>6 DEF Owned
<1>13. QED
    BY <1>9, <1>10, <1>11, <1>12 DEF VmIInv

\* mmap without FIXED adds an area where none was.
LEMMA MmapStep ==
    ASSUME VmIInv, NEW h \in Addr, NEW len \in VmLens, NEW ok \in BOOLEAN, syscall_mmap(h, len, ok)
    PROVE  VmIInv'
<1> DEFINE a == jlos_vma_find_free_area(h, len)
<1>1. /\ areas' = jlos_vma_add(areas, a, a + len, "anon", ok) /\ a # 0
      /\ vmoom' = (vmoom \/ ~ok) /\ brk_end' = brk_end /\ present' = present /\ clobbered' = clobbered
    BY DEF syscall_mmap
<1>2. /\ a \in Nat /\ a >= VmBase /\ a + len <= VmLimit
      /\ Apart(areas) => \A u \in areas : u.e <= a \/ a + len <= u.s
    BY <1>1, FreeArea DEF VmIInv
<1> HIDE DEF a
<1>3. /\ len \in Nat \ {0} /\ a + len \in Nat /\ a < a + len
      /\ VmBrkStart <= a /\ VmBrkLimit <= a /\ brk_end \in Nat
    BY <1>2, VmAssumption, SMTT(30) DEF VmIInv, VmTypeOK
<1>4. /\ Sized(areas') /\ Holds(areas', present) /\ Headed(areas', brk_end)
      /\ Apart(areas) => Apart(areas')
      /\ Owned(areas, brk_end) => Owned(areas', brk_end)
    BY <1>1, <1>2, <1>3, AddAnon DEF VmIInv
<1>5. VmTypeOK'
  <2>1. vmoom' \in BOOLEAN
      BY <1>1 DEF VmIInv, VmTypeOK
  <2>2. QED
      BY <1>1, <1>4, <2>1 DEF VmIInv, VmTypeOK, Sized
<1>6. Intact' => Intact
    BY <1>1 DEF Intact
<1>7. QED
    BY <1>1, <1>4, <1>5, <1>6 DEF VmIInv

\* The pages asked for, and what an untouched brk range says about them.
LEMMA RangeFacts ==
    ASSUME VmIInv, NEW a \in Addr, NEW len \in VmLens, a + len <= VmLimit
    PROVE  /\ a \in Nat /\ a + len \in Nat /\ a < a + len /\ VmBrkStart <= a
           /\ brk_end \in Nat /\ brk_end <= VmBrkLimit /\ present \subseteq Nat
           /\ ~InBrk(a, a + len) => VmBrkLimit <= a
BY VmAssumption, SMTT(30) DEF VmIInv, VmTypeOK, Addr, InBrk

\* munmap cuts the range out of the areas and unmaps it.
LEMMA MunmapStep ==
    ASSUME VmIInv, NEW a \in Addr, NEW len \in VmLens, NEW ok \in BOOLEAN, syscall_munmap(a, len, ok)
    PROVE  VmIInv'
<1>1. /\ a + len <= VmLimit /\ areas' = jlos_vma_remove_range(areas, a, a + len, ok)
      /\ present' = present \ Overlap(areas, a, a + len) /\ brk_end' = brk_end
      /\ vmoom' = (vmoom \/ ~ok) /\ clobbered' = (clobbered \/ InBrk(a, a + len))
    BY DEF syscall_munmap
<1>2. /\ a \in Nat /\ a + len \in Nat /\ a < a + len
      /\ brk_end \in Nat /\ brk_end <= VmBrkLimit /\ present \subseteq Nat
      /\ ~InBrk(a, a + len) => VmBrkLimit <= a
    BY <1>1, RangeFacts
<1>3. /\ Sized(areas') /\ Holds(areas', present') /\ Headed(areas', brk_end)
      /\ Apart(areas) => Apart(areas')
      /\ Owned(areas, brk_end) /\ VmBrkLimit <= a => Owned(areas', brk_end)
    BY <1>1, <1>2, RemoveRange DEF VmIInv
<1>4. VmTypeOK'
  <2>1. present' \subseteq Addr /\ brk_end' \in VmBrkStart .. VmBrkLimit
      BY <1>1 DEF VmIInv, VmTypeOK
  <2>2. vmoom' \in BOOLEAN /\ clobbered' \in BOOLEAN
      BY <1>1 DEF VmIInv, VmTypeOK, InBrk
  <2>3. QED
      BY <1>3, <2>1, <2>2 DEF VmTypeOK, Sized
<1>5. Intact' => Intact /\ ~InBrk(a, a + len)
    BY <1>1 DEF Intact
<1>6. QED
    BY <1>1, <1>2, <1>3, <1>4, <1>5 DEF VmIInv

\* mmap(FIXED) is munmap of the range and an area in its place.
LEMMA MmapFixedStep ==
    ASSUME VmIInv, NEW a \in Addr, NEW len \in VmLens, NEW ok \in BOOLEAN, NEW ok2 \in BOOLEAN,
           syscall_mmap_fixed(a, len, ok, ok2)
    PROVE  VmIInv'
<1> DEFINE R == jlos_vma_remove_range(areas, a, a + len, ok)
<1>1. /\ a + len <= VmLimit /\ areas' = jlos_vma_add(R, a, a + len, "anon", ok2)
      /\ present' = present \ Overlap(areas, a, a + len) /\ brk_end' = brk_end
      /\ vmoom' = (vmoom \/ ~ok \/ ~ok2) /\ clobbered' = (clobbered \/ InBrk(a, a + len))
    BY DEF syscall_mmap_fixed
<1>2. /\ a \in Nat /\ a + len \in Nat /\ a < a + len /\ VmBrkStart <= a
      /\ brk_end \in Nat /\ brk_end <= VmBrkLimit /\ present \subseteq Nat
      /\ ~InBrk(a, a + len) => VmBrkLimit <= a
    BY <1>1, RangeFacts
<1>3. /\ Sized(R) /\ Holds(R, present') /\ Headed(R, brk_end)
      /\ Apart(areas) => Apart(R)
      /\ ok => \A w \in R : w.e <= a \/ a + len <= w.s
      /\ Owned(areas, brk_end) /\ VmBrkLimit <= a => Owned(R, brk_end)
    BY <1>1, <1>2, RemoveRange DEF VmIInv
<1> HIDE DEF R
<1>4. /\ Sized(areas') /\ Holds(areas', present') /\ Headed(areas', brk_end)
      /\ Apart(R) /\ (\A w \in R : w.e <= a \/ a + len <= w.s) => Apart(areas')
      /\ Owned(R, brk_end) /\ VmBrkLimit <= a => Owned(areas', brk_end)
    BY <1>1, <1>2, <1>3, AddAnon
<1>5. VmTypeOK'
  <2>1. present' \subseteq Addr /\ brk_end' \in VmBrkStart .. VmBrkLimit
      BY <1>1 DEF VmIInv, VmTypeOK
  <2>2. vmoom' \in BOOLEAN /\ clobbered' \in BOOLEAN
      BY <1>1 DEF VmIInv, VmTypeOK, InBrk
  <2>3. QED
      BY <1>4, <2>1, <2>2 DEF VmTypeOK, Sized
<1>6. Intact' => Intact /\ ok /\ ~InBrk(a, a + len)
    BY <1>1 DEF Intact
<1>7. QED
    BY <1>1, <1>2, <1>3, <1>4, <1>5, <1>6 DEF VmIInv

\* A fault maps a page only where an area holds it.
LEMMA FaultStep ==
    ASSUME VmIInv, NEW a \in Addr, jlos_vma_demand_map(a)
    PROVE  VmIInv'
<1>1. /\ present' = present \cup {a}
      /\ areas' = areas /\ brk_end' = brk_end /\ vmoom' = vmoom /\ clobbered' = clobbered
    BY DEF jlos_vma_demand_map
<1>2. PICK v \in areas : Covers(v, a)
    BY DEF jlos_vma_demand_map, jlos_vma_find, FindLe, Covers
<1>3. Holds(areas', present')
    BY <1>1, <1>2 DEF VmIInv, Holds
<1>4. QED
    BY <1>1, <1>3 DEF VmIInv, VmTypeOK, Intact

\* The process begins, and ends, without areas.
LEMMA NoAreas ==
    ASSUME NEW end, end = VmBrkStart
    PROVE  Sized({}) /\ Holds({}, {}) /\ Headed({}, end) /\ Apart({}) /\ Owned({}, end)
BY VmAssumption, SMTT(30) DEF Sized, Holds, Headed, Apart, Owned

LEMMA VmInitInv == VmInit => VmIInv
<1> SUFFICES ASSUME VmInit PROVE VmIInv
    OBVIOUS
<1>1. areas = {} /\ present = {} /\ brk_end = VmBrkStart
    BY DEF VmInit
<1>2. VmBrkStart \in VmBrkStart .. VmBrkLimit
    BY VmAssumption, SMTT(30)
<1>3. VmTypeOK
    BY <1>1, <1>2 DEF VmInit, VmTypeOK
<1>4. Sized(areas) /\ Holds(areas, present) /\ Headed(areas, brk_end)
      /\ Apart(areas) /\ Owned(areas, brk_end)
    BY <1>1, NoAreas
<1>5. QED
    BY <1>3, <1>4 DEF VmIInv

LEMMA DestroyStep == VmIInv /\ jlos_mm_destroy => VmIInv'
<1> SUFFICES ASSUME jlos_mm_destroy PROVE VmIInv'
    OBVIOUS
<1>1. areas' = {} /\ present' = {} /\ brk_end' = VmBrkStart
    BY DEF jlos_mm_destroy
<1>2. VmBrkStart \in VmBrkStart .. VmBrkLimit
    BY VmAssumption, SMTT(30)
<1>3. VmTypeOK'
    BY <1>1, <1>2 DEF jlos_mm_destroy, VmTypeOK
<1>4. Sized(areas') /\ Holds(areas', present') /\ Headed(areas', brk_end')
      /\ Apart(areas') /\ Owned(areas', brk_end')
    BY <1>1, NoAreas
<1>5. QED
    BY <1>3, <1>4 DEF VmIInv

LEMMA VmStepInv == VmIInv /\ [VmNext]_vmVars => VmIInv'
<1> SUFFICES ASSUME VmIInv, [VmNext]_vmVars PROVE VmIInv'
    OBVIOUS
<1>1. ASSUME NEW new \in Addr, NEW ok \in BOOLEAN, syscall_task_brk(new, ok) PROVE VmIInv'
    BY <1>1, GrowStep, ShrinkStep
<1>2. ASSUME NEW h \in Addr, NEW len \in VmLens, NEW ok \in BOOLEAN, syscall_mmap(h, len, ok)
      PROVE  VmIInv'
    BY <1>2, MmapStep
<1>3. ASSUME NEW a \in Addr, NEW len \in VmLens, NEW ok \in BOOLEAN, NEW ok2 \in BOOLEAN,
             syscall_mmap_fixed(a, len, ok, ok2)
      PROVE  VmIInv'
    BY <1>3, MmapFixedStep
<1>4. ASSUME NEW a \in Addr, NEW len \in VmLens, NEW ok \in BOOLEAN, syscall_munmap(a, len, ok)
      PROVE  VmIInv'
    BY <1>4, MunmapStep
<1>5. ASSUME NEW a \in Addr, jlos_vma_demand_map(a) PROVE VmIInv'
    BY <1>5, FaultStep
<1>6. CASE jlos_mm_destroy
    BY <1>6, DestroyStep
<1>7. CASE UNCHANGED vmVars
    BY <1>7 DEF vmVars, VmIInv, VmTypeOK, Intact
<1>8. QED
    BY <1>1, <1>2, <1>3, <1>4, <1>5, <1>6, <1>7 DEF VmNext

-----------------------------------------------------------------------------
\* In an untouched brk range the search finds an area for exactly the pages
\* below brk_end.
LEMMA BrkIsBacked == VmIInv => BrkBacked
<1> SUFFICES ASSUME VmIInv, ~vmoom, ~clobbered, NEW a \in Pages(VmBrkStart, VmBrkLimit)
             PROVE  (jlos_vma_find(a) # {}) <=> (a < brk_end)
    BY DEF BrkBacked
<1>0. /\ a \in Nat /\ VmBrkStart <= a /\ a < VmBrkLimit /\ brk_end \in Nat
      /\ VmBrkStart \in Nat /\ VmBrkLimit \in Nat
      /\ \A v \in areas : v.s \in Nat /\ v.e \in Nat /\ v.t \in {"brk", "anon"}
    BY VmAssumption, AreaFacts, SMTT(30) DEF Pages, VmIInv, VmTypeOK, Sized
<1>1. Owned(areas, brk_end)
    BY DEF VmIInv, Intact
<1>2. \A v \in areas : v.s <= a => v.t = "brk" /\ v.s = VmBrkStart /\ v.e = brk_end
    BY <1>0, <1>1, SMTT(30) DEF Owned
<1>3. jlos_vma_find(a) # {} => a < brk_end
    BY <1>2 DEF jlos_vma_find, FindLe
<1>4. ASSUME a < brk_end PROVE jlos_vma_find(a) # {}
  <2>1. PICK v \in areas : v.t = "brk"
      BY <1>0, <1>1, <1>4, SMTT(30) DEF Owned
  <2>2. v.s = VmBrkStart /\ v.e = brk_end
      BY <1>1, <2>1 DEF Owned
  <2>3. v \in FindLe(a)
      BY <1>0, <1>2, <2>2, SMTT(30) DEF FindLe
  <2>4. QED
      BY <1>4, <2>2, <2>3 DEF jlos_vma_find
<1>5. QED
    BY <1>3, <1>4

\* Whatever a process asks of brk, mmap and munmap, and whichever allocations
\* fail, a present page lies in an area; and until an allocation fails or
\* somebody else cuts into the brk range, areas do not overlap and the pages
\* below brk_end, no more and no fewer, can be faulted in.
THEOREM AreasSafe == VmSpec => []VmSound
<1>1. VmIInv => VmSound
  <2> SUFFICES ASSUME VmIInv PROVE VmSound
      OBVIOUS
  <2>1. PresentInArea
      BY DEF VmIInv, PresentInArea, Holds
  <2>2. AreasDisjoint
      BY DEF VmIInv, AreasDisjoint, Sized, Apart, Intact
  <2>3. QED
      BY <2>1, <2>2, BrkIsBacked DEF VmSound, VmIInv
<1>2. QED
    BY <1>1, VmInitInv, VmStepInv, PTL DEF VmSpec

-----------------------------------------------------------------------------
(* High-resolution timers.                                                 *)

\* The event is armed for the tick or earlier, and no timer is more than a
\* period ahead of it; the tick is due within a period.
Armed ==
    /\ event \in Nat /\ active[Tick] \in Nat
    /\ event <= active[Tick] /\ active[Tick] <= now + HrPeriod
    /\ \A t \in HrTask : active[t] # NotSet => event <= active[t] + HrPeriod
    /\ now <= event + HrLatency

HrIInv ==
    /\ HrTypeOK /\ Armed
    /\ \A w \in woken : w[1] <= w[2]
    /\ HrLatency < HrPeriod => active[Tick] = (ticks + 1) * HrPeriod

\* CatchUp skips the periods that have passed and no more.
LEMMA CatchUpNext ==
    ASSUME NEW e \in Nat, now \in Nat, e <= now
    PROVE  /\ CatchUp(e) \in Nat /\ now < CatchUp(e) /\ CatchUp(e) <= now + HrPeriod
           /\ now < e + HrPeriod => CatchUp(e) = e + HrPeriod
<1> DEFINE d == now - e
           q == d \div HrPeriod
<1>1. d \in Nat /\ HrPeriod \in Nat \ {0}
    BY HrAssumption, SMTT(30)
<1>2. q \in Nat /\ HrPeriod * q <= d /\ d < HrPeriod * q + HrPeriod
    BY <1>1, SMTT(30)
<1>3. d < HrPeriod => q = 0
    BY <1>1, <1>2, SMTT(30)
<1>4. CatchUp(e) = e + HrPeriod * (q + 1)
    BY DEF CatchUp
<1> HIDE DEF q
<1>5. HrPeriod * (q + 1) = HrPeriod * q + HrPeriod
    BY <1>1, <1>2, SMTT(30)
<1>6. HrPeriod * q \in Nat
    BY <1>1, <1>2, SMTT(30)
<1>7. QED
    BY <1>1, <1>2, <1>3, <1>4, <1>5, <1>6, SMTT(30)

LEMMA HrInitInv == HrInit => HrIInv
<1> SUFFICES ASSUME HrInit PROVE HrIInv
    OBVIOUS
<1>1. HrPeriod \in Nat \ {0} /\ HrLatency \in Nat /\ HrEnd \in Nat /\ Tick \notin HrTask
    BY HrAssumption DEF Tick
<1>2. /\ active[Tick] = HrPeriod /\ event = HrPeriod /\ now = 0 /\ ticks = 0 /\ woken = {}
      /\ \A t \in HrTask : active[t] = NotSet
    BY <1>1 DEF HrInit
<1>3. active \in [HrTask \cup {Tick} -> {NotSet} \cup Nat]
    BY <1>1 DEF HrInit
<1>4. HrTypeOK
    BY <1>1, <1>2, <1>3, SMTT(30) DEF HrTypeOK
<1>5. Armed
    BY <1>1, <1>2, SMTT(30) DEF Armed
<1>6. QED
    BY <1>1, <1>2, <1>4, <1>5, SMTT(30) DEF HrIInv

LEMMA AdvanceStep == HrIInv /\ Advance => HrIInv'
<1> SUFFICES ASSUME HrIInv, Advance PROVE HrIInv'
    OBVIOUS
<1>1. /\ now \in Nat /\ event \in Nat /\ active[Tick] \in Nat /\ HrPeriod \in Nat /\ HrLatency \in Nat
      /\ now < HrEnd /\ HrEnd \in Nat
    BY HrAssumption, SMTT(30) DEF HrIInv, HrTypeOK, Armed, Advance
<1>2. /\ now' = now + 1 /\ now < event + HrLatency /\ woken' = {}
      /\ active' = active /\ event' = event /\ ticks' = ticks
    BY <1>1, SMTT(30) DEF Advance, NotSet
<1>3. HrTypeOK'
    BY <1>1, <1>2, SMTT(30) DEF HrIInv, HrTypeOK
<1>4. Armed'
    BY <1>1, <1>2, SMTT(30) DEF HrIInv, Armed
<1>5. QED
    BY <1>2, <1>3, <1>4 DEF HrIInv

\* A sleeper's timer may be due before the event: the event is not armed again,
\* but it is at most a period away.
LEMMA SleepStep ==
    ASSUME HrIInv, NEW t \in HrTask, NEW ns \in HrNaps, jlos_task_sleep_hrtimer(t, ns)
    PROVE  HrIInv'
<1>1. /\ now \in Nat /\ event \in Nat /\ active[Tick] \in Nat /\ HrPeriod \in Nat
      /\ ns \in Nat /\ t # Tick
    BY HrAssumption, SMTT(30) DEF HrIInv, HrTypeOK, Armed, Tick
<1>2. /\ active' = [active EXCEPT ![t] = now + ns] /\ woken' = {}
      /\ now' = now /\ event' = event /\ ticks' = ticks
    BY DEF jlos_task_sleep_hrtimer, jlos_hrtimer_start
<1>3. /\ active'[t] = now + ns /\ active'[Tick] = active[Tick]
      /\ \A u \in HrTask : u # t => active'[u] = active[u]
      /\ active' \in [HrTask \cup {Tick} -> {NotSet} \cup Nat]
    BY <1>1, <1>2, SMTT(30) DEF HrIInv, HrTypeOK
<1>4. HrTypeOK'
    BY <1>2, <1>3 DEF HrIInv, HrTypeOK
<1>5. event <= active'[t] + HrPeriod
    BY <1>1, <1>3, SMTT(30) DEF HrIInv, Armed
<1>6. Armed'
    BY <1>1, <1>2, <1>3, <1>5 DEF HrIInv, Armed
<1>7. QED
    BY <1>2, <1>3, <1>4, <1>6 DEF HrIInv

LEMMA InterruptStep == HrIInv /\ jlos_hrtimer_interrupt => HrIInv'
<1> SUFFICES ASSUME HrIInv, jlos_hrtimer_interrupt PROVE HrIInv'
    OBVIOUS
<1> DEFINE D == HrTask \cup {Tick}
           expired == {t \in D : active[t] # NotSet /\ active[t] <= now}
           left == [t \in D |-> IF t \notin expired THEN active[t]
                                ELSE IF t = Tick THEN CatchUp(active[t]) ELSE NotSet]
           set == {left[t] : t \in {u \in D : left[u] # NotSet}}
<1>1. /\ now \in Nat /\ now <= HrEnd /\ HrEnd \in Nat /\ ticks \in Nat /\ event \in Nat
      /\ HrPeriod \in Nat \ {0} /\ HrLatency \in Nat /\ Tick \notin HrTask /\ Tick \in D
      /\ \A t \in D : active[t] \in Nat \/ active[t] = NotSet
      /\ active[Tick] \in Nat /\ DOMAIN active = D /\ NotSet \notin Nat
    BY HrAssumption, SMTT(30) DEF HrIInv, HrTypeOK, Armed, Tick, NotSet
<1>2. /\ active' = left /\ now' = now
      /\ ticks' = ticks + (IF Tick \in expired THEN 1 ELSE 0)
      /\ woken' = {<<active[t], now>> : t \in expired \ {Tick}}
      /\ event' = NextEvent(left)
    BY <1>1 DEF jlos_hrtimer_interrupt
<1>3. \A t \in expired : t \in D /\ active[t] \in Nat /\ active[t] <= now
    BY <1>1
<1>4. \A t \in D \ expired : active[t] # NotSet => active[t] \in Nat /\ now < active[t]
    BY <1>1, SMTT(30)
<1>5. CatchUp(active[Tick]) \in Nat /\ Tick \in expired =>
        /\ now < CatchUp(active[Tick]) /\ CatchUp(active[Tick]) <= now + HrPeriod
    BY <1>1, <1>3, CatchUpNext
<1>6. Tick \in expired => CatchUp(active[Tick]) \in Nat
    BY <1>1, <1>3, CatchUpNext
<1>7. /\ \A t \in D \ expired : left[t] = active[t]
      /\ \A t \in expired \ {Tick} : left[t] = NotSet
      /\ Tick \in expired => left[Tick] = CatchUp(active[Tick])
      /\ DOMAIN left = D
    BY <1>1, <1>3
<1> HIDE DEF left, expired
<1>8. left[Tick] \in Nat /\ now < left[Tick] /\ left[Tick] <= now + HrPeriod
  <2>1. CASE Tick \in expired
      BY <1>5, <1>6, <1>7, <2>1
  <2>2. CASE Tick \notin expired
    <3>1. active[Tick] # NotSet
        BY <1>1
    <3>2. left[Tick] = active[Tick] /\ now < active[Tick]
        BY <1>1, <1>4, <1>7, <2>2, <3>1
    <3>3. QED
        BY <1>1, <3>2 DEF HrIInv, Armed
  <2>3. QED
      BY <2>1, <2>2
<1>9. \A t \in D : left[t] # NotSet => left[t] \in Nat /\ now < left[t]
  <2> SUFFICES ASSUME NEW t \in D, left[t] # NotSet PROVE left[t] \in Nat /\ now < left[t]
      OBVIOUS
  <2>1. CASE t = Tick
      BY <1>8, <2>1
  <2>2. CASE t # Tick
    <3>1. t \in D \ expired
        BY <1>7, <2>2
    <3>2. QED
        BY <1>4, <1>7, <3>1
  <2>3. QED
      BY <2>1, <2>2
<1>10. set \subseteq Nat /\ left[Tick] \in set
    BY <1>1, <1>8, <1>9
<1>11. event' \in set /\ \A f \in set : event' <= f
  <2>1. \E e \in set : \A f \in set : e <= f
      BY <1>10, LeastNumber
  <2>2. event' = CHOOSE e \in set : \A f \in set : e <= f
      BY <1>2, <1>7 DEF NextEvent
  <2> HIDE DEF set
  <2>3. QED
      BY <2>1, <2>2
<1>12. event' \in Nat /\ now < event' /\ event' <= left[Tick]
    BY <1>9, <1>10, <1>11
<1>13. \A t \in HrTask : left[t] # NotSet => left[t] \in Nat /\ event' <= left[t]
    BY <1>9, <1>11
<1>14. active' \in [D -> {NotSet} \cup Nat]
  <2>1. \A t \in D : left[t] \in {NotSet} \cup Nat
      BY <1>9
  <2>2. left = [t \in D |-> left[t]]
      BY DEF left
  <2>3. QED
      BY <1>2, <2>1, <2>2
<1>15. HrTypeOK'
  <2>1. ticks' \in Nat
      BY <1>1, <1>2, SMTT(30)
  <2>2. event' \in 0 .. HrEnd + HrPeriod /\ now' \in 0 .. HrEnd
      BY <1>1, <1>2, <1>8, <1>12, SMTT(30)
  <2>3. QED
      BY <1>14, <2>1, <2>2 DEF HrTypeOK
<1>16. Armed'
  <2>1. \A t \in HrTask : left[t] # NotSet => event' <= left[t] + HrPeriod
      BY <1>1, <1>12, <1>13, SMTT(30)
  <2>2. QED
      BY <1>1, <1>2, <1>8, <1>12, <2>1, SMTT(30) DEF Armed
<1>17. \A w \in woken' : w[1] <= w[2]
    BY <1>2, <1>3, SMTT(30)
<1>18. ASSUME HrLatency < HrPeriod
       PROVE  active'[Tick] = (ticks' + 1) * HrPeriod
  <2>1. active[Tick] = (ticks + 1) * HrPeriod
      BY <1>18 DEF HrIInv
  <2>2. CASE Tick \in expired
    <3>1. now < active[Tick] + HrPeriod
        BY <1>1, <1>18, SMTT(30) DEF HrIInv, Armed
    <3>2. active[Tick] <= now
        BY <1>3, <2>2
    <3>3. left[Tick] = active[Tick] + HrPeriod
        BY <1>1, <1>7, <2>2, <3>1, <3>2, CatchUpNext
    <3>4. ticks' = ticks + 1
        BY <1>2, <2>2
    <3>5. ((ticks + 1) + 1) * HrPeriod = (ticks + 1) * HrPeriod + HrPeriod
        BY <1>1, SMTT(30)
    <3>6. QED
        BY <1>2, <2>1, <3>3, <3>4, <3>5
  <2>3. CASE Tick \notin expired
      BY <1>1, <1>2, <1>7, <2>1, <2>3, SMTT(30)
  <2>4. QED
      BY <2>2, <2>3
<1>19. QED
    BY <1>15, <1>16, <1>17, <1>18 DEF HrIInv

LEMMA HrStepInv == HrIInv /\ [HrNext]_hrVars => HrIInv'
<1>1. HrIInv /\ UNCHANGED hrVars => HrIInv'
    BY DEF hrVars, HrIInv, HrTypeOK, Armed
<1>2. QED
    BY <1>1, AdvanceStep, SleepStep, InterruptStep DEF HrNext

\* For every period, latency and length of sleep: nobody is woken early, a
\* nap is late by no more than a period and the latency although starting a
\* timer does not arm the event, and no tick is lost.
THEOREM TimersOnTime == HrSpec => []TimersKeepTime
<1>1. HrIInv => TimersKeepTime
  <2> SUFFICES ASSUME HrIInv PROVE TimersKeepTime
      OBVIOUS
  <2>1. /\ now \in Nat /\ event \in Nat /\ ticks \in Nat /\ active[Tick] \in Nat
        /\ HrPeriod \in Nat /\ HrLatency \in Nat
      BY HrAssumption, SMTT(30) DEF HrIInv, HrTypeOK, Armed
  <2>2. \A t \in HrTask : active[t] # NotSet => active[t] \in Nat
      BY DEF HrIInv, HrTypeOK
  <2>3. NapBounded
      BY <2>1, <2>2, SMTT(30) DEF HrIInv, Armed, NapBounded
  <2>4. ASSUME HrLatency < HrPeriod
        PROVE  ticks * HrPeriod <= now /\ now <= (ticks + 1) * HrPeriod + HrLatency
    <3>1. (ticks + 1) * HrPeriod = ticks * HrPeriod + HrPeriod /\ ticks * HrPeriod \in Nat
        BY <2>1, SMTT(30)
    <3>2. active[Tick] = (ticks + 1) * HrPeriod
        BY <2>4 DEF HrIInv
    <3>3. QED
        BY <2>1, <3>1, <3>2, SMTT(30) DEF HrIInv, Armed
  <2>5. QED
      BY <2>3, <2>4 DEF TimersKeepTime, TicksKeepUp, HrIInv
<1>2. QED
    BY <1>1, HrInitInv, HrStepInv, PTL DEF HrSpec

-----------------------------------------------------------------------------
(* The TLB shootdown.                                                      *)

Busy(c) == at[c] \in {"post", "wait"}
Clean(d, v) == ~writable[v] => tlb[d][v] # "rw"
Posted(c, d) == d # c /\ (at[c] = "wait" \/ d < peer[c])
Acked(c, d) == d # c /\ at[c] = "wait" /\ d < peer[c]

\* How far the shootdown of CPU c has come.
Progress(c) ==
    /\ page[c] \in TlVa /\ peer[c] \in Others(c)
    /\ \A v \in TlVa, d \in TlCpu : v < page[c] => Clean(d, v)
    /\ Clean(c, page[c])
    /\ \A d \in TlCpu : Posted(c, d) =>
          /\ flush_va[d] = page[c]
          /\ ipi[d] \/ flush_done[d]
          /\ flush_done[d] => Clean(d, page[c])
    /\ \A d \in TlCpu : Acked(c, d) => flush_done[d]

TlIInv ==
    /\ TlTypeOK
    /\ \A v \in shared : ~writable[v]
    /\ \A c \in TlCpu, v \in shared : tlb[c][v] # "rw"
    /\ \A c \in TlCpu : Busy(c) => Progress(c)

\* The next member of a set of numbers, with none between.
LEMMA NextInFacts ==
    ASSUME NEW S, S \subseteq Nat, NEW i \in Nat \cup {Nobody}
    PROVE  \/ NextIn(S, i) = Nobody /\ \A d \in S : d <= i
           \/ /\ NextIn(S, i) \in S /\ i < NextIn(S, i)
              /\ \A d \in S : d <= i \/ NextIn(S, i) <= d
<1> DEFINE above == {d \in S : d > i}
<1>1. i \in Int
    BY SMTT(30) DEF Nobody
<1>2. CASE above = {}
    BY <1>1, <1>2, SMTT(30) DEF NextIn
<1>3. CASE above # {}
  <2>1. PICK x \in above : \A y \in above : x <= y
      BY <1>3, LeastNumber
  <2>2. NextIn(S, i) = CHOOSE d \in above : \A e \in above : d <= e
      BY <1>3 DEF NextIn
  <2>3. NextIn(S, i) \in above /\ \A e \in above : NextIn(S, i) <= e
      BY <2>1, <2>2
  <2>4. QED
      BY <1>1, <2>3, SMTT(30)
<1>4. QED
    BY <1>2, <1>3

LEMMA BelowAll == \A d \in Nat : ~(d <= Nobody)
BY SMTT(30) DEF Nobody

\* The peers of a CPU, and the one its loops begin with.
LEMMA PeerFacts ==
    ASSUME NEW c \in TlCpu
    PROVE  /\ \A d \in TlCpu : d \in Nat /\ (d \in Others(c) <=> d # c)
           /\ Others(c) \subseteq Nat /\ Others(c) \subseteq TlCpu
           /\ NextIn(Others(c), Nobody) \in Others(c)
           /\ \A d \in Others(c) : ~(d < NextIn(Others(c), Nobody))
<1>1. /\ \A d \in TlCpu : d \in Nat /\ (d \in Others(c) <=> d # c)
      /\ Others(c) \subseteq Nat /\ Others(c) \subseteq TlCpu /\ Others(c) # {}
    BY TlAssumption DEF Others
<1>2. \A d \in Others(c) : ~(d <= Nobody)
    BY <1>1, BelowAll
<1>3. /\ NextIn(Others(c), Nobody) \in Others(c)
      /\ \A d \in Others(c) : d <= Nobody \/ NextIn(Others(c), Nobody) <= d
  <2>1. Nobody \in Nat \cup {Nobody} /\ Others(c) \subseteq Nat
      BY <1>1
  <2>2. PICK d \in Others(c) : ~(d <= Nobody)
      BY <1>1, <1>2
  <2>3. QED
      BY <2>1, <2>2, NextInFacts
<1>4. NextIn(Others(c), Nobody) \in Nat
    BY <1>1, <1>3
<1>5. QED
    BY <1>1, <1>2, <1>3, <1>4, SMTT(30)

LEMMA TlInitInv == TlInit => TlIInv
<1> SUFFICES ASSUME TlInit PROVE TlIInv
    OBVIOUS
<1>1. TlTypeOK
    BY DEF TlInit, TlTypeOK
<1>2. QED
    BY <1>1 DEF TlInit, TlIInv, Busy

\* Threads of the parent: what they cache the tables grant at that time.
LEMMA ThreadStep ==
    ASSUME TlIInv, NEW c \in TlCpu, NEW v \in TlVa,
           Access(c, v) \/ CowBreak(c, v) \/ jlos_hal_paging_switch(c)
    PROVE  TlIInv'
<1>1. /\ writable \in [TlVa -> BOOLEAN] /\ shared \subseteq TlVa
      /\ tlb \in [TlCpu -> [TlVa -> {"none", "ro", "rw"}]]
    BY DEF TlIInv, TlTypeOK
<1>2. /\ UNCHANGED <<at, page, peer, flush_va, flush_done, ipi>>
      /\ shared' \subseteq shared /\ writable' \in [TlVa -> BOOLEAN]
      /\ tlb' \in [TlCpu -> [TlVa -> {"none", "ro", "rw"}]]
      /\ \A u \in TlVa : writable[u] => writable'[u]
      /\ \A u \in shared' : writable'[u] = writable[u]
  <2>1. CASE Access(c, v)
      BY <1>1, <2>1 DEF Access
  <2>2. CASE CowBreak(c, v)
      BY <1>1, <2>2 DEF CowBreak, jlos_hal_paging_flush_tlb
  <2>3. CASE jlos_hal_paging_switch(c)
      BY <1>1, <2>3 DEF jlos_hal_paging_switch
  <2>4. QED
      BY <2>1, <2>2, <2>3
<1>3. \A d \in TlCpu, u \in TlVa : tlb'[d][u] = "rw" => tlb[d][u] = "rw" \/ writable'[u]
  <2>1. CASE Access(c, v)
      BY <1>1, <2>1 DEF Access
  <2>2. CASE CowBreak(c, v)
      BY <1>1, <2>2 DEF CowBreak, jlos_hal_paging_flush_tlb
  <2>3. CASE jlos_hal_paging_switch(c)
      BY <1>1, <2>3 DEF jlos_hal_paging_switch
  <2>4. QED
      BY <2>1, <2>2, <2>3
<1>4. \A d \in TlCpu, u \in TlVa : Clean(d, u) => Clean(d, u)'
    BY <1>2, <1>3 DEF Clean
<1>5. TlTypeOK'
    BY <1>1, <1>2 DEF TlIInv, TlTypeOK
<1>6. ASSUME NEW d \in TlCpu, Busy(d)' PROVE Progress(d)'
  <2>1. Progress(d)
      BY <1>2, <1>6 DEF TlIInv, Busy
  <2>2. QED
      BY <1>2, <1>4, <2>1 DEF Progress, Posted, Acked
<1>7. QED
    BY <1>1, <1>2, <1>3, <1>5, <1>6 DEF TlIInv

LEMMA KernelStep ==
    ASSUME TlIInv, NEW c \in TlCpu, EnterKernel(c) \/ LeaveKernel(c)
    PROVE  TlIInv'
<1>1. /\ UNCHANGED <<writable, shared, tlb, page, peer, flush_va, flush_done, ipi>>
      /\ at \in [TlCpu -> {"user", "kernel", "post", "wait"}]
      /\ at' = [at EXCEPT ![c] = "kernel"] \/ at' = [at EXCEPT ![c] = "user"]
      /\ at[c] \in {"user", "kernel"}
    BY DEF TlIInv, TlTypeOK, EnterKernel, LeaveKernel
<1>2. \A d \in TlCpu : Busy(d)' => Busy(d) /\ at'[d] = at[d]
    BY <1>1 DEF Busy
<1>3. TlTypeOK'
    BY <1>1 DEF TlIInv, TlTypeOK
<1>4. ASSUME NEW d \in TlCpu, Busy(d)' PROVE Progress(d)'
  <2>1. Progress(d) /\ at'[d] = at[d]
      BY <1>2, <1>4 DEF TlIInv
  <2>2. QED
      BY <1>1, <2>1 DEF Progress, Posted, Acked, Clean
<1>5. QED
    BY <1>1, <1>3, <1>4 DEF TlIInv

\* The shootdown of page v begins: the pages before it are done.
LEMMA StartStep ==
    ASSUME TlIInv, OneInitiator', NEW c \in TlCpu, NEW v \in TlVa, StartPage(c, v, tlb),
           writable' \in [TlVa -> BOOLEAN], shared' = shared,
           \A u \in TlVa : writable'[u] => writable[u],
           \A u \in TlVa : u < v => \A d \in TlCpu : ~writable'[u] => tlb[d][u] # "rw",
           UNCHANGED <<flush_va, flush_done, ipi>>
    PROVE  TlIInv'
<1>1. /\ tlb \in [TlCpu -> [TlVa -> {"none", "ro", "rw"}]] /\ shared \subseteq TlVa
      /\ writable \in [TlVa -> BOOLEAN]
      /\ at \in [TlCpu -> {"user", "kernel", "post", "wait"}]
      /\ page \in [TlCpu -> TlVa \cup {Nobody}] /\ peer \in [TlCpu -> TlCpu \cup {Nobody}]
    BY DEF TlIInv, TlTypeOK
<1>2. /\ tlb' = [tlb EXCEPT ![c][v] = "none"] /\ page' = [page EXCEPT ![c] = v]
      /\ peer' = [peer EXCEPT ![c] = NextIn(Others(c), Nobody)]
      /\ at' = [at EXCEPT ![c] = "post"]
    BY DEF StartPage, jlos_hal_paging_flush_tlb
<1>3. /\ tlb' \in [TlCpu -> [TlVa -> {"none", "ro", "rw"}]]
      /\ tlb'[c][v] = "none" /\ \A d \in TlCpu, u \in TlVa : tlb'[d][u] = "rw" => tlb[d][u] = "rw"
    BY <1>1, <1>2
<1>4. /\ NextIn(Others(c), Nobody) \in Others(c) /\ Others(c) \subseteq TlCpu
      /\ \A d \in TlCpu : d # c => ~(d < NextIn(Others(c), Nobody))
    BY PeerFacts
<1>5. /\ at'[c] = "post" /\ page'[c] = v /\ peer'[c] = NextIn(Others(c), Nobody)
      /\ peer' \in [TlCpu -> TlCpu \cup {Nobody}] /\ page' \in [TlCpu -> TlVa \cup {Nobody}]
      /\ at' \in [TlCpu -> {"user", "kernel", "post", "wait"}]
    BY <1>1, <1>2, <1>4
<1>6. TlTypeOK'
    BY <1>1, <1>3, <1>5 DEF TlIInv, TlTypeOK
<1>7. \A d \in TlCpu : Busy(d)' => d = c
    BY <1>5 DEF OneInitiator, Busy
<1>8. \A d \in TlCpu : ~Posted(c, d)' /\ ~Acked(c, d)'
  <2>1. \A d \in TlCpu : d # c => ~(d < peer'[c])
      BY <1>4, <1>5
  <2>2. QED
      BY <1>5, <2>1 DEF Posted, Acked
<1>9. Progress(c)'
    BY <1>3, <1>4, <1>5, <1>8 DEF Progress, Clean
<1>10. \A u \in shared' : ~writable'[u]
    BY <1>1 DEF TlIInv
<1>11. \A d \in TlCpu, u \in shared' : tlb'[d][u] # "rw"
    BY <1>1, <1>3, SMTT(30) DEF TlIInv
<1>12. QED
    BY <1>6, <1>7, <1>9, <1>10, <1>11 DEF TlIInv

LEMMA CowRangeStep ==
    ASSUME TlIInv, OneInitiator', NEW c \in TlCpu, jlos_paging_cow_range(c)
    PROVE  TlIInv'
<1>1. TlVa \subseteq Nat /\ TlVa # {} /\ \A d \in TlVa : ~(d <= Nobody)
    BY TlAssumption, BelowAll DEF jlos_paging_cow_range
<1>2. /\ NextIn(TlVa, Nobody) \in TlVa
      /\ \A u \in TlVa : ~(u < NextIn(TlVa, Nobody))
  <2>1. /\ NextIn(TlVa, Nobody) \in TlVa
        /\ \A u \in TlVa : u <= Nobody \/ NextIn(TlVa, Nobody) <= u
      BY <1>1, NextInFacts
  <2>2. NextIn(TlVa, Nobody) \in Nat
      BY <1>1, <2>1
  <2>3. QED
      BY <1>1, <2>1, <2>2, SMTT(30)
<1>3. /\ StartPage(c, NextIn(TlVa, Nobody), tlb) /\ shared' = shared
      /\ writable' \in [TlVa -> BOOLEAN] /\ \A u \in TlVa : ~writable'[u]
      /\ UNCHANGED <<flush_va, flush_done, ipi>>
    BY DEF jlos_paging_cow_range
<1>4. QED
    BY <1>2, <1>3, StartStep

LEMMA PostStep ==
    ASSUME TlIInv, OneInitiator', NEW c \in TlCpu, PostShootdown(c)
    PROVE  TlIInv'
<1> DEFINE d == peer[c]
           n == NextIn(Others(c), d)
<1>1. Progress(c) /\ d \in Others(c) /\ d \in TlCpu /\ d # c /\ page[c] \in TlVa /\ at[c] = "post"
    BY DEF TlIInv, Busy, PostShootdown, Progress, Others
<1>2. /\ flush_va' = [flush_va EXCEPT ![d] = page[c]]
      /\ flush_done' = [flush_done EXCEPT ![d] = FALSE] /\ ipi' = [ipi EXCEPT ![d] = TRUE]
      /\ at' = [at EXCEPT ![c] = IF n = Nobody THEN "wait" ELSE "post"]
      /\ peer' = [peer EXCEPT ![c] = IF n = Nobody THEN NextIn(Others(c), Nobody) ELSE n]
      /\ UNCHANGED <<writable, shared, tlb, page>>
    BY DEF PostShootdown
<1>3. /\ Others(c) \subseteq Nat /\ Others(c) \subseteq TlCpu /\ d \in Nat
      /\ \A e \in TlCpu : e \in Nat /\ (e \in Others(c) <=> e # c)
    BY <1>1, PeerFacts
<1>4. /\ NextIn(Others(c), Nobody) \in Others(c)
      /\ \A e \in Others(c) : ~(e < NextIn(Others(c), Nobody))
    BY PeerFacts
<1>5. \/ n = Nobody /\ \A e \in Others(c) : e <= d
      \/ n \in Others(c) /\ d < n /\ \A e \in Others(c) : e <= d \/ n <= e
    BY <1>3, NextInFacts
<1>6. n # Nobody => n \in Others(c)
    BY <1>5
<1> HIDE DEF n, d
<1>7. /\ flush_va \in [TlCpu -> TlVa \cup {Nobody}] /\ flush_done \in [TlCpu -> BOOLEAN]
      /\ ipi \in [TlCpu -> BOOLEAN] /\ peer \in [TlCpu -> TlCpu \cup {Nobody}]
      /\ at \in [TlCpu -> {"user", "kernel", "post", "wait"}]
    BY DEF TlIInv, TlTypeOK
<1>8. /\ flush_va'[d] = page[c] /\ ~flush_done'[d] /\ ipi'[d]
      /\ \A e \in TlCpu \ {d} : flush_va'[e] = flush_va[e] /\ flush_done'[e] = flush_done[e] /\ ipi'[e] = ipi[e]
    BY <1>1, <1>2, <1>7
<1>9. \/ n = Nobody /\ at'[c] = "wait" /\ peer'[c] = NextIn(Others(c), Nobody)
      \/ n # Nobody /\ at'[c] = "post" /\ peer'[c] = n
    BY <1>2, <1>7
<1>10. TlTypeOK'
  <2>1. /\ flush_va' \in [TlCpu -> TlVa \cup {Nobody}] /\ flush_done' \in [TlCpu -> BOOLEAN]
        /\ ipi' \in [TlCpu -> BOOLEAN] /\ at' \in [TlCpu -> {"user", "kernel", "post", "wait"}]
      BY <1>1, <1>2, <1>7
  <2>2. peer' \in [TlCpu -> TlCpu \cup {Nobody}]
      BY <1>2, <1>3, <1>4, <1>6, <1>7
  <2>3. QED
      BY <1>2, <2>1, <2>2 DEF TlIInv, TlTypeOK
<1>11. \A e \in TlCpu : Busy(e)' => e = c
    BY <1>9 DEF OneInitiator, Busy
<1>12. \A e \in TlCpu : ~Acked(c, e)'
  <2>1. CASE n = Nobody
    <3>1. \A e \in Others(c) : ~(e < peer'[c])
        BY <1>4, <1>9, <2>1
    <3>2. QED
        BY <1>3, <3>1 DEF Acked
  <2>2. CASE n # Nobody
      BY <1>9, <2>2 DEF Acked
  <2>3. QED
      BY <2>1, <2>2
<1>13. \A e \in TlCpu : Posted(c, e)' => e # c /\ e <= d
  <2>1. CASE n = Nobody
    <3>1. Nobody \notin Others(c)
        BY <1>3, SMTT(30) DEF Nobody
    <3>2. \A e \in Others(c) : e <= d
        BY <1>5, <2>1, <3>1
    <3>3. QED
        BY <1>3, <3>2 DEF Posted
  <2>2. CASE n # Nobody
    <3>1. n \in Nat /\ d \in Nat /\ \A e \in Others(c) : e \in Nat /\ (e <= d \/ n <= e)
        BY <1>3, <1>5, <2>2
    <3>2. \A e \in Others(c) : e < n => e <= d
        BY <3>1, SMTT(30)
    <3>3. QED
        BY <1>3, <1>9, <2>2, <3>2 DEF Posted
  <2>3. QED
      BY <2>1, <2>2
<1>14. \A e \in TlCpu : Posted(c, e)' => e = d \/ Posted(c, e)
    BY <1>1, <1>3, <1>13, SMTT(30) DEF Posted, d
<1>15. Progress(c)'
  <2>1. page'[c] \in TlVa /\ peer'[c] \in Others(c)
      BY <1>1, <1>2, <1>4, <1>6, <1>9
  <2>2. \A e \in TlCpu, u \in TlVa : Clean(e, u)' <=> Clean(e, u)
      BY <1>2 DEF Clean
  <2>3. ASSUME NEW e \in TlCpu, Posted(c, e)'
        PROVE  /\ flush_va'[e] = page'[c]
               /\ ipi'[e] \/ flush_done'[e]
               /\ flush_done'[e] => Clean(e, page[c])'
    <3>1. CASE e = d
        BY <1>2, <1>8, <3>1
    <3>2. CASE e # d
        BY <1>1, <1>2, <1>8, <1>14, <2>2, <2>3, <3>2, SMTT(30) DEF Progress
    <3>3. QED
        BY <3>1, <3>2
  <2>4. QED
      BY <1>1, <1>2, <1>12, <2>1, <2>2, <2>3 DEF Progress
<1>16. QED
    BY <1>2, <1>10, <1>11, <1>15 DEF TlIInv

LEMMA AwaitStep ==
    ASSUME TlIInv, OneInitiator', NEW c \in TlCpu, AwaitShootdown(c)
    PROVE  TlIInv'
<1> DEFINE n == NextIn(Others(c), peer[c])
           v == NextIn(TlVa, page[c])
<1>1. /\ Progress(c) /\ peer[c] \in Others(c) /\ page[c] \in TlVa /\ at[c] = "wait"
      /\ flush_done[peer[c]] /\ UNCHANGED <<writable, flush_va, flush_done, ipi>>
    BY DEF TlIInv, Busy, AwaitShootdown, Progress
<1>2. /\ Others(c) \subseteq Nat /\ peer[c] \in Nat /\ TlVa \subseteq Nat /\ page[c] \in Nat
    BY <1>1, TlAssumption DEF Others
<1>3. \/ n = Nobody /\ \A e \in Others(c) : e <= peer[c]
      \/ n \in Others(c) /\ peer[c] < n /\ \A e \in Others(c) : e <= peer[c] \/ n <= e
    BY <1>2, NextInFacts
<1>4. \/ v = Nobody /\ \A u \in TlVa : u <= page[c]
      \/ v \in TlVa /\ page[c] < v /\ \A u \in TlVa : u <= page[c] \/ v <= u
    BY <1>2, NextInFacts
<1>5. \/ n # Nobody /\ peer' = [peer EXCEPT ![c] = n] /\ UNCHANGED <<at, page, tlb, shared>>
      \/ n = Nobody /\ v # Nobody /\ StartPage(c, v, tlb) /\ UNCHANGED shared
      \/ /\ n = Nobody /\ v = Nobody /\ at' = [at EXCEPT ![c] = "user"]
         /\ shared' = {u \in TlVa : ~writable[u]} /\ UNCHANGED tlb
         /\ page' = [page EXCEPT ![c] = Nobody] /\ peer' = [peer EXCEPT ![c] = Nobody]
    BY DEF AwaitShootdown
<1> HIDE DEF n, v
<1>6. /\ peer \in [TlCpu -> TlCpu \cup {Nobody}] /\ page \in [TlCpu -> TlVa \cup {Nobody}]
      /\ at \in [TlCpu -> {"user", "kernel", "post", "wait"}] /\ writable \in [TlVa -> BOOLEAN]
    BY DEF TlIInv, TlTypeOK
<1>7. \A e \in Others(c) : e <= peer[c] => flush_done[e] /\ Clean(e, page[c])
  <2> SUFFICES ASSUME NEW e \in Others(c), e <= peer[c] PROVE flush_done[e] /\ Clean(e, page[c])
      OBVIOUS
  <2>1. e \in TlCpu /\ e # c /\ (e = peer[c] \/ e < peer[c])
      BY <1>2, SMTT(30) DEF Others
  <2>2. flush_done[e]
      BY <1>1, <2>1 DEF Progress, Acked
  <2>3. QED
      BY <1>1, <2>1, <2>2 DEF Progress, Posted
<1>8. CASE n # Nobody /\ peer' = [peer EXCEPT ![c] = n] /\ UNCHANGED <<at, page, tlb, shared>>
  <2>1. peer'[c] = n /\ n \in Others(c) /\ n \in TlCpu
      BY <1>3, <1>6, <1>8 DEF Others
  <2>2. TlTypeOK'
      BY <1>1, <1>6, <1>8, <2>1 DEF TlIInv, TlTypeOK
  <2>3. \A e \in TlCpu : Busy(e)' => e = c
      BY <1>1, <1>8 DEF OneInitiator, Busy
  <2>4. \A e \in TlCpu : Acked(c, e)' => flush_done[e]
    <3>1. \A e \in Others(c) : e < n => e <= peer[c]
        BY <1>2, <1>3, <1>8, SMTT(30)
    <3>2. QED
        BY <1>7, <2>1, <3>1 DEF Acked, Others
  <2>5. Progress(c)'
      BY <1>1, <1>8, <2>1, <2>4 DEF Progress, Posted, Clean
  <2>6. QED
      BY <1>1, <1>8, <2>2, <2>3, <2>5 DEF TlIInv
<1>9. ASSUME n = Nobody
      PROVE  \A u \in TlVa, e \in TlCpu : u <= page[c] => Clean(e, u)
  <2> SUFFICES ASSUME NEW u \in TlVa, NEW e \in TlCpu, u <= page[c] PROVE Clean(e, u)
      OBVIOUS
  <2>1. u < page[c] \/ u = page[c]
      BY <1>2, SMTT(30)
  <2>2. \A d \in Others(c) : d <= peer[c]
      BY <1>3, <1>9, <1>2, SMTT(30) DEF Nobody
  <2>3. Clean(e, page[c])
      BY <1>1, <1>7, <2>2 DEF Progress, Others
  <2>4. QED
      BY <1>1, <2>1, <2>3 DEF Progress
<1>10. CASE n = Nobody /\ v # Nobody /\ StartPage(c, v, tlb) /\ UNCHANGED shared
  <2>1. v \in TlVa /\ \A u \in TlVa : u < v => u <= page[c]
    <3>1. v \in TlVa /\ \A u \in TlVa : u <= page[c] \/ v <= u
        BY <1>4, <1>10
    <3>2. v \in Nat /\ \A u \in TlVa : u \in Nat
        BY <1>2, <3>1
    <3>3. QED
        BY <3>1, <3>2, SMTT(30)
  <2>2. \A u \in TlVa : u < v => \A d \in TlCpu : ~writable'[u] => tlb[d][u] # "rw"
      BY <1>1, <1>9, <1>10, <2>1 DEF Clean
  <2>3. QED
      BY <1>1, <1>6, <1>10, <2>1, <2>2, StartStep
<1>11. CASE /\ n = Nobody /\ v = Nobody /\ at' = [at EXCEPT ![c] = "user"]
            /\ shared' = {u \in TlVa : ~writable[u]} /\ UNCHANGED tlb
            /\ page' = [page EXCEPT ![c] = Nobody] /\ peer' = [peer EXCEPT ![c] = Nobody]
  <2>1. \A u \in TlVa : u <= page[c]
      BY <1>2, <1>4, <1>11, SMTT(30) DEF Nobody
  <2>2. \A d \in TlCpu, u \in shared' : tlb[d][u] # "rw"
      BY <1>9, <1>11, <2>1 DEF Clean
  <2>3. TlTypeOK'
      BY <1>1, <1>6, <1>11 DEF TlIInv, TlTypeOK
  <2>4. ASSUME NEW e \in TlCpu, Busy(e)' PROVE Progress(e)'
    <3>1. e # c /\ Busy(e)
        BY <1>6, <1>11, <2>4 DEF Busy
    <3>2. at'[e] = at[e] /\ page'[e] = page[e] /\ peer'[e] = peer[e]
        BY <1>6, <1>11, <3>1
    <3>3. Progress(e)
        BY <3>1 DEF TlIInv
    <3>4. QED
        BY <1>1, <1>11, <3>2, <3>3, SMTT(30) DEF Progress, Posted, Acked, Clean
  <2>5. QED
      BY <1>1, <1>11, <2>2, <2>3, <2>4 DEF TlIInv
<1>12. QED
    BY <1>5, <1>8, <1>10, <1>11

LEMMA HandleStep ==
    ASSUME TlIInv, NEW c \in TlCpu, jlos_irq_manager_do_handle(c)
    PROVE  TlIInv'
<1>1. /\ tlb \in [TlCpu -> [TlVa -> {"none", "ro", "rw"}]] /\ shared \subseteq TlVa
      /\ flush_done \in [TlCpu -> BOOLEAN] /\ ipi \in [TlCpu -> BOOLEAN]
    BY DEF TlIInv, TlTypeOK
<1>2. /\ tlb' = [tlb EXCEPT ![c][flush_va[c]] = "none"]
      /\ flush_done' = [flush_done EXCEPT ![c] = TRUE] /\ ipi' = [ipi EXCEPT ![c] = FALSE]
      /\ UNCHANGED <<writable, shared, at, page, peer, flush_va>> /\ at[c] = "user"
    BY DEF jlos_irq_manager_do_handle, jlos_hal_paging_flush_tlb, IrqOn
<1>3. /\ tlb' \in [TlCpu -> [TlVa -> {"none", "ro", "rw"}]]
      /\ \A d \in TlCpu, u \in TlVa : tlb'[d][u] = "rw" => tlb[d][u] = "rw"
      /\ flush_va[c] \in TlVa => tlb'[c][flush_va[c]] = "none"
    BY <1>1, <1>2
<1>4. /\ flush_done'[c] /\ \A d \in TlCpu \ {c} : flush_done'[d] = flush_done[d] /\ ipi'[d] = ipi[d]
      /\ flush_done' \in [TlCpu -> BOOLEAN] /\ ipi' \in [TlCpu -> BOOLEAN]
    BY <1>1, <1>2
<1>5. \A d \in TlCpu, u \in TlVa : Clean(d, u) => Clean(d, u)'
    BY <1>2, <1>3 DEF Clean
<1>6. TlTypeOK'
    BY <1>2, <1>3, <1>4 DEF TlIInv, TlTypeOK
<1>7. ASSUME NEW d \in TlCpu, Busy(d)' PROVE Progress(d)'
  <2>1. Progress(d) /\ d # c
      BY <1>2, <1>7 DEF TlIInv, Busy
  <2>2. page[d] \in TlVa
      BY <2>1 DEF Progress
  <2>3. \A e \in TlCpu : Posted(d, e)' <=> Posted(d, e)
      BY <1>2 DEF Posted
  <2>4. \A e \in TlCpu : Acked(d, e)' <=> Acked(d, e)
      BY <1>2 DEF Acked
  <2>5. ASSUME NEW e \in TlCpu, Posted(d, e)
        PROVE  /\ flush_va[e] = page[d]
               /\ ipi'[e] \/ flush_done'[e]
               /\ flush_done'[e] => Clean(e, page[d])'
    <3>1. flush_va[e] = page[d] /\ (ipi[e] \/ flush_done[e]) /\ (flush_done[e] => Clean(e, page[d]))
        BY <2>1, <2>5 DEF Progress
    <3>2. CASE e = c
        BY <1>2, <1>3, <1>4, <2>2, <3>1, <3>2 DEF Clean
    <3>3. CASE e # c
        BY <1>2, <1>4, <1>5, <2>2, <3>1, <3>3
    <3>4. QED
        BY <3>2, <3>3
  <2>6. \A e \in TlCpu : Acked(d, e) => flush_done'[e]
      BY <1>4, <2>1 DEF Progress
  <2>7. QED
      BY <1>2, <1>5, <2>1, <2>2, <2>3, <2>4, <2>5, <2>6 DEF Progress
<1>8. QED
    BY <1>1, <1>2, <1>3, <1>6, <1>7, SMTT(30) DEF TlIInv

LEMMA TlStepInv == TlIInv /\ OneInitiator' /\ [TlNext]_tlVars => TlIInv'
<1> SUFFICES ASSUME TlIInv, OneInitiator', [TlNext]_tlVars PROVE TlIInv'
    OBVIOUS
<1>1. CASE UNCHANGED tlVars
    BY <1>1, SMTT(30) DEF tlVars, TlIInv, TlTypeOK, Busy, Progress, Posted, Acked, Clean
<1>2. ASSUME NEW c \in TlCpu, jlos_hal_paging_switch(c) PROVE TlIInv'
  <2>1. CASE TlVa = {}
    <3>1. tlb' \in [TlCpu -> [TlVa -> {"none", "ro", "rw"}]]
        BY <1>2 DEF jlos_hal_paging_switch, TlIInv, TlTypeOK
    <3>2. QED
        BY <1>2, <2>1, <3>1 DEF jlos_hal_paging_switch, TlIInv, TlTypeOK, Busy, Progress
  <2>2. CASE TlVa # {}
      BY <1>2, <2>2, ThreadStep
  <2>3. QED
      BY <2>1, <2>2
<1>3. QED
    BY <1>1, <1>2, ThreadStep, KernelStep, CowRangeStep, PostStep, AwaitStep, HandleStep DEF TlNext

\* As long as one CPU at a time shoots down, no CPU can write a page that a
\* child shares, for any number of CPUs and pages, although threads of the
\* parent run and fault on the other CPUs all the time.
THEOREM ShootdownSafe == TlSpec /\ []OneInitiator => []ShotDown
<1>1. TlIInv => ShotDown
    BY DEF TlIInv, ShotDown, CowShotDown
<1>2. QED
    BY <1>1, TlInitInv, TlStepInv, PTL DEF TlSpec

\* With fork confined to one CPU there is one initiator.
THEOREM OneForker ==
    ASSUME NEW f, TlForkers = {f}
    PROVE  TlSpec => []OneInitiator
<1> DEFINE I == /\ at \in [TlCpu -> {"user", "kernel", "post", "wait"}]
                /\ \A c \in TlCpu : Busy(c) => c = f
<1>1. TlInit => I
    BY DEF TlInit, Busy
<1>2. I /\ [TlNext]_tlVars => I'
  <2> SUFFICES ASSUME I, [TlNext]_tlVars PROVE I'
      OBVIOUS
  <2>1. CASE UNCHANGED at
      BY <2>1 DEF Busy
  <2>2. ASSUME NEW c \in TlCpu, NEW l \in {"user", "kernel", "post", "wait"},
               at' = [at EXCEPT ![c] = l],
               l \in {"post", "wait"} => at[c] \in {"post", "wait"} \/ c \in TlForkers
        PROVE  I'
      BY <2>2 DEF Busy
  <2>3. ASSUME NEW c \in TlCpu, EnterKernel(c) \/ LeaveKernel(c) PROVE I'
      BY <2>2, <2>3 DEF EnterKernel, LeaveKernel
  <2>4. ASSUME NEW c \in TlCpu, jlos_paging_cow_range(c) \/ PostShootdown(c) PROVE I'
      BY <2>2, <2>4 DEF jlos_paging_cow_range, PostShootdown, StartPage
  <2>5. ASSUME NEW c \in TlCpu, AwaitShootdown(c) PROVE I'
      BY <2>1, <2>2, <2>5 DEF AwaitShootdown, StartPage
  <2>6. ASSUME NEW c \in TlCpu, jlos_irq_manager_do_handle(c) \/ jlos_hal_paging_switch(c) PROVE I'
      BY <2>1, <2>6 DEF jlos_irq_manager_do_handle, jlos_hal_paging_switch
  <2>7. ASSUME NEW c \in TlCpu, NEW v \in TlVa, Access(c, v) \/ CowBreak(c, v) PROVE I'
      BY <2>1, <2>7 DEF Access, CowBreak
  <2>8. QED
      BY <2>1, <2>3, <2>4, <2>5, <2>6, <2>7 DEF TlNext, tlVars
<1>3. I => OneInitiator
    BY DEF OneInitiator, Busy
<1>4. QED
    BY <1>1, <1>2, <1>3, PTL DEF TlSpec
=============================================================================
