------------------------------ MODULE PageFrame ------------------------------
(***************************************************************************)
(* kernel/page_frame_allocator.c: buddy lists, per-CPU caches of single    *)
(* frames, reference counts and the free-frame counter.                    *)
(*                                                                         *)
(* Everything done under s_buddy_lock is one step.  A release has two: the *)
(* compare-and-swap that takes the last reference, and what follows it on  *)
(* the same CPU.  The lists are kept in order, most recently freed first.  *)
(***************************************************************************)
EXTENDS Integers, Sequences, FiniteSets, Folds, SequencesExt, FiniteSetsExt

CONSTANTS PfCpu,
          PfTotal,      \* s_total_frames
          PfMaxOrder,   \* JLOS_PFA_MAX_ORDER
          PfBatch,      \* JLOS_PFA_PERCPU_BATCH
          PfHigh,       \* JLOS_PFA_PERCPU_HIGN
          PfMaxRef,     \* bound on the references that callers take
          PfMaxFree,    \* bound on s_free_frames, which alloc_n may overstate
          PfReserved,   \* frames reserved at boot
          PfSizes       \* sizes callers pass to jlos_page_frame_alloc_n

Frame == 0 .. PfTotal - 1
Invalid == PfMaxOrder + 1      \* JLOS_PFA_BUDDY_ORDER_INVALID

VARIABLES buddy,      \* area: s_free_area; order, occ: fields of s_pages;
                      \* free: s_free_frames; bad: an assertion has halted a CPU
          refcount,
          percpu,     \* s_percpu[c].free_list
          release,    \* what CPU c has dropped to zero and not yet put away
          blocks      \* the <<head, n>> that callers of alloc_n hold

pfVars == <<buddy, refcount, percpu, release, blocks>>

order_to_frames(o) == 2^o
frames_to_order(n) == CHOOSE o \in 0 .. n : 2^o >= n /\ \A p \in 0 .. o - 1 : 2^p < n
Aligned(f, o) == f % 2^o = 0
\* frame ^ order_to_frames(order), for an aligned frame.
BuddyOf(f, o) == IF (f \div 2^o) % 2 = 0 THEN f + 2^o ELSE f - 2^o

\* The buddy is a free block of the same order and the merged block fits.
buddy_mergeable(b, f, o) ==
    LET y == BuddyOf(f, o) IN
    /\ y < PfTotal
    /\ Min({y, f}) + 2^(o + 1) <= PfTotal
    /\ b.order[y] = o /\ y \notin b.occ

buddy_insert(b, f, o) ==
    [b EXCEPT !.area[o] = <<f>> \o @,
              !.order[f] = o,
              !.bad = @ \/ f + 2^o > PfTotal \/ ~Aligned(f, o) \/ f \in b.occ
                        \/ b.order[f] \notin {Invalid, o}]

buddy_remove(b, f, o) ==
    [b EXCEPT !.area[o] = Remove(@, f),
              !.order[f] = Invalid,
              !.bad = @ \/ f + 2^o > PfTotal \/ b.order[f] # o
                        \/ ~Contains(b.area[o], f)]

\* The upper halves go back, largest first, until the block has target order.
order_split(b, f, o, target) ==
    FoldLeft(LAMBDA x, k : buddy_insert(x, f + 2^(o - k), o - k),
             b, [k \in 1 .. o - target |-> k])

\* Merges upwards as long as the buddy is free.
buddy_free_nolock(b, f, o) ==
    LET Up(x, k) ==
            IF x.o = k /\ buddy_mergeable(x.b, x.f, k)
            THEN [b |-> buddy_remove(x.b, BuddyOf(x.f, k), k),
                  f |-> Min({x.f, BuddyOf(x.f, k)}), o |-> k + 1]
            ELSE x
        top == FoldLeft(Up, [b |-> b, f |-> f, o |-> o],
                        [k \in 1 .. PfMaxOrder |-> k - 1])
    IN  [buddy_insert(top.b, top.f, top.o) EXCEPT !.free = @ + order_to_frames(o)]

\* Clears flags and order of the frames, block by block, and frees each block.
buddy_free_range(b, base, len) ==
    LET Block(x, i) ==
            IF x.len = 0 THEN x ELSE
            LET o == Max({p \in 0 .. x.len : 2^p <= x.len /\ Aligned(x.base, p)})
                S == x.base .. x.base + 2^o - 1
                c == [x.b EXCEPT !.occ = @ \ S,
                                 !.order = [f \in Frame |-> IF f \in S THEN Invalid ELSE @[f]]]
            IN  [b |-> buddy_free_nolock(c, x.base, o),
                 base |-> x.base + 2^o, len |-> x.len - 2^o]
    IN  FoldLeft(Block, [b |-> b, base |-> base, len |-> len], [i \in 1 .. len |-> i]).b

NonEmpty(b, o) == {p \in o .. PfMaxOrder : b.area[p] # <<>>}   \* s_free_order_bitmap

\* Takes the first block of the smallest order that is at least o.
TakeBlock(b, o) ==
    LET p == Min(NonEmpty(b, o))
        f == Head(b.area[p])
    IN  [f |-> f, b |-> order_split(buddy_remove(b, f, p), f, p, o)]

percpu_refill(b, cache) ==
    LET One(x, i) ==
            IF Len(x.c) >= PfBatch \/ NonEmpty(x.b, 0) = {} THEN x
            ELSE LET t == TakeBlock(x.b, 0)
                 IN  [b |-> [t.b EXCEPT !.free = @ - 1], c |-> <<t.f>> \o x.c]
    IN  FoldLeft(One, [b |-> b, c |-> cache], [i \in 1 .. PfBatch |-> i])

percpu_drain(b, cache) ==
    LET n == Min({PfBatch, Len(cache)})
    IN  [b |-> FoldLeft(LAMBDA x, f : buddy_free_nolock(x, f, 0), b, SubSeq(cache, 1, n)),
         c |-> SubSeq(cache, n + 1, Len(cache))]

----------------------------------------------------------------------------
\* jlos_page_frame_allocator_init: free frames enter at order 0, then pairs
\* are merged layer by layer.
BootBuddy ==
    LET empty == [area |-> [o \in 0 .. PfMaxOrder |-> <<>>],
                  order |-> [f \in Frame |-> Invalid],
                  occ |-> PfReserved, free |-> 0, bad |-> FALSE]
        singles == FoldLeft(LAMBDA b, f : IF f - 1 \in b.occ THEN b ELSE buddy_insert(b, f - 1, 0),
                            empty, [f \in 1 .. PfTotal |-> f])
        Pair(b, f, o) ==
            IF /\ f + 2^(o + 1) <= PfTotal /\ Aligned(f, o + 1)
               /\ b.order[f] = o /\ buddy_mergeable(b, f, o)
            THEN buddy_insert(buddy_remove(buddy_remove(b, BuddyOf(f, o), o), f, o), f, o + 1)
            ELSE b
        Layer(b, o) == FoldLeft(LAMBDA x, f : Pair(x, f - 1, o), b, [f \in 1 .. PfTotal |-> f])
        merged == FoldLeft(LAMBDA b, o : Layer(b, o - 1), singles, [o \in 1 .. PfMaxOrder |-> o])
    IN  [merged EXCEPT !.free = PfTotal - Cardinality(PfReserved)]

Idle == [head |-> 0, n |-> 0, frames |-> {}]

PfInit ==
    /\ buddy = BootBuddy
    /\ refcount = [f \in Frame |-> IF f \in PfReserved THEN 1 ELSE 0]
    /\ percpu = [c \in PfCpu |-> <<>>]
    /\ release = [c \in PfCpu |-> Idle]
    /\ blocks = {}

BlockFrames(k) == k[1] .. k[1] + k[2] - 1
Single(f) ==       \* a frame that a caller holds by itself
    f \notin PfReserved /\ refcount[f] > 0 /\ \A k \in blocks : f \notin BlockFrames(k)

\* jlos_page_frame_malloc, interrupts off.
jlos_page_frame_malloc(c) ==
    /\ release[c] = Idle
    /\ LET x == IF percpu[c] = <<>> THEN percpu_refill(buddy, <<>>)
                ELSE [b |-> buddy, c |-> percpu[c]]
       IN  IF x.c = <<>> THEN UNCHANGED <<buddy, refcount, percpu>>
           ELSE /\ percpu' = [percpu EXCEPT ![c] = Tail(x.c)]
                /\ buddy' = [x.b EXCEPT !.occ = @ \cup {Head(x.c)}]
                /\ refcount' = [refcount EXCEPT ![Head(x.c)] = 1]
    /\ UNCHANGED <<release, blocks>>

\* The callers share single frames only (copy-on-write, page cache).
jlos_page_frame_refcount_inc(f) ==
    /\ Single(f) /\ refcount[f] < PfMaxRef
    /\ refcount' = [refcount EXCEPT ![f] = @ + 1]
    /\ UNCHANGED <<buddy, percpu, release, blocks>>

\* jlos_page_frame_refcount_dec up to the compare-and-swap; also jlos_page_frame_free.
jlos_page_frame_refcount_dec(c, f) ==
    /\ release[c] = Idle /\ Single(f)
    /\ refcount' = [refcount EXCEPT ![f] = @ - 1]
    /\ release' = IF refcount[f] = 1
                  THEN [release EXCEPT ![c] = [head |-> f, n |-> 0, frames |-> {f}]]
                  ELSE release
    /\ UNCHANGED <<buddy, percpu, blocks>>

\* The rest of jlos_page_frame_refcount_dec: into this CPU's cache.
ReleaseToCache(c) ==
    /\ release[c] # Idle /\ release[c].n = 0
    /\ LET f == release[c].head
           b == [buddy EXCEPT !.occ = @ \ {f}, !.order[f] = Invalid]
           cache == <<f>> \o percpu[c]
           x == IF Len(cache) > PfHigh THEN percpu_drain(b, cache) ELSE [b |-> b, c |-> cache]
       IN  buddy' = x.b /\ percpu' = [percpu EXCEPT ![c] = x.c]
    /\ release' = [release EXCEPT ![c] = Idle]
    /\ UNCHANGED <<refcount, blocks>>

\* Fault: the frames beyond n are not given back.
jlos_page_frame_alloc_n_KeepsExtra(c, n) ==
    /\ release[c] = Idle
    /\ NonEmpty(buddy, frames_to_order(n)) # {} /\ buddy.free <= PfMaxFree
    /\ LET t == TakeBlock(buddy, frames_to_order(n))
           S == t.f .. t.f + n - 1
       IN  /\ buddy' = [t.b EXCEPT !.occ = @ \cup S, !.order[t.f] = frames_to_order(n), !.free = @ - n]
           /\ refcount' = [f \in Frame |-> IF f \in S THEN 1 ELSE refcount[f]]
           /\ blocks' = blocks \cup {<<t.f, n>>}
    /\ UNCHANGED <<percpu, release>>

\* A block of the next power of two, whose frames beyond n go back.
jlos_page_frame_alloc_n(c, n) ==
    /\ release[c] = Idle
    /\ NonEmpty(buddy, frames_to_order(n)) # {} /\ buddy.free <= PfMaxFree
    /\ LET o == frames_to_order(n)
           t == TakeBlock(buddy, o)
           b == buddy_free_range(t.b, t.f + n, 2^o - n)
           S == t.f .. t.f + n - 1
       IN  /\ buddy' = [b EXCEPT !.occ = @ \cup S,
                                 !.order = [f \in Frame |-> IF f = t.f THEN o
                                                            ELSE IF f \in S THEN Invalid ELSE @[f]],
                                 !.free = @ - n]
           /\ refcount' = [f \in Frame |-> IF f \in S THEN 1 ELSE refcount[f]]
           /\ blocks' = blocks \cup {<<t.f, n>>}
    /\ UNCHANGED <<percpu, release>>

\* jlos_page_frame_free_n up to the lock: one reference of every frame.
jlos_page_frame_free_n(c, k) ==
    /\ release[c] = Idle /\ k \in blocks
    /\ blocks' = blocks \ {k}
    /\ refcount' = [f \in Frame |-> IF f \in BlockFrames(k) THEN refcount[f] - 1 ELSE refcount[f]]
    /\ LET last == {f \in BlockFrames(k) : refcount[f] = 1}
       IN  release' = IF last = {} THEN release
                      ELSE [release EXCEPT ![c] = [head |-> k[1], n |-> k[2], frames |-> last]]
    /\ UNCHANGED <<buddy, percpu>>

\* The rest of jlos_page_frame_free_n: maximal runs of the frames collected.
ReleaseRange(c) ==
    /\ release[c].n > 0
    /\ LET r == release[c]
           starts == {f \in r.frames : f - 1 \notin r.frames}
           RunLen(f) == Min({n \in 1 .. PfTotal : f + n \notin r.frames})
           over == buddy.order[r.head] # Invalid /\ 2^buddy.order[r.head] < r.n
       IN  buddy' = [FoldLeft(LAMBDA b, f : buddy_free_range(b, f, RunLen(f)),
                              buddy, SetToSortSeq(starts, <)) EXCEPT !.bad = @ \/ over]
    /\ release' = [release EXCEPT ![c] = Idle]
    /\ UNCHANGED <<refcount, percpu, blocks>>

PfNext ==
    \/ \E c \in PfCpu : \/ jlos_page_frame_malloc(c)
                        \/ \E f \in Frame : jlos_page_frame_refcount_dec(c, f)
                        \/ ReleaseToCache(c)
                        \/ \E n \in PfSizes : jlos_page_frame_alloc_n(c, n)
                        \/ \E k \in blocks : jlos_page_frame_free_n(c, k)
                        \/ ReleaseRange(c)
    \/ \E f \in Frame : jlos_page_frame_refcount_inc(f)

PfSpec == PfInit /\ [][PfNext]_pfVars

----------------------------------------------------------------------------
ListedBlocks == UNION {{<<f, 2^o>> : f \in ToSet(buddy.area[o])} : o \in 0 .. PfMaxOrder}
Listed == UNION {BlockFrames(k) : k \in ListedBlocks}
Cached(c) == ToSet(percpu[c])
InRelease(c) == release[c].frames

\* The state is well-formed.
PfTypeOK ==
    /\ buddy.order \in [Frame -> 0 .. Invalid] /\ buddy.occ \subseteq Frame
    /\ refcount \in [Frame -> 0 .. PfMaxRef]
    /\ \A c \in PfCpu : Len(percpu[c]) <= PfHigh /\ Cached(c) \subseteq Frame

\* A frame is in exactly one place: a free block, one CPU's cache, on its way
\* back on one CPU, or referenced.  No frame is lost and none is handed out
\* twice, whatever the CPUs interleave.
FrameInOnePlace ==
    \A f \in Frame :
        1 = Quantify({<<"list", k>> : k \in ListedBlocks}, LAMBDA p : f \in BlockFrames(p[2]))
            + Quantify(PfCpu, LAMBDA c : f \in Cached(c))
            + Quantify(PfCpu, LAMBDA c : f \in InRelease(c))
            + (IF refcount[f] > 0 THEN 1 ELSE 0)

\* No consistency assertion of buddy_insert, buddy_remove or free_n ever fires.
NoPfaHalt == ~buddy.bad

\* Free buddies are always merged: a freed frame never leaves two halves of a
\* larger block side by side, so long allocations do not fail needlessly.
BuddiesMerged ==
    \A o \in 0 .. PfMaxOrder - 1 : \A f \in ToSet(buddy.area[o]) :
        BuddyOf(f, o) \notin ToSet(buddy.area[o])

\* jlos_page_frame_get_free never reports less memory than there is.
FreeNotUnderstated == buddy.free >= Cardinality(Listed)
=============================================================================
