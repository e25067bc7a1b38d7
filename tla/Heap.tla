-------------------------------- MODULE Heap --------------------------------
(***************************************************************************)
(* The kernel heap of kernel/memory_manager.c: chunks in address order,    *)
(* free chunks in lists by size class, and expansion by whole pages.       *)
(* Sizes and addresses are in units of JLOS_MM_MIN_ALLOC bytes.            *)
(*                                                                         *)
(* Each region under s_heap_lock is a step; jlos_memory_manager_malloc     *)
(* drops the lock around jlos_memory_manager_expand_heap, which reads      *)
(* heap_current without it.                                                *)
(***************************************************************************)
EXTENDS Integers, Sequences, FiniteSets, SequencesExt, FiniteSetsExt

CONSTANTS HpThread,
          HpHeader,     \* sizeof(jlos_memory_chunk_t)
          HpPageSize,
          HpInitial,    \* size of the heap at boot
          HpMaxPages,   \* bound on the pages the heap may grow by
          HpSizes       \* sizes that callers ask for

VARIABLES chunks,        \* chunk_head: records addr, size, allocated
          class_head,    \* lists of chunk addresses, most recent first
          heap_current,
          grown,         \* pages the heap has grown by
          call,          \* where each thread is in malloc
          held           \* <<chunk, size asked for>> that callers hold

hpVars == <<chunks, class_head, heap_current, grown, call, held>>

Ceil(a, b) == (a + b - 1) \div b          \* JLOS_EXCEPT_CEIL
Log2Up(n) == CHOOSE k \in 0 .. n : 2^k >= n /\ (k = 0 \/ 2^(k - 1) < n)
MaxClass == Log2Up(HpInitial - HpHeader)  \* max_class of mm_init
mm_size_to_class(n) == Min({Log2Up(n), MaxClass})

Chunk(a, n, used) == [addr |-> a, size |-> n, allocated |-> used]
IndexOf(s, a) == CHOOSE i \in DOMAIN s : s[i].addr = a
At(s, a) == s[IndexOf(s, a)]

mm_class_add(k, c) == [k EXCEPT ![mm_size_to_class(c.size)] = <<c.addr>> \o @]

mm_class_remove_chunk(k, c) == [k EXCEPT ![mm_size_to_class(c.size)] = Remove(@, c.addr)]
mm_bitmap_find(n) == {k \in n .. MaxClass : class_head[k] # <<>>}

NoCall == [pc |-> "out", size |-> 0, addr |-> 0]

HpInit ==
    LET first == Chunk(0, HpInitial - HpHeader, FALSE) IN
    /\ chunks = <<first>>
    /\ class_head = mm_class_add([k \in 0 .. MaxClass |-> <<>>], first)
    /\ heap_current = HpInitial
    /\ grown = 0
    /\ call = [t \in HpThread |-> NoCall]
    /\ held = {}

\* The tail of jlos_memory_manager_malloc: take the chunk at a, split it if the
\* rest can hold a chunk, and mark it allocated.
TakeChunk(t, k, a, n) ==
    LET i == IndexOf(chunks, a)
        c == chunks[i]
        rest == Chunk(a + HpHeader + n, c.size - n - HpHeader, FALSE)
        split == c.size >= n + HpHeader + 1
    IN  /\ chunks' = IF split
                     THEN InsertAt([chunks EXCEPT ![i] = Chunk(a, n, TRUE)], i + 1, rest)
                     ELSE [chunks EXCEPT ![i].allocated = TRUE]
        /\ class_head' = IF split THEN mm_class_add(k, rest) ELSE k
        /\ held' = held \cup {<<a, n>>}
        /\ call' = [call EXCEPT ![t] = NoCall]

\* jlos_memory_manager_malloc up to the unlock.
Malloc(t, n) ==
    /\ call[t] = NoCall
    /\ LET found == mm_bitmap_find(mm_size_to_class(n))
           k == Min(found) IN
       IF found # {}
       THEN /\ TakeChunk(t, [class_head EXCEPT ![k] = Tail(@)], Head(class_head[k]), n)
            /\ UNCHANGED <<heap_current, grown>>
       ELSE /\ call' = [call EXCEPT ![t] = [pc |-> "expand", size |-> n, addr |-> heap_current]]
            /\ UNCHANGED <<chunks, class_head, heap_current, grown, held>>

\* jlos_memory_manager_expand_heap gets its frames and mappings, or fails.
ExpandFails(t) ==
    /\ call[t].pc = "expand"
    /\ call' = [call EXCEPT ![t] = NoCall]
    /\ UNCHANGED <<chunks, class_head, heap_current, grown, held>>

\* Fault: a free last chunk is left as it is.
expand_heap_StaleTail(t) ==
    LET pages == Ceil(call[t].size, HpPageSize)
        bytes == pages * HpPageSize
        grownC == Chunk(call[t].addr, bytes - HpHeader, FALSE)
    IN  /\ call[t].pc = "expand" /\ grown + pages <= HpMaxPages
        /\ chunks' = Append(chunks, grownC)
        /\ class_head' = mm_class_add(class_head, grownC)
        /\ heap_current' = heap_current + bytes
        /\ grown' = grown + pages
        /\ call' = [call EXCEPT ![t] = [@ EXCEPT !.pc = "grown", !.addr = grownC.addr]]
        /\ UNCHANGED held

\* The new pages join the last chunk if it is free, else become a chunk.
expand_heap(t) ==
    LET pages == Ceil(call[t].size, HpPageSize)
        bytes == pages * HpPageSize
        tail == Last(chunks)
        merge == ~tail.allocated
        new == IF merge THEN Chunk(tail.addr, tail.size + bytes, FALSE)
               ELSE Chunk(call[t].addr, bytes - HpHeader, FALSE)
    IN  /\ call[t].pc = "expand" /\ grown + pages <= HpMaxPages
        /\ chunks' = IF merge THEN Append(Front(chunks), new) ELSE Append(chunks, new)
        /\ class_head' = mm_class_add(IF merge THEN mm_class_remove_chunk(class_head, tail)
                                      ELSE class_head, new)
        /\ heap_current' = heap_current + bytes
        /\ grown' = grown + pages
        /\ call' = [call EXCEPT ![t] = [@ EXCEPT !.pc = "grown", !.addr = new.addr]]
        /\ UNCHANGED held

\* malloc with the lock again takes the chunk that expand_heap returned.
MallocGrown(t) ==
    /\ call[t].pc = "grown"
    /\ TakeChunk(t, mm_class_remove_chunk(class_head, At(chunks, call[t].addr)),
                 call[t].addr, call[t].size)
    /\ UNCHANGED <<heap_current, grown>>

\* jlos_memory_manager_free: merges with the previous, then the next chunk.
mm_free(t, h) ==
    LET i == IndexOf(chunks, h[1])
        lo == IF i > 1 /\ ~chunks[i - 1].allocated THEN i - 1 ELSE i
        hi == IF i < Len(chunks) /\ ~chunks[i + 1].allocated THEN i + 1 ELSE i
        end == chunks[hi].addr + HpHeader + chunks[hi].size
        one == Chunk(chunks[lo].addr, end - chunks[lo].addr - HpHeader, FALSE)
        k == IF lo < i THEN mm_class_remove_chunk(class_head, chunks[lo]) ELSE class_head
        k2 == IF hi > i THEN mm_class_remove_chunk(k, chunks[hi]) ELSE k
    IN  /\ call[t] = NoCall /\ h \in held
        /\ chunks' = SubSeq(chunks, 1, lo - 1) \o <<one>> \o SubSeq(chunks, hi + 1, Len(chunks))
        /\ class_head' = mm_class_add(k2, one)
        /\ held' = held \ {h}
        /\ UNCHANGED <<heap_current, grown, call>>

HpNext ==
    \E t \in HpThread :
        \/ \E n \in HpSizes : Malloc(t, n)
        \/ ExpandFails(t) \/ expand_heap(t) \/ MallocGrown(t)
        \/ \E h \in held : mm_free(t, h)

HpSpec == HpInit /\ [][HpNext]_hpVars

----------------------------------------------------------------------------
Free == {i \in DOMAIN chunks : ~chunks[i].allocated}

\* The chunks tile the heap: each starts where the one before ends and the
\* last ends at heap_current, so no memory is lost and none is shared.
HeapTiled ==
    /\ chunks[1].addr = 0
    /\ \A i \in 2 .. Len(chunks) :
          chunks[i].addr = chunks[i - 1].addr + HpHeader + chunks[i - 1].size
    /\ Last(chunks).addr + HpHeader + Last(chunks).size = heap_current
    /\ \A i \in DOMAIN chunks : chunks[i].size > 0

\* Free neighbours are always merged, also by an expansion of the heap.
HeapMerged == \A i \in Free : i + 1 \notin Free

\* The free chunks are exactly the members of the class lists, each once and
\* in the list of its size, and the allocated ones are those callers hold.
HeapClassExact ==
    /\ \A i \in DOMAIN chunks, k \in 0 .. MaxClass :
          Cardinality({j \in DOMAIN class_head[k] : class_head[k][j] = chunks[i].addr})
              = IF i \in Free /\ mm_size_to_class(chunks[i].size) = k THEN 1 ELSE 0
    /\ \A k \in 0 .. MaxClass : Len(class_head[k]) <= Cardinality(Free)
    /\ {h[1] : h \in held} = {chunks[i].addr : i \in DOMAIN chunks \ Free}

\* The memory handed out for n bytes has room for n bytes.
HeapFits == \A h \in held : At(chunks, h[1]).size >= h[2]
=============================================================================
