-------------------------------- MODULE Slab --------------------------------
(***************************************************************************)
(* The slab allocator of kernel/memory_manager.c: one cache whose pages    *)
(* move between per-CPU partial lists and the cache's partial, full and    *)
(* empty lists.  A page that leaves a CPU's list is in limbo (owner -2)    *)
(* until its thread has taken s_slab_lock; frees from other CPUs meet it   *)
(* there.                                                                  *)
(*                                                                         *)
(* Each region under a lock is a step.  Threads may be preempted and may   *)
(* move to another CPU between the steps, so the CPU number they read at   *)
(* the start may be stale.  Objects of a page are told apart by nothing    *)
(* but their page.                                                         *)
(***************************************************************************)
EXTENDS Integers, Sequences, FiniteSets, SequencesExt, FiniteSetsExt

CONSTANTS SlThread, SlCpu,     \* SlCpu is a set of naturals
          SlPage,              \* the frames the cache may get
          SlObjCount,          \* objects in a page
          SlMinPartial         \* min_partial

None == -3      \* not a page of the cache (type is not SLAB_OBJ)
Limbo == -2
Shared == -1

VARIABLES sp,        \* owner and inuse of the page header
          cpuPartial,\* cache->cpu[c].partial
          cache,     \* partial, full and empty lists, and total
          live,      \* objects of each page in the hands of callers
          at         \* where each thread is, with its page and CPU number

slVars == <<sp, cpuPartial, cache, live, at>>

Out == [pc |-> "out", page |-> 0, cpu |-> 0]

SlInit ==
    /\ sp = [p \in SlPage |-> [owner |-> None, inuse |-> 0]]
    /\ cpuPartial = [c \in SlCpu |-> <<>>]
    /\ cache = [partial |-> <<>>, full |-> <<>>, empty |-> <<>>, total |-> 0]
    /\ live = [p \in SlPage |-> 0]
    /\ at = [t \in SlThread |-> Out]

Goto(t, pc, p, c) == at' = [at EXCEPT ![t] = [pc |-> pc, page |-> p, cpu |-> c]]
Leave(t) == at' = [at EXCEPT ![t] = Out]
\* The caller has the object once the call returns.
Return(t, p) == Leave(t) /\ live' = [live EXCEPT ![p] = @ + 1]
slab_list_insert(s, p) == <<p>> \o s
slab_list_remove(s, p) == Remove(s, p)

\* slab_reclaim_empty: with more than min_partial pages, at most half stay empty.
slab_reclaim_empty(k, pages) ==
    LET n == Min({i \in 0 .. Len(k.empty) :
                    k.total - i <= SlMinPartial \/ i = Len(k.empty)
                    \/ 2 * (Len(k.empty) - i) <= k.total - i})
        freed == {k.empty[i] : i \in 1 .. n}
    IN  [cache |-> [k EXCEPT !.empty = SubSeq(@, n + 1, Len(@)), !.total = @ - n],
         sp |-> [p \in SlPage |-> IF p \in freed THEN [owner |-> None, inuse |-> 0]
                                  ELSE pages[p]]]

\* A page without objects goes to the empty list.
ToEmpty(k, pages, p) ==
    slab_reclaim_empty([k EXCEPT !.empty = slab_list_insert(@, p)],
                       [pages EXCEPT ![p] = [owner |-> Shared, inuse |-> 0]])
PutEmpty(k, pages, p) ==
    LET r == ToEmpty(k, pages, p) IN cache' = r.cache /\ sp' = r.sp

----------------------------------------------------------------------------
\* jlos_memory_slab_cache_alloc, under cs->lock.
AllocFast(t, c) ==
    /\ at[t] = Out
    /\ IF cpuPartial[c] = <<>>
       THEN Goto(t, "slow", 0, c) /\ UNCHANGED <<sp, cpuPartial, live>>
       ELSE LET p == Head(cpuPartial[c]) IN
            IF sp[p].inuse + 1 = SlObjCount
            THEN /\ sp' = [sp EXCEPT ![p] = [owner |-> Limbo, inuse |-> @.inuse + 1]]
                 /\ cpuPartial' = [cpuPartial EXCEPT ![c] = slab_list_remove(@, p)]
                 /\ Goto(t, "filled", p, c)
                 /\ UNCHANGED live
            ELSE /\ sp' = [sp EXCEPT ![p].inuse = @ + 1]
                 /\ Return(t, p)
                 /\ UNCHANGED cpuPartial
    /\ UNCHANGED cache

\* The page it filled goes to the full list, unless a free took it meanwhile.
AllocFilled(t) ==
    LET p == at[t].page IN
    /\ at[t].pc = "filled"
    /\ IF sp[p].owner = Limbo
       THEN /\ sp' = [sp EXCEPT ![p].owner = Shared]
            /\ cache' = [cache EXCEPT !.full = slab_list_insert(@, p)]
       ELSE UNCHANGED <<sp, cache>>
    /\ Return(t, p)
    /\ UNCHANGED cpuPartial

\* The pages a new slab page may be.
slab_page_alloc == {p \in SlPage : sp[p].owner = None}

\* Under s_slab_lock and cs->lock: a page of the partial list, or a new one.
AllocSlow(t) ==
    LET c == at[t].cpu
        Take(p, k) ==
            /\ IF sp[p].inuse + 1 = SlObjCount
               THEN /\ sp' = [sp EXCEPT ![p] = [owner |-> Shared, inuse |-> @.inuse + 1]]
                    /\ cache' = [k EXCEPT !.full = slab_list_insert(@, p)]
                    /\ UNCHANGED cpuPartial
               ELSE /\ sp' = [sp EXCEPT ![p] = [owner |-> c, inuse |-> @.inuse + 1]]
                    /\ cpuPartial' = [cpuPartial EXCEPT ![c] = slab_list_insert(@, p)]
                    /\ cache' = k
            /\ Return(t, p)
    IN  /\ at[t].pc = "slow"
        /\ \/ /\ cache.partial # <<>>
              /\ Take(Head(cache.partial), [cache EXCEPT !.partial = Tail(@)])
           \/ /\ cache.partial = <<>>
              /\ \E p \in slab_page_alloc : Take(p, [cache EXCEPT !.total = @ + 1])
           \/ /\ cache.partial = <<>> /\ slab_page_alloc = {}     \* out of memory
              /\ Leave(t)
              /\ UNCHANGED <<sp, cpuPartial, cache, live>>

----------------------------------------------------------------------------
\* jlos_kvfree finds the cache by the frame's type; the object is the cache's
\* again.  jlos_memory_slab_cache_free then looks at the owner without a lock.
FreeCall(t, c, p) ==
    /\ at[t] = Out /\ live[p] > 0
    /\ live' = [live EXCEPT ![p] = @ - 1]
    /\ Goto(t, IF sp[p].owner = None THEN "halted"
               ELSE IF sp[p].owner = c THEN "freeFast" ELSE "freeSlow", p, c)
    /\ UNCHANGED <<sp, cpuPartial, cache>>

\* Fault: the object goes back before the owner is looked at again.
FreeFast_Twice(t) ==
    LET p == at[t].page
        c == at[t].cpu IN
    /\ at[t].pc = "freeFast"
    /\ sp' = [sp EXCEPT ![p].inuse = @ - 1]
    /\ IF sp[p].owner # c THEN Goto(t, "freeSlow", p, c) ELSE Leave(t)
    /\ UNCHANGED <<cpuPartial, cache, live>>

\* Under cs->lock, with a second look at the owner.
FreeFast(t) ==
    LET p == at[t].page
        c == at[t].cpu IN
    /\ at[t].pc = "freeFast"
    /\ IF sp[p].owner # c
       THEN Goto(t, "freeSlow", p, c) /\ UNCHANGED <<sp, cpuPartial>>
       ELSE IF sp[p].inuse = 1
       THEN /\ sp' = [sp EXCEPT ![p] = [owner |-> Limbo, inuse |-> 0]]
            /\ cpuPartial' = [cpuPartial EXCEPT ![c] = slab_list_remove(@, p)]
            /\ Goto(t, "emptied", p, c)
       ELSE sp' = [sp EXCEPT ![p].inuse = @ - 1] /\ Leave(t) /\ UNCHANGED cpuPartial
    /\ UNCHANGED <<cache, live>>

FreeEmptied(t) ==
    /\ at[t].pc = "emptied"
    /\ IF sp[at[t].page].owner = Limbo
       THEN PutEmpty(cache, sp, at[t].page)
       ELSE UNCHANGED <<cache, sp>>
    /\ Leave(t)
    /\ UNCHANGED <<cpuPartial, live>>

\* Under s_slab_lock.  The owner can only change from a CPU to limbo before
\* that CPU's lock is taken, and the code looks again, so one step will do.
FreeSlow(t) ==
    LET p == at[t].page
        o == sp[p].owner
        n == sp[p].inuse - 1
        \* the page without its old list, if it is on one of the cache's
        k == IF o # Shared THEN cache
             ELSE IF sp[p].inuse = SlObjCount
             THEN [cache EXCEPT !.full = slab_list_remove(@, p)]
             ELSE [cache EXCEPT !.partial = slab_list_remove(@, p)]
        fewer == [sp EXCEPT ![p].inuse = n]
    IN
    /\ at[t].pc = "freeSlow"
    /\ \/ /\ o >= 0 /\ n = 0
          /\ cpuPartial' = [cpuPartial EXCEPT ![o] = slab_list_remove(@, p)]
          /\ PutEmpty(k, sp, p)
       \/ /\ o >= 0 /\ n > 0
          /\ sp' = fewer /\ UNCHANGED <<cpuPartial, cache>>
       \/ /\ o < 0 /\ n = 0
          /\ PutEmpty(k, sp, p) /\ UNCHANGED cpuPartial
       \/ /\ o < 0 /\ n > 0
          /\ IF o = Limbo \/ sp[p].inuse = SlObjCount
             THEN /\ sp' = [fewer EXCEPT ![p].owner = Shared]
                  /\ cache' = [k EXCEPT !.partial = slab_list_insert(@, p)]
             ELSE sp' = fewer /\ UNCHANGED cache
          /\ UNCHANGED cpuPartial
    /\ Leave(t)
    /\ UNCHANGED live

\* jlos_memory_slab_cache_destroy, once nobody uses the cache any more.
Destroy ==
    /\ \A t \in SlThread : at[t] = Out
    /\ cache.total > 0
    /\ LET listed == UNION {ToSet(cpuPartial[c]) : c \in SlCpu}
                     \cup ToSet(cache.partial) \cup ToSet(cache.full) \cup ToSet(cache.empty)
       IN  /\ sp' = [p \in SlPage |-> IF p \in listed THEN [owner |-> None, inuse |-> 0] ELSE sp[p]]
           /\ cache' = [partial |-> <<>>, full |-> <<>>, empty |-> <<>>,
                        total |-> cache.total - Cardinality(listed)]
    /\ cpuPartial' = [c \in SlCpu |-> <<>>]
    /\ live' = [p \in SlPage |-> 0]
    /\ UNCHANGED at

SlNext ==
    \/ \E t \in SlThread :
          \/ \E c \in SlCpu : AllocFast(t, c) \/ \E p \in SlPage : FreeCall(t, c, p)
          \/ AllocFilled(t) \/ AllocSlow(t)
          \/ FreeFast(t) \/ FreeEmptied(t) \/ FreeSlow(t)
    \/ Destroy

SlSpec == SlInit /\ [][SlNext]_slVars

----------------------------------------------------------------------------
AtPage(p, S) == {t \in SlThread : at[t].page = p /\ at[t].pc \in S}

\* The state is well-formed.
SlTypeOK ==
    /\ sp \in [SlPage -> [owner : SlCpu \cup {None, Limbo, Shared}, inuse : 0 .. SlObjCount]]
    /\ cache.total \in 0 .. Cardinality(SlPage)
    /\ \A t \in SlThread : at[t].pc # "halted"

\* Every page of the cache is on exactly the list that its owner and its
\* objects in use call for; one in limbo is on no list and a thread is about
\* to put it on one.  Frees from any CPU meet the page at any moment.
SlabPageListed ==
    \A p \in SlPage :
        LET on(s) == Cardinality({i \in DOMAIN s : s[i] = p})
            o == sp[p].owner
            n == sp[p].inuse
            one(b) == IF b THEN 1 ELSE 0 IN
        /\ \A c \in SlCpu : on(cpuPartial[c]) = one(o = c)
        /\ o >= 0 => n \in 1 .. SlObjCount - 1
        /\ on(cache.full) = one(o = Shared /\ n = SlObjCount)
        /\ on(cache.empty) = one(o = Shared /\ n = 0)
        /\ on(cache.partial) = one(o = Shared /\ n \in 1 .. SlObjCount - 1)
        /\ o = Limbo => AtPage(p, {"filled", "emptied"}) # {}

\* The use count of a page is the number of its objects that callers hold or
\* are just getting or giving back: none is handed out twice or lost.
SlabObjectsAccounted ==
    \A p \in SlPage :
        sp[p].inuse = live[p] + Cardinality(AtPage(p, {"filled", "freeFast", "freeSlow"}))

\* No thread is left with a page that the cache has given back to the frame
\* allocator, where the next read of its header would be a use after free.
NoStalePage == \A t \in SlThread : at[t].page # 0 => sp[at[t].page].owner # None

\* cache->total counts the pages, and at most half of them, beyond the
\* minimum, are kept empty although allocation never takes an empty page.
SlabEmptyBounded ==
    /\ cache.total = Cardinality({p \in SlPage : sp[p].owner # None})
    /\ cache.total > SlMinPartial => 2 * Len(cache.empty) <= cache.total
=============================================================================
