----------------------------- MODULE PageCache -----------------------------
(***************************************************************************)
(* The page cache below FAT32: pages with a reference count and dirty      *)
(* sectors, a list of idle pages in order of use, and the eviction that    *)
(* page_put runs once more than PcMax pages are idle.  Writing back a page *)
(* of a file looks its sectors up in the allocation table, so it gets and  *)
(* puts the table's page, and may evict again.                             *)
(*                                                                         *)
(* fs/page_cache.c, dsa/list_lru.h, fs/fat32.c (get_block)                 *)
(*                                                                         *)
(* The callers hold the lock of the superblock: a step is a whole call.    *)
(***************************************************************************)
EXTENDS Integers, Sequences, FiniteSets, SequencesExt

CONSTANTS
    PcFile,    \* pages of files
    PcTable,   \* the page of the allocation table
    PcSector,  \* sectors of a page
    PcVal,     \* values of a sector
    PcMax      \* JLOS_FS_PAGE_CACHE_MAX

PcPage == PcFile \cup {PcTable}
Blank == 0
NoPage == [ref |-> 0, dirty |-> {}, v |-> [s \in PcSector |-> Blank]]

VARIABLES
    pc,       \* pg: the cached pages (ref 0: not cached), lru, disk, bad
    held,     \* the page the caller holds, {} or a singleton
    failed    \* a write or an allocation failed during an eviction

pcVars == <<pc, held, failed>>

PcTypeOK ==
    /\ pc.pg \in [PcPage -> [ref : 0 .. 3, dirty : SUBSET PcSector,
                              v : [PcSector -> PcVal \cup {Blank}]]]
    /\ pc.lru \in Seq(PcPage) /\ failed \in BOOLEAN
    /\ pc.disk \in [PcPage -> [PcSector -> PcVal \cup {Blank}]]

PcInit ==
    /\ pc = [pg |-> [p \in PcPage |-> NoPage], lru |-> <<>>, bad |-> FALSE,
             disk |-> [p \in PcPage |-> NoPage.v]]
    /\ held = {} /\ failed = FALSE

---------------------------------------------------------------------------
Cached(c, p) == c.pg[p].ref > 0

\* An idle page leaves the list when it is used.
page_ref_acquire(c, p) ==
    [c EXCEPT !.lru = IF c.pg[p].ref = 1 THEN Remove(@, p) ELSE @, !.pg[p].ref = @ + 1]

page_read_block(c, p) == [c EXCEPT !.pg[p] = [ref |-> 2, dirty |-> {}, v |-> c.disk[p]]]

\* The cache holds one reference of its own, the caller another.
jlos_fs_page_get(c, p) == IF Cached(c, p) THEN page_ref_acquire(c, p) ELSE page_read_block(c, p)

\* The dirty sectors go to the disk.
page_write_block(c, p) ==
    [c EXCEPT !.disk[p] = [s \in PcSector |-> IF s \in c.pg[p].dirty THEN c.pg[p].v[s] ELSE @[s]],
              !.pg[p].dirty = {}]

page_free(c, p) == [c EXCEPT !.pg[p] = NoPage]

RECURSIVE jlos_fs_page_cache_shrink(_, _)

\* The last user lists the page as idle, and evicts when there are too many.
\* fault is the page whose writing back fails, if any.
PutPage(c, p, fault) ==
    LET d == [c EXCEPT !.pg[p].ref = @ - 1,
                       !.lru = IF c.pg[p].ref = 2 THEN Append(@, p) ELSE @]
    IN  jlos_fs_page_cache_shrink(d, fault)

\* Fault: the victim is not written.
page_writeback_Skipped(c, p, fault) == c

\* A page of a file is written where the allocation table says; when the
\* table cannot be read, or the device fails, the page is not written.
page_writeback(c, p, fault) ==
    LET t == IF p = PcTable \/ (~Cached(c, PcTable) /\ p = fault) THEN c
             ELSE PutPage(jlos_fs_page_get(c, PcTable), PcTable, fault)
    IN  IF c.pg[p].dirty = {} THEN c
        ELSE IF p = fault THEN [t EXCEPT !.bad = TRUE]
        ELSE page_write_block(t, p)

jlos_fs_page_cache_shrink(c, fault) ==
    LET v == Head(c.lru)
        d == page_writeback([c EXCEPT !.lru = Tail(@)], v, fault)
    IN  IF Len(c.lru) <= PcMax THEN c
        ELSE jlos_fs_page_cache_shrink(page_free(d, v), fault)

---------------------------------------------------------------------------
Get(p) ==
    /\ held = {}
    /\ pc' = jlos_fs_page_get(pc, p) /\ held' = {p}
    /\ UNCHANGED failed

\* page_alloc or the device fails: the caller gets no page.
GetFails(p) == held = {} /\ ~Cached(pc, p) /\ UNCHANGED pcVars

\* The caller changes a sector and marks it; data pages mark every sector.
jlos_fs_page_bh_dirty(p, s, v) ==
    /\ held = {p}
    /\ pc' = [pc EXCEPT !.pg[p].v[s] = v,
                        !.pg[p].dirty = IF p = PcTable THEN @ \cup {s} ELSE PcSector]
    /\ UNCHANGED <<held, failed>>

jlos_fs_page_put(p, fault) ==
    LET d == PutPage(pc, p, fault)
    IN  /\ held = {p} /\ held' = {}
        /\ pc' = [d EXCEPT !.bad = FALSE] /\ failed' = (failed \/ d.bad)

PcNext ==
    \/ \E p \in PcPage : Get(p) \/ GetFails(p)
    \/ \E p \in PcPage, s \in PcSector, v \in PcVal : jlos_fs_page_bh_dirty(p, s, v)
    \/ \E p \in PcPage, fault \in PcPage \cup {-1} : jlos_fs_page_put(p, fault)

PcSpec == PcInit /\ [][PcNext]_pcVars
---------------------------------------------------------------------------
\* The list holds exactly the pages nobody uses, each once, and no more than
\* the limit: an evicted page is never in use, and no idle page is forgotten.
LruExact ==
    /\ ToSet(pc.lru) = {p \in PcPage : pc.pg[p].ref = 1}
    /\ Len(pc.lru) = Cardinality(ToSet(pc.lru)) /\ Len(pc.lru) <= PcMax
    /\ \A p \in PcPage : pc.pg[p].ref = (IF p \in held THEN 2 ELSE IF Cached(pc, p) THEN 1 ELSE 0)

\* What the cache and the disk hold together.
Store == INSTANCE BlockStore WITH
    Page <- PcPage, Sector <- PcSector, Val <- PcVal, Blank <- Blank,
    store <- [p \in PcPage |-> IF Cached(pc, p) THEN pc.pg[p].v ELSE pc.disk[p]],
    failed <- failed

\* Seen through the cache the disk is an array of pages: whatever is evicted
\* and read again, a sector keeps the value last written to it, unless the
\* device or memory fails while a page is evicted.
CacheIsStore == Store!StoreSpec
=============================================================================
