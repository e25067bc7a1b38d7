------------------------------- MODULE Fat32 -------------------------------
(***************************************************************************)
(* The FAT32 driver under the VFS: the file allocation table, the root     *)
(* directory, the in-memory inodes keyed by first cluster, the name cache  *)
(* and the per-inode page cache.  Every operation runs under the lock of   *)
(* the superblock, so one operation is one action.                         *)
(*                                                                         *)
(* fs/fat32.c, fs/vfs.c, fs/page_cache.c, kernel/syscall.c                 *)
(*                                                                         *)
(* Sizes and positions are counted in clusters; a write is one cluster,    *)
(* and what it writes is the name of the file, so that a cluster tells     *)
(* whose data it holds.                                                    *)
(* File pages are as large as a cluster; directory pages hold ppb clusters.*)
(***************************************************************************)
EXTENDS Integers, Sequences, FiniteSets, FiniteSetsExt, SequencesExt

CONSTANTS
    FtLast,        \* the last data cluster; 2 is the root directory
    FtSlots,       \* directory entries in a cluster
    FtPageBlocks,  \* the cluster counts of a directory page to consider
    FtDirBlocks,   \* bound on the clusters of the directory
    FtOnDisk,      \* sequence of names present at mount, one cluster each
    FtCreatable,   \* names that may be created
    FtLong,        \* names that need a long-name entry
    FtFd,          \* file descriptors
    FtMaxBlocks,   \* bound on the position of a write
    FtUnlinkOpen   \* may an open file be unlinked?

FREE == 0
EOC  == FtLast + 1
Root == 2
Data == 2 .. FtLast
Names == {FtOnDisk[i] : i \in DOMAIN FtOnDisk} \cup FtCreatable

VARIABLES
    fs,       \* fat, dir, hint, inode, dentry, pages and blk of the volume
    file,     \* [subset of FtFd -> open file]
    ppb,      \* clusters per directory page, fixed
    want,     \* [existing names -> Seq(BOOLEAN)]: the clusters the users wrote
    full,     \* an allocation has failed for lack of space
    removed   \* a file has been unlinked

ftVars == <<fs, file, ppb, want, full, removed>>

EndEntry == [k |-> "end", n |-> "", first |-> 0, size |-> 0]
Slots == 0 .. FtDirBlocks * FtSlots - 1

FtTypeOK ==
    /\ fs.fat \in [0 .. FtLast -> 0 .. EOC]
    /\ \A s \in Slots : /\ fs.dir[s].k \in {"end", "del", "lfn", "live"}
                        /\ fs.dir[s].first \in 0 .. FtLast
    /\ fs.hint \in -1 .. EOC /\ ppb \in FtPageBlocks
    /\ DOMAIN fs.inode \subseteq 0 .. FtLast /\ DOMAIN fs.dentry \subseteq Names
    /\ DOMAIN file \subseteq FtFd /\ DOMAIN want \subseteq Names
    /\ full \in BOOLEAN /\ removed \in BOOLEAN

---------------------------------------------------------------------------
(* The file allocation table.  Operators take and return the volume f.     *)

\* The n-th cluster from head, EOC once the chain has ended.
ClusterAt(f, head, n) ==
    LET at[i \in 0 .. n] == IF i = 0 THEN head
                            ELSE IF at[i - 1] = EOC THEN EOC ELSE f.fat[at[i - 1]]
    IN  at[n]

\* The data clusters of a chain.
Chain(f, head) ==
    LET at[i \in 0 .. FtLast] == IF i = 0 THEN head
                                 ELSE IF at[i - 1] \in Data THEN f.fat[at[i - 1]] ELSE EOC
    IN  {at[i] : i \in 0 .. FtLast} \cap Data

fat32_get_next_cluster(f, c) == f.fat[c]

fat32_set_next_cluster(f, c, next) == [f EXCEPT !.fat[c] = next]

\* FSINFO, when the volume has one: the hint where to look first.
fat32_fsinfo_read(f) == f.hint
fat32_fsinfo_update(f, next) == IF f.hint = -1 THEN f ELSE [f EXCEPT !.hint = next]

fat32_claim_cluster(f, c) ==
    [ok |-> TRUE, c |-> c,
     fs |-> fat32_fsinfo_update(fat32_set_next_cluster(f, c, EOC), c + 1)]

\* The cluster of the hint if it is free, else the first free one.
fat32_alloc_cluster(f) ==
    LET h == fat32_fsinfo_read(f)
        free == {c \in 0 .. FtLast : f.fat[c] = FREE}
    IN  IF h \in Data /\ f.fat[h] = FREE THEN fat32_claim_cluster(f, h)
        ELSE IF free # {} THEN fat32_claim_cluster(f, Min(free))
        ELSE [ok |-> FALSE, c |-> 0, fs |-> f]

\* Fault: only the head of the chain is freed.
fat32_free_cluster_chain_HeadOnly(f, head) ==
    fat32_fsinfo_update(fat32_set_next_cluster(f, head, FREE), head)

\* Every cluster of the chain becomes free, and the head is the next hint.
fat32_free_cluster_chain(f, head) ==
    LET gone == Chain(f, head)
    IN  fat32_fsinfo_update(
            [f EXCEPT !.fat = [c \in DOMAIN @ |-> IF c \in gone THEN FREE ELSE @[c]]], head)

\* The next cluster of the chain, appended when c is the last.
fat32_cluster_advance(f, c) ==
    LET next == fat32_get_next_cluster(f, c)
        a == fat32_alloc_cluster(f)
    IN  IF next # EOC THEN [ok |-> TRUE, c |-> next, fs |-> f]
        ELSE IF ~a.ok THEN a
        ELSE [a EXCEPT !.fs = fat32_set_next_cluster(@, c, a.c)]

---------------------------------------------------------------------------
(* The page cache: per inode, keyed by the index in the file.              *)

\* The cluster of block i of an inode, EOC when it has none.
fat32_get_block(f, ino, i) ==
    IF f.inode[ino].first < 2 THEN EOC ELSE ClusterAt(f, f.inode[ino].first, i)

\* Page i of an inode, read from the disk when it is not cached.
jlos_fs_page_get(f, ino, i) ==
    IF i \in DOMAIN f.pages[ino] THEN f
    ELSE [f EXCEPT !.pages[ino] =
             [j \in DOMAIN @ \cup {i} |->
                 IF j = i THEN [v |-> f.blk[fat32_get_block(f, ino, i)], dirty |-> FALSE]
                 ELSE @[j]]]

PageMapped(f, ino, i) == i \in DOMAIN f.pages[ino] \/ fat32_get_block(f, ino, i) # EOC

SetPage(f, ino, i, v) ==
    [jlos_fs_page_get(f, ino, i) EXCEPT !.pages[ino][i] = [v |-> v, dirty |-> TRUE]]

\* The page is written to the cluster the block has now, if it has one,
\* and leaves the cache.
WriteBack(f, ino, i) ==
    LET c == fat32_get_block(f, ino, i)
        p == f.pages[ino][i]
    IN  [f EXCEPT !.blk = IF p.dirty /\ c # EOC THEN [@ EXCEPT ![c] = p.v] ELSE @,
                  !.pages[ino] = [j \in DOMAIN @ \ {i} |-> @[j]]]

---------------------------------------------------------------------------
(* The directory.                                                          *)

DirLen(f) == Cardinality(Chain(f, Root))

\* The slots on pages that hold at least one cluster of the directory.
Visible(f) ==
    LET pages == (DirLen(f) + ppb - 1) \div ppb
    IN  {s \in Slots : s \div (FtSlots * ppb) < pages}

fat32_match_name(e, nm) == e.k = "live" /\ e.n = nm

\* The first live entry with the name before the end mark.
fat32_dir_scan(f, nm) ==
    {s \in Visible(f) :
        /\ fat32_match_name(f.dir[s], nm)
        /\ \A t \in 0 .. s - 1 : f.dir[t].k # "end" /\ ~fat32_match_name(f.dir[t], nm)}

IsFree(e) == e.k \in {"end", "del"}

\* The starts of free runs of length need, each within one page.
FreeRuns(f, need) ==
    {s \in Visible(f) :
        /\ (s + need - 1) \div (FtSlots * ppb) = s \div (FtSlots * ppb)
        /\ \A t \in s .. s + need - 1 : t \in Slots /\ IsFree(f.dir[t])}

\* Without a run the directory grows by a cluster, which is zeroed.
fat32_find_free_slots(f, need) ==
    LET tail == CHOOSE c \in Chain(f, Root) : f.fat[c] = EOC
        a == fat32_cluster_advance(f, tail)
        new == DirLen(f) * FtSlots
    IN  IF FreeRuns(f, need) # {}
        THEN [ok |-> TRUE, s |-> Min(FreeRuns(f, need)), fs |-> f]
        ELSE [ok |-> a.ok, s |-> new,
              fs |-> [a.fs EXCEPT !.dir = [t \in Slots |->
                         IF a.ok /\ t \in new .. new + FtSlots - 1 THEN EndEntry ELSE @[t]]]]

\* The entries of a name: a long one is preceded by its long-name entries,
\* here one, which carry the part that the short name loses.
fat32_lfn_build(nm) == IF nm \in FtLong THEN 2 ELSE 1

\* The entry of a new file, which has no cluster yet.
fat32_name_to_83(nm) == [k |-> "live", n |-> nm, first |-> 0, size |-> 0]

fat32_create(f, nm) ==
    LET need == fat32_lfn_build(nm)
        r == fat32_find_free_slots(f, need)
        e == fat32_name_to_83(nm)
    IN  IF fat32_dir_scan(f, nm) # {} \/ ~r.ok
        THEN [ok |-> FALSE, fs |-> r.fs]
        ELSE [ok |-> TRUE,
              fs |-> [r.fs EXCEPT !.dir =
                         [t \in Slots |-> IF t = r.s + need - 1 THEN e
                                          ELSE IF need = 2 /\ t = r.s THEN [e EXCEPT !.k = "lfn"]
                                          ELSE @[t]]]]

\* The entry of the inode gets its size and first cluster, whatever it holds.
fat32_sync_inode(f, ino) ==
    [f EXCEPT !.dir[f.inode[ino].off].first = f.inode[ino].first,
              !.dir[f.inode[ino].off].size = f.inode[ino].size]

\* The chain is freed, the entry and the long-name entries before it deleted.
fat32_unlink(f, s) ==
    LET e == f.dir[s]
        g == IF e.first = 0 THEN f ELSE fat32_free_cluster_chain(f, e.first)
        lfn == {t \in 0 .. s - 1 : \A u \in t .. s - 1 : f.dir[u].k = "lfn"}
    IN  [g EXCEPT !.dir = [t \in Slots |->
             IF t \in lfn \cup {s} THEN [@[t] EXCEPT !.k = "del"] ELSE @[t]]]

---------------------------------------------------------------------------
(* The VFS: the name cache and the inode cache.                            *)

\* An inode already hashed under the first cluster is reused.
jlos_vfs_inode_alloc(f, ino) ==
    IF ino \in DOMAIN f.inode THEN f
    ELSE [f EXCEPT !.inode = [i \in DOMAIN @ \cup {ino} |->
                                 IF i = ino THEN [size |-> 0, first |-> 0, off |-> 0] ELSE @[i]],
                   !.pages = [i \in DOMAIN @ \cup {ino} |-> IF i = ino THEN <<>> ELSE @[i]]]

fat32_dirent_to_inode(f, s) ==
    LET e == f.dir[s]
    IN  [jlos_vfs_inode_alloc(f, e.first) EXCEPT
            !.inode[e.first] = [size |-> e.size, first |-> e.first, off |-> s]]

Found(f, nm) == nm \in DOMAIN f.dentry \/ fat32_dir_scan(f, nm) # {}

jlos_vfs_dentry_alloc(f, nm, ino) ==
    [f EXCEPT !.dentry = [m \in DOMAIN @ \cup {nm} |-> IF m = nm THEN ino ELSE @[m]]]

\* The volume after a successful lookup; dentry[nm] is then the inode.
jlos_vfs_lookup(f, nm) ==
    LET s == Min(fat32_dir_scan(f, nm))
    IN  IF nm \in DOMAIN f.dentry THEN f
        ELSE jlos_vfs_dentry_alloc(fat32_dirent_to_inode(f, s), nm, f.dir[s].first)

\* O_TRUNC of a file that is not empty.
Truncate(f, ino) ==
    LET g == IF f.inode[ino].first = 0 THEN f
             ELSE [fat32_free_cluster_chain(f, f.inode[ino].first) EXCEPT !.inode[ino].first = 0]
    IN  IF f.inode[ino].size = 0 THEN f
        ELSE fat32_sync_inode([g EXCEPT !.inode[ino].size = 0], ino)

---------------------------------------------------------------------------
(* System calls.                                                           *)

\* The directory at mount: a short or long entry per file.
Mounted ==
    LET e(i) == [k |-> "live", n |-> FtOnDisk[i], first |-> Root + i, size |-> 1]
        of(i) == IF FtOnDisk[i] \in FtLong THEN <<[e(i) EXCEPT !.k = "lfn"], e(i)>> ELSE <<e(i)>>
    IN  FlattenSeq([i \in DOMAIN FtOnDisk |-> of(i)])

FtInit ==
    LET n == Len(FtOnDisk)
    IN  /\ ppb \in FtPageBlocks
        /\ \E h \in {-1, Root + 1} :
           fs = [fat |-> [c \in 0 .. FtLast |-> IF c <= Root + n THEN EOC ELSE FREE],
                 dir |-> [s \in Slots |-> IF s < Len(Mounted) THEN Mounted[s + 1] ELSE EndEntry],
                 hint |-> h, inode |-> <<>>, dentry |-> <<>>, pages |-> <<>>,
                 blk |-> [c \in 0 .. EOC |-> ""]]
        /\ file = <<>>
        /\ want = [m \in {FtOnDisk[i] : i \in 1 .. n} |-> <<FALSE>>]
        /\ full = FALSE /\ removed = FALSE

Bind(fd, rec) == [d \in DOMAIN file \cup {fd} |-> IF d = fd THEN rec ELSE file[d]]

syscall_open(fd, nm, creat, trunc) ==
    LET made == fat32_create(fs, nm)
        f == IF Found(fs, nm) THEN fs ELSE made.fs
        g == jlos_vfs_lookup(f, nm)
        h == IF trunc THEN Truncate(g, g.dentry[nm]) ELSE g
    IN  /\ fd \notin DOMAIN file
        /\ Found(fs, nm) \/ (creat /\ nm \in FtCreatable /\ DirLen(fs) < FtDirBlocks)
        /\ UNCHANGED <<ppb, removed>>
        /\ IF Found(f, nm)
           THEN /\ fs' = h
                /\ file' = Bind(fd, [n |-> nm, ino |-> g.dentry[nm], pos |-> 0, gone |-> FALSE])
                /\ want' = [m \in DOMAIN want \cup {nm} |->
                               IF m = nm /\ (trunc \/ m \notin DOMAIN want) THEN <<>> ELSE want[m]]
                /\ UNCHANGED full
           ELSE /\ fs' = f /\ full' = (full \/ ~made.ok)
                /\ UNCHANGED <<file, want>>

\* The chain of the inode is made long enough for the position, then the page
\* and the size are written; without space the chain stays as far as it got.
fat32_write_inner(f, i, pos, v) ==
    LET a == IF f.inode[i].first # 0 THEN [ok |-> TRUE, c |-> f.inode[i].first, fs |-> f]
             ELSE fat32_alloc_cluster(f)
        b == IF a.ok THEN [a EXCEPT !.fs.inode[i].first = a.c] ELSE a
        ext[n \in 0 .. pos] ==
            IF n = 0 THEN b
            ELSE IF ~ext[n - 1].ok THEN ext[n - 1]
            ELSE fat32_cluster_advance(ext[n - 1].fs, ext[n - 1].c)
        r == ext[pos]
        g == SetPage(r.fs, i, pos, v)
        size == Max({g.inode[i].size, pos + 1})
    IN  IF ~r.ok THEN r
        ELSE [r EXCEPT !.fs = fat32_sync_inode([g EXCEPT !.inode[i].size = size], i)]

syscall_write(fd) ==
    LET o == file[fd]
        r == fat32_write_inner(fs, o.ino, o.pos, o.n)
        w == want[o.n]
    IN  /\ fd \in DOMAIN file /\ o.pos < FtMaxBlocks
        /\ UNCHANGED <<ppb, removed>>
        /\ fs' = r.fs
        /\ IF ~r.ok
           THEN full' = TRUE /\ UNCHANGED <<file, want>>
           ELSE /\ file' = [file EXCEPT ![fd].pos = @ + 1]
                /\ want' = IF o.gone THEN want ELSE
                           [want EXCEPT ![o.n] =
                              [j \in 1 .. Max({Len(w), o.pos + 1}) |->
                                  j = o.pos + 1 \/ (j <= Len(w) /\ w[j])]]
                /\ UNCHANGED full

syscall_read(fd) ==
    LET o == file[fd]
    IN  /\ fd \in DOMAIN file /\ o.pos < fs.inode[o.ino].size
        /\ PageMapped(fs, o.ino, o.pos)
        /\ fs' = jlos_fs_page_get(fs, o.ino, o.pos)
        /\ file' = [file EXCEPT ![fd].pos = @ + 1]
        /\ UNCHANGED <<ppb, want, full, removed>>

\* SEEK_SET, or O_APPEND and SEEK_END when pos is the size.
syscall_lseek(fd, pos) ==
    /\ fd \in DOMAIN file
    /\ file' = [file EXCEPT ![fd].pos = pos]
    /\ UNCHANGED <<fs, ppb, want, full, removed>>

syscall_task_fd_close(fd) ==
    /\ fd \in DOMAIN file
    /\ file' = [d \in DOMAIN file \ {fd} |-> file[d]]
    /\ UNCHANGED <<fs, ppb, want, full, removed>>

syscall_unlink(nm) ==
    LET g == jlos_vfs_lookup(fs, nm)
    IN  /\ Found(fs, nm)
        /\ FtUnlinkOpen \/ \A d \in DOMAIN file : file[d].n # nm
        /\ IF fat32_dir_scan(g, nm) = {} THEN fs' = g /\ UNCHANGED <<want, removed, file>>
           ELSE /\ fs' = [fat32_unlink(g, Min(fat32_dir_scan(g, nm))) EXCEPT
                             !.dentry = [m \in DOMAIN @ \ {nm} |-> @[m]]]
                /\ want' = [m \in DOMAIN want \ {nm} |-> want[m]]
                /\ file' = [d \in DOMAIN file |->
                               IF file[d].n = nm THEN [file[d] EXCEPT !.gone = TRUE] ELSE file[d]]
                /\ removed' = TRUE
        /\ UNCHANGED <<ppb, full>>

\* An idle page is evicted when the pages of other files fill the cache.
jlos_fs_page_cache_shrink ==
    /\ \E ino \in DOMAIN fs.pages : \E i \in DOMAIN fs.pages[ino] :
          fs' = WriteBack(fs, ino, i)
    /\ UNCHANGED <<file, ppb, want, full, removed>>

FtNext ==
    \/ \E fd \in FtFd :
          \/ \E nm \in Names, creat, trunc \in BOOLEAN : syscall_open(fd, nm, creat, trunc)
          \/ syscall_write(fd) \/ syscall_read(fd)
          \/ \E p \in 0 .. FtMaxBlocks - 1 : syscall_lseek(fd, p)
          \/ syscall_task_fd_close(fd)
    \/ \E nm \in Names : syscall_unlink(nm)
    \/ jlos_fs_page_cache_shrink

FtSpec == FtInit /\ [][FtNext]_ftVars
---------------------------------------------------------------------------
Live == {s \in Slots : fs.dir[s].k = "live"}

\* The chain of every entry is allocated up to its end mark, is as long as
\* the file, and no two chains (the directory's included) share a cluster.
ChainsSound ==
    /\ \A s \in Live : LET c == Chain(fs, fs.dir[s].first)
                       IN  /\ \A x \in c : fs.fat[x] # FREE
                           /\ Cardinality(c) >= fs.dir[s].size
                           /\ c \cap Chain(fs, Root) = {}
    /\ \A s, t \in Live :
          s # t => Chain(fs, fs.dir[s].first) \cap Chain(fs, fs.dir[t].first) = {}

\* While no allocation has failed, every allocated cluster belongs to the
\* chain of an entry or of the directory: unlink and O_TRUNC free whole chains.
NoClusterLeak ==
    full \/ {c \in Data : fs.fat[c] # FREE}
            = Chain(fs, Root) \cup UNION {Chain(fs, fs.dir[s].first) : s \in Live}

\* What create wrote can be found again: every name the users know is a live
\* entry before the end mark, once, on a cluster of the directory.
EntriesReachable ==
    ppb = 1 => \A nm \in DOMAIN want :
        Cardinality({s \in Live : fs.dir[s].n = nm /\ s \in fat32_dir_scan(fs, nm)
                                  /\ s \div FtSlots < DirLen(fs)}) = 1

\* The inode behind a name or an open file agrees with the directory entry
\* it was read from: no other file's operation has redirected it.
InodeMatchesEntry ==
    full \/ \A nm \in DOMAIN fs.dentry :
                LET i == fs.inode[fs.dentry[nm]]
                    e == fs.dir[i.off]
                IN  e.k = "live" /\ e.n = nm /\ e.first = i.first /\ e.size = i.size

Reads(nm, j) ==
    LET g == jlos_vfs_lookup(fs, nm)
        i == g.dentry[nm]
    IN  jlos_fs_page_get(g, i, j - 1).pages[i][j - 1].v

\* A file reads back what was last written to it, through any evictions,
\* truncations and operations on other files.
FileContent ==
    \A nm \in DOMAIN want :
        LET g == jlos_vfs_lookup(fs, nm)
        IN  /\ Found(fs, nm) => g.inode[g.dentry[nm]].size = Len(want[nm])
            /\ \A j \in 1 .. Len(want[nm]) : want[nm][j] => Reads(nm, j) = nm

\* The same as long as no file is unlinked: the pages of an unlinked file
\* stay cached, and are written to clusters that may be another file's.
FileContentKept == removed \/ FileContent

\* The table of clusters, the directory, the inodes and the cached pages
\* describe the same files.
FtSound ==
    /\ FtTypeOK /\ ChainsSound /\ NoClusterLeak
    /\ EntriesReachable /\ InodeMatchesEntry /\ FileContentKept
=============================================================================
