----------------------------- MODULE MCStorage ------------------------------
(***************************************************************************)
(* The FAT32 file system, the page cache, and the tree and the timer wheel *)
(* the kernel is built on, in one run: the behaviours of each component    *)
(* are explored on their own, with the others at rest.                     *)
(***************************************************************************)
EXTENDS Fat32

CONSTANTS
    PcFile, PcTable, PcSector, PcVal, PcMax, RbNodes, RbSame, TwNode, TwBits1,
    TwBitsN, TwLag

VARIABLES
    part, \* the component whose behaviours are explored, fixed
    pc, pc_held, failed, tree, order, jiffies, expires, due, slot, fired

MCOnDisk == <<"a">>
MCDelay == -2 .. 15

Pc == INSTANCE PageCache WITH
    held <- pc_held
Rb == INSTANCE RbTree
Tw == INSTANCE TimerWheel WITH
    TwDelay <- MCDelay

page_cacheVars == <<pc, pc_held, failed>>
rbtreeVars == <<tree, order>>
wheelVars == <<jiffies, expires, due, slot, fired>>
allVars == <<part, ftVars, page_cacheVars, rbtreeVars, wheelVars>>

AtRest == "at rest"

\* The components that are not explored are at rest.
MCInit ==
    /\ part \in {"fat32", "page_cache", "rbtree", "wheel"}
    /\ FtInit /\ (part # "fat32" => fs.hint = -1)
    /\ Pc!PcInit
    /\ IF part = "rbtree" THEN Rb!RbInit
       ELSE /\ tree = AtRest /\ order = AtRest
    /\ IF part = "wheel" THEN Tw!TwInit
       ELSE /\ jiffies = AtRest /\ expires = AtRest /\ due = AtRest
            /\ slot = AtRest /\ fired = AtRest

\* A step of one component.
fat32Step ==
    part = "fat32" /\ UNCHANGED <<part, page_cacheVars, rbtreeVars, wheelVars>>
page_cacheStep ==
    part = "page_cache" /\ UNCHANGED <<part, ftVars, rbtreeVars, wheelVars>>
rbtreeStep ==
    part = "rbtree" /\ UNCHANGED <<part, ftVars, page_cacheVars, wheelVars>>
wheelStep ==
    part = "wheel" /\ UNCHANGED <<part, ftVars, page_cacheVars, rbtreeVars>>

\* These may come to a stop: everything is closed, destroyed or sent.
Stopped == part \in {"fat32"} /\ UNCHANGED allVars

MCNext ==
    \/ fat32Step /\ FtNext
    \/ page_cacheStep /\ Pc!PcNext
    \/ rbtreeStep /\ Rb!RbNext
    \/ wheelStep /\ Tw!TwNext
    \/ Stopped

MCSpec == MCInit /\ [][MCNext]_allVars

-----------------------------------------------------------------------------
\* The red-black tree is balanced, holds exactly what was inserted and not
\* removed, in order, and its searches agree with that set.
RbSound ==
    part = "rbtree" =>
        /\ Rb!RbBalanced /\ Rb!RbHoldsOrder
        /\ Rb!RbLookups

-----------------------------------------------------------------------------
\* A timer fires in the tick it is due, however it cascades through the
\* levels and wherever the counter wraps.
WheelOnTime == part = "wheel" => Tw!TwTypeOK /\ Tw!FiresOnTime

-----------------------------------------------------------------------------
\* The page cache is a window on the store: a page that is read is what was
\* last written, its list of unused pages is exact, and write-back loses
\* nothing.
CacheSound ==
    /\ [](part = "page_cache" => Pc!PcTypeOK /\ Pc!LruExact)
    /\ Pc!CacheIsStore
=============================================================================
