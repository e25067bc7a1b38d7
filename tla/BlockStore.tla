----------------------------- MODULE BlockStore -----------------------------
(***************************************************************************)
(* What the page cache promises the file system: an array of pages in      *)
(* which a sector keeps the value last written to it.  Only a failure of   *)
(* the device, or of memory, may lose what was written.                    *)
(***************************************************************************)
CONSTANTS Page, Sector, Val, Blank

VARIABLES store, failed

StoreInit == store = [p \in Page |-> [s \in Sector |-> Blank]] /\ failed = FALSE

Write(p, s, v) == store' = [store EXCEPT ![p][s] = v] /\ UNCHANGED failed

Lose ==
    /\ failed' = TRUE
    /\ store' \in [Page -> [Sector -> Val \cup {Blank}]]

StoreNext == Lose \/ \E p \in Page, s \in Sector, v \in Val : Write(p, s, v)

StoreSpec == StoreInit /\ [][StoreNext]_<<store, failed>>
=============================================================================
