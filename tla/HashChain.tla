----------------------------- MODULE HashChain -----------------------------
(***************************************************************************)
(* One bucket of the chained hash table: nodes linked by next and pprev,   *)
(* the address of the word that points to the node.                        *)
(*                                                                         *)
(* dsa/hash_chain.c.  Word 0 is the bucket's first pointer and word n the  *)
(* next pointer of node n; 0 as a pointer is null.  Every operation holds  *)
(* the table's lock.                                                       *)
(***************************************************************************)
EXTENDS Integers

NoWord == -1        \* pprev of a node that was never inserted

jlos_hash_chain_init(nodes) ==
    [word |-> [n \in {0} \cup nodes |-> 0], pprev |-> [n \in nodes |-> NoWord]]

jlos_hash_chain_insert(C, n) ==
    LET first == C.word[0]
        C1 == [C EXCEPT !.word[n] = first, !.word[0] = n]
        C2 == IF first = 0 THEN C1 ELSE [C1 EXCEPT !.pprev[first] = n]
    IN  [C2 EXCEPT !.pprev[n] = 0]

\* pprev of the removed node keeps its value.
jlos_hash_chain_remove(C, n) ==
    LET C1 == IF C.pprev[n] = NoWord THEN C ELSE [C EXCEPT !.word[C.pprev[n]] = C.word[n]]
        next == C1.word[n]
    IN  IF next = 0 THEN C1 ELSE [C1 EXCEPT !.pprev[next] = C.pprev[n]]

RECURSIVE Walk(_, _, _)
Walk(C, n, seen) ==
    IF n = 0 \/ n \in seen THEN seen ELSE Walk(C, C.word[n], seen \cup {n})

\* The nodes a walk from the bucket visits, and whether it finds n.
jlos_hash_chain_for_each(C) == Walk(C, C.word[0], {})
jlos_hash_chain_see(C, n) == n \in jlos_hash_chain_for_each(C)
=============================================================================
