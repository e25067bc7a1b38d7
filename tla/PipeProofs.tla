----------------------------- MODULE PipeProofs -----------------------------
(***************************************************************************)
(* Proofs about the pipe for any number of readers and writers, any size   *)
(* of the ring and any length of the calls: the stream stays in order, and *)
(* neither a byte nor, while the pipe is open, a free slot is without a    *)
(* token.                                                                  *)
(*                                                                         *)
(* IInv is inductive.  InOrder needs that a copy is never longer than the  *)
(* room or the data; the two token counts need that a round of either loop *)
(* has something left to transfer, or a task could spend a token on        *)
(* nothing while there is data for it (Rounds).                            *)
(***************************************************************************)
EXTENDS Pipe, FiniteSetTheorems, TLAPS

\* A leaf is proved by Zenon unless it names SMT.
USE ZenonT(30)

\* A call that is going to copy wants at least one byte; the posts that
\* follow a copy are at most a ring's length.
Rounds ==
    \A t \in Task :
        /\ pc[t] \in {"waitslot", "slot", "write", "waititem", "item", "read"} => todo[t] > 0
        /\ posts[t] <= Size

IInv == TypeOK /\ Rounds /\ InOrder /\ ItemsCovered /\ SlotsCovered

-----------------------------------------------------------------------------
\* What % does within one turn of the ring in either direction.
Turn(x, S) == IF x < 0 THEN x + S ELSE IF x < S THEN x ELSE x - S

LEMMA ModTurn ==
    ASSUME NEW S \in Nat \ {0}, NEW x \in -S .. 2 * S - 1
    PROVE  x % S = Turn(x, S) /\ Turn(x, S) \in 0 .. S - 1
BY SMTT(30) DEF Turn

LEMMA MinOfThree ==
    ASSUME NEW a \in Int, NEW b \in Int, NEW c \in Int
    PROVE  LET n == Min({a, b, c})
           IN  n \in {a, b, c} /\ n <= a /\ n <= b /\ n <= c
<1>1. \E x \in {a, b, c} : \A y \in {a, b, c} : x <= y
    BY SMTT(30)
<1>2. QED
    BY <1>1 DEF Min

\* The tasks at some places, and the posts that tasks of S there have to make.
Here(f, L) == {u \in Task : f[u] \in L}
Due(S, f, q, L) == {p \in S \X (1 .. Size) : f[p[1]] \in L /\ p[2] <= q[p[1]]}

\* The number of tasks at some places, when one task moves.
LEMMA PlaceCount ==
    ASSUME NEW f, NEW g, NEW t \in Task, NEW L,
           \A u \in Task \ {t} : g[u] = f[u]
    PROVE  /\ Cardinality(Here(f, L)) \in Nat /\ Cardinality(Here(g, L)) \in Nat
           /\ Cardinality(Here(g, L)) + (IF f[t] \in L THEN 1 ELSE 0)
                = Cardinality(Here(f, L)) + (IF g[t] \in L THEN 1 ELSE 0)
<1> DEFINE R == Here(f, L) \ {t}
<1>1. IsFiniteSet(R) /\ Cardinality(R) \in Nat
    BY PipeAssumption, FS_Subset, FS_CardinalityType DEF Here
<1>2. Cardinality(R \cup {t}) = Cardinality(R) + 1
    BY <1>1, FS_AddElement
<1>3. /\ Here(f, L) = IF f[t] \in L THEN R \cup {t} ELSE R
      /\ Here(g, L) = IF g[t] \in L THEN R \cup {t} ELSE R
    BY SMTT(30) DEF Here
<1> HIDE DEF R
<1>4. QED
    BY <1>1, <1>2, <1>3, SMTT(30)

\* The posts outstanding at some places: those of one task, and the others.
LEMMA PostsSplit ==
    ASSUME NEW f, NEW q, NEW t \in Task, NEW L, q[t] \in 0 .. Size
    PROVE  /\ Cardinality(Due(Task, f, q, L)) \in Nat
           /\ Cardinality(Due(Task \ {t}, f, q, L)) \in Nat
           /\ Cardinality(Due(Task, f, q, L))
                = Cardinality(Due(Task \ {t}, f, q, L)) + (IF f[t] \in L THEN q[t] ELSE 0)
<1> DEFINE all == Due(Task, f, q, L)
           rest == Due(Task \ {t}, f, q, L)
           own == {t} \X (1 .. q[t])
<1>1. IsFiniteSet(1 .. Size) /\ IsFiniteSet(1 .. q[t]) /\ Cardinality(1 .. q[t]) = q[t]
  <2>1. ASSUME NEW n \in Nat
        PROVE  IsFiniteSet(1 .. n) /\ Cardinality(1 .. n) = n
      BY FS_Interval, SMTT(30)
  <2>2. Size \in Nat /\ q[t] \in Nat
      BY PipeAssumption, SMTT(30)
  <2>3. QED
      BY <2>1, <2>2
<1>2. IsFiniteSet(Task \X (1 .. Size))
    BY <1>1, PipeAssumption, FS_Product
<1>3. IsFiniteSet(all) /\ IsFiniteSet(rest)
    BY <1>2, FS_Subset, SMTT(30) DEF Due
<1>4. Cardinality(all) \in Nat /\ Cardinality(rest) \in Nat
    BY <1>3, FS_CardinalityType
<1>5. IsFiniteSet(own) /\ Cardinality(own) = q[t]
  <2>1. IsFiniteSet({t}) /\ Cardinality({t}) = 1
      BY FS_Singleton
  <2>2. IsFiniteSet(own) /\ Cardinality(own) = Cardinality({t}) * Cardinality(1 .. q[t])
      BY <1>1, <2>1, FS_Product
  <2>3. QED
      BY <1>1, <2>1, <2>2, SMTT(30)
<1>6. CASE f[t] \in L
  <2>1. all = rest \cup own /\ rest \cap own = {}
      BY <1>6, PipeAssumption, SMTT(30) DEF Due
  <2>2. Cardinality(all) = Cardinality(rest) + Cardinality(own) - Cardinality({})
    <3> HIDE DEF all, rest, own
    <3>1. QED
        BY <1>3, <1>5, <2>1, FS_Union, SMTT(30)
  <2>3. QED
      BY <1>4, <1>5, <1>6, <2>2, FS_EmptySet, SMTT(30)
<1>7. CASE f[t] \notin L
  <2>1. all = rest
      BY <1>7 DEF Due
  <2>2. QED
      BY <1>4, <1>7, <2>1, SMTT(30)
<1>8. QED
    BY <1>6, <1>7

\* The token counts when task t takes a step and every other task stays where
\* it is.
LEMMA CountsStep ==
    ASSUME Rounds, Rounds', TypeOK, TypeOK', NEW t \in Task, NEW L,
           \A u \in Task \ {t} : pc'[u] = pc[u] /\ posts'[u] = posts[u]
    PROVE  /\ At(L) \in Nat /\ At(L)' \in Nat /\ Pending(L) \in Nat /\ Pending(L)' \in Nat
           /\ At(L)' + (IF pc[t] \in L THEN 1 ELSE 0) = At(L) + (IF pc'[t] \in L THEN 1 ELSE 0)
           /\ Pending(L)' + (IF pc[t] \in L THEN posts[t] ELSE 0)
                = Pending(L) + (IF pc'[t] \in L THEN posts'[t] ELSE 0)
<1>1. posts[t] \in 0 .. Size /\ posts'[t] \in 0 .. Size
    BY PipeAssumption, SMTT(30) DEF TypeOK, Rounds
<1>2. Due(Task \ {t}, pc, posts, L) = Due(Task \ {t}, pc', posts', L)
    BY DEF Due
<1>3. /\ At(L) = Cardinality(Here(pc, L)) /\ At(L)' = Cardinality(Here(pc', L))
      /\ Pending(L) = Cardinality(Due(Task, pc, posts, L))
      /\ Pending(L)' = Cardinality(Due(Task, pc', posts', L))
    BY DEF At, Pending, Here, Due
<1>4. QED
    BY <1>1, <1>2, <1>3, PlaceCount, PostsSplit, SMTT(30)

\* The tokens of either kind that a task at place l with p posts to make has in
\* hand or has still to post.
ItemsOf(l, p) == IF l \in {"item", "read"} THEN 1 ELSE IF l = "postitem" THEN p ELSE 0
SlotsOf(l, p) == IF l \in {"slot", "write"} THEN 1
                 ELSE IF l \in {"copied", "postslot"} THEN p ELSE 0

\* A step of one task keeps the two token counts if it balances its own
\* account, or leaves nothing to be covered.
LEMMA TokensStep ==
    ASSUME TypeOK, TypeOK', Rounds, Rounds', ItemsCovered, SlotsCovered, NEW t \in Task,
           \A u \in Task \ {t} : pc'[u] = pc[u] /\ posts'[u] = posts[u],
           \/ count' = 0
           \/ items' + ItemsOf(pc'[t], posts'[t]) - count' >= items + ItemsOf(pc[t], posts[t]) - count,
           \/ closed' \/ count' = Size
           \/ /\ ~closed
              /\ slots' + SlotsOf(pc'[t], posts'[t]) + count'
                    >= slots + SlotsOf(pc[t], posts[t]) + count
    PROVE  ItemsCovered' /\ SlotsCovered'
<1> DEFINE I == {"item", "read"}
           PI == {"postitem"}
           S == {"slot", "write"}
           PS == {"copied", "postslot"}
<1>1. /\ count \in Nat /\ count' \in Nat /\ items \in Nat /\ items' \in Nat
      /\ slots \in Nat /\ slots' \in Nat /\ posts[t] \in Nat /\ posts'[t] \in Nat
      /\ Size \in Nat
    BY PipeAssumption, SMTT(30) DEF TypeOK
<1>2. ItemsCovered'
  <2>1. /\ At(I) \in Nat /\ At(I)' \in Nat /\ Pending(PI) \in Nat /\ Pending(PI)' \in Nat
        /\ At(I)' + (IF pc[t] \in I THEN 1 ELSE 0) = At(I) + (IF pc'[t] \in I THEN 1 ELSE 0)
        /\ Pending(PI)' + (IF pc[t] \in PI THEN posts[t] ELSE 0)
             = Pending(PI) + (IF pc'[t] \in PI THEN posts'[t] ELSE 0)
      BY CountsStep
  <2>2. QED
      BY <1>1, <2>1, SMTT(30) DEF ItemsCovered, ItemsOf
<1>3. SlotsCovered'
  <2>1. /\ At(S) \in Nat /\ At(S)' \in Nat /\ Pending(PS) \in Nat /\ Pending(PS)' \in Nat
        /\ At(S)' + (IF pc[t] \in S THEN 1 ELSE 0) = At(S) + (IF pc'[t] \in S THEN 1 ELSE 0)
        /\ Pending(PS)' + (IF pc[t] \in PS THEN posts[t] ELSE 0)
             = Pending(PS) + (IF pc'[t] \in PS THEN posts'[t] ELSE 0)
      BY CountsStep
  <2>2. QED
      BY <1>1, <2>1, SMTT(30) DEF SlotsCovered, SlotsOf
<1>4. QED
    BY <1>2, <1>3

-----------------------------------------------------------------------------
\* InOrder with the turns of the ring written out.
Ring(rp, wp, c, wr, rd) ==
    /\ rp \in Slot /\ wp \in Slot /\ c \in 0 .. Size
    /\ wr \in 0 .. Bytes - 1 /\ rd \in 0 .. Bytes - 1
Ordered(b, rp, wp, c, wr, rd) ==
    /\ Turn(wr - rd, Bytes) = c
    /\ wp = Turn(rp + c, Size)
    /\ \A i \in 0 .. c - 1 : b[Turn(rp + i, Size)] = Turn(rd + i, Bytes)

LEMMA OrderTurns ==
    ASSUME NEW b, NEW rp, NEW wp, NEW c, NEW wr, NEW rd, Ring(rp, wp, c, wr, rd)
    PROVE  Ordered(b, rp, wp, c, wr, rd)
             <=> /\ (wr - rd) % Bytes = c
                 /\ wp = (rp + c) % Size
                 /\ \A i \in 0 .. c - 1 : b[(rp + i) % Size] = (rd + i) % Bytes
<1>1. /\ Size \in Nat \ {0} /\ Bytes \in Nat \ {0} /\ Bytes > Size
      /\ rp \in 0 .. Size - 1 /\ c \in 0 .. Size
      /\ wr \in 0 .. Bytes - 1 /\ rd \in 0 .. Bytes - 1
    BY PipeAssumption, SMTT(30) DEF Ring, Slot
<1>2. (wr - rd) % Bytes = Turn(wr - rd, Bytes) /\ (rp + c) % Size = Turn(rp + c, Size)
  <2>1. wr - rd \in -Bytes .. 2 * Bytes - 1 /\ rp + c \in -Size .. 2 * Size - 1
      BY <1>1, SMTT(30)
  <2>2. QED
      BY <1>1, <2>1, ModTurn
<1>3. ASSUME NEW i \in 0 .. c - 1
      PROVE  (rp + i) % Size = Turn(rp + i, Size) /\ (rd + i) % Bytes = Turn(rd + i, Bytes)
  <2>1. rp + i \in -Size .. 2 * Size - 1 /\ rd + i \in -Bytes .. 2 * Bytes - 1
      BY <1>1, SMTT(30)
  <2>2. QED
      BY <1>1, <2>1, ModTurn
<1>4. QED
    BY <1>2, <1>3 DEF Ordered

\* The copy loop of jlos_pipe_write appends to the stream in the ring, also
\* where it reaches the end of the buffer.
LEMMA CopyInOrder ==
    ASSUME TypeOK, InOrder, NEW t \in Task, NEW n \in 0 .. Size - count, CopyIn(t, n)
    PROVE  /\ InOrder' /\ buffer' \in [Slot -> 0 .. Bytes - 1]
           /\ write_pos' \in Slot /\ count' \in 0 .. Size /\ written' \in 0 .. Bytes - 1
<1>1. /\ Size \in Nat \ {0} /\ Bytes \in Nat \ {0} /\ Bytes > Size
      /\ count \in 0 .. Size /\ read_pos \in 0 .. Size - 1 /\ write_pos \in 0 .. Size - 1
      /\ written \in 0 .. Bytes - 1 /\ read \in 0 .. Bytes - 1
    BY PipeAssumption, SMTT(30) DEF TypeOK, Slot
<1>2. /\ read' = read /\ read_pos' = read_pos /\ count' = count + n
      /\ written' = Turn(written + n, Bytes) /\ write_pos' = Turn(write_pos + n, Size)
      /\ written' \in 0 .. Bytes - 1 /\ write_pos' \in 0 .. Size - 1
  <2>1. /\ written + n \in -Bytes .. 2 * Bytes - 1
        /\ write_pos + n \in -Size .. 2 * Size - 1
      BY <1>1, SMTT(30)
  <2>2. QED
      BY <1>1, <2>1, ModTurn DEF CopyIn
<1>3. ASSUME NEW j \in Slot
      PROVE  /\ Turn(j - write_pos, Size) \in 0 .. Size - 1
             /\ buffer'[j] = IF Turn(j - write_pos, Size) < n
                             THEN Turn(written + Turn(j - write_pos, Size), Bytes)
                             ELSE buffer[j]
  <2>1. /\ j - write_pos \in -Size .. 2 * Size - 1
      BY <1>1, SMTT(30) DEF Slot
  <2>2. /\ (j - write_pos) % Size = Turn(j - write_pos, Size)
        /\ Turn(j - write_pos, Size) \in 0 .. Size - 1
      BY <1>1, <2>1, ModTurn
  <2>3. written + Turn(j - write_pos, Size) \in -Bytes .. 2 * Bytes - 1
      BY <1>1, <2>2, SMTT(30)
  <2>4. (written + Turn(j - write_pos, Size)) % Bytes
            = Turn(written + Turn(j - write_pos, Size), Bytes)
      BY <1>1, <2>3, ModTurn
  <2>5. buffer' = [i \in Slot |-> IF (i - write_pos) % Size < n
                                  THEN (written + ((i - write_pos) % Size)) % Bytes
                                  ELSE buffer[i]]
      BY DEF CopyIn
  <2>6. buffer'[j] = IF (j - write_pos) % Size < n
                     THEN (written + ((j - write_pos) % Size)) % Bytes ELSE buffer[j]
      BY <2>5
  <2>7. QED
      BY <2>2, <2>4, <2>6
<1>4. buffer' \in [Slot -> 0 .. Bytes - 1]
  <2>1. ASSUME NEW j \in Slot PROVE buffer'[j] \in 0 .. Bytes - 1
    <3>1. CASE Turn(j - write_pos, Size) < n
        BY <1>1, <1>3, <3>1, SMTT(30) DEF Turn
    <3>2. CASE ~(Turn(j - write_pos, Size) < n)
        BY <1>3, <3>2 DEF TypeOK
    <3>3. QED
        BY <3>1, <3>2
  <2>2. QED
      BY <2>1 DEF CopyIn
<1>5. Ordered(buffer, read_pos, write_pos, count, written, read)
    BY OrderTurns DEF TypeOK, InOrder, Ring
<1>6. /\ Turn(written - read, Bytes) = count
      /\ write_pos = Turn(read_pos + count, Size)
    BY <1>5 DEF Ordered
<1>7. /\ Turn(written' - read', Bytes) = count'
      /\ write_pos' = Turn(read_pos' + count', Size)
    BY <1>1, <1>2, <1>6, SMTT(30) DEF Turn
<1>8. ASSUME NEW i \in 0 .. count' - 1
      PROVE  buffer'[Turn(read_pos' + i, Size)] = Turn(read' + i, Bytes)
  <2> DEFINE j == Turn(read_pos + i, Size)
  <2>1. j \in Slot /\ i \in Nat
      BY <1>1, <1>2, SMTT(30) DEF Slot, Turn
  <2>2. CASE i < count
    <3>1. Turn(j - write_pos, Size) >= n
        BY <1>1, <1>6, <2>1, <2>2, SMTT(30) DEF Slot, Turn
    <3>2. buffer[j] = Turn(read + i, Bytes)
        BY <1>1, <1>5, <2>1, <2>2, SMTT(30) DEF Ordered
    <3> HIDE DEF j
    <3>3. buffer'[j] = buffer[j]
        BY <1>3, <2>1, <3>1, SMTT(30)
    <3>4. QED
        BY <1>2, <3>2, <3>3 DEF j
  <2>3. CASE i >= count
    <3>1. Turn(j - write_pos, Size) = i - count
        BY <1>1, <1>2, <1>6, <2>1, <2>3, SMTT(30) DEF Slot, Turn
    <3>2. Turn(written + (i - count), Bytes) = Turn(read + i, Bytes)
        BY <1>1, <1>2, <1>6, <2>1, <2>3, SMTT(30) DEF Turn
    <3> HIDE DEF j
    <3>3. buffer'[j] = Turn(written + (i - count), Bytes)
        BY <1>1, <1>2, <1>3, <2>1, <2>3, <3>1, SMTT(30)
    <3>4. QED
        BY <1>2, <3>2, <3>3 DEF j
  <2>4. QED
      BY <1>1, <2>1, <2>2, <2>3, SMTT(30)
<1>9. Ordered(buffer', read_pos', write_pos', count', written', read')
    BY <1>7, <1>8 DEF Ordered
<1>10. Ring(read_pos', write_pos', count', written', read')
    BY <1>1, <1>2, SMTT(30) DEF Ring, Slot
<1>11. InOrder'
    BY <1>9, <1>10, OrderTurns, SMTT(30) DEF InOrder
<1>12. QED
    BY <1>4, <1>10, <1>11 DEF Ring

\* The copy loop of jlos_pipe_read takes from the front of the stream.
LEMMA CopyOutOrder ==
    ASSUME TypeOK, InOrder, NEW t \in Task, NEW n \in 0 .. count, CopyOut(t, n)
    PROVE  /\ InOrder' /\ read_pos' \in Slot /\ count' \in 0 .. Size /\ read' \in 0 .. Bytes - 1
<1>1. /\ Size \in Nat \ {0} /\ Bytes \in Nat \ {0} /\ Bytes > Size
      /\ count \in 0 .. Size /\ read_pos \in 0 .. Size - 1 /\ write_pos \in 0 .. Size - 1
      /\ written \in 0 .. Bytes - 1 /\ read \in 0 .. Bytes - 1
    BY PipeAssumption, SMTT(30) DEF TypeOK, Slot
<1>2. /\ written' = written /\ write_pos' = write_pos /\ buffer' = buffer
      /\ count' = count - n
      /\ read' = Turn(read + n, Bytes) /\ read_pos' = Turn(read_pos + n, Size)
      /\ read' \in 0 .. Bytes - 1 /\ read_pos' \in 0 .. Size - 1
  <2>1. read + n \in -Bytes .. 2 * Bytes - 1 /\ read_pos + n \in -Size .. 2 * Size - 1
      BY <1>1, SMTT(30)
  <2>2. QED
      BY <1>1, <2>1, ModTurn DEF CopyOut
<1>3. Ordered(buffer, read_pos, write_pos, count, written, read)
    BY OrderTurns DEF TypeOK, InOrder, Ring
<1>4. /\ Turn(written - read, Bytes) = count
      /\ write_pos = Turn(read_pos + count, Size)
    BY <1>3 DEF Ordered
<1>5. /\ Turn(written' - read', Bytes) = count'
      /\ write_pos' = Turn(read_pos' + count', Size)
    BY <1>1, <1>2, <1>4, SMTT(30) DEF Turn
<1>6. ASSUME NEW i \in 0 .. count' - 1
      PROVE  buffer'[Turn(read_pos' + i, Size)] = Turn(read' + i, Bytes)
  <2>1. n + i \in 0 .. count - 1
      BY <1>1, <1>2, SMTT(30)
  <2>2. buffer[Turn(read_pos + (n + i), Size)] = Turn(read + (n + i), Bytes)
      BY <1>3, <2>1 DEF Ordered
  <2>3. Turn(read_pos' + i, Size) = Turn(read_pos + (n + i), Size)
      BY <1>1, <1>2, <2>1, SMTT(30) DEF Turn
  <2>4. Turn(read' + i, Bytes) = Turn(read + (n + i), Bytes)
      BY <1>1, <1>2, <2>1, SMTT(30) DEF Turn
  <2>5. QED
      BY <1>2, <2>2, <2>3, <2>4
<1>7. Ordered(buffer', read_pos', write_pos', count', written', read')
    BY <1>5, <1>6 DEF Ordered
<1>8. Ring(read_pos', write_pos', count', written', read')
    BY <1>1, <1>2, SMTT(30) DEF Ring, Slot
<1>9. InOrder'
    BY <1>7, <1>8, OrderTurns, SMTT(30) DEF InOrder
<1>10. QED
    BY <1>8, <1>9 DEF Ring

-----------------------------------------------------------------------------
LEMMA LenPositive == \A t \in Task : Len[t] \in Nat /\ Len[t] >= 1
BY PipeAssumption, SMTT(30)

LEMMA InitInv == Init => IInv
<1> SUFFICES ASSUME Init PROVE IInv
    OBVIOUS
<1>1. TypeOK /\ Rounds
  <2>1. /\ 0 \in Slot /\ 0 \in 0 .. Bytes - 1 /\ Size \in Nat
        /\ \A t \in Task : 0 \in 0 .. Len[t]
      BY PipeAssumption, LenPositive, SMTT(30) DEF Slot
  <2>2. buffer \in [Slot -> 0 .. Bytes - 1] /\ closed \in BOOLEAN
      BY <2>1 DEF Init
  <2>3. /\ \A t \in Task : todo[t] = 0 /\ posts[t] = 0 /\ pc[t] = "out"
        /\ DOMAIN todo = Task /\ DOMAIN posts = Task /\ pc = [t \in Task |-> "out"]
      BY DEF Init
  <2>4. Rounds
      BY <2>1, <2>3, SMTT(30) DEF Rounds
  <2>5. QED
      BY <2>1, <2>2, <2>3, <2>4, PipeAssumption, SMTT(30) DEF Init, TypeOK
<1>2. InOrder
  <2>1. Ring(read_pos, write_pos, count, written, read)
      BY PipeAssumption, SMTT(30) DEF Init, Ring, Slot
  <2>2. Ordered(buffer, read_pos, write_pos, count, written, read)
      BY PipeAssumption, SMTT(30) DEF Init, Ordered, Turn
  <2>3. QED
      BY <2>1, <2>2, OrderTurns, SMTT(30) DEF InOrder
<1>3. ASSUME NEW L PROVE At(L) \in Nat /\ Pending(L) \in Nat
  <2>1. IsFiniteSet(Task \X (1 .. Size))
    <3>1. IsFiniteSet(1 .. Size)
        BY PipeAssumption, FS_Interval, SMTT(30)
    <3>2. QED
        BY <3>1, PipeAssumption, FS_Product
  <2>2. IsFiniteSet(Here(pc, L)) /\ IsFiniteSet(Due(Task, pc, posts, L))
      BY <2>1, PipeAssumption, FS_Subset DEF Here, Due
  <2>3. QED
      BY <2>2, FS_CardinalityType DEF At, Pending, Here, Due
<1>4. ItemsCovered
    BY <1>3, SMTT(30) DEF Init, ItemsCovered
<1>5. SlotsCovered
    BY <1>3, PipeAssumption, SMTT(30) DEF Init, SlotsCovered
<1>6. QED
    BY <1>1, <1>2, <1>4, <1>5 DEF IInv

Labels == {"out", "waitslot", "slot", "write", "postitem", "waititem", "item", "read", "copied",
           "postslot", "closeitem", "closeslot", "gone"}

\* The fields of the pipe and of one task.
LEMMA TaskFacts ==
    ASSUME TypeOK, Rounds, NEW t \in Task
    PROVE  /\ items \in Nat /\ slots \in Nat /\ closed \in BOOLEAN /\ Size \in Nat
           /\ todo[t] \in 0 .. Len[t] /\ todo[t] \in Nat
           /\ posts[t] \in 0 .. Len[t] /\ posts[t] \in 0 .. Size /\ posts[t] \in Nat
           /\ Len[t] \in 0 .. Len[t] /\ Len[t] > 0 /\ 0 \in 0 .. Len[t] /\ 0 \in 0 .. Size
BY LenPositive, PipeAssumption, SMTT(30) DEF TypeOK, Rounds

\* A task moves on to place l, with n bytes left and p posts to make.
Moves(t, l, n, p) ==
    /\ pc'[t] = l /\ todo'[t] = n /\ posts'[t] = p
    /\ \A u \in Task : u # t => pc'[u] = pc[u] /\ todo'[u] = todo[u] /\ posts'[u] = posts[u]
    /\ pc' \in [Task -> Labels] /\ DOMAIN todo' = Task /\ DOMAIN posts' = Task

LEMMA MovesFacts ==
    ASSUME TypeOK, NEW t \in Task, NEW l \in Labels,
           pc' = [pc EXCEPT ![t] = l] \/ (pc' = pc /\ pc[t] = l)
    PROVE  /\ UNCHANGED <<todo, posts>> => Moves(t, l, todo[t], posts[t])
           /\ \A n : todo' = [todo EXCEPT ![t] = n] /\ UNCHANGED posts => Moves(t, l, n, posts[t])
           /\ \A p : UNCHANGED todo /\ posts' = [posts EXCEPT ![t] = p] => Moves(t, l, todo[t], p)
           /\ \A n, p : todo' = [todo EXCEPT ![t] = n] /\ posts' = [posts EXCEPT ![t] = p]
                => Moves(t, l, n, p)
<1>1. /\ pc'[t] = l /\ pc' \in [Task -> Labels]
      /\ \A u \in Task : u # t => pc'[u] = pc[u]
    BY DEF TypeOK, Labels
<1>2. DOMAIN todo = Task /\ DOMAIN posts = Task
    BY DEF TypeOK
<1>3. QED
    BY <1>1, <1>2 DEF Moves

\* A step that leaves the ring alone and balances the tokens of its task.
LEMMA RoundStep ==
    ASSUME IInv, NEW t \in Task, NEW l \in Labels, NEW n \in 0 .. Len[t], NEW p \in 0 .. Len[t],
           Moves(t, l, n, p), UNCHANGED ring, p \in 0 .. Size,
           closed' \in BOOLEAN, items' \in Nat, slots' \in Nat,
           l \in {"waitslot", "slot", "write", "waititem", "item", "read"} => n > 0,
           items' + ItemsOf(l, p) >= items + ItemsOf(pc[t], posts[t]),
           \/ closed'
           \/ ~closed /\ slots' + SlotsOf(l, p) >= slots + SlotsOf(pc[t], posts[t])
    PROVE  IInv'
<1>0. TypeOK /\ Rounds /\ InOrder /\ ItemsCovered /\ SlotsCovered
    BY DEF IInv
<1>1. UNCHANGED <<buffer, read_pos, write_pos, count, written, read>>
    BY DEF ring
<1>2. \A u \in Task : todo'[u] \in 0 .. Len[u] /\ posts'[u] \in 0 .. Len[u]
    BY <1>0 DEF Moves, TypeOK
<1>3. TypeOK'
    BY <1>0, <1>1, <1>2 DEF Moves, TypeOK, Labels
<1>4. Rounds'
  <2>1. p <= Size
      BY SMTT(30)
  <2>2. QED
      BY <1>0, <2>1 DEF Moves, Rounds
<1>5. ItemsCovered' /\ SlotsCovered'
  <2>1. /\ \A u \in Task \ {t} : pc'[u] = pc[u] /\ posts'[u] = posts[u]
        /\ pc'[t] = l /\ posts'[t] = p /\ count' = count
      BY <1>1 DEF Moves
  <2>2. count \in Int /\ ItemsOf(l, p) \in Int /\ ItemsOf(pc[t], posts[t]) \in Int
        /\ SlotsOf(l, p) \in Int /\ SlotsOf(pc[t], posts[t]) \in Int
        /\ items \in Int /\ slots \in Int
      BY <1>0, TaskFacts, SMTT(30) DEF TypeOK, ItemsOf, SlotsOf
  <2>3. items' + ItemsOf(pc'[t], posts'[t]) - count' >= items + ItemsOf(pc[t], posts[t]) - count
      BY <2>1, <2>2, SMTT(30)
  <2>4. \/ closed'
        \/ ~closed /\ slots' + SlotsOf(pc'[t], posts'[t]) + count'
                        >= slots + SlotsOf(pc[t], posts[t]) + count
      BY <2>1, <2>2, SMTT(30)
  <2>5. QED
      BY <1>0, <1>3, <1>4, <2>1, <2>3, <2>4, TokensStep
<1>6. InOrder'
    BY <1>0, <1>1 DEF InOrder
<1>7. QED
    BY <1>3, <1>4, <1>5, <1>6 DEF IInv

LEMMA NextInv == IInv /\ [Next]_vars => IInv'
<1> SUFFICES ASSUME IInv, [Next]_vars PROVE IInv'
    OBVIOUS
<1>0. TypeOK /\ Rounds /\ InOrder /\ ItemsCovered /\ SlotsCovered
    BY DEF IInv
<1>1. ASSUME NEW t \in Task, WriteCall(t) PROVE IInv'
  <2>1. /\ pc[t] = "out" /\ Moves(t, "waitslot", Len[t], posts[t])
        /\ items' = items /\ slots' = slots /\ closed' = closed /\ UNCHANGED ring
      BY <1>0, <1>1, MovesFacts DEF WriteCall, Goto, Labels
  <2>2. QED
      BY <1>0, <2>1, TaskFacts, RoundStep, SMTT(30) DEF ItemsOf, SlotsOf, Rounds, Labels
<1>2. ASSUME NEW t \in Task, WaitSlot(t) PROVE IInv'
  <2>1. /\ pc[t] = "waitslot" /\ Moves(t, "slot", todo[t], posts[t])
        /\ items' = items /\ slots > 0 /\ slots' = slots - 1 /\ closed' = closed /\ UNCHANGED ring
      BY <1>0, <1>2, MovesFacts DEF WaitSlot, Goto, Labels
  <2>2. QED
      BY <1>0, <2>1, TaskFacts, RoundStep, SMTT(30) DEF ItemsOf, SlotsOf, Rounds, Labels
<1>3. ASSUME NEW t \in Task, WriteCheck(t) PROVE IInv'
  <2>1. CASE closed
    <3>1. /\ pc[t] = "slot" /\ Moves(t, "out", 0, posts[t])
          /\ items' = items /\ slots' = slots + 1 /\ closed' = closed /\ UNCHANGED ring
        BY <1>0, <1>3, <2>1, MovesFacts DEF WriteCheck, Return, Goto, Labels
    <3>2. QED
        BY <1>0, <3>1, TaskFacts, RoundStep, SMTT(30) DEF ItemsOf, SlotsOf, Rounds, Labels
  <2>2. CASE ~closed
    <3>1. /\ pc[t] = "slot" /\ Moves(t, "write", todo[t], posts[t])
          /\ items' = items /\ slots' = slots /\ closed' = closed /\ UNCHANGED ring
        BY <1>0, <1>3, <2>2, MovesFacts DEF WriteCheck, Goto, Labels
    <3>2. QED
        BY <1>0, <3>1, TaskFacts, RoundStep, SMTT(30) DEF ItemsOf, SlotsOf, Rounds, Labels
  <2>3. QED
      BY <2>1, <2>2
<1>4. ASSUME NEW t \in Task, WriteCopy(t) PROVE IInv'
  <2> DEFINE n == Min({todo[t], Size - count, Size - write_pos})
  <2>1. /\ todo[t] \in 1 .. Len[t] /\ count \in 0 .. Size /\ write_pos \in 0 .. Size - 1
        /\ Size \in Nat \ {0} /\ items \in Nat /\ slots \in Nat /\ pc[t] = "write"
      BY <1>0, <1>4, PipeAssumption, SMTT(30) DEF TypeOK, Rounds, WriteCopy, Slot
  <2>2. /\ n \in 0 .. Size - count /\ n <= todo[t] /\ (n = 0 => count = Size)
    <3>1. todo[t] \in Int /\ Size - count \in Int /\ Size - write_pos \in Int
        BY <2>1, PipeAssumption, SMTT(30)
    <3>2. /\ n \in {todo[t], Size - count, Size - write_pos}
          /\ n <= todo[t] /\ n <= Size - count /\ n <= Size - write_pos
        BY <3>1, MinOfThree
    <3> HIDE DEF n
    <3>3. QED
        BY <2>1, <3>2, SMTT(30)
  <2>3. /\ CopyIn(t, n) /\ posts' = [posts EXCEPT ![t] = n]
        /\ pc' = [pc EXCEPT ![t] = "postitem"]
      BY <1>4 DEF WriteCopy, Goto
  <2> HIDE DEF n
  <2>4. /\ InOrder' /\ buffer' \in [Slot -> 0 .. Bytes - 1]
        /\ write_pos' \in Slot /\ count' \in 0 .. Size /\ written' \in 0 .. Bytes - 1
      BY <1>0, <2>2, <2>3, CopyInOrder
  <2>5. /\ todo[t] - n \in 0 .. Len[t] /\ n \in 0 .. Len[t] /\ n <= Size /\ n \in Int
      BY <1>0, <2>1, <2>2, LenPositive, SMTT(30)
  <2>6. Moves(t, "postitem", todo[t] - n, n)
      BY <1>0, <2>3, MovesFacts DEF CopyIn, Labels
  <2>7. TypeOK'
    <3>1. \A u \in Task : todo'[u] \in 0 .. Len[u] /\ posts'[u] \in 0 .. Len[u]
        BY <1>0, <2>5, <2>6 DEF Moves, TypeOK
    <3>2. QED
        BY <1>0, <2>3, <2>4, <2>6, <3>1 DEF CopyIn, Moves, TypeOK, Labels
  <2>8. Rounds'
      BY <1>0, <2>5, <2>6 DEF Moves, Rounds
  <2>9. ItemsCovered' /\ SlotsCovered'
    <3>1. /\ \A u \in Task \ {t} : pc'[u] = pc[u] /\ posts'[u] = posts[u]
          /\ pc'[t] = "postitem" /\ posts'[t] = n /\ count' = count + n
          /\ UNCHANGED <<closed, items, slots>>
        BY <2>3, <2>6 DEF CopyIn, Moves
    <3>2. /\ \/ count' = 0
             \/ items' + ItemsOf(pc'[t], posts'[t]) - count'
                   >= items + ItemsOf(pc[t], posts[t]) - count
          /\ \/ count' = Size
             \/ slots' + SlotsOf(pc'[t], posts'[t]) + count'
                   >= slots + SlotsOf(pc[t], posts[t]) + count
        BY <2>1, <2>2, <2>5, <3>1, SMTT(30) DEF ItemsOf, SlotsOf
    <3>3. QED
        BY <1>0, <2>7, <2>8, <3>1, <3>2, TokensStep
  <2>10. QED
      BY <2>4, <2>7, <2>8, <2>9 DEF IInv
<1>5. ASSUME NEW t \in Task, PostItem(t) PROVE IInv'
  <2>1. CASE posts[t] > 0
    <3>1. /\ pc[t] = "postitem" /\ Moves(t, "postitem", todo[t], posts[t] - 1)
          /\ items' = items + 1 /\ slots' = slots /\ closed' = closed /\ UNCHANGED ring
        BY <1>0, <1>5, <2>1, MovesFacts DEF PostItem, Labels
    <3>2. posts[t] - 1 \in 0 .. Len[t] /\ posts[t] - 1 \in 0 .. Size
        BY <1>0, <2>1, TaskFacts, SMTT(30)
    <3>3. items' \in Nat /\ slots' \in Nat
        BY <1>0, <3>1, TaskFacts, SMTT(30)
    <3>4. /\ items' + ItemsOf("postitem", posts[t] - 1) >= items + ItemsOf(pc[t], posts[t])
          /\ slots' + SlotsOf("postitem", posts[t] - 1) >= slots + SlotsOf(pc[t], posts[t])
        BY <1>0, <3>1, TaskFacts, SMTT(30) DEF ItemsOf, SlotsOf
    <3>5. QED
        BY <1>0, <3>1, <3>2, <3>3, <3>4, TaskFacts, RoundStep DEF Labels
  <2>2. CASE ~(posts[t] > 0)
    <3>0. PICK l \in {"out", "waitslot"} : l = IF todo[t] = 0 THEN "out" ELSE "waitslot"
        OBVIOUS
    <3>1. /\ pc[t] = "postitem" /\ Moves(t, l, todo[t], posts[t])
          /\ items' = items /\ slots' = slots /\ closed' = closed /\ UNCHANGED ring
        BY <1>0, <1>5, <2>2, <3>0, MovesFacts DEF PostItem, NextRound, Goto, Labels
    <3>2. l = "waitslot" => todo[t] > 0
        BY <1>0, <3>0, TaskFacts, SMTT(30)
    <3>3. /\ items' + ItemsOf(l, posts[t]) >= items + ItemsOf(pc[t], posts[t])
          /\ slots' + SlotsOf(l, posts[t]) >= slots + SlotsOf(pc[t], posts[t])
        BY <1>0, <2>2, <3>0, <3>1, TaskFacts, SMTT(30) DEF ItemsOf, SlotsOf
    <3>4. QED
        BY <1>0, <3>0, <3>1, <3>2, <3>3, TaskFacts, RoundStep DEF Labels
  <2>3. QED
      BY <2>1, <2>2
<1>6. ASSUME NEW t \in Task, ReadCall(t) PROVE IInv'
  <2>1. /\ pc[t] = "out" /\ Moves(t, "waititem", Len[t], posts[t])
        /\ items' = items /\ slots' = slots /\ closed' = closed /\ UNCHANGED ring
      BY <1>0, <1>6, MovesFacts DEF ReadCall, Goto, Labels
  <2>2. QED
      BY <1>0, <2>1, TaskFacts, RoundStep, SMTT(30) DEF ItemsOf, SlotsOf, Rounds, Labels
<1>7. ASSUME NEW t \in Task, WaitItem(t) PROVE IInv'
  <2>1. /\ pc[t] = "waititem" /\ Moves(t, "item", todo[t], posts[t])
        /\ items > 0 /\ items' = items - 1 /\ slots' = slots /\ closed' = closed /\ UNCHANGED ring
      BY <1>0, <1>7, MovesFacts DEF WaitItem, Goto, Labels
  <2>2. QED
      BY <1>0, <2>1, TaskFacts, RoundStep, SMTT(30) DEF ItemsOf, SlotsOf, Rounds, Labels
<1>8. ASSUME NEW t \in Task, ReadCheck(t) PROVE IInv'
  <2>1. CASE closed /\ count = 0
    <3>1. /\ pc[t] = "item" /\ Moves(t, "out", 0, posts[t])
          /\ items' = items + 1 /\ slots' = slots /\ closed' = closed /\ UNCHANGED ring
        BY <1>0, <1>8, <2>1, MovesFacts DEF ReadCheck, Return, Goto, Labels
    <3>2. QED
        BY <1>0, <3>1, TaskFacts, RoundStep, SMTT(30) DEF ItemsOf, SlotsOf, Rounds, Labels
  <2>2. CASE ~(closed /\ count = 0)
    <3>1. /\ pc[t] = "item" /\ Moves(t, "read", todo[t], posts[t])
          /\ items' = items /\ slots' = slots /\ closed' = closed /\ UNCHANGED ring
        BY <1>0, <1>8, <2>2, MovesFacts DEF ReadCheck, Goto, Labels
    <3>2. QED
        BY <1>0, <3>1, TaskFacts, RoundStep, SMTT(30) DEF ItemsOf, SlotsOf, Rounds, Labels
  <2>3. QED
      BY <2>1, <2>2
<1>9. ASSUME NEW t \in Task, ReadCopy(t) PROVE IInv'
  <2> DEFINE n == Min({todo[t], count, Size - read_pos})
  <2>1. /\ todo[t] \in 1 .. Len[t] /\ count \in 0 .. Size /\ read_pos \in 0 .. Size - 1
        /\ Size \in Nat \ {0} /\ items \in Nat /\ slots \in Nat /\ pc[t] = "read"
      BY <1>0, <1>9, PipeAssumption, SMTT(30) DEF TypeOK, Rounds, ReadCopy, Slot
  <2>2. /\ n \in 0 .. count /\ n <= todo[t] /\ (n = 0 => count = 0)
    <3>1. todo[t] \in Int /\ count \in Int /\ Size - read_pos \in Int
        BY <2>1, PipeAssumption, SMTT(30)
    <3>2. /\ n \in {todo[t], count, Size - read_pos}
          /\ n <= todo[t] /\ n <= count /\ n <= Size - read_pos
        BY <3>1, MinOfThree
    <3> HIDE DEF n
    <3>3. QED
        BY <2>1, <3>2, SMTT(30)
  <2>3. CopyOut(t, n) /\ pc' = [pc EXCEPT ![t] = "copied"]
      BY <1>9 DEF ReadCopy, Goto
  <2> HIDE DEF n
  <2>4. InOrder' /\ read_pos' \in Slot /\ count' \in 0 .. Size /\ read' \in 0 .. Bytes - 1
      BY <1>0, <2>2, <2>3, CopyOutOrder
  <2>5. /\ todo[t] - n \in 0 .. Len[t] /\ n \in 0 .. Len[t] /\ n <= Size /\ n \in Int
      BY <1>0, <2>1, <2>2, LenPositive, SMTT(30)
  <2>6. Moves(t, "copied", todo[t] - n, n)
      BY <1>0, <2>3, MovesFacts DEF CopyOut, Labels
  <2>7. TypeOK'
    <3>1. \A u \in Task : todo'[u] \in 0 .. Len[u] /\ posts'[u] \in 0 .. Len[u]
        BY <1>0, <2>5, <2>6 DEF Moves, TypeOK
    <3>2. QED
        BY <1>0, <2>3, <2>4, <2>6, <3>1 DEF CopyOut, Moves, TypeOK, Labels
  <2>8. Rounds'
      BY <1>0, <2>5, <2>6 DEF Moves, Rounds
  <2>9. ItemsCovered' /\ SlotsCovered'
    <3>1. /\ \A u \in Task \ {t} : pc'[u] = pc[u] /\ posts'[u] = posts[u]
          /\ pc'[t] = "copied" /\ posts'[t] = n /\ count' = count - n
          /\ UNCHANGED <<closed, items, slots>>
        BY <2>3, <2>6 DEF CopyOut, Moves
    <3>2. /\ \/ count' = 0
             \/ items' + ItemsOf(pc'[t], posts'[t]) - count'
                   >= items + ItemsOf(pc[t], posts[t]) - count
          /\ \/ count' = Size
             \/ slots' + SlotsOf(pc'[t], posts'[t]) + count'
                   >= slots + SlotsOf(pc[t], posts[t]) + count
        BY <2>1, <2>2, <2>5, <3>1, SMTT(30) DEF ItemsOf, SlotsOf
    <3>3. QED
        BY <1>0, <2>7, <2>8, <3>1, <3>2, TokensStep
  <2>10. QED
      BY <2>4, <2>7, <2>8, <2>9 DEF IInv
<1>10. ASSUME NEW t \in Task, ReadEnd(t) PROVE IInv'
  <2>1. CASE closed
    <3>1. /\ pc[t] = "copied" /\ Moves(t, IF todo[t] = 0 THEN "out" ELSE "waititem", todo[t], 0)
          /\ items' = items /\ slots' = slots /\ closed' /\ UNCHANGED ring
        BY <1>0, <1>10, <2>1, MovesFacts DEF ReadEnd, NextRound, Goto, Labels
    <3>2. QED
        BY <1>0, <3>1, TaskFacts, RoundStep, SMTT(30) DEF ItemsOf, SlotsOf, Rounds, Labels
  <2>2. CASE ~closed
    <3>1. /\ pc[t] = "copied" /\ Moves(t, "postslot", todo[t], posts[t])
          /\ items' = items /\ slots' = slots /\ closed' = closed /\ UNCHANGED ring
        BY <1>0, <1>10, <2>2, MovesFacts DEF ReadEnd, Goto, Labels
    <3>2. QED
        BY <1>0, <3>1, TaskFacts, RoundStep, SMTT(30) DEF ItemsOf, SlotsOf, Rounds, Labels
  <2>3. QED
      BY <2>1, <2>2
<1>11. ASSUME NEW t \in Task, PostSlot(t) PROVE IInv'
  <2>1. CASE posts[t] > 0
    <3>1. /\ pc[t] = "postslot" /\ Moves(t, "postslot", todo[t], posts[t] - 1)
          /\ items' = items /\ slots' = slots + 1 /\ closed' = closed /\ UNCHANGED ring
        BY <1>0, <1>11, <2>1, MovesFacts DEF PostSlot, Labels
    <3>2. posts[t] - 1 \in 0 .. Len[t] /\ posts[t] - 1 \in 0 .. Size
        BY <1>0, <2>1, TaskFacts, SMTT(30)
    <3>3. items' \in Nat /\ slots' \in Nat
        BY <1>0, <3>1, TaskFacts, SMTT(30)
    <3>4. /\ items' + ItemsOf("postslot", posts[t] - 1) >= items + ItemsOf(pc[t], posts[t])
          /\ slots' + SlotsOf("postslot", posts[t] - 1) >= slots + SlotsOf(pc[t], posts[t])
        BY <1>0, <3>1, TaskFacts, SMTT(30) DEF ItemsOf, SlotsOf
    <3>5. QED
        BY <1>0, <3>1, <3>2, <3>3, <3>4, TaskFacts, RoundStep DEF Labels
  <2>2. CASE ~(posts[t] > 0)
    <3>0. PICK l \in {"out", "waititem"} : l = IF todo[t] = 0 THEN "out" ELSE "waititem"
        OBVIOUS
    <3>1. /\ pc[t] = "postslot" /\ Moves(t, l, todo[t], posts[t])
          /\ items' = items /\ slots' = slots /\ closed' = closed /\ UNCHANGED ring
        BY <1>0, <1>11, <2>2, <3>0, MovesFacts DEF PostSlot, NextRound, Goto, Labels
    <3>2. l = "waititem" => todo[t] > 0
        BY <1>0, <3>0, TaskFacts, SMTT(30)
    <3>3. /\ items' + ItemsOf(l, posts[t]) >= items + ItemsOf(pc[t], posts[t])
          /\ slots' + SlotsOf(l, posts[t]) >= slots + SlotsOf(pc[t], posts[t])
        BY <1>0, <2>2, <3>0, <3>1, TaskFacts, SMTT(30) DEF ItemsOf, SlotsOf
    <3>4. QED
        BY <1>0, <3>0, <3>1, <3>2, <3>3, TaskFacts, RoundStep DEF Labels
  <2>3. QED
      BY <2>1, <2>2
<1>12. ASSUME NEW t \in Task, Close(t) PROVE IInv'
  <2>1. /\ pc[t] = "out" /\ Moves(t, "closeitem", todo[t], posts[t])
        /\ items' = items /\ slots' = slots /\ closed' /\ UNCHANGED ring
      BY <1>0, <1>12, MovesFacts DEF Close, Goto, Labels
  <2>2. QED
      BY <1>0, <2>1, TaskFacts, RoundStep, SMTT(30) DEF ItemsOf, SlotsOf, Rounds, Labels
<1>13. ASSUME NEW t \in Task, ClosePostItem(t) PROVE IInv'
  <2>1. /\ pc[t] = "closeitem" /\ Moves(t, "closeslot", todo[t], posts[t])
        /\ items' = items + 1 /\ slots' = slots /\ closed' = closed /\ UNCHANGED ring
      BY <1>0, <1>13, MovesFacts DEF ClosePostItem, Goto, Labels
  <2>2. QED
      BY <1>0, <2>1, TaskFacts, RoundStep, SMTT(30) DEF ItemsOf, SlotsOf, Rounds, Labels
<1>14. ASSUME NEW t \in Task, ClosePostSlot(t) PROVE IInv'
  <2>1. /\ pc[t] = "closeslot" /\ Moves(t, "gone", todo[t], posts[t])
        /\ items' = items /\ slots' = slots + 1 /\ closed' = closed /\ UNCHANGED ring
      BY <1>0, <1>14, MovesFacts DEF ClosePostSlot, Goto, Labels
  <2>2. QED
      BY <1>0, <2>1, TaskFacts, RoundStep, SMTT(30) DEF ItemsOf, SlotsOf, Rounds, Labels
<1>15. CASE UNCHANGED vars
    BY <1>0, <1>15 DEF vars, IInv, TypeOK, Rounds, InOrder, ItemsCovered, SlotsCovered,
                       At, Pending
<1>16. QED
    BY <1>1, <1>2, <1>3, <1>4, <1>5, <1>6, <1>7, <1>8, <1>9, <1>10, <1>11, <1>12, <1>13,
       <1>14, <1>15 DEF Next, WriteStep, ReadStep, CloseStep, Task

LEMMA Invariant == Spec => []IInv
BY InitInv, NextInv, PTL DEF Spec

-----------------------------------------------------------------------------
\* The fields of the pipe and of its calls keep their types: the positions
\* stay inside the buffer and count never exceeds buf_size.
THEOREM TypeCorrect == Spec => []TypeOK
BY Invariant, PTL DEF IInv

\* The bytes come out in the order they went in, for any number of readers and
\* writers and any place where the ring wraps.
THEOREM StreamInOrder == Spec => []InOrder
BY Invariant, PTL DEF IInv

\* Every byte in the ring has a token that leads a reader to it.
THEOREM NoByteStranded == Spec => []ItemsCovered
BY Invariant, PTL DEF IInv

\* Until the pipe is closed every free slot has a token that leads a writer to
\* it.
THEOREM NoSlotLost == Spec => []SlotsCovered
BY Invariant, PTL DEF IInv
=============================================================================
