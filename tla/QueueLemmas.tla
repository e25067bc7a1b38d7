----------------------------- MODULE QueueLemmas -----------------------------
(***************************************************************************)
(* Facts about queues without repetitions: what linking at either end,     *)
(* taking the first and unlinking an element do to the set of the queued.  *)
(* The kernel's lists are such queues, because a list node is linked in    *)
(* one place.                                                              *)
(***************************************************************************)
EXTENDS Integers, Sequences, TLAPS

\* A leaf is proved by Zenon unless it names SMT.
USE ZenonT(30)

Elements(q) == {q[i] : i \in 1 .. Len(q)}
Distinct(q) == \A i, j \in 1 .. Len(q) : q[i] = q[j] => i = j
Unlinked(q, k) == SubSeq(q, 1, k - 1) \o SubSeq(q, k + 1, Len(q))

(* What the operators on sequences return.                                 *)

\* A sequence is a function on 1 .. Len.
LEMMA SeqLen ==
    ASSUME NEW S, NEW q \in Seq(S)
    PROVE  /\ Len(q) \in Nat /\ DOMAIN q = 1 .. Len(q) /\ q \in [1 .. Len(q) -> S]
           /\ q = <<>> <=> Len(q) = 0
BY SMTT(30)

LEMMA SeqSame ==
    ASSUME NEW S, NEW p \in Seq(S), NEW q \in Seq(S), Len(p) = Len(q),
           \A i \in 1 .. Len(p) : p[i] = q[i]
    PROVE  p = q
BY SMTT(30)

LEMMA SeqAppend ==
    ASSUME NEW S, NEW q \in Seq(S), NEW t \in S
    PROVE  /\ Append(q, t) \in Seq(S) /\ Len(Append(q, t)) = Len(q) + 1
           /\ \A i \in 1 .. Len(q) : Append(q, t)[i] = q[i]
           /\ Append(q, t)[Len(q) + 1] = t
BY SMTT(30)

LEMMA SeqTail ==
    ASSUME NEW S, NEW q \in Seq(S), q # <<>>
    PROVE  /\ Tail(q) \in Seq(S) /\ Len(Tail(q)) = Len(q) - 1 /\ Head(q) = q[1]
           /\ \A i \in 1 .. Len(q) - 1 : Tail(q)[i] = q[i + 1]
BY SMTT(30)

LEMMA SeqConcat ==
    ASSUME NEW S, NEW p \in Seq(S), NEW q \in Seq(S)
    PROVE  /\ p \o q \in Seq(S) /\ Len(p \o q) = Len(p) + Len(q)
           /\ \A i \in 1 .. Len(p) + Len(q) :
                  (p \o q)[i] = IF i <= Len(p) THEN p[i] ELSE q[i - Len(p)]
BY SMTT(30)

LEMMA SeqPart ==
    ASSUME NEW S, NEW q \in Seq(S), NEW m \in 1 .. Len(q) + 1, NEW n \in m - 1 .. Len(q)
    PROVE  /\ SubSeq(q, m, n) \in Seq(S) /\ Len(SubSeq(q, m, n)) = n - m + 1
           /\ \A i \in 1 .. n - m + 1 : SubSeq(q, m, n)[i] = q[m + i - 1]
BY SMTT(30)

---------------------------------------------------------------------------
(* Queues.                                                                 *)

\* A list after jlos_list_init.
LEMMA EmptyQueue ==
    ASSUME NEW S
    PROVE  <<>> \in Seq(S) /\ Distinct(<<>>) /\ Elements(<<>>) = {} /\ Len(<<>>) = 0
BY SeqLen, SMTT(30) DEF Distinct, Elements

\* A queue with no elements is the empty one.
LEMMA QueueEmpty ==
    ASSUME NEW S, NEW q \in Seq(S)
    PROVE  (q = <<>> <=> Elements(q) = {}) /\ Elements(q) \subseteq S
<1>1. Len(q) \in Nat /\ \A i \in 1 .. Len(q) : q[i] \in S
    BY SeqLen
<1>2. q # <<>> => 1 \in 1 .. Len(q)
    BY <1>1, SeqLen, SMTT(30)
<1>3. q # <<>> => Elements(q) # {}
    BY <1>2 DEF Elements
<1>4. q = <<>> => Elements(q) = {}
    BY EmptyQueue
<1>5. Elements(q) \subseteq S
    BY <1>1 DEF Elements
<1>6. QED
    BY <1>3, <1>4, <1>5

\* __jlos_list_add_tail of an element that is not queued.
LEMMA AppendQueue ==
    ASSUME NEW S, NEW q \in Seq(S), NEW t \in S, Distinct(q), t \notin Elements(q)
    PROVE  /\ Append(q, t) \in Seq(S) /\ Distinct(Append(q, t))
           /\ Elements(Append(q, t)) = Elements(q) \cup {t}
           /\ Len(Append(q, t)) = Len(q) + 1
<1> DEFINE p == Append(q, t)
<1>1. /\ p \in Seq(S) /\ Len(p) = Len(q) + 1 /\ Len(q) \in Nat
      /\ \A i \in 1 .. Len(q) : p[i] = q[i]
      /\ p[Len(q) + 1] = t
    BY SeqAppend, SeqLen, SMTT(30)
<1> HIDE DEF p
<1>2. \A i \in 1 .. Len(p) : i \in 1 .. Len(q) \/ i = Len(q) + 1
    BY <1>1, SMTT(30)
<1>3. Distinct(p)
    BY <1>1, <1>2 DEF Distinct, Elements
<1>4. Elements(p) = Elements(q) \cup {t}
  <2>1. Elements(p) \subseteq Elements(q) \cup {t}
      BY <1>1, <1>2 DEF Elements
  <2>2. \A i \in 1 .. Len(q) : i \in 1 .. Len(p)
      BY <1>1, SMTT(30)
  <2>3. Elements(q) \subseteq Elements(p)
      BY <1>1, <2>2 DEF Elements
  <2>4. Len(q) + 1 \in 1 .. Len(p)
      BY <1>1, SMTT(30)
  <2>5. t \in Elements(p)
      BY <1>1, <2>4 DEF Elements
  <2>6. QED
      BY <2>1, <2>3, <2>5
<1>5. QED
    BY <1>1, <1>3, <1>4 DEF p

\* __jlos_list_add of an element that is not queued: it becomes the first.
LEMMA PushQueue ==
    ASSUME NEW S, NEW q \in Seq(S), NEW t \in S, Distinct(q), t \notin Elements(q)
    PROVE  /\ <<t>> \o q \in Seq(S) /\ Distinct(<<t>> \o q)
           /\ Elements(<<t>> \o q) = Elements(q) \cup {t}
           /\ Len(<<t>> \o q) = Len(q) + 1
<1> DEFINE p == <<t>> \o q
<1>1. <<t>> \in Seq(S) /\ Len(<<t>>) = 1 /\ <<t>>[1] = t
    BY SMTT(30)
<1>2. /\ p \in Seq(S) /\ Len(p) = Len(q) + 1 /\ Len(q) \in Nat /\ p[1] = t
      /\ \A i \in 2 .. Len(q) + 1 : p[i] = q[i - 1]
    BY <1>1, SeqConcat, SeqLen, SMTT(30)
<1> HIDE DEF p
<1>3. \A i \in 1 .. Len(p) : i = 1 \/ (i \in 2 .. Len(q) + 1 /\ i - 1 \in 1 .. Len(q))
    BY <1>2, SMTT(30)
<1>4. \A i \in 1 .. Len(q) : i + 1 \in 1 .. Len(p) /\ p[i + 1] = q[i]
  <2> SUFFICES ASSUME NEW i \in 1 .. Len(q)
               PROVE  i + 1 \in 1 .. Len(p) /\ p[i + 1] = q[i]
      OBVIOUS
  <2>1. i + 1 \in 2 .. Len(q) + 1 /\ (i + 1) - 1 = i
      BY <1>2, SMTT(30)
  <2>2. QED
      BY <1>2, <2>1, SMTT(30)
<1>5. \A i \in 1 .. Len(p) : i # 1 => p[i] = q[i - 1] /\ p[i] \in Elements(q)
    BY <1>2, <1>3 DEF Elements
<1>6. Distinct(p)
  <2> SUFFICES ASSUME NEW i \in 1 .. Len(p), NEW j \in 1 .. Len(p), p[i] = p[j]
               PROVE  i = j
      BY DEF Distinct
  <2>1. i = 1 <=> j = 1
      BY <1>2, <1>5
  <2>2. CASE i # 1 /\ j # 1
    <3>1. q[i - 1] = q[j - 1] /\ i - 1 \in 1 .. Len(q) /\ j - 1 \in 1 .. Len(q)
        BY <1>3, <1>5, <2>2
    <3>2. i - 1 = j - 1
        BY <3>1 DEF Distinct
    <3>3. QED
        BY <3>2, <1>2, SMTT(30)
  <2>3. QED
      BY <2>1, <2>2
<1>7. Elements(p) = Elements(q) \cup {t}
  <2>1. Elements(p) \subseteq Elements(q) \cup {t}
      BY <1>2, <1>5 DEF Elements
  <2>2. Elements(q) \subseteq Elements(p)
      BY <1>4 DEF Elements
  <2>3. 1 \in 1 .. Len(p)
      BY <1>2, SMTT(30)
  <2>4. t \in Elements(p)
      BY <1>2, <2>3 DEF Elements
  <2>5. QED
      BY <2>1, <2>2, <2>4
<1>8. QED
    BY <1>2, <1>6, <1>7 DEF p

\* Taking the first element off the queue.
LEMMA TailQueue ==
    ASSUME NEW S, NEW q \in Seq(S), q # <<>>, Distinct(q)
    PROVE  /\ Tail(q) \in Seq(S) /\ Distinct(Tail(q))
           /\ Elements(Tail(q)) = Elements(q) \ {Head(q)}
           /\ Len(Tail(q)) = Len(q) - 1
           /\ Head(q) \in Elements(q)
<1> DEFINE p == Tail(q)
<1>1. /\ p \in Seq(S) /\ Len(p) = Len(q) - 1 /\ Len(q) \in Nat \ {0}
      /\ \A i \in 1 .. Len(p) : p[i] = q[i + 1]
      /\ Head(q) = q[1]
    BY SeqTail, SeqLen, SMTT(30)
<1> HIDE DEF p
<1>2. Distinct(p)
    BY <1>1, SMTT(30) DEF Distinct
<1>3. Head(q) \in Elements(q)
    BY <1>1, SMTT(30) DEF Elements
<1>4. Elements(p) = Elements(q) \ {Head(q)}
  <2>1. ASSUME NEW i \in 1 .. Len(p)
        PROVE  p[i] \in Elements(q) \ {Head(q)}
    <3>1. i + 1 \in 1 .. Len(q) /\ 1 \in 1 .. Len(q) /\ i + 1 # 1
        BY <1>1, SMTT(30)
    <3>2. QED
        BY <1>1, <3>1 DEF Elements, Distinct
  <2>2. ASSUME NEW i \in 1 .. Len(q), q[i] # Head(q)
        PROVE  q[i] \in Elements(p)
    <3>1. i - 1 \in 1 .. Len(p) /\ (i - 1) + 1 = i
        BY <1>1, <2>2, SMTT(30)
    <3>2. q[i] = p[i - 1]
        BY <1>1, <3>1
    <3>3. QED
        BY <3>1, <3>2 DEF Elements
  <2>3. QED
      BY <2>1, <2>2 DEF Elements
<1>5. QED
    BY <1>1, <1>2, <1>3, <1>4 DEF p

\* jlos_list_del of the element in place k.
LEMMA UnlinkQueue ==
    ASSUME NEW S, NEW q \in Seq(S), Distinct(q), NEW k \in 1 .. Len(q)
    PROVE  /\ Unlinked(q, k) \in Seq(S) /\ Distinct(Unlinked(q, k))
           /\ Elements(Unlinked(q, k)) = Elements(q) \ {q[k]}
           /\ Len(Unlinked(q, k)) = Len(q) - 1
<1> DEFINE a == SubSeq(q, 1, k - 1)
           b == SubSeq(q, k + 1, Len(q))
           p == a \o b
<1>1. Len(q) \in Nat /\ \A i \in 1 .. Len(q) : q[i] \in S
    BY SeqLen
<1>2. a \in Seq(S) /\ Len(a) = k - 1 /\ \A i \in 1 .. k - 1 : a[i] = q[i]
  <2>1. 1 \in 1 .. Len(q) + 1 /\ k - 1 \in 0 .. Len(q)
      BY <1>1, SMTT(30)
  <2>2. QED
      BY <2>1, SeqPart, SMTT(30)
<1>3. /\ b \in Seq(S) /\ Len(b) = Len(q) - k
      /\ \A i \in 1 .. Len(q) - k : b[i] = q[k + i]
  <2>1. k + 1 \in 1 .. Len(q) + 1 /\ Len(q) \in (k + 1) - 1 .. Len(q)
      BY <1>1, SMTT(30)
  <2>2. QED
      BY <1>1, <2>1, SeqPart, SMTT(30)
<1> HIDE DEF a, b
<1>4. /\ p \in Seq(S) /\ Len(p) = Len(q) - 1
      /\ \A i \in 1 .. Len(p) : p[i] = IF i < k THEN q[i] ELSE q[i + 1]
  <2>1. /\ p \in Seq(S) /\ Len(p) = Len(a) + Len(b)
        /\ \A i \in 1 .. Len(a) + Len(b) :
               p[i] = IF i <= Len(a) THEN a[i] ELSE b[i - Len(a)]
      BY <1>2, <1>3, SeqConcat
  <2>2. ASSUME NEW i \in 1 .. Len(p)
        PROVE  p[i] = IF i < k THEN q[i] ELSE q[i + 1]
    <3>1. CASE i < k
        BY <1>1, <1>2, <1>3, <2>1, <3>1, SMTT(30)
    <3>2. CASE ~(i < k)
      <4>1. i - Len(a) \in 1 .. Len(q) - k /\ k + (i - Len(a)) = i + 1
          BY <1>1, <1>2, <1>3, <2>1, <3>2, SMTT(30)
      <4>2. p[i] = b[i - Len(a)]
          BY <1>1, <1>2, <1>3, <2>1, <3>2, SMTT(30)
      <4>3. QED
          BY <1>3, <3>2, <4>1, <4>2
    <3>3. QED
        BY <3>1, <3>2
  <2>3. QED
      BY <1>1, <1>2, <1>3, <2>1, <2>2, SMTT(30)
<1> HIDE DEF p
<1>5. ASSUME NEW i \in 1 .. Len(p)
      PROVE  \E j \in 1 .. Len(q) : j # k /\ p[i] = q[j] /\ j = IF i < k THEN i ELSE i + 1
  <2>1. CASE i < k
    <3>1. i \in 1 .. Len(q) /\ i # k
        BY <1>1, <1>4, <2>1, SMTT(30)
    <3>2. p[i] = q[i]
        BY <1>4, <2>1
    <3>3. QED
        BY <2>1, <3>1, <3>2
  <2>2. CASE ~(i < k)
    <3>1. i + 1 \in 1 .. Len(q) /\ i + 1 # k
        BY <1>1, <1>4, <2>2, SMTT(30)
    <3>2. p[i] = q[i + 1]
        BY <1>4, <2>2
    <3>3. QED
        BY <2>2, <3>1, <3>2
  <2>3. QED
      BY <2>1, <2>2
<1>6. Distinct(p)
  <2> SUFFICES ASSUME NEW i \in 1 .. Len(p), NEW j \in 1 .. Len(p), p[i] = p[j]
               PROVE  i = j
      BY DEF Distinct
  <2>1. PICK x \in 1 .. Len(q) : p[i] = q[x] /\ x = IF i < k THEN i ELSE i + 1
      BY <1>5
  <2>2. PICK y \in 1 .. Len(q) : p[j] = q[y] /\ y = IF j < k THEN j ELSE j + 1
      BY <1>5
  <2>3. x = y
      BY <2>1, <2>2 DEF Distinct
  <2>4. QED
      BY <2>1, <2>2, <2>3, <1>1, <1>4, SMTT(30)
<1>7. Elements(p) = Elements(q) \ {q[k]}
  <2>1. Elements(p) \subseteq Elements(q) \ {q[k]}
      BY <1>5, SMTT(30) DEF Elements, Distinct
  <2>2. ASSUME NEW j \in 1 .. Len(q), q[j] # q[k]
        PROVE  q[j] \in Elements(p)
    <3>1. CASE j < k
      <4>1. j \in 1 .. Len(p) /\ p[j] = q[j]
          BY <1>1, <1>4, <3>1, SMTT(30)
      <4>2. QED
          BY <4>1 DEF Elements
    <3>2. CASE j > k
      <4>1. j - 1 \in 1 .. Len(p) /\ p[j - 1] = q[j]
        <5>1. j - 1 \in 1 .. Len(p) /\ ~(j - 1 < k) /\ (j - 1) + 1 = j
            BY <1>1, <1>4, <3>2, SMTT(30)
        <5>2. QED
            BY <1>4, <5>1
      <4>2. QED
          BY <4>1 DEF Elements
    <3>3. QED
        BY <2>2, <3>1, <3>2, <1>1, SMTT(30)
  <2>3. QED
      BY <2>1, <2>2 DEF Elements
<1>8. QED
    BY <1>4, <1>6, <1>7 DEF p, a, b, Unlinked
=============================================================================
