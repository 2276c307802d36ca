------------------------------ MODULE PipeRing ------------------------------
(***************************************************************************)
(* What the steps of Pipe do to its ring buffer and to the counts of its   *)
(* descriptors, for any size of the ring and any processes.                *)
(***************************************************************************)
EXTENDS Pipe, SequenceTheorems, FiniteSetTheorems, TLAPS

-----------------------------------------------------------------------------
(***************************************************************************)
(* The ring.                                                               *)
(***************************************************************************)
Ring == [0 .. PIPE_SIZE - 1 -> Byte]

ContentOf(b, h, l) == [i \in 1 .. l |-> b[(h + i - 1) % PIPE_SIZE]]

\* The remainder, as far as an index of the ring ever goes.
LEMMA ModSmall ==
    ASSUME NEW n \in Nat \ {0}, NEW a \in Nat
    PROVE  /\ a < n => a % n = a
           /\ n <= a /\ a < 2 * n => a % n = a - n
           /\ a % n \in 0 .. n - 1
OBVIOUS

\* The remainder of an index that is at most one turn ahead.
LEMMA Wrap ==
    \A a \in 0 .. 2 * PIPE_SIZE - 1 :
        a % PIPE_SIZE = IF a < PIPE_SIZE THEN a ELSE a - PIPE_SIZE
BY PipeAssumption

\* A function on 1 .. n is a sequence.
LEMMA SeqOf ==
    ASSUME NEW S, NEW n \in Nat, NEW f \in [1 .. n -> S]
    PROVE  f \in Seq(S) /\ Len(f) = n
<1>1. f \in Seq(S)
    BY SeqDef
<1>2. DOMAIN f = 1 .. n /\ DOMAIN f = 1 .. Len(f) /\ Len(f) \in Nat
    BY <1>1, LenProperties
<1>3. Len(f) = n
    BY <1>2
<1> QED
    BY <1>1, <1>3

\* What is in the ring is a sequence of bytes.
LEMMA ContentSeq ==
    ASSUME NEW b \in Ring, NEW h \in 0 .. PIPE_SIZE - 1, NEW l \in 0 .. PIPE_SIZE
    PROVE  /\ ContentOf(b, h, l) \in Seq(Byte) /\ Len(ContentOf(b, h, l)) = l
           /\ \A i \in 1 .. l : ContentOf(b, h, l)[i] = b[(h + i - 1) % PIPE_SIZE]
<1>1. \A i \in 1 .. l : (h + i - 1) % PIPE_SIZE \in 0 .. PIPE_SIZE - 1
    BY PipeAssumption, ModSmall
<1>2. ContentOf(b, h, l) \in [1 .. l -> Byte]
    BY <1>1 DEF ContentOf, Ring
<1>3. ContentOf(b, h, l) \in Seq(Byte) /\ Len(ContentOf(b, h, l)) = l
    BY <1>2, SeqOf
<1> QED
    BY <1>3 DEF ContentOf

\* Moving the head on by k takes the first k bytes out.
LEMMA RingTakes ==
    ASSUME NEW b \in Ring, NEW h \in 0 .. PIPE_SIZE - 1, NEW l \in 0 .. PIPE_SIZE,
           NEW k \in 0 .. l
    PROVE  /\ (h + k) % PIPE_SIZE \in 0 .. PIPE_SIZE - 1
           /\ ContentOf(b, (h + k) % PIPE_SIZE, l - k) = SubSeq(ContentOf(b, h, l), k + 1, l)
           /\ [i \in 1 .. k |-> b[(h + (i - 1)) % PIPE_SIZE]] = SubSeq(ContentOf(b, h, l), 1, k)
<1> DEFINE c == ContentOf(b, h, l)
           g == (h + k) % PIPE_SIZE
           r == ContentOf(b, g, l - k)
           t == [i \in 1 .. k |-> b[(h + (i - 1)) % PIPE_SIZE]]
<1>1. g \in 0 .. PIPE_SIZE - 1 /\ l - k \in 0 .. PIPE_SIZE
    BY PipeAssumption, ModSmall
<1>2. c \in Seq(Byte) /\ Len(c) = l /\ \A i \in 1 .. l : c[i] = b[(h + i - 1) % PIPE_SIZE]
    BY ContentSeq
<1>3. /\ r \in Seq(Byte) /\ Len(r) = l - k
      /\ \A i \in 1 .. l - k : r[i] = b[(g + i - 1) % PIPE_SIZE]
    BY <1>1, ContentSeq
<1>4. \A i \in 1 .. l : c[i] \in Byte
    BY <1>2, ElementOfSeq
<1> HIDE DEF c, r
<1>5. /\ SubSeq(c, k + 1, l) \in Seq(Byte) /\ Len(SubSeq(c, k + 1, l)) = l - k
      /\ \A i \in 1 .. l - k : SubSeq(c, k + 1, l)[i] = c[k + i]
    <2>1. \A i \in k + 1 .. l : c[i] \in Byte
        BY <1>4
    <2>2. /\ SubSeq(c, k + 1, l) \in Seq(Byte)
          /\ Len(SubSeq(c, k + 1, l)) = IF k + 1 <= l THEN l - (k + 1) + 1 ELSE 0
          /\ \A i \in 1 .. l - (k + 1) + 1 : SubSeq(c, k + 1, l)[i] = c[k + 1 + i - 1]
        BY <2>1, SubSeqProperties
    <2> QED
        BY <2>2
<1>6. /\ SubSeq(c, 1, k) \in Seq(Byte) /\ Len(SubSeq(c, 1, k)) = k
      /\ \A i \in 1 .. k : SubSeq(c, 1, k)[i] = c[i]
    <2>1. \A i \in 1 .. k : c[i] \in Byte
        BY <1>4
    <2>2. /\ SubSeq(c, 1, k) \in Seq(Byte)
          /\ Len(SubSeq(c, 1, k)) = IF 1 <= k THEN k - 1 + 1 ELSE 0
          /\ \A i \in 1 .. k - 1 + 1 : SubSeq(c, 1, k)[i] = c[1 + i - 1]
        BY <2>1, SubSeqProperties
    <2> QED
        BY <2>2
<1>7. \A i \in 1 .. l - k : (g + i - 1) % PIPE_SIZE = (h + (k + i) - 1) % PIPE_SIZE
    <2> SUFFICES ASSUME NEW i \in 1 .. l - k
                 PROVE  (g + i - 1) % PIPE_SIZE = (h + (k + i) - 1) % PIPE_SIZE
        OBVIOUS
    <2> DEFINE x == g + i - 1
               y == h + (k + i) - 1
    <2>0. /\ PIPE_SIZE \in Nat \ {0} /\ h + k \in 0 .. 2 * PIPE_SIZE - 1
          /\ g = IF h + k < PIPE_SIZE THEN h + k ELSE h + k - PIPE_SIZE
        BY PipeAssumption, Wrap
    <2> HIDE DEF g
    <2>1. /\ x \in Nat /\ x < 2 * PIPE_SIZE /\ y \in Nat /\ y < 2 * PIPE_SIZE
          /\ x = y \/ (x = y - PIPE_SIZE /\ PIPE_SIZE <= y /\ x < PIPE_SIZE)
        BY <2>0
    <2> HIDE DEF x, y
    <2>2. x % PIPE_SIZE = y % PIPE_SIZE
        BY <2>0, <2>1, Wrap
    <2> QED
        BY <2>2 DEF x, y
<1>8. r = SubSeq(c, k + 1, l)
    <2>1. ASSUME NEW i \in 1 .. l - k
          PROVE  r[i] = SubSeq(c, k + 1, l)[i]
        <3>1. k + i \in 1 .. l
            BY PipeAssumption
        <3>2. c[k + i] = b[(h + (k + i) - 1) % PIPE_SIZE]
            BY <1>2, <3>1
        <3>3. r[i] = b[(h + (k + i) - 1) % PIPE_SIZE]
            BY <1>3, <1>7
        <3> QED
            BY <1>5, <3>2, <3>3
    <2> QED
        BY <1>3, <1>5, <2>1, SeqEqual
<1>9. t = SubSeq(c, 1, k)
    <2>1. \A i \in 1 .. k : h + (i - 1) = h + i - 1
        BY PipeAssumption
    <2>2. \A i \in 1 .. k : t[i] = c[i]
        <3> SUFFICES ASSUME NEW i \in 1 .. k PROVE t[i] = c[i]
            OBVIOUS
        <3>1. t[i] = b[(h + (i - 1)) % PIPE_SIZE]
            OBVIOUS
        <3>2. c[i] = b[(h + i - 1) % PIPE_SIZE]
            BY <1>2
        <3>3. h + (i - 1) = h + i - 1
            BY <2>1
        <3> QED
            BY <3>1, <3>2, <3>3, Zenon
    <2>3. t = [i \in 1 .. k |-> t[i]]
        OBVIOUS
    <2> HIDE DEF t
    <2>4. k \in Nat /\ \A i \in 1 .. k : i \in 1 .. l
        BY PipeAssumption
    <2>5. \A i \in 1 .. k : t[i] \in Byte
        BY <1>4, <2>2, <2>4
    <2>6. t \in [1 .. k -> Byte]
        BY <2>3, <2>5
    <2>7. t \in Seq(Byte) /\ Len(t) = k
        BY <2>4, <2>6, SeqOf
    <2> QED
        BY <1>6, <2>2, <2>7, SeqEqual
<1> QED
    BY <1>1, <1>8, <1>9 DEF c, r

Repeat(k, x) == [i \in 1 .. k |-> x]

\* The ring b with k bytes x behind the l that are there.
Filled(b, h, l, k, x) ==
    [j \in 0 .. PIPE_SIZE - 1 |->
        IF j \in {(h + (l + i)) % PIPE_SIZE : i \in 0 .. k - 1} THEN x ELSE b[j]]

\* Copying k bytes x behind the l that are there adds them at the end.
LEMMA RingAdds ==
    ASSUME NEW b \in Ring, NEW h \in 0 .. PIPE_SIZE - 1, NEW l \in 0 .. PIPE_SIZE,
           NEW k \in 0 .. PIPE_SIZE - l, NEW x \in Byte
    PROVE  /\ Filled(b, h, l, k, x) \in Ring
           /\ ContentOf(Filled(b, h, l, k, x), h, l + k) = ContentOf(b, h, l) \o Repeat(k, x)
<1> DEFINE d == Filled(b, h, l, k, x)
           c == ContentOf(b, h, l)
           e == ContentOf(d, h, l + k)
           s == Repeat(k, x)
           new == {(h + (l + i)) % PIPE_SIZE : i \in 0 .. k - 1}
<1>a. \A j \in 0 .. PIPE_SIZE - 1 : d[j] = IF j \in new THEN x ELSE b[j]
    BY DEF Filled
<1>0. /\ PIPE_SIZE \in Nat \ {0} /\ h \in Nat /\ h < PIPE_SIZE /\ l \in Nat /\ k \in Nat
      /\ l + k <= PIPE_SIZE /\ l + k \in 0 .. PIPE_SIZE
    BY PipeAssumption
<1>1. d \in Ring
    BY DEF Ring, Filled
<1>2. c \in Seq(Byte) /\ Len(c) = l /\ \A i \in 1 .. l : c[i] = b[(h + i - 1) % PIPE_SIZE]
    BY ContentSeq
<1>3. /\ e \in Seq(Byte) /\ Len(e) = l + k
      /\ \A i \in 1 .. l + k : e[i] = d[(h + i - 1) % PIPE_SIZE]
    BY <1>0, <1>1, ContentSeq
<1>4. s \in Seq(Byte) /\ Len(s) = k /\ \A i \in 1 .. k : s[i] = x
    <2>1. s \in [1 .. k -> Byte] /\ \A i \in 1 .. k : s[i] = x
        BY DEF Repeat
    <2> HIDE DEF s
    <2> QED
        BY <1>0, <2>1, SeqOf
<1> HIDE DEF c, d, e, s
<1>5. /\ c \o s \in Seq(Byte) /\ Len(c \o s) = l + k
      /\ \A i \in 1 .. l + k : (c \o s)[i] = IF i <= l THEN c[i] ELSE s[i - l]
    BY <1>2, <1>4, ConcatProperties
<1>6. ASSUME NEW i \in 1 .. l + k
      PROVE  e[i] = (c \o s)[i]
    <2> DEFINE y == h + i - 1
               j == y % PIPE_SIZE
    <2>1. y \in 0 .. 2 * PIPE_SIZE - 1
        BY <1>0
    <2>2. j = IF y < PIPE_SIZE THEN y ELSE y - PIPE_SIZE
        BY <2>1, Wrap
    <2>3. j \in 0 .. PIPE_SIZE - 1
        BY <1>0, <2>1, <2>2
    <2>4. CASE i <= l
        <3>1. ASSUME NEW z \in 0 .. k - 1
              PROVE  j # (h + (l + z)) % PIPE_SIZE
            <4> DEFINE w == h + (l + z)
            <4>1. w \in 0 .. 2 * PIPE_SIZE - 1 /\ y < w /\ w - y < PIPE_SIZE
                BY <1>0, <2>4
            <4>2. w % PIPE_SIZE = IF w < PIPE_SIZE THEN w ELSE w - PIPE_SIZE
                BY <4>1, Wrap
            <4> HIDE DEF w, y, j
            <4>3. j # w % PIPE_SIZE
                BY <1>0, <2>1, <2>2, <4>1, <4>2
            <4> QED
                BY <4>3 DEF w
        <3> HIDE DEF j
        <3>2. d[j] = b[j]
            <4>1. j \notin new
                BY <3>1
            <4> HIDE DEF new
            <4> QED
                BY <1>a, <2>3, <4>1
        <3>3. e[i] = d[j]
            BY <1>3, Zenon DEF j
        <3>4. i \in 1 .. l
            BY <1>0, <2>4
        <3>5. c[i] = b[j]
            BY <1>2, <3>4, Zenon DEF j
        <3> QED
            BY <1>5, <2>4, <3>2, <3>3, <3>5
    <2>5. CASE i > l
        <3> DEFINE z == i - l - 1
        <3>1. z \in 0 .. k - 1 /\ h + (l + z) = y
            BY <1>0, <2>5
        <3> HIDE DEF z
        <3>2. j \in new
            BY <3>1
        <3>3. e[i] = d[j]
            BY <1>3
        <3> HIDE DEF j, new
        <3>4. d[j] = x
            BY <1>a, <2>3, <3>2
        <3>5. i - l \in 1 .. k /\ ~(i <= l)
            BY <1>0, <2>5
        <3> QED
            BY <1>4, <1>5, <3>3, <3>4, <3>5
    <2>6. i <= l \/ i > l
        BY <1>0
    <2> QED
        BY <2>4, <2>5, <2>6, Zenon
<1>7. e = c \o s
    BY <1>3, <1>5, <1>6, SeqEqual
<1> QED
    BY <1>1, <1>7 DEF c, d, e, s

-----------------------------------------------------------------------------
(***************************************************************************)
(* Descriptors.                                                            *)
(***************************************************************************)
Tables == [Procs -> [End -> Nat]]

\* The descriptors of end e in the tables F, one by one: to count them.
Holding(F, e) == {d \in Procs \X (Nat \ {0}) : d[2] <= F[d[1]][e]}

\* One process's descriptors of an end.
LEMMA Block ==
    ASSUME NEW p, NEW n \in Nat
    PROVE  IsFiniteSet({p} \X (1 .. n)) /\ Cardinality({p} \X (1 .. n)) = n
<1>1. IsFiniteSet({p}) /\ Cardinality({p}) = 1
    BY FS_Singleton
<1>2. IsFiniteSet(1 .. n) /\ Cardinality(1 .. n) = n
    BY FS_Interval
<1>3. /\ IsFiniteSet({p} \X (1 .. n))
      /\ Cardinality({p} \X (1 .. n)) = Cardinality({p}) * Cardinality(1 .. n)
    BY <1>1, <1>2, FS_Product
<1> QED
    BY <1>1, <1>2, <1>3

\* When one process gets or loses descriptors the count changes by as many.
LEMMA CountChange ==
    ASSUME NEW F \in Tables, NEW G \in Tables, NEW p \in Procs, NEW e \in End,
           \A q \in Procs : q # p => G[q] = F[q], IsFiniteSet(Holding(F, e))
    PROVE  /\ IsFiniteSet(Holding(G, e))
           /\ Cardinality(Holding(F, e)) \in Nat
           /\ F[p][e] <= Cardinality(Holding(F, e))
           /\ Cardinality(Holding(G, e)) = Cardinality(Holding(F, e)) - F[p][e] + G[p][e]
<1> DEFINE R == {d \in Holding(F, e) : d[1] # p}
           A == {p} \X (1 .. F[p][e])
           B == {p} \X (1 .. G[p][e])
<1>1. F[p][e] \in Nat /\ G[p][e] \in Nat
    BY DEF Tables
<1>2. Holding(F, e) = R \cup A
    BY <1>1 DEF Holding
<1>3. Holding(G, e) = R \cup B
    BY <1>1 DEF Holding
<1>4. R \cap A = {} /\ R \cap B = {}
    OBVIOUS
<1>5. IsFiniteSet(R)
    BY FS_Subset
<1>6. IsFiniteSet(A) /\ Cardinality(A) = F[p][e] /\ IsFiniteSet(B) /\ Cardinality(B) = G[p][e]
    BY <1>1, Block
<1> HIDE DEF R, A, B
<1>7. Cardinality(R \cup A) = Cardinality(R) + Cardinality(A) - Cardinality(R \cap A)
    BY <1>5, <1>6, FS_Union
<1>8. /\ IsFiniteSet(R \cup B)
      /\ Cardinality(R \cup B) = Cardinality(R) + Cardinality(B) - Cardinality(R \cap B)
    BY <1>5, <1>6, FS_Union
<1>9. Cardinality(R) \in Nat /\ Cardinality({}) = 0
    BY <1>5, FS_CardinalityType, FS_EmptySet
<1>10. /\ Cardinality(Holding(F, e)) = Cardinality(R) + F[p][e]
       /\ Cardinality(Holding(G, e)) = Cardinality(R) + G[p][e]
       /\ IsFiniteSet(Holding(G, e))
    <2>1. Cardinality(R \cap A) = 0 /\ Cardinality(R \cap B) = 0
        BY <1>4, <1>9
    <2>2. Cardinality(R \cup A) = Cardinality(R) + F[p][e] - 0
        BY <1>6, <1>7, <2>1
    <2>3. Cardinality(R \cup B) = Cardinality(R) + G[p][e] - 0
        BY <1>6, <1>8, <2>1
    <2> QED
        BY <1>1, <1>2, <1>3, <1>8, <1>9, <2>2, <2>3
<1> QED
    BY <1>1, <1>9, <1>10

\* The count is 0 when nobody has a descriptor.
LEMMA CountZero ==
    ASSUME NEW F \in Tables, NEW e \in End, IsFiniteSet(Holding(F, e))
    PROVE  Cardinality(Holding(F, e)) = 0 <=> \A q \in Procs : F[q][e] = 0
<1>1. Cardinality(Holding(F, e)) = 0 <=> Holding(F, e) = {}
    BY FS_EmptySet
<1>2. ASSUME Holding(F, e) = {}, NEW q \in Procs
      PROVE  F[q][e] = 0
    <2>1. F[q][e] \in Nat
        BY DEF Tables
    <2>2. <<q, 1>> \notin Holding(F, e)
        BY <1>2
    <2>3. ~(1 <= F[q][e])
        BY <2>2 DEF Holding
    <2> QED
        BY <2>1, <2>3
<1>3. ASSUME \A q \in Procs : F[q][e] = 0
      PROVE  Holding(F, e) = {}
    BY <1>3 DEF Holding
<1> QED
    BY <1>1, <1>2, <1>3
=============================================================================
