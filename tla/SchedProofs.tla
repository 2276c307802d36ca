----------------------------- MODULE SchedProofs -----------------------------
(***************************************************************************)
(* What the functions of scheduler.c preserve, for any number of processes *)
(* and of queues: a call that finds the scheduler in a state InCall leaves *)
(* it in one, and scheduler_yield() leaves it Consistent.                  *)
(***************************************************************************)
EXTENDS Sched, FiniteSetTheorems, SequenceTheorems, TLAPS

\* Sets of processes are finite.
LEMMA PidsFinite ==
    ASSUME NEW S \in SUBSET Pid
    PROVE  IsFiniteSet(S) /\ Cardinality(S) \in Nat
<1>1. IsFiniteSet(Pid)
    BY SchedAssumption, FS_Interval DEF Pid
<1>2. IsFiniteSet(S)
    BY <1>1, FS_Subset
<1> QED
    BY <1>2, FS_CardinalityType

\* The walk over all_procs visits each process once: the position of a
\* process among those of S tells it apart, and every position is taken.
LEMMA RankBijective ==
    ASSUME NEW S \in SUBSET Pid
    PROVE  /\ \A p \in S : Rank(S, p) \in 1 .. Cardinality(S)
           /\ \A p, q \in S : Rank(S, p) = Rank(S, q) => p = q
           /\ \A i \in 1 .. Cardinality(S) : \E p \in S : Rank(S, p) = i
<1> DEFINE Above(p) == {r \in S : r >= p}
           N == 1 .. Cardinality(S)
           f == [p \in S |-> Rank(S, p)]
<1>0. \A p \in S : p \in Int
    BY SchedAssumption DEF Pid
<1>1. ASSUME NEW p \in S
      PROVE  Above(p) \in SUBSET S /\ Above(p) \in SUBSET Pid /\ p \in Above(p)
    <2>1. p >= p
        BY <1>0
    <2> QED
        BY <2>1
<1>2. IsFiniteSet(S) /\ Cardinality(S) \in Nat
    BY PidsFinite
<1>3. ASSUME NEW p \in S
      PROVE  Rank(S, p) \in N
    <2>1. Rank(S, p) = Cardinality(Above(p))
        BY DEF Rank
    <2>2. IsFiniteSet(Above(p)) /\ Cardinality(Above(p)) \in Nat
        BY <1>1, PidsFinite
    <2>3. Cardinality(Above(p)) <= Cardinality(S)
        BY <1>1, <1>2, FS_Subset
    <2>4. Cardinality(Above(p)) # 0
        BY <1>1, <2>2, FS_EmptySet
    <2> QED
        BY <1>2, <2>1, <2>2, <2>3, <2>4
<1>4. ASSUME NEW p \in S, NEW q \in S, p < q
      PROVE  Rank(S, p) # Rank(S, q)
    <2>1. Above(q) \in SUBSET Above(p) /\ p \notin Above(q)
        <3>1. \A r \in S : r >= q => r >= p
            BY <1>0, <1>4
        <3>2. ~(p >= q)
            BY <1>0, <1>4
        <3> QED
            BY <3>1, <3>2
    <2>2. IsFiniteSet(Above(p))
        BY <1>1, PidsFinite
    <2>3. Above(p) # Above(q)
        BY <1>1, <2>1
    <2>4. Cardinality(Above(p)) # Cardinality(Above(q))
        BY <2>1, <2>2, <2>3, FS_Subset
    <2> QED
        BY <2>4 DEF Rank
<1>5. ASSUME NEW p \in S, NEW q \in S, Rank(S, p) = Rank(S, q)
      PROVE  p = q
    BY <1>0, <1>4, <1>5
<1>6. f \in Injection(S, N)
    <2>1. f \in [S -> N]
        BY <1>3
    <2>2. \A p, q \in S : f[p] = f[q] => p = q
        BY <1>5
    <2> QED
        BY <2>1, <2>2 DEF Injection, IsInjective
<1>7. IsFiniteSet(N) /\ Cardinality(N) = Cardinality(S)
    BY <1>2, FS_Interval
<1>8. f \in Surjection(S, N)
    BY <1>6, <1>7, FS_Injection
<1>9. \A i \in N : \E p \in S : f[p] = i
    BY <1>8, ZenonT(40) DEF Surjection
<1> QED
    BY <1>3, <1>5, <1>9

\* A walk over all_procs that picks S meets exactly the members of S, once each.
LEMMA ListOrderEnumerates ==
    ASSUME NEW S \in SUBSET Pid
    PROVE  Enumerates(ListOrder(S), S)
<1> DEFINE n == Cardinality(S)
<1>1. n \in Nat
    BY PidsFinite
<1>2. \A i \in 1 .. n : ListOrder(S)[i] \in S /\ Rank(S, ListOrder(S)[i]) = i
    BY RankBijective DEF ListOrder
<1>3. ListOrder(S) \in [1 .. n -> Pid]
    BY <1>2 DEF ListOrder
<1>4. ListOrder(S) \in Seq(Pid) /\ Len(ListOrder(S)) = n
    BY <1>1, <1>3
<1>5. ASSUME NEW p \in S
      PROVE  \E i \in 1 .. n : ListOrder(S)[i] = p
    BY <1>2, RankBijective
<1> QED
    BY <1>2, <1>4, <1>5 DEF Enumerates

-----------------------------------------------------------------------------
\* Both priorities in use have a queue, and their quanta are positive.
LEMMA PrioType ==
    \A p \in Pid : Prio(p) \in Queues /\ Quantum(p) \in Nat
BY SchedAssumption DEF Prio, Queues, PRIO_IDLE, Quantum, default_quantum_for_priority

\* Where the elements of a concatenation come from, and where they go.
LEMMA ConcatPositions ==
    ASSUME NEW a \in Seq(Pid), NEW b \in Seq(Pid)
    PROVE  /\ a \o b \in Seq(Pid) /\ Len(a) \in Nat
           /\ \A i \in 1 .. Len(a \o b) :
                 \/ i \in 1 .. Len(a) /\ (a \o b)[i] = a[i]
                 \/ \E k \in 1 .. Len(b) : i = Len(a) + k /\ (a \o b)[i] = b[k]
           /\ \A i \in 1 .. Len(a) : i \in 1 .. Len(a \o b) /\ (a \o b)[i] = a[i]
           /\ \A k \in 1 .. Len(b) :
                 Len(a) + k \in 1 .. Len(a \o b) /\ (a \o b)[Len(a) + k] = b[k]
<1>1. /\ a \o b \in Seq(Pid)
      /\ Len(a) \in Nat /\ Len(b) \in Nat
      /\ Len(a \o b) = Len(a) + Len(b)
      /\ \A i \in 1 .. Len(a) + Len(b) :
            (a \o b)[i] = IF i <= Len(a) THEN a[i] ELSE b[i - Len(a)]
    BY ConcatProperties, LenProperties
<1>2. ASSUME NEW i \in 1 .. Len(a \o b)
      PROVE  \/ i \in 1 .. Len(a) /\ (a \o b)[i] = a[i]
             \/ \E k \in 1 .. Len(b) : i = Len(a) + k /\ (a \o b)[i] = b[k]
    <2>1. CASE i <= Len(a)
        BY <1>1, <2>1
    <2>2. CASE i > Len(a)
        <3>1. i - Len(a) \in 1 .. Len(b) /\ i = Len(a) + (i - Len(a))
            BY <1>1, <2>2
        <3>2. (a \o b)[i] = b[i - Len(a)]
            BY <1>1, <2>2
        <3> QED
            BY <3>1, <3>2
    <2> QED
        BY <1>1, <2>1, <2>2
<1>3. ASSUME NEW k \in 1 .. Len(b)
      PROVE  Len(a) + k \in 1 .. Len(a \o b) /\ (a \o b)[Len(a) + k] = b[k]
    <2>1. /\ Len(a) + k \in 1 .. Len(a) + Len(b) /\ ~(Len(a) + k <= Len(a))
          /\ (Len(a) + k) - Len(a) = k
        BY <1>1
    <2> QED
        BY <1>1, <2>1
<1> QED
    BY <1>1, <1>2, <1>3

\* Appending to a queue processes that are not in it.
LEMMA EnumeratesConcat ==
    ASSUME NEW S, NEW U, NEW a, NEW b, Enumerates(a, S), Enumerates(b, U), S \cap U = {}
    PROVE  Enumerates(a \o b, S \cup U)
<1>1. a \in Seq(Pid) /\ b \in Seq(Pid)
    BY DEF Enumerates
<1> DEFINE c == a \o b
           Old(i) == i \in 1 .. Len(a) /\ c[i] = a[i]
           New(i) == \E k \in 1 .. Len(b) : i = Len(a) + k /\ c[i] = b[k]
<1>2. c \in Seq(Pid) /\ Len(a) \in Nat
    BY <1>1, ConcatPositions
<1>3. \A i \in 1 .. Len(c) : Old(i) \/ New(i)
    BY <1>1, ConcatPositions
<1>4. /\ \A i \in 1 .. Len(a) : i \in 1 .. Len(c) /\ c[i] = a[i]
      /\ \A k \in 1 .. Len(b) : Len(a) + k \in 1 .. Len(c) /\ c[Len(a) + k] = b[k]
    BY <1>1, ConcatPositions
<1> HIDE DEF c
<1>5. \A i \in 1 .. Len(c) : (Old(i) => c[i] \in S) /\ (New(i) => c[i] \in U)
    BY DEF Enumerates
<1>6. ASSUME NEW i \in 1 .. Len(c), NEW j \in 1 .. Len(c), c[i] = c[j]
      PROVE  i = j
    <2>1. CASE Old(i) /\ Old(j)
        BY <1>6, <2>1, ZenonT(40) DEF Enumerates
    <2>2. CASE New(i) /\ New(j)
        <3>1. PICK k \in 1 .. Len(b) : i = Len(a) + k /\ c[i] = b[k]
            BY <2>2
        <3>2. PICK l \in 1 .. Len(b) : j = Len(a) + l /\ c[j] = b[l]
            BY <2>2
        <3>3. k = l
            BY <1>6, <3>1, <3>2 DEF Enumerates
        <3> QED
            BY <3>1, <3>2, <3>3
    <2>3. c[i] \in S <=> Old(i)
        BY <1>3, <1>5
    <2>4. c[j] \in S <=> Old(j)
        BY <1>3, <1>5, ZenonT(40)
    <2> QED
        BY <1>3, <1>6, <2>1, <2>2, <2>3, <2>4, ZenonT(40)
<1>7. ASSUME NEW p \in S \cup U
      PROVE  \E i \in 1 .. Len(c) : c[i] = p
    <2>1. CASE p \in S
        <3>1. PICK i \in 1 .. Len(a) : a[i] = p
            BY <2>1 DEF Enumerates
        <3> QED
            BY <1>4, <3>1
    <2>2. CASE p \in U
        <3>1. PICK k \in 1 .. Len(b) : b[k] = p
            BY <2>2 DEF Enumerates
        <3> QED
            BY <1>4, <3>1
    <2> QED
        BY <2>1, <2>2
<1>8. \A i \in 1 .. Len(c) : c[i] \in S \cup U
    BY <1>3, <1>5
<1>9. Enumerates(c, S \cup U)
    BY <1>2, <1>6, <1>7, <1>8 DEF Enumerates
<1> QED
    BY <1>9 DEF c

\* Taking the head off a queue.
LEMMA EnumeratesTail ==
    ASSUME NEW S, NEW a, Enumerates(a, S), a # <<>>
    PROVE  /\ Head(a) \in S \cap Pid
           /\ Enumerates(Tail(a), S \ {Head(a)})
<1>1. a \in Seq(Pid) /\ Len(a) \in Nat \ {0}
    BY EmptySeq DEF Enumerates
<1>2. Head(a) = a[1] /\ 1 \in 1 .. Len(a)
    BY <1>1
<1>3. /\ Head(a) \in Pid /\ Tail(a) \in Seq(Pid) /\ Len(Tail(a)) = Len(a) - 1
      /\ \A i \in 1 .. Len(Tail(a)) : Tail(a)[i] = a[i + 1]
    BY <1>1, HeadTailProperties
<1>4. ASSUME NEW i \in 1 .. Len(Tail(a))
      PROVE  i + 1 \in 1 .. Len(a) /\ i + 1 # 1 /\ Tail(a)[i] = a[i + 1]
    BY <1>1, <1>3
<1>5. \A i \in 1 .. Len(Tail(a)) : Tail(a)[i] \in S \ {Head(a)}
    BY <1>2, <1>4 DEF Enumerates
<1>6. ASSUME NEW i \in 1 .. Len(Tail(a)), NEW j \in 1 .. Len(Tail(a)), Tail(a)[i] = Tail(a)[j]
      PROVE  i = j
    <2>1. i + 1 = j + 1
        BY <1>4, <1>6 DEF Enumerates
    <2> QED
        BY <1>1, <1>3, <2>1
<1>7. ASSUME NEW p \in S \ {Head(a)}
      PROVE  \E i \in 1 .. Len(Tail(a)) : Tail(a)[i] = p
    <2>1. PICK k \in 1 .. Len(a) : a[k] = p
        BY DEF Enumerates
    <2>2. k # 1
        BY <1>2, <2>1
    <2>3. k - 1 \in 1 .. Len(Tail(a)) /\ (k - 1) + 1 = k
        BY <1>1, <1>3, <2>2
    <2>4. Tail(a)[k - 1] = p
        BY <1>4, <2>1, <2>3
    <2> QED
        BY <2>3, <2>4
<1> QED
    BY <1>2, <1>3, <1>5, <1>6, <1>7 DEF Enumerates

\* A queue of nobody and a queue of one.
LEMMA EnumeratesFew ==
    /\ Enumerates(<<>>, {})
    /\ \A p \in Pid : Enumerates(<<p>>, {p})
    /\ \A S : Enumerates(<<>>, S) => S = {}
    /\ \A a : Enumerates(a, {}) => a = <<>>
BY DEF Enumerates

-----------------------------------------------------------------------------
\* The calls of the scheduler neither create nor end a process.
SameLife(s, t) ==
    \A p \in Pid : /\ t.state[p] = "FREE" <=> s.state[p] = "FREE"
                   /\ t.state[p] = "TERMINATED" <=> s.state[p] = "TERMINATED"

\* One more process is READY and at the back of its queue.
LEMMA QueuesPlusOne ==
    ASSUME NEW s \in SchedState, NEW t \in SchedState, QueuesHoldReady(s),
           NEW c \in Pid, s.state[c] # "READY", t.state[c] = "READY",
           \A p \in Pid \ {c} : t.state[p] = "READY" <=> s.state[p] = "READY",
           t.ready = [s.ready EXCEPT ![Prio(c)] = Append(@, c)]
    PROVE  QueuesHoldReady(t)
<1> SUFFICES ASSUME NEW q \in Queues
             PROVE  Enumerates(t.ready[q], ReadyAt(t, q))
    BY DEF QueuesHoldReady
<1>1. Enumerates(s.ready[q], ReadyAt(s, q)) /\ s.ready \in [Queues -> Seq(Pid)]
    BY DEF QueuesHoldReady, SchedState
<1>2. CASE q = Prio(c)
    <2>1. t.ready[q] = Append(s.ready[q], c)
        BY <1>1, <1>2
    <2>2. Append(s.ready[q], c) = s.ready[q] \o <<c>>
        BY <1>1, AppendIsConcat
    <2>3. ReadyAt(t, q) = ReadyAt(s, q) \cup {c}
        BY <1>2 DEF ReadyAt
    <2>4. ReadyAt(s, q) \cap {c} = {}
        BY DEF ReadyAt
    <2>5. Enumerates(<<c>>, {c})
        BY EnumeratesFew
    <2>6. Enumerates(s.ready[q] \o <<c>>, ReadyAt(s, q) \cup {c})
        BY ONLY <1>1, <2>4, <2>5, EnumeratesConcat
    <2> QED
        BY <2>1, <2>2, <2>3, <2>6, ZenonT(40)
<1>3. CASE q # Prio(c)
    <2>1. t.ready[q] = s.ready[q]
        BY <1>1, <1>3
    <2>2. ReadyAt(t, q) = ReadyAt(s, q)
        BY <1>3 DEF ReadyAt
    <2> QED
        BY <1>1, <2>1, <2>2
<1> QED
    BY <1>2, <1>3

\* pick_next() finds the best queue that is not empty, and its head is READY.
LEMMA BestIsReady ==
    ASSUME NEW s \in SchedState, QueuesHoldReady(s), NonEmpty(s) # {}
    PROVE  /\ Best(s) \in Queues /\ s.ready[Best(s)] # <<>>
           /\ Head(s.ready[Best(s)]) \in Pid
           /\ s.state[Head(s.ready[Best(s)])] = "READY"
           /\ Prio(Head(s.ready[Best(s)])) = Best(s)
<1>1. NonEmpty(s) \in SUBSET {PRIO_USER, PRIO_IDLE}
    <2> SUFFICES ASSUME NEW q \in NonEmpty(s)
                 PROVE  q \in {PRIO_USER, PRIO_IDLE}
        OBVIOUS
    <2>1. q \in Queues /\ s.ready[q] # <<>>
        BY DEF NonEmpty
    <2>2. Head(s.ready[q]) \in ReadyAt(s, q)
        BY <2>1, EnumeratesTail, ZenonT(40) DEF QueuesHoldReady
    <2> QED
        BY <2>2 DEF ReadyAt, Prio
<1>2. \E q \in NonEmpty(s) : \A r \in NonEmpty(s) : q <= r
    <2>1. PRIO_USER \in Int /\ PRIO_IDLE \in Int /\ PRIO_USER <= PRIO_IDLE
        BY SchedAssumption DEF PRIO_IDLE
    <2>2. CASE PRIO_USER \in NonEmpty(s)
        BY <1>1, <2>1, <2>2
    <2>3. CASE PRIO_USER \notin NonEmpty(s)
        BY <1>1, <2>1, <2>3
    <2> QED
        BY <2>2, <2>3
<1>3. Best(s) \in NonEmpty(s)
    BY <1>2 DEF Best
<1>4. Best(s) \in Queues /\ s.ready[Best(s)] # <<>>
    BY <1>3 DEF NonEmpty
<1>5. Head(s.ready[Best(s)]) \in ReadyAt(s, Best(s))
    BY <1>4, EnumeratesTail, ZenonT(40) DEF QueuesHoldReady
<1> QED
    BY <1>4, <1>5 DEF ReadyAt

\* The process at the head of the best queue leaves it and is no longer READY.
LEMMA QueuesMinusOne ==
    ASSUME NEW s \in SchedState, QueuesHoldReady(s), NonEmpty(s) # {},
           NEW t \in SchedState, t.ready = pick_next(s).ready,
           t.state[Head(s.ready[Best(s)])] # "READY",
           \A p \in Pid \ {Head(s.ready[Best(s)])} :
              t.state[p] = "READY" <=> s.state[p] = "READY"
    PROVE  QueuesHoldReady(t)
<1> DEFINE b == Best(s)
           h == Head(s.ready[b])
<1>1. b \in Queues /\ s.ready[b] # <<>> /\ h \in Pid /\ Prio(h) = b
    BY BestIsReady
<1> HIDE DEF b
<1> SUFFICES ASSUME NEW q \in Queues
             PROVE  Enumerates(t.ready[q], ReadyAt(t, q))
    BY DEF QueuesHoldReady
<1>2. Enumerates(s.ready[q], ReadyAt(s, q))
    BY DEF QueuesHoldReady
<1>3. t.ready[q] = IF q = b THEN Tail(s.ready[b]) ELSE s.ready[q]
    BY <1>1 DEF pick_next, SchedState, b
<1>4. ReadyAt(t, q) = IF q = b THEN ReadyAt(s, q) \ {h} ELSE ReadyAt(s, q)
    BY <1>1 DEF ReadyAt, b
<1>5. CASE q = b
    BY <1>1, <1>2, <1>3, <1>4, <1>5, EnumeratesTail
<1>6. CASE q # b
    BY <1>2, <1>3, <1>4, <1>6
<1> QED
    BY <1>5, <1>6

-----------------------------------------------------------------------------
\* process_wake() and wakeup(): only BLOCKED processes become READY.
LEMMA WakeInCall ==
    ASSUME NEW s, InCall(s), NEW W \in SUBSET Pid
    PROVE  /\ InCall(Wake(s, W))
           /\ SameLife(s, Wake(s, W))
           /\ Wake(s, W).current = s.current
           /\ \A p \in Pid : s.state[p] \in {"READY", "RUNNING"} =>
                 Wake(s, W).state[p] = s.state[p]
<1> DEFINE woken == {p \in W : s.state[p] = "BLOCKED"}
           At(q) == {p \in woken : Prio(p) = q}
           t == Wake(s, W)
<1>1. s \in SchedState
    BY DEF InCall
<1>2. \A q \in Queues : Enumerates(ListOrder(At(q)), At(q))
    BY ListOrderEnumerates
<1>3. /\ t.state = [p \in Pid |-> IF p \in woken THEN "READY" ELSE s.state[p]]
      /\ t.ready = [q \in Queues |-> s.ready[q] \o ListOrder(At(q))]
      /\ t.current = s.current
      /\ t.chan = [p \in Pid |-> IF p \in woken THEN NULL ELSE s.chan[p]]
      /\ t.ticks = s.ticks
    BY <1>1 DEF Wake, SchedState
<1> HIDE DEF t
<1>4. \A q \in Queues : Enumerates(t.ready[q], ReadyAt(t, q))
    <2> SUFFICES ASSUME NEW q \in Queues
                 PROVE  Enumerates(t.ready[q], ReadyAt(t, q))
        OBVIOUS
    <2>1. t.ready[q] = s.ready[q] \o ListOrder(At(q))
        BY <1>3
    <2>2. ReadyAt(t, q) = ReadyAt(s, q) \cup At(q)
        BY <1>3 DEF ReadyAt
    <2>3. ReadyAt(s, q) \cap At(q) = {}
        BY DEF ReadyAt
    <2>4. Enumerates(s.ready[q], ReadyAt(s, q))
        BY SMTT(20) DEF InCall, QueuesHoldReady
    <2> QED
        BY ONLY <1>2, <2>1, <2>2, <2>3, <2>4, EnumeratesConcat, q \in Queues
<1>5. t \in SchedState
    <2>1. t.ready \in [Queues -> Seq(Pid)]
        BY <1>3, <1>4 DEF Enumerates
    <2>2. t.state \in [Pid -> ProcessState]
        BY <1>1, <1>3 DEF SchedState, ProcessState
    <2>3. t.chan \in [Pid -> Chan \cup {NULL}]
        BY <1>1, <1>3 DEF SchedState
    <2> QED
        BY <1>1, <1>3, <2>1, <2>2, <2>3, ZenonT(40) DEF SchedState, Wake, t
<1>6. SleepersHaveChannel(t)
    BY <1>1, <1>3 DEF InCall, SleepersHaveChannel
<1>7. IDLE \in Pid
    BY SchedAssumption DEF IDLE, Pid
<1>8. IdleRunnable(t) /\ RunningIsCurrent(t)
    BY <1>1, <1>3, <1>7 DEF InCall, IdleRunnable, RunningIsCurrent
<1>9. InCall(t)
    BY <1>4, <1>5, <1>6, <1>8 DEF InCall, QueuesHoldReady
<1>10. SameLife(s, t) /\ t.current = s.current
    BY <1>3 DEF SameLife
<1>11. \A p \in Pid : s.state[p] \in {"READY", "RUNNING"} => t.state[p] = s.state[p]
    BY <1>3
<1> QED
    BY <1>9, <1>10, <1>11 DEF t

\* Between calls, too, waking leaves the scheduler consistent.
LEMMA WakeupConsistent ==
    ASSUME NEW s, Consistent(s), NEW ch
    PROVE  LET t == wakeup(s, ch)
           IN  Consistent(t) /\ SameLife(s, t) /\ t.current = s.current
<1> DEFINE W == {p \in Pid : s.chan[p] = ch}
<1>1. /\ InCall(Wake(s, W)) /\ SameLife(s, Wake(s, W))
      /\ Wake(s, W).current = s.current
      /\ \A p \in Pid : s.state[p] \in {"READY", "RUNNING"} => Wake(s, W).state[p] = s.state[p]
    BY WakeInCall DEF Consistent
<1>2. s.current # NULL => s.current \in Pid /\ s.state[s.current] = "RUNNING"
    BY DEF Consistent, InCall, SchedState
<1> HIDE DEF W
<1>3. Consistent(Wake(s, W))
    BY <1>1, <1>2 DEF Consistent
<1> QED
    BY <1>1, <1>3 DEF wakeup, W

\* Taking the next process out changes the queues and nothing else.
LEMMA PickNextType ==
    ASSUME NEW s, InCall(s), NonEmpty(s) # {}
    PROVE  /\ pick_next(s) \in SchedState
           /\ pick_next(s).state = s.state /\ pick_next(s).current = s.current
           /\ pick_next(s).chan = s.chan /\ pick_next(s).ticks = s.ticks
<1>1. s \in SchedState /\ QueuesHoldReady(s)
    BY DEF InCall
<1>2. Best(s) \in Queues /\ s.ready[Best(s)] # <<>>
    BY <1>1, BestIsReady
<1>3. s.ready \in [Queues -> Seq(Pid)]
    BY <1>1 DEF SchedState
<1>4. Tail(s.ready[Best(s)]) \in Seq(Pid)
    BY <1>2, <1>3, HeadTailProperties
<1>5. [s.ready EXCEPT ![Best(s)] = Tail(@)] \in [Queues -> Seq(Pid)]
    BY <1>2, <1>3, <1>4
<1> QED
    BY <1>1, <1>5, ZenonT(40) DEF pick_next, SchedState

\* The previous process goes back READY with a fresh quantum.
LEMMA RequeueFields ==
    ASSUME NEW s \in SchedState, NEW c \in Pid, s.state[c] = "RUNNING"
    PROVE  /\ Requeue(s, c) \in SchedState
           /\ Requeue(s, c).state = [s.state EXCEPT ![c] = "READY"]
           /\ Requeue(s, c).ready = [s.ready EXCEPT ![Prio(c)] = Append(@, c)]
           /\ Requeue(s, c).chan = s.chan
<1>1. Prio(c) \in Queues /\ Quantum(c) \in Nat
    BY PrioType
<1>2. s.ready \in [Queues -> Seq(Pid)] /\ Append(s.ready[Prio(c)], c) \in Seq(Pid)
    BY <1>1, AppendProperties DEF SchedState
<1>3. [s.ready EXCEPT ![Prio(c)] = Append(@, c)] \in [Queues -> Seq(Pid)]
    BY <1>1, <1>2
<1>4. [s EXCEPT !.state[c] = "READY", !.ticks[c] = Quantum(c)] \in SchedState
    BY <1>1, ZenonT(40) DEF SchedState, ProcessState
<1>5. /\ [s EXCEPT !.state[c] = "READY", !.ticks[c] = Quantum(c)].ready = s.ready
      /\ [s EXCEPT !.state[c] = "READY", !.ticks[c] = Quantum(c)].chan = s.chan
      /\ [s EXCEPT !.state[c] = "READY", !.ticks[c] = Quantum(c)].state
            = [s.state EXCEPT ![c] = "READY"]
    BY DEF SchedState
<1> DEFINE u == [s EXCEPT !.state[c] = "READY", !.ticks[c] = Quantum(c)]
<1>6. Requeue(s, c) = [u EXCEPT !.ready[Prio(c)] = Append(@, c)]
    BY DEF Requeue, queue_push_back
<1>7. u \in SchedState /\ u.ready = s.ready /\ u.chan = s.chan
      /\ u.state = [s.state EXCEPT ![c] = "READY"]
    BY <1>4, <1>5
<1> HIDE DEF u
<1> QED
    BY <1>3, <1>6, <1>7, ZenonT(40) DEF SchedState

\* What the end of scheduler_yield() writes: the next process is RUNNING and current.
LEMMA RunFields ==
    ASSUME NEW s \in SchedState, NEW h \in Pid
    PROVE  /\ Run(s, h) \in SchedState
           /\ Run(s, h).state = [s.state EXCEPT ![h] = "RUNNING"]
           /\ Run(s, h).current = h
           /\ Run(s, h).ready = s.ready /\ Run(s, h).chan = s.chan
BY ZenonT(40) DEF Run, SchedState, ProcessState

\* scheduler_yield() and scheduler_start(): whoever is next runs.  Sleepers
\* and zombies stay what they are.
LEMMA SwitchConsistent ==
    ASSUME NEW s, InCall(s), NonEmpty(s) # {}, NEW t,
           \/ s.current = NULL /\ t = scheduler_start(s)
           \/ s.current \in Pid /\ t = scheduler_yield(s)
    PROVE  Consistent(t) /\ SameLife(s, t) /\ t.current \in Pid
<1> DEFINE h == Head(s.ready[Best(s)])
           c == s.current
           n == pick_next(s)
           r == Run(n, h)
<1>1. s \in SchedState /\ QueuesHoldReady(s)
    BY DEF InCall
<1>2. h \in Pid /\ s.state[h] = "READY"
    BY <1>1, BestIsReady
<1>3. /\ n \in SchedState /\ n.state = s.state /\ n.current = c
      /\ n.chan = s.chan
    BY PickNextType
<1> HIDE DEF h, n
<1>4. /\ r \in SchedState /\ r.state = [s.state EXCEPT ![h] = "RUNNING"]
      /\ r.ready = n.ready /\ r.chan = s.chan /\ r.current = h
    BY <1>2, <1>3, RunFields
<1>5. QueuesHoldReady(r)
    <2>1. r.state[h] # "READY"
        BY <1>1, <1>2, <1>4 DEF SchedState
    <2>2. \A p \in Pid \ {h} : r.state[p] = "READY" <=> s.state[p] = "READY"
        BY <1>1, <1>4 DEF SchedState
    <2> QED
        BY <1>1, <1>4, <2>1, <2>2, QueuesMinusOne DEF h, n
<1>6. NULL \notin Pid /\ IDLE \in Pid
    BY SchedAssumption DEF Chan, Pid, IDLE
<1>7. CASE t = r /\ (c \in Pid => s.state[c] # "RUNNING")
    <2>1. IdleRunnable(t) /\ RunningIsCurrent(t) /\ SleepersHaveChannel(t)
        BY <1>1, <1>2, <1>4, <1>6, <1>7
        DEF InCall, IdleRunnable, RunningIsCurrent, SleepersHaveChannel, SchedState
    <2>2. SameLife(s, t)
        BY <1>1, <1>2, <1>4, <1>7 DEF SameLife, SchedState
    <2>3. t.state[t.current] = "RUNNING" /\ t.current \in Pid
        BY <1>1, <1>2, <1>4, <1>7 DEF SchedState
    <2> QED
        BY <1>4, <1>5, <1>7, <2>1, <2>2, <2>3 DEF Consistent, InCall
<1>8. CASE c \in Pid /\ s.state[c] = "RUNNING" /\ t = Run(Requeue(n, c), h)
    <2>1. /\ Requeue(n, c) \in SchedState
          /\ Requeue(n, c).state = [s.state EXCEPT ![c] = "READY"]
          /\ Requeue(n, c).ready = [n.ready EXCEPT ![Prio(c)] = Append(@, c)]
          /\ Requeue(n, c).chan = s.chan
        BY <1>3, <1>8, RequeueFields, ZenonT(40)
    <2>2. /\ t \in SchedState /\ t.state = [Requeue(n, c).state EXCEPT ![h] = "RUNNING"]
          /\ t.ready = Requeue(n, c).ready /\ t.chan = s.chan /\ t.current = h
        BY <1>2, <1>8, <2>1, RunFields
    <2>3. \A p \in Pid : t.state[p] = IF p = h THEN "RUNNING"
                                      ELSE IF p = c THEN "READY" ELSE s.state[p]
        BY <1>1, <1>2, <1>8, <2>1, <2>2, SMTT(20) DEF SchedState
    <2>4. c # h
        BY <1>2, <1>8
    <2>5. QueuesHoldReady(t)
        <3>1. r.state[c] # "READY" /\ t.state[c] = "READY"
            BY <1>1, <1>4, <1>8, <2>3, <2>4 DEF SchedState
        <3>2. \A p \in Pid \ {c} : t.state[p] = "READY" <=> r.state[p] = "READY"
            BY <1>1, <1>2, <1>4, <2>3 DEF SchedState
        <3>3. t.ready = [r.ready EXCEPT ![Prio(c)] = Append(@, c)]
            BY <1>4, <2>1, <2>2
        <3>4. c \in Pid
            BY <1>8
        <3> HIDE DEF c, r
        <3> QED
            BY <1>4, <1>5, <2>2, <3>1, <3>2, <3>3, <3>4, QueuesPlusOne, ZenonT(40)
    <2>6. IdleRunnable(t) /\ RunningIsCurrent(t) /\ SleepersHaveChannel(t)
        BY <1>1, <1>2, <1>6, <1>8, <2>2, <2>3
        DEF InCall, IdleRunnable, RunningIsCurrent, SleepersHaveChannel
    <2>7. SameLife(s, t) /\ t.state[t.current] = "RUNNING" /\ t.current \in Pid
        BY <1>2, <1>8, <2>2, <2>3 DEF SameLife
    <2> QED
        BY <2>2, <2>5, <2>6, <2>7 DEF Consistent, InCall
<1>9. CASE c = NULL
    BY <1>6, <1>7, <1>9 DEF scheduler_start, h, n
<1>10. CASE c \in Pid
    <2>1. t = Run(Requeue(n, c), h)
        BY <1>6, <1>10 DEF scheduler_yield, h, n
    <2>2. s.state[c] # "RUNNING" => Requeue(n, c) = n
        BY <1>3 DEF Requeue
    <2> QED
        BY <1>7, <1>8, <1>10, <2>1, <2>2
<1> QED
    BY <1>9, <1>10

\* Nobody to pick means that nobody is READY.
LEMMA EmptyMeansNobodyReady ==
    ASSUME NEW s, InCall(s), NonEmpty(s) = {}
    PROVE  \A p \in Pid : s.state[p] # "READY"
<1> SUFFICES ASSUME NEW p \in Pid, s.state[p] = "READY"
             PROVE  FALSE
    OBVIOUS
<1>1. Prio(p) \in Queues
    BY PrioType
<1>2. s.ready[Prio(p)] = <<>>
    BY <1>1 DEF NonEmpty
<1>3. Enumerates(s.ready[Prio(p)], ReadyAt(s, Prio(p)))
    BY <1>1 DEF InCall, QueuesHoldReady
<1>4. ReadyAt(s, Prio(p)) = {}
    BY <1>2, <1>3, EnumeratesFew
<1> QED
    BY <1>4 DEF ReadyAt

\* scheduler_yield(): after it the process on the CPU is RUNNING, even when
\* the caller had gone to sleep or had exited, because the idle process is
\* there to be picked; only the idle process can find nobody to switch to.
LEMMA YieldConsistent ==
    ASSUME NEW s, InCall(s), s.current \in Pid
    PROVE  LET t == scheduler_yield(s)
           IN  Consistent(t) /\ SameLife(s, t) /\ t.current \in Pid
<1>1. CASE NonEmpty(s) # {}
    BY <1>1, SwitchConsistent
<1>2. CASE NonEmpty(s) = {}
    <2>1. scheduler_yield(s) = s
        BY <1>2 DEF scheduler_yield
    <2>2. IDLE \in Pid
        BY SchedAssumption DEF Pid, IDLE
    <2>3. s.state[IDLE] = "RUNNING"
        BY <1>2, <2>2, EmptyMeansNobodyReady DEF InCall, IdleRunnable
    <2>4. s.current = IDLE
        BY <2>2, <2>3 DEF InCall, RunningIsCurrent
    <2> QED
        BY <2>1, <2>3, <2>4 DEF Consistent, SameLife
<1> QED
    BY <1>1, <1>2

\* scheduler_start(): the idle process is READY by then.
LEMMA StartConsistent ==
    ASSUME NEW s, InCall(s), s.current = NULL
    PROVE  LET t == scheduler_start(s)
           IN  Consistent(t) /\ SameLife(s, t) /\ t.current \in Pid
<1>1. IDLE \in Pid /\ NULL \notin Pid
    BY SchedAssumption DEF Pid, IDLE, Chan
<1>2. s.state[IDLE] = "READY"
    BY <1>1 DEF InCall, IdleRunnable, RunningIsCurrent
<1>3. NonEmpty(s) # {}
    BY <1>1, <1>2, EmptyMeansNobodyReady
<1> QED
    BY <1>3, SwitchConsistent

\* sleep_on(): the caller is not the idle process.
LEMMA SleepConsistent ==
    ASSUME NEW s, Consistent(s), s.current \in Pid \ {IDLE}, NEW ch \in Chan
    PROVE  LET t == sleep_on(s, ch)
           IN  Consistent(t) /\ SameLife(s, t) /\ t.current \in Pid
<1> DEFINE c == s.current
           u == [s EXCEPT !.chan[s.current] = ch, !.state[s.current] = "BLOCKED"]
<1>1. s \in SchedState /\ s.state[c] = "RUNNING"
    BY SchedAssumption DEF Consistent, InCall, Chan
<1>2. ch # NULL
    BY SchedAssumption
<1>3. /\ u \in SchedState /\ u.ready = s.ready /\ u.current = c
      /\ u.state = [s.state EXCEPT ![c] = "BLOCKED"]
      /\ u.chan = [s.chan EXCEPT ![c] = ch]
    BY <1>1, ZenonT(40) DEF SchedState, ProcessState
<1> HIDE DEF u
<1>4. \A p \in Pid : /\ u.state[p] = IF p = c THEN "BLOCKED" ELSE s.state[p]
                     /\ u.chan[p] = IF p = c THEN ch ELSE s.chan[p]
    BY <1>1, <1>3 DEF SchedState
<1>5. QueuesHoldReady(u)
    <2>1. \A q \in Queues : ReadyAt(u, q) = ReadyAt(s, q)
        BY <1>1, <1>4 DEF ReadyAt
    <2> QED
        BY <1>3, <2>1 DEF Consistent, InCall, QueuesHoldReady
<1>6. SleepersHaveChannel(u)
    BY <1>2, <1>4 DEF Consistent, InCall, SleepersHaveChannel
<1>7. IDLE \in Pid
    BY SchedAssumption DEF Pid, IDLE
<1>8. IdleRunnable(u) /\ RunningIsCurrent(u)
    BY <1>3, <1>4, <1>7 DEF Consistent, InCall, IdleRunnable, RunningIsCurrent
<1>9. InCall(u) /\ u.current \in Pid
    BY <1>3, <1>5, <1>6, <1>8 DEF InCall
<1>10. SameLife(s, u)
    BY <1>1, <1>4 DEF SameLife
<1>11. LET t == scheduler_yield(u)
       IN  Consistent(t) /\ SameLife(u, t) /\ t.current \in Pid
    BY <1>9, YieldConsistent
<1> QED
    BY <1>10, <1>11 DEF sleep_on, SameLife, u

\* scheduler_tick(): as scheduler_yield(), when the quantum is over.
LEMMA TickConsistent ==
    ASSUME NEW s, Consistent(s), s.current \in Pid
    PROVE  LET t == scheduler_tick(s)
           IN  Consistent(t) /\ SameLife(s, t) /\ t.current \in Pid
<1> DEFINE c == s.current
           u == [s EXCEPT !.ticks[c] = IF @ > 0 THEN @ - 1 ELSE 0]
<1>1. s \in SchedState
    BY DEF Consistent, InCall
<1>2. /\ u \in SchedState /\ u.ready = s.ready /\ u.current = c
      /\ u.state = s.state /\ u.chan = s.chan
    <2>1. s.ticks \in [Pid -> Nat]
        BY <1>1 DEF SchedState
    <2>2. [s.ticks EXCEPT ![c] = IF @ > 0 THEN @ - 1 ELSE 0] \in [Pid -> Nat]
        BY <2>1
    <2> QED
        BY <1>1, <2>2, ZenonT(40) DEF SchedState
<1>3. Consistent(u)
    <2> HIDE DEF u
    <2> QED
        BY <1>2 DEF Consistent, InCall, QueuesHoldReady, ReadyAt, SleepersHaveChannel,
                    IdleRunnable, RunningIsCurrent
<1>4. SameLife(s, u)
    BY <1>2 DEF SameLife
<1>5. scheduler_tick(s) = IF u.ticks[c] = 0 THEN scheduler_yield(u) ELSE u
    BY DEF scheduler_tick
<1> HIDE DEF u
<1>6. LET t == scheduler_yield(u)
      IN  Consistent(t) /\ SameLife(u, t) /\ t.current \in Pid
    BY <1>2, <1>3, YieldConsistent DEF Consistent
<1> QED
    BY <1>2, <1>3, <1>4, <1>5, <1>6 DEF SameLife
=============================================================================
