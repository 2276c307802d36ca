----------------------------- MODULE PipeProofs -----------------------------
(***************************************************************************)
(* The invariants of Pipe for any size of the ring, any processes and any  *)
(* sizes of reads and writes.                                              *)
(***************************************************************************)
EXTENDS PipeRing

-----------------------------------------------------------------------------
(***************************************************************************)
(* The inductive invariant.                                                *)
(***************************************************************************)
\* refs counts descriptors, an end is open while it has some, and who is not
\* there has none.
Counted ==
    /\ \A e \in End : IsFiniteSet(Holding(fds, e)) /\ refs[e] = Cardinality(Holding(fds, e))
    /\ readers = (IF refs["r"] = 0 THEN 0 ELSE 1)
    /\ writers = (IF refs["w"] = 0 THEN 0 ELSE 1)
    /\ freed <=> readers = 0 /\ writers = 0
    /\ \A p \in Procs : p \notin alive => fds[p]["r"] = 0 /\ fds[p]["w"] = 0

InWrite == {"fit", "fill"}

\* Who is in a call has a descriptor for it.
Entitled ==
    \A p \in Procs : /\ pc[p] = "read" => fds[p]["r"] > 0
                     /\ pc[p] \in InWrite => fds[p]["w"] > 0

\* A call c of process p that writes, with the sizes of the writes in ws.
Writing(c, ws) ==
    /\ c.id \in 1 .. Len(ws) /\ c.size = ws[c.id] /\ c.done < c.size

\* A write that waits to fit has sent nothing, and one that does not fit the
\* pipe is the only kind that is ever interrupted half-way.
InProgress ==
    /\ \A p \in Procs :
        /\ pc[p] = "read" => call[p].size > 0
        /\ pc[p] \in InWrite => Writing(call[p], writes)
        /\ pc[p] = "fit" => /\ call[p].done = 0
                            /\ \A i \in 1 .. Len(sent) : sent[i] # call[p].id
        /\ pc[p] = "fill" => call[p].size > PIPE_SIZE
    /\ \A p, q \in Procs :
        p # q /\ pc[p] \in InWrite /\ pc[q] \in InWrite => call[p].id # call[q].id
    /\ \A i \in 1 .. Len(sent) : sent[i] \in 1 .. Len(writes)
    /\ Len(writes) <= MaxWrites

Inv == /\ TypeOK /\ Counted /\ Entitled /\ InProgress
       /\ Fifo /\ AtomicWrites /\ SleepersMustWait

\* The pipe is in its ends, and an end is open for who has a descriptor of it.
LEMMA OpenEnds ==
    ASSUME Inv, NEW p \in Procs
    PROVE  /\ fds[p]["r"] > 0 => readers = 1
           /\ fds[p]["w"] > 0 => writers = 1
<1>1. fds \in Tables /\ "r" \in End /\ "w" \in End
    BY DEF Inv, TypeOK, Tables, End
<1>2. \A e \in End : fds[p][e] <= refs[e] /\ refs[e] \in Nat /\ fds[p][e] \in Nat
    BY <1>1, CountChange DEF Inv, Counted, Tables
<1>3. /\ readers = (IF refs["r"] = 0 THEN 0 ELSE 1)
      /\ writers = (IF refs["w"] = 0 THEN 0 ELSE 1)
    BY DEF Inv, Counted
<1> QED
    BY <1>1, <1>2, <1>3

-----------------------------------------------------------------------------
(***************************************************************************)
(* Calls.                                                                  *)
(***************************************************************************)
Places == {"user", "read", "fit", "fill"}
CallRecord == [size : Nat, done : Nat, id : Byte]

\* Process p moves to w in call c, more bytes may be sent and more writes be
\* started: what is needed of these to keep the facts about calls.
LEMMA CallMoves ==
    ASSUME Inv, NEW p \in Procs, NEW w \in Places, NEW c \in CallRecord,
           pc' = [pc EXCEPT ![p] = w], call' = [call EXCEPT ![p] = c], fds' = fds,
           sent' \in Seq(Byte), writes' \in Seq(Nat),
           Len(writes) <= Len(writes'), Len(writes') <= MaxWrites,
           \A i \in 1 .. Len(writes) : writes'[i] = writes[i],
           Len(sent) <= Len(sent'),
           \A i \in 1 .. Len(sent) : sent'[i] = sent[i],
           \A i \in 1 .. Len(sent') : ~(i <= Len(sent)) =>
               /\ sent'[i] \in 1 .. Len(writes')
               /\ \A q \in Procs : q # p /\ pc[q] \in InWrite => call[q].id # sent'[i],
           w = "read" => c.size > 0 /\ fds[p]["r"] > 0,
           w \in InWrite => /\ Writing(c, writes') /\ fds[p]["w"] > 0
                            /\ \A q \in Procs : q # p /\ pc[q] \in InWrite => call[q].id # c.id,
           w = "fit" => c.done = 0 /\ \A i \in 1 .. Len(sent') : sent'[i] # c.id,
           w = "fill" => c.size > PIPE_SIZE
    PROVE  Entitled' /\ InProgress'
<1>1. /\ pc'[p] = w /\ call'[p] = c
      /\ \A q \in Procs : q # p => pc'[q] = pc[q] /\ call'[q] = call[q]
    BY DEF Inv, TypeOK
<1>2. Len(sent) \in Nat /\ Len(sent') \in Nat /\ Len(writes) \in Nat /\ Len(writes') \in Nat
    BY LenProperties DEF Inv, TypeOK
<1>3. Entitled'
    BY <1>1 DEF Inv, Entitled, InWrite
<1>4. ASSUME NEW q \in Procs
      PROVE  /\ pc'[q] = "read" => call'[q].size > 0
             /\ pc'[q] \in InWrite => Writing(call'[q], writes')
             /\ pc'[q] = "fit" => /\ call'[q].done = 0
                                  /\ \A i \in 1 .. Len(sent') : sent'[i] # call'[q].id
             /\ pc'[q] = "fill" => call'[q].size > PIPE_SIZE
    <2>1. CASE q = p
        BY <1>1, <2>1
    <2>2. CASE q # p
        <3>1. pc'[q] = pc[q] /\ call'[q] = call[q]
            BY <1>1, <2>2
        <3>2. /\ pc[q] = "read" => call[q].size > 0
              /\ pc[q] \in InWrite => Writing(call[q], writes)
              /\ pc[q] = "fit" => /\ call[q].done = 0
                                  /\ \A i \in 1 .. Len(sent) : sent[i] # call[q].id
              /\ pc[q] = "fill" => call[q].size > PIPE_SIZE
            BY DEF Inv, InProgress
        <3>3. Writing(call[q], writes) => Writing(call[q], writes')
            BY <1>2 DEF Writing
        <3>4. ASSUME pc[q] = "fit", NEW i \in 1 .. Len(sent')
              PROVE  sent'[i] # call[q].id
            <4>1. CASE i <= Len(sent)
                <5>1. i \in 1 .. Len(sent)
                    BY <1>2, <4>1
                <5> QED
                    BY <3>2, <3>4, <5>1
            <4>2. CASE ~(i <= Len(sent))
                BY <2>2, <3>4, <4>2 DEF InWrite
            <4> QED
                BY <4>1, <4>2
        <3> QED
            BY <3>1, <3>2, <3>3, <3>4
    <2> QED
        BY <2>1, <2>2
<1>5. ASSUME NEW q \in Procs, NEW r \in Procs, q # r, pc'[q] \in InWrite, pc'[r] \in InWrite
      PROVE  call'[q].id # call'[r].id
    <2>1. CASE q # p /\ r # p
        BY <1>1, <1>5, <2>1 DEF Inv, InProgress
    <2>2. CASE q = p
        BY <1>1, <1>5, <2>2
    <2>3. CASE r = p
        BY <1>1, <1>5, <2>3
    <2> QED
        BY <2>1, <2>2, <2>3
<1>6. ASSUME NEW i \in 1 .. Len(sent')
      PROVE  sent'[i] \in 1 .. Len(writes')
    <2>1. CASE i <= Len(sent)
        <3>1. i \in 1 .. Len(sent)
            BY <1>2, <2>1
        <3>2. sent[i] \in 1 .. Len(writes)
            BY <3>1 DEF Inv, InProgress
        <3>3. sent'[i] = sent[i]
            BY <3>1
        <3> QED
            BY <1>2, <3>2, <3>3
    <2> QED
        BY <2>1
<1>7. InProgress'
    BY <1>4, <1>5, <1>6 DEF InProgress
<1> QED
    BY <1>3, <1>7

\* The same when nothing is sent and no write starts.
LEMMA CallMovesQuietly ==
    ASSUME Inv, NEW p \in Procs, NEW w \in Places, NEW c \in CallRecord,
           pc' = [pc EXCEPT ![p] = w], call' = [call EXCEPT ![p] = c],
           UNCHANGED <<fds, sent, writes>>,
           w = "read" => c.size > 0 /\ fds[p]["r"] > 0, w \notin InWrite
    PROVE  Entitled' /\ InProgress'
<1>1. /\ Len(sent) \in Nat /\ Len(writes) \in Nat
      /\ sent \in Seq(Byte) /\ writes \in Seq(Nat) /\ Len(writes) <= MaxWrites
    BY LenProperties DEF Inv, TypeOK, InProgress
<1>2. w # "fit" /\ w # "fill"
    BY DEF InWrite
<1>3. /\ sent' \in Seq(Byte) /\ writes' \in Seq(Nat) /\ fds' = fds
      /\ Len(writes) <= Len(writes') /\ Len(writes') <= MaxWrites /\ Len(sent) <= Len(sent')
    BY <1>1
<1>4. /\ \A i \in 1 .. Len(writes) : writes'[i] = writes[i]
      /\ \A i \in 1 .. Len(sent) : sent'[i] = sent[i]
    OBVIOUS
<1>5. \A i \in 1 .. Len(sent') : ~(i <= Len(sent)) =>
               /\ sent'[i] \in 1 .. Len(writes')
               /\ \A q \in Procs : q # p /\ pc[q] \in InWrite => call[q].id # sent'[i]
    BY <1>1
<1>6. /\ w \in InWrite => /\ Writing(c, writes') /\ fds[p]["w"] > 0
                          /\ \A q \in Procs : q # p /\ pc[q] \in InWrite => call[q].id # c.id
      /\ w = "fit" => c.done = 0 /\ \A i \in 1 .. Len(sent') : sent'[i] # c.id
      /\ w = "fill" => c.size > PIPE_SIZE
    BY <1>2
<1> QED
    BY <1>3, <1>4, <1>5, <1>6, CallMoves, Zenon

\* The facts about descriptors hold while nobody opens or closes.
LEMMA CountedSame ==
    ASSUME Inv, UNCHANGED ends
    PROVE  Counted'
BY DEF Inv, Counted, ends

\* Fifo in terms of the ring.
LEMMA FifoIs == Fifo <=> got \o ContentOf(buf, head, len) = sent
BY DEF Fifo, Content, ContentOf

\* pipe_read() keeps the invariant.
LEMMA ReadKeeps ==
    ASSUME Inv, NEW p \in Procs, NEW c \in CallRecord, c.size > 0,
           fds[p]["r"] > 0, ~asleep[p], pipe_read(p, c)
    PROVE  Inv'
<1>0. /\ PIPE_SIZE \in Nat \ {0} /\ MaxWrites \in Nat /\ NoCall \in CallRecord
      /\ "user" \in Places /\ "read" \in Places
      /\ "user" \notin InWrite /\ "read" \notin InWrite
    BY PipeAssumption DEF NoCall, CallRecord, Byte, Places, InWrite
<1>1. UNCHANGED <<ends, sent, writes>> /\ UNCHANGED <<fds, sent, writes, readers, writers>>
    BY DEF pipe_read, ends
<1>2. Counted'
    BY <1>1, CountedSame
<1>3. AtomicWrites'
    BY <1>1 DEF Inv, AtomicWrites
<1>4. CASE pipe_read_empty(p, c)
    <2>1. UNCHANGED <<ring, got>> /\ UNCHANGED <<buf, head, len, got>> /\ len = 0
        BY <1>4 DEF pipe_read_empty, ring
    <2>2. Fifo'
        BY <1>1, <2>1 DEF Inv, Fifo, Content
    <2>3. CASE Return(p) /\ UNCHANGED asleep
        <3>1. Entitled' /\ InProgress'
            BY <1>0, <1>1, <2>3, CallMovesQuietly DEF Return
        <3>2. TypeOK'
            BY <1>0, <1>1, <2>1, <2>3 DEF Inv, TypeOK, Return, ends, CallRecord
        <3>3. SleepersMustWait'
            BY <1>1, <2>1, <2>3 DEF Inv, TypeOK, SleepersMustWait, Return, must_wait_to_fit
        <3> QED
            BY <1>2, <1>3, <2>2, <3>1, <3>2, <3>3 DEF Inv
    <2>4. CASE writers # 0 /\ Sleep(p, "read", c, asleep)
        <3>1. Entitled' /\ InProgress'
            BY <1>0, <1>1, <2>4, CallMovesQuietly DEF Sleep
        <3>2. TypeOK'
            BY <1>0, <1>1, <2>1, <2>4 DEF Inv, TypeOK, Sleep, ends, CallRecord
        <3>3. SleepersMustWait'
            BY <1>1, <2>1, <2>4 DEF Inv, TypeOK, SleepersMustWait, Sleep, must_wait_to_fit
        <3> QED
            BY <1>2, <1>3, <2>2, <3>1, <3>2, <3>3 DEF Inv
    <2> QED
        BY <1>4, <2>3, <2>4 DEF pipe_read_empty
<1>5. CASE pipe_read_some(p, c)
    <2> DEFINE k == Min(c.size, len)
               t == [i \in 1 .. k |-> buf[Slot(i - 1)]]
               x == ContentOf(buf, head, len)
    <2>1. /\ head' = Slot(k) /\ len' = len - k /\ buf' = buf /\ got' = got \o t
          /\ asleep' = wakeup /\ Return(p)
        BY <1>5 DEF pipe_read_some
    <2>2. k \in 0 .. len /\ len \in 0 .. PIPE_SIZE /\ head \in 0 .. PIPE_SIZE - 1 /\ buf \in Ring
        BY DEF Min, Inv, TypeOK, CallRecord, Ring
    <2>3. /\ Slot(k) \in 0 .. PIPE_SIZE - 1
          /\ ContentOf(buf, Slot(k), len - k) = SubSeq(x, k + 1, len)
          /\ t = SubSeq(x, 1, k)
        <3> HIDE DEF k
        <3> QED
            BY <2>2, RingTakes DEF Slot
    <2>4. x \in Seq(Byte) /\ Len(x) = len
        BY <2>2, ContentSeq
    <2> HIDE DEF k, t, x
    <2>5. SubSeq(x, 1, k) \o SubSeq(x, k + 1, len) = x
        <3>1. 1 \in 1 .. Len(x) + 1 /\ k \in 1 - 1 .. Len(x) /\ len \in k .. Len(x)
            BY <1>0, <2>2, <2>4
        <3>2. SubSeq(x, 1, k) \o SubSeq(x, k + 1, len) = SubSeq(x, 1, len)
            BY <2>4, <3>1, ConcatAdjacentSubSeq
        <3> QED
            BY <2>4, <3>2, SubSeqFull
    <2>6. t \in Seq(Byte) /\ SubSeq(x, k + 1, len) \in Seq(Byte)
        <3>1. \A i \in 1 .. len : x[i] \in Byte
            BY <2>4, ElementOfSeq
        <3>2. \A i \in 1 .. k : i \in 1 .. len
            BY <1>0, <2>2
        <3>3. \A i \in k + 1 .. len : i \in 1 .. len
            BY <1>0, <2>2
        <3>4. 1 \in Int /\ k \in Int /\ k + 1 \in Int /\ len \in Int
            BY <1>0, <2>2
        <3>5. SubSeq(x, 1, k) \in Seq(Byte)
            BY <3>1, <3>2, <3>4, SubSeqProperties
        <3>6. SubSeq(x, k + 1, len) \in Seq(Byte)
            BY <3>1, <3>3, <3>4, SubSeqProperties
        <3> QED
            BY <2>3, <3>5, <3>6
    <2>7. Fifo'
        <3>1. got \in Seq(Byte) /\ got \o x = sent
            BY FifoIs DEF Inv, TypeOK, x
        <3>2. (got \o t) \o SubSeq(x, k + 1, len) = got \o (t \o SubSeq(x, k + 1, len))
            <4> DEFINE y == SubSeq(x, k + 1, len)
            <4>1. got \in Seq(Byte) /\ t \in Seq(Byte) /\ y \in Seq(Byte)
                BY <2>6, <3>1
            <4> HIDE DEF y
            <4>2. (got \o t) \o y = got \o (t \o y)
                BY <4>1, ConcatAssociative
            <4> QED
                BY <4>2 DEF y
        <3>3. ContentOf(buf', head', len') = SubSeq(x, k + 1, len) /\ got' = got \o t /\ sent' = sent
            BY <1>1, <2>1, <2>3
        <3>4. t \o SubSeq(x, k + 1, len) = x
            BY <2>3, <2>5
        <3>5. got' \o ContentOf(buf', head', len') = sent'
            BY <3>1, <3>2, <3>3, <3>4, Zenon
        <3> QED
            BY <3>5 DEF Fifo, Content, ContentOf
    <2>8. Entitled' /\ InProgress'
        BY <1>0, <1>1, <2>1, CallMovesQuietly DEF Return
    <2>9. got' \in Seq(Byte)
        BY <2>1, <2>6, ConcatProperties DEF Inv, TypeOK
    <2>10. len' \in 0 .. PIPE_SIZE /\ head' \in 0 .. PIPE_SIZE - 1
        BY <1>0, <2>1, <2>2, <2>3
    <2>11. TypeOK'
        BY <1>0, <1>1, <2>1, <2>9, <2>10 DEF Inv, TypeOK, Return, ends, CallRecord, wakeup
    <2>12. SleepersMustWait'
        BY <2>1 DEF SleepersMustWait, wakeup
    <2> QED
        BY <1>2, <1>3, <2>7, <2>8, <2>11, <2>12 DEF Inv
<1> QED
    BY <1>4, <1>5 DEF pipe_read

\* The writes so far, and perhaps one more.
Started ==
    /\ writes' \in Seq(Nat) /\ Len(writes) <= Len(writes') /\ Len(writes') <= MaxWrites
    /\ \A i \in 1 .. Len(writes) : writes'[i] = writes[i]

\* Sending k bytes x at once keeps short writes in one piece, if x is a long
\* write, or is sent whole and for the first time.
LEMMA AtomicKeeps ==
    ASSUME Inv, Started, NEW k \in Nat, NEW x, sent' \in Seq(Byte),
           Len(sent') = Len(sent) + k,
           \A i \in 1 .. Len(sent) : sent'[i] = sent[i],
           \A i \in Len(sent) + 1 .. Len(sent') : sent'[i] = x,
           k > 0 => \/ writes'[x] > PIPE_SIZE
                    \/ k = writes'[x] /\ \A i \in 1 .. Len(sent) : sent[i] # x
    PROVE  AtomicWrites'
<1>1. Len(sent) \in Nat /\ Len(writes) \in Nat /\ Len(writes') \in Nat /\ PIPE_SIZE \in Nat
    BY LenProperties, PipeAssumption DEF Inv, TypeOK, Started
<1> SUFFICES ASSUME NEW w \in 1 .. Len(writes'), writes'[w] <= PIPE_SIZE
             PROVE  LET at == {i \in 1 .. Len(sent') : sent'[i] = w}
                    IN  at = {} \/ \E i \in at : at = i .. i + writes'[w] - 1
    BY DEF AtomicWrites
<1> DEFINE old == {i \in 1 .. Len(sent) : sent[i] = w}
           at  == {i \in 1 .. Len(sent') : sent'[i] = w}
<1>2. writes'[w] \in Nat
    BY ElementOfSeq DEF Started
<1>3. old = {} \/ \E i \in old : old = i .. i + writes'[w] - 1
    <2>1. CASE w <= Len(writes)
        <3>1. w \in 1 .. Len(writes) /\ writes'[w] = writes[w]
            BY <1>1, <2>1 DEF Started
        <3> QED
            BY <3>1 DEF Inv, AtomicWrites
    <2>2. CASE ~(w <= Len(writes))
        <3>1. \A i \in 1 .. Len(sent) : sent[i] \in 1 .. Len(writes)
            BY DEF Inv, InProgress
        <3>2. w \notin 1 .. Len(writes)
            BY <1>1, <2>2
        <3> QED
            BY <3>1, <3>2
    <2> QED
        BY <2>1, <2>2
<1>4. CASE k = 0 \/ x # w
    <2>1. at = old
        <3>1. ASSUME NEW i \in at PROVE i \in old
            <4>1. i \in 1 .. Len(sent') /\ sent'[i] = w
                OBVIOUS
            <4>2. i <= Len(sent)
                <5>1. ASSUME ~(i <= Len(sent)) PROVE FALSE
                    <6>1. i \in Len(sent) + 1 .. Len(sent') /\ k # 0
                        BY <1>1, <4>1, <5>1
                    <6> QED
                        BY <1>4, <4>1, <6>1
                <5> QED
                    BY <5>1
            <4>3. i \in 1 .. Len(sent)
                BY <1>1, <4>1, <4>2
            <4> QED
                BY <4>1, <4>3
        <3>2. ASSUME NEW i \in old PROVE i \in at
            <4>1. i \in 1 .. Len(sent) /\ sent[i] = w
                OBVIOUS
            <4>2. i \in 1 .. Len(sent')
                BY <1>1, <4>1
            <4> QED
                BY <4>1, <4>2
        <3> HIDE DEF at, old
        <3> QED
            BY <3>1, <3>2, Zenon
    <2> QED
        BY <1>3, <2>1
<1>5. CASE k > 0 /\ x = w
    <2>1. k = writes'[w] /\ \A i \in 1 .. Len(sent) : sent[i] # w
        BY <1>1, <1>2, <1>5
    <2>2. at = Len(sent) + 1 .. Len(sent) + k
        <3>1. ASSUME NEW i \in at PROVE i \in Len(sent) + 1 .. Len(sent) + k
            <4>1. i \in 1 .. Len(sent') /\ sent'[i] = w
                OBVIOUS
            <4>2. ~(i <= Len(sent))
                <5>1. ASSUME i <= Len(sent) PROVE FALSE
                    <6>1. i \in 1 .. Len(sent)
                        BY <1>1, <4>1, <5>1
                    <6> QED
                        BY <2>1, <4>1, <6>1
                <5> QED
                    BY <5>1
            <4> QED
                BY <1>1, <4>1, <4>2
        <3>2. ASSUME NEW i \in Len(sent) + 1 .. Len(sent) + k PROVE i \in at
            <4>1. i \in Len(sent) + 1 .. Len(sent') /\ i \in 1 .. Len(sent')
                BY <1>1
            <4> QED
                BY <1>5, <4>1
        <3> HIDE DEF at
        <3> QED
            BY <3>1, <3>2, Zenon
    <2> DEFINE f == Len(sent) + 1
    <2>3. f \in Len(sent) + 1 .. Len(sent) + k /\ f + writes'[w] - 1 = Len(sent) + k
        BY <1>1, <1>5, <2>1
    <2> HIDE DEF f, at
    <2>4. f \in at /\ at = f .. f + writes'[w] - 1
        BY <2>2, <2>3 DEF f
    <2> QED
        BY <2>4 DEF at
<1>6. (k = 0 \/ x # w) \/ (k > 0 /\ x = w)
    OBVIOUS
<1> QED
    BY <1>4, <1>5, <1>6, Zenon

\* A write by p that is going on: its call c is its own, and if it is short it
\* has sent nothing yet.
Ready(p, c) ==
    /\ c \in CallRecord /\ Writing(c, writes') /\ fds[p]["w"] > 0 /\ ~asleep[p]
    /\ \A q \in Procs : q # p /\ pc[q] \in InWrite => call[q].id # c.id
    /\ c.size > PIPE_SIZE \/ (c.done = 0 /\ \A i \in 1 .. Len(sent) : sent[i] # c.id)

\* A turn of pipe_write() that sends nothing keeps the invariant.
LEMMA WriteWaits ==
    ASSUME Inv, Started, NEW p \in Procs, NEW c, Ready(p, c),
           UNCHANGED <<ends, got, ring, sent>>,
           \/ Return(p) /\ UNCHANGED asleep
           \/ must_wait_to_fit(c) /\ Sleep(p, "fit", c, asleep)
           \/ /\ readers # 0 /\ len = PIPE_SIZE /\ c.size > PIPE_SIZE
              /\ Sleep(p, "fill", c, asleep)
    PROVE  Inv'
<1>0. /\ PIPE_SIZE \in Nat \ {0} /\ MaxWrites \in Nat /\ NoCall \in CallRecord
      /\ "user" \in Places /\ "fit" \in Places /\ "fill" \in Places
      /\ "user" \notin InWrite /\ c \in CallRecord
    BY PipeAssumption DEF NoCall, CallRecord, Byte, Places, InWrite, Ready
<1>1. UNCHANGED <<fds, readers, writers, sent, buf, head, len, got>>
    BY DEF ends, ring
<1>2. Counted'
    BY CountedSame
<1>3. Fifo'
    BY <1>1 DEF Inv, Fifo, Content
<1>4. sent \in Seq(Byte) /\ Len(sent) \in Nat
    BY LenProperties DEF Inv, TypeOK
<1>5. AtomicWrites'
    <2>1. /\ 0 \in Nat /\ sent' \in Seq(Byte) /\ Len(sent') = Len(sent) + 0
          /\ \A i \in 1 .. Len(sent) : sent'[i] = sent[i]
          /\ \A i \in Len(sent) + 1 .. Len(sent') : sent'[i] = 0
          /\ ~(0 > 0)
        BY <1>1, <1>4
    <2> QED
        BY <2>1, AtomicKeeps
<1>6. /\ sent' \in Seq(Byte) /\ fds' = fds /\ Len(sent) <= Len(sent')
      /\ \A i \in 1 .. Len(sent) : sent'[i] = sent[i]
      /\ \A i \in 1 .. Len(sent') : ~(i <= Len(sent)) =>
               /\ sent'[i] \in 1 .. Len(writes')
               /\ \A q \in Procs : q # p /\ pc[q] \in InWrite => call[q].id # sent'[i]
    BY <1>1, <1>4
<1>7. ASSUME NEW w \in Places, NEW d \in CallRecord,
             pc' = [pc EXCEPT ![p] = w], call' = [call EXCEPT ![p] = d],
             \/ w = "user"
             \/ w = "fit" /\ d = c /\ must_wait_to_fit(c)
             \/ w = "fill" /\ d = c /\ c.size > PIPE_SIZE
      PROVE  Entitled' /\ InProgress'
    <2>1. w # "read"
        BY <1>7
    <2>2. w \in InWrite => /\ Writing(d, writes') /\ fds[p]["w"] > 0
                           /\ \A q \in Procs : q # p /\ pc[q] \in InWrite => call[q].id # d.id
        BY <1>0, <1>7 DEF Ready
    <2>3. w = "fit" => d.done = 0 /\ \A i \in 1 .. Len(sent') : sent'[i] # d.id
        BY <1>0, <1>1, <1>7 DEF Ready, must_wait_to_fit, CallRecord
    <2>4. w = "fill" => d.size > PIPE_SIZE
        BY <1>7
    <2> QED
        BY <1>6, <1>7, <2>1, <2>2, <2>3, <2>4, CallMoves, ZenonT(60) DEF Started
<1>8. CASE Return(p) /\ UNCHANGED asleep
    <2>1. Entitled' /\ InProgress'
        BY <1>0, <1>7, <1>8 DEF Return
    <2>2. TypeOK'
        BY <1>0, <1>1, <1>8 DEF Inv, TypeOK, Return, ends, CallRecord, Started
    <2>3. SleepersMustWait'
        BY <1>1, <1>8 DEF Inv, TypeOK, SleepersMustWait, Return, must_wait_to_fit, Ready
    <2> QED
        BY <1>2, <1>3, <1>5, <2>1, <2>2, <2>3 DEF Inv
<1>9. CASE must_wait_to_fit(c) /\ Sleep(p, "fit", c, asleep)
    <2>1. Entitled' /\ InProgress'
        BY <1>0, <1>7, <1>9 DEF Sleep
    <2>2. TypeOK'
        BY <1>0, <1>1, <1>9 DEF Inv, TypeOK, Sleep, ends, CallRecord, Started
    <2>3. SleepersMustWait'
        BY <1>1, <1>9 DEF Inv, TypeOK, SleepersMustWait, Sleep, must_wait_to_fit, Ready
    <2> QED
        BY <1>2, <1>3, <1>5, <2>1, <2>2, <2>3 DEF Inv
<1>10. CASE /\ readers # 0 /\ len = PIPE_SIZE /\ c.size > PIPE_SIZE
            /\ Sleep(p, "fill", c, asleep)
    <2>1. Entitled' /\ InProgress'
        BY <1>0, <1>7, <1>10 DEF Sleep
    <2>2. TypeOK'
        BY <1>0, <1>1, <1>10 DEF Inv, TypeOK, Sleep, ends, CallRecord, Started
    <2>3. SleepersMustWait'
        BY <1>1, <1>10 DEF Inv, TypeOK, SleepersMustWait, Sleep, must_wait_to_fit, Ready
    <2> QED
        BY <1>2, <1>3, <1>5, <2>1, <2>2, <2>3 DEF Inv
<1> QED
    BY <1>8, <1>9, <1>10


\* A turn of pipe_write() that copies keeps the invariant.
LEMMA WriteSends ==
    ASSUME Inv, Started, NEW p \in Procs, NEW c, Ready(p, c), ~must_wait_to_fit(c),
           UNCHANGED <<ends, got>>, pipe_write_some(p, c)
    PROVE  Inv'
<1> DEFINE k == Min(c.size - c.done, PIPE_SIZE - len)
           t == [i \in 1 .. k |-> c.id]
           x == ContentOf(buf, head, len)
<1>0. /\ PIPE_SIZE \in Nat \ {0} /\ MaxWrites \in Nat /\ NoCall \in CallRecord
      /\ "user" \in Places /\ "fill" \in Places
      /\ "user" \notin InWrite /\ "fill" \in InWrite
    BY PipeAssumption DEF NoCall, CallRecord, Byte, Places, InWrite
<1>1. /\ c \in CallRecord /\ c.size \in Nat /\ c.done \in Nat /\ c.id \in Byte
      /\ c.id \in 1 .. Len(writes') /\ c.size = writes'[c.id] /\ c.done < c.size
    BY DEF Ready, CallRecord, Writing
<1>2. UNCHANGED <<fds, readers, writers, got, head>>
    BY DEF ends, pipe_write_some
<1>3. /\ len \in 0 .. PIPE_SIZE - 1 /\ head \in 0 .. PIPE_SIZE - 1 /\ buf \in Ring
      /\ len \in 0 .. PIPE_SIZE /\ readers # 0
    BY <1>0 DEF Inv, TypeOK, Ring, pipe_write_some
<1>4. /\ k \in 1 .. PIPE_SIZE - len /\ k \in 0 .. PIPE_SIZE - len /\ k \in Nat /\ k <= c.size - c.done
      /\ k < c.size - c.done => k = PIPE_SIZE - len
    BY <1>0, <1>1, <1>3 DEF Min
<1>5. /\ buf' = [j \in 0 .. PIPE_SIZE - 1 |->
                    IF j \in {(head + (len + i)) % PIPE_SIZE : i \in 0 .. k - 1} THEN c.id ELSE buf[j]]
      /\ len' = len + k /\ sent' = sent \o t
      /\ \/ Return(p) /\ asleep' = wakeup
         \/ c.done + k < c.size /\ Sleep(p, "fill", [c EXCEPT !.done = @ + k], wakeup)
    BY DEF pipe_write_some, Slot
<1>6. t \in Seq(Byte) /\ Len(t) = k /\ \A i \in 1 .. k : t[i] = c.id
    <2>1. t \in [1 .. k -> Byte] /\ \A i \in 1 .. k : t[i] = c.id
        BY <1>1
    <2> HIDE DEF t
    <2> QED
        BY <1>4, <2>1, SeqOf
<1>7. buf' \in Ring /\ ContentOf(buf', head, len + k) = x \o t
    <2>1. buf' = Filled(buf, head, len, k, c.id) /\ t = Repeat(k, c.id)
        BY <1>5 DEF Filled, Repeat
    <2> HIDE DEF k, t
    <2> QED
        BY <1>1, <1>3, <1>4, <2>1, RingAdds
<1>8. x \in Seq(Byte) /\ Len(x) = len
    BY <1>3, ContentSeq
<1> HIDE DEF k, t, x
<1>9. sent \in Seq(Byte) /\ got \in Seq(Byte) /\ Len(sent) \in Nat /\ got \o x = sent
    BY FifoIs, LenProperties DEF Inv, TypeOK, x
<1>10. Fifo'
    <2>1. (got \o x) \o t = got \o (x \o t)
        <3>1. got \in Seq(Byte) /\ x \in Seq(Byte) /\ t \in Seq(Byte)
            BY <1>6, <1>8, <1>9
        <3> QED
            BY <3>1, ConcatAssociative
    <2>2. ContentOf(buf', head', len') = x \o t
        BY <1>2, <1>5, <1>7
    <2>3. got' \o ContentOf(buf', head', len') = sent'
        BY <1>2, <1>5, <1>9, <2>1, <2>2, Zenon
    <2> QED
        BY <2>3 DEF Fifo, Content, ContentOf
<1>11. /\ sent' \in Seq(Byte) /\ Len(sent') = Len(sent) + k
       /\ \A i \in 1 .. Len(sent) : sent'[i] = sent[i]
       /\ \A i \in Len(sent) + 1 .. Len(sent') : sent'[i] = c.id
    <2>1. /\ sent \o t \in Seq(Byte) /\ Len(sent \o t) = Len(sent) + Len(t)
          /\ \A i \in 1 .. Len(sent) + Len(t) :
                (sent \o t)[i] = IF i <= Len(sent) THEN sent[i] ELSE t[i - Len(sent)]
        BY <1>6, <1>9, ConcatProperties
    <2>2. \A i \in 1 .. Len(sent) : i \in 1 .. Len(sent) + Len(t) /\ i <= Len(sent)
        BY <1>4, <1>6, <1>9
    <2>3. \A i \in Len(sent) + 1 .. Len(sent) + k :
             /\ i \in 1 .. Len(sent) + Len(t) /\ ~(i <= Len(sent)) /\ i - Len(sent) \in 1 .. k
        BY <1>4, <1>6, <1>9
    <2> QED
        BY <1>5, <1>6, <2>1, <2>2, <2>3, Zenon
<1>12. c.size > PIPE_SIZE \/ (k = c.size /\ \A i \in 1 .. Len(sent) : sent[i] # c.id)
    <2>1. CASE ~(c.size > PIPE_SIZE)
        <3>1. c.done = 0 /\ \A i \in 1 .. Len(sent) : sent[i] # c.id
            BY <2>1 DEF Ready
        <3>2. ~(PIPE_SIZE - len < c.size)
            BY <1>0, <1>1, <1>3, <2>1 DEF must_wait_to_fit
        <3>3. k = c.size
            BY <1>0, <1>1, <1>3, <1>4, <3>1, <3>2
        <3> QED
            BY <3>1, <3>3
    <2> QED
        BY <2>1
<1>13. AtomicWrites'
    <2>1. k > 0 => \/ writes'[c.id] > PIPE_SIZE
                   \/ k = writes'[c.id] /\ \A i \in 1 .. Len(sent) : sent[i] # c.id
        BY <1>1, <1>12
    <2> QED
        BY <1>4, <1>11, <2>1, AtomicKeeps
<1>14. Counted'
    BY CountedSame
<1>15. /\ sent' \in Seq(Byte) /\ fds' = fds /\ Len(sent) <= Len(sent')
       /\ \A i \in 1 .. Len(sent) : sent'[i] = sent[i]
       /\ \A i \in 1 .. Len(sent') : ~(i <= Len(sent)) =>
               /\ sent'[i] \in 1 .. Len(writes')
               /\ \A q \in Procs : q # p /\ pc[q] \in InWrite => call[q].id # sent'[i]
    <2>1. \A i \in 1 .. Len(sent') : ~(i <= Len(sent)) => i \in Len(sent) + 1 .. Len(sent')
        BY <1>4, <1>9, <1>11
    <2>2. Len(sent) <= Len(sent')
        BY <1>4, <1>9, <1>11
    <2> QED
        BY <1>1, <1>2, <1>11, <2>1, <2>2, Zenon DEF Ready
<1>16. len' \in 0 .. PIPE_SIZE /\ head' \in 0 .. PIPE_SIZE - 1
    BY <1>0, <1>2, <1>3, <1>4, <1>5
<1>17. buf' \in [0 .. PIPE_SIZE - 1 -> Byte]
    BY <1>7 DEF Ring
<1>18. CASE Return(p) /\ asleep' = wakeup
    <2>1. pc' = [pc EXCEPT ![p] = "user"] /\ call' = [call EXCEPT ![p] = NoCall]
        BY <1>18 DEF Return
    <2>2. "user" # "read" /\ "user" # "fit" /\ "user" # "fill"
        OBVIOUS
    <2>3. Entitled' /\ InProgress'
        BY <1>0, <1>15, <2>1, <2>2, CallMoves, ZenonT(60) DEF Started
    <2>4. TypeOK'
        BY <1>0, <1>2, <1>15, <1>16, <1>17, <1>18
            DEF Inv, TypeOK, Return, ends, CallRecord, wakeup, Started
    <2>5. SleepersMustWait'
        BY <1>18 DEF SleepersMustWait, wakeup
    <2> QED
        BY <1>10, <1>13, <1>14, <2>3, <2>4, <2>5 DEF Inv
<1>19. CASE c.done + k < c.size /\ Sleep(p, "fill", [c EXCEPT !.done = @ + k], wakeup)
    <2> DEFINE d == [c EXCEPT !.done = @ + k]
    <2>1. /\ d \in CallRecord /\ d.id = c.id /\ d.size = c.size /\ d.done = c.done + k
        BY <1>1, <1>4 DEF CallRecord
    <2>2. pc' = [pc EXCEPT ![p] = "fill"] /\ call' = [call EXCEPT ![p] = d]
          /\ asleep' = [wakeup EXCEPT ![p] = TRUE] /\ sig' = sig /\ ~sig[p]
        BY <1>19 DEF Sleep
    <2> HIDE DEF d
    <2>3. d.size > PIPE_SIZE
        BY <1>0, <1>1, <1>4, <1>12, <1>19, <2>1
    <2>4. Writing(d, writes') /\ fds[p]["w"] > 0
        BY <1>1, <1>19, <2>1 DEF Writing, Ready
    <2>5. \A q \in Procs : q # p /\ pc[q] \in InWrite => call[q].id # d.id
        BY <2>1 DEF Ready
    <2>6. "fill" # "read" /\ "fill" # "fit"
        OBVIOUS
    <2>7. Entitled' /\ InProgress'
        BY <1>0, <1>15, <2>1, <2>2, <2>3, <2>4, <2>5, <2>6, CallMoves, ZenonT(60) DEF Started
    <2>8. TypeOK'
        BY <1>0, <1>2, <1>15, <1>16, <1>17, <2>1, <2>2
            DEF Inv, TypeOK, ends, CallRecord, wakeup, Started
    <2>9. len' = PIPE_SIZE /\ readers' # 0
        BY <1>0, <1>1, <1>2, <1>3, <1>4, <1>5, <1>19
    <2>10. SleepersMustWait'
        BY <2>2, <2>9 DEF SleepersMustWait, wakeup, Inv, TypeOK
    <2> QED
        BY <1>10, <1>13, <1>14, <2>7, <2>8, <2>10 DEF Inv
<1> QED
    BY <1>5, <1>18, <1>19


\* The loop of pipe_write() that copies keeps the invariant.
LEMMA FillKeeps ==
    ASSUME Inv, Started, NEW p \in Procs, NEW c, Ready(p, c), ~must_wait_to_fit(c),
           UNCHANGED <<ends, got>>, pipe_write_fill(p, c)
    PROVE  Inv'
<1>1. CASE pipe_write_some(p, c)
    BY <1>1, WriteSends
<1>2. CASE pipe_write_stuck(p, c)
    <2>1. UNCHANGED <<ends, got, ring, sent>>
        BY <1>2 DEF pipe_write_stuck
    <2>2. \/ Return(p) /\ UNCHANGED asleep
          \/ readers # 0 /\ len = PIPE_SIZE /\ Sleep(p, "fill", c, asleep)
        BY <1>2 DEF pipe_write_stuck
    <2>3. readers # 0 /\ len = PIPE_SIZE => c.size > PIPE_SIZE
        BY PipeAssumption DEF Ready, CallRecord, Writing, must_wait_to_fit
    <2> QED
        BY <2>1, <2>2, <2>3, WriteWaits
<1> QED
    BY <1>1, <1>2 DEF pipe_write_fill

\* pipe_write() keeps the invariant.
LEMMA WriteKeeps ==
    ASSUME Inv, Started, NEW p \in Procs, NEW c, Ready(p, c), pipe_write(p, c)
    PROVE  Inv'
<1>1. UNCHANGED <<ends, got>>
    BY DEF pipe_write
<1>2. CASE pipe_write_fit(p, c)
    <2>1. UNCHANGED <<ends, got, ring, sent>>
        BY <1>1, <1>2 DEF pipe_write_fit
    <2>2. \/ Return(p) /\ UNCHANGED asleep
          \/ must_wait_to_fit(c) /\ Sleep(p, "fit", c, asleep)
        BY <1>2 DEF pipe_write_fit
    <2> QED
        BY <2>1, <2>2, WriteWaits
<1>3. CASE ~must_wait_to_fit(c) /\ pipe_write_fill(p, c)
    BY <1>1, <1>3, FillKeeps
<1> QED
    BY <1>2, <1>3 DEF pipe_write

\* A write that starts keeps the invariant.
LEMMA WriteInv == ASSUME Inv, NEW p \in Procs, Write(p) PROVE Inv'
<1>1. PICK n \in Sizes : /\ writes' = Append(writes, n)
                         /\ pipe_write(p, [size |-> n, done |-> 0, id |-> Len(writes) + 1])
    BY DEF Write
<1> DEFINE c == [size |-> n, done |-> 0, id |-> Len(writes) + 1]
<1>2. /\ writes \in Seq(Nat) /\ Len(writes) \in Nat /\ n \in Nat \ {0} /\ PIPE_SIZE \in Nat
      /\ MaxWrites \in Nat /\ Len(writes) < MaxWrites
    BY PipeAssumption, LenProperties DEF Inv, TypeOK, Write
<1>3. /\ writes' \in Seq(Nat) /\ Len(writes') = Len(writes) + 1
      /\ \A i \in 1 .. Len(writes) : writes'[i] = writes[i]
      /\ writes'[Len(writes) + 1] = n
    BY <1>1, <1>2, AppendProperties
<1>4. Started
    BY <1>2, <1>3 DEF Started
<1>5. \A q \in Procs : q # p /\ pc[q] \in InWrite => call[q].id # c.id
    <2>1. \A q \in Procs : pc[q] \in InWrite => call[q].id \in 1 .. Len(writes)
        BY DEF Inv, InProgress, Writing
    <2>2. c.id \notin 1 .. Len(writes)
        BY <1>2
    <2> QED
        BY <2>1, <2>2
<1>6. \A i \in 1 .. Len(sent) : sent[i] # c.id
    <2>1. \A i \in 1 .. Len(sent) : sent[i] \in 1 .. Len(writes)
        BY DEF Inv, InProgress
    <2>2. c.id \notin 1 .. Len(writes)
        BY <1>2
    <2> QED
        BY <2>1, <2>2
<1>7. c \in CallRecord /\ Writing(c, writes')
    BY <1>2, <1>3 DEF CallRecord, Byte, Writing
<1>8. Ready(p, c)
    <2>1. fds[p]["w"] > 0 /\ ~asleep[p] /\ c.done = 0
        BY DEF Write, Enters, Awake
    <2> HIDE DEF c
    <2> QED
        BY <1>5, <1>6, <1>7, <2>1 DEF Ready
<1>9. pipe_write(p, c)
    BY <1>1
<1> HIDE DEF c
<1> QED
    BY <1>4, <1>8, <1>9, WriteKeeps

\* A write that goes on keeps the invariant.
LEMMA WriteAgainInv == ASSUME Inv, NEW p \in Procs, WriteAgain(p) PROVE Inv'
<1>2. Started
    <2>1. writes \in Seq(Nat) /\ Len(writes) \in Nat /\ Len(writes) <= MaxWrites
        BY LenProperties DEF Inv, TypeOK, InProgress
    <2> QED
        BY <2>1 DEF Started, WriteAgain
<1> DEFINE c == call[p]
<1>3. /\ c \in CallRecord /\ Writing(c, writes') /\ fds[p]["w"] > 0 /\ ~asleep[p]
      /\ \A q \in Procs : q # p /\ pc[q] \in InWrite => call[q].id # c.id
    <2>1. pc[p] \in InWrite /\ ~asleep[p] /\ writes' = writes
        BY DEF WriteAgain, Awake, InWrite
    <2>2. c \in CallRecord
        BY DEF Inv, TypeOK, CallRecord
    <2> QED
        BY <2>1, <2>2 DEF Inv, InProgress, Entitled
<1>4. CASE Awake(p, "fit") /\ pipe_write(p, c)
    <2>1. c.done = 0 /\ \A i \in 1 .. Len(sent) : sent[i] # c.id
        BY <1>4 DEF Inv, InProgress, Awake
    <2> HIDE DEF c
    <2>2. Ready(p, c)
        BY <1>3, <2>1 DEF Ready
    <2> QED
        BY <1>2, <1>4, <2>2, WriteKeeps
<1>5. CASE Awake(p, "fill") /\ pipe_write_fill(p, c) /\ UNCHANGED <<ends, got>>
    <2>1. c.size > PIPE_SIZE
        BY <1>5 DEF Inv, InProgress, Awake
    <2> HIDE DEF c
    <2>2. Ready(p, c)
        BY <1>3, <2>1 DEF Ready
    <2>3. ~must_wait_to_fit(c)
        BY <1>3, <2>1, PipeAssumption DEF must_wait_to_fit, CallRecord
    <2> QED
        BY <1>2, <1>5, <2>2, <2>3, FillKeeps
<1> QED
    BY <1>4, <1>5 DEF WriteAgain

\* A read, from its start or from where it slept, keeps the invariant.
LEMMA ReadInv == ASSUME Inv, NEW p \in Procs, Read(p) \/ ReadAgain(p) PROVE Inv'
<1>1. CASE Read(p)
    <2>1. PICK n \in Sizes : pipe_read(p, [NoCall EXCEPT !.size = n])
        BY <1>1 DEF Read
    <2> DEFINE c == [NoCall EXCEPT !.size = n]
    <2>2. c \in CallRecord /\ c.size > 0
        BY PipeAssumption DEF NoCall, CallRecord, Byte
    <2>3. fds[p]["r"] > 0 /\ ~asleep[p] /\ pipe_read(p, c)
        BY <1>1, <2>1 DEF Read, Enters, Awake
    <2> HIDE DEF c
    <2> QED
        BY <2>2, <2>3, ReadKeeps
<1>2. CASE ReadAgain(p)
    <2> DEFINE c == call[p]
    <2>1. pc[p] = "read" /\ ~asleep[p] /\ pipe_read(p, c)
        BY <1>2 DEF ReadAgain, Awake
    <2>2. c \in CallRecord /\ c.size > 0 /\ fds[p]["r"] > 0
        BY <2>1 DEF Inv, TypeOK, CallRecord, InProgress, Entitled
    <2> HIDE DEF c
    <2> QED
        BY <2>1, <2>2, ReadKeeps
<1> QED
    BY <1>1, <1>2


-----------------------------------------------------------------------------
(***************************************************************************)
(* Opening and closing.                                                    *)
(***************************************************************************)
\* What a step that only moves descriptors leaves alone.
Quiet == UNCHANGED <<ring, pc, call, sig, hist>>

\* Nothing in the calls and the stream depends on descriptors, but who may be
\* in a call and what a sleeper waits for.
LEMMA QuietKeeps ==
    ASSUME Inv, Quiet
    PROVE  InProgress' /\ Fifo' /\ AtomicWrites'
<1>1. UNCHANGED <<buf, head, len, pc, call, sig, sent, got, writes>>
    BY DEF Quiet, ring, hist
<1>2. InProgress'
    BY <1>1 DEF Inv, InProgress, Writing
<1>3. Fifo'
    BY <1>1 DEF Inv, Fifo, Content
<1>4. AtomicWrites'
    BY <1>1 DEF Inv, AtomicWrites
<1> QED
    BY <1>2, <1>3, <1>4

\* The counts after process q, in user mode, got or lost descriptors.
LEMMA Recount ==
    ASSUME Inv, NEW q \in Procs, NEW e \in End, fds' \in Tables,
           \A s \in Procs : s # q => fds'[s] = fds[s]
    PROVE  /\ fds[q][e] \in Nat /\ fds'[q][e] \in Nat /\ refs[e] \in Nat
           /\ IsFiniteSet(Holding(fds', e)) /\ fds[q][e] <= refs[e]
           /\ Cardinality(Holding(fds', e)) = refs[e] - fds[q][e] + fds'[q][e]
<1>1. fds \in Tables /\ refs[e] \in Nat
    BY DEF Inv, TypeOK, Tables
<1>2. fds[q][e] \in Nat /\ fds'[q][e] \in Nat
    BY <1>1 DEF Tables
<1>3. IsFiniteSet(Holding(fds, e)) /\ refs[e] = Cardinality(Holding(fds, e))
    BY DEF Inv, Counted
<1>4. /\ IsFiniteSet(Holding(fds', e)) /\ fds[q][e] <= Cardinality(Holding(fds, e))
      /\ Cardinality(Holding(fds', e)) = Cardinality(Holding(fds, e)) - fds[q][e] + fds'[q][e]
    <2> DEFINE F == fds
               G == fds'
    <2>1. /\ F \in Tables /\ G \in Tables /\ IsFiniteSet(Holding(F, e))
          /\ \A s \in Procs : s # q => G[s] = F[s]
        BY <1>1, <1>3
    <2> HIDE DEF F, G
    <2>2. /\ IsFiniteSet(Holding(G, e)) /\ F[q][e] <= Cardinality(Holding(F, e))
          /\ Cardinality(Holding(G, e)) = Cardinality(Holding(F, e)) - F[q][e] + G[q][e]
        BY <2>1, CountChange, Zenon
    <2> QED
        BY <2>2 DEF F, G
<1> QED
    BY <1>1, <1>2, <1>3, <1>4

\* file_put() of some of its descriptors by a process in user mode keeps the
\* invariant.
LEMMA PutKeeps ==
    ASSUME Inv, NEW p \in alive, pc[p] = "user", NEW n \in [End -> Int],
           \A e \in End : n[e] <= fds[p][e] /\ (n[e] < 0 => fds[p][e] > 0),
           Put(p, n), Quiet,
           alive' = alive \/ (alive' = alive \ {p} /\ n = fds[p])
    PROVE  Inv'
<1> DEFINE gone == {e \in End : n[e] > 0 /\ refs[e] = n[e]}
           g == [e \in End |-> fds[p][e] - n[e]]
<1>1. /\ p \in Procs /\ "r" \in End /\ "w" \in End
      /\ \A e \in End : refs[e] \in Nat /\ fds[p][e] \in Nat /\ n[e] \in Int
    BY DEF Inv, TypeOK, End
<1>2. g \in [End -> Nat] /\ \A e \in End : g[e] = fds[p][e] - n[e]
    BY <1>1
<1>3. /\ fds' = [fds EXCEPT ![p] = g] /\ refs' = [e \in End |-> refs[e] - n[e]]
      /\ pipe_release(gone)
    BY DEF Put
<1> HIDE DEF g
<1>4. /\ fds' \in Tables /\ fds'[p] = g /\ \A s \in Procs : s # p => fds'[s] = fds[s]
    BY <1>1, <1>2, <1>3 DEF Inv, TypeOK, Tables
<1>5. ASSUME NEW e \in End
      PROVE  /\ IsFiniteSet(Holding(fds', e)) /\ refs'[e] = Cardinality(Holding(fds', e))
             /\ refs'[e] \in Nat /\ refs'[e] = refs[e] - n[e] /\ fds[p][e] <= refs[e]
    <2>1. /\ IsFiniteSet(Holding(fds', e)) /\ fds[p][e] <= refs[e]
          /\ Cardinality(Holding(fds', e)) = refs[e] - fds[p][e] + g[e]
        <3>1. /\ IsFiniteSet(Holding(fds', e)) /\ fds[p][e] <= refs[e]
              /\ Cardinality(Holding(fds', e)) = refs[e] - fds[p][e] + fds'[p][e]
            BY <1>1, <1>4, Recount, Zenon
        <3> QED
            BY <1>4, <3>1
    <2>2. /\ refs[e] \in Nat /\ n[e] \in Int /\ fds[p][e] \in Nat /\ n[e] <= fds[p][e]
          /\ g[e] = fds[p][e] - n[e] /\ refs'[e] = refs[e] - n[e]
        BY <1>1, <1>2, <1>3
    <2> QED
        BY <2>1, <2>2
<1>6. refs' \in [End -> Nat]
    BY <1>3, <1>5
<1>7. ASSUME NEW e \in End
      PROVE  (refs'[e] = 0) <=> (refs[e] = 0 \/ e \in gone)
    <2>1. /\ refs[e] \in Nat /\ n[e] \in Int /\ fds[p][e] \in Nat /\ n[e] <= fds[p][e]
          /\ n[e] < 0 => fds[p][e] > 0
          /\ refs'[e] = refs[e] - n[e] /\ fds[p][e] <= refs[e]
        BY <1>1, <1>5
    <2> QED
        BY <2>1
<1>8. /\ readers' = (IF refs'["r"] = 0 THEN 0 ELSE 1)
      /\ writers' = (IF refs'["w"] = 0 THEN 0 ELSE 1)
      /\ readers' \in 0 .. 1 /\ writers' \in 0 .. 1
    <2>1. /\ readers' = IF "r" \in gone THEN readers - 1 ELSE readers
          /\ writers' = IF "w" \in gone THEN writers - 1 ELSE writers
        BY <1>3 DEF pipe_release, Less
    <2>2. \A e \in gone : refs[e] # 0
        BY <1>1
    <2>3. /\ readers = (IF refs["r"] = 0 THEN 0 ELSE 1)
          /\ writers = (IF refs["w"] = 0 THEN 0 ELSE 1)
        BY DEF Inv, Counted
    <2> HIDE DEF gone
    <2> QED
        BY <1>1, <1>7, <2>1, <2>2, <2>3
<1>9. freed' \in BOOLEAN /\ (freed' <=> readers' = 0 /\ writers' = 0)
    <2>1. freed' = (freed \/ (gone # {} /\ readers' = 0 /\ writers' = 0))
        BY <1>3 DEF pipe_release
    <2>2. freed \in BOOLEAN /\ (freed <=> readers = 0 /\ writers = 0)
        BY DEF Inv, TypeOK, Counted
    <2>3. gone = {} => readers' = readers /\ writers' = writers
        BY <1>3 DEF pipe_release, Less
    <2>4. readers = 0 => readers' = 0
        <3>1. readers = 0 => refs["r"] = 0
            BY DEF Inv, Counted
        <3> QED
            BY <1>1, <1>7, <1>8, <3>1
    <2>5. writers = 0 => writers' = 0
        <3>1. writers = 0 => refs["w"] = 0
            BY DEF Inv, Counted
        <3> QED
            BY <1>1, <1>7, <1>8, <3>1
    <2> HIDE DEF gone
    <2> QED
        BY <2>1, <2>2, <2>3, <2>4, <2>5, Zenon
<1>10. \A s \in Procs : s \notin alive' => fds'[s]["r"] = 0 /\ fds'[s]["w"] = 0
    <2>1. \A s \in Procs : s \notin alive => fds[s]["r"] = 0 /\ fds[s]["w"] = 0
        BY DEF Inv, Counted
    <2>2. n = fds[p] => g["r"] = 0 /\ g["w"] = 0
        BY <1>1, <1>2
    <2> QED
        BY <1>4, <2>1, <2>2
<1>11. Counted'
    BY <1>5, <1>8, <1>9, <1>10 DEF Counted
<1>12. UNCHANGED <<buf, head, len, pc, call, sig, sent, got, writes>>
    BY DEF Quiet, ring, hist
<1>13. Entitled'
    <2>1. \A s \in Procs : pc[s] # "user" => s # p
        OBVIOUS
    <2> QED
        BY <1>4, <1>12, <2>1 DEF Inv, Entitled, InWrite
<1>14. (asleep' = asleep /\ gone = {}) \/ asleep' = wakeup
    BY <1>3 DEF pipe_release
<1>15. TypeOK'
    <2>1. asleep' \in [Procs -> BOOLEAN]
        BY <1>14 DEF wakeup, Inv, TypeOK
    <2>2. alive' \subseteq Procs
        BY DEF Inv, TypeOK
    <2> QED
        BY <1>4, <1>6, <1>8, <1>9, <1>12, <2>1, <2>2 DEF Inv, TypeOK, Tables
<1>16. SleepersMustWait'
    <2>1. CASE asleep' = asleep /\ gone = {}
        <3>1. readers' = readers /\ writers' = writers
            BY <1>3, <2>1 DEF pipe_release, Less
        <3> QED
            BY <1>12, <2>1, <3>1 DEF Inv, SleepersMustWait, must_wait_to_fit
    <2>2. CASE asleep' = wakeup
        BY <2>2 DEF SleepersMustWait, wakeup
    <2> QED
        BY <1>14, <2>1, <2>2
<1> QED
    BY <1>11, <1>13, <1>15, <1>16, QuietKeeps DEF Inv


\* close, dup3, execve and exit keep the invariant.
LEMMA ClosesInv ==
    ASSUME Inv, NEW p \in Procs,
           \/ \E e \in End : Close(p, e) \/ Dup3(p, e)
           \/ Execve(p) \/ Exit(p)
    PROVE  Inv'
<1>1. p \in alive /\ pc[p] = "user"
    BY DEF Close, Dup3, Execve, Exit, Awake
<1>2. \A e \in End : fds[p][e] \in Nat
    BY DEF Inv, TypeOK
<1>3. ASSUME NEW e \in End, Close(p, e)
      PROVE  Inv'
    <2> DEFINE n == [d \in End |-> IF d = e THEN 1 ELSE 0]
    <2>1. n \in [End -> Int] /\ \A d \in End : n[d] <= fds[p][d] /\ (n[d] < 0 => fds[p][d] > 0)
        BY <1>2, <1>3 DEF Close
    <2>2. Put(p, n) /\ Quiet /\ alive' = alive
        BY <1>3 DEF Close, Quiet
    <2> HIDE DEF n
    <2> QED
        BY <1>1, <2>1, <2>2, PutKeeps
<1>4. ASSUME NEW e \in End, Dup3(p, e)
      PROVE  Inv'
    <2> DEFINE n == [d \in End |-> IF d = e THEN -1 ELSE 1]
    <2>1. n \in [End -> Int] /\ \A d \in End : n[d] <= fds[p][d] /\ (n[d] < 0 => fds[p][d] > 0)
        BY <1>2, <1>4 DEF Dup3
    <2>2. Put(p, n) /\ Quiet /\ alive' = alive
        BY <1>4 DEF Dup3, Quiet
    <2> HIDE DEF n
    <2> QED
        BY <1>1, <2>1, <2>2, PutKeeps
<1>5. CASE Execve(p)
    <2>1. PICK n \in [End -> 0 .. MaxRefs] : (\A e \in End : n[e] <= fds[p][e]) /\ Put(p, n)
        BY <1>5 DEF Execve
    <2>2. n \in [End -> Int] /\ \A d \in End : n[d] <= fds[p][d] /\ (n[d] < 0 => fds[p][d] > 0)
        BY <2>1, PipeAssumption
    <2>3. Quiet /\ alive' = alive
        BY <1>5 DEF Execve, Quiet
    <2> QED
        BY <1>1, <2>1, <2>2, <2>3, PutKeeps
<1>6. CASE Exit(p)
    <2> DEFINE n == fds[p]
    <2>1. n \in [End -> Int] /\ \A d \in End : n[d] <= fds[p][d] /\ (n[d] < 0 => fds[p][d] > 0)
        BY <1>2 DEF Inv, TypeOK
    <2>2. Put(p, n) /\ Quiet /\ alive' = alive \ {p} /\ n = fds[p]
        BY <1>6 DEF Exit, Quiet
    <2> HIDE DEF n
    <2> QED
        BY <1>1, <2>1, <2>2, PutKeeps
<1> QED
    BY <1>3, <1>4, <1>5, <1>6

\* Process q gets more descriptors of ends that p has already: the ends that
\* were open stay open.
LEMMA MoreKeeps ==
    ASSUME Inv, NEW p \in Procs, NEW q \in Procs, Quiet,
           UNCHANGED <<readers, writers, freed, asleep>>,
           fds' \in Tables, \A s \in Procs : s # q => fds'[s] = fds[s],
           \A e \in End : /\ fds[q][e] <= fds'[q][e]
                          /\ refs'[e] = refs[e] + (fds'[q][e] - fds[q][e])
                          /\ fds'[q][e] # fds[q][e] => fds[p][e] > 0,
           refs' \in [End -> Nat],
           alive' = alive \cup {q}
    PROVE  Inv'
<1>1. \A e \in End : /\ fds[q][e] \in Nat /\ fds'[q][e] \in Nat /\ refs[e] \in Nat
                     /\ fds[p][e] \in Nat
    BY DEF Inv, TypeOK, Tables
<1>2. ASSUME NEW e \in End
      PROVE  IsFiniteSet(Holding(fds', e)) /\ refs'[e] = Cardinality(Holding(fds', e))
    <2>1. /\ IsFiniteSet(Holding(fds', e))
          /\ Cardinality(Holding(fds', e)) = refs[e] - fds[q][e] + fds'[q][e]
        BY Recount, Zenon
    <2> QED
        BY <1>1, <2>1
<1>3. ASSUME NEW e \in End
      PROVE  refs'[e] = 0 <=> refs[e] = 0
    <2>1. fds[p][e] <= refs[e]
        <3> DEFINE F == fds
        <3>1. F \in Tables /\ IsFiniteSet(Holding(F, e)) /\ refs[e] = Cardinality(Holding(F, e))
            BY DEF Inv, TypeOK, Tables, Counted
        <3> HIDE DEF F
        <3>2. F[p][e] <= Cardinality(Holding(F, e))
            BY <3>1, CountChange
        <3> QED
            BY <3>1, <3>2 DEF F
    <2> QED
        BY <1>1, <2>1
<1>4. "r" \in End /\ "w" \in End
    BY DEF End
<1>5. Counted'
    <2>1. /\ readers' = (IF refs'["r"] = 0 THEN 0 ELSE 1)
          /\ writers' = (IF refs'["w"] = 0 THEN 0 ELSE 1)
          /\ freed' <=> readers' = 0 /\ writers' = 0
        BY <1>3, <1>4 DEF Inv, Counted
    <2>2. \A s \in Procs : s \notin alive' => fds'[s]["r"] = 0 /\ fds'[s]["w"] = 0
        BY DEF Inv, Counted
    <2> QED
        BY <1>2, <2>1, <2>2 DEF Counted
<1>6. UNCHANGED <<buf, head, len, pc, call, sig, sent, got, writes>>
    BY DEF Quiet, ring, hist
<1>7. Entitled'
    <2>1. ASSUME NEW s \in Procs, NEW e \in End, fds[s][e] > 0
          PROVE  fds'[s][e] > 0
        BY <1>1, <2>1
    <2> QED
        BY <1>4, <1>6, <2>1 DEF Inv, Entitled
<1>8. TypeOK'
    BY <1>6 DEF Inv, TypeOK, Tables
<1>9. SleepersMustWait'
    BY <1>6 DEF Inv, SleepersMustWait, must_wait_to_fit
<1> QED
    BY <1>5, <1>7, <1>8, <1>9, QuietKeeps DEF Inv

\* dup keeps the invariant.
LEMMA DupInv == ASSUME Inv, NEW p \in Procs, NEW e \in End, Dup(p, e) PROVE Inv'
<1>1. /\ fds' = [fds EXCEPT ![p][e] = @ + 1] /\ refs' = [refs EXCEPT ![e] = @ + 1]
      /\ fds[p][e] > 0 /\ p \in alive /\ alive' = alive
      /\ UNCHANGED <<readers, writers, freed, asleep>> /\ Quiet
    BY DEF Dup, Awake, Quiet
<1>2. fds \in Tables /\ refs \in [End -> Nat]
    BY DEF Inv, TypeOK, Tables
<1>3. fds' \in Tables /\ refs' \in [End -> Nat] /\ \A s \in Procs : s # p => fds'[s] = fds[s]
    BY <1>1, <1>2 DEF Tables
<1>4. ASSUME NEW d \in End
      PROVE  /\ fds[p][d] <= fds'[p][d]
             /\ refs'[d] = refs[d] + (fds'[p][d] - fds[p][d])
             /\ fds'[p][d] # fds[p][d] => fds[p][d] > 0
    BY <1>1, <1>2 DEF Tables
<1>5. alive' = alive \cup {p}
    BY <1>1
<1> QED
    BY <1>1, <1>3, <1>4, <1>5, MoreKeeps

\* fork keeps the invariant.
LEMMA ForkInv == ASSUME Inv, NEW p \in Procs, NEW c \in Procs, Fork(p, c) PROVE Inv'
<1>1. /\ fds' = [fds EXCEPT ![c] = fds[p]] /\ refs' = [e \in End |-> refs[e] + fds[p][e]]
      /\ c \notin alive /\ alive' = alive \cup {c}
      /\ UNCHANGED <<readers, writers, freed, asleep>> /\ Quiet
    BY DEF Fork, Quiet
<1>2. fds \in Tables /\ refs \in [End -> Nat]
    BY DEF Inv, TypeOK, Tables
<1>3. fds' \in Tables /\ refs' \in [End -> Nat] /\ \A s \in Procs : s # c => fds'[s] = fds[s]
    BY <1>1, <1>2 DEF Tables
<1>4. \A d \in End : fds[c][d] = 0
    BY <1>1 DEF Inv, Counted, End
<1>5. ASSUME NEW d \in End
      PROVE  /\ fds[c][d] <= fds'[c][d]
             /\ refs'[d] = refs[d] + (fds'[c][d] - fds[c][d])
             /\ fds'[c][d] # fds[c][d] => fds[p][d] > 0
    BY <1>1, <1>2, <1>4 DEF Tables
<1> QED
    BY <1>1, <1>3, <1>5, MoreKeeps


\* A signal keeps the invariant: its process is awake.
LEMMA SignalInv == ASSUME Inv, NEW p \in Procs, Signal(p) PROVE Inv'
<1>1. /\ sig' = [sig EXCEPT ![p] = TRUE] /\ asleep' = [asleep EXCEPT ![p] = FALSE]
      /\ UNCHANGED ends /\ UNCHANGED <<readers, writers, refs, freed, fds, alive>>
      /\ UNCHANGED <<buf, head, len, pc, call, sent, got, writes>>
    BY DEF Signal, ring, ends, hist
<1>2. TypeOK'
    BY <1>1 DEF Inv, TypeOK
<1>3. Counted'
    BY <1>1, CountedSame
<1>4. Entitled' /\ InProgress'
    BY <1>1 DEF Inv, Entitled, InProgress, Writing
<1>5. Fifo' /\ AtomicWrites'
    <2>1. Fifo'
        BY <1>1 DEF Inv, Fifo, Content
    <2>2. AtomicWrites'
        BY <1>1 DEF Inv, AtomicWrites
    <2> QED
        BY <2>1, <2>2
<1>6. SleepersMustWait'
    BY <1>1 DEF Inv, TypeOK, SleepersMustWait, must_wait_to_fit
<1> QED
    BY <1>2, <1>3, <1>4, <1>5, <1>6 DEF Inv

-----------------------------------------------------------------------------
(***************************************************************************)
(* The theorems.                                                           *)
(***************************************************************************)
\* The pipe sys_pipe2() makes satisfies the invariant.
LEMMA InitInv == Init => Inv
<1> SUFFICES ASSUME Init PROVE Inv
    OBVIOUS
<1>0. /\ PIPE_SIZE \in Nat \ {0} /\ MaxWrites \in Nat /\ 0 \in Byte /\ Creator \in Procs
      /\ NoCall \in [size : Nat, done : Nat, id : Byte]
    BY PipeAssumption DEF Byte, NoCall
<1>1. /\ <<>> \in Seq(Byte) /\ <<>> \in Seq(Nat) /\ Len(<<>>) = 0
    BY EmptySeq
<1>2. TypeOK
    <2>1. /\ buf \in [0 .. PIPE_SIZE - 1 -> Byte]
          /\ head \in 0 .. PIPE_SIZE - 1 /\ len \in 0 .. PIPE_SIZE
          /\ readers \in 0 .. 1 /\ writers \in 0 .. 1
        BY <1>0 DEF Init
    <2>2. /\ refs \in [End -> Nat] /\ freed \in BOOLEAN
          /\ fds \in [Procs -> [End -> Nat]] /\ alive \subseteq Procs
        BY <1>0 DEF Init
    <2>3. /\ pc \in [Procs -> {"user", "read", "fit", "fill"}]
          /\ asleep \in [Procs -> BOOLEAN] /\ sig \in [Procs -> BOOLEAN]
          /\ call \in [Procs -> [size : Nat, done : Nat, id : Byte]]
        BY <1>0 DEF Init
    <2>4. sent \in Seq(Byte) /\ got \in Seq(Byte) /\ writes \in Seq(Nat)
        BY <1>1 DEF Init
    <2> QED
        BY <2>1, <2>2, <2>3, <2>4 DEF TypeOK
<1>3. Counted
    <2>1. ASSUME NEW e \in End
          PROVE  IsFiniteSet(Holding(fds, e)) /\ refs[e] = Cardinality(Holding(fds, e))
        <3>1. \A q \in Procs : fds[q][e] = IF q = Creator THEN 1 ELSE 0
            BY DEF Init
        <3>2. Holding(fds, e) = {Creator} \X (1 .. 1)
            BY <1>0, <3>1 DEF Holding
        <3>3. IsFiniteSet({Creator} \X (1 .. 1)) /\ Cardinality({Creator} \X (1 .. 1)) = 1
            BY Block
        <3> QED
            BY <3>2, <3>3 DEF Init
    <2>2. "r" \in End /\ "w" \in End
        BY DEF End
    <2>3. /\ readers = (IF refs["r"] = 0 THEN 0 ELSE 1)
          /\ writers = (IF refs["w"] = 0 THEN 0 ELSE 1)
          /\ freed <=> readers = 0 /\ writers = 0
        BY <2>2 DEF Init
    <2>4. \A p \in Procs : p \notin alive => fds[p]["r"] = 0 /\ fds[p]["w"] = 0
        BY <2>2 DEF Init
    <2> QED
        BY <2>1, <2>3, <2>4 DEF Counted
<1>4. Entitled /\ InProgress
    BY <1>0, <1>1 DEF Init, Entitled, InProgress, InWrite
<1>5. Fifo
    <2>1. Content = <<>>
        BY DEF Init, Content
    <2> QED
        BY <1>1, <2>1, ConcatEmptySeq DEF Init, Fifo
<1>6. AtomicWrites
    BY <1>1 DEF Init, AtomicWrites
<1>7. SleepersMustWait
    BY DEF Init, SleepersMustWait
<1> QED
    BY <1>2, <1>3, <1>4, <1>5, <1>6, <1>7 DEF Inv

\* Every step keeps the invariant.
LEMMA NextInv == Inv /\ [Next]_vars => Inv'
<1> SUFFICES ASSUME Inv, [Next]_vars PROVE Inv'
    OBVIOUS
<1>1. ASSUME NEW p \in Procs, Step(p) \/ Read(p) \/ Write(p) PROVE Inv'
    BY <1>1, ReadInv, WriteInv, WriteAgainInv DEF Step
<1>2. ASSUME NEW p \in Procs,
             (\E e \in End : Close(p, e) \/ Dup3(p, e)) \/ Execve(p) \/ Exit(p)
      PROVE  Inv'
    BY <1>2, ClosesInv, Zenon
<1>3. ASSUME NEW p \in Procs, NEW e \in End, Dup(p, e) PROVE Inv'
    BY <1>3, DupInv
<1>4. ASSUME NEW p \in Procs, NEW c \in Procs, Fork(p, c) PROVE Inv'
    BY <1>4, ForkInv
<1>5. ASSUME NEW p \in Procs, Signal(p) PROVE Inv'
    BY <1>5, SignalInv
<1>6. CASE UNCHANGED vars
    <2>1. UNCHANGED <<buf, head, len, readers, writers, refs, freed, fds, alive, pc, asleep,
                      call, sig, sent, got, writes>>
        BY <1>6 DEF vars, ring, ends, hist
    <2>2. TypeOK' /\ Counted' /\ Entitled'
        BY <2>1 DEF Inv, TypeOK, Counted, Entitled
    <2>3. InProgress' /\ SleepersMustWait'
        BY <2>1 DEF Inv, InProgress, Writing, SleepersMustWait, must_wait_to_fit
    <2>4. Fifo'
        BY <2>1 DEF Inv, Fifo, Content
    <2>5. AtomicWrites'
        BY <2>1 DEF Inv, AtomicWrites
    <2> QED
        BY <2>2, <2>3, <2>4, <2>5 DEF Inv
<1> QED
    BY <1>1, <1>2, <1>3, <1>4, <1>5, <1>6, Zenon DEF Next

\* The inductive invariant holds in every reachable state.
THEOREM PipeInvariance == Spec => []Inv
BY InitInv, NextInv, PTL DEF Spec

\* The types of the variables, among them that the ring never holds more than
\* it has room for and its head stays in it.
THEOREM RingInBounds == Spec => []TypeOK
<1>1. Inv => TypeOK
    BY DEF Inv
<1> QED
    BY <1>1, PipeInvariance, PTL

\* pipe_read(), pipe_write(): what was read followed by what is in the ring is
\* what was written, for a ring of any size.
THEOREM BytesInOrder == Spec => []Fifo
<1>1. Inv => Fifo
    BY DEF Inv
<1> QED
    BY <1>1, PipeInvariance, PTL

\* pipe_write(): a write of up to PIPE_SIZE bytes is in the stream in one
\* piece or not at all, whatever the other writers do.
THEOREM ShortWritesAtomic == Spec => []AtomicWrites
<1>1. Inv => AtomicWrites
    BY DEF Inv
<1> QED
    BY <1>1, PipeInvariance, PTL

\* wakeup() on the one channel of the pipe: whoever sleeps would sleep again
\* if it were woken.
THEOREM NoLostWakeup == Spec => []SleepersMustWait
<1>1. Inv => SleepersMustWait
    BY DEF Inv
<1> QED
    BY <1>1, PipeInvariance, PTL

\* pipe_release(): the pipe is freed exactly when no process has a descriptor
\* of either end, and then nobody is in a call on it.
THEOREM FreedAtLastClose == Spec => []FreedWhenUnused
<1>1. ASSUME Inv PROVE FreedWhenUnused
    <2>1. fds \in Tables /\ "r" \in End /\ "w" \in End /\ \A e \in End : e = "r" \/ e = "w"
        BY <1>1 DEF Inv, TypeOK, Tables, End
    <2>2. ASSUME NEW e \in End PROVE refs[e] = 0 <=> \A q \in Procs : fds[q][e] = 0
        <3>1. IsFiniteSet(Holding(fds, e)) /\ refs[e] = Cardinality(Holding(fds, e))
            BY <1>1 DEF Inv, Counted
        <3> QED
            BY <2>1, <3>1, CountZero
    <2>3. freed <=> refs["r"] = 0 /\ refs["w"] = 0
        BY <1>1 DEF Inv, Counted
    <2>4. freed <=> \A p \in Procs, e \in End : fds[p][e] = 0
        BY <2>1, <2>2, <2>3
    <2>5. ASSUME freed, NEW p \in alive PROVE pc[p] = "user"
        <3>1. p \in Procs /\ pc[p] \in {"user", "read", "fit", "fill"}
            BY <1>1, <2>5 DEF Inv, TypeOK
        <3>2. fds[p]["r"] = 0 /\ fds[p]["w"] = 0
            BY <2>1, <2>4, <2>5, <3>1
        <3> QED
            BY <1>1, <3>1, <3>2 DEF Inv, Entitled, InWrite
    <2> QED
        BY <2>4, <2>5 DEF FreedWhenUnused
<1> QED
    BY <1>1, PipeInvariance, PTL
=============================================================================
