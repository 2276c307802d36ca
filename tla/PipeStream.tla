----------------------------- MODULE PipeStream -----------------------------
(***************************************************************************)
(* Pipe implements Stream, for any size of the ring, any processes and any *)
(* sizes of reads and writes.                                              *)
(***************************************************************************)
EXTENDS PipeProofs

\* Sleeping, waking, giving up and passing descriptors on do not show.
LEMMA Unseen ==
    ASSUME UNCHANGED <<buf, head, len, readers, writers>>
    PROVE  UNCHANGED Bytes!svars
BY DEF Bytes!svars, Content

\* A read takes bytes from the front of the stream, or does not show.
LEMMA ReadTakes ==
    ASSUME Inv, NEW p \in Procs, NEW c \in CallRecord, c.size > 0,
           fds[p]["r"] > 0, pipe_read(p, c)
    PROVE  [Bytes!SNext]_(Bytes!svars)
<1>1. readers = 1 /\ UNCHANGED <<readers, writers>>
    BY OpenEnds DEF pipe_read, ends
<1>2. CASE pipe_read_empty(p, c)
    BY <1>1, <1>2, Unseen DEF pipe_read_empty, ring
<1>3. CASE pipe_read_some(p, c)
    <2> DEFINE k == Min(c.size, len)
    <2>1. head' = Slot(k) /\ len' = len - k /\ buf' = buf /\ len # 0
        BY <1>3 DEF pipe_read_some
    <2>2. len \in 0 .. PIPE_SIZE /\ head \in 0 .. PIPE_SIZE - 1 /\ buf \in Ring
        BY DEF Inv, TypeOK, Ring
    <2>3. k \in 1 .. len /\ k \in 0 .. len
        BY <2>1, <2>2, PipeAssumption DEF Min, CallRecord
    <2> HIDE DEF k
    <2>4. ContentOf(buf, Slot(k), len - k) = SubSeq(ContentOf(buf, head, len), k + 1, len)
        BY <2>2, <2>3, RingTakes DEF Slot
    <2>5. Len(ContentOf(buf, head, len)) = len
        BY <2>2, ContentSeq
    <2>6. Content = ContentOf(buf, head, len) /\ Content' = ContentOf(buf', head', len')
        BY DEF Content, ContentOf
    <2>7. Content' = SubSeq(Content, k + 1, Len(Content)) /\ k \in 1 .. Len(Content)
        BY <2>1, <2>3, <2>4, <2>5, <2>6
    <2>8. Bytes!Take(k)
        BY <1>1, <2>7 DEF Bytes!Take
    <2> QED
        BY <2>7, <2>8 DEF Bytes!SNext
<1> QED
    BY <1>2, <1>3 DEF pipe_read

\* Copying into the ring puts bytes at the end of the stream.
LEMMA WritePuts ==
    ASSUME Inv, NEW p \in Procs, NEW c \in CallRecord, c.done < c.size,
           fds[p]["w"] > 0, UNCHANGED ends, pipe_write_some(p, c)
    PROVE  Bytes!SNext
<1> DEFINE k == Min(c.size - c.done, PIPE_SIZE - len)
<1>1. writers = 1 /\ readers # 0 /\ UNCHANGED <<readers, writers>>
    BY OpenEnds DEF ends, pipe_write_some
<1>2. len \in 0 .. PIPE_SIZE /\ len < PIPE_SIZE /\ head \in 0 .. PIPE_SIZE - 1 /\ buf \in Ring
    BY DEF Inv, TypeOK, Ring, pipe_write_some
<1>3. /\ k \in 1 .. PIPE_SIZE - len /\ k \in 0 .. PIPE_SIZE - len
      /\ k \in Nat /\ k \in 1 .. PIPE_SIZE /\ len + k <= PIPE_SIZE
    BY <1>2, PipeAssumption DEF Min, CallRecord
<1>4. buf' = Filled(buf, head, len, k, c.id) /\ len' = len + k /\ head' = head
    BY DEF pipe_write_some, Slot, Filled
<1> HIDE DEF k
<1> DEFINE t == Repeat(k, c.id)
<1>5. c.id \in Byte
    BY DEF CallRecord
<1>6. ContentOf(buf', head', len') = ContentOf(buf, head, len) \o t
    BY <1>2, <1>3, <1>4, <1>5, RingAdds
<1>7. Len(ContentOf(buf, head, len)) = len
    BY <1>2, ContentSeq
<1>8. Content = ContentOf(buf, head, len) /\ Content' = ContentOf(buf', head', len')
    BY DEF Content, ContentOf
<1>9. t \in [1 .. k -> Byte]
    BY <1>5 DEF Repeat
<1> HIDE DEF t
<1>10. Len(t) = k
    BY <1>3, <1>9, SeqOf
<1>11. t \in Bytes!Chunks
    BY <1>3, <1>9 DEF Bytes!Chunks
<1>12. t # <<>>
    BY <1>3, <1>10, EmptySeq
<1>13. Bytes!Put(t)
    <2>1. Len(Content) + Len(t) <= PIPE_SIZE
        BY <1>3, <1>7, <1>8, <1>10
    <2>2. Content' = Content \o t
        BY <1>6, <1>8
    <2> QED
        BY <1>1, <1>12, <2>1, <2>2 DEF Bytes!Put
<1> QED
    BY <1>11, <1>13 DEF Bytes!SNext

\* A write puts bytes at the end of the stream, or does not show.
LEMMA WritePutsOrNot ==
    ASSUME Inv, NEW p \in Procs, NEW c \in CallRecord, c.done < c.size,
           fds[p]["w"] > 0, UNCHANGED ends,
           pipe_write_fit(p, c) \/ pipe_write_fill(p, c)
    PROVE  [Bytes!SNext]_(Bytes!svars)
<1>1. CASE pipe_write_fit(p, c) \/ pipe_write_stuck(p, c)
    <2>1. UNCHANGED <<buf, head, len, readers, writers>>
        BY <1>1 DEF pipe_write_fit, pipe_write_stuck, ring, ends
    <2> QED
        BY <2>1, Unseen
<1>2. CASE pipe_write_some(p, c)
    BY <1>2, WritePuts
<1> QED
    BY <1>1, <1>2 DEF pipe_write_fill

\* file_put() closes the ends it gives the last descriptor of back.
LEMMA PutCloses ==
    ASSUME Inv, NEW p \in Procs, NEW n, Put(p, n), UNCHANGED ring
    PROVE  Bytes!SNext
<1> DEFINE gone == {e \in End : n[e] > 0 /\ refs[e] = n[e]}
           r == "r" \in gone
           w == "w" \in gone
<1>1. pipe_release(gone)
    BY DEF Put
<1>2. \A e \in gone : refs[e] # 0
    OBVIOUS
<1>3. (r => readers = 1) /\ (w => writers = 1) /\ readers \in 0 .. 1 /\ writers \in 0 .. 1
    BY <1>2 DEF Inv, Counted, TypeOK
<1>4. /\ readers' = IF r THEN readers - 1 ELSE readers
      /\ writers' = IF w THEN writers - 1 ELSE writers
    BY <1>1 DEF pipe_release, Less
<1>5. Content' = Content
    BY DEF Content, ring
<1> HIDE DEF gone
<1>6. r \in BOOLEAN /\ w \in BOOLEAN
    OBVIOUS
<1> HIDE DEF r, w
<1>7. (readers' # 0 <=> readers # 0 /\ ~r) /\ (writers' # 0 <=> writers # 0 /\ ~w)
    BY <1>3, <1>4, <1>6
<1>8. Bytes!Close(r, w)
    BY <1>5, <1>6, <1>7 DEF Bytes!Close
<1> QED
    BY <1>6, <1>8 DEF Bytes!SNext


\* Every step of the pipe is a step of the stream or does not show.
LEMMA StepRefines == Inv /\ [Next]_vars => [Bytes!SNext]_(Bytes!svars)
<1> SUFFICES ASSUME Inv, [Next]_vars PROVE [Bytes!SNext]_(Bytes!svars)
    OBVIOUS
<1>1. ASSUME NEW p \in Procs, Read(p) PROVE [Bytes!SNext]_(Bytes!svars)
    <2>1. PICK m \in Sizes : pipe_read(p, [NoCall EXCEPT !.size = m])
        BY <1>1 DEF Read
    <2> DEFINE c == [NoCall EXCEPT !.size = m]
    <2>2. c \in CallRecord /\ c.size > 0
        BY PipeAssumption DEF NoCall, CallRecord, Byte
    <2>3. fds[p]["r"] > 0 /\ pipe_read(p, c)
        BY <1>1, <2>1 DEF Read, Enters
    <2> HIDE DEF c
    <2> QED
        BY <2>2, <2>3, ReadTakes
<1>2. ASSUME NEW p \in Procs, ReadAgain(p) PROVE [Bytes!SNext]_(Bytes!svars)
    <2> DEFINE c == call[p]
    <2>1. pc[p] = "read" /\ pipe_read(p, c)
        BY <1>2 DEF ReadAgain, Awake
    <2>2. c \in CallRecord /\ c.size > 0 /\ fds[p]["r"] > 0
        BY <2>1 DEF Inv, TypeOK, CallRecord, InProgress, Entitled
    <2> HIDE DEF c
    <2> QED
        BY <2>1, <2>2, ReadTakes
<1>3. ASSUME NEW p \in Procs, Write(p) PROVE [Bytes!SNext]_(Bytes!svars)
    <2>1. PICK m \in Sizes : pipe_write(p, [size |-> m, done |-> 0, id |-> Len(writes) + 1])
        BY <1>3 DEF Write
    <2> DEFINE c == [size |-> m, done |-> 0, id |-> Len(writes) + 1]
    <2>2. Len(writes) \in Nat /\ Len(writes) < MaxWrites
        BY <1>3, LenProperties DEF Inv, TypeOK, Write
    <2>3. c \in CallRecord /\ c.done < c.size
        BY <2>2, PipeAssumption DEF CallRecord, Byte
    <2>4. /\ pipe_write_fit(p, c) \/ pipe_write_fill(p, c)
          /\ UNCHANGED ends /\ fds[p]["w"] > 0
        BY <1>3, <2>1 DEF pipe_write, Write, Enters
    <2> HIDE DEF c
    <2> QED
        BY <2>3, <2>4, WritePutsOrNot
<1>4. ASSUME NEW p \in Procs, WriteAgain(p) PROVE [Bytes!SNext]_(Bytes!svars)
    <2> DEFINE c == call[p]
    <2>1. /\ pc[p] \in InWrite /\ UNCHANGED ends
          /\ pipe_write_fit(p, c) \/ pipe_write_fill(p, c)
        BY <1>4 DEF WriteAgain, Awake, InWrite, pipe_write
    <2>2. c \in CallRecord /\ c.done < c.size /\ fds[p]["w"] > 0
        BY <2>1 DEF Inv, TypeOK, CallRecord, InProgress, Entitled, Writing
    <2> HIDE DEF c
    <2> QED
        BY <2>1, <2>2, WritePutsOrNot
<1>5. ASSUME NEW p \in Procs,
             (\E e \in End : Close(p, e) \/ Dup3(p, e)) \/ Execve(p) \/ Exit(p)
      PROVE  [Bytes!SNext]_(Bytes!svars)
    <2>1. UNCHANGED ring /\ \E n : Put(p, n)
        BY <1>5 DEF Close, Dup3, Execve, Exit
    <2> QED
        BY <2>1, PutCloses
<1>6. ASSUME NEW p \in Procs,
             \/ \E e \in End : Dup(p, e)
             \/ \E c \in Procs : Fork(p, c)
             \/ Signal(p)
      PROVE  [Bytes!SNext]_(Bytes!svars)
    <2>1. UNCHANGED <<buf, head, len, readers, writers>>
        BY <1>6 DEF Dup, Fork, Signal, ring, ends
    <2> QED
        BY <2>1, Unseen
<1>7. CASE UNCHANGED vars
    <2>1. UNCHANGED <<buf, head, len, readers, writers>>
        BY <1>7 DEF vars, ring, ends
    <2> QED
        BY <2>1, Unseen
<1> QED
    BY <1>1, <1>2, <1>3, <1>4, <1>5, <1>6, <1>7, Zenon DEF Next, Step

\* pipe.c implements the stream: a ring of any size, with any number of
\* processes reading, writing, sleeping, forking and closing, is a bounded
\* first-in first-out stream of bytes.
THEOREM PipeIsStream == Spec => IsStream
<1>1. Init => Bytes!SInit
    BY DEF Init, Bytes!SInit, Content
<1> QED
    BY <1>1, StepRefines, PipeInvariance, PTL DEF Spec, IsStream, Bytes!SSpec
=============================================================================
