-------------------------------- MODULE Pipe --------------------------------
(***************************************************************************)
(* One pipe (src/kernel/vfs/pipe.c) and the processes that share it: a     *)
(* ring buffer, two open file descriptions, one wait channel for everybody *)
(* who sleeps on either end.                                               *)
(*                                                                         *)
(* A system call runs without interruption up to its return or to          *)
(* sleep_on(); which of the awake processes goes on next is left open.  A  *)
(* signal is only told apart by being pending: it wakes its process, makes *)
(* a blocking call give up, and is gone once the call has returned.        *)
(***************************************************************************)
EXTENDS Integers, Sequences, FiniteSets

CONSTANTS Procs,      \* the processes
          Creator,    \* the one that calls pipe2
          PIPE_SIZE,  \* 4096 in pipe.c
          Sizes,      \* the sizes reads and writes are asked for
          MaxWrites,  \* bound: writes over the whole run
          MaxRefs     \* bound: descriptors of an end, over all processes

ASSUME PipeAssumption ==
    /\ Creator \in Procs
    /\ PIPE_SIZE \in Nat \ {0} /\ Sizes \subseteq Nat \ {0}
    /\ MaxWrites \in Nat /\ MaxRefs \in Nat

VARIABLES buf, head, len,     \* the ring buffer of pipe_t
          readers, writers,   \* open file descriptions per end
          refs,               \* file_t.refs of the two descriptions
          freed,              \* pipe_release() freed the pipe_t
          fds,                \* fds[p][end]: how many descriptors p has
          alive,              \* the processes that have been forked and not exited
          pc,                 \* "user", or the call p is in: "read", "fit", "fill"
          asleep,             \* p is BLOCKED on the pipe
          call,               \* the call p is in: bytes asked for, written so far, write number
          sig,                \* p has a deliverable signal
          sent,               \* history: every byte that went in, as the number of its write
          got,                \* history: every byte that was read, in order
          writes              \* history: the sizes of the writes so far

ring == <<buf, head, len>>
ends == <<readers, writers, refs, freed, fds, alive>>
hist == <<sent, got, writes>>
vars == <<ring, ends, pc, asleep, call, sig, hist>>

End == {"r", "w"}
Byte == 0 .. MaxWrites

Min(a, b) == IF a < b THEN a ELSE b

-----------------------------------------------------------------------------
Awake(p, where) == p \in alive /\ pc[p] = where /\ ~asleep[p]

\* A process in user mode calls read or write.
Enters(p, e) == Awake(p, "user") /\ fds[p][e] > 0

NoCall == [size |-> 0, done |-> 0, id |-> 0]

\* The call returns; a pending signal is acted on on the way out.
Return(p) == /\ pc' = [pc EXCEPT ![p] = "user"]
             /\ call' = [call EXCEPT ![p] = NoCall]
             /\ sig' = [sig EXCEPT ![p] = FALSE]

\* sleep_on(pipe) in call c, to go on at `where`; a is who else is asleep.
Sleep(p, where, c, a) == /\ ~sig[p]
                         /\ pc' = [pc EXCEPT ![p] = where]
                         /\ call' = [call EXCEPT ![p] = c]
                         /\ asleep' = [a EXCEPT ![p] = TRUE]
                         /\ UNCHANGED sig

\* Mutant: only one sleeper is woken.
wakeup_one == LET z == CHOOSE p \in Procs : asleep[p]
              IN  [p \in Procs |-> asleep[p] /\ p # z]

wakeup == [p \in Procs |-> FALSE]

\* Mutants: the ring does not wrap; the count starts one byte too far.
SlotUnwrapped(i) == head + i
SlotBehind(i) == (head + i + 1) % PIPE_SIZE

\* Where the i-th byte from the head of the ring is.
Slot(i) == (head + i) % PIPE_SIZE

-----------------------------------------------------------------------------
(* pipe_read, from its start or from where it slept to its return or to where *)
(* it sleeps next.                                                            *)

\* Empty: end of file, give up for a signal, or sleep.
pipe_read_empty(p, c) ==
    /\ len = 0
    /\ \/ (writers = 0 \/ sig[p]) /\ Return(p) /\ UNCHANGED asleep
       \/ writers # 0 /\ Sleep(p, "read", c, asleep)
    /\ UNCHANGED <<ring, got>>

pipe_read_some(p, c) ==
    LET k == Min(c.size, len)
    IN  /\ len # 0
        /\ head' = Slot(k)
        /\ len' = len - k
        /\ got' = got \o [i \in 1 .. k |-> buf[Slot(i - 1)]]
        /\ asleep' = wakeup
        /\ Return(p)
        /\ UNCHANGED buf

pipe_read(p, c) == /\ pipe_read_empty(p, c) \/ pipe_read_some(p, c)
                   /\ UNCHANGED <<ends, sent, writes>>

Read(p) == /\ Enters(p, "r")
           /\ \E n \in Sizes : pipe_read(p, [NoCall EXCEPT !.size = n])

ReadAgain(p) == Awake(p, "read") /\ pipe_read(p, call[p])

-----------------------------------------------------------------------------
(* pipe_write, likewise. *)

\* Mutant: it waits for any room.
must_wait_when_full(c) == c.size <= PIPE_SIZE /\ len = PIPE_SIZE /\ readers # 0

\* A write of up to PIPE_SIZE bytes waits for room for all of it.
must_wait_to_fit(c) == c.size <= PIPE_SIZE /\ PIPE_SIZE - len < c.size /\ readers # 0

pipe_write_fit(p, c) ==
    /\ must_wait_to_fit(c)
    /\ \/ sig[p] /\ Return(p) /\ UNCHANGED asleep
       \/ Sleep(p, "fit", c, asleep)
    /\ UNCHANGED <<ring, sent>>

\* Nobody left to read (EPIPE, or the bytes so far), or no room at all.
pipe_write_stuck(p, c) ==
    /\ \/ (readers = 0 \/ (len = PIPE_SIZE /\ sig[p])) /\ Return(p) /\ UNCHANGED asleep
       \/ readers # 0 /\ len = PIPE_SIZE /\ Sleep(p, "fill", c, asleep)
    /\ UNCHANGED <<ring, sent>>

\* Copy what fits and wake the others; a write that is not done is now facing
\* a full pipe, and gives up or sleeps in the same go.
pipe_write_some(p, c) ==
    LET k    == Min(c.size - c.done, PIPE_SIZE - len)
        slot == {Slot(len + i) : i \in 0 .. k - 1}
    IN  /\ readers # 0 /\ len < PIPE_SIZE
        /\ buf' = [j \in 0 .. PIPE_SIZE - 1 |-> IF j \in slot THEN c.id ELSE buf[j]]
        /\ len' = len + k
        /\ sent' = sent \o [i \in 1 .. k |-> c.id]
        /\ \/ (c.done + k = c.size \/ sig[p]) /\ Return(p) /\ asleep' = wakeup
           \/ c.done + k < c.size /\ Sleep(p, "fill", [c EXCEPT !.done = @ + k], wakeup)
        /\ UNCHANGED head

\* The loop of pipe_write() that copies.
pipe_write_fill(p, c) == pipe_write_stuck(p, c) \/ pipe_write_some(p, c)

pipe_write(p, c) == /\ \/ pipe_write_fit(p, c)
                       \/ ~must_wait_to_fit(c) /\ pipe_write_fill(p, c)
                    /\ UNCHANGED <<ends, got>>

Write(p) == /\ Enters(p, "w") /\ Len(writes) < MaxWrites
            /\ \E n \in Sizes :
                  /\ writes' = Append(writes, n)
                  /\ pipe_write(p, [size |-> n, done |-> 0, id |-> Len(writes) + 1])

WriteAgain(p) == /\ \/ Awake(p, "fit") /\ pipe_write(p, call[p])
                    \/ Awake(p, "fill") /\ pipe_write_fill(p, call[p]) /\ UNCHANGED <<ends, got>>
                 /\ UNCHANGED writes

-----------------------------------------------------------------------------
(* Descriptors *)

Less(n, e, gone) == IF e \in gone THEN n - 1 ELSE n

\* Mutant: nobody is told that an end was closed.
pipe_release_silent(gone) ==
    /\ readers' = Less(readers, "r", gone) /\ writers' = Less(writers, "w", gone)
    /\ freed' = (freed \/ (gone # {} /\ readers' = 0 /\ writers' = 0))
    /\ UNCHANGED asleep

\* pipe_release() of the ends in `gone`: the sleepers look again, and with the
\* last end the pipe is freed.
pipe_release(gone) ==
    /\ readers' = Less(readers, "r", gone) /\ writers' = Less(writers, "w", gone)
    /\ asleep' = IF gone # {} THEN wakeup ELSE asleep
    /\ freed' = (freed \/ (gone # {} /\ readers' = 0 /\ writers' = 0))

\* file_put() of n[e] references to each end, by p.
Put(p, n) ==
    /\ refs' = [e \in End |-> refs[e] - n[e]]
    /\ fds' = [fds EXCEPT ![p] = [e \in End |-> @[e] - n[e]]]
    /\ pipe_release({e \in End : n[e] > 0 /\ refs[e] = n[e]})

Close(p, e) == /\ Awake(p, "user") /\ fds[p][e] > 0
               /\ Put(p, [d \in End |-> IF d = e THEN 1 ELSE 0])
               /\ UNCHANGED <<ring, alive, pc, call, sig, hist>>

\* Mutant: the new descriptor does not count as a reference.
DupUncounted(p, e) ==
    /\ Awake(p, "user") /\ fds[p][e] > 0 /\ refs[e] < MaxRefs
    /\ fds' = [fds EXCEPT ![p][e] = @ + 1]
    /\ UNCHANGED <<ring, readers, writers, refs, freed, alive, pc, asleep, call, sig, hist>>

Dup(p, e) == /\ Awake(p, "user") /\ fds[p][e] > 0 /\ refs[e] < MaxRefs
             /\ fds' = [fds EXCEPT ![p][e] = @ + 1]
             /\ refs' = [refs EXCEPT ![e] = @ + 1]
             /\ UNCHANGED <<ring, readers, writers, freed, alive, pc, asleep, call, sig, hist>>

\* dup3 of a descriptor of end e onto one of the other end, which it closes.
Dup3(p, e) == /\ Awake(p, "user") /\ \A d \in End : fds[p][d] > 0
              /\ refs[e] < MaxRefs
              /\ Put(p, [d \in End |-> IF d = e THEN -1 ELSE 1])
              /\ UNCHANGED <<ring, alive, pc, call, sig, hist>>

\* execve closes the descriptors that are marked close-on-exec.
Execve(p) == /\ Awake(p, "user")
             /\ \E n \in [End -> 0 .. MaxRefs] : /\ \A e \in End : n[e] <= fds[p][e]
                                                /\ Put(p, n)
             /\ UNCHANGED <<ring, alive, pc, call, sig, hist>>

Fork(p, c) == /\ Awake(p, "user") /\ c \notin alive
              /\ \A e \in End : refs[e] + fds[p][e] <= MaxRefs
              /\ alive' = alive \cup {c}
              /\ fds' = [fds EXCEPT ![c] = fds[p]]
              /\ refs' = [e \in End |-> refs[e] + fds[p][e]]
              /\ UNCHANGED <<ring, readers, writers, freed, pc, asleep, call, sig, hist>>

\* scheduler_exit() closes every descriptor.
Exit(p) == /\ Awake(p, "user")
           /\ Put(p, fds[p])
           /\ alive' = alive \ {p}
           /\ UNCHANGED <<ring, pc, call, sig, hist>>

\* signal_send() to a process in a call; in user mode it is acted on at once.
Signal(p) == /\ p \in alive /\ pc[p] # "user" /\ ~sig[p]
             /\ sig' = [sig EXCEPT ![p] = TRUE]
             /\ asleep' = [asleep EXCEPT ![p] = FALSE]
             /\ UNCHANGED <<ring, ends, pc, call, hist>>

-----------------------------------------------------------------------------
\* sys_pipe2() has given the creator one descriptor of each end.
Init == /\ buf = [j \in 0 .. PIPE_SIZE - 1 |-> 0] /\ head = 0 /\ len = 0
        /\ readers = 1 /\ writers = 1 /\ refs = [e \in End |-> 1] /\ freed = FALSE
        /\ fds = [p \in Procs |-> [e \in End |-> IF p = Creator THEN 1 ELSE 0]]
        /\ alive = {Creator}
        /\ pc = [p \in Procs |-> "user"] /\ asleep = [p \in Procs |-> FALSE]
        /\ call = [p \in Procs |-> NoCall] /\ sig = [p \in Procs |-> FALSE]
        /\ sent = <<>> /\ got = <<>> /\ writes = <<>>

\* A call in progress goes on.
Step(p) == ReadAgain(p) \/ WriteAgain(p)

Next == \E p \in Procs :
           \/ Step(p)
           \/ Read(p) \/ Write(p)
           \/ \E e \in End : Close(p, e) \/ Dup(p, e) \/ Dup3(p, e)
           \/ Execve(p)
           \/ \E c \in Procs : Fork(p, c)
           \/ Exit(p)
           \/ Signal(p)

Spec == Init /\ [][Next]_vars

\* A process that is awake gets the CPU: round-robin, see Process!ReadyRuns.
FairSpec == Spec /\ \A p \in Procs : WF_vars(Step(p))

-----------------------------------------------------------------------------
(* Properties *)

\* Every variable has its type.
TypeOK == /\ buf \in [0 .. PIPE_SIZE - 1 -> Byte]
          /\ head \in 0 .. PIPE_SIZE - 1 /\ len \in 0 .. PIPE_SIZE
          /\ readers \in 0 .. 1 /\ writers \in 0 .. 1
          /\ refs \in [End -> Nat] /\ freed \in BOOLEAN
          /\ fds \in [Procs -> [End -> Nat]] /\ alive \subseteq Procs
          /\ pc \in [Procs -> {"user", "read", "fit", "fill"}]
          /\ asleep \in [Procs -> BOOLEAN] /\ sig \in [Procs -> BOOLEAN]
          /\ call \in [Procs -> [size : Nat, done : Nat, id : Byte]]
          /\ sent \in Seq(Byte) /\ got \in Seq(Byte) /\ writes \in Seq(Nat)

Content == [i \in 1 .. len |-> buf[(head + i - 1) % PIPE_SIZE]]

\* pipe_read(), pipe_write(): what was read followed by what is in the ring is
\* what was written, byte for byte, across every wrap of the ring.
Fifo == got \o Content = sent

\* pipe.c: "Up to PIPE_SIZE bytes go in at once, never interleaved with
\* another writer's": all bytes of such a write are in the stream, next to
\* each other, or none is.
AtomicWrites ==
    \A w \in 1 .. Len(writes) : writes[w] <= PIPE_SIZE =>
        LET at == {i \in 1 .. Len(sent) : sent[i] = w}
        IN  at = {} \/ \E i \in at : at = i .. i + writes[w] - 1

\* No wakeup is lost, though readers and writers of all sizes share one
\* channel: whoever sleeps would sleep again if it were woken now.
SleepersMustWait ==
    \A p \in Procs : asleep[p] =>
        /\ pc[p] = "read" => len = 0 /\ writers # 0
        /\ pc[p] = "fit" => must_wait_to_fit(call[p])
        /\ pc[p] = "fill" => len = PIPE_SIZE /\ readers # 0
        /\ ~sig[p]

\* file.c, pipe_release(): the pipe is freed exactly when the last descriptor
\* anywhere is closed, so no call is in it then and nobody sleeps on it.
FreedWhenUnused ==
    /\ freed <=> \A p \in Procs, e \in End : fds[p][e] = 0
    /\ freed => \A p \in alive : pc[p] = "user"

\* pipe_read(): "0 (EOF) once no writer is left"; pipe_write(): "Without
\* readers: -EPIPE": once the other end is closed every call returns.
CallsEndWithPeer ==
    \A p \in Procs :
        \/ pc[p] = "read" /\ writers = 0
        \/ pc[p] \in {"fit", "fill"} /\ readers = 0
        ~> pc[p] = "user"

\* The ring buffer with its sleeping and waking is a bounded byte stream.
Bytes == INSTANCE Stream WITH Capacity <- PIPE_SIZE, queue <- Content,
                              readable <- readers # 0, writable <- writers # 0
IsStream == Bytes!SSpec
=============================================================================
