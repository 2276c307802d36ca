----------------------------- MODULE TtyProofs -----------------------------
(***************************************************************************)
(* The invariants of Tty for any terminals, processes, buffer size and     *)
(* programs.                                                               *)
(***************************************************************************)
EXTENDS Tty, SequenceTheorems, WellFoundedInduction, TLAPS

Tty_t == [in : Seq(Chars), line : Seq(Chars), eof : Nat, mode : Modes,
          sid : Procs \cup {0}, pgrp : Procs \cup {0}]

\* What a tty_t may be between two steps.
Terminal ==
    {r \in Tty_t :
        Len(r.in) <= TTY_BUF /\ Len(r.line) < TTY_BUF /\ r.eof <= MaxEof}

States == {"unborn", "run", "asleep", "woken", "zombie", "gone"}

\* What a process may be: alive it has a session and a group, and in
\* tty_read it has a terminal.
Person ==
    {q \in [state : States, sid : Procs \cup {0}, pgid : Procs \cup {0},
            ctty : Ttys \cup {NONE}, pending : BOOLEAN, at : Ttys \cup {NONE},
            canon : BOOLEAN] :
        /\ q.state \in {"run", "asleep", "woken"} => q.sid \in Procs /\ q.pgid \in Procs
        /\ q.state \in {"asleep", "woken"} => q.at \in Ttys}

Typed == lim \in Limits /\ tty \in [Ttys -> Terminal] /\ proc \in [Procs -> Person]

\* The inductive invariant.
Inv == Typed /\ NoDeafReader /\ ControlledBySession

-----------------------------------------------------------------------------
(***************************************************************************)
(* The line discipline, one character at a time.                           *)
(***************************************************************************)
\* An empty queue is a queue.
LEMMA NoInput == <<>> \in Seq(Chars) /\ Len(<<>>) = 0
BY EmptySeq

\* Cutting a sequence at the front or at the end.
LEMMA CutSeq ==
    ASSUME NEW s \in Seq(Chars), NEW i \in Nat \ {0}, NEW j \in Nat, j <= Len(s)
    PROVE  /\ SubSeq(s, i, j) \in Seq(Chars)
           /\ Len(SubSeq(s, i, j)) <= Len(s) /\ Len(SubSeq(s, i, j)) <= j
           /\ s = <<>> => SubSeq(s, i, j) = <<>>
<1>1. \A k \in i .. j : s[k] \in Chars
    BY ElementOfSeq
<1>2. /\ SubSeq(s, i, j) \in Seq(Chars)
      /\ Len(SubSeq(s, i, j)) = IF i <= j THEN j - i + 1 ELSE 0
    BY <1>1, SubSeqProperties
<1>3. Len(s) \in Nat
    BY LenProperties
<1>4. ASSUME s = <<>> PROVE SubSeq(s, i, j) = <<>>
    <2>1. Len(s) = 0 /\ j < i
        BY <1>4, <1>3, EmptySeq
    <2> QED
        BY <2>1, SubSeqEmpty
<1> QED
    BY <1>2, <1>3, <1>4

\* A terminal with another line, and one with nothing typed or to read.
LEMMA WithLine ==
    ASSUME NEW r \in Tty_t, Len(r.in) <= TTY_BUF, r.eof <= MaxEof,
           NEW l \in Seq(Chars), Len(l) < TTY_BUF
    PROVE  /\ [r EXCEPT !.line = l] \in Terminal
           /\ [r EXCEPT !.in = l, !.line = l, !.eof = 0] \in Terminal
<1>1. Len(l) \in Nat
    BY LenProperties
<1>2. 0 \in Nat /\ 0 <= MaxEof /\ Len(l) <= TTY_BUF
    BY <1>1, TtyAssumption
<1>3. [r EXCEPT !.line = l] \in Terminal
    BY <1>1 DEF Terminal, Tty_t
<1>4. [r EXCEPT !.in = l, !.line = l, !.eof = 0] \in Terminal
    BY <1>2 DEF Terminal, Tty_t
<1> QED
    BY <1>3, <1>4

\* An empty line fits every buffer.
LEMMA EmptyFits == <<>> \in Seq(Chars) /\ Len(<<>>) < TTY_BUF
BY NoInput, TtyAssumption

\* queue() keeps to the buffer and leaves everything else alone.
LEMMA QueueKeeps ==
    ASSUME NEW r \in Terminal, NEW s \in Seq(Chars)
    PROVE  queue(r, s) \in Terminal /\ queue(r, s) = [r EXCEPT !.in = queue(r, s).in]
<1> DEFINE w == r.in \o s
           n == IF Len(w) < TTY_BUF THEN Len(w) ELSE TTY_BUF
<1>1. w \in Seq(Chars) /\ Len(w) \in Nat
    BY ConcatProperties, LenProperties DEF Terminal, Tty_t
<1>2. n \in Nat /\ n <= Len(w) /\ n <= TTY_BUF
    BY <1>1, TtyAssumption
<1>3. SubSeq(w, 1, n) \in Seq(Chars) /\ Len(SubSeq(w, 1, n)) <= TTY_BUF
    <2> HIDE DEF w, n
    <2>1. SubSeq(w, 1, n) \in Seq(Chars) /\ Len(SubSeq(w, 1, n)) <= n
        BY <1>1, <1>2, CutSeq
    <2>2. Len(SubSeq(w, 1, n)) \in Nat
        BY <2>1, LenProperties
    <2> QED
        BY <2>1, <2>2, <1>2, TtyAssumption
<1>4. queue(r, s) = [r EXCEPT !.in = SubSeq(w, 1, n)]
    BY DEF queue
<1> HIDE DEF w, n
<1> QED
    BY <1>3, <1>4 DEF Terminal, Tty_t

\* The line becomes input and is empty afterwards.
LEMMA QueueLineKeeps ==
    ASSUME NEW r \in Tty_t,
           Len(r.in) <= TTY_BUF, r.eof <= MaxEof
    PROVE  /\ queue_line(r) \in Terminal
           /\ queue_line(r).sid = r.sid /\ queue_line(r).eof = r.eof
<1> DEFINE e == [r EXCEPT !.line = <<>>]
<1>1. e \in Terminal
    BY EmptyFits, WithLine
<1>2. /\ queue(e, r.line) \in Terminal
      /\ queue(e, r.line) = [e EXCEPT !.in = queue(e, r.line).in]
    <2>1. r.line \in Seq(Chars)
        BY DEF Tty_t
    <2> HIDE DEF e
    <2> QED
        BY <2>1, <1>1, QueueKeeps
<1>3. queue_line(r) = queue(e, r.line)
    BY DEF queue_line, queue
<1>4. queue(e, r.line).sid = r.sid /\ queue(e, r.line).eof = r.eof
    BY DEF queue
<1> QED
    BY <1>2, <1>3, <1>4

\* flush_input() leaves nothing to read and keeps the session.
LEMMA FlushKeeps ==
    ASSUME NEW r \in Terminal
    PROVE  /\ flush_input(r) \in Terminal /\ flush_input(r).sid = r.sid
           /\ flush_input(r).in = <<>> /\ flush_input(r).eof = 0
<1>1. flush_input(r) \in Terminal
    BY EmptyFits, WithLine DEF flush_input, Terminal
<1> QED
    BY <1>1 DEF flush_input, Terminal, Tty_t

\* A character in canonical mode keeps the line inside its buffer, and one
\* that wakes nobody makes nothing to read.
LEMMA EditKeeps ==
    ASSUME NEW r \in Terminal, NEW c \in Chars, r.eof < MaxEof \/ c # "eof"
    PROVE  /\ edit(r, c) \in Terminal /\ edit(r, c).sid = r.sid
           /\ ~edit_wakes(c) => edit(r, c).in = r.in /\ edit(r, c).eof = r.eof
<1>0. r.line \in Seq(Chars) /\ Len(r.line) \in Nat /\ Len(r.line) < TTY_BUF
    BY LenProperties DEF Terminal, Tty_t
<1>a. Append(r.line, c) \in Seq(Chars) /\ Len(Append(r.line, c)) = Len(r.line) + 1
    BY <1>0, AppendProperties
<1>1. CASE c = "erase"
    <2> DEFINE l == IF r.line = <<>> THEN r.line ELSE SubSeq(r.line, 1, Len(r.line) - 1)
    <2>1. edit(r, c) = [r EXCEPT !.line = l]
        BY <1>1 DEF edit
    <2>2. l \in Seq(Chars) /\ Len(l) < TTY_BUF
        <3>1. CASE r.line = <<>>
            BY <3>1, <1>0
        <3>2. CASE r.line # <<>>
            <4>1. Len(r.line) - 1 \in Nat
                BY <3>2, <1>0, EmptySeq
            <4>2. /\ SubSeq(r.line, 1, Len(r.line) - 1) \in Seq(Chars)
                  /\ Len(SubSeq(r.line, 1, Len(r.line) - 1)) <= Len(r.line)
                BY <4>1, <1>0, CutSeq
            <4>3. Len(SubSeq(r.line, 1, Len(r.line) - 1)) \in Nat
                BY <4>2, LenProperties
            <4> QED
                BY <4>2, <4>3, <3>2, <1>0, TtyAssumption
        <3> QED
            BY <3>1, <3>2
    <2> HIDE DEF l
    <2> QED
        BY <2>1, <2>2 DEF Terminal, Tty_t
<1>2. CASE c = "kill"
    <2>1. edit(r, c) = [r EXCEPT !.line = <<>>]
        BY <1>2 DEF edit
    <2>2. edit(r, c) \in Terminal
        BY <2>1, EmptyFits, WithLine DEF Terminal
    <2> QED
        BY <2>1, <2>2 DEF Terminal, Tty_t
<1>3. CASE c = "eof"
    <2>1. CASE r.line = <<>>
        <3>1. edit(r, c) = [r EXCEPT !.eof = @ + 1]
            BY <1>3, <2>1 DEF edit
        <3>2. r.eof + 1 \in Nat /\ r.eof + 1 <= MaxEof
            BY <1>3, TtyAssumption DEF Terminal, Tty_t
        <3> QED
            BY <3>1, <3>2, <1>3 DEF Terminal, Tty_t, edit_wakes
    <2>2. CASE r.line # <<>>
        <3>1. edit(r, c) = queue_line(r)
            BY <1>3, <2>2 DEF edit
        <3> QED
            BY <3>1, <1>3, QueueLineKeeps DEF Terminal, Tty_t, edit_wakes
    <2> QED
        BY <2>1, <2>2
<1>4. CASE c = "nl"
    <2> DEFINE e == [r EXCEPT !.line = IF room_for(r, c) THEN Append(@, c) ELSE @]
    <2>1. edit(r, c) = queue_line(e)
        BY <1>4 DEF edit
    <2>2. /\ e \in Tty_t
          /\ Len(e.in) <= TTY_BUF /\ e.eof <= MaxEof /\ e.sid = r.sid
        BY <1>a DEF Terminal, Tty_t
    <2> HIDE DEF e
    <2> QED
        BY <2>1, <2>2, <1>4, QueueLineKeeps DEF edit_wakes
<1>5. CASE c \notin {"erase", "kill", "eof", "nl"}
    <2>1. edit(r, c) = [r EXCEPT !.line = IF room_for(r, c) THEN Append(@, c) ELSE @]
        BY <1>5 DEF edit
    <2>2. room_for(r, c) => Len(Append(r.line, c)) < TTY_BUF
        BY <1>a, <1>0, <1>5, TtyAssumption DEF room_for
    <2> QED
        BY <2>1, <2>2, <1>a, <1>5 DEF Terminal, Tty_t
<1> QED
    BY <1>1, <1>2, <1>3, <1>4, <1>5
-----------------------------------------------------------------------------
(***************************************************************************)
(* Steps that wake and signal, and change no session.                      *)
(***************************************************************************)
Living == {"run", "asleep", "woken"}

\* Between ps and qs processes were woken and signalled at most.
Roused(ps, qs) ==
    /\ qs \in [Procs -> Person]
    /\ \A p \in Procs :
        /\ qs[p].sid = ps[p].sid /\ qs[p].ctty = ps[p].ctty
        /\ qs[p].state \in Living <=> ps[p].state \in Living
        /\ qs[p].state = "asleep" => qs[p] = ps[p]

\* wakeup() on a terminal only rouses, and leaves nobody asleep there.
LEMMA WakeupRouses ==
    ASSUME NEW ps \in [Procs -> Person], NEW t
    PROVE  /\ Roused(ps, wakeup(ps, t))
           /\ \A p \in Procs : wakeup(ps, t)[p].state = "asleep" => ps[p].at # t
<1>1. ASSUME NEW p \in Procs, ps[p].state = "asleep"
      PROVE  [ps[p] EXCEPT !.state = "woken"] \in Person
    BY <1>1 DEF Person, States
<1>2. wakeup(ps, t) \in [Procs -> Person]
    BY <1>1 DEF wakeup
<1>3. ASSUME NEW p \in Procs
      PROVE  /\ wakeup(ps, t)[p].sid = ps[p].sid /\ wakeup(ps, t)[p].ctty = ps[p].ctty
             /\ wakeup(ps, t)[p].state \in Living <=> ps[p].state \in Living
             /\ wakeup(ps, t)[p].state = "asleep" => wakeup(ps, t)[p] = ps[p] /\ ps[p].at # t
    BY DEF wakeup, Person, Living
<1> QED
    BY <1>2, <1>3 DEF Roused

\* A signal to the foreground group only rouses.
LEMMA SignalRouses ==
    ASSUME proc \in [Procs -> Person], NEW t
    PROVE  Roused(proc, SignalForeground(proc, t))
<1>1. ASSUME NEW g
      PROVE  Roused(proc, signal_send_pgrp(proc, g))
    <2> DEFINE qs == signal_send_pgrp(proc, g)
    <2>1. ASSUME NEW p \in Procs
          PROVE  /\ qs[p] \in Person
                 /\ qs[p].sid = proc[p].sid /\ qs[p].ctty = proc[p].ctty
                 /\ qs[p].state \in Living <=> proc[p].state \in Living
                 /\ qs[p].state = "asleep" => qs[p] = proc[p]
        <3>1. CASE Alive(p) /\ proc[p].pgid = g
            <4>1. qs[p] = [proc[p] EXCEPT !.pending = TRUE,
                               !.state = IF proc[p].state = "asleep" THEN "woken" ELSE proc[p].state]
                BY <3>1 DEF signal_send_pgrp
            <4>2. proc[p] \in Person /\ proc[p].state \in Living
                BY <3>1 DEF Alive, Living
            <4> HIDE DEF qs
            <4> QED
                BY <4>1, <4>2 DEF Person, States, Living
        <3>2. CASE ~(Alive(p) /\ proc[p].pgid = g)
            BY <3>2 DEF signal_send_pgrp
        <3> QED
            BY <3>1, <3>2
    <2>2. qs = [p \in Procs |-> qs[p]]
        BY DEF signal_send_pgrp
    <2> HIDE DEF qs
    <2>3. qs \in [Procs -> Person]
        BY <2>1, <2>2
    <2> QED
        BY <2>1, <2>3 DEF Roused, qs
<1>2. Roused(proc, proc)
    BY DEF Roused
<1> QED
    BY <1>1, <1>2 DEF SignalForeground

\* Waking and signalling one after the other only rouses.
LEMMA RousedTwice ==
    ASSUME NEW ps, NEW qs, NEW rs, Roused(ps, qs), Roused(qs, rs)
    PROVE  Roused(ps, rs)
BY DEF Roused

\* Such a step keeps the invariant if whoever still sleeps has nothing to read.
LEMMA RousedKeeps ==
    ASSUME Inv, Roused(proc, proc'), tty' \in [Ttys -> Terminal], lim' = lim,
           \A t \in Ttys : tty'[t].sid = tty[t].sid,
           \A p \in Procs : proc'[p].state = "asleep" =>
               /\ tty'[proc[p].at].in = <<>>
               /\ proc[p].canon => tty'[proc[p].at].eof = 0
    PROVE  Inv'
<1>1. Typed'
    BY DEF Inv, Typed, Roused
<1>2. NoDeafReader'
    BY DEF Inv, NoDeafReader, Roused
<1>3. ControlledBySession'
    <2> SUFFICES ASSUME NEW p \in Procs, Alive(p)', proc'[p].ctty # NONE
                 PROVE  tty'[proc'[p].ctty].sid = proc'[p].sid
        BY DEF ControlledBySession
    <2>1. /\ proc'[p].sid = proc[p].sid /\ proc'[p].ctty = proc[p].ctty /\ Alive(p)
        BY DEF Roused, Alive, Living
    <2>2. proc[p].ctty \in Ttys
        BY <2>1 DEF Inv, Typed, Person
    <2> QED
        BY <2>1, <2>2 DEF Inv, ControlledBySession
<1> QED
    BY <1>1, <1>2, <1>3 DEF Inv

\* One terminal changes to r; those that still sleep on it have nothing to read.
LEMMA OneTtyKeeps ==
    ASSUME Inv, NEW t \in Ttys, NEW r \in Terminal, r.sid = tty[t].sid,
           tty' = [tty EXCEPT ![t] = r], Roused(proc, proc'), lim' = lim,
           \A p \in Procs : proc'[p].state = "asleep" /\ proc[p].at = t =>
               \/ r.in = tty[t].in /\ r.eof = tty[t].eof
               \/ r.in = <<>> /\ r.eof = 0
    PROVE  Inv'
<1>1. tty' \in [Ttys -> Terminal] /\ \A u \in Ttys : tty'[u].sid = tty[u].sid
    BY DEF Inv, Typed
<1>2. ASSUME NEW p \in Procs, proc'[p].state = "asleep"
      PROVE  tty'[proc[p].at].in = <<>> /\ (proc[p].canon => tty'[proc[p].at].eof = 0)
    <2>1. proc[p].state = "asleep" /\ proc[p].at \in Ttys
        BY <1>2 DEF Inv, Typed, Person, Roused
    <2>2. tty[proc[p].at].in = <<>> /\ (proc[p].canon => tty[proc[p].at].eof = 0)
        BY <2>1 DEF Inv, NoDeafReader
    <2>3. CASE proc[p].at = t
        <3>1. tty'[t] = r
            BY DEF Inv, Typed
        <3> QED
            BY <2>2, <2>3, <3>1, <1>2
    <2>4. CASE proc[p].at # t
        <3>1. tty'[proc[p].at] = tty[proc[p].at]
            BY <2>1, <2>4 DEF Inv, Typed
        <3> QED
            BY <2>2, <3>1
    <2> QED
        BY <2>3, <2>4
<1> QED
    BY <1>1, <1>2, RousedKeeps

\* tty_input() keeps the invariant: whatever makes something to read wakes the
\* readers, and an overflowing queue or line drops the character.
LEMMA InputKeeps ==
    ASSUME Inv, NEW t \in lim.ttys, tty_input(t)
    PROVE  Inv'
<1>0. t \in Ttys /\ tty[t] \in Terminal /\ proc \in [Procs -> Person] /\ lim \in Limits
    BY TtyAssumption DEF Inv, Typed
<1>1. PICK typed \in lim.chars :
        LET c == IF tty[t].mode.icrnl /\ typed = "cr" THEN "nl" ELSE typed IN
        /\ tty[t].eof < MaxEof \/ c # "eof"
        /\ IF tty[t].mode.isig /\ c = "intr"
           THEN /\ tty' = [tty EXCEPT ![t] = flush_input(@)]
                /\ proc' = SignalForeground(proc, t)
           ELSE IF tty[t].mode.icanon
           THEN /\ tty' = [tty EXCEPT ![t] = edit(@, c)]
                /\ proc' = IF edit_wakes(c) THEN wakeup(proc, t) ELSE proc
           ELSE /\ tty' = [tty EXCEPT ![t] = queue(@, <<c>>)]
                /\ proc' = wakeup(proc, t)
        /\ UNCHANGED lim
    BY DEF tty_input
<1> DEFINE c == IF tty[t].mode.icrnl /\ typed = "cr" THEN "nl" ELSE typed
<1>2. c \in Chars
    BY <1>0, TtyAssumption DEF Chars
<1>3. /\ tty[t].eof < MaxEof \/ c # "eof"
      /\ UNCHANGED lim
      /\ \/ /\ tty' = [tty EXCEPT ![t] = flush_input(tty[t])]
            /\ proc' = SignalForeground(proc, t)
         \/ /\ tty' = [tty EXCEPT ![t] = edit(tty[t], c)]
            /\ proc' = IF edit_wakes(c) THEN wakeup(proc, t) ELSE proc
         \/ /\ tty' = [tty EXCEPT ![t] = queue(tty[t], <<c>>)]
            /\ proc' = wakeup(proc, t)
    BY <1>1
<1> HIDE DEF c
<1>4. /\ Roused(proc, wakeup(proc, t)) /\ Roused(proc, proc)
      /\ \A p \in Procs : wakeup(proc, t)[p].state = "asleep" => proc[p].at # t
    BY <1>0, WakeupRouses DEF Roused
<1>5. CASE /\ tty' = [tty EXCEPT ![t] = flush_input(tty[t])]
           /\ proc' = SignalForeground(proc, t)
    <2> DEFINE r == flush_input(tty[t])
    <2>1. r \in Terminal /\ r.sid = tty[t].sid /\ r.in = <<>> /\ r.eof = 0
        BY <1>0, FlushKeeps
    <2>2. Roused(proc, proc')
        BY <1>0, <1>5, SignalRouses
    <2>3. tty' = [tty EXCEPT ![t] = r] /\ lim' = lim
        BY <1>3, <1>5
    <2> HIDE DEF r
    <2> QED
        BY <1>0, <2>1, <2>2, <2>3, OneTtyKeeps
<1>6. CASE /\ tty' = [tty EXCEPT ![t] = edit(tty[t], c)]
           /\ proc' = IF edit_wakes(c) THEN wakeup(proc, t) ELSE proc
    <2> DEFINE r == edit(tty[t], c)
    <2>1. /\ r \in Terminal /\ r.sid = tty[t].sid
          /\ ~edit_wakes(c) => r.in = tty[t].in /\ r.eof = tty[t].eof
        BY <1>0, <1>2, <1>3, EditKeeps
    <2>2. /\ Roused(proc, proc')
          /\ \A p \in Procs : proc'[p].state = "asleep" /\ proc[p].at = t => ~edit_wakes(c)
        BY <1>4, <1>6
    <2>3. tty' = [tty EXCEPT ![t] = r] /\ lim' = lim
        BY <1>3, <1>6
    <2> HIDE DEF r
    <2> QED
        BY <1>0, <2>1, <2>2, <2>3, OneTtyKeeps
<1>7. CASE /\ tty' = [tty EXCEPT ![t] = queue(tty[t], <<c>>)]
           /\ proc' = wakeup(proc, t)
    <2>1. <<c>> \in Seq(Chars)
        BY <1>2
    <2> DEFINE r == queue(tty[t], <<c>>)
    <2>2. r \in Terminal /\ r = [tty[t] EXCEPT !.in = r.in]
        BY <1>0, <2>1, QueueKeeps
    <2>3. tty' = [tty EXCEPT ![t] = r] /\ lim' = lim
        BY <1>3, <1>7
    <2> HIDE DEF r
    <2>4. r.sid = tty[t].sid
        BY <1>0, <2>2 DEF Terminal, Tty_t
    <2>5. /\ Roused(proc, proc')
          /\ \A p \in Procs : proc'[p].state = "asleep" => proc[p].at # t
        BY <1>4, <1>7
    <2> QED
        BY <1>0, <2>2, <2>3, <2>4, <2>5, OneTtyKeeps
<1> QED
    BY <1>3, <1>5, <1>6, <1>7

\* A change of modes keeps the invariant, with and without a flush: the line
\* that becomes input when canonical mode ends wakes the readers.
LEMMA TCSETSKeeps ==
    ASSUME Inv, NEW p \in Procs, NEW t \in lim.ttys, TCSETS(p, t)
    PROVE  Inv'
<1>0. t \in Ttys /\ tty[t] \in Terminal /\ proc \in [Procs -> Person] /\ lim \in Limits
    BY TtyAssumption DEF Inv, Typed
<1>1. PICK mode \in lim.modes, flush \in BOOLEAN :
        LET r  == IF flush THEN flush_input(tty[t]) ELSE tty[t]
            ok == r.mode.icanon /\ ~mode.icanon /\ r.line # <<>>
        IN  /\ tty' = [tty EXCEPT ![t] = [(IF ok THEN queue_line(r) ELSE r) EXCEPT !.mode = mode]]
            /\ proc' = IF ok THEN wakeup(proc, t) ELSE proc
    BY DEF TCSETS
<1> DEFINE r  == IF flush THEN flush_input(tty[t]) ELSE tty[t]
           ok == r.mode.icanon /\ ~mode.icanon /\ r.line # <<>>
           s  == IF ok THEN queue_line(r) ELSE r
           n  == [s EXCEPT !.mode = mode]
<1>2. /\ r \in Terminal /\ r.sid = tty[t].sid
      /\ r = tty[t] \/ (r.in = <<>> /\ r.eof = 0)
    BY <1>0, FlushKeeps
<1>3. tty' = [tty EXCEPT ![t] = n] /\ (proc' = IF ok THEN wakeup(proc, t) ELSE proc) /\ lim' = lim
    BY <1>1 DEF TCSETS
<1> HIDE DEF r
<1>4. s \in Terminal /\ s.sid = tty[t].sid /\ (~ok => s = r)
    BY <1>2, QueueLineKeeps DEF Terminal
<1> HIDE DEF ok, s
<1>5. mode \in Modes
    BY <1>0, TtyAssumption
<1>6. n \in Terminal /\ n.sid = s.sid /\ n.in = s.in /\ n.eof = s.eof
    BY <1>4, <1>5 DEF Terminal, Tty_t
<1> HIDE DEF n
<1>7. /\ Roused(proc, wakeup(proc, t)) /\ Roused(proc, proc)
      /\ \A q \in Procs : wakeup(proc, t)[q].state = "asleep" => proc[q].at # t
    BY <1>0, WakeupRouses DEF Roused
<1>8. /\ Roused(proc, proc')
      /\ \A q \in Procs : proc'[q].state = "asleep" /\ proc[q].at = t => ~ok
    <2>1. CASE ok
        BY <1>3, <1>7, <2>1
    <2>2. CASE ~ok
        BY <1>3, <1>7, <2>2
    <2> QED
        BY <2>1, <2>2
<1>9. ~ok => \/ n.in = tty[t].in /\ n.eof = tty[t].eof
             \/ n.in = <<>> /\ n.eof = 0
    BY <1>2, <1>4, <1>6
<1>10. n \in Terminal /\ n.sid = tty[t].sid /\ tty' = [tty EXCEPT ![t] = n] /\ lim' = lim
    BY <1>3, <1>4, <1>6
<1>11. \A q \in Procs : proc'[q].state = "asleep" /\ proc[q].at = t =>
               \/ n.in = tty[t].in /\ n.eof = tty[t].eof
               \/ n.in = <<>> /\ n.eof = 0
    BY <1>8, <1>9
<1> QED
    BY <1>0, <1>8, <1>10, <1>11, OneTtyKeeps

\* tcflush and a new window size keep the invariant.
LEMMA FlushWinsizeKeeps ==
    ASSUME Inv, NEW p \in Procs, NEW t \in lim.ttys, TCFLSH(p, t) \/ TIOCSWINSZ(p, t)
    PROVE  Inv'
<1>0. t \in Ttys /\ tty[t] \in Terminal /\ proc \in [Procs -> Person] /\ tty \in [Ttys -> Terminal]
    BY TtyAssumption DEF Inv, Typed
<1>1. CASE TCFLSH(p, t)
    <2>1. tty' = [tty EXCEPT ![t] = flush_input(tty[t])] /\ proc' = proc /\ lim' = lim
        BY <1>1 DEF TCFLSH
    <2>2. Roused(proc, proc')
        BY <1>0, <2>1 DEF Roused
    <2> QED
        <3> DEFINE r == flush_input(tty[t])
        <3>1. r \in Terminal /\ r.sid = tty[t].sid /\ r.in = <<>> /\ r.eof = 0
            BY <1>0, FlushKeeps
        <3>2. tty' = [tty EXCEPT ![t] = r] /\ lim' = lim
            BY <2>1
        <3> HIDE DEF r
        <3> QED
            BY <1>0, <2>2, <3>1, <3>2, OneTtyKeeps
<1>2. CASE TIOCSWINSZ(p, t)
    <2>1. tty' = [tty EXCEPT ![t] = tty[t]] /\ proc' = SignalForeground(proc, t) /\ lim' = lim
        BY <1>0, <1>2 DEF TIOCSWINSZ
    <2> QED
        BY <1>0, <2>1, SignalRouses, OneTtyKeeps
<1> QED
    BY <1>1, <1>2

\* sys_vhangup() keeps the invariant.
LEMMA HangupKeeps ==
    ASSUME Inv, NEW p \in Procs, sys_vhangup(p)
    PROVE  Inv'
<1> DEFINE t == proc[p].ctty
           r == [flush_input(tty[t]) EXCEPT !.mode = sane]
           ps == SignalForeground(proc, t)
<1>0. t \in Ttys /\ tty[t] \in Terminal /\ proc \in [Procs -> Person]
    BY DEF Inv, Typed, sys_vhangup, Person
<1>1. tty' = [tty EXCEPT ![t] = r] /\ proc' = wakeup(ps, t) /\ lim' = lim
    BY DEF sys_vhangup, tty_hangup
<1> HIDE DEF t
<1>2. Roused(proc, ps) /\ ps \in [Procs -> Person]
    BY <1>0, SignalRouses DEF Roused
<1> HIDE DEF ps
<1>3. Roused(ps, wakeup(ps, t))
    BY <1>2, WakeupRouses
<1>4. Roused(proc, proc')
    BY <1>1, <1>2, <1>3, RousedTwice
<1>5. sane \in Modes
    BY DEF sane, Modes
<1>6. r \in Terminal /\ r.sid = tty[t].sid /\ r.in = <<>> /\ r.eof = 0
    <2>1. /\ flush_input(tty[t]) \in Terminal /\ flush_input(tty[t]).sid = tty[t].sid
          /\ flush_input(tty[t]).in = <<>> /\ flush_input(tty[t]).eof = 0
        BY <1>0, FlushKeeps
    <2> QED
        BY <2>1, <1>5 DEF Terminal, Tty_t
<1> HIDE DEF r
<1> QED
    BY <1>0, <1>1, <1>4, <1>6, OneTtyKeeps

-----------------------------------------------------------------------------
(***************************************************************************)
(* Reading.                                                                *)
(***************************************************************************)
\* taken() is a position of the queue, or 0.
LEMMA TakenIsPosition ==
    ASSUME NEW in \in Seq(Chars), NEW n \in Nat \ {0}, NEW canon
    PROVE  taken(in, n, canon) \in Nat
<1> DEFINE stops == (IF canon THEN Newlines(in) ELSE {}) \cup {n, Len(in)}
<1>1. stops \subseteq Nat /\ stops # {}
    BY LenProperties DEF Newlines
<1>2. \E k \in stops : \A j \in stops : ~(<<j, k>> \in OpToRel(<, Nat))
    <2> HIDE DEF stops
    <2> QED
        BY <1>1, WFMin, NatLessThanWellFounded
<1>3. \E k \in stops : \A j \in stops : k <= j
    <2> HIDE DEF stops
    <2>1. PICK k \in stops : \A j \in stops : ~(<<j, k>> \in OpToRel(<, Nat))
        BY <1>2
    <2>2. ASSUME NEW j \in stops PROVE k <= j
        <3>1. j \in Nat /\ k \in Nat
            BY <1>1
        <3>2. ASSUME j < k PROVE <<j, k>> \in OpToRel(<, Nat)
            <4>1. <<j, k>> \in Nat \X Nat /\ <<j, k>>[1] = j /\ <<j, k>>[2] = k
                BY <3>1
            <4>2. <<j, k>>[1] < <<j, k>>[2]
                BY <3>2, <4>1
            <4> QED
                BY <4>1, <4>2, Zenon DEF OpToRel
        <3>3. ~(j < k)
            BY <2>1, <3>2, Zenon
        <3> QED
            BY <3>1, <3>3
    <2> QED
        BY <2>2
<1>4. taken(in, n, canon) \in stops
    BY <1>3 DEF taken
<1> QED
    BY <1>1, <1>4

\* One turn of tty_read keeps the invariant: it takes from the queue, or
\* takes an end of file, or gives up, or sleeps with nothing to read.
LEMMA ReadTurnKeeps ==
    ASSUME Inv, NEW p \in Procs, Alive(p), NEW t \in Ttys, NEW n \in Nat \ {0},
           NEW canon \in BOOLEAN, read_turn(p, t, n, canon), lim' = lim
    PROVE  Inv'
<1> DEFINE r == tty[t]
           k == taken(r.in, n, canon)
           run == [proc[p] EXCEPT !.state = "run", !.at = NONE, !.canon = FALSE]
           nap == [proc[p] EXCEPT !.state = "asleep", !.at = t, !.canon = canon]
<1>0. /\ r \in Terminal /\ proc[p] \in Person /\ tty \in [Ttys -> Terminal]
      /\ proc \in [Procs -> Person] /\ lim \in Limits
    BY DEF Inv, Typed
<1>1. /\ run \in Person /\ run.sid = proc[p].sid /\ run.ctty = proc[p].ctty
      /\ run.state = "run"
    BY <1>0 DEF Person, States, Alive
<1>2. /\ nap \in Person /\ nap.sid = proc[p].sid /\ nap.ctty = proc[p].ctty
      /\ nap.at = t /\ nap.canon = canon /\ nap.pending = proc[p].pending
    BY <1>0 DEF Person, States, Alive
<1>3. \/ /\ tty' = [tty EXCEPT ![t].in = SubSeq(@, k + 1, Len(@))]
         /\ proc' = [proc EXCEPT ![p] = run]
      \/ /\ tty' = [tty EXCEPT ![t].eof = @ - 1] /\ r.eof > 0
         /\ proc' = [proc EXCEPT ![p] = run]
      \/ tty' = tty /\ proc' = [proc EXCEPT ![p] = run]
      \/ /\ tty' = tty /\ proc' = [proc EXCEPT ![p] = nap]
         /\ r.in = <<>> /\ ~(canon /\ r.eof > 0) /\ ~proc[p].pending
    BY DEF read_turn
<1>4. /\ tty' \in [Ttys -> Terminal]
      /\ \A u \in Ttys : /\ tty'[u].sid = tty[u].sid
                         /\ tty[u].in = <<>> => tty'[u].in = <<>>
                         /\ tty[u].eof = 0 => tty'[u].eof = 0
    <2>1. CASE tty' = [tty EXCEPT ![t].in = SubSeq(@, k + 1, Len(@))]
        <3> DEFINE s == SubSeq(r.in, k + 1, Len(r.in))
        <3>0. r.in \in Seq(Chars) /\ Len(r.in) \in Nat /\ Len(r.in) <= TTY_BUF
            BY <1>0, LenProperties DEF Terminal, Tty_t
        <3>1. k \in Nat
            BY <3>0, TakenIsPosition
        <3>2. s \in Seq(Chars) /\ Len(s) <= Len(r.in) /\ (r.in = <<>> => s = <<>>)
            <4> HIDE DEF k
            <4> QED
                BY <3>0, <3>1, CutSeq
        <3>3. Len(s) <= TTY_BUF
            <4>1. Len(s) \in Nat
                BY <3>2, LenProperties
            <4> HIDE DEF s
            <4> QED
                BY <4>1, <3>0, <3>2, TtyAssumption
        <3>4. tty' = [tty EXCEPT ![t] = [tty[t] EXCEPT !.in = s]]
            BY <2>1, <1>0
        <3> HIDE DEF s
        <3>5. [tty[t] EXCEPT !.in = s] \in Terminal
            BY <1>0, <3>2, <3>3 DEF Terminal, Tty_t
        <3> QED
            BY <1>0, <3>2, <3>4, <3>5 DEF Terminal, Tty_t
    <2>2. CASE tty' = [tty EXCEPT ![t].eof = @ - 1] /\ r.eof > 0
        <3>1. tty' = [tty EXCEPT ![t] = [tty[t] EXCEPT !.eof = r.eof - 1]]
            BY <2>2, <1>0
        <3>2. r.eof - 1 \in Nat /\ r.eof - 1 <= MaxEof
            BY <2>2, <1>0, TtyAssumption DEF Terminal, Tty_t
        <3>3. [tty[t] EXCEPT !.eof = r.eof - 1] \in Terminal
            BY <1>0, <3>2 DEF Terminal, Tty_t
        <3> QED
            BY <1>0, <2>2, <3>1, <3>3 DEF Terminal, Tty_t
    <2>3. CASE tty' = tty
        BY <1>0, <2>3
    <2> QED
        BY <1>3, <2>1, <2>2, <2>3
<1>5. /\ proc' \in [Procs -> Person]
      /\ \A q \in Procs : /\ proc'[q].sid = proc[q].sid /\ proc'[q].ctty = proc[q].ctty
                          /\ Alive(q)' => Alive(q)
                          /\ q # p => proc'[q] = proc[q]
    <2> HIDE DEF run, nap
    <2> QED
        BY <1>0, <1>1, <1>2, <1>3 DEF Alive
<1>6. proc'[p].state = "asleep" => /\ proc'[p].at = t /\ tty' = tty /\ tty[t].in = <<>>
                                   /\ proc'[p].canon => tty[t].eof = 0
                                   /\ ~proc'[p].pending
    <2>1. r.eof \in Nat
        BY <1>0 DEF Terminal, Tty_t
    <2>2. CASE proc' = [proc EXCEPT ![p] = run]
        <3>1. proc'[p] = run
            BY <2>2, <1>0
        <3> QED
            BY <3>1, <1>1
    <2>3. CASE /\ tty' = tty /\ proc' = [proc EXCEPT ![p] = nap]
               /\ r.in = <<>> /\ ~(canon /\ r.eof > 0) /\ ~proc[p].pending
        <3>1. proc'[p] = nap
            BY <2>3, <1>0
        <3>2. canon => r.eof = 0
            BY <2>1, <2>3
        <3> HIDE DEF nap
        <3> QED
            BY <3>1, <3>2, <2>3, <1>2
    <2> QED
        BY <1>3, <2>2, <2>3
<1>7. Typed'
    BY <1>0, <1>4, <1>5 DEF Typed
<1>8. NoDeafReader'
    <2> SUFFICES ASSUME NEW q \in Procs, proc'[q].state = "asleep"
                 PROVE  /\ tty'[proc'[q].at].in = <<>>
                        /\ proc'[q].canon => tty'[proc'[q].at].eof = 0
                        /\ ~proc'[q].pending
        BY DEF NoDeafReader
    <2>1. CASE q = p
        BY <1>6, <2>1
    <2>2. CASE q # p
        <3>1. proc'[q] = proc[q] /\ proc[q].at \in Ttys
            BY <1>0, <1>5, <2>2 DEF Person
        <3>2. /\ tty[proc[q].at].in = <<>> /\ ~proc[q].pending
              /\ proc[q].canon => tty[proc[q].at].eof = 0
            BY <3>1 DEF Inv, NoDeafReader
        <3> QED
            BY <1>4, <3>1, <3>2
    <2> QED
        BY <2>1, <2>2
<1>9. ControlledBySession'
    <2> SUFFICES ASSUME NEW q \in Procs, Alive(q)', proc'[q].ctty # NONE
                 PROVE  tty'[proc'[q].ctty].sid = proc'[q].sid
        BY DEF ControlledBySession
    <2>1. Alive(q) /\ proc'[q].ctty = proc[q].ctty /\ proc'[q].sid = proc[q].sid
        BY <1>5
    <2>2. proc[q].ctty \in Ttys
        BY <1>0, <2>1 DEF Person
    <2> QED
        BY <1>4, <2>1, <2>2 DEF Inv, ControlledBySession
<1> QED
    BY <1>7, <1>8, <1>9 DEF Inv

\* A read that starts keeps the invariant.
LEMMA ReadKeeps ==
    ASSUME Inv, NEW p \in Procs, NEW t \in lim.ttys, tty_read(p, t)
    PROVE  Inv'
<1>1. t \in Ttys /\ lim \in Limits /\ tty[t] \in Terminal
    BY TtyAssumption DEF Inv, Typed
<1>2. PICK n \in lim.reads : read_turn(p, t, n, tty[t].mode.icanon)
    BY DEF tty_read
<1>3. n \in Nat \ {0}
    BY <1>1, TtyAssumption
<1>4. tty[t].mode.icanon \in BOOLEAN
    BY <1>1 DEF Terminal, Tty_t, Modes
<1>5. Alive(p) /\ lim' = lim
    BY DEF tty_read, Runs, Alive
<1> QED
    BY <1>1, <1>2, <1>3, <1>4, <1>5, ReadTurnKeeps

\* A woken reader that looks again, in the mode it began with, keeps the invariant.
LEMMA ReadAgainKeeps ==
    ASSUME Inv, NEW p \in Procs, ReadAgain(p)
    PROVE  Inv'
<1>1. proc[p].at \in Ttys /\ lim \in Limits /\ proc[p].canon \in BOOLEAN
    BY DEF Inv, Typed, Person, ReadAgain
<1>2. PICK n \in lim.reads : read_turn(p, proc[p].at, n, proc[p].canon)
    BY DEF ReadAgain
<1>3. n \in Nat \ {0}
    BY <1>1, TtyAssumption
<1>4. Alive(p) /\ lim' = lim
    BY DEF ReadAgain, Alive
<1> QED
    BY <1>1, <1>2, <1>3, <1>4, ReadTurnKeeps

-----------------------------------------------------------------------------
(***************************************************************************)
(* Sessions and processes.                                                 *)
(***************************************************************************)
\* A step that leaves input alone keeps the invariant if nobody falls asleep
\* in it and controlling terminals go on belonging to sessions.
LEMMA QuietKeeps ==
    ASSUME Inv, lim' = lim, tty' \in [Ttys -> Terminal], proc' \in [Procs -> Person],
           \A t \in Ttys : tty'[t].in = tty[t].in /\ tty'[t].eof = tty[t].eof,
           \A p \in Procs : proc'[p].state = "asleep" =>
               /\ proc[p].state = "asleep" /\ proc'[p].at = proc[p].at
               /\ proc'[p].canon = proc[p].canon /\ proc'[p].pending = proc[p].pending,
           \A p \in Procs : proc'[p].state \in Living /\ proc'[p].ctty # NONE =>
               tty'[proc'[p].ctty].sid = proc'[p].sid
    PROVE  Inv'
<1>1. Typed'
    BY DEF Inv, Typed
<1>2. NoDeafReader'
    <2> SUFFICES ASSUME NEW q \in Procs, proc'[q].state = "asleep"
                 PROVE  /\ tty'[proc'[q].at].in = <<>>
                        /\ proc'[q].canon => tty'[proc'[q].at].eof = 0
                        /\ ~proc'[q].pending
        BY DEF NoDeafReader
    <2>1. proc[q].state = "asleep" /\ proc[q].at \in Ttys
        BY DEF Inv, Typed, Person
    <2> QED
        BY <2>1 DEF Inv, NoDeafReader
<1>3. ControlledBySession'
    BY DEF ControlledBySession, Alive, Living
<1> QED
    BY <1>1, <1>2, <1>3 DEF Inv

\* Taking a terminal: nobody else is left with it.  If it had no session,
\* nobody alive had it, for sessions are never 0.
LEMMA TakeTerminalKeeps ==
    ASSUME Inv, NEW p \in Procs, NEW t \in lim.ttys, TIOCSCTTY(p, t)
    PROVE  Inv'
<1>0. /\ t \in Ttys /\ tty \in [Ttys -> Terminal] /\ proc \in [Procs -> Person]
      /\ lim' = lim /\ proc[p].state = "run" /\ proc[p].sid \in Procs /\ proc[p].pgid \in Procs
    BY TtyAssumption DEF Inv, Typed, Person, TIOCSCTTY, Runs
<1> DEFINE ps == IF tty[t].sid # 0 THEN disown(proc, t) ELSE proc
<1>1. /\ proc' = [ps EXCEPT ![p].ctty = t]
      /\ tty' = [tty EXCEPT ![t].sid = proc[p].sid, ![t].pgrp = proc[p].pgid]
    BY DEF TIOCSCTTY
<1>2. /\ ps \in [Procs -> Person]
      /\ \A q \in Procs : /\ ps[q] = [proc[q] EXCEPT !.ctty = ps[q].ctty]
                          /\ ps[q].ctty \in {proc[q].ctty, NONE}
                          /\ ps[q].state \in Living /\ ps[q].ctty = t => t = NONE
    <2>1. CASE tty[t].sid # 0
        <3>1. \A q \in Procs : [proc[q] EXCEPT !.ctty = NONE] \in Person
            BY <1>0 DEF Person
        <3>2. ps = disown(proc, t)
            BY <2>1
        <3> HIDE DEF ps
        <3> QED
            BY <1>0, <3>1, <3>2 DEF disown, Person
    <2>2. CASE tty[t].sid = 0
        <3>1. ps = proc
            BY <2>2
        <3>2. ASSUME NEW q \in Procs, proc[q].state \in Living, proc[q].ctty = t, t # NONE
              PROVE  FALSE
            <4>1. tty[t].sid = proc[q].sid
                BY <3>2 DEF Inv, ControlledBySession, Alive, Living
            <4>2. proc[q].sid \in Procs
                BY <1>0, <3>2 DEF Person, Living
            <4> QED
                BY <2>2, <4>1, <4>2, TtyAssumption
        <3> HIDE DEF ps
        <3> QED
            BY <1>0, <3>1, <3>2 DEF Person
    <2> QED
        BY <2>1, <2>2
<1> HIDE DEF ps
<1>3. /\ tty' \in [Ttys -> Terminal] /\ tty'[t].sid = proc[p].sid
      /\ \A u \in Ttys : tty'[u].in = tty[u].in /\ tty'[u].eof = tty[u].eof
      /\ \A u \in Ttys : u # t => tty'[u].sid = tty[u].sid
    <2> DEFINE r == [tty[t] EXCEPT !.sid = proc[p].sid, !.pgrp = proc[p].pgid]
    <2>1. tty' = [tty EXCEPT ![t] = r]
        BY <1>0, <1>1
    <2>2. r \in Terminal /\ r.in = tty[t].in /\ r.eof = tty[t].eof /\ r.sid = proc[p].sid
        BY <1>0 DEF Terminal, Tty_t
    <2> HIDE DEF r
    <2> QED
        BY <1>0, <2>1, <2>2
<1>4. /\ proc' \in [Procs -> Person] /\ proc'[p] = [ps[p] EXCEPT !.ctty = t]
      /\ \A q \in Procs : q # p => proc'[q] = ps[q]
    <2>1. [ps[p] EXCEPT !.ctty = t] \in Person
        BY <1>0, <1>2 DEF Person
    <2> QED
        BY <1>0, <1>1, <1>2, <2>1
<1>5. ASSUME NEW q \in Procs
      PROVE  /\ proc'[q].state = proc[q].state /\ proc'[q].sid = proc[q].sid
             /\ proc'[q].at = proc[q].at /\ proc'[q].canon = proc[q].canon
             /\ proc'[q].pending = proc[q].pending
    BY <1>0, <1>2, <1>4 DEF Person
<1>6. ASSUME NEW q \in Procs, proc'[q].state \in Living, proc'[q].ctty # NONE
      PROVE  tty'[proc'[q].ctty].sid = proc'[q].sid
    <2>1. CASE q = p
        <3>1. proc'[p].ctty = t
            BY <1>0, <1>2, <1>4 DEF Person
        <3> QED
            BY <2>1, <3>1, <1>3, <1>5
    <2>2. CASE q # p
        <3>1. proc'[q].ctty = proc[q].ctty /\ proc'[q].ctty # t
            BY <1>2, <1>4, <1>5, <1>6, <2>2
        <3>2. proc[q].ctty \in Ttys
            BY <1>0, <1>6, <3>1 DEF Person
        <3>3. tty[proc[q].ctty].sid = proc[q].sid
            BY <1>5, <1>6, <3>1 DEF Inv, ControlledBySession, Alive, Living
        <3> QED
            BY <1>3, <1>5, <3>1, <3>2, <3>3
    <2> QED
        BY <2>1, <2>2
<1> QED
    BY <1>0, <1>3, <1>4, <1>5, <1>6, QuietKeeps

\* Giving up a terminal keeps the invariant: when the leader gives it up the
\* whole session loses it.
LEMMA GiveUpTerminalKeeps ==
    ASSUME Inv, NEW p \in Procs, NEW t \in lim.ttys, TIOCNOTTY(p, t)
    PROVE  Inv'
<1>0. /\ t \in Ttys /\ tty \in [Ttys -> Terminal] /\ proc \in [Procs -> Person]
      /\ lim' = lim /\ t = proc[p].ctty
    BY TtyAssumption DEF Inv, Typed, TIOCNOTTY
<1>1. ASSUME NEW q \in Procs
      PROVE  /\ [proc[q] EXCEPT !.ctty = NONE] \in Person
             /\ proc'[q] = proc[q] \/ proc'[q] = [proc[q] EXCEPT !.ctty = NONE]
    BY <1>0 DEF TIOCNOTTY, disown, Person
<1>2. proc' \in [Procs -> Person]
    BY <1>0, <1>1 DEF TIOCNOTTY, disown
<1>3. ASSUME NEW q \in Procs
      PROVE  /\ proc'[q].state = proc[q].state /\ proc'[q].sid = proc[q].sid
             /\ proc'[q].at = proc[q].at /\ proc'[q].canon = proc[q].canon
             /\ proc'[q].pending = proc[q].pending
             /\ proc'[q].ctty # NONE => proc'[q].ctty = proc[q].ctty
    BY <1>0, <1>1 DEF Person
<1>4. \/ /\ tty' = [tty EXCEPT ![t].sid = 0, ![t].pgrp = 0]
         /\ \A q \in Procs : proc'[q].ctty # t \/ t = NONE
      \/ tty' = tty
    <2>1. CASE proc[p].sid = p
        <3>1. proc' = disown(proc, t) /\ tty' = [tty EXCEPT ![t].sid = 0, ![t].pgrp = 0]
            BY <2>1 DEF TIOCNOTTY
        <3>2. ASSUME NEW q \in Procs PROVE disown(proc, t)[q].ctty # t \/ t = NONE
            BY <1>0 DEF disown, Person
        <3> QED
            BY <3>1, <3>2
    <2>2. CASE proc[p].sid # p
        BY <2>2 DEF TIOCNOTTY
    <2> QED
        BY <2>1, <2>2
<1>5. /\ tty' \in [Ttys -> Terminal]
      /\ \A u \in Ttys : tty'[u].in = tty[u].in /\ tty'[u].eof = tty[u].eof
      /\ \A u \in Ttys : u # t => tty'[u].sid = tty[u].sid
    <2> DEFINE r == [tty[t] EXCEPT !.sid = 0, !.pgrp = 0]
    <2>1. tty' = [tty EXCEPT ![t] = r] \/ tty' = tty
        BY <1>0, <1>4
    <2>2. r \in Terminal /\ r.in = tty[t].in /\ r.eof = tty[t].eof
        BY <1>0 DEF Terminal, Tty_t
    <2> HIDE DEF r
    <2> QED
        BY <1>0, <2>1, <2>2
<1>6. ASSUME NEW q \in Procs, proc'[q].state \in Living, proc'[q].ctty # NONE
      PROVE  tty'[proc'[q].ctty].sid = proc'[q].sid
    <2>1. proc'[q].ctty = proc[q].ctty /\ proc[q].ctty \in Ttys
        BY <1>0, <1>3, <1>6 DEF Person
    <2>2. tty[proc[q].ctty].sid = proc[q].sid
        BY <1>3, <1>6, <2>1 DEF Inv, ControlledBySession, Alive, Living
    <2>3. tty' = tty \/ proc'[q].ctty # t
        BY <1>4, <1>6
    <2> QED
        BY <1>3, <1>5, <2>1, <2>2, <2>3
<1> QED
    BY <1>0, <1>2, <1>3, <1>5, <1>6, QuietKeeps

\* A new foreground group keeps the invariant.
LEMMA ForegroundKeeps ==
    ASSUME Inv, NEW p \in Procs, NEW t \in lim.ttys, TIOCSPGRP(p, t)
    PROVE  Inv'
<1>0. /\ t \in Ttys /\ tty \in [Ttys -> Terminal] /\ proc \in [Procs -> Person]
      /\ lim' = lim /\ proc' = proc
    BY TtyAssumption DEF Inv, Typed, TIOCSPGRP
<1>1. PICK g \in Procs \cup {0} : tty' = [tty EXCEPT ![t].pgrp = g]
    BY DEF TIOCSPGRP
<1> DEFINE r == [tty[t] EXCEPT !.pgrp = g]
<1>2. tty' = [tty EXCEPT ![t] = r]
    BY <1>0, <1>1
<1>3. r \in Terminal /\ r.sid = tty[t].sid /\ r.in = tty[t].in /\ r.eof = tty[t].eof
    BY <1>0 DEF Terminal, Tty_t
<1>4. Roused(proc, proc')
    BY <1>0 DEF Roused
<1> HIDE DEF r
<1> QED
    BY <1>0, <1>2, <1>3, <1>4, OneTtyKeeps

\* Steps in which one process becomes n, which does not sleep and has the
\* terminal of its own session or none.
LEMMA OneProcessKeeps ==
    ASSUME Inv, NEW p \in Procs, NEW n \in Person, n.state # "asleep",
           proc' = [proc EXCEPT ![p] = n], tty' = tty, lim' = lim,
           n.state \in Living /\ n.ctty # NONE =>
               \E q \in Procs : Alive(q) /\ n.ctty = proc[q].ctty /\ n.sid = proc[q].sid
    PROVE  Inv'
<1>0. tty' \in [Ttys -> Terminal] /\ proc \in [Procs -> Person]
    BY DEF Inv, Typed
<1>1. /\ proc' \in [Procs -> Person] /\ proc'[p] = n
      /\ \A q \in Procs : q # p => proc'[q] = proc[q]
    BY <1>0
<1>2. ASSUME NEW q \in Procs, proc'[q].state \in Living, proc'[q].ctty # NONE
      PROVE  tty'[proc'[q].ctty].sid = proc'[q].sid
    BY <1>1, <1>2 DEF Inv, ControlledBySession, Alive, Living
<1> QED
    BY <1>0, <1>1, <1>2, QuietKeeps

\* setsid, setpgid, fork, a signal taken, exit and reaping keep the invariant.
LEMMA ProcessKeeps ==
    ASSUME Inv, NEW p \in Procs,
           \/ sys_setsid(p) \/ sys_setpgid(p) \/ process_fork(p) \/ TakeSignal(p)
           \/ process_exit(p) \/ process_reap(p)
    PROVE  Inv'
<1>0. /\ proc \in [Procs -> Person] /\ proc[p] \in Person /\ lim \in Limits
      /\ proc[p].state = "run" => Alive(p)
    BY DEF Inv, Typed, Alive
<1>1. CASE sys_setsid(p)
    <2> DEFINE n == [proc[p] EXCEPT !.sid = p, !.pgid = p, !.ctty = NONE]
    <2>1. proc' = [proc EXCEPT ![p] = n] /\ tty' = tty /\ lim' = lim /\ proc[p].state = "run"
        BY <1>0, <1>1 DEF sys_setsid, Runs
    <2>2. n \in Person /\ n.state # "asleep" /\ n.ctty = NONE
        BY <1>0, <2>1 DEF Person
    <2> HIDE DEF n
    <2> QED
        BY <2>1, <2>2, OneProcessKeeps
<1>2. CASE sys_setpgid(p)
    <2> DEFINE n == [proc[p] EXCEPT !.pgid = p]
    <2>1. proc' = [proc EXCEPT ![p] = n] /\ tty' = tty /\ lim' = lim /\ proc[p].state = "run"
        BY <1>0, <1>2 DEF sys_setpgid, Runs
    <2>2. /\ n \in Person /\ n.state # "asleep"
          /\ n.ctty = proc[p].ctty /\ n.sid = proc[p].sid
        BY <1>0, <2>1 DEF Person
    <2> HIDE DEF n
    <2> QED
        BY <1>0, <2>1, <2>2, OneProcessKeeps
<1>3. CASE process_fork(p)
    <2> DEFINE n == [proc[p] EXCEPT !.pending = FALSE]
    <2>1. PICK q \in Procs : proc' = [proc EXCEPT ![q] = n]
        BY <1>0, <1>3, TtyAssumption DEF process_fork
    <2>2. tty' = tty /\ lim' = lim /\ proc[p].state = "run"
        BY <1>3 DEF process_fork, Runs
    <2>3. /\ n \in Person /\ n.state # "asleep"
          /\ n.ctty = proc[p].ctty /\ n.sid = proc[p].sid
        BY <1>0, <2>2 DEF Person
    <2> HIDE DEF n
    <2> QED
        BY <1>0, <2>1, <2>2, <2>3, OneProcessKeeps
<1>4. CASE TakeSignal(p)
    <2> DEFINE n == [proc[p] EXCEPT !.pending = FALSE]
    <2>1. proc' = [proc EXCEPT ![p] = n] /\ tty' = tty /\ lim' = lim /\ proc[p].state = "run"
        BY <1>0, <1>4 DEF TakeSignal, Runs
    <2>2. /\ n \in Person /\ n.state # "asleep"
          /\ n.ctty = proc[p].ctty /\ n.sid = proc[p].sid
        BY <1>0, <2>1 DEF Person
    <2> HIDE DEF n
    <2> QED
        BY <1>0, <2>1, <2>2, OneProcessKeeps
<1>5. CASE process_exit(p)
    <2> DEFINE n == [proc[p] EXCEPT !.state = "zombie", !.pending = FALSE]
    <2>1. proc' = [proc EXCEPT ![p] = n] /\ tty' = tty /\ lim' = lim
        BY <1>0, <1>5 DEF process_exit
    <2>2. n \in Person /\ n.state = "zombie"
        BY <1>0 DEF Person, States
    <2> HIDE DEF n
    <2> QED
        BY <2>1, <2>2, OneProcessKeeps DEF Living
<1>6. CASE process_reap(p)
    <2> DEFINE n == [Nobody EXCEPT !.state = "gone"]
    <2>1. proc' = [proc EXCEPT ![p] = n] /\ tty' = tty /\ lim' = lim
        BY <1>0, <1>6 DEF process_reap
    <2>2. n \in Person /\ n.state = "gone"
        BY DEF Person, States, Nobody
    <2> HIDE DEF n
    <2> QED
        BY <2>1, <2>2, OneProcessKeeps DEF Living
<1> QED
    BY <1>1, <1>2, <1>3, <1>4, <1>5, <1>6

-----------------------------------------------------------------------------
\* The terminals as tty_init() leaves them, with the first process, satisfy it.
LEMMA InvInit == Init => Inv
<1> SUFFICES ASSUME Init PROVE Inv
    OBVIOUS
<1> DEFINE r == [in |-> <<>>, line |-> <<>>, eof |-> 0, mode |-> sane, sid |-> 0, pgrp |-> 0]
           n == [Nobody EXCEPT !.state = "run", !.sid = 1, !.pgid = 1]
<1>1. r \in Terminal
    <2> DEFINE l == <<>>
    <2>1. l \in Seq(Chars) /\ Len(l) < TTY_BUF /\ Len(l) <= TTY_BUF
        BY NoInput, TtyAssumption
    <2>2. sane \in Modes
        BY DEF sane, Modes
    <2> HIDE DEF l
    <2>3. [in |-> l, line |-> l, eof |-> 0, mode |-> sane, sid |-> 0, pgrp |-> 0] \in Terminal
        BY <2>1, <2>2, TtyAssumption DEF Terminal, Tty_t
    <2> QED
        BY <2>3 DEF l
<1>2. /\ n \in Person /\ n.state = "run" /\ n.ctty = NONE
      /\ Nobody \in Person /\ Nobody.state = "unborn" /\ Nobody.ctty = NONE
    BY TtyAssumption DEF Nobody, Person, States
<1>3. lim \in Limits /\ tty = [t \in Ttys |-> r] /\ proc = [p \in Procs |-> IF p = 1 THEN n ELSE Nobody]
    BY DEF Init
<1> HIDE DEF r, n
<1> QED
    BY <1>1, <1>2, <1>3 DEF Inv, Typed, NoDeafReader, ControlledBySession

\* Every step keeps the invariant.
LEMMA InvNext == Inv /\ [Next]_vars => Inv'
<1> SUFFICES ASSUME Inv, [Next]_vars PROVE Inv'
    OBVIOUS
<1>1. CASE \E t \in lim.ttys : tty_input(t)
    BY <1>1, InputKeeps
<1>2. ASSUME NEW p \in Procs, NEW t \in lim.ttys,
             \/ tty_read(p, t) \/ TCSETS(p, t) \/ TCFLSH(p, t) \/ TIOCSWINSZ(p, t)
             \/ TIOCSCTTY(p, t) \/ TIOCNOTTY(p, t) \/ TIOCSPGRP(p, t)
      PROVE  Inv'
    BY <1>2, ReadKeeps, TCSETSKeeps, FlushWinsizeKeeps, TakeTerminalKeeps,
       GiveUpTerminalKeeps, ForegroundKeeps
<1>3. ASSUME NEW p \in Procs,
             \/ ReadAgain(p) \/ sys_vhangup(p) \/ sys_setsid(p) \/ sys_setpgid(p)
             \/ process_fork(p) \/ TakeSignal(p) \/ process_exit(p) \/ process_reap(p)
      PROVE  Inv'
    BY <1>3, ReadAgainKeeps, HangupKeeps, ProcessKeeps
<1>4. CASE UNCHANGED vars
    BY <1>4 DEF vars, Inv, Typed, NoDeafReader, ControlledBySession, Alive
<1> QED
    BY <1>1, <1>2, <1>3, <1>4 DEF Next

\* The inductive invariant holds in every reachable state.
THEOREM TtyInvariance == Spec => []Inv
<1>1. Init => Inv
    BY InvInit
<1>2. Inv /\ [Next]_vars => Inv'
    BY InvNext
<1> QED
    BY <1>1, <1>2, PTL DEF Spec

\* The queue and the line of every terminal stay inside their buffers, for
\* any buffer size and anything typed (tty_input).
THEOREM BuffersHold == Spec => []TypeOK
<1>1. Inv => TypeOK
    <2> SUFFICES ASSUME Inv PROVE TypeOK
        OBVIOUS
    <2>1. ASSUME NEW t \in Ttys
          PROVE  /\ tty[t].in \in Seq(Chars) /\ Len(tty[t].in) <= TTY_BUF
                 /\ tty[t].line \in Seq(Chars) /\ Len(tty[t].line) < TTY_BUF
                 /\ tty[t].eof \in 0 .. MaxEof
                 /\ tty[t].mode \in Modes
                 /\ {tty[t].sid, tty[t].pgrp} \subseteq Procs \cup {0}
        BY TtyAssumption DEF Inv, Typed, Terminal, Tty_t
    <2>2. ASSUME NEW p \in Procs
          PROVE  /\ proc[p].state \in {"unborn", "run", "asleep", "woken", "zombie", "gone"}
                 /\ proc[p].ctty \in Ttys \cup {NONE}
                 /\ Alive(p) => {proc[p].sid, proc[p].pgid} \subseteq Procs
        BY DEF Inv, Typed, Person, States, Alive
    <2> QED
        BY <2>1, <2>2 DEF TypeOK
<1> QED
    BY <1>1, TtyInvariance, PTL

\* No reader of a terminal sleeps past input, an end of file or a signal,
\* whoever types, reads, flushes or changes modes (tty_read's sleep_on).
THEOREM ReadersWake == Spec => []NoDeafReader
<1>1. Inv => NoDeafReader
    BY DEF Inv
<1> QED
    BY <1>1, TtyInvariance, PTL

\* A living process's controlling terminal belongs to its session, for any
\* number of processes, sessions and terminals (TIOCSCTTY, disown).
THEOREM TerminalsStayInSession == Spec => []ControlledBySession
<1>1. Inv => ControlledBySession
    BY DEF Inv
<1> QED
    BY <1>1, TtyInvariance, PTL
=============================================================================
