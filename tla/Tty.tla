-------------------------------- MODULE Tty --------------------------------
(***************************************************************************)
(* Terminals (drivers/tty.c): the line discipline that turns what is typed *)
(* into what is read, processes that sleep in read, and the sessions that  *)
(* own terminals, with setsid, fork and exit as far as they concern them.  *)
(*                                                                         *)
(* tty[t] holds the queue in of input ready for read, the line being       *)
(* edited, the count eof of end-of-file marks, the mode (termios), and the *)
(* session sid and foreground group pgrp, 0 for none.  proc[p] is process  *)
(* p, whose number is its pid: it runs, sleeps in tty_read, has been woken *)
(* there, is a zombie, or is not there.  at and canon are the locals t and *)
(* canon of its tty_read.  Echo and output are left out.                   *)
(*                                                                         *)
(* Characters are named for what the mode's control characters make of     *)
(* them; "a" stands for any other.                                         *)
(***************************************************************************)
EXTENDS Integers, FiniteSets, Sequences

CONSTANTS Ttys, Procs, NONE,
          TTY_BUF,
          MaxEof,           \* bound: end-of-file marks not yet read
          Limits            \* the instances explored: see Init

Chars == {"a", "nl", "cr", "erase", "kill", "eof", "intr"}

\* The flags of the mode that matter here, and VMIN.
Modes == [icrnl : BOOLEAN, isig : BOOLEAN, icanon : BOOLEAN, vmin : {0, 1}]

ASSUME TtyAssumption ==
    /\ TTY_BUF \in Nat \ {0}
    /\ MaxEof \in Nat
    /\ Procs \subseteq Nat \ {0} /\ 1 \in Procs
    /\ \A l \in Limits : /\ l.ttys \subseteq Ttys /\ l.procs \subseteq Procs
                         /\ l.chars \subseteq Chars /\ l.modes \subseteq Modes
                         /\ l.reads \subseteq Nat \ {0} /\ l.sessions \in BOOLEAN

VARIABLES tty, proc, lim

vars == <<tty, proc, lim>>

sane == [icrnl |-> TRUE, isig |-> TRUE, icanon |-> TRUE, vmin |-> 1]

Nobody == [state |-> "unborn", sid |-> 0, pgid |-> 0, ctty |-> NONE, pending |-> FALSE,
           at |-> NONE, canon |-> FALSE]

Alive(p) == proc[p].state \in {"run", "asleep", "woken"}

Listed(p) == Alive(p) \/ proc[p].state = "zombie"

Runs(p) == proc[p].state = "run"

(***************************************************************************)
(* Sleeping and signals.                                                   *)
(***************************************************************************)
\* wakeup(t): every process that sleeps on t will look again.
wakeup(ps, t) ==
    [p \in Procs |-> IF ps[p].state = "asleep" /\ ps[p].at = t
                     THEN [ps[p] EXCEPT !.state = "woken"] ELSE ps[p]]

\* A signal that is not discarded becomes pending and ends a sleep.
signal_send_pgrp(ps, pgrp) ==
    [p \in Procs |-> IF Alive(p) /\ ps[p].pgid = pgrp
                     THEN [ps[p] EXCEPT !.pending = TRUE,
                                        !.state = IF @ = "asleep" THEN "woken" ELSE @]
                     ELSE ps[p]]

SignalForeground(ps, t) ==
    IF tty[t].pgrp = 0 THEN ps ELSE signal_send_pgrp(ps, tty[t].pgrp)

(***************************************************************************)
(* Input.                                                                  *)
(***************************************************************************)
\* What does not fit in the queue is dropped.
queue(r, s) == [r EXCEPT !.in = SubSeq(@ \o s, 1, IF Len(@ \o s) < TTY_BUF
                                                 THEN Len(@ \o s) ELSE TTY_BUF)]

flush_input(r) == [r EXCEPT !.in = <<>>, !.line = <<>>, !.eof = 0]

\* The line becomes input.
queue_line(r) == [queue(r, r.line) EXCEPT !.line = <<>>]

\* A bug to catch: the room kept for the newline is used up.
room_for_all(r, c) == Len(r.line) < TTY_BUF \/ c = "nl"

\* The last place of the line is kept for the newline.
room_for(r, c) == Len(r.line) < TTY_BUF - 1 \/ c = "nl"

\* A character in canonical mode.
edit(r, c) ==
    CASE c = "erase" -> [r EXCEPT !.line = IF @ = <<>> THEN @ ELSE SubSeq(@, 1, Len(@) - 1)]
      [] c = "kill"  -> [r EXCEPT !.line = <<>>]
      [] c = "eof"   -> IF r.line = <<>> THEN [r EXCEPT !.eof = @ + 1] ELSE queue_line(r)
      [] c = "nl"    -> queue_line([r EXCEPT !.line = IF room_for(r, c) THEN Append(@, c) ELSE @])
      [] OTHER       -> [r EXCEPT !.line = IF room_for(r, c) THEN Append(@, c) ELSE @]

\* A bug to catch: an end-of-file mark wakes nobody.
edit_wakes_lines(c) == c = "nl"

\* An end of line and an end of file wake the readers, a full queue or not.
edit_wakes(c) == c \in {"nl", "eof"}

tty_input(t) ==
    \E typed \in lim.chars :
        LET c == IF tty[t].mode.icrnl /\ typed = "cr" THEN "nl" ELSE typed IN
        /\ tty[t].eof < MaxEof \/ c # "eof"
        /\ IF tty[t].mode.isig /\ c = "intr"
           THEN /\ tty' = [tty EXCEPT ![t] = flush_input(@)]
                /\ proc' = SignalForeground(proc, t)
           ELSE IF tty[t].mode.icanon
           THEN /\ tty' = [tty EXCEPT ![t] = edit(@, c)]
                /\ proc' = IF edit_wakes(c) THEN wakeup(proc, t) ELSE proc
           ELSE /\ tty' = [tty EXCEPT ![t] = queue(@, <<c>>)]
                /\ proc' = wakeup(proc, t)
        /\ UNCHANGED lim

(***************************************************************************)
(* Reading.  canon is what the mode was when the read began.               *)
(***************************************************************************)
Newlines(s) == {i \in DOMAIN s : s[i] = "nl"}

\* How much of the queue one read of n takes: in canonical mode to the newline.
taken(in, n, canon) ==
    LET stops == (IF canon THEN Newlines(in) ELSE {}) \cup {n, Len(in)}
    IN  CHOOSE k \in stops : \A j \in stops : k <= j

\* One turn of the loop of tty_read.
read_turn(p, t, n, canon) ==
    LET r == tty[t]
        k == taken(r.in, n, canon)
        done(q) == [proc EXCEPT ![p] = [@ EXCEPT !.state = "run", !.at = NONE, !.canon = FALSE]]
    IN  IF r.in # <<>>
        THEN /\ tty' = [tty EXCEPT ![t].in = SubSeq(@, k + 1, Len(@))]
             /\ proc' = done(p)
        ELSE IF canon /\ r.eof > 0
        THEN /\ tty' = [tty EXCEPT ![t].eof = @ - 1]
             /\ proc' = done(p)
        ELSE IF (~canon /\ r.mode.vmin = 0) \/ proc[p].pending
        THEN UNCHANGED tty /\ proc' = done(p)
        ELSE /\ UNCHANGED tty
             /\ proc' = [proc EXCEPT ![p] = [@ EXCEPT !.state = "asleep", !.at = t,
                                                       !.canon = canon]]

tty_read(p, t) ==
    /\ Runs(p) /\ \E n \in lim.reads : read_turn(p, t, n, tty[t].mode.icanon)
    /\ UNCHANGED lim

ReadAgain(p) ==
    /\ proc[p].state = "woken"
    /\ \E n \in lim.reads : read_turn(p, proc[p].at, n, proc[p].canon)
    /\ UNCHANGED lim

(***************************************************************************)
(* ioctl, on a terminal the process has open (/dev/tty is the one it       *)
(* controls).                                                              *)
(***************************************************************************)
\* TCSETS and TCSETSW, and TCSETSF, which flushes first.
TCSETS(p, t) ==
    /\ Runs(p)
    /\ \E mode \in lim.modes, flush \in BOOLEAN :
        LET r  == IF flush THEN flush_input(tty[t]) ELSE tty[t]
            ok == r.mode.icanon /\ ~mode.icanon /\ r.line # <<>>
        IN  /\ tty' = [tty EXCEPT ![t] = [(IF ok THEN queue_line(r) ELSE r) EXCEPT !.mode = mode]]
            /\ proc' = IF ok THEN wakeup(proc, t) ELSE proc
    /\ UNCHANGED lim

TCFLSH(p, t) ==
    /\ Runs(p) /\ lim.reads # {}
    /\ tty' = [tty EXCEPT ![t] = flush_input(@)]
    /\ UNCHANGED <<proc, lim>>

\* SIGWINCH for a new size.
TIOCSWINSZ(p, t) ==
    /\ Runs(p) /\ lim.sessions
    /\ proc' = SignalForeground(proc, t)
    /\ UNCHANGED <<tty, lim>>

\* A bug to catch: the session keeps the terminal.
disown_leader(ps, t) ==
    [p \in Procs |-> IF ps[p].ctty = t /\ ps[p].sid = p
                     THEN [ps[p] EXCEPT !.ctty = NONE] ELSE ps[p]]

\* The terminal stops being anybody's controlling terminal.
disown(ps, t) ==
    [p \in Procs |-> IF ps[p].ctty = t THEN [ps[p] EXCEPT !.ctty = NONE] ELSE ps[p]]

\* For a session leader without a terminal; force is arg 1 from root.
TIOCSCTTY(p, t) ==
    /\ Runs(p) /\ lim.sessions
    /\ proc[p].sid = p /\ proc[p].ctty = NONE
    /\ \E force \in BOOLEAN :
        /\ tty[t].sid # 0 => force
        /\ proc' = [(IF tty[t].sid # 0 THEN disown(proc, t) ELSE proc) EXCEPT ![p].ctty = t]
    /\ tty' = [tty EXCEPT ![t].sid = proc[p].sid, ![t].pgrp = proc[p].pgid]
    /\ UNCHANGED lim

\* A session leader takes its whole session off the terminal.
TIOCNOTTY(p, t) ==
    /\ Runs(p) /\ proc[p].ctty = t
    /\ IF proc[p].sid = p
       THEN /\ proc' = disown(proc, t)
            /\ tty' = [tty EXCEPT ![t].sid = 0, ![t].pgrp = 0]
       ELSE /\ proc' = [proc EXCEPT ![p].ctty = NONE]
            /\ UNCHANGED tty
    /\ UNCHANGED lim

\* The group is not looked up: any number will do.  One that no process has as its
\* group is like 0 or like a pid without a group.
TIOCSPGRP(p, t) ==
    /\ Runs(p) /\ proc[p].ctty = t /\ proc[p].sid = tty[t].sid
    /\ \E g \in Procs \cup {0} : tty' = [tty EXCEPT ![t].pgrp = g]
    /\ UNCHANGED <<proc, lim>>

tty_hangup(t) ==
    /\ tty' = [tty EXCEPT ![t] = [flush_input(@) EXCEPT !.mode = sane]]
    /\ proc' = wakeup(SignalForeground(proc, t), t)
    /\ UNCHANGED lim

sys_vhangup(p) == Runs(p) /\ proc[p].ctty # NONE /\ tty_hangup(proc[p].ctty)

(***************************************************************************)
(* Processes.                                                              *)
(***************************************************************************)
sys_setsid(p) ==
    /\ Runs(p) /\ lim.sessions
    /\ \A q \in Procs : Listed(q) => proc[q].pgid # p
    /\ proc' = [proc EXCEPT ![p] = [@ EXCEPT !.sid = p, !.pgid = p, !.ctty = NONE]]
    /\ UNCHANGED <<tty, lim>>

\* setpgid(0, 0).
sys_setpgid(p) ==
    /\ Runs(p) /\ lim.sessions /\ proc[p].sid # p
    /\ proc' = [proc EXCEPT ![p].pgid = p]
    /\ UNCHANGED <<tty, lim>>

process_fork(p) ==
    /\ Runs(p)
    /\ \E q \in lim.procs :
        /\ proc[q].state = "unborn"
        /\ proc' = [proc EXCEPT ![q] = [proc[p] EXCEPT !.pending = FALSE]]
    /\ UNCHANGED <<tty, lim>>

\* The pending signal is taken on the way back to user mode: it runs a
\* handler, or it ends the process.
TakeSignal(p) ==
    /\ Runs(p) /\ proc[p].pending
    /\ proc' = [proc EXCEPT ![p].pending = FALSE]
    /\ UNCHANGED <<tty, lim>>

process_exit(p) ==
    /\ Runs(p)
    /\ proc' = [proc EXCEPT ![p] = [@ EXCEPT !.state = "zombie", !.pending = FALSE]]
    /\ UNCHANGED <<tty, lim>>

process_reap(p) ==
    /\ proc[p].state = "zombie"
    /\ proc' = [proc EXCEPT ![p] = [Nobody EXCEPT !.state = "gone"]]
    /\ UNCHANGED <<tty, lim>>

Init ==
    /\ lim \in Limits
    /\ tty = [t \in Ttys |-> [in |-> <<>>, line |-> <<>>, eof |-> 0, mode |-> sane,
                              sid |-> 0, pgrp |-> 0]]
    /\ proc = [p \in Procs |-> IF p = 1 THEN [Nobody EXCEPT !.state = "run", !.sid = 1, !.pgid = 1]
                               ELSE Nobody]

Next ==
    \/ \E t \in lim.ttys : tty_input(t)
    \/ \E p \in Procs, t \in lim.ttys :
        \/ tty_read(p, t) \/ TCSETS(p, t) \/ TCFLSH(p, t) \/ TIOCSWINSZ(p, t)
        \/ TIOCSCTTY(p, t) \/ TIOCNOTTY(p, t) \/ TIOCSPGRP(p, t)
    \/ \E p \in Procs :
        \/ ReadAgain(p) \/ sys_vhangup(p) \/ sys_setsid(p) \/ sys_setpgid(p)
        \/ process_fork(p) \/ TakeSignal(p) \/ process_exit(p) \/ process_reap(p)

Spec == Init /\ [][Next]_vars

-----------------------------------------------------------------------------
\* State has its type: the queue never outgrows its buffer, and between two
\* characters the line has room for the newline that ends it, so that
\* line[line_len++] stays inside the buffer.
TypeOK ==
    /\ \A t \in Ttys :
        /\ tty[t].in \in Seq(Chars) /\ Len(tty[t].in) <= TTY_BUF
        /\ tty[t].line \in Seq(Chars) /\ Len(tty[t].line) < TTY_BUF
        /\ tty[t].eof \in 0 .. MaxEof
        /\ tty[t].mode \in Modes
        /\ {tty[t].sid, tty[t].pgrp} \subseteq Procs \cup {0}
    /\ \A p \in Procs :
        /\ proc[p].state \in {"unborn", "run", "asleep", "woken", "zombie", "gone"}
        /\ proc[p].ctty \in Ttys \cup {NONE}
        /\ Alive(p) => {proc[p].sid, proc[p].pgid} \subseteq Procs

\* Nobody sleeps in read while there is something for it: no input in the
\* queue, no end of file for a read that began in canonical mode, no signal.
\* Every path that makes input, the half-typed line that a change of mode
\* turns into input included, wakes the readers, and a reader that finds
\* another was faster goes back to sleep.
NoDeafReader ==
    \A p \in Procs : proc[p].state = "asleep" =>
        /\ tty[proc[p].at].in = <<>>
        /\ proc[p].canon => tty[proc[p].at].eof = 0
        /\ ~proc[p].pending

\* The controlling terminal of a process belongs to its session, whoever
\* takes, gives up or is robbed of a terminal and whatever is forked
\* meanwhile: so a process of one session never gets at, nor hangs up, the
\* terminal of another through /dev/tty or vhangup.
ControlledBySession ==
    \A p \in Procs :
        Alive(p) /\ proc[p].ctty # NONE => tty[proc[p].ctty].sid = proc[p].sid
=============================================================================
