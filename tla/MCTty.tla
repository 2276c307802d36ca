------------------------------- MODULE MCTty -------------------------------
(***************************************************************************)
(* Small instances of Tty, one per question.                               *)
(***************************************************************************)
EXTENDS Tty

CONSTANTS t1, t2

Raw(v) == [icrnl |-> FALSE, isig |-> FALSE, icanon |-> FALSE, vmin |-> v]

MCLimits == {
    \* two readers of one terminal whose mode changes
    [ttys |-> {t1}, procs |-> {2}, chars |-> Chars, reads |-> {1, 2},
     modes |-> {sane, Raw(1), Raw(0)}, sessions |-> FALSE],
    \* two terminals and the sessions of three processes
    [ttys |-> {t1, t2}, procs |-> {2, 3}, chars |-> {"intr"}, reads |-> {},
     modes |-> {}, sessions |-> TRUE],
    \* a reader whose terminal is taken away, interrupted or hung up
    [ttys |-> {t1}, procs |-> {2}, chars |-> {"a", "eof", "intr"}, reads |-> {1},
     modes |-> {Raw(1)}, sessions |-> TRUE]
}
=============================================================================
