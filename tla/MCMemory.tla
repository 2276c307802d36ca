------------------------------ MODULE MCMemory -----------------------------
(***************************************************************************)
(* Small machines.  Each limit is one instance; see the README.            *)
(***************************************************************************)
EXTENDS Memory

CONSTANTS p1, p2

Region(a, n, av) == [address |-> a, length |-> n, available |-> av]

Span(a, b) == [from |-> a, to |-> b]

Program(len, segs, ok) == [script |-> FALSE, length |-> len, segments |-> segs, ok |-> ok]

Script(len, interp) == [script |-> TRUE, length |-> len, interp |-> interp]

Segment(lo, mid, hi) == [lo |-> lo, mid |-> mid, hi |-> hi]

Small == [sh |-> Program(1, <<Segment(1, 2, 2)>>, TRUE)]

Base == [map |-> <<Region(0, 48, TRUE)>>, ranges |-> <<Span(0, 4)>>,
         files |-> Small, breaks |-> {}, lens |-> {}, fixed |-> {},
         values |-> {}, sizes |-> {}, runs |-> {}, blocks |-> 4, procs |-> {p1}]

RAM(n) == <<Region(0, 4 * n, TRUE)>>

Machines == {
    \* the heap alone, with drivers: mixed sizes until the frames run out
    [Base EXCEPT !.files = <<>>, !.map = RAM(7), !.sizes = {1, 2, 5}, !.runs = {2},
        !.blocks = 6],
    \* mmap, munmap and brk
    [Base EXCEPT !.map = RAM(17), !.lens = {1, 2}, !.fixed = {2, 3}, !.breaks = {2, 3, 4}],
    \* the same for a program without a segment, whose heap starts at 0
    [Base EXCEPT !.map = RAM(12), !.lens = {1, 2}, !.fixed = {0, 2}, !.breaks = {0, 1, 2},
        !.files = [bare |-> Program(1, <<>>, TRUE)]],
    \* execve: scripts, a broken program, large images, kernel blocks held
    [Base EXCEPT !.map = RAM(15), !.sizes = {2}, !.blocks = 2,
        !.files = [sh |-> Program(2, <<Segment(1, 2, 2)>>, TRUE),
                   big |-> Program(6, <<Segment(1, 2, 3), Segment(2, 3, 4)>>, TRUE),
                   bad |-> Program(2, <<Segment(1, 1, 3)>>, FALSE),
                   run |-> Script(1, "sh"), twice |-> Script(1, "run"),
                   loop |-> Script(1, "loop"), lost |-> Script(1, "none")]]
}

\* Odd memory maps: a hole, unaligned ends, and modules wherever the boot
\* loader may have put them, in the way of the bitmap or not.
Boots == {
    [Base EXCEPT !.files = <<>>, !.sizes = {3}, !.blocks = 1,
        !.map = <<Region(0, 6, TRUE), Region(6, 3, FALSE), Region(9, 18, TRUE), Region(34, n, TRUE)>>,
        !.ranges = <<Span(0, 2), Span(a, a + k), Span(b, b + 2), Span(5, 5)>>] :
    n \in {3, 14, 17}, k \in {0, 1, 6}, a \in 9 .. 20, b \in 7 .. 24}

\* Two processes that fork, exec and store, with every number of frames from
\* too few for one image to just enough for two.
Forks == {[Base EXCEPT !.map = RAM(n), !.procs = {p1, p2}, !.values = {1}] : n \in 9 .. 19}

MCLimits == Machines \cup Boots \cup Forks
=============================================================================
