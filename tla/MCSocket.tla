------------------------------ MODULE MCSocket ------------------------------
(* Socket for TLC.  The processes that are forked are interchangeable.  The   *)
(* limits are five small instances in one run.                                *)
EXTENDS Socket, TLC

Forked == Permutations(Procs \ {Creator})

Limit(n, pairs, types, sizes, m) ==
    [socks |-> n, pairs |-> pairs, types |-> types, sizes |-> sizes, events |-> m]

\* A stream pair with sends that fit and that do not; connects that wait for
\* accept; datagrams to names and in pairs; and streams made by connect.
MCLimits == {Limit(2, TRUE, {"stream"}, {4}, {"signal", "shutdown"}),
             Limit(4, FALSE, {"stream"}, {}, {"signal"}),
             Limit(2, FALSE, {"dgram"}, {2}, {"unlink"}),
             Limit(2, TRUE, {"dgram"}, {2}, {}),
             Limit(3, FALSE, {"stream"}, {2}, {})}

\* Connects only, with room for the sockets of two connections more.
ConnectLimits == {Limit(5, FALSE, {"stream"}, {}, {})}
=============================================================================
