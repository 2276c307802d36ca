------------------------------- MODULE MCLife -------------------------------
(* Process for TLC: fork, exit, wait4 and reaping over three generations,   *)
(* with every disposition of SIGCHLD that scheduler_exit() tells apart, and *)
(* with process groups and sessions.                                        *)
EXTENDS Process

Plain(h) == [NoAction EXCEPT !.handler = h]
MCSigActs == {Plain("IGN"), [Plain("CATCH") EXCEPT !.nocldwait = TRUE]}
MCSigs == {SIGKILL, SIGCHLD}
MCSelectors == {-2, -1, 0, 3}
MCGroups == {0, 2}
MCCalls == {"exit", "fork", "wait4", "setpgid"} \X {INIT}
           \cup {"exit", "fork", "forkfail", "wait4", "sigaction", "setsid"} \X {2}
           \cup {"exit", "setpgid", "setsid"} \X {3}
=============================================================================
