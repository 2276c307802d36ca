----------------------------- MODULE MCSignals -----------------------------
(* Process for TLC: init and one child send each other signals, change       *)
(* masks and handlers, wait in sigsuspend and ppoll, and exec.               *)
EXTENDS Process

SIGUSR1 == 10
Plain(h) == [NoAction EXCEPT !.handler = h]
MCSigs == {SIGKILL, SIGUSR1, SIGCHLD}
MCSigActs == {NoAction, [Plain("CATCH") EXCEPT !.mask = {SIGCHLD}],
              [Plain("CATCH") EXCEPT !.resethand = TRUE, !.nodefer = TRUE]}
MCMasks == {{}, {SIGUSR1, SIGKILL}}
MCCalls == {<<"fork", INIT>>, <<"kill", INIT>>, <<"nap", INIT>>}
           \cup {"kill", "sigaction", "sigprocmask", "sigsuspend", "ppoll", "execve"} \X {2}
\* The other way round: the child signals init, which execs.
InitCalls == {<<"kill", 2>>} \cup {"fork", "sigaction", "sigprocmask", "execve"} \X {INIT}
InitSelectors == {INIT}
MCSelectors == {2}
=============================================================================
