------------------------------- MODULE MCLive -------------------------------
(* Process for TLC: scheduling and signals over time.  Init forks, kills and  *)
(* naps; its children compute, nap, wait for a device, or pause, and are the *)
(* foreground group of a terminal.                                           *)
EXTENDS Process

MCSigs == {SIGINT, SIGKILL, SIGCHLD}
MCSelectors == {2, 3}
MCCalls == {"fork", "kill", "nap", "wakeup"} \X {INIT}
           \cup {"nap", "io", "exit"} \X {2} \cup {"pause", "exit"} \X {3}
=============================================================================
