------------------------------ MODULE Process ------------------------------
(***************************************************************************)
(* The life of processes: fork, exit, wait4 and reaping, signals, process  *)
(* groups and the idle loop, on top of the scheduler of module Sched.      *)
(*                                                                         *)
(* The machine has one CPU and a system call runs with interrupts off, so  *)
(* a call is one step up to its return or to its sleep_on().  pc[p] says   *)
(* where process p is:                                                     *)
(*   "user"   in user mode: it may call, fault, or be interrupted          *)
(*   "ret"    in the kernel, about to run signal_deliver() and return      *)
(*   "wait4", "pause", "nap", "poll", "io"                                 *)
(*            in the loop of a blocking call, which it re-runs when the    *)
(*            scheduler picks it again                                     *)
(*   "loop", "halt"   the idle process: about to yield, halted by hlt      *)
(*   "dead"   past scheduler_exit()                                        *)
(***************************************************************************)
EXTENDS Sched

CONSTANTS Sigs,       \* the signal numbers in play, among 1 .. 64
          SigActs,    \* the actions rt_sigaction may be given
          Masks,      \* the masks sigprocmask, sigsuspend and ppoll may be given
          Selectors,  \* the pid arguments of wait4 and kill
          Groups,     \* the pgid arguments of setpgid
          Calls,      \* which calls the program of which process makes
          MaxFrames   \* bound: handler frames the user stack has room for

CallNames == {"exit", "fork", "forkfail", "wait4", "kill", "sigaction", "sigprocmask",
              "pause", "sigsuspend", "io", "nap", "ppoll", "wakeup", "execve", "setpgid", "setsid"}

SIGINT == 2
SIGQUIT == 3
SIGKILL == 9
SIGCHLD == 17
SIGSTOP == 19
SIGTSTP == 20
UNBLOCKABLE == {SIGKILL, SIGSTOP}

SigAction == [handler : {"DFL", "IGN", "CATCH"}, mask : SUBSET Sigs,
              nodefer : BOOLEAN, resethand : BOOLEAN, nocldwait : BOOLEAN]

\* A zeroed k_sigaction_t.
NoAction == [handler |-> "DFL", mask |-> {}, nodefer |-> FALSE,
             resethand |-> FALSE, nocldwait |-> FALSE]

ASSUME ProcessAssumption ==
    /\ Sigs \subseteq 1 .. 64 /\ {SIGKILL, SIGCHLD} \subseteq Sigs
    /\ SigActs \subseteq SigAction
    /\ Masks \subseteq SUBSET Sigs
    /\ Selectors \subseteq Int
    /\ Groups \subseteq Nat
    /\ Calls \subseteq CallNames \X Pid
    /\ MaxFrames \in Nat

VARIABLES sched,      \* the scheduler, see module Sched
          next_pid,   \* the pid the next process_alloc() gives out
          ppid, pgid, sid,
          pc,
          arg,        \* the pid argument of a wait4 in progress
          sigact,     \* process_t.sigact
          pending, blocked,  \* sig_pending, sig_blocked
          saved,      \* sig_saved while sig_restore is set, else NULL
          frames,     \* the masks in the handler frames on the user stack
          base,       \* history: the mask outside every handler
          panic       \* init exited and the machine is halted

famVars == <<next_pid, ppid, pgid, sid>>
maskVars == <<blocked, saved, frames, base>>
vars == <<sched, famVars, pc, arg, sigact, pending, maskVars, panic>>

me == sched.current

exists(p) == sched.state[p] # "FREE"
is_user(p) == p # IDLE /\ sched.state[p] \notin {"FREE", "TERMINATED"}

Running(where) == ~panic /\ me # NULL /\ sched.state[me] = "RUNNING" /\ pc[me] = where
Calling(name) == <<name, me>> \in Calls /\ Running("user")
Goto(where) == pc' = [pc EXCEPT ![me] = where]

-----------------------------------------------------------------------------
(* Signals *)

default_ignored(n) == n \in {17, 18, 19, 20, 21, 22, 23, 28}

discarded(p, n, act) ==
    IF n = SIGKILL
    THEN p = INIT
    ELSE \/ act.handler = "IGN"
         \/ act.handler = "DFL" /\ (default_ignored(n) \/ p = INIT)

(***************************************************************************)
(* signal_send() changes the scheduler and the pending signals; an effect  *)
(* e pairs the two, so that calls can be chained.  Sending to a set is     *)
(* sending to its members in the order of the process list.                *)
(***************************************************************************)
Now == [s |-> sched, pd |-> pending]

Accepts(e, p, n) == /\ p # IDLE
                    /\ e.s.state[p] \notin {"FREE", "TERMINATED"}
                    /\ ~discarded(p, n, sigact[p][n])

\* Mutant: the signal is only noted.
SendToQuietly(e, T, n) ==
    [e EXCEPT !.pd = [p \in Pid |-> IF p \in T /\ Accepts(e, p, n) THEN @[p] \cup {n} ELSE @[p]]]

SendTo(e, T, n) ==
    LET got == {p \in T : Accepts(e, p, n)}
        pd  == [p \in Pid |-> IF p \in got THEN e.pd[p] \cup {n} ELSE e.pd[p]]
    IN  [s |-> Wake(e.s, {p \in got : pd[p] \ blocked[p] # {}}), pd |-> pd]

signal_send(e, p, n) == SendTo(e, {p}, n)

\* A step that sends n to the members of T and does nothing else to either.
Send(T, n) == LET e == SendTo(Now, T, n) IN sched' = e.s /\ pending' = e.pd

signal_pending(p) == pending[p] \ blocked[p] # {}

-----------------------------------------------------------------------------
(* exit *)

\* Mutant: the signal alone, which the default action ignores.
TellParentBySignal(e, p) == signal_send(e, p, SIGCHLD)

\* Tell p that a child is a zombie: signal_send(p, SIGCHLD); wakeup(p).
TellParent(e, p) == LET f == signal_send(e, p, SIGCHLD)
                    IN  [f EXCEPT !.s = wakeup(@, p)]

ignores_children(p) ==
    /\ p # INIT /\ exists(p)
    /\ sigact[p][SIGCHLD].handler = "IGN" \/ sigact[p][SIGCHLD].nocldwait

\* Closing the descriptors may end the last reader or writer of a pipe or
\* socket, which wakes whoever sleeps on it.
close_fds(s, wakes) == IF wakes THEN wakeup(s, Io) ELSE s

\* Mutant: the zombies among the children are left behind.
LivingOrphans == {p \in Pid \ {me} : is_user(p) /\ ppid[p] = me}

\* The children that init adopts when the caller exits.
Orphans == {p \in Pid \ {me} : exists(p) /\ ppid[p] = me}

scheduler_exit(wakes) ==
    LET e1       == [Now EXCEPT !.s = close_fds(@, wakes)]
        e2       == IF \E p \in Orphans : sched.state[p] = "TERMINATED"
                    THEN TellParent(e1, INIT) ELSE e1
        disowned == ignores_children(ppid[me])
        parent   == IF disowned THEN INIT ELSE ppid[me]
        e3       == IF disowned THEN [e2 EXCEPT !.s = wakeup(@, ppid[me])] ELSE e2
        e4       == TellParent([e3 EXCEPT !.s.state[me] = "TERMINATED"], parent)
    IN  IF me = INIT
        THEN panic' = TRUE /\ UNCHANGED <<sched, ppid, pc, pending>>
        ELSE /\ sched' = scheduler_yield(e4.s)
             /\ pending' = e4.pd
             /\ ppid' = [p \in Pid |-> IF p \in Orphans THEN INIT
                                       ELSE IF p = me THEN parent ELSE ppid[p]]
             /\ Goto("dead")
             /\ UNCHANGED panic

\* sys_exit(), or a fault in user mode.
Exit == /\ Calling("exit")
        /\ \E wakes \in BOOLEAN : scheduler_exit(wakes)
        /\ UNCHANGED <<next_pid, pgid, sid, arg, sigact, maskVars>>

-----------------------------------------------------------------------------
(* fork *)

Inherit(f, c) == [f EXCEPT ![c] = f[me]]

\* process_fork(): the child copies everything but the pending signals.
Fork ==
    LET c == next_pid
    IN  /\ Calling("fork") /\ c <= MaxPid
        /\ next_pid' = c + 1
        /\ sched' = queue_push_back([sched EXCEPT !.state[c] = "READY",
                                                  !.ticks[c] = Quantum(c)], c)
        /\ ppid' = [ppid EXCEPT ![c] = me]
        /\ pgid' = Inherit(pgid, c) /\ sid' = Inherit(sid, c)
        /\ sigact' = Inherit(sigact, c)
        /\ blocked' = Inherit(blocked, c) /\ base' = Inherit(base, c)
        /\ frames' = Inherit(frames, c)
        /\ Goto("ret")
        /\ UNCHANGED <<arg, pending, saved, panic>>

\* vmm_clone() failed: the child is reaped at once, but its pid is used up.
ForkFails == /\ Calling("forkfail") /\ next_pid <= MaxPid
             /\ next_pid' = next_pid + 1
             /\ Goto("ret")
             /\ UNCHANGED <<sched, ppid, pgid, sid, arg, sigact, pending, maskVars, panic>>

-----------------------------------------------------------------------------
(* wait4 *)

\* Is p one that the pid argument a of a call by w stands for, by wait4's rule?
Selects(w, a, p) == \/ a > 0 /\ p = a
                    \/ a = 0 /\ pgid[p] = pgid[w]
                    \/ a = -1
                    \/ a < -1 /\ pgid[p] = -a

Children(w, a) == {p \in Pid \ {w} : exists(p) /\ ppid[p] = w /\ Selects(w, a, p)}

Zombies(w, a) == {p \in Children(w, a) : sched.state[p] = "TERMINATED"}

\* process_reap(): nothing is left of p; its fields go back to their initial values.
process_reap(p) ==
    /\ sched' = [sched EXCEPT !.state[p] = "FREE", !.ticks[p] = Quantum(p)]
    /\ ppid' = [ppid EXCEPT ![p] = IDLE]
    /\ pgid' = [pgid EXCEPT ![p] = 0]
    /\ sid' = [sid EXCEPT ![p] = 0]
    /\ pc' = [pc EXCEPT ![p] = "user", ![me] = "ret"]
    /\ sigact' = [sigact EXCEPT ![p] = [n \in Sigs |-> NoAction]]
    /\ pending' = [pending EXCEPT ![p] = {}]
    /\ blocked' = [blocked EXCEPT ![p] = {}]
    /\ saved' = [saved EXCEPT ![p] = NULL]
    /\ frames' = [frames EXCEPT ![p] = <<>>]
    /\ base' = [base EXCEPT ![p] = {}]
    /\ UNCHANGED next_pid

\* One pass of the loop of sys_wait4(a): reap the first zombie of the list
\* (the highest pid), give up, or sleep on the own process_t.
wait4(a, nohang) ==
    \/ \E z \in Zombies(me, a) : /\ \A p \in Zombies(me, a) : p <= z
                                 /\ process_reap(z)
                                 /\ arg' = [arg EXCEPT ![me] = 0]
    \/ /\ Zombies(me, a) = {}
       /\ \/ Children(me, a) = {} \/ nohang \/ signal_pending(me)
       /\ Goto("ret")
       /\ arg' = [arg EXCEPT ![me] = 0]
       /\ UNCHANGED <<sched, famVars, sigact, pending, maskVars>>
    \/ /\ Zombies(me, a) = {} /\ Children(me, a) # {} /\ ~nohang /\ ~signal_pending(me)
       /\ sched' = sleep_on(sched, me)
       /\ Goto("wait4")
       /\ arg' = [arg EXCEPT ![me] = a]
       /\ UNCHANGED <<famVars, sigact, pending, maskVars>>

Wait4 == /\ Calling("wait4")
         /\ \E a \in Selectors, nohang \in BOOLEAN : wait4(a, nohang)
         /\ UNCHANGED panic

Wait4Again == /\ Running("wait4")
              /\ wait4(arg[me], FALSE)
              /\ UNCHANGED panic

-----------------------------------------------------------------------------
(* Signal calls *)

\* sys_kill(): everyone the argument stands for that is alive.  The caller is
\* taken to be privileged; one who is not reaches fewer processes.
KillTargets(a) == {p \in Pid : /\ is_user(p)
                               /\ IF a = -1 THEN p > INIT /\ p # me
                                            ELSE Selects(me, a, p)}

\* The other calls that send signals send to targets of the same kinds: SIGPIPE
\* to the caller, SIGWINCH or SIGHUP to the group of a terminal.
Kill == /\ Calling("kill")
        /\ \E a \in Selectors, n \in Sigs : Send(KillTargets(a), n)
        /\ Goto("ret")
        /\ UNCHANGED <<famVars, arg, sigact, maskVars, panic>>

Sigaction ==
    /\ Calling("sigaction")
    /\ \E n \in Sigs \ UNBLOCKABLE, a \in SigActs :
          LET act == [a EXCEPT !.mask = @ \ UNBLOCKABLE]
          IN  /\ sigact' = [sigact EXCEPT ![me][n] = act]
              /\ pending' = [pending EXCEPT
                               ![me] = IF discarded(me, n, act) THEN @ \ {n} ELSE @]
    /\ Goto("ret")
    /\ UNCHANGED <<sched, famVars, arg, maskVars, panic>>

\* Mutant: SIGKILL can be blocked.
SigprocmaskUnchecked ==
    /\ Calling("sigprocmask")
    /\ \E m \in Masks : blocked' = [blocked EXCEPT ![me] = @ \cup m]
    /\ Goto("ret")
    /\ UNCHANGED <<sched, famVars, arg, sigact, pending, saved, frames, base, panic>>

Sigprocmask ==
    /\ Calling("sigprocmask")
    /\ \E m \in Masks : \E new \in {blocked[me] \cup m, blocked[me] \ m, m} :
          /\ blocked' = [blocked EXCEPT ![me] = new \ UNBLOCKABLE]
          /\ base' = IF frames[me] = <<>> THEN [base EXCEPT ![me] = new \ UNBLOCKABLE]
                                          ELSE base
    /\ Goto("ret")
    /\ UNCHANGED <<sched, famVars, arg, sigact, pending, saved, frames, panic>>

\* rt_sigreturn pops the frame the handler was started with.
Sigreturn ==
    /\ Running("user") /\ frames[me] # <<>>
    /\ LET top == Len(frames[me])
       IN  /\ blocked' = [blocked EXCEPT ![me] = frames[me][top] \ UNBLOCKABLE]
           /\ frames' = [frames EXCEPT ![me] = SubSeq(@, 1, top - 1)]
    /\ Goto("ret")
    /\ UNCHANGED <<sched, famVars, arg, sigact, pending, saved, base, panic>>

signal_mask_temp(m) ==
    /\ saved' = [saved EXCEPT ![me] = blocked[me]]
    /\ blocked' = [blocked EXCEPT ![me] = m \ UNBLOCKABLE]

\* Mutant: the restore is noted as done and not done.
signal_mask_forget == saved' = [saved EXCEPT ![me] = NULL] /\ UNCHANGED blocked

signal_mask_restore ==
    /\ blocked' = [blocked EXCEPT ![me] = IF saved[me] # NULL THEN saved[me] ELSE @]
    /\ saved' = [saved EXCEPT ![me] = NULL]

(***************************************************************************)
(* signal_deliver(), on the way back to user mode: the lowest deliverable  *)
(* signal that is not ignored ends the process or gets a handler frame;    *)
(* the ignored ones below it are dropped on the way.                       *)
(***************************************************************************)
Ignored(n) == \/ sigact[me][n].handler = "IGN"
              \/ sigact[me][n].handler = "DFL" /\ default_ignored(n)

Deliverable == pending[me] \ blocked[me]
Taken == {n \in Deliverable : ~Ignored(n) /\ \A m \in Deliverable : Ignored(m) \/ n <= m}

\* No signal to act on: drop the ignored ones, undo a temporary mask.
DeliverNone ==
    /\ Running("ret") /\ Taken = {}
    /\ pending' = [pending EXCEPT ![me] = @ \cap blocked[me]]
    /\ signal_mask_restore
    /\ Goto("user")
    /\ UNCHANGED <<sched, famVars, arg, sigact, frames, base, panic>>

\* The default action, or setup_frame() fails: there is no restorer, or no room
\* on the user stack, which may be so at any time.  What is left pending does
\* not matter to a process that is gone.
DeliverDeath ==
    /\ Running("ret") /\ Taken # {}
    /\ \E wakes \in BOOLEAN : scheduler_exit(wakes)
    /\ UNCHANGED <<next_pid, pgid, sid, arg, sigact, maskVars>>

\* setup_frame(): the frame keeps the mask that rt_sigreturn puts back, which
\* is the one before sigsuspend or ppoll when one of them is interrupted.
DeliverFrame ==
    /\ Running("ret") /\ Len(frames[me]) < MaxFrames
    /\ \E n \in Taken :
          LET act == sigact[me][n]
              old == IF saved[me] # NULL THEN saved[me] ELSE blocked[me]
              own == IF act.nodefer THEN {} ELSE {n}
          IN  /\ act.handler = "CATCH"
              /\ pending' = [pending EXCEPT
                               ![me] = {m \in @ : m \in blocked[me] \/ m > n}]
              /\ frames' = [frames EXCEPT ![me] = Append(@, old)]
              /\ blocked' = [blocked EXCEPT
                               ![me] = (old \cup act.mask \cup own) \ UNBLOCKABLE]
              /\ saved' = [saved EXCEPT ![me] = NULL]
              /\ sigact' = [sigact EXCEPT
                              ![me][n].handler = IF act.resethand THEN "DFL" ELSE @]
    /\ Goto("user")
    /\ UNCHANGED <<sched, famVars, arg, base, panic>>

-----------------------------------------------------------------------------
(* Blocking calls *)

\* The loop of pause and sigsuspend: sleep until a signal is deliverable
\* under the mask in force.
pause_loop(mask) ==
    \/ pending[me] \ mask # {} /\ Goto("ret") /\ UNCHANGED sched
    \/ pending[me] \ mask = {} /\ Goto("pause") /\ sched' = sleep_on(sched, me)

Pause == /\ Calling("pause")
         /\ pause_loop(blocked[me])
         /\ UNCHANGED <<famVars, arg, sigact, pending, maskVars, panic>>

\* Mutant: what is pending is looked up under the mask of before.
SigsuspendStale ==
    /\ Calling("sigsuspend")
    /\ \E m \in Masks : signal_mask_temp(m) /\ pause_loop(blocked[me])
    /\ UNCHANGED <<famVars, arg, sigact, pending, frames, base, panic>>

Sigsuspend == /\ Calling("sigsuspend")
              /\ \E m \in Masks : signal_mask_temp(m) /\ pause_loop(m \ UNBLOCKABLE)
              /\ UNCHANGED <<famVars, arg, sigact, pending, frames, base, panic>>

PauseAgain == /\ Running("pause")
              /\ pause_loop(blocked[me])
              /\ UNCHANGED <<famVars, arg, sigact, pending, maskVars, panic>>

(***************************************************************************)
(* Every other call that sleeps has the same loop: leave if the condition  *)
(* holds, leave if a signal is pending, sleep on the channel.  Whether the *)
(* condition holds is up to the pipe, the terminal or the clock.           *)
(***************************************************************************)
ChanOf(call) == IF call = "io" THEN Io ELSE Jiffies

block_loop(call, mask) ==
    \/ pending[me] \ mask # {} /\ Goto("ret") /\ UNCHANGED sched
    \/ pending[me] \ mask = {} /\ Goto(call) /\ sched' = sleep_on(sched, ChanOf(call))

\* read, write, accept... ("io") and nanosleep, poll ("nap").
Block == /\ \E call \in {"io", "nap"} : Calling(call) /\ block_loop(call, blocked[me])
         /\ UNCHANGED <<famVars, arg, sigact, pending, maskVars, panic>>

BlockAgain == /\ \E call \in {"io", "nap"} :
                    /\ Running(call)
                    /\ \/ block_loop(call, blocked[me])
                       \/ Goto("ret") /\ UNCHANGED sched
              /\ UNCHANGED <<famVars, arg, sigact, pending, maskVars, panic>>

\* ppoll: under a temporary mask, undone here unless a signal ends the wait
\* (a call that is ready at once leaves the mask as it was).
Ppoll == /\ Calling("ppoll")
         /\ \E m \in Masks : signal_mask_temp(m) /\ block_loop("poll", m \ UNBLOCKABLE)
         /\ UNCHANGED <<famVars, arg, sigact, pending, frames, base, panic>>

PpollAgain ==
    /\ Running("poll")
    /\ \/ block_loop("poll", blocked[me]) /\ UNCHANGED <<blocked, saved>>
       \/ Goto("ret") /\ signal_mask_restore /\ UNCHANGED sched
    /\ UNCHANGED <<famVars, arg, sigact, pending, frames, base, panic>>

\* A call that makes some condition true wakes the sleepers on its channel.
IoWakeup == /\ Calling("wakeup")
            /\ sched' = wakeup(sched, Io)
            /\ Goto("ret")
            /\ UNCHANGED <<famVars, arg, sigact, pending, maskVars, panic>>

-----------------------------------------------------------------------------
(* execve, process groups and sessions *)

\* process_execve(): a new image, so no frames; caught signals revert to the
\* default, ignored ones, the mask and what is pending stay.
Execve ==
    /\ Calling("execve")
    /\ sigact' = [sigact EXCEPT ![me] =
                    [n \in Sigs |-> IF @[n].handler = "IGN" THEN @[n] ELSE NoAction]]
    /\ frames' = [frames EXCEPT ![me] = <<>>]
    /\ base' = [base EXCEPT ![me] = blocked[me]]
    /\ \E wakes \in BOOLEAN : sched' = close_fds(sched, wakes)
    /\ Goto("ret")
    /\ UNCHANGED <<famVars, arg, pending, blocked, saved, panic>>

\* Mutant: a group of any session will do.
group_exists_anywhere(g, s) == \E p \in Pid : is_user(p) /\ pgid[p] = g

group_exists(g, s) == \E p \in Pid : is_user(p) /\ pgid[p] = g /\ sid[p] = s

Setpgid ==
    /\ Calling("setpgid")
    /\ \E p \in Pid, g \in Groups :
          LET new == IF g = 0 THEN p ELSE g
          IN  /\ exists(p) /\ (p = me \/ ppid[p] = me)
              /\ sid[p] = sid[me] /\ sid[p] # p
              /\ new = p \/ group_exists(new, sid[me])
              /\ pgid' = [pgid EXCEPT ![p] = new]
    /\ Goto("ret")
    /\ UNCHANGED <<sched, next_pid, ppid, sid, arg, sigact, pending, maskVars, panic>>

Setsid == /\ Calling("setsid")
          /\ \A p \in Pid : is_user(p) => pgid[p] # me
          /\ sid' = [sid EXCEPT ![me] = me]
          /\ pgid' = [pgid EXCEPT ![me] = me]
          /\ Goto("ret")
          /\ UNCHANGED <<sched, next_pid, ppid, arg, sigact, pending, maskVars, panic>>

\* Any other call, or one of these that fails its checks: it changes nothing
\* here but comes back through signal_deliver() all the same.
OtherCall == /\ Running("user")
             /\ Goto("ret")
             /\ UNCHANGED <<sched, famVars, arg, sigact, pending, maskVars, panic>>

-----------------------------------------------------------------------------
(* Interrupts and the idle loop *)

\* Mutant: hlt resumes hlt.
InterruptibleOnce == \/ Running("user") /\ Goto("ret")
                     \/ (Running("halt") \/ Running("loop")) /\ UNCHANGED pc

\* An interrupt from user mode returns through signal_deliver(); one that ends
\* the idle process's hlt sends it round its loop.
Interruptible == \/ Running("user") /\ Goto("ret")
                 \/ (Running("halt") \/ Running("loop")) /\ Goto("loop")

\* The timer: clock_tick() wakes every sleeper on jiffies, then scheduler_tick().
Tick == /\ Interruptible
        /\ sched' = scheduler_tick(wakeup(sched, Jiffies))
        /\ UNCHANGED <<famVars, arg, sigact, pending, maskVars, panic>>

\* A keyboard or serial interrupt: input for a terminal wakes its readers.
DeviceIrq == /\ Interruptible
             /\ sched' = wakeup(sched, Io)
             /\ UNCHANGED <<famVars, arg, sigact, pending, maskVars, panic>>

\* A key that stands for a signal: tty_input() sends it to the terminal's
\* foreground group, and Ctrl-Alt-Del sends SIGINT to init.
SignalIrq ==
    /\ Interruptible
    /\ \/ \E g \in Groups \ {0}, n \in Sigs \cap {SIGINT, SIGQUIT, SIGTSTP} :
             Send({p \in Pid : is_user(p) /\ pgid[p] = g}, n)
       \/ SIGINT \in Sigs /\ Send({INIT}, SIGINT)
    /\ UNCHANGED <<famVars, arg, sigact, maskVars, panic>>

\* cli; scheduler_yield(); sti; hlt
IdleYield == /\ Running("loop")
             /\ sched' = scheduler_yield(sched)
             /\ Goto("halt")
             /\ UNCHANGED <<famVars, arg, sigact, pending, maskVars, panic>>

Start == /\ me = NULL
         /\ sched' = scheduler_start(sched)
         /\ UNCHANGED <<famVars, pc, arg, sigact, pending, maskVars, panic>>

\* After a panic the CPU is halted with interrupts off.
Halted == panic /\ UNCHANGED vars

-----------------------------------------------------------------------------
\* kernel_main() has created the idle process and init, in this order.
Init ==
    /\ sched = [state   |-> [p \in Pid |-> IF p \in {IDLE, INIT} THEN "READY" ELSE "FREE"],
                ready   |-> [q \in Queues |-> IF q = PRIO_IDLE THEN <<IDLE>>
                                              ELSE IF q = PRIO_USER THEN <<INIT>> ELSE <<>>],
                current |-> NULL,
                chan    |-> [p \in Pid |-> NULL],
                ticks   |-> [p \in Pid |-> Quantum(p)]]
    /\ next_pid = 2
    /\ ppid = [p \in Pid |-> IDLE]
    /\ pgid = [p \in Pid |-> IF p = INIT THEN INIT ELSE 0]
    /\ sid = [p \in Pid |-> IF p = INIT THEN INIT ELSE 0]
    /\ pc = [p \in Pid |-> IF p = IDLE THEN "loop" ELSE "user"]
    /\ arg = [p \in Pid |-> 0]
    /\ sigact = [p \in Pid |-> [n \in Sigs |-> NoAction]]
    /\ pending = [p \in Pid |-> {}]
    /\ blocked = [p \in Pid |-> {}]
    /\ saved = [p \in Pid |-> NULL]
    /\ frames = [p \in Pid |-> <<>>]
    /\ base = [p \in Pid |-> {}]
    /\ panic = FALSE

\* What a program may ask of the kernel, in any order.
Call == \/ Exit \/ Fork \/ ForkFails \/ Wait4 \/ Kill \/ Sigaction \/ Sigprocmask
        \/ Sigreturn \/ Pause \/ Sigsuspend \/ Block \/ Ppoll \/ IoWakeup
        \/ Execve \/ Setpgid \/ Setsid \/ OtherCall

\* What the kernel goes on with by itself.
Continue == \/ Wait4Again \/ PauseAgain \/ BlockAgain \/ PpollAgain
            \/ DeliverNone \/ DeliverDeath \/ DeliverFrame \/ IdleYield \/ Start

Next == Call \/ Continue \/ Tick \/ DeviceIrq \/ SignalIrq \/ Halted

Spec == Init /\ [][Next]_vars

(***************************************************************************)
(* The CPU does not stop in the middle of the kernel.  The timer interrupt *)
(* is latched while interrupts are off and taken as soon as they are on    *)
(* again, so it is not postponed for ever by processes that keep entering  *)
(* the kernel: strong fairness.                                            *)
(***************************************************************************)
Fairness == WF_vars(Continue) /\ SF_vars(Tick)

FairSpec == Spec /\ Fairness

-----------------------------------------------------------------------------
(* Properties *)

PcValue == {"user", "ret", "wait4", "pause", "nap", "poll", "io", "loop", "halt", "dead"}

\* What sig_blocked and sig_saved may hold.
Mask == SUBSET (Sigs \ UNBLOCKABLE)

\* Every variable has its type.
TypeOK ==
    /\ sched \in SchedState
    /\ next_pid \in 2 .. MaxPid + 1
    /\ ppid \in [Pid -> Pid] /\ pgid \in [Pid -> Nat] /\ sid \in [Pid -> Nat]
    /\ pc \in [Pid -> PcValue]
    /\ arg \in [Pid -> Int]
    /\ sigact \in [Pid -> [Sigs -> SigAction]]
    /\ pending \in [Pid -> SUBSET Sigs]
    /\ blocked \in [Pid -> Mask]
    /\ saved \in [Pid -> Mask \cup {NULL}]
    /\ frames \in [Pid -> Seq(Mask)]
    /\ base \in [Pid -> Mask]
    /\ panic \in BOOLEAN

\* scheduler.c: the ready queues hold exactly the READY processes, each once
\* and in the queue of its priority; the process on the CPU is the only
\* RUNNING one and never a sleeper or a zombie, because the idle process is
\* always there to switch to; a process has a channel exactly while BLOCKED.
SchedConsistent == Consistent(sched)

\* scheduler_exit(): every process but init has a parent that is alive and
\* not a zombie itself, through any sequence of exits, disowned children and
\* reapings, so for every zombie there is a process whose wait4 finds it.
ParentAlive ==
    \A p \in Pid \ {IDLE, INIT} : exists(p) => ppid[p] # p /\ is_user(ppid[p])

\* sys_wait4(): no wakeup is lost.  Among the children a sleeping wait4(a)
\* looks at there is no zombie already; and when a names one child or any
\* child, there is such a child at all: every exit that ends the wait, be it
\* by a zombie or by taking the last child away, woke the parent.  (The group
\* of wait4(0) is the caller's group of the moment, which setpgid may change.)
NoLostChild ==
    \A p \in Pid : (sched.state[p] = "BLOCKED" /\ pc[p] = "wait4") =>
        /\ arg[p] # 0 => Zombies(p, arg[p]) = {}
        /\ arg[p] > 0 \/ arg[p] = -1 => Children(p, arg[p]) # {}

\* sys_setpgid(), sys_setsid(): a process group never spans two sessions,
\* whatever parents, children and leaders do in whatever order.
GroupInOneSession ==
    \A p, q \in Pid : (is_user(p) /\ is_user(q) /\ pgid[p] = pgid[q]) => sid[p] = sid[q]

\* kernel.c: "Whatever an interrupt woke runs as soon as the interrupt is
\* over": the CPU is never halted while a process that was woken, or just
\* forked, waits for it.  A process whose quantum ended is another matter.
WokenRunsAtOnce ==
    (me = IDLE /\ pc[IDLE] = "halt") =>
        \A p \in Pid : sched.state[p] = "READY" => pc[p] = "ret"

\* process.h: lower queue numbers "are always preferred by the scheduler over
\* higher-numbered (lower priority) queues": the CPU is never halted in the
\* idle process while any process is ready.
StrictPriority ==
    (me = IDLE /\ pc[IDLE] = "halt") => \A p \in Pid : sched.state[p] # "READY"

\* signal.h: "A deliverable signal is pending: blocking calls should give
\* up": nobody sleeps while it has a signal to act on, whatever the order of
\* the mask change, the send and the sleep.
NoDeafSleeper == \A p \in Pid : sched.state[p] = "BLOCKED" => ~signal_pending(p)

\* signal.h: "the old one comes back when a handler returns, or with
\* signal_mask_restore if none ran": in user mode the mask outside every
\* handler is the one the program set, or the one the outermost frame puts
\* back; the temporary mask of sigsuspend or ppoll never stays.
MaskComesBack ==
    \A p \in Pid : pc[p] = "user" =>
        /\ saved[p] = NULL
        /\ base[p] = IF frames[p] = <<>> THEN blocked[p] ELSE frames[p][1]

\* signal.c: "init only gets signals it has asked for": a signal that
\* signal_deliver() would act on for init is one that init has a handler for.
InitGetsOnlyAsked ==
    \A n \in pending[INIT] \ blocked[INIT] :
        sigact[INIT][n].handler = "DFL" => default_ignored(n)

\* scheduler.c: round-robin within a priority: a user process that is ready
\* gets the CPU, whatever the others do with theirs.
ReadyRuns ==
    \A p \in Pid \ {IDLE} : sched.state[p] = "READY" ~> (sched.state[p] = "RUNNING" \/ panic)

\* signal.c: a SIGKILL that was accepted ends the process, be it asleep in
\* any call, preempted, or in a handler.
KilledDies ==
    \A p \in Pid \ {IDLE} :
        SIGKILL \in pending[p] ~> (sched.state[p] \in {"TERMINATED", "FREE"} \/ panic)
=============================================================================
