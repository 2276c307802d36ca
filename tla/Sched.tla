------------------------------- MODULE Sched -------------------------------
(***************************************************************************)
(* The scheduler of src/kernel/proc/scheduler.c as operators on its state. *)
(*                                                                         *)
(* A scheduler state s is a record:                                        *)
(*   s.state    process_t.state of every process, "FREE" when there is no  *)
(*              process_t for that pid (not forked yet, or reaped)         *)
(*   s.ready    the ready queues, ready_head/ready_tail, head first        *)
(*   s.current  the process on the CPU, NULL before scheduler_start()      *)
(*   s.chan     process_t.wait_chan                                        *)
(*   s.ticks    process_t.ticks_left                                       *)
(*                                                                         *)
(* Each C function is an operator from the state before the call to the    *)
(* state after it, so that a handler that makes several calls is their     *)
(* composition, in the order of the code.  A process is its pid: pids come *)
(* from a counter that only grows (the wrap of its 32 bits is not          *)
(* modelled), so all_procs, which process_alloc() extends at the head, is  *)
(* always in descending order of pid and need not be stored.               *)
(***************************************************************************)
EXTENDS Integers, Sequences, FiniteSets

CONSTANTS NUM_SCHED_QUEUES,  \* 16 in process.h
          PRIO_USER,         \* 8 in process.h; forked children inherit it
          MaxPid,            \* bound: pids are 0 .. MaxPid
          Jiffies,           \* the channel &jiffies
          Io,                \* the channel of a pipe, socket or terminal; one stands for all
          NULL

IDLE == 0                    \* kernel_main() creates the idle process first
INIT == 1                    \* ... and then init

Pid == 0 .. MaxPid
Chan == Pid \cup {Jiffies, Io}   \* a process_t is a channel too

ASSUME SchedAssumption ==
    /\ NUM_SCHED_QUEUES \in Nat /\ PRIO_USER \in Nat
    /\ PRIO_USER < NUM_SCHED_QUEUES - 1
    /\ MaxPid \in Nat /\ MaxPid >= INIT
    /\ NULL \notin Chan

PRIO_IDLE == NUM_SCHED_QUEUES - 1
Queues == 0 .. NUM_SCHED_QUEUES - 1

Prio(p) == IF p = IDLE THEN PRIO_IDLE ELSE PRIO_USER

default_quantum_for_priority(q) == 2 + q

Quantum(p) == default_quantum_for_priority(Prio(p))

ProcessState == {"FREE", "READY", "RUNNING", "BLOCKED", "TERMINATED"}

SchedState == [state   : [Pid -> ProcessState],
               ready   : [Queues -> Seq(Pid)],
               current : Pid \cup {NULL},
               chan    : [Pid -> Chan \cup {NULL}],
               ticks   : [Pid -> Nat]]

(***************************************************************************)
(* The processes of S in the order of all_procs: newest, so highest pid,   *)
(* first.  The i-th is the one that has i members of S at or above it.     *)
(***************************************************************************)
Rank(S, p) == Cardinality({r \in S : r >= p})

ListOrder(S) == [i \in 1 .. Cardinality(S) |-> CHOOSE p \in S : Rank(S, p) = i]

-----------------------------------------------------------------------------
\* Mutant: the process goes to the head of its queue.
queue_push_front(s, p) == [s EXCEPT !.ready[Prio(p)] = <<p>> \o @]

queue_push_back(s, p) == [s EXCEPT !.ready[Prio(p)] = Append(@, p)]

NonEmpty(s) == {q \in Queues : s.ready[q] # <<>>}

\* The queue pick_next() takes from: strict priority, lowest number first.
Best(s) == CHOOSE q \in NonEmpty(s) : \A r \in NonEmpty(s) : q <= r

(***************************************************************************)
(* scheduler_yield(): the front of the best queue gets the CPU; the        *)
(* previous process goes to the back of its queue only if it is still      *)
(* RUNNING.  With nothing ready the caller keeps the CPU, whatever its     *)
(* state.  The next process is taken out before the previous one goes in.  *)
(***************************************************************************)
pick_next(s) == [s EXCEPT !.ready[Best(s)] = Tail(@)]

\* Mutant: the previous process is made ready whatever its state is.
RequeueAlways(s, p) ==
    queue_push_back([s EXCEPT !.state[p] = "READY", !.ticks[p] = Quantum(p)], p)

Requeue(s, p) ==
    IF s.state[p] = "RUNNING"
    THEN queue_push_back([s EXCEPT !.state[p] = "READY", !.ticks[p] = Quantum(p)], p)
    ELSE s

Run(s, p) == [s EXCEPT !.state[p] = "RUNNING", !.current = p]

scheduler_yield(s) ==
    IF NonEmpty(s) = {}
    THEN s
    ELSE Run(Requeue(pick_next(s), s.current), Head(s.ready[Best(s)]))

scheduler_start(s) == Run(pick_next(s), Head(s.ready[Best(s)]))

scheduler_tick(s) ==
    LET p    == s.current
        aged == [s EXCEPT !.ticks[p] = IF @ > 0 THEN @ - 1 ELSE 0]
    IN  IF aged.ticks[p] = 0 THEN scheduler_yield(aged) ELSE aged

sleep_on(s, c) ==
    scheduler_yield([s EXCEPT !.chan[s.current] = c, !.state[s.current] = "BLOCKED"])

(***************************************************************************)
(* Waking: every BLOCKED process of W becomes READY and goes to the back   *)
(* of its queue, in the order of all_procs.                                *)
(***************************************************************************)
Wake(s, W) ==
    LET woken == {p \in W : s.state[p] = "BLOCKED"}
    IN  [s EXCEPT !.state = [p \in Pid |-> IF p \in woken THEN "READY" ELSE @[p]],
                  !.chan  = [p \in Pid |-> IF p \in woken THEN NULL ELSE @[p]],
                  !.ready = [q \in Queues |->
                               @[q] \o ListOrder({p \in woken : Prio(p) = q})]]

wakeup(s, c) == Wake(s, {p \in Pid : s.chan[p] = c})

-----------------------------------------------------------------------------
(***************************************************************************)
(* What every call of the scheduler relies on and re-establishes.          *)
(***************************************************************************)
\* The sequence a holds the members of S, each once.
Enumerates(a, S) ==
    /\ a \in Seq(Pid)
    /\ \A i \in 1 .. Len(a) : a[i] \in S
    /\ \A i, j \in 1 .. Len(a) : a[i] = a[j] => i = j
    /\ \A p \in S : \E i \in 1 .. Len(a) : a[i] = p

ReadyAt(s, q) == {p \in Pid : s.state[p] = "READY" /\ Prio(p) = q}

\* The queues hold exactly the READY processes, each once, by priority.
QueuesHoldReady(s) == \A q \in Queues : Enumerates(s.ready[q], ReadyAt(s, q))

\* A process sleeps on a channel exactly while it is BLOCKED.
SleepersHaveChannel(s) == \A p \in Pid : (s.state[p] = "BLOCKED") <=> (s.chan[p] # NULL)

\* The idle process is always runnable, so there is always one to pick.
IdleRunnable(s) == s.state[IDLE] \in {"READY", "RUNNING"}

\* Only the current process is RUNNING.
RunningIsCurrent(s) == \A p \in Pid : s.state[p] = "RUNNING" => p = s.current

\* Inside a call the current process may already be BLOCKED or TERMINATED ...
InCall(s) == /\ s \in SchedState
             /\ QueuesHoldReady(s)
             /\ SleepersHaveChannel(s)
             /\ IdleRunnable(s)
             /\ RunningIsCurrent(s)

\* ... but between calls whoever is on the CPU is RUNNING.
Consistent(s) == InCall(s) /\ (s.current # NULL => s.state[s.current] = "RUNNING")
=============================================================================
