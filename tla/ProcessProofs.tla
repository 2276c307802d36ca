---------------------------- MODULE ProcessProofs ----------------------------
(***************************************************************************)
(* Theorems about module Process, for any number of processes, queues and  *)
(* signals: its types, the consistency of the scheduler, that every        *)
(* process has a living parent, and that groups stay in one session.       *)
(***************************************************************************)
EXTENDS Process, SchedProofs

-----------------------------------------------------------------------------
(***************************************************************************)
(* The inductive invariant.  Only the idle process is ever in its loop, so *)
(* it is never the one that sleeps or exits, and there is always a process *)
(* to switch to; a pid that was not given out yet is FREE, so fork never   *)
(* puts a process into a queue it is already in; init does not die, so it  *)
(* can inherit the orphans.  A group is named by a pid that was given out, *)
(* and is in the session of the process with that pid while there is one:  *)
(* so a new group, or a new session, never meets an old group's name.      *)
(***************************************************************************)
IdleInLoop == pc[IDLE] \in {"loop", "halt"}
FreshAreFree == \A p \in Pid : p >= next_pid => sched.state[p] = "FREE"
InitAlive == is_user(INIT)

GroupsKnown == \A p \in Pid : is_user(p) => pgid[p] < next_pid
GroupWithLeader ==
    \A p, q \in Pid : (is_user(p) /\ is_user(q) /\ pgid[q] = p) => sid[q] = sid[p]

Inv == /\ TypeOK /\ SchedConsistent /\ IdleInLoop /\ FreshAreFree /\ InitAlive /\ ParentAlive
       /\ GroupInOneSession /\ GroupsKnown /\ GroupWithLeader

\* The pids and channels that the code names are there and differ from NULL.
LEMMA Constants ==
    /\ IDLE \in Pid /\ INIT \in Pid /\ IDLE # INIT
    /\ NULL \notin Pid /\ Pid \in SUBSET Chan /\ Jiffies \in Chan /\ Io \in Chan
    /\ SIGCHLD \in Sigs
BY SchedAssumption, ProcessAssumption DEF IDLE, INIT, Pid, Chan

\* The scheduler's calls keep the facts about the family of processes.
LEMMA FamilyKept ==
    ASSUME Inv, SameLife(sched, sched'), UNCHANGED <<next_pid, ppid>>
    PROVE  FreshAreFree' /\ InitAlive' /\ ParentAlive'
<1>1. ppid \in [Pid -> Pid]
    BY DEF Inv, TypeOK
<1>2. FreshAreFree'
    BY DEF Inv, FreshAreFree, SameLife
<1>3. InitAlive'
    BY Constants DEF Inv, InitAlive, is_user, SameLife
<1>4. ParentAlive'
    BY <1>1 DEF Inv, ParentAlive, exists, is_user, SameLife
<1> QED
    BY <1>2, <1>3, <1>4

\* A step after which the user processes are among those before, each in its
\* group and session, keeps the facts about groups.
LEMMA GroupsKept ==
    ASSUME Inv, next_pid' \in Int, next_pid <= next_pid',
           \A p \in Pid : is_user(p)' => is_user(p) /\ pgid'[p] = pgid[p] /\ sid'[p] = sid[p]
    PROVE  GroupInOneSession' /\ GroupsKnown' /\ GroupWithLeader'
<1>1. GroupInOneSession' /\ GroupWithLeader'
    BY DEF Inv, GroupInOneSession, GroupWithLeader
<1>2. GroupsKnown'
    <2> SUFFICES ASSUME NEW p \in Pid, is_user(p)'
                 PROVE  pgid'[p] < next_pid'
        BY DEF GroupsKnown
    <2>1. pgid[p] < next_pid /\ pgid'[p] = pgid[p]
        BY DEF Inv, GroupsKnown
    <2>2. pgid[p] \in Nat /\ next_pid \in Int
        BY DEF Inv, TypeOK
    <2> QED
        BY <2>1, <2>2
<1> QED
    BY <1>1, <1>2

\* In particular one that starts and ends no process and leaves groups alone.
LEMMA GroupsSame ==
    ASSUME Inv, SameLife(sched, sched'), UNCHANGED <<next_pid, pgid, sid>>
    PROVE  GroupInOneSession' /\ GroupsKnown' /\ GroupWithLeader'
<1>1. next_pid' \in Int /\ next_pid <= next_pid'
    BY DEF Inv, TypeOK
<1>2. \A p \in Pid : is_user(p)' => is_user(p) /\ pgid'[p] = pgid[p] /\ sid'[p] = sid[p]
    BY DEF SameLife, is_user
<1> QED
    BY <1>1, <1>2, GroupsKept

\* Who makes a call is a user process on the CPU.
LEMMA Caller ==
    ASSUME Inv, NEW where \in PcValue \ {"loop", "halt"}, Running(where)
    PROVE  me \in Pid \ {IDLE} /\ sched.state[me] = "RUNNING" /\ sched.chan[me] = NULL
<1>1. me \in Pid
    BY DEF Inv, TypeOK, SchedState, Running, me
<1>2. me # IDLE
    BY DEF Inv, IdleInLoop, Running
<1> QED
    BY <1>1, <1>2 DEF Running, Inv, SchedConsistent, Consistent, InCall, SleepersHaveChannel

-----------------------------------------------------------------------------
(* Calls that leave the scheduler and the family alone. *)

\* A step that touches neither scheduler, pid counter nor family keeps the invariant
\* if it keeps the types.
LEMMA Quiet ==
    ASSUME Inv, UNCHANGED <<sched, next_pid, ppid, pgid, sid>>, TypeOK', IdleInLoop'
    PROVE  Inv'
<1>1. SameLife(sched, sched')
    BY DEF SameLife
<1> QED
    BY <1>1, FamilyKept, GroupsSame DEF Inv, SchedConsistent

\* Moving the caller on within the kernel or back to user mode leaves the idle loop alone.
LEMMA GotoType ==
    ASSUME Inv, NEW where \in PcValue, me \in Pid, Goto(where),
           me = IDLE => where \in {"loop", "halt"}
    PROVE  pc' \in [Pid -> PcValue] /\ IdleInLoop'
BY Constants DEF Inv, TypeOK, Goto, IdleInLoop

\* sys_rt_sigaction() keeps the invariant.
LEMMA SigactionInv == Inv /\ Sigaction => Inv'
<1> SUFFICES ASSUME Inv, Sigaction PROVE Inv'
    OBVIOUS
<1>1. me \in Pid \ {IDLE}
    BY Caller DEF Sigaction, Calling, PcValue
<1>2. pc' \in [Pid -> PcValue] /\ IdleInLoop'
    BY <1>1, GotoType DEF Sigaction, PcValue
<1>3. PICK n \in Sigs \ UNBLOCKABLE, a \in SigActs :
         LET act == [a EXCEPT !.mask = @ \ UNBLOCKABLE]
         IN  /\ sigact' = [sigact EXCEPT ![me][n] = act]
             /\ pending' = [pending EXCEPT
                              ![me] = IF discarded(me, n, act) THEN @ \ {n} ELSE @]
    BY ZenonT(40) DEF Sigaction
<1>4. [a EXCEPT !.mask = @ \ UNBLOCKABLE] \in SigAction
    BY ProcessAssumption DEF SigAction
<1>5. sigact' \in [Pid -> [Sigs -> SigAction]] /\ pending' \in [Pid -> SUBSET Sigs]
    BY <1>1, <1>3, <1>4 DEF Inv, TypeOK
<1>6. TypeOK'
    BY <1>2, <1>5 DEF Inv, TypeOK, Sigaction, famVars, maskVars
<1> QED
    BY <1>2, <1>6, Quiet DEF Sigaction, famVars

\* sys_rt_sigprocmask() keeps the invariant: UNBLOCKABLE never enters the mask.
LEMMA SigprocmaskInv == Inv /\ Sigprocmask => Inv'
<1> SUFFICES ASSUME Inv, Sigprocmask PROVE Inv'
    OBVIOUS
<1>1. me \in Pid \ {IDLE}
    BY Caller DEF Sigprocmask, Calling, PcValue
<1>2. pc' \in [Pid -> PcValue] /\ IdleInLoop'
    BY <1>1, GotoType DEF Sigprocmask, PcValue
<1>3. PICK m \in Masks : \E new \in {blocked[me] \cup m, blocked[me] \ m, m} :
          /\ blocked' = [blocked EXCEPT ![me] = new \ UNBLOCKABLE]
          /\ base' = IF frames[me] = <<>> THEN [base EXCEPT ![me] = new \ UNBLOCKABLE]
                                          ELSE base
    BY ZenonT(40) DEF Sigprocmask
<1>4. PICK new \in {blocked[me] \cup m, blocked[me] \ m, m} :
          /\ blocked' = [blocked EXCEPT ![me] = new \ UNBLOCKABLE]
          /\ base' = IF frames[me] = <<>> THEN [base EXCEPT ![me] = new \ UNBLOCKABLE]
                                          ELSE base
    BY <1>3, ZenonT(40)
<1>5. new \ UNBLOCKABLE \in Mask
    BY <1>1, ProcessAssumption, ZenonT(40) DEF Inv, TypeOK, Mask
<1>6. /\ blocked' \in [Pid -> Mask]
      /\ base' \in [Pid -> Mask]
    BY <1>1, <1>4, <1>5 DEF Inv, TypeOK
<1>7. TypeOK'
    BY <1>2, <1>6 DEF Inv, TypeOK, Sigprocmask, famVars
<1> QED
    BY <1>2, <1>7, Quiet DEF Sigprocmask, famVars

\* sys_rt_sigreturn() keeps the invariant: the popped frame holds a mask.
LEMMA SigreturnInv == Inv /\ Sigreturn => Inv'
<1> SUFFICES ASSUME Inv, Sigreturn PROVE Inv'
    OBVIOUS
<1> DEFINE top == Len(frames[me])
<1>1. me \in Pid \ {IDLE}
    BY Caller DEF Sigreturn, PcValue
<1>2. pc' \in [Pid -> PcValue] /\ IdleInLoop'
    BY <1>1, GotoType DEF Sigreturn, PcValue
<1>3. frames[me] \in Seq(Mask) /\ frames[me] # <<>>
    BY <1>1 DEF Inv, TypeOK, Sigreturn
<1>4. top \in Nat /\ top \in 1 .. top /\ frames[me][top] \in Mask
    BY <1>3
<1>5. SubSeq(frames[me], 1, top - 1) \in Seq(Mask)
    <2>1. \A i \in 1 .. top - 1 : frames[me][i] \in Mask
        BY <1>3, <1>4
    <2> QED
        BY <1>4, <2>1, SubSeqProperties
<1>6. /\ blocked' = [blocked EXCEPT ![me] = frames[me][top] \ UNBLOCKABLE]
      /\ frames' = [frames EXCEPT ![me] = SubSeq(frames[me], 1, top - 1)]
    BY DEF Sigreturn
<1>7. blocked' \in [Pid -> Mask]
    BY <1>1, <1>4, <1>6 DEF Inv, TypeOK, Mask
<1>8. frames' \in [Pid -> Seq(Mask)]
    BY <1>1, <1>5, <1>6 DEF Inv, TypeOK
<1>9. TypeOK'
    BY <1>2, <1>7, <1>8 DEF Inv, TypeOK, Sigreturn, famVars
<1> QED
    BY <1>2, <1>9, Quiet DEF Sigreturn, famVars

\* signal_mask_restore() leaves a mask behind.
LEMMA MaskRestoreType ==
    ASSUME Inv, me \in Pid, signal_mask_restore
    PROVE  /\ blocked' \in [Pid -> Mask]
           /\ saved' \in [Pid -> Mask \cup {NULL}]
<1>1. (IF saved[me] # NULL THEN saved[me] ELSE blocked[me]) \in Mask
    BY DEF Inv, TypeOK
<1> QED
    BY <1>1 DEF Inv, TypeOK, signal_mask_restore

\* signal_mask_temp() leaves a mask behind, and saves one.
LEMMA MaskTempType ==
    ASSUME Inv, me \in Pid, NEW m \in Masks, signal_mask_temp(m)
    PROVE  /\ blocked' \in [Pid -> Mask]
           /\ saved' \in [Pid -> Mask \cup {NULL}]
BY ProcessAssumption, ZenonT(40) DEF Inv, TypeOK, signal_mask_temp, Mask

\* signal_deliver() with nothing to act on keeps the invariant.
LEMMA DeliverNoneInv == Inv /\ DeliverNone => Inv'
<1> SUFFICES ASSUME Inv, DeliverNone PROVE Inv'
    OBVIOUS
<1>1. me \in Pid \ {IDLE}
    BY Caller DEF DeliverNone, PcValue
<1>2. pc' \in [Pid -> PcValue] /\ IdleInLoop'
    BY <1>1, GotoType DEF DeliverNone, PcValue
<1>3. /\ blocked' \in [Pid -> Mask]
      /\ saved' \in [Pid -> Mask \cup {NULL}]
    BY <1>1, MaskRestoreType DEF DeliverNone
<1>4. pending' \in [Pid -> SUBSET Sigs]
    BY <1>1 DEF DeliverNone, Inv, TypeOK
<1>5. TypeOK'
    BY <1>2, <1>3, <1>4 DEF Inv, TypeOK, DeliverNone, famVars
<1> QED
    BY <1>2, <1>5, Quiet DEF DeliverNone, famVars

\* signal_deliver() and setup_frame() keep the invariant.
LEMMA DeliverFrameInv == Inv /\ DeliverFrame => Inv'
<1> SUFFICES ASSUME Inv, DeliverFrame PROVE Inv'
    OBVIOUS
<1> DEFINE old == IF saved[me] # NULL THEN saved[me] ELSE blocked[me]
<1>1. me \in Pid \ {IDLE}
    BY Caller DEF DeliverFrame, PcValue
<1>2. pc' \in [Pid -> PcValue] /\ IdleInLoop'
    BY <1>1, GotoType DEF DeliverFrame, PcValue
<1>3. PICK n \in Taken :
          LET act == sigact[me][n]
              own == IF act.nodefer THEN {} ELSE {n}
          IN  /\ pending' = [pending EXCEPT
                               ![me] = {m \in pending[me] : m \in blocked[me] \/ m > n}]
              /\ frames' = [frames EXCEPT ![me] = Append(frames[me], old)]
              /\ blocked' = [blocked EXCEPT
                               ![me] = (old \cup act.mask \cup own) \ UNBLOCKABLE]
              /\ saved' = [saved EXCEPT ![me] = NULL]
              /\ sigact' = [sigact EXCEPT
                              ![me][n].handler = IF act.resethand THEN "DFL" ELSE @]
    BY ZenonT(40) DEF DeliverFrame
<1>4. n \in Sigs
    BY <1>1 DEF Taken, Deliverable, Inv, TypeOK
<1>5. sigact[me][n] \in SigAction
    BY <1>1, <1>4 DEF Inv, TypeOK
<1>6. old \in Mask /\ sigact[me][n].mask \in SUBSET Sigs
    BY <1>1, <1>5 DEF Inv, TypeOK, SigAction
<1>7. pending' \in [Pid -> SUBSET Sigs]
    BY <1>1, <1>3 DEF Inv, TypeOK
<1>8. frames' \in [Pid -> Seq(Mask)]
    <2>1. frames \in [Pid -> Seq(Mask)]
        BY DEF Inv, TypeOK
    <2>2. Append(frames[me], old) \in Seq(Mask)
        BY <1>1, <1>6, <2>1, AppendProperties
    <2> HIDE DEF old
    <2> QED
        BY <1>1, <1>3, <2>1, <2>2
<1>9. blocked' \in [Pid -> Mask]
    <2> DEFINE new == (old \cup sigact[me][n].mask
                       \cup (IF sigact[me][n].nodefer THEN {} ELSE {n})) \ UNBLOCKABLE
    <2>1. blocked \in [Pid -> Mask] /\ new \in Mask
        BY <1>4, <1>6 DEF Inv, TypeOK, Mask
    <2>2. blocked' = [blocked EXCEPT ![me] = new]
        BY <1>3
    <2> QED
        BY <1>1, <2>1, <2>2
<1>10. saved' \in [Pid -> Mask \cup {NULL}]
    BY <1>1, <1>3 DEF Inv, TypeOK
<1>11. sigact' \in [Pid -> [Sigs -> SigAction]]
    <2>1. [sigact[me][n] EXCEPT !.handler = IF sigact[me][n].resethand THEN "DFL" ELSE @]
             \in SigAction
        BY <1>5 DEF SigAction
    <2> QED
        BY <1>1, <1>3, <1>4, <2>1 DEF Inv, TypeOK
<1>12. TypeOK'
    BY <1>2, <1>7, <1>8, <1>9, <1>10, <1>11 DEF Inv, TypeOK, DeliverFrame, famVars
<1> QED
    BY <1>2, <1>12, Quiet DEF DeliverFrame, famVars

\* sys_setpgid() keeps the invariant.
LEMMA SetpgidInv == Inv /\ Setpgid => Inv'
<1> SUFFICES ASSUME Inv, Setpgid PROVE Inv'
    OBVIOUS
<1>1. me \in Pid \ {IDLE}
    BY Caller DEF Setpgid, Calling, PcValue
<1>2. pc' \in [Pid -> PcValue] /\ IdleInLoop'
    BY <1>1, GotoType DEF Setpgid, PcValue
<1>3. Groups \in SUBSET Nat /\ Pid \in SUBSET Nat
    BY ProcessAssumption, SchedAssumption DEF Pid
<1>4. pgid' \in [Pid -> Nat]
    BY <1>3 DEF Setpgid, Inv, TypeOK
<1>5. TypeOK'
    BY <1>2, <1>4 DEF Inv, TypeOK, Setpgid, maskVars
<1>6. PICK p \in Pid, new \in Nat :
         /\ exists(p) /\ sid[p] = sid[me]
         /\ new = p \/ group_exists(new, sid[me])
         /\ pgid' = [pgid EXCEPT ![p] = new]
    BY <1>3, ZenonT(40) DEF Setpgid
<1>7. /\ UNCHANGED <<sched, next_pid, ppid, sid>> /\ SameLife(sched, sched')
      /\ \A q \in Pid : is_user(q)' <=> is_user(q)
    BY DEF Setpgid, SameLife, is_user
<1>8. pgid'[p] = new /\ \A q \in Pid : q # p => pgid'[q] = pgid[q]
    BY <1>6 DEF Inv, TypeOK
<1>9. /\ \A q \in Pid : is_user(q) /\ is_user(p) /\ pgid[q] = new => sid[q] = sid[p]
      /\ is_user(new) /\ is_user(p) /\ new \in Pid => sid[new] = sid[p]
      /\ new < next_pid
    <2>1. CASE new = p
        <3>1. sched.state[p] # "FREE"
            BY <1>6 DEF exists
        <3>2. p < next_pid
            BY <1>3, <3>1 DEF Inv, TypeOK, FreshAreFree
        <3> QED
            BY <2>1, <3>2 DEF Inv, GroupWithLeader
    <2>2. CASE group_exists(new, sid[me])
        <3>1. PICK x \in Pid : is_user(x) /\ pgid[x] = new /\ sid[x] = sid[p]
            BY <1>6, <2>2 DEF group_exists
        <3> QED
            BY <3>1 DEF Inv, GroupInOneSession, GroupWithLeader, GroupsKnown
    <2> QED
        BY <1>6, <2>1, <2>2
<1>10. GroupInOneSession' /\ GroupsKnown' /\ GroupWithLeader'
    <2>1. GroupInOneSession'
        BY <1>7, <1>8, <1>9 DEF Inv, GroupInOneSession
    <2>2. GroupsKnown'
        BY <1>7, <1>8, <1>9 DEF Inv, GroupsKnown
    <2>3. GroupWithLeader'
        BY <1>7, <1>8, <1>9 DEF Inv, GroupWithLeader
    <2> QED
        BY <2>1, <2>2, <2>3
<1> QED
    BY <1>2, <1>5, <1>7, <1>10, FamilyKept DEF Inv, SchedConsistent

\* sys_setsid() keeps the invariant.
LEMMA SetsidInv == Inv /\ Setsid => Inv'
<1> SUFFICES ASSUME Inv, Setsid PROVE Inv'
    OBVIOUS
<1>1. me \in Pid \ {IDLE}
    BY Caller DEF Setsid, Calling, PcValue
<1>2. pc' \in [Pid -> PcValue] /\ IdleInLoop'
    BY <1>1, GotoType DEF Setsid, PcValue
<1>3. Pid \in SUBSET Nat
    BY SchedAssumption DEF Pid
<1>4. pgid' \in [Pid -> Nat] /\ sid' \in [Pid -> Nat]
    BY <1>1, <1>3 DEF Setsid, Inv, TypeOK
<1>5. TypeOK'
    BY <1>2, <1>4 DEF Inv, TypeOK, Setsid, maskVars
<1>6. /\ UNCHANGED <<sched, next_pid, ppid>> /\ SameLife(sched, sched')
      /\ \A q \in Pid : is_user(q)' <=> is_user(q)
    BY DEF Setsid, SameLife, is_user
<1>7. /\ pgid'[me] = me /\ sid'[me] = me
      /\ \A q \in Pid : q # me => pgid'[q] = pgid[q] /\ sid'[q] = sid[q]
      /\ \A q \in Pid : is_user(q) => pgid[q] # me
    BY <1>1 DEF Setsid, Inv, TypeOK
<1>8. me < next_pid
    <2>1. sched.state[me] # "FREE"
        BY DEF Setsid, Calling, Running
    <2>2. me \in Nat /\ next_pid \in Int
        BY <1>1, <1>3 DEF Inv, TypeOK
    <2>3. me \in Pid /\ ~(me >= next_pid)
        BY <1>1, <2>1 DEF Inv, FreshAreFree
    <2> QED
        BY <2>2, <2>3
<1>9. GroupInOneSession' /\ GroupsKnown' /\ GroupWithLeader'
    <2>1. GroupInOneSession'
        BY <1>1, <1>6, <1>7 DEF Inv, GroupInOneSession
    <2>2. GroupsKnown'
        BY <1>1, <1>6, <1>7, <1>8 DEF Inv, GroupsKnown
    <2>3. GroupWithLeader'
        BY <1>1, <1>6, <1>7 DEF Inv, GroupWithLeader
    <2> QED
        BY <2>1, <2>2, <2>3
<1> QED
    BY <1>2, <1>5, <1>6, <1>9, FamilyKept DEF Inv, SchedConsistent

\* A call that changes nothing here keeps the invariant.
LEMMA OtherCallInv == Inv /\ OtherCall => Inv'
<1> SUFFICES ASSUME Inv, OtherCall PROVE Inv'
    OBVIOUS
<1>1. me \in Pid \ {IDLE}
    BY Caller DEF OtherCall, PcValue
<1>2. pc' \in [Pid -> PcValue] /\ IdleInLoop'
    BY <1>1, GotoType DEF OtherCall, PcValue
<1>3. TypeOK'
    BY <1>2 DEF Inv, TypeOK, OtherCall, famVars, maskVars
<1> QED
    BY <1>2, <1>3, Quiet DEF OtherCall, famVars

-----------------------------------------------------------------------------
(* Calls that sleep or wake. *)

\* A step that gives the CPU to another process, and makes no process and ends none,
\* keeps the invariant if it keeps the types.
LEMMA Switched ==
    ASSUME Inv, Consistent(sched'), SameLife(sched, sched'),
           UNCHANGED <<next_pid, ppid, pgid, sid>>, TypeOK', IdleInLoop'
    PROVE  Inv'
BY FamilyKept, GroupsSame DEF Inv, SchedConsistent

\* A call in a loop either leaves the scheduler alone or sleeps on a channel.
LEMMA SleepOrNot ==
    ASSUME Inv, me \in Pid \ {IDLE}, NEW ch \in Chan,
           sched' = sched \/ sched' = sleep_on(sched, ch)
    PROVE  Consistent(sched') /\ SameLife(sched, sched') /\ sched' \in SchedState
<1>1. CASE sched' = sched
    BY <1>1 DEF Inv, SchedConsistent, Consistent, InCall, SameLife
<1>2. CASE sched' = sleep_on(sched, ch)
    BY <1>2, SleepConsistent DEF Inv, SchedConsistent, Consistent, InCall, me
<1> QED
    BY <1>1, <1>2

\* One pass of the loop of pause: the caller sleeps on itself, or does not sleep.
LEMMA PauseLoopType ==
    ASSUME Inv, me \in Pid \ {IDLE}, NEW mask, pause_loop(mask)
    PROVE  /\ Consistent(sched') /\ SameLife(sched, sched') /\ sched' \in SchedState
           /\ pc' \in [Pid -> PcValue] /\ IdleInLoop'
<1>1. sched' = sched \/ sched' = sleep_on(sched, me)
    BY DEF pause_loop
<1>2. Goto("ret") \/ Goto("pause")
    BY DEF pause_loop
<1>3. me \in Chan
    BY Constants
<1> QED
    BY <1>1, <1>2, <1>3, SleepOrNot, GotoType DEF PcValue

\* sys_pause() and sys_rt_sigsuspend() keep the invariant.
LEMMA PausesInv == Inv /\ (Pause \/ Sigsuspend \/ PauseAgain) => Inv'
<1>1. ASSUME Inv, Pause PROVE Inv'
    <2>1. me \in Pid \ {IDLE}
        BY <1>1, Caller DEF Pause, Calling, PcValue
    <2>2. /\ Consistent(sched') /\ SameLife(sched, sched') /\ sched' \in SchedState
          /\ pc' \in [Pid -> PcValue] /\ IdleInLoop'
        BY <1>1, <2>1, PauseLoopType DEF Pause
    <2>3. TypeOK'
        BY <1>1, <2>2 DEF Pause, Inv, TypeOK, famVars, maskVars
    <2> QED
        BY <1>1, <2>2, <2>3, Switched DEF Pause, famVars
<1>2. ASSUME Inv, PauseAgain PROVE Inv'
    <2>1. me \in Pid \ {IDLE}
        BY <1>2, Caller DEF PauseAgain, PcValue
    <2>2. /\ Consistent(sched') /\ SameLife(sched, sched') /\ sched' \in SchedState
          /\ pc' \in [Pid -> PcValue] /\ IdleInLoop'
        BY <1>2, <2>1, PauseLoopType DEF PauseAgain
    <2>3. TypeOK'
        BY <1>2, <2>2 DEF PauseAgain, Inv, TypeOK, famVars, maskVars
    <2> QED
        BY <1>2, <2>2, <2>3, Switched DEF PauseAgain, famVars
<1>3. ASSUME Inv, Sigsuspend PROVE Inv'
    <2>1. me \in Pid \ {IDLE}
        BY <1>3, Caller DEF Sigsuspend, Calling, PcValue
    <2>2. PICK m \in Masks : signal_mask_temp(m) /\ pause_loop(m \ UNBLOCKABLE)
        BY <1>3 DEF Sigsuspend
    <2>3. /\ Consistent(sched') /\ SameLife(sched, sched') /\ sched' \in SchedState
          /\ pc' \in [Pid -> PcValue] /\ IdleInLoop'
        BY <1>3, <2>1, <2>2, PauseLoopType
    <2>4. blocked' \in [Pid -> Mask] /\ saved' \in [Pid -> Mask \cup {NULL}]
        BY <1>3, <2>1, <2>2, MaskTempType
    <2>5. TypeOK'
        BY <1>3, <2>3, <2>4 DEF Sigsuspend, Inv, TypeOK, famVars
    <2> QED
        BY <1>3, <2>3, <2>5, Switched DEF Sigsuspend, famVars
<1> QED
    BY <1>1, <1>2, <1>3

\* One pass of the loop of a blocking call: the caller sleeps on its channel, or does not.
LEMMA BlockLoopType ==
    ASSUME Inv, me \in Pid \ {IDLE}, NEW call \in {"io", "nap", "poll"}, NEW mask,
           block_loop(call, mask) \/ (Goto("ret") /\ UNCHANGED sched)
    PROVE  /\ Consistent(sched') /\ SameLife(sched, sched') /\ sched' \in SchedState
           /\ pc' \in [Pid -> PcValue] /\ IdleInLoop'
<1>1. sched' = sched \/ sched' = sleep_on(sched, ChanOf(call))
    BY DEF block_loop
<1>2. Goto("ret") \/ Goto(call)
    BY DEF block_loop
<1>3. ChanOf(call) \in Chan
    BY Constants DEF ChanOf
<1>4. pc' \in [Pid -> PcValue] /\ IdleInLoop'
    BY <1>2, GotoType DEF PcValue
<1> QED
    BY <1>1, <1>3, <1>4, SleepOrNot

\* The blocking calls and sys_ppoll() keep the invariant.
LEMMA BlocksInv == Inv /\ (Block \/ BlockAgain \/ Ppoll \/ PpollAgain) => Inv'
<1>1. ASSUME Inv, Block \/ BlockAgain PROVE Inv'
    <2>1. PICK call \in {"io", "nap"} :
             /\ Running("user") \/ Running(call)
             /\ block_loop(call, blocked[me]) \/ (Goto("ret") /\ UNCHANGED sched)
        BY <1>1 DEF Block, BlockAgain, Calling
    <2>2. me \in Pid \ {IDLE}
        BY <1>1, <2>1, Caller DEF PcValue
    <2>3. /\ Consistent(sched') /\ SameLife(sched, sched') /\ sched' \in SchedState
          /\ pc' \in [Pid -> PcValue] /\ IdleInLoop'
        BY <1>1, <2>1, <2>2, BlockLoopType
    <2>4. UNCHANGED <<famVars, arg, sigact, pending, maskVars, panic>>
        BY <1>1 DEF Block, BlockAgain
    <2>5. TypeOK'
        BY <1>1, <2>3, <2>4 DEF Inv, TypeOK, famVars, maskVars
    <2> QED
        BY <1>1, <2>3, <2>4, <2>5, Switched DEF famVars
<1>2. ASSUME Inv, Ppoll PROVE Inv'
    <2>1. me \in Pid \ {IDLE}
        BY <1>2, Caller DEF Ppoll, Calling, PcValue
    <2>2. PICK m \in Masks : signal_mask_temp(m) /\ block_loop("poll", m \ UNBLOCKABLE)
        BY <1>2, ZenonT(40) DEF Ppoll
    <2>3. /\ Consistent(sched') /\ SameLife(sched, sched') /\ sched' \in SchedState
          /\ pc' \in [Pid -> PcValue] /\ IdleInLoop'
        BY <1>2, <2>1, <2>2, BlockLoopType
    <2>4. blocked' \in [Pid -> Mask] /\ saved' \in [Pid -> Mask \cup {NULL}]
        BY <1>2, <2>1, <2>2, MaskTempType
    <2>5. TypeOK'
        BY <1>2, <2>3, <2>4 DEF Ppoll, Inv, TypeOK, famVars
    <2> QED
        BY <1>2, <2>3, <2>5, Switched DEF Ppoll, famVars
<1>3. ASSUME Inv, PpollAgain PROVE Inv'
    <2>1. me \in Pid \ {IDLE}
        BY <1>3, Caller DEF PpollAgain, PcValue
    <2>2. \/ block_loop("poll", blocked[me]) /\ UNCHANGED <<blocked, saved>>
          \/ Goto("ret") /\ signal_mask_restore /\ UNCHANGED sched
        BY <1>3 DEF PpollAgain
    <2>3. /\ Consistent(sched') /\ SameLife(sched, sched') /\ sched' \in SchedState
          /\ pc' \in [Pid -> PcValue] /\ IdleInLoop'
        BY <1>3, <2>1, <2>2, BlockLoopType
    <2>4. blocked' \in [Pid -> Mask] /\ saved' \in [Pid -> Mask \cup {NULL}]
        BY <1>3, <2>1, <2>2, MaskRestoreType, ZenonT(40) DEF Inv, TypeOK
    <2>5. TypeOK'
        BY <1>3, <2>3, <2>4 DEF PpollAgain, Inv, TypeOK, famVars
    <2> QED
        BY <1>3, <2>3, <2>5, Switched DEF PpollAgain, famVars
<1> QED
    BY <1>1, <1>2, <1>3

\* close_fds() and the other calls that only wake.
LEMMA CloseFdsConsistent ==
    ASSUME NEW s, Consistent(s), NEW wakes \in BOOLEAN
    PROVE  LET t == close_fds(s, wakes)
           IN  Consistent(t) /\ SameLife(s, t) /\ t.current = s.current
BY WakeupConsistent DEF close_fds, SameLife

\* A call that wakes sleepers, and process_execve(), keep the invariant.
LEMMA WakersInv == Inv /\ (IoWakeup \/ Execve) => Inv'
<1>1. ASSUME Inv, IoWakeup PROVE Inv'
    <2>1. me \in Pid \ {IDLE}
        BY <1>1, Caller DEF IoWakeup, Calling, PcValue
    <2>2. pc' \in [Pid -> PcValue] /\ IdleInLoop'
        BY <1>1, <2>1, GotoType DEF IoWakeup, PcValue
    <2>3. Consistent(sched') /\ SameLife(sched, sched')
        BY <1>1, WakeupConsistent DEF IoWakeup, Inv, SchedConsistent
    <2>4. TypeOK'
        BY <1>1, <2>2, <2>3 DEF IoWakeup, Inv, TypeOK, famVars, maskVars, Consistent, InCall
    <2> QED
        BY <1>1, <2>2, <2>3, <2>4, Switched DEF IoWakeup, famVars
<1>2. ASSUME Inv, Execve PROVE Inv'
    <2>1. me \in Pid \ {IDLE}
        BY <1>2, Caller DEF Execve, Calling, PcValue
    <2>2. pc' \in [Pid -> PcValue] /\ IdleInLoop'
        BY <1>2, <2>1, GotoType DEF Execve, PcValue
    <2>3. Consistent(sched') /\ SameLife(sched, sched')
        BY <1>2, CloseFdsConsistent DEF Execve, Inv, SchedConsistent
    <2>4. NoAction \in SigAction
        BY DEF NoAction, SigAction
    <2>5. [n \in Sigs |-> IF sigact[me][n].handler = "IGN" THEN sigact[me][n] ELSE NoAction]
             \in [Sigs -> SigAction]
        BY <1>2, <2>1, <2>4 DEF Inv, TypeOK
    <2>6. sigact' \in [Pid -> [Sigs -> SigAction]]
        BY <1>2, <2>1, <2>5 DEF Execve, Inv, TypeOK
    <2>7. frames' \in [Pid -> Seq(Mask)] /\ base' \in [Pid -> Mask]
        BY <1>2, <2>1 DEF Execve, Inv, TypeOK
    <2>8. TypeOK'
        BY <1>2, <2>2, <2>3, <2>6, <2>7 DEF Execve, Inv, TypeOK, famVars, Consistent, InCall
    <2> QED
        BY <1>2, <2>2, <2>3, <2>8, Switched DEF Execve, famVars
<1> QED
    BY <1>1, <1>2

\* The timer and the device interrupts keep the invariant.
LEMMA InterruptsInv == Inv /\ (Tick \/ DeviceIrq) => Inv'
<1> SUFFICES ASSUME Inv, Tick \/ DeviceIrq PROVE Inv'
    OBVIOUS
<1>1. /\ Interruptible
      /\ UNCHANGED <<famVars, arg, sigact, pending, maskVars, panic>>
    BY DEF Tick, DeviceIrq
<1>2. me \in Pid
    BY <1>1 DEF Interruptible, Running, Inv, TypeOK, SchedState, me
<1>3. pc' \in [Pid -> PcValue] /\ IdleInLoop'
    <2>1. CASE Running("user") /\ Goto("ret")
        BY <2>1, Caller, GotoType DEF PcValue
    <2>2. CASE Goto("loop")
        BY <1>2, <2>2, GotoType DEF PcValue
    <2> QED
        BY <1>1, <2>1, <2>2 DEF Interruptible
<1>4. Consistent(sched') /\ SameLife(sched, sched')
    <2>1. CASE DeviceIrq
        BY <2>1, WakeupConsistent DEF DeviceIrq, Inv, SchedConsistent
    <2>2. CASE Tick
        <3> DEFINE s == wakeup(sched, Jiffies)
        <3>1. Consistent(s) /\ SameLife(sched, s) /\ s.current = me
            BY WakeupConsistent DEF Inv, SchedConsistent, me
        <3>2. sched' = scheduler_tick(s)
            BY <2>2 DEF Tick
        <3> HIDE DEF s
        <3>3. Consistent(sched') /\ SameLife(s, sched')
            BY <1>2, <3>1, <3>2, TickConsistent
        <3> QED
            BY <3>1, <3>3 DEF SameLife
    <2> QED
        BY <2>1, <2>2
<1>5. TypeOK'
    BY <1>1, <1>3, <1>4 DEF Inv, TypeOK, famVars, maskVars, Consistent, InCall
<1> QED
    BY <1>1, <1>3, <1>4, <1>5, Switched DEF famVars

\* The idle loop and scheduler_start() keep the invariant.
LEMMA StartsInv == Inv /\ (IdleYield \/ Start) => Inv'
<1>1. ASSUME Inv, IdleYield PROVE Inv'
    <2>1. me \in Pid
        BY <1>1 DEF IdleYield, Running, Inv, TypeOK, SchedState, me
    <2>2. pc' \in [Pid -> PcValue] /\ IdleInLoop'
        BY <1>1, <2>1, GotoType DEF IdleYield, PcValue
    <2>3. Consistent(sched') /\ SameLife(sched, sched')
        BY <1>1, <2>1, YieldConsistent DEF IdleYield, Inv, SchedConsistent, Consistent, me
    <2>4. TypeOK'
        BY <1>1, <2>2, <2>3 DEF IdleYield, Inv, TypeOK, famVars, maskVars, Consistent, InCall
    <2> QED
        BY <1>1, <2>2, <2>3, <2>4, Switched DEF IdleYield, famVars
<1>2. ASSUME Inv, Start PROVE Inv'
    <2>1. Consistent(sched') /\ SameLife(sched, sched')
        BY <1>2, StartConsistent DEF Start, Inv, SchedConsistent, Consistent, me
    <2>2. TypeOK' /\ IdleInLoop'
        BY <1>2, <2>1
        DEF Start, Inv, TypeOK, IdleInLoop, famVars, maskVars, Consistent, InCall
    <2> QED
        BY <1>2, <2>1, <2>2, Switched DEF Start, famVars
<1> QED
    BY <1>1, <1>2

-----------------------------------------------------------------------------
(* Sending signals. *)

Effect == [s : SchedState, pd : [Pid -> SUBSET Sigs]]

\* From effect e a chain of calls that only send and wake leads to effect f.
Leads(e, f) == /\ f \in Effect /\ InCall(f.s)
               /\ SameLife(e.s, f.s)
               /\ f.s.current = e.s.current
               /\ \A p \in Pid : e.s.state[p] = "RUNNING" => f.s.state[p] = "RUNNING"

\* Effects chain: what two calls of signal_send() or wakeup() do, their sequence does.
LEMMA LeadsOn ==
    ASSUME NEW e, NEW f, NEW g, Leads(e, f), Leads(f, g)
    PROVE  Leads(e, g)
BY DEF Leads, SameLife

\* signal_send() to any set of processes has an effect of the allowed kind.
LEMMA SendLeads ==
    ASSUME NEW e \in Effect, InCall(e.s), NEW T \in SUBSET Pid, NEW n \in Sigs
    PROVE  Leads(e, SendTo(e, T, n))
<1> DEFINE got == {p \in T : Accepts(e, p, n)}
           pd == [p \in Pid |-> IF p \in got THEN e.pd[p] \cup {n} ELSE e.pd[p]]
           W == {p \in got : pd[p] \ blocked[p] # {}}
           f == SendTo(e, T, n)
<1>1. pd \in [Pid -> SUBSET Sigs]
    BY DEF Effect
<1>2. W \in SUBSET Pid
    OBVIOUS
<1>3. f = [s |-> Wake(e.s, W), pd |-> pd]
    BY DEF SendTo
<1> HIDE DEF W, pd, f
<1>4. /\ InCall(Wake(e.s, W)) /\ SameLife(e.s, Wake(e.s, W))
      /\ Wake(e.s, W).current = e.s.current
      /\ \A p \in Pid : e.s.state[p] \in {"READY", "RUNNING"} =>
            Wake(e.s, W).state[p] = e.s.state[p]
    BY <1>2, WakeInCall
<1>5. f.s = Wake(e.s, W) /\ f \in Effect
    BY <1>1, <1>3, <1>4 DEF Effect, InCall
<1> QED
    BY <1>4, <1>5 DEF Leads, f

\* So has wakeup().
LEMMA WakeLeads ==
    ASSUME NEW e \in Effect, InCall(e.s), NEW ch
    PROVE  Leads(e, [e EXCEPT !.s = wakeup(@, ch)])
<1> DEFINE W == {p \in Pid : e.s.chan[p] = ch}
<1>1. /\ InCall(Wake(e.s, W)) /\ SameLife(e.s, Wake(e.s, W))
      /\ Wake(e.s, W).current = e.s.current
      /\ \A p \in Pid : e.s.state[p] \in {"READY", "RUNNING"} =>
            Wake(e.s, W).state[p] = e.s.state[p]
    BY WakeInCall
<1>2. wakeup(e.s, ch) = Wake(e.s, W)
    BY DEF wakeup
<1> HIDE DEF W
<1>3. Wake(e.s, W) \in SchedState
    BY <1>1 DEF InCall
<1>4. /\ [e EXCEPT !.s = wakeup(@, ch)] \in Effect
      /\ [e EXCEPT !.s = wakeup(@, ch)].s = Wake(e.s, W)
    BY <1>2, <1>3 DEF Effect
<1> QED
    BY <1>1, <1>4 DEF Leads

\* And so has telling a parent of its zombie.
LEMMA TellParentLeads ==
    ASSUME NEW e \in Effect, InCall(e.s), NEW p \in Pid
    PROVE  Leads(e, TellParent(e, p))
<1> DEFINE f == signal_send(e, p, SIGCHLD)
<1>1. Leads(e, f)
    BY Constants, SendLeads DEF signal_send
<1>2. Leads(f, [f EXCEPT !.s = wakeup(@, p)])
    <2> HIDE DEF f
    <2> QED
        BY <1>1, WakeLeads DEF Leads
<1>3. TellParent(e, p) = [f EXCEPT !.s = wakeup(@, p)]
    BY DEF TellParent
<1> HIDE DEF f
<1> QED
    BY <1>1, <1>2, <1>3, LeadsOn

\* The state a call starts from is such an effect.
LEMMA NowEffect ==
    ASSUME Inv
    PROVE  Now \in Effect /\ InCall(Now.s) /\ Now.s = sched /\ Now.pd = pending
BY DEF Now, Effect, Inv, TypeOK, SchedConsistent, Consistent

\* sys_kill() keeps the invariant.
LEMMA KillInv == Inv /\ Kill => Inv'
<1> SUFFICES ASSUME Inv, Kill PROVE Inv'
    OBVIOUS
<1>1. me \in Pid \ {IDLE} /\ sched.state[me] = "RUNNING"
    BY Caller DEF Kill, Calling, PcValue
<1>2. pc' \in [Pid -> PcValue] /\ IdleInLoop'
    BY <1>1, GotoType DEF Kill, PcValue
<1>3. PICK a \in Selectors, n \in Sigs :
         /\ sched' = SendTo(Now, KillTargets(a), n).s
         /\ pending' = SendTo(Now, KillTargets(a), n).pd
    BY DEF Kill, Send
<1>4. KillTargets(a) \in SUBSET Pid
    BY DEF KillTargets
<1>5. Leads(Now, SendTo(Now, KillTargets(a), n))
    BY <1>4, NowEffect, SendLeads
<1>6. /\ InCall(sched') /\ SameLife(sched, sched') /\ sched'.current = me
      /\ sched'.state[me] = "RUNNING" /\ pending' \in [Pid -> SUBSET Sigs]
    BY <1>1, <1>3, <1>5, NowEffect DEF Leads, Effect, me
<1>7. Consistent(sched')
    BY <1>6 DEF Consistent
<1>8. TypeOK'
    BY <1>2, <1>6 DEF Kill, Inv, TypeOK, famVars, maskVars, InCall
<1> QED
    BY <1>2, <1>6, <1>7, <1>8, Switched DEF Kill, famVars

\* So does a key that stands for a signal, whoever it interrupts.
LEMMA SignalIrqInv == Inv /\ SignalIrq => Inv'
<1> SUFFICES ASSUME Inv, SignalIrq PROVE Inv'
    OBVIOUS
<1>1. me \in Pid /\ sched.state[me] = "RUNNING"
    BY DEF SignalIrq, Interruptible, Running, Inv, TypeOK, SchedState, me
<1>2. pc' \in [Pid -> PcValue] /\ IdleInLoop'
    <2>1. CASE Running("user") /\ Goto("ret")
        BY <2>1, Caller, GotoType DEF PcValue
    <2>2. CASE Goto("loop")
        BY <1>1, <2>2, GotoType DEF PcValue
    <2> QED
        BY <2>1, <2>2 DEF SignalIrq, Interruptible
<1>3. PICK T \in SUBSET Pid, n \in Sigs : Send(T, n)
    BY Constants, ZenonT(40) DEF SignalIrq
<1>4. sched' = SendTo(Now, T, n).s /\ pending' = SendTo(Now, T, n).pd
    BY <1>3 DEF Send
<1>5. Leads(Now, SendTo(Now, T, n))
    BY NowEffect, SendLeads
<1>6. /\ InCall(sched') /\ SameLife(sched, sched') /\ sched'.current = me
      /\ sched'.state[me] = "RUNNING" /\ pending' \in [Pid -> SUBSET Sigs]
    BY <1>1, <1>4, <1>5, NowEffect DEF Leads, Effect, me
<1>7. Consistent(sched')
    BY <1>6 DEF Consistent
<1>8. TypeOK'
    BY <1>2, <1>6 DEF SignalIrq, Inv, TypeOK, famVars, maskVars, InCall
<1> QED
    BY <1>2, <1>6, <1>7, <1>8, Switched DEF SignalIrq, famVars

-----------------------------------------------------------------------------
(* exit *)

\* The caller becomes a zombie inside the call.
LEMMA TerminateInCall ==
    ASSUME NEW s, InCall(s), NEW c \in Pid \ {IDLE}, s.current = c, s.state[c] = "RUNNING"
    PROVE  LET t == [s EXCEPT !.state[c] = "TERMINATED"]
           IN  /\ InCall(t) /\ t.current = c
               /\ t.state = [s.state EXCEPT ![c] = "TERMINATED"]
<1> DEFINE t == [s EXCEPT !.state[c] = "TERMINATED"]
<1>1. s \in SchedState
    BY DEF InCall
<1>2. /\ t \in SchedState /\ t.ready = s.ready /\ t.current = c /\ t.chan = s.chan
      /\ t.state = [s.state EXCEPT ![c] = "TERMINATED"]
    BY <1>1, ZenonT(40) DEF SchedState, ProcessState
<1> HIDE DEF t
<1>3. \A p \in Pid : t.state[p] = IF p = c THEN "TERMINATED" ELSE s.state[p]
    BY <1>1, <1>2 DEF SchedState
<1>4. QueuesHoldReady(t)
    <2>1. \A q \in Queues : ReadyAt(t, q) = ReadyAt(s, q)
        BY <1>3 DEF ReadyAt
    <2> QED
        BY <1>2, <2>1 DEF InCall, QueuesHoldReady
<1>5. SleepersHaveChannel(t)
    BY <1>2, <1>3 DEF InCall, SleepersHaveChannel
<1>6. IdleRunnable(t) /\ RunningIsCurrent(t)
    BY <1>2, <1>3, Constants DEF InCall, IdleRunnable, RunningIsCurrent
<1>7. InCall(t)
    BY <1>2, <1>4, <1>5, <1>6 DEF InCall
<1> QED
    BY <1>2, <1>7 DEF t

\* What scheduler_exit() of any process but init leaves: its own state is the
\* only one that ends, and its children are init's.
LEMMA ExitEffect ==
    ASSUME Inv, me \in Pid \ {IDLE}, sched.state[me] = "RUNNING", me # INIT,
           NEW wakes \in BOOLEAN, scheduler_exit(wakes)
    PROVE  /\ Consistent(sched')
           /\ \A p \in Pid : /\ sched'.state[p] = "FREE" <=> sched.state[p] = "FREE"
                             /\ sched'.state[p] = "TERMINATED"
                                   <=> (p = me \/ sched.state[p] = "TERMINATED")
           /\ pending' \in [Pid -> SUBSET Sigs]
           /\ ppid' = [p \in Pid |->
                         IF p # me /\ exists(p) /\ ppid[p] = me THEN INIT
                         ELSE IF p = me /\ ignores_children(ppid[me]) THEN INIT
                         ELSE ppid[p]]
           /\ Goto("dead") /\ UNCHANGED panic
<1> DEFINE e1       == [Now EXCEPT !.s = close_fds(@, wakes)]
           e2       == IF \E p \in Orphans : sched.state[p] = "TERMINATED"
                       THEN TellParent(e1, INIT) ELSE e1
           disowned == ignores_children(ppid[me])
           parent   == IF disowned THEN INIT ELSE ppid[me]
           e3       == IF disowned THEN [e2 EXCEPT !.s = wakeup(@, ppid[me])] ELSE e2
           f        == [e3 EXCEPT !.s.state[me] = "TERMINATED"]
           e4       == TellParent(f, parent)
<1>1. /\ sched' = scheduler_yield(e4.s)
      /\ pending' = e4.pd
      /\ ppid' = [p \in Pid |-> IF p \in Orphans THEN INIT
                                ELSE IF p = me THEN parent ELSE ppid[p]]
      /\ Goto("dead") /\ UNCHANGED panic
    BY ZenonT(40) DEF scheduler_exit
<1>2. ppid[me] \in Pid /\ INIT \in Pid /\ parent \in Pid
    BY Constants, ZenonT(40) DEF Inv, TypeOK
<1>3. Leads(Now, Now)
    BY NowEffect DEF Leads, SameLife
<1>4. Leads(Now, e1)
    <2>1. CASE wakes
        BY <2>1, NowEffect, WakeLeads DEF close_fds
    <2>2. CASE ~wakes
        <3>1. [Now EXCEPT !.s = close_fds(@, wakes)] = Now
            BY <2>2, NowEffect DEF close_fds, Effect
        <3> QED
            BY <1>3, <3>1
    <2> QED
        BY <2>1, <2>2
<1> HIDE DEF e1
<1>5. Leads(Now, e2)
    <2>1. Leads(e1, TellParent(e1, INIT))
        BY <1>2, <1>4, TellParentLeads DEF Leads
    <2> QED
        BY <1>4, <2>1, LeadsOn
<1> HIDE DEF e2
<1>6. Leads(Now, e3)
    <2>1. Leads(e2, [e2 EXCEPT !.s = wakeup(@, ppid[me])])
        BY <1>5, WakeLeads DEF Leads
    <2> QED
        BY <1>5, <2>1, LeadsOn
<1> HIDE DEF e3
<1>7. /\ e3 \in Effect /\ InCall(e3.s) /\ e3.s.current = me /\ e3.s.state[me] = "RUNNING"
      /\ SameLife(sched, e3.s)
    BY <1>6, NowEffect DEF Leads, me
<1>8. /\ f \in Effect /\ InCall(f.s) /\ f.s.current = me
      /\ f.s.state = [e3.s.state EXCEPT ![me] = "TERMINATED"]
    <2> DEFINE u == [e3.s EXCEPT !.state[me] = "TERMINATED"]
    <2>1. f = [e3 EXCEPT !.s = u]
        OBVIOUS
    <2>2. /\ InCall(u) /\ u.current = me
          /\ u.state = [e3.s.state EXCEPT ![me] = "TERMINATED"]
        BY <1>7, TerminateInCall
    <2> HIDE DEF u, f
    <2>3. f \in Effect /\ f.s = u
        BY <1>7, <2>1, <2>2 DEF Effect, InCall
    <2> QED
        BY <2>2, <2>3
<1>9. \A p \in Pid : /\ f.s.state[p] = "FREE" <=> sched.state[p] = "FREE"
                     /\ f.s.state[p] = "TERMINATED"
                           <=> (p = me \/ sched.state[p] = "TERMINATED")
    <2>1. e3.s.state \in [Pid -> ProcessState]
        BY <1>7 DEF Effect, SchedState
    <2> QED
        BY <1>7, <1>8, <2>1 DEF SameLife
<1> HIDE DEF f
<1>10. Leads(f, e4)
    BY <1>2, <1>8, TellParentLeads
<1> HIDE DEF e4
<1>11. InCall(e4.s) /\ e4.s.current = me /\ SameLife(f.s, e4.s) /\ e4 \in Effect
    BY <1>8, <1>10 DEF Leads
<1>12. Consistent(sched') /\ SameLife(e4.s, sched')
    BY <1>1, <1>11, YieldConsistent
<1>13. \A p \in Pid : /\ sched'.state[p] = "FREE" <=> sched.state[p] = "FREE"
                      /\ sched'.state[p] = "TERMINATED"
                            <=> (p = me \/ sched.state[p] = "TERMINATED")
    BY <1>9, <1>11, <1>12 DEF SameLife
<1>14. pending' \in [Pid -> SUBSET Sigs]
    BY <1>1, <1>11 DEF Effect
<1>15. ppid' = [p \in Pid |->
                  IF p # me /\ exists(p) /\ ppid[p] = me THEN INIT
                  ELSE IF p = me /\ ignores_children(ppid[me]) THEN INIT
                  ELSE ppid[p]]
    BY <1>1, ZenonT(40) DEF Orphans
<1> QED
    BY <1>1, <1>12, <1>13, <1>14, <1>15, ZenonT(40)

\* sys_exit() and death by a signal keep the invariant: the orphans go to init.
LEMMA ExitsInv == Inv /\ (Exit \/ DeliverDeath) => Inv'
<1> SUFFICES ASSUME Inv, Exit \/ DeliverDeath PROVE Inv'
    OBVIOUS
<1>1. PICK wakes \in BOOLEAN : scheduler_exit(wakes)
    BY DEF Exit, DeliverDeath
<1>2. UNCHANGED <<next_pid, pgid, sid, arg, sigact, maskVars>>
    BY DEF Exit, DeliverDeath
<1>3. me \in Pid \ {IDLE} /\ sched.state[me] = "RUNNING"
    BY Caller DEF Exit, DeliverDeath, Calling, PcValue
<1>4. CASE me = INIT
    <2>1. panic' = TRUE /\ UNCHANGED <<sched, ppid, pc, pending>>
        BY <1>1, <1>4 DEF scheduler_exit
    <2>2. TypeOK' /\ IdleInLoop'
        BY <1>2, <2>1 DEF Inv, TypeOK, IdleInLoop, maskVars
    <2> QED
        BY <1>2, <2>1, <2>2, Quiet
<1>5. CASE me # INIT
    <2>1. /\ Consistent(sched')
          /\ \A p \in Pid : /\ sched'.state[p] = "FREE" <=> sched.state[p] = "FREE"
                            /\ sched'.state[p] = "TERMINATED"
                                  <=> (p = me \/ sched.state[p] = "TERMINATED")
          /\ pending' \in [Pid -> SUBSET Sigs]
          /\ ppid' = [p \in Pid |->
                        IF p # me /\ exists(p) /\ ppid[p] = me THEN INIT
                        ELSE IF p = me /\ ignores_children(ppid[me]) THEN INIT
                        ELSE ppid[p]]
          /\ Goto("dead") /\ UNCHANGED panic
        BY <1>1, <1>3, <1>5, ExitEffect, ZenonT(40)
    <2>2. pc' \in [Pid -> PcValue] /\ IdleInLoop'
        BY <1>3, <2>1, GotoType DEF PcValue
    <2>3. ppid \in [Pid -> Pid] /\ ppid' \in [Pid -> Pid]
        BY <2>1, Constants, ZenonT(40) DEF Inv, TypeOK
    <2>4. TypeOK'
        BY <1>2, <2>1, <2>2, <2>3, ZenonT(40) DEF Inv, TypeOK, maskVars, Consistent, InCall
    <2>5. FreshAreFree'
        BY <1>2, <2>1, ZenonT(40) DEF Inv, FreshAreFree
    <2>6. InitAlive'
        BY <1>5, <2>1, Constants, ZenonT(40) DEF Inv, InitAlive, is_user
    <2>7. ASSUME NEW p \in Pid \ {IDLE, INIT}, exists(p)'
          PROVE  ppid'[p] # p /\ is_user(ppid[p])'
        <3>1. exists(p) /\ ppid[p] # p /\ is_user(ppid[p]) /\ ppid[p] \in Pid
            BY <2>1, <2>3, <2>7 DEF Inv, ParentAlive, exists
        <3>2. \/ ppid'[p] = INIT
              \/ ppid'[p] = ppid[p] /\ ppid[p] # me
            BY <2>1, <3>1, ZenonT(40)
        <3>3. is_user(ppid[p])'
            BY <1>5, <2>1, <2>6, <3>1, <3>2 DEF is_user, InitAlive
        <3> QED
            BY <3>1, <3>2, <3>3
    <2>8. ParentAlive'
        BY <2>7 DEF ParentAlive
    <2>9. GroupInOneSession' /\ GroupsKnown' /\ GroupWithLeader'
        <3>1. next_pid' \in Int /\ next_pid <= next_pid'
            BY <1>2 DEF Inv, TypeOK
        <3>2. \A p \in Pid : is_user(p)' => is_user(p) /\ pgid'[p] = pgid[p] /\ sid'[p] = sid[p]
            BY <1>2, <2>1 DEF is_user
        <3> QED
            BY <3>1, <3>2, GroupsKept
    <2> QED
        BY <2>1, <2>2, <2>4, <2>5, <2>6, <2>8, <2>9, ZenonT(40) DEF Inv, SchedConsistent
<1> QED
    BY <1>4, <1>5

-----------------------------------------------------------------------------
(* fork and wait4 *)

\* A new process is READY, at the back of its queue, with a fresh quantum.
LEMMA NewProcessConsistent ==
    ASSUME NEW s, Consistent(s), NEW c \in Pid, s.state[c] = "FREE"
    PROVE  LET t == queue_push_back([s EXCEPT !.state[c] = "READY",
                                              !.ticks[c] = Quantum(c)], c)
           IN  /\ Consistent(t)
               /\ \A p \in Pid : t.state[p] = IF p = c THEN "READY" ELSE s.state[p]
<1> DEFINE u == [s EXCEPT !.state[c] = "READY", !.ticks[c] = Quantum(c)]
           t == queue_push_back(u, c)
<1>1. s \in SchedState /\ InCall(s)
    BY DEF Consistent, InCall
<1>2. Prio(c) \in Queues /\ Quantum(c) \in Nat
    BY PrioType
<1>3. /\ u \in SchedState /\ u.ready = s.ready /\ u.chan = s.chan /\ u.current = s.current
      /\ u.state = [s.state EXCEPT ![c] = "READY"]
    BY <1>1, <1>2, ZenonT(40) DEF SchedState, ProcessState
<1>4. t = [u EXCEPT !.ready[Prio(c)] = Append(@, c)]
    BY DEF queue_push_back
<1> SUFFICES /\ Consistent(t)
             /\ \A p \in Pid : t.state[p] = IF p = c THEN "READY" ELSE s.state[p]
    OBVIOUS
<1> HIDE DEF u, t
<1>5. [s.ready EXCEPT ![Prio(c)] = Append(@, c)] \in [Queues -> Seq(Pid)]
    <2>1. s.ready \in [Queues -> Seq(Pid)]
        BY <1>1 DEF SchedState
    <2> QED
        BY <1>2, <2>1, AppendProperties
<1>6. /\ t \in SchedState /\ t.ready = [s.ready EXCEPT ![Prio(c)] = Append(@, c)]
      /\ t.chan = s.chan /\ t.current = s.current /\ t.state = u.state
    BY <1>3, <1>4, <1>5, ZenonT(40) DEF SchedState
<1>7. \A p \in Pid : t.state[p] = IF p = c THEN "READY" ELSE s.state[p]
    BY <1>1, <1>3, <1>6 DEF SchedState
<1>8. QueuesHoldReady(t)
    <2>1. s.state[c] # "READY" /\ t.state[c] = "READY"
        BY <1>7
    <2>2. \A p \in Pid \ {c} : t.state[p] = "READY" <=> s.state[p] = "READY"
        BY <1>7
    <2>3. QueuesHoldReady(s)
        BY <1>1 DEF InCall
    <2> QED
        BY ONLY <1>1, <1>6, <2>1, <2>2, <2>3, c \in Pid, QueuesPlusOne
<1>9. SleepersHaveChannel(t)
    BY <1>1, <1>6, <1>7 DEF InCall, SleepersHaveChannel
<1>10. IdleRunnable(t) /\ RunningIsCurrent(t)
    BY <1>1, <1>6, <1>7, Constants DEF InCall, IdleRunnable, RunningIsCurrent
<1>11. t.current # NULL => t.state[t.current] = "RUNNING"
    BY <1>1, <1>6, <1>7, ZenonT(40) DEF Consistent, SchedState
<1> QED
    BY <1>6, <1>7, <1>8, <1>9, <1>10, <1>11 DEF Consistent, InCall

\* process_fork() keeps the invariant: the child's parent is the living caller.
LEMMA ForkInv == Inv /\ Fork => Inv'
<1> SUFFICES ASSUME Inv, Fork PROVE Inv'
    OBVIOUS
<1> DEFINE c == next_pid
<1>1. me \in Pid \ {IDLE} /\ sched.state[me] = "RUNNING"
    BY Caller DEF Fork, Calling, PcValue
<1>2. pc' \in [Pid -> PcValue] /\ IdleInLoop'
    BY <1>1, GotoType DEF Fork, PcValue
<1>3. c \in Pid /\ c \in 2 .. MaxPid + 1 /\ c <= MaxPid
    BY SchedAssumption DEF Inv, TypeOK, Fork, Pid
<1>4. sched.state[c] = "FREE" /\ c # me
    BY <1>1, <1>3 DEF Inv, FreshAreFree
<1>5. /\ Consistent(sched')
      /\ \A p \in Pid : sched'.state[p] = IF p = c THEN "READY" ELSE sched.state[p]
    BY <1>3, <1>4, NewProcessConsistent, ZenonT(40) DEF Fork, Inv, SchedConsistent
<1>6. next_pid' = c + 1 /\ next_pid' \in 2 .. MaxPid + 1
    BY <1>3, SchedAssumption DEF Fork
<1>7. /\ ppid' = [ppid EXCEPT ![c] = me] /\ ppid' \in [Pid -> Pid]
      /\ ppid \in [Pid -> Pid]
    BY <1>1, <1>3 DEF Fork, Inv, TypeOK
<1>8. pgid' \in [Pid -> Nat] /\ sid' \in [Pid -> Nat]
    BY <1>1, <1>3 DEF Fork, Inherit, Inv, TypeOK
<1>9. /\ sigact' \in [Pid -> [Sigs -> SigAction]]
      /\ blocked' \in [Pid -> Mask] /\ base' \in [Pid -> Mask]
      /\ frames' \in [Pid -> Seq(Mask)]
    BY <1>1, <1>3 DEF Fork, Inherit, Inv, TypeOK
<1>10. TypeOK'
    BY <1>2, <1>5, <1>6, <1>7, <1>8, <1>9, ZenonT(40) DEF Fork, Inv, TypeOK, Consistent, InCall
<1>11. FreshAreFree'
    <2> SUFFICES ASSUME NEW p \in Pid, p >= c + 1
                 PROVE  sched'.state[p] = "FREE"
        BY <1>6 DEF FreshAreFree
    <2>1. p >= c /\ p # c
        BY <1>3, SchedAssumption DEF Pid
    <2> QED
        BY <1>5, <2>1 DEF Inv, FreshAreFree
<1>12. InitAlive'
    BY <1>5, Constants DEF Inv, InitAlive, is_user
<1>13. ASSUME NEW p \in Pid \ {IDLE, INIT}, exists(p)'
       PROVE  ppid'[p] # p /\ is_user(ppid[p])'
    <2>1. CASE p = c
        BY <1>1, <1>3, <1>4, <1>5, <1>7, <2>1 DEF is_user
    <2>2. CASE p # c
        <3>1. exists(p) /\ ppid'[p] = ppid[p] /\ ppid[p] \in Pid
            BY <1>3, <1>5, <1>7, <1>13, <2>2 DEF exists
        <3>2. ppid[p] # p /\ is_user(ppid[p])
            BY <3>1, ZenonT(40) DEF Inv, ParentAlive
        <3> QED
            BY <1>5, <3>1, <3>2 DEF is_user
    <2> QED
        BY <2>1, <2>2
<1>14. ParentAlive'
    BY <1>13 DEF ParentAlive
<1>15. /\ pgid'[c] = pgid[me] /\ sid'[c] = sid[me] /\ is_user(me)
       /\ \A p \in Pid : p # c => /\ pgid'[p] = pgid[p] /\ sid'[p] = sid[p]
                                  /\ is_user(p)' <=> is_user(p)
    BY <1>1, <1>3, <1>5 DEF Fork, Inherit, Inv, TypeOK, is_user
<1>16. \A p \in Pid : is_user(p)' => pgid'[p] < c
    BY <1>1, <1>15 DEF Inv, GroupsKnown
<1>17. GroupInOneSession'
    BY <1>1, <1>15 DEF Inv, GroupInOneSession
<1>18. GroupsKnown'
    <2>1. \A p \in Pid : pgid'[p] \in Nat
        BY <1>8
    <2> QED
        BY <1>3, <1>6, <1>16, <2>1 DEF GroupsKnown
<1>19. GroupWithLeader'
    <2> SUFFICES ASSUME NEW p \in Pid, NEW q \in Pid,
                        is_user(p)', is_user(q)', pgid'[q] = p
                 PROVE  sid'[q] = sid'[p]
        BY DEF GroupWithLeader
    <2>1. p # c
        BY <1>3, <1>16
    <2> QED
        BY <1>1, <1>15, <2>1 DEF Inv, GroupWithLeader
<1> QED
    BY <1>2, <1>5, <1>10, <1>11, <1>12, <1>14, <1>17, <1>18, <1>19 DEF Inv, SchedConsistent

\* A fork that fails in vmm_clone() keeps the invariant.
LEMMA ForkFailsInv == Inv /\ ForkFails => Inv'
<1> SUFFICES ASSUME Inv, ForkFails PROVE Inv'
    OBVIOUS
<1>1. me \in Pid \ {IDLE}
    BY Caller DEF ForkFails, Calling, PcValue
<1>2. pc' \in [Pid -> PcValue] /\ IdleInLoop'
    BY <1>1, GotoType DEF ForkFails, PcValue
<1>3. next_pid' = next_pid + 1 /\ next_pid \in 2 .. MaxPid + 1 /\ next_pid <= MaxPid
    BY DEF ForkFails, Inv, TypeOK
<1>4. next_pid' \in 2 .. MaxPid + 1
    BY <1>3, SchedAssumption
<1>5. TypeOK'
    BY <1>2, <1>4 DEF ForkFails, Inv, TypeOK, maskVars
<1>6. FreshAreFree'
    <2> SUFFICES ASSUME NEW p \in Pid, p >= next_pid + 1
                 PROVE  sched.state[p] = "FREE"
        BY <1>3 DEF FreshAreFree, ForkFails
    <2>1. p >= next_pid
        BY <1>3, SchedAssumption DEF Pid
    <2> QED
        BY <2>1 DEF Inv, FreshAreFree
<1>7. InitAlive' /\ ParentAlive'
    BY DEF ForkFails, Inv, InitAlive, ParentAlive, exists, is_user
<1>8. GroupInOneSession' /\ GroupsKnown' /\ GroupWithLeader'
    <2>1. next_pid' \in Int /\ next_pid <= next_pid'
        BY <1>3
    <2>2. \A p \in Pid : is_user(p)' => is_user(p) /\ pgid'[p] = pgid[p] /\ sid'[p] = sid[p]
        BY DEF ForkFails, is_user
    <2> QED
        BY <2>1, <2>2, GroupsKept
<1> QED
    BY <1>2, <1>5, <1>6, <1>7, <1>8 DEF ForkFails, Inv, SchedConsistent

\* process_reap() of a zombie: it was in no queue and was nobody's parent.
LEMMA ReapInv ==
    ASSUME Inv, me \in Pid \ {IDLE}, NEW a \in Int, NEW z \in Zombies(me, a), process_reap(z),
           arg' = [arg EXCEPT ![me] = 0], UNCHANGED panic
    PROVE  Inv'
<1>1. z \in Pid /\ sched.state[z] = "TERMINATED"
    BY DEF Zombies, Children
<1>2. sched \in SchedState /\ InCall(sched)
    BY DEF Inv, SchedConsistent, Consistent, InCall
<1>3. z # IDLE /\ z # INIT
    BY <1>1, <1>2 DEF InCall, IdleRunnable, Inv, InitAlive, is_user
<1>4. Quantum(z) \in Nat
    BY <1>1, PrioType
<1>5. /\ sched' \in SchedState /\ sched'.ready = sched.ready /\ sched'.chan = sched.chan
      /\ sched'.current = sched.current /\ sched'.state = [sched.state EXCEPT ![z] = "FREE"]
    BY <1>1, <1>2, <1>4, ZenonT(40) DEF process_reap, SchedState, ProcessState
<1>6. \A p \in Pid : sched'.state[p] = IF p = z THEN "FREE" ELSE sched.state[p]
    BY <1>1, <1>2, <1>5 DEF SchedState
<1>7. Consistent(sched')
    <2>1. QueuesHoldReady(sched')
        <3>1. \A q \in Queues : ReadyAt(sched', q) = ReadyAt(sched, q)
            BY <1>1, <1>6 DEF ReadyAt
        <3> QED
            BY <1>2, <1>5, <3>1 DEF InCall, QueuesHoldReady
    <2>2. SleepersHaveChannel(sched')
        BY <1>1, <1>2, <1>5, <1>6 DEF InCall, SleepersHaveChannel
    <2>3. IdleRunnable(sched') /\ RunningIsCurrent(sched')
        BY <1>2, <1>3, <1>5, <1>6, Constants DEF InCall, IdleRunnable, RunningIsCurrent
    <2>4. sched'.current # NULL => sched'.state[sched'.current] = "RUNNING"
        BY <1>1, <1>2, <1>5, <1>6 DEF Inv, SchedConsistent, Consistent, SchedState
    <2> QED
        BY <1>5, <2>1, <2>2, <2>3, <2>4 DEF Consistent, InCall
<1>8. pc' \in [Pid -> PcValue] /\ IdleInLoop'
    BY <1>1, <1>3, Constants, ZenonT(40) DEF process_reap, Inv, TypeOK, IdleInLoop, PcValue
<1>9. ppid \in [Pid -> Pid] /\ ppid' = [ppid EXCEPT ![z] = IDLE] /\ ppid' \in [Pid -> Pid]
    BY <1>1, Constants, ZenonT(40) DEF process_reap, Inv, TypeOK
<1>10. pgid' \in [Pid -> Nat] /\ sid' \in [Pid -> Nat] /\ arg' \in [Pid -> Int]
    BY <1>1 DEF process_reap, Inv, TypeOK
<1>11. NoAction \in SigAction /\ {} \in Mask /\ <<>> \in Seq(Mask)
    BY DEF NoAction, SigAction, Mask
<1>12. sigact' \in [Pid -> [Sigs -> SigAction]]
    BY <1>1, <1>11 DEF process_reap, Inv, TypeOK
<1>13. /\ pending' \in [Pid -> SUBSET Sigs]
       /\ blocked' \in [Pid -> Mask] /\ base' \in [Pid -> Mask]
       /\ saved' \in [Pid -> Mask \cup {NULL}]
       /\ frames' \in [Pid -> Seq(Mask)]
    BY <1>1, <1>11 DEF process_reap, Inv, TypeOK
<1>14. TypeOK'
    BY <1>5, <1>8, <1>9, <1>10, <1>12, <1>13, ZenonT(40) DEF process_reap, Inv, TypeOK
<1>15. FreshAreFree'
    BY <1>6 DEF process_reap, Inv, FreshAreFree
<1>16. InitAlive'
    BY <1>3, <1>6, Constants DEF Inv, InitAlive, is_user
<1>17. ASSUME NEW p \in Pid \ {IDLE, INIT}, exists(p)'
       PROVE  ppid'[p] # p /\ is_user(ppid[p])'
    <2>1. p # z /\ exists(p) /\ ppid'[p] = ppid[p] /\ ppid[p] \in Pid
        BY <1>1, <1>6, <1>9, <1>17 DEF exists
    <2>2. ppid[p] # p /\ is_user(ppid[p])
        BY <2>1, ZenonT(40) DEF Inv, ParentAlive
    <2>3. ppid[p] # z
        BY <1>1, <2>2 DEF is_user
    <2> QED
        BY <1>6, <2>1, <2>2, <2>3 DEF is_user
<1>18. ParentAlive'
    BY <1>17 DEF ParentAlive
<1>19. GroupInOneSession' /\ GroupsKnown' /\ GroupWithLeader'
    <2>1. next_pid' \in Int /\ next_pid <= next_pid'
        BY DEF process_reap, Inv, TypeOK
    <2>2. \A p \in Pid : is_user(p)' => is_user(p) /\ p # z
        BY <1>6 DEF is_user
    <2>3. \A p \in Pid : p # z => pgid'[p] = pgid[p] /\ sid'[p] = sid[p]
        BY <1>1 DEF process_reap, Inv, TypeOK
    <2> QED
        BY <2>1, <2>2, <2>3, GroupsKept
<1> QED
    BY <1>7, <1>8, <1>14, <1>15, <1>16, <1>18, <1>19 DEF Inv, SchedConsistent

\* sys_wait4() keeps the invariant, whether it reaps, gives up or sleeps.
LEMMA WaitsInv == Inv /\ (Wait4 \/ Wait4Again) => Inv'
<1> SUFFICES ASSUME Inv, Wait4 \/ Wait4Again PROVE Inv'
    OBVIOUS
<1>1. me \in Pid \ {IDLE}
    BY Caller, ZenonT(40) DEF Wait4, Wait4Again, Calling, PcValue
<1>2. PICK a \in Int : \E nohang \in BOOLEAN : wait4(a, nohang)
    BY <1>1, ProcessAssumption, ZenonT(40) DEF Wait4, Wait4Again, Inv, TypeOK
<1>3. PICK nohang \in BOOLEAN : wait4(a, nohang)
    BY <1>2
<1>4. UNCHANGED panic
    BY ZenonT(40) DEF Wait4, Wait4Again
<1>5. CASE \E z \in Zombies(me, a) : process_reap(z) /\ arg' = [arg EXCEPT ![me] = 0]
    BY <1>1, <1>4, <1>5, ReapInv
<1>6. CASE /\ sched' = sched \/ sched' = sleep_on(sched, me)
           /\ Goto("ret") \/ Goto("wait4")
           /\ arg' = [arg EXCEPT ![me] = 0] \/ arg' = [arg EXCEPT ![me] = a]
           /\ UNCHANGED <<famVars, sigact, pending, maskVars>>
    <2>1. me \in Chan
        BY <1>1, Constants
    <2>2. Consistent(sched') /\ SameLife(sched, sched') /\ sched' \in SchedState
        BY <1>1, <1>6, <2>1, SleepOrNot
    <2>3. pc' \in [Pid -> PcValue] /\ IdleInLoop'
        BY <1>1, <1>6, GotoType DEF PcValue
    <2>4. arg' \in [Pid -> Int]
        BY <1>1, <1>6 DEF Inv, TypeOK
    <2>5. TypeOK'
        BY <1>4, <1>6, <2>2, <2>3, <2>4 DEF Inv, TypeOK, famVars, maskVars
    <2> QED
        BY <1>6, <2>2, <2>3, <2>5, Switched DEF famVars
<1> QED
    BY <1>3, <1>5, <1>6 DEF wait4

-----------------------------------------------------------------------------
\* A process starts with no handlers, an empty mask and no signal frames.
LEMMA Zeroed == NoAction \in SigAction /\ {} \in Mask /\ <<>> \in Seq(Mask)
<1>1. {} \in Mask
    BY Zenon DEF Mask
<1>2. <<>> \in Seq(Mask)
    BY EmptySeq
<1>3. "DFL" \in {"DFL", "IGN", "CATCH"} /\ {} \in SUBSET Sigs /\ FALSE \in BOOLEAN
    BY Zenon
<1>4. NoAction \in SigAction
    BY <1>3 DEF NoAction, SigAction
<1> QED
    BY <1>1, <1>2, <1>4

\* The state kernel_main() hands to scheduler_start() satisfies the invariant.
LEMMA InitInv == Init => Inv
<1> SUFFICES ASSUME Init PROVE Inv
    OBVIOUS
<1>1. /\ IDLE \in Pid /\ INIT \in Pid /\ IDLE # INIT /\ NULL \notin Pid
      /\ PRIO_USER \in Queues /\ PRIO_IDLE \in Queues /\ PRIO_USER # PRIO_IDLE
    BY Constants, SchedAssumption DEF Queues, PRIO_IDLE
<1>2. <<IDLE>> \in Seq(Pid) /\ <<INIT>> \in Seq(Pid) /\ <<>> \in Seq(Pid)
    BY <1>1
<1>3. \A p \in Pid : Quantum(p) \in Nat
    BY PrioType
<1>4. sched \in SchedState
    BY <1>1, <1>2, <1>3, ZenonT(40) DEF Init, SchedState, ProcessState
<1>5. QueuesHoldReady(sched)
    <2> SUFFICES ASSUME NEW q \in Queues
                 PROVE  Enumerates(sched.ready[q], ReadyAt(sched, q))
        BY DEF QueuesHoldReady
    <2>1. ReadyAt(sched, q) = {p \in {IDLE, INIT} : Prio(p) = q}
        BY <1>1 DEF ReadyAt, Init
    <2>2. Prio(IDLE) = PRIO_IDLE /\ Prio(INIT) = PRIO_USER
        BY <1>1 DEF Prio
    <2>3. CASE q = PRIO_IDLE
        <3>1. sched.ready[q] = <<IDLE>> /\ ReadyAt(sched, q) = {IDLE}
            BY <1>1, <2>1, <2>2, <2>3, ZenonT(40) DEF Init
        <3> QED
            BY <1>1, <3>1, EnumeratesFew
    <2>4. CASE q = PRIO_USER
        <3>1. sched.ready[q] = <<INIT>> /\ ReadyAt(sched, q) = {INIT}
            BY <1>1, <2>1, <2>2, <2>4, ZenonT(40) DEF Init
        <3> QED
            BY <1>1, <3>1, EnumeratesFew
    <2>5. CASE q # PRIO_IDLE /\ q # PRIO_USER
        <3>1. sched.ready[q] = <<>> /\ ReadyAt(sched, q) = {}
            BY <1>1, <2>1, <2>2, <2>5, ZenonT(40) DEF Init
        <3> QED
            BY <3>1, EnumeratesFew
    <2> QED
        BY <2>3, <2>4, <2>5
<1>6. SchedConsistent
    BY <1>1, <1>4, <1>5 DEF SchedConsistent, Consistent, InCall, SleepersHaveChannel,
                            IdleRunnable, RunningIsCurrent, Init
<1>7. NoAction \in SigAction /\ {} \in Mask /\ <<>> \in Seq(Mask)
    BY Zeroed
<1>8. INIT \in Nat /\ 2 \in 2 .. MaxPid + 1
    BY SchedAssumption DEF INIT
<1>9. TypeOK
    <2>1. ppid \in [Pid -> Pid] /\ pgid \in [Pid -> Nat] /\ sid \in [Pid -> Nat]
        BY <1>1, <1>8 DEF Init
    <2>2. pc \in [Pid -> PcValue] /\ arg \in [Pid -> Int]
        BY <1>1 DEF Init, PcValue
    <2>3. sigact \in [Pid -> [Sigs -> SigAction]]
        BY <1>7, ZenonT(40) DEF Init
    <2>4. pending \in [Pid -> SUBSET Sigs] /\ frames \in [Pid -> Seq(Mask)]
        BY <1>7, ZenonT(40) DEF Init
    <2>5. /\ blocked \in [Pid -> Mask] /\ base \in [Pid -> Mask]
          /\ saved \in [Pid -> Mask \cup {NULL}]
        BY <1>7 DEF Init
    <2> QED
        BY <1>4, <1>8, <2>1, <2>2, <2>3, <2>4, <2>5, ZenonT(40) DEF TypeOK, Init
<1>10. IdleInLoop
    BY <1>1 DEF IdleInLoop, Init
<1>11. FreshAreFree
    BY SchedAssumption DEF FreshAreFree, Init, Pid, IDLE, INIT
<1>12. InitAlive
    BY <1>1 DEF InitAlive, is_user, Init
<1>13. ParentAlive
    BY <1>1 DEF ParentAlive, exists, Init
<1>14. GroupInOneSession /\ GroupsKnown /\ GroupWithLeader
    <2>1. \A p \in Pid : is_user(p) => p = INIT
        BY DEF is_user, Init
    <2>2. INIT \in Pid /\ pgid[INIT] < next_pid
        BY <1>1 DEF Init, INIT
    <2> QED
        BY <2>1, <2>2 DEF GroupInOneSession, GroupsKnown, GroupWithLeader
<1> QED
    BY <1>6, <1>9, <1>10, <1>11, <1>12, <1>13, <1>14 DEF Inv

\* Every step of the kernel keeps the invariant.
LEMMA NextInv == Inv /\ [Next]_vars => Inv'
<1> SUFFICES ASSUME Inv, [Next]_vars PROVE Inv'
    OBVIOUS
<1>1. CASE Call
    BY <1>1, ExitsInv, ForkInv, ForkFailsInv, WaitsInv, KillInv, SigactionInv, SigprocmaskInv,
       SigreturnInv, PausesInv, BlocksInv, WakersInv, SetpgidInv, SetsidInv,
       OtherCallInv
    DEF Call
<1>2. CASE Continue
    BY <1>2, WaitsInv, PausesInv, BlocksInv, DeliverNoneInv, ExitsInv, DeliverFrameInv,
       StartsInv
    DEF Continue
<1>3. CASE Tick \/ DeviceIrq
    BY <1>3, InterruptsInv
<1>4. CASE SignalIrq
    BY <1>4, SignalIrqInv
<1>5. CASE UNCHANGED vars
    <2>1. TypeOK' /\ IdleInLoop' /\ UNCHANGED <<sched, next_pid, ppid, pgid, sid>>
        BY <1>5 DEF Inv, TypeOK, IdleInLoop, vars, famVars, maskVars
    <2> QED
        BY <2>1, Quiet
<1> QED
    BY <1>1, <1>2, <1>3, <1>4, <1>5 DEF Next, Halted

\* Every behaviour of the process model keeps the inductive invariant.
THEOREM Invariance == Spec => []Inv
BY InitInv, NextInv, PTL DEF Spec

\* The variables keep their types, whatever the program asks of the kernel.
THEOREM TypeCorrect == Spec => []TypeOK
<1>1. Inv => TypeOK
    BY DEF Inv
<1> QED
    BY <1>1, Invariance, PTL

\* scheduler.c: the queues hold exactly the READY processes, once each, and
\* the CPU is always on the one RUNNING process.
THEOREM SchedulerConsistent == Spec => []SchedConsistent
<1>1. Inv => SchedConsistent
    BY DEF Inv
<1> QED
    BY <1>1, Invariance, PTL

\* scheduler_exit(): no process is ever left to a parent that has exited.
THEOREM ParentsAlive == Spec => []ParentAlive
<1>1. Inv => ParentAlive
    BY DEF Inv
<1> QED
    BY <1>1, Invariance, PTL

\* sys_setpgid(), sys_setsid(): a group never spans two sessions, for any
\* number of processes and any groups they ask for.
THEOREM GroupsInOneSession == Spec => []GroupInOneSession
<1>1. Inv => GroupInOneSession
    BY DEF Inv
<1> QED
    BY <1>1, Invariance, PTL
=============================================================================
