------------------------------- MODULE Socket -------------------------------
(***************************************************************************)
(* AF_UNIX sockets (src/kernel/net/socket.c) and the processes that share  *)
(* them: listening sockets with their backlogs, stream connections,        *)
(* datagrams, names in the file system, and sleeping and waking on the     *)
(* address of a socket.                                                    *)
(*                                                                         *)
(* A system call runs without interruption up to its return or to          *)
(* sleep_on().  A call that returns without having changed anything is not *)
(* a step.  A ring buffer is the sequence of the bytes in it (its          *)
(* arithmetic is the pipe's, see Pipe); a byte or a datagram is its size.  *)
(* A descriptor is counted once per process, and a socket with no          *)
(* descriptor left is released.                                            *)
(***************************************************************************)
EXTENDS Integers, FiniteSets, SequencesExt

CONSTANTS Procs, Creator,  \* the processes; the one there is at first
          Socks,           \* addresses of sock_t
          Names,           \* paths a socket can be bound to
          SOCK_BUF,        \* bytes a socket holds before senders wait
          BACKLOG,         \* size of the backlog array
          Backlogs,        \* the arguments of listen
          Limits,          \* bounds: records of
                           \*   socks:  sockets at a time,
                           \*   pairs:  made by socketpair too,
                           \*   types:  their types, "stream" or "dgram",
                           \*   sizes:  the sizes of sends and receives,
                           \*   events: which of "signal", "shutdown", "unlink"
                           \*           may happen, once in all
          SharedConnect,   \* two processes may connect one socket at once
          NONE,            \* NULL, and "" for a name
          GONE             \* the file of a socket that is gone

ASSUME SocketAssumption ==
    /\ Creator \in Procs
    /\ NONE \notin Procs \cup Socks \cup Names \cup {GONE} /\ GONE \notin Socks
    /\ Socks \subseteq Nat /\ SOCK_BUF \in Nat \ {0} /\ BACKLOG \in Nat \ {0}
    /\ Backlogs \subseteq Nat /\ SharedConnect \in BOOLEAN
    /\ \A l \in Limits : /\ l.socks \in Nat /\ l.pairs \in BOOLEAN
                         /\ l.types \subseteq {"stream", "dgram"}
                         /\ l.sizes \subseteq Nat \ {0}
                         /\ l.events \subseteq {"signal", "shutdown", "unlink"}

VARIABLES sk,      \* the sock_t at each address; its state is "free" if there is none
          names,   \* what a path names: no file, a socket, or the file of one that is gone
          fds,     \* the sockets a process has descriptors of
          alive,   \* the processes that have been forked and not exited
          pc,      \* "user", or the call p sleeps in
          call,    \* its arguments and progress
          chan,    \* the address p sleeps on, or NONE
          sig,     \* p has a deliverable signal
          lim,     \* the bounds this behaviour keeps, one of Limits
          event    \* one of the events that lim bounds has happened

vars == <<sk, names, fds, alive, pc, call, chan, sig, lim, event>>
procs == <<fds, alive>>

NoSock == [type |-> "none", state |-> "free", peer |-> NONE, peername |-> NONE,
           bound |-> FALSE, queue |-> <<>>, backlog |-> <<>>, maxback |-> 0,
           eof |-> FALSE, rd_shut |-> FALSE, wr_shut |-> FALSE]

sock_new(type) == [NoSock EXCEPT !.type = type, !.state = "unconnected"]

Live == {s \in Socks : sk[s].state # "free"}

\* What k_malloc(sizeof(sock_t)) returns: the first address that fits, if any.
Malloc(live) == {s \in Socks \ live : /\ Cardinality(live) < lim.socks
                                      /\ \A r \in Socks \ live : s <= r}

NoCall == [sock |-> NONE, size |-> 0, done |-> 0, to |-> NONE]

\* Bytes in a queue: len of a stream socket, queued of a datagram socket.
Queued(q) == FoldSeq(LAMBDA m, n : m + n, 0, q)

-----------------------------------------------------------------------------
(* Sleeping and waking *)

Awake(p, where) == p \in alive /\ pc[p] = where /\ chan[p] = NONE

\* A process in user mode makes a call on its socket s.
Enters(p, s) == Awake(p, "user") /\ s \in fds[p]

Quiet == UNCHANGED <<pc, call, sig>>

Event(kind) == kind \in lim.events /\ ~event /\ event' = TRUE

\* The call p was in returns; a pending signal is acted on on the way out.
Return(p) == /\ pc' = [pc EXCEPT ![p] = "user"]
             /\ call' = [call EXCEPT ![p] = NoCall]
             /\ sig' = [sig EXCEPT ![p] = FALSE]

\* The processes asleep on one of the addresses in S go on.
wakeup(S) == [p \in Procs |-> IF chan[p] \in S THEN NONE ELSE chan[p]]

\* sleep_on(on) in call c, to go on at `where`; ch is where the others sleep.
Sleep(p, where, c, on, ch) == /\ ~sig[p]
                              /\ pc' = [pc EXCEPT ![p] = where]
                              /\ call' = [call EXCEPT ![p] = c]
                              /\ chan' = [ch EXCEPT ![p] = on]
                              /\ UNCHANGED sig

-----------------------------------------------------------------------------
(* The end of sockets *)

\* Mutant: connections nobody accepted are forgotten, not freed.
sock_free_lists_shallow(S) == S

\* S and the connections that wait to be accepted in one of S.
sock_free_lists(S) == S \cup UNION {ToSet(sk[s].backlog) : s \in S}

\* Mutants: the other end is not told; it is not told that nothing more comes.
sock_free_told_none(st, gone) == [s \in Socks |-> IF s \in gone THEN NoSock ELSE st[s]]

sock_free_told_late(st, gone) ==
    LET told == {st[g].peer : g \in gone} \ gone
    IN  [s \in Socks |-> IF s \in gone THEN NoSock
                         ELSE IF s \in told THEN [st[s] EXCEPT !.peer = NONE]
                         ELSE st[s]]

\* The other end of a connection learns that nothing more will come.
sock_free_told(st, gone) ==
    LET told == {st[g].peer : g \in gone} \ gone
    IN  [s \in Socks |-> IF s \in gone THEN NoSock
                         ELSE IF s \in told THEN [st[s] EXCEPT !.peer = NONE, !.eof = TRUE]
                         ELSE st[s]]

sock_free_woken(gone) == gone \cup ({sk[g].peer : g \in gone} \ {NONE})

\* sock_free() of the sockets in S.  The file of a bound one stays.
sock_free(S) ==
    LET gone == sock_free_lists(S)
    IN  /\ sk' = sock_free_told(sk, gone)
        /\ names' = [n \in Names |-> IF names[n] \in gone THEN GONE ELSE names[n]]
        /\ chan' = wakeup(sock_free_woken(gone))

\* p gives up its descriptors of the sockets in S; the last one releases.
Put(p, S) ==
    LET kept == UNION {fds[r] : r \in Procs \ {p}}
    IN  /\ fds' = [fds EXCEPT ![p] = @ \ S]
        /\ sock_free(S \ kept)

-----------------------------------------------------------------------------
(* Making, naming, listening *)

sys_socket(p) ==
    /\ Awake(p, "user")
    /\ \E s \in Malloc(Live), t \in lim.types :
          /\ sk' = [sk EXCEPT ![s] = sock_new(t)]
          /\ fds' = [fds EXCEPT ![p] = @ \cup {s}]
    /\ UNCHANGED <<names, alive, chan>> /\ Quiet

sys_socketpair(p) ==
    /\ Awake(p, "user") /\ lim.pairs
    /\ \E a \in Malloc(Live), t \in lim.types : \E b \in Malloc(Live \cup {a}) :
          /\ sk' = [sk EXCEPT
                ![a] = [sock_new(t) EXCEPT !.peer = b, !.state = "connected"],
                ![b] = [sock_new(t) EXCEPT !.peer = a, !.state = "connected"]]
          /\ fds' = [fds EXCEPT ![p] = @ \cup {a, b}]
    /\ UNCHANGED <<names, alive, chan>> /\ Quiet

sys_bind(p, s, n) ==
    /\ Enters(p, s) /\ ~sk[s].bound /\ names[n] = NONE
    /\ names' = [names EXCEPT ![n] = s]
    /\ sk' = [sk EXCEPT ![s].bound = TRUE]
    /\ UNCHANGED <<procs, chan>> /\ Quiet

\* Somebody sleeps in a connect of s.
Connecting(s) == \E r \in alive : pc[r] = "connect" /\ call[r].sock = s

sys_listen_max(b) == IF b < 1 THEN 1 ELSE IF b > BACKLOG THEN BACKLOG ELSE b

sys_listen(p, s, b) ==
    /\ Enters(p, s) /\ (SharedConnect \/ ~Connecting(s))
    /\ sk[s].type = "stream" /\ sk[s].bound /\ sk[s].state # "connected"
    /\ sk' = [sk EXCEPT ![s].state = "listening", ![s].maxback = sys_listen_max(b)]
    /\ UNCHANGED <<names, procs, chan>> /\ Quiet

\* The socket a path names, or NONE.
lookup(n) == IF n # NONE /\ names[n] \in Socks THEN names[n] ELSE NONE

-----------------------------------------------------------------------------
(* Connecting: from the start, or from where it slept, to the return or to   *)
(* where it sleeps next.                                                     *)

Listener(l) == l # NONE /\ sk[l].type = "stream" /\ sk[l].state = "listening"

\* The backlog has room: the server's end is made here, accept() hands it out.
stream_connect_queued(p, s, n, l) ==
    /\ Len(sk[l].backlog) < sk[l].maxback
    /\ \E srv \in Malloc(Live) :
          /\ sk' = [sk EXCEPT
                ![srv] = [sock_new("stream") EXCEPT !.state = "connected", !.peer = s],
                ![s].state = "connected", ![s].peer = srv, ![s].peername = n,
                ![l].backlog = Append(@, srv)]
          /\ chan' = wakeup({l})
    /\ Return(p)

\* Full: interrupted, or wait for accept().
stream_connect_full(p, c, l) ==
    /\ Len(sk[l].backlog) >= sk[l].maxback
    /\ \/ sig[p] /\ Return(p) /\ UNCHANGED chan
       \/ Sleep(p, "connect", c, l, chan)
    /\ UNCHANGED sk

\* Refused, or no memory for the server's end.
stream_connect_fails(p, l) ==
    /\ IF Listener(l) THEN Len(sk[l].backlog) < sk[l].maxback /\ Malloc(Live) = {} ELSE TRUE
    /\ Return(p) /\ UNCHANGED <<sk, chan>>

stream_connect(p, c) ==
    LET l == lookup(c.to)
    IN  /\ \/ Listener(l) /\ (stream_connect_queued(p, c.sock, c.to, l) \/ stream_connect_full(p, c, l))
           \/ stream_connect_fails(p, l)
        /\ UNCHANGED <<names, procs>>

ConnectStream(p, s, n) ==
    /\ Enters(p, s) /\ (SharedConnect \/ ~Connecting(s))
    /\ sk[s].type = "stream" /\ sk[s].state = "unconnected"
    /\ stream_connect(p, [NoCall EXCEPT !.sock = s, !.to = n])

ConnectAgain(p) == Awake(p, "connect") /\ stream_connect(p, call[p])

\* Where a datagram of s goes: the name given, the pair's other end, or the
\* name connect() gave; looked up on every send.
dgram_target(s, to) ==
    LET t == IF to = NONE /\ sk[s].peer # NONE THEN sk[s].peer
             ELSE lookup(IF to # NONE THEN to ELSE sk[s].peername)
    IN  IF t # NONE /\ sk[t].type = "dgram" THEN t ELSE NONE

\* A datagram socket only notes the name; AF_UNSPEC forgets it.
ConnectDgram(p, s) ==
    /\ Enters(p, s) /\ sk[s].type = "dgram"
    /\ \/ \E n \in Names :
             /\ dgram_target(s, n) # NONE
             /\ sk' = [sk EXCEPT ![s].peername = n, ![s].state = "connected"]
       \/ sk' = [sk EXCEPT ![s].peername = NONE, ![s].state = "unconnected"]
    /\ UNCHANGED <<names, procs, chan>> /\ Quiet

\* Mutant: who waits for room in the backlog is not told.
sys_accept4_wakes_nobody(s) == {}

sys_accept4_wakes(s) == {s}

\* The first connection leaves the backlog and gets a descriptor, or is freed
\* because its name or its descriptor could not be given to the caller.
sys_accept4_takes(p, s) ==
    LET c   == Head(sk[s].backlog)
        cut == [sk EXCEPT ![s].backlog = Tail(@)]
    IN  /\ \/ /\ sk' = cut
              /\ fds' = [fds EXCEPT ![p] = @ \cup {c}]
              /\ chan' = wakeup(sys_accept4_wakes(s))
           \/ /\ sk' = sock_free_told(cut, {c})
              /\ chan' = wakeup(sys_accept4_wakes(s) \cup sock_free_woken({c}))
              /\ UNCHANGED fds
        /\ Return(p)

sys_accept4(p, c) ==
    LET s == c.sock
    IN  /\ \/ sk[s].backlog # <<>> /\ sys_accept4_takes(p, s)
           \/ /\ sk[s].backlog = <<>>
              /\ \/ sig[p] /\ Return(p) /\ UNCHANGED chan
                 \/ Sleep(p, "accept", c, s, chan)
              /\ UNCHANGED <<sk, fds>>
        /\ UNCHANGED <<names, alive>>

Accept(p, s) == /\ Enters(p, s) /\ sk[s].state = "listening"
                /\ sys_accept4(p, [NoCall EXCEPT !.sock = s])

AcceptAgain(p) == Awake(p, "accept") /\ sys_accept4(p, call[p])

-----------------------------------------------------------------------------
(* Receiving *)

\* Nothing is there and nothing more will come.
recv_ends(s) ==
    IF sk[s].type = "stream"
    THEN sk[s].state # "connected" \/ sk[s].eof \/ sk[s].rd_shut
    ELSE sk[s].rd_shut \/ (sk[s].peername = NONE /\ sk[s].eof)

\* stream_recv() takes as many bytes as there are, dgram_recv() one datagram.
recv_rest(s, n) ==
    LET q == sk[s].queue
    IN  IF sk[s].type = "stream" THEN SubSeq(q, n + 1, Len(q)) ELSE Tail(q)

\* The size of the caller's buffer matters only once there is something to take.
do_recv(p, c) ==
    LET s == c.sock
    IN  /\ \/ /\ sk[s].queue = <<>>
              /\ \/ (recv_ends(s) \/ sig[p]) /\ Return(p) /\ UNCHANGED chan
                 \/ ~recv_ends(s) /\ Sleep(p, "recv", c, s, chan)
              /\ UNCHANGED sk
           \/ /\ sk[s].queue # <<>>
              /\ \/ /\ \E n \in lim.sizes : sk' = [sk EXCEPT ![s].queue = recv_rest(s, n)]
                    /\ chan' = wakeup({s})
                 \/ UNCHANGED <<sk, chan>> \* MSG_PEEK
              /\ Return(p)
        /\ UNCHANGED <<names, procs>>

Recv(p, s) == Enters(p, s) /\ lim.sizes # {} /\ do_recv(p, [NoCall EXCEPT !.sock = s])

RecvAgain(p) == Awake(p, "recv") /\ do_recv(p, call[p])

-----------------------------------------------------------------------------
(* Sending *)

\* Mutant: a shutdown is only looked for when the call starts.
stream_send_over_unshut(s) == sk[s].peer = NONE

\* Nobody will read what is sent.
stream_send_over(s) == sk[s].wr_shut \/ sk[s].peer \notin {t \in Socks : ~sk[t].rd_shut}

\* Copy what fits and wake the reader.  A send that is not done is now facing
\* a full buffer: it returns what it has done, or sleeps, in the same go.
stream_send_some(p, c, t, nonblock) ==
    LET room == SOCK_BUF - Len(sk[t].queue)
        k    == IF c.size - c.done < room THEN c.size - c.done ELSE room
    IN  /\ room > 0
        /\ sk' = [sk EXCEPT ![t].queue = @ \o [i \in 1 .. k |-> 1]]
        /\ \/ /\ c.done + k = c.size \/ nonblock \/ sig[p]
              /\ Return(p) /\ chan' = wakeup({t})
           \/ /\ c.done + k < c.size /\ ~nonblock
              /\ Sleep(p, "send", [c EXCEPT !.done = @ + k], t, wakeup({t}))

\* Full: the bytes so far, or wait for the reader.
stream_send_full(p, c, t, nonblock) ==
    /\ Len(sk[t].queue) = SOCK_BUF
    /\ \/ (nonblock \/ sig[p]) /\ Return(p) /\ UNCHANGED chan
       \/ ~nonblock /\ Sleep(p, "send", c, t, chan)
    /\ UNCHANGED sk

stream_send(p, c, nonblock) ==
    LET t == sk[c.sock].peer
    IN  \/ stream_send_over(c.sock) /\ Return(p) /\ UNCHANGED <<sk, chan>>
        \/ /\ ~stream_send_over(c.sock)
           /\ stream_send_full(p, c, t, nonblock) \/ stream_send_some(p, c, t, nonblock)

\* Mutant: any room will do.
dgram_fits_any(t, n) == Queued(sk[t].queue) < SOCK_BUF

dgram_fits(t, n) == Queued(sk[t].queue) + n <= SOCK_BUF

\* A datagram goes whole, or waits for its receiver, which is looked up again
\* after: it may have gone.
dgram_send(p, c) ==
    LET t == dgram_target(c.sock, c.to)
    IN  \/ t = NONE /\ Return(p) /\ UNCHANGED <<sk, chan>>
        \/ /\ t # NONE /\ dgram_fits(t, c.size)
           /\ \/ sk' = [sk EXCEPT ![t].queue = Append(@, c.size)] /\ chan' = wakeup({t})
              \/ UNCHANGED <<sk, chan>> \* no memory for it
           /\ Return(p)
        \/ /\ t # NONE /\ ~dgram_fits(t, c.size)
           /\ \/ sig[p] /\ Return(p) /\ UNCHANGED chan
              \/ Sleep(p, "send", c, t, chan)
           /\ UNCHANGED sk

do_send(p, c, nonblock) ==
    /\ IF sk[c.sock].type = "stream" THEN stream_send(p, c, nonblock) ELSE dgram_send(p, c)
    /\ UNCHANGED <<names, procs>>

\* Nonblocking calls that would sleep return -EAGAIN and change nothing; the
\* one that matters is a stream send that has copied a part.
Send(p, s, n, to, nonblock) ==
    /\ Enters(p, s)
    /\ sk[s].type = "stream" => to = NONE /\ sk[s].state = "connected"
    /\ sk[s].type = "dgram" => n <= SOCK_BUF /\ ~nonblock
    /\ do_send(p, [NoCall EXCEPT !.sock = s, !.size = n, !.to = to], nonblock)

SendAgain(p) == Awake(p, "send") /\ do_send(p, call[p], FALSE)

-----------------------------------------------------------------------------
(* Shutting down, closing, forking, exiting, and the file system *)

sys_shutdown(p, s, how) ==
    LET t == sk[s].peer
    IN  /\ Event("shutdown") /\ Enters(p, s) /\ sk[s].state = "connected"
        /\ sk' = [r \in Socks |->
              [sk[r] EXCEPT !.rd_shut = @ \/ (r = s /\ how # "wr"),
                            !.wr_shut = @ \/ (r = s /\ how # "rd"),
                            !.eof = @ \/ (r = t /\ how # "rd")]]
        /\ chan' = wakeup((IF how # "wr" THEN {s} ELSE {}) \cup
                          (IF how # "rd" THEN {t} \ {NONE} ELSE {}))
        /\ UNCHANGED <<names, procs>> /\ Quiet

Close(p, s) == Enters(p, s) /\ Put(p, {s}) /\ UNCHANGED alive /\ Quiet

Fork(p, c) == /\ Awake(p, "user") /\ c \notin alive
              /\ alive' = alive \cup {c}
              /\ fds' = [fds EXCEPT ![c] = fds[p]]
              /\ UNCHANGED <<sk, names, chan>> /\ Quiet

Exit(p) == /\ Awake(p, "user")
           /\ Put(p, fds[p])
           /\ alive' = alive \ {p}
           /\ Quiet

\* The file is unlinked: the socket itself does not notice.
Unlink(n) == /\ Event("unlink") /\ names[n] # NONE
             /\ names' = [names EXCEPT ![n] = NONE]
             /\ UNCHANGED <<sk, procs, chan>> /\ Quiet

\* signal_send() to a process in a call; in user mode it is acted on at once.
Signal(p) == /\ Event("signal") /\ p \in alive /\ pc[p] # "user" /\ ~sig[p]
             /\ sig' = [sig EXCEPT ![p] = TRUE]
             /\ chan' = [chan EXCEPT ![p] = NONE]
             /\ UNCHANGED <<sk, names, procs, pc, call>>

\* What poll() reports of s.
sock_poll_listening(s) == IF sk[s].backlog # <<>> THEN {"in"} ELSE {}

sock_poll(s) ==
    CASE sk[s].state = "listening" -> sock_poll_listening(s)
      [] sk[s].type = "dgram" -> (IF sk[s].queue # <<>> THEN {"in"} ELSE {}) \cup {"out"}
      [] sk[s].type = "stream" /\ sk[s].state = "unconnected" -> {}
      [] OTHER ->
           (IF sk[s].queue # <<>> \/ sk[s].eof \/ sk[s].rd_shut THEN {"in"} ELSE {}) \cup
           (IF sk[s].peer = NONE THEN (IF sk[s].eof THEN {"hup"} ELSE {})
            ELSE IF Len(sk[sk[s].peer].queue) < SOCK_BUF THEN {"out"} ELSE {})

-----------------------------------------------------------------------------
Init == /\ sk = [s \in Socks |-> NoSock]
        /\ names = [n \in Names |-> NONE]
        /\ fds = [p \in Procs |-> {}]
        /\ alive = {Creator}
        /\ pc = [p \in Procs |-> "user"] /\ call = [p \in Procs |-> NoCall]
        /\ chan = [p \in Procs |-> NONE] /\ sig = [p \in Procs |-> FALSE]
        /\ lim \in Limits /\ event = FALSE

\* A call in progress goes on.
Step(p) == ConnectAgain(p) \/ AcceptAgain(p) \/ RecvAgain(p) \/ SendAgain(p)

Calls(p, s) ==
    \/ \E n \in Names : sys_bind(p, s, n) \/ ConnectStream(p, s, n)
    \/ \E b \in Backlogs : sys_listen(p, s, b)
    \/ ConnectDgram(p, s)
    \/ Accept(p, s)
    \/ Recv(p, s)
    \/ \E n \in lim.sizes, to \in Names \cup {NONE}, nb \in BOOLEAN : Send(p, s, n, to, nb)
    \/ Close(p, s)

Next ==
    \/ /\ \E p \in Procs : \/ Step(p)
                           \/ sys_socket(p) \/ sys_socketpair(p)
                           \/ \E s \in Socks : Calls(p, s)
                           \/ \E c \in Procs : Fork(p, c)
                           \/ Exit(p)
       /\ UNCHANGED <<lim, event>>
    \/ /\ \/ \E p \in Procs : Signal(p)
          \/ \E p \in Procs, s \in Socks, how \in {"rd", "wr", "rdwr"} : sys_shutdown(p, s, how)
          \/ \E n \in Names : Unlink(n)
       /\ UNCHANGED lim

Spec == Init /\ [][Next]_vars

-----------------------------------------------------------------------------
(* Properties *)

\* Every variable has its type; what is queued stays within SOCK_BUF and
\* what is to be accepted within the array of sock_t.
TypeOK ==
    /\ \A s \in Socks :
          /\ sk[s].state \in {"free", "unconnected", "listening", "connected"}
          /\ sk[s].peer \in Socks \cup {NONE} /\ sk[s].peername \in Names \cup {NONE}
          /\ sk[s].queue \in Seq(Nat) /\ Queued(sk[s].queue) <= SOCK_BUF
          /\ sk[s].backlog \in Seq(Socks) /\ Len(sk[s].backlog) <= BACKLOG
    /\ names \in [Names -> Socks \cup {NONE, GONE}]
    /\ fds \in [Procs -> SUBSET Socks] /\ alive \subseteq Procs
    /\ pc \in [Procs -> {"user", "connect", "accept", "recv", "send"}]
    /\ chan \in [Procs -> Socks \cup {NONE}] /\ sig \in [Procs -> BOOLEAN]
    /\ lim \in Limits /\ event \in BOOLEAN

\* socket.c:13: "Nothing points at a socket that can go away without being
\* told": the two ends of a connection point at each other, whoever closes,
\* exits or connects in between, and names and sleepers know live sockets.
NothingDangles ==
    /\ \A s \in Live : sk[s].peer # NONE => sk[s].peer \in Live /\ sk[sk[s].peer].peer = s
    /\ \A n \in Names : names[n] \in Socks => names[n] \in Live /\ sk[names[n]].bound
    /\ \A p \in Procs : chan[p] # NONE => chan[p] \in Live

\* sock_free(), sys_accept4(): a socket lives as long as one process has a
\* descriptor of it or one listening socket keeps it to be accepted, and it is
\* never in two such places: none leaks, none is freed twice.
EveryLiveSocketIsHeld ==
    \A s \in Socks :
        LET waits == {l \in Live : s \in ToSet(sk[l].backlog)}
            held  == \E p \in Procs : s \in fds[p]
        IN  /\ s \in Live <=> held \/ waits # {}
            /\ held => waits = {}
            /\ Cardinality(waits) <= 1
            /\ \A l \in waits : sk[l].state = "listening" /\ IsInjective(sk[l].backlog)

\* No wakeup is lost, though readers, writers, connects and accepts of several
\* processes sleep on one address: whoever sleeps has nothing to do, and the
\* step that will give it something wakes the address it sleeps on.  (Two
\* calls change what a sleeper waits for without waking it, and are left out:
\* a second listen with a larger backlog, and dissolving the association of a
\* datagram socket.)
SleepersMustWait ==
    \A p \in Procs : chan[p] # NONE =>
        LET c == call[p]  s == c.sock
        IN  /\ ~sig[p]
            /\ pc[p] = "recv" => /\ chan[p] = s /\ sk[s].queue = <<>>
                                 /\ sk[s].state = "connected" => ~recv_ends(s)
            /\ pc[p] = "accept" => chan[p] = s /\ sk[s].backlog = <<>>
            /\ pc[p] = "connect" => Listener(chan[p]) /\ sk[chan[p]].backlog # <<>>
            /\ pc[p] = "send" /\ sk[s].type = "stream" =>
                  /\ ~stream_send_over(s) /\ chan[p] = sk[s].peer
                  /\ Len(sk[chan[p]].queue) = SOCK_BUF
            /\ pc[p] = "send" /\ sk[s].type = "dgram" =>
                  Queued(sk[chan[p]].queue) + c.size > SOCK_BUF

\* socket.c:105, eof: "nothing more will arrive": once a stream socket has
\* been told so no byte is added to its buffer, also by a send that was asleep
\* when its end was shut down.
EofIsFinal ==
    [][\A s \in Socks :
          sk[s].type = "stream" /\ sk[s].eof /\ sk'[s].state # "free"
             => IsSuffix(sk'[s].queue, sk[s].queue)]_vars

\* sock_poll(): a call never sleeps on a socket that poll() reports as ready
\* for it, and once a stream's end is known poll() reports it.
PollAgrees ==
    /\ \A p \in Procs : chan[p] # NONE =>
          /\ pc[p] \in {"recv", "accept"} => "in" \notin sock_poll(call[p].sock)
          /\ pc[p] = "send" /\ sk[call[p].sock].type = "stream" => "out" \notin sock_poll(call[p].sock)
    /\ \A s \in Live : sk[s].type = "stream" /\ sk[s].state = "connected" =>
          ("hup" \in sock_poll(s) <=> sk[s].peer = NONE)
=============================================================================
