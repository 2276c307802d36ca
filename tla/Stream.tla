------------------------------- MODULE Stream -------------------------------
(***************************************************************************)
(* What a pipe promises: a bounded first-in first-out stream of bytes with *)
(* a read end and a write end.  Bytes go in while there is a reader, come  *)
(* out in the order they went in, and an end once closed stays closed.     *)
(***************************************************************************)
EXTENDS Naturals, Sequences

CONSTANTS Byte, Capacity

VARIABLES queue,    \* the bytes in the pipe, oldest first
          readable, \* the read end is open
          writable  \* the write end is open

svars == <<queue, readable, writable>>

SInit == queue = <<>> /\ readable = TRUE /\ writable = TRUE

Put(chunk) == /\ readable /\ writable
              /\ chunk # <<>> /\ Len(queue) + Len(chunk) <= Capacity
              /\ queue' = queue \o chunk
              /\ UNCHANGED <<readable, writable>>

Take(n) == /\ readable
           /\ queue' = SubSeq(queue, n + 1, Len(queue))
           /\ UNCHANGED <<readable, writable>>

\* One end is closed, or both at once.
Close(r, w) == /\ readable' = (readable /\ ~r)
               /\ writable' = (writable /\ ~w)
               /\ UNCHANGED queue

Chunks == UNION {[1 .. n -> Byte] : n \in 1 .. Capacity}

SNext == \/ \E chunk \in Chunks : Put(chunk)
         \/ \E n \in 1 .. Len(queue) : Take(n)
         \/ \E r, w \in BOOLEAN : Close(r, w)

SSpec == SInit /\ [][SNext]_svars
=============================================================================
