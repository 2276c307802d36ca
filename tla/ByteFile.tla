------------------------------ MODULE ByteFile ------------------------------
(***************************************************************************)
(* What files promise their users: each is a sequence of bytes that a      *)
(* write replaces from a position on, that is cut or padded with zeros to  *)
(* a given length, and that is empty when the file is new or gone.         *)
(* Nothing else ever shows in a file: no byte of an earlier, longer        *)
(* content and no byte of another file.                                    *)
(***************************************************************************)
EXTENDS Integers, Sequences

CONSTANTS Ids,      \* the files
          MaxLen,   \* bound on a file's length
          Texts     \* what is written

VARIABLE content

\* The first n bytes, with zeros behind a shorter content.
Padded(c, n) == [i \in 1..n |-> IF i <= Len(c) THEN c[i] ELSE 0]

Written(c, off, t) ==
    LET end == off + Len(t)
    IN  [i \in 1..(IF end > Len(c) THEN end ELSE Len(c)) |->
            IF off < i /\ i <= end THEN t[i - off] ELSE Padded(c, i)[i]]

Init == content = [f \in Ids |-> <<>>]

Write(f) == \E off \in 0..MaxLen, t \in Texts :
              content' = [content EXCEPT ![f] = Written(@, off, t)]

Resize(f) == \E n \in 0..MaxLen : content' = [content EXCEPT ![f] = Padded(@, n)]

\* Several files may go in one step, with a filesystem or with a process.
Gone == \E gone \in SUBSET Ids :
          content' = [f \in Ids |-> IF f \in gone THEN <<>> ELSE content[f]]

Next == Gone \/ \E f \in Ids : Write(f) \/ Resize(f)

Spec == Init /\ [][Next]_content
=============================================================================
