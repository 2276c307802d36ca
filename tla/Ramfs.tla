------------------------------- MODULE Ramfs -------------------------------
(***************************************************************************)
(* The data of a ramfs file (src/kernel/vfs/ramfs.c).  A file's data is a  *)
(* buffer of whole pages, `data', of which the first `size' bytes are the  *)
(* file; the rest is slack that a longer file will read.  A file without a *)
(* buffer (node->ptr = NULL) has an empty one.                             *)
(***************************************************************************)
EXTENDS Integers, Sequences

CONSTANT PAGE_SIZE   \* bytes in a page

ASSUME RamfsAssumption == PAGE_SIZE \in Nat \ {0}

NoData == [data |-> <<>>, size |-> 0]

Bytes(fd) == SubSeq(fd.data, 1, fd.size)

align_up_page(n) == ((n + PAGE_SIZE - 1) \div PAGE_SIZE) * PAGE_SIZE

\* ramfs_read: the bytes from off on, at most n of them.
ramfs_read(fd, off, n) ==
    IF off >= fd.size THEN <<>>
    ELSE SubSeq(fd.data, off + 1, IF n > fd.size - off THEN fd.size ELSE off + n)

\* Room for n bytes: a larger buffer takes over the file's bytes and is zero
\* behind them.
reserve(fd, n) ==
    IF n <= Len(fd.data) THEN fd
    ELSE [fd EXCEPT !.data = [i \in 1..align_up_page(n) |->
                                 IF i <= fd.size THEN fd.data[i] ELSE 0]]

ramfs_write(fd, off, bytes) ==
    LET end == off + Len(bytes)
        buf == reserve(fd, end).data
    IN  [data |-> [i \in 1..Len(buf) |-> IF off < i /\ i <= end THEN bytes[i - off]
                                        ELSE IF fd.size < i /\ i <= off THEN 0
                                        ELSE buf[i]],
         size |-> IF end > fd.size THEN end ELSE fd.size]

\* Mutant: what a shorter file leaves behind is not cleared.
ramfs_truncate_lazy(fd, n) == [reserve(fd, n) EXCEPT !.size = n]

ramfs_truncate(fd, n) ==
    LET buf == reserve(fd, n).data
    IN  [data |-> [i \in 1..Len(buf) |-> IF n < i /\ i <= fd.size THEN 0 ELSE buf[i]],
         size |-> n]
=============================================================================
