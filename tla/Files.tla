------------------------------- MODULE Files -------------------------------
(***************************************************************************)
(* The file system calls (src/kernel/syscall/fs.c, chdir and fchdir of     *)
(* proc.c) of a few processes over the structures of Vfs.  Interrupts are  *)
(* off during a call and no call here sleeps, so each is one step.  A      *)
(* process has descriptors (fds, with the cloexec flags) and a current     *)
(* directory (cwd, NONE for the root); fork shares both, exec closes the   *)
(* flagged descriptors, exit gives everything back.                        *)
(*                                                                         *)
(* `lim' picks one of several small instances at the start: the calls made *)
(* in it, its paths, its open flags and the bounds of its pools.  Open     *)
(* flags are a set of names; "w" is O_RDWR, without it O_RDONLY.           *)
(***************************************************************************)
EXTENDS Vfs

CONSTANTS Procs,     \* processes
          Init1,     \* the process there is at the start
          FDs,       \* descriptors, an interval from 0
          MaxLen,    \* bound on a file's length
          Texts,     \* what is written: sequences of bytes
          Counts,    \* entries that fit the buffer of a getdents
          Limits,    \* the instances
          MountUsed  \* whether a directory in use is mounted on

ASSUME FilesAssumption ==
    /\ Init1 \in Procs
    /\ FDs \subseteq Nat /\ 0 \in FDs
    /\ MaxLen \in Nat
    /\ MountUsed \in BOOLEAN

VARIABLES fs,        \* the heap of Vfs
          fds,       \* p->fds
          cloexec,   \* p->cloexec, as the set of flagged descriptors
          cwd,       \* p->cwd
          alive,     \* processes
          lim        \* the instance

vars == <<fs, fds, cloexec, cwd, alive, lim>>

\* ---------------------------------------------------------------- helpers

Calls(p, call) == p \in alive /\ call \in lim.calls

\* The pools of an instance: addresses beyond them are never handed out.
Room(h) ==
    /\ Cardinality(Live(h.ino)) <= lim.inodes
    /\ h.seq <= lim.seq

\* A call's effect on the heap alone.
Heap(h) == Room(h) /\ fs' = h /\ UNCHANGED <<fds, cloexec, cwd, alive, lim>>

Open(p) == {fd \in FDs : fds[p][fd] # NONE}

cwd_inode(p) == IF cwd[p] = NONE THEN inode_of(fs, fs_root(fs)) ELSE cwd[p]

\* base_dir: the cwd or an open directory.
base_dir(p) ==
    {cwd_inode(p)} \cup {n \in {fs.file[fds[p][fd]].ino : fd \in Open(p)} : is_dir(fs, n)}

\* at_inode: what a path of p may name.
at_inode(p, path, follow) ==
    {vfs_resolve(fs, base, path, follow) : base \in base_dir(p)} \ {NONE}

\* at_parent: the directories a path of p may lie in.
at_parent(p, path) == {vfs_parent(fs, base, path) : base \in base_dir(p)} \ {NONE}

\* Mutant: the description is not given back.
fd_install_fails_leaking(h, f) == h

\* No descriptor is free: the description goes.
fd_install_fails(h, f) == file_put(h, f)

\* A descriptor's flag as asked for.
cloexec_set(set, newfd, cx) == IF cx THEN set \cup {newfd} ELSE set \ {newfd}

\* fd_install: the lowest free descriptor from min on.
fd_install(h, p, f, min, cx) ==
    LET free == {fd \in FDs : fd >= min /\ fds[p][fd] = NONE}
    IN  IF free = {}
        THEN Heap(fd_install_fails(h, f))
        ELSE /\ Room(h) /\ fs' = h
             /\ fds' = [fds EXCEPT ![p][Min(free)] = f]
             /\ cloexec' = [cloexec EXCEPT ![p] = cloexec_set(@, Min(free), cx)]
             /\ UNCHANGED <<cwd, alive, lim>>

\* ------------------------------------------------------------ descriptors

\* resolve of file.c: the inode a path names, or with O_CREAT a new file.  The
\* heap and the inode, for every directory the path may start from.
Resolved(p, path, flags) ==
    {<<fs, n>> : n \in {m \in at_inode(p, path, "nofollow" \notin flags) :
                          ~({"creat", "excl"} \subseteq flags) /\ fs.ino[m].type # "symlink"}}
    \cup
    {<<ramfs_create(fs, dir, Last(path), "file"), k_malloc(fs.ino)>> :
       dir \in {vfs_parent(fs, base, path) :
                  base \in {b \in base_dir(p) :
                      /\ "creat" \in flags
                      /\ vfs_resolve(fs, b, path, "nofollow" \notin flags) = NONE
                      /\ vfs_parent(fs, b, path) # NONE
                      /\ vfs_create_ok(fs, vfs_parent(fs, b, path), Last(path))}}}

\* file_open up to the description: what it refuses, then O_TRUNC.
file_open_ok(h, n, flags) ==
    /\ "directory" \in flags => is_dir(h, n)
    /\ is_dir(h, n) => "w" \notin flags
    /\ flags \cap {"w", "trunc"} # {} => ~vfs_readonly(h, n)

file_open_truncates(h, n, flags) ==
    IF {"w", "trunc"} \subseteq flags /\ h.ino[n].type = "file"
    THEN [h EXCEPT !.ino[n].data = ramfs_truncate(@, 0)] ELSE h

\* openat.  Without memory for a description a new file stays, and so does the
\* truncation.
sys_openat(p) ==
    /\ Calls(p, "open")
    /\ \E path \in lim.paths, flags \in lim.opens : \E r \in Resolved(p, path, flags) :
         /\ file_open_ok(r[1], r[2], flags)
         /\ LET h == file_open_truncates(r[1], r[2], flags)
                f == IF Cardinality(Live(h.file)) = lim.files THEN NONE ELSE k_malloc(h.file)
            IN  IF f = NONE THEN Heap(h)
                ELSE fd_install(file_alloc(h, f, r[2], flags \cap {"w", "append"}),
                                p, f, 0, "cloexec" \in flags)

\* Mutant: the flag stays.
sys_close_cloexec_kept(set, fd) == set

sys_close_cloexec(set, fd) == set \ {fd}

sys_close(p) ==
    /\ p \in alive
    /\ \E fd \in Open(p) :
         /\ fs' = file_put(fs, fds[p][fd])
         /\ fds' = [fds EXCEPT ![p][fd] = NONE]
         /\ cloexec' = [cloexec EXCEPT ![p] = sys_close_cloexec(@, fd)]
    /\ UNCHANGED <<cwd, alive, lim>>

\* dup and fcntl's F_DUPFD and F_DUPFD_CLOEXEC.
sys_dup(p) ==
    /\ Calls(p, "dup")
    /\ \E fd \in Open(p), min \in FDs, cx \in BOOLEAN :
         fd_install(file_get(fs, fds[p][fd]), p, fds[p][fd], min, cx)

\* dup2 and dup3: what newfd was is closed first.
sys_dup3(p) ==
    /\ Calls(p, "dup")
    /\ \E fd \in Open(p), newfd \in FDs, cx \in BOOLEAN :
         /\ fd # newfd
         /\ fs' = file_get(file_put(fs, fds[p][newfd]), fds[p][fd])
         /\ fds' = [fds EXCEPT ![p][newfd] = fds[p][fd]]
         /\ cloexec' = [cloexec EXCEPT ![p] = cloexec_set(@, newfd, cx)]
    /\ UNCHANGED <<cwd, alive, lim>>

\* fcntl's F_SETFD.
SetFd(p) ==
    /\ Calls(p, "dup")
    /\ \E fd \in Open(p), cx \in BOOLEAN :
         cloexec' = [cloexec EXCEPT ![p] = cloexec_set(@, fd, cx)]
    /\ UNCHANGED <<fs, fds, cwd, alive, lim>>

\* fcntl's F_SETFL: of the flags kept here, O_APPEND.
SetFl(p) ==
    /\ Calls(p, "data")
    /\ \E fd \in Open(p), append \in {{}, {"append"}} :
         Heap([fs EXCEPT !.file[fds[p][fd]].flags = (@ \ {"append"}) \cup append])

\* ------------------------------------------------------------------- data

\* do_read_at and do_write_at at the file's offset or at a given position,
\* which is left alone; the pieces of a readv or writev are one read or write.
\* A write may not reach beyond the largest offset.
Read(p) ==
    /\ Calls(p, "data")
    /\ \E fd \in Open(p), n \in 1..MaxLen :
         LET f == fs.file[fds[p][fd]]
         IN  /\ ~is_dir(fs, f.ino)
             /\ Heap([fs EXCEPT !.file[fds[p][fd]].offset =
                         @ + Len(ramfs_read(fs.ino[f.ino].data, @, n))])

\* O_APPEND moves the offset to the end first.
write_offset(f) == IF "append" \in f.flags THEN fs.ino[f.ino].data.size ELSE f.offset

Write(p) ==
    /\ Calls(p, "data")
    /\ \E fd \in Open(p), t \in Texts :
         LET f   == fs.file[fds[p][fd]]
             off == write_offset(f)
         IN  /\ "w" \in f.flags
             /\ off + Len(t) <= MaxLen
             /\ Heap([fs EXCEPT !.ino[f.ino].data = ramfs_write(@, off, t),
                                !.file[fds[p][fd]].offset = off + Len(t)])

\* pwrite64 and pwritev.
Pwrite(p) ==
    /\ Calls(p, "data")
    /\ \E fd \in Open(p), t \in Texts, pos \in 0..MaxLen :
         LET f == fs.file[fds[p][fd]]
         IN  /\ "w" \in f.flags
             /\ pos + Len(t) <= MaxLen
             /\ Heap([fs EXCEPT !.ino[f.ino].data = ramfs_write(@, pos, t)])

\* lseek of a file: SEEK_SET reaches every offset the others do.
sys_lseek(p) ==
    /\ Calls(p, "data")
    /\ \E fd \in Open(p), pos \in 0..MaxLen : Heap([fs EXCEPT !.file[fds[p][fd]].offset = pos])

\* set_length, for truncate and ftruncate.
set_length(n, length) ==
    /\ ~vfs_readonly(fs, n)
    /\ fs.ino[n].type = "file"
    /\ Heap([fs EXCEPT !.ino[n].data = ramfs_truncate(@, length)])

sys_truncate(p) ==
    /\ Calls(p, "data")
    /\ \E path \in lim.paths, length \in 0..MaxLen :
         \E n \in at_inode(p, path, TRUE) : set_length(n, length)

sys_ftruncate(p) ==
    /\ Calls(p, "data")
    /\ \E fd \in Open(p), length \in 0..MaxLen :
         "w" \in fs.file[fds[p][fd]].flags /\ set_length(fs.file[fds[p][fd]].ino, length)

\* ------------------------------------------------------------ directories

\* Mutant: the position is an index, as it is for generated directories.
getdents_child_at(h, list, idx) == IF idx - 1 > Len(list) THEN NONE ELSE list[idx - 1]

\* The first child at or behind a position.
getdents_child(h, list, idx) ==
    LET behind == SelectSeq(list, LAMBDA c : h.dents[c].seq >= idx)
    IN  IF behind = <<>> THEN NONE ELSE Head(behind)

\* The loop of do_getdents with room for k more entries.  `given' collects what
\* was returned since position 0, where `since' notes the counter.
RECURSIVE do_getdents(_, _, _)
do_getdents(h, f, k) ==
    LET file == h.file[f]
        idx  == file.offset
        d    == getdents_child(h, kids(h, file.ino), idx)
    IN  IF k = 0 THEN h
        ELSE IF idx = 0
        THEN do_getdents([h EXCEPT !.file[f] = [@ EXCEPT !.offset = 1, !.since = h.seq,
                                                !.given = <<>>, !.ended = FALSE]], f, k - 1)
        ELSE IF idx = 1 THEN do_getdents([h EXCEPT !.file[f].offset = 2], f, k - 1)
        ELSE IF d = NONE THEN [h EXCEPT !.file[f].ended = TRUE]
        ELSE do_getdents([h EXCEPT !.file[f] = [@ EXCEPT !.offset = h.dents[d].seq + 1,
                                                !.given = Append(@, h.dents[d].seq)]], f, k - 1)

sys_getdents64(p) ==
    /\ Calls(p, "getdents")
    /\ \E fd \in Open(p), k \in Counts :
         LET n == fs.file[fds[p][fd]].ino
         IN  is_dir(fs, n) /\ ~removed(fs, n) /\ Heap(do_getdents(fs, fds[p][fd], k))

\* lseek of a directory back to its start.
Rewind(p) ==
    /\ Calls(p, "getdents")
    /\ \E fd \in Open(p) : Heap([fs EXCEPT !.file[fds[p][fd]].offset = 0])

sys_mkdirat(p) ==
    /\ Calls(p, "mkdir")
    /\ \E path \in lim.paths : \E dir \in at_parent(p, path) :
         vfs_create_ok(fs, dir, Last(path)) /\ Heap(ramfs_create(fs, dir, Last(path), "dir"))

\* The target is written into the new inode.  Without memory it stays empty.
sys_symlinkat(p) ==
    /\ Calls(p, "symlink")
    /\ \E path \in lim.paths, target \in lim.paths \cup {<<>>} : \E dir \in at_parent(p, path) :
         /\ vfs_create_ok(fs, dir, Last(path))
         /\ Heap([ramfs_create(fs, dir, Last(path), "symlink") EXCEPT
                     !.ino[k_malloc(fs.ino)].data = target])

sys_unlinkat(p) ==
    /\ Calls(p, "unlink")
    /\ \E path \in lim.paths : \E dir \in at_parent(p, path) :
         /\ vfs_unlink_ok(fs, dir, Last(path)) \/ vfs_rmdir_ok(fs, dir, Last(path))
         /\ Heap(drop(fs, vfs_child(fs, dir, Last(path))))

sys_linkat(p) ==
    /\ Calls(p, "link")
    /\ \E old \in lim.paths, new \in lim.paths, follow \in BOOLEAN :
         \E target \in at_inode(p, old, follow), dir \in at_parent(p, new) :
           vfs_link_ok(fs, dir, Last(new), target) /\ Heap(vfs_link(fs, dir, Last(new), target))

sys_renameat2(p) ==
    /\ Calls(p, "rename")
    /\ \E old \in lim.paths, new \in lim.paths, noreplace \in BOOLEAN :
         \E odir \in at_parent(p, old), ndir \in at_parent(p, new) :
           LET src == vfs_child(fs, odir, Last(old))
               dst == vfs_child(fs, ndir, Last(new))
           IN  /\ src # NONE
               /\ vfs_rename_ok(fs, odir, src, ndir, dst, noreplace)
               /\ Heap(vfs_rename(fs, src, ndir, dst, Last(new)))

\* set_cwd: the new directory is taken before the old one is given back.
set_cwd(p, n) ==
    /\ is_dir(fs, n)
    /\ fs' = LET h == vfs_iget(fs, n) IN IF cwd[p] = NONE THEN h ELSE vfs_iput(h, cwd[p])
    /\ cwd' = [cwd EXCEPT ![p] = n]
    /\ UNCHANGED <<fds, cloexec, alive, lim>>

sys_chdir(p) ==
    /\ Calls(p, "chdir")
    /\ \E path \in lim.paths \cup {<<"..">>, <<"/">>} :
         LET n == vfs_resolve(fs, cwd_inode(p), path, TRUE) IN n # NONE /\ set_cwd(p, n)

sys_fchdir(p) ==
    /\ Calls(p, "chdir")
    /\ \E fd \in Open(p) : set_cwd(p, fs.file[fds[p][fd]].ino)

\* ----------------------------------------------------------------- mounts

\* A tmpfs on a directory.  ramfs_init makes a root dentry, which goes again when
\* the mountpoint takes its place.  The heap may refuse the inode, the dentry or the
\* mount_t (got is FALSE); every attempt takes a device number.
sys_mount(p) ==
    /\ Calls(p, "mount")
    /\ fs.dev <= lim.devs
    /\ \E path \in lim.paths \cup {<<".">>}, ro \in BOOLEAN :
         LET t == vfs_resolve(fs, cwd_inode(p), path, TRUE)
         IN  /\ t # NONE
             /\ is_dir(fs, t)
             /\ MountUsed \/ fs.ino[t].refs = 0 \/ removed(fs, t)
             /\ fs.mounts[vfs_mount_of(fs, fs.ino[t].dev)].root # t
             /\ \E n \in {k_malloc(fs.ino), NONE}, d \in {k_malloc(fs.dents), NONE}, got \in BOOLEAN :
                  Heap(IF n # NONE /\ d # NONE /\ got THEN vfs_mount(fs, t, ro)
                       ELSE mount_fails(fs, n, d))

\* The mounts whose root a path of p names.
Mounted(p) ==
    LET named == {vfs_resolve(fs, cwd_inode(p), path, TRUE) : path \in lim.paths \cup {<<"/">>}}
    IN  {i \in 1..Len(fs.mounts) : fs.mounts[i].root \in named}

\* mount with MS_REMOUNT.
Remount(p) ==
    /\ Calls(p, "mount")
    /\ \E i \in Mounted(p), ro \in BOOLEAN : Heap([fs EXCEPT !.mounts[i].ro = ro])

\* Mutant: only open files count.
fs_busy_files(dev) ==
    \E p \in alive : \E fd \in Open(p) : fs.ino[fs.file[fds[p][fd]].ino].dev = dev

fs_busy(dev) ==
    \/ \E p \in alive : \/ cwd[p] # NONE /\ fs.ino[cwd[p]].dev = dev
                        \/ \E fd \in Open(p) : fs.ino[fs.file[fds[p][fd]].ino].dev = dev
    \/ \E i \in 1..Len(fs.mounts) :
         fs.mounts[i].covered # NONE /\ fs.ino[fs.mounts[i].covered].dev = dev

sys_umount2(p) ==
    /\ Calls(p, "mount")
    /\ \E i \in Mounted(p) :
         /\ ~fs_busy(fs.ino[fs.mounts[i].root].dev)
         /\ fs.mounts[i].covered # NONE
         /\ Heap(vfs_umount(fs, i))

\* -------------------------------------------------------------- processes

AllOf(p, set) == SetToSeq({fd \in set : fds[p][fd] # NONE})

\* process_fork: the child shares the descriptions and the cwd.
Fork(p) ==
    /\ Calls(p, "fork")
    /\ \E q \in Procs \ alive :
         LET h == FoldLeft(LAMBDA g, fd : file_get(g, fds[p][fd]), fs, AllOf(p, FDs))
         IN  /\ fs' = IF cwd[p] = NONE THEN h ELSE vfs_iget(h, cwd[p])
             /\ fds' = [fds EXCEPT ![q] = fds[p]]
             /\ cloexec' = [cloexec EXCEPT ![q] = cloexec[p]]
             /\ cwd' = [cwd EXCEPT ![q] = cwd[p]]
             /\ alive' = alive \cup {q}
    /\ UNCHANGED lim

\* process_execve closes the flagged descriptors.
Exec(p) ==
    /\ p \in alive
    /\ cloexec[p] # {}
    /\ fs' = FoldLeft(LAMBDA g, fd : file_put(g, fds[p][fd]), fs, AllOf(p, cloexec[p]))
    /\ fds' = [fds EXCEPT ![p] = [fd \in FDs |-> IF fd \in cloexec[p] THEN NONE ELSE @[fd]]]
    /\ cloexec' = [cloexec EXCEPT ![p] = {}]
    /\ UNCHANGED <<cwd, alive, lim>>

\* process_exit gives the descriptions and the cwd back.  init never exits.
Exit(p) ==
    /\ p \in alive \ {Init1}
    /\ LET h == FoldLeft(LAMBDA g, fd : file_put(g, fds[p][fd]), fs, AllOf(p, FDs))
       IN  fs' = IF cwd[p] = NONE THEN h ELSE vfs_iput(h, cwd[p])
    /\ fds' = [fds EXCEPT ![p] = [fd \in FDs |-> NONE]]
    /\ cloexec' = [cloexec EXCEPT ![p] = {}]
    /\ cwd' = [cwd EXCEPT ![p] = NONE]
    /\ alive' = alive \ {p}
    /\ UNCHANGED lim

\* --------------------------------------------------------- specification

\* vfs_init: an empty root filesystem, without /dev.
Init ==
    /\ fs = [ino |-> [n \in Inodes |-> IF n = Min(Inodes) THEN NewInode("dir", 0, Min(Dents))
                                       ELSE FREE],
             dents |-> [d \in Dents |-> IF d = Min(Dents) THEN NewDent("/", Min(Inodes))
                                        ELSE FREE],
             seq |-> 2, dev |-> 1,
             mounts |-> <<[mp |-> Min(Dents), root |-> Min(Inodes), ro |-> FALSE,
                           covered |-> NONE, covered_children |-> <<>>]>>,
             file |-> [f \in Files |-> FREE]]
    /\ fds = [p \in Procs |-> [fd \in FDs |-> NONE]]
    /\ cloexec = [p \in Procs |-> {}]
    /\ cwd = [p \in Procs |-> NONE]
    /\ alive = {Init1}
    /\ lim \in Limits

Next ==
    \E p \in Procs :
      \/ sys_openat(p) \/ sys_close(p) \/ sys_dup(p) \/ sys_dup3(p) \/ SetFd(p) \/ SetFl(p)
      \/ Read(p) \/ Write(p) \/ Pwrite(p) \/ sys_lseek(p) \/ sys_truncate(p) \/ sys_ftruncate(p)
      \/ sys_getdents64(p) \/ Rewind(p)
      \/ sys_mkdirat(p) \/ sys_symlinkat(p) \/ sys_unlinkat(p) \/ sys_linkat(p) \/ sys_renameat2(p)
      \/ sys_chdir(p) \/ sys_fchdir(p)
      \/ sys_mount(p) \/ Remount(p) \/ sys_umount2(p)
      \/ Fork(p) \/ Exec(p) \/ Exit(p)

Spec == Init /\ [][Next]_vars

\* ------------------------------------------------------------- properties

\* Every structure has its shape, the lists and counters their bounds, and a
\* close-on-exec flag only ever belongs to an open descriptor.
TypeOK ==
    /\ \A n \in Live(fs.ino) :
         /\ fs.ino[n].type \in {"file", "dir", "symlink"}
         /\ fs.ino[n].dev \in 0..fs.dev /\ fs.ino[n].nlink \in Nat /\ fs.ino[n].refs \in Nat
         /\ fs.ino[n].ptr \in IF is_dir(fs, n) THEN Dents \cup {NONE} ELSE {NONE}
    /\ \A d \in Live(fs.dents) :
         /\ fs.dents[d].name \in Names \cup {"/"} /\ fs.dents[d].seq < fs.seq
         /\ fs.dents[d].ino \in Inodes /\ fs.dents[d].parent \in Dents \cup {NONE}
    /\ \A f \in Live(fs.file) : fs.file[f].ino \in Inodes /\ fs.file[f].offset \in Nat
    /\ fds \in [Procs -> [FDs -> Files \cup {NONE}]]
    /\ cwd \in [Procs -> Inodes \cup {NONE}]
    /\ alive \subseteq Procs
    /\ \A p \in Procs : cloexec[p] \subseteq Open(p)

\* Every counter that decides when something is freed is exact: nlink is the
\* number of names of an inode (a covered directory is named by its mount), refs
\* of an inode the descriptions and current directories that use it, refs of a
\* description the descriptors of all processes.
CountsAreExact ==
    /\ \A n \in Live(fs.ino) :
         /\ fs.ino[n].nlink = Cardinality({d \in Live(fs.dents) : fs.dents[d].ino = n})
                             + Cardinality({i \in DOMAIN fs.mounts : fs.mounts[i].covered = n})
         /\ fs.ino[n].refs = Cardinality({f \in Live(fs.file) : fs.file[f].ino = n})
                            + Cardinality({p \in alive : cwd[p] = n})
    /\ \A f \in Live(fs.file) :
         fs.file[f].refs = Cardinality({<<p, fd>> \in alive \X FDs : fds[p][fd] = f})

\* What a descriptor, a current directory, a name or a mount refers to is never
\* freed, whatever the others unlink, rename, unmount or close; and an inode
\* that has neither a name nor a user is freed.  Only what a mount that ran out of
\* memory left behind stays allocated for nothing: it is LOST, and counts here no
\* more (ramfs.c:156, vfs.c:553).
FreedWhenUnused ==
    /\ \A p \in alive : /\ cwd[p] # NONE => cwd[p] \in Live(fs.ino)
                        /\ \A fd \in Open(p) : fds[p][fd] \in Live(fs.file)
    /\ \A f \in Live(fs.file) : fs.file[f].ino \in Live(fs.ino)
    /\ \A d \in Live(fs.dents) : fs.dents[d].ino \in Live(fs.ino)
    /\ \A i \in DOMAIN fs.mounts : /\ fs.mounts[i].mp \in Live(fs.dents)
                                   /\ fs.mounts[i].root \in Live(fs.ino)
    /\ \A n \in Live(fs.ino) :
         /\ fs.ino[n].ptr # NONE => fs.ino[n].ptr \in Live(fs.dents)
         /\ fs.ino[n].nlink > 0 \/ fs.ino[n].refs > 0

\* The lists of children: of the dentries and of what mounts cover.
Lists == {<<d, fs.dents[d].kids>> : d \in Live(fs.dents)}
         \cup {<<fs.mounts[i].mp, fs.mounts[i].covered_children>> : i \in DOMAIN fs.mounts}

\* The names form trees below the roots of the mounts, so that ".." and the
\* ancestor check of rename end: every dentry is in exactly one list, its
\* parent's, and is reached from a root.  Along a list names differ and seq rises
\* (the comment on dentry_t.seq).  A directory has one name, which its ptr finds
\* unless a mount covers it.
TreeIsATree ==
    LET roots == {fs.mounts[i].mp : i \in {j \in DOMAIN fs.mounts : fs.mounts[j].covered = NONE}}
        reached == roots \cup UNION {tree(fs, fs.dents[r].kids) : r \in roots}
                   \cup UNION {tree(fs, fs.mounts[i].covered_children) : i \in DOMAIN fs.mounts}
    IN  /\ Live(fs.dents) = reached
        /\ \A d \in Live(fs.dents) \ roots :
             Cardinality({l \in Lists : d \in ToSet(l[2])}) = 1
        /\ \A l \in Lists : \A i, j \in DOMAIN l[2] :
             /\ fs.dents[l[2][i]].parent = l[1]
             /\ i < j => /\ fs.dents[l[2][i]].seq < fs.dents[l[2][j]].seq
                         /\ fs.dents[l[2][i]].name # fs.dents[l[2][j]].name
        /\ \A d \in Live(fs.dents) :
             is_dir(fs, fs.dents[d].ino) => fs.ino[fs.dents[d].ino].ptr = d

\* A directory read in pieces while others add, remove and rename its entries:
\* no entry is given twice, and when the end is reported every entry that was
\* there all the time was given (do_getdents' positions, the comment on
\* vfs_add_child).
ScanGivesEachOnce ==
    \A f \in Live(fs.file) :
      /\ \A i, j \in DOMAIN fs.file[f].given : i # j => fs.file[f].given[i] # fs.file[f].given[j]
      /\ fs.file[f].ended =>
           \A c \in ToSet(kids(fs, fs.file[f].ino)) :
             fs.dents[c].seq < fs.file[f].since => fs.dents[c].seq \in ToSet(fs.file[f].given)

\* A dentry names something on a device; the device is mounted read-only.
OnDevice(h, d, dev) == IF d \in Live(h.dents) THEN h.ino[h.dents[d].ino].dev = dev ELSE FALSE

ReadOnlyDevice(h, dev) ==
    \E i \in DOMAIN h.mounts : h.mounts[i].ro /\ h.ino[h.mounts[i].root].dev = dev

\* While a filesystem is and stays mounted read-only, no name on it comes, goes,
\* moves or changes, through whichever call or path (vfs_readonly).
ReadOnlyNamesStand ==
    [][\A dev \in 0..fs.dev : ReadOnlyDevice(fs, dev) /\ ReadOnlyDevice(fs', dev) =>
         \A d \in Dents :
           /\ OnDevice(fs, d, dev) => /\ d \in Live(fs'.dents)
                                      /\ fs'.dents[d].name = fs.dents[d].name
                                      /\ fs'.dents[d].parent = fs.dents[d].parent
           /\ OnDevice(fs', d, dev) => d \in Live(fs.dents)]_vars

Contents(n) == IF n \notin Live(fs.ino) THEN <<>>
               ELSE IF fs.ino[n].type = "file" THEN Bytes(fs.ino[n].data) ELSE <<>>

Abstract == INSTANCE ByteFile WITH Ids <- Inodes, content <- [n \in Inodes |-> Contents(n)]

\* The files implement ByteFile: whatever writes at any offset, through any
\* description, truncations and reuse of its inode come together, a file is the
\* sequence of bytes that was written with zeros between (ramfs.c's reserve:
\* "new bytes read as zero").
FilesAreByteFiles == Abstract!Spec
=============================================================================
