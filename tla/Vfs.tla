-------------------------------- MODULE Vfs --------------------------------
(***************************************************************************)
(* Names, inodes, open file descriptions and mounts (src/kernel/vfs/vfs.c, *)
(* file.c, ramfs.c).  The kernel's data structures are one record, the     *)
(* heap h:                                                                 *)
(*   ino     the inodes: type, dev, nlink, refs, ptr (a directory's        *)
(*           dentry, NONE once it is removed) and data (a file's bytes or  *)
(*           a symlink's target);                                          *)
(*   dents   the dentries: name, ino, parent, kids (the list first_child / *)
(*           next_sibling) and seq;                                        *)
(*   seq     the counter of vfs_add_child;                                 *)
(*   mounts  the list of mounts, the newest first;                         *)
(*   dev     the next device number of a tmpfs;                            *)
(*   file    the open file descriptions: ino, offset, flags, refs, and     *)
(*           what readdir gave since its position was last 0.              *)
(* Every operator takes a heap and gives the heap its function leaves.     *)
(* The caller is root, to whom cred_permission and cred_may_delete refuse  *)
(* nothing here; a call that is refused leaves the heap alone.  Times,     *)
(* owners and modes are left out.                                          *)
(***************************************************************************)
EXTENDS Ramfs, FiniteSets, SequencesExt

CONSTANTS Inodes,        \* addresses of inodes, a finite subset of Nat
          Dents,         \* addresses of dentries
          Files,         \* addresses of open file descriptions
          Names,         \* names of directory entries
          MAX_SYMLINKS,  \* symlinks followed in one lookup
          NONE,          \* the null pointer
          FREE,          \* contents of an address that is not allocated
          LOST           \* contents of one that a failed mount allocated and forgot

ASSUME VfsAssumption ==
    /\ Inodes \subseteq Nat /\ Dents \subseteq Nat /\ Files \subseteq Nat
    /\ MAX_SYMLINKS \in Nat
    /\ FREE # LOST

\* k_malloc: the lowest free address of a pool, NONE when there is none left.
k_malloc(pool) == LET free == {a \in DOMAIN pool : pool[a] = FREE}
                  IN  IF free = {} THEN NONE ELSE Min(free)

Live(pool) == {a \in DOMAIN pool : pool[a] \notin {FREE, LOST}}

fs_root(h) == Last(h.mounts).mp

is_dir(h, n) == h.ino[n].type = "dir"

\* The inode goes when no name and no reference is left.
destroyed(h, n) ==
    IF h.ino[n].nlink = 0 /\ h.ino[n].refs = 0 THEN [h EXCEPT !.ino[n] = FREE] ELSE h

vfs_iget(h, n) == [h EXCEPT !.ino[n].refs = @ + 1]

vfs_iput(h, n) == destroyed([h EXCEPT !.ino[n].refs = @ - 1], n)

\* A removed directory has lost its dentry.
removed(h, dir) == h.ino[dir].ptr = NONE

kids(h, dir) == IF is_dir(h, dir) /\ ~removed(h, dir) THEN h.dents[h.ino[dir].ptr].kids
                ELSE <<>>

\* The first child of that name.
vfs_child(h, dir, name) ==
    LET found == SelectSeq(kids(h, dir), LAMBDA c : h.dents[c].name = name)
    IN  IF found = <<>> THEN NONE ELSE Head(found)

inode_of(h, d) == IF d = NONE THEN NONE ELSE h.dents[d].ino

\* One path component.
step(h, dir, name) ==
    CASE name = "."  -> dir
      [] name = ".." -> IF removed(h, dir) \/ h.dents[h.ino[dir].ptr].parent = NONE THEN dir
                        ELSE inode_of(h, h.dents[h.ino[dir].ptr].parent)
      [] OTHER       -> inode_of(h, vfs_child(h, dir, name))

\* Path resolution: the inode a path names, or NONE.  A path is a sequence of
\* components, an absolute one begins with "/".
RECURSIVE walk(_, _, _, _, _)
walk(h, cur, path, follow, depth) ==
    IF path = <<>> THEN cur
    ELSE IF Head(path) = "/" THEN walk(h, inode_of(h, fs_root(h)), Tail(path), follow, depth)
    ELSE IF ~is_dir(h, cur) THEN NONE
    ELSE LET next == step(h, cur, Head(path))
             rest == Tail(path)
         IN  IF next = NONE THEN NONE
             ELSE IF h.ino[next].type # "symlink" \/ (rest = <<>> /\ ~follow)
                  THEN walk(h, next, rest, follow, depth)
             ELSE IF depth = MAX_SYMLINKS THEN NONE
             ELSE LET target == walk(h, cur, h.ino[next].data, TRUE, depth + 1)
                  IN  IF target = NONE THEN NONE ELSE walk(h, target, rest, follow, depth)

vfs_resolve(h, base, path, follow) == walk(h, base, path, follow, 0)

\* The directory of the last component, or NONE; the component is Last(path).
vfs_parent(h, base, path) ==
    IF Last(path) \in {"/", ".", ".."} THEN NONE
    ELSE LET n == vfs_resolve(h, base, Front(path), TRUE)
         IN  IF n # NONE /\ is_dir(h, n) THEN n ELSE NONE

\* The first mount of a device, as an index of the list, or NONE.
vfs_mount_of(h, dev) ==
    LET of == {i \in 1..Len(h.mounts) : h.ino[h.mounts[i].root].dev = dev}
    IN  IF of = {} THEN NONE ELSE Min(of)

vfs_readonly(h, n) ==
    LET i == vfs_mount_of(h, h.ino[n].dev) IN IF i = NONE THEN FALSE ELSE h.mounts[i].ro

vfs_add_child(h, parent, d) ==
    [h EXCEPT !.seq = @ + 1,
              !.dents[d].seq = h.seq,
              !.dents[d].parent = parent,
              !.dents[parent].kids = Append(@, d)]

NewInode(type, dev, ptr) ==
    [type |-> type, dev |-> dev, nlink |-> 1, refs |-> 0, ptr |-> ptr,
     data |-> IF type = "file" THEN NoData ELSE <<>>]

NewDent(name, n) == [name |-> name, ino |-> n, parent |-> NONE, kids |-> <<>>, seq |-> 0]

\* ramfs_create: a new inode and the dentry that names it, last in its directory.
ramfs_create(h, dir, name, type) ==
    LET n == k_malloc(h.ino)
        d == k_malloc(h.dents)
    IN  vfs_add_child([h EXCEPT !.ino[n] = NewInode(type, h.ino[dir].dev,
                                                    IF type = "dir" THEN d ELSE NONE),
                                !.dents[d] = NewDent(name, n)],
                      h.ino[dir].ptr, d)

\* When vfs_create succeeds.
vfs_create_ok(h, dir, name) ==
    /\ is_dir(h, dir)
    /\ vfs_child(h, dir, name) = NONE
    /\ ~removed(h, dir)
    /\ ~vfs_readonly(h, dir)
    /\ k_malloc(h.ino) # NONE
    /\ k_malloc(h.dents) # NONE

detach(h, d) ==
    [h EXCEPT !.dents[h.dents[d].parent].kids = SelectSeq(@, LAMBDA c : c # d)]

\* Drop a name.
drop(h, d) ==
    LET n == h.dents[d].ino
        g == [detach(h, d) EXCEPT !.dents[d] = FREE,
                                  !.ino[n].ptr = NONE,
                                  !.ino[n].nlink = @ - 1]
    IN  destroyed(g, n)

vfs_unlink_ok(h, dir, name) ==
    LET d == vfs_child(h, dir, name)
    IN  d # NONE /\ ~is_dir(h, h.dents[d].ino) /\ ~vfs_readonly(h, dir)

mountpoint(h, n) ==
    h.ino[n].dev # h.ino[inode_of(h, h.dents[h.ino[n].ptr].parent)].dev

vfs_rmdir_ok(h, dir, name) ==
    LET d == vfs_child(h, dir, name)
        n == inode_of(h, d)
    IN  IF d = NONE THEN FALSE
        ELSE is_dir(h, n) /\ ~mountpoint(h, n) /\ h.dents[d].kids = <<>> /\ ~vfs_readonly(h, dir)

vfs_link_ok(h, dir, name, target) ==
    /\ ~is_dir(h, target)
    /\ is_dir(h, dir)
    /\ h.ino[dir].dev = h.ino[target].dev
    /\ ~removed(h, dir)
    /\ vfs_child(h, dir, name) = NONE
    /\ ~vfs_readonly(h, dir)
    /\ k_malloc(h.dents) # NONE

vfs_link(h, dir, name, target) ==
    LET d == k_malloc(h.dents)
    IN  vfs_add_child([h EXCEPT !.dents[d] = NewDent(name, target), !.ino[target].nlink = @ + 1],
                      h.ino[dir].ptr, d)

\* A dentry and those above it.
RECURSIVE above(_, _)
above(h, d) == IF d = NONE THEN {} ELSE {d} \cup above(h, h.dents[d].parent)

\* Mutant: only the directory itself is refused.
into_itself_only(h, src, ndir) == src = h.ino[ndir].ptr

\* A directory must not move into its own subtree.
into_itself(h, src, ndir) == src \in above(h, h.ino[ndir].ptr)

\* Mutant: a rename within one directory is not refused.
rename_readonly_across(h, odir, ndir) == odir # ndir /\ vfs_readonly(h, odir)

\* Both directories are on one filesystem.
rename_readonly(h, odir, ndir) == vfs_readonly(h, odir)

vfs_rename_ok(h, odir, src, ndir, dst, noreplace) ==
    LET s == h.dents[src].ino
        t == inode_of(h, dst)
    IN  /\ is_dir(h, ndir)
        /\ h.ino[odir].dev = h.ino[ndir].dev
        /\ ~removed(h, ndir)
        /\ is_dir(h, s) => ~mountpoint(h, s) /\ ~into_itself(h, src, ndir)
        /\ ~rename_readonly(h, odir, ndir)
        /\ dst # NONE => /\ ~noreplace
                         /\ t # s
                         /\ is_dir(h, s) <=> is_dir(h, t)
                         /\ is_dir(h, t) => h.dents[dst].kids = <<>> /\ ~mountpoint(h, t)

vfs_rename(h, src, ndir, dst, nname) ==
    LET g == IF dst # NONE THEN drop(h, dst) ELSE h
    IN  vfs_add_child([detach(g, src) EXCEPT !.dents[src].name = nname],
                      g.ino[ndir].ptr, src)

\* An allocated address is forgotten.
lost(pool, a) == IF a = NONE THEN pool ELSE [pool EXCEPT ![a] = LOST]

\* A mount without memory: ramfs_init got only one of the root's inode n and
\* dentry d (NONE is the one it did not get), or vfs_mount got no mount_t for them.
\* Neither gives anything back.
mount_fails(h, n, d) ==
    [h EXCEPT !.ino = lost(@, n), !.dents = lost(@, d), !.dev = @ + 1]

\* ramfs_init and vfs_mount: a new filesystem whose root's inode takes the place
\* of what the mountpoint named.  A mountpoint that lost its dentry leaves the new
\* root on its own.
vfs_mount(h, t, ro) ==
    LET n  == k_malloc(h.ino)
        mp == IF removed(h, t) THEN k_malloc(h.dents) ELSE h.ino[t].ptr
        g  == [h EXCEPT !.ino[n] = NewInode("dir", h.dev, mp), !.dev = @ + 1]
        m  == [mp |-> mp, root |-> n, ro |-> ro,
               covered |-> IF removed(h, t) THEN NONE ELSE t,
               covered_children |-> kids(h, t)]
    IN  [g EXCEPT !.mounts = <<m>> \o @,
                  !.dents[mp] = IF removed(h, t) THEN NewDent("/", n)
                                ELSE [@ EXCEPT !.ino = n, !.kids = <<>>]]

\* The dentries of a list of children and below them.
RECURSIVE tree(_, _)
tree(h, list) == ToSet(list) \cup UNION {tree(h, h.dents[c].kids) : c \in ToSet(list)}

\* Free dentries and take their names from the inodes.
free_tree(h, ds) ==
    LET left(n) == h.ino[n].nlink - Cardinality({d \in ds : h.dents[d].ino = n})
    IN  [h EXCEPT !.dents = [d \in Dents |-> IF d \in ds THEN FREE ELSE @[d]],
                  !.ino = [n \in Inodes |->
                     IF @[n] \in {FREE, LOST} THEN @[n]
                     ELSE IF left(n) = 0 /\ @[n].refs = 0 THEN FREE
                     ELSE [@[n] EXCEPT !.nlink = left(n)]]]

vfs_umount(h, i) ==
    LET m == h.mounts[i]
        g == free_tree(h, tree(h, h.dents[m.mp].kids))
    IN  destroyed([g EXCEPT !.mounts = RemoveAt(@, i),
                            !.dents[m.mp] = [@ EXCEPT !.ino = m.covered,
                                                      !.kids = m.covered_children],
                            !.ino[m.root].nlink = 0], m.root)

\* An open description of inode n, at address f.
file_alloc(h, f, n, flags) ==
    vfs_iget([h EXCEPT !.file[f] = [ino |-> n, offset |-> 0, flags |-> flags, refs |-> 1,
                                    given |-> <<>>, since |-> 0, ended |-> FALSE]], n)

file_get(h, f) == [h EXCEPT !.file[f].refs = @ + 1]

\* The last close of a description; an unlinked inode goes with it.
file_put(h, f) ==
    IF f = NONE THEN h
    ELSE IF h.file[f].refs # 1 THEN [h EXCEPT !.file[f].refs = @ - 1]
    ELSE vfs_iput([h EXCEPT !.file[f] = FREE], h.file[f].ino)
=============================================================================
