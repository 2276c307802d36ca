------------------------------ MODULE MCFiles ------------------------------
(***************************************************************************)
(* Small instances of Files, one per question.                             *)
(***************************************************************************)
EXTENDS Files

Limit(c, paths, opens, inodes, files, seqs, devs) ==
    [calls |-> c, paths |-> paths, opens |-> opens, inodes |-> inodes, files |-> files,
     seq |-> seqs, devs |-> devs]

Flat == {<<"a">>, <<"b">>}

Deep == Flat \cup {<<"a", "b">>, <<"b", "a">>}

MCTexts == {<<1>>, <<1, 1>>}

MCLimits == {
    \* directories made, moved and removed while processes are inside them
    Limit({"mkdir", "unlink", "rename", "chdir", "fork"}, Deep \cup {<<"/", "a">>}, {}, 4, 0, 6, 0),
    \* files with several names, open or not
    Limit({"open", "mkdir", "unlink", "link", "rename"}, Flat \cup {<<"a", "b">>},
          {{"creat"}}, 4, 1, 6, 0),
    \* symlinks
    Limit({"open", "mkdir", "symlink", "unlink", "link", "chdir"}, Flat \cup {<<"a", "b">>},
          {{"creat", "w"}, {"nofollow"}}, 4, 1, 5, 0),
    \* descriptors
    Limit({"open", "dup", "unlink", "fork"}, {<<"a">>},
          {{"creat", "w", "cloexec"}, {"w", "trunc"}}, 3, 2, 4, 0),
    \* mounts
    Limit({"open", "mkdir", "unlink", "chdir", "mount"},
          {<<"a">>, <<"/", "a">>, <<"a", "b">>}, {{"creat"}}, 4, 1, 5, 2),
    \* names moved, linked and made around mounts, read-only ones and others
    Limit({"open", "mkdir", "unlink", "rename", "link", "symlink", "mount"},
          Flat \cup {<<"a", "a">>, <<"a", "b">>}, {{"creat"}}, 4, 0, 5, 2),
    \* a directory read while it changes
    Limit({"open", "mkdir", "unlink", "rename", "getdents"}, Flat \cup {<<"/">>},
          {{"directory"}}, 3, 1, 6, 0),
    \* bytes
    Limit({"open", "data", "unlink"}, {<<"a">>}, {{"creat", "w"}, {"w", "trunc"}}, 2, 1, 4, 0)}
=============================================================================
