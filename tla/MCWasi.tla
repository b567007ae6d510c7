------------------------------- MODULE MCWasi -------------------------------
(***************************************************************************)
(* A host with a writable and a read-only directory granted, and the calls *)
(* of a guest: paths with dots, climbs, links in sequence, absolute links  *)
(* and a link to itself; descriptors opened, narrowed, moved and closed;   *)
(* files shared by two descriptors; buffers that guest memory cannot take. *)
(***************************************************************************)
EXTENDS Wasi

MCNodes == 1..10

\* rw: directory d with link r back to it, file f, link l to d; s is a circle.
\* ro: file f, directory d.
Tree ==
  [n \in MCNodes |->
     CASE n = 1 -> NewDir([rw |-> 2, ro |-> 3])
       [] n = 2 -> NewDir([d |-> 4, f |-> 5, l |-> 6, s |-> 7])
       [] n = 3 -> NewDir([f |-> 9])
       [] n = 4 -> NewDir([r |-> 8])
       [] n \in {5, 9} -> NewFile(<<0>>)
       [] n = 6 -> NewLink(FALSE, <<"d">>)
       [] n = 7 -> NewLink(TRUE, <<"", "s">>)
       [] n = 8 -> NewLink(TRUE, <<"d">>)
       [] OTHER -> Free]
MCTrees == {Tree}

MCGrants == << [path |-> <<"rw">>, rights |-> AllRights], [path |-> <<"ro">>, rights |-> ReadOnly] >>
MCStdin == <<1, 2, 3>>

\* What the calls have in common, overridden where a call differs.
Fd(op, fd) == [op |-> op, fd |-> fd, readable |-> TRUE, delivered |-> TRUE]
On(op, fd, path) ==
  [op |-> op, fd |-> fd, path |-> path, follow |-> TRUE, readable |-> TRUE, delivered |-> TRUE]
Open(fd, path, follow, oflags, rights, delivered) ==
  [op |-> "path_open", fd |-> fd, path |-> path, follow |-> follow, oflags |-> oflags, base |-> rights, inh |-> AllRights,
   append |-> FALSE, readable |-> TRUE, delivered |-> delivered]
Two(op, fd, path, fd2, path2) ==
  [op |-> op, fd |-> fd, path |-> path, fd2 |-> fd2, path2 |-> path2, readable |-> TRUE]
Bytes(op, fd, offset, lens, delivered) ==
  [op |-> op, fd |-> fd, offset |-> offset, lens |-> lens, readable |-> TRUE, delivered |-> delivered]

Opens ==
  { Open(3, <<"f">>, TRUE, {}, AllRights, TRUE),
    Open(3, <<"l", "r", "e">>, TRUE, {"CREAT", "EXCL"}, AllRights, TRUE),
    Open(3, <<"f">>, TRUE, {"CREAT", "EXCL"}, AllRights, TRUE),
    Open(3, <<"d", "..", ".", "e">>, TRUE, {"CREAT"}, {"FD_READ"}, FALSE),
    Open(3, <<"f">>, TRUE, {"TRUNC"}, {"FD_READ"}, TRUE),
    Open(3, <<"f">>, TRUE, {"TRUNC"}, AllRights, TRUE),
    Open(3, <<"l">>, FALSE, {}, AllRights, TRUE),
    Open(3, <<"l">>, TRUE, {"DIRECTORY"}, ReadOnly, TRUE),
    Open(3, <<"l", "">>, TRUE, {}, AllRights, FALSE),
    Open(3, <<"s">>, TRUE, {}, AllRights, TRUE),
    Open(3, <<"d", "..", "..", "ro">>, TRUE, {}, AllRights, TRUE),
    Open(3, <<"f", "e">>, TRUE, {}, AllRights, TRUE),
    Open(3, <<"e">>, TRUE, {"DIRECTORY"}, AllRights, TRUE),
    Open(4, <<"f">>, TRUE, {}, AllRights, TRUE),
    Open(4, <<"e">>, TRUE, {"CREAT"}, AllRights, TRUE),
    Open(4, <<".">>, TRUE, {}, AllRights, TRUE),
    Open(5, <<"e">>, TRUE, {"CREAT"}, AllRights, TRUE),
    Open(5, <<"r", "..", "f">>, TRUE, {}, AllRights, TRUE) }

Paths ==
  { On("path_create_directory", 3, <<"d", "e">>), On("path_create_directory", 4, <<"e">>),
    On("path_remove_directory", 3, <<"d">>), On("path_unlink_file", 3, <<"d", "r">>),
    On("path_unlink_file", 3, <<"l">>), On("path_unlink_file", 3, <<"d">>), On("path_unlink_file", 5, <<"f">>),
    On("path_filestat_get", 3, <<"l", "r", "..", "f">>), On("path_filestat_get", 3, <<"C:">>),
    On("path_filestat_get", 5, <<"a NUL">>), On("path_filestat_get", 3, <<"not text">>),
    On("path_readlink", 3, <<"l">>), On("path_readlink", 4, <<"f">>),
    [op |-> "path_symlink", fd |-> 3, path |-> <<"e">>, target |-> [abs |-> FALSE, path |-> <<"d">>], readable |-> TRUE],
    [op |-> "path_symlink", fd |-> 3, path |-> <<"e">>, target |-> [abs |-> FALSE, path |-> <<"d", "..", "..">>], readable |-> TRUE],
    Two("path_rename", 3, <<"d">>, 3, <<"e">>), Two("path_rename", 3, <<"f">>, 5, <<"e">>),
    Two("path_rename", 3, <<"f">>, 4, <<"e">>), Two("path_rename", 4, <<"f">>, 3, <<"e">>),
    Two("path_link", 3, <<"f">>, 3, <<"e">>), Two("path_link", 3, <<"d">>, 3, <<"e">>) }

Files ==
  { Bytes("fd_write", 5, 0, <<2>>, TRUE), Bytes("fd_write", 6, 0, <<1, 1>>, TRUE), Bytes("fd_pwrite", 5, 1, <<1>>, FALSE),
    Bytes("fd_read", 5, 0, <<1>>, TRUE), Bytes("fd_pread", 5, 0, <<1>>, TRUE), Bytes("fd_filestat_set_size", 5, 2, <<>>, TRUE),
    [op |-> "fd_fdstat_set_flags", fd |-> 5, append |-> TRUE], [op |-> "fd_fdstat_set_flags", fd |-> 3, append |-> TRUE],
    [op |-> "fd_seek", fd |-> 5, offset |-> -1, whence |-> 2, delivered |-> TRUE],
    [op |-> "fd_seek", fd |-> 5, offset |-> -1, whence |-> 0, delivered |-> TRUE],
    [op |-> "fd_seek", fd |-> 3, offset |-> 0, whence |-> 0, delivered |-> TRUE] }

Tables ==
  { Fd("fd_close", 5), Fd("fd_close", 3), Fd("fd_close", 1), Fd("fd_close", 9),
    [op |-> "fd_renumber", fd |-> 5, fd2 |-> 3], [op |-> "fd_renumber", fd |-> 4, fd2 |-> 7],
    [op |-> "fd_renumber", fd |-> 5, fd2 |-> 0], [op |-> "fd_renumber", fd |-> 3, fd2 |-> 8],
    [op |-> "fd_renumber", fd |-> 1, fd2 |-> 5],
    Fd("fd_tell", 5), Fd("fd_fdstat_get", 7), Fd("fd_filestat_get", 5), Fd("fd_readdir", 5), Fd("fd_prestat_get", 5), Fd("fd_prestat_dir_name", 3) @@ [short |-> TRUE],
    Fd("fd_sync", 3), Fd("random_get", 0), Fd("fd_allocate", 5), Fd("proc_exit", 0) }

Streams ==
  { Bytes("fd_read", 0, 0, <<0, 1, 1>>, d) @@ [fit |-> n] : n \in 0..2, d \in BOOLEAN }
  \cup { Bytes("fd_read", 1, 0, <<1>>, TRUE) @@ [fit |-> 1], Bytes("fd_write", 1, 0, <<1, 1>>, TRUE), Bytes("fd_write", 0, 0, <<1>>, TRUE) }

\* A first descriptor, then something that bears on it or on the tree, then
\* anything.
Firsts == {c \in Opens : c.fd = 3 /\ c.path \in {<<"f">>, <<"l">>, <<"l", "">>, <<"d", "..", ".", "e">>}} \cup {Open(4, <<".">>, TRUE, {}, AllRights, TRUE)}
Seconds == Opens \cup {c \in Files : c.op # "fd_seek"} \cup {c \in Paths : c.op \in {"path_rename", "path_link", "path_unlink_file"}}
           \cup {c \in Tables : c.op \in {"fd_renumber", "fd_close"}}
MCCalls == << Firsts, Seconds, Opens \cup Paths \cup Files \cup Tables \cup Streams >>
=============================================================================
