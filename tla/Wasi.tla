-------------------------------- MODULE Wasi --------------------------------
(***************************************************************************)
(* The WASI preview 1 host of crates/wasmrt-core/src/wasi: the table of    *)
(* file descriptors with their rights, the sandboxed walk of a path, the   *)
(* calls on files and directories (fs.rs), and stdin, output and exit      *)
(* (mod.rs).                                                               *)
(*                                                                         *)
(* One guest makes one call at a time.  A call on a path is a step that    *)
(* looks up the descriptor, a step for every component of the path the     *)
(* walk looks at, and a step for what the call then does; every other call *)
(* is one step.  A path is the sequence of its components.                 *)
(***************************************************************************)
EXTENDS FileTree

CONSTANTS
  InitialTrees,   \* what the host's file system may hold at the start
  Grants,         \* the preopened directories in order: [path, rights]
  GuestCalls,     \* for the first, second, ... call: what it may be, with its arguments
  MaxData,        \* bound on a file's length, past which the host has no room
  MaxFd,          \* MAX_FD: the highest number fd_renumber accepts
  SymlinkMax,     \* SYMLINK_MAX: links one walk follows
  Stdin           \* what the host provides to read

ASSUME BoundsAssumption == {MaxData, MaxFd, SymlinkMax} \subseteq Nat
ASSUME SequencesAssumption ==
  Len(Grants) \in Nat /\ DOMAIN Grants = 1..Len(Grants) /\ Len(GuestCalls) \in Nat
ASSUME GrantsAssumption == \A g \in DOMAIN Grants : Grants[g].path \in Seq(STRING)
ASSUME StdinAssumption == Stdin \in Seq(Nat)

\* The host keeps no file longer than it has room for.
HostTree(t) == WellFormed(t) /\ \A n \in Nodes : t[n].kind = "file" => Len(t[n].data) <= MaxData
ASSUME TreesAssumption == \A t \in InitialTrees : HostTree(t)

VARIABLES
  tree,           \* the host's files
  fds,            \* FdTable.slots, from descriptor 0
  call,           \* the call being executed, or NoCall
  walk,           \* the walk in progress, or NoWalk
  found,          \* the walks this call has finished
  ret,            \* the errno of the last call
  calls,          \* how many calls were made
  stdinPos,       \* WasiCtx.stdin_pos
  received,       \* bytes of stdin stored in guest memory so far
  sent,           \* bytes that went to the output streams so far
  exited          \* WasiCtx.exit is set: the guest runs no further

vars == <<tree, fds, call, walk, found, ret, calls, stdinPos, received, sent, exited>>
files == <<tree, fds>>
stdio == <<stdinPos, received, sent, exited>>

NoCall == [op |-> "none"]
NoWalk == [pending |-> <<>>, state |-> "none"]

-----------------------------------------------------------------------------
(* Rights.                                                                 *)

\* Rights a descriptor needs before it can change the file system.
WriteMask ==
  {"FD_WRITE", "FD_ALLOCATE", "PATH_CREATE_DIRECTORY", "PATH_CREATE_FILE", "PATH_LINK_SOURCE", "PATH_LINK_TARGET",
   "PATH_RENAME_SOURCE", "PATH_RENAME_TARGET", "PATH_SYMLINK", "FD_FILESTAT_SET_SIZE", "PATH_REMOVE_DIRECTORY",
   "PATH_UNLINK_FILE"}
AllRights ==
  WriteMask \cup {"FD_READ", "FD_SEEK", "FD_TELL", "PATH_OPEN", "FD_READDIR", "PATH_READLINK", "PATH_FILESTAT_GET",
                  "FD_FILESTAT_GET"}
ReadOnly == AllRights \ WriteMask
ReadWrite == AllRights \ {"PATH_SYMLINK"}

\* What each call on a path asks of the descriptor of each of its paths.
Needs ==
  [path_open |-> <<"PATH_OPEN">>, path_create_directory |-> <<"PATH_CREATE_DIRECTORY">>,
   path_remove_directory |-> <<"PATH_REMOVE_DIRECTORY">>, path_unlink_file |-> <<"PATH_UNLINK_FILE">>,
   path_filestat_get |-> <<"PATH_FILESTAT_GET">>, path_readlink |-> <<"PATH_READLINK">>,
   path_symlink |-> <<"PATH_SYMLINK">>, path_rename |-> <<"PATH_RENAME_SOURCE", "PATH_RENAME_TARGET">>,
   path_link |-> <<"PATH_LINK_SOURCE", "PATH_LINK_TARGET">>]

\* What a guest can pass: sizes and positions are unsigned, the distance of a
\* seek is not.
CallOK(c) ==
  /\ c.op \in DOMAIN Needs => c.path \in Seq(STRING)
  /\ c.op \in {"path_rename", "path_link"} => c.path2 \in Seq(STRING)
  /\ c.op = "path_symlink" => c.target \in [abs : BOOLEAN, path : Seq(STRING)]
  /\ c.op \in {"fd_pread", "fd_pwrite", "fd_filestat_set_size"} => c.offset \in Nat
  /\ c.op = "fd_seek" => c.offset \in Int
  /\ c.op \in {"fd_read", "fd_pread", "fd_write", "fd_pwrite"} => c.lens \in Seq(Nat)
ASSUME CallsAssumption == \A k \in 1..Len(GuestCalls) : \A c \in GuestCalls[k] : CallOK(c)

-----------------------------------------------------------------------------
(* The descriptor table.                                                   *)

Closed == [kind |-> "closed"]
\* grant: which preopened directory a descriptor descends from, 0 for stdio.
Stream(kind) == [kind |-> kind, grant |-> 0, base |-> AllRights, inh |-> AllRights]
DirFd(host, named, base, inh, g) ==
  [kind |-> "dir", host |-> host, named |-> named, base |-> base, inh |-> inh, grant |-> g]
FileFd(node, append, base, inh, g) ==
  [kind |-> "file", node |-> node, append |-> append, pos |-> 0, base |-> base, inh |-> inh, grant |-> g]

Size == Cardinality(DOMAIN fds)
IsOpen(fd) == fd \in DOMAIN fds /\ fds[fd].kind # "closed"
IsKind(fd, kind) == IsOpen(fd) /\ fds[fd].kind = kind
IsStdio(fd) == fd \in 0..2

\* The lowest hole, or one more slot.
NewFd ==
  LET holes == {fd \in DOMAIN fds : ~IsOpen(fd)}
  IN IF holes = {} THEN Size ELSE CHOOSE fd \in holes : \A other \in holes : fd <= other
Insert(entry) == [fd \in DOMAIN fds \cup {NewFd} |-> IF fd = NewFd THEN entry ELSE fds[fd]]

Closing(fd) == [fds EXCEPT ![fd] = Closed]

\* Mutant of Renumbered: the table grows by one slot, not up to the target.
RenumberedWithAGap(from, to) ==
  [fd \in DOMAIN fds \cup {to} |-> IF fd = to THEN fds[from] ELSE IF fd = from THEN Closed ELSE fds[fd]]

Renumbered(from, to) ==
  [fd \in DOMAIN fds \cup 0..to |->
     IF fd = to THEN fds[from] ELSE IF fd = from \/ fd \notin DOMAIN fds THEN Closed ELSE fds[fd]]

-----------------------------------------------------------------------------
(* Starting and ending a call.                                             *)

Return(code) == call' = NoCall /\ walk' = NoWalk /\ found' = <<>> /\ ret' = code /\ UNCHANGED calls
Refuse(code) == Return(code) /\ UNCHANGED <<files, stdio>>

\* A result or a buffer that guest memory has no room for is a FAULT.
Answer(delivered) == IF delivered THEN "SUCCESS" ELSE "FAULT"

Issue(c) ==
  /\ call = NoCall /\ ~exited
  /\ call' = c /\ calls' = calls + 1
  /\ UNCHANGED <<files, walk, found, ret, stdio>>

-----------------------------------------------------------------------------
(* The walk.  `stack` holds the names descended into from the descriptor's *)
(* directory, `pending` the components still to do.  `handles` holds the   *)
(* directories that a walk with one openat per component would have open:  *)
(* the code has no such handles and computes paths instead.                *)

\* Components a path may not have: they name a device or the NT namespace
\* (component_is_forbidden), are no text (bytes_to_os), or hold a NUL.
Forbidden == {"C:", "??"}
NotText == "not text"
HasNul == "a NUL"

IsPathCall == call.op \in DOMAIN Needs
Phase == Len(found) + 1
Walks == Len(Needs[call.op])
ThisFd == IF Phase = 1 THEN call.fd ELSE call.fd2
ThisPath == IF Phase = 1 THEN call.path ELSE call.path2
Follows == call.op \in {"path_open", "path_filestat_get"} /\ call.follow

EscapesRelative(path) ==
  LET depth[k \in 0..Len(path)] ==
        IF k = 0 THEN 0
        ELSE depth[k - 1] + (IF path[k] = ".." THEN -1 ELSE IF path[k] \in {"", "."} THEN 0 ELSE 1)
  IN \E k \in DOMAIN depth : depth[k] < 0

\* The checks before a walk touches the file system, in their order.
Objection ==
  IF call.op = "path_symlink" /\ ~call.readable THEN "FAULT"
  ELSE IF call.op = "path_symlink" /\ (call.target.abs \/ EscapesRelative(call.target.path)) THEN "NOTCAPABLE"
  ELSE IF ~IsOpen(ThisFd) THEN "BADF"
  ELSE IF ~IsKind(ThisFd, "dir") THEN "NOTDIR"
  ELSE IF Needs[call.op][Phase] \notin fds[ThisFd].base THEN "NOTCAPABLE"
  ELSE IF ~call.readable THEN "FAULT"
  ELSE IF HasNul \in ToSet(ThisPath) THEN "INVAL"
  ELSE IF Forbidden \cap ToSet(ThisPath) # {} THEN "NOTCAPABLE"
  ELSE "SUCCESS"

ResolveCall ==
  /\ IsPathCall /\ walk = NoWalk /\ Len(found) < Walks
  /\ IF Objection # "SUCCESS" THEN Refuse(Objection)
     ELSE /\ walk' = [state |-> "walking", root |-> fds[ThisFd].host, stack |-> <<>>, pending |-> ThisPath,
                      budget |-> SymlinkMax, handles |-> <<Stat(tree, fds[ThisFd].host).node>>]
          /\ UNCHANGED <<files, call, found, ret, calls, stdio>>

Walking == walk.state = "walking"
Component == Head(walk.pending)
IsFinal == Len(walk.pending) = 1
WalkDir == walk.root \o walk.stack
Probe == Lstat(tree, Append(WalkDir, Component))
\* A component that names an entry: not empty, not a dot, not refused.
AtName == Walking /\ walk.pending # <<>> /\ Component \notin {"", ".", "..", NotText} \cup Forbidden
WalkStep(w) == walk' = w /\ UNCHANGED <<files, call, found, ret, calls, stdio>>

SkipComponent ==
  /\ Walking /\ walk.pending # <<>> /\ Component \in {"", "."}
  /\ WalkStep([walk EXCEPT !.pending = Tail(@)])

Climb ==
  /\ Walking /\ walk.pending # <<>> /\ Component = ".."
  /\ IF walk.stack = <<>> THEN Refuse("NOTCAPABLE")
     ELSE WalkStep([walk EXCEPT !.pending = Tail(@), !.stack = Front(@), !.handles = Front(@)])

RefuseComponent ==
  /\ Walking /\ walk.pending # <<>> /\ Component \in {NotText} \cup Forbidden
  /\ Refuse(IF Component = NotText THEN "INVAL" ELSE "NOTCAPABLE")

ProbeFails ==
  /\ AtName /\ Probe.node = Absent /\ ~(IsFinal /\ Probe.code = "NOENT")
  /\ Refuse(Probe.code)

\* A link on the way is replaced by its target; an absolute one starts again at
\* the descriptor's directory.
IsLinkToFollow == AtName /\ KindOf(tree, Probe.node) = "link" /\ ~(IsFinal /\ ~Follows)

\* Mutant of FollowLink: an absolute target is spliced in, and the names already
\* descended into stay.
FollowLinkFromHere ==
  /\ IsLinkToFollow
  /\ LET link == tree[Probe.node]
         spliced == [walk EXCEPT !.budget = @ - 1, !.pending = link.path \o Tail(@)]
     IN IF walk.budget = 0 THEN Refuse("LOOP")
        ELSE WalkStep(IF link.abs THEN [spliced EXCEPT !.handles = <<Head(@)>>] ELSE spliced)

\* Mutant of FollowLink: the budget is never spent.
FollowLinkForFree ==
  /\ IsLinkToFollow
  /\ LET link == tree[Probe.node]
         spliced == [walk EXCEPT !.pending = link.path \o Tail(@)]
     IN WalkStep(IF link.abs THEN [spliced EXCEPT !.stack = <<>>, !.handles = <<Head(@)>>] ELSE spliced)

FollowLink ==
  /\ IsLinkToFollow
  /\ LET link == tree[Probe.node]
         spliced == [walk EXCEPT !.budget = @ - 1, !.pending = link.path \o Tail(@)]
     IN IF walk.budget = 0 THEN Refuse("LOOP")
        ELSE WalkStep(IF link.abs THEN [spliced EXCEPT !.stack = <<>>, !.handles = <<Head(@)>>] ELSE spliced)

NotADirectory ==
  /\ AtName /\ ~IsFinal /\ ~IsLinkToFollow /\ Probe.node # Absent /\ ~IsDir(tree, Probe.node)
  /\ Refuse("NOTDIR")

Descend ==
  /\ AtName /\ ~IsFinal /\ ~IsLinkToFollow /\ IsDir(tree, Probe.node)
  /\ WalkStep([walk EXCEPT !.pending = Tail(@), !.stack = Append(@, Component),
                           !.handles = Append(@, Lookup(tree, Last(@), Component))])

\* verify_beneath: where the host says the two paths lead.
Beneath(root, dir) ==
  LET r == Stat(tree, root)
      d == Stat(tree, dir)
  IN IF r.node = Absent THEN r.code
     ELSE IF d.node = Absent THEN d.code
     ELSE IF d.node \in Below(tree, r.node) THEN "SUCCESS" ELSE "NOTCAPABLE"

Verdict == Beneath(walk.root, WalkDir)
\* Walk: what a finished walk hands to its call.
Walked(name, isLink) == [dir |-> WalkDir, name |-> name, isLink |-> isLink]
Arrived(result) ==
  IF Verdict # "SUCCESS" THEN Refuse(Verdict)
  ELSE found' = Append(found, result) /\ walk' = NoWalk /\ UNCHANGED <<files, call, ret, calls, stdio>>

Arrive ==
  /\ AtName /\ IsFinal /\ ~IsLinkToFollow /\ (Probe.node # Absent \/ Probe.code = "NOENT")
  /\ Arrived(Walked(Component, KindOf(tree, Probe.node) = "link"))

ArriveAtDirectory ==
  /\ Walking /\ walk.pending = <<>>
  /\ Arrived(Walked(".", FALSE))

WalkSteps ==
  \/ SkipComponent \/ Climb \/ RefuseComponent \/ ProbeFails \/ FollowLink \/ NotADirectory \/ Descend
  \/ Arrive \/ ArriveAtDirectory

-----------------------------------------------------------------------------
(* The calls on paths, once their walks are done.                          *)

Ready(op) == call.op = op /\ Len(found) = Len(Needs[op])
HostPath(w) == IF w.name = "." THEN w.dir ELSE Append(w.dir, w.name)
Target == HostPath(found[1])
Target2 == HostPath(found[2])

\* A change the host makes or refuses as a whole.
HostChange(result) ==
  /\ tree' = result.tree
  /\ Return(result.code)
  /\ UNCHANGED <<fds, stdio>>

Has(flag) == flag \in call.oflags

\* Mutant of NewBase: the guest gets the rights it asks for.
NewBaseAsAsked == call.base

NewBase == call.base \cap fds[call.fd].inh
NewInh == call.inh \cap fds[call.fd].inh
Writable == NewBase \cap {"FD_WRITE", "FD_ALLOCATE"} # {}
Existing == Lstat(tree, Target).node

\* Mutant of OpenObjection: the right to create is not looked at.
OpenObjectionUnlessCreating ==
  IF ~Follows /\ found[1].isLink THEN "LOOP"
  ELSE IF IsDir(tree, Existing) THEN "SUCCESS"
  ELSE IF Has("DIRECTORY") THEN (IF Existing = Absent THEN "NOENT" ELSE "NOTDIR")
  ELSE IF Has("EXCL") /\ Existing # Absent THEN "EXIST" ELSE "SUCCESS"

\* What path_open refuses before it asks the host, in the code's order.
OpenObjection ==
  IF ~Follows /\ found[1].isLink THEN "LOOP"
  ELSE IF (Has("CREAT") \/ Has("TRUNC")) /\ "PATH_CREATE_FILE" \notin fds[call.fd].inh THEN "NOTCAPABLE"
  ELSE IF IsDir(tree, Existing) THEN "SUCCESS"
  ELSE IF Has("DIRECTORY") THEN (IF Existing = Absent THEN "NOENT" ELSE "NOTDIR")
  ELSE IF Has("EXCL") /\ Existing # Absent THEN "EXIST"
  ELSE IF Has("TRUNC") /\ ~Writable THEN "INVAL"
  ELSE "SUCCESS"

\* The host's open, after a create of its own when the guest may not write.  (A
\* directory was opened above: what the walk or OpenObjection has let through here
\* is no link, so none leads to one.)
Opened ==
  LET host == Stat(tree, Target)
  IN IF IsDir(tree, host.node) THEN Fails(tree, "ISDIR")
     ELSE IF host.node # Absent
     THEN Done(IF Has("TRUNC") THEN [tree EXCEPT ![host.node] = NewFile(<<>>)] ELSE tree)
     ELSE IF Has("CREAT") THEN Make(tree, Target, NewFile(<<>>)) ELSE Fails(tree, host.code)
\* The file it has open then: the one there was, or the one it has made.
OpenedNode == IF Stat(tree, Target).node # Absent THEN Stat(tree, Target).node ELSE Fresh(tree)

PathOpenRefused == Ready("path_open") /\ OpenObjection # "SUCCESS" /\ Refuse(OpenObjection)

\* A full guest memory is noticed once the descriptor is in the table.
PathOpenDirectory ==
  /\ Ready("path_open") /\ OpenObjection = "SUCCESS" /\ IsDir(tree, Existing)
  /\ fds' = Insert(DirFd(Target, FALSE, NewBase, NewInh, fds[call.fd].grant))
  /\ Return(Answer(call.delivered))
  /\ UNCHANGED <<tree, stdio>>

PathOpenFile ==
  /\ Ready("path_open") /\ OpenObjection = "SUCCESS" /\ ~IsDir(tree, Existing)
  /\ tree' = Opened.tree
  /\ IF Opened.code = "SUCCESS"
     THEN /\ fds' = Insert(FileFd(OpenedNode, call.append, NewBase, NewInh, fds[call.fd].grant))
          /\ Return(Answer(call.delivered))
     ELSE UNCHANGED fds /\ Return(Opened.code)
  /\ UNCHANGED stdio

PathCreateDirectory == Ready("path_create_directory") /\ HostChange(Make(tree, Target, NewDir(<<>>)))
PathRemoveDirectory == Ready("path_remove_directory") /\ HostChange(RemoveDir(tree, Target))
PathUnlinkFile == Ready("path_unlink_file") /\ HostChange(RemoveFile(tree, Target))
PathSymlink == Ready("path_symlink") /\ HostChange(Make(tree, Target, NewLink(call.target.abs, call.target.path)))
PathRename == Ready("path_rename") /\ HostChange(Rename(tree, Target, Target2))
PathLink == Ready("path_link") /\ HostChange(HardLink(tree, Target, Target2))

PathFilestatGet ==
  /\ Ready("path_filestat_get")
  /\ LET meta == IF Follows THEN Stat(tree, Target) ELSE Lstat(tree, Target)
     IN Refuse(IF meta.node = Absent THEN meta.code ELSE Answer(call.delivered))

PathReadlink ==
  /\ Ready("path_readlink")
  /\ LET n == Lstat(tree, Target)
     IN Refuse(IF n.node = Absent THEN n.code
               ELSE IF KindOf(tree, n.node) # "link" THEN "INVAL" ELSE Answer(call.delivered))

PathCalls ==
  \/ PathOpenRefused \/ PathOpenDirectory \/ PathOpenFile \/ PathCreateDirectory \/ PathRemoveDirectory
  \/ PathUnlinkFile \/ PathSymlink \/ PathRename \/ PathLink \/ PathFilestatGet \/ PathReadlink

-----------------------------------------------------------------------------
(* The calls on descriptors.                                               *)

FdClose ==
  /\ call.op = "fd_close"
  /\ IF IsOpen(call.fd) /\ ~IsStdio(call.fd)
     THEN fds' = Closing(call.fd) /\ Return("SUCCESS") /\ UNCHANGED <<tree, stdio>>
     ELSE Refuse(IF IsStdio(call.fd) THEN "SUCCESS" ELSE "BADF")

\* Mutant of FdRenumber: the entry is taken out before the target is checked.
FdRenumberTakingFirst ==
  /\ call.op = "fd_renumber"
  /\ IF ~IsOpen(call.fd) THEN Refuse("BADF")
     ELSE /\ fds' = IF call.fd2 \in 0..MaxFd THEN Renumbered(call.fd, call.fd2) ELSE Closing(call.fd)
          /\ Return(IF call.fd2 \in 0..MaxFd THEN "SUCCESS" ELSE "BADF")
          /\ UNCHANGED <<tree, stdio>>

FdRenumber ==
  /\ call.op = "fd_renumber"
  /\ IF IsOpen(call.fd) /\ call.fd2 \in 0..MaxFd
     THEN fds' = Renumbered(call.fd, call.fd2) /\ Return("SUCCESS") /\ UNCHANGED <<tree, stdio>>
     ELSE Refuse("BADF")

FdFdstatSetFlags ==
  /\ call.op = "fd_fdstat_set_flags"
  /\ IF IsKind(call.fd, "file")
     THEN fds' = [fds EXCEPT ![call.fd].append = call.append] /\ Return("SUCCESS") /\ UNCHANGED <<tree, stdio>>
     ELSE Refuse(IF IsOpen(call.fd) THEN "SUCCESS" ELSE "BADF")

DataOf(fd) == tree[fds[fd].node].data
MovedTo(fd, pos) == [fds EXCEPT ![fd].pos = pos]

\* whence: the start, the cursor or the end.  A negative position is refused.
SeekTarget ==
  call.offset + (CASE call.whence = 0 -> 0 [] call.whence = 1 -> fds[call.fd].pos [] OTHER -> Len(DataOf(call.fd)))

FdSeek ==
  /\ call.op = "fd_seek"
  /\ IF ~IsKind(call.fd, "file") THEN Refuse("SPIPE")
     ELSE IF "FD_SEEK" \notin fds[call.fd].base THEN Refuse("NOTCAPABLE")
     ELSE IF call.whence \notin 0..2 \/ SeekTarget < 0 THEN Refuse("INVAL")
     ELSE fds' = MovedTo(call.fd, SeekTarget) /\ Return(Answer(call.delivered)) /\ UNCHANGED <<tree, stdio>>

\* What a file call refuses before it reaches the file.
FileObjection(right) ==
  IF ~call.readable THEN "FAULT" ELSE IF ~IsKind(call.fd, "file") THEN "BADF"
  ELSE IF right \notin fds[call.fd].base THEN "NOTCAPABLE" ELSE "SUCCESS"

IsPositional == call.op \in {"fd_pread", "fd_pwrite"}

\* fd_read and fd_pread of a file: the bytes leave the file whether or not guest
\* memory takes them.
FdReadFile ==
  /\ call.op = "fd_pread" \/ (call.op = "fd_read" /\ ~IsStdio(call.fd))
  /\ IF FileObjection("FD_READ") # "SUCCESS" THEN Refuse(FileObjection("FD_READ"))
     ELSE LET at == IF IsPositional THEN call.offset ELSE fds[call.fd].pos
              bytes == ReadAt(DataOf(call.fd), at, FoldLeft(+, 0, call.lens))
          IN /\ fds' = IF IsPositional THEN fds ELSE MovedTo(call.fd, at + Len(bytes))
             /\ Return(Answer(call.delivered))
             /\ UNCHANGED <<tree, stdio>>

\* Mutant of WritePos: append mode is where the file was opened.
WritePosAtCursor == IF IsPositional THEN call.offset ELSE fds[call.fd].pos

\* Where a write goes.
WritePos ==
  IF IsPositional THEN call.offset ELSE IF fds[call.fd].append THEN Len(DataOf(call.fd)) ELSE fds[call.fd].pos
Payload == [i \in 1..FoldLeft(+, 0, call.lens) |-> calls]

FdWriteFile ==
  /\ call.op = "fd_pwrite" \/ (call.op = "fd_write" /\ ~IsStdio(call.fd))
  /\ IF FileObjection("FD_WRITE") # "SUCCESS" THEN Refuse(FileObjection("FD_WRITE"))
     ELSE IF WritePos + Len(Payload) > MaxData
     THEN fds' = (IF IsPositional THEN fds ELSE MovedTo(call.fd, WritePos)) /\ Return("IO") /\ UNCHANGED <<tree, stdio>>
     ELSE /\ tree' = [tree EXCEPT ![fds[call.fd].node].data = WriteAt(@, WritePos, Payload)]
          /\ fds' = IF IsPositional THEN fds ELSE MovedTo(call.fd, WritePos + Len(Payload))
          /\ Return(Answer(call.delivered))
          /\ UNCHANGED stdio

FdFilestatSetSize ==
  /\ call.op = "fd_filestat_set_size"
  /\ IF ~IsKind(call.fd, "file") THEN Refuse("BADF")
     ELSE IF "FD_FILESTAT_SET_SIZE" \notin fds[call.fd].base THEN Refuse("NOTCAPABLE")
     ELSE IF call.offset > MaxData THEN Refuse("IO")
     ELSE /\ tree' = [tree EXCEPT ![fds[call.fd].node].data = Resized(@, call.offset)]
          /\ Return("SUCCESS") /\ UNCHANGED <<fds, stdio>>

\* Calls that only report.
TellCode ==
  IF ~IsKind(call.fd, "file") THEN "SPIPE"
  ELSE IF "FD_TELL" \notin fds[call.fd].base THEN "NOTCAPABLE" ELSE Answer(call.delivered)
FdstatCode == IF IsOpen(call.fd) THEN Answer(call.delivered) ELSE "BADF"
FilestatCode ==
  IF ~IsOpen(call.fd) THEN "BADF"
  ELSE IF "FD_FILESTAT_GET" \notin fds[call.fd].base THEN "NOTCAPABLE"
  ELSE IF IsKind(call.fd, "dir") /\ Stat(tree, fds[call.fd].host).node = Absent THEN Stat(tree, fds[call.fd].host).code
  ELSE Answer(call.delivered)
ReaddirCode ==
  IF ~IsKind(call.fd, "dir") THEN "BADF"
  ELSE IF "FD_READDIR" \notin fds[call.fd].base THEN "NOTCAPABLE"
  ELSE IF ~IsDir(tree, Stat(tree, fds[call.fd].host).node) THEN "NOENT"
  ELSE Answer(call.delivered)
PrestatCode == IF IsKind(call.fd, "dir") /\ fds[call.fd].named THEN Answer(call.delivered) ELSE "BADF"
DirNameCode == IF PrestatCode # "BADF" /\ call.short THEN "INVAL" ELSE PrestatCode

QueryCode ==
  CASE call.op = "fd_tell" -> TellCode
    [] call.op = "fd_fdstat_get" -> FdstatCode
    [] call.op = "fd_filestat_get" -> FilestatCode
    [] call.op = "fd_readdir" -> ReaddirCode
    [] call.op = "fd_prestat_get" -> PrestatCode
    [] call.op = "fd_prestat_dir_name" -> DirNameCode
    [] call.op \in {"sched_yield", "fd_advise", "fd_sync", "fd_datasync"} -> "SUCCESS"
    [] call.op \in {"args_sizes_get", "args_get", "environ_sizes_get", "environ_get", "clock_time_get",
                    "clock_res_get", "random_get"} -> Answer(call.delivered)
    [] OTHER -> "NOSYS"

Effectful ==
  {"fd_close", "fd_renumber", "fd_fdstat_set_flags", "fd_seek", "fd_read", "fd_pread", "fd_write", "fd_pwrite",
   "fd_filestat_set_size", "proc_exit"}
Query == call # NoCall /\ ~IsPathCall /\ call.op \notin Effectful /\ Refuse(QueryCode)

-----------------------------------------------------------------------------
(* The standard streams and exit.                                          *)

\* Mutant of Take: the position moves before the bytes are stored.
TakeEarly(s, len) ==
  LET got == ReadAt(Stdin, s.pos, len)
  IN IF len = 0 \/ s.over THEN s
     ELSE IF got = <<>> THEN [s EXCEPT !.over = TRUE]
     ELSE IF s.fit = 0 THEN [s EXCEPT !.over = TRUE, !.ok = FALSE, !.pos = @ + Len(got)]
     ELSE [s EXCEPT !.pos = @ + Len(got), !.stored = @ \o got, !.fit = @ - 1]

\* One buffer of a read of stdin; `fit` is how many of the buffers guest memory
\* can take.  Bytes are consumed once they are stored.
Take(s, len) ==
  LET got == ReadAt(Stdin, s.pos, len)
  IN IF len = 0 \/ s.over THEN s
     ELSE IF got = <<>> THEN [s EXCEPT !.over = TRUE]
     ELSE IF s.fit = 0 THEN [s EXCEPT !.over = TRUE, !.ok = FALSE]
     ELSE [s EXCEPT !.pos = @ + Len(got), !.stored = @ \o got, !.fit = @ - 1]

FdReadStdin ==
  /\ call.op = "fd_read" /\ IsStdio(call.fd)
  /\ IF call.fd # 0 THEN Refuse("BADF")
     ELSE IF ~call.readable THEN Refuse("FAULT")
     ELSE LET s == FoldLeft(Take, [pos |-> stdinPos, stored |-> <<>>, fit |-> call.fit, over |-> FALSE, ok |-> TRUE],
                            call.lens)
          IN /\ stdinPos' = s.pos /\ received' = received \o s.stored
             /\ Return(Answer(s.ok /\ call.delivered))
             /\ UNCHANGED <<files, sent, exited>>

\* Output goes out buffer by buffer until one cannot be read or the host fails.
FdWriteStream ==
  /\ call.op = "fd_write" /\ IsStdio(call.fd)
  /\ IF call.fd = 0 THEN Refuse("BADF")
     ELSE IF ~call.readable THEN Refuse("FAULT")
     ELSE \E out \in 0..Len(call.lens), broken \in BOOLEAN :
            /\ out = Len(call.lens) => ~broken
            /\ sent' = sent + FoldLeft(+, 0, SubSeq(call.lens, 1, out))
            /\ Return(IF ~call.delivered THEN "FAULT"
                      ELSE IF out = Len(call.lens) THEN "SUCCESS" ELSE IF broken THEN "IO" ELSE "FAULT")
            /\ UNCHANGED <<files, stdinPos, received, exited>>

\* proc_exit traps: no instruction of the guest follows.
ProcExit ==
  /\ call.op = "proc_exit"
  /\ exited' = TRUE /\ Return("SUCCESS") /\ UNCHANGED <<files, stdinPos, received, sent>>

FdCalls ==
  \/ FdClose \/ FdRenumber \/ FdFdstatSetFlags \/ FdSeek \/ FdReadFile \/ FdWriteFile \/ FdFilestatSetSize
  \/ Query \/ FdReadStdin \/ FdWriteStream \/ ProcExit

-----------------------------------------------------------------------------
\* FdTable::new and preopen_dir for every grant.
Init ==
  /\ tree \in InitialTrees
  /\ fds = [fd \in 0..(Len(Grants) + 2) |->
              CASE fd = 0 -> Stream("stdin") [] fd = 1 -> Stream("stdout") [] fd = 2 -> Stream("stderr")
                [] OTHER -> LET g == fd - 2 IN DirFd(Grants[g].path, TRUE, Grants[g].rights, Grants[g].rights, g)]
  /\ call = NoCall /\ walk = NoWalk /\ found = <<>> /\ ret = "none" /\ calls = 0
  /\ stdinPos = 0 /\ received = <<>> /\ sent = 0 /\ exited = FALSE

Host == ResolveCall \/ WalkSteps \/ PathCalls \/ FdCalls
Guest == calls < Len(GuestCalls) /\ \E c \in GuestCalls[calls + 1] : Issue(c)
Next == Guest \/ Host

\* The host runs a call to its end; the guest need not make one.
Spec == Init /\ [][Next]_vars /\ WF_vars(Host)

-----------------------------------------------------------------------------
(* Properties.                                                             *)

\* The descriptor table is dense, its entries name files and grants that exist,
\* and a call in progress has walked at most the paths it has.
EntryOK(e) ==
  \/ e = Closed
  \/ e.kind \in {"stdin", "stdout", "stderr"} /\ e = Stream(e.kind)
  \/ e.kind = "dir" /\ e.grant \in DOMAIN Grants /\ e.host \in Seq(STRING)
  \/ e.kind = "file" /\ e.grant \in DOMAIN Grants /\ e.node \in Nodes /\ e.pos \in Nat /\ KindOf(tree, e.node) = "file"
TypeOK ==
  /\ HostTree(tree)
  /\ DOMAIN fds = 0..(Size - 1) /\ \A fd \in DOMAIN fds : EntryOK(fds[fd])
  /\ call = NoCall => walk = NoWalk /\ found = <<>>
  /\ IsPathCall => Len(found) <= Walks
  /\ stdinPos \in 0..Len(Stdin)

\* path_open's intersection with the inheriting rights: whatever chain of opens
\* and renumberings led to a descriptor, it has no right that the directory
\* granted to the guest does not have.
RightsWithinCeiling ==
  \A fd \in DOMAIN fds : IsOpen(fd) /\ fds[fd].grant # 0 =>
    fds[fd].base \cup fds[fd].inh \subseteq Grants[fds[fd].grant].rights

\* walk computes paths where it cannot open directories one by one: through
\* links, climbs and absolute targets, the path it has built leads where a walk
\* that holds a handle per component is, and that is never above the directory
\* it started in, so verify_beneath has nothing to refuse.
WalksStayBeneath ==
  Walking /\ Head(walk.handles) # Absent =>
    /\ Len(walk.handles) = Len(walk.stack) + 1
    /\ Stat(tree, WalkDir).node = Last(walk.handles)
    /\ Last(walk.handles) \in Below(tree, Head(walk.handles))
    /\ Verdict = "SUCCESS"

\* fd_read of stdin: the position counts exactly the bytes that are in guest
\* memory, also when a later buffer is out of bounds and the call fails.
StdinIsConsumedOnceDelivered == received = SubSeq(Stdin, 1, stdinPos)

\* A call that reports an error other than FAULT leaves the host's files and the
\* descriptors as they were: path_open creates and truncates, fd_renumber moves,
\* only once nothing is left to refuse.  (A cursor may move: an appending write
\* that fails has already sought the end.)
Unpositioned(table) ==
  [fd \in DOMAIN table |-> IF table[fd].kind = "file" THEN [table[fd] EXCEPT !.pos = 0] ELSE table[fd]]
RefusedCallsChangeNothing ==
  [][call # NoCall /\ call' = NoCall /\ ret' \notin {"SUCCESS", "FAULT"} =>
       tree' = tree /\ Unpositioned(fds') = Unpositioned(fds)]_vars

\* fd_write through a descriptor in append mode keeps everything the file holds,
\* also what other descriptors of the file wrote since it was opened.
AppendNeverOverwrites ==
  [][call.op = "fd_write" /\ IsKind(call.fd, "file") /\ fds[call.fd].append /\ ~IsStdio(call.fd) =>
       IsPrefix(DataOf(call.fd), tree'[fds[call.fd].node].data)]_vars

\* Links that lead in circles, also through absolute targets, use up the budget
\* of the walk: every call returns to the guest.
CallsReturn == (call # NoCall) ~> (call = NoCall)

\* The host implements the rights model: descriptors only derive, move and
\* close, and a granted directory changes only under a right to change it.
View(g) == LET top == Stat(tree, Grants[g].path).node IN [n \in Below(tree, top) \ {Absent} |-> tree[n]]
Capability(e) == [grant |-> e.grant, base |-> e.base, inh |-> e.inh]
Rights == INSTANCE Capabilities WITH
  Grant <- [g \in DOMAIN Grants |-> Grants[g].rights],
  Mutating <- WriteMask,
  held <- [fd \in {x \in DOMAIN fds : IsKind(x, "dir") \/ IsKind(x, "file")} |-> Capability(fds[fd])],
  content <- [g \in DOMAIN Grants |-> View(g)]
RefinesCapabilities == Rights!Spec
=============================================================================
