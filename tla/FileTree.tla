------------------------------ MODULE FileTree ------------------------------
(***************************************************************************)
(* The host's file system, as crates/wasmrt-core/src/wasi/fs.rs uses it    *)
(* through std::fs: a tree of directories, files and symbolic links, and   *)
(* the calls that read and change it.  Everything here is outside src/.    *)
(*                                                                         *)
(* A tree maps nodes to what they hold.  A host path is the sequence of    *)
(* names from the root.  A file keeps its node when its last name goes, as *)
(* an open file does; the number of nodes bounds how many are ever made,   *)
(* after which the host has no room.                                       *)
(***************************************************************************)
EXTENDS Integers, Sequences, FiniteSets, SequencesExt

CONSTANTS Nodes,   \* 1 .. the number of nodes, 1 being the host's root
          Fuel     \* links and names one resolution by the host may go through

ASSUME NodesAssumption == Nodes \subseteq Nat \ {0} /\ 1 \in Nodes
ASSUME FuelAssumption == Fuel \in Nat

Absent == 0
HostRoot == 1

Free == [kind |-> "free"]
NewDir(ents) == [kind |-> "dir", ents |-> ents]
NewFile(data) == [kind |-> "file", data |-> data]
NewLink(abs, path) == [kind |-> "link", abs |-> abs, path |-> path]

KindOf(t, n) == IF n = Absent THEN "none" ELSE t[n].kind
IsDir(t, n) == KindOf(t, n) = "dir"

Lookup(t, d, name) ==
  IF IsDir(t, d) /\ name \in DOMAIN t[d].ents THEN t[d].ents[name] ELSE Absent

\* A tree the host can have: what a directory lists is there, and the root is one.
WellFormed(t) ==
  /\ t = [n \in Nodes |-> t[n]] /\ IsDir(t, HostRoot)
  /\ \A n \in Nodes :
       \/ t[n] = Free
       \/ t[n] \in [kind : {"file"}, data : Seq(Nat)]
       \/ t[n] \in [kind : {"link"}, abs : BOOLEAN, path : Seq(STRING)]
       \/ /\ t[n].kind = "dir" /\ t[n] = NewDir(t[n].ents)
          /\ \A x \in DOMAIN t[n].ents : x \in STRING /\ t[n].ents[x] \in Nodes /\ t[t[n].ents[x]] # Free

\* The directory that lists a directory; one that none lists, as the root, is its own.
Parent(t, n) ==
  LET above == {d \in Nodes : IsDir(t, d) /\ \E name \in DOMAIN t[d].ents : t[d].ents[name] = n}
  IN IF above = {} THEN n ELSE CHOOSE d \in above : TRUE

-----------------------------------------------------------------------------
(* Resolution by the host.                                                 *)

\* One component: at is the node reached (Absent after an error), rest what is
\* still to do.  The last component is left alone when it is a link and
\* `follow` is off.
Advance(t, s, follow) ==
  LET name == Head(s.rest)
      next == Lookup(t, s.at, name)
      linked == KindOf(t, next) = "link" /\ (follow \/ Len(s.rest) > 1)
  IN CASE s.rest = <<>> -> s
       [] s.rest # <<>> /\ ~IsDir(t, s.at) -> [at |-> Absent, rest |-> <<>>, code |-> "NOTDIR"]
       [] s.rest # <<>> /\ IsDir(t, s.at) /\ name \in {"", "."} -> [s EXCEPT !.rest = Tail(@)]
       [] s.rest # <<>> /\ IsDir(t, s.at) /\ name = ".." ->
            [s EXCEPT !.rest = Tail(@), !.at = Parent(t, @)]
       [] OTHER ->
            IF next = Absent
            THEN [at |-> Absent, rest |-> <<>>, code |-> "NOENT"]
            ELSE IF linked
                 THEN [s EXCEPT !.at = IF t[next].abs THEN HostRoot ELSE @, !.rest = t[next].path \o Tail(@)]
                 ELSE [s EXCEPT !.at = next, !.rest = Tail(@)]

\* Where a host path leads: the node, or the error.
Resolve(t, path, follow) ==
  LET start == [at |-> HostRoot, rest |-> path, code |-> "SUCCESS"]
      run[n \in 0..Fuel] == IF n = 0 THEN {start} ELSE {Advance(t, s, follow) : s \in run[n - 1]}
      end == CHOOSE s \in run[Fuel] : TRUE
  IN IF end.rest = <<>> THEN [node |-> end.at, code |-> end.code]
     ELSE [node |-> Absent, code |-> "IO"]

Lstat(t, path) == Resolve(t, path, FALSE)
Stat(t, path) == Resolve(t, path, TRUE)

\* Everything at or below a node: canonicalize(dir) starts with
\* canonicalize(root) exactly when dir's node is at or below root's.
Children(t, n) == IF IsDir(t, n) THEN {t[n].ents[name] : name \in DOMAIN t[n].ents} ELSE {}
Below(t, n) ==
  LET down[k \in 0..Fuel] == IF k = 0 THEN {n} ELSE UNION {{m} \cup Children(t, m) : m \in down[k - 1]}
  IN down[Fuel]

-----------------------------------------------------------------------------
(* Changes.  Each gives the tree afterwards and the errno of the host.     *)

Done(t) == [tree |-> t, code |-> "SUCCESS"]
Fails(t, code) == [tree |-> t, code |-> code]

FreeNodes(t) == {n \in Nodes : t[n].kind = "free"}
Fresh(t) == CHOOSE n \in FreeNodes(t) : \A m \in FreeNodes(t) : n <= m

Named(t, d, name, n) ==
  [t EXCEPT ![d].ents = [x \in DOMAIN @ \cup {name} |-> IF x = name THEN n ELSE @[x]]]
Unnamed(t, d, name) == [t EXCEPT ![d].ents = [x \in DOMAIN @ \ {name} |-> @[x]]]

\* The directory that holds the last name of a path, as the host resolves it.
Containing(t, path) == Stat(t, Front(path))

\* create_dir, symlink, and open with O_CREAT on a missing name.
Make(t, path, what) ==
  LET d == Containing(t, path)
  IN IF path = <<>> \/ Lstat(t, path).node # Absent THEN Fails(t, "EXIST")
     ELSE IF d.node = Absent THEN Fails(t, d.code)
     ELSE IF ~IsDir(t, d.node) THEN Fails(t, "NOTDIR")
     ELSE IF FreeNodes(t) = {} THEN Fails(t, "IO")
     ELSE Done(Named([t EXCEPT ![Fresh(t)] = what], d.node, Last(path), Fresh(t)))

RemoveDir(t, path) ==
  LET n == Lstat(t, path)
  IN IF path = <<>> THEN Fails(t, "IO")
     ELSE IF n.node = Absent THEN Fails(t, n.code)
     ELSE IF ~IsDir(t, n.node) THEN Fails(t, "NOTDIR")
     ELSE IF DOMAIN t[n.node].ents # {} THEN Fails(t, "NOTEMPTY")
     ELSE Done(Unnamed(t, Containing(t, path).node, Last(path)))

RemoveFile(t, path) ==
  LET n == Lstat(t, path)
  IN IF n.node = Absent THEN Fails(t, n.code)
     ELSE IF IsDir(t, n.node) THEN Fails(t, "ISDIR")
     ELSE Done(Unnamed(t, Containing(t, path).node, Last(path)))

HardLink(t, old, new) ==
  LET n == Lstat(t, old)
      d == Containing(t, new)
  IN IF n.node = Absent THEN Fails(t, n.code)
     ELSE IF IsDir(t, n.node) THEN Fails(t, "ACCES")
     ELSE IF new = <<>> \/ Lstat(t, new).node # Absent THEN Fails(t, "EXIST")
     ELSE IF d.node = Absent THEN Fails(t, d.code)
     ELSE IF ~IsDir(t, d.node) THEN Fails(t, "NOTDIR")
     ELSE Done(Named(t, d.node, Last(new), n.node))

Rename(t, old, new) ==
  LET n == Lstat(t, old)
      m == Lstat(t, new).node
      d == Containing(t, new)
  IN IF old = <<>> \/ new = <<>> THEN Fails(t, "IO")
     ELSE IF n.node = Absent THEN Fails(t, n.code)
     ELSE IF d.node = Absent THEN Fails(t, d.code)
     ELSE IF ~IsDir(t, d.node) THEN Fails(t, "NOTDIR")
     ELSE IF m = n.node THEN Done(t)
     ELSE IF IsDir(t, n.node) /\ d.node \in Below(t, n.node) THEN Fails(t, "INVAL")
     ELSE IF n.node \in Below(t, m) THEN Fails(t, "NOTEMPTY")
     ELSE IF m # Absent /\ IsDir(t, n.node) /\ ~IsDir(t, m) THEN Fails(t, "NOTDIR")
     ELSE IF m # Absent /\ ~IsDir(t, n.node) /\ IsDir(t, m) THEN Fails(t, "ISDIR")
     ELSE IF IsDir(t, m) /\ DOMAIN t[m].ents # {} THEN Fails(t, "NOTEMPTY")
     ELSE Done(Named(Unnamed(t, Containing(t, old).node, Last(old)), d.node, Last(new), n.node))

-----------------------------------------------------------------------------
(* File contents.                                                          *)

Zeros(n) == [i \in 1..n |-> 0]
Lesser(a, b) == IF a < b THEN a ELSE b

\* The bytes a read of n at a cursor returns.
ReadAt(data, at, n) == SubSeq(data, at + 1, Lesser(at + n, Len(data)))
\* A write past the end fills the gap with zeros.
WriteAt(data, at, bytes) ==
  LET start == SubSeq(data \o Zeros(IF at > Len(data) THEN at - Len(data) ELSE 0), 1, at)
  IN start \o bytes \o SubSeq(data, at + Len(bytes) + 1, Len(data))
Resized(data, n) == SubSeq(data \o Zeros(IF n > Len(data) THEN n - Len(data) ELSE 0), 1, n)
=============================================================================
