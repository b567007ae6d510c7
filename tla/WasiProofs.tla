----------------------------- MODULE WasiProofs -----------------------------
(***************************************************************************)
(* Theorems about the WASI host, for every tree, every set of grants and   *)
(* every sequence of calls: the rights of the descriptors, what a refused  *)
(* call leaves alone, the walks of paths, reads of stdin, appends, and     *)
(* that the descriptors are those of Capabilities.                         *)
(***************************************************************************)
EXTENDS Wasi, ProofLemmas, SequenceTheorems

-----------------------------------------------------------------------------
(* The inductive invariant.                                                *)

\* An entry that is open carries its rights and its grant, and a directory or
\* a file descends from a granted directory and has no right it lacks.
Bounded(e) ==
  e.kind # "closed" =>
    /\ {"kind", "grant", "base", "inh"} \subseteq DOMAIN e
    /\ e.grant # 0 => e.base \cup e.inh \subseteq Grants[e.grant].rights
    /\ e.kind \in {"dir", "file"} => e.grant \in DOMAIN Grants

\* path_open acts, after its walk, on the descriptor it looked up before it.
OpensFromADirectory ==
  call.op = "path_open" /\ (walk # NoWalk \/ found # <<>>) => IsKind(call.fd, "dir")

RightsInv ==
  /\ \A fd \in DOMAIN fds : Bounded(fds[fd])
  /\ call = NoCall => walk = NoWalk /\ found = <<>>
  /\ OpensFromADirectory

LEMMA RightsInvBounds == RightsInv => RightsWithinCeiling
  BY DEF RightsInv, RightsWithinCeiling, Bounded, IsOpen

\* What the table holds at the start.
LEMMA InitEntries ==
  ASSUME Init, NEW fd \in DOMAIN fds
  PROVE  \/ \E kind \in {"stdin", "stdout", "stderr"} : fds[fd] = Stream(kind)
         \/ \E g \in DOMAIN Grants : fds[fd] = DirFd(Grants[g].path, TRUE, Grants[g].rights, Grants[g].rights, g)
<1>1. fd \in 0..(Len(Grants) + 2)
  BY DEF Init
<1>2. CASE fd \in 0..2
  BY <1>1, <1>2, SequencesAssumption DEF Init
<1>3. CASE fd \notin 0..2
  <2>1. fd \in 3..(Len(Grants) + 2)
    BY <1>1, <1>3, SequencesAssumption
  <2>2. fd - 2 \in DOMAIN Grants
    BY <2>1, SequencesAssumption
  <2>3. fds[fd] = DirFd(Grants[fd - 2].path, TRUE, Grants[fd - 2].rights, Grants[fd - 2].rights, fd - 2)
    BY <1>1, <2>1, SequencesAssumption DEF Init
  <2> QED
    BY <2>2, <2>3
<1> QED
  BY <1>2, <1>3

LEMMA InitRights == Init => RightsInv
<1> SUFFICES ASSUME Init PROVE RightsInv
  OBVIOUS
<1>1. ASSUME NEW fd \in DOMAIN fds PROVE Bounded(fds[fd])
  BY <1>1, InitEntries DEF Bounded, Stream, DirFd
<1> QED
  BY <1>1 DEF Init, RightsInv, OpensFromADirectory, NoCall

-----------------------------------------------------------------------------
(* The steps.                                                              *)

\* A step that ends the call and leaves every entry within its bounds.
LEMMA ReturnKeeps ==
  ASSUME NEW code, Return(code), \A fd \in DOMAIN fds' : Bounded(fds'[fd])
  PROVE RightsInv'
  BY DEF Return, RightsInv, OpensFromADirectory, NoCall, Bounded

LEMMA RefuseKeeps == ASSUME RightsInv, NEW code, Refuse(code) PROVE RightsInv'
  BY ReturnKeeps DEF Refuse, RightsInv, files

LEMMA IssueKeeps == ASSUME RightsInv, NEW c, Issue(c) PROVE RightsInv'
  BY DEF Issue, RightsInv, OpensFromADirectory, files, NoCall, Bounded

\* The walk begins from a directory: Objection has looked.
LEMMA ResolveCallKeeps == ASSUME RightsInv, ResolveCall PROVE RightsInv'
<1>1. CASE Objection # "SUCCESS"
  BY <1>1, RefuseKeeps DEF ResolveCall
<1>2. CASE Objection = "SUCCESS"
  <2>1. UNCHANGED <<files, call, found>> /\ call # NoCall
    BY <1>2 DEF ResolveCall, IsPathCall, Needs, NoCall
  <2>2. ASSUME call.op = "path_open" PROVE IsKind(call.fd, "dir")
    <3>1. CASE found = <<>>
      <4>1. ThisFd = call.fd
        BY <3>1 DEF ThisFd, Phase
      <4> QED
        BY <1>2, <4>1 DEF Objection
    <3>2. CASE found # <<>>
      BY <2>2, <3>2 DEF RightsInv, OpensFromADirectory
    <3> QED
      BY <3>1, <3>2
  <2> QED
    BY <2>1, <2>2 DEF RightsInv, OpensFromADirectory, files, IsKind, IsOpen, Bounded
<1> QED
  BY <1>1, <1>2

\* While the walk goes on, only the walk changes.
LEMMA WalkGoesOn ==
  ASSUME RightsInv, Walking, UNCHANGED <<files, call>>, found' = found \/ walk' = NoWalk
  PROVE RightsInv'
<1>1. walk # NoWalk /\ call # NoCall
  BY DEF RightsInv, Walking, NoWalk
<1> QED
  BY <1>1 DEF RightsInv, OpensFromADirectory, files, IsKind, IsOpen, Bounded

LEMMA WalkStepsKeep == ASSUME RightsInv, WalkSteps PROVE RightsInv'
<1>1. ASSUME NEW w, Walking, WalkStep(w) PROVE RightsInv'
  BY <1>1, WalkGoesOn DEF WalkStep
<1>2. ASSUME NEW result, Walking, Arrived(result) PROVE RightsInv'
  <2>1. CASE Verdict # "SUCCESS"
    BY <1>2, <2>1, RefuseKeeps DEF Arrived
  <2>2. CASE Verdict = "SUCCESS"
    BY <1>2, <2>2, WalkGoesOn DEF Arrived
  <2> QED
    BY <2>1, <2>2
<1>3. CASE SkipComponent
  BY <1>1, <1>3 DEF SkipComponent
<1>4. CASE Climb
  BY <1>1, <1>4, RefuseKeeps DEF Climb
<1>5. CASE RefuseComponent
  BY <1>5, RefuseKeeps DEF RefuseComponent
<1>6. CASE ProbeFails
  BY <1>6, RefuseKeeps DEF ProbeFails
<1>7. CASE FollowLink
  <2>1. Walking
    BY <1>7 DEF FollowLink, IsLinkToFollow, AtName
  <2>2. CASE walk.budget = 0
    BY <1>7, <2>2, RefuseKeeps DEF FollowLink
  <2>3. CASE walk.budget # 0
    <3>1. \E w : WalkStep(w)
      BY <1>7, <2>3 DEF FollowLink
    <3> QED
      BY <1>1, <2>1, <3>1
  <2> QED
    BY <2>2, <2>3
<1>8. CASE NotADirectory
  BY <1>8, RefuseKeeps DEF NotADirectory
<1>9. CASE Descend
  <2>1. Walking /\ \E w : WalkStep(w)
    BY <1>9 DEF Descend, AtName
  <2> QED
    BY <1>1, <2>1
<1>10. CASE Arrive
  <2>1. Walking /\ \E result : Arrived(result)
    BY <1>10 DEF Arrive, AtName
  <2> QED
    BY <1>2, <2>1
<1>11. CASE ArriveAtDirectory
  BY <1>2, <1>11 DEF ArriveAtDirectory
<1> QED
  BY <1>3, <1>4, <1>5, <1>6, <1>7, <1>8, <1>9, <1>10, <1>11 DEF WalkSteps

\* What path_open inserts keeps the grant of the directory it opens from, and
\* has its rights from that directory's inheriting ones.
LEMMA InsertKeeps ==
  ASSUME RightsInv, NEW entry, Bounded(entry)
  PROVE \A fd \in DOMAIN Insert(entry) : Bounded(Insert(entry)[fd])
  BY DEF RightsInv, Insert

LEMMA OpenedIsBounded ==
  ASSUME RightsInv, Ready("path_open"), NEW named, NEW host, NEW node, NEW append
  PROVE /\ Bounded(DirFd(host, named, NewBase, NewInh, fds[call.fd].grant))
        /\ Bounded(FileFd(node, append, NewBase, NewInh, fds[call.fd].grant))
<1>1. call.op = "path_open" /\ found # <<>>
  BY DEF Ready, Needs
<1>2. IsKind(call.fd, "dir")
  BY <1>1 DEF RightsInv, OpensFromADirectory
<1>3. /\ fds[call.fd].grant \in DOMAIN Grants /\ fds[call.fd].grant # 0
      /\ fds[call.fd].inh \subseteq Grants[fds[call.fd].grant].rights
  BY <1>2, SequencesAssumption DEF RightsInv, Bounded, IsKind, IsOpen
<1>4. NewBase \cup NewInh \subseteq Grants[fds[call.fd].grant].rights
  BY <1>3 DEF NewBase, NewInh
<1> QED
  BY <1>3, <1>4 DEF Bounded, DirFd, FileFd

LEMMA SameEntriesKeep ==
  ASSUME RightsInv, UNCHANGED fds, NEW code, Return(code)
  PROVE RightsInv'
  BY ReturnKeeps DEF RightsInv

LEMMA PathCallsKeep == ASSUME RightsInv, PathCalls PROVE RightsInv'
<1>1. CASE PathOpenRefused
  BY <1>1, RefuseKeeps DEF PathOpenRefused
<1>2. CASE PathOpenDirectory
  BY <1>2, OpenedIsBounded, InsertKeeps, ReturnKeeps DEF PathOpenDirectory
<1>3. CASE PathOpenFile
  <2>1. CASE Opened.code = "SUCCESS"
    BY <1>3, <2>1, OpenedIsBounded, InsertKeeps, ReturnKeeps DEF PathOpenFile
  <2>2. CASE Opened.code # "SUCCESS"
    BY <1>3, <2>2, SameEntriesKeep DEF PathOpenFile
  <2> QED
    BY <2>1, <2>2
<1>4. ASSUME NEW result, HostChange(result) PROVE RightsInv'
  BY <1>4, SameEntriesKeep DEF HostChange
<1>5. CASE PathCreateDirectory
  BY <1>4, <1>5 DEF PathCreateDirectory
<1>6. CASE PathRemoveDirectory
  BY <1>4, <1>6 DEF PathRemoveDirectory
<1>7. CASE PathUnlinkFile
  BY <1>4, <1>7 DEF PathUnlinkFile
<1>8. CASE PathSymlink
  BY <1>4, <1>8 DEF PathSymlink
<1>9. CASE PathRename
  BY <1>4, <1>9 DEF PathRename
<1>10. CASE PathLink
  BY <1>4, <1>10 DEF PathLink
<1>11. CASE PathFilestatGet
  <2>1. \E code : Refuse(code)
    BY <1>11 DEF PathFilestatGet
  <2> QED
    BY <2>1, RefuseKeeps
<1>12. CASE PathReadlink
  <2>1. \E code : Refuse(code)
    BY <1>12 DEF PathReadlink
  <2> QED
    BY <2>1, RefuseKeeps
<1> QED
  BY <1>1, <1>2, <1>3, <1>5, <1>6, <1>7, <1>8, <1>9, <1>10, <1>11, <1>12 DEF PathCalls

\* Closing, moving and repositioning: every entry afterwards is closed, or one
\* there was, or one with another cursor or mode.
LEMMA EntryChangesKeep ==
  ASSUME RightsInv
  PROVE /\ \A n : \A fd \in DOMAIN Closing(n) : Bounded(Closing(n)[fd])
        /\ \A to : \A from \in DOMAIN fds : \A fd \in DOMAIN Renumbered(from, to) : Bounded(Renumbered(from, to)[fd])
        /\ \A n, pos : \A fd \in DOMAIN MovedTo(n, pos) : Bounded(MovedTo(n, pos)[fd])
        /\ \A n, mode : LET table == [fds EXCEPT ![n].append = mode] IN \A fd \in DOMAIN table : Bounded(table[fd])
<1>1. Bounded(Closed)
  BY DEF Bounded, Closed
<1>2. ASSUME NEW n, NEW fd \in DOMAIN Closing(n) PROVE Bounded(Closing(n)[fd])
  BY <1>1, <1>2 DEF Closing, RightsInv
<1>3. ASSUME NEW from \in DOMAIN fds, NEW to, NEW fd \in DOMAIN Renumbered(from, to)
      PROVE Bounded(Renumbered(from, to)[fd])
  BY <1>1, <1>3 DEF Renumbered, RightsInv
<1>4. ASSUME NEW e, Bounded(e), NEW x PROVE Bounded([e EXCEPT !.pos = x]) /\ Bounded([e EXCEPT !.append = x])
  BY <1>4 DEF Bounded
<1>5. ASSUME NEW n, NEW pos, NEW fd \in DOMAIN MovedTo(n, pos) PROVE Bounded(MovedTo(n, pos)[fd])
  BY <1>4, <1>5 DEF MovedTo, RightsInv
<1>6. ASSUME NEW n, NEW mode, NEW fd \in DOMAIN [fds EXCEPT ![n].append = mode]
      PROVE Bounded([fds EXCEPT ![n].append = mode][fd])
  BY <1>4, <1>6 DEF RightsInv
<1> QED
  BY <1>2, <1>3, <1>5, <1>6

LEMMA FdCallsKeep == ASSUME RightsInv, FdCalls PROVE RightsInv'
<1>1. CASE FdClose
  BY <1>1, EntryChangesKeep, ReturnKeeps, RefuseKeeps DEF FdClose
<1>2. CASE FdRenumber
  BY <1>2, EntryChangesKeep, ReturnKeeps, RefuseKeeps DEF FdRenumber, IsOpen
<1>3. CASE FdFdstatSetFlags
  <2>1. CASE fds' = [fds EXCEPT ![call.fd].append = call.append] /\ Return("SUCCESS")
    <3>1. \A fd \in DOMAIN fds' : Bounded(fds'[fd])
      BY <2>1, EntryChangesKeep
    <3> QED
      BY <2>1, <3>1, ReturnKeeps
  <2>2. CASE \E code : Refuse(code)
    BY <2>2, RefuseKeeps
  <2> QED
    BY <1>3, <2>1, <2>2 DEF FdFdstatSetFlags
<1>4. ASSUME NEW n, NEW pos, fds' = MovedTo(n, pos), NEW code, Return(code) PROVE RightsInv'
  BY <1>4, EntryChangesKeep, ReturnKeeps
<1>5. CASE FdSeek
  BY <1>4, <1>5, RefuseKeeps DEF FdSeek
<1>6. CASE FdReadFile
  <2>1. CASE FileObjection("FD_READ") # "SUCCESS"
    BY <1>6, <2>1, RefuseKeeps DEF FdReadFile
  <2>2. CASE FileObjection("FD_READ") = "SUCCESS"
    <3>1. /\ fds' = fds \/ \E n, pos : fds' = MovedTo(n, pos)
          /\ \E code : Return(code)
      BY <1>6, <2>2 DEF FdReadFile
    <3> QED
      BY <1>4, <3>1, SameEntriesKeep
  <2> QED
    BY <2>1, <2>2
<1>7. CASE FdWriteFile
  <2>1. \/ \E code : Refuse(code)
        \/ /\ fds' = fds \/ \E n, pos : fds' = MovedTo(n, pos)
           /\ \E code : Return(code)
    BY <1>7 DEF FdWriteFile
  <2> QED
    BY <1>4, <2>1, SameEntriesKeep, RefuseKeeps
<1>8. CASE FdFilestatSetSize
  BY <1>8, SameEntriesKeep, RefuseKeeps DEF FdFilestatSetSize
<1>9. CASE Query
  BY <1>9, RefuseKeeps DEF Query
<1>10. CASE FdReadStdin
  <2>1. (\E code : Refuse(code)) \/ (UNCHANGED files /\ \E code : Return(code))
    BY <1>10 DEF FdReadStdin
  <2> QED
    BY <2>1, SameEntriesKeep, RefuseKeeps DEF files
<1>11. CASE FdWriteStream
  <2>1. (\E code : Refuse(code)) \/ (UNCHANGED files /\ \E code : Return(code))
    BY <1>11 DEF FdWriteStream
  <2> QED
    BY <2>1, SameEntriesKeep, RefuseKeeps DEF files
<1>12. CASE ProcExit
  BY <1>12, SameEntriesKeep DEF ProcExit, files
<1> QED
  BY <1>1, <1>2, <1>3, <1>5, <1>6, <1>7, <1>8, <1>9, <1>10, <1>11, <1>12 DEF FdCalls

LEMMA NextKeepsRights == ASSUME RightsInv, [Next]_vars PROVE RightsInv'
<1>1. CASE Guest
  BY <1>1, IssueKeeps DEF Guest
<1>2. CASE Host
  BY <1>2, ResolveCallKeeps, WalkStepsKeep, PathCallsKeep, FdCallsKeep DEF Host
<1>3. CASE UNCHANGED vars
  BY <1>3 DEF vars, RightsInv, OpensFromADirectory, IsKind, IsOpen, Bounded
<1> QED
  BY <1>1, <1>2, <1>3 DEF Next

\* No chain of opens, renumberings and closes gives a guest a right that the
\* directory it was granted does not have: path_open intersects what is asked
\* with the inheriting rights of a directory that nothing has replaced since the
\* call looked it up.
THEOREM RightsNeverGrow == Spec => []RightsWithinCeiling
  BY InitRights, NextKeepsRights, RightsInvBounds, PTL DEF Spec
-----------------------------------------------------------------------------
(* Calls that are refused.                                                 *)

\* A change the host refuses is no change.
LEMMA HostRefusesWhole ==
  ASSUME NEW t, NEW path, NEW other, NEW what
  PROVE /\ Make(t, path, what).code # "SUCCESS" => Make(t, path, what).tree = t
        /\ RemoveDir(t, path).code # "SUCCESS" => RemoveDir(t, path).tree = t
        /\ RemoveFile(t, path).code # "SUCCESS" => RemoveFile(t, path).tree = t
        /\ Rename(t, path, other).code # "SUCCESS" => Rename(t, path, other).tree = t
        /\ HardLink(t, path, other).code # "SUCCESS" => HardLink(t, path, other).tree = t
<1>1. Make(t, path, what).code # "SUCCESS" => Make(t, path, what).tree = t
  BY DEF Make, Done, Fails
<1>2. RemoveDir(t, path).code # "SUCCESS" => RemoveDir(t, path).tree = t
  BY DEF RemoveDir, Done, Fails
<1>3. RemoveFile(t, path).code # "SUCCESS" => RemoveFile(t, path).tree = t
  BY DEF RemoveFile, Done, Fails
<1>4. Rename(t, path, other).code # "SUCCESS" => Rename(t, path, other).tree = t
  BY DEF Rename, Done, Fails
<1>5. HardLink(t, path, other).code # "SUCCESS" => HardLink(t, path, other).tree = t
  BY DEF HardLink, Done, Fails
<1> QED
  BY <1>1, <1>2, <1>3, <1>4, <1>5

LEMMA OpenRefusesWhole == Opened.code # "SUCCESS" => Opened.tree = tree
  BY HostRefusesWhole DEF Opened, Done, Fails

\* A cursor that moved is not told apart.
LEMMA CursorsDoNotCount ==
  ASSUME RightsInv, NEW n, IsKind(n, "file"), NEW pos
  PROVE Unpositioned(MovedTo(n, pos)) = Unpositioned(fds)
<1>1. DOMAIN MovedTo(n, pos) = DOMAIN fds
  BY DEF MovedTo
<1>2. ASSUME NEW fd \in DOMAIN fds
      PROVE Unpositioned(MovedTo(n, pos))[fd] = Unpositioned(fds)[fd]
  <2>1. CASE fd # n
    BY <1>2, <2>1 DEF MovedTo, Unpositioned
  <2>2. CASE fd = n
    <3> DEFINE e == fds[fd]
               m == [e EXCEPT !.pos = pos]
    <3>1. MovedTo(n, pos)[fd] = m
      BY <1>2, <2>2 DEF MovedTo
    <3>2. e.kind = "file" /\ "kind" \in DOMAIN e
      BY <1>2, <2>2 DEF IsKind, RightsInv, Bounded
    <3>3. m.kind = "file"
      BY <3>2
    <3>4. [m EXCEPT !.pos = 0] = [e EXCEPT !.pos = 0]
      OBVIOUS
    <3>5. Unpositioned(fds)[fd] = [e EXCEPT !.pos = 0]
      BY <1>2, <3>2 DEF Unpositioned
    <3>6. Unpositioned(MovedTo(n, pos))[fd] = [m EXCEPT !.pos = 0]
      BY <1>1, <1>2, <3>1, <3>3 DEF Unpositioned
    <3> QED
      BY <3>4, <3>5, <3>6
  <2> QED
    BY <2>1, <2>2
<1> QED
  BY <1>1, <1>2 DEF Unpositioned

\* What RefusedCallsChangeNothing asks of a step.
Harmless ==
  call # NoCall /\ call' = NoCall /\ ret' \notin {"SUCCESS", "FAULT"} =>
    tree' = tree /\ Unpositioned(fds') = Unpositioned(fds)

LEMMA SameFilesAreHarmless == ASSUME UNCHANGED files PROVE Harmless
  BY DEF Harmless, files, Unpositioned

LEMMA RefusalsAreHarmless == ASSUME NEW code, Refuse(code) PROVE Harmless
  BY SameFilesAreHarmless DEF Refuse

LEMMA SuccessIsHarmless == ASSUME NEW code \in {"SUCCESS", "FAULT"}, Return(code) PROVE Harmless
  BY DEF Harmless, Return

LEMMA AnswersAreHarmless == ASSUME NEW delivered, Return(Answer(delivered)) PROVE Harmless
  BY SuccessIsHarmless DEF Answer

LEMMA WalksAreHarmless == ASSUME ResolveCall \/ WalkSteps PROVE Harmless
<1>1. CASE ResolveCall
  BY <1>1, SameFilesAreHarmless, RefusalsAreHarmless DEF ResolveCall
<1>2. ASSUME NEW w, WalkStep(w) PROVE Harmless
  BY <1>2, SameFilesAreHarmless DEF WalkStep
<1>3. ASSUME NEW result, Arrived(result) PROVE Harmless
  BY <1>3, SameFilesAreHarmless, RefusalsAreHarmless DEF Arrived
<1>4. CASE SkipComponent \/ Climb \/ Descend
  <2>1. (\E w : WalkStep(w)) \/ (\E code : Refuse(code))
    BY <1>4 DEF SkipComponent, Climb, Descend
  <2> QED
    BY <1>2, <2>1, RefusalsAreHarmless
<1>5. CASE RefuseComponent \/ ProbeFails \/ NotADirectory
  BY <1>5, RefusalsAreHarmless DEF RefuseComponent, ProbeFails, NotADirectory
<1>6. CASE FollowLink
  <2>1. (\E w : WalkStep(w)) \/ (\E code : Refuse(code))
    BY <1>6 DEF FollowLink
  <2> QED
    BY <1>2, <2>1, RefusalsAreHarmless
<1>7. CASE Arrive \/ ArriveAtDirectory
  BY <1>3, <1>7 DEF Arrive, ArriveAtDirectory
<1> QED
  BY <1>1, <1>4, <1>5, <1>6, <1>7 DEF WalkSteps

LEMMA PathCallsAreHarmless == ASSUME PathCalls PROVE Harmless
<1>1. CASE PathOpenRefused
  BY <1>1, RefusalsAreHarmless DEF PathOpenRefused
<1>2. CASE PathOpenDirectory
  BY <1>2, AnswersAreHarmless DEF PathOpenDirectory
<1>3. CASE PathOpenFile
  <2>1. CASE Opened.code = "SUCCESS"
    BY <1>3, <2>1, AnswersAreHarmless DEF PathOpenFile
  <2>2. CASE Opened.code # "SUCCESS"
    <3>1. UNCHANGED files
      BY <1>3, <2>2, OpenRefusesWhole DEF PathOpenFile, files
    <3> QED
      BY <3>1, SameFilesAreHarmless
  <2> QED
    BY <2>1, <2>2
<1>4. ASSUME NEW result, HostChange(result), result.code # "SUCCESS" => result.tree = tree PROVE Harmless
  <2>1. CASE result.code = "SUCCESS"
    BY <1>4, <2>1, SuccessIsHarmless DEF HostChange
  <2>2. CASE result.code # "SUCCESS"
    BY <1>4, <2>2, SameFilesAreHarmless DEF HostChange, files
  <2> QED
    BY <2>1, <2>2
<1>5. CASE PathCreateDirectory
  BY <1>4, <1>5, HostRefusesWhole DEF PathCreateDirectory
<1>6. CASE PathRemoveDirectory
  BY <1>4, <1>6, HostRefusesWhole DEF PathRemoveDirectory
<1>7. CASE PathUnlinkFile
  BY <1>4, <1>7, HostRefusesWhole DEF PathUnlinkFile
<1>8. CASE PathSymlink
  BY <1>4, <1>8, HostRefusesWhole DEF PathSymlink
<1>9. CASE PathRename
  BY <1>4, <1>9, HostRefusesWhole DEF PathRename
<1>10. CASE PathLink
  BY <1>4, <1>10, HostRefusesWhole DEF PathLink
<1>11. CASE PathFilestatGet \/ PathReadlink
  <2>1. \E code : Refuse(code)
    BY <1>11 DEF PathFilestatGet, PathReadlink
  <2> QED
    BY <2>1, RefusalsAreHarmless
<1> QED
  BY <1>1, <1>2, <1>3, <1>5, <1>6, <1>7, <1>8, <1>9, <1>10, <1>11 DEF PathCalls

LEMMA FdCallsAreHarmless == ASSUME RightsInv, FdCalls PROVE Harmless
<1>1. CASE FdClose \/ FdRenumber \/ FdFdstatSetFlags
  BY <1>1, SuccessIsHarmless, RefusalsAreHarmless DEF FdClose, FdRenumber, FdFdstatSetFlags
<1>2. CASE FdSeek
  BY <1>2, AnswersAreHarmless, RefusalsAreHarmless DEF FdSeek
<1>3. CASE FdReadFile
  BY <1>3, AnswersAreHarmless, RefusalsAreHarmless DEF FdReadFile
<1>4. CASE FdWriteFile
  <2>1. CASE FileObjection("FD_WRITE") # "SUCCESS"
    BY <1>4, <2>1, RefusalsAreHarmless DEF FdWriteFile
  <2>2. CASE FileObjection("FD_WRITE") = "SUCCESS" /\ WritePos + Len(Payload) > MaxData
    <3>1. IsKind(call.fd, "file")
      BY <2>2 DEF FileObjection
    <3>2. tree' = tree /\ (fds' = fds \/ fds' = MovedTo(call.fd, WritePos))
      BY <1>4, <2>2 DEF FdWriteFile
    <3> QED
      BY <3>1, <3>2, CursorsDoNotCount DEF Harmless, Unpositioned
  <2>3. CASE FileObjection("FD_WRITE") = "SUCCESS" /\ ~(WritePos + Len(Payload) > MaxData)
    BY <1>4, <2>3, AnswersAreHarmless DEF FdWriteFile
  <2> QED
    BY <2>1, <2>2, <2>3
<1>5. CASE FdFilestatSetSize
  BY <1>5, SuccessIsHarmless, RefusalsAreHarmless DEF FdFilestatSetSize
<1>6. CASE Query
  BY <1>6, RefusalsAreHarmless DEF Query
<1>7. CASE FdReadStdin \/ FdWriteStream \/ ProcExit
  <2>1. UNCHANGED files \/ \E code : Refuse(code)
    BY <1>7 DEF FdReadStdin, FdWriteStream, ProcExit
  <2> QED
    BY <2>1, SameFilesAreHarmless, RefusalsAreHarmless
<1> QED
  BY <1>1, <1>2, <1>3, <1>4, <1>5, <1>6, <1>7 DEF FdCalls

\* A call that reports an error other than FAULT has changed neither the host's
\* files nor the descriptors: each call decides whether it refuses before the
\* first thing it changes, and the host refuses a change as a whole.
THEOREM RefusalsChangeNothing == Spec => RefusedCallsChangeNothing
<1>1. ASSUME RightsInv, [Next]_vars
      PROVE [call # NoCall /\ call' = NoCall /\ ret' \notin {"SUCCESS", "FAULT"} =>
               tree' = tree /\ Unpositioned(fds') = Unpositioned(fds)]_vars
  <2>1. CASE Guest
    BY <2>1, SameFilesAreHarmless DEF Guest, Issue, Harmless
  <2>2. CASE Host
    BY <1>1, <2>2, WalksAreHarmless, PathCallsAreHarmless, FdCallsAreHarmless DEF Host, Harmless
  <2> QED
    BY <1>1, <2>1, <2>2 DEF Next
<1> QED
  BY <1>1, InitRights, NextKeepsRights, PTL DEF Spec, RefusedCallsChangeNothing
-----------------------------------------------------------------------------
(* Resolution by the host, step by step.                                   *)

IsRun(t, path, follow, f) ==
  /\ f[0] = [at |-> HostRoot, rest |-> path, code |-> "SUCCESS"]
  /\ \A n \in 1..Fuel : f[n] = Advance(t, f[n - 1], follow)
Outcome(s) ==
  IF s.rest = <<>> THEN [node |-> s.at, code |-> s.code] ELSE [node |-> Absent, code |-> "IO"]

LEMMA ResolveRuns ==
  ASSUME NEW t, NEW path, NEW follow
  PROVE  \E f : IsRun(t, path, follow, f) /\ Resolve(t, path, follow) = Outcome(f[Fuel])
<1> DEFINE start == [at |-> HostRoot, rest |-> path, code |-> "SUCCESS"]
           Steps(g, n) == g = [i \in 0..n |-> IF i = 0 THEN {start} ELSE {Advance(t, s, follow) : s \in g[i - 1]}]
           S == {n \in Nat : \E g : Steps(g, n)}
           run == CHOOSE g : Steps(g, Fuel)
<1>1. 0 \in S
  <2> DEFINE g == [i \in 0..0 |-> {start}]
  <2>1. Steps(g, 0)
    OBVIOUS
  <2> QED BY <2>1
<1>2. ASSUME NEW n \in Nat, n \in S PROVE n + 1 \in S
  <2>1. PICK f : Steps(f, n)
    BY <1>2
  <2> DEFINE next == {Advance(t, s, follow) : s \in f[n]}
             g == [i \in 0..(n + 1) |-> IF i = n + 1 THEN next ELSE f[i]]
  <2>2. \A i \in 0..n : f[i] = IF i = 0 THEN {start} ELSE {Advance(t, s, follow) : s \in f[i - 1]}
    BY <2>1
  <2> HIDE DEF start
  <2>3. ASSUME NEW i \in 0..(n + 1)
        PROVE g[i] = IF i = 0 THEN {start} ELSE {Advance(t, s, follow) : s \in g[i - 1]}
    <3>1. CASE i = n + 1
      <4>1. g[n] = f[n] /\ g[n + 1] = next /\ (n + 1) - 1 = n
        OBVIOUS
      <4> QED BY <3>1, <4>1
    <3>2. CASE i # n + 1 /\ i # 0
      <4>1. i \in 0..n /\ i - 1 \in 0..n
        BY <3>2
      <4>2. g[i] = f[i] /\ g[i - 1] = f[i - 1]
        BY <3>2, <4>1
      <4>3. f[i] = {Advance(t, s, follow) : s \in f[i - 1]}
        BY <2>2, <3>2, <4>1
      <4> QED BY <3>2, <4>2, <4>3
    <3>3. CASE i = 0
      <4>1. 0 \in 0..n /\ 0 \in 0..(n + 1) /\ 0 # n + 1
        OBVIOUS
      <4>2. g[0] = f[0]
        BY <4>1
      <4>3. f[0] = {start}
        BY <2>2, <4>1
      <4> QED BY <3>3, <4>2, <4>3
    <3> QED BY <3>1, <3>2, <3>3
  <2>4. g = [i \in 0..(n + 1) |-> g[i]]
    OBVIOUS
  <2> HIDE DEF g
  <2>5. Steps(g, n + 1)
    BY <2>3, <2>4
  <2> QED BY <2>5
<1>3. Steps(run, Fuel)
  <2> HIDE DEF S
  <2>1. Fuel \in S
    BY <1>1, <1>2, NatSetInduction, FuelAssumption
  <2> HIDE DEF Steps
  <2>2. \E g : Steps(g, Fuel)
    BY <2>1 DEF S
  <2> QED BY <2>2
<1>4. Resolve(t, path, follow) = Outcome(CHOOSE s \in run[Fuel] : TRUE)
  BY DEF Resolve, Outcome, run, start
<1> HIDE DEF run
<1>5. \A n \in 0..Fuel : run[n] = IF n = 0 THEN {start} ELSE {Advance(t, s, follow) : s \in run[n - 1]}
  BY <1>3
<1> DEFINE f == [n \in 0..Fuel |-> CHOOSE s \in run[n] : TRUE]
           R == {n \in Nat : n <= Fuel => run[n] = {f[n]}}
<1>6. run[0] = {start} /\ f[0] = start
  <2> HIDE DEF start
  <2>1. 0 \in 0..Fuel
    BY FuelAssumption
  <2>2. run[0] = {start}
    BY <1>5, <2>1
  <2>3. f[0] = CHOOSE s \in run[0] : TRUE
    BY <2>1
  <2> HIDE DEF f
  <2> QED BY <2>2, <2>3
<1>7. ASSUME NEW n \in Nat, n + 1 <= Fuel, run[n] = {f[n]}
      PROVE  run[n + 1] = {f[n + 1]} /\ f[n + 1] = Advance(t, f[n], follow)
  <2>1. n + 1 \in 0..Fuel /\ n + 1 # 0 /\ (n + 1) - 1 = n
    BY <1>7, FuelAssumption
  <2>2. run[n + 1] = {Advance(t, s, follow) : s \in run[n]}
    BY <1>5, <2>1
  <2>3. run[n + 1] = {Advance(t, f[n], follow)}
    BY <1>7, <2>2
  <2>4. f[n + 1] = CHOOSE s \in run[n + 1] : TRUE
    BY <2>1
  <2> QED BY <2>3, <2>4
<1> HIDE DEF f
<1>8. ASSUME NEW n \in Nat PROVE n \in R
  <2>1. 0 \in R
    BY <1>6
  <2>2. ASSUME NEW k \in Nat, k \in R PROVE k + 1 \in R
    BY <1>7, <2>2, FuelAssumption
  <2> HIDE DEF R
  <2> QED BY <2>1, <2>2, NatSetInduction
<1>9. \A n \in 1..Fuel : f[n] = Advance(t, f[n - 1], follow)
  <2> SUFFICES ASSUME NEW n \in 1..Fuel PROVE f[n] = Advance(t, f[n - 1], follow)
    OBVIOUS
  <2>1. n - 1 \in Nat /\ (n - 1) + 1 = n /\ n <= Fuel /\ n - 1 <= Fuel
    BY FuelAssumption
  <2>2. run[n - 1] = {f[n - 1]}
    BY <1>8, <2>1
  <2>3. (n - 1) + 1 <= Fuel
    BY <2>1
  <2>4. f[(n - 1) + 1] = Advance(t, f[n - 1], follow)
    BY <1>7, <2>1, <2>2, <2>3
  <2> QED BY <2>1, <2>4
<1>10. Resolve(t, path, follow) = Outcome(f[Fuel])
  BY <1>4, FuelAssumption DEF f
<1> QED BY <1>6, <1>9, <1>10 DEF IsRun, start

\* What is reached on the way: a node that is there, or none after an error.
Reached(t) == {n \in Nodes : t[n] # Free} \cup {Absent}
IsState(t, s) ==
  /\ s.at \in Reached(t) /\ s.rest \in Seq(STRING)
  /\ s = [at |-> s.at, rest |-> s.rest, code |-> s.code]
  /\ s.at = Absent => s.code # "SUCCESS"
Name(s) == Head(s.rest)
Next0(t, s) == Lookup(t, s.at, Name(s))
IsLinked(t, s, follow) == KindOf(t, Next0(t, s)) = "link" /\ (follow \/ Len(s.rest) > 1)
Dots == {"", ".", ".."}

Lost(code) == [at |-> Absent, rest |-> <<>>, code |-> code]
On(n, rest, code) == [at |-> n, rest |-> rest, code |-> code]

\* The ways to go on from a directory, one per kind of name.
Stays(t, s, u) == Name(s) \in {"", "."} /\ u = On(s.at, Tail(s.rest), s.code)
GoesUp(t, s, u) == Name(s) = ".." /\ u = On(Parent(t, s.at), Tail(s.rest), s.code)
IsLost(t, s, u) == Name(s) \notin Dots /\ Next0(t, s) = Absent /\ u = Lost("NOENT")
GoesVia(t, s, follow, u) ==
  /\ Name(s) \notin Dots /\ Next0(t, s) # Absent /\ IsLinked(t, s, follow)
  /\ u = On(IF t[Next0(t, s)].abs THEN HostRoot ELSE s.at, t[Next0(t, s)].path \o Tail(s.rest), s.code)
GoesDown(t, s, follow, u) ==
  /\ Name(s) \notin Dots /\ Next0(t, s) # Absent /\ ~IsLinked(t, s, follow)
  /\ u = On(Next0(t, s), Tail(s.rest), s.code)
Enters(t, s, follow, u) ==
  Stays(t, s, u) \/ GoesUp(t, s, u) \/ IsLost(t, s, u) \/ GoesVia(t, s, follow, u) \/ GoesDown(t, s, follow, u)

LEMMA AdvanceIs ==
  ASSUME NEW t, NEW s, IsState(t, s), NEW follow
  PROVE  /\ s.rest = <<>> => Advance(t, s, follow) = s
         /\ s.rest # <<>> /\ ~IsDir(t, s.at) => Advance(t, s, follow) = Lost("NOTDIR")
         /\ s.rest # <<>> /\ IsDir(t, s.at) => Enters(t, s, follow, Advance(t, s, follow))
<1>0. s = [at |-> s.at, rest |-> s.rest, code |-> s.code]
  BY DEF IsState
<1>1. CASE s.rest = <<>>
  BY <1>1 DEF Advance
<1>2. CASE s.rest # <<>> /\ ~IsDir(t, s.at)
  BY <1>2 DEF Advance, Lost
<1>3. CASE s.rest # <<>> /\ IsDir(t, s.at) /\ Name(s) \in {"", "."}
  <2>1. Advance(t, s, follow) = [s EXCEPT !.rest = Tail(@)]
    BY <1>3 DEF Advance, Name
  <2>2. Stays(t, s, Advance(t, s, follow))
    BY <1>0, <1>3, <2>1 DEF Stays, On
  <2> QED BY <1>3, <2>2 DEF Enters
<1>4. CASE s.rest # <<>> /\ IsDir(t, s.at) /\ Name(s) = ".."
  <2>1. Advance(t, s, follow) = [s EXCEPT !.rest = Tail(@), !.at = Parent(t, @)]
    BY <1>4 DEF Advance, Name
  <2>2. GoesUp(t, s, Advance(t, s, follow))
    BY <1>0, <1>4, <2>1 DEF GoesUp, On
  <2> QED BY <1>4, <2>2 DEF Enters
<1>5. CASE s.rest # <<>> /\ IsDir(t, s.at) /\ Name(s) \notin Dots
  <2>1. Advance(t, s, follow) =
          IF Next0(t, s) = Absent THEN [at |-> Absent, rest |-> <<>>, code |-> "NOENT"]
          ELSE IF IsLinked(t, s, follow)
               THEN [s EXCEPT !.at = IF t[Next0(t, s)].abs THEN HostRoot ELSE @,
                              !.rest = t[Next0(t, s)].path \o Tail(@)]
               ELSE [s EXCEPT !.at = Next0(t, s), !.rest = Tail(@)]
    BY <1>5 DEF Advance, Name, Next0, IsLinked, Dots
  <2>2. CASE Next0(t, s) = Absent
    <3>1. IsLost(t, s, Advance(t, s, follow))
      BY <1>5, <2>1, <2>2 DEF IsLost, Lost
    <3> QED BY <1>5, <3>1 DEF Enters
  <2>3. CASE Next0(t, s) # Absent /\ IsLinked(t, s, follow)
    <3>1. GoesVia(t, s, follow, Advance(t, s, follow))
      BY <1>0, <1>5, <2>1, <2>3 DEF GoesVia, On
    <3> QED BY <1>5, <3>1 DEF Enters
  <2>4. CASE Next0(t, s) # Absent /\ ~IsLinked(t, s, follow)
    <3>1. GoesDown(t, s, follow, Advance(t, s, follow))
      BY <1>0, <1>5, <2>1, <2>4 DEF GoesDown, On
    <3> QED BY <1>5, <3>1 DEF Enters
  <2> QED BY <2>2, <2>3, <2>4
<1> QED BY <1>1, <1>2, <1>3, <1>4, <1>5 DEF Dots

LEMMA PathParts ==
  ASSUME NEW S, NEW r \in Seq(S), r # <<>>
  PROVE  /\ Head(r) \in S /\ Tail(r) \in Seq(S)
         /\ Len(r) \in Nat \ {0} /\ Len(Tail(r)) = Len(r) - 1
BY HeadTailProperties

Kept(t) == {n \in Nodes : t[n] # Free}

\* What a tree lists is there.
LEMMA TreeParts ==
  ASSUME NEW t, WellFormed(t)
  PROVE  /\ Absent \notin Nodes /\ HostRoot \in Kept(t) /\ Reached(t) = Kept(t) \cup {Absent}
         /\ \A n \in Reached(t) : IsDir(t, n) => n \in Kept(t)
         /\ \A d \in Reached(t) : \A name : Lookup(t, d, name) \in Reached(t)
         /\ \A n \in Reached(t) : KindOf(t, n) = "link" => t[n].path \in Seq(STRING)
         /\ \A n \in Kept(t) : Parent(t, n) \in Kept(t)
         /\ \A n \in Kept(t) : IsDir(t, n) => IsDir(t, Parent(t, n))
<1>1. Absent \notin Nodes /\ HostRoot \in Nodes
  BY NodesAssumption DEF Absent, HostRoot
<1>2. HostRoot \in Kept(t)
  BY <1>1 DEF WellFormed, IsDir, KindOf, Kept, Free, Absent, HostRoot
<1>3. Reached(t) = Kept(t) \cup {Absent}
  BY DEF Reached, Kept
<1>4. ASSUME NEW n \in Reached(t), IsDir(t, n) PROVE n \in Kept(t)
  BY <1>3, <1>4 DEF IsDir, KindOf
<1>5. ASSUME NEW d \in Reached(t), NEW name PROVE Lookup(t, d, name) \in Reached(t)
  <2>1. CASE IsDir(t, d) /\ name \in DOMAIN t[d].ents
    <3>1. d \in Nodes /\ t[d].kind = "dir"
      BY <1>4, <2>1 DEF Kept, IsDir, KindOf
    <3>2. \A x \in DOMAIN t[d].ents : t[d].ents[x] \in Nodes /\ t[t[d].ents[x]] # Free
      BY <3>1 DEF WellFormed, Free
    <3>3. t[d].ents[name] \in Nodes /\ t[t[d].ents[name]] # Free
      BY <2>1, <3>2
    <3> QED BY <2>1, <3>3 DEF Lookup, Reached
  <2>2. CASE ~(IsDir(t, d) /\ name \in DOMAIN t[d].ents)
    BY <2>2 DEF Lookup, Reached
  <2> QED BY <2>1, <2>2
<1>6. ASSUME NEW n \in Reached(t), KindOf(t, n) = "link" PROVE t[n].path \in Seq(STRING)
  <2>1. n \in Nodes /\ t[n].kind = "link"
    BY <1>3, <1>6 DEF KindOf, Kept
  <2> QED BY <2>1 DEF WellFormed, Free
<1>7. ASSUME NEW n \in Kept(t) PROVE Parent(t, n) \in Kept(t) /\ (IsDir(t, n) => IsDir(t, Parent(t, n)))
  <2> DEFINE above == {d \in Nodes : IsDir(t, d) /\ \E name \in DOMAIN t[d].ents : t[d].ents[name] = n}
  <2>1. Parent(t, n) = IF above = {} THEN n ELSE CHOOSE d \in above : TRUE
    BY DEF Parent
  <2>2. above \subseteq Kept(t) /\ \A d \in above : IsDir(t, d)
    BY DEF Kept, IsDir, KindOf, Free
  <2> HIDE DEF above
  <2>3. CASE above = {}
    BY <2>1, <2>3
  <2>4. CASE above # {}
    <3>1. Parent(t, n) \in above
      BY <2>1, <2>4
    <3> QED BY <2>2, <3>1
  <2> QED BY <2>3, <2>4
<1> QED BY <1>1, <1>2, <1>3, <1>4, <1>5, <1>6, <1>7

LEMMA AdvanceStays ==
  ASSUME NEW t, WellFormed(t), NEW s, IsState(t, s), NEW follow
  PROVE  IsState(t, Advance(t, s, follow))
<1>0. s.at \in Reached(t) /\ s.rest \in Seq(STRING) 
  BY DEF IsState
<1>1. Absent \in Reached(t) /\ HostRoot \in Reached(t)
  BY TreeParts
<1>2. CASE s.rest = <<>>
  BY <1>2, AdvanceIs
<1>3. CASE s.rest # <<>> /\ ~IsDir(t, s.at)
  <2>1. Advance(t, s, follow) = Lost("NOTDIR")
    BY <1>3, AdvanceIs
  <2>2. IsState(t, Lost("NOTDIR"))
    BY <1>1 DEF Lost, IsState
  <2> QED BY <2>1, <2>2
<1>4. CASE s.rest # <<>> /\ IsDir(t, s.at)
  <2>0. PICK u : u = Advance(t, s, follow)
    OBVIOUS
  <2> SUFFICES IsState(t, u)
    BY <2>0
  <2>1. Enters(t, s, follow, u)
    BY <1>4, <2>0, AdvanceIs
  <2>2. Tail(s.rest) \in Seq(STRING)
    BY <1>0, <1>4, PathParts
  <2>3. /\ Parent(t, s.at) \in Kept(t) /\ Next0(t, s) \in Reached(t) /\ s.at \in Kept(t)
        /\ HostRoot \in Kept(t) /\ Absent \notin Kept(t) /\ Kept(t) \subseteq Reached(t)
        /\ Next0(t, s) # Absent => Next0(t, s) \in Kept(t)
    BY <1>0, <1>4, TreeParts DEF Next0, Kept
  <2>4. ASSUME NEW a \in Kept(t), NEW r \in Seq(STRING), NEW c PROVE IsState(t, On(a, r, c))
    BY <2>3 DEF On, IsState
  <2>5. CASE Stays(t, s, u)
    BY <2>2, <2>3, <2>4, <2>5 DEF Stays
  <2>6. CASE GoesUp(t, s, u)
    BY <1>0, <2>2, <2>3, <2>4, <2>6 DEF GoesUp
  <2>7. CASE IsLost(t, s, u)
    BY <1>1, <2>7 DEF IsLost, Lost, IsState
  <2>8. CASE GoesVia(t, s, follow, u)
    <3>1. t[Next0(t, s)].path \in Seq(STRING)
      BY <2>3, <2>8, TreeParts DEF GoesVia, IsLinked
    <3>2. t[Next0(t, s)].path \o Tail(s.rest) \in Seq(STRING)
      BY <2>2, <3>1
    <3>3. (IF t[Next0(t, s)].abs THEN HostRoot ELSE s.at) \in Kept(t)
      BY <2>3
    <3> QED BY <1>0, <2>4, <2>8, <3>2, <3>3 DEF GoesVia
  <2>9. CASE GoesDown(t, s, follow, u)
    BY <1>0, <2>2, <2>3, <2>4, <2>9 DEF GoesDown
  <2> QED BY <2>1, <2>5, <2>6, <2>7, <2>8, <2>9 DEF Enters
<1> QED BY <1>2, <1>3, <1>4

LEMMA RunStays ==
  ASSUME NEW t, WellFormed(t), NEW path \in Seq(STRING), NEW follow, NEW f, IsRun(t, path, follow, f)
  PROVE  \A n \in 0..Fuel : IsState(t, f[n])
<1> DEFINE R == {n \in Nat : n <= Fuel => IsState(t, f[n])}
<1>1. 0 \in R
  <2>1. f[0] = [at |-> HostRoot, rest |-> path, code |-> "SUCCESS"]
    BY DEF IsRun
  <2>2. HostRoot \in Reached(t)
    BY TreeParts
  <2>3. HostRoot # Absent
    BY DEF HostRoot, Absent
  <2> QED BY <2>1, <2>2, <2>3 DEF IsState
<1>2. ASSUME NEW n \in Nat, n \in R PROVE n + 1 \in R
  <2> SUFFICES ASSUME n + 1 <= Fuel PROVE IsState(t, f[n + 1])
    OBVIOUS
  <2>1. n + 1 \in 1..Fuel /\ (n + 1) - 1 = n /\ n <= Fuel
    BY FuelAssumption
  <2>2. IsState(t, f[n])
    BY <1>2, <2>1
  <2>3. f[n + 1] = Advance(t, f[n], follow)
    BY <2>1 DEF IsRun
  <2> QED BY <2>2, <2>3, AdvanceStays
<1> HIDE DEF R
<1>3. \A n \in Nat : n \in R
  BY <1>1, <1>2, NatSetInduction
<1> QED BY <1>3, FuelAssumption DEF R

\* Where a path leads is there, and no link when links are followed.
LEMMA LeadsSomewhere ==
  ASSUME NEW t, WellFormed(t), NEW path \in Seq(STRING), NEW follow
  PROVE  /\ Resolve(t, path, follow).node \in Reached(t)
         /\ Resolve(t, path, follow).node = Absent => Resolve(t, path, follow).code # "SUCCESS"
<1>1. PICK f : IsRun(t, path, follow, f) /\ Resolve(t, path, follow) = Outcome(f[Fuel])
  BY ResolveRuns
<1>2. IsState(t, f[Fuel])
  BY <1>1, RunStays, FuelAssumption
<1> QED BY <1>1, <1>2 DEF Outcome, IsState, Reached

LEMMA LeadsToNoLink ==
  ASSUME NEW t, WellFormed(t), NEW path \in Seq(STRING)
  PROVE  KindOf(t, Stat(t, path).node) # "link"
<1>0. PICK follow : follow = TRUE
  OBVIOUS
<1>1. PICK f : IsRun(t, path, follow, f) /\ Stat(t, path) = Outcome(f[Fuel])
  BY <1>0, ResolveRuns DEF Stat
<1>2. \A n \in 0..Fuel : IsState(t, f[n])
  BY <1>1, RunStays
<1> DEFINE R == {n \in Nat : n <= Fuel => KindOf(t, f[n].at) # "link"}
<1>3. KindOf(t, HostRoot) # "link" /\ KindOf(t, Absent) # "link"
  BY DEF WellFormed, IsDir, KindOf
<1>4. 0 \in R
  BY <1>1, <1>3 DEF IsRun
<1>5. ASSUME NEW n \in Nat, n \in R PROVE n + 1 \in R
  <2> SUFFICES ASSUME n + 1 <= Fuel PROVE KindOf(t, f[n + 1].at) # "link"
    OBVIOUS
  <2>1. n + 1 \in 1..Fuel /\ (n + 1) - 1 = n /\ n <= Fuel /\ n \in 0..Fuel
    BY FuelAssumption
  <2>2. IsState(t, f[n]) /\ KindOf(t, f[n].at) # "link"
    BY <1>2, <1>5, <2>1
  <2>3. f[n + 1] = Advance(t, f[n], follow)
    BY <1>1, <2>1 DEF IsRun
  <2>4. PICK s, u : IsState(t, s) /\ KindOf(t, s.at) # "link" /\ u = Advance(t, s, follow) /\ u = f[n + 1]
    BY <2>2, <2>3
  <2> SUFFICES KindOf(t, u.at) # "link"
    BY <2>4
  <2>5. CASE s.rest = <<>>
    <3>1. u = s
      BY <2>4, <2>5, AdvanceIs
    <3> QED BY <2>4, <3>1
  <2>6. CASE s.rest # <<>> /\ ~IsDir(t, s.at)
    <3>1. u = Lost("NOTDIR")
      BY <2>4, <2>6, AdvanceIs
    <3> QED BY <1>3, <3>1 DEF Lost
  <2>7. CASE s.rest # <<>> /\ IsDir(t, s.at)
    <3>1. Enters(t, s, follow, u)
      <4>1. Enters(t, s, follow, Advance(t, s, follow))
        BY <2>4, <2>7, AdvanceIs
      <4> QED BY <2>4, <4>1
    <3>2. KindOf(t, Parent(t, s.at)) # "link"
      <4>1. s.at \in Kept(t)
        BY <2>4, <2>7, TreeParts DEF IsState
      <4> QED BY <2>7, <4>1, TreeParts DEF IsDir
    <3>3. CASE Stays(t, s, u)
      <4>1. u.at = s.at
        BY <3>3 DEF Stays, On
      <4> QED BY <2>4, <4>1
    <3>4. CASE GoesUp(t, s, u)
      BY <3>2, <3>4 DEF GoesUp, On
    <3>5. CASE IsLost(t, s, u)
      BY <1>3, <3>5 DEF IsLost, Lost
    <3>6. CASE GoesVia(t, s, follow, u)
      BY <1>3, <2>4, <3>6 DEF GoesVia, On
    <3>7. CASE GoesDown(t, s, follow, u)
      BY <1>0, <3>7 DEF GoesDown, On, IsLinked
    <3> QED BY <3>1, <3>3, <3>4, <3>5, <3>6, <3>7 DEF Enters
  <2> QED BY <2>5, <2>6, <2>7
<1> HIDE DEF R
<1>6. Fuel \in R
  BY <1>4, <1>5, NatSetInduction, FuelAssumption
<1> QED BY <1>1, <1>3, <1>6, FuelAssumption DEF R, Outcome

\* A sequence with one more element.
LEMMA OneMore ==
  ASSUME NEW S, NEW r \in Seq(S), NEW c \in S
  PROVE  /\ Append(r, c) \in Seq(S) /\ Append(r, c) # <<>>
         /\ r = <<>> => Head(Append(r, c)) = c /\ Tail(Append(r, c)) = <<>> /\ Len(Append(r, c)) = 1
         /\ r # <<>> => /\ Head(Append(r, c)) = Head(r) /\ Tail(Append(r, c)) = Append(Tail(r), c)
                        /\ Len(Append(r, c)) > 1
         /\ \A p \in Seq(S) : p \o Append(r, c) = Append(p \o r, c)
<1>1. Append(r, c) \in Seq(S) /\ Append(r, c) # <<>> /\ Len(Append(r, c)) = Len(r) + 1 /\ Len(r) \in Nat
  BY AppendProperties, LenProperties
<1>2. CASE r = <<>>
  <2>1. Append(<<>>, c) = <<c>>
    OBVIOUS
  <2>2. Head(<<c>>) = c /\ Tail(<<c>>) = <<>> /\ Len(<<c>>) = 1
    OBVIOUS
  <2> QED BY <1>2, <2>1, <2>2
<1>3. CASE r # <<>>
  <2>1. Len(r) \in Nat \ {0} /\ Head(r) = r[1] /\ Tail(r) \in Seq(S) /\ Len(Tail(r)) = Len(r) - 1
    BY <1>3, HeadTailProperties, LenProperties
  <2>2. Head(Append(r, c)) = Head(r)
    BY <1>1, <2>1
  <2>3. Tail(Append(r, c)) = Append(Tail(r), c)
    BY <1>1, <2>1
  <2>4. Len(Append(r, c)) > 1
    BY <1>1, <2>1
  <2> QED BY <1>3, <2>2, <2>3, <2>4
<1>4. ASSUME NEW p \in Seq(S) PROVE p \o Append(r, c) = Append(p \o r, c)
  <2>1. <<c>> \in Seq(S) /\ p \o r \in Seq(S)
    OBVIOUS
  <2>2. Append(r, c) = r \o <<c>> /\ Append(p \o r, c) = (p \o r) \o <<c>>
    BY <2>1, AppendIsConcat
  <2> QED BY <2>1, <2>2, ConcatAssociative
<1> QED BY <1>1, <1>2, <1>3, <1>4

\* Two resolutions side by side: of a path, and of the same with one name more.
InStep(c, f, g) == f.at # Absent /\ g = On(f.at, Append(f.rest, c), f.code)
BothLost(f, g) == f.at = Absent /\ g.at = Absent /\ f.rest = <<>> /\ g.rest = <<>>
Landed(t, c, f, g) == f.at # Absent /\ f.rest = <<>> /\ g.rest = <<>> /\ g.at = Lookup(t, f.at, c)
Beside(t, c, f, g) == InStep(c, f, g) \/ BothLost(f, g) \/ Landed(t, c, f, g)

LEMMA StillInStep ==
  ASSUME NEW c, NEW n, n # Absent, NEW rest, NEW code
  PROVE  InStep(c, On(n, rest, code), On(n, Append(rest, c), code))
<1>1. On(n, rest, code).at = n /\ On(n, rest, code).rest = rest /\ On(n, rest, code).code = code
  BY DEF On
<1> QED BY <1>1 DEF InStep

\* The name that one of them has more is looked up where the other has ended.
LEMMA LastNameIsLookedUp ==
  ASSUME NEW t, WellFormed(t), NEW c \in STRING \ Dots, NEW f, IsState(t, f), NEW g, IsState(t, g),
         InStep(c, f, g), f.rest = <<>>, NEW no, no = FALSE, NEW u, u = Advance(t, g, no)
  PROVE  Landed(t, c, f, u)
<1>1. g.at = f.at /\ g.rest = Append(<<>>, c)
  BY DEF InStep, On
<1>2. <<>> \in Seq(STRING) /\ c \in STRING
  OBVIOUS
<1>3. g.rest # <<>> /\ Name(g) = c /\ Tail(g.rest) = <<>> /\ Len(g.rest) = 1
  BY <1>1, <1>2, OneMore DEF Name
<1>4. f.at # Absent
  BY DEF InStep
<1>5. CASE ~IsDir(t, f.at)
  <2>1. u = Lost("NOTDIR")
    BY <1>1, <1>3, <1>5, AdvanceIs
  <2>2. Lookup(t, f.at, c) = Absent
    BY <1>5 DEF Lookup
  <2> QED BY <1>4, <2>1, <2>2 DEF Landed, Lost
<1>6. CASE IsDir(t, f.at)
  <2>1. Enters(t, g, no, Advance(t, g, no))
    BY <1>1, <1>3, <1>6, AdvanceIs
  <2>2. Next0(t, g) = Lookup(t, f.at, c)
    BY <1>1, <1>3 DEF Next0
  <2>3. ~IsLinked(t, g, no)
    BY <1>3 DEF IsLinked
  <2>4. IsLost(t, g, u) \/ GoesDown(t, g, no, u)
    BY <1>3, <2>1, <2>3 DEF Enters, Stays, GoesUp, GoesVia, Dots
  <2>5. CASE IsLost(t, g, u)
    <3>1. u.at = Absent /\ u.rest = <<>> /\ Next0(t, g) = Absent
      BY <2>5 DEF IsLost, Lost
    <3> QED BY <1>4, <2>2, <3>1 DEF Landed
  <2>6. CASE GoesDown(t, g, no, u)
    <3>1. u.at = Next0(t, g) /\ u.rest = <<>>
      BY <1>3, <2>6 DEF GoesDown, On
    <3> QED BY <1>4, <2>2, <3>1 DEF Landed
  <2> QED BY <2>4, <2>5, <2>6
<1> QED BY <1>5, <1>6

\* Up to there both do the same.
LEMMA NamesBeforeAreTheSame ==
  ASSUME NEW t, WellFormed(t), NEW c \in STRING \ Dots, NEW f, IsState(t, f), NEW g, IsState(t, g),
         InStep(c, f, g), f.rest # <<>>, NEW no, no = FALSE, NEW yes, yes = TRUE,
         NEW v, v = Advance(t, f, yes), NEW u, u = Advance(t, g, no)
  PROVE  InStep(c, v, u) \/ BothLost(v, u)
<1>1. g.at = f.at /\ g.rest = Append(f.rest, c) /\ g.code = f.code /\ f.at # Absent
  BY DEF InStep, On
<1>2. f.rest \in Seq(STRING) /\ c \in STRING
  BY DEF IsState
<1>3. /\ g.rest # <<>> /\ Name(g) = Name(f) /\ Len(g.rest) > 1
      /\ Tail(g.rest) = Append(Tail(f.rest), c)
  BY <1>1, <1>2, OneMore DEF Name
<1>4. Tail(f.rest) \in Seq(STRING)
  BY <1>2, PathParts
<1>5. CASE ~IsDir(t, f.at)
  <2>1. u = Lost("NOTDIR") /\ v = Lost("NOTDIR")
    BY <1>1, <1>3, <1>5, AdvanceIs
  <2> QED BY <2>1 DEF BothLost, Lost
<1>6. CASE IsDir(t, f.at)
  <2>1. Enters(t, g, no, Advance(t, g, no)) /\ Enters(t, f, yes, Advance(t, f, yes))
    BY <1>1, <1>3, <1>6, AdvanceIs
  <2>2. Enters(t, g, no, u) /\ Enters(t, f, yes, v)
    BY <2>1
  <2>3. Next0(t, g) = Next0(t, f)
    BY <1>1, <1>3 DEF Next0
  <2>4. IsLinked(t, g, no) <=> IsLinked(t, f, yes)
    BY <1>3, <2>3 DEF IsLinked
  <2>5. f.at \in Kept(t)
    BY <1>6, TreeParts DEF IsState
  <2>6. CASE Stays(t, f, v)
    <3>1. Stays(t, g, u)
      BY <1>3, <2>2, <2>6 DEF Enters, Stays, GoesUp, IsLost, GoesVia, GoesDown, Dots
    <3>2. v = On(f.at, Tail(f.rest), f.code) /\ u = On(f.at, Append(Tail(f.rest), c), f.code)
      BY <1>1, <1>3, <2>6, <3>1 DEF Stays
    <3> QED BY <1>1, <3>2, StillInStep
  <2>7. CASE GoesUp(t, f, v)
    <3>1. GoesUp(t, g, u)
      BY <1>3, <2>2, <2>7 DEF Enters, Stays, GoesUp, IsLost, GoesVia, GoesDown, Dots
    <3>2. v = On(Parent(t, f.at), Tail(f.rest), f.code) /\ u = On(Parent(t, f.at), Append(Tail(f.rest), c), f.code)
      BY <1>1, <1>3, <2>7, <3>1 DEF GoesUp
    <3>3. Parent(t, f.at) # Absent
      BY <2>5, TreeParts DEF Kept
    <3> QED BY <3>2, <3>3, StillInStep
  <2>8. CASE IsLost(t, f, v)
    <3>1. IsLost(t, g, u)
      BY <1>3, <2>2, <2>3, <2>8 DEF Enters, Stays, GoesUp, IsLost, GoesVia, GoesDown, Dots
    <3> QED BY <2>8, <3>1 DEF IsLost, Lost, BothLost
  <2>9. CASE GoesVia(t, f, yes, v)
    <3>1. GoesVia(t, g, no, u)
      BY <1>3, <2>2, <2>3, <2>4, <2>9 DEF Enters, Stays, GoesUp, IsLost, GoesVia, GoesDown, Dots
    <3> DEFINE n == IF t[Next0(t, f)].abs THEN HostRoot ELSE f.at
               p == t[Next0(t, f)].path
    <3>2. v = On(n, p \o Tail(f.rest), f.code) /\ u = On(n, p \o Append(Tail(f.rest), c), f.code)
      BY <1>1, <1>3, <2>3, <2>9, <3>1 DEF GoesVia
    <3>3. Next0(t, f) \in Reached(t)
      BY TreeParts DEF IsState, Next0
    <3>4. p \in Seq(STRING)
      BY <2>9, <3>3, TreeParts DEF GoesVia, IsLinked
    <3>5. p \o Append(Tail(f.rest), c) = Append(p \o Tail(f.rest), c)
      <4> HIDE DEF n, p
      <4>1. \A q \in Seq(STRING) : q \o Append(Tail(f.rest), c) = Append(q \o Tail(f.rest), c)
        BY <1>2, <1>4, OneMore
      <4> QED BY <3>4, <4>1
    <3>6. n # Absent
      BY <1>1 DEF HostRoot, Absent
    <3> HIDE DEF n, p
    <3> QED BY <3>2, <3>5, <3>6, StillInStep
  <2>10. CASE GoesDown(t, f, yes, v)
    <3>1. GoesDown(t, g, no, u)
      BY <1>3, <2>2, <2>3, <2>4, <2>10 DEF Enters, Stays, GoesUp, IsLost, GoesVia, GoesDown, Dots
    <3>2. /\ v = On(Next0(t, f), Tail(f.rest), f.code) /\ Next0(t, f) # Absent
          /\ u = On(Next0(t, f), Append(Tail(f.rest), c), f.code)
      BY <1>1, <1>3, <2>3, <2>10, <3>1 DEF GoesDown
    <3> QED BY <3>2, StillInStep
  <2> QED BY <2>2, <2>6, <2>7, <2>8, <2>9, <2>10 DEF Enters
<1> QED BY <1>5, <1>6

LEMMA BesideStays ==
  ASSUME NEW t, WellFormed(t), NEW c \in STRING \ Dots, NEW f, IsState(t, f), NEW g, IsState(t, g),
         Beside(t, c, f, g), NEW no, no = FALSE, NEW yes, yes = TRUE
  PROVE  Beside(t, c, Advance(t, f, yes), Advance(t, g, no))
<1>0. PICK u, v : u = Advance(t, g, no) /\ v = Advance(t, f, yes)
  OBVIOUS
<1>1. f.rest = <<>> => v = f
  BY <1>0, AdvanceIs
<1>2. g.rest = <<>> => u = g
  BY <1>0, AdvanceIs
<1>3. CASE InStep(c, f, g) /\ f.rest = <<>>
  <2>1. Landed(t, c, f, u)
    BY <1>0, <1>3, LastNameIsLookedUp
  <2> QED BY <1>0, <1>1, <1>3, <2>1 DEF Beside
<1>4. CASE InStep(c, f, g) /\ f.rest # <<>>
  <2>1. InStep(c, v, u) \/ BothLost(v, u)
    BY <1>0, <1>4, NamesBeforeAreTheSame
  <2> QED BY <1>0, <2>1 DEF Beside
<1>5. CASE BothLost(f, g) \/ Landed(t, c, f, g)
  <2>1. f.rest = <<>> /\ g.rest = <<>>
    BY <1>5 DEF BothLost, Landed
  <2>2. v = f /\ u = g
    BY <1>1, <1>2, <2>1
  <2> QED BY <1>0, <1>5, <2>2 DEF Beside
<1> QED BY <1>3, <1>4, <1>5 DEF Beside

\* Where a path with one name more leads: to what the directory that the path
\* leads to lists under the name.
LEMMA NameIsLookedUp ==
  ASSUME NEW t, WellFormed(t), NEW path \in Seq(STRING), NEW c \in STRING \ Dots,
         Lstat(t, Append(path, c)).node # Absent
  PROVE  /\ Stat(t, path).node # Absent
         /\ Lstat(t, Append(path, c)).node = Lookup(t, Stat(t, path).node, c)
<1>0. PICK yes, no : yes = TRUE /\ no = FALSE
  OBVIOUS
<1>1. Append(path, c) \in Seq(STRING) /\ c \in STRING
  BY OneMore
<1>2. PICK f : IsRun(t, path, yes, f) /\ Stat(t, path) = Outcome(f[Fuel])
  BY <1>0, ResolveRuns DEF Stat
<1>3. PICK g : IsRun(t, Append(path, c), no, g) /\ Lstat(t, Append(path, c)) = Outcome(g[Fuel])
  BY <1>0, ResolveRuns DEF Lstat
<1>4. \A n \in 0..Fuel : IsState(t, f[n]) /\ IsState(t, g[n])
  BY <1>1, <1>2, <1>3, RunStays
<1> DEFINE R == {n \in Nat : n <= Fuel => Beside(t, c, f[n], g[n])}
<1>5. 0 \in R
  <2>1. InStep(c, f[0], g[0])
    BY <1>2, <1>3 DEF IsRun, InStep, On, HostRoot, Absent
  <2> QED BY <2>1 DEF Beside
<1>6. ASSUME NEW n \in Nat, n \in R PROVE n + 1 \in R
  <2> SUFFICES ASSUME n + 1 <= Fuel PROVE Beside(t, c, f[n + 1], g[n + 1])
    OBVIOUS
  <2>1. n + 1 \in 1..Fuel /\ (n + 1) - 1 = n /\ n <= Fuel /\ n \in 0..Fuel
    BY FuelAssumption
  <2>2. f[n + 1] = Advance(t, f[n], yes) /\ g[n + 1] = Advance(t, g[n], no)
    BY <1>2, <1>3, <2>1 DEF IsRun
  <2>3. Beside(t, c, f[n], g[n])
    BY <1>6, <2>1
  <2>4. IsState(t, f[n]) /\ IsState(t, g[n])
    BY <1>4, <2>1
  <2> QED BY <1>0, <2>2, <2>3, <2>4, BesideStays
<1>7. Beside(t, c, f[Fuel], g[Fuel])
  <2> HIDE DEF R
  <2>1. Fuel \in R
    BY <1>5, <1>6, NatSetInduction, FuelAssumption
  <2> QED BY <2>1, FuelAssumption DEF R
<1>8. g[Fuel].rest = <<>> /\ g[Fuel].at # Absent /\ Lstat(t, Append(path, c)).node = g[Fuel].at
  BY <1>3 DEF Outcome
<1>9. ~InStep(c, f[Fuel], g[Fuel])
  <2> SUFFICES ASSUME InStep(c, f[Fuel], g[Fuel]) PROVE FALSE
    OBVIOUS
  <2>1. g[Fuel].rest = Append(f[Fuel].rest, c)
    BY DEF InStep, On
  <2>2. f[Fuel].rest \in Seq(STRING)
    <3>1. Fuel \in 0..Fuel
      BY FuelAssumption
    <3> QED BY <1>4, <3>1 DEF IsState
  <2> QED BY <1>1, <1>8, <2>1, <2>2, OneMore
<1>10. Landed(t, c, f[Fuel], g[Fuel])
  BY <1>7, <1>8, <1>9 DEF Beside, BothLost
<1> QED BY <1>2, <1>8, <1>10 DEF Landed, Outcome

\* From one state there is one way to go on, whether links are followed or not,
\* unless the name is a link.
LEMMA OneWayOn ==
  ASSUME NEW t, NEW s, NEW no, NEW yes, NEW u, NEW v, Enters(t, s, no, u), Enters(t, s, yes, v)
  PROVE  /\ Stays(t, s, u) \/ GoesUp(t, s, u) \/ IsLost(t, s, u) => v = u
         /\ (IsLinked(t, s, no) <=> IsLinked(t, s, yes)) => v = u
<1>1. CASE Stays(t, s, u)
  <2>1. Stays(t, s, v)
    BY <1>1 DEF Enters, Stays, GoesUp, IsLost, GoesVia, GoesDown, Dots
  <2> QED BY <1>1, <2>1 DEF Stays
<1>2. CASE GoesUp(t, s, u)
  <2>1. GoesUp(t, s, v)
    BY <1>2 DEF Enters, Stays, GoesUp, IsLost, GoesVia, GoesDown, Dots
  <2> QED BY <1>2, <2>1 DEF GoesUp
<1>3. CASE IsLost(t, s, u)
  <2>1. IsLost(t, s, v)
    BY <1>3 DEF Enters, Stays, GoesUp, IsLost, GoesVia, GoesDown, Dots
  <2> QED BY <1>3, <2>1 DEF IsLost
<1>4. ASSUME GoesVia(t, s, no, u), IsLinked(t, s, no) <=> IsLinked(t, s, yes) PROVE v = u
  <2>1. GoesVia(t, s, yes, v)
    BY <1>4 DEF Enters, Stays, GoesUp, IsLost, GoesVia, GoesDown, Dots
  <2> QED BY <1>4, <2>1 DEF GoesVia
<1>5. ASSUME GoesDown(t, s, no, u), IsLinked(t, s, no) <=> IsLinked(t, s, yes) PROVE v = u
  <2>1. GoesDown(t, s, yes, v)
    BY <1>5 DEF Enters, Stays, GoesUp, IsLost, GoesVia, GoesDown, Dots
  <2> QED BY <1>5, <2>1 DEF GoesDown
<1> QED BY <1>1, <1>2, <1>3, <1>4, <1>5 DEF Enters

\* A path leads to the same, followed or not, unless it leads to a link.
LEMMA FollowedUnlessLink ==
  ASSUME NEW t, WellFormed(t), NEW path \in Seq(STRING), KindOf(t, Lstat(t, path).node) # "link"
  PROVE  Stat(t, path).node = Lstat(t, path).node
<1>0. PICK yes, no : yes = TRUE /\ no = FALSE
  OBVIOUS
<1>1. PICK f : IsRun(t, path, yes, f) /\ Stat(t, path) = Outcome(f[Fuel])
  BY <1>0, ResolveRuns DEF Stat
<1>2. PICK g : IsRun(t, path, no, g) /\ Lstat(t, path) = Outcome(g[Fuel])
  BY <1>0, ResolveRuns DEF Lstat
<1>3. \A n \in 0..Fuel : IsState(t, f[n]) /\ IsState(t, g[n])
  BY <1>1, <1>2, RunStays
<1> DEFINE AtLink(s) == s.rest = <<>> /\ KindOf(t, s.at) = "link"
           R == {n \in Nat : n <= Fuel => f[n] = g[n] \/ AtLink(g[n])}
<1>4. 0 \in R
  BY <1>1, <1>2 DEF IsRun
<1>5. ASSUME NEW s, IsState(t, s) PROVE Advance(t, s, yes) = Advance(t, s, no) \/ AtLink(Advance(t, s, no))
  <2>0. PICK u, v : u = Advance(t, s, no) /\ v = Advance(t, s, yes)
    OBVIOUS
  <2> SUFFICES v = u \/ AtLink(u)
    BY <2>0
  <2>1. CASE s.rest = <<>> \/ ~IsDir(t, s.at)
    <3>1. u = v
      BY <1>5, <2>0, <2>1, AdvanceIs
    <3> QED BY <3>1
  <2>2. CASE s.rest # <<>> /\ IsDir(t, s.at)
    <3>1. Enters(t, s, no, Advance(t, s, no)) /\ Enters(t, s, yes, Advance(t, s, yes))
      BY <1>5, <2>2, AdvanceIs
    <3>2. Enters(t, s, no, u) /\ Enters(t, s, yes, v)
      BY <2>0, <3>1
    <3>3. CASE IsLinked(t, s, no) <=> IsLinked(t, s, yes)
      BY <3>2, <3>3, OneWayOn
    <3>4. CASE ~(IsLinked(t, s, no) <=> IsLinked(t, s, yes))
      <4>1. KindOf(t, Next0(t, s)) = "link" /\ ~(Len(s.rest) > 1)
        BY <1>0, <3>4 DEF IsLinked
      <4>2. Tail(s.rest) = <<>>
        <5>1. Len(s.rest) \in Nat \ {0} /\ Len(Tail(s.rest)) = Len(s.rest) - 1 /\ Tail(s.rest) \in Seq(STRING)
          BY <1>5, <2>2, PathParts DEF IsState
        <5>2. Len(Tail(s.rest)) = 0
          <6>1. \A k \in Nat \ {0} : ~(k > 1) => k - 1 = 0
            OBVIOUS
          <6> QED BY <4>1, <5>1, <6>1
        <5> QED BY <5>1, <5>2, EmptySeq
      <4>3. CASE GoesDown(t, s, no, u)
        <5>1. u.at = Next0(t, s) /\ u.rest = <<>>
          BY <4>2, <4>3 DEF GoesDown, On
        <5> QED BY <4>1, <5>1
      <4>4. CASE ~GoesDown(t, s, no, u)
        <5>1. ~GoesVia(t, s, no, u)
          BY <1>0, <4>1 DEF GoesVia, IsLinked
        <5>2. Stays(t, s, u) \/ GoesUp(t, s, u) \/ IsLost(t, s, u)
          BY <3>2, <4>4, <5>1 DEF Enters
        <5> QED BY <3>2, <5>2, OneWayOn
      <4> QED BY <4>3, <4>4
    <3> QED BY <3>3, <3>4
  <2> QED BY <2>1, <2>2
<1>6. ASSUME NEW n \in Nat, n \in R PROVE n + 1 \in R
  <2> SUFFICES ASSUME n + 1 <= Fuel PROVE f[n + 1] = g[n + 1] \/ AtLink(g[n + 1])
    OBVIOUS
  <2>1. n + 1 \in 1..Fuel /\ (n + 1) - 1 = n /\ n <= Fuel /\ n \in 0..Fuel
    BY FuelAssumption
  <2>2. f[n + 1] = Advance(t, f[n], yes) /\ g[n + 1] = Advance(t, g[n], no)
    BY <1>1, <1>2, <2>1 DEF IsRun
  <2>3. f[n] = g[n] \/ AtLink(g[n])
    BY <1>6, <2>1
  <2>4. IsState(t, f[n]) /\ IsState(t, g[n])
    BY <1>3, <2>1
  <2>5. CASE f[n] = g[n]
    <3> HIDE DEF AtLink
    <3> QED BY <1>5, <2>2, <2>4, <2>5
  <2>6. CASE AtLink(g[n])
    <3>1. g[n + 1] = g[n]
      BY <2>2, <2>4, <2>6, AdvanceIs
    <3> QED BY <2>6, <3>1
  <2> QED BY <2>3, <2>5, <2>6
<1>7. f[Fuel] = g[Fuel] \/ AtLink(g[Fuel])
  <2> HIDE DEF R
  <2>1. Fuel \in R
    BY <1>4, <1>6, NatSetInduction, FuelAssumption
  <2> QED BY <2>1, FuelAssumption DEF R
<1> QED BY <1>1, <1>2, <1>7 DEF Outcome

\* A path that leads somewhere is no longer than the steps its resolution takes.
LEMMA LongPathsLeadNowhere ==
  ASSUME NEW t, WellFormed(t), NEW path \in Seq(STRING), Stat(t, path).node # Absent
  PROVE  Len(path) <= Fuel
<1>0. PICK yes : yes = TRUE
  OBVIOUS
<1>1. PICK f : IsRun(t, path, yes, f) /\ Stat(t, path) = Outcome(f[Fuel])
  BY <1>0, ResolveRuns DEF Stat
<1>2. \A n \in 0..Fuel : IsState(t, f[n])
  BY <1>1, RunStays
<1>3. Len(path) \in Nat
  BY LenProperties
<1> DEFINE R == {n \in Nat : n <= Fuel => f[n].at = Absent \/ Len(f[n].rest) + n >= Len(path)}
<1>4. 0 \in R
  BY <1>1, <1>3 DEF IsRun
<1>5. ASSUME NEW n \in Nat, n \in R PROVE n + 1 \in R
  <2> SUFFICES ASSUME n + 1 <= Fuel PROVE f[n + 1].at = Absent \/ Len(f[n + 1].rest) + n + 1 >= Len(path)
    OBVIOUS
  <2>1. n + 1 \in 1..Fuel /\ (n + 1) - 1 = n /\ n <= Fuel /\ n \in 0..Fuel
    BY FuelAssumption
  <2>2. PICK s, u : s = f[n] /\ u = f[n + 1]
    OBVIOUS
  <2>3. u = Advance(t, s, yes) /\ IsState(t, s) /\ IsState(t, u)
    BY <1>1, <1>2, <2>1, <2>2 DEF IsRun
  <2>4. Len(s.rest) \in Nat /\ Len(u.rest) \in Nat
    BY <2>3, LenProperties DEF IsState
  <2>5. s.at = Absent \/ Len(s.rest) + n >= Len(path)
    BY <1>5, <2>1, <2>2
  <2>6. u.at = Absent \/ (s.at # Absent /\ Len(u.rest) + 1 >= Len(s.rest))
    <3>1. CASE s.rest = <<>>
      <4>1. u = s
        BY <2>3, <3>1, AdvanceIs
      <4> QED BY <2>4, <4>1
    <3>2. CASE s.rest # <<>> /\ ~IsDir(t, s.at)
      <4>1. u = Lost("NOTDIR")
        BY <2>3, <3>2, AdvanceIs
      <4> QED BY <4>1 DEF Lost
    <3>3. CASE s.rest # <<>> /\ IsDir(t, s.at)
      <4>1. Enters(t, s, yes, u)
        BY <2>3, <3>3, AdvanceIs
      <4>2. s.at # Absent
        BY <3>3 DEF IsDir, KindOf
      <4>3. Tail(s.rest) \in Seq(STRING) /\ Len(Tail(s.rest)) = Len(s.rest) - 1
        BY <2>3, <3>3, PathParts DEF IsState
      <4>4. CASE Stays(t, s, u) \/ GoesUp(t, s, u) \/ GoesDown(t, s, yes, u)
        <5>1. u.rest = Tail(s.rest)
          <6>1. CASE Stays(t, s, u)
            BY <6>1 DEF Stays, On
          <6>2. CASE GoesUp(t, s, u)
            BY <6>2 DEF GoesUp, On
          <6>3. CASE GoesDown(t, s, yes, u)
            BY <6>3 DEF GoesDown, On
          <6> QED BY <4>4, <6>1, <6>2, <6>3
        <5> QED BY <2>4, <4>2, <4>3, <5>1
      <4>5. CASE IsLost(t, s, u)
        BY <4>5 DEF IsLost, Lost
      <4>6. CASE GoesVia(t, s, yes, u)
        <5>1. PICK p : p = t[Next0(t, s)].path
          OBVIOUS
        <5>2. u.rest = p \o Tail(s.rest)
          BY <4>6, <5>1 DEF GoesVia, On
        <5>3. p \in Seq(STRING)
          <6>1. Next0(t, s) \in Reached(t)
            BY <2>3, TreeParts DEF IsState, Next0
          <6> QED BY <4>6, <5>1, <6>1, TreeParts DEF GoesVia, IsLinked
        <5>4. Len(u.rest) = Len(p) + Len(Tail(s.rest)) /\ Len(p) \in Nat
          BY <4>3, <5>2, <5>3, ConcatProperties, LenProperties
        <5> QED BY <2>4, <4>2, <4>3, <5>4
      <4> QED BY <4>1, <4>4, <4>5, <4>6 DEF Enters
    <3> QED BY <3>1, <3>2, <3>3
  <2>7. ASSUME s.at # Absent, Len(u.rest) + 1 >= Len(s.rest) PROVE Len(u.rest) + n + 1 >= Len(path)
    <3>1. PICK a \in Nat, b \in Nat, c \in Nat : a = Len(u.rest) /\ b = Len(s.rest) /\ c = Len(path)
      BY <1>3, <2>4
    <3>2. a + 1 >= b /\ b + n >= c
      BY <2>5, <2>7, <3>1
    <3>3. a + n + 1 >= c
      BY <3>1, <3>2
    <3> QED BY <3>1, <3>3
  <2> QED BY <2>2, <2>6, <2>7
<1>6. f[Fuel].at = Absent \/ Len(f[Fuel].rest) + Fuel >= Len(path)
  <2> HIDE DEF R
  <2>1. Fuel \in R
    BY <1>4, <1>5, NatSetInduction, FuelAssumption
  <2> QED BY <2>1, FuelAssumption DEF R
<1>7. f[Fuel].rest = <<>> /\ f[Fuel].at # Absent
  BY <1>1 DEF Outcome
<1>8. Len(f[Fuel].rest) = 0
  BY <1>7
<1> QED BY <1>3, <1>6, <1>7, <1>8, FuelAssumption

\* What lies below a node, level by level.
Levels(t, n, f) ==
  /\ f[0] = {n}
  /\ \A k \in 1..Fuel : f[k] = UNION {{m} \cup Children(t, m) : m \in f[k - 1]}

LEMMA BelowInLevels ==
  ASSUME NEW t, NEW n
  PROVE  \E f : Levels(t, n, f) /\ Below(t, n) = f[Fuel]
<1> DEFINE Wider(S) == UNION {{m} \cup Children(t, m) : m \in S}
           Steps(g, k) == g = [i \in 0..k |-> IF i = 0 THEN {n} ELSE Wider(g[i - 1])]
           S == {k \in Nat : \E g : Steps(g, k)}
           down == CHOOSE g : Steps(g, Fuel)
<1>1. 0 \in S
  <2> DEFINE g == [i \in 0..0 |-> {n}]
  <2>1. Steps(g, 0)
    OBVIOUS
  <2> QED BY <2>1
<1>2. Below(t, n) = down[Fuel]
  BY DEF Below
<1> HIDE DEF Wider
<1>3. ASSUME NEW k \in Nat, k \in S PROVE k + 1 \in S
  <2>1. PICK f : Steps(f, k)
    BY <1>3
  <2> DEFINE g == [i \in 0..(k + 1) |-> IF i = k + 1 THEN Wider(f[k]) ELSE f[i]]
  <2>2. \A i \in 0..k : f[i] = IF i = 0 THEN {n} ELSE Wider(f[i - 1])
    BY <2>1
  <2>3. ASSUME NEW i \in 0..(k + 1)
        PROVE g[i] = IF i = 0 THEN {n} ELSE Wider(g[i - 1])
    <3>1. CASE i = k + 1
      <4>1. g[k] = f[k] /\ g[k + 1] = Wider(f[k]) /\ (k + 1) - 1 = k /\ k + 1 # 0
        OBVIOUS
      <4> QED BY <3>1, <4>1
    <3>2. CASE i # k + 1 /\ i # 0
      <4>1. i \in 0..k /\ i - 1 \in 0..k
        BY <3>2
      <4>2. g[i] = f[i] /\ g[i - 1] = f[i - 1]
        BY <3>2, <4>1
      <4>3. f[i] = Wider(f[i - 1])
        BY <2>2, <3>2, <4>1
      <4> QED BY <3>2, <4>2, <4>3
    <3>3. CASE i = 0
      <4>1. 0 \in 0..k /\ 0 \in 0..(k + 1) /\ 0 # k + 1
        OBVIOUS
      <4>2. g[0] = f[0] /\ f[0] = {n}
        BY <2>2, <4>1
      <4> QED BY <3>3, <4>2
    <3> QED BY <3>1, <3>2, <3>3
  <2>4. g = [i \in 0..(k + 1) |-> g[i]]
    OBVIOUS
  <2> HIDE DEF g
  <2>5. Steps(g, k + 1)
    BY <2>3, <2>4
  <2> QED BY <2>5
<1>4. Steps(down, Fuel)
  <2> HIDE DEF S
  <2>1. Fuel \in S
    BY <1>1, <1>3, NatSetInduction, FuelAssumption
  <2> HIDE DEF Steps
  <2>2. \E g : Steps(g, Fuel)
    BY <2>1 DEF S
  <2> QED BY <2>2
<1> HIDE DEF down
<1>5. \A k \in 0..Fuel : down[k] = IF k = 0 THEN {n} ELSE Wider(down[k - 1])
  BY <1>4
<1>6. down[0] = {n}
  <2>1. 0 \in 0..Fuel
    BY FuelAssumption
  <2> QED BY <1>5, <2>1
<1>7. ASSUME NEW k \in 1..Fuel PROVE down[k] = UNION {{m} \cup Children(t, m) : m \in down[k - 1]}
  <2>1. k \in 0..Fuel /\ k # 0
    OBVIOUS
  <2>2. down[k] = Wider(down[k - 1])
    BY <1>5, <2>1
  <2> QED BY <2>2 DEF Wider
<1> QED BY <1>2, <1>6, <1>7 DEF Levels

\* A chain of directories, each listed by the one before, ends below its first.
LEMMA ChainEndsBelow ==
  ASSUME NEW t, NEW hs, NEW len \in 0..Fuel,
         \A k \in 1..len : hs[k + 1] \in Children(t, hs[k])
  PROVE  hs[len + 1] \in Below(t, hs[1])
<1>1. PICK f : Levels(t, hs[1], f) /\ Below(t, hs[1]) = f[Fuel]
  BY BelowInLevels
<1>2. ASSUME NEW k \in Nat, k + 1 <= Fuel, NEW m \in f[k]
      PROVE m \in f[k + 1] /\ \A x \in Children(t, m) : x \in f[k + 1]
  <2>1. k + 1 \in 1..Fuel /\ (k + 1) - 1 = k
    BY <1>2, FuelAssumption
  <2>2. f[k + 1] = UNION {{y} \cup Children(t, y) : y \in f[k]}
    BY <1>1, <2>1 DEF Levels
  <2> QED BY <1>2, <2>2
<1> DEFINE R == {k \in Nat : k <= len => hs[k + 1] \in f[k]}
           Q == {k \in Nat : len + k <= Fuel => hs[len + 1] \in f[len + k]}
<1>3. 0 \in R
  BY <1>1 DEF Levels
<1>4. ASSUME NEW k \in Nat, k \in R PROVE k + 1 \in R
  <2> SUFFICES ASSUME k + 1 <= len PROVE hs[(k + 1) + 1] \in f[k + 1]
    OBVIOUS
  <2>1. hs[k + 1] \in f[k] /\ k + 1 \in 1..len /\ k + 1 <= Fuel
    BY <1>4, FuelAssumption
  <2>2. hs[(k + 1) + 1] \in Children(t, hs[k + 1])
    BY <2>1
  <2> QED BY <1>2, <2>1, <2>2
<1>5. hs[len + 1] \in f[len]
  <2> HIDE DEF R
  <2>1. len \in R
    BY <1>3, <1>4, NatSetInduction, FuelAssumption
  <2> QED BY <2>1 DEF R
<1>6. 0 \in Q
  BY <1>5
<1>7. ASSUME NEW k \in Nat, k \in Q PROVE k + 1 \in Q
  <2> SUFFICES ASSUME len + (k + 1) <= Fuel PROVE hs[len + 1] \in f[len + (k + 1)]
    OBVIOUS
  <2>1. len + k \in Nat /\ len + k <= Fuel /\ (len + k) + 1 = len + (k + 1)
    BY FuelAssumption
  <2>2. hs[len + 1] \in f[len + k]
    BY <1>7, <2>1
  <2> QED BY <1>2, <2>1, <2>2
<1>8. hs[len + 1] \in f[Fuel]
  <2>1. Fuel - len \in Nat /\ len + (Fuel - len) = Fuel
    BY FuelAssumption
  <2> HIDE DEF Q
  <2>2. Fuel - len \in Q
    BY <1>6, <1>7, <2>1, NatSetInduction
  <2> QED BY <2>1, <2>2, FuelAssumption DEF Q
<1> QED BY <1>1, <1>8

-----------------------------------------------------------------------------
(* What changes leave of a tree.                                           *)

\* A node that fits into a tree.
FileNodes == [kind : {"file"}, data : Seq(Nat)]
LinkNodes == [kind : {"link"}, abs : BOOLEAN, path : Seq(STRING)]
Lists(t, x) ==
  /\ x.kind = "dir" /\ x = NewDir(x.ents)
  /\ \A y \in DOMAIN x.ents : y \in STRING /\ x.ents[y] \in Nodes /\ t[x.ents[y]] # Free
Fits(t, x) == x = Free \/ (x \in FileNodes /\ Len(x.data) <= MaxData) \/ x \in LinkNodes \/ Lists(t, x)

\* Nothing goes: a node in use stays in use, a file a file.
Grows(t, u) == \A n \in Nodes : t[n] # Free => u[n] # Free /\ (t[n].kind \in {"file", "dir"} => u[n].kind = t[n].kind)

LEMMA HostTreeFits ==
  ASSUME NEW t
  PROVE  HostTree(t) <=> t = [n \in Nodes |-> t[n]] /\ IsDir(t, HostRoot) /\ \A n \in Nodes : Fits(t, t[n])
<1>1. ASSUME NEW n \in Nodes, Fits(t, t[n]) PROVE t[n].kind = "file" => Len(t[n].data) <= MaxData
  BY <1>1 DEF Fits, FileNodes, LinkNodes, Lists, Free
<1>2. ASSUME HostTree(t), NEW n \in Nodes PROVE Fits(t, t[n])
  BY <1>2 DEF HostTree, WellFormed, Fits, FileNodes, LinkNodes, Lists
<1>3. ASSUME NEW n \in Nodes, Fits(t, t[n])
      PROVE \/ t[n] = Free
            \/ t[n] \in [kind : {"file"}, data : Seq(Nat)]
            \/ t[n] \in [kind : {"link"}, abs : BOOLEAN, path : Seq(STRING)]
            \/ /\ t[n].kind = "dir" /\ t[n] = NewDir(t[n].ents)
               /\ \A x \in DOMAIN t[n].ents : x \in STRING /\ t[n].ents[x] \in Nodes /\ t[t[n].ents[x]] # Free
  BY <1>3 DEF Fits, FileNodes, LinkNodes, Lists
<1> QED BY <1>1, <1>2, <1>3 DEF HostTree, WellFormed

\* One node gives way to another that fits.
LEMMA Replaced ==
  ASSUME NEW t, HostTree(t), NEW n \in Nodes, NEW x, Fits(t, x),
         t[n] # Free => x # Free /\ (t[n].kind \in {"file", "dir"} => x.kind = t[n].kind)
  PROVE  HostTree([t EXCEPT ![n] = x]) /\ Grows(t, [t EXCEPT ![n] = x])
<1> DEFINE u == [t EXCEPT ![n] = x]
<1>1. t = [m \in Nodes |-> t[m]] /\ IsDir(t, HostRoot) /\ \A m \in Nodes : Fits(t, t[m])
  BY HostTreeFits
<1>2. u = [m \in Nodes |-> u[m]] /\ DOMAIN u = Nodes /\ u[n] = x /\ \A m \in Nodes : m # n => u[m] = t[m]
  BY <1>1
<1> HIDE DEF u
<1>3. Grows(t, u)
  BY <1>2 DEF Grows
<1>4. ASSUME NEW y, Fits(t, y) PROVE Fits(u, y)
  BY <1>3, <1>4 DEF Fits, Lists, Grows
<1>5. IsDir(u, HostRoot)
  <2>1. HostRoot \in Nodes /\ HostRoot # Absent /\ t[HostRoot].kind = "dir"
    BY <1>1, NodesAssumption DEF HostRoot, Absent, IsDir, KindOf
  <2>2. u[HostRoot].kind = "dir"
    BY <1>3, <2>1 DEF Grows, Free
  <2> QED BY <2>1, <2>2 DEF IsDir, KindOf
<1>6. \A m \in Nodes : Fits(u, u[m])
  BY <1>1, <1>2, <1>4
<1>7. HostTree(u)
  BY <1>2, <1>5, <1>6, HostTreeFits
<1> QED BY <1>3, <1>7 DEF u

LEMMA GrowsOn ==
  ASSUME NEW t, NEW u, NEW v, Grows(t, u), Grows(u, v)
  PROVE  Grows(t, v)
BY DEF Grows

LEMMA Unchanged == ASSUME NEW t PROVE Grows(t, t)
BY DEF Grows

\* A name added to a directory.
LEMMA NamedFits ==
  ASSUME NEW t, HostTree(t), NEW d \in Nodes, IsDir(t, d), NEW name \in STRING, NEW n \in Nodes, t[n] # Free
  PROVE  HostTree(Named(t, d, name, n)) /\ Grows(t, Named(t, d, name, n))
<1> DEFINE ents == [y \in DOMAIN t[d].ents \cup {name} |-> IF y = name THEN n ELSE t[d].ents[y]]
<1>1. d \in DOMAIN t /\ t[d].kind = "dir" /\ Fits(t, t[d])
  BY HostTreeFits, TreeParts DEF HostTree, IsDir, KindOf
<1>2. Lists(t, t[d])
  BY <1>1 DEF Fits, FileNodes, LinkNodes, Free
<1>3. t[d] = [kind |-> "dir", ents |-> t[d].ents]
  BY <1>2 DEF Lists, NewDir
<1>4. [t[d] EXCEPT !.ents = ents] = NewDir(ents)
  BY <1>3 DEF NewDir
<1>5. Named(t, d, name, n) = [t EXCEPT ![d] = NewDir(ents)]
  BY <1>1, <1>4 DEF Named
<1>6. Lists(t, NewDir(ents))
  <2>1. \A y \in DOMAIN ents : y \in STRING /\ ents[y] \in Nodes /\ t[ents[y]] # Free
    BY <1>2 DEF Lists
  <2> HIDE DEF ents
  <2> QED BY <2>1 DEF Lists, NewDir
<1> HIDE DEF ents
<1>7. PICK x : x = NewDir(ents)
  OBVIOUS
<1>8. x # Free /\ x.kind = "dir" /\ Fits(t, x)
  BY <1>6, <1>7 DEF NewDir, Free, Fits
<1>9. HostTree([t EXCEPT ![d] = x]) /\ Grows(t, [t EXCEPT ![d] = x])
  BY <1>1, <1>8, Replaced
<1> QED BY <1>5, <1>7, <1>9

\* A name taken out: of anything but a directory there is none to take.
LEMMA UnnamedFits ==
  ASSUME NEW t, HostTree(t), NEW d, NEW name
  PROVE  HostTree(Unnamed(t, d, name)) /\ Grows(t, Unnamed(t, d, name))
<1>1. CASE d \notin Nodes
  <2>1. Unnamed(t, d, name) = t
    <3>1. d \notin DOMAIN t /\ t = [n \in DOMAIN t |-> t[n]]
      BY <1>1, HostTreeFits
    <3> QED BY <3>1 DEF Unnamed
  <2> QED BY <2>1, Unchanged
<1>2. CASE d \in Nodes /\ Lists(t, t[d])
  <2> DEFINE ents == [y \in DOMAIN t[d].ents \ {name} |-> t[d].ents[y]]
  <2>1. t[d] = [kind |-> "dir", ents |-> t[d].ents] /\ t[d].kind = "dir" /\ d \in DOMAIN t
    BY <1>2, HostTreeFits DEF Lists, NewDir
  <2>2. [t[d] EXCEPT !.ents = ents] = NewDir(ents)
    BY <2>1 DEF NewDir
  <2>3. Unnamed(t, d, name) = [t EXCEPT ![d] = NewDir(ents)]
    BY <2>1, <2>2 DEF Unnamed
  <2>4. Lists(t, NewDir(ents))
    <3>1. \A y \in DOMAIN ents : y \in STRING /\ ents[y] \in Nodes /\ t[ents[y]] # Free
      BY <1>2 DEF Lists
    <3> HIDE DEF ents
    <3> QED BY <3>1 DEF Lists, NewDir
  <2> HIDE DEF ents
  <2>5. PICK x : x = NewDir(ents)
    OBVIOUS
  <2>6. x # Free /\ x.kind = "dir" /\ Fits(t, x)
    BY <2>4, <2>5 DEF NewDir, Free, Fits
  <2>7. HostTree([t EXCEPT ![d] = x]) /\ Grows(t, [t EXCEPT ![d] = x])
    BY <1>2, <2>1, <2>6, Replaced
  <2> QED BY <2>3, <2>5, <2>7
<1>3. CASE d \in Nodes /\ ~Lists(t, t[d])
  <2>1. Fits(t, t[d]) /\ DOMAIN t = Nodes /\ t = [n \in DOMAIN t |-> t[n]]
    BY <1>3, HostTreeFits
  <2>2. t[d] = [kind |-> "free"] \/ t[d] \in FileNodes \/ t[d] \in LinkNodes
    BY <1>3, <2>1 DEF Fits, Free
  <2>3. \A y : [t[d] EXCEPT !.ents = y] = t[d]
    BY <2>2 DEF FileNodes, LinkNodes
  <2>4. Unnamed(t, d, name) = [t EXCEPT ![d] = t[d]]
    BY <1>3, <2>1, <2>3 DEF Unnamed
  <2>5. HostTree([t EXCEPT ![d] = t[d]]) /\ Grows(t, [t EXCEPT ![d] = t[d]])
    <3>1. PICK x : x = t[d]
      OBVIOUS
    <3> QED BY <1>3, <2>1, <3>1, Replaced
  <2> QED BY <2>4, <2>5
<1> QED BY <1>1, <1>2, <1>3

\* What a path call can make.
Makeable == {NewDir(<<>>), NewFile(<<>>)} \cup LinkNodes

LEMMA MadeFits ==
  ASSUME NEW t, HostTree(t), FreeNodes(t) # {}, NEW what \in Makeable
  PROVE  /\ Fresh(t) \in Nodes /\ t[Fresh(t)] = Free
         /\ HostTree([t EXCEPT ![Fresh(t)] = what]) /\ Grows(t, [t EXCEPT ![Fresh(t)] = what])
         /\ what # Free
<1>1. FreeNodes(t) \in SUBSET Nat
  BY NodesAssumption DEF FreeNodes
<1>2. \E n \in FreeNodes(t) : \A m \in FreeNodes(t) : n <= m
  BY <1>1, LeastNumber
<1>3. Fresh(t) \in FreeNodes(t)
  BY <1>2 DEF Fresh
<1>4. Fresh(t) \in Nodes /\ t[Fresh(t)].kind = "free"
  BY <1>3 DEF FreeNodes
<1>5. t[Fresh(t)] = Free
  <2>1. Fits(t, t[Fresh(t)])
    BY <1>4, HostTreeFits
  <2> QED BY <1>4, <2>1 DEF Fits, FileNodes, LinkNodes, Lists
<1>6. Fits(t, what) /\ what # Free
  <2>1. CASE what = NewDir(<<>>)
    BY <2>1 DEF Fits, Lists, NewDir, Free
  <2>2. CASE what = NewFile(<<>>)
    <3>1. what \in FileNodes /\ Len(what.data) = 0 /\ what.kind = "file"
      BY <2>2 DEF NewFile, FileNodes
    <3> QED BY <3>1, BoundsAssumption DEF Fits, Free
  <2>3. CASE what \in LinkNodes
    BY <2>3 DEF Fits, Free, LinkNodes
  <2> QED BY <2>1, <2>2, <2>3 DEF Makeable
<1> QED BY <1>4, <1>5, <1>6, Replaced

Sound(t, result) == HostTree(result.tree) /\ Grows(t, result.tree)

LEMMA NoChange ==
  ASSUME NEW t, HostTree(t), NEW code
  PROVE  Sound(t, Fails(t, code)) /\ Sound(t, Done(t))
BY Unchanged DEF Sound, Fails, Done

LEMMA FrontAndLast ==
  ASSUME NEW S, NEW path \in Seq(S), path # <<>>
  PROVE  Front(path) \in Seq(S) /\ Last(path) \in S /\ Len(path) \in Nat \ {0} /\ Len(Front(path)) = Len(path) - 1
         /\ \A i \in 1..(Len(path) - 1) : Front(path)[i] = path[i]
<1>1. Len(path) \in Nat \ {0}
  BY PathParts
<1>2. \A i \in 1..(Len(path) - 1) : path[i] \in S
  BY <1>1
<1>3. Front(path) \in Seq(S) /\ Len(Front(path)) = Len(path) - 1
      /\ \A i \in 1..(Len(path) - 1) : Front(path)[i] = path[i]
  <2>1. PICK n \in Nat : n = Len(path) - 1
    BY <1>1
  <2>2. Front(path) = SubSeq(path, 1, n)
    BY <2>1 DEF Front
  <2>3. n - 1 + 1 = n /\ (1 <= n \/ n = 0) /\ \A i \in 1..n : 1 + i - 1 = i
    OBVIOUS
  <2>4. /\ SubSeq(path, 1, n) \in Seq(S)
        /\ Len(SubSeq(path, 1, n)) = IF 1 <= n THEN n - 1 + 1 ELSE 0
        /\ \A i \in 1..(n - 1 + 1) : SubSeq(path, 1, n)[i] = path[1 + i - 1]
    BY <1>2, <2>1, SubSeqProperties
  <2>5. Len(SubSeq(path, 1, n)) = n
    BY <2>3, <2>4
  <2>6. \A i \in 1..n : SubSeq(path, 1, n)[i] = path[i]
    BY <2>3, <2>4
  <2> QED BY <2>1, <2>2, <2>4, <2>5, <2>6
<1>4. Last(path) \in S
  BY <1>1 DEF Last
<1> QED BY <1>1, <1>3, <1>4

LEMMA MakeSound ==
  ASSUME NEW t, HostTree(t), NEW path \in Seq(STRING), NEW what \in Makeable
  PROVE  /\ Sound(t, Make(t, path, what))
         /\ Make(t, path, what).code = "SUCCESS" =>
              Fresh(t) \in Nodes /\ Make(t, path, what).tree[Fresh(t)].kind = what.kind
<1> DEFINE d == Containing(t, path)
           u == [t EXCEPT ![Fresh(t)] = what]
<1>1. CASE path # <<>> /\ d.node # Absent /\ IsDir(t, d.node) /\ FreeNodes(t) # {} /\ ~(Lstat(t, path).node # Absent)
  <2>1. Make(t, path, what) = Done(Named(u, d.node, Last(path), Fresh(t)))
    BY <1>1 DEF Make
  <2>2. Front(path) \in Seq(STRING) /\ Last(path) \in STRING
    BY <1>1, FrontAndLast
  <2>3. d.node \in Nodes /\ t[d.node].kind = "dir"
    <3>1. d.node \in Reached(t)
      BY <2>2, LeadsSomewhere DEF Containing, Stat, HostTree
    <3> QED BY <1>1, <3>1 DEF Reached, IsDir, KindOf
  <2>4. /\ Fresh(t) \in Nodes /\ t[Fresh(t)] = Free /\ HostTree(u) /\ Grows(t, u) /\ what # Free
    BY <1>1, MadeFits
  <2>5. DOMAIN t = Nodes
    BY HostTreeFits
  <2>6. d.node # Fresh(t) /\ u[Fresh(t)] = what /\ u[d.node] = t[d.node]
    BY <2>3, <2>4, <2>5 DEF Free
  <2>7. IsDir(u, d.node)
    BY <1>1, <2>3, <2>6 DEF IsDir, KindOf
  <2> HIDE DEF u, d
  <2> DEFINE v == Named(u, d.node, Last(path), Fresh(t))
  <2>8. HostTree(v) /\ Grows(u, v)
    BY <2>2, <2>3, <2>4, <2>6, <2>7, NamedFits
  <2>9. v[Fresh(t)] = what
    <3>1. DOMAIN u = Nodes
      BY <2>4, HostTreeFits
    <3> QED BY <2>3, <2>4, <2>6, <3>1 DEF Named
  <2> HIDE DEF v
  <2>10. Grows(t, v)
    BY <2>4, <2>8, GrowsOn
  <2>11. Make(t, path, what).tree = v
    BY <2>1 DEF Done, v
  <2> QED BY <2>4, <2>8, <2>9, <2>10, <2>11 DEF Sound
<1>2. CASE ~(path # <<>> /\ d.node # Absent /\ IsDir(t, d.node) /\ FreeNodes(t) # {} /\ ~(Lstat(t, path).node # Absent))
  <2>1. path # <<>> /\ d.node = Absent => d.code # "SUCCESS"
    <3> SUFFICES ASSUME path # <<>>, d.node = Absent PROVE d.code # "SUCCESS"
      OBVIOUS
    <3>1. Front(path) \in Seq(STRING)
      BY FrontAndLast
    <3> QED BY <3>1, LeadsSomewhere DEF Containing, Stat, HostTree
  <2>2. \E code : code # "SUCCESS" /\ Make(t, path, what) = Fails(t, code)
    BY <1>2, <2>1 DEF Make
  <2>3. PICK code : code # "SUCCESS" /\ Make(t, path, what) = Fails(t, code)
    BY <2>2
  <2>4. Make(t, path, what).code # "SUCCESS"
    BY <2>3 DEF Fails
  <2> QED BY <2>3, <2>4, NoChange
<1> QED BY <1>1, <1>2

-----------------------------------------------------------------------------
(* How many bytes a call moves.                                            *)

\* The fold of FoldLeft, from the greatest index down.
SumUp(g, seq, s) == IF s = {} THEN 0 ELSE g[s \ {Max(s)}] + seq[Max(s)]
IsSum(g, seq, n) == g = [s \in SUBSET (1..n) |-> SumUp(g, seq, s)]

LEMMA FoldIsSum ==
  ASSUME NEW seq
  PROVE  FoldLeft(+, 0, seq) = (CHOOSE g : g = [s \in SUBSET DOMAIN seq |-> SumUp(g, seq, s)])[DOMAIN seq]
BY Zenon DEF FoldLeft, MapThenFoldSet, SumUp

LEMMA GreatestIsLast ==
  ASSUME NEW n \in Nat, NEW s \in SUBSET (1..(n + 1)), n + 1 \in s
  PROVE  Max(s) = n + 1
<1>1. \A x \in s : x \in Int /\ n + 1 >= x
  OBVIOUS
<1>2. \A x \in s : (\A y \in s : x >= y) => x = n + 1
  BY <1>1
<1> QED BY <1>1, <1>2 DEF Max

LEMMA SumsExist ==
  ASSUME NEW seq
  PROVE  \A n \in Nat : \E g : IsSum(g, seq, n)
<1> DEFINE S == {n \in Nat : \E g : IsSum(g, seq, n)}
<1>1. 0 \in S
  <2> DEFINE g == [s \in SUBSET (1..0) |-> 0]
  <2>1. \A s \in SUBSET (1..0) : SumUp(g, seq, s) = 0
    BY DEF SumUp
  <2>2. IsSum(g, seq, 0)
    BY <2>1 DEF IsSum
  <2> QED BY <2>2
<1>2. ASSUME NEW n \in Nat, n \in S PROVE n + 1 \in S
  <2>1. PICK g : IsSum(g, seq, n)
    BY <1>2
  <2> DEFINE h == [s \in SUBSET (1..(n + 1)) |-> IF n + 1 \in s THEN g[s \ {n + 1}] + seq[n + 1] ELSE g[s]]
  <2>2. ASSUME NEW s \in SUBSET (1..(n + 1)) PROVE h[s] = SumUp(h, seq, s)
    <3>1. CASE n + 1 \in s
      <4>1. Max(s) = n + 1 /\ s # {}
        BY <2>2, <3>1, GreatestIsLast
      <4>2. s \ {n + 1} \in SUBSET (1..(n + 1)) /\ n + 1 \notin s \ {n + 1}
        BY <2>2
      <4>3. h[s \ {n + 1}] = g[s \ {n + 1}]
        BY <4>2
      <4>4. h[s] = g[s \ {n + 1}] + seq[n + 1]
        BY <2>2, <3>1
      <4> HIDE DEF h
      <4> QED BY <4>1, <4>3, <4>4 DEF SumUp
    <3>2. CASE n + 1 \notin s
      <4>1. s \in SUBSET (1..n)
        BY <2>2, <3>2
      <4>2. g[s] = SumUp(g, seq, s)
        BY <2>1, <4>1 DEF IsSum
      <4>3. s \ {Max(s)} \in SUBSET (1..(n + 1)) /\ n + 1 \notin s \ {Max(s)}
        BY <2>2, <3>2
      <4>4. h[s] = g[s] /\ h[s \ {Max(s)}] = g[s \ {Max(s)}]
        BY <2>2, <3>2, <4>3
      <4> HIDE DEF h
      <4> QED BY <4>2, <4>4 DEF SumUp
    <3> QED BY <3>1, <3>2
  <2>3. IsSum(h, seq, n + 1)
    <3>1. h = [s \in SUBSET (1..(n + 1)) |-> h[s]]
      OBVIOUS
    <3> HIDE DEF h
    <3> QED BY <2>2, <3>1 DEF IsSum
  <2> QED BY <2>3
<1>3. \A n \in Nat : n \in S
  <2> HIDE DEF S
  <2> QED BY <1>1, <1>2, NatSetInduction
<1> QED BY <1>3

IsNatAt(g, k) == g[1..k] \in Nat

LEMMA SumIsNat ==
  ASSUME NEW lens \in Seq(Nat)
  PROVE  FoldLeft(+, 0, lens) \in Nat
<1>1. PICK n \in Nat : n = Len(lens) /\ DOMAIN lens = 1..n
  OBVIOUS
<1> DEFINE g == CHOOSE g : IsSum(g, lens, n)
<1>2. IsSum(g, lens, n)
  BY SumsExist
<1>3. FoldLeft(+, 0, lens) = g[1..n]
  BY <1>1, FoldIsSum DEF IsSum
<1> HIDE DEF g
<1> DEFINE S == {i \in Nat : i <= n => IsNatAt(g, i)}
<1>4. 0 \in S
  <2>1. {} \in SUBSET (1..n) /\ 1..0 = {}
    OBVIOUS
  <2>2. g[{}] = SumUp(g, lens, {})
    BY <1>2, <2>1 DEF IsSum
  <2>3. g[{}] = 0
    BY <2>2 DEF SumUp
  <2> QED BY <2>1, <2>3 DEF IsNatAt
<1>5. ASSUME NEW k \in Nat, k \in S PROVE k + 1 \in S
  <2> SUFFICES (k + 1 <= n) => IsNatAt(g, k + 1)
    OBVIOUS
  <2> HAVE k + 1 <= n
  <2>1. 1..(k + 1) \in SUBSET (1..n) /\ k + 1 \in 1..(k + 1) /\ 1..(k + 1) # {} /\ k + 1 \in 1..n
    <3>1. k + 1 \in 1..(k + 1) /\ k + 1 \in 1..n
      OBVIOUS
    <3>2. 1..(k + 1) \subseteq 1..n
      OBVIOUS
    <3> QED BY <3>1, <3>2
  <2>2. Max(1..(k + 1)) = k + 1
    BY <2>1, GreatestIsLast
  <2>3. (1..(k + 1)) \ {k + 1} = 1..k
    OBVIOUS
  <2>4. g[1..(k + 1)] = SumUp(g, lens, 1..(k + 1))
    BY <1>2, <2>1 DEF IsSum
  <2>5. g[1..(k + 1)] = g[1..k] + lens[k + 1]
    BY <2>1, <2>2, <2>3, <2>4 DEF SumUp
  <2>6. g[1..k] \in Nat /\ lens[k + 1] \in Nat
    BY <1>1, <1>5, <2>1 DEF IsNatAt
  <2> QED BY <2>5, <2>6 DEF IsNatAt
<1>6. n \in S
  <2> HIDE DEF S
  <2> QED BY <1>4, <1>5, NatSetInduction
<1>7. IsNatAt(g, n)
  BY <1>6
<1> QED BY <1>3, <1>7 DEF IsNatAt

-----------------------------------------------------------------------------
(* File contents.                                                          *)

LEMMA Slice ==
  ASSUME NEW S, NEW q \in Seq(S), NEW a \in Nat, NEW b \in 0..Len(q)
  PROVE  /\ SubSeq(q, a + 1, b) \in Seq(S)
         /\ Len(SubSeq(q, a + 1, b)) = IF a < b THEN b - a ELSE 0
         /\ \A i \in 1..(b - a) : SubSeq(q, a + 1, b)[i] = q[a + i]
<1>1. Len(q) \in Nat /\ \A i \in 1..Len(q) : q[i] \in S
  OBVIOUS
<1>2. \A i \in (a + 1)..b : q[i] \in S
  <2>1. \A i \in (a + 1)..b : i \in 1..Len(q)
    BY <1>1
  <2> QED BY <1>1, <2>1
<1>3. PICK m \in Int, n \in Int : m = a + 1 /\ n = b
  BY <1>1
<1>4. /\ SubSeq(q, m, n) \in Seq(S)
      /\ Len(SubSeq(q, m, n)) = IF m <= n THEN n - m + 1 ELSE 0
      /\ \A i \in 1..(n - m + 1) : SubSeq(q, m, n)[i] = q[m + i - 1]
  BY <1>2, <1>3, SubSeqProperties
<1>5. n - m + 1 = b - a /\ (m <= n <=> a < b) /\ \A i \in Int : m + i - 1 = a + i
  BY <1>3
<1>6. \A i \in 1..(b - a) : SubSeq(q, m, n)[i] = q[a + i]
  BY <1>4, <1>5
<1>7. Len(SubSeq(q, m, n)) = IF a < b THEN b - a ELSE 0
  BY <1>4, <1>5
<1> QED BY <1>3, <1>4, <1>6, <1>7

LEMMA ConstantSeq ==
  ASSUME NEW n \in Nat, NEW x \in Nat
  PROVE  [i \in 1..n |-> x] \in Seq(Nat) /\ Len([i \in 1..n |-> x]) = n
OBVIOUS

\* What lies before a position, with zeros where the file ends earlier.
Padded(data, at) == data \o Zeros(IF at > Len(data) THEN at - Len(data) ELSE 0)

LEMMA PaddedFits ==
  ASSUME NEW data \in Seq(Nat), NEW at \in Nat
  PROVE  /\ SubSeq(Padded(data, at), 1, at) \in Seq(Nat) /\ Len(SubSeq(Padded(data, at), 1, at)) = at
         /\ at = Len(data) => SubSeq(Padded(data, at), 1, at) = data
<1>1. Len(data) \in Nat
  OBVIOUS
<1>2. PICK n \in Nat : n = IF at > Len(data) THEN at - Len(data) ELSE 0
  <2>1. CASE at > Len(data)
    <3>1. at - Len(data) \in Nat
      BY <1>1, <2>1
    <3> QED BY <2>1, <3>1
  <2>2. CASE ~(at > Len(data))
    BY <2>2
  <2> QED BY <2>1, <2>2
<1>3. Zeros(n) \in Seq(Nat) /\ Len(Zeros(n)) = n
  BY ConstantSeq DEF Zeros
<1>4. PICK z \in Seq(Nat) : z = Zeros(n) /\ Len(z) = n
  BY <1>3
<1>5. Padded(data, at) = data \o z
  BY <1>2, <1>4 DEF Padded
<1>6. data \o z \in Seq(Nat) /\ Len(data \o z) = Len(data) + n
  BY <1>4, ConcatProperties
<1>7. PICK q \in Seq(Nat) : q = data \o z
  BY <1>6
<1>8. at \in 0..Len(q)
  BY <1>1, <1>2, <1>6, <1>7
<1>9. SubSeq(q, 0 + 1, at) \in Seq(Nat) /\ Len(SubSeq(q, 0 + 1, at)) = IF 0 < at THEN at - 0 ELSE 0
  BY <1>8, Slice
<1>10. ASSUME at = Len(data) PROVE SubSeq(q, 1, at) = data
  <2>1. n = 0
    BY <1>1, <1>2, <1>10
  <2>2. z = <<>>
    BY <1>4, <2>1, EmptySeq
  <2>3. q = data
    BY <1>7, <2>2, ConcatEmptySeq
  <2> QED BY <1>10, <2>3, SubSeqFull
<1>11. SubSeq(q, 1, at) \in Seq(Nat) /\ Len(SubSeq(q, 1, at)) = at
  BY <1>9
<1> QED BY <1>5, <1>7, <1>10, <1>11

LEMMA ResizedFits ==
  ASSUME NEW data \in Seq(Nat), NEW n \in Nat
  PROVE  Resized(data, n) \in Seq(Nat) /\ Len(Resized(data, n)) = n
BY PaddedFits DEF Resized, Padded

LEMMA ReadAtFits ==
  ASSUME NEW S, NEW data \in Seq(S), NEW at \in Nat, NEW n \in Nat
  PROVE  /\ ReadAt(data, at, n) \in Seq(S) /\ Len(ReadAt(data, at, n)) \in Nat
<1>1. Len(data) \in Nat /\ Lesser(at + n, Len(data)) \in 0..Len(data)
  BY DEF Lesser
<1>2. ReadAt(data, at, n) \in Seq(S)
  BY <1>1, Slice DEF ReadAt
<1> QED BY <1>2

LEMMA StartIsAPrefix ==
  ASSUME NEW data \in Seq(Nat), NEW more \in Seq(Nat)
  PROVE  IsPrefix(data, data \o more)
<1>0. Len(data) \in Nat
  BY LenProperties
<1>1. data \o more \in Seq(Nat) /\ Len(data \o more) = Len(data) + Len(more) /\ Len(more) \in Nat
  BY ConcatProperties
<1>2. SubSeq(data, 1, Len(data)) = data
  BY SubSeqFull
<1>3. SubSeq(data \o more, 1, Len(data)) = data
  <2>1. CASE Len(data) = 0
    <3>1. data = <<>>
      BY <2>1, EmptySeq
    <3>2. SubSeq(data \o more, 1, 0) = <<>>
      BY SubSeqEmpty
    <3> QED BY <2>1, <3>1, <3>2
  <2>2. CASE Len(data) # 0
    <3>1. 1 \in 1..Len(data) /\ Len(data) \in 1..Len(data)
      BY <1>0, <2>2
    <3>2. SubSeq(data \o more, 1, Len(data)) = SubSeq(data, 1, Len(data))
      BY <3>1, SubSeqOfConcat1
    <3> QED BY <1>2, <3>2
  <2> QED BY <2>1, <2>2
<1> QED BY <1>0, <1>1, <1>2, <1>3 DEF IsPrefix

LEMMA LongerStart ==
  ASSUME NEW data \in Seq(Nat), NEW bytes \in Seq(Nat), NEW rest \in Seq(Nat)
  PROVE  IsPrefix(data, data \o bytes \o rest)
<1>1. (data \o bytes) \o rest = data \o (bytes \o rest)
  OBVIOUS
<1>2. bytes \o rest \in Seq(Nat)
  BY ConcatProperties
<1>3. IsPrefix(data, data \o (bytes \o rest))
  BY <1>2, StartIsAPrefix
<1> QED BY <1>1, <1>3

\* A write past a limit is refused before; an append keeps what there is.
LEMMA WriteAtFits ==
  ASSUME NEW data \in Seq(Nat), NEW at \in Nat, NEW bytes \in Seq(Nat),
         Len(data) <= MaxData, at + Len(bytes) <= MaxData
  PROVE  /\ WriteAt(data, at, bytes) \in Seq(Nat) /\ Len(WriteAt(data, at, bytes)) <= MaxData
         /\ at = Len(data) => IsPrefix(data, WriteAt(data, at, bytes))
<1>1. Len(data) \in Nat /\ Len(bytes) \in Nat /\ MaxData \in Nat
  BY BoundsAssumption
<1>2. PICK start \in Seq(Nat) : start = SubSeq(Padded(data, at), 1, at) /\ Len(start) = at
  BY PaddedFits
<1>3. PICK past \in Nat : past = at + Len(bytes)
  BY <1>1
<1>4. PICK rest \in Seq(Nat) : rest = SubSeq(data, past + 1, Len(data))
                               /\ Len(rest) = IF past < Len(data) THEN Len(data) - past ELSE 0
  <2>1. Len(data) \in 0..Len(data)
    BY <1>1
  <2>2. /\ SubSeq(data, past + 1, Len(data)) \in Seq(Nat)
        /\ Len(SubSeq(data, past + 1, Len(data))) = IF past < Len(data) THEN Len(data) - past ELSE 0
    BY <2>1, Slice
  <2> QED BY <2>2
<1>5. WriteAt(data, at, bytes) = start \o bytes \o rest
  BY <1>2, <1>3, <1>4 DEF WriteAt, Padded
<1>6. start \o bytes \in Seq(Nat) /\ Len(start \o bytes) = past
  BY <1>2, <1>3, ConcatProperties
<1>7. start \o bytes \o rest \in Seq(Nat) /\ Len(start \o bytes \o rest) = past + Len(rest)
  BY <1>6, ConcatProperties
<1>8. past + Len(rest) <= MaxData
  <2>1. CASE past < Len(data)
    <3>1. Len(rest) = Len(data) - past
      BY <1>4, <2>1
    <3> QED BY <1>1, <3>1
  <2>2. CASE ~(past < Len(data))
    <3>1. Len(rest) = 0
      BY <1>4, <2>2
    <3> QED BY <1>3, <3>1
  <2> QED BY <2>1, <2>2
<1>9. ASSUME at = Len(data) PROVE IsPrefix(data, start \o bytes \o rest)
  <2>1. start = data
    BY <1>2, <1>9, PaddedFits
  <2>2. IsPrefix(data, data \o bytes \o rest)
    BY LongerStart
  <2> QED BY <2>1, <2>2
<1> QED BY <1>5, <1>7, <1>8, <1>9

-----------------------------------------------------------------------------
(* The changes of the host's tree.                                         *)

LEMMA LeadsToANode ==
  ASSUME NEW t, HostTree(t), NEW path \in Seq(STRING), NEW follow, Resolve(t, path, follow).node # Absent
  PROVE  Resolve(t, path, follow).node \in Nodes /\ t[Resolve(t, path, follow).node] # Free
BY LeadsSomewhere DEF HostTree, Reached

LEMMA RemoveSound ==
  ASSUME NEW t, HostTree(t), NEW path
  PROVE  Sound(t, RemoveDir(t, path)) /\ Sound(t, RemoveFile(t, path))
<1>1. ASSUME NEW r, (\E code : r = Fails(t, code)) \/ \E d, name : r = Done(Unnamed(t, d, name))
      PROVE  Sound(t, r)
  <2>1. CASE \E code : r = Fails(t, code)
    BY <2>1, NoChange
  <2>2. CASE \E d, name : r = Done(Unnamed(t, d, name))
    <3>1. PICK d, name : r = Done(Unnamed(t, d, name))
      BY <2>2
    <3>2. r.tree = Unnamed(t, d, name)
      BY <3>1 DEF Done
    <3> QED BY <3>2, UnnamedFits DEF Sound
  <2> QED BY <1>1, <2>1, <2>2
<1>2. PICK r : r = RemoveDir(t, path)
  OBVIOUS
<1>3. (\E code : r = Fails(t, code)) \/ \E d, name : r = Done(Unnamed(t, d, name))
  BY <1>2 DEF RemoveDir
<1>4. PICK s : s = RemoveFile(t, path)
  OBVIOUS
<1>5. (\E code : s = Fails(t, code)) \/ \E d, name : s = Done(Unnamed(t, d, name))
  BY <1>4 DEF RemoveFile
<1> QED BY <1>1, <1>2, <1>3, <1>4, <1>5

\* A name for a node there is, in a directory there is, maybe in place of another.
LEMMA NamedSound ==
  ASSUME NEW t, HostTree(t), NEW u, HostTree(u), Grows(t, u), NEW path \in Seq(STRING), path # <<>>,
         NEW d, d = Containing(t, path).node, IsDir(t, d),
         NEW n \in Nodes, t[n] # Free
  PROVE  Sound(t, Done(Named(u, d, Last(path), n)))
<1>1. Front(path) \in Seq(STRING) /\ Last(path) \in STRING
  BY FrontAndLast
<1>2. d # Absent
  BY DEF IsDir, KindOf
<1>3. d \in Nodes /\ t[d] # Free /\ t[d].kind = "dir"
  BY <1>1, <1>2, LeadsToANode DEF Containing, Stat, IsDir, KindOf
<1>4. IsDir(u, d) /\ u[n] # Free
  BY <1>2, <1>3 DEF Grows, IsDir, KindOf
<1>5. HostTree(Named(u, d, Last(path), n)) /\ Grows(u, Named(u, d, Last(path), n))
  BY <1>1, <1>3, <1>4, NamedFits
<1>6. Grows(t, Named(u, d, Last(path), n))
  BY <1>5, GrowsOn
<1> QED BY <1>5, <1>6 DEF Sound, Done

LEMMA HardLinkSound ==
  ASSUME NEW t, HostTree(t), NEW old \in Seq(STRING), NEW new \in Seq(STRING)
  PROVE  Sound(t, HardLink(t, old, new))
<1>1. PICK n, d : n = Lstat(t, old).node /\ d = Containing(t, new).node
  OBVIOUS
<1>2. PICK r : r = HardLink(t, old, new)
  OBVIOUS
<1>3. \/ \E code : r = Fails(t, code)
      \/ n # Absent /\ new # <<>> /\ IsDir(t, d) /\ r = Done(Named(t, d, Last(new), n))
  BY <1>1, <1>2 DEF HardLink
<1>4. CASE \E code : r = Fails(t, code)
  BY <1>2, <1>4, NoChange
<1>5. CASE n # Absent /\ new # <<>> /\ IsDir(t, d) /\ r = Done(Named(t, d, Last(new), n))
  <2>1. n \in Nodes /\ t[n] # Free
    BY <1>1, <1>5, LeadsToANode DEF Lstat
  <2> QED BY <1>1, <1>2, <1>5, <2>1, NamedSound, Unchanged
<1> QED BY <1>3, <1>4, <1>5

LEMMA RenameSound ==
  ASSUME NEW t, HostTree(t), NEW old \in Seq(STRING), NEW new \in Seq(STRING)
  PROVE  Sound(t, Rename(t, old, new))
<1>1. PICK n, d, o : n = Lstat(t, old).node /\ d = Containing(t, new).node /\ o = Containing(t, old).node
  OBVIOUS
<1>2. PICK r : r = Rename(t, old, new)
  OBVIOUS
<1>3. \/ \E code : r = Fails(t, code)
      \/ r = Done(t)
      \/ n # Absent /\ new # <<>> /\ IsDir(t, d) /\ r = Done(Named(Unnamed(t, o, Last(old)), d, Last(new), n))
  BY <1>1, <1>2 DEF Rename
<1>4. CASE (\E code : r = Fails(t, code)) \/ r = Done(t)
  BY <1>2, <1>4, NoChange
<1>5. CASE n # Absent /\ new # <<>> /\ IsDir(t, d) /\ r = Done(Named(Unnamed(t, o, Last(old)), d, Last(new), n))
  <2>1. n \in Nodes /\ t[n] # Free
    BY <1>1, <1>5, LeadsToANode DEF Lstat
  <2>2. PICK u : u = Unnamed(t, o, Last(old))
    OBVIOUS
  <2>3. HostTree(u) /\ Grows(t, u)
    BY <2>2, UnnamedFits
  <2>4. Sound(t, Done(Named(u, d, Last(new), n)))
    BY <1>1, <1>5, <2>1, <2>3, NamedSound
  <2> QED BY <1>2, <1>5, <2>2, <2>4
<1> QED BY <1>3, <1>4, <1>5

\* A file with other contents.
WithContents(t, n, data) == [t EXCEPT ![n].data = data]

LEMMA ContentsFit ==
  ASSUME NEW t, HostTree(t), NEW n \in Nodes, t[n].kind = "file", NEW data \in Seq(Nat), Len(data) <= MaxData
  PROVE  /\ HostTree([t EXCEPT ![n] = NewFile(data)]) /\ Grows(t, [t EXCEPT ![n] = NewFile(data)])
         /\ WithContents(t, n, data) = [t EXCEPT ![n] = NewFile(data)]
         /\ t[n].data \in Seq(Nat) /\ Len(t[n].data) <= MaxData
<1>1. Fits(t, t[n]) /\ n \in DOMAIN t
  BY HostTreeFits
<1>2. t[n] \in FileNodes /\ Len(t[n].data) <= MaxData
  BY <1>1 DEF Fits, FileNodes, LinkNodes, Lists, Free
<1>3. t[n] = [kind |-> "file", data |-> t[n].data] /\ t[n].data \in Seq(Nat)
  BY <1>2 DEF FileNodes
<1>4. [t[n] EXCEPT !.data = data] = NewFile(data)
  BY <1>3 DEF NewFile
<1>5. WithContents(t, n, data) = [t EXCEPT ![n] = NewFile(data)]
  BY <1>1, <1>4 DEF WithContents
<1>6. PICK x : x = NewFile(data)
  OBVIOUS
<1>7. x \in FileNodes /\ x.data = data /\ x.kind = "file" /\ x # Free
  BY <1>6 DEF NewFile, FileNodes, Free
<1>8. Fits(t, x)
  BY <1>7 DEF Fits
<1>9. HostTree([t EXCEPT ![n] = x]) /\ Grows(t, [t EXCEPT ![n] = x])
  BY <1>7, <1>8, Replaced
<1> QED BY <1>2, <1>3, <1>5, <1>6, <1>9

-----------------------------------------------------------------------------
(* The inductive invariant of the whole host.                              *)

\* An entry that fits the table: a file's is a whole record, and its file is there.
WholeFile(e) ==
  e = [kind |-> "file", node |-> e.node, append |-> e.append, pos |-> e.pos, base |-> e.base, inh |-> e.inh,
       grant |-> e.grant]
EntryFits(t, e) ==
  \/ e = Closed
  \/ e.kind \in {"stdin", "stdout", "stderr"} /\ e = Stream(e.kind)
  \/ e.kind = "dir" /\ e.grant \in DOMAIN Grants /\ e.host \in Seq(STRING)
  \/ /\ e.kind = "file" /\ e.grant \in DOMAIN Grants /\ e.node \in Nodes /\ e.pos \in Nat
     /\ t[e.node].kind = "file" /\ WholeFile(e)
TableOK(t, table) ==
  /\ \E n \in Nat : DOMAIN table = 0..(n - 1)
  /\ \A fd \in DOMAIN table : EntryFits(t, table[fd])

\* The walk's path leads, name by name, where the handles are.
Tracks(t, root, stack, handles) ==
  /\ Len(handles) = Len(stack) + 1
  /\ \A k \in 0..Len(stack) : Stat(t, root \o SubSeq(stack, 1, k)).node = handles[k + 1]
  /\ \A k \in 1..Len(stack) : handles[k + 1] # Absent /\ handles[k + 1] = Lookup(t, handles[k], stack[k])
WholeWalk(w) ==
  w = [state |-> "walking", root |-> w.root, stack |-> w.stack, pending |-> w.pending, budget |-> w.budget,
       handles |-> w.handles]
WalkOK(t, w) ==
  /\ WholeWalk(w)
  /\ w.root \in Seq(STRING) /\ w.stack \in Seq(STRING) /\ w.pending \in Seq(STRING)
  /\ w.handles \in Seq(Nodes \cup {Absent})
  /\ Tracks(t, w.root, w.stack, w.handles)

Finding == [dir : Seq(STRING), name : STRING \cup {"."}, isLink : BOOLEAN]
WalksFit == IsPathCall /\ Len(found) < Walks
CallInv ==
  /\ CallOK(call) /\ calls \in Nat
  /\ found \in Seq(Finding)
  /\ IsPathCall => Len(found) <= Walks
  /\ walk = NoWalk \/ (WalkOK(tree, walk) /\ WalksFit)
StdinInv == stdinPos \in 0..Len(Stdin) /\ received = SubSeq(Stdin, 1, stdinPos)

HostInv == HostTree(tree) /\ TableOK(tree, fds) /\ CallInv /\ StdinInv

-----------------------------------------------------------------------------
(* The walk.                                                               *)

LEMMA StartTracks ==
  ASSUME NEW t, WellFormed(t), NEW root \in Seq(STRING), NEW h, h = Stat(t, root).node
  PROVE  Tracks(t, root, <<>>, <<h>>) /\ <<h>> \in Seq(Nodes \cup {Absent})
<1>1. h \in Nodes \cup {Absent}
  BY LeadsSomewhere DEF Stat, Reached
<1>2. \A k \in 0..0 : root \o SubSeq(<<>>, 1, k) = root /\ k + 1 = 1
  <2>1. SubSeq(<<>>, 1, 0) = <<>>
    BY SubSeqEmpty
  <2> QED BY <2>1, ConcatEmptySeq
<1>3. Len(<<h>>) = 1 /\ <<h>>[1] = h /\ Len(<<>>) = 0 /\ <<h>> \in Seq(Nodes \cup {Absent})
  BY <1>1
<1>4. PICK hs : hs = <<h>> /\ Len(hs) = 1 /\ hs[1] = h
  BY <1>3
<1>5. PICK st : st = <<>> /\ Len(st) = 0
  BY <1>3
<1>6. Tracks(t, root, st, hs)
  <2>1. \A k \in 0..Len(st) : Stat(t, root \o SubSeq(st, 1, k)).node = hs[k + 1]
    BY <1>2, <1>4, <1>5
  <2>2. \A k \in 1..Len(st) : FALSE
    BY <1>5
  <2> QED BY <1>4, <1>5, <2>1, <2>2 DEF Tracks
<1> QED BY <1>3, <1>4, <1>5, <1>6

\* An earlier part of the stack is what it was.
LEMMA PrefixOfFront ==
  ASSUME NEW S, NEW q \in Seq(S), q # <<>>
  PROVE  \A k \in 0..Len(Front(q)) : SubSeq(Front(q), 1, k) = SubSeq(q, 1, k)
<1>1. Front(q) \in Seq(S) /\ Len(q) \in Nat \ {0} /\ Len(Front(q)) = Len(q) - 1
      /\ \A i \in 1..(Len(q) - 1) : Front(q)[i] = q[i]
  BY FrontAndLast
<1>2. PICK p \in Seq(S) : p = Front(q)
  BY <1>1
<1>3. ASSUME NEW k \in 0..Len(p) PROVE SubSeq(p, 1, k) = SubSeq(q, 1, k)
  <2>1. k \in 0..Len(q) /\ k \in Nat
    BY <1>1, <1>2, <1>3
  <2>2. /\ SubSeq(p, 0 + 1, k) \in Seq(S) /\ Len(SubSeq(p, 0 + 1, k)) = IF 0 < k THEN k - 0 ELSE 0
        /\ \A i \in 1..(k - 0) : SubSeq(p, 0 + 1, k)[i] = p[0 + i]
    BY <1>3, Slice
  <2>3. /\ SubSeq(q, 0 + 1, k) \in Seq(S) /\ Len(SubSeq(q, 0 + 1, k)) = IF 0 < k THEN k - 0 ELSE 0
        /\ \A i \in 1..(k - 0) : SubSeq(q, 0 + 1, k)[i] = q[0 + i]
    BY <2>1, Slice
  <2>4. Len(SubSeq(p, 1, k)) = k /\ Len(SubSeq(q, 1, k)) = k
    BY <2>1, <2>2, <2>3
  <2>5. \A i \in 1..k : i \in 1..(Len(q) - 1) /\ p[0 + i] = q[0 + i]
    BY <1>1, <1>2, <1>3
  <2>6. \A i \in 1..k : SubSeq(p, 1, k)[i] = SubSeq(q, 1, k)[i]
    BY <2>1, <2>2, <2>3, <2>5
  <2> QED BY <2>2, <2>3, <2>4, <2>6, SeqEqual
<1> QED BY <1>2, <1>3

LEMMA ClimbTracks ==
  ASSUME NEW t, NEW root, NEW stack \in Seq(STRING), stack # <<>>, NEW H, NEW handles \in Seq(H),
         Tracks(t, root, stack, handles)
  PROVE  /\ Tracks(t, root, Front(stack), Front(handles))
         /\ Front(stack) \in Seq(STRING) /\ Front(handles) \in Seq(H)
<1>1. /\ Front(stack) \in Seq(STRING) /\ Len(stack) \in Nat \ {0} /\ Len(Front(stack)) = Len(stack) - 1
      /\ \A i \in 1..(Len(stack) - 1) : Front(stack)[i] = stack[i]
  BY FrontAndLast
<1>2. Len(handles) = Len(stack) + 1 /\ handles # <<>>
  BY <1>1, EmptySeq DEF Tracks
<1>3. /\ Front(handles) \in Seq(H) /\ Len(Front(handles)) = Len(handles) - 1
      /\ \A i \in 1..(Len(handles) - 1) : Front(handles)[i] = handles[i]
  BY <1>2, FrontAndLast
<1>4. \A k \in 0..Len(Front(stack)) : SubSeq(Front(stack), 1, k) = SubSeq(stack, 1, k)
  BY PrefixOfFront
<1>5. PICK st \in Seq(STRING), hs \in Seq(H), n \in Nat : st = Front(stack) /\ hs = Front(handles) /\ n = Len(st)
  BY <1>1, <1>3
<1>6. Len(stack) = n + 1 /\ Len(hs) = n + 1 /\ Len(handles) = n + 2
  BY <1>1, <1>2, <1>3, <1>5
<1>7. \A k \in 0..n : k + 1 \in 1..(Len(handles) - 1) /\ k \in 0..Len(stack)
  BY <1>6
<1>8. \A k \in 0..n : Stat(t, root \o SubSeq(st, 1, k)).node = hs[k + 1]
  BY <1>3, <1>4, <1>5, <1>7 DEF Tracks
<1>9. \A k \in 1..n : k + 1 \in 1..(Len(handles) - 1) /\ k \in 1..(Len(handles) - 1)
                      /\ k \in 1..Len(stack) /\ k \in 1..(Len(stack) - 1)
  BY <1>6
<1>10. \A k \in 1..n : hs[k + 1] # Absent /\ hs[k + 1] = Lookup(t, hs[k], st[k])
  BY <1>1, <1>3, <1>5, <1>9 DEF Tracks
<1>11. Tracks(t, root, st, hs)
  BY <1>5, <1>6, <1>8, <1>10 DEF Tracks
<1> QED BY <1>1, <1>3, <1>5, <1>11

LEMMA PrefixOfLonger ==
  ASSUME NEW S, NEW q \in Seq(S), NEW x \in S
  PROVE  \A k \in 0..Len(q) : SubSeq(Append(q, x), 1, k) = SubSeq(q, 1, k)
<1>1. PICK p \in Seq(S) : p = Append(q, x)
  BY LongerSeq
<1>2. Len(p) = Len(q) + 1 /\ Len(q) \in Nat /\ \A i \in 1..Len(q) : p[i] = q[i]
  BY <1>1, LongerSeq
<1>3. ASSUME NEW k \in 0..Len(q) PROVE SubSeq(p, 1, k) = SubSeq(q, 1, k)
  <2>1. k \in 0..Len(p) /\ k \in Nat
    BY <1>2, <1>3
  <2>2. /\ SubSeq(p, 0 + 1, k) \in Seq(S) /\ Len(SubSeq(p, 0 + 1, k)) = IF 0 < k THEN k - 0 ELSE 0
        /\ \A i \in 1..(k - 0) : SubSeq(p, 0 + 1, k)[i] = p[0 + i]
    BY <2>1, Slice
  <2>3. /\ SubSeq(q, 0 + 1, k) \in Seq(S) /\ Len(SubSeq(q, 0 + 1, k)) = IF 0 < k THEN k - 0 ELSE 0
        /\ \A i \in 1..(k - 0) : SubSeq(q, 0 + 1, k)[i] = q[0 + i]
    BY <1>3, Slice
  <2>4. Len(SubSeq(p, 1, k)) = k /\ Len(SubSeq(q, 1, k)) = k
    BY <2>1, <2>2, <2>3
  <2>5. \A i \in 1..k : i \in 1..Len(q) /\ p[0 + i] = q[0 + i]
    BY <1>2, <1>3
  <2>6. \A i \in 1..k : SubSeq(p, 1, k)[i] = SubSeq(q, 1, k)[i]
    BY <2>1, <2>2, <2>3, <2>5
  <2> QED BY <2>2, <2>3, <2>4, <2>6, SeqEqual
<1> QED BY <1>1, <1>3

LEMMA DescendTracks ==
  ASSUME NEW t, NEW root, NEW stack \in Seq(STRING), NEW H, NEW handles \in Seq(H), Tracks(t, root, stack, handles),
         NEW c \in STRING, NEW h \in H, h # Absent, h = Lookup(t, Last(handles), c),
         h = Stat(t, root \o Append(stack, c)).node
  PROVE  /\ Tracks(t, root, Append(stack, c), Append(handles, h))
         /\ Append(stack, c) \in Seq(STRING) /\ Append(handles, h) \in Seq(H)
<1>1. PICK n \in Nat : n = Len(stack) /\ Len(handles) = n + 1
  BY LongerSeq DEF Tracks
<1>2. PICK st \in Seq(STRING), hs \in Seq(H) : st = Append(stack, c) /\ hs = Append(handles, h)
  BY LongerSeq
<1>3. /\ Len(st) = n + 1 /\ st[n + 1] = c /\ \A i \in 1..n : st[i] = stack[i]
  BY <1>1, <1>2, LongerSeq
<1>4. /\ Len(hs) = n + 2 /\ hs[n + 2] = h /\ \A i \in 1..(n + 1) : hs[i] = handles[i]
  <2>1. /\ Len(hs) = (n + 1) + 1 /\ hs[(n + 1) + 1] = h /\ \A i \in 1..(n + 1) : hs[i] = handles[i]
    BY <1>1, <1>2, LongerSeq
  <2>2. (n + 1) + 1 = n + 2
    OBVIOUS
  <2> QED BY <2>1, <2>2
<1>5. SubSeq(st, 1, n + 1) = st
  BY <1>3, SubSeqFull
<1>6. \A k \in 0..n : SubSeq(st, 1, k) = SubSeq(stack, 1, k)
  BY <1>1, <1>2, PrefixOfLonger
<1>7. ASSUME NEW k \in 0..(n + 1) PROVE Stat(t, root \o SubSeq(st, 1, k)).node = hs[k + 1]
  <2>1. CASE k = n + 1
    <3>1. k + 1 = n + 2
      BY <2>1
    <3> QED BY <1>2, <1>4, <1>5, <2>1, <3>1
  <2>2. CASE k # n + 1
    <3>1. k \in 0..n /\ k + 1 \in 1..(n + 1)
      BY <1>7, <2>2
    <3>2. Stat(t, root \o SubSeq(stack, 1, k)).node = handles[k + 1]
      BY <1>1, <3>1 DEF Tracks
    <3> QED BY <1>4, <1>6, <3>1, <3>2
  <2> QED BY <2>1, <2>2
<1>8. ASSUME NEW k \in 1..(n + 1) PROVE hs[k + 1] # Absent /\ hs[k + 1] = Lookup(t, hs[k], st[k])
  <2>1. CASE k = n + 1
    <3>1. k + 1 = n + 2 /\ k \in 1..(n + 1)
      BY <2>1
    <3>2. Last(handles) = hs[k]
      BY <1>1, <1>4, <2>1, <3>1 DEF Last
    <3> QED BY <1>3, <1>4, <2>1, <3>1, <3>2
  <2>2. CASE k # n + 1
    <3>1. k \in 1..n /\ k + 1 \in 1..(n + 1) /\ k \in 1..(n + 1)
      BY <1>8, <2>2
    <3>2. handles[k + 1] # Absent /\ handles[k + 1] = Lookup(t, handles[k], stack[k])
      BY <1>1, <3>1 DEF Tracks
    <3> QED BY <1>3, <1>4, <3>1, <3>2
  <2> QED BY <2>1, <2>2
<1>9. Tracks(t, root, st, hs)
  <2>1. Len(hs) = Len(st) + 1
    BY <1>3, <1>4
  <2> QED BY <1>3, <1>7, <1>8, <2>1 DEF Tracks
<1> QED BY <1>2, <1>9

\* Where a walk that tracks its handles is, verify_beneath agrees.
LEMMA TrackedIsBeneath ==
  ASSUME NEW t, t = tree, WellFormed(t), NEW root \in Seq(STRING), NEW stack \in Seq(STRING),
         NEW H, NEW handles \in Seq(H),
         Tracks(t, root, stack, handles), Head(handles) # Absent
  PROVE  /\ Len(handles) = Len(stack) + 1
         /\ Stat(t, root \o stack).node = Last(handles)
         /\ Last(handles) \in Below(t, Head(handles))
         /\ Beneath(root, root \o stack) = "SUCCESS"
<1>1. PICK n \in Nat : n = Len(stack) /\ Len(handles) = n + 1
  BY LenProperties DEF Tracks
<1>2. Head(handles) = handles[1] /\ Last(handles) = handles[n + 1] /\ handles # <<>>
  <2>1. handles # <<>>
    BY <1>1, EmptySeq
  <2> QED BY <1>1, <2>1 DEF Last
<1>3. Stat(t, root \o stack).node = handles[n + 1]
  <2>1. n \in 0..Len(stack) /\ SubSeq(stack, 1, n) = stack
    BY <1>1, SubSeqFull
  <2> QED BY <2>1 DEF Tracks
<1>4. Stat(t, root).node = handles[1]
  <2>1. 0 \in 0..Len(stack) /\ SubSeq(stack, 1, 0) = <<>> /\ 0 + 1 = 1
    BY <1>1, SubSeqEmpty
  <2>2. root \o <<>> = root
    BY ConcatEmptySeq
  <2> QED BY <2>1, <2>2 DEF Tracks
<1>5. handles[n + 1] # Absent
  <2>1. CASE n = 0
    BY <1>2, <2>1
  <2>2. CASE n # 0
    <3>1. n \in 1..Len(stack)
      BY <1>1, <2>2
    <3> QED BY <3>1 DEF Tracks
  <2> QED BY <2>1, <2>2
<1>6. n \in 0..Fuel
  <2>1. root \o stack \in Seq(STRING) /\ Len(root \o stack) = Len(root) + n /\ Len(root) \in Nat
    BY <1>1, ConcatProperties, LenProperties
  <2>2. Len(root \o stack) <= Fuel
    BY <1>3, <1>5, <2>1, LongPathsLeadNowhere
  <2> QED BY <2>1, <2>2, FuelAssumption
<1>7. \A k \in 1..n : handles[k + 1] \in Children(t, handles[k])
  <2>1. ASSUME NEW k \in 1..n PROVE handles[k + 1] \in Children(t, handles[k])
    <3>1. handles[k + 1] # Absent /\ handles[k + 1] = Lookup(t, handles[k], stack[k])
      BY <1>1, <2>1 DEF Tracks
    <3> QED BY <3>1 DEF Lookup, Children
  <2> QED BY <2>1
<1>8. handles[n + 1] \in Below(t, handles[1])
  BY <1>6, <1>7, ChainEndsBelow
<1>9. Len(handles) = Len(stack) + 1
  BY <1>1
<1>10. Beneath(root, root \o stack) = "SUCCESS"
  BY <1>2, <1>3, <1>4, <1>5, <1>8 DEF Beneath
<1> QED BY <1>2, <1>3, <1>8, <1>9, <1>10

-----------------------------------------------------------------------------
(* What the invariant gives.                                               *)

LEMMA HostInvTypes == ASSUME HostInv, RightsInv PROVE TypeOK
<1>1. DOMAIN fds = 0..(Size - 1)
  <2>1. PICK n \in Nat : DOMAIN fds = 0..(n - 1)
    BY DEF HostInv, TableOK
  <2>2. Cardinality(0..(n - 1)) = IF 0 <= n - 1 THEN (n - 1) - 0 + 1 ELSE 0
    <3>1. 0 \in Int /\ n - 1 \in Int
      OBVIOUS
    <3> QED BY <3>1, FS_Interval
  <2>3. Cardinality(0..(n - 1)) = n
    BY <2>2
  <2> QED BY <2>1, <2>3 DEF Size
<1>2. ASSUME NEW e, EntryFits(tree, e) PROVE EntryOK(e)
  <2>1. CASE /\ e.kind = "file" /\ e.grant \in DOMAIN Grants /\ e.node \in Nodes /\ e.pos \in Nat
             /\ tree[e.node].kind = "file"
    BY <2>1, NodesAssumption DEF EntryOK, KindOf, Absent
  <2> QED BY <1>2, <2>1 DEF EntryFits, EntryOK
<1> QED BY <1>1, <1>2 DEF HostInv, RightsInv, TableOK, CallInv, StdinInv, TypeOK

LEMMA HostInvBeneath == ASSUME HostInv PROVE WalksStayBeneath
<1> SUFFICES ASSUME Walking, Head(walk.handles) # Absent
             PROVE  /\ Len(walk.handles) = Len(walk.stack) + 1
                    /\ Stat(tree, WalkDir).node = Last(walk.handles)
                    /\ Last(walk.handles) \in Below(tree, Head(walk.handles))
                    /\ Verdict = "SUCCESS"
  BY DEF WalksStayBeneath
<1>1. WalkOK(tree, walk) /\ WellFormed(tree)
  BY DEF HostInv, CallInv, Walking, NoWalk, HostTree
<1>2. PICK root \in Seq(STRING), stack \in Seq(STRING), handles \in Seq(Nodes \cup {Absent}) :
        root = walk.root /\ stack = walk.stack /\ handles = walk.handles /\ Tracks(tree, root, stack, handles)
  BY <1>1 DEF WalkOK
<1>3. PICK t : t = tree
  OBVIOUS
<1>4. /\ Len(handles) = Len(stack) + 1
      /\ Stat(tree, root \o stack).node = Last(handles)
      /\ Last(handles) \in Below(tree, Head(handles))
      /\ Beneath(root, root \o stack) = "SUCCESS"
  BY <1>1, <1>2, <1>3, TrackedIsBeneath
<1> QED BY <1>2, <1>4 DEF WalkDir, Verdict

LEMMA InitHost == ASSUME Init PROVE HostInv
<1>1. HostTree(tree)
  BY TreesAssumption DEF Init
<1>2. TableOK(tree, fds)
  <2>1. PICK n \in Nat : n = Len(Grants) + 3 /\ n - 1 = Len(Grants) + 2
    BY SequencesAssumption
  <2>2. DOMAIN fds = 0..(n - 1)
    BY <2>1 DEF Init
  <2>3. ASSUME NEW fd \in DOMAIN fds PROVE EntryFits(tree, fds[fd])
    <3>1. CASE \E kind \in {"stdin", "stdout", "stderr"} : fds[fd] = Stream(kind)
      <4>1. PICK kind \in {"stdin", "stdout", "stderr"} : fds[fd] = Stream(kind)
        BY <3>1
      <4>2. fds[fd].kind = kind
        BY <4>1 DEF Stream
      <4> QED BY <4>1, <4>2 DEF EntryFits
    <3>2. CASE \E g \in DOMAIN Grants : fds[fd] = DirFd(Grants[g].path, TRUE, Grants[g].rights, Grants[g].rights, g)
      BY <3>2, GrantsAssumption DEF EntryFits, DirFd
    <3> QED BY <2>3, <3>1, <3>2, InitEntries
  <2> QED BY <2>2, <2>3 DEF TableOK
<1>3. CallInv
  BY DEF Init, CallInv, CallOK, NoCall, Needs, IsPathCall
<1>4. StdinInv
  <2>1. SubSeq(Stdin, 1, 0) = <<>> /\ Len(Stdin) \in Nat
    BY SubSeqEmpty, StdinAssumption
  <2> QED BY <2>1 DEF Init, StdinInv
<1> QED BY <1>1, <1>2, <1>3, <1>4 DEF HostInv

-----------------------------------------------------------------------------
(* The steps of a call and of its walks.                                   *)

LEMMA ReturnKeepsCall == ASSUME CallInv, NEW code, Return(code) PROVE CallInv'
  BY DEF CallInv, Return, CallOK, NoCall, Needs, IsPathCall

LEMMA RefuseKeepsHost == ASSUME HostInv, NEW code, Refuse(code) PROVE HostInv'
<1>1. CallInv'
  BY ReturnKeepsCall DEF HostInv, Refuse
<1>2. UNCHANGED <<tree, fds, stdinPos, received>>
  BY DEF Refuse, files, stdio
<1> QED BY <1>1, <1>2 DEF HostInv, StdinInv

LEMMA GuestKeepsHost == ASSUME HostInv, RightsInv, Guest PROVE HostInv'
<1>1. PICK c \in GuestCalls[calls + 1] : Issue(c) /\ calls < Len(GuestCalls)
  BY DEF Guest
<1>2. calls \in Nat /\ calls + 1 \in 1..Len(GuestCalls)
  BY <1>1, SequencesAssumption DEF HostInv, CallInv
<1>3. CallOK(c)
  BY <1>2, CallsAssumption
<1>4. call' = c /\ calls' = calls + 1 /\ walk' = NoWalk /\ found' = <<>>
  BY <1>1 DEF Issue, RightsInv
<1>5. IsPathCall' => Len(found') <= Walks'
  <2>1. \A op \in DOMAIN Needs : 0 <= Len(Needs[op])
    BY DEF Needs
  <2> QED BY <1>4, <2>1 DEF IsPathCall, Walks
<1>6. CallInv'
  BY <1>2, <1>3, <1>4, <1>5 DEF CallInv
<1>7. UNCHANGED <<tree, fds, stdinPos, received>>
  BY <1>1 DEF Issue, files, stdio
<1> QED BY <1>6, <1>7 DEF HostInv, StdinInv

LEMMA WalkKeepsHost ==
  ASSUME HostInv, NEW w, WalkStep(w), WalkOK(tree, w), WalksFit
  PROVE  HostInv'
<1>1. UNCHANGED <<tree, fds, stdinPos, received, call, found, calls>> /\ walk' = w
  BY DEF WalkStep, files, stdio
<1>2. CallInv'
  BY <1>1 DEF HostInv, CallInv, WalksFit, IsPathCall, Walks
<1> QED BY <1>1, <1>2 DEF HostInv, StdinInv

LEMMA ArrivalKeepsHost ==
  ASSUME HostInv, WalksFit, NEW result \in Finding, Arrived(result)
  PROVE  HostInv'
<1>1. CASE Verdict # "SUCCESS"
  BY <1>1, RefuseKeepsHost DEF Arrived
<1>2. CASE Verdict = "SUCCESS"
  <2>1. UNCHANGED <<tree, fds, stdinPos, received, call, calls>> /\ walk' = NoWalk /\ found' = Append(found, result)
    BY <1>2 DEF Arrived, files, stdio
  <2>2. found' \in Seq(Finding) /\ Len(found') = Len(found) + 1 /\ Len(found) \in Nat
    BY <2>1, LongerSeq DEF HostInv, CallInv
  <2>3. IsPathCall' => Len(found') <= Walks'
    <3>1. \A op \in DOMAIN Needs : Len(Needs[op]) \in Nat
      BY DEF Needs
    <3> QED BY <2>1, <2>2, <3>1 DEF WalksFit, IsPathCall, Walks
  <2>4. CallInv'
    BY <2>1, <2>2, <2>3 DEF HostInv, CallInv
  <2> QED BY <2>1, <2>4 DEF HostInv, StdinInv
<1> QED BY <1>1, <1>2

LEMMA KindsOfEntries ==
  ASSUME HostInv, NEW fd
  PROVE  /\ IsKind(fd, "dir") => fds[fd].host \in Seq(STRING) /\ fds[fd].grant \in DOMAIN Grants
         /\ IsKind(fd, "file") => /\ fds[fd].grant \in DOMAIN Grants /\ fds[fd].node \in Nodes /\ fds[fd].pos \in Nat
                                  /\ tree[fds[fd].node].kind = "file" /\ WholeFile(fds[fd])
<1>1. ASSUME NEW e, EntryFits(tree, e)
      PROVE  /\ e.kind = "dir" => e.host \in Seq(STRING) /\ e.grant \in DOMAIN Grants
             /\ e.kind = "file" => /\ e.grant \in DOMAIN Grants /\ e.node \in Nodes /\ e.pos \in Nat
                                   /\ tree[e.node].kind = "file" /\ WholeFile(e)
  BY <1>1 DEF EntryFits, Closed
<1> QED BY <1>1 DEF HostInv, TableOK, IsKind, IsOpen

\* A call walks one path, or two.
LEMMA PathsOfCalls ==
  \A op \in DOMAIN Needs : Len(Needs[op]) = IF op \in {"path_rename", "path_link"} THEN 2 ELSE 1
<1> SUFFICES ASSUME NEW op \in DOMAIN Needs
             PROVE  Len(Needs[op]) = IF op \in {"path_rename", "path_link"} THEN 2 ELSE 1
  OBVIOUS
<1>1. CASE op = "path_rename"
  <2>1. Needs[op] = <<"PATH_RENAME_SOURCE", "PATH_RENAME_TARGET">>
    BY <1>1 DEF Needs
  <2> QED BY <1>1, <2>1
<1>2. CASE op = "path_link"
  <2>1. Needs[op] = <<"PATH_LINK_SOURCE", "PATH_LINK_TARGET">>
    BY <1>2 DEF Needs
  <2> QED BY <1>2, <2>1
<1>3. CASE op \notin {"path_rename", "path_link"}
  <2>1. \E right : Needs[op] = <<right>>
    BY <1>3 DEF Needs
  <2> QED BY <1>3, <2>1
<1> QED BY <1>1, <1>2, <1>3

LEMMA ThisPathIsAPath ==
  ASSUME CallOK(call), found \in Seq(Finding), WalksFit
  PROVE  ThisPath \in Seq(STRING)
<1>1. call.op \in DOMAIN Needs /\ Len(found) \in Nat
  BY DEF WalksFit, IsPathCall
<1>2. CASE Phase = 1
  BY <1>1, <1>2 DEF ThisPath, CallOK
<1>3. CASE Phase # 1
  <2>1. 1 < Len(Needs[call.op])
    <3>1. Len(found) < Len(Needs[call.op]) /\ Len(found) # 0
      BY <1>1, <1>3 DEF WalksFit, Walks, Phase
    <3>2. Len(Needs[call.op]) \in Nat
      BY <1>1, PathsOfCalls
    <3> QED BY <1>1, <3>1, <3>2
  <2>2. call.op \in {"path_rename", "path_link"}
    <3>1. PICK n : n = Len(Needs[call.op])
      OBVIOUS
    <3>2. n = IF call.op \in {"path_rename", "path_link"} THEN 2 ELSE 1
      BY <1>1, <3>1, PathsOfCalls
    <3>3. 1 < n
      BY <2>1, <3>1
    <3> QED BY <3>2, <3>3
  <2> QED BY <1>3, <2>2 DEF ThisPath, CallOK
<1> QED BY <1>2, <1>3

LEMMA ResolveCallKeepsHost == ASSUME HostInv, ResolveCall PROVE HostInv'
<1>1. CASE Objection # "SUCCESS"
  BY <1>1, RefuseKeepsHost DEF ResolveCall
<1>2. CASE Objection = "SUCCESS"
  <2>1. WalksFit
    BY DEF ResolveCall, WalksFit
  <2>2. PICK root \in Seq(STRING), path \in Seq(STRING) : root = fds[ThisFd].host /\ path = ThisPath
    <3>1. IsKind(ThisFd, "dir")
      BY <1>2 DEF Objection
    <3>2. ThisPath \in Seq(STRING)
      BY <2>1, ThisPathIsAPath DEF HostInv, CallInv
    <3> QED BY <3>1, <3>2, KindsOfEntries
  <2>3. PICK h : h = Stat(tree, root).node
    OBVIOUS
  <2>4. Tracks(tree, root, <<>>, <<h>>) /\ <<h>> \in Seq(Nodes \cup {Absent})
    BY <2>3, StartTracks DEF HostInv, HostTree
  <2>5. PICK w : w = [state |-> "walking", root |-> root, stack |-> <<>>, pending |-> path, budget |-> SymlinkMax,
                      handles |-> <<h>>]
    OBVIOUS
  <2>6. WalkStep(w)
    BY <1>2, <2>2, <2>3, <2>5 DEF ResolveCall, WalkStep
  <2>7. WalkOK(tree, w)
    BY <2>4, <2>5, EmptySeq DEF WalkOK, WholeWalk
  <2> QED BY <2>1, <2>6, <2>7, WalkKeepsHost
<1> QED BY <1>1, <1>2

\* Where a walk goes on: what it has, and what it changes.
LEMMA WalkParts ==
  ASSUME HostInv, Walking
  PROVE  /\ WalkOK(tree, walk) /\ WalksFit /\ WellFormed(tree)
         /\ walk.root \in Seq(STRING) /\ walk.stack \in Seq(STRING) /\ walk.pending \in Seq(STRING)
         /\ walk.handles \in Seq(Nodes \cup {Absent}) /\ walk.handles # <<>>
         /\ Tracks(tree, walk.root, walk.stack, walk.handles)
         /\ WalkDir \in Seq(STRING) /\ Len(walk.stack) \in Nat
<1>1. WalkOK(tree, walk) /\ WalksFit /\ WellFormed(tree)
  BY DEF HostInv, CallInv, Walking, NoWalk, HostTree
<1>2. Len(walk.stack) \in Nat /\ walk.handles # <<>>
  <2>1. Len(walk.stack) \in Nat /\ Len(walk.handles) = Len(walk.stack) + 1
    BY <1>1, LenProperties DEF WalkOK, Tracks
  <2> QED BY <2>1, EmptySeq
<1>3. WalkDir \in Seq(STRING)
  BY <1>1, ConcatProperties DEF WalkOK, WalkDir
<1> QED BY <1>1, <1>2, <1>3 DEF WalkOK

\* A walk with other fields is as whole.
WalkRecord(root, stack, pending, budget, handles) ==
  [state |-> "walking", root |-> root, stack |-> stack, pending |-> pending, budget |-> budget, handles |-> handles]
OtherWalk(w, stack, pending, budget, handles) == WalkRecord(w.root, stack, pending, budget, handles)

\* The changes a step makes to a walk, and the fields they set one by one.
WithPending(w, p) == [w EXCEPT !.pending = p]
WithPath(w, p, s, h) == [w EXCEPT !.pending = p, !.stack = s, !.handles = h]
Spliced(w, b, p) == [w EXCEPT !.budget = b, !.pending = p]
BackAtRoot(w, s, h) == [w EXCEPT !.stack = s, !.handles = h]
WithStack(w, s) == [w EXCEPT !.stack = s]
WithHandles(w, h) == [w EXCEPT !.handles = h]
WithBudget(w, b) == [w EXCEPT !.budget = b]

LEMMA RecordUpdates ==
  ASSUME NEW r, NEW s, NEW p, NEW b, NEW h, NEW x
  PROVE  /\ WithPending(WalkRecord(r, s, p, b, h), x) = WalkRecord(r, s, x, b, h)
         /\ WithStack(WalkRecord(r, s, p, b, h), x) = WalkRecord(r, x, p, b, h)
         /\ WithBudget(WalkRecord(r, s, p, b, h), x) = WalkRecord(r, s, p, x, h)
         /\ WithHandles(WalkRecord(r, s, p, b, h), x) = WalkRecord(r, s, p, b, x)
BY DEF WalkRecord, WithPending, WithStack, WithBudget, WithHandles

LEMMA FieldByField ==
  ASSUME NEW w, NEW x, NEW y, NEW z
  PROVE  /\ WithPath(w, x, y, z) = WithHandles(WithStack(WithPending(w, x), y), z)
         /\ Spliced(w, x, y) = WithPending(WithBudget(w, x), y)
         /\ BackAtRoot(w, x, y) = WithHandles(WithStack(w, x), y)
BY DEF WithPending, WithPath, Spliced, BackAtRoot, WithStack, WithHandles, WithBudget

LEMMA WalkWith ==
  ASSUME NEW w, WholeWalk(w), NEW p, NEW s, NEW b, NEW h
  PROVE  /\ WithPending(w, p) = OtherWalk(w, w.stack, p, w.budget, w.handles)
         /\ WithPath(w, p, s, h) = OtherWalk(w, s, p, w.budget, h)
         /\ Spliced(w, b, p) = OtherWalk(w, w.stack, p, b, w.handles)
         /\ BackAtRoot(Spliced(w, b, p), s, h) = OtherWalk(w, s, p, b, h)
<1>1. PICK r, s0, p0, b0, h0 : w = WalkRecord(r, s0, p0, b0, h0)
  BY DEF WholeWalk, WalkRecord
<1>2. r = w.root /\ s0 = w.stack /\ b0 = w.budget /\ h0 = w.handles
  BY <1>1 DEF WalkRecord
<1>3. WithPending(w, p) = WalkRecord(r, s0, p, b0, h0)
  BY <1>1, RecordUpdates
<1>4. WithPath(w, p, s, h) = WalkRecord(r, s, p, b0, h)
  BY <1>3, FieldByField, RecordUpdates
<1>5. Spliced(w, b, p) = WalkRecord(r, s0, p, b, h0)
  <2>1. Spliced(w, b, p) = WithPending(WithBudget(w, b), p)
    BY FieldByField
  <2>2. WithBudget(w, b) = WalkRecord(r, s0, p0, b, h0)
    BY <1>1, RecordUpdates
  <2> QED BY <2>1, <2>2, RecordUpdates
<1>6. BackAtRoot(Spliced(w, b, p), s, h) = WalkRecord(r, s, p, b, h)
  <2>1. PICK v : v = Spliced(w, b, p)
    OBVIOUS
  <2>2. BackAtRoot(v, s, h) = WithHandles(WithStack(v, s), h)
    BY FieldByField
  <2>3. WithStack(v, s) = WalkRecord(r, s, p, b, h0)
    BY <1>5, <2>1, RecordUpdates
  <2> QED BY <2>1, <2>2, <2>3, RecordUpdates
<1> QED BY <1>2, <1>3, <1>4, <1>5, <1>6 DEF OtherWalk

LEMMA OtherWalkOK ==
  ASSUME NEW t, NEW w, WalkOK(t, w), NEW stack \in Seq(STRING), NEW pending \in Seq(STRING), NEW budget,
         NEW handles \in Seq(Nodes \cup {Absent}), Tracks(t, w.root, stack, handles)
  PROVE  WalkOK(t, OtherWalk(w, stack, pending, budget, handles))
BY DEF WalkOK, OtherWalk, WalkRecord, WholeWalk

LEMMA SkipKeepsHost == ASSUME HostInv, SkipComponent PROVE HostInv'
<1>1. Walking /\ walk.pending # <<>>
  BY DEF SkipComponent
<1>2. PICK w : w = [walk EXCEPT !.pending = Tail(@)]
  OBVIOUS
<1>3. Tail(walk.pending) \in Seq(STRING)
  BY <1>1, WalkParts, PathParts
<1>4. WalkOK(tree, w)
  <2>1. WholeWalk(walk)
    BY <1>1, WalkParts DEF WalkOK
  <2>2. w = WithPending(walk, Tail(walk.pending))
    BY <1>2 DEF WithPending
  <2>3. w = OtherWalk(walk, walk.stack, Tail(walk.pending), walk.budget, walk.handles)
    BY <2>1, <2>2, WalkWith
  <2> QED BY <1>1, <1>3, <2>3, WalkParts, OtherWalkOK
<1>5. WalkStep(w) /\ WalksFit
  BY <1>1, <1>2, WalkParts DEF SkipComponent
<1> QED BY <1>4, <1>5, WalkKeepsHost

LEMMA ClimbKeepsHost == ASSUME HostInv, Climb PROVE HostInv'
<1>1. Walking /\ walk.pending # <<>>
  BY DEF Climb
<1>2. CASE walk.stack = <<>>
  BY <1>2, RefuseKeepsHost DEF Climb
<1>3. CASE walk.stack # <<>>
  <2>1. PICK w : w = [walk EXCEPT !.pending = Tail(@), !.stack = Front(@), !.handles = Front(@)]
    OBVIOUS
  <2>2. Tail(walk.pending) \in Seq(STRING)
    BY <1>1, WalkParts, PathParts
  <2>3. /\ Tracks(tree, walk.root, Front(walk.stack), Front(walk.handles))
        /\ Front(walk.stack) \in Seq(STRING) /\ Front(walk.handles) \in Seq(Nodes \cup {Absent})
    <3>1. PICK root \in Seq(STRING), stack \in Seq(STRING), handles \in Seq(Nodes \cup {Absent}) :
            root = walk.root /\ stack = walk.stack /\ handles = walk.handles
      BY <1>1, WalkParts
    <3>2. Tracks(tree, root, stack, handles) /\ stack # <<>>
      BY <1>1, <1>3, <3>1, WalkParts
    <3>3. /\ Tracks(tree, root, Front(stack), Front(handles))
          /\ Front(stack) \in Seq(STRING) /\ Front(handles) \in Seq(Nodes \cup {Absent})
      BY <3>2, ClimbTracks
    <3> QED BY <3>1, <3>3
  <2>4. WalkOK(tree, w)
    <3>1. WholeWalk(walk)
      BY <1>1, WalkParts DEF WalkOK
    <3>2. w = WithPath(walk, Tail(walk.pending), Front(walk.stack), Front(walk.handles))
      BY <2>1 DEF WithPath
    <3>3. w = OtherWalk(walk, Front(walk.stack), Tail(walk.pending), walk.budget, Front(walk.handles))
      BY <3>1, <3>2, WalkWith
    <3> QED BY <1>1, <2>2, <2>3, <3>3, WalkParts, OtherWalkOK
  <2>5. WalkStep(w) /\ WalksFit
    BY <1>1, <1>3, <2>1, WalkParts DEF Climb
  <2> QED BY <2>4, <2>5, WalkKeepsHost
<1> QED BY <1>2, <1>3

\* A component that names an entry, and what the host says of it.
LEMMA NamedParts ==
  ASSUME HostInv, AtName
  PROVE  /\ Walking /\ walk.pending # <<>> /\ Component \in STRING \ Dots /\ Tail(walk.pending) \in Seq(STRING)
         /\ Append(WalkDir, Component) \in Seq(STRING)
         /\ Probe.node \in Reached(tree)
<1>1. Walking /\ walk.pending # <<>> /\ Component \notin Dots
  BY DEF AtName, Dots
<1>2. WellFormed(tree) /\ WalkDir \in Seq(STRING) /\ walk.pending \in Seq(STRING)
  BY <1>1, WalkParts
<1>3. Component \in STRING /\ Tail(walk.pending) \in Seq(STRING)
  BY <1>1, <1>2, PathParts DEF Component
<1>4. Append(WalkDir, Component) \in Seq(STRING)
  BY <1>2, <1>3, OneMore
<1>5. Probe.node \in Reached(tree)
  BY <1>2, <1>4, LeadsSomewhere DEF Probe, Lstat
<1> QED BY <1>1, <1>3, <1>4, <1>5

LEMMA TracksFromRoot ==
  ASSUME NEW t, NEW root \in Seq(STRING), NEW stack \in Seq(STRING), NEW H, NEW handles \in Seq(H),
         Tracks(t, root, stack, handles)
  PROVE  Stat(t, root).node = Head(handles)
<1>1. 0 \in 0..Len(stack) /\ SubSeq(stack, 1, 0) = <<>> /\ 0 + 1 = 1
  BY SubSeqEmpty, LenProperties
<1>2. root \o <<>> = root
  BY ConcatEmptySeq
<1>3. Stat(t, root).node = handles[1]
  BY <1>1, <1>2 DEF Tracks
<1>4. Head(handles) = handles[1]
  OBVIOUS
<1> QED BY <1>3, <1>4

LEMMA FollowKeepsHost == ASSUME HostInv, FollowLink PROVE HostInv'
<1>1. AtName /\ KindOf(tree, Probe.node) = "link"
  BY DEF FollowLink, IsLinkToFollow
<1>2. CASE walk.budget = 0
  BY <1>2, RefuseKeepsHost DEF FollowLink
<1>3. CASE walk.budget # 0
  <2>1. PICK link : link = tree[Probe.node] /\ link.path \in Seq(STRING)
    <3>1. tree[Probe.node].path \in Seq(STRING)
      BY <1>1, NamedParts, WalkParts, TreeParts
    <3> QED BY <3>1
  <2>2. PICK pending \in Seq(STRING) : pending = link.path \o Tail(walk.pending)
    BY <1>1, <2>1, NamedParts, ConcatProperties
  <2>3. PICK u : u = Spliced(walk, walk.budget - 1, pending)
    OBVIOUS
  <2>4. WholeWalk(walk) /\ Walking
    BY <1>1, NamedParts, WalkParts DEF WalkOK
  <2>5. u = OtherWalk(walk, walk.stack, pending, walk.budget - 1, walk.handles) /\ u.handles = walk.handles
    BY <2>3, <2>4, WalkWith DEF OtherWalk, WalkRecord
  <2>6. CASE link.abs
    <3>1. PICK h : h = Head(walk.handles) /\ <<h>> \in Seq(Nodes \cup {Absent})
                   /\ Tracks(tree, walk.root, <<>>, <<h>>)
      <4>1. PICK root \in Seq(STRING), stack \in Seq(STRING), handles \in Seq(Nodes \cup {Absent}) :
              /\ root = walk.root /\ stack = walk.stack /\ handles = walk.handles /\ Tracks(tree, root, stack, handles)
        BY <2>4, WalkParts
      <4>2. Stat(tree, root).node = Head(handles)
        BY <4>1, TracksFromRoot
      <4>3. PICK h : h = Head(handles)
        OBVIOUS
      <4>4. <<h>> \in Seq(Nodes \cup {Absent}) /\ Tracks(tree, root, <<>>, <<h>>)
        BY <2>4, <4>2, <4>3, StartTracks, WalkParts
      <4> QED BY <4>1, <4>3, <4>4
    <3>2. PICK w : w = BackAtRoot(u, <<>>, <<h>>)
      OBVIOUS
    <3>3. w = OtherWalk(walk, <<>>, pending, walk.budget - 1, <<h>>)
      BY <2>3, <2>4, <3>2, WalkWith
    <3>4. WalkOK(tree, w)
      BY <2>4, <3>1, <3>3, WalkParts, OtherWalkOK, EmptySeq
    <3>5. WalkStep(w)
      <4>1. w = [u EXCEPT !.stack = <<>>, !.handles = <<Head(@)>>]
        BY <2>5, <3>1, <3>2 DEF BackAtRoot
      <4>2. u = [walk EXCEPT !.budget = @ - 1, !.pending = link.path \o Tail(@)]
        BY <2>2, <2>3 DEF Spliced
      <4> QED BY <1>3, <2>1, <2>6, <4>1, <4>2 DEF FollowLink
    <3> QED BY <2>4, <3>4, <3>5, WalkParts, WalkKeepsHost
  <2>7. CASE ~link.abs
    <3>1. WalkOK(tree, u)
      BY <2>4, <2>5, WalkParts, OtherWalkOK
    <3>2. WalkStep(u)
      <4>1. u = [walk EXCEPT !.budget = @ - 1, !.pending = link.path \o Tail(@)]
        BY <2>2, <2>3 DEF Spliced
      <4> QED BY <1>3, <2>1, <2>7, <4>1 DEF FollowLink
    <3> QED BY <2>4, <3>1, <3>2, WalkParts, WalkKeepsHost
  <2> QED BY <2>6, <2>7
<1> QED BY <1>2, <1>3

\* The directory descended into is the one the computed path leads to.
LEMMA DescendKeepsHost == ASSUME HostInv, Descend PROVE HostInv'
<1>1. AtName /\ IsDir(tree, Probe.node)
  BY DEF Descend
<1>2. Walking /\ walk.pending # <<>>
  BY <1>1, NamedParts
<1>3. PICK root \in Seq(STRING), stack \in Seq(STRING), handles \in Seq(Nodes \cup {Absent}) :
        /\ root = walk.root /\ stack = walk.stack /\ handles = walk.handles /\ Tracks(tree, root, stack, handles)
  BY <1>2, WalkParts
<1>4. PICK c \in STRING \ Dots : c = Component
  BY <1>1, NamedParts
<1> PICK t, h : t = tree /\ h = Probe.node
  OBVIOUS
<1>5. PICK dir \in Seq(STRING) : dir = root \o stack
  BY ConcatProperties
<1>6. h = Lstat(t, Append(dir, c)).node /\ h # Absent /\ KindOf(t, h) = "dir" /\ WellFormed(t) /\ h \in Nodes
  <2>1. h = Lstat(t, Append(dir, c)).node /\ KindOf(t, h) = "dir" /\ WellFormed(t)
    BY <1>1, <1>2, <1>3, <1>4, <1>5, WalkParts DEF Probe, WalkDir, IsDir
  <2>2. h # Absent
    BY <2>1 DEF KindOf
  <2>3. h \in Nodes
    BY <1>1, <1>4, <2>2, NamedParts DEF Reached
  <2> QED BY <2>1, <2>2, <2>3
<1>7. h = Lookup(t, Stat(t, dir).node, c)
  BY <1>6, NameIsLookedUp
<1>8. PICK path \in Seq(STRING) : path = Append(dir, c)
  BY OneMore
<1>9. Stat(t, path).node = h
  BY <1>6, <1>8, FollowedUnlessLink
<1>10. path = root \o Append(stack, c)
  <2>1. \A p \in Seq(STRING) : p \o Append(stack, c) = Append(p \o stack, c)
    BY OneMore
  <2> QED BY <1>5, <1>8, <2>1
<1>11. Stat(t, dir).node = Last(handles)
  <2>1. PICK n \in Nat : n = Len(stack) /\ Len(handles) = n + 1
    BY <1>3, LenProperties DEF Tracks
  <2>2. n \in 0..Len(stack) /\ SubSeq(stack, 1, n) = stack
    BY <2>1, SubSeqFull
  <2>3. Stat(t, root \o stack).node = handles[n + 1]
    BY <1>3, <1>4, <2>2 DEF Tracks
  <2> QED BY <1>5, <2>1, <2>3 DEF Last
<1>12. /\ Tracks(t, root, Append(stack, c), Append(handles, h))
       /\ Append(stack, c) \in Seq(STRING) /\ Append(handles, h) \in Seq(Nodes \cup {Absent})
  <2>1. h \in Nodes \cup {Absent} /\ h = Lookup(t, Last(handles), c) /\ h = Stat(t, root \o Append(stack, c)).node
    BY <1>6, <1>7, <1>9, <1>10, <1>11
  <2> QED BY <1>3, <1>4, <1>6, <2>1, DescendTracks
<1>13. PICK w : w = WithPath(walk, Tail(walk.pending), Append(stack, c), Append(handles, h))
  OBVIOUS
<1>14. WalkOK(tree, w)
  <2>1. w = OtherWalk(walk, Append(stack, c), Tail(walk.pending), walk.budget, Append(handles, h))
    BY <1>2, <1>13, WalkParts, WalkWith DEF WalkOK
  <2> QED BY <1>1, <1>2, <1>3, <1>4, <1>12, <2>1, WalkParts, NamedParts, OtherWalkOK
<1>15. WalkStep(w)
  <2>1. h = Lookup(tree, Last(walk.handles), Component)
    BY <1>3, <1>4, <1>7, <1>11
  <2>2. w = [walk EXCEPT !.pending = Tail(@), !.stack = Append(@, Component),
                         !.handles = Append(@, Lookup(tree, Last(@), Component))]
    BY <1>3, <1>4, <1>13, <2>1 DEF WithPath
  <2> QED BY <2>2 DEF Descend
<1> QED BY <1>2, <1>14, <1>15, WalkParts, WalkKeepsHost

LEMMA ArrivalsKeepHost == ASSUME HostInv, Arrive \/ ArriveAtDirectory PROVE HostInv'
<1>1. CASE Arrive
  <2>1. Walking /\ Component \in STRING
    BY <1>1, NamedParts DEF Arrive
  <2>2. PICK result : result = Walked(Component, KindOf(tree, Probe.node) = "link")
    OBVIOUS
  <2>3. WalkDir \in Seq(STRING)
    BY <2>1, WalkParts
  <2>4. result \in Finding
    BY <2>1, <2>2, <2>3 DEF Walked, Finding
  <2> QED BY <1>1, <2>1, <2>2, <2>4, WalkParts, ArrivalKeepsHost DEF Arrive
<1>2. CASE ArriveAtDirectory
  <2>1. Walking
    BY <1>2 DEF ArriveAtDirectory
  <2>2. PICK result : result = Walked(".", FALSE)
    OBVIOUS
  <2>3. WalkDir \in Seq(STRING)
    BY <2>1, WalkParts
  <2>4. result \in Finding
    <3>1. PICK name \in STRING \cup {"."}, no \in BOOLEAN : name = "." /\ no = FALSE
      OBVIOUS
    <3>2. Walked(name, no) \in Finding
      BY <2>3 DEF Walked, Finding
    <3> QED BY <2>2, <3>1, <3>2
  <2> QED BY <1>2, <2>1, <2>2, <2>4, WalkParts, ArrivalKeepsHost DEF ArriveAtDirectory
<1> QED BY <1>1, <1>2

LEMMA WalkStepsKeepHost == ASSUME HostInv, WalkSteps PROVE HostInv'
<1>1. CASE RefuseComponent \/ ProbeFails \/ NotADirectory
  BY <1>1, RefuseKeepsHost DEF RefuseComponent, ProbeFails, NotADirectory
<1> QED BY <1>1, SkipKeepsHost, ClimbKeepsHost, FollowKeepsHost, DescendKeepsHost, ArrivalsKeepHost DEF WalkSteps

-----------------------------------------------------------------------------
(* The descriptor table.                                                   *)

LEMMA TableGrows ==
  ASSUME NEW t, NEW u, Grows(t, u), NEW table, TableOK(t, table)
  PROVE  TableOK(u, table)
<1>1. ASSUME NEW e, EntryFits(t, e) PROVE EntryFits(u, e)
  <2>1. ASSUME e.node \in Nodes, t[e.node].kind = "file" PROVE u[e.node].kind = "file"
    BY <2>1 DEF Grows, Free
  <2> QED BY <1>1, <2>1 DEF EntryFits
<1> QED BY <1>1 DEF TableOK

LEMMA InsertFits ==
  ASSUME NEW t, TableOK(t, fds), NEW entry, EntryFits(t, entry)
  PROVE  TableOK(t, Insert(entry))
<1>1. PICK n \in Nat : DOMAIN fds = 0..(n - 1)
  BY DEF TableOK
<1>2. Size = n
  <2>1. 0 \in Int /\ n - 1 \in Int
    OBVIOUS
  <2>2. Cardinality(0..(n - 1)) = IF 0 <= n - 1 THEN (n - 1) - 0 + 1 ELSE 0
    BY <2>1, FS_Interval
  <2>3. Cardinality(0..(n - 1)) = n
    BY <2>2
  <2> QED BY <1>1, <2>3 DEF Size
<1>3. PICK at : at = NewFd
  OBVIOUS
<1>4. at \in 0..n
  <2> DEFINE holes == {fd \in DOMAIN fds : ~IsOpen(fd)}
  <2>1. CASE holes = {}
    <3>1. at = n
      BY <1>2, <1>3, <2>1 DEF NewFd
    <3> QED BY <3>1
  <2>2. CASE holes # {}
    <3>1. holes \in SUBSET Nat
      BY <1>1
    <3>2. PICK x \in holes : \A y \in holes : x <= y
      BY <2>2, <3>1, LeastNumber
    <3>3. at = CHOOSE fd \in holes : \A other \in holes : fd <= other
      BY <1>3, <2>2 DEF NewFd
    <3>4. at \in holes
      BY <3>2, <3>3
    <3> QED BY <1>1, <3>4
  <2> QED BY <2>1, <2>2
<1>5. DOMAIN Insert(entry) = DOMAIN fds \cup {at}
  BY <1>3 DEF Insert
<1>6. \E m \in Nat : DOMAIN Insert(entry) = 0..(m - 1)
  <2>1. CASE at = n
    <3>1. DOMAIN Insert(entry) = 0..((n + 1) - 1)
      BY <1>1, <1>5, <2>1
    <3> QED BY <3>1
  <2>2. CASE at # n
    BY <1>1, <1>4, <1>5, <2>2
  <2> QED BY <2>1, <2>2
<1>7. \A fd \in DOMAIN Insert(entry) : EntryFits(t, Insert(entry)[fd])
  BY DEF Insert, TableOK
<1> QED BY <1>6, <1>7 DEF TableOK

LEMMA ClosingFits ==
  ASSUME NEW t, TableOK(t, fds), NEW n
  PROVE  TableOK(t, Closing(n))
<1>1. EntryFits(t, Closed)
  BY DEF EntryFits
<1>2. DOMAIN Closing(n) = DOMAIN fds
  BY DEF Closing
<1>3. \A fd \in DOMAIN fds : EntryFits(t, Closing(n)[fd])
  BY <1>1 DEF Closing, TableOK
<1> QED BY <1>2, <1>3 DEF TableOK

LEMMA RenumberedFits ==
  ASSUME NEW t, TableOK(t, fds), NEW from \in DOMAIN fds, NEW to \in Nat
  PROVE  TableOK(t, Renumbered(from, to))
<1>1. PICK n \in Nat : DOMAIN fds = 0..(n - 1)
  BY DEF TableOK
<1>2. DOMAIN Renumbered(from, to) = 0..(n - 1) \cup 0..to
  BY <1>1 DEF Renumbered
<1>3. \E m \in Nat : DOMAIN Renumbered(from, to) = 0..(m - 1)
  <2>1. CASE to < n
    BY <1>2, <2>1
  <2>2. CASE ~(to < n)
    <3>1. DOMAIN Renumbered(from, to) = 0..((to + 1) - 1)
      BY <1>2, <2>2
    <3> QED BY <3>1
  <2> QED BY <2>1, <2>2
<1>4. EntryFits(t, Closed)
  BY DEF EntryFits
<1>5. \A fd \in DOMAIN Renumbered(from, to) : EntryFits(t, Renumbered(from, to)[fd])
  BY <1>4 DEF Renumbered, TableOK
<1> QED BY <1>3, <1>5 DEF TableOK

\* A file's cursor and its mode.
LEMMA FileMoves ==
  ASSUME NEW t, NEW e, e.kind = "file", EntryFits(t, e), NEW pos \in Nat, NEW append
  PROVE  EntryFits(t, [e EXCEPT !.pos = pos]) /\ EntryFits(t, [e EXCEPT !.append = append])
<1>1. /\ e.grant \in DOMAIN Grants /\ e.node \in Nodes /\ e.pos \in Nat
      /\ t[e.node].kind = "file" /\ WholeFile(e)
  BY DEF EntryFits, Closed
<1>2. PICK n, a, p, b, i, g :
        /\ e = [kind |-> "file", node |-> n, append |-> a, pos |-> p, base |-> b, inh |-> i, grant |-> g]
        /\ g \in DOMAIN Grants /\ n \in Nodes /\ p \in Nat /\ t[n].kind = "file"
  BY <1>1 DEF WholeFile
<1>3. [e EXCEPT !.pos = pos]
        = [kind |-> "file", node |-> n, append |-> a, pos |-> pos, base |-> b, inh |-> i, grant |-> g]
  BY <1>2
<1>4. [e EXCEPT !.append = append]
        = [kind |-> "file", node |-> n, append |-> append, pos |-> p, base |-> b, inh |-> i, grant |-> g]
  BY <1>2
<1>5. PICK u, v : u = [e EXCEPT !.pos = pos] /\ v = [e EXCEPT !.append = append]
  OBVIOUS
<1>6. EntryFits(t, u)
  BY <1>2, <1>3, <1>5 DEF EntryFits, WholeFile
<1>7. EntryFits(t, v)
  BY <1>2, <1>4, <1>5 DEF EntryFits, WholeFile
<1> QED BY <1>5, <1>6, <1>7

LEMMA FileChangesFit ==
  ASSUME NEW t, TableOK(t, fds), NEW n, IsKind(n, "file"), NEW pos \in Nat, NEW append
  PROVE  TableOK(t, MovedTo(n, pos)) /\ TableOK(t, [fds EXCEPT ![n].append = append])
<1>1. n \in DOMAIN fds /\ fds[n].kind = "file" /\ EntryFits(t, fds[n])
  BY DEF IsKind, IsOpen, TableOK
<1>2. PICK u, v : /\ u = [fds[n] EXCEPT !.pos = pos] /\ v = [fds[n] EXCEPT !.append = append]
                  /\ EntryFits(t, u) /\ EntryFits(t, v)
  BY <1>1, FileMoves
<1>3. ASSUME NEW e, EntryFits(t, e) PROVE TableOK(t, [fds EXCEPT ![n] = e])
  BY <1>3 DEF TableOK
<1>4. MovedTo(n, pos) = [fds EXCEPT ![n] = u]
  BY <1>1, <1>2 DEF MovedTo
<1>5. [fds EXCEPT ![n].append = append] = [fds EXCEPT ![n] = v]
  BY <1>1, <1>2
<1> QED BY <1>2, <1>3, <1>4, <1>5

-----------------------------------------------------------------------------
(* The calls on paths.                                                     *)

\* A call that ends, with the tree grown and the table in order.
LEMMA EndKeepsHost ==
  ASSUME HostInv, NEW code, Return(code), HostTree(tree'), TableOK(tree', fds'), UNCHANGED <<stdinPos, received>>
  PROVE  HostInv'
<1>1. CallInv'
  BY ReturnKeepsCall DEF HostInv
<1> QED BY <1>1 DEF HostInv, StdinInv

LEMMA ChangeKeepsHost ==
  ASSUME HostInv, NEW result, HostChange(result), Sound(tree, result)
  PROVE  HostInv'
<1>1. tree' = result.tree /\ UNCHANGED <<fds, stdinPos, received>> /\ \E code : Return(code)
  BY DEF HostChange, stdio
<1>2. HostTree(tree') /\ Grows(tree, tree')
  BY <1>1 DEF Sound
<1>3. TableOK(tree', fds')
  BY <1>1, <1>2, TableGrows DEF HostInv
<1> QED BY <1>1, <1>2, <1>3, EndKeepsHost

LEMMA TargetsArePaths ==
  ASSUME HostInv, NEW op \in DOMAIN Needs, Ready(op)
  PROVE  Target \in Seq(STRING) /\ (op \in {"path_rename", "path_link"} => Target2 \in Seq(STRING))
<1>1. ASSUME NEW w \in Finding PROVE HostPath(w) \in Seq(STRING)
  <2>1. w.dir \in Seq(STRING) /\ (w.name # "." => w.name \in STRING)
    BY <1>1 DEF Finding
  <2>2. CASE w.name = "."
    BY <2>1, <2>2 DEF HostPath
  <2>3. CASE w.name # "."
    BY <2>1, <2>3, OneMore DEF HostPath
  <2> QED BY <2>2, <2>3
<1>2. found \in Seq(Finding) /\ Len(found) = Len(Needs[op])
  BY DEF HostInv, CallInv, Ready
<1>3. Len(found) \in Nat /\ 1 <= Len(found) /\ (op \in {"path_rename", "path_link"} => 2 <= Len(found))
  <2>1. CASE op \in {"path_rename", "path_link"}
    <3>1. Len(Needs[op]) = 2
      BY <2>1, PathsOfCalls
    <3> QED BY <1>2, <3>1
  <2>2. CASE op \notin {"path_rename", "path_link"}
    <3>1. Len(Needs[op]) = 1
      BY <2>2, PathsOfCalls
    <3> QED BY <1>2, <2>2, <3>1
  <2> QED BY <2>1, <2>2
<1>4. found[1] \in Finding
  BY <1>2, <1>3
<1>5. op \in {"path_rename", "path_link"} => found[2] \in Finding
  BY <1>2, <1>3
<1> QED BY <1>1, <1>4, <1>5 DEF Target, Target2

LEMMA OpenedSound ==
  ASSUME HostTree(tree), Target \in Seq(STRING)
  PROVE  /\ Sound(tree, Opened)
         /\ Opened.code = "SUCCESS" => OpenedNode \in Nodes /\ Opened.tree[OpenedNode].kind = "file"
<1>1. PICK n, r : n = Stat(tree, Target).node /\ r = Opened
  OBVIOUS
<1>2. CASE IsDir(tree, n)
  <2>1. r = Fails(tree, "ISDIR")
    BY <1>1, <1>2 DEF Opened
  <2> QED BY <1>1, <2>1, NoChange DEF Fails
<1>3. CASE n # Absent /\ ~IsDir(tree, n)
  <2>1. n \in Nodes /\ tree[n] # Free
    BY <1>1, <1>3, LeadsToANode DEF Stat
  <2>2. tree[n].kind = "file"
    <3>1. tree[n].kind # "link" /\ tree[n].kind # "dir"
      BY <1>1, <1>3, LeadsToNoLink DEF HostTree, KindOf, IsDir
    <3>2. Fits(tree, tree[n])
      BY <2>1, HostTreeFits
    <3> QED BY <2>1, <3>1, <3>2 DEF Fits, FileNodes, LinkNodes, Lists
  <2>3. OpenedNode = n
    BY <1>1, <1>3 DEF OpenedNode
  <2>4. CASE Has("TRUNC")
    <3>1. r = Done([tree EXCEPT ![n] = NewFile(<<>>)])
      BY <1>1, <1>3, <2>4 DEF Opened
    <3>2. PICK data \in Seq(Nat) : data = <<>> /\ Len(data) <= MaxData
      <4>1. <<>> \in Seq(Nat) /\ Len(<<>>) = 0 /\ 0 <= MaxData
        BY EmptySeq, BoundsAssumption
      <4> QED BY <4>1
    <3>3. PICK u : u = [tree EXCEPT ![n] = NewFile(<<>>)]
      OBVIOUS
    <3>4. HostTree(u) /\ Grows(tree, u)
      BY <2>1, <2>2, <3>2, <3>3, ContentsFit
    <3>5. r.tree = u
      BY <3>1, <3>3 DEF Done
    <3>6. u[n].kind = "file"
      BY <2>1, <2>2, <3>4 DEF Grows
    <3> QED BY <1>1, <2>1, <2>3, <3>4, <3>5, <3>6 DEF Sound
  <2>5. CASE ~Has("TRUNC")
    <3>1. r = Done(tree)
      BY <1>1, <1>3, <2>5 DEF Opened
    <3> QED BY <1>1, <2>1, <2>2, <2>3, <3>1, NoChange DEF Done
  <2> QED BY <2>4, <2>5
<1>4. CASE n = Absent
  <2>1. OpenedNode = Fresh(tree) /\ ~IsDir(tree, n)
    BY <1>1, <1>4 DEF OpenedNode, IsDir, KindOf
  <2>2. CASE Has("CREAT")
    <3>1. PICK what \in Makeable : what = NewFile(<<>>) /\ what.kind = "file"
      <4>1. PICK what : what = NewFile(<<>>)
        OBVIOUS
      <4>2. what \in Makeable
        BY <4>1 DEF Makeable
      <4>3. what.kind = "file"
        BY <4>1 DEF NewFile
      <4> QED BY <4>1, <4>2, <4>3
    <3>2. r = Make(tree, Target, what)
      BY <1>1, <1>4, <2>1, <2>2, <3>1 DEF Opened
    <3>3. /\ Sound(tree, Make(tree, Target, what))
          /\ Make(tree, Target, what).code = "SUCCESS"
               => Fresh(tree) \in Nodes /\ Make(tree, Target, what).tree[Fresh(tree)].kind = what.kind
      BY MakeSound
    <3> QED BY <1>1, <2>1, <3>1, <3>2, <3>3
  <2>3. CASE ~Has("CREAT")
    <3>1. PICK code : code = Stat(tree, Target).code /\ code # "SUCCESS"
      <4>1. Stat(tree, Target).node = Absent => Stat(tree, Target).code # "SUCCESS"
        BY LeadsSomewhere DEF Stat, HostTree
      <4> QED BY <1>1, <1>4, <4>1
    <3>2. r = Fails(tree, code)
      BY <1>1, <1>4, <2>1, <2>3, <3>1 DEF Opened
    <3>3. r.code # "SUCCESS"
      BY <3>1, <3>2 DEF Fails
    <3> QED BY <1>1, <3>2, <3>3, NoChange
  <2> QED BY <2>2, <2>3
<1> QED BY <1>2, <1>3, <1>4

LEMMA OpeningKeepsHost ==
  ASSUME HostInv, RightsInv, PathOpenDirectory \/ PathOpenFile
  PROVE  HostInv'
<1>1. Ready("path_open") /\ UNCHANGED <<stdinPos, received>>
  BY DEF PathOpenDirectory, PathOpenFile, stdio
<1>2. Target \in Seq(STRING)
  <2>1. \A op \in DOMAIN Needs : Ready(op) => Target \in Seq(STRING)
    BY TargetsArePaths
  <2> QED BY <1>1, <2>1 DEF Needs
<1>3. fds[call.fd].grant \in DOMAIN Grants
  <2>1. call.op = "path_open" /\ found # <<>>
    BY <1>1 DEF Ready, Needs
  <2>2. IsKind(call.fd, "dir")
    BY <2>1 DEF RightsInv, OpensFromADirectory
  <2> QED BY <2>2, KindsOfEntries
<1>4. CASE PathOpenDirectory
  <2>1. PICK e : e = DirFd(Target, FALSE, NewBase, NewInh, fds[call.fd].grant)
    OBVIOUS
  <2>2. EntryFits(tree, e)
    BY <1>2, <1>3, <2>1 DEF EntryFits, DirFd
  <2>3. tree' = tree /\ fds' = Insert(e) /\ \E code : Return(code)
    BY <1>4, <2>1 DEF PathOpenDirectory
  <2>4. TableOK(tree', fds')
    BY <2>2, <2>3, InsertFits DEF HostInv
  <2> QED BY <1>1, <2>3, <2>4, EndKeepsHost DEF HostInv
<1>5. CASE PathOpenFile
  <2>1. /\ Sound(tree, Opened)
        /\ Opened.code = "SUCCESS" => OpenedNode \in Nodes /\ Opened.tree[OpenedNode].kind = "file"
    BY <1>2, OpenedSound DEF HostInv
  <2>2. tree' = Opened.tree /\ \E code : Return(code)
    BY <1>5 DEF PathOpenFile
  <2>3. HostTree(tree') /\ TableOK(tree', fds)
    BY <2>1, <2>2, TableGrows DEF HostInv, Sound
  <2>4. TableOK(tree', fds')
    <3>1. CASE Opened.code # "SUCCESS"
      BY <1>5, <2>3, <3>1 DEF PathOpenFile
    <3>2. CASE Opened.code = "SUCCESS"
      <4>1. PICK e : e = FileFd(OpenedNode, call.append, NewBase, NewInh, fds[call.fd].grant)
        OBVIOUS
      <4>2. EntryFits(tree', e)
        <5>1. OpenedNode \in Nodes /\ tree'[OpenedNode].kind = "file"
          BY <2>1, <2>2, <3>2
        <5>2. PICK n, u : n = OpenedNode /\ u = tree' /\ n \in Nodes /\ u[n].kind = "file"
          BY <5>1
        <5>3. PICK g \in DOMAIN Grants : g = fds[call.fd].grant
          BY <1>3
        <5>4. e = [kind |-> "file", node |-> n, append |-> call.append, pos |-> 0, base |-> NewBase, inh |-> NewInh,
                   grant |-> g]
          BY <4>1, <5>2, <5>3 DEF FileFd
        <5>5. EntryFits(u, e)
          BY <5>2, <5>4 DEF EntryFits, WholeFile
        <5> QED BY <5>2, <5>5
      <4>3. fds' = Insert(e)
        BY <1>5, <3>2, <4>1 DEF PathOpenFile
      <4> QED BY <2>3, <4>2, <4>3, InsertFits
    <3> QED BY <3>1, <3>2
  <2> QED BY <1>1, <2>2, <2>3, <2>4, EndKeepsHost
<1> QED BY <1>4, <1>5

LEMMA PathCallsKeepHost == ASSUME HostInv, RightsInv, PathCalls PROVE HostInv'
<1>1. ASSUME NEW op \in DOMAIN Needs, Ready(op)
      PROVE  Target \in Seq(STRING) /\ (op \in {"path_rename", "path_link"} => Target2 \in Seq(STRING))
  BY <1>1, TargetsArePaths
<1>2. CASE PathOpenRefused
  BY <1>2, RefuseKeepsHost DEF PathOpenRefused
<1>3. CASE PathOpenDirectory \/ PathOpenFile
  BY <1>3, OpeningKeepsHost
<1>4. CASE PathCreateDirectory
  <2>1. Target \in Seq(STRING)
    BY <1>1, <1>4 DEF PathCreateDirectory, Needs
  <2>2. PICK what \in Makeable : what = NewDir(<<>>)
    BY DEF Makeable
  <2>3. Sound(tree, Make(tree, Target, what))
    BY <2>1, MakeSound DEF HostInv
  <2> QED BY <1>4, <2>2, <2>3, ChangeKeepsHost DEF PathCreateDirectory
<1>5. CASE PathRemoveDirectory \/ PathUnlinkFile
  BY <1>5, RemoveSound, ChangeKeepsHost DEF PathRemoveDirectory, PathUnlinkFile, HostInv
<1>6. CASE PathSymlink
  <2>1. Target \in Seq(STRING) /\ call.op = "path_symlink"
    BY <1>1, <1>6 DEF PathSymlink, Needs, Ready
  <2>2. call.target \in [abs : BOOLEAN, path : Seq(STRING)]
    BY <2>1 DEF HostInv, CallInv, CallOK
  <2>3. PICK what \in Makeable : what = NewLink(call.target.abs, call.target.path)
    <3>1. PICK target \in [abs : BOOLEAN, path : Seq(STRING)] : target = call.target
      BY <2>2
    <3>2. NewLink(target.abs, target.path) \in LinkNodes
      BY DEF NewLink, LinkNodes
    <3> QED BY <3>1, <3>2 DEF Makeable
  <2>4. Sound(tree, Make(tree, Target, what))
    BY <2>1, MakeSound DEF HostInv
  <2> QED BY <1>6, <2>3, <2>4, ChangeKeepsHost DEF PathSymlink
<1>7. CASE PathRename
  <2>1. Target \in Seq(STRING) /\ Target2 \in Seq(STRING)
    BY <1>1, <1>7 DEF PathRename, Needs
  <2>2. Sound(tree, Rename(tree, Target, Target2))
    BY <2>1, RenameSound DEF HostInv
  <2> QED BY <1>7, <2>2, ChangeKeepsHost DEF PathRename
<1>8. CASE PathLink
  <2>1. Target \in Seq(STRING) /\ Target2 \in Seq(STRING)
    BY <1>1, <1>8 DEF PathLink, Needs
  <2>2. Sound(tree, HardLink(tree, Target, Target2))
    BY <2>1, HardLinkSound DEF HostInv
  <2> QED BY <1>8, <2>2, ChangeKeepsHost DEF PathLink
<1>9. CASE PathFilestatGet \/ PathReadlink
  <2>1. \E code : Refuse(code)
    BY <1>9 DEF PathFilestatGet, PathReadlink
  <2> QED BY <2>1, RefuseKeepsHost
<1> QED BY <1>2, <1>3, <1>4, <1>5, <1>6, <1>7, <1>8, <1>9 DEF PathCalls

-----------------------------------------------------------------------------
(* A read of stdin.                                                        *)

TakeUp(g, start, seq, s) == IF s = {} THEN start ELSE Take(g[s \ {Max(s)}], seq[Max(s)])
IsTaking(g, start, seq, n) == g = [s \in SUBSET (1..n) |-> TakeUp(g, start, seq, s)]

LEMMA FoldIsTaking ==
  ASSUME NEW start, NEW seq
  PROVE  FoldLeft(Take, start, seq)
           = (CHOOSE g : g = [s \in SUBSET DOMAIN seq |-> TakeUp(g, start, seq, s)])[DOMAIN seq]
BY Zenon DEF FoldLeft, MapThenFoldSet, TakeUp

LEMMA TakingsExist ==
  ASSUME NEW start, NEW seq
  PROVE  \A n \in Nat : \E g : IsTaking(g, start, seq, n)
<1> DEFINE S == {n \in Nat : \E g : IsTaking(g, start, seq, n)}
<1>1. 0 \in S
  <2> DEFINE g == [s \in SUBSET (1..0) |-> start]
  <2>1. \A s \in SUBSET (1..0) : TakeUp(g, start, seq, s) = start
    BY DEF TakeUp
  <2>2. IsTaking(g, start, seq, 0)
    BY <2>1 DEF IsTaking
  <2> QED BY <2>2
<1>2. ASSUME NEW n \in Nat, n \in S PROVE n + 1 \in S
  <2>1. PICK g : IsTaking(g, start, seq, n)
    BY <1>2
  <2> DEFINE h == [s \in SUBSET (1..(n + 1)) |-> IF n + 1 \in s THEN Take(g[s \ {n + 1}], seq[n + 1]) ELSE g[s]]
  <2>2. ASSUME NEW s \in SUBSET (1..(n + 1)) PROVE h[s] = TakeUp(h, start, seq, s)
    <3>1. CASE n + 1 \in s
      <4>1. Max(s) = n + 1 /\ s # {}
        BY <2>2, <3>1, GreatestIsLast
      <4>2. s \ {n + 1} \in SUBSET (1..(n + 1)) /\ n + 1 \notin s \ {n + 1}
        BY <2>2
      <4>3. h[s \ {n + 1}] = g[s \ {n + 1}]
        BY <4>2
      <4>4. h[s] = Take(g[s \ {n + 1}], seq[n + 1])
        BY <2>2, <3>1
      <4> HIDE DEF h
      <4> QED BY <4>1, <4>3, <4>4 DEF TakeUp
    <3>2. CASE n + 1 \notin s
      <4>1. s \in SUBSET (1..n)
        BY <2>2, <3>2
      <4>2. g[s] = TakeUp(g, start, seq, s)
        BY <2>1, <4>1 DEF IsTaking
      <4>3. s \ {Max(s)} \in SUBSET (1..(n + 1)) /\ n + 1 \notin s \ {Max(s)}
        BY <2>2, <3>2
      <4>4. h[s] = g[s] /\ h[s \ {Max(s)}] = g[s \ {Max(s)}]
        BY <2>2, <3>2, <4>3
      <4> HIDE DEF h
      <4> QED BY <4>2, <4>4 DEF TakeUp
    <3> QED BY <3>1, <3>2
  <2>3. IsTaking(h, start, seq, n + 1)
    <3>1. h = [s \in SUBSET (1..(n + 1)) |-> h[s]]
      OBVIOUS
    <3> HIDE DEF h
    <3> QED BY <2>2, <3>1 DEF IsTaking
  <2> QED BY <2>3
<1>3. \A n \in Nat : n \in S
  <2> HIDE DEF S
  <2> QED BY <1>1, <1>2, NatSetInduction
<1> QED BY <1>3

\* What a read has taken so far is the next part of stdin.
Consumed(from, s) ==
  /\ DOMAIN s = {"pos", "stored", "fit", "over", "ok"}
  /\ s.pos \in from..Len(Stdin)
  /\ s.stored = SubSeq(Stdin, from + 1, s.pos)

LEMMA TakeConsumes ==
  ASSUME NEW from \in Nat, NEW s, Consumed(from, s), NEW len \in Nat
  PROVE  Consumed(from, Take(s, len))
<1>1. PICK pos \in Nat, total \in Nat : pos = s.pos /\ total = Len(Stdin) /\ from <= pos /\ pos <= total
  BY StdinAssumption DEF Consumed
<1>2. PICK end \in Nat : end = Lesser(pos + len, total) /\ pos <= end /\ end <= total
  BY <1>1 DEF Lesser
<1>3. PICK got : got = ReadAt(Stdin, s.pos, len) /\ got = SubSeq(Stdin, pos + 1, end)
  BY <1>1, <1>2 DEF ReadAt
<1>4. Len(got) = end - pos
  <2>1. end \in 0..Len(Stdin)
    BY <1>1, <1>2
  <2>2. Len(SubSeq(Stdin, pos + 1, end)) = IF pos < end THEN end - pos ELSE 0
    BY <2>1, Slice, StdinAssumption
  <2>3. CASE pos < end
    BY <1>3, <2>2, <2>3
  <2>4. CASE ~(pos < end)
    <3>1. end = pos /\ end - pos = 0
      BY <1>2, <2>4
    <3> QED BY <1>3, <2>2, <2>4, <3>1
  <2> QED BY <2>3, <2>4
<1>5. s.stored \o got = SubSeq(Stdin, from + 1, end)
  <2>1. /\ from + 1 \in 1..(Len(Stdin) + 1) /\ pos \in ((from + 1) - 1)..Len(Stdin) /\ end \in pos..Len(Stdin)
    BY <1>1, <1>2
  <2>2. PICK m : m = from + 1
    OBVIOUS
  <2>3. SubSeq(Stdin, m, pos) \o SubSeq(Stdin, pos + 1, end) = SubSeq(Stdin, m, end)
    BY <2>1, <2>2, ConcatAdjacentSubSeq, StdinAssumption
  <2> QED BY <1>1, <1>3, <2>2, <2>3 DEF Consumed
<1>6. PICK u : u = Take(s, len)
  OBVIOUS
<1>7. \/ u = s
      \/ u = [s EXCEPT !.over = TRUE]
      \/ u = [s EXCEPT !.over = TRUE, !.ok = FALSE]
      \/ u = [s EXCEPT !.pos = @ + Len(got), !.stored = @ \o got, !.fit = @ - 1]
  BY <1>3, <1>6 DEF Take
<1>8. CASE u = s
  BY <1>6, <1>8
<1>9. CASE u = [s EXCEPT !.over = TRUE] \/ u = [s EXCEPT !.over = TRUE, !.ok = FALSE]
  <2>1. DOMAIN u = DOMAIN s /\ u.pos = s.pos /\ u.stored = s.stored
    BY <1>9 DEF Consumed
  <2> QED BY <1>6, <2>1 DEF Consumed
<1>10. CASE u = [s EXCEPT !.pos = @ + Len(got), !.stored = @ \o got, !.fit = @ - 1]
  <2>1. DOMAIN u = DOMAIN s /\ u.pos = s.pos + Len(got) /\ u.stored = s.stored \o got
    BY <1>10 DEF Consumed
  <2>2. u.pos = end
    BY <1>1, <1>2, <1>4, <2>1
  <2>3. end \in from..Len(Stdin)
    BY <1>1, <1>2
  <2> QED BY <1>5, <1>6, <2>1, <2>2, <2>3 DEF Consumed
<1> QED BY <1>7, <1>8, <1>9, <1>10

ConsumedAt(from, g, k) == Consumed(from, g[1..k])

LEMMA ReadConsumes ==
  ASSUME NEW from \in Nat, NEW start, Consumed(from, start), NEW lens \in Seq(Nat)
  PROVE  Consumed(from, FoldLeft(Take, start, lens))
<1>1. PICK n \in Nat : n = Len(lens) /\ DOMAIN lens = 1..n
  OBVIOUS
<1> DEFINE g == CHOOSE g : IsTaking(g, start, lens, n)
<1>2. IsTaking(g, start, lens, n)
  BY TakingsExist
<1>3. FoldLeft(Take, start, lens) = g[1..n]
  BY <1>1, FoldIsTaking DEF IsTaking
<1> HIDE DEF g
<1> DEFINE S == {i \in Nat : i <= n => ConsumedAt(from, g, i)}
<1>4. 0 \in S
  <2>1. {} \in SUBSET (1..n) /\ 1..0 = {}
    OBVIOUS
  <2>2. g[{}] = TakeUp(g, start, lens, {})
    BY <1>2, <2>1 DEF IsTaking
  <2>3. g[{}] = start
    BY <2>2 DEF TakeUp
  <2> QED BY <2>1, <2>3 DEF ConsumedAt
<1>5. ASSUME NEW k \in Nat, k \in S PROVE k + 1 \in S
  <2> SUFFICES (k + 1 <= n) => ConsumedAt(from, g, k + 1)
    OBVIOUS
  <2> HAVE k + 1 <= n
  <2>1. 1..(k + 1) \in SUBSET (1..n) /\ k + 1 \in 1..(k + 1) /\ 1..(k + 1) # {} /\ k + 1 \in 1..n
    <3>1. k + 1 \in 1..(k + 1) /\ k + 1 \in 1..n
      OBVIOUS
    <3>2. 1..(k + 1) \subseteq 1..n
      OBVIOUS
    <3> QED BY <3>1, <3>2
  <2>2. Max(1..(k + 1)) = k + 1
    BY <2>1, GreatestIsLast
  <2>3. (1..(k + 1)) \ {k + 1} = 1..k
    OBVIOUS
  <2>4. g[1..(k + 1)] = TakeUp(g, start, lens, 1..(k + 1))
    BY <1>2, <2>1 DEF IsTaking
  <2>5. g[1..(k + 1)] = Take(g[1..k], lens[k + 1])
    BY <2>1, <2>2, <2>3, <2>4 DEF TakeUp
  <2>6. Consumed(from, g[1..k]) /\ lens[k + 1] \in Nat
    BY <1>1, <1>5, <2>1 DEF ConsumedAt
  <2> QED BY <2>5, <2>6, TakeConsumes DEF ConsumedAt
<1>6. n \in S
  <2> HIDE DEF S
  <2> QED BY <1>4, <1>5, NatSetInduction
<1>7. ConsumedAt(from, g, n)
  BY <1>6
<1> QED BY <1>3, <1>7 DEF ConsumedAt

-----------------------------------------------------------------------------
(* The calls on descriptors.                                               *)

\* The table changes and nothing else of the host.
LEMMA TableKeepsHost ==
  ASSUME HostInv, NEW code, Return(code), UNCHANGED <<tree, stdio>>, TableOK(tree, fds')
  PROVE  HostInv'
<1>1. UNCHANGED <<tree, stdinPos, received>>
  BY DEF stdio
<1> QED BY <1>1, EndKeepsHost DEF HostInv

LEMMA ContentsStay ==
  ASSUME NEW t, HostTree(t), NEW n \in Nodes, t[n].kind = "file", NEW data \in Seq(Nat), Len(data) <= MaxData
  PROVE  HostTree(WithContents(t, n, data)) /\ Grows(t, WithContents(t, n, data))
<1>1. PICK u : u = [t EXCEPT ![n] = NewFile(data)]
  OBVIOUS
<1>2. HostTree(u) /\ Grows(t, u)
  BY <1>1, ContentsFit
<1>3. WithContents(t, n, data) = u
  BY <1>1, ContentsFit
<1> QED BY <1>2, <1>3

LEMMA ContentsKeepHost ==
  ASSUME HostInv, NEW code, Return(code), UNCHANGED stdio, NEW n \in Nodes, tree[n].kind = "file",
         NEW data \in Seq(Nat), Len(data) <= MaxData, tree' = [tree EXCEPT ![n].data = data],
         TableOK(tree, fds')
  PROVE  HostInv'
<1>1. UNCHANGED <<stdinPos, received>>
  BY DEF stdio
<1>2. HostTree(tree') /\ Grows(tree, tree')
  <2>1. HostTree(tree)
    BY DEF HostInv
  <2>2. HostTree(WithContents(tree, n, data)) /\ Grows(tree, WithContents(tree, n, data))
    BY <2>1, ContentsStay
  <2>3. tree' = WithContents(tree, n, data)
    BY DEF WithContents
  <2> QED BY <2>2, <2>3
<1>3. TableOK(tree', fds')
  BY <1>2, TableGrows
<1> QED BY <1>1, <1>2, <1>3, EndKeepsHost

\* The file of a descriptor, and where it stands.
LEMMA FileParts ==
  ASSUME HostInv, IsKind(call.fd, "file")
  PROVE  /\ fds[call.fd].node \in Nodes /\ tree[fds[call.fd].node].kind = "file" /\ fds[call.fd].pos \in Nat
         /\ DataOf(call.fd) \in Seq(Nat) /\ Len(DataOf(call.fd)) <= MaxData /\ Len(DataOf(call.fd)) \in Nat
<1>1. PICK n \in Nodes : n = fds[call.fd].node /\ tree[n].kind = "file" /\ fds[call.fd].pos \in Nat
  BY KindsOfEntries
<1>2. PICK data \in Seq(Nat) : data = <<>> /\ Len(data) <= MaxData
  <2>1. <<>> \in Seq(Nat) /\ Len(<<>>) = 0 /\ 0 <= MaxData
    BY EmptySeq, BoundsAssumption
  <2> QED BY <2>1
<1>3. tree[n].data \in Seq(Nat) /\ Len(tree[n].data) <= MaxData
  BY <1>1, <1>2, ContentsFit DEF HostInv
<1>4. Len(tree[n].data) \in Nat
  BY <1>3, LenProperties
<1> QED BY <1>1, <1>3, <1>4 DEF DataOf

LEMMA SeekKeepsHost == ASSUME HostInv, FdSeek PROVE HostInv'
<1>1. CASE \E code : Refuse(code)
  BY <1>1, RefuseKeepsHost
<1>2. CASE /\ IsKind(call.fd, "file") /\ ~(call.whence \notin 0..2 \/ SeekTarget < 0)
           /\ fds' = MovedTo(call.fd, SeekTarget) /\ Return(Answer(call.delivered)) /\ UNCHANGED <<tree, stdio>>
  <2>1. call.offset \in Int
    BY DEF FdSeek, HostInv, CallInv, CallOK
  <2>2. fds[call.fd].pos \in Nat /\ Len(DataOf(call.fd)) \in Nat
    BY <1>2, FileParts
  <2>3. PICK base \in Nat :
          base = CASE call.whence = 0 -> 0 [] call.whence = 1 -> fds[call.fd].pos [] OTHER -> Len(DataOf(call.fd))
    <3>1. CASE call.whence = 0
      BY <3>1
    <3>2. CASE call.whence = 1
      BY <2>2, <3>2
    <3>3. CASE call.whence # 0 /\ call.whence # 1
      BY <2>2, <3>3
    <3> QED BY <3>1, <3>2, <3>3
  <2>4. SeekTarget = call.offset + base
    BY <2>3 DEF SeekTarget
  <2>5. SeekTarget \in Nat
    BY <1>2, <2>1, <2>4
  <2>6. TableOK(tree, fds')
    BY <1>2, <2>5, FileChangesFit DEF HostInv
  <2> QED BY <1>2, <2>6, TableKeepsHost
<1> QED BY <1>1, <1>2 DEF FdSeek

\* How many bytes a call names.
LEMMA BytesNamed ==
  ASSUME HostInv, call.op \in {"fd_read", "fd_pread", "fd_write", "fd_pwrite"}
  PROVE  /\ call.lens \in Seq(Nat) /\ FoldLeft(+, 0, call.lens) \in Nat
         /\ Payload \in Seq(Nat) /\ Len(Payload) \in Nat
<1>1. call.lens \in Seq(Nat)
  BY DEF HostInv, CallInv, CallOK
<1>2. FoldLeft(+, 0, call.lens) \in Nat
  BY <1>1, SumIsNat
<1>3. PICK n \in Nat : n = FoldLeft(+, 0, call.lens)
  BY <1>2
<1>4. Payload = [i \in 1..n |-> calls] /\ calls \in Nat
  BY <1>3 DEF Payload, HostInv, CallInv
<1>5. Payload \in Seq(Nat) /\ Len(Payload) = n
  BY <1>4, ConstantSeq
<1> QED BY <1>1, <1>2, <1>5

LEMMA ReadKeepsHost == ASSUME HostInv, FdReadFile PROVE HostInv'
<1>1. CASE FileObjection("FD_READ") # "SUCCESS"
  BY <1>1, RefuseKeepsHost DEF FdReadFile
<1>2. CASE FileObjection("FD_READ") = "SUCCESS"
  <2>1. IsKind(call.fd, "file")
    BY <1>2 DEF FileObjection
  <2>2. PICK at : at = IF IsPositional THEN call.offset ELSE fds[call.fd].pos
    OBVIOUS
  <2>3. at \in Nat
    <3>1. CASE IsPositional
      BY <2>2, <3>1 DEF IsPositional, HostInv, CallInv, CallOK
    <3>2. CASE ~IsPositional
      BY <2>1, <2>2, <3>2, FileParts
    <3> QED BY <3>1, <3>2
  <2>4. PICK n \in Nat : n = FoldLeft(+, 0, call.lens)
    BY BytesNamed DEF FdReadFile
  <2>5. PICK bytes : bytes = ReadAt(DataOf(call.fd), at, n) /\ Len(bytes) \in Nat
    BY <2>1, <2>3, FileParts, ReadAtFits
  <2>6. /\ fds' = IF IsPositional THEN fds ELSE MovedTo(call.fd, at + Len(bytes))
        /\ Return(Answer(call.delivered)) /\ UNCHANGED <<tree, stdio>>
    BY <1>2, <2>2, <2>4, <2>5 DEF FdReadFile
  <2>7. TableOK(tree, fds')
    <3>1. CASE IsPositional
      BY <2>6, <3>1 DEF HostInv
    <3>2. CASE ~IsPositional
      <4>1. PICK pos \in Nat : pos = at + Len(bytes)
        BY <2>3, <2>5
      <4> QED BY <2>1, <2>6, <3>2, <4>1, FileChangesFit DEF HostInv
    <3> QED BY <3>1, <3>2
  <2> QED BY <2>6, <2>7, TableKeepsHost
<1> QED BY <1>1, <1>2

\* A write that is not refused, at its place.
LEMMA WriteParts ==
  ASSUME HostInv, FdWriteFile, FileObjection("FD_WRITE") = "SUCCESS"
  PROVE  /\ IsKind(call.fd, "file") /\ WritePos \in Nat /\ Payload \in Seq(Nat) /\ Len(Payload) \in Nat
         /\ \A pos \in Nat : TableOK(tree, IF IsPositional THEN fds ELSE MovedTo(call.fd, pos))
<1>1. IsKind(call.fd, "file")
  BY DEF FileObjection
<1>2. Payload \in Seq(Nat) /\ Len(Payload) \in Nat
  BY BytesNamed DEF FdWriteFile
<1>3. WritePos \in Nat
  <2>1. CASE IsPositional
    BY <2>1 DEF WritePos, IsPositional, HostInv, CallInv, CallOK
  <2>2. CASE ~IsPositional
    BY <1>1, <2>2, FileParts DEF WritePos
  <2> QED BY <2>1, <2>2
<1>4. ASSUME NEW pos \in Nat PROVE TableOK(tree, IF IsPositional THEN fds ELSE MovedTo(call.fd, pos))
  <2>1. TableOK(tree, fds) /\ TableOK(tree, MovedTo(call.fd, pos))
    BY <1>1, FileChangesFit DEF HostInv
  <2> QED BY <2>1
<1> QED BY <1>1, <1>2, <1>3, <1>4

LEMMA WriteKeepsHost == ASSUME HostInv, FdWriteFile PROVE HostInv'
<1>1. CASE FileObjection("FD_WRITE") # "SUCCESS"
  BY <1>1, RefuseKeepsHost DEF FdWriteFile
<1>2. CASE FileObjection("FD_WRITE") = "SUCCESS"
  <2>1. PICK at \in Nat, bytes \in Seq(Nat) : at = WritePos /\ bytes = Payload
    BY <1>2, WriteParts
  <2>2. PICK past \in Nat : past = at + Len(bytes)
    BY LenProperties
  <2>3. CASE past > MaxData
    <3>1. /\ fds' = (IF IsPositional THEN fds ELSE MovedTo(call.fd, at))
          /\ Return("IO") /\ UNCHANGED <<tree, stdio>>
      BY <1>2, <2>1, <2>2, <2>3 DEF FdWriteFile
    <3>2. TableOK(tree, fds')
      BY <1>2, <3>1, WriteParts
    <3> QED BY <3>1, <3>2, TableKeepsHost
  <2>4. CASE ~(past > MaxData)
    <3>1. PICK n \in Nodes, old \in Seq(Nat) :
            n = fds[call.fd].node /\ old = tree[n].data /\ tree[n].kind = "file" /\ Len(old) <= MaxData
      BY <1>2, WriteParts, FileParts DEF DataOf
    <3>2. PICK data : data = WriteAt(old, at, bytes)
      OBVIOUS
    <3>3. data \in Seq(Nat) /\ Len(data) <= MaxData
      <4>1. at + Len(bytes) <= MaxData
        BY <2>2, <2>4, BoundsAssumption
      <4> QED BY <3>1, <3>2, <4>1, WriteAtFits
    <3>4. /\ tree' = [tree EXCEPT ![fds[call.fd].node].data = WriteAt(@, WritePos, Payload)]
          /\ fds' = IF IsPositional THEN fds ELSE MovedTo(call.fd, past)
          /\ Return(Answer(call.delivered)) /\ UNCHANGED stdio
      BY <1>2, <2>1, <2>2, <2>4 DEF FdWriteFile
    <3>5. tree' = [tree EXCEPT ![n].data = data]
      BY <2>1, <3>1, <3>2, <3>4
    <3>6. TableOK(tree, fds')
      BY <1>2, <3>4, WriteParts
    <3> QED BY <3>1, <3>3, <3>4, <3>5, <3>6, ContentsKeepHost
  <2> QED BY <2>3, <2>4
<1> QED BY <1>1, <1>2

LEMMA SetSizeKeepsHost == ASSUME HostInv, FdFilestatSetSize PROVE HostInv'
<1>1. CASE \E code : Refuse(code)
  BY <1>1, RefuseKeepsHost
<1>2. CASE /\ IsKind(call.fd, "file") /\ ~(call.offset > MaxData)
           /\ tree' = [tree EXCEPT ![fds[call.fd].node].data = Resized(@, call.offset)]
           /\ Return("SUCCESS") /\ UNCHANGED <<fds, stdio>>
  <2>1. PICK n \in Nodes, old \in Seq(Nat) : n = fds[call.fd].node /\ old = tree[n].data /\ tree[n].kind = "file"
    BY <1>2, FileParts DEF DataOf
  <2>2. PICK len \in Nat : len = call.offset /\ len <= MaxData
    <3>1. call.offset \in Nat
      BY DEF FdFilestatSetSize, HostInv, CallInv, CallOK
    <3> QED BY <1>2, <3>1, BoundsAssumption
  <2>3. PICK data \in Seq(Nat) : data = Resized(old, len) /\ Len(data) <= MaxData
    BY <2>2, ResizedFits
  <2>4. tree' = [tree EXCEPT ![n].data = data]
    BY <1>2, <2>1, <2>2, <2>3
  <2>5. UNCHANGED stdio /\ TableOK(tree, fds')
    BY <1>2 DEF HostInv
  <2> QED BY <1>2, <2>1, <2>3, <2>4, <2>5, ContentsKeepHost
<1> QED BY <1>1, <1>2 DEF FdFilestatSetSize

LEMMA StdinKeepsHost == ASSUME HostInv, FdReadStdin PROVE HostInv'
<1>1. CASE \E code : Refuse(code)
  BY <1>1, RefuseKeepsHost
<1>2. CASE ~(\E code : Refuse(code))
  <2>1. PICK lens \in Seq(Nat) : lens = call.lens
    BY BytesNamed DEF FdReadStdin
  <2>2. PICK start : start = [pos |-> stdinPos, stored |-> <<>>, fit |-> call.fit, over |-> FALSE, ok |-> TRUE]
    OBVIOUS
  <2>3. PICK s : s = FoldLeft(Take, start, lens)
    OBVIOUS
  <2>4. /\ stdinPos' = s.pos /\ received' = received \o s.stored
        /\ (\E code : Return(code)) /\ UNCHANGED files
    BY <1>2, <2>1, <2>2, <2>3 DEF FdReadStdin
  <2>5. PICK from \in Nat : from = stdinPos /\ from \in 0..Len(Stdin)
    BY StdinAssumption DEF HostInv, StdinInv
  <2>6. Consumed(from, start)
    <3>1. SubSeq(Stdin, from + 1, from) = <<>>
      BY SubSeqEmpty
    <3>2. Len(Stdin) \in Nat /\ from \in from..Len(Stdin)
      BY <2>5, StdinAssumption
    <3>3. DOMAIN start = {"pos", "stored", "fit", "over", "ok"}
      BY <2>2
    <3> QED BY <2>2, <2>5, <3>1, <3>2, <3>3 DEF Consumed
  <2>7. Consumed(from, s)
    BY <2>3, <2>6, ReadConsumes
  <2>8. stdinPos' \in 0..Len(Stdin) /\ received' = SubSeq(Stdin, 1, stdinPos')
    <3>1. PICK end \in Nat : end = s.pos /\ from <= end /\ end <= Len(Stdin)
      BY <2>5, <2>7, StdinAssumption DEF Consumed
    <3>2. received' = SubSeq(Stdin, 1, from) \o SubSeq(Stdin, from + 1, end)
      BY <2>4, <2>5, <2>7, <3>1 DEF Consumed, HostInv, StdinInv
    <3>3. 1 \in 1..(Len(Stdin) + 1) /\ from \in (1 - 1)..Len(Stdin) /\ end \in from..Len(Stdin)
      BY <2>5, <3>1, StdinAssumption
    <3>4. SubSeq(Stdin, 1, from) \o SubSeq(Stdin, from + 1, end) = SubSeq(Stdin, 1, end)
      BY <3>3, ConcatAdjacentSubSeq, StdinAssumption
    <3>5. end \in 0..Len(Stdin)
      BY <3>1
    <3> QED BY <2>4, <3>1, <3>2, <3>4, <3>5
  <2>9. CallInv'
    BY <2>4, ReturnKeepsCall DEF HostInv
  <2> QED BY <2>4, <2>8, <2>9 DEF HostInv, StdinInv, files
<1> QED BY <1>1, <1>2

LEMMA FdCallsKeepHost == ASSUME HostInv, RightsInv, FdCalls PROVE HostInv'
<1>1. TableOK(tree, fds)
  BY DEF HostInv
<1>2. CASE FdClose
  <2>1. TableOK(tree, Closing(call.fd))
    BY <1>1, ClosingFits
  <2> QED BY <1>2, <2>1, RefuseKeepsHost, TableKeepsHost DEF FdClose
<1>3. CASE FdRenumber
  <2>1. CASE IsOpen(call.fd) /\ call.fd2 \in 0..MaxFd
    <3>1. call.fd \in DOMAIN fds /\ call.fd2 \in Nat
      BY <2>1 DEF IsOpen
    <3>2. TableOK(tree, Renumbered(call.fd, call.fd2))
      BY <1>1, <3>1, RenumberedFits
    <3> QED BY <1>3, <2>1, <3>2, TableKeepsHost DEF FdRenumber
  <2>2. CASE ~(IsOpen(call.fd) /\ call.fd2 \in 0..MaxFd)
    BY <1>3, <2>2, RefuseKeepsHost DEF FdRenumber
  <2> QED BY <2>1, <2>2
<1>4. CASE FdFdstatSetFlags
  <2>1. CASE IsKind(call.fd, "file")
    <3>1. 0 \in Nat
      OBVIOUS
    <3>2. \A append : TableOK(tree, [fds EXCEPT ![call.fd].append = append])
      BY <1>1, <2>1, <3>1, FileChangesFit
    <3>3. fds' = [fds EXCEPT ![call.fd].append = call.append] /\ Return("SUCCESS") /\ UNCHANGED <<tree, stdio>>
      BY <1>4, <2>1 DEF FdFdstatSetFlags
    <3>4. TableOK(tree, fds')
      BY <3>2, <3>3
    <3> QED BY <3>3, <3>4, TableKeepsHost
  <2>2. CASE ~IsKind(call.fd, "file")
    BY <1>4, <2>2, RefuseKeepsHost DEF FdFdstatSetFlags
  <2> QED BY <2>1, <2>2
<1>5. CASE FdSeek \/ FdReadFile \/ FdWriteFile \/ FdFilestatSetSize \/ FdReadStdin
  BY <1>5, SeekKeepsHost, ReadKeepsHost, WriteKeepsHost, SetSizeKeepsHost, StdinKeepsHost
<1>6. CASE Query
  BY <1>6, RefuseKeepsHost DEF Query
<1>7. CASE FdWriteStream \/ ProcExit
  <2>1. (\E code : Refuse(code)) \/ ((\E code : Return(code)) /\ UNCHANGED <<files, stdinPos, received>>)
    BY <1>7 DEF FdWriteStream, ProcExit
  <2>2. CASE (\E code : Return(code)) /\ UNCHANGED <<files, stdinPos, received>>
    BY <2>2, EndKeepsHost DEF HostInv, files
  <2> QED BY <2>1, <2>2, RefuseKeepsHost
<1> QED BY <1>2, <1>3, <1>4, <1>5, <1>6, <1>7 DEF FdCalls

LEMMA NextKeepsHost == ASSUME HostInv, RightsInv, [Next]_vars PROVE HostInv'
<1>1. CASE Host
  BY <1>1, ResolveCallKeepsHost, WalkStepsKeepHost, PathCallsKeepHost, FdCallsKeepHost DEF Host
<1>2. CASE UNCHANGED vars
  <2>1. UNCHANGED <<tree, fds, call, walk, found, calls, stdinPos, received>>
    BY <1>2 DEF vars
  <2>2. CallInv'
    BY <2>1 DEF HostInv, CallInv, WalksFit, IsPathCall, Walks
  <2> QED BY <2>1, <2>2 DEF HostInv, StdinInv
<1> QED BY <1>1, <1>2, GuestKeepsHost DEF Next

\* Whatever the guest calls, the host's tree stays one that a host can have: what
\* a directory lists is there and no file passes the bound.  The descriptor table
\* has no gaps, and a file that a descriptor has open stays a file.
THEOREM HostStaysTyped == Spec => []TypeOK
<1>1. Init => RightsInv /\ HostInv
  BY InitRights, InitHost
<1>2. (RightsInv /\ HostInv) /\ [Next]_vars => (RightsInv /\ HostInv)'
  BY NextKeepsRights, NextKeepsHost
<1>3. RightsInv /\ HostInv => TypeOK
  BY HostInvTypes
<1> QED BY <1>1, <1>2, <1>3, PTL DEF Spec

\* fs.rs computes paths and hands them to the host, where a host with openat would
\* hold a handle per component.  The computed path leads where the handles are,
\* below the directory the walk started in, for every tree of links, whatever the
\* components: what verify_beneath finds out after the walk always holds.
THEOREM WalksNeverEscape == Spec => []WalksStayBeneath
<1>1. Init => RightsInv /\ HostInv
  BY InitRights, InitHost
<1>2. (RightsInv /\ HostInv) /\ [Next]_vars => (RightsInv /\ HostInv)'
  BY NextKeepsRights, NextKeepsHost
<1>3. RightsInv /\ HostInv => WalksStayBeneath
  BY HostInvBeneath
<1> QED BY <1>1, <1>2, <1>3, PTL DEF Spec

\* fd_read moves stdin on by the bytes that reached guest memory and no others,
\* whatever buffers were empty or out of bounds: nothing is lost or read twice.
THEOREM StdinIsNeverLost == Spec => []StdinIsConsumedOnceDelivered
<1>1. Init => RightsInv /\ HostInv
  BY InitRights, InitHost
<1>2. (RightsInv /\ HostInv) /\ [Next]_vars => (RightsInv /\ HostInv)'
  BY NextKeepsRights, NextKeepsHost
<1>3. RightsInv /\ HostInv => StdinIsConsumedOnceDelivered
  BY DEF HostInv, StdinInv, StdinIsConsumedOnceDelivered
<1> QED BY <1>1, <1>2, <1>3, PTL DEF Spec

-----------------------------------------------------------------------------
(* Appending.                                                              *)

LEMMA PrefixOfItself == ASSUME NEW data \in Seq(Nat) PROVE IsPrefix(data, data)
<1>1. Len(data) \in Nat
  BY LenProperties
<1> QED BY <1>1 DEF IsPrefix

\* While a call on a file is to be done, nothing else is.
LEMMA OnlyTheWrite ==
  ASSUME HostInv, Next, call.op = "fd_write", ~IsStdio(call.fd)
  PROVE  FdWriteFile
<1>1. ~IsPathCall /\ ~Walking
  <2>1. ~IsPathCall
    BY DEF IsPathCall, Needs
  <2>2. walk = NoWalk
    BY <2>1 DEF HostInv, CallInv, WalksFit
  <2> QED BY <2>1, <2>2 DEF Walking, NoWalk
<1>2. ~Guest
  BY DEF Guest, Issue, NoCall
<1>3. ~ResolveCall
  BY <1>1 DEF ResolveCall
<1>4. ~WalkSteps
  BY <1>1 DEF WalkSteps, SkipComponent, Climb, RefuseComponent, ProbeFails, FollowLink, IsLinkToFollow,
              NotADirectory, Descend, Arrive, ArriveAtDirectory, AtName
<1>5. ~PathCalls
  BY DEF PathCalls, PathOpenRefused, PathOpenDirectory, PathOpenFile, PathCreateDirectory, PathRemoveDirectory,
         PathUnlinkFile, PathSymlink, PathRename, PathLink, PathFilestatGet, PathReadlink, Ready
<1>6. FdCalls
  BY <1>2, <1>3, <1>4, <1>5 DEF Next, Host
<1>7. ~(FdClose \/ FdRenumber \/ FdFdstatSetFlags \/ FdSeek \/ FdReadFile \/ FdFilestatSetSize \/ Query
        \/ FdReadStdin \/ FdWriteStream \/ ProcExit)
  BY DEF FdClose, FdRenumber, FdFdstatSetFlags, FdSeek, FdReadFile, FdFilestatSetSize, Query, Effectful,
         FdReadStdin, FdWriteStream, ProcExit
<1> QED BY <1>6, <1>7 DEF FdCalls

\* The file of a descriptor in append mode that is written to.
LEMMA AppendsKeepData ==
  ASSUME HostInv, FdWriteFile, call.op = "fd_write", IsKind(call.fd, "file"), fds[call.fd].append
  PROVE  IsPrefix(DataOf(call.fd), tree'[fds[call.fd].node].data)
<1>1. PICK n \in Nodes, old \in Seq(Nat) :
        n = fds[call.fd].node /\ old = tree[n].data /\ tree[n].kind = "file" /\ Len(old) <= MaxData
  BY FileParts DEF DataOf
<1>2. n \in DOMAIN tree /\ old = DataOf(call.fd)
  BY <1>1 DEF DataOf, HostInv, HostTree, WellFormed
<1>3. CASE UNCHANGED tree
  BY <1>1, <1>2, <1>3, PrefixOfItself
<1>4. CASE ~(UNCHANGED tree)
  <2>1. FileObjection("FD_WRITE") = "SUCCESS"
    BY <1>4 DEF FdWriteFile, Refuse, files
  <2>2. PICK at \in Nat, bytes \in Seq(Nat) : at = WritePos /\ bytes = Payload
    BY <2>1, WriteParts
  <2>3. at = Len(old)
    BY <1>2, <2>2 DEF WritePos, IsPositional
  <2>4. ~(at + Len(bytes) > MaxData) /\ tree' = [tree EXCEPT ![n].data = WriteAt(@, at, bytes)]
    BY <1>1, <1>4, <2>1, <2>2 DEF FdWriteFile
  <2>5. at + Len(bytes) <= MaxData
    <3>1. Len(bytes) \in Nat
      BY LenProperties
    <3> QED BY <2>4, <3>1, BoundsAssumption
  <2>6. PICK data \in Seq(Nat) : data = WriteAt(old, at, bytes) /\ Len(data) <= MaxData /\ IsPrefix(old, data)
    BY <1>1, <2>3, <2>5, WriteAtFits
  <2>7. tree'[n].data = data
    <3>1. HostTree(tree)
      BY DEF HostInv
    <3>2. tree[n] \in FileNodes
      BY <1>1, <3>1, HostTreeFits DEF Fits, FileNodes, LinkNodes, Lists, Free
    <3>3. tree' = [tree EXCEPT ![n].data = data]
      BY <1>1, <2>4, <2>6
    <3> QED BY <1>2, <3>2, <3>3 DEF FileNodes
  <2> QED BY <1>1, <1>2, <2>6, <2>7
<1> QED BY <1>3, <1>4

\* Append mode keeps what the file holds, whatever other descriptors wrote to it
\* since and wherever the cursor is: fs.rs seeks the end in the same call.
THEOREM AppendsKeep == Spec => AppendNeverOverwrites
<1> DEFINE Appending == call.op = "fd_write" /\ IsKind(call.fd, "file") /\ fds[call.fd].append /\ ~IsStdio(call.fd)
           Keeping == Appending => IsPrefix(DataOf(call.fd), tree'[fds[call.fd].node].data)
<1>1. Init => RightsInv /\ HostInv
  BY InitRights, InitHost
<1>2. (RightsInv /\ HostInv) /\ [Next]_vars => (RightsInv /\ HostInv)'
  BY NextKeepsRights, NextKeepsHost
<1>3. (RightsInv /\ HostInv) /\ [Next]_vars => [Keeping]_vars
  <2> SUFFICES ASSUME HostInv, Next, Appending PROVE IsPrefix(DataOf(call.fd), tree'[fds[call.fd].node].data)
    OBVIOUS
  <2> QED BY OnlyTheWrite, AppendsKeepData
<1> QED BY <1>1, <1>2, <1>3, PTL DEF Spec, AppendNeverOverwrites

-----------------------------------------------------------------------------
(* The descriptors of Capabilities.                                        *)

\* What the table is to Capabilities.  What the directories hold is left out.
IsCapability(e) == e.kind = "dir" \/ e.kind = "file"
HeldIn(table) == [fd \in {x \in DOMAIN table : IsCapability(table[x])} |-> Capability(table[fd])]
Held == HeldIn(fds)
Descriptors == INSTANCE Capabilities WITH
  Grant <- [g \in DOMAIN Grants |-> Grants[g].rights],
  Mutating <- WriteMask,
  held <- Held,
  content <- <<>>

LEMMA HeldParts ==
  ASSUME NEW table
  PROVE  /\ \A fd : fd \in DOMAIN HeldIn(table) <=> fd \in DOMAIN table /\ IsCapability(table[fd])
         /\ \A fd \in DOMAIN HeldIn(table) : HeldIn(table)[fd] = Capability(table[fd])
BY DEF HeldIn

\* Two tables that differ in what is no part of a capability.
LEMMA SameHeld ==
  ASSUME NEW s, NEW u, DOMAIN s = DOMAIN u,
         \A fd \in DOMAIN s : /\ IsCapability(s[fd]) <=> IsCapability(u[fd])
                              /\ IsCapability(s[fd]) => Capability(s[fd]) = Capability(u[fd])
  PROVE  HeldIn(s) = HeldIn(u)
BY DEF HeldIn

WithMode(n, x) == [fds EXCEPT ![n].append = x]

LEMMA ChangedFile ==
  ASSUME HostInv, NEW n, IsKind(n, "file"), NEW x
  PROVE  HeldIn(MovedTo(n, x)) = Held /\ HeldIn(WithMode(n, x)) = Held
<1>1. n \in DOMAIN fds /\ fds[n].kind = "file" /\ WholeFile(fds[n])
  BY KindsOfEntries DEF IsKind, IsOpen
<1>2. PICK e : e = fds[n]
  OBVIOUS
<1>3. PICK p : p = [e EXCEPT !.pos = x]
  OBVIOUS
<1>4. PICK a : a = [e EXCEPT !.append = x]
  OBVIOUS
<1>5. PICK nn, aa, pp, bb, ii, gg :
        e = [kind |-> "file", node |-> nn, append |-> aa, pos |-> pp, base |-> bb, inh |-> ii, grant |-> gg]
  BY <1>1, <1>2 DEF WholeFile
<1>6. /\ p = [kind |-> "file", node |-> nn, append |-> aa, pos |-> x, base |-> bb, inh |-> ii, grant |-> gg]
      /\ a = [kind |-> "file", node |-> nn, append |-> x, pos |-> pp, base |-> bb, inh |-> ii, grant |-> gg]
  BY <1>3, <1>4, <1>5
<1>7. /\ IsCapability(e) /\ IsCapability(p) /\ IsCapability(a)
      /\ Capability(p) = Capability(e) /\ Capability(a) = Capability(e)
  BY <1>5, <1>6 DEF IsCapability, Capability
<1>8. ASSUME NEW y, IsCapability(y), Capability(y) = Capability(e) PROVE HeldIn([fds EXCEPT ![n] = y]) = Held
  <2>1. PICK u : u = [fds EXCEPT ![n] = y]
    OBVIOUS
  <2>2. DOMAIN u = DOMAIN fds /\ u[n] = y /\ \A fd \in DOMAIN fds : fd # n => u[fd] = fds[fd]
    BY <1>1, <2>1
  <2>3. HeldIn(u) = HeldIn(fds)
    BY <1>2, <1>7, <1>8, <2>2, SameHeld
  <2> QED BY <2>1, <2>3 DEF Held
<1>9. MovedTo(n, x) = [fds EXCEPT ![n] = p]
  BY <1>1, <1>2, <1>3 DEF MovedTo
<1>10. WithMode(n, x) = [fds EXCEPT ![n] = a]
  BY <1>1, <1>2, <1>4 DEF WithMode
<1> QED BY <1>7, <1>8, <1>9, <1>10

LEMMA TableEnds == ASSUME HostInv PROVE Size \notin DOMAIN fds
<1>1. PICK n \in Nat : DOMAIN fds = 0..(n - 1)
  BY DEF HostInv, TableOK
<1>2. 0 \in Int /\ n - 1 \in Int
  OBVIOUS
<1>3. Cardinality(0..(n - 1)) = IF 0 <= n - 1 THEN (n - 1) - 0 + 1 ELSE 0
  BY <1>2, FS_Interval
<1>4. Cardinality(0..(n - 1)) = n
  BY <1>3
<1> QED BY <1>1, <1>4 DEF Size

\* What a table holds at a number that is free, or is no longer.
LEMMA NewHeld ==
  ASSUME HostInv, NEW e, IsCapability(e)
  PROVE  /\ NewFd \notin DOMAIN Held
         /\ DOMAIN HeldIn(Insert(e)) = DOMAIN Held \cup {NewFd}
         /\ HeldIn(Insert(e))[NewFd] = Capability(e)
         /\ \A x \in DOMAIN Held : HeldIn(Insert(e))[x] = Held[x]
<1>1. PICK at : at = NewFd
  OBVIOUS
<1>2. at \in DOMAIN fds => fds[at].kind = "closed"
  <2>1. CASE {fd \in DOMAIN fds : ~IsOpen(fd)} = {}
    <3>1. at = Size
      BY <1>1, <2>1 DEF NewFd
    <3>2. at \notin DOMAIN fds
      BY <3>1, TableEnds
    <3> QED BY <3>2
  <2>2. CASE {fd \in DOMAIN fds : ~IsOpen(fd)} # {}
    <3>1. PICK n \in Nat : DOMAIN fds = 0..(n - 1)
      BY DEF HostInv, TableOK
    <3>2. PICK holes : holes = {fd \in DOMAIN fds : ~IsOpen(fd)}
      OBVIOUS
    <3>3. holes \in SUBSET Nat
      BY <3>1, <3>2
    <3>4. PICK x \in holes : \A y \in holes : x <= y
      BY <2>2, <3>2, <3>3, LeastNumber
    <3>5. at = CHOOSE fd \in holes : \A other \in holes : fd <= other
      BY <1>1, <2>2, <3>2 DEF NewFd
    <3>6. at \in holes
      BY <3>4, <3>5
    <3> QED BY <3>2, <3>6 DEF IsOpen
  <2> QED BY <2>1, <2>2
<1>3. PICK u : u = Insert(e)
  OBVIOUS
<1>4. DOMAIN u = DOMAIN fds \cup {at} /\ u[at] = e /\ \A fd \in DOMAIN fds : fd # at => u[fd] = fds[fd]
  BY <1>1, <1>3 DEF Insert
<1>5. at \notin DOMAIN Held
  BY <1>2, HeldParts DEF Held, IsCapability
<1>6. \A x : x \in DOMAIN HeldIn(u) <=> x \in DOMAIN Held \cup {at}
  BY <1>2, <1>4, HeldParts DEF Held, IsCapability
<1>7. HeldIn(u)[at] = Capability(e)
  BY <1>4, <1>6, HeldParts
<1>8. ASSUME NEW x \in DOMAIN Held PROVE HeldIn(u)[x] = Held[x]
  <2>1. x # at /\ x \in DOMAIN fds
    BY <1>5, HeldParts DEF Held
  <2>2. u[x] = fds[x]
    BY <1>4, <2>1
  <2>3. HeldIn(u)[x] = Capability(u[x]) /\ Held[x] = Capability(fds[x])
    BY <1>6, HeldParts DEF Held
  <2> QED BY <2>2, <2>3
<1> QED BY <1>1, <1>3, <1>5, <1>6, <1>7, <1>8

LEMMA ClosedHeld ==
  ASSUME NEW n
  PROVE  /\ DOMAIN HeldIn(Closing(n)) = DOMAIN Held \ {n}
         /\ \A x \in DOMAIN HeldIn(Closing(n)) : HeldIn(Closing(n))[x] = Held[x]
<1>1. PICK u : u = Closing(n)
  OBVIOUS
<1>2. DOMAIN u = DOMAIN fds /\ \A x \in DOMAIN fds : u[x] = IF x = n THEN Closed ELSE fds[x]
  BY <1>1 DEF Closing
<1>3. ~IsCapability(Closed)
  BY DEF IsCapability, Closed
<1>4. \A x : x \in DOMAIN HeldIn(u) <=> x \in DOMAIN Held \ {n}
  BY <1>2, <1>3, HeldParts DEF Held
<1>5. ASSUME NEW x \in DOMAIN HeldIn(u) PROVE HeldIn(u)[x] = Held[x]
  <2>1. x # n /\ x \in DOMAIN fds
    BY <1>4, HeldParts DEF Held
  <2>2. u[x] = fds[x]
    BY <1>2, <2>1
  <2>3. HeldIn(u)[x] = Capability(u[x]) /\ Held[x] = Capability(fds[x])
    BY <1>4, HeldParts DEF Held
  <2> QED BY <2>2, <2>3
<1> QED BY <1>1, <1>4, <1>5

Moved(h, from, to) ==
  /\ DOMAIN h = (DOMAIN Held \ {from}) \cup {to}
  /\ \A x \in DOMAIN h : h[x] = IF x = to THEN Held[from] ELSE Held[x]
Dropped(h, fd) == DOMAIN h = DOMAIN Held \ {fd} /\ \A x \in DOMAIN h : h[x] = Held[x]

LEMMA MovedHeld ==
  ASSUME NEW from \in DOMAIN fds, NEW to \in Nat
  PROVE  IF from \in DOMAIN Held THEN Moved(HeldIn(Renumbered(from, to)), from, to)
                                 ELSE Dropped(HeldIn(Renumbered(from, to)), to)
<1>1. PICK u : u = Renumbered(from, to)
  OBVIOUS
<1>2. to \in 0..to
  OBVIOUS
<1>3. /\ DOMAIN u = DOMAIN fds \cup 0..to
      /\ \A x \in DOMAIN u : u[x] = IF x = to THEN fds[from]
                                    ELSE IF x = from \/ x \notin DOMAIN fds THEN Closed ELSE fds[x]
  BY <1>1 DEF Renumbered
<1>4. ~IsCapability(Closed)
  BY DEF IsCapability, Closed
<1>5. \A x : x \in DOMAIN Held <=> x \in DOMAIN fds /\ IsCapability(fds[x])
  BY HeldParts DEF Held
<1>6. ASSUME NEW x
      PROVE x \in DOMAIN HeldIn(u) <=> IF x = to THEN from \in DOMAIN Held ELSE x # from /\ x \in DOMAIN Held
  <2>1. x \in DOMAIN HeldIn(u) <=> x \in DOMAIN u /\ IsCapability(u[x])
    BY HeldParts
  <2>2. CASE x = to
    BY <1>2, <1>3, <1>5, <2>1, <2>2
  <2>3. CASE x # to
    BY <1>3, <1>4, <1>5, <2>1, <2>3
  <2> QED BY <2>2, <2>3
<1>7. ASSUME NEW x \in DOMAIN HeldIn(u) PROVE HeldIn(u)[x] = IF x = to THEN Held[from] ELSE Held[x]
  <2>1. x \in DOMAIN u /\ HeldIn(u)[x] = Capability(u[x])
    BY HeldParts
  <2>2. \A y \in DOMAIN Held : Held[y] = Capability(fds[y])
    BY HeldParts DEF Held
  <2>3. CASE x = to
    <3>1. u[x] = fds[from] /\ from \in DOMAIN Held
      BY <1>3, <1>6, <2>1, <2>3
    <3> QED BY <2>1, <2>2, <2>3, <3>1
  <2>4. CASE x # to
    <3>1. x # from /\ x \in DOMAIN Held /\ x \in DOMAIN fds
      BY <1>5, <1>6, <2>4
    <3>2. u[x] = fds[x]
      BY <1>3, <2>1, <2>4, <3>1
    <3> QED BY <2>1, <2>2, <2>4, <3>1, <3>2
  <2> QED BY <2>3, <2>4
<1>8. ASSUME from \in DOMAIN Held PROVE DOMAIN HeldIn(u) = (DOMAIN Held \ {from}) \cup {to}
  BY <1>6, <1>8
<1>9. ASSUME from \notin DOMAIN Held
      PROVE DOMAIN HeldIn(u) = DOMAIN Held \ {to} /\ \A x \in DOMAIN HeldIn(u) : HeldIn(u)[x] = Held[x]
  <2>1. \A x : x \in DOMAIN HeldIn(u) <=> x \in DOMAIN Held \ {to}
    BY <1>6, <1>9
  <2> QED BY <1>7, <2>1
<1> QED BY <1>1, <1>7, <1>8, <1>9 DEF Moved, Dropped

-----------------------------------------------------------------------------
(* Its steps.                                                              *)

HeldStep == Descriptors!Next \/ Held' = Held

LEMMA SameTable == ASSUME fds' = fds PROVE HeldStep
  BY DEF HeldStep, Held

LEMMA Deriving ==
  ASSUME HostInv, NEW e, IsCapability(e), fds' = Insert(e), NEW d \in DOMAIN Held,
         Capability(e).grant = Held[d].grant,
         Capability(e).base \subseteq Held[d].inh, Capability(e).inh \subseteq Held[d].inh
  PROVE  HeldStep
<1>1. Held' = HeldIn(Insert(e))
  BY DEF Held
<1>2. PICK h, at : h = Held' /\ at = NewFd
  OBVIOUS
<1>3. /\ at \notin DOMAIN Held /\ DOMAIN h = DOMAIN Held \cup {at} /\ h[at] = Capability(e)
      /\ \A x \in DOMAIN Held : h[x] = Held[x]
  BY <1>1, <1>2, NewHeld
<1>4. /\ at \in DOMAIN h \ DOMAIN Held
      /\ h[at].grant = Held[d].grant /\ h[at].base \subseteq Held[d].inh /\ h[at].inh \subseteq Held[d].inh
  BY <1>3
<1>5. Descriptors!Derive
  BY <1>2, <1>3, <1>4 DEF Descriptors!Derive, Descriptors!Changes
<1> QED BY <1>5 DEF HeldStep, Descriptors!Next

LEMMA Dropping ==
  ASSUME NEW n, DOMAIN Held' = DOMAIN Held \ {n}, \A x \in DOMAIN Held' : Held'[x] = Held[x]
  PROVE  HeldStep
<1>1. CASE n \in DOMAIN Held
  <2>1. Descriptors!Drop
    BY <1>1 DEF Descriptors!Drop
  <2> QED BY <2>1 DEF HeldStep, Descriptors!Next
<1>2. CASE n \notin DOMAIN Held
  <2>1. DOMAIN Held' = DOMAIN Held
    BY <1>2
  <2>2. Held = [x \in DOMAIN Held |-> Held[x]] /\ Held' = [x \in DOMAIN Held' |-> Held'[x]]
    BY DEF Held, HeldIn
  <2>3. Held' = Held
    BY <2>1, <2>2
  <2> QED BY <2>3 DEF HeldStep
<1> QED BY <1>1, <1>2

LEMMA Renumbering ==
  ASSUME NEW from \in DOMAIN fds, NEW to \in Nat, fds' = Renumbered(from, to)
  PROVE  HeldStep
<1>1. Held' = HeldIn(Renumbered(from, to))
  BY DEF Held
<1>2. CASE from \in DOMAIN Held
  <2>1. PICK h : h = Held'
    OBVIOUS
  <2>2. Moved(h, from, to)
    BY <1>1, <1>2, <2>1, MovedHeld
  <2>3. to \in DOMAIN h
    BY <2>2 DEF Moved
  <2>4. Descriptors!Move
    BY <1>2, <2>1, <2>2, <2>3 DEF Descriptors!Move, Moved
  <2> QED BY <2>4 DEF HeldStep, Descriptors!Next
<1>3. CASE from \notin DOMAIN Held
  <2>1. PICK h : h = HeldIn(Renumbered(from, to))
    OBVIOUS
  <2>2. Dropped(h, to)
    BY <1>3, <2>1, MovedHeld
  <2>3. Held' = h
    BY <1>1, <2>1
  <2> QED BY <2>2, <2>3, Dropping DEF Dropped
<1> QED BY <1>2, <1>3

LEMMA WalkingHolds == ASSUME Guest \/ ResolveCall \/ WalkSteps PROVE fds' = fds
<1>1. CASE Guest
  BY <1>1 DEF Guest, Issue, files
<1>2. CASE ResolveCall
  BY <1>2 DEF ResolveCall, Refuse, files
<1>3. CASE WalkSteps
  <2>1. ASSUME NEW code, Refuse(code) PROVE fds' = fds
    BY <2>1 DEF Refuse, files
  <2>2. ASSUME NEW w, WalkStep(w) PROVE fds' = fds
    BY <2>2 DEF WalkStep, files
  <2>3. ASSUME NEW result, Arrived(result) PROVE fds' = fds
    BY <2>1, <2>3 DEF Arrived, files
  <2>4. CASE SkipComponent \/ Descend
    BY <2>2, <2>4 DEF SkipComponent, Descend
  <2>5. CASE Climb
    BY <2>1, <2>2, <2>5 DEF Climb
  <2>6. CASE FollowLink
    <3>1. (\E code : Refuse(code)) \/ \E w : WalkStep(w)
      BY <2>6 DEF FollowLink
    <3> QED BY <2>1, <2>2, <3>1
  <2>7. CASE RefuseComponent \/ ProbeFails \/ NotADirectory
    BY <2>1, <2>7 DEF RefuseComponent, ProbeFails, NotADirectory
  <2>8. CASE Arrive \/ ArriveAtDirectory
    BY <2>3, <2>8 DEF Arrive, ArriveAtDirectory
  <2> QED BY <1>3, <2>4, <2>5, <2>6, <2>7, <2>8 DEF WalkSteps
<1> QED BY <1>1, <1>2, <1>3

\* path_open gives what the directory passes down and no more.
LEMMA OpeningDerives ==
  ASSUME HostInv, RightsInv, Ready("path_open"), NEW e, fds' = Insert(e), IsCapability(e),
         Capability(e) = [grant |-> fds[call.fd].grant, base |-> NewBase, inh |-> NewInh]
  PROVE  HeldStep
<1>1. call.op = "path_open" /\ found # <<>>
  BY DEF Ready, Needs
<1>2. IsKind(call.fd, "dir")
  BY <1>1 DEF RightsInv, OpensFromADirectory
<1>3. PICK d : d = call.fd
  OBVIOUS
<1>4. d \in DOMAIN Held /\ Held[d] = Capability(fds[d])
  BY <1>2, <1>3, HeldParts DEF Held, IsKind, IsOpen, IsCapability
<1>5. Held[d].grant = fds[d].grant /\ Held[d].inh = fds[d].inh
  BY <1>4 DEF Capability
<1>6. /\ Capability(e).grant = Held[d].grant
      /\ Capability(e).base \subseteq Held[d].inh /\ Capability(e).inh \subseteq Held[d].inh
  BY <1>3, <1>5 DEF NewBase, NewInh
<1> QED BY <1>4, <1>6, Deriving

LEMMA PathCallsDerive == ASSUME HostInv, RightsInv, PathCalls PROVE HeldStep
<1>1. CASE PathOpenDirectory
  <2>1. PICK e : e = DirFd(Target, FALSE, NewBase, NewInh, fds[call.fd].grant)
    OBVIOUS
  <2>2. Ready("path_open") /\ fds' = Insert(e)
    BY <1>1, <2>1 DEF PathOpenDirectory
  <2>3. IsCapability(e) /\ Capability(e) = [grant |-> fds[call.fd].grant, base |-> NewBase, inh |-> NewInh]
    BY <2>1 DEF DirFd, IsCapability, Capability
  <2> QED BY <2>2, <2>3, OpeningDerives
<1>2. CASE PathOpenFile
  <2>1. CASE Opened.code = "SUCCESS"
    <3>1. PICK e : e = FileFd(OpenedNode, call.append, NewBase, NewInh, fds[call.fd].grant)
      OBVIOUS
    <3>2. Ready("path_open") /\ fds' = Insert(e)
      BY <1>2, <2>1, <3>1 DEF PathOpenFile
    <3>3. IsCapability(e) /\ Capability(e) = [grant |-> fds[call.fd].grant, base |-> NewBase, inh |-> NewInh]
      BY <3>1 DEF FileFd, IsCapability, Capability
    <3> QED BY <3>2, <3>3, OpeningDerives
  <2>2. CASE Opened.code # "SUCCESS"
    BY <1>2, <2>2, SameTable DEF PathOpenFile
  <2> QED BY <2>1, <2>2
<1>3. ASSUME NEW result, HostChange(result) PROVE HeldStep
  BY <1>3, SameTable DEF HostChange
<1>4. CASE PathCreateDirectory \/ PathRemoveDirectory \/ PathUnlinkFile \/ PathSymlink \/ PathRename \/ PathLink
  BY <1>3, <1>4 DEF PathCreateDirectory, PathRemoveDirectory, PathUnlinkFile, PathSymlink, PathRename, PathLink
<1>5. CASE PathOpenRefused \/ PathFilestatGet \/ PathReadlink
  <2>1. \E code : Refuse(code)
    BY <1>5 DEF PathOpenRefused, PathFilestatGet, PathReadlink
  <2> QED BY <2>1, SameTable DEF Refuse, files
<1> QED BY <1>1, <1>2, <1>4, <1>5 DEF PathCalls

LEMMA FdCallsDerive == ASSUME HostInv, FdCalls PROVE HeldStep
<1>1. CASE fds' = fds
  BY <1>1, SameTable
<1>2. CASE fds' # fds
  <2>1. ~(\E code : Refuse(code))
    BY <1>2 DEF Refuse, files
  <2>2. CASE FdClose
    <3>1. fds' = Closing(call.fd)
      BY <2>1, <2>2 DEF FdClose
    <3>2. Held' = HeldIn(Closing(call.fd))
      BY <3>1 DEF Held
    <3> QED BY <3>2, ClosedHeld, Dropping
  <2>3. CASE FdRenumber
    <3>1. call.fd \in DOMAIN fds /\ call.fd2 \in 0..MaxFd /\ fds' = Renumbered(call.fd, call.fd2)
      BY <2>1, <2>3 DEF FdRenumber, IsOpen
    <3>2. call.fd2 \in Nat
      BY <3>1
    <3> QED BY <3>1, <3>2, Renumbering
  <2>4. CASE FdFdstatSetFlags
    <3>1. IsKind(call.fd, "file") /\ fds' = WithMode(call.fd, call.append)
      BY <2>1, <2>4 DEF FdFdstatSetFlags, WithMode
    <3>2. Held' = Held
      BY <3>1, ChangedFile DEF Held
    <3> QED BY <3>2 DEF HeldStep
  <2>5. CASE FdSeek \/ FdReadFile \/ FdWriteFile
    <3>1. IsKind(call.fd, "file") /\ \E pos : fds' = MovedTo(call.fd, pos)
      BY <1>2, <2>1, <2>5 DEF FdSeek, FdReadFile, FdWriteFile, FileObjection
    <3>2. PICK pos : fds' = MovedTo(call.fd, pos)
      BY <3>1
    <3>3. Held' = Held
      BY <3>1, <3>2, ChangedFile DEF Held
    <3> QED BY <3>3 DEF HeldStep
  <2>6. ~(FdFilestatSetSize \/ Query \/ FdReadStdin \/ FdWriteStream \/ ProcExit)
    BY <1>2, <2>1 DEF FdFilestatSetSize, Query, FdReadStdin, FdWriteStream, ProcExit, files
  <2> QED BY <2>2, <2>3, <2>4, <2>5, <2>6 DEF FdCalls
<1> QED BY <1>1, <1>2

LEMMA FirstDescriptors == Init => Descriptors!Init
<1> SUFFICES ASSUME Init PROVE Descriptors!Init
  OBVIOUS
<1>1. ASSUME NEW g \in DOMAIN Grants PROVE \E fd \in DOMAIN Held : Held[fd].grant = g
  <2>1. PICK fd : fd = g + 2
    OBVIOUS
  <2>2. g \in 1..Len(Grants)
    BY SequencesAssumption
  <2>3. fd \in 0..(Len(Grants) + 2) /\ fd \notin 0..2 /\ fd - 2 = g
    BY <2>1, <2>2, SequencesAssumption
  <2>4. fd \in DOMAIN fds /\ fds[fd] = DirFd(Grants[g].path, TRUE, Grants[g].rights, Grants[g].rights, g)
    BY <2>3 DEF Init
  <2>5. fd \in DOMAIN Held /\ Held[fd] = Capability(fds[fd])
    <3>1. fds[fd].kind = "dir"
      BY <2>4 DEF DirFd
    <3> QED BY <2>4, <3>1, HeldParts DEF Held, IsCapability
  <2>6. Held[fd].grant = g
    BY <2>4, <2>5 DEF Capability, DirFd
  <2> QED BY <2>5, <2>6
<1>2. ASSUME NEW fd \in DOMAIN Held
      PROVE  /\ Held[fd].grant \in DOMAIN Grants
             /\ Held[fd].base = Grants[Held[fd].grant].rights /\ Held[fd].inh = Grants[Held[fd].grant].rights
  <2>1. fd \in DOMAIN fds /\ IsCapability(fds[fd]) /\ Held[fd] = Capability(fds[fd])
    BY HeldParts DEF Held
  <2>2. PICK g \in DOMAIN Grants : fds[fd] = DirFd(Grants[g].path, TRUE, Grants[g].rights, Grants[g].rights, g)
    <3>1. ASSUME NEW kind \in {"stdin", "stdout", "stderr"} PROVE fds[fd] # Stream(kind)
      BY <2>1, <3>1 DEF IsCapability, Stream
    <3> QED BY <2>1, <3>1, InitEntries
  <2>3. Held[fd] = [grant |-> g, base |-> Grants[g].rights, inh |-> Grants[g].rights]
    BY <2>1, <2>2 DEF Capability, DirFd
  <2> QED BY <2>3
<1> QED BY <1>1, <1>2 DEF Descriptors!Init

\* What a guest holds is a set of capabilities: descriptors come from the granted
\* directories, a new one has its grant and at most the rights that the one it is
\* opened from passes down, and otherwise they are only closed and moved, in
\* whatever order path_open, fd_close and fd_renumber are called and whatever
\* number they reuse.
THEOREM DescriptorsAreCapabilities == Spec => Descriptors!Spec
<1>1. Init => RightsInv /\ HostInv
  BY InitRights, InitHost
<1>2. (RightsInv /\ HostInv) /\ [Next]_vars => (RightsInv /\ HostInv)'
  BY NextKeepsRights, NextKeepsHost
<1>3. (RightsInv /\ HostInv) /\ [Next]_vars => [Descriptors!Next]_(Descriptors!vars)
  <2> SUFFICES ASSUME RightsInv, HostInv, [Next]_vars PROVE HeldStep
    BY DEF HeldStep, Descriptors!vars
  <2>1. CASE Guest \/ ResolveCall \/ WalkSteps
    BY <2>1, WalkingHolds, SameTable
  <2>2. CASE PathCalls \/ FdCalls
    BY <2>2, PathCallsDerive, FdCallsDerive
  <2>3. CASE UNCHANGED vars
    BY <2>3, SameTable DEF vars
  <2> QED BY <2>1, <2>2, <2>3 DEF Next, Host
<1> QED BY <1>1, <1>2, <1>3, FirstDescriptors, PTL DEF Spec, Descriptors!Spec
=============================================================================
