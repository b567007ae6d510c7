-------------------------------- MODULE Pins --------------------------------
(***************************************************************************)
(* The gate in front of everything the command line runs: the pin database *)
(* and its mode, crates/wasmrt-core/src/pin.rs, and verify_gate of         *)
(* crates/wasmrt/src/main.rs.                                              *)
(*                                                                         *)
(* A database is a sequence of lines [kind, words]: a "mode" directive, a  *)
(* "comment" (or a blank line), or a "pin", whose first word is a digest   *)
(* or is mangled.  A file is "absent", "hidden" in a directory that may not   *)
(* be searched, "unreadable", or a "text" with its lines.  The digest of a *)
(* module stands for its bytes.                                            *)
(***************************************************************************)
EXTENDS Integers, Sequences, FiniteSets, SequencesExt, FiniteSetsExt

CONSTANT Digests

Modes == <<"off", "warn", "enforce">>
Rank(mode) == CHOOSE k \in DOMAIN Modes : Modes[k] = mode
Stricter(a, b) == IF Rank(a) > Rank(b) THEN a ELSE b
ParseMode(word) == IF word \in ToSet(Modes) THEN {word} ELSE {}

\* The mode a database declares, if it declares one: the first word of the first
\* directive, and enforce when that word is not a mode.
ModeFromDb(lines) ==
  LET directives == {k \in DOMAIN lines : lines[k].kind = "mode"}
      words == lines[Min(directives)].words
  IN  IF directives = {} THEN {}
      ELSE IF words = <<>> \/ ParseMode(Head(words)) = {} THEN {"enforce"}
      ELSE ParseMode(Head(words))

Pinned(lines) == {Head(lines[k].words) : k \in {i \in DOMAIN lines : lines[i].kind = "pin"}}
Parses(lines) == Pinned(lines) \subseteq Digests

Decide(explicit, pinned, optOut, tty, armed) ==
  CASE pinned                                           -> "run"
    [] ~pinned /\ explicit = {"off"}                    -> "run"
    [] ~pinned /\ explicit = {"enforce"}                -> "deny"
    [] ~pinned /\ explicit = {"warn"}                   -> IF optOut THEN "run" ELSE IF tty THEN "prompt" ELSE "deny"
    [] ~pinned /\ explicit = {}                         -> IF ~armed \/ optOut THEN "run" ELSE "deny"

\* Path::exists says no where it cannot tell.
Exists(file) == file.state \notin {"absent", "hidden"}

\* The database of the machine: the first of the paths that exists.
MachineDb(paths) ==
  LET there == {k \in DOMAIN paths : Exists(paths[k])}
  IN  IF there = {} THEN [state |-> "absent", lines |-> <<>>] ELSE paths[Min(there)]
RootMode(paths) == IF MachineDb(paths).state = "text" THEN ModeFromDb(MachineDb(paths).lines) ELSE {}

\* Mutant of GoverningDb: --pins is followed whatever the root says.
GoverningDbRedirected(config) == IF config.pins # {} THEN CHOOSE file \in config.pins : TRUE ELSE MachineDb(config.paths)

\* The database that governs a run: the one --pins names, unless root enforces.
GoverningDb(config) ==
  IF config.pins # {} /\ RootMode(config.paths) # {"enforce"} THEN CHOOSE file \in config.pins : TRUE
  ELSE MachineDb(config.paths)

\* The mode of a run: root's, raised by the governing database and by --verify.
ExplicitMode(config) ==
  LET root == RootMode(config.paths)
      file == GoverningDb(config)
      raising == (IF file.state = "text" THEN <<ModeFromDb(file.lines)>> ELSE <<>>) \o <<config.verify>>
      Raise(mode, by) == IF by \subseteq {"off"} THEN mode
                         ELSE IF mode = {} THEN by ELSE {Stricter(m, b) : m \in mode, b \in by}
  IN  IF root = {"enforce"} THEN root ELSE FoldLeft(Raise, root, raising)

VerifyGate(config, digest) ==
  LET file == GoverningDb(config)
      armed == file.state = "text"
  IN  IF MachineDb(config.paths).state = "unreadable" \/ (file.state # "text" /\ config.pins # {}) THEN "deny"
      ELSE IF armed /\ ~Parses(file.lines) THEN "deny"
      ELSE Decide(ExplicitMode(config), armed /\ digest \in Pinned(file.lines), config.optOut, config.tty, armed)
=============================================================================
