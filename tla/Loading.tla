------------------------------ MODULE Loading ------------------------------
(***************************************************************************)
(* From the bytes of a file to a running function, the way the command     *)
(* line goes (run_wasi_loaded and call_export of                           *)
(* crates/wasmrt/src/main.rs): the pin gate, then the decoder, section by  *)
(* section, then the validator under the features that are on, and only    *)
(* then the interpreter.  An admitted body is handed to Soundness, which   *)
(* goes through it once more to keep what the validator knew before each   *)
(* instruction, and runs it.                                               *)
(*                                                                         *)
(* A file is [bytes, digest, config]: the digest stands for the bytes, and *)
(* config is what the command line, the machine and the terminal say       *)
(* (Pins), with features, the items of --features.                         *)
(***************************************************************************)
EXTENDS Soundness, Admission, Pins

CONSTANT Files

VARIABLES
  load            \* the file and how far it has come

loadVars == <<load, scene, phase, body, checker, typing, run>>

Stages == {"none", "asked", "prompted", "approved", "sections", "decoded", "admitted", "refused"}

NoFile == [bytes |-> <<>>, digest |-> "none", config |-> [features |-> <<>>]]
Asked(stage, file) ==
  [stage |-> stage, file |-> file, features |-> {}, r |-> Reader(file.bytes), last |-> 0, m |-> NoModule]
NoScene ==
  [m |-> NoModule, f |-> [locals |-> <<>>, params |-> 0, results |-> <<>>, bound |-> 0, global |-> 0],
   menu |-> {}, fixed |-> <<>>]

LoadInit ==
  \/ Init /\ load = Asked("none", NoFile)
  \/ /\ \E file \in Files : load = Asked("asked", file)
     /\ scene = NoScene /\ phase = "refused" /\ body = <<>> /\ typing = <<>>
     /\ checker = Refused /\ run = Idle

-----------------------------------------------------------------------------
(* Steps.                                                                  *)

At(stage) == load.stage = stage
Move(to) == load' = [load EXCEPT !.stage = to] /\ UNCHANGED vars

\* The options are parsed first; without --features everything is on.
Switched(items) == IF items = <<>> THEN {AllFeatures} ELSE FeatureList(items)

Gate ==
  LET config == load.file.config
      switched == Switched(config.features)
      action == VerifyGate(config, load.file.digest)
  IN  /\ At("asked")
      /\ load' = [load EXCEPT !.features = UNION switched,
                              !.stage = CASE switched = {} \/ action = "deny"   -> "refused"
                                          [] switched # {} /\ action = "prompt" -> "prompted"
                                          [] switched # {} /\ action = "run"    -> "approved"]
      /\ UNCHANGED vars

\* What is typed at the terminal; anything but a yes is a no.
Answer == At("prompted") /\ \E to \in {"approved", "refused"} : Move(to)

ReadPreamble ==
  LET After(read) == [load EXCEPT !.r = read, !.stage = IF read.ok THEN "sections" ELSE "refused"]
  IN  At("approved") /\ load' = After(Header(load.r)) /\ UNCHANGED vars

ReadSection ==
  LET After(next) == [load EXCEPT !.r = next.r, !.last = next.last, !.m = next.m,
                                  !.stage = IF next.ok THEN "sections" ELSE "refused"]
  IN  /\ At("sections") /\ ~AtEnd(load.r)
      /\ load' = After(NextSection(load.r, load.last, load.m))
      /\ UNCHANGED vars

EndFile == At("sections") /\ AtEnd(load.r) /\ Move(IF SectionsAgree(load.m) THEN "decoded" ELSE "refused")
Validate == At("decoded") /\ Move(IF Validates(load.m, load.features) THEN "admitted" ELSE "refused")

\* Any function of the module may be the one that is called.
CallBody(k) ==
  LET m == Ready(load.m)
      f == DefinedFunc(m, k)
      instrs == load.m.code[k].body
  IN  /\ At("admitted") /\ scene = NoScene
      /\ scene' = [m |-> m, f |-> f, menu |-> {}, fixed |-> [i \in DOMAIN instrs |-> Resolved(m, instrs[i])]]
      /\ phase' = "check"
      /\ checker' = Started(f)
      /\ UNCHANGED <<load, body, typing, run>>

LoadNext ==
  \/ Gate
  \/ Answer
  \/ ReadPreamble
  \/ ReadSection
  \/ EndFile
  \/ Validate
  \/ \E k \in DOMAIN load.m.code : CallBody(k)
  \/ Next /\ UNCHANGED load

LoadSpec == LoadInit /\ [][LoadNext]_loadVars

-----------------------------------------------------------------------------
(* Correctness.                                                            *)

\* Wherever the decoder is in a file, a number that starts there is read as the
\* WebAssembly specification says or refused, in each of the widths the decoder
\* reads: the tests for the last byte of a number (Reader::var_u32 and the others,
\* reader.rs) leave out none of the bits beyond its width.
NumbersAreRead ==
  load.stage \in {"asked", "sections"} =>
    LET r == load.r IN ReadsNumbers(SubSeq(r.in, r.pos + 1, Min({r.pos + 11, Len(r.in)})))

\* The two passes over a type section (module.rs): the scan for the kinds stops
\* where the pass that reads the types stops, and finds the kinds they have, so
\* that a reference was given the family of the type it names.
PassesAgree ==
  LET m == load.m
  IN  /\ m.scanned = 0
      /\ m.kinds = [t \in DOMAIN m.types |-> m.types[t].kind]
      /\ \A t \in DOMAIN m.types :
           \A v \in ToSet(m.types[t].params) \cup ToSet(m.types[t].results) \cup {x.type : x \in ToSet(m.types[t].fields)} :
             IsRef(v) /\ IsConcrete(v) => v.base = m.types[v.index].kind

\* Whatever the order and the contents of its sections, an admitted module has
\* everything that instantiate (interp.rs) takes from it without asking again: the
\* memories and tables that segments are copied to, the functions they hold, the
\* globals their offsets read, the exported entries, a start function that
\* takes and gives nothing, a body for each function, and data segments for the
\* bodies that name them.
AcceptedModulesAreWhole ==
  load.stage = "admitted" =>
    LET m == load.m
        Reads(instrs) == {i.global : i \in {x \in ToSet(instrs) : x.op = "global.get"}}
        Names(instrs) == {i.func : i \in {x \in ToSet(instrs) : x.op = "ref.func"}}
        constants == UNION {{x.offset} \cup ToSet(x.exprs) : x \in ToSet(m.elements)} \cup {x.offset : x \in ToSet(m.data)}
                     \cup UNION {ToSet(g.init) : g \in ToSet(m.globals)} \cup UNION {ToSet(t.init) : t \in ToSet(m.tables)}
    IN  /\ \A x \in ToSet(m.data) : x.active => x.mem \in DOMAIN m.mems
        /\ \A x \in ToSet(m.elements) : ToSet(x.funcs) \subseteq DOMAIN m.funcs /\ (x.active => x.table \in DOMAIN m.tables)
        /\ \A instrs \in constants : /\ Names(instrs) \subseteq DOMAIN m.funcs
                                     /\ \A g \in Reads(instrs) : g \in DOMAIN m.globals /\ ~m.globals[g].mutable
        /\ \A k \in DOMAIN m.globals : \A instrs \in ToSet(m.globals[k].init) : \A g \in Reads(instrs) : g < k
        /\ \A x \in ToSet(m.exports) : x.index \in Space(m, x.kind)
        /\ m.start # 0 => FuncType(m, m.start) = [params |-> <<>>, results |-> <<>>]
        /\ Len(m.funcs) = Len(SelectSeq(m.imports, LAMBDA i : i.kind = "func")) + Len(m.code)
        /\ \A k \in DOMAIN m.code : \A i \in DOMAIN m.code[k].body :
             m.code[k].body[i].op \in NamesData => m.code[k].body[i].data \in DOMAIN m.data

\* The values of a proposal that is off never come to exist: --features "judges a
\* module under the configured language", and what the gates of the validator
\* leave out cannot be made by what they let through.  (What the embedder hands
\* over as an external reference is opaque.)
SlotNeeds(slot) ==
  CASE slot.kind = "v128"                                            -> {"simd"}
    [] slot.kind \in {"func", "host"} \/ slot.extern                 -> {"reference-types"}
    [] slot.kind \in {"i31", "object"} /\ ~slot.extern               -> {"gc"}
    [] slot.kind = "exn" /\ ~slot.extern                             -> {"exceptions"}
    [] OTHER                                                         -> {}
NoValueOfADisabledProposal ==
  load.stage = "admitted" => \A slot \in ToSet(run.stack) \cup ToSet(run.locals) : SlotNeeds(slot) \subseteq load.features

\* Where the database of the machine enforces, a file comes past the gate only if
\* that database lists its digest: not by --no-verify, --verify, --pins with
\* another database, an answer at the terminal, or a database that is there and
\* cannot be read (verify_gate and pin.rs; one in a directory that may not be
\* searched counts as not there).
RootPolicyHolds ==
  load.stage \in {"approved", "sections", "decoded", "admitted"} =>
    LET db == MachineDb(load.file.config.paths)
    IN  /\ db.state # "unreadable"
        /\ RootMode(load.file.config.paths) = {"enforce"} => Parses(db.lines) /\ load.file.digest \in Pinned(db.lines)
=============================================================================
