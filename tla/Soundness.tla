----------------------------- MODULE Soundness -----------------------------
(***************************************************************************)
(* The validator and the interpreter of crates/wasmrt-core, one after the  *)
(* other: a body is accepted instruction by instruction (validate.rs), and *)
(* an accepted body is run (interp.rs).  The interpreter does not look at  *)
(* types: that its slots are read as they were written rests on what the   *)
(* validator accepted, and this module checks that it does.                *)
(*                                                                         *)
(* A scene is a module, a function, and the instructions its body may be   *)
(* made of: any of the menu up to a bound, or one fixed body.              *)
(***************************************************************************)
EXTENDS Interp

CONSTANT Scenes

VARIABLES scene,     \* the scene being checked
          phase,     \* "check" | "run" | "refused"
          body,      \* the instructions accepted so far
          checker,   \* the validator's state after them
          typing,    \* its state before each of them
          run        \* the machine

vars == <<scene, phase, body, checker, typing, run>>

Idle == [pc |-> 0, stack |-> <<>>, locals |-> <<>>, labels |-> <<>>, wrong |-> FALSE, status |-> "idle"]

\* A module whose types do not pass is refused before any body is looked at.
Init ==
  /\ \E k \in DOMAIN Scenes : scene = Scenes[k]
  /\ phase = IF TypeSection(scene.m) THEN "check" ELSE "refused"
  /\ body = <<>>
  /\ checker = Started(scene.f)
  /\ typing = <<>>
  /\ run = Idle

Candidates ==
  IF scene.fixed = <<>> THEN scene.menu
  ELSE IF Len(body) < Len(scene.fixed) THEN {scene.fixed[Len(body) + 1]} ELSE {}

\* There is room for the ends that are still missing.
Room(c) == Len(body) + 1 + Len(c.ctrls) <= scene.f.bound

\* c is what the check of the instruction comes to.
Accept(instr, c) ==
  /\ c.ok /\ Room(c)
  /\ checker' = c
  /\ typing' = Append(typing, checker)
  /\ body' = Append(body, instr)
  /\ UNCHANGED <<scene, phase, run>>

\* One instruction that does not check, and the body is refused.
Refuse(c) ==
  /\ ~c.ok
  /\ phase' = "refused"
  /\ body' = <<>> /\ typing' = <<>> /\ checker' = Refused
  /\ UNCHANGED <<scene, run>>

CheckNext ==
  /\ phase = "check"
  /\ checker.ctrls # <<>>
  /\ \E instr \in Candidates : \E c \in {Step(scene.m, scene.f, checker, instr)} : Accept(instr, c) \/ Refuse(c)

Default(t) == IF IsRef(t) THEN NullSlot ELSE Slot(t.base)

\* The call of an accepted body: the arguments, the defaults of the other
\* locals, and the function's own label.
Begin ==
  /\ phase = "check"
  /\ checker.ok /\ checker.ctrls = <<>>
  /\ phase' = "run"
  /\ \E args \in SampleSeqs(scene.m, SubSeq(scene.f.locals, 1, scene.f.params)) :
       run' = [Idle EXCEPT !.pc = 1, !.status = "running",
                           !.locals = [k \in DOMAIN scene.f.locals |->
                                         IF k <= scene.f.params THEN args[k] ELSE Default(scene.f.locals[k])],
                           !.labels = <<Label(0, FALSE, Len(scene.f.results), Len(body) + 1, 0)>>]
  /\ UNCHANGED <<scene, body, checker, typing>>

Running == [m |-> scene.m, f |-> scene.f, body |-> body, cf |-> Precompute(body)]

Execute ==
  /\ phase = "run" /\ run.status = "running" /\ run.pc <= Len(body)
  /\ run' \in Run(Running, run)
  /\ UNCHANGED <<scene, phase, body, checker, typing>>

\* The end of the body, or a return: the results are the slots on top.
Return ==
  /\ phase = "run" /\ run.status = "running" /\ run.pc > Len(body)
  /\ run' = IF Has(run, Len(scene.f.results)) /\ FitAll(scene.m, TopN(run, Len(scene.f.results)), scene.f.results)
            THEN [run EXCEPT !.status = "returned"] ELSE Wrong(run)
  /\ UNCHANGED <<scene, phase, body, checker, typing>>

Next ==
  \/ CheckNext
  \/ Begin
  \/ Execute
  \/ Return

Spec == Init /\ [][Next]_vars

-----------------------------------------------------------------------------
(* Correctness.                                                            *)

\* The variables stay in their domains: the validator's state before each
\* accepted instruction is remembered, its frames never start above its stack
\* (FuncValidator), and only an accepted body runs (validate_function).
TypeOK ==
  /\ phase \in {"check", "run", "refused"}
  /\ Len(typing) = Len(body) /\ Len(body) <= scene.f.bound
  /\ \A k \in DOMAIN checker.ctrls : checker.ctrls[k].height <= Len(checker.vals)
  /\ checker.init \subseteq DOMAIN scene.f.locals
  /\ phase = "run" => checker.ok /\ checker.ctrls = <<>>
  /\ run.status \in {"idle", "running", "returned", "threw", "trapped"}

\* No mutable field of a declared subtype differs from the supertype's in its
\* exactness alone.
MutableFieldsKeepExactness(m) ==
  \A t \in DOMAIN m.types :
    LET own == m.types[t]
    IN  own.super # 0 =>
          \A k \in DOMAIN own.fields \cap DOMAIN m.types[own.super].fields :
            own.fields[k].mutable => own.fields[k].type.exact = m.types[own.super].fields[k].type.exact

\* Unless a declared subtype changes the exactness of a mutable field, no
\* instruction of an accepted body finds a slot missing, reads one as something
\* it was not written as, or leaves a slot, a field, an element, a table, a
\* global, an argument or a result that does not fit its type.  The interpreter's
\* pops do not check anything (Frame::pop gives 0 on an empty stack, interp.rs),
\* and the fields of an object are those of the type it was made with.
SlotsReadAsWritten == MutableFieldsKeepExactness(scene.m) => ~run.wrong

\* "a mutable one is invariant (it is also written through, so narrowing would
\* let a write of the wider type land in it)" (validate.rs, on field_matches): the
\* same without the exception, in scenes of structures and their fields.
NoWriteLandsInANarrowerField == ~run.wrong

\* Where the body is when it is run, it is what the validator took it for: the
\* operands and the initialized locals fit the types the validator had there,
\* one label per open frame starts at the height of the frame, and code that the
\* validator took for unreachable is not reached.  (An end is also reached from
\* the arms before it, so there only what the frame promises counts.)
StackFitsItsTyping ==
  phase = "run" /\ run.status = "running" /\ run.pc <= Len(body) =>
    LET s == typing[run.pc]
        frame == Last(s.ctrls)
        atEnd == body[run.pc].op = "end"
        vals == IF atEnd THEN SubSeq(s.vals, 1, frame.height) \o frame.end ELSE s.vals
        init == IF atEnd THEN frame.snapshot ELSE s.init
    IN  /\ atEnd \/ ~frame.unreachable
        /\ FitAll(scene.m, run.stack, vals)
        /\ \A k \in init : Fits(scene.m, run.locals[k], scene.f.locals[k])
        /\ Len(run.labels) = Len(s.ctrls)
        /\ \A k \in DOMAIN run.labels : run.labels[k].base = s.ctrls[k].height

\* A value of a type can stand in for one of any type above it, however many
\* declared supertypes and equal types lie between: the validator compares a type
\* with its own declared supertype only (check_declared_subtyping), and takes two
\* types for one by the keys of their groups (canonicalize).
SubtypesStandIn ==
  phase = "check" /\ body = <<>> =>
    LET m == scene.m
    IN  \A a, b \in DOMAIN m.types :
          IsSubtype(m, a, b) =>
            /\ CompTypeMatches(m, m.types[a], m.types[b])
            /\ LinksMatch(m, m.types[a], m.types[b])
            /\ \A c \in DOMAIN m.types : IsSubtype(m, b, c) => IsSubtype(m, a, c)

\* "Typed here exactly as their instruction counterparts are in the body
\* validator" (validate.rs, on the constant forms of GC instructions): what makes
\* an object in a constant expression would also do it in a body.
ConstantsAreTypedAsInBodies ==
  phase = "run" /\ scene.f.global # 0 =>
    \A k \in {i \in DOMAIN body : body[i].op \in OpsOf("new struct") \cup OpsOf("new array")} :
      Step(scene.m, [scene.f EXCEPT !.global = 0], typing[k], body[k]).ok
=============================================================================
