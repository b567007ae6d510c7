------------------------------- MODULE Typing -------------------------------
(***************************************************************************)
(* FuncValidator of crates/wasmrt-core/src/validate.rs: one step per       *)
(* instruction over a stack of types, a stack of frames and the set of the *)
(* locals known to be initialized.  An operator takes the validator's      *)
(* state and returns the next one; a check that fails returns Refused,     *)
(* from which nothing leads back.  All feature switches are on.            *)
(*                                                                         *)
(* An instruction is a record with an op and its immediates; labels count  *)
(* from 0, everything else from 1.  Memories and tables have a field is64, *)
(* and f is the function: its locals (the parameters first), the number of *)
(* parameters, its results, and the bound on the length of its body; a     *)
(* constant expression is one whose field global is not 0 but the global   *)
(* it initializes.  Indices are in range, but for labels and the globals   *)
(* of constant expressions.                                                *)
(***************************************************************************)
EXTENDS Types, Signatures

CONSTANT MaxCtrlDepth

ASSUME MaxCtrlDepthAssumption == MaxCtrlDepth \in Nat \ {0}

Refused == [ok |-> FALSE, vals |-> <<>>, ctrls |-> <<>>, init |-> {}]
Require(s, condition) == IF condition THEN s ELSE Refused

Frame(s, n) == s.ctrls[Len(s.ctrls) - n]
InFrame(s) == Len(s.vals) > Last(s.ctrls).height

\* The type on top; Unknown where unreachable code ran out of operands.
Peek(s) == IF s.ctrls # <<>> /\ InFrame(s) THEN Last(s.vals) ELSE Unknown

\* Mutant of PopVal: an operand below the frame's height is taken.
PopValFromOutside(s) ==
  IF ~s.ok THEN s
  ELSE IF s.vals # <<>> THEN [s EXCEPT !.vals = Front(@)]
  ELSE Require(s, Last(s.ctrls).unreachable)

PopVal(s) ==
  IF ~s.ok THEN s
  ELSE IF InFrame(s) THEN [s EXCEPT !.vals = Front(@)]
  ELSE Require(s, Last(s.ctrls).unreachable)

Accepts(m, actual, expect) == actual = Unknown \/ Subtype(m, actual, expect)

PopExpect(m, s, expect) == PopVal(Require(s, Accepts(m, Peek(s), expect)))
PopVals(m, s, types) == FoldLeft(LAMBDA a, t : PopExpect(m, a, t), s, Reverse(types))
PopRef(s) == PopVal(Require(s, Peek(s) = Unknown \/ IsRef(Peek(s))))
PushVal(s, t) == IF s.ok THEN [s EXCEPT !.vals = Append(@, t)] ELSE s
PushVals(s, types) == IF s.ok THEN [s EXCEPT !.vals = @ \o types] ELSE s

PushCtrl(s, kind, start, end) ==
  IF ~s.ok \/ Len(s.ctrls) >= MaxCtrlDepth THEN Refused
  ELSE PushVals([s EXCEPT !.ctrls = Append(@, [kind |-> kind, start |-> start, end |-> end,
                                              height |-> Len(s.vals), unreachable |-> FALSE,
                                              snapshot |-> s.init])], start)

\* The frame's results are popped, and nothing may be left above its height.
PopCtrl(m, s) ==
  LET Emptied(popped) == IF ~popped.ok \/ Len(popped.vals) # Last(s.ctrls).height THEN Refused
                         ELSE [popped EXCEPT !.ctrls = Front(@)]
  IN  Emptied(PopVals(m, s, Last(s.ctrls).end))

SetUnreachable(s) ==
  IF ~s.ok THEN s
  ELSE [s EXCEPT !.vals = SubSeq(@, 1, Last(s.ctrls).height), !.ctrls[Len(s.ctrls)].unreachable = TRUE]

HasLabel(s, n) == n < Len(s.ctrls)

\* What a branch to the label carries: the parameters of a loop, the results of
\* anything else.
LabelTypes(s, n) == IF Frame(s, n).kind = "loop" THEN Frame(s, n).start ELSE Frame(s, n).end

FuncSig(m, t) == [params |-> m.types[t].params, results |-> m.types[t].results]
FuncType(m, i) == FuncSig(m, m.funcs[i].type)
\* A linked function may have a subtype of the type it was imported at.
FuncRefIsExact(m, i) == ~m.funcs[i].imported \/ m.funcs[i].exact

IsFuncType(m, t) == m.types[t].kind = "func"
TagParams(m, i) == m.types[m.tags[i]].params

MemAddress(m, i) == IF m.mems[i].is64 THEN I64 ELSE I32
TableAddress(m, i) == IF m.tables[i].is64 THEN I64 ELSE I32
TableElem(m, i) == m.tables[i].elem

\* A count of elements or bytes between two spaces is 64 bits wide only when
\* both are.
CountType(a, b) == IF a = I64 /\ b = I64 THEN I64 ELSE I32

-----------------------------------------------------------------------------
(* Structure.                                                              *)

CheckCatch(m, c, label) ==
  LET params == IF c.kind \in {"catch", "catch_ref"} THEN TagParams(m, c.tag) ELSE <<>>
      exn == IF c.kind \in {"catch_ref", "catch_all_ref"} THEN <<Ref(FALSE, "exn")>> ELSE <<>>
  IN  Subtypes(m, params \o exn, label)

OpenBlock(m, s, instr) ==
  LET s1 == IF instr.op = "if" THEN PopExpect(m, s, I32) ELSE s
      s2 == PopVals(m, s1, instr.bt.params)
      s3 == IF instr.op # "try_table" THEN s2
            ELSE Require(s2, \A k \in DOMAIN instr.catches :
                               LET c == instr.catches[k]
                               IN  HasLabel(s, c.label) /\ CheckCatch(m, c, LabelTypes(s, c.label)))
  IN  PushCtrl(s3, instr.op, instr.bt.params, instr.bt.results)

\* Another arm of the same construct: the locals are as they were before it.
Continue(s, popped, kind, start) ==
  PushCtrl(IF popped.ok THEN [popped EXCEPT !.init = Last(s.ctrls).snapshot] ELSE popped,
           kind, start, Last(s.ctrls).end)

\* The construct is over, and its results are on the stack around it.
Close(s, popped) ==
  IF popped.ok THEN PushVals([popped EXCEPT !.init = Last(s.ctrls).snapshot], Last(s.ctrls).end)
  ELSE popped

\* The instructions that end an arm, with the frame they pop.
CheckArm(m, s, popped, instr) ==
  LET frame == Last(s.ctrls)
  IN  CASE instr.op = "else" ->
             Continue(s, Require(popped, frame.kind = "if"), "else", frame.start)
        [] instr.op = "catch" ->
             Continue(s, Require(popped, frame.kind \in {"try", "catch"}), "catch", TagParams(m, instr.tag))
        [] instr.op = "catch_all" ->
             Continue(s, Require(popped, frame.kind \in {"try", "catch"}), "catch", <<>>)
        [] instr.op = "delegate" ->
             Close(s, Require(popped, frame.kind = "try" /\ HasLabel(popped, instr.label)))
        [] instr.op = "end" ->
             Close(s, Require(popped, frame.kind = "if" => frame.start = frame.end))

CheckStructure(m, s, instr) ==
  IF instr.op \in {"block", "loop", "if", "try_table", "try"} THEN OpenBlock(m, s, instr)
  ELSE CheckArm(m, s, PopCtrl(m, s), instr)

\* Every label of a br_table takes as many operands as the default, and each
\* gets the types that are there.
CheckBrTable(m, s, instr) ==
  LET s1 == PopExpect(m, s, I32)
      One(a, l) ==
        IF ~a.ok \/ ~HasLabel(s, l) \/ Len(LabelTypes(s, l)) # Len(LabelTypes(s, instr.label)) THEN Refused
        ELSE Require(a, PopVals(m, a, LabelTypes(s, l)).ok)
  IN  IF ~HasLabel(s, instr.label) THEN Refused
      ELSE SetUnreachable(PopVals(m, FoldLeft(One, s1, instr.labels), LabelTypes(s, instr.label)))

CheckBranch(m, s, instr) ==
  LET known == HasLabel(s, instr.label)
      types == IF known THEN LabelTypes(s, instr.label) ELSE <<>>
      s1 == Require(s, known)
  IN  CASE instr.op = "br" -> SetUnreachable(PopVals(m, s1, types))
        [] instr.op = "br_if" -> PushVals(PopVals(m, PopExpect(m, s1, I32), types), types)
        [] instr.op = "br_table" -> CheckBrTable(m, s, instr)
        [] instr.op = "br_on_null" ->
             PushVal(PushVals(PopVals(m, PopRef(s1), types), types), NonNull(Peek(s)))
        [] instr.op = "br_on_non_null" ->
             IF types = <<>> \/ ~IsRef(Last(types)) THEN Refused
             ELSE PushVals(PopVals(m, PopExpect(m, s1, Nullable(Last(types))), Front(types)), Front(types))
        [] instr.op = "rethrow" -> SetUnreachable(Require(s1, known /\ Frame(s, instr.label).kind = "catch"))

CheckThrow(m, f, s, instr) ==
  CASE instr.op = "unreachable" -> SetUnreachable(s)
    [] instr.op = "throw"       -> SetUnreachable(PopVals(m, s, TagParams(m, instr.tag)))
    [] instr.op = "throw_ref"   -> SetUnreachable(PopExpect(m, s, Ref(TRUE, "exn")))
    [] instr.op = "return"      -> SetUnreachable(PopVals(m, s, f.results))

\* A call pops what names the callee, then its parameters; a tail call ends the
\* function, so the callee's results must do for it.
CheckCall(m, f, s, instr) ==
  LET direct == instr.op \in {"call", "return_call"}
      indirect == instr.op \in {"call_indirect", "return_call_indirect"}
      sig == IF direct THEN FuncType(m, instr.func) ELSE FuncSig(m, instr.type)
      s1 == CASE direct -> s
              [] indirect -> PopExpect(m, Require(s, /\ Subtype(m, TableElem(m, instr.table), Ref(TRUE, "func"))
                                                    /\ IsFuncType(m, instr.type)),
                                       TableAddress(m, instr.table))
              [] OTHER -> PopExpect(m, Require(s, IsFuncType(m, instr.type)), TypeRef(TRUE, "func", instr.type))
      s2 == PopVals(m, s1, sig.params)
  IN  IF instr.op \in {"call", "call_indirect", "call_ref"} THEN PushVals(s2, sig.results)
      ELSE SetUnreachable(Require(s2, Subtypes(m, sig.results, f.results)))
=============================================================================
