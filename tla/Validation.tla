----------------------------- MODULE Validation -----------------------------
(***************************************************************************)
(* The rest of FuncValidator::step: tables, memories, references, structs, *)
(* arrays, casts, variables and the instructions with a fixed signature;   *)
(* and a whole body, validate_function of                                  *)
(* crates/wasmrt-core/src/validate.rs.                                     *)
(***************************************************************************)
EXTENDS Typing

CheckTable(m, s, instr) ==
  LET t == instr.table
      at == TableAddress(m, t)
      elem == TableElem(m, t)
  IN  CASE instr.op = "table.get"  -> PushVal(PopExpect(m, s, at), elem)
        [] instr.op = "table.set"  -> PopVals(m, s, <<at, elem>>)
        [] instr.op = "table.size" -> PushVal(s, at)
        [] instr.op = "table.grow" -> PushVal(PopVals(m, s, <<elem, at>>), at)
        [] instr.op = "table.fill" -> PopVals(m, s, <<at, elem, at>>)
        [] instr.op = "table.init" ->
             PopVals(m, Require(s, Subtype(m, m.elems[instr.elem], elem)), <<at, I32, I32>>)
        [] instr.op = "table.copy" ->
             PopVals(m, Require(s, Subtype(m, TableElem(m, instr.from), elem)),
                     <<at, TableAddress(m, instr.from), CountType(at, TableAddress(m, instr.from))>>)
        [] instr.op = "elem.drop" -> s

CheckMemory(m, s, instr) ==
  LET at == IF instr.op = "data.drop" THEN I32 ELSE MemAddress(m, instr.mem)
  IN  CASE instr.op = "memory.size" -> PushVal(s, at)
        [] instr.op = "memory.grow" -> PushVal(PopExpect(m, s, at), at)
        [] instr.op = "memory.fill" -> PopVals(m, s, <<at, I32, at>>)
        [] instr.op = "memory.copy" ->
             PopVals(m, s, <<at, MemAddress(m, instr.from), CountType(at, MemAddress(m, instr.from))>>)
        [] instr.op = "memory.init" -> PopVals(m, s, <<at, I32, I32>>)
        [] instr.op = "data.drop"   -> s

\* A conversion between the two hierarchies keeps what is known of null.
ConvertRef(m, s, from, to) ==
  LET actual == Peek(s)
  IN  PushVal(PopExpect(m, s, Ref(TRUE, from)), IF actual = Unknown THEN Unknown ELSE Ref(actual.null, to))

CheckRef(m, s, instr) ==
  CASE instr.op = "ref.null"        -> PushVal(s, instr.vtype)
    [] instr.op = "ref.is_null"     -> PushVal(PopRef(s), I32)
    [] instr.op = "ref.func"        ->
         PushVal(Require(s, instr.func \in m.refs),
                 [TypeRef(FALSE, "func", m.funcs[instr.func].type) EXCEPT !.exact = FuncRefIsExact(m, instr.func)])
    [] instr.op = "ref.eq"          -> PushVal(PopVals(m, s, <<Ref(TRUE, "eq"), Ref(TRUE, "eq")>>), I32)
    [] instr.op = "ref.i31"         -> PushVal(PopExpect(m, s, I32), Ref(FALSE, "i31"))
    [] instr.op = "i31.get"         -> PushVal(PopExpect(m, s, Ref(TRUE, "i31")), I32)
    [] instr.op = "ref.as_non_null" -> PushVal(PopRef(s), NonNull(Peek(s)))
    [] instr.op = "any.convert_extern" -> ConvertRef(m, s, "extern", "any")
    [] instr.op = "extern.convert_any" -> ConvertRef(m, s, "any", "extern")

-----------------------------------------------------------------------------
(* Structs and arrays.                                                     *)

FieldTypes(m, t) == [k \in DOMAIN m.types[t].fields |-> Unpacked(m.types[t].fields[k])]
Defaultable(m, t) == \A k \in DOMAIN m.types[t].fields : ~IsNonNullRef(FieldTypes(m, t)[k])

\* struct.get reads a plain field, struct.get_s and struct.get_u a packed one.
ReadsAsPacked(instr, f) == instr.signed = (f.pack # "no")

\* What ref.get_desc leaves: the descriptor of exactly this type only when the
\* operand is of exactly this type (or of none).
DescriptorOfOperand(m, v, t) ==
  LET d == m.types[t].descriptor
  IN  IF v = Unknown \/ (v.exact /\ TypesEqual(m, v.index, t)) \/ ~IsConcrete(v)
      THEN ExactRef(FALSE, "struct", d) ELSE TypeRef(FALSE, "struct", d)

CheckNewStruct(m, s, instr) ==
  LET t == instr.type
      described == instr.op \in {"struct.new_desc", "struct.new_default_desc"}
      s1 == IF described
            THEN IF m.types[t].descriptor = 0 THEN Refused
                 ELSE PopExpect(m, s, ExactRef(TRUE, "struct", m.types[t].descriptor))
            ELSE Require(s, m.types[t].descriptor = 0)
      s2 == IF instr.op \in {"struct.new", "struct.new_desc"} THEN PopVals(m, s1, FieldTypes(m, t))
            ELSE Require(s1, Defaultable(m, t))
  IN  PushVal(s2, ExactRef(FALSE, "struct", t))

CheckStruct(m, s, instr) ==
  LET t == instr.type
      field == m.types[t].fields[instr.field]
  IN  CASE instr.op = "struct.get" ->
             PushVal(PopExpect(m, Require(s, ReadsAsPacked(instr, field)), TypeRef(TRUE, "struct", t)),
                     Unpacked(field))
        [] instr.op = "struct.set" ->
             PopVals(m, Require(s, field.mutable), <<TypeRef(TRUE, "struct", t), Unpacked(field)>>)
        [] instr.op = "ref.get_desc" ->
             IF m.types[t].descriptor = 0 THEN Refused
             ELSE PushVal(PopExpect(m, s, TypeRef(TRUE, "struct", t)), DescriptorOfOperand(m, Peek(s), t))

CheckNewArray(m, f, s, instr) ==
  LET t == instr.type
      elem == FieldTypes(m, t)[1]
      operands == CASE instr.op = "array.new"         -> <<elem, I32>>
                    [] instr.op = "array.new_default" -> <<I32>>
                    [] instr.op = "array.new_fixed"   -> [k \in 1..instr.n |-> elem]
                    [] OTHER                          -> <<I32, I32>>
      allowed == CASE instr.op = "array.new"         -> TRUE
                   [] instr.op = "array.new_default" -> ~IsNonNullRef(elem)
                   [] instr.op = "array.new_fixed"   -> instr.n <= f.bound
                   [] instr.op = "array.new_data"    -> ~IsRef(elem)
                   [] instr.op = "array.new_elem"    -> Subtype(m, m.elems[instr.seg], elem)
  IN  PushVal(PopVals(m, Require(s, allowed), operands), ExactRef(FALSE, "array", t))

\* The elements of one array may be copied into another.
Copyable(m, from, to) == from.pack = to.pack /\ (from.pack = "no" => Subtype(m, from.type, to.type))

CheckArray(m, s, instr) ==
  LET t == instr.type
      field == m.types[t].fields[1]
      this == TypeRef(TRUE, "array", t)
      writable == Require(s, field.mutable)
  IN  CASE instr.op = "array.get" ->
             PushVal(PopVals(m, Require(s, ReadsAsPacked(instr, field)), <<this, I32>>), Unpacked(field))
        [] instr.op = "array.set"  -> PopVals(m, writable, <<this, I32, Unpacked(field)>>)
        [] instr.op = "array.fill" -> PopVals(m, writable, <<this, I32, Unpacked(field), I32>>)
        [] instr.op = "array.copy" ->
             PopVals(m, Require(writable, Copyable(m, m.types[instr.from].fields[1], field)),
                     <<this, I32, TypeRef(TRUE, "array", instr.from), I32, I32>>)
        [] instr.op = "array.init_data" ->
             PopVals(m, Require(writable, ~IsRef(Unpacked(field))), <<this, I32, I32, I32>>)
        [] instr.op = "array.init_elem" ->
             PopVals(m, Require(writable, Subtype(m, m.elems[instr.seg], Unpacked(field))), <<this, I32, I32, I32>>)

-----------------------------------------------------------------------------
(* Casts.  A target is a reference type.                                   *)

\* Only the exact descriptor proves an exact type.
DescOperand(m, target) ==
  [TypeRef(TRUE, "struct", m.types[target.index].descriptor) EXCEPT !.exact = target.exact]

HasDescriptor(m, target) == IsConcrete(target) /\ m.types[target.index].descriptor # 0
PopDescriptor(m, s, target) ==
  IF HasDescriptor(m, target) THEN PopExpect(m, s, DescOperand(m, target)) ELSE Refused

TopOf(target) == Ref(TRUE, Top(target.base))

CheckCast(m, s, instr) ==
  LET target == instr.to
  IN  CASE instr.op = "ref.test" -> PushVal(PopExpect(m, s, TopOf(target)), I32)
        [] instr.op = "ref.cast" -> PushVal(PopExpect(m, s, TopOf(target)), target)
        [] instr.op = "ref.cast_desc_eq" ->
             PushVal(PopExpect(m, PopDescriptor(m, s, target), TopOf(target)), target)

\* Mutant of Difference: null is always left behind by a cast that fails.
DifferenceNonNull(from, to) == NonNull(from)

\* What is left of the source type when the cast fails: null has gone with a
\* nullable target.
Difference(from, to) == IF to.null THEN NonNull(from) ELSE from

BranchesOnMatch(instr) == instr.op \in {"br_on_cast", "br_on_cast_desc_eq"}

CheckBranchOnCast(m, s, instr) ==
  LET s1 == IF instr.op \in {"br_on_cast_desc_eq", "br_on_cast_desc_eq_fail"}
            THEN PopDescriptor(m, s, instr.to) ELSE s
      label == IF HasLabel(s, instr.label) THEN LabelTypes(s, instr.label) ELSE <<>>
      diff == Difference(instr.src, instr.to)
      carried == IF BranchesOnMatch(instr) THEN instr.to ELSE diff
      kept == IF BranchesOnMatch(instr) THEN diff ELSE instr.to
  IN  IF \/ Top(instr.to.base) # Top(instr.src.base)
         \/ label = <<>>
      THEN Refused
      ELSE PushVal(PushVals(PopVals(m, Require(s1, Subtype(m, carried, Last(label))),
                                    Append(Front(label), instr.src)),
                            Front(label)), kept)

-----------------------------------------------------------------------------
(* Variables, parametric and plain instructions.                           *)

SelectType(a, b) == IF a = Unknown THEN b ELSE a

CheckParametric(m, s, instr) ==
  CASE instr.op = "nop"  -> s
    [] instr.op = "drop" -> PopVal(s)
    [] instr.op = "select" ->
         LET Selected(s2, a, b) ==
               PushVal(Require(PopVal(s2), ~IsRef(a) /\ ~IsRef(b) /\ (a = b \/ Unknown \in {a, b})), SelectType(a, b))
             First(s1) == LET s2 == PopVal(s1) IN Selected(s2, Peek(s1), Peek(s2))
         IN  First(PopExpect(m, s, I32))
    [] instr.op = "select_t" -> PushVal(PopVals(m, s, <<instr.vtype, instr.vtype, I32>>), instr.vtype)

CheckVariable(m, f, s, instr) ==
  LET Initialized(a) == IF a.ok THEN [a EXCEPT !.init = @ \cup {instr.local}] ELSE a
  IN  CASE instr.op = "local.get" ->
             LET t == f.locals[instr.local]
             IN  PushVal(Require(s, IsNonNullRef(t) => instr.local \in s.init), t)
        [] instr.op = "local.set" -> Initialized(PopExpect(m, s, f.locals[instr.local]))
        [] instr.op = "local.tee" ->
             PushVal(Initialized(PopExpect(m, s, f.locals[instr.local])), f.locals[instr.local])
        [] instr.op = "global.get" -> PushVal(s, m.globals[instr.global].type)
        [] instr.op = "global.set" ->
             PopExpect(m, Require(s, m.globals[instr.global].mutable), m.globals[instr.global].type)

Operand(m, mem, base) == IF base = "address" THEN MemAddress(m, mem) ELSE Num(base)

\* An access may claim at most its natural alignment, an atomic one exactly it,
\* and its offset has to fit the memory's addresses.
AccessAllowed(m, instr) ==
  /\ CASE instr.op = "simple" -> instr.align <= NaturalAlign(instr.code)
       [] instr.op = "simd"   -> instr.align <= SimdNaturalAlign(instr.code)
       [] instr.op = "atomic" -> instr.align = AtomicNaturalAlign(instr.code)
  /\ instr.wide => m.mems[instr.mem].is64

PlainSig(instr) ==
  CASE instr.op = "simple" -> SimpleSig(instr.code)
    [] instr.op = "simd"   -> IF SimdAssigned(instr.code) THEN SimdSig(instr.code) ELSE NoSig
    [] instr.op = "atomic" -> IF AtomicAssigned(instr.code) THEN AtomicSig(instr.code) ELSE NoSig

CheckPlain(m, s, instr) ==
  LET Typed(bases) == [k \in DOMAIN bases |-> Operand(m, instr.mem, bases[k])]
      Access(sig) == sig.pop # <<>> /\ Head(sig.pop) = "address"
      Apply(sig) ==
        IF sig = NoSig THEN Refused
        ELSE PushVals(PopVals(m, Require(s, Access(sig) => AccessAllowed(m, instr)), Typed(sig.pop)), Typed(sig.push))
  IN  Apply(PlainSig(instr))

-----------------------------------------------------------------------------

OpsOf(family) ==
  CASE family = "structure" -> {"block", "loop", "if", "else", "try_table", "try", "catch", "catch_all",
                                "delegate", "end"}
    [] family = "branch"    -> {"br", "br_if", "br_table", "br_on_null", "br_on_non_null", "rethrow"}
    [] family = "throw"     -> {"unreachable", "throw", "throw_ref", "return"}
    [] family = "call"      -> {"call", "call_indirect", "call_ref", "return_call", "return_call_indirect",
                                "return_call_ref"}
    [] family = "table"     -> {"table.get", "table.set", "table.size", "table.grow", "table.fill",
                                "table.init", "table.copy", "elem.drop"}
    [] family = "memory"    -> {"memory.size", "memory.grow", "memory.fill", "memory.copy", "memory.init",
                                "data.drop"}
    [] family = "ref"       -> {"ref.null", "ref.is_null", "ref.func", "ref.eq", "ref.i31", "i31.get",
                                "ref.as_non_null", "any.convert_extern", "extern.convert_any"}
    [] family = "new struct" -> {"struct.new", "struct.new_default", "struct.new_desc",
                                 "struct.new_default_desc"}
    [] family = "struct"    -> {"struct.get", "struct.set", "ref.get_desc"}
    [] family = "new array" -> {"array.new", "array.new_default", "array.new_fixed", "array.new_data",
                                "array.new_elem"}
    [] family = "array"     -> {"array.get", "array.set", "array.fill", "array.copy", "array.init_data",
                                "array.init_elem"}
    [] family = "cast"      -> {"ref.test", "ref.cast", "ref.cast_desc_eq"}
    [] family = "br cast"   -> {"br_on_cast", "br_on_cast_fail", "br_on_cast_desc_eq",
                                "br_on_cast_desc_eq_fail"}
    [] family = "variable"  -> {"local.get", "local.set", "local.tee", "global.get", "global.set"}
    [] family = "plain"     -> {"simple", "simd", "atomic"}

IsConstant(instr) ==
  CASE instr.op = "simple" -> instr.code \in \H41..\H44 \cup \H6A..\H6C \cup \H7C..\H7E
    [] instr.op = "simd"   -> instr.code = \H0C
    [] OTHER -> instr.op \in {"global.get", "ref.null", "ref.func", "ref.i31", "any.convert_extern",
                              "extern.convert_any", "array.new", "array.new_default", "array.new_fixed", "end"}
                             \cup OpsOf("new struct")

\* The initializer of a global may read the globals before it that do not
\* change.
ConstantAllows(m, f, instr) ==
  /\ IsConstant(instr)
  /\ instr.op = "global.get" => instr.global < f.global /\ ~m.globals[instr.global].mutable

\* What a constant expression types in a way of its own: struct.new_default and
\* array.new_default take any fields.
CheckConstNew(m, s, instr) ==
  CASE instr.op = "struct.new_default" ->
         PushVal(Require(s, m.types[instr.type].descriptor = 0), ExactRef(FALSE, "struct", instr.type))
    [] instr.op = "array.new_default" -> PushVal(PopExpect(m, s, I32), ExactRef(FALSE, "array", instr.type))

\* A constant expression names functions without their having been named
\* elsewhere.
Declared(m, f, instr) == IF f.global # 0 /\ instr.op = "ref.func" THEN [m EXCEPT !.refs = {instr.func}] ELSE m

Step(m, f, s, instr) ==
  LET In(family) == instr.op \in OpsOf(family)
      constant == f.global # 0
  IN  IF ~s.ok \/ s.ctrls = <<>> \/ (constant /\ ~ConstantAllows(m, f, instr)) THEN Refused
      ELSE IF constant /\ instr.op \in {"struct.new_default", "array.new_default"} THEN CheckConstNew(m, s, instr)
      ELSE CASE In("structure")  -> CheckStructure(m, s, instr)
             [] In("branch")     -> CheckBranch(m, s, instr)
             [] In("throw")      -> CheckThrow(m, f, s, instr)
             [] In("call")       -> CheckCall(m, f, s, instr)
             [] In("table")      -> CheckTable(m, s, instr)
             [] In("memory")     -> CheckMemory(m, s, instr)
             [] In("ref")        -> CheckRef(Declared(m, f, instr), s, instr)
             [] In("new struct") -> CheckNewStruct(m, s, instr)
             [] In("struct")     -> CheckStruct(m, s, instr)
             [] In("new array")  -> CheckNewArray(m, f, s, instr)
             [] In("array")      -> CheckArray(m, s, instr)
             [] In("cast")       -> CheckCast(m, s, instr)
             [] In("br cast")    -> CheckBranchOnCast(m, s, instr)
             [] In("variable")   -> CheckVariable(m, f, s, instr)
             [] In("plain")      -> CheckPlain(m, s, instr)
             [] instr.op = "array.len" -> PushVal(PopExpect(m, s, Ref(TRUE, "array")), I32)
             [] OTHER            -> CheckParametric(m, s, instr)

\* Where the validation of a body starts: the parameters, and the locals that
\* have a default, are initialized.
Started(f) ==
  PushCtrl([ok |-> TRUE, vals |-> <<>>, ctrls |-> <<>>,
            init |-> {k \in DOMAIN f.locals : k <= f.params \/ ~IsNonNullRef(f.locals[k])}],
           "block", <<>>, f.results)
=============================================================================
