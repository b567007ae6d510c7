---------------------------- MODULE MCSoundness ----------------------------
(***************************************************************************)
(* Scenes for Soundness: modules with a few types each, and the            *)
(* instructions their bodies are made of.                                  *)
(***************************************************************************)
EXTENDS Soundness

-----------------------------------------------------------------------------
(* Instructions.                                                           *)

Do(op) == [op |-> op]
Opener(op, params, results) == [op |-> op, bt |-> [params |-> params, results |-> results]]
Block == Opener("block", <<>>, <<>>)
Clause(kind, tag, label) == [kind |-> kind, tag |-> tag, label |-> label]
TryTable(results, clauses) ==
  [op |-> "try_table", bt |-> [params |-> <<>>, results |-> results], catches |-> clauses]
To(op, label) == [op |-> op, label |-> label]
BrTable(labels, default) == [op |-> "br_table", labels |-> labels, label |-> default]
OfTag(op, tag) == [op |-> op, tag |-> tag]
OnLocal(op, k) == [op |-> op, local |-> k]
Get(k) == OnLocal("local.get", k)
Set(k) == OnLocal("local.set", k)
OnGlobal(op, k) == [op |-> op, global |-> k]
Code(c) == [op |-> "simple", code |-> c, mem |-> 1, align |-> 0, wide |-> FALSE]
Const32 == Code(\H41)
Const64 == Code(\H42)
CallFunc(op, i) == [op |-> op, func |-> i]
CallRef(op, t) == [op |-> op, type |-> t]
Indirect(op, table, t) == [op |-> op, table |-> table, type |-> t]
OnType(op, t) == [op |-> op, type |-> t]
OnField(op, t, k, packed) == [op |-> op, type |-> t, field |-> k, signed |-> packed]
Null(t) == [op |-> "ref.null", vtype |-> t]
Cast(op, to) == [op |-> op, to |-> to]
BrCast(op, label, from, to) == [op |-> op, label |-> label, src |-> from, to |-> to]
Ends == {Do("end")}

-----------------------------------------------------------------------------
(* Modules.                                                                *)

PlainType == [kind |-> "func", final |-> FALSE, super |-> 0, describes |-> 0, descriptor |-> 0,
              params |-> <<>>, results |-> <<>>, fields |-> <<>>]
FuncOf(params, results) == [PlainType EXCEPT !.params = params, !.results = results]
StructOf(fields) == [PlainType EXCEPT !.kind = "struct", !.fields = fields]
ArrayOf(field) == [PlainType EXCEPT !.kind = "array", !.fields = <<field>>]
Below(type, super) == [type EXCEPT !.super = super]
Final(type) == [type EXCEPT !.final = TRUE]

Empty == [types |-> <<>>, groups |-> <<>>, canon |-> <<>>, funcs |-> <<>>, tables |-> <<>>, mems |-> <<>>,
          globals |-> <<>>, tags |-> <<>>, elems |-> <<>>, refs |-> {}]

\* Every type a recursion group of its own, or all of them one.
Apart(types) == Decoded([Empty EXCEPT !.types = types,
                                      !.groups = [k \in DOMAIN types |-> [start |-> k, len |-> 1]]])
Together(types) == Decoded([Empty EXCEPT !.types = types, !.groups = <<[start |-> 1, len |-> Len(types)]>>])

Func(locals, params, results, bound) ==
  [locals |-> locals, params |-> params, results |-> results, bound |-> bound, global |-> 0]
Menu(m, f, menu) == [m |-> m, f |-> f, menu |-> menu \cup Ends, fixed |-> <<>>]
Fixed(m, f, instrs) ==
  [m |-> m, f |-> [f EXCEPT !.bound = Len(instrs) + 1], menu |-> {}, fixed |-> Append(instrs, Do("end"))]

-----------------------------------------------------------------------------
(* One body for every opcode with a fixed signature: its operands are the  *)
(* parameters, and its results are what the body leaves.                   *)

Widths == Apart(<<>>)
Plain(instr, sig, is64) ==
  LET m == [Widths EXCEPT !.mems = <<[is64 |-> is64]>>]
      Types(bases) == [k \in DOMAIN bases |-> Operand(m, 1, bases[k])]
      params == Types(sig.pop)
  IN  Fixed(m, Func(params, Len(params), Types(sig.push), 0),
            [k \in DOMAIN params |-> Get(k)] \o <<instr>>)

PlainInstr(op, code, align) == [op |-> op, code |-> code, mem |-> 1, align |-> align, wide |-> FALSE]
Accesses(sig) == sig.pop # <<>> /\ Head(sig.pop) = "address"
Range0(first, last) == [k \in 1..(last - first + 1) |-> first + k - 1]
SimpleCodes == Range0(\H28, \H3E) \o Range0(\H41, \HC4) \o Range0(\HFC00, \HFC07) \o Range0(\HFC13, \HFC16)
SimdCodes == SelectSeq(Range0(0, \H113), SimdAssigned)
AtomicCodes == SelectSeq(Range0(0, \H4E), AtomicAssigned)

PlainScenes ==
  LET Simple(c) == PlainInstr("simple", c, IF Accesses(SimpleSig(c)) THEN NaturalAlign(c) ELSE 0)
      Simd(c) == PlainInstr("simd", c, IF SimdIsMemoryOp(c) THEN SimdNaturalAlign(c) ELSE 0)
      Atomic(c) == PlainInstr("atomic", c, AtomicNaturalAlign(c))
      Each(codes, Instr(_), Types(_), is64) == [k \in DOMAIN codes |-> Plain(Instr(codes[k]), Types(codes[k]), is64)]
  IN  Each(SimpleCodes, Simple, SimpleSig, FALSE) \o Each(SimdCodes, Simd, SimdSig, FALSE)
      \o Each(AtomicCodes, Atomic, AtomicSig, FALSE)
      \* and the accesses in a memory with 64-bit addresses
      \o Each(SelectSeq(SimpleCodes, LAMBDA c : Accesses(SimpleSig(c))), Simple, SimpleSig, TRUE)
      \o Each(SelectSeq(SimdCodes, SimdIsMemoryOp), Simd, SimdSig, TRUE) \o Each(AtomicCodes, Atomic, AtomicSig, TRUE)

-----------------------------------------------------------------------------
(* Bodies made of a menu.                                                  *)

StructRef(t) == TypeRef(FALSE, "struct", t)
NullStruct(t) == TypeRef(TRUE, "struct", t)
Exact(t) == ExactRef(FALSE, "struct", t)

\* Blocks, branches and code that is not reached.
ControlScene ==
  Menu(Apart(<<>>), Func(<<I32>>, 1, <<>>, 6),
       {Get(1), Const64, Do("drop"), Do("else"), Do("return"), Do("unreachable"), Do("select"),
        Opener("block", <<>>, <<I32>>), Opener("loop", <<I32>>, <<>>), Opener("if", <<>>, <<I32>>),
        To("br", 0), To("br_if", 1), BrTable(<<0>>, 1)})

\* A local that has no default, written in some of the arms.
LocalsOf(menu) ==
  Menu([Apart(<<StructOf(<<>>), FuncOf(<<>>, <<>>)>>) EXCEPT !.tags = <<2>>],
       Func(<<I32, StructRef(1)>>, 1, <<StructRef(1)>>, 7),
       {Get(2), Set(2), OnType("struct.new_default", 1)} \cup menu)
LocalsScenes ==
  << LocalsOf({Get(1), Do("else"), To("br", 0), Opener("if", <<>>, <<>>), Block}),
     LocalsOf({Opener("try", <<>>, <<>>), OfTag("catch", 1), OfTag("throw", 1)}) >>

\* Clauses that take the payload, the exception, both or neither, to a block or
\* out of the function.
CatchOf(results, menu) ==
  Menu([Apart(<<FuncOf(<<I32>>, <<>>)>>) EXCEPT !.tags = <<1>>, !.funcs = <<[type |-> 1, imported |-> FALSE, exact |-> FALSE]>>],
       Func(<<I32>>, 1, results, 7),
       {Get(1), OfTag("throw", 1), CallFunc("call", 1), Do("unreachable")} \cup menu)
CatchScenes ==
  LET exn == Ref(TRUE, "exn")
  IN  << CatchOf(<<I32>>, {TryTable(<<>>, <<Clause("catch", 1, 0)>>)}),
         CatchOf(<<I32, exn>>, {TryTable(<<>>, <<Clause("catch_ref", 1, 0)>>)}),
         CatchOf(<<>>, {TryTable(<<>>, <<Clause("catch_all", 1, 1), Clause("catch_all", 1, 0)>>), Block}),
         CatchOf(<<exn>>, {TryTable(<<>>, <<Clause("catch_all_ref", 1, 0)>>), Do("throw_ref")}) >>

LegacyScene ==
  Menu([Apart(<<FuncOf(<<I32>>, <<>>)>>) EXCEPT !.tags = <<1>>, !.funcs = <<[type |-> 1, imported |-> FALSE, exact |-> FALSE]>>],
       Func(<<I32>>, 1, <<>>, 7),
       {Get(1), Do("drop"), OfTag("throw", 1), CallFunc("call", 1), Opener("try", <<>>, <<>>),
        Opener("try", <<>>, <<I32>>), OfTag("catch", 1), Do("catch_all"), To("delegate", 0), To("rethrow", 0),
        To("rethrow", 1), Block})

\* Types 2 and 3 are the same type below 1, in groups of their own; 4 is below
\* 1 too.
Ladder == <<StructOf(<<>>), Below(StructOf(<<Field(I32, "no", FALSE)>>), 1),
            Below(StructOf(<<Field(I32, "no", FALSE)>>), 1), Below(StructOf(<<Field(I64, "no", FALSE)>>), 1)>>

BrCasts == {"br_on_cast", "br_on_cast_fail"}
CastScene ==
  Menu(Apart(Ladder), Func(<<NullStruct(1)>>, 1, <<NullStruct(3)>>, 5),
       {Get(1), Do("drop"), Do("ref.as_non_null"), Do("unreachable"), OnField("struct.get", 2, 1, FALSE),
        OnField("struct.get", 4, 1, FALSE),
        To("br_on_null", 0), To("br_on_non_null", 0), Opener("block", <<>>, <<NullStruct(2)>>),
        Opener("block", <<>>, <<StructRef(1)>>), Null(NullStruct(2)), Null(Ref(TRUE, "none"))}
       \cup {Cast("ref.cast", to) : to \in {StructRef(2), NullStruct(3), Exact(1), Ref(FALSE, "i31")}} \cup {Cast("ref.test", StructRef(2))}
       \cup {BrCast(op, 0, NullStruct(1), to) : op \in BrCasts, to \in {StructRef(3), NullStruct(2), Exact(1)}})

\* Values that cross between the hierarchies.
ExternScene ==
  LET any == Ref(TRUE, "any")
      extern == Ref(TRUE, "extern")
  IN  Menu(Apart(<<StructOf(<<>>), ArrayOf(Field(I32, "no", TRUE))>>),
           Func(<<any, extern, I32>>, 3, <<any>>, 5),
           {Get(1), Get(2), Get(3), Do("any.convert_extern"), Do("extern.convert_any"), Do("ref.eq"), Do("ref.i31"),
            Do("i31.get"), Do("array.len"), Do("ref.is_null"), Do("drop")}
           \cup {Cast(op, Ref(FALSE, h)) : op \in {"ref.cast", "ref.test"},
                                           h \in {"eq", "i31", "struct", "array", "none", "any", "extern"}}
           \cup {Cast("ref.cast", TypeRef(FALSE, "array", 2))})

\* Fields that are packed, mutable, and references; a subtype with one more.
Node == StructOf(<<Field(I32, "i8", TRUE), Field(NullStruct(1), "no", TRUE)>>)
Leaf == Below(StructOf(<<Field(I32, "i8", TRUE), Field(NullStruct(1), "no", TRUE), Field(StructRef(2), "no", FALSE)>>), 1)
FieldScene ==
  Menu(Together(<<Node, Leaf>>), Func(<<NullStruct(1), NullStruct(2), I32>>, 3, <<NullStruct(1)>>, 5),
       {Get(1), Get(2), Get(3), OnType("struct.new", 1), OnType("struct.new", 2), OnType("struct.new_default", 1),
        OnType("struct.new_default", 2), OnField("struct.get", 1, 1, TRUE), OnField("struct.get", 1, 2, FALSE),
        OnField("struct.get", 2, 3, FALSE), OnField("struct.get", 2, 1, FALSE), OnField("struct.set", 1, 1, FALSE),
        OnField("struct.set", 1, 2, FALSE), OnField("struct.set", 2, 3, FALSE)})

\* Arrays of bytes, of numbers that do not change, and of references.
ArrayOn(op, t) == [op |-> op, type |-> t, signed |-> FALSE]
ArrayTo(op, t, from) == [op |-> op, type |-> t, from |-> from]
ArrayOfSegment(op, t, seg) == [op |-> op, type |-> t, seg |-> seg]
Arrays == <<ArrayOf(Field(I32, "i8", TRUE)), ArrayOf(Field(I32, "no", FALSE)), StructOf(<<>>),
            ArrayOf(Field(TypeRef(TRUE, "struct", 3), "no", TRUE)),
            Below(StructOf(<<Field(I32, "no", FALSE)>>), 3),
            ArrayOf(Field(TypeRef(FALSE, "struct", 5), "no", TRUE))>>
ArrayRef(t) == TypeRef(TRUE, "array", t)

NewArrayScene ==
  Menu([Apart(Arrays) EXCEPT !.elems = <<Ref(TRUE, "func"), StructRef(5)>>],
       Func(<<I32, NullStruct(5)>>, 2, <<Ref(FALSE, "array")>>, 5),
       {Get(1), Get(2)}
       \cup {OnType(op, t) : op \in {"array.new", "array.new_default"}, t \in {1, 2, 4, 6}}
       \cup {[op |-> "array.new_fixed", type |-> t, n |-> 2] : t \in {1, 2, 4, 6}}
       \cup {ArrayOfSegment(op, t, seg) : op \in {"array.new_data", "array.new_elem"}, t \in {1, 2, 4, 6},
                                          seg \in {1, 2}})

\* One body for each access: the operands are the parameters.
ArrayBody(instr, operands) ==
  Fixed([Apart(Arrays) EXCEPT !.elems = <<Ref(TRUE, "func"), StructRef(5)>>],
        Func(operands, Len(operands), <<>>, 0),
        [k \in DOMAIN operands |-> Get(k)] \o <<instr>> \o (IF instr.op = "array.get" THEN <<Do("drop")>> ELSE <<>>))

ElemOf(t) == FieldTypes(Apart(Arrays), t)[1]
ArrayBodies ==
  LET Each(t) ==
        <<ArrayBody([op |-> "array.get", type |-> t, signed |-> FALSE], <<ArrayRef(t), I32>>),
          ArrayBody([op |-> "array.get", type |-> t, signed |-> TRUE], <<ArrayRef(t), I32>>),
          ArrayBody(ArrayOn("array.set", t), <<ArrayRef(t), I32, ElemOf(t)>>),
          ArrayBody(ArrayOn("array.fill", t), <<ArrayRef(t), I32, ElemOf(t), I32>>),
          ArrayBody(ArrayOfSegment("array.init_data", t, 1), <<ArrayRef(t), I32, I32, I32>>),
          ArrayBody(ArrayOfSegment("array.init_elem", t, 1), <<ArrayRef(t), I32, I32, I32>>),
          ArrayBody(ArrayOfSegment("array.init_elem", t, 2), <<ArrayRef(t), I32, I32, I32>>),
          ArrayBody(ArrayTo("array.copy", t, 4), <<ArrayRef(t), I32, ArrayRef(4), I32, I32>>),
          ArrayBody(ArrayTo("array.copy", t, 6), <<ArrayRef(t), I32, ArrayRef(6), I32, I32>>),
          ArrayBody(ArrayTo("array.copy", t, 1), <<ArrayRef(t), I32, ArrayRef(1), I32, I32>>)>>
  IN  Each(1) \o Each(2) \o Each(4) \o Each(6)

\* Type 2 describes 1; 4 describes 3, which is below 1, and 4 is below 2.
Described == <<[StructOf(<<Field(I32, "no", FALSE)>>) EXCEPT !.descriptor = 2],
               [StructOf(<<>>) EXCEPT !.describes = 1],
               [Below(StructOf(<<Field(I32, "no", FALSE)>>), 1) EXCEPT !.descriptor = 4],
               [Below(StructOf(<<Field(I32, "no", FALSE)>>), 2) EXCEPT !.describes = 3]>>
DescCasts == {"br_on_cast_desc_eq", "br_on_cast_desc_eq_fail"}
DescriptorScene ==
  Menu(Together(Described), Func(<<NullStruct(1), NullStruct(2), I32, ExactRef(TRUE, "struct", 4)>>, 3, <<NullStruct(1)>>, 5),
       {Get(1), Get(2), Get(3), Get(4), Set(4), OnType("struct.new_default", 2), OnType("struct.new_default", 1),
        OnType("ref.get_desc", 1), OnType("ref.get_desc", 3), Cast("ref.cast", Exact(1)), Cast("ref.cast", StructRef(3))}
       \cup {OnType(op, t) : op \in {"struct.new_desc", "struct.new_default_desc"}, t \in {1, 3}}
       \cup {Cast("ref.cast_desc_eq", to) : to \in {StructRef(1), Exact(1), ExactRef(TRUE, "struct", 3), NullStruct(3)}}
       \cup {BrCast(op, 0, NullStruct(1), to) : op \in DescCasts, to \in {StructRef(1), Exact(1), NullStruct(3)}})

\* Function 2 is a linked one, 3 one that is linked at exactly its type.  Type 2
\* is below 1 and gives more.
FuncEntry(t, imported, exact) == [type |-> t, imported |-> imported, exact |-> exact]
FuncRef(t) == TypeRef(TRUE, "func", t)
CallModule ==
  [Apart(<<FuncOf(<<I32>>, <<Ref(TRUE, "any")>>), Below(FuncOf(<<I32>>, <<Ref(TRUE, "i31")>>), 1), FuncOf(<<>>, <<>>)>>)
     EXCEPT !.funcs = <<FuncEntry(2, FALSE, FALSE), FuncEntry(1, TRUE, FALSE), FuncEntry(1, TRUE, TRUE)>>,
            !.refs = {1, 2, 3}, !.tags = <<3>>,
            !.tables = <<[elem |-> Ref(TRUE, "func"), is64 |-> FALSE], [elem |-> FuncRef(1), is64 |-> TRUE],
                         [elem |-> Ref(TRUE, "any"), is64 |-> FALSE]>>]
CallScene ==
  Menu(CallModule, Func(<<I32, FuncRef(1)>>, 2, <<Ref(TRUE, "any")>>, 5),
       {Get(1), Get(2), Set(2)}
       \cup {CallFunc(op, i) : op \in {"call", "return_call", "ref.func"}, i \in {1, 2, 3}}
       \cup {CallRef(op, t) : op \in {"call_ref", "return_call_ref"}, t \in {1, 2}}
       \cup {Cast("ref.cast", to) : to \in {FuncRef(2), ExactRef(FALSE, "func", 1), Ref(TRUE, "nofunc")}})
IndirectScene ==
  Menu(CallModule, Func(<<I32, FuncRef(1)>>, 2, <<Ref(TRUE, "any")>>, 4),
       {Get(1), Get(2), Const64}
       \cup {Indirect(op, table, t) : op \in {"call_indirect", "return_call_indirect"}, table \in {1, 2, 3}, t \in {1, 2}})

\* A call whose results are above the running function's.
TailScene ==
  Menu(CallModule, Func(<<I32, FuncRef(1)>>, 2, <<Ref(TRUE, "i31")>>, 4),
       {Get(1), Get(2), CallFunc("return_call", 1), CallFunc("return_call", 2), CallRef("return_call_ref", 1),
        CallRef("return_call_ref", 2), Indirect("return_call_indirect", 1, 2), Indirect("return_call_indirect", 1, 1)})

\* Tables and memories of both widths.
OnTable(op, t) == [op |-> op, table |-> t]
OnMemory(op, k) == [op |-> op, mem |-> k]
SpaceModule ==
  [Apart(<<StructOf(<<>>), Below(StructOf(<<>>), 1)>>)
     EXCEPT !.tables = <<[elem |-> NullStruct(1), is64 |-> FALSE], [elem |-> NullStruct(2), is64 |-> TRUE],
                         [elem |-> NullStruct(1), is64 |-> TRUE]>>,
            !.mems = <<[is64 |-> FALSE], [is64 |-> TRUE], [is64 |-> TRUE]>>,
            !.elems = <<StructRef(2), NullStruct(1)>>,
            !.globals = <<[type |-> NullStruct(1), mutable |-> TRUE], [type |-> StructRef(2), mutable |-> FALSE],
                          [type |-> NullStruct(2), mutable |-> TRUE]>>]
Pairs(op, field, ks) ==
  {IF field = "table" THEN [op |-> op, table |-> a, from |-> b] ELSE [op |-> op, mem |-> a, from |-> b] : a, b \in ks}
TableScene ==
  Menu(SpaceModule, Func(<<I32, I64, NullStruct(1)>>, 2, <<>>, 5),
       {Get(1), Get(2), Get(3), Do("drop"), OnTable("elem.drop", 1)}
       \cup {OnTable(op, t) : op \in {"table.get", "table.set", "table.size", "table.grow", "table.fill"}, t \in {1, 2}}
       \cup {[op |-> "table.init", table |-> t, elem |-> e] : t \in {1, 2}, e \in {1, 2}}
       \cup Pairs("table.copy", "table", 1..3))
MemoryScene ==
  Menu(SpaceModule, Func(<<I32, I64>>, 2, <<>>, 5),
       {Get(1), Get(2), Do("drop"), OnMemory("data.drop", 1)}
       \cup {OnMemory(op, k) : op \in {"memory.size", "memory.grow", "memory.fill", "memory.init"}, k \in {1, 2}}
       \cup Pairs("memory.copy", "mem", 1..3))
GlobalScene ==
  Menu(SpaceModule, Func(<<NullStruct(1)>>, 1, <<>>, 5),
       {Get(1), Do("drop"), Cast("ref.cast", StructRef(2))}
       \cup {OnGlobal(op, g) : op \in {"global.get", "global.set"}, g \in {1, 2, 3}})

\* Operands chosen by a condition, in code that is reached and that is not.
SelectScene ==
  LET some == Ref(TRUE, "eq")
  IN  Menu(Apart(<<>>), Func(<<I32, I64, some>>, 3, <<some>>, 5),
           {Get(1), Get(2), Get(3), OnLocal("local.tee", 1), Do("nop"), Do("select"), Do("drop"), Do("unreachable"),
            Null(Ref(TRUE, "i31"))}
           \cup {[op |-> "select_t", vtype |-> t] : t \in {I64, some, Ref(FALSE, "eq")}})

\* The initializer of the third global: any of its instructions in a body of its
\* own, with the type of the global for result.
ConstantModule ==
  [Together(<<StructOf(<<Field(NullStruct(1), "no", FALSE)>>), ArrayOf(Field(I32, "i8", TRUE)),
              StructOf(<<Field(I32, "no", FALSE), Field(StructRef(1), "no", FALSE)>>), FuncOf(<<>>, <<>>),
              [StructOf(<<>>) EXCEPT !.descriptor = 6], [StructOf(<<>>) EXCEPT !.describes = 5]>>)
     EXCEPT !.globals = <<[type |-> StructRef(1), mutable |-> FALSE], [type |-> I32, mutable |-> TRUE],
                          [type |-> I32, mutable |-> FALSE]>>,
            !.funcs = <<FuncEntry(4, FALSE, FALSE), FuncEntry(4, TRUE, FALSE)>>]
ConstantOf(m, type, menu) ==
  Menu(m, [Func(<<>>, 0, <<type>>, 4) EXCEPT !.global = 3], menu)
ConstantMenu ==
  {Const32, Const64, Code(\H6A), Code(\H7E), PlainInstr("simd", \H0C, 0), Code(\H6D), Do("ref.i31"),
   Do("any.convert_extern"), Do("extern.convert_any"), Null(Ref(TRUE, "extern")), CallFunc("ref.func", 1),
   CallFunc("ref.func", 2), OnType("struct.new", 1), OnType("struct.new", 3), OnType("struct.new_default", 1),
   OnType("array.new", 2), OnType("array.new_default", 2), OnType("struct.new", 6), OnType("struct.new_desc", 5),
   OnType("struct.new_default_desc", 5), [op |-> "array.new_fixed", type |-> 2, n |-> 2]}
  \cup {OnGlobal("global.get", k) : k \in 1..3}
ConstantScenes ==
  [k \in 1..5 |-> ConstantOf(ConstantModule, <<I32, Ref(TRUE, "any"), Ref(TRUE, "extern"), Exact(5), FuncRef(4)>>[k], ConstantMenu)]

-----------------------------------------------------------------------------
(* Type sections, most of which are refused: a pair of a type and what is  *)
(* declared below it, with code that would tell.                           *)

PairScene(types) ==
  Menu(Together(types), Func(<<NullStruct(2), I32, I64>>, 3, <<>>, 5),
       {Get(1), Get(2), Get(3), Do("drop"), OnField("struct.set", 1, 1, FALSE), OnField("struct.get", 1, 1, FALSE),
        OnField("struct.get", 2, 1, FALSE), OnType("struct.new_default", 1)})
Mutable(t) == Field(t, "no", TRUE)
Fixed0(t) == Field(t, "no", FALSE)
PairScenes ==
  LET Of(a, b) == PairScene(<<StructOf(<<a>>), Below(StructOf(<<b>>), 1)>>)
  IN  << Of(Fixed0(I32), Fixed0(I64)), Of(Mutable(NullStruct(1)), Mutable(NullStruct(2))),
         Of(Fixed0(NullStruct(1)), Fixed0(NullStruct(2))), Of(Fixed0(NullStruct(2)), Fixed0(NullStruct(1))),
         Of(Mutable(I32), Field(I32, "i8", TRUE)), Of(Fixed0(I32), Mutable(I32)),
         PairScene(<<StructOf(<<Mutable(I32)>>), Below(StructOf(<<>>), 1)>>),
         PairScene(<<Final(StructOf(<<Mutable(I32)>>)), Below(StructOf(<<Mutable(I32)>>), 1)>>) >>

\* A group that names a type of the next one.
ForwardScene == Menu(Apart(<<StructOf(<<Fixed0(NullStruct(2))>>), StructOf(<<>>)>>), Func(<<>>, 0, <<>>, 1), {Do("nop")})

\* Groups that are the same type under other indices, or nearly: a node that
\* names itself and one that names the first; chains through an equal type; fields
\* that differ in their exactness.
Grouped(types, lengths) ==
  LET Start[k \in 1..Len(lengths)] == IF k = 1 THEN 1 ELSE Start[k - 1] + lengths[k - 1]
  IN  Decoded([Empty EXCEPT !.types = types,
                            !.groups = [k \in DOMAIN lengths |-> [start |-> Start[k], len |-> lengths[k]]]])
SectionScene(m) == Menu(m, Func(<<>>, 0, <<>>, 1), {Do("nop")})
SectionScenes ==
  LET Ring(t) == StructOf(<<Fixed0(NullStruct(t))>>)
  IN  << SectionScene(Grouped(<<Ring(1), Ring(2), Ring(1), Ring(1)>>, <<1, 1, 1, 1>>)),
         SectionScene(Grouped(<<Ring(2), Ring(1), Ring(4), Ring(3), Ring(1), Ring(1)>>, <<2, 2, 2>>)),
         SectionScene(Apart(<<StructOf(<<>>), StructOf(<<Fixed0(Exact(1))>>), StructOf(<<Fixed0(StructRef(1))>>),
                              StructOf(<<Fixed0(NullStruct(1))>>)>>)),
         SectionScene(Apart(<<StructOf(<<>>), Below(StructOf(<<Fixed0(NullStruct(1))>>), 1),
                              Below(StructOf(<<Fixed0(NullStruct(1))>>), 1), Below(Ring(2), 3), Below(Ring(3), 2),
                              Below(StructOf(<<Fixed0(StructRef(4)), Mutable(NullStruct(2))>>), 5),
                              Below(StructOf(<<Fixed0(Exact(4)), Mutable(NullStruct(3))>>), 6)>>)),
         SectionScene(Apart(<<StructOf(<<>>), Below(StructOf(<<>>), 1), FuncOf(<<NullStruct(2)>>, <<NullStruct(1)>>),
                              Below(FuncOf(<<NullStruct(1)>>, <<NullStruct(2)>>), 3),
                              Below(FuncOf(<<NullStruct(1)>>, <<StructRef(2)>>), 4)>>)),
         SectionScene(Grouped(Described \o <<[Below(StructOf(<<Field(I32, "no", FALSE)>>), 3) EXCEPT !.descriptor = 6],
                                             [Below(StructOf(<<Field(I32, "no", FALSE)>>), 4) EXCEPT !.describes = 5]>>,
                              <<4, 2>>)) >>

\* A mutable field that a declared subtype narrows to the exact type, and a value
\* of a type below it to write there.
ExactFieldScene ==
  Menu(Together(<<StructOf(<<>>), Below(StructOf(<<>>), 1), StructOf(<<Mutable(NullStruct(1))>>),
                  Below(StructOf(<<Mutable(ExactRef(TRUE, "struct", 1))>>), 3)>>),
       Func(<<NullStruct(4), NullStruct(2)>>, 2, <<>>, 5),
       {Get(1), Get(2), Do("drop"), OnField("struct.set", 3, 1, FALSE), OnField("struct.get", 4, 1, FALSE)})
ExactFieldScenes == <<ExactFieldScene>>

MenuScenes ==
  LocalsScenes \o CatchScenes \o
  <<ControlScene, LegacyScene, CastScene, ExternScene, FieldScene, NewArrayScene,
    DescriptorScene, CallScene, IndirectScene, TailScene, TableScene, MemoryScene, GlobalScene, SelectScene>> \o PairScenes \o ArrayBodies \o ConstantScenes
  \o <<ForwardScene, ExactFieldScene>>
  \o SectionScenes
AllScenes == MenuScenes \o PlainScenes

\* A type without defaults, and a constant that makes one with them.
DefaultedScenes ==
  <<ConstantOf([ConstantModule EXCEPT !.globals[3].type = Ref(FALSE, "struct")], Ref(FALSE, "struct"),
               {OnType("struct.new_default", 3), Const32})>>
=============================================================================
