------------------------------ MODULE Opcodes ------------------------------
(***************************************************************************)
(* The binary form of instructions: crates/wasmrt-core/src/opcode.rs.      *)
(*                                                                         *)
(* An instruction is read as the record Validation and Interp take, with   *)
(* two differences.  A reference to a type of the module has "concrete"    *)
(* for base: only the type section says which kind of type it is.  And a   *)
(* block type is [index] or [results].  Indices count from 1; a constant,  *)
(* a lane, the bytes of a shuffle and an offset that fits 32 bits are      *)
(* read and not kept.                                                      *)
(***************************************************************************)
EXTENDS Bytes, Types, Signatures, TLC

MaxConcreteIndex == 2 ^ 27 - 1

Index(r) == Form(r, VarU32, LAMBDA read : read[1] + 1)
Skip(r, F(_)) == [F(r) EXCEPT !.out = r.out]

-----------------------------------------------------------------------------
(* Types in the code.                                                      *)

AbstractHeaps ==
  (-16 :> "func") @@ (-17 :> "extern") @@ (-18 :> "any") @@ (-19 :> "eq") @@ (-20 :> "i31")
  @@ (-21 :> "struct") @@ (-22 :> "array") @@ (-23 :> "exn") @@ (-12 :> "noexn") @@ (-13 :> "nofunc")
  @@ (-14 :> "noextern") @@ (-15 :> "none")

\* The heap type, as a reference that is not null.
ReadHeapType(r) ==
  Then(VarS33(r), LAMBDA rest, v :
    CASE v >= 0  -> Take(Check(rest, v <= MaxConcreteIndex), 0, TypeRef(FALSE, "concrete", v + 1))
      [] v = -30 -> Then(Ensure(VarU32(rest), LAMBDA index : index <= MaxConcreteIndex),
                         LAMBDA after, index : Take(after, 0, ExactRef(FALSE, "concrete", index + 1)))
      [] OTHER   -> Take(Check(rest, v \in DOMAIN AbstractHeaps), 0, Ref(FALSE, AbstractHeaps[v])))

ReadRef(r, null) == Form(r, ReadHeapType, LAMBDA read : [read[1] EXCEPT !.null = null])

\* A value type whose first byte was read as v.
ReadValueTypeFrom(r, v) ==
  LET numbers == <<"i32", "i64", "f32", "f64", "v128">>
      Known(type) == Take(r, 0, type)
  IN  CASE -v \in DOMAIN numbers      -> Known(Num(numbers[-v]))
        [] v \in {-29, -28}           -> ReadRef(r, v = -29)
        [] v \in DOMAIN AbstractHeaps -> Known(Ref(TRUE, AbstractHeaps[v]))
        [] OTHER                      -> Fail(r)

ReadBlockType(r) ==
  Then(VarS33(r), LAMBDA rest, v :
    CASE v >= 0  -> Take(rest, 0, [index |-> v + 1])
      [] v = -64 -> Take(rest, 0, [results |-> <<>>])
      [] OTHER   -> Form(rest, LAMBDA q : ReadValueTypeFrom(q, v), LAMBDA types : [results |-> types]))

ReadSelectType(r) == Then(ReadByte(r), LAMBDA rest, byte : ReadValueTypeFrom(rest, byte - 128))

-----------------------------------------------------------------------------
(* Immediates.                                                             *)

\* An alignment exponent, with 64 added when a memory index follows.
MemArgFlags(r) == Ensure(VarU32(r), LAMBDA flags : flags < 128)
MemArgMemory(r) == IF r.ok /\ Got(r) >= 64 THEN Index(r) ELSE Take(r, 0, 1)
ReadMemArg(r) ==
  LET Fields(read) == IF r.ok /\ read.ok
                      THEN [read EXCEPT !.out = r.out \o <<read.out[1] % 64, read.out[2],
                                                           \E i \in 33..64 : read.out[3][i] = 1>>]
                      ELSE Fail(r)
  IN  Fields(BitsU64(MemArgMemory(MemArgFlags([r EXCEPT !.out = <<>>]))))

CatchKinds == <<"catch", "catch_ref", "catch_all", "catch_all_ref">>
ReadCatch(r) ==
  Then(Ensure(ReadByte(r), LAMBDA kind : kind < 4), LAMBDA rest, kind :
    Form(rest, LAMBDA q : VarU32(IF kind < 2 THEN Index(q) ELSE Take(q, 0, 1)),
         LAMBDA read : [kind |-> CatchKinds[kind + 1], tag |-> read[1], label |-> read[2]]))

\* The flags of a cast branch say which of its two types are nullable.
ReadBrCast(r) ==
  Then(Ensure(ReadByte(r), LAMBDA flags : flags < 4), LAMBDA rest, flags :
    ReadRef(ReadRef(VarU32(rest), Bit(flags, 0) = 1), Bit(flags, 1) = 1))

ZeroByte(r) == Skip(r, LAMBDA q : Ensure(ReadByte(q), LAMBDA byte : byte = 0))
Lane(r, lanes) == Skip(r, LAMBDA q : Ensure(ReadByte(q), LAMBDA lane : lane < lanes))
SixteenBytes(r, limit) ==
  Skip(r, LAMBDA q : Ensure(ReadBytes(q, 16), LAMBDA bytes : \A k \in 1..16 : bytes[k] < limit))

\* One immediate; memarg and brcast leave three values.
ReadImmediate(r, kind) ==
  CASE kind = "index"    -> Index(r)
    [] kind = "count"    -> VarU32(r)
    [] kind = "indices"  -> Vec(r, VarU32)
    [] kind = "block"    -> ReadBlockType(r)
    [] kind = "types"    -> Vec(r, ReadSelectType)
    [] kind = "ref"      -> ReadRef(r, FALSE)
    [] kind = "ref null" -> ReadRef(r, TRUE)
    [] kind = "memarg"   -> ReadMemArg(r)
    [] kind = "catches"  -> Vec(r, ReadCatch)
    [] kind = "brcast"   -> ReadBrCast(r)
    [] kind = "i32"      -> Skip(r, BitsI32)
    [] kind = "i64"      -> Skip(r, BitsI64)
    [] kind = "f32"      -> Skip(r, LAMBDA q : ReadBytes(q, 4))
    [] kind = "f64"      -> Skip(r, LAMBDA q : ReadBytes(q, 8))
    [] kind = "zero"     -> ZeroByte(r)
    [] kind = "16 bytes" -> SixteenBytes(r, 256)
    [] kind = "shuffle"  -> SixteenBytes(r, 32)
    [] kind = "2 lanes"  -> Lane(r, 2)
    [] kind = "4 lanes"  -> Lane(r, 4)
    [] kind = "8 lanes"  -> Lane(r, 8)
    [] kind = "16 lanes" -> Lane(r, 16)
    [] kind = "yes"      -> Take(r, 0, TRUE)
    [] kind = "no"       -> Take(r, 0, FALSE)

-----------------------------------------------------------------------------
(* Formats.  A field is the names of what it leaves, and its kind.         *)

Named(name, kind) == <<name, kind>>
MemArg == <<"align", "mem", "wide", "memarg">>
Casts == <<"label", "src", "to", "brcast">>

Format(op, fields) == [op |-> op, fields |-> fields]
Bare(op) == Format(op, <<>>)
Of(op, name) == Format(op, <<Named(name, "index")>>)
OfTwo(op, first, second) == Format(op, <<Named(first, "index"), Named(second, "index")>>)
OfType(op) == Of(op, "type")
OfLabel(op) == Format(op, <<Named("label", "count")>>)
OfRef(op, kind) == Format(op, <<Named("to", kind)>>)
OfCasts(op) == Format(op, <<Casts>>)
Opening(op) == Format(op, <<Named("bt", "block")>>)
GetsField(packed) == Format("struct.get", <<Named("type", "index"), Named("field", "index"), Named("signed", packed)>>)
GetsElem(packed) == Format("array.get", <<Named("type", "index"), Named("signed", packed)>>)

Structured ==
  (\H00 :> Bare("unreachable")) @@ (\H01 :> Bare("nop")) @@ (\H02 :> Opening("block")) @@ (\H03 :> Opening("loop"))
  @@ (\H04 :> Opening("if")) @@ (\H05 :> Bare("else")) @@ (\H06 :> Opening("try")) @@ (\H07 :> Of("catch", "tag"))
  @@ (\H08 :> Of("throw", "tag")) @@ (\H09 :> OfLabel("rethrow")) @@ (\H0A :> Bare("throw_ref"))
  @@ (\H0B :> Bare("end")) @@ (\H0C :> OfLabel("br")) @@ (\H0D :> OfLabel("br_if"))
  @@ (\H0E :> Format("br_table", <<Named("labels", "indices"), Named("label", "count")>>))
  @@ (\H0F :> Bare("return")) @@ (\H18 :> OfLabel("delegate")) @@ (\H19 :> Bare("catch_all"))
  @@ (\H1F :> Format("try_table", <<Named("bt", "block"), Named("catches", "catches")>>))
  @@ (\HD5 :> OfLabel("br_on_null")) @@ (\HD6 :> OfLabel("br_on_non_null"))

OtherBytes ==
  (\H10 :> Of("call", "func")) @@ (\H11 :> OfTwo("call_indirect", "type", "table"))
  @@ (\H12 :> Of("return_call", "func")) @@ (\H13 :> OfTwo("return_call_indirect", "type", "table"))
  @@ (\H14 :> OfType("call_ref")) @@ (\H15 :> OfType("return_call_ref"))
  @@ (\H1A :> Bare("drop")) @@ (\H1B :> Bare("select"))
  @@ (\H1C :> Format("select_t", <<Named("vtypes", "types")>>))
  @@ (\H20 :> Of("local.get", "local")) @@ (\H21 :> Of("local.set", "local")) @@ (\H22 :> Of("local.tee", "local"))
  @@ (\H23 :> Of("global.get", "global")) @@ (\H24 :> Of("global.set", "global"))
  @@ (\H25 :> Of("table.get", "table")) @@ (\H26 :> Of("table.set", "table"))
  @@ (\H3F :> Of("memory.size", "mem")) @@ (\H40 :> Of("memory.grow", "mem"))
  @@ (\HD0 :> Format("ref.null", <<Named("vtype", "ref null")>>)) @@ (\HD1 :> Bare("ref.is_null"))
  @@ (\HD2 :> Of("ref.func", "func")) @@ (\HD3 :> Bare("ref.eq")) @@ (\HD4 :> Bare("ref.as_non_null"))

\* The instructions behind \HFB: structs, arrays, casts and descriptors.
GcFormats ==
  (0 :> OfType("struct.new")) @@ (1 :> OfType("struct.new_default")) @@ (2 :> GetsField("no"))
  @@ (3 :> GetsField("yes")) @@ (4 :> GetsField("yes"))
  @@ (5 :> OfTwo("struct.set", "type", "field")) @@ (6 :> OfType("array.new")) @@ (7 :> OfType("array.new_default"))
  @@ (8 :> Format("array.new_fixed", <<Named("type", "index"), Named("n", "count")>>))
  @@ (9 :> OfTwo("array.new_data", "type", "data")) @@ (10 :> OfTwo("array.new_elem", "type", "seg"))
  @@ (11 :> GetsElem("no")) @@ (12 :> GetsElem("yes")) @@ (13 :> GetsElem("yes")) @@ (14 :> OfType("array.set"))
  @@ (15 :> Bare("array.len")) @@ (16 :> OfType("array.fill")) @@ (17 :> OfTwo("array.copy", "type", "from"))
  @@ (18 :> OfTwo("array.init_data", "type", "data")) @@ (19 :> OfTwo("array.init_elem", "type", "seg"))
  @@ (20 :> OfRef("ref.test", "ref")) @@ (21 :> OfRef("ref.test", "ref null"))
  @@ (22 :> OfRef("ref.cast", "ref")) @@ (23 :> OfRef("ref.cast", "ref null"))
  @@ (24 :> OfCasts("br_on_cast")) @@ (25 :> OfCasts("br_on_cast_fail"))
  @@ (26 :> Bare("any.convert_extern")) @@ (27 :> Bare("extern.convert_any")) @@ (28 :> Bare("ref.i31"))
  @@ (29 :> Bare("i31.get")) @@ (30 :> Bare("i31.get"))
  @@ (32 :> OfType("struct.new_desc")) @@ (33 :> OfType("struct.new_default_desc")) @@ (34 :> OfType("ref.get_desc"))
  @@ (35 :> OfRef("ref.cast_desc_eq", "ref")) @@ (36 :> OfRef("ref.cast_desc_eq", "ref null"))
  @@ (37 :> OfCasts("br_on_cast_desc_eq")) @@ (38 :> OfCasts("br_on_cast_desc_eq_fail"))

\* The instructions behind \HFC that are not arithmetic.
BulkFormats ==
  (8 :> OfTwo("memory.init", "data", "mem")) @@ (9 :> Of("data.drop", "data")) @@ (10 :> OfTwo("memory.copy", "mem", "from"))
  @@ (11 :> Of("memory.fill", "mem")) @@ (12 :> OfTwo("table.init", "elem", "table")) @@ (13 :> Of("elem.drop", "elem"))
  @@ (14 :> OfTwo("table.copy", "table", "from")) @@ (15 :> Of("table.grow", "table"))
  @@ (16 :> Of("table.size", "table")) @@ (17 :> Of("table.fill", "table"))

ByteFormat(b) ==
  CASE b \in DOMAIN Structured -> {Structured[b]}
    [] b \in DOMAIN OtherBytes -> {OtherBytes[b]}
    [] b \in \H28..\H3E        -> {Format("simple", <<MemArg>>)}
    [] b \in \H41..\H44        -> {Format("simple", << << <<"i32", "i64", "f32", "f64">>[b - \H40] >> >>)}
    [] b \in \H45..\HC4        -> {Bare("simple")}
    [] OTHER                   -> {}

GcFormat(sub) == IF sub \in DOMAIN GcFormats THEN {GcFormats[sub]} ELSE {}

MiscFormat(sub) ==
  CASE sub \in DOMAIN BulkFormats       -> {BulkFormats[sub]}
    [] sub \in 0..7 \cup \H13..\H16     -> {Bare("simple")}
    [] OTHER                            -> {}

LaneKind(sub) ==
  CASE sub \in \H15..\H17 \cup {\H54, \H58}             -> "16 lanes"
    [] sub \in \H18..\H1A \cup {\H55, \H59}             -> "8 lanes"
    [] sub \in {\H1B, \H1C, \H1F, \H20, \H56, \H5A}      -> "4 lanes"
    [] sub \in {\H1D, \H1E, \H21, \H22, \H57, \H5B}      -> "2 lanes"

SimdFormat(sub) ==
  CASE sub \in \H00..\H0B \cup {\H5C, \H5D} -> {Format("simd", <<MemArg>>)}
    [] sub \in \H54..\H5B                  -> {Format("simd", <<MemArg, <<LaneKind(sub)>> >>)}
    [] sub = \H0C                          -> {Format("simd", << <<"16 bytes">> >>)}
    [] sub = \H0D                          -> {Format("simd", << <<"shuffle">> >>)}
    [] sub \in \H15..\H22                  -> {Format("simd", << <<LaneKind(sub)>> >>)}
    [] OTHER -> IF sub <= \H113 /\ SimdAssigned(sub) THEN {Bare("simd")} ELSE {}

AtomicFormat(sub) ==
  CASE sub = 3                          -> {Format("atomic", << <<"zero">> >>)}
    [] sub \in 0..2 \cup \H10..\H4E      -> {Format("atomic", <<MemArg>>)}
    [] OTHER                            -> {}

-----------------------------------------------------------------------------
(* Instructions and expressions.                                           *)

PrefixBytes == \HFB..\HFE

\* The byte and the sub-opcode, which is 0 for an instruction without a prefix.
ReadOpcode(r) ==
  LET Sub(byte) == IF byte.ok /\ Got(byte) \in PrefixBytes THEN VarU32(byte) ELSE Take(byte, 0, 0)
  IN  Form(r, LAMBDA q : Sub(ReadByte(q)), LAMBDA read : read)

FormatOf(b, sub) ==
  CASE b = \HFB -> GcFormat(sub)
    [] b = \HFC -> MiscFormat(sub)
    [] b = \HFD -> SimdFormat(sub)
    [] b = \HFE -> AtomicFormat(sub)
    [] OTHER   -> ByteFormat(b)

CodeOf(b, sub) == CASE b = \HFC -> \HFC00 + sub [] b \in {\HFD, \HFE} -> sub [] OTHER -> b

\* The record of an instruction: what its format names, and for the instructions
\* told apart by their code what they do not access.
Instruction(format, code, values) ==
  LET names == FlattenSeq([k \in DOMAIN format.fields |-> Front(format.fields[k])])
      named == [name \in ToSet(names) |-> values[CHOOSE k \in DOMAIN names : names[k] = name]]
      access == [align |-> 0, mem |-> 1, wide |-> FALSE]
  IN  IF format.op \in {"simple", "simd", "atomic"}
      THEN named @@ [op |-> format.op, code |-> code] @@ access
      ELSE named @@ [op |-> format.op]

ReadImmediates(r, format, code) ==
  Form(r, LAMBDA q : FoldLeft(LAMBDA a, field : ReadImmediate(a, Last(field)), q, format.fields),
       LAMBDA values : Instruction(format, code, values))

ReadInstr(r) ==
  LET Formatted(rest, formats, code) ==
        IF formats = {} THEN Fail(rest) ELSE ReadImmediates(rest, CHOOSE f \in formats : TRUE, code)
  IN  Then(ReadOpcode(r), LAMBDA rest, opcode :
        Formatted(rest, FormatOf(opcode[1], opcode[2]), CodeOf(opcode[1], opcode[2])))

ControlDepth(depth, op) ==
  CASE op \in {"block", "loop", "if", "try", "try_table"} -> depth + 1
    [] op \in {"end", "delegate"} -> depth - 1
    [] OTHER -> depth

\* The instructions of an expression, up to the end that closes it.
RECURSIVE Instructions(_, _)
Instructions(r, depth) ==
  LET After(next) == IF next.ok THEN Instructions(next, ControlDepth(depth, Got(next).op)) ELSE next
  IN  IF ~r.ok \/ depth = 0 THEN r ELSE After(ReadInstr(r))

ReadExpr(r) == Form(r, LAMBDA q : Instructions(q, 1), LAMBDA instrs : instrs)

\* A whole body: nothing follows its end.
DecodeBody(r) ==
  LET Whole(read) == Check(read, AtEnd(read))
  IN  Whole(ReadExpr(r))
=============================================================================
