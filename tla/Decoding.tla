------------------------------ MODULE Decoding ------------------------------
(***************************************************************************)
(* Decoding a module: crates/wasmrt-core/src/module.rs.                    *)
(*                                                                         *)
(* A decoded module is the record the validator takes (Types, Typing),     *)
(* with what the file says beyond that: the limits of tables and memories, *)
(* imports, exports, segments, the start function and the bodies.  Indices *)
(* count from 1 and 0 is "none"; bounds of limits are kept as their bits,  *)
(* the lowest first; a constant expression is kept as its instructions;    *)
(* the bytes of a data segment and the name section are read and not kept. *)
(***************************************************************************)
EXTENDS Opcodes, Typing

NoModule ==
  [types |-> <<>>, groups |-> <<>>, canon |-> <<>>, funcs |-> <<>>, tables |-> <<>>, mems |-> <<>>,
   globals |-> <<>>, tags |-> <<>>, elems |-> <<>>, refs |-> {}, kinds |-> <<>>, scanned |-> 0, imports |-> <<>>,
   exports |-> <<>>, start |-> 0, elements |-> <<>>, data |-> <<>>, dataCount |-> {}, code |-> <<>>]

-----------------------------------------------------------------------------
(* Types.                                                                  *)

\* A reference to a type of the module takes that type's family, whether the
\* type came before or not.
OfFamily(kinds, t) == IF t.base = "concrete" THEN [t EXCEPT !.base = kinds[t.index]] ELSE t
HasFamily(kinds, t) == t.base = "concrete" => t.index \in DOMAIN kinds

ReadValType(r, kinds) ==
  Then(Ensure(ReadSelectType(r), LAMBDA t : HasFamily(kinds, t)), LAMBDA rest, t : Take(rest, 0, OfFamily(kinds, t)))
ReadRefType(r, kinds) == Ensure(ReadValType(r, kinds), IsRef)
Flag(r) == Ensure(ReadByte(r), LAMBDA byte : byte \in {0, 1})
Attribute(r) == ZeroByte(r)

ReadStorageType(r, kinds) ==
  LET packed == Form(r, ReadByte, LAMBDA read : Field(I32, IF read[1] = \H78 THEN "i8" ELSE "i16", FALSE))
  IN  IF NextIs(r, {\H77, \H78}) THEN packed
      ELSE Form(r, LAMBDA q : ReadValType(q, kinds), LAMBDA read : Field(read[1], "no", FALSE))
ReadFieldType(r, kinds) ==
  Form(r, LAMBDA q : Flag(ReadStorageType(q, kinds)), LAMBDA read : [read[1] EXCEPT !.mutable = read[2] = 1])

\* At most one supertype, by its index.
AtMostOne(r) ==
  Then(Ensure(VarU32(r), LAMBDA count : count <= 1), LAMBDA rest, count : IF count = 1 THEN Index(rest) ELSE Take(rest, 0, 0))
Marked(r, markers, F(_)) == IF NextIs(r, markers) THEN F(Skip(r, ReadByte)) ELSE Take(r, 0, 0)

\* Only \H50 leaves a type open for subtypes.
ReadSubPrefix(r) ==
  Form(r, LAMBDA q : Marked(Marked(Marked(q, {\H4F, \H50}, AtMostOne), {\H4C}, Index), {\H4D}, Index),
       LAMBDA read : [final |-> ~NextIs(r, {\H50}), super |-> read[1], describes |-> read[2], descriptor |-> read[3]])

\* A composite type, of parts read as the operators say.
ReadCompType(r, Values(_), Fields(_), Element(_)) ==
  LET Parts(kind, params, results, fields) == [kind |-> kind, params |-> params, results |-> results, fields |-> fields]
  IN  Then(ReadByte(r), LAMBDA rest, byte :
        CASE byte = \H60 ->
             Form(rest, LAMBDA q : Values(Values(q)), LAMBDA read : Parts("func", read[1], read[2], <<>>))
          [] byte = \H5F -> Form(rest, Fields, LAMBDA read : Parts("struct", <<>>, <<>>, read[1]))
          [] byte = \H5E -> Form(rest, Element, LAMBDA read : Parts("array", <<>>, <<>>, read))
          [] OTHER -> Fail(rest))

\* The first pass: past the types, for the kinds alone.
\* Mutant of SkipValType: a heap type is passed over as one number.
SkipValTypeAsIndex(r) ==
  Then(ReadByte(r), LAMBDA rest, byte : IF byte \in {\H63, \H64} THEN VarS33(rest) ELSE Take(rest, 0, byte))

SkipValType(r) ==
  Then(ReadByte(r), LAMBDA rest, byte : IF byte \in {\H63, \H64} THEN ReadHeapType(rest) ELSE Take(rest, 0, byte))
SkipFieldType(r) == ReadByte(IF NextIs(r, {\H77, \H78}) THEN ReadByte(r) ELSE SkipValType(r))
ScanSubType(r) ==
  LET Skipped(q) == List(q, SkipValType)
  IN  Form(r, LAMBDA q : ReadCompType(ReadSubPrefix(q), Skipped, LAMBDA p : List(p, SkipFieldType), SkipFieldType),
           LAMBDA read : read[2].kind)

\* The second pass, with the kinds known.
ReadSubType(r, kinds) ==
  LET Value(q) == ReadValType(q, kinds)
      FieldOf(q) == ReadFieldType(q, kinds)
  IN  Form(r, LAMBDA q : ReadCompType(ReadSubPrefix(q), LAMBDA p : Vec(p, Value), LAMBDA p : Vec(p, FieldOf), FieldOf),
           LAMBDA read : read[1] @@ read[2])

\* The groups of a type section; a type outside of any is a group of its own.
RecGroups(r, SubType(_)) ==
  List(r, LAMBDA q : IF NextIs(q, {\H4E}) THEN List(Skip(q, ReadByte), SubType)
                     ELSE Form(q, SubType, LAMBDA read : read))

TypesOf(m, groups) ==
  LET Start[k \in 1..(Len(groups) + 1)] == IF k = 1 THEN 1 ELSE Start[k - 1] + Len(groups[k - 1])
  IN  Decoded([m EXCEPT !.types = FlattenSeq(groups),
                        !.groups = [k \in DOMAIN groups |-> [start |-> Start[k], len |-> Len(groups[k])]]])

\* A supertype comes before its subtypes.
SupersComeFirst(groups) == \A k \in DOMAIN FlattenSeq(groups) : FlattenSeq(groups)[k].super < k

TypeSectionOf(m, r) ==
  LET Both(read, kinds, end) ==
        IF read.ok /\ SupersComeFirst(Got(read))
        THEN [read EXCEPT !.out = <<[TypesOf(m, Got(read)) EXCEPT !.kinds = kinds, !.scanned = end - read.pos]>>]
        ELSE Fail(r)
  IN  Then(RecGroups(r, ScanSubType), LAMBDA rest, scan :
        LET kinds == FlattenSeq(scan) IN Both(RecGroups(r, LAMBDA q : ReadSubType(q, kinds)), kinds, rest.pos))

-----------------------------------------------------------------------------
(* The other sections.                                                     *)

\* core::str::from_utf8.
Utf8(bytes) ==
  LET Size(b) == CASE b < \H80 -> 1 [] b \in \HC2..\HDF -> 2 [] b \in \HE0..\HEF -> 3 [] b \in \HF0..\HF4 -> 4 [] OTHER -> 0
      Second(b) == CASE b = \HE0 -> \HA0..\HBF [] b = \HED -> \H80..\H9F [] b = \HF0 -> \H90..\HBF
                     [] b = \HF4 -> \H80..\H8F [] OTHER -> \H80..\HBF
      Character(k) == LET n == Size(bytes[k])
                      IN  /\ n > 0 /\ k + n - 1 <= Len(bytes)
                          /\ n > 1 => bytes[k + 1] \in Second(bytes[k])
                          /\ \A i \in 2..(n - 1) : bytes[k + i] \in \H80..\HBF
      From[k \in 1..(Len(bytes) + 1)] == k > Len(bytes) \/ (Character(k) /\ From[k + Size(bytes[k])])
  IN  From[1]

ByteVec(r) == Then(VarU32(r), LAMBDA rest, len : ReadBytes(rest, len))
ReadName(r) == Ensure(ByteVec(r), Utf8)

\* Limits: bit 0 of the flag says there is a maximum, bit 1 shared, bit 2 that
\* indices are 64-bit, bit 3 that the exponent of a page size follows.
ReadLimitsFlagged(r) ==
  LET Maybe(has, q, F(_)) == IF has THEN Form(q, F, LAMBDA read : read) ELSE Take(q, 0, <<>>)
      Page(q) == Ensure(VarU32(q), LAMBDA e : e < 64)
  IN  Then(Ensure(ReadByte(r), LAMBDA flag : flag <= \H0F), LAMBDA rest, flag :
        Form(rest, LAMBDA q : Maybe(Bit(flag, 3) = 1, Maybe(Bit(flag, 0) = 1, BitsU64(q), BitsU64), Page),
             LAMBDA read : [min |-> read[1], max |-> read[2], page |-> read[3], shared |-> Bit(flag, 1) = 1,
                            is64 |-> Bit(flag, 2) = 1]))
ReadMemoryType(r) == ReadLimitsFlagged(r)
ReadLimits(r) == Ensure(ReadLimitsFlagged(r), LAMBDA limits : limits.page = <<>>)

ReadTableType(r, kinds) ==
  Ensure(Form(r, LAMBDA q : ReadLimits(ReadRefType(q, kinds)), LAMBDA read : [elem |-> read[1], init |-> <<>>] @@ read[2]),
         LAMBDA table : ~table.shared)
ReadGlobalType(r, kinds) ==
  Form(r, LAMBDA q : Flag(ReadValType(q, kinds)), LAMBDA read : [type |-> read[1], mutable |-> read[2] = 1, init |-> <<>>])

FuncTypeAt(m, t) == t \in DOMAIN m.types /\ m.types[t].kind = "func"
ReadFuncType(r, m) == Ensure(Index(r), LAMBDA t : FuncTypeAt(m, t))
ReadTagType(r, m) == ReadFuncType(Attribute(r), m)

ExternKinds == <<"func", "table", "memory", "global", "tag">>
ReadExternKind(r) ==
  Then(Ensure(ReadByte(r), LAMBDA byte : byte < 5), LAMBDA rest, byte : Take(rest, 0, ExternKinds[byte + 1]))

ReadExtern(r, kind, m) ==
  CASE kind = "func"   -> ReadFuncType(r, m)
    [] kind = "table"  -> ReadTableType(r, m.kinds)
    [] kind = "memory" -> ReadMemoryType(r)
    [] kind = "global" -> ReadGlobalType(r, m.kinds)
    [] kind = "tag"    -> ReadTagType(r, m)

\* \H20 is the import of a function at exactly its type.
ReadImport(r, m) ==
  LET Kind(q) == IF NextIs(q, {\H20}) THEN Take(Skip(q, ReadByte), 0, "exact") ELSE ReadExternKind(q)
      Type(q) == IF ~q.ok THEN q ELSE ReadExtern(q, IF Got(q) = "exact" THEN "func" ELSE Got(q), m)
  IN  Form(r, LAMBDA q : Type(Kind(ReadName(ReadName(q)))),
           LAMBDA read : [kind |-> IF read[3] = "exact" THEN "func" ELSE read[3], exact |-> read[3] = "exact", entry |-> read[4]])

Imported(m, imports) ==
  LET Entries(kind) == [k \in DOMAIN SelectSeq(imports, LAMBDA i : i.kind = kind) |->
                          SelectSeq(imports, LAMBDA i : i.kind = kind)[k].entry]
      funcs == SelectSeq(imports, LAMBDA i : i.kind = "func")
  IN  [m EXCEPT !.imports = imports,
                !.funcs = [k \in DOMAIN funcs |-> [type |-> funcs[k].entry, imported |-> TRUE, exact |-> funcs[k].exact]],
                !.tables = Entries("table"), !.mems = Entries("memory"),
                !.globals = Entries("global"), !.tags = Entries("tag")]

Defined(types) == [k \in DOMAIN types |-> [type |-> types[k], imported |-> FALSE, exact |-> FALSE]]

\* A table that does not say what its entries start as starts with nulls, which its
\* type has to have.
ReadTable(r, m) ==
  LET Filled(q) == ReadExpr(ReadTableType(ZeroByte(Skip(q, ReadByte)), m.kinds))
  IN  IF NextIs(r, {\H40}) THEN Form(r, Filled, LAMBDA read : [read[1] EXCEPT !.init = <<read[2]>>])
      ELSE Ensure(ReadTableType(r, m.kinds), LAMBDA table : ~IsNonNullRef(table.elem))
ReadGlobal(r, m) ==
  Form(r, LAMBDA q : ReadExpr(ReadGlobalType(q, m.kinds)), LAMBDA read : [read[1] EXCEPT !.init = <<read[2]>>])

Space(m, kind) ==
  CASE kind = "func" -> DOMAIN m.funcs [] kind = "table" -> DOMAIN m.tables [] kind = "memory" -> DOMAIN m.mems
    [] kind = "global" -> DOMAIN m.globals [] kind = "tag" -> DOMAIN m.tags
ReadExport(r, m) ==
  Ensure(Form(r, LAMBDA q : Index(ReadExternKind(ReadName(q))),
              LAMBDA read : [name |-> read[1], kind |-> read[2], index |-> read[3]]),
         LAMBDA export : export.index \in Space(m, export.kind))

\* An element segment: bit 0 of the flags is clear for an active one, bit 1 says
\* that it names its table or is only declared, bit 2 that its items are
\* expressions.
ReadElementAs(r, flags, m) ==
  LET bit(k) == Bit(flags, k) = 1
      active == ~bit(0)
      Table(q) == IF active /\ bit(1) THEN Index(q) ELSE Take(q, 0, 1)
      Offset(q) == IF active THEN ReadExpr(q) ELSE Take(q, 0, <<>>)
      Type(q) == CASE bit(2) /\ flags # 4  -> ReadRefType(q, m.kinds)
                   [] bit(2) /\ flags = 4  -> Take(q, 0, Ref(TRUE, "func"))
                   [] ~bit(2)              -> Take(IF flags = 0 THEN q ELSE ZeroByte(q), 0, Ref(FALSE, "func"))
      Items(q) == IF bit(2) THEN Vec(q, ReadExpr) ELSE Vec(q, Index)
  IN  Form(r, LAMBDA q : Items(Type(Offset(Table(q)))),
           LAMBDA read : [active |-> active, table |-> read[1], offset |-> read[2], elem |-> read[3],
                          funcs |-> IF bit(2) THEN <<>> ELSE read[4], exprs |-> IF bit(2) THEN read[4] ELSE <<>>])
ReadElement(r, m) == Then(Ensure(VarU32(r), LAMBDA flags : flags <= 7), LAMBDA rest, flags : ReadElementAs(rest, flags, m))

ReadData(r) ==
  LET Memory(q, flags) == IF flags = 2 THEN Index(q) ELSE Take(q, 0, 1)
      Offset(q, flags) == IF flags # 1 THEN ReadExpr(q) ELSE Take(q, 0, <<>>)
  IN  Then(Ensure(VarU32(r), LAMBDA flags : flags <= 2), LAMBDA rest, flags :
        Form(rest, LAMBDA q : ByteVec(Offset(Memory(q, flags), flags)),
             LAMBDA read : [active |-> flags # 1, mem |-> read[1], offset |-> read[2]]))

\* A body is read within its own bytes, and ends with them.
ReadLocals(r, m) ==
  Vec(r, LAMBDA q : Form(q, LAMBDA p : ReadValType(VarU32(p), m.kinds), LAMBDA read : [count |-> read[1], type |-> read[2]]))
ReadCode(r, m) ==
  LET Body(rest, read) == IF read.ok THEN Take(rest, 0, [locals |-> read.out[1], body |-> read.out[2]]) ELSE Fail(rest)
  IN  Then(ByteVec(r), LAMBDA rest, entry : Body(rest, DecodeBody(ReadLocals(Reader(entry), m))))

-----------------------------------------------------------------------------
(* The module.                                                             *)

\* The sections in the order they may appear in; a custom section may be
\* anywhere.
SectionIds == <<1, 2, 3, 4, 5, 13, 6, 7, 8, 9, 12, 10, 11>>
SectionOrder(id) == CHOOSE k \in DOMAIN SectionIds : SectionIds[k] = id

\* The module with what the payload of a section says.
DecodeSection(m, id, r) ==
  LET With(F(_), Mk(_)) == Form(r, F, LAMBDA read : Mk(read[1]))
  IN  CASE id = 0  -> Take(ReadName(r), 0, m)
        [] id = 1  -> TypeSectionOf(m, r)
        [] id = 2  -> With(LAMBDA q : Vec(q, LAMBDA p : ReadImport(p, m)), LAMBDA list : Imported(m, list))
        [] id = 3  -> With(LAMBDA q : Vec(q, LAMBDA p : ReadFuncType(p, m)), LAMBDA list : [m EXCEPT !.funcs = @ \o Defined(list)])
        [] id = 4  -> With(LAMBDA q : List(q, LAMBDA p : ReadTable(p, m)), LAMBDA list : [m EXCEPT !.tables = @ \o list])
        [] id = 5  -> With(LAMBDA q : List(q, ReadMemoryType), LAMBDA list : [m EXCEPT !.mems = @ \o list])
        [] id = 6  -> With(LAMBDA q : List(q, LAMBDA p : ReadGlobal(p, m)), LAMBDA list : [m EXCEPT !.globals = @ \o list])
        [] id = 7  -> With(LAMBDA q : Vec(q, LAMBDA p : ReadExport(p, m)), LAMBDA list : [m EXCEPT !.exports = list])
        [] id = 8  -> With(Index, LAMBDA start : [m EXCEPT !.start = start])
        [] id = 9  -> With(LAMBDA q : Vec(q, LAMBDA p : ReadElement(p, m)), LAMBDA list : [m EXCEPT !.elements = list])
        [] id = 10 -> With(LAMBDA q : Vec(q, LAMBDA p : ReadCode(p, m)), LAMBDA list : [m EXCEPT !.code = list])
        [] id = 11 -> With(LAMBDA q : Vec(q, ReadData), LAMBDA list : [m EXCEPT !.data = list])
        [] id = 12 -> With(VarU32, LAMBDA n : [m EXCEPT !.dataCount = {n}])
        [] id = 13 -> With(LAMBDA q : Vec(q, LAMBDA p : ReadTagType(p, m)), LAMBDA list : [m EXCEPT !.tags = @ \o list])

\* \0asm, version 1.
Preamble == <<0, \H61, \H73, \H6D, 1, 0, 0, 0>>
Header(r) == Skip(r, LAMBDA q : Ensure(ReadBytes(q, 8), LAMBDA bytes : bytes = Preamble))

\* The next section: its contents take up the size it declares.  The reader leaves
\* the module; last is the place in the order of the section before it.
NextSection(r, last, m) ==
  LET refused == [ok |-> FALSE, r |-> Fail(r), last |-> last, m |-> m]
      Place(id) == IF id = 0 THEN last ELSE SectionOrder(id)
      Contents(rest, id, read) ==
        IF read.ok /\ (id # 0 => AtEnd(read))
        THEN [ok |-> TRUE, r |-> rest, last |-> Place(id), m |-> Last(read.out)] ELSE refused
      Payload(id, payload) ==
        IF payload.ok THEN Contents([payload EXCEPT !.out = <<>>], id, DecodeSection(m, id, Reader(Got(payload)))) ELSE refused
      Section(read) ==
        IF read.ok /\ Got(read) <= 13 /\ (Got(read) # 0 => Place(Got(read)) > last)
        THEN Payload(Got(read), ByteVec(read)) ELSE refused
  IN  Section(ReadByte([r EXCEPT !.out = <<>>]))

DefinedFuncs(m) == SelectSeq(m.funcs, LAMBDA f : ~f.imported)
NamesData == {"memory.init", "data.drop", "array.new_data", "array.init_data"}

\* What the sections have to agree on, when the file has ended.
SectionsAgree(m) ==
  /\ Len(DefinedFuncs(m)) = Len(m.code)
  /\ IF m.dataCount # {} THEN m.dataCount = {Len(m.data)}
     ELSE \A k \in DOMAIN m.code : \A i \in DOMAIN m.code[k].body : m.code[k].body[i].op \notin NamesData
=============================================================================
