----------------------------- MODULE Admission -----------------------------
(***************************************************************************)
(* What a decoded module has to pass before it may run:                    *)
(* validate_with_features of crates/wasmrt-core/src/validate.rs.           *)
(*                                                                         *)
(* Step of Validation takes instructions whose indices are in range and    *)
(* whose types are resolved; here they are checked and resolved first.     *)
(***************************************************************************)
EXTENDS Validation, Features

CONSTANT MaxLocals

ASSUME MaxLocalsAssumption == MaxLocals \in Nat

-----------------------------------------------------------------------------
(* Instructions as they were decoded.                                      *)

TypesOfKind(m, kind) == {t \in DOMAIN m.types : m.types[t].kind = kind}

\* Where the index of an immediate has to be.
IndexSpace(m, f, instr, name) ==
  CASE name = "local"  -> DOMAIN f.locals
    [] name = "global" -> DOMAIN m.globals
    [] name = "func"   -> DOMAIN m.funcs
    [] name = "table"  -> DOMAIN m.tables
    [] name = "tag"    -> DOMAIN m.tags
    [] name = "elem"   -> DOMAIN m.elements
    [] name = "seg"    -> DOMAIN m.elements
    [] name = "data"   -> DOMAIN m.data
    [] name = "mem"    -> DOMAIN m.mems
    [] name = "from"   -> CASE instr.op = "table.copy" -> DOMAIN m.tables [] instr.op = "memory.copy" -> DOMAIN m.mems
                            [] OTHER -> TypesOfKind(m, "array")
    [] name = "type"   -> CASE instr.op \in OpsOf("call") -> TypesOfKind(m, "func")
                            [] instr.op \in OpsOf("new struct") \cup OpsOf("struct") -> TypesOfKind(m, "struct")
                            [] OTHER -> TypesOfKind(m, "array")
    [] name = "field"  -> DOMAIN m.types[instr.type].fields

AccessesMemory(instr) ==
  CASE instr.op = "simple" -> SimpleSig(instr.code).pop # <<>> /\ Head(SimpleSig(instr.code).pop) = "address"
    [] instr.op = "simd"   -> SimdIsMemoryOp(instr.code)
    [] instr.op = "atomic" -> instr.code # 3
    [] OTHER               -> TRUE

\* The immediates that are indices; a field is looked up in a type that is there.
Indices(instr) ==
  DOMAIN instr \cap ({"local", "global", "func", "table", "tag", "elem", "seg", "data", "from", "type"}
                     \cup IF AccessesMemory(instr) THEN {"mem"} ELSE {})
IndicesInRange(m, f, instr) ==
  /\ \A name \in Indices(instr) : instr[name] \in IndexSpace(m, f, instr, name)
  /\ "field" \in DOMAIN instr => instr.field \in IndexSpace(m, f, instr, "field")
  /\ "catches" \in DOMAIN instr =>
       \A c \in ToSet(instr.catches) : c.kind \in {"catch", "catch_ref"} => c.tag \in DOMAIN m.tags

TypesKnown(m, instr) ==
  /\ \A name \in DOMAIN instr \cap {"vtype", "to", "src"} : HasFamily(m.kinds, instr[name])
  /\ instr.op = "select_t" => Len(instr.vtypes) = 1 /\ HasFamily(m.kinds, instr.vtypes[1])
  /\ "bt" \in DOMAIN instr =>
       IF "index" \in DOMAIN instr.bt THEN FuncTypeAt(m, instr.bt.index)
       ELSE \A v \in ToSet(instr.bt.results) : HasFamily(m.kinds, v)

BlockSig(m, bt) ==
  IF "index" \in DOMAIN bt THEN FuncSig(m, bt.index)
  ELSE [params |-> <<>>, results |-> [k \in DOMAIN bt.results |-> OfFamily(m.kinds, bt.results[k])]]

Resolved(m, instr) ==
  IF instr.op = "select_t" THEN [op |-> "select_t", vtype |-> OfFamily(m.kinds, instr.vtypes[1])]
  ELSE [name \in DOMAIN instr |->
          CASE name \in {"vtype", "to", "src"} -> OfFamily(m.kinds, instr[name])
            [] name = "bt" -> BlockSig(m, instr.bt)
            [] OTHER -> instr[name]]

-----------------------------------------------------------------------------
(* Bodies and constant expressions.                                        *)

\* Needs(_) of each of the instructions is on.
Checks(m, f, body, features, Needs(_)) ==
  LET One(s, instr) ==
        IF /\ s.ok /\ IndicesInRange(m, f, instr) /\ TypesKnown(m, instr)
           /\ Needs(Resolved(m, instr)) \subseteq features
        THEN Step(m, f, s, Resolved(m, instr)) ELSE Refused
      Complete(end) == end.ok /\ end.ctrls = <<>>
  IN  Complete(FoldLeft(One, Started(f), body))

Spread(locals) == FlattenSeq([k \in DOMAIN locals |-> [i \in 1..locals[k].count |-> locals[k].type]])
LocalsFit(m, sig, locals) ==
  FoldLeft(LAMBDA sum, l : Min({Huge, sum + l.count}), Len(sig.params), locals) <= MaxLocals

\* The function of the k-th body, as Step takes it.
DefinedFunc(m, k) ==
  LET sig == FuncSig(m, DefinedFuncs(m)[k].type)
  IN  [locals |-> sig.params \o Spread(m.code[k].locals), params |-> Len(sig.params), results |-> sig.results,
       bound |-> Len(m.code[k].body), global |-> 0]

BodyChecks(m, k, features) ==
  LET sig == FuncSig(m, DefinedFuncs(m)[k].type)
      Needs(instr) == OpNeeds(instr) \cup SpelledNeeds(m, instr)
  IN  /\ LocalsFit(m, sig, m.code[k].locals)
      /\ AllNeed({l.type : l \in ToSet(m.code[k].locals)}) \subseteq features
      /\ Checks(m, DefinedFunc(m, k), m.code[k].body, features, Needs)

\* A constant expression of a type, that sees the globals before the given one.
ConstantChecks(m, body, type, global, features) ==
  LET f == [locals |-> <<>>, params |-> 0, results |-> <<type>>, bound |-> Len(body), global |-> global]
  IN  Checks(m, f, body, features, ConstantNeeds)

-----------------------------------------------------------------------------
(* The module.                                                             *)

ImportedGlobals(m) == Len(SelectSeq(m.globals, LAMBDA g : g.init = <<>>))
OffsetType(is64) == IF is64 THEN I64 ELSE I32

\* The functions that something outside of the bodies refers to: exports,
\* segments and constant expressions, but not those of offsets, and not start.
DeclaredRefs(m) ==
  LET RefFuncs(body) == {instr.func : instr \in {i \in ToSet(body) : i.op = "ref.func"}}
  IN  {x.index : x \in {e \in ToSet(m.exports) : e.kind = "func"}}
      \cup UNION {UNION {RefFuncs(body) : body \in ToSet(g.init)} : g \in ToSet(m.globals)}
      \cup UNION {UNION {RefFuncs(body) : body \in ToSet(t.init)} : t \in ToSet(m.tables)}
      \cup UNION {ToSet(x.funcs) \cup UNION {RefFuncs(body) : body \in ToSet(x.exprs)} : x \in ToSet(m.elements)}

GlobalsCheck(m, features) ==
  \A k \in DOMAIN m.globals :
    \A body \in ToSet(m.globals[k].init) : ConstantChecks(m, body, m.globals[k].type, k, features)

ElementsCheck(m, features) ==
  LET all == Len(m.globals) + 1
  IN  \A x \in ToSet(m.elements) :
        /\ ToSet(x.funcs) \subseteq DOMAIN m.funcs
        /\ \A body \in ToSet(x.exprs) : ConstantChecks(m, body, x.elem, all, features)
        /\ x.active => /\ x.table \in DOMAIN m.tables
                       /\ Subtype(m, x.elem, m.tables[x.table].elem)
                       /\ ConstantChecks(m, x.offset, OffsetType(m.tables[x.table].is64), all, features)

\* Mutant of DataCheck: the memory of an active segment is not looked up.
DataCheckWithoutMemory(m, features) ==
  \A x \in ToSet(m.data) :
    x.active => ConstantChecks(m, x.offset, OffsetType(x.mem \in DOMAIN m.mems /\ m.mems[x.mem].is64),
                               Len(m.globals) + 1, features)

DataCheck(m, features) ==
  \A x \in ToSet(m.data) :
    x.active => /\ x.mem \in DOMAIN m.mems
                /\ ConstantChecks(m, x.offset, OffsetType(m.mems[x.mem].is64), Len(m.globals) + 1, features)

\* Numbers of 64 bits, the lowest bit first.
AtMost(a, b) ==
  LET differ == {k \in DOMAIN a : a[k] # b[k]}
  IN  differ = {} \/ a[Max(differ)] = 0
Power(k) == [i \in 1..64 |-> IF i = k + 1 THEN 1 ELSE 0]
Ones(n) == [i \in 1..64 |-> IF i <= n THEN 1 ELSE 0]

MaxPages(is64, e) ==
  LET bits == IF is64 THEN 64 ELSE 32
  IN  CASE e = 0 -> Ones(bits) [] e >= bits -> Power(0) [] OTHER -> Power(bits - e)

Bounded(x, ceiling) == AtMost(x.min, ceiling) /\ \A max \in ToSet(x.max) : AtMost(max, ceiling) /\ AtMost(x.min, max)
LimitsCheck(m) ==
  /\ \A x \in ToSet(m.mems) :
       LET e == IF x.page = <<>> THEN 16 ELSE x.page[1]
       IN  e \in {0, 16} /\ Bounded(x, MaxPages(x.is64, e)) /\ (x.shared => x.max # <<>>)
  /\ \A x \in ToSet(m.tables) : Bounded(x, Ones(IF x.is64 THEN 64 ELSE 32))

\* Only the imported globals come before a table.
TablesCheck(m, features) ==
  \A x \in ToSet(m.tables) :
    \A body \in ToSet(x.init) : ConstantChecks(m, body, x.elem, ImportedGlobals(m) + 1, features)

TagsCheck(m) == \A t \in ToSet(m.tags) : m.types[t].results = <<>>
ExportsCheck(m) == \A j, k \in DOMAIN m.exports : m.exports[j].name = m.exports[k].name => j = k
StartCheck(m) ==
  m.start # 0 => m.start \in DOMAIN m.funcs /\ FuncType(m, m.start) = [params |-> <<>>, results |-> <<>>]

\* The module as bodies see it: the types of its segments, and its declared
\* references.
Ready(m) == [m EXCEPT !.elems = [k \in DOMAIN m.elements |-> m.elements[k].elem], !.refs = DeclaredRefs(m)]

Validates(decoded, features) ==
  LET m == Ready(decoded)
  IN  /\ DeclarationNeeds(m) \subseteq features
      /\ TypeSection(m)
      /\ GlobalsCheck(m, features) /\ ElementsCheck(m, features) /\ DataCheck(m, features)
      /\ LimitsCheck(m) /\ TablesCheck(m, features)
      /\ TagsCheck(m) /\ ExportsCheck(m) /\ StartCheck(m)
      /\ \A k \in DOMAIN m.code : BodyChecks(m, k, features)
=============================================================================
