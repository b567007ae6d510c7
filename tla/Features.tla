------------------------------ MODULE Features ------------------------------
(***************************************************************************)
(* The proposals an embedder may switch off:                               *)
(* crates/wasmrt-core/src/features.rs and the gates of validate.rs.        *)
(*                                                                         *)
(* A configuration is the set of the proposals that are on.  What a part   *)
(* of a module needs is the set of the proposals its gates ask for; the    *)
(* module is refused unless all of them are on.                            *)
(***************************************************************************)
EXTENDS Decoding

AllFeatures ==
  {"sign-extension", "saturating-float-to-int", "multi-value", "reference-types", "bulk-memory", "extended-const",
   "simd", "relaxed-simd", "threads", "multi-memory", "memory64", "function-references", "gc", "exceptions",
   "tail-call", "wide-arithmetic", "custom-page-sizes", "custom-descriptors"}
StandardFeatures == AllFeatures \ {"threads", "wide-arithmetic", "custom-page-sizes", "custom-descriptors"}
MvpFeatures == {}

\* The proposals that are defined on top of another.
Requires ==
  {<<"gc", "function-references">>, <<"function-references", "reference-types">>, <<"relaxed-simd", "simd">>,
   <<"custom-descriptors", "gc">>, <<"exceptions", "reference-types">>}
Coherent(features) == \A pair \in Requires : pair[1] \in features => pair[2] \in features

\* --features: each item turns a proposal on or off, or starts over; a list that
\* turns one off starts from all of them.  {} when the list is refused.
FeatureList(items) ==
  LET Turn(set, item) == CASE item.name = "all" -> AllFeatures
                           [] item.name = "mvp" -> MvpFeatures
                           [] OTHER -> IF item.on THEN set \cup {item.name} ELSE set \ {item.name}
      start == IF \E k \in DOMAIN items : ~items[k].on THEN AllFeatures ELSE MvpFeatures
      known == \A k \in DOMAIN items : items[k].name \in AllFeatures \cup {"all", "mvp"}
      set == FoldLeft(Turn, start, items)
  IN  IF known /\ Coherent(set) THEN {set} ELSE {}

NeedIf(condition, feature) == IF condition THEN {feature} ELSE {}

-----------------------------------------------------------------------------
(* Types.                                                                  *)

ValTypeNeeds(v) ==
  CASE v = Num("v128") -> {"simd"}
    [] v.base \in Numbers \ {"v128"} -> {}
    [] IsRef(v) /\ v.exact -> {"custom-descriptors"}
    [] IsRef(v) /\ ~v.exact /\ IsConcrete(v) -> {"function-references"}
    [] IsRef(v) /\ ~IsConcrete(v) /\ v.base \in {"exn", "noexn"} -> {"exceptions"}
    [] IsRef(v) /\ ~IsConcrete(v) /\ v.base \in {"func", "extern"} ->
         {IF v.null THEN "reference-types" ELSE "function-references"}
    [] OTHER -> {"gc"}
TableElementNeeds(v) == IF v = Ref(TRUE, "func") THEN {} ELSE ValTypeNeeds(v)
AllNeed(types) == UNION {ValTypeNeeds(v) : v \in types}

\* Mutant of TypeNeeds: the fields of a struct are not looked at.
TypeNeedsButFields(t) ==
  NeedIf(t.super # 0, "gc") \cup NeedIf(Len(t.results) > 1, "multi-value") \cup NeedIf(t.kind # "func", "gc")
  \cup AllNeed(ToSet(t.params) \cup ToSet(t.results))

TypeNeeds(t) ==
  NeedIf(t.super # 0, "gc") \cup NeedIf(Len(t.results) > 1, "multi-value") \cup NeedIf(t.kind # "func", "gc")
  \cup AllNeed(ToSet(t.params) \cup ToSet(t.results) \cup {Unpacked(x) : x \in ToSet(t.fields)})

-----------------------------------------------------------------------------
(* Instructions.                                                           *)

SimpleNeeds(code) ==
  CASE code \in \HC0..\HC4         -> {"sign-extension"}
    [] code \in \HFC00..\HFC07     -> {"saturating-float-to-int"}
    [] code \in \HFC13..\HFC16     -> {"wide-arithmetic"}
    [] OTHER                       -> {}

\* Of the array instructions only the ones that the table of the code lists.
OpNeeds(instr) ==
  CASE instr.op \in {"try", "catch", "throw", "rethrow", "throw_ref", "delegate", "catch_all", "try_table"} -> {"exceptions"}
    [] instr.op \in {"return_call", "return_call_indirect"} -> {"tail-call"}
    [] instr.op \in {"call_ref", "return_call_ref", "ref.as_non_null", "br_on_null", "br_on_non_null"} ->
         {"function-references"}
    [] instr.op \in {"select_t", "table.get", "table.set", "ref.null", "ref.is_null", "ref.func", "table.grow",
                     "table.size", "table.fill"} -> {"reference-types"}
    [] instr.op \in {"memory.init", "data.drop", "memory.copy", "memory.fill", "table.init", "elem.drop",
                     "table.copy"} -> {"bulk-memory"}
    [] instr.op = "simd" -> {"simd"} \cup NeedIf(instr.code \in \H100..\H113, "relaxed-simd")
    [] instr.op = "atomic" -> {"threads"}
    [] instr.op \in {"ref.eq", "array.new", "array.new_default", "array.new_fixed", "array.get", "array.set", "array.len",
                     "ref.test", "ref.cast", "ref.i31", "i31.get", "struct.new", "struct.new_default", "struct.get",
                     "struct.set", "br_on_cast", "br_on_cast_fail", "any.convert_extern", "extern.convert_any"} -> {"gc"}
    [] instr.op \in {"struct.new_desc", "struct.new_default_desc", "ref.get_desc", "ref.cast_desc_eq",
                     "br_on_cast_desc_eq", "br_on_cast_desc_eq_fail"} -> {"custom-descriptors"}
    [] instr.op = "simple" -> SimpleNeeds(instr.code)
    [] OTHER -> {}

\* What an instruction needs besides: for the types it spells out in the place of
\* a value type, and for a block with more than one value.  The target of a cast
\* is not looked at; without custom-descriptors a cast that branches casts down.
SpelledNeeds(m, instr) ==
  CASE instr.op = "ref.null" -> ValTypeNeeds(instr.vtype)
    [] instr.op = "select_t" -> ValTypeNeeds(instr.vtype)
    [] "bt" \in DOMAIN instr -> NeedIf(instr.bt.params # <<>> \/ Len(instr.bt.results) > 1, "multi-value")
                                \cup IF instr.bt.params = <<>> /\ Len(instr.bt.results) = 1
                                     THEN ValTypeNeeds(instr.bt.results[1]) ELSE {}
    [] instr.op \in {"br_on_cast", "br_on_cast_fail"} -> NeedIf(~Subtype(m, instr.to, instr.src), "custom-descriptors")
    [] OTHER -> {}

\* The gates of a constant expression.
ConstantNeeds(instr) ==
  CASE instr.op = "ref.null" -> {"reference-types"} \cup ValTypeNeeds(instr.vtype)
    [] instr.op = "ref.func" -> {"reference-types"}
    [] instr.op = "simple"   -> NeedIf(instr.code \in \H6A..\H6C \cup \H7C..\H7E, "extended-const")
    [] instr.op = "simd"     -> {"simd"}
    [] instr.op \in {"global.get", "end"} -> {}
    [] OTHER -> {"gc"}

-----------------------------------------------------------------------------
(* Declarations.                                                           *)

DeclarationNeeds(m) ==
  UNION {TypeNeeds(t) : t \in ToSet(m.types)}
  \cup NeedIf(Len(m.mems) > 1, "multi-memory")
  \cup UNION {NeedIf(x.is64, "memory64") \cup NeedIf(x.shared, "threads") \cup NeedIf(x.page # <<>>, "custom-page-sizes")
              : x \in ToSet(m.mems)}
  \cup NeedIf(\E t \in ToSet(m.types) : t.describes # 0 \/ t.descriptor # 0, "custom-descriptors")
  \cup NeedIf(\E i \in ToSet(m.imports) : i.exact, "custom-descriptors")
  \cup NeedIf(Len(m.tables) > 1, "reference-types")
  \cup UNION {TableElementNeeds(x.elem) \cup NeedIf(x.is64, "memory64") \cup NeedIf(x.init # <<>>, "function-references")
              : x \in ToSet(m.tables)}
  \cup AllNeed({x.type : x \in ToSet(m.globals)})
  \cup NeedIf(m.tags # <<>>, "exceptions")
  \cup NeedIf(\E x \in ToSet(m.data) : ~x.active, "bulk-memory")
  \cup UNION {NeedIf(~x.active, "bulk-memory") \cup NeedIf(x.exprs # <<>>, "reference-types") \cup TableElementNeeds(x.elem)
              : x \in ToSet(m.elements)}
=============================================================================
