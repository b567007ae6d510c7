------------------------------- MODULE Interp -------------------------------
(***************************************************************************)
(* The instructions of run in crates/wasmrt-core/src/interp.rs, by family: *)
(* each operator gives the machines that may come after r.  sc is what     *)
(* runs: the module, the function, its body and the tables of its          *)
(* structure.                                                              *)
(***************************************************************************)
EXTENDS Machine

Jump(r, pc) == [r EXCEPT !.pc = pc]

RunStructure(sc, r, instr) ==
  CASE instr.op = "if" ->
         LET r1 == Pops(r, <<"i32">>)
             r2 == Enter(r1, instr, sc.cf)
             otherwise == IF sc.cf.elseOf[r.pc] # NoElse THEN sc.cf.elseOf[r.pc] + 1 ELSE sc.cf.endOf[r.pc]
         IN  IF r1.wrong THEN {r1} ELSE {Advance(r2), Jump(r2, otherwise)}
    [] instr.op \in Openers -> {Advance(Enter(r, instr, sc.cf))}
    [] instr.op \in {"else", "catch", "catch_all"} -> {Jump(r, sc.cf.endOf[r.pc])}
    [] instr.op \in {"end", "delegate"} -> {Advance([r EXCEPT !.labels = Front(@)])}

\* A reference on top that a branch looks at.
RunBranchOnNull(r, instr) ==
  LET r1 == Pops(r, <<"ref">>)
      isNull == Last(r.stack).kind = "null"
  IN  IF r1.wrong THEN {r1}
      ELSE IF instr.op = "br_on_null"
           THEN {IF isNull THEN Branch(r1, instr.label) ELSE Advance(r)}
           ELSE {IF isNull THEN Advance(r1) ELSE Branch(r, instr.label)}

RunBranch(sc, r, instr) ==
  LET r1 == Pops(r, <<"i32">>)
  IN  CASE instr.op = "br" -> {Branch(r, instr.label)}
        [] instr.op = "br_if" -> IF r1.wrong THEN {r1} ELSE {Branch(r1, instr.label), Advance(r1)}
        [] instr.op = "br_table" ->
             IF r1.wrong THEN {r1}
             ELSE {Branch(r1, l) : l \in {instr.label} \cup ToSet(instr.labels)}
        [] instr.op \in {"br_on_null", "br_on_non_null"} -> RunBranchOnNull(r, instr)
        [] instr.op = "rethrow" ->
             LET l == r.labels[Len(r.labels) - instr.label]
             IN  IF l.caught = 0 THEN {Wrong(r)} ELSE Raise(sc.m, r, sc.body, sc.cf, l.caught)

RunThrow(sc, r, instr) ==
  CASE instr.op = "unreachable" -> {Trap(r)}
    [] instr.op = "return"      -> {Jump(r, Len(sc.body) + 1)}
    [] instr.op = "throw" ->
         LET params == TagParams(sc.m, instr.tag)
             n == Len(params)
         IN  IF ~Has(r, n) \/ ~FitAll(sc.m, TopN(r, n), params) THEN {Wrong(r)}
             ELSE Raise(sc.m, Under(r, n), sc.body, sc.cf, instr.tag)
    [] instr.op = "throw_ref" ->
         LET v == Last(r.stack)
         IN  IF ~Has(r, 1) \/ v.kind \notin {"null", "exn"} THEN {Wrong(r)}
             ELSE IF v.kind = "null" THEN {Trap(r)}
             ELSE Raise(sc.m, Under(r, 1), sc.body, sc.cf, v.type)

\* A function of a type is called with the slots on top, or takes the place of
\* the running one; it returns, traps or throws.
Invoke(sc, r, t, tail) ==
  LET sig == FuncSig(sc.m, t)
      n == Len(sig.params)
  IN  IF ~Has(r, n) \/ ~FitAll(sc.m, TopN(r, n), sig.params) THEN {Wrong(r)}
      ELSE IF tail
      THEN IF Subtypes(sc.m, sig.results, sc.f.results) THEN {[r EXCEPT !.status = "returned"]} ELSE {Wrong(r)}
      ELSE {Advance(PushAll(Under(r, n), q)) : q \in SampleSeqs(sc.m, sig.results)}
           \cup {Trap(r)} \cup UNION {Raise(sc.m, r, sc.body, sc.cf, tag) : tag \in DOMAIN sc.m.tags}

\* The types that the function behind an index may have: a linked one may have
\* a subtype of the type it was imported at, or that type when it is exact.
Behind(m, i) ==
  LET f == m.funcs[i]
  IN  CASE ~f.imported -> {f.type}
        [] f.exact     -> {t \in DOMAIN m.types : TypesEqual(m, t, f.type)}
        [] OTHER       -> {t \in DOMAIN m.types : IsSubtype(m, t, f.type)}

AddressKind(is64) == IF is64 THEN "i64" ELSE "i32"

RunCall(sc, r, instr) ==
  LET m == sc.m
      tail == instr.op \in {"return_call", "return_call_indirect", "return_call_ref"}
  IN  CASE instr.op \in {"call", "return_call"} ->
             UNION {Invoke(sc, r, t, tail) : t \in Behind(m, instr.func)}
        [] instr.op \in {"call_ref", "return_call_ref"} ->
             LET v == Last(r.stack)
             IN  IF ~Has(r, 1) \/ v.kind \notin {"null", "func"} THEN {Wrong(r)}
                 ELSE IF v.kind = "null" THEN {Trap(r)} ELSE Invoke(sc, Under(r, 1), v.type, tail)
        [] OTHER ->
             LET r1 == Pops(r, <<AddressKind(m.tables[instr.table].is64)>>)
                 Entry(v) == IF v.kind = "null" \/ ~IsSubtype(m, v.type, instr.type) THEN {Trap(r1)}
                             ELSE Invoke(sc, r1, v.type, tail)
             IN  IF r1.wrong THEN {r1}
                 ELSE {Trap(r1)} \cup UNION {Entry(v) : v \in Samples(m, m.tables[instr.table].elem)}

-----------------------------------------------------------------------------
(* Tables, memories, globals and locals.  What goes into a table or global *)
(* has to fit the type declared for it.                                    *)

\* Popping, in the order of the code, operands of which the kth has to fit a
\* type; the result is pushed, or nothing is.
Stores(m, r, kinds, k, type) ==
  LET r1 == Pops(r, kinds)
  IN  IF r1.wrong \/ Fits(m, r.stack[Len(r.stack) - k + 1], type) THEN r1 ELSE Wrong(r)
Yields(m, r, types) == IF r.wrong THEN {r} ELSE {Advance(PushAll(r, q)) : q \in SampleSeqs(m, types)} \cup {Trap(r)}

BothWide(a, b) == AddressKind(a.is64 /\ b.is64)

RunTable(sc, r, instr) ==
  LET m == sc.m
      t == m.tables[instr.table]
      at == AddressKind(t.is64)
  IN  CASE instr.op = "table.get"  -> Yields(m, Pops(r, <<at>>), <<t.elem>>)
        [] instr.op = "table.set"  -> Yields(m, Stores(m, r, <<"ref", at>>, 1, t.elem), <<>>)
        [] instr.op = "table.size" -> Yields(m, r, <<Num(at)>>)
        [] instr.op = "table.grow" -> Yields(m, Stores(m, r, <<at, "ref">>, 2, t.elem), <<Num(at)>>)
        [] instr.op = "table.fill" -> Yields(m, Stores(m, r, <<at, "ref", at>>, 2, t.elem), <<>>)
        [] instr.op = "table.init" ->
             LET r1 == Pops(r, <<"i32", "i32", at>>)
             IN  Yields(m, IF \A v \in Samples(m, m.elems[instr.elem]) : Fits(m, v, t.elem) THEN r1 ELSE Wrong(r), <<>>)
        [] instr.op = "table.copy" ->
             LET from == m.tables[instr.from]
                 r1 == Pops(r, <<BothWide(t, from), AddressKind(from.is64), at>>)
             IN  Yields(m, IF \A v \in Samples(m, from.elem) : Fits(m, v, t.elem) THEN r1 ELSE Wrong(r), <<>>)
        [] instr.op = "elem.drop"  -> {Advance(r)}

RunMemory(sc, r, instr) ==
  LET m == sc.m
      mem == m.mems[instr.mem]
      at == AddressKind(mem.is64)
  IN  CASE instr.op = "memory.size" -> Yields(m, r, <<Num(at)>>)
        [] instr.op = "memory.grow" -> Yields(m, Pops(r, <<at>>), <<Num(at)>>)
        [] instr.op = "memory.fill" -> Yields(m, Pops(r, <<at, "i32", at>>), <<>>)
        [] instr.op = "memory.copy" ->
             LET from == m.mems[instr.from]
             IN  Yields(m, Pops(r, <<BothWide(mem, from), AddressKind(from.is64), at>>), <<>>)
        [] instr.op = "memory.init" -> Yields(m, Pops(r, <<"i32", "i32", at>>), <<>>)
        [] instr.op = "data.drop"   -> {Advance(r)}

RunVariable(sc, r, instr) ==
  CASE instr.op = "local.get"  -> {Advance(Push(r, r.locals[instr.local]))}
    [] instr.op \in {"local.set", "local.tee"} ->
         IF ~Has(r, 1) THEN {Wrong(r)}
         ELSE LET r1 == [r EXCEPT !.locals[instr.local] = Last(r.stack)]
              IN  {Advance(IF instr.op = "local.set" THEN Under(r1, 1) ELSE r1)}
    [] instr.op = "global.get" ->
         {Advance(Push(r, v)) : v \in Samples(sc.m, sc.m.globals[instr.global].type)}
    [] instr.op = "global.set" ->
         IF Has(r, 1) /\ Fits(sc.m, Last(r.stack), sc.m.globals[instr.global].type)
         THEN {Advance(Under(r, 1))} ELSE {Wrong(r)}

RunParametric(r, instr) ==
  CASE instr.op = "nop"  -> {Advance(r)}
    [] instr.op = "drop" -> IF Has(r, 1) THEN {Advance(Under(r, 1))} ELSE {Wrong(r)}
    [] OTHER ->
         LET r1 == Pops(r, <<"i32">>)
         IN  IF r1.wrong \/ ~Has(r1, 2) THEN {Wrong(r)}
             ELSE {Advance(Push(Under(r1, 2), v)) : v \in ToSet(TopN(r1, 2))}

\* An access to memory is as wide as the interpreter's own table has it, and an
\* atomic one tests its address against that.
RunPlain(sc, r, instr) ==
  LET effect == CASE instr.op = "simple" -> SimpleEffect(instr.code)
                  [] instr.op = "simd"   -> SimdEffect(instr.code)
                  [] instr.op = "atomic" -> AtomicEffect(instr.code)
      Kind(k) == IF k = "address" THEN AddressKind(sc.m.mems[instr.mem].is64) ELSE k
      r1 == Pops(r, [k \in DOMAIN effect.pops |-> Kind(effect.pops[k])])
  IN  IF r1.wrong \/ (instr.op = "atomic" /\ AtomicAlignLog2(instr.code) # instr.align) THEN {Wrong(r)}
      ELSE {Advance(PushAll(r1, [k \in DOMAIN effect.pushes |-> Slot(effect.pushes[k])])), Trap(r)}

-----------------------------------------------------------------------------
(* References.                                                             *)

Externalize(v) == IF v.kind = "null" THEN v ELSE [v EXCEPT !.extern = TRUE]
Internalize(v) == IF v.kind = "null" THEN v ELSE [v EXCEPT !.extern = FALSE]

\* One reference on top is replaced.
Replaces(r, F(_)) ==
  LET r1 == Pops(r, <<"ref">>) IN IF r1.wrong THEN {r1} ELSE {Advance(Push(r1, F(Last(r.stack))))}

OnReference(r, kind, v) ==
  LET r1 == Pops(r, <<"ref">>)
  IN  IF r1.wrong THEN {r1}
      ELSE IF Last(r.stack).kind = "null" THEN {Trap(r)}
      ELSE IF Last(r.stack).kind # kind THEN {Wrong(r)} ELSE {Advance(Push(r1, v))}

RunRef(sc, r, instr) ==
  CASE instr.op = "ref.null"        -> {Advance(Push(r, NullSlot))}
    [] instr.op = "ref.func"        -> {Advance(Push(r, FuncSlot(t))) : t \in Behind(sc.m, instr.func)}
    [] instr.op = "ref.is_null"     -> Replaces(r, LAMBDA v : Slot("i32"))
    [] instr.op = "ref.as_non_null" ->
         IF Pops(r, <<"ref">>).wrong THEN {Wrong(r)}
         ELSE IF Last(r.stack).kind = "null" THEN {Trap(r)} ELSE {Advance(r)}
    [] instr.op = "ref.eq"          ->
         LET r1 == Pops(r, <<"ref", "ref">>) IN IF r1.wrong THEN {r1} ELSE {Advance(Push(r1, Slot("i32")))}
    [] instr.op = "ref.i31"         ->
         LET r1 == Pops(r, <<"i32">>) IN IF r1.wrong THEN {r1} ELSE {Advance(Push(r1, Slot("i31")))}
    [] instr.op = "i31.get"         -> OnReference(r, "i31", Slot("i32"))
    [] instr.op = "any.convert_extern" -> Replaces(r, Internalize)
    [] instr.op = "extern.convert_any" -> Replaces(r, Externalize)

-----------------------------------------------------------------------------
(* Objects.  A field of an object is read and written at the type that the *)
(* object was made with, whatever type the code names.                     *)

\* The object that a reference names, for an access to its nth field (0 for
\* none in particular): null traps, and anything but an object, or an object
\* without the field, goes wrong.
OnObject(sc, r, v, n, pack, F(_)) ==
  IF v.kind = "null" THEN {Trap(r)}
  ELSE IF v.kind # "object" THEN {Wrong(r)}
  ELSE LET fields == sc.m.types[v.type].fields
       IN  IF n > Len(fields) \/ (n # 0 /\ fields[n].pack # pack) THEN {Wrong(r)} ELSE F(v.type)

\* Operands fit the fields they fill.
Made(sc, r, t, n, types) ==
  IF ~Has(r, n) \/ ~FitAll(sc.m, TopN(r, n), types) THEN {Wrong(r)}
  ELSE {Advance(Push(Under(r, n), ObjectSlot(t))), Trap(r)}

\* The descriptor is on top of the fields, and must be one.
RunNewStruct(sc, r, instr) ==
  LET t == instr.type
      types == IF instr.op \in {"struct.new", "struct.new_desc"} THEN FieldTypes(sc.m, t) ELSE <<>>
      n == Len(types)
      v == Last(r.stack)
      bare == instr.op \in {"struct.new_default", "struct.new_default_desc"}
  IN  IF bare /\ ~Defaultable(sc.m, t) THEN {Wrong(r)}
      ELSE IF instr.op \in {"struct.new", "struct.new_default"} THEN Made(sc, r, t, n, types)
      ELSE IF ~Has(r, 1) \/ ~Fits(sc.m, v, ExactRef(TRUE, "struct", sc.m.types[t].descriptor)) THEN {Wrong(r)}
      ELSE IF v.kind = "null" THEN {Trap(r)}
      ELSE Made(sc, Under(r, 1), t, n, types)

RunStruct(sc, r, instr) ==
  LET m == sc.m
      k == IF instr.op = "struct.set" THEN 2 ELSE 1
      v == r.stack[Len(r.stack) - k + 1]
      r1 == Under(r, k)
      pack == IF instr.op = "ref.get_desc" THEN "no" ELSE m.types[instr.type].fields[instr.field].pack
      Got(t) == {Advance(Push(r1, q)) : q \in Samples(m, Unpacked(m.types[t].fields[instr.field]))}
      Set(t) == LET field == m.types[t].fields[instr.field]
                IN  IF field.mutable /\ Fits(m, Last(r.stack), Unpacked(field)) THEN {Advance(r1)} ELSE {Wrong(r)}
      Described(t) == IF m.types[t].descriptor = 0 THEN {Wrong(r)}
                      ELSE {Advance(Push(r1, ObjectSlot(m.types[t].descriptor)))}
  IN  IF ~Has(r, k) THEN {Wrong(r)}
      ELSE CASE instr.op = "struct.get"   -> OnObject(sc, r, v, instr.field, pack, Got)
             [] instr.op = "struct.set"   -> OnObject(sc, r, v, instr.field, pack, Set)
             [] instr.op = "ref.get_desc" -> OnObject(sc, r, v, 0, pack, Described)

\* What goes into an array from a segment or another array.
AllFit(m, from, to) == \A v \in Samples(m, from) : Fits(m, v, to)

RunNewArray(sc, r, instr) ==
  LET m == sc.m
      t == instr.type
      elem == FieldTypes(m, t)[1]
  IN  CASE instr.op = "array.new" -> Made(sc, r, t, 2, <<elem, I32>>)
        [] instr.op = "array.new_default" -> IF IsNonNullRef(elem) THEN {Wrong(r)} ELSE Made(sc, r, t, 1, <<I32>>)
        [] instr.op = "array.new_fixed" -> Made(sc, r, t, instr.n, [k \in 1..instr.n |-> elem])
        [] instr.op = "array.new_data" -> IF IsRef(elem) THEN {Wrong(r)} ELSE Made(sc, r, t, 2, <<I32, I32>>)
        [] instr.op = "array.new_elem" ->
             IF AllFit(m, m.elems[instr.seg], elem) THEN Made(sc, r, t, 2, <<I32, I32>>) ELSE {Wrong(r)}

\* What array.get to array.init_elem pop above the array, the top first; "value"
\* is what is written.
ArrayOperands(op) ==
  CASE op = "array.get"  -> <<"i32">>
    [] op = "array.set"  -> <<"value", "i32">>
    [] op = "array.fill" -> <<"i32", "value", "i32">>
    [] op = "array.copy" -> <<"i32", "i32", "from", "i32">>
    [] op = "array.len"  -> <<>>
    [] OTHER             -> <<"i32", "i32", "i32">>

RunArray(sc, r, instr) ==
  LET m == sc.m
      kinds == ArrayOperands(instr.op)
      n == Len(kinds) + 1
      At(k) == r.stack[Len(r.stack) - k + 1]
      r1 == Under(r, n)
      pack == IF instr.op = "array.len" THEN "no" ELSE m.types[instr.type].fields[1].pack
      Elem(t) == m.types[t].fields[1]
      From(t) == m.types[At(3).type].fields[1]
      Written(t) ==
        CASE instr.op = "array.set"       -> Fits(m, At(1), Unpacked(Elem(t)))
          [] instr.op = "array.fill"      -> Fits(m, At(2), Unpacked(Elem(t)))
          [] instr.op = "array.copy"      -> At(3).kind = "null" \/ AllFit(m, Unpacked(From(t)), Unpacked(Elem(t)))
          [] instr.op = "array.init_elem" -> AllFit(m, m.elems[instr.seg], Unpacked(Elem(t)))
          [] instr.op = "array.init_data" -> ~IsRef(Unpacked(Elem(t)))
      Done(t) ==
        CASE instr.op = "array.get" -> {Advance(Push(r1, q)) : q \in Samples(m, Unpacked(Elem(t)))} \cup {Trap(r)}
          [] instr.op = "array.len" -> IF m.types[t].kind = "array" THEN {Advance(Push(r1, Slot("i32")))} ELSE {Wrong(r)}
          [] OTHER -> IF Elem(t).mutable /\ Written(t) THEN {Advance(r1), Trap(r)} ELSE {Wrong(r)}
  IN  IF \/ ~Has(r, n)
         \/ \E k \in DOMAIN kinds : /\ kinds[k] # "value"
                                     /\ IF kinds[k] = "from" THEN At(k).kind \notin {"null", "object"}
                                        ELSE At(k).kind # kinds[k]
      THEN {Wrong(r)}
      ELSE IF instr.op = "array.len" THEN OnObject(sc, r, At(n), 0, pack, Done)
      ELSE OnObject(sc, r, At(n), 1, pack, Done)

-----------------------------------------------------------------------------
(* Casts.                                                                  *)

\* A reference is of the type a cast names.  A host value is of type any only,
\* and the externref form of a value is of no type inside.
HeadMatches(m, kind, target) == ~IsConcrete(target) /\ HeapSubtype(kind, target.base)

TypeMatches(m, t, target) ==
  IF target.exact THEN TypesEqual(m, t, target.index) ELSE IsSubtype(m, t, target.index)

RefMatches(m, v, target) ==
  CASE v.kind = "null" -> target.null
    [] Top(target.base) = "any" ->
         CASE v.kind = "host" -> target.base = "any"
           [] v.extern        -> FALSE
           [] v.kind = "i31"  -> HeadMatches(m, "i31", target)
           [] OTHER -> IF IsConcrete(target) THEN TypeMatches(m, v.type, target)
                       ELSE HeadMatches(m, m.types[v.type].kind, target)
    [] Top(target.base) = "func" ->
         IF IsConcrete(target) THEN TypeMatches(m, v.type, target) ELSE HeadMatches(m, "func", target)
    [] OTHER -> HeadMatches(m, Top(target.base), target)

\* An object is described by this descriptor, which only an object of the
\* descriptor's type can be.
DescMatches(m, v, desc, target) ==
  CASE v.kind = "null"   -> {target.null}
    [] v.kind # "object" \/ v.extern -> {FALSE}
    [] OTHER -> LET d == m.types[v.type].descriptor
                IN  IF d # 0 /\ TypesEqual(m, d, desc.type) THEN {TRUE, FALSE} ELSE {FALSE}

RunCast(sc, r, instr) ==
  LET m == sc.m
      v == Last(r.stack)
      matches == RefMatches(m, v, instr.to)
      r1 == Pops(r, <<"ref">>)
      under == Last(r1.stack)
  IN  IF r1.wrong \/ (instr.op = "ref.cast_desc_eq" /\ ~Has(r, 2)) THEN {Wrong(r)}
      ELSE CASE instr.op = "ref.test" -> {Advance(Push(r1, Slot("i32")))}
             [] instr.op = "ref.cast" -> {IF matches THEN Advance(r) ELSE Trap(r)}
             [] instr.op = "ref.cast_desc_eq" ->
                  IF v.kind = "null" THEN {Trap(r)}
                  ELSE {IF b THEN Advance(r1) ELSE Trap(r) : b \in DescMatches(m, under, v, instr.to)}

\* The reference stays on the stack, whichever way the branch goes.
RunBranchOnCast(sc, r, instr) ==
  LET m == sc.m
      described == instr.op \in {"br_on_cast_desc_eq", "br_on_cast_desc_eq_fail"}
      r1 == IF described THEN Pops(r, <<"ref">>) ELSE r
      v == Last(r1.stack)
      outcomes == IF described THEN DescMatches(m, v, Last(r.stack), instr.to) ELSE {RefMatches(m, v, instr.to)}
  IN  IF r1.wrong \/ ~Has(r1, 1) \/ IsNumber(v) THEN {Wrong(r)}
      ELSE IF described /\ Last(r.stack).kind = "null" THEN {Trap(r)}
      ELSE {IF b = BranchesOnMatch(instr) THEN Branch(r1, instr.label) ELSE Advance(r1) : b \in outcomes}

\* A constant expression is evaluated in a loop of its own.
Evaluate(sc, r) ==
  LET instr == sc.body[r.pc]
  IN  CASE instr.op = "end"                -> {Advance(r)}
        [] instr.op \in {"simple", "simd"} -> RunPlain(sc, r, instr)
        [] instr.op = "global.get"         -> RunVariable(sc, r, instr)
        [] instr.op \in OpsOf("ref")       -> RunRef(sc, r, instr)
        [] instr.op \in OpsOf("new array") -> RunNewArray(sc, r, instr)
        [] OTHER                           -> RunNewStruct(sc, r, instr)

\* The machines after one instruction.
Run(sc, r) ==
  LET instr == sc.body[r.pc]
      In(family) == instr.op \in OpsOf(family)
  IN  CASE sc.f.global # 0  -> Evaluate(sc, r)
        [] In("structure")  -> RunStructure(sc, r, instr)
        [] In("branch")     -> RunBranch(sc, r, instr)
        [] In("throw")      -> RunThrow(sc, r, instr)
        [] In("call")       -> RunCall(sc, r, instr)
        [] In("table")      -> RunTable(sc, r, instr)
        [] In("memory")     -> RunMemory(sc, r, instr)
        [] In("ref")        -> RunRef(sc, r, instr)
        [] In("new struct") -> RunNewStruct(sc, r, instr)
        [] In("struct")     -> RunStruct(sc, r, instr)
        [] In("new array")  -> RunNewArray(sc, r, instr)
        [] In("array") \/ instr.op = "array.len" -> RunArray(sc, r, instr)
        [] In("cast")       -> RunCast(sc, r, instr)
        [] In("br cast")    -> RunBranchOnCast(sc, r, instr)
        [] In("variable")   -> RunVariable(sc, r, instr)
        [] In("plain")      -> RunPlain(sc, r, instr)
        [] OTHER            -> RunParametric(r, instr)
=============================================================================
