------------------------------ MODULE Machine ------------------------------
(***************************************************************************)
(* One function body run by the interpreter, run of                        *)
(* crates/wasmrt-core/src/interp.rs, over slots that remember what was     *)
(* written to them.  The code's slots are untyped bits: an operation on a  *)
(* slot of another kind would go on with whatever the bits say, so here    *)
(* the machine notes it went wrong.                                        *)
(*                                                                         *)
(* A slot holds a number of some base, null, or a reference; a reference   *)
(* to an object or a function keeps the type it was made with, an          *)
(* exception its tag, and extern tells the values in their externref form. *)
(* What memories, tables, globals, objects and callees hold is abstracted  *)
(* to its declared type: a write that does not fit it goes wrong, and a    *)
(* read gives any slot that does.  r is the machine: pc, stack, locals,    *)
(* labels, wrong, status.                                                  *)
(***************************************************************************)
EXTENDS Validation, Effects, ControlFlow

Slot(kind) == [kind |-> kind, type |-> 0, extern |-> FALSE]
NullSlot == Slot("null")
ObjectSlot(t) == [kind |-> "object", type |-> t, extern |-> FALSE]
FuncSlot(t) == [kind |-> "func", type |-> t, extern |-> FALSE]
ExnSlot(tag) == [kind |-> "exn", type |-> tag, extern |-> FALSE]

IsNumber(v) == v.kind \in Numbers

\* The slot is a value of the type.
Fits(m, v, t) ==
  CASE ~IsRef(t)             -> v.kind = t.base
    [] v.kind = "null"       -> t.null
    [] v.extern              -> t.base = "extern"
    [] v.kind = "i31"        -> ~IsConcrete(t) /\ HeapSubtype("i31", t.base)
    [] v.kind = "host"       -> t.base = "any"
    [] v.kind = "exn"        -> t.base = "exn"
    [] IsNumber(v)           -> FALSE
    [] ~IsConcrete(t)        -> HeapSubtype(m.types[v.type].kind, t.base)
    [] t.exact               -> TypesEqual(m, v.type, t.index)
    [] OTHER                 -> IsSubtype(m, v.type, t.index)

FitAll(m, vs, types) == Len(vs) = Len(types) /\ \A k \in DOMAIN vs : Fits(m, vs[k], types[k])

\* Every slot a module's values can be; of the externref forms, one each.
Slots(m) ==
  {Slot(k) : k \in Numbers \cup {"null", "i31", "host"}}
  \cup {[Slot(k) EXCEPT !.extern = TRUE] : k \in {"i31", "host"}}
  \cup {IF m.types[t].kind = "func" THEN FuncSlot(t) ELSE ObjectSlot(t) : t \in DOMAIN m.types}
  \cup {ExnSlot(t) : t \in DOMAIN m.tags}
Samples(m, t) == {v \in Slots(m) : Fits(m, v, t)}
SampleSeqs(m, types) ==
  FoldLeft(LAMBDA qs, t : {Append(q, v) : q \in qs, v \in Samples(m, t)}, {<<>>}, types)

-----------------------------------------------------------------------------
(* The operand stack.                                                      *)

Wrong(r) == [r EXCEPT !.wrong = TRUE, !.status = "trapped"]
Trap(r) == [r EXCEPT !.status = "trapped"]
Advance(r) == [r EXCEPT !.pc = @ + 1]
Push(r, v) == [r EXCEPT !.stack = Append(@, v)]
PushAll(r, vs) == [r EXCEPT !.stack = @ \o vs]

\* The top n slots, the deepest first, and the machine without them.
TopN(r, n) == SubSeq(r.stack, Len(r.stack) - n + 1, Len(r.stack))
Under(r, n) == [r EXCEPT !.stack = SubSeq(@, 1, Len(@) - n)]
Has(r, n) == Len(r.stack) >= n

ReadableAs(v, kind) == IF kind = "ref" THEN ~IsNumber(v) ELSE v.kind = kind

\* The machine after popping slots of these kinds, the top first.
Pops(r, kinds) ==
  LET n == Len(kinds)
  IN  IF ~Has(r, n) \/ \E k \in 1..n : ~ReadableAs(r.stack[Len(r.stack) - k + 1], kinds[k])
      THEN Wrong(r) ELSE Under(r, n)

-----------------------------------------------------------------------------
(* Labels and exceptions.                                                  *)

Label(at, loop, arity, target, base) ==
  [at |-> at, loop |-> loop, arity |-> arity, target |-> target, base |-> base, caught |-> 0]

Enter(r, instr, cf) ==
  LET loop == instr.op = "loop"
  IN  [r EXCEPT !.labels = Append(@, Label(r.pc, loop, Len(IF loop THEN instr.bt.params ELSE instr.bt.results),
                                           IF loop THEN r.pc + 1 ELSE cf.endOf[r.pc] + 1,
                                           Len(r.stack) - Len(instr.bt.params)))]

Branch(r, n) ==
  LET l == r.labels[Len(r.labels) - n]
  IN  IF n >= Len(r.labels) \/ Len(r.stack) - l.arity < l.base THEN Wrong(r)
      ELSE [r EXCEPT !.stack = SubSeq(@, 1, l.base) \o TopN(r, l.arity), !.pc = l.target,
                     !.labels = SubSeq(@, 1, Len(@) - n - (IF l.loop THEN 0 ELSE 1))]

Catches1(c, tag) == c.kind \in {"catch_all", "catch_all_ref"} \/ c.tag = tag

\* A clause of a try_table at depth d takes the exception: its payload, the
\* exception itself if the clause wants it, and a branch counted from outside.
TakenBy(m, r, d, c, tag) ==
  LET base == r.labels[Len(r.labels) - d].base
      payload == IF c.kind \in {"catch", "catch_ref"} THEN SampleSeqs(m, TagParams(m, tag)) ELSE {<<>>}
      box == IF c.kind \in {"catch_ref", "catch_all_ref"} THEN <<ExnSlot(tag)>> ELSE <<>>
  IN  IF base > Len(r.stack) THEN {Wrong(r)}
      ELSE {Branch([r EXCEPT !.stack = SubSeq(@, 1, base) \o q \o box], d + 1 + c.label) : q \in payload}

\* A legacy handler runs inside its try, which keeps what it caught.
HandledBy(m, r, d, h, tag) ==
  LET at == Len(r.labels) - d
      base == r.labels[at].base
      payload == IF h.tag = NoTag THEN {<<>>} ELSE SampleSeqs(m, TagParams(m, tag))
  IN  IF base > Len(r.stack) THEN {Wrong(r)}
      ELSE {[r EXCEPT !.stack = SubSeq(@, 1, base) \o q, !.pc = h.pc,
                      !.labels = [SubSeq(@, 1, at) EXCEPT ![at].caught = tag]] : q \in payload}

\* The exception goes outward through the labels; a delegate leads it past the
\* labels up to its own.
Raise(m, r, ir, cf, tag) ==
  LET n == Len(r.labels)
      Op(d) == LET at == r.labels[n - d].at IN IF at = 0 THEN "function" ELSE ir[at].op
      From[d \in 0..(2 * n)] ==
        IF d >= n THEN {[r EXCEPT !.status = "threw"]}
        ELSE LET at == r.labels[n - d].at
             IN  CASE Op(d) = "try_table" ->
                        LET takers == SelectSeq(ir[at].catches, LAMBDA c : Catches1(c, tag))
                        IN  IF takers = <<>> THEN From[d + 1] ELSE TakenBy(m, r, d, Head(takers), tag)
                   [] Op(d) = "try" /\ cf.delegate[at] # NoDelegate -> From[d + 1 + cf.delegate[at]]
                   [] Op(d) = "try" /\ cf.delegate[at] = NoDelegate /\ r.labels[n - d].caught = 0 ->
                        LET takers == SelectSeq(cf.handlers[at], LAMBDA h : h.tag \in {NoTag, tag})
                        IN  IF takers = <<>> THEN From[d + 1] ELSE HandledBy(m, r, d, Head(takers), tag)
                   [] OTHER -> From[d + 1]
  IN  From[0]
=============================================================================
