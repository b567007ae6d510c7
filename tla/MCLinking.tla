----------------------------- MODULE MCLinking -----------------------------
(***************************************************************************)
(* Small stores for Linking: the modules the host may load in each run.    *)
(***************************************************************************)
EXTENDS Linking

\* Types: 1 and its subtype 3, 4 of the same shape but another identity
\* (all pass nothing), 2 passes a funcref, 5 passes an object; 6 passes a
\* reference to a function of type 6, 7 one to a function of type 1, and 8
\* one to a structure of type 9.
MCTypes == 1..9
MCSubType == {<<t, t>> : t \in MCTypes} \cup {<<3, 1>>}
Passes(kind) == <<kind, 0>>
MCSigOf == <<Passes("none"), Passes("func"), Passes("none"), Passes("none"), Passes("any"),
             <<"func", 6>>, <<"func", 1>>, <<"any", 9>>, Passes("none")>>
\* A type section: the types listed, each with the index its reference is written as.
Lists(tys, refs) == [k \in DOMAIN tys |-> [ty |-> tys[k], ref |-> refs[k]]]

NullExpr == [op |-> "null", arg |-> 0]
FuncExpr(f) == [op |-> "func", arg |-> f]
GlobalExpr(g) == [op |-> "global", arg |-> g]
NewExpr == [op |-> "new", arg |-> 0]

I(op, x) == [op |-> op, x |-> x, y |-> 0]
I2(op, x, y) == [op |-> op, x |-> x, y |-> y]
Fn(ty, body) == [ty |-> ty, body |-> body]
Imported(ty) == [ty |-> ty, exact |-> FALSE]
Exactly(ty) == [ty |-> ty, exact |-> TRUE]
Limits(min, max) == [min |-> min, max |-> max]
TableTy(min, max, elem) == [min |-> min, max |-> max, elem |-> elem]
TableDef(min, max, elem, init) == [min |-> min, max |-> max, elem |-> elem, init |-> init]
GlobalTy(kind, mut) == [kind |-> kind, mut |-> mut]
GlobalDef(kind, mut, init) == [kind |-> kind, mut |-> mut, init |-> init]
ActiveElem(t, off, items) == [mode |-> "active", table |-> t, off |-> off, items |-> items]
PassiveElem(items) == [mode |-> "passive", table |-> 0, off |-> 0, items |-> items]
DeclaredElem(items) == [mode |-> "declarative", table |-> 0, off |-> 0, items |-> items]
Data(active, m, off, len) == [active |-> active, mem |-> m, off |-> off, len |-> len]

Empty == [impFuncs |-> <<>>, impTables |-> <<>>, impMems |-> <<>>, impGlobals |-> <<>>,
          impTags |-> <<>>, funcs |-> <<>>, tables |-> <<>>, mems |-> <<>>,
          globals |-> <<>>, tags |-> <<>>, elems |-> <<>>, data |-> <<>>, start |-> 0,
          types |-> Lists(<<1, 2, 3, 4, 6>>, <<0, 0, 0, 0, 5>>)]

\* Failing instantiations: the importer writes the exporter's table, then
\* its second segment and its data fit only after somebody grew them, and
\* then its start function runs, and may trap.
Exporter ==
  [Empty EXCEPT !.funcs = <<Fn(1, {I("table.grow", 1), I("memory.grow", 1),
                                   I2("table.copy", 1, 1), I("table.fill", 1),
                                   I2("call_indirect", 1, 1)})>>,
                !.tables = <<TableDef(1, 2, "func", FuncExpr(1))>>,
                !.mems = <<Limits(0, NoMax)>>]
Importer ==
  [Empty EXCEPT !.impTables = <<TableTy(1, 2, "func")>>,
                !.impMems = <<Limits(0, NoMax)>>,
                !.funcs = <<Fn(3, {I2("call_indirect", 1, 1), I("struct.new", 0),
                                   I("global.set", 1)})>>,
                !.globals = <<GlobalDef("any", TRUE, NewExpr)>>,
                !.elems = <<ActiveElem(1, 0, <<FuncExpr(1)>>),
                            ActiveElem(1, 1, <<NullExpr>>)>>,
                !.data = <<Data(TRUE, 1, 0, 1)>>,
                !.start = 1]
FailingModules == {Exporter, Importer}

\* Function imports: subtypes, equal shapes, exact imports and re-exports, and
\* references to a function its owner defines and to one it imports.  The
\* relay lists a type twice.
Library ==
  [Empty EXCEPT !.impFuncs = <<Imported(6)>>,
                !.funcs = <<Fn(3, {}), Fn(4, {}), Fn(1, {}),
                             Fn(6, {I("ref.func", 5), I("call", 1)})>>,
                !.globals = <<GlobalDef("func", FALSE, FuncExpr(5)),
                              GlobalDef("func", FALSE, FuncExpr(1))>>]
Relay ==
  [Empty EXCEPT !.impFuncs = <<Imported(1), Exactly(1)>>,
                !.impGlobals = <<GlobalTy("func", FALSE)>>,
                !.types = Lists(<<1, 2, 3, 4, 6, 6>>, <<0, 0, 0, 0, 6, 5>>),
                !.funcs = <<Fn(6, {I("call", 1), I("call", 2), I("global.get", 1),
                                   I2("table.init", 1, 1), I("elem.drop", 1),
                                   I("data.drop", 1), I2("call_indirect", 1, 6)})>>,
                !.tables = <<TableDef(1, NoMax, "func", GlobalExpr(1))>>,
                !.elems = <<PassiveElem(<<FuncExpr(1)>>), DeclaredElem(<<FuncExpr(1)>>)>>,
                !.data = <<Data(FALSE, 0, 0, 1)>>]

\* One instance with two memories.
TwoMemories ==
  [Empty EXCEPT !.funcs = <<Fn(1, {I("memory.grow", 1), I("memory.grow", 2)})>>,
                !.mems = <<Limits(1, NoMax), Limits(1, NoMax)>>]
MemoryModules == {TwoMemories}

\* Shared mutable state: a table, globals from the host and from another
\* instance, and a tag.
Owner ==
  [Empty EXCEPT !.tags = <<1>>,
                !.funcs = <<Fn(2, {I("ref.func", 1), I("table.set", 1), I("table.get", 1),
                                   I("global.set", 1)})>>,
                !.tables = <<TableDef(1, NoMax, "func", NullExpr)>>,
                !.globals = <<GlobalDef("func", TRUE, NullExpr)>>]
Sharer ==
  [Empty EXCEPT !.impTags = <<1>>,
                !.impTables = <<TableTy(1, NoMax, "func")>>,
                !.impGlobals = <<GlobalTy("func", TRUE), GlobalTy("func", TRUE)>>,
                !.funcs = <<Fn(1, {}), Fn(2, {I("global.get", 1), I("global.set", 2),
                                             I2("call_indirect", 1, 2)})>>,
                !.globals = <<GlobalDef("func", FALSE, FuncExpr(2))>>,
                !.tags = <<4>>]
LinkedModules == {Library, Relay, Owner, Sharer}
ASSUME ScenesSpellAlike == SpellAlike(LinkedModules)

\* Two modules write (ref 1) in a signature: a structure in the one, a function
\* in the other, which calls what the first imported and handed out.
Giver ==
  [Empty EXCEPT !.types = Lists(<<9, 8>>, <<0, 1>>),
                !.impFuncs = <<Imported(8)>>,
                !.funcs = <<Fn(8, {})>>,
                !.globals = <<GlobalDef("func", FALSE, FuncExpr(1))>>]
Taker ==
  [Empty EXCEPT !.types = Lists(<<1, 7>>, <<0, 1>>),
                !.impGlobals = <<GlobalTy("func", FALSE)>>,
                !.funcs = <<Fn(7, {I2("call_indirect", 1, 7)})>>,
                !.tables = <<TableDef(1, NoMax, "func", GlobalExpr(1))>>]
SpellingModules == {Giver, Taker}
=============================================================================
