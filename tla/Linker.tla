------------------------------- MODULE Linker -------------------------------
(***************************************************************************)
(* The linker of crates/wasmrt-core/src/linker.rs: the definitions an      *)
(* embedder has made, how they replace each other, and what each import of *)
(* a module resolves to.                                                   *)
(*                                                                         *)
(* A linker is [defs, namespaces, fallback, live, wasi]: definitions under *)
(* a module and a name, definitions of whole modules, a factory for        *)
(* functions nothing else defines; and for the C interface, whether it was *)
(* deleted and its WASI context.  A definition is a record with a kind.    *)
(***************************************************************************)
EXTENDS Integers, Sequences, FiniteSets, SequencesExt

NewLinker == [defs |-> <<>>, namespaces |-> <<>>, fallback |-> FALSE, live |-> TRUE, wasi |-> 0]

Def(module, name, def) == [module |-> module, name |-> name, def |-> def]
Namespace(module, def) == [module |-> module, def |-> def]

\* Vec::retain: what stands at the positions kept, in its order.
Rank(kept, k) == Cardinality({j \in kept : j <= k})
Retained(s, kept) == [n \in 1..Cardinality(kept) |-> s[CHOOSE k \in kept : Rank(kept, k) = n]]

\* Mutant of Define: an earlier definition of the same name stays in front.
DefineAgain(l, module, name, def) == [l EXCEPT !.defs = Append(@, Def(module, name, def))]

\* Linker::insert.
Define(l, module, name, def) ==
  LET others == {k \in DOMAIN l.defs : ~(l.defs[k].module = module /\ l.defs[k].name = name)}
  IN [l EXCEPT !.defs = Append(Retained(l.defs, others), Def(module, name, def))]

\* define_instance and define_namespace: either replaces the other.
DefineModule(l, module, def) ==
  LET others == {k \in DOMAIN l.namespaces : l.namespaces[k].module # module}
  IN [l EXCEPT !.namespaces = Append(Retained(l.namespaces, others), Namespace(module, def))]

DefineFallback(l) == [l EXCEPT !.fallback = TRUE]

Nothing == [kind |-> "none"]

\* The first that matches, or Nothing.
Least(at) == CHOOSE k \in at : \A j \in at : k <= j
FirstDef(s, Matches(_)) ==
  LET at == {k \in DOMAIN s : Matches(s[k])}
  IN IF at = {} THEN Nothing ELSE s[Least(at)].def
Exact(l, module, name) == FirstDef(l.defs, LAMBDA d : d.module = module /\ d.name = name)
Whole(l, module) == FirstDef(l.namespaces, LAMBDA d : d.module = module)

Defines(l, module, name) == Exact(l, module, name) # Nothing \/ Whole(l, module) # Nothing \/ l.fallback

-----------------------------------------------------------------------------
(* Resolution.  `offered` is what the store that resolves says of the      *)
(* import's name as an export of the instance its module stands for:       *)
(* [kind, index] and for a global its type, or Nothing, also when the      *)
(* instance is of another store.                                           *)

Linked(backing) == [code |-> "ok", backing |-> backing]
Unlinked(code) == [code |-> code]

\* An export of a registered instance, of the kind the import asks for.
FromInstance(imp, instance, export) ==
  IF export.kind # imp.kind
  THEN Unlinked(IF imp.kind = "global" THEN "incompatible" ELSE "unknown")
  ELSE IF imp.kind = "global" /\ export.type # imp.type THEN Unlinked("incompatible")
  ELSE Linked([kind |-> "instance", instance |-> instance, index |-> export.index])

\* What the whole module or the fallback offers where no definition has the name.
Otherwise(l, imp, offered) ==
  LET whole == Whole(l, imp.module)
  IN IF whole.kind = "instance" THEN FromInstance(imp, whole.instance, offered)
     ELSE IF imp.kind # "func" THEN Unlinked("unknown")
     ELSE IF whole.kind = "namespace" THEN Linked(whole)
     ELSE IF l.fallback THEN Linked([kind |-> "fallback", name |-> imp.name]) ELSE Unlinked("unknown")

\* Linker::resolve of one import.
ResolveImport(l, imp, offered) ==
  LET exact == Exact(l, imp.module, imp.name)
  IN IF exact = Nothing THEN Otherwise(l, imp, offered)
     ELSE IF exact.kind = imp.kind /\ imp.kind # "tag" THEN Linked(exact) ELSE Unlinked("mismatch")

\* Every import in order, with what is offered for it; the first failure decides.
Resolve(l, imports, offers) ==
  LET each == [k \in DOMAIN imports |-> ResolveImport(l, imports[k], offers[k])]
      failed == {k \in DOMAIN each : each[k].code # "ok"}
  IN IF failed = {} THEN [code |-> "ok", backings |-> [k \in DOMAIN each |-> each[k].backing]]
     ELSE [code |-> each[Least(failed)].code, backings |-> <<>>]
=============================================================================
