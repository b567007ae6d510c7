------------------------------ MODULE Embedding ------------------------------
(***************************************************************************)
(* The C interface of crates/wasmrt-capi/src/lib.rs: stores, linkers and   *)
(* the integer handles of instances, functions, memories and globals; host *)
(* callbacks with an environment and its finalizer; calls, traps and their *)
(* messages.  The linker's own rules are in Linker.                        *)
(*                                                                         *)
(* The embedder makes calls in any order wasmrt.h allows: it does not use  *)
(* a pointer it deleted, and not a store or linker that a call in flight   *)
(* has borrowed.  Handles it may keep, mix up and use too late.  While a   *)
(* callback runs the embedder may call on everything else.                 *)
(***************************************************************************)
EXTENDS Linker

CONSTANTS
  Modules,        \* [imports, exports, funcs, start]
  Wide,           \* 2^32: there are as many tags; a handle is tag * Wide + slot + 1
  MaxCalls,       \* how deep functions may call each other before the engine traps
  MaxStores, MaxLinkers, MaxEnvs, MaxInstances, MaxHandles, MaxDefs, MaxDepth

ASSUME WideAssumption == Wide \in Nat /\ Wide > MaxInstances + MaxHandles + 1

VARIABLES
  nextTag,        \* NEXT_STORE_TAG, an AtomicU32
  stores,         \* wasmrt_store, in the order of their creation
  linkers,        \* wasmrt_linker, in the order of their creation
  rc,             \* environment -> how many closures hold its EnvBox
  finals,         \* environment -> how often its finalizer ran
  exits,          \* WASI contexts in order: the guest called proc_exit
  stack,          \* calls whose callback is running, innermost last
  parked,         \* HOST_TRAP: the message of a callback's trap
  outcome,        \* what the last call reported, if that was a failure
  issued,         \* handles the embedder was given, and what for
  log             \* linker -> the definitions made, in order

vars == <<nextTag, stores, linkers, rc, finals, exits, stack, parked, outcome, issued, log>>

NoMessage == "none"
NotFound == [kind |-> "none"]

\* A validated module: indices are in range, and every text is a text.
FuncImports(module) == {k \in DOMAIN module.imports : module.imports[k].kind = "func"}
FuncCount(module) == Cardinality(FuncImports(module)) + Len(module.funcs)
Externs == {"func", "table", "memory", "global", "tag"}
FuncTypes == [params : Nat, results : Nat, crosses : BOOLEAN, wraps : BOOLEAN]
ASSUME ModulesAssumption ==
  \A m \in Modules :
    /\ m.start \in 0..FuncCount(m)
    /\ m.imports \in Seq(ToSet(m.imports)) /\ m.funcs \in Seq([calls : 0..FuncCount(m), type : FuncTypes])
    /\ \A k \in DOMAIN m.imports :
         /\ m.imports[k].kind \in Externs /\ m.imports[k].name # NoMessage
         /\ m.imports[k].kind = "func" => m.imports[k].type \in FuncTypes
    /\ \A name \in DOMAIN m.exports :
         /\ m.exports[name].kind \in Externs /\ m.exports[name].index \in Nat \ {0}
         /\ m.exports[name].kind = "func" => m.exports[name].index <= FuncCount(m)
ASSUME BoundsAssumption == {MaxCalls, MaxInstances, MaxHandles} \subseteq Nat

-----------------------------------------------------------------------------
(* Handles.                                                                *)

Pack(tag, slot) == tag * Wide + slot + 1
\* The slot, or -1 for a handle of another store and for the zero handle.
Unpack(id, tag) == IF id \div Wide # tag \/ id % Wide = 0 THEN -1 ELSE (id % Wide) - 1

\* The vectors behind the handles start at slot 0.
At(s, slot) == IF slot >= 0 /\ slot < Len(s) THEN s[slot + 1] ELSE NotFound

InstanceOf(st, id) == At(st.instances, Unpack(id, st.tag))
\* func, memory and global: which instance, which index of it.
EntryOf(st, kind, id) ==
  LET entry == At(st.entries[kind], Unpack(id, st.tag))
      inst == At(st.instances, entry.slot)
  IN IF entry = NotFound THEN NotFound
     ELSE IF inst = NotFound THEN NotFound ELSE [kind |-> kind, instance |-> inst.instance, index |-> entry.index]

SlotOf(st, instance) ==
  CHOOSE slot \in 0..(Len(st.instances) - 1) : st.instances[slot + 1].instance = instance

-----------------------------------------------------------------------------
(* Stores and what runs in them.                                           *)

Live(objects) == {k \in DOMAIN objects : objects[k].live}
\* wasmrt.h: a store or linker in use by a call is not to be touched.
FreeStores == {s \in Live(stores) : \A k \in DOMAIN stack : stack[k].store # s}
FreeLinkers == {l \in Live(linkers) : \A k \in DOMAIN stack : stack[k].linker # l}

Kinds == {"func", "memory", "global"}
\* The engine numbers its stores too, with 64 bits: NEXT_STORE_ID does not wrap.
NewStore == [live |-> TRUE, tag |-> nextTag, id |-> Len(stores) + 1, instances |-> <<>>, code |-> <<>>,
             entries |-> [kind \in Kinds |-> <<>>]]

\* Store::export_func, export_index and export_global_type.
ExportIn(st, instance, name) ==
  LET exports == st.code[instance.index].module.exports
  IN IF instance.store # st.id \/ name \notin DOMAIN exports THEN Nothing ELSE exports[name]

FuncLinks(inst) == Retained(inst.links, FuncImports(inst.module))
InstancesMade == Cardinality(UNION {{<<s, k>> : k \in DOMAIN stores[s].code} : s \in DOMAIN stores})
HandlesMade == Cardinality({h \in issued : h.kind # "instance"})

\* Where a call of a function ends: it returns, it reaches a host function or
\* the calls are too many.  An imported function runs in the instance that
\* defines it; a defined one returns or calls one function.
Calling(instance, func) == [kind |-> "instance", instance |-> instance, index |-> func]
Hop(st, at) ==
  IF at.kind # "instance" THEN at
  ELSE LET inst == st.code[at.instance.index]
           links == FuncLinks(inst)
           callee == inst.module.funcs[at.index - Len(links)].calls
       IN IF at.index <= Len(links) THEN links[at.index]
          ELSE IF callee = 0 THEN [kind |-> "return"] ELSE Calling(at.instance, callee)
Reach(st, instance, func) ==
  LET run[n \in 0..MaxCalls] == IF n = 0 THEN Calling(instance, func) ELSE Hop(st, run[n - 1])
  IN run[MaxCalls]

-----------------------------------------------------------------------------
(* Environments.  A definition's closure holds one EnvBox; every import    *)
(* linked to it clones the reference.  The finalizer runs with the last.   *)

UsesAt(backings, e) == {k \in DOMAIN backings : backings[k].kind = "func" /\ backings[k].env = e}
Uses(backings, e) == Cardinality(UsesAt(backings, e))
DefsOf(l) == [k \in DOMAIN l.defs |-> l.defs[k].def]

\* The references that exist: definitions of a linker, links of a store's instance.
LinkerHolds(l, e) == {<<"linker", l, 0, k>> : k \in UsesAt(DefsOf(linkers[l]), e)}
StoreHolds(s, e) == UNION {{<<"store", s, i, k>> : k \in UsesAt(stores[s].code[i].links, e)} : i \in DOMAIN stores[s].code}

\* References are released and taken, and these are left.
Count(left) ==
  /\ rc' = left
  /\ finals' = [e \in DOMAIN rc |-> finals[e] + (IF rc[e] > 0 /\ left[e] = 0 THEN 1 ELSE 0)]
\* What is left when one linker's definitions become others.
Redefined(l, new) == [e \in DOMAIN rc |-> rc[e] + Uses(DefsOf(new), e) - Uses(DefsOf(linkers[l]), e)]

-----------------------------------------------------------------------------
(* Results.                                                                *)

Ok == [code |-> "ok", message |-> NoMessage, raised |-> NoMessage]
\* The text of an error is left out: it goes to the caller and nowhere else.
Error(text) == [code |-> "error", message |-> NoMessage, raised |-> NoMessage]
\* trap_message: a host trap takes the parked message if there is one.
Message(slot) == IF slot # NoMessage THEN slot ELSE "host trap"
EngineTrap == [code |-> "trap", message |-> "engine", raised |-> "engine"]
Trapped(slot, raised) == [code |-> "trap", message |-> Message(slot), raised |-> raised]

\* Mutant of AfterTaking: the message is read and stays.
AfterReading(slot) == slot
AfterTaking(slot) == NoMessage

Report(result) == outcome' = result /\ UNCHANGED <<parked, exits, stack>>
Quietly == Report(Ok)
SameHandles == UNCHANGED <<nextTag, issued>>
SameEnvs == UNCHANGED <<rc, finals>>

-----------------------------------------------------------------------------
(* Creating and deleting.                                                  *)

\* Mutant of StoreNew: every store gets the same tag.
StoreNewSameTag ==
  /\ Len(stores) < MaxStores
  /\ stores' = Append(stores, NewStore)
  /\ UNCHANGED <<nextTag, linkers, issued, log>> /\ SameEnvs /\ Quietly

StoreNew ==
  /\ Len(stores) < MaxStores
  /\ stores' = Append(stores, NewStore) /\ nextTag' = (nextTag + 1) % Wide
  /\ UNCHANGED <<linkers, issued, log>> /\ SameEnvs /\ Quietly

StoreDelete(s) ==
  /\ stores' = [stores EXCEPT ![s].live = FALSE, ![s].code = <<>>]
  /\ Count([e \in DOMAIN rc |-> rc[e] - Cardinality(StoreHolds(s, e))])
  /\ UNCHANGED <<linkers, log>> /\ SameHandles /\ Quietly

LinkerNew ==
  /\ Len(linkers) < MaxLinkers
  /\ linkers' = Append(linkers, NewLinker)
  /\ log' = Append(log, <<>>)
  /\ UNCHANGED stores /\ SameEnvs /\ SameHandles /\ Quietly

\* Mutant of LinkerDelete: the linker owns the environments.
LinkerDeleteFinalizing(l) ==
  /\ linkers' = [linkers EXCEPT ![l].live = FALSE, ![l].defs = <<>>]
  /\ log' = [log EXCEPT ![l] = <<>>]
  /\ LET mine == {e \in DOMAIN rc : Uses(DefsOf(linkers[l]), e) > 0}
     IN /\ rc' = [e \in DOMAIN rc |-> IF e \in mine THEN 0 ELSE rc[e]]
        /\ finals' = [e \in DOMAIN rc |-> finals[e] + (IF e \in mine THEN 1 ELSE 0)]
  /\ UNCHANGED stores /\ SameHandles /\ Quietly

LinkerDelete(l) ==
  /\ linkers' = [linkers EXCEPT ![l].live = FALSE, ![l].defs = <<>>]
  /\ log' = [log EXCEPT ![l] = <<>>]
  /\ Count(Redefined(l, [linkers[l] EXCEPT !.defs = <<>>]))
  /\ UNCHANGED stores /\ SameHandles /\ Quietly

-----------------------------------------------------------------------------
(* Definitions.                                                            *)

Logged(l, entry) == Len(log[l]) < MaxDefs /\ log' = [log EXCEPT ![l] = Append(@, entry)]
SetLinker(l, new) == linkers' = [linkers EXCEPT ![l] = new]

DefineFunc(l, module, name) ==
  /\ Len(rc) < MaxEnvs
  /\ LET e == Len(rc) + 1
         new == Define(linkers[l], module, name, [kind |-> "func", env |-> e])
         others == Redefined(l, new)
     IN /\ SetLinker(l, new)
        /\ rc' = Append(others, 1)
        /\ finals' = Append([k \in DOMAIN rc |-> finals[k] + (IF rc[k] > 0 /\ others[k] = 0 THEN 1 ELSE 0)], 0)
        /\ Logged(l, Def(module, name, [kind |-> "func", env |-> e]))
  /\ UNCHANGED stores /\ SameHandles /\ Report(Ok)

\* define_global, and the Rust interface's define_memory and define_table.
DefineOther(l, module, name, def) ==
  /\ SetLinker(l, Define(linkers[l], module, name, def))
  /\ Logged(l, Def(module, name, def))
  /\ Count(Redefined(l, Define(linkers[l], module, name, def)))
  /\ UNCHANGED stores /\ SameHandles /\ Report(Ok)

DefineInstance(l, s, module, h) ==
  IF InstanceOf(stores[s], h.id) = NotFound
  THEN Report(Error("foreign instance")) /\ SameHandles /\ SameEnvs /\ UNCHANGED <<stores, linkers, log>>
  ELSE LET def == [kind |-> "instance", instance |-> InstanceOf(stores[s], h.id).instance]
       IN /\ SetLinker(l, DefineModule(linkers[l], module, def))
          /\ Logged(l, Def(module, "", def))
          /\ UNCHANGED stores /\ SameEnvs /\ SameHandles /\ Report(Ok)

\* A second definition replaces the first one's namespace and context.
DefineWasi(l) ==
  /\ Len(exits) < MaxLinkers
  /\ LET def == [kind |-> "namespace", ctx |-> Len(exits) + 1]
     IN /\ SetLinker(l, [DefineModule(linkers[l], "wasi", def) EXCEPT !.wasi = def.ctx])
        /\ Logged(l, Def("wasi", "", def))
  /\ exits' = Append(exits, FALSE) /\ outcome' = Ok
  /\ UNCHANGED <<stores, parked, stack>> /\ SameEnvs /\ SameHandles

DefineUnknownImportsAsTraps(l) ==
  /\ ~linkers[l].fallback
  /\ SetLinker(l, DefineFallback(linkers[l]))
  /\ UNCHANGED <<stores, log>> /\ SameEnvs /\ SameHandles /\ Report(Ok)

-----------------------------------------------------------------------------
(* Calls and instantiation.  `then` is what the call does when it ends:    *)
(* return to C, or hand out the instance whose start function it was.      *)

\* The instance just pushed gets a handle.
Handed(st, instance) == [st EXCEPT !.instances = Append(@, [instance |-> instance])]
HandleFor(st, s, kind, slot, entry) == [id |-> Pack(st.tag, slot), store |-> s, kind |-> kind, of |-> entry]
InstanceHandle(st, s, instance) == HandleFor(st, s, "instance", Len(st.instances), [kind |-> "instance", instance |-> instance])

\* Returning normally from a call that ran in st.
Finish(s, st, then) ==
  IF then.start
  THEN /\ stores' = [stores EXCEPT ![s] = Handed(st, then.instance)]
       /\ issued' = issued \cup {InstanceHandle(st, s, then.instance)}
       /\ outcome' = Ok
  ELSE /\ stores' = [stores EXCEPT ![s] = st]
       /\ UNCHANGED issued
       /\ outcome' = IF then.wraps THEN Error("internal externref") ELSE Ok

\* Running function f of an instance until it ends or a callback starts.
Invoke(s, st, instance, f, then) ==
  LET end == Reach(st, instance, f)
  IN \/ end.kind = "return" /\ Finish(s, st, then) /\ UNCHANGED <<parked, exits, stack>>
     \/ /\ end.kind = "func" /\ Len(stack) < MaxDepth
        /\ stack' = Append(stack, [store |-> s, linker |-> then.linker, env |-> end.env, then |-> then])
        /\ stores' = [stores EXCEPT ![s] = st]
        /\ outcome' = Ok /\ UNCHANGED <<parked, exits, issued>>
     \/ /\ end.kind # "return" /\ end.kind # "func"
        /\ stores' = [stores EXCEPT ![s] = st]
        /\ UNCHANGED <<stack, issued>>
        /\ \/ /\ end.kind = "fallback"
              /\ outcome' = Trapped(end.name, end.name) /\ parked' = AfterTaking(end.name)
              /\ UNCHANGED exits
           \/ /\ end.kind = "namespace"       \* proc_exit
              /\ exits' = [exits EXCEPT ![end.ctx] = TRUE]
              /\ outcome' = Trapped(parked, "host trap") /\ parked' = AfterTaking(parked)
           \/ /\ end.kind = "instance"        \* call stack exhausted
              /\ outcome' = EngineTrap /\ UNCHANGED <<parked, exits>>

\* The callback returns, with a trap of its own or without.
CallbackReturns(trap) ==
  LET frame == Last(stack)
  IN /\ stack # <<>>
     /\ stack' = Front(stack)
     /\ IF trap = NoMessage
        THEN Finish(frame.store, stores[frame.store], frame.then) /\ UNCHANGED parked
        ELSE /\ outcome' = Trapped(trap, trap) /\ parked' = AfterTaking(trap)
             /\ UNCHANGED <<stores, issued>>
     /\ UNCHANGED <<nextTag, linkers, exits, log>> /\ SameEnvs

\* What the store says of each import as an export of its module's instance.
Offers(linker, st, imports) ==
  [k \in DOMAIN imports |->
     LET whole == Whole(linker, imports[k].module)
     IN IF whole.kind = "instance" THEN ExportIn(st, whole.instance, imports[k].name) ELSE Nothing]

\* wasmrt_linker_instantiate.  `fails` is a trap of the engine before the
\* instance joins the store; a start function that traps leaves it there.
Instantiate(l, s, module, fails) ==
  LET st == stores[s]
      resolved == Resolve(linkers[l], module.imports, Offers(linkers[l], st, module.imports))
      instance == [store |-> st.id, index |-> Len(st.code) + 1]
      joined == [st EXCEPT !.code = Append(@, [module |-> module, links |-> resolved.backings])]
      then == [start |-> TRUE, instance |-> instance, wraps |-> FALSE, linker |-> l]
  IN /\ InstancesMade < MaxInstances
     /\ \/ /\ resolved.code # "ok" \/ fails
           /\ Report(IF resolved.code # "ok" THEN Error(resolved.code) ELSE EngineTrap)
           /\ SameEnvs /\ UNCHANGED <<stores, issued>>
        \/ /\ resolved.code = "ok" /\ ~fails
           /\ Count([e \in DOMAIN rc |-> rc[e] + Uses(resolved.backings, e)])
           /\ IF module.start = 0
              THEN Finish(s, joined, then) /\ UNCHANGED <<parked, exits, stack>>
              ELSE Invoke(s, joined, instance, module.start, then)
     /\ UNCHANGED <<nextTag, linkers, log>>

\* Mutant of GetExport: the instance's own number stands for its slot.
GetExportByNumber(s, h, name, kind) ==
  LET st == stores[s]
      inst == InstanceOf(st, h.id)
      export == ExportIn(st, inst.instance, name)
      entry == [slot |-> inst.instance.index - 1, index |-> export.index]
  IN /\ inst # NotFound /\ export # Nothing /\ export.kind = kind
     /\ HandlesMade < MaxHandles
     /\ stores' = [stores EXCEPT ![s].entries[kind] = Append(@, entry)]
     /\ issued' = issued \cup {HandleFor(st, s, kind, Len(st.entries[kind]),
                                         [kind |-> kind, instance |-> inst.instance, index |-> export.index])}
     /\ UNCHANGED <<nextTag, linkers, log>> /\ SameEnvs /\ Report(Ok)

\* wasmrt_instance_get_func, _get_memory and _get_global.
GetExport(s, h, name, kind) ==
  LET st == stores[s]
      inst == InstanceOf(st, h.id)
      export == ExportIn(st, inst.instance, name)
      entry == [slot |-> SlotOf(st, inst.instance), index |-> export.index]
  IN /\ inst # NotFound /\ export # Nothing /\ export.kind = kind
     /\ HandlesMade < MaxHandles
     /\ stores' = [stores EXCEPT ![s].entries[kind] = Append(@, entry)]
     /\ issued' = issued \cup {HandleFor(st, s, kind, Len(st.entries[kind]),
                                         [kind |-> kind, instance |-> inst.instance, index |-> export.index])}
     /\ UNCHANGED <<nextTag, linkers, log>> /\ SameEnvs /\ Report(Ok)

\* The signature of a function, through its imports.
FuncType(st, instance, f) ==
  LET inst == st.code[instance.index]
      imports == Retained(inst.module.imports, FuncImports(inst.module))
  IN IF f <= Len(imports) THEN imports[f].type ELSE inst.module.funcs[f - Len(imports)].type

\* What wasmrt_func_call refuses before anything runs, in its order.
CallObjection(type, nargs, nresults) ==
  IF type.params # nargs THEN "arguments" ELSE IF type.results # nresults THEN "results"
  ELSE IF ~type.crosses THEN "type" ELSE NoMessage

FuncCall(s, h, nargs, nresults) ==
  LET st == stores[s]
      f == EntryOf(st, "func", h.id)
      type == FuncType(st, f.instance, f.index)
  IN /\ IF f = NotFound THEN Report(Error("foreign function")) /\ UNCHANGED <<stores, issued>>
        ELSE IF CallObjection(type, nargs, nresults) # NoMessage
        THEN Report(Error(CallObjection(type, nargs, nresults))) /\ UNCHANGED <<stores, issued>>
        ELSE Invoke(s, st, f.instance, f.index,
                    [start |-> FALSE, instance |-> f.instance, wraps |-> type.wraps, linker |-> 0])
     /\ UNCHANGED <<nextTag, linkers, log>> /\ SameEnvs

\* wasmrt_instance_initialize: a module without _initialize is done already.
Initialize(s, h) ==
  LET st == stores[s]
      inst == InstanceOf(st, h.id)
      export == ExportIn(st, inst.instance, "_initialize")
  IN /\ IF inst = NotFound THEN Report(Error("foreign instance")) /\ UNCHANGED <<stores, issued>>
        ELSE IF export.kind # "func" THEN Report(Ok) /\ UNCHANGED <<stores, issued>>
        ELSE Invoke(s, st, inst.instance, export.index,
                    [start |-> FALSE, instance |-> inst.instance, wraps |-> FALSE, linker |-> 0])
     /\ UNCHANGED <<nextTag, linkers, log>> /\ SameEnvs

-----------------------------------------------------------------------------
Init ==
  /\ nextTag = 1 /\ stores = <<>> /\ linkers = <<>> /\ rc = <<>> /\ finals = <<>> /\ exits = <<>>
  /\ stack = <<>> /\ parked = NoMessage /\ outcome = Ok /\ issued = {} /\ log = <<>>

\* What the modules import and export.
AllImports == UNION {ToSet(m.imports) : m \in Modules}
ExportNames == UNION {DOMAIN m.exports : m \in Modules}
HandlesOf(kind) == {h \in issued : h.kind = kind}

Lifetimes ==
  \/ StoreNew \/ LinkerNew
  \/ \E s \in FreeStores : StoreDelete(s)
  \/ \E l \in FreeLinkers : LinkerDelete(l)

Definitions ==
  \E l \in FreeLinkers :
    \/ \E imp \in AllImports :
         \/ DefineFunc(l, imp.module, imp.name)
         \/ imp.kind = "global" /\ DefineOther(l, imp.module, imp.name, [kind |-> "global"])
         \/ \E s \in FreeStores, h \in HandlesOf("instance") : DefineInstance(l, s, imp.module, h)
    \/ DefineWasi(l) \/ DefineUnknownImportsAsTraps(l)

Calls ==
  \/ \E s \in FreeStores, l \in FreeLinkers, m \in Modules, fails \in BOOLEAN : Instantiate(l, s, m, fails)
  \/ \E s \in FreeStores, h \in HandlesOf("instance") :
       Initialize(s, h) \/ \E name \in ExportNames, kind \in Kinds : GetExport(s, h, name, kind)
  \/ \E s \in FreeStores, h \in HandlesOf("func"), n \in 0..1 : FuncCall(s, h, n, 0)
  \/ \E trap \in {NoMessage, "callback"} : CallbackReturns(trap)

Next == Lifetimes \/ Definitions \/ Calls
Spec == Init /\ [][Next]_vars

-----------------------------------------------------------------------------
(* Properties.                                                             *)

TypeOK ==
  /\ nextTag = (Len(stores) + 1) % Wide
  /\ \A s \in DOMAIN stores : /\ Len(stores[s].instances) <= MaxInstances
                              /\ stores[s].live => Len(stores[s].instances) <= Len(stores[s].code)
  /\ Len(finals) = Len(rc) /\ Len(log) = Len(linkers) /\ \A e \in DOMAIN rc : rc[e] \in Nat
  /\ \A k \in DOMAIN stack : stack[k].store \in Live(stores)
  /\ outcome.code \in {"ok", "error", "trap"}

\* pack, unpack and the vectors behind the handles: in the store that issued it
\* a handle names what it was issued for as long as the store lives, whatever
\* failed instantiations lie between; any other store refuses it, and every
\* store refuses a zeroed one.  This is so while fewer stores were made than
\* there are tags: NEXT_STORE_TAG wraps, and the next store has the tag, and
\* takes the handles, of one that may be long gone.
HandlesNameTheirObject ==
  \A s \in Live(stores) :
    /\ InstanceOf(stores[s], 0) = NotFound /\ \A kind \in Kinds : EntryOf(stores[s], kind, 0) = NotFound
    /\ \A h \in issued :
         LET found == IF h.kind = "instance" THEN InstanceOf(stores[s], h.id) ELSE EntryOf(stores[s], h.kind, h.id)
         IN IF h.store # s THEN found = NotFound
            ELSE IF h.kind = "instance" THEN found # NotFound /\ found.instance = h.of.instance ELSE found = h.of

\* EnvBox: whatever order linkers and stores are deleted in, definitions are
\* replaced in and instantiations fail in, the finalizer of an environment has
\* run once if nothing can call the callback any more, and not at all while
\* something can or while the callback is running.
Holders(e) ==
  (UNION {LinkerHolds(l, e) : l \in Live(linkers)}) \cup (UNION {StoreHolds(s, e) : s \in Live(stores)})
FinalizersRunOnce ==
  /\ \A e \in DOMAIN finals : finals[e] = IF Holders(e) = {} THEN 1 ELSE 0
  /\ \A k \in DOMAIN stack : finals[stack[k].env] = 0

\* insert, define_instance and define_namespace: what a name or a module means
\* is the last definition the embedder made of it.
LastOf(made, Matches(_)) ==
  LET at == {k \in DOMAIN made : Matches(made[k])}
  IN IF at = {} THEN Nothing ELSE made[CHOOSE k \in at : \A j \in at : j <= k].def
WholeKinds == {"instance", "namespace"}
LastNamed(made, module, name) ==
  LastOf(made, LAMBDA d : d.def.kind \notin WholeKinds /\ d.module = module /\ d.name = name)
LastWhole(made, module) == LastOf(made, LAMBDA d : d.def.kind \in WholeKinds /\ d.module = module)
NamesMeanTheirLastDefinition ==
  \A l \in Live(linkers), imp \in AllImports :
    /\ Exact(linkers[l], imp.module, imp.name) = LastNamed(log[l], imp.module, imp.name)
    /\ Whole(linkers[l], imp.module) = LastWhole(log[l], imp.module)

\* HOST_TRAP: the message of a trap is the one its own callback gave, never one
\* an earlier call left behind; a trap without one, as of proc_exit, gets none.
TrapsCarryTheirMessage == outcome.code = "trap" => outcome.message = outcome.raised
=============================================================================
