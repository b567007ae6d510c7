------------------------------ MODULE Linking ------------------------------
(***************************************************************************)
(* The store of crates/wasmrt-core/src/interp.rs: instances linked         *)
(* together by Store::instantiate, the resource pools they share (tables,  *)
(* memories, globals, tags, segments, the GC heap), and the guest          *)
(* instructions and calls that change what is shared.                      *)
(*                                                                         *)
(* A store is single-threaded.  The host either starts an instantiation    *)
(* or invokes a function; while one of these runs nothing else can.  One   *)
(* instantiation is several steps here, because it can fail at many points *)
(* and each of them leaves a different store behind.                       *)
(*                                                                         *)
(* Index spaces and slots count from 1.  A reference is a pair: <<i, f>>   *)
(* is the funcref of function f stamped with instance i, <<0, k>> with     *)
(* k > 0 is object k of the heap, <<0, 0>> is null.  The contents of a     *)
(* linear memory and of a data segment are left out, only their sizes are  *)
(* kept; numeric globals and const expressions are left out as well.       *)
(***************************************************************************)
EXTENDS Integers, Sequences, FiniteSets

CONSTANTS
  Modules,         \* the decoded and validated modules the host may load
  Types,           \* store-wide type ids
  SubType,         \* <<sub, super>>: the declared subtype chain, closed
  SigOf,           \* the reference a type passes: its kind and the type it names, or 0
  MaxInstances,    \* MAX_INSTANCES: what a funcref can address
  MaxMemoryPages,  \* limits.max_memory_bytes, in pages
  MaxTableElems,   \* limits.max_table_elems
  MaxGcObjects,    \* limits.max_gc_objects
  MaxCallDepth,    \* limits.max_call_depth
  PageCap,         \* max_pages: the most pages a memory can address
  Operands         \* the integers a guest computes at run time

VARIABLES
  code,         \* the instances, in the order they were allocated
  globals,      \* pools.globals
  mems,         \* pools.memories: [pages, max]
  tables,       \* pools.tables: [entries, max, elem]
  tags,         \* pools.tags: the instance that defined each tag
  elemVals,     \* pools.elem_values
  elemDropped,  \* pools.elem_dropped
  dataDropped,  \* pools.data_dropped
  heap,         \* pools.gc_heap: the owner of each object, and its module
  job,          \* the instantiation in progress
  stack,        \* the frames of the running invocation, innermost last
  issued        \* the instances whose id the host has been given

pools == <<globals, mems, tables, tags, elemVals, elemDropped, dataDropped>>
vars == <<code, pools, heap, job, stack, issued>>

-----------------------------------------------------------------------------
(* References, types and the module's index spaces.                        *)

NoMax == -1                     \* a declared maximum that is absent
ThisStore == 1                  \* the id of this store; any other is foreign
Host == 0                       \* a host backing, or a host function
Null == <<0, 0>>

\* pack_funcref and funcref_instance: 31 bits name the instance.
FuncRef(i, f) == <<((i - 1) % MaxInstances) + 1, f>>
ObjRef(k) == <<0, k>>
IsFunc(v) == v[1] > 0
IsObj(v) == v[1] = 0 /\ v[2] > 0
HasKind(v, kind) == v = Null \/ (IsFunc(v) <=> kind = "func")

IsSubType(sub, sup) == <<sub, sup>> \in SubType

NumFuncs(m) == Len(m.impFuncs) + Len(m.funcs)
IsImport(m, f) == f <= Len(m.impFuncs)
FuncType(m, f) == IF IsImport(m, f) THEN m.impFuncs[f].ty
                  ELSE m.funcs[f - Len(m.impFuncs)].ty
Body(m, f) == m.funcs[f - Len(m.impFuncs)].body

TableDecl(m, t) == IF t <= Len(m.impTables) THEN m.impTables[t]
                   ELSE m.tables[t - Len(m.impTables)]
MemDecl(m, k) == IF k <= Len(m.impMems) THEN m.impMems[k]
                 ELSE m.mems[k - Len(m.impMems)]
GlobalDecl(m, g) == IF g <= Len(m.impGlobals) THEN m.impGlobals[g]
                    ELSE m.globals[g - Len(m.impGlobals)]
TagType(m, t) == IF t <= Len(m.impTags) THEN m.impTags[t]
                 ELSE m.tags[t - Len(m.impTags)]

\* A type section lists store-wide types under local indices, and writes the
\* type a reference names as a local index.  A function is declared with one
\* entry of its type.
Listed(m) == {m.types[k].ty : k \in DOMAIN m.types}
EntryOf(m, ty) == CHOOSE k \in DOMAIN m.types : m.types[k].ty = ty
Spelling(m, ty) ==
  LET ref == m.types[EntryOf(m, ty)].ref
  IN  IF ref = 0 THEN <<SigOf[ty][1], 0>> ELSE <<"ref", ref>>

\* canon_id: one index for all the entries of a type, and any index past the
\* section as it is.
Canon(m, k) == IF k \in DOMAIN m.types THEN EntryOf(m, m.types[k].ty) ELSE k
\* func_types_equal of module m: the same bits, or canonically the same.
FuncTypesEqual(m, a, b) ==
  \/ a = b
  \/ a[1] = "ref" /\ b[1] = "ref" /\ Canon(m, a[2]) = Canon(m, b[2])

LeastOf(a, b) == IF a <= b THEN a ELSE b
SumOf(f, n) == LET sum[k \in 0..n] == IF k = 0 THEN 0 ELSE f[k] + sum[k - 1]
               IN  sum[n]

-----------------------------------------------------------------------------
(* What decoding and validation guarantee of a module: every index in it   *)
(* is in range, and a const expression reads earlier, immutable globals.  A *)
(* segment's items allocate nothing, a restriction of this model.          *)

Ref == Nat \X Nat
Kinds == {"func", "any"}
Expr == [op : {"null", "func", "global", "new"}, arg : Nat]
Instr == [op : STRING, x : Nat, y : Nat]
TypeEntry == [ty : Types, ref : Nat]
FuncImport == [ty : Types, exact : BOOLEAN]
FuncBody == [ty : Types, body : SUBSET Instr]
MemType == [min : Nat, max : Int]
TableType == [min : Nat, max : Int, elem : Kinds]
TableBody == [min : Nat, max : Int, elem : Kinds, init : Expr]
GlobalType == [kind : Kinds, mut : BOOLEAN]
GlobalBody == [kind : Kinds, mut : BOOLEAN, init : Expr]
ElemSegment == [mode : STRING, table : Nat, off : Nat, items : Seq(Expr)]
DataSegment == [active : BOOLEAN, mem : Nat, off : Nat, len : Nat]

NumTables(m) == Len(m.impTables) + Len(m.tables)
NumMems(m) == Len(m.impMems) + Len(m.mems)
NumGlobals(m) == Len(m.impGlobals) + Len(m.globals)
NumTags(m) == Len(m.impTags) + Len(m.tags)

ValidExpr(m, e, numGlobals) ==
  /\ e.op = "func" => e.arg \in 1..NumFuncs(m)
  /\ e.op = "global" => e.arg \in 1..numGlobals /\ ~GlobalDecl(m, e.arg).mut

TableOps == {"table.get", "table.set", "table.grow", "table.fill", "table.copy",
             "table.init", "call_indirect"}
ValidInstr(m, ins) ==
  /\ ins.op \in {"call", "ref.func"} => ins.x \in 1..NumFuncs(m)
  /\ ins.op \in {"global.get", "global.set"} => ins.x \in 1..NumGlobals(m)
  /\ ins.op \in TableOps => ins.x \in 1..NumTables(m)
  /\ ins.op = "table.copy" => ins.y \in 1..NumTables(m)
  /\ ins.op = "table.init" => ins.y \in DOMAIN m.elems
  /\ ins.op = "call_indirect" => ins.y \in Types \cap Listed(m)
  /\ ins.op = "elem.drop" => ins.x \in DOMAIN m.elems
  /\ ins.op = "data.drop" => ins.x \in DOMAIN m.data
  /\ ins.op = "memory.grow" => ins.x \in 1..NumMems(m)

ModuleShape(m) ==
  /\ m.impFuncs \in Seq(FuncImport) /\ m.funcs \in Seq(FuncBody)
  /\ m.impTables \in Seq(TableType) /\ m.tables \in Seq(TableBody)
  /\ m.impMems \in Seq(MemType) /\ m.mems \in Seq(MemType)
  /\ m.impGlobals \in Seq(GlobalType) /\ m.globals \in Seq(GlobalBody)
  /\ m.impTags \in Seq(Types) /\ m.tags \in Seq(Types)
  /\ m.elems \in Seq(ElemSegment) /\ m.data \in Seq(DataSegment)
  /\ m.types \in Seq(TypeEntry)
  /\ m.start \in 0..NumFuncs(m)

ModuleIndices(m) ==
  /\ \A g \in DOMAIN m.globals : ValidExpr(m, m.globals[g].init, Len(m.impGlobals) + g - 1)
  /\ \A t \in DOMAIN m.tables : ValidExpr(m, m.tables[t].init, NumGlobals(m))
  /\ \A s \in DOMAIN m.elems :
       /\ m.elems[s].mode = "active" => m.elems[s].table \in 1..NumTables(m)
       /\ \A j \in DOMAIN m.elems[s].items :
            /\ m.elems[s].items[j].op # "new"
            /\ ValidExpr(m, m.elems[s].items[j], NumGlobals(m))
  /\ \A s \in DOMAIN m.data : m.data[s].active => m.data[s].mem \in 1..NumMems(m)
  /\ \A f \in DOMAIN m.funcs : \A ins \in m.funcs[f].body : ValidInstr(m, ins)

\* A constant expression of a kind of reference: null is of every kind.
Produces(m, e, kind) == CASE e.op = "null" -> TRUE
                          [] e.op = "func" -> kind = "func"
                          [] e.op = "new"  -> kind = "any"
                          [] OTHER         -> GlobalDecl(m, e.arg).kind = kind
ItemsProduce(m, s, kind) == \A j \in DOMAIN m.elems[s].items : Produces(m, m.elems[s].items[j], kind)
Bounded(decl) == decl.max # NoMax => decl.min <= decl.max

\* What is stored in a global, a table or a segment has the kind it declares.
ModuleTypes(m) ==
  /\ \A g \in DOMAIN m.globals : Produces(m, m.globals[g].init, m.globals[g].kind)
  /\ \A t \in DOMAIN m.tables : Bounded(m.tables[t]) /\ Produces(m, m.tables[t].init, m.tables[t].elem)
  /\ \A k \in DOMAIN m.mems : Bounded(m.mems[k])
  /\ \A s \in DOMAIN m.elems :
       m.elems[s].mode = "active" => ItemsProduce(m, s, TableDecl(m, m.elems[s].table).elem)
  /\ \A f \in DOMAIN m.funcs : \A ins \in m.funcs[f].body :
       /\ ins.op = "table.copy" => TableDecl(m, ins.y).elem = TableDecl(m, ins.x).elem
       /\ ins.op = "table.init" => ItemsProduce(m, ins.y, TableDecl(m, ins.x).elem)

ASSUME ModulesAreValid == \A m \in Modules : ModuleShape(m) /\ ModuleIndices(m)
ASSUME ModulesAreTyped == \A m \in Modules : ModuleTypes(m)
ASSUME LimitsAreNumbers == /\ MaxInstances \in Nat /\ MaxMemoryPages \in Nat
                           /\ MaxTableElems \in Nat /\ MaxGcObjects \in Nat
                           /\ MaxCallDepth \in Nat /\ PageCap \in Nat
                           /\ Operands \subseteq Nat
\* A reference is spelled by the local index of the type it names.
ModuleSpellings(m) ==
  /\ \A k \in DOMAIN m.types :
       LET target == SigOf[m.types[k].ty][2]
           ref == m.types[k].ref
       IN  IF target = 0 THEN ref = 0 ELSE ref \in DOMAIN m.types /\ m.types[ref].ty = target
  /\ \A f \in 1..NumFuncs(m) : FuncType(m, f) \in Listed(m)
ASSUME ModulesSpellTheirTypes == \A m \in Modules : ModuleSpellings(m)
ASSUME SignaturesNameTypes ==
  /\ SigOf \in [Types -> {"none", "func", "any"} \X Nat]
  /\ \A s, t \in Types : SigOf[s][2] = SigOf[t][2] /\ SigOf[s][2] # 0 => SigOf[s][1] = SigOf[t][1]
\* The validator accepts a declared subtype only when it matches its supertype:
\* what is passed both ways is then the same.
ASSUME SubTypesShareSig == \A p \in SubType : SigOf[p[1]] = SigOf[p[2]]

-----------------------------------------------------------------------------
(* What the host hands to instantiate: one backing per import, each naming *)
(* a store, an instance of it and an index there, or the host.             *)

Idle == [phase |-> "idle"]
Running == stack # <<>>

\* Mutant: the store an id was issued by is not looked at.
SlotOfAnyStore(b) == IF b.inst \in 1..Len(code) THEN b.inst ELSE Host

\* Store::slot: the id was issued by this store and names an instance of it.
SlotOf(b) == IF b.store = ThisStore /\ b.inst \in 1..Len(code)
             THEN b.inst ELSE Host

HostBacking == [store |-> Host, inst |-> Host, idx |-> 0]

\* Any id the host holds, of this store or of another one.
Ids == {<<ThisStore, i>> : i \in issued} \cup {<<2, 1>>}
BackingsFrom(n(_)) ==
  UNION {{[store |-> id[1], inst |-> id[2], idx |-> k] :
              k \in 1..(IF id[2] \in 1..Len(code) THEN n(id[2]) ELSE 1)} : id \in Ids}

FuncBackings == {HostBacking} \cup BackingsFrom(LAMBDA i : NumFuncs(code[i].mod))
TableBackings == BackingsFrom(LAMBDA i : Len(code[i].maps.tables))
MemBackings == BackingsFrom(LAMBDA i : Len(code[i].maps.mems))
TagBackings == BackingsFrom(LAMBDA i : Len(code[i].maps.tags))

\* A global is resolved by the Linker, which compares the declared types and
\* reads the exporter's current value for the constant expressions.  The host
\* itself supplies null.
GlobalBackings(decl) ==
  {[store |-> Host, inst |-> Host, idx |-> 0, val |-> Null]} \cup
  UNION {{[store |-> ThisStore, inst |-> i, idx |-> g,
           val |-> globals[code[i].maps.globals[g]]] :
              g \in {h \in 1..Len(code[i].maps.globals) :
                       /\ GlobalDecl(code[i].mod, h).kind = decl.kind
                       /\ GlobalDecl(code[i].mod, h).mut = decl.mut}} : i \in issued}

-----------------------------------------------------------------------------
(* Following a function through imports and re-exports.                    *)

Hop(p) == IF p[1] # Host /\ IsImport(code[p[1]].mod, p[2])
          THEN code[p[1]].imports[p[2]] ELSE p
Chase(i, f) == LET c[n \in 0..Len(code)] == IF n = 0 THEN <<i, f>> ELSE Hop(c[n - 1])
               IN  c
\* defining_func: the instance that defines the function, or the host.
DefiningFunc(i, f) == Chase(i, f)[Len(code)]
TypeOf(p) == FuncType(code[p[1]].mod, p[2])
\* How many Wasm-to-Wasm import hops call_function recurses through.
Hops(i, f) == LET c == Chase(i, f)
              IN  Cardinality({n \in 1..Len(code) : c[n] # c[n - 1] /\ c[n][1] # Host})

\* Mutant: a re-exported import satisfies any demand.
ImportableIfImported(x, f, want) ==
  IsImport(code[x].mod, f) \/ IsSubType(FuncType(code[x].mod, f), want)

\* Does the function behind (x, f) match an import of type want?  By identity
\* with subtyping when x defines it; when x imported it, the signatures are
\* compared through the store-wide type ids of the two modules.
Importable(x, f, want) ==
  IF IsImport(code[x].mod, f)
  THEN SigOf[FuncType(code[x].mod, f)] = SigOf[want]
  ELSE IsSubType(FuncType(code[x].mod, f), want)

\* Mutant: an exact import is compared with the exporter's declaration, not
\* with the function a chain of re-exports ends at.
FuncMatchesByDeclaration(decl, b) ==
  IF b.store = Host THEN ~decl.exact
  ELSE /\ SlotOf(b) # Host
       /\ IF decl.exact THEN TypeOf(<<SlotOf(b), b.idx>>) = decl.ty
          ELSE Importable(SlotOf(b), b.idx, decl.ty)

FuncMatches(decl, b) ==
  IF b.store = Host THEN ~decl.exact
  ELSE /\ SlotOf(b) # Host
       /\ IF decl.exact
          THEN LET p == DefiningFunc(SlotOf(b), b.idx)
               IN  p[1] # Host /\ TypeOf(p) = decl.ty
          ELSE Importable(SlotOf(b), b.idx, decl.ty)

MaxMatches(actual, declared) ==
  declared # NoMax => actual # NoMax /\ actual <= declared

MemMatches(decl, b) ==
  /\ SlotOf(b) # Host
  /\ LET actual == mems[code[SlotOf(b)].maps.mems[b.idx]]
     IN  actual.pages >= decl.min /\ MaxMatches(actual.max, decl.max)

TableMatches(decl, b) ==
  /\ SlotOf(b) # Host
  /\ LET actual == tables[code[SlotOf(b)].maps.tables[b.idx]]
     IN  /\ actual.elem = decl.elem
         /\ Len(actual.entries) >= decl.min
         /\ MaxMatches(actual.max, decl.max)

TagMatches(ty, b) ==
  SlotOf(b) # Host /\ TagType(code[SlotOf(b)].mod, b.idx) = ty

-----------------------------------------------------------------------------
(* Instantiation.  Until Commit everything lives in the job: a failure     *)
(* leaves behind only the objects the initialisers allocated.              *)

Self == Len(code) + 1
EvalValue(e, gvals) == CASE e.op = "null"   -> Null
                         [] e.op = "func"   -> FuncRef(Self, e.arg)
                         [] e.op = "global" -> gvals[e.arg]
                         [] e.op = "new"    -> ObjRef(Len(heap) + 1)
CanEval(e) == e.op = "new" => Len(heap) < MaxGcObjects
Allocate(owner, m) == heap' = Append(heap, [owner |-> owner, mod |-> m])
\* Mutant: the owner of the object is the last instance that was committed.
EvalHeapForLast(e) ==
  IF e.op = "new" THEN Allocate(Len(code), job.mod) ELSE UNCHANGED heap

EvalHeap(e) == IF e.op = "new" THEN Allocate(Self, job.mod) ELSE UNCHANGED heap

FailInstantiation == job' = Idle

BeginInstantiate ==
  /\ job = Idle /\ ~Running
  /\ Len(code) < MaxInstances
  /\ \E m \in Modules :
       \E fs \in [1..Len(m.impFuncs) -> FuncBackings],
          gs \in [1..Len(m.impGlobals) ->
                    UNION {GlobalBackings(m.impGlobals[g]) : g \in 1..Len(m.impGlobals)}],
          ms \in [1..Len(m.impMems) -> MemBackings],
          ts \in [1..Len(m.impTables) -> TableBackings],
          gts \in [1..Len(m.impTags) -> TagBackings] :
         /\ \A g \in 1..Len(m.impGlobals) : gs[g] \in GlobalBackings(m.impGlobals[g])
         /\ \A f \in 1..Len(m.impFuncs) : FuncMatches(m.impFuncs[f], fs[f])
         /\ job' = [phase |-> "globals", mod |-> m,
                    imp |-> [funcs |-> fs, globals |-> gs, mems |-> ms,
                             tables |-> ts, tags |-> gts],
                    gvals |-> [g \in 1..Len(m.impGlobals) |-> gs[g].val],
                    newTables |-> <<>>, next |-> 1]
  /\ UNCHANGED <<code, pools, heap, stack, issued>>

\* One defined global: its initialiser may read the globals before it.
EvalGlobal ==
  /\ job.phase = "globals"
  /\ LET m == job.mod
         k == Len(job.gvals) - Len(m.impGlobals) + 1
     IN  /\ k <= Len(m.globals)
         /\ IF CanEval(m.globals[k].init)
            THEN /\ job' = [job EXCEPT !.gvals =
                              Append(@, EvalValue(m.globals[k].init, @))]
                 /\ EvalHeap(m.globals[k].init)
            ELSE FailInstantiation /\ UNCHANGED heap
  /\ UNCHANGED <<code, pools, stack, issued>>

\* Imported memories, defined memories, tags and imported tables, in this
\* order; none of these checks has an effect, so they are one step.
LinkResources ==
  /\ job.phase = "globals"
  /\ Len(job.gvals) = Len(job.mod.impGlobals) + Len(job.mod.globals)
  /\ LET m == job.mod
         mins == [k \in 1..Len(m.mems) |-> m.mems[k].min]
     IN  IF /\ \A k \in 1..Len(m.impMems) : MemMatches(m.impMems[k], job.imp.mems[k])
            /\ SumOf(mins, Len(m.mems)) <= MaxMemoryPages
            /\ \A k \in 1..Len(m.impTags) : TagMatches(m.impTags[k], job.imp.tags[k])
            /\ \A k \in 1..Len(m.impTables) :
                 TableMatches(m.impTables[k], job.imp.tables[k])
         THEN job' = [job EXCEPT !.phase = "tables"]
         ELSE FailInstantiation
  /\ UNCHANGED <<code, pools, heap, stack, issued>>

\* One defined table, filled with null or with its initialiser's value.
EvalTable ==
  /\ job.phase = "tables"
  /\ LET m == job.mod
         k == Len(job.newTables) + 1
         mins == [j \in 1..Len(m.tables) |-> m.tables[j].min]
     IN  /\ k <= Len(m.tables)
         /\ IF SumOf(mins, k) <= MaxTableElems /\ CanEval(m.tables[k].init)
            THEN /\ job' = [job EXCEPT !.newTables = Append(@,
                      [entries |-> [j \in 1..mins[k] |->
                                      EvalValue(m.tables[k].init, job.gvals)],
                       max |-> m.tables[k].max, elem |-> m.tables[k].elem])]
                 /\ EvalHeap(m.tables[k].init)
            ELSE FailInstantiation /\ UNCHANGED heap
  /\ UNCHANGED <<code, pools, stack, issued>>

\* Index maps: an import keeps the exporter's slot, a definition takes a
\* fresh one.  A global the host supplies has no exporter: its slot comes
\* after those of the defined globals.
\* Mutant: the first definition gets the last slot in use.
FreshOneEarly(base, n) == [k \in 1..n |-> base + k - 1]

Fresh(base, n) == [k \in 1..n |-> base + k]
FromHost(imp, n) == {g \in 1..n : imp.globals[g].store = Host}
\* Mutant: host-supplied globals do not skip the slots of the defined ones.
GlobalMapOverlapping(m, imp) ==
  LET n == Len(m.impGlobals)
      base == Len(globals)
  IN  [g \in 1..n |->
         IF imp.globals[g].store = Host
         THEN base + Cardinality(FromHost(imp, g))
         ELSE code[SlotOf(imp.globals[g])].maps.globals[imp.globals[g].idx]]
      \o Fresh(base, Len(m.globals))

GlobalMap(m, imp) ==
  LET n == Len(m.impGlobals)
      base == Len(globals)
  IN  [g \in 1..n |->
         IF imp.globals[g].store = Host
         THEN base + Len(m.globals) + Cardinality(FromHost(imp, g))
         ELSE code[SlotOf(imp.globals[g])].maps.globals[imp.globals[g].idx]]
      \o Fresh(base, Len(m.globals))
HostGlobals(m, imp) == [r \in 1..Cardinality(FromHost(imp, Len(m.impGlobals))) |-> Null]
MemMap(m, imp) == [k \in 1..Len(m.impMems) |->
                     code[SlotOf(imp.mems[k])].maps.mems[imp.mems[k].idx]]
                  \o Fresh(Len(mems), Len(m.mems))
TableMap(m, imp) == [k \in 1..Len(m.impTables) |->
                       code[SlotOf(imp.tables[k])].maps.tables[imp.tables[k].idx]]
                    \o Fresh(Len(tables), Len(m.tables))
TagMap(m, imp) == [k \in 1..Len(m.impTags) |->
                     code[SlotOf(imp.tags[k])].maps.tags[imp.tags[k].idx]]
                  \o Fresh(Len(tags), Len(m.tags))
Targets(imp) == [f \in DOMAIN imp.funcs |->
                   IF imp.funcs[f].store = Host THEN <<Host, 0>>
                   ELSE <<SlotOf(imp.funcs[f]), imp.funcs[f].idx>>]
DefinedGlobals(m) == [g \in 1..Len(m.globals) |-> job.gvals[Len(m.impGlobals) + g]]
NewMem(decl) == [pages |-> decl.min, max |-> decl.max]
ElemValue(items, gvals) == [j \in DOMAIN items |-> EvalValue(items[j], gvals)]

\* The instance joins the store and its resources the pools, all at once.
Commit ==
  /\ job.phase = "tables"
  /\ Len(job.newTables) = Len(job.mod.tables)
  /\ LET m == job.mod
         imp == job.imp
     IN  /\ code' = Append(code,
              [mod |-> m, imp |-> imp, imports |-> Targets(imp),
               maps |-> [globals |-> GlobalMap(m, imp), mems |-> MemMap(m, imp),
                         tables |-> TableMap(m, imp), tags |-> TagMap(m, imp),
                         elems |-> Fresh(Len(elemVals), Len(m.elems)),
                         data |-> Fresh(Len(dataDropped), Len(m.data))]])
         /\ globals' = globals \o DefinedGlobals(m) \o HostGlobals(m, imp)
         /\ mems' = mems \o [k \in 1..Len(m.mems) |-> NewMem(m.mems[k])]
         /\ tables' = tables \o job.newTables
         /\ tags' = tags \o [k \in 1..Len(m.tags) |-> Self]
         /\ elemVals' = elemVals \o
              [s \in 1..Len(m.elems) |-> ElemValue(m.elems[s].items, job.gvals)]
         /\ elemDropped' = elemDropped \o
              [s \in 1..Len(m.elems) |-> m.elems[s].mode # "passive"]
         /\ dataDropped' = dataDropped \o [s \in 1..Len(m.data) |-> m.data[s].active]
  /\ job' = [job EXCEPT !.phase = "elems", !.next = 1]
  /\ UNCHANGED <<heap, stack, issued>>

\* An active element segment is written, or ends the instantiation while
\* the instance and the segments before it stay.
Written(entries, off, vals) ==
  [j \in DOMAIN entries |-> IF j - off \in DOMAIN vals THEN vals[j - off] ELSE entries[j]]
\* Mutant: a segment that does not fit takes the instance out of the store.
ApplyElemReclaiming ==
  /\ job.phase = "elems"
  /\ job.next <= Len(job.mod.elems)
  /\ LET seg == job.mod.elems[job.next]
         self == code[Len(code)]
         vals == elemVals[self.maps.elems[job.next]]
         t == self.maps.tables[seg.table]
     IN  IF seg.mode # "active"
         THEN job' = [job EXCEPT !.next = @ + 1] /\ UNCHANGED <<code, tables>>
         ELSE IF seg.off + Len(vals) <= Len(tables[t].entries)
         THEN /\ tables' = [tables EXCEPT ![t].entries = Written(@, seg.off, vals)]
              /\ job' = [job EXCEPT !.next = @ + 1]
              /\ UNCHANGED code
         ELSE /\ FailInstantiation /\ UNCHANGED tables
              /\ code' = SubSeq(code, 1, Len(code) - 1)
  /\ UNCHANGED <<globals, mems, tags, elemVals, elemDropped, dataDropped,
                 heap, stack, issued>>

ApplyElem ==
  /\ job.phase = "elems"
  /\ job.next <= Len(job.mod.elems)
  /\ LET seg == job.mod.elems[job.next]
         self == code[Len(code)]
         vals == elemVals[self.maps.elems[job.next]]
         t == self.maps.tables[seg.table]
     IN  IF seg.mode # "active"
         THEN job' = [job EXCEPT !.next = @ + 1] /\ UNCHANGED tables
         ELSE IF seg.off + Len(vals) <= Len(tables[t].entries)
         THEN /\ tables' = [tables EXCEPT ![t].entries = Written(@, seg.off, vals)]
              /\ job' = [job EXCEPT !.next = @ + 1]
         ELSE FailInstantiation /\ UNCHANGED tables
  /\ UNCHANGED <<code, globals, mems, tags, elemVals, elemDropped, dataDropped,
                 heap, stack, issued>>

\* Active data segments come after every element segment.
ApplyData ==
  /\ job.phase = "elems"
  /\ job.next > Len(job.mod.elems)
  /\ LET fits(seg) == seg.off + seg.len <= mems[code[Len(code)].maps.mems[seg.mem]].pages
         active == {s \in 1..Len(job.mod.data) : job.mod.data[s].active}
     IN  IF \A s \in active : fits(job.mod.data[s])
         THEN job' = [job EXCEPT !.phase = "start"]
         ELSE FailInstantiation
  /\ UNCHANGED <<code, pools, heap, stack, issued>>

-----------------------------------------------------------------------------
(* Calls.  A frame holds one reference, the top of its operand stack.  A   *)
(* type passes one reference each way, of the kind SigOf says, or none.    *)
(* Which type the reference names matters where signatures are compared;   *)
(* that a value is of that type is the cast's business.                    *)
(* A host function returns null where it returns a reference.              *)

Frame(p, want, val, depth) ==
  [inst |-> p[1], func |-> p[2], want |-> want, val |-> val, depth |-> depth]
CanPass(ty, val) == SigOf[ty][1] = "none" \/ HasKind(val, SigOf[ty][1])
Passed(ty, val, old) == IF SigOf[ty][1] = "none" THEN old ELSE val

\* call_function recurses once per import hop before a body runs; a function
\* without a body there is an error.
HasBody(p) == /\ p[1] \in 1..Len(code)
              /\ p[2] \in 1..NumFuncs(code[p[1]].mod) /\ ~IsImport(code[p[1]].mod, p[2])
CanEnter(i, f, depth) ==
  /\ depth + Hops(i, f) <= MaxCallDepth
  /\ DefiningFunc(i, f)[1] # Host => HasBody(DefiningFunc(i, f))
Entered(i, f, want, val, depth) ==
  Frame(DefiningFunc(i, f), want, Passed(want, val, Null), depth + Hops(i, f))

Top == stack[Len(stack)]
OwnType == TypeOf(<<Top.inst, Top.func>>)
CallerFrames == SubSeq(stack, 1, Len(stack) - 1)

FinishStart == /\ issued' = IF job = Idle THEN issued ELSE issued \cup {Len(code)}
               /\ job' = Idle

\* The last step of instantiate: the start function, if there is one.
Start ==
  /\ job.phase = "start"
  /\ LET f == job.mod.start
         i == Len(code)
     IN  IF f = 0 THEN FinishStart /\ UNCHANGED stack
         ELSE IF ~CanEnter(i, f, 1)
         THEN FailInstantiation /\ UNCHANGED <<stack, issued>>
         ELSE IF DefiningFunc(i, f)[1] = Host
         THEN FinishStart /\ UNCHANGED stack
         ELSE /\ stack' = <<Entered(i, f, FuncType(job.mod, f), Null, 1)>>
              /\ job' = [job EXCEPT !.phase = "running"]
              /\ UNCHANGED issued
  /\ UNCHANGED <<code, pools, heap>>

\* The host calls a function of an instance it holds the id of.
Invoke ==
  /\ job = Idle /\ ~Running
  /\ \E i \in issued : \E f \in 1..NumFuncs(code[i].mod) :
       /\ CanEnter(i, f, 1) /\ DefiningFunc(i, f)[1] # Host
       /\ stack' = <<Entered(i, f, FuncType(code[i].mod, f), Null, 1)>>
  /\ UNCHANGED <<code, pools, heap, job, issued>>

Return ==
  /\ Running
  /\ CanPass(OwnType, Top.val)
  /\ IF Len(stack) = 1 THEN stack' = <<>> /\ FinishStart
     ELSE /\ stack' = [CallerFrames EXCEPT ![Len(stack) - 1].val =
                         Passed(OwnType, Top.val, @)]
          /\ UNCHANGED <<job, issued>>
  /\ UNCHANGED <<code, pools, heap>>

\* A trap unwinds every frame and keeps every effect.  If a start function
\* was running the host never learns the id of the instance.
TrapOut ==
  /\ Running
  /\ stack' = <<>> /\ job' = Idle
  /\ UNCHANGED <<code, pools, heap, issued>>

-----------------------------------------------------------------------------
(* The instructions that read or write what instances share.  A body is    *)
(* the set of instructions it may execute: control inside it is left out,  *)
(* and so are the executions that end in TrapOut.                          *)

Inst == code[Top.inst]
Instructions(op) == {ins \in Body(Inst.mod, Top.func) : ins.op = op}
TableSlot(t) == Inst.maps.tables[t]
Entries(t) == tables[TableSlot(t)].entries
Hold(v) == stack' = [stack EXCEPT ![Len(stack)].val = v]

CallTo(i, f, want) ==
  /\ CanEnter(i, f, Top.depth + 1)
  /\ CanPass(want, Top.val)
  /\ IF DefiningFunc(i, f)[1] = Host THEN Hold(Passed(want, Null, Top.val))
     ELSE stack' = Append(stack, Entered(i, f, want, Top.val, Top.depth + 1))
  /\ UNCHANGED <<code, pools, heap, job, issued>>

Call == Running /\ \E ins \in Instructions("call") :
          CallTo(Top.inst, ins.x, FuncType(Inst.mod, ins.x))

\* Mutant: a function its owner imported is not checked at all.
CallableIfImported(x, f, want) ==
  IsImport(code[x].mod, f) \/ IsSubType(FuncType(code[x].mod, f), want)

\* May the running instance call (x, f) as a want?  By identity with subtyping
\* if x defines it.  If x imported it the two spellings are compared in the
\* caller's module, although x may have a type section of its own.
Callable(x, f, want) ==
  LET owner == code[x].mod
  IN  IF IsImport(owner, f)
      THEN FuncTypesEqual(Inst.mod, Spelling(Inst.mod, want), Spelling(owner, FuncType(owner, f)))
      ELSE IsSubType(FuncType(owner, f), want)

\* Mutant: the entry's function index is called in the calling instance.
CallIndirectInCaller ==
  /\ Running
  /\ \E ins \in Instructions("call_indirect"), k \in Operands :
       /\ k \in DOMAIN Entries(ins.x)
       /\ LET v == Entries(ins.x)[k]
          IN  /\ v # Null
              /\ Callable(v[1], v[2], ins.y)
              /\ CallTo(Top.inst, v[2], ins.y)

\* Into the funcref's own instance, once the callee's type passes the check.
CallIndirect ==
  /\ Running
  /\ \E ins \in Instructions("call_indirect"), k \in Operands :
       /\ k \in DOMAIN Entries(ins.x)
       /\ LET v == Entries(ins.x)[k]
          IN  /\ v # Null
              /\ Callable(v[1], v[2], ins.y)
              /\ CallTo(v[1], v[2], ins.y)

RefFunc ==
  /\ Running
  /\ \E ins \in Instructions("ref.func") : Hold(FuncRef(Top.inst, ins.x))
  /\ UNCHANGED <<code, pools, heap, job, issued>>

StructNew ==
  /\ Running /\ Instructions("struct.new") # {}
  /\ Len(heap) < MaxGcObjects
  /\ Allocate(Top.inst, Inst.mod)
  /\ Hold(ObjRef(Len(heap) + 1))
  /\ UNCHANGED <<code, pools, job, issued>>

GlobalGet ==
  /\ Running
  /\ \E ins \in Instructions("global.get") : Hold(globals[Inst.maps.globals[ins.x]])
  /\ UNCHANGED <<code, pools, heap, job, issued>>

GlobalSet ==
  /\ Running
  /\ \E ins \in Instructions("global.set") :
       /\ HasKind(Top.val, GlobalDecl(Inst.mod, ins.x).kind)
       /\ globals' = [globals EXCEPT ![Inst.maps.globals[ins.x]] = Top.val]
  /\ UNCHANGED <<code, mems, tables, tags, elemVals, elemDropped, dataDropped,
                 heap, job, stack, issued>>

TableGet ==
  /\ Running
  /\ \E ins \in Instructions("table.get"), k \in Operands :
       k \in DOMAIN Entries(ins.x) /\ Hold(Entries(ins.x)[k])
  /\ UNCHANGED <<code, pools, heap, job, issued>>

SetEntries(t, entries) == tables' = [tables EXCEPT ![TableSlot(t)].entries = entries]
TableStep == UNCHANGED <<code, globals, mems, tags, elemVals, elemDropped,
                         dataDropped, heap, job, stack, issued>>
Fits(t) == HasKind(Top.val, TableDecl(Inst.mod, t).elem)

TableSet ==
  /\ Running
  /\ \E ins \in Instructions("table.set"), k \in Operands :
       /\ k \in DOMAIN Entries(ins.x) /\ Fits(ins.x)
       /\ SetEntries(ins.x, [Entries(ins.x) EXCEPT ![k] = Top.val])
  /\ TableStep

\* Mutant: a table's own maximum is not consulted when it grows.
TableLimitCeilingOnly(t) == MaxTableElems

\* Refused (and so without effect) past the table's maximum or the ceiling.
TableLimit(t) == IF t.max = NoMax THEN MaxTableElems ELSE LeastOf(t.max, MaxTableElems)
TableGrow ==
  /\ Running
  /\ \E ins \in Instructions("table.grow"), n \in Operands :
       /\ Fits(ins.x)
       /\ Len(Entries(ins.x)) + n <= TableLimit(tables[TableSlot(ins.x)])
       /\ SetEntries(ins.x, Entries(ins.x) \o [k \in 1..n |-> Top.val])
  /\ TableStep

TableFill ==
  /\ Running
  /\ \E ins \in Instructions("table.fill"), dst \in Operands, n \in Operands :
       /\ Fits(ins.x)
       /\ dst + n <= Len(Entries(ins.x))
       /\ SetEntries(ins.x, Written(Entries(ins.x), dst, [k \in 1..n |-> Top.val]))
  /\ TableStep

TableCopy ==
  /\ Running
  /\ \E ins \in Instructions("table.copy"),
        dst \in Operands, src \in Operands, n \in Operands :
       /\ src + n <= Len(Entries(ins.y)) /\ dst + n <= Len(Entries(ins.x))
       /\ SetEntries(ins.x, Written(Entries(ins.x), dst,
                                    [k \in 1..n |-> Entries(ins.y)[src + k]]))
  /\ TableStep

\* A dropped segment has length zero.
Segment(e) == LET s == Inst.maps.elems[e]
              IN  IF elemDropped[s] THEN <<>> ELSE elemVals[s]
TableInit ==
  /\ Running
  /\ \E ins \in Instructions("table.init"),
        dst \in Operands, src \in Operands, n \in Operands :
       /\ src + n <= Len(Segment(ins.y)) /\ dst + n <= Len(Entries(ins.x))
       /\ SetEntries(ins.x, Written(Entries(ins.x), dst,
                                    [k \in 1..n |-> Segment(ins.y)[src + k]]))
  /\ TableStep

ElemDrop ==
  /\ Running
  /\ \E ins \in Instructions("elem.drop") :
       elemDropped' = [elemDropped EXCEPT ![Inst.maps.elems[ins.x]] = TRUE]
  /\ UNCHANGED <<code, globals, mems, tables, tags, elemVals, dataDropped,
                 heap, job, stack, issued>>

DataDrop ==
  /\ Running
  /\ \E ins \in Instructions("data.drop") :
       dataDropped' = [dataDropped EXCEPT ![Inst.maps.data[ins.x]] = TRUE]
  /\ UNCHANGED <<code, globals, mems, tables, tags, elemVals, elemDropped,
                 heap, job, stack, issued>>

\* Refused past the memory's maximum, the address space or the ceiling.
MemLimit(m) == LeastOf(IF m.max = NoMax THEN PageCap ELSE LeastOf(m.max, PageCap),
                       MaxMemoryPages)
MemoryGrow ==
  /\ Running
  /\ \E ins \in Instructions("memory.grow"), n \in Operands :
       LET s == Inst.maps.mems[ins.x]
       IN  /\ mems[s].pages + n <= MemLimit(mems[s])
           /\ mems' = [mems EXCEPT ![s].pages = @ + n]
  /\ UNCHANGED <<code, globals, tables, tags, elemVals, elemDropped, dataDropped,
                 heap, job, stack, issued>>

-----------------------------------------------------------------------------
Init ==
  /\ code = <<>> /\ globals = <<>> /\ mems = <<>> /\ tables = <<>> /\ tags = <<>>
  /\ elemVals = <<>> /\ elemDropped = <<>> /\ dataDropped = <<>>
  /\ heap = <<>> /\ job = Idle /\ stack = <<>> /\ issued = {}

Instantiate == \/ BeginInstantiate \/ EvalGlobal \/ LinkResources \/ EvalTable
               \/ Commit \/ ApplyElem \/ ApplyData \/ Start
Control == Invoke \/ Call \/ CallIndirect \/ Return \/ TrapOut
Execute == \/ RefFunc \/ StructNew \/ GlobalGet \/ GlobalSet
           \/ TableGet \/ TableSet \/ TableGrow \/ TableFill \/ TableCopy
           \/ TableInit \/ ElemDrop \/ DataDrop \/ MemoryGrow

Next == Instantiate \/ Control \/ Execute
Spec == Init /\ [][Next]_vars

-----------------------------------------------------------------------------
(* Properties.                                                             *)

Instances == 1..Len(code)
InTables == UNION {{tables[t].entries[k] : k \in DOMAIN tables[t].entries} :
                     t \in DOMAIN tables}
InGlobals == {globals[g] : g \in DOMAIN globals}
InSegments == UNION {{elemVals[s][k] : k \in DOMAIN elemVals[s]} : s \in DOMAIN elemVals}
Pooled == InTables \cup InGlobals \cup InSegments
Reachable == Pooled \cup {stack[n].val : n \in DOMAIN stack}

Slots == Seq(Nat \ {0})
Backing == [store : Nat, inst : Nat, idx : Nat]
Imports == [funcs : Seq(Backing), mems : Seq(Backing), tables : Seq(Backing), tags : Seq(Backing),
            globals : Seq([store : Nat, inst : Nat, idx : Nat, val : Ref])]
IndexMaps == [globals : Slots, mems : Slots, tables : Slots, tags : Slots,
              elems : Slots, data : Slots]
Instance == [mod : Modules, imp : Imports, imports : Seq(Nat \X Nat), maps : IndexMaps]
Table == [entries : Seq(Ref), max : Int, elem : Kinds]
Memory == [pages : Nat, max : Int]
HeapObject == [owner : Nat, mod : Modules]
Phases == {"globals", "tables", "elems", "start", "running"}
Job == [phase : Phases, mod : Modules, imp : Imports, gvals : Seq(Ref),
        newTables : Seq(Table), next : Nat]
FrameType == [inst : Nat, func : Nat, want : Types, val : Ref, depth : Nat]

\* Every variable keeps its shape, and the index maps of an instance map its
\* whole index spaces into the pools.
MapInto(map, num, pool) == Len(map) = num /\ \A k \in DOMAIN map : map[k] <= Len(pool)
MapsAreTotal(i) ==
  LET m == code[i].mod
      maps == code[i].maps
  IN  /\ MapInto(maps.globals, NumGlobals(m), globals)
      /\ MapInto(maps.mems, NumMems(m), mems)
      /\ MapInto(maps.tables, NumTables(m), tables)
      /\ MapInto(maps.tags, NumTags(m), tags)
      /\ MapInto(maps.elems, Len(m.elems), elemVals)
      /\ MapInto(maps.data, Len(m.data), dataDropped)
PoolShapes ==
  /\ globals \in Seq(Ref)
  /\ mems \in Seq(Memory)
  /\ tables \in Seq(Table)
  /\ tags \in Seq(Nat)
  /\ elemVals \in Seq(Seq(Ref))
  /\ elemDropped \in Seq(BOOLEAN) /\ Len(elemDropped) = Len(elemVals)
  /\ dataDropped \in Seq(BOOLEAN)
TypeOK ==
  /\ code \in Seq(Instance) /\ Len(code) <= MaxInstances
  /\ PoolShapes
  /\ heap \in Seq(HeapObject)
  /\ job \in Job \cup {Idle}
  /\ stack \in Seq(FrameType)
  /\ issued \subseteq Instances
  /\ \A i \in Instances : MapsAreTotal(i)

\* Every reference a guest can get hold of, in a table, a global, a segment
\* or on an operand stack, names a function of an instance that exists, or
\* an object of the heap: also after an instantiation that failed half-way
\* left its references in tables it shares (instantiate, linking0.wast).
Live(v) == \/ v = Null
           \/ IsFunc(v) /\ v[1] \in Instances /\ v[2] \in 1..NumFuncs(code[v[1]].mod)
           \/ IsObj(v) /\ v[2] <= Len(heap)
ReferencesAreLive == \A v \in Reachable : Live(v)

\* An object a guest can reach is owned by an instance of the module whose
\* types number it, although failed instantiations leave objects behind
\* whose owner's number is given to the next instance (HeapObject::owner).
ObjectsKnowTheirModule ==
  \A v \in Reachable : IsObj(v) =>
    LET o == heap[v[2]] IN o.owner \in Instances /\ code[o.owner].mod = o.mod

\* Each slot of a pool is defined by one instance, whether or not that
\* instance's instantiation succeeded: no slot is orphaned by a failure and
\* no two definitions share one (IndexMaps, instantiate).
Definitions(kind, first(_)) ==
  UNION {{<<i, k>> : k \in {j \in DOMAIN code[i].maps[kind] : j \in first(i)}} :
           i \in Instances}
PoolIsPartitioned(kind, size, owns(_)) ==
  \A s \in 1..size : Cardinality({d \in Definitions(kind, owns) :
                                    code[d[1]].maps[kind][d[2]] = s}) = 1
After(n) == {k \in Nat : k > n}
SlotsHaveOneOwner ==
  /\ PoolIsPartitioned("tables", Len(tables), LAMBDA i : After(Len(code[i].mod.impTables)))
  /\ PoolIsPartitioned("mems", Len(mems), LAMBDA i : After(Len(code[i].mod.impMems)))
  /\ PoolIsPartitioned("tags", Len(tags), LAMBDA i : After(Len(code[i].mod.impTags)))
  /\ PoolIsPartitioned("elems", Len(elemVals), LAMBDA i : After(0))
  /\ PoolIsPartitioned("data", Len(dataDropped), LAMBDA i : After(0))
  /\ PoolIsPartitioned("globals", Len(globals), LAMBDA i :
       After(Len(code[i].mod.impGlobals)) \cup FromHost(code[i].imp, Len(code[i].mod.impGlobals)))

\* What an import index leads to is exactly what the host asked for: the
\* same slot or function as the named index of the named instance, which
\* belongs to this store, was issued to the host and is older than the
\* importer (Store::slot, instantiate).
SameSlots(i, kind, n) ==
  \A k \in 1..n :
    LET b == code[i].imp[kind][k]
    IN  \/ b.store = Host
        \/ /\ b.store = ThisStore /\ b.inst < i /\ b.inst \in issued
           /\ code[i].maps[kind][k] = code[b.inst].maps[kind][b.idx]
LinksAreWhatWasAsked ==
  \A i \in Instances :
    LET m == code[i].mod
    IN  /\ SameSlots(i, "globals", Len(m.impGlobals))
        /\ SameSlots(i, "mems", Len(m.impMems))
        /\ SameSlots(i, "tables", Len(m.impTables))
        /\ SameSlots(i, "tags", Len(m.impTags))
        /\ \A f \in 1..Len(m.impFuncs) :
             LET b == code[i].imp.funcs[f]
             IN  IF b.store = Host THEN code[i].imports[f][1] = Host
                 ELSE /\ b.store = ThisStore /\ b.inst < i /\ b.inst \in issued
                      /\ code[i].imports[f] = <<b.inst, b.idx>>

\* Whoever grows a shared table or memory, every instance that can index it
\* keeps finding it within the limits its own module declared and was
\* validated against, and no table, memory or heap outgrows the ceilings of
\* ResourceLimits (table_import_matches, memory_grow, table.grow).
LimitsHold ==
  /\ \A t \in DOMAIN tables : Len(tables[t].entries) <= MaxTableElems
  /\ \A k \in DOMAIN mems : mems[k].pages <= MaxMemoryPages
  /\ Len(heap) <= MaxGcObjects
  /\ \A i \in Instances :
    /\ \A k \in DOMAIN code[i].maps.mems :
         LET d == MemDecl(code[i].mod, k)
             a == mems[code[i].maps.mems[k]]
         IN  a.pages >= d.min /\ (d.max # NoMax => a.pages <= d.max)
    /\ \A k \in DOMAIN code[i].maps.tables :
         LET d == TableDecl(code[i].mod, k)
             a == tables[code[i].maps.tables[k]]
         IN  /\ Len(a.entries) >= d.min
             /\ d.max # NoMax => Len(a.entries) <= d.max
             /\ \A e \in DOMAIN a.entries : HasKind(a.entries[e], d.elem)

\* Modules in which no spelling of one means another type in the other: as when
\* no imported function passes a reference that names a type.
SpellAlike(modules) ==
  \A caller, owner \in modules : caller # owner =>
    \A want \in Listed(caller), f \in 1..Len(owner.impFuncs) :
      FuncTypesEqual(caller, Spelling(caller, want), Spelling(owner, owner.impFuncs[f].ty))
        => SigOf[want] = SigOf[owner.impFuncs[f].ty]

\* No silent wrong call: whatever tables, imports and re-exports a call went
\* through, the function that runs has the parameters and the results its
\* call site was validated against (call_indirect, function imports).  It is
\* so of modules that spell alike; of others call_indirect breaks it.
CalleesHaveTheCallersType ==
  \A n \in DOMAIN stack :
    SigOf[TypeOf(<<stack[n].inst, stack[n].func>>)] = SigOf[stack[n].want]

\* An exact function import runs a function defined with the very type it
\* declares, through any chain of re-exports (custom-descriptors).
ExactImportsAreExact ==
  \A i \in Instances : \A f \in 1..Len(code[i].mod.impFuncs) :
    code[i].mod.impFuncs[f].exact =>
      LET p == DefiningFunc(i, f)
      IN  p[1] # Host /\ TypeOf(p) = code[i].mod.impFuncs[f].ty

\* Nothing is ever taken back: an instance that joined the store stays as it
\* is, a slot keeps its place, tables and memories only grow and dropped
\* segments stay dropped, whatever fails later (index stability).
StoreOnlyGrows ==
  /\ Len(code') >= Len(code) /\ \A i \in Instances : code'[i] = code[i]
  /\ Len(tables') >= Len(tables)
  /\ \A t \in DOMAIN tables : Len(tables'[t].entries) >= Len(tables[t].entries)
  /\ Len(mems') >= Len(mems) /\ \A m \in DOMAIN mems : mems'[m].pages >= mems[m].pages
  /\ Len(globals') >= Len(globals) /\ Len(heap') >= Len(heap)
  /\ \A k \in DOMAIN heap : heap'[k] = heap[k]
  /\ \A s \in DOMAIN elemDropped : elemDropped[s] => elemDropped'[s]
  /\ issued \subseteq issued'
NothingIsTakenBack == [][StoreOnlyGrows]_vars

\* What the documentation says and the code does not do.  ResourceLimits:
\* max_memory_bytes is the total an instance may hold "summed across its
\* memories", "applied at instantiation and at memory.grow".
MemoryCeilingIsPerInstance ==
  \A i \in Instances :
    LET m == code[i].mod
        own == [k \in 1..Len(m.mems) |-> mems[code[i].maps.mems[Len(m.impMems) + k]].pages]
    IN  SumOf(own, Len(m.mems)) <= MaxMemoryPages
====
