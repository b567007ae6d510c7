--------------------------- MODULE LinkingProofs ---------------------------
(***************************************************************************)
(* Proofs about Linking: every step keeps the shapes of the pools, and no  *)
(* guest ever holds a reference to a function or an object that does not   *)
(* exist.                                                                  *)
(***************************************************************************)
EXTENDS Linking, TLAPS, FiniteSetTheorems, SequenceTheorems

-----------------------------------------------------------------------------
(* The inductive invariant.  TypeOK and ReferencesAreLive are not enough   *)
(* on their own: the values of an instantiation in progress name an        *)
(* instance that does not exist yet, and become live when it is committed. *)

LiveSoon(v) == Live(v) \/ (v[1] = Len(code) + 1 /\ v[2] \in 1..NumFuncs(job.mod))

GlobalLinks(m, imp) ==
  /\ Len(imp.globals) = Len(m.impGlobals)
  /\ \A g \in DOMAIN imp.globals :
       LET b == imp.globals[g]
       IN  b.store # Host => /\ b.store = ThisStore /\ b.inst \in Instances
                             /\ b.idx \in 1..NumGlobals(code[b.inst].mod)

\* A backing that names an instance names something in its index space.
InSpace(b, n(_)) == SlotOf(b) # Host => b.idx \in 1..n(code[SlotOf(b)].mod)
Links(m, imp) ==
  /\ GlobalLinks(m, imp)
  /\ Len(imp.mems) = Len(m.impMems) /\ \A k \in DOMAIN imp.mems : InSpace(imp.mems[k], NumMems)
  /\ Len(imp.tables) = Len(m.impTables) /\ \A k \in DOMAIN imp.tables : InSpace(imp.tables[k], NumTables)
  /\ Len(imp.tags) = Len(m.impTags) /\ \A k \in DOMAIN imp.tags : InSpace(imp.tags[k], NumTags)
Linked(imp) ==
  /\ \A k \in DOMAIN imp.mems : SlotOf(imp.mems[k]) # Host
  /\ \A k \in DOMAIN imp.tables : SlotOf(imp.tables[k]) # Host
  /\ \A k \in DOMAIN imp.tags : SlotOf(imp.tags[k]) # Host

\* Before Commit: what the job refers to exists, or is the new instance.
Building ==
  job.phase \in {"globals", "tables"} =>
    /\ Len(code) < MaxInstances /\ stack = <<>>
    /\ Links(job.mod, job.imp)
    /\ Len(job.gvals) \in Len(job.mod.impGlobals)..NumGlobals(job.mod)
    /\ \A g \in DOMAIN job.gvals : LiveSoon(job.gvals[g])
    /\ \A t \in DOMAIN job.newTables : \A k \in DOMAIN job.newTables[t].entries :
         LiveSoon(job.newTables[t].entries[k])
    /\ job.phase = "globals" => job.newTables = <<>>
    /\ job.phase = "tables" => Linked(job.imp) /\ Len(job.gvals) = NumGlobals(job.mod)

\* After Commit: the job is about the last instance of the store.
Committed ==
  job.phase \in {"elems", "start", "running"} =>
    /\ Len(code) >= 1 /\ job.mod = code[Len(code)].mod
    /\ job.next >= 1
    /\ job.phase # "running" => stack = <<>>

FramesHaveBodies == \A n \in DOMAIN stack : HasBody(<<stack[n].inst, stack[n].func>>)

LinkInv ==
  /\ TypeOK /\ Building /\ Committed /\ FramesHaveBodies
  /\ ReferencesAreLive

-----------------------------------------------------------------------------
(* References stay live while the store only gains instances and objects.  *)

StoreExtends ==
  /\ Len(code') >= Len(code) /\ \A i \in Instances : code'[i] = code[i]
  /\ Len(heap') >= Len(heap)

\* A reference that is live stays live: instances and objects are only added.
LEMMA LiveStays ==
  ASSUME NEW v, v \in Ref, StoreExtends, code \in Seq(Instance), Len(code') \in Nat,
         Len(heap) \in Nat, Len(heap') \in Nat, Live(v)
  PROVE  Live(v)'
<1>1. Len(code) \in Nat
  OBVIOUS
<1>2. CASE v = Null
  BY <1>2 DEF Live
<1>3. CASE IsFunc(v) /\ v[1] \in Instances /\ v[2] \in 1..NumFuncs(code[v[1]].mod)
  <2>1. v[1] \in Instances' /\ code'[v[1]] = code[v[1]]
    BY <1>1, <1>3 DEF StoreExtends, Instances
  <2> QED BY <2>1, <1>3 DEF Live, IsFunc, NumFuncs
<1>4. CASE IsObj(v) /\ v[2] <= Len(heap)
  <2>1. v[2] <= Len(heap')
    BY <1>4 DEF StoreExtends, Ref
  <2> QED BY <2>1, <1>4 DEF Live, IsObj
<1> QED BY <1>2, <1>3, <1>4 DEF Live

\* A frame's function keeps its body.
LEMMA BodyStays ==
  ASSUME NEW i, NEW f, StoreExtends, code \in Seq(Instance), Len(code') \in Nat,
         HasBody(<<i, f>>)
  PROVE  HasBody(<<i, f>>)'
<1>1. i \in Instances /\ f \in 1..NumFuncs(code[i].mod) /\ ~IsImport(code[i].mod, f)
  BY DEF HasBody, Instances
<1>2. i \in 1..Len(code') /\ code'[i] = code[i]
  BY <1>1 DEF StoreExtends, Instances
<1> QED BY <1>1, <1>2 DEF HasBody, NumFuncs, IsImport

\* MAX_INSTANCES is what makes a packed funcref name the instance it was made
\* for: up to it the stamp is not reduced (pack_funcref).
LEMMA FuncRefNames ==
  ASSUME NEW i \in 1..MaxInstances, NEW f \in Nat
  PROVE  FuncRef(i, f) = <<i, f>> /\ FuncRef(i, f) \in Ref
<1>1. MaxInstances \in Nat /\ i - 1 \in 0..(MaxInstances - 1)
  BY LimitsAreNumbers
<1>2. (i - 1) % MaxInstances = i - 1
  BY <1>1
<1> QED BY <1>1, <1>2 DEF FuncRef, Ref

-----------------------------------------------------------------------------
(* A step of the guest changes the stack, or one pool.                     *)

\* What a frame may hold is a live reference.
GoodFrame(fr) == fr \in FrameType /\ Live(fr.val) /\ HasBody(<<fr.inst, fr.func>>)
GoodFrames == \A n \in DOMAIN stack : GoodFrame(stack[n])

\* A step that changes the stack only, as calls, returns and reads do, keeps
\* the invariant if the frames it leaves are good.
LEMMA StackStep ==
  ASSUME LinkInv, UNCHANGED <<code, pools, heap, job, issued>>,
         stack' \in Seq(FrameType),
         \A n \in DOMAIN stack' : GoodFrame(stack'[n]),
         stack' # <<>> => job.phase \in {"idle", "running"}
  PROVE  LinkInv'
<1>1. TypeOK'
  BY DEF LinkInv, TypeOK, PoolShapes, pools, Instances, MapsAreTotal, MapInto
<1>2. Building' /\ Committed'
  <2>1. \A v : LiveSoon(v)' <=> LiveSoon(v)
    BY DEF LiveSoon, Live, Instances
  <2>2. /\ Links(job.mod, job.imp)' <=> Links(job.mod, job.imp)
        /\ Linked(job.imp)' <=> Linked(job.imp)
    BY DEF Links, GlobalLinks, Linked, InSpace, Instances, SlotOf
  <2>3. Building'
    BY <2>1, <2>2 DEF LinkInv, Building
  <2>4. Committed'
    BY DEF LinkInv, Committed
  <2> QED BY <2>3, <2>4
<1>3. FramesHaveBodies'
  BY DEF FramesHaveBodies, GoodFrame, HasBody
<1>4. ReferencesAreLive'
  <2>1. Pooled' = Pooled
    BY DEF Pooled, InTables, InGlobals, InSegments, pools
  <2>2. \A v \in Reachable' : Live(v)
    BY <2>1 DEF LinkInv, ReferencesAreLive, Reachable, GoodFrame
  <2> QED BY <2>2 DEF ReferencesAreLive, Live, Instances
<1> QED BY <1>1, <1>2, <1>3, <1>4 DEF LinkInv

\* A step that changes entries of the pools, and not how many there are, keeps
\* the invariant if what they hold is live.
LEMMA PoolStep ==
  ASSUME LinkInv, UNCHANGED <<code, heap, job, stack, issued>>,
         PoolShapes',
         Len(globals') = Len(globals), Len(mems') = Len(mems), Len(tables') = Len(tables),
         Len(tags') = Len(tags), Len(elemVals') = Len(elemVals),
         Len(dataDropped') = Len(dataDropped),
         \A v \in Pooled' : Live(v)
  PROVE  LinkInv'
<1>1. TypeOK'
  <2>1. \A i \in Instances' : MapsAreTotal(i)'
    BY DEF LinkInv, TypeOK, Instances, MapsAreTotal, MapInto
  <2> QED BY <2>1 DEF LinkInv, TypeOK, Instances
<1>2. Building' /\ Committed'
  <2>1. \A v : LiveSoon(v)' <=> LiveSoon(v)
    BY DEF LiveSoon, Live, Instances
  <2>2. /\ Links(job.mod, job.imp)' <=> Links(job.mod, job.imp)
        /\ Linked(job.imp)' <=> Linked(job.imp)
    BY DEF Links, GlobalLinks, Linked, InSpace, Instances, SlotOf
  <2>3. Building'
    BY <2>1, <2>2 DEF LinkInv, Building
  <2>4. Committed'
    BY DEF LinkInv, Committed
  <2> QED BY <2>3, <2>4
<1>3. FramesHaveBodies'
  BY DEF LinkInv, FramesHaveBodies, HasBody
<1>4. ReferencesAreLive'
  <2>1. \A v \in Reachable' : Live(v)
    BY DEF LinkInv, ReferencesAreLive, Reachable
  <2> QED BY <2>1 DEF ReferencesAreLive, Live, Instances
<1> QED BY <1>1, <1>2, <1>3, <1>4 DEF LinkInv

-----------------------------------------------------------------------------
(* What a running guest can rely on.                                       *)

\* While a guest runs no instantiation is under way, except for the one whose
\* start function it is.
LEMMA RunningPhase ==
  ASSUME LinkInv, Running
  PROVE  job.phase \in {"idle", "running"}
<1>1. job \in Job \/ job = Idle
  BY DEF LinkInv, TypeOK
<1> QED BY <1>1 DEF LinkInv, Building, Committed, Running, Job, Phases, Idle

\* The innermost frame is good and runs in an instance of the store.
LEMMA TopFrame ==
  ASSUME LinkInv, Running
  PROVE  /\ Len(stack) \in 1..Len(stack) /\ stack \in Seq(FrameType)
         /\ GoodFrame(Top) /\ Top.val \in Ref
         /\ Top.inst \in Instances /\ Inst \in Instance /\ Inst.mod \in Modules
         /\ MapsAreTotal(Top.inst)
<1>1. stack \in Seq(FrameType) /\ stack # <<>>
  BY DEF LinkInv, TypeOK, Running
<1>2. Len(stack) \in 1..Len(stack) /\ Top \in FrameType
  BY <1>1 DEF Top
<1>3. Live(Top.val) /\ HasBody(<<Top.inst, Top.func>>)
  BY <1>1, <1>2 DEF LinkInv, ReferencesAreLive, Reachable, FramesHaveBodies, Top
<1>4. Top.inst \in Instances
  BY <1>3 DEF HasBody, Instances
<1>5. Inst \in Instance /\ MapsAreTotal(Top.inst)
  BY <1>4 DEF LinkInv, TypeOK, Inst, Instances
<1>6. Inst.mod \in Modules
  BY <1>5 DEF Instance
<1> QED BY <1>1, <1>2, <1>3, <1>4, <1>5, <1>6 DEF GoodFrame, FrameType

\* The instructions a frame executes are those validation accepted.
LEMMA InstructionsAreValid ==
  ASSUME LinkInv, Running, NEW op, NEW ins \in Instructions(op)
  PROVE  ins \in Instr /\ ins.op = op /\ ValidInstr(Inst.mod, ins)
<1> DEFINE m == Inst.mod
           f == Top.func - Len(m.impFuncs)
<1>1. ModuleShape(m) /\ ModuleIndices(m)
  BY TopFrame, ModulesAreValid
<1>2. Top.func \in 1..NumFuncs(m) /\ ~IsImport(m, Top.func)
  BY TopFrame DEF GoodFrame, HasBody, Inst
<1>3. f \in DOMAIN m.funcs
  <2>1. Len(m.impFuncs) \in Nat /\ Len(m.funcs) \in Nat /\ DOMAIN m.funcs = 1..Len(m.funcs)
    <3> HIDE DEF m
    <3>1. m.impFuncs \in Seq(FuncImport) /\ m.funcs \in Seq(FuncBody)
      BY <1>1 DEF ModuleShape
    <3> QED BY <3>1, LenProperties
  <2>2. Top.func \in 1..(Len(m.impFuncs) + Len(m.funcs)) /\ ~(Top.func <= Len(m.impFuncs))
    BY <1>2 DEF NumFuncs, IsImport
  <2>3. \A a, b \in Nat : \A x \in 1..(a + b) : ~(x <= a) => x - a \in 1..b
    OBVIOUS
  <2>4. f \in 1..Len(m.funcs)
    BY <2>1, <2>2, <2>3
  <2> QED BY <2>1, <2>4
<1>4. ins \in m.funcs[f].body /\ ins.op = op
  BY DEF Instructions, Body
<1>5. m.funcs[f].body \in SUBSET Instr
  <2>1. m.funcs[f] \in FuncBody
    BY <1>1, <1>3 DEF ModuleShape
  <2> QED BY <2>1 DEF FuncBody
<1> QED BY <1>1, <1>3, <1>4, <1>5 DEF ModuleIndices

\* An instruction that leaves a live reference on the operand stack.
LEMMA HoldStep ==
  ASSUME LinkInv, Running, NEW v \in Ref, Live(v), Hold(v),
         UNCHANGED <<code, pools, heap, job, issued>>
  PROVE  LinkInv'
<1>1. stack' \in Seq(FrameType) /\ Len(stack') = Len(stack)
  <2>1. [stack[Len(stack)] EXCEPT !.val = v] \in FrameType
    BY TopFrame DEF GoodFrame, Top, FrameType
  <2> QED BY <2>1, TopFrame DEF Hold
<1>2. ASSUME NEW n \in DOMAIN stack' PROVE GoodFrame(stack'[n])
  <2>1. n \in DOMAIN stack /\ GoodFrame(stack[n])
    BY <1>1, TopFrame DEF Hold, LinkInv, FramesHaveBodies, ReferencesAreLive, Reachable, GoodFrame
  <2>2. /\ stack'[n].val = IF n = Len(stack) THEN v ELSE stack[n].val
        /\ stack'[n].inst = stack[n].inst /\ stack'[n].func = stack[n].func
    BY <1>1, <2>1, TopFrame DEF Hold, FrameType
  <2> QED BY <1>1, <2>1, <2>2 DEF GoodFrame
<1> QED BY <1>1, <1>2, RunningPhase, StackStep

-----------------------------------------------------------------------------
(* The instructions that read and write what instances share.              *)

\* What lies in the pools, an operand stack or a segment is a live reference.
LEMMA PooledIsLive ==
  ASSUME LinkInv
  PROVE  /\ \A g \in DOMAIN globals : globals[g] \in Ref /\ Live(globals[g])
         /\ \A t \in DOMAIN tables :
              /\ tables[t] \in Table /\ tables[t].entries \in Seq(Ref)
              /\ \A k \in DOMAIN tables[t].entries : Live(tables[t].entries[k])
         /\ \A s \in DOMAIN elemVals :
              /\ elemVals[s] \in Seq(Ref)
              /\ \A k \in DOMAIN elemVals[s] : Live(elemVals[s][k])
<1>1. PoolShapes /\ \A v \in Pooled : Live(v)
  BY DEF LinkInv, TypeOK, ReferencesAreLive, Reachable
<1>2. ASSUME NEW g \in DOMAIN globals
      PROVE  globals[g] \in Ref /\ Live(globals[g])
  <2>1. globals[g] \in Pooled
    BY DEF Pooled, InTables, InGlobals, InSegments
  <2>2. globals[g] \in Ref
    BY <1>1 DEF PoolShapes
  <2> QED BY <1>1, <2>1, <2>2
<1>3. ASSUME NEW t \in DOMAIN tables
      PROVE  /\ tables[t] \in Table /\ tables[t].entries \in Seq(Ref)
             /\ \A k \in DOMAIN tables[t].entries : Live(tables[t].entries[k])
  <2>1. tables[t] \in Table
    BY <1>1 DEF PoolShapes
  <2>2. \A k \in DOMAIN tables[t].entries : tables[t].entries[k] \in Pooled
    BY DEF Pooled, InTables, InGlobals, InSegments
  <2> QED BY <1>1, <2>1, <2>2 DEF Table
<1>4. ASSUME NEW s \in DOMAIN elemVals
      PROVE  /\ elemVals[s] \in Seq(Ref)
             /\ \A k \in DOMAIN elemVals[s] : Live(elemVals[s][k])
  <2>1. elemVals[s] \in Seq(Ref)
    BY <1>1 DEF PoolShapes
  <2>2. \A k \in DOMAIN elemVals[s] : elemVals[s][k] \in Pooled
    BY DEF Pooled, InTables, InGlobals, InSegments
  <2> QED BY <1>1, <2>1, <2>2
<1> QED BY <1>2, <1>3, <1>4

\* A validated table index leads through the instance's map into the pool
\* (IndexMaps).
LEMMA TableHere ==
  ASSUME LinkInv, Running, NEW t \in 1..NumTables(Inst.mod)
  PROVE  /\ TableSlot(t) \in DOMAIN tables
         /\ Entries(t) \in Seq(Ref)
         /\ \A k \in DOMAIN Entries(t) : Live(Entries(t)[k])
<1>1. Inst.maps.tables \in Seq(Nat \ {0}) /\ MapInto(Inst.maps.tables, NumTables(Inst.mod), tables)
  BY TopFrame DEF Instance, IndexMaps, Slots, MapsAreTotal, Inst
<1>2. tables \in Seq(Table)
  BY DEF LinkInv, TypeOK, PoolShapes
<1>3. TableSlot(t) \in DOMAIN tables
  BY <1>1, <1>2 DEF TableSlot, MapInto
<1> QED BY <1>3, PooledIsLive DEF Entries

\* So does a validated global index.
LEMMA GlobalHere ==
  ASSUME LinkInv, Running, NEW g \in 1..NumGlobals(Inst.mod)
  PROVE  Inst.maps.globals[g] \in DOMAIN globals
<1>1. Inst.maps.globals \in Seq(Nat \ {0}) /\ MapInto(Inst.maps.globals, NumGlobals(Inst.mod), globals)
  BY TopFrame DEF Instance, IndexMaps, Slots, MapsAreTotal, Inst
<1>2. globals \in Seq(Ref)
  BY DEF LinkInv, TypeOK, PoolShapes
<1> QED BY <1>1, <1>2 DEF MapInto

\* So does an element segment index; a dropped segment is empty.
LEMMA SegmentHere ==
  ASSUME LinkInv, Running, NEW e \in DOMAIN Inst.mod.elems
  PROVE  /\ Inst.maps.elems[e] \in DOMAIN elemVals
         /\ Segment(e) \in Seq(Ref)
         /\ \A k \in DOMAIN Segment(e) : Live(Segment(e)[k])
<1>1. Inst.maps.elems \in Seq(Nat \ {0}) /\ MapInto(Inst.maps.elems, Len(Inst.mod.elems), elemVals)
  BY TopFrame DEF Instance, IndexMaps, Slots, MapsAreTotal, Inst
<1>2. elemVals \in Seq(Seq(Ref))
  BY DEF LinkInv, TypeOK, PoolShapes
<1>3. Inst.mod.elems \in Seq(ElemSegment)
  BY TopFrame, ModulesAreValid DEF ModuleShape
<1>4. Inst.maps.elems[e] \in DOMAIN elemVals
  BY <1>1, <1>2, <1>3 DEF MapInto
<1>5. <<>> \in Seq(Ref) /\ DOMAIN <<>> = {}
  OBVIOUS
<1> QED BY <1>4, <1>5, PooledIsLive DEF Segment

\* So does a data segment index.
LEMMA DataHere ==
  ASSUME LinkInv, Running, NEW d \in DOMAIN Inst.mod.data
  PROVE  Inst.maps.data[d] \in DOMAIN dataDropped
<1>1. Inst.maps.data \in Seq(Nat \ {0}) /\ MapInto(Inst.maps.data, Len(Inst.mod.data), dataDropped)
  BY TopFrame DEF Instance, IndexMaps, Slots, MapsAreTotal, Inst
<1>2. dataDropped \in Seq(BOOLEAN)
  BY DEF LinkInv, TypeOK, PoolShapes
<1>3. Inst.mod.data \in Seq(DataSegment)
  BY TopFrame, ModulesAreValid DEF ModuleShape
<1> QED BY <1>1, <1>2, <1>3 DEF MapInto

\* So does a memory index.
LEMMA MemHere ==
  ASSUME LinkInv, Running, NEW k \in 1..NumMems(Inst.mod)
  PROVE  Inst.maps.mems[k] \in DOMAIN mems
<1>1. Inst.maps.mems \in Seq(Nat \ {0}) /\ MapInto(Inst.maps.mems, NumMems(Inst.mod), mems)
  BY TopFrame DEF Instance, IndexMaps, Slots, MapsAreTotal, Inst
<1>2. mems \in Seq(Memory)
  BY DEF LinkInv, TypeOK, PoolShapes
<1> QED BY <1>1, <1>2 DEF MapInto

\* Replacing the entries of one table by live references keeps the invariant.
LEMMA OneTable ==
  ASSUME LinkInv, NEW s \in DOMAIN tables, NEW es \in Seq(Ref),
         \A k \in DOMAIN es : Live(es[k]),
         tables' = [tables EXCEPT ![s].entries = es]
  PROVE  /\ tables' \in Seq(Table) /\ Len(tables') = Len(tables)
         /\ \A t \in DOMAIN tables' : \A k \in DOMAIN tables'[t].entries :
              Live(tables'[t].entries[k])
<1>1. tables \in Seq(Table)
  BY DEF LinkInv, TypeOK, PoolShapes
<1>2. [tables[s] EXCEPT !.entries = es] \in Table
  <2>1. tables[s] \in Table
    BY <1>1
  <2> QED BY <2>1 DEF Table
<1>3. tables' = [tables EXCEPT ![s] = [tables[s] EXCEPT !.entries = es]]
  OBVIOUS
<1>4. tables' \in Seq(Table) /\ Len(tables') = Len(tables)
  BY <1>1, <1>2, <1>3
<1>5. ASSUME NEW t \in DOMAIN tables', NEW k \in DOMAIN tables'[t].entries
      PROVE  Live(tables'[t].entries[k])
  <2>1. t \in DOMAIN tables
    BY <1>3
  <2>2. CASE t = s
    <3>1. tables[s] \in Table /\ tables'[t] = [tables[s] EXCEPT !.entries = es]
      BY <1>1, <1>3, <2>1, <2>2
    <3>2. tables'[t].entries = es
      BY <3>1 DEF Table
    <3> QED BY <3>2
  <2>3. CASE t # s
    BY <2>1, <2>3, PooledIsLive
  <2> QED BY <2>2, <2>3
<1> QED BY <1>4, <1>5

\* table.set, grow, fill, copy and init: whatever the new entries are, they
\* are live references.
LEMMA SetEntriesStep ==
  ASSUME LinkInv, Running, NEW t \in 1..NumTables(Inst.mod), NEW es \in Seq(Ref),
         \A k \in DOMAIN es : Live(es[k]),
         SetEntries(t, es), TableStep
  PROVE  LinkInv'
<1>1. /\ tables' \in Seq(Table) /\ Len(tables') = Len(tables)
      /\ \A s \in DOMAIN tables' : \A k \in DOMAIN tables'[s].entries :
           Live(tables'[s].entries[k])
  BY TableHere, OneTable DEF SetEntries
<1>2. PoolShapes'
  BY <1>1 DEF LinkInv, TypeOK, PoolShapes, TableStep
<1>3. \A v \in Pooled' : Live(v)
  BY <1>1, PooledIsLive DEF Pooled, InTables, InGlobals, InSegments, TableStep
<1> QED BY <1>1, <1>2, <1>3, PoolStep DEF TableStep

\* Writing live references over a part of a table leaves live references, as
\* many as there were.
LEMMA WrittenIsLive ==
  ASSUME NEW es \in Seq(Ref), \A k \in DOMAIN es : Live(es[k]), NEW off \in Nat,
         NEW vals \in Seq(Ref), \A k \in DOMAIN vals : Live(vals[k])
  PROVE  /\ Written(es, off, vals) \in Seq(Ref)
         /\ \A k \in DOMAIN Written(es, off, vals) : Live(Written(es, off, vals)[k])
<1> DEFINE w == [j \in 1..Len(es) |-> IF j - off \in DOMAIN vals THEN vals[j - off] ELSE es[j]]
<1>1. Written(es, off, vals) = w
  BY DEF Written
<1>2. \A j \in 1..Len(es) : w[j] \in Ref /\ Live(w[j])
  OBVIOUS
<1>3. w \in Seq(Ref)
  <2>1. w \in [1..Len(es) -> Ref]
    BY <1>2
  <2>2. Len(es) \in Nat
    OBVIOUS
  <2> QED BY <2>1, <2>2, SeqDef
<1> QED BY <1>1, <1>2, <1>3

\* n copies of a live reference, or n items out of a run of them.
LEMMA RunIsLive ==
  ASSUME NEW n \in Nat, NEW f, \A k \in 1..n : f[k] \in Ref /\ Live(f[k])
  PROVE  /\ [k \in 1..n |-> f[k]] \in Seq(Ref)
         /\ \A i \in DOMAIN [k \in 1..n |-> f[k]] : Live([k \in 1..n |-> f[k]][i])
<1>1. [k \in 1..n |-> f[k]] \in [1..n -> Ref]
  OBVIOUS
<1> QED BY <1>1, SeqDef

\* ref.func leaves a reference to a function of the running instance.
LEMMA RefFuncStep ==
  ASSUME LinkInv, RefFunc
  PROVE  LinkInv'
<1>1. PICK ins \in Instructions("ref.func") : Hold(FuncRef(Top.inst, ins.x))
  BY DEF RefFunc
<1>2. ins.x \in 1..NumFuncs(Inst.mod)
  BY InstructionsAreValid DEF RefFunc, ValidInstr
<1>3. Top.inst \in 1..MaxInstances /\ ins \in Instr /\ ins.x \in Nat
  <2>1. Top.inst \in Instances /\ Len(code) <= MaxInstances /\ Len(code) \in Nat
    BY TopFrame DEF RefFunc, LinkInv, TypeOK
  <2>2. ins \in Instr
    BY InstructionsAreValid DEF RefFunc
  <2> QED BY <2>1, <2>2, LimitsAreNumbers DEF Instances, Instr
<1>4. FuncRef(Top.inst, ins.x) = <<Top.inst, ins.x>> /\ FuncRef(Top.inst, ins.x) \in Ref
  BY <1>3, FuncRefNames
<1>5. Live(FuncRef(Top.inst, ins.x))
  BY <1>2, <1>3, <1>4, TopFrame DEF Live, IsFunc, Inst, RefFunc
<1> QED BY <1>1, <1>4, <1>5, HoldStep DEF RefFunc

\* global.get leaves what a global of the instance holds.
LEMMA GlobalGetStep ==
  ASSUME LinkInv, GlobalGet
  PROVE  LinkInv'
<1>1. PICK ins \in Instructions("global.get") : Hold(globals[Inst.maps.globals[ins.x]])
  BY DEF GlobalGet
<1>2. ins.x \in 1..NumGlobals(Inst.mod)
  BY InstructionsAreValid DEF GlobalGet, ValidInstr
<1>3. Inst.maps.globals[ins.x] \in DOMAIN globals
  BY <1>2, GlobalHere DEF GlobalGet
<1> QED BY <1>1, <1>3, PooledIsLive, HoldStep DEF GlobalGet

\* table.get leaves what a table of the instance holds.
LEMMA TableGetStep ==
  ASSUME LinkInv, TableGet
  PROVE  LinkInv'
<1>1. PICK ins \in Instructions("table.get"), k \in Operands :
        k \in DOMAIN Entries(ins.x) /\ Hold(Entries(ins.x)[k])
  BY DEF TableGet
<1>2. ins.x \in 1..NumTables(Inst.mod)
  BY InstructionsAreValid DEF TableGet, ValidInstr, TableOps
<1>3. Entries(ins.x)[k] \in Ref /\ Live(Entries(ins.x)[k])
  BY <1>1, <1>2, TableHere DEF TableGet
<1> QED BY <1>1, <1>3, HoldStep DEF TableGet

\* global.set stores the top of the operand stack, which is live.
LEMMA GlobalSetStep ==
  ASSUME LinkInv, GlobalSet
  PROVE  LinkInv'
<1>1. PICK ins \in Instructions("global.set") :
        globals' = [globals EXCEPT ![Inst.maps.globals[ins.x]] = Top.val]
  BY DEF GlobalSet
<1>2. ins.x \in 1..NumGlobals(Inst.mod)
  BY InstructionsAreValid DEF GlobalSet, ValidInstr
<1>3. globals' \in Seq(Ref) /\ Len(globals') = Len(globals)
      /\ \A g \in DOMAIN globals' : Live(globals'[g])
  <2>1. globals \in Seq(Ref) /\ Top.val \in Ref /\ Live(Top.val)
    BY TopFrame DEF GlobalSet, LinkInv, TypeOK, PoolShapes, GoodFrame
  <2>2. Inst.maps.globals[ins.x] \in DOMAIN globals
    BY <1>2, GlobalHere DEF GlobalSet
  <2> QED BY <1>1, <2>1, <2>2, PooledIsLive
<1>4. PoolShapes'
  BY <1>3 DEF GlobalSet, LinkInv, TypeOK, PoolShapes
<1>5. \A v \in Pooled' : Live(v)
  BY <1>3, PooledIsLive DEF Pooled, InTables, InGlobals, InSegments, GlobalSet
<1> QED BY <1>3, <1>4, <1>5, PoolStep DEF GlobalSet

\* table.set stores the top of the operand stack.
LEMMA TableSetStep ==
  ASSUME LinkInv, TableSet
  PROVE  LinkInv'
<1>1. PICK ins \in Instructions("table.set"), k \in Operands :
        /\ k \in DOMAIN Entries(ins.x)
        /\ SetEntries(ins.x, [Entries(ins.x) EXCEPT ![k] = Top.val])
  BY DEF TableSet
<1>2. ins.x \in 1..NumTables(Inst.mod)
  BY InstructionsAreValid DEF TableSet, ValidInstr, TableOps
<1> DEFINE es == [Entries(ins.x) EXCEPT ![k] = Top.val]
<1>3. es \in Seq(Ref) /\ \A j \in DOMAIN es : Live(es[j])
  BY <1>1, <1>2, TableHere, TopFrame DEF TableSet, GoodFrame
<1> QED BY <1>1, <1>2, <1>3, SetEntriesStep DEF TableSet

\* table.grow appends copies of the top of the operand stack.
LEMMA TableGrowStep ==
  ASSUME LinkInv, TableGrow
  PROVE  LinkInv'
<1>1. PICK ins \in Instructions("table.grow"), n \in Operands :
        SetEntries(ins.x, Entries(ins.x) \o [k \in 1..n |-> Top.val])
  BY DEF TableGrow
<1>2. ins.x \in 1..NumTables(Inst.mod) /\ n \in Nat
  BY InstructionsAreValid, LimitsAreNumbers DEF TableGrow, ValidInstr, TableOps
<1> DEFINE more == [k \in 1..n |-> Top.val]
           es == Entries(ins.x) \o more
<1>3. more \in Seq(Ref) /\ Len(more) = n /\ \A j \in 1..n : Live(more[j])
  BY <1>2, TopFrame, SeqDef DEF TableGrow, GoodFrame
<1>4. es \in Seq(Ref) /\ \A j \in DOMAIN es : Live(es[j])
  <2> HIDE DEF more
  <2>1. Entries(ins.x) \in Seq(Ref) /\ \A j \in DOMAIN Entries(ins.x) : Live(Entries(ins.x)[j])
    BY <1>2, TableHere DEF TableGrow
  <2>2. es \in Seq(Ref) /\ DOMAIN es = 1..(Len(Entries(ins.x)) + n)
    BY <1>2, <1>3, <2>1
  <2>3. ASSUME NEW j \in DOMAIN es PROVE Live(es[j])
    <3>1. CASE j <= Len(Entries(ins.x))
      BY <1>2, <1>3, <2>1, <2>2, <3>1
    <3>2. CASE ~(j <= Len(Entries(ins.x)))
      <4>1. es[j] = more[j - Len(Entries(ins.x))] /\ j - Len(Entries(ins.x)) \in 1..n
        BY <1>2, <1>3, <2>1, <2>2, <3>2
      <4> QED BY <1>3, <4>1
    <3> QED BY <3>1, <3>2
  <2> QED BY <2>2, <2>3
<1> QED BY <1>1, <1>2, <1>4, SetEntriesStep DEF TableGrow

\* table.fill writes copies of the top of the operand stack.
LEMMA TableFillStep ==
  ASSUME LinkInv, TableFill
  PROVE  LinkInv'
<1>1. PICK ins \in Instructions("table.fill"), dst \in Operands, n \in Operands :
        SetEntries(ins.x, Written(Entries(ins.x), dst, [k \in 1..n |-> Top.val]))
  BY DEF TableFill
<1>2. ins.x \in 1..NumTables(Inst.mod) /\ n \in Nat /\ dst \in Nat
  BY InstructionsAreValid, LimitsAreNumbers DEF TableFill, ValidInstr, TableOps
<1> DEFINE vals == [k \in 1..n |-> Top.val]
           es == Written(Entries(ins.x), dst, vals)
<1>3. vals \in Seq(Ref) /\ \A j \in DOMAIN vals : Live(vals[j])
  BY <1>2, TopFrame, SeqDef DEF TableFill, GoodFrame
<1>4. es \in Seq(Ref) /\ \A j \in DOMAIN es : Live(es[j])
  <2> HIDE DEF vals
  <2> QED BY <1>2, <1>3, TableHere, WrittenIsLive DEF TableFill
<1> QED BY <1>1, <1>2, <1>4, SetEntriesStep DEF TableFill

\* A run of n items read from position src on of a sequence that has them.
LEMMA SliceIsLive ==
  ASSUME NEW es \in Seq(Ref), \A k \in DOMAIN es : Live(es[k]),
         NEW src \in Nat, NEW n \in Nat, src + n <= Len(es)
  PROVE  /\ [k \in 1..n |-> es[src + k]] \in Seq(Ref)
         /\ \A k \in DOMAIN [k \in 1..n |-> es[src + k]] : Live(es[src + k])
<1>1. \A k \in 1..n : src + k \in 1..Len(es)
  OBVIOUS
<1>2. [k \in 1..n |-> es[src + k]] \in [1..n -> Ref]
  BY <1>1
<1> QED BY <1>1, <1>2, SeqDef

\* table.copy writes what another table, or another part of it, holds.
LEMMA TableCopyStep ==
  ASSUME LinkInv, TableCopy
  PROVE  LinkInv'
<1>1. PICK ins \in Instructions("table.copy"),
           dst \in Operands, src \in Operands, n \in Operands :
        /\ src + n <= Len(Entries(ins.y))
        /\ SetEntries(ins.x, Written(Entries(ins.x), dst, [k \in 1..n |-> Entries(ins.y)[src + k]]))
  BY DEF TableCopy
<1>2. /\ ins.x \in 1..NumTables(Inst.mod) /\ ins.y \in 1..NumTables(Inst.mod)
      /\ n \in Nat /\ dst \in Nat /\ src \in Nat
  BY InstructionsAreValid, LimitsAreNumbers DEF TableCopy, ValidInstr, TableOps
<1> DEFINE vals == [k \in 1..n |-> Entries(ins.y)[src + k]]
           es == Written(Entries(ins.x), dst, vals)
<1>3. vals \in Seq(Ref) /\ \A j \in DOMAIN vals : Live(vals[j])
  BY <1>1, <1>2, TableHere, SliceIsLive DEF TableCopy
<1>4. es \in Seq(Ref) /\ \A j \in DOMAIN es : Live(es[j])
  <2> HIDE DEF vals
  <2> QED BY <1>2, <1>3, TableHere, WrittenIsLive DEF TableCopy
<1> QED BY <1>1, <1>2, <1>4, SetEntriesStep DEF TableCopy

\* table.init writes what an element segment holds, or nothing once it is
\* dropped.
LEMMA TableInitStep ==
  ASSUME LinkInv, TableInit
  PROVE  LinkInv'
<1>1. PICK ins \in Instructions("table.init"),
           dst \in Operands, src \in Operands, n \in Operands :
        /\ src + n <= Len(Segment(ins.y))
        /\ SetEntries(ins.x, Written(Entries(ins.x), dst, [k \in 1..n |-> Segment(ins.y)[src + k]]))
  BY DEF TableInit
<1>2. /\ ins.x \in 1..NumTables(Inst.mod) /\ ins.y \in DOMAIN Inst.mod.elems
      /\ n \in Nat /\ dst \in Nat /\ src \in Nat
  BY InstructionsAreValid, LimitsAreNumbers DEF TableInit, ValidInstr, TableOps
<1>3. Segment(ins.y) \in Seq(Ref) /\ \A k \in DOMAIN Segment(ins.y) : Live(Segment(ins.y)[k])
  BY <1>2, SegmentHere DEF TableInit
<1> DEFINE vals == [k \in 1..n |-> Segment(ins.y)[src + k]]
           es == Written(Entries(ins.x), dst, vals)
<1>4. vals \in Seq(Ref) /\ \A j \in DOMAIN vals : Live(vals[j])
  BY <1>1, <1>2, <1>3, SliceIsLive
<1>5. es \in Seq(Ref) /\ \A j \in DOMAIN es : Live(es[j])
  <2> HIDE DEF vals
  <2> QED BY <1>2, <1>4, TableHere, WrittenIsLive DEF TableInit
<1> QED BY <1>1, <1>2, <1>5, SetEntriesStep DEF TableInit

\* elem.drop and data.drop empty a segment and move nothing.
LEMMA ElemDropStep ==
  ASSUME LinkInv, ElemDrop
  PROVE  LinkInv'
<1>1. PICK ins \in Instructions("elem.drop") :
        elemDropped' = [elemDropped EXCEPT ![Inst.maps.elems[ins.x]] = TRUE]
  BY DEF ElemDrop
<1>2. PoolShapes'
  <2>1. elemDropped \in Seq(BOOLEAN) /\ Len(elemDropped) = Len(elemVals) /\ Len(elemVals) \in Nat
    BY DEF LinkInv, TypeOK, PoolShapes
  <2>2. ins.x \in DOMAIN Inst.mod.elems
    BY InstructionsAreValid DEF ElemDrop, ValidInstr
  <2>3. Inst.maps.elems[ins.x] \in 1..Len(elemDropped)
    BY <2>1, <2>2, SegmentHere DEF ElemDrop
  <2>4. TRUE \in BOOLEAN
    OBVIOUS
  <2>5. elemDropped' \in Seq(BOOLEAN) /\ Len(elemDropped') = Len(elemDropped)
    BY <1>1, <2>1, <2>3, <2>4, ExceptSeq
  <2> QED BY <2>5 DEF ElemDrop, LinkInv, TypeOK, PoolShapes
<1>3. \A v \in Pooled' : Live(v)
  BY DEF LinkInv, ReferencesAreLive, Reachable, Pooled, InTables, InGlobals, InSegments, ElemDrop
<1> QED BY <1>2, <1>3, PoolStep DEF ElemDrop

\* data.drop likewise.
LEMMA DataDropStep ==
  ASSUME LinkInv, DataDrop
  PROVE  LinkInv'
<1>1. PICK ins \in Instructions("data.drop") :
        dataDropped' = [dataDropped EXCEPT ![Inst.maps.data[ins.x]] = TRUE]
  BY DEF DataDrop
<1>2. PoolShapes' /\ Len(dataDropped') = Len(dataDropped)
  <2>1. dataDropped \in Seq(BOOLEAN)
    BY DEF LinkInv, TypeOK, PoolShapes
  <2>2. ins.x \in DOMAIN Inst.mod.data
    BY InstructionsAreValid DEF DataDrop, ValidInstr
  <2>3. Inst.maps.data[ins.x] \in 1..Len(dataDropped)
    BY <2>1, <2>2, DataHere DEF DataDrop
  <2>4. TRUE \in BOOLEAN
    OBVIOUS
  <2>5. dataDropped' \in Seq(BOOLEAN) /\ Len(dataDropped') = Len(dataDropped)
    BY <1>1, <2>1, <2>3, <2>4, ExceptSeq
  <2> QED BY <2>5 DEF DataDrop, LinkInv, TypeOK, PoolShapes
<1>3. \A v \in Pooled' : Live(v)
  BY DEF LinkInv, ReferencesAreLive, Reachable, Pooled, InTables, InGlobals, InSegments, DataDrop
<1> QED BY <1>2, <1>3, PoolStep DEF DataDrop

\* memory.grow adds pages to one memory.
LEMMA MemoryGrowStep ==
  ASSUME LinkInv, MemoryGrow
  PROVE  LinkInv'
<1>1. PICK ins \in Instructions("memory.grow"), n \in Operands :
        mems' = [mems EXCEPT ![Inst.maps.mems[ins.x]].pages = @ + n]
  BY DEF MemoryGrow
<1>2. ins.x \in 1..NumMems(Inst.mod) /\ n \in Nat
  BY InstructionsAreValid, LimitsAreNumbers DEF MemoryGrow, ValidInstr
<1>k. PICK k : k = Inst.maps.mems[ins.x]
  OBVIOUS
<1>3. k \in DOMAIN mems /\ mems \in Seq(Memory) /\ mems[k] \in Memory
  <2>1. k \in DOMAIN mems
    BY <1>2, <1>k, MemHere DEF MemoryGrow
  <2>2. mems \in Seq(Memory)
    BY DEF LinkInv, TypeOK, PoolShapes
  <2> QED BY <2>1, <2>2
<1>4. [mems[k] EXCEPT !.pages = @ + n] \in Memory
  BY <1>2, <1>3 DEF Memory
<1>5. mems' = [mems EXCEPT ![k] = [mems[k] EXCEPT !.pages = @ + n]]
  BY <1>1, <1>k
<1>6. mems' \in Seq(Memory) /\ Len(mems') = Len(mems)
  BY <1>3, <1>4, <1>5
<1>7. PoolShapes'
  BY <1>6 DEF MemoryGrow, LinkInv, TypeOK, PoolShapes
<1>8. \A v \in Pooled' : Live(v)
  BY DEF LinkInv, ReferencesAreLive, Reachable, Pooled, InTables, InGlobals, InSegments, MemoryGrow
<1> QED BY <1>6, <1>7, <1>8, PoolStep DEF MemoryGrow

-----------------------------------------------------------------------------
(* Steps that add to the store.                                            *)

\* Objects and instances join the store under running frames and under the
\* references the pools hold: all of them stay good.
LEMMA Extends ==
  ASSUME LinkInv, StoreExtends, Len(code') \in Nat, Len(heap') \in Nat
  PROVE  /\ \A v \in Ref : Live(v) => Live(v)'
         /\ \A fr \in FrameType : GoodFrame(fr) => GoodFrame(fr)'
<1>1. code \in Seq(Instance) /\ Len(heap) \in Nat
  BY DEF LinkInv, TypeOK
<1>2. \A v \in Ref : Live(v) => Live(v)'
  BY <1>1, LiveStays
<1>3. ASSUME NEW fr \in FrameType, GoodFrame(fr)
      PROVE  GoodFrame(fr)'
  <2>1. fr.val \in Ref /\ Live(fr.val)
    BY <1>3 DEF GoodFrame, FrameType
  <2>2. Live(fr.val)'
    BY <1>2, <2>1
  <2>3. HasBody(<<fr.inst, fr.func>>)
    BY <1>3 DEF GoodFrame
  <2>4. HasBody(<<fr.inst, fr.func>>)'
    BY <1>1, <2>3, BodyStays
  <2> QED BY <2>2, <2>4 DEF GoodFrame
<1> QED BY <1>2, <1>3

\* While a guest runs, its frames are good.
LEMMA FramesAreGood ==
  ASSUME LinkInv
  PROVE  stack \in Seq(FrameType) /\ GoodFrames
<1>1. stack \in Seq(FrameType)
  BY DEF LinkInv, TypeOK
<1>2. ASSUME NEW n \in DOMAIN stack PROVE GoodFrame(stack[n])
  <2>1. stack[n] \in FrameType
    BY <1>1
  <2>2. Live(stack[n].val)
    BY DEF LinkInv, ReferencesAreLive, Reachable
  <2> QED BY <2>1, <2>2 DEF LinkInv, FramesHaveBodies, GoodFrame
<1> QED BY <1>1, <1>2 DEF GoodFrames

\* What the pools hold is live once the store has grown.
LEMMA PooledStays ==
  ASSUME LinkInv, StoreExtends, Len(code') \in Nat, Len(heap') \in Nat
  PROVE  \A v \in Pooled : v \in Ref /\ Live(v)'
<1>1. \A v \in Pooled : v \in Ref /\ Live(v)
  BY PooledIsLive DEF Pooled, InTables, InGlobals, InSegments
<1> QED BY <1>1, Extends

\* Nothing else than the pools and the operand stacks holds a reference.
LEMMA ReachableIsLive ==
  ASSUME GoodFrames', NEW S, Pooled' = S, \A w \in S : Live(w)'
  PROVE  ReferencesAreLive'
<1>1. ASSUME NEW w \in Reachable' PROVE Live(w)'
  <2>1. CASE w \in S
    BY <2>1
  <2>2. CASE w \notin S
    <3>1. PICK n \in DOMAIN stack' : w = stack'[n].val
      BY <2>2 DEF Reachable
    <3> QED BY <3>1 DEF GoodFrames, GoodFrame, Live
  <2> QED BY <2>1, <2>2
<1> QED BY <1>1 DEF ReferencesAreLive

\* A good frame is replaced by itself holding another live reference.
LEMMA HoldIsGood ==
  ASSUME LinkInv, Running, StoreExtends, Len(code') \in Nat, Len(heap') \in Nat,
         NEW v \in Ref, Live(v)', Hold(v)
  PROVE  stack' \in Seq(FrameType) /\ GoodFrames'
<1>1. PICK top : top = Top
  OBVIOUS
<1>2. PICK fr : fr = [top EXCEPT !.val = v]
  OBVIOUS
<1>3. Len(stack) \in 1..Len(stack) /\ stack \in Seq(FrameType) /\ GoodFrames /\ GoodFrame(top)
      /\ top \in FrameType
  BY <1>1, TopFrame, FramesAreGood DEF GoodFrame
<1>4. fr \in FrameType /\ fr.val = v /\ fr.inst = top.inst /\ fr.func = top.func
  BY <1>2, <1>3 DEF FrameType
<1>5. stack' = [stack EXCEPT ![Len(stack)] = fr]
  BY <1>1, <1>2 DEF Hold, Top
<1>6. stack' \in Seq(FrameType) /\ DOMAIN stack' = DOMAIN stack
  BY <1>3, <1>4, <1>5
<1>7. GoodFrame(top)'
  BY <1>3, Extends
<1>8. GoodFrame(fr)'
  BY <1>4, <1>7 DEF GoodFrame
<1>9. ASSUME NEW n \in DOMAIN stack', NEW w, w = stack'[n] PROVE GoodFrame(w)'
  <2>1. CASE n = Len(stack)
    BY <1>3, <1>5, <1>8, <1>9, <2>1
  <2>2. CASE n # Len(stack)
    <3>1. w = stack[n] /\ w \in FrameType /\ GoodFrame(w)
      BY <1>3, <1>5, <1>6, <1>9, <2>2 DEF GoodFrames
    <3> QED BY <3>1, Extends
  <2> QED BY <2>1, <2>2
<1>10. GoodFrames'
  BY <1>9 DEF GoodFrames
<1> QED BY <1>6, <1>10

\* struct.new: the new object is the last of the heap (alloc_object).
LEMMA StructNewStep ==
  ASSUME LinkInv, StructNew
  PROVE  LinkInv'
<1>1. PICK v : v = ObjRef(Len(heap) + 1)
  OBVIOUS
<1>2. PICK o : o = [owner |-> Top.inst, mod |-> Inst.mod]
  OBVIOUS
<1>3. /\ Running /\ heap' = Append(heap, o) /\ Hold(v)
      /\ UNCHANGED <<code, pools, job, issued>>
  BY <1>1, <1>2 DEF StructNew, Allocate
<1>4. heap \in Seq(HeapObject) /\ code \in Seq(Instance) /\ Len(code) \in Nat
  BY DEF LinkInv, TypeOK
<1>5. o \in HeapObject
  <2>1. Top.inst \in Nat /\ Inst.mod \in Modules
    BY <1>3, <1>4, TopFrame DEF Instances
  <2> QED BY <1>2, <2>1 DEF HeapObject
<1>6. heap' \in Seq(HeapObject) /\ Len(heap') = Len(heap) + 1 /\ Len(heap) \in Nat
  BY <1>3, <1>4, <1>5
<1>7. StoreExtends /\ Len(code') \in Nat
  BY <1>3, <1>4, <1>6 DEF StoreExtends
<1>8. v \in Ref /\ Live(v)'
  BY <1>1, <1>6 DEF ObjRef, Ref, Live, IsObj
<1>9. stack' \in Seq(FrameType) /\ GoodFrames'
  BY <1>3, <1>6, <1>7, <1>8, HoldIsGood
<1>10. TypeOK'
  <2>1. \A i \in Instances' : MapsAreTotal(i)'
    BY <1>3 DEF LinkInv, TypeOK, Instances, MapsAreTotal, MapInto, pools
  <2> QED BY <1>3, <1>6, <1>9, <2>1 DEF LinkInv, TypeOK, PoolShapes, pools, Instances
<1>11. Building' /\ Committed' /\ FramesHaveBodies'
  <2>1. job.phase \in {"idle", "running"}
    BY <1>3, RunningPhase
  <2>2. Building'
    BY <1>3, <2>1 DEF Building
  <2>3. Committed'
    BY <1>3, <2>1 DEF Committed, LinkInv
  <2> QED BY <1>9, <2>2, <2>3 DEF GoodFrames, GoodFrame, FramesHaveBodies
<1>12. ReferencesAreLive'
  <2>1. Pooled' = Pooled
    BY <1>3 DEF Pooled, InTables, InGlobals, InSegments, pools
  <2>2. \A w \in Pooled : Live(w)'
    BY <1>6, <1>7, PooledStays
  <2> QED BY <1>9, <2>1, <2>2, ReachableIsLive
<1> QED BY <1>10, <1>11, <1>12 DEF LinkInv

-----------------------------------------------------------------------------
(* Calls and returns.                                                      *)

\* A function of a valid module has a type.
LEMMA FuncTypes ==
  ASSUME NEW m \in Modules, NEW f \in 1..NumFuncs(m)
  PROVE  FuncType(m, f) \in Types
<1>1. m.impFuncs \in Seq(FuncImport) /\ m.funcs \in Seq(FuncBody)
  BY ModulesAreValid DEF ModuleShape
<1>2. CASE IsImport(m, f)
  <2>1. m.impFuncs[f] \in FuncImport
    BY <1>1, <1>2 DEF NumFuncs, IsImport
  <2> QED BY <1>2, <2>1 DEF FuncType, FuncImport
<1>3. CASE ~IsImport(m, f)
  <2>1. f - Len(m.impFuncs) \in 1..Len(m.funcs)
    <3>1. Len(m.impFuncs) \in Nat /\ Len(m.funcs) \in Nat
      BY <1>1
    <3>2. \A a, b \in Nat : \A x \in 1..(a + b) : ~(x <= a) => x - a \in 1..b
      OBVIOUS
    <3> QED BY <1>3, <3>1, <3>2 DEF NumFuncs, IsImport
  <2>2. m.funcs[f - Len(m.impFuncs)] \in FuncBody
    BY <1>1, <2>1
  <2> QED BY <1>3, <2>2 DEF FuncType, FuncBody
<1> QED BY <1>2, <1>3

\* The import hops a call recurses through are finitely many.
LEMMA HopsAreNumbers ==
  ASSUME LinkInv, NEW i, NEW f
  PROVE  Hops(i, f) \in Nat
<1> DEFINE c == Chase(i, f)
           hops == {n \in 1..Len(code) : c[n] # c[n - 1] /\ c[n][1] # Host}
<1>1. 1 \in Int /\ Len(code) \in Int
  BY DEF LinkInv, TypeOK
<1>2. IsFiniteSet(1..Len(code)) /\ hops \in SUBSET (1..Len(code))
  BY <1>1, FS_Interval
<1>3. IsFiniteSet(hops)
  BY <1>2, FS_Subset
<1>4. Cardinality(hops) \in Nat
  BY <1>3, FS_CardinalityType
<1> QED BY <1>4 DEF Hops

\* The frame a call pushes runs a function that has a body, with a live
\* argument (call_function).
LEMMA EnteredIsGood ==
  ASSUME LinkInv, NEW i, NEW f, NEW want \in Types, NEW val \in Ref, Live(val),
         NEW depth \in Nat, CanEnter(i, f, depth), DefiningFunc(i, f)[1] # Host
  PROVE  GoodFrame(Entered(i, f, want, val, depth))
<1> DEFINE p == DefiningFunc(i, f)
           v == Passed(want, val, Null)
<1>1. HasBody(p)
  BY DEF CanEnter
<1>2. code \in Seq(Instance)
  BY DEF LinkInv, TypeOK
<1>3. p[1] \in Nat /\ p[2] \in Nat
  <2>1. p[1] \in 1..Len(code) /\ p[2] \in 1..NumFuncs(code[p[1]].mod)
    BY <1>1 DEF HasBody
  <2> QED BY <2>1
<1>4. v \in Ref /\ Live(v)
  BY DEF Passed, Null, Ref, Live
<1>5. depth + Hops(i, f) \in Nat
  BY HopsAreNumbers
<1> HIDE DEF p, v
<1>6. Entered(i, f, want, val, depth) =
        [inst |-> p[1], func |-> p[2], want |-> want, val |-> v, depth |-> depth + Hops(i, f)]
  BY DEF Entered, Frame, p, v
<1>7. Entered(i, f, want, val, depth) \in FrameType
  BY <1>3, <1>4, <1>5, <1>6 DEF FrameType
<1>8. HasBody(<<p[1], p[2]>>)
  BY <1>1 DEF HasBody
<1> QED BY <1>4, <1>6, <1>7, <1>8 DEF GoodFrame

\* A call keeps the invariant, whether a host function answers it on the spot
\* or a frame is pushed.
LEMMA CallToStep ==
  ASSUME LinkInv, Running, NEW i, NEW f, NEW want \in Types, CallTo(i, f, want)
  PROVE  LinkInv'
<1>1. /\ Top \in FrameType /\ Top.val \in Ref /\ Live(Top.val)
      /\ stack \in Seq(FrameType) /\ GoodFrames
  BY TopFrame, FramesAreGood DEF GoodFrame
<1>2. CASE DefiningFunc(i, f)[1] = Host
  <2> DEFINE v == Passed(want, Null, Top.val)
  <2>1. v \in Ref /\ Live(v)
    BY <1>1 DEF Passed, Null, Ref, Live
  <2> QED BY <1>2, <2>1, HoldStep DEF CallTo
<1>3. CASE DefiningFunc(i, f)[1] # Host
  <2> DEFINE fr == Entered(i, f, want, Top.val, Top.depth + 1)
  <2>1. Top.depth + 1 \in Nat
    BY <1>1 DEF FrameType
  <2>2. GoodFrame(fr)
    BY <1>1, <1>3, <2>1, EnteredIsGood DEF CallTo
  <2>3. stack' = Append(stack, fr) /\ UNCHANGED <<code, pools, heap, job, issued>>
    BY <1>3 DEF CallTo
  <2> HIDE DEF fr
  <2>4. fr \in FrameType
    BY <2>2 DEF GoodFrame
  <2>5. /\ stack' \in Seq(FrameType)
        /\ \A n \in DOMAIN stack' : (n \in DOMAIN stack /\ stack'[n] = stack[n]) \/ stack'[n] = fr
    BY <1>1, <2>3, <2>4
  <2>6. \A n \in DOMAIN stack' : GoodFrame(stack'[n])
    BY <1>1, <2>2, <2>5 DEF GoodFrames
  <2> QED BY <2>3, <2>5, <2>6, RunningPhase, StackStep
<1> QED BY <1>2, <1>3

\* call names a function of the instance; its type is the one declared there.
LEMMA CallStep ==
  ASSUME LinkInv, Call
  PROVE  LinkInv'
<1>1. PICK ins \in Instructions("call") : CallTo(Top.inst, ins.x, FuncType(Inst.mod, ins.x))
  BY DEF Call
<1>2. ins.x \in 1..NumFuncs(Inst.mod)
  BY InstructionsAreValid DEF Call, ValidInstr
<1>3. FuncType(Inst.mod, ins.x) \in Types
  BY <1>2, TopFrame, FuncTypes DEF Call
<1> QED BY <1>1, <1>3, CallToStep DEF Call

\* call_indirect runs in the instance the funcref names.
LEMMA CallIndirectStep ==
  ASSUME LinkInv, CallIndirect
  PROVE  LinkInv'
<1>1. PICK ins \in Instructions("call_indirect"), k \in Operands :
        CallTo(Entries(ins.x)[k][1], Entries(ins.x)[k][2], ins.y)
  BY DEF CallIndirect
<1>2. ins.y \in Types
  BY InstructionsAreValid DEF CallIndirect, ValidInstr
<1> QED BY <1>1, <1>2, CallToStep DEF CallIndirect

\* Whatever ends an instantiation or an invocation leaves the pools and the
\* heap as they are, with no frame and no job.
LEMMA JobEnds ==
  ASSUME LinkInv, UNCHANGED <<code, pools, heap>>, job' = Idle, stack' = <<>>,
         issued' \subseteq Instances
  PROVE  LinkInv'
<1>1. TypeOK'
  <2>1. \A i \in Instances' : MapsAreTotal(i)'
    BY DEF LinkInv, TypeOK, Instances, MapsAreTotal, MapInto, pools
  <2> QED BY <2>1 DEF LinkInv, TypeOK, PoolShapes, pools, Instances
<1>2. Building' /\ Committed' /\ FramesHaveBodies'
  BY DEF Building, Committed, FramesHaveBodies, Idle
<1>3. ReferencesAreLive'
  <2>1. GoodFrames'
    BY DEF GoodFrames
  <2>2. Pooled' = Pooled
    BY DEF Pooled, InTables, InGlobals, InSegments, pools
  <2>3. StoreExtends /\ Len(code') \in Nat /\ Len(heap') \in Nat
    BY DEF StoreExtends, LinkInv, TypeOK
  <2> QED BY <2>1, <2>2, <2>3, PooledStays, ReachableIsLive
<1> QED BY <1>1, <1>2, <1>3 DEF LinkInv

\* The instance an instantiation made is issued to the host when it is done.
LEMMA FinishStep ==
  ASSUME LinkInv, UNCHANGED <<code, pools, heap>>, FinishStart, stack' = <<>>,
         job.phase \in {"idle", "start", "running"}
  PROVE  LinkInv'
<1>1. issued' \subseteq Instances
  <2>1. issued \subseteq Instances /\ code \in Seq(Instance) /\ job \in Job \cup {Idle}
    BY DEF LinkInv, TypeOK
  <2>2. CASE job = Idle
    BY <2>1, <2>2 DEF FinishStart
  <2>3. CASE job # Idle
    <3>1. job.phase \in Phases
      BY <2>1, <2>3 DEF Job
    <3>2. Len(code) >= 1
      BY <3>1 DEF LinkInv, Committed, Phases
    <3>3. Len(code) \in Instances
      BY <2>1, <3>2 DEF Instances
    <3> QED BY <2>1, <2>3, <3>3 DEF FinishStart
  <2> QED BY <2>2, <2>3
<1> QED BY <1>1, JobEnds DEF FinishStart

\* A return hands one reference to the frame below, or ends the invocation.
LEMMA ReturnStep ==
  ASSUME LinkInv, Return
  PROVE  LinkInv'
<1>1. PICK v : v = Passed(OwnType, Top.val, stack[Len(stack) - 1].val)
  OBVIOUS
<1>2. /\ Running /\ stack \in Seq(FrameType) /\ GoodFrames /\ Len(stack) \in 1..Len(stack)
      /\ GoodFrame(Top)
  BY TopFrame, FramesAreGood DEF Return
<1>3. CASE Len(stack) = 1
  BY <1>2, <1>3, RunningPhase, FinishStep DEF Return
<1>4. CASE Len(stack) # 1
  <2> DEFINE n == Len(stack) - 1
  <2>1. PICK fr : fr = [stack[n] EXCEPT !.val = v]
    OBVIOUS
  <2>2. n \in DOMAIN stack /\ GoodFrame(stack[n])
    BY <1>2, <1>4 DEF GoodFrames
  <2>3. v \in Ref /\ Live(v)
    BY <1>1, <1>2, <2>2 DEF Passed, GoodFrame, FrameType
  <2>4. GoodFrame(fr)
    BY <2>1, <2>2, <2>3 DEF GoodFrame, FrameType
  <2>5. CallerFrames \in Seq(FrameType) /\ Len(CallerFrames) = n
        /\ \A k \in 1..n : CallerFrames[k] = stack[k]
    <3>1. 1 \in Int /\ n \in Int /\ 1 <= n /\ \A k \in 1..n : stack[k] \in FrameType
      <4>1. Len(stack) \in Nat /\ Len(stack) >= 1
        BY <1>2
      <4> \A x \in Nat : x >= 1 /\ x # 1 => x - 1 \in Int /\ 1 <= x - 1
        OBVIOUS
      <4>2. n \in Int /\ 1 <= n
        BY <1>4, <4>1
      <4>3. \A k \in 1..n : k \in 1..Len(stack)
        BY <4>1, <4>2
      <4> QED BY <1>2, <4>2, <4>3, ElementOfSeq
    <3>2. /\ SubSeq(stack, 1, n) \in Seq(FrameType)
          /\ Len(SubSeq(stack, 1, n)) = n - 1 + 1
          /\ \A k \in 1..(n - 1 + 1) : SubSeq(stack, 1, n)[k] = stack[1 + k - 1]
      BY <3>1, SubSeqProperties
    <3>3. n - 1 + 1 = n /\ \A k \in 1..n : 1 + k - 1 = k
      BY <3>1
    <3> QED BY <3>2, <3>3 DEF CallerFrames
  <2>6. stack' = [CallerFrames EXCEPT ![n] = fr] /\ UNCHANGED <<code, pools, heap, job, issued>>
    BY <1>1, <1>2, <1>4, <2>1, <2>2, <2>5 DEF Return
  <2>7. fr \in FrameType /\ n \in 1..Len(CallerFrames) /\ n \in Nat
    BY <1>2, <1>4, <2>4, <2>5 DEF GoodFrame
  <2>8. stack' \in Seq(FrameType) /\ Len(stack') = n
        /\ \A k \in 1..n : stack'[k] = IF k = n THEN fr ELSE stack[k]
    <3> HIDE DEF n
    <3> QED BY <2>5, <2>6, <2>7, ExceptSeq
  <2>9. \A k \in DOMAIN stack' : GoodFrame(stack'[k])
    BY <1>2, <2>4, <2>8 DEF GoodFrames
  <2> QED BY <1>2, <2>6, <2>8, <2>9, RunningPhase, StackStep
<1> QED BY <1>3, <1>4

\* A trap ends the invocation.
LEMMA TrapOutStep ==
  ASSUME LinkInv, TrapOut
  PROVE  LinkInv'
<1>1. issued' \subseteq Instances
  BY DEF TrapOut, LinkInv, TypeOK
<1> QED BY <1>1, JobEnds DEF TrapOut

\* The host invokes a function of an instance it was given.
LEMMA InvokeStep ==
  ASSUME LinkInv, Invoke
  PROVE  LinkInv'
<1>1. PICK i \in issued : \E f \in 1..NumFuncs(code[i].mod) :
        /\ CanEnter(i, f, 1) /\ DefiningFunc(i, f)[1] # Host
        /\ stack' = <<Entered(i, f, FuncType(code[i].mod, f), Null, 1)>>
  BY DEF Invoke
<1>2. PICK f \in 1..NumFuncs(code[i].mod) :
        /\ CanEnter(i, f, 1) /\ DefiningFunc(i, f)[1] # Host
        /\ stack' = <<Entered(i, f, FuncType(code[i].mod, f), Null, 1)>>
  BY <1>1
<1>3. FuncType(code[i].mod, f) \in Types
  <2>1. code[i] \in Instance
    BY DEF LinkInv, TypeOK, Instances
  <2> QED BY <1>2, <2>1, FuncTypes DEF Instance
<1> DEFINE fr == Entered(i, f, FuncType(code[i].mod, f), Null, 1)
<1>4. Null \in Ref /\ Live(Null) /\ 1 \in Nat
  BY DEF Null, Ref, Live
<1>5. GoodFrame(fr)
  BY <1>2, <1>3, <1>4, EnteredIsGood
<1> HIDE DEF fr
<1>6. stack' = <<fr>>
  BY <1>2 DEF fr
<1>7. stack' \in Seq(FrameType) /\ \A n \in DOMAIN stack' : GoodFrame(stack'[n])
  BY <1>5, <1>6 DEF GoodFrame
<1>8. job.phase \in {"idle", "running"} /\ UNCHANGED <<code, pools, heap, job, issued>>
  BY DEF Invoke, Idle
<1> QED BY <1>7, <1>8, StackStep

-----------------------------------------------------------------------------
(* Instantiation.                                                          *)

\* While an instantiation is under way nothing runs before its start function.
LEMMA JobShape ==
  ASSUME LinkInv, job.phase \in Phases
  PROVE  /\ job \in Job /\ job.mod \in Modules /\ job.imp \in Imports
         /\ job.gvals \in Seq(Ref) /\ job.newTables \in Seq(Table)
         /\ ModuleShape(job.mod) /\ ModuleIndices(job.mod)
         /\ job.phase # "running" => stack = <<>>
<1>1. job \in Job
  BY DEF LinkInv, TypeOK, Idle, Phases
<1>2. job.mod \in Modules /\ job.imp \in Imports /\ job.gvals \in Seq(Ref)
      /\ job.newTables \in Seq(Table)
  BY <1>1 DEF Job
<1>3. job.phase # "running" => stack = <<>>
  BY DEF LinkInv, Building, Committed, Phases
<1> QED BY <1>1, <1>2, <1>3, ModulesAreValid

\* A step of an instantiation that only moves the job on, or writes entries
\* of the pools, keeps the invariant if the job it leaves is in order.
LEMMA StoreStep ==
  ASSUME LinkInv, UNCHANGED <<code, stack, issued>>, StoreExtends,
         heap' \in Seq(HeapObject), job' \in Job \cup {Idle}, Building', Committed',
         PoolShapes',
         Len(globals') = Len(globals), Len(mems') = Len(mems), Len(tables') = Len(tables),
         Len(tags') = Len(tags), Len(elemVals') = Len(elemVals),
         Len(dataDropped') = Len(dataDropped),
         NEW S, Pooled' = S, \A v \in S : Live(v)'
  PROVE  LinkInv'
<1>1. code \in Seq(Instance) /\ Len(code) \in Nat /\ Len(heap') \in Nat
  BY DEF LinkInv, TypeOK
<1>2. TypeOK'
  <2>1. \A i \in Instances' : MapsAreTotal(i)'
    BY DEF LinkInv, TypeOK, Instances, MapsAreTotal, MapInto
  <2> QED BY <2>1 DEF LinkInv, TypeOK, Instances
<1>3. GoodFrames'
  <2>1. ASSUME NEW n \in DOMAIN stack, NEW fr, fr = stack[n] PROVE GoodFrame(fr)'
    <3>1. fr \in FrameType /\ GoodFrame(fr)
      BY <2>1, FramesAreGood DEF GoodFrames
    <3> QED BY <1>1, <3>1, Extends
  <2> QED BY <2>1 DEF GoodFrames
<1>4. FramesHaveBodies'
  BY <1>3 DEF GoodFrames, GoodFrame, FramesHaveBodies
<1>5. ReferencesAreLive'
  BY <1>3, ReachableIsLive
<1> QED BY <1>2, <1>4, <1>5 DEF LinkInv

\* A step that only moves the job on, or allocates an object for it.
LEMMA JobStep ==
  ASSUME LinkInv, UNCHANGED <<code, pools, stack, issued>>, StoreExtends,
         heap' \in Seq(HeapObject), job' \in Job \cup {Idle}, Building', Committed'
  PROVE  LinkInv'
<1>1. PICK S : S = Pooled
  OBVIOUS
<1>2. Pooled' = S
  BY <1>1 DEF Pooled, InTables, InGlobals, InSegments, pools
<1>3. Len(code') \in Nat /\ Len(heap') \in Nat /\ PoolShapes
  BY DEF LinkInv, TypeOK
<1>4. \A v \in S : Live(v)'
  BY <1>1, <1>3, PooledStays
<1>5. PoolShapes'
  BY <1>3 DEF PoolShapes, pools
<1> QED BY <1>2, <1>4, <1>5, StoreStep DEF pools

\* While the store has the same instances, backings lead where they led.
LEMMA LinksStay ==
  ASSUME code' = code, job'.mod = job.mod, job'.imp = job.imp
  PROVE  /\ Links(job.mod, job.imp) => Links(job.mod, job.imp)'
         /\ Linked(job.imp) => Linked(job.imp)'
<1>1. \A b : SlotOf(b)' = SlotOf(b)
  BY DEF SlotOf
<1>2. GlobalLinks(job.mod, job.imp) => GlobalLinks(job.mod, job.imp)'
  BY DEF GlobalLinks, Instances
<1>3. \A b : /\ InSpace(b, NumMems) => InSpace(b, NumMems)'
             /\ InSpace(b, NumTables) => InSpace(b, NumTables)'
             /\ InSpace(b, NumTags) => InSpace(b, NumTags)'
  BY <1>1 DEF InSpace
<1>4. Links(job.mod, job.imp) => Links(job.mod, job.imp)'
  BY <1>2, <1>3 DEF Links, InSpace, SlotOf
<1>5. Linked(job.imp) => Linked(job.imp)'
  BY <1>1 DEF Linked, SlotOf
<1> QED BY <1>4, <1>5

\* What a const expression evaluates to is a reference that is live, or will
\* be once the new instance joins the store (eval_const_expr).
LEMMA EvalStep ==
  ASSUME LinkInv, job.phase \in {"globals", "tables"},
         NEW e \in Expr, NEW k \in Nat, ValidExpr(job.mod, e, k), k <= Len(job.gvals),
         CanEval(e), EvalHeap(e), code' = code, job'.mod = job.mod
  PROVE  /\ EvalValue(e, job.gvals) \in Ref
         /\ \A v : v = EvalValue(e, job.gvals) => LiveSoon(v)'
         /\ \A w \in Ref : LiveSoon(w) => LiveSoon(w)'
         /\ StoreExtends /\ heap' \in Seq(HeapObject)
<1>1. PICK v : v = EvalValue(e, job.gvals)
  OBVIOUS
<1>2. /\ code \in Seq(Instance) /\ heap \in Seq(HeapObject) /\ Len(code) < MaxInstances
      /\ job.gvals \in Seq(Ref) /\ job.mod \in Modules /\ Len(code) \in Nat
      /\ \A g \in DOMAIN job.gvals : LiveSoon(job.gvals[g])
  BY JobShape DEF LinkInv, TypeOK, Building, Phases
<1>3. e.op \in {"null", "func", "global", "new"} /\ e.arg \in Nat
  BY DEF Expr
<1>4. StoreExtends /\ heap' \in Seq(HeapObject)
  <2>1. PICK o : o = [owner |-> Self, mod |-> job.mod]
    OBVIOUS
  <2>2. o \in HeapObject
    BY <1>2, <2>1 DEF Self, HeapObject
  <2>3. heap' \in Seq(HeapObject) /\ Len(heap') >= Len(heap)
    <3>1. CASE heap' = heap
      BY <1>2, <3>1
    <3>2. CASE heap' = Append(heap, o)
      BY <1>2, <2>2, <3>2, AppendProperties
    <3> QED BY <2>1, <3>1, <3>2 DEF EvalHeap, Allocate
  <2> QED BY <1>2, <2>3 DEF StoreExtends
<1>5. \A w \in Ref : LiveSoon(w) => LiveSoon(w)'
  <2>1. Len(heap') \in Nat
    BY <1>4
  <2> QED BY <1>2, <1>4, <2>1, Extends DEF LiveSoon
<1>6. v \in Ref /\ LiveSoon(v)'
  <2>1. CASE e.op = "null"
    <3>1. v = Null
      BY <1>1, <2>1 DEF EvalValue
    <3> QED BY <3>1 DEF Null, Ref, LiveSoon, Live
  <2>2. CASE e.op = "func"
    <3>1. v = FuncRef(Self, e.arg)
      BY <1>1, <2>2 DEF EvalValue
    <3>2. Self \in 1..MaxInstances
      BY <1>2, LimitsAreNumbers DEF Self
    <3>3. v = <<Self, e.arg>> /\ v \in Ref
      BY <1>3, <3>1, <3>2, FuncRefNames
    <3>4. e.arg \in 1..NumFuncs(job.mod)
      BY <2>2 DEF ValidExpr
    <3> QED BY <3>3, <3>4 DEF LiveSoon, Self
  <2>3. CASE e.op = "global"
    <3>1. v = job.gvals[e.arg] /\ e.arg \in 1..k
      BY <1>1, <2>3 DEF EvalValue, ValidExpr
    <3>2. e.arg \in DOMAIN job.gvals
      BY <1>2, <3>1
    <3>3. v \in Ref /\ LiveSoon(v)
      BY <1>2, <3>1, <3>2
    <3> QED BY <1>5, <3>3
  <2>4. CASE e.op = "new"
    <3>1. v = ObjRef(Len(heap) + 1)
      BY <1>1, <2>4 DEF EvalValue
    <3>2. Len(heap') = Len(heap) + 1 /\ Len(heap) \in Nat
      BY <1>2, <2>4 DEF EvalHeap, Allocate
    <3> QED BY <3>1, <3>2 DEF ObjRef, Ref, LiveSoon, Live, IsObj
  <2> QED BY <1>3, <2>1, <2>2, <2>3, <2>4
<1> QED BY <1>1, <1>4, <1>5, <1>6

\* A failed instantiation leaves a store in order.
LEMMA FailStep ==
  ASSUME LinkInv, job.phase \in Phases \ {"running"}, FailInstantiation,
         UNCHANGED <<code, pools, heap, stack, issued>>
  PROVE  LinkInv'
<1>1. stack = <<>> /\ issued \subseteq Instances
  BY JobShape DEF LinkInv, TypeOK
<1> QED BY <1>1, JobEnds DEF FailInstantiation

\* One defined global is initialised.
LEMMA EvalGlobalStep ==
  ASSUME LinkInv, EvalGlobal
  PROVE  LinkInv'
<1> DEFINE m == job.mod
           k == Len(job.gvals) - Len(m.impGlobals) + 1
           e == m.globals[k].init
<1>1. job.phase = "globals" /\ job.phase \in {"globals", "tables"} /\ job.phase \in Phases
  BY DEF EvalGlobal, Phases
<1>2. /\ job \in Job /\ m \in Modules /\ job.gvals \in Seq(Ref)
      /\ m.impGlobals \in Seq(GlobalType) /\ m.globals \in Seq(GlobalBody) /\ ModuleIndices(m)
  BY <1>1, JobShape DEF ModuleShape
<1>3. /\ Len(code) < MaxInstances /\ stack = <<>>
      /\ Links(m, job.imp)
      /\ Len(job.gvals) \in Len(m.impGlobals)..NumGlobals(m)
      /\ \A g \in DOMAIN job.gvals : LiveSoon(job.gvals[g])
      /\ job.newTables = <<>>
  BY <1>1 DEF LinkInv, Building
<1>4. CASE ~CanEval(e)
  BY <1>1, <1>4, FailStep DEF EvalGlobal, Phases
<1>5. CASE CanEval(e)
  <2>1. /\ k <= Len(m.globals) /\ EvalHeap(e)
        /\ job' = [job EXCEPT !.gvals = Append(@, EvalValue(e, job.gvals))]
        /\ UNCHANGED <<code, pools, stack, issued>>
    BY <1>5 DEF EvalGlobal
  <2>2. k \in DOMAIN m.globals /\ Len(m.impGlobals) + k - 1 = Len(job.gvals)
        /\ Len(job.gvals) \in Nat /\ Len(job.gvals) + 1 \in Len(m.impGlobals)..NumGlobals(m)
    <3>1. Len(job.gvals) \in Nat /\ Len(m.impGlobals) \in Nat /\ Len(m.globals) \in Nat
          /\ DOMAIN m.globals = 1..Len(m.globals)
      BY <1>2
    <3>2. Len(job.gvals) >= Len(m.impGlobals)
      BY <1>3, <3>1 DEF NumGlobals
    <3>3. \A a, b, c \in Nat : a >= b /\ a - b + 1 <= c =>
            a - b + 1 \in 1..c /\ b + (a - b + 1) - 1 = a /\ a + 1 \in b..(b + c)
      OBVIOUS
    <3> QED BY <2>1, <3>1, <3>2, <3>3 DEF NumGlobals
  <2>3. e \in Expr /\ ValidExpr(m, e, Len(job.gvals))
    <3>1. m.globals[k] \in GlobalBody
      <4> HIDE DEF k
      <4> QED BY <1>2, <2>2, ElementOfSeq
    <3>2. ValidExpr(m, e, Len(m.impGlobals) + k - 1)
      BY <1>2, <2>2 DEF ModuleIndices
    <3> QED BY <2>2, <3>1, <3>2 DEF GlobalBody
  <2>4. PICK v : v = EvalValue(e, job.gvals)
    OBVIOUS
  <2> HIDE DEF e, k
  <2>5. job' = [job EXCEPT !.gvals = Append(@, v)]
    BY <2>1, <2>4
  <2>6. /\ job'.mod = m /\ job'.phase = "globals" /\ job'.imp = job.imp
        /\ job'.newTables = job.newTables /\ job'.gvals = Append(job.gvals, v)
    BY <1>1, <1>2, <2>5 DEF Job
  <2>7. /\ v \in Ref /\ LiveSoon(v)' /\ StoreExtends /\ heap' \in Seq(HeapObject)
        /\ \A w \in Ref : LiveSoon(w) => LiveSoon(w)'
    <3>1. code' = code /\ Len(job.gvals) <= Len(job.gvals) /\ job'.mod = job.mod
      BY <2>1, <2>2, <2>6
    <3> QED BY <1>1, <1>5, <2>1, <2>2, <2>3, <2>4, <3>1, EvalStep
  <2>8. job' \in Job
    <3>1. Append(job.gvals, v) \in Seq(Ref)
      BY <1>2, <2>7
    <3> QED BY <1>2, <2>5, <3>1 DEF Job
  <2>9. Links(job.mod, job.imp)'
    BY <1>3, <2>1, <2>6, LinksStay
  <2>10. ASSUME NEW g \in DOMAIN job'.gvals, NEW w, w = job'.gvals[g] PROVE LiveSoon(w)'
    <3>1. w = v \/ (g \in DOMAIN job.gvals /\ w = job.gvals[g])
      BY <1>2, <2>6, <2>7, <2>10
    <3> QED BY <1>2, <1>3, <2>7, <3>1
  <2>11. Building'
    <3>1. \A g \in DOMAIN job'.gvals : LiveSoon(job.gvals[g])'
      BY <2>10 DEF LiveSoon, Live
    <3>2. Len(job'.gvals) \in Len(m.impGlobals)..NumGlobals(m)
      BY <1>2, <2>2, <2>6, <2>7
    <3>3. DOMAIN job'.newTables = {}
      BY <1>3, <2>6
    <3> QED BY <1>3, <2>1, <2>6, <2>9, <3>1, <3>2, <3>3 DEF Building
  <2>12. Committed'
    BY <2>6 DEF Committed
  <2> QED BY <2>1, <2>7, <2>8, <2>11, <2>12, JobStep
<1> QED BY <1>4, <1>5

\* The imported memories, tags and tables are matched: a match names an
\* instance of this store.
LEMMA LinkResourcesStep ==
  ASSUME LinkInv, LinkResources
  PROVE  LinkInv'
<1>1. job.phase = "globals" /\ job.phase \in Phases \ {"running"}
  BY DEF LinkResources, Phases
<1>2. job \in Job /\ stack = <<>>
  BY <1>1, JobShape
<1>3. UNCHANGED <<code, pools, heap, stack, issued>>
  BY DEF LinkResources
<1>4. CASE job' = Idle
  BY <1>1, <1>3, <1>4, FailStep DEF FailInstantiation
<1>5. CASE job' # Idle
  <2>1. /\ job' = [job EXCEPT !.phase = "tables"]
        /\ Len(job.gvals) = NumGlobals(job.mod)
        /\ \A k \in 1..Len(job.mod.impMems) : MemMatches(job.mod.impMems[k], job.imp.mems[k])
        /\ \A k \in 1..Len(job.mod.impTags) : TagMatches(job.mod.impTags[k], job.imp.tags[k])
        /\ \A k \in 1..Len(job.mod.impTables) :
             TableMatches(job.mod.impTables[k], job.imp.tables[k])
    BY <1>5 DEF LinkResources, FailInstantiation, NumGlobals
  <2>2. /\ job'.phase = "tables" /\ job'.mod = job.mod /\ job'.imp = job.imp
        /\ job'.gvals = job.gvals /\ job'.newTables = job.newTables
    BY <1>2, <2>1 DEF Job
  <2>3. job' \in Job
    BY <1>2, <2>1 DEF Job, Phases
  <2>4. /\ Len(code) < MaxInstances /\ Links(job.mod, job.imp)
        /\ Len(job.gvals) \in Len(job.mod.impGlobals)..NumGlobals(job.mod)
        /\ \A g \in DOMAIN job.gvals : LiveSoon(job.gvals[g])
        /\ job.newTables = <<>>
    BY <1>1 DEF LinkInv, Building
  <2>5. Linked(job.imp)
    <3>1. /\ job.imp.mems \in Seq(Backing) /\ job.imp.tables \in Seq(Backing)
          /\ job.imp.tags \in Seq(Backing)
      BY <1>1, JobShape DEF Imports
    <3>2. /\ DOMAIN job.imp.mems = 1..Len(job.mod.impMems)
          /\ DOMAIN job.imp.tables = 1..Len(job.mod.impTables)
          /\ DOMAIN job.imp.tags = 1..Len(job.mod.impTags)
      BY <2>4, <3>1 DEF Links
    <3>3. \A k \in DOMAIN job.imp.mems : SlotOf(job.imp.mems[k]) # Host
      BY <2>1, <3>2 DEF MemMatches
    <3>4. \A k \in DOMAIN job.imp.tables : SlotOf(job.imp.tables[k]) # Host
      BY <2>1, <3>2 DEF TableMatches
    <3>5. \A k \in DOMAIN job.imp.tags : SlotOf(job.imp.tags[k]) # Host
      BY <2>1, <3>2 DEF TagMatches
    <3> QED BY <3>3, <3>4, <3>5 DEF Linked
  <2>6. Building'
    <3>1. Linked(job.imp)' /\ Links(job.mod, job.imp)'
      BY <1>3, <2>2, <2>4, <2>5, LinksStay
    <3>2. \A g \in DOMAIN job'.gvals : LiveSoon(job.gvals[g])'
      BY <1>3, <2>2, <2>4 DEF LiveSoon, Live, Instances
    <3>3. DOMAIN job'.newTables = {}
      BY <2>2, <2>4
    <3> QED BY <1>2, <1>3, <2>1, <2>2, <2>4, <3>1, <3>2, <3>3 DEF Building
  <2>7. Committed'
    BY <2>2 DEF Committed
  <2>8. StoreExtends /\ heap' \in Seq(HeapObject)
    BY <1>3 DEF StoreExtends, LinkInv, TypeOK
  <2> QED BY <1>3, <2>3, <2>6, <2>7, <2>8, JobStep
<1> QED BY <1>4, <1>5

\* One defined table is made and filled.
LEMMA EvalTableStep ==
  ASSUME LinkInv, EvalTable
  PROVE  LinkInv'
<1> DEFINE m == job.mod
           k == Len(job.newTables) + 1
           decl == m.tables[k]
           e == decl.init
<1>1. job.phase = "tables" /\ job.phase \in {"globals", "tables"} /\ job.phase \in Phases
  BY DEF EvalTable, Phases
<1>2. /\ job \in Job /\ m \in Modules /\ job.gvals \in Seq(Ref) /\ job.newTables \in Seq(Table)
      /\ m.tables \in Seq(TableBody) /\ ModuleIndices(m)
  BY <1>1, JobShape DEF ModuleShape
<1>3. /\ Len(code) < MaxInstances /\ stack = <<>>
      /\ Links(m, job.imp) /\ Linked(job.imp)
      /\ Len(job.gvals) \in Len(m.impGlobals)..NumGlobals(m) /\ Len(job.gvals) = NumGlobals(m)
      /\ \A g \in DOMAIN job.gvals : LiveSoon(job.gvals[g])
      /\ \A t \in DOMAIN job.newTables : \A j \in DOMAIN job.newTables[t].entries :
           LiveSoon(job.newTables[t].entries[j])
  BY <1>1 DEF LinkInv, Building
<1>4. PICK v : v = EvalValue(e, job.gvals)
  OBVIOUS
<1>5. PICK tab : tab = [entries |-> [j \in 1..decl.min |-> v], max |-> decl.max, elem |-> decl.elem]
  OBVIOUS
<1>6. k \in 1..Len(m.tables) /\ k \in Nat
  BY <1>2 DEF EvalTable
<1>7. decl \in TableBody /\ ValidExpr(m, e, NumGlobals(m))
  <2>1. decl \in TableBody
    <3> HIDE DEF k
    <3> QED BY <1>2, <1>6, ElementOfSeq
  <2> QED BY <1>2, <1>6, <2>1 DEF ModuleIndices
<1>8. e \in Expr /\ decl.min \in Nat /\ decl.max \in Int /\ decl.elem \in Kinds
  BY <1>7 DEF TableBody
<1>9. CASE job' = Idle
  <2>1. UNCHANGED <<code, pools, stack, issued>>
    BY DEF EvalTable
  <2>2. job' # [job EXCEPT !.newTables = Append(@,
                 [entries |-> [j \in 1..[i \in 1..Len(m.tables) |-> m.tables[i].min][k] |->
                                 EvalValue(e, job.gvals)],
                  max |-> decl.max, elem |-> decl.elem])]
    BY <1>2, <1>9 DEF Idle, Job, Phases
  <2>3. UNCHANGED heap
    BY <2>2 DEF EvalTable
  <2> QED BY <1>1, <1>9, <2>1, <2>3, FailStep DEF FailInstantiation, Phases
<1>10. CASE job' # Idle
  <2>1. /\ CanEval(e) /\ EvalHeap(e) /\ UNCHANGED <<code, pools, stack, issued>>
        /\ job' = [job EXCEPT !.newTables = Append(@,
             [entries |-> [j \in 1..[i \in 1..Len(m.tables) |-> m.tables[i].min][k] |->
                             EvalValue(e, job.gvals)],
              max |-> decl.max, elem |-> decl.elem])]
    BY <1>10 DEF EvalTable, FailInstantiation
  <2>2. [i \in 1..Len(m.tables) |-> m.tables[i].min][k] = decl.min
    BY <1>6
  <2>3. job' = [job EXCEPT !.newTables = Append(@, tab)]
    BY <1>4, <1>5, <2>1, <2>2
  <2> HIDE DEF e, k, decl
  <2>4. /\ job'.mod = m /\ job'.phase = "tables" /\ job'.imp = job.imp
        /\ job'.newTables = Append(job.newTables, tab) /\ job'.gvals = job.gvals
    BY <1>1, <1>2, <2>3 DEF Job
  <2>5. /\ v \in Ref /\ LiveSoon(v)' /\ StoreExtends /\ heap' \in Seq(HeapObject)
        /\ \A w \in Ref : LiveSoon(w) => LiveSoon(w)'
    <3>1. code' = code /\ NumGlobals(m) <= Len(job.gvals) /\ job'.mod = job.mod
          /\ NumGlobals(m) \in Nat
      <4>1. Len(job.gvals) \in Nat
        BY <1>2
      <4> QED BY <1>3, <2>1, <2>4, <4>1
    <3> QED BY <1>1, <1>4, <1>7, <1>8, <2>1, <3>1, EvalStep
  <2>6. tab \in Table /\ DOMAIN tab.entries = 1..decl.min
        /\ \A j \in 1..decl.min : tab.entries[j] = v
    <3>1. [j \in 1..decl.min |-> v] \in Seq(Ref)
      BY <1>8, <2>5, SeqDef
    <3> QED BY <1>5, <1>8, <3>1 DEF Table
  <2>7. job' \in Job
    <3>1. Append(job.newTables, tab) \in Seq(Table)
      BY <1>2, <2>6
    <3> QED BY <1>2, <2>3, <3>1 DEF Job
  <2>8. Links(job.mod, job.imp)' /\ Linked(job.imp)'
    BY <1>3, <2>1, <2>4, LinksStay
  <2>9. ASSUME NEW t \in DOMAIN job'.newTables, NEW j \in DOMAIN job'.newTables[t].entries,
               NEW w, w = job'.newTables[t].entries[j]
        PROVE  LiveSoon(w)'
    <3>1. CASE t \in DOMAIN job.newTables
      <4>1. job.newTables[t] \in Table /\ job'.newTables[t] = job.newTables[t]
        BY <1>2, <2>4, <2>6, <3>1
      <4>2. w \in Ref
        BY <2>9, <4>1 DEF Table
      <4> QED BY <1>3, <2>5, <2>9, <3>1, <4>1, <4>2
    <3>2. CASE t \notin DOMAIN job.newTables
      <4>1. job'.newTables[t] = tab
        BY <1>2, <2>4, <2>6, <3>2
      <4> QED BY <2>5, <2>6, <2>9, <4>1
    <3> QED BY <3>1, <3>2
  <2>10. Building'
    <3>1. \A g \in DOMAIN job'.gvals : LiveSoon(job.gvals[g])'
      <4>1. ASSUME NEW g \in DOMAIN job.gvals, NEW w, w = job.gvals[g] PROVE LiveSoon(w)'
        BY <1>2, <1>3, <2>5, <4>1
      <4> QED BY <2>4, <4>1 DEF LiveSoon, Live
    <3>2. \A t \in DOMAIN job'.newTables : \A j \in DOMAIN job'.newTables[t].entries :
            LiveSoon(job.newTables[t].entries[j])'
      BY <2>9 DEF LiveSoon, Live
    <3> QED BY <1>3, <2>1, <2>4, <2>8, <3>1, <3>2 DEF Building
  <2>11. Committed'
    BY <2>4 DEF Committed
  <2> QED BY <2>1, <2>5, <2>7, <2>10, <2>11, JobStep
<1> QED BY <1>9, <1>10

\* An index map leads into its pool.
LEMMA IntoPool ==
  ASSUME NEW map \in Seq(Nat \ {0}), NEW num, NEW T, NEW pool \in Seq(T),
         MapInto(map, num, pool)
  PROVE  \A k \in DOMAIN map : map[k] \in DOMAIN pool
BY DEF MapInto

\* Index maps are sequences of numbers of slots.
LEMMA MapsAreSlots ==
  ASSUME LinkInv, NEW i \in Instances
  PROVE  /\ code[i].maps.mems \in Seq(Nat \ {0}) /\ code[i].maps.tables \in Seq(Nat \ {0})
         /\ code[i].maps.tags \in Seq(Nat \ {0})
<1>1. code[i] \in Instance
  BY DEF LinkInv, TypeOK, Instances
<1>2. code[i].maps \in IndexMaps
  BY <1>1 DEF Instance
<1> QED BY <1>2 DEF IndexMaps, Slots

\* The index maps of every instance lead into the pools.
LEMMA MapsLead ==
  ASSUME LinkInv, NEW i \in Instances
  PROVE  LET m == code[i].mod
             maps == code[i].maps
         IN  /\ code[i] \in Instance /\ m \in Modules
             /\ Len(maps.globals) = NumGlobals(m) /\ Len(maps.mems) = NumMems(m)
             /\ Len(maps.tables) = NumTables(m) /\ Len(maps.tags) = NumTags(m)
             /\ Len(maps.elems) = Len(m.elems)
             /\ \A g \in DOMAIN maps.globals : maps.globals[g] \in DOMAIN globals
             /\ \A k \in DOMAIN maps.mems : maps.mems[k] \in DOMAIN mems
             /\ \A k \in DOMAIN maps.tables : maps.tables[k] \in DOMAIN tables
             /\ \A k \in DOMAIN maps.tags : maps.tags[k] \in DOMAIN tags
             /\ \A k \in DOMAIN maps.elems : maps.elems[k] \in DOMAIN elemVals
<1> DEFINE m == code[i].mod
           maps == code[i].maps
<1>1. code[i] \in Instance /\ MapsAreTotal(i)
  BY DEF LinkInv, TypeOK, Instances
<1>2. m \in Modules /\ maps \in IndexMaps
  BY <1>1 DEF Instance
<1>3. /\ maps.globals \in Seq(Nat \ {0}) /\ maps.mems \in Seq(Nat \ {0})
      /\ maps.tables \in Seq(Nat \ {0}) /\ maps.tags \in Seq(Nat \ {0})
      /\ maps.elems \in Seq(Nat \ {0})
  BY <1>2 DEF IndexMaps, Slots
<1>4. /\ globals \in Seq(Ref) /\ mems \in Seq(Memory) /\ tables \in Seq(Table)
      /\ tags \in Seq(Nat) /\ elemVals \in Seq(Seq(Ref))
  BY DEF LinkInv, TypeOK, PoolShapes
<1>5. /\ MapInto(maps.globals, NumGlobals(m), globals)
      /\ MapInto(maps.mems, NumMems(m), mems)
      /\ MapInto(maps.tables, NumTables(m), tables)
      /\ MapInto(maps.tags, NumTags(m), tags)
      /\ MapInto(maps.elems, Len(m.elems), elemVals)
  BY <1>1 DEF MapsAreTotal
<1> HIDE DEF m, maps
<1>6. /\ Len(maps.globals) = NumGlobals(m) /\ Len(maps.mems) = NumMems(m)
      /\ Len(maps.tables) = NumTables(m) /\ Len(maps.tags) = NumTags(m)
      /\ Len(maps.elems) = Len(m.elems)
  BY <1>5 DEF MapInto
<1>7. \A g \in DOMAIN maps.globals : maps.globals[g] \in DOMAIN globals
  BY <1>3, <1>4, <1>5, IntoPool
<1>8. \A k \in DOMAIN maps.mems : maps.mems[k] \in DOMAIN mems
  BY <1>3, <1>4, <1>5, IntoPool
<1>9. \A k \in DOMAIN maps.tables : maps.tables[k] \in DOMAIN tables
  BY <1>3, <1>4, <1>5, IntoPool
<1>10. \A k \in DOMAIN maps.tags : maps.tags[k] \in DOMAIN tags
  BY <1>3, <1>4, <1>5, IntoPool
<1>11. \A k \in DOMAIN maps.elems : maps.elems[k] \in DOMAIN elemVals
  BY <1>3, <1>4, <1>5, IntoPool
<1> QED BY <1>1, <1>2, <1>6, <1>7, <1>8, <1>9, <1>10, <1>11 DEF m, maps

\* A committed job is about the last instance.
LEMMA CommittedJob ==
  ASSUME LinkInv, job.phase \in {"elems", "start"}
  PROVE  /\ job \in Job /\ stack = <<>> /\ Len(code) \in Instances
         /\ job.mod = code[Len(code)].mod /\ job.mod \in Modules
         /\ ModuleShape(job.mod) /\ ModuleIndices(job.mod)
         /\ job.next \in Nat /\ job.next >= 1
<1>1. job.phase \in Phases /\ job.phase # "running"
  BY DEF Phases
<1>2. job \in Job /\ stack = <<>> /\ ModuleShape(job.mod) /\ ModuleIndices(job.mod)
      /\ job.mod \in Modules
  BY <1>1, JobShape
<1>3. Len(code) >= 1 /\ job.mod = code[Len(code)].mod /\ job.next >= 1
  BY DEF LinkInv, Committed
<1>4. Len(code) \in Instances
  BY <1>3 DEF LinkInv, TypeOK, Instances
<1> QED BY <1>2, <1>3, <1>4 DEF Job

\* A committed job that moves on leaves the store in order.
LEMMA MovesOn ==
  ASSUME LinkInv, job.phase \in {"elems", "start"}, UNCHANGED <<code, stack>>,
         NEW p \in {"elems", "start"}, NEW n \in Nat, n >= 1,
         job' = [job EXCEPT !.phase = p, !.next = n]
  PROVE  job' \in Job /\ Building' /\ Committed'
<1>1. /\ job \in Job /\ stack = <<>> /\ Len(code) \in Instances
      /\ job.mod = code[Len(code)].mod
  BY CommittedJob
<1>2. job' \in Job
  BY <1>1 DEF Job, Phases
<1>3. job'.phase = p /\ job'.next = n /\ job'.mod = job.mod
  BY <1>1 DEF Job
<1>4. Len(code) >= 1
  BY DEF LinkInv, Committed
<1> QED BY <1>1, <1>2, <1>3, <1>4 DEF Building, Committed

\* An active element segment puts live references into a table that may be
\* another instance's.
LEMMA ApplyElemStep ==
  ASSUME LinkInv, ApplyElem
  PROVE  LinkInv'
<1> DEFINE self == code[Len(code)]
           n == job.next
           seg == job.mod.elems[n]
           vals == elemVals[self.maps.elems[n]]
           t == self.maps.tables[seg.table]
           es == Written(tables[t].entries, seg.off, vals)
<1>1. /\ job.phase = "elems" /\ job.phase \in {"elems", "start"}
      /\ n <= Len(job.mod.elems) /\ UNCHANGED <<code, heap, stack, issued>>
      /\ UNCHANGED <<globals, mems, tags, elemVals, elemDropped, dataDropped>>
  BY DEF ApplyElem
<1>2. /\ job \in Job /\ Len(code) \in Instances /\ job.mod = self.mod
      /\ ModuleIndices(job.mod) /\ job.mod.elems \in Seq(ElemSegment)
      /\ n \in Nat /\ n >= 1 /\ n + 1 \in Nat /\ n + 1 >= 1
  BY <1>1, CommittedJob DEF ModuleShape
<1>3. n \in DOMAIN job.mod.elems /\ seg \in ElemSegment
  <2>1. n \in 1..Len(job.mod.elems)
    BY <1>1, <1>2
  <2> HIDE DEF n
  <2> QED BY <1>2, <2>1, ElementOfSeq
<1>4. StoreExtends /\ heap' \in Seq(HeapObject)
  BY <1>1 DEF StoreExtends, LinkInv, TypeOK
<1>5. CASE job' = Idle /\ UNCHANGED tables
  BY <1>1, <1>5, FailStep DEF FailInstantiation, pools, Phases
<1>6. CASE job' = [job EXCEPT !.next = @ + 1] /\ UNCHANGED tables
  <2>1. job' = [job EXCEPT !.phase = "elems", !.next = n + 1]
    BY <1>1, <1>2, <1>6 DEF Job
  <2>2. job' \in Job /\ Building' /\ Committed'
    BY <1>1, <1>2, <2>1, MovesOn
  <2> QED BY <1>1, <1>4, <1>6, <2>2, JobStep DEF pools
<1>7. CASE /\ seg.mode = "active"
           /\ tables' = [tables EXCEPT ![t].entries = es]
           /\ job' = [job EXCEPT !.next = @ + 1]
  <2>1. job' = [job EXCEPT !.phase = "elems", !.next = n + 1]
    BY <1>1, <1>2, <1>7 DEF Job
  <2>2. job' \in Job /\ Building' /\ Committed'
    BY <1>1, <1>2, <2>1, MovesOn
  <2>3. seg.table \in 1..NumTables(job.mod) /\ seg.off \in Nat
    BY <1>2, <1>3, <1>7 DEF ModuleIndices, ElemSegment
  <2>4. t \in DOMAIN tables /\ self.maps.elems[n] \in DOMAIN elemVals
    <3>1. self.maps \in IndexMaps
      BY <1>2, MapsLead DEF Instance
    <3>2. self.maps.tables \in Seq(Nat \ {0}) /\ self.maps.elems \in Seq(Nat \ {0})
      BY <3>1 DEF IndexMaps, Slots
    <3>3. Len(self.maps.tables) = NumTables(self.mod) /\ Len(self.maps.elems) = Len(self.mod.elems)
      BY <1>2, MapsLead
    <3>4. seg.table \in 1..Len(self.maps.tables) /\ n \in 1..Len(self.maps.elems)
      BY <1>2, <1>3, <2>3, <3>3
    <3>5. seg.table \in DOMAIN self.maps.tables /\ n \in DOMAIN self.maps.elems
      BY <3>2, <3>4, LenProperties
    <3> QED BY <1>2, <3>5, MapsLead
  <2>5. /\ tables[t].entries \in Seq(Ref) /\ vals \in Seq(Ref)
        /\ \A k \in DOMAIN tables[t].entries : Live(tables[t].entries[k])
        /\ \A k \in DOMAIN vals : Live(vals[k])
    BY <2>4, PooledIsLive
  <2> HIDE DEF t, vals, seg
  <2>6. es \in Seq(Ref) /\ \A k \in DOMAIN es : Live(es[k])
    BY <2>3, <2>5, WrittenIsLive
  <2> HIDE DEF es
  <2>7. /\ tables' \in Seq(Table) /\ Len(tables') = Len(tables)
        /\ \A s \in DOMAIN tables' : \A k \in DOMAIN tables'[s].entries :
             Live(tables'[s].entries[k])
    BY <1>7, <2>4, <2>6, OneTable
  <2>8. PoolShapes'
    BY <1>1, <2>7 DEF LinkInv, TypeOK, PoolShapes
  <2>9. \A v \in Pooled' : Live(v)
    BY <1>1, <2>7, PooledIsLive DEF Pooled, InTables, InGlobals, InSegments
  <2>10. \A v : Live(v) => Live(v)'
    BY <1>1 DEF Live, Instances
  <2>11. PICK S : S = Pooled'
    OBVIOUS
  <2> QED BY <1>1, <1>4, <2>2, <2>7, <2>8, <2>9, <2>10, <2>11, StoreStep
<1> QED BY <1>5, <1>6, <1>7 DEF ApplyElem, FailInstantiation

\* The active data segments change sizes of nothing.
LEMMA ApplyDataStep ==
  ASSUME LinkInv, ApplyData
  PROVE  LinkInv'
<1>1. /\ job.phase = "elems" /\ job.phase \in {"elems", "start"}
      /\ UNCHANGED <<code, pools, heap, stack, issued>>
  BY DEF ApplyData
<1>2. CASE job' = Idle
  BY <1>1, <1>2, FailStep DEF FailInstantiation, Phases
<1>3. CASE job' = [job EXCEPT !.phase = "start"]
  <2>1. job \in Job /\ job.next \in Nat /\ job.next >= 1
    BY <1>1, CommittedJob
  <2>2. job' = [job EXCEPT !.phase = "start", !.next = job.next]
    BY <1>3, <2>1 DEF Job
  <2>3. job' \in Job /\ Building' /\ Committed'
    BY <1>1, <2>1, <2>2, MovesOn
  <2>4. StoreExtends /\ heap' \in Seq(HeapObject)
    BY <1>1 DEF StoreExtends, LinkInv, TypeOK
  <2> QED BY <1>1, <2>3, <2>4, JobStep
<1> QED BY <1>2, <1>3 DEF ApplyData, FailInstantiation

\* The start function runs in the new instance; without one, or when the host
\* answers it, the instantiation is over.
LEMMA StartStep ==
  ASSUME LinkInv, Start
  PROVE  LinkInv'
<1> DEFINE f == job.mod.start
           i == Len(code)
           fr == Entered(i, f, FuncType(job.mod, f), Null, 1)
<1>1. /\ job.phase = "start" /\ job.phase \in {"elems", "start"}
      /\ UNCHANGED <<code, pools, heap>>
  BY DEF Start
<1>2. /\ job \in Job /\ stack = <<>> /\ i \in Instances /\ job.mod = code[i].mod
      /\ job.mod \in Modules /\ f \in 0..NumFuncs(job.mod) /\ Len(code) >= 1
  BY <1>1, CommittedJob DEF ModuleShape, LinkInv, Committed
<1>3. CASE FinishStart /\ UNCHANGED stack
  BY <1>1, <1>2, <1>3, FinishStep
<1>4. CASE FailInstantiation /\ UNCHANGED <<stack, issued>>
  BY <1>1, <1>4, FailStep DEF Phases
<1>5. CASE /\ f # 0 /\ CanEnter(i, f, 1) /\ DefiningFunc(i, f)[1] # Host
           /\ stack' = <<fr>> /\ job' = [job EXCEPT !.phase = "running"] /\ UNCHANGED issued
  <2>1. f \in 1..NumFuncs(job.mod)
    BY <1>2, <1>5
  <2>2. FuncType(job.mod, f) \in Types
    BY <1>2, <2>1, FuncTypes
  <2>3. Null \in Ref /\ Live(Null) /\ 1 \in Nat
    BY DEF Null, Ref, Live
  <2>4. GoodFrame(fr)
    BY <1>5, <2>2, <2>3, EnteredIsGood
  <2> HIDE DEF fr
  <2>5. StoreExtends /\ Len(code') \in Nat /\ Len(heap') \in Nat
    BY <1>1 DEF StoreExtends, LinkInv, TypeOK
  <2>6. PICK w : w = fr
    OBVIOUS
  <2>7. w \in FrameType /\ GoodFrame(w)' /\ stack' = <<w>>
    BY <1>5, <2>4, <2>5, <2>6, Extends DEF GoodFrame
  <2>8. GoodFrames'
    BY <2>7 DEF GoodFrames
  <2>9. job' \in Job /\ job'.phase = "running" /\ job'.mod = job.mod /\ job'.next = job.next
    BY <1>2, <1>5 DEF Job, Phases
  <2>10. TypeOK'
    <3>1. \A k \in Instances' : MapsAreTotal(k)'
      BY <1>1 DEF LinkInv, TypeOK, Instances, MapsAreTotal, MapInto, pools
    <3>2. stack' \in Seq(FrameType)
      BY <2>7
    <3> QED BY <1>1, <1>5, <2>9, <3>1, <3>2 DEF LinkInv, TypeOK, PoolShapes, pools, Instances
  <2>11. Building' /\ Committed'
    BY <1>1, <1>2, <2>9 DEF LinkInv, Building, Committed
  <2>12. FramesHaveBodies'
    BY <2>8 DEF GoodFrames, GoodFrame, FramesHaveBodies
  <2>13. ReferencesAreLive'
    <3>1. PICK S : S = Pooled
      OBVIOUS
    <3>2. Pooled' = S
      BY <1>1, <3>1 DEF Pooled, InTables, InGlobals, InSegments, pools
    <3>3. \A v \in S : Live(v)'
      BY <2>5, <3>1, PooledStays
    <3> QED BY <2>8, <3>2, <3>3, ReachableIsLive
  <2> QED BY <2>10, <2>11, <2>12, <2>13 DEF LinkInv
<1> QED BY <1>3, <1>4, <1>5 DEF Start

-----------------------------------------------------------------------------
(* What the host passes to instantiate.                                    *)

\* One value per import makes a sequence of them.
LEMMA FunctionIsSeq ==
  ASSUME NEW n \in Nat, NEW T, NEW s \in [1..n -> T]
  PROVE  s \in Seq(T) /\ Len(s) = n /\ DOMAIN s = 1..n
BY SeqDef

\* A backing the host can name is an id and an index.
LEMMA BackingShape ==
  ASSUME LinkInv, NEW id \in Ids, NEW x, NEW k \in 1..x,
         NEW b, b = [store |-> id[1], inst |-> id[2], idx |-> k]
  PROVE  b \in Backing
<1>1. issued \subseteq Instances
  BY DEF LinkInv, TypeOK
<1>2. id[1] \in Nat /\ id[2] \in Nat
  BY <1>1 DEF Ids, ThisStore, Instances
<1>3. k \in Nat
  OBVIOUS
<1> QED BY <1>2, <1>3 DEF Backing

\* A function backing is well formed, whatever it names.
LEMMA FuncBackingShape ==
  ASSUME LinkInv
  PROVE  FuncBackings \subseteq Backing
<1>1. HostBacking \in Backing
  BY DEF HostBacking, Backing, Host
<1>2. ASSUME NEW b \in FuncBackings, b # HostBacking PROVE b \in Backing
  <2>1. PICK id \in Ids : \E k \in 1..(IF id[2] \in 1..Len(code)
                                     THEN NumFuncs(code[id[2]].mod) ELSE 1) :
          b = [store |-> id[1], inst |-> id[2], idx |-> k]
    BY <1>2 DEF FuncBackings, BackingsFrom
  <2> QED BY <2>1, BackingShape
<1> QED BY <1>1, <1>2

\* So is a memory backing, and an instance it names has that memory.
LEMMA MemBackingShape ==
  ASSUME LinkInv, NEW b \in MemBackings
  PROVE  b \in Backing /\ InSpace(b, NumMems)
<1>1. PICK id \in Ids : \E k \in 1..(IF id[2] \in 1..Len(code)
                                     THEN Len(code[id[2]].maps.mems) ELSE 1) :
        b = [store |-> id[1], inst |-> id[2], idx |-> k]
  BY DEF MemBackings, BackingsFrom
<1>2. b \in Backing
  BY <1>1, BackingShape
<1>3. ASSUME SlotOf(b) # Host PROVE b.idx \in 1..NumMems(code[SlotOf(b)].mod)
  <2>1. SlotOf(b) = b.inst /\ b.inst \in Instances
    BY <1>3 DEF SlotOf, Instances
  <2>2. b.idx \in 1..Len(code[b.inst].maps.mems)
    BY <1>1, <2>1 DEF Instances
  <2> QED BY <2>1, <2>2, MapsLead
<1> QED BY <1>2, <1>3 DEF InSpace

\* And a table backing.
LEMMA TableBackingShape ==
  ASSUME LinkInv, NEW b \in TableBackings
  PROVE  b \in Backing /\ InSpace(b, NumTables)
<1>1. PICK id \in Ids : \E k \in 1..(IF id[2] \in 1..Len(code)
                                     THEN Len(code[id[2]].maps.tables) ELSE 1) :
        b = [store |-> id[1], inst |-> id[2], idx |-> k]
  BY DEF TableBackings, BackingsFrom
<1>2. b \in Backing
  BY <1>1, BackingShape
<1>3. ASSUME SlotOf(b) # Host PROVE b.idx \in 1..NumTables(code[SlotOf(b)].mod)
  <2>1. SlotOf(b) = b.inst /\ b.inst \in Instances
    BY <1>3 DEF SlotOf, Instances
  <2>2. b.idx \in 1..Len(code[b.inst].maps.tables)
    BY <1>1, <2>1 DEF Instances
  <2> QED BY <2>1, <2>2, MapsLead
<1> QED BY <1>2, <1>3 DEF InSpace

\* And a tag backing.
LEMMA TagBackingShape ==
  ASSUME LinkInv, NEW b \in TagBackings
  PROVE  b \in Backing /\ InSpace(b, NumTags)
<1>1. PICK id \in Ids : \E k \in 1..(IF id[2] \in 1..Len(code)
                                     THEN Len(code[id[2]].maps.tags) ELSE 1) :
        b = [store |-> id[1], inst |-> id[2], idx |-> k]
  BY DEF TagBackings, BackingsFrom
<1>2. b \in Backing
  BY <1>1, BackingShape
<1>3. ASSUME SlotOf(b) # Host PROVE b.idx \in 1..NumTags(code[SlotOf(b)].mod)
  <2>1. SlotOf(b) = b.inst /\ b.inst \in Instances
    BY <1>3 DEF SlotOf, Instances
  <2>2. b.idx \in 1..Len(code[b.inst].maps.tags)
    BY <1>1, <2>1 DEF Instances
  <2> QED BY <2>1, <2>2, MapsLead
<1> QED BY <1>2, <1>3 DEF InSpace

\* A global backing carries a live value, the exporter's current one.
LEMMA GlobalBackingShape ==
  ASSUME LinkInv, NEW decl, NEW b \in GlobalBackings(decl)
  PROVE  /\ b \in [store : Nat, inst : Nat, idx : Nat, val : Ref]
         /\ Live(b.val)
         /\ b.store # Host => /\ b.store = ThisStore /\ b.inst \in Instances
                              /\ b.idx \in 1..NumGlobals(code[b.inst].mod)
<1>1. issued \subseteq Instances
  BY DEF LinkInv, TypeOK
<1>2. CASE b = [store |-> Host, inst |-> Host, idx |-> 0, val |-> Null]
  BY <1>2 DEF Host, Null, Ref, Live
<1>3. CASE b # [store |-> Host, inst |-> Host, idx |-> 0, val |-> Null]
  <2>1. PICK i \in issued : \E g \in 1..Len(code[i].maps.globals) :
          b = [store |-> ThisStore, inst |-> i, idx |-> g, val |-> globals[code[i].maps.globals[g]]]
    BY <1>3 DEF GlobalBackings
  <2>2. PICK g \in 1..Len(code[i].maps.globals) :
          b = [store |-> ThisStore, inst |-> i, idx |-> g, val |-> globals[code[i].maps.globals[g]]]
    BY <2>1
  <2>3. i \in Instances /\ code[i].maps \in IndexMaps
    BY <1>1, <2>1, MapsLead DEF Instance
  <2>4. g \in DOMAIN code[i].maps.globals
    BY <2>3 DEF IndexMaps, Slots
  <2>5. globals[code[i].maps.globals[g]] \in Ref /\ Live(globals[code[i].maps.globals[g]])
    BY <2>3, <2>4, MapsLead, PooledIsLive
  <2>6. g \in 1..NumGlobals(code[i].mod)
    BY <2>3, MapsLead
  <2>7. i \in Nat /\ g \in Nat /\ ThisStore \in Nat
    BY <2>3 DEF Instances, ThisStore
  <2> QED BY <2>2, <2>3, <2>5, <2>6, <2>7
<1> QED BY <1>2, <1>3

\* An instantiation begins with one backing per import.
LEMMA BeginStep ==
  ASSUME LinkInv, BeginInstantiate
  PROVE  LinkInv'
<1>1. /\ job = Idle /\ stack = <<>> /\ Len(code) < MaxInstances
      /\ UNCHANGED <<code, pools, heap, stack, issued>>
  BY DEF BeginInstantiate, Running
<1>2. PICK m \in Modules :
       \E fs \in [1..Len(m.impFuncs) -> FuncBackings],
          gs \in [1..Len(m.impGlobals) ->
                    UNION {GlobalBackings(m.impGlobals[g]) : g \in 1..Len(m.impGlobals)}],
          ms \in [1..Len(m.impMems) -> MemBackings],
          ts \in [1..Len(m.impTables) -> TableBackings],
          gts \in [1..Len(m.impTags) -> TagBackings] :
         /\ \A g \in 1..Len(m.impGlobals) : gs[g] \in GlobalBackings(m.impGlobals[g])
         /\ \A f \in 1..Len(m.impFuncs) : FuncMatches(m.impFuncs[f], fs[f])
         /\ job' = [phase |-> "globals", mod |-> m,
                    imp |-> [funcs |-> fs, globals |-> gs, mems |-> ms,
                             tables |-> ts, tags |-> gts],
                    gvals |-> [g \in 1..Len(m.impGlobals) |-> gs[g].val],
                    newTables |-> <<>>, next |-> 1]
  BY DEF BeginInstantiate
<1>3. PICK fs \in [1..Len(m.impFuncs) -> FuncBackings],
          gs \in [1..Len(m.impGlobals) ->
                    UNION {GlobalBackings(m.impGlobals[g]) : g \in 1..Len(m.impGlobals)}],
          ms \in [1..Len(m.impMems) -> MemBackings],
          ts \in [1..Len(m.impTables) -> TableBackings],
          gts \in [1..Len(m.impTags) -> TagBackings] :
         /\ \A g \in 1..Len(m.impGlobals) : gs[g] \in GlobalBackings(m.impGlobals[g])
         /\ \A f \in 1..Len(m.impFuncs) : FuncMatches(m.impFuncs[f], fs[f])
         /\ job' = [phase |-> "globals", mod |-> m,
                    imp |-> [funcs |-> fs, globals |-> gs, mems |-> ms,
                             tables |-> ts, tags |-> gts],
                    gvals |-> [g \in 1..Len(m.impGlobals) |-> gs[g].val],
                    newTables |-> <<>>, next |-> 1]
  BY <1>2
<1>4. PICK imp : imp = [funcs |-> fs, globals |-> gs, mems |-> ms, tables |-> ts, tags |-> gts]
  OBVIOUS
<1>5. PICK gvals : gvals = [g \in 1..Len(m.impGlobals) |-> gs[g].val]
  OBVIOUS
<1>6. job' = [phase |-> "globals", mod |-> m, imp |-> imp, gvals |-> gvals,
              newTables |-> <<>>, next |-> 1]
  BY <1>3, <1>4, <1>5
<1>7. /\ Len(m.impFuncs) \in Nat /\ Len(m.impGlobals) \in Nat /\ Len(m.impMems) \in Nat
      /\ Len(m.impTables) \in Nat /\ Len(m.impTags) \in Nat /\ Len(m.globals) \in Nat
  BY ModulesAreValid DEF ModuleShape
<1>8. /\ imp.funcs = fs /\ imp.globals = gs /\ imp.mems = ms /\ imp.tables = ts /\ imp.tags = gts
  BY <1>4
<1> DEFINE GB == [store : Nat, inst : Nat, idx : Nat, val : Ref]
<1>9. \A g \in 1..Len(m.impGlobals) :
        /\ gs[g] \in GB /\ gs[g].val \in Ref /\ Live(gs[g].val)
        /\ gs[g].store # Host => /\ gs[g].store = ThisStore /\ gs[g].inst \in Instances
                                 /\ gs[g].idx \in 1..NumGlobals(code[gs[g].inst].mod)
  <2>1. ASSUME NEW b \in GB PROVE b.val \in Ref
    OBVIOUS
  <2> QED BY <1>3, <2>1, GlobalBackingShape
<1> HIDE DEF GB
<1>10. fs \in Seq(Backing) /\ Len(fs) = Len(m.impFuncs)
  <2>1. fs \in [1..Len(m.impFuncs) -> Backing]
    BY <1>3, FuncBackingShape
  <2> QED BY <1>7, <2>1, FunctionIsSeq
<1>11. /\ ms \in Seq(Backing) /\ Len(ms) = Len(m.impMems)
       /\ \A k \in DOMAIN ms : InSpace(ms[k], NumMems)
  <2>1. \A k \in 1..Len(m.impMems) : ms[k] \in Backing /\ InSpace(ms[k], NumMems)
    BY <1>3, MemBackingShape
  <2>2. ms \in [1..Len(m.impMems) -> Backing]
    BY <1>3, <2>1
  <2>3. ms \in Seq(Backing) /\ Len(ms) = Len(m.impMems) /\ DOMAIN ms = 1..Len(m.impMems)
    BY <1>7, <2>2, FunctionIsSeq
  <2> QED BY <2>1, <2>3
<1>12. /\ ts \in Seq(Backing) /\ Len(ts) = Len(m.impTables)
       /\ \A k \in DOMAIN ts : InSpace(ts[k], NumTables)
  <2>1. \A k \in 1..Len(m.impTables) : ts[k] \in Backing /\ InSpace(ts[k], NumTables)
    BY <1>3, TableBackingShape
  <2>2. ts \in [1..Len(m.impTables) -> Backing]
    BY <1>3, <2>1
  <2>3. ts \in Seq(Backing) /\ Len(ts) = Len(m.impTables) /\ DOMAIN ts = 1..Len(m.impTables)
    BY <1>7, <2>2, FunctionIsSeq
  <2> QED BY <2>1, <2>3
<1>13. /\ gts \in Seq(Backing) /\ Len(gts) = Len(m.impTags)
       /\ \A k \in DOMAIN gts : InSpace(gts[k], NumTags)
  <2>1. \A k \in 1..Len(m.impTags) : gts[k] \in Backing /\ InSpace(gts[k], NumTags)
    BY <1>3, TagBackingShape
  <2>2. gts \in [1..Len(m.impTags) -> Backing]
    BY <1>3, <2>1
  <2>3. gts \in Seq(Backing) /\ Len(gts) = Len(m.impTags) /\ DOMAIN gts = 1..Len(m.impTags)
    BY <1>7, <2>2, FunctionIsSeq
  <2> QED BY <2>1, <2>3
<1>14. gs \in Seq(GB) /\ Len(gs) = Len(m.impGlobals) /\ DOMAIN gs = 1..Len(m.impGlobals)
  <2>1. gs \in [1..Len(m.impGlobals) -> GB]
    BY <1>3, <1>9
  <2> QED BY <1>7, <2>1, FunctionIsSeq
<1>15. gvals \in Seq(Ref) /\ Len(gvals) = Len(m.impGlobals)
       /\ \A g \in DOMAIN gvals : Live(gvals[g])
  <2>1. gvals \in [1..Len(m.impGlobals) -> Ref]
    BY <1>5, <1>9
  <2> QED BY <1>5, <1>7, <1>9, <2>1, FunctionIsSeq
<1>16. imp \in Imports
  BY <1>4, <1>10, <1>11, <1>12, <1>13, <1>14 DEF Imports, GB
<1>17. job' \in Job
  <2>1. <<>> \in Seq(Table)
    OBVIOUS
  <2> QED BY <1>6, <1>15, <1>16, <2>1 DEF Job, Phases
<1>18. Building'
  <2>1. /\ job'.phase = "globals" /\ job'.mod = m /\ job'.imp = imp /\ job'.gvals = gvals
        /\ job'.newTables = <<>>
    BY <1>6
  <2>2. GlobalLinks(m, imp)
    BY <1>8, <1>9, <1>14 DEF GlobalLinks
  <2>3. Links(m, imp)
    BY <1>8, <1>11, <1>12, <1>13, <2>2 DEF Links
  <2>4. Links(job.mod, job.imp)'
    <3>1. \A b : SlotOf(b)' = SlotOf(b)
      BY <1>1 DEF SlotOf
    <3>2. GlobalLinks(job.mod, job.imp)'
      BY <1>1, <2>1, <2>2 DEF GlobalLinks, Instances
    <3> QED BY <1>1, <2>1, <2>3, <3>1, <3>2 DEF Links, InSpace, SlotOf
  <2>5. \A g \in DOMAIN job'.gvals : LiveSoon(job.gvals[g])'
    BY <1>1, <1>15, <2>1 DEF LiveSoon, Live, Instances
  <2>6. Len(gvals) \in Len(m.impGlobals)..NumGlobals(m)
    <3>1. \A b, c \in Nat : b \in b..(b + c)
      OBVIOUS
    <3> QED BY <1>7, <1>15, <3>1 DEF NumGlobals
  <2>7. DOMAIN job'.newTables = {}
    BY <2>1
  <2> QED BY <1>1, <2>1, <2>4, <2>5, <2>6, <2>7 DEF Building
<1>19. Committed'
  BY <1>6 DEF Committed
<1>20. StoreExtends /\ heap' \in Seq(HeapObject)
  BY <1>1 DEF StoreExtends, LinkInv, TypeOK
<1> QED BY <1>1, <1>17, <1>18, <1>19, <1>20, JobStep

-----------------------------------------------------------------------------
(* The commit of an instance.                                              *)

\* What an instantiation has gathered when it is committed.
LEMMA Ready ==
  ASSUME LinkInv, Commit
  PROVE  /\ job \in Job /\ job.mod \in Modules /\ job.imp \in Imports
         /\ ModuleShape(job.mod) /\ ModuleIndices(job.mod) /\ stack = <<>>
         /\ Len(code) \in Nat /\ Len(code) < MaxInstances
         /\ Links(job.mod, job.imp) /\ Linked(job.imp)
         /\ job.gvals \in Seq(Ref) /\ Len(job.gvals) = NumGlobals(job.mod)
         /\ \A g \in DOMAIN job.gvals : LiveSoon(job.gvals[g])
         /\ job.newTables \in Seq(Table) /\ Len(job.newTables) = Len(job.mod.tables)
         /\ \A t \in DOMAIN job.newTables : \A k \in DOMAIN job.newTables[t].entries :
              LiveSoon(job.newTables[t].entries[k])
         /\ UNCHANGED <<heap, stack, issued>>
<1>1. job.phase = "tables" /\ job.phase \in Phases
  BY DEF Commit, Phases
<1>2. job.phase \in {"globals", "tables"}
  BY <1>1
<1>3. Building /\ Len(code) \in Nat
  BY DEF LinkInv, TypeOK
<1> QED BY <1>1, <1>2, <1>3, JobShape DEF Building, Commit

\* The new instance is the last one, and those before it are untouched.
LEMMA CommitExtends ==
  ASSUME LinkInv, Commit
  PROVE  /\ StoreExtends /\ Len(code') = Len(code) + 1 /\ Len(heap') \in Nat
         /\ code'[Len(code) + 1].mod = job.mod
         /\ \A i \in Instances' : i \in Instances \/ i = Len(code) + 1
<1>1. code \in Seq(Instance) /\ heap \in Seq(HeapObject) /\ heap' = heap
  BY Ready DEF LinkInv, TypeOK
<1>2. PICK x : code' = Append(code, x) /\ x.mod = job.mod
  <2> DEFINE x == [mod |-> job.mod, imp |-> job.imp, imports |-> Targets(job.imp),
               maps |-> [globals |-> GlobalMap(job.mod, job.imp), mems |-> MemMap(job.mod, job.imp),
                         tables |-> TableMap(job.mod, job.imp), tags |-> TagMap(job.mod, job.imp),
                         elems |-> Fresh(Len(elemVals), Len(job.mod.elems)),
                         data |-> Fresh(Len(dataDropped), Len(job.mod.data))]]
  <2>1. code' = Append(code, x)
    BY DEF Commit
  <2>2. x.mod = job.mod
    OBVIOUS
  <2> QED BY <2>1, <2>2
<1> QED BY <1>1, <1>2 DEF StoreExtends, Instances

\* A reference that named the instance to come is live when it has come.
LEMMA BecomesLive ==
  ASSUME LinkInv, Commit, NEW v \in Ref, LiveSoon(v)
  PROVE  Live(v)'
<1>1. Len(code') \in Nat /\ Len(heap') \in Nat /\ Len(code) \in Nat
  BY CommitExtends, Ready
<1>2. CASE Live(v)
  BY <1>1, <1>2, CommitExtends, Extends
<1>3. CASE v[1] = Len(code) + 1 /\ v[2] \in 1..NumFuncs(job.mod)
  BY <1>1, <1>3, CommitExtends DEF Live, IsFunc, Instances
<1> QED BY <1>2, <1>3 DEF LiveSoon

\* Slots for the imports, then fresh ones for the definitions.
LEMMA MapExtends ==
  ASSUME NEW n \in Nat, NEW k \in Nat, NEW base \in Nat, NEW top \in Nat, base + k <= top,
         NEW f \in [1..n -> 1..top]
  PROVE  /\ f \o Fresh(base, k) \in Slots
         /\ Len(f \o Fresh(base, k)) = n + k
         /\ \A j \in DOMAIN (f \o Fresh(base, k)) : (f \o Fresh(base, k))[j] <= top
<1>1. Fresh(base, k) \in [1..k -> 1..top]
  BY DEF Fresh
<1>2. f \in Seq(1..top) /\ Len(f) = n
  BY FunctionIsSeq
<1>3. Fresh(base, k) \in Seq(1..top) /\ Len(Fresh(base, k)) = k
  BY <1>1, FunctionIsSeq
<1>4. f \o Fresh(base, k) \in Seq(1..top) /\ Len(f \o Fresh(base, k)) = n + k
  BY <1>2, <1>3, ConcatProperties
<1>5. 1..top \subseteq Nat \ {0}
  OBVIOUS
<1>6. f \o Fresh(base, k) \in Slots
  BY <1>4, <1>5, SeqMonotonic DEF Slots
<1>7. \A j \in DOMAIN (f \o Fresh(base, k)) : (f \o Fresh(base, k))[j] \in 1..top
  BY <1>4, ElementOfSeq, LenProperties
<1> QED BY <1>4, <1>6, <1>7

\* A store that names an instance gives its number.
LEMMA SlotIsInstance ==
  ASSUME NEW b, SlotOf(b) # Host
  PROVE  SlotOf(b) \in Instances
BY DEF SlotOf, Instances

\* When the imports lead into the pool as it was, the whole map leads into the
\* pool with the definitions added.
LEMMA MapFits ==
  ASSUME NEW n \in Nat, NEW k \in Nat, NEW base \in Nat, NEW f \in [1..n -> 1..base]
  PROVE  /\ f \o Fresh(base, k) \in Slots
         /\ Len(f \o Fresh(base, k)) = n + k
         /\ \A j \in DOMAIN (f \o Fresh(base, k)) : (f \o Fresh(base, k))[j] <= base + k
<1>1. base + k \in Nat /\ base + k <= base + k /\ 1..base \subseteq 1..(base + k)
  OBVIOUS
<1>2. f \in [1..n -> 1..(base + k)]
  BY <1>1
<1> QED BY <1>1, <1>2, MapExtends

\* Adding to a pool keeps its elements where they were.
LEMMA PoolGrows ==
  ASSUME NEW T, NEW pool \in Seq(T), NEW k \in Nat, NEW new \in [1..k -> T]
  PROVE  /\ pool \o new \in Seq(T) /\ Len(pool \o new) = Len(pool) + k
         /\ \A j \in DOMAIN (pool \o new) :
              \/ j \in DOMAIN pool /\ (pool \o new)[j] = pool[j]
              \/ \E i \in 1..k : (pool \o new)[j] = new[i]
<1>2. new \in Seq(T) /\ Len(new) = k
  BY FunctionIsSeq
<1>3. /\ pool \o new \in Seq(T) /\ Len(pool \o new) = Len(pool) + Len(new)
      /\ \A j \in 1..(Len(pool) + Len(new)) :
           (pool \o new)[j] = IF j <= Len(pool) THEN pool[j] ELSE new[j - Len(pool)]
  BY <1>2, ConcatProperties
<1>4. Len(pool) \in Nat /\ DOMAIN pool = 1..Len(pool)
      /\ DOMAIN (pool \o new) = 1..(Len(pool) + k)
  BY <1>2, <1>3, LenProperties
<1>5. ASSUME NEW j \in DOMAIN (pool \o new)
      PROVE  \/ j \in DOMAIN pool /\ (pool \o new)[j] = pool[j]
             \/ \E i \in 1..k : (pool \o new)[j] = new[i]
  <2>1. CASE j <= Len(pool)
    BY <1>2, <1>3, <1>4, <2>1
  <2>2. CASE ~(j <= Len(pool))
    <3>1. \A a, b \in Nat : \A x \in 1..(a + b) : ~(x <= a) => x - a \in 1..b
      OBVIOUS
    <3>2. j - Len(pool) \in 1..k
      BY <1>4, <2>2, <3>1
    <3>3. (pool \o new)[j] = new[j - Len(pool)]
      BY <1>2, <1>3, <1>4, <2>2
    <3> QED BY <3>2, <3>3
  <2> QED BY <2>1, <2>2
<1> QED BY <1>2, <1>3, <1>5

\* The declarations of a valid module, and the pools.
LEMMA Lengths ==
  ASSUME LinkInv, Commit
  PROVE  /\ Len(job.mod.impMems) \in Nat /\ Len(job.mod.mems) \in Nat /\ Len(mems) \in Nat
         /\ Len(job.mod.impTables) \in Nat /\ Len(job.mod.tables) \in Nat /\ Len(tables) \in Nat
         /\ Len(job.mod.impTags) \in Nat /\ Len(job.mod.tags) \in Nat /\ Len(tags) \in Nat
         /\ Len(job.mod.impGlobals) \in Nat /\ Len(job.mod.globals) \in Nat
         /\ Len(globals) \in Nat /\ Len(job.mod.elems) \in Nat /\ Len(job.mod.data) \in Nat
         /\ Len(elemVals) \in Nat /\ Len(dataDropped) \in Nat /\ Len(elemDropped) \in Nat
<1> DEFINE m == job.mod
<1>1. ModuleShape(m) /\ PoolShapes
  BY Ready DEF LinkInv, TypeOK
<1> HIDE DEF m
<1>2. /\ Len(m.impMems) \in Nat /\ Len(m.mems) \in Nat
      /\ Len(m.impTables) \in Nat /\ Len(m.tables) \in Nat
      /\ Len(m.impTags) \in Nat /\ Len(m.tags) \in Nat
  BY <1>1, SMTT(60) DEF ModuleShape
<1>3. /\ Len(m.impGlobals) \in Nat /\ Len(m.globals) \in Nat
      /\ Len(m.elems) \in Nat /\ Len(m.data) \in Nat
  BY <1>1, SMTT(60) DEF ModuleShape
<1>4. /\ Len(mems) \in Nat /\ Len(tables) \in Nat /\ Len(tags) \in Nat /\ Len(globals) \in Nat
      /\ Len(elemVals) \in Nat /\ Len(dataDropped) \in Nat /\ Len(elemDropped) \in Nat
  BY <1>1 DEF PoolShapes
<1> QED BY <1>2, <1>3, <1>4 DEF m

\* An imported memory takes the slot the exporter's map has for it.
LEMMA MemMapLeads ==
  ASSUME LinkInv, Commit, NEW map, map = MemMap(job.mod, job.imp)
  PROVE  map \in Slots /\ Len(map) = NumMems(job.mod)
         /\ \A j \in DOMAIN map : map[j] <= Len(mems) + Len(job.mod.mems)
<1> DEFINE m == job.mod
           imp == job.imp
           f == [k \in 1..Len(m.impMems) |-> code[SlotOf(imp.mems[k])].maps.mems[imp.mems[k].idx]]
<1>1. ASSUME NEW k \in 1..Len(m.impMems) PROVE f[k] \in 1..Len(mems)
  <2> DEFINE b == imp.mems[k]
             s == SlotOf(b)
  <2>1. imp.mems \in Seq(Backing) /\ Len(imp.mems) = Len(m.impMems)
    BY Ready DEF Imports, Links
  <2>2. k \in DOMAIN imp.mems
    BY <2>1
  <2>3. s # Host /\ b.idx \in 1..NumMems(code[s].mod)
    BY <2>2, Ready DEF Linked, Links, InSpace
  <2>4. s \in Instances
    BY <2>3, SlotIsInstance
  <2>5. code[s].maps.mems \in Seq(Nat \ {0}) /\ Len(code[s].maps.mems) = NumMems(code[s].mod)
    BY <2>4, MapsLead, MapsAreSlots
  <2>6. code[s].maps.mems[b.idx] \in DOMAIN mems
    BY <2>3, <2>4, <2>5, MapsLead
  <2>7. mems \in Seq(Memory)
    BY DEF LinkInv, TypeOK, PoolShapes
  <2>8. f[k] = code[s].maps.mems[b.idx]
    OBVIOUS
  <2> HIDE DEF f, b, s
  <2> QED BY <2>6, <2>7, <2>8, LenProperties
<1>2. map = f \o Fresh(Len(mems), Len(m.mems))
  BY DEF MemMap
<1> HIDE DEF f
<1>3. f = [k \in 1..Len(m.impMems) |-> f[k]]
  BY DEF f
<1>4. Len(m.impMems) \in Nat /\ Len(m.mems) \in Nat /\ Len(mems) \in Nat
  BY Lengths
<1> HIDE DEF m
<1>5. PICK n \in Nat, k \in Nat, base \in Nat :
        n = Len(m.impMems) /\ k = Len(m.mems) /\ base = Len(mems)
  BY <1>4
<1>6. f \in [1..n -> 1..base]
  BY <1>1, <1>3, <1>5
<1>7. map = f \o Fresh(base, k)
  BY <1>2, <1>5
<1>8. /\ map \in Slots /\ Len(map) = n + k
      /\ \A j \in DOMAIN map : map[j] <= base + k
  BY <1>6, <1>7, MapFits
<1> QED BY <1>5, <1>8 DEF NumMems, m

\* So does an imported table.
LEMMA TableMapLeads ==
  ASSUME LinkInv, Commit, NEW map, map = TableMap(job.mod, job.imp)
  PROVE  map \in Slots /\ Len(map) = NumTables(job.mod)
         /\ \A j \in DOMAIN map : map[j] <= Len(tables) + Len(job.mod.tables)
<1> DEFINE m == job.mod
           imp == job.imp
           f == [k \in 1..Len(m.impTables) |->
                   code[SlotOf(imp.tables[k])].maps.tables[imp.tables[k].idx]]
<1>1. ASSUME NEW k \in 1..Len(m.impTables) PROVE f[k] \in 1..Len(tables)
  <2> DEFINE b == imp.tables[k]
             s == SlotOf(b)
  <2>1. imp.tables \in Seq(Backing) /\ Len(imp.tables) = Len(m.impTables)
    BY Ready DEF Imports, Links
  <2>2. k \in DOMAIN imp.tables
    BY <2>1
  <2>3. s # Host /\ b.idx \in 1..NumTables(code[s].mod)
    BY <2>2, Ready DEF Linked, Links, InSpace
  <2>4. s \in Instances
    BY <2>3, SlotIsInstance
  <2>5. code[s].maps.tables \in Seq(Nat \ {0}) /\ Len(code[s].maps.tables) = NumTables(code[s].mod)
    BY <2>4, MapsLead, MapsAreSlots
  <2>6. code[s].maps.tables[b.idx] \in DOMAIN tables
    BY <2>3, <2>4, <2>5, MapsLead
  <2>7. tables \in Seq(Table)
    BY DEF LinkInv, TypeOK, PoolShapes
  <2>8. f[k] = code[s].maps.tables[b.idx]
    OBVIOUS
  <2> HIDE DEF f, b, s
  <2> QED BY <2>6, <2>7, <2>8, LenProperties
<1>2. map = f \o Fresh(Len(tables), Len(m.tables))
  BY DEF TableMap
<1> HIDE DEF f
<1>3. f = [k \in 1..Len(m.impTables) |-> f[k]]
  BY DEF f
<1>4. Len(m.impTables) \in Nat /\ Len(m.tables) \in Nat /\ Len(tables) \in Nat
  BY Lengths
<1> HIDE DEF m
<1>5. PICK n \in Nat, k \in Nat, base \in Nat :
        n = Len(m.impTables) /\ k = Len(m.tables) /\ base = Len(tables)
  BY <1>4
<1>6. f \in [1..n -> 1..base]
  BY <1>1, <1>3, <1>5
<1>7. map = f \o Fresh(base, k)
  BY <1>2, <1>5
<1>8. /\ map \in Slots /\ Len(map) = n + k
      /\ \A j \in DOMAIN map : map[j] <= base + k
  BY <1>6, <1>7, MapFits
<1> QED BY <1>5, <1>8 DEF NumTables, m

\* And an imported tag.
LEMMA TagMapLeads ==
  ASSUME LinkInv, Commit, NEW map, map = TagMap(job.mod, job.imp)
  PROVE  map \in Slots /\ Len(map) = NumTags(job.mod)
         /\ \A j \in DOMAIN map : map[j] <= Len(tags) + Len(job.mod.tags)
<1> DEFINE m == job.mod
           imp == job.imp
           f == [k \in 1..Len(m.impTags) |-> code[SlotOf(imp.tags[k])].maps.tags[imp.tags[k].idx]]
<1>1. ASSUME NEW k \in 1..Len(m.impTags) PROVE f[k] \in 1..Len(tags)
  <2> DEFINE b == imp.tags[k]
             s == SlotOf(b)
  <2>1. imp.tags \in Seq(Backing) /\ Len(imp.tags) = Len(m.impTags)
    BY Ready DEF Imports, Links
  <2>2. k \in DOMAIN imp.tags
    BY <2>1
  <2>3. s # Host /\ b.idx \in 1..NumTags(code[s].mod)
    BY <2>2, Ready DEF Linked, Links, InSpace
  <2>4. s \in Instances
    BY <2>3, SlotIsInstance
  <2>5. code[s].maps.tags \in Seq(Nat \ {0}) /\ Len(code[s].maps.tags) = NumTags(code[s].mod)
    BY <2>4, MapsLead, MapsAreSlots
  <2>6. code[s].maps.tags[b.idx] \in DOMAIN tags
    BY <2>3, <2>4, <2>5, MapsLead
  <2>7. tags \in Seq(Nat)
    BY DEF LinkInv, TypeOK, PoolShapes
  <2>8. f[k] = code[s].maps.tags[b.idx]
    OBVIOUS
  <2> HIDE DEF f, b, s
  <2> QED BY <2>6, <2>7, <2>8, LenProperties
<1>2. map = f \o Fresh(Len(tags), Len(m.tags))
  BY DEF TagMap
<1> HIDE DEF f
<1>3. f = [k \in 1..Len(m.impTags) |-> f[k]]
  BY DEF f
<1>4. Len(m.impTags) \in Nat /\ Len(m.tags) \in Nat /\ Len(tags) \in Nat
  BY Lengths
<1> HIDE DEF m
<1>5. PICK n \in Nat, k \in Nat, base \in Nat :
        n = Len(m.impTags) /\ k = Len(m.tags) /\ base = Len(tags)
  BY <1>4
<1>6. f \in [1..n -> 1..base]
  BY <1>1, <1>3, <1>5
<1>7. map = f \o Fresh(base, k)
  BY <1>2, <1>5
<1>8. /\ map \in Slots /\ Len(map) = n + k
      /\ \A j \in DOMAIN map : map[j] <= base + k
  BY <1>6, <1>7, MapFits
<1> QED BY <1>5, <1>8 DEF NumTags, m

\* The host-supplied globals among the first g, counted.
LEMMA HostCount ==
  ASSUME NEW imp, NEW n \in Nat, NEW g \in 1..n
  PROVE  /\ Cardinality(FromHost(imp, n)) \in Nat
         /\ Cardinality(FromHost(imp, g)) \in Nat
         /\ Cardinality(FromHost(imp, g)) <= Cardinality(FromHost(imp, n))
         /\ imp.globals[g].store = Host => Cardinality(FromHost(imp, g)) >= 1
<1>1. IsFiniteSet(1..n)
  BY FS_Interval
<1>2. FromHost(imp, n) \in SUBSET (1..n) /\ FromHost(imp, g) \in SUBSET FromHost(imp, n)
  BY DEF FromHost
<1>3. IsFiniteSet(FromHost(imp, n))
  BY <1>1, <1>2, FS_Subset
<1>4. IsFiniteSet(FromHost(imp, g))
      /\ Cardinality(FromHost(imp, g)) <= Cardinality(FromHost(imp, n))
  BY <1>2, <1>3, FS_Subset
<1>5. Cardinality(FromHost(imp, n)) \in Nat /\ Cardinality(FromHost(imp, g)) \in Nat
  BY <1>3, <1>4, FS_CardinalityType
<1>6. ASSUME imp.globals[g].store = Host PROVE Cardinality(FromHost(imp, g)) >= 1
  <2>1. g \in FromHost(imp, g)
    BY <1>6 DEF FromHost
  <2>2. Cardinality(FromHost(imp, g)) # 0
    BY <1>4, <2>1, FS_EmptySet
  <2> QED BY <1>5, <2>2
<1> QED BY <1>4, <1>5, <1>6

\* The number of host-supplied globals of the instance being committed.
HostShare == Cardinality(FromHost(job.imp, Len(job.mod.impGlobals)))

\* It is a number, also when nothing is imported.
LEMMA HostShareIsNumber ==
  ASSUME LinkInv, Commit
  PROVE  HostShare \in Nat
<1>1. Len(job.mod.impGlobals) \in Nat
  BY Lengths
<1>2. IsFiniteSet(1..Len(job.mod.impGlobals))
  BY <1>1, FS_Interval
<1>3. FromHost(job.imp, Len(job.mod.impGlobals)) \in SUBSET (1..Len(job.mod.impGlobals))
  BY DEF FromHost
<1> QED BY <1>2, <1>3, FS_Subset, FS_CardinalityType DEF HostShare

\* An imported global takes the exporter's slot, a defined one the next, and a
\* host-supplied one a slot after those.
LEMMA GlobalMapLeads ==
  ASSUME LinkInv, Commit, NEW map, map = GlobalMap(job.mod, job.imp)
  PROVE  map \in Slots /\ Len(map) = NumGlobals(job.mod)
         /\ \A j \in DOMAIN map : map[j] <= Len(globals) + Len(job.mod.globals) + HostShare
<1> DEFINE m == job.mod
           imp == job.imp
           f == [g \in 1..Len(m.impGlobals) |->
                   IF imp.globals[g].store = Host
                   THEN Len(globals) + Len(m.globals) + Cardinality(FromHost(imp, g))
                   ELSE code[SlotOf(imp.globals[g])].maps.globals[imp.globals[g].idx]]
<1>1. PICK n \in Nat, k \in Nat, base \in Nat, h \in Nat :
        n = Len(m.impGlobals) /\ k = Len(m.globals) /\ base = Len(globals) /\ h = HostShare
  BY Lengths, HostShareIsNumber
<1>2. PICK top \in Nat : top = base + k + h
  OBVIOUS
<1>3. ASSUME NEW g \in 1..n PROVE f[g] \in 1..top
  <2> DEFINE b == imp.globals[g]
             s == SlotOf(b)
  <2>1. CASE b.store = Host
    <3>1. PICK c \in Nat : c = Cardinality(FromHost(imp, g))
      BY <1>1, HostCount
    <3>2. c >= 1 /\ c <= h
      <4> HIDE DEF m
      <4> QED BY <1>1, <2>1, <3>1, HostCount DEF HostShare, m
    <3>3. f[g] = base + k + c
      BY <1>1, <2>1, <3>1
    <3> HIDE DEF f
    <3> QED BY <1>2, <3>2, <3>3
  <2>2. CASE b.store # Host
    <3>1. g \in DOMAIN imp.globals
      <4>1. imp.globals \in Seq([store : Nat, inst : Nat, idx : Nat, val : Ref])
            /\ Len(imp.globals) = n
        BY <1>1, Ready DEF Imports, Links, GlobalLinks
      <4> QED BY <4>1, LenProperties
    <3>2. b.store = ThisStore /\ b.inst \in Instances /\ b.idx \in 1..NumGlobals(code[b.inst].mod)
      BY <2>2, <3>1, Ready DEF Links, GlobalLinks
    <3>3. s = b.inst /\ s \in Instances
      BY <3>2 DEF SlotOf, Instances
    <3>4. code[s].maps.globals \in Seq(Nat \ {0})
          /\ Len(code[s].maps.globals) = NumGlobals(code[s].mod)
      BY <3>3, MapsLead DEF Instance, IndexMaps, Slots
    <3>5. code[s].maps.globals[b.idx] \in DOMAIN globals
      <4>1. b.idx \in DOMAIN code[s].maps.globals
        <5>1. b.idx \in 1..Len(code[s].maps.globals)
          BY <3>2, <3>3, <3>4
        <5> QED BY <3>4, <5>1, LenProperties
      <4>2. \A g1 \in DOMAIN code[s].maps.globals : code[s].maps.globals[g1] \in DOMAIN globals
        BY <3>3, MapsLead
      <4> QED BY <4>1, <4>2
    <3>6. DOMAIN globals = 1..base
      <4>1. globals \in Seq(Ref)
        BY DEF LinkInv, TypeOK, PoolShapes
      <4> QED BY <1>1, <4>1, LenProperties
    <3>7. f[g] = code[s].maps.globals[b.idx]
      BY <1>1, <2>2
    <3> HIDE DEF f, s, b
    <3> QED BY <1>2, <3>5, <3>6, <3>7
  <2> QED BY <2>1, <2>2
<1>4. f \in [1..n -> 1..top]
  BY <1>1, <1>3
<1>5. map = f \o Fresh(base, k)
  BY <1>1 DEF GlobalMap
<1> HIDE DEF f
<1>6. base + k <= top
  BY <1>2
<1>7. /\ map \in Slots /\ Len(map) = n + k
      /\ \A j \in DOMAIN map : map[j] <= top
  <2> PICK g : g = f
    OBVIOUS
  <2>1. g \in [1..n -> 1..top] /\ map = g \o Fresh(base, k)
    BY <1>4, <1>5
  <2>2. /\ g \o Fresh(base, k) \in Slots /\ Len(g \o Fresh(base, k)) = n + k
        /\ \A j \in DOMAIN (g \o Fresh(base, k)) : (g \o Fresh(base, k))[j] <= top
    <3>1. g \in [1..n -> 1..top]
      BY <2>1
    <3> QED BY <1>6, <3>1, MapExtends
  <2> QED BY <2>1, <2>2
<1> QED BY <1>1, <1>2, <1>7 DEF NumGlobals

\* The items of a segment evaluate to references that are live or soon will be,
\* and allocate nothing.
LEMMA ItemsEvaluate ==
  ASSUME LinkInv, Commit, NEW items \in Seq(Expr),
         \A j \in DOMAIN items :
           items[j].op # "new" /\ ValidExpr(job.mod, items[j], NumGlobals(job.mod))
  PROVE  /\ ElemValue(items, job.gvals) \in Seq(Ref)
         /\ \A k \in DOMAIN ElemValue(items, job.gvals) :
              LiveSoon(ElemValue(items, job.gvals)[k])
<1>1. /\ job.gvals \in Seq(Ref) /\ Len(job.gvals) = NumGlobals(job.mod)
      /\ \A g \in DOMAIN job.gvals : LiveSoon(job.gvals[g])
      /\ Self \in 1..MaxInstances /\ Self = Len(code) + 1
  BY Ready, LimitsAreNumbers DEF Self
<1>2. ASSUME NEW j \in DOMAIN items, NEW v, v = EvalValue(items[j], job.gvals)
      PROVE  v \in Ref /\ LiveSoon(v)
  <2>1. PICK e : e = items[j]
    OBVIOUS
  <2>2. e \in Expr /\ e.op # "new" /\ ValidExpr(job.mod, e, NumGlobals(job.mod))
    BY <2>1
  <2>3. e.op \in {"null", "func", "global"} /\ e.arg \in Nat
    BY <2>2 DEF Expr
  <2>4. v = EvalValue(e, job.gvals)
    BY <1>2, <2>1
  <2>5. CASE e.op = "null"
    <3>1. v = Null
      BY <2>4, <2>5 DEF EvalValue
    <3> QED BY <3>1 DEF Null, Ref, LiveSoon, Live
  <2>6. CASE e.op = "func"
    <3>1. v = FuncRef(Self, e.arg) /\ e.arg \in 1..NumFuncs(job.mod)
      BY <2>2, <2>4, <2>6 DEF EvalValue, ValidExpr
    <3>2. v = <<Self, e.arg>> /\ v \in Ref
      BY <1>1, <2>3, <3>1, FuncRefNames
    <3> QED BY <1>1, <3>1, <3>2 DEF LiveSoon
  <2>7. CASE e.op = "global"
    <3>1. v = job.gvals[e.arg] /\ e.arg \in 1..NumGlobals(job.mod)
      BY <2>2, <2>4, <2>7 DEF EvalValue, ValidExpr
    <3>2. e.arg \in DOMAIN job.gvals
      BY <1>1, <3>1, LenProperties
    <3> QED BY <1>1, <3>1, <3>2
  <2> QED BY <2>3, <2>5, <2>6, <2>7
<1>3. PICK n \in Nat : n = Len(items) /\ DOMAIN items = 1..n
  BY LenProperties
<1>4. ElemValue(items, job.gvals) \in [1..n -> Ref]
  BY <1>2, <1>3 DEF ElemValue
<1> QED BY <1>2, <1>3, <1>4, FunctionIsSeq DEF ElemValue

\* The pools after the commit: as long as the maps need, and what they hold
\* is what they held, or live.
LEMMA PoolsCommitted ==
  ASSUME LinkInv, Commit
  PROVE  /\ PoolShapes'
         /\ Len(globals') = Len(globals) + Len(job.mod.globals) + HostShare
         /\ Len(mems') = Len(mems) + Len(job.mod.mems)
         /\ Len(tables') = Len(tables) + Len(job.mod.tables)
         /\ Len(tags') = Len(tags) + Len(job.mod.tags)
         /\ Len(elemVals') = Len(elemVals) + Len(job.mod.elems)
         /\ Len(dataDropped') = Len(dataDropped) + Len(job.mod.data)
         /\ \A S : S = Pooled' => \A v \in S : Live(v)'
<1> DEFINE m == job.mod
           imp == job.imp
<1>1. PoolShapes
  BY DEF LinkInv, TypeOK
<1>2. \A v \in Ref : LiveSoon(v) => Live(v)'
  BY BecomesLive
<1>3. \A v \in Pooled : Live(v)'
  BY CommitExtends, PooledStays, Ready
<1>4. /\ mems' \in Seq(Memory) /\ Len(mems') = Len(mems) + Len(m.mems)
  <2> DEFINE new == [k \in 1..Len(m.mems) |-> NewMem(m.mems[k])]
  <2>1. m.mems \in Seq(MemType) /\ Len(m.mems) \in Nat
    BY Ready, Lengths DEF ModuleShape
  <2>2. \A k \in 1..Len(m.mems) : NewMem(m.mems[k]) \in Memory
    <3>1. \A k \in 1..Len(m.mems) : m.mems[k] \in MemType
      BY <2>1
    <3> QED BY <3>1 DEF NewMem, MemType, Memory
  <2>3. new \in [1..Len(m.mems) -> Memory]
    BY <2>2
  <2>4. mems' = mems \o new
    BY DEF Commit
  <2>5. PICK k, add : k \in Nat /\ k = Len(m.mems) /\ add = new
    BY <2>1
  <2>6. k \in Nat /\ add \in [1..k -> Memory] /\ mems \in Seq(Memory) /\ mems' = mems \o add
    BY <1>1, <2>1, <2>3, <2>4, <2>5 DEF PoolShapes
  <2>7. mems' \in Seq(Memory) /\ Len(mems') = Len(mems) + k
    BY <2>6, PoolGrows, SMTT(60)
  <2> QED BY <2>5, <2>7
<1>5. /\ tags' \in Seq(Nat) /\ Len(tags') = Len(tags) + Len(m.tags)
  <2> DEFINE new == [k \in 1..Len(m.tags) |-> Self]
  <2>1. Self \in Nat /\ Len(m.tags) \in Nat
    BY Ready, Lengths DEF Self
  <2>2. new \in [1..Len(m.tags) -> Nat]
    BY <2>1
  <2>3. tags' = tags \o new
    BY DEF Commit
  <2>5. PICK k, add : k \in Nat /\ k = Len(m.tags) /\ add = new
    BY <2>1
  <2>4. PICK T : T = Nat
    OBVIOUS
  <2>6. k \in Nat /\ add \in [1..k -> T] /\ tags \in Seq(T) /\ tags' = tags \o add
    BY <1>1, <2>1, <2>2, <2>3, <2>4, <2>5 DEF PoolShapes
  <2>7. tags' \in Seq(T) /\ Len(tags') = Len(tags) + k
    BY <2>6, PoolGrows, SMTT(60)
  <2> QED BY <2>4, <2>5, <2>7
<1>6. /\ tables' \in Seq(Table) /\ Len(tables') = Len(tables) + Len(m.tables)
      /\ \A t \in DOMAIN tables' : \A k \in DOMAIN tables'[t].entries :
           \A v : v = tables'[t].entries[k] => Live(v)'
  <2> DEFINE new == job.newTables
  <2>1. new \in Seq(Table) /\ Len(new) = Len(m.tables) /\ Len(m.tables) \in Nat
    BY Ready, Lengths
  <2>2. new \in [1..Len(m.tables) -> Table]
    BY <2>1, LenProperties
  <2>3. tables' = tables \o new
    BY DEF Commit
  <2>4. /\ tables' \in Seq(Table) /\ Len(tables') = Len(tables) + Len(m.tables)
        /\ \A j \in DOMAIN tables' : \/ j \in DOMAIN tables /\ tables'[j] = tables[j]
                                     \/ \E i \in 1..Len(m.tables) : tables'[j] = new[i]
    <3> HIDE DEF new
    <3>1. tables \in Seq(Table)
      BY <1>1 DEF PoolShapes
    <3> QED BY <2>1, <2>2, <2>3, <3>1, PoolGrows, SMTT(60)
  <2>5. ASSUME NEW t \in DOMAIN tables', NEW k \in DOMAIN tables'[t].entries,
               NEW v, v = tables'[t].entries[k]
        PROVE  Live(v)'
    <3>1. CASE t \in DOMAIN tables /\ tables'[t] = tables[t]
      <4>1. v \in Pooled
        BY <2>5, <3>1 DEF Pooled, InTables
      <4> QED BY <1>3, <4>1
    <3>2. CASE \E i \in 1..Len(m.tables) : tables'[t] = new[i]
      <4>1. PICK i \in DOMAIN new : tables'[t] = new[i]
        BY <2>1, <3>2
      <4>2. new[i] \in Table
        BY <2>1
      <4>3. v \in Ref
        BY <2>5, <4>1, <4>2 DEF Table
      <4>4. LiveSoon(v)
        BY <2>5, <4>1, Ready
      <4> QED BY <1>2, <4>3, <4>4
    <3> QED BY <2>4, <3>1, <3>2
  <2> QED BY <2>4, <2>5
<1>7. /\ elemVals' \in Seq(Seq(Ref)) /\ Len(elemVals') = Len(elemVals) + Len(m.elems)
      /\ \A s \in DOMAIN elemVals' : \A k \in DOMAIN elemVals'[s] :
           \A v : v = elemVals'[s][k] => Live(v)'
  <2> DEFINE new == [s \in 1..Len(m.elems) |-> ElemValue(m.elems[s].items, job.gvals)]
  <2>1. /\ m.elems \in Seq(ElemSegment) /\ Len(m.elems) \in Nat /\ ModuleIndices(m)
    BY Ready, Lengths DEF ModuleShape
  <2>2. ASSUME NEW s \in 1..Len(m.elems)
        PROVE  ElemValue(m.elems[s].items, job.gvals) \in Seq(Ref)
               /\ \A k \in DOMAIN ElemValue(m.elems[s].items, job.gvals) :
                    LiveSoon(ElemValue(m.elems[s].items, job.gvals)[k])
    <3> PICK items : items = m.elems[s].items
      OBVIOUS
    <3>1. s \in DOMAIN m.elems /\ m.elems[s] \in ElemSegment
      BY <2>1
    <3>2. items \in Seq(Expr)
      BY <3>1 DEF ElemSegment
    <3>3. \A j \in DOMAIN items : items[j].op # "new" /\ ValidExpr(m, items[j], NumGlobals(m))
      BY <2>1, <3>1 DEF ModuleIndices
    <3>4. /\ ElemValue(items, job.gvals) \in Seq(Ref)
          /\ \A k \in DOMAIN ElemValue(items, job.gvals) :
               LiveSoon(ElemValue(items, job.gvals)[k])
      BY <3>2, <3>3, ItemsEvaluate
    <3> QED BY <3>4
  <2>3. new \in [1..Len(m.elems) -> Seq(Ref)]
    BY <2>2
  <2>4. elemVals' = elemVals \o new
    BY DEF Commit
  <2>5. PICK k, add : k \in Nat /\ k = Len(m.elems) /\ add = new
    BY <2>1
  <2> PICK R : R = Seq(Ref)
    OBVIOUS
  <2>6. k \in Nat /\ add \in [1..k -> R] /\ elemVals \in Seq(R) /\ elemVals' = elemVals \o add
    BY <1>1, <2>3, <2>4, <2>5 DEF PoolShapes
  <2>7. /\ elemVals' \in Seq(R) /\ Len(elemVals') = Len(elemVals) + k
        /\ \A j \in DOMAIN elemVals' : \/ j \in DOMAIN elemVals /\ elemVals'[j] = elemVals[j]
                                       \/ \E i \in 1..k : elemVals'[j] = add[i]
    BY <2>6, PoolGrows, SMTT(60)
  <2>8. ASSUME NEW s \in DOMAIN elemVals', NEW j \in DOMAIN elemVals'[s],
               NEW v, v = elemVals'[s][j]
        PROVE  Live(v)'
    <3>1. CASE s \in DOMAIN elemVals /\ elemVals'[s] = elemVals[s]
      <4>1. v \in Pooled
        BY <2>8, <3>1 DEF Pooled, InSegments
      <4> QED BY <1>3, <4>1
    <3>2. CASE \E i \in 1..k : elemVals'[s] = add[i]
      <4>1. PICK i \in 1..k : elemVals'[s] = add[i]
        BY <3>2
      <4>2. add[i] = ElemValue(m.elems[i].items, job.gvals) /\ i \in 1..Len(m.elems)
        BY <2>5
      <4>3. v \in Ref /\ LiveSoon(v)
        BY <2>2, <2>8, <4>1, <4>2, LenProperties
      <4> QED BY <1>2, <4>3
    <3> QED BY <2>7, <3>1, <3>2
  <2> QED BY <2>5, <2>7, <2>8
<1>8. /\ elemDropped' \in Seq(BOOLEAN) /\ Len(elemDropped') = Len(elemDropped) + Len(m.elems)
  <2> DEFINE new == [s \in 1..Len(m.elems) |-> m.elems[s].mode # "passive"]
  <2>1. Len(m.elems) \in Nat
    BY Lengths
  <2>2. new \in [1..Len(m.elems) -> BOOLEAN]
    BY Zenon
  <2>3. elemDropped' = elemDropped \o new
    BY DEF Commit
  <2>4. PICK k, add : k \in Nat /\ k = Len(m.elems) /\ add = new
    BY <2>1
  <2>5. PICK B : B = BOOLEAN
    OBVIOUS
  <2>6. elemDropped' \in Seq(B) /\ Len(elemDropped') = Len(elemDropped) + k
    <3>1. k \in Nat /\ add \in [1..k -> B] /\ elemDropped \in Seq(B) /\ elemDropped' = elemDropped \o add
      BY <1>1, <2>2, <2>3, <2>4, <2>5 DEF PoolShapes
    <3> QED BY <3>1, PoolGrows, SMTT(60)
  <2> QED BY <2>4, <2>5, <2>6
<1>9. /\ dataDropped' \in Seq(BOOLEAN) /\ Len(dataDropped') = Len(dataDropped) + Len(m.data)
  <2> DEFINE new == [s \in 1..Len(m.data) |-> m.data[s].active]
  <2>1. Len(m.data) \in Nat /\ m.data \in Seq(DataSegment)
    BY Lengths, Ready DEF ModuleShape
  <2>2. \A s \in 1..Len(m.data) : m.data[s].active \in BOOLEAN
    <3>1. \A s \in 1..Len(m.data) : m.data[s] \in DataSegment
      BY <2>1
    <3>2. \A d \in DataSegment : d.active \in BOOLEAN
      BY Zenon DEF DataSegment
    <3> QED BY <3>1, <3>2, Zenon
  <2>3. new \in [1..Len(m.data) -> BOOLEAN]
    BY <2>2, Zenon
  <2>4. dataDropped' = dataDropped \o new
    BY DEF Commit
  <2>5. PICK k, add : k \in Nat /\ k = Len(m.data) /\ add = new
    BY <2>1
  <2>6. PICK B : B = BOOLEAN
    OBVIOUS
  <2>7. dataDropped' \in Seq(B) /\ Len(dataDropped') = Len(dataDropped) + k
    <3>1. k \in Nat /\ add \in [1..k -> B] /\ dataDropped \in Seq(B) /\ dataDropped' = dataDropped \o add
      BY <1>1, <2>3, <2>4, <2>5, <2>6 DEF PoolShapes
    <3> QED BY <3>1, PoolGrows, SMTT(60)
  <2> QED BY <2>5, <2>6, <2>7
<1>10. /\ globals' \in Seq(Ref) /\ Len(globals') = Len(globals) + Len(m.globals) + HostShare
       /\ \A g \in DOMAIN globals' : \A v : v = globals'[g] => Live(v)'
  <2>1. PICK k, h, def, host :
          /\ k \in Nat /\ h \in Nat
          /\ k = Len(m.globals) /\ h = HostShare
          /\ def = [g \in 1..k |-> job.gvals[Len(m.impGlobals) + g]]
          /\ host = [r \in 1..h |-> Null]
    BY Lengths, HostShareIsNumber
  <2>2. /\ job.gvals \in Seq(Ref) /\ Len(job.gvals) = Len(m.impGlobals) + k
        /\ k \in Nat /\ Len(m.impGlobals) \in Nat
        /\ \A g \in DOMAIN job.gvals : LiveSoon(job.gvals[g])
    BY <2>1, Ready, Lengths DEF NumGlobals
  <2>3. \A a, b \in Nat : \A x \in 1..b : a + x \in 1..(a + b)
    OBVIOUS
  <2>4. \A g \in 1..k : Len(m.impGlobals) + g \in DOMAIN job.gvals
    BY <2>2, <2>3, LenProperties
  <2>5. \A g \in 1..k : def[g] \in Ref /\ LiveSoon(def[g])
    BY <2>1, <2>2, <2>4
  <2>6. \A r \in 1..h : host[r] \in Ref /\ LiveSoon(host[r])
    BY <2>1 DEF Null, Ref, LiveSoon, Live
  <2>7. k \in Nat /\ h \in Nat /\ def \in [1..k -> Ref] /\ host \in [1..h -> Ref]
    BY <2>1, <2>5, <2>6
  <2>8. globals' = (globals \o def) \o host
    BY <2>1 DEF Commit, DefinedGlobals, HostGlobals, HostShare
  <2>9. PICK old, mid : old = globals /\ mid = old \o def /\ old \in Seq(Ref)
    BY <1>1 DEF PoolShapes
  <2>10. /\ mid \in Seq(Ref) /\ Len(mid) = Len(globals) + k
         /\ \A j \in DOMAIN mid : \/ j \in DOMAIN globals /\ mid[j] = globals[j]
                                  \/ \E i \in 1..k : mid[j] = def[i]
    <3>1. k \in Nat /\ def \in [1..k -> Ref] /\ old \in Seq(Ref)
      BY <2>7, <2>9
    <3>2. /\ old \o def \in Seq(Ref) /\ Len(old \o def) = Len(old) + k
          /\ \A j \in DOMAIN (old \o def) : \/ j \in DOMAIN old /\ (old \o def)[j] = old[j]
                                           \/ \E i \in 1..k : (old \o def)[j] = def[i]
      BY <3>1, PoolGrows, SMTT(60)
    <3> QED BY <2>9, <3>2
  <2>11. /\ globals' \in Seq(Ref) /\ Len(globals') = Len(mid) + h
         /\ \A j \in DOMAIN globals' : \/ j \in DOMAIN mid /\ globals'[j] = mid[j]
                                       \/ \E i \in 1..h : globals'[j] = host[i]
    <3>1. mid \in Seq(Ref) /\ h \in Nat /\ host \in [1..h -> Ref]
      BY <2>7, <2>10
    <3>2. /\ mid \o host \in Seq(Ref) /\ Len(mid \o host) = Len(mid) + h
          /\ \A j \in DOMAIN (mid \o host) : \/ j \in DOMAIN mid /\ (mid \o host)[j] = mid[j]
                                            \/ \E i \in 1..h : (mid \o host)[j] = host[i]
      BY <3>1, PoolGrows, SMTT(60)
    <3> QED BY <2>8, <2>9, <3>2
  <2>12. ASSUME NEW g \in DOMAIN globals', NEW v, v = globals'[g] PROVE Live(v)'
    <3>1. CASE g \in DOMAIN mid /\ globals'[g] = mid[g]
      <4>1. CASE g \in DOMAIN globals /\ mid[g] = globals[g]
        <5>1. v \in Pooled
          BY <2>12, <3>1, <4>1 DEF Pooled, InGlobals
        <5> QED BY <1>3, <5>1
      <4>2. CASE \E i \in 1..k : mid[g] = def[i]
        BY <1>2, <2>5, <2>12, <3>1, <4>2
      <4> QED BY <2>10, <3>1, <4>1, <4>2
    <3>2. CASE \E i \in 1..h : globals'[g] = host[i]
      BY <1>2, <2>6, <2>12, <3>2
    <3> QED BY <2>11, <3>1, <3>2
  <2> QED BY <2>1, <2>10, <2>11, <2>12
<1>11. PoolShapes'
  <2>1. Len(elemDropped') = Len(elemVals')
    BY <1>1, <1>7, <1>8 DEF PoolShapes
  <2> QED BY <1>4, <1>5, <1>6, <1>7, <1>8, <1>9, <1>10, <2>1 DEF PoolShapes
<1>12. ASSUME NEW S, S = Pooled', NEW v \in S PROVE Live(v)'
  <2>1. CASE v \in InTables'
    BY <1>6, <2>1 DEF InTables
  <2>2. CASE v \in InGlobals'
    BY <1>10, <2>2 DEF InGlobals
  <2>3. CASE v \in InSegments'
    BY <1>7, <2>3 DEF InSegments
  <2> QED BY <1>12, <2>1, <2>2, <2>3 DEF Pooled
<1> QED BY <1>4, <1>5, <1>6, <1>7, <1>9, <1>10, <1>11, <1>12

\* Segments take fresh slots.
LEMMA SegmentMapsLead ==
  ASSUME NEW k \in Nat, NEW base \in Nat
  PROVE  /\ Fresh(base, k) \in Slots /\ Len(Fresh(base, k)) = k
         /\ \A j \in DOMAIN Fresh(base, k) : Fresh(base, k)[j] <= base + k
<1>1. Fresh(base, k) \in [1..k -> Nat \ {0}] /\ \A j \in 1..k : Fresh(base, k)[j] <= base + k
  BY DEF Fresh
<1> QED BY <1>1, FunctionIsSeq DEF Slots

\* The targets of function imports are pairs of numbers.
LEMMA TargetsAreSlots ==
  ASSUME LinkInv, Commit
  PROVE  Targets(job.imp) \in Seq(Nat \X Nat)
<1>1. job.imp.funcs \in Seq(Backing)
  BY Ready DEF Imports
<1>2. PICK n \in Nat : n = Len(job.imp.funcs) /\ DOMAIN job.imp.funcs = 1..n
  BY <1>1, LenProperties
<1>3. ASSUME NEW f \in 1..n PROVE Targets(job.imp)[f] \in Nat \X Nat
  <2>1. PICK b : b = job.imp.funcs[f]
    OBVIOUS
  <2>2. b \in Backing
    BY <1>1, <1>2, <2>1
  <2>3. SlotOf(b) \in Nat /\ b.idx \in Nat
    BY <2>2, Ready DEF SlotOf, Backing, Host
  <2>4. Targets(job.imp)[f] = IF b.store = Host THEN <<Host, 0>> ELSE <<SlotOf(b), b.idx>>
    BY <1>2, <2>1 DEF Targets
  <2> QED BY <2>3, <2>4 DEF Host
<1>4. Targets(job.imp) \in [1..n -> Nat \X Nat]
  BY <1>2, <1>3 DEF Targets
<1> QED BY <1>4, FunctionIsSeq

\* The instance joins the store in order (instantiate, the push to instances).
LEMMA CommitStep ==
  ASSUME LinkInv, Commit
  PROVE  LinkInv'
<1>1. PICK maps : maps = [globals |-> GlobalMap(job.mod, job.imp), mems |-> MemMap(job.mod, job.imp),
                          tables |-> TableMap(job.mod, job.imp), tags |-> TagMap(job.mod, job.imp),
                          elems |-> Fresh(Len(elemVals), Len(job.mod.elems)),
                          data |-> Fresh(Len(dataDropped), Len(job.mod.data))]
  OBVIOUS
<1>2. PICK x : x = [mod |-> job.mod, imp |-> job.imp, imports |-> Targets(job.imp), maps |-> maps]
  OBVIOUS
<1>3. code' = Append(code, x) /\ job' = [job EXCEPT !.phase = "elems", !.next = 1]
  BY <1>1, <1>2 DEF Commit
<1>4. /\ maps.globals \in Slots /\ Len(maps.globals) = NumGlobals(job.mod)
      /\ \A j \in DOMAIN maps.globals : maps.globals[j] <= Len(globals')
  BY <1>1, GlobalMapLeads, PoolsCommitted
<1>5. /\ maps.mems \in Slots /\ Len(maps.mems) = NumMems(job.mod)
      /\ \A j \in DOMAIN maps.mems : maps.mems[j] <= Len(mems')
  BY <1>1, MemMapLeads, PoolsCommitted
<1>6. /\ maps.tables \in Slots /\ Len(maps.tables) = NumTables(job.mod)
      /\ \A j \in DOMAIN maps.tables : maps.tables[j] <= Len(tables')
  BY <1>1, TableMapLeads, PoolsCommitted
<1>7. /\ maps.tags \in Slots /\ Len(maps.tags) = NumTags(job.mod)
      /\ \A j \in DOMAIN maps.tags : maps.tags[j] <= Len(tags')
  BY <1>1, TagMapLeads, PoolsCommitted
<1>8. /\ maps.elems \in Slots /\ Len(maps.elems) = Len(job.mod.elems)
      /\ \A j \in DOMAIN maps.elems : maps.elems[j] <= Len(elemVals')
  <2>1. PICK k \in Nat, base \in Nat : k = Len(job.mod.elems) /\ base = Len(elemVals)
    BY Lengths
  <2>2. /\ Fresh(base, k) \in Slots /\ Len(Fresh(base, k)) = k
        /\ \A j \in DOMAIN Fresh(base, k) : Fresh(base, k)[j] <= base + k
    BY SegmentMapsLead
  <2>3. maps.elems = Fresh(base, k) /\ Len(elemVals') = base + k
    BY <1>1, <2>1, PoolsCommitted
  <2> QED BY <2>1, <2>2, <2>3
<1>9. /\ maps.data \in Slots /\ Len(maps.data) = Len(job.mod.data)
      /\ \A j \in DOMAIN maps.data : maps.data[j] <= Len(dataDropped')
  <2>1. PICK k \in Nat, base \in Nat : k = Len(job.mod.data) /\ base = Len(dataDropped)
    BY Lengths
  <2>2. /\ Fresh(base, k) \in Slots /\ Len(Fresh(base, k)) = k
        /\ \A j \in DOMAIN Fresh(base, k) : Fresh(base, k)[j] <= base + k
    BY SegmentMapsLead
  <2>3. maps.data = Fresh(base, k) /\ Len(dataDropped') = base + k
    BY <1>1, <2>1, PoolsCommitted
  <2> QED BY <2>1, <2>2, <2>3
<1>10. maps \in IndexMaps
  BY <1>1, <1>4, <1>5, <1>6, <1>7, <1>8, <1>9 DEF IndexMaps
<1>11. x \in Instance
  BY <1>2, <1>10, TargetsAreSlots, Ready DEF Instance
<1>12. /\ code \in Seq(Instance) /\ code' \in Seq(Instance) /\ Len(code) \in Nat
       /\ Len(code') = Len(code) + 1 /\ code'[Len(code) + 1] = x
       /\ \A i \in Instances : code'[i] = code[i]
  <2>1. code \in Seq(Instance)
    BY DEF LinkInv, TypeOK
  <2> QED BY <1>3, <1>11, <2>1 DEF Instances
<1>13. ASSUME NEW i \in Instances' PROVE MapsAreTotal(i)'
  <2>1. CASE i = Len(code) + 1
    <3>1. code'[i].mod = job.mod /\ code'[i].maps = maps
      BY <1>2, <1>12, <2>1
    <3> QED BY <1>4, <1>5, <1>6, <1>7, <1>8, <1>9, <3>1 DEF MapsAreTotal, MapInto
  <2>2. CASE i \in Instances
    <3>1. code'[i] = code[i] /\ MapsAreTotal(i) /\ code[i] \in Instance
      BY <1>12, <2>2 DEF LinkInv, TypeOK, Instances
    <3>2. code[i].maps \in IndexMaps
      BY <3>1 DEF Instance
    <3>3. /\ Len(globals) <= Len(globals') /\ Len(mems) <= Len(mems') /\ Len(tables) <= Len(tables')
          /\ Len(tags) <= Len(tags') /\ Len(elemVals) <= Len(elemVals')
          /\ Len(dataDropped) <= Len(dataDropped')
      <4>1. /\ \A a, b \in Nat : a <= a + b
            /\ \A a, b, c \in Nat : a <= a + b + c
        OBVIOUS
      <4>2. Len(globals) <= Len(globals')
        BY <4>1, PoolsCommitted, Lengths, HostShareIsNumber
      <4>3. Len(mems) <= Len(mems') /\ Len(tables) <= Len(tables')
        BY <4>1, PoolsCommitted, Lengths
      <4>4. Len(tags) <= Len(tags') /\ Len(elemVals) <= Len(elemVals')
        BY <4>1, PoolsCommitted, Lengths
      <4>5. Len(dataDropped) <= Len(dataDropped')
        BY <4>1, PoolsCommitted, Lengths
      <4> QED BY <4>2, <4>3, <4>4, <4>5
    <3>4. PICK mp : mp = code[i].maps
      OBVIOUS
    <3>5. /\ mp.globals \in Slots /\ mp.mems \in Slots /\ mp.tables \in Slots
          /\ mp.tags \in Slots /\ mp.elems \in Slots /\ mp.data \in Slots
      BY <3>2, <3>4 DEF IndexMaps
    <3>6. ASSUME NEW s \in Slots, NEW a \in Nat, NEW b \in Nat, a <= b, \A k \in DOMAIN s : s[k] <= a
          PROVE  \A k \in DOMAIN s : s[k] <= b
      BY <3>6 DEF Slots
    <3>7. /\ MapInto(mp.globals, NumGlobals(code[i].mod), globals')
          /\ MapInto(mp.mems, NumMems(code[i].mod), mems')
          /\ MapInto(mp.tables, NumTables(code[i].mod), tables')
          /\ MapInto(mp.tags, NumTags(code[i].mod), tags')
          /\ MapInto(mp.elems, Len(code[i].mod.elems), elemVals')
          /\ MapInto(mp.data, Len(code[i].mod.data), dataDropped')
      <4>1. /\ MapInto(mp.globals, NumGlobals(code[i].mod), globals)
            /\ MapInto(mp.mems, NumMems(code[i].mod), mems)
            /\ MapInto(mp.tables, NumTables(code[i].mod), tables)
            /\ MapInto(mp.tags, NumTags(code[i].mod), tags)
            /\ MapInto(mp.elems, Len(code[i].mod.elems), elemVals)
            /\ MapInto(mp.data, Len(code[i].mod.data), dataDropped)
        BY <3>1, <3>4 DEF MapsAreTotal
      <4>2. /\ Len(globals) \in Nat /\ Len(globals') \in Nat
            /\ Len(mems) \in Nat /\ Len(mems') \in Nat
            /\ Len(tables) \in Nat /\ Len(tables') \in Nat
            /\ Len(tags) \in Nat /\ Len(tags') \in Nat
            /\ Len(elemVals) \in Nat /\ Len(elemVals') \in Nat
            /\ Len(dataDropped) \in Nat /\ Len(dataDropped') \in Nat
        <5>1. \A a, b, c \in Nat : a + b \in Nat /\ a + b + c \in Nat
          OBVIOUS
        <5>2. Len(globals) \in Nat /\ Len(globals') \in Nat
          BY <5>1, PoolsCommitted, Lengths, HostShareIsNumber
        <5>3. Len(mems) \in Nat /\ Len(mems') \in Nat
          <6>1. Len(mems) \in Nat /\ Len(job.mod.mems) \in Nat
            BY Lengths
          <6>2. Len(mems') = Len(mems) + Len(job.mod.mems)
            BY PoolsCommitted
          <6> QED BY <5>1, <6>1, <6>2
        <5>4. Len(tables) \in Nat /\ Len(tables') \in Nat
          <6>1. Len(tables) \in Nat /\ Len(job.mod.tables) \in Nat
            BY Lengths
          <6>2. Len(tables') = Len(tables) + Len(job.mod.tables)
            BY PoolsCommitted
          <6> QED BY <5>1, <6>1, <6>2
        <5>5. Len(tags) \in Nat /\ Len(tags') \in Nat
          <6>1. Len(tags) \in Nat /\ Len(job.mod.tags) \in Nat
            BY Lengths
          <6>2. Len(tags') = Len(tags) + Len(job.mod.tags)
            BY PoolsCommitted
          <6> QED BY <5>1, <6>1, <6>2
        <5>6. Len(elemVals) \in Nat /\ Len(elemVals') \in Nat
          <6>1. Len(elemVals) \in Nat /\ Len(job.mod.elems) \in Nat
            BY Lengths
          <6>2. Len(elemVals') = Len(elemVals) + Len(job.mod.elems)
            BY PoolsCommitted
          <6> QED BY <5>1, <6>1, <6>2
        <5>7. Len(dataDropped) \in Nat /\ Len(dataDropped') \in Nat
          <6>1. Len(dataDropped) \in Nat /\ Len(job.mod.data) \in Nat
            BY Lengths
          <6>2. Len(dataDropped') = Len(dataDropped) + Len(job.mod.data)
            BY PoolsCommitted
          <6> QED BY <5>1, <6>1, <6>2
        <5> QED BY <5>2, <5>3, <5>4, <5>5, <5>6, <5>7
      <4>3. MapInto(mp.globals, NumGlobals(code[i].mod), globals')
        BY <3>3, <3>5, <3>6, <4>1, <4>2 DEF MapInto
      <4>4. MapInto(mp.mems, NumMems(code[i].mod), mems')
        BY <3>3, <3>5, <3>6, <4>1, <4>2 DEF MapInto
      <4>5. MapInto(mp.tables, NumTables(code[i].mod), tables')
        BY <3>3, <3>5, <3>6, <4>1, <4>2 DEF MapInto
      <4>6. MapInto(mp.tags, NumTags(code[i].mod), tags')
        BY <3>3, <3>5, <3>6, <4>1, <4>2 DEF MapInto
      <4>7. MapInto(mp.elems, Len(code[i].mod.elems), elemVals')
        BY <3>3, <3>5, <3>6, <4>1, <4>2 DEF MapInto
      <4>8. MapInto(mp.data, Len(code[i].mod.data), dataDropped')
        BY <3>3, <3>5, <3>6, <4>1, <4>2 DEF MapInto
      <4> QED BY <4>3, <4>4, <4>5, <4>6, <4>7, <4>8
    <3> QED BY <3>1, <3>4, <3>7 DEF MapsAreTotal, MapInto
  <2> QED BY <2>1, <2>2, CommitExtends
<1>14. TypeOK'
  <2>1. job' \in Job
    BY <1>3, Ready DEF Job, Phases
  <2>2. Len(code') <= MaxInstances
    BY <1>12, Ready, LimitsAreNumbers
  <2>3. issued' \subseteq Instances'
    <3>1. issued' = issued /\ issued \subseteq Instances
      BY Ready DEF LinkInv, TypeOK
    <3>2. Instances \subseteq Instances'
      BY <1>12 DEF Instances
    <3> QED BY <3>1, <3>2
  <2>4. heap' \in Seq(HeapObject) /\ stack' \in Seq(FrameType)
    BY Ready DEF LinkInv, TypeOK
  <2> QED BY <1>12, <1>13, <2>1, <2>2, <2>3, <2>4, PoolsCommitted DEF TypeOK
<1>15. job'.phase = "elems" /\ job'.mod = job.mod /\ job'.next = 1
  BY <1>3, Ready DEF Job
<1>16. Building' /\ Committed'
  <2>1. Len(code') >= 1 /\ job'.mod = code'[Len(code')].mod
    BY <1>2, <1>12, <1>15
  <2> QED BY <1>15, <2>1, Ready DEF Building, Committed
<1>17. FramesHaveBodies' /\ GoodFrames'
  BY Ready DEF FramesHaveBodies, GoodFrames
<1>18. ReferencesAreLive'
  <2>1. PICK S : S = Pooled'
    OBVIOUS
  <2>2. \A v \in S : Live(v)'
    BY <2>1, PoolsCommitted
  <2> QED BY <1>17, <2>1, <2>2, ReachableIsLive
<1> QED BY <1>14, <1>16, <1>17, <1>18 DEF LinkInv

-----------------------------------------------------------------------------
(* The theorems.                                                           *)

\* The empty store is in order.
LEMMA InitIsInOrder ==
  ASSUME Init
  PROVE  LinkInv
<1>1. TypeOK
  BY LimitsAreNumbers DEF Init, TypeOK, PoolShapes, Instances
<1>2. Building /\ Committed /\ FramesHaveBodies
  BY DEF Init, Building, Committed, FramesHaveBodies, Idle
<1>3. ReferencesAreLive
  BY DEF Init, ReferencesAreLive, Reachable, Pooled, InTables, InGlobals, InSegments
<1> QED BY <1>1, <1>2, <1>3 DEF LinkInv

\* Nothing happens, and nothing is lost.
LEMMA StutterStep ==
  ASSUME LinkInv, UNCHANGED vars
  PROVE  LinkInv'
<1>1. StoreExtends /\ heap' \in Seq(HeapObject) /\ job' \in Job \cup {Idle}
  BY DEF LinkInv, TypeOK, StoreExtends, vars
<1>2. UNCHANGED <<code, heap, job, stack>>
  BY DEF vars
<1>3. \A v : LiveSoon(v)' <=> LiveSoon(v)
  BY <1>2 DEF LiveSoon, Live, Instances
<1>4. /\ Links(job.mod, job.imp)' <=> Links(job.mod, job.imp)
      /\ Linked(job.imp)' <=> Linked(job.imp)
  BY <1>2 DEF Links, GlobalLinks, Linked, InSpace, Instances, SlotOf
<1>5. Building'
  BY <1>2, <1>3, <1>4 DEF LinkInv, Building
<1>6. Committed'
  BY <1>2 DEF LinkInv, Committed
<1> QED BY <1>1, <1>5, <1>6, JobStep DEF vars

\* Every step of an instantiation, of a call and of an instruction keeps it.
LEMMA NextKeepsOrder ==
  ASSUME LinkInv, [Next]_vars
  PROVE  LinkInv'
<1>1. CASE Instantiate
  BY <1>1, BeginStep, EvalGlobalStep, LinkResourcesStep, EvalTableStep, CommitStep,
     ApplyElemStep, ApplyDataStep, StartStep DEF Instantiate
<1>2. CASE Control
  BY <1>2, InvokeStep, CallStep, CallIndirectStep, ReturnStep, TrapOutStep DEF Control
<1>3. CASE Execute
  BY <1>3, RefFuncStep, StructNewStep, GlobalGetStep, GlobalSetStep, TableGetStep,
     TableSetStep, TableGrowStep, TableFillStep, TableCopyStep, TableInitStep,
     ElemDropStep, DataDropStep, MemoryGrowStep DEF Execute
<1>4. CASE UNCHANGED vars
  BY <1>4, StutterStep
<1> QED BY <1>1, <1>2, <1>3, <1>4 DEF Next

\* The inductive invariant holds in every reachable state.
THEOREM StoreIsInOrder == Spec => []LinkInv
BY InitIsInOrder, NextKeepsOrder, PTL DEF Spec

\* Whatever modules the host loads and links, however often instantiation
\* fails half-way, and whatever the guests do: the pools keep their shapes, the
\* index maps of every instance lead into them (IndexMaps, Pools).
THEOREM TypeCorrect == Spec => []TypeOK
<1>1. LinkInv => TypeOK
  BY DEF LinkInv
<1> QED BY <1>1, StoreIsInOrder, PTL

\* No guest ever holds a reference to a function or an object that does not
\* exist, not even one left behind by an instantiation that failed
\* (Store::instantiate, pack_funcref).
THEOREM NoDanglingReferences == Spec => []ReferencesAreLive
<1>1. LinkInv => ReferencesAreLive
  BY DEF LinkInv
<1> QED BY <1>1, StoreIsInOrder, PTL

\* A frame on the stack always runs a function that has a body: the error
\* UndefinedFunc of call_function is unreachable.
THEOREM CallsFindABody == Spec => []FramesHaveBodies
<1>1. LinkInv => FramesHaveBodies
  BY DEF LinkInv
<1> QED BY <1>1, StoreIsInOrder, PTL
=============================================================================
