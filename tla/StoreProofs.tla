---------------------------- MODULE StoreProofs ----------------------------
(***************************************************************************)
(* Proofs about Linking, on top of LinkingProofs: what a step may never    *)
(* take back, and that imports, re-exports and indirect calls lead to what *)
(* was asked for and have the shape their call sites were checked against; *)
(* that objects are owned by an instance of the module that numbers their  *)
(* types, that shared memories and tables keep within every limit, and     *)
(* that every slot has one owner.                                          *)
(***************************************************************************)
EXTENDS LinkingProofs, ProofLemmas

-----------------------------------------------------------------------------
(* Nothing is taken back.                                                  *)

\* The lengths that are compared are numbers.
LEMMA StoreLengths ==
  ASSUME LinkInv
  PROVE  /\ Len(code) \in Nat /\ Len(heap) \in Nat /\ Len(globals) \in Nat
         /\ Len(mems) \in Nat /\ Len(tables) \in Nat
         /\ DOMAIN tables = 1..Len(tables) /\ DOMAIN mems = 1..Len(mems)
         /\ DOMAIN heap = 1..Len(heap) /\ DOMAIN globals = 1..Len(globals)
         /\ \A m \in DOMAIN mems : mems[m].pages \in Nat
         /\ \A t \in DOMAIN tables : /\ tables[t].entries \in Seq(Ref)
                                     /\ Len(tables[t].entries) \in Nat
<1>1. /\ code \in Seq(Instance) /\ heap \in Seq(HeapObject) /\ globals \in Seq(Ref)
      /\ mems \in Seq(Memory) /\ tables \in Seq(Table)
  BY DEF LinkInv, TypeOK, PoolShapes
<1>2. ASSUME NEW m \in DOMAIN mems PROVE mems[m].pages \in Nat
  <2>1. mems[m] \in Memory BY <1>1
  <2> QED BY <2>1 DEF Memory
<1>3. ASSUME NEW t \in DOMAIN tables
      PROVE  tables[t].entries \in Seq(Ref) /\ Len(tables[t].entries) \in Nat
  BY <1>3, PooledIsLive
<1> QED BY <1>1, <1>2, <1>3

\* A step that only runs, calls or plans leaves the store as it is.
LEMMA SameStore ==
  ASSUME LinkInv, UNCHANGED <<code, pools, heap>>, issued \subseteq issued'
  PROVE  StoreOnlyGrows
<1>1. /\ tables' = tables /\ mems' = mems /\ globals' = globals /\ heap' = heap
      /\ code' = code /\ elemDropped' = elemDropped
  BY DEF pools
<1> QED BY <1>1, StoreLengths DEF StoreOnlyGrows

\* An allocation adds an object after the others.
LEMMA HeapGrows ==
  ASSUME LinkInv, UNCHANGED <<code, pools, issued>>,
         NEW o, heap' = heap \/ heap' = Append(heap, o)
  PROVE  StoreOnlyGrows
<1>1. /\ tables' = tables /\ mems' = mems /\ globals' = globals
      /\ code' = code /\ elemDropped' = elemDropped /\ issued' = issued
  BY DEF pools
<1>2. heap \in Seq(HeapObject) BY DEF LinkInv, TypeOK
<1>3. Len(heap') >= Len(heap) /\ \A k \in DOMAIN heap : heap'[k] = heap[k]
  <2>1. CASE heap' = heap BY <2>1, StoreLengths
  <2>2. CASE heap' = Append(heap, o) BY <2>2, <1>2, StoreLengths
  <2> QED BY <2>1, <2>2
<1> QED BY <1>1, <1>3, StoreLengths DEF StoreOnlyGrows

\* A write to a table keeps its length or adds to it.
LEMMA TableWritten ==
  ASSUME LinkInv,
         UNCHANGED <<code, globals, mems, elemDropped, heap, issued>>,
         NEW s \in DOMAIN tables, NEW es, Len(es) \in Nat,
         Len(es) >= Len(tables[s].entries),
         tables' = [tables EXCEPT ![s].entries = es]
  PROVE  StoreOnlyGrows
<1>1. /\ Len(tables') = Len(tables)
      /\ \A t \in DOMAIN tables : tables'[t].entries = IF t = s THEN es ELSE tables[t].entries
  <2>1. tables \in Seq(Table) BY DEF LinkInv, TypeOK, PoolShapes
  <2>2. ASSUME NEW t \in DOMAIN tables PROVE tables[t] \in Table BY <2>1
  <2> QED BY <2>1, <2>2 DEF Table
<1>2. \A t \in DOMAIN tables : Len(tables'[t].entries) >= Len(tables[t].entries)
  BY <1>1, StoreLengths
<1> QED BY <1>1, <1>2, StoreLengths DEF StoreOnlyGrows

\* Writing over entries leaves their number alone.
LEMMA WrittenLength ==
  ASSUME NEW es \in Seq(Ref), NEW off, NEW vals
  PROVE  Len(Written(es, off, vals)) = Len(es) /\ DOMAIN Written(es, off, vals) = DOMAIN es
BY DEF Written

\* A table instruction that sets the entries of one table, no fewer than there
\* were, takes nothing back.
LEMMA TableStepGrows ==
  ASSUME LinkInv, Running, NEW t \in 1..NumTables(Inst.mod), NEW es, Len(es) \in Nat,
         Len(es) >= Len(Entries(t)), SetEntries(t, es), TableStep
  PROVE  StoreOnlyGrows
<1>1. TableSlot(t) \in DOMAIN tables BY TableHere
<1> QED BY <1>1, TableWritten DEF SetEntries, TableStep, Entries

\* So do table.set, fill, copy and init, which keep it, and table.grow.
LEMMA TableSetGrows ==
  ASSUME LinkInv, TableSet
  PROVE  StoreOnlyGrows
<1>1. PICK ins \in Instructions("table.set"), k \in Operands :
        /\ k \in DOMAIN Entries(ins.x)
        /\ SetEntries(ins.x, [Entries(ins.x) EXCEPT ![k] = Top.val])
  BY DEF TableSet
<1>2. Running /\ TableStep BY DEF TableSet
<1>3. ins.x \in 1..NumTables(Inst.mod) BY <1>2, InstructionsAreValid DEF ValidInstr, TableOps
<1>4. Entries(ins.x) \in Seq(Ref) BY <1>2, <1>3, TableHere
<1>5. Len([Entries(ins.x) EXCEPT ![k] = Top.val]) = Len(Entries(ins.x)) BY <1>4
<1> QED BY <1>1, <1>2, <1>3, <1>4, <1>5, TableStepGrows

\* So does one that writes over the entries there are.
LEMMA WrittenGrows ==
  ASSUME LinkInv, Running, TableStep, NEW op \in TableOps, NEW ins \in Instructions(op),
         NEW off, NEW vals, SetEntries(ins.x, Written(Entries(ins.x), off, vals))
  PROVE  StoreOnlyGrows
<1>1. ins.x \in 1..NumTables(Inst.mod) BY InstructionsAreValid DEF ValidInstr
<1>2. Entries(ins.x) \in Seq(Ref) BY <1>1, TableHere
<1>3. Len(Written(Entries(ins.x), off, vals)) = Len(Entries(ins.x)) BY <1>2, WrittenLength
<1> QED BY <1>1, <1>2, <1>3, TableStepGrows

\* table.fill writes over entries.
LEMMA TableFillGrows ==
  ASSUME LinkInv, TableFill
  PROVE  StoreOnlyGrows
<1>1. PICK ins \in Instructions("table.fill"), dst \in Operands, n \in Operands :
        SetEntries(ins.x, Written(Entries(ins.x), dst, [k \in 1..n |-> Top.val]))
  BY DEF TableFill
<1>2. "table.fill" \in TableOps BY DEF TableOps
<1> QED BY <1>1, <1>2, WrittenGrows DEF TableFill

\* table.copy writes over entries.
LEMMA TableCopyGrows ==
  ASSUME LinkInv, TableCopy
  PROVE  StoreOnlyGrows
<1>1. PICK ins \in Instructions("table.copy"), dst \in Operands, src \in Operands, n \in Operands :
        SetEntries(ins.x, Written(Entries(ins.x), dst, [k \in 1..n |-> Entries(ins.y)[src + k]]))
  BY DEF TableCopy
<1>2. "table.copy" \in TableOps BY DEF TableOps
<1> QED BY <1>1, <1>2, WrittenGrows DEF TableCopy

\* table.init writes over entries.
LEMMA TableInitGrows ==
  ASSUME LinkInv, TableInit
  PROVE  StoreOnlyGrows
<1>1. PICK ins \in Instructions("table.init"), dst \in Operands, src \in Operands, n \in Operands :
        SetEntries(ins.x, Written(Entries(ins.x), dst, [k \in 1..n |-> Segment(ins.y)[src + k]]))
  BY DEF TableInit
<1>2. "table.init" \in TableOps BY DEF TableOps
<1> QED BY <1>1, <1>2, WrittenGrows DEF TableInit

\* table.grow appends entries.
LEMMA TableGrowGrows ==
  ASSUME LinkInv, TableGrow
  PROVE  StoreOnlyGrows
<1>1. PICK ins \in Instructions("table.grow"), n \in Operands :
        SetEntries(ins.x, Entries(ins.x) \o [k \in 1..n |-> Top.val])
  BY DEF TableGrow
<1>2. Running /\ TableStep BY DEF TableGrow
<1>3. ins.x \in 1..NumTables(Inst.mod) BY <1>2, InstructionsAreValid DEF ValidInstr, TableOps
<1>4. Entries(ins.x) \in Seq(Ref) BY <1>2, <1>3, TableHere
<1>5. [k \in 1..n |-> Top.val] \in Seq({Top.val}) /\ Len([k \in 1..n |-> Top.val]) = n
      /\ n \in Nat
  BY LimitsAreNumbers
<1> DEFINE es == Entries(ins.x) \o [k \in 1..n |-> Top.val]
<1>6. Len(es) = Len(Entries(ins.x)) + n
  BY <1>4, <1>5
<1>7. Len(es) \in Nat /\ Len(es) >= Len(Entries(ins.x))
  <2>1. Len(Entries(ins.x)) \in Nat BY <1>4
  <2> QED BY <1>5, <1>6, <2>1
<1>8. SetEntries(ins.x, es) BY <1>1
<1> HIDE DEF es
<1> QED BY <1>2, <1>3, <1>7, <1>8, TableStepGrows

\* An active element segment writes over entries, whether or not it fits.
LEMMA ApplyElemGrows ==
  ASSUME LinkInv, ApplyElem
  PROVE  StoreOnlyGrows
<1> DEFINE self == code[Len(code)]
           seg == job.mod.elems[job.next]
           vals == elemVals[self.maps.elems[job.next]]
           t == self.maps.tables[seg.table]
<1>1. /\ job.phase = "elems" /\ job.next <= Len(job.mod.elems)
      /\ UNCHANGED <<code, globals, mems, tags, elemVals, elemDropped, dataDropped,
                     heap, stack, issued>>
      /\ \/ UNCHANGED tables
         \/ /\ seg.mode = "active"
            /\ tables' = [tables EXCEPT ![t].entries = Written(@, seg.off, vals)]
  BY Zenon DEF ApplyElem
<1>2. CASE UNCHANGED tables
  BY <1>1, <1>2, SameStore DEF pools
<1>3. CASE seg.mode = "active" /\ tables' = [tables EXCEPT ![t].entries = Written(@, seg.off, vals)]
  <2>1. /\ job.mod = self.mod /\ Len(code) \in Instances /\ ModuleIndices(job.mod)
        /\ job.next \in Nat /\ job.next >= 1 /\ ModuleShape(job.mod)
    BY <1>1, CommittedJob
  <2>2. job.next \in DOMAIN job.mod.elems
    <3>1. job.mod.elems \in Seq(ElemSegment) BY <2>1 DEF ModuleShape
    <3>2. PICK s : s = job.mod.elems OBVIOUS
    <3>3. PICK n : n = job.next OBVIOUS
    <3>4. s \in Seq(ElemSegment) /\ n \in Nat /\ n >= 1 /\ n <= Len(s)
      BY <1>1, <2>1, <3>1, <3>2, <3>3
    <3>5. n \in DOMAIN s BY <3>4
    <3> QED BY <3>2, <3>3, <3>5
  <2>3. seg.table \in 1..NumTables(job.mod) BY <1>3, <2>1, <2>2 DEF ModuleIndices
  <2>4. t \in DOMAIN tables
    <3>1. /\ self \in Instance /\ Len(self.maps.tables) = NumTables(self.mod)
          /\ \A k \in DOMAIN self.maps.tables : self.maps.tables[k] \in DOMAIN tables
      BY <2>1, MapsLead
    <3>2. self.maps.tables \in Slots BY <3>1 DEF Instance, IndexMaps
    <3>3. DOMAIN self.maps.tables = 1..NumTables(self.mod) BY <3>1, <3>2 DEF Slots
    <3> QED BY <2>1, <2>3, <3>1, <3>3
  <2>5. tables[t].entries \in Seq(Ref) /\ Len(tables[t].entries) \in Nat
    BY <2>4, StoreLengths
  <2>6. Len(Written(tables[t].entries, seg.off, vals)) = Len(tables[t].entries)
    BY <2>5, WrittenLength
  <2>7. tables' = [tables EXCEPT ![t].entries = Written(tables[t].entries, seg.off, vals)]
    BY <1>3
  <2> DEFINE es == Written(tables[t].entries, seg.off, vals)
  <2>8. Len(es) \in Nat /\ Len(es) >= Len(tables[t].entries)
    <3>1. Len(es) = Len(tables[t].entries) BY <2>6
    <3>2. Len(tables[t].entries) \in Nat BY <2>5
    <3> HIDE DEF es, t
    <3> QED BY <3>1, <3>2
  <2>9. tables' = [tables EXCEPT ![t].entries = es] BY <2>7
  <2>10. UNCHANGED <<code, globals, mems, elemDropped, heap, issued>> BY <1>1
  <2> HIDE DEF es, t
  <2> QED BY <2>4, <2>8, <2>9, <2>10, TableWritten
<1> QED BY <1>1, <1>2, <1>3

\* memory.grow adds pages to one memory.
LEMMA MemoryGrowGrows ==
  ASSUME LinkInv, MemoryGrow
  PROVE  StoreOnlyGrows
<1>1. PICK ins \in Instructions("memory.grow"), n \in Operands :
        mems' = [mems EXCEPT ![Inst.maps.mems[ins.x]].pages = @ + n]
  BY DEF MemoryGrow
<1>2. /\ UNCHANGED <<code, globals, tables, tags, elemVals, elemDropped, dataDropped,
                     heap, job, stack, issued>>
      /\ n \in Nat
  BY LimitsAreNumbers DEF MemoryGrow
<1>3. Len(mems') = Len(mems) /\ \A m \in DOMAIN mems : mems'[m].pages >= mems[m].pages
  <2>1. mems \in Seq(Memory) BY DEF LinkInv, TypeOK, PoolShapes
  <2>2. ASSUME NEW m \in DOMAIN mems PROVE mems[m] \in Memory BY <2>1
  <2> QED BY <1>1, <1>2, <2>1, <2>2, StoreLengths DEF Memory
<1> QED BY <1>2, <1>3, StoreLengths DEF StoreOnlyGrows

\* elem.drop only drops.
LEMMA ElemDropGrows ==
  ASSUME LinkInv, ElemDrop
  PROVE  StoreOnlyGrows
<1>1. PICK ins \in Instructions("elem.drop") :
        elemDropped' = [elemDropped EXCEPT ![Inst.maps.elems[ins.x]] = TRUE]
  BY DEF ElemDrop
<1>2. UNCHANGED <<code, globals, mems, tables, tags, elemVals, dataDropped,
                  heap, job, stack, issued>>
  BY DEF ElemDrop
<1>3. \A s \in DOMAIN elemDropped : elemDropped[s] => elemDropped'[s] BY <1>1
<1> QED BY <1>2, <1>3, StoreLengths DEF StoreOnlyGrows

\* A new instance joins at the end of the store and its resources at the end of
\* the pools.
LEMMA CommitGrows ==
  ASSUME LinkInv, Commit
  PROVE  StoreOnlyGrows
<1> DEFINE m == job.mod
<1>1. code \in Seq(Instance) /\ Len(code) \in Nat BY DEF LinkInv, TypeOK
<1>2. Len(code') >= Len(code) /\ \A i \in Instances : code'[i] = code[i]
  <2>1. PICK x : code' = Append(code, x) BY DEF Commit
  <2> QED BY <1>1, <2>1 DEF Instances
<1>3. /\ Len(mems') = Len(mems) + Len(m.mems) /\ Len(tables') = Len(tables) + Len(m.tables)
      /\ Len(globals') = Len(globals) + Len(m.globals) + HostShare
  BY PoolsCommitted
<1>4. /\ Len(m.mems) \in Nat /\ Len(m.tables) \in Nat /\ Len(m.globals) \in Nat
      /\ HostShare \in Nat
  BY Lengths, HostShareIsNumber
<1>5. heap' = heap /\ issued' = issued BY DEF Commit
<1>6. \A t \in DOMAIN tables : tables'[t] = tables[t]
  <2>1. tables' = tables \o job.newTables BY DEF Commit
  <2>2. tables \in Seq(Table) /\ job.newTables \in Seq(Table)
    BY Ready DEF LinkInv, TypeOK, PoolShapes
  <2> QED BY <2>1, <2>2
<1>7. \A k \in DOMAIN mems : mems'[k] = mems[k]
  <2> DEFINE new == [k \in 1..Len(m.mems) |-> NewMem(m.mems[k])]
  <2>1. mems' = mems \o new BY DEF Commit
  <2>2. mems \in Seq(Memory) BY DEF LinkInv, TypeOK, PoolShapes
  <2>3. new \in Seq({NewMem(m.mems[k]) : k \in 1..Len(m.mems)}) BY <1>4
  <2> HIDE DEF new
  <2> QED BY <2>1, <2>2, <2>3
<1>8. \A s \in DOMAIN elemDropped : elemDropped[s] => elemDropped'[s]
  <2> DEFINE new == [s \in 1..Len(m.elems) |-> m.elems[s].mode # "passive"]
  <2>1. elemDropped' = elemDropped \o new BY DEF Commit
  <2>2. elemDropped \in Seq(BOOLEAN) BY DEF LinkInv, TypeOK, PoolShapes
  <2>3. new \in Seq(BOOLEAN) BY Lengths
  <2> HIDE DEF new
  <2> QED BY <2>1, <2>2, <2>3
<1>9. /\ Len(mems') >= Len(mems) /\ Len(tables') >= Len(tables)
      /\ Len(globals') >= Len(globals)
  <2>1. Len(mems) \in Nat /\ Len(tables) \in Nat /\ Len(globals) \in Nat BY StoreLengths
  <2> HIDE DEF m
  <2> QED BY <1>3, <1>4, <2>1
<1>10. /\ \A t \in DOMAIN tables : Len(tables'[t].entries) >= Len(tables[t].entries)
       /\ \A k \in DOMAIN mems : mems'[k].pages >= mems[k].pages
  BY <1>6, <1>7, StoreLengths
<1> QED BY <1>2, <1>5, <1>8, <1>9, <1>10, StoreLengths DEF StoreOnlyGrows

\* No step of the store takes anything back.
LEMMA NextOnlyGrows ==
  ASSUME LinkInv, [Next]_vars
  PROVE  StoreOnlyGrows
<1>1. CASE UNCHANGED vars
  BY <1>1, SameStore DEF vars
<1>2. CASE BeginInstantiate \/ LinkResources \/ ApplyData
  BY <1>2, SameStore DEF BeginInstantiate, LinkResources, ApplyData
<1>3. CASE EvalGlobal
  <2>1. UNCHANGED <<code, pools, issued>> BY <1>3 DEF EvalGlobal
  <2>2. \E o : heap' = heap \/ heap' = Append(heap, o)
    BY <1>3 DEF EvalGlobal, EvalHeap, Allocate
  <2> QED BY <2>1, <2>2, HeapGrows
<1>4. CASE EvalTable
  <2>1. UNCHANGED <<code, pools, issued>> BY <1>4 DEF EvalTable
  <2>2. \E o : heap' = heap \/ heap' = Append(heap, o)
    BY <1>4 DEF EvalTable, EvalHeap, Allocate
  <2> QED BY <2>1, <2>2, HeapGrows
<1>5. CASE Start
  <2>1. UNCHANGED <<code, pools, heap>> /\ issued \subseteq issued'
    BY <1>5 DEF Start, FinishStart
  <2> QED BY <2>1, SameStore
<1>6. CASE Invoke \/ Return \/ TrapOut
  <2>1. UNCHANGED <<code, pools, heap>> /\ issued \subseteq issued'
    BY <1>6 DEF Invoke, Return, TrapOut, FinishStart
  <2> QED BY <2>1, SameStore
<1>7. CASE Call \/ CallIndirect
  BY <1>7, SameStore DEF Call, CallIndirect, CallTo
<1>8. CASE RefFunc \/ GlobalGet \/ TableGet
  BY <1>8, SameStore DEF RefFunc, GlobalGet, TableGet
<1>9. CASE StructNew
  BY <1>9, HeapGrows DEF StructNew, Allocate
<1>10. CASE GlobalSet
  <2>1. Len(globals') = Len(globals)
    <3>1. globals \in Seq(Ref) BY DEF LinkInv, TypeOK, PoolShapes
    <3> QED BY <1>10, <3>1 DEF GlobalSet
  <2> QED BY <1>10, <2>1, StoreLengths DEF StoreOnlyGrows, GlobalSet
<1>11. CASE DataDrop
  BY <1>11, StoreLengths DEF StoreOnlyGrows, DataDrop
<1> QED
  BY <1>1, <1>2, <1>3, <1>4, <1>5, <1>6, <1>7, <1>8, <1>9, <1>10, <1>11,
     CommitGrows, ApplyElemGrows, TableSetGrows, TableGrowGrows, TableFillGrows,
     TableCopyGrows, TableInitGrows, ElemDropGrows, MemoryGrowGrows
  DEF Next, Instantiate, Control, Execute

\* An instance that joined the store stays as it is, a slot keeps its place,
\* tables and memories only grow and dropped segments stay dropped, whatever
\* fails later (instantiate, index stability).
THEOREM AlwaysNothingIsTakenBack == Spec => NothingIsTakenBack
<1>1. LinkInv /\ [Next]_vars => [StoreOnlyGrows]_vars BY NextOnlyGrows
<1> QED BY <1>1, StoreIsInOrder, PTL DEF Spec, NothingIsTakenBack

-----------------------------------------------------------------------------
(* Links are what was asked for.  An import of an instance refers back to  *)
(* what the host named when the instantiation began, so the inductive      *)
(* invariant says the same of the instantiation in progress.               *)

WasIssued(b) == b.store = ThisStore => b.inst \in issued
ImportsIssued(imp) ==
  /\ \A k \in DOMAIN imp.globals : WasIssued(imp.globals[k])
  /\ \A k \in DOMAIN imp.mems : WasIssued(imp.mems[k])
  /\ \A k \in DOMAIN imp.tables : WasIssued(imp.tables[k])
  /\ \A k \in DOMAIN imp.tags : WasIssued(imp.tags[k])
FunctionAsked(decl, b) ==
  /\ b \in Backing /\ WasIssued(b) /\ InSpace(b, NumFuncs) /\ FuncMatches(decl, b)
FunctionsAsked(m, imp) ==
  /\ Len(imp.funcs) = Len(m.impFuncs) /\ DOMAIN imp.funcs = 1..Len(m.impFuncs)
  /\ \A f \in 1..Len(m.impFuncs) : FunctionAsked(m.impFuncs[f], imp.funcs[f])
Asked == job.phase \in {"globals", "tables"} =>
           ImportsIssued(job.imp) /\ FunctionsAsked(job.mod, job.imp)

AskedInv == LinkInv /\ Asked /\ LinksAreWhatWasAsked

\* What FuncMatches looks at is the code of the instances there are.
LEMMA MatchesStay ==
  ASSUME NEW decl, NEW b, code' = code
  PROVE  /\ FuncMatches(decl, b)' <=> FuncMatches(decl, b)
         /\ InSpace(b, NumFuncs)' <=> InSpace(b, NumFuncs)
         /\ SlotOf(b)' = SlotOf(b)
<1>1. SlotOf(b)' = SlotOf(b) BY DEF SlotOf
<1>2. \A i, f : DefiningFunc(i, f)' = DefiningFunc(i, f)
  BY DEF DefiningFunc, Chase, Hop
<1> QED BY <1>1, <1>2 DEF FuncMatches, InSpace, Importable, TypeOf

\* As long as the instantiation is the same, it asks for the same.
LEMMA AskedStays ==
  ASSUME Asked, code' = code, issued \subseteq issued',
         job'.phase \in {"globals", "tables"} =>
           /\ job.phase \in {"globals", "tables"}
           /\ job'.mod = job.mod /\ job'.imp = job.imp
  PROVE  Asked'
<1> SUFFICES ASSUME job'.phase \in {"globals", "tables"}
             PROVE  ImportsIssued(job.imp)' /\ FunctionsAsked(job.mod, job.imp)'
  BY DEF Asked
<1>1. /\ job'.mod = job.mod /\ job'.imp = job.imp
      /\ ImportsIssued(job.imp) /\ FunctionsAsked(job.mod, job.imp)
  BY DEF Asked
<1>2. \A b : WasIssued(b) => WasIssued(b)'
  BY DEF WasIssued
<1>3. ImportsIssued(job.imp)'
  BY <1>1, <1>2 DEF ImportsIssued, WasIssued
<1>4. ASSUME NEW decl, NEW b, FunctionAsked(decl, b) PROVE FunctionAsked(decl, b)'
  BY <1>2, <1>4, MatchesStay DEF FunctionAsked
<1>5. FunctionsAsked(job.mod, job.imp)'
  <2>1. PICK m, imp : m = job.mod /\ imp = job.imp OBVIOUS
  <2>2. FunctionsAsked(m, imp) BY <1>1, <2>1
  <2>3. FunctionsAsked(m, imp)' BY <1>4, <2>2 DEF FunctionsAsked
  <2> QED BY <1>1, <2>1, <2>3 DEF FunctionsAsked, FunctionAsked, WasIssued, InSpace, FuncMatches
<1> QED BY <1>3, <1>5

\* A backing names an instance whose id was issued.
LEMMA BackingIssued ==
  ASSUME NEW id \in Ids, NEW k, NEW b, b = [store |-> id[1], inst |-> id[2], idx |-> k]
  PROVE  WasIssued(b)
BY DEF Ids, WasIssued, ThisStore

\* A table, memory or tag backing of this store names an instance the host was
\* given.
LEMMA ResourceIssued ==
  ASSUME NEW b, b \in MemBackings \/ b \in TableBackings \/ b \in TagBackings
  PROVE  WasIssued(b)
<1>1. PICK id \in Ids : \E k : b = [store |-> id[1], inst |-> id[2], idx |-> k]
  <2>1. CASE b \in MemBackings BY <2>1 DEF MemBackings, BackingsFrom
  <2>2. CASE b \in TableBackings BY <2>2 DEF TableBackings, BackingsFrom
  <2>3. CASE b \in TagBackings BY <2>3 DEF TagBackings, BackingsFrom
  <2> QED BY <2>1, <2>2, <2>3
<1> QED BY <1>1, BackingIssued

\* So does a global backing.
LEMMA GlobalIssued ==
  ASSUME NEW decl, NEW b \in GlobalBackings(decl)
  PROVE  WasIssued(b)
<1>1. b = [store |-> Host, inst |-> Host, idx |-> 0, val |-> Null]
      \/ \E i \in issued : \E g, v : b = [store |-> ThisStore, inst |-> i, idx |-> g, val |-> v]
  BY DEF GlobalBackings
<1> QED BY <1>1 DEF WasIssued, ThisStore, Host

\* So does a function backing.
LEMMA FunctionIssued ==
  ASSUME LinkInv, NEW b \in FuncBackings
  PROVE  b \in Backing /\ WasIssued(b) /\ InSpace(b, NumFuncs)
<1>1. b \in Backing BY FuncBackingShape
<1>2. CASE b = HostBacking
  <2>1. b.store = 0 BY <1>2 DEF HostBacking, Host
  <2>2. SlotOf(b) = Host BY <2>1 DEF SlotOf, ThisStore
  <2> QED BY <1>1, <2>1, <2>2 DEF WasIssued, InSpace, ThisStore
<1>3. CASE b # HostBacking
  <2>1. PICK id \in Ids : \E k \in 1..(IF id[2] \in 1..Len(code)
                                     THEN NumFuncs(code[id[2]].mod) ELSE 1) :
          b = [store |-> id[1], inst |-> id[2], idx |-> k]
    BY <1>3 DEF FuncBackings, BackingsFrom
  <2>2. WasIssued(b) BY <2>1, BackingIssued
  <2>3. ASSUME SlotOf(b) # Host PROVE b.idx \in 1..NumFuncs(code[SlotOf(b)].mod)
    <3>1. SlotOf(b) = id[2] /\ id[2] \in 1..Len(code)
      BY <2>1, <2>3 DEF SlotOf
    <3> QED BY <2>1, <3>1
  <2> QED BY <1>1, <2>2, <2>3 DEF InSpace
<1> QED BY <1>1, <1>2, <1>3

\* What the host hands to instantiate is what it asks for.
LEMMA BeginAsks ==
  ASSUME LinkInv, BeginInstantiate
  PROVE  Asked'
<1>1. UNCHANGED <<code, issued>> BY DEF BeginInstantiate
<1>2. PICK m \in Modules :
       \E fs \in [1..Len(m.impFuncs) -> FuncBackings],
          gs \in [1..Len(m.impGlobals) ->
                    UNION {GlobalBackings(m.impGlobals[g]) : g \in 1..Len(m.impGlobals)}],
          ms \in [1..Len(m.impMems) -> MemBackings],
          ts \in [1..Len(m.impTables) -> TableBackings],
          gts \in [1..Len(m.impTags) -> TagBackings] :
         /\ \A g \in 1..Len(m.impGlobals) : gs[g] \in GlobalBackings(m.impGlobals[g])
         /\ \A f \in 1..Len(m.impFuncs) : FuncMatches(m.impFuncs[f], fs[f])
         /\ job' = [phase |-> "globals", mod |-> m,
                    imp |-> [funcs |-> fs, globals |-> gs, mems |-> ms,
                             tables |-> ts, tags |-> gts],
                    gvals |-> [g \in 1..Len(m.impGlobals) |-> gs[g].val],
                    newTables |-> <<>>, next |-> 1]
  BY DEF BeginInstantiate
<1>3. PICK fs \in [1..Len(m.impFuncs) -> FuncBackings],
          gs \in [1..Len(m.impGlobals) ->
                    UNION {GlobalBackings(m.impGlobals[g]) : g \in 1..Len(m.impGlobals)}],
          ms \in [1..Len(m.impMems) -> MemBackings],
          ts \in [1..Len(m.impTables) -> TableBackings],
          gts \in [1..Len(m.impTags) -> TagBackings] :
         /\ \A g \in 1..Len(m.impGlobals) : gs[g] \in GlobalBackings(m.impGlobals[g])
         /\ \A f \in 1..Len(m.impFuncs) : FuncMatches(m.impFuncs[f], fs[f])
         /\ job' = [phase |-> "globals", mod |-> m,
                    imp |-> [funcs |-> fs, globals |-> gs, mems |-> ms,
                             tables |-> ts, tags |-> gts],
                    gvals |-> [g \in 1..Len(m.impGlobals) |-> gs[g].val],
                    newTables |-> <<>>, next |-> 1]
  BY <1>2
<1>4. PICK imp : imp = [funcs |-> fs, globals |-> gs, mems |-> ms, tables |-> ts, tags |-> gts]
  OBVIOUS
<1>5. job'.mod = m /\ job'.imp = imp BY <1>3, <1>4
<1>6. Len(m.impFuncs) \in Nat BY ModulesAreValid DEF ModuleShape
<1>7. ImportsIssued(imp)
  <2>1. \A g \in DOMAIN gs : WasIssued(gs[g]) BY <1>3, GlobalIssued
  <2>2. /\ \A k \in DOMAIN ms : WasIssued(ms[k])
        /\ \A k \in DOMAIN ts : WasIssued(ts[k])
        /\ \A k \in DOMAIN gts : WasIssued(gts[k])
    <3>1. /\ \A k \in DOMAIN ms : ms[k] \in MemBackings
          /\ \A k \in DOMAIN ts : ts[k] \in TableBackings
          /\ \A k \in DOMAIN gts : gts[k] \in TagBackings
      OBVIOUS
    <3> QED BY <3>1, ResourceIssued
  <2> QED BY <1>4, <2>1, <2>2 DEF ImportsIssued
<1>8. FunctionsAsked(m, imp)
  <2>1. \A f \in 1..Len(m.impFuncs) : fs[f] \in FuncBackings OBVIOUS
  <2>2. \A f \in 1..Len(m.impFuncs) : FunctionAsked(m.impFuncs[f], fs[f])
    BY <1>3, <2>1, FunctionIssued DEF FunctionAsked
  <2>3. Len(fs) = Len(m.impFuncs) /\ DOMAIN fs = 1..Len(m.impFuncs)
    BY <1>6, FunctionIsSeq
  <2> QED BY <1>4, <2>2, <2>3 DEF FunctionsAsked
<1>9. ImportsIssued(imp)'
  BY <1>1, <1>7 DEF ImportsIssued, WasIssued
<1>10. FunctionsAsked(m, imp)'
  <2>1. ASSUME NEW decl, NEW b, FunctionAsked(decl, b) PROVE FunctionAsked(decl, b)'
    BY <1>1, <2>1, MatchesStay DEF FunctionAsked, WasIssued
  <2> QED BY <1>8, <2>1 DEF FunctionsAsked
<1> QED BY <1>5, <1>9, <1>10 DEF Asked, ImportsIssued, FunctionsAsked, FunctionAsked,
                                 WasIssued, InSpace, FuncMatches

\* Every other step of an instantiation goes on with it, or ends it.
LEMMA JobGoesOn ==
  ASSUME LinkInv, Instantiate \/ Control \/ Execute, ~BeginInstantiate,
         job'.phase \in {"globals", "tables"}
  PROVE  /\ job.phase \in {"globals", "tables"}
         /\ job'.mod = job.mod /\ job'.imp = job.imp /\ code' = code
<1>1. Idle.phase = "idle" BY DEF Idle
<1>2. ASSUME NEW g, job.phase = "globals", job' = [job EXCEPT !.gvals = g]
      PROVE  job'.mod = job.mod /\ job'.imp = job.imp
  BY <1>2, JobShape DEF Job, Phases
<1>3. ASSUME NEW t, job.phase = "tables", job' = [job EXCEPT !.newTables = t]
      PROVE  job'.mod = job.mod /\ job'.imp = job.imp
  BY <1>3, JobShape DEF Job, Phases
<1>4. ASSUME job.phase = "globals", job' = [job EXCEPT !.phase = "tables"]
      PROVE  job'.mod = job.mod /\ job'.imp = job.imp
  BY <1>4, JobShape DEF Job, Phases
<1>5. CASE EvalGlobal
  <2>1. job.phase = "globals" /\ code' = code
        /\ (job' = Idle \/ \E g : job' = [job EXCEPT !.gvals = g])
    BY <1>5 DEF EvalGlobal, FailInstantiation
  <2> QED BY <1>1, <1>2, <2>1
<1>6. CASE EvalTable
  <2>1. job.phase = "tables" /\ code' = code
        /\ (job' = Idle \/ \E g : job' = [job EXCEPT !.newTables = g])
    BY <1>6 DEF EvalTable, FailInstantiation
  <2> QED BY <1>1, <1>3, <2>1
<1>7. CASE LinkResources
  <2>1. job.phase = "globals" /\ code' = code
        /\ (job' = Idle \/ job' = [job EXCEPT !.phase = "tables"])
    BY <1>7 DEF LinkResources, FailInstantiation
  <2> QED BY <1>1, <1>4, <2>1
<1>8. CASE Commit
  <2>1. job' = [job EXCEPT !.phase = "elems", !.next = 1] BY <1>8 DEF Commit
  <2>2. job'.phase = "elems" BY <1>8, <2>1, Ready DEF Job
  <2> QED BY <2>2
<1>9. CASE ApplyElem \/ ApplyData
  <2>1. /\ job.phase = "elems" /\ job \in Job
        /\ \/ job' = Idle \/ job' = [job EXCEPT !.next = @ + 1]
           \/ job' = [job EXCEPT !.phase = "start"]
    BY <1>9, JobShape DEF ApplyElem, ApplyData, FailInstantiation, Phases
  <2>2. job'.phase \in {"idle", "elems", "start"} BY <1>1, <2>1 DEF Job
  <2> QED BY <2>2
<1>10. CASE Start
  <2>1. /\ job.phase = "start" /\ job \in Job
        /\ \/ job' = Idle \/ job' = [job EXCEPT !.phase = "running"]
    BY <1>10, JobShape DEF Start, FailInstantiation, FinishStart, Phases
  <2>2. job'.phase \in {"idle", "running"} BY <1>1, <2>1 DEF Job
  <2> QED BY <2>2
<1>11. CASE Control \/ Execute
  <2>1. code' = code /\ (job' = job \/ job' = Idle)
    <3>1. CASE Control
      BY <3>1 DEF Control, Invoke, Call, CallIndirect, CallTo, Return, TrapOut, FinishStart
    <3>2. CASE Execute
      BY <3>2 DEF Execute, RefFunc, StructNew, GlobalGet, GlobalSet, TableGet, TableSet,
        TableGrow, TableFill, TableCopy, TableInit, ElemDrop, DataDrop, MemoryGrow, TableStep
    <3> QED BY <1>11, <3>1, <3>2
  <2> QED BY <1>1, <2>1
<1> QED BY <1>5, <1>6, <1>7, <1>8, <1>9, <1>10, <1>11 DEF Instantiate

\* Only Commit adds to the code.
LEMMA CodeStays ==
  ASSUME [Next]_vars, ~Commit
  PROVE  code' = code
<1>1. CASE UNCHANGED vars BY <1>1 DEF vars
<1>2. CASE Instantiate
  BY <1>2 DEF Instantiate, BeginInstantiate, EvalGlobal, LinkResources, EvalTable,
              ApplyElem, ApplyData, Start
<1>3. CASE Control
  BY <1>3 DEF Control, Invoke, Call, CallIndirect, CallTo, Return, TrapOut
<1>4. CASE Execute
  BY <1>4 DEF Execute, RefFunc, StructNew, GlobalGet, GlobalSet, TableGet, TableSet,
        TableGrow, TableFill, TableCopy, TableInit, ElemDrop, DataDrop, MemoryGrow, TableStep
<1> QED BY <1>1, <1>2, <1>3, <1>4 DEF Next

\* Every step keeps what the running instantiation was asked for.
LEMMA NextAsks ==
  ASSUME LinkInv, Asked, [Next]_vars
  PROVE  Asked'
<1>1. issued \subseteq issued' BY NextOnlyGrows DEF StoreOnlyGrows
<1>2. CASE BeginInstantiate BY <1>2, BeginAsks
<1>3. CASE UNCHANGED vars
  BY <1>1, <1>3, AskedStays DEF vars
<1>4. CASE ~BeginInstantiate /\ Next
  <2>1. Instantiate \/ Control \/ Execute BY <1>4 DEF Next
  <2>2. job'.phase \in {"globals", "tables"} =>
           /\ job.phase \in {"globals", "tables"}
           /\ job'.mod = job.mod /\ job'.imp = job.imp /\ code' = code
    BY <1>4, <2>1, JobGoesOn
  <2>3. CASE job'.phase \in {"globals", "tables"}
    BY <1>1, <2>2, <2>3, AskedStays
  <2>4. CASE ~(job'.phase \in {"globals", "tables"})
    BY <2>4 DEF Asked
  <2> QED BY <2>3, <2>4
<1> QED BY <1>2, <1>3, <1>4

\* What was asked of an instance stays so when the store grows.
LEMMA LinksStayAsked ==
  ASSUME LinkInv, LinksAreWhatWasAsked, StoreOnlyGrows, NEW i \in Instances
  PROVE  LET m == code[i].mod
         IN  /\ SameSlots(i, "globals", Len(m.impGlobals))'
             /\ SameSlots(i, "mems", Len(m.impMems))'
             /\ SameSlots(i, "tables", Len(m.impTables))'
             /\ SameSlots(i, "tags", Len(m.impTags))'
             /\ \A f \in 1..Len(m.impFuncs) :
                  LET b == code'[i].imp.funcs[f]
                  IN  IF b.store = Host THEN code'[i].imports[f][1] = Host
                      ELSE /\ b.store = ThisStore /\ b.inst < i /\ b.inst \in issued'
                           /\ code'[i].imports[f] = <<b.inst, b.idx>>
<1>1. /\ issued \subseteq issued' /\ issued \subseteq Instances
      /\ \A j \in Instances : code'[j] = code[j]
  BY DEF StoreOnlyGrows, LinkInv, TypeOK
<1>2. ASSUME NEW kind, NEW n, SameSlots(i, kind, n) PROVE SameSlots(i, kind, n)'
  <2>1. SUFFICES ASSUME NEW k \in 1..n, NEW b, b = code'[i].imp[kind][k]
                 PROVE  \/ b.store = Host
                        \/ /\ b.store = ThisStore /\ b.inst < i /\ b.inst \in issued'
                           /\ code'[i].maps[kind][k] = code'[b.inst].maps[kind][b.idx]
    BY DEF SameSlots
  <2>2. b = code[i].imp[kind][k] BY <1>1, <2>1
  <2>3. \/ b.store = Host
        \/ /\ b.store = ThisStore /\ b.inst < i /\ b.inst \in issued
           /\ code[i].maps[kind][k] = code[b.inst].maps[kind][b.idx]
    BY <1>2, <2>2 DEF SameSlots
  <2>4. CASE b.store # Host
    <3>1. b.inst \in Instances BY <1>1, <2>3, <2>4
    <3>2. code'[b.inst] = code[b.inst] /\ code'[i] = code[i] BY <1>1, <3>1
    <3> QED BY <1>1, <2>3, <2>4, <3>2
  <2> QED BY <2>4
<1>3. /\ SameSlots(i, "globals", Len(code[i].mod.impGlobals))
      /\ SameSlots(i, "mems", Len(code[i].mod.impMems))
      /\ SameSlots(i, "tables", Len(code[i].mod.impTables))
      /\ SameSlots(i, "tags", Len(code[i].mod.impTags))
  BY DEF LinksAreWhatWasAsked
<1>4. PICK m : m = code[i].mod OBVIOUS
<1>5. code'[i] = code[i] BY <1>1
<1>6. PICK a, b, c, d : /\ a = Len(m.impGlobals) /\ b = Len(m.impMems)
                        /\ c = Len(m.impTables) /\ d = Len(m.impTags)
  OBVIOUS
<1>7. /\ SameSlots(i, "globals", a) /\ SameSlots(i, "mems", b)
      /\ SameSlots(i, "tables", c) /\ SameSlots(i, "tags", d)
  BY <1>3, <1>4, <1>6
<1>8. /\ SameSlots(i, "globals", a)' /\ SameSlots(i, "mems", b)'
      /\ SameSlots(i, "tables", c)' /\ SameSlots(i, "tags", d)'
  BY <1>2, <1>7
<1>9. \A f \in 1..Len(m.impFuncs) :
        LET x == code'[i].imp.funcs[f]
        IN  IF x.store = Host THEN code'[i].imports[f][1] = Host
            ELSE /\ x.store = ThisStore /\ x.inst < i /\ x.inst \in issued'
                 /\ code'[i].imports[f] = <<x.inst, x.idx>>
  BY <1>1, <1>4, <1>5 DEF LinksAreWhatWasAsked
<1>10. a' = a /\ b' = b /\ c' = c /\ d' = d OBVIOUS
<1>11. Len(code'[i].mod.impGlobals) = a BY <1>4, <1>5, <1>6
<1> QED BY <1>4, <1>5, <1>6, <1>8, <1>9 DEF SameSlots

\* The instance Commit adds.
LEMMA NewInstance ==
  ASSUME LinkInv, Commit, NEW n, n = Len(code) + 1
  PROVE  /\ n \in Nat /\ n \notin Instances /\ Instances' = Instances \cup {n}
         /\ code'[n].mod = job.mod /\ code'[n].imp = job.imp
         /\ code'[n].imports = Targets(job.imp)
         /\ code'[n].maps.globals = GlobalMap(job.mod, job.imp)
         /\ code'[n].maps.mems = MemMap(job.mod, job.imp)
         /\ code'[n].maps.tables = TableMap(job.mod, job.imp)
         /\ code'[n].maps.tags = TagMap(job.mod, job.imp)
<1>1. code \in Seq(Instance) /\ Len(code) \in Nat BY DEF LinkInv, TypeOK
<1>2. PICK maps : maps = [globals |-> GlobalMap(job.mod, job.imp), mems |-> MemMap(job.mod, job.imp),
                          tables |-> TableMap(job.mod, job.imp), tags |-> TagMap(job.mod, job.imp),
                          elems |-> Fresh(Len(elemVals), Len(job.mod.elems)),
                          data |-> Fresh(Len(dataDropped), Len(job.mod.data))]
  OBVIOUS
<1>3. PICK x : x = [mod |-> job.mod, imp |-> job.imp, imports |-> Targets(job.imp), maps |-> maps]
  OBVIOUS
<1>4. code' = Append(code, x) BY <1>2, <1>3 DEF Commit
<1>5. code'[n] = x /\ Len(code') = n BY <1>1, <1>4
<1>6. n \in Nat /\ n \notin Instances /\ Instances' = Instances \cup {n}
  BY <1>1, <1>5 DEF Instances
<1> QED BY <1>2, <1>3, <1>5, <1>6

\* A resource an import asks for is found in an instance that was issued.
LEMMA LinkedHere ==
  ASSUME LinkInv, NEW b, WasIssued(b), SlotOf(b) # Host
  PROVE  /\ b.store = ThisStore /\ b.inst \in issued /\ b.inst \in Instances
         /\ SlotOf(b) = b.inst
<1>1. b.store = ThisStore /\ SlotOf(b) = b.inst BY DEF SlotOf
<1> QED BY <1>1 DEF WasIssued, LinkInv, TypeOK

\* An instance there was is the same after the step.
LEMMA OldInstance ==
  ASSUME LinkInv, Commit, NEW i \in Instances
  PROVE  code'[i] = code[i] /\ i < Len(code) + 1
<1>1. StoreOnlyGrows BY CommitGrows
<1>2. Len(code) \in Nat BY DEF LinkInv, TypeOK
<1>3. i < Len(code) + 1 BY <1>2 DEF Instances
<1> QED BY <1>1, <1>3 DEF StoreOnlyGrows

\* What Commit links is what was asked: the backings were issued and name
\* instances of this store.
LEMMA AskedAtCommit ==
  ASSUME LinkInv, Asked, Commit
  PROVE  ImportsIssued(job.imp) /\ FunctionsAsked(job.mod, job.imp)
BY DEF Asked, Commit

\* An import takes the slot the exporter's own index leads to.
LEMMA FirstPart ==
  ASSUME NEW n \in Nat, NEW f, f = [k \in 1..n |-> f[k]], NEW T, \A k \in 1..n : f[k] \in T,
         NEW base \in Nat, NEW j \in Nat, NEW k \in 1..n
  PROVE  (f \o Fresh(base, j))[k] = f[k]
<1>1. f \in [1..n -> T] OBVIOUS
<1>2. f \in Seq(T) /\ Len(f) = n BY <1>1, FunctionIsSeq
<1>3. Fresh(base, j) \in Seq(Nat \ {0}) BY SegmentMapsLead DEF Slots
<1> QED BY <1>2, <1>3

\* The memory index map of the new instance holds the slots the host asked for.
LEMMA MemLinked ==
  ASSUME LinkInv, Asked, Commit, NEW n, n = Len(code) + 1
  PROVE  SameSlots(n, "mems", Len(job.mod.impMems))'
<1>1. PICK imp : imp = job.imp OBVIOUS
<1>2. PICK c \in Nat : c = Len(job.mod.impMems) BY Lengths
<1>3. ASSUME NEW k \in 1..c, NEW b, b = imp.mems[k]
      PROVE  /\ b.store = ThisStore /\ b.inst < n /\ b.inst \in issued'
             /\ code'[n].maps.mems[k] = code'[b.inst].maps.mems[b.idx]
  <2>1. k \in DOMAIN imp.mems
    <3>1. imp.mems \in Seq(Backing) /\ Len(imp.mems) = c
      BY <1>1, <1>2, Ready DEF Imports, Links
    <3> QED BY <3>1
  <2>2. SlotOf(b) # Host BY <1>1, <1>3, <2>1, Ready DEF Linked
  <2>3. WasIssued(b) BY <1>1, <1>3, <2>1, AskedAtCommit DEF ImportsIssued
  <2>4. /\ b.store = ThisStore /\ b.inst \in issued /\ b.inst \in Instances
        /\ SlotOf(b) = b.inst
    BY <2>2, <2>3, LinkedHere
  <2>5. code'[b.inst] = code[b.inst] /\ b.inst < n BY <2>4, OldInstance
  <2>6. code'[n].maps.mems[k] = code[SlotOf(b)].maps.mems[b.idx]
    <3> DEFINE f == [j \in 1..c |-> code[SlotOf(imp.mems[j])].maps.mems[imp.mems[j].idx]]
    <3>1. MemMap(job.mod, job.imp) = f \o Fresh(Len(mems), Len(job.mod.mems))
      BY <1>1, <1>2 DEF MemMap
    <3>2. f[k] = code[SlotOf(b)].maps.mems[b.idx] BY <1>3
    <3>3. \A j \in 1..c : f[j] \in {f[i] : i \in 1..c} OBVIOUS
    <3>4. f = [j \in 1..c |-> f[j]] OBVIOUS
    <3>5. Len(mems) \in Nat /\ Len(job.mod.mems) \in Nat BY Lengths
    <3> HIDE DEF f
    <3>6. (f \o Fresh(Len(mems), Len(job.mod.mems)))[k] = f[k]
      BY <3>3, <3>4, <3>5, FirstPart
    <3> QED BY <3>1, <3>2, <3>6, NewInstance
  <2>7. issued' = issued BY DEF Commit
  <2> QED BY <2>4, <2>5, <2>6, <2>7
<1>4. code'[n].imp = imp /\ c' = c BY <1>1, NewInstance
<1>5. code'[n].imp["mems"] = imp.mems /\ code'[n].maps["mems"] = code'[n].maps.mems
      /\ \A i \in Nat : code'[i].maps["mems"] = code'[i].maps.mems
  BY <1>4
<1>6. job'.mod = job.mod
  <2>1. job' = [job EXCEPT !.phase = "elems", !.next = 1] BY DEF Commit
  <2> QED BY <2>1, Ready DEF Job
<1> QED BY <1>2, <1>3, <1>5, <1>6 DEF SameSlots

\* The same for its tables.
LEMMA TableLinked ==
  ASSUME LinkInv, Asked, Commit, NEW n, n = Len(code) + 1
  PROVE  SameSlots(n, "tables", Len(job.mod.impTables))'
<1>1. PICK imp : imp = job.imp OBVIOUS
<1>2. PICK c \in Nat : c = Len(job.mod.impTables) BY Lengths
<1>3. ASSUME NEW k \in 1..c, NEW b, b = imp.tables[k]
      PROVE  /\ b.store = ThisStore /\ b.inst < n /\ b.inst \in issued'
             /\ code'[n].maps.tables[k] = code'[b.inst].maps.tables[b.idx]
  <2>1. k \in DOMAIN imp.tables
    <3>1. imp.tables \in Seq(Backing) /\ Len(imp.tables) = c
      BY <1>1, <1>2, Ready DEF Imports, Links
    <3> QED BY <3>1
  <2>2. SlotOf(b) # Host BY <1>1, <1>3, <2>1, Ready DEF Linked
  <2>3. WasIssued(b) BY <1>1, <1>3, <2>1, AskedAtCommit DEF ImportsIssued
  <2>4. /\ b.store = ThisStore /\ b.inst \in issued /\ b.inst \in Instances
        /\ SlotOf(b) = b.inst
    BY <2>2, <2>3, LinkedHere
  <2>5. code'[b.inst] = code[b.inst] /\ b.inst < n BY <2>4, OldInstance
  <2>6. code'[n].maps.tables[k] = code[SlotOf(b)].maps.tables[b.idx]
    <3> DEFINE f == [j \in 1..c |-> code[SlotOf(imp.tables[j])].maps.tables[imp.tables[j].idx]]
    <3>1. TableMap(job.mod, job.imp) = f \o Fresh(Len(tables), Len(job.mod.tables))
      BY <1>1, <1>2 DEF TableMap
    <3>2. f[k] = code[SlotOf(b)].maps.tables[b.idx] BY <1>3
    <3>3. \A j \in 1..c : f[j] \in {f[i] : i \in 1..c} OBVIOUS
    <3>4. f = [j \in 1..c |-> f[j]] OBVIOUS
    <3>5. Len(tables) \in Nat /\ Len(job.mod.tables) \in Nat BY Lengths
    <3> HIDE DEF f
    <3>6. (f \o Fresh(Len(tables), Len(job.mod.tables)))[k] = f[k]
      BY <3>3, <3>4, <3>5, FirstPart
    <3> QED BY <3>1, <3>2, <3>6, NewInstance
  <2>7. issued' = issued BY DEF Commit
  <2> QED BY <2>4, <2>5, <2>6, <2>7
<1>4. code'[n].imp = imp /\ c' = c BY <1>1, NewInstance
<1>5. code'[n].imp["tables"] = imp.tables /\ code'[n].maps["tables"] = code'[n].maps.tables
      /\ \A i \in Nat : code'[i].maps["tables"] = code'[i].maps.tables
  BY <1>4
<1>6. job'.mod = job.mod
  <2>1. job' = [job EXCEPT !.phase = "elems", !.next = 1] BY DEF Commit
  <2> QED BY <2>1, Ready DEF Job
<1> QED BY <1>2, <1>3, <1>5, <1>6 DEF SameSlots

\* The same for its tags.
LEMMA TagLinked ==
  ASSUME LinkInv, Asked, Commit, NEW n, n = Len(code) + 1
  PROVE  SameSlots(n, "tags", Len(job.mod.impTags))'
<1>1. PICK imp : imp = job.imp OBVIOUS
<1>2. PICK c \in Nat : c = Len(job.mod.impTags) BY Lengths
<1>3. ASSUME NEW k \in 1..c, NEW b, b = imp.tags[k]
      PROVE  /\ b.store = ThisStore /\ b.inst < n /\ b.inst \in issued'
             /\ code'[n].maps.tags[k] = code'[b.inst].maps.tags[b.idx]
  <2>1. k \in DOMAIN imp.tags
    <3>1. imp.tags \in Seq(Backing) /\ Len(imp.tags) = c
      BY <1>1, <1>2, Ready DEF Imports, Links
    <3> QED BY <3>1
  <2>2. SlotOf(b) # Host BY <1>1, <1>3, <2>1, Ready DEF Linked
  <2>3. WasIssued(b) BY <1>1, <1>3, <2>1, AskedAtCommit DEF ImportsIssued
  <2>4. /\ b.store = ThisStore /\ b.inst \in issued /\ b.inst \in Instances
        /\ SlotOf(b) = b.inst
    BY <2>2, <2>3, LinkedHere
  <2>5. code'[b.inst] = code[b.inst] /\ b.inst < n BY <2>4, OldInstance
  <2>6. code'[n].maps.tags[k] = code[SlotOf(b)].maps.tags[b.idx]
    <3> DEFINE f == [j \in 1..c |-> code[SlotOf(imp.tags[j])].maps.tags[imp.tags[j].idx]]
    <3>1. TagMap(job.mod, job.imp) = f \o Fresh(Len(tags), Len(job.mod.tags))
      BY <1>1, <1>2 DEF TagMap
    <3>2. f[k] = code[SlotOf(b)].maps.tags[b.idx] BY <1>3
    <3>3. \A j \in 1..c : f[j] \in {f[i] : i \in 1..c} OBVIOUS
    <3>4. f = [j \in 1..c |-> f[j]] OBVIOUS
    <3>5. Len(tags) \in Nat /\ Len(job.mod.tags) \in Nat BY Lengths
    <3> HIDE DEF f
    <3>6. (f \o Fresh(Len(tags), Len(job.mod.tags)))[k] = f[k]
      BY <3>3, <3>4, <3>5, FirstPart
    <3> QED BY <3>1, <3>2, <3>6, NewInstance
  <2>7. issued' = issued BY DEF Commit
  <2> QED BY <2>4, <2>5, <2>6, <2>7
<1>4. code'[n].imp = imp /\ c' = c BY <1>1, NewInstance
<1>5. code'[n].imp["tags"] = imp.tags /\ code'[n].maps["tags"] = code'[n].maps.tags
      /\ \A i \in Nat : code'[i].maps["tags"] = code'[i].maps.tags
  BY <1>4
<1>6. job'.mod = job.mod
  <2>1. job' = [job EXCEPT !.phase = "elems", !.next = 1] BY DEF Commit
  <2> QED BY <2>1, Ready DEF Job
<1> QED BY <1>2, <1>3, <1>5, <1>6 DEF SameSlots

\* The same for the globals it shares.
LEMMA GlobalLinked ==
  ASSUME LinkInv, Asked, Commit, NEW n, n = Len(code) + 1
  PROVE  SameSlots(n, "globals", Len(job.mod.impGlobals))'
<1>1. PICK imp : imp = job.imp OBVIOUS
<1>2. PICK c \in Nat : c = Len(job.mod.impGlobals) BY Lengths
<1>3. ASSUME NEW k \in 1..c, NEW b, b = imp.globals[k], b.store # Host
      PROVE  /\ b.store = ThisStore /\ b.inst < n /\ b.inst \in issued'
             /\ code'[n].maps.globals[k] = code'[b.inst].maps.globals[b.idx]
  <2>1. k \in DOMAIN imp.globals
    <3>1. /\ imp.globals \in Seq([store : Nat, inst : Nat, idx : Nat, val : Ref])
          /\ Len(imp.globals) = c
      BY <1>1, <1>2, Ready DEF Imports, Links, GlobalLinks
    <3> QED BY <3>1
  <2>2. b.store = ThisStore /\ b.inst \in Instances
    BY <1>1, <1>3, <2>1, Ready DEF Links, GlobalLinks
  <2>3. WasIssued(b) BY <1>1, <1>3, <2>1, AskedAtCommit DEF ImportsIssued
  <2>4. b.inst \in issued BY <2>2, <2>3 DEF WasIssued
  <2>5. code'[b.inst] = code[b.inst] /\ b.inst < n BY <2>2, OldInstance
  <2>6. code'[n].maps.globals[k] = code[b.inst].maps.globals[b.idx]
    <3>1. PICK top : top = Len(globals) + Len(job.mod.globals) OBVIOUS
    <3> DEFINE f == [j \in 1..c |->
                       IF imp.globals[j].store = Host
                       THEN top + Cardinality(FromHost(imp, j))
                       ELSE code[SlotOf(imp.globals[j])].maps.globals[imp.globals[j].idx]]
    <3>2. GlobalMap(job.mod, job.imp) = f \o Fresh(Len(globals), Len(job.mod.globals))
      BY <1>1, <1>2, <3>1 DEF GlobalMap
    <3>3. SlotOf(b) = b.inst BY <2>2 DEF SlotOf, Instances
    <3>4. f[k] = code[b.inst].maps.globals[b.idx] BY <1>3, <3>3
    <3>5. \A j \in 1..c : f[j] \in {f[i] : i \in 1..c} OBVIOUS
    <3>6. f = [j \in 1..c |-> f[j]] OBVIOUS
    <3>7. Len(globals) \in Nat /\ Len(job.mod.globals) \in Nat BY Lengths
    <3> HIDE DEF f
    <3>8. (f \o Fresh(Len(globals), Len(job.mod.globals)))[k] = f[k]
      BY <3>5, <3>6, <3>7, FirstPart
    <3> QED BY <3>2, <3>4, <3>8, NewInstance
  <2>7. issued' = issued BY DEF Commit
  <2> QED BY <2>2, <2>4, <2>5, <2>6, <2>7
<1>4. code'[n].imp = imp /\ c' = c BY <1>1, NewInstance
<1>5. code'[n].imp["globals"] = imp.globals /\ code'[n].maps["globals"] = code'[n].maps.globals
      /\ \A i \in Nat : code'[i].maps["globals"] = code'[i].maps.globals
  BY <1>4
<1>6. job'.mod = job.mod
  <2>1. job' = [job EXCEPT !.phase = "elems", !.next = 1] BY DEF Commit
  <2> QED BY <2>1, Ready DEF Job
<1> QED BY <1>2, <1>3, <1>5, <1>6 DEF SameSlots

\* A function import is to be called in the very instance the host named.
LEMMA FuncLinked ==
  ASSUME LinkInv, Asked, Commit, NEW n, n = Len(code) + 1,
         NEW f \in 1..Len(job.mod.impFuncs), NEW b, b = job.imp.funcs[f]
  PROVE  /\ code'[n].imp.funcs[f] = b /\ FunctionAsked(job.mod.impFuncs[f], b)
         /\ b.store = Host => code'[n].imports[f] = <<Host, 0>>
         /\ b.store # Host => /\ b.store = ThisStore /\ b.inst < n /\ b.inst \in issued'
                              /\ b.inst \in Instances /\ SlotOf(b) = b.inst
                              /\ b.idx \in 1..NumFuncs(code[b.inst].mod)
                              /\ code'[n].imports[f] = <<b.inst, b.idx>>
<1>1. /\ code'[n].imp = job.imp /\ code'[n].imports = Targets(job.imp) BY NewInstance
<1>2. FunctionsAsked(job.mod, job.imp) BY AskedAtCommit
<1>3. f \in DOMAIN job.imp.funcs /\ FunctionAsked(job.mod.impFuncs[f], b)
  BY <1>2 DEF FunctionsAsked
<1>4. Targets(job.imp)[f] = IF b.store = Host THEN <<Host, 0>> ELSE <<SlotOf(b), b.idx>>
  BY <1>3 DEF Targets
<1>5. CASE b.store # Host
  <2>1. WasIssued(b) /\ InSpace(b, NumFuncs) /\ FuncMatches(job.mod.impFuncs[f], b)
    BY <1>3 DEF FunctionAsked
  <2>2. SlotOf(b) # Host BY <1>5, <2>1 DEF FuncMatches
  <2>3. /\ b.store = ThisStore /\ b.inst \in issued /\ b.inst \in Instances
        /\ SlotOf(b) = b.inst
    BY <2>1, <2>2, LinkedHere
  <2>4. b.inst < n BY <2>3, OldInstance
  <2>5. issued' = issued BY DEF Commit
  <2>6. b.idx \in 1..NumFuncs(code[b.inst].mod) BY <2>1, <2>2, <2>3 DEF InSpace
  <2> QED BY <1>1, <1>3, <1>4, <1>5, <2>3, <2>4, <2>5, <2>6
<1>6. CASE b.store = Host
  BY <1>1, <1>3, <1>4, <1>6
<1> QED BY <1>5, <1>6

\* Only Commit links, and it links what was asked.
LEMMA NextLinks ==
  ASSUME LinkInv, Asked, LinksAreWhatWasAsked, [Next]_vars
  PROVE  LinksAreWhatWasAsked'
<1> DEFINE Fine(i) ==
      /\ SameSlots(i, "globals", Len(code[i].mod.impGlobals))
      /\ SameSlots(i, "mems", Len(code[i].mod.impMems))
      /\ SameSlots(i, "tables", Len(code[i].mod.impTables))
      /\ SameSlots(i, "tags", Len(code[i].mod.impTags))
      /\ \A f \in 1..Len(code[i].mod.impFuncs) :
           LET b == code[i].imp.funcs[f]
           IN  IF b.store = Host THEN code[i].imports[f][1] = Host
               ELSE /\ b.store = ThisStore /\ b.inst < i /\ b.inst \in issued
                    /\ code[i].imports[f] = <<b.inst, b.idx>>
<1>1. StoreOnlyGrows BY NextOnlyGrows
<1>2. ASSUME NEW i \in Instances PROVE Fine(i)'
  <2>1. code'[i] = code[i] BY <1>1 DEF StoreOnlyGrows
  <2> QED BY <1>1, <2>1, LinksStayAsked
<1>3. CASE ~Commit
  <2>1. Instances' = Instances BY <1>3, CodeStays DEF Instances
  <2> QED BY <1>2, <2>1 DEF LinksAreWhatWasAsked
<1>4. CASE Commit
  <2>1. PICK n : n = Len(code) + 1 OBVIOUS
  <2>2. Instances' = Instances \cup {n} /\ code'[n].mod = job.mod
    BY <1>4, <2>1, NewInstance
  <2>3. job'.mod = job.mod
    <3>1. job' = [job EXCEPT !.phase = "elems", !.next = 1] BY <1>4 DEF Commit
    <3> QED BY <1>4, <3>1, Ready DEF Job
  <2>4. /\ SameSlots(n, "globals", Len(job.mod.impGlobals))'
        /\ SameSlots(n, "mems", Len(job.mod.impMems))'
        /\ SameSlots(n, "tables", Len(job.mod.impTables))'
        /\ SameSlots(n, "tags", Len(job.mod.impTags))'
    BY <1>4, <2>1, GlobalLinked, MemLinked, TableLinked, TagLinked
  <2>5. \A f \in 1..Len(job.mod.impFuncs) :
           LET b == code'[n].imp.funcs[f]
           IN  IF b.store = Host THEN code'[n].imports[f][1] = Host
               ELSE /\ b.store = ThisStore /\ b.inst < n /\ b.inst \in issued'
                    /\ code'[n].imports[f] = <<b.inst, b.idx>>
    BY <1>4, <2>1, FuncLinked
  <2>6. Fine(n)' BY <2>2, <2>3, <2>4, <2>5 DEF SameSlots
  <2> QED BY <1>2, <2>2, <2>6 DEF LinksAreWhatWasAsked
<1> QED BY <1>3, <1>4

\* Every step keeps the invariant about links.
LEMMA NextKeepsLinks ==
  ASSUME AskedInv, [Next]_vars
  PROVE  AskedInv'
BY NextKeepsOrder, NextAsks, NextLinks DEF AskedInv

\* An empty store has no links.
LEMMA InitIsAsked ==
  ASSUME Init
  PROVE  AskedInv
<1>1. Instances = {} BY DEF Init, Instances
<1>2. LinksAreWhatWasAsked BY <1>1 DEF LinksAreWhatWasAsked
<1>3. Asked BY DEF Init, Idle, Asked
<1> QED BY <1>2, <1>3, InitIsInOrder DEF AskedInv

\* The invariant about links holds of the store: every import of every
\* instance, and every backing the running instantiation holds, is what the
\* host asked for (Store::instantiate).
THEOREM StoreIsAsked == Spec => []AskedInv
<1>1. Init => AskedInv BY InitIsAsked
<1>2. AskedInv /\ [Next]_vars => AskedInv' BY NextKeepsLinks
<1> QED BY <1>1, <1>2, PTL DEF Spec

\* What an import index leads to is exactly what the host asked for: the same
\* slot or function as the named index of the named instance, which belongs to
\* this store, was issued to the host and is older than the importer
\* (Store::slot, instantiate).
THEOREM AlwaysLinksAreWhatWasAsked == Spec => []LinksAreWhatWasAsked
<1>1. AskedInv => LinksAreWhatWasAsked BY DEF AskedInv
<1> QED BY <1>1, StoreIsAsked, PTL

-----------------------------------------------------------------------------
(* Following a function through re-exports.  A chain of imports goes down: *)
(* an instance imports from older ones only, so it ends within as many     *)
(* hops as there are instances, and what it ends at stays the same when    *)
(* younger instances join the store.  The code is a parameter here, so as  *)
(* to speak of it before and after a step.                                 *)

HopIn(cd, p) == IF p[1] # Host /\ IsImport(cd[p[1]].mod, p[2])
                THEN cd[p[1]].imports[p[2]] ELSE p
Trail(cd, p, N) == CHOOSE g : g = [n \in 0..N |-> IF n = 0 THEN p ELSE HopIn(cd, g[n - 1])]
TrailEnd(cd, p, N) == Trail(cd, p, N)[N]

\* A point of a chain: a function of an instance, or a host function.
Point(cd, p) == \/ p[1] = Host
                \/ p[1] \in 1..Len(cd) /\ p[2] \in 1..NumFuncs(cd[p[1]].mod)
SigAt(cd, p) == SigOf[FuncType(cd[p[1]].mod, p[2])]

\* An import leads to an older instance, to a function of the same shape.
ImportLeads(cd, i, f) ==
  LET t == cd[i].imports[f]
  IN  \/ t[1] = Host
      \/ t[1] < i /\ Point(cd, t) /\ SigAt(cd, t) = SigOf[cd[i].mod.impFuncs[f].ty]
ImportsLead(cd) == \A i \in 1..Len(cd) : \A f \in 1..Len(cd[i].mod.impFuncs) : ImportLeads(cd, i, f)
CodeShape(cd) == /\ Len(cd) \in Nat
                 /\ \A i \in 1..Len(cd) : Len(cd[i].mod.impFuncs) \in Nat

\* Such a walk exists, for any number of steps.
LEMMA TrailExists ==
  ASSUME NEW cd, NEW p, NEW N \in Nat
  PROVE  \E g : g = [n \in 0..N |-> IF n = 0 THEN p ELSE HopIn(cd, g[n - 1])]
<1> DEFINE Walk(g, k) == g = [n \in 0..k |-> IF n = 0 THEN p ELSE HopIn(cd, g[n - 1])]
           S == {k \in Nat : \E g : Walk(g, k)}
<1>1. 0 \in S
  <2> DEFINE g == [n \in 0..0 |-> p]
  <2>1. g = [n \in 0..0 |-> IF n = 0 THEN p ELSE HopIn(cd, g[n - 1])] OBVIOUS
  <2> QED BY <2>1
<1>2. ASSUME NEW k \in Nat, k \in S PROVE k + 1 \in S
  <2>1. PICK f : Walk(f, k) BY <1>2
  <2> DEFINE g == [n \in 0..(k + 1) |-> IF n = k + 1 THEN HopIn(cd, f[k]) ELSE f[n]]
  <2>2. \A n \in 0..k : f[n] = IF n = 0 THEN p ELSE HopIn(cd, f[n - 1]) BY <2>1
  <2>3. \A n \in 0..k : g[n] = f[n] OBVIOUS
  <2>4. g[k + 1] = HopIn(cd, g[k]) BY <2>3
  <2>5. \A n \in 0..(k + 1) : g[n] = IF n = 0 THEN p ELSE HopIn(cd, g[n - 1])
    <3> SUFFICES ASSUME NEW n \in 0..(k + 1)
                 PROVE  g[n] = IF n = 0 THEN p ELSE HopIn(cd, g[n - 1])
      OBVIOUS
    <3>1. CASE n = k + 1 BY <2>4, <3>1
    <3>2. CASE n # k + 1 /\ n # 0
      <4>1. n \in 0..k /\ n - 1 \in 0..k BY <3>2
      <4>2. g[n] = f[n] /\ g[n - 1] = f[n - 1] /\ f[n] = HopIn(cd, f[n - 1])
        BY <2>2, <2>3, <3>2, <4>1
      <4> QED BY <3>2, <4>2
    <3>3. CASE n = 0 BY <2>2, <2>3, <3>3
    <3> QED BY <3>1, <3>2, <3>3
  <2>6. g = [n \in 0..(k + 1) |-> g[n]] OBVIOUS
  <2> HIDE DEF g
  <2>7. Walk(g, k + 1) BY <2>5, <2>6
  <2> QED BY <2>7
<1> HIDE DEF S
<1>3. N \in S BY <1>1, <1>2, NatSetInduction
<1> QED BY <1>3 DEF S

\* The trail takes a hop at a time.
LEMMA TrailSteps ==
  ASSUME NEW cd, NEW p, NEW N \in Nat, NEW g, g = Trail(cd, p, N)
  PROVE  /\ g[0] = p
         /\ \A n \in Nat : n < N => g[n + 1] = HopIn(cd, g[n])
<1>1. g = [n \in 0..N |-> IF n = 0 THEN p ELSE HopIn(cd, g[n - 1])]
  BY TrailExists DEF Trail
<1>2. g[0] = p
  <2>1. 0 \in 0..N OBVIOUS
  <2> QED BY <1>1, <2>1
<1>3. ASSUME NEW n \in Nat, n < N PROVE g[n + 1] = HopIn(cd, g[n])
  <2>1. n + 1 \in 0..N /\ n + 1 # 0 /\ (n + 1) - 1 = n BY <1>3
  <2> QED BY <1>1, <2>1
<1> QED BY <1>2, <1>3

\* One hop.
LEMMA HopLeads ==
  ASSUME NEW cd, CodeShape(cd), ImportsLead(cd), NEW p, Point(cd, p), NEW q, q = HopIn(cd, p)
  PROVE  /\ Point(cd, q)
         /\ q[1] # Host => p[1] # Host /\ SigAt(cd, q) = SigAt(cd, p)
         /\ q = p \/ HopIn(cd, q) = q \/ q[1] < p[1]
<1>1. CASE q = p BY <1>1
<1>2. CASE q # p
  <2>1. p[1] # Host /\ IsImport(cd[p[1]].mod, p[2]) /\ q = cd[p[1]].imports[p[2]]
    BY <1>2 DEF HopIn
  <2>2. p[1] \in 1..Len(cd) /\ p[2] \in 1..NumFuncs(cd[p[1]].mod) BY <2>1 DEF Point
  <2>3. p[2] \in 1..Len(cd[p[1]].mod.impFuncs)
    <3>1. Len(cd[p[1]].mod.impFuncs) \in Nat BY <2>2 DEF CodeShape
    <3>2. p[2] <= Len(cd[p[1]].mod.impFuncs) BY <2>1 DEF IsImport
    <3>3. p[2] \in Int /\ p[2] >= 1 BY <2>2
    <3> QED BY <3>1, <3>2, <3>3
  <2>4. ImportLeads(cd, p[1], p[2]) BY <2>2, <2>3 DEF ImportsLead
  <2>5. SigAt(cd, p) = SigOf[cd[p[1]].mod.impFuncs[p[2]].ty]
    BY <2>1 DEF SigAt, FuncType
  <2>6. CASE q[1] = Host BY <2>6 DEF Point, HopIn
  <2>7. CASE q[1] # Host BY <2>1, <2>4, <2>5, <2>7 DEF ImportLeads
  <2> QED BY <2>6, <2>7
<1> QED BY <1>1, <1>2

\* Where a walk of n hops from p may be.
Walked(cd, p, n, q) ==
  /\ Point(cd, q)
  /\ q[1] # Host => p[1] # Host /\ SigAt(cd, q) = SigAt(cd, p)
  /\ HopIn(cd, q) = q \/ q[1] <= p[1] - n

\* While it has not settled, a trail walks down to older and older instances.
LEMMA TrailWalks ==
  ASSUME NEW cd, CodeShape(cd), ImportsLead(cd), NEW p, Point(cd, p), NEW N \in Nat,
         NEW g, g = Trail(cd, p, N), NEW n \in 0..N
  PROVE  Walked(cd, p, n, g[n])
<1> DEFINE S == {k \in Nat : k <= N => Walked(cd, p, k, g[k])}
<1>1. 0 \in S
  <2>1. g[0] = p BY TrailSteps
  <2>2. HopIn(cd, p) = p \/ p[1] <= p[1] - 0 BY DEF Point, HopIn, Host
  <2> QED BY <2>1, <2>2 DEF Walked
<1>2. ASSUME NEW k \in Nat, k \in S PROVE k + 1 \in S
  <2> SUFFICES ASSUME k + 1 <= N PROVE Walked(cd, p, k + 1, g[k + 1])
    OBVIOUS
  <2>1. k <= N /\ k < N OBVIOUS
  <2>2. PICK q : q = g[k] OBVIOUS
  <2>3. PICK r : r = g[k + 1] OBVIOUS
  <2>4. Walked(cd, p, k, q) BY <1>2, <2>1, <2>2
  <2>5. r = HopIn(cd, q) BY <2>1, <2>2, <2>3, TrailSteps
  <2>6. /\ Point(cd, r)
        /\ r[1] # Host => q[1] # Host /\ SigAt(cd, r) = SigAt(cd, q)
        /\ r = q \/ HopIn(cd, r) = r \/ r[1] < q[1]
    BY <2>4, <2>5, HopLeads DEF Walked
  <2>7. HopIn(cd, r) = r \/ r[1] <= p[1] - (k + 1)
    <3>1. SUFFICES ASSUME HopIn(cd, r) # r PROVE r[1] <= p[1] - (k + 1)
      OBVIOUS
    <3>2. r # q /\ r[1] < q[1] BY <2>5, <2>6, <3>1
    <3>3. HopIn(cd, q) # q BY <2>5, <3>2
    <3>4. q[1] <= p[1] - k BY <2>4, <3>3 DEF Walked
    <3>5. q[1] \in Nat /\ r[1] \in Nat /\ p[1] \in Nat
      BY <2>4, <2>6 DEF Walked, Point, Host
    <3> QED BY <3>2, <3>4, <3>5
  <2>8. r[1] # Host => p[1] # Host /\ SigAt(cd, r) = SigAt(cd, p)
    BY <2>4, <2>6 DEF Walked
  <2> QED BY <2>3, <2>6, <2>7, <2>8 DEF Walked
<1> HIDE DEF S
<1>3. n \in S BY <1>1, <1>2, NatSetInduction
<1> QED BY <1>3 DEF S

\* The walk ends: at a host function or at one its instance defines, of the
\* same shape as every function on the way.
LEMMA TrailSettles ==
  ASSUME NEW cd, CodeShape(cd), ImportsLead(cd), NEW p, Point(cd, p),
         NEW N, N = Len(cd), NEW e, e = TrailEnd(cd, p, N)
  PROVE  /\ Point(cd, e) /\ HopIn(cd, e) = e
         /\ e[1] # Host => p[1] # Host /\ SigAt(cd, e) = SigAt(cd, p)
<1>1. N \in Nat BY DEF CodeShape
<1>2. Walked(cd, p, N, e)
  <2>1. PICK g : g = Trail(cd, p, N) OBVIOUS
  <2>2. Walked(cd, p, N, g[N]) BY <1>1, <2>1, TrailWalks
  <2> QED BY <2>1, <2>2 DEF TrailEnd
<1>3. HopIn(cd, e) = e
  <2>1. SUFFICES ASSUME HopIn(cd, e) # e PROVE FALSE
    OBVIOUS
  <2>2. e[1] # Host /\ e[1] \in Nat BY <1>2, <2>1 DEF HopIn, Walked, Point
  <2>3. e[1] <= p[1] - N /\ p[1] # Host BY <1>2, <2>1, <2>2 DEF Walked
  <2>4. p[1] \in 1..N BY <2>3 DEF Point
  <2> QED BY <1>1, <2>2, <2>3, <2>4 DEF Host
<1> QED BY <1>2, <1>3 DEF Walked

\* Younger instances do not change where a walk from an older one ends.
Extended(cd, cd2) == \A i \in 1..Len(cd) : cd2[i] = cd[i]

\* A hop from an instance there was leads where it led.
LEMMA HopStays ==
  ASSUME NEW cd, NEW cd2, Extended(cd, cd2), NEW p, Point(cd, p)
  PROVE  HopIn(cd2, p) = HopIn(cd, p)
BY DEF Extended, Point, HopIn

\* A trail from an instance there was stays as it is when instances join.
LEMMA TrailStays ==
  ASSUME NEW cd, CodeShape(cd), ImportsLead(cd), NEW cd2, Extended(cd, cd2),
         NEW p, Point(cd, p), NEW N, N = Len(cd)
  PROVE  TrailEnd(cd2, p, N + 1) = TrailEnd(cd, p, N)
<1>1. PICK g : g = Trail(cd, p, N) OBVIOUS
<1>2. PICK h : h = Trail(cd2, p, N + 1) OBVIOUS
<1>3. N \in Nat /\ N + 1 \in Nat BY DEF CodeShape
<1> DEFINE S == {k \in Nat : k <= N => h[k] = g[k]}
<1>4. 0 \in S BY <1>1, <1>2, <1>3, TrailSteps
<1>5. ASSUME NEW k \in Nat, k \in S PROVE k + 1 \in S
  <2> SUFFICES ASSUME k + 1 <= N PROVE h[k + 1] = g[k + 1]
    OBVIOUS
  <2>1. k < N /\ k <= N /\ k < N + 1 /\ k \in 0..N BY <1>3
  <2>2. h[k] = g[k] BY <1>5, <2>1
  <2>3. g[k + 1] = HopIn(cd, g[k]) BY <1>1, <1>3, <2>1, TrailSteps
  <2>4. h[k + 1] = HopIn(cd2, h[k]) BY <1>2, <1>3, <2>1, TrailSteps
  <2>5. Point(cd, g[k]) BY <1>1, <1>3, <2>1, TrailWalks DEF Walked
  <2> QED BY <2>2, <2>3, <2>4, <2>5, HopStays
<1> HIDE DEF S
<1>6. N \in S BY <1>3, <1>4, <1>5, NatSetInduction
<1>7. h[N] = g[N] BY <1>3, <1>6 DEF S
<1>8. h[N + 1] = HopIn(cd2, h[N]) BY <1>2, <1>3, TrailSteps
<1>9. Point(cd, g[N]) /\ HopIn(cd, g[N]) = g[N] BY <1>1, TrailSettles DEF TrailEnd
<1>10. h[N + 1] = g[N] BY <1>7, <1>8, <1>9, HopStays
<1> QED BY <1>1, <1>2, <1>10 DEF TrailEnd

\* A walk from the youngest instance goes on as the one from its first target.
LEMMA TrailFromImport ==
  ASSUME NEW cd, CodeShape(cd), ImportsLead(cd), NEW cd2, Extended(cd, cd2),
         NEW p, NEW t, t = HopIn(cd2, p), Point(cd, t), NEW N, N = Len(cd)
  PROVE  TrailEnd(cd2, p, N + 1) = TrailEnd(cd, t, N)
<1>1. PICK g : g = Trail(cd, t, N) OBVIOUS
<1>2. PICK h : h = Trail(cd2, p, N + 1) OBVIOUS
<1>3. N \in Nat /\ N + 1 \in Nat BY DEF CodeShape
<1> DEFINE S == {k \in Nat : k <= N => h[k + 1] = g[k]}
<1>4. 0 \in S
  <2>1. h[0] = p /\ h[0 + 1] = HopIn(cd2, h[0])
    <3>1. 0 < N + 1 /\ 0 \in Nat BY <1>3
    <3> QED BY <1>2, <1>3, <3>1, TrailSteps
  <2>2. g[0] = t BY <1>1, <1>3, TrailSteps
  <2> QED BY <2>1, <2>2
<1>5. ASSUME NEW k \in Nat, k \in S PROVE k + 1 \in S
  <2> SUFFICES ASSUME k + 1 <= N PROVE h[(k + 1) + 1] = g[k + 1]
    OBVIOUS
  <2>1. k < N /\ k <= N /\ k + 1 < N + 1 /\ k \in 0..N /\ k + 1 \in Nat BY <1>3
  <2>2. h[k + 1] = g[k] BY <1>5, <2>1
  <2>3. g[k + 1] = HopIn(cd, g[k]) BY <1>1, <1>3, <2>1, TrailSteps
  <2>4. h[(k + 1) + 1] = HopIn(cd2, h[k + 1]) BY <1>2, <1>3, <2>1, TrailSteps
  <2>5. Point(cd, g[k]) BY <1>1, <1>3, <2>1, TrailWalks DEF Walked
  <2> QED BY <2>2, <2>3, <2>4, <2>5, HopStays
<1> HIDE DEF S
<1>6. N \in S BY <1>3, <1>4, <1>5, NatSetInduction
<1>7. h[N + 1] = g[N] BY <1>3, <1>6 DEF S
<1> QED BY <1>1, <1>2, <1>7 DEF TrailEnd

\* What defining_func computes.
LEMMA DefiningEnds ==
  ASSUME NEW i, NEW f
  PROVE  /\ DefiningFunc(i, f) = TrailEnd(code, <<i, f>>, Len(code))
         /\ DefiningFunc(i, f)' = TrailEnd(code', <<i, f>>, Len(code'))
BY DEF DefiningFunc, Chase, Hop, TrailEnd, Trail, HopIn

-----------------------------------------------------------------------------
(* No wrong call.  The shape of a function is the same all along a chain   *)
(* of imports, and each import was checked against its first hop.          *)

TypedInv == AskedInv /\ ImportsLead(code) /\ ExactImportsAreExact
CallsInv == TypedInv /\ CalleesHaveTheCallersType

\* The code of the store and its imports have the shapes trails are followed over.
LEMMA CodeHasShape ==
  ASSUME LinkInv
  PROVE  /\ CodeShape(code) /\ code \in Seq(Instance) /\ Len(code) \in Nat
         /\ Instances = 1..Len(code)
         /\ \A i \in Instances : code[i] \in Instance /\ code[i].mod \in Modules
<1>1. code \in Seq(Instance) /\ Len(code) \in Nat BY DEF LinkInv, TypeOK
<1>2. ASSUME NEW i \in 1..Len(code) PROVE code[i] \in Instance /\ code[i].mod \in Modules
  <2>1. code[i] \in Instance BY <1>1
  <2> QED BY <2>1 DEF Instance
<1>3. ASSUME NEW m \in Modules PROVE Len(m.impFuncs) \in Nat
  BY ModulesAreValid DEF ModuleShape
<1> QED BY <1>1, <1>2, <1>3 DEF CodeShape, Instances

\* The function that runs has the shape of the function that was named.
LEMMA DefiningShape ==
  ASSUME LinkInv, ImportsLead(code), NEW i, NEW f, Point(code, <<i, f>>),
         NEW p, p = DefiningFunc(i, f)
  PROVE  /\ Point(code, p)
         /\ p[1] # Host => i # Host /\ SigAt(code, p) = SigAt(code, <<i, f>>)
<1>1. p = TrailEnd(code, <<i, f>>, Len(code)) BY DefiningEnds
<1> QED BY <1>1, CodeHasShape, TrailSettles

\* The types of functions are compared where they were declared.
LEMMA TypeOfSig ==
  ASSUME NEW p
  PROVE  SigOf[TypeOf(p)] = SigAt(code, p)
BY DEF TypeOf, SigAt

\* What may back an import has the signature the import declares.
LEMMA ImportableSig ==
  ASSUME NEW i, NEW f, NEW want, Importable(i, f, want)
  PROVE  SigAt(code, <<i, f>>) = SigOf[want]
<1>1. SigAt(code, <<i, f>>) = SigOf[FuncType(code[i].mod, f)] BY DEF SigAt
<1>2. CASE IsImport(code[i].mod, f) BY <1>1, <1>2 DEF Importable
<1>3. CASE ~IsImport(code[i].mod, f)
  <2>1. <<FuncType(code[i].mod, f), want>> \in SubType BY <1>3 DEF Importable, IsSubType
  <2> QED BY <1>1, <2>1, SubTypesShareSig
<1> QED BY <1>2, <1>3

\* Whatever backs an import has the shape of its declaration.
LEMMA MatchesSig ==
  ASSUME LinkInv, ImportsLead(code), NEW decl, NEW b, FuncMatches(decl, b), InSpace(b, NumFuncs),
         b.store # Host
  PROVE  /\ Point(code, <<SlotOf(b), b.idx>>)
         /\ SigAt(code, <<SlotOf(b), b.idx>>) = SigOf[decl.ty]
<1>1. SlotOf(b) # Host /\ SlotOf(b) \in Instances /\ b.idx \in 1..NumFuncs(code[SlotOf(b)].mod)
  BY SlotIsInstance DEF FuncMatches, InSpace
<1>2. PICK t : t = <<SlotOf(b), b.idx>> OBVIOUS
<1>3. Point(code, t) BY <1>1, <1>2 DEF Point, Instances
<1>4. CASE decl.exact
  <2>1. PICK p : p = DefiningFunc(SlotOf(b), b.idx) OBVIOUS
  <2>2. p[1] # Host /\ TypeOf(p) = decl.ty BY <1>1, <1>4, <2>1 DEF FuncMatches
  <2>3. SigAt(code, p) = SigAt(code, t) BY <1>2, <1>3, <2>1, <2>2, DefiningShape
  <2> QED BY <1>2, <1>3, <2>2, <2>3, TypeOfSig
<1>5. CASE ~decl.exact
  <2>1. Importable(SlotOf(b), b.idx, decl.ty) BY <1>1, <1>5 DEF FuncMatches
  <2> QED BY <1>2, <1>3, <2>1, ImportableSig
<1> QED BY <1>4, <1>5

\* Each import of a new instance leads to an older instance's function of its
\* signature.
LEMMA CommitImports ==
  ASSUME TypedInv, Commit
  PROVE  ImportsLead(code')
<1>1. LinkInv /\ Asked /\ ImportsLead(code) BY DEF TypedInv, AskedInv
<1>2. PICK n : n = Len(code) + 1 OBVIOUS
<1>3. /\ Instances' = Instances \cup {n} /\ Instances = 1..Len(code) /\ n \notin Instances
      /\ code'[n].mod = job.mod /\ Len(code') = n
  BY <1>1, <1>2, NewInstance, CommitExtends, CodeHasShape
<1>4. \A i \in Instances : code'[i] = code[i] BY <1>1, OldInstance
<1>5. \A t : Point(code, t) => Point(code', t) /\ (t[1] # Host => SigAt(code', t) = SigAt(code, t))
  <2>1. \A i \in 1..Len(code) : i \in 1..Len(code')
    BY <1>2, <1>3, CodeHasShape, <1>1 DEF Instances
  <2> QED BY <1>3, <1>4, <2>1 DEF Point, SigAt
<1>6. ASSUME NEW i \in Instances, NEW f \in 1..Len(code'[i].mod.impFuncs)
      PROVE  ImportLeads(code', i, f)
  <2>1. code'[i] = code[i] BY <1>4
  <2>2. ImportLeads(code, i, f) BY <1>1, <1>3, <2>1 DEF ImportsLead
  <2>3. PICK t : t = code[i].imports[f] OBVIOUS
  <2>4. t[1] = Host \/ (t[1] < i /\ Point(code, t) /\ SigAt(code, t) = SigOf[code[i].mod.impFuncs[f].ty])
    BY <2>2, <2>3 DEF ImportLeads
  <2> QED BY <1>5, <2>1, <2>3, <2>4 DEF ImportLeads
<1>7. ASSUME NEW f \in 1..Len(job.mod.impFuncs) PROVE ImportLeads(code', n, f)
  <2>1. PICK b : b = job.imp.funcs[f] OBVIOUS
  <2>2. FunctionAsked(job.mod.impFuncs[f], b) BY <1>1, <1>2, <2>1, FuncLinked
  <2>3. CASE b.store = Host
    <3>1. code'[n].imports[f] = <<Host, 0>> BY <1>1, <1>2, <2>1, <2>3, FuncLinked
    <3> QED BY <3>1 DEF ImportLeads
  <2>4. CASE b.store # Host
    <3>1. /\ b.inst < n /\ SlotOf(b) = b.inst /\ b.inst \in Instances
          /\ code'[n].imports[f] = <<b.inst, b.idx>>
      BY <1>1, <1>2, <2>1, <2>4, FuncLinked
    <3>2. PICK t : t = <<b.inst, b.idx>> OBVIOUS
    <3>3. Point(code, t) /\ SigAt(code, t) = SigOf[job.mod.impFuncs[f].ty]
      BY <1>1, <2>2, <2>4, <3>1, <3>2, MatchesSig DEF FunctionAsked
    <3>4. t[1] = b.inst /\ t[1] # Host BY <1>3, <3>1, <3>2 DEF Host
    <3>5. Point(code', t) /\ SigAt(code', t) = SigAt(code, t) BY <1>5, <3>3, <3>4
    <3> QED BY <1>3, <3>1, <3>2, <3>3, <3>4, <3>5 DEF ImportLeads
  <2> QED BY <2>3, <2>4
<1> QED BY <1>3, <1>6, <1>7 DEF ImportsLead, Instances

\* Commit adds one instance to the code and changes none.
LEMMA ExtendedByCommit ==
  ASSUME LinkInv, Commit
  PROVE  Extended(code, code') /\ Len(code') = Len(code) + 1
BY CommitExtends, OldInstance DEF Extended, Instances

\* What a function of an instance of the store ends at never changes.
LEMMA DefiningStays ==
  ASSUME LinkInv, ImportsLead(code), Commit, NEW i, NEW f, Point(code, <<i, f>>)
  PROVE  DefiningFunc(i, f)' = DefiningFunc(i, f)
<1>1. Extended(code, code') /\ Len(code') = Len(code) + 1 BY ExtendedByCommit
<1>2. CodeShape(code) BY CodeHasShape
<1> QED BY <1>1, <1>2, DefiningEnds, TrailStays

\* An exact import that Commit links leads to the very type it declares.
LEMMA CommitExact ==
  ASSUME TypedInv, Commit
  PROVE  ExactImportsAreExact'
<1>1. LinkInv /\ Asked /\ ImportsLead(code) /\ ExactImportsAreExact BY DEF TypedInv, AskedInv
<1>2. PICK n : n = Len(code) + 1 OBVIOUS
<1>3. /\ Instances' = Instances \cup {n} /\ Instances = 1..Len(code)
      /\ n \notin Instances /\ n \in Nat /\ n # 0
      /\ code'[n].mod = job.mod /\ Len(code') = n /\ Len(code) \in Nat
  BY <1>1, <1>2, NewInstance, CommitExtends, CodeHasShape
<1>4. \A i \in Instances : code'[i] = code[i] BY <1>1, OldInstance
<1>5. Extended(code, code') /\ CodeShape(code) BY <1>1, ExtendedByCommit, CodeHasShape
<1>6. ASSUME NEW p, Point(code, p), p[1] # Host PROVE TypeOf(p)' = TypeOf(p)
  <2>1. p[1] \in Instances BY <1>3, <1>6 DEF Point
  <2> QED BY <1>4, <2>1 DEF TypeOf
<1>7. ASSUME NEW i \in Instances, NEW f \in 1..Len(code'[i].mod.impFuncs),
             code'[i].mod.impFuncs[f].exact
      PROVE  DefiningFunc(i, f)'[1] # Host /\ TypeOf(DefiningFunc(i, f))' = code'[i].mod.impFuncs[f].ty
  <2>1. code'[i] = code[i] /\ code[i].mod \in Modules BY <1>1, <1>4, CodeHasShape
  <2>2. PICK p : p = DefiningFunc(i, f) OBVIOUS
  <2>3. p[1] # Host /\ TypeOf(p) = code[i].mod.impFuncs[f].ty
    BY <1>1, <1>7, <2>1, <2>2 DEF ExactImportsAreExact
  <2>4. Point(code, <<i, f>>)
    <3>1. ASSUME NEW a \in Nat, NEW b \in Nat, NEW c \in 1..a PROVE c \in 1..(a + b)
      OBVIOUS
    <3>2. Len(code[i].mod.impFuncs) \in Nat /\ Len(code[i].mod.funcs) \in Nat
      BY <2>1, ModulesAreValid DEF ModuleShape
    <3>3. f \in 1..NumFuncs(code[i].mod) BY <2>1, <3>1, <3>2 DEF NumFuncs
    <3> QED BY <1>3, <3>3 DEF Point
  <2>5. DefiningFunc(i, f)' = p BY <1>1, <2>2, <2>4, DefiningStays
  <2>6. Point(code, p) BY <1>1, <2>2, <2>4, DefiningShape
  <2>7. TypeOf(p)' = TypeOf(p) BY <1>6, <2>3, <2>6
  <2>8. TypeOf(DefiningFunc(i, f))' = TypeOf(p)' BY <2>5 DEF TypeOf
  <2> QED BY <2>1, <2>3, <2>5, <2>7, <2>8
<1>8. ASSUME NEW f \in 1..Len(job.mod.impFuncs), job.mod.impFuncs[f].exact
      PROVE  DefiningFunc(n, f)'[1] # Host /\ TypeOf(DefiningFunc(n, f))' = job.mod.impFuncs[f].ty
  <2>1. PICK b : b = job.imp.funcs[f] OBVIOUS
  <2>2. FunctionAsked(job.mod.impFuncs[f], b) BY <1>1, <1>2, <2>1, FuncLinked
  <2>3. b.store # Host BY <1>8, <2>2 DEF FunctionAsked, FuncMatches
  <2>4. /\ SlotOf(b) = b.inst /\ b.inst \in Instances
        /\ code'[n].imports[f] = <<b.inst, b.idx>>
    BY <1>1, <1>2, <2>1, <2>3, FuncLinked
  <2>5. PICK p : p = DefiningFunc(b.inst, b.idx) OBVIOUS
  <2>6. p[1] # Host /\ TypeOf(p) = job.mod.impFuncs[f].ty
    BY <1>8, <2>2, <2>3, <2>4, <2>5 DEF FunctionAsked, FuncMatches
  <2>7. PICK t : t = <<b.inst, b.idx>> OBVIOUS
  <2>8. Point(code, t) BY <1>1, <2>2, <2>3, <2>4, <2>7, MatchesSig DEF FunctionAsked
  <2>9. t = HopIn(code', <<n, f>>)
    <3>1. IsImport(job.mod, f) BY DEF IsImport
    <3> QED BY <1>3, <2>4, <2>7, <3>1 DEF HopIn, Host
  <2>10. DefiningFunc(n, f)' = p
    <3>1. DefiningFunc(n, f)' = TrailEnd(code', <<n, f>>, Len(code) + 1)
      BY <1>2, <1>3, DefiningEnds
    <3>2. TrailEnd(code', <<n, f>>, Len(code) + 1) = TrailEnd(code, t, Len(code))
      BY <1>1, <1>5, <2>8, <2>9, TrailFromImport
    <3> QED BY <2>5, <2>7, <3>1, <3>2, DefiningEnds
  <2>11. Point(code, p) BY <1>1, <2>5, <2>7, <2>8, DefiningShape
  <2>12. TypeOf(p)' = TypeOf(p) BY <1>6, <2>6, <2>11
  <2>13. TypeOf(DefiningFunc(n, f))' = TypeOf(p)' BY <2>10 DEF TypeOf
  <2> QED BY <2>6, <2>10, <2>12, <2>13
<1>9. ASSUME NEW i \in Instances', NEW f \in 1..Len(code'[i].mod.impFuncs),
             code'[i].mod.impFuncs[f].exact
      PROVE  DefiningFunc(i, f)'[1] # Host /\ TypeOf(DefiningFunc(i, f))' = code'[i].mod.impFuncs[f].ty
  BY <1>3, <1>7, <1>8, <1>9
<1> QED BY <1>9 DEF ExactImportsAreExact

\* A frame runs a function of the shape its call site wants.
FrameFits(fr) == SigOf[TypeOf(<<fr.inst, fr.func>>)] = SigOf[fr.want]
SameCall(fr, gr) == fr.inst = gr.inst /\ fr.func = gr.func /\ fr.want = gr.want

\* Entering a function whose signature is the wanted one fits.
LEMMA EnteredFits ==
  ASSUME LinkInv, ImportsLead(code), NEW i, NEW f, Point(code, <<i, f>>),
         DefiningFunc(i, f)[1] # Host, NEW want,
         i # Host => SigAt(code, <<i, f>>) = SigOf[want],
         NEW val, NEW depth, NEW fr, fr = Entered(i, f, want, val, depth)
  PROVE  FrameFits(fr)
<1>1. PICK p : p = DefiningFunc(i, f) OBVIOUS
<1>2. i # Host /\ SigAt(code, p) = SigAt(code, <<i, f>>) BY <1>1, DefiningShape
<1>3. fr.inst = p[1] /\ fr.func = p[2] /\ fr.want = want BY <1>1 DEF Entered, Frame
<1>4. TypeOf(<<fr.inst, fr.func>>) = TypeOf(p) BY <1>3 DEF TypeOf
<1> QED BY <1>2, <1>3, <1>4, TypeOfSig DEF FrameFits

\* Frames that were there keep their call, and those that are pushed fit.
LEMMA StackFits ==
  ASSUME CalleesHaveTheCallersType, code' = code,
         \A n \in DOMAIN stack' : \/ n \in DOMAIN stack /\ SameCall(stack'[n], stack[n])
                                  \/ FrameFits(stack'[n])
  PROVE  CalleesHaveTheCallersType'
<1>1. ASSUME NEW n \in DOMAIN stack' PROVE FrameFits(stack'[n])
  <2>1. CASE n \in DOMAIN stack /\ SameCall(stack'[n], stack[n])
    BY <2>1 DEF CalleesHaveTheCallersType, FrameFits, SameCall
  <2> QED BY <1>1, <2>1
<1>2. ASSUME NEW fr, FrameFits(fr) PROVE FrameFits(fr)'
  BY <1>2 DEF FrameFits, TypeOf
<1>3. ASSUME NEW n \in DOMAIN stack'
      PROVE  SigOf[TypeOf(<<stack[n].inst, stack[n].func>>)'] = SigOf[stack'[n].want]
  <2>1. PICK fr : fr = stack'[n] OBVIOUS
  <2>2. FrameFits(fr)' BY <1>1, <1>2, <2>1
  <2> QED BY <2>1, <2>2 DEF FrameFits, TypeOf
<1> QED BY <1>3 DEF CalleesHaveTheCallersType

\* A step that changes the value held changes no call's type.
LEMMA HoldFits ==
  ASSUME CallsInv, Running, NEW v, Hold(v), code' = code
  PROVE  CalleesHaveTheCallersType'
<1>1. LinkInv /\ CalleesHaveTheCallersType BY DEF CallsInv, TypedInv, AskedInv
<1>2. stack \in Seq(FrameType) /\ Len(stack) \in DOMAIN stack BY <1>1, TopFrame
<1>3. PICK k : k = Len(stack) OBVIOUS
<1>4. k \in DOMAIN stack /\ stack' = [stack EXCEPT ![k].val = v] BY <1>2, <1>3 DEF Hold
<1>5. ASSUME NEW n \in DOMAIN stack' PROVE n \in DOMAIN stack /\ SameCall(stack'[n], stack[n])
  <2>1. n \in DOMAIN stack BY <1>4
  <2>2. stack[n] \in FrameType BY <1>2, <2>1
  <2>3. stack'[n] = IF n = k THEN [stack[n] EXCEPT !.val = v] ELSE stack[n] BY <1>4, <2>1
  <2> QED BY <2>1, <2>2, <2>3 DEF SameCall, FrameType
<1> QED BY <1>1, <1>5, StackFits

\* A call that pushes a frame of the right signature keeps the stack right.
LEMMA PushFits ==
  ASSUME CallsInv, NEW fr, FrameFits(fr), stack' = Append(stack, fr), code' = code
  PROVE  CalleesHaveTheCallersType'
<1>1. LinkInv /\ CalleesHaveTheCallersType BY DEF CallsInv, TypedInv, AskedInv
<1>2. stack \in Seq(FrameType) BY <1>1, FramesAreGood
<1>3. \A n \in DOMAIN stack' : (n \in DOMAIN stack /\ stack'[n] = stack[n]) \/ stack'[n] = fr
  BY <1>2
<1>4. \A n \in DOMAIN stack' : \/ n \in DOMAIN stack /\ SameCall(stack'[n], stack[n])
                               \/ FrameFits(stack'[n])
  BY <1>3 DEF SameCall
<1> QED BY <1>1, <1>4, StackFits

\* So does a call from the host.
LEMMA OnlyFits ==
  ASSUME CallsInv, NEW fr, FrameFits(fr), stack' = <<fr>>, code' = code
  PROVE  CalleesHaveTheCallersType'
<1>1. CalleesHaveTheCallersType BY DEF CallsInv, TypedInv, AskedInv
<1>2. \A n \in DOMAIN stack' : stack'[n] = fr OBVIOUS
<1> QED BY <1>1, <1>2, StackFits

\* A function a guest or the host can name, and its declared type.
LEMMA NamedPoint ==
  ASSUME LinkInv, NEW i \in Instances, NEW f \in 1..NumFuncs(code[i].mod)
  PROVE  /\ Point(code, <<i, f>>)
         /\ SigAt(code, <<i, f>>) = SigOf[FuncType(code[i].mod, f)]
BY CodeHasShape DEF Point, SigAt

\* A call whose target has the signature of its call site enters a function of
\* that signature.
LEMMA CallToFits ==
  ASSUME CallsInv, Running, NEW i, NEW f, NEW want, Point(code, <<i, f>>),
         i # Host => SigAt(code, <<i, f>>) = SigOf[want], CallTo(i, f, want)
  PROVE  CalleesHaveTheCallersType'
<1>1. LinkInv /\ ImportsLead(code) /\ code' = code BY DEF CallsInv, TypedInv, AskedInv, CallTo
<1>2. CASE DefiningFunc(i, f)[1] = Host BY <1>1, <1>2, HoldFits DEF CallTo
<1>3. CASE DefiningFunc(i, f)[1] # Host
  <2>1. PICK fr : fr = Entered(i, f, want, Top.val, Top.depth + 1) OBVIOUS
  <2>2. FrameFits(fr) BY <1>1, <1>3, <2>1, EnteredFits
  <2> QED BY <1>1, <1>3, <2>1, <2>2, PushFits DEF CallTo
<1> QED BY <1>2, <1>3

\* A direct call demands the type its index declares.
LEMMA CallFits ==
  ASSUME CallsInv, Call
  PROVE  CalleesHaveTheCallersType'
<1>1. LinkInv /\ Running BY DEF CallsInv, TypedInv, AskedInv, Call
<1>2. PICK ins \in Instructions("call") : CallTo(Top.inst, ins.x, FuncType(Inst.mod, ins.x))
  BY DEF Call
<1>3. ins.x \in 1..NumFuncs(Inst.mod) BY <1>1, InstructionsAreValid DEF ValidInstr
<1>4. Top.inst \in Instances BY <1>1, TopFrame
<1> QED BY <1>1, <1>2, <1>3, <1>4, NamedPoint, CallToFits DEF Inst

\* A listed type is spelled by its kind, or by the local index of the type it
\* names.
LEMMA SpellingNames ==
  ASSUME NEW m \in Modules, NEW s \in Listed(m)
  PROVE  /\ s \in Types /\ SigOf[s] = <<SigOf[s][1], SigOf[s][2]>> /\ SigOf[s][1] # "ref"
         /\ \/ SigOf[s][2] = 0 /\ Spelling(m, s) = <<SigOf[s][1], 0>>
            \/ \E r \in DOMAIN m.types :
                 /\ SigOf[s][2] # 0 /\ Spelling(m, s) = <<"ref", r>>
                 /\ m.types[r].ty = SigOf[s][2]
<1>1. m.types \in Seq(TypeEntry) BY ModulesAreValid DEF ModuleShape
<1>2. PICK e : e = EntryOf(m, s) OBVIOUS
<1>3. e \in DOMAIN m.types /\ m.types[e].ty = s BY <1>2 DEF Listed, EntryOf
<1>4. s \in Types
  <2>1. m.types[e] \in TypeEntry BY <1>1, <1>3
  <2> QED BY <1>3, <2>1 DEF TypeEntry
<1>5. SigOf[s] \in {"none", "func", "any"} \X Nat BY <1>4, SignaturesNameTypes
<1>6. LET target == SigOf[s][2]
          ref == m.types[e].ref
      IN  IF target = 0 THEN ref = 0 ELSE ref \in DOMAIN m.types /\ m.types[ref].ty = target
  BY <1>3, ModulesSpellTheirTypes DEF ModuleSpellings
<1>7. Spelling(m, s) = IF m.types[e].ref = 0 THEN <<SigOf[s][1], 0>> ELSE <<"ref", m.types[e].ref>>
  BY <1>2 DEF Spelling
<1>8. 0 \notin DOMAIN m.types BY <1>1
<1> QED BY <1>4, <1>5, <1>6, <1>7, <1>8

\* Within one module the comparison of call_indirect tells signatures apart.
LEMMA SpelledInOneModule ==
  ASSUME NEW m \in Modules, NEW s \in Listed(m), NEW t \in Listed(m),
         FuncTypesEqual(m, Spelling(m, s), Spelling(m, t))
  PROVE  SigOf[s] = SigOf[t]
<1>1. /\ s \in Types /\ SigOf[s] = <<SigOf[s][1], SigOf[s][2]>> /\ SigOf[s][1] # "ref"
      /\ t \in Types /\ SigOf[t] = <<SigOf[t][1], SigOf[t][2]>> /\ SigOf[t][1] # "ref"
  BY SpellingNames
<1>2. PICK a, b : a = Spelling(m, s) /\ b = Spelling(m, t) OBVIOUS
<1>3. a = b \/ (a[1] = "ref" /\ b[1] = "ref" /\ Canon(m, a[2]) = Canon(m, b[2]))
  BY <1>2 DEF FuncTypesEqual
<1>4. ASSUME SigOf[s][2] = 0, a = <<SigOf[s][1], 0>> PROVE SigOf[s] = SigOf[t]
  <2>1. a[1] # "ref" BY <1>1, <1>4
  <2>2. a = b BY <1>3, <2>1
  <2>3. b[1] # "ref" BY <2>1, <2>2
  <2>4. SigOf[t][2] = 0 /\ b = <<SigOf[t][1], 0>> BY <1>2, <2>3, SpellingNames
  <2> QED BY <1>1, <1>4, <2>2, <2>4
<1>5. ASSUME NEW r \in DOMAIN m.types, SigOf[s][2] # 0, a = <<"ref", r>>, m.types[r].ty = SigOf[s][2]
      PROVE  SigOf[s] = SigOf[t]
  <2>1. b[1] = "ref" BY <1>3, <1>5
  <2>2. PICK q \in DOMAIN m.types : SigOf[t][2] # 0 /\ b = <<"ref", q>> /\ m.types[q].ty = SigOf[t][2]
    BY <1>1, <1>2, <2>1, SpellingNames
  <2>3. CASE a = b BY <1>1, <1>5, <2>2, <2>3, SignaturesNameTypes
  <2>4. CASE a # b
    <3>1. Canon(m, r) = Canon(m, q) BY <1>3, <1>5, <2>2, <2>4
    <3>2. EntryOf(m, m.types[r].ty) = EntryOf(m, m.types[q].ty) BY <1>5, <2>2, <3>1 DEF Canon
    <3>3. m.types[r].ty = m.types[q].ty BY <2>2, <3>2 DEF EntryOf
    <3> QED BY <1>1, <1>5, <2>2, <3>3, SignaturesNameTypes
  <2> QED BY <2>3, <2>4
<1> QED BY <1>2, <1>4, <1>5, SpellingNames

\* Of modules that spell alike, call_indirect lets only the signature through
\* that the call site declares.
LEMMA CallableSig ==
  ASSUME SpellAlike(Modules), LinkInv, Running, NEW i, NEW f, NEW want,
         want \in Listed(Inst.mod), i # Host, Point(code, <<i, f>>), Callable(i, f, want)
  PROVE  SigAt(code, <<i, f>>) = SigOf[want]
<1>1. PICK caller, owner : caller = Inst.mod /\ owner = code[i].mod OBVIOUS
<1>2. i \in Instances /\ f \in 1..NumFuncs(owner) BY <1>1, CodeHasShape DEF Point, Instances
<1>3. caller \in Modules /\ owner \in Modules
  BY <1>1, <1>2, TopFrame, CodeHasShape DEF Inst
<1>4. SigAt(code, <<i, f>>) = SigOf[FuncType(owner, f)] BY <1>1 DEF SigAt
<1>5. CASE ~IsImport(owner, f)
  <2>1. <<FuncType(owner, f), want>> \in SubType BY <1>1, <1>5 DEF Callable, IsSubType
  <2> QED BY <1>4, <2>1, SubTypesShareSig
<1>6. CASE IsImport(owner, f)
  <2>1. PICK ty : ty = FuncType(owner, f) OBVIOUS
  <2>2. ty \in Listed(owner) BY <1>2, <1>3, <2>1, ModulesSpellTheirTypes DEF ModuleSpellings
  <2>3. FuncTypesEqual(caller, Spelling(caller, want), Spelling(owner, ty))
    BY <1>1, <1>6, <2>1 DEF Callable
  <2>4. CASE caller = owner
    BY <1>1, <1>3, <1>4, <2>1, <2>2, <2>3, <2>4, SpelledInOneModule
  <2>5. CASE caller # owner
    <3>1. f \in 1..Len(owner.impFuncs) /\ ty = owner.impFuncs[f].ty
      <4>1. Len(owner.impFuncs) \in Nat /\ Len(owner.funcs) \in Nat
        BY <1>3, ModulesAreValid DEF ModuleShape
      <4> QED BY <1>2, <1>6, <2>1, <4>1 DEF IsImport, FuncType, NumFuncs
    <3> QED BY <1>1, <1>3, <1>4, <2>1, <2>3, <2>5, <3>1 DEF SpellAlike
  <2> QED BY <2>4, <2>5
<1> QED BY <1>5, <1>6

\* An indirect call enters only what satisfies its declared type.
LEMMA CallIndirectFits ==
  ASSUME SpellAlike(Modules), CallsInv, CallIndirect
  PROVE  CalleesHaveTheCallersType'
<1>1. LinkInv /\ Running BY DEF CallsInv, TypedInv, AskedInv, CallIndirect
<1>2. PICK ins \in Instructions("call_indirect"), k \in Operands :
        /\ k \in DOMAIN Entries(ins.x) /\ Entries(ins.x)[k] # Null
        /\ Callable(Entries(ins.x)[k][1], Entries(ins.x)[k][2], ins.y)
        /\ CallTo(Entries(ins.x)[k][1], Entries(ins.x)[k][2], ins.y)
  BY DEF CallIndirect
<1>3. PICK v : v = Entries(ins.x)[k] OBVIOUS
<1>4. ins.x \in 1..NumTables(Inst.mod)
  BY <1>1, InstructionsAreValid DEF ValidInstr, TableOps
<1>5. Live(v) /\ v # Null BY <1>1, <1>2, <1>3, <1>4, TableHere
<1>6. Point(code, <<v[1], v[2]>>)
  BY <1>5 DEF Live, Point, IsObj, Host, Instances
<1>7. ins.y \in Listed(Inst.mod)
  BY <1>1, <1>2, InstructionsAreValid DEF ValidInstr
<1>8. v[1] # Host => SigAt(code, <<v[1], v[2]>>) = SigOf[ins.y]
  BY <1>1, <1>2, <1>3, <1>6, <1>7, CallableSig
<1> QED BY <1>1, <1>2, <1>3, <1>6, <1>8, CallToFits

\* A return leaves the callers as they are.
LEMMA ReturnFits ==
  ASSUME CallsInv, Return
  PROVE  CalleesHaveTheCallersType'
<1>1. LinkInv /\ Running /\ CalleesHaveTheCallersType /\ code' = code
  BY DEF CallsInv, TypedInv, AskedInv, Return
<1>2. PICK v : v = Passed(OwnType, Top.val, stack[Len(stack) - 1].val)
  OBVIOUS
<1>3. stack \in Seq(FrameType) /\ Len(stack) \in 1..Len(stack) BY <1>1, TopFrame
<1>4. CASE Len(stack) = 1
  <2>1. stack' = <<>> BY <1>4 DEF Return
  <2>2. DOMAIN stack' = {} BY <2>1
  <2> QED BY <2>2 DEF CalleesHaveTheCallersType
<1>5. CASE Len(stack) # 1
  <2>1. PICK n \in Nat : n = Len(stack) - 1 /\ n >= 1
    <3>1. Len(stack) \in Nat /\ Len(stack) >= 1 BY <1>3
    <3>2. \A x \in Nat : x >= 1 /\ x # 1 => x - 1 \in Nat /\ x - 1 >= 1 OBVIOUS
    <3> QED BY <1>5, <3>1, <3>2
  <2>2. /\ CallerFrames \in Seq(FrameType) /\ Len(CallerFrames) = n
        /\ \A k \in 1..n : CallerFrames[k] = stack[k]
    <3>1. 1 \in Int /\ n \in Int /\ \A k \in 1..n : stack[k] \in FrameType
      <4>1. \A k \in 1..n : k \in 1..Len(stack)
        <5>1. Len(stack) \in Nat /\ n < Len(stack) BY <1>3, <2>1
        <5> QED BY <2>1, <5>1
      <4> QED BY <1>3, <4>1, ElementOfSeq
    <3>2. /\ SubSeq(stack, 1, n) \in Seq(FrameType)
          /\ Len(SubSeq(stack, 1, n)) = n - 1 + 1
          /\ \A k \in 1..(n - 1 + 1) : SubSeq(stack, 1, n)[k] = stack[1 + k - 1]
      BY <2>1, <3>1, SubSeqProperties
    <3>3. n - 1 + 1 = n /\ \A k \in 1..n : 1 + k - 1 = k BY <3>1
    <3> QED BY <2>1, <3>2, <3>3 DEF CallerFrames
  <2>3. n \in DOMAIN stack /\ DOMAIN CallerFrames = 1..n /\ 1..n \subseteq DOMAIN stack
    <3>1. Len(stack) \in Nat /\ n < Len(stack) BY <1>3, <2>1
    <3> QED BY <1>3, <2>1, <2>2, <3>1
  <2>4. stack' = [CallerFrames EXCEPT ![n].val = v]
    <3>1. n \in DOMAIN CallerFrames BY <2>1, <2>3
    <3>2. CallerFrames[n].val = stack[n].val BY <2>1, <2>2
    <3>3. stack' = [CallerFrames EXCEPT ![n].val = Passed(OwnType, Top.val, CallerFrames[n].val)]
      BY <1>5, <2>1, <3>1 DEF Return
    <3> QED BY <1>2, <2>1, <3>2, <3>3
  <2>5. ASSUME NEW k \in DOMAIN stack' PROVE k \in DOMAIN stack /\ SameCall(stack'[k], stack[k])
    <3>1. k \in 1..n /\ k \in DOMAIN stack BY <2>3, <2>4
    <3>2. stack[k] \in FrameType BY <1>3, <3>1
    <3>3. stack'[k] = IF k = n THEN [CallerFrames[k] EXCEPT !.val = v] ELSE CallerFrames[k]
      BY <2>3, <2>4, <3>1
    <3>4. CallerFrames[k] = stack[k] BY <2>2, <3>1
    <3> QED BY <3>1, <3>2, <3>3, <3>4 DEF SameCall, FrameType
  <2> QED BY <1>1, <2>5, StackFits
<1> QED BY <1>4, <1>5

\* The start function is entered at the type it declares.
LEMMA StartFits ==
  ASSUME CallsInv, Start
  PROVE  CalleesHaveTheCallersType'
<1>1. LinkInv /\ CalleesHaveTheCallersType /\ code' = code /\ job.phase = "start" /\ ImportsLead(code)
  BY DEF CallsInv, TypedInv, AskedInv, Start
<1>2. CASE UNCHANGED stack
  BY <1>1, <1>2, StackFits DEF SameCall
<1>3. CASE ~UNCHANGED stack
  <2>1. PICK f, i : f = job.mod.start /\ i = Len(code) OBVIOUS
  <2>2. /\ f # 0 /\ DefiningFunc(i, f)[1] # Host
        /\ stack' = <<Entered(i, f, FuncType(job.mod, f), Null, 1)>>
    BY <1>3, <2>1 DEF Start
  <2>3. i \in Instances /\ job.mod = code[i].mod /\ f \in 0..NumFuncs(job.mod)
    BY <1>1, <2>1, CommittedJob DEF ModuleShape
  <2>4. f \in 1..NumFuncs(code[i].mod) BY <2>2, <2>3
  <2>5. PICK fr : fr = Entered(i, f, FuncType(job.mod, f), Null, 1) OBVIOUS
  <2>6. FrameFits(fr) BY <1>1, <2>2, <2>3, <2>4, <2>5, NamedPoint, EnteredFits
  <2> QED BY <1>1, <2>2, <2>5, <2>6, OnlyFits
<1> QED BY <1>2, <1>3

\* The host enters a function at the type it declares.
LEMMA InvokeFits ==
  ASSUME CallsInv, Invoke
  PROVE  CalleesHaveTheCallersType'
<1>1. LinkInv /\ code' = code /\ ImportsLead(code) BY DEF CallsInv, TypedInv, AskedInv, Invoke
<1>2. PICK i \in issued : \E f \in 1..NumFuncs(code[i].mod) :
        /\ DefiningFunc(i, f)[1] # Host
        /\ stack' = <<Entered(i, f, FuncType(code[i].mod, f), Null, 1)>>
  BY DEF Invoke
<1>3. PICK f \in 1..NumFuncs(code[i].mod) :
        /\ DefiningFunc(i, f)[1] # Host
        /\ stack' = <<Entered(i, f, FuncType(code[i].mod, f), Null, 1)>>
  BY <1>2
<1>4. i \in Instances BY <1>1 DEF LinkInv, TypeOK
<1>5. PICK fr : fr = Entered(i, f, FuncType(code[i].mod, f), Null, 1) OBVIOUS
<1>6. FrameFits(fr) BY <1>1, <1>3, <1>4, <1>5, NamedPoint, EnteredFits
<1> QED BY <1>1, <1>3, <1>5, <1>6, OnlyFits

\* Every step keeps the types of the running calls.
LEMMA NextFits ==
  ASSUME SpellAlike(Modules), CallsInv, [Next]_vars
  PROVE  CalleesHaveTheCallersType'
<1>1. LinkInv /\ CalleesHaveTheCallersType BY DEF CallsInv, TypedInv, AskedInv
<1>2. CASE UNCHANGED <<code, stack>> BY <1>1, <1>2, StackFits DEF SameCall
<1>3. CASE Commit
  <2>1. stack' = <<>> BY <1>1, <1>3, Ready
  <2>2. DOMAIN stack' = {} BY <2>1
  <2> QED BY <2>2 DEF CalleesHaveTheCallersType
<1>4. CASE TrapOut
  <2>1. DOMAIN stack' = {} BY <1>4 DEF TrapOut
  <2> QED BY <2>1 DEF CalleesHaveTheCallersType
<1>5. CASE RefFunc BY <1>5, HoldFits DEF RefFunc
<1>6. CASE StructNew BY <1>6, HoldFits DEF StructNew
<1>7. CASE GlobalGet BY <1>7, HoldFits DEF GlobalGet
<1>8. CASE TableGet BY <1>8, HoldFits DEF TableGet
<1>9. CASE UNCHANGED vars BY <1>2, <1>9 DEF vars
<1>10. CASE BeginInstantiate \/ EvalGlobal \/ LinkResources \/ EvalTable \/ ApplyElem \/ ApplyData
  BY <1>2, <1>10 DEF BeginInstantiate, EvalGlobal, LinkResources, EvalTable, ApplyElem, ApplyData
<1>11. CASE GlobalSet \/ TableSet \/ TableGrow \/ TableFill \/ TableCopy
         \/ TableInit \/ ElemDrop \/ DataDrop \/ MemoryGrow
  BY <1>2, <1>11 DEF GlobalSet, TableSet, TableGrow, TableFill, TableCopy,
     TableInit, ElemDrop, DataDrop, MemoryGrow, TableStep
<1> QED
  BY <1>3, <1>4, <1>5, <1>6, <1>7, <1>8, <1>9, <1>10, <1>11, StartFits, InvokeFits,
     CallFits, CallIndirectFits, ReturnFits
  DEF Next, Instantiate, Control, Execute

\* Every step keeps the invariant about types.
LEMMA NextKeepsTypes ==
  ASSUME TypedInv, [Next]_vars
  PROVE  TypedInv'
<1>1. AskedInv' BY NextKeepsLinks DEF TypedInv
<1>2. CASE Commit
  <2>1. ImportsLead(code)' BY <1>2, CommitImports DEF ImportsLead, ImportLeads, Point, SigAt
  <2> QED BY <1>1, <1>2, <2>1, CommitExact DEF TypedInv
<1>3. CASE ~Commit
  <2>1. code' = code BY <1>3, CodeStays
  <2>2. ImportsLead(code)' BY <2>1 DEF TypedInv, ImportsLead, ImportLeads, Point, SigAt
  <2>3. \A i, f : DefiningFunc(i, f)' = DefiningFunc(i, f)
    BY <2>1 DEF DefiningFunc, Chase, Hop
  <2>4. ExactImportsAreExact'
    BY <2>1, <2>3 DEF TypedInv, ExactImportsAreExact, Instances, TypeOf
  <2> QED BY <1>1, <2>2, <2>4 DEF TypedInv
<1> QED BY <1>2, <1>3

\* In an empty store nothing runs and nothing is imported.
LEMMA InitIsTyped ==
  ASSUME Init
  PROVE  CallsInv
<1>1. code = <<>> /\ stack = <<>> BY DEF Init
<1>2. Len(code) = 0 /\ DOMAIN stack = {} BY <1>1
<1>3. Instances = {} BY <1>2 DEF Instances
<1>4. ImportsLead(code) BY <1>2 DEF ImportsLead
<1>5. ExactImportsAreExact /\ CalleesHaveTheCallersType
  BY <1>2, <1>3 DEF ExactImportsAreExact, CalleesHaveTheCallersType
<1> QED BY <1>4, <1>5, InitIsAsked DEF CallsInv, TypedInv

\* The invariant about types holds of the store: imports and exact imports
\* reach functions of the types they were checked against, through any chain
\* of re-exports (function imports, defining_func).
THEOREM StoreIsTyped == Spec => []TypedInv
<1>1. Init => TypedInv BY InitIsTyped DEF CallsInv
<1>2. TypedInv /\ [Next]_vars => TypedInv' BY NextKeepsTypes
<1> QED BY <1>1, <1>2, PTL DEF Spec

\* No silent wrong call between modules that spell alike: whatever tables,
\* imports and re-exports a call went through, the function that runs has the
\* parameters and the results its call site was validated against
\* (call_indirect, function imports).
THEOREM AlwaysCalleesHaveTheCallersType ==
  ASSUME SpellAlike(Modules)
  PROVE  Spec => []CalleesHaveTheCallersType
<1>1. Init => CallsInv BY InitIsTyped
<1>2. CallsInv /\ [Next]_vars => CallsInv'
  BY NextKeepsTypes, NextFits DEF CallsInv
<1>3. CallsInv => CalleesHaveTheCallersType BY DEF CallsInv
<1> QED BY <1>1, <1>2, <1>3, PTL DEF Spec

\* Modules spell alike when no imported function passes a reference that names
\* a type: what call_indirect compares is then the same in every module.
THEOREM PlainImportsSpellAlike ==
  ASSUME \A m \in Modules : \A f \in 1..Len(m.impFuncs) : SigOf[m.impFuncs[f].ty][2] = 0
  PROVE  SpellAlike(Modules)
<1> SUFFICES ASSUME NEW caller \in Modules, NEW owner \in Modules,
                    NEW want \in Listed(caller), NEW f \in 1..Len(owner.impFuncs),
                    FuncTypesEqual(caller, Spelling(caller, want), Spelling(owner, owner.impFuncs[f].ty))
             PROVE  SigOf[want] = SigOf[owner.impFuncs[f].ty]
  BY DEF SpellAlike
<1>1. PICK ty : ty = owner.impFuncs[f].ty OBVIOUS
<1>2. ty \in Listed(owner)
  <2>1. Len(owner.impFuncs) \in Nat /\ Len(owner.funcs) \in Nat
    BY ModulesAreValid DEF ModuleShape
  <2>2. ASSUME NEW a \in Nat, NEW b \in Nat, NEW c \in 1..a PROVE c \in 1..(a + b)
    OBVIOUS
  <2>3. f \in 1..NumFuncs(owner) BY <2>1, <2>2 DEF NumFuncs
  <2>4. FuncType(owner, f) = ty BY <1>1, <2>1 DEF FuncType, IsImport
  <2> QED BY <2>3, <2>4, ModulesSpellTheirTypes DEF ModuleSpellings
<1>3. /\ SigOf[want] = <<SigOf[want][1], SigOf[want][2]>> /\ SigOf[want][1] # "ref"
      /\ SigOf[ty] = <<SigOf[ty][1], SigOf[ty][2]>> /\ SigOf[ty][1] # "ref"
  BY <1>2, SpellingNames
<1>4. PICK a, b : a = Spelling(caller, want) /\ b = Spelling(owner, ty) OBVIOUS
<1>5. SigOf[ty][2] = 0 /\ b = <<SigOf[ty][1], 0>> BY <1>1, <1>2, <1>4, SpellingNames
<1>6. b[1] # "ref" BY <1>3, <1>5
<1>7. a = b BY <1>1, <1>4, <1>6 DEF FuncTypesEqual
<1>8. a[1] # "ref" BY <1>6, <1>7
<1>9. SigOf[want][2] = 0 /\ a = <<SigOf[want][1], 0>> BY <1>4, <1>8, SpellingNames
<1> QED BY <1>1, <1>3, <1>5, <1>7, <1>9

\* An exact function import runs a function defined with the very type it
\* declares, through any chain of re-exports (custom-descriptors).
THEOREM AlwaysExactImportsAreExact == Spec => []ExactImportsAreExact
<1>1. TypedInv => ExactImportsAreExact BY DEF TypedInv
<1> QED BY <1>1, StoreIsTyped, PTL

-----------------------------------------------------------------------------
(* Objects know their module.  The owner of an object is recorded when it  *)
(* is allocated, possibly before the owner exists: until Commit the values *)
(* of an instantiation may hold objects of the instance to come.           *)

KnowsModule(v) ==
  IsObj(v) => /\ heap[v[2]].owner \in Instances
              /\ code[heap[v[2]].owner].mod = heap[v[2]].mod
KnowsSoon(v) ==
  \/ KnowsModule(v)
  \/ heap[v[2]].owner = Len(code) + 1 /\ heap[v[2]].mod = job.mod
JobKnows ==
  job.phase \in {"globals", "tables"} =>
    /\ \A g \in DOMAIN job.gvals : KnowsSoon(job.gvals[g])
    /\ \A t \in DOMAIN job.newTables : \A k \in DOMAIN job.newTables[t].entries :
         KnowsSoon(job.newTables[t].entries[k])

ObjectsInv == LinkInv /\ JobKnows /\ ObjectsKnowTheirModule

\* Every reachable reference is a live one, and one whose module is known.
LEMMA ReachableKnows ==
  ASSUME ObjectsInv, NEW v \in Reachable
  PROVE  KnowsModule(v) /\ Live(v) /\ v \in Ref
<1>1. KnowsModule(v) BY DEF ObjectsInv, ObjectsKnowTheirModule, KnowsModule
<1>2. LinkInv /\ Live(v) BY DEF ObjectsInv, LinkInv, ReferencesAreLive
<1>3. v \in Ref
  <2>1. CASE v \in Pooled
    <3>1. CASE v \in InTables BY <1>2, <3>1, PooledIsLive DEF InTables
    <3>2. CASE v \in InGlobals BY <1>2, <3>2, PooledIsLive DEF InGlobals
    <3>3. CASE v \in InSegments BY <1>2, <3>3, PooledIsLive DEF InSegments
    <3> QED BY <2>1, <3>1, <3>2, <3>3 DEF Pooled
  <2>2. CASE \E n \in DOMAIN stack : v = stack[n].val
    <3>1. PICK n \in DOMAIN stack : v = stack[n].val BY <2>2
    <3>2. stack[n] \in FrameType BY <1>2, FramesAreGood DEF GoodFrames, GoodFrame
    <3> QED BY <3>1, <3>2 DEF FrameType
  <2> QED BY <2>1, <2>2 DEF Reachable
<1> QED BY <1>1, <1>2, <1>3

\* What is known of an object stays known.
LEMMA KnowsStays ==
  ASSUME LinkInv, StoreOnlyGrows, Len(code') \in Nat, NEW v \in Ref, Live(v), KnowsModule(v)
  PROVE  KnowsModule(v)'
<1>1. CASE IsObj(v)
  <2>1. v[2] \in DOMAIN heap
    <3>1. v[2] \in Nat /\ v[2] > 0 /\ v[2] <= Len(heap)
      BY <1>1 DEF Live, IsObj, IsFunc, Null, Ref
    <3> QED BY <3>1, StoreLengths
  <2>2. heap'[v[2]] = heap[v[2]] BY <2>1 DEF StoreOnlyGrows
  <2>3. \A i \in Instances : i \in Instances' /\ code'[i] = code[i]
    BY StoreLengths DEF StoreOnlyGrows, Instances
  <2> QED BY <1>1, <2>2, <2>3 DEF KnowsModule
<1> QED BY <1>1 DEF KnowsModule

\* A step hands on the references there were, and new ones it must vouch for.
LEMMA HandedOn ==
  ASSUME ObjectsInv, [Next]_vars,
         \A v \in Reachable' : v \in Reachable \/ KnowsModule(v)'
  PROVE  ObjectsKnowTheirModule'
<1>1. /\ StoreOnlyGrows /\ LinkInv /\ LinkInv'
      /\ Len(code') \in Nat
  <2>1. LinkInv /\ LinkInv' BY NextKeepsOrder DEF ObjectsInv
  <2>2. code' \in Seq(Instance) BY <2>1 DEF LinkInv, TypeOK
  <2> QED BY <2>1, <2>2, NextOnlyGrows
<1>2. ASSUME NEW v \in Reachable' PROVE KnowsModule(v)'
  BY <1>1, <1>2, ReachableKnows, KnowsStays
<1> QED BY <1>2 DEF ObjectsKnowTheirModule, KnowsModule

\* A step that changes only the stack.
LEMMA StackHandedOn ==
  ASSUME ObjectsInv, [Next]_vars, UNCHANGED pools,
         \A n \in DOMAIN stack' : stack'[n].val \in Reachable \/ KnowsModule(stack[n].val)'
  PROVE  ObjectsKnowTheirModule'
<1>1. ASSUME NEW v \in Reachable' PROVE v \in Reachable \/ KnowsModule(v)'
  <2>1. CASE v \in Pooled'
    <3>1. v \in Pooled BY <2>1 DEF Pooled, InTables, InGlobals, InSegments, pools
    <3> QED BY <3>1 DEF Reachable
  <2>2. CASE \E n \in DOMAIN stack' : v = stack'[n].val
    <3>1. PICK n \in DOMAIN stack' : v = stack'[n].val BY <2>2
    <3>2. KnowsModule(stack[n].val)' => KnowsModule(v)' BY <3>1 DEF KnowsModule, IsObj
    <3> QED BY <3>1, <3>2
  <2> QED BY <1>1, <2>1, <2>2 DEF Reachable
<1> QED BY <1>1, HandedOn

\* A step that changes only the pools.
LEMMA PoolsHandedOn ==
  ASSUME ObjectsInv, [Next]_vars, stack' = stack,
         \A v \in Pooled' : v \in Reachable \/ KnowsModule(v)'
  PROVE  ObjectsKnowTheirModule'
<1>1. \A v \in Reachable' : v \in Reachable \/ KnowsModule(v)' BY DEF Reachable
<1> QED BY <1>1, HandedOn

\* The value a frame holds, and what its instance can read, are reachable.
LEMMA HeldIsReachable ==
  ASSUME LinkInv, Running
  PROVE  /\ Len(stack) \in DOMAIN stack /\ Top.val \in Reachable
         /\ \A n \in DOMAIN stack : stack[n].val \in Reachable
         /\ \A t \in 1..NumTables(Inst.mod) : \A k \in DOMAIN Entries(t) : Entries(t)[k] \in Reachable
         /\ \A g \in 1..NumGlobals(Inst.mod) : globals[Inst.maps.globals[g]] \in Reachable
         /\ \A e \in DOMAIN Inst.mod.elems : \A k \in DOMAIN Segment(e) : Segment(e)[k] \in Reachable
<1>1. Len(stack) \in DOMAIN stack BY TopFrame
<1>2. \A n \in DOMAIN stack : stack[n].val \in Reachable BY DEF Reachable
<1>3. ASSUME NEW t \in 1..NumTables(Inst.mod), NEW k \in DOMAIN Entries(t)
      PROVE  Entries(t)[k] \in Reachable
  BY <1>3, TableHere DEF Entries, Reachable, Pooled, InTables
<1>4. ASSUME NEW g \in 1..NumGlobals(Inst.mod) PROVE globals[Inst.maps.globals[g]] \in Reachable
  BY <1>4, GlobalHere DEF Reachable, Pooled, InGlobals
<1>5. ASSUME NEW e \in DOMAIN Inst.mod.elems, NEW k \in DOMAIN Segment(e)
      PROVE  Segment(e)[k] \in Reachable
  <2>1. Inst.maps.elems[e] \in DOMAIN elemVals BY <1>5, SegmentHere
  <2>2. ~elemDropped[Inst.maps.elems[e]]
    <3>1. DOMAIN <<>> = {} OBVIOUS
    <3> QED BY <1>5, <3>1 DEF Segment
  <2>3. Segment(e) = elemVals[Inst.maps.elems[e]] BY <2>2 DEF Segment
  <2> QED BY <1>5, <2>1, <2>3 DEF Reachable, Pooled, InSegments
<1> QED BY <1>1, <1>2, <1>3, <1>4, <1>5 DEF Top

\* A step that leaves a value in the innermost frame and allocates nothing.
LEMMA HoldHandsOn ==
  ASSUME ObjectsInv, [Next]_vars, Running, UNCHANGED pools, NEW v, Hold(v),
         v \in Reachable \/ KnowsModule(v)'
  PROVE  ObjectsKnowTheirModule'
<1>1. LinkInv /\ stack \in Seq(FrameType) BY FramesAreGood DEF ObjectsInv
<1>2. ASSUME NEW n \in DOMAIN stack'
      PROVE  stack'[n].val \in Reachable \/ KnowsModule(stack[n].val)'
  <2>1. DOMAIN stack' = DOMAIN stack BY <1>1 DEF Hold
  <2>2. CASE n = Len(stack)
    <3>1. stack[n] \in FrameType BY <1>1, <2>1
    <3>2. stack'[n] = [stack[n] EXCEPT !.val = v] BY <2>1, <2>2 DEF Hold
    <3>3. stack'[n].val = v BY <3>1, <3>2 DEF FrameType
    <3>4. KnowsModule(v)' => KnowsModule(stack[n].val)' BY <3>3 DEF KnowsModule, IsObj
    <3> QED BY <3>3, <3>4
  <2>3. CASE n # Len(stack)
    <3>1. stack'[n] = stack[n] BY <2>1, <2>3 DEF Hold
    <3> QED BY <1>1, <2>1, <3>1, HeldIsReachable
  <2> QED BY <2>2, <2>3
<1> QED BY <1>2, StackHandedOn

\* Reading, making references and allocating: what is left is reachable, a
\* function, or a new object of the running instance.
LEMMA RefFuncHandsOn ==
  ASSUME ObjectsInv, RefFunc
  PROVE  ObjectsKnowTheirModule'
<1>1. PICK ins \in Instructions("ref.func") : Hold(FuncRef(Top.inst, ins.x))
  BY DEF RefFunc
<1>2. LinkInv /\ Running BY DEF ObjectsInv, RefFunc
<1>3. ins.x \in Nat /\ Top.inst \in 1..MaxInstances
  <2>1. Top.inst \in Instances /\ Len(code) <= MaxInstances /\ Len(code) \in Nat
    BY <1>2, TopFrame DEF LinkInv, TypeOK
  <2>2. ins \in Instr BY <1>2, InstructionsAreValid
  <2> QED BY <2>1, <2>2, LimitsAreNumbers DEF Instances, Instr
<1>4. FuncRef(Top.inst, ins.x) = <<Top.inst, ins.x>> BY <1>3, FuncRefNames
<1>5. PICK v : v = FuncRef(Top.inst, ins.x) OBVIOUS
<1>6. v[1] # 0 BY <1>3, <1>4, <1>5
<1>7. KnowsModule(v)' BY <1>6 DEF KnowsModule, IsObj
<1>8. UNCHANGED pools /\ [Next]_vars BY DEF RefFunc, Next, Execute
<1> QED BY <1>1, <1>2, <1>5, <1>7, <1>8, HoldHandsOn

\* global.get leaves what a global holds.
LEMMA GlobalGetHandsOn ==
  ASSUME ObjectsInv, GlobalGet
  PROVE  ObjectsKnowTheirModule'
<1>1. PICK ins \in Instructions("global.get") : Hold(globals[Inst.maps.globals[ins.x]])
  BY DEF GlobalGet
<1>2. LinkInv /\ Running BY DEF ObjectsInv, GlobalGet
<1>3. ins.x \in 1..NumGlobals(Inst.mod)
  BY <1>2, InstructionsAreValid DEF ValidInstr
<1>4. PICK v : v = globals[Inst.maps.globals[ins.x]] OBVIOUS
<1>5. v \in Reachable BY <1>2, <1>3, <1>4, HeldIsReachable
<1>6. UNCHANGED pools /\ [Next]_vars BY DEF GlobalGet, Next, Execute
<1> QED BY <1>1, <1>2, <1>4, <1>5, <1>6, HoldHandsOn

\* table.get leaves what a table holds.
LEMMA TableGetHandsOn ==
  ASSUME ObjectsInv, TableGet
  PROVE  ObjectsKnowTheirModule'
<1>1. PICK ins \in Instructions("table.get"), k \in Operands :
        k \in DOMAIN Entries(ins.x) /\ Hold(Entries(ins.x)[k])
  BY DEF TableGet
<1>2. LinkInv /\ Running BY DEF ObjectsInv, TableGet
<1>3. ins.x \in 1..NumTables(Inst.mod)
  BY <1>2, InstructionsAreValid DEF ValidInstr, TableOps
<1>4. PICK v : v = Entries(ins.x)[k] OBVIOUS
<1>5. v \in Reachable BY <1>1, <1>2, <1>3, <1>4, HeldIsReachable
<1>6. UNCHANGED pools /\ [Next]_vars BY DEF TableGet, Next, Execute
<1> QED BY <1>1, <1>2, <1>4, <1>5, <1>6, HoldHandsOn

\* struct.new leaves a new object of the running instance.
LEMMA StructNewHandsOn ==
  ASSUME ObjectsInv, StructNew
  PROVE  ObjectsKnowTheirModule'
<1>1. PICK v : v = ObjRef(Len(heap) + 1) OBVIOUS
<1>2. PICK o : o = [owner |-> Top.inst, mod |-> Inst.mod] OBVIOUS
<1>3. /\ Running /\ heap' = Append(heap, o) /\ Hold(v)
      /\ UNCHANGED <<code, pools, job, issued>>
  BY <1>1, <1>2 DEF StructNew, Allocate
<1>4. heap \in Seq(HeapObject) /\ Len(heap) \in Nat BY DEF ObjectsInv, LinkInv, TypeOK
<1>5. Top.inst \in Instances BY <1>3, TopFrame DEF ObjectsInv
<1>6. v[2] = Len(heap) + 1 BY <1>1 DEF ObjRef
<1>7. heap'[v[2]] = o BY <1>3, <1>4, <1>6
<1>8. o.owner = Top.inst /\ o.mod = code[Top.inst].mod BY <1>2 DEF Inst
<1>9. code' = code BY <1>3
<1>10. heap'[v[2]].owner \in 1..Len(code') /\ code'[heap'[v[2]].owner].mod = heap'[v[2]].mod
  BY <1>5, <1>7, <1>8, <1>9 DEF Instances
<1>11. KnowsModule(v)' BY <1>10 DEF KnowsModule, Instances
<1>12. UNCHANGED pools /\ [Next]_vars BY DEF StructNew, Next, Execute
<1> QED BY <1>3, <1>11, <1>12, HoldHandsOn

\* Writes: what is stored was reachable.
LEMMA GlobalSetHandsOn ==
  ASSUME ObjectsInv, GlobalSet
  PROVE  ObjectsKnowTheirModule'
<1>1. PICK ins \in Instructions("global.set") :
        globals' = [globals EXCEPT ![Inst.maps.globals[ins.x]] = Top.val]
  BY DEF GlobalSet
<1>2. LinkInv /\ Running BY DEF ObjectsInv, GlobalSet
<1>3. Top.val \in Reachable BY <1>2, HeldIsReachable
<1>4. \A g \in DOMAIN globals' : globals'[g] \in Reachable
  BY <1>1, <1>3 DEF Reachable, Pooled, InGlobals
<1>5. \A v \in Pooled' : v \in Reachable
  BY <1>4 DEF GlobalSet, Reachable, Pooled, InGlobals, InTables, InSegments
<1>6. stack' = stack /\ [Next]_vars BY DEF GlobalSet, Next, Execute
<1> QED BY <1>5, <1>6, PoolsHandedOn

\* A table whose entries are replaced by reachable ones.
LEMMA EntriesHandOn ==
  ASSUME ObjectsInv, [Next]_vars, NEW s \in DOMAIN tables, NEW es,
         \A k \in DOMAIN es : es[k] \in Reachable,
         tables' = [tables EXCEPT ![s].entries = es],
         UNCHANGED <<globals, elemVals, stack>>
  PROVE  ObjectsKnowTheirModule'
<1>1. tables \in Seq(Table) BY DEF ObjectsInv, LinkInv, TypeOK, PoolShapes
<1>2. ASSUME NEW t \in DOMAIN tables', NEW k \in DOMAIN tables'[t].entries
      PROVE  tables'[t].entries[k] \in Reachable
  <2>1. DOMAIN tables' = DOMAIN tables OBVIOUS
  <2>2. CASE t = s
    <3>1. tables[s] \in Table BY <1>1
    <3>2. tables'[t] = [tables[s] EXCEPT !.entries = es] BY <2>1, <2>2
    <3>3. tables'[t].entries = es BY <3>1, <3>2 DEF Table
    <3> QED BY <1>2, <3>3
  <2>3. CASE t # s
    <3>1. tables'[t] = tables[t] BY <2>1, <2>3
    <3> QED BY <1>2, <2>1, <3>1 DEF Reachable, Pooled, InTables
  <2> QED BY <2>2, <2>3
<1>3. \A v \in InTables' : v \in Reachable BY <1>2 DEF InTables
<1>4. \A v \in Pooled' : v \in Reachable
  BY <1>3 DEF Reachable, Pooled, InGlobals, InSegments
<1> QED BY <1>4, PoolsHandedOn

\* Writing reachable references over reachable ones.
LEMMA WrittenIsReachable ==
  ASSUME NEW es, \A k \in DOMAIN es : es[k] \in Reachable, NEW off,
         NEW vals, \A k \in DOMAIN vals : vals[k] \in Reachable
  PROVE  \A k \in DOMAIN Written(es, off, vals) : Written(es, off, vals)[k] \in Reachable
BY DEF Written

\* The same for a table of the running instance.
LEMMA SetEntriesHandsOn ==
  ASSUME ObjectsInv, [Next]_vars, Running, NEW t \in 1..NumTables(Inst.mod), NEW es,
         \A k \in DOMAIN es : es[k] \in Reachable, SetEntries(t, es), TableStep
  PROVE  ObjectsKnowTheirModule'
<1>1. TableSlot(t) \in DOMAIN tables BY TableHere DEF ObjectsInv
<1>2. tables' = [tables EXCEPT ![TableSlot(t)].entries = es] BY DEF SetEntries
<1>3. PICK s \in DOMAIN tables : s = TableSlot(t) BY <1>1
<1> QED BY <1>2, <1>3, EntriesHandOn DEF TableStep

\* table.set, grow, fill, copy and init.
LEMMA TablesHandOn ==
  ASSUME ObjectsInv, TableSet \/ TableGrow \/ TableFill \/ TableCopy \/ TableInit
  PROVE  ObjectsKnowTheirModule'
<1>1. LinkInv /\ Running /\ TableStep
  BY DEF ObjectsInv, TableSet, TableGrow, TableFill, TableCopy, TableInit
<1>2. [Next]_vars BY DEF Next, Execute
<1>3. Top.val \in Reachable BY <1>1, HeldIsReachable
<1>4. ASSUME NEW t \in 1..NumTables(Inst.mod)
      PROVE  Entries(t) \in Seq(Ref) /\ \A k \in DOMAIN Entries(t) : Entries(t)[k] \in Reachable
  BY <1>1, HeldIsReachable, TableHere
<1>5. CASE TableSet
  <2>1. PICK ins \in Instructions("table.set"), k \in Operands :
          SetEntries(ins.x, [Entries(ins.x) EXCEPT ![k] = Top.val])
    BY <1>5 DEF TableSet
  <2>2. ins.x \in 1..NumTables(Inst.mod) BY <1>1, InstructionsAreValid DEF ValidInstr, TableOps
  <2>3. PICK es : es = [Entries(ins.x) EXCEPT ![k] = Top.val] OBVIOUS
  <2>4. \A j \in DOMAIN es : es[j] \in Reachable BY <1>3, <1>4, <2>2, <2>3
  <2> QED BY <1>1, <1>2, <2>1, <2>2, <2>3, <2>4, SetEntriesHandsOn
<1>6. CASE TableGrow
  <2>1. PICK ins \in Instructions("table.grow"), n \in Operands :
          SetEntries(ins.x, Entries(ins.x) \o [k \in 1..n |-> Top.val])
    BY <1>6 DEF TableGrow
  <2>2. ins.x \in 1..NumTables(Inst.mod) /\ n \in Nat
    BY <1>1, InstructionsAreValid, LimitsAreNumbers DEF ValidInstr, TableOps
  <2>3. PICK more : more = [k \in 1..n |-> Top.val] OBVIOUS
  <2>4. more \in Seq(Reachable) /\ Len(more) = n
    BY <1>3, <2>2, <2>3, SeqDef
  <2>5. PICK old : old = Entries(ins.x) OBVIOUS
  <2>6. old \in Seq(Reachable) BY <1>4, <2>2, <2>5, SeqDef
  <2>7. PICK es : es = old \o more OBVIOUS
  <2>8. es \in Seq(Reachable) BY <2>4, <2>6, <2>7
  <2>9. \A j \in DOMAIN es : es[j] \in Reachable BY <2>8
  <2> QED BY <1>1, <1>2, <2>1, <2>2, <2>3, <2>5, <2>7, <2>9, SetEntriesHandsOn
<1>7. CASE TableFill
  <2>1. PICK ins \in Instructions("table.fill"), dst \in Operands, n \in Operands :
          SetEntries(ins.x, Written(Entries(ins.x), dst, [k \in 1..n |-> Top.val]))
    BY <1>7 DEF TableFill
  <2>2. ins.x \in 1..NumTables(Inst.mod) BY <1>1, InstructionsAreValid DEF ValidInstr, TableOps
  <2>3. PICK vals : vals = [k \in 1..n |-> Top.val] OBVIOUS
  <2>4. PICK es : es = Written(Entries(ins.x), dst, vals) OBVIOUS
  <2>5. \A j \in DOMAIN vals : vals[j] \in Reachable BY <1>3, <2>3
  <2>6. \A j \in DOMAIN es : es[j] \in Reachable BY <1>4, <2>2, <2>4, <2>5, WrittenIsReachable
  <2> QED BY <1>1, <1>2, <2>1, <2>2, <2>3, <2>4, <2>6, SetEntriesHandsOn
<1>8. CASE TableCopy
  <2>1. PICK ins \in Instructions("table.copy"),
             dst \in Operands, src \in Operands, n \in Operands :
          /\ src + n <= Len(Entries(ins.y))
          /\ SetEntries(ins.x, Written(Entries(ins.x), dst, [k \in 1..n |-> Entries(ins.y)[src + k]]))
    BY <1>8 DEF TableCopy
  <2>2. /\ ins.x \in 1..NumTables(Inst.mod) /\ ins.y \in 1..NumTables(Inst.mod)
        /\ src \in Nat /\ n \in Nat
    BY <1>1, InstructionsAreValid, LimitsAreNumbers DEF ValidInstr, TableOps
  <2>3. PICK old : old = Entries(ins.y) OBVIOUS
  <2>4. PICK vals : vals = [k \in 1..n |-> old[src + k]] OBVIOUS
  <2>5. \A j \in DOMAIN vals : vals[j] \in Reachable
    <3>1. old \in Seq(Ref) /\ \A k \in 1..Len(old) : old[k] \in Reachable BY <1>4, <2>2, <2>3
    <3>2. \A k \in 1..n : src + k \in 1..Len(old) BY <2>1, <2>2, <2>3, <3>1
    <3> QED BY <2>4, <3>1, <3>2
  <2>6. PICK es : es = Written(Entries(ins.x), dst, vals) OBVIOUS
  <2>7. \A j \in DOMAIN es : es[j] \in Reachable BY <1>4, <2>2, <2>5, <2>6, WrittenIsReachable
  <2> QED BY <1>1, <1>2, <2>1, <2>2, <2>3, <2>4, <2>6, <2>7, SetEntriesHandsOn
<1>9. CASE TableInit
  <2>1. PICK ins \in Instructions("table.init"),
             dst \in Operands, src \in Operands, n \in Operands :
          /\ src + n <= Len(Segment(ins.y))
          /\ SetEntries(ins.x, Written(Entries(ins.x), dst, [k \in 1..n |-> Segment(ins.y)[src + k]]))
    BY <1>9 DEF TableInit
  <2>2. /\ ins.x \in 1..NumTables(Inst.mod) /\ ins.y \in DOMAIN Inst.mod.elems
        /\ src \in Nat /\ n \in Nat
    BY <1>1, InstructionsAreValid, LimitsAreNumbers DEF ValidInstr, TableOps
  <2>3. PICK old : old = Segment(ins.y) OBVIOUS
  <2>4. PICK vals : vals = [k \in 1..n |-> old[src + k]] OBVIOUS
  <2>5. \A j \in DOMAIN vals : vals[j] \in Reachable
    <3>1. old \in Seq(Ref) /\ \A k \in 1..Len(old) : old[k] \in Reachable
      BY <1>1, <2>2, <2>3, SegmentHere, HeldIsReachable
    <3>2. \A k \in 1..n : src + k \in 1..Len(old) BY <2>1, <2>2, <2>3, <3>1
    <3> QED BY <2>4, <3>1, <3>2
  <2>6. PICK es : es = Written(Entries(ins.x), dst, vals) OBVIOUS
  <2>7. \A j \in DOMAIN es : es[j] \in Reachable BY <1>4, <2>2, <2>5, <2>6, WrittenIsReachable
  <2> QED BY <1>1, <1>2, <2>1, <2>2, <2>3, <2>4, <2>6, <2>7, SetEntriesHandsOn
<1> QED BY <1>5, <1>6, <1>7, <1>8, <1>9

\* An active segment writes what the pool of segments holds.
LEMMA ApplyElemHandsOn ==
  ASSUME ObjectsInv, ApplyElem
  PROVE  ObjectsKnowTheirModule'
<1>1. LinkInv /\ [Next]_vars BY DEF ObjectsInv, Next, Instantiate
<1>2. UNCHANGED <<globals, elemVals, stack>> BY DEF ApplyElem
<1>3. CASE tables' = tables
  <2>1. Pooled' = Pooled BY <1>2, <1>3 DEF Pooled, InTables, InGlobals, InSegments
  <2> QED BY <1>1, <1>2, <2>1, PoolsHandedOn DEF Reachable
<1>4. CASE tables' # tables
  <2> DEFINE seg == job.mod.elems[job.next]
             self == code[Len(code)]
             vals == elemVals[self.maps.elems[job.next]]
             t == self.maps.tables[seg.table]
  <2>1. /\ tables' = [tables EXCEPT ![t].entries = Written(@, seg.off, vals)]
        /\ job.next <= Len(job.mod.elems) /\ job.phase = "elems" /\ seg.mode = "active"
    BY <1>4 DEF ApplyElem
  <2>2. /\ Len(code) \in Instances /\ job.mod = self.mod /\ job.next \in DOMAIN job.mod.elems
        /\ seg.table \in 1..NumTables(self.mod)
    <3>1. Len(code) \in Nat /\ Len(code) >= 1 /\ job.mod = self.mod /\ job.next >= 1
      BY <1>1, <2>1, StoreLengths DEF LinkInv, Committed
    <3>2. job.mod.elems \in Seq(ElemSegment) /\ ModuleIndices(job.mod) /\ job.next \in Nat
      BY <1>1, <2>1, JobShape DEF ModuleShape, Phases, Job
    <3>3. job.next \in DOMAIN job.mod.elems
      <4>1. PICK es : es = job.mod.elems OBVIOUS
      <4>2. PICK n : n = job.next OBVIOUS
      <4>3. es \in Seq(ElemSegment) /\ n \in Nat /\ n >= 1 /\ n <= Len(es)
        BY <2>1, <3>1, <3>2, <4>1, <4>2
      <4>4. n \in DOMAIN es BY <4>3
      <4> QED BY <4>1, <4>2, <4>4
    <3>4. seg.table \in 1..NumTables(job.mod) BY <2>1, <3>2, <3>3 DEF ModuleIndices
    <3> QED BY <3>1, <3>3, <3>4 DEF Instances
  <2>3. t \in DOMAIN tables /\ self.maps.elems[job.next] \in DOMAIN elemVals
    <3>1. PICK i \in Instances : i = Len(code) BY <2>2
    <3>2. /\ Len(code[i].maps.elems) = Len(code[i].mod.elems)
          /\ \A k \in DOMAIN code[i].maps.elems : code[i].maps.elems[k] \in DOMAIN elemVals
          /\ Len(code[i].maps.tables) = NumTables(code[i].mod)
          /\ \A k \in DOMAIN code[i].maps.tables : code[i].maps.tables[k] \in DOMAIN tables
      BY <1>1, MapsLead
    <3>3. code[i] \in Instance /\ MapsAreTotal(i) BY <1>1 DEF LinkInv, TypeOK, Instances
    <3>4. DOMAIN code[i].maps.elems = 1..Len(code[i].maps.elems)
          /\ DOMAIN code[i].maps.tables = 1..Len(code[i].maps.tables)
      <4>1. code[i].maps \in IndexMaps BY <3>3 DEF Instance
      <4>2. code[i].maps.elems \in Slots /\ code[i].maps.tables \in Slots BY <4>1 DEF IndexMaps
      <4> QED BY <4>2 DEF Slots
    <3>5. DOMAIN job.mod.elems = 1..Len(job.mod.elems)
      <4>1. job.mod.elems \in Seq(ElemSegment) BY <1>1, <2>1, JobShape DEF ModuleShape, Phases, Job
      <4> QED BY <4>1, LenProperties
    <3>6. job.next \in DOMAIN self.maps.elems /\ seg.table \in DOMAIN self.maps.tables
      BY <2>2, <3>1, <3>2, <3>4, <3>5
    <3> QED BY <3>1, <3>2, <3>6
  <2>4. PICK ws : ws = vals OBVIOUS
  <2>5. \A k \in DOMAIN ws : ws[k] \in Reachable
    <3>1. PICK n \in DOMAIN elemVals : ws = elemVals[n] BY <2>3, <2>4
    <3>2. \A k \in DOMAIN elemVals[n] : elemVals[n][k] \in InSegments BY DEF InSegments
    <3>3. \A k \in DOMAIN ws : ws[k] \in InSegments BY <3>1, <3>2
    <3> QED BY <3>3 DEF Reachable, Pooled
  <2>6. PICK s \in DOMAIN tables : s = t BY <2>3
  <2>7. PICK es : es = Written(tables[s].entries, seg.off, ws) OBVIOUS
  <2>8. \A k \in DOMAIN tables[s].entries : tables[s].entries[k] \in Reachable
    <3>1. \A k \in DOMAIN tables[s].entries : tables[s].entries[k] \in InTables BY DEF InTables
    <3> QED BY <3>1 DEF Reachable, Pooled
  <2>9. \A k \in DOMAIN es : es[k] \in Reachable BY <2>5, <2>7, <2>8, WrittenIsReachable
  <2>10. tables' = [tables EXCEPT ![s].entries = es] BY <2>1, <2>4, <2>6, <2>7
  <2> QED BY <1>1, <1>2, <2>9, <2>10, EntriesHandOn
<1> QED BY <1>3, <1>4


LEMMA CallsHandOn ==
  ASSUME ObjectsInv, Running, NEW i, NEW f, NEW want, CallTo(i, f, want), [Next]_vars
  PROVE  ObjectsKnowTheirModule'
<1>1. LinkInv /\ stack \in Seq(FrameType) /\ UNCHANGED pools /\ Top.val \in Reachable
  BY FramesAreGood, HeldIsReachable DEF ObjectsInv, CallTo
<1>2. CASE DefiningFunc(i, f)[1] = Host
  <2>1. PICK v : v = Passed(want, Null, Top.val) OBVIOUS
  <2>2. v \in Reachable \/ v = Null BY <1>1, <2>1 DEF Passed
  <2>3. v \in Reachable \/ KnowsModule(v)'
    <3>1. ASSUME v = Null PROVE KnowsModule(v)' BY <3>1 DEF KnowsModule, IsObj, Null
    <3> QED BY <2>2, <3>1
  <2>4. Hold(v) BY <1>2, <2>1 DEF CallTo
  <2> QED BY <1>1, <2>3, <2>4, HoldHandsOn
<1>3. CASE DefiningFunc(i, f)[1] # Host
  <2>1. PICK fr : fr = Entered(i, f, want, Top.val, Top.depth + 1) OBVIOUS
  <2>2. fr.val \in Reachable \/ fr.val = Null BY <1>1, <2>1 DEF Entered, Frame, Passed
  <2>3. stack' = Append(stack, fr) BY <1>3, <2>1 DEF CallTo
  <2>4. ASSUME NEW n \in DOMAIN stack'
        PROVE  stack'[n].val \in Reachable \/ KnowsModule(stack[n].val)'
    <3>1. CASE n = Len(stack) + 1
      <4>1. stack'[n] = fr BY <1>1, <2>3, <3>1
      <4>2. fr.val = Null => KnowsModule(stack[n].val)' BY <4>1 DEF KnowsModule, IsObj, Null
      <4> QED BY <2>2, <4>1, <4>2
    <3>2. CASE n # Len(stack) + 1
      <4>1. n \in DOMAIN stack /\ stack'[n] = stack[n] BY <1>1, <2>3, <2>4, <3>2
      <4> QED BY <1>1, <4>1, HeldIsReachable
    <3> QED BY <3>1, <3>2
  <2> QED BY <1>1, <2>4, StackHandedOn
<1> QED BY <1>2, <1>3

\* So do returns.
LEMMA ReturnHandsOn ==
  ASSUME ObjectsInv, Return
  PROVE  ObjectsKnowTheirModule'
<1>1. /\ LinkInv /\ Running /\ [Next]_vars /\ UNCHANGED pools
      /\ stack \in Seq(FrameType) /\ Len(stack) \in Nat
  BY FramesAreGood DEF ObjectsInv, Return, Next, Control
<1>2. \A n \in DOMAIN stack : stack[n].val \in Reachable BY <1>1, HeldIsReachable
<1>3. Top.val \in Reachable BY <1>1, HeldIsReachable
<1>4. CASE Len(stack) = 1
  <2>1. stack' = <<>> BY <1>4 DEF Return
  <2>2. DOMAIN <<>> = {} OBVIOUS
  <2> QED BY <1>1, <2>1, <2>2, StackHandedOn
<1>5. CASE Len(stack) # 1
  <2>1. PICK m : m = Len(stack) - 1 OBVIOUS
  <2>2. PICK cs : cs = CallerFrames OBVIOUS
  <2>3. cs \in Seq(FrameType) /\ Len(cs) = m /\ \A n \in 1..m : cs[n] = stack[n] /\ n \in DOMAIN stack
    <3>1. Len(stack) >= 1
      BY <1>1, TopFrame
    <3> QED BY <1>1, <2>1, <2>2, <3>1 DEF CallerFrames
  <2>4. stack' = [cs EXCEPT ![m].val = Passed(OwnType, Top.val, @)]
    BY <1>5, <2>1, <2>2 DEF Return
  <2>5. ASSUME NEW n \in DOMAIN stack' PROVE stack'[n].val \in Reachable
    <3>1. n \in 1..m /\ DOMAIN cs = 1..m BY <2>3, <2>4
    <3>2. cs[n] \in FrameType /\ cs[n].val \in Reachable BY <1>2, <2>3, <3>1
    <3>3. CASE n = m
      <4>1. PICK w : w = Passed(OwnType, Top.val, cs[m].val) OBVIOUS
      <4>2. w \in Reachable BY <1>3, <3>2, <3>3, <4>1 DEF Passed
      <4>3. stack'[n] = [cs[n] EXCEPT !.val = w] BY <2>4, <3>1, <3>3, <4>1
      <4>4. stack'[n].val = w BY <3>2, <4>3 DEF FrameType
      <4> QED BY <4>2, <4>4
    <3>4. CASE n # m
      <4>1. stack'[n] = cs[n] BY <2>4, <3>1, <3>4
      <4> QED BY <3>2, <4>1
    <3> QED BY <3>3, <3>4
  <2> QED BY <1>1, <2>5, StackHandedOn
<1> QED BY <1>4, <1>5

\* The host starts a function with null in its frame.
LEMMA HostCallsHandOn ==
  ASSUME ObjectsInv, [Next]_vars, UNCHANGED pools,
         \/ stack' = stack \/ stack' = <<>>
         \/ \E i, f, want, depth : stack' = <<Entered(i, f, want, Null, depth)>>
  PROVE  ObjectsKnowTheirModule'
<1>1. LinkInv BY DEF ObjectsInv
<1>2. CASE stack' = stack
  <2>1. Pooled' = Pooled BY DEF pools, Pooled, InTables, InGlobals, InSegments
  <2> QED BY <1>2, <2>1, PoolsHandedOn DEF Reachable
<1>3. CASE stack' = <<>>
  <2>1. DOMAIN <<>> = {} OBVIOUS
  <2> QED BY <1>3, <2>1, StackHandedOn
<1>4. CASE \E i, f, want, depth : stack' = <<Entered(i, f, want, Null, depth)>>
  <2>1. PICK i, f, want, depth : stack' = <<Entered(i, f, want, Null, depth)>> BY <1>4
  <2>2. PICK fr : fr = Entered(i, f, want, Null, depth) OBVIOUS
  <2>3. fr.val = Null BY <2>2 DEF Entered, Frame, Passed
  <2>4. ASSUME NEW n \in DOMAIN stack'
        PROVE  stack'[n].val \in Reachable \/ KnowsModule(stack[n].val)'
    <3>1. stack'[n] = fr BY <2>1, <2>2
    <3> QED BY <2>3, <3>1 DEF KnowsModule, IsObj, Null
  <2> QED BY <2>4, StackHandedOn
<1> QED BY <1>2, <1>3, <1>4

-----------------------------------------------------------------------------
\* The values of an instantiation: what is known, or will be at Commit, stays so.
LEMMA SoonStays ==
  ASSUME LinkInv, StoreOnlyGrows, code' = code, job'.mod = job.mod,
         NEW v \in Ref, LiveSoon(v), KnowsSoon(v)
  PROVE  KnowsSoon(v)'
<1>1. CASE ~IsObj(v) BY <1>1 DEF KnowsSoon, KnowsModule
<1>2. CASE IsObj(v)
  <2>1. v[2] \in Nat /\ v[2] > 0 /\ v[2] <= Len(heap)
    BY <1>2, StoreLengths DEF LiveSoon, Live, IsObj, IsFunc, Null, Ref
  <2>2. heap'[v[2]] = heap[v[2]] BY <2>1, StoreLengths DEF StoreOnlyGrows
  <2> QED BY <2>2 DEF KnowsSoon, KnowsModule, IsObj, Instances
<1> QED BY <1>1, <1>2

JobKnown == job.phase \in {"globals", "tables"} /\ JobKnows /\ LinkInv

\* What a const expression makes is owned by the instance to come.
LEMMA EvalKnows ==
  ASSUME JobKnown, NEW e \in Expr, NEW k \in Nat, ValidExpr(job.mod, e, k), k <= Len(job.gvals),
         CanEval(e), EvalHeap(e), code' = code, job'.mod = job.mod, StoreOnlyGrows,
         NEW v, v = EvalValue(e, job.gvals)
  PROVE  KnowsSoon(v)'
<1>1. /\ code \in Seq(Instance) /\ heap \in Seq(HeapObject) /\ Len(code) < MaxInstances
      /\ job.gvals \in Seq(Ref) /\ Len(code) \in Nat /\ Len(heap) \in Nat
      /\ \A g \in DOMAIN job.gvals : LiveSoon(job.gvals[g]) /\ KnowsSoon(job.gvals[g])
  BY JobShape DEF JobKnown, JobKnows, LinkInv, TypeOK, Building, Phases
<1>2. e.op \in {"null", "func", "global", "new"} /\ e.arg \in Nat
  BY DEF Expr
<1>3. CASE e.op = "null"
  <2>1. v = Null BY <1>3 DEF EvalValue
  <2> QED BY <2>1 DEF Null, IsObj, KnowsSoon, KnowsModule
<1>4. CASE e.op = "func"
  <2>1. v = FuncRef(Self, e.arg) BY <1>4 DEF EvalValue
  <2>2. Self \in 1..MaxInstances BY <1>1, LimitsAreNumbers DEF Self
  <2>3. v = <<Self, e.arg>> BY <1>2, <2>1, <2>2, FuncRefNames
  <2>4. v[1] # 0 BY <2>2, <2>3
  <2> QED BY <2>4 DEF IsObj, KnowsSoon, KnowsModule
<1>5. CASE e.op = "global"
  <2>1. v = job.gvals[e.arg] /\ e.arg \in 1..k BY <1>5 DEF EvalValue, ValidExpr
  <2>2. e.arg \in DOMAIN job.gvals BY <1>1, <2>1
  <2>3. v \in Ref /\ LiveSoon(v) /\ KnowsSoon(v) BY <1>1, <2>1, <2>2
  <2> QED BY <2>3, SoonStays DEF JobKnown
<1>6. CASE e.op = "new"
  <2>1. v[2] = Len(heap) + 1 BY <1>6 DEF EvalValue, ObjRef
  <2>2. PICK o : o = [owner |-> Self, mod |-> job.mod] OBVIOUS
  <2>3. heap' = Append(heap, o) BY <1>6, <2>2 DEF EvalHeap, Allocate
  <2>4. heap'[v[2]] = o BY <1>1, <2>1, <2>3
  <2>5. heap'[v[2]].owner = Len(code') + 1 /\ heap'[v[2]].mod = job'.mod
    BY <2>2, <2>4 DEF Self
  <2> QED BY <2>5 DEF KnowsSoon
<1> QED BY <1>2, <1>3, <1>4, <1>5, <1>6

\* What the host supplies for a global is null, or what a global holds.
LEMMA BackingIsReachable ==
  ASSUME LinkInv, NEW decl, NEW b \in GlobalBackings(decl)
  PROVE  b.val = Null \/ b.val \in Reachable
<1>1. issued \subseteq Instances BY DEF LinkInv, TypeOK
<1>2. CASE b = [store |-> Host, inst |-> Host, idx |-> 0, val |-> Null] BY <1>2
<1>3. CASE b # [store |-> Host, inst |-> Host, idx |-> 0, val |-> Null]
  <2>1. PICK i \in issued : \E g \in 1..Len(code[i].maps.globals) :
          b = [store |-> ThisStore, inst |-> i, idx |-> g, val |-> globals[code[i].maps.globals[g]]]
    BY <1>3 DEF GlobalBackings
  <2>2. PICK g \in 1..Len(code[i].maps.globals) :
          b = [store |-> ThisStore, inst |-> i, idx |-> g, val |-> globals[code[i].maps.globals[g]]]
    BY <2>1
  <2>3. i \in Instances /\ code[i].maps \in IndexMaps
    BY <1>1, <2>1, MapsLead DEF Instance
  <2>4. g \in DOMAIN code[i].maps.globals
    BY <2>3 DEF IndexMaps, Slots
  <2>5. globals[code[i].maps.globals[g]] \in InGlobals
    BY <2>3, <2>4, MapsLead DEF InGlobals
  <2> QED BY <2>2, <2>5 DEF Reachable, Pooled
<1> QED BY <1>2, <1>3

\* Every step keeps what is known of the values of an instantiation.
LEMMA BeginKnows ==
  ASSUME ObjectsInv, BeginInstantiate
  PROVE  JobKnows'
<1>1. LinkInv /\ UNCHANGED <<code, pools, heap, stack, issued>> BY DEF ObjectsInv, BeginInstantiate
<1>2. PICK m \in Modules :
       \E fs \in [1..Len(m.impFuncs) -> FuncBackings],
          gs \in [1..Len(m.impGlobals) ->
                    UNION {GlobalBackings(m.impGlobals[g]) : g \in 1..Len(m.impGlobals)}],
          ms \in [1..Len(m.impMems) -> MemBackings],
          ts \in [1..Len(m.impTables) -> TableBackings],
          gts \in [1..Len(m.impTags) -> TagBackings] :
         /\ \A g \in 1..Len(m.impGlobals) : gs[g] \in GlobalBackings(m.impGlobals[g])
         /\ \A f \in 1..Len(m.impFuncs) : FuncMatches(m.impFuncs[f], fs[f])
         /\ job' = [phase |-> "globals", mod |-> m,
                    imp |-> [funcs |-> fs, globals |-> gs, mems |-> ms,
                             tables |-> ts, tags |-> gts],
                    gvals |-> [g \in 1..Len(m.impGlobals) |-> gs[g].val],
                    newTables |-> <<>>, next |-> 1]
  BY DEF BeginInstantiate
<1>3. PICK fs \in [1..Len(m.impFuncs) -> FuncBackings],
         gs \in [1..Len(m.impGlobals) ->
                   UNION {GlobalBackings(m.impGlobals[g]) : g \in 1..Len(m.impGlobals)}],
         ms \in [1..Len(m.impMems) -> MemBackings],
         ts \in [1..Len(m.impTables) -> TableBackings],
         gts \in [1..Len(m.impTags) -> TagBackings] :
        /\ \A g \in 1..Len(m.impGlobals) : gs[g] \in GlobalBackings(m.impGlobals[g])
        /\ \A f \in 1..Len(m.impFuncs) : FuncMatches(m.impFuncs[f], fs[f])
        /\ job' = [phase |-> "globals", mod |-> m,
                   imp |-> [funcs |-> fs, globals |-> gs, mems |-> ms,
                            tables |-> ts, tags |-> gts],
                   gvals |-> [g \in 1..Len(m.impGlobals) |-> gs[g].val],
                   newTables |-> <<>>, next |-> 1]
  BY <1>2
<1>30. job'.gvals = [g \in 1..Len(m.impGlobals) |-> gs[g].val] /\ job'.newTables = <<>> BY <1>3
<1>4. ASSUME NEW g \in DOMAIN job'.gvals, NEW v, v = job'.gvals[g] PROVE KnowsSoon(v)'
  <2>1. g \in 1..Len(m.impGlobals) /\ v = gs[g].val BY <1>30, <1>4
  <2>2. v = Null \/ v \in Reachable BY <1>1, <1>3, <2>1, BackingIsReachable
  <2>3. KnowsModule(v)
    <3>1. KnowsModule(Null) BY DEF KnowsModule, IsObj, Null
    <3> QED BY <2>2, <3>1, ReachableKnows
  <2>4. KnowsModule(v)' BY <1>1, <2>3 DEF KnowsModule, Instances
  <2> QED BY <2>4 DEF KnowsSoon
<1>5. \A g \in DOMAIN job'.gvals : KnowsSoon(job.gvals[g])' BY <1>4 DEF KnowsSoon, KnowsModule, IsObj
<1>6. DOMAIN <<>> = {} OBVIOUS
<1> QED BY <1>30, <1>5, <1>6 DEF JobKnows

\* A global's initialiser makes objects of the instance to come.
LEMMA EvalGlobalKnows ==
  ASSUME ObjectsInv, EvalGlobal
  PROVE  JobKnows'
<1> DEFINE m == job.mod
           k == Len(job.gvals) - Len(m.impGlobals) + 1
           e == m.globals[k].init
<1>1. job.phase = "globals" /\ job.phase \in {"globals", "tables"} /\ job.phase \in Phases
  BY DEF EvalGlobal, Phases
<1>2. /\ job \in Job /\ m \in Modules /\ job.gvals \in Seq(Ref) /\ job.newTables \in Seq(Table)
      /\ m.impGlobals \in Seq(GlobalType) /\ m.globals \in Seq(GlobalBody) /\ ModuleIndices(m)
  BY <1>1, JobShape DEF ModuleShape, ObjectsInv
<1>3. /\ Len(job.gvals) \in Len(m.impGlobals)..NumGlobals(m)
      /\ \A g \in DOMAIN job.gvals : LiveSoon(job.gvals[g])
      /\ job.newTables = <<>>
  BY <1>1 DEF ObjectsInv, LinkInv, Building
<1>4. CASE ~CanEval(e)
  <2>1. job' = Idle BY <1>4 DEF EvalGlobal, FailInstantiation
  <2> QED BY <2>1 DEF JobKnows, Idle
<1>5. CASE CanEval(e)
  <2>1. /\ k <= Len(m.globals) /\ EvalHeap(e)
        /\ job' = [job EXCEPT !.gvals = Append(@, EvalValue(e, job.gvals))]
        /\ UNCHANGED <<code, pools, stack, issued>>
    BY <1>5 DEF EvalGlobal
  <2>2. k \in DOMAIN m.globals /\ Len(m.impGlobals) + k - 1 = Len(job.gvals)
        /\ Len(job.gvals) \in Nat
    <3>1. Len(job.gvals) \in Nat /\ Len(m.impGlobals) \in Nat /\ Len(m.globals) \in Nat
          /\ DOMAIN m.globals = 1..Len(m.globals)
      BY <1>2
    <3>2. Len(job.gvals) >= Len(m.impGlobals)
      BY <1>3, <3>1 DEF NumGlobals
    <3>3. \A a, b, c \in Nat : a >= b /\ a - b + 1 <= c =>
            a - b + 1 \in 1..c /\ b + (a - b + 1) - 1 = a
      OBVIOUS
    <3> QED BY <2>1, <3>1, <3>2, <3>3
  <2>3. e \in Expr /\ ValidExpr(m, e, Len(job.gvals))
    <3>1. m.globals[k] \in GlobalBody
      <4> HIDE DEF k
      <4> QED BY <1>2, <2>2, ElementOfSeq
    <3>2. ValidExpr(m, e, Len(m.impGlobals) + k - 1)
      BY <1>2, <2>2 DEF ModuleIndices
    <3> QED BY <2>2, <3>1, <3>2 DEF GlobalBody
  <2>4. PICK v : v = EvalValue(e, job.gvals)
    OBVIOUS
  <2> HIDE DEF e, k
  <2>5. job'.mod = m /\ job'.newTables = <<>> /\ job'.gvals = Append(job.gvals, v)
    BY <1>2, <1>3, <2>1, <2>4 DEF Job
  <2>6. JobKnown /\ [Next]_vars /\ code' = code /\ Len(job.gvals) <= Len(job.gvals)
    BY <1>1, <2>1, <2>2 DEF JobKnown, ObjectsInv, Next, Instantiate
  <2>7. StoreOnlyGrows BY <2>6, NextOnlyGrows DEF JobKnown
  <2>8. KnowsSoon(v)' BY <1>5, <2>1, <2>2, <2>3, <2>4, <2>5, <2>6, <2>7, EvalKnows
  <2>9. ASSUME NEW g \in DOMAIN job'.gvals, NEW w, w = job'.gvals[g] PROVE KnowsSoon(w)'
    <3>1. w = v \/ (g \in DOMAIN job.gvals /\ w = job.gvals[g]) BY <1>2, <2>5, <2>9
    <3>2. CASE g \in DOMAIN job.gvals /\ w = job.gvals[g]
      <4>1. w \in Ref /\ LiveSoon(w) BY <1>2, <1>3, <3>2
      <4>2. KnowsSoon(w) BY <1>1, <3>2 DEF ObjectsInv, JobKnows
      <4> QED BY <2>5, <2>6, <2>7, <4>1, <4>2, SoonStays DEF JobKnown
    <3> QED BY <2>8, <3>1, <3>2
  <2>10. \A g \in DOMAIN job'.gvals : KnowsSoon(job.gvals[g])' BY <2>9 DEF KnowsSoon, KnowsModule, IsObj
  <2>11. DOMAIN <<>> = {} OBVIOUS
  <2> QED BY <2>5, <2>10, <2>11 DEF JobKnows
<1> QED BY <1>4, <1>5

\* So does a table's.
LEMMA EvalTableKnows ==
  ASSUME ObjectsInv, EvalTable
  PROVE  JobKnows'
<1> DEFINE m == job.mod
           k == Len(job.newTables) + 1
           decl == m.tables[k]
           e == decl.init
           min == [i \in 1..Len(m.tables) |-> m.tables[i].min][k]
<1>1. job.phase = "tables" /\ job.phase \in {"globals", "tables"} /\ job.phase \in Phases
  BY DEF EvalTable, Phases
<1>2. /\ job \in Job /\ m \in Modules /\ job.gvals \in Seq(Ref) /\ job.newTables \in Seq(Table)
      /\ m.tables \in Seq(TableBody) /\ ModuleIndices(m)
  BY <1>1, JobShape DEF ModuleShape, ObjectsInv
<1>3. /\ Len(job.gvals) = NumGlobals(m)
      /\ \A g \in DOMAIN job.gvals : LiveSoon(job.gvals[g])
      /\ \A t \in DOMAIN job.newTables : \A j \in DOMAIN job.newTables[t].entries :
           LiveSoon(job.newTables[t].entries[j])
  BY <1>1 DEF ObjectsInv, LinkInv, Building
<1>4. PICK v : v = EvalValue(e, job.gvals)
  OBVIOUS
<1>5. PICK tab : tab = [entries |-> [j \in 1..min |-> v], max |-> decl.max, elem |-> decl.elem]
  OBVIOUS
<1>6. CASE job' = Idle BY <1>6 DEF JobKnows, Idle
<1>7. CASE job' # Idle
  <2>1. /\ CanEval(e) /\ EvalHeap(e) /\ UNCHANGED <<code, pools, stack, issued>>
        /\ k <= Len(m.tables)
        /\ job' = [job EXCEPT !.newTables = Append(@, tab)]
    BY <1>4, <1>5, <1>7 DEF EvalTable, FailInstantiation
  <2>2. k \in 1..Len(m.tables) BY <1>2, <2>1
  <2>3. e \in Expr /\ ValidExpr(m, e, NumGlobals(m))
    <3>1. decl \in TableBody
      <4> HIDE DEF k
      <4> QED BY <1>2, <2>2, ElementOfSeq
    <3>2. DOMAIN m.tables = 1..Len(m.tables)
      BY <1>2, LenProperties
    <3>3. ValidExpr(m, e, NumGlobals(m))
      BY <1>2, <2>2, <3>2 DEF ModuleIndices
    <3> QED BY <3>1, <3>3 DEF TableBody
  <2> HIDE DEF e, k, decl, min
  <2>4. /\ job'.mod = m /\ job'.newTables = Append(job.newTables, tab)
        /\ job'.gvals = job.gvals
    BY <1>2, <2>1 DEF Job
  <2>5. /\ JobKnown /\ [Next]_vars /\ code' = code
        /\ NumGlobals(m) <= Len(job.gvals) /\ NumGlobals(m) \in Nat
    <3>1. Len(job.gvals) \in Nat BY <1>2
    <3> QED BY <1>1, <1>3, <2>1, <3>1 DEF JobKnown, ObjectsInv, Next, Instantiate
  <2>6. StoreOnlyGrows BY <2>5, NextOnlyGrows DEF JobKnown
  <2>7. KnowsSoon(v)' BY <1>4, <2>1, <2>3, <2>4, <2>5, <2>6, EvalKnows
  <2>8. tab.entries = [j \in 1..min |-> v] BY <1>5
  <2>9. ASSUME NEW w \in Ref, LiveSoon(w), KnowsSoon(w) PROVE KnowsSoon(w)'
    BY <2>4, <2>5, <2>6, <2>9, SoonStays DEF JobKnown
  <2>10. ASSUME NEW t \in DOMAIN job'.newTables, NEW j \in DOMAIN job'.newTables[t].entries,
                NEW w, w = job'.newTables[t].entries[j]
         PROVE  KnowsSoon(w)'
    <3>1. CASE t = Len(job.newTables) + 1
      <4>1. job'.newTables[t] = tab BY <1>2, <2>4, <3>1
      <4> QED BY <2>7, <2>8, <2>10, <4>1
    <3>2. CASE t # Len(job.newTables) + 1
      <4>1. t \in DOMAIN job.newTables /\ job'.newTables[t] = job.newTables[t]
        BY <1>2, <2>4, <2>10, <3>2
      <4>2. job.newTables[t] \in Table BY <1>2, <4>1
      <4>3. w \in Ref /\ LiveSoon(w) BY <1>3, <2>10, <4>1, <4>2 DEF Table
      <4>4. KnowsSoon(w) BY <1>1, <2>10, <4>1 DEF ObjectsInv, JobKnows
      <4> QED BY <2>9, <4>3, <4>4
    <3> QED BY <3>1, <3>2
  <2>11. ASSUME NEW g \in DOMAIN job'.gvals, NEW w, w = job'.gvals[g] PROVE KnowsSoon(w)'
    <3>1. w \in Ref /\ LiveSoon(w) BY <1>2, <1>3, <2>4, <2>11
    <3>2. KnowsSoon(w) BY <1>1, <2>4, <2>11 DEF ObjectsInv, JobKnows
    <3> QED BY <2>9, <3>1, <3>2
  <2>12. \A g \in DOMAIN job'.gvals : KnowsSoon(job.gvals[g])'
    BY <2>11 DEF KnowsSoon, KnowsModule, IsObj
  <2>13. \A t \in DOMAIN job'.newTables : \A j \in DOMAIN job'.newTables[t].entries :
           KnowsSoon(job.newTables[t].entries[j])'
    BY <2>10 DEF KnowsSoon, KnowsModule, IsObj
  <2> QED BY <2>12, <2>13 DEF JobKnows
<1> QED BY <1>6, <1>7

\* When the instance joins the store its objects have their owner.
LEMMA BecomesKnown ==
  ASSUME LinkInv, Commit, NEW v, KnowsSoon(v)
  PROVE  KnowsModule(v)'
<1>1. /\ heap' = heap /\ Len(code) \in Nat /\ StoreExtends /\ Len(code') = Len(code) + 1
      /\ code'[Len(code) + 1].mod = job.mod
  BY CommitExtends, Ready
<1>2. CASE KnowsModule(v)
  <2>1. \A i \in Instances : i \in Instances' /\ code'[i] = code[i]
    BY <1>1 DEF StoreExtends, Instances
  <2> QED BY <1>1, <1>2, <2>1 DEF KnowsModule
<1>3. CASE heap[v[2]].owner = Len(code) + 1 /\ heap[v[2]].mod = job.mod
  BY <1>1, <1>3 DEF KnowsModule, Instances
<1> QED BY <1>2, <1>3 DEF KnowsSoon

\* A segment's items are null, functions, or values of the globals.
LEMMA ItemsKnow ==
  ASSUME JobKnown, Commit, NEW items \in Seq(Expr),
         \A j \in DOMAIN items :
           items[j].op # "new" /\ ValidExpr(job.mod, items[j], NumGlobals(job.mod))
  PROVE  \A k \in DOMAIN ElemValue(items, job.gvals) : KnowsSoon(ElemValue(items, job.gvals)[k])
<1>1. /\ job.gvals \in Seq(Ref) /\ Len(job.gvals) = NumGlobals(job.mod)
      /\ \A g \in DOMAIN job.gvals : KnowsSoon(job.gvals[g])
      /\ Self \in 1..MaxInstances
  BY Ready, LimitsAreNumbers DEF Self, JobKnown, JobKnows
<1>2. ASSUME NEW j \in DOMAIN items, NEW v, v = EvalValue(items[j], job.gvals)
      PROVE  KnowsSoon(v)
  <2>1. PICK e : e = items[j]
    OBVIOUS
  <2>2. e \in Expr /\ e.op # "new" /\ ValidExpr(job.mod, e, NumGlobals(job.mod))
    BY <2>1
  <2>3. e.op \in {"null", "func", "global"} /\ e.arg \in Nat
    BY <2>2 DEF Expr
  <2>4. v = EvalValue(e, job.gvals)
    BY <1>2, <2>1
  <2>5. CASE e.op = "null"
    <3>1. v = Null BY <2>4, <2>5 DEF EvalValue
    <3> QED BY <3>1 DEF Null, IsObj, KnowsSoon, KnowsModule
  <2>6. CASE e.op = "func"
    <3>1. v = FuncRef(Self, e.arg) BY <2>4, <2>6 DEF EvalValue
    <3>2. v = <<Self, e.arg>> BY <1>1, <2>3, <3>1, FuncRefNames
    <3>3. v[1] # 0 BY <1>1, <3>2
    <3> QED BY <3>3 DEF IsObj, KnowsSoon, KnowsModule
  <2>7. CASE e.op = "global"
    <3>1. v = job.gvals[e.arg] /\ e.arg \in 1..NumGlobals(job.mod)
      BY <2>2, <2>4, <2>7 DEF EvalValue, ValidExpr
    <3>2. e.arg \in DOMAIN job.gvals
      BY <1>1, <3>1, LenProperties
    <3> QED BY <1>1, <3>1, <3>2
  <2> QED BY <2>3, <2>5, <2>6, <2>7
<1> QED BY <1>2 DEF ElemValue

\* An element of a concatenation is an element of one of its parts.
LEMMA ConcatParts ==
  ASSUME NEW T, NEW s \in Seq(T), NEW U, NEW u \in Seq(U), NEW j \in DOMAIN (s \o u)
  PROVE  \/ j \in DOMAIN s /\ (s \o u)[j] = s[j]
         \/ j - Len(s) \in DOMAIN u /\ (s \o u)[j] = u[j - Len(s)]
OBVIOUS

\* What Commit puts into the pools is known when it is there.
LEMMA CommitHandsOn ==
  ASSUME ObjectsInv, Commit
  PROVE  ObjectsKnowTheirModule'
<1> DEFINE m == job.mod
           imp == job.imp
<1>1. /\ LinkInv /\ JobKnown /\ [Next]_vars /\ stack' = stack
      /\ job.phase = "tables"
  BY Ready DEF ObjectsInv, JobKnown, Next, Instantiate, Commit
<1>2. ASSUME NEW v, KnowsSoon(v) PROVE KnowsModule(v)'
  BY <1>1, <1>2, BecomesKnown
<1>3. ASSUME NEW t \in DOMAIN tables', NEW k \in DOMAIN tables'[t].entries, NEW v,
             v = tables'[t].entries[k]
      PROVE  v \in Reachable \/ KnowsModule(v)'
  <2>1. tables' = tables \o job.newTables BY DEF Commit
  <2>2. tables \in Seq(Table) /\ job.newTables \in Seq(Table)
    BY <1>1, Ready DEF LinkInv, TypeOK, PoolShapes
  <2>3. CASE t \in DOMAIN tables /\ tables'[t] = tables[t]
    BY <1>3, <2>3 DEF Reachable, Pooled, InTables
  <2>4. CASE t - Len(tables) \in DOMAIN job.newTables /\ tables'[t] = job.newTables[t - Len(tables)]
    <3>1. PICK n \in DOMAIN job.newTables : tables'[t] = job.newTables[n] BY <2>4
    <3>2. KnowsSoon(v) BY <1>1, <1>3, <3>1 DEF JobKnown, JobKnows
    <3> QED BY <1>2, <3>2
  <2>5. t \in DOMAIN (tables \o job.newTables) BY <2>1
  <2> QED BY <2>1, <2>2, <2>3, <2>4, <2>5, ConcatParts
<1>4. ASSUME NEW s \in DOMAIN elemVals', NEW k \in DOMAIN elemVals'[s], NEW v, v = elemVals'[s][k]
      PROVE  v \in Reachable \/ KnowsModule(v)'
  <2>1. PICK new : new = [i \in 1..Len(m.elems) |-> ElemValue(m.elems[i].items, job.gvals)]
    OBVIOUS
  <2>2. elemVals' = elemVals \o new BY <2>1 DEF Commit
  <2>3. m.elems \in Seq(ElemSegment) /\ ModuleIndices(m) /\ Len(m.elems) \in Nat
    <3>1. ModuleShape(m) /\ ModuleIndices(m)
      BY <1>1, Ready
    <3>2. m.elems \in Seq(ElemSegment)
      BY <3>1 DEF ModuleShape
    <3> QED BY <3>1, <3>2
  <2>4. ASSUME NEW i \in 1..Len(m.elems)
        PROVE  m.elems[i].items \in Seq(Expr)
               /\ \A j \in DOMAIN m.elems[i].items :
                    /\ m.elems[i].items[j].op # "new"
                    /\ ValidExpr(m, m.elems[i].items[j], NumGlobals(m))
    <3>1. m.elems[i] \in ElemSegment /\ i \in DOMAIN m.elems BY <2>3
    <3> QED BY <2>3, <3>1 DEF ElemSegment, ModuleIndices
  <2>5. ASSUME NEW i \in 1..Len(m.elems) PROVE new[i] \in Seq(Ref)
    BY <1>1, <2>1, <2>4, ItemsEvaluate
  <2>6. new \in Seq(Seq(Ref)) /\ Len(new) = Len(m.elems)
    <3>1. new \in [1..Len(m.elems) -> Seq(Ref)] BY <2>1, <2>5
    <3> QED BY <2>3, <3>1, FunctionIsSeq
  <2>7. elemVals \in Seq(Seq(Ref)) BY <1>1 DEF LinkInv, TypeOK, PoolShapes
  <2>8. CASE s \in DOMAIN elemVals /\ elemVals'[s] = elemVals[s]
    BY <1>4, <2>8 DEF Reachable, Pooled, InSegments
  <2>9. CASE s - Len(elemVals) \in DOMAIN new /\ elemVals'[s] = new[s - Len(elemVals)]
    <3>1. PICK n \in DOMAIN new : elemVals'[s] = new[n] BY <2>9
    <3>2. n \in 1..Len(m.elems) BY <2>1, <3>1
    <3>3. new[n] = ElemValue(m.elems[n].items, job.gvals) BY <2>1, <3>2
    <3>4. KnowsSoon(v) BY <1>1, <1>4, <2>4, <3>1, <3>2, <3>3, ItemsKnow
    <3> QED BY <1>2, <3>4
  <2>10. s \in DOMAIN (elemVals \o new) BY <2>2
  <2> QED BY <2>2, <2>6, <2>7, <2>8, <2>9, <2>10, ConcatParts
<1>5. ASSUME NEW g \in DOMAIN globals', NEW v, v = globals'[g]
      PROVE  v \in Reachable \/ KnowsModule(v)'
  <2>1. PICK def, host : def = DefinedGlobals(m) /\ host = HostGlobals(m, imp) OBVIOUS
  <2>2. PICK mid : mid = globals \o def OBVIOUS
  <2>3. globals' = mid \o host BY <2>1, <2>2 DEF Commit
  <2>4. globals \in Seq(Ref) BY <1>1 DEF LinkInv, TypeOK, PoolShapes
  <2>5. /\ Len(m.globals) \in Nat /\ Len(m.impGlobals) \in Nat
        /\ job.gvals \in Seq(Ref) /\ Len(job.gvals) = Len(m.impGlobals) + Len(m.globals)
    BY <1>1, Ready, Lengths DEF NumGlobals
  <2>6. \A a, b \in Nat : \A x \in 1..b : a + x \in 1..(a + b) OBVIOUS
  <2>7. ASSUME NEW i \in 1..Len(m.globals) PROVE def[i] \in Ref /\ KnowsSoon(def[i])
    <3>1. def[i] = job.gvals[Len(m.impGlobals) + i] BY <2>1 DEF DefinedGlobals
    <3>2. Len(m.impGlobals) + i \in DOMAIN job.gvals BY <2>5, <2>6, LenProperties
    <3>3. KnowsSoon(job.gvals[Len(m.impGlobals) + i])
      BY <1>1, <3>2 DEF JobKnown, JobKnows
    <3> QED BY <2>5, <3>1, <3>2, <3>3
  <2>8. def \in Seq(Ref) /\ DOMAIN def = 1..Len(m.globals)
    <3>1. def \in [1..Len(m.globals) -> Ref] BY <2>1, <2>7 DEF DefinedGlobals
    <3> QED BY <2>5, <3>1, FunctionIsSeq
  <2>9. host \in Seq({Null}) /\ \A r \in DOMAIN host : host[r] = Null
    <3>1. HostShare \in Nat BY <1>1, HostShareIsNumber
    <3>2. host = [r \in 1..HostShare |-> Null] BY <2>1 DEF HostGlobals, HostShare
    <3>3. host \in [1..HostShare -> {Null}] BY <3>2
    <3> QED BY <3>1, <3>2, <3>3, FunctionIsSeq
  <2>10. mid \in Seq(Ref) BY <2>2, <2>4, <2>8
  <2>11. CASE g \in DOMAIN mid /\ globals'[g] = mid[g]
    <3>1. CASE g \in DOMAIN globals /\ mid[g] = globals[g]
      BY <1>5, <2>11, <3>1 DEF Reachable, Pooled, InGlobals
    <3>2. CASE g - Len(globals) \in DOMAIN def /\ mid[g] = def[g - Len(globals)]
      BY <1>2, <1>5, <2>7, <2>8, <2>11, <3>2
    <3> QED BY <2>2, <2>4, <2>8, <2>11, <3>1, <3>2, ConcatParts
  <2>12. CASE g - Len(mid) \in DOMAIN host /\ globals'[g] = host[g - Len(mid)]
    <3>1. v = Null BY <1>5, <2>9, <2>12
    <3> QED BY <3>1 DEF KnowsModule, IsObj, Null
  <2>13. g \in DOMAIN (mid \o host) BY <2>3
  <2> QED BY <2>3, <2>9, <2>10, <2>11, <2>12, <2>13, ConcatParts
<1>6. ASSUME NEW v \in Pooled' PROVE v \in Reachable \/ KnowsModule(v)'
  <2>1. CASE v \in InTables'
    <3>1. PICK t \in DOMAIN tables' : \E k \in DOMAIN tables'[t].entries : v = tables'[t].entries[k]
      BY <2>1 DEF InTables
    <3> QED BY <1>3, <3>1
  <2>2. CASE v \in InGlobals' BY <1>5, <2>2 DEF InGlobals
  <2>3. CASE v \in InSegments'
    <3>1. PICK s \in DOMAIN elemVals' : \E k \in DOMAIN elemVals'[s] : v = elemVals'[s][k]
      BY <2>3 DEF InSegments
    <3> QED BY <1>4, <3>1
  <2> QED BY <1>6, <2>1, <2>2, <2>3 DEF Pooled
<1> QED BY <1>1, <1>6, PoolsHandedOn

\* Every step keeps what is known of the objects.
LEMMA NextKnows ==
  ASSUME ObjectsInv, [Next]_vars
  PROVE  ObjectsKnowTheirModule'
<1>1. CASE UNCHANGED vars
  BY <1>1, HostCallsHandOn DEF vars
<1>2. CASE BeginInstantiate \/ EvalGlobal \/ LinkResources \/ EvalTable \/ ApplyData
  <2>1. UNCHANGED pools /\ stack' = stack
    BY <1>2 DEF BeginInstantiate, EvalGlobal, LinkResources, EvalTable, ApplyData
  <2> QED BY <2>1, HostCallsHandOn
<1>3. CASE Start
  <2>1. UNCHANGED pools BY <1>3 DEF Start
  <2>2. \/ stack' = stack
        \/ \E i, f, want, depth : stack' = <<Entered(i, f, want, Null, depth)>>
    BY <1>3 DEF Start
  <2> QED BY <2>1, <2>2, HostCallsHandOn
<1>4. CASE Invoke
  <2>1. UNCHANGED pools BY <1>4 DEF Invoke
  <2>2. \E i, f, want, depth : stack' = <<Entered(i, f, want, Null, depth)>>
    BY <1>4 DEF Invoke
  <2> QED BY <2>1, <2>2, HostCallsHandOn
<1>5. CASE TrapOut
  BY <1>5, HostCallsHandOn DEF TrapOut
<1>6. CASE ElemDrop \/ DataDrop \/ MemoryGrow
  <2>1. UNCHANGED <<globals, tables, elemVals, stack>>
    BY <1>6 DEF ElemDrop, DataDrop, MemoryGrow
  <2>2. Pooled' = Pooled BY <2>1 DEF Pooled, InTables, InGlobals, InSegments
  <2> QED BY <2>1, <2>2, PoolsHandedOn DEF Reachable
<1>7. CASE Call
  <2>1. PICK ins \in Instructions("call") : CallTo(Top.inst, ins.x, FuncType(Inst.mod, ins.x))
    BY <1>7 DEF Call
  <2> QED BY <1>7, <2>1, CallsHandOn DEF Call
<1>8. CASE CallIndirect
  <2>1. PICK ins \in Instructions("call_indirect"), k \in Operands :
          CallTo(Entries(ins.x)[k][1], Entries(ins.x)[k][2], ins.y)
    BY <1>8 DEF CallIndirect
  <2> QED BY <1>8, <2>1, CallsHandOn DEF CallIndirect
<1>9. CASE Commit BY <1>9, CommitHandsOn
<1>10. CASE ApplyElem BY <1>10, ApplyElemHandsOn
<1>11. CASE Return BY <1>11, ReturnHandsOn
<1>12. CASE RefFunc \/ StructNew \/ GlobalGet \/ TableGet \/ GlobalSet
  BY <1>12, RefFuncHandsOn, StructNewHandsOn, GlobalGetHandsOn, TableGetHandsOn, GlobalSetHandsOn
<1>13. CASE TableSet \/ TableGrow \/ TableFill \/ TableCopy \/ TableInit
  BY <1>13, TablesHandOn
<1> QED BY <1>1, <1>2, <1>3, <1>4, <1>5, <1>6, <1>7, <1>8, <1>9, <1>10, <1>11, <1>12, <1>13
  DEF Next, Instantiate, Control, Execute

\* A step that neither begins an instantiation nor evaluates leaves its values.
LEMMA JobKnowsStays ==
  ASSUME ObjectsInv, code' = code, heap' = heap,
         job'.phase \in {"globals", "tables"} =>
           /\ job.phase \in {"globals", "tables"} /\ job'.mod = job.mod
           /\ job'.gvals = job.gvals /\ job'.newTables = job.newTables
  PROVE  JobKnows'
<1> SUFFICES ASSUME job'.phase \in {"globals", "tables"}
             PROVE  JobKnows'
  BY DEF JobKnows
<1>1. \A v : KnowsSoon(v) <=> KnowsSoon(v)' BY DEF KnowsSoon, KnowsModule, Instances
<1>2. JobKnows BY DEF ObjectsInv
<1>3. ASSUME NEW g \in DOMAIN job'.gvals PROVE KnowsSoon(job.gvals[g])'
  <2>1. PICK w : w = job.gvals[g] OBVIOUS
  <2>2. KnowsSoon(w)' BY <1>1, <1>2, <1>3, <2>1 DEF JobKnows
  <2>3. w = job'.gvals[g] BY <2>1
  <2> QED BY <2>2, <2>3 DEF KnowsSoon, KnowsModule, IsObj
<1>4. ASSUME NEW t \in DOMAIN job'.newTables, NEW k \in DOMAIN job'.newTables[t].entries
      PROVE  KnowsSoon(job.newTables[t].entries[k])'
  <2>1. PICK w : w = job.newTables[t].entries[k] OBVIOUS
  <2>2. KnowsSoon(w)' BY <1>1, <1>2, <1>4, <2>1 DEF JobKnows
  <2>3. w = job'.newTables[t].entries[k] BY <2>1
  <2> QED BY <2>2, <2>3 DEF KnowsSoon, KnowsModule, IsObj
<1> QED BY <1>3, <1>4 DEF JobKnows

\* Every step keeps what is known of the values of an instantiation.
LEMMA NextKnowsSoon ==
  ASSUME ObjectsInv, [Next]_vars
  PROVE  JobKnows'
<1>1. CASE UNCHANGED vars
  BY <1>1, JobKnowsStays DEF vars
<1>2. CASE BeginInstantiate BY <1>2, BeginKnows
<1>3. CASE EvalGlobal BY <1>3, EvalGlobalKnows
<1>4. CASE EvalTable BY <1>4, EvalTableKnows
<1>5. CASE LinkResources
  <2>1. UNCHANGED <<code, heap>> /\ job.phase = "globals"
        /\ (job' = [job EXCEPT !.phase = "tables"] \/ job' = Idle)
    BY <1>5 DEF LinkResources, FailInstantiation
  <2>2. job.phase \in Phases /\ LinkInv BY <2>1 DEF Phases, ObjectsInv
  <2>3. job \in Job BY <2>2, JobShape
  <2> QED BY <2>1, <2>3, JobKnowsStays DEF Job, Idle
<1>6. CASE Commit \/ ApplyElem \/ ApplyData \/ Start
  <2>1. job.phase \in {"tables", "elems", "start"} /\ job.phase \in Phases /\ LinkInv
    BY <1>6 DEF Commit, ApplyElem, ApplyData, Start, Phases, ObjectsInv
  <2>2. job \in Job BY <2>1, JobShape
  <2>3. job' = Idle \/ job'.phase \in {"elems", "start", "running"}
    BY <1>6, <2>2 DEF Commit, ApplyElem, ApplyData, Start, FinishStart, FailInstantiation, Job
  <2> QED BY <2>3 DEF JobKnows, Idle
<1>7. CASE Invoke
  BY <1>7, JobKnowsStays DEF Invoke
<1>8. CASE Return \/ TrapOut
  <2>1. job' = job \/ job' = Idle BY <1>8 DEF Return, TrapOut, FinishStart
  <2>2. UNCHANGED <<code, heap>> BY <1>8 DEF Return, TrapOut
  <2> QED BY <2>1, <2>2, JobKnowsStays DEF Idle
<1>9. CASE Call \/ CallIndirect
  BY <1>9, JobKnowsStays DEF Call, CallIndirect, CallTo
<1>10. CASE StructNew
  <2>1. job' = job /\ job.phase \in {"idle", "running"}
    BY <1>10, RunningPhase DEF StructNew, ObjectsInv
  <2> QED BY <2>1 DEF JobKnows
<1>11. CASE Execute /\ ~StructNew
  <2>1. UNCHANGED <<code, heap, job>>
    BY <1>11 DEF Execute, RefFunc, GlobalGet, GlobalSet, TableGet, TableSet, TableGrow,
       TableFill, TableCopy, TableInit, ElemDrop, DataDrop, MemoryGrow, TableStep
  <2> QED BY <2>1, JobKnowsStays
<1> QED BY <1>1, <1>2, <1>3, <1>4, <1>5, <1>6, <1>7, <1>8, <1>9, <1>10, <1>11
  DEF Next, Instantiate, Control, Execute

\* The invariant about objects holds of the store: also the values that a
\* running instantiation has made belong to the instance it makes.
THEOREM ObjectsAreOwned == Spec => []ObjectsInv
<1>1. Init => ObjectsInv
  <2> SUFFICES ASSUME Init PROVE ObjectsInv OBVIOUS
  <2>1. LinkInv BY InitIsInOrder
  <2>2. JobKnows BY DEF Init, JobKnows, Idle
  <2>3. Reachable = {}
    <3>1. DOMAIN <<>> = {} OBVIOUS
    <3> QED BY <3>1 DEF Init, Reachable, Pooled, InTables, InGlobals, InSegments
  <2> QED BY <2>1, <2>2, <2>3 DEF ObjectsInv, ObjectsKnowTheirModule
<1>2. ObjectsInv /\ [Next]_vars => ObjectsInv'
  <2> SUFFICES ASSUME ObjectsInv, [Next]_vars PROVE ObjectsInv' OBVIOUS
  <2>1. LinkInv' BY NextKeepsOrder DEF ObjectsInv
  <2> QED BY <2>1, NextKnows, NextKnowsSoon DEF ObjectsInv
<1> QED BY <1>1, <1>2, PTL DEF Spec

\* An object a guest can reach is owned by an instance of the module whose
\* types number it, although failed instantiations leave objects behind
\* (HeapObject::owner, eval_const_expr).
THEOREM AlwaysObjectsKnowTheirModule == Spec => []ObjectsKnowTheirModule
<1>1. ObjectsInv => ObjectsKnowTheirModule BY DEF ObjectsInv
<1> QED BY <1>1, ObjectsAreOwned, PTL

-----------------------------------------------------------------------------
(* Limits and kinds.                                                       *)

\* A memory and a table within the ceilings and their own maximum, the entries
\* of a table of its kind.
MemWithin(a) == a.pages <= MaxMemoryPages /\ (a.max # NoMax => a.pages <= a.max)
TableWithin(a) ==
  /\ Len(a.entries) <= MaxTableElems /\ (a.max # NoMax => Len(a.entries) <= a.max)
  /\ \A e \in DOMAIN a.entries : HasKind(a.entries[e], a.elem)
PoolsWithin ==
  /\ \A k \in DOMAIN mems : MemWithin(mems[k])
  /\ \A t \in DOMAIN tables : TableWithin(tables[t])
  /\ Len(heap) <= MaxGcObjects

\* What a module declared, and what its index leads to.
MemAs(decl, a) == a.pages >= decl.min /\ MaxMatches(a.max, decl.max)
TableAs(decl, a) == a.elem = decl.elem /\ Len(a.entries) >= decl.min /\ MaxMatches(a.max, decl.max)
SegmentAs(m, s, vals) ==
  \A kind \in Kinds : ItemsProduce(m, s, kind) => \A j \in DOMAIN vals : HasKind(vals[j], kind)
MemsAsDeclared(i) ==
  \A k \in 1..NumMems(code[i].mod) : MemAs(MemDecl(code[i].mod, k), mems[code[i].maps.mems[k]])
TablesAsDeclared(i) ==
  \A t \in 1..NumTables(code[i].mod) : TableAs(TableDecl(code[i].mod, t), tables[code[i].maps.tables[t]])
GlobalsAsDeclared(i) ==
  \A g \in 1..NumGlobals(code[i].mod) :
    HasKind(globals[code[i].maps.globals[g]], GlobalDecl(code[i].mod, g).kind)
SegmentsAsDeclared(i) ==
  \A s \in 1..Len(code[i].mod.elems) : SegmentAs(code[i].mod, s, elemVals[code[i].maps.elems[s]])
AsDeclared(i) ==
  MemsAsDeclared(i) /\ TablesAsDeclared(i) /\ GlobalsAsDeclared(i) /\ SegmentsAsDeclared(i)

\* Instances that share a global agree on its kind.
AgreeOn(x, y) ==
  \A g \in 1..NumGlobals(x.mod), h \in 1..NumGlobals(y.mod) :
    x.maps.globals[g] = y.maps.globals[h] => GlobalDecl(x.mod, g).kind = GlobalDecl(y.mod, h).kind
Agree(i, j) == AgreeOn(code[i], code[j])

\* What a running instantiation has evaluated and checked.
GlobalsPlanned(m, imp, gvals) ==
  /\ \A g \in DOMAIN gvals : HasKind(gvals[g], GlobalDecl(m, g).kind)
  /\ \A g \in 1..Len(m.impGlobals) :
       LET b == imp.globals[g]
       IN  b.store # Host => GlobalDecl(code[b.inst].mod, b.idx).kind = m.impGlobals[g].kind
ResourcesPlanned(m, imp) ==
  /\ \A k \in 1..Len(m.impMems) : MemMatches(m.impMems[k], imp.mems[k])
  /\ \A t \in 1..Len(m.impTables) : TableMatches(m.impTables[t], imp.tables[t])
  /\ \A k \in 1..Len(m.mems) : m.mems[k].min <= MaxMemoryPages
TablesPlanned(m, new) ==
  \A t \in DOMAIN new : TableWithin(new[t]) /\ TableAs(m.tables[t], new[t])
Planned ==
  /\ job.phase \in {"globals", "tables"} => GlobalsPlanned(job.mod, job.imp, job.gvals)
  /\ job.phase = "tables" => ResourcesPlanned(job.mod, job.imp) /\ TablesPlanned(job.mod, job.newTables)
Declared == /\ \A i \in Instances : AsDeclared(i)
            /\ \A i, j \in Instances : Agree(i, j)
LimitsInv == AskedInv /\ PoolsWithin /\ Declared /\ Planned

\* A step that leaves what instances share alone.
LEMMA SharedStays ==
  ASSUME PoolsWithin, Declared, UNCHANGED <<code, globals, mems, tables, elemVals>>, Len(heap') <= MaxGcObjects
  PROVE  PoolsWithin' /\ Declared'
<1>1. PoolsWithin'
  BY DEF PoolsWithin
<1>2. \A i : /\ MemsAsDeclared(i)' = MemsAsDeclared(i) /\ TablesAsDeclared(i)' = TablesAsDeclared(i)
             /\ GlobalsAsDeclared(i)' = GlobalsAsDeclared(i) /\ SegmentsAsDeclared(i)' = SegmentsAsDeclared(i)
  BY Zenon DEF MemsAsDeclared, TablesAsDeclared, GlobalsAsDeclared, SegmentsAsDeclared
<1>3. \A i, j : Agree(i, j)' = Agree(i, j)
  BY DEF Agree
<1>4. Instances' = Instances
  BY DEF Instances
<1> QED BY <1>1, <1>2, <1>3, <1>4 DEF Declared, AsDeclared

\* What an instance's index leads to exists.
LEMMA DeclaredSlots ==
  ASSUME LinkInv, NEW i \in Instances
  PROVE  /\ \A k \in 1..NumMems(code[i].mod) : code[i].maps.mems[k] \in DOMAIN mems
         /\ \A k \in 1..NumTables(code[i].mod) : code[i].maps.tables[k] \in DOMAIN tables
         /\ \A k \in 1..NumGlobals(code[i].mod) : code[i].maps.globals[k] \in DOMAIN globals
         /\ \A k \in 1..Len(code[i].mod.elems) : code[i].maps.elems[k] \in DOMAIN elemVals
<1>1. /\ MapsAreTotal(i) /\ code[i] \in Instance
  BY DEF LinkInv, TypeOK, Instances
<1>2. code[i].maps \in IndexMaps
  BY <1>1 DEF Instance
<1>3. /\ mems \in Seq(Memory) /\ tables \in Seq(Table) /\ globals \in Seq(Ref) /\ elemVals \in Seq(Seq(Ref))
  BY DEF LinkInv, TypeOK, PoolShapes
<1>4. ASSUME NEW map \in Slots, NEW num, NEW S, NEW pool \in Seq(S), MapInto(map, num, pool), NEW k \in 1..num
      PROVE  map[k] \in DOMAIN pool
  BY <1>4 DEF Slots, MapInto
<1>5. /\ code[i].maps.mems \in Slots /\ code[i].maps.tables \in Slots
      /\ code[i].maps.globals \in Slots /\ code[i].maps.elems \in Slots
  BY <1>2 DEF IndexMaps
<1>6. /\ MapInto(code[i].maps.globals, NumGlobals(code[i].mod), globals)
      /\ MapInto(code[i].maps.mems, NumMems(code[i].mod), mems)
      /\ MapInto(code[i].maps.tables, NumTables(code[i].mod), tables)
      /\ MapInto(code[i].maps.elems, Len(code[i].mod.elems), elemVals)
  BY <1>1 DEF MapsAreTotal
<1> QED BY <1>3, <1>4, <1>5, <1>6

\* The limits a module declares are numbers.
LEMMA DeclShapes ==
  ASSUME NEW m \in Modules
  PROVE  /\ \A k \in 1..NumTables(m) : /\ TableDecl(m, k).min \in Nat /\ TableDecl(m, k).max \in Int
                                       /\ TableDecl(m, k).elem \in Kinds
         /\ \A k \in 1..NumMems(m) : MemDecl(m, k).min \in Nat /\ MemDecl(m, k).max \in Int
         /\ \A k \in 1..NumGlobals(m) : GlobalDecl(m, k).kind \in Kinds
<1>1. /\ m.impTables \in Seq(TableType) /\ m.tables \in Seq(TableBody)
      /\ m.impMems \in Seq(MemType) /\ m.mems \in Seq(MemType)
      /\ m.impGlobals \in Seq(GlobalType) /\ m.globals \in Seq(GlobalBody)
  BY ModulesAreValid DEF ModuleShape
<1>2. ASSUME NEW S, NEW T, NEW a \in Seq(S), NEW b \in Seq(T), NEW k \in 1..(Len(a) + Len(b))
      PROVE  IF k <= Len(a) THEN a[k] \in S ELSE b[k - Len(a)] \in T
  BY <1>2
<1>3. ASSUME NEW k \in 1..NumTables(m)
      PROVE  TableDecl(m, k).min \in Nat /\ TableDecl(m, k).max \in Int /\ TableDecl(m, k).elem \in Kinds
  <2>1. IF k <= Len(m.impTables) THEN m.impTables[k] \in TableType
        ELSE m.tables[k - Len(m.impTables)] \in TableBody
    BY <1>1, <1>2, <1>3 DEF NumTables
  <2> QED BY <2>1 DEF TableDecl, TableType, TableBody
<1>4. ASSUME NEW k \in 1..NumMems(m) PROVE MemDecl(m, k).min \in Nat /\ MemDecl(m, k).max \in Int
  <2>1. IF k <= Len(m.impMems) THEN m.impMems[k] \in MemType
        ELSE m.mems[k - Len(m.impMems)] \in MemType
    BY <1>1, <1>2, <1>4 DEF NumMems
  <2> QED BY <2>1 DEF MemDecl, MemType
<1>5. ASSUME NEW k \in 1..NumGlobals(m) PROVE GlobalDecl(m, k).kind \in Kinds
  <2>1. IF k <= Len(m.impGlobals) THEN m.impGlobals[k] \in GlobalType
        ELSE m.globals[k - Len(m.impGlobals)] \in GlobalBody
    BY <1>1, <1>2, <1>5 DEF NumGlobals
  <2> QED BY <2>1 DEF GlobalDecl, GlobalType, GlobalBody
<1> QED BY <1>3, <1>4, <1>5

LEMMA InstanceModule ==
  ASSUME LinkInv, NEW i \in Instances
  PROVE  code[i] \in Instance /\ code[i].mod \in Modules
<1>1. code[i] \in Instance
  BY DEF LinkInv, TypeOK, Instances
<1> QED BY <1>1 DEF Instance

\* What one table is left with when its entries are written.
LEMMA OneTableWritten ==
  ASSUME LinkInv, NEW s \in DOMAIN tables, NEW es, tables' = [tables EXCEPT ![s].entries = es]
  PROVE  /\ DOMAIN tables' = DOMAIN tables
         /\ \A t \in DOMAIN tables : /\ t # s => tables'[t] = tables[t]
                                     /\ tables'[t].max = tables[t].max /\ tables'[t].elem = tables[t].elem
         /\ tables'[s].entries = es
<1>1. tables \in Seq(Table)
  BY DEF LinkInv, TypeOK, PoolShapes
<1>2. ASSUME NEW t \in DOMAIN tables PROVE tables[t] \in Table
  BY <1>1
<1> QED BY <1>1, <1>2 DEF Table

\* A write to a table that keeps to its limits and its kind.
LEMMA TableWrittenWithin ==
  ASSUME LinkInv, PoolsWithin, Declared, NEW s \in DOMAIN tables, NEW es, Len(es) \in Nat,
         Len(es) >= Len(tables[s].entries), Len(es) <= MaxTableElems,
         tables[s].max # NoMax => Len(es) <= tables[s].max,
         \A e \in DOMAIN es : HasKind(es[e], tables[s].elem),
         tables' = [tables EXCEPT ![s].entries = es], UNCHANGED <<code, globals, mems, elemVals, heap>>
  PROVE  PoolsWithin' /\ Declared'
<1>1. /\ DOMAIN tables' = DOMAIN tables
      /\ \A t \in DOMAIN tables : /\ t # s => tables'[t] = tables[t]
                                  /\ tables'[t].max = tables[t].max /\ tables'[t].elem = tables[t].elem
      /\ tables'[s].entries = es
  BY OneTableWritten
<1>2. PoolsWithin'
  <2>1. TableWithin(tables'[s])
    BY <1>1 DEF TableWithin
  <2>2. \A t \in DOMAIN tables : t # s => TableWithin(tables'[t])
    BY <1>1 DEF PoolsWithin, TableWithin
  <2> QED BY <1>1, <2>1, <2>2 DEF PoolsWithin
<1>3. ASSUME NEW i \in Instances PROVE TablesAsDeclared(i)'
  <2> SUFFICES ASSUME NEW k \in 1..NumTables(code[i].mod)
               PROVE  TableAs(TableDecl(code[i].mod, k), tables'[code[i].maps.tables[k]])
    BY DEF TablesAsDeclared
  <2> PICK t : t = code[i].maps.tables[k]
    OBVIOUS
  <2> PICK d : d = TableDecl(code[i].mod, k)
    OBVIOUS
  <2>1. t \in DOMAIN tables
    BY DeclaredSlots
  <2>2. TableAs(d, tables[t])
    BY DEF Declared, AsDeclared, TablesAsDeclared
  <2>3. CASE t = s
    <3>1. d.min \in Nat
      BY InstanceModule, DeclShapes
    <3>2. Len(tables[s].entries) \in Nat
      BY StoreLengths
    <3>3. tables'[t].entries = es /\ tables'[t].max = tables[t].max /\ tables'[t].elem = tables[t].elem
      BY <1>1, <2>1, <2>3
    <3>4. Len(es) >= d.min
      BY <2>2, <2>3, <3>1, <3>2 DEF TableAs
    <3> QED BY <2>2, <3>3, <3>4 DEF TableAs
  <2>4. CASE t # s
    BY <1>1, <2>1, <2>2, <2>4
  <2> QED BY <2>3, <2>4
<1>4. \A i : /\ MemsAsDeclared(i)' = MemsAsDeclared(i)
             /\ GlobalsAsDeclared(i)' = GlobalsAsDeclared(i) /\ SegmentsAsDeclared(i)' = SegmentsAsDeclared(i)
  BY Zenon DEF MemsAsDeclared, GlobalsAsDeclared, SegmentsAsDeclared
<1>5. \A i, j : Agree(i, j)' = Agree(i, j)
  BY DEF Agree
<1>6. Instances' = Instances
  BY DEF Instances
<1> QED BY <1>2, <1>3, <1>4, <1>5, <1>6 DEF Declared, AsDeclared

\* The table an instruction names is within its limits and as declared.
LEMMA TopTable ==
  ASSUME LimitsInv, Running, NEW t \in 1..NumTables(Inst.mod)
  PROVE  /\ TableSlot(t) \in DOMAIN tables /\ Entries(t) \in Seq(Ref) /\ Len(Entries(t)) \in Nat
         /\ TableWithin(tables[TableSlot(t)]) /\ TableAs(TableDecl(Inst.mod, t), tables[TableSlot(t)])
         /\ tables[TableSlot(t)].max \in Int
<1>1. LinkInv
  BY DEF LimitsInv, AskedInv
<1>2. TableSlot(t) \in DOMAIN tables /\ Entries(t) \in Seq(Ref)
  BY <1>1, TableHere
<1>3. Top.inst \in Instances
  BY <1>1, TopFrame
<1>4. TableAs(TableDecl(Inst.mod, t), tables[TableSlot(t)])
  BY <1>3 DEF LimitsInv, Declared, AsDeclared, TablesAsDeclared, TableSlot, Inst
<1>5. tables[TableSlot(t)] \in Table
  BY <1>1, <1>2 DEF LinkInv, TypeOK, PoolShapes
<1> QED BY <1>2, <1>4, <1>5 DEF LimitsInv, PoolsWithin, Table

\* A table instruction writes what fits: values of the table's kind, and no more
\* entries than there were or than the table may have.
LEMMA TableInstruction ==
  ASSUME LimitsInv, Running, NEW t \in 1..NumTables(Inst.mod), NEW es, Len(es) \in Nat,
         Len(es) >= Len(Entries(t)), Len(es) = Len(Entries(t)) \/ Len(es) <= TableLimit(tables[TableSlot(t)]),
         \A e \in DOMAIN es : HasKind(es[e], TableDecl(Inst.mod, t).elem),
         SetEntries(t, es), TableStep
  PROVE  PoolsWithin' /\ Declared'
<1>1. LinkInv /\ PoolsWithin /\ Declared
  BY DEF LimitsInv, AskedInv
<1>2. PICK s : s = TableSlot(t)
  OBVIOUS
<1>3. /\ s \in DOMAIN tables /\ Len(tables[s].entries) \in Nat
      /\ TableWithin(tables[s]) /\ TableAs(TableDecl(Inst.mod, t), tables[s]) /\ tables[s].max \in Int
  BY <1>2, TopTable DEF Entries
<1>4. Len(es) >= Len(tables[s].entries)
  BY <1>2 DEF Entries
<1>5. Len(es) <= MaxTableElems /\ (tables[s].max # NoMax => Len(es) <= tables[s].max)
  <2>1. CASE Len(es) = Len(Entries(t))
    BY <1>2, <1>3, <2>1 DEF TableWithin, Entries
  <2>2. CASE Len(es) <= TableLimit(tables[s])
    BY <1>3, <2>2, LimitsAreNumbers DEF TableLimit, LeastOf
  <2> QED BY <1>2, <2>1, <2>2
<1>6. \A e \in DOMAIN es : HasKind(es[e], tables[s].elem)
  BY <1>3 DEF TableAs
<1>7. tables' = [tables EXCEPT ![s].entries = es] /\ UNCHANGED <<code, globals, mems, elemVals, heap>>
  BY <1>2 DEF SetEntries, TableStep
<1> QED BY <1>1, <1>3, <1>4, <1>5, <1>6, <1>7, TableWrittenWithin

\* What is written over entries of one kind leaves entries of that kind.
LEMMA WrittenHasKind ==
  ASSUME NEW es \in Seq(Ref), NEW off, NEW vals, NEW kind,
         \A e \in DOMAIN es : HasKind(es[e], kind), \A e \in DOMAIN vals : HasKind(vals[e], kind)
  PROVE  /\ Len(Written(es, off, vals)) = Len(es)
         /\ \A e \in DOMAIN Written(es, off, vals) : HasKind(Written(es, off, vals)[e], kind)
<1>1. Len(Written(es, off, vals)) = Len(es) /\ DOMAIN Written(es, off, vals) = DOMAIN es
  BY WrittenLength
<1>2. ASSUME NEW e \in DOMAIN es PROVE HasKind(Written(es, off, vals)[e], kind)
  BY <1>2 DEF Written
<1> QED BY <1>1, <1>2

LEMMA TableWrites ==
  ASSUME LimitsInv, Running, NEW t \in 1..NumTables(Inst.mod), NEW off, NEW vals,
         \A e \in DOMAIN vals : HasKind(vals[e], TableDecl(Inst.mod, t).elem),
         SetEntries(t, Written(Entries(t), off, vals)), TableStep
  PROVE  PoolsWithin' /\ Declared'
<1>1. /\ Entries(t) \in Seq(Ref) /\ Len(Entries(t)) \in Nat
      /\ TableWithin(tables[TableSlot(t)]) /\ TableAs(TableDecl(Inst.mod, t), tables[TableSlot(t)])
  BY TopTable
<1>2. \A e \in DOMAIN Entries(t) : HasKind(Entries(t)[e], TableDecl(Inst.mod, t).elem)
  BY <1>1 DEF TableWithin, TableAs, Entries
<1>3. PICK es : es = Written(Entries(t), off, vals)
  OBVIOUS
<1>4. Len(es) = Len(Entries(t)) /\ \A e \in DOMAIN es : HasKind(es[e], TableDecl(Inst.mod, t).elem)
  BY <1>1, <1>2, <1>3, WrittenHasKind
<1> QED BY <1>1, <1>3, <1>4, TableInstruction

\* The instructions that name a table name one of the module's.
LEMMA TableNamed ==
  ASSUME LimitsInv, Running, NEW op \in TableOps, NEW ins \in Instructions(op)
  PROVE  ins.x \in 1..NumTables(Inst.mod)
<1>1. LinkInv
  BY DEF LimitsInv, AskedInv
<1> QED BY <1>1, InstructionsAreValid DEF ValidInstr

LEMMA TableSetWithin ==
  ASSUME LimitsInv, TableSet
  PROVE  PoolsWithin' /\ Declared'
<1>1. Running /\ TableStep
  BY DEF TableSet
<1>2. PICK ins \in Instructions("table.set"), k \in Operands :
        /\ k \in DOMAIN Entries(ins.x) /\ Fits(ins.x)
        /\ SetEntries(ins.x, [Entries(ins.x) EXCEPT ![k] = Top.val])
  BY DEF TableSet
<1>3. ins.x \in 1..NumTables(Inst.mod)
  BY <1>1, TableNamed DEF TableOps
<1>4. PICK t : t = ins.x
  OBVIOUS
<1>5. PICK es : es = [Entries(t) EXCEPT ![k] = Top.val]
  OBVIOUS
<1>6. /\ Entries(t) \in Seq(Ref) /\ Len(Entries(t)) \in Nat
      /\ TableWithin(tables[TableSlot(t)]) /\ TableAs(TableDecl(Inst.mod, t), tables[TableSlot(t)])
  BY <1>1, <1>3, <1>4, TopTable
<1>7. Len(es) = Len(Entries(t)) /\ DOMAIN es = DOMAIN Entries(t)
  BY <1>5, <1>6
<1>8. \A e \in DOMAIN Entries(t) : HasKind(Entries(t)[e], TableDecl(Inst.mod, t).elem)
  BY <1>6 DEF TableWithin, TableAs, Entries
<1>9. HasKind(Top.val, TableDecl(Inst.mod, t).elem)
  BY <1>2, <1>4 DEF Fits
<1>10. \A e \in DOMAIN es : HasKind(es[e], TableDecl(Inst.mod, t).elem)
  BY <1>2, <1>4, <1>5, <1>7, <1>8, <1>9
<1> QED BY <1>1, <1>2, <1>3, <1>4, <1>5, <1>6, <1>7, <1>10, TableInstruction

LEMMA TableGrowWithin ==
  ASSUME LimitsInv, TableGrow
  PROVE  PoolsWithin' /\ Declared'
<1>1. Running /\ TableStep
  BY DEF TableGrow
<1>2. PICK ins \in Instructions("table.grow"), n \in Operands :
        /\ Fits(ins.x)
        /\ Len(Entries(ins.x)) + n <= TableLimit(tables[TableSlot(ins.x)])
        /\ SetEntries(ins.x, Entries(ins.x) \o [k \in 1..n |-> Top.val])
  BY DEF TableGrow
<1>3. ins.x \in 1..NumTables(Inst.mod) /\ n \in Nat
  BY <1>1, TableNamed, LimitsAreNumbers DEF TableOps
<1>4. PICK t : t = ins.x
  OBVIOUS
<1>5. PICK old, new : old = Entries(t) /\ new = [k \in 1..n |-> Top.val]
  OBVIOUS
<1>6. PICK es : es = old \o new
  OBVIOUS
<1>7. /\ old \in Seq(Ref) /\ Len(old) \in Nat
      /\ TableWithin(tables[TableSlot(t)]) /\ TableAs(TableDecl(Inst.mod, t), tables[TableSlot(t)])
  BY <1>1, <1>3, <1>4, <1>5, TopTable
<1>8. new \in Seq({Top.val}) /\ Len(new) = n /\ \A e \in 1..n : new[e] = Top.val
  BY <1>3, <1>5
<1>9. Len(es) = Len(old) + n /\ Len(es) \in Nat /\ Len(es) >= Len(old)
  <2>1. Len(es) = Len(old) + Len(new)
    BY <1>6, <1>7, <1>8
  <2> QED BY <1>3, <1>7, <1>8, <2>1
<1>10. \A e \in DOMAIN old : HasKind(old[e], TableDecl(Inst.mod, t).elem)
  BY <1>5, <1>7 DEF TableWithin, TableAs, Entries
<1>11. HasKind(Top.val, TableDecl(Inst.mod, t).elem)
  BY <1>2, <1>4 DEF Fits
<1>12. ASSUME NEW e \in DOMAIN es PROVE HasKind(es[e], TableDecl(Inst.mod, t).elem)
  <2>1. e \in 1..(Len(old) + n) /\ DOMAIN old = 1..Len(old)
    <3>1. DOMAIN es = 1..Len(es)
      BY <1>6, <1>7, <1>8
    <3> QED BY <1>7, <1>9, <1>12, <3>1
  <2>2. es[e] = IF e <= Len(old) THEN old[e] ELSE new[e - Len(old)]
    BY <1>6, <1>7, <1>8, <2>1
  <2>3. CASE e <= Len(old)
    BY <1>7, <1>10, <2>1, <2>2, <2>3
  <2>4. CASE ~(e <= Len(old))
    BY <1>3, <1>7, <1>8, <1>11, <2>1, <2>2, <2>4
  <2> QED BY <2>3, <2>4
<1> QED BY <1>1, <1>2, <1>3, <1>4, <1>5, <1>6, <1>9, <1>12, TableInstruction

LEMMA TableFillWithin ==
  ASSUME LimitsInv, TableFill
  PROVE  PoolsWithin' /\ Declared'
<1>1. Running /\ TableStep
  BY DEF TableFill
<1>2. PICK ins \in Instructions("table.fill"), dst \in Operands, n \in Operands :
        /\ Fits(ins.x)
        /\ SetEntries(ins.x, Written(Entries(ins.x), dst, [k \in 1..n |-> Top.val]))
  BY DEF TableFill
<1>3. ins.x \in 1..NumTables(Inst.mod)
  BY <1>1, TableNamed DEF TableOps
<1>4. PICK vals : vals = [k \in 1..n |-> Top.val]
  OBVIOUS
<1>5. \A e \in DOMAIN vals : HasKind(vals[e], TableDecl(Inst.mod, ins.x).elem)
  BY <1>2, <1>4 DEF Fits
<1> QED BY <1>1, <1>2, <1>3, <1>4, <1>5, TableWrites

\* What validation says of an instruction of the running function.
LEMMA InstructionTyped ==
  ASSUME LinkInv, Running, NEW op, NEW ins \in Instructions(op)
  PROVE  /\ op = "table.copy" => TableDecl(Inst.mod, ins.y).elem = TableDecl(Inst.mod, ins.x).elem
         /\ op = "table.init" => ItemsProduce(Inst.mod, ins.y, TableDecl(Inst.mod, ins.x).elem)
<1>1. PICK m : m = Inst.mod
  OBVIOUS
<1>2. PICK f : f = Top.func - Len(m.impFuncs)
  OBVIOUS
<1>3. m \in Modules /\ ModuleShape(m) /\ ModuleTypes(m)
  BY <1>1, TopFrame, ModulesAreValid, ModulesAreTyped
<1>4. Top.func \in 1..NumFuncs(m) /\ ~IsImport(m, Top.func)
  BY <1>1, TopFrame DEF GoodFrame, HasBody, Inst
<1>5. f \in DOMAIN m.funcs
  <2>1. m.impFuncs \in Seq(FuncImport) /\ m.funcs \in Seq(FuncBody)
    BY <1>3 DEF ModuleShape
  <2>2. Len(m.impFuncs) \in Nat /\ Len(m.funcs) \in Nat /\ DOMAIN m.funcs = 1..Len(m.funcs)
    BY <2>1, LenProperties
  <2>3. Top.func \in 1..(Len(m.impFuncs) + Len(m.funcs)) /\ ~(Top.func <= Len(m.impFuncs))
    BY <1>4 DEF NumFuncs, IsImport
  <2>4. \A a, b \in Nat : \A x \in 1..(a + b) : ~(x <= a) => x - a \in 1..b
    OBVIOUS
  <2> QED BY <1>2, <2>2, <2>3, <2>4
<1>6. ins \in m.funcs[f].body /\ ins.op = op
  BY <1>1, <1>2 DEF Instructions, Body
<1> QED BY <1>1, <1>3, <1>5, <1>6 DEF ModuleTypes

LEMMA TableCopyWithin ==
  ASSUME LimitsInv, TableCopy
  PROVE  PoolsWithin' /\ Declared'
<1>1. Running /\ TableStep /\ LinkInv
  BY DEF TableCopy, LimitsInv, AskedInv
<1>2. PICK ins \in Instructions("table.copy"), dst \in Operands, src \in Operands, n \in Operands :
        /\ src + n <= Len(Entries(ins.y))
        /\ SetEntries(ins.x, Written(Entries(ins.x), dst, [k \in 1..n |-> Entries(ins.y)[src + k]]))
  BY DEF TableCopy
<1>3. /\ ins.x \in 1..NumTables(Inst.mod) /\ ins.y \in 1..NumTables(Inst.mod)
      /\ src \in Nat /\ n \in Nat /\ TableDecl(Inst.mod, ins.y).elem = TableDecl(Inst.mod, ins.x).elem
  BY <1>1, InstructionsAreValid, InstructionTyped, LimitsAreNumbers DEF ValidInstr, TableOps
<1>4. PICK from : from = Entries(ins.y)
  OBVIOUS
<1>5. PICK vals : vals = [k \in 1..n |-> from[src + k]]
  OBVIOUS
<1>6. /\ from \in Seq(Ref) /\ Len(from) \in Nat
      /\ \A e \in DOMAIN from : HasKind(from[e], TableDecl(Inst.mod, ins.x).elem)
  <2>1. /\ Entries(ins.y) \in Seq(Ref) /\ Len(Entries(ins.y)) \in Nat
        /\ TableWithin(tables[TableSlot(ins.y)])
        /\ TableAs(TableDecl(Inst.mod, ins.y), tables[TableSlot(ins.y)])
    BY <1>1, <1>3, TopTable
  <2> QED BY <1>3, <1>4, <2>1 DEF TableWithin, TableAs, Entries
<1>7. \A e \in DOMAIN vals : src + e \in DOMAIN from /\ vals[e] = from[src + e]
  BY <1>2, <1>3, <1>4, <1>5, <1>6
<1>8. \A e \in DOMAIN vals : HasKind(vals[e], TableDecl(Inst.mod, ins.x).elem)
  BY <1>6, <1>7
<1> QED BY <1>1, <1>2, <1>3, <1>4, <1>5, <1>8, TableWrites

LEMMA TableInitWithin ==
  ASSUME LimitsInv, TableInit
  PROVE  PoolsWithin' /\ Declared'
<1>1. Running /\ TableStep /\ LinkInv
  BY DEF TableInit, LimitsInv, AskedInv
<1>2. PICK ins \in Instructions("table.init"), dst \in Operands, src \in Operands, n \in Operands :
        /\ src + n <= Len(Segment(ins.y))
        /\ SetEntries(ins.x, Written(Entries(ins.x), dst, [k \in 1..n |-> Segment(ins.y)[src + k]]))
  BY DEF TableInit
<1>3. /\ ins.x \in 1..NumTables(Inst.mod) /\ ins.y \in DOMAIN Inst.mod.elems
      /\ src \in Nat /\ n \in Nat /\ ItemsProduce(Inst.mod, ins.y, TableDecl(Inst.mod, ins.x).elem)
  BY <1>1, InstructionsAreValid, InstructionTyped, LimitsAreNumbers DEF ValidInstr, TableOps
<1>4. PICK from : from = Segment(ins.y)
  OBVIOUS
<1>5. PICK vals : vals = [k \in 1..n |-> from[src + k]]
  OBVIOUS
<1>6. from \in Seq(Ref) /\ Len(from) \in Nat
  BY <1>1, <1>3, <1>4, SegmentHere
<1>7. \A e \in DOMAIN from : HasKind(from[e], TableDecl(Inst.mod, ins.x).elem)
  <2>1. Top.inst \in Instances /\ Inst.mod \in Modules
    BY <1>1, TopFrame
  <2>2. ins.y \in 1..Len(Inst.mod.elems)
    BY <1>3, <2>1, ModulesAreValid DEF ModuleShape
  <2>3. SegmentAs(Inst.mod, ins.y, elemVals[Inst.maps.elems[ins.y]])
    BY <2>1, <2>2 DEF LimitsInv, Declared, AsDeclared, SegmentsAsDeclared, Inst
  <2>4. TableDecl(Inst.mod, ins.x).elem \in Kinds
    BY <1>3, <2>1, DeclShapes
  <2>5. \A e \in DOMAIN elemVals[Inst.maps.elems[ins.y]] :
          HasKind(elemVals[Inst.maps.elems[ins.y]][e], TableDecl(Inst.mod, ins.x).elem)
    BY <1>3, <2>3, <2>4 DEF SegmentAs
  <2>6. from = <<>> \/ from = elemVals[Inst.maps.elems[ins.y]]
    BY <1>4 DEF Segment
  <2> QED BY <2>5, <2>6
<1>8. \A e \in DOMAIN vals : src + e \in DOMAIN from /\ vals[e] = from[src + e]
  BY <1>2, <1>3, <1>4, <1>5, <1>6
<1>9. \A e \in DOMAIN vals : HasKind(vals[e], TableDecl(Inst.mod, ins.x).elem)
  BY <1>7, <1>8
<1> QED BY <1>1, <1>2, <1>3, <1>4, <1>5, <1>9, TableWrites

\* An active element segment writes values of the table's kind.
LEMMA ApplyElemWithin ==
  ASSUME LimitsInv, ApplyElem
  PROVE  PoolsWithin' /\ Declared'
<1> DEFINE self == code[Len(code)]
           seg == job.mod.elems[job.next]
           vals == elemVals[self.maps.elems[job.next]]
           t == self.maps.tables[seg.table]
<1>1. LinkInv /\ PoolsWithin /\ Declared
  BY DEF LimitsInv, AskedInv
<1>2. /\ job.phase = "elems" /\ job.next <= Len(job.mod.elems)
      /\ UNCHANGED <<code, globals, mems, elemVals, heap>>
      /\ \/ UNCHANGED tables
         \/ /\ seg.mode = "active"
            /\ tables' = [tables EXCEPT ![t].entries = Written(@, seg.off, vals)]
  BY Zenon DEF ApplyElem
<1>3. CASE UNCHANGED tables
  BY <1>1, <1>2, <1>3, SharedStays DEF PoolsWithin
<1>4. CASE seg.mode = "active" /\ tables' = [tables EXCEPT ![t].entries = Written(@, seg.off, vals)]
  <2>1. /\ job.mod = self.mod /\ Len(code) \in Instances /\ job.mod \in Modules
        /\ ModuleIndices(job.mod) /\ job.next \in Nat /\ job.next >= 1 /\ ModuleShape(job.mod)
    BY <1>1, <1>2, CommittedJob
  <2>2. job.next \in 1..Len(job.mod.elems) /\ job.next \in DOMAIN job.mod.elems
    <3>1. PICK s : s = job.mod.elems
      OBVIOUS
    <3>2. PICK n : n = job.next
      OBVIOUS
    <3>3. s \in Seq(ElemSegment) /\ n \in Nat /\ n >= 1 /\ n <= Len(s)
      BY <1>2, <2>1, <3>1, <3>2 DEF ModuleShape
    <3>4. n \in 1..Len(s) /\ n \in DOMAIN s
      BY <3>3
    <3> QED BY <3>1, <3>2, <3>4
  <2>3. seg.table \in 1..NumTables(job.mod)
    BY <1>4, <2>1, <2>2 DEF ModuleIndices
  <2>4. PICK i, x, r : i = Len(code) /\ x = seg.table /\ r = job.next
    OBVIOUS
  <2>5. i \in Instances /\ x \in 1..NumTables(code[i].mod) /\ r \in 1..Len(code[i].mod.elems)
        /\ job.mod = code[i].mod /\ t = code[i].maps.tables[x] /\ vals = elemVals[code[i].maps.elems[r]]
    BY <2>1, <2>2, <2>3, <2>4
  <2>6. PICK es0, vs, off : es0 = tables[t].entries /\ vs = vals /\ off = seg.off
    OBVIOUS
  <2>7. PICK s : s = t
    OBVIOUS
  <2>8. PICK kind : kind = TableDecl(code[i].mod, x).elem
    OBVIOUS
  <2>9. kind \in Kinds
    BY <2>1, <2>5, <2>8, DeclShapes
  <2>10. ItemsProduce(code[i].mod, r, kind)
    BY <1>4, <2>1, <2>2, <2>4, <2>5, <2>8, ModulesAreTyped DEF ModuleTypes
  <2>11. \A e \in DOMAIN vs : HasKind(vs[e], kind)
    <3>1. SegmentAs(code[i].mod, r, elemVals[code[i].maps.elems[r]])
      BY <1>1, <2>5 DEF Declared, AsDeclared, SegmentsAsDeclared
    <3> QED BY <2>5, <2>6, <2>9, <2>10, <3>1 DEF SegmentAs
  <2>12. s \in DOMAIN tables
    BY <1>1, <2>5, <2>7, DeclaredSlots
  <2>13. TableAs(TableDecl(code[i].mod, x), tables[s]) /\ TableWithin(tables[s])
    BY <1>1, <2>5, <2>7, <2>12 DEF Declared, AsDeclared, TablesAsDeclared, PoolsWithin
  <2>14. es0 \in Seq(Ref) /\ Len(es0) \in Nat
    BY <1>1, <2>6, <2>7, <2>12, StoreLengths
  <2>15. \A e \in DOMAIN es0 : HasKind(es0[e], kind)
    BY <2>6, <2>7, <2>8, <2>13 DEF TableWithin, TableAs
  <2>16. PICK es : es = Written(es0, off, vs)
    OBVIOUS
  <2>17. Len(es) = Len(es0) /\ \A e \in DOMAIN es : HasKind(es[e], kind)
    BY <2>11, <2>14, <2>15, <2>16, WrittenHasKind
  <2>18. tables' = [tables EXCEPT ![s].entries = es]
    BY <1>4, <2>6, <2>7, <2>16
  <2>19. /\ Len(es) \in Nat /\ Len(es) >= Len(tables[s].entries) /\ Len(es) <= MaxTableElems
         /\ (tables[s].max # NoMax => Len(es) <= tables[s].max)
         /\ \A e \in DOMAIN es : HasKind(es[e], tables[s].elem)
    <3>1. Len(es) = Len(tables[s].entries) /\ Len(es) \in Nat
      BY <2>6, <2>7, <2>14, <2>17
    <3>2. tables[s].elem = kind
      BY <2>8, <2>13 DEF TableAs
    <3> QED BY <2>13, <2>17, <3>1, <3>2 DEF TableWithin
  <2> HIDE DEF self, seg, vals, t
  <2> QED BY <1>1, <1>2, <2>12, <2>18, <2>19, TableWrittenWithin
<1> QED BY <1>2, <1>3, <1>4

\* A write to a global keeps to its kind, whoever reads the global.
LEMMA GlobalSetWithin ==
  ASSUME LimitsInv, GlobalSet
  PROVE  PoolsWithin' /\ Declared'
<1>1. LinkInv /\ PoolsWithin /\ Declared /\ Running
  BY DEF LimitsInv, AskedInv, GlobalSet
<1>2. PICK ins \in Instructions("global.set") :
        /\ HasKind(Top.val, GlobalDecl(Inst.mod, ins.x).kind)
        /\ globals' = [globals EXCEPT ![Inst.maps.globals[ins.x]] = Top.val]
  BY DEF GlobalSet
<1>3. UNCHANGED <<code, mems, tables, elemVals, heap>>
  BY DEF GlobalSet
<1>4. ins.x \in 1..NumGlobals(Inst.mod) /\ Top.inst \in Instances
  BY <1>1, InstructionsAreValid, TopFrame DEF ValidInstr
<1>5. PICK i, x, v : i = Top.inst /\ x = ins.x /\ v = Top.val
  OBVIOUS
<1>6. PICK s : s = code[i].maps.globals[x]
  OBVIOUS
<1>7. /\ i \in Instances /\ x \in 1..NumGlobals(code[i].mod)
      /\ HasKind(v, GlobalDecl(code[i].mod, x).kind) /\ globals' = [globals EXCEPT ![s] = v]
  BY <1>2, <1>4, <1>5, <1>6 DEF Inst
<1>8. ASSUME NEW j \in Instances PROVE GlobalsAsDeclared(j)'
  <2> SUFFICES ASSUME NEW g \in 1..NumGlobals(code[j].mod)
               PROVE  HasKind(globals'[code[j].maps.globals[g]], GlobalDecl(code[j].mod, g).kind)
    BY <1>3 DEF GlobalsAsDeclared
  <2> PICK p : p = code[j].maps.globals[g]
    OBVIOUS
  <2>1. p \in DOMAIN globals
    BY <1>1, DeclaredSlots
  <2>2. HasKind(globals[p], GlobalDecl(code[j].mod, g).kind)
    BY <1>1 DEF Declared, AsDeclared, GlobalsAsDeclared
  <2>3. CASE p = s
    <3>1. Agree(i, j)
      BY <1>1, <1>7 DEF Declared
    <3>2. GlobalDecl(code[i].mod, x).kind = GlobalDecl(code[j].mod, g).kind
      BY <1>6, <1>7, <2>3, <3>1 DEF Agree, AgreeOn
    <3>3. globals'[p] = v
      BY <1>7, <2>1, <2>3
    <3> QED BY <1>7, <3>2, <3>3
  <2>4. CASE p # s
    <3>1. globals'[p] = globals[p]
      BY <1>7, <2>1, <2>4
    <3> QED BY <2>2, <3>1
  <2> QED BY <2>3, <2>4
<1>9. \A j : /\ MemsAsDeclared(j)' = MemsAsDeclared(j) /\ TablesAsDeclared(j)' = TablesAsDeclared(j)
             /\ SegmentsAsDeclared(j)' = SegmentsAsDeclared(j)
  BY <1>3, Zenon DEF MemsAsDeclared, TablesAsDeclared, SegmentsAsDeclared
<1>10. \A j, k : Agree(j, k)' = Agree(j, k)
  BY <1>3 DEF Agree
<1>11. Instances' = Instances
  BY <1>3 DEF Instances
<1>12. PoolsWithin'
  BY <1>1, <1>3 DEF PoolsWithin
<1> QED BY <1>1, <1>8, <1>9, <1>10, <1>11, <1>12 DEF Declared, AsDeclared

\* memory.grow keeps to the ceiling and to the memory's own maximum, so to the
\* maximum every importer declared.
LEMMA MemoryGrowWithin ==
  ASSUME LimitsInv, MemoryGrow
  PROVE  PoolsWithin' /\ Declared'
<1>1. LinkInv /\ PoolsWithin /\ Declared /\ Running
  BY DEF LimitsInv, AskedInv, MemoryGrow
<1>2. PICK ins \in Instructions("memory.grow"), n \in Operands :
        /\ mems[Inst.maps.mems[ins.x]].pages + n <= MemLimit(mems[Inst.maps.mems[ins.x]])
        /\ mems' = [mems EXCEPT ![Inst.maps.mems[ins.x]].pages = @ + n]
  BY DEF MemoryGrow
<1>3. UNCHANGED <<code, globals, tables, elemVals, heap>> /\ n \in Nat
  BY LimitsAreNumbers DEF MemoryGrow
<1>4. ins.x \in 1..NumMems(Inst.mod) /\ Top.inst \in Instances
  BY <1>1, InstructionsAreValid, TopFrame DEF ValidInstr
<1>5. PICK s : s = Inst.maps.mems[ins.x]
  OBVIOUS
<1>6. s \in DOMAIN mems
  BY <1>1, <1>4, <1>5, DeclaredSlots DEF Inst
<1>7. mems \in Seq(Memory) /\ \A k \in DOMAIN mems : mems[k].pages \in Nat /\ mems[k].max \in Int
  <2>1. mems \in Seq(Memory)
    BY <1>1 DEF LinkInv, TypeOK, PoolShapes
  <2>2. \A k \in DOMAIN mems : mems[k] \in Memory
    BY <2>1
  <2> QED BY <2>1, <2>2 DEF Memory
<1>8. PICK p : p = mems[s].pages + n
  OBVIOUS
<1>9. /\ DOMAIN mems' = DOMAIN mems /\ mems'[s].pages = p
      /\ \A k \in DOMAIN mems : (k # s => mems'[k] = mems[k]) /\ mems'[k].max = mems[k].max
  <2>1. \A k \in DOMAIN mems : mems[k] \in Memory
    BY <1>7
  <2> QED BY <1>2, <1>5, <1>6, <1>7, <1>8, <2>1 DEF Memory
<1>10. p \in Nat /\ p >= mems[s].pages /\ p <= MaxMemoryPages /\ (mems[s].max # NoMax => p <= mems[s].max)
  <2>1. PICK a, mx : a = mems[s].pages /\ mx = mems[s].max
    OBVIOUS
  <2>2. a \in Nat /\ mx \in Int /\ p = a + n /\ MaxMemoryPages \in Nat /\ PageCap \in Nat
    BY <1>6, <1>7, <1>8, <2>1, LimitsAreNumbers
  <2>3. p <= LeastOf(IF mx = NoMax THEN PageCap ELSE LeastOf(mx, PageCap), MaxMemoryPages)
    BY <1>2, <1>5, <1>8, <2>1 DEF MemLimit
  <2>4. p \in Nat /\ p >= a /\ p <= MaxMemoryPages /\ (mx # NoMax => p <= mx)
    BY <1>3, <2>2, <2>3 DEF LeastOf, NoMax
  <2> QED BY <2>1, <2>4
<1>11. PoolsWithin'
  <2>1. MemWithin(mems'[s])
    BY <1>6, <1>9, <1>10 DEF MemWithin
  <2>2. \A k \in DOMAIN mems : k # s => MemWithin(mems'[k])
    BY <1>1, <1>9 DEF PoolsWithin
  <2> QED BY <1>1, <1>3, <1>9, <2>1, <2>2 DEF PoolsWithin
<1>12. ASSUME NEW i \in Instances PROVE MemsAsDeclared(i)'
  <2> SUFFICES ASSUME NEW k \in 1..NumMems(code[i].mod)
               PROVE  MemAs(MemDecl(code[i].mod, k), mems'[code[i].maps.mems[k]])
    BY <1>3 DEF MemsAsDeclared
  <2> PICK q, d : q = code[i].maps.mems[k] /\ d = MemDecl(code[i].mod, k)
    OBVIOUS
  <2>1. q \in DOMAIN mems /\ MemAs(d, mems[q]) /\ d.min \in Nat
    BY <1>1, DeclaredSlots, DeclShapes, InstanceModule DEF Declared, AsDeclared, MemsAsDeclared
  <2>2. mems'[q].pages >= mems[q].pages /\ mems'[q].pages \in Nat /\ mems[q].pages \in Nat
    BY <1>6, <1>7, <1>9, <1>10, <2>1
  <2>3. mems'[q].max = mems[q].max
    BY <1>9, <2>1
  <2> QED BY <2>1, <2>2, <2>3 DEF MemAs
<1>13. \A j : /\ TablesAsDeclared(j)' = TablesAsDeclared(j)
              /\ GlobalsAsDeclared(j)' = GlobalsAsDeclared(j) /\ SegmentsAsDeclared(j)' = SegmentsAsDeclared(j)
  BY <1>3, Zenon DEF TablesAsDeclared, GlobalsAsDeclared, SegmentsAsDeclared
<1>14. \A j, k : Agree(j, k)' = Agree(j, k)
  BY <1>3 DEF Agree
<1>15. Instances' = Instances
  BY <1>3 DEF Instances
<1> QED BY <1>1, <1>11, <1>12, <1>13, <1>14, <1>15 DEF Declared, AsDeclared

\* An object is allocated while there is room for it.
LEMMA AllocationWithin ==
  ASSUME LimitsInv, UNCHANGED <<code, pools>>, NEW o,
         heap' = heap \/ (heap' = Append(heap, o) /\ Len(heap) < MaxGcObjects)
  PROVE  PoolsWithin' /\ Declared'
<1>1. LinkInv /\ PoolsWithin /\ Declared
  BY DEF LimitsInv, AskedInv
<1>2. heap \in Seq(HeapObject) /\ Len(heap) \in Nat
  BY <1>1 DEF LinkInv, TypeOK
<1>3. Len(heap') <= MaxGcObjects
  <2>1. CASE heap' = heap
    BY <1>1, <2>1 DEF PoolsWithin
  <2>2. CASE heap' = Append(heap, o) /\ Len(heap) < MaxGcObjects
    BY <1>2, <2>2, LimitsAreNumbers
  <2> QED BY <2>1, <2>2
<1> QED BY <1>1, <1>3, SharedStays DEF pools

\* The partial sums of a sequence of numbers exist.
LEMMA SumExists ==
  ASSUME NEW f, NEW N \in Nat
  PROVE  \E g : g = [k \in 0..N |-> IF k = 0 THEN 0 ELSE f[k] + g[k - 1]]
<1> DEFINE Sum(g, n) == g = [k \in 0..n |-> IF k = 0 THEN 0 ELSE f[k] + g[k - 1]]
           S == {n \in Nat : \E g : Sum(g, n)}
<1>1. 0 \in S
  <2> DEFINE g == [k \in 0..0 |-> 0]
  <2>1. g = [k \in 0..0 |-> IF k = 0 THEN 0 ELSE f[k] + g[k - 1]]
    OBVIOUS
  <2> QED BY <2>1
<1>2. ASSUME NEW n \in Nat, n \in S PROVE n + 1 \in S
  <2>1. PICK h : Sum(h, n)
    BY <1>2
  <2> DEFINE g == [k \in 0..(n + 1) |-> IF k = n + 1 THEN f[n + 1] + h[n] ELSE h[k]]
  <2>2. \A k \in 0..n : h[k] = IF k = 0 THEN 0 ELSE f[k] + h[k - 1]
    BY <2>1
  <2>3. \A k \in 0..n : g[k] = h[k]
    OBVIOUS
  <2>4. g[n + 1] = f[n + 1] + g[n]
    BY <2>3
  <2>5. \A k \in 0..(n + 1) : g[k] = IF k = 0 THEN 0 ELSE f[k] + g[k - 1]
    <3> SUFFICES ASSUME NEW k \in 0..(n + 1)
                 PROVE  g[k] = IF k = 0 THEN 0 ELSE f[k] + g[k - 1]
      OBVIOUS
    <3>1. CASE k = n + 1
      BY <2>4, <3>1
    <3>2. CASE k # n + 1 /\ k # 0
      <4>1. k \in 0..n /\ k - 1 \in 0..n
        BY <3>2
      <4>2. g[k] = h[k] /\ g[k - 1] = h[k - 1] /\ h[k] = f[k] + h[k - 1]
        BY <2>2, <2>3, <3>2, <4>1
      <4> QED BY <3>2, <4>2
    <3>3. CASE k = 0
      BY <2>2, <2>3, <3>3
    <3> QED BY <3>1, <3>2, <3>3
  <2>6. g = [k \in 0..(n + 1) |-> g[k]]
    OBVIOUS
  <2> HIDE DEF g
  <2>7. Sum(g, n + 1)
    BY <2>5, <2>6
  <2> QED BY <2>7
<1> HIDE DEF S
<1>3. N \in S
  BY <1>1, <1>2, NatSetInduction
<1> QED BY <1>3 DEF S

\* A sum of numbers is at least each of them.
LEMMA SumBounds ==
  ASSUME NEW N \in Nat, NEW f, \A k \in 1..N : f[k] \in Nat
  PROVE  SumOf(f, N) \in Nat /\ \A k \in 1..N : f[k] <= SumOf(f, N)
<1> DEFINE sum == CHOOSE g : g = [k \in 0..N |-> IF k = 0 THEN 0 ELSE f[k] + g[k - 1]]
<1>1. sum = [k \in 0..N |-> IF k = 0 THEN 0 ELSE f[k] + sum[k - 1]]
  BY SumExists
<1>2. SumOf(f, N) = sum[N]
  BY DEF SumOf
<1> HIDE DEF sum
<1>3. sum[0] = 0
  <2>1. 0 \in 0..N
    OBVIOUS
  <2> QED BY <1>1, <2>1
<1>4. ASSUME NEW n \in Nat, n < N PROVE sum[n + 1] = f[n + 1] + sum[n]
  <2>1. n + 1 \in 0..N /\ n + 1 # 0 /\ (n + 1) - 1 = n
    BY <1>4
  <2> QED BY <1>1, <2>1
<1> DEFINE S == {n \in Nat : n <= N => sum[n] \in Nat /\ \A k \in 1..n : f[k] <= sum[n]}
<1>5. 0 \in S
  BY <1>3
<1>6. ASSUME NEW n \in Nat, n \in S PROVE n + 1 \in S
  <2> SUFFICES ASSUME n + 1 <= N
               PROVE  sum[n + 1] \in Nat /\ \A k \in 1..(n + 1) : f[k] <= sum[n + 1]
    OBVIOUS
  <2>1. sum[n] \in Nat /\ \A k \in 1..n : f[k] <= sum[n]
    BY <1>6
  <2>2. sum[n + 1] = f[n + 1] + sum[n] /\ f[n + 1] \in Nat
    BY <1>4
  <2>3. ASSUME NEW k \in 1..(n + 1) PROVE f[k] <= sum[n + 1]
    <3>1. f[k] \in Nat
      OBVIOUS
    <3>2. CASE k = n + 1
      BY <2>1, <2>2, <3>2
    <3>3. CASE k # n + 1
      <4>1. k \in 1..n
        BY <3>3
      <4>2. f[k] <= sum[n]
        BY <2>1, <4>1
      <4> QED BY <2>1, <2>2, <3>1, <4>2
    <3> QED BY <3>2, <3>3
  <2> QED BY <2>1, <2>2, <2>3
<1> HIDE DEF S
<1>7. N \in S
  BY <1>5, <1>6, NatSetInduction
<1> QED BY <1>2, <1>7 DEF S

\* A constant expression evaluates to a value of the kind it produces.
LEMMA EvalHasKind ==
  ASSUME LinkInv, job.phase \in {"globals", "tables"}, GlobalsPlanned(job.mod, job.imp, job.gvals),
         NEW e \in Expr, NEW k \in Nat, ValidExpr(job.mod, e, k), k <= Len(job.gvals),
         NEW kind \in Kinds, Produces(job.mod, e, kind)
  PROVE  HasKind(EvalValue(e, job.gvals), kind)
<1>1. PICK v : v = EvalValue(e, job.gvals)
  OBVIOUS
<1>2. e.op \in {"null", "func", "global", "new"} /\ e.arg \in Nat
  BY DEF Expr
<1>3. Len(code) < MaxInstances /\ Len(code) \in Nat /\ job.gvals \in Seq(Ref)
  BY JobShape DEF LinkInv, TypeOK, Building, Phases
<1>4. CASE e.op = "null"
  <2>1. v = Null
    BY <1>1, <1>4 DEF EvalValue
  <2> QED BY <1>1, <2>1 DEF HasKind
<1>5. CASE e.op = "func"
  <2>1. v = FuncRef(Self, e.arg) /\ kind = "func"
    BY <1>1, <1>5 DEF EvalValue, Produces
  <2>2. Self \in 1..MaxInstances
    BY <1>3, LimitsAreNumbers DEF Self
  <2>3. v = <<Self, e.arg>> /\ Self > 0
    BY <1>2, <2>1, <2>2, FuncRefNames
  <2> QED BY <1>1, <2>1, <2>3 DEF HasKind, IsFunc
<1>6. CASE e.op = "global"
  <2>1. v = job.gvals[e.arg] /\ e.arg \in 1..k
    BY <1>1, <1>6 DEF EvalValue, ValidExpr
  <2>2. e.arg \in DOMAIN job.gvals
    BY <1>3, <2>1
  <2>3. GlobalDecl(job.mod, e.arg).kind = kind
    BY <1>6 DEF Produces
  <2> QED BY <1>1, <2>1, <2>2, <2>3 DEF GlobalsPlanned
<1>7. CASE e.op = "new"
  <2>1. v = ObjRef(Len(heap) + 1) /\ kind = "any"
    BY <1>1, <1>7 DEF EvalValue, Produces
  <2> QED BY <1>1, <2>1 DEF HasKind, IsFunc, ObjRef
<1> QED BY <1>2, <1>4, <1>5, <1>6, <1>7

\* What the host supplies has the kind the import declares.
LEMMA BackingHasKind ==
  ASSUME LinkInv, Declared, NEW decl, NEW b \in GlobalBackings(decl)
  PROVE  /\ HasKind(b.val, decl.kind)
         /\ b.store # Host => GlobalDecl(code[b.inst].mod, b.idx).kind = decl.kind
<1>1. CASE b = [store |-> Host, inst |-> Host, idx |-> 0, val |-> Null]
  BY <1>1 DEF HasKind
<1>2. CASE b # [store |-> Host, inst |-> Host, idx |-> 0, val |-> Null]
  <2>5. PICK i \in issued : \E g \in 1..Len(code[i].maps.globals) :
          /\ GlobalDecl(code[i].mod, g).kind = decl.kind
          /\ b = [store |-> ThisStore, inst |-> i, idx |-> g, val |-> globals[code[i].maps.globals[g]]]
    BY <1>2 DEF GlobalBackings
  <2>1. PICK g \in 1..Len(code[i].maps.globals) :
          /\ GlobalDecl(code[i].mod, g).kind = decl.kind
          /\ b = [store |-> ThisStore, inst |-> i, idx |-> g, val |-> globals[code[i].maps.globals[g]]]
    BY <2>5
  <2>2. i \in Instances
    BY DEF LinkInv, TypeOK
  <2>3. g \in 1..NumGlobals(code[i].mod)
    BY <2>1, <2>2, MapsLead
  <2>4. HasKind(globals[code[i].maps.globals[g]], GlobalDecl(code[i].mod, g).kind)
    BY <2>2, <2>3 DEF Declared, AsDeclared, GlobalsAsDeclared
  <2> QED BY <2>1, <2>4
<1> QED BY <1>1, <1>2

\* An instantiation begins with imports of the declared kinds.
LEMMA BeginPlans ==
  ASSUME LimitsInv, BeginInstantiate
  PROVE  Planned'
<1>1. LinkInv /\ Declared /\ code' = code
  BY DEF LimitsInv, AskedInv, BeginInstantiate
<1>2. PICK m \in Modules :
       \E fs \in [1..Len(m.impFuncs) -> FuncBackings],
          gs \in [1..Len(m.impGlobals) ->
                    UNION {GlobalBackings(m.impGlobals[g]) : g \in 1..Len(m.impGlobals)}],
          ms \in [1..Len(m.impMems) -> MemBackings],
          ts \in [1..Len(m.impTables) -> TableBackings],
          gts \in [1..Len(m.impTags) -> TagBackings] :
         /\ \A g \in 1..Len(m.impGlobals) : gs[g] \in GlobalBackings(m.impGlobals[g])
         /\ \A f \in 1..Len(m.impFuncs) : FuncMatches(m.impFuncs[f], fs[f])
         /\ job' = [phase |-> "globals", mod |-> m,
                    imp |-> [funcs |-> fs, globals |-> gs, mems |-> ms,
                             tables |-> ts, tags |-> gts],
                    gvals |-> [g \in 1..Len(m.impGlobals) |-> gs[g].val],
                    newTables |-> <<>>, next |-> 1]
  BY DEF BeginInstantiate
<1>3. PICK fs \in [1..Len(m.impFuncs) -> FuncBackings],
          gs \in [1..Len(m.impGlobals) ->
                    UNION {GlobalBackings(m.impGlobals[g]) : g \in 1..Len(m.impGlobals)}],
          ms \in [1..Len(m.impMems) -> MemBackings],
          ts \in [1..Len(m.impTables) -> TableBackings],
          gts \in [1..Len(m.impTags) -> TagBackings] :
         /\ \A g \in 1..Len(m.impGlobals) : gs[g] \in GlobalBackings(m.impGlobals[g])
         /\ \A f \in 1..Len(m.impFuncs) : FuncMatches(m.impFuncs[f], fs[f])
         /\ job' = [phase |-> "globals", mod |-> m,
                    imp |-> [funcs |-> fs, globals |-> gs, mems |-> ms,
                             tables |-> ts, tags |-> gts],
                    gvals |-> [g \in 1..Len(m.impGlobals) |-> gs[g].val],
                    newTables |-> <<>>, next |-> 1]
  BY <1>2
<1>4. PICK imp : imp = [funcs |-> fs, globals |-> gs, mems |-> ms, tables |-> ts, tags |-> gts]
  OBVIOUS
<1>5. PICK gvals : gvals = [g \in 1..Len(m.impGlobals) |-> gs[g].val]
  OBVIOUS
<1>6. job'.phase = "globals" /\ job'.mod = m /\ job'.imp = imp /\ job'.gvals = gvals
  BY <1>3, <1>4, <1>5
<1>7. imp.globals = gs
  BY <1>4
<1>8. ASSUME NEW g \in 1..Len(m.impGlobals), NEW b, b = gs[g]
      PROVE  /\ HasKind(b.val, m.impGlobals[g].kind)
             /\ b.store # Host => GlobalDecl(code[b.inst].mod, b.idx).kind = m.impGlobals[g].kind
  BY <1>1, <1>3, <1>8, BackingHasKind
<1>9. \A g \in 1..Len(m.impGlobals) : GlobalDecl(m, g) = m.impGlobals[g]
  <2>1. Len(m.impGlobals) \in Nat
    BY ModulesAreValid DEF ModuleShape
  <2> QED BY <2>1 DEF GlobalDecl
<1>10. GlobalsPlanned(m, imp, gvals)
  BY <1>5, <1>7, <1>8, <1>9 DEF GlobalsPlanned
<1> QED BY <1>1, <1>6, <1>10 DEF Planned, GlobalsPlanned

\* A defined global gets a value of its kind.
LEMMA EvalGlobalPlans ==
  ASSUME LimitsInv, EvalGlobal
  PROVE  Planned'
<1> DEFINE m == job.mod
           k == Len(job.gvals) - Len(m.impGlobals) + 1
           e == m.globals[k].init
<1>1. LinkInv /\ Planned /\ code' = code
  BY DEF LimitsInv, AskedInv, EvalGlobal
<1>2. job.phase = "globals" /\ job.phase \in {"globals", "tables"} /\ job.phase \in Phases
  BY DEF EvalGlobal, Phases
<1>3. /\ job \in Job /\ m \in Modules /\ job.gvals \in Seq(Ref)
      /\ m.impGlobals \in Seq(GlobalType) /\ m.globals \in Seq(GlobalBody) /\ ModuleIndices(m)
  BY <1>1, <1>2, JobShape DEF ModuleShape
<1>4. GlobalsPlanned(m, job.imp, job.gvals)
  BY <1>1, <1>2 DEF Planned
<1>5. CASE ~CanEval(e)
  BY <1>5 DEF EvalGlobal, FailInstantiation, Idle, Planned
<1>6. CASE CanEval(e)
  <2>1. k <= Len(m.globals) /\ job' = [job EXCEPT !.gvals = Append(@, EvalValue(e, job.gvals))]
    BY <1>6 DEF EvalGlobal
  <2>2. Len(job.gvals) \in Nat /\ Len(m.impGlobals) \in Nat /\ Len(m.globals) \in Nat
        /\ DOMAIN m.globals = 1..Len(m.globals) /\ DOMAIN job.gvals = 1..Len(job.gvals)
    BY <1>3
  <2>3. k \in 1..Len(m.globals) /\ Len(m.impGlobals) + k - 1 = Len(job.gvals)
        /\ Len(job.gvals) >= Len(m.impGlobals) /\ k = Len(job.gvals) + 1 - Len(m.impGlobals)
    <3>1. Len(job.gvals) \in Len(m.impGlobals)..NumGlobals(m)
      BY <1>1, <1>2 DEF LinkInv, Building
    <3>2. Len(job.gvals) >= Len(m.impGlobals)
      BY <2>2, <3>1 DEF NumGlobals
    <3>3. \A a, b, c \in Nat : a >= b /\ a - b + 1 <= c =>
            a - b + 1 \in 1..c /\ b + (a - b + 1) - 1 = a /\ a - b + 1 = a + 1 - b
      OBVIOUS
    <3> QED BY <2>1, <2>2, <3>2, <3>3
  <2>4. PICK x, l : x = k /\ l = Len(job.gvals) + 1
    OBVIOUS
  <2>5. GlobalDecl(m, l) = m.globals[x]
    <3>1. ~(l <= Len(m.impGlobals)) /\ l - Len(m.impGlobals) = x
      <4> HIDE DEF k
      <4> QED BY <2>2, <2>3, <2>4
    <3> QED BY <3>1 DEF GlobalDecl
  <2>6. e \in Expr /\ ValidExpr(m, e, Len(job.gvals)) /\ Produces(m, e, m.globals[x].kind)
        /\ m.globals[x].kind \in Kinds
    <3>1. m.globals[x] \in GlobalBody
      <4> HIDE DEF k
      <4> QED BY <1>3, <2>3, <2>4, ElementOfSeq
    <3>2. ValidExpr(m, e, Len(m.impGlobals) + k - 1)
      BY <1>3, <2>2, <2>3 DEF ModuleIndices
    <3>3. Produces(m, e, m.globals[x].kind)
      BY <1>3, <2>2, <2>3, <2>4, ModulesAreTyped DEF ModuleTypes
    <3> QED BY <2>3, <2>4, <3>1, <3>2, <3>3 DEF GlobalBody
  <2>7. PICK v : v = EvalValue(e, job.gvals)
    OBVIOUS
  <2>8. HasKind(v, GlobalDecl(m, l).kind)
    <3> HIDE DEF e, k
    <3>1. Len(job.gvals) <= Len(job.gvals)
      BY <2>2
    <3> QED BY <1>1, <1>2, <1>4, <2>2, <2>5, <2>6, <2>7, <3>1, EvalHasKind
  <2> HIDE DEF e, k
  <2>9. PICK mm, imp, gv : mm = m /\ imp = job.imp /\ gv = job.gvals
    OBVIOUS
  <2>10. PICK new : new = Append(gv, v)
    OBVIOUS
  <2>11. job'.mod = mm /\ job'.phase = "globals" /\ job'.imp = imp /\ job'.gvals = new
    BY <1>2, <1>3, <2>1, <2>7, <2>9, <2>10 DEF Job
  <2>12. ASSUME NEW g \in DOMAIN new PROVE HasKind(new[g], GlobalDecl(mm, g).kind)
    <3>1. CASE g = l
      <4>1. new[g] = v
        BY <1>3, <2>4, <2>9, <2>10, <3>1
      <4> QED BY <2>8, <2>9, <3>1, <4>1
    <3>2. CASE g # l
      <4>1. g \in DOMAIN gv /\ new[g] = gv[g]
        BY <1>3, <2>2, <2>4, <2>9, <2>10, <2>12, <3>2
      <4> QED BY <1>4, <2>9, <4>1 DEF GlobalsPlanned
    <3> QED BY <3>1, <3>2
  <2>13. GlobalsPlanned(mm, imp, new)
    BY <1>4, <2>9, <2>12 DEF GlobalsPlanned
  <2> QED BY <1>1, <2>11, <2>13 DEF Planned, GlobalsPlanned
<1> QED BY <1>5, <1>6

\* The imports are matched and the memories' minimums counted.
LEMMA LinkPlans ==
  ASSUME LimitsInv, LinkResources
  PROVE  Planned'
<1>1. LinkInv /\ Planned /\ UNCHANGED <<code, mems, tables>>
  BY DEF LimitsInv, AskedInv, LinkResources, pools
<1>2. job.phase = "globals" /\ job.phase \in Phases
  BY DEF LinkResources, Phases
<1>3. job \in Job /\ job.mod \in Modules /\ job.mod.mems \in Seq(MemType)
  BY <1>1, <1>2, JobShape DEF ModuleShape
<1>4. CASE job' = Idle
  BY <1>4 DEF Idle, Planned
<1>5. CASE job' # Idle
  <2>1. PICK m, imp, gv : m = job.mod /\ imp = job.imp /\ gv = job.gvals
    OBVIOUS
  <2>2. PICK mins : mins = [k \in 1..Len(m.mems) |-> m.mems[k].min]
    OBVIOUS
  <2>3. /\ job' = [job EXCEPT !.phase = "tables"]
        /\ SumOf(mins, Len(m.mems)) <= MaxMemoryPages
        /\ \A k \in 1..Len(m.impMems) : MemMatches(m.impMems[k], imp.mems[k])
        /\ \A k \in 1..Len(m.impTables) : TableMatches(m.impTables[k], imp.tables[k])
    BY <1>5, <2>1, <2>2 DEF LinkResources, FailInstantiation
  <2>4. /\ job'.phase = "tables" /\ job'.mod = m /\ job'.imp = imp
        /\ job'.gvals = gv /\ job'.newTables = <<>>
    <3>1. job.newTables = <<>>
      BY <1>1, <1>2 DEF LinkInv, Building
    <3> QED BY <1>3, <2>1, <2>3, <3>1 DEF Job
  <2>5. \A k \in 1..Len(m.mems) : m.mems[k].min <= MaxMemoryPages
    <3>1. Len(m.mems) \in Nat /\ \A k \in 1..Len(m.mems) : m.mems[k] \in MemType
      BY <1>3, <2>1
    <3>2. \A k \in 1..Len(m.mems) : mins[k] \in Nat /\ mins[k] = m.mems[k].min
      BY <2>2, <3>1 DEF MemType
    <3>3. PICK N \in Nat : N = Len(m.mems)
      BY <3>1
    <3>4. SumOf(mins, N) \in Nat /\ \A k \in 1..N : mins[k] <= SumOf(mins, N)
      BY <3>2, <3>3, SumBounds
    <3> QED BY <2>3, <3>2, <3>3, <3>4, LimitsAreNumbers
  <2>6. GlobalsPlanned(m, imp, gv) /\ ResourcesPlanned(m, imp) /\ TablesPlanned(m, <<>>)
    BY <1>1, <1>2, <2>1, <2>3, <2>5 DEF Planned, ResourcesPlanned, TablesPlanned
  <2>7. GlobalsPlanned(m, imp, gv)' /\ ResourcesPlanned(m, imp)' /\ TablesPlanned(m, <<>>)'
    BY <1>1, <2>6 DEF GlobalsPlanned, ResourcesPlanned, TablesPlanned, MemMatches, TableMatches, SlotOf,
                      TableWithin, TableAs
  <2> QED BY <2>4, <2>7 DEF Planned, GlobalsPlanned, ResourcesPlanned, TablesPlanned, MemMatches,
                            TableMatches, SlotOf, TableWithin, TableAs
<1> QED BY <1>4, <1>5

\* A defined table is made of its minimum, within the ceiling and its maximum.
LEMMA EvalTablePlans ==
  ASSUME LimitsInv, EvalTable
  PROVE  Planned'
<1> DEFINE m == job.mod
           k == Len(job.newTables) + 1
           mins == [j \in 1..Len(m.tables) |-> m.tables[j].min]
           decl == m.tables[k]
           e == decl.init
<1>1. LinkInv /\ Planned /\ UNCHANGED <<code, mems, tables>>
  BY DEF LimitsInv, AskedInv, EvalTable, pools
<1>2. job.phase = "tables" /\ job.phase \in {"globals", "tables"} /\ job.phase \in Phases
  BY DEF EvalTable, Phases
<1>3. /\ job \in Job /\ m \in Modules /\ job.gvals \in Seq(Ref) /\ job.newTables \in Seq(Table)
      /\ m.tables \in Seq(TableBody) /\ ModuleIndices(m)
  BY <1>1, <1>2, JobShape DEF ModuleShape
<1>4. GlobalsPlanned(m, job.imp, job.gvals) /\ ResourcesPlanned(m, job.imp)
      /\ TablesPlanned(m, job.newTables)
  BY <1>1, <1>2 DEF Planned
<1>5. k \in 1..Len(m.tables) /\ k \in Nat /\ Len(m.tables) \in Nat
  BY <1>3 DEF EvalTable
<1>6. decl \in TableBody /\ ValidExpr(m, e, NumGlobals(m))
  <2>1. decl \in TableBody
    <3> HIDE DEF k
    <3> QED BY <1>3, <1>5, ElementOfSeq
  <2> QED BY <1>3, <1>5, <2>1 DEF ModuleIndices
<1>7. e \in Expr /\ decl.min \in Nat /\ decl.max \in Int /\ decl.elem \in Kinds
  BY <1>6 DEF TableBody
<1>8. CASE job' = Idle
  BY <1>8 DEF Idle, Planned
<1>9. CASE job' # Idle
  <2>1. /\ SumOf(mins, k) <= MaxTableElems
        /\ job' = [job EXCEPT !.newTables = Append(@,
             [entries |-> [j \in 1..mins[k] |-> EvalValue(e, job.gvals)],
              max |-> decl.max, elem |-> decl.elem])]
    BY <1>9 DEF EvalTable, FailInstantiation
  <2>2. mins[k] = decl.min /\ \A j \in 1..k : mins[j] \in Nat
    <3>1. \A j \in 1..k : j \in 1..Len(m.tables)
      <4> HIDE DEF k, m
      <4> QED BY <1>5
    <3>2. \A j \in 1..Len(m.tables) : m.tables[j] \in TableBody
      BY <1>3
    <3> QED BY <1>5, <3>1, <3>2 DEF TableBody
  <2>3. decl.min <= MaxTableElems
    <3> HIDE DEF mins, k
    <3>1. SumOf(mins, k) \in Nat /\ \A j \in 1..k : mins[j] <= SumOf(mins, k)
      BY <1>5, <2>2, SumBounds
    <3>2. mins[k] <= SumOf(mins, k)
      BY <1>5, <3>1
    <3> QED BY <1>7, <2>1, <2>2, <3>1, <3>2, LimitsAreNumbers
  <2>4. PICK v, n : v = EvalValue(e, job.gvals) /\ n = decl.min
    OBVIOUS
  <2>5. PICK es : es = [j \in 1..n |-> v]
    OBVIOUS
  <2>6. PICK tab : tab = [entries |-> es, max |-> decl.max, elem |-> decl.elem]
    OBVIOUS
  <2>7. job' = [job EXCEPT !.newTables = Append(@, tab)]
    BY <2>1, <2>2, <2>4, <2>5, <2>6
  <2>8. HasKind(v, decl.elem)
    <3>1. Produces(m, e, decl.elem) /\ Bounded(decl)
      <4>1. k \in DOMAIN m.tables
        BY <1>3, <1>5
      <4> QED BY <1>3, <4>1, ModulesAreTyped DEF ModuleTypes
    <3>2. NumGlobals(m) \in Nat /\ NumGlobals(m) <= Len(job.gvals)
      <4>1. Len(job.gvals) = NumGlobals(m) /\ Len(job.gvals) \in Nat
        BY <1>1, <1>2, <1>3 DEF LinkInv, Building
      <4> QED BY <4>1
    <3> HIDE DEF decl, e, k
    <3> QED BY <1>1, <1>2, <1>4, <1>6, <1>7, <2>4, <3>1, <3>2, EvalHasKind
  <2>9. Bounded(decl)
    <3>1. k \in DOMAIN m.tables
      BY <1>3, <1>5
    <3> QED BY <1>3, <3>1, ModulesAreTyped DEF ModuleTypes
  <2>10. TableWithin(tab) /\ TableAs(decl, tab)
    <3> HIDE DEF decl, e, k
    <3>1. n \in Nat /\ Len(es) = n /\ DOMAIN es = 1..n /\ \A j \in 1..n : es[j] = v
      BY <1>7, <2>4, <2>5
    <3>2. Len(tab.entries) = n /\ tab.entries = es /\ tab.max = decl.max /\ tab.elem = decl.elem
      BY <2>6, <3>1
    <3>3. TableWithin(tab)
      BY <2>3, <2>4, <2>8, <2>9, <3>1, <3>2 DEF TableWithin, Bounded
    <3>4. MaxMatches(decl.max, decl.max)
      BY <1>7 DEF MaxMatches
    <3>5. TableAs(decl, tab)
      BY <1>7, <2>4, <3>1, <3>2, <3>4 DEF TableAs
    <3> QED BY <3>3, <3>5
  <2>11. PICK x, d : x = k /\ d = decl
    OBVIOUS
  <2>12. PICK mm, imp, gv, old, new : /\ mm = m /\ imp = job.imp /\ gv = job.gvals
                                      /\ old = job.newTables /\ new = Append(old, tab)
    OBVIOUS
  <2>13. /\ job'.mod = mm /\ job'.phase = "tables" /\ job'.imp = imp
         /\ job'.gvals = gv /\ job'.newTables = new
    <3> HIDE DEF decl, e, k, mins
    <3> QED BY <1>2, <1>3, <2>7, <2>12 DEF Job
  <2>14. TablesPlanned(mm, new)
    <3> SUFFICES ASSUME NEW t \in DOMAIN new
                 PROVE  TableWithin(new[t]) /\ TableAs(mm.tables[t], new[t])
      BY DEF TablesPlanned
    <3>1. old \in Seq(Table) /\ x = Len(old) + 1 /\ d = mm.tables[x]
      BY <1>3, <2>11, <2>12
    <3>2. CASE t = x
      <4>1. new[t] = tab
        BY <2>12, <3>1, <3>2
      <4> QED BY <2>10, <2>11, <3>1, <3>2, <4>1
    <3>3. CASE t # x
      <4> HIDE DEF decl, e, k, mins
      <4>1. t \in DOMAIN old /\ new[t] = old[t]
        BY <2>12, <3>1, <3>3
      <4> QED BY <1>4, <2>12, <4>1 DEF TablesPlanned
    <3> QED BY <3>2, <3>3
  <2> HIDE DEF decl, e, k, mins
  <2>15. GlobalsPlanned(mm, imp, gv) /\ ResourcesPlanned(mm, imp)
    BY <1>4, <2>12
  <2>16. GlobalsPlanned(mm, imp, gv)' /\ ResourcesPlanned(mm, imp)'
    BY <1>1, <2>15 DEF GlobalsPlanned, ResourcesPlanned, MemMatches, TableMatches, SlotOf
  <2>17. TablesPlanned(mm, new)'
    BY <2>14 DEF TablesPlanned, TableWithin, TableAs
  <2> QED BY <2>13, <2>16, <2>17 DEF Planned, GlobalsPlanned, ResourcesPlanned, TablesPlanned,
                                     MemMatches, TableMatches, SlotOf, TableWithin, TableAs
<1> QED BY <1>8, <1>9

\* No other step leaves an instantiation that is still planning.
LEMMA NextPlans ==
  ASSUME LimitsInv, [Next]_vars
  PROVE  Planned'
<1>1. LinkInv /\ Planned
  BY DEF LimitsInv, AskedInv
<1>2. CASE UNCHANGED vars
  <2>1. UNCHANGED <<code, mems, tables, job>>
    BY <1>2 DEF vars, pools
  <2> QED BY <1>1, <2>1 DEF Planned, GlobalsPlanned, ResourcesPlanned, TablesPlanned,
                            MemMatches, TableMatches, SlotOf, TableWithin, TableAs
<1>3. CASE /\ Next /\ ~BeginInstantiate /\ ~EvalGlobal /\ ~LinkResources /\ ~EvalTable
  <2> SUFFICES ASSUME job'.phase \in {"globals", "tables"} PROVE FALSE
    BY DEF Planned
  <2>1. Instantiate \/ Control \/ Execute
    BY <1>3 DEF Next
  <2>2. job.phase \in {"globals", "tables"}
    BY <1>1, <1>3, <2>1, JobGoesOn
  <2>3. stack = <<>> /\ job # Idle
    BY <1>1, <2>2 DEF LinkInv, Building, Idle
  <2>4. CASE Commit
    <3>1. job' = [job EXCEPT !.phase = "elems", !.next = 1]
      BY <2>4 DEF Commit
    <3>2. job'.phase = "elems"
      BY <1>1, <2>4, <3>1, Ready DEF Job
    <3> QED BY <3>2
  <2>5. CASE ApplyElem \/ ApplyData \/ Start
    BY <2>2, <2>5 DEF ApplyElem, ApplyData, Start
  <2>6. CASE Control
    BY <2>3, <2>6 DEF Control, Invoke, Call, CallIndirect, Return, TrapOut, Running
  <2>7. CASE Execute
    BY <2>3, <2>7 DEF Execute, RefFunc, StructNew, GlobalGet, GlobalSet, TableGet, TableSet,
        TableGrow, TableFill, TableCopy, TableInit, ElemDrop, DataDrop, MemoryGrow, Running
  <2> QED BY <1>3, <2>1, <2>4, <2>5, <2>6, <2>7 DEF Instantiate
<1> QED BY <1>2, <1>3, BeginPlans, EvalGlobalPlans, LinkPlans, EvalTablePlans

\* The entries of a map from the n-th on are the slots after base.
Follows(map, n, base, j) == \A k \in 1..j : map[n + k] = base + k

\* A definition takes a fresh slot.
LEMMA SecondPart ==
  ASSUME NEW n \in Nat, NEW T, NEW f \in [1..n -> T], NEW base \in Nat, NEW j \in Nat
  PROVE  Follows(f \o Fresh(base, j), n, base, j)
<1>1. PICK h : h = Fresh(base, j)
  OBVIOUS
<1>2. PICK map : map = f \o h
  OBVIOUS
<1>8. PICK V : V = T \cup Nat
  OBVIOUS
<1>3. f \in Seq(V) /\ Len(f) = n
  <2>1. f \in [1..n -> V]
    BY <1>8
  <2> QED BY <2>1, FunctionIsSeq
<1>4. h \in Seq(V) /\ Len(h) = j /\ \A i \in 1..j : h[i] = base + i
  <2>1. h = [i \in 1..j |-> base + i]
    BY <1>1 DEF Fresh
  <2>2. h \in [1..j -> V]
    BY <1>8, <2>1
  <2> QED BY <2>1, <2>2, FunctionIsSeq
<1>5. \A k \in 1..(n + j) : map[k] = IF k <= n THEN f[k] ELSE h[k - n]
  BY <1>2, <1>3, <1>4, ConcatProperties
<1>6. \A k \in 1..j : n + k \in 1..(n + j) /\ ~(n + k <= n) /\ n + k - n = k
  OBVIOUS
<1>7. \A k \in 1..j : map[n + k] = base + k
  BY <1>4, <1>5, <1>6
<1> QED BY <1>1, <1>2, <1>7 DEF Follows

\* The parts of a pool that grew by the k entries of new.
Grew(pool, k, new, grown) ==
  /\ DOMAIN grown = 1..(Len(pool) + k)
  /\ \A i \in DOMAIN pool : grown[i] = pool[i]
  /\ \A i \in 1..k : grown[Len(pool) + i] = new[i]

LEMMA PoolParts ==
  ASSUME NEW T, NEW pool \in Seq(T), NEW k \in Nat, NEW U, NEW new, \A i \in 1..k : new[i] \in U,
         new = [i \in 1..k |-> new[i]], NEW grown, grown = pool \o new
  PROVE  Grew(pool, k, new, grown)
<1>1. new \in [1..k -> U]
  OBVIOUS
<1>2. new \in Seq(U) /\ Len(new) = k /\ Len(pool) \in Nat /\ DOMAIN pool = 1..Len(pool)
  BY <1>1, FunctionIsSeq, LenProperties
<1>3. PICK n : n = Len(pool)
  OBVIOUS
<1>4. \A i \in 1..(n + k) : grown[i] = IF i <= n THEN pool[i] ELSE new[i - n]
  BY <1>2, <1>3
<1>5. DOMAIN grown = 1..(n + k)
  BY <1>2, <1>3
<1>6. \A i \in 1..k : n + i \in 1..(n + k) /\ ~(n + i <= n) /\ n + i - n = i
  BY <1>2, <1>3
<1>7. \A i \in 1..n : i \in 1..(n + k) /\ i <= n
  BY <1>2, <1>3
<1> QED BY <1>2, <1>3, <1>4, <1>5, <1>6, <1>7 DEF Grew

\* The pools after Commit: what was there, then what the module defines.
LEMMA PoolsAdded ==
  ASSUME LinkInv, Commit, NEW m, m = job.mod
  PROVE  /\ DOMAIN mems' = 1..(Len(mems) + Len(m.mems))
         /\ \A s \in DOMAIN mems : mems'[s] = mems[s]
         /\ \A k \in 1..Len(m.mems) : mems'[Len(mems) + k] = NewMem(m.mems[k])
         /\ DOMAIN tables' = 1..(Len(tables) + Len(m.tables))
         /\ \A s \in DOMAIN tables : tables'[s] = tables[s]
         /\ \A k \in 1..Len(m.tables) : tables'[Len(tables) + k] = job.newTables[k]
         /\ \A s \in DOMAIN elemVals : elemVals'[s] = elemVals[s]
         /\ \A k \in 1..Len(m.elems) :
              elemVals'[Len(elemVals) + k] = ElemValue(m.elems[k].items, job.gvals)
<1>1. /\ mems \in Seq(Memory) /\ tables \in Seq(Table) /\ elemVals \in Seq(Seq(Ref))
      /\ job.newTables \in Seq(Table) /\ Len(job.newTables) = Len(m.tables)
  BY Ready DEF LinkInv, TypeOK, PoolShapes
<1>2. Len(m.mems) \in Nat /\ Len(m.tables) \in Nat /\ Len(m.elems) \in Nat
  BY Lengths
<1>3. PICK a : a = [k \in 1..Len(m.mems) |-> NewMem(m.mems[k])]
  OBVIOUS
<1>4. PICK b : b = job.newTables
  OBVIOUS
<1>5. PICK c : c = [s \in 1..Len(m.elems) |-> ElemValue(m.elems[s].items, job.gvals)]
  OBVIOUS
<1>6. mems' = mems \o a /\ tables' = tables \o b /\ elemVals' = elemVals \o c
  BY <1>3, <1>4, <1>5 DEF Commit
<1>7. /\ DOMAIN mems' = 1..(Len(mems) + Len(m.mems))
      /\ \A s \in DOMAIN mems : mems'[s] = mems[s]
      /\ \A k \in 1..Len(m.mems) : mems'[Len(mems) + k] = a[k]
  <2>1. PICK n \in Nat : n = Len(m.mems)
    BY <1>2
  <2>5. PICK U : U = {a[i] : i \in 1..n}
    OBVIOUS
  <2>2. a = [k \in 1..n |-> a[k]] /\ \A k \in 1..n : a[k] \in U
    BY <1>3, <2>1, <2>5
  <2>3. PICK g : g = mems'
    OBVIOUS
  <2>6. g = mems \o a
    BY <1>6, <2>3
  <2>7. Grew(mems, n, a, g)
    BY <1>1, <2>2, <2>6, PoolParts
  <2>4. /\ DOMAIN g = 1..(Len(mems) + n)
        /\ \A s \in DOMAIN mems : g[s] = mems[s]
        /\ \A k \in 1..n : g[Len(mems) + k] = a[k]
    BY <2>7 DEF Grew
  <2> QED BY <2>1, <2>3, <2>4
<1>8. /\ DOMAIN tables' = 1..(Len(tables) + Len(m.tables))
      /\ \A s \in DOMAIN tables : tables'[s] = tables[s]
      /\ \A k \in 1..Len(m.tables) : tables'[Len(tables) + k] = b[k]
  <2>1. PICK n \in Nat : n = Len(m.tables)
    BY <1>2
  <2>5. PICK U : U = {b[i] : i \in 1..n}
    OBVIOUS
  <2>2. b = [k \in 1..n |-> b[k]] /\ \A k \in 1..n : b[k] \in U
    BY <1>1, <1>4, <2>1, <2>5
  <2>3. PICK g : g = tables'
    OBVIOUS
  <2>6. g = tables \o b
    BY <1>6, <2>3
  <2>7. Grew(tables, n, b, g)
    BY <1>1, <2>2, <2>6, PoolParts
  <2>4. /\ DOMAIN g = 1..(Len(tables) + n)
        /\ \A s \in DOMAIN tables : g[s] = tables[s]
        /\ \A k \in 1..n : g[Len(tables) + k] = b[k]
    BY <2>7 DEF Grew
  <2> QED BY <2>1, <2>3, <2>4
<1>9. /\ \A s \in DOMAIN elemVals : elemVals'[s] = elemVals[s]
      /\ \A k \in 1..Len(m.elems) : elemVals'[Len(elemVals) + k] = c[k]
  <2>1. PICK n \in Nat : n = Len(m.elems)
    BY <1>2
  <2>5. PICK U : U = {c[i] : i \in 1..n}
    OBVIOUS
  <2>2. c = [k \in 1..n |-> c[k]] /\ \A k \in 1..n : c[k] \in U
    BY <1>5, <2>1, <2>5
  <2>3. PICK g : g = elemVals'
    OBVIOUS
  <2>6. g = elemVals \o c
    BY <1>6, <2>3
  <2>7. Grew(elemVals, n, c, g)
    BY <1>1, <2>2, <2>6, PoolParts
  <2>4. /\ \A s \in DOMAIN elemVals : g[s] = elemVals[s]
        /\ \A k \in 1..n : g[Len(elemVals) + k] = c[k]
    BY <2>7 DEF Grew
  <2> QED BY <2>1, <2>3, <2>4
<1> QED BY <1>3, <1>4, <1>5, <1>7, <1>8, <1>9

\* The same for the globals: those the module defines, then the host's.
LEMMA GlobalsAdded ==
  ASSUME LinkInv, Commit, NEW m, m = job.mod
  PROVE  /\ \A s \in DOMAIN globals : globals'[s] = globals[s]
         /\ \A k \in 1..Len(m.globals) : globals'[Len(globals) + k] = job.gvals[Len(m.impGlobals) + k]
         /\ \A h \in 1..HostShare : globals'[Len(globals) + Len(m.globals) + h] = Null
<1>1. globals \in Seq(Ref) /\ job.gvals \in Seq(Ref) /\ Len(job.gvals) = NumGlobals(m)
  BY Ready DEF LinkInv, TypeOK, PoolShapes
<1>2. PICK l \in Nat, n \in Nat, d \in Nat, h \in Nat :
        l = Len(globals) /\ n = Len(m.impGlobals) /\ d = Len(m.globals) /\ h = HostShare
  BY Lengths, HostShareIsNumber
<1>3. PICK gv : gv = job.gvals
  OBVIOUS
<1>4. PICK a, b : a = [g \in 1..d |-> gv[n + g]] /\ b = [r \in 1..h |-> Null]
  OBVIOUS
<1>5. globals' = globals \o a \o b
  <2>1. a = DefinedGlobals(job.mod) /\ b = HostGlobals(job.mod, job.imp)
    BY <1>2, <1>3, <1>4 DEF DefinedGlobals, HostGlobals, HostShare
  <2> QED BY <2>1 DEF Commit
<1>6. \A k \in 1..d : a[k] \in Ref
  <2>1. \A k \in 1..d : n + k \in 1..(n + d)
    OBVIOUS
  <2>2. Len(gv) = n + d
    BY <1>1, <1>2, <1>3 DEF NumGlobals
  <2>3. \A k \in 1..(n + d) : gv[k] \in Ref
    BY <1>1, <1>3, <2>2
  <2> QED BY <1>4, <2>1, <2>3
<1>7. PICK mid : mid = globals \o a
  OBVIOUS
<1>8. a \in [1..d -> Ref] /\ b \in [1..h -> {Null}] /\ a = [k \in 1..d |-> a[k]] /\ b = [k \in 1..h |-> b[k]]
  BY <1>4, <1>6
<1>9. mid \in Seq(Ref) /\ Len(mid) = l + d /\ DOMAIN mid = 1..(l + d)
  <2>1. a \in Seq(Ref) /\ Len(a) = d
    BY <1>8, FunctionIsSeq
  <2>2. mid \in Seq(Ref) /\ Len(mid) = Len(globals) + Len(a)
    BY <1>1, <1>7, <2>1, ConcatProperties
  <2>3. DOMAIN mid = 1..Len(mid)
    BY <2>2, LenProperties
  <2> QED BY <1>2, <2>1, <2>2, <2>3
<1>10. /\ \A s \in DOMAIN globals : mid[s] = globals[s]
       /\ \A k \in 1..d : mid[l + k] = a[k]
  <2>1. Grew(globals, d, a, mid)
    BY <1>1, <1>7, <1>8, PoolParts
  <2> QED BY <1>2, <2>1 DEF Grew
<1>11. PICK g : g = globals'
  OBVIOUS
<1>12. g = mid \o b
  BY <1>5, <1>7, <1>11
<1>13. /\ \A s \in DOMAIN mid : g[s] = mid[s]
       /\ \A k \in 1..h : g[Len(mid) + k] = b[k]
  <2>1. PICK U : U = {Null}
    OBVIOUS
  <2>2. (\A k \in 1..h : b[k] \in U) /\ b = [k \in 1..h |-> b[k]]
    BY <1>8, <2>1
  <2>3. Grew(mid, h, b, g)
    BY <1>9, <1>12, <2>2, PoolParts
  <2> QED BY <2>3 DEF Grew
<1>14. \A s \in DOMAIN globals : s \in DOMAIN mid
  <2>1. DOMAIN globals = 1..l
    BY <1>1, <1>2
  <2>2. \A s \in 1..l : s \in 1..(l + d)
    OBVIOUS
  <2> QED BY <1>9, <2>1, <2>2
<1>15. \A k \in 1..d : l + k \in DOMAIN mid
  BY <1>9
<1>16. \A k \in 1..h : b[k] = Null
  BY <1>4
<1>17. \A k \in 1..d : a[k] = gv[n + k]
  BY <1>4
<1>18. \A s \in DOMAIN globals : g[s] = globals[s]
  BY <1>10, <1>13, <1>14
<1>19. \A k \in 1..d : g[l + k] = gv[n + k]
  BY <1>10, <1>13, <1>15, <1>17
<1>20. \A k \in 1..h : g[l + d + k] = Null
  BY <1>9, <1>13, <1>16
<1> QED BY <1>2, <1>3, <1>11, <1>18, <1>19, <1>20

\* The index maps of the new instance: an import has the exporter's slot, a
\* definition a fresh one.
LEMMA NewMemSlots ==
  ASSUME LinkInv, Commit, NEW n, n = Len(code) + 1
  PROVE  /\ \A k \in 1..Len(job.mod.impMems) :
              code'[n].maps.mems[k] = code[SlotOf(job.imp.mems[k])].maps.mems[job.imp.mems[k].idx]
         /\ \A k \in 1..Len(job.mod.mems) : code'[n].maps.mems[Len(job.mod.impMems) + k] = Len(mems) + k
<1>0. PICK m, imp : m = job.mod /\ imp = job.imp
  OBVIOUS
<1>1. PICK c \in Nat, d \in Nat, base \in Nat :
        c = Len(m.impMems) /\ d = Len(m.mems) /\ base = Len(mems)
  BY <1>0, Lengths
<1>2. PICK f : f = [k \in 1..c |-> code[SlotOf(imp.mems[k])].maps.mems[imp.mems[k].idx]]
  OBVIOUS
<1>3. PICK T : T = {f[i] : i \in 1..c}
  OBVIOUS
<1>4. f = [k \in 1..c |-> f[k]] /\ \A k \in 1..c : f[k] \in T
  BY <1>2, <1>3
<1>5. PICK map : map = code'[n].maps.mems
  OBVIOUS
<1>6. map = f \o Fresh(base, d)
  BY <1>0, <1>1, <1>2, <1>5, NewInstance DEF MemMap
<1>7. \A k \in 1..c : map[k] = f[k]
  BY <1>4, <1>6, FirstPart
<1>8. \A k \in 1..d : map[c + k] = base + k
  <2>1. f \in [1..c -> T]
    BY <1>4
  <2>2. Follows(f \o Fresh(base, d), c, base, d)
    BY <2>1, SecondPart
  <2> QED BY <1>6, <2>2 DEF Follows
<1> QED BY <1>0, <1>1, <1>2, <1>5, <1>7, <1>8

LEMMA NewTableSlots ==
  ASSUME LinkInv, Commit, NEW n, n = Len(code) + 1
  PROVE  /\ \A k \in 1..Len(job.mod.impTables) :
              code'[n].maps.tables[k] = code[SlotOf(job.imp.tables[k])].maps.tables[job.imp.tables[k].idx]
         /\ \A k \in 1..Len(job.mod.tables) : code'[n].maps.tables[Len(job.mod.impTables) + k] = Len(tables) + k
<1>0. PICK m, imp : m = job.mod /\ imp = job.imp
  OBVIOUS
<1>1. PICK c \in Nat, d \in Nat, base \in Nat :
        c = Len(m.impTables) /\ d = Len(m.tables) /\ base = Len(tables)
  BY <1>0, Lengths
<1>2. PICK f : f = [k \in 1..c |-> code[SlotOf(imp.tables[k])].maps.tables[imp.tables[k].idx]]
  OBVIOUS
<1>3. PICK T : T = {f[i] : i \in 1..c}
  OBVIOUS
<1>4. f = [k \in 1..c |-> f[k]] /\ \A k \in 1..c : f[k] \in T
  BY <1>2, <1>3
<1>5. PICK map : map = code'[n].maps.tables
  OBVIOUS
<1>6. map = f \o Fresh(base, d)
  BY <1>0, <1>1, <1>2, <1>5, NewInstance DEF TableMap
<1>7. \A k \in 1..c : map[k] = f[k]
  BY <1>4, <1>6, FirstPart
<1>8. \A k \in 1..d : map[c + k] = base + k
  <2>1. f \in [1..c -> T]
    BY <1>4
  <2>2. Follows(f \o Fresh(base, d), c, base, d)
    BY <2>1, SecondPart
  <2> QED BY <1>6, <2>2 DEF Follows
<1> QED BY <1>0, <1>1, <1>2, <1>5, <1>7, <1>8

LEMMA NewGlobalSlots ==
  ASSUME LinkInv, Commit, NEW n, n = Len(code) + 1
  PROVE  /\ \A g \in 1..Len(job.mod.impGlobals) :
              code'[n].maps.globals[g] =
                IF job.imp.globals[g].store = Host
                THEN Len(globals) + Len(job.mod.globals) + Cardinality(FromHost(job.imp, g))
                ELSE code[SlotOf(job.imp.globals[g])].maps.globals[job.imp.globals[g].idx]
         /\ \A g \in 1..Len(job.mod.globals) : code'[n].maps.globals[Len(job.mod.impGlobals) + g] = Len(globals) + g
<1>0. PICK m, imp : m = job.mod /\ imp = job.imp
  OBVIOUS
<1>1. PICK c \in Nat, d \in Nat, base \in Nat :
        c = Len(m.impGlobals) /\ d = Len(m.globals) /\ base = Len(globals)
  BY <1>0, Lengths
<1>2. PICK f : f = [g \in 1..c |-> IF imp.globals[g].store = Host
                                   THEN base + d + Cardinality(FromHost(imp, g))
                                   ELSE code[SlotOf(imp.globals[g])].maps.globals[imp.globals[g].idx]]
  OBVIOUS
<1>3. PICK T : T = {f[i] : i \in 1..c}
  OBVIOUS
<1>4. f = [k \in 1..c |-> f[k]] /\ \A k \in 1..c : f[k] \in T
  BY <1>2, <1>3
<1>5. PICK map : map = code'[n].maps.globals
  OBVIOUS
<1>6. map = f \o Fresh(base, d)
  BY <1>0, <1>1, <1>2, <1>5, NewInstance DEF GlobalMap
<1>7. \A k \in 1..c : map[k] = f[k]
  BY <1>4, <1>6, FirstPart
<1>8. \A k \in 1..d : map[c + k] = base + k
  <2>1. f \in [1..c -> T]
    BY <1>4
  <2>2. Follows(f \o Fresh(base, d), c, base, d)
    BY <2>1, SecondPart
  <2> QED BY <1>6, <2>2 DEF Follows
<1> QED BY <1>0, <1>1, <1>2, <1>5, <1>7, <1>8

LEMMA NewElemSlots ==
  ASSUME LinkInv, Commit, NEW n, n = Len(code) + 1, NEW m, m = job.mod
  PROVE  \A s \in 1..Len(m.elems) : code'[n].maps.elems[s] = Len(elemVals) + s
<1>1. code \in Seq(Instance) /\ Len(code) \in Nat
  BY DEF LinkInv, TypeOK
<1>2. PICK maps : maps = [globals |-> GlobalMap(job.mod, job.imp), mems |-> MemMap(job.mod, job.imp),
                          tables |-> TableMap(job.mod, job.imp), tags |-> TagMap(job.mod, job.imp),
                          elems |-> Fresh(Len(elemVals), Len(job.mod.elems)),
                          data |-> Fresh(Len(dataDropped), Len(job.mod.data))]
  OBVIOUS
<1>3. PICK x : x = [mod |-> job.mod, imp |-> job.imp, imports |-> Targets(job.imp), maps |-> maps]
  OBVIOUS
<1>4. code' = Append(code, x)
  BY <1>2, <1>3 DEF Commit
<1>5. code'[n] = x
  BY <1>1, <1>4
<1>6. code'[n].maps.elems = Fresh(Len(elemVals), Len(m.elems))
  BY <1>2, <1>3, <1>5
<1> QED BY <1>6 DEF Fresh

\* Two host-supplied globals have slots of their own.
LEMMA HostsDiffer ==
  ASSUME NEW imp, NEW n \in Nat, NEW g \in 1..n, NEW h \in 1..n, g < h, imp.globals[h].store = Host
  PROVE  Cardinality(FromHost(imp, g)) # Cardinality(FromHost(imp, h))
<1>1. h \in FromHost(imp, h) /\ h \notin FromHost(imp, g)
  BY DEF FromHost
<1>2. FromHost(imp, g) \in SUBSET FromHost(imp, h)
  BY DEF FromHost
<1>3. IsFiniteSet(FromHost(imp, h))
  <2>1. IsFiniteSet(1..h)
    BY FS_Interval
  <2>2. FromHost(imp, h) \in SUBSET (1..h)
    BY DEF FromHost
  <2> QED BY <2>1, <2>2, FS_Subset
<1> QED BY <1>1, <1>2, <1>3, FS_Subset

\* An instance that was there finds its declarations as they were.
LEMMA OldAsDeclared ==
  ASSUME LimitsInv, Commit, NEW i \in Instances
  PROVE  AsDeclared(i)'
<1>1. LinkInv /\ AsDeclared(i)
  BY DEF LimitsInv, AskedInv, Declared
<1>2. code'[i] = code[i]
  BY <1>1, OldInstance
<1>3. PICK x : x = code[i]
  OBVIOUS
<1>4. /\ \A k \in 1..NumMems(x.mod) : x.maps.mems[k] \in DOMAIN mems
      /\ \A k \in 1..NumTables(x.mod) : x.maps.tables[k] \in DOMAIN tables
      /\ \A k \in 1..NumGlobals(x.mod) : x.maps.globals[k] \in DOMAIN globals
      /\ \A k \in 1..Len(x.mod.elems) : x.maps.elems[k] \in DOMAIN elemVals
  BY <1>1, <1>3, DeclaredSlots
<1>5. /\ \A s \in DOMAIN mems : mems'[s] = mems[s]
      /\ \A s \in DOMAIN tables : tables'[s] = tables[s]
      /\ \A s \in DOMAIN elemVals : elemVals'[s] = elemVals[s]
  <2>1. PICK m : m = job.mod
    OBVIOUS
  <2> QED BY <1>1, <2>1, PoolsAdded
<1>6. \A s \in DOMAIN globals : globals'[s] = globals[s]
  <2>1. PICK m : m = job.mod
    OBVIOUS
  <2> QED BY <1>1, <2>1, GlobalsAdded
<1>7. MemsAsDeclared(i)'
  <2>1. \A k \in 1..NumMems(x.mod) : MemAs(MemDecl(x.mod, k), mems'[x.maps.mems[k]])
    BY <1>1, <1>3, <1>4, <1>5 DEF AsDeclared, MemsAsDeclared
  <2> QED BY <1>2, <1>3, <2>1 DEF MemsAsDeclared
<1>8. TablesAsDeclared(i)'
  <2>1. \A k \in 1..NumTables(x.mod) : TableAs(TableDecl(x.mod, k), tables'[x.maps.tables[k]])
    BY <1>1, <1>3, <1>4, <1>5 DEF AsDeclared, TablesAsDeclared
  <2> QED BY <1>2, <1>3, <2>1 DEF TablesAsDeclared
<1>9. GlobalsAsDeclared(i)'
  <2>1. \A k \in 1..NumGlobals(x.mod) :
          HasKind(globals'[x.maps.globals[k]], GlobalDecl(x.mod, k).kind)
    BY <1>1, <1>3, <1>4, <1>6 DEF AsDeclared, GlobalsAsDeclared
  <2> QED BY <1>2, <1>3, <2>1 DEF GlobalsAsDeclared
<1>10. SegmentsAsDeclared(i)'
  <2>1. \A s \in 1..Len(x.mod.elems) : SegmentAs(x.mod, s, elemVals'[x.maps.elems[s]])
    BY <1>1, <1>3, <1>4, <1>5 DEF AsDeclared, SegmentsAsDeclared
  <2> QED BY <1>2, <1>3, <2>1 DEF SegmentsAsDeclared
<1> QED BY <1>7, <1>8, <1>9, <1>10 DEF AsDeclared

\* What the imports of the instance to come lead to.
LEMMA MemImport ==
  ASSUME LimitsInv, Commit, NEW m, m = job.mod, NEW imp, imp = job.imp, NEW k \in 1..Len(m.impMems)
  PROVE  LET s == code[SlotOf(imp.mems[k])].maps.mems[imp.mems[k].idx]
         IN  s \in DOMAIN mems /\ MemAs(m.impMems[k], mems[s])
<1>1. LinkInv /\ MemMatches(m.impMems[k], imp.mems[k])
  BY DEF LimitsInv, AskedInv, Planned, ResourcesPlanned, Commit
<1>2. PICK b : b = imp.mems[k]
  OBVIOUS
<1>3. PICK i : i = SlotOf(b)
  OBVIOUS
<1>4. i \in Instances /\ i # Host
  BY <1>1, <1>2, <1>3, SlotIsInstance DEF MemMatches
<1>5. b.idx \in 1..NumMems(code[i].mod)
  <2>1. Len(imp.mems) = Len(m.impMems) /\ \A j \in DOMAIN imp.mems : InSpace(imp.mems[j], NumMems)
    BY <1>1, Ready DEF Links
  <2>2. imp.mems \in Seq(Backing)
    BY <1>1, Ready DEF Imports
  <2>3. k \in DOMAIN imp.mems
    BY <2>1, <2>2
  <2>4. InSpace(b, NumMems)
    BY <1>2, <2>1, <2>3
  <2> QED BY <1>3, <1>4, <2>4 DEF InSpace
<1>6. code[i].maps.mems[b.idx] \in DOMAIN mems
  BY <1>1, <1>4, <1>5, DeclaredSlots
<1> QED BY <1>1, <1>2, <1>3, <1>6 DEF MemMatches, MemAs

LEMMA TableImport ==
  ASSUME LimitsInv, Commit, NEW m, m = job.mod, NEW imp, imp = job.imp, NEW k \in 1..Len(m.impTables)
  PROVE  LET s == code[SlotOf(imp.tables[k])].maps.tables[imp.tables[k].idx]
         IN  s \in DOMAIN tables /\ TableAs(m.impTables[k], tables[s])
<1>1. LinkInv /\ TableMatches(m.impTables[k], imp.tables[k])
  BY DEF LimitsInv, AskedInv, Planned, ResourcesPlanned, Commit
<1>2. PICK b : b = imp.tables[k]
  OBVIOUS
<1>3. PICK i : i = SlotOf(b)
  OBVIOUS
<1>4. i \in Instances /\ i # Host
  BY <1>1, <1>2, <1>3, SlotIsInstance DEF TableMatches
<1>5. b.idx \in 1..NumTables(code[i].mod)
  <2>1. Len(imp.tables) = Len(m.impTables) /\ \A j \in DOMAIN imp.tables : InSpace(imp.tables[j], NumTables)
    BY <1>1, Ready DEF Links
  <2>2. imp.tables \in Seq(Backing)
    BY <1>1, Ready DEF Imports
  <2>3. k \in DOMAIN imp.tables
    BY <2>1, <2>2
  <2>4. InSpace(b, NumTables)
    BY <1>2, <2>1, <2>3
  <2> QED BY <1>3, <1>4, <2>4 DEF InSpace
<1>6. code[i].maps.tables[b.idx] \in DOMAIN tables
  BY <1>1, <1>4, <1>5, DeclaredSlots
<1> QED BY <1>1, <1>2, <1>3, <1>6 DEF TableMatches, TableAs

\* What supplies a global of kind k when the host does not.
GlobalSource(b, k) ==
  /\ b.inst \in Instances /\ SlotOf(b) = b.inst
  /\ b.idx \in 1..NumGlobals(code[b.inst].mod)
  /\ code[b.inst].maps.globals[b.idx] \in DOMAIN globals
  /\ GlobalDecl(code[b.inst].mod, b.idx).kind = k

LEMMA GlobalImport ==
  ASSUME LimitsInv, Commit, NEW m, m = job.mod, NEW imp, imp = job.imp,
         NEW g \in 1..Len(m.impGlobals), NEW b, b = imp.globals[g], b.store # Host
  PROVE  GlobalSource(b, m.impGlobals[g].kind)
<1>1. LinkInv /\ GlobalDecl(code[b.inst].mod, b.idx).kind = m.impGlobals[g].kind
  BY DEF LimitsInv, AskedInv, Planned, GlobalsPlanned, Commit
<1>2. GlobalLinks(m, imp) /\ imp \in Imports /\ Len(code) \in Nat
  BY <1>1, Ready DEF Links
<1>3. g \in DOMAIN imp.globals
  <2>1. imp.globals \in Seq([store : Nat, inst : Nat, idx : Nat, val : Ref])
    BY <1>2 DEF Imports
  <2>2. Len(imp.globals) = Len(m.impGlobals)
    BY <1>2 DEF GlobalLinks
  <2> QED BY <2>1, <2>2
<1>4. b.store = ThisStore /\ b.inst \in Instances /\ b.idx \in 1..NumGlobals(code[b.inst].mod)
  BY <1>2, <1>3 DEF GlobalLinks
<1>5. SlotOf(b) = b.inst
  BY <1>4 DEF SlotOf, Instances
<1>6. code[b.inst].maps.globals[b.idx] \in DOMAIN globals
  BY <1>1, <1>4, DeclaredSlots
<1> QED BY <1>1, <1>4, <1>5, <1>6 DEF GlobalSource

\* The pools stay within the ceilings when an instance joins.
LEMMA CommitPoolsWithin ==
  ASSUME LimitsInv, Commit
  PROVE  PoolsWithin'
<1>1. LinkInv /\ PoolsWithin /\ job.phase = "tables"
  BY DEF LimitsInv, AskedInv, Commit
<1>2. PICK m, new : m = job.mod /\ new = job.newTables
  OBVIOUS
<1>3. /\ \A k \in 1..Len(m.mems) : m.mems[k].min <= MaxMemoryPages
      /\ \A t \in DOMAIN new : TableWithin(new[t])
  BY <1>1, <1>2 DEF LimitsInv, Planned, ResourcesPlanned, TablesPlanned
<1>4. m \in Modules /\ new \in Seq(Table) /\ Len(new) = Len(m.tables) /\ m.mems \in Seq(MemType)
  BY <1>1, <1>2, Ready DEF ModuleShape
<1>5. /\ DOMAIN mems' = 1..(Len(mems) + Len(m.mems))
      /\ \A s \in DOMAIN mems : mems'[s] = mems[s]
      /\ \A k \in 1..Len(m.mems) : mems'[Len(mems) + k] = NewMem(m.mems[k])
      /\ DOMAIN tables' = 1..(Len(tables) + Len(m.tables))
      /\ \A s \in DOMAIN tables : tables'[s] = tables[s]
      /\ \A k \in 1..Len(m.tables) : tables'[Len(tables) + k] = new[k]
  BY <1>1, <1>2, PoolsAdded
<1>6. \A k \in 1..Len(m.mems) : MemWithin(NewMem(m.mems[k]))
  <2>1. \A k \in DOMAIN m.mems : Bounded(m.mems[k])
    BY <1>4, ModulesAreTyped DEF ModuleTypes
  <2>2. \A k \in 1..Len(m.mems) : k \in DOMAIN m.mems
    BY <1>4
  <2> QED BY <1>3, <2>1, <2>2 DEF MemWithin, NewMem, Bounded
<1>7. /\ DOMAIN mems = 1..Len(mems) /\ DOMAIN tables = 1..Len(tables)
      /\ Len(mems) \in Nat /\ Len(tables) \in Nat
  BY <1>1, StoreLengths
<1>8. \A s \in DOMAIN mems' : MemWithin(mems'[s])
  <2> SUFFICES ASSUME NEW s \in DOMAIN mems' PROVE MemWithin(mems'[s])
    OBVIOUS
  <2>1. CASE s \in DOMAIN mems
    BY <1>1, <1>5, <2>1 DEF PoolsWithin
  <2>2. CASE s \notin DOMAIN mems
    <3>1. PICK k \in 1..Len(m.mems) : s = Len(mems) + k
      <4>1. s - Len(mems) \in 1..Len(m.mems) /\ s = Len(mems) + (s - Len(mems))
        BY <1>4, <1>5, <1>7, <2>2
      <4> QED BY <4>1
    <3> QED BY <1>5, <1>6, <3>1
  <2> QED BY <2>1, <2>2
<1>9. \A s \in DOMAIN tables' : TableWithin(tables'[s])
  <2> SUFFICES ASSUME NEW s \in DOMAIN tables' PROVE TableWithin(tables'[s])
    OBVIOUS
  <2>1. CASE s \in DOMAIN tables
    BY <1>1, <1>5, <2>1 DEF PoolsWithin
  <2>2. CASE s \notin DOMAIN tables
    <3>1. PICK k \in 1..Len(m.tables) : s = Len(tables) + k
      <4>1. s - Len(tables) \in 1..Len(m.tables) /\ s = Len(tables) + (s - Len(tables))
        BY <1>4, <1>5, <1>7, <2>2
      <4> QED BY <4>1
    <3>2. k \in DOMAIN new
      BY <1>4
    <3> QED BY <1>3, <1>5, <3>1, <3>2
  <2> QED BY <2>1, <2>2
<1>10. Len(heap') <= MaxGcObjects
  BY <1>1, Ready DEF PoolsWithin
<1> QED BY <1>8, <1>9, <1>10 DEF PoolsWithin, MemWithin, TableWithin

\* The new instance finds its declarations as they were checked.
LEMMA NewMemsAsDeclared ==
  ASSUME LimitsInv, Commit, NEW n, n = Len(code) + 1
  PROVE  MemsAsDeclared(n)'
<1>1. LinkInv
  BY DEF LimitsInv, AskedInv
<1>2. PICK m, imp : m = job.mod /\ imp = job.imp
  OBVIOUS
<1>3. m \in Modules /\ m.mems \in Seq(MemType) /\ code'[n].mod = m
  BY <1>1, <1>2, Ready, NewInstance DEF ModuleShape
<1>4. PICK c \in Nat, d \in Nat : c = Len(m.impMems) /\ d = Len(m.mems)
  BY <1>1, <1>2, Lengths
<1>5. /\ \A s \in DOMAIN mems : mems'[s] = mems[s]
      /\ \A k \in 1..d : mems'[Len(mems) + k] = NewMem(m.mems[k])
  BY <1>1, <1>2, <1>4, PoolsAdded
<1>6. /\ \A k \in 1..c : code'[n].maps.mems[k] = code[SlotOf(imp.mems[k])].maps.mems[imp.mems[k].idx]
      /\ \A k \in 1..d : code'[n].maps.mems[c + k] = Len(mems) + k
  <2>1. \A k \in 1..Len(m.impMems) : code'[n].maps.mems[k] = code[SlotOf(imp.mems[k])].maps.mems[imp.mems[k].idx]
    BY <1>1, <1>2, NewMemSlots
  <2>2. \A k \in 1..Len(m.mems) : code'[n].maps.mems[Len(m.impMems) + k] = Len(mems) + k
    BY <1>1, <1>2, NewMemSlots
  <2> QED BY <1>4, <2>1, <2>2
<1>7. \A k \in 1..c : MemAs(m.impMems[k], mems'[code'[n].maps.mems[k]])
  <2>1. ASSUME NEW k \in 1..Len(m.impMems)
        PROVE  LET s == code[SlotOf(imp.mems[k])].maps.mems[imp.mems[k].idx]
               IN  s \in DOMAIN mems /\ MemAs(m.impMems[k], mems[s])
    BY <1>2, MemImport
  <2> QED BY <1>4, <1>5, <1>6, <2>1
<1>8. \A k \in 1..d : MemAs(m.mems[k], mems'[code'[n].maps.mems[c + k]])
  <2>1. \A k \in 1..d : m.mems[k].min \in Nat /\ m.mems[k].max \in Int
    <3>1. \A k \in 1..d : m.mems[k] \in MemType
      BY <1>3, <1>4
    <3> QED BY <3>1 DEF MemType
  <2>2. \A k \in 1..d : MemAs(m.mems[k], NewMem(m.mems[k]))
    BY <2>1 DEF MemAs, MaxMatches, NewMem
  <2> QED BY <1>5, <1>6, <2>2
<1>9. \A k \in 1..(c + d) : MemAs(MemDecl(m, k), mems'[code'[n].maps.mems[k]])
  <2> SUFFICES ASSUME NEW k \in 1..(c + d)
               PROVE  MemAs(MemDecl(m, k), mems'[code'[n].maps.mems[k]])
    OBVIOUS
  <2>1. CASE k <= c
    BY <1>4, <1>7, <2>1 DEF MemDecl
  <2>2. CASE ~(k <= c)
    <3>1. k - c \in 1..d /\ c + (k - c) = k
      BY <2>2
    <3>2. MemDecl(m, k) = m.mems[k - c]
      BY <1>4, <2>2 DEF MemDecl
    <3> QED BY <1>8, <3>1, <3>2
  <2> QED BY <2>1, <2>2
<1> QED BY <1>3, <1>4, <1>9 DEF MemsAsDeclared, NumMems

LEMMA NewTablesAsDeclared ==
  ASSUME LimitsInv, Commit, NEW n, n = Len(code) + 1
  PROVE  TablesAsDeclared(n)'
<1>1. LinkInv
  BY DEF LimitsInv, AskedInv
<1>2. PICK m, imp, new : m = job.mod /\ imp = job.imp /\ new = job.newTables
  OBVIOUS
<1>3. code'[n].mod = m /\ new \in Seq(Table) /\ Len(new) = Len(m.tables)
  BY <1>1, <1>2, Ready, NewInstance
<1>4. PICK c \in Nat, d \in Nat : c = Len(m.impTables) /\ d = Len(m.tables)
  BY <1>1, <1>2, Lengths
<1>5. /\ \A s \in DOMAIN tables : tables'[s] = tables[s]
      /\ \A k \in 1..d : tables'[Len(tables) + k] = new[k]
  BY <1>1, <1>2, <1>4, PoolsAdded
<1>6. /\ \A k \in 1..c : code'[n].maps.tables[k]
                           = code[SlotOf(imp.tables[k])].maps.tables[imp.tables[k].idx]
      /\ \A k \in 1..d : code'[n].maps.tables[c + k] = Len(tables) + k
  <2>1. \A k \in 1..Len(m.impTables) : code'[n].maps.tables[k] = code[SlotOf(imp.tables[k])].maps.tables[imp.tables[k].idx]
    BY <1>1, <1>2, NewTableSlots
  <2>2. \A k \in 1..Len(m.tables) : code'[n].maps.tables[Len(m.impTables) + k] = Len(tables) + k
    BY <1>1, <1>2, NewTableSlots
  <2> QED BY <1>4, <2>1, <2>2
<1>7. \A k \in 1..c : TableAs(m.impTables[k], tables'[code'[n].maps.tables[k]])
  <2>1. ASSUME NEW k \in 1..Len(m.impTables)
        PROVE  LET s == code[SlotOf(imp.tables[k])].maps.tables[imp.tables[k].idx]
               IN  s \in DOMAIN tables /\ TableAs(m.impTables[k], tables[s])
    BY <1>2, TableImport
  <2>2. ASSUME NEW k \in 1..c PROVE TableAs(m.impTables[k], tables'[code'[n].maps.tables[k]])
    <3>1. PICK s : s = code[SlotOf(imp.tables[k])].maps.tables[imp.tables[k].idx]
      OBVIOUS
    <3>2. s \in DOMAIN tables /\ TableAs(m.impTables[k], tables[s])
      BY <1>4, <2>1, <3>1
    <3>3. code'[n].maps.tables[k] = s /\ tables'[s] = tables[s]
      BY <1>5, <1>6, <3>1, <3>2
    <3> QED BY <3>2, <3>3
  <2> QED BY <2>2
<1>8. \A k \in 1..d : TableAs(m.tables[k], tables'[code'[n].maps.tables[c + k]])
  <2>1. \A k \in DOMAIN new : TableAs(m.tables[k], new[k])
    BY <1>2 DEF LimitsInv, Planned, TablesPlanned, Commit
  <2>2. \A k \in 1..d : k \in DOMAIN new
    BY <1>3, <1>4
  <2> QED BY <1>5, <1>6, <2>1, <2>2
<1>9. \A k \in 1..(c + d) : TableAs(TableDecl(m, k), tables'[code'[n].maps.tables[k]])
  <2> SUFFICES ASSUME NEW k \in 1..(c + d)
               PROVE  TableAs(TableDecl(m, k), tables'[code'[n].maps.tables[k]])
    OBVIOUS
  <2>1. CASE k <= c
    BY <1>4, <1>7, <2>1 DEF TableDecl
  <2>2. CASE ~(k <= c)
    <3>1. k - c \in 1..d /\ c + (k - c) = k
      BY <2>2
    <3>2. TableDecl(m, k) = m.tables[k - c]
      BY <1>4, <2>2 DEF TableDecl
    <3> QED BY <1>8, <3>1, <3>2
  <2> QED BY <2>1, <2>2
<1> QED BY <1>3, <1>4, <1>9 DEF TablesAsDeclared, NumTables

LEMMA NewSegmentsAsDeclared ==
  ASSUME LimitsInv, Commit, NEW n, n = Len(code) + 1
  PROVE  SegmentsAsDeclared(n)'
<1>1. LinkInv /\ job.phase = "tables" /\ GlobalsPlanned(job.mod, job.imp, job.gvals)
  BY DEF LimitsInv, AskedInv, Planned, Commit
<1>2. PICK m, gv : m = job.mod /\ gv = job.gvals
  OBVIOUS
<1>3. /\ code'[n].mod = m /\ m.elems \in Seq(ElemSegment) /\ ModuleIndices(m)
      /\ Len(gv) = NumGlobals(m) /\ gv \in Seq(Ref)
  BY <1>1, <1>2, Ready, NewInstance DEF ModuleShape
<1>4. \A s \in 1..Len(m.elems) : elemVals'[code'[n].maps.elems[s]] = ElemValue(m.elems[s].items, gv)
  <2>1. \A s \in 1..Len(m.elems) : elemVals'[Len(elemVals) + s] = ElemValue(m.elems[s].items, gv)
    BY <1>1, <1>2, PoolsAdded
  <2>2. \A s \in 1..Len(m.elems) : code'[n].maps.elems[s] = Len(elemVals) + s
    BY <1>1, <1>2, NewElemSlots
  <2> QED BY <2>1, <2>2
<1>5. ASSUME NEW s \in 1..Len(m.elems)
      PROVE  SegmentAs(m, s, ElemValue(m.elems[s].items, gv))
  <2>1. s \in DOMAIN m.elems
    BY <1>3
  <2>2. PICK items : items = m.elems[s].items
    OBVIOUS
  <2>3. items \in Seq(Expr)
    <3>1. m.elems[s] \in ElemSegment
      BY <1>3, <2>1
    <3> QED BY <2>2, <3>1 DEF ElemSegment
  <2>4. ASSUME NEW kind \in Kinds, ItemsProduce(m, s, kind), NEW j \in DOMAIN items
        PROVE  HasKind(EvalValue(items[j], gv), kind)
    <3>1. Produces(m, items[j], kind)
      BY <2>2, <2>4 DEF ItemsProduce
    <3>2. items[j] \in Expr /\ ValidExpr(m, items[j], NumGlobals(m))
      BY <1>3, <2>1, <2>2, <2>3 DEF ModuleIndices
    <3>3. NumGlobals(m) \in Nat /\ NumGlobals(m) <= Len(gv)
      BY <1>3
    <3> QED BY <1>1, <1>2, <3>1, <3>2, <3>3, EvalHasKind
  <2>5. PICK vals : vals = ElemValue(items, gv)
    OBVIOUS
  <2>6. DOMAIN vals = DOMAIN items /\ \A j \in DOMAIN items : vals[j] = EvalValue(items[j], gv)
    BY <2>5 DEF ElemValue
  <2>7. SegmentAs(m, s, vals)
    BY <2>4, <2>6 DEF SegmentAs
  <2> QED BY <2>2, <2>5, <2>7
<1> QED BY <1>3, <1>4, <1>5 DEF SegmentsAsDeclared

\* The globals of the new instance, and of which kind they are.
LEMMA NewGlobalsAsDeclared ==
  ASSUME LimitsInv, Commit, NEW n, n = Len(code) + 1
  PROVE  GlobalsAsDeclared(n)'
<1>1. LinkInv /\ Declared
  BY DEF LimitsInv, AskedInv
<1>2. PICK m, imp, gv : m = job.mod /\ imp = job.imp /\ gv = job.gvals
  OBVIOUS
<1>3. code'[n].mod = m /\ gv \in Seq(Ref) /\ Len(gv) = NumGlobals(m)
  BY <1>1, <1>2, Ready, NewInstance
<1>4. PICK c \in Nat, d \in Nat : c = Len(m.impGlobals) /\ d = Len(m.globals)
  BY <1>1, <1>2, Lengths
<1>5. /\ \A s \in DOMAIN globals : globals'[s] = globals[s]
      /\ \A k \in 1..d : globals'[Len(globals) + k] = gv[c + k]
      /\ \A h \in 1..HostShare : globals'[Len(globals) + d + h] = Null
  BY <1>1, <1>2, <1>4, GlobalsAdded
<1>6. /\ \A g \in 1..c :
           code'[n].maps.globals[g] =
             IF imp.globals[g].store = Host
             THEN Len(globals) + d + Cardinality(FromHost(imp, g))
             ELSE code[SlotOf(imp.globals[g])].maps.globals[imp.globals[g].idx]
      /\ \A g \in 1..d : code'[n].maps.globals[c + g] = Len(globals) + g
  <2>1. \A g \in 1..Len(m.impGlobals) :
             code'[n].maps.globals[g] =
               IF imp.globals[g].store = Host
               THEN Len(globals) + Len(m.globals) + Cardinality(FromHost(imp, g))
               ELSE code[SlotOf(imp.globals[g])].maps.globals[imp.globals[g].idx]
    BY <1>1, <1>2, NewGlobalSlots
  <2>2. \A g \in 1..Len(m.globals) : code'[n].maps.globals[Len(m.impGlobals) + g] = Len(globals) + g
    BY <1>1, <1>2, NewGlobalSlots
  <2> QED BY <1>4, <2>1, <2>2
<1>7. ASSUME NEW g \in 1..c
      PROVE  HasKind(globals'[code'[n].maps.globals[g]], m.impGlobals[g].kind)
  <2>1. CASE imp.globals[g].store = Host
    <3>1. PICK h : h = Cardinality(FromHost(imp, g))
      OBVIOUS
    <3>2. HostShare = Cardinality(FromHost(imp, c))
      BY <1>2, <1>4 DEF HostShare
    <3>3. h \in 1..HostShare
      BY <2>1, <3>1, <3>2, HostCount
    <3>4. globals'[code'[n].maps.globals[g]] = Null
      BY <1>5, <1>6, <2>1, <3>1, <3>3
    <3> QED BY <3>4 DEF HasKind
  <2>2. CASE imp.globals[g].store # Host
    <3>1. PICK b : b = imp.globals[g]
      OBVIOUS
    <3>2. /\ b.inst \in Instances /\ SlotOf(b) = b.inst
          /\ b.idx \in 1..NumGlobals(code[b.inst].mod)
          /\ code[b.inst].maps.globals[b.idx] \in DOMAIN globals
          /\ GlobalDecl(code[b.inst].mod, b.idx).kind = m.impGlobals[g].kind
      <4>1. GlobalSource(b, m.impGlobals[g].kind)
        BY <1>2, <1>4, <2>2, <3>1, GlobalImport
      <4> QED BY <4>1 DEF GlobalSource
    <3>3. HasKind(globals[code[b.inst].maps.globals[b.idx]], m.impGlobals[g].kind)
      BY <1>1, <3>2 DEF Declared, AsDeclared, GlobalsAsDeclared
    <3> QED BY <1>5, <1>6, <2>2, <3>1, <3>2, <3>3
  <2> QED BY <2>1, <2>2
<1>8. \A g \in 1..(c + d) : HasKind(globals'[code'[n].maps.globals[g]], GlobalDecl(m, g).kind)
  <2> SUFFICES ASSUME NEW g \in 1..(c + d)
               PROVE  HasKind(globals'[code'[n].maps.globals[g]], GlobalDecl(m, g).kind)
    OBVIOUS
  <2>1. CASE g <= c
    BY <1>4, <1>7, <2>1 DEF GlobalDecl
  <2>2. CASE ~(g <= c)
    <3>1. g - c \in 1..d /\ c + (g - c) = g
      BY <2>2
    <3>2. globals'[code'[n].maps.globals[g]] = gv[g]
      BY <1>5, <1>6, <3>1
    <3>3. Len(gv) = c + d
      BY <1>3, <1>4 DEF NumGlobals
    <3>4. g \in DOMAIN gv
      BY <1>3, <3>3
    <3>5. \A h \in DOMAIN gv : HasKind(gv[h], GlobalDecl(m, h).kind)
      BY <1>2 DEF LimitsInv, Planned, GlobalsPlanned, Commit
    <3> QED BY <3>2, <3>4, <3>5
  <2> QED BY <2>1, <2>2
<1> QED BY <1>3, <1>4, <1>8 DEF GlobalsAsDeclared, NumGlobals

\* A global the new instance defines or the host supplies for it.
OwnsGlobal(m, imp, g) == g > Len(m.impGlobals) \/ imp.globals[g].store = Host

\* Such a slot comes after those in use.
LEMMA OwnGlobalSlot ==
  ASSUME LinkInv, Commit, NEW n, n = Len(code) + 1,
         NEW g \in 1..NumGlobals(job.mod), OwnsGlobal(job.mod, job.imp, g)
  PROVE  code'[n].maps.globals[g] \in Nat /\ code'[n].maps.globals[g] > Len(globals)
<1>1. PICK m, imp : m = job.mod /\ imp = job.imp
  OBVIOUS
<1>2. PICK c \in Nat, d \in Nat, l \in Nat : c = Len(m.impGlobals) /\ d = Len(m.globals) /\ l = Len(globals)
  BY <1>1, Lengths
<1>3. PICK map : map = code'[n].maps.globals
  OBVIOUS
<1>4. CASE g <= c
  <2>1. imp.globals[g].store = Host
    BY <1>1, <1>2, <1>4 DEF OwnsGlobal
  <2>2. g \in 1..c
    BY <1>4
  <2>3. map[g] = l + d + Cardinality(FromHost(imp, g))
    BY <1>1, <1>2, <1>3, <2>1, <2>2, NewGlobalSlots
  <2>4. Cardinality(FromHost(imp, g)) \in Nat /\ Cardinality(FromHost(imp, g)) >= 1
    BY <2>1, <2>2, HostCount
  <2> QED BY <1>2, <1>3, <2>3, <2>4
<1>5. CASE ~(g <= c)
  <2>1. NumGlobals(job.mod) = c + d
    BY <1>1, <1>2 DEF NumGlobals
  <2>2. PICK k \in 1..d : g = c + k
    <3>1. g - c \in 1..d /\ g = c + (g - c)
      BY <1>5, <2>1
    <3> QED BY <3>1
  <2>3. map[g] = l + k
    BY <1>1, <1>2, <1>3, <2>2, NewGlobalSlots
  <2>4. l + k \in Nat /\ l + k > l
    OBVIOUS
  <2> QED BY <1>2, <1>3, <2>3, <2>4
<1> QED BY <1>4, <1>5

\* Two such globals of one instance have different slots.
LEMMA OwnSlotsDiffer ==
  ASSUME LinkInv, Commit, NEW n, n = Len(code) + 1,
         NEW g \in 1..NumGlobals(job.mod), OwnsGlobal(job.mod, job.imp, g),
         NEW h \in 1..NumGlobals(job.mod), OwnsGlobal(job.mod, job.imp, h), g < h
  PROVE  code'[n].maps.globals[g] # code'[n].maps.globals[h]
<1>1. PICK m, imp : m = job.mod /\ imp = job.imp
  OBVIOUS
<1>2. PICK c \in Nat, d \in Nat, l \in Nat : c = Len(m.impGlobals) /\ d = Len(m.globals) /\ l = Len(globals)
  BY <1>1, Lengths
<1>3. PICK map : map = code'[n].maps.globals
  OBVIOUS
<1>4. \A i \in 1..c : imp.globals[i].store = Host => map[i] = l + d + Cardinality(FromHost(imp, i))
  BY <1>1, <1>2, <1>3, NewGlobalSlots
<1>5. \A i \in 1..d : map[c + i] = l + i
  BY <1>1, <1>2, <1>3, NewGlobalSlots
<1>6. ASSUME NEW i \in (c + 1)..(c + d) PROVE map[i] = l + (i - c)
  <2>1. i - c \in 1..d /\ c + (i - c) = i
    OBVIOUS
  <2> QED BY <1>5, <2>1
<1>7. \A i \in 1..NumGlobals(m) : i <= c => i \in 1..c
  BY <1>2
<1>8. \A i \in 1..NumGlobals(m) : ~(i <= c) => i \in (c + 1)..(c + d)
  <2>1. NumGlobals(m) = c + d
    BY <1>2 DEF NumGlobals
  <2> QED BY <2>1
<1>9. CASE h <= c
  <2>1. g \in 1..c /\ h \in 1..c
    BY <1>9
  <2>2. imp.globals[g].store = Host /\ imp.globals[h].store = Host
    BY <1>1, <1>2, <2>1 DEF OwnsGlobal
  <2>3. PICK a, b : a = Cardinality(FromHost(imp, g)) /\ b = Cardinality(FromHost(imp, h))
    OBVIOUS
  <2>4. a \in Nat /\ b \in Nat
    BY <2>1, <2>3, HostCount
  <2>5. a # b
    BY <2>1, <2>2, <2>3, HostsDiffer
  <2>6. map[g] = l + d + a /\ map[h] = l + d + b
    BY <1>4, <2>1, <2>2, <2>3
  <2> QED BY <1>3, <2>4, <2>5, <2>6
<1>10. CASE ~(h <= c) /\ g <= c
  <2>1. g \in 1..c /\ h \in (c + 1)..(c + d)
    BY <1>1, <1>7, <1>8, <1>10
  <2>2. imp.globals[g].store = Host
    BY <1>1, <1>2, <2>1 DEF OwnsGlobal
  <2>3. PICK a : a = Cardinality(FromHost(imp, g))
    OBVIOUS
  <2>4. a \in Nat /\ a >= 1
    BY <2>1, <2>2, <2>3, HostCount
  <2>5. map[g] = l + d + a /\ map[h] = l + (h - c)
    BY <1>4, <1>6, <2>1, <2>2, <2>3
  <2> QED BY <1>3, <2>1, <2>4, <2>5
<1>11. CASE ~(g <= c)
  <2>1. g \in (c + 1)..(c + d) /\ h \in (c + 1)..(c + d)
    BY <1>1, <1>8, <1>11
  <2>2. map[g] = l + (g - c) /\ map[h] = l + (h - c)
    BY <1>6, <2>1
  <2> QED BY <1>3, <2>1, <2>2
<1> QED BY <1>9, <1>10, <1>11

\* Any other global of the new instance is the exporter's, and of its kind.
LEMMA SharedGlobal ==
  ASSUME LimitsInv, Commit, NEW n, n = Len(code) + 1,
         NEW g \in 1..NumGlobals(job.mod), ~OwnsGlobal(job.mod, job.imp, g)
  PROVE  \E i \in Instances : \E h \in 1..NumGlobals(code[i].mod) :
           /\ code'[n].maps.globals[g] = code[i].maps.globals[h]
           /\ GlobalDecl(code[i].mod, h).kind = GlobalDecl(job.mod, g).kind
<1>1. LinkInv
  BY DEF LimitsInv, AskedInv
<1>2. PICK m, imp : m = job.mod /\ imp = job.imp
  OBVIOUS
<1>3. PICK b : b = imp.globals[g]
  OBVIOUS
<1>4. g \in 1..Len(m.impGlobals) /\ b.store # Host
  <2>1. Len(m.impGlobals) \in Nat
    BY <1>1, <1>2, Lengths
  <2> QED BY <1>2, <1>3, <2>1 DEF OwnsGlobal
<1>5. /\ b.inst \in Instances /\ SlotOf(b) = b.inst
      /\ b.idx \in 1..NumGlobals(code[b.inst].mod)
      /\ GlobalDecl(code[b.inst].mod, b.idx).kind = m.impGlobals[g].kind
  <2>1. GlobalSource(b, m.impGlobals[g].kind)
    BY <1>2, <1>3, <1>4, GlobalImport
  <2> QED BY <2>1 DEF GlobalSource
<1>6. code'[n].maps.globals[g] = code[b.inst].maps.globals[b.idx]
  BY <1>1, <1>2, <1>3, <1>4, <1>5, NewGlobalSlots
<1>7. GlobalDecl(m, g) = m.impGlobals[g]
  BY <1>4 DEF GlobalDecl
<1> QED BY <1>2, <1>5, <1>6, <1>7

\* The instances still agree on the kinds of the globals they share.
LEMMA CommitAgrees ==
  ASSUME LimitsInv, Commit, NEW i \in Instances', NEW j \in Instances'
  PROVE  Agree(i, j)'
<1>1. LinkInv /\ \A a, b \in Instances : Agree(a, b)
  BY DEF LimitsInv, AskedInv, Declared
<1>2. PICK n : n = Len(code) + 1
  OBVIOUS
<1>3. PICK m, cd : m = job.mod /\ cd = code'
  OBVIOUS
<1>4. /\ Instances' = Instances \cup {n} /\ cd[n].mod = m
      /\ \A a \in Instances : cd[a] = code[a]
  BY <1>1, <1>2, <1>3, NewInstance, OldInstance
<1>5. PICK l \in Nat : l = Len(globals) /\ DOMAIN globals = 1..l
  BY <1>1, StoreLengths
<1>6. \A a \in Instances : \A g \in 1..NumGlobals(code[a].mod) : code[a].maps.globals[g] \in 1..l
  BY <1>1, <1>5, DeclaredSlots
<1>7. ASSUME NEW g \in 1..NumGlobals(m), OwnsGlobal(m, job.imp, g)
      PROVE  cd[n].maps.globals[g] \in Nat /\ cd[n].maps.globals[g] > l
  BY <1>1, <1>2, <1>3, <1>5, <1>7, OwnGlobalSlot
<1>8. ASSUME NEW g \in 1..NumGlobals(m), ~OwnsGlobal(m, job.imp, g)
      PROVE  \E a \in Instances : \E h \in 1..NumGlobals(code[a].mod) :
               /\ cd[n].maps.globals[g] = code[a].maps.globals[h]
               /\ GlobalDecl(code[a].mod, h).kind = GlobalDecl(m, g).kind
  BY <1>2, <1>3, <1>8, SharedGlobal
<1>9. ASSUME NEW a \in Instances, NEW g \in 1..NumGlobals(m), NEW h \in 1..NumGlobals(code[a].mod),
             cd[n].maps.globals[g] = code[a].maps.globals[h]
      PROVE  GlobalDecl(m, g).kind = GlobalDecl(code[a].mod, h).kind
  <2>1. code[a].maps.globals[h] \in 1..l
    BY <1>6
  <2>2. ~OwnsGlobal(m, job.imp, g)
    BY <1>7, <1>9, <2>1
  <2>3. PICK b \in Instances : \E k \in 1..NumGlobals(code[b].mod) :
          /\ cd[n].maps.globals[g] = code[b].maps.globals[k]
          /\ GlobalDecl(code[b].mod, k).kind = GlobalDecl(m, g).kind
    BY <1>8, <2>2
  <2>4. PICK k \in 1..NumGlobals(code[b].mod) :
          /\ cd[n].maps.globals[g] = code[b].maps.globals[k]
          /\ GlobalDecl(code[b].mod, k).kind = GlobalDecl(m, g).kind
    BY <2>3
  <2>5. Agree(b, a)
    BY <1>1
  <2> QED BY <1>9, <2>4, <2>5 DEF Agree, AgreeOn
<1>10. ASSUME NEW g \in 1..NumGlobals(m), NEW h \in 1..NumGlobals(m),
              cd[n].maps.globals[g] = cd[n].maps.globals[h]
       PROVE  GlobalDecl(m, g).kind = GlobalDecl(m, h).kind
  <2>1. CASE ~OwnsGlobal(m, job.imp, h)
    <3>1. PICK a \in Instances : \E k \in 1..NumGlobals(code[a].mod) :
            /\ cd[n].maps.globals[h] = code[a].maps.globals[k]
            /\ GlobalDecl(code[a].mod, k).kind = GlobalDecl(m, h).kind
      BY <1>8, <2>1
    <3>2. PICK k \in 1..NumGlobals(code[a].mod) :
            /\ cd[n].maps.globals[h] = code[a].maps.globals[k]
            /\ GlobalDecl(code[a].mod, k).kind = GlobalDecl(m, h).kind
      BY <3>1
    <3>3. GlobalDecl(m, g).kind = GlobalDecl(code[a].mod, k).kind
      BY <1>9, <1>10, <3>2
    <3> QED BY <3>2, <3>3
  <2>2. CASE ~OwnsGlobal(m, job.imp, g)
    <3>1. PICK a \in Instances : \E k \in 1..NumGlobals(code[a].mod) :
            /\ cd[n].maps.globals[g] = code[a].maps.globals[k]
            /\ GlobalDecl(code[a].mod, k).kind = GlobalDecl(m, g).kind
      BY <1>8, <2>2
    <3>2. PICK k \in 1..NumGlobals(code[a].mod) :
            /\ cd[n].maps.globals[g] = code[a].maps.globals[k]
            /\ GlobalDecl(code[a].mod, k).kind = GlobalDecl(m, g).kind
      BY <3>1
    <3>3. GlobalDecl(m, h).kind = GlobalDecl(code[a].mod, k).kind
      BY <1>9, <1>10, <3>2
    <3> QED BY <3>2, <3>3
  <2>3. CASE OwnsGlobal(m, job.imp, g) /\ OwnsGlobal(m, job.imp, h)
    <3>1. ~(g < h)
      BY <1>1, <1>2, <1>3, <1>10, <2>3, OwnSlotsDiffer
    <3>2. ~(h < g)
      BY <1>1, <1>2, <1>3, <1>10, <2>3, OwnSlotsDiffer
    <3>3. g = h
      BY <3>1, <3>2
    <3> QED BY <3>3
  <2> QED BY <2>1, <2>2, <2>3
<1>11. ASSUME NEW g \in 1..NumGlobals(cd[i].mod), NEW h \in 1..NumGlobals(cd[j].mod),
              cd[i].maps.globals[g] = cd[j].maps.globals[h]
       PROVE  GlobalDecl(cd[i].mod, g).kind = GlobalDecl(cd[j].mod, h).kind
  <2>1. CASE i \in Instances /\ j \in Instances
    <3>1. Agree(i, j)
      BY <1>1, <2>1
    <3> QED BY <1>4, <1>11, <2>1, <3>1 DEF Agree, AgreeOn
  <2>2. CASE i = n /\ j \in Instances
    BY <1>4, <1>9, <1>11, <2>2
  <2>3. CASE i \in Instances /\ j = n
    BY <1>4, <1>9, <1>11, <2>3
  <2>4. CASE i = n /\ j = n
    BY <1>4, <1>10, <1>11, <2>4
  <2> QED BY <1>4, <2>1, <2>2, <2>3, <2>4
<1> QED BY <1>3, <1>11 DEF Agree, AgreeOn

\* Joining the store, the new instance and those before it find what they
\* declared.
LEMMA CommitWithin ==
  ASSUME LimitsInv, Commit
  PROVE  PoolsWithin' /\ Declared'
<1>1. LinkInv
  BY DEF LimitsInv, AskedInv
<1>2. PICK n : n = Len(code) + 1
  OBVIOUS
<1>3. Instances' = Instances \cup {n}
  BY <1>1, <1>2, NewInstance
<1>4. AsDeclared(n)'
  BY <1>2, NewMemsAsDeclared, NewTablesAsDeclared, NewGlobalsAsDeclared, NewSegmentsAsDeclared
     DEF AsDeclared
<1>5. \A i \in Instances' : AsDeclared(i)'
  BY <1>3, <1>4, OldAsDeclared
<1>6. \A i, j \in Instances' : Agree(i, j)'
  BY CommitAgrees
<1> QED BY <1>5, <1>6, CommitPoolsWithin DEF Declared

\* An initialiser adds at most one object, and none to a full heap.
LEMMA InitialiserWithin ==
  ASSUME LimitsInv, UNCHANGED <<code, pools>>, NEW e, CanEval(e), EvalHeap(e)
  PROVE  PoolsWithin' /\ Declared'
<1>1. PICK o : o = [owner |-> Self, mod |-> job.mod]
  OBVIOUS
<1>2. heap' = heap \/ (heap' = Append(heap, o) /\ Len(heap) < MaxGcObjects)
  BY <1>1 DEF CanEval, EvalHeap, Allocate
<1> QED BY <1>2, AllocationWithin

\* Every step keeps the pools within the ceilings and the declarations true.
LEMMA NextWithin ==
  ASSUME LimitsInv, [Next]_vars
  PROVE  PoolsWithin' /\ Declared'
<1>1. PoolsWithin /\ Declared /\ Len(heap) <= MaxGcObjects
  BY DEF LimitsInv, PoolsWithin
<1>2. ASSUME UNCHANGED <<code, globals, mems, tables, elemVals, heap>>
      PROVE  PoolsWithin' /\ Declared'
  BY <1>1, <1>2, SharedStays
<1>3. ASSUME UNCHANGED <<code, pools, heap>>
      PROVE  PoolsWithin' /\ Declared'
  BY <1>2, <1>3 DEF pools
<1>4. CASE BeginInstantiate \/ LinkResources \/ ApplyData \/ Start
  BY <1>3, <1>4 DEF BeginInstantiate, LinkResources, ApplyData, Start
<1>5. CASE EvalGlobal
  <2>1. PICK e : e = job.mod.globals[Len(job.gvals) - Len(job.mod.impGlobals) + 1].init
    OBVIOUS
  <2>2. UNCHANGED <<code, pools>>
    BY <1>5 DEF EvalGlobal
  <2>3. (CanEval(e) /\ EvalHeap(e)) \/ UNCHANGED heap
    BY <1>5, <2>1 DEF EvalGlobal
  <2> QED BY <1>3, <2>2, <2>3, InitialiserWithin
<1>6. CASE EvalTable
  <2>1. PICK e : e = job.mod.tables[Len(job.newTables) + 1].init
    OBVIOUS
  <2>2. UNCHANGED <<code, pools>>
    BY <1>6 DEF EvalTable
  <2>3. (CanEval(e) /\ EvalHeap(e)) \/ UNCHANGED heap
    BY <1>6, <2>1 DEF EvalTable
  <2> QED BY <1>3, <2>2, <2>3, InitialiserWithin
<1>7. CASE Commit
  BY <1>7, CommitWithin
<1>8. CASE ApplyElem
  BY <1>8, ApplyElemWithin
<1>9. CASE Invoke \/ Return \/ TrapOut
  BY <1>3, <1>9 DEF Invoke, Return, TrapOut
<1>10. CASE Call \/ CallIndirect
  BY <1>3, <1>10 DEF Call, CallIndirect, CallTo
<1>11. CASE RefFunc \/ GlobalGet \/ TableGet
  BY <1>3, <1>11 DEF RefFunc, GlobalGet, TableGet
<1>12. CASE StructNew
  <2>1. PICK o : o = [owner |-> Top.inst, mod |-> Inst.mod]
    OBVIOUS
  <2>2. UNCHANGED <<code, pools>> /\ heap' = Append(heap, o) /\ Len(heap) < MaxGcObjects
    BY <1>12, <2>1 DEF StructNew, Allocate
  <2> QED BY <2>2, AllocationWithin
<1>13. CASE GlobalSet
  BY <1>13, GlobalSetWithin
<1>14. CASE TableSet \/ TableGrow \/ TableFill \/ TableCopy \/ TableInit
  BY <1>14, TableSetWithin, TableGrowWithin, TableFillWithin, TableCopyWithin, TableInitWithin
<1>15. CASE ElemDrop \/ DataDrop
  BY <1>2, <1>15 DEF ElemDrop, DataDrop
<1>16. CASE MemoryGrow
  BY <1>16, MemoryGrowWithin
<1>17. CASE UNCHANGED vars
  BY <1>3, <1>17 DEF vars
<1> QED BY <1>4, <1>5, <1>6, <1>7, <1>8, <1>9, <1>10, <1>11, <1>12, <1>13, <1>14, <1>15, <1>16,
           <1>17 DEF Next, Instantiate, Control, Execute

\* The invariant is the property: an index leads to a memory or a table within
\* its own maximum, which is no more than the maximum the index declares.
LEMMA LimitsFollow ==
  ASSUME LimitsInv
  PROVE  LimitsHold
<1>1. LinkInv /\ PoolsWithin /\ Declared
  BY DEF LimitsInv, AskedInv
<1>2. ASSUME NEW i \in Instances, NEW k \in DOMAIN code[i].maps.mems
      PROVE  LET d == MemDecl(code[i].mod, k)
                 a == mems[code[i].maps.mems[k]]
             IN  a.pages >= d.min /\ (d.max # NoMax => a.pages <= d.max)
  <2>1. PICK m, maps : m = code[i].mod /\ maps = code[i].maps
    OBVIOUS
  <2>2. code[i] \in Instance /\ m \in Modules /\ Len(maps.mems) = NumMems(m)
    BY <1>1, <2>1, MapsLead
  <2>3. maps.mems \in Slots
    BY <2>1, <2>2 DEF Instance, IndexMaps
  <2>4. k \in 1..NumMems(m)
    BY <2>1, <2>2, <2>3 DEF Slots
  <2>5. PICK d, a : d = MemDecl(m, k) /\ a = mems[maps.mems[k]]
    OBVIOUS
  <2>6. maps.mems[k] \in DOMAIN mems
    BY <1>1, <2>1, <2>4, DeclaredSlots
  <2>7. a.pages \in Nat /\ a.max \in Int /\ d.min \in Nat /\ d.max \in Int
    <3>1. a \in Memory
      BY <1>1, <2>5, <2>6 DEF LinkInv, TypeOK, PoolShapes
    <3>2. d.min \in Nat /\ d.max \in Int
      BY <2>2, <2>4, <2>5, DeclShapes
    <3> QED BY <3>1, <3>2 DEF Memory
  <2>8. MemWithin(a) /\ MemAs(d, a)
    BY <1>1, <2>1, <2>4, <2>5, <2>6 DEF PoolsWithin, Declared, AsDeclared, MemsAsDeclared
  <2>9. a.pages >= d.min /\ (d.max # NoMax => a.pages <= d.max)
    BY <2>7, <2>8 DEF MemWithin, MemAs, MaxMatches
  <2> QED BY <2>1, <2>5, <2>9
<1>3. ASSUME NEW i \in Instances, NEW k \in DOMAIN code[i].maps.tables
      PROVE  LET d == TableDecl(code[i].mod, k)
                 a == tables[code[i].maps.tables[k]]
             IN  /\ Len(a.entries) >= d.min
                 /\ d.max # NoMax => Len(a.entries) <= d.max
                 /\ \A e \in DOMAIN a.entries : HasKind(a.entries[e], d.elem)
  <2>1. PICK m, maps : m = code[i].mod /\ maps = code[i].maps
    OBVIOUS
  <2>2. code[i] \in Instance /\ m \in Modules /\ Len(maps.tables) = NumTables(m)
    BY <1>1, <2>1, MapsLead
  <2>3. maps.tables \in Slots
    BY <2>1, <2>2 DEF Instance, IndexMaps
  <2>4. k \in 1..NumTables(m)
    BY <2>1, <2>2, <2>3 DEF Slots
  <2>5. PICK d, a : d = TableDecl(m, k) /\ a = tables[maps.tables[k]]
    OBVIOUS
  <2>6. maps.tables[k] \in DOMAIN tables
    BY <1>1, <2>1, <2>4, DeclaredSlots
  <2>7. Len(a.entries) \in Nat /\ a.max \in Int /\ d.min \in Nat /\ d.max \in Int
    <3>1. a \in Table
      BY <1>1, <2>5, <2>6 DEF LinkInv, TypeOK, PoolShapes
    <3>2. d.min \in Nat /\ d.max \in Int
      BY <2>2, <2>4, <2>5, DeclShapes
    <3>3. a.max \in Int /\ a.entries \in Seq(Ref)
      BY <3>1 DEF Table
    <3> QED BY <3>2, <3>3
  <2>8. TableWithin(a) /\ TableAs(d, a)
    BY <1>1, <2>1, <2>4, <2>5, <2>6 DEF PoolsWithin, Declared, AsDeclared, TablesAsDeclared
  <2>9. /\ Len(a.entries) >= d.min
        /\ d.max # NoMax => Len(a.entries) <= d.max
    BY <2>7, <2>8 DEF TableWithin, TableAs, MaxMatches
  <2>10. \A e \in DOMAIN a.entries : HasKind(a.entries[e], d.elem)
    BY <2>8 DEF TableWithin, TableAs
  <2> QED BY <2>1, <2>5, <2>9, <2>10
<1>4. /\ \A t \in DOMAIN tables : Len(tables[t].entries) <= MaxTableElems
      /\ \A k \in DOMAIN mems : mems[k].pages <= MaxMemoryPages
      /\ Len(heap) <= MaxGcObjects
  BY <1>1 DEF PoolsWithin, TableWithin, MemWithin
<1> QED BY <1>2, <1>3, <1>4 DEF LimitsHold

\* An empty store breaks no limit.
LEMMA InitIsWithin ==
  ASSUME Init
  PROVE  LimitsInv
<1>1. AskedInv
  BY InitIsAsked
<1>2. /\ DOMAIN mems = {} /\ DOMAIN tables = {} /\ Len(heap) = 0 /\ Instances = {}
      /\ job.phase = "idle"
  BY DEF Init, Instances, Idle
<1>3. PoolsWithin
  BY <1>2, LimitsAreNumbers DEF PoolsWithin
<1>4. Declared
  BY <1>2 DEF Declared
<1>5. Planned
  BY <1>2 DEF Planned
<1> QED BY <1>1, <1>3, <1>4, <1>5 DEF LimitsInv

\* What every instance declared stays true of the memories, tables, globals
\* and segments its indices lead to, and of the instantiation in progress:
\* the invariant behind the limits (Store::instantiate, table_import_matches,
\* memory_import_matches, the growing instructions).
THEOREM LimitsStay == Spec => []LimitsInv
<1>1. Init => LimitsInv
  BY InitIsWithin
<1>2. LimitsInv /\ [Next]_vars => LimitsInv'
  <2> SUFFICES ASSUME LimitsInv, [Next]_vars PROVE LimitsInv'
    OBVIOUS
  <2>1. AskedInv'
    BY NextKeepsLinks DEF LimitsInv
  <2> QED BY <2>1, NextWithin, NextPlans DEF LimitsInv
<1> QED BY <1>1, <1>2, PTL DEF Spec

\* Whoever grows a shared table or memory, every instance keeps finding it
\* within what its own module declared, its entries of the declared kind, and
\* no pool outgrows the ceilings of ResourceLimits (table_import_matches,
\* memory_grow, table.grow, Store::instantiate).
THEOREM AlwaysLimitsHold == Spec => []LimitsHold
<1>1. LimitsInv => LimitsHold
  BY LimitsFollow
<1> QED BY <1>1, LimitsStay, PTL

-----------------------------------------------------------------------------
(* One owner for each slot.                                                *)

\* The indices of an instance that define a slot of their own: not the imports,
\* but for the globals that the host supplies.
Owns(kind, x, k) == CASE kind = "tables"  -> k > Len(x.mod.impTables)
                      [] kind = "mems"    -> k > Len(x.mod.impMems)
                      [] kind = "tags"    -> k > Len(x.mod.impTags)
                      [] kind = "globals" -> OwnsGlobal(x.mod, x.imp, k)
                      [] OTHER            -> k > 0

\* Index k of an instance defines slot s.
Defines(kind, x, k, s) == k \in DOMAIN x.maps[kind] /\ Owns(kind, x, k) /\ x.maps[kind][k] = s

\* Each slot up to size is defined, and by one index of one instance only.
Partitioned(cd, kind, size) ==
  /\ \A s \in 1..size : \E i \in 1..Len(cd) : \E k : Defines(kind, cd[i], k, s)
  /\ \A i, j \in 1..Len(cd) : \A k, l, s :
       Defines(kind, cd[i], k, s) /\ Defines(kind, cd[j], l, s) => i = j /\ k = l

\* What an instance defines are the slots after a up to b.
Adds(kind, x, a, b) ==
  /\ \A s \in (a + 1)..b : \E k : Defines(kind, x, k, s)
  /\ \A k, s : Defines(kind, x, k, s) => s \in (a + 1)..b
  /\ \A k, l, s : Defines(kind, x, k, s) /\ Defines(kind, x, l, s) => k = l

\* No instance has a slot beyond those in use.
Inside(cd, kind, size) ==
  \A i \in 1..Len(cd) : \A k \in DOMAIN cd[i].maps[kind] : cd[i].maps[kind][k] \in 1..size

\* An instance that defines the slots after those in use leaves each with one
\* owner.
LEMMA PartitionGrows ==
  ASSUME NEW cd, NEW cd2, NEW n \in Nat, n = Len(cd), Len(cd2) = n + 1, Extended(cd, cd2),
         NEW kind, NEW a \in Nat, NEW b \in Nat, a <= b,
         Inside(cd, kind, a), Partitioned(cd, kind, a), Adds(kind, cd2[n + 1], a, b)
  PROVE  Partitioned(cd2, kind, b)
<1>1. \A i \in 1..(n + 1) : i = n + 1 \/ i \in 1..n
  OBVIOUS
<1>2. \A i \in 1..n : cd2[i] = cd[i] /\ i \in 1..(n + 1)
  BY DEF Extended
<1>3. \A i \in 1..n : \A k, s : Defines(kind, cd2[i], k, s) => Defines(kind, cd[i], k, s) /\ s \in 1..a
  BY <1>2 DEF Inside, Defines
<1>4. \A k, s : Defines(kind, cd2[n + 1], k, s) => s \notin 1..a
  <2>1. \A s \in (a + 1)..b : s \notin 1..a
    OBVIOUS
  <2> QED BY <2>1 DEF Adds
<1>5. ASSUME NEW s \in 1..b PROVE \E i \in 1..(n + 1) : \E k : Defines(kind, cd2[i], k, s)
  <2>1. CASE s \in 1..a
    <3>1. PICK i \in 1..n : \E k : Defines(kind, cd[i], k, s)
      BY <2>1 DEF Partitioned
    <3> QED BY <1>2, <3>1
  <2>2. CASE s \notin 1..a
    <3>1. s \in (a + 1)..b
      BY <2>2
    <3>2. \E k : Defines(kind, cd2[n + 1], k, s)
      BY <3>1 DEF Adds
    <3>3. n + 1 \in 1..(n + 1)
      OBVIOUS
    <3> QED BY <3>2, <3>3
  <2> QED BY <2>1, <2>2
<1>6. ASSUME NEW i \in 1..(n + 1), NEW j \in 1..(n + 1), NEW k, NEW l, NEW s,
             Defines(kind, cd2[i], k, s), Defines(kind, cd2[j], l, s)
      PROVE  i = j /\ k = l
  <2>1. CASE i \in 1..n /\ j \in 1..n
    <3>1. Defines(kind, cd[i], k, s) /\ Defines(kind, cd[j], l, s)
      BY <1>3, <1>6, <2>1
    <3> QED BY <2>1, <3>1 DEF Partitioned
  <2>2. CASE i = n + 1 /\ j = n + 1
    BY <1>6, <2>2 DEF Adds
  <2>3. CASE i = n + 1 /\ j \in 1..n
    BY <1>3, <1>4, <1>6, <2>3
  <2>4. CASE i \in 1..n /\ j = n + 1
    BY <1>3, <1>4, <1>6, <2>4
  <2> QED BY <1>1, <2>1, <2>2, <2>3, <2>4
<1> QED BY <1>5, <1>6 DEF Partitioned

\* Definitions that take the slots one after the other.
LEMMA DefinedInOrder ==
  ASSUME NEW kind, NEW x, NEW c \in Nat, NEW d \in Nat, NEW base \in Nat, NEW map, map = x.maps[kind],
         DOMAIN map = 1..(c + d), \A k \in 1..d : map[c + k] = base + k,
         \A k \in 1..(c + d) : Owns(kind, x, k) <=> k > c
  PROVE  Adds(kind, x, base, base + d)
<1>1. ASSUME NEW k, NEW s, Defines(kind, x, k, s)
      PROVE  k \in (c + 1)..(c + d) /\ s = base + (k - c)
  <2>1. k \in 1..(c + d) /\ k > c /\ map[k] = s
    BY <1>1 DEF Defines
  <2>2. k - c \in 1..d /\ c + (k - c) = k
    BY <2>1
  <2>3. map[k] = base + (k - c)
    BY <2>2
  <2> QED BY <2>1, <2>3
<1>2. ASSUME NEW s \in (base + 1)..(base + d) PROVE \E k : Defines(kind, x, k, s)
  <2>1. PICK e : e = s - base
    OBVIOUS
  <2>2. e \in 1..d /\ base + e = s /\ c + e \in 1..(c + d) /\ c + e > c
    BY <2>1
  <2>3. Defines(kind, x, c + e, s)
    BY <2>2 DEF Defines
  <2> QED BY <2>3
<1>3. \A k \in (c + 1)..(c + d) : base + (k - c) \in (base + 1)..(base + d)
  OBVIOUS
<1>4. \A k, l \in (c + 1)..(c + d) : base + (k - c) = base + (l - c) => k = l
  OBVIOUS
<1> QED BY <1>1, <1>2, <1>3, <1>4 DEF Adds

\* The host-supplied globals of a module are counted one by one.
LEMMA HostsCounted ==
  ASSUME NEW imp, NEW c \in Nat, NEW h \in 1..Cardinality(FromHost(imp, c))
  PROVE  \E g \in 1..c : imp.globals[g].store = Host /\ Cardinality(FromHost(imp, g)) = h
<1> DEFINE Count(n) == Cardinality(FromHost(imp, n))
<1>1. ASSUME NEW n \in Nat PROVE IsFiniteSet(FromHost(imp, n)) /\ Count(n) \in Nat
  <2>1. IsFiniteSet(1..n)
    BY FS_Interval
  <2>2. FromHost(imp, n) \in SUBSET (1..n)
    BY DEF FromHost
  <2> QED BY <2>1, <2>2, FS_Subset, FS_CardinalityType
<1>2. Count(0) = 0
  <2>1. FromHost(imp, 0) = {}
    BY DEF FromHost
  <2> QED BY <2>1, FS_EmptySet
<1>3. ASSUME NEW n \in Nat
      PROVE  IF imp.globals[n + 1].store = Host THEN Count(n + 1) = Count(n) + 1
             ELSE Count(n + 1) = Count(n)
  <2>1. \A g : g \in 1..(n + 1) <=> g \in 1..n \/ g = n + 1
    OBVIOUS
  <2>2. CASE imp.globals[n + 1].store = Host
    <3>1. FromHost(imp, n + 1) = FromHost(imp, n) \cup {n + 1}
      BY <2>1, <2>2 DEF FromHost
    <3>2. n + 1 \notin FromHost(imp, n)
      BY DEF FromHost
    <3> QED BY <1>1, <2>2, <3>1, <3>2, FS_AddElement
  <2>3. CASE imp.globals[n + 1].store # Host
    <3>1. FromHost(imp, n + 1) = FromHost(imp, n)
      BY <2>1, <2>3 DEF FromHost
    <3> QED BY <2>3, <3>1
  <2> QED BY <2>2, <2>3
<1> HIDE DEF Count
<1>4. PICK T : T = {n \in Nat : Count(n) >= h}
  OBVIOUS
<1>5. T \in SUBSET Nat /\ c \in T /\ h \in Nat /\ h >= 1
  BY <1>1, <1>4 DEF Count
<1>6. PICK g \in T : \A y \in T : g <= y
  <2>1. T # {}
    BY <1>5
  <2> QED BY <1>5, <2>1, LeastNumber
<1>7. g \in Nat /\ g # 0 /\ Count(g) >= h /\ g <= c
  BY <1>2, <1>4, <1>5, <1>6
<1>8. PICK p \in Nat : g = p + 1
  <2>1. g - 1 \in Nat /\ g = (g - 1) + 1
    BY <1>7
  <2> QED BY <2>1
<1>9. Count(p) < h
  <2>1. p \notin T
    BY <1>6, <1>8
  <2>2. Count(p) \in Nat
    BY <1>1
  <2> QED BY <1>4, <1>5, <2>1, <2>2
<1>10. imp.globals[g].store = Host /\ Count(g) = h
  BY <1>1, <1>3, <1>5, <1>7, <1>8, <1>9
<1> QED BY <1>7, <1>10 DEF Count

\* The index maps of the new instance cover its index spaces.
LEMMA NewMapLengths ==
  ASSUME LinkInv, Commit, NEW n, n = Len(code) + 1
  PROVE  /\ DOMAIN code'[n].maps.globals = 1..NumGlobals(job.mod)
         /\ DOMAIN code'[n].maps.mems = 1..NumMems(job.mod)
         /\ DOMAIN code'[n].maps.tables = 1..NumTables(job.mod)
         /\ DOMAIN code'[n].maps.tags = 1..NumTags(job.mod)
         /\ DOMAIN code'[n].maps.elems = 1..Len(job.mod.elems)
         /\ DOMAIN code'[n].maps.data = 1..Len(job.mod.data)
<1>1. TypeOK'
  BY CommitStep DEF LinkInv
<1>2. n \in Instances' /\ code'[n].mod = job.mod
  BY NewInstance
<1>3. PICK x : x = code'[n]
  OBVIOUS
<1>4. /\ Len(x.maps.globals) = NumGlobals(job.mod) /\ Len(x.maps.mems) = NumMems(job.mod)
      /\ Len(x.maps.tables) = NumTables(job.mod) /\ Len(x.maps.tags) = NumTags(job.mod)
      /\ Len(x.maps.elems) = Len(job.mod.elems) /\ Len(x.maps.data) = Len(job.mod.data)
  <2>1. MapsAreTotal(n)'
    BY <1>1, <1>2 DEF TypeOK
  <2> QED BY <1>2, <1>3, <2>1 DEF MapsAreTotal, MapInto
<1>5. x.maps \in IndexMaps
  <2>1. x \in Instance
    <3>1. code' \in Seq(Instance) /\ n \in 1..Len(code')
      BY <1>1, <1>2 DEF TypeOK, Instances
    <3> QED BY <1>3, <3>1
  <2> QED BY <2>1 DEF Instance
<1>6. /\ x.maps.globals \in Slots /\ x.maps.mems \in Slots /\ x.maps.tables \in Slots
      /\ x.maps.tags \in Slots /\ x.maps.elems \in Slots /\ x.maps.data \in Slots
  BY <1>5 DEF IndexMaps
<1>7. \A s \in Slots : DOMAIN s = 1..Len(s)
  BY DEF Slots
<1> QED BY <1>3, <1>4, <1>6, <1>7

\* Tags and data segments take fresh slots like the rest.
LEMMA NewTagSlots ==
  ASSUME LinkInv, Commit, NEW n, n = Len(code) + 1
  PROVE  \A k \in 1..Len(job.mod.tags) : code'[n].maps.tags[Len(job.mod.impTags) + k] = Len(tags) + k
<1>0. PICK m, imp : m = job.mod /\ imp = job.imp
  OBVIOUS
<1>1. PICK c \in Nat, d \in Nat, base \in Nat :
        c = Len(m.impTags) /\ d = Len(m.tags) /\ base = Len(tags)
  BY <1>0, Lengths
<1>2. PICK f : f = [k \in 1..c |-> code[SlotOf(imp.tags[k])].maps.tags[imp.tags[k].idx]]
  OBVIOUS
<1>3. PICK T : T = {f[i] : i \in 1..c}
  OBVIOUS
<1>4. f = [k \in 1..c |-> f[k]] /\ \A k \in 1..c : f[k] \in T
  BY <1>2, <1>3
<1>5. PICK map : map = code'[n].maps.tags
  OBVIOUS
<1>6. map = f \o Fresh(base, d)
  BY <1>0, <1>1, <1>2, <1>5, NewInstance DEF TagMap
<1>7. \A k \in 1..d : map[c + k] = base + k
  <2>1. f \in [1..c -> T]
    BY <1>4
  <2>2. Follows(f \o Fresh(base, d), c, base, d)
    BY <2>1, SecondPart
  <2> QED BY <1>6, <2>2 DEF Follows
<1> QED BY <1>0, <1>1, <1>5, <1>7

LEMMA NewDataSlots ==
  ASSUME LinkInv, Commit, NEW n, n = Len(code) + 1
  PROVE  \A s \in 1..Len(job.mod.data) : code'[n].maps.data[s] = Len(dataDropped) + s
<1>1. code \in Seq(Instance) /\ Len(code) \in Nat
  BY DEF LinkInv, TypeOK
<1>2. PICK maps : maps = [globals |-> GlobalMap(job.mod, job.imp), mems |-> MemMap(job.mod, job.imp),
                          tables |-> TableMap(job.mod, job.imp), tags |-> TagMap(job.mod, job.imp),
                          elems |-> Fresh(Len(elemVals), Len(job.mod.elems)),
                          data |-> Fresh(Len(dataDropped), Len(job.mod.data))]
  OBVIOUS
<1>3. PICK x : x = [mod |-> job.mod, imp |-> job.imp, imports |-> Targets(job.imp), maps |-> maps]
  OBVIOUS
<1>4. code' = Append(code, x)
  BY <1>2, <1>3 DEF Commit
<1>5. code'[n] = x
  BY <1>1, <1>4
<1>6. code'[n].maps.data = Fresh(Len(dataDropped), Len(job.mod.data))
  BY <1>2, <1>3, <1>5
<1> QED BY <1>6 DEF Fresh

\* Each pool: the new instance defines the slots that were added to it.
LEMMA MemsAdded ==
  ASSUME LinkInv, Commit, NEW n, n = Len(code) + 1
  PROVE  Adds("mems", code'[n], Len(mems), Len(mems'))
<1>1. PICK c \in Nat, d \in Nat, base \in Nat :
        c = Len(job.mod.impMems) /\ d = Len(job.mod.mems) /\ base = Len(mems)
  BY Lengths
<1>2. PICK x, map : x = code'[n] /\ map = x.maps["mems"]
  OBVIOUS
<1>3. DOMAIN map = 1..(c + d)
  BY <1>1, <1>2, NewMapLengths DEF NumMems
<1>4. \A k \in 1..d : map[c + k] = base + k
  BY <1>1, <1>2, NewMemSlots
<1>5. \A k \in 1..(c + d) : Owns("mems", x, k) <=> k > c
  <2>1. x.mod = job.mod
    BY <1>2, NewInstance
  <2> QED BY <1>1, <2>1 DEF Owns
<1>6. Adds("mems", x, base, base + d)
  BY <1>2, <1>3, <1>4, <1>5, DefinedInOrder
<1>7. Len(mems') = base + d
  BY <1>1, PoolsCommitted
<1> QED BY <1>1, <1>2, <1>6, <1>7

LEMMA TablesAdded ==
  ASSUME LinkInv, Commit, NEW n, n = Len(code) + 1
  PROVE  Adds("tables", code'[n], Len(tables), Len(tables'))
<1>1. PICK c \in Nat, d \in Nat, base \in Nat :
        c = Len(job.mod.impTables) /\ d = Len(job.mod.tables) /\ base = Len(tables)
  BY Lengths
<1>2. PICK x, map : x = code'[n] /\ map = x.maps["tables"]
  OBVIOUS
<1>3. DOMAIN map = 1..(c + d)
  BY <1>1, <1>2, NewMapLengths DEF NumTables
<1>4. \A k \in 1..d : map[c + k] = base + k
  BY <1>1, <1>2, NewTableSlots
<1>5. \A k \in 1..(c + d) : Owns("tables", x, k) <=> k > c
  <2>1. x.mod = job.mod
    BY <1>2, NewInstance
  <2> QED BY <1>1, <2>1 DEF Owns
<1>6. Adds("tables", x, base, base + d)
  BY <1>2, <1>3, <1>4, <1>5, DefinedInOrder
<1>7. Len(tables') = base + d
  BY <1>1, PoolsCommitted
<1> QED BY <1>1, <1>2, <1>6, <1>7

LEMMA TagsAdded ==
  ASSUME LinkInv, Commit, NEW n, n = Len(code) + 1
  PROVE  Adds("tags", code'[n], Len(tags), Len(tags'))
<1>1. PICK c \in Nat, d \in Nat, base \in Nat :
        c = Len(job.mod.impTags) /\ d = Len(job.mod.tags) /\ base = Len(tags)
  BY Lengths
<1>2. PICK x, map : x = code'[n] /\ map = x.maps["tags"]
  OBVIOUS
<1>3. DOMAIN map = 1..(c + d)
  BY <1>1, <1>2, NewMapLengths DEF NumTags
<1>4. \A k \in 1..d : map[c + k] = base + k
  BY <1>1, <1>2, NewTagSlots
<1>5. \A k \in 1..(c + d) : Owns("tags", x, k) <=> k > c
  <2>1. x.mod = job.mod
    BY <1>2, NewInstance
  <2> QED BY <1>1, <2>1 DEF Owns
<1>6. Adds("tags", x, base, base + d)
  BY <1>2, <1>3, <1>4, <1>5, DefinedInOrder
<1>7. Len(tags') = base + d
  BY <1>1, PoolsCommitted
<1> QED BY <1>1, <1>2, <1>6, <1>7

LEMMA ElemsAdded ==
  ASSUME LinkInv, Commit, NEW n, n = Len(code) + 1
  PROVE  Adds("elems", code'[n], Len(elemVals), Len(elemVals'))
<1>1. PICK c \in Nat, d \in Nat, base \in Nat :
        c = 0 /\ d = Len(job.mod.elems) /\ base = Len(elemVals)
  BY Lengths
<1>2. PICK x, map : x = code'[n] /\ map = x.maps["elems"]
  OBVIOUS
<1>3. DOMAIN map = 1..(c + d)
  BY <1>1, <1>2, NewMapLengths
<1>4. \A k \in 1..d : map[c + k] = base + k
  <2>1. PICK m : m = job.mod
    OBVIOUS
  <2>2. \A k \in 1..d : map[k] = base + k
    BY <1>1, <1>2, <2>1, NewElemSlots
  <2> QED BY <1>1, <2>2
<1>5. \A k \in 1..(c + d) : Owns("elems", x, k) <=> k > c
  BY <1>1 DEF Owns
<1>6. Adds("elems", x, base, base + d)
  BY <1>2, <1>3, <1>4, <1>5, DefinedInOrder
<1>7. Len(elemVals') = base + d
  BY <1>1, PoolsCommitted
<1> QED BY <1>1, <1>2, <1>6, <1>7

LEMMA DataAdded ==
  ASSUME LinkInv, Commit, NEW n, n = Len(code) + 1
  PROVE  Adds("data", code'[n], Len(dataDropped), Len(dataDropped'))
<1>1. PICK c \in Nat, d \in Nat, base \in Nat :
        c = 0 /\ d = Len(job.mod.data) /\ base = Len(dataDropped)
  BY Lengths
<1>2. PICK x, map : x = code'[n] /\ map = x.maps["data"]
  OBVIOUS
<1>3. DOMAIN map = 1..(c + d)
  BY <1>1, <1>2, NewMapLengths
<1>4. \A k \in 1..d : map[c + k] = base + k
  <2>1. PICK m : m = job.mod
    OBVIOUS
  <2>2. \A k \in 1..d : map[k] = base + k
    BY <1>1, <1>2, <2>1, NewDataSlots
  <2> QED BY <1>1, <2>2
<1>5. \A k \in 1..(c + d) : Owns("data", x, k) <=> k > c
  BY <1>1 DEF Owns
<1>6. Adds("data", x, base, base + d)
  BY <1>2, <1>3, <1>4, <1>5, DefinedInOrder
<1>7. Len(dataDropped') = base + d
  BY <1>1, PoolsCommitted
<1> QED BY <1>1, <1>2, <1>6, <1>7

LEMMA GlobalSlotsAdded ==
  ASSUME LinkInv, Commit, NEW n, n = Len(code) + 1
  PROVE  Adds("globals", code'[n], Len(globals), Len(globals'))
<1>1. PICK c \in Nat, d \in Nat, l \in Nat, h \in Nat :
        c = Len(job.mod.impGlobals) /\ d = Len(job.mod.globals) /\ l = Len(globals) /\ h = HostShare
  BY Lengths, HostShareIsNumber
<1>2. PICK m, imp : m = job.mod /\ imp = job.imp
  OBVIOUS
<1>3. PICK x, map : x = code'[n] /\ map = x.maps["globals"]
  OBVIOUS
<1>4. Len(globals') = l + d + h
  BY <1>1, PoolsCommitted
<1>5. DOMAIN map = 1..(c + d)
  BY <1>1, <1>3, NewMapLengths DEF NumGlobals
<1>6. NumGlobals(job.mod) = c + d
  BY <1>1 DEF NumGlobals
<1>7. \A k : Owns("globals", x, k) <=> OwnsGlobal(m, imp, k)
  <2>1. x.mod = m /\ x.imp = imp
    BY <1>2, <1>3, NewInstance
  <2> QED BY <2>1 DEF Owns
<1>8. \A i \in 1..c : imp.globals[i].store = Host => map[i] = l + d + Cardinality(FromHost(imp, i))
  BY <1>1, <1>2, <1>3, NewGlobalSlots
<1>9. \A i \in 1..d : map[c + i] = l + i
  BY <1>1, <1>2, <1>3, NewGlobalSlots
<1>10. h = Cardinality(FromHost(imp, c))
  BY <1>1, <1>2 DEF HostShare
<1>11. ASSUME NEW s \in (l + 1)..(l + d + h)
       PROVE  \E k : Defines("globals", x, k, s)
  <2>1. CASE s <= l + d
    <3>1. PICK e \in 1..d : s = l + e
      <4>1. s - l \in 1..d /\ s = l + (s - l)
        BY <2>1
      <4> QED BY <4>1
    <3>2. c + e \in 1..(c + d) /\ c + e > c
      OBVIOUS
    <3>3. OwnsGlobal(m, imp, c + e)
      BY <1>1, <1>2, <3>2 DEF OwnsGlobal
    <3>4. Defines("globals", x, c + e, s)
      BY <1>3, <1>5, <1>7, <1>9, <3>1, <3>2, <3>3 DEF Defines
    <3> QED BY <3>4
  <2>2. CASE ~(s <= l + d)
    <3>1. PICK e \in 1..h : s = l + d + e
      <4>1. s - (l + d) \in 1..h /\ s = l + d + (s - (l + d))
        BY <2>2
      <4> QED BY <4>1
    <3>2. PICK g \in 1..c : imp.globals[g].store = Host /\ Cardinality(FromHost(imp, g)) = e
      BY <1>10, <3>1, HostsCounted
    <3>3. g \in 1..(c + d)
      OBVIOUS
    <3>4. OwnsGlobal(m, imp, g)
      BY <3>2 DEF OwnsGlobal
    <3>5. Defines("globals", x, g, s)
      BY <1>3, <1>5, <1>7, <1>8, <3>1, <3>2, <3>3, <3>4 DEF Defines
    <3> QED BY <3>5
  <2> QED BY <2>1, <2>2
<1>12. ASSUME NEW k, NEW s, Defines("globals", x, k, s)
       PROVE  k \in 1..(c + d) /\ OwnsGlobal(m, imp, k) /\ map[k] = s /\ s \in (l + 1)..(l + d + h)
  <2>1. k \in 1..(c + d) /\ OwnsGlobal(m, imp, k) /\ map[k] = s
    BY <1>3, <1>5, <1>7, <1>12 DEF Defines
  <2>2. map[k] \in Nat /\ map[k] > l
    BY <1>1, <1>2, <1>3, <1>6, <2>1, OwnGlobalSlot
  <2>3. CASE k <= c
    <3>1. k \in 1..c
      BY <2>1, <2>3
    <3>2. imp.globals[k].store = Host
      BY <1>1, <1>2, <2>1, <3>1 DEF OwnsGlobal
    <3>3. /\ Cardinality(FromHost(imp, k)) \in Nat
          /\ Cardinality(FromHost(imp, k)) <= Cardinality(FromHost(imp, c))
      BY <3>1, HostCount
    <3>4. map[k] = l + d + Cardinality(FromHost(imp, k))
      BY <1>8, <3>1, <3>2
    <3> QED BY <1>10, <2>1, <2>2, <3>3, <3>4
  <2>4. CASE ~(k <= c)
    <3>1. k - c \in 1..d /\ c + (k - c) = k
      BY <2>1, <2>4
    <3>2. map[k] = l + (k - c)
      BY <1>9, <3>1
    <3> QED BY <2>1, <2>2, <3>1, <3>2
  <2> QED BY <2>3, <2>4
<1>13. ASSUME NEW k, NEW i, NEW s, Defines("globals", x, k, s), Defines("globals", x, i, s)
       PROVE  k = i
  <2>1. /\ k \in 1..(c + d) /\ OwnsGlobal(m, imp, k) /\ map[k] = s
        /\ i \in 1..(c + d) /\ OwnsGlobal(m, imp, i) /\ map[i] = s
    BY <1>12, <1>13
  <2>2. ~(k < i)
    BY <1>2, <1>3, <1>6, <2>1, OwnSlotsDiffer
  <2>3. ~(i < k)
    BY <1>2, <1>3, <1>6, <2>1, OwnSlotsDiffer
  <2> QED BY <2>1, <2>2, <2>3
<1>14. Adds("globals", x, l, l + d + h)
  BY <1>11, <1>12, <1>13 DEF Adds
<1> QED BY <1>1, <1>3, <1>4, <1>14

\* A slot of an instance is a slot of the store.
LEMMA SlotsInside ==
  ASSUME LinkInv
  PROVE  /\ Inside(code, "globals", Len(globals)) /\ Inside(code, "mems", Len(mems))
         /\ Inside(code, "tables", Len(tables)) /\ Inside(code, "tags", Len(tags))
         /\ Inside(code, "elems", Len(elemVals)) /\ Inside(code, "data", Len(dataDropped))
<1>1. ASSUME NEW i \in 1..Len(code), NEW kind \in {"globals", "mems", "tables", "tags", "elems", "data"},
             NEW pool, MapInto(code[i].maps[kind], Len(code[i].maps[kind]), pool), Len(pool) \in Nat
      PROVE  \A k \in DOMAIN code[i].maps[kind] : code[i].maps[kind][k] \in 1..Len(pool)
  <2>1. PICK map : map = code[i].maps[kind]
    OBVIOUS
  <2>2. map \in Slots
    <3>1. code[i] \in Instance
      BY DEF LinkInv, TypeOK
    <3>2. code[i].maps \in IndexMaps
      BY <3>1 DEF Instance
    <3> QED BY <2>1, <3>2 DEF IndexMaps
  <2>3. \A k \in DOMAIN map : map[k] \in Nat /\ map[k] # 0 /\ map[k] <= Len(pool)
    BY <1>1, <2>1, <2>2 DEF Slots, MapInto
  <2> QED BY <1>1, <2>1, <2>3
<1>2. /\ Len(globals) \in Nat /\ Len(mems) \in Nat /\ Len(tables) \in Nat
      /\ Len(tags) \in Nat /\ Len(elemVals) \in Nat /\ Len(dataDropped) \in Nat
  BY DEF LinkInv, TypeOK, PoolShapes
<1>3. ASSUME NEW i \in 1..Len(code) PROVE MapsAreTotal(i)
  BY DEF LinkInv, TypeOK, Instances
<1>4. ASSUME NEW i \in 1..Len(code)
      PROVE  /\ MapInto(code[i].maps.globals, Len(code[i].maps.globals), globals)
             /\ MapInto(code[i].maps.mems, Len(code[i].maps.mems), mems)
             /\ MapInto(code[i].maps.tables, Len(code[i].maps.tables), tables)
             /\ MapInto(code[i].maps.tags, Len(code[i].maps.tags), tags)
             /\ MapInto(code[i].maps.elems, Len(code[i].maps.elems), elemVals)
             /\ MapInto(code[i].maps.data, Len(code[i].maps.data), dataDropped)
  BY <1>3 DEF MapsAreTotal, MapInto
<1>5. Inside(code, "globals", Len(globals))
  BY <1>1, <1>2, <1>4 DEF Inside
<1>6. Inside(code, "mems", Len(mems))
  BY <1>1, <1>2, <1>4 DEF Inside
<1>7. Inside(code, "tables", Len(tables))
  BY <1>1, <1>2, <1>4 DEF Inside
<1>8. Inside(code, "tags", Len(tags))
  BY <1>1, <1>2, <1>4 DEF Inside
<1>9. Inside(code, "elems", Len(elemVals))
  BY <1>1, <1>2, <1>4 DEF Inside
<1>10. Inside(code, "data", Len(dataDropped))
  BY <1>1, <1>2, <1>4 DEF Inside
<1> QED BY <1>5, <1>6, <1>7, <1>8, <1>9, <1>10

\* Only an instance that joins brings slots.
LEMMA PoolsOnlyChange ==
  ASSUME [Next]_vars, ~Commit
  PROVE  /\ DOMAIN globals' = DOMAIN globals /\ DOMAIN mems' = DOMAIN mems
         /\ DOMAIN tables' = DOMAIN tables /\ DOMAIN tags' = DOMAIN tags
         /\ DOMAIN elemVals' = DOMAIN elemVals /\ DOMAIN dataDropped' = DOMAIN dataDropped
<1>1. CASE UNCHANGED vars
  BY <1>1 DEF vars, pools
<1>2. CASE Instantiate
  <2>1. CASE BeginInstantiate
    BY <2>1 DEF BeginInstantiate, pools
  <2>2. CASE EvalGlobal
    BY <2>2 DEF EvalGlobal, pools
  <2>3. CASE LinkResources
    BY <2>3 DEF LinkResources, pools
  <2>4. CASE EvalTable
    BY <2>4 DEF EvalTable, pools
  <2>5. CASE ApplyElem
    BY <2>5 DEF ApplyElem
  <2>6. CASE ApplyData
    BY <2>6 DEF ApplyData, pools
  <2>7. CASE Start
    BY <2>7 DEF Start, pools
  <2> QED BY <1>2, <2>1, <2>2, <2>3, <2>4, <2>5, <2>6, <2>7 DEF Instantiate
<1>3. CASE Control
  BY <1>3 DEF Control, Invoke, Call, CallIndirect, CallTo, Return, TrapOut, pools
<1>4. CASE Execute
  <2>1. CASE RefFunc \/ StructNew \/ GlobalGet \/ TableGet
    BY <2>1 DEF RefFunc, StructNew, GlobalGet, TableGet, pools
  <2>2. CASE GlobalSet
    BY <2>2 DEF GlobalSet
  <2>8. \A x, es : SetEntries(x, es) => DOMAIN tables' = DOMAIN tables
    BY DEF SetEntries
  <2>9. TableStep => /\ DOMAIN globals' = DOMAIN globals /\ DOMAIN mems' = DOMAIN mems
                     /\ DOMAIN tags' = DOMAIN tags /\ DOMAIN elemVals' = DOMAIN elemVals
                     /\ DOMAIN dataDropped' = DOMAIN dataDropped
    BY DEF TableStep
  <2>3. CASE TableSet \/ TableGrow \/ TableFill
    BY <2>3, <2>8, <2>9 DEF TableSet, TableGrow, TableFill
  <2>4. CASE TableCopy \/ TableInit
    BY <2>4, <2>8, <2>9 DEF TableCopy, TableInit
  <2>5. CASE ElemDrop
    BY <2>5 DEF ElemDrop
  <2>6. CASE DataDrop
    BY <2>6 DEF DataDrop
  <2>7. CASE MemoryGrow
    BY <2>7 DEF MemoryGrow
  <2> QED BY <1>4, <2>1, <2>2, <2>3, <2>4, <2>5, <2>6, <2>7 DEF Execute
<1> QED BY <1>1, <1>2, <1>3, <1>4 DEF Next

LEMMA PoolSizesStay ==
  ASSUME LinkInv, [Next]_vars, ~Commit
  PROVE  /\ Len(globals') = Len(globals) /\ Len(mems') = Len(mems)
         /\ Len(tables') = Len(tables) /\ Len(tags') = Len(tags)
         /\ Len(elemVals') = Len(elemVals) /\ Len(dataDropped') = Len(dataDropped)
<1>1. PoolShapes /\ PoolShapes'
  BY NextKeepsOrder DEF LinkInv, TypeOK
<1>2. ASSUME NEW S, NEW T, NEW q \in Seq(S), NEW r \in Seq(T), DOMAIN q = DOMAIN r
      PROVE  Len(q) = Len(r)
  BY <1>2
<1>3. Len(globals') = Len(globals)
  BY <1>1, <1>2, PoolsOnlyChange DEF PoolShapes
<1>4. Len(mems') = Len(mems)
  BY <1>1, <1>2, PoolsOnlyChange DEF PoolShapes
<1>5. Len(tables') = Len(tables)
  BY <1>1, <1>2, PoolsOnlyChange DEF PoolShapes
<1>6. Len(tags') = Len(tags)
  BY <1>1, <1>2, PoolsOnlyChange DEF PoolShapes
<1>7. Len(elemVals') = Len(elemVals)
  BY <1>1, <1>2, PoolsOnlyChange DEF PoolShapes
<1>8. Len(dataDropped') = Len(dataDropped)
  BY <1>1, <1>2, PoolsOnlyChange DEF PoolShapes
<1> QED BY <1>3, <1>4, <1>5, <1>6, <1>7, <1>8

\* The inductive invariant: the slots of every pool are partitioned among the
\* instances of the store.
OwnersInv ==
  /\ LinkInv
  /\ Partitioned(code, "globals", Len(globals)) /\ Partitioned(code, "mems", Len(mems))
  /\ Partitioned(code, "tables", Len(tables)) /\ Partitioned(code, "tags", Len(tags))
  /\ Partitioned(code, "elems", Len(elemVals)) /\ Partitioned(code, "data", Len(dataDropped))

LEMMA CommitPartitions ==
  ASSUME OwnersInv, Commit
  PROVE  OwnersInv'
<1>1. LinkInv
  BY DEF OwnersInv
<1>2. LinkInv'
  BY <1>1, NextKeepsOrder DEF Next, Instantiate
<1>3. PICK n \in Nat : n = Len(code)
  BY <1>1 DEF LinkInv, TypeOK
<1>4. Extended(code, code') /\ Len(code') = n + 1
  BY <1>1, <1>3, ExtendedByCommit
<1>5. PICK cd : cd = code'
  OBVIOUS
<1>6. ASSUME NEW kind, NEW a \in Nat, NEW b \in Nat, a <= b,
             Inside(code, kind, a), Partitioned(code, kind, a), Adds(kind, cd[n + 1], a, b)
      PROVE  Partitioned(cd, kind, b)
  <2>1. Extended(code, cd) /\ Len(cd) = n + 1
    BY <1>4, <1>5
  <2> QED BY <1>3, <1>6, <2>1, PartitionGrows
<1>7. /\ Len(globals) \in Nat /\ Len(mems) \in Nat /\ Len(tables) \in Nat
      /\ Len(tags) \in Nat /\ Len(elemVals) \in Nat /\ Len(dataDropped) \in Nat
  BY <1>1 DEF LinkInv, TypeOK, PoolShapes
<1>8. /\ Len(globals') \in Nat /\ Len(mems') \in Nat /\ Len(tables') \in Nat
      /\ Len(tags') \in Nat /\ Len(elemVals') \in Nat /\ Len(dataDropped') \in Nat
  BY <1>2 DEF LinkInv, TypeOK, PoolShapes
<1>9. /\ Len(globals) <= Len(globals') /\ Len(mems) <= Len(mems') /\ Len(tables) <= Len(tables')
      /\ Len(tags) <= Len(tags') /\ Len(elemVals) <= Len(elemVals') /\ Len(dataDropped) <= Len(dataDropped')
  <2>1. /\ Len(job.mod.globals) \in Nat /\ Len(job.mod.mems) \in Nat /\ Len(job.mod.tables) \in Nat
        /\ Len(job.mod.tags) \in Nat /\ Len(job.mod.elems) \in Nat /\ Len(job.mod.data) \in Nat
    BY <1>1, Lengths
  <2>2. HostShare \in Nat
    BY <1>1, HostShareIsNumber
  <2>3. /\ Len(globals') = Len(globals) + Len(job.mod.globals) + HostShare
        /\ Len(mems') = Len(mems) + Len(job.mod.mems)
        /\ Len(tables') = Len(tables) + Len(job.mod.tables)
        /\ Len(tags') = Len(tags) + Len(job.mod.tags)
        /\ Len(elemVals') = Len(elemVals) + Len(job.mod.elems)
        /\ Len(dataDropped') = Len(dataDropped) + Len(job.mod.data)
    BY <1>1, PoolsCommitted
  <2>4. \A a, b, x \in Nat : x = a + b => a <= x
    OBVIOUS
  <2>5. \A a, b, c, x \in Nat : x = a + b + c => a <= x
    OBVIOUS
  <2>6. Len(globals) <= Len(globals')
    BY <1>7, <1>8, <2>1, <2>2, <2>3, <2>5
  <2>7. /\ Len(mems) <= Len(mems') /\ Len(tables) <= Len(tables') /\ Len(tags) <= Len(tags')
    BY <1>7, <1>8, <2>1, <2>3, <2>4
  <2>8. Len(elemVals) <= Len(elemVals') /\ Len(dataDropped) <= Len(dataDropped')
    BY <1>7, <1>8, <2>1, <2>3, <2>4
  <2> QED BY <2>6, <2>7, <2>8
<1>10. Partitioned(cd, "globals", Len(globals'))
  <2>1. Adds("globals", cd[n + 1], Len(globals), Len(globals'))
    BY <1>1, <1>3, <1>5, GlobalSlotsAdded
  <2> QED BY <1>1, <1>6, <1>7, <1>8, <1>9, <2>1, SlotsInside DEF OwnersInv
<1>11. Partitioned(cd, "mems", Len(mems'))
  <2>1. Adds("mems", cd[n + 1], Len(mems), Len(mems'))
    BY <1>1, <1>3, <1>5, MemsAdded
  <2> QED BY <1>1, <1>6, <1>7, <1>8, <1>9, <2>1, SlotsInside DEF OwnersInv
<1>12. Partitioned(cd, "tables", Len(tables'))
  <2>1. Adds("tables", cd[n + 1], Len(tables), Len(tables'))
    BY <1>1, <1>3, <1>5, TablesAdded
  <2> QED BY <1>1, <1>6, <1>7, <1>8, <1>9, <2>1, SlotsInside DEF OwnersInv
<1>13. Partitioned(cd, "tags", Len(tags'))
  <2>1. Adds("tags", cd[n + 1], Len(tags), Len(tags'))
    BY <1>1, <1>3, <1>5, TagsAdded
  <2> QED BY <1>1, <1>6, <1>7, <1>8, <1>9, <2>1, SlotsInside DEF OwnersInv
<1>14. Partitioned(cd, "elems", Len(elemVals'))
  <2>1. Adds("elems", cd[n + 1], Len(elemVals), Len(elemVals'))
    BY <1>1, <1>3, <1>5, ElemsAdded
  <2> QED BY <1>1, <1>6, <1>7, <1>8, <1>9, <2>1, SlotsInside DEF OwnersInv
<1>15. Partitioned(cd, "data", Len(dataDropped'))
  <2>1. Adds("data", cd[n + 1], Len(dataDropped), Len(dataDropped'))
    BY <1>1, <1>3, <1>5, DataAdded
  <2> QED BY <1>1, <1>6, <1>7, <1>8, <1>9, <2>1, SlotsInside DEF OwnersInv
<1> QED BY <1>2, <1>5, <1>10, <1>11, <1>12, <1>13, <1>14, <1>15 DEF OwnersInv

LEMMA NextPartitions ==
  ASSUME OwnersInv, [Next]_vars
  PROVE  OwnersInv'
<1>1. CASE Commit
  BY <1>1, CommitPartitions
<1>2. CASE ~Commit
  <2>1. LinkInv
    BY DEF OwnersInv
  <2>2. LinkInv'
    BY <2>1, NextKeepsOrder
  <2>3. code' = code
    BY <1>2, CodeStays
  <2>4. /\ Len(globals') = Len(globals) /\ Len(mems') = Len(mems)
        /\ Len(tables') = Len(tables) /\ Len(tags') = Len(tags)
        /\ Len(elemVals') = Len(elemVals) /\ Len(dataDropped') = Len(dataDropped)
    BY <1>2, <2>1, PoolSizesStay
  <2> QED BY <2>2, <2>3, <2>4 DEF OwnersInv
<1> QED BY <1>1, <1>2

LEMMA InitIsPartitioned ==
  ASSUME Init
  PROVE  OwnersInv
<1>1. LinkInv
  BY InitIsAsked DEF AskedInv
<1>2. ASSUME NEW kind PROVE Partitioned(<<>>, kind, 0)
  BY DEF Partitioned
<1>3. /\ code = <<>> /\ Len(globals) = 0 /\ Len(mems) = 0 /\ Len(tables) = 0
      /\ Len(tags) = 0 /\ Len(elemVals) = 0 /\ Len(dataDropped) = 0
  BY DEF Init
<1> QED BY <1>1, <1>2, <1>3 DEF OwnersInv

\* The definitions of a kind, as pairs of an instance and an index of it.
OwnDefinitions(kind) ==
  UNION {{<<i, k>> : k \in {j \in DOMAIN code[i].maps[kind] : Owns(kind, code[i], j)}} : i \in Instances}
OneEach(kind, size, D) == \A s \in 1..size : Cardinality({d \in D : code[d[1]].maps[kind][d[2]] = s}) = 1

LEMMA OneDefinition ==
  ASSUME NEW kind, NEW size, Partitioned(code, kind, size)
  PROVE  OneEach(kind, size, OwnDefinitions(kind))
<1> SUFFICES ASSUME NEW s \in 1..size
             PROVE  Cardinality({d \in OwnDefinitions(kind) : code[d[1]].maps[kind][d[2]] = s}) = 1
  BY DEF OneEach
<1> PICK D : D = OwnDefinitions(kind)
  OBVIOUS
<1>1. PICK i \in 1..Len(code) : \E k : Defines(kind, code[i], k, s)
  BY DEF Partitioned
<1>2. PICK k : Defines(kind, code[i], k, s)
  BY <1>1
<1>3. PICK E : E = {d \in D : code[d[1]].maps[kind][d[2]] = s}
  OBVIOUS
<1>4. <<i, k>> \in E
  BY <1>2, <1>3 DEF Defines, Instances, OwnDefinitions
<1>5. ASSUME NEW d \in E PROVE d = <<i, k>>
  <2>1. PICK j \in Instances : \E l \in DOMAIN code[j].maps[kind] : Owns(kind, code[j], l) /\ d = <<j, l>>
    BY <1>3, <1>5 DEF OwnDefinitions
  <2>2. PICK l \in DOMAIN code[j].maps[kind] : Owns(kind, code[j], l) /\ d = <<j, l>>
    BY <2>1
  <2>3. code[j].maps[kind][l] = s
    BY <1>3, <1>5, <2>2
  <2>4. Defines(kind, code[j], l, s) /\ j \in 1..Len(code)
    BY <2>2, <2>3 DEF Defines, Instances
  <2>5. i = j /\ k = l
    BY <1>2, <2>4 DEF Partitioned
  <2> QED BY <2>2, <2>5
<1>6. E = {<<i, k>>}
  BY <1>4, <1>5
<1> QED BY <1>3, <1>6, FS_Singleton

\* Which definitions of an instance SlotsHaveOneOwner counts.
LEMMA OwnersAreCounted ==
  ASSUME LinkInv, NEW i \in Instances
  PROVE  LET m == code[i].mod
             imp == code[i].imp
             maps == code[i].maps
         IN  /\ \A j \in DOMAIN maps.tables : j \in After(Len(m.impTables)) <=> Owns("tables", code[i], j)
             /\ \A j \in DOMAIN maps.mems : j \in After(Len(m.impMems)) <=> Owns("mems", code[i], j)
             /\ \A j \in DOMAIN maps.tags : j \in After(Len(m.impTags)) <=> Owns("tags", code[i], j)
             /\ \A j \in DOMAIN maps.elems : j \in After(0) <=> Owns("elems", code[i], j)
             /\ \A j \in DOMAIN maps.data : j \in After(0) <=> Owns("data", code[i], j)
             /\ \A j \in DOMAIN maps.globals :
                  j \in After(Len(m.impGlobals)) \cup FromHost(imp, Len(m.impGlobals))
                    <=> Owns("globals", code[i], j)
<1> PICK m, imp, maps, x : m = code[i].mod /\ imp = code[i].imp /\ maps = code[i].maps /\ x = code[i]
  OBVIOUS
<1>1. x \in Instance /\ m \in Modules
  BY MapsLead
<1>2. maps \in IndexMaps
  BY <1>1 DEF Instance
<1>3. ASSUME NEW kind \in {"globals", "mems", "tables", "tags", "elems", "data"}, NEW j \in DOMAIN maps[kind]
      PROVE  j \in Nat /\ j >= 1
  <2>1. PICK map : map = maps[kind]
    OBVIOUS
  <2>2. map \in Slots
    BY <1>2, <2>1 DEF IndexMaps
  <2> QED BY <2>1, <2>2 DEF Slots
<1>4. Len(m.impGlobals) \in Nat
  <2>1. ModuleShape(m)
    BY <1>1, ModulesAreValid
  <2> QED BY <2>1 DEF ModuleShape
<1>5. \A n, j \in Nat : j \in After(n) <=> j > n
  BY DEF After
<1>6. \A j \in DOMAIN maps.tables : j \in After(Len(m.impTables)) <=> Owns("tables", x, j)
  BY <1>3 DEF After, Owns
<1>7. \A j \in DOMAIN maps.mems : j \in After(Len(m.impMems)) <=> Owns("mems", x, j)
  BY <1>3 DEF After, Owns
<1>8. \A j \in DOMAIN maps.tags : j \in After(Len(m.impTags)) <=> Owns("tags", x, j)
  BY <1>3 DEF After, Owns
<1>9. \A j \in DOMAIN maps.elems : j \in After(0) <=> Owns("elems", x, j)
  BY <1>3 DEF After, Owns
<1>10. \A j \in DOMAIN maps.data : j \in After(0) <=> Owns("data", x, j)
  BY <1>3 DEF After, Owns
<1>11. ASSUME NEW j \in DOMAIN maps.globals
       PROVE j \in After(Len(m.impGlobals)) \cup FromHost(imp, Len(m.impGlobals)) <=> Owns("globals", x, j)
  <2>1. PICK c \in Nat : c = Len(m.impGlobals)
    BY <1>4
  <2>2. j \in Nat /\ j >= 1
    BY <1>3
  <2>3. j \in After(c) <=> j > c
    BY <1>5, <2>2
  <2>4. j \in FromHost(imp, c) <=> j <= c /\ imp.globals[j].store = Host
    BY <2>2 DEF FromHost
  <2>5. Owns("globals", x, j) <=> j > c \/ imp.globals[j].store = Host
    BY <2>1 DEF Owns, OwnsGlobal
  <2> QED BY <2>1, <2>2, <2>3, <2>4, <2>5
<1> QED BY <1>6, <1>7, <1>8, <1>9, <1>10, <1>11

LEMMA PartitionsHaveOwners ==
  ASSUME OwnersInv
  PROVE  SlotsHaveOneOwner
<1>1. LinkInv
  BY DEF OwnersInv
<1>2. PoolIsPartitioned("tables", Len(tables), LAMBDA i : After(Len(code[i].mod.impTables)))
  <2>1. OneEach("tables", Len(tables), OwnDefinitions("tables"))
    BY OneDefinition DEF OwnersInv
  <2>2. \A i \in Instances : \A j \in DOMAIN code[i].maps.tables :
          j \in After(Len(code[i].mod.impTables)) <=> Owns("tables", code[i], j)
    BY <1>1, OwnersAreCounted
  <2>3. OwnDefinitions("tables") =
          UNION {{<<i, k>> : k \in {j \in DOMAIN code[i].maps["tables"] :
                                   j \in After(Len(code[i].mod.impTables))}} : i \in Instances}
    BY <2>2 DEF OwnDefinitions
  <2> QED BY <2>1, <2>3 DEF OneEach, PoolIsPartitioned, Definitions
<1>3. PoolIsPartitioned("mems", Len(mems), LAMBDA i : After(Len(code[i].mod.impMems)))
  <2>1. OneEach("mems", Len(mems), OwnDefinitions("mems"))
    BY OneDefinition DEF OwnersInv
  <2>2. \A i \in Instances : \A j \in DOMAIN code[i].maps.mems :
          j \in After(Len(code[i].mod.impMems)) <=> Owns("mems", code[i], j)
    BY <1>1, OwnersAreCounted
  <2>3. OwnDefinitions("mems") =
          UNION {{<<i, k>> : k \in {j \in DOMAIN code[i].maps["mems"] :
                                   j \in After(Len(code[i].mod.impMems))}} : i \in Instances}
    BY <2>2 DEF OwnDefinitions
  <2> QED BY <2>1, <2>3 DEF OneEach, PoolIsPartitioned, Definitions
<1>4. PoolIsPartitioned("tags", Len(tags), LAMBDA i : After(Len(code[i].mod.impTags)))
  <2>1. OneEach("tags", Len(tags), OwnDefinitions("tags"))
    BY OneDefinition DEF OwnersInv
  <2>2. \A i \in Instances : \A j \in DOMAIN code[i].maps.tags :
          j \in After(Len(code[i].mod.impTags)) <=> Owns("tags", code[i], j)
    BY <1>1, OwnersAreCounted
  <2>3. OwnDefinitions("tags") =
          UNION {{<<i, k>> : k \in {j \in DOMAIN code[i].maps["tags"] :
                                   j \in After(Len(code[i].mod.impTags))}} : i \in Instances}
    BY <2>2 DEF OwnDefinitions
  <2> QED BY <2>1, <2>3 DEF OneEach, PoolIsPartitioned, Definitions
<1>5. PoolIsPartitioned("elems", Len(elemVals), LAMBDA i : After(0))
  <2>1. OneEach("elems", Len(elemVals), OwnDefinitions("elems"))
    BY OneDefinition DEF OwnersInv
  <2>2. \A i \in Instances : \A j \in DOMAIN code[i].maps.elems :
          j \in After(0) <=> Owns("elems", code[i], j)
    BY <1>1, OwnersAreCounted
  <2>3. OwnDefinitions("elems") =
          UNION {{<<i, k>> : k \in {j \in DOMAIN code[i].maps["elems"] :
                                   j \in After(0)}} : i \in Instances}
    BY <2>2 DEF OwnDefinitions
  <2> QED BY <2>1, <2>3 DEF OneEach, PoolIsPartitioned, Definitions
<1>6. PoolIsPartitioned("data", Len(dataDropped), LAMBDA i : After(0))
  <2>1. OneEach("data", Len(dataDropped), OwnDefinitions("data"))
    BY OneDefinition DEF OwnersInv
  <2>2. \A i \in Instances : \A j \in DOMAIN code[i].maps.data :
          j \in After(0) <=> Owns("data", code[i], j)
    BY <1>1, OwnersAreCounted
  <2>3. OwnDefinitions("data") =
          UNION {{<<i, k>> : k \in {j \in DOMAIN code[i].maps["data"] :
                                   j \in After(0)}} : i \in Instances}
    BY <2>2 DEF OwnDefinitions
  <2> QED BY <2>1, <2>3 DEF OneEach, PoolIsPartitioned, Definitions
<1>7. PoolIsPartitioned("globals", Len(globals), LAMBDA i : 
       After(Len(code[i].mod.impGlobals)) \cup FromHost(code[i].imp, Len(code[i].mod.impGlobals)))
  <2>1. OneEach("globals", Len(globals), OwnDefinitions("globals"))
    BY OneDefinition DEF OwnersInv
  <2>2. \A i \in Instances : \A j \in DOMAIN code[i].maps.globals :
          j \in After(Len(code[i].mod.impGlobals)) \cup FromHost(code[i].imp, Len(code[i].mod.impGlobals)) <=> Owns("globals", code[i], j)
    BY <1>1, OwnersAreCounted
  <2>3. OwnDefinitions("globals") =
          UNION {{<<i, k>> : k \in {j \in DOMAIN code[i].maps["globals"] :
                                   j \in After(Len(code[i].mod.impGlobals)) \cup FromHost(code[i].imp, Len(code[i].mod.impGlobals))}} : i \in Instances}
    BY <2>2 DEF OwnDefinitions
  <2> QED BY <2>1, <2>3 DEF OneEach, PoolIsPartitioned, Definitions
<1> QED BY <1>2, <1>3, <1>4, <1>5, <1>6, <1>7 DEF SlotsHaveOneOwner

\* Every slot of the store is defined by one index of one instance, and what
\* an instance brings comes after what was there: the invariant behind slot
\* ownership (Store::instantiate, which maps imports onto the slots of others
\* and definitions onto fresh ones).
THEOREM OwnersStay == Spec => []OwnersInv
<1>1. Init => OwnersInv
  BY InitIsPartitioned
<1>2. OwnersInv /\ [Next]_vars => OwnersInv'
  BY NextPartitions
<1> QED BY <1>1, <1>2, PTL DEF Spec

\* No two definitions ever share a slot, of one instance or of two, a global
\* the host supplies included, and no slot of a pool is without the instance
\* that defined it, whatever imports, failures and drops came before
\* (Store::instantiate).
THEOREM AlwaysSlotsHaveOneOwner == Spec => []SlotsHaveOneOwner
<1>1. OwnersInv => SlotsHaveOneOwner
  BY PartitionsHaveOwners
<1> QED BY <1>1, OwnersStay, PTL
=============================================================================
