--------------------------- MODULE EmbeddingProofs ---------------------------
(***************************************************************************)
(* The safety properties of Embedding, proved for every set of validated   *)
(* modules and every bound.                                                *)
(*                                                                         *)
(* EmbedderInv is inductive.  Its parts say what the C interface relies on *)
(* without checking it: the number of a store is its place and its tag is  *)
(* that number modulo 2^32, what a handle was issued for is what its slot  *)
(* holds, links lead to instances of the same store, a store has one call  *)
(* at most, and the references to a callback's environment are as many as  *)
(* its count says.                                                         *)
(***************************************************************************)
EXTENDS Embedding, LinkerProofs

-----------------------------------------------------------------------------
(* Types.                                                                  *)

Names == {imp.name : imp \in AllImports}
ModuleNames == {imp.module : imp \in AllImports} \cup {"wasi"}
InstanceIds == [store : Nat, index : Nat]
NamedDefs == [kind : {"func"}, env : Nat] \cup [kind : {"global"}]
WholeDefs == [kind : {"instance"}, instance : InstanceIds] \cup [kind : {"namespace"}, ctx : Nat]
Backings == NamedDefs \cup [kind : {"instance"}, instance : InstanceIds, index : Nat]
            \cup [kind : {"namespace"}, ctx : Nat] \cup [kind : {"fallback"}, name : Names]

NamedEntry == [module : ModuleNames, name : Names, def : NamedDefs]
WholeEntry == [module : ModuleNames, def : WholeDefs]
LinkerType == [defs : Seq(NamedEntry), namespaces : Seq(WholeEntry),
               fallback : BOOLEAN, live : BOOLEAN, wasi : Nat]
SlotType == [instance : InstanceIds]
CodeType == [module : Modules, links : Seq(Backings)]
EntryType == [slot : Nat, index : Nat]
StoreType == [live : BOOLEAN, tag : Nat, id : Nat, instances : Seq(SlotType), code : Seq(CodeType),
              entries : [Kinds -> Seq(EntryType)]]
ThenType == [start : BOOLEAN, instance : InstanceIds, wraps : BOOLEAN, linker : Nat]
FrameType == [store : Nat, linker : Nat, env : Nat, then : ThenType]
LogType == Seq([module : ModuleNames, name : Names \cup {""}, def : NamedDefs \cup WholeDefs])
HandleType == [id : Nat, store : Nat, kind : Kinds \cup {"instance"},
               of : [kind : {"instance"}, instance : InstanceIds]
                    \cup [kind : Kinds, instance : InstanceIds, index : Nat]]

\* NEXT_STORE_TAG starts at 1 and wraps.
TagOf(s) == s % Wide

Typed ==
  /\ nextTag = TagOf(Len(stores) + 1) /\ Len(finals) = Len(rc) /\ Len(log) = Len(linkers)
  /\ stores \in Seq(StoreType) /\ linkers \in Seq(LinkerType)
  /\ rc \in Seq(Nat) /\ finals \in Seq(Nat) /\ exits \in Seq(BOOLEAN)
  /\ stack \in Seq(FrameType) /\ log \in Seq(LogType) /\ issued \subseteq HandleType

-----------------------------------------------------------------------------
(* The inductive invariant.                                                *)

\* What holds of one store and what is linked in it.
LinksWithin(code, id) ==
  \A i \in DOMAIN code :
    LET module == code[i].module
        links == code[i].links
    IN /\ DOMAIN links = DOMAIN module.imports
       /\ \A k \in FuncImports(module) : links[k].kind = "instance" =>
            /\ links[k].instance.store = id /\ links[k].instance.index \in DOMAIN code
            /\ links[k].index \in 1..FuncCount(code[links[k].instance.index].module)
LinksStay(st) == LinksWithin(st.code, st.id)
InstancesStay(st) ==
  /\ Len(st.instances) <= MaxInstances
  /\ \A k \in DOMAIN st.instances : st.instances[k].instance.store = st.id
  /\ st.live => /\ Len(st.instances) <= Len(st.code) /\ Len(st.code) <= MaxInstances
                /\ \A k \in DOMAIN st.instances : st.instances[k].instance.index \in DOMAIN st.code
EntriesStay(st) ==
  \A kind \in Kinds : \A k \in DOMAIN st.entries[kind] :
    LET entry == st.entries[kind][k]
        instance == st.instances[entry.slot + 1].instance
    IN /\ entry.slot < Len(st.instances)
       /\ st.live /\ kind = "func" => entry.index \in 1..FuncCount(st.code[instance.index].module)
StoresKept ==
  \A s \in DOMAIN stores :
    stores[s].id = s /\ stores[s].tag = TagOf(s) /\ LinksStay(stores[s]) /\ InstancesStay(stores[s]) /\ EntriesStay(stores[s])

\* A linker may outlive the store of an instance it names.
NamesStand(linker) ==
  \A k \in DOMAIN linker.namespaces :
    LET def == linker.namespaces[k].def
    IN def.kind = "instance" =>
         /\ def.instance.store \in DOMAIN stores
         /\ stores[def.instance.store].live => def.instance.index \in DOMAIN stores[def.instance.store].code
LinkersKept ==
  \A l \in DOMAIN linkers : NamesStand(linkers[l]) /\ (~linkers[l].live => linkers[l].defs = <<>>)

\* A handle packs the place of what it was issued for.
Issued(h) ==
  /\ h.store \in DOMAIN stores /\ h.of.kind = h.kind
  /\ LET st == stores[h.store]
     IN IF h.kind = "instance"
        THEN \E k \in DOMAIN st.instances :
               h.id = Pack(TagOf(h.store), k - 1) /\ st.instances[k].instance = h.of.instance
        ELSE \E k \in DOMAIN st.entries[h.kind] :
               /\ h.id = Pack(TagOf(h.store), k - 1)
               /\ st.entries[h.kind][k].index = h.of.index
               /\ st.instances[st.entries[h.kind][k].slot + 1].instance = h.of.instance
HandlesKept ==
  /\ \A h \in issued : Issued(h)
  /\ IsFiniteSet(issued) /\ HandlesMade <= MaxHandles
  /\ \A s \in DOMAIN stores, kind \in Kinds : \A k \in DOMAIN stores[s].entries[kind] :
       \E h \in issued : h.kind = kind /\ h.store = s /\ h.id = Pack(TagOf(s), k - 1)

\* A store has one call at most; its callback is linked in that store.
FrameKept(frame) ==
  LET st == stores[frame.store]
  IN /\ frame.store \in Live(stores) /\ StoreHolds(frame.store, frame.env) # {}
     /\ frame.then.start => /\ frame.then.instance = [store |-> frame.store, index |-> Len(st.code)]
                            /\ Len(st.instances) < Len(st.code)
FramesKept ==
  /\ \A j, k \in DOMAIN stack : stack[j].store = stack[k].store => j = k
  /\ \A k \in DOMAIN stack : FrameKept(stack[k])

\* The count of an environment is the number of references to it.
EnvsKnown ==
  /\ \A l \in DOMAIN linkers : \A k \in DOMAIN linkers[l].defs :
       linkers[l].defs[k].def.kind = "func" => linkers[l].defs[k].def.env \in DOMAIN rc
  /\ \A s \in DOMAIN stores : \A i \in DOMAIN stores[s].code : \A k \in DOMAIN stores[s].code[i].links :
       stores[s].code[i].links[k].kind = "func" => stores[s].code[i].links[k].env \in DOMAIN rc
Counted ==
  \A e \in DOMAIN rc : /\ IsFiniteSet(Holders(e)) /\ rc[e] = Cardinality(Holders(e))
                        /\ finals[e] = IF rc[e] = 0 THEN 1 ELSE 0

Outcomes ==
  /\ parked = NoMessage /\ outcome.code \in {"ok", "error", "trap"}
  /\ TrapsCarryTheirMessage

EmbedderInv ==
  /\ Typed /\ StoresKept /\ LinkersKept /\ HandlesKept /\ FramesKept /\ EnvsKnown /\ Counted
  /\ Outcomes /\ NamesMeanTheirLastDefinition

-----------------------------------------------------------------------------
(* What the types say of a store.                                          *)

LEMMA StoreParts ==
  ASSUME NEW st \in StoreType
  PROVE  /\ st.live \in BOOLEAN /\ st.tag \in Nat /\ st.id \in Nat
         /\ st.instances \in Seq(SlotType)
         /\ st.code \in Seq(CodeType)
         /\ st.entries \in [Kinds -> Seq(EntryType)]
BY DEF StoreType

LEMMA CodeParts ==
  ASSUME NEW st \in StoreType, NEW i \in DOMAIN st.code
  PROVE  /\ st.code[i] \in CodeType
         /\ st.code[i].module \in Modules /\ st.code[i].links \in Seq(Backings)
         /\ \A k \in DOMAIN st.code[i].links : st.code[i].links[k] \in Backings
<1>1. st.code \in Seq(CodeType)
  BY StoreParts
<1>2. st.code[i] \in CodeType
  BY <1>1
<1>3. st.code[i].module \in Modules /\ st.code[i].links \in Seq(Backings)
  BY <1>2 DEF CodeType
<1> QED BY <1>2, <1>3

-----------------------------------------------------------------------------
(* Handles.                                                                *)

LEMMA PackedIsNumber ==
  ASSUME NEW t \in Nat, NEW slot \in Nat
  PROVE  Pack(t, slot) \in Nat
BY WideAssumption DEF Pack

LEMMA Unpacked ==
  ASSUME NEW t \in Nat, NEW slot \in Nat, slot < MaxInstances + MaxHandles, NEW tag \in Nat
  PROVE  Unpack(Pack(t, slot), tag) = IF t = tag THEN slot ELSE -1
<1>1. Wide \in Nat /\ slot + 1 \in 0..(Wide - 1) /\ slot + 1 # 0
  BY WideAssumption, BoundsAssumption
<1>2. Pack(t, slot) = t * Wide + (slot + 1)
  BY <1>1 DEF Pack
<1>3. (t * Wide + (slot + 1)) \div Wide = t /\ (t * Wide + (slot + 1)) % Wide = slot + 1
  BY <1>1, DivMod
<1> QED BY <1>1, <1>2, <1>3 DEF Unpack

LEMMA ZeroUnpacked ==
  ASSUME NEW tag \in Nat
  PROVE  Unpack(0, tag) = -1
<1>1. Wide \in Nat /\ Wide > 0
  BY WideAssumption, BoundsAssumption
<1>2. 0 \in 0..(Wide - 1) /\ 0 * Wide + 0 = 0
  BY <1>1
<1>3. 0 % Wide = 0
  BY <1>1, <1>2, DivMod
<1> QED BY <1>3 DEF Unpack

LEMMA TagParts ==
  ASSUME NEW s \in Nat
  PROVE  \E q \in Nat : s = q * Wide + TagOf(s) /\ TagOf(s) \in 0..(Wide - 1)
<1>1. Wide \in Nat /\ Wide > 0
  BY WideAssumption, BoundsAssumption
<1> QED BY <1>1 DEF TagOf

\* The tag of a store is the number of the store while the tags last.
LEMMA TagFacts ==
  ASSUME NEW s \in Nat
  PROVE  TagOf(s) \in Nat /\ (s < Wide => TagOf(s) = s)
<1>1. Wide \in Nat /\ Wide > 0
  BY WideAssumption, BoundsAssumption
<1>2. s < Wide => s \in 0..(Wide - 1) /\ 0 * Wide + s = s
  BY <1>1
<1>3. s < Wide => TagOf(s) = s
  BY <1>1, <1>2, DivMod DEF TagOf
<1> QED BY <1>3, TagParts

LEMMA NextTag ==
  ASSUME NEW s \in Nat
  PROVE  (TagOf(s) + 1) % Wide = TagOf(s + 1)
<1>1. Wide \in Nat /\ Wide > 0
  BY WideAssumption, BoundsAssumption
<1>2. PICK q \in Nat : s = q * Wide + TagOf(s) /\ TagOf(s) \in 0..(Wide - 1)
  BY TagParts
<1>3. CASE TagOf(s) + 1 < Wide
  <2>1. TagOf(s) + 1 \in 0..(Wide - 1) /\ 0 * Wide + (TagOf(s) + 1) = TagOf(s) + 1 /\ 0 \in Nat
    BY <1>1, <1>2, <1>3
  <2>2. s + 1 = q * Wide + (TagOf(s) + 1)
    BY <1>1, <1>2
  <2>3. (TagOf(s) + 1) % Wide = TagOf(s) + 1
    BY <1>1, <2>1, DivMod
  <2>4. (q * Wide + (TagOf(s) + 1)) % Wide = TagOf(s) + 1
    BY <1>1, <2>1, DivMod
  <2> QED BY <2>2, <2>3, <2>4 DEF TagOf
<1>4. CASE TagOf(s) + 1 = Wide
  <2>1. 0 \in 0..(Wide - 1) /\ 1 * Wide + 0 = Wide /\ q + 1 \in Nat /\ 1 \in Nat
    BY <1>1
  <2>2. s + 1 = (q + 1) * Wide + 0
    BY <1>1, <1>2, <1>4
  <2>3. Wide % Wide = 0
    BY <1>1, <2>1, DivMod
  <2>4. ((q + 1) * Wide + 0) % Wide = 0
    BY <1>1, <2>1, DivMod
  <2> QED BY <1>4, <2>2, <2>3, <2>4 DEF TagOf
<1> QED BY <1>1, <1>2, <1>3, <1>4

LEMMA UnpackedIsSlot ==
  ASSUME NEW id \in Nat, NEW tag
  PROVE  Unpack(id, tag) \in Int
<1>1. Wide \in Nat \ {0}
  BY WideAssumption, BoundsAssumption
<1>2. id % Wide \in Int
  BY <1>1
<1> QED BY <1>2 DEF Unpack

LEMMA FoundAt ==
  ASSUME NEW S, NEW s \in Seq(S), NEW slot \in Int
  PROVE  /\ At(s, slot) # NotFound => slot + 1 \in DOMAIN s /\ At(s, slot) = s[slot + 1]
         /\ slot + 1 \in DOMAIN s => At(s, slot) = s[slot + 1]
         /\ slot = -1 => At(s, slot) = NotFound
BY DEF At

-----------------------------------------------------------------------------
(* Where a call ends.                                                      *)

Running(st, instance, func) ==
  /\ instance \in InstanceIds /\ instance.store = st.id /\ instance.index \in DOMAIN st.code
  /\ func \in 1..FuncCount(st.code[instance.index].module)
LinksIn(st) == {b \in Backings : \E i \in DOMAIN st.code : \E k \in DOMAIN st.code[i].links : b = st.code[i].links[k]}
Points(st) ==
  {at \in [kind : {"instance"}, instance : InstanceIds, index : Nat] : Running(st, at.instance, at.index)}
  \cup {[kind |-> "return"]} \cup {b \in LinksIn(st) : b.kind # "instance"}

LEMMA FuncImportsFacts ==
  ASSUME NEW m \in Modules
  PROVE  /\ IsFiniteSet(FuncImports(m)) /\ Cardinality(FuncImports(m)) \in Nat
         /\ FuncImports(m) \subseteq DOMAIN m.imports
         /\ Len(m.imports) \in Nat /\ DOMAIN m.imports = 1..Len(m.imports)
         /\ Len(m.funcs) \in Nat /\ DOMAIN m.funcs = 1..Len(m.funcs)
         /\ FuncCount(m) \in Nat
<1>1. m.imports \in Seq(ToSet(m.imports)) /\ m.funcs \in Seq([calls : 0..FuncCount(m), type : FuncTypes])
  BY ModulesAssumption
<1>2. FuncImports(m) \in SUBSET (1..Len(m.imports)) /\ Len(m.imports) \in Nat /\ DOMAIN m.imports = 1..Len(m.imports)
  BY <1>1 DEF FuncImports
<1>3. IsFiniteSet(FuncImports(m)) /\ Cardinality(FuncImports(m)) \in Nat
  BY <1>2, PositionsAreFinite
<1>4. Len(m.funcs) \in Nat /\ DOMAIN m.funcs = 1..Len(m.funcs)
  BY <1>1
<1> QED BY <1>2, <1>3, <1>4 DEF FuncCount

LEMMA FuncLinksFacts ==
  ASSUME NEW st \in StoreType, LinksStay(st), NEW i \in DOMAIN st.code
  PROVE  /\ Len(FuncLinks(st.code[i])) = Cardinality(FuncImports(st.code[i].module))
         /\ \A n \in 1..Len(FuncLinks(st.code[i])) :
              \E k \in FuncImports(st.code[i].module) :
                /\ k \in DOMAIN st.code[i].links /\ FuncLinks(st.code[i])[n] = st.code[i].links[k]
<1> DEFINE inst == st.code[i]
           kept == FuncImports(inst.module)
<1>1. inst.module \in Modules /\ inst.links \in Seq(Backings)
  BY CodeParts
<1>2. DOMAIN inst.links = DOMAIN inst.module.imports
  BY DEF LinksStay, LinksWithin
<1>3. kept \in SUBSET (DOMAIN inst.links)
  BY <1>2 DEF FuncImports
<1> HIDE DEF inst, kept
<1>4. /\ Len(Retained(inst.links, kept)) = Cardinality(kept)
      /\ \A m \in 1..Cardinality(kept) : \E k \in kept : Retained(inst.links, kept)[m] = inst.links[k]
  BY <1>1, <1>3, RetainedKeeps
<1>5. FuncLinks(inst) = Retained(inst.links, kept)
  BY DEF FuncLinks, kept
<1> QED BY <1>3, <1>4, <1>5 DEF inst, kept

LEMMA HopStays ==
  ASSUME NEW st \in StoreType, LinksStay(st), NEW at \in Points(st)
  PROVE  Hop(st, at) \in Points(st)
<1>1. CASE at.kind # "instance"
  BY <1>1 DEF Hop
<1>2. CASE at.kind = "instance"
  <2> DEFINE inst == st.code[at.instance.index]
             links == FuncLinks(inst)
             callee == inst.module.funcs[at.index - Len(links)].calls
  <2>1. at \in [kind : {"instance"}, instance : InstanceIds, index : Nat] /\ Running(st, at.instance, at.index)
    BY <1>2 DEF Points
  <2>2. at.instance.index \in DOMAIN st.code /\ at.index \in 1..FuncCount(inst.module) /\ inst.module \in Modules
        /\ at.instance.store = st.id /\ at.instance \in InstanceIds
    BY <2>1, CodeParts DEF Running
  <2> HIDE DEF inst
  <2>3. /\ Len(links) = Cardinality(FuncImports(inst.module))
        /\ \A n \in 1..Len(links) : \E k \in FuncImports(inst.module) :
             k \in DOMAIN inst.links /\ links[n] = inst.links[k]
    BY <2>2, FuncLinksFacts DEF inst
  <2>4. Len(links) \in Nat /\ Len(inst.module.funcs) \in Nat /\ FuncCount(inst.module) \in Nat
        /\ DOMAIN inst.module.funcs = 1..Len(inst.module.funcs)
        /\ FuncCount(inst.module) = Len(links) + Len(inst.module.funcs)
    BY <2>2, <2>3, FuncImportsFacts DEF FuncCount
  <2> HIDE DEF links
  <2>5. Hop(st, at) = IF at.index <= Len(links) THEN links[at.index]
                      ELSE IF callee = 0 THEN [kind |-> "return"] ELSE Calling(at.instance, callee)
    BY <1>2 DEF Hop, inst, links
  <2>6. CASE at.index <= Len(links)
    <3>1. PICK k \in FuncImports(inst.module) : k \in DOMAIN inst.links /\ links[at.index] = inst.links[k]
      BY <2>2, <2>3, <2>4, <2>6
    <3>2. inst.links[k] \in Backings
      BY <2>2, <3>1, CodeParts DEF inst
    <3>3. inst.links[k] \in LinksIn(st)
      BY <2>2, <3>1, <3>2 DEF inst, LinksIn
    <3>4. CASE inst.links[k].kind # "instance"
      BY <2>5, <2>6, <3>1, <3>3, <3>4 DEF Points
    <3>5. CASE inst.links[k].kind = "instance"
      <4> DEFINE b == inst.links[k]
      <4>1. b.instance.store = st.id /\ b.instance.index \in DOMAIN st.code
            /\ b.index \in 1..FuncCount(st.code[b.instance.index].module)
        BY <2>2, <3>1, <3>5 DEF LinksStay, LinksWithin, inst
      <4>2. b \in [kind : {"instance"}, instance : InstanceIds, index : Nat]
        BY <3>2, <3>5 DEF Backings, NamedDefs
      <4> HIDE DEF b
      <4>3. Running(st, b.instance, b.index)
        BY <4>1, <4>2 DEF Running
      <4>4. b \in Points(st)
        BY <4>2, <4>3 DEF Points
      <4> QED BY <2>5, <2>6, <3>1, <4>4 DEF b
    <3> QED BY <3>4, <3>5
  <2>7. CASE ~(at.index <= Len(links))
    <3>1. at.index - Len(links) \in DOMAIN inst.module.funcs
      BY <2>2, <2>4, <2>7
    <3>2. inst.module.funcs \in Seq([calls : 0..FuncCount(inst.module), type : FuncTypes])
      BY <2>2, ModulesAssumption
    <3>3. callee \in 0..FuncCount(inst.module)
      <4> DEFINE place == at.index - Len(links)
                 T == [calls : 0..FuncCount(inst.module), type : FuncTypes]
      <4> HIDE DEF place, T
      <4>1. place \in DOMAIN inst.module.funcs
        BY <3>1 DEF place
      <4>2. inst.module.funcs \in Seq(T)
        BY <3>2 DEF T
      <4>3. inst.module.funcs[place] \in T
        BY <4>1, <4>2
      <4> QED BY <4>3 DEF place, T
    <3> HIDE DEF callee
    <3>4. CASE callee = 0
      BY <2>5, <2>7, <3>4 DEF Points
    <3>5. CASE callee # 0
      <4>1. Running(st, at.instance, callee) /\ callee \in Nat
        BY <2>2, <2>4, <3>3, <3>5 DEF Running, inst
      <4>2. Calling(at.instance, callee) \in Points(st)
        BY <2>2, <4>1 DEF Calling, Points
      <4> QED BY <2>5, <2>7, <3>5, <4>2
    <3> QED BY <3>4, <3>5
  <2> QED BY <2>6, <2>7
<1> QED BY <1>1, <1>2

LEMMA ReachEnds ==
  ASSUME NEW st \in StoreType, LinksStay(st), NEW instance, NEW func, Running(st, instance, func)
  PROVE  Reach(st, instance, func) \in Points(st)
<1> DEFINE c == Calling(instance, func)
           Steps(f, n) == f = [i \in 0..n |-> IF i = 0 THEN c ELSE Hop(st, f[i - 1])]
           run == CHOOSE f : Steps(f, MaxCalls)
           S == {n \in Nat : \E f : Steps(f, n)}
           R == {n \in Nat : n <= MaxCalls => run[n] \in Points(st)}
<1>1. MaxCalls \in Nat
  BY BoundsAssumption
<1>2. 0 \in S
  <2> DEFINE f == [i \in 0..0 |-> c]
  <2>1. f = [i \in 0..0 |-> IF i = 0 THEN c ELSE Hop(st, f[i - 1])]
    OBVIOUS
  <2> QED BY <2>1
<1>3. ASSUME NEW n \in Nat, n \in S PROVE n + 1 \in S
  <2>1. PICK f : Steps(f, n)
    BY <1>3
  <2> DEFINE g == [i \in 0..(n + 1) |-> IF i = n + 1 THEN Hop(st, f[n]) ELSE f[i]]
  <2> HIDE DEF c
  <2>2. \A i \in 0..n : f[i] = IF i = 0 THEN c ELSE Hop(st, f[i - 1])
    BY <2>1
  <2>3. \A i \in 0..n : g[i] = f[i]
    OBVIOUS
  <2>4. g[n + 1] = Hop(st, g[n])
    BY <2>3
  <2>5. \A i \in 0..(n + 1) : g[i] = IF i = 0 THEN c ELSE Hop(st, g[i - 1])
    <3> SUFFICES ASSUME NEW i \in 0..(n + 1) PROVE g[i] = IF i = 0 THEN c ELSE Hop(st, g[i - 1])
      OBVIOUS
    <3>1. CASE i = n + 1
      BY <2>4, <3>1
    <3>2. CASE i # n + 1 /\ i # 0
      <4>1. i \in 0..n /\ i - 1 \in 0..n
        BY <3>2
      <4>2. g[i] = f[i] /\ g[i - 1] = f[i - 1] /\ f[i] = Hop(st, f[i - 1])
        BY <2>2, <2>3, <3>2, <4>1
      <4> QED BY <3>2, <4>2
    <3>3. CASE i = 0
      BY <2>2, <2>3, <3>3
    <3> QED BY <3>1, <3>2, <3>3
  <2>6. g = [i \in 0..(n + 1) |-> g[i]]
    OBVIOUS
  <2> HIDE DEF g
  <2>7. Steps(g, n + 1)
    BY <2>5, <2>6
  <2> QED BY <2>7
<1>4. \E f : Steps(f, MaxCalls)
  <2> HIDE DEF S
  <2>1. MaxCalls \in S
    BY <1>1, <1>2, <1>3, NatSetInduction
  <2> QED BY <2>1 DEF S
<1>5. Steps(run, MaxCalls)
  <2> HIDE DEF Steps
  <2> QED BY <1>4
<1> HIDE DEF run
<1>6. c \in Points(st)
  BY StoreParts DEF Points, Calling, Running, InstanceIds
<1> HIDE DEF c
<1>7. \A n \in 0..MaxCalls : run[n] = IF n = 0 THEN c ELSE Hop(st, run[n - 1])
  BY <1>5
<1>8. 0 \in R
  BY <1>1, <1>6, <1>7
<1>9. ASSUME NEW n \in Nat, n \in R PROVE n + 1 \in R
  <2> SUFFICES ASSUME n + 1 <= MaxCalls PROVE run[n + 1] \in Points(st)
    OBVIOUS
  <2>1. n + 1 \in 0..MaxCalls /\ n <= MaxCalls /\ n + 1 # 0 /\ (n + 1) - 1 = n
    BY <1>1
  <2>2. run[n + 1] = Hop(st, run[n])
    BY <1>7, <2>1
  <2>3. run[n] \in Points(st)
    BY <1>9, <2>1
  <2> QED BY <2>2, <2>3, HopStays
<1>10. run[MaxCalls] \in Points(st)
  <2> HIDE DEF R
  <2>1. MaxCalls \in R
    BY <1>1, <1>8, <1>9, NatSetInduction
  <2> QED BY <1>1, <2>1 DEF R
<1>11. Reach(st, instance, func) = run[MaxCalls]
  BY DEF Reach, run, c
<1> QED BY <1>10, <1>11

-----------------------------------------------------------------------------
(* What imports resolve to.                                                *)

LEMMA LinkerParts ==
  ASSUME NEW l \in LinkerType
  PROVE  /\ l.defs \in Seq(NamedEntry)
         /\ l.namespaces \in Seq(WholeEntry)
         /\ l.fallback \in BOOLEAN /\ l.live \in BOOLEAN /\ l.wasi \in Nat
         /\ \A k \in DOMAIN l.defs : l.defs[k].def \in NamedDefs
         /\ \A k \in DOMAIN l.namespaces : l.namespaces[k].def \in WholeDefs
<1>1. l.defs \in Seq(NamedEntry)
      /\ l.namespaces \in Seq(WholeEntry)
      /\ l.fallback \in BOOLEAN /\ l.live \in BOOLEAN /\ l.wasi \in Nat
  BY DEF LinkerType
<1>2. \A k \in DOMAIN l.defs : l.defs[k] \in NamedEntry
  BY <1>1
<1>3. \A k \in DOMAIN l.namespaces : l.namespaces[k] \in WholeEntry
  BY <1>1
<1> QED BY <1>1, <1>2, <1>3 DEF NamedEntry, WholeEntry

LEMMA ExactIsADef ==
  ASSUME NEW l \in LinkerType, NEW m, NEW n
  PROVE  Exact(l, m, n) = Nothing \/ \E k \in DOMAIN l.defs : Exact(l, m, n) = l.defs[k].def
<1> DEFINE at == {k \in DOMAIN l.defs : l.defs[k].module = m /\ l.defs[k].name = n}
<1>1. Exact(l, m, n) = IF at = {} THEN Nothing ELSE l.defs[Least(at)].def
  BY DEF Exact, FirstDef
<1>2. at \subseteq DOMAIN l.defs /\ at \subseteq Nat
  BY LinkerParts
<1> HIDE DEF at
<1>3. at # {} => Least(at) \in at
  BY <1>2, LeastNumber DEF Least
<1> QED BY <1>1, <1>2, <1>3

LEMMA WholeIsADef ==
  ASSUME NEW l \in LinkerType, NEW m
  PROVE  Whole(l, m) = Nothing \/ \E k \in DOMAIN l.namespaces : Whole(l, m) = l.namespaces[k].def
<1> DEFINE at == {k \in DOMAIN l.namespaces : l.namespaces[k].module = m}
<1>1. Whole(l, m) = IF at = {} THEN Nothing ELSE l.namespaces[Least(at)].def
  BY DEF Whole, FirstDef
<1>2. at \subseteq DOMAIN l.namespaces /\ at \subseteq Nat
  BY LinkerParts
<1> HIDE DEF at
<1>3. at # {} => Least(at) \in at
  BY <1>2, LeastNumber DEF Least
<1> QED BY <1>1, <1>2, <1>3

\* Where an import may lead.
Leads(l, st, imp, b) ==
  /\ b \in Backings
  /\ b.kind = "func" => \E k \in DOMAIN l.defs : l.defs[k].def = b
  /\ b.kind = "instance" /\ imp.kind = "func" => Running(st, b.instance, b.index)

\* A linker names only instances of stores that have them.
NamesStay(l, st) ==
  \A k \in DOMAIN l.namespaces :
    LET def == l.namespaces[k].def
    IN def.kind = "instance" /\ def.instance.store = st.id => def.instance.index \in DOMAIN st.code

LEMMA ExportedFacts ==
  ASSUME NEW st \in StoreType, NEW instance \in InstanceIds, NEW name,
         instance.store = st.id => instance.index \in DOMAIN st.code,
         ExportIn(st, instance, name) # Nothing
  PROVE  LET export == ExportIn(st, instance, name)
         IN /\ instance.store = st.id /\ instance.index \in DOMAIN st.code
            /\ export.kind \in Externs /\ export.index \in Nat \ {0}
            /\ export.kind = "func" => Running(st, instance, export.index)
<1> DEFINE module == st.code[instance.index].module
           export == ExportIn(st, instance, name)
<1>1. instance.store = st.id /\ name \in DOMAIN module.exports /\ export = module.exports[name]
  BY DEF ExportIn
<1>2. instance.index \in DOMAIN st.code /\ module \in Modules
  BY <1>1, CodeParts
<1> HIDE DEF export
<1>3. /\ export.kind \in Externs /\ export.index \in Nat \ {0}
      /\ export.kind = "func" => export.index <= FuncCount(module)
  BY <1>1, <1>2, ModulesAssumption
<1>4. FuncCount(module) \in Nat
  BY <1>2, FuncImportsFacts
<1>5. export.kind = "func" => Running(st, instance, export.index)
  BY <1>1, <1>2, <1>3, <1>4 DEF Running
<1> QED BY <1>1, <1>2, <1>3, <1>5 DEF export

LEMMA ImportLeads ==
  ASSUME NEW l \in LinkerType, NEW st \in StoreType, NamesStay(l, st), NEW imp,
         imp.kind \in Externs, imp.name \in Names, NEW offered,
         offered = IF Whole(l, imp.module).kind = "instance"
                   THEN ExportIn(st, Whole(l, imp.module).instance, imp.name) ELSE Nothing,
         ResolveImport(l, imp, offered).code = "ok"
  PROVE  Leads(l, st, imp, ResolveImport(l, imp, offered).backing)
<1> DEFINE exact == Exact(l, imp.module, imp.name)
           whole == Whole(l, imp.module)
           result == ResolveImport(l, imp, offered)
<1>1. result = IF exact = Nothing THEN Otherwise(l, imp, offered)
               ELSE IF exact.kind = imp.kind /\ imp.kind # "tag" THEN [code |-> "ok", backing |-> exact]
               ELSE [code |-> "mismatch"]
  BY DEF ResolveImport, Linked, Unlinked
<1>2. Otherwise(l, imp, offered)
        = IF whole.kind = "instance" THEN FromInstance(imp, whole.instance, offered)
          ELSE IF imp.kind # "func" THEN [code |-> "unknown"]
          ELSE IF whole.kind = "namespace" THEN [code |-> "ok", backing |-> whole]
          ELSE IF l.fallback THEN [code |-> "ok", backing |-> [kind |-> "fallback", name |-> imp.name]]
          ELSE [code |-> "unknown"]
  BY DEF Otherwise, Linked, Unlinked

<1> HIDE DEF exact, whole, result
<1>3. CASE exact # Nothing
  <2>1. result.backing = exact /\ exact.kind = imp.kind
    BY <1>1, <1>3 DEF result
  <2>2. PICK k \in DOMAIN l.defs : exact = l.defs[k].def
    BY <1>3, ExactIsADef DEF exact
  <2>3. exact \in NamedDefs
    BY <2>2, LinkerParts
  <2>4. exact.kind # "instance" /\ exact \in Backings
    BY <2>3 DEF NamedDefs, Backings
  <2> QED BY <2>1, <2>2, <2>4 DEF Leads, result
<1>4. CASE exact = Nothing /\ whole.kind = "instance"
  <2>1. result = FromInstance(imp, whole.instance, offered) /\ result.code = "ok"
    BY <1>1, <1>2, <1>4 DEF result
  <2>2. /\ offered.kind = imp.kind
        /\ result.backing = [kind |-> "instance", instance |-> whole.instance, index |-> offered.index]
    BY <2>1 DEF FromInstance, Linked, Unlinked
  <2>3. offered = ExportIn(st, whole.instance, imp.name) /\ offered # Nothing
    BY <1>4, <2>2 DEF whole, Nothing, Externs
  <2>4. PICK k \in DOMAIN l.namespaces : whole = l.namespaces[k].def
    <3>1. whole # Nothing
      BY <1>4 DEF Nothing
    <3> QED BY <3>1, WholeIsADef DEF whole
  <2>5. whole.instance \in InstanceIds
    <3>1. whole \in WholeDefs
      BY <2>4, LinkerParts
    <3> QED BY <1>4, <3>1 DEF WholeDefs
  <2>6. whole.instance.store = st.id => whole.instance.index \in DOMAIN st.code
    BY <1>4, <2>4 DEF NamesStay
  <2>7. offered.index \in Nat /\ (offered.kind = "func" => Running(st, whole.instance, offered.index))
    BY <2>3, <2>5, <2>6, ExportedFacts
  <2>8. result.backing \in Backings
    BY <2>2, <2>5, <2>7 DEF Backings
  <2> QED BY <2>2, <2>7, <2>8 DEF Leads, result
<1>5. CASE exact = Nothing /\ whole.kind # "instance"
  <2>1. result = Otherwise(l, imp, offered) /\ result.code = "ok"
    BY <1>1, <1>5 DEF result
  <2>2. CASE whole.kind = "namespace"
    <3>1. whole # Nothing
      BY <2>2 DEF Nothing
    <3>2. whole \in WholeDefs
      BY <3>1, WholeIsADef, LinkerParts DEF whole
    <3>3. result.backing = whole
      BY <1>2, <1>5, <2>1, <2>2
    <3>4. whole \in Backings
      BY <2>2, <3>2 DEF WholeDefs, Backings
    <3> QED BY <2>2, <3>3, <3>4 DEF Leads, result
  <2>3. CASE whole.kind # "namespace"
    <3>1. result.backing = [kind |-> "fallback", name |-> imp.name]
      BY <1>2, <1>5, <2>1, <2>3
    <3>2. result.backing \in Backings
      BY <3>1 DEF Backings
    <3> QED BY <3>1, <3>2 DEF Leads, result
  <2> QED BY <2>2, <2>3
<1> QED BY <1>3, <1>4, <1>5

LEMMA ImportsLead ==
  ASSUME NEW l \in LinkerType, NEW st \in StoreType, NamesStay(l, st), NEW m \in Modules,
         Resolve(l, m.imports, Offers(l, st, m.imports)).code = "ok"
  PROVE  LET backings == Resolve(l, m.imports, Offers(l, st, m.imports)).backings
         IN /\ backings \in Seq(Backings) /\ DOMAIN backings = DOMAIN m.imports
            /\ \A k \in DOMAIN backings : Leads(l, st, m.imports[k], backings[k])
<1> DEFINE offers == Offers(l, st, m.imports)
           each == [k \in DOMAIN m.imports |-> ResolveImport(l, m.imports[k], offers[k])]
           failed == {k \in DOMAIN each : each[k].code # "ok"}
           backings == Resolve(l, m.imports, offers).backings
<1>1. /\ Resolve(l, m.imports, offers)
           = IF failed = {} THEN [code |-> "ok", backings |-> [k \in DOMAIN each |-> each[k].backing]]
             ELSE [code |-> each[Least(failed)].code, backings |-> <<>>]
  BY DEF Resolve
<1>2. Len(m.imports) \in Nat /\ DOMAIN m.imports = 1..Len(m.imports) /\ DOMAIN each = DOMAIN m.imports
  BY FuncImportsFacts
<1>3. failed = {}
  <2> SUFFICES ASSUME failed # {} PROVE FALSE
    OBVIOUS
  <2>1. failed \subseteq Nat
    BY <1>2
  <2> HIDE DEF failed, each, offers
  <2>2. Least(failed) \in failed
    BY <2>1, LeastNumber DEF Least
  <2>3. each[Least(failed)].code # "ok"
    BY <2>2 DEF failed
  <2> QED BY <1>1, <2>3 DEF offers
<1>4. backings = [k \in DOMAIN each |-> each[k].backing]
  BY <1>1, <1>3
<1>5. ASSUME NEW k \in DOMAIN m.imports PROVE Leads(l, st, m.imports[k], backings[k])
  <2>1. each[k].code = "ok" /\ backings[k] = each[k].backing
    BY <1>2, <1>3, <1>4
  <2>2. each[k] = ResolveImport(l, m.imports[k], offers[k])
    OBVIOUS
  <2>3. offers[k] = IF Whole(l, m.imports[k].module).kind = "instance"
                    THEN ExportIn(st, Whole(l, m.imports[k].module).instance, m.imports[k].name) ELSE Nothing
    BY DEF Offers
  <2>4. m.imports[k].kind \in Externs /\ m.imports[k].name \in Names
    <3>1. m.imports[k] \in AllImports
      BY DEF AllImports, ToSet
    <3>2. m.imports[k].kind \in Externs
      BY ModulesAssumption
    <3> QED BY <3>1, <3>2 DEF Names
  <2> HIDE DEF each, offers, backings
  <2> QED BY <2>1, <2>2, <2>3, <2>4, ImportLeads
<1> HIDE DEF backings, each, offers
<1>6. \A k \in DOMAIN m.imports : backings[k] \in Backings
  BY <1>5 DEF Leads
<1>7. DOMAIN backings = 1..Len(m.imports) /\ backings = [k \in 1..Len(m.imports) |-> backings[k]]
  BY <1>2, <1>4
<1>8. backings \in Seq(Backings)
  BY <1>2, <1>6, <1>7
<1> QED BY <1>2, <1>5, <1>7, <1>8 DEF backings, offers

-----------------------------------------------------------------------------
(* Who holds an environment.                                               *)

LEMMA UsesAreFinite ==
  ASSUME NEW S, NEW backings \in Seq(S), NEW e
  PROVE  IsFiniteSet(UsesAt(backings, e)) /\ Uses(backings, e) \in Nat
<1>1. UsesAt(backings, e) \in SUBSET (1..Len(backings)) /\ Len(backings) \in Nat
  BY DEF UsesAt
<1> QED BY <1>1, PositionsAreFinite DEF Uses

LEMMA DefsOfIsList ==
  ASSUME NEW l \in LinkerType
  PROVE  /\ DefsOf(l) \in Seq(NamedDefs) /\ DOMAIN DefsOf(l) = DOMAIN l.defs
         /\ \A k \in DOMAIN l.defs : DefsOf(l)[k] = l.defs[k].def
<1>1. l.defs \in Seq(NamedEntry) /\ \A k \in DOMAIN l.defs : l.defs[k].def \in NamedDefs
  BY LinkerParts
<1>2. DefsOf(l) = [k \in 1..Len(l.defs) |-> l.defs[k].def] /\ Len(l.defs) \in Nat
  BY <1>1 DEF DefsOf
<1>3. DOMAIN l.defs = 1..Len(l.defs)
  BY <1>1
<1> QED BY <1>1, <1>2, <1>3

InLinker(x, e) ==
  \E l \in Live(linkers) : \E k \in UsesAt(DefsOf(linkers[l]), e) : x = <<"linker", l, 0, k>>
InStore(x, e) ==
  \E s \in Live(stores) : \E i \in DOMAIN stores[s].code : \E k \in UsesAt(stores[s].code[i].links, e) :
    x = <<"store", s, i, k>>

LEMMA HolderIs ==
  ASSUME NEW e, NEW x
  PROVE  x \in Holders(e) <=> InLinker(x, e) \/ InStore(x, e)
<1> DEFINE A == UNION {LinkerHolds(l, e) : l \in Live(linkers)}
           B == UNION {StoreHolds(s, e) : s \in Live(stores)}
<1>1. x \in A <=> InLinker(x, e)
  BY DEF LinkerHolds, InLinker
<1>2. x \in B <=> InStore(x, e)
  BY DEF StoreHolds, InStore
<1>3. Holders(e) = A \cup B
  BY DEF Holders
<1> HIDE DEF A, B
<1> QED BY <1>1, <1>2, <1>3

LEMMA HolderIsNext ==
  ASSUME NEW e, NEW x
  PROVE  x \in Holders(e)' <=> InLinker(x, e)' \/ InStore(x, e)'
<1> DEFINE A == UNION {LinkerHolds(l, e) : l \in Live(linkers)}
           B == UNION {StoreHolds(s, e) : s \in Live(stores)}
<1>1. x \in A' <=> InLinker(x, e)'
  BY DEF LinkerHolds, InLinker
<1>2. x \in B' <=> InStore(x, e)'
  BY DEF StoreHolds, InStore
<1>3. Holders(e)' = A' \cup B'
  BY DEF Holders
<1> HIDE DEF A, B
<1> QED BY <1>1, <1>2, <1>3

\* One linker's definitions become others.
LEMMA LinkerSwap ==
  ASSUME NEW l \in Live(linkers), NEW new, ~new.live => new.defs = <<>>,
         linkers' = [linkers EXCEPT ![l] = new], stores' = stores, NEW e
  PROVE  /\ LinkerHolds(l, e) \subseteq Holders(e)
         /\ Holders(e)' = (Holders(e) \ LinkerHolds(l, e)) \cup {<<"linker", l, 0, k>> : k \in UsesAt(DefsOf(new), e)}
         /\ {<<"linker", l, 0, k>> : k \in UsesAt(DefsOf(new), e)} \cap (Holders(e) \ LinkerHolds(l, e)) = {}
<1> DEFINE new1 == {<<"linker", l, 0, k>> : k \in UsesAt(DefsOf(new), e)}
<1>1. LinkerHolds(l, e) \subseteq Holders(e)
  BY DEF Holders
<1>2. ASSUME NEW x PROVE InStore(x, e)' <=> InStore(x, e)
  BY DEF InStore, Live
<1>3. ASSUME NEW x PROVE x \in LinkerHolds(l, e) <=> \E k \in UsesAt(DefsOf(linkers[l]), e) : x = <<"linker", l, 0, k>>
  BY DEF LinkerHolds
<1>4. l \in DOMAIN linkers /\ linkers[l].live
  BY DEF Live
<1>5. linkers'[l] = new /\ DOMAIN linkers' = DOMAIN linkers /\ \A j \in DOMAIN linkers : j # l => linkers'[j] = linkers[j]
  BY <1>4
<1>6. ~new.live => new1 = {}
  <2> SUFFICES ASSUME new.defs = <<>> PROVE UsesAt(DefsOf(new), e) = {}
    OBVIOUS
  <2>1. DOMAIN DefsOf(new) = {}
    BY DEF DefsOf
  <2> QED BY <2>1 DEF UsesAt
<1>7. ASSUME NEW x
      PROVE InLinker(x, e)' <=> x \in new1 \/ \E j \in Live(linkers) : j # l /\ \E k \in UsesAt(DefsOf(linkers[j]), e) : x = <<"linker", j, 0, k>>
  <2> DEFINE Other == \E j \in Live(linkers) : j # l /\ \E k \in UsesAt(DefsOf(linkers[j]), e) : x = <<"linker", j, 0, k>>
  <2>1. InLinker(x, e)' <=> \E j \in Live(linkers)' : \E k \in UsesAt(DefsOf(linkers'[j]), e) : x = <<"linker", j, 0, k>>
    BY DEF InLinker, Live
  <2>2. Live(linkers)' = {j \in DOMAIN linkers : linkers'[j].live}
    BY <1>5 DEF Live
  <2>3. ASSUME InLinker(x, e)' PROVE x \in new1 \/ Other
    <3>1. PICK j \in Live(linkers)' : \E k \in UsesAt(DefsOf(linkers'[j]), e) : x = <<"linker", j, 0, k>>
      BY <2>1, <2>3
    <3>2. CASE j = l
      BY <1>5, <3>1, <3>2
    <3>3. CASE j # l
      <4>1. j \in Live(linkers) /\ linkers'[j] = linkers[j]
        BY <1>5, <2>2, <3>3 DEF Live
      <4> QED BY <3>1, <3>3, <4>1
    <3> QED BY <3>2, <3>3
  <2>4. ASSUME x \in new1 PROVE InLinker(x, e)'
    <3>1. l \in Live(linkers)'
      BY <1>4, <1>6, <2>2, <2>4, <1>5, LinkerParts
    <3> QED BY <1>5, <2>1, <2>4, <3>1
  <2>5. ASSUME Other PROVE InLinker(x, e)'
    <3>1. PICK j \in Live(linkers) : j # l /\ \E k \in UsesAt(DefsOf(linkers[j]), e) : x = <<"linker", j, 0, k>>
      BY <2>5
    <3>2. j \in Live(linkers)' /\ linkers'[j] = linkers[j]
      BY <1>5, <2>2, <3>1 DEF Live
    <3> QED BY <2>1, <3>1, <3>2
  <2> QED BY <2>3, <2>4, <2>5
<1> HIDE DEF new1
<1>8. ASSUME NEW x
      PROVE x \in Holders(e) \ LinkerHolds(l, e)
              <=> InStore(x, e) \/ \E j \in Live(linkers) : j # l /\ \E k \in UsesAt(DefsOf(linkers[j]), e) : x = <<"linker", j, 0, k>>
  <2>1. InStore(x, e) => x \notin LinkerHolds(l, e)
    BY <1>3 DEF InStore
  <2>2. InLinker(x, e) /\ x \notin LinkerHolds(l, e)
          <=> \E j \in Live(linkers) : j # l /\ \E k \in UsesAt(DefsOf(linkers[j]), e) : x = <<"linker", j, 0, k>>
    BY <1>3 DEF InLinker
  <2> QED BY <2>1, <2>2, HolderIs
<1>9. Holders(e)' = (Holders(e) \ LinkerHolds(l, e)) \cup new1
  BY <1>2, <1>7, <1>8, HolderIsNext
<1>10. new1 \cap (Holders(e) \ LinkerHolds(l, e)) = {}
  <2> SUFFICES ASSUME NEW x \in new1, x \in Holders(e) \ LinkerHolds(l, e) PROVE FALSE
    OBVIOUS
  <2>1. PICK k : x = <<"linker", l, 0, k>>
    BY DEF new1
  <2> QED BY <1>8, <2>1 DEF InStore
<1> QED BY <1>1, <1>9, <1>10 DEF new1

\* One store's instances become others.
LEMMA StoreSwap ==
  ASSUME NEW s \in Live(stores), NEW new, ~new.live => new.code = <<>>,
         stores' = [stores EXCEPT ![s] = new], linkers' = linkers, NEW e
  PROVE  /\ StoreHolds(s, e) \subseteq Holders(e)
         /\ Holders(e)' = (Holders(e) \ StoreHolds(s, e)) \cup StoreHolds(s, e)'
         /\ StoreHolds(s, e)' \cap (Holders(e) \ StoreHolds(s, e)) = {}
<1> DEFINE Held(j, x) == \E i \in DOMAIN stores[j].code : \E k \in UsesAt(stores[j].code[i].links, e) : x = <<"store", j, i, k>>
           Other(x) == \E j \in Live(stores) : j # s /\ Held(j, x)
<1>1. StoreHolds(s, e) \subseteq Holders(e)
  BY DEF Holders
<1>2. ASSUME NEW x PROVE InLinker(x, e)' <=> InLinker(x, e)
  BY DEF InLinker, Live
<1>3. ASSUME NEW x
      PROVE /\ x \in StoreHolds(s, e) <=> Held(s, x)
            /\ x \in StoreHolds(s, e)' <=> Held(s, x)'
  BY DEF StoreHolds
<1>4. s \in DOMAIN stores /\ stores[s].live
  BY DEF Live
<1>5. stores'[s] = new /\ DOMAIN stores' = DOMAIN stores /\ \A j \in DOMAIN stores : j # s => stores'[j] = stores[j]
  BY <1>4
<1>6. ASSUME NEW x, NEW j \in DOMAIN stores, j # s PROVE Held(j, x)' <=> Held(j, x)
  BY <1>5, <1>6
<1>7. ASSUME NEW x, Held(s, x)' PROVE s \in Live(stores)'
  BY <1>4, <1>5, <1>7 DEF Live
<1>8. ASSUME NEW x, NEW j PROVE InStore(x, e) <=> \E i \in Live(stores) : Held(i, x)
  BY DEF InStore
<1>9. ASSUME NEW x PROVE InStore(x, e)' <=> \E i \in Live(stores)' : Held(i, x)'
  BY DEF InStore
<1>10. \A j : j # s => (j \in Live(stores)' <=> j \in Live(stores))
  BY <1>5 DEF Live
<1>11. ASSUME NEW x, NEW y, NEW i, NEW j, i # j, Held(i, x), Held(j, y) PROVE x # y
  BY <1>11
<1> HIDE DEF Held
<1>12. Live(stores) \subseteq DOMAIN stores
  BY DEF Live
<1>13. ASSUME NEW x PROVE InStore(x, e)' <=> Held(s, x)' \/ Other(x)
  BY <1>4, <1>6, <1>7, <1>9, <1>10, <1>12
<1>14. ASSUME NEW x PROVE x \in Holders(e) \ StoreHolds(s, e) <=> InLinker(x, e) \/ Other(x)
  <2>1. InLinker(x, e) => ~Held(s, x)
    BY DEF InLinker, Held
  <2>2. Other(x) => ~Held(s, x)
    BY <1>11
  <2>3. InStore(x, e) <=> Held(s, x) \/ Other(x)
    BY <1>8
  <2> QED BY <1>3, <2>1, <2>2, <2>3, HolderIs
<1> HIDE DEF Other
<1>15. Holders(e)' = (Holders(e) \ StoreHolds(s, e)) \cup StoreHolds(s, e)'
  BY <1>2, <1>3, <1>13, <1>14, HolderIsNext
<1>16. StoreHolds(s, e)' \cap (Holders(e) \ StoreHolds(s, e)) = {}
  <2> SUFFICES ASSUME NEW x, Held(s, x)', InLinker(x, e) \/ Other(x) PROVE FALSE
    BY <1>3, <1>14
  <2>1. \E i, k : x = <<"store", s, i, k>>
    BY DEF Held
  <2> QED BY <2>1 DEF InLinker, Other, Held
<1> QED BY <1>1, <1>15, <1>16

LEMMA SameHolders ==
  ASSUME NEW s \in Live(stores), NEW new, new.live, new.code = stores[s].code,
         stores' = [stores EXCEPT ![s] = new], linkers' = linkers, NEW e
  PROVE  Holders(e)' = Holders(e)
<1>1. stores'[s] = new
  BY DEF Live
<1>2. StoreHolds(s, e)' = StoreHolds(s, e)
  BY <1>1 DEF StoreHolds
<1>3. StoreHolds(s, e) \subseteq Holders(e) /\ Holders(e)' = (Holders(e) \ StoreHolds(s, e)) \cup StoreHolds(s, e)'
  BY StoreSwap
<1> QED BY <1>2, <1>3

-----------------------------------------------------------------------------
(* Parts of the invariant that a step leaves alone.                        *)

LEMMA StoresUntouched ==
  ASSUME EmbedderInv, UNCHANGED <<stores, issued, stack>>
  PROVE  StoresKept' /\ HandlesKept' /\ FramesKept'
<1>0. StoresKept'
  BY DEF EmbedderInv, StoresKept
<1>1. HandlesKept'
  <2>1. (\A h \in issued : Issued(h))' /\ (IsFiniteSet(issued) /\ HandlesMade <= MaxHandles)'
    <3>1. \A h : Issued(h)' <=> Issued(h)
      BY DEF Issued
    <3>2. HandlesMade' = HandlesMade
      BY DEF HandlesMade
    <3> QED BY <3>1, <3>2 DEF EmbedderInv, HandlesKept
  <2> QED BY <2>1 DEF EmbedderInv, HandlesKept
<1>2. FramesKept'
  <2>1. \A frame : FrameKept(frame)' <=> FrameKept(frame)
    BY DEF FrameKept, Live, StoreHolds
  <2> QED BY <2>1 DEF EmbedderInv, FramesKept
<1> QED BY <1>0, <1>1, <1>2

LEMMA LinkersUntouched ==
  ASSUME EmbedderInv, UNCHANGED <<linkers, log>>
  PROVE  NamesMeanTheirLastDefinition'
BY DEF EmbedderInv, NamesMeanTheirLastDefinition, Live

\* One linker is redefined; the environments may have grown.
LEMMA LinkerStep ==
  ASSUME EmbedderInv, NEW l \in Live(linkers), NEW new \in LinkerType,
         linkers' = [linkers EXCEPT ![l] = new], UNCHANGED <<stores, issued, stack>>,
         Len(rc') >= Len(rc), rc' \in Seq(Nat), ~new.live => new.defs = <<>>,
         \A k \in DOMAIN new.namespaces :
           LET def == new.namespaces[k].def
           IN def.kind = "instance" =>
                /\ def.instance.store \in DOMAIN stores
                /\ stores[def.instance.store].live => def.instance.index \in DOMAIN stores[def.instance.store].code,
         \A k \in DOMAIN new.defs : new.defs[k].def.kind = "func" => new.defs[k].def.env \in DOMAIN rc'
  PROVE  /\ StoresKept' /\ HandlesKept' /\ FramesKept' /\ LinkersKept' /\ EnvsKnown'
         /\ linkers' \in Seq(LinkerType) /\ Len(linkers') = Len(linkers)
<1>1. StoresKept' /\ HandlesKept' /\ FramesKept'
  BY StoresUntouched
<1>2. linkers \in Seq(LinkerType) /\ rc \in Seq(Nat) /\ l \in DOMAIN linkers
  BY DEF EmbedderInv, Typed, Live
<1>3. linkers' \in Seq(LinkerType) /\ Len(linkers') = Len(linkers) /\ DOMAIN linkers' = DOMAIN linkers
      /\ linkers'[l] = new /\ \A j \in DOMAIN linkers : j # l => linkers'[j] = linkers[j]
  BY <1>2, ChangedSeq
<1>4. LinkersKept'
  <2>1. LinkersKept
    BY DEF EmbedderInv
  <2>2. linkers'[l] = new /\ \A j \in DOMAIN linkers' : j \in DOMAIN linkers /\ (j # l => linkers'[j] = linkers[j])
    BY <1>3
  <2>3. NamesStand(new)
    BY DEF NamesStand
  <2>4. \A j \in DOMAIN linkers' : NamesStand(linkers'[j]) /\ (~linkers'[j].live => linkers'[j].defs = <<>>)
    BY <2>1, <2>2, <2>3 DEF LinkersKept
  <2>5. ASSUME NEW j \in DOMAIN linkers', NamesStand(linkers'[j]) PROVE NamesStand(linkers[j])'
    BY <2>5 DEF NamesStand
  <2> QED BY <2>4, <2>5 DEF LinkersKept
<1>5. DOMAIN rc \subseteq DOMAIN rc'
  BY <1>2
<1>6. EnvsKnown'
  BY <1>3, <1>5 DEF EmbedderInv, EnvsKnown
<1> QED BY <1>1, <1>3, <1>4, <1>6

\* References change in number as the holders do.
LEMMA CountKeeps ==
  ASSUME EmbedderInv, NEW left, left = [e \in DOMAIN rc |-> left[e]], Count(left),
         \A e \in DOMAIN rc : /\ IsFiniteSet(Holders(e)') /\ left[e] = Cardinality(Holders(e)')
                              /\ Holders(e) = {} => Holders(e)' = {}
  PROVE  /\ Counted' /\ rc' \in Seq(Nat) /\ finals' \in Seq(Nat)
         /\ Len(rc') = Len(rc) /\ Len(finals') = Len(rc) /\ DOMAIN rc' = DOMAIN rc
<1>1. rc \in Seq(Nat) /\ finals \in Seq(Nat) /\ Len(rc) = Len(finals) /\ DOMAIN rc = 1..Len(rc) /\ Len(rc) \in Nat
  BY DEF EmbedderInv, Typed
<1>2. rc' = left /\ finals' = [e \in DOMAIN rc |-> finals[e] + (IF rc[e] > 0 /\ left[e] = 0 THEN 1 ELSE 0)]
  BY DEF Count
<1>3. ASSUME NEW e \in DOMAIN rc
      PROVE left[e] \in Nat /\ finals'[e] = (IF left[e] = 0 THEN 1 ELSE 0) /\ finals'[e] \in Nat
  <2>1. rc[e] = Cardinality(Holders(e)) /\ IsFiniteSet(Holders(e)) /\ finals[e] = IF rc[e] = 0 THEN 1 ELSE 0
    BY DEF EmbedderInv, Counted
  <2>2. left[e] \in Nat /\ rc[e] \in Nat
    BY <1>1, FS_CardinalityType
  <2>3. rc[e] = 0 => left[e] = 0
    BY <2>1, FS_EmptySet
  <2>4. finals'[e] = finals[e] + (IF rc[e] > 0 /\ left[e] = 0 THEN 1 ELSE 0)
    BY <1>2
  <2> QED BY <2>1, <2>2, <2>3, <2>4
<1>4. Counted'
  BY <1>2, <1>3 DEF Counted
<1>5. left = [e \in 1..Len(rc) |-> left[e]]
  BY <1>1
<1> QED BY <1>1, <1>2, <1>3, <1>4, <1>5

-----------------------------------------------------------------------------
(* Definitions and their log.                                              *)

LEMMA LastNamedGrows ==
  ASSUME NEW S, NEW q \in Seq(S), NEW d, NEW m, NEW n
  PROVE  LastNamed(Append(q, d), m, n)
           = IF d.def.kind \notin WholeKinds /\ d.module = m /\ d.name = n THEN d.def ELSE LastNamed(q, m, n)
<1> DEFINE t == Append(q, d)
           Matches(x) == x.def.kind \notin WholeKinds /\ x.module = m /\ x.name = n
           A == {k \in DOMAIN q : Matches(q[k])}
           B == {k \in DOMAIN t : Matches(t[k])}
           last(C) == CHOOSE k \in C : \A j \in C : j <= k
<1>1. LastNamed(t, m, n) = IF B = {} THEN Nothing ELSE t[last(B)].def
  BY DEF LastNamed, LastOf
<1>2. LastNamed(q, m, n) = IF A = {} THEN Nothing ELSE q[last(A)].def
  BY DEF LastNamed, LastOf
<1>3. /\ Len(q) \in Nat /\ DOMAIN q = 1..Len(q) /\ DOMAIN t = 1..(Len(q) + 1)
      /\ t[Len(q) + 1] = d /\ \A k \in DOMAIN q : t[k] = q[k]
  OBVIOUS
<1> HIDE DEF t, Matches
<1>4. CASE Matches(d)
  <2>1. Len(q) + 1 \in B /\ \A j \in B : j <= Len(q) + 1 /\ j \in Nat
    BY <1>3, <1>4
  <2> HIDE DEF B
  <2>2. last(B) = Len(q) + 1
    BY <1>3, <2>1
  <2> QED BY <1>1, <1>3, <1>4, <2>1, <2>2 DEF Matches, t
<1>5. CASE ~Matches(d)
  <2>1. B = A
    BY <1>3, <1>5
  <2>2. A # {} => \E k \in A : \A j \in A : j <= k
    <3>1. A \in SUBSET (0..Len(q)) /\ Len(q) \in Nat
      BY <1>3
    <3> HIDE DEF A
    <3> QED BY <3>1, GreatestNumber
  <2>3. A # {} => last(A) \in DOMAIN q
    <3>1. A \subseteq DOMAIN q
      OBVIOUS
    <3> HIDE DEF A
    <3> QED BY <2>2, <3>1
  <2> QED BY <1>1, <1>2, <1>3, <1>5, <2>1, <2>3 DEF Matches, t
<1> QED BY <1>4, <1>5

LEMMA LastWholeGrows ==
  ASSUME NEW S, NEW q \in Seq(S), NEW d, NEW m
  PROVE  LastWhole(Append(q, d), m)
           = IF d.def.kind \in WholeKinds /\ d.module = m THEN d.def ELSE LastWhole(q, m)
<1> DEFINE t == Append(q, d)
           Matches(x) == x.def.kind \in WholeKinds /\ x.module = m
           A == {k \in DOMAIN q : Matches(q[k])}
           B == {k \in DOMAIN t : Matches(t[k])}
           last(C) == CHOOSE k \in C : \A j \in C : j <= k
<1>1. LastWhole(t, m) = IF B = {} THEN Nothing ELSE t[last(B)].def
  BY DEF LastWhole, LastOf
<1>2. LastWhole(q, m) = IF A = {} THEN Nothing ELSE q[last(A)].def
  BY DEF LastWhole, LastOf
<1>3. /\ Len(q) \in Nat /\ DOMAIN q = 1..Len(q) /\ DOMAIN t = 1..(Len(q) + 1)
      /\ t[Len(q) + 1] = d /\ \A k \in DOMAIN q : t[k] = q[k]
  OBVIOUS
<1> HIDE DEF t, Matches
<1>4. CASE Matches(d)
  <2>1. Len(q) + 1 \in B /\ \A j \in B : j <= Len(q) + 1 /\ j \in Nat
    BY <1>3, <1>4
  <2> HIDE DEF B
  <2>2. last(B) = Len(q) + 1
    BY <1>3, <2>1
  <2> QED BY <1>1, <1>3, <1>4, <2>1, <2>2 DEF Matches, t
<1>5. CASE ~Matches(d)
  <2>1. B = A
    BY <1>3, <1>5
  <2>2. A # {} => \E k \in A : \A j \in A : j <= k
    <3>1. A \in SUBSET (0..Len(q)) /\ Len(q) \in Nat
      BY <1>3
    <3> HIDE DEF A
    <3> QED BY <3>1, GreatestNumber
  <2>3. A # {} => last(A) \in DOMAIN q
    <3>1. A \subseteq DOMAIN q
      OBVIOUS
    <3> HIDE DEF A
    <3> QED BY <2>2, <3>1
  <2> QED BY <1>1, <1>2, <1>3, <1>5, <2>1, <2>3 DEF Matches, t
<1> QED BY <1>4, <1>5

\* A step that adds one entry to the log of one linker, or clears it.
LEMMA NamesStep ==
  ASSUME EmbedderInv, NEW l \in Live(linkers), NEW new \in LinkerType, NEW made \in LogType,
         linkers' = [linkers EXCEPT ![l] = new], log' = [log EXCEPT ![l] = made],
         new.live => \A imp \in AllImports :
           /\ Exact(new, imp.module, imp.name) = LastNamed(made, imp.module, imp.name)
           /\ Whole(new, imp.module) = LastWhole(made, imp.module)
  PROVE  NamesMeanTheirLastDefinition' /\ log' \in Seq(LogType) /\ Len(log') = Len(linkers)
<1>1. linkers \in Seq(LinkerType) /\ log \in Seq(LogType) /\ Len(log) = Len(linkers) /\ l \in DOMAIN linkers
  BY DEF EmbedderInv, Typed, Live
<1>2. l \in DOMAIN log
  BY <1>1
<1>3. DOMAIN linkers' = DOMAIN linkers /\ linkers'[l] = new /\ \A j \in DOMAIN linkers : j # l => linkers'[j] = linkers[j]
  BY <1>1, ChangedSeq
<1>4. log' \in Seq(LogType) /\ Len(log') = Len(log) /\ log'[l] = made /\ \A j \in DOMAIN log : j # l => log'[j] = log[j]
  BY <1>1, <1>2, ChangedSeq
<1>5. DOMAIN log = DOMAIN linkers
  BY <1>1
<1>6. NamesMeanTheirLastDefinition'
  BY <1>3, <1>4, <1>5 DEF EmbedderInv, NamesMeanTheirLastDefinition, Live
<1> QED BY <1>1, <1>4, <1>6

\* Definitions that were there before.
Carried(was, new) == {k \in DOMAIN new.defs : \E j \in DOMAIN was.defs : new.defs[k].def = was.defs[j].def}

LEMMA RedefinedCounts ==
  ASSUME EmbedderInv, NEW l \in Live(linkers), NEW given, NEW new \in LinkerType, given.defs = new.defs,
         ~new.live => new.defs = <<>>, linkers' = [linkers EXCEPT ![l] = new], stores' = stores,
         NEW e \in DOMAIN rc
  PROVE  /\ IsFiniteSet(Holders(e)') /\ Redefined(l, given)[e] = Cardinality(Holders(e)')
         /\ Holders(e) = {} /\ UsesAt(DefsOf(new), e) \subseteq Carried(linkers[l], new) => Holders(e)' = {}
<1> DEFINE old == UsesAt(DefsOf(linkers[l]), e)
           now == UsesAt(DefsOf(new), e)
           Added == {<<"linker", l, 0, k>> : k \in now}
<1>1. linkers \in Seq(LinkerType) /\ linkers[l] \in LinkerType
  BY DEF EmbedderInv, Typed, Live
<1>2. DefsOf(linkers[l]) \in Seq(NamedDefs) /\ DefsOf(new) \in Seq(NamedDefs)
  BY <1>1, DefsOfIsList
<1>3. IsFiniteSet(old) /\ IsFiniteSet(now)
  BY <1>2, UsesAreFinite
<1>4. /\ LinkerHolds(l, e) \subseteq Holders(e)
      /\ Holders(e)' = (Holders(e) \ LinkerHolds(l, e)) \cup Added
      /\ Added \cap (Holders(e) \ LinkerHolds(l, e)) = {}
  BY LinkerSwap
<1>5. IsFiniteSet(Holders(e)) /\ rc[e] = Cardinality(Holders(e))
  BY DEF EmbedderInv, Counted
<1> HIDE DEF old, now
<1>6. IsFiniteSet(Added) /\ Cardinality(Added) = Cardinality(now)
  <2>1. Added = Tuples("linker", l, 0, now)
    BY DEF Tuples
  <2> QED BY <1>3, <2>1, TuplesCounted
<1>7. LinkerHolds(l, e) = {<<"linker", l, 0, k>> : k \in old}
  BY DEF LinkerHolds, old
<1>8. Cardinality(LinkerHolds(l, e)) = Cardinality(old)
  <2>1. LinkerHolds(l, e) = Tuples("linker", l, 0, old)
    BY <1>7 DEF Tuples
  <2> QED BY <1>3, <2>1, TuplesCounted
<1> HIDE DEF Added
<1>9. IsFiniteSet(Holders(e)')
      /\ Cardinality(Holders(e)') = Cardinality(Holders(e)) - Cardinality(LinkerHolds(l, e)) + Cardinality(Added)
  BY <1>4, <1>5, <1>6, Swapped
<1>10. DefsOf(given) = DefsOf(new)
  BY DEF DefsOf
<1>11. Redefined(l, given)[e] = rc[e] + Cardinality(now) - Cardinality(old)
  BY <1>10 DEF Redefined, Uses, now, old
<1>12. Cardinality(now) \in Nat /\ Cardinality(old) \in Nat /\ Cardinality(Holders(e)) \in Nat
  BY <1>3, <1>5, FS_CardinalityType
<1>13. Redefined(l, given)[e] = Cardinality(Holders(e)')
  BY <1>5, <1>6, <1>8, <1>9, <1>11, <1>12
<1>14. ASSUME Holders(e) = {}, now \subseteq Carried(linkers[l], new)
       PROVE Holders(e)' = {}
  <2>1. now = {}
    <3> SUFFICES ASSUME NEW k \in now PROVE FALSE
      OBVIOUS
    <3>1. PICK j \in DOMAIN linkers[l].defs : new.defs[k].def = linkers[l].defs[j].def
      BY <1>14 DEF Carried
    <3>2. DefsOf(new)[k].kind = "func" /\ DefsOf(new)[k].env = e /\ DefsOf(new)[k] = new.defs[k].def
      BY <1>14, DefsOfIsList DEF now, UsesAt
    <3>3. DefsOf(linkers[l])[j] = linkers[l].defs[j].def /\ j \in DOMAIN DefsOf(linkers[l])
      BY <1>1, DefsOfIsList
    <3>4. j \in old
      BY <3>1, <3>2, <3>3 DEF old, UsesAt
    <3>5. <<"linker", l, 0, j>> \in Holders(e)
      BY <1>4, <1>7, <3>4
    <3> QED BY <1>14, <3>5
  <2>2. Added = {}
    BY <2>1 DEF Added
  <2> QED BY <1>4, <1>14, <2>2
<1> QED BY <1>9, <1>13, <1>14 DEF now

Redefines(l, new, def) ==
  /\ new \in LinkerType /\ new.live = l.live /\ new.namespaces = l.namespaces
  /\ new.defs # <<>> /\ new.defs[Len(new.defs)].def = def
  /\ \A k \in DOMAIN new.defs :
       k = Len(new.defs) \/ \E j \in DOMAIN l.defs : new.defs[k].def = l.defs[j].def

LEMMA Defined ==
  ASSUME NEW l \in LinkerType, NEW module \in ModuleNames, NEW name \in Names, NEW def \in NamedDefs
  PROVE  Redefines(l, Define(l, module, name, def), def)
<1> DEFINE kept == {k \in DOMAIN l.defs : ~(l.defs[k].module = module /\ l.defs[k].name = name)}
           r == Retained(l.defs, kept)
           t == Append(r, Def(module, name, def))
           new == Define(l, module, name, def)
<1>1. new = [l EXCEPT !.defs = t]
  BY DEF Define
<1>2. l.defs \in Seq(NamedEntry) /\ kept \in SUBSET (DOMAIN l.defs)
  BY LinkerParts
<1> HIDE DEF kept
<1>3. r \in Seq(NamedEntry) /\ Len(r) = Cardinality(kept)
      /\ \A m \in 1..Cardinality(kept) : \E k \in kept : r[m] = l.defs[k]
  BY <1>2, RetainedKeeps
<1> HIDE DEF r
<1>4. Def(module, name, def) \in NamedEntry /\ Def(module, name, def).def = def
  BY DEF Def, NamedEntry
<1>5. /\ t \in Seq(NamedEntry) /\ Len(t) = Len(r) + 1 /\ Len(r) \in Nat /\ DOMAIN t = 1..(Len(r) + 1)
      /\ t[Len(r) + 1] = Def(module, name, def)
      /\ DOMAIN r = 1..Len(r) /\ \A k \in DOMAIN r : t[k] = r[k]
  BY <1>3, <1>4, LongerSeq
<1> HIDE DEF t
<1>6. new \in LinkerType /\ new.live = l.live /\ new.namespaces = l.namespaces /\ new.defs = t
  BY <1>1, <1>5 DEF LinkerType
<1>7. \A k \in DOMAIN t : k = Len(t) \/ \E j \in DOMAIN l.defs : t[k].def = l.defs[j].def
  BY <1>2, <1>3, <1>5
<1>8. t # <<>> /\ t[Len(t)].def = def
  BY <1>4, <1>5
<1> QED BY <1>6, <1>7, <1>8 DEF Redefines

LEMMA ModuleDefined ==
  ASSUME NEW l \in LinkerType, NEW module \in ModuleNames, NEW def \in WholeDefs
  PROVE  LET new == DefineModule(l, module, def)
         IN /\ new \in LinkerType /\ new.live = l.live /\ new.defs = l.defs
            /\ \A k \in DOMAIN new.namespaces :
                 \/ new.namespaces[k].def = def
                 \/ \E j \in DOMAIN l.namespaces : new.namespaces[k].def = l.namespaces[j].def
<1> DEFINE kept == {k \in DOMAIN l.namespaces : l.namespaces[k].module # module}
           r == Retained(l.namespaces, kept)
           t == Append(r, Namespace(module, def))
           new == DefineModule(l, module, def)
<1>1. new = [l EXCEPT !.namespaces = t]
  BY DEF DefineModule
<1>2. l.namespaces \in Seq(WholeEntry) /\ kept \in SUBSET (DOMAIN l.namespaces)
  BY LinkerParts
<1> HIDE DEF kept
<1>3. r \in Seq(WholeEntry) /\ Len(r) = Cardinality(kept)
      /\ \A m \in 1..Cardinality(kept) : \E k \in kept : r[m] = l.namespaces[k]
  BY <1>2, RetainedKeeps
<1> HIDE DEF r
<1>4. Namespace(module, def) \in WholeEntry /\ Namespace(module, def).def = def
  BY DEF Namespace, WholeEntry
<1>5. /\ t \in Seq(WholeEntry) /\ Len(t) = Len(r) + 1 /\ Len(r) \in Nat /\ DOMAIN t = 1..(Len(r) + 1)
      /\ t[Len(r) + 1] = Namespace(module, def)
      /\ DOMAIN r = 1..Len(r) /\ \A k \in DOMAIN r : t[k] = r[k]
  BY <1>3, <1>4, LongerSeq
<1> HIDE DEF t
<1>6. new \in LinkerType /\ new.live = l.live /\ new.defs = l.defs /\ new.namespaces = t
  BY <1>1, <1>5 DEF LinkerType
<1>7. \A k \in DOMAIN t : t[k].def = def \/ \E j \in DOMAIN l.namespaces : t[k].def = l.namespaces[j].def
  BY <1>2, <1>3, <1>4, <1>5
<1> QED BY <1>6, <1>7

-----------------------------------------------------------------------------
(* Linkers: each step keeps the invariant.                                 *)

LEMMA LinkerDeleteKeeps ==
  ASSUME EmbedderInv, NEW l \in FreeLinkers, LinkerDelete(l)
  PROVE  EmbedderInv'
<1> DEFINE new == [linkers[l] EXCEPT !.live = FALSE, !.defs = <<>>]
           given == [linkers[l] EXCEPT !.defs = <<>>]
           left == Redefined(l, given)
<1>1. l \in Live(linkers) /\ l \in DOMAIN linkers
  BY DEF FreeLinkers, Live
<1>2. linkers \in Seq(LinkerType) /\ linkers[l] \in LinkerType
  BY <1>1 DEF EmbedderInv, Typed
<1>3. new \in LinkerType /\ ~new.live /\ new.defs = <<>> /\ given.defs = <<>> /\ new.namespaces = linkers[l].namespaces
  <2>1. <<>> \in Seq(NamedEntry)
    OBVIOUS
  <2>2. new \in LinkerType
    BY <1>2, <2>1 DEF LinkerType
  <2>3. ~new.live /\ new.defs = <<>> /\ given.defs = <<>> /\ new.namespaces = linkers[l].namespaces
    BY <1>2 DEF LinkerType
  <2> QED BY <2>2, <2>3
<1>4. linkers' = [linkers EXCEPT ![l] = new]
  BY <1>1, <1>2 DEF LinkerDelete
<1>5. Count(left) /\ UNCHANGED <<stores, issued, nextTag, stack, parked, exits>> /\ outcome' = Ok /\ log' = [log EXCEPT ![l] = <<>>]
  BY DEF LinkerDelete, SameHandles, Quietly, Report
<1> HIDE DEF new, given
<1>6. ASSUME NEW e \in DOMAIN rc
      PROVE IsFiniteSet(Holders(e)') /\ left[e] = Cardinality(Holders(e)') /\ (Holders(e) = {} => Holders(e)' = {})
  <2>1. UsesAt(DefsOf(new), e) = {}
    <3>1. DOMAIN DefsOf(new) = {}
      BY <1>3 DEF DefsOf
    <3> QED BY <3>1 DEF UsesAt
  <2>2. given.defs = new.defs /\ (~new.live => new.defs = <<>>) /\ stores' = stores
    BY <1>3, <1>5
  <2> HIDE DEF left
  <2> QED BY <1>1, <1>3, <1>4, <2>1, <2>2, RedefinedCounts DEF left
<1>7. left = [e \in DOMAIN rc |-> left[e]]
  BY DEF Redefined
<1>8. /\ Counted' /\ rc' \in Seq(Nat) /\ finals' \in Seq(Nat)
      /\ Len(rc') = Len(rc) /\ Len(finals') = Len(rc) /\ DOMAIN rc' = DOMAIN rc
  <2> HIDE DEF left
  <2> QED BY <1>5, <1>6, <1>7, CountKeeps
<1>9. /\ StoresKept' /\ HandlesKept' /\ FramesKept' /\ LinkersKept' /\ EnvsKnown'
      /\ linkers' \in Seq(LinkerType) /\ Len(linkers') = Len(linkers)
  <2>1. \A k \in DOMAIN new.namespaces :
           LET def == new.namespaces[k].def
           IN def.kind = "instance" =>
                /\ def.instance.store \in DOMAIN stores
                /\ stores[def.instance.store].live => def.instance.index \in DOMAIN stores[def.instance.store].code
    BY <1>1, <1>3 DEF EmbedderInv, LinkersKept, NamesStand
  <2>2. \A k \in DOMAIN new.defs : new.defs[k].def.kind = "func" => new.defs[k].def.env \in DOMAIN rc'
    BY <1>3
  <2>3. Len(rc') >= Len(rc)
    BY <1>8
  <2> QED BY <1>1, <1>3, <1>4, <1>5, <1>8, <2>1, <2>2, <2>3, LinkerStep
<1>10. NamesMeanTheirLastDefinition' /\ log' \in Seq(LogType) /\ Len(log') = Len(linkers)
  <2>1. <<>> \in LogType
    BY DEF LogType
  <2> QED BY <1>1, <1>3, <1>4, <1>5, <2>1, NamesStep
<1>11. Outcomes'
  BY <1>5 DEF EmbedderInv, Outcomes, TrapsCarryTheirMessage, Ok
<1>12. Typed'
  BY <1>5, <1>8, <1>9, <1>10 DEF EmbedderInv, Typed
<1> QED BY <1>8, <1>9, <1>10, <1>11, <1>12 DEF EmbedderInv

\* What the names mean when one more is defined.
LEMMA NamedMeans ==
  ASSUME EmbedderInv, NEW l \in Live(linkers), NEW module \in ModuleNames, NEW name \in Names,
         NEW def \in NamedDefs
  PROVE  LET new == Define(linkers[l], module, name, def)
             made == Append(log[l], Def(module, name, def))
         IN /\ made \in LogType
            /\ \A imp \in AllImports :
                 /\ Exact(new, imp.module, imp.name) = LastNamed(made, imp.module, imp.name)
                 /\ Whole(new, imp.module) = LastWhole(made, imp.module)
<1> DEFINE new == Define(linkers[l], module, name, def)
           d == Def(module, name, def)
           made == Append(log[l], d)
           T == [module : ModuleNames, name : Names \cup {""}, def : NamedDefs \cup WholeDefs]
<1>1. linkers[l] \in LinkerType /\ log[l] \in LogType /\ l \in DOMAIN linkers
  BY DEF EmbedderInv, Typed, Live
<1>2. log[l] \in Seq(T)
  BY <1>1 DEF LogType
<1>3. d \in T /\ d.module = module /\ d.name = name /\ d.def = def
  BY DEF Def
<1>4. def.kind \notin WholeKinds
  BY DEF NamedDefs, WholeKinds
<1> HIDE DEF T, d
<1>5. made \in LogType
  <2>1. made \in Seq(T)
    BY <1>2, <1>3
  <2> QED BY <2>1 DEF LogType, T
<1>6. ASSUME NEW imp \in AllImports
      PROVE /\ Exact(new, imp.module, imp.name) = LastNamed(made, imp.module, imp.name)
            /\ Whole(new, imp.module) = LastWhole(made, imp.module)
  <2>1. /\ Exact(linkers[l], imp.module, imp.name) = LastNamed(log[l], imp.module, imp.name)
        /\ Whole(linkers[l], imp.module) = LastWhole(log[l], imp.module)
    BY DEF EmbedderInv, NamesMeanTheirLastDefinition
  <2>2. Exact(new, imp.module, imp.name)
          = IF imp.module = module /\ imp.name = name THEN def ELSE Exact(linkers[l], imp.module, imp.name)
    <3>1. "defs" \in DOMAIN linkers[l] /\ linkers[l].defs \in Seq(NamedEntry)
      BY <1>1 DEF LinkerType
    <3> QED BY <3>1, DefineMeans
  <2>3. LastNamed(made, imp.module, imp.name)
          = IF imp.module = module /\ imp.name = name THEN def ELSE LastNamed(log[l], imp.module, imp.name)
    BY <1>2, <1>3, <1>4, LastNamedGrows
  <2>4. Whole(new, imp.module) = Whole(linkers[l], imp.module)
    <3>1. new.namespaces = linkers[l].namespaces
      <4>1. Redefines(linkers[l], new, def)
        BY <1>1, Defined
      <4> QED BY <4>1 DEF Redefines
    <3> HIDE DEF new
    <3> QED BY <3>1 DEF Whole
  <2>5. LastWhole(made, imp.module) = LastWhole(log[l], imp.module)
    BY <1>2, <1>3, <1>4, LastWholeGrows
  <2> HIDE DEF new, made
  <2> QED BY <2>1, <2>2, <2>3, <2>4, <2>5
<1> QED BY <1>5, <1>6 DEF d

LEMMA WholeMeans ==
  ASSUME EmbedderInv, NEW l \in Live(linkers), NEW module \in ModuleNames,
         NEW def \in WholeDefs
  PROVE  LET new == DefineModule(linkers[l], module, def)
             made == Append(log[l], Def(module, "", def))
         IN /\ made \in LogType
            /\ \A imp \in AllImports :
                 /\ Exact(new, imp.module, imp.name) = LastNamed(made, imp.module, imp.name)
                 /\ Whole(new, imp.module) = LastWhole(made, imp.module)
<1> DEFINE new == DefineModule(linkers[l], module, def)
           d == Def(module, "", def)
           made == Append(log[l], d)
           T == [module : ModuleNames, name : Names \cup {""}, def : NamedDefs \cup WholeDefs]
<1>1. linkers[l] \in LinkerType /\ log[l] \in LogType /\ l \in DOMAIN linkers
  BY DEF EmbedderInv, Typed, Live
<1>2. log[l] \in Seq(T)
  BY <1>1 DEF LogType
<1>3. d \in T /\ d.module = module /\ d.def = def
  BY DEF Def
<1>4. def.kind \in WholeKinds
  BY DEF WholeDefs, WholeKinds
<1> HIDE DEF T, d
<1>5. made \in LogType
  <2>1. made \in Seq(T)
    BY <1>2, <1>3
  <2> QED BY <2>1 DEF LogType, T
<1>6. ASSUME NEW imp \in AllImports
      PROVE /\ Exact(new, imp.module, imp.name) = LastNamed(made, imp.module, imp.name)
            /\ Whole(new, imp.module) = LastWhole(made, imp.module)
  <2>1. /\ Exact(linkers[l], imp.module, imp.name) = LastNamed(log[l], imp.module, imp.name)
        /\ Whole(linkers[l], imp.module) = LastWhole(log[l], imp.module)
    BY DEF EmbedderInv, NamesMeanTheirLastDefinition
  <2>2. Whole(new, imp.module) = IF imp.module = module THEN def ELSE Whole(linkers[l], imp.module)
    <3>1. "namespaces" \in DOMAIN linkers[l] /\ linkers[l].namespaces \in Seq(WholeEntry)
      BY <1>1 DEF LinkerType
    <3> QED BY <3>1, DefineModuleMeans
  <2>3. LastWhole(made, imp.module) = IF imp.module = module THEN def ELSE LastWhole(log[l], imp.module)
    BY <1>2, <1>3, <1>4, LastWholeGrows
  <2>4. Exact(new, imp.module, imp.name) = Exact(linkers[l], imp.module, imp.name)
    <3>1. new.defs = linkers[l].defs
      BY <1>1, ModuleDefined
    <3> HIDE DEF new
    <3> QED BY <3>1 DEF Exact
  <2>5. LastNamed(made, imp.module, imp.name) = LastNamed(log[l], imp.module, imp.name)
    BY <1>2, <1>3, <1>4, LastNamedGrows
  <2> HIDE DEF new, made
  <2> QED BY <2>1, <2>2, <2>3, <2>4, <2>5
<1> QED BY <1>5, <1>6 DEF d

\* A step that only reports.
LEMMA Stays ==
  ASSUME EmbedderInv, UNCHANGED <<nextTag, issued, rc, finals, stores, linkers, log, parked, exits, stack>>,
         Outcomes'
  PROVE  EmbedderInv'
<1>1. StoresKept' /\ HandlesKept' /\ FramesKept' /\ NamesMeanTheirLastDefinition'
  BY StoresUntouched, LinkersUntouched
<1>2. LinkersKept' /\ EnvsKnown' /\ Typed'
  BY DEF EmbedderInv, LinkersKept, NamesStand, EnvsKnown, Typed
<1>3. Counted'
  <2>1. \A e : Holders(e)' = Holders(e)
    BY DEF Holders, LinkerHolds, StoreHolds, Live
  <2> QED BY <2>1 DEF EmbedderInv, Counted
<1> QED BY <1>1, <1>2, <1>3 DEF EmbedderInv

\* A step that redefines one linker and leaves the stores alone.
LEMMA LinkerChangeKeeps ==
  ASSUME EmbedderInv, NEW l \in Live(linkers), NEW new \in LinkerType, new.live, NEW made \in LogType,
         linkers' = [linkers EXCEPT ![l] = new], log' = [log EXCEPT ![l] = made],
         \A imp \in AllImports :
           /\ Exact(new, imp.module, imp.name) = LastNamed(made, imp.module, imp.name)
           /\ Whole(new, imp.module) = LastWhole(made, imp.module),
         UNCHANGED <<stores, issued, stack, nextTag, parked>>, outcome' = Ok, exits' \in Seq(BOOLEAN),
         Counted', rc' \in Seq(Nat), finals' \in Seq(Nat), Len(rc') >= Len(rc), Len(finals') = Len(rc'),
         \A k \in DOMAIN new.namespaces :
           LET def == new.namespaces[k].def
           IN def.kind = "instance" =>
                /\ def.instance.store \in DOMAIN stores
                /\ stores[def.instance.store].live => def.instance.index \in DOMAIN stores[def.instance.store].code,
         \A k \in DOMAIN new.defs : new.defs[k].def.kind = "func" => new.defs[k].def.env \in DOMAIN rc'
  PROVE  EmbedderInv'
<1>1. /\ StoresKept' /\ HandlesKept' /\ FramesKept' /\ LinkersKept' /\ EnvsKnown'
      /\ linkers' \in Seq(LinkerType) /\ Len(linkers') = Len(linkers)
  BY LinkerStep
<1>2. NamesMeanTheirLastDefinition' /\ log' \in Seq(LogType) /\ Len(log') = Len(linkers)
  BY NamesStep
<1>3. Outcomes'
  BY DEF EmbedderInv, Outcomes, TrapsCarryTheirMessage, Ok
<1>4. Typed'
  BY <1>1, <1>2 DEF EmbedderInv, Typed
<1> QED BY <1>1, <1>2, <1>3, <1>4 DEF EmbedderInv

\* Environments do not change hands when whole modules are defined.
LEMMA SameDefsCounted ==
  ASSUME EmbedderInv, NEW l \in Live(linkers), NEW new \in LinkerType, new.live, new.defs = linkers[l].defs,
         linkers' = [linkers EXCEPT ![l] = new], UNCHANGED <<stores, rc, finals>>
  PROVE  /\ Counted' /\ rc' \in Seq(Nat) /\ finals' \in Seq(Nat) /\ Len(rc') >= Len(rc) /\ Len(finals') = Len(rc')
         /\ \A k \in DOMAIN new.defs : new.defs[k].def.kind = "func" => new.defs[k].def.env \in DOMAIN rc'
<1>1. ASSUME NEW e PROVE Holders(e)' = Holders(e)
  <2>1. /\ LinkerHolds(l, e) \subseteq Holders(e)
        /\ Holders(e)' = (Holders(e) \ LinkerHolds(l, e)) \cup {<<"linker", l, 0, k>> : k \in UsesAt(DefsOf(new), e)}
    BY LinkerSwap
  <2>2. DefsOf(new) = DefsOf(linkers[l])
    BY DEF DefsOf
  <2>3. {<<"linker", l, 0, k>> : k \in UsesAt(DefsOf(new), e)} = LinkerHolds(l, e)
    BY <2>2 DEF LinkerHolds
  <2> QED BY <2>1, <2>3
<1>2. Counted'
  BY <1>1 DEF EmbedderInv, Counted
<1>3. rc \in Seq(Nat) /\ finals \in Seq(Nat) /\ Len(rc) = Len(finals) /\ Len(rc) \in Nat
  BY DEF EmbedderInv, Typed
<1>4. \A k \in DOMAIN new.defs : new.defs[k].def.kind = "func" => new.defs[k].def.env \in DOMAIN rc
  BY DEF EmbedderInv, EnvsKnown, Live
<1> QED BY <1>2, <1>3, <1>4

LEMMA DefineInstanceKeeps ==
  ASSUME EmbedderInv, NEW l \in FreeLinkers, NEW s \in FreeStores, NEW imp \in AllImports,
         NEW h \in HandlesOf("instance"), DefineInstance(l, s, imp.module, h)
  PROVE  EmbedderInv'
<1> DEFINE found == InstanceOf(stores[s], h.id)
           def == [kind |-> "instance", instance |-> found.instance]
           new == DefineModule(linkers[l], imp.module, def)
           made == Append(log[l], Def(imp.module, "", def))
<1>1. l \in Live(linkers) /\ linkers[l] \in LinkerType /\ linkers[l].live
      /\ s \in Live(stores) /\ stores[s] \in StoreType /\ stores[s].live /\ s \in DOMAIN stores
  BY DEF FreeLinkers, FreeStores, Live, EmbedderInv, Typed
<1>2. h.id \in Nat
  BY DEF HandlesOf, EmbedderInv, Typed, HandleType
<1>3. imp.module \in ModuleNames
  BY DEF ModuleNames
<1>4. CASE found = NotFound
  <2>1. UNCHANGED <<nextTag, issued, rc, finals, stores, linkers, log, parked, exits, stack>>
        /\ outcome' = Error("foreign instance")
    BY <1>4 DEF DefineInstance, Report, SameHandles, SameEnvs
  <2>2. Outcomes'
    BY <2>1 DEF EmbedderInv, Outcomes, TrapsCarryTheirMessage, Error
  <2> QED BY <2>1, <2>2, Stays
<1>5. CASE found # NotFound
  <2>1. /\ linkers' = [linkers EXCEPT ![l] = new] /\ log' = [log EXCEPT ![l] = made]
        /\ UNCHANGED <<stores, rc, finals, nextTag, issued, parked, exits, stack>> /\ outcome' = Ok
    <3>1. l \in DOMAIN log
      BY <1>1 DEF EmbedderInv, Typed, Live
    <3> QED BY <1>5, <3>1 DEF DefineInstance, SetLinker, Logged, SameHandles, SameEnvs, Report
  <2>2. \E k \in DOMAIN stores[s].instances : found = stores[s].instances[k]
    <3>1. stores[s].id = s /\ stores[s].tag = TagOf(s) /\ s \in Nat
      BY <1>1 DEF EmbedderInv, StoresKept, Typed
    <3>2. Unpack(h.id, stores[s].tag) \in Int
      BY <1>2, UnpackedIsSlot
    <3>3. stores[s].instances \in Seq(SlotType)
      BY <1>1, StoreParts
    <3> QED BY <1>5, <3>2, <3>3, FoundAt DEF InstanceOf
  <2>3. PICK k \in DOMAIN stores[s].instances : found = stores[s].instances[k]
    BY <2>2
  <2>4. found.instance \in InstanceIds
    <3>1. stores[s].instances \in Seq(SlotType)
      BY <1>1, StoreParts
    <3>2. stores[s].instances[k] \in SlotType
      BY <3>1
    <3> QED BY <2>3, <3>2 DEF SlotType
  <2>5. found.instance.store = s /\ found.instance.index \in DOMAIN stores[s].code
    BY <1>1, <2>3 DEF EmbedderInv, StoresKept, InstancesStay
  <2> HIDE DEF found
  <2>6. def \in WholeDefs
    BY <2>4 DEF WholeDefs
  <2>7. def.kind = "instance" /\ def.instance = found.instance
    OBVIOUS
  <2> HIDE DEF def
  <2>8. /\ new \in LinkerType /\ new.live = linkers[l].live /\ new.defs = linkers[l].defs
        /\ \A j \in DOMAIN new.namespaces :
             \/ new.namespaces[j].def = def
             \/ \E i \in DOMAIN linkers[l].namespaces : new.namespaces[j].def = linkers[l].namespaces[i].def
    BY <1>1, <1>3, <2>6, ModuleDefined
  <2>9. /\ made \in LogType
        /\ \A i \in AllImports :
             /\ Exact(new, i.module, i.name) = LastNamed(made, i.module, i.name)
             /\ Whole(new, i.module) = LastWhole(made, i.module)
    BY <1>1, <1>3, <2>6, WholeMeans
  <2> HIDE DEF new, made
  <2>10. /\ Counted' /\ rc' \in Seq(Nat) /\ finals' \in Seq(Nat) /\ Len(rc') >= Len(rc) /\ Len(finals') = Len(rc')
         /\ \A j \in DOMAIN new.defs : new.defs[j].def.kind = "func" => new.defs[j].def.env \in DOMAIN rc'
    BY <1>1, <2>1, <2>8, SameDefsCounted
  <2>11. ASSUME NEW j \in DOMAIN new.namespaces, new.namespaces[j].def.kind = "instance"
         PROVE /\ new.namespaces[j].def.instance.store \in DOMAIN stores
               /\ stores[new.namespaces[j].def.instance.store].live =>
                    new.namespaces[j].def.instance.index \in DOMAIN stores[new.namespaces[j].def.instance.store].code
    <3>1. CASE new.namespaces[j].def = def
      BY <1>1, <2>5, <2>7, <3>1
    <3>2. CASE \E i \in DOMAIN linkers[l].namespaces : new.namespaces[j].def = linkers[l].namespaces[i].def
      BY <1>1, <2>11, <3>2 DEF EmbedderInv, LinkersKept, NamesStand, Live
    <3> QED BY <2>8, <3>1, <3>2
  <2>12. exits' \in Seq(BOOLEAN)
    BY <2>1 DEF EmbedderInv, Typed
  <2> QED BY <1>1, <2>1, <2>8, <2>9, <2>10, <2>11, <2>12, LinkerChangeKeeps
<1> QED BY <1>4, <1>5

LEMMA DefineWasiKeeps ==
  ASSUME EmbedderInv, NEW l \in FreeLinkers, DefineWasi(l)
  PROVE  EmbedderInv'
<1> DEFINE def == [kind |-> "namespace", ctx |-> Len(exits) + 1]
           defined == DefineModule(linkers[l], "wasi", def)
           new == [defined EXCEPT !.wasi = def.ctx]
           made == Append(log[l], Def("wasi", "", def))
<1>1. l \in Live(linkers) /\ linkers[l] \in LinkerType /\ linkers[l].live /\ exits \in Seq(BOOLEAN) /\ l \in DOMAIN log
  BY DEF FreeLinkers, Live, EmbedderInv, Typed
<1>2. def \in WholeDefs /\ def.ctx \in Nat /\ def.kind # "instance" /\ "wasi" \in ModuleNames
  BY <1>1 DEF WholeDefs, ModuleNames
<1>3. /\ linkers' = [linkers EXCEPT ![l] = new] /\ log' = [log EXCEPT ![l] = made]
      /\ UNCHANGED <<stores, rc, finals, nextTag, issued, parked, stack>> /\ outcome' = Ok
      /\ exits' = Append(exits, FALSE)
  BY <1>1 DEF DefineWasi, SetLinker, Logged, SameHandles, SameEnvs
<1> HIDE DEF def
<1>4. /\ defined \in LinkerType /\ defined.live = linkers[l].live /\ defined.defs = linkers[l].defs
      /\ \A j \in DOMAIN defined.namespaces :
           \/ defined.namespaces[j].def = def
           \/ \E i \in DOMAIN linkers[l].namespaces : defined.namespaces[j].def = linkers[l].namespaces[i].def
  BY <1>1, <1>2, ModuleDefined
<1>5. /\ made \in LogType
      /\ \A i \in AllImports :
           /\ Exact(defined, i.module, i.name) = LastNamed(made, i.module, i.name)
           /\ Whole(defined, i.module) = LastWhole(made, i.module)
  BY <1>1, <1>2, WholeMeans
<1> HIDE DEF defined, made
<1>6. /\ new \in LinkerType /\ new.live /\ new.defs = linkers[l].defs /\ new.namespaces = defined.namespaces
      /\ new.defs = defined.defs
  BY <1>1, <1>2, <1>4 DEF LinkerType
<1> HIDE DEF new
<1>7. \A i \in AllImports : /\ Exact(new, i.module, i.name) = LastNamed(made, i.module, i.name)
                            /\ Whole(new, i.module) = LastWhole(made, i.module)
  <2>1. ASSUME NEW m, NEW n PROVE Exact(new, m, n) = Exact(defined, m, n) /\ Whole(new, m) = Whole(defined, m)
    BY <1>6 DEF Exact, Whole
  <2> QED BY <1>5, <2>1
<1>8. /\ Counted' /\ rc' \in Seq(Nat) /\ finals' \in Seq(Nat) /\ Len(rc') >= Len(rc) /\ Len(finals') = Len(rc')
      /\ \A j \in DOMAIN new.defs : new.defs[j].def.kind = "func" => new.defs[j].def.env \in DOMAIN rc'
  BY <1>1, <1>3, <1>6, SameDefsCounted
<1>9. ASSUME NEW j \in DOMAIN new.namespaces, new.namespaces[j].def.kind = "instance"
      PROVE /\ new.namespaces[j].def.instance.store \in DOMAIN stores
            /\ stores[new.namespaces[j].def.instance.store].live =>
                 new.namespaces[j].def.instance.index \in DOMAIN stores[new.namespaces[j].def.instance.store].code
  <2>1. \E i \in DOMAIN linkers[l].namespaces : new.namespaces[j].def = linkers[l].namespaces[i].def
    BY <1>2, <1>4, <1>6, <1>9
  <2> QED BY <1>1, <1>9, <2>1 DEF EmbedderInv, LinkersKept, NamesStand, Live
<1>10. exits' \in Seq(BOOLEAN)
  BY <1>1, <1>3
<1> QED BY <1>1, <1>3, <1>5, <1>6, <1>7, <1>8, <1>9, <1>10, LinkerChangeKeeps

LEMMA DefineFallbackKeeps ==
  ASSUME EmbedderInv, NEW l \in FreeLinkers, DefineUnknownImportsAsTraps(l)
  PROVE  EmbedderInv'
<1> DEFINE new == DefineFallback(linkers[l])
<1>1. l \in Live(linkers) /\ linkers[l] \in LinkerType /\ linkers[l].live /\ l \in DOMAIN log
      /\ log \in Seq(LogType) /\ log[l] \in LogType /\ exits \in Seq(BOOLEAN)
  BY DEF FreeLinkers, Live, EmbedderInv, Typed
<1>2. /\ linkers' = [linkers EXCEPT ![l] = new] /\ log' = [log EXCEPT ![l] = log[l]]
      /\ UNCHANGED <<stores, rc, finals, nextTag, issued, parked, exits, stack>> /\ outcome' = Ok
  BY <1>1 DEF DefineUnknownImportsAsTraps, SetLinker, SameHandles, SameEnvs, Report
<1>3. /\ new \in LinkerType /\ new.live /\ new.defs = linkers[l].defs /\ new.namespaces = linkers[l].namespaces
  BY <1>1 DEF LinkerType, DefineFallback
<1> HIDE DEF new
<1>4. \A i \in AllImports : /\ Exact(new, i.module, i.name) = LastNamed(log[l], i.module, i.name)
                            /\ Whole(new, i.module) = LastWhole(log[l], i.module)
  <2>1. ASSUME NEW m, NEW n PROVE Exact(new, m, n) = Exact(linkers[l], m, n) /\ Whole(new, m) = Whole(linkers[l], m)
    BY <1>3 DEF Exact, Whole
  <2> QED BY <1>1, <2>1 DEF EmbedderInv, NamesMeanTheirLastDefinition
<1>5. /\ Counted' /\ rc' \in Seq(Nat) /\ finals' \in Seq(Nat) /\ Len(rc') >= Len(rc) /\ Len(finals') = Len(rc')
      /\ \A j \in DOMAIN new.defs : new.defs[j].def.kind = "func" => new.defs[j].def.env \in DOMAIN rc'
  BY <1>1, <1>2, <1>3, SameDefsCounted
<1>6. ASSUME NEW j \in DOMAIN new.namespaces, new.namespaces[j].def.kind = "instance"
      PROVE /\ new.namespaces[j].def.instance.store \in DOMAIN stores
            /\ stores[new.namespaces[j].def.instance.store].live =>
                 new.namespaces[j].def.instance.index \in DOMAIN stores[new.namespaces[j].def.instance.store].code
  BY <1>1, <1>3, <1>6 DEF EmbedderInv, LinkersKept, NamesStand, Live
<1> QED BY <1>1, <1>2, <1>3, <1>4, <1>5, <1>6, LinkerChangeKeeps

LEMMA DefineOtherKeeps ==
  ASSUME EmbedderInv, NEW l \in FreeLinkers, NEW imp \in AllImports,
         DefineOther(l, imp.module, imp.name, [kind |-> "global"])
  PROVE  EmbedderInv'
<1> DEFINE def == [kind |-> "global"]
           new == Define(linkers[l], imp.module, imp.name, def)
           made == Append(log[l], Def(imp.module, imp.name, def))
           left == Redefined(l, new)
<1>1. l \in Live(linkers) /\ linkers[l] \in LinkerType /\ linkers[l].live /\ l \in DOMAIN log /\ exits \in Seq(BOOLEAN)
  BY DEF FreeLinkers, Live, EmbedderInv, Typed
<1>2. def \in NamedDefs /\ def.kind # "func" /\ imp.module \in ModuleNames /\ imp.name \in Names
  BY DEF NamedDefs, ModuleNames, Names
<1>3. /\ linkers' = [linkers EXCEPT ![l] = new] /\ log' = [log EXCEPT ![l] = made]
      /\ UNCHANGED <<stores, nextTag, issued, parked, exits, stack>> /\ outcome' = Ok /\ Count(left)
  BY <1>1 DEF DefineOther, SetLinker, Logged, SameHandles, Report
<1> HIDE DEF def
<1>4. /\ new \in LinkerType /\ new.live = linkers[l].live /\ new.namespaces = linkers[l].namespaces
      /\ new.defs[Len(new.defs)].def = def
      /\ \A k \in DOMAIN new.defs :
           k = Len(new.defs) \/ \E j \in DOMAIN linkers[l].defs : new.defs[k].def = linkers[l].defs[j].def
  <2> DEFINE was == linkers[l]
             module == imp.module
             name == imp.name
  <2>1. was \in LinkerType /\ module \in ModuleNames /\ name \in Names
    BY <1>1, <1>2
  <2> HIDE DEF was, module, name
  <2>2. LET next == Define(was, module, name, def)
        IN /\ next \in LinkerType /\ next.live = was.live /\ next.namespaces = was.namespaces
           /\ next.defs[Len(next.defs)].def = def
           /\ \A k \in DOMAIN next.defs :
                k = Len(next.defs) \/ \E j \in DOMAIN was.defs : next.defs[k].def = was.defs[j].def
    <3>1. Redefines(was, Define(was, module, name, def), def)
      BY <1>2, <2>1, Defined
    <3> QED BY <3>1 DEF Redefines
  <2> QED BY <2>2 DEF was, module, name
<1>5. /\ made \in LogType
      /\ \A i \in AllImports :
           /\ Exact(new, i.module, i.name) = LastNamed(made, i.module, i.name)
           /\ Whole(new, i.module) = LastWhole(made, i.module)
  BY <1>1, <1>2, NamedMeans
<1> HIDE DEF made, new
<1>6. \A k \in DOMAIN new.defs : new.defs[k].def.kind = "func" =>
        \E j \in DOMAIN linkers[l].defs : new.defs[k].def = linkers[l].defs[j].def
  BY <1>2, <1>4
<1>7. ASSUME NEW e \in DOMAIN rc
      PROVE IsFiniteSet(Holders(e)') /\ left[e] = Cardinality(Holders(e)') /\ (Holders(e) = {} => Holders(e)' = {})
  <2>1. UsesAt(DefsOf(new), e) \subseteq Carried(linkers[l], new)
    BY <1>4, <1>6, DefsOfIsList DEF UsesAt, Carried
  <2>2. new.defs = new.defs /\ (~new.live => new.defs = <<>>) /\ stores' = stores
    BY <1>1, <1>3, <1>4
  <2> HIDE DEF left
  <2> QED BY <1>1, <1>3, <1>4, <2>1, <2>2, RedefinedCounts DEF left
<1>8. left = [e \in DOMAIN rc |-> left[e]]
  BY DEF Redefined
<1>9. /\ Counted' /\ rc' \in Seq(Nat) /\ finals' \in Seq(Nat)
      /\ Len(rc') = Len(rc) /\ Len(finals') = Len(rc) /\ DOMAIN rc' = DOMAIN rc
  <2> HIDE DEF left
  <2> QED BY <1>3, <1>7, <1>8, CountKeeps
<1>10. \A k \in DOMAIN new.defs : new.defs[k].def.kind = "func" => new.defs[k].def.env \in DOMAIN rc'
  BY <1>1, <1>6, <1>9 DEF EmbedderInv, EnvsKnown, Live
<1>11. ASSUME NEW j \in DOMAIN new.namespaces, new.namespaces[j].def.kind = "instance"
       PROVE /\ new.namespaces[j].def.instance.store \in DOMAIN stores
             /\ stores[new.namespaces[j].def.instance.store].live =>
                  new.namespaces[j].def.instance.index \in DOMAIN stores[new.namespaces[j].def.instance.store].code
  BY <1>1, <1>4, <1>11 DEF EmbedderInv, LinkersKept, NamesStand, Live
<1>12. Len(rc') >= Len(rc) /\ Len(finals') = Len(rc') /\ exits' \in Seq(BOOLEAN)
  BY <1>1, <1>3, <1>9 DEF EmbedderInv, Typed
<1> QED BY <1>1, <1>3, <1>4, <1>5, <1>9, <1>10, <1>11, <1>12, LinkerChangeKeeps

LEMMA DefineFuncKeeps ==
  ASSUME EmbedderInv, NEW l \in FreeLinkers, NEW imp \in AllImports, DefineFunc(l, imp.module, imp.name)
  PROVE  EmbedderInv'
<1>0. PICK env : env = Len(rc) + 1
  OBVIOUS
<1> DEFINE was == linkers[l]
           module == imp.module
           name == imp.name
           def == [kind |-> "func", env |-> env]
           new == Define(was, module, name, def)
           made == Append(log[l], Def(module, name, def))
           left == Redefined(l, new)
           ran == [k \in DOMAIN rc |-> finals[k] + (IF rc[k] > 0 /\ left[k] = 0 THEN 1 ELSE 0)]
<1>1. /\ l \in Live(linkers) /\ was \in LinkerType /\ was.live /\ l \in DOMAIN log /\ exits \in Seq(BOOLEAN)
      /\ rc \in Seq(Nat) /\ finals \in Seq(Nat) /\ Len(rc) = Len(finals) /\ DOMAIN rc = 1..Len(rc) /\ Len(rc) \in Nat
  BY DEF FreeLinkers, Live, EmbedderInv, Typed
<1>2. def \in NamedDefs /\ def.kind = "func" /\ def.env = env /\ module \in ModuleNames /\ name \in Names
  BY <1>0, <1>1 DEF NamedDefs, ModuleNames, Names
<1>3. /\ linkers' = [linkers EXCEPT ![l] = new] /\ log' = [log EXCEPT ![l] = made]
      /\ UNCHANGED <<stores, nextTag, issued, parked, exits, stack>> /\ outcome' = Ok
      /\ rc' = Append(left, 1) /\ finals' = Append(ran, 0)
  BY <1>0, <1>1 DEF DefineFunc, SetLinker, Logged, SameHandles, Report
<1> HIDE DEF def, module, name, was
<1>4. /\ new \in LinkerType /\ new.live = was.live /\ new.namespaces = was.namespaces
      /\ new.defs # <<>> /\ new.defs[Len(new.defs)].def = def
      /\ \A k \in DOMAIN new.defs :
           k = Len(new.defs) \/ \E j \in DOMAIN was.defs : new.defs[k].def = was.defs[j].def
  <2>1. Redefines(was, new, def)
    BY <1>1, <1>2, Defined
  <2> QED BY <2>1 DEF Redefines
<1>5. /\ made \in LogType
      /\ \A i \in AllImports :
           /\ Exact(new, i.module, i.name) = LastNamed(made, i.module, i.name)
           /\ Whole(new, i.module) = LastWhole(made, i.module)
  BY <1>1, <1>2, NamedMeans DEF was
<1> HIDE DEF made, new
<1>6. Len(new.defs) \in DOMAIN new.defs
  <2>1. new.defs \in Seq(NamedEntry)
    BY <1>4, LinkerParts
  <2> QED BY <1>4, <2>1
<1>7. ASSUME NEW k \in DOMAIN was.defs, was.defs[k].def.kind = "func"
      PROVE was.defs[k].def.env \in 1..Len(rc)
  BY <1>1, <1>7 DEF EmbedderInv, EnvsKnown, Live, was
<1>8. ASSUME NEW e \in DOMAIN rc
      PROVE IsFiniteSet(Holders(e)') /\ left[e] = Cardinality(Holders(e)') /\ (Holders(e) = {} => Holders(e)' = {})
  <2>1. UsesAt(DefsOf(new), e) \subseteq Carried(was, new)
    <3> SUFFICES ASSUME NEW k \in UsesAt(DefsOf(new), e) PROVE k \in Carried(was, new)
      OBVIOUS
    <3>1. k \in DOMAIN new.defs /\ new.defs[k].def.env = e
      BY <1>4, DefsOfIsList DEF UsesAt
    <3>2. k # Len(new.defs)
      BY <1>0, <1>1, <1>2, <1>4, <3>1
    <3> QED BY <1>4, <3>1, <3>2 DEF Carried
  <2>2. new.defs = new.defs /\ (~new.live => new.defs = <<>>) /\ stores' = stores
    BY <1>1, <1>3, <1>4
  <2> HIDE DEF left
  <2> QED BY <1>1, <1>3, <1>4, <2>1, <2>2, RedefinedCounts DEF left, was
<1>9. IsFiniteSet(Holders(env)') /\ Cardinality(Holders(env)') = 1
  <2> DEFINE now == UsesAt(DefsOf(new), env)
             Added == {<<"linker", l, 0, k>> : k \in now}
  <2>1. /\ LinkerHolds(l, env) \subseteq Holders(env)
        /\ Holders(env)' = (Holders(env) \ LinkerHolds(l, env)) \cup Added
    <3>1. (~new.live => new.defs = <<>>) /\ stores' = stores
      BY <1>1, <1>3, <1>4
    <3> QED BY <1>1, <1>3, <3>1, LinkerSwap
  <2>2. Holders(env) = {}
    <3> SUFFICES ASSUME NEW x \in Holders(env) PROVE FALSE
      OBVIOUS
    <3>1. ~InStore(x, env)
      <4> SUFFICES ASSUME NEW s \in Live(stores), NEW i \in DOMAIN stores[s].code,
                          NEW k \in UsesAt(stores[s].code[i].links, env) PROVE FALSE
        BY DEF InStore
      <4>1. k \in DOMAIN stores[s].code[i].links /\ stores[s].code[i].links[k].kind = "func"
            /\ stores[s].code[i].links[k].env = env
        BY DEF UsesAt
      <4>2. env \in DOMAIN rc
        BY <4>1 DEF EmbedderInv, EnvsKnown, Live
      <4> QED BY <1>0, <1>1, <4>2
    <3>2. ~InLinker(x, env)
      <4> SUFFICES ASSUME NEW j \in Live(linkers), NEW k \in UsesAt(DefsOf(linkers[j]), env) PROVE FALSE
        BY DEF InLinker
      <4>1. linkers[j] \in LinkerType /\ j \in DOMAIN linkers
        BY DEF EmbedderInv, Typed, Live
      <4>2. k \in DOMAIN linkers[j].defs /\ linkers[j].defs[k].def.kind = "func" /\ linkers[j].defs[k].def.env = env
        BY <4>1, DefsOfIsList DEF UsesAt
      <4>3. env \in DOMAIN rc
        BY <4>1, <4>2 DEF EmbedderInv, EnvsKnown
      <4> QED BY <1>0, <1>1, <4>3
    <3> QED BY <3>1, <3>2, HolderIs
  <2>3. now = {Len(new.defs)}
    <3>1. Len(new.defs) \in now
      BY <1>2, <1>4, <1>6, DefsOfIsList DEF UsesAt
    <3>2. ASSUME NEW k \in now PROVE k = Len(new.defs)
      <4>1. k \in DOMAIN new.defs /\ new.defs[k].def.kind = "func" /\ new.defs[k].def.env = env
        BY <1>4, DefsOfIsList DEF UsesAt
      <4>2. ASSUME NEW j \in DOMAIN was.defs PROVE new.defs[k].def # was.defs[j].def
        <5>1. was.defs[j].def.kind = "func" => was.defs[j].def.env # env
          BY <1>0, <1>1, <1>7
        <5> QED BY <4>1, <5>1
      <4> QED BY <1>4, <4>1, <4>2
    <3> QED BY <3>1, <3>2
  <2> HIDE DEF now
  <2>4. Holders(env)' = {<<"linker", l, 0, Len(new.defs)>>}
    BY <2>1, <2>2, <2>3
  <2> QED BY <2>4, FS_Singleton
<1>10. left = [e \in 1..Len(rc) |-> left[e]] /\ ran = [e \in 1..Len(rc) |-> ran[e]]
  BY <1>1 DEF Redefined
<1>11. ASSUME NEW e \in DOMAIN rc
       PROVE left[e] \in Nat /\ ran[e] = (IF left[e] = 0 THEN 1 ELSE 0) /\ ran[e] \in Nat
  <2>1. rc[e] = Cardinality(Holders(e)) /\ IsFiniteSet(Holders(e)) /\ finals[e] = IF rc[e] = 0 THEN 1 ELSE 0
    BY DEF EmbedderInv, Counted
  <2>2. left[e] \in Nat /\ rc[e] \in Nat
    BY <1>1, <1>8, FS_CardinalityType
  <2>3. rc[e] = 0 => left[e] = 0
    BY <1>8, <2>1, FS_EmptySet
  <2>4. ran[e] = finals[e] + (IF rc[e] > 0 /\ left[e] = 0 THEN 1 ELSE 0)
    OBVIOUS
  <2> HIDE DEF ran, left
  <2> QED BY <2>1, <2>2, <2>3, <2>4
<1> HIDE DEF left, ran
<1>12. left \in Seq(Nat) /\ ran \in Seq(Nat) /\ Len(left) = Len(rc) /\ Len(ran) = Len(rc)
  BY <1>1, <1>10, <1>11
<1>13. /\ rc' \in Seq(Nat) /\ Len(rc') = Len(rc) + 1 /\ rc'[env] = 1 /\ \A e \in DOMAIN rc : rc'[e] = left[e]
       /\ finals' \in Seq(Nat) /\ Len(finals') = Len(rc) + 1 /\ finals'[env] = 0 /\ \A e \in DOMAIN rc : finals'[e] = ran[e]
       /\ DOMAIN rc' = 1..(Len(rc) + 1)
  <2>1. DOMAIN left = 1..Len(rc) /\ DOMAIN ran = 1..Len(rc) /\ env = Len(rc) + 1
    BY <1>0, <1>1, <1>10
  <2>2. /\ Append(left, 1) \in Seq(Nat) /\ Len(Append(left, 1)) = Len(rc) + 1 /\ Append(left, 1)[env] = 1
        /\ DOMAIN Append(left, 1) = 1..(Len(rc) + 1) /\ \A e \in DOMAIN left : Append(left, 1)[e] = left[e]
    BY <1>12, <2>1, LongerSeq
  <2>3. /\ Append(ran, 0) \in Seq(Nat) /\ Len(Append(ran, 0)) = Len(rc) + 1 /\ Append(ran, 0)[env] = 0
        /\ \A e \in DOMAIN ran : Append(ran, 0)[e] = ran[e]
    BY <1>12, <2>1, LongerSeq
  <2> QED BY <1>1, <1>3, <2>1, <2>2, <2>3
<1>14. Counted'
  <2> SUFFICES ASSUME NEW e \in DOMAIN rc'
               PROVE IsFiniteSet(Holders(e)') /\ rc'[e] = Cardinality(Holders(e)') /\ finals'[e] = IF rc'[e] = 0 THEN 1 ELSE 0
    BY DEF Counted
  <2>1. CASE e = env
    BY <1>9, <1>13, <2>1
  <2>2. CASE e \in DOMAIN rc
    BY <1>8, <1>11, <1>13, <2>2
  <2> QED BY <1>0, <1>1, <1>13, <2>1, <2>2
<1>15. \A k \in DOMAIN new.defs : new.defs[k].def.kind = "func" => new.defs[k].def.env \in DOMAIN rc'
  <2> SUFFICES ASSUME NEW k \in DOMAIN new.defs, new.defs[k].def.kind = "func" PROVE new.defs[k].def.env \in 1..(Len(rc) + 1)
    BY <1>13
  <2>1. CASE k = Len(new.defs)
    BY <1>0, <1>1, <1>2, <1>4, <2>1
  <2>2. CASE \E j \in DOMAIN was.defs : new.defs[k].def = was.defs[j].def
    <3>1. new.defs[k].def.env \in 1..Len(rc)
      BY <1>7, <2>2
    <3> QED BY <1>1, <3>1
  <2> QED BY <1>4, <2>1, <2>2
<1>16. ASSUME NEW j \in DOMAIN new.namespaces, new.namespaces[j].def.kind = "instance"
       PROVE /\ new.namespaces[j].def.instance.store \in DOMAIN stores
             /\ stores[new.namespaces[j].def.instance.store].live =>
                  new.namespaces[j].def.instance.index \in DOMAIN stores[new.namespaces[j].def.instance.store].code
  BY <1>1, <1>4, <1>16 DEF EmbedderInv, LinkersKept, NamesStand, Live, was
<1>17. Len(rc') >= Len(rc) /\ Len(finals') = Len(rc') /\ exits' \in Seq(BOOLEAN)
  BY <1>1, <1>3, <1>13
<1> QED BY <1>1, <1>3, <1>4, <1>5, <1>13, <1>14, <1>15, <1>16, <1>17, LinkerChangeKeeps

LEMMA LinkerNewKeeps ==
  ASSUME EmbedderInv, LinkerNew
  PROVE  EmbedderInv'
<1>1. /\ linkers' = Append(linkers, NewLinker) /\ log' = Append(log, <<>>)
      /\ UNCHANGED <<stores, rc, finals, nextTag, issued, parked, exits, stack>> /\ outcome' = Ok
  BY DEF LinkerNew, SameHandles, SameEnvs, Quietly, Report
<1>2. NewLinker \in LinkerType /\ NewLinker.defs = <<>> /\ NewLinker.namespaces = <<>>
  <2>1. <<>> \in Seq(NamedEntry) /\ <<>> \in Seq(WholeEntry)
    OBVIOUS
  <2> QED BY <2>1 DEF NewLinker, LinkerType
<1>3. linkers \in Seq(LinkerType) /\ log \in Seq(LogType) /\ Len(log) = Len(linkers) /\ <<>> \in LogType
  <2>1. <<>> \in LogType
    BY DEF LogType
  <2> QED BY <2>1 DEF EmbedderInv, Typed
<1> DEFINE n == Len(linkers) + 1
<1>4. /\ linkers' \in Seq(LinkerType) /\ Len(linkers') = n /\ DOMAIN linkers = 1..Len(linkers)
      /\ DOMAIN linkers' = 1..n /\ linkers'[n] = NewLinker /\ Len(linkers) \in Nat
      /\ \A j \in DOMAIN linkers : linkers'[j] = linkers[j]
  BY <1>1, <1>2, <1>3, LongerSeq
<1>5. /\ log' \in Seq(LogType) /\ Len(log') = n /\ log'[n] = <<>>
      /\ \A j \in DOMAIN linkers : log'[j] = log[j]
  BY <1>1, <1>3, <1>4, LongerSeq
<1>6. DOMAIN linkers' = DOMAIN linkers \cup {n} /\ n \notin DOMAIN linkers
  BY <1>4
<1> HIDE DEF n
<1>7. StoresKept' /\ HandlesKept' /\ FramesKept'
  BY <1>1, StoresUntouched
<1>8. LinkersKept' /\ EnvsKnown'
  <2>0. DOMAIN NewLinker.defs = {} /\ DOMAIN NewLinker.namespaces = {}
    BY <1>2
  <2> HIDE DEF NewLinker
  <2>1. LinkersKept'
    <3>1. NamesStand(NewLinker)
      BY <2>0 DEF NamesStand
    <3>2. ASSUME NEW j \in DOMAIN linkers'
          PROVE NamesStand(linkers'[j]) /\ (~linkers'[j].live => linkers'[j].defs = <<>>)
      <4>1. CASE j = n
        BY <1>2, <1>4, <3>1, <4>1
      <4>2. CASE j \in DOMAIN linkers
        BY <1>4, <4>2 DEF EmbedderInv, LinkersKept
      <4> QED BY <1>6, <4>1, <4>2
    <3>3. ASSUME NEW j \in DOMAIN linkers', NamesStand(linkers'[j]) PROVE NamesStand(linkers[j])'
      BY <1>1, <3>3 DEF NamesStand
    <3> QED BY <3>2, <3>3 DEF LinkersKept
  <2>2. ASSUME NEW j \in DOMAIN linkers', NEW k \in DOMAIN linkers'[j].defs, linkers'[j].defs[k].def.kind = "func"
        PROVE linkers'[j].defs[k].def.env \in DOMAIN rc
    <3>1. CASE j = n
      BY <1>4, <2>0, <2>2, <3>1
    <3>2. CASE j \in DOMAIN linkers
      BY <1>4, <2>2, <3>2 DEF EmbedderInv, EnvsKnown
    <3> QED BY <1>6, <3>1, <3>2
  <2>3. EnvsKnown'
    BY <1>1, <2>2 DEF EmbedderInv, EnvsKnown
  <2> QED BY <2>1, <2>3
<1>9. ASSUME NEW e PROVE Holders(e)' = Holders(e)
  <2>1. ASSUME NEW x PROVE InLinker(x, e)' <=> InLinker(x, e)
    <3>1. UsesAt(DefsOf(NewLinker), e) = {}
      BY <1>2 DEF UsesAt, DefsOf
    <3>2. InLinker(x, e)' <=> \E j \in DOMAIN linkers' : linkers'[j].live /\ \E k \in UsesAt(DefsOf(linkers'[j]), e) : x = <<"linker", j, 0, k>>
      BY DEF InLinker, Live
    <3>3. InLinker(x, e) <=> \E j \in DOMAIN linkers : linkers[j].live /\ \E k \in UsesAt(DefsOf(linkers[j]), e) : x = <<"linker", j, 0, k>>
      BY DEF InLinker, Live
    <3> QED BY <1>4, <1>6, <3>1, <3>2, <3>3
  <2>2. ASSUME NEW x PROVE InStore(x, e)' <=> InStore(x, e)
    BY <1>1 DEF InStore, Live
  <2> QED BY <2>1, <2>2, HolderIs, HolderIsNext
<1>10. Counted'
  BY <1>1, <1>9 DEF EmbedderInv, Counted
<1>11. NamesMeanTheirLastDefinition'
  <2>1. ASSUME NEW m, NEW k PROVE /\ Exact(NewLinker, m, k) = LastNamed(<<>>, m, k)
                                  /\ Whole(NewLinker, m) = LastWhole(<<>>, m)
    <3>1. Exact(NewLinker, m, k) = Nothing /\ Whole(NewLinker, m) = Nothing
      BY <1>2 DEF Exact, Whole, FirstDef
    <3>2. LastNamed(<<>>, m, k) = Nothing /\ LastWhole(<<>>, m) = Nothing
      BY DEF LastNamed, LastWhole, LastOf
    <3> QED BY <3>1, <3>2
  <2>2. ASSUME NEW j \in Live(linkers)', NEW imp \in AllImports
        PROVE /\ Exact(linkers'[j], imp.module, imp.name) = LastNamed(log'[j], imp.module, imp.name)
              /\ Whole(linkers'[j], imp.module) = LastWhole(log'[j], imp.module)
    <3>1. CASE j = n
      BY <1>4, <1>5, <2>1, <3>1
    <3>2. CASE j \in DOMAIN linkers
      BY <1>4, <1>5, <2>2, <3>2 DEF EmbedderInv, NamesMeanTheirLastDefinition, Live
    <3> QED BY <1>6, <3>1, <3>2 DEF Live
  <2> QED BY <2>2 DEF NamesMeanTheirLastDefinition
<1>12. Outcomes'
  BY <1>1 DEF EmbedderInv, Outcomes, TrapsCarryTheirMessage, Ok
<1>13. Typed'
  BY <1>1, <1>4, <1>5 DEF EmbedderInv, Typed
<1> QED BY <1>7, <1>8, <1>10, <1>11, <1>12, <1>13 DEF EmbedderInv

-----------------------------------------------------------------------------
(* Stores: what a step on one of them leaves alone.                        *)

\* What the handles of a store name stays where it is.
Extends(old, new) ==
  /\ \A k \in DOMAIN old.instances : k \in DOMAIN new.instances /\ new.instances[k] = old.instances[k]
  /\ \A kind \in Kinds : \A k \in DOMAIN old.entries[kind] :
       k \in DOMAIN new.entries[kind] /\ new.entries[kind][k] = old.entries[kind][k]
EnvsIn(st) ==
  \A i \in DOMAIN st.code : \A k \in DOMAIN st.code[i].links :
    st.code[i].links[k].kind = "func" => st.code[i].links[k].env \in DOMAIN rc

LEMMA StoreStep ==
  ASSUME EmbedderInv, NEW s \in Live(stores), NEW new \in StoreType,
         stores' = [stores EXCEPT ![s] = new], linkers' = linkers, DOMAIN rc' = DOMAIN rc,
         new.id = s /\ new.tag = TagOf(s), LinksStay(new), InstancesStay(new), EntriesStay(new), EnvsIn(new),
         new.live => DOMAIN stores[s].code \subseteq DOMAIN new.code
  PROVE  /\ StoresKept' /\ LinkersKept' /\ EnvsKnown'
         /\ stores' \in Seq(StoreType) /\ Len(stores') = Len(stores) /\ DOMAIN stores' = DOMAIN stores
         /\ stores'[s] = new /\ \A j \in DOMAIN stores : j # s => stores'[j] = stores[j]
<1>1. stores \in Seq(StoreType) /\ s \in DOMAIN stores /\ stores[s].live
  BY DEF EmbedderInv, Typed, Live
<1>2. /\ stores' \in Seq(StoreType) /\ Len(stores') = Len(stores) /\ DOMAIN stores' = DOMAIN stores
      /\ stores'[s] = new /\ \A j \in DOMAIN stores : j # s => stores'[j] = stores[j]
  BY <1>1, ChangedSeq
<1>3. StoresKept'
  <2> SUFFICES ASSUME NEW j \in DOMAIN stores
               PROVE stores'[j].id = j /\ stores'[j].tag = TagOf(j) /\ LinksStay(stores'[j]) /\ InstancesStay(stores'[j]) /\ EntriesStay(stores'[j])
    BY <1>2 DEF StoresKept
  <2>1. CASE j = s
    BY <1>2, <2>1
  <2>2. CASE j # s
    BY <1>2, <2>2 DEF EmbedderInv, StoresKept
  <2> QED BY <2>1, <2>2
<1>4. LinkersKept'
  <2>1. ASSUME NEW l \in DOMAIN linkers, NEW k \in DOMAIN linkers[l].namespaces,
               linkers[l].namespaces[k].def.kind = "instance"
        PROVE LET def == linkers[l].namespaces[k].def
              IN /\ def.instance.store \in DOMAIN stores
                 /\ stores'[def.instance.store].live => def.instance.index \in DOMAIN stores'[def.instance.store].code
    <3> DEFINE instance == linkers[l].namespaces[k].def.instance
    <3>1. instance.store \in DOMAIN stores
          /\ (stores[instance.store].live => instance.index \in DOMAIN stores[instance.store].code)
      BY <2>1 DEF EmbedderInv, LinkersKept, NamesStand
    <3> HIDE DEF instance
    <3>2. CASE instance.store = s
      BY <1>1, <1>2, <3>1, <3>2 DEF instance
    <3>3. CASE instance.store # s
      BY <1>2, <3>1, <3>3 DEF instance
    <3> QED BY <3>2, <3>3
  <2>2. \A l \in DOMAIN linkers : ~linkers[l].live => linkers[l].defs = <<>>
    BY DEF EmbedderInv, LinkersKept, NamesStand
  <2>3. ASSUME NEW l \in DOMAIN linkers PROVE NamesStand(linkers[l])'
    BY <1>2, <2>1 DEF NamesStand
  <2> QED BY <2>2, <2>3 DEF LinkersKept
<1>5. EnvsKnown'
  <2>1. ASSUME NEW j \in DOMAIN stores, NEW i \in DOMAIN stores'[j].code,
               NEW k \in DOMAIN stores'[j].code[i].links, stores'[j].code[i].links[k].kind = "func"
        PROVE stores'[j].code[i].links[k].env \in DOMAIN rc
    <3>1. CASE j = s
      BY <1>2, <2>1, <3>1 DEF EnvsIn
    <3>2. CASE j # s
      BY <1>2, <2>1, <3>2 DEF EmbedderInv, EnvsKnown
    <3> QED BY <3>1, <3>2
  <2>2. \A l \in DOMAIN linkers : \A k \in DOMAIN linkers[l].defs :
           linkers[l].defs[k].def.kind = "func" => linkers[l].defs[k].def.env \in DOMAIN rc
    BY DEF EmbedderInv, EnvsKnown
  <2> QED BY <1>2, <2>1, <2>2 DEF EnvsKnown
<1> QED BY <1>2, <1>3, <1>4, <1>5

LEMMA IssuedStays ==
  ASSUME EmbedderInv, NEW s \in Live(stores), NEW new,
         stores' = [stores EXCEPT ![s] = new], Extends(stores[s], new), NEW h \in issued
  PROVE  Issued(h)'
<1>1. Issued(h) /\ h.kind \in Kinds \cup {"instance"}
  BY DEF EmbedderInv, HandlesKept, Typed, HandleType
<1>2. /\ h.store \in DOMAIN stores /\ h.of.kind = h.kind /\ s \in DOMAIN stores
      /\ DOMAIN stores' = DOMAIN stores /\ stores'[s] = new
      /\ \A j \in DOMAIN stores : j # s => stores'[j] = stores[j]
  BY <1>1 DEF Issued, Live
<1> DEFINE st == stores[h.store]
           next == stores'[h.store]
<1>3. Extends(st, next)
  <2>1. CASE h.store = s
    BY <1>2, <2>1
  <2>2. CASE h.store # s
    BY <1>2, <2>2 DEF Extends
  <2> QED BY <2>1, <2>2
<1>4. CASE h.kind = "instance"
  <2>1. PICK k \in DOMAIN st.instances : h.id = Pack(TagOf(h.store), k - 1) /\ st.instances[k].instance = h.of.instance
    BY <1>1, <1>4 DEF Issued
  <2>2. k \in DOMAIN next.instances /\ next.instances[k].instance = h.of.instance
    BY <1>3, <2>1 DEF Extends
  <2> QED BY <1>2, <1>4, <2>1, <2>2 DEF Issued
<1>5. CASE h.kind # "instance"
  <2>1. PICK k \in DOMAIN st.entries[h.kind] :
           /\ h.id = Pack(TagOf(h.store), k - 1)
           /\ st.entries[h.kind][k].index = h.of.index
           /\ st.instances[st.entries[h.kind][k].slot + 1].instance = h.of.instance
    BY <1>1, <1>5 DEF Issued
  <2>2. h.kind \in Kinds
    BY <1>1, <1>5
  <2>3. k \in DOMAIN next.entries[h.kind] /\ next.entries[h.kind][k] = st.entries[h.kind][k]
    BY <1>3, <2>1, <2>2 DEF Extends
  <2>4. st.entries[h.kind][k].slot + 1 \in DOMAIN st.instances
    <3>1. stores \in Seq(StoreType) /\ st \in StoreType
      BY <1>2 DEF EmbedderInv, Typed
    <3>2. st.entries[h.kind] \in Seq(EntryType) /\ st.instances \in Seq(SlotType)
      BY <2>2, <3>1, StoreParts
    <3>3. st.entries[h.kind][k] \in EntryType
      BY <2>1, <3>2
    <3>4. st.entries[h.kind][k].slot \in Nat
      BY <3>3 DEF EntryType
    <3>5. st.entries[h.kind][k].slot < Len(st.instances)
      BY <1>2, <2>1, <2>2 DEF EmbedderInv, StoresKept, EntriesStay
    <3> QED BY <3>2, <3>4, <3>5
  <2>5. next.instances[next.entries[h.kind][k].slot + 1].instance = h.of.instance
    BY <1>3, <2>1, <2>3, <2>4 DEF Extends
  <2> QED BY <1>2, <1>5, <2>1, <2>3, <2>5 DEF Issued
<1> QED BY <1>4, <1>5

\* Every new entry behind a handle has one.
Named(s, old, new, handles) ==
  \A kind \in Kinds : \A k \in DOMAIN new.entries[kind] :
    k \in DOMAIN old.entries[kind] \/ \E h \in handles : h.kind = kind /\ h.store = s /\ h.id = Pack(TagOf(s), k - 1)

LEMMA HandlesStep ==
  ASSUME EmbedderInv, NEW s \in Live(stores), NEW new,
         stores' = [stores EXCEPT ![s] = new], Extends(stores[s], new),
         issued \subseteq issued', \A h \in issued' : h \in issued \/ Issued(h)',
         IsFiniteSet(issued'), HandlesMade' <= MaxHandles, Named(s, stores[s], new, issued')
  PROVE  HandlesKept'
<1>1. s \in DOMAIN stores /\ DOMAIN stores' = DOMAIN stores /\ stores'[s] = new
      /\ \A j \in DOMAIN stores : j # s => stores'[j] = stores[j]
  BY DEF Live
<1>2. \A h \in issued' : Issued(h)'
  BY IssuedStays
<1>3. ASSUME NEW j \in DOMAIN stores, NEW kind \in Kinds, NEW k \in DOMAIN stores'[j].entries[kind]
      PROVE \E h \in issued' : h.kind = kind /\ h.store = j /\ h.id = Pack(TagOf(j), k - 1)
  <2>1. CASE k \in DOMAIN stores[j].entries[kind]
    BY <2>1 DEF EmbedderInv, HandlesKept
  <2>2. CASE k \notin DOMAIN stores[j].entries[kind]
    BY <1>1, <1>3, <2>2 DEF Named
  <2> QED BY <2>1, <2>2
<1> QED BY <1>1, <1>2, <1>3 DEF HandlesKept

LEMMA FrameElsewhere ==
  ASSUME EmbedderInv, NEW s \in Live(stores), NEW new, stores' = [stores EXCEPT ![s] = new],
         NEW f, FrameKept(f), f.store # s
  PROVE  FrameKept(f)'
<1>1. FrameKept(f) /\ f.store # s
  OBVIOUS
<1>2. f.store \in DOMAIN stores
  BY <1>1 DEF FrameKept, Live
<1>3. stores'[f.store] = stores[f.store] /\ DOMAIN stores' = DOMAIN stores
  BY <1>1, <1>2
<1>4. StoreHolds(f.store, f.env)' = StoreHolds(f.store, f.env)
  BY <1>3 DEF StoreHolds
<1> QED BY <1>1, <1>2, <1>3, <1>4 DEF FrameKept, Live

\* The calls in flight are on other stores.
LEMMA FramesStep ==
  ASSUME EmbedderInv, NEW s \in FreeStores, NEW new, stores' = [stores EXCEPT ![s] = new], stack' = stack
  PROVE  FramesKept'
<1>1. s \in Live(stores)
  BY DEF FreeStores
<1>2. ASSUME NEW k \in DOMAIN stack PROVE FrameKept(stack[k]) /\ stack[k].store # s
  BY DEF EmbedderInv, FramesKept, FreeStores
<1>3. ASSUME NEW f, FrameKept(f) /\ f.store # s PROVE FrameKept(f)'
  BY <1>1, <1>3, FrameElsewhere
<1> QED BY <1>2, <1>3 DEF EmbedderInv, FramesKept

LEMMA StoreNewKeeps ==
  ASSUME EmbedderInv, StoreNew
  PROVE  EmbedderInv'
<1> DEFINE n == Len(stores) + 1
<1>1. /\ stores' = Append(stores, NewStore) /\ nextTag' = (nextTag + 1) % Wide /\ outcome' = Ok
      /\ UNCHANGED <<linkers, log, rc, finals, issued, parked, exits, stack>>
  BY DEF StoreNew, SameEnvs, Quietly, Report
<1>2. stores \in Seq(StoreType) /\ nextTag = TagOf(n) /\ n \in Nat /\ nextTag' = TagOf(n + 1)
  <2>1. stores \in Seq(StoreType) /\ nextTag = TagOf(n)
    BY DEF EmbedderInv, Typed
  <2>2. n \in Nat
    BY <2>1
  <2>3. (TagOf(n) + 1) % Wide = TagOf(n + 1)
    BY <2>2, NextTag
  <2> QED BY <1>1, <2>1, <2>2, <2>3
<1>3. /\ NewStore \in StoreType /\ NewStore.id = n /\ NewStore.tag = TagOf(n) /\ DOMAIN NewStore.code = {} /\ Len(NewStore.code) = 0
      /\ DOMAIN NewStore.instances = {} /\ Len(NewStore.instances) = 0
      /\ \A kind \in Kinds : DOMAIN NewStore.entries[kind] = {}
  <2>1. /\ <<>> \in Seq(SlotType) /\ <<>> \in Seq(CodeType)
        /\ [kind \in Kinds |-> <<>>] \in [Kinds -> Seq(EntryType)]
    OBVIOUS
  <2>2. nextTag \in Nat
    BY <1>2, TagFacts
  <2> QED BY <1>2, <2>1, <2>2 DEF NewStore, StoreType
<1>4. /\ stores' \in Seq(StoreType) /\ Len(stores') = n /\ DOMAIN stores = 1..Len(stores)
      /\ DOMAIN stores' = 1..n /\ stores'[n] = NewStore /\ Len(stores) \in Nat
      /\ \A j \in DOMAIN stores : stores'[j] = stores[j]
  BY <1>1, <1>2, <1>3, LongerSeq
<1>5. DOMAIN stores' = DOMAIN stores \cup {n} /\ n \notin DOMAIN stores
  BY <1>4
<1> HIDE DEF n, NewStore
<1>6. StoresKept'
  <2> SUFFICES ASSUME NEW j \in DOMAIN stores'
               PROVE stores'[j].id = j /\ stores'[j].tag = TagOf(j) /\ LinksStay(stores'[j]) /\ InstancesStay(stores'[j]) /\ EntriesStay(stores'[j])
    BY DEF StoresKept
  <2>1. CASE j = n
    <3>1. LinksStay(NewStore)
      BY <1>3 DEF LinksStay, LinksWithin
    <3>2. InstancesStay(NewStore)
      BY <1>3, BoundsAssumption DEF InstancesStay
    <3>3. EntriesStay(NewStore)
      BY <1>3 DEF EntriesStay
    <3> QED BY <1>3, <1>4, <2>1, <3>1, <3>2, <3>3
  <2>2. CASE j \in DOMAIN stores
    BY <1>4, <2>2 DEF EmbedderInv, StoresKept
  <2> QED BY <1>5, <2>1, <2>2
<1>7. LinkersKept'
  <2>1. ASSUME NEW l \in DOMAIN linkers, NEW k \in DOMAIN linkers[l].namespaces,
               linkers[l].namespaces[k].def.kind = "instance"
        PROVE LET def == linkers[l].namespaces[k].def
              IN /\ def.instance.store \in DOMAIN stores'
                 /\ stores'[def.instance.store].live => def.instance.index \in DOMAIN stores'[def.instance.store].code
    <3> DEFINE instance == linkers[l].namespaces[k].def.instance
    <3>1. instance.store \in DOMAIN stores
          /\ (stores[instance.store].live => instance.index \in DOMAIN stores[instance.store].code)
      BY <2>1 DEF EmbedderInv, LinkersKept, NamesStand
    <3> HIDE DEF instance
    <3> QED BY <1>4, <1>5, <3>1 DEF instance
  <2> QED BY <1>1, <2>1 DEF EmbedderInv, LinkersKept, NamesStand
<1>8. HandlesKept'
  <2>1. ASSUME NEW h \in issued PROVE Issued(h)'
    <3>1. Issued(h) /\ h.store \in DOMAIN stores
      BY DEF EmbedderInv, HandlesKept, Issued
    <3>2. stores'[h.store] = stores[h.store] /\ h.store \in DOMAIN stores'
      BY <1>4, <1>5, <3>1
    <3> QED BY <3>1, <3>2 DEF Issued
  <2>2. (IsFiniteSet(issued) /\ HandlesMade <= MaxHandles)'
    BY <1>1 DEF EmbedderInv, HandlesKept, HandlesMade
  <2>3. ASSUME NEW j \in DOMAIN stores', NEW kind \in Kinds, NEW k \in DOMAIN stores'[j].entries[kind]
        PROVE \E h \in issued : h.kind = kind /\ h.store = j /\ h.id = Pack(TagOf(j), k - 1)
    <3>1. j \in DOMAIN stores /\ k \in DOMAIN stores[j].entries[kind]
      BY <1>3, <1>4, <1>5
    <3> QED BY <3>1 DEF EmbedderInv, HandlesKept
  <2> QED BY <1>1, <2>1, <2>2, <2>3 DEF HandlesKept
<1>9. FramesKept'
  <2>1. ASSUME NEW f, FrameKept(f) PROVE FrameKept(f)'
    <3>1. f.store \in DOMAIN stores
      BY <2>1 DEF FrameKept, Live
    <3>2. stores'[f.store] = stores[f.store] /\ f.store \in DOMAIN stores'
      BY <1>4, <1>5, <3>1
    <3>3. StoreHolds(f.store, f.env)' = StoreHolds(f.store, f.env)
      BY <3>2 DEF StoreHolds
    <3> QED BY <2>1, <3>1, <3>2, <3>3 DEF FrameKept, Live
  <2> QED BY <1>1, <2>1 DEF EmbedderInv, FramesKept
<1>10. EnvsKnown'
  <2>1. ASSUME NEW j \in DOMAIN stores', NEW i \in DOMAIN stores'[j].code,
               NEW k \in DOMAIN stores'[j].code[i].links, stores'[j].code[i].links[k].kind = "func"
        PROVE stores'[j].code[i].links[k].env \in DOMAIN rc
    <3>1. j \in DOMAIN stores /\ stores'[j] = stores[j]
      BY <1>3, <1>4, <1>5
    <3> QED BY <2>1, <3>1 DEF EmbedderInv, EnvsKnown
  <2> QED BY <1>1, <2>1 DEF EmbedderInv, EnvsKnown
<1>11. ASSUME NEW e PROVE Holders(e)' = Holders(e)
  <2>1. ASSUME NEW x PROVE InStore(x, e)' <=> InStore(x, e)
    <3>1. InStore(x, e)' <=> \E j \in DOMAIN stores' : stores'[j].live /\
            \E i \in DOMAIN stores'[j].code : \E k \in UsesAt(stores'[j].code[i].links, e) : x = <<"store", j, i, k>>
      BY DEF InStore, Live
    <3>2. InStore(x, e) <=> \E j \in DOMAIN stores : stores[j].live /\
            \E i \in DOMAIN stores[j].code : \E k \in UsesAt(stores[j].code[i].links, e) : x = <<"store", j, i, k>>
      BY DEF InStore, Live
    <3>3. ~\E i \in DOMAIN stores'[n].code : \E k \in UsesAt(stores'[n].code[i].links, e) : x = <<"store", n, i, k>>
      BY <1>3, <1>4
    <3>4. \A j \in DOMAIN stores : stores'[j] = stores[j] /\ j \in DOMAIN stores'
      BY <1>4, <1>5
    <3>5. InStore(x, e)' => InStore(x, e)
      BY <1>5, <3>1, <3>2, <3>3, <3>4
    <3>6. InStore(x, e) => InStore(x, e)'
      BY <3>1, <3>2, <3>4
    <3> QED BY <3>5, <3>6
  <2>2. ASSUME NEW x PROVE InLinker(x, e)' <=> InLinker(x, e)
    BY <1>1 DEF InLinker, Live
  <2> QED BY <2>1, <2>2, HolderIs, HolderIsNext
<1>12. Counted'
  BY <1>1, <1>11 DEF EmbedderInv, Counted
<1>13. Outcomes' /\ NamesMeanTheirLastDefinition'
  BY <1>1, LinkersUntouched DEF EmbedderInv, Outcomes, TrapsCarryTheirMessage, Ok
<1>14. Typed'
  BY <1>1, <1>2, <1>4 DEF EmbedderInv, Typed
<1> QED BY <1>6, <1>7, <1>8, <1>9, <1>10, <1>12, <1>13, <1>14 DEF EmbedderInv

LEMMA SameHandlesMade ==
  ASSUME EmbedderInv, issued' = issued
  PROVE  /\ issued \subseteq issued' /\ \A h \in issued' : h \in issued
         /\ IsFiniteSet(issued') /\ HandlesMade' <= MaxHandles
<1>1. HandlesMade' = HandlesMade
  BY DEF HandlesMade
<1> QED BY <1>1 DEF EmbedderInv, HandlesKept

LEMMA StoreDeleteKeeps ==
  ASSUME EmbedderInv, NEW s \in FreeStores, StoreDelete(s)
  PROVE  EmbedderInv'
<1> DEFINE old == stores[s]
           new == [old EXCEPT !.live = FALSE, !.code = <<>>]
           left == [e \in DOMAIN rc |-> rc[e] - Cardinality(StoreHolds(s, e))]
<1>1. s \in Live(stores) /\ s \in DOMAIN stores /\ old \in StoreType
  BY DEF FreeStores, Live, EmbedderInv, Typed
<1>2. /\ stores' = [stores EXCEPT ![s] = new] /\ Count(left) /\ outcome' = Ok
      /\ UNCHANGED <<linkers, log, nextTag, issued, parked, exits, stack>>
  BY <1>1 DEF StoreDelete, SameHandles, Quietly, Report
<1>3. /\ new \in StoreType /\ ~new.live /\ new.code = <<>> /\ DOMAIN new.code = {} /\ new.id = old.id /\ new.tag = old.tag
      /\ new.instances = old.instances /\ new.entries = old.entries
  <2>1. <<>> \in Seq(CodeType) /\ DOMAIN <<>> = {}
    OBVIOUS
  <2>2. new \in StoreType
    BY <1>1, <2>1 DEF StoreType
  <2>3. ~new.live /\ new.code = <<>> /\ new.id = old.id /\ new.tag = old.tag /\ new.instances = old.instances /\ new.entries = old.entries
    BY <1>1 DEF StoreType
  <2> QED BY <2>1, <2>2, <2>3
<1>4. old.id = s /\ old.tag = TagOf(s) /\ InstancesStay(old) /\ EntriesStay(old)
  BY <1>1 DEF EmbedderInv, StoresKept
<1> HIDE DEF new
<1>5. LinksStay(new) /\ EnvsIn(new)
  BY <1>3 DEF LinksStay, LinksWithin, EnvsIn
<1>6. InstancesStay(new)
  BY <1>3, <1>4 DEF InstancesStay
<1>7. EntriesStay(new)
  BY <1>3, <1>4 DEF EntriesStay
<1>8. ASSUME NEW e \in DOMAIN rc
      PROVE IsFiniteSet(Holders(e)') /\ left[e] = Cardinality(Holders(e)') /\ (Holders(e) = {} => Holders(e)' = {})
  <2>1. /\ StoreHolds(s, e) \subseteq Holders(e)
        /\ Holders(e)' = (Holders(e) \ StoreHolds(s, e)) \cup StoreHolds(s, e)'
    BY <1>1, <1>2, <1>3, StoreSwap
  <2>2. StoreHolds(s, e)' = {}
    <3>1. stores'[s] = new
      BY <1>1, <1>2
    <3> QED BY <1>3, <3>1 DEF StoreHolds
  <2>3. IsFiniteSet(Holders(e)) /\ rc[e] = Cardinality(Holders(e))
    BY DEF EmbedderInv, Counted
  <2>4. Holders(e)' = (Holders(e) \ StoreHolds(s, e)) \cup {} /\ IsFiniteSet({}) /\ Cardinality({}) = 0
    BY <2>1, <2>2, FS_EmptySet
  <2>5. IsFiniteSet(StoreHolds(s, e)) /\ Cardinality(StoreHolds(s, e)) \in Nat /\ Cardinality(Holders(e)) \in Nat
    BY <2>1, <2>3, FS_Subset, FS_CardinalityType
  <2>6. IsFiniteSet(Holders(e)')
        /\ Cardinality(Holders(e)') = Cardinality(Holders(e)) - Cardinality(StoreHolds(s, e)) + Cardinality({})
    <3> DEFINE none == {}
    <3>1. none \cap (Holders(e) \ StoreHolds(s, e)) = {} /\ IsFiniteSet(none)
      BY <2>4
    <3> HIDE DEF none
    <3>2. /\ IsFiniteSet((Holders(e) \ StoreHolds(s, e)) \cup none)
          /\ Cardinality((Holders(e) \ StoreHolds(s, e)) \cup none)
               = Cardinality(Holders(e)) - Cardinality(StoreHolds(s, e)) + Cardinality(none)
      BY <2>1, <2>3, <3>1, Swapped
    <3> QED BY <2>4, <3>2 DEF none
  <2> QED BY <2>1, <2>2, <2>3, <2>4, <2>5, <2>6
<1>9. left = [e \in DOMAIN rc |-> left[e]]
  OBVIOUS
<1> HIDE DEF left
<1>10. /\ Counted' /\ rc' \in Seq(Nat) /\ finals' \in Seq(Nat)
       /\ Len(rc') = Len(rc) /\ Len(finals') = Len(rc) /\ DOMAIN rc' = DOMAIN rc
  BY <1>2, <1>8, <1>9, CountKeeps
<1>11. /\ StoresKept' /\ LinkersKept' /\ EnvsKnown'
       /\ stores' \in Seq(StoreType) /\ Len(stores') = Len(stores)
  BY <1>1, <1>2, <1>3, <1>4, <1>5, <1>6, <1>7, <1>10, StoreStep
<1>12. HandlesKept'
  <2>1. Extends(old, new) /\ Named(s, old, new, issued')
    BY <1>3 DEF Extends, Named
  <2>2. /\ issued \subseteq issued' /\ \A h \in issued' : h \in issued
        /\ IsFiniteSet(issued') /\ HandlesMade' <= MaxHandles
    BY <1>2, SameHandlesMade
  <2> QED BY <1>1, <1>2, <1>3, <2>1, <2>2, HandlesStep
<1>13. FramesKept'
  BY <1>2, FramesStep
<1>14. NamesMeanTheirLastDefinition' /\ Outcomes'
  BY <1>2, LinkersUntouched DEF EmbedderInv, Outcomes, TrapsCarryTheirMessage, Ok
<1>15. Typed'
  BY <1>2, <1>10, <1>11 DEF EmbedderInv, Typed
<1> QED BY <1>10, <1>11, <1>12, <1>13, <1>14, <1>15 DEF EmbedderInv

\* A state of store s that a step may leave it in.
Ready(s, st) ==
  /\ st \in StoreType /\ st.live /\ st.id = s /\ st.tag = TagOf(s)
  /\ LinksStay(st) /\ InstancesStay(st) /\ EntriesStay(st) /\ EnvsIn(st)
  /\ DOMAIN stores[s].code \subseteq DOMAIN st.code
  /\ st.entries = stores[s].entries /\ st.instances = stores[s].instances

LEMMA ReadyAsItIs ==
  ASSUME EmbedderInv, NEW s \in Live(stores)
  PROVE  Ready(s, stores[s])
<1>1. stores[s] \in StoreType /\ stores[s].live /\ s \in DOMAIN stores
  BY DEF EmbedderInv, Typed, Live
<1>2. stores[s].id = s /\ stores[s].tag = TagOf(s) /\ LinksStay(stores[s]) /\ InstancesStay(stores[s]) /\ EntriesStay(stores[s])
  BY <1>1 DEF EmbedderInv, StoresKept
<1>3. EnvsIn(stores[s])
  BY <1>1 DEF EmbedderInv, EnvsKnown, EnvsIn
<1> QED BY <1>1, <1>2, <1>3 DEF Ready

\* An instance joins the vector behind the handles.
StartOf(s, st, instance) == instance = [store |-> s, index |-> Len(st.code)] /\ Len(st.instances) < Len(st.code)

LEMMA HandedFacts ==
  ASSUME NEW s \in DOMAIN stores, NEW st, Ready(s, st), s \in Nat, NEW instance, StartOf(s, st, instance)
  PROVE  LET new == Handed(st, instance)
         IN /\ new \in StoreType /\ new.live /\ new.id = s /\ new.tag = TagOf(s) /\ new.code = st.code /\ new.entries = st.entries
            /\ LinksStay(new) /\ InstancesStay(new) /\ EntriesStay(new) /\ EnvsIn(new)
            /\ Extends(st, new)
            /\ Len(st.instances) + 1 \in DOMAIN new.instances
            /\ new.instances[Len(st.instances) + 1].instance = instance
            /\ Len(st.instances) \in Nat
<1> DEFINE slot == [instance |-> instance]
           t == Append(st.instances, slot)
           new == Handed(st, instance)
           n == Len(st.instances)
<1>1. /\ st \in StoreType /\ st.live /\ st.id = s /\ st.tag = TagOf(s) /\ LinksStay(st) /\ InstancesStay(st) /\ EntriesStay(st) /\ EnvsIn(st)
      /\ st.instances \in Seq(SlotType) /\ st.code \in Seq(CodeType) /\ st.entries \in [Kinds -> Seq(EntryType)]
  BY StoreParts DEF Ready
<1>2. instance \in InstanceIds /\ instance.store = s /\ instance.index \in DOMAIN st.code
      /\ n < Len(st.code) /\ Len(st.code) \in Nat /\ n \in Nat
  <2>1. Len(st.code) \in Nat /\ DOMAIN st.code = 1..Len(st.code) /\ n \in Nat /\ n < Len(st.code)
    BY <1>1 DEF StartOf
  <2>2. instance = [store |-> s, index |-> Len(st.code)]
    BY DEF StartOf
  <2> QED BY <2>1, <2>2 DEF InstanceIds
<1>3. slot \in SlotType /\ slot.instance = instance
  BY <1>2 DEF SlotType
<1> HIDE DEF slot
<1>4. /\ t \in Seq(SlotType) /\ Len(t) = n + 1 /\ DOMAIN st.instances = 1..n /\ DOMAIN t = 1..(n + 1)
      /\ t[n + 1] = slot /\ \A k \in DOMAIN st.instances : t[k] = st.instances[k]
  BY <1>1, <1>3, LongerSeq
<1> HIDE DEF t, n
<1>5. new = [st EXCEPT !.instances = t]
  BY DEF Handed, t, slot
<1>6. new \in StoreType /\ new.live /\ new.id = s /\ new.tag = TagOf(s) /\ new.code = st.code /\ new.entries = st.entries /\ new.instances = t
  BY <1>1, <1>4, <1>5 DEF StoreType
<1> HIDE DEF new
<1>7. LinksStay(new) /\ EnvsIn(new)
  BY <1>1, <1>6 DEF LinksStay, EnvsIn
<1>8. InstancesStay(new)
  <2>1. \A k \in DOMAIN t : t[k].instance.store = s /\ t[k].instance.index \in DOMAIN st.code
    <3> SUFFICES ASSUME NEW k \in DOMAIN t PROVE t[k].instance.store = s /\ t[k].instance.index \in DOMAIN st.code
      OBVIOUS
    <3>1. CASE k = n + 1
      BY <1>2, <1>3, <1>4, <3>1
    <3>2. CASE k \in DOMAIN st.instances
      BY <1>1, <1>4, <3>2 DEF InstancesStay
    <3> QED BY <1>2, <1>4, <3>1, <3>2
  <2>2. Len(t) <= Len(st.code) /\ Len(st.code) <= MaxInstances /\ Len(t) <= MaxInstances
    BY <1>1, <1>2, <1>4, BoundsAssumption DEF InstancesStay
  <2> QED BY <1>6, <2>1, <2>2 DEF InstancesStay
<1>9. EntriesStay(new)
  <2> SUFFICES ASSUME NEW kind \in Kinds, NEW k \in DOMAIN st.entries[kind]
               PROVE /\ st.entries[kind][k].slot < Len(t)
                     /\ kind = "func" => st.entries[kind][k].index
                          \in 1..FuncCount(st.code[t[st.entries[kind][k].slot + 1].instance.index].module)
    BY <1>6 DEF EntriesStay
  <2> DEFINE entry == st.entries[kind][k]
  <2>1. entry \in EntryType
    <3>1. st.entries[kind] \in Seq(EntryType)
      BY <1>1
    <3> QED BY <3>1
  <2>2. /\ entry.slot < n
        /\ kind = "func" => entry.index \in 1..FuncCount(st.code[st.instances[entry.slot + 1].instance.index].module)
    BY <1>1 DEF EntriesStay, n
  <2> HIDE DEF entry
  <2>3. entry.slot \in Nat /\ entry.slot + 1 \in 1..n /\ entry.slot < n + 1
    BY <1>2, <2>1, <2>2 DEF EntryType
  <2>4. t[entry.slot + 1] = st.instances[entry.slot + 1]
    BY <1>4, <2>3
  <2> QED BY <1>4, <2>2, <2>3, <2>4 DEF entry
<1>10. Extends(st, new)
  BY <1>2, <1>4, <1>6 DEF Extends
<1>11. n + 1 \in DOMAIN t /\ t[n + 1].instance = instance
  BY <1>2, <1>3, <1>4
<1> QED BY <1>2, <1>6, <1>7, <1>8, <1>9, <1>10, <1>11 DEF new, n

\* What a step on store s that ends in st leaves, but for the counts.
Left(s, st) ==
  /\ \E new \in StoreType : stores' = [stores EXCEPT ![s] = new] /\ new.code = st.code /\ new.live
  /\ StoresKept' /\ LinkersKept' /\ EnvsKnown' /\ HandlesKept'
  /\ stores' \in Seq(StoreType) /\ Len(stores') = Len(stores) /\ issued' \subseteq HandleType

LEMMA LeavesAsReady ==
  ASSUME EmbedderInv, NEW s \in Live(stores), NEW st, Ready(s, st),
         linkers' = linkers, DOMAIN rc' = DOMAIN rc, stores' = [stores EXCEPT ![s] = st], issued' = issued
  PROVE  Left(s, st)
<1>1. /\ st \in StoreType /\ st.live /\ st.id = s /\ st.tag = TagOf(s)
      /\ LinksStay(st) /\ InstancesStay(st) /\ EntriesStay(st) /\ EnvsIn(st)
      /\ DOMAIN stores[s].code \subseteq DOMAIN st.code
      /\ st.entries = stores[s].entries /\ st.instances = stores[s].instances
  BY DEF Ready
<1>2. StoresKept' /\ LinkersKept' /\ EnvsKnown' /\ stores' \in Seq(StoreType) /\ Len(stores') = Len(stores)
  BY <1>1, StoreStep
<1>3. HandlesKept'
  <2>1. Extends(stores[s], st)
    BY <1>1 DEF Extends
  <2>2. Named(s, stores[s], st, issued')
    BY <1>1 DEF Named
  <2>3. /\ issued \subseteq issued' /\ \A h \in issued' : h \in issued
        /\ IsFiniteSet(issued') /\ HandlesMade' <= MaxHandles
    BY SameHandlesMade
  <2> QED BY <2>1, <2>2, <2>3, HandlesStep
<1>4. issued' \subseteq HandleType
  BY DEF EmbedderInv, Typed
<1> QED BY <1>1, <1>2, <1>3, <1>4 DEF Left

LEMMA FinishLeaves ==
  ASSUME EmbedderInv, NEW s \in Live(stores), NEW st, Ready(s, st), NEW then \in ThenType,
         then.start => StartOf(s, st, then.instance), Finish(s, st, then),
         linkers' = linkers, DOMAIN rc' = DOMAIN rc
  PROVE  Left(s, st) /\ outcome'.code \in {"ok", "error"}
<1>1. outcome'.code \in {"ok", "error"}
  BY DEF Finish, Ok, Error
<1>2. s \in DOMAIN stores /\ s \in Nat /\ stores[s] \in StoreType
  BY DEF EmbedderInv, Typed, Live
<1>3. /\ st.id = s /\ st.tag = TagOf(s) /\ DOMAIN stores[s].code \subseteq DOMAIN st.code
      /\ st.entries = stores[s].entries /\ st.instances = stores[s].instances
  BY DEF Ready
<1>4. CASE ~then.start
  <2>1. stores' = [stores EXCEPT ![s] = st] /\ issued' = issued
    BY <1>4 DEF Finish
  <2> QED BY <1>1, <2>1, LeavesAsReady
<1>5. CASE then.start
  <2> DEFINE instance == then.instance
             new == Handed(st, instance)
             h == InstanceHandle(st, s, instance)
             n == Len(st.instances)
  <2>1. stores' = [stores EXCEPT ![s] = new] /\ issued' = issued \cup {h}
    BY <1>5 DEF Finish
  <2>2. StartOf(s, st, instance)
    BY <1>5
  <2>3. /\ new \in StoreType /\ new.live /\ new.id = s /\ new.tag = TagOf(s) /\ new.code = st.code /\ new.entries = st.entries
        /\ LinksStay(new) /\ InstancesStay(new) /\ EntriesStay(new) /\ EnvsIn(new)
        /\ Extends(st, new) /\ n + 1 \in DOMAIN new.instances /\ new.instances[n + 1].instance = instance /\ n \in Nat
    BY <1>2, <2>2, HandedFacts
  <2>4. h = [id |-> Pack(TagOf(s), n), store |-> s, kind |-> "instance", of |-> [kind |-> "instance", instance |-> instance]]
    BY <1>3 DEF InstanceHandle, HandleFor
  <2>5. instance \in InstanceIds
    BY DEF ThenType
  <2> HIDE DEF new, n
  <2>6. Pack(TagOf(s), n) \in Nat
    BY <1>2, <2>3, TagFacts, PackedIsNumber
  <2>7. h \in HandleType /\ h.kind = "instance" /\ h.store = s /\ h.id = Pack(TagOf(s), n) /\ h.of.kind = "instance"
        /\ h.of.instance = instance
    <3> HIDE DEF instance, h
    <3>1. [kind |-> "instance", instance |-> instance] \in [kind : {"instance"}, instance : InstanceIds]
      BY <2>5
    <3> QED BY <1>2, <2>4, <2>6, <3>1 DEF HandleType
  <2>8. \E k : k = h
    OBVIOUS
  <2>9. PICK g : g = h
    BY <2>8
  <2> HIDE DEF instance, h
  <2>10. /\ StoresKept' /\ LinkersKept' /\ EnvsKnown' /\ stores' \in Seq(StoreType) /\ Len(stores') = Len(stores)
         /\ DOMAIN stores' = DOMAIN stores /\ stores'[s] = new
    BY <1>3, <2>1, <2>3, StoreStep
  <2>11. Issued(g)'
    <3>1. g.id = Pack(TagOf(g.store), (n + 1) - 1) /\ g.kind = "instance" /\ g.of.kind = g.kind /\ g.store = s /\ g.of.instance = instance
      BY <2>3, <2>7, <2>9
    <3>2. n + 1 \in DOMAIN stores'[s].instances /\ stores'[s].instances[n + 1].instance = instance
      BY <2>3, <2>10
    <3> QED BY <1>2, <2>10, <3>1, <3>2 DEF Issued
  <2>12. Extends(stores[s], new)
    BY <1>3, <2>3 DEF Extends
  <2>13. issued \subseteq issued' /\ \A k \in issued' : k \in issued \/ Issued(k)'
    BY <2>1, <2>9, <2>11
  <2>14. IsFiniteSet(issued') /\ HandlesMade' <= MaxHandles
    <3>1. IsFiniteSet(issued) /\ HandlesMade <= MaxHandles
      BY DEF EmbedderInv, HandlesKept
    <3>2. {k \in issued' : k.kind # "instance"} = {k \in issued : k.kind # "instance"}
      BY <2>1, <2>7
    <3> QED BY <2>1, <3>1, <3>2, FS_AddElement DEF HandlesMade
  <2>15. Named(s, stores[s], new, issued')
    BY <1>3, <2>3 DEF Named
  <2>16. HandlesKept'
    BY <2>1, <2>12, <2>13, <2>14, <2>15, HandlesStep
  <2>17. issued' \subseteq HandleType
    BY <2>1, <2>7 DEF EmbedderInv, Typed
  <2> QED BY <1>1, <2>1, <2>3, <2>10, <2>16, <2>17 DEF Left
<1> QED BY <1>4, <1>5

LEMMA InvokeLeaves ==
  ASSUME EmbedderInv, NEW s \in FreeStores, NEW st, Ready(s, st), NEW then \in ThenType,
         then.start => StartOf(s, st, then.instance),
         NEW instance, NEW func, Running(st, instance, func), Invoke(s, st, instance, func, then),
         linkers' = linkers, DOMAIN rc' = DOMAIN rc
  PROVE  /\ Left(s, st) /\ FramesKept' /\ Outcomes'
         /\ stack' \in Seq(FrameType) /\ exits' \in Seq(BOOLEAN)
<1> DEFINE end == Reach(st, instance, func)
<1>1. s \in Live(stores) /\ s \in DOMAIN stores /\ s \in Nat /\ stack \in Seq(FrameType) /\ exits \in Seq(BOOLEAN)
      /\ parked = NoMessage
  BY DEF FreeStores, EmbedderInv, Typed, Live, Outcomes
<1>2. st \in StoreType /\ LinksStay(st)
  BY DEF Ready
<1>3. end \in Points(st)
  BY <1>2, ReachEnds
<1> HIDE DEF end
<1>4. CASE end.kind = "return"
  <2>1. Finish(s, st, then) /\ UNCHANGED <<parked, exits, stack>>
    BY <1>4 DEF Invoke, end
  <2>2. Left(s, st) /\ outcome'.code \in {"ok", "error"}
    BY <1>1, <2>1, FinishLeaves
  <2>3. PICK new : stores' = [stores EXCEPT ![s] = new]
    BY <2>2 DEF Left
  <2>4. FramesKept'
    BY <2>1, <2>3, FramesStep
  <2>5. Outcomes'
    BY <1>1, <2>1, <2>2 DEF Outcomes, TrapsCarryTheirMessage
  <2> QED BY <1>1, <2>1, <2>2, <2>4, <2>5
<1>5. CASE end.kind = "func"
  <2> DEFINE frame == [store |-> s, linker |-> then.linker, env |-> end.env, then |-> then]
  <2>1. /\ stack' = Append(stack, frame) /\ stores' = [stores EXCEPT ![s] = st] /\ outcome' = Ok
        /\ UNCHANGED <<parked, exits, issued>>
    BY <1>5 DEF Invoke, end
  <2>2. Left(s, st)
    BY <1>1, <2>1, LeavesAsReady
  <2>3. end \in LinksIn(st)
    BY <1>3, <1>5 DEF Points
  <2>4. PICK i \in DOMAIN st.code : \E k \in DOMAIN st.code[i].links : end = st.code[i].links[k]
    BY <2>3 DEF LinksIn
  <2>5. PICK k \in DOMAIN st.code[i].links : end = st.code[i].links[k]
    BY <2>4
  <2>6. end.env \in Nat
    <3>1. end \in Backings
      BY <2>3 DEF LinksIn
    <3> QED BY <1>5, <3>1 DEF Backings, NamedDefs
  <2>7. frame \in FrameType
    BY <1>1, <2>6 DEF FrameType, ThenType
  <2>8. PICK f : f = frame
    OBVIOUS
  <2>9. f.store = s /\ f.env = end.env /\ f.then = then /\ f \in FrameType /\ stack' = Append(stack, f)
    BY <2>1, <2>7, <2>8
  <2> HIDE DEF frame
  <2>10. stores'[s] = st /\ s \in DOMAIN stores'
    BY <1>1, <2>1
  <2>11. StoreHolds(f.store, f.env)' # {}
    <3>1. k \in UsesAt(st.code[i].links, f.env)
      BY <1>5, <2>5, <2>9 DEF UsesAt
    <3>2. <<"store", s, i, k>> \in StoreHolds(f.store, f.env)'
      BY <2>9, <2>10, <3>1 DEF StoreHolds
    <3> QED BY <3>2
  <2>12. FrameKept(f)'
    <3>1. f.store \in Live(stores)'
      BY <2>9, <2>10 DEF Live, Ready
    <3> QED BY <2>9, <2>10, <2>11, <3>1 DEF FrameKept, StartOf
  <2>13. /\ stack' \in Seq(FrameType) /\ Len(stack) \in Nat /\ DOMAIN stack = 1..Len(stack)
         /\ DOMAIN stack' = 1..(Len(stack) + 1) /\ stack'[Len(stack) + 1] = f
         /\ \A j \in DOMAIN stack : stack'[j] = stack[j]
    BY <1>1, <2>9, LongerSeq
  <2>14. \A j \in DOMAIN stack : FrameKept(stack[j]) /\ stack[j].store # s
    BY DEF EmbedderInv, FramesKept, FreeStores
  <2>15. ASSUME NEW g, FrameKept(g), g.store # s PROVE FrameKept(g)'
    BY <1>1, <2>1, <2>15, FrameElsewhere
  <2>16. \A i1, j1 \in DOMAIN stack' : stack'[i1].store = stack'[j1].store => i1 = j1
    BY <2>9, <2>13, <2>14 DEF EmbedderInv, FramesKept
  <2>17. ASSUME NEW j \in DOMAIN stack' PROVE \E g : g = stack'[j] /\ FrameKept(g)'
    <3>1. CASE j = Len(stack) + 1
      BY <2>12, <2>13, <3>1
    <3>2. CASE j \in DOMAIN stack
      <4>1. FrameKept(stack[j]) /\ stack[j].store # s
        BY <2>14, <3>2
      <4>2. PICK g : g = stack[j]
        OBVIOUS
      <4>3. FrameKept(g)'
        BY <2>15, <4>1, <4>2
      <4> QED BY <2>13, <3>2, <4>2, <4>3
    <3> QED BY <2>13, <3>1, <3>2
  <2>18. FramesKept'
    BY <2>16, <2>17 DEF FramesKept
  <2>19. Outcomes'
    BY <1>1, <2>1 DEF Outcomes, TrapsCarryTheirMessage, Ok
  <2> QED BY <1>1, <2>1, <2>2, <2>13, <2>18, <2>19
<1>6. CASE end.kind # "return" /\ end.kind # "func"
  <2>1. stores' = [stores EXCEPT ![s] = st] /\ UNCHANGED <<stack, issued>>
    BY <1>6 DEF Invoke, end
  <2>2. Left(s, st) /\ FramesKept'
    BY <1>1, <2>1, LeavesAsReady, FramesStep
  <2>3. CASE /\ end.kind = "fallback" /\ UNCHANGED exits
             /\ outcome' = Trapped(end.name, end.name) /\ parked' = AfterTaking(end.name)
    <3>1. end.name # NoMessage
      <4>1. end \in Backings
        BY <1>3, <2>3 DEF Points, LinksIn
      <4>2. end.name \in Names
        BY <2>3, <4>1 DEF Backings, NamedDefs
      <4>3. PICK imp \in AllImports : end.name = imp.name
        BY <4>2 DEF Names
      <4>4. PICK m \in Modules : imp \in ToSet(m.imports)
        BY DEF AllImports
      <4>5. PICK k \in DOMAIN m.imports : imp = m.imports[k]
        BY <4>4 DEF ToSet
      <4> QED BY <4>3, <4>5, ModulesAssumption
    <3>2. Outcomes'
      BY <2>3, <3>1 DEF Outcomes, TrapsCarryTheirMessage, Trapped, Message, AfterTaking
    <3> QED BY <1>1, <2>1, <2>2, <2>3, <3>2
  <2>4. CASE /\ exits' = [exits EXCEPT ![end.ctx] = TRUE]
             /\ outcome' = Trapped(parked, "host trap") /\ parked' = AfterTaking(parked)
    <3>1. Outcomes'
      BY <1>1, <2>4 DEF Outcomes, TrapsCarryTheirMessage, Trapped, Message, AfterTaking
    <3>2. exits' \in Seq(BOOLEAN)
      <4>1. TRUE \in BOOLEAN
        OBVIOUS
      <4> QED BY <1>1, <2>4, <4>1, ChangedWhereItIs
    <3> QED BY <1>1, <2>1, <2>2, <3>1, <3>2
  <2>5. CASE outcome' = EngineTrap /\ UNCHANGED <<parked, exits>>
    <3>1. Outcomes'
      BY <1>1, <2>5 DEF Outcomes, TrapsCarryTheirMessage, EngineTrap
    <3> QED BY <1>1, <2>1, <2>2, <2>5, <3>1
  <2> QED BY <1>6, <2>3, <2>4, <2>5 DEF Invoke, end
<1> QED BY <1>4, <1>5, <1>6

-----------------------------------------------------------------------------
(* Calls.                                                                  *)

LEMMA CallKeeps ==
  ASSUME EmbedderInv, NEW s \in Live(stores), Left(s, stores[s]), FramesKept', Outcomes',
         stack' \in Seq(FrameType), exits' \in Seq(BOOLEAN), UNCHANGED <<nextTag, linkers, log, rc, finals>>
  PROVE  EmbedderInv'
<1>1. PICK new \in StoreType : stores' = [stores EXCEPT ![s] = new] /\ new.code = stores[s].code /\ new.live
  BY DEF Left
<1>2. ASSUME NEW e PROVE Holders(e)' = Holders(e)
  BY <1>1, SameHolders
<1>3. Counted'
  BY <1>2 DEF EmbedderInv, Counted
<1>4. Typed'
  BY DEF EmbedderInv, Typed, Left
<1> QED BY <1>3, <1>4, LinkersUntouched DEF EmbedderInv, Left

LEMMA InstanceFound ==
  ASSUME EmbedderInv, NEW s \in Live(stores), NEW id \in Nat, InstanceOf(stores[s], id) # NotFound
  PROVE  LET instance == InstanceOf(stores[s], id).instance
         IN /\ instance \in InstanceIds /\ instance.store = s /\ instance.index \in DOMAIN stores[s].code
            /\ \E k \in DOMAIN stores[s].instances : InstanceOf(stores[s], id) = stores[s].instances[k]
<1> DEFINE st == stores[s]
<1>1. st \in StoreType /\ st.live /\ s \in DOMAIN stores /\ st.id = s /\ st.tag = TagOf(s) /\ s \in Nat
  BY DEF EmbedderInv, Typed, Live, StoresKept
<1>2. Unpack(id, st.tag) \in Int
  BY UnpackedIsSlot
<1>3. st.instances \in Seq(SlotType)
  BY <1>1, StoreParts
<1>4. \E k \in DOMAIN st.instances : InstanceOf(st, id) = st.instances[k]
  BY <1>2, <1>3, FoundAt DEF InstanceOf
<1>5. PICK k \in DOMAIN st.instances : InstanceOf(st, id) = st.instances[k]
  BY <1>4
<1>6. st.instances[k] \in SlotType
  BY <1>3
<1>7. st.instances[k].instance.store = s /\ st.instances[k].instance.index \in DOMAIN st.code
  BY <1>1 DEF EmbedderInv, StoresKept, InstancesStay
<1> QED BY <1>4, <1>5, <1>6, <1>7 DEF SlotType

LEMMA EntryFound ==
  ASSUME EmbedderInv, NEW s \in Live(stores), NEW id \in Nat, EntryOf(stores[s], "func", id) # NotFound
  PROVE  LET f == EntryOf(stores[s], "func", id)
         IN Running(stores[s], f.instance, f.index)
<1> DEFINE st == stores[s]
           entry == At(st.entries["func"], Unpack(id, st.tag))
           inst == At(st.instances, entry.slot)
<1>1. st \in StoreType /\ st.live /\ s \in DOMAIN stores /\ st.id = s /\ st.tag = TagOf(s) /\ s \in Nat
  BY DEF EmbedderInv, Typed, Live, StoresKept
<1>2. Unpack(id, st.tag) \in Int
  BY UnpackedIsSlot
<1>3. st.instances \in Seq(SlotType) /\ st.entries["func"] \in Seq(EntryType) /\ "func" \in Kinds
  BY <1>1, StoreParts DEF Kinds
<1>4. /\ entry # NotFound /\ inst # NotFound
      /\ EntryOf(st, "func", id) = [kind |-> "func", instance |-> inst.instance, index |-> entry.index]
  BY DEF EntryOf
<1>5. \E k \in DOMAIN st.entries["func"] : entry = st.entries["func"][k]
  BY <1>2, <1>3, <1>4, FoundAt
<1>6. PICK k \in DOMAIN st.entries["func"] : entry = st.entries["func"][k]
  BY <1>5
<1> HIDE DEF entry
<1>7. entry \in EntryType
  BY <1>3, <1>6
<1>8. entry.slot \in Nat /\ entry.index \in Nat
  BY <1>7 DEF EntryType
<1>9. entry.slot + 1 \in DOMAIN st.instances /\ inst = st.instances[entry.slot + 1]
  BY <1>3, <1>4, <1>8, FoundAt
<1>10. entry.index \in 1..FuncCount(st.code[st.instances[entry.slot + 1].instance.index].module)
  BY <1>1, <1>3, <1>6 DEF EmbedderInv, StoresKept, EntriesStay
<1>11. inst \in SlotType
  BY <1>3, <1>9
<1>12. inst.instance \in InstanceIds /\ inst.instance.store = st.id /\ inst.instance.index \in DOMAIN st.code
  BY <1>1, <1>9, <1>11 DEF EmbedderInv, StoresKept, InstancesStay, SlotType
<1> HIDE DEF inst
<1>13. Running(st, inst.instance, entry.index)
  BY <1>9, <1>10, <1>12 DEF Running
<1> QED BY <1>4, <1>13

LEMMA FuncTypeIs ==
  ASSUME NEW st \in StoreType, NEW instance, NEW f, Running(st, instance, f)
  PROVE  FuncType(st, instance, f) \in FuncTypes
<1> DEFINE m == st.code[instance.index].module
           kept == FuncImports(m)
           imports == Retained(m.imports, kept)
           place == f - Len(imports)
<1>1. m \in Modules /\ f \in 1..FuncCount(m)
  BY CodeParts DEF Running
<1> HIDE DEF m
<1>2. /\ kept \in SUBSET (DOMAIN m.imports) /\ Cardinality(kept) \in Nat
      /\ Len(m.funcs) \in Nat /\ DOMAIN m.funcs = 1..Len(m.funcs) /\ FuncCount(m) = Cardinality(kept) + Len(m.funcs)
  BY <1>1, FuncImportsFacts DEF FuncCount
<1>3. m.imports \in Seq(ToSet(m.imports)) /\ m.funcs \in Seq([calls : 0..FuncCount(m), type : FuncTypes])
  BY <1>1, ModulesAssumption
<1>4. \A k \in kept : m.imports[k].type \in FuncTypes
  BY <1>1, <1>2, ModulesAssumption DEF FuncImports
<1> HIDE DEF kept
<1>5. Len(imports) = Cardinality(kept) /\ \A n \in 1..Cardinality(kept) : \E k \in kept : imports[n] = m.imports[k]
  <2>1. PICK T : T = ToSet(m.imports)
    OBVIOUS
  <2>2. m.imports \in Seq(T)
    BY <1>3, <2>1
  <2> QED BY <1>2, <2>2, RetainedKeeps
<1> HIDE DEF imports
<1>6. FuncType(st, instance, f) = IF f <= Len(imports) THEN imports[f].type ELSE m.funcs[place].type
  BY DEF FuncType, m, kept, imports
<1>7. CASE f <= Len(imports)
  BY <1>1, <1>2, <1>4, <1>5, <1>6, <1>7
<1>8. CASE ~(f <= Len(imports))
  <2>1. place \in DOMAIN m.funcs
    BY <1>1, <1>2, <1>5, <1>8
  <2> DEFINE T == [calls : 0..FuncCount(m), type : FuncTypes]
  <2> HIDE DEF place, T
  <2>2. m.funcs \in Seq(T)
    BY <1>3 DEF T
  <2>3. m.funcs[place] \in T
    BY <2>1, <2>2
  <2>4. m.funcs[place].type \in FuncTypes
    BY <2>3 DEF T
  <2> QED BY <1>6, <1>8, <2>4
<1> QED BY <1>7, <1>8

LEMMA Reported ==
  ASSUME EmbedderInv, NEW text, UNCHANGED <<nextTag, issued, rc, finals, stores, linkers, log, parked, exits, stack>>,
         outcome' = Error(text) \/ outcome' = Ok
  PROVE  EmbedderInv'
<1>1. Outcomes'
  BY DEF EmbedderInv, Outcomes, TrapsCarryTheirMessage, Error, Ok
<1> QED BY <1>1, Stays

LEMMA FuncCallKeeps ==
  ASSUME EmbedderInv, NEW s \in FreeStores, NEW h \in HandlesOf("func"), NEW nargs, NEW nresults,
         FuncCall(s, h, nargs, nresults)
  PROVE  EmbedderInv'
<1> DEFINE st == stores[s]
           f == EntryOf(st, "func", h.id)
           type == FuncType(st, f.instance, f.index)
           objection == CallObjection(type, nargs, nresults)
           then == [start |-> FALSE, instance |-> f.instance, wraps |-> type.wraps, linker |-> 0]
<1>1. s \in Live(stores) /\ st \in StoreType /\ h.id \in Nat
  BY DEF FreeStores, Live, EmbedderInv, Typed, HandlesOf, HandleType
<1>2. UNCHANGED <<nextTag, linkers, log, rc, finals>>
  BY DEF FuncCall, SameEnvs
<1>3. CASE f = NotFound
  <2>1. UNCHANGED <<issued, stores, parked, exits, stack>> /\ outcome' = Error("foreign function")
    BY <1>3 DEF FuncCall, Report
  <2> QED BY <1>2, <2>1, Reported
<1>4. CASE f # NotFound /\ objection # NoMessage
  <2>1. UNCHANGED <<issued, stores, parked, exits, stack>> /\ outcome' = Error(objection)
    BY <1>4 DEF FuncCall, Report
  <2> QED BY <1>2, <2>1, Reported
<1>5. CASE f # NotFound /\ objection = NoMessage
  <2>1. Invoke(s, st, f.instance, f.index, then)
    BY <1>5 DEF FuncCall
  <2>2. Running(st, f.instance, f.index)
    BY <1>1, <1>5, EntryFound
  <2>3. type \in FuncTypes
    BY <1>1, <2>2, FuncTypeIs
  <2> HIDE DEF f, type
  <2>4. f.instance \in InstanceIds
    BY <2>2 DEF Running
  <2>5. then \in ThenType /\ ~then.start
    BY <2>3, <2>4 DEF ThenType, FuncTypes
  <2> HIDE DEF then
  <2>6. Ready(s, st)
    BY <1>1, ReadyAsItIs
  <2>7. /\ Left(s, st) /\ FramesKept' /\ Outcomes' /\ stack' \in Seq(FrameType) /\ exits' \in Seq(BOOLEAN)
    BY <1>2, <2>1, <2>2, <2>5, <2>6, InvokeLeaves
  <2> QED BY <1>1, <1>2, <2>7, CallKeeps
<1> QED BY <1>3, <1>4, <1>5

LEMMA InitializeKeeps ==
  ASSUME EmbedderInv, NEW s \in FreeStores, NEW h \in HandlesOf("instance"), Initialize(s, h)
  PROVE  EmbedderInv'
<1> DEFINE st == stores[s]
           inst == InstanceOf(st, h.id)
           export == ExportIn(st, inst.instance, "_initialize")
           then == [start |-> FALSE, instance |-> inst.instance, wraps |-> FALSE, linker |-> 0]
<1>1. s \in Live(stores) /\ st \in StoreType /\ h.id \in Nat
  BY DEF FreeStores, Live, EmbedderInv, Typed, HandlesOf, HandleType
<1>2. UNCHANGED <<nextTag, linkers, log, rc, finals>>
  BY DEF Initialize, SameEnvs
<1>3. CASE inst = NotFound
  <2>1. UNCHANGED <<issued, stores, parked, exits, stack>> /\ outcome' = Error("foreign instance")
    BY <1>3 DEF Initialize, Report
  <2> QED BY <1>2, <2>1, Reported
<1>4. CASE inst # NotFound /\ export.kind # "func"
  <2>1. UNCHANGED <<issued, stores, parked, exits, stack>> /\ outcome' = Ok
    BY <1>4 DEF Initialize, Report
  <2> QED BY <1>2, <2>1, Reported
<1>5. CASE inst # NotFound /\ export.kind = "func"
  <2>1. Invoke(s, st, inst.instance, export.index, then)
    BY <1>5 DEF Initialize
  <2>2. inst.instance \in InstanceIds /\ inst.instance.store = s /\ inst.instance.index \in DOMAIN st.code
    BY <1>1, <1>5, InstanceFound
  <2> HIDE DEF inst
  <2>3. export # Nothing
    BY <1>5 DEF Nothing
  <2>4. Running(st, inst.instance, export.index)
    BY <1>1, <1>5, <2>2, <2>3, ExportedFacts
  <2> HIDE DEF export
  <2>5. then \in ThenType /\ ~then.start
    BY <2>2 DEF ThenType
  <2> HIDE DEF then
  <2>6. Ready(s, st)
    BY <1>1, ReadyAsItIs
  <2>7. /\ Left(s, st) /\ FramesKept' /\ Outcomes' /\ stack' \in Seq(FrameType) /\ exits' \in Seq(BOOLEAN)
    BY <1>2, <2>1, <2>4, <2>5, <2>6, InvokeLeaves
  <2> QED BY <1>1, <1>2, <2>7, CallKeeps
<1> QED BY <1>3, <1>4, <1>5

LEMMA CallbackReturnsKeeps ==
  ASSUME EmbedderInv, NEW trap, CallbackReturns(trap)
  PROVE  EmbedderInv'
<1>1. stack \in Seq(FrameType) /\ stack # <<>> /\ exits \in Seq(BOOLEAN) /\ parked = NoMessage
  BY DEF EmbedderInv, Typed, CallbackReturns, Outcomes
<1>2. PICK n : n = Len(stack)
  OBVIOUS
<1>3. PICK frame : frame = stack[n]
  OBVIOUS
<1>4. /\ n \in Nat \ {0} /\ frame \in FrameType /\ n \in DOMAIN stack /\ Last(stack) = frame
      /\ DOMAIN stack = 1..n
  BY <1>1, <1>2, <1>3 DEF Last
<1>5. /\ stack' \in Seq(FrameType) /\ DOMAIN stack' = 1..(n - 1) /\ \A k \in 1..(n - 1) : stack'[k] = stack[k]
  <2>1. stack' = SubSeq(stack, 1, n - 1)
    BY <1>2 DEF CallbackReturns, Front
  <2> QED BY <1>1, <1>2, <1>4, <2>1
<1> DEFINE s == frame.store
           st == stores[s]
<1>6. s \in Live(stores) /\ (frame.then.start => StartOf(s, st, frame.then.instance)) /\ frame.then \in ThenType
  <2>1. FrameKept(frame)
    BY <1>3, <1>4 DEF EmbedderInv, FramesKept
  <2> QED BY <1>4, <2>1 DEF FrameKept, StartOf, FrameType
<1>7. ASSUME NEW k \in DOMAIN stack' PROVE stack'[k].store # s /\ FrameKept(stack[k]) /\ stack'[k] = stack[k] /\ k \in DOMAIN stack
  <2>1. k \in DOMAIN stack /\ k # n /\ stack'[k] = stack[k]
    BY <1>4, <1>5
  <2> QED BY <1>3, <1>4, <2>1 DEF EmbedderInv, FramesKept
<1>8. ASSUME NEW new, stores' = [stores EXCEPT ![s] = new] PROVE FramesKept'
  <2>1. ASSUME NEW f, FrameKept(f), f.store # s PROVE FrameKept(f)'
    BY <1>6, <1>8, <2>1, FrameElsewhere
  <2>2. \A i, j \in DOMAIN stack' : stack'[i].store = stack'[j].store => i = j
    BY <1>7 DEF EmbedderInv, FramesKept
  <2>3. \A k \in DOMAIN stack' : \E f : f = stack'[k] /\ FrameKept(f)'
    <3> SUFFICES ASSUME NEW k \in DOMAIN stack' PROVE \E f : f = stack'[k] /\ FrameKept(f)'
      OBVIOUS
    <3>1. PICK f : f = stack[k]
      OBVIOUS
    <3> QED BY <1>7, <2>1, <3>1
  <2> QED BY <2>2, <2>3 DEF FramesKept
<1>9. UNCHANGED <<nextTag, linkers, exits, log, rc, finals>>
  BY DEF CallbackReturns, SameEnvs
<1>10. Ready(s, st)
  BY <1>6, ReadyAsItIs
<1>11. CASE trap = NoMessage
  <2>1. Finish(s, st, frame.then) /\ parked' = parked
    BY <1>4, <1>11 DEF CallbackReturns
  <2>2. Left(s, st) /\ outcome'.code \in {"ok", "error"}
    <3> DEFINE then == frame.then
    <3>1. then \in ThenType /\ (then.start => StartOf(s, st, then.instance)) /\ Finish(s, st, then)
      BY <1>6, <2>1
    <3> HIDE DEF then
    <3> QED BY <1>6, <1>9, <1>10, <3>1, FinishLeaves
  <2>3. FramesKept'
    BY <1>8, <2>2 DEF Left
  <2>4. Outcomes'
    BY <1>1, <2>1, <2>2 DEF Outcomes, TrapsCarryTheirMessage
  <2> QED BY <1>1, <1>5, <1>6, <1>9, <2>2, <2>3, <2>4, CallKeeps
<1>12. CASE trap # NoMessage
  <2>1. outcome' = Trapped(trap, trap) /\ parked' = NoMessage /\ UNCHANGED <<stores, issued>>
    BY <1>12 DEF CallbackReturns, AfterTaking
  <2>2. stores' = [stores EXCEPT ![s] = st]
    BY <2>1 DEF EmbedderInv, Typed
  <2>3. Left(s, st)
    BY <1>6, <1>9, <1>10, <2>1, <2>2, LeavesAsReady
  <2>4. FramesKept'
    BY <1>8, <2>2
  <2>5. Outcomes'
    BY <1>12, <2>1 DEF Outcomes, TrapsCarryTheirMessage, Trapped, Message
  <2> QED BY <1>1, <1>5, <1>6, <1>9, <2>3, <2>4, <2>5, CallKeeps
<1> QED BY <1>11, <1>12

LEMMA SlotFound ==
  ASSUME NEW st \in StoreType, NEW k \in DOMAIN st.instances, NEW instance, st.instances[k].instance = instance
  PROVE  /\ SlotOf(st, instance) \in Nat /\ SlotOf(st, instance) < Len(st.instances)
         /\ st.instances[SlotOf(st, instance) + 1].instance = instance
<1>1. st.instances \in Seq(SlotType)
  BY StoreParts
<1>2. Len(st.instances) \in Nat /\ k \in 1..Len(st.instances)
  BY <1>1
<1>3. k - 1 \in 0..(Len(st.instances) - 1) /\ st.instances[(k - 1) + 1].instance = instance
  BY <1>2
<1>4. SlotOf(st, instance) \in 0..(Len(st.instances) - 1) /\ st.instances[SlotOf(st, instance) + 1].instance = instance
  BY <1>3 DEF SlotOf
<1> QED BY <1>2, <1>4

LEMMA GetExportKeeps ==
  ASSUME EmbedderInv, NEW s \in FreeStores, NEW h \in HandlesOf("instance"), NEW name, NEW kind \in Kinds,
         GetExport(s, h, name, kind)
  PROVE  EmbedderInv'
<1> DEFINE st == stores[s]
           inst == InstanceOf(st, h.id)
           export == ExportIn(st, inst.instance, name)
           entry == [slot |-> SlotOf(st, inst.instance), index |-> export.index]
           was == st.entries[kind]
           now == Append(was, entry)
           new == [st EXCEPT !.entries[kind] = now]
           n == Len(was)
           of == [kind |-> kind, instance |-> inst.instance, index |-> export.index]
           given == HandleFor(st, s, kind, n, of)
<1>1. s \in Live(stores) /\ s \in DOMAIN stores /\ s \in Nat /\ st \in StoreType /\ st.live /\ h.id \in Nat
  BY DEF FreeStores, Live, EmbedderInv, Typed, HandlesOf, HandleType
<1>2. /\ inst # NotFound /\ export # Nothing /\ export.kind = kind /\ HandlesMade < MaxHandles
      /\ stores' = [stores EXCEPT ![s] = new] /\ issued' = issued \cup {given}
      /\ UNCHANGED <<nextTag, linkers, log, rc, finals, parked, exits, stack>> /\ outcome' = Ok
  BY <1>1 DEF GetExport, SameEnvs, Report
<1>3. /\ inst.instance \in InstanceIds /\ inst.instance.store = s /\ inst.instance.index \in DOMAIN st.code
      /\ \E k \in DOMAIN st.instances : inst = st.instances[k]
  BY <1>1, <1>2, InstanceFound
<1> HIDE DEF inst
<1>4. export.index \in Nat /\ (kind = "func" => Running(st, inst.instance, export.index))
  BY <1>1, <1>2, <1>3, ExportedFacts
<1> HIDE DEF export
<1>5. st.id = s /\ st.tag = TagOf(s) /\ LinksStay(st) /\ InstancesStay(st) /\ EntriesStay(st) /\ EnvsIn(st)
      /\ st.instances \in Seq(SlotType) /\ st.code \in Seq(CodeType) /\ st.entries \in [Kinds -> Seq(EntryType)]
  BY <1>1, ReadyAsItIs, StoreParts DEF Ready
<1>6. /\ entry.slot \in Nat /\ entry.slot < Len(st.instances) /\ st.instances[entry.slot + 1].instance = inst.instance
      /\ entry.index = export.index
  BY <1>1, <1>3, SlotFound
<1>7. entry \in EntryType
  BY <1>4, <1>6 DEF EntryType
<1> HIDE DEF entry
<1>8. was \in Seq(EntryType)
  BY <1>5
<1>9. /\ now \in Seq(EntryType) /\ n \in Nat /\ DOMAIN was = 1..n /\ DOMAIN now = 1..(n + 1) /\ now[n + 1] = entry
      /\ \A k \in DOMAIN was : now[k] = was[k]
  <2> HIDE DEF was
  <2>1. /\ Append(was, entry) \in Seq(EntryType) /\ Len(was) \in Nat
        /\ DOMAIN was = 1..Len(was) /\ DOMAIN Append(was, entry) = 1..(Len(was) + 1)
        /\ Append(was, entry)[Len(was) + 1] = entry
        /\ \A k \in DOMAIN was : Append(was, entry)[k] = was[k]
    BY <1>7, <1>8, LongerSeq
  <2> QED BY <2>1
<1> HIDE DEF was, now, n
<1>10. /\ new \in StoreType /\ new.live /\ new.id = s /\ new.tag = TagOf(s) /\ new.code = st.code /\ new.instances = st.instances
       /\ new.entries[kind] = now /\ \A other \in Kinds : other # kind => new.entries[other] = st.entries[other]
  <2>1. [st.entries EXCEPT ![kind] = now] \in [Kinds -> Seq(EntryType)]
    BY <1>5, <1>9
  <2>2. new = [st EXCEPT !.entries = [st.entries EXCEPT ![kind] = now]]
    BY <1>1 DEF StoreType
  <2> DEFINE changed == [st.entries EXCEPT ![kind] = now]
  <2>3. changed[kind] = now /\ \A other \in Kinds : other # kind => changed[other] = st.entries[other]
    BY <1>5
  <2> HIDE DEF changed, new
  <2>4. new = [st EXCEPT !.entries = changed] /\ changed \in [Kinds -> Seq(EntryType)]
    BY <2>1, <2>2 DEF changed
  <2>5. new \in StoreType /\ new.live = st.live /\ new.id = st.id /\ new.tag = st.tag /\ new.code = st.code /\ new.instances = st.instances
        /\ new.entries = changed
    BY <1>1, <2>4 DEF StoreType
  <2> QED BY <1>1, <1>5, <2>3, <2>5
<1> HIDE DEF new
<1>11. LinksStay(new) /\ InstancesStay(new) /\ EnvsIn(new)
  <2>1. LinksStay(new)
    BY <1>1, <1>5, <1>10 DEF LinksStay
  <2>2. InstancesStay(new)
    BY <1>1, <1>5, <1>10 DEF InstancesStay
  <2>3. EnvsIn(new)
    BY <1>1, <1>5, <1>10 DEF EnvsIn
  <2> QED BY <2>1, <2>2, <2>3
<1>12. EntriesStay(new)
  <2> SUFFICES ASSUME NEW other \in Kinds, NEW k \in DOMAIN new.entries[other]
               PROVE LET e == new.entries[other][k]
                     IN /\ e.slot < Len(st.instances)
                        /\ other = "func" => e.index \in 1..FuncCount(st.code[st.instances[e.slot + 1].instance.index].module)
    BY <1>10 DEF EntriesStay
  <2>1. ASSUME new.entries[other][k] = st.entries[other][k], k \in DOMAIN st.entries[other]
        PROVE LET e == new.entries[other][k]
              IN /\ e.slot < Len(st.instances)
                 /\ other = "func" => e.index \in 1..FuncCount(st.code[st.instances[e.slot + 1].instance.index].module)
    BY <1>1, <1>5, <2>1 DEF EntriesStay
  <2>2. CASE other # kind
    BY <1>10, <2>1, <2>2
  <2>3. CASE other = kind /\ k \in DOMAIN was
    BY <1>9, <1>10, <2>1, <2>3 DEF was
  <2>4. CASE other = kind /\ k = n + 1
    <3>1. new.entries[other][k] = entry
      BY <1>9, <1>10, <2>4
    <3>2. kind = "func" => entry.index \in 1..FuncCount(st.code[inst.instance.index].module)
      BY <1>4, <1>6 DEF Running
    <3> QED BY <1>6, <2>4, <3>1, <3>2
  <2>5. k \in DOMAIN was \/ k = n + 1 \/ other # kind
    BY <1>9, <1>10
  <2> QED BY <2>2, <2>3, <2>4, <2>5
<1>13. given = [id |-> Pack(TagOf(s), n), store |-> s, kind |-> kind, of |-> of]
  BY <1>5 DEF HandleFor
<1>14. of.kind = kind /\ of.instance = inst.instance /\ of.index = export.index
       /\ of \in [kind : Kinds, instance : InstanceIds, index : Nat]
  BY <1>3, <1>4
<1>15. Pack(TagOf(s), n) \in Nat
  BY <1>1, <1>9, TagFacts, PackedIsNumber
<1>16. PICK g : g = given
  OBVIOUS
<1> HIDE DEF of, given
<1>17. /\ g \in HandleType /\ g.kind = kind /\ g.store = s /\ g.id = Pack(TagOf(s), n) /\ g.of.kind = kind
       /\ g.of.instance = inst.instance /\ g.of.index = export.index
  BY <1>1, <1>13, <1>14, <1>15, <1>16 DEF HandleType
<1>18. /\ StoresKept' /\ LinkersKept' /\ EnvsKnown' /\ stores' \in Seq(StoreType) /\ Len(stores') = Len(stores)
       /\ DOMAIN stores' = DOMAIN stores /\ stores'[s] = new
  <2>1. DOMAIN rc' = DOMAIN rc /\ linkers' = linkers /\ DOMAIN st.code \subseteq DOMAIN new.code
    BY <1>2, <1>10
  <2> QED BY <1>1, <1>2, <1>10, <1>11, <1>12, <2>1, StoreStep
<1>19. HandlesKept'
  <2>1. Issued(g)'
    <3>1. kind # "instance"
      BY DEF Kinds
    <3>2. n + 1 \in DOMAIN stores'[s].entries[kind] /\ stores'[s].entries[kind][n + 1] = entry
      BY <1>9, <1>10, <1>18
    <3>3. stores'[s].instances[entry.slot + 1].instance = inst.instance
      BY <1>6, <1>10, <1>18
    <3>4. g.id = Pack(TagOf(s), (n + 1) - 1)
      BY <1>9, <1>17
    <3> QED BY <1>1, <1>6, <1>17, <1>18, <3>1, <3>2, <3>3, <3>4 DEF Issued
  <2>2. Extends(st, new)
    <3>1. ASSUME NEW other \in Kinds, NEW k \in DOMAIN st.entries[other]
          PROVE k \in DOMAIN new.entries[other] /\ new.entries[other][k] = st.entries[other][k]
      <4>1. CASE other = kind
        BY <1>9, <1>10, <4>1 DEF was
      <4>2. CASE other # kind
        BY <1>10, <4>2
      <4> QED BY <4>1, <4>2
    <3> QED BY <1>10, <3>1 DEF Extends
  <2>3. issued \subseteq issued' /\ \A k \in issued' : k \in issued \/ Issued(k)'
    BY <1>2, <1>16, <2>1
  <2>4. IsFiniteSet(issued') /\ HandlesMade' <= MaxHandles
    <3> DEFINE made == {k \in issued : k.kind # "instance"}
    <3>1. IsFiniteSet(issued) /\ HandlesMade = Cardinality(made)
      BY DEF EmbedderInv, HandlesKept, HandlesMade
    <3>2. kind # "instance"
      BY DEF Kinds
    <3>3. HandlesMade' = Cardinality(made \cup {g})
      <4>1. {k \in issued' : k.kind # "instance"} = made \cup {g}
        BY <1>2, <1>16, <1>17, <3>2
      <4> QED BY <4>1 DEF HandlesMade
    <3>4. IsFiniteSet(made)
      BY <3>1, FS_Subset
    <3> HIDE DEF made
    <3>5. Cardinality(made \cup {g}) <= Cardinality(made) + 1 /\ Cardinality(made) \in Nat
      <4>1. Cardinality(made \cup {g}) = IF g \in made THEN Cardinality(made) ELSE Cardinality(made) + 1
        BY <3>4, FS_AddElement
      <4> QED BY <3>4, <4>1, FS_CardinalityType
    <3>6. IsFiniteSet(issued')
      BY <1>2, <3>1, FS_AddElement
    <3>7. MaxHandles \in Nat /\ Cardinality(made) < MaxHandles
      BY <1>2, <3>1, BoundsAssumption
    <3>8. Cardinality(made \cup {g}) \in Nat
      BY <3>4, FS_AddElement, FS_CardinalityType
    <3> QED BY <3>3, <3>5, <3>6, <3>7, <3>8
  <2>5. ASSUME NEW other \in Kinds, NEW k \in DOMAIN new.entries[other]
        PROVE \/ k \in DOMAIN st.entries[other]
              \/ \E x \in issued' : x.kind = other /\ x.store = s /\ x.id = Pack(TagOf(s), k - 1)
    <3>1. CASE other # kind
      BY <1>10, <3>1
    <3>2. CASE other = kind /\ k \in DOMAIN was
      BY <3>2 DEF was
    <3>3. CASE other = kind /\ k = n + 1
      <4>1. g \in issued' /\ g.id = Pack(TagOf(s), k - 1)
        BY <1>2, <1>9, <1>16, <1>17, <3>3
      <4> QED BY <1>17, <3>3, <4>1
    <3> QED BY <1>9, <1>10, <3>1, <3>2, <3>3
  <2>6. Named(s, st, new, issued')
    BY <2>5 DEF Named
  <2> QED BY <1>1, <1>2, <2>2, <2>3, <2>4, <2>6, HandlesStep
<1>20. issued' \subseteq HandleType
  BY <1>2, <1>16, <1>17 DEF EmbedderInv, Typed
<1>21. Left(s, st)
  BY <1>2, <1>10, <1>18, <1>19, <1>20 DEF Left
<1>22. FramesKept' /\ Outcomes'
  BY <1>2, FramesStep DEF EmbedderInv, Outcomes, TrapsCarryTheirMessage, Ok
<1>23. stack' \in Seq(FrameType) /\ exits' \in Seq(BOOLEAN)
  BY <1>2 DEF EmbedderInv, Typed
<1> QED BY <1>1, <1>2, <1>21, <1>22, <1>23, CallKeeps


PairsAt(s, K) == {<<s, k>> : k \in K}

LEMMA InstancesCounted ==
  ASSUME EmbedderInv, NEW s \in Live(stores)
  PROVE  Len(stores[s].code) <= InstancesMade /\ InstancesMade \in Nat
<1> DEFINE Row(j) == PairsAt(j, DOMAIN stores[j].code)
           Rows == {Row(j) : j \in DOMAIN stores}
<1>1. stores \in Seq(StoreType) /\ s \in DOMAIN stores
  BY DEF EmbedderInv, Typed, Live
<1>2. ASSUME NEW j \in DOMAIN stores
      PROVE IsFiniteSet(Row(j)) /\ Cardinality(Row(j)) = Len(stores[j].code)
  <2> DEFINE n == Len(stores[j].code)
             f == [k \in 1..n |-> <<j, k>>]
  <2>1. stores[j] \in StoreType
    BY <1>1
  <2>2. n \in Nat /\ DOMAIN stores[j].code = 1..n
    BY <2>1, StoreParts
  <2> HIDE DEF n
  <2>3. Row(j) = PairsAt(j, 1..n)
    BY <2>2
  <2>4. 0 \in Int /\ 1 \in Int /\ n \in Int /\ IsFiniteSet(1..n) /\ Cardinality(1..n) = n
    <3>1. Cardinality(1..n) = IF 1 > n THEN 0 ELSE n - 1 + 1
      BY <2>2, FS_Interval
    <3>2. IsFiniteSet(1..n)
      BY <2>2, FS_Interval
    <3> QED BY <2>2, <3>1, <3>2
  <2>5. f \in Bijection(1..n, PairsAt(j, 1..n))
    BY DEF PairsAt, Bijection, Injection, Surjection, IsInjective
  <2>6. ExistsBijection(1..n, PairsAt(j, 1..n))
    BY <2>5 DEF ExistsBijection
  <2>7. IsFiniteSet(PairsAt(j, 1..n)) /\ Cardinality(PairsAt(j, 1..n)) = n
    BY <2>4, <2>6, FS_Bijection
  <2> QED BY <2>3, <2>7 DEF n
<1>3. IsFiniteSet(DOMAIN stores)
  <2>1. Len(stores) \in Nat /\ DOMAIN stores = 1..Len(stores)
    BY <1>1
  <2> QED BY <2>1, FS_Interval
<1>4. IsFiniteSet(Rows)
  <2> DEFINE g == [j \in DOMAIN stores |-> Row(j)]
  <2>1. g \in Surjection(DOMAIN stores, Rows)
    BY DEF Surjection
  <2> HIDE DEF g, Rows
  <2> QED BY <1>3, <2>1, FS_Surjection
<1>5. IsFiniteSet(UNION Rows)
  <2>1. \A R \in Rows : IsFiniteSet(R)
    BY <1>2
  <2> HIDE DEF Rows
  <2> QED BY <1>4, <2>1, FS_UNION
<1>6. Row(s) \subseteq UNION Rows
  BY <1>1
<1>7. InstancesMade = Cardinality(UNION Rows)
  BY DEF InstancesMade, PairsAt
<1> HIDE DEF Row, Rows
<1>8. Cardinality(Row(s)) <= Cardinality(UNION Rows) /\ Cardinality(UNION Rows) \in Nat
  BY <1>5, <1>6, FS_Subset, FS_CardinalityType
<1> QED BY <1>1, <1>2, <1>7, <1>8
\* An instance joins store s.
Joined(st, module, backings) == [st EXCEPT !.code = Append(@, [module |-> module, links |-> backings])]

LEMMA JoinedIsReady ==
  ASSUME EmbedderInv, NEW s \in Live(stores), NEW l \in Live(linkers), NEW m \in Modules,
         NEW backings \in Seq(Backings), DOMAIN backings = DOMAIN m.imports,
         \A k \in DOMAIN backings : Leads(linkers[l], stores[s], m.imports[k], backings[k]),
         InstancesMade < MaxInstances
  PROVE  LET st == stores[s]
             n == Len(st.code) + 1
             joined == Joined(st, m, backings)
         IN /\ Ready(s, joined) /\ n \in Nat /\ StartOf(s, joined, [store |-> s, index |-> n])
            /\ \A f \in 1..FuncCount(m) : Running(joined, [store |-> s, index |-> n], f)
            /\ joined.live /\ DOMAIN joined.code = DOMAIN st.code \cup {n} /\ n \notin DOMAIN st.code
            /\ joined.code[n].links = backings
            /\ \A i \in DOMAIN st.code : joined.code[i] = st.code[i]
<1> DEFINE st == stores[s]
           added == [module |-> m, links |-> backings]
           code == Append(st.code, added)
           n == Len(st.code) + 1
           joined == Joined(st, m, backings)
<1>1. /\ s \in DOMAIN stores /\ s \in Nat /\ st \in StoreType /\ st.live /\ st.id = s /\ st.tag = TagOf(s)
      /\ LinksStay(st) /\ InstancesStay(st) /\ EntriesStay(st) /\ EnvsIn(st)
      /\ linkers[l] \in LinkerType /\ l \in DOMAIN linkers
  BY ReadyAsItIs DEF Ready, EmbedderInv, Typed, Live
<1>2. st.code \in Seq(CodeType) /\ st.instances \in Seq(SlotType) /\ st.entries \in [Kinds -> Seq(EntryType)]
  BY <1>1, StoreParts
<1>3. added \in CodeType /\ added.module = m /\ added.links = backings
  BY DEF CodeType
<1> HIDE DEF added
<1>4. Len(st.code) \in Nat /\ Len(st.instances) \in Nat /\ n \in Nat /\ DOMAIN st.code = 1..Len(st.code)
      /\ DOMAIN st.instances = 1..Len(st.instances)
  BY <1>2
<1>5. /\ code \in Seq(CodeType) /\ Len(code) = n /\ DOMAIN code = 1..n /\ code[n] = added
      /\ \A i \in DOMAIN st.code : code[i] = st.code[i]
  BY <1>2, <1>3, LongerSeq
<1> HIDE DEF code
<1>6. /\ joined \in StoreType /\ joined.live = st.live /\ joined.id = st.id /\ joined.tag = st.tag /\ joined.code = code
      /\ joined.instances = st.instances /\ joined.entries = st.entries
  <2>1. joined = [st EXCEPT !.code = code]
    BY DEF Joined, code, added
  <2> HIDE DEF joined, st
  <2> QED BY <1>1, <1>5, <2>1 DEF StoreType
<1>7. Len(st.code) <= InstancesMade /\ InstancesMade \in Nat /\ MaxInstances \in Nat
  BY InstancesCounted, BoundsAssumption
<1>8. DOMAIN st.code \subseteq DOMAIN code /\ n \notin DOMAIN st.code /\ DOMAIN code = DOMAIN st.code \cup {n}
      /\ n <= MaxInstances
  BY <1>4, <1>5, <1>7
<1> HIDE DEF joined, n, st
<1>9. ASSUME NEW instance, NEW f, Running(st, instance, f) PROVE Running(joined, instance, f)
  BY <1>5, <1>6, <1>8, <1>9 DEF Running
<1>10. LinksStay(joined)
  <2> SUFFICES ASSUME NEW i \in DOMAIN code
               PROVE /\ DOMAIN code[i].links = DOMAIN code[i].module.imports
                     /\ \A k \in FuncImports(code[i].module) : code[i].links[k].kind = "instance" =>
                          /\ code[i].links[k].instance.store = joined.id /\ code[i].links[k].instance.index \in DOMAIN code
                          /\ code[i].links[k].index \in 1..FuncCount(code[code[i].links[k].instance.index].module)
    BY <1>6 DEF LinksStay, LinksWithin
  <2>1. CASE i \in DOMAIN st.code
    <3>1. /\ DOMAIN st.code[i].links = DOMAIN st.code[i].module.imports
          /\ \A k \in FuncImports(st.code[i].module) : st.code[i].links[k].kind = "instance" =>
               /\ st.code[i].links[k].instance.store = st.id /\ st.code[i].links[k].instance.index \in DOMAIN st.code
               /\ st.code[i].links[k].index \in 1..FuncCount(st.code[st.code[i].links[k].instance.index].module)
      BY <1>1, <2>1 DEF LinksStay, LinksWithin
    <3>2. code[i] = st.code[i] /\ joined.id = st.id /\ joined.tag = st.tag
      BY <1>5, <1>6, <2>1
    <3>3. ASSUME NEW k \in FuncImports(st.code[i].module), st.code[i].links[k].kind = "instance"
          PROVE  LET link == st.code[i].links[k]
                 IN /\ link.instance.store = st.id /\ link.instance.index \in DOMAIN code
                    /\ link.index \in 1..FuncCount(code[link.instance.index].module)
      <4>1. PICK link : link = st.code[i].links[k]
        OBVIOUS
      <4>2. link.instance.store = st.id /\ link.instance.index \in DOMAIN st.code
            /\ link.index \in 1..FuncCount(st.code[link.instance.index].module)
        BY <3>1, <3>3, <4>1
      <4>3. link.instance.index \in DOMAIN code /\ code[link.instance.index] = st.code[link.instance.index]
        BY <1>5, <1>8, <4>2
      <4> QED BY <4>1, <4>2, <4>3
    <3> QED BY <3>1, <3>2, <3>3
  <2>2. CASE i = n
    <3>1. code[i].links = backings /\ code[i].module = m
      BY <1>3, <1>5, <2>2
    <3>2. ASSUME NEW k \in FuncImports(m), backings[k].kind = "instance"
          PROVE Running(joined, backings[k].instance, backings[k].index)
      <4>1. k \in DOMAIN backings /\ m.imports[k].kind = "func"
        BY <3>2 DEF FuncImports
      <4>2. Leads(linkers[l], st, m.imports[k], backings[k])
        BY <4>1 DEF st
      <4> QED BY <1>9, <3>2, <4>1, <4>2 DEF Leads
    <3> QED BY <1>6, <3>1, <3>2 DEF Running
  <2> QED BY <1>8, <2>1, <2>2
<1>11. InstancesStay(joined)
  <2>1. /\ Len(st.instances) <= MaxInstances
        /\ \A k \in DOMAIN st.instances : st.instances[k].instance.store = st.id
        /\ Len(st.instances) <= Len(st.code)
        /\ \A k \in DOMAIN st.instances : st.instances[k].instance.index \in DOMAIN st.code
    BY <1>1 DEF InstancesStay
  <2>2. Len(st.instances) <= Len(code) /\ Len(code) <= MaxInstances
    BY <1>4, <1>5, <1>8, <2>1 DEF n
  <2> QED BY <1>6, <1>8, <2>1, <2>2 DEF InstancesStay
<1>12. EntriesStay(joined)
  <2> SUFFICES ASSUME NEW kind \in Kinds, NEW k \in DOMAIN st.entries[kind]
               PROVE LET entry == st.entries[kind][k]
                         instance == st.instances[entry.slot + 1].instance
                     IN /\ entry.slot < Len(st.instances)
                        /\ joined.live /\ kind = "func" => entry.index \in 1..FuncCount(code[instance.index].module)
    BY <1>6 DEF EntriesStay
  <2> DEFINE entry == st.entries[kind][k]
             instance == st.instances[entry.slot + 1].instance
  <2>1. entry \in EntryType
    <3>1. st.entries[kind] \in Seq(EntryType)
      BY <1>2
    <3> QED BY <3>1
  <2>2. entry.slot \in Nat
    BY <2>1 DEF EntryType
  <2>3. entry.slot < Len(st.instances) /\ (kind = "func" => entry.index \in 1..FuncCount(st.code[instance.index].module))
    BY <1>1 DEF EntriesStay
  <2> HIDE DEF entry
  <2>4. entry.slot + 1 \in DOMAIN st.instances
    BY <1>4, <2>2, <2>3
  <2>5. instance.index \in DOMAIN st.code
    BY <1>1, <2>4 DEF InstancesStay
  <2> QED BY <1>5, <2>3, <2>5 DEF entry
<1>13. EnvsIn(joined)
  <2> SUFFICES ASSUME NEW i \in DOMAIN code, NEW k \in DOMAIN code[i].links, code[i].links[k].kind = "func"
               PROVE code[i].links[k].env \in DOMAIN rc
    BY <1>6 DEF EnvsIn
  <2>1. CASE i \in DOMAIN st.code
    BY <1>1, <1>5, <2>1 DEF EnvsIn
  <2>2. CASE i = n
    <3>1. code[i].links = backings
      BY <1>3, <1>5, <2>2
    <3>2. Leads(linkers[l], st, m.imports[k], backings[k])
      BY <3>1 DEF st
    <3>3. PICK j \in DOMAIN linkers[l].defs : linkers[l].defs[j].def = backings[k]
      BY <3>1, <3>2 DEF Leads
    <3> QED BY <1>1, <3>1, <3>3 DEF EmbedderInv, EnvsKnown
  <2> QED BY <1>8, <2>1, <2>2
<1>14. Ready(s, joined)
  <2>1. DOMAIN stores[s].code \subseteq DOMAIN joined.code /\ joined.entries = stores[s].entries
        /\ joined.instances = stores[s].instances
    BY <1>6, <1>8 DEF st
  <2> QED BY <1>1, <1>6, <1>10, <1>11, <1>12, <1>13, <2>1 DEF Ready
<1>15. StartOf(s, joined, [store |-> s, index |-> n])
  <2>1. Len(st.instances) <= Len(st.code)
    BY <1>1 DEF InstancesStay
  <2>2. Len(st.instances) < n /\ Len(code) = n
    BY <1>4, <1>5, <2>1 DEF n
  <2> QED BY <1>6, <2>2 DEF StartOf
<1>16. ASSUME NEW f \in 1..FuncCount(m) PROVE Running(joined, [store |-> s, index |-> n], f)
  <2>1. [store |-> s, index |-> n] \in InstanceIds
    BY <1>1, <1>4 DEF InstanceIds
  <2>2. n \in DOMAIN joined.code /\ joined.code[n].module = m
    BY <1>3, <1>5, <1>6, <1>8
  <2> QED BY <1>1, <1>6, <2>1, <2>2 DEF Running
<1>17. joined.code[n].links = backings
  BY <1>3, <1>5, <1>6
<1> QED BY <1>1, <1>4, <1>5, <1>6, <1>8, <1>14, <1>15, <1>16, <1>17 DEF joined, n, st

LEMMA InstantiateKeeps ==
  ASSUME EmbedderInv, NEW l \in FreeLinkers, NEW s \in FreeStores, NEW m \in Modules, NEW fails \in BOOLEAN,
         Instantiate(l, s, m, fails)
  PROVE  EmbedderInv'
<1> DEFINE st == stores[s]
           resolved == Resolve(linkers[l], m.imports, Offers(linkers[l], st, m.imports))
           backings == resolved.backings
           instance == [store |-> st.id, index |-> Len(st.code) + 1]
           joined == Joined(st, m, backings)
           then == [start |-> TRUE, instance |-> instance, wraps |-> FALSE, linker |-> l]
           left == [e \in DOMAIN rc |-> rc[e] + Uses(backings, e)]
<1>1. /\ UNCHANGED <<nextTag, linkers, log>> /\ InstancesMade < MaxInstances
      /\ \/ /\ outcome' = (IF resolved.code # "ok" THEN Error(resolved.code) ELSE EngineTrap)
            /\ UNCHANGED <<rc, finals, stores, issued, parked, exits, stack>>
         \/ /\ resolved.code = "ok" /\ Count(left)
            /\ \/ m.start = 0 /\ Finish(s, joined, then) /\ UNCHANGED <<parked, exits, stack>>
               \/ m.start # 0 /\ Invoke(s, joined, instance, m.start, then)
  BY DEF Instantiate, Joined, Report, SameEnvs
<1>2. /\ s \in Live(stores) /\ l \in Live(linkers) /\ st \in StoreType /\ linkers[l] \in LinkerType
      /\ s \in DOMAIN stores /\ l \in DOMAIN linkers /\ st.id = s /\ st.tag = TagOf(s) /\ st.live /\ s \in Nat /\ l \in Nat
  BY DEF FreeStores, FreeLinkers, Live, EmbedderInv, Typed, StoresKept
<1>3. CASE /\ outcome' = (IF resolved.code # "ok" THEN Error(resolved.code) ELSE EngineTrap)
           /\ UNCHANGED <<rc, finals, stores, issued, parked, exits, stack>>
  <2>1. Outcomes'
    BY <1>3 DEF EmbedderInv, Outcomes, TrapsCarryTheirMessage, Error, EngineTrap
  <2> QED BY <1>1, <1>3, <2>1, Stays
<1>4. CASE /\ resolved.code = "ok" /\ Count(left)
           /\ \/ m.start = 0 /\ Finish(s, joined, then) /\ UNCHANGED <<parked, exits, stack>>
              \/ m.start # 0 /\ Invoke(s, joined, instance, m.start, then)
  <2>1. NamesStay(linkers[l], st)
    BY <1>2 DEF EmbedderInv, LinkersKept, NamesStand, NamesStay
  <2>2. /\ backings \in Seq(Backings) /\ DOMAIN backings = DOMAIN m.imports
        /\ \A k \in DOMAIN backings : Leads(linkers[l], st, m.imports[k], backings[k])
    BY <1>2, <1>4, <2>1, ImportsLead
  <2> HIDE DEF resolved, backings
  <2>3. PICK place : place = Len(st.code) + 1
    OBVIOUS
  <2>4. /\ Ready(s, joined) /\ place \in Nat /\ StartOf(s, joined, [store |-> s, index |-> place])
        /\ \A f \in 1..FuncCount(m) : Running(joined, [store |-> s, index |-> place], f)
        /\ joined.live /\ DOMAIN joined.code = DOMAIN st.code \cup {place} /\ place \notin DOMAIN st.code
        /\ joined.code[place].links = backings
        /\ \A i \in DOMAIN st.code : joined.code[i] = st.code[i]
    BY <1>1, <1>2, <2>2, <2>3, JoinedIsReady
  <2>5. instance = [store |-> s, index |-> place]
    BY <1>2, <2>3
  <2>6. instance \in InstanceIds
    BY <1>2, <2>4, <2>5 DEF InstanceIds
  <2> HIDE DEF instance, joined
  <2>7. then \in ThenType /\ then.start /\ then.instance = instance /\ (then.start => StartOf(s, joined, then.instance))
    BY <1>2, <2>4, <2>5, <2>6 DEF ThenType
  <2> HIDE DEF then
  <2>8. rc' = left /\ DOMAIN rc' = DOMAIN rc
    BY <1>4 DEF Count
  <2> HIDE DEF left
  <2>9. Left(s, joined) /\ FramesKept' /\ Outcomes' /\ stack' \in Seq(FrameType) /\ exits' \in Seq(BOOLEAN)
    <3>1. CASE m.start = 0 /\ Finish(s, joined, then) /\ UNCHANGED <<parked, exits, stack>>
      <4>1. Left(s, joined) /\ outcome'.code \in {"ok", "error"}
        BY <1>1, <1>2, <2>4, <2>7, <2>8, <3>1, FinishLeaves
      <4>2. PICK new : stores' = [stores EXCEPT ![s] = new]
        BY <4>1 DEF Left
      <4>3. FramesKept'
        BY <3>1, <4>2, FramesStep
      <4>4. Outcomes' /\ stack' \in Seq(FrameType) /\ exits' \in Seq(BOOLEAN)
        BY <3>1, <4>1 DEF EmbedderInv, Typed, Outcomes, TrapsCarryTheirMessage
      <4> QED BY <4>1, <4>3, <4>4
    <3>2. CASE m.start # 0 /\ Invoke(s, joined, instance, m.start, then)
      <4>1. m.start \in 1..FuncCount(m)
        <5>1. m.start \in 0..FuncCount(m) /\ m.start # 0
          BY <3>2, ModulesAssumption
        <5>2. FuncCount(m) \in Nat
          BY FuncImportsFacts
        <5> QED BY <5>1, <5>2
      <4>2. Running(joined, instance, m.start)
        BY <2>4, <2>5, <4>1
      <4> QED BY <1>1, <2>4, <2>7, <2>8, <3>2, <4>2, InvokeLeaves
    <3> QED BY <1>4, <3>1, <3>2
  <2>10. PICK new \in StoreType : stores' = [stores EXCEPT ![s] = new] /\ new.code = joined.code /\ new.live
    BY <2>9 DEF Left
  <2>11. ASSUME NEW e \in DOMAIN rc
         PROVE IsFiniteSet(Holders(e)') /\ left[e] = Cardinality(Holders(e)') /\ (Holders(e) = {} => Holders(e)' = {})
    <3> DEFINE U == UsesAt(backings, e)
               T == Tuples("store", s, place, U)
    <3>1. stores'[s] = new
      BY <1>2, <2>10
    <3>2. /\ StoreHolds(s, e) \subseteq Holders(e)
          /\ Holders(e)' = (Holders(e) \ StoreHolds(s, e)) \cup StoreHolds(s, e)'
      BY <1>1, <1>2, <2>10, StoreSwap
    <3>3. StoreHolds(s, e)' = StoreHolds(s, e) \cup T
      <4> DEFINE Row(i) == {<<"store", s, i, k>> : k \in UsesAt(joined.code[i].links, e)}
      <4>1. StoreHolds(s, e)' = UNION {Row(i) : i \in DOMAIN joined.code}
        BY <2>10, <3>1 DEF StoreHolds
      <4>2. StoreHolds(s, e) = UNION {Row(i) : i \in DOMAIN st.code}
        BY <2>4 DEF StoreHolds
      <4>3. Row(place) = T
        BY <2>4 DEF Tuples
      <4> HIDE DEF Row, T
      <4> QED BY <2>4, <4>1, <4>2, <4>3
    <3>4. Holders(e)' = Holders(e) \cup T
      BY <3>2, <3>3
    <3>5. Holders(e) \cap T = {}
      <4> SUFFICES ASSUME NEW x \in T, x \in Holders(e) PROVE FALSE
        OBVIOUS
      <4>1. PICK k : x = <<"store", s, place, k>>
        BY DEF Tuples
      <4>2. ~InLinker(x, e)
        BY <4>1 DEF InLinker
      <4>3. PICK j \in Live(stores) : \E i \in DOMAIN stores[j].code : \E u \in UsesAt(stores[j].code[i].links, e) :
              x = <<"store", j, i, u>>
        BY <4>2, HolderIs DEF InStore
      <4> QED BY <2>4, <4>1, <4>3
    <3>6. IsFiniteSet(U) /\ Uses(backings, e) = Cardinality(U)
      BY <2>2, UsesAreFinite DEF Uses
    <3>7. IsFiniteSet(T) /\ Cardinality(T) = Cardinality(U)
      <4> HIDE DEF U
      <4> QED BY <3>6, TuplesCounted
    <3>8. IsFiniteSet(Holders(e)) /\ rc[e] = Cardinality(Holders(e))
      BY DEF EmbedderInv, Counted
    <3>9. ASSUME Holders(e) = {} PROVE T = {}
      <4> SUFFICES ASSUME NEW k \in U PROVE FALSE
        BY DEF Tuples
      <4>1. k \in DOMAIN backings /\ backings[k].kind = "func" /\ backings[k].env = e
        BY DEF UsesAt
      <4>2. PICK j \in DOMAIN linkers[l].defs : linkers[l].defs[j].def = backings[k]
        BY <2>2, <4>1 DEF Leads
      <4>3. j \in UsesAt(DefsOf(linkers[l]), e)
        BY <1>2, <4>1, <4>2, DefsOfIsList DEF UsesAt
      <4>4. InLinker(<<"linker", l, 0, j>>, e)
        BY <1>2, <4>3 DEF InLinker
      <4> QED BY <3>9, <4>4, HolderIs
    <3> HIDE DEF T, U
    <3>10. /\ IsFiniteSet(Holders(e) \cup T)
           /\ Cardinality(Holders(e) \cup T) = Cardinality(Holders(e)) + Cardinality(T) - Cardinality(Holders(e) \cap T)
      BY <3>7, <3>8, FS_Union
    <3>11. Cardinality(Holders(e)) \in Nat /\ Cardinality(T) \in Nat /\ Cardinality(Holders(e) \cap T) = 0
      BY <3>5, <3>7, <3>8, FS_CardinalityType, FS_EmptySet
    <3>12. left[e] = rc[e] + Uses(backings, e)
      BY DEF left
    <3> QED BY <3>4, <3>6, <3>7, <3>8, <3>9, <3>10, <3>11, <3>12
  <2>12. left = [e \in DOMAIN rc |-> left[e]]
    BY DEF left
  <2>13. /\ Counted' /\ rc' \in Seq(Nat) /\ finals' \in Seq(Nat)
         /\ Len(rc') = Len(rc) /\ Len(finals') = Len(rc) /\ DOMAIN rc' = DOMAIN rc
    BY <1>4, <2>11, <2>12, CountKeeps
  <2>14. NamesMeanTheirLastDefinition'
    BY <1>1, LinkersUntouched
  <2>15. Typed'
    BY <1>1, <2>9, <2>13 DEF EmbedderInv, Typed, Left
  <2> QED BY <2>9, <2>13, <2>14, <2>15 DEF EmbedderInv, Left
<1> QED BY <1>1, <1>3, <1>4

-----------------------------------------------------------------------------
(* The invariant, and what it says.                                        *)

LEMMA InitKeeps ==
  ASSUME Init
  PROVE  EmbedderInv
<1> DEFINE none == <<>>
<1>1. /\ nextTag = 1 /\ stores = none /\ linkers = none /\ rc = none /\ finals = none /\ exits = none
      /\ stack = none /\ parked = NoMessage /\ outcome = Ok /\ issued = {} /\ log = none
  BY DEF Init
<1>2. none \in Seq(StoreType) /\ none \in Seq(LinkerType) /\ none \in Seq(Nat) /\ none \in Seq(BOOLEAN)
      /\ none \in Seq(FrameType) /\ none \in Seq(LogType) /\ DOMAIN none = {} /\ Len(none) = 0
  OBVIOUS
<1> HIDE DEF none
<1>3. Typed
  <2>1. 1 < Wide
    BY WideAssumption, BoundsAssumption
  <2>2. TagOf(1) = 1
    BY <2>1, TagFacts
  <2> QED BY <1>1, <1>2, <2>2 DEF Typed
<1>4. StoresKept /\ LinkersKept /\ FramesKept /\ EnvsKnown /\ Counted /\ NamesMeanTheirLastDefinition
  BY <1>1, <1>2 DEF StoresKept, LinkersKept, NamesStand, FramesKept, EnvsKnown, Counted, NamesMeanTheirLastDefinition, Live
<1>5. HandlesKept
  <2>1. {h \in issued : h.kind # "instance"} = {} /\ IsFiniteSet({}) /\ Cardinality({}) = 0
    BY <1>1, FS_EmptySet
  <2>2. HandlesMade <= MaxHandles
    BY <2>1, BoundsAssumption DEF HandlesMade
  <2> QED BY <1>1, <1>2, <2>1, <2>2 DEF HandlesKept
<1>6. Outcomes
  BY <1>1 DEF Outcomes, TrapsCarryTheirMessage, Ok
<1> QED BY <1>3, <1>4, <1>5, <1>6 DEF EmbedderInv

LEMMA NextKeeps ==
  ASSUME EmbedderInv, [Next]_vars
  PROVE  EmbedderInv'
<1>1. CASE Lifetimes
  BY <1>1, StoreNewKeeps, LinkerNewKeeps, StoreDeleteKeeps, LinkerDeleteKeeps DEF Lifetimes
<1>2. CASE Definitions
  <2>1. PICK l \in FreeLinkers :
          \/ \E imp \in AllImports :
               \/ DefineFunc(l, imp.module, imp.name)
               \/ imp.kind = "global" /\ DefineOther(l, imp.module, imp.name, [kind |-> "global"])
               \/ \E s \in FreeStores, h \in HandlesOf("instance") : DefineInstance(l, s, imp.module, h)
          \/ DefineWasi(l) \/ DefineUnknownImportsAsTraps(l)
    BY <1>2 DEF Definitions
  <2> QED BY <2>1, DefineFuncKeeps, DefineOtherKeeps, DefineInstanceKeeps, DefineWasiKeeps, DefineFallbackKeeps
<1>3. CASE Calls
  <2>1. CASE \E s \in FreeStores, l \in FreeLinkers, m \in Modules, fails \in BOOLEAN : Instantiate(l, s, m, fails)
    BY <2>1, InstantiateKeeps
  <2>2. CASE \E s \in FreeStores, h \in HandlesOf("instance") :
               Initialize(s, h) \/ \E name \in ExportNames, kind \in Kinds : GetExport(s, h, name, kind)
    BY <2>2, InitializeKeeps, GetExportKeeps
  <2>3. CASE \E s \in FreeStores, h \in HandlesOf("func"), n \in 0..1 : FuncCall(s, h, n, 0)
    BY <2>3, FuncCallKeeps
  <2>4. CASE \E trap \in {NoMessage, "callback"} : CallbackReturns(trap)
    BY <2>4, CallbackReturnsKeeps
  <2> QED BY <1>3, <2>1, <2>2, <2>3, <2>4 DEF Calls
<1>4. CASE UNCHANGED vars
  <2>1. Outcomes'
    BY <1>4 DEF EmbedderInv, Outcomes, TrapsCarryTheirMessage, vars
  <2> QED BY <1>4, <2>1, Stays DEF vars
<1> QED BY <1>1, <1>2, <1>3, <1>4 DEF Next

(* Whatever an embedder calls, in any order wasmrt.h allows, the C         *)
(* interface keeps what its handles, links and reference counts rely on.   *)
(* Tags wrap: what is kept of a handle is the tag it was packed with.      *)
THEOREM AlwaysEmbedderInv == Spec => []EmbedderInv
BY InitKeeps, NextKeeps, PTL DEF Spec

LEMMA InvType ==
  ASSUME EmbedderInv
  PROVE  TypeOK
<1>1. /\ nextTag = TagOf(Len(stores) + 1) /\ Len(finals) = Len(rc) /\ Len(log) = Len(linkers) /\ rc \in Seq(Nat)
      /\ outcome.code \in {"ok", "error", "trap"}
  BY DEF EmbedderInv, Typed, Outcomes
<1>2. \A s \in DOMAIN stores : /\ Len(stores[s].instances) <= MaxInstances
                               /\ stores[s].live => Len(stores[s].instances) <= Len(stores[s].code)
  BY DEF EmbedderInv, StoresKept, InstancesStay
<1>3. \A k \in DOMAIN stack : stack[k].store \in Live(stores)
  BY DEF EmbedderInv, FramesKept, FrameKept
<1>4. \A e \in DOMAIN rc : rc[e] \in Nat
  BY <1>1
<1> QED BY <1>1, <1>2, <1>3, <1>4 DEF TypeOK, TagOf

LEMMA InvFinalizers ==
  ASSUME EmbedderInv
  PROVE  FinalizersRunOnce
<1>1. rc \in Seq(Nat) /\ finals \in Seq(Nat) /\ Len(finals) = Len(rc)
  BY DEF EmbedderInv, Typed
<1>2. DOMAIN finals = DOMAIN rc
  BY <1>1
<1>3. ASSUME NEW e \in DOMAIN rc PROVE finals[e] = IF Holders(e) = {} THEN 1 ELSE 0
  <2>1. IsFiniteSet(Holders(e)) /\ rc[e] = Cardinality(Holders(e)) /\ finals[e] = IF rc[e] = 0 THEN 1 ELSE 0
    BY DEF EmbedderInv, Counted
  <2>2. rc[e] = 0 <=> Holders(e) = {}
    BY <2>1, FS_EmptySet
  <2> QED BY <2>1, <2>2
<1>4. ASSUME NEW k \in DOMAIN stack PROVE finals[stack[k].env] = 0
  <2> DEFINE s == stack[k].store
             e == stack[k].env
  <2>1. s \in Live(stores) /\ StoreHolds(s, e) # {}
    BY DEF EmbedderInv, FramesKept, FrameKept
  <2>2. Holders(e) # {}
    BY <2>1 DEF Holders
  <2>3. e \in DOMAIN rc
    <3>1. PICK i \in DOMAIN stores[s].code : UsesAt(stores[s].code[i].links, e) # {}
      BY <2>1 DEF StoreHolds
    <3>2. PICK j \in DOMAIN stores[s].code[i].links :
            stores[s].code[i].links[j].kind = "func" /\ stores[s].code[i].links[j].env = e
      BY <3>1 DEF UsesAt
    <3> QED BY <2>1, <3>2 DEF EmbedderInv, EnvsKnown, Live
  <2> QED BY <1>3, <2>2, <2>3
<1> QED BY <1>2, <1>3, <1>4 DEF FinalizersRunOnce

\* Each entry behind a handle of a kind was given a handle of its own.
LEMMA EntriesCounted ==
  ASSUME EmbedderInv, NEW s \in DOMAIN stores, NEW kind \in Kinds
  PROVE  Len(stores[s].entries[kind]) <= MaxHandles
<1> DEFINE entries == stores[s].entries[kind]
           n == Len(entries)
           made == {h \in issued : h.kind # "instance"}
           f == [k \in 1..n |-> CHOOSE h \in made : h.id = Pack(TagOf(s), k - 1)]
<1>1. entries \in Seq(EntryType)
  <2>1. stores[s] \in StoreType
    BY DEF EmbedderInv, Typed
  <2> QED BY <2>1, StoreParts
<1>2. n \in Nat /\ DOMAIN entries = 1..n
  BY <1>1
<1>3. IsFiniteSet(issued) /\ Cardinality(made) <= MaxHandles
  BY DEF EmbedderInv, HandlesKept, HandlesMade
<1>4. IsFiniteSet(made)
  BY <1>3, FS_Subset
<1>5. \A k \in 1..n : \E h \in made : h.id = Pack(TagOf(s), k - 1)
  <2>1. \A k \in DOMAIN entries : \E h \in issued : h.kind = kind /\ h.store = s /\ h.id = Pack(TagOf(s), k - 1)
    BY DEF EmbedderInv, HandlesKept
  <2>2. kind # "instance"
    BY DEF Kinds
  <2> QED BY <1>2, <2>1, <2>2
<1> HIDE DEF entries, n, made
<1>6. \A k \in 1..n : f[k] \in made /\ f[k].id = Pack(TagOf(s), k - 1)
  BY <1>5
<1>7. f \in Injection(1..n, made)
  <2>1. f \in [1..n -> made]
    BY <1>6
  <2>2. ASSUME NEW j \in 1..n, NEW k \in 1..n, f[j] = f[k] PROVE j = k
    <3>1. Pack(TagOf(s), j - 1) = Pack(TagOf(s), k - 1)
      BY <1>6, <2>2
    <3>2. TagOf(s) * Wide \in Nat
      <4>1. s \in Nat
        BY DEF EmbedderInv, Typed
      <4> QED BY <4>1, TagFacts, WideAssumption
    <3> DEFINE base == TagOf(s) * Wide
    <3>3. base + (j - 1) + 1 = base + (k - 1) + 1
      BY <3>1 DEF Pack
    <3> HIDE DEF base
    <3>4. base \in Nat
      BY <3>2 DEF base
    <3> QED BY <1>2, <3>3, <3>4
  <2> HIDE DEF f
  <2> QED BY <2>1, <2>2 DEF Injection, IsInjective
<1>8. n <= Cardinality(made)
  <2>1. IsFiniteSet(1..n) /\ Cardinality(1..n) = n
    <3>1. 1 \in Int /\ n \in Int
      BY <1>2
    <3>2. Cardinality(1..n) = (IF 1 > n THEN 0 ELSE n - 1 + 1) /\ IsFiniteSet(1..n)
      BY <3>1, FS_Interval
    <3> QED BY <1>2, <3>2
  <2> HIDE DEF f
  <2> QED BY <1>4, <1>7, <2>1, FS_Injection
<1>9. Cardinality(made) \in Nat /\ MaxHandles \in Nat
  BY <1>4, FS_CardinalityType, BoundsAssumption
<1> QED BY <1>2, <1>3, <1>8, <1>9 DEF n, entries

\* While the tags last, the tag of a store is its number.
LEMMA InvHandles ==
  ASSUME EmbedderInv, Len(stores) < Wide
  PROVE  HandlesNameTheirObject
<1>0. \A s \in DOMAIN stores : TagOf(s) = s
  <2>1. stores \in Seq(StoreType) /\ Wide \in Nat
    BY WideAssumption DEF EmbedderInv, Typed
  <2>2. \A s \in DOMAIN stores : s \in Nat /\ s < Wide
    BY <2>1
  <2> QED BY <2>2, TagFacts
<1>1. ASSUME NEW s \in Live(stores)
      PROVE /\ s \in DOMAIN stores /\ s \in Nat /\ stores[s].tag = s
            /\ stores[s].instances \in Seq(SlotType) /\ Len(stores[s].instances) <= MaxInstances
            /\ \A kind \in Kinds : stores[s].entries[kind] \in Seq(EntryType) /\ Len(stores[s].entries[kind]) <= MaxHandles
  <2>1. s \in DOMAIN stores /\ s \in Nat /\ stores[s] \in StoreType
    BY DEF EmbedderInv, Typed, Live
  <2>2. stores[s].instances \in Seq(SlotType) /\ \A kind \in Kinds : stores[s].entries[kind] \in Seq(EntryType)
    BY <2>1, StoreParts
  <2>3. stores[s].tag = s /\ Len(stores[s].instances) <= MaxInstances
    BY <1>0, <2>1 DEF EmbedderInv, StoresKept, InstancesStay
  <2> QED BY <2>1, <2>2, <2>3, EntriesCounted
<1>2. MaxInstances \in Nat /\ MaxHandles \in Nat
  BY BoundsAssumption
<1>3. ASSUME NEW s \in Live(stores), NEW id \in Nat, Unpack(id, s) = -1
      PROVE InstanceOf(stores[s], id) = NotFound /\ \A kind \in Kinds : EntryOf(stores[s], kind, id) = NotFound
  <2>1. At(stores[s].instances, Unpack(id, s)) = NotFound
    BY <1>1, <1>3, FoundAt
  <2>2. ASSUME NEW kind \in Kinds PROVE At(stores[s].entries[kind], Unpack(id, s)) = NotFound
    BY <1>1, <1>3, FoundAt
  <2> QED BY <1>1, <2>1, <2>2 DEF InstanceOf, EntryOf
<1>4. ASSUME NEW s \in Live(stores)
      PROVE InstanceOf(stores[s], 0) = NotFound /\ \A kind \in Kinds : EntryOf(stores[s], kind, 0) = NotFound
  BY <1>1, <1>3, ZeroUnpacked
<1>5. ASSUME NEW h \in issued
      PROVE /\ Issued(h) /\ h \in HandleType /\ h.store \in Nat /\ h.id \in Nat /\ h.kind \in Kinds \cup {"instance"}
            /\ h.store \in DOMAIN stores
            /\ \E slot \in Nat : slot < MaxInstances + MaxHandles /\ h.id = Pack(h.store, slot)
  <2>1. Issued(h) /\ h \in HandleType /\ h.store \in DOMAIN stores
    BY DEF EmbedderInv, HandlesKept, Typed, Issued
  <2>2. h.store \in Nat /\ h.id \in Nat /\ h.kind \in Kinds \cup {"instance"}
    BY <2>1 DEF HandleType
  <2>3. stores[h.store] \in StoreType
    BY <2>1 DEF EmbedderInv, Typed
  <2>4. CASE h.kind = "instance"
    <3>1. PICK k \in DOMAIN stores[h.store].instances : h.id = Pack(h.store, k - 1)
      BY <1>0, <2>1, <2>4 DEF Issued
    <3>2. stores[h.store].instances \in Seq(SlotType) /\ Len(stores[h.store].instances) <= MaxInstances
      BY <2>1, <2>3, StoreParts DEF EmbedderInv, StoresKept, InstancesStay
    <3>3. k - 1 \in Nat /\ k - 1 < MaxInstances + MaxHandles
      BY <1>2, <3>1, <3>2
    <3> QED BY <2>1, <2>2, <3>1, <3>3
  <2>5. CASE h.kind # "instance"
    <3>1. h.kind \in Kinds
      BY <2>2, <2>5
    <3>2. PICK k \in DOMAIN stores[h.store].entries[h.kind] : h.id = Pack(h.store, k - 1)
      BY <1>0, <2>1, <2>5 DEF Issued
    <3>3. stores[h.store].entries[h.kind] \in Seq(EntryType)
      BY <2>3, <3>1, StoreParts
    <3>4. Len(stores[h.store].entries[h.kind]) <= MaxHandles
      BY <2>1, <3>1, EntriesCounted
    <3> DEFINE n == Len(stores[h.store].entries[h.kind])
    <3>5. n \in Nat /\ k \in 1..n /\ n <= MaxHandles
      BY <3>2, <3>3, <3>4
    <3> HIDE DEF n
    <3>6. k - 1 \in Nat /\ k - 1 < MaxInstances + MaxHandles
      BY <1>2, <3>5
    <3> QED BY <2>1, <2>2, <3>2, <3>6
  <2> QED BY <2>4, <2>5
\* Another store refuses the handle.
<1>6. ASSUME NEW s \in Live(stores), NEW h \in issued, h.store # s
      PROVE InstanceOf(stores[s], h.id) = NotFound /\ (h.kind # "instance" => EntryOf(stores[s], h.kind, h.id) = NotFound)
  <2>1. PICK slot \in Nat : slot < MaxInstances + MaxHandles /\ h.id = Pack(h.store, slot)
    BY <1>5
  <2>2. Unpack(h.id, s) = -1
    BY <1>1, <1>5, <1>6, <2>1, Unpacked
  <2> QED BY <1>3, <1>5, <2>2
\* The store that issued it finds what it was issued for.
<1>7. ASSUME NEW s \in Live(stores), NEW h \in issued, h.store = s, h.kind = "instance"
      PROVE InstanceOf(stores[s], h.id) # NotFound /\ InstanceOf(stores[s], h.id).instance = h.of.instance
  <2>0. Issued(h) /\ TagOf(h.store) = s
    BY <1>0, <1>1, <1>5, <1>7
  <2>1. PICK k \in DOMAIN stores[s].instances : h.id = Pack(s, k - 1) /\ stores[s].instances[k].instance = h.of.instance
    BY <1>7, <2>0 DEF Issued
  <2>2. k - 1 \in Nat /\ k - 1 < MaxInstances + MaxHandles /\ (k - 1) + 1 = k /\ k - 1 \in Int
    BY <1>1, <1>2, <2>1
  <2>3. Unpack(h.id, s) = k - 1
    BY <1>1, <2>1, <2>2, Unpacked
  <2>4. At(stores[s].instances, k - 1) = stores[s].instances[k]
    BY <1>1, <2>2, FoundAt
  <2>5. InstanceOf(stores[s], h.id) = stores[s].instances[k]
    BY <1>1, <2>3, <2>4 DEF InstanceOf
  <2>6. stores[s].instances[k] \in SlotType
    BY <1>1
  <2> DEFINE slot == stores[s].instances[k]
  <2> HIDE DEF slot
  <2>7. slot # NotFound
    <3>1. slot \in SlotType
      BY <2>6 DEF slot
    <3>2. "instance" \in DOMAIN slot /\ "instance" \notin DOMAIN NotFound
      BY <3>1 DEF SlotType, NotFound
    <3> QED BY <3>2
  <2> QED BY <2>1, <2>5, <2>7 DEF slot
<1>8. ASSUME NEW s \in Live(stores), NEW h \in issued, h.store = s, h.kind # "instance"
      PROVE EntryOf(stores[s], h.kind, h.id) = h.of
  <2> DEFINE kind == h.kind
             st == stores[s]
  <2>1. kind \in Kinds
    BY <1>5, <1>8
  <2>2. PICK k \in DOMAIN st.entries[kind] :
          /\ h.id = Pack(s, k - 1) /\ st.entries[kind][k].index = h.of.index
          /\ st.instances[st.entries[kind][k].slot + 1].instance = h.of.instance
    BY <1>0, <1>5, <1>8 DEF Issued
  <2>3. st.entries[kind] \in Seq(EntryType) /\ Len(st.entries[kind]) <= MaxHandles
    BY <1>1, <2>1
  <2>4. k - 1 \in Nat /\ k - 1 < MaxInstances + MaxHandles /\ (k - 1) + 1 = k /\ k - 1 \in Int
    <3>1. PICK q : q = st.entries[kind]
      OBVIOUS
    <3>2. k \in 1..Len(q) /\ Len(q) <= MaxHandles /\ Len(q) \in Nat
      BY <2>2, <2>3, <3>1
    <3> HIDE DEF st, kind
    <3> QED BY <1>2, <3>2
  <2>5. Unpack(h.id, s) = k - 1
    BY <1>1, <2>2, <2>4, Unpacked
  <2> DEFINE entry == st.entries[kind][k]
             slot == st.instances[entry.slot + 1]
  <2>6. At(st.entries[kind], k - 1) = entry
    BY <2>2, <2>3, <2>4, FoundAt
  <2>7. entry \in EntryType
    BY <2>2, <2>3
  <2>8. entry.slot < Len(st.instances)
    BY <1>1, <2>1, <2>2 DEF EmbedderInv, StoresKept, EntriesStay
  <2> HIDE DEF entry
  <2>9. entry.slot \in Nat /\ entry # NotFound
    <3>1. entry.slot \in Nat /\ "slot" \in DOMAIN entry /\ "slot" \notin DOMAIN NotFound
      BY <2>7 DEF EntryType, NotFound
    <3> QED BY <3>1
  <2>10. entry.slot + 1 \in DOMAIN st.instances /\ entry.slot \in Int
    BY <1>1, <2>8, <2>9
  <2>11. At(st.instances, entry.slot) = slot /\ slot \in SlotType
    BY <1>1, <2>10, FoundAt
  <2> HIDE DEF slot
  <2>12. slot # NotFound
    <3>1. "instance" \in DOMAIN slot /\ "instance" \notin DOMAIN NotFound
      BY <2>11 DEF SlotType, NotFound
    <3> QED BY <3>1
  <2>13. EntryOf(st, kind, h.id) = [kind |-> kind, instance |-> slot.instance, index |-> entry.index]
    BY <1>1, <2>5, <2>6, <2>9, <2>11, <2>12 DEF EntryOf
  <2>14. h.of \in [kind : Kinds, instance : InstanceIds, index : Nat] /\ h.of.kind = kind
    <3>1. h.of.kind = kind /\ h \in HandleType
      BY <1>5 DEF Issued
    <3> QED BY <1>8, <3>1 DEF HandleType
  <2>15. slot.instance = h.of.instance /\ entry.index = h.of.index
    BY <2>2 DEF slot, entry
  <2> DEFINE of == h.of
  <2> HIDE DEF of, st, kind
  <2>16. of = [kind |-> kind, instance |-> slot.instance, index |-> entry.index]
    <3>1. of \in [kind : Kinds, instance : InstanceIds, index : Nat] /\ of.kind = kind
          /\ slot.instance = of.instance /\ entry.index = of.index
      BY <2>14, <2>15 DEF of
    <3> QED BY <3>1
  <2> QED BY <2>13, <2>16 DEF of, st, kind
<1> QED BY <1>4, <1>6, <1>7, <1>8 DEF HandlesNameTheirObject

(* The stores, linkers, environments and calls in flight stay well-formed. *)
THEOREM AlwaysTypeOK == Spec => []TypeOK
BY AlwaysEmbedderInv, InvType, PTL

(* pack and unpack: while fewer stores were made than there are tags, and  *)
(* whatever failed in between, a handle names in its own store what it was *)
(* issued for and nothing in any other.  NEXT_STORE_TAG wraps, so nothing  *)
(* is said of a process that makes 2^32 stores.                            *)
THEOREM AlwaysHandlesNameTheirObject == Spec => [](Len(stores) < Wide => HandlesNameTheirObject)
<1>1. EmbedderInv => (Len(stores) < Wide => HandlesNameTheirObject)
  BY InvHandles
<1> QED BY <1>1, AlwaysEmbedderInv, PTL

(* EnvBox: the finalizer of a callback's environment has run exactly once  *)
(* when no definition and no link is left, and not before.                 *)
THEOREM AlwaysFinalizersRunOnce == Spec => []FinalizersRunOnce
BY AlwaysEmbedderInv, InvFinalizers, PTL

(* Linker::insert, define_instance and define_namespace: a name means its  *)
(* last definition, however many were made and replaced.                   *)
THEOREM AlwaysNamesMeanTheirLastDefinition == Spec => []NamesMeanTheirLastDefinition
<1>1. EmbedderInv => NamesMeanTheirLastDefinition
  BY DEF EmbedderInv
<1> QED BY <1>1, AlwaysEmbedderInv, PTL

(* HOST_TRAP: a trap reports the message of the callback that raised it.   *)
THEOREM AlwaysTrapsCarryTheirMessage == Spec => []TrapsCarryTheirMessage
<1>1. EmbedderInv => TrapsCarryTheirMessage
  BY DEF EmbedderInv, Outcomes
<1> QED BY <1>1, AlwaysEmbedderInv, PTL

=============================================================================
