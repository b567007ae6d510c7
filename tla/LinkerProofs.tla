---------------------------- MODULE LinkerProofs ----------------------------
(***************************************************************************)
(* What the linker's operators on its lists of definitions keep: the       *)
(* definitions that remain stay in their order, and a definition changes   *)
(* the meaning of its own name and of no other.                            *)
(***************************************************************************)
EXTENDS Linker, ProofLemmas

-----------------------------------------------------------------------------
(* Ranks of the members of a set of positions.                             *)

LEMMA PositionsAreFinite ==
  ASSUME NEW n \in Nat, NEW kept \in SUBSET (1..n)
  PROVE  IsFiniteSet(kept) /\ Cardinality(kept) \in Nat /\ Cardinality(kept) <= n
<1>1. IsFiniteSet(1..n) /\ Cardinality(1..n) = n
  BY FS_Interval
<1>2. IsFiniteSet(kept) /\ Cardinality(kept) <= Cardinality(1..n)
  BY <1>1, FS_Subset
<1> QED BY <1>1, <1>2, FS_CardinalityType

LEMMA RanksIncrease ==
  ASSUME NEW n \in Nat, NEW kept \in SUBSET (1..n),
         NEW j \in kept, NEW k \in kept, j < k
  PROVE  Rank(kept, j) < Rank(kept, k)
<1> DEFINE J == {i \in kept : i <= j}
           K == {i \in kept : i <= k}
<1>1. IsFiniteSet(K) /\ IsFiniteSet(J)
  BY PositionsAreFinite, FS_Subset
<1>2. J \subseteq K /\ k \in K /\ k \notin J
  <2>1. kept \subseteq Nat /\ j \in Nat /\ k \in Nat
    OBVIOUS
  <2>2. \A i \in kept : i <= j => i <= k
    BY <2>1
  <2>3. k <= k /\ ~(k <= j)
    BY <2>1
  <2>4. J \subseteq K
    BY <2>2
  <2> QED BY <2>3, <2>4
<1>3. Cardinality(J) <= Cardinality(K) /\ Cardinality(J) # Cardinality(K)
  BY <1>1, <1>2, FS_Subset
<1>4. Cardinality(J) \in Nat /\ Cardinality(K) \in Nat
  BY <1>1, FS_CardinalityType
<1> QED BY <1>3, <1>4 DEF Rank

LEMMA RanksAreNumbers ==
  ASSUME NEW n \in Nat, NEW kept \in SUBSET (1..n), NEW k \in kept
  PROVE  Rank(kept, k) \in 1..Cardinality(kept)
<1> DEFINE K == {i \in kept : i <= k}
<1>1. IsFiniteSet(kept) /\ IsFiniteSet(K) /\ Cardinality(K) <= Cardinality(kept)
  BY PositionsAreFinite, FS_Subset
<1>2. K # {}
  OBVIOUS
<1>3. Cardinality(K) \in Nat /\ Cardinality(kept) \in Nat /\ Cardinality(K) # 0
  BY <1>1, <1>2, FS_CardinalityType, FS_EmptySet
<1> QED BY <1>1, <1>3 DEF Rank

LEMMA EveryRankIsTaken ==
  ASSUME NEW n \in Nat, NEW kept \in SUBSET (1..n), NEW m \in 1..Cardinality(kept)
  PROVE  \E k \in kept : Rank(kept, k) = m
<1> DEFINE C == Cardinality(kept)
           f == [k \in kept |-> Rank(kept, k)]
<1>1. C \in Nat /\ IsFiniteSet(kept) /\ IsFiniteSet(1..C) /\ Cardinality(1..C) = C
  <2>1. C \in Nat /\ IsFiniteSet(kept)
    BY PositionsAreFinite
  <2> QED BY <2>1, FS_Interval
<1>2. \A k \in kept : Rank(kept, k) \in 1..C
  BY RanksAreNumbers
<1>3. f \in [kept -> 1..C]
  BY <1>2
<1>4. \A j, k \in kept : Rank(kept, j) = Rank(kept, k) => j = k
  <2> SUFFICES ASSUME NEW j \in kept, NEW k \in kept, Rank(kept, j) = Rank(kept, k), j < k
               PROVE  FALSE
    OBVIOUS
  <2>1. Rank(kept, j) < Rank(kept, k)
    BY RanksIncrease
  <2> QED BY <2>1, <1>2
<1>5. f \in Injection(kept, 1..C)
  BY <1>3, <1>4 DEF Injection, IsInjective
<1> HIDE DEF C
<1>6. f \in Surjection(kept, 1..C)
  BY <1>1, <1>5, FS_Injection DEF C
<1> QED BY <1>6 DEF Surjection, C

-----------------------------------------------------------------------------
(* What is retained of a sequence.                                         *)

LEMMA RetainedKeeps ==
  ASSUME NEW S, NEW s \in Seq(S), NEW kept \in SUBSET (DOMAIN s)
  PROVE  /\ Retained(s, kept) \in Seq(S)
         /\ Len(Retained(s, kept)) = Cardinality(kept)
         /\ \A k \in kept : /\ Rank(kept, k) \in 1..Cardinality(kept)
                             /\ Retained(s, kept)[Rank(kept, k)] = s[k]
         /\ \A m \in 1..Cardinality(kept) :
              \E k \in kept : Rank(kept, k) = m /\ Retained(s, kept)[m] = s[k]
<1> DEFINE C == Cardinality(kept)
           at(m) == CHOOSE k \in kept : Rank(kept, k) = m
<1>1. Len(s) \in Nat /\ kept \in SUBSET (1..Len(s))
  OBVIOUS
<1>2. C \in Nat
  BY <1>1, PositionsAreFinite
<1>3. \A m \in 1..C : at(m) \in kept /\ Rank(kept, at(m)) = m
  BY <1>1, EveryRankIsTaken
<1>4. \A k \in kept : Rank(kept, k) \in 1..C
  BY <1>1, RanksAreNumbers
<1>5. \A j, k \in kept : Rank(kept, j) = Rank(kept, k) => j = k
  <2> SUFFICES ASSUME NEW j \in kept, NEW k \in kept, Rank(kept, j) = Rank(kept, k), j < k
               PROVE  FALSE
    BY <1>1
  <2>1. Rank(kept, j) < Rank(kept, k)
    BY <1>1, RanksIncrease
  <2> QED BY <2>1, <1>2, <1>4
<1>6. Retained(s, kept) = [m \in 1..C |-> s[at(m)]]
  BY DEF Retained
<1> HIDE DEF at, C
<1>7. \A m \in 1..C : s[at(m)] \in S
  BY <1>1, <1>3
<1>8. Retained(s, kept) \in Seq(S) /\ Len(Retained(s, kept)) = C
  BY <1>2, <1>6, <1>7
<1>9. \A k \in kept : at(Rank(kept, k)) = k
  BY <1>3, <1>4, <1>5
<1>10. \A k \in kept : Retained(s, kept)[Rank(kept, k)] = s[k]
  BY <1>4, <1>6, <1>9
<1>11. \A m \in 1..C : Retained(s, kept)[m] = s[at(m)]
  BY <1>6
<1> QED BY <1>3, <1>4, <1>8, <1>10, <1>11 DEF C

Places(s, P) == {k \in DOMAIN s : s[k] \in P}
FirstIn(s, P) == s[Least(Places(s, P))]

(* Where the first member of P stands, in a list of which only others were *)
(* dropped and to which another was added, stands the same as before.      *)
LEMMA FirstRetained ==
  ASSUME NEW S, NEW s \in Seq(S), NEW kept \in SUBSET (DOMAIN s), NEW x, NEW P,
         x \notin P, \A k \in DOMAIN s : s[k] \in P => k \in kept
  PROVE  /\ Places(s, P) = {} <=> Places(Append(Retained(s, kept), x), P) = {}
         /\ Places(s, P) # {} =>
              FirstIn(s, P) = FirstIn(Append(Retained(s, kept), x), P)
<1> DEFINE r == Retained(s, kept)
           t == Append(r, x)
           A == {k \in DOMAIN s : s[k] \in P}
           B == {k \in DOMAIN t : t[k] \in P}
           C == Cardinality(kept)
           rank(k) == Rank(kept, k)
<1>1. /\ r \in Seq(S) /\ Len(r) = C
      /\ \A k \in kept : rank(k) \in 1..C /\ r[rank(k)] = s[k]
      /\ \A m \in 1..C : \E k \in kept : rank(k) = m /\ r[m] = s[k]
  BY RetainedKeeps
<1>2. A \subseteq kept /\ A \subseteq Nat
  OBVIOUS
<1>3. \A j, k \in kept : j < k => rank(j) < rank(k)
  <2>1. Len(s) \in Nat /\ kept \in SUBSET (1..Len(s))
    OBVIOUS
  <2> QED BY <2>1, RanksIncrease
<1> HIDE DEF r, rank, C
<1>4. C \in Nat
  BY <1>1
<1>5. DOMAIN t = 1..(C + 1) /\ t[C + 1] = x /\ \A m \in 1..C : t[m] = r[m]
  BY <1>1, <1>4
<1> HIDE DEF t
<1>6. \A k \in A : rank(k) \in B /\ t[rank(k)] = s[k]
  BY <1>1, <1>2, <1>4, <1>5
<1>7. \A m \in B : \E k \in A : rank(k) = m
  <2> SUFFICES ASSUME NEW m \in B PROVE \E k \in A : rank(k) = m
    OBVIOUS
  <2>1. m \in 1..C
    BY <1>4, <1>5
  <2>2. PICK k \in kept : rank(k) = m /\ r[m] = s[k]
    BY <1>1, <2>1
  <2>3. k \in A
    BY <1>5, <2>1, <2>2
  <2> QED BY <2>2, <2>3
<1>8. A = {} <=> B = {}
  BY <1>6, <1>7
<1>9. ASSUME A # {} PROVE s[Least(A)] = t[Least(B)]
  <2>1. \E k \in A : \A j \in A : k <= j
    BY <1>2, <1>9, LeastNumber
  <2>2. Least(A) \in A /\ \A j \in A : Least(A) <= j
    BY <2>1 DEF Least
  <2> DEFINE f == Least(A)
  <2> HIDE DEF f, A, B
  <2>3. \A j \in A : rank(j) \in Nat
    BY <1>1, <1>2, <1>4
  <2>4. \A m \in B : rank(f) <= m
    <3> SUFFICES ASSUME NEW m \in B PROVE rank(f) <= m
      OBVIOUS
    <3>1. PICK k \in A : rank(k) = m
      BY <1>7
    <3>2. f \in A /\ f <= k
      BY <2>2 DEF f
    <3>3. f \in Nat /\ k \in Nat /\ f \in kept /\ k \in kept
      BY <1>2, <3>2
    <3>4. f = k \/ f < k
      BY <3>2, <3>3
    <3>5. f < k => rank(f) < rank(k)
      BY <1>3, <3>3
    <3> QED BY <2>3, <3>1, <3>2, <3>4, <3>5
  <2>5. rank(f) \in B
    BY <1>6, <2>2 DEF f
  <2>6. Least(B) = rank(f)
    <3>1. \A m \in B : m \in Nat
      BY <1>7, <2>3
    <3>2. \A m \in B : (\A j \in B : m <= j) => m = rank(f)
      BY <2>3, <2>4, <2>5, <3>1
    <3> QED BY <2>4, <2>5, <3>2 DEF Least
  <2> QED BY <1>6, <2>2, <2>6 DEF f
<1> QED BY <1>8, <1>9 DEF t, r, Places, FirstIn

-----------------------------------------------------------------------------
(* What a definition means.                                                *)

LEMMA DefineMeans ==
  ASSUME NEW S, NEW l, "defs" \in DOMAIN l, l.defs \in Seq(S), NEW module, NEW name, NEW def,
         NEW m, NEW n
  PROVE  Exact(Define(l, module, name, def), m, n)
           = IF m = module /\ n = name THEN def ELSE Exact(l, m, n)
<1> DEFINE kept == {k \in DOMAIN l.defs : ~(l.defs[k].module = module /\ l.defs[k].name = name)}
           x == Def(module, name, def)
           r == Retained(l.defs, kept)
           t == Append(r, x)
           B == {k \in DOMAIN t : t[k].module = m /\ t[k].name = n}
           A == {k \in DOMAIN l.defs : l.defs[k].module = m /\ l.defs[k].name = n}
<1>0. kept \in SUBSET (DOMAIN l.defs)
  OBVIOUS
<1>1. Define(l, module, name, def).defs = t
  BY DEF Define
<1>2. Exact(Define(l, module, name, def), m, n) = IF B = {} THEN Nothing ELSE t[Least(B)].def
  BY <1>1 DEF Exact, FirstDef
<1>3. Exact(l, m, n) = IF A = {} THEN Nothing ELSE l.defs[Least(A)].def
  BY DEF Exact, FirstDef
<1>4. x.module = module /\ x.name = name /\ x.def = def
  BY DEF Def
<1> HIDE DEF x
<1>5. CASE ~(m = module /\ n = name)
  <2> DEFINE P == {d \in S : d.module = m /\ d.name = n} \ {x}
  <2>1. x \notin P /\ ~(x.module = m /\ x.name = n)
    BY <1>4, <1>5
  <2>2. \A k \in DOMAIN l.defs : l.defs[k] \in P => k \in kept
    BY <1>5
  <2>3. r \in Seq(S)
    BY RetainedKeeps
  <2>4. A = {k \in DOMAIN l.defs : l.defs[k] \in P}
    BY <2>1
  <2> HIDE DEF r
  <2>5. \A k \in DOMAIN t : t[k] \in S \/ t[k] = x
    BY <2>3
  <2>6. B = {k \in DOMAIN t : t[k] \in P}
    BY <2>1, <2>5
  <2>7. (A = {} <=> B = {}) /\ (A # {} => l.defs[Least(A)] = t[Least(B)])
    <3> HIDE DEF P, A, B, kept, t
    <3> DEFINE A2 == Places(l.defs, P)
               B2 == Places(t, P)
    <3>1. (A2 = {} <=> B2 = {}) /\ (A2 # {} => FirstIn(l.defs, P) = FirstIn(t, P))
      <4>1. t = Append(Retained(l.defs, kept), x)
        BY DEF t, r
      <4> QED BY <1>0, <2>1, <2>2, <4>1, FirstRetained
    <3>2. A2 = A /\ B2 = B
      BY <2>4, <2>6 DEF Places
    <3> QED BY <3>1, <3>2 DEF FirstIn
  <2> QED BY <1>2, <1>3, <1>5, <2>7
<1>6. CASE m = module /\ n = name
  <2>1. r \in Seq(S) /\ Len(r) \in Nat /\ \A i \in 1..Len(r) : \E k \in kept : r[i] = l.defs[k]
    <3> HIDE DEF kept
    <3>1. r \in Seq(S) /\ Len(r) = Cardinality(kept)
          /\ \A i \in 1..Cardinality(kept) : \E k \in kept : r[i] = l.defs[k]
      BY <1>0, RetainedKeeps
    <3> QED BY <3>1
  <2> HIDE DEF r
  <2>2. DOMAIN t = 1..(Len(r) + 1) /\ t[Len(r) + 1] = x /\ \A i \in 1..Len(r) : t[i] = r[i]
    BY <2>1
  <2>3. B = {Len(r) + 1}
    BY <1>4, <1>6, <2>1, <2>2
  <2>4. Least(B) = Len(r) + 1
    BY <2>1, <2>3 DEF Least
  <2> QED BY <1>2, <1>4, <1>6, <2>2, <2>3, <2>4
<1> QED BY <1>5, <1>6

LEMMA DefineModuleMeans ==
  ASSUME NEW S, NEW l, "namespaces" \in DOMAIN l, l.namespaces \in Seq(S), NEW module, NEW def,
         NEW m
  PROVE  Whole(DefineModule(l, module, def), m) = IF m = module THEN def ELSE Whole(l, m)
<1> DEFINE kept == {k \in DOMAIN l.namespaces : l.namespaces[k].module # module}
           x == Namespace(module, def)
           r == Retained(l.namespaces, kept)
           t == Append(r, x)
           B == {k \in DOMAIN t : t[k].module = m}
           A == {k \in DOMAIN l.namespaces : l.namespaces[k].module = m}
<1>0. kept \in SUBSET (DOMAIN l.namespaces)
  OBVIOUS
<1>1. DefineModule(l, module, def).namespaces = t
  BY DEF DefineModule
<1>2. Whole(DefineModule(l, module, def), m) = IF B = {} THEN Nothing ELSE t[Least(B)].def
  BY <1>1 DEF Whole, FirstDef
<1>3. Whole(l, m) = IF A = {} THEN Nothing ELSE l.namespaces[Least(A)].def
  BY DEF Whole, FirstDef
<1>4. x.module = module /\ x.def = def
  BY DEF Namespace
<1> HIDE DEF x
<1>5. CASE m # module
  <2> DEFINE P == {d \in S : d.module = m} \ {x}
  <2>1. x \notin P /\ x.module # m
    BY <1>4, <1>5
  <2>2. \A k \in DOMAIN l.namespaces : l.namespaces[k] \in P => k \in kept
    BY <1>5
  <2>3. r \in Seq(S)
    BY RetainedKeeps
  <2>4. A = {k \in DOMAIN l.namespaces : l.namespaces[k] \in P}
    BY <2>1
  <2> HIDE DEF r
  <2>5. \A k \in DOMAIN t : t[k] \in S \/ t[k] = x
    BY <2>3
  <2>6. B = {k \in DOMAIN t : t[k] \in P}
    BY <2>1, <2>5
  <2>7. (A = {} <=> B = {}) /\ (A # {} => l.namespaces[Least(A)] = t[Least(B)])
    <3> HIDE DEF P, A, B, kept, t
    <3> DEFINE A2 == Places(l.namespaces, P)
               B2 == Places(t, P)
    <3>1. (A2 = {} <=> B2 = {}) /\ (A2 # {} => FirstIn(l.namespaces, P) = FirstIn(t, P))
      <4>1. t = Append(Retained(l.namespaces, kept), x)
        BY DEF t, r
      <4> QED BY <1>0, <2>1, <2>2, <4>1, FirstRetained
    <3>2. A2 = A /\ B2 = B
      BY <2>4, <2>6 DEF Places
    <3> QED BY <3>1, <3>2 DEF FirstIn
  <2> QED BY <1>2, <1>3, <1>5, <2>7
<1>6. CASE m = module
  <2>1. r \in Seq(S) /\ Len(r) \in Nat /\ \A i \in 1..Len(r) : \E k \in kept : r[i] = l.namespaces[k]
    <3> HIDE DEF kept
    <3>1. r \in Seq(S) /\ Len(r) = Cardinality(kept)
          /\ \A i \in 1..Cardinality(kept) : \E k \in kept : r[i] = l.namespaces[k]
      BY <1>0, RetainedKeeps
    <3> QED BY <3>1
  <2> HIDE DEF r
  <2>2. DOMAIN t = 1..(Len(r) + 1) /\ t[Len(r) + 1] = x /\ \A i \in 1..Len(r) : t[i] = r[i]
    BY <2>1
  <2>3. B = {Len(r) + 1}
    BY <1>4, <1>6, <2>1, <2>2
  <2>4. Least(B) = Len(r) + 1
    BY <2>1, <2>3 DEF Least
  <2> QED BY <1>2, <1>4, <1>6, <2>2, <2>3, <2>4
<1> QED BY <1>5, <1>6

=============================================================================
