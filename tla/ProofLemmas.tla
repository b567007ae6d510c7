---------------------------- MODULE ProofLemmas ----------------------------
(***************************************************************************)
(* Facts about numbers and finite sets that the proofs about several       *)
(* components rest on.  None of them speaks of the program.                *)
(***************************************************************************)
EXTENDS Integers, Sequences, FiniteSets, Functions, FunctionTheorems, FiniteSetTheorems, TLAPS

(* A set of naturals that holds 0 and the successor of each member it has  *)
(* up to n holds n: otherwise adding one would map its members up to n     *)
(* into those of them that are not 0, which are fewer.                     *)
LEMMA UpTo ==
  ASSUME NEW S, NEW n \in Nat, 0 \in S, \A i \in Nat : i \in S => i + 1 \in S
  PROVE  n \in S
<1> SUFFICES ASSUME n \notin S PROVE FALSE
  OBVIOUS
<1> DEFINE T == S \cap (0..n)
           f == [i \in T |-> i + 1]
<1>1. IsFiniteSet(T)
  <2>1. IsFiniteSet(0..n)
    BY FS_Interval
  <2> QED BY <2>1, FS_Intersection
<1>2. 0 \in T /\ T \subseteq Nat
  OBVIOUS
<1>3. \A i \in T : i + 1 \in T \ {0}
  OBVIOUS
<1>4. f \in [T -> T \ {0}]
  BY <1>3
<1>5. IsFiniteSet(T \ {0}) /\ Cardinality(T \ {0}) = Cardinality(T) - 1
  BY <1>1, <1>2, FS_RemoveElement
<1>6. Cardinality(T) \in Nat
  BY <1>1, FS_CardinalityType
<1>7. Cardinality(T \ {0}) < Cardinality(T)
  BY <1>5, <1>6
<1> HIDE DEF T, f
<1>8. PICK x, y \in T : x # y /\ f[x] = f[y]
  BY <1>1, <1>4, <1>5, <1>7, FS_PigeonHole
<1>9. x + 1 = y + 1
  BY <1>8, Zenon DEF f
<1>10. x \in Nat /\ y \in Nat
  BY <1>2
<1> QED BY <1>8, <1>9, <1>10

(* Induction over the naturals, for a set.                                 *)
LEMMA NatSetInduction ==
  ASSUME NEW S, 0 \in S, \A i \in Nat : i \in S => i + 1 \in S
  PROVE  \A n \in Nat : n \in S
BY UpTo

LEMMA LeastNumber ==
  ASSUME NEW T \in SUBSET Nat, T # {}
  PROVE  \E x \in T : \A y \in T : x <= y
<1> SUFFICES ASSUME \A x \in T : \E y \in T : ~(x <= y) PROVE FALSE
  OBVIOUS
<1> DEFINE S == {n \in Nat : \A y \in T : n <= y}
<1>1. 0 \in S
  OBVIOUS
<1>2. ASSUME NEW n \in Nat, n \in S PROVE n + 1 \in S
  <2>1. n \notin T
    BY <1>2
  <2>2. \A y \in T : n <= y /\ n # y
    BY <1>2, <2>1
  <2> QED BY <2>2
<1>3. PICK t \in T : TRUE
  OBVIOUS
<1> HIDE DEF S
<1>4. t + 1 \in S
  BY <1>1, <1>2, <1>3, NatSetInduction
<1> QED BY <1>3, <1>4 DEF S

LEMMA GreatestNumber ==
  ASSUME NEW n \in Nat, NEW T \in SUBSET (0..n), T # {}
  PROVE  \E x \in T : \A y \in T : y <= x
<1> DEFINE U == {n - k : k \in T}
<1>1. U \in SUBSET Nat /\ U # {}
  <2>1. \A k \in T : n - k \in Nat
    OBVIOUS
  <2> QED BY <2>1
<1> HIDE DEF U
<1>2. PICK x \in U : \A y \in U : x <= y
  BY <1>1, LeastNumber
<1>3. PICK k \in T : x = n - k
  BY DEF U
<1>4. \A j \in T : n - k <= n - j
  BY <1>2, <1>3 DEF U
<1> QED BY <1>4

(* Some members of a finite set give way to others.                        *)
LEMMA Swapped ==
  ASSUME NEW H, IsFiniteSet(H), NEW old, old \subseteq H, NEW new, IsFiniteSet(new),
         new \cap (H \ old) = {}
  PROVE  /\ IsFiniteSet((H \ old) \cup new)
         /\ Cardinality((H \ old) \cup new) = Cardinality(H) - Cardinality(old) + Cardinality(new)
<1> DEFINE rest == H \ old
<1>1. IsFiniteSet(rest) /\ IsFiniteSet(old)
  BY FS_Subset
<1>2. Cardinality(rest) \in Nat /\ Cardinality(old) \in Nat /\ Cardinality(new) \in Nat
      /\ Cardinality(H) \in Nat
  BY <1>1, FS_CardinalityType
<1>3. Cardinality({}) = 0
  BY FS_EmptySet
<1>4. rest \cup old = H /\ rest \cap old = {} /\ rest \cap new = {}
  OBVIOUS
<1> HIDE DEF rest
<1>5. Cardinality(H) = Cardinality(rest) + Cardinality(old)
  <2>1. Cardinality(rest \cup old) = Cardinality(rest) + Cardinality(old) - Cardinality(rest \cap old)
    BY <1>1, FS_Union
  <2>2. Cardinality(rest \cap old) = 0 /\ Cardinality(rest \cup old) = Cardinality(H)
    BY <1>3, <1>4
  <2>3. \A x, y, z, n \in Nat : z = 0 /\ n = x + y - z => n = x + y
    OBVIOUS
  <2> QED BY <1>2, <2>1, <2>2, <2>3
<1>6. IsFiniteSet(rest \cup new) /\ Cardinality(rest \cup new) = Cardinality(rest) + Cardinality(new)
  <2>1. /\ IsFiniteSet(rest \cup new)
        /\ Cardinality(rest \cup new) = Cardinality(rest) + Cardinality(new) - Cardinality(rest \cap new)
    BY <1>1, FS_Union
  <2>2. Cardinality(rest \cap new) = 0
    BY <1>3, <1>4
  <2> QED BY <1>2, <2>1, <2>2
<1> QED BY <1>2, <1>5, <1>6 DEF rest

Tuples(a, b, c, K) == {<<a, b, c, k>> : k \in K}

(* As many tuples as last components.                                      *)
LEMMA TuplesCounted ==
  ASSUME NEW K, IsFiniteSet(K), NEW a, NEW b, NEW c
  PROVE  IsFiniteSet(Tuples(a, b, c, K)) /\ Cardinality(Tuples(a, b, c, K)) = Cardinality(K)
<1> DEFINE T == Tuples(a, b, c, K)
           f == [k \in K |-> <<a, b, c, k>>]
<1>1. f \in [K -> T] /\ \A t \in T : \E k \in K : f[k] = t
  BY DEF Tuples
<1>2. \A j, k \in K : f[j] = f[k] => j = k
  OBVIOUS
<1>3. f \in Bijection(K, T)
  <2> HIDE DEF f, T
  <2> QED BY <1>1, <1>2 DEF Bijection, Injection, Surjection, IsInjective
<1>4. ExistsBijection(K, T)
  BY <1>3 DEF ExistsBijection
<1> QED BY <1>4, FS_Bijection

(* A sequence with one element changed, and one with one more.             *)
LEMMA ChangedSeq ==
  ASSUME NEW S, NEW q \in Seq(S), NEW i \in DOMAIN q, NEW x \in S
  PROVE  /\ [q EXCEPT ![i] = x] \in Seq(S) /\ Len([q EXCEPT ![i] = x]) = Len(q)
         /\ DOMAIN [q EXCEPT ![i] = x] = DOMAIN q
         /\ [q EXCEPT ![i] = x][i] = x
         /\ \A j \in DOMAIN q : j # i => [q EXCEPT ![i] = x][j] = q[j]
OBVIOUS

LEMMA ChangedWhereItIs ==
  ASSUME NEW S, NEW q \in Seq(S), NEW i, NEW x \in S
  PROVE  [q EXCEPT ![i] = x] \in Seq(S)
<1>1. CASE i \in DOMAIN q
  BY <1>1, ChangedSeq
<1>2. CASE i \notin DOMAIN q
  <2>1. [q EXCEPT ![i] = x] = q
    BY <1>2
  <2> QED BY <2>1
<1> QED BY <1>1, <1>2

LEMMA LongerSeq ==
  ASSUME NEW S, NEW q \in Seq(S), NEW x \in S
  PROVE  /\ Append(q, x) \in Seq(S) /\ Len(Append(q, x)) = Len(q) + 1 /\ Len(q) \in Nat
         /\ DOMAIN q = 1..Len(q) /\ DOMAIN Append(q, x) = 1..(Len(q) + 1)
         /\ Append(q, x)[Len(q) + 1] = x
         /\ \A j \in DOMAIN q : Append(q, x)[j] = q[j]
OBVIOUS

(* What \div and % take apart.                                             *)
LEMMA DivMod ==
  ASSUME NEW w \in Nat, NEW t \in Nat, NEW r \in 0..(w - 1)
  PROVE  /\ (t * w + r) \div w = t
         /\ (t * w + r) % w = r
BY SMTT(20)

=============================================================================
