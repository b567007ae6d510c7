------------------------- MODULE ControlFlowProofs -------------------------
(***************************************************************************)
(* Proofs about ControlFlow: how the constructs of a well-bracketed body   *)
(* nest, and that the one pass of precompute_control_flow finds for every  *)
(* opener what counting brackets finds.                                    *)
(***************************************************************************)
EXTENDS ControlFlow, ProofLemmas

-----------------------------------------------------------------------------
(* The nesting.                                                            *)

Step(ir, j) == IF ir[j].op \in Openers THEN 1 ELSE IF ir[j].op \in Closers THEN -1 ELSE 0
Opens(ir, i) == i \in 1..Len(ir) /\ ir[i].op \in Openers

\* The nesting of a body by its heights h and its closers c: the brackets match.
Matches(ir, h, c, i) ==
  /\ c[i] \in (i + 1)..(Len(ir) - 1) /\ ir[c[i]].op \in Closers
  /\ h[c[i]] = h[i] - 1 /\ h[i] = h[i - 1] + 1
  /\ \A j \in i..(c[i] - 1) : h[j] >= h[i]
Nested(ir, h, c) ==
  /\ Len(ir) \in Nat
  /\ h[0] = 0 /\ h[Len(ir)] = -1 /\ \A j \in 0..(Len(ir) - 1) : h[j] \in Nat
  /\ \A j \in 1..Len(ir) : h[j] = h[j - 1] + Step(ir, j)
  /\ \A i \in 1..Len(ir) : IF ir[i].op \in Openers THEN Matches(ir, h, c, i) ELSE c[i] = 0

\* One more of a kind counts as one more.
LEMMA CountOneMore ==
  ASSUME NEW S, IsFiniteSet(S), NEW x, x \notin S, NEW B, NEW T,
         T = IF B THEN S \cup {x} ELSE S
  PROVE  Cardinality(T) = Cardinality(S) + (IF B THEN 1 ELSE 0)
<1>1. Cardinality(S) \in Nat BY FS_CardinalityType
<1>2. CASE B
  <2>1. T = S \cup {x} BY <1>2
  <2>2. Cardinality(S \cup {x}) = Cardinality(S) + 1 BY FS_AddElement
  <2> QED BY <1>2, <2>1, <2>2
<1>3. CASE ~B
  <2>1. T = S BY <1>3
  <2> QED BY <1>1, <1>3, <2>1
<1> QED BY <1>2, <1>3

\* Each position raises or lowers the nesting by what it is.
LEMMA HeightSteps ==
  ASSUME NEW ir, Len(ir) \in Nat, NEW h, h = Heights(ir)
  PROVE  /\ h[0] = 0
         /\ \A j \in 0..Len(ir) : h[j] \in Int
         /\ \A j \in 1..Len(ir) : h[j] = h[j - 1] + Step(ir, j)
<1> DEFINE U(j) == {k \in 1..j : ir[k].op \in Openers}
           D(j) == {k \in 1..j : ir[k].op \in Closers}
<1>1. \A j \in 0..Len(ir) : h[j] = Cardinality(U(j)) - Cardinality(D(j))
  BY DEF Heights
<1>2. ASSUME NEW j \in Nat PROVE /\ IsFiniteSet(U(j)) /\ IsFiniteSet(D(j))
                                 /\ Cardinality(U(j)) \in Nat /\ Cardinality(D(j)) \in Nat
  <2>1. IsFiniteSet(1..j) BY FS_Interval
  <2>2. U(j) \subseteq 1..j /\ D(j) \subseteq 1..j OBVIOUS
  <2>3. IsFiniteSet(U(j)) /\ IsFiniteSet(D(j)) BY <2>1, <2>2, FS_Subset
  <2> HIDE DEF U, D
  <2> QED BY <2>3, FS_CardinalityType
<1>3. h[0] = 0
  <2>1. U(0) = {} /\ D(0) = {} OBVIOUS
  <2>2. 0 \in 0..Len(ir) OBVIOUS
  <2> HIDE DEF U, D
  <2>3. Cardinality(U(0)) = 0 /\ Cardinality(D(0)) = 0 BY <2>1, FS_EmptySet
  <2> QED BY <1>1, <2>2, <2>3
<1>4. \A j \in 0..Len(ir) : h[j] \in Int
  <2> SUFFICES ASSUME NEW j \in 0..Len(ir) PROVE h[j] \in Int OBVIOUS
  <2>1. j \in Nat OBVIOUS
  <2> HIDE DEF U, D
  <2>2. Cardinality(U(j)) \in Nat /\ Cardinality(D(j)) \in Nat BY <1>2, <2>1
  <2> QED BY <1>1, <2>2
<1>5. ASSUME NEW j \in 1..Len(ir) PROVE h[j] = h[j - 1] + Step(ir, j)
  <2>1. j \in Nat /\ j - 1 \in Nat /\ j \in 0..Len(ir) /\ j - 1 \in 0..Len(ir) OBVIOUS
  <2>2. U(j) = IF ir[j].op \in Openers THEN U(j - 1) \cup {j} ELSE U(j - 1) BY <2>1
  <2>3. D(j) = IF ir[j].op \in Closers THEN D(j - 1) \cup {j} ELSE D(j - 1) BY <2>1
  <2>4. j \notin U(j - 1) /\ j \notin D(j - 1) BY <2>1
  <2>5. ~(ir[j].op \in Openers /\ ir[j].op \in Closers) BY DEF Openers, Closers
  <2> HIDE DEF U, D
  <2>6. /\ IsFiniteSet(U(j - 1)) /\ IsFiniteSet(D(j - 1))
        /\ Cardinality(U(j - 1)) \in Nat /\ Cardinality(D(j - 1)) \in Nat
    BY <1>2, <2>1
  <2>7. Cardinality(U(j)) = Cardinality(U(j - 1)) + (IF ir[j].op \in Openers THEN 1 ELSE 0)
    BY <2>2, <2>4, <2>6, CountOneMore
  <2>8. Cardinality(D(j)) = Cardinality(D(j - 1)) + (IF ir[j].op \in Closers THEN 1 ELSE 0)
    BY <2>3, <2>4, <2>6, CountOneMore
  <2>9. h[j] = Cardinality(U(j)) - Cardinality(D(j))
        /\ h[j - 1] = Cardinality(U(j - 1)) - Cardinality(D(j - 1))
    BY <1>1, <2>1
  <2> QED BY <2>5, <2>6, <2>7, <2>8, <2>9 DEF Step
<1> QED BY <1>3, <1>4, <1>5

\* The brackets of a well-bracketed body match.
LEMMA BracketsMatch ==
  ASSUME NEW ir, Len(ir) \in Nat, NEW t, t = Text(ir), WellBracketed(t)
  PROVE  /\ t.ir = ir /\ t.closer = ClosersOf(ir) /\ t.around = AroundOf(ir, t.closer)
         /\ Nested(ir, Heights(ir), t.closer)
<1>1. t.ir = ir /\ t.closer = ClosersOf(ir) /\ t.around = AroundOf(ir, t.closer)
  BY DEF Text
<1>2. PICK h : h = Heights(ir) OBVIOUS
<1>3. PICK c : c = t.closer OBVIOUS
<1>4. /\ h[0] = 0
      /\ \A j \in 0..Len(ir) : h[j] \in Int
      /\ \A j \in 1..Len(ir) : h[j] = h[j - 1] + Step(ir, j)
  BY <1>2, HeightSteps
<1>5. h[Len(ir)] = -1 /\ \A j \in 0..(Len(ir) - 1) : h[j] \in Nat
  <2>1. h[Len(ir)] = -1 /\ \A j \in 0..(Len(ir) - 1) : h[j] >= 0
    BY <1>1, <1>2 DEF WellBracketed
  <2> QED BY <1>4, <2>1
<1>6. ASSUME NEW i \in 1..Len(ir), ir[i].op \in Openers
      PROVE  Matches(ir, h, c, i)
  <2>1. h[i] = h[i - 1] + 1 BY <1>4, <1>6 DEF Step
  <2>2. i - 1 \in 0..(Len(ir) - 1) /\ h[i - 1] \in Nat BY <1>5
  <2>3. i # Len(ir) /\ h[i] >= 1 BY <1>5, <2>1, <2>2
  <2> DEFINE S == {j \in (i + 1)..Len(ir) : h[j] < h[i]}
  <2>4. Len(ir) \in S BY <1>5, <2>3
  <2>5. S \in SUBSET Nat OBVIOUS
  <2>6. c[i] = Min(S) BY <1>1, <1>2, <1>3, <1>6 DEF ClosersOf
  <2>7. c[i] \in S /\ \A y \in S : c[i] <= y
    <3> HIDE DEF S
    <3>1. \E x \in S : \A y \in S : x <= y BY <2>4, <2>5, LeastNumber
    <3> QED BY <2>6, <3>1 DEF Min
  <2>8. c[i] \in (i + 1)..Len(ir) /\ h[c[i]] < h[i] BY <2>7
  <2>9. \A j \in i..(c[i] - 1) : h[j] >= h[i]
    <3> SUFFICES ASSUME NEW j \in i..(c[i] - 1) PROVE h[j] >= h[i] OBVIOUS
    <3>1. j \in 0..Len(ir) /\ i \in 0..Len(ir) BY <2>8
    <3>2. h[j] \in Int /\ h[i] \in Int BY <1>4, <3>1
    <3>3. CASE j = i BY <3>2, <3>3
    <3>4. CASE j # i
      <4>1. j \notin S BY <2>7, <2>8
      <4>2. j \in (i + 1)..Len(ir) BY <2>8, <3>4
      <4> QED BY <3>2, <4>1, <4>2
    <3> QED BY <3>3, <3>4
  <2>10. PICK j : j = c[i] OBVIOUS
  <2>11. j - 1 \in i..(c[i] - 1) /\ j \in 1..Len(ir) BY <2>8, <2>10
  <2>12. h[j - 1] >= h[i] /\ h[j] < h[i] /\ h[j] = h[j - 1] + Step(ir, j)
    BY <1>4, <2>8, <2>9, <2>10, <2>11
  <2>13. h[j] \in Int /\ h[j - 1] \in Int /\ h[i] \in Int
    <3>1. j \in 0..Len(ir) /\ j - 1 \in 0..Len(ir) /\ i \in 0..Len(ir) BY <2>11
    <3> QED BY <1>4, <3>1
  <2>14. ir[j].op \in Closers /\ h[j] = h[i] - 1 BY <2>12, <2>13 DEF Step
  <2>15. j # Len(ir) BY <1>5, <2>3, <2>13, <2>14
  <2> QED BY <2>1, <2>8, <2>9, <2>10, <2>14, <2>15 DEF Matches
<1>7. ASSUME NEW i \in 1..Len(ir), ir[i].op \notin Openers PROVE c[i] = 0
  BY <1>1, <1>3, <1>7 DEF ClosersOf
<1>8. Nested(ir, h, c) BY <1>4, <1>5, <1>6, <1>7 DEF Nested
<1> QED BY <1>1, <1>2, <1>3, <1>8

\* A position of the text within the brackets of i.
Surrounds(c, i, p) == i < p /\ p <= c[i]

\* What opens inside a construct closes inside it, one level deeper.
LEMMA Laminar ==
  ASSUME NEW ir, NEW h, NEW c, Nested(ir, h, c), NEW i \in 1..Len(ir), NEW k \in 1..Len(ir),
         ir[i].op \in Openers, ir[k].op \in Openers, i < k, k < c[i]
  PROVE  c[k] < c[i] /\ h[k] > h[i]
<1>1. Matches(ir, h, c, i) /\ Matches(ir, h, c, k) BY DEF Nested
<1>2. c[i] \in (i + 1)..(Len(ir) - 1) /\ c[k] \in (k + 1)..(Len(ir) - 1) BY <1>1 DEF Matches
<1>3. PICK a \in Int, b \in Int : a = c[i] /\ b = c[k] BY <1>2
<1>4. h[k - 1] >= h[i] /\ h[k] = h[k - 1] + 1
  <2>1. k - 1 \in i..(c[i] - 1) BY <1>2
  <2> QED BY <1>1, <2>1 DEF Matches
<1>5. k - 1 \in 0..(Len(ir) - 1) /\ i \in 0..(Len(ir) - 1) /\ k \in 0..(Len(ir) - 1)
      /\ a \in 0..(Len(ir) - 1) /\ Len(ir) \in Nat
  <2>1. Len(ir) \in Nat BY DEF Nested
  <2> QED BY <1>2, <1>3, <2>1
<1>6. h[k - 1] \in Nat /\ h[i] \in Nat /\ h[k] \in Nat /\ h[a] \in Nat BY <1>5 DEF Nested
<1>7. h[k] > h[i] BY <1>4, <1>6
<1>8. h[a] = h[i] - 1 /\ \A j \in k..(b - 1) : h[j] >= h[k] BY <1>1, <1>3 DEF Matches
<1>9. a \notin k..(b - 1) BY <1>6, <1>7, <1>8
<1>10. b <= a BY <1>2, <1>3, <1>9
<1>11. b # a
  <2>1. h[b] = h[k] - 1 BY <1>1, <1>3 DEF Matches
  <2> QED BY <1>6, <1>7, <1>8, <2>1
<1> QED BY <1>3, <1>7, <1>10, <1>11

\* What surrounds a position is an opener no deeper than it.
LEMMA SurroundingLevel ==
  ASSUME NEW ir, NEW h, NEW c, Nested(ir, h, c), NEW p \in 1..Len(ir), NEW i \in 1..(p - 1),
         c[i] >= p
  PROVE  /\ ir[i].op \in Openers /\ Matches(ir, h, c, i)
         /\ h[i] \in 1..h[p - 1] /\ h[p - 1] \in Nat
<1>1. i \in 1..Len(ir) /\ Len(ir) \in Nat BY DEF Nested
<1>2. ir[i].op \in Openers /\ Matches(ir, h, c, i)
  <2>1. c[i] # 0 OBVIOUS
  <2> QED BY <1>1, <2>1 DEF Nested
<1>3. p - 1 \in i..(c[i] - 1)
  <2>1. c[i] \in Int BY <1>2 DEF Matches
  <2> QED BY <2>1
<1>4. h[p - 1] >= h[i] BY <1>2, <1>3 DEF Matches
<1>5. p - 1 \in 0..(Len(ir) - 1) /\ i - 1 \in 0..(Len(ir) - 1) BY <1>1
<1>6. h[p - 1] \in Nat /\ h[i - 1] \in Nat BY <1>5 DEF Nested
<1>7. h[i] = h[i - 1] + 1 BY <1>2 DEF Matches
<1> QED BY <1>2, <1>4, <1>6, <1>7

\* Two constructs around a position lie on different levels.
LEMMA OnePerLevel ==
  ASSUME NEW ir, NEW h, NEW c, Nested(ir, h, c), NEW p \in 1..Len(ir),
         NEW i \in 1..(p - 1), NEW k \in 1..(p - 1), c[i] >= p, c[k] >= p
  PROVE  /\ h[i] = h[k] => i = k
         /\ h[i] < h[k] <=> i < k
<1>1. /\ i \in 1..Len(ir) /\ k \in 1..Len(ir)
      /\ ir[i].op \in Openers /\ ir[k].op \in Openers
  <2>1. Len(ir) \in Nat BY DEF Nested
  <2> QED BY <2>1, SurroundingLevel
<1>2. h[i] \in Int /\ h[k] \in Int /\ c[i] \in Int /\ c[k] \in Int
  <2>1. h[i] \in 1..h[p - 1] /\ h[k] \in 1..h[p - 1] /\ h[p - 1] \in Nat BY SurroundingLevel
  <2>2. Matches(ir, h, c, i) /\ Matches(ir, h, c, k) BY SurroundingLevel
  <2> QED BY <2>1, <2>2 DEF Matches
<1>3. i < k => h[k] > h[i]
  <2>1. k < c[i] BY <1>2
  <2> QED BY <1>1, <2>1, Laminar
<1>4. k < i => h[i] > h[k]
  <2>1. i < c[k] BY <1>2
  <2> QED BY <1>1, <2>1, Laminar
<1> QED BY <1>2, <1>3, <1>4

\* Each level up to the depth of a position has a construct around it.
LEMMA EachLevelIsOpen ==
  ASSUME NEW ir, NEW h, NEW c, Nested(ir, h, c), NEW p \in 1..Len(ir), NEW q \in 1..h[p - 1]
  PROVE  \E i \in 1..(p - 1) : c[i] >= p /\ h[i] = q
<1>1. Len(ir) \in Nat /\ p - 1 \in 0..(Len(ir) - 1) BY DEF Nested
<1>2. h[p - 1] \in Nat /\ h[0] = 0 BY <1>1 DEF Nested
<1>3. p # 1 /\ q \in Nat /\ q >= 1 /\ q <= h[p - 1] BY <1>2
<1> DEFINE S == {i \in 1..(p - 1) : h[i - 1] < q}
<1>4. 1 \in S BY <1>2, <1>3
<1>5. S \in SUBSET (0..(p - 1)) /\ S # {} /\ p - 1 \in Nat
  <2>1. p - 1 \in Nat BY <1>1
  <2>2. \A x \in S : x \in 0..(p - 1) BY <2>1
  <2> QED BY <1>4, <2>1, <2>2
<1>6. PICK i \in S : \A y \in S : y <= i
  <2> HIDE DEF S
  <2> QED BY <1>5, GreatestNumber
<1>7. i \in 1..(p - 1) /\ h[i - 1] < q BY <1>6
<1>8. ASSUME NEW j \in i..(p - 1) PROVE h[j] >= q
  <2>1. CASE j = p - 1 BY <1>2, <1>3, <2>1
  <2>2. CASE j # p - 1
    <3>1. j + 1 \in 1..(p - 1) /\ j + 1 > i BY <1>7, <2>2
    <3>2. j + 1 \notin S
      <4>1. PICK y : y = j + 1 OBVIOUS
      <4>2. y > i /\ y \in Int /\ i \in Int BY <1>7, <3>1, <4>1
      <4>3. y \in S => y <= i BY <1>6
      <4> QED BY <4>1, <4>2, <4>3
    <3>3. ~(h[j] < q)
      <4>1. (j + 1) - 1 = j OBVIOUS
      <4> QED BY <3>1, <3>2, <4>1
    <3>4. j \in 0..(Len(ir) - 1) BY <1>1, <1>7
    <3>5. h[j] \in Nat BY <3>4 DEF Nested
    <3> QED BY <1>3, <3>3, <3>5
  <2> QED BY <2>1, <2>2
<1>9. h[i] >= q BY <1>7, <1>8
<1>10. i \in 1..Len(ir) /\ i - 1 \in 0..(Len(ir) - 1) /\ i \in 0..(Len(ir) - 1) BY <1>1, <1>7
<1>11. h[i - 1] \in Nat /\ h[i] \in Nat /\ h[i] = h[i - 1] + Step(ir, i) BY <1>10 DEF Nested
<1>12. ir[i].op \in Openers /\ h[i] = q BY <1>3, <1>7, <1>9, <1>11 DEF Step
<1>13. Matches(ir, h, c, i) BY <1>10, <1>12 DEF Nested
<1>14. c[i] \in (i + 1)..(Len(ir) - 1) /\ h[c[i]] = q - 1 BY <1>12, <1>13 DEF Matches
<1>15. c[i] \notin i..(p - 1)
  <2>1. q - 1 < q BY <1>3
  <2> QED BY <1>3, <1>8, <1>14, <2>1
<1>16. c[i] >= p BY <1>1, <1>10, <1>14, <1>15
<1> QED BY <1>7, <1>12, <1>16

\* The sequence s holds the constructs around a position, by level.
Levels(h, c, s, m, p) ==
  /\ s \in Seq(Nat) /\ Len(s) = m /\ m \in Nat
  /\ \A q \in 1..m : s[q] \in 1..(p - 1) /\ c[s[q]] >= p /\ h[s[q]] = q
  /\ \A i \in 1..(p - 1) : c[i] >= p => h[i] \in 1..m /\ s[h[i]] = i

\* The text's constructs around a position are those by level.
LEMMA AroundIs ==
  ASSUME NEW ir, NEW h, NEW c, Nested(ir, h, c), h = Heights(ir), NEW a, a = AroundOf(ir, c),
         NEW p \in 1..Len(ir)
  PROVE  Levels(h, c, a[p], h[p - 1], p)
<1>1. a[p] = [n \in 1..h[p - 1] |-> CHOOSE i \in 1..(p - 1) : c[i] >= p /\ h[i] = n]
  BY DEF AroundOf
<1>2. p - 1 \in 0..(Len(ir) - 1) /\ h[p - 1] \in Nat
  <2>1. Len(ir) \in Nat BY DEF Nested
  <2>2. p - 1 \in 0..(Len(ir) - 1) BY <2>1
  <2> QED BY <2>2 DEF Nested
<1>3. ASSUME NEW q \in 1..h[p - 1]
      PROVE  a[p][q] \in 1..(p - 1) /\ c[a[p][q]] >= p /\ h[a[p][q]] = q
  <2>1. \E i \in 1..(p - 1) : c[i] >= p /\ h[i] = q BY EachLevelIsOpen
  <2>2. a[p][q] = CHOOSE i \in 1..(p - 1) : c[i] >= p /\ h[i] = q BY <1>1
  <2> QED BY <2>1, <2>2
<1>4. ASSUME NEW i \in 1..(p - 1), c[i] >= p PROVE h[i] \in 1..h[p - 1] /\ a[p][h[i]] = i
  <2>1. h[i] \in 1..h[p - 1] BY <1>4, SurroundingLevel
  <2>2. PICK k : k = a[p][h[i]] OBVIOUS
  <2>3. k \in 1..(p - 1) /\ c[k] >= p /\ h[k] = h[i] BY <1>3, <2>1, <2>2
  <2>4. k = i BY <1>4, <2>3, OnePerLevel
  <2> QED BY <2>1, <2>2, <2>4
<1>6. a[p] \in Seq(Nat) /\ Len(a[p]) = h[p - 1]
  <2>1. PICK s : s = a[p] OBVIOUS
  <2>2. s \in [1..h[p - 1] -> Nat] BY <1>1, <1>3, <2>1
  <2>3. s \in Seq(Nat) /\ Len(s) = h[p - 1] BY <1>2, <2>2
  <2> QED BY <2>1, <2>3
<1> QED BY <1>2, <1>3, <1>4, <1>6 DEF Levels

\* Sequences of one length with the same elements are one sequence.
LEMMA SameSequence ==
  ASSUME NEW S, NEW s \in Seq(S), NEW t \in Seq(S), Len(s) = Len(t),
         \A q \in 1..Len(s) : s[q] = t[q]
  PROVE  s = t
OBVIOUS

\* A step of the text opens a construct, closes the innermost one or stays in it.
LEMMA AroundSteps ==
  ASSUME NEW ir, NEW h, NEW c, Nested(ir, h, c), h = Heights(ir), NEW a, a = AroundOf(ir, c),
         NEW p \in 1..(Len(ir) - 1)
  PROVE  /\ ir[p].op \in Openers => a[p + 1] = Append(a[p], p)
         /\ ir[p].op \in Closers => /\ Len(a[p]) > 0 /\ c[a[p][Len(a[p])]] = p
                                    /\ a[p + 1] = Front(a[p])
         /\ ir[p].op \notin Openers \cup Closers => a[p + 1] = a[p]
<1>1. Len(ir) \in Nat BY DEF Nested
<1>2. p \in 1..Len(ir) /\ p + 1 \in 1..Len(ir) /\ (p + 1) - 1 = p BY <1>1
<1>3. PICK s, t : s = a[p] /\ t = a[p + 1] OBVIOUS
<1>4. PICK m, n : m = h[p - 1] /\ n = h[p] OBVIOUS
<1>5. /\ s \in Seq(Nat) /\ Len(s) = m /\ m \in Nat
      /\ \A q \in 1..m : s[q] \in 1..(p - 1) /\ c[s[q]] >= p /\ h[s[q]] = q
      /\ \A i \in 1..(p - 1) : c[i] >= p => h[i] \in 1..m /\ s[h[i]] = i
  <2>1. Levels(h, c, s, m, p) BY <1>2, <1>3, <1>4, AroundIs
  <2> QED BY <2>1 DEF Levels
<1>6. /\ t \in Seq(Nat) /\ Len(t) = n /\ n \in Nat
      /\ \A q \in 1..n : t[q] \in 1..p /\ c[t[q]] >= p + 1 /\ h[t[q]] = q
      /\ \A i \in 1..p : c[i] >= p + 1 => h[i] \in 1..n /\ t[h[i]] = i
  <2>1. Levels(h, c, t, n, p + 1) BY <1>2, <1>3, <1>4, AroundIs
  <2> QED BY <1>2, <2>1 DEF Levels
<1>7. n = m + Step(ir, p) BY <1>2, <1>4 DEF Nested
<1>8. ASSUME NEW q \in 1..m PROVE /\ Matches(ir, h, c, s[q]) /\ s[q] \in Nat /\ c[s[q]] \in Nat
                                  /\ c[s[q]] = p => n = q - 1
  <2>1. s[q] \in 1..(p - 1) /\ c[s[q]] >= p /\ h[s[q]] = q BY <1>5
  <2>2. Matches(ir, h, c, s[q]) BY <1>2, <2>1, SurroundingLevel
  <2> QED BY SMTT(30), <1>4, <2>1, <2>2 DEF Matches
<1>9. ASSUME NEW q \in 1..m, q <= n PROVE t[q] = s[q]
  <2>1. s[q] \in 1..(p - 1) /\ c[s[q]] >= p /\ h[s[q]] = q BY <1>5
  <2>2. c[s[q]] \in Nat /\ c[s[q]] # p BY <1>6, <1>8, <1>9
  <2>3. c[s[q]] >= p + 1 /\ s[q] \in 1..p BY <2>1, <2>2
  <2> QED BY <1>6, <2>1, <2>3
<1>10. CASE ir[p].op \in Openers
  <2>1. n = m + 1 BY <1>7, <1>10 DEF Step
  <2>2. c[p] >= p + 1 /\ p \in 1..p
    <3>1. Matches(ir, h, c, p) BY <1>2, <1>10 DEF Nested
    <3> QED BY <3>1 DEF Matches
  <2>3. t[n] = p BY <1>4, <1>6, <2>2
  <2>4. \A q \in 1..m : t[q] = s[q] BY <1>9, <2>1, <1>5
  <2>5. p \in Nat OBVIOUS
  <2>6. Append(s, p) \in Seq(Nat) /\ Len(Append(s, p)) = n BY <1>5, <2>1, <2>5
  <2>7. \A q \in 1..n : t[q] = Append(s, p)[q] BY <1>5, <2>1, <2>3, <2>4
  <2>8. t = Append(s, p) BY <1>6, <2>6, <2>7, SameSequence
  <2>9. ir[p].op \notin Closers BY <1>10 DEF Openers, Closers
  <2> QED BY <1>3, <1>10, <2>8, <2>9
<1>11. CASE ir[p].op \in Closers
  <2>1. ir[p].op \notin Openers BY <1>11 DEF Openers, Closers
  <2>2. n = m - 1 /\ m \in 1..m BY <1>5, <1>6, <1>7, <1>11, <2>1 DEF Step
  <2>3. c[s[m]] = p
    <3>1. s[m] \in 1..(p - 1) /\ c[s[m]] >= p /\ h[s[m]] = m /\ c[s[m]] \in Nat BY <1>5, <1>8, <2>2
    <3>2. ~(c[s[m]] >= p + 1)
      <4> SUFFICES ASSUME c[s[m]] >= p + 1 PROVE FALSE OBVIOUS
      <4>1. s[m] \in 1..p BY <3>1
      <4>2. h[s[m]] \in 1..n BY <1>6, <4>1
      <4> QED BY <1>5, <2>2, <3>1, <4>2
    <3> QED BY <3>1, <3>2
  <2>4. \A q \in 1..n : t[q] = s[q] BY <1>5, <1>9, <2>2
  <2>5. Front(s) \in Seq(Nat) /\ Len(Front(s)) = n /\ \A q \in 1..n : Front(s)[q] = s[q]
    BY <1>5, <1>6, <2>2 DEF Front
  <2>6. t = Front(s) BY <1>6, <2>4, <2>5, SameSequence
  <2> QED BY <1>3, <1>5, <1>11, <2>1, <2>2, <2>3, <2>6
<1>12. CASE ir[p].op \notin Openers \cup Closers
  <2>1. n = m BY <1>5, <1>7, <1>12 DEF Step
  <2>2. \A q \in 1..n : t[q] = s[q] BY <1>5, <1>9, <2>1
  <2>3. t = s BY <1>5, <1>6, <2>1, <2>2, SameSequence
  <2> QED BY <1>3, <1>12, <2>3
<1> QED BY <1>10, <1>11, <1>12

\* The innermost construct around a position.
Innermost(s, i) == Len(s) > 0 /\ s[Len(s)] = i

\* Directly inside a construct, it is the innermost one around.
LEMMA InsideIsInnermost ==
  ASSUME NEW ir, NEW h, NEW t, Nested(ir, h, t.closer), h = Heights(ir),
         NEW a, a = AroundOf(ir, t.closer), NEW i \in 1..Len(ir), ir[i].op \in Openers,
         NEW p \in Inside(t, i)
  PROVE  /\ p \in (i + 1)..(Len(ir) - 1) /\ p < t.closer[i]
         /\ Innermost(a[p], i) /\ h[i] = Len(a[p])
<1>1. PICK c : c = t.closer OBVIOUS
<1>2. Nested(ir, h, c) /\ a = AroundOf(ir, c) BY <1>1
<1>3. p \in (i + 1)..(c[i] - 1) /\ \A j \in (i + 1)..(p - 1) : c[j] < p
  BY <1>1 DEF Inside
<1>4. Matches(ir, h, c, i) BY <1>2 DEF Nested
<1>5. c[i] \in (i + 1)..(Len(ir) - 1) BY <1>4 DEF Matches
<1>6. p \in 1..Len(ir) /\ i \in 1..(p - 1) /\ c[i] >= p BY <1>3, <1>5
<1>7. PICK s, m : s = a[p] /\ m = h[p - 1] OBVIOUS
<1>8. /\ Len(s) = m /\ m \in Nat
      /\ \A q \in 1..m : s[q] \in 1..(p - 1) /\ c[s[q]] >= p /\ h[s[q]] = q
      /\ h[i] \in 1..m /\ s[h[i]] = i
  <2>1. Levels(h, c, s, m, p) BY <1>2, <1>6, <1>7, AroundIs
  <2> QED BY <1>6, <2>1 DEF Levels
<1>9. m \in 1..m BY <1>8
<1>10. PICK k : k = s[m] OBVIOUS
<1>11. k \in 1..(p - 1) /\ c[k] >= p /\ h[k] = m BY <1>8, <1>9, <1>10
<1>12. k \notin (i + 1)..(p - 1)
  <2>1. k \in 1..Len(ir) BY <1>6, <1>11
  <2>2. Matches(ir, h, c, k) BY <1>2, <1>6, <1>11, SurroundingLevel
  <2>3. c[k] \in Int BY <2>2 DEF Matches
  <2>4. ~(c[k] < p) BY <1>11, <2>3, <1>6
  <2> QED BY <1>3, <2>4
<1>13. k <= i BY <1>6, <1>11, <1>12
<1>14. ~(k < i)
  <2>1. h[k] < h[i] <=> k < i BY <1>2, <1>6, <1>11, OnePerLevel
  <2> QED BY <1>8, <1>11, <2>1
<1>15. k = i BY <1>6, <1>11, <1>13, <1>14
<1>16. Innermost(s, i) BY <1>8, <1>9, <1>10, <1>15 DEF Innermost
<1> QED BY <1>1, <1>3, <1>5, <1>7, <1>8, <1>11, <1>15, <1>16

-----------------------------------------------------------------------------
(* The pass.                                                               *)

\* What the pass holds after each of the first positions.
Passes(g, ir, k) == g = [i \in 0..k |-> IF i = 0 THEN Start0(Len(ir)) ELSE Scan(g[i - 1], i, ir)]

\* The pass is defined at every position.
LEMMA PassExists ==
  ASSUME NEW ir, NEW n \in Nat
  PROVE  \E g : Passes(g, ir, n)
<1> DEFINE S == {k \in Nat : \E g : Passes(g, ir, k)}
<1>1. 0 \in S
  <2> DEFINE g == [i \in 0..0 |-> Start0(Len(ir))]
  <2>1. Passes(g, ir, 0) BY DEF Passes
  <2> QED BY <2>1
<1>2. ASSUME NEW k \in Nat, k \in S PROVE k + 1 \in S
  <2>1. PICK f : Passes(f, ir, k) BY <1>2
  <2> DEFINE g == [i \in 0..(k + 1) |-> IF i = k + 1 THEN Scan(f[k], k + 1, ir) ELSE f[i]]
  <2>2. \A i \in 0..k : f[i] = IF i = 0 THEN Start0(Len(ir)) ELSE Scan(f[i - 1], i, ir)
    BY <2>1 DEF Passes
  <2>3. \A i \in 0..k : g[i] = f[i] OBVIOUS
  <2>4. g[k + 1] = Scan(g[k], k + 1, ir) BY <2>3
  <2>5. \A i \in 0..(k + 1) : g[i] = IF i = 0 THEN Start0(Len(ir)) ELSE Scan(g[i - 1], i, ir)
    <3> SUFFICES ASSUME NEW i \in 0..(k + 1)
                 PROVE  g[i] = IF i = 0 THEN Start0(Len(ir)) ELSE Scan(g[i - 1], i, ir)
      OBVIOUS
    <3>1. CASE i = k + 1
      <4>1. i - 1 = k /\ i # 0 BY <3>1
      <4> QED BY <2>4, <3>1, <4>1
    <3>2. CASE i # k + 1 /\ i # 0
      <4>1. i \in 0..k /\ i - 1 \in 0..k BY <3>2
      <4>2. g[i] = f[i] /\ g[i - 1] = f[i - 1] BY <2>3, <4>1
      <4>3. f[i] = Scan(f[i - 1], i, ir) BY <2>2, <3>2, <4>1
      <4> QED BY <3>2, <4>2, <4>3
    <3>3. CASE i = 0 BY <2>2, <2>3, <3>3
    <3> QED BY <3>1, <3>2, <3>3
  <2>6. g = [i \in 0..(k + 1) |-> g[i]] OBVIOUS
  <2> HIDE DEF g
  <2>7. Passes(g, ir, k + 1) BY <2>5, <2>6 DEF Passes
  <2> QED BY <2>7
<1> HIDE DEF S
<1>3. n \in S BY <1>1, <1>2, NatSetInduction
<1> QED BY <1>3 DEF S

\* The pass goes on from position to position.
LEMMA PassSteps ==
  ASSUME NEW ir, Len(ir) \in Nat, NEW g, g = Pass(ir)
  PROVE  /\ g[0] = Start0(Len(ir))
         /\ \A i \in 1..Len(ir) : g[i] = Scan(g[i - 1], i, ir)
<1>1. g = CHOOSE f : Passes(f, ir, Len(ir)) BY DEF Pass, Passes
<1>2. Passes(g, ir, Len(ir)) BY <1>1, PassExists
<1>3. g[0] = Start0(Len(ir))
  <2>1. 0 \in 0..Len(ir) OBVIOUS
  <2> QED BY <1>2, <2>1 DEF Passes
<1>4. ASSUME NEW i \in 1..Len(ir) PROVE g[i] = Scan(g[i - 1], i, ir)
  <2>1. i \in 0..Len(ir) /\ i # 0 OBVIOUS
  <2> QED BY <1>2, <2>1 DEF Passes
<1> QED BY <1>3, <1>4

\* The handler a catch is recorded as; hs holds those of the catches in C, in
\* the order of the text.
HandlerAt(ir, k) == [tag |-> IF ir[k].op = "catch" THEN ir[k].tag ELSE NoTag, pc |-> k + 1]
HandlersOf(ir) == {HandlerAt(ir, k) : k \in 1..Len(ir)}
HandlersAre(ir, hs, C) ==
  /\ hs \in Seq(HandlersOf(ir))
  /\ \A x \in 1..Len(hs) : \E k \in C : hs[x] = HandlerAt(ir, k)
  /\ \A k \in C : \E x \in 1..Len(hs) : hs[x] = HandlerAt(ir, k)
  /\ \A x, y \in 1..Len(hs) : x < y => hs[x].pc < hs[y].pc

\* The states of the pass.
OpensOf(ir) == [at : Nat, handlers : Seq(HandlersOf(ir)), catches : SUBSET Nat]
LabelsOf(ir) == {NoDelegate} \cup {ir[k].label : k \in 1..Len(ir)}
PassState(ir) ==
  [open : Seq(OpensOf(ir)), endOf : [1..Len(ir) -> Nat], elseOf : [1..Len(ir) -> Nat],
   handlers : [1..Len(ir) -> Seq(HandlersOf(ir))], delegate : [1..Len(ir) -> LabelsOf(ir)]]

\* An entry o for the construct opened at k, after i positions.
Entry(ir, t, o, k, i) ==
  /\ o.at = k /\ o.catches = {x \in CatchesOf(t, k) : x <= i}
  /\ HandlersAre(ir, o.handlers, o.catches)

\* What the tables hold of a construct that is closed, and of any, after i positions.
ElseIs(t, e, k, i) ==
  \/ e = NoElse /\ \A x \in ElsesOf(t, k) : x > i
  \/ e \in ElsesOf(t, k) /\ e <= i
Done(ir, t, s, k) ==
  /\ \A x \in {k} \cup ElsesOf(t, k) \cup CatchesOf(t, k) : s.endOf[x] = t.closer[k]
  /\ HandlersAre(ir, s.handlers[k], CatchesOf(t, k))
  /\ s.delegate[k] = IF ir[t.closer[k]].op = "delegate" THEN ir[t.closer[k]].label ELSE NoDelegate
Tabled(ir, t, s, k, i) ==
  /\ ElseIs(t, s.elseOf[k], k, i)
  /\ t.closer[k] > i => s.handlers[k] = <<>> /\ s.delegate[k] = NoDelegate
  /\ t.closer[k] <= i => Done(ir, t, s, k)

\* After i positions, the stack holds the constructs around the next one.
PassInv(ir, t, s, i) ==
  /\ s \in PassState(ir)
  /\ Len(s.open) = Len(t.around[i + 1])
  /\ \A q \in 1..Len(s.open) : Entry(ir, t, s.open[q], t.around[i + 1][q], i)
  /\ \A k \in 1..Len(ir) : ir[k].op \in Openers => Tabled(ir, t, s, k, i)

\* No handlers, and one more.
LEMMA HandlersNone == ASSUME NEW ir PROVE HandlersAre(ir, <<>>, {})
BY DEF HandlersAre

LEMMA HandlersMore ==
  ASSUME NEW ir, Len(ir) \in Nat, NEW hs, NEW k \in 1..Len(ir), NEW C \in SUBSET (1..(k - 1)),
         HandlersAre(ir, hs, C)
  PROVE  HandlersAre(ir, Append(hs, HandlerAt(ir, k)), C \cup {k})
<1>1. PICK v : v = HandlerAt(ir, k) OBVIOUS
<1>2. v \in HandlersOf(ir) BY <1>1 DEF HandlersOf
<1>3. hs \in Seq(HandlersOf(ir)) BY DEF HandlersAre
<1>4. PICK H : H = HandlersOf(ir) OBVIOUS
<1>5. hs \in Seq(H) /\ v \in H BY <1>2, <1>3, <1>4
<1>6. PICK m, g : m = Len(hs) /\ g = Append(hs, v) OBVIOUS
<1>7. /\ g \in Seq(H) /\ Len(g) = m + 1 /\ m \in Nat /\ g[m + 1] = v
      /\ \A x \in 1..m : g[x] = hs[x]
  BY <1>5, <1>6
<1>8. \A x \in 1..(m + 1) : \E j \in C \cup {k} : g[x] = HandlerAt(ir, j)
  <2> SUFFICES ASSUME NEW x \in 1..(m + 1) PROVE \E j \in C \cup {k} : g[x] = HandlerAt(ir, j)
    OBVIOUS
  <2>1. CASE x = m + 1 BY <1>1, <1>7, <2>1
  <2>2. CASE x # m + 1
    <3>1. x \in 1..m BY <1>7, <2>2
    <3>2. \E j \in C : hs[x] = HandlerAt(ir, j) BY <1>6, <3>1 DEF HandlersAre
    <3> QED BY <1>7, <3>1, <3>2
  <2> QED BY <2>1, <2>2
<1>9. \A j \in C \cup {k} : \E x \in 1..(m + 1) : g[x] = HandlerAt(ir, j)
  <2> SUFFICES ASSUME NEW j \in C \cup {k} PROVE \E x \in 1..(m + 1) : g[x] = HandlerAt(ir, j)
    OBVIOUS
  <2>1. CASE j = k
    <3>1. m + 1 \in 1..(m + 1) BY <1>7
    <3> QED BY <1>1, <1>7, <2>1, <3>1
  <2>2. CASE j # k
    <3>1. j \in C BY <2>2
    <3>2. PICK x \in 1..m : hs[x] = HandlerAt(ir, j) BY <1>6, <3>1 DEF HandlersAre
    <3>3. x \in 1..(m + 1) BY <1>7
    <3> QED BY <1>7, <3>2, <3>3
  <2> QED BY <2>1, <2>2
<1>10. ASSUME NEW x \in 1..(m + 1), NEW y \in 1..(m + 1), x < y PROVE g[x].pc < g[y].pc
  <2>1. x \in 1..m BY <1>7, <1>10
  <2>2. PICK j \in C : hs[x] = HandlerAt(ir, j) BY <1>6, <2>1 DEF HandlersAre
  <2>3. g[x].pc = j + 1 /\ j < k BY <1>7, <2>1, <2>2 DEF HandlerAt
  <2>4. CASE y = m + 1
    <3>1. g[y].pc = k + 1 BY <1>1, <1>7, <2>4 DEF HandlerAt
    <3> QED BY <2>3, <3>1
  <2>5. CASE y # m + 1
    <3>1. y \in 1..m BY <1>7, <2>5
    <3>2. hs[x].pc < hs[y].pc BY <1>6, <1>10, <2>1, <3>1 DEF HandlersAre
    <3> QED BY <1>7, <2>1, <3>1, <3>2
  <2> QED BY <2>4, <2>5
<1>11. \A x, y \in 1..(m + 1) : x < y => g[x].pc < g[y].pc BY <1>10
<1> HIDE DEF HandlerAt, HandlersOf
<1>12. g \in Seq(HandlersOf(ir)) BY <1>4, <1>7
<1>13. Len(g) = m + 1 BY <1>7
<1>14. HandlersAre(ir, g, C \cup {k}) BY <1>8, <1>9, <1>11, <1>12, <1>13 DEF HandlersAre
<1> QED BY <1>1, <1>6, <1>14

\* What well-bracketed says of an else, of a handler and of a delegate.
ElseSited(ir, t, p) == \E i \in 1..(p - 1) : ir[i].op = "if" /\ ElsesOf(t, i) = {p}
CatchSited(ir, t, p) == \E i \in 1..(p - 1) : ir[i].op = "try" /\ p \in CatchesOf(t, i)
DelegateSited(ir, t, p) ==
  \E i \in 1..(p - 1) : ir[i].op = "try" /\ t.closer[i] = p /\ CatchesOf(t, i) = {}
LEMMA Sited ==
  ASSUME NEW t, WellBracketed(t), NEW p \in 1..Len(t.ir)
  PROVE  /\ t.ir[p].op = "else" => ElseSited(t.ir, t, p)
         /\ t.ir[p].op \in Catches => CatchSited(t.ir, t, p)
         /\ t.ir[p].op = "delegate" => DelegateSited(t.ir, t, p)
BY Zenon DEF WellBracketed, ElseSited, CatchSited, DelegateSited

\* A position is directly inside one construct at most.
LEMMA OneInside ==
  ASSUME NEW ir, Len(ir) \in Nat, NEW t, t = Text(ir), WellBracketed(t),
         NEW i \in 1..Len(ir), NEW k \in 1..Len(ir), ir[i].op \in Openers, ir[k].op \in Openers,
         NEW p \in Inside(t, i), p \in Inside(t, k)
  PROVE  i = k
<1>1. PICK h : h = Heights(ir) OBVIOUS
<1>2. Nested(ir, h, t.closer) BY <1>1, BracketsMatch
<1>3. PICK a : a = AroundOf(ir, t.closer) OBVIOUS
<1>4. ASSUME NEW j \in 1..Len(ir), ir[j].op \in Openers, NEW r \in Inside(t, j)
      PROVE  Innermost(a[r], j)
  BY <1>1, <1>2, <1>3, <1>4, InsideIsInnermost
<1>5. Innermost(a[p], i) /\ Innermost(a[p], k) BY <1>4
<1> QED BY <1>5 DEF Innermost

\* The positions inside a construct lie between its brackets.
LEMMA InsideRange ==
  ASSUME NEW ir, Len(ir) \in Nat, NEW t, t = Text(ir), WellBracketed(t),
         NEW i \in 1..Len(ir), ir[i].op \in Openers
  PROVE  /\ t.closer[i] \in (i + 1)..(Len(ir) - 1) /\ ir[t.closer[i]].op \in Closers
         /\ \A p \in Inside(t, i) : p \in (i + 1)..(Len(ir) - 1) /\ p < t.closer[i]
         /\ ElsesOf(t, i) = {p \in Inside(t, i) : ir[p].op = "else"}
         /\ CatchesOf(t, i) = {p \in Inside(t, i) : ir[p].op \in Catches}
<1>1. PICK h : h = Heights(ir) OBVIOUS
<1>2. Nested(ir, h, t.closer) /\ t.ir = ir BY <1>1, BracketsMatch
<1>3. Matches(ir, h, t.closer, i) BY <1>2 DEF Nested
<1>4. t.closer[i] \in (i + 1)..(Len(ir) - 1) /\ ir[t.closer[i]].op \in Closers
  BY <1>3 DEF Matches
<1>5. \A p \in Inside(t, i) : p \in (i + 1)..(Len(ir) - 1) /\ p < t.closer[i]
  BY <1>4 DEF Inside
<1> QED BY <1>2, <1>4, <1>5 DEF ElsesOf, CatchesOf

\* Elses are in ifs, one in each, and handlers are in tries.
LEMMA WhereTheyAre ==
  ASSUME NEW ir, Len(ir) \in Nat, NEW t, t = Text(ir), WellBracketed(t),
         NEW k \in 1..Len(ir), ir[k].op \in Openers
  PROVE  /\ \A p \in ElsesOf(t, k) : ir[k].op = "if" /\ ElsesOf(t, k) = {p}
         /\ \A p \in CatchesOf(t, k) : ir[k].op = "try"
<1>1. t.ir = ir BY BracketsMatch
<1>2. ASSUME NEW p \in ElsesOf(t, k) PROVE ir[k].op = "if" /\ ElsesOf(t, k) = {p}
  <2>1. p \in Inside(t, k) /\ ir[p].op = "else" /\ p \in 1..Len(ir) BY InsideRange
  <2>2. PICK i \in 1..(p - 1) : ir[i].op = "if" /\ ElsesOf(t, i) = {p}
    <3>1. ElseSited(ir, t, p) BY <1>1, <2>1, Sited
    <3> QED BY <3>1, Zenon DEF ElseSited
  <2>3. i \in 1..Len(ir) /\ ir[i].op \in Openers BY <2>1, <2>2 DEF Openers
  <2>4. p \in Inside(t, i) BY <2>2, <2>3, InsideRange
  <2>5. i = k BY <2>1, <2>3, <2>4, OneInside
  <2> QED BY <2>2, <2>5
<1>3. ASSUME NEW p \in CatchesOf(t, k) PROVE ir[k].op = "try"
  <2>1. p \in Inside(t, k) /\ ir[p].op \in Catches /\ p \in 1..Len(ir) BY InsideRange
  <2>2. PICK i \in 1..(p - 1) : ir[i].op = "try" /\ p \in CatchesOf(t, i)
    <3>1. CatchSited(ir, t, p) BY <1>1, <2>1, Sited
    <3> QED BY <3>1, Zenon DEF CatchSited
  <2>3. i \in 1..Len(ir) /\ ir[i].op \in Openers BY <2>1, <2>2 DEF Openers
  <2>4. p \in Inside(t, i) BY <2>2, <2>3, InsideRange
  <2>5. i = k BY <2>1, <2>3, <2>4, OneInside
  <2> QED BY <2>2, <2>5
<1> QED BY <1>2, <1>3

\* Every else and every handler is the matter of the innermost construct.
LEMMA TheInnermost ==
  ASSUME NEW ir, Len(ir) \in Nat, NEW t, t = Text(ir), WellBracketed(t), NEW p \in 1..Len(ir),
         ir[p].op \in {"else"} \cup Catches
  PROVE  /\ p < Len(ir)
         /\ \E k \in 1..(p - 1) :
              /\ Innermost(t.around[p], k) /\ ir[k].op \in Openers /\ p \in Inside(t, k)
              /\ ir[p].op = "else" => ElsesOf(t, k) = {p}
              /\ ir[p].op \in Catches => p \in CatchesOf(t, k)
<1>1. PICK h : h = Heights(ir) OBVIOUS
<1>2. Nested(ir, h, t.closer) /\ t.ir = ir BY <1>1, BracketsMatch
<1>3. PICK a : a = t.around OBVIOUS
<1>4. a = AroundOf(ir, t.closer) BY <1>3, BracketsMatch
<1>5. ASSUME NEW k \in 1..(p - 1), ir[k].op \in Openers, p \in Inside(t, k)
      PROVE  p < Len(ir) /\ Innermost(a[p], k)
  <2>1. k \in 1..Len(ir) OBVIOUS
  <2>2. p \in (k + 1)..(Len(ir) - 1) BY <1>5, <2>1, InsideRange
  <2>3. PICK r : r = p OBVIOUS
  <2>4. r \in Inside(t, k) BY <1>5, <2>3
  <2>5. Innermost(a[r], k)
    BY <1>1, <1>2, <1>4, <1>5, <2>1, <2>4, InsideIsInnermost
  <2> QED BY <2>2, <2>3, <2>5
<1>6. CASE ir[p].op = "else"
  <2>1. PICK k \in 1..(p - 1) : ir[k].op = "if" /\ ElsesOf(t, k) = {p}
    <3>1. ElseSited(ir, t, p) BY <1>2, <1>6, Sited
    <3> QED BY <3>1, Zenon DEF ElseSited
  <2>2. k \in 1..Len(ir) /\ ir[k].op \in Openers BY <2>1 DEF Openers
  <2>3. p \in Inside(t, k) BY <2>1, <2>2, InsideRange
  <2>4. ir[p].op \notin Catches BY <1>6 DEF Catches
  <2> QED BY <1>3, <1>5, <2>1, <2>2, <2>3, <2>4
<1>7. CASE ir[p].op \in Catches
  <2>1. PICK k \in 1..(p - 1) : ir[k].op = "try" /\ p \in CatchesOf(t, k)
    <3>1. CatchSited(ir, t, p) BY <1>2, <1>7, Sited
    <3> QED BY <3>1, Zenon DEF CatchSited
  <2>2. k \in 1..Len(ir) /\ ir[k].op \in Openers BY <2>1 DEF Openers
  <2>3. p \in Inside(t, k) BY <2>1, <2>2, InsideRange
  <2>4. ir[p].op # "else" BY <1>7 DEF Catches
  <2> QED BY <1>3, <1>5, <1>7, <2>1, <2>2, <2>3, <2>4
<1> QED BY <1>6, <1>7

\* What is around a position was opened before it and is closed there or later.
LEMMA AroundOpens ==
  ASSUME NEW ir, Len(ir) \in Nat, NEW t, t = Text(ir), WellBracketed(t), NEW p \in 1..Len(ir),
         NEW q \in 1..Len(t.around[p])
  PROVE  /\ t.around[p][q] \in 1..(p - 1) /\ t.around[p][q] \in 1..Len(ir)
         /\ ir[t.around[p][q]].op \in Openers /\ t.closer[t.around[p][q]] >= p
<1>1. PICK h, a, c : h = Heights(ir) /\ a = t.around /\ c = t.closer OBVIOUS
<1>2. Nested(ir, h, c) /\ a = AroundOf(ir, c) BY <1>1, BracketsMatch
<1>3. Levels(h, c, a[p], h[p - 1], p) BY <1>1, <1>2, AroundIs
<1>4. PICK i : i = a[p][q] OBVIOUS
<1>5. i \in 1..(p - 1) /\ c[i] >= p BY <1>1, <1>3, <1>4 DEF Levels
<1>6. ir[i].op \in Openers BY <1>2, <1>5, SurroundingLevel
<1>7. i \in 1..Len(ir) BY <1>5
<1> QED BY <1>1, <1>4, <1>5, <1>6, <1>7

\* What is recorded of a construct is not touched by a position that is neither
\* an else, a handler nor a closer.
LEMMA RecordStays ==
  ASSUME NEW ir, Len(ir) \in Nat, NEW t, t = Text(ir), WellBracketed(t), NEW p \in 1..Len(ir),
         NEW k \in 1..Len(ir), ir[k].op \in Openers
  PROVE  /\ ir[p].op # "else" => \A e : ElseIs(t, e, k, p - 1) => ElseIs(t, e, k, p)
         /\ ir[p].op \notin Closers => (t.closer[k] > p - 1 <=> t.closer[k] > p)
         /\ ir[p].op \notin Catches => \A o : Entry(ir, t, o, k, p - 1) => Entry(ir, t, o, k, p)
<1>1. /\ t.closer[k] \in Nat /\ ir[t.closer[k]].op \in Closers
      /\ ElsesOf(t, k) = {x \in Inside(t, k) : ir[x].op = "else"}
      /\ CatchesOf(t, k) = {x \in Inside(t, k) : ir[x].op \in Catches}
      /\ \A x \in Inside(t, k) : x \in Nat
  BY InsideRange
<1>2. ASSUME ir[p].op # "else", NEW e, ElseIs(t, e, k, p - 1) PROVE ElseIs(t, e, k, p)
  <2>1. p \notin ElsesOf(t, k) /\ \A x \in ElsesOf(t, k) : x \in Nat BY <1>1, <1>2
  <2>2. \A x \in Nat : x # p /\ x > p - 1 => x > p OBVIOUS
  <2>3. \A x \in Nat : x <= p - 1 => x <= p OBVIOUS
  <2>4. CASE e \in ElsesOf(t, k) /\ e <= p - 1 BY <2>1, <2>3, <2>4 DEF ElseIs
  <2>5. CASE e = NoElse /\ \A x \in ElsesOf(t, k) : x > p - 1
    <3>1. \A x \in ElsesOf(t, k) : x > p BY <2>1, <2>2, <2>5
    <3> QED BY <2>5, <3>1 DEF ElseIs
  <2> QED BY <1>2, <2>4, <2>5 DEF ElseIs
<1>3. ASSUME ir[p].op \notin Closers PROVE t.closer[k] > p - 1 <=> t.closer[k] > p
  <2>1. t.closer[k] # p BY <1>1, <1>3
  <2> QED BY <1>1, <2>1
<1>4. ASSUME ir[p].op \notin Catches, NEW o, Entry(ir, t, o, k, p - 1) PROVE Entry(ir, t, o, k, p)
  <2>1. \A x \in CatchesOf(t, k) : x \in Nat /\ x # p BY <1>1, <1>4
  <2>2. \A x \in CatchesOf(t, k) : x <= p - 1 <=> x <= p BY <2>1
  <2>3. {x \in CatchesOf(t, k) : x <= p - 1} = {x \in CatchesOf(t, k) : x <= p} BY <2>2
  <2> QED BY <1>4, <2>3 DEF Entry
<1> QED BY <1>2, <1>3, <1>4

\* The innermost entry of the stack.
LEMMA TopEntry ==
  ASSUME NEW ir, NEW t, NEW p \in 1..Len(ir), NEW s, PassInv(ir, t, s, p - 1), NEW k,
         Innermost(t.around[p], k)
  PROVE  /\ Len(s.open) \in 1..Len(s.open) /\ Entry(ir, t, s.open[Len(s.open)], k, p - 1)
         /\ s.open # <<>> /\ s.open[Len(s.open)] \in OpensOf(ir)
<1>1. PICK H : H = OpensOf(ir) OBVIOUS
<1>2. (p - 1) + 1 = p OBVIOUS
<1>3. s.open \in Seq(H) BY <1>1 DEF PassInv, PassState
<1>4. PICK o : o = s.open OBVIOUS
<1>5. o \in Seq(H) /\ Len(o) = Len(t.around[p]) BY <1>2, <1>3, <1>4 DEF PassInv
<1>6. Len(o) \in 1..Len(o) BY <1>5 DEF Innermost
<1>7. o[Len(o)] \in H /\ o # <<>> BY <1>5, <1>6
<1>8. Entry(ir, t, o[Len(o)], t.around[p][Len(o)], p - 1) BY <1>2, <1>4, <1>6 DEF PassInv
<1> QED BY <1>1, <1>4, <1>5, <1>6, <1>7, <1>8 DEF Innermost

\* A position that the pass passes over.
LEMMA PassOver ==
  ASSUME NEW ir, Len(ir) \in Nat, NEW t, t = Text(ir), WellBracketed(t), NEW p \in 1..(Len(ir) - 1),
         NEW s, PassInv(ir, t, s, p - 1),
         ir[p].op \notin Openers \cup Closers \cup Catches \cup {"else"}
  PROVE  PassInv(ir, t, s, p)
<1>1. PICK a : a = t.around OBVIOUS
<1>2. p \in 1..Len(ir) /\ (p - 1) + 1 = p OBVIOUS
<1>3. a[p + 1] = a[p]
  <2>1. PICK h : h = Heights(ir) OBVIOUS
  <2>2. Nested(ir, h, t.closer) /\ a = AroundOf(ir, t.closer) BY <1>1, <2>1, BracketsMatch
  <2> QED BY <2>1, <2>2, AroundSteps
<1>4. ASSUME NEW k \in 1..Len(ir), ir[k].op \in Openers PROVE Tabled(ir, t, s, k, p)
  <2>1. Tabled(ir, t, s, k, p - 1) BY <1>4 DEF PassInv
  <2>2. ElseIs(t, s.elseOf[k], k, p) BY <1>2, <1>4, <2>1, RecordStays DEF Tabled
  <2>3. t.closer[k] > p - 1 <=> t.closer[k] > p BY <1>2, <1>4, RecordStays
  <2>4. t.closer[k] \in Nat BY <1>4, InsideRange
  <2> QED BY <2>1, <2>2, <2>3, <2>4 DEF Tabled
<1>5. ASSUME NEW q \in 1..Len(s.open) PROVE Entry(ir, t, s.open[q], a[p][q], p)
  <2>1. Entry(ir, t, s.open[q], a[p][q], p - 1) BY <1>1, <1>2 DEF PassInv
  <2>2. a[p][q] \in 1..Len(ir) /\ ir[a[p][q]].op \in Openers
    BY <1>1, <1>2, AroundOpens DEF PassInv
  <2> QED BY <1>2, <2>1, <2>2, RecordStays
<1>6. s \in PassState(ir) /\ Len(s.open) = Len(a[p]) BY <1>1, <1>2 DEF PassInv
<1> QED BY <1>1, <1>3, <1>4, <1>5, <1>6 DEF PassInv

\* A state of the pass is its five parts.
PassParts(ir, s) ==
  /\ s = [open |-> s.open, endOf |-> s.endOf, elseOf |-> s.elseOf,
          handlers |-> s.handlers, delegate |-> s.delegate]
  /\ s.open \in Seq(OpensOf(ir)) /\ s.endOf \in [1..Len(ir) -> Nat]
  /\ s.elseOf \in [1..Len(ir) -> Nat]
  /\ s.handlers \in [1..Len(ir) -> Seq(HandlersOf(ir))]
  /\ s.delegate \in [1..Len(ir) -> LabelsOf(ir)]
LEMMA PassStateParts == ASSUME NEW ir, NEW s PROVE s \in PassState(ir) <=> PassParts(ir, s)
<1>1. PICK O, H, L, n : O = Seq(OpensOf(ir)) /\ H = Seq(HandlersOf(ir)) /\ L = LabelsOf(ir)
                        /\ n = 1..Len(ir)
  OBVIOUS
<1>2. s \in [open : O, endOf : [n -> Nat], elseOf : [n -> Nat], handlers : [n -> H],
             delegate : [n -> L]]
      <=> /\ s = [open |-> s.open, endOf |-> s.endOf, elseOf |-> s.elseOf,
                  handlers |-> s.handlers, delegate |-> s.delegate]
          /\ s.open \in O /\ s.endOf \in [n -> Nat] /\ s.elseOf \in [n -> Nat]
          /\ s.handlers \in [n -> H] /\ s.delegate \in [n -> L]
  OBVIOUS
<1> QED BY <1>1, <1>2 DEF PassState, PassParts

\* An opener goes on the stack.
LEMMA PassOpens ==
  ASSUME NEW ir, Len(ir) \in Nat, NEW t, t = Text(ir), WellBracketed(t), NEW p \in 1..(Len(ir) - 1),
         NEW s, PassInv(ir, t, s, p - 1), ir[p].op \in Openers, NEW s2, s2 = Opened(s, p)
  PROVE  PassInv(ir, t, s2, p)
<1>1. PICK a : a = t.around OBVIOUS
<1>2. p \in 1..Len(ir) /\ (p - 1) + 1 = p OBVIOUS
<1>3. a[p + 1] = Append(a[p], p) /\ a[p] \in Seq(Nat)
  <2>1. PICK h, c : h = Heights(ir) /\ c = t.closer OBVIOUS
  <2>2. Nested(ir, h, c) /\ a = AroundOf(ir, c) BY <1>1, <2>1, BracketsMatch
  <2>3. Levels(h, c, a[p], h[p - 1], p) BY <1>2, <2>1, <2>2, AroundIs
  <2> QED BY SMTT(30), <2>1, <2>2, <2>3, AroundSteps DEF Levels
<1>4. PassParts(ir, s) BY PassStateParts DEF PassInv
<1>5. PICK v : v = [at |-> p, handlers |-> <<>>, catches |-> {}] OBVIOUS
<1>6. /\ s2 = [open |-> Append(s.open, v), endOf |-> s.endOf, elseOf |-> s.elseOf,
               handlers |-> s.handlers, delegate |-> s.delegate]
      /\ s2.open = Append(s.open, v) /\ s2.endOf = s.endOf /\ s2.elseOf = s.elseOf
      /\ s2.handlers = s.handlers /\ s2.delegate = s.delegate
  BY <1>4, <1>5 DEF Opened, PassParts
<1>7. ir[p].op # "else" /\ ir[p].op \notin Closers /\ ir[p].op \notin Catches
  BY DEF Openers, Closers, Catches
<1>8. v \in OpensOf(ir)
  <2>1. <<>> \in Seq(HandlersOf(ir)) OBVIOUS
  <2>2. p \in Nat OBVIOUS
  <2> HIDE DEF HandlersOf
  <2> QED BY <1>5, <2>1, <2>2 DEF OpensOf
<1>9. PICK o, b, O : o = s.open /\ b = a[p] /\ O = OpensOf(ir) OBVIOUS
<1>10. o \in Seq(O) /\ Len(o) = Len(b) /\ b \in Seq(Nat) /\ v \in O
  BY <1>1, <1>2, <1>3, <1>4, <1>8, <1>9 DEF PassInv, PassParts
<1>11. /\ Append(o, v) \in Seq(O) /\ Len(Append(o, v)) = Len(o) + 1 /\ Len(Append(b, p)) = Len(o) + 1
       /\ \A q \in 1..Len(o) : Append(o, v)[q] = o[q] /\ Append(b, p)[q] = b[q]
       /\ Append(o, v)[Len(o) + 1] = v /\ Append(b, p)[Len(o) + 1] = p /\ Len(o) \in Nat
  BY <1>10
<1>12. s2 \in PassState(ir)
  <2>1. PassParts(ir, s2) BY <1>4, <1>6, <1>9, <1>11 DEF PassParts
  <2> QED BY <2>1, PassStateParts
<1>13. ASSUME NEW k \in 1..Len(ir), ir[k].op \in Openers PROVE Tabled(ir, t, s2, k, p)
  <2>1. Tabled(ir, t, s, k, p - 1) BY <1>13 DEF PassInv
  <2>2. ElseIs(t, s2.elseOf[k], k, p) BY <1>2, <1>6, <1>7, <1>13, <2>1, RecordStays DEF Tabled
  <2>3. t.closer[k] > p - 1 <=> t.closer[k] > p BY <1>2, <1>7, <1>13, RecordStays
  <2>4. t.closer[k] \in Nat BY <1>13, InsideRange
  <2> QED BY <1>6, <2>1, <2>2, <2>3, <2>4 DEF Tabled, Done
<1>14. Entry(ir, t, v, p, p)
  <2>1. \A x \in CatchesOf(t, p) : x \in Inside(t, p) BY DEF CatchesOf
  <2>2. \A x \in CatchesOf(t, p) : x > p BY <1>2, <2>1, InsideRange
  <2>3. {x \in CatchesOf(t, p) : x <= p} = {}
    <3>1. \A x \in CatchesOf(t, p) : x \in Nat BY <1>2, <2>1, InsideRange
    <3> QED BY <2>2, <3>1
  <2> QED BY <1>5, <2>3, HandlersNone DEF Entry
<1>15. ASSUME NEW q \in 1..(Len(o) + 1) PROVE Entry(ir, t, Append(o, v)[q], Append(b, p)[q], p)
  <2>1. CASE q = Len(o) + 1 BY <1>11, <1>14, <2>1
  <2>2. CASE q # Len(o) + 1
    <3>1. q \in 1..Len(o) BY <1>11, <2>2
    <3>2. Entry(ir, t, o[q], b[q], p - 1) BY <1>1, <1>2, <1>9, <3>1 DEF PassInv
    <3>3. b[q] \in 1..Len(ir) /\ ir[b[q]].op \in Openers
      BY <1>1, <1>2, <1>9, <1>10, <3>1, AroundOpens
    <3>4. Entry(ir, t, o[q], b[q], p) BY <1>2, <1>7, <3>2, <3>3, RecordStays
    <3> QED BY <1>11, <3>1, <3>4
  <2> QED BY <2>1, <2>2
<1>16. s2.open = Append(o, v) /\ a[p + 1] = Append(b, p) BY <1>3, <1>6, <1>9
<1>17. Len(s2.open) = Len(a[p + 1]) /\ Len(s2.open) = Len(o) + 1 BY <1>11, <1>16
<1>18. \A q \in 1..Len(s2.open) : Entry(ir, t, s2.open[q], a[p + 1][q], p)
  BY <1>15, <1>16, <1>17
<1> QED BY <1>1, <1>12, <1>13, <1>17, <1>18 DEF PassInv

\* What is recorded of a construct is not touched by an else or a handler of another.
LEMMA OthersStay ==
  ASSUME NEW ir, Len(ir) \in Nat, NEW t, t = Text(ir), WellBracketed(t), NEW p \in 1..Len(ir),
         NEW k \in 1..Len(ir), ir[k].op \in Openers
  PROVE  /\ p \notin ElsesOf(t, k) => \A e : ElseIs(t, e, k, p - 1) => ElseIs(t, e, k, p)
         /\ p \notin CatchesOf(t, k) => \A o : Entry(ir, t, o, k, p - 1) => Entry(ir, t, o, k, p)
<1>1. /\ \A x \in ElsesOf(t, k) : x \in Nat
      /\ \A x \in CatchesOf(t, k) : x \in Nat
  BY InsideRange
<1>2. ASSUME p \notin ElsesOf(t, k), NEW e, ElseIs(t, e, k, p - 1) PROVE ElseIs(t, e, k, p)
  <2>2. \A x \in Nat : x # p /\ x > p - 1 => x > p OBVIOUS
  <2>3. \A x \in Nat : x <= p - 1 => x <= p OBVIOUS
  <2>4. CASE e \in ElsesOf(t, k) /\ e <= p - 1 BY <1>1, <2>3, <2>4 DEF ElseIs
  <2>5. CASE e = NoElse /\ \A x \in ElsesOf(t, k) : x > p - 1
    <3>1. \A x \in ElsesOf(t, k) : x > p BY <1>1, <1>2, <2>2, <2>5
    <3> QED BY <2>5, <3>1 DEF ElseIs
  <2> QED BY <1>2, <2>4, <2>5 DEF ElseIs
<1>3. ASSUME p \notin CatchesOf(t, k), NEW o, Entry(ir, t, o, k, p - 1) PROVE Entry(ir, t, o, k, p)
  <2>1. \A x \in CatchesOf(t, k) : x \in Nat /\ x # p BY <1>1, <1>3
  <2>2. \A x \in CatchesOf(t, k) : x <= p - 1 <=> x <= p BY <2>1
  <2>3. {x \in CatchesOf(t, k) : x <= p - 1} = {x \in CatchesOf(t, k) : x <= p} BY <2>2
  <2> QED BY <1>3, <2>3 DEF Entry
<1> QED BY <1>2, <1>3

\* An else is recorded for the construct it is in.
LEMMA PassElse ==
  ASSUME NEW ir, Len(ir) \in Nat, NEW t, t = Text(ir), WellBracketed(t), NEW p \in 1..(Len(ir) - 1),
         NEW s, PassInv(ir, t, s, p - 1), ir[p].op = "else", NEW s2, s2 = Else(s, p)
  PROVE  PassInv(ir, t, s2, p)
<1>1. PICK a : a = t.around OBVIOUS
<1>2. p \in 1..Len(ir) /\ (p - 1) + 1 = p OBVIOUS
<1>3. ir[p].op \notin Openers \cup Closers \cup Catches BY DEF Openers, Closers, Catches
<1>4. a[p + 1] = a[p]
  <2>1. PICK h : h = Heights(ir) OBVIOUS
  <2>2. Nested(ir, h, t.closer) /\ a = AroundOf(ir, t.closer) BY <1>1, <2>1, BracketsMatch
  <2> QED BY <1>3, <2>1, <2>2, AroundSteps
<1>5. PICK k \in 1..(p - 1) : /\ Innermost(a[p], k) /\ ir[k].op \in Openers /\ p \in Inside(t, k)
                              /\ ElsesOf(t, k) = {p}
  <2>1. ir[p].op \in {"else"} \cup Catches OBVIOUS
  <2>2. PICK k \in 1..(p - 1) :
          /\ Innermost(t.around[p], k) /\ ir[k].op \in Openers /\ p \in Inside(t, k)
          /\ ir[p].op = "else" => ElsesOf(t, k) = {p}
          /\ ir[p].op \in Catches => p \in CatchesOf(t, k)
    BY <1>2, <2>1, TheInnermost
  <2> QED BY <1>1, <2>2
<1>6. k \in 1..Len(ir) BY <1>5
<1>7. PassParts(ir, s) BY PassStateParts DEF PassInv
<1>8. s.open[Len(s.open)].at = k
  <2>1. Entry(ir, t, s.open[Len(s.open)], k, p - 1) BY <1>1, <1>2, <1>5, TopEntry
  <2> QED BY <2>1 DEF Entry
<1>9. PICK e : e = [s.elseOf EXCEPT ![k] = p] OBVIOUS
<1>10. /\ s2 = [open |-> s.open, endOf |-> s.endOf, elseOf |-> e,
                handlers |-> s.handlers, delegate |-> s.delegate]
       /\ s2.open = s.open /\ s2.endOf = s.endOf /\ s2.elseOf = e
       /\ s2.handlers = s.handlers /\ s2.delegate = s.delegate
  BY <1>7, <1>8, <1>9 DEF Else, Last, PassParts
<1>11. /\ e \in [1..Len(ir) -> Nat] /\ e[k] = p
       /\ \A j \in 1..Len(ir) : j # k => e[j] = s.elseOf[j]
  BY <1>2, <1>6, <1>7, <1>9 DEF PassParts
<1>12. s2 \in PassState(ir)
  <2>1. PassParts(ir, s2) BY <1>7, <1>10, <1>11 DEF PassParts
  <2> QED BY <2>1, PassStateParts
<1>13. ASSUME NEW j \in 1..Len(ir), ir[j].op \in Openers PROVE Tabled(ir, t, s2, j, p)
  <2>1. Tabled(ir, t, s, j, p - 1) BY <1>13 DEF PassInv
  <2>2. ElseIs(t, s2.elseOf[j], j, p)
    <3>1. CASE j = k
      <4>1. p \in ElsesOf(t, k) /\ p <= p BY <1>5
      <4> QED BY <1>10, <1>11, <3>1, <4>1 DEF ElseIs
    <3>2. CASE j # k
      <4>1. p \notin ElsesOf(t, j)
        <5> SUFFICES ASSUME p \in ElsesOf(t, j) PROVE FALSE OBVIOUS
        <5>1. p \in Inside(t, j) BY <1>13, InsideRange
        <5> QED BY <1>5, <1>6, <1>13, <3>2, <5>1, OneInside
      <4>2. ElseIs(t, s.elseOf[j], j, p) BY <1>2, <1>13, <2>1, <4>1, OthersStay DEF Tabled
      <4> QED BY <1>10, <1>11, <1>13, <3>2, <4>2
    <3> QED BY <3>1, <3>2
  <2>3. t.closer[j] > p - 1 <=> t.closer[j] > p BY <1>2, <1>3, <1>13, RecordStays
  <2>4. t.closer[j] \in Nat BY <1>13, InsideRange
  <2> QED BY <1>10, <2>1, <2>2, <2>3, <2>4 DEF Tabled, Done
<1>14. ASSUME NEW q \in 1..Len(s.open) PROVE Entry(ir, t, s.open[q], a[p][q], p)
  <2>1. Entry(ir, t, s.open[q], a[p][q], p - 1) BY <1>1, <1>2 DEF PassInv
  <2>2. a[p][q] \in 1..Len(ir) /\ ir[a[p][q]].op \in Openers
    BY <1>1, <1>2, AroundOpens DEF PassInv
  <2> QED BY <1>2, <1>3, <2>1, <2>2, RecordStays
<1>15. Len(s.open) = Len(a[p]) BY <1>1, <1>2 DEF PassInv
<1> QED BY <1>1, <1>4, <1>10, <1>12, <1>13, <1>14, <1>15 DEF PassInv

\* A handler is recorded with the construct it is in.
LEMMA PassCatch ==
  ASSUME NEW ir, Len(ir) \in Nat, NEW t, t = Text(ir), WellBracketed(t), NEW p \in 1..(Len(ir) - 1),
         NEW s, PassInv(ir, t, s, p - 1), ir[p].op \in Catches, NEW s2, s2 = Caught(s, p, ir[p])
  PROVE  PassInv(ir, t, s2, p)
<1>1. PICK a : a = t.around OBVIOUS
<1>2. p \in 1..Len(ir) /\ (p - 1) + 1 = p OBVIOUS
<1>3. ir[p].op \notin Openers \cup Closers \cup {"else"} BY DEF Openers, Closers, Catches
<1>4. a[p + 1] = a[p]
  <2>1. PICK h : h = Heights(ir) OBVIOUS
  <2>2. Nested(ir, h, t.closer) /\ a = AroundOf(ir, t.closer) BY <1>1, <2>1, BracketsMatch
  <2> QED BY <1>3, <2>1, <2>2, AroundSteps
<1>5. PICK k \in 1..(p - 1) : /\ Innermost(a[p], k) /\ ir[k].op \in Openers /\ p \in Inside(t, k)
                              /\ p \in CatchesOf(t, k)
  BY <1>1, <1>2, TheInnermost
<1>6. k \in 1..Len(ir) BY <1>5
<1>7. PassParts(ir, s) BY PassStateParts DEF PassInv
<1>8. PICK o, m, O, v : o = s.open /\ m = Len(s.open) /\ O = OpensOf(ir) /\ v = o[m] OBVIOUS
<1>9. m \in 1..m /\ Entry(ir, t, v, k, p - 1) /\ v \in O
  BY <1>1, <1>2, <1>5, <1>8, TopEntry
<1>10. PICK C : C = {x \in CatchesOf(t, k) : x <= p - 1} OBVIOUS
<1>11. v.at = k /\ v.catches = C /\ HandlersAre(ir, v.handlers, C) BY <1>9, <1>10 DEF Entry
<1>12. \A x \in CatchesOf(t, k) : x \in Nat /\ x >= 1 BY <1>6, <1>5, InsideRange
<1>13. C \in SUBSET (1..(p - 1))
  <2>1. \A x \in C : x \in 1..(p - 1) BY <1>10, <1>12
  <2> QED BY <2>1
<1>14. {x \in CatchesOf(t, k) : x <= p} = C \cup {p}
  <2>1. \A x \in Nat : x <= p <=> x <= p - 1 \/ x = p OBVIOUS
  <2> QED BY <1>5, <1>10, <1>12, <2>1
<1>15. PICK g : g = Append(v.handlers, HandlerAt(ir, p)) OBVIOUS
<1>16. HandlersAre(ir, g, C \cup {p}) BY <1>2, <1>11, <1>13, <1>15, HandlersMore
<1>17. PICK w : w = [at |-> k, handlers |-> g, catches |-> C \cup {p}] OBVIOUS
<1>18. Entry(ir, t, w, k, p) BY <1>14, <1>16, <1>17 DEF Entry
<1>19. w \in O
  <2>1. g \in Seq(HandlersOf(ir)) BY <1>16 DEF HandlersAre
  <2>2. C \cup {p} \in SUBSET Nat /\ k \in Nat BY <1>6, <1>13
  <2> QED BY <1>8, <1>17, <2>1, <2>2 DEF OpensOf
<1>21. PICK n : n = [o EXCEPT ![m] = w] OBVIOUS
<1>22. o \in Seq(O) BY <1>7, <1>8 DEF PassParts
<1>23. /\ n \in Seq(O) /\ Len(n) = m /\ n[m] = w /\ \A q \in 1..m : q # m => n[q] = o[q]
  BY <1>8, <1>9, <1>19, <1>21, <1>22
<1>24. /\ s2 = [open |-> n, endOf |-> s.endOf, elseOf |-> s.elseOf,
                handlers |-> s.handlers, delegate |-> s.delegate]
       /\ s2.open = n /\ s2.endOf = s.endOf /\ s2.elseOf = s.elseOf
       /\ s2.handlers = s.handlers /\ s2.delegate = s.delegate
  <2>1. Last(s.open) = v BY <1>8 DEF Last
  <2>2. PICK y : y = HandlerAt(ir, p) OBVIOUS
  <2>3. s2 = [s EXCEPT !.open[m] = [at |-> v.at, handlers |-> Append(v.handlers, y),
                                    catches |-> v.catches \cup {p}]]
    BY <1>8, <2>1, <2>2 DEF Caught, HandlerAt
  <2>4. s2 = [s EXCEPT !.open[m] = w] BY <1>11, <1>15, <1>17, <2>2, <2>3
  <2>5. s2 = [s EXCEPT !.open = n] BY <1>8, <1>21, <2>4
  <2> QED BY <1>7, <2>5 DEF PassParts
<1>25. s2 \in PassState(ir)
  <2>1. PassParts(ir, s2) BY <1>7, <1>8, <1>23, <1>24 DEF PassParts
  <2> QED BY <2>1, PassStateParts
<1>26. ASSUME NEW j \in 1..Len(ir), ir[j].op \in Openers PROVE Tabled(ir, t, s2, j, p)
  <2>1. Tabled(ir, t, s, j, p - 1) BY <1>26 DEF PassInv
  <2>2. ElseIs(t, s2.elseOf[j], j, p) BY <1>2, <1>3, <1>24, <1>26, <2>1, RecordStays DEF Tabled
  <2>3. t.closer[j] > p - 1 <=> t.closer[j] > p BY <1>2, <1>3, <1>26, RecordStays
  <2>4. t.closer[j] \in Nat BY <1>26, InsideRange
  <2> QED BY <1>24, <2>1, <2>2, <2>3, <2>4 DEF Tabled, Done
<1>27. Len(o) = Len(a[p]) BY <1>1, <1>2, <1>8 DEF PassInv
<1>28. ASSUME NEW q \in 1..m PROVE Entry(ir, t, n[q], a[p][q], p)
  <2>1. a[p][q] \in 1..Len(ir) /\ ir[a[p][q]].op \in Openers
    BY <1>1, <1>2, <1>8, <1>27, AroundOpens
  <2>2. CASE q = m
    <3>1. a[p][m] = k BY <1>5, <1>8, <1>27 DEF Innermost
    <3> QED BY <1>18, <1>23, <2>2, <3>1
  <2>3. CASE q # m
    <3>1. Entry(ir, t, o[q], a[p][q], p - 1) BY <1>1, <1>2, <1>8 DEF PassInv
    <3>2. a[p][q] # k
      <4>1. PICK h, c : h = Heights(ir) /\ c = t.closer OBVIOUS
      <4>2. Nested(ir, h, c) /\ a = AroundOf(ir, c) BY <1>1, <4>1, BracketsMatch
      <4>3. Levels(h, c, a[p], h[p - 1], p) BY <1>2, <4>1, <4>2, AroundIs
      <4>4. h[a[p][q]] = q /\ h[a[p][m]] = m BY <1>8, <1>9, <1>27, <4>3 DEF Levels
      <4>5. a[p][m] = k BY <1>5, <1>8, <1>27 DEF Innermost
      <4> QED BY <2>3, <4>4, <4>5
    <3>3. p \notin CatchesOf(t, a[p][q])
      <4> SUFFICES ASSUME p \in CatchesOf(t, a[p][q]) PROVE FALSE OBVIOUS
      <4>1. p \in Inside(t, a[p][q]) BY <2>1, InsideRange
      <4> QED BY <1>5, <1>6, <2>1, <3>2, <4>1, OneInside
    <3>4. Entry(ir, t, o[q], a[p][q], p) BY <1>2, <2>1, <3>1, <3>3, OthersStay
    <3> QED BY <1>23, <2>3, <3>4
  <2> QED BY <2>2, <2>3
<1> QED BY <1>1, <1>4, <1>8, <1>23, <1>24, <1>25, <1>26, <1>27, <1>28 DEF PassInv

\* Two constructs do not share a closer.
LEMMA OneCloser ==
  ASSUME NEW ir, Len(ir) \in Nat, NEW t, t = Text(ir), WellBracketed(t),
         NEW i \in 1..Len(ir), NEW k \in 1..Len(ir), ir[i].op \in Openers, ir[k].op \in Openers,
         t.closer[i] = t.closer[k]
  PROVE  i = k
<1>1. PICK h, c : h = Heights(ir) /\ c = t.closer OBVIOUS
<1>2. Nested(ir, h, c) BY <1>1, BracketsMatch
<1>3. Matches(ir, h, c, i) /\ Matches(ir, h, c, k) BY <1>2 DEF Nested
<1>4. PICK p : p = c[i] OBVIOUS
<1>5. /\ p \in (i + 1)..(Len(ir) - 1) /\ p \in (k + 1)..(Len(ir) - 1) /\ c[i] >= p /\ c[k] >= p
      /\ h[p] = h[i] - 1 /\ h[p] = h[k] - 1
  BY <1>1, <1>3, <1>4 DEF Matches
<1>6. p \in 1..Len(ir) /\ i \in 1..(p - 1) /\ k \in 1..(p - 1) BY <1>5
<1>7. h[i] \in 1..h[p - 1] /\ h[k] \in 1..h[p - 1] /\ h[p - 1] \in Nat
  BY <1>2, <1>5, <1>6, SurroundingLevel
<1>8. h[i] = h[k] BY <1>5, <1>7
<1> QED BY <1>2, <1>5, <1>6, <1>8, OnePerLevel

\* What a closer leaves alone of a construct that it does not close.
Untouched(t, s, s2, k) ==
  /\ s2.elseOf[k] = s.elseOf[k] /\ s2.handlers[k] = s.handlers[k]
  /\ s2.delegate[k] = s.delegate[k]
  /\ \A x \in {k} \cup ElsesOf(t, k) \cup CatchesOf(t, k) : s2.endOf[x] = s.endOf[x]

\* A closer takes its construct off the stack.
LEMMA PassCloses ==
  ASSUME NEW ir, Len(ir) \in Nat, NEW t, t = Text(ir), WellBracketed(t), NEW p \in 1..(Len(ir) - 1),
         NEW s, PassInv(ir, t, s, p - 1), ir[p].op \in Closers, NEW k \in 1..Len(ir),
         ir[k].op \in Openers, t.closer[k] = p,
         NEW s2 \in PassState(ir), s2.open = Front(s.open), Done(ir, t, s2, k),
         s2.elseOf[k] = s.elseOf[k],
         \A j \in 1..Len(ir) : j # k /\ ir[j].op \in Openers => Untouched(t, s, s2, j)
  PROVE  PassInv(ir, t, s2, p)
<1>1. PICK a : a = t.around OBVIOUS
<1>2. p \in 1..Len(ir) /\ (p - 1) + 1 = p OBVIOUS
<1>3. ir[p].op \notin Openers \cup Catches \cup {"else"} BY DEF Openers, Closers, Catches
<1>4. a[p + 1] = Front(a[p]) /\ a[p] \in Seq(Nat) /\ Len(a[p]) > 0
  <2>1. PICK h, c : h = Heights(ir) /\ c = t.closer OBVIOUS
  <2>2. Nested(ir, h, c) /\ a = AroundOf(ir, c) BY <1>1, <2>1, BracketsMatch
  <2>3. Levels(h, c, a[p], h[p - 1], p) BY <1>2, <2>1, <2>2, AroundIs
  <2>4. a[p] \in Seq(Nat) BY <2>3 DEF Levels
  <2> QED BY <2>1, <2>2, <2>4, AroundSteps
<1>5. ASSUME NEW j \in 1..Len(ir), ir[j].op \in Openers PROVE Tabled(ir, t, s2, j, p)
  <2>1. Tabled(ir, t, s, j, p - 1) BY <1>5 DEF PassInv
  <2>2. ElseIs(t, s.elseOf[j], j, p) BY <1>2, <1>3, <1>5, <2>1, RecordStays DEF Tabled
  <2>3. t.closer[j] \in Nat BY <1>5, InsideRange
  <2>4. CASE j = k
    <3>1. ~(t.closer[k] > p) OBVIOUS
    <3> QED BY <2>2, <2>4, <3>1 DEF Tabled
  <2>5. CASE j # k
    <3>1. t.closer[j] # p BY <1>5, <2>5, OneCloser
    <3>2. t.closer[j] > p - 1 <=> t.closer[j] > p BY <2>3, <3>1
    <3>3. Untouched(t, s, s2, j) BY <1>5, <2>5
    <3>4. Done(ir, t, s, j) => Done(ir, t, s2, j) BY <3>3 DEF Done, Untouched
    <3> QED BY <2>1, <2>2, <2>3, <3>2, <3>3, <3>4 DEF Tabled, Untouched
  <2> QED BY <2>4, <2>5
<1>6. PICK o, b, O : o = s.open /\ b = a[p] /\ O = OpensOf(ir) OBVIOUS
<1>7. o \in Seq(O) BY <1>6, PassStateParts DEF PassInv, PassParts
<1>8. Len(o) = Len(b) /\ b \in Seq(Nat) /\ Len(b) > 0 BY <1>1, <1>2, <1>4, <1>6 DEF PassInv
<1>9. /\ Len(Front(o)) = Len(o) - 1 /\ Len(Front(b)) = Len(o) - 1 /\ Len(o) \in Nat
      /\ \A q \in 1..(Len(o) - 1) : Front(o)[q] = o[q] /\ Front(b)[q] = b[q]
  BY <1>7, <1>8 DEF Front
<1>10. ASSUME NEW q \in 1..(Len(o) - 1) PROVE Entry(ir, t, Front(o)[q], Front(b)[q], p)
  <2>1. q \in 1..Len(o) BY <1>9
  <2>2. Entry(ir, t, o[q], b[q], p - 1) BY <1>1, <1>2, <1>6, <2>1 DEF PassInv
  <2>3. b[q] \in 1..Len(ir) /\ ir[b[q]].op \in Openers
    BY <1>1, <1>2, <1>6, <1>8, <2>1, AroundOpens
  <2>4. Entry(ir, t, o[q], b[q], p) BY <1>2, <1>3, <2>2, <2>3, RecordStays
  <2> QED BY <1>9, <2>4
<1>11. s2.open = Front(o) /\ a[p + 1] = Front(b) BY <1>4, <1>6
<1>12. Len(s2.open) = Len(a[p + 1]) /\ Len(s2.open) = Len(o) - 1 BY <1>9, <1>11
<1>13. \A q \in 1..Len(s2.open) : Entry(ir, t, s2.open[q], a[p + 1][q], p)
  BY <1>10, <1>11, <1>12
<1> QED BY <1>1, <1>5, <1>12, <1>13 DEF PassInv

\* A closer closes the innermost construct.
LEMMA ClosesInnermost ==
  ASSUME NEW ir, Len(ir) \in Nat, NEW t, t = Text(ir), WellBracketed(t), NEW p \in 1..(Len(ir) - 1),
         ir[p].op \in Closers
  PROVE  \E k \in 1..(p - 1) : /\ Innermost(t.around[p], k) /\ ir[k].op \in Openers
                               /\ t.closer[k] = p /\ k \in 1..Len(ir)
<1>1. PICK h, a, c : h = Heights(ir) /\ a = t.around /\ c = t.closer OBVIOUS
<1>2. Nested(ir, h, c) /\ a = AroundOf(ir, c) BY <1>1, BracketsMatch
<1>3. Len(a[p]) > 0 /\ c[a[p][Len(a[p])]] = p BY <1>1, <1>2, AroundSteps
<1>4. p \in 1..Len(ir) OBVIOUS
<1>5. Levels(h, c, a[p], h[p - 1], p) BY <1>1, <1>2, <1>4, AroundIs
<1>6. Len(a[p]) \in 1..Len(a[p]) BY <1>3, <1>5 DEF Levels
<1>7. PICK k : k = a[p][Len(a[p])] OBVIOUS
<1>8. k \in 1..(p - 1) /\ k \in 1..Len(ir) /\ ir[k].op \in Openers
  BY <1>1, <1>4, <1>6, <1>7, AroundOpens
<1>9. Innermost(a[p], k) BY <1>3, <1>7 DEF Innermost
<1> QED BY <1>1, <1>3, <1>7, <1>8, <1>9

\* The brackets, the else and the handlers of two constructs are different positions.
Marks(t, k) == {k} \cup ElsesOf(t, k) \cup CatchesOf(t, k)
LEMMA MarksApart ==
  ASSUME NEW ir, Len(ir) \in Nat, NEW t, t = Text(ir), WellBracketed(t),
         NEW i \in 1..Len(ir), NEW k \in 1..Len(ir), ir[i].op \in Openers, ir[k].op \in Openers,
         i # k, NEW x \in Marks(t, i), x \in Marks(t, k)
  PROVE  FALSE
<1>1. ASSUME NEW j \in 1..Len(ir), ir[j].op \in Openers, x \in Marks(t, j)
      PROVE  \/ x = j
             \/ x \in Inside(t, j) /\ ir[x].op \notin Openers
  <2>1. /\ ElsesOf(t, j) = {p \in Inside(t, j) : ir[p].op = "else"}
        /\ CatchesOf(t, j) = {p \in Inside(t, j) : ir[p].op \in Catches}
    BY <1>1, InsideRange
  <2>2. "else" \notin Openers /\ \A z \in Catches : z \notin Openers BY DEF Openers, Catches
  <2> QED BY <1>1, <2>1, <2>2 DEF Marks
<1>2. x = i \/ (x \in Inside(t, i) /\ ir[x].op \notin Openers) BY <1>1
<1>3. x = k \/ (x \in Inside(t, k) /\ ir[x].op \notin Openers) BY <1>1
<1> QED BY <1>2, <1>3, OneInside

\* A construct's marks are positions of the body.
LEMMA MarksRange ==
  ASSUME NEW ir, Len(ir) \in Nat, NEW t, t = Text(ir), WellBracketed(t),
         NEW k \in 1..Len(ir), ir[k].op \in Openers
  PROVE  \A x \in Marks(t, k) : x \in 1..(Len(ir) - 1) /\ x \in k..t.closer[k] /\ x < t.closer[k]
<1>1. t.closer[k] \in (k + 1)..(Len(ir) - 1) BY InsideRange
<1>2. ASSUME NEW x \in Marks(t, k) PROVE x \in k..(t.closer[k] - 1)
  <2>1. CASE x = k BY <1>1, <2>1
  <2>2. CASE x # k
    <3>1. x \in Inside(t, k) BY <1>2, <2>2, InsideRange DEF Marks
    <3>2. x \in (k + 1)..(Len(ir) - 1) /\ x < t.closer[k] BY <3>1, InsideRange
    <3> QED BY <1>1, <3>2
  <2> QED BY <2>1, <2>2
<1> QED BY <1>1, <1>2

\* A delegate closes its try, which has no handlers.
LEMMA PassDelegate ==
  ASSUME NEW ir, Len(ir) \in Nat, NEW t, t = Text(ir), WellBracketed(t), NEW p \in 1..(Len(ir) - 1),
         NEW s, PassInv(ir, t, s, p - 1), ir[p].op = "delegate", NEW s2, s2 = Delegated(s, p, ir[p])
  PROVE  PassInv(ir, t, s2, p)
<1>1. ir[p].op \in Closers /\ p \in 1..Len(ir) /\ p \in Nat BY DEF Closers
<1>2. PICK k \in 1..(p - 1) : /\ Innermost(t.around[p], k) /\ ir[k].op \in Openers
                              /\ t.closer[k] = p /\ k \in 1..Len(ir)
  BY <1>1, ClosesInnermost
<1>3. ir[k].op = "try" /\ CatchesOf(t, k) = {}
  <2>1. t.ir = ir BY BracketsMatch
  <2>2. DelegateSited(ir, t, p) BY <1>1, <2>1, Sited
  <2>3. PICK i \in 1..(p - 1) : ir[i].op = "try" /\ t.closer[i] = p /\ CatchesOf(t, i) = {}
    BY <2>2, Zenon DEF DelegateSited
  <2>4. i \in 1..Len(ir) /\ ir[i].op \in Openers BY <2>3 DEF Openers
  <2>5. i = k BY <1>2, <2>3, <2>4, OneCloser
  <2> QED BY <2>3, <2>5
<1>4. ElsesOf(t, k) = {} BY <1>2, <1>3, WhereTheyAre
<1>5. PassParts(ir, s) BY PassStateParts DEF PassInv
<1>6. s.open[Len(s.open)].at = k /\ s.open # <<>>
  <2>1. Entry(ir, t, s.open[Len(s.open)], k, p - 1) /\ s.open # <<>> BY <1>1, <1>2, TopEntry
  <2> QED BY <2>1 DEF Entry
<1>7. PICK e, d : e = [s.endOf EXCEPT ![k] = p] /\ d = [s.delegate EXCEPT ![k] = ir[p].label]
  OBVIOUS
<1>8. /\ s2 = [open |-> Front(s.open), endOf |-> e, elseOf |-> s.elseOf,
               handlers |-> s.handlers, delegate |-> d]
      /\ s2.open = Front(s.open) /\ s2.endOf = e /\ s2.elseOf = s.elseOf
      /\ s2.handlers = s.handlers /\ s2.delegate = d
  BY <1>5, <1>6, <1>7 DEF Delegated, Last, PassParts
<1>9. /\ e \in [1..Len(ir) -> Nat] /\ e[k] = p
      /\ \A x \in 1..Len(ir) : x # k => e[x] = s.endOf[x]
  BY <1>1, <1>2, <1>5, <1>7 DEF PassParts
<1>10. /\ d \in [1..Len(ir) -> LabelsOf(ir)] /\ d[k] = ir[p].label
       /\ \A x \in 1..Len(ir) : x # k => d[x] = s.delegate[x]
  <2>1. ir[p].label \in LabelsOf(ir) BY <1>1 DEF LabelsOf
  <2> QED BY <1>2, <1>5, <1>7, <2>1 DEF PassParts
<1>11. s2 \in PassState(ir)
  <2>1. PICK O, o : O = OpensOf(ir) /\ o = s.open OBVIOUS
  <2>2. o \in Seq(O) /\ o # <<>> BY <1>5, <1>6, <2>1 DEF PassParts
  <2>3. Front(o) \in Seq(O) BY <2>2 DEF Front
  <2>4. PassParts(ir, s2) BY <1>5, <1>8, <1>9, <1>10, <2>1, <2>3 DEF PassParts
  <2> QED BY <2>4, PassStateParts
<1>12. Done(ir, t, s2, k)
  <2>1. Tabled(ir, t, s, k, p - 1) BY <1>2 DEF PassInv
  <2>2. s.handlers[k] = <<>>
    <3>1. t.closer[k] > p - 1 BY <1>1, <1>2
    <3> QED BY <2>1, <3>1 DEF Tabled
  <2>3. HandlersAre(ir, s2.handlers[k], CatchesOf(t, k)) BY <1>3, <1>8, <2>2, HandlersNone
  <2> QED BY <1>2, <1>3, <1>4, <1>8, <1>9, <1>10, <2>3 DEF Done
<1>13. ASSUME NEW j \in 1..Len(ir), j # k, ir[j].op \in Openers PROVE Untouched(t, s, s2, j)
  <2>1. ASSUME NEW x \in Marks(t, j) PROVE s2.endOf[x] = s.endOf[x]
    <3>1. x \in 1..(Len(ir) - 1) BY <1>13, <2>1, MarksRange
    <3>2. x \in 1..Len(ir) BY <3>1
    <3>3. x # k
      <4>1. k \in Marks(t, k) BY DEF Marks
      <4> QED BY <1>2, <1>13, <2>1, <4>1, MarksApart
    <3> QED BY <1>8, <1>9, <3>2, <3>3
  <2> QED BY <1>8, <1>10, <1>13, <2>1 DEF Untouched, Marks
<1> QED BY <1>1, <1>2, <1>8, <1>11, <1>12, <1>13, PassCloses

\* An end closes its construct, with the else and the handlers in it.
LEMMA PassEnds ==
  ASSUME NEW ir, Len(ir) \in Nat, NEW t, t = Text(ir), WellBracketed(t), NEW p \in 1..(Len(ir) - 1),
         NEW s, PassInv(ir, t, s, p - 1), ir[p].op = "end", NEW s2, s2 = Ended(s, p, ir)
  PROVE  PassInv(ir, t, s2, p)
<1>1. ir[p].op \in Closers /\ p \in 1..Len(ir) /\ p \in Nat BY DEF Closers
<1>2. PICK k \in 1..(p - 1) : /\ Innermost(t.around[p], k) /\ ir[k].op \in Openers
                              /\ t.closer[k] = p /\ k \in 1..Len(ir)
  BY <1>1, ClosesInnermost
<1>3. PassParts(ir, s) BY PassStateParts DEF PassInv
<1>4. PICK o : o = s.open[Len(s.open)] OBVIOUS
<1>5. Entry(ir, t, o, k, p - 1) /\ s.open # <<>> /\ o \in OpensOf(ir) BY <1>1, <1>2, <1>4, TopEntry
<1>6. Tabled(ir, t, s, k, p - 1) BY <1>2 DEF PassInv
<1>7. \A x \in Marks(t, k) : x \in Nat /\ x >= 1 /\ x <= p - 1
  <2> SUFFICES ASSUME NEW x \in Marks(t, k) PROVE x \in Nat /\ x >= 1 /\ x <= p - 1 OBVIOUS
  <2>1. x \in 1..(Len(ir) - 1) /\ x < t.closer[k] BY <1>2, MarksRange
  <2> QED BY <1>1, <1>2, <2>1
<1>8. o.catches = CatchesOf(t, k) /\ HandlersAre(ir, o.handlers, CatchesOf(t, k)) /\ o.at = k
  <2>1. \A x \in CatchesOf(t, k) : x <= p - 1 BY <1>7 DEF Marks
  <2>2. {x \in CatchesOf(t, k) : x <= p - 1} = CatchesOf(t, k) BY <2>1
  <2> QED BY <1>5, <2>2 DEF Entry
<1>9. (IF s.elseOf[k] # NoElse THEN {s.elseOf[k]} ELSE {}) = ElsesOf(t, k)
  <2>1. ElseIs(t, s.elseOf[k], k, p - 1) BY <1>6 DEF Tabled
  <2>2. \A x \in ElsesOf(t, k) : x \in Nat /\ x >= 1 /\ x <= p - 1 BY <1>7 DEF Marks
  <2>3. CASE s.elseOf[k] \in ElsesOf(t, k)
    <3>1. ElsesOf(t, k) = {s.elseOf[k]} BY <1>2, <2>3, WhereTheyAre
    <3>2. s.elseOf[k] # NoElse BY <2>2, <2>3 DEF NoElse
    <3> QED BY <3>1, <3>2
  <2>4. CASE s.elseOf[k] \notin ElsesOf(t, k)
    <3>1. s.elseOf[k] = NoElse /\ \A x \in ElsesOf(t, k) : x > p - 1 BY <2>1, <2>4 DEF ElseIs
    <3>2. ElsesOf(t, k) = {} BY <1>1, <2>2, <3>1
    <3> QED BY <3>1, <3>2
  <2> QED BY <2>3, <2>4
<1>10. (IF ir[k].op = "try" THEN o.catches ELSE {}) = CatchesOf(t, k)
  <2>1. ir[k].op # "try" => CatchesOf(t, k) = {} BY <1>2, WhereTheyAre
  <2> QED BY <1>8, <2>1
<1>11. PICK e, g : /\ e = [x \in DOMAIN s.endOf |-> IF x \in Marks(t, k) THEN p ELSE s.endOf[x]]
                   /\ g = [s.handlers EXCEPT ![k] = IF ir[k].op = "try" THEN o.handlers ELSE <<>>]
  OBVIOUS
<1>12. /\ s2 = [open |-> Front(s.open), endOf |-> e, elseOf |-> s.elseOf,
                handlers |-> g, delegate |-> s.delegate]
       /\ s2.open = Front(s.open) /\ s2.endOf = e /\ s2.elseOf = s.elseOf
       /\ s2.handlers = g /\ s2.delegate = s.delegate
  <2>1. Last(s.open) = o BY <1>4 DEF Last
  <2>2. {o.at} \cup (IF s.elseOf[o.at] # NoElse THEN {s.elseOf[o.at]} ELSE {})
        \cup (IF ir[o.at].op = "try" THEN o.catches ELSE {}) = Marks(t, k)
    BY <1>8, <1>9, <1>10 DEF Marks
  <2>3. s2 = [s EXCEPT !.open = Front(s.open), !.endOf = e, !.handlers = g]
    BY <1>5, <1>8, <1>11, <2>1, <2>2 DEF Ended
  <2> QED BY <1>3, <2>3 DEF PassParts
<1>13. /\ e \in [1..Len(ir) -> Nat] /\ \A x \in Marks(t, k) : e[x] = p
       /\ \A x \in 1..Len(ir) : x \notin Marks(t, k) => e[x] = s.endOf[x]
  <2>1. s.endOf \in [1..Len(ir) -> Nat] BY <1>3 DEF PassParts
  <2>2. \A x \in Marks(t, k) : x \in 1..Len(ir)
    <3> SUFFICES ASSUME NEW x \in Marks(t, k) PROVE x \in 1..Len(ir) OBVIOUS
    <3>1. x \in 1..(Len(ir) - 1) BY <1>2, MarksRange
    <3> QED BY <3>1
  <2> QED BY <1>1, <1>11, <2>1, <2>2
<1>14. /\ g \in [1..Len(ir) -> Seq(HandlersOf(ir))]
       /\ HandlersAre(ir, g[k], CatchesOf(t, k))
       /\ \A x \in 1..Len(ir) : x # k => g[x] = s.handlers[x]
  <2>1. PICK H : H = Seq(HandlersOf(ir)) OBVIOUS
  <2>2. s.handlers \in [1..Len(ir) -> H] BY <1>3, <2>1 DEF PassParts
  <2>3. o.handlers \in H /\ <<>> \in H BY <1>8, <2>1 DEF HandlersAre
  <2>4. /\ g \in [1..Len(ir) -> H] /\ g[k] = IF ir[k].op = "try" THEN o.handlers ELSE <<>>
        /\ \A x \in 1..Len(ir) : x # k => g[x] = s.handlers[x]
    BY <1>2, <1>11, <2>2, <2>3
  <2>5. CASE ir[k].op = "try" BY <1>8, <2>1, <2>4, <2>5
  <2>6. CASE ir[k].op # "try"
    <3>1. CatchesOf(t, k) = {} BY <1>10, <2>6
    <3>2. HandlersAre(ir, <<>>, {}) BY HandlersNone
    <3> QED BY <2>1, <2>4, <2>6, <3>1, <3>2
  <2> QED BY <2>5, <2>6
<1>15. s2 \in PassState(ir)
  <2>1. PICK O, b : O = OpensOf(ir) /\ b = s.open OBVIOUS
  <2>2. b \in Seq(O) /\ b # <<>> BY <1>3, <1>5, <2>1 DEF PassParts
  <2>3. Front(b) \in Seq(O) BY <2>2 DEF Front
  <2>4. PassParts(ir, s2) BY <1>3, <1>12, <1>13, <1>14, <2>1, <2>3 DEF PassParts
  <2> QED BY <2>4, PassStateParts
<1>16. Done(ir, t, s2, k)
  <2>1. s.delegate[k] = NoDelegate
    <3>1. t.closer[k] > p - 1 BY <1>1, <1>2
    <3> QED BY <1>6, <3>1 DEF Tabled
  <2> QED BY <1>2, <1>12, <1>13, <1>14, <2>1 DEF Done, Marks
<1>17. ASSUME NEW j \in 1..Len(ir), j # k, ir[j].op \in Openers PROVE Untouched(t, s, s2, j)
  <2>1. ASSUME NEW x \in Marks(t, j) PROVE s2.endOf[x] = s.endOf[x]
    <3>1. x \in 1..(Len(ir) - 1) BY <1>17, <2>1, MarksRange
    <3>2. x \in 1..Len(ir) BY <3>1
    <3>3. x \notin Marks(t, k) BY <1>2, <1>17, <2>1, MarksApart
    <3> QED BY <1>12, <1>13, <3>2, <3>3
  <2> QED BY <1>12, <1>14, <1>17, <2>1 DEF Untouched, Marks
<1> QED BY <1>1, <1>2, <1>12, <1>15, <1>16, <1>17, PassCloses

\* Before the first position nothing is open and nothing is recorded.
LEMMA PassStarts ==
  ASSUME NEW ir, Len(ir) \in Nat, NEW t, t = Text(ir), WellBracketed(t)
  PROVE  Len(ir) >= 1 /\ PassInv(ir, t, Start0(Len(ir)), 0)
<1>1. PICK h, a, c : h = Heights(ir) /\ a = t.around /\ c = t.closer OBVIOUS
<1>2. Nested(ir, h, c) /\ a = AroundOf(ir, c) BY <1>1, BracketsMatch
<1>3. h[0] = 0 /\ Len(ir) >= 1 BY <1>2 DEF Nested
<1>4. Len(a[1]) = 0
  <2>1. 1 \in 1..Len(ir) /\ 1 - 1 = 0 BY <1>3
  <2>2. Levels(h, c, a[1], h[1 - 1], 1) BY <1>1, <1>2, <2>1, AroundIs
  <2> QED BY <1>3, <2>1, <2>2 DEF Levels
<1>5. PICK s : s = Start0(Len(ir)) OBVIOUS
<1>6. PassParts(ir, s)
  <2>1. <<>> \in Seq(HandlersOf(ir)) /\ <<>> \in Seq(OpensOf(ir)) OBVIOUS
  <2>2. NoDelegate \in LabelsOf(ir) BY DEF LabelsOf
  <2>3. NoElse \in Nat BY DEF NoElse
  <2> HIDE DEF HandlersOf, OpensOf, LabelsOf, NoElse, NoDelegate
  <2> QED BY <1>5, <2>1, <2>2, <2>3 DEF Start0, PassParts
<1>7. s \in PassState(ir) BY <1>6, PassStateParts
<1>8. s.open = <<>> /\ Len(s.open) = 0 BY <1>5 DEF Start0
<1>9. ASSUME NEW k \in 1..Len(ir), ir[k].op \in Openers PROVE Tabled(ir, t, s, k, 0)
  <2>1. s.elseOf[k] = NoElse /\ s.handlers[k] = <<>> /\ s.delegate[k] = NoDelegate
    BY <1>5 DEF Start0
  <2>2. t.closer[k] > 0 /\ ~(t.closer[k] <= 0)
    <3>1. t.closer[k] \in (k + 1)..(Len(ir) - 1) BY <1>9, InsideRange
    <3> QED BY <3>1
  <2>3. \A x \in ElsesOf(t, k) : x > 0
    <3>1. \A x \in ElsesOf(t, k) : x \in Marks(t, k) BY DEF Marks
    <3>2. \A x \in Marks(t, k) : x \in 1..(Len(ir) - 1) BY <1>9, MarksRange
    <3> QED BY <3>1, <3>2
  <2> QED BY <2>1, <2>2, <2>3 DEF Tabled, ElseIs
<1>10. \A q \in 1..Len(s.open) : Entry(ir, t, s.open[q], a[0 + 1][q], 0) BY <1>8
<1>11. Len(s.open) = Len(a[0 + 1]) BY <1>4, <1>8
<1>12. PassInv(ir, t, s, 0) BY <1>1, <1>7, <1>9, <1>10, <1>11 DEF PassInv
<1> QED BY <1>3, <1>5, <1>12

\* Each position of the body keeps what the pass holds in step with the text.
LEMMA PassGoesOn ==
  ASSUME NEW ir, Len(ir) \in Nat, NEW t, t = Text(ir), WellBracketed(t), NEW p \in 1..(Len(ir) - 1),
         NEW s, PassInv(ir, t, s, p - 1)
  PROVE  PassInv(ir, t, Scan(s, p, ir), p)
<1>1. PICK s2 : s2 = Scan(s, p, ir) OBVIOUS
<1>2. /\ "else" \notin Openers \cup Catches /\ "delegate" \notin Openers \cup Catches \cup {"else"}
      /\ "end" \notin Openers \cup Catches \cup {"else", "delegate"}
      /\ \A z \in Catches : z \notin Openers
      /\ Closers = {"end", "delegate"}
  BY DEF Openers, Catches, Closers
<1>3. CASE ir[p].op \in Openers
  <2>1. s2 = Opened(s, p) BY <1>1, <1>3 DEF Scan, Openers, Catches
  <2> QED BY <1>1, <1>3, <2>1, PassOpens
<1>4. CASE ir[p].op = "else"
  <2>1. s2 = Else(s, p) BY <1>1, <1>4 DEF Scan, Openers, Catches
  <2> QED BY <1>1, <1>4, <2>1, PassElse
<1>5. CASE ir[p].op \in Catches
  <2>1. s2 = Caught(s, p, ir[p]) BY <1>1, <1>5 DEF Scan, Openers, Catches
  <2> QED BY <1>1, <1>5, <2>1, PassCatch
<1>6. CASE ir[p].op = "delegate"
  <2>1. s2 = Delegated(s, p, ir[p]) BY <1>1, <1>6 DEF Scan, Openers, Catches
  <2> QED BY <1>1, <1>6, <2>1, PassDelegate
<1>7. CASE ir[p].op = "end"
  <2>1. s2 = Ended(s, p, ir) BY <1>1, <1>7 DEF Scan, Openers, Catches
  <2> QED BY <1>1, <1>7, <2>1, PassEnds
<1>8. CASE ir[p].op \notin Openers \cup Closers \cup Catches \cup {"else"}
  <2>1. s2 = s BY <1>1, <1>2, <1>8 DEF Scan
  <2> QED BY <1>1, <1>8, <2>1, PassOver
<1> QED BY <1>2, <1>3, <1>4, <1>5, <1>6, <1>7, <1>8

\* The tables hold for every opener of a body what its text says.
TablesHold(ir, t, cf) ==
  \A k \in 1..Len(ir) : ir[k].op \in Openers =>
    Done(ir, t, cf, k) /\ ElseIs(t, cf.elseOf[k], k, Len(ir))
LEMMA PrecomputeHolds ==
  ASSUME NEW ir, Len(ir) \in Nat, NEW t, t = Text(ir), WellBracketed(t)
  PROVE  TablesHold(ir, t, Precompute(ir))
<1>1. PICK g : g = Pass(ir) OBVIOUS
<1>2. PICK n : n = Len(ir) OBVIOUS
<1>3. n \in Nat /\ n >= 1 BY <1>2, PassStarts
<1>4. g[0] = Start0(n) /\ \A i \in 1..n : g[i] = Scan(g[i - 1], i, ir) BY <1>1, <1>2, PassSteps
<1> DEFINE S == {i \in Nat : i <= n - 1 => PassInv(ir, t, g[i], i)}
<1>5. 0 \in S BY <1>2, <1>4, PassStarts
<1>6. ASSUME NEW i \in Nat, i \in S PROVE i + 1 \in S
  <2> SUFFICES ASSUME i + 1 <= n - 1 PROVE PassInv(ir, t, g[i + 1], i + 1) OBVIOUS
  <2>1. PICK p : p = i + 1 OBVIOUS
  <2>2. p \in 1..(n - 1) /\ p \in 1..n /\ p - 1 = i /\ i <= n - 1 BY <1>3, <2>1
  <2>3. PassInv(ir, t, g[p - 1], p - 1) BY <1>6, <2>2
  <2>4. g[p] = Scan(g[p - 1], p, ir) BY <1>4, <2>2
  <2>5. PassInv(ir, t, Scan(g[p - 1], p, ir), p) BY <1>2, <2>2, <2>3, PassGoesOn
  <2> QED BY <2>1, <2>4, <2>5
<1> HIDE DEF S
<1>7. n - 1 \in S BY <1>3, <1>5, <1>6, NatSetInduction
<1>8. PICK s : s = g[n - 1] OBVIOUS
<1>9. PassInv(ir, t, s, n - 1) BY <1>3, <1>7, <1>8 DEF S
<1>10. ir[n].op = "end" /\ s.open = <<>>
  <2>1. PICK h, a, c : h = Heights(ir) /\ a = t.around /\ c = t.closer OBVIOUS
  <2>2. Nested(ir, h, c) /\ a = AroundOf(ir, c) /\ t.ir = ir BY <2>1, BracketsMatch
  <2>3. n \in 1..n /\ n - 1 \in 0..(n - 1) /\ (n - 1) + 1 = n BY <1>3
  <2>4. h[n] = -1 /\ h[n - 1] \in Nat /\ h[n] = h[n - 1] + Step(ir, n)
    BY <1>2, <2>2, <2>3 DEF Nested
  <2>5. h[n - 1] = 0 /\ ir[n].op \in Closers BY <2>4 DEF Step
  <2>6. Levels(h, c, a[n], h[n - 1], n) BY <1>2, <2>1, <2>2, <2>3, AroundIs
  <2>7. Len(a[n]) = 0 BY <2>5, <2>6 DEF Levels
  <2>8. Len(s.open) = 0 BY <1>9, <2>1, <2>3, <2>7 DEF PassInv
  <2>9. s.open = <<>>
    <3>1. PICK O, o : O = OpensOf(ir) /\ o = s.open OBVIOUS
    <3>2. o \in Seq(O) BY <1>9, <3>1, PassStateParts DEF PassInv, PassParts
    <3> QED BY <2>8, <3>1, <3>2
  <2>10. ir[n].op # "delegate"
    <3> SUFFICES ASSUME ir[n].op = "delegate" PROVE FALSE OBVIOUS
    <3>1. DelegateSited(ir, t, n) BY <1>2, <2>2, <2>3, Sited
    <3>2. PICK i \in 1..(n - 1) : ir[i].op = "try" /\ t.closer[i] = n /\ CatchesOf(t, i) = {}
      BY <3>1, Zenon DEF DelegateSited
    <3>3. i \in 1..Len(ir) /\ ir[i].op \in Openers BY <1>2, <3>2 DEF Openers
    <3>4. t.closer[i] \in (i + 1)..(Len(ir) - 1) BY <3>3, InsideRange
    <3> QED BY <1>2, <1>3, <3>2, <3>4
  <2> QED BY <2>5, <2>9, <2>10 DEF Closers
<1>11. Precompute(ir) = s
  <2>1. n \in 1..n BY <1>3
  <2>2. g[n] = Scan(s, n, ir) BY <1>4, <1>8, <2>1
  <2>3. Scan(s, n, ir) = Ended(s, n, ir) BY <1>10 DEF Scan, Openers, Catches
  <2>4. Ended(s, n, ir) = s BY <1>10 DEF Ended
  <2> QED BY <1>1, <1>2, <2>2, <2>3, <2>4 DEF Precompute
<1>12. ASSUME NEW k \in 1..Len(ir), ir[k].op \in Openers
       PROVE  Done(ir, t, s, k) /\ ElseIs(t, s.elseOf[k], k, Len(ir))
  <2>1. Tabled(ir, t, s, k, n - 1) BY <1>9, <1>12 DEF PassInv
  <2>2. t.closer[k] <= n - 1
    <3>1. t.closer[k] \in (k + 1)..(Len(ir) - 1) BY <1>12, InsideRange
    <3> QED BY <1>2, <1>3, <3>1
  <2>3. ElseIs(t, s.elseOf[k], k, n)
    <3>1. n \notin ElsesOf(t, k)
      <4>1. \A x \in ElsesOf(t, k) : x \in Marks(t, k) BY DEF Marks
      <4>2. \A x \in Marks(t, k) : x \in 1..(Len(ir) - 1) BY <1>12, MarksRange
      <4> QED BY <1>2, <1>3, <4>1, <4>2
    <3>2. n \in 1..Len(ir) BY <1>2, <1>3
    <3> QED BY <1>12, <2>1, <3>1, <3>2, OthersStay DEF Tabled
  <2> QED BY <1>2, <2>1, <2>2, <2>3 DEF Tabled
<1> QED BY <1>11, <1>12 DEF TablesHold

\* The tables of precompute_control_flow are right for every well-bracketed body.
THEOREM PrecomputeIsRight ==
  ASSUME NEW ir, Len(ir) \in Nat, WellBracketed(Text(ir))
  PROVE  TablesAreRight(Precompute(ir), Text(ir))
<1>1. PICK t, cf : t = Text(ir) /\ cf = Precompute(ir) OBVIOUS
<1>2. TablesHold(ir, t, cf) /\ t.ir = ir BY <1>1, PrecomputeHolds, BracketsMatch
<1>3. ASSUME NEW i \in {k \in 1..Len(ir) : ir[k].op \in Openers}
      PROVE  /\ \A k \in {i} \cup ElsesOf(t, i) \cup CatchesOf(t, i) : cf.endOf[k] = t.closer[i]
             /\ IF ElsesOf(t, i) = {} THEN cf.elseOf[i] = NoElse ELSE cf.elseOf[i] \in ElsesOf(t, i)
             /\ {cf.handlers[i][k].pc - 1 : k \in DOMAIN cf.handlers[i]} = CatchesOf(t, i)
             /\ \A a, b \in DOMAIN cf.handlers[i] : a < b => cf.handlers[i][a].pc < cf.handlers[i][b].pc
             /\ cf.delegate[i] = IF ir[t.closer[i]].op = "delegate" THEN ir[t.closer[i]].label ELSE NoDelegate
  <2>1. Done(ir, t, cf, i) /\ ElseIs(t, cf.elseOf[i], i, Len(ir)) BY <1>2 DEF TablesHold
  <2>2. IF ElsesOf(t, i) = {} THEN cf.elseOf[i] = NoElse ELSE cf.elseOf[i] \in ElsesOf(t, i)
    <3>1. \A x \in ElsesOf(t, i) : ~(x > Len(ir))
      <4>1. \A x \in ElsesOf(t, i) : x \in Marks(t, i) BY DEF Marks
      <4>2. \A x \in Marks(t, i) : x \in 1..(Len(ir) - 1) BY <1>1, MarksRange
      <4> QED BY <4>1, <4>2
    <3> QED BY <2>1, <3>1 DEF ElseIs
  <2>3. PICK hs, C : hs = cf.handlers[i] /\ C = CatchesOf(t, i) OBVIOUS
  <2>4. HandlersAre(ir, hs, C) BY <2>1, <2>3 DEF Done
  <2>5. PICK H : H = HandlersOf(ir) OBVIOUS
  <2>6. hs \in Seq(H) BY <2>4, <2>5 DEF HandlersAre
  <2>7. DOMAIN hs = 1..Len(hs) BY <2>6
  <2>8. \A x \in C : x \in Nat
    <3>1. \A x \in C : x \in Marks(t, i) BY <2>3 DEF Marks
    <3>2. \A x \in Marks(t, i) : x \in 1..(Len(ir) - 1) BY <1>1, MarksRange
    <3> QED BY <3>1, <3>2
  <2>9. {hs[k].pc - 1 : k \in DOMAIN hs} = C
    <3>1. ASSUME NEW x \in 1..Len(hs) PROVE hs[x].pc - 1 \in C
      <4>1. PICK k \in C : hs[x] = HandlerAt(ir, k) BY <2>4 DEF HandlersAre
      <4> QED BY <2>8, <4>1 DEF HandlerAt
    <3>2. ASSUME NEW k \in C PROVE \E x \in 1..Len(hs) : hs[x].pc - 1 = k
      <4>1. PICK x \in 1..Len(hs) : hs[x] = HandlerAt(ir, k) BY <2>4 DEF HandlersAre
      <4> QED BY SMTT(30), <2>8, <4>1 DEF HandlerAt
    <3> QED BY <2>7, <3>1, <3>2
  <2>10. \A a, b \in DOMAIN hs : a < b => hs[a].pc < hs[b].pc BY <2>4, <2>7 DEF HandlersAre
  <2> QED BY <2>1, <2>2, <2>3, <2>9, <2>10 DEF Done
<1>4. TablesAreRight(cf, t) BY <1>2, <1>3 DEF TablesAreRight
<1> QED BY <1>1, <1>4
=============================================================================
