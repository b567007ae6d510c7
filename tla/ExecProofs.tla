----------------------------- MODULE ExecProofs -----------------------------
(***************************************************************************)
(* Proofs about Exec: the labels of a frame are the constructs around its  *)
(* position, exceptions land where the text says, and what a survived      *)
(* error leaves behind.                                                    *)
(***************************************************************************)
EXTENDS Exec, ControlFlowProofs

-----------------------------------------------------------------------------
(* The constructs around a position, level by level.                       *)

Bracketed(ir, t) == Len(ir) \in Nat /\ t = Text(ir) /\ WellBracketed(t)

Depth(t, p) == Len(t.around[p])

\* The levels around a position, by the nesting.
LEMMA LevelsAre ==
  ASSUME NEW ir, NEW t, Bracketed(ir, t)
  PROVE  \E h : /\ Nested(ir, h, t.closer) /\ t.ir = ir
                /\ \A p \in 1..Len(ir) : Levels(h, t.closer, t.around[p], h[p - 1], p)
<1> PICK h : h = Heights(ir)
  OBVIOUS
<1>1. t.ir = ir /\ t.around = AroundOf(ir, t.closer) /\ Nested(ir, h, t.closer)
  BY BracketsMatch DEF Bracketed
<1>2. ASSUME NEW p \in 1..Len(ir) PROVE Levels(h, t.closer, t.around[p], h[p - 1], p)
  BY <1>1, AroundIs
<1> QED BY <1>1, <1>2

\* A construct at some level around a position.
LEMMA OneAround ==
  ASSUME NEW ir, NEW t, Bracketed(ir, t), NEW p \in 1..Len(ir), NEW n \in 1..Depth(t, p),
         NEW i, i = t.around[p][n]
  PROVE  /\ i \in 1..(p - 1) /\ i \in 1..Len(ir) /\ ir[i].op \in Openers /\ t.ir = ir
         /\ p <= t.closer[i] /\ Depth(t, i) = n - 1 /\ Depth(t, p) \in Nat
<1> PICK h : /\ Nested(ir, h, t.closer) /\ t.ir = ir
             /\ \A q \in 1..Len(ir) : Levels(h, t.closer, t.around[q], h[q - 1], q)
  BY LevelsAre
<1>0. Len(ir) \in Nat
  BY DEF Nested
<1>1. Levels(h, t.closer, t.around[p], h[p - 1], p)
  OBVIOUS
<1>2. n \in 1..h[p - 1] /\ h[p - 1] \in Nat /\ Depth(t, p) = h[p - 1]
  BY <1>1 DEF Levels, Depth
<1>3. i \in 1..(p - 1) /\ t.closer[i] >= p /\ h[i] = n
  BY <1>1, <1>2 DEF Levels
<1>4. ir[i].op \in Openers /\ Matches(ir, h, t.closer, i)
  BY <1>3, SurroundingLevel
<1>5. t.closer[i] \in Int /\ h[i] = h[i - 1] + 1
  BY <1>4 DEF Matches
<1>6. i \in 1..Len(ir)
  BY <1>0, <1>3
<1>7. Levels(h, t.closer, t.around[i], h[i - 1], i)
  BY <1>6
<1>8. Depth(t, i) = h[i - 1] /\ h[i - 1] \in Nat
  BY <1>7 DEF Levels, Depth
<1>9. Depth(t, i) = n - 1
  <2>1. n \in Int
    BY <1>2
  <2>2. n = h[i - 1] + 1
    BY <1>3, <1>5
  <2>3. h[i - 1] = n - 1
    BY SMTT(30), <2>1, <2>2, <1>3, <1>8
  <2> QED BY <2>3, <1>8, Zenon
<1>10. p <= t.closer[i]
  BY <1>3, <1>5
<1> QED BY <1>2, <1>3, <1>4, <1>6, <1>9, <1>10

\* What a construct opened at i does to the nesting: inside it the constructs
\* around it are still around and it is one level deeper than they are; after
\* it they are the ones around.
NestsAt(ir, t, i) ==
  /\ Depth(t, i) \in Nat /\ t.closer[i] \in (i + 1)..(Len(ir) - 1) /\ Len(ir) \in Nat
  /\ \A p \in (i + 1)..t.closer[i] :
       /\ Depth(t, p) \in Nat /\ Depth(t, p) >= Depth(t, i) + 1
       /\ t.around[p][Depth(t, i) + 1] = i
  /\ \A p \in (i + 1)..(t.closer[i] + 1) : \A n \in 1..Depth(t, i) : t.around[p][n] = t.around[i][n]
  /\ Depth(t, i + 1) = Depth(t, i) + 1
  /\ Depth(t, t.closer[i]) = Depth(t, i) + 1
  /\ Depth(t, t.closer[i] + 1) = Depth(t, i)

LEMMA ConstructNests ==
  ASSUME NEW ir, NEW t, Bracketed(ir, t), NEW i \in 1..Len(ir), ir[i].op \in Openers
  PROVE  NestsAt(ir, t, i)
<1> PICK h : /\ Nested(ir, h, t.closer) /\ t.ir = ir
             /\ \A q \in 1..Len(ir) : Levels(h, t.closer, t.around[q], h[q - 1], q)
  BY LevelsAre
<1> DEFINE c == t.closer[i]
           m == Depth(t, i)
<1>0. Len(ir) \in Nat
  BY DEF Nested
<1>1. Matches(ir, h, t.closer, i)
  BY DEF Nested
<1>2. /\ c \in (i + 1)..(Len(ir) - 1) /\ ir[c].op \in Closers /\ h[c] = h[i] - 1 /\ h[i] = h[i - 1] + 1
      /\ \A j \in i..(c - 1) : h[j] >= h[i]
  BY <1>1 DEF Matches
<1>3. \A p \in 1..Len(ir) : Depth(t, p) = h[p - 1] /\ h[p - 1] \in Nat
  <2> TAKE p \in 1..Len(ir)
  <2>1. Levels(h, t.closer, t.around[p], h[p - 1], p)
    OBVIOUS
  <2> QED BY <2>1 DEF Levels, Depth
<1>4. m = h[i - 1] /\ m \in Nat /\ h[i] = m + 1 /\ h[c] = m
  BY <1>2, <1>3
<1>5. h[c - 1] = m + 1
  <2>0. c \in 1..Len(ir)
    BY <1>0, <1>2
  <2>2. c - 1 \in 0..(Len(ir) - 1)
    BY <1>0, <1>2
  <2>3. h[c - 1] \in Nat
    BY <2>2 DEF Nested
  <2>4. h[c] = h[c - 1] + Step(ir, c)
    BY <2>0 DEF Nested
  <2>5. Step(ir, c) = -1
    BY <1>2 DEF Step, Closers, Openers
  <2>1. c \in 1..Len(ir) /\ h[c] = h[c - 1] - 1
    BY <2>0, <2>3, <2>4, <2>5
  <2> QED BY <2>1, <2>3, <1>4
<1>6. ASSUME NEW p \in (i + 1)..c
      PROVE  /\ Depth(t, p) \in Nat /\ Depth(t, p) >= m + 1 /\ t.around[p][m + 1] = i /\ p \in 1..Len(ir)
  <2>1. p \in 1..Len(ir) /\ i \in 1..(p - 1) /\ c >= p /\ p - 1 \in i..(c - 1)
    BY <1>0, <1>2
  <2>2. Levels(h, t.closer, t.around[p], h[p - 1], p)
    BY <2>1
  <2>3. t.around[p][h[i]] = i
    BY <2>1, <2>2 DEF Levels
  <2>4. h[p - 1] >= h[i]
    BY <2>1, <1>2
  <2> QED BY <2>1, <2>3, <2>4, <1>3, <1>4
<1>7. ASSUME NEW p \in (i + 1)..(c + 1), NEW n \in 1..m
      PROVE  t.around[p][n] = t.around[i][n]
  <2> PICK o : o = t.around[i][n]
    OBVIOUS
  <2>1. o \in 1..(i - 1) /\ o \in 1..Len(ir) /\ ir[o].op \in Openers /\ i <= t.closer[o] /\ Depth(t, o) = n - 1
    BY OneAround
  <2>2. Matches(ir, h, t.closer, o)
    BY <2>1 DEF Nested
  <2>3. t.closer[o] \in (o + 1)..(Len(ir) - 1) /\ ir[t.closer[o]].op \in Closers /\ h[o] = h[o - 1] + 1
    BY <2>2 DEF Matches
  <2>4. h[o] = n
    BY <2>1, <2>3, <1>3
  <2>5. t.closer[o] # i
    BY <2>3 DEF Openers, Closers
  <2>6. o < i /\ i < t.closer[o]
    BY <2>1, <2>3, <2>5
  <2>7. c < t.closer[o]
    BY <2>1, <2>6, Laminar
  <2>10. /\ o \in Int /\ o > 0 /\ i \in Int /\ p \in Int /\ p > i /\ p <= c + 1 /\ c \in Int
         /\ t.closer[o] \in Int /\ t.closer[o] <= Len(ir) - 1
    BY <2>1, <2>3, <1>0, <1>2
  <2>8. p \in 1..Len(ir) /\ o \in 1..(p - 1) /\ t.closer[o] >= p
    BY SMTT(30), <2>6, <2>7, <2>10, <1>0
  <2>9. Levels(h, t.closer, t.around[p], h[p - 1], p)
    BY <2>8
  <2> QED BY <2>4, <2>8, <2>9 DEF Levels
<1>8. i + 1 \in 1..Len(ir) /\ c \in 1..Len(ir) /\ c + 1 \in 1..Len(ir)
  BY SMTT(30), <1>0, <1>2
<1>9. Depth(t, i + 1) = h[i] /\ Depth(t, c) = h[c - 1] /\ Depth(t, c + 1) = h[c]
  <2>1. Depth(t, i + 1) = h[(i + 1) - 1] /\ Depth(t, c + 1) = h[(c + 1) - 1] /\ Depth(t, c) = h[c - 1]
    BY <1>3, <1>8
  <2>2. (i + 1) - 1 = i /\ (c + 1) - 1 = c
    BY <1>2
  <2> QED BY <2>1, <2>2
<1> QED BY <1>0, <1>2, <1>4, <1>5, <1>6, <1>7, <1>9 DEF NestsAt

LEMMA AroundConstruct ==
  ASSUME NEW ir, NEW t, Bracketed(ir, t), NEW i \in 1..Len(ir), ir[i].op \in Openers
  PROVE  /\ Depth(t, i) \in Nat /\ t.closer[i] \in (i + 1)..(Len(ir) - 1) /\ Len(ir) \in Nat
         /\ \A p \in (i + 1)..t.closer[i] :
              /\ Depth(t, p) \in Nat /\ Depth(t, p) >= Depth(t, i) + 1
              /\ t.around[p][Depth(t, i) + 1] = i
         /\ \A p \in (i + 1)..(t.closer[i] + 1) : \A n \in 1..Depth(t, i) : t.around[p][n] = t.around[i][n]
         /\ Depth(t, i + 1) = Depth(t, i) + 1
         /\ Depth(t, t.closer[i]) = Depth(t, i) + 1
         /\ Depth(t, t.closer[i] + 1) = Depth(t, i)
<1>1. NestsAt(ir, t, i)
  BY ConstructNests
<1> QED BY <1>1 DEF NestsAt

-----------------------------------------------------------------------------
(* The labels of a frame and the text.                                     *)

FuncLabelIs(ir, l) ==
  l.isLoop = FALSE /\ l.target = Len(ir) + 1 /\ l.tryTable = NoTry /\ l.legacy = NoTry /\ l.caught = NoExn

\* A label l for the construct opened at i, seen from p.
Targets(ir, t, l, i) ==
  /\ l.isLoop = (ir[i].op = "loop")
  /\ l.target = IF ir[i].op = "loop" THEN i + 1 ELSE t.closer[i] + 1
  /\ l.tryTable = IF ir[i].op = "try_table" THEN i ELSE NoTry
  /\ l.legacy = IF ir[i].op = "try" THEN i ELSE NoTry
Handling(ir, t, i, p) == ir[i].op = "try" /\ InHandler(t, i, p)
Catching(ir, t, l, i, p) ==
  /\ l.caught # NoExn => Handling(ir, t, i, p)
  /\ Handling(ir, t, i, p) /\ p < t.closer[i] => l.caught # NoExn
LabelIs(ir, t, p, l, i) == Targets(ir, t, l, i) /\ Catching(ir, t, l, i, p)

\* The labels at p are the function's and those of the constructs around p.
LabelsFit(ir, t, p, ls) ==
  p \in 1..Len(ir) =>
    /\ Len(ls) = Depth(t, p) + 1
    /\ FuncLabelIs(ir, ls[1])
    /\ \A n \in 1..Depth(t, p) : LabelIs(ir, t, p, ls[n + 1], t.around[p][n])

\* No catch of a construct lies in one nested in it.
LEMMA CatchesAreOutside ==
  ASSUME NEW ir, NEW t, Bracketed(ir, t), NEW i \in 1..Len(ir), ir[i].op \in Openers,
         NEW n \in 1..Depth(t, i), NEW o, o = t.around[i][n], NEW k \in CatchesOf(t, o)
  PROVE  k \in Nat /\ (k < i \/ k > t.closer[i])
<1>1. o \in 1..(i - 1) /\ o \in 1..Len(ir) /\ ir[o].op \in Openers /\ i <= t.closer[o] /\ t.ir = ir
  BY OneAround
<1>2. /\ \A p \in Inside(t, o) : p \in (o + 1)..(Len(ir) - 1) /\ p < t.closer[o]
      /\ CatchesOf(t, o) = {p \in Inside(t, o) : ir[p].op \in Catches}
  BY SMTT(30), <1>1, InsideRange DEF Bracketed
<1>3. k \in Inside(t, o) /\ ir[k].op \in Catches /\ k \in (o + 1)..(Len(ir) - 1)
  BY <1>2
<1>4. t.closer[i] \in (i + 1)..(Len(ir) - 1) /\ ir[t.closer[i]].op \in Closers /\ Len(ir) \in Nat
  BY InsideRange DEF Bracketed
<1>5. k # i
  BY <1>3 DEF Openers, Catches
<1>6. CASE k > i
  <2>1. i \in (o + 1)..(k - 1)
    BY <1>1, <1>3, <1>6
  <2>2. \A j \in (o + 1)..(k - 1) : t.closer[j] < k
    BY <1>3 DEF Inside
  <2>3. t.closer[i] < k
    BY <2>1, <2>2
  <2> QED BY <2>3, <1>3, <1>4
<1> QED BY <1>1, <1>3, <1>5, <1>6

\* Moving about in a construct does not change what those around it are doing.
LEMMA OuterHandling ==
  ASSUME NEW ir, NEW t, Bracketed(ir, t), NEW i \in 1..Len(ir), ir[i].op \in Openers,
         NEW n \in 1..Depth(t, i), NEW o, o = t.around[i][n],
         NEW p \in i..(t.closer[i] + 1), NEW q \in i..(t.closer[i] + 1)
  PROVE  InHandler(t, o, p) => InHandler(t, o, q)
<1>1. t.closer[i] \in Int
  BY AroundConstruct
<1>2. SUFFICES ASSUME NEW k \in CatchesOf(t, o), k < p PROVE k < q
  BY DEF InHandler
<1>3. k \in Nat /\ (k < i \/ k > t.closer[i])
  BY CatchesAreOutside
<1> QED BY <1>1, <1>2, <1>3

\* So their labels go on fitting.
LEMMA OuterLabels ==
  ASSUME NEW ir, NEW t, Bracketed(ir, t), NEW i \in 1..Len(ir), ir[i].op \in Openers,
         NEW n \in 1..Depth(t, i), NEW o, o = t.around[i][n],
         NEW p \in i..t.closer[i], NEW q \in i..(t.closer[i] + 1),
         NEW l, LabelIs(ir, t, p, l, o)
  PROVE  LabelIs(ir, t, q, l, o)
<1>0. t.closer[i] \in Int
  BY AroundConstruct
<1>1. Handling(ir, t, o, p) <=> Handling(ir, t, o, q)
  <2>1. p \in i..(t.closer[i] + 1)
    BY <1>0
  <2>2. InHandler(t, o, p) <=> InHandler(t, o, q)
    BY <2>1, OuterHandling
  <2> QED BY <2>2 DEF Handling
<1>2. o \in 1..(i - 1) /\ o \in 1..Len(ir) /\ ir[o].op \in Openers /\ i <= t.closer[o] /\ Depth(t, o) = n - 1
      /\ t.ir = ir
  BY OneAround
<1>3. t.closer[i] \in (i + 1)..(Len(ir) - 1) /\ t.closer[o] \in (o + 1)..(Len(ir) - 1) /\ Len(ir) \in Nat
  BY <1>2, AroundConstruct
<1>4. t.closer[i] < t.closer[o]
  <2> PICK h : /\ Nested(ir, h, t.closer) /\ t.ir = ir
               /\ \A x \in 1..Len(ir) : Levels(h, t.closer, t.around[x], h[x - 1], x)
    BY LevelsAre
  <2>1. Matches(ir, h, t.closer, o)
    BY <1>2 DEF Nested
  <2>2. ir[t.closer[o]].op \in Closers
    BY <2>1 DEF Matches
  <2>3. o < i /\ i < t.closer[o]
    <3>1. i # t.closer[o]
      BY <2>2 DEF Openers, Closers
    <3> QED BY SMTT(30), <3>1, <1>2, <1>3
  <2> QED BY <2>3, <1>2, Laminar
<1>5. p < t.closer[o]
  BY <1>3, <1>4
<1> QED BY <1>1, <1>5 DEF LabelIs, Catching

\* A step of the text opens a construct, closes the innermost one or stays in it.
LEMMA TextSteps ==
  ASSUME NEW ir, NEW t, Bracketed(ir, t), NEW p \in 1..Len(ir)
  PROVE  /\ t.around[p] \in Seq(Nat) /\ Len(ir) \in Nat
         /\ p = Len(ir) => ir[p].op \in Closers
         /\ p < Len(ir) =>
              /\ ir[p].op \in Openers => t.around[p + 1] = Append(t.around[p], p)
              /\ ir[p].op \in Closers => Depth(t, p) > 0 /\ t.around[p + 1] = Front(t.around[p])
              /\ ir[p].op \notin Openers \cup Closers => t.around[p + 1] = t.around[p]
<1> PICK h : h = Heights(ir)
  OBVIOUS
<1> PICK c : c = t.closer
  OBVIOUS
<1> PICK a : a = t.around
  OBVIOUS
<1>1. a = AroundOf(ir, c) /\ Nested(ir, h, c) /\ Len(ir) \in Nat
  BY BracketsMatch DEF Bracketed
<1>2. Levels(h, c, a[p], h[p - 1], p)
  BY <1>1, AroundIs
<1>3. a[p] \in Seq(Nat)
  BY <1>2 DEF Levels
<1>4. p = Len(ir) => ir[p].op \in Closers
  <2> SUFFICES ASSUME p = Len(ir), ir[p].op \notin Closers PROVE FALSE
    OBVIOUS
  <2>1. h[p] = h[p - 1] + Step(ir, p) /\ h[p] = -1
    BY <1>1 DEF Nested
  <2>2. Step(ir, p) >= 0 /\ Step(ir, p) \in Int
    BY DEF Step
  <2>3. p - 1 \in 0..(Len(ir) - 1)
    BY <1>1
  <2>4. h[p - 1] \in Nat
    BY <2>3, <1>1 DEF Nested
  <2> QED BY <2>1, <2>2, <2>4
<1>5. ASSUME p < Len(ir)
      PROVE  /\ ir[p].op \in Openers => a[p + 1] = Append(a[p], p)
             /\ ir[p].op \in Closers => Len(a[p]) > 0 /\ a[p + 1] = Front(a[p])
             /\ ir[p].op \notin Openers \cup Closers => a[p + 1] = a[p]
  <2>1. p \in 1..(Len(ir) - 1)
    BY <1>1, <1>5
  <2> QED BY <2>1, <1>1, AroundSteps
<1> QED BY <1>1, <1>3, <1>4, <1>5 DEF Depth

\* Going past an instruction that is no catch does not change what the
\* constructs around it are doing.
LEMMA PastLabels ==
  ASSUME NEW ir, NEW t, Bracketed(ir, t), NEW p \in 1..Len(ir), ir[p].op \notin Catches,
         NEW n \in 1..Depth(t, p), NEW i, i = t.around[p][n], NEW l, LabelIs(ir, t, p, l, i)
  PROVE  LabelIs(ir, t, p + 1, l, i)
<1>1. /\ i \in 1..(p - 1) /\ i \in 1..Len(ir) /\ ir[i].op \in Openers /\ p <= t.closer[i] /\ t.ir = ir
  BY OneAround
<1>2. /\ t.closer[i] \in (i + 1)..(Len(ir) - 1)
      /\ \A k \in Inside(t, i) : k \in (i + 1)..(Len(ir) - 1) /\ k < t.closer[i]
      /\ CatchesOf(t, i) = {k \in Inside(t, i) : ir[k].op \in Catches}
  BY SMTT(30), <1>1, InsideRange DEF Bracketed
<1>3. ASSUME NEW k \in CatchesOf(t, i) PROVE k < p <=> k < p + 1
  <2>1. k \in Int /\ ir[k].op \in Catches
    BY <1>2
  <2>2. k # p
    BY <2>1
  <2> QED BY <2>1, <2>2
<1>4. InHandler(t, i, p) <=> InHandler(t, i, p + 1)
  BY <1>3 DEF InHandler
<1>5. Handling(ir, t, i, p) <=> Handling(ir, t, i, p + 1)
  BY <1>4 DEF Handling
<1>6. p + 1 < t.closer[i] => p < t.closer[i]
  BY <1>2
<1> QED BY <1>5, <1>6 DEF LabelIs, Catching

LEMMA FitsPast ==
  ASSUME NEW ir, NEW t, Bracketed(ir, t), NEW p \in 1..Len(ir),
         ir[p].op \notin Openers \cup Closers \cup Catches, NEW ls, LabelsFit(ir, t, p, ls)
  PROVE  LabelsFit(ir, t, p + 1, ls) /\ p + 1 \in 1..Len(ir)
<1>1. p < Len(ir) /\ t.around[p + 1] = t.around[p] /\ Len(ir) \in Nat
  BY TextSteps
<1>2. Depth(t, p + 1) = Depth(t, p)
  BY <1>1 DEF Depth
<1>3. /\ Len(ls) = Depth(t, p) + 1
      /\ FuncLabelIs(ir, ls[1])
      /\ \A n \in 1..Depth(t, p) : LabelIs(ir, t, p, ls[n + 1], t.around[p][n])
  BY DEF LabelsFit
<1>4. ASSUME NEW n \in 1..Depth(t, p + 1) PROVE LabelIs(ir, t, p + 1, ls[n + 1], t.around[p + 1][n])
  <2>1. LabelIs(ir, t, p, ls[n + 1], t.around[p][n])
    BY <1>2, <1>3
  <2>2. LabelIs(ir, t, p + 1, ls[n + 1], t.around[p][n])
    BY <2>1, <1>2, PastLabels
  <2> QED BY <2>2, <1>1
<1>5. p + 1 \in 1..Len(ir)
  BY <1>1
<1> QED BY <1>2, <1>3, <1>4, <1>5 DEF LabelsFit

\* The closer of a construct takes its label off.
LEMMA FitsOut ==
  ASSUME NEW ir, NEW t, Bracketed(ir, t), NEW p \in 1..Len(ir), ir[p].op \in Closers,
         NEW S, NEW ls \in Seq(S), LabelsFit(ir, t, p, ls)
  PROVE  LabelsFit(ir, t, p + 1, Front(ls)) /\ ls # <<>>
<1>3. /\ Len(ls) = Depth(t, p) + 1
      /\ FuncLabelIs(ir, ls[1])
      /\ \A n \in 1..Depth(t, p) : LabelIs(ir, t, p, ls[n + 1], t.around[p][n])
  BY DEF LabelsFit
<1>1. t.around[p] \in Seq(Nat) /\ Len(ir) \in Nat
  BY TextSteps
<1>2. Depth(t, p) \in Nat
  BY <1>1 DEF Depth
<1>4. ls # <<>>
  BY <1>2, <1>3
<1>5. ASSUME p + 1 \in 1..Len(ir)
      PROVE  LabelsFit(ir, t, p + 1, Front(ls))
  <2>1. p < Len(ir)
    BY <1>1, <1>5
  <2>2. Depth(t, p) > 0 /\ t.around[p + 1] = Front(t.around[p])
    BY <2>1, TextSteps
  <2>3. /\ Len(Front(t.around[p])) = Depth(t, p) - 1
        /\ \A n \in 1..(Depth(t, p) - 1) : Front(t.around[p])[n] = t.around[p][n]
    BY <1>1, <2>2 DEF Front, Depth
  <2>4. /\ Len(Front(ls)) = Depth(t, p) /\ \A n \in 1..Depth(t, p) : Front(ls)[n] = ls[n]
    BY <1>2, <1>3 DEF Front
  <2>5. Depth(t, p + 1) = Depth(t, p) - 1
    BY <2>2, <2>3 DEF Depth
  <2>6. ASSUME NEW n \in 1..Depth(t, p + 1)
        PROVE  LabelIs(ir, t, p + 1, Front(ls)[n + 1], t.around[p + 1][n])
    <3>1. n \in 1..Depth(t, p) /\ n + 1 \in 1..Depth(t, p) /\ n \in 1..(Depth(t, p) - 1)
      BY <1>2, <2>5
    <3>2. LabelIs(ir, t, p, ls[n + 1], t.around[p][n])
      BY <1>3, <3>1
    <3>3. ir[p].op \notin Catches
      BY DEF Closers, Catches
    <3>4. LabelIs(ir, t, p + 1, ls[n + 1], t.around[p][n])
      BY <3>1, <3>2, <3>3, PastLabels
    <3>5. Front(ls)[n + 1] = ls[n + 1] /\ t.around[p + 1][n] = t.around[p][n]
      BY <2>2, <2>3, <2>4, <3>1
    <3> QED BY <3>4, <3>5
  <2>7. FuncLabelIs(ir, Front(ls)[1])
    BY <1>2, <1>3, <2>2, <2>4
  <2> QED BY <1>2, <2>4, <2>5, <2>6, <2>7 DEF LabelsFit
<1>6. p + 1 \notin 1..Len(ir) => LabelsFit(ir, t, p + 1, Front(ls))
  BY DEF LabelsFit
<1> QED BY <1>4, <1>5, <1>6

LEMMA KeepSeq ==
  ASSUME NEW S, NEW s \in Seq(S), NEW n \in 0..Len(s)
  PROVE  /\ Keep(s, n) \in Seq(S) /\ Len(Keep(s, n)) = n
         /\ \A k \in 1..n : Keep(s, n)[k] = s[k]
         /\ n = Len(s) => Keep(s, n) = s
         /\ n < Len(s) => Append(Keep(s, n), s[n + 1]) = Keep(s, n + 1)
<1>1. /\ Keep(s, n) \in Seq(S) /\ Len(Keep(s, n)) = n
      /\ \A k \in 1..n : Keep(s, n)[k] = s[k]
  BY DEF Keep
<1>2. n = Len(s) => Keep(s, n) = s
  BY <1>1, SameSequence
<1>3. ASSUME n < Len(s) PROVE Append(Keep(s, n), s[n + 1]) = Keep(s, n + 1)
  <2>1. s[n + 1] \in S /\ n + 1 \in 0..Len(s)
    BY <1>3
  <2>2. /\ Keep(s, n + 1) \in Seq(S) /\ Len(Keep(s, n + 1)) = n + 1
        /\ \A k \in 1..(n + 1) : Keep(s, n + 1)[k] = s[k]
    BY <2>1 DEF Keep
  <2>3. /\ Append(Keep(s, n), s[n + 1]) \in Seq(S) /\ Len(Append(Keep(s, n), s[n + 1])) = n + 1
        /\ \A k \in 1..n : Append(Keep(s, n), s[n + 1])[k] = s[k]
        /\ Append(Keep(s, n), s[n + 1])[n + 1] = s[n + 1]
    BY <1>1, <2>1
  <2>4. ASSUME NEW k \in 1..(n + 1) PROVE Append(Keep(s, n), s[n + 1])[k] = Keep(s, n + 1)[k]
    <3>1. k \in 1..n \/ k = n + 1
      OBVIOUS
    <3> QED BY <3>1, <2>2, <2>3
  <2> QED BY <2>2, <2>3, <2>4, SameSequence
<1> QED BY <1>1, <1>2, <1>3

LEMMA TopChanged ==
  ASSUME NEW S, NEW s \in Seq(S), s # <<>>, NEW x \in S
  PROVE  /\ [s EXCEPT ![Len(s)] = x] \in Seq(S) /\ Len([s EXCEPT ![Len(s)] = x]) = Len(s)
         /\ [s EXCEPT ![Len(s)] = x][Len(s)] = x /\ Len(s) \in Nat /\ Len(s) > 0
         /\ [s EXCEPT ![Len(s)] = x] # <<>>
         /\ \A k \in 1..Len(s) : k # Len(s) => [s EXCEPT ![Len(s)] = x][k] = s[k]
<1>1. Len(s) \in Nat /\ Len(s) > 0 /\ DOMAIN s = 1..Len(s)
  OBVIOUS
<1> PICK n : n = Len(s)
  OBVIOUS
<1>2. n \in DOMAIN s
  BY <1>1
<1>3. /\ [s EXCEPT ![n] = x] \in Seq(S) /\ Len([s EXCEPT ![n] = x]) = Len(s)
      /\ [s EXCEPT ![n] = x][n] = x
      /\ \A j \in DOMAIN s : j # n => [s EXCEPT ![n] = x][j] = s[j]
  BY <1>2, ChangedSeq
<1>4. \A u \in Seq(S) : Len(u) > 0 => u # <<>>
  OBVIOUS
<1> QED BY <1>1, <1>3, <1>4

LEMMA FrontSeq ==
  ASSUME NEW S, NEW s \in Seq(S), s # <<>>
  PROVE  /\ Front(s) \in Seq(S) /\ Len(Front(s)) = Len(s) - 1 /\ Len(s) \in Nat /\ Len(s) > 0
         /\ \A k \in 1..(Len(s) - 1) : Front(s)[k] = s[k]
         /\ s[Len(s)] \in S
BY SMTT(30) DEF Front

\* From a position in a construct, its own label and those under it are
\* where the text has them.
LEMMA LabelsUpTo ==
  ASSUME NEW ir, NEW t, Bracketed(ir, t), NEW i \in 1..Len(ir), ir[i].op \in Openers,
         NEW p \in i..t.closer[i], NEW ls, LabelsFit(ir, t, p, ls)
  PROVE  /\ p \in 1..Len(ir) /\ Depth(t, i) \in Nat /\ Len(ls) \in Nat /\ Len(ls) >= Depth(t, i) + 1
         /\ FuncLabelIs(ir, ls[1])
         /\ \A n \in 1..Depth(t, i) : LabelIs(ir, t, p, ls[n + 1], t.around[i][n])
         /\ p > i => Len(ls) >= Depth(t, i) + 2 /\ LabelIs(ir, t, p, ls[Depth(t, i) + 2], i)
<1>1. /\ Depth(t, i) \in Nat /\ t.closer[i] \in (i + 1)..(Len(ir) - 1) /\ Len(ir) \in Nat
      /\ \A q \in (i + 1)..t.closer[i] :
           /\ Depth(t, q) \in Nat /\ Depth(t, q) >= Depth(t, i) + 1
           /\ t.around[q][Depth(t, i) + 1] = i
      /\ \A q \in (i + 1)..(t.closer[i] + 1) : \A n \in 1..Depth(t, i) : t.around[q][n] = t.around[i][n]
  <2>1. NestsAt(ir, t, i)
    BY ConstructNests
  <2> QED BY <2>1 DEF NestsAt
<1>2. p \in 1..Len(ir)
  BY <1>1
<1>3. /\ Len(ls) = Depth(t, p) + 1
      /\ FuncLabelIs(ir, ls[1])
      /\ \A n \in 1..Depth(t, p) : LabelIs(ir, t, p, ls[n + 1], t.around[p][n])
  BY <1>2 DEF LabelsFit
<1>4. CASE p = i
  BY <1>1, <1>2, <1>3, <1>4
<1>5. CASE p > i
  <2>1. p \in (i + 1)..t.closer[i] /\ p \in (i + 1)..(t.closer[i] + 1)
    BY <1>1, <1>5
  <2>2. Depth(t, p) \in Nat /\ Depth(t, p) >= Depth(t, i) + 1 /\ t.around[p][Depth(t, i) + 1] = i
    BY <1>1, <2>1
  <2>3. ASSUME NEW n \in 1..Depth(t, i) PROVE LabelIs(ir, t, p, ls[n + 1], t.around[i][n])
    <3>1. n \in 1..Depth(t, p)
      BY <1>1, <2>2
    <3>2. LabelIs(ir, t, p, ls[n + 1], t.around[p][n]) /\ t.around[p][n] = t.around[i][n]
      BY <1>1, <1>3, <2>1, <3>1
    <3> QED BY <3>2
  <2>4. LabelIs(ir, t, p, ls[Depth(t, i) + 2], i)
    <3> PICK n : n = Depth(t, i) + 1
      OBVIOUS
    <3>1. n \in 1..Depth(t, p) /\ n + 1 = Depth(t, i) + 2 /\ t.around[p][n] = i
      BY <1>1, <2>2
    <3>2. LabelIs(ir, t, p, ls[n + 1], t.around[p][n])
      BY <1>3, <3>1
    <3> QED BY <3>1, <3>2
  <2> QED BY <1>1, <1>2, <1>3, <2>2, <2>3, <2>4
<1>6. p = i \/ p > i
  BY <1>1
<1> QED BY <1>4, <1>5, <1>6

LEMMA LabelsFrom ==
  ASSUME NEW ir, NEW t, Bracketed(ir, t), NEW i \in 1..Len(ir), ir[i].op \in Openers,
         NEW p \in i..t.closer[i], NEW ls, LabelsFit(ir, t, p, ls), NEW q \in i..(t.closer[i] + 1)
  PROVE  \A n \in 1..Depth(t, i) : LabelIs(ir, t, q, ls[n + 1], t.around[i][n])
<1> TAKE n \in 1..Depth(t, i)
<1> PICK o : o = t.around[i][n]
  OBVIOUS
<1>1. LabelIs(ir, t, p, ls[n + 1], o)
  BY LabelsUpTo
<1> QED BY <1>1, OuterLabels

\* Landing one level inside a construct, with a label for it.
LEMMA FitsInside ==
  ASSUME NEW ir, NEW t, Bracketed(ir, t), NEW i \in 1..Len(ir), ir[i].op \in Openers,
         NEW p \in i..t.closer[i], NEW S, NEW ls \in Seq(S), LabelsFit(ir, t, p, ls),
         NEW q \in (i + 1)..t.closer[i], Depth(t, q) = Depth(t, i) + 1,
         NEW l \in S, Targets(ir, t, l, i), Catching(ir, t, l, i, q)
  PROVE  LabelsFit(ir, t, q, Append(Keep(ls, Depth(t, i) + 1), l))
<1>1. /\ Depth(t, i) \in Nat /\ t.closer[i] \in (i + 1)..(Len(ir) - 1) /\ Len(ir) \in Nat
      /\ t.around[q][Depth(t, i) + 1] = i
      /\ \A n \in 1..Depth(t, i) : t.around[q][n] = t.around[i][n]
  <2>1. NestsAt(ir, t, i)
    BY ConstructNests
  <2>2. t.closer[i] \in Int /\ q \in (i + 1)..(t.closer[i] + 1)
    BY <2>1 DEF NestsAt
  <2> QED BY <2>1, <2>2 DEF NestsAt
<1>2. /\ p \in 1..Len(ir) /\ Len(ls) >= Depth(t, i) + 1 /\ FuncLabelIs(ir, ls[1])
      /\ \A n \in 1..Depth(t, i) : LabelIs(ir, t, p, ls[n + 1], t.around[i][n])
  BY LabelsUpTo
<1> PICK m : m = Depth(t, i)
  OBVIOUS
<1> PICK new : new = Append(Keep(ls, m + 1), l)
  OBVIOUS
<1>3. m + 1 \in 0..Len(ls)
  BY <1>1, <1>2
<1>4. /\ Keep(ls, m + 1) \in Seq(S) /\ Len(Keep(ls, m + 1)) = m + 1
      /\ \A k \in 1..(m + 1) : Keep(ls, m + 1)[k] = ls[k]
  BY <1>3, KeepSeq
<1>5. /\ Len(new) = m + 2 /\ new[m + 2] = l
      /\ \A k \in 1..(m + 1) : new[k] = ls[k]
  BY SMTT(30), <1>1, <1>4
<1>6. FuncLabelIs(ir, new[1])
  BY <1>1, <1>2, <1>5
<1>7. ASSUME NEW n \in 1..Depth(t, q) PROVE LabelIs(ir, t, q, new[n + 1], t.around[q][n])
  <2>1. CASE n = m + 1
    <3>1. new[n + 1] = l /\ t.around[q][n] = i
      BY <1>1, <1>5, <2>1
    <3> QED BY <3>1 DEF LabelIs
  <2>2. CASE n \in 1..m
    <3>1. new[n + 1] = ls[n + 1] /\ t.around[q][n] = t.around[i][n]
      BY SMTT(30), <1>1, <1>5, <2>2
    <3>2. LabelIs(ir, t, p, ls[n + 1], t.around[i][n])
      BY <1>2, <2>2
    <3>3. q \in i..(t.closer[i] + 1)
      BY <1>1
    <3>4. LabelIs(ir, t, q, ls[n + 1], t.around[i][n])
      BY <2>2, <3>2, <3>3, OuterLabels
    <3> QED BY <3>1, <3>4
  <2>3. n = m + 1 \/ n \in 1..m
    BY <1>1
  <2> QED BY <2>1, <2>2, <2>3
<1> QED BY SMTT(30), <1>1, <1>5, <1>6, <1>7 DEF LabelsFit

\* Landing after a construct.
LEMMA FitsAfter ==
  ASSUME NEW ir, NEW t, Bracketed(ir, t), NEW i \in 1..Len(ir), ir[i].op \in Openers,
         NEW p \in i..t.closer[i], NEW S, NEW ls \in Seq(S), LabelsFit(ir, t, p, ls), NEW q, q = t.closer[i] + 1
  PROVE  LabelsFit(ir, t, q, Keep(ls, Depth(t, i) + 1))
<1>1. /\ Depth(t, i) \in Nat /\ t.closer[i] \in (i + 1)..(Len(ir) - 1) /\ Len(ir) \in Nat
      /\ Depth(t, q) = Depth(t, i) /\ q \in (i + 1)..(t.closer[i] + 1)
      /\ \A n \in 1..Depth(t, i) : t.around[q][n] = t.around[i][n]
  <2>1. NestsAt(ir, t, i)
    BY ConstructNests
  <2>2. t.closer[i] \in (i + 1)..(Len(ir) - 1) /\ i \in Nat
    BY <2>1 DEF NestsAt
  <2>3. q \in (i + 1)..(t.closer[i] + 1)
    BY <2>2
  <2> QED BY <2>1, <2>3 DEF NestsAt
<1>2. /\ p \in 1..Len(ir) /\ Len(ls) >= Depth(t, i) + 1 /\ FuncLabelIs(ir, ls[1])
      /\ \A n \in 1..Depth(t, i) : LabelIs(ir, t, p, ls[n + 1], t.around[i][n])
  BY LabelsUpTo
<1> PICK m : m = Depth(t, i)
  OBVIOUS
<1> PICK new : new = Keep(ls, m + 1)
  OBVIOUS
<1>3. m + 1 \in 0..Len(ls)
  BY <1>1, <1>2
<1>4. Len(new) = m + 1 /\ \A k \in 1..(m + 1) : new[k] = ls[k]
  BY <1>3, KeepSeq
<1>6. FuncLabelIs(ir, new[1])
  BY SMTT(30), <1>1, <1>2, <1>4
<1>8. \A n \in 1..Depth(t, i) : LabelIs(ir, t, q, ls[n + 1], t.around[i][n])
  <2>1. q \in i..(t.closer[i] + 1)
    BY <1>1
  <2> QED BY <2>1, LabelsFrom
<1>7. ASSUME NEW n \in 1..Depth(t, q) PROVE LabelIs(ir, t, q, new[n + 1], t.around[q][n])
  <2>1. n \in 1..m /\ n + 1 \in 1..(m + 1)
    BY <1>1
  <2>2. new[n + 1] = ls[n + 1] /\ t.around[q][n] = t.around[i][n]
    BY <1>1, <1>4, <2>1
  <2>3. LabelIs(ir, t, q, ls[n + 1], t.around[i][n])
    BY <1>8, <2>1
  <2> QED BY <2>2, <2>3
<1> QED BY <1>1, <1>4, <1>6, <1>7 DEF LabelsFit

-----------------------------------------------------------------------------
(* Where the tables lead.                                                  *)

LEMMA TablesAt ==
  ASSUME NEW ir, NEW t, Bracketed(ir, t), NEW cf, cf = Precompute(ir),
         NEW i \in 1..Len(ir), ir[i].op \in Openers
  PROVE  /\ t.ir = ir /\ cf.endOf[i] = t.closer[i] /\ t.closer[i] \in (i + 1)..(Len(ir) - 1) /\ Len(ir) \in Nat
         /\ IF ElsesOf(t, i) = {} THEN cf.elseOf[i] = NoElse ELSE cf.elseOf[i] \in ElsesOf(t, i)
         /\ HandlersAre(ir, cf.handlers[i], CatchesOf(t, i))
         /\ cf.delegate[i] = IF ir[t.closer[i]].op = "delegate" THEN ir[t.closer[i]].label ELSE NoDelegate
<1>1. TablesHold(ir, t, cf)
  BY PrecomputeHolds DEF Bracketed
<1>2. Done(ir, t, cf, i) /\ ElseIs(t, cf.elseOf[i], i, Len(ir))
  BY <1>1 DEF TablesHold
<1>3. /\ t.closer[i] \in (i + 1)..(Len(ir) - 1) /\ Len(ir) \in Nat
      /\ \A p \in Inside(t, i) : p \in (i + 1)..(Len(ir) - 1)
      /\ ElsesOf(t, i) = {p \in Inside(t, i) : ir[p].op = "else"}
  BY InsideRange DEF Bracketed
<1>4. t.ir = ir
  BY BracketsMatch DEF Bracketed
<1>5. \A x \in ElsesOf(t, i) : ~(x > Len(ir))
  BY <1>3
<1>6. IF ElsesOf(t, i) = {} THEN cf.elseOf[i] = NoElse ELSE cf.elseOf[i] \in ElsesOf(t, i)
  BY <1>2, <1>5 DEF ElseIs
<1> QED BY <1>2, <1>3, <1>4, <1>6 DEF Done

\* An else or a catch leads to the end of the construct directly around it.
LEMMA SkipsTo ==
  ASSUME NEW ir, NEW t, Bracketed(ir, t), NEW cf, cf = Precompute(ir),
         NEW p \in 1..Len(ir), ir[p].op \in {"else"} \cup Catches
  PROVE  \E k \in 1..Len(ir) : /\ ir[k].op \in Openers /\ p \in Inside(t, k) /\ k < p
                               /\ cf.endOf[p] = t.closer[k]
                               /\ ir[p].op \in Catches => p \in CatchesOf(t, k)
<1>1. p < Len(ir) /\ Len(ir) \in Nat
  BY TheInnermost DEF Bracketed
<1>2. \E k \in 1..(p - 1) :
         /\ Innermost(t.around[p], k) /\ ir[k].op \in Openers /\ p \in Inside(t, k)
         /\ ir[p].op = "else" => ElsesOf(t, k) = {p}
         /\ ir[p].op \in Catches => p \in CatchesOf(t, k)
  BY TheInnermost DEF Bracketed
<1>3. PICK k \in 1..(p - 1) :
              /\ ir[k].op \in Openers /\ p \in Inside(t, k)
              /\ ir[p].op = "else" => ElsesOf(t, k) = {p}
              /\ ir[p].op \in Catches => p \in CatchesOf(t, k)
  BY <1>2
<1>4. k \in 1..Len(ir) /\ k < p
  BY <1>1
<1>5. TablesHold(ir, t, cf)
  BY PrecomputeHolds DEF Bracketed
<1>6. Done(ir, t, cf, k)
  BY <1>3, <1>4, <1>5 DEF TablesHold
<1>7. p \in ElsesOf(t, k) \cup CatchesOf(t, k)
  BY <1>3
<1>8. cf.endOf[p] = t.closer[k]
  BY <1>6, <1>7 DEF Done
<1> QED BY <1>3, <1>4, <1>8

\* A position directly inside a construct, and the one after it, are one level deeper.
LEMMA InsideDepth ==
  ASSUME NEW ir, NEW t, Bracketed(ir, t), NEW i \in 1..Len(ir), ir[i].op \in Openers,
         NEW p \in Inside(t, i)
  PROVE  /\ p \in (i + 1)..(Len(ir) - 1) /\ p < t.closer[i] /\ Depth(t, p) = Depth(t, i) + 1
         /\ ir[p].op \notin Openers \cup Closers => Depth(t, p + 1) = Depth(t, i) + 1
<1>0. PICK h : h = Heights(ir)
  OBVIOUS
<1>8. PICK a : a = AroundOf(ir, t.closer)
  OBVIOUS
<1>1. a = t.around /\ Nested(ir, h, t.closer) /\ Len(ir) \in Nat
  BY <1>0, <1>8, BracketsMatch DEF Bracketed
<1>2. p \in (i + 1)..(Len(ir) - 1) /\ p < t.closer[i]
  BY InsideRange DEF Bracketed
<1>3. p \in 1..Len(ir)
  BY <1>1, <1>2
<1>9. ASSUME NEW j \in 1..Len(ir), ir[j].op \in Openers, NEW r \in Inside(t, j)
      PROVE  Innermost(a[r], j)
  BY <1>0, <1>1, <1>8, <1>9, InsideIsInnermost
<1>4. Depth(t, p) > 0 /\ t.around[p][Depth(t, p)] = i
  BY <1>1, <1>9 DEF Innermost, Depth
<1>5. Depth(t, p) \in Nat
  BY <1>3, TextSteps DEF Depth
<1>6. Depth(t, p) = Depth(t, i) + 1
  <2> PICK n : n = Depth(t, p)
    OBVIOUS
  <2>1. n \in 1..Depth(t, p) /\ i = t.around[p][n]
    BY <1>4, <1>5
  <2>2. Depth(t, i) = n - 1
    BY <1>3, <2>1, OneAround
  <2> QED BY <1>5, <2>2
<1>7. ASSUME ir[p].op \notin Openers \cup Closers PROVE Depth(t, p + 1) = Depth(t, i) + 1
  <2>1. p \in 1..Len(ir) /\ p < Len(ir)
    BY <1>1, <1>2
  <2>2. t.around[p + 1] = t.around[p]
    BY <2>1, <1>7, TextSteps
  <2> QED BY <2>2, <1>6 DEF Depth
<1> QED BY <1>2, <1>6, <1>7

\* Into a construct: at its first instruction, past the else or to the end of an if.
LEMMA FitsIn ==
  ASSUME NEW ir, NEW t, Bracketed(ir, t), NEW cf, cf = Precompute(ir),
         NEW p \in 1..Len(ir), ir[p].op \in Openers, NEW S, NEW ls \in Seq(S), LabelsFit(ir, t, p, ls),
         NEW l \in S, Targets(ir, t, l, p), l.caught = NoExn,
         NEW q, \/ q = p + 1
                \/ ir[p].op = "if" /\ cf.elseOf[p] # NoElse /\ q = cf.elseOf[p] + 1
                \/ ir[p].op = "if" /\ q = cf.endOf[p]
  PROVE  LabelsFit(ir, t, q, Append(ls, l)) /\ q \in 1..Len(ir)
<1>1. /\ Depth(t, p) \in Nat /\ t.closer[p] \in (p + 1)..(Len(ir) - 1) /\ Len(ir) \in Nat
      /\ Depth(t, p + 1) = Depth(t, p) + 1 /\ Depth(t, t.closer[p]) = Depth(t, p) + 1
  BY AroundConstruct
<1>2. /\ t.ir = ir /\ cf.endOf[p] = t.closer[p]
      /\ IF ElsesOf(t, p) = {} THEN cf.elseOf[p] = NoElse ELSE cf.elseOf[p] \in ElsesOf(t, p)
  BY TablesAt
<1>3. ASSUME cf.elseOf[p] # NoElse, q = cf.elseOf[p] + 1
      PROVE  q \in (p + 1)..t.closer[p] /\ Depth(t, q) = Depth(t, p) + 1
  <2> PICK e : e = cf.elseOf[p]
    OBVIOUS
  <2>1. e \in Inside(t, p) /\ ir[e].op = "else"
    BY <1>2, <1>3 DEF ElsesOf
  <2>2. ir[e].op \notin Openers \cup Closers
    BY <2>1 DEF Openers, Closers
  <2>3. e \in (p + 1)..(Len(ir) - 1) /\ e < t.closer[p] /\ Depth(t, e + 1) = Depth(t, p) + 1
    BY <2>1, <2>2, InsideDepth
  <2> QED BY <1>1, <1>3, <2>3
<1>4. q \in (p + 1)..t.closer[p] /\ Depth(t, q) = Depth(t, p) + 1
  BY <1>1, <1>2, <1>3
<1>5. Catching(ir, t, l, p, q)
  <2>1. ~Handling(ir, t, p, q)
    <3>1. CASE ir[p].op = "if"
      BY <3>1 DEF Handling
    <3>2. CASE q = p + 1
      <4>1. \A k \in CatchesOf(t, p) : k \in (p + 1)..(Len(ir) - 1)
        BY <1>2, InsideRange DEF Bracketed, CatchesOf
      <4>2. ~InHandler(t, p, q)
        BY <4>1, <3>2, <1>1 DEF InHandler
      <4> QED BY <4>2 DEF Handling
    <3> QED BY <3>1, <3>2
  <2> QED BY <2>1 DEF Catching
<1>6. p \in p..t.closer[p]
  BY <1>1
<1>7. LabelsFit(ir, t, q, Append(Keep(ls, Depth(t, p) + 1), l))
  BY <1>4, <1>5, <1>6, FitsInside
<1>8. Keep(ls, Depth(t, p) + 1) = ls
  <2>1. Len(ls) = Depth(t, p) + 1
    BY DEF LabelsFit
  <2> QED BY <2>1, <1>1, KeepSeq
<1>9. q \in 1..Len(ir)
  BY <1>1, <1>4
<1> QED BY <1>7, <1>8, <1>9

\* From an else or a catch to the end of its construct.
LEMMA FitsSkip ==
  ASSUME NEW ir, NEW t, Bracketed(ir, t), NEW cf, cf = Precompute(ir),
         NEW p \in 1..Len(ir), ir[p].op \in {"else"} \cup Catches,
         NEW S, NEW ls \in Seq(S), LabelsFit(ir, t, p, ls)
  PROVE  LabelsFit(ir, t, cf.endOf[p], ls) /\ cf.endOf[p] \in 1..Len(ir)
<1>1. PICK i \in 1..Len(ir) : ir[i].op \in Openers /\ p \in Inside(t, i) /\ cf.endOf[p] = t.closer[i]
  BY SkipsTo
<1> PICK q : q = t.closer[i]
  OBVIOUS
<1>2. /\ Depth(t, i) \in Nat /\ q \in (i + 1)..(Len(ir) - 1) /\ Len(ir) \in Nat
      /\ Depth(t, q) = Depth(t, i) + 1
  BY <1>1, AroundConstruct
<1>3. p \in (i + 1)..(Len(ir) - 1) /\ p < q /\ Depth(t, p) = Depth(t, i) + 1
  BY <1>1, InsideDepth
<1>4. p \in i..t.closer[i] /\ p > i /\ q \in (i + 1)..t.closer[i]
  BY <1>2, <1>3
<1>5. LabelIs(ir, t, p, ls[Depth(t, i) + 2], i) /\ Len(ls) = Depth(t, i) + 2
  <2>1. Len(ls) = Depth(t, p) + 1
    BY DEF LabelsFit
  <2> QED BY <1>1, <1>2, <1>3, <1>4, <2>1, LabelsUpTo
<1> PICK l : l = ls[Depth(t, i) + 2]
  OBVIOUS
<1>6. l \in S
  BY <1>2, <1>5
<1>7. Handling(ir, t, i, p) => Handling(ir, t, i, q)
  <2>1. \A k \in CatchesOf(t, i) : k < p => k < q
    <3>1. \A k \in CatchesOf(t, i) : k \in Int
      BY <1>1, InsideRange DEF Bracketed, CatchesOf
    <3> QED BY <1>2, <1>3, <3>1
  <2> QED BY <2>1 DEF Handling, InHandler
<1>8. Targets(ir, t, l, i) /\ Catching(ir, t, l, i, q)
  BY <1>2, <1>5, <1>7 DEF LabelIs, Catching
<1>9. LabelsFit(ir, t, q, Append(Keep(ls, Depth(t, i) + 1), l))
  BY <1>1, <1>2, <1>4, <1>6, <1>8, FitsInside
<1>10. Append(Keep(ls, Depth(t, i) + 1), l) = ls
  <2> PICK n : n = Depth(t, i) + 1
    OBVIOUS
  <2>1. n \in 0..Len(ls) /\ n < Len(ls) /\ n + 1 \in 0..Len(ls) /\ n + 1 = Len(ls) /\ l = ls[n + 1]
    BY <1>2, <1>5
  <2>2. Append(Keep(ls, n), ls[n + 1]) = Keep(ls, n + 1)
    BY SMTT(30), <2>1, KeepSeq
  <2>3. Keep(ls, n + 1) = ls
    BY <2>1, KeepSeq
  <2> QED BY <2>1, <2>2, <2>3
<1>11. q \in 1..Len(ir)
  BY <1>2
<1>12. LabelsFit(ir, t, q, ls)
  BY <1>9, <1>10
<1>13. cf.endOf[p] = q
  BY <1>1
<1> QED BY <1>11, <1>12, <1>13

\* A label other than the function's is that of a construct around.
LEMMA LabelOfConstruct ==
  ASSUME NEW ir, NEW t, Bracketed(ir, t), NEW p \in 1..Len(ir), NEW ls, LabelsFit(ir, t, p, ls),
         NEW k \in 2..Len(ls)
  PROVE  \E i \in 1..Len(ir) : /\ i = t.around[p][k - 1] /\ ir[i].op \in Openers
                               /\ p \in i..t.closer[i] /\ i < p
                               /\ Depth(t, i) = k - 2 /\ LabelIs(ir, t, p, ls[k], i)
<1>1. t.around[p] \in Seq(Nat)
  BY TextSteps
<1>2. Depth(t, p) \in Nat /\ Len(ls) = Depth(t, p) + 1
  BY <1>1 DEF LabelsFit, Depth
<1> PICK n : n = k - 1
  OBVIOUS
<1>3. n \in 1..Depth(t, p) /\ k = n + 1
  BY <1>2
<1>4. LabelIs(ir, t, p, ls[n + 1], t.around[p][n])
  BY <1>3 DEF LabelsFit
<1> PICK i : i = t.around[p][n]
  OBVIOUS
<1>5. i \in 1..(p - 1) /\ i \in 1..Len(ir) /\ ir[i].op \in Openers /\ p <= t.closer[i] /\ Depth(t, i) = n - 1
  BY SMTT(30), <1>3, OneAround
<1>6. t.closer[i] \in (i + 1)..(Len(ir) - 1) /\ Len(ir) \in Nat
  BY <1>5, AroundConstruct
<1>7. p \in i..t.closer[i] /\ i < p
  BY <1>5, <1>6
<1> QED BY <1>3, <1>4, <1>5, <1>7

\* Where a branch to the k-th label leads.
LEMMA FitsBranch ==
  ASSUME NEW ir, NEW t, Bracketed(ir, t), NEW p \in 1..Len(ir),
         NEW S, NEW ls \in Seq(S), LabelsFit(ir, t, p, ls), NEW k \in 1..Len(ls),
         NEW l, l = ls[k], NEW q, q = l.target
  PROVE  /\ q \in 1..(Len(ir) + 1)
         /\ LabelsFit(ir, t, q, IF l.isLoop THEN Keep(ls, k) ELSE Keep(ls, k - 1))
<1>0. Len(ir) \in Nat
  BY DEF Bracketed
<1>1. CASE k = 1
  <2>1. FuncLabelIs(ir, ls[1])
    BY DEF LabelsFit
  <2>2. q = Len(ir) + 1
    BY <1>1, <2>1 DEF FuncLabelIs
  <2>3. q \notin 1..Len(ir)
    BY <1>0, <2>2
  <2> QED BY <1>0, <2>2, <2>3 DEF LabelsFit
<1>2. CASE k # 1
  <2>1. k \in 2..Len(ls)
    BY <1>2
  <2>2. PICK i \in 1..Len(ir) : /\ ir[i].op \in Openers /\ p \in i..t.closer[i] /\ i < p
                                /\ Depth(t, i) = k - 2 /\ LabelIs(ir, t, p, ls[k], i)
    BY <2>1, LabelOfConstruct
  <2>3. /\ t.closer[i] \in (i + 1)..(Len(ir) - 1) /\ Depth(t, i + 1) = Depth(t, i) + 1
    BY <2>2, AroundConstruct
  <2>4. CASE ir[i].op = "loop"
    <3>1. l.isLoop = TRUE /\ q = i + 1
      BY <2>2, <2>4 DEF LabelIs, Targets
    <3>2. q \in (i + 1)..t.closer[i] /\ Depth(t, q) = Depth(t, i) + 1
      BY <2>3, <3>1
    <3>3. Targets(ir, t, l, i) /\ Catching(ir, t, l, i, q) /\ l \in S
      BY <2>2, <2>4 DEF LabelIs, Catching, Handling
    <3>4. LabelsFit(ir, t, q, Append(Keep(ls, Depth(t, i) + 1), l))
      BY <2>2, <3>2, <3>3, FitsInside
    <3>5. Append(Keep(ls, Depth(t, i) + 1), l) = Keep(ls, k)
      <4> PICK n : n = Depth(t, i) + 1
        OBVIOUS
      <4>1. n \in 0..Len(ls) /\ n < Len(ls) /\ n + 1 = k
        BY <2>1, <2>2
      <4> QED BY SMTT(30), <4>1, KeepSeq
    <3>6. LabelsFit(ir, t, q, Keep(ls, k))
      BY <3>4, <3>5
    <3>7. q \in 1..(Len(ir) + 1)
      BY <1>0, <2>3, <3>1
    <3> QED BY <3>1, <3>6, <3>7
  <2>5. CASE ir[i].op # "loop"
    <3>1. l.isLoop = FALSE /\ q = t.closer[i] + 1
      BY <2>2, <2>5 DEF LabelIs, Targets
    <3>2. LabelsFit(ir, t, q, Keep(ls, Depth(t, i) + 1))
      BY <2>2, <3>1, FitsAfter
    <3>3. Depth(t, i) + 1 = k - 1
      BY <2>1, <2>2
    <3>4. LabelsFit(ir, t, q, Keep(ls, k - 1))
      BY <3>2, <3>3
    <3>5. q \in 1..(Len(ir) + 1)
      BY <1>0, <2>3, <3>1
    <3> QED BY <3>1, <3>4, <3>5
  <2> QED BY <2>4, <2>5
<1> QED BY <1>1, <1>2

\* Where a handler of the k-th label's construct is.
LEMMA FitsHandler ==
  ASSUME NEW ir, NEW t, Bracketed(ir, t), NEW cf, cf = Precompute(ir), NEW p \in 1..Len(ir),
         NEW S, NEW ls \in Seq(S), LabelsFit(ir, t, p, ls), NEW k \in 1..Len(ls),
         NEW l, l = ls[k], l.legacy # NoTry, NEW x \in 1..Len(cf.handlers[l.legacy]),
         NEW h, h = cf.handlers[l.legacy][x],
         NEW l2 \in S, l2.isLoop = l.isLoop, l2.target = l.target, l2.tryTable = l.tryTable,
         l2.legacy = l.legacy, l2.caught # NoExn
  PROVE  /\ h.pc \in 1..Len(ir) /\ LabelsFit(ir, t, h.pc, Append(Keep(ls, k - 1), l2))
<1>0. Len(ir) \in Nat
  BY DEF Bracketed
<1>1. k \in 2..Len(ls)
  <2>1. FuncLabelIs(ir, ls[1])
    BY DEF LabelsFit
  <2>2. k # 1
    BY <2>1 DEF FuncLabelIs
  <2> QED BY <2>2
<1>2. PICK i \in 1..Len(ir) : /\ ir[i].op \in Openers /\ p \in i..t.closer[i] /\ i < p
                              /\ Depth(t, i) = k - 2 /\ LabelIs(ir, t, p, ls[k], i)
  BY <1>1, LabelOfConstruct
<1>3. /\ t.closer[i] \in (i + 1)..(Len(ir) - 1) /\ Depth(t, i) \in Nat
  BY <1>2, AroundConstruct
<1>4. l.legacy = i /\ ir[i].op = "try" /\ Targets(ir, t, l, i)
  BY <1>2 DEF LabelIs, Targets
<1>5. HandlersAre(ir, cf.handlers[i], CatchesOf(t, i)) /\ t.ir = ir
  BY <1>2, TablesAt
<1>6. PICK c \in CatchesOf(t, i) : h = HandlerAt(ir, c)
  BY <1>4, <1>5 DEF HandlersAre
<1>7. h.pc = c + 1
  BY <1>6 DEF HandlerAt
<1>8. c \in Inside(t, i) /\ ir[c].op \in Catches
  BY <1>5 DEF CatchesOf
<1>9. ir[c].op \notin Openers \cup Closers
  BY <1>8 DEF Catches, Openers, Closers
<1>10. c \in (i + 1)..(Len(ir) - 1) /\ c < t.closer[i] /\ Depth(t, c + 1) = Depth(t, i) + 1
  BY SMTT(30), <1>2, <1>8, <1>9, InsideDepth
<1> PICK q : q = c + 1
  OBVIOUS
<1>11. q \in (i + 1)..t.closer[i] /\ Depth(t, q) = Depth(t, i) + 1 /\ q \in 1..Len(ir) /\ h.pc = q
  BY <1>0, <1>3, <1>7, <1>10
<1>12. Handling(ir, t, i, q)
  <2>1. c < q
    BY <1>10
  <2> QED BY <1>4, <1>6, <2>1 DEF Handling, InHandler
<1>13. Targets(ir, t, l2, i) /\ Catching(ir, t, l2, i, q)
  BY <1>4, <1>12 DEF Targets, Catching
<1>14. LabelsFit(ir, t, q, Append(Keep(ls, Depth(t, i) + 1), l2))
  BY <1>2, <1>11, <1>13, FitsInside
<1>15. Depth(t, i) + 1 = k - 1
  BY <1>1, <1>2
<1> QED BY <1>11, <1>14, <1>15

-----------------------------------------------------------------------------
(* The state of the machine.  c is the code and ts the texts of its bodies; *)
(* neither changes, so that these speak of the next state as of this one.   *)

Value == {v \in Int : v >= NullRef}
Exns == [tag : Nat \ {0}, values : Seq(Value)]
Labels ==
  [isLoop : BOOLEAN, arity : Nat, target : Nat \ {0}, base : Nat,
   tryTable : Nat, legacy : Nat, caught : Exns \cup {NoExn}]
Frames ==
  [inst : Nat, func : Nat, pc : Nat \ {0}, vals : Seq(Value), locals : Seq(Value),
   depth : Nat, hops : Nat, labels : Seq(Labels)]
CallArgs == [inst : Nat, func : Nat, args : Seq(Value), depth : Nat, hops : Nat]

IsFunc(c, i, f) == i \in 1..Len(c.insts) /\ f \in 1..Len(c.insts[i].funcs)
FuncOf(c, fr) == c.insts[fr.inst].funcs[fr.func]
BodyOf(c, fr) == FuncOf(c, fr).ir

\* What is known of a function of valid code.
FuncIsValid(c, ts, i, f) ==
  LET fn == c.insts[i].funcs[f]
  IN  /\ fn.kind \in {"import", "host", "wasm"} /\ fn.params \in Nat /\ fn.results \in Nat
      /\ fn.kind = "import" => IsFunc(c, fn.inst, fn.func)
      /\ fn.kind = "wasm" => /\ Bracketed(fn.ir, ts[i][f]) /\ c.tables[i][f] = Precompute(fn.ir)
                             /\ \A k \in 1..Len(fn.ir) : ValidInstr(c.insts[i], fn.ir[k])
CodeIsValid(c, ts) ==
  /\ \A f \in c.exports : IsFunc(c, 1, f)
  /\ \A i \in 1..Len(c.insts) : \A f \in 1..Len(c.insts[i].funcs) : FuncIsValid(c, ts, i, f)
  /\ \A i \in 1..Len(c.insts) : \A t \in 1..Len(c.insts[i].tags) : c.insts[i].tags[t] \in 1..Len(c.arity)
  /\ \A slot \in 1..Len(c.arity) : c.arity[slot] \in Nat

LEMMA LoadedIsValid ==
  ASSUME NEW p \in 1..Len(Programs)
  PROVE  CodeIsValid(Loaded(Programs[p]), Texts[p])
<1> PICK P : P = Programs[p]
  OBVIOUS
<1> PICK ts : ts = Texts[p]
  OBVIOUS
<1> PICK c : c = Loaded(P)
  OBVIOUS
<1>1. ValidProgram(P, ts)
  BY ProgramsAreValid
<1>2. /\ c.insts = P.insts /\ c.arity = P.arity /\ c.exports = P.exports
      /\ c.tables = [i \in 1..Len(P.insts) |->
                 [f \in 1..Len(P.insts[i].funcs) |-> Precompute(P.insts[i].funcs[f].ir)]]
  BY DEF Loaded
<1>3. ts = [i \in 1..Len(P.insts) |-> [f \in 1..Len(P.insts[i].funcs) |-> Text(P.insts[i].funcs[f].ir)]]
  BY DEF Texts
<1>4. Len(P.insts) \in Nat \ {0} /\ \A f \in P.exports : f \in 1..Len(P.insts[1].funcs)
  BY <1>1 DEF ValidProgram
<1>5. \A f \in c.exports : IsFunc(c, 1, f)
  BY <1>2, <1>4 DEF IsFunc
<1>6. ASSUME NEW i \in 1..Len(P.insts), NEW f \in 1..Len(P.insts[i].funcs)
      PROVE  FuncIsValid(c, ts, i, f)
  <2> PICK inst : inst = P.insts[i]
    OBVIOUS
  <2> PICK fn : fn = inst.funcs[f]
    OBVIOUS
  <2>1. ValidFunc(P, fn, inst, ts[i][f])
    BY <1>1 DEF ValidProgram
  <2>2. /\ ts[i][f] = Text(fn.ir)
        /\ c.tables[i][f] = Precompute(fn.ir)
    <3>1. ts[i] = [g \in 1..Len(inst.funcs) |-> Text(inst.funcs[g].ir)]
      BY <1>3
    <3>2. c.tables[i] = [g \in 1..Len(inst.funcs) |-> Precompute(inst.funcs[g].ir)]
      BY <1>2
    <3> QED BY <3>1, <3>2
  <2>3. /\ fn.kind \in {"import", "host", "wasm"} /\ fn.params \in Nat /\ fn.results \in Nat
        /\ fn.kind = "import" => IsFunc(c, fn.inst, fn.func)
    BY <1>2, <2>1 DEF ValidFunc, IsFunc
  <2>4. ASSUME fn.kind = "wasm"
        PROVE  /\ Bracketed(fn.ir, ts[i][f])
               /\ \A k \in 1..Len(fn.ir) : ValidInstr(inst, fn.ir[k])
    BY <2>1, <2>2, <2>4 DEF ValidFunc, Bracketed
  <2>5. c.insts[i] = inst /\ c.insts[i].funcs[f] = fn
    BY <1>2
  <2> QED BY <2>2, <2>3, <2>4, <2>5 DEF FuncIsValid
<1>7. /\ \A slot \in 1..Len(P.arity) : P.arity[slot] \in Nat
      /\ \A i \in 1..Len(P.insts) : \A t \in 1..Len(P.insts[i].tags) : P.insts[i].tags[t] \in 1..Len(P.arity)
  BY <1>1 DEF ValidProgram
<1> QED BY <1>2, <1>5, <1>6, <1>7 DEF CodeIsValid

\* A frame of a body, its labels those around its position.
FrameFits(c, ts, fr) ==
  /\ IsFunc(c, fr.inst, fr.func) /\ FuncOf(c, fr).kind = "wasm"
  /\ fr.pc \in 1..(Len(BodyOf(c, fr)) + 1)
  /\ LabelsFit(BodyOf(c, fr), ts[fr.inst][fr.func], fr.pc, fr.labels)
AtCall(c, fr) == fr.pc \in 1..Len(BodyOf(c, fr)) /\ BodyOf(c, fr)[fr.pc].op = "call"

\* The frames under the innermost, and all of them while no instruction runs,
\* are at a call.
StackFits(c, ts, fs, m) ==
  /\ fs \in Seq(Frames)
  /\ \A k \in 1..Len(fs) : FrameFits(c, ts, fs[k])
  /\ \A k \in 1..Len(fs) : k < Len(fs) \/ m # "run" => AtCall(c, fs[k])
  /\ m = "idle" => fs = <<>>
  /\ m = "run" => fs # <<>>

LEMMA StackTop ==
  ASSUME NEW c, NEW ts, NEW fs, NEW m, StackFits(c, ts, fs, m), fs # <<>>,
         NEW fr \in Frames, FrameFits(c, ts, fr)
  PROVE  StackFits(c, ts, [fs EXCEPT ![Len(fs)] = fr], "run")
<1>9. PICK gs : gs = [fs EXCEPT ![Len(fs)] = fr]
  OBVIOUS
<1>5. fs \in Seq(Frames)
  BY DEF StackFits
<1>2. /\ gs \in Seq(Frames) /\ Len(gs) = Len(fs) /\ gs[Len(fs)] = fr /\ gs # <<>>
      /\ \A k \in 1..Len(fs) : k # Len(fs) => gs[k] = fs[k]
  BY <1>5, <1>9, TopChanged
<1>1. Len(fs) \in Nat /\ Len(fs) > 0
  BY <1>5, TopChanged
<1>4. ASSUME NEW k \in 1..Len(gs)
      PROVE  FrameFits(c, ts, gs[k]) /\ (k < Len(gs) => AtCall(c, gs[k]))
  <2>1. CASE k = Len(fs)
    BY <1>1, <1>2, <2>1
  <2>2. CASE k # Len(fs)
    <3>1. gs[k] = fs[k] /\ k < Len(fs) /\ k \in 1..Len(fs)
      BY <1>1, <1>2, <2>2
    <3> QED BY <3>1 DEF StackFits
  <2> QED BY <2>1, <2>2
<1> QED BY <1>2, <1>4, <1>9 DEF StackFits

LEMMA StackPop ==
  ASSUME NEW c, NEW ts, NEW fs, NEW m, StackFits(c, ts, fs, m), fs # <<>>, NEW m2 \in {"call", "unwind"}
  PROVE  StackFits(c, ts, Front(fs), m2)
<1> PICK gs : gs = Front(fs)
  OBVIOUS
<1>0. fs \in Seq(Frames)
  BY DEF StackFits
<1>1. Len(fs) \in Nat /\ Len(fs) > 0
  BY <1>0, FrontSeq
<1>2. /\ gs \in Seq(Frames) /\ Len(gs) = Len(fs) - 1
      /\ \A k \in 1..(Len(fs) - 1) : gs[k] = fs[k]
  BY <1>0, FrontSeq
<1>3. ASSUME NEW k \in 1..Len(gs) PROVE FrameFits(c, ts, gs[k]) /\ AtCall(c, gs[k])
  <2>1. gs[k] = fs[k] /\ k < Len(fs) /\ k \in 1..Len(fs)
    BY <1>1, <1>2
  <2> QED BY <2>1 DEF StackFits
<1> QED BY <1>2, <1>3 DEF StackFits

LEMMA StackPush ==
  ASSUME NEW c, NEW ts, NEW fs, NEW m, StackFits(c, ts, fs, m), m # "run",
         NEW fr \in Frames, FrameFits(c, ts, fr)
  PROVE  StackFits(c, ts, Append(fs, fr), "run")
<1> PICK gs : gs = Append(fs, fr)
  OBVIOUS
<1>1. fs \in Seq(Frames) /\ Len(fs) \in Nat
  BY DEF StackFits
<1>2. /\ gs \in Seq(Frames) /\ Len(gs) = Len(fs) + 1 /\ gs[Len(fs) + 1] = fr
      /\ \A k \in 1..Len(fs) : gs[k] = fs[k]
  BY <1>1, LongerSeq
<1>3. gs # <<>>
  <2>1. \A v \in Seq(Frames) : Len(v) > 0 => v # <<>>
    OBVIOUS
  <2> QED BY <1>1, <1>2, <2>1
<1>4. ASSUME NEW k \in 1..Len(gs)
      PROVE  FrameFits(c, ts, gs[k]) /\ (k < Len(gs) => AtCall(c, gs[k]))
  <2>1. CASE k = Len(gs)
    BY <1>1, <1>2, <2>1
  <2>2. CASE k # Len(gs)
    <3>1. gs[k] = fs[k] /\ k \in 1..Len(fs)
      BY <1>1, <1>2, <2>2
    <3> QED BY <3>1 DEF StackFits
  <2> QED BY <2>1, <2>2
<1> QED BY <1>2, <1>3, <1>4 DEF StackFits

LEMMA StackCalls ==
  ASSUME NEW c, NEW ts, NEW fs, NEW m, StackFits(c, ts, fs, m), NEW m2 \in {"call", "unwind"},
         fs = <<>> \/ m # "run" \/ AtCall(c, fs[Len(fs)])
  PROVE  StackFits(c, ts, fs, m2)
<1>1. fs \in Seq(Frames) /\ Len(fs) \in Nat
  BY DEF StackFits
<1>2. ASSUME NEW k \in 1..Len(fs) PROVE AtCall(c, fs[k])
  <2>1. k < Len(fs) \/ k = Len(fs)
    BY <1>1
  <2>2. fs # <<>>
    BY <1>1
  <2> QED BY <2>1, <2>2 DEF StackFits
<1> QED BY <1>1, <1>2 DEF StackFits

-----------------------------------------------------------------------------
(* What becomes of a frame.                                                *)

\* A frame that went on to q with the labels ls and the operands v.
Moved(fr, q, ls, v) ==
  [inst |-> fr.inst, func |-> fr.func, pc |-> q, vals |-> v, locals |-> fr.locals,
   depth |-> fr.depth, hops |-> fr.hops, labels |-> ls]

TextFor(ts, fr) == ts[fr.inst][fr.func]

LEMMA FrameIs ==
  ASSUME NEW fr \in Frames
  PROVE  /\ fr = Moved(fr, fr.pc, fr.labels, fr.vals)
         /\ fr.pc \in Nat \ {0} /\ fr.labels \in Seq(Labels) /\ fr.vals \in Seq(Value)
         /\ fr.depth \in Nat /\ fr.hops \in Nat /\ fr.locals \in Seq(Value) /\ fr.inst \in Nat /\ fr.func \in Nat
BY DEF Frames, Moved

LEMMA LabelParts ==
  ASSUME NEW l \in Labels
  PROVE  /\ l = [isLoop |-> l.isLoop, arity |-> l.arity, target |-> l.target, base |-> l.base,
                 tryTable |-> l.tryTable, legacy |-> l.legacy, caught |-> l.caught]
         /\ l.isLoop \in BOOLEAN /\ l.arity \in Nat /\ l.target \in Nat \ {0} /\ l.base \in Nat
         /\ l.tryTable \in Nat /\ l.legacy \in Nat /\ l.caught \in Exns \cup {NoExn}
BY DEF Labels

\* A frame that comes after fr in the same activation.
Follows(c, ts, fr, g) ==
  /\ g \in Frames /\ FrameFits(c, ts, g)
  /\ g.depth = fr.depth /\ g.hops = fr.hops /\ g.inst = fr.inst /\ g.func = fr.func

LEMMA MovedFits ==
  ASSUME NEW c, NEW ts, NEW fr \in Frames, FrameFits(c, ts, fr),
         NEW q \in 1..(Len(BodyOf(c, fr)) + 1), NEW ls \in Seq(Labels), NEW v \in Seq(Value),
         LabelsFit(BodyOf(c, fr), TextFor(ts, fr), q, ls),
         NEW g, g = Moved(fr, q, ls, v)
  PROVE  Follows(c, ts, fr, g)
<1>1. /\ g.inst = fr.inst /\ g.func = fr.func /\ g.pc = q /\ g.labels = ls
      /\ g.depth = fr.depth /\ g.hops = fr.hops
  BY DEF Moved
<1>2. q \in Nat \ {0}
  OBVIOUS
<1>3. fr.inst \in Nat /\ fr.func \in Nat /\ fr.locals \in Seq(Value) /\ fr.depth \in Nat /\ fr.hops \in Nat
  BY FrameIs
<1>4. g \in Frames
  BY <1>2, <1>3 DEF Moved, Frames
<1>5. FuncOf(c, g) = FuncOf(c, fr) /\ BodyOf(c, g) = BodyOf(c, fr)
  BY <1>1 DEF FuncOf, BodyOf
<1>6. FrameFits(c, ts, g)
  BY <1>1, <1>5 DEF FrameFits, TextFor
<1> QED BY <1>1, <1>4, <1>6 DEF Follows

LEMMA FrameBody ==
  ASSUME NEW c, NEW ts, CodeIsValid(c, ts), NEW fr, FrameFits(c, ts, fr)
  PROVE  /\ Bracketed(BodyOf(c, fr), TextFor(ts, fr)) /\ Len(BodyOf(c, fr)) \in Nat
         /\ c.tables[fr.inst][fr.func] = Precompute(BodyOf(c, fr))
         /\ \A k \in 1..Len(BodyOf(c, fr)) : ValidInstr(c.insts[fr.inst], BodyOf(c, fr)[k])
         /\ FuncOf(c, fr).params \in Nat /\ FuncOf(c, fr).results \in Nat
         /\ IsFunc(c, fr.inst, fr.func)
<1>1. IsFunc(c, fr.inst, fr.func) /\ FuncOf(c, fr).kind = "wasm"
  BY DEF FrameFits
<1>2. FuncIsValid(c, ts, fr.inst, fr.func)
  BY <1>1 DEF CodeIsValid, IsFunc
<1> QED BY <1>1, <1>2 DEF FuncIsValid, FuncOf, BodyOf, TextFor, Bracketed

\* Operands taken from the bottom and from the top.
LEMMA KeptValues ==
  ASSUME NEW S, NEW v \in Seq(S), NEW n \in Int, n <= Len(v)
  PROVE  Keep(v, n) \in Seq(S)
BY DEF Keep

LEMMA LastValues ==
  ASSUME NEW S, NEW v \in Seq(S), NEW n \in Nat, n <= Len(v)
  PROVE  LastN(v, n) \in Seq(S) /\ Len(LastN(v, n)) = n
BY DEF LastN

LEMMA Joined ==
  ASSUME NEW S, NEW u \in Seq(S), NEW v \in Seq(S)
  PROVE  u \o v \in Seq(S)
OBVIOUS

LEMMA OperandsMoved ==
  ASSUME NEW S, NEW v \in Seq(S), NEW a \in Nat, NEW b \in Nat, Len(v) - a >= b
  PROVE  Keep(v, b) \o LastN(v, a) \in Seq(S)
<1>1. b \in Int /\ b <= Len(v) /\ a <= Len(v)
  OBVIOUS
<1>2. Keep(v, b) \in Seq(S)
  BY <1>1, KeptValues
<1>3. LastN(v, a) \in Seq(S)
  BY <1>1, LastValues
<1> QED BY <1>2, <1>3, Joined

\* An outcome: a frame that fits, or an error; fuel and boxes within their limits.
OutcomeFits(c, ts, fr, o) ==
  /\ o.fuel \in 0..MaxIterations /\ o.boxes \in Seq(Exns) /\ Len(o.boxes) <= MaxExnBoxes
  /\ o.err = Ok => Follows(c, ts, fr, o.frame)

LEMMA SpentFuel ==
  ASSUME NEW fu \in 0..MaxIterations, ~OutOfFuel(fu)
  PROVE  Spend(fu) \in 0..MaxIterations
BY LimitsAreNumbers DEF OutOfFuel, Spend

LEMMA JumpFits ==
  ASSUME NEW c, NEW ts, CodeIsValid(c, ts), NEW fr \in Frames, FrameFits(c, ts, fr),
         fr.pc \in 1..Len(BodyOf(c, fr)), NEW k \in 1..Len(fr.labels), NEW l, l = fr.labels[k],
         Len(fr.vals) - l.arity >= l.base, NEW n, n = IF l.isLoop THEN k ELSE k - 1,
         NEW g, g = Jump(fr, l, n)
  PROVE  Follows(c, ts, fr, g)
<1> PICK ir : ir = BodyOf(c, fr)
  OBVIOUS
<1> PICK t : t = TextFor(ts, fr)
  OBVIOUS
<1> PICK q : q = l.target
  OBVIOUS
<1> PICK ls : ls = Keep(fr.labels, n)
  OBVIOUS
<1> PICK v : v = Keep(fr.vals, l.base) \o LastN(fr.vals, l.arity)
  OBVIOUS
<1>1. Bracketed(ir, t)
  BY FrameBody
<1>2. LabelsFit(ir, t, fr.pc, fr.labels)
  BY DEF FrameFits, TextFor
<1>3. fr.labels \in Seq(Labels) /\ fr.vals \in Seq(Value) /\ fr = Moved(fr, fr.pc, fr.labels, fr.vals)
  BY FrameIs
<1>4. l \in Labels
  BY <1>3
<1>5. l.arity \in Nat /\ l.base \in Nat /\ l.isLoop \in BOOLEAN
  BY <1>4, LabelParts
<1>6. q \in 1..(Len(ir) + 1) /\ LabelsFit(ir, t, q, ls)
  <2>1. /\ q \in 1..(Len(ir) + 1)
        /\ LabelsFit(ir, t, q, IF l.isLoop THEN Keep(fr.labels, k) ELSE Keep(fr.labels, k - 1))
    BY <1>1, <1>2, <1>3, FitsBranch
  <2> QED BY <2>1, <1>5
<1>7. ls \in Seq(Labels)
  <2>1. n \in 0..Len(fr.labels)
    BY <1>3, <1>5
  <2> QED BY <2>1, <1>3, KeepSeq
<1>8. v \in Seq(Value)
  BY <1>3, <1>5, OperandsMoved
<1>9. g = Moved(fr, q, ls, v)
  BY <1>3 DEF Jump, Moved
<1>10. q \in 1..(Len(BodyOf(c, fr)) + 1) /\ LabelsFit(BodyOf(c, fr), TextFor(ts, fr), q, ls)
  BY <1>6
<1> QED BY <1>7, <1>8, <1>9, <1>10, MovedFits

LEMMA BranchFits ==
  ASSUME NEW c, NEW ts, CodeIsValid(c, ts), NEW fr \in Frames, FrameFits(c, ts, fr),
         fr.pc \in 1..Len(BodyOf(c, fr)), NEW n \in Nat, NEW fu \in 0..MaxIterations,
         NEW bx \in Seq(Exns), Len(bx) <= MaxExnBoxes, NEW o, o = Branch(fr, n, fu, bx)
  PROVE  OutcomeFits(c, ts, fr, o)
<1> PICK k : k = Len(fr.labels) - n
  OBVIOUS
<1> PICK l : l = fr.labels[k]
  OBVIOUS
<1>1. fr.labels \in Seq(Labels) /\ Len(fr.labels) \in Nat /\ fr.vals \in Seq(Value) /\ Len(fr.vals) \in Nat
  BY FrameIs
<1>2. o = IF k < 1 THEN Fails("UndefinedLabel", fr, fu, bx)
      ELSE IF Len(fr.vals) - l.arity < l.base THEN Fails("StackUnderflow", fr, fu, bx)
      ELSE IF ~l.isLoop THEN Fine(Jump(fr, l, k - 1), fu, bx)
      ELSE IF OutOfFuel(fu) THEN Fails("IterationLimitExceeded", fr, fu, bx)
      ELSE Fine(Jump(fr, l, k), Spend(fu), bx)
  BY DEF Branch
<1>3. \A e \in {"UndefinedLabel", "StackUnderflow", "IterationLimitExceeded"} :
        OutcomeFits(c, ts, fr, Fails(e, fr, fu, bx))
  BY DEF OutcomeFits, Fails, Ok
<1>4. CASE k < 1
  BY <1>2, <1>3, <1>4
<1>5. CASE k >= 1
  <2>1. k \in 1..Len(fr.labels)
    BY <1>1, <1>5
  <2>2. l \in Labels
    BY <1>1, <2>1
  <2>3. l.arity \in Nat /\ l.base \in Nat /\ l.isLoop \in BOOLEAN
    BY <2>2, LabelParts
  <2>4. CASE Len(fr.vals) - l.arity < l.base
    BY <1>2, <1>3, <1>5, <2>1, <2>4
  <2>5. CASE Len(fr.vals) - l.arity >= l.base
    <3>1. ~(k < 1) /\ ~(Len(fr.vals) - l.arity < l.base)
      BY SMTT(30), <1>1, <2>1, <2>3, <2>5
    <3>2. CASE ~l.isLoop
      <4>1. o = Fine(Jump(fr, l, k - 1), fu, bx)
        BY <1>2, <3>1, <3>2
      <4> PICK n2 : n2 = k - 1
        OBVIOUS
      <4>5. n2 = IF l.isLoop THEN k ELSE k - 1
        BY <3>2
      <4> PICK g : g = Jump(fr, l, n2)
        OBVIOUS
      <4>2. Follows(c, ts, fr, g)
        BY <2>1, <2>5, <4>5, JumpFits
      <4> QED BY <4>1, <4>2 DEF Fine, OutcomeFits
    <3>3. CASE l.isLoop /\ OutOfFuel(fu)
      BY <1>2, <1>3, <3>1, <3>3
    <3>4. CASE l.isLoop /\ ~OutOfFuel(fu)
      <4>1. o = Fine(Jump(fr, l, k), Spend(fu), bx)
        BY <1>2, <3>1, <3>4
      <4> PICK n2 : n2 = k
        OBVIOUS
      <4>5. n2 = IF l.isLoop THEN k ELSE k - 1
        BY <3>4
      <4> PICK g : g = Jump(fr, l, n2)
        OBVIOUS
      <4>2. Follows(c, ts, fr, g)
        BY <2>1, <2>5, <4>5, JumpFits
      <4>3. Spend(fu) \in 0..MaxIterations
        BY <3>4, SpentFuel
      <4> QED BY <4>1, <4>2, <4>3 DEF Fine, OutcomeFits
    <3> QED BY <3>2, <3>3, <3>4
  <2> QED BY <1>1, <2>3, <2>4, <2>5
<1> QED BY <1>1, <1>4, <1>5

-----------------------------------------------------------------------------
(* The search for a handler.                                               *)

\* What the search says at d, by what g says deeper.
SearchStep(fr, exn, g, n, d) ==
  IF d = n THEN Nowhere
  ELSE LET l == fr.labels[n - d]
           skip == CF(fr).delegate[l.legacy]
       IN  IF l.tryTable # NoTry /\ Catch(fr, l, exn) # 0
           THEN [kind |-> "table", depth |-> d, clause |-> Catch(fr, l, exn)]
           ELSE IF l.legacy # NoTry /\ skip # NoDelegate
           THEN g[IF d + 1 + skip < n THEN d + 1 + skip ELSE n]
           ELSE IF l.legacy # NoTry /\ ~PastItsBody(l) /\ Handler(fr, l, exn) # 0
           THEN [kind |-> "legacy", depth |-> d, clause |-> Handler(fr, l, exn)]
           ELSE g[d + 1]
SearchesFrom(g, fr, exn, n, m) == g = [d \in m..n |-> SearchStep(fr, exn, g, n, d)]

\* Delegates lead outwards.
SkipsOut(fr) ==
  \A k \in 1..Len(fr.labels) :
    fr.labels[k].legacy # NoTry => CF(fr).delegate[fr.labels[k].legacy] \in Nat \cup {NoDelegate}

LEMMA DelegatesSkipOut ==
  ASSUME NEW ts, CodeIsValid(code, ts), NEW fr \in Frames, FrameFits(code, ts, fr),
         fr.pc \in 1..Len(BodyOf(code, fr))
  PROVE  SkipsOut(fr)
<1> PICK ir : ir = BodyOf(code, fr)
  OBVIOUS
<1> PICK t : t = TextFor(ts, fr)
  OBVIOUS
<1>1. /\ Bracketed(ir, t) /\ CF(fr) = Precompute(ir) /\ Len(ir) \in Nat
      /\ \A k \in 1..Len(ir) : ValidInstr(code.insts[fr.inst], ir[k])
  BY FrameBody DEF CF
<1>2. LabelsFit(ir, t, fr.pc, fr.labels)
  BY DEF FrameFits, TextFor
<1>3. SUFFICES ASSUME NEW k \in 1..Len(fr.labels), fr.labels[k].legacy # NoTry
               PROVE  CF(fr).delegate[fr.labels[k].legacy] \in Nat \cup {NoDelegate}
  BY DEF SkipsOut
<1>4. k # 1
  <2>1. FuncLabelIs(ir, fr.labels[1])
    BY <1>2 DEF LabelsFit
  <2> QED BY <1>3, <2>1 DEF FuncLabelIs
<1>5. k \in 2..Len(fr.labels)
  BY <1>4
<1> PICK ls : ls = fr.labels
  OBVIOUS
<1>6. PICK i \in 1..Len(ir) : ir[i].op \in Openers /\ LabelIs(ir, t, fr.pc, ls[k], i)
  BY <1>1, <1>2, <1>5, LabelOfConstruct
<1>7. ls[k].legacy = i
  BY <1>3, <1>6 DEF LabelIs, Targets
<1>8. /\ t.closer[i] \in (i + 1)..(Len(ir) - 1)
      /\ CF(fr).delegate[i] = IF ir[t.closer[i]].op = "delegate" THEN ir[t.closer[i]].label ELSE NoDelegate
  BY <1>1, <1>6, TablesAt
<1>9. t.closer[i] \in 1..Len(ir)
  BY <1>1, <1>8
<1>10. ir[t.closer[i]].op = "delegate" => ir[t.closer[i]].label \in Nat
  BY <1>1, <1>9 DEF ValidInstr
<1> QED BY <1>7, <1>8, <1>10

LEMMA SearchLooksOut ==
  ASSUME NEW fr, SkipsOut(fr), NEW n \in Nat, n = Len(fr.labels), NEW exn, NEW d \in 0..n, NEW g, NEW g2,
         \A e \in (d + 1)..n : g[e] = g2[e]
  PROVE  SearchStep(fr, exn, g, n, d) = SearchStep(fr, exn, g2, n, d)
<1>1. CASE d = n
  BY <1>1 DEF SearchStep
<1>2. CASE d # n
  <2> PICK l : l = fr.labels[n - d]
    OBVIOUS
  <2> PICK skip : skip = CF(fr).delegate[l.legacy]
    OBVIOUS
  <2>1. n - d \in 1..n
    BY <1>2
  <2>2. l.legacy # NoTry /\ skip # NoDelegate => skip \in Nat
    BY <2>1 DEF SkipsOut
  <2>3. g[d + 1] = g2[d + 1]
    BY <1>2
  <2>4. ASSUME skip \in Nat
        PROVE  g[IF d + 1 + skip < n THEN d + 1 + skip ELSE n] = g2[IF d + 1 + skip < n THEN d + 1 + skip ELSE n]
    <3> PICK e : e = IF d + 1 + skip < n THEN d + 1 + skip ELSE n
      OBVIOUS
    <3>1. e \in (d + 1)..n
      BY <1>2, <2>4
    <3> QED BY <3>1
  <2>5. CASE l.tryTable # NoTry /\ Catch(fr, l, exn) # 0
    BY <1>2, <2>5 DEF SearchStep
  <2>6. CASE ~(l.tryTable # NoTry /\ Catch(fr, l, exn) # 0) /\ l.legacy # NoTry /\ skip # NoDelegate
    <3>1. skip \in Nat
      BY <2>2, <2>6
    <3>2. SearchStep(fr, exn, g, n, d) = g[IF d + 1 + skip < n THEN d + 1 + skip ELSE n]
      BY <1>2, <2>6 DEF SearchStep
    <3>3. SearchStep(fr, exn, g2, n, d) = g2[IF d + 1 + skip < n THEN d + 1 + skip ELSE n]
      BY <1>2, <2>6 DEF SearchStep
    <3> QED BY <2>4, <3>1, <3>2, <3>3
  <2>7. CASE ~(l.tryTable # NoTry /\ Catch(fr, l, exn) # 0) /\ ~(l.legacy # NoTry /\ skip # NoDelegate)
    BY <1>2, <2>3, <2>7 DEF SearchStep
  <2> QED BY <2>5, <2>6, <2>7
<1> QED BY <1>1, <1>2

\* The search is defined from every depth.
LEMMA SearchIs ==
  ASSUME NEW fr, SkipsOut(fr), NEW n \in Nat, n = Len(fr.labels), NEW exn
  PROVE  \E g : SearchesFrom(g, fr, exn, n, 0) /\ Search(fr, exn) = g[0]
<1> DEFINE S == {k \in Nat : k <= n => \E g : SearchesFrom(g, fr, exn, n, n - k)}
<1>1. 0 \in S
  <2> PICK g : g = [d \in n..n |-> Nowhere]
    OBVIOUS
  <2>1. \A d \in n..n : SearchStep(fr, exn, g, n, d) = Nowhere
    BY DEF SearchStep
  <2>2. SearchesFrom(g, fr, exn, n, n - 0)
    BY <2>1 DEF SearchesFrom
  <2> QED BY <2>2
<1>2. ASSUME NEW k \in Nat, k \in S PROVE k + 1 \in S
  <2> SUFFICES ASSUME k + 1 <= n PROVE \E g : SearchesFrom(g, fr, exn, n, n - (k + 1))
    OBVIOUS
  <2>1. PICK g : SearchesFrom(g, fr, exn, n, n - k)
    BY <1>2
  <2> PICK m : m = n - (k + 1)
    OBVIOUS
  <2>2. m \in Nat /\ m + 1 = n - k /\ m < n
    BY <1>2
  <2>3. g = [d \in (m + 1)..n |-> SearchStep(fr, exn, g, n, d)]
    BY <2>1, <2>2 DEF SearchesFrom
  <2>4. PICK g2 : g2 = [d \in m..n |-> IF d = m THEN SearchStep(fr, exn, g, n, m) ELSE g[d]]
    OBVIOUS
  <2>5. \A e \in (m + 1)..n : g[e] = g2[e]
    BY <2>2, <2>4
  <2>6. ASSUME NEW d \in m..n PROVE g2[d] = SearchStep(fr, exn, g2, n, d)
    <3>1. d \in 0..n /\ \A e \in (d + 1)..n : g[e] = g2[e]
      BY <2>2, <2>5
    <3>2. SearchStep(fr, exn, g, n, d) = SearchStep(fr, exn, g2, n, d)
      BY <3>1, SearchLooksOut
    <3>3. CASE d = m
      BY <2>4, <3>2, <3>3
    <3>4. CASE d # m
      <4>1. d \in (m + 1)..n
        BY <2>2, <3>4
      <4>2. g2[d] = g[d]
        BY <2>4, <3>4
      <4>3. g[d] = SearchStep(fr, exn, g, n, d)
        BY <2>3, <4>1
      <4> QED BY <3>2, <4>2, <4>3
    <3> QED BY <3>3, <3>4
  <2>7. g2 = [d \in m..n |-> SearchStep(fr, exn, g2, n, d)]
    BY <2>4, <2>6
  <2> QED BY <2>7 DEF SearchesFrom
<1> HIDE DEF S
<1>3. \A k \in Nat : k \in S
  BY <1>1, <1>2, NatSetInduction
<1>4. n \in S
  BY <1>3
<1>5. \E g : SearchesFrom(g, fr, exn, n, 0)
  BY <1>4 DEF S
<1>6. PICK g : g = CHOOSE x : SearchesFrom(x, fr, exn, n, 0)
  OBVIOUS
<1>7. SearchesFrom(g, fr, exn, n, 0)
  BY <1>5, <1>6
<1>8. Search(fr, exn) = g[0]
  BY <1>6 DEF Search, SearchesFrom, SearchStep
<1> QED BY <1>7, <1>8

\* What a search finds is a clause of a label's try_table or a handler of its try.
FoundBy(fr, exn, n, at) ==
  \/ at = Nowhere
  \/ \E d \in 0..(n - 1) :
       LET l == fr.labels[n - d]
       IN  \/ /\ l.tryTable # NoTry /\ Catch(fr, l, exn) # 0
              /\ at = [kind |-> "table", depth |-> d, clause |-> Catch(fr, l, exn)]
           \/ /\ l.legacy # NoTry /\ Handler(fr, l, exn) # 0
              /\ at = [kind |-> "legacy", depth |-> d, clause |-> Handler(fr, l, exn)]

LEMMA SearchFinds ==
  ASSUME NEW fr, SkipsOut(fr), NEW n \in Nat, n = Len(fr.labels), NEW exn
  PROVE  FoundBy(fr, exn, n, Search(fr, exn))
<1>1. PICK g : SearchesFrom(g, fr, exn, n, 0) /\ Search(fr, exn) = g[0]
  BY SearchIs
<1>2. \A d \in 0..n : g[d] = SearchStep(fr, exn, g, n, d)
  BY <1>1 DEF SearchesFrom
<1> DEFINE S == {k \in Nat : \A d \in 0..n : n - d <= k => FoundBy(fr, exn, n, g[d])}
<1>3. 0 \in S
  <2> SUFFICES ASSUME NEW d \in 0..n, n - d <= 0 PROVE FoundBy(fr, exn, n, g[d])
    OBVIOUS
  <2>1. d = n
    OBVIOUS
  <2>2. g[d] = Nowhere
    BY <1>2, <2>1 DEF SearchStep
  <2> QED BY <2>2 DEF FoundBy
<1>4. ASSUME NEW k \in Nat, k \in S PROVE k + 1 \in S
  <2> SUFFICES ASSUME NEW d \in 0..n, n - d <= k + 1 PROVE FoundBy(fr, exn, n, g[d])
    OBVIOUS
  <2>1. \A e \in (d + 1)..n : FoundBy(fr, exn, n, g[e])
    BY <1>4
  <2>2. CASE d = n
    BY <1>2, <2>2 DEF SearchStep, FoundBy
  <2>3. CASE d # n
    <3> PICK l : l = fr.labels[n - d]
      OBVIOUS
    <3> PICK skip : skip = CF(fr).delegate[l.legacy]
      OBVIOUS
    <3>1. n - d \in 1..n /\ d \in 0..(n - 1)
      BY <2>3
    <3>2. l.legacy # NoTry /\ skip # NoDelegate => skip \in Nat
      BY <3>1 DEF SkipsOut
    <3>3. g[d] = SearchStep(fr, exn, g, n, d)
      BY <1>2
    <3>4. CASE l.tryTable # NoTry /\ Catch(fr, l, exn) # 0
      <4>1. g[d] = [kind |-> "table", depth |-> d, clause |-> Catch(fr, l, exn)]
        BY <2>3, <3>3, <3>4 DEF SearchStep
      <4> QED BY <3>1, <3>4, <4>1 DEF FoundBy
    <3>5. CASE ~(l.tryTable # NoTry /\ Catch(fr, l, exn) # 0) /\ l.legacy # NoTry /\ skip # NoDelegate
      <4> PICK e : e = IF d + 1 + skip < n THEN d + 1 + skip ELSE n
        OBVIOUS
      <4>1. e \in (d + 1)..n
        BY SMTT(30), <3>1, <3>2, <3>5
      <4>2. g[d] = g[e]
        BY <2>3, <3>3, <3>5 DEF SearchStep
      <4> QED BY <2>1, <4>1, <4>2
    <3>6. CASE /\ ~(l.tryTable # NoTry /\ Catch(fr, l, exn) # 0) /\ ~(l.legacy # NoTry /\ skip # NoDelegate)
               /\ l.legacy # NoTry /\ ~PastItsBody(l) /\ Handler(fr, l, exn) # 0
      <4>1. g[d] = [kind |-> "legacy", depth |-> d, clause |-> Handler(fr, l, exn)]
        BY <2>3, <3>3, <3>6 DEF SearchStep
      <4> QED BY <3>1, <3>6, <4>1 DEF FoundBy
    <3>7. CASE /\ ~(l.tryTable # NoTry /\ Catch(fr, l, exn) # 0) /\ ~(l.legacy # NoTry /\ skip # NoDelegate)
               /\ ~(l.legacy # NoTry /\ ~PastItsBody(l) /\ Handler(fr, l, exn) # 0)
      <4>1. g[d] = g[d + 1]
        BY <2>3, <3>3, <3>7 DEF SearchStep
      <4>2. d + 1 \in (d + 1)..n
        BY <3>1
      <4> QED BY <2>1, <4>1, <4>2
    <3> QED BY <3>4, <3>5, <3>6, <3>7
  <2> QED BY <2>2, <2>3
<1> HIDE DEF S
<1>5. \A k \in Nat : k \in S
  BY <1>3, <1>4, NatSetInduction
<1>6. n \in S
  BY <1>5
<1>7. 0 \in 0..n /\ n - 0 <= n
  OBVIOUS
<1>8. FoundBy(fr, exn, n, g[0])
  BY <1>6, <1>7 DEF S
<1> QED BY <1>1, <1>8

\* The first that matches.
LEMMA FirstOf ==
  ASSUME NEW T \in SUBSET Nat, T # {}
  PROVE  Min(T) \in T /\ \A x \in T : Min(T) <= x
<1>1. \E x \in T : \A y \in T : x <= y
  BY LeastNumber
<1> QED BY <1>1 DEF Min

LEMMA CatchInRange ==
  ASSUME NEW fr, NEW l, NEW exn, Catch(fr, l, exn) # 0
  PROVE  LET cs == Body(fr)[l.tryTable].catches
         IN  /\ Catch(fr, l, exn) \in 1..Len(cs)
             /\ cs[Catch(fr, l, exn)].tag = NoTag \/ Tags(fr)[cs[Catch(fr, l, exn)].tag] = exn.tag
<1> PICK cs : cs = Body(fr)[l.tryTable].catches
  OBVIOUS
<1>1. PICK T : T = {i \in 1..Len(cs) : cs[i].tag = NoTag \/ Tags(fr)[cs[i].tag] = exn.tag}
  OBVIOUS
<1>2. Catch(fr, l, exn) = IF T # {} THEN Min(T) ELSE 0
  BY <1>1 DEF Catch, SelectInSeq
<1>3. T # {}
  BY <1>2
<1>4. T \in SUBSET Nat
  BY <1>1
<1>5. Min(T) \in T
  BY <1>3, <1>4, FirstOf
<1> QED BY <1>1, <1>2, <1>3, <1>5

LEMMA HandlerInRange ==
  ASSUME NEW fr, NEW l, NEW exn, Handler(fr, l, exn) # 0
  PROVE  Handler(fr, l, exn) \in 1..Len(CF(fr).handlers[l.legacy])
<1> PICK hs : hs = CF(fr).handlers[l.legacy]
  OBVIOUS
<1>1. PICK T : T = {i \in 1..Len(hs) : hs[i].tag = NoTag \/ Tags(fr)[hs[i].tag] = exn.tag}
  OBVIOUS
<1>2. Handler(fr, l, exn) = IF T # {} THEN Min(T) ELSE 0
  BY <1>1 DEF Handler, SelectInSeq
<1>3. T # {}
  BY <1>2
<1>4. T \in SUBSET Nat
  BY <1>1
<1>5. Min(T) \in T
  BY <1>3, <1>4, FirstOf
<1> QED BY <1>1, <1>2, <1>3, <1>5

-----------------------------------------------------------------------------
(* Where a thrown exception leads.                                         *)

LEMMA LaterOutcome ==
  ASSUME NEW c, NEW ts, NEW fr, NEW g, Follows(c, ts, fr, g), NEW o, OutcomeFits(c, ts, g, o)
  PROVE  OutcomeFits(c, ts, fr, o)
BY DEF OutcomeFits, Follows

\* A label with a try_table, or with a legacy try, is that of a construct of the body.
LEMMA LabelOfTry ==
  ASSUME NEW ir, NEW t, Bracketed(ir, t), NEW p \in 1..Len(ir), NEW ls, LabelsFit(ir, t, p, ls),
         NEW k \in 1..Len(ls), NEW l, l = ls[k]
  PROVE  /\ l.tryTable # NoTry => l.tryTable \in 1..Len(ir) /\ ir[l.tryTable].op = "try_table"
         /\ l.legacy # NoTry => l.legacy \in 1..Len(ir) /\ ir[l.legacy].op = "try"
<1>1. CASE k = 1
  <2>1. FuncLabelIs(ir, ls[1])
    BY DEF LabelsFit
  <2> QED BY <1>1, <2>1 DEF FuncLabelIs
<1>2. CASE k # 1
  <2>1. k \in 2..Len(ls)
    BY <1>2
  <2>2. PICK i \in 1..Len(ir) : LabelIs(ir, t, p, ls[k], i)
    BY <2>1, LabelOfConstruct
  <2> QED BY <2>2 DEF LabelIs, Targets
<1> QED BY <1>1, <1>2

\* The frame with other operands, from which a clause branches.
LEMMA WithOperands ==
  ASSUME NEW c, NEW ts, NEW fr \in Frames, FrameFits(c, ts, fr), NEW v \in Seq(Value),
         NEW g, g = [fr EXCEPT !.vals = v]
  PROVE  Follows(c, ts, fr, g) /\ g.pc = fr.pc /\ BodyOf(c, g) = BodyOf(c, fr)
<1>1. fr = Moved(fr, fr.pc, fr.labels, fr.vals) /\ fr.labels \in Seq(Labels)
  BY FrameIs
<1>2. g = Moved(fr, fr.pc, fr.labels, v)
  BY <1>1 DEF Moved
<1>3. fr.pc \in 1..(Len(BodyOf(c, fr)) + 1) /\ LabelsFit(BodyOf(c, fr), TextFor(ts, fr), fr.pc, fr.labels)
  BY DEF FrameFits, TextFor
<1>4. Follows(c, ts, fr, g)
  BY <1>1, <1>2, <1>3, MovedFits
<1> QED BY <1>2, <1>4 DEF Moved, BodyOf, FuncOf

LEMMA PayloadIs ==
  ASSUME NEW exn \in Exns, NEW b \in BOOLEAN, NEW v \in Seq(Value), NEW n \in Nat, n <= Len(v)
  PROVE  Keep(v, n) \o (IF b THEN <<>> ELSE exn.values) \in Seq(Value)
<1>1. Keep(v, n) \in Seq(Value)
  BY KeptValues
<1>2. (IF b THEN <<>> ELSE exn.values) \in Seq(Value)
  BY DEF Exns
<1> QED BY <1>1, <1>2, Joined

LEMMA BranchWithOperands ==
  ASSUME NEW c, NEW ts, CodeIsValid(c, ts), NEW fr \in Frames, FrameFits(c, ts, fr),
         fr.pc \in 1..Len(BodyOf(c, fr)), NEW n \in Nat, NEW fu \in 0..MaxIterations,
         NEW bx \in Seq(Exns), Len(bx) <= MaxExnBoxes, NEW v \in Seq(Value),
         NEW o, o = Branch([fr EXCEPT !.vals = v], n, fu, bx)
  PROVE  OutcomeFits(c, ts, fr, o)
<1>1. PICK g : g = [fr EXCEPT !.vals = v]
  OBVIOUS
<1>2. Follows(c, ts, fr, g) /\ g.pc = fr.pc /\ BodyOf(c, g) = BodyOf(c, fr)
  BY <1>1, WithOperands
<1>3. g \in Frames /\ FrameFits(c, ts, g) /\ g.pc \in 1..Len(BodyOf(c, g))
  BY <1>2 DEF Follows
<1>4. o = Branch(g, n, fu, bx)
  BY <1>1
<1>5. OutcomeFits(c, ts, g, o)
  BY <1>3, <1>4, BranchFits
<1> QED BY <1>2, <1>5, LaterOutcome

LEMMA FailureFits ==
  ASSUME NEW c, NEW ts, NEW fr, NEW fu \in 0..MaxIterations, NEW bx \in Seq(Exns), Len(bx) <= MaxExnBoxes,
         NEW e, e # Ok
  PROVE  OutcomeFits(c, ts, fr, Fails(e, fr, fu, bx))
BY DEF OutcomeFits, Fails

\* The clauses of a try_table.
LEMMA ClausesAre ==
  ASSUME NEW ts, CodeIsValid(code, ts), NEW fr \in Frames, FrameFits(code, ts, fr),
         fr.pc \in 1..Len(BodyOf(code, fr)), NEW k \in 1..Len(fr.labels),
         NEW l, l = fr.labels[k], l.tryTable # NoTry,
         NEW exn, Catch(fr, l, exn) # 0,
         NEW x, x = Body(fr)[l.tryTable].catches[Catch(fr, l, exn)]
  PROVE  x.label \in Nat /\ x.ref \in BOOLEAN
<1> PICK ir : ir = BodyOf(code, fr)
  OBVIOUS
<1> PICK t : t = TextFor(ts, fr)
  OBVIOUS
<1>1. /\ Bracketed(ir, t) /\ Len(ir) \in Nat /\ Body(fr) = ir
      /\ \A j \in 1..Len(ir) : ValidInstr(code.insts[fr.inst], ir[j])
  BY FrameBody DEF Body, Func, BodyOf, FuncOf
<1>2. LabelsFit(ir, t, fr.pc, fr.labels)
  BY DEF FrameFits, TextFor
<1>3. l.tryTable \in 1..Len(ir) /\ ir[l.tryTable].op = "try_table"
  BY <1>1, <1>2, LabelOfTry
<1>4. PICK cs : cs = ir[l.tryTable].catches
  OBVIOUS
<1>10. PICK R : R = [tag : {NoTag} \cup 1..Len(code.insts[fr.inst].tags), label : Nat, ref : BOOLEAN]
  OBVIOUS
<1>5. cs \in Seq(R)
  BY <1>1, <1>3, <1>4, <1>10 DEF ValidInstr
<1>6. Catch(fr, l, exn) \in 1..Len(cs)
  BY <1>1, <1>4, CatchInRange
<1>7. x = cs[Catch(fr, l, exn)]
  BY <1>1, <1>4
<1>8. \A j \in 1..Len(cs) : cs[j] \in R
  BY <1>5
<1>9. x \in R
  BY <1>6, <1>7, <1>8
<1> QED BY <1>9, <1>10

LEMMA EnterTableFits ==
  ASSUME NEW ts, CodeIsValid(code, ts), NEW fr \in Frames, FrameFits(code, ts, fr),
         fr.pc \in 1..Len(BodyOf(code, fr)), NEW exn \in Exns, NEW d \in 0..(Len(fr.labels) - 1),
         fr.labels[Len(fr.labels) - d].tryTable # NoTry,
         NEW i, i = Catch(fr, fr.labels[Len(fr.labels) - d], exn), i # 0,
         NEW fu \in 0..MaxIterations, NEW bx \in Seq(Exns), Len(bx) <= MaxExnBoxes,
         NEW o, o = EnterTable(fr, exn, d, i, fu, bx)
  PROVE  OutcomeFits(code, ts, fr, o)
<1>1. PICK k : k = Len(fr.labels) - d
  OBVIOUS
<1>2. PICK l : l = fr.labels[k]
  OBVIOUS
<1>3. PICK x : x = Body(fr)[l.tryTable].catches[i]
  OBVIOUS
<1>4. PICK v : v = Keep(fr.vals, l.base) \o (IF x.tag = NoTag THEN <<>> ELSE exn.values)
  OBVIOUS
<1>5. PICK n : n = TableLabel(d, x)
  OBVIOUS
<1>6. /\ fr.labels \in Seq(Labels) /\ Len(fr.labels) \in Nat /\ fr.vals \in Seq(Value) /\ Len(fr.vals) \in Nat
      /\ Len(bx) \in Nat
  BY FrameIs
<1>7. k \in 1..Len(fr.labels)
  BY <1>1, <1>6
<1>8. l \in Labels /\ l.tryTable # NoTry /\ i = Catch(fr, l, exn)
  BY <1>1, <1>2, <1>6, <1>7
<1>9. l.base \in Nat
  BY <1>8, LabelParts
<1>10. x.label \in Nat /\ x.ref \in BOOLEAN
  BY <1>2, <1>3, <1>7, <1>8, ClausesAre
<1>11. n \in Nat
  BY <1>5, <1>10 DEF TableLabel
<1>12. o = IF l.base > Len(fr.vals) THEN Fails("StackUnderflow", fr, fu, bx)
           ELSE IF ~x.ref THEN Branch([fr EXCEPT !.vals = v], n, fu, bx)
           ELSE IF BoxesFull(bx) THEN Fails("ExnStoreExhausted", fr, fu, bx)
           ELSE Branch([fr EXCEPT !.vals = Append(v, Len(bx))], n, fu, Append(bx, exn))
  BY <1>1, <1>2, <1>3, <1>4, <1>5 DEF EnterTable
<1>13. OutcomeFits(code, ts, fr, Fails("StackUnderflow", fr, fu, bx))
  BY FailureFits DEF Ok
<1>14. OutcomeFits(code, ts, fr, Fails("ExnStoreExhausted", fr, fu, bx))
  BY FailureFits DEF Ok
<1>15. CASE l.base > Len(fr.vals)
  BY <1>12, <1>13, <1>15
<1>16. CASE l.base <= Len(fr.vals)
  <2>1. v \in Seq(Value)
    <3>1. PICK b \in BOOLEAN : b = (x.tag = NoTag)
      OBVIOUS
    <3>2. Keep(fr.vals, l.base) \o (IF b THEN <<>> ELSE exn.values) \in Seq(Value)
      BY <1>6, <1>9, <1>16, PayloadIs
    <3> QED BY <1>4, <3>1, <3>2
  <2>2. ~(l.base > Len(fr.vals))
    BY <1>6, <1>9, <1>16
  <2>3. CASE ~x.ref
    <3>1. o = Branch([fr EXCEPT !.vals = v], n, fu, bx)
      BY <1>12, <2>2, <2>3
    <3> QED BY <1>11, <2>1, <3>1, BranchWithOperands
  <2>4. CASE x.ref /\ BoxesFull(bx)
    BY <1>12, <1>14, <2>2, <2>4
  <2>5. CASE x.ref /\ ~BoxesFull(bx)
    <3>1. PICK v2 : v2 = Append(v, Len(bx))
      OBVIOUS
    <3>2. PICK bx2 : bx2 = Append(bx, exn)
      OBVIOUS
    <3>3. o = Branch([fr EXCEPT !.vals = v2], n, fu, bx2)
      BY <1>12, <2>2, <2>5, <3>1, <3>2
    <3>4. Len(bx) \in Value
      BY <1>6 DEF Value, NullRef
    <3>5. v2 \in Seq(Value)
      BY <2>1, <3>1, <3>4, LongerSeq
    <3>6. bx2 \in Seq(Exns) /\ Len(bx2) = Len(bx) + 1
      BY <3>2, LongerSeq
    <3>7. Len(bx2) <= MaxExnBoxes
      BY <1>6, <2>5, <3>6, LimitsAreNumbers DEF BoxesFull
    <3> QED BY <1>11, <3>3, <3>5, <3>6, <3>7, BranchWithOperands
  <2> QED BY <1>10, <2>3, <2>4, <2>5
<1> QED BY <1>6, <1>9, <1>15, <1>16

\* h is the i-th handler of the legacy try of l, the k-th label at p; l2 is l
\* with an exception.
HandlerOf(ir, t, cf, p, ls, k, l, i, h) ==
  /\ Bracketed(ir, t) /\ cf = Precompute(ir) /\ p \in 1..Len(ir)
  /\ ls \in Seq(Labels) /\ LabelsFit(ir, t, p, ls) /\ k \in 1..Len(ls) /\ l = ls[k] /\ l.legacy # NoTry
  /\ i \in 1..Len(cf.handlers[l.legacy]) /\ h = cf.handlers[l.legacy][i]
Remembers(l, l2) ==
  /\ l2 \in Labels /\ l2.isLoop = l.isLoop /\ l2.target = l.target /\ l2.tryTable = l.tryTable
  /\ l2.legacy = l.legacy /\ l2.caught # NoExn

LEMMA HandlerOfFits ==
  ASSUME NEW ir, NEW t, NEW cf, NEW p, NEW ls, NEW k, NEW l, NEW i, NEW h, HandlerOf(ir, t, cf, p, ls, k, l, i, h),
         NEW l2, Remembers(l, l2)
  PROVE  h.pc \in 1..Len(ir) /\ LabelsFit(ir, t, h.pc, Append(Keep(ls, k - 1), l2))
<1>1. /\ Bracketed(ir, t) /\ cf = Precompute(ir) /\ p \in 1..Len(ir)
      /\ ls \in Seq(Labels) /\ LabelsFit(ir, t, p, ls) /\ k \in 1..Len(ls) /\ l = ls[k] /\ l.legacy # NoTry
      /\ i \in 1..Len(cf.handlers[l.legacy]) /\ h = cf.handlers[l.legacy][i]
  BY Zenon DEF HandlerOf
<1>2. /\ l2 \in Labels /\ l2.isLoop = l.isLoop /\ l2.target = l.target /\ l2.tryTable = l.tryTable
      /\ l2.legacy = l.legacy /\ l2.caught # NoExn
  BY Zenon DEF Remembers
<1> QED BY SMTT(60), <1>1, <1>2, FitsHandler

LEMMA EnterHandlerFits ==
  ASSUME NEW ts, CodeIsValid(code, ts), NEW fr \in Frames, FrameFits(code, ts, fr),
         fr.pc \in 1..Len(BodyOf(code, fr)), NEW exn \in Exns, NEW d \in 0..(Len(fr.labels) - 1),
         fr.labels[Len(fr.labels) - d].legacy # NoTry,
         NEW i, i = Handler(fr, fr.labels[Len(fr.labels) - d], exn), i # 0,
         NEW fu \in 0..MaxIterations, NEW bx \in Seq(Exns), Len(bx) <= MaxExnBoxes,
         NEW o, o = EnterHandler(fr, exn, d, i, fu, bx)
  PROVE  OutcomeFits(code, ts, fr, o)
<1>1. PICK k : k = Len(fr.labels) - d
  OBVIOUS
<1>2. PICK l : l = fr.labels[k]
  OBVIOUS
<1>3. PICK h : h = CF(fr).handlers[l.legacy][i]
  OBVIOUS
<1>4. PICK v : v = Keep(fr.vals, l.base) \o (IF h.tag = NoTag THEN <<>> ELSE exn.values)
  OBVIOUS
<1>5. PICK l2 : l2 = [l EXCEPT !.caught = exn]
  OBVIOUS
<1>6. PICK ls : ls = Append(Keep(fr.labels, k - 1), l2)
  OBVIOUS
<1>7. PICK g : g = [fr EXCEPT !.vals = Keep(@, l.base) \o (IF h.tag = NoTag THEN <<>> ELSE exn.values),
                              !.labels = Append(Keep(@, k - 1), l2), !.pc = h.pc]
  OBVIOUS
<1>8. /\ fr.labels \in Seq(Labels) /\ Len(fr.labels) \in Nat /\ fr.vals \in Seq(Value) /\ Len(fr.vals) \in Nat
      /\ fr = Moved(fr, fr.pc, fr.labels, fr.vals)
  BY FrameIs
<1>9. k \in 1..Len(fr.labels) /\ k - 1 \in 0..Len(fr.labels)
  BY <1>1, <1>8
<1>10. l \in Labels /\ l.legacy # NoTry /\ i = Handler(fr, l, exn)
  BY <1>1, <1>2, <1>8, <1>9
<1>11. l.base \in Nat
  BY <1>10, LabelParts
<1>12. o = IF l.base > Len(fr.vals) THEN Fails("StackUnderflow", fr, fu, bx) ELSE Fine(g, fu, bx)
  BY <1>1, <1>2, <1>3, <1>5, <1>7 DEF EnterHandler
<1>13. CASE l.base > Len(fr.vals)
  <2>1. OutcomeFits(code, ts, fr, Fails("StackUnderflow", fr, fu, bx))
    BY FailureFits DEF Ok
  <2> QED BY <1>12, <1>13, <2>1
<1>14. CASE l.base <= Len(fr.vals)
  <2>1. o = Fine(g, fu, bx)
    BY <1>8, <1>11, <1>12, <1>14
  <2>2. l2 \in Labels /\ l2.isLoop = l.isLoop /\ l2.target = l.target /\ l2.tryTable = l.tryTable
        /\ l2.legacy = l.legacy /\ l2.caught = exn
    BY <1>5, <1>10 DEF Labels
  <2>3. l2.caught # NoExn
    BY <2>2 DEF Exns, NoExn
  <2>4. v \in Seq(Value)
    <3>1. PICK b \in BOOLEAN : b = (h.tag = NoTag)
      OBVIOUS
    <3>2. Keep(fr.vals, l.base) \o (IF b THEN <<>> ELSE exn.values) \in Seq(Value)
      BY <1>8, <1>11, <1>14, PayloadIs
    <3> QED BY <1>4, <3>1, <3>2
  <2>5. ls \in Seq(Labels)
    <3>1. Keep(fr.labels, k - 1) \in Seq(Labels)
      BY <1>8, <1>9, KeepSeq
    <3> QED BY <1>6, <2>2, <3>1, LongerSeq
  <2>6. h.pc \in 1..Len(BodyOf(code, fr)) /\ LabelsFit(BodyOf(code, fr), TextFor(ts, fr), h.pc, ls)
    <3> PICK ir : ir = BodyOf(code, fr)
      OBVIOUS
    <3> PICK t : t = TextFor(ts, fr)
      OBVIOUS
    <3> PICK cf : cf = CF(fr)
      OBVIOUS
    <3>1. Bracketed(ir, t) /\ cf = Precompute(ir)
      BY FrameBody DEF CF
    <3>2. LabelsFit(ir, t, fr.pc, fr.labels)
      BY DEF FrameFits, TextFor
    <3>3. i \in 1..Len(cf.handlers[l.legacy])
      BY <1>10, HandlerInRange
    <3>4. h = cf.handlers[l.legacy][i]
      BY <1>3
    <3>6. PICK p : p = fr.pc
      OBVIOUS
    <3>7. PICK ks : ks = fr.labels
      OBVIOUS
    <3>8. p \in 1..Len(ir) /\ ks \in Seq(Labels) /\ LabelsFit(ir, t, p, ks) /\ k \in 1..Len(ks) /\ l = ks[k]
      BY <1>2, <1>8, <1>9, <3>2, <3>6, <3>7
    <3>9. /\ l2 \in Labels /\ l2.isLoop = l.isLoop /\ l2.target = l.target /\ l2.tryTable = l.tryTable
          /\ l2.legacy = l.legacy /\ l2.caught # NoExn /\ l.legacy # NoTry
      BY <1>10, <2>2, <2>3
    <3>10. HandlerOf(ir, t, cf, p, ks, k, l, i, h) /\ Remembers(l, l2)
      BY <3>1, <3>3, <3>4, <3>8, <3>9 DEF HandlerOf, Remembers
    <3>5. /\ h.pc \in 1..Len(ir) /\ LabelsFit(ir, t, h.pc, Append(Keep(ks, k - 1), l2))
      BY <3>10, HandlerOfFits
    <3> QED BY <1>6, <3>5, <3>7
  <2>7. g = Moved(fr, h.pc, ls, v)
    BY <1>4, <1>6, <1>7, <1>8 DEF Moved
  <2>8. h.pc \in 1..(Len(BodyOf(code, fr)) + 1)
    <3>1. Len(BodyOf(code, fr)) \in Nat
      BY FrameBody
    <3> QED BY <2>6, <3>1
  <2>9. Follows(code, ts, fr, g)
    BY <2>4, <2>5, <2>6, <2>7, <2>8, MovedFits
  <2> QED BY <2>1, <2>9 DEF Fine, OutcomeFits
<1> QED BY <1>8, <1>11, <1>13, <1>14

LEMMA ThrowFits ==
  ASSUME NEW ts, CodeIsValid(code, ts), NEW fr \in Frames, FrameFits(code, ts, fr),
         fr.pc \in 1..Len(BodyOf(code, fr)), NEW exn \in Exns,
         NEW fu \in 0..MaxIterations, NEW bx \in Seq(Exns), Len(bx) <= MaxExnBoxes,
         NEW o, o = ThrowException(fr, exn, fu, bx)
  PROVE  OutcomeFits(code, ts, fr, o)
<1>1. PICK n : n = Len(fr.labels)
  OBVIOUS
<1>2. n \in Nat
  BY <1>1, FrameIs
<1>3. PICK at : at = Search(fr, exn)
  OBVIOUS
<1>4. SkipsOut(fr)
  BY DelegatesSkipOut
<1>5. FoundBy(fr, exn, n, at)
  BY <1>1, <1>2, <1>3, <1>4, SearchFinds
<1>6. CASE at = Nowhere
  <2>1. o = Fails("UncaughtException", fr, fu, bx)
    BY <1>3, <1>6 DEF ThrowException, Nowhere
  <2> QED BY <2>1, FailureFits DEF Ok
<1>7. ASSUME NEW d \in 0..(n - 1), NEW i, at = [kind |-> "table", depth |-> d, clause |-> i], i # 0,
             fr.labels[n - d].tryTable # NoTry, i = Catch(fr, fr.labels[n - d], exn)
      PROVE  OutcomeFits(code, ts, fr, o)
  <2>1. o = EnterTable(fr, exn, d, i, fu, bx)
    BY <1>3, <1>7 DEF ThrowException
  <2>2. d \in 0..(Len(fr.labels) - 1)
    BY <1>1
  <2> QED BY <1>1, <1>7, <2>1, <2>2, EnterTableFits
<1>8. ASSUME NEW d \in 0..(n - 1), NEW i, at = [kind |-> "legacy", depth |-> d, clause |-> i], i # 0,
             fr.labels[n - d].legacy # NoTry, i = Handler(fr, fr.labels[n - d], exn)
      PROVE  OutcomeFits(code, ts, fr, o)
  <2>1. o = EnterHandler(fr, exn, d, i, fu, bx)
    BY <1>3, <1>8 DEF ThrowException
  <2>2. d \in 0..(Len(fr.labels) - 1)
    BY <1>1
  <2> QED BY <1>1, <1>8, <2>1, <2>2, EnterHandlerFits
<1> QED BY <1>5, <1>6, <1>7, <1>8 DEF FoundBy

-----------------------------------------------------------------------------
(* The stack of calls and its depths.                                      *)

\* A call at depth d that went through hops imports, below a caller's depth.
DepthFits(d, hops, below, max) == d = below + 1 + hops /\ d <= max
CallerDepth(fs, k) == IF k = 1 THEN 0 ELSE fs[k - 1].depth
Depths(fs) ==
  \A k \in 1..Len(fs) : DepthFits(fs[k].depth, fs[k].hops, CallerDepth(fs, k), MaxCallDepth)

\* What holds of the mode m, the call ca and the frames fs between two steps.
CallFits(c, ca, fs) ==
  /\ IsFunc(c, ca.inst, ca.func)
  /\ DepthFits(ca.depth, ca.hops, CallerDepth(fs, Len(fs) + 1), MaxCallDepth + 1)
Control(c, ts, m, ca, fs) ==
  /\ m \in {"idle", "call", "run", "unwind"} /\ ca \in CallArgs
  /\ m = "call" => CallFits(c, ca, fs)
  /\ StackFits(c, ts, fs, m) /\ Depths(fs)

LEMMA ControlTop ==
  ASSUME NEW c, NEW ts, NEW m, NEW ca, NEW fs, Control(c, ts, m, ca, fs), fs # <<>>,
         NEW g, Follows(c, ts, fs[Len(fs)], g)
  PROVE  Control(c, ts, "run", ca, [fs EXCEPT ![Len(fs)] = g])
<1>1. PICK gs : gs = [fs EXCEPT ![Len(fs)] = g]
  OBVIOUS
<1>2. /\ fs \in Seq(Frames) /\ g \in Frames /\ FrameFits(c, ts, g)
      /\ g.depth = fs[Len(fs)].depth /\ g.hops = fs[Len(fs)].hops
  BY DEF Control, StackFits, Follows
<1>3. StackFits(c, ts, gs, "run")
  BY <1>1, <1>2, StackTop DEF Control
<1>4. /\ Len(gs) = Len(fs) /\ gs[Len(fs)] = g
      /\ \A k \in 1..Len(fs) : k # Len(fs) => gs[k] = fs[k]
  BY <1>1, <1>2, TopChanged
<1>5. ASSUME NEW k \in 1..Len(gs)
      PROVE  DepthFits(gs[k].depth, gs[k].hops, CallerDepth(gs, k), MaxCallDepth)
  <2>1. \A n \in 1..Len(fs) : gs[n].depth = fs[n].depth /\ gs[n].hops = fs[n].hops
    BY <1>2, <1>4
  <2>2. k \in 1..Len(fs) /\ (k # 1 => k - 1 \in 1..Len(fs))
    BY <1>4
  <2>3. CallerDepth(gs, k) = CallerDepth(fs, k)
    BY <2>1, <2>2 DEF CallerDepth
  <2>4. DepthFits(fs[k].depth, fs[k].hops, CallerDepth(fs, k), MaxCallDepth)
    BY <2>2 DEF Control, Depths
  <2> QED BY <2>1, <2>2, <2>3, <2>4
<1> QED BY <1>1, <1>3, <1>5 DEF Control, Depths

LEMMA ControlPop ==
  ASSUME NEW c, NEW ts, NEW m, NEW ca, NEW fs, Control(c, ts, m, ca, fs), fs # <<>>
  PROVE  Control(c, ts, "unwind", ca, Front(fs)) /\ Depths(Front(fs)) /\ StackFits(c, ts, Front(fs), "call")
<1>1. PICK gs : gs = Front(fs)
  OBVIOUS
<1>2. fs \in Seq(Frames)
  BY DEF Control, StackFits
<1>3. StackFits(c, ts, gs, "unwind") /\ StackFits(c, ts, gs, "call")
  BY <1>1, StackPop DEF Control
<1>4. /\ Len(gs) = Len(fs) - 1 /\ Len(fs) \in Nat
      /\ \A k \in 1..(Len(fs) - 1) : gs[k] = fs[k]
  BY <1>1, <1>2, FrontSeq
<1>5. ASSUME NEW k \in 1..Len(gs)
      PROVE  DepthFits(gs[k].depth, gs[k].hops, CallerDepth(gs, k), MaxCallDepth)
  <2>1. gs[k] = fs[k] /\ k \in 1..Len(fs) /\ (k # 1 => gs[k - 1] = fs[k - 1])
    BY <1>4
  <2>2. CallerDepth(gs, k) = CallerDepth(fs, k)
    BY <2>1 DEF CallerDepth
  <2>3. DepthFits(fs[k].depth, fs[k].hops, CallerDepth(fs, k), MaxCallDepth)
    BY <2>1 DEF Control, Depths
  <2> QED BY <2>1, <2>2, <2>3
<1> QED BY <1>1, <1>3, <1>5 DEF Control, Depths

\* An error that comes up to the callers, all of which are at a call.
LEMMA ControlRaise ==
  ASSUME NEW c, NEW ts, NEW m, NEW ca, NEW ca2 \in CallArgs, NEW fs, Control(c, ts, m, ca, fs), m # "run"
  PROVE  Control(c, ts, "unwind", ca2, fs)
<1>1. StackFits(c, ts, fs, "unwind")
  BY StackCalls DEF Control
<1> QED BY <1>1 DEF Control

\* A call from the instruction the innermost frame is at.
LEMMA ControlEnter ==
  ASSUME NEW c, NEW ts, NEW m, NEW ca, NEW ca2 \in CallArgs, NEW fs, Control(c, ts, m, ca, fs),
         fs = <<>> \/ m # "run" \/ AtCall(c, fs[Len(fs)]), CallFits(c, ca2, fs)
  PROVE  Control(c, ts, "call", ca2, fs)
<1>1. StackFits(c, ts, fs, "call")
  BY StackCalls DEF Control
<1> QED BY <1>1 DEF Control

LEMMA ControlTail ==
  ASSUME NEW c, NEW ts, NEW m, NEW ca, NEW ca2 \in CallArgs, NEW fs, Control(c, ts, m, ca, fs), fs # <<>>,
         IsFunc(c, ca2.inst, ca2.func), ca2.depth = fs[Len(fs)].depth, ca2.hops = fs[Len(fs)].hops
  PROVE  Control(c, ts, "call", ca2, Front(fs))
<1>1. PICK gs : gs = Front(fs)
  OBVIOUS
<1>2. fs \in Seq(Frames)
  BY DEF Control, StackFits
<1>3. /\ Len(gs) = Len(fs) - 1 /\ Len(fs) \in Nat /\ Len(fs) > 0 /\ Len(fs) \in 1..Len(fs)
      /\ \A k \in 1..(Len(fs) - 1) : gs[k] = fs[k]
  BY <1>1, <1>2, FrontSeq
<1>4. DepthFits(fs[Len(fs)].depth, fs[Len(fs)].hops, CallerDepth(fs, Len(fs)), MaxCallDepth)
  BY <1>3 DEF Control, Depths
<1>5. CallFits(c, ca2, gs)
  <2>1. Len(gs) + 1 = Len(fs) /\ (Len(fs) # 1 => gs[Len(fs) - 1] = fs[Len(fs) - 1])
    BY <1>3
  <2>2. CallerDepth(gs, Len(gs) + 1) = CallerDepth(fs, Len(fs))
    BY <2>1 DEF CallerDepth
  <2>3. ca2.depth \in Nat
    BY DEF CallArgs
  <2> QED BY <1>4, <2>2, <2>3, LimitsAreNumbers DEF DepthFits, CallFits
<1>6. StackFits(c, ts, gs, "call") /\ Depths(gs)
  BY <1>1, ControlPop
<1> QED BY <1>1, <1>5, <1>6 DEF Control

LEMMA ControlPush ==
  ASSUME NEW c, NEW ts, NEW ca, NEW ca2 \in CallArgs, NEW fs, Control(c, ts, "call", ca, fs),
         NEW g \in Frames, FrameFits(c, ts, g), g.depth = ca.depth, g.hops = ca.hops, ca.depth <= MaxCallDepth
  PROVE  Control(c, ts, "run", ca2, Append(fs, g))
<1>1. PICK gs : gs = Append(fs, g)
  OBVIOUS
<1>2. fs \in Seq(Frames)
  BY DEF Control, StackFits
<1>3. StackFits(c, ts, gs, "run")
  BY <1>1, StackPush DEF Control
<1>4. /\ Len(gs) = Len(fs) + 1 /\ Len(fs) \in Nat /\ gs[Len(fs) + 1] = g
      /\ \A k \in 1..Len(fs) : gs[k] = fs[k]
  BY <1>1, <1>2, LongerSeq
<1>5. ASSUME NEW k \in 1..Len(gs)
      PROVE  DepthFits(gs[k].depth, gs[k].hops, CallerDepth(gs, k), MaxCallDepth)
  <2>1. k # 1 => k - 1 \in 1..Len(fs) /\ gs[k - 1] = fs[k - 1]
    BY <1>4
  <2>2. CallerDepth(gs, k) = CallerDepth(fs, k)
    BY <2>1 DEF CallerDepth
  <2>3. CASE k = Len(fs) + 1
    <3>1. DepthFits(ca.depth, ca.hops, CallerDepth(fs, k), MaxCallDepth + 1)
      BY <2>3 DEF Control, CallFits
    <3>2. DepthFits(ca.depth, ca.hops, CallerDepth(fs, k), MaxCallDepth)
      BY <3>1 DEF DepthFits
    <3> QED BY <1>4, <2>2, <2>3, <3>2
  <2>4. CASE k # Len(fs) + 1
    <3>1. k \in 1..Len(fs) /\ gs[k] = fs[k]
      BY <1>4, <2>4
    <3>2. DepthFits(fs[k].depth, fs[k].hops, CallerDepth(fs, k), MaxCallDepth)
      BY <3>1 DEF Control, Depths
    <3> QED BY <2>2, <3>1, <3>2
  <2> QED BY <2>3, <2>4
<1> QED BY <1>1, <1>3, <1>5 DEF Control, Depths

LEMMA ControlIdle ==
  ASSUME NEW c, NEW ts, NEW ca \in CallArgs
  PROVE  Control(c, ts, "idle", ca, <<>>)
BY DEF Control, StackFits, Depths

LEMMA PastFits ==
  ASSUME NEW c, NEW ts, CodeIsValid(c, ts), NEW fr \in Frames, FrameFits(c, ts, fr),
         fr.pc \in 1..Len(BodyOf(c, fr)), BodyOf(c, fr)[fr.pc].op \notin Openers \cup Closers \cup Catches,
         NEW v \in Seq(Value), NEW g, g = Moved(fr, fr.pc + 1, fr.labels, v)
  PROVE  Follows(c, ts, fr, g)
<1> PICK ir : ir = BodyOf(c, fr)
  OBVIOUS
<1> PICK t : t = TextFor(ts, fr)
  OBVIOUS
<1> PICK q : q = fr.pc + 1
  OBVIOUS
<1>1. Bracketed(ir, t) /\ Len(ir) \in Nat
  BY FrameBody
<1>2. LabelsFit(ir, t, fr.pc, fr.labels)
  BY DEF FrameFits, TextFor
<1>3. LabelsFit(ir, t, q, fr.labels) /\ q \in 1..Len(ir)
  BY <1>1, <1>2, FitsPast
<1>4. fr.labels \in Seq(Labels)
  BY FrameIs
<1>5. q \in 1..(Len(BodyOf(c, fr)) + 1) /\ LabelsFit(BodyOf(c, fr), TextFor(ts, fr), q, fr.labels)
  BY <1>1, <1>3
<1> QED BY <1>4, <1>5, MovedFits

LEMMA NextIs ==
  ASSUME NEW fr, NEW q, NEW ls, NEW v, NEW h, h = Moved(fr, q, ls, v)
  PROVE  Next1(h) = Moved(fr, q + 1, ls, v)
BY DEF Moved, Next1

\* The function a call names.
LEMMA CalleeIs ==
  ASSUME NEW c, NEW ts, CodeIsValid(c, ts), NEW fr, FrameFits(c, ts, fr), fr.pc \in 1..Len(BodyOf(c, fr)),
         BodyOf(c, fr)[fr.pc].op \in {"call", "return_call"},
         NEW f, f = BodyOf(c, fr)[fr.pc].func
  PROVE  IsFunc(c, fr.inst, f) /\ c.insts[fr.inst].funcs[f].params \in Nat
<1>1. /\ ValidInstr(c.insts[fr.inst], BodyOf(c, fr)[fr.pc]) /\ IsFunc(c, fr.inst, fr.func)
  BY FrameBody
<1>2. f \in 1..Len(c.insts[fr.inst].funcs)
  BY <1>1 DEF ValidInstr
<1>3. IsFunc(c, fr.inst, f)
  BY <1>1, <1>2 DEF IsFunc
<1>4. FuncIsValid(c, ts, fr.inst, f)
  BY <1>3 DEF IsFunc, CodeIsValid
<1> QED BY <1>3, <1>4 DEF FuncIsValid

LEMMA LastReplaced ==
  ASSUME NEW S, NEW s \in Seq(S), s # <<>>, NEW x \in S
  PROVE  Append(Front(s), x) = [s EXCEPT ![Len(s)] = x] /\ Last(s) = s[Len(s)] /\ Last(s) \in S
<1>1. Len(s) \in Nat /\ Len(s) > 0
  OBVIOUS
<1>2. /\ Front(s) \in Seq(S) /\ Len(Front(s)) = Len(s) - 1
      /\ \A k \in 1..(Len(s) - 1) : Front(s)[k] = s[k]
  BY <1>1, FrontSeq
<1>3. PICK u : u = Append(Front(s), x)
  OBVIOUS
<1>4. PICK w : w = [s EXCEPT ![Len(s)] = x]
  OBVIOUS
<1>5. /\ u \in Seq(S) /\ Len(u) = Len(s) /\ u[Len(s)] = x /\ \A k \in 1..(Len(s) - 1) : u[k] = s[k]
  BY <1>1, <1>2, <1>3
<1>6. /\ w \in Seq(S) /\ Len(w) = Len(s) /\ w[Len(s)] = x /\ \A k \in 1..(Len(s) - 1) : w[k] = s[k]
  BY <1>1, <1>4
<1>7. \A k \in 1..Len(s) : u[k] = w[k]
  BY <1>1, <1>5, <1>6
<1>8. u = w
  BY <1>5, <1>6, <1>7
<1> QED BY <1>1, <1>3, <1>4, <1>8 DEF Last

\* What a call that returns leaves.
LEMMA DeliverFits ==
  ASSUME NEW ts, CodeIsValid(code, ts), NEW rest, StackFits(code, ts, rest, "call"), Depths(rest),
         NEW res \in Seq(Value), Deliver(rest, res)
  PROVE  Control(code, ts, mode', call', frames')
<1>1. NoCall \in CallArgs
  BY DEF NoCall, CallArgs
<1>2. CASE rest = <<>>
  <2>1. mode' = "idle" /\ frames' = <<>> /\ call' = NoCall
    BY <1>2 DEF Deliver
  <2> QED BY <1>1, <2>1, ControlIdle
<1>3. CASE rest # <<>>
  <2>1. rest \in Seq(Frames) /\ Len(rest) \in Nat /\ Len(rest) > 0
    BY <1>3 DEF StackFits
  <2>2. PICK fr : fr = rest[Len(rest)]
    OBVIOUS
  <2>3. fr \in Frames /\ FrameFits(code, ts, fr) /\ AtCall(code, fr)
    BY <2>1, <2>2 DEF StackFits
  <2>4. fr.pc \in 1..Len(BodyOf(code, fr)) /\ BodyOf(code, fr)[fr.pc].op = "call"
    BY <2>3 DEF AtCall
  <2>5. PICK np : np = code.insts[fr.inst].funcs[BodyOf(code, fr)[fr.pc].func].params
    OBVIOUS
  <2>6. np \in Nat
    BY <2>3, <2>4, <2>5, CalleeIs
  <2>7. PICK v : v = Keep(fr.vals, Len(fr.vals) - np) \o res
    OBVIOUS
  <2>8. PICK g : g = Moved(fr, fr.pc + 1, fr.labels, v)
    OBVIOUS
  <2>9. fr = Moved(fr, fr.pc, fr.labels, fr.vals) /\ fr.vals \in Seq(Value) /\ Len(fr.vals) \in Nat
    BY <2>3, FrameIs
  <2>10. v \in Seq(Value)
    <3>1. Len(fr.vals) - np \in Int /\ Len(fr.vals) - np <= Len(fr.vals)
      BY <2>6, <2>9
    <3>2. Keep(fr.vals, Len(fr.vals) - np) \in Seq(Value)
      BY <2>9, <3>1, KeptValues
    <3> QED BY <2>7, <3>2, Joined
  <2>11. Follows(code, ts, fr, g)
    <3>1. BodyOf(code, fr)[fr.pc].op \notin Openers \cup Closers \cup Catches
      BY <2>4 DEF Openers, Closers, Catches
    <3> QED BY <2>3, <2>4, <2>8, <2>10, <3>1, PastFits
  <2>12. Last(rest) = fr
    BY <2>1, <2>2 DEF Last
  <2>13. g = Next1([fr EXCEPT !.vals = Keep(@, Len(@) - np) \o res])
    <3>1. PICK h : h = [fr EXCEPT !.vals = Keep(@, Len(@) - np) \o res]
      OBVIOUS
    <3>2. h = Moved(fr, fr.pc, fr.labels, v)
      BY <2>7, <2>9, <3>1 DEF Moved
    <3>3. Next1(h) = Moved(fr, fr.pc + 1, fr.labels, v)
      BY <3>2, NextIs
    <3> QED BY <2>8, <3>1, <3>3
  <2>14. /\ mode' = "run" /\ call' = NoCall
         /\ frames' = Append(Front(rest), g)
    BY <1>3, <2>5, <2>12, <2>13 DEF Deliver, Func, Body, BodyOf, FuncOf
  <2>15. frames' = [rest EXCEPT ![Len(rest)] = g]
    <3>1. g \in Frames
      BY <2>11 DEF Follows
    <3> QED BY <1>3, <2>1, <2>14, <3>1, LastReplaced
  <2>16. Control(code, ts, "unwind", NoCall, rest)
    <3>1. StackFits(code, ts, rest, "unwind")
      BY StackCalls
    <3> QED BY <1>1, <3>1 DEF Control
  <2>17. Control(code, ts, "run", NoCall, [rest EXCEPT ![Len(rest)] = g])
    BY <1>3, <2>2, <2>11, <2>16, ControlTop
  <2> QED BY <2>14, <2>15, <2>17
<1> QED BY <1>2, <1>3

-----------------------------------------------------------------------------
(* The inductive invariant.                                                *)

PoolsFit ==
  /\ fuel \in 0..MaxIterations /\ boxes \in Seq(Exns) /\ Len(boxes) <= MaxExnBoxes
  /\ pending \in Exns \cup {NoExn} /\ saved \in Value
Inv ==
  /\ prog \in 1..Len(Programs) /\ code = Loaded(Programs[prog])
  /\ Control(code, Texts[prog], mode, call, frames)
  /\ PoolsFit

LEMMA CodeHolds ==
  ASSUME Inv
  PROVE  CodeIsValid(code, Texts[prog])
BY LoadedIsValid DEF Inv

LEMMA TopHolds ==
  ASSUME Inv, frames # <<>>
  PROVE  /\ frames \in Seq(Frames) /\ Len(frames) \in Nat \ {0}
         /\ Top \in Frames /\ FrameFits(code, Texts[prog], Top)
         /\ Top.vals \in Seq(Value) /\ Len(Top.vals) \in Nat /\ Top.labels \in Seq(Labels)
         /\ Top = Moved(Top, Top.pc, Top.labels, Top.vals)
         /\ TopVal \in Value
<1>1. frames \in Seq(Frames)
  BY DEF Inv, Control, StackFits
<1>2. Len(frames) \in Nat \ {0}
  BY <1>1
<1>3. Top \in Frames /\ FrameFits(code, Texts[prog], Top)
  BY <1>1, <1>2 DEF Inv, Control, StackFits, Top
<1>4. /\ Top.vals \in Seq(Value) /\ Top.labels \in Seq(Labels)
      /\ Top = Moved(Top, Top.pc, Top.labels, Top.vals)
  BY <1>3, FrameIs
<1>5. TopVal \in Value
  <2> PICK v : v = Top.vals
    OBVIOUS
  <2>1. v \in Seq(Value)
    BY <1>4
  <2>2. 0 \in Value
    BY DEF Value, NullRef
  <2>3. v # <<>> => Len(v) \in 1..Len(v)
    BY <2>1
  <2>4. v # <<>> => v[Len(v)] \in Value
    BY <2>1, <2>3
  <2> QED BY <2>2, <2>4 DEF TopVal, Last
<1> QED BY <1>1, <1>2, <1>3, <1>4, <1>5

LEMMA InstrHolds ==
  ASSUME Inv, NEW ops, Running(ops)
  PROVE  /\ frames # <<>> /\ mode = "run"
         /\ Top.pc \in 1..Len(BodyOf(code, Top)) /\ Len(BodyOf(code, Top)) \in Nat
         /\ Instr = BodyOf(code, Top)[Top.pc] /\ Instr.op \in ops
         /\ ValidInstr(code.insts[Top.inst], Instr)
<1>1. mode = "run" /\ frames # <<>>
  BY DEF Running, Inv, Control, StackFits
<1>2. FrameFits(code, Texts[prog], Top)
  BY <1>1, TopHolds
<1>3. Body(Top) = BodyOf(code, Top)
  BY DEF Body, Func, BodyOf, FuncOf
<1>4. /\ Len(BodyOf(code, Top)) \in Nat
      /\ \A k \in 1..Len(BodyOf(code, Top)) : ValidInstr(code.insts[Top.inst], BodyOf(code, Top)[k])
  BY <1>2, CodeHolds, FrameBody
<1>5. Top.pc \in 1..(Len(BodyOf(code, Top)) + 1)
  BY <1>2 DEF FrameFits
<1>6. ~(Top.pc > Len(BodyOf(code, Top)))
  BY <1>3 DEF Running, AtEnd
<1>7. Top.pc \in 1..Len(BodyOf(code, Top))
  BY <1>4, <1>5, <1>6
<1>8. Instr = BodyOf(code, Top)[Top.pc] /\ Instr.op \in ops
  BY <1>3 DEF Instr, Running
<1> QED BY <1>1, <1>4, <1>7, <1>8

\* The ways an instruction ends keep the invariant.
LEMMA GoFits ==
  ASSUME Inv, frames # <<>>, NEW g, Follows(code, Texts[prog], Top, g), mode' = "run", frames' = WithTop(g),
         UNCHANGED <<loaded, call>>, PoolsFit'
  PROVE  Inv'
<1>1. Control(code, Texts[prog], "run", call, [frames EXCEPT ![Len(frames)] = g])
  BY ControlTop DEF Inv, Top
<1>2. frames' = [frames EXCEPT ![Len(frames)] = g]
  BY DEF WithTop
<1>3. prog' = prog /\ code' = code /\ call' = call
  BY DEF loaded
<1> QED BY <1>1, <1>2, <1>3 DEF Inv

LEMMA LeaveFits ==
  ASSUME Inv, frames # <<>>, mode' = "unwind", frames' = Front(frames),
         UNCHANGED <<loaded, call>>, PoolsFit'
  PROVE  Inv'
<1>1. Control(code, Texts[prog], "unwind", call, Front(frames))
  BY ControlPop DEF Inv
<1>3. prog' = prog /\ code' = code /\ call' = call
  BY DEF loaded
<1> QED BY <1>1, <1>3 DEF Inv

LEMMA PoolsKept ==
  ASSUME Inv, UNCHANGED <<fuel, boxes, pending, saved>>
  PROVE  PoolsFit'
BY DEF Inv, PoolsFit

LEMMA FailFits ==
  ASSUME Inv, frames # <<>>, NEW e, Fail(e)
  PROVE  Inv'
<1>1. /\ mode' = "unwind" /\ frames' = Front(frames)
      /\ UNCHANGED <<loaded, call>> /\ UNCHANGED <<fuel, boxes, pending, saved>>
  BY DEF Fail
<1> QED BY <1>1, PoolsKept, LeaveFits

LEMMA StepFits ==
  ASSUME Inv, frames # <<>>, mode = "run", NEW g, Follows(code, Texts[prog], Top, g), Go(g)
  PROVE  Inv'
<1>1. /\ mode' = "run" /\ frames' = WithTop(g)
      /\ UNCHANGED <<loaded, call>> /\ UNCHANGED <<fuel, boxes, pending, saved>>
  BY DEF Go, pools
<1> QED BY <1>1, PoolsKept, GoFits

LEMMA TakeFits ==
  ASSUME Inv, frames # <<>>, mode = "run", NEW o, OutcomeFits(code, Texts[prog], Top, o), Take(o)
  PROVE  Inv'
<1>1. CASE o.err = Ok
  <2>1. /\ mode' = "run" /\ frames' = WithTop(o.frame) /\ fuel' = o.fuel
        /\ UNCHANGED <<loaded, call>> /\ UNCHANGED <<boxes, pending, saved>>
    BY <1>1 DEF Take
  <2>2. PoolsFit'
    BY <2>1 DEF Inv, PoolsFit, OutcomeFits
  <2>3. Follows(code, Texts[prog], Top, o.frame)
    BY <1>1 DEF OutcomeFits
  <2> QED BY <2>1, <2>2, <2>3, GoFits
<1>2. CASE o.err # Ok
  BY <1>2, FailFits DEF Take
<1> QED BY <1>1, <1>2

LEMMA RaiseFits ==
  ASSUME Inv, frames # <<>>, mode = "run", Top.pc \in 1..Len(BodyOf(code, Top)),
         NEW v \in Seq(Value), NEW fr, fr = Moved(Top, Top.pc, Top.labels, v),
         NEW exn \in Exns, Raise(fr, exn)
  PROVE  Inv'
<1>1. PICK o : o = ThrowException(fr, exn, fuel, boxes)
  OBVIOUS
<1>2. /\ Top \in Frames /\ FrameFits(code, Texts[prog], Top)
      /\ Top = Moved(Top, Top.pc, Top.labels, Top.vals)
  BY TopHolds
<1>3. fr = [Top EXCEPT !.vals = v]
  BY <1>2 DEF Moved
<1>4. Follows(code, Texts[prog], Top, fr) /\ fr.pc = Top.pc /\ BodyOf(code, fr) = BodyOf(code, Top)
  BY <1>2, <1>3, WithOperands
<1>5. fr \in Frames /\ FrameFits(code, Texts[prog], fr) /\ fr.pc \in 1..Len(BodyOf(code, fr))
  BY <1>4 DEF Follows
<1>6. fuel \in 0..MaxIterations /\ boxes \in Seq(Exns) /\ Len(boxes) <= MaxExnBoxes
  BY DEF Inv, PoolsFit
<1>7. CodeIsValid(code, Texts[prog])
  BY CodeHolds
<1>8. OutcomeFits(code, Texts[prog], fr, o)
  BY <1>1, <1>5, <1>6, <1>7, ThrowFits
<1>9. OutcomeFits(code, Texts[prog], Top, o)
  BY <1>4, <1>8, LaterOutcome
<1>10. CASE o.err = Ok
  <2>1. /\ mode' = "run" /\ frames' = WithTop(o.frame) /\ fuel' = o.fuel /\ boxes' = o.boxes
        /\ UNCHANGED <<loaded, call>> /\ UNCHANGED <<pending, saved>>
    BY <1>1, <1>10 DEF Raise
  <2>2. PoolsFit'
    BY <1>9, <2>1 DEF Inv, PoolsFit, OutcomeFits
  <2>3. Follows(code, Texts[prog], Top, o.frame)
    BY <1>9, <1>10 DEF OutcomeFits
  <2> QED BY <2>1, <2>2, <2>3, GoFits
<1>11. CASE o.err # Ok
  <2>1. /\ mode' = "unwind" /\ frames' = Front(frames) /\ boxes' = o.boxes
        /\ pending' = IF o.err = "UncaughtException" THEN exn ELSE pending
        /\ UNCHANGED <<loaded, call>> /\ UNCHANGED <<fuel, saved>>
    BY <1>1, <1>11 DEF Raise
  <2>2. PoolsFit'
    BY <1>9, <2>1 DEF Inv, PoolsFit, OutcomeFits
  <2> QED BY <2>1, <2>2, LeaveFits
<1> QED BY <1>10, <1>11

\* At the first instruction no construct is open.
LEMMA FitsFirst ==
  ASSUME NEW ir, NEW t, Bracketed(ir, t), NEW l, FuncLabelIs(ir, l)
  PROVE  LabelsFit(ir, t, 1, <<l>>)
<1>1. SUFFICES ASSUME 1 \in 1..Len(ir)
               PROVE  Depth(t, 1) = 0
  BY DEF LabelsFit
<1>2. t.around[1] \in Seq(Nat)
  BY <1>1, TextSteps
<1>3. Depth(t, 1) \in Nat
  BY <1>2 DEF Depth
<1>4. ASSUME NEW n \in 1..Depth(t, 1) PROVE FALSE
  <2>1. 1 \in 1..Len(ir)
    BY <1>1
  <2>2. t.around[1][n] \in 1..(1 - 1)
    BY <2>1, OneAround
  <2> QED BY <2>2
<1> QED BY <1>3, <1>4

-----------------------------------------------------------------------------
(* Calls.                                                                  *)

\* What is known of the function a call enters.
LEMMA CallHolds ==
  ASSUME Inv, mode = "call"
  PROVE  /\ call \in CallArgs /\ CallFits(code, call, frames) /\ IsFunc(code, call.inst, call.func)
         /\ FuncIsValid(code, Texts[prog], call.inst, call.func)
         /\ Callee = code.insts[call.inst].funcs[call.func]
         /\ StackFits(code, Texts[prog], frames, "call") /\ Depths(frames)
<1>1. /\ call \in CallArgs /\ CallFits(code, call, frames)
      /\ StackFits(code, Texts[prog], frames, "call") /\ Depths(frames)
  BY DEF Inv, Control
<1>2. IsFunc(code, call.inst, call.func)
  BY <1>1 DEF CallFits
<1>3. FuncIsValid(code, Texts[prog], call.inst, call.func)
  BY <1>2, CodeHolds DEF CodeIsValid, IsFunc
<1> QED BY <1>1, <1>2, <1>3 DEF Callee, Func

LEMMA InvokeFits ==
  ASSUME Inv, NEW f \in code.exports, NEW args \in [1..Func(1, f).params -> {0, 1}], Invoke(f, args)
  PROVE  Inv'
<1>1. IsFunc(code, 1, f) /\ FuncIsValid(code, Texts[prog], 1, f)
  BY CodeHolds DEF CodeIsValid, IsFunc
<1>2. Func(1, f).params \in Nat
  BY <1>1 DEF FuncIsValid, Func
<1>3. args \in Seq(Value)
  <2>1. 0 \in Value /\ 1 \in Value
    BY DEF Value, NullRef
  <2> QED BY <1>2, <2>1
<1>4. PICK ca : ca = [inst |-> 1, func |-> f, args |-> args, depth |-> 1, hops |-> 0]
  OBVIOUS
<1>5. ca \in CallArgs
  <2>1. f \in Nat
    BY <1>1 DEF IsFunc
  <2> QED BY <1>3, <1>4, <2>1 DEF CallArgs
<1>6. /\ mode = "idle" /\ mode' = "call" /\ call' = ca /\ UNCHANGED <<loaded, frames, saved>>
      /\ fuel' = MaxIterations /\ pending' = NoExn /\ boxes' = <<>>
  BY <1>4 DEF Invoke
<1>7. frames = <<>>
  BY <1>6 DEF Inv, Control, StackFits
<1>8. CallFits(code, ca, frames)
  <2>1. Len(frames) = 0
    BY <1>7
  <2> QED BY <1>1, <1>4, <2>1, LimitsAreNumbers DEF CallFits, DepthFits, CallerDepth
<1>9. Control(code, Texts[prog], "call", ca, frames)
  BY <1>5, <1>6, <1>7, <1>8, ControlEnter DEF Inv
<1>10. PoolsFit'
  BY <1>6, LimitsAreNumbers DEF Inv, PoolsFit
<1> QED BY <1>6, <1>9, <1>10 DEF Inv, loaded

LEMMA FinishFits ==
  ASSUME Inv, Finish
  PROVE  Inv'
<1>1. /\ mode' = "idle" /\ frames' = <<>> /\ pending' = NoExn
      /\ UNCHANGED <<loaded, call, fuel, boxes, saved>>
  BY DEF Finish, machine
<1>2. call \in CallArgs
  BY DEF Inv, Control
<1>3. Control(code, Texts[prog], "idle", call, <<>>)
  BY <1>2, ControlIdle
<1>4. PoolsFit'
  BY <1>1 DEF Inv, PoolsFit
<1> QED BY <1>1, <1>3, <1>4 DEF Inv, loaded

\* An error that comes up before the callee has a frame.
LEMMA RefusedFits ==
  ASSUME Inv, mode = "call", mode' = "unwind", call' = NoCall, UNCHANGED <<loaded, frames, pools>>
  PROVE  Inv'
<1>1. NoCall \in CallArgs
  BY DEF NoCall, CallArgs
<1>2. Control(code, Texts[prog], "unwind", NoCall, frames)
  BY <1>1, ControlRaise DEF Inv
<1>3. PoolsFit'
  BY PoolsKept DEF pools
<1> QED BY <1>2, <1>3 DEF Inv, loaded

LEMMA CallImportFits ==
  ASSUME Inv, CallImport
  PROVE  Inv'
<1>1. mode = "call" /\ call.depth <= MaxCallDepth /\ Callee.kind = "import"
  BY DEF CallImport, Entering
<1>2. PICK ca : ca = [inst |-> Callee.inst, func |-> Callee.func, args |-> call.args,
                      depth |-> call.depth + 1, hops |-> call.hops + 1]
  OBVIOUS
<1>3. /\ mode' = "call" /\ call' = ca /\ UNCHANGED <<loaded, frames, pools>>
  BY <1>2 DEF CallImport, Enter
<1>4. IsFunc(code, Callee.inst, Callee.func)
  BY <1>1, CallHolds DEF FuncIsValid
<1>6. ca \in CallArgs
  <2>1. Callee.inst \in Nat /\ Callee.func \in Nat
    BY <1>4 DEF IsFunc
  <2> QED BY <1>1, <1>2, <2>1, CallHolds DEF CallArgs
<1>7. CallFits(code, ca, frames)
  <2>1. PICK below : below = CallerDepth(frames, Len(frames) + 1)
    OBVIOUS
  <2>2. DepthFits(call.depth, call.hops, below, MaxCallDepth + 1)
    BY <1>1, <2>1, CallHolds DEF CallFits
  <2>3. call.depth \in Nat /\ call.hops \in Nat
    BY <1>1, CallHolds DEF CallArgs
  <2>4. below \in Int
    <3>1. frames \in Seq(Frames)
      BY DEF Inv, Control, StackFits
    <3>2. CASE Len(frames) + 1 = 1
      BY <2>1, <3>2 DEF CallerDepth
    <3>3. CASE Len(frames) + 1 # 1
      <4>1. Len(frames) \in 1..Len(frames) /\ (Len(frames) + 1) - 1 = Len(frames)
        BY <3>1, <3>3
      <4>2. frames[Len(frames)] \in Frames
        BY <3>1, <4>1
      <4> QED BY <2>1, <3>3, <4>1, <4>2, FrameIs DEF CallerDepth
    <3> QED BY <3>2, <3>3
  <2>5. DepthFits(call.depth + 1, call.hops + 1, below, MaxCallDepth + 1)
    BY <1>1, <2>2, <2>3, <2>4, LimitsAreNumbers DEF DepthFits
  <2> QED BY <1>2, <1>4, <2>1, <2>5 DEF CallFits
<1>8. Control(code, Texts[prog], "call", ca, frames)
  BY <1>1, <1>6, <1>7, ControlEnter DEF Inv
<1>9. PoolsFit'
  BY <1>3, PoolsKept DEF pools
<1> QED BY <1>3, <1>8, <1>9 DEF Inv, loaded

\* A call that returned to its caller, or to the host.
LEMMA ReturnedFits ==
  ASSUME Inv, NEW rest, StackFits(code, Texts[prog], rest, "call"), Depths(rest),
         NEW res \in Seq(Value), Deliver(rest, res), UNCHANGED <<loaded, pools>>
  PROVE  Inv'
<1>1. Control(code, Texts[prog], mode', call', frames')
  BY CodeHolds, DeliverFits
<1>2. PoolsFit'
  BY PoolsKept DEF pools
<1> QED BY <1>1, <1>2 DEF Inv, loaded

LEMMA CallHostFits ==
  ASSUME Inv, CallHost
  PROVE  Inv'
<1>1. mode = "call"
  BY DEF CallHost, Entering
<1>2. ASSUME NEW v \in {0, 1}, Deliver(frames, [k \in 1..Callee.results |-> v]), UNCHANGED <<loaded, pools, err>>
      PROVE  Inv'
  <2>1. Callee.results \in Nat
    BY <1>1, CallHolds DEF FuncIsValid
  <2>2. PICK res : res = [k \in 1..Callee.results |-> v]
    OBVIOUS
  <2>3. v \in Value
    BY DEF Value, NullRef
  <2>4. res \in Seq(Value)
    BY <2>1, <2>2, <2>3
  <2>5. Deliver(frames, res) /\ UNCHANGED <<loaded, pools>>
    BY <1>2, <2>2
  <2> QED BY <1>1, <2>4, <2>5, CallHolds, ReturnedFits
<1>3. ASSUME mode' = "unwind", call' = NoCall, UNCHANGED <<loaded, frames, pools>>
      PROVE  Inv'
  BY <1>1, <1>3, RefusedFits
<1> QED BY <1>2, <1>3 DEF CallHost

LEMMA PlainLabels ==
  ASSUME NEW isLoop \in BOOLEAN, NEW arity \in Nat, NEW target \in Nat \ {0}, NEW base \in Nat
  PROVE  PlainLabel(isLoop, arity, target, base) \in Labels
<1>1. NoTry \in Nat
  BY DEF NoTry
<1> QED BY <1>1 DEF PlainLabel, Labels

LEMMA CallWasmFits ==
  ASSUME Inv, CallWasm
  PROVE  Inv'
<1>1. mode = "call" /\ call.depth <= MaxCallDepth /\ Callee.kind = "wasm"
  BY DEF CallWasm, Entering
<1>2. PICK l : l = PlainLabel(FALSE, Callee.results, Len(Callee.ir) + 1, 0)
  OBVIOUS
<1>3. PICK g : g = [inst |-> call.inst, func |-> call.func, pc |-> 1, vals |-> <<>>,
                    locals |-> call.args, depth |-> call.depth, hops |-> call.hops, labels |-> <<l>>]
  OBVIOUS
<1>4. /\ mode' = "run" /\ call' = NoCall /\ frames' = Append(frames, g) /\ UNCHANGED <<loaded, pools>>
  BY <1>2, <1>3 DEF CallWasm
<1>5. /\ call \in CallArgs /\ IsFunc(code, call.inst, call.func)
      /\ Callee = code.insts[call.inst].funcs[call.func]
      /\ Callee.results \in Nat /\ Bracketed(Callee.ir, Texts[prog][call.inst][call.func])
  BY <1>1, CallHolds DEF FuncIsValid
<1> PICK ir : ir = Callee.ir
  OBVIOUS
<1> PICK t : t = Texts[prog][call.inst][call.func]
  OBVIOUS
<1>6. Bracketed(ir, t) /\ Len(ir) \in Nat
  BY <1>5 DEF Bracketed
<1>7. l \in Labels /\ FuncLabelIs(ir, l)
  <2>1. Len(ir) + 1 \in Nat \ {0}
    BY <1>6
  <2>2. l \in Labels
    BY <1>2, <1>5, <2>1, PlainLabels
  <2>3. FuncLabelIs(ir, l)
    BY <1>2 DEF PlainLabel, FuncLabelIs
  <2> QED BY <2>2, <2>3
<1>8. g \in Frames
  <2>1. <<l>> \in Seq(Labels)
    BY <1>7
  <2> QED BY <1>3, <1>5, <2>1 DEF Frames, CallArgs
<1>9. LabelsFit(ir, t, 1, <<l>>)
  BY <1>6, <1>7, FitsFirst
<1>10. FuncOf(code, g) = Callee /\ BodyOf(code, g) = ir
  BY <1>3, <1>5 DEF FuncOf, BodyOf
<1>11. FrameFits(code, Texts[prog], g)
  <2>1. 1 \in 1..(Len(ir) + 1)
    BY <1>6
  <2> QED BY <1>1, <1>3, <1>5, <1>9, <1>10, <2>1 DEF FrameFits
<1>12. NoCall \in CallArgs
  BY DEF NoCall, CallArgs
<1>13. g.depth = call.depth /\ g.hops = call.hops
  BY <1>3
<1>14. Control(code, Texts[prog], "call", call, frames)
  BY <1>1 DEF Inv
<1>15. Control(code, Texts[prog], "run", NoCall, Append(frames, g))
  BY <1>1, <1>8, <1>11, <1>12, <1>13, <1>14, ControlPush
<1>16. PoolsFit'
  BY <1>4, PoolsKept DEF pools
<1> QED BY <1>4, <1>15, <1>16 DEF Inv, loaded

LEMMA ReturnFits ==
  ASSUME Inv, Return
  PROVE  Inv'
<1>1. mode = "run" /\ frames # <<>>
  BY DEF Return, Inv, Control, StackFits
<1>2. PICK n : n = Func(Top.inst, Top.func).results
  OBVIOUS
<1>3. n \in Nat
  <2>1. FuncOf(code, Top).results \in Nat
    BY <1>1, TopHolds, CodeHolds, FrameBody
  <2> QED BY <1>2, <2>1 DEF Func, FuncOf
<1>4. Top.vals \in Seq(Value) /\ Len(Top.vals) \in Nat
  BY <1>1, TopHolds
<1>5. CASE Len(Top.vals) < n
  <2>1. /\ mode' = "unwind" /\ frames' = Front(frames) /\ UNCHANGED <<loaded, call>>
        /\ UNCHANGED <<fuel, boxes, pending, saved>>
    BY <1>2, <1>5 DEF Return, pools
  <2> QED BY <1>1, <2>1, PoolsKept, LeaveFits
<1>6. CASE ~(Len(Top.vals) < n)
  <2>1. PICK res : res = LastN(Top.vals, n)
    OBVIOUS
  <2>2. Deliver(Front(frames), res) /\ UNCHANGED <<loaded, pools>>
    BY <1>2, <1>6, <2>1 DEF Return
  <2>3. res \in Seq(Value)
    BY <1>3, <1>4, <1>6, <2>1, LastValues
  <2>4. PICK rest : rest = Front(frames)
    OBVIOUS
  <2>5. StackFits(code, Texts[prog], rest, "call") /\ Depths(rest)
    BY <1>1, <2>4, ControlPop DEF Inv
  <2> QED BY <2>2, <2>3, <2>4, <2>5, ReturnedFits
<1> QED BY <1>5, <1>6

\* The arguments of a call of the function the instruction names.
LEMMA ArgsHold ==
  ASSUME Inv, NEW ops, Running(ops), ops \subseteq {"call", "return_call"},
         NEW d \in Nat, NEW h \in Nat, NEW np, np = Func(Top.inst, Instr.func).params, ~(Len(Top.vals) < np),
         NEW ca, ca = [inst |-> Top.inst, func |-> Instr.func, args |-> LastN(Top.vals, np),
                    depth |-> d, hops |-> h]
  PROVE  ca \in CallArgs /\ IsFunc(code, ca.inst, ca.func)
<1>1. /\ frames # <<>> /\ Top.pc \in 1..Len(BodyOf(code, Top))
      /\ Instr = BodyOf(code, Top)[Top.pc] /\ Instr.op \in {"call", "return_call"}
  BY InstrHolds
<1>2. IsFunc(code, Top.inst, Instr.func) /\ np \in Nat
  <2>1. /\ IsFunc(code, Top.inst, Instr.func)
        /\ code.insts[Top.inst].funcs[Instr.func].params \in Nat
    BY <1>1, TopHolds, CodeHolds, CalleeIs
  <2> QED BY <2>1 DEF Func
<1>3. Top.vals \in Seq(Value) /\ Len(Top.vals) \in Nat
  BY <1>1, TopHolds
<1>4. LastN(Top.vals, np) \in Seq(Value)
  BY <1>2, <1>3, LastValues
<1>5. Top.inst \in Nat /\ Instr.func \in Nat
  BY <1>2 DEF IsFunc
<1> QED BY <1>2, <1>4, <1>5 DEF CallArgs

LEMMA CallFitsHere ==
  ASSUME Inv, Call
  PROVE  Inv'
<1>1. Running({"call"})
  BY DEF Call
<1>2. /\ frames # <<>> /\ mode = "run" /\ Top.pc \in 1..Len(BodyOf(code, Top))
      /\ Instr = BodyOf(code, Top)[Top.pc] /\ Instr.op \in {"call"}
  BY <1>1, InstrHolds
<1>3. PICK np : np = Func(Top.inst, Instr.func).params
  OBVIOUS
<1>4. CASE Len(Top.vals) < np
  BY <1>2, <1>3, <1>4, FailFits DEF Call
<1>5. CASE ~(Len(Top.vals) < np)
  <2>1. PICK d, h : d = Top.depth + 1 /\ h = 0
    OBVIOUS
  <2>2. PICK ca : ca = [inst |-> Top.inst, func |-> Instr.func, args |-> LastN(Top.vals, np),
                        depth |-> d, hops |-> h]
    OBVIOUS
  <2>3. frames \in Seq(Frames) /\ Len(frames) \in Nat \ {0}
    BY <1>2, TopHolds
  <2>4. Top.depth \in Nat /\ Top.depth <= MaxCallDepth
    <3>1. Len(frames) \in 1..Len(frames)
      BY <2>3
    <3>2. Top \in Frames
      BY <1>2, TopHolds
    <3> QED BY <3>1, <3>2, FrameIs DEF Inv, Control, Depths, DepthFits, Top
  <2>5. d \in Nat /\ h \in Nat /\ DepthFits(d, h, CallerDepth(frames, Len(frames) + 1), MaxCallDepth + 1)
    <3>1. CallerDepth(frames, Len(frames) + 1) = Top.depth
      BY <2>3 DEF CallerDepth, Top
    <3> QED BY <2>1, <2>4, <3>1, LimitsAreNumbers DEF DepthFits
  <2>6. ca \in CallArgs /\ IsFunc(code, ca.inst, ca.func)
    BY <1>1, <1>3, <1>5, <2>2, <2>5, ArgsHold
  <2>7. CallFits(code, ca, frames)
    BY <2>2, <2>5, <2>6 DEF CallFits
  <2>8. /\ mode' = "call" /\ call' = ca /\ UNCHANGED <<loaded, frames, pools>>
    BY <1>3, <1>5, <2>1, <2>2 DEF Call, Enter
  <2>9. AtCall(code, frames[Len(frames)])
    BY <1>2 DEF AtCall, Top
  <2>10. Control(code, Texts[prog], "call", ca, frames)
    BY <2>6, <2>7, <2>9, ControlEnter DEF Inv
  <2>11. PoolsFit'
    BY <2>8, PoolsKept DEF pools
  <2> QED BY <2>8, <2>10, <2>11 DEF Inv, loaded
<1> QED BY <1>4, <1>5

LEMMA ReturnCallFits ==
  ASSUME Inv, ReturnCall
  PROVE  Inv'
<1>1. Running({"return_call"})
  BY DEF ReturnCall
<1>2. /\ frames # <<>> /\ mode = "run"
  BY <1>1, InstrHolds
<1>3. PICK np : np = Func(Top.inst, Instr.func).params
  OBVIOUS
<1>4. CASE Len(Top.vals) < np
  BY <1>2, <1>3, <1>4, FailFits DEF ReturnCall
<1>5. CASE ~(Len(Top.vals) < np) /\ OutOfFuel(fuel)
  <2>1. /\ mode' = "unwind" /\ frames' = Front(frames) /\ UNCHANGED <<loaded, call>>
        /\ UNCHANGED <<fuel, boxes, pending, saved>>
    BY <1>3, <1>5 DEF ReturnCall, pools
  <2> QED BY <1>2, <2>1, PoolsKept, LeaveFits
<1>6. CASE ~(Len(Top.vals) < np) /\ ~OutOfFuel(fuel)
  <2>1. PICK d, h : d = Top.depth /\ h = Top.hops
    OBVIOUS
  <2>2. PICK ca : ca = [inst |-> Top.inst, func |-> Instr.func, args |-> LastN(Top.vals, np),
                        depth |-> d, hops |-> h]
    OBVIOUS
  <2>3. d \in Nat /\ h \in Nat
    <3>1. Top \in Frames
      BY <1>2, TopHolds
    <3> QED BY <2>1, <3>1, FrameIs
  <2>4. ca \in CallArgs /\ IsFunc(code, ca.inst, ca.func)
    BY <1>1, <1>3, <1>6, <2>2, <2>3, ArgsHold
  <2>5. ca.depth = frames[Len(frames)].depth /\ ca.hops = frames[Len(frames)].hops
    BY <2>1, <2>2 DEF Top
  <2>6. /\ mode' = "call" /\ call' = ca /\ frames' = Front(frames) /\ fuel' = Spend(fuel)
        /\ UNCHANGED <<loaded, pending, boxes, saved>>
    BY <1>3, <1>6, <2>1, <2>2 DEF ReturnCall, Enter
  <2>7. Control(code, Texts[prog], "call", ca, Front(frames))
    BY <1>2, <2>4, <2>5, ControlTail DEF Inv
  <2>8. PoolsFit'
    <3>1. fuel \in 0..MaxIterations
      BY DEF Inv, PoolsFit
    <3>2. fuel' \in 0..MaxIterations
      BY <1>6, <2>6, <3>1, SpentFuel
    <3> QED BY <2>6, <3>2 DEF Inv, PoolsFit
  <2> QED BY <2>6, <2>7, <2>8 DEF Inv, loaded
<1> QED BY <1>4, <1>5, <1>6

LEMMA UnwindFits ==
  ASSUME Inv, Unwind
  PROVE  Inv'
<1>1. mode = "unwind" /\ frames # <<>>
  BY DEF Unwind
<1>2. CASE err # "UncaughtException" \/ pending = NoExn
  BY <1>1, <1>2, FailFits DEF Unwind
<1>3. CASE ~(err # "UncaughtException" \/ pending = NoExn)
  <2>1. PICK o : o = ThrowException(Top, pending, fuel, boxes)
    OBVIOUS
  <2>2. Top \in Frames /\ FrameFits(code, Texts[prog], Top)
    BY <1>1, TopHolds
  <2>3. Top.pc \in 1..Len(BodyOf(code, Top))
    <3>1. frames \in Seq(Frames) /\ Len(frames) \in Nat \ {0}
      BY <1>1, TopHolds
    <3>2. AtCall(code, Top)
      BY <1>1, <3>1 DEF Inv, Control, StackFits, Top
    <3> QED BY <3>2 DEF AtCall
  <2>4. /\ fuel \in 0..MaxIterations /\ boxes \in Seq(Exns) /\ Len(boxes) <= MaxExnBoxes
        /\ pending \in Exns
    BY <1>3 DEF Inv, PoolsFit
  <2>5. OutcomeFits(code, Texts[prog], Top, o)
    BY <2>1, <2>2, <2>3, <2>4, CodeHolds, ThrowFits
  <2>6. CASE o.err = Ok
    <3>1. CaughtHere(o)
      BY <1>3, <2>1, <2>6 DEF Unwind, Ok
    <3>2. /\ mode' = "run" /\ frames' = WithTop(o.frame) /\ fuel' = o.fuel /\ boxes' = o.boxes
          /\ pending' = NoExn /\ UNCHANGED <<loaded, call>> /\ UNCHANGED saved
      BY <3>1 DEF CaughtHere
    <3>3. PoolsFit'
      BY <2>5, <3>2 DEF Inv, PoolsFit, OutcomeFits
    <3>4. Follows(code, Texts[prog], Top, o.frame)
      BY <2>5, <2>6 DEF OutcomeFits
    <3> QED BY <1>1, <3>2, <3>3, <3>4, GoFits
  <2>7. CASE o.err = "UncaughtException"
    <3>1. Fail(err)
      BY <1>3, <2>1, <2>7 DEF Unwind, Ok
    <3> QED BY <1>1, <3>1, FailFits
  <2>8. CASE o.err # Ok /\ o.err # "UncaughtException"
    <3>1. /\ pending' = NoExn /\ boxes' = o.boxes /\ frames' = Front(frames) /\ mode' = "unwind"
          /\ UNCHANGED <<loaded, call>> /\ UNCHANGED <<fuel, saved>>
      BY <1>1, <1>3, <2>1, <2>8 DEF Unwind
    <3>2. PoolsFit'
      BY <2>5, <3>1 DEF Inv, PoolsFit, OutcomeFits
    <3> QED BY <1>1, <3>1, <3>2, LeaveFits
  <2> QED BY <2>6, <2>7, <2>8
<1> QED BY <1>2, <1>3

-----------------------------------------------------------------------------
(* Instructions.                                                           *)

Plain(ops) == ops \cap (Openers \cup Closers \cup Catches) = {}

LEMMA NextFits ==
  ASSUME Inv, NEW ops, Running(ops), Plain(ops), NEW v \in Seq(Value),
         NEW h, h = Moved(Top, Top.pc, Top.labels, v), NEW g, g = Next1(h)
  PROVE  Follows(code, Texts[prog], Top, g)
<1>1. /\ frames # <<>> /\ Top.pc \in 1..Len(BodyOf(code, Top))
      /\ Instr = BodyOf(code, Top)[Top.pc] /\ Instr.op \in ops
  BY InstrHolds
<1>2. BodyOf(code, Top)[Top.pc].op \notin Openers \cup Closers \cup Catches
  BY <1>1 DEF Plain
<1>3. g = Moved(Top, Top.pc + 1, Top.labels, v)
  BY NextIs
<1>4. Top \in Frames /\ FrameFits(code, Texts[prog], Top)
  BY <1>1, TopHolds
<1> QED BY <1>1, <1>2, <1>3, <1>4, CodeHolds, PastFits

LEMMA PushMoved ==
  ASSUME NEW a, NEW q, NEW ls, NEW v, NEW h, h = Moved(a, q, ls, v), NEW x
  PROVE  Push(h, x) = Moved(a, q, ls, Append(v, x))
BY SMTT(30) DEF Push, Moved

LEMMA PushIs ==
  ASSUME NEW fr \in Frames, NEW x \in Value
  PROVE  Push(fr, x) = Moved(fr, fr.pc, fr.labels, Append(fr.vals, x)) /\ Append(fr.vals, x) \in Seq(Value)
<1>1. fr = Moved(fr, fr.pc, fr.labels, fr.vals) /\ fr.vals \in Seq(Value)
  BY FrameIs
<1>2. Append(fr.vals, x) \in Seq(Value)
  BY <1>1, LongerSeq
<1>3. PICK ls : ls = fr.labels
  OBVIOUS
<1>4. PICK v : v = fr.vals
  OBVIOUS
<1>5. PICK q : q = fr.pc
  OBVIOUS
<1>6. fr = Moved(fr, q, ls, v)
  BY <1>1, <1>3, <1>4, <1>5
<1>7. Push(fr, x) = Moved(fr, q, ls, Append(v, x))
  BY <1>6, PushMoved
<1> QED BY <1>2, <1>3, <1>4, <1>5, <1>7

LEMMA PopIs ==
  ASSUME NEW fr \in Frames, NEW n \in Nat
  PROVE  /\ Pop(fr, n) = Moved(fr, fr.pc, fr.labels, Keep(fr.vals, Len(fr.vals) - n))
         /\ Keep(fr.vals, Len(fr.vals) - n) \in Seq(Value)
<1>1. fr = Moved(fr, fr.pc, fr.labels, fr.vals) /\ fr.vals \in Seq(Value) /\ Len(fr.vals) \in Nat
  BY FrameIs
<1>2. Len(fr.vals) - n \in Int /\ Len(fr.vals) - n <= Len(fr.vals)
  BY <1>1
<1>3. Keep(fr.vals, Len(fr.vals) - n) \in Seq(Value)
  BY <1>1, <1>2, KeptValues
<1> QED BY <1>1, <1>3 DEF Pop, Moved

LEMMA NextPushed ==
  ASSUME Inv, NEW ops, Running(ops), Plain(ops), NEW x \in Value
  PROVE  Follows(code, Texts[prog], Top, Next1(Push(Top, x)))
<1>1. Top \in Frames
  BY InstrHolds, TopHolds
<1>2. PICK v : v = Append(Top.vals, x)
  OBVIOUS
<1>3. PICK h : h = Push(Top, x)
  OBVIOUS
<1>4. h = Moved(Top, Top.pc, Top.labels, v) /\ v \in Seq(Value)
  BY <1>1, <1>2, <1>3, PushIs
<1> QED BY <1>3, <1>4, NextFits

LEMMA NextPopped ==
  ASSUME Inv, NEW ops, Running(ops), Plain(ops), NEW n \in Nat
  PROVE  Follows(code, Texts[prog], Top, Next1(Pop(Top, n)))
<1>1. Top \in Frames
  BY InstrHolds, TopHolds
<1>2. PICK v : v = Keep(Top.vals, Len(Top.vals) - n)
  OBVIOUS
<1>3. PICK h : h = Pop(Top, n)
  OBVIOUS
<1>4. h = Moved(Top, Top.pc, Top.labels, v) /\ v \in Seq(Value)
  BY <1>1, <1>2, <1>3, PopIs
<1> QED BY <1>3, <1>4, NextFits

LEMMA ConstFits ==
  ASSUME Inv, Const
  PROVE  Inv'
<1>1. Running({"const", "ref.null"})
  BY DEF Const
<1>2. /\ frames # <<>> /\ mode = "run" /\ ValidInstr(code.insts[Top.inst], Instr)
  BY <1>1, InstrHolds
<1>3. PICK x : x = IF Instr.op = "const" THEN Instr.value ELSE NullRef
  OBVIOUS
<1>4. x \in Value
  <2>1. Instr.op = "const" => Instr.value \in Nat
    BY <1>2 DEF ValidInstr
  <2> QED BY <1>3, <2>1 DEF Value, NullRef
<1>5. Plain({"const", "ref.null"})
  BY DEF Plain, Openers, Closers, Catches
<1>6. Follows(code, Texts[prog], Top, Next1(Push(Top, x)))
  BY <1>1, <1>4, <1>5, NextPushed
<1>7. Go(Next1(Push(Top, x)))
  BY <1>3 DEF Const
<1> QED BY <1>2, <1>6, <1>7, StepFits

LEMMA NumericFits ==
  ASSUME Inv, Numeric
  PROVE  Inv'
<1>1. Running({"any"})
  BY DEF Numeric
<1>2. frames # <<>> /\ mode = "run"
  BY <1>1, InstrHolds
<1>3. Plain({"any"})
  BY DEF Plain, Openers, Closers, Catches
<1>4. PICK v \in {0, 1} : Go(Next1(Push(Top, v)))
  BY DEF Numeric
<1>5. v \in Value
  BY DEF Value, NullRef
<1>6. Follows(code, Texts[prog], Top, Next1(Push(Top, v)))
  BY <1>1, <1>3, <1>5, NextPushed
<1> QED BY <1>2, <1>4, <1>6, StepFits

LEMMA DropFits ==
  ASSUME Inv, Drop
  PROVE  Inv'
<1>1. Running({"drop"}) /\ Go(Next1(Pop(Top, 1)))
  BY DEF Drop
<1>2. frames # <<>> /\ mode = "run"
  BY <1>1, InstrHolds
<1>3. Plain({"drop"})
  BY DEF Plain, Openers, Closers, Catches
<1>4. Follows(code, Texts[prog], Top, Next1(Pop(Top, 1)))
  BY <1>1, <1>3, NextPopped
<1> QED BY <1>1, <1>2, <1>4, StepFits

LEMMA LocalGetFits ==
  ASSUME Inv, LocalGet
  PROVE  Inv'
<1>1. Running({"local.get"})
  BY DEF LocalGet
<1>2. frames # <<>> /\ mode = "run"
  BY <1>1, InstrHolds
<1>3. CASE Instr.local \in DOMAIN Top.locals
  <2>1. PICK x : x = Top.locals[Instr.local]
    OBVIOUS
  <2>2. x \in Value
    <3>1. Top.locals \in Seq(Value)
      BY <1>2, TopHolds, FrameIs
    <3> QED BY <1>3, <2>1, <3>1
  <2>3. Plain({"local.get"})
    BY DEF Plain, Openers, Closers, Catches
  <2>4. Follows(code, Texts[prog], Top, Next1(Push(Top, x)))
    BY <1>1, <2>2, <2>3, NextPushed
  <2>5. Go(Next1(Push(Top, x)))
    BY <1>3, <2>1 DEF LocalGet
  <2> QED BY <1>2, <2>4, <2>5, StepFits
<1>4. CASE Instr.local \notin DOMAIN Top.locals
  BY <1>2, <1>4, FailFits DEF LocalGet
<1> QED BY <1>3, <1>4

LEMMA GlobalGetFits ==
  ASSUME Inv, GlobalGet
  PROVE  Inv'
<1>1. Running({"global.get"}) /\ Go(Next1(Push(Top, saved)))
  BY DEF GlobalGet
<1>2. frames # <<>> /\ mode = "run" /\ saved \in Value
  BY <1>1, InstrHolds DEF Inv, PoolsFit
<1>3. Plain({"global.get"})
  BY DEF Plain, Openers, Closers, Catches
<1>4. Follows(code, Texts[prog], Top, Next1(Push(Top, saved)))
  BY <1>1, <1>2, <1>3, NextPushed
<1> QED BY <1>1, <1>2, <1>4, StepFits

LEMMA GlobalSetFits ==
  ASSUME Inv, GlobalSet
  PROVE  Inv'
<1>1. /\ Running({"global.set"}) /\ saved' = TopVal /\ frames' = WithTop(Next1(Pop(Top, 1)))
      /\ UNCHANGED <<loaded, call>> /\ UNCHANGED mode /\ UNCHANGED <<fuel, pending, boxes>>
  BY DEF GlobalSet
<1>2. frames # <<>> /\ mode = "run" /\ TopVal \in Value
  BY <1>1, InstrHolds, TopHolds
<1>3. Plain({"global.set"})
  BY DEF Plain, Openers, Closers, Catches
<1>4. Follows(code, Texts[prog], Top, Next1(Pop(Top, 1)))
  BY <1>1, <1>3, NextPopped
<1>5. PoolsFit'
  BY <1>1, <1>2 DEF Inv, PoolsFit
<1> QED BY <1>1, <1>2, <1>4, <1>5, GoFits

FullLabel(isLoop, arity, target, base, x, y, z) ==
  [isLoop |-> isLoop, arity |-> arity, target |-> target, base |-> base,
   tryTable |-> x, legacy |-> y, caught |-> z]

LEMMA FullLabelsAre ==
  ASSUME NEW isLoop \in BOOLEAN, NEW arity \in Nat, NEW target \in Nat \ {0}, NEW base \in Nat,
         NEW x \in Nat, NEW y \in Nat, NEW z \in Exns \cup {NoExn}
  PROVE  FullLabel(isLoop, arity, target, base, x, y, z) \in Labels
BY DEF FullLabel, Labels

LEMMA FullLabelHas ==
  ASSUME NEW isLoop, NEW arity, NEW target, NEW base, NEW x, NEW y, NEW z,
         NEW l, l = FullLabel(isLoop, arity, target, base, x, y, z)
  PROVE  l.isLoop = isLoop /\ l.target = target /\ l.caught = z /\ l.tryTable = x /\ l.legacy = y
BY DEF FullLabel

WithTry(plain, x, y) == [plain EXCEPT !.tryTable = x, !.legacy = y]

LEMMA TryLabels ==
  ASSUME NEW isLoop, NEW arity, NEW target, NEW base, NEW x, NEW y,
         NEW plain, plain = PlainLabel(isLoop, arity, target, base)
  PROVE  WithTry(plain, x, y) = FullLabel(isLoop, arity, target, base, x, y, NoExn)
<1>1. PICK h : h = [plain EXCEPT !.tryTable = x]
  OBVIOUS
<1>2. plain = FullLabel(isLoop, arity, target, base, NoTry, NoTry, NoExn)
  BY DEF PlainLabel, FullLabel
<1>3. h = FullLabel(isLoop, arity, target, base, x, NoTry, NoExn)
  BY <1>1, <1>2 DEF FullLabel
<1>4. [h EXCEPT !.legacy = y] = FullLabel(isLoop, arity, target, base, x, y, NoExn)
  BY <1>3 DEF FullLabel
<1>5. [plain EXCEPT !.tryTable = x, !.legacy = y] = [h EXCEPT !.legacy = y]
  BY <1>1
<1> QED BY <1>4, <1>5 DEF WithTry

LEMMA LabelsMoved ==
  ASSUME NEW fr, NEW p, NEW ks, NEW v, NEW h, h = Moved(fr, p, ks, v), NEW l, NEW q
  PROVE  [h EXCEPT !.labels = Append(@, l)] = Moved(fr, p, Append(ks, l), v)
BY DEF Moved

LEMMA PcMoved ==
  ASSUME NEW fr, NEW p, NEW ks, NEW v, NEW h, h = Moved(fr, p, ks, v), NEW q
  PROVE  [h EXCEPT !.pc = q] = Moved(fr, q, ks, v)
BY DEF Moved

LEMMA OpenMoved ==
  ASSUME NEW fr, NEW p, NEW ks, NEW v, fr = Moved(fr, p, ks, v),
         NEW l, l = OpenLabel(fr), NEW q
  PROVE  [Open(fr) EXCEPT !.pc = q] = Moved(fr, q, Append(ks, l), v)
<1>1. PICK h : h = [fr EXCEPT !.labels = Append(@, l)]
  OBVIOUS
<1>2. h = Open(fr)
  BY <1>1 DEF Open
<1>3. h = Moved(fr, p, Append(ks, l), v)
  BY <1>1, LabelsMoved
<1> QED BY <1>2, <1>3, PcMoved

\* The label an opener pushes is that of its construct.
LEMMA OpenLabelFits ==
  ASSUME NEW ts, CodeIsValid(code, ts), NEW fr \in Frames, FrameFits(code, ts, fr),
         fr.pc \in 1..Len(BodyOf(code, fr)), BodyOf(code, fr)[fr.pc].op \in Openers,
         ~(Len(fr.vals) < BodyOf(code, fr)[fr.pc].params)
  PROVE  /\ OpenLabel(fr) \in Labels /\ OpenLabel(fr).caught = NoExn
         /\ Targets(BodyOf(code, fr), TextFor(ts, fr), OpenLabel(fr), fr.pc)
<1> PICK ir : ir = BodyOf(code, fr)
  OBVIOUS
<1> PICK t : t = TextFor(ts, fr)
  OBVIOUS
<1> PICK p : p = fr.pc
  OBVIOUS
<1>1. /\ Bracketed(ir, t) /\ CF(fr) = Precompute(ir) /\ Len(ir) \in Nat /\ Body(fr) = ir
      /\ ValidInstr(code.insts[fr.inst], ir[p])
  BY FrameBody DEF CF, Body, BodyOf, Func, FuncOf
<1>2. p \in 1..Len(ir) /\ ir[p].op \in Openers
  OBVIOUS
<1>3. CF(fr).endOf[p] = t.closer[p] /\ t.closer[p] \in (p + 1)..(Len(ir) - 1)
  BY <1>1, <1>2, TablesAt
<1>4. ir[p].params \in Nat /\ ir[p].results \in Nat
  BY <1>1, <1>2 DEF ValidInstr
<1>5. fr.vals \in Seq(Value) /\ Len(fr.vals) \in Nat
  BY FrameIs
<1>6. PICK base : base = Len(fr.vals) - ir[p].params
  OBVIOUS
<1>7. base \in Nat
  BY <1>4, <1>5, <1>6
<1>8. PICK plain : plain = IF ir[p].op = "loop" THEN PlainLabel(TRUE, ir[p].params, p + 1, base)
                           ELSE PlainLabel(FALSE, ir[p].results, t.closer[p] + 1, base)
  OBVIOUS
<1>9. PICK x : x = IF ir[p].op = "try_table" THEN p ELSE NoTry
  OBVIOUS
<1>10. PICK y : y = IF ir[p].op = "try" THEN p ELSE NoTry
  OBVIOUS
<1>20. PICK l : l = OpenLabel(fr)
  OBVIOUS
<1>11. l = [plain EXCEPT !.tryTable = x, !.legacy = y]
  BY <1>1, <1>3, <1>6, <1>8, <1>9, <1>10, <1>20 DEF OpenLabel
<1>12. x \in Nat /\ y \in Nat
  BY <1>2, <1>9, <1>10 DEF NoTry
<1>13. PICK b \in BOOLEAN : b = (ir[p].op = "loop")
  OBVIOUS
<1>14. PICK ar : ar = IF ir[p].op = "loop" THEN ir[p].params ELSE ir[p].results
  OBVIOUS
<1>15. PICK to : to = IF ir[p].op = "loop" THEN p + 1 ELSE t.closer[p] + 1
  OBVIOUS
<1>16. plain = PlainLabel(b, ar, to, base)
  BY <1>8, <1>13, <1>14, <1>15
<1>17. ar \in Nat /\ to \in Nat \ {0}
  BY <1>2, <1>3, <1>4, <1>14, <1>15
<1>23. l = WithTry(plain, x, y)
  BY <1>11 DEF WithTry
<1>18. l = FullLabel(b, ar, to, base, x, y, NoExn)
  BY <1>16, <1>23, TryLabels
<1>19. l \in Labels
  BY <1>7, <1>12, <1>13, <1>17, <1>18, FullLabelsAre
<1>21. l.isLoop = b /\ l.target = to /\ l.caught = NoExn /\ l.tryTable = x /\ l.legacy = y
  BY <1>18, FullLabelHas
<1>22. Targets(ir, t, l, p)
  BY <1>9, <1>10, <1>13, <1>15, <1>21 DEF Targets
<1> QED BY <1>19, <1>20, <1>21, <1>22

\* Into the construct that opens here.
LEMMA OpensFits ==
  ASSUME NEW ts, CodeIsValid(code, ts), NEW fr \in Frames, FrameFits(code, ts, fr),
         fr.pc \in 1..Len(BodyOf(code, fr)), BodyOf(code, fr)[fr.pc].op \in Openers,
         ~(Len(fr.vals) < BodyOf(code, fr)[fr.pc].params),
         NEW q, \/ q = fr.pc + 1
                \/ /\ BodyOf(code, fr)[fr.pc].op = "if"
                   /\ \/ CF(fr).elseOf[fr.pc] # NoElse /\ q = CF(fr).elseOf[fr.pc] + 1
                      \/ q = CF(fr).endOf[fr.pc],
         NEW g, g = [Open(fr) EXCEPT !.pc = q]
  PROVE  Follows(code, ts, fr, g)
<1> PICK ir : ir = BodyOf(code, fr)
  OBVIOUS
<1> PICK t : t = TextFor(ts, fr)
  OBVIOUS
<1> PICK p : p = fr.pc
  OBVIOUS
<1> PICK cf : cf = CF(fr)
  OBVIOUS
<1>1. PICK l : l = OpenLabel(fr)
  OBVIOUS
<1>2. PICK ks : ks = fr.labels
  OBVIOUS
<1>3. PICK ls : ls = Append(ks, l)
  OBVIOUS
<1>4. /\ Bracketed(ir, t) /\ cf = Precompute(ir) /\ Len(ir) \in Nat
  BY FrameBody DEF CF
<1>5. /\ fr = Moved(fr, p, ks, fr.vals) /\ ks \in Seq(Labels) /\ fr.vals \in Seq(Value)
  BY <1>2, FrameIs
<1>6. l \in Labels /\ l.caught = NoExn /\ Targets(ir, t, l, p)
  BY <1>1, OpenLabelFits
<1>7. LabelsFit(ir, t, p, ks)
  BY <1>2 DEF FrameFits, TextFor
<1>8. \/ q = p + 1
      \/ ir[p].op = "if" /\ cf.elseOf[p] # NoElse /\ q = cf.elseOf[p] + 1
      \/ ir[p].op = "if" /\ q = cf.endOf[p]
  OBVIOUS
<1>9. p \in 1..Len(ir) /\ ir[p].op \in Openers
  OBVIOUS
<1>10. LabelsFit(ir, t, q, ls) /\ q \in 1..Len(ir)
  BY <1>3, <1>4, <1>5, <1>6, <1>7, <1>8, <1>9, FitsIn
<1>11. ls \in Seq(Labels)
  BY <1>3, <1>5, <1>6, LongerSeq
<1>12. g = Moved(fr, q, ls, fr.vals)
  BY <1>1, <1>2, <1>3, <1>5, OpenMoved
<1>13. q \in 1..(Len(BodyOf(code, fr)) + 1) /\ LabelsFit(BodyOf(code, fr), TextFor(ts, fr), q, ls)
  BY <1>4, <1>10
<1> QED BY <1>5, <1>11, <1>12, <1>13, MovedFits

LEMMA BlockFits ==
  ASSUME Inv, Block
  PROVE  Inv'
<1>1. Running({"block", "loop", "try_table", "try"})
  BY DEF Block
<1>2. /\ frames # <<>> /\ mode = "run" /\ Top.pc \in 1..Len(BodyOf(code, Top))
      /\ Instr = BodyOf(code, Top)[Top.pc] /\ Instr.op \in {"block", "loop", "try_table", "try"}
  BY <1>1, InstrHolds
<1>3. CASE Len(Top.vals) < Instr.params
  BY <1>2, <1>3, FailFits DEF Block
<1>4. CASE ~(Len(Top.vals) < Instr.params)
  <2>1. Top \in Frames /\ FrameFits(code, Texts[prog], Top) /\ Top = Moved(Top, Top.pc, Top.labels, Top.vals)
    BY <1>2, TopHolds
  <2>2. BodyOf(code, Top)[Top.pc].op \in Openers
    BY <1>2 DEF Openers
  <2>3. PICK q : q = Top.pc + 1
    OBVIOUS
  <2>4. PICK g : g = [Open(Top) EXCEPT !.pc = q]
    OBVIOUS
  <2>5. Follows(code, Texts[prog], Top, g)
    BY <1>2, <1>4, <2>1, <2>2, <2>3, <2>4, CodeHolds, OpensFits
  <2>6. g = Next1(Open(Top))
    <3>1. PICK l : l = OpenLabel(Top)
      OBVIOUS
    <3>2. PICK h : h = [Top EXCEPT !.labels = Append(@, l)]
      OBVIOUS
    <3>3. h = Open(Top)
      BY <3>1, <3>2 DEF Open
    <3>4. h = Moved(Top, Top.pc, Append(Top.labels, l), Top.vals)
      BY <2>1, <3>2, LabelsMoved
    <3>5. Next1(h) = Moved(Top, Top.pc + 1, Append(Top.labels, l), Top.vals)
      BY <3>4, NextIs
    <3>6. g = Moved(Top, q, Append(Top.labels, l), Top.vals)
      BY <2>4, <3>3, <3>4, PcMoved
    <3> QED BY <2>3, <3>3, <3>5, <3>6
  <2>7. Go(g)
    BY <1>4, <2>6 DEF Block
  <2> QED BY <1>2, <2>5, <2>7, StepFits
<1> QED BY <1>3, <1>4

LEMMA IfFits ==
  ASSUME Inv, If
  PROVE  Inv'
<1>1. Running({"if"})
  BY DEF If
<1>2. /\ frames # <<>> /\ mode = "run" /\ Top.pc \in 1..Len(BodyOf(code, Top))
      /\ Instr = BodyOf(code, Top)[Top.pc] /\ Instr.op \in {"if"}
  BY <1>1, InstrHolds
<1>3. PICK fr : fr = Pop(Top, 1)
  OBVIOUS
<1>4. PICK v : v = Keep(Top.vals, Len(Top.vals) - 1)
  OBVIOUS
<1>5. Top \in Frames /\ FrameFits(code, Texts[prog], Top) /\ Top = Moved(Top, Top.pc, Top.labels, Top.vals)
  BY <1>2, TopHolds
<1>6. fr = Moved(Top, Top.pc, Top.labels, v) /\ v \in Seq(Value)
  BY <1>3, <1>4, <1>5, PopIs
<1>7. fr = [Top EXCEPT !.vals = v]
  BY <1>5, <1>6 DEF Moved
<1>8. Follows(code, Texts[prog], Top, fr) /\ fr.pc = Top.pc /\ BodyOf(code, fr) = BodyOf(code, Top)
  BY <1>5, <1>6, <1>7, WithOperands
<1>9. fr \in Frames /\ FrameFits(code, Texts[prog], fr) /\ CF(fr) = CF(Top)
  BY <1>8 DEF Follows, CF
<1>10. CASE Len(fr.vals) < Instr.params
  BY <1>2, <1>3, <1>10, FailFits DEF If
<1>11. CASE ~(Len(fr.vals) < Instr.params)
  <2>1. PICK q : q = IF TopVal # 0 THEN Top.pc + 1
                     ELSE IF CF(Top).elseOf[Top.pc] # NoElse THEN CF(Top).elseOf[Top.pc] + 1
                     ELSE CF(Top).endOf[Top.pc]
    OBVIOUS
  <2>2. PICK g : g = [Open(fr) EXCEPT !.pc = q]
    OBVIOUS
  <2>3. BodyOf(code, fr)[fr.pc].op = "if" /\ fr.pc \in 1..Len(BodyOf(code, fr))
        /\ ~(Len(fr.vals) < BodyOf(code, fr)[fr.pc].params)
    BY <1>2, <1>8, <1>11
  <2>4. BodyOf(code, fr)[fr.pc].op \in Openers
    BY <2>3 DEF Openers
  <2>5. \/ q = fr.pc + 1
        \/ /\ BodyOf(code, fr)[fr.pc].op = "if"
           /\ \/ CF(fr).elseOf[fr.pc] # NoElse /\ q = CF(fr).elseOf[fr.pc] + 1
              \/ q = CF(fr).endOf[fr.pc]
    BY <1>8, <1>9, <2>1, <2>3
  <2>6. Follows(code, Texts[prog], fr, g)
    BY <1>9, <2>2, <2>3, <2>4, <2>5, CodeHolds, OpensFits
  <2>7. Follows(code, Texts[prog], Top, g)
    BY <1>8, <2>6 DEF Follows
  <2>8. Open(fr).pc = Top.pc
    <3>1. PICK l : l = OpenLabel(fr)
      OBVIOUS
    <3>2. Open(fr) = Moved(Top, Top.pc, Append(Top.labels, l), v)
      BY <1>6, <3>1, LabelsMoved DEF Open
    <3> QED BY <3>2 DEF Moved
  <2>9. Go(g)
    <3>1. PICK h : h = Open(fr)
      OBVIOUS
    <3>2. PICK r : r = [h EXCEPT !.pc = IF TopVal # 0 THEN @ + 1
                                        ELSE IF CF(Top).elseOf[Top.pc] # NoElse THEN CF(Top).elseOf[Top.pc] + 1
                                        ELSE CF(Top).endOf[@]]
      OBVIOUS
    <3>3. h.pc = Top.pc
      BY <2>8, <3>1
    <3>4. r = [h EXCEPT !.pc = q]
      BY <2>1, <3>2, <3>3
    <3>5. r = g
      BY <2>2, <3>1, <3>4
    <3>6. Go(r)
      BY <1>3, <1>11, <3>1, <3>2 DEF If
    <3> QED BY <3>5, <3>6
  <2> QED BY <1>2, <2>7, <2>9, StepFits
<1> QED BY <1>10, <1>11

LEMMA SkipToEndFits ==
  ASSUME Inv, SkipToEnd
  PROVE  Inv'
<1>1. Running({"else", "catch", "catch_all"})
  BY DEF SkipToEnd
<1>2. /\ frames # <<>> /\ mode = "run" /\ Top.pc \in 1..Len(BodyOf(code, Top))
      /\ Instr = BodyOf(code, Top)[Top.pc] /\ Instr.op \in {"else", "catch", "catch_all"}
  BY <1>1, InstrHolds
<1>3. Top \in Frames /\ FrameFits(code, Texts[prog], Top) /\ Top = Moved(Top, Top.pc, Top.labels, Top.vals)
      /\ Top.labels \in Seq(Labels) /\ Top.vals \in Seq(Value)
  BY <1>2, TopHolds
<1> PICK ir : ir = BodyOf(code, Top)
  OBVIOUS
<1> PICK t : t = TextFor(Texts[prog], Top)
  OBVIOUS
<1> PICK cf : cf = CF(Top)
  OBVIOUS
<1>4. PICK q : q = cf.endOf[Top.pc]
  OBVIOUS
<1>5. PICK p : p = Top.pc
  OBVIOUS
<1>6. PICK ls : ls = Top.labels
  OBVIOUS
<1>7. /\ Bracketed(ir, t) /\ cf = Precompute(ir) /\ Len(ir) \in Nat
  BY <1>3, CodeHolds, FrameBody DEF CF
<1>8. p \in 1..Len(ir) /\ ir[p].op \in {"else"} \cup Catches /\ ls \in Seq(Labels) /\ LabelsFit(ir, t, p, ls)
  BY <1>2, <1>3, <1>5, <1>6 DEF FrameFits, TextFor, Catches
<1>9. LabelsFit(ir, t, q, ls) /\ q \in 1..Len(ir)
  BY <1>4, <1>5, <1>7, <1>8, FitsSkip
<1>10. PICK g : g = [Top EXCEPT !.pc = q]
  OBVIOUS
<1>11. g = Moved(Top, q, ls, Top.vals)
  BY <1>3, <1>6, <1>10, PcMoved
<1>12. q \in 1..(Len(BodyOf(code, Top)) + 1) /\ LabelsFit(BodyOf(code, Top), TextFor(Texts[prog], Top), q, ls)
  BY <1>7, <1>9
<1>13. Follows(code, Texts[prog], Top, g)
  BY <1>3, <1>6, <1>11, <1>12, MovedFits
<1>14. Go(g)
  BY <1>4, <1>10 DEF SkipToEnd
<1> QED BY <1>2, <1>13, <1>14, StepFits

LEMMA EndFits ==
  ASSUME Inv, End
  PROVE  Inv'
<1>1. Running({"end", "delegate"})
  BY DEF End
<1>2. /\ frames # <<>> /\ mode = "run" /\ Top.pc \in 1..Len(BodyOf(code, Top))
      /\ Instr = BodyOf(code, Top)[Top.pc] /\ Instr.op \in {"end", "delegate"}
  BY <1>1, InstrHolds
<1>3. Top \in Frames /\ FrameFits(code, Texts[prog], Top) /\ Top = Moved(Top, Top.pc, Top.labels, Top.vals)
      /\ Top.labels \in Seq(Labels) /\ Top.vals \in Seq(Value)
  BY <1>2, TopHolds
<1> PICK ir : ir = BodyOf(code, Top)
  OBVIOUS
<1> PICK t : t = TextFor(Texts[prog], Top)
  OBVIOUS
<1>4. PICK q : q = Top.pc + 1
  OBVIOUS
<1>5. PICK p : p = Top.pc
  OBVIOUS
<1>6. PICK ks : ks = Top.labels
  OBVIOUS
<1>7. /\ Bracketed(ir, t) /\ Len(ir) \in Nat
  BY <1>3, CodeHolds, FrameBody
<1>8. p \in 1..Len(ir) /\ ir[p].op \in Closers /\ ks \in Seq(Labels) /\ LabelsFit(ir, t, p, ks)
  BY <1>2, <1>3, <1>5, <1>6 DEF FrameFits, TextFor, Closers
<1>9. LabelsFit(ir, t, p + 1, Front(ks)) /\ ks # <<>>
  BY <1>7, <1>8, FitsOut
<1>10. PICK ls : ls = Front(ks)
  OBVIOUS
<1>11. ls \in Seq(Labels)
  BY <1>8, <1>9, <1>10, FrontSeq
<1>12. PICK h : h = [Top EXCEPT !.labels = IF @ = <<>> THEN @ ELSE Front(@)]
  OBVIOUS
<1>13. h = Moved(Top, Top.pc, ls, Top.vals)
  <2>1. h = [Top EXCEPT !.labels = ls]
    BY <1>6, <1>9, <1>10, <1>12
  <2> QED BY <1>3, <2>1 DEF Moved
<1>14. PICK g : g = Next1(h)
  OBVIOUS
<1>15. g = Moved(Top, q, ls, Top.vals)
  BY <1>4, <1>13, <1>14, NextIs
<1>16. q \in 1..(Len(BodyOf(code, Top)) + 1) /\ LabelsFit(BodyOf(code, Top), TextFor(Texts[prog], Top), q, ls)
  BY <1>4, <1>5, <1>7, <1>8, <1>9, <1>10
<1>17. Follows(code, Texts[prog], Top, g)
  BY <1>3, <1>11, <1>15, <1>16, MovedFits
<1>18. Go(g)
  BY <1>12, <1>14 DEF End
<1> QED BY <1>2, <1>17, <1>18, StepFits

LEMMA BrFits ==
  ASSUME Inv, Br
  PROVE  Inv'
<1>1. Running({"br"}) /\ Take(Branch(Top, Instr.label, fuel, boxes))
  BY DEF Br
<1>2. /\ frames # <<>> /\ mode = "run" /\ Top.pc \in 1..Len(BodyOf(code, Top)) /\ Instr.op \in {"br"}
      /\ ValidInstr(code.insts[Top.inst], Instr)
  BY <1>1, InstrHolds
<1>3. PICK n : n = Instr.label
  OBVIOUS
<1>4. n \in Nat
  BY <1>2, <1>3 DEF ValidInstr
<1>5. /\ Top \in Frames /\ FrameFits(code, Texts[prog], Top) /\ fuel \in 0..MaxIterations
      /\ boxes \in Seq(Exns) /\ Len(boxes) <= MaxExnBoxes
  BY <1>2, TopHolds DEF Inv, PoolsFit
<1>6. PICK o : o = Branch(Top, n, fuel, boxes)
  OBVIOUS
<1>7. OutcomeFits(code, Texts[prog], Top, o)
  BY <1>2, <1>4, <1>5, <1>6, CodeHolds, BranchFits
<1>8. Take(o)
  BY <1>1, <1>3, <1>6
<1> QED BY <1>2, <1>7, <1>8, TakeFits

LEMMA BrIfFits ==
  ASSUME Inv, BrIf
  PROVE  Inv'
<1>1. Running({"br_if"})
  BY DEF BrIf
<1>2. /\ frames # <<>> /\ mode = "run" /\ Top.pc \in 1..Len(BodyOf(code, Top)) /\ Instr.op \in {"br_if"}
      /\ ValidInstr(code.insts[Top.inst], Instr)
  BY <1>1, InstrHolds
<1>3. CASE TopVal = 0
  <2>1. Go(Next1(Pop(Top, 1)))
    BY <1>3 DEF BrIf
  <2>2. Plain({"br_if"})
    BY DEF Plain, Openers, Closers, Catches
  <2>3. Follows(code, Texts[prog], Top, Next1(Pop(Top, 1)))
    BY <1>1, <2>2, NextPopped
  <2> QED BY <1>2, <2>1, <2>3, StepFits
<1>4. CASE TopVal # 0
  <2>1. PICK n : n = Instr.label
    OBVIOUS
  <2>2. n \in Nat
    BY <1>2, <2>1 DEF ValidInstr
  <2>3. /\ Top \in Frames /\ FrameFits(code, Texts[prog], Top) /\ fuel \in 0..MaxIterations
        /\ boxes \in Seq(Exns) /\ Len(boxes) <= MaxExnBoxes
        /\ Top = Moved(Top, Top.pc, Top.labels, Top.vals)
    BY <1>2, TopHolds DEF Inv, PoolsFit
  <2>4. PICK v : v = Keep(Top.vals, Len(Top.vals) - 1)
    OBVIOUS
  <2>5. Pop(Top, 1) = Moved(Top, Top.pc, Top.labels, v) /\ v \in Seq(Value)
    BY <2>3, <2>4, PopIs
  <2>6. Pop(Top, 1) = [Top EXCEPT !.vals = v]
    BY <2>3, <2>5 DEF Moved
  <2>7. PICK o : o = Branch([Top EXCEPT !.vals = v], n, fuel, boxes)
    OBVIOUS
  <2>8. OutcomeFits(code, Texts[prog], Top, o)
    BY <1>2, <2>2, <2>3, <2>5, <2>7, CodeHolds, BranchWithOperands
  <2>9. Take(o)
    BY <1>4, <2>1, <2>6, <2>7 DEF BrIf
  <2> QED BY <1>2, <2>8, <2>9, TakeFits
<1> QED BY <1>3, <1>4

LEMMA ReturnInstrFits ==
  ASSUME Inv, ReturnInstr
  PROVE  Inv'
<1>1. Running({"return"})
  BY DEF ReturnInstr
<1>2. /\ frames # <<>> /\ mode = "run"
  BY <1>1, InstrHolds
<1>3. /\ Top \in Frames /\ FrameFits(code, Texts[prog], Top) /\ Top = Moved(Top, Top.pc, Top.labels, Top.vals)
      /\ Top.labels \in Seq(Labels) /\ Top.vals \in Seq(Value)
  BY <1>2, TopHolds
<1>4. Len(BodyOf(code, Top)) \in Nat
  BY <1>3, CodeHolds, FrameBody
<1>5. PICK q : q = Len(BodyOf(code, Top)) + 1
  OBVIOUS
<1>6. PICK g : g = [Top EXCEPT !.pc = q]
  OBVIOUS
<1>7. g = Moved(Top, q, Top.labels, Top.vals)
  BY <1>3, <1>6, PcMoved
<1>8. q \in 1..(Len(BodyOf(code, Top)) + 1) /\ LabelsFit(BodyOf(code, Top), TextFor(Texts[prog], Top), q, Top.labels)
  BY <1>4, <1>5 DEF LabelsFit
<1>9. Follows(code, Texts[prog], Top, g)
  BY <1>3, <1>7, <1>8, MovedFits
<1>10. Body(Top) = BodyOf(code, Top)
  BY DEF Body, Func, BodyOf, FuncOf
<1>11. Go(g)
  BY <1>5, <1>6, <1>10 DEF ReturnInstr
<1> QED BY <1>2, <1>9, <1>11, StepFits

LEMMA UnreachableFits ==
  ASSUME Inv, Unreachable
  PROVE  Inv'
<1>1. Running({"unreachable"}) /\ Fail("Unreachable")
  BY DEF Unreachable
<1> QED BY <1>1, InstrHolds, FailFits

LEMMA ThrowInstrFits ==
  ASSUME Inv, Throw
  PROVE  Inv'
<1>1. Running({"throw"})
  BY DEF Throw
<1>2. /\ frames # <<>> /\ mode = "run" /\ Top.pc \in 1..Len(BodyOf(code, Top)) /\ Instr.op \in {"throw"}
      /\ ValidInstr(code.insts[Top.inst], Instr)
  BY <1>1, InstrHolds
<1>3. PICK slot : slot = Tags(Top)[Instr.tag]
  OBVIOUS
<1>4. PICK n : n = code.arity[slot]
  OBVIOUS
<1>5. Top \in Frames /\ FrameFits(code, Texts[prog], Top) /\ Top.vals \in Seq(Value) /\ Len(Top.vals) \in Nat
  BY <1>2, TopHolds
<1>6. slot \in 1..Len(code.arity) /\ n \in Nat
  <2>1. IsFunc(code, Top.inst, Top.func)
    BY <1>5, CodeHolds, FrameBody
  <2>2. Instr.tag \in 1..Len(code.insts[Top.inst].tags)
    BY <1>2 DEF ValidInstr
  <2> QED BY <1>3, <1>4, <2>1, <2>2, CodeHolds DEF Tags, IsFunc, CodeIsValid
<1>7. CASE Len(Top.vals) < n
  BY <1>2, <1>3, <1>4, <1>7, FailFits DEF Throw
<1>8. CASE ~(Len(Top.vals) < n)
  <2>1. PICK exn : exn = [tag |-> slot, values |-> LastN(Top.vals, n)]
    OBVIOUS
  <2>2. PICK fr : fr = Pop(Top, n)
    OBVIOUS
  <2>3. PICK v : v = Keep(Top.vals, Len(Top.vals) - n)
    OBVIOUS
  <2>4. LastN(Top.vals, n) \in Seq(Value)
    BY <1>5, <1>6, <1>8, LastValues
  <2>5. exn \in Exns
    BY <1>6, <2>1, <2>4 DEF Exns
  <2>6. fr = Moved(Top, Top.pc, Top.labels, v) /\ v \in Seq(Value)
    BY <1>5, <1>6, <2>2, <2>3, PopIs
  <2>7. Raise(fr, exn)
    BY <1>3, <1>4, <1>8, <2>1, <2>2 DEF Throw
  <2> QED BY <1>2, <2>5, <2>6, <2>7, RaiseFits
<1> QED BY <1>7, <1>8

LEMMA ThrowRefFits ==
  ASSUME Inv, ThrowRef
  PROVE  Inv'
<1>1. Running({"throw_ref"})
  BY DEF ThrowRef
<1>2. /\ frames # <<>> /\ mode = "run" /\ Top.pc \in 1..Len(BodyOf(code, Top))
  BY <1>1, InstrHolds
<1>3. CASE TopVal = NullRef \/ TopVal >= Len(boxes)
  BY <1>2, <1>3, FailFits DEF ThrowRef
<1>4. CASE ~(TopVal = NullRef \/ TopVal >= Len(boxes))
  <2>1. Top \in Frames /\ TopVal \in Value
    BY <1>2, TopHolds
  <2>2. PICK exn : exn = boxes[TopVal + 1]
    OBVIOUS
  <2>3. boxes \in Seq(Exns)
    BY DEF Inv, PoolsFit
  <2>4. TopVal + 1 \in 1..Len(boxes)
    BY <1>4, <2>1, <2>3 DEF Value, NullRef
  <2>5. exn \in Exns
    BY <2>2, <2>3, <2>4
  <2>6. PICK fr : fr = Pop(Top, 1)
    OBVIOUS
  <2>7. PICK v : v = Keep(Top.vals, Len(Top.vals) - 1)
    OBVIOUS
  <2>8. fr = Moved(Top, Top.pc, Top.labels, v) /\ v \in Seq(Value)
    BY <2>1, <2>6, <2>7, PopIs
  <2>9. Raise(fr, exn)
    BY <1>4, <2>2, <2>6 DEF ThrowRef
  <2> QED BY <1>2, <2>5, <2>8, <2>9, RaiseFits
<1> QED BY <1>3, <1>4

LEMMA RethrowFits ==
  ASSUME Inv, Rethrow
  PROVE  Inv'
<1>1. Running({"rethrow"})
  BY DEF Rethrow
<1>2. /\ frames # <<>> /\ mode = "run" /\ Top.pc \in 1..Len(BodyOf(code, Top)) /\ Instr.op \in {"rethrow"}
      /\ ValidInstr(code.insts[Top.inst], Instr)
  BY <1>1, InstrHolds
<1>3. PICK k : k = Len(Top.labels) - Instr.label
  OBVIOUS
<1>4. PICK exn : exn = Top.labels[k].caught
  OBVIOUS
<1>5. /\ Top = Moved(Top, Top.pc, Top.labels, Top.vals) /\ Top.labels \in Seq(Labels) /\ Len(Top.labels) \in Nat
      /\ Top.vals \in Seq(Value)
  BY <1>2, TopHolds
<1>6. CASE k < 1
  BY <1>2, <1>3, <1>6, FailFits DEF Rethrow
<1>7. CASE ~(k < 1) /\ exn = NoExn
  BY <1>2, <1>3, <1>4, <1>7, FailFits DEF Rethrow
<1>8. CASE ~(k < 1) /\ exn # NoExn
  <2>1. Instr.label \in Nat
    BY <1>2 DEF ValidInstr
  <2>2. k \in 1..Len(Top.labels)
    BY <1>3, <1>5, <1>8, <2>1
  <2>3. Top.labels[k] \in Labels
    BY <1>5, <2>2
  <2>4. exn \in Exns
    BY <1>4, <1>8, <2>3, LabelParts
  <2>5. Raise(Top, exn)
    BY <1>3, <1>4, <1>8 DEF Rethrow
  <2>6. PICK fr : fr = Top
    OBVIOUS
  <2>7. PICK v : v = Top.vals
    OBVIOUS
  <2>8. fr = Moved(Top, Top.pc, Top.labels, v) /\ v \in Seq(Value) /\ Raise(fr, exn)
    BY <1>5, <2>5, <2>6, <2>7
  <2> QED BY <1>2, <2>4, <2>8, RaiseFits
<1> QED BY <1>6, <1>7, <1>8

-----------------------------------------------------------------------------
(* The theorems.                                                           *)

LEMMA InvInit ==
  ASSUME Init
  PROVE  Inv
<1>1. NoCall \in CallArgs
  BY DEF NoCall, CallArgs
<1>2. Control(code, Texts[prog], "idle", NoCall, <<>>)
  BY <1>1, ControlIdle
<1>3. PoolsFit
  BY LimitsAreNumbers DEF Init, PoolsFit, Value, NullRef
<1> QED BY <1>2, <1>3 DEF Init, Inv

LEMMA InvNext ==
  ASSUME Inv, [Next]_vars
  PROVE  Inv'
<1>1. CASE Host
  BY <1>1, InvokeFits DEF Host
<1>2. ASSUME CallTooDeep PROVE Inv'
  <2>1. /\ mode = "call" /\ mode' = "unwind" /\ call' = NoCall /\ UNCHANGED <<loaded, frames, pools>>
    BY <1>2 DEF CallTooDeep
  <2> QED BY <2>1, RefusedFits
<1>3. CASE Calls
  BY <1>2, <1>3, CallImportFits, CallHostFits, CallWasmFits, ReturnFits DEF Calls
<1>4. CASE Instructions
  BY <1>4, ConstFits, NumericFits, DropFits, LocalGetFits, GlobalGetFits, GlobalSetFits, BlockFits, IfFits,
     SkipToEndFits, EndFits, BrFits, BrIfFits, ReturnInstrFits, UnreachableFits, CallFitsHere, ReturnCallFits,
     ThrowInstrFits, ThrowRefFits, RethrowFits DEF Instructions
<1>5. CASE Unwind
  BY <1>5, UnwindFits
<1>6. CASE Finish
  BY <1>6, FinishFits
<1>7. CASE UNCHANGED vars
  <2>1. PoolsFit'
    BY <1>7, PoolsKept DEF vars
  <2> QED BY <1>7, <2>1 DEF vars, Inv
<1> QED BY <1>1, <1>3, <1>4, <1>5, <1>6, <1>7 DEF Next, Engine

LEMMA InvAlways == Spec => []Inv
<1>1. Init => Inv
  BY InvInit
<1>2. Inv /\ [Next]_vars => Inv'
  BY InvNext
<1> QED BY <1>1, <1>2, PTL DEF Spec

\* What LabelsMatchTheText says of one label and of one frame.
LabelMatches(t, seq, n, l, p) ==
  LET handling == t.ir[seq[n]].op = "try" /\ InHandler(t, seq[n], p)
  IN  /\ l.isLoop = (t.ir[seq[n]].op = "loop")
      /\ l.target = Exit(t, Keep(seq, n), 0)
      /\ l.caught # NoExn => handling
      /\ handling /\ p < t.closer[seq[n]] => l.caught # NoExn
FrameMatches(fr, t, seq) ==
  fr.pc <= Len(t.ir) =>
    /\ Len(fr.labels) = Len(seq) + 1
    /\ \A n \in DOMAIN seq : LabelMatches(t, seq, n, fr.labels[n + 1], fr.pc)

LEMMA LabelMatchesWhatItIs ==
  ASSUME NEW ir, NEW t, t.ir = ir, NEW seq \in Seq(Nat), NEW n \in 1..Len(seq), NEW l, NEW p,
         LabelIs(ir, t, p, l, seq[n])
  PROVE  LabelMatches(t, seq, n, l, p)
<1>1. n \in 0..Len(seq) /\ n > 0
  OBVIOUS
<1>2. PICK s : s = Keep(seq, n)
  OBVIOUS
<1>3. Len(s) = n /\ s[n] = seq[n]
  BY <1>1, <1>2, KeepSeq
<1>4. Exit(t, s, 0) = IF ir[seq[n]].op = "loop" THEN seq[n] + 1 ELSE t.closer[seq[n]] + 1
  BY <1>1, <1>3 DEF Exit
<1> QED BY <1>2, <1>4 DEF LabelIs, Targets, Catching, Handling, LabelMatches

LEMMA LabelsHold ==
  ASSUME Inv
  PROVE  LabelsMatchTheText
<1>1. ASSUME NEW k \in DOMAIN frames
      PROVE  FrameMatches(frames[k], TextOf(frames[k]), AroundAt(frames[k]))
  <2>1. PICK fr : fr = frames[k]
    OBVIOUS
  <2>2. frames \in Seq(Frames) /\ k \in 1..Len(frames)
    BY DEF Inv, Control, StackFits
  <2>3. fr \in Frames /\ FrameFits(code, Texts[prog], fr)
    BY <2>1, <2>2 DEF Inv, Control, StackFits
  <2>4. PICK ir : ir = BodyOf(code, fr)
    OBVIOUS
  <2>5. PICK t : t = TextOf(fr)
    OBVIOUS
  <2>6. Bracketed(ir, t) /\ Len(ir) \in Nat /\ LabelsFit(ir, t, fr.pc, fr.labels) /\ fr.pc \in 1..(Len(ir) + 1)
    BY <2>3, <2>4, <2>5, CodeHolds, FrameBody DEF FrameFits, TextFor, TextOf
  <2>7. t.ir = ir
    BY <2>6, BracketsMatch DEF Bracketed
  <2>8. PICK seq : seq = AroundAt(fr)
    OBVIOUS
  <2>9. seq = t.around[fr.pc]
    BY <2>5, <2>8 DEF AroundAt
  <2>10. ASSUME fr.pc <= Len(t.ir)
         PROVE  /\ Len(fr.labels) = Len(seq) + 1
                /\ \A n \in DOMAIN seq : LabelMatches(t, seq, n, fr.labels[n + 1], fr.pc)
    <3>1. fr.pc \in 1..Len(ir)
      BY <2>6, <2>7, <2>10
    <3>2. seq \in Seq(Nat)
      BY <2>6, <2>9, <3>1, TextSteps
    <3>3. /\ Len(fr.labels) = Len(seq) + 1
          /\ \A n \in 1..Len(seq) : LabelIs(ir, t, fr.pc, fr.labels[n + 1], seq[n])
      BY <2>6, <2>9, <3>1 DEF LabelsFit, Depth
    <3>4. DOMAIN seq = 1..Len(seq)
      BY <3>2
    <3>5. ASSUME NEW n \in 1..Len(seq)
          PROVE  LabelMatches(t, seq, n, fr.labels[n + 1], fr.pc)
      BY <2>7, <3>2, <3>3, <3>5, LabelMatchesWhatItIs
    <3> QED BY <3>3, <3>4, <3>5
  <2> QED BY <2>1, <2>5, <2>8, <2>10 DEF FrameMatches
<1> QED BY <1>1 DEF FrameMatches, LabelMatches, LabelsMatchTheText

\* The labels of every frame are those the text of its body puts around its
\* position, each with its target, and a legacy try holds an exception exactly
\* while its handler runs (Frame::branch, throw_exception and the handlers of
\* block, loop, if, try, else, catch, end and delegate in interp.rs).
THEOREM LabelsFollowTheText == Spec => []LabelsMatchTheText
<1>1. Inv => LabelsMatchTheText
  BY LabelsHold
<1> QED BY <1>1, InvAlways, PTL

\* The tables precompute_control_flow makes pair every opener of every body with
\* its end, else, handlers and delegate.
THEOREM TablesStayRight == Spec => []TablesPairOpeners
<1>1. ASSUME Inv PROVE TablesPairOpeners
  <2> SUFFICES ASSUME NEW i \in 1..Len(code.insts), NEW f \in 1..Len(code.insts[i].funcs), Func(i, f).kind = "wasm"
               PROVE  TablesAreRight(code.tables[i][f], Texts[prog][i][f])
    BY DEF TablesPairOpeners
  <2>1. FuncIsValid(code, Texts[prog], i, f)
    BY <1>1, CodeHolds DEF CodeIsValid
  <2>2. PICK ir : ir = code.insts[i].funcs[f].ir
    OBVIOUS
  <2>3. Bracketed(ir, Texts[prog][i][f]) /\ code.tables[i][f] = Precompute(ir)
    BY <2>1, <2>2 DEF FuncIsValid, Func
  <2>4. TablesAreRight(Precompute(ir), Text(ir))
    BY <2>3, PrecomputeIsRight DEF Bracketed
  <2> QED BY <2>3, <2>4 DEF Bracketed
<1> QED BY <1>1, InvAlways, PTL

\* The depth that call_function bounds by max_call_depth is the number of active
\* calls and of the imports they went through, and never beyond the bound: every
\* call is one level below its caller and one more for each import hop, and a
\* tail call takes the depth of the frame it replaces.
THEOREM DepthIsCounted == Spec => []DepthCountsActiveCalls
<1>1. ASSUME Inv PROVE DepthCountsActiveCalls
  <2>1. frames \in Seq(Frames)
    BY <1>1 DEF Inv, Control, StackFits
  <2>2. \A k \in DOMAIN frames :
          DepthFits(frames[k].depth, frames[k].hops, CallerDepth(frames, k), MaxCallDepth)
    BY <1>1, <2>1 DEF Inv, Control, Depths
  <2>3. mode = "call" =>
          DepthFits(call.depth, call.hops, CallerDepth(frames, Len(frames) + 1), MaxCallDepth + 1)
    BY <1>1 DEF Inv, Control, CallFits
  <2> QED BY <2>2, <2>3 DEF DepthCountsActiveCalls, DepthFits, CallerDepth
<1> QED BY <1>1, InvAlways, PTL

-----------------------------------------------------------------------------
(* What an error leaves behind.                                            *)

Quiet ==
  /\ mode \in {"idle", "call", "run", "unwind"}
  /\ mode = "unwind" => err # Ok
  /\ CaughtErrorsLeaveNothing

LEMMA FailQuiet ==
  ASSUME Quiet, NEW e, e # Ok, pending = NoExn \/ (err = "UncaughtException" /\ e = err), Fail(e)
  PROVE  Quiet'
BY DEF Fail, Quiet, CaughtErrorsLeaveNothing, Ok

LEMMA GoQuiet ==
  ASSUME Quiet, mode = "run", mode' = "run", UNCHANGED <<pending, backtrace, err>>
  PROVE  Quiet'
BY DEF Quiet, CaughtErrorsLeaveNothing

LEMMA StepQuiet ==
  ASSUME Quiet, mode = "run", NEW g, Go(g)
  PROVE  Quiet'
BY GoQuiet DEF Go, pools

LEMMA RunQuiet ==
  ASSUME Quiet, mode = "run"
  PROVE  pending = NoExn /\ backtrace = <<>> /\ err = Ok
BY DEF Quiet, CaughtErrorsLeaveNothing

LEMMA TakeQuiet ==
  ASSUME Quiet, mode = "run", NEW o, Take(o)
  PROVE  Quiet'
<1>1. CASE o.err = Ok
  BY <1>1, GoQuiet DEF Take
<1>2. CASE o.err # Ok
  <2>1. PICK e : e = o.err
    OBVIOUS
  <2>2. Fail(e) /\ e # Ok
    BY <1>2, <2>1 DEF Take
  <2>3. pending = NoExn
    BY RunQuiet
  <2> QED BY <2>2, <2>3, FailQuiet
<1> QED BY <1>1, <1>2

LEMMA RaiseQuiet ==
  ASSUME Quiet, mode = "run", NEW fr, NEW exn, Raise(fr, exn)
  PROVE  Quiet'
<1>1. PICK o : o = ThrowException(fr, exn, fuel, boxes)
  OBVIOUS
<1>2. CASE o.err = Ok
  <2>1. mode' = mode /\ UNCHANGED <<pending, backtrace, err>>
    BY <1>1, <1>2 DEF Raise
  <2> QED BY <2>1, GoQuiet
<1>3. CASE o.err # Ok
  <2>1. mode' = "unwind" /\ err' = o.err /\ pending' = IF o.err = "UncaughtException" THEN exn ELSE pending
    BY <1>1, <1>3 DEF Raise
  <2> QED BY <1>3, <2>1, RunQuiet DEF Quiet, CaughtErrorsLeaveNothing
<1> QED BY <1>2, <1>3

\* What ends a call leaves no error.
LEMMA DeliverQuiet ==
  ASSUME Quiet, mode \in {"call", "run"}, NEW rest, NEW res, Deliver(rest, res), UNCHANGED <<pools, err>>
  PROVE  Quiet'
<1>1. mode' \in {"idle", "run"} /\ UNCHANGED <<pending, backtrace, err>>
  BY DEF Deliver, pools
<1> QED BY <1>1 DEF Quiet, CaughtErrorsLeaveNothing

LEMMA CallsQuiet ==
  ASSUME Quiet, Calls
  PROVE  Quiet'
<1>1. CASE CallTooDeep
  BY <1>1 DEF CallTooDeep, pools, Quiet, CaughtErrorsLeaveNothing, Ok
<1>2. CASE CallImport
  BY <1>2 DEF CallImport, Entering, Enter, pools, Quiet, CaughtErrorsLeaveNothing
<1>3. CASE CallHost
  <2>1. mode = "call"
    BY <1>3 DEF CallHost, Entering
  <2>2. ASSUME NEW v \in {0, 1}, Deliver(frames, [k \in 1..Callee.results |-> v]), UNCHANGED <<loaded, pools, err>>
        PROVE  Quiet'
    BY <2>1, <2>2, DeliverQuiet
  <2>3. ASSUME NEW e \in {"HostError", "UncaughtException"}, mode' = "unwind", err' = e, UNCHANGED <<loaded, frames, pools>>
        PROVE  Quiet'
    BY <2>1, <2>3 DEF pools, Quiet, CaughtErrorsLeaveNothing, Ok
  <2> QED BY <1>3, <2>2, <2>3 DEF CallHost
<1>4. CASE CallWasm
  BY <1>4 DEF CallWasm, Entering, pools, Quiet, CaughtErrorsLeaveNothing
<1>5. CASE Return
  <2>1. PICK n : n = Func(Top.inst, Top.func).results
    OBVIOUS
  <2>2. mode = "run"
    BY <1>5 DEF Return
  <2>3. CASE Len(Top.vals) < n
    <3>1. mode' = "unwind" /\ err' = "StackUnderflow" /\ UNCHANGED <<pending, backtrace>>
      BY <1>5, <2>1, <2>3 DEF Return, pools
    <3> QED BY <2>2, <3>1 DEF Quiet, CaughtErrorsLeaveNothing, Ok
  <2>4. CASE ~(Len(Top.vals) < n)
    BY <1>5, <2>1, <2>2, <2>4, DeliverQuiet DEF Return
  <2> QED BY <2>3, <2>4
<1> QED BY <1>1, <1>2, <1>3, <1>4, <1>5 DEF Calls

LEMMA InstructionsQuiet ==
  ASSUME Quiet, Instructions
  PROVE  Quiet'
<1>1. mode = "run"
  BY DEF Instructions, Const, Numeric, Drop, LocalGet, GlobalGet, GlobalSet, Block, If, SkipToEnd, End, Br, BrIf,
         ReturnInstr, Unreachable, Call, ReturnCall, Throw, ThrowRef, Rethrow, Running
<1>2. pending = NoExn /\ backtrace = <<>> /\ err = Ok
  BY <1>1, RunQuiet
<1>3. ASSUME NEW e \in Errors, Fail(e) PROVE Quiet'
  <2>1. e # Ok
    BY DEF Errors, Ok
  <2> QED BY <1>2, <1>3, <2>1, FailQuiet
<1>4. CASE Const \/ Numeric \/ Drop \/ GlobalGet \/ SkipToEnd \/ End \/ ReturnInstr
  BY <1>1, <1>4, StepQuiet DEF Const, Numeric, Drop, GlobalGet, SkipToEnd, End, ReturnInstr
<1>5. CASE LocalGet \/ Block \/ If \/ Unreachable
  BY <1>1, <1>3, <1>5, StepQuiet DEF LocalGet, Block, If, Unreachable, Errors
<1>6. CASE GlobalSet
  BY <1>1, <1>6, GoQuiet DEF GlobalSet
<1>7. CASE Br \/ BrIf
  BY <1>1, <1>7, StepQuiet, TakeQuiet DEF Br, BrIf
<1>8. CASE Call
  BY <1>1, <1>2, <1>3, <1>8 DEF Call, Enter, pools, Errors, Quiet, CaughtErrorsLeaveNothing
<1>9. CASE ReturnCall
  BY <1>1, <1>2, <1>3, <1>9 DEF ReturnCall, Enter, pools, Errors, Quiet, CaughtErrorsLeaveNothing, Ok
<1>10. CASE Throw \/ ThrowRef \/ Rethrow
  BY <1>1, <1>3, <1>10, RaiseQuiet DEF Throw, ThrowRef, Rethrow, Errors
<1> QED BY <1>4, <1>5, <1>6, <1>7, <1>8, <1>9, <1>10 DEF Instructions

LEMMA UnwindQuiet ==
  ASSUME Quiet, Unwind
  PROVE  Quiet'
<1>1. mode = "unwind" /\ err # Ok
  BY DEF Unwind, Quiet
<1>2. CASE err # "UncaughtException" \/ pending = NoExn
  <2>1. pending = NoExn /\ Fail(err)
    BY <1>1, <1>2 DEF Unwind, Quiet, CaughtErrorsLeaveNothing
  <2> QED BY <1>1, <2>1, FailQuiet
<1>3. CASE ~(err # "UncaughtException" \/ pending = NoExn)
  <2>1. PICK o : o = ThrowException(Top, pending, fuel, boxes)
    OBVIOUS
  <2>2. CASE o.err = Ok
    <3>1. CaughtHere(o)
      BY <1>3, <2>1, <2>2 DEF Unwind, Ok
    <3> QED BY <3>1 DEF CaughtHere, Quiet, CaughtErrorsLeaveNothing
  <2>3. CASE o.err = "UncaughtException"
    <3>1. Fail(err)
      BY <1>3, <2>1, <2>3 DEF Unwind, Ok
    <3> QED BY <1>1, <1>3, <3>1, FailQuiet
  <2>4. CASE o.err # Ok /\ o.err # "UncaughtException"
    <3>1. err' = o.err /\ pending' = NoExn /\ mode' = "unwind"
      BY <1>1, <1>3, <2>1, <2>4 DEF Unwind
    <3> QED BY <2>4, <3>1 DEF Quiet, CaughtErrorsLeaveNothing
  <2> QED BY <2>2, <2>3, <2>4
<1> QED BY <1>2, <1>3

\* While the guest runs nothing is left of an error it survived, and no pending
\* exception outlives the UncaughtException it belongs to (raise, on_call_error,
\* invoke_index: pending_exn and backtrace are cleared where an error is caught).
THEOREM NothingIsLeft == Spec => []CaughtErrorsLeaveNothing
<1>1. Init => Quiet
  BY DEF Init, Quiet, CaughtErrorsLeaveNothing
<1>2. ASSUME Quiet, [Next]_vars PROVE Quiet'
  <2>1. CASE Host
    BY <2>1 DEF Host, Invoke, Quiet, CaughtErrorsLeaveNothing
  <2>2. CASE Finish
    BY <1>2, <2>2 DEF Finish, Quiet, CaughtErrorsLeaveNothing
  <2>3. CASE UNCHANGED vars
    BY <1>2, <2>3 DEF vars, Quiet, CaughtErrorsLeaveNothing
  <2> QED BY <1>2, <2>1, <2>2, <2>3, CallsQuiet, InstructionsQuiet, UnwindQuiet DEF Next, Engine
<1>3. Quiet => CaughtErrorsLeaveNothing
  BY DEF Quiet
<1> QED BY <1>1, <1>2, <1>3, PTL DEF Spec

-----------------------------------------------------------------------------
(* Exceptions land where the text says.                                    *)

\* A frame at an instruction that may throw, with what is known of its body.
Throwing(ts, fr, ir, t) ==
  /\ CodeIsValid(code, ts) /\ fr \in Frames /\ FrameFits(code, ts, fr)
  /\ ir = BodyOf(code, fr) /\ t = TextFor(ts, fr)
  /\ fr.pc \in 1..Len(ir) /\ ir[fr.pc].op \notin Closers
\* seq is what is around that instruction.
Around(t, fr, seq) == seq = t.around[fr.pc]

LEMMA ThrowingIs ==
  ASSUME NEW ts, NEW fr, NEW ir, NEW t, Throwing(ts, fr, ir, t), NEW seq, Around(t, fr, seq)
  PROVE  /\ Bracketed(ir, t) /\ Len(ir) \in Nat /\ t.ir = ir /\ Body(fr) = ir
         /\ CF(fr) = Precompute(ir) /\ seq \in Seq(Nat) /\ Len(seq) \in Nat
         /\ Len(fr.labels) = Len(seq) + 1 /\ FuncLabelIs(ir, fr.labels[1])
         /\ \A k \in 1..Len(ir) : ValidInstr(code.insts[fr.inst], ir[k])
<1>1. /\ Bracketed(ir, t) /\ Len(ir) \in Nat /\ CF(fr) = Precompute(ir)
      /\ \A k \in 1..Len(ir) : ValidInstr(code.insts[fr.inst], ir[k])
  BY FrameBody DEF Throwing, CF
<1>2. t.ir = ir
  BY <1>1, BracketsMatch DEF Bracketed
<1>3. Body(fr) = ir
  BY DEF Throwing, Body, Func, BodyOf, FuncOf
<1>4. seq \in Seq(Nat)
  BY <1>1, TextSteps DEF Throwing, Around
<1>5. LabelsFit(ir, t, fr.pc, fr.labels) /\ fr.pc \in 1..Len(ir)
  BY DEF Throwing, FrameFits, TextFor
<1>6. Len(fr.labels) = Len(seq) + 1 /\ FuncLabelIs(ir, fr.labels[1])
  BY <1>5 DEF LabelsFit, Depth, Around
<1> QED BY <1>1, <1>2, <1>3, <1>4, <1>6

\* The construct at a level, its label and its tables.
LevelIs(fr, ir, t, l, i) ==
  /\ i \in 1..Len(ir) /\ ir[i].op \in Openers /\ t.closer[i] \in 1..Len(ir)
  /\ Targets(ir, t, l, i)
  /\ ir[i].op = "try" => (PastItsBody(l) <=> InHandler(t, i, fr.pc))
  /\ HandlersAre(ir, CF(fr).handlers[i], CatchesOf(t, i))
  /\ CF(fr).delegate[i] = IF ir[t.closer[i]].op = "delegate" THEN ir[t.closer[i]].label ELSE NoDelegate
  /\ ir[t.closer[i]].op = "delegate" => ir[t.closer[i]].label \in Nat /\ CatchesOf(t, i) = {}

LEMMA ClosedByDelegate ==
  ASSUME NEW ir, NEW t, Bracketed(ir, t), NEW i \in 1..Len(ir), ir[i].op \in Openers,
         NEW k \in 1..Len(ir), t.closer[i] = k, ir[k].op = "delegate"
  PROVE  CatchesOf(t, i) = {}
<1>1. t.ir = ir /\ Len(ir) \in Nat
  BY BracketsMatch DEF Bracketed
<1>2. PICK j \in 1..(k - 1) : ir[j].op = "try" /\ t.closer[j] = k /\ CatchesOf(t, j) = {}
  <2>1. WellBracketed(t)
    BY DEF Bracketed
  <2>2. \A x \in 1..Len(t.ir) : t.ir[x].op = "delegate" =>
                \E j \in 1..(x - 1) : t.ir[j].op = "try" /\ t.closer[j] = x /\ CatchesOf(t, j) = {}
    BY <2>1, Zenon DEF WellBracketed
  <2> QED BY <1>1, <2>2
<1>3. j \in 1..Len(ir) /\ ir[j].op \in Openers
  BY <1>1, <1>2 DEF Openers
<1>4. i = j
  BY <1>1, <1>2, <1>3, OneCloser DEF Bracketed
<1> QED BY <1>2, <1>4

LEMMA LevelAt ==
  ASSUME NEW ts, NEW fr, NEW ir, NEW t, Throwing(ts, fr, ir, t), NEW seq, Around(t, fr, seq),
         NEW n \in 1..Len(seq), NEW l, l = fr.labels[n + 1]
  PROVE  LevelIs(fr, ir, t, l, seq[n])
<1>1. /\ Bracketed(ir, t) /\ Len(ir) \in Nat /\ t.ir = ir /\ CF(fr) = Precompute(ir)
      /\ seq \in Seq(Nat) /\ Len(seq) \in Nat
      /\ \A k \in 1..Len(ir) : ValidInstr(code.insts[fr.inst], ir[k])
  BY ThrowingIs
<1>2. PICK p : p = fr.pc
  OBVIOUS
<1>3. p \in 1..Len(ir) /\ ir[p].op \notin Closers /\ seq = t.around[p] /\ LabelsFit(ir, t, p, fr.labels)
  BY <1>2 DEF Throwing, Around, FrameFits, TextFor
<1>4. n \in 1..Depth(t, p)
  BY <1>3 DEF Depth
<1>5. PICK i : i = seq[n]
  OBVIOUS
<1>6. LabelIs(ir, t, p, l, i)
  BY <1>3, <1>4, <1>5 DEF LabelsFit
<1>7. i \in 1..(p - 1) /\ i \in 1..Len(ir) /\ ir[i].op \in Openers /\ p <= t.closer[i]
  BY SMTT(30), <1>1, <1>3, <1>4, <1>5, OneAround
<1>8. t.closer[i] \in (i + 1)..(Len(ir) - 1) /\ ir[t.closer[i]].op \in Closers
  BY <1>1, <1>7, BracketsMatch DEF Bracketed, Nested, Matches
<1>9. t.closer[i] \in 1..Len(ir) /\ p < t.closer[i]
  <2>1. p # t.closer[i]
    BY <1>3, <1>8
  <2> QED BY <1>1, <1>3, <1>7, <1>8, <2>1
<1>10. ir[i].op = "try" => (PastItsBody(l) <=> InHandler(t, i, p))
  BY <1>6, <1>9 DEF LabelIs, Catching, Handling, PastItsBody
<1>11. /\ HandlersAre(ir, CF(fr).handlers[i], CatchesOf(t, i))
       /\ CF(fr).delegate[i] = IF ir[t.closer[i]].op = "delegate" THEN ir[t.closer[i]].label ELSE NoDelegate
  BY <1>1, <1>7, TablesAt
<1>12. ir[t.closer[i]].op = "delegate" => ir[t.closer[i]].label \in Nat /\ CatchesOf(t, i) = {}
  BY <1>1, <1>7, <1>9, ClosedByDelegate DEF ValidInstr
<1> QED BY <1>2, <1>5, <1>6, <1>7, <1>9, <1>10, <1>11, <1>12 DEF LevelIs, LabelIs

\* The clauses of the try_table, and the handlers of the try, that take an exception.
ClausesFor(tags, exn, t, i) ==
  {k \in DOMAIN t.ir[i].catches :
     LET c == t.ir[i].catches[k] IN c.tag = NoTag \/ tags[c.tag] = exn.tag}
HandlersFor(tags, exn, t, i) ==
  {k \in CatchesOf(t, i) : t.ir[k].op = "catch_all" \/ tags[t.ir[k].tag] = exn.tag}

\* What Taker says at level n, by what f says further out.
LandCase(tags, p, exn, t, seq, f, n) ==
  IF n = 0 THEN <<0, 0>>
  ELSE LET i == seq[n]
           closing == t.ir[t.closer[i]]
           handlers == {k \in CatchesOf(t, i) : t.ir[k].op = "catch_all" \/ tags[t.ir[k].tag] = exn.tag}
       IN  CASE t.ir[i].op = "try_table" /\ ClausesFor(tags, exn, t, i) # {} ->
                  <<n, Min(ClausesFor(tags, exn, t, i))>>
             [] t.ir[i].op = "try" /\ closing.op = "delegate" ->
                  f[IF closing.label < n - 1 THEN n - 1 - closing.label ELSE 0]
             [] t.ir[i].op = "try" /\ handlers # {} /\ ~InHandler(t, i, p) -> <<n, Min(handlers)>>
             [] OTHER -> f[n - 1]

TakerBy(tags, p, exn, t, seq) ==
  (CHOOSE f : f = [n \in 0..Len(seq) |-> LandCase(tags, p, exn, t, seq, f, n)])[Len(seq)]

\* Where control goes to a taker.
PlaceOf(t, seq, at) == Place(t, seq, at[1], at[2])

LEMMA TakerNeeds ==
  ASSUME NEW fr, NEW exn
  PROVE  Taker(fr, exn) = TakerBy(Tags(fr), fr.pc, exn, TextOf(fr), AroundAt(fr))
BY DEF Taker, TakerBy, LandCase, ClausesFor

LEMMA LandingNeeds ==
  ASSUME NEW fr, NEW exn
  PROVE  Landing(fr, exn) = PlaceOf(TextOf(fr), AroundAt(fr), TakerBy(Tags(fr), fr.pc, exn, TextOf(fr), AroundAt(fr)))
BY TakerNeeds DEF Landing, PlaceOf

\* The same with the three cases one after the other.
LandStep(fr, exn, t, seq, f, n) ==
  IF n = 0 THEN <<0, 0>>
  ELSE LET i == seq[n]
           closing == t.ir[t.closer[i]]
       IN  IF t.ir[i].op = "try_table" /\ ClausesFor(Tags(fr), exn, t, i) # {}
           THEN <<n, Min(ClausesFor(Tags(fr), exn, t, i))>>
           ELSE IF t.ir[i].op = "try" /\ closing.op = "delegate"
           THEN f[IF closing.label < n - 1 THEN n - 1 - closing.label ELSE 0]
           ELSE IF t.ir[i].op = "try" /\ HandlersFor(Tags(fr), exn, t, i) # {} /\ ~InHandler(t, i, fr.pc)
           THEN <<n, Min(HandlersFor(Tags(fr), exn, t, i))>>
           ELSE f[n - 1]

LEMMA CasesAreApart ==
  ASSUME NEW fr, NEW exn, NEW t, NEW seq, NEW f, NEW n,
         n # 0 /\ t.ir[t.closer[seq[n]]].op = "delegate" => CatchesOf(t, seq[n]) = {}
  PROVE  LandCase(Tags(fr), fr.pc, exn, t, seq, f, n) = LandStep(fr, exn, t, seq, f, n)
<1>1. CASE n = 0
  BY <1>1 DEF LandCase, LandStep
<1>2. CASE n # 0
  <2>1. PICK i : i = seq[n]
    OBVIOUS
  <2>2. PICK hs : hs = HandlersFor(Tags(fr), exn, t, i)
    OBVIOUS
  <2>3. hs = {k \in CatchesOf(t, i) : t.ir[k].op = "catch_all" \/ Tags(fr)[t.ir[k].tag] = exn.tag}
    BY <2>2 DEF HandlersFor
  <2>4. PICK a \in BOOLEAN : a = (t.ir[i].op = "try_table" /\ ClausesFor(Tags(fr), exn, t, i) # {})
    OBVIOUS
  <2>5. PICK b \in BOOLEAN : b = (t.ir[i].op = "try" /\ t.ir[t.closer[i]].op = "delegate")
    OBVIOUS
  <2>6. PICK c \in BOOLEAN : c = (t.ir[i].op = "try" /\ hs # {} /\ ~InHandler(t, i, fr.pc))
    OBVIOUS
  <2>7. PICK x : x = <<n, Min(ClausesFor(Tags(fr), exn, t, i))>>
    OBVIOUS
  <2>8. PICK y : y = f[IF t.ir[t.closer[i]].label < n - 1 THEN n - 1 - t.ir[t.closer[i]].label ELSE 0]
    OBVIOUS
  <2>9. PICK z : z = <<n, Min(hs)>>
    OBVIOUS
  <2>10. LandCase(Tags(fr), fr.pc, exn, t, seq, f, n) = CASE a -> x [] b -> y [] c -> z [] OTHER -> f[n - 1]
    BY <1>2, <2>1, <2>3, <2>4, <2>5, <2>6, <2>7, <2>8, <2>9 DEF LandCase
  <2>11. LandStep(fr, exn, t, seq, f, n) = IF a THEN x ELSE IF b THEN y ELSE IF c THEN z ELSE f[n - 1]
    BY <1>2, <2>1, <2>2, <2>4, <2>5, <2>6, <2>7, <2>8, <2>9 DEF LandStep
  <2>12. ~(a /\ b) /\ ~(a /\ c)
    BY <2>4, <2>5, <2>6
  <2>13. ~(b /\ c)
    BY <1>2, <2>1, <2>3, <2>5, <2>6
  <2> QED BY <2>10, <2>11, <2>12, <2>13
<1> QED BY <1>1, <1>2

\* Delegates name a label.
SkipsAreNumbers(t, seq) ==
  \A n \in 1..Len(seq) : t.ir[t.closer[seq[n]]].op = "delegate" => t.ir[t.closer[seq[n]]].label \in Nat

LEMMA LandingLooksOut ==
  ASSUME NEW fr, NEW exn, NEW t, NEW seq, Len(seq) \in Nat, SkipsAreNumbers(t, seq), NEW n \in 0..Len(seq),
         NEW f, NEW f2, \A e \in 0..(n - 1) : f[e] = f2[e]
  PROVE  LandStep(fr, exn, t, seq, f, n) = LandStep(fr, exn, t, seq, f2, n)
<1>1. CASE n = 0
  BY <1>1 DEF LandStep
<1>2. CASE n # 0
  <2>1. n \in 1..Len(seq) /\ n - 1 \in 0..(n - 1)
    BY <1>2
  <2>2. PICK i : i = seq[n]
    OBVIOUS
  <2>3. PICK closing : closing = t.ir[t.closer[i]]
    OBVIOUS
  <2>4. PICK e : e = IF closing.label < n - 1 THEN n - 1 - closing.label ELSE 0
    OBVIOUS
  <2>5. closing.op = "delegate" => e \in 0..(n - 1)
    BY <2>1, <2>2, <2>3, <2>4 DEF SkipsAreNumbers
  <2>6. closing.op = "delegate" => f[e] = f2[e]
    BY <2>5
  <2>7. f[n - 1] = f2[n - 1]
    BY <2>1
  <2> QED BY <1>2, <2>2, <2>3, <2>4, <2>6, <2>7 DEF LandStep
<1> QED BY <1>1, <1>2

LandsFrom(f, fr, exn, t, seq, m) == f = [n \in 0..m |-> LandStep(fr, exn, t, seq, f, n)]

LEMMA LandingExists ==
  ASSUME NEW fr, NEW exn, NEW t, NEW seq, Len(seq) \in Nat, SkipsAreNumbers(t, seq)
  PROVE  \E f : LandsFrom(f, fr, exn, t, seq, Len(seq))
<1> DEFINE S == {k \in Nat : k <= Len(seq) => \E f : LandsFrom(f, fr, exn, t, seq, k)}
<1>1. 0 \in S
  <2> PICK f : f = [n \in 0..0 |-> <<0, 0>>]
    OBVIOUS
  <2>1. \A n \in 0..0 : LandStep(fr, exn, t, seq, f, n) = <<0, 0>>
    BY DEF LandStep
  <2>2. LandsFrom(f, fr, exn, t, seq, 0)
    BY <2>1 DEF LandsFrom
  <2> QED BY <2>2
<1>2. ASSUME NEW k \in Nat, k \in S PROVE k + 1 \in S
  <2> SUFFICES ASSUME k + 1 <= Len(seq) PROVE \E f : LandsFrom(f, fr, exn, t, seq, k + 1)
    OBVIOUS
  <2>1. PICK f : LandsFrom(f, fr, exn, t, seq, k)
    BY <1>2
  <2>2. f = [n \in 0..k |-> LandStep(fr, exn, t, seq, f, n)]
    BY <2>1 DEF LandsFrom
  <2>3. PICK m : m = k + 1
    OBVIOUS
  <2>4. PICK f2 : f2 = [n \in 0..m |-> IF n = m THEN LandStep(fr, exn, t, seq, f, m) ELSE f[n]]
    OBVIOUS
  <2>5. \A e \in 0..k : f[e] = f2[e]
    BY <2>3, <2>4
  <2>6. ASSUME NEW n \in 0..m PROVE f2[n] = LandStep(fr, exn, t, seq, f2, n)
    <3>1. n \in 0..Len(seq) /\ \A e \in 0..(n - 1) : f[e] = f2[e]
      BY <2>3, <2>5
    <3>2. LandStep(fr, exn, t, seq, f, n) = LandStep(fr, exn, t, seq, f2, n)
      BY <3>1, LandingLooksOut
    <3>3. CASE n = m
      BY <2>4, <3>2, <3>3
    <3>4. CASE n # m
      <4>1. n \in 0..k
        BY <2>3, <3>4
      <4>2. f2[n] = f[n]
        BY <2>4, <3>4
      <4>3. f[n] = LandStep(fr, exn, t, seq, f, n)
        BY <2>2, <4>1
      <4> QED BY <3>2, <4>2, <4>3
    <3> QED BY <3>3, <3>4
  <2>7. f2 = [n \in 0..m |-> LandStep(fr, exn, t, seq, f2, n)]
    BY <2>4, <2>6
  <2> QED BY <2>3, <2>7 DEF LandsFrom
<1> HIDE DEF S
<1>3. \A k \in Nat : k \in S
  BY <1>1, <1>2, NatSetInduction
<1> QED BY <1>3 DEF S

\* A try that a delegate closes has no handlers.
DelegatesStandAlone(t, seq) ==
  \A n \in 1..Len(seq) : t.ir[t.closer[seq[n]]].op = "delegate" => CatchesOf(t, seq[n]) = {}

\* Taker, level by level.
LEMMA LandingIs ==
  ASSUME NEW fr, NEW exn, NEW t, t = TextOf(fr), NEW seq, Around(t, fr, seq), Len(seq) \in Nat,
         SkipsAreNumbers(t, seq), DelegatesStandAlone(t, seq)
  PROVE  \E f : /\ \A n \in 0..Len(seq) : f[n] = LandStep(fr, exn, t, seq, f, n)
                /\ Landing(fr, exn) = PlaceOf(t, seq, f[Len(seq)])
<1>1. \A f : \A n \in 0..Len(seq) : LandCase(Tags(fr), fr.pc, exn, t, seq, f, n) = LandStep(fr, exn, t, seq, f, n)
  <2> SUFFICES ASSUME NEW f, NEW n \in 0..Len(seq)
               PROVE  LandCase(Tags(fr), fr.pc, exn, t, seq, f, n) = LandStep(fr, exn, t, seq, f, n)
    OBVIOUS
  <2>1. n # 0 => n \in 1..Len(seq)
    OBVIOUS
  <2>2. n # 0 /\ t.ir[t.closer[seq[n]]].op = "delegate" => CatchesOf(t, seq[n]) = {}
    BY <2>1 DEF DelegatesStandAlone
  <2> QED BY <2>2, CasesAreApart
<1>2. PICK f0 : LandsFrom(f0, fr, exn, t, seq, Len(seq))
  BY LandingExists
<1>3. f0 = [n \in 0..Len(seq) |-> LandCase(Tags(fr), fr.pc, exn, t, seq, f0, n)]
  BY <1>1, <1>2 DEF LandsFrom
<1>4. PICK f : f = CHOOSE x : x = [n \in 0..Len(seq) |-> LandCase(Tags(fr), fr.pc, exn, t, seq, x, n)]
  OBVIOUS
<1>5. f = [n \in 0..Len(seq) |-> LandCase(Tags(fr), fr.pc, exn, t, seq, f, n)]
  BY <1>3, <1>4
<1>6. \A n \in 0..Len(seq) : f[n] = LandCase(Tags(fr), fr.pc, exn, t, seq, f, n)
  BY <1>5
<1>7. seq = AroundAt(fr)
  BY DEF Around, AroundAt
<1>8. Landing(fr, exn) = PlaceOf(t, seq, TakerBy(Tags(fr), fr.pc, exn, t, seq))
  BY <1>7, LandingNeeds
<1>9. TakerBy(Tags(fr), fr.pc, exn, t, seq) = f[Len(seq)]
  BY <1>4 DEF TakerBy
<1> QED BY <1>1, <1>6, <1>8, <1>9

LEMMA LeastIs ==
  ASSUME NEW T \in SUBSET Nat, NEW x \in T, \A y \in T : x <= y
  PROVE  Min(T) = x
<1>1. Min(T) \in T /\ \A y \in T : Min(T) <= y
  BY FirstOf
<1>2. Min(T) <= x /\ x <= Min(T) /\ x \in Nat /\ Min(T) \in Nat
  BY <1>1
<1> QED BY <1>2

\* The clause the search stops at is the first that takes the exception.
LEMMA CatchIs ==
  ASSUME NEW fr, NEW ir, NEW t, NEW l, NEW i, Targets(ir, t, l, i), t.ir = ir, Body(fr) = ir,
         ir[i].op = "try_table", ValidInstr(code.insts[fr.inst], ir[i]), NEW exn
  PROVE  /\ Catch(fr, l, exn) = IF ClausesFor(Tags(fr), exn, t, i) # {} THEN Min(ClausesFor(Tags(fr), exn, t, i)) ELSE 0
         /\ Catch(fr, l, exn) # 0 <=> ClausesFor(Tags(fr), exn, t, i) # {}
         /\ Catch(fr, l, exn) # 0 => ir[i].catches[Catch(fr, l, exn)].label \in Nat
<1>1. PICK cs : cs = ir[i].catches
  OBVIOUS
<1>2. PICK R : R = [tag : {NoTag} \cup 1..Len(code.insts[fr.inst].tags), label : Nat, ref : BOOLEAN]
  OBVIOUS
<1>3. cs \in Seq(R)
  BY <1>1, <1>2 DEF ValidInstr
<1>4. PICK T : T = ClausesFor(Tags(fr), exn, t, i)
  OBVIOUS
<1>5. T = {k \in 1..Len(cs) : cs[k].tag = NoTag \/ Tags(fr)[cs[k].tag] = exn.tag}
  <2>1. DOMAIN cs = 1..Len(cs)
    BY <1>3
  <2> QED BY <1>1, <1>4, <2>1 DEF ClausesFor
<1>6. l.tryTable = i
  BY DEF Targets
<1>7. Body(fr)[l.tryTable].catches = cs
  BY <1>1, <1>6
<1>8. Catch(fr, l, exn) = IF T # {} THEN Min(T) ELSE 0
  BY <1>5, <1>7 DEF Catch, SelectInSeq
<1>9. T \in SUBSET Nat /\ T \subseteq 1..Len(cs)
  BY <1>5
<1>10. T # {} => Min(T) \in 1..Len(cs)
  BY <1>9, FirstOf
<1>11. \A k \in 1..Len(cs) : cs[k].label \in Nat
  <2>1. \A k \in 1..Len(cs) : cs[k] \in R
    BY <1>3
  <2> QED BY <1>2, <2>1
<1> QED BY <1>1, <1>4, <1>8, <1>10, <1>11

\* The handler the search stops at is the first of the text that takes the exception.
LEMMA HandlerIs ==
  ASSUME NEW fr, NEW ir, NEW t, Bracketed(ir, t), NEW l, NEW i \in 1..Len(ir), ir[i].op = "try", Targets(ir, t, l, i),
         t.closer[i] \in 1..Len(ir), HandlersAre(ir, CF(fr).handlers[i], CatchesOf(t, i)),
         \A k \in 1..Len(ir) : ValidInstr(code.insts[fr.inst], ir[k]), NEW exn
  PROVE  /\ Handler(fr, l, exn) # 0 <=> HandlersFor(Tags(fr), exn, t, i) # {}
         /\ Handler(fr, l, exn) # 0 =>
              CF(fr).handlers[l.legacy][Handler(fr, l, exn)].pc = Min(HandlersFor(Tags(fr), exn, t, i)) + 1
<1>1. PICK hs : hs = CF(fr).handlers[i]
  OBVIOUS
<1>2. PICK C : C = CatchesOf(t, i)
  OBVIOUS
<1>3. HandlersAre(ir, hs, C)
  BY <1>1, <1>2
<1>4. PICK H : H = HandlersFor(Tags(fr), exn, t, i)
  OBVIOUS
<1>5. t.ir = ir /\ Len(ir) \in Nat
  BY BracketsMatch DEF Bracketed
<1>6. C \subseteq 1..Len(ir) /\ \A k \in C : ir[k].op \in Catches
  BY <1>2, <1>5 DEF CatchesOf, Inside
<1>7. H = {k \in C : ir[k].op = "catch_all" \/ Tags(fr)[ir[k].tag] = exn.tag}
  BY <1>2, <1>4, <1>5 DEF HandlersFor
<1>8. PICK T : T = {x \in 1..Len(hs) : hs[x].tag = NoTag \/ Tags(fr)[hs[x].tag] = exn.tag}
  OBVIOUS
<1>9. l.legacy = i
  BY DEF Targets
<1>10. Handler(fr, l, exn) = IF T # {} THEN Min(T) ELSE 0
  <2>1. CF(fr).handlers[l.legacy] = hs
    BY <1>1, <1>9
  <2> QED BY <1>8, <2>1 DEF Handler, SelectInSeq
<1>11. ASSUME NEW x \in 1..Len(hs), NEW k \in C, hs[x] = HandlerAt(ir, k)
       PROVE  hs[x].pc = k + 1 /\ (x \in T <=> k \in H)
  <2>1. hs[x].pc = k + 1 /\ hs[x].tag = IF ir[k].op = "catch" THEN ir[k].tag ELSE NoTag
    BY <1>11 DEF HandlerAt
  <2>2. CASE ir[k].op = "catch"
    <3>1. ir[k].tag \in 1..Len(code.insts[fr.inst].tags)
      BY <1>6, <2>2 DEF ValidInstr
    <3>2. ir[k].tag # NoTag
      BY <3>1 DEF NoTag
    <3> QED BY <1>7, <1>8, <2>1, <2>2, <3>2
  <2>3. CASE ir[k].op = "catch_all"
    BY <1>7, <1>8, <2>1, <2>3
  <2> QED BY <1>6, <2>2, <2>3 DEF Catches
<1>12. T \in SUBSET Nat /\ H \in SUBSET Nat /\ T \subseteq 1..Len(hs)
  <2>1. T \subseteq 1..Len(hs)
    BY <1>8
  <2>2. T \in SUBSET Nat
    BY <2>1
  <2>3. H \subseteq 1..Len(ir)
    BY <1>6, <1>7
  <2>4. H \in SUBSET Nat
    BY <2>3
  <2> QED BY <2>1, <2>2, <2>4
<1>13. ASSUME T # {}
       PROVE  H # {} /\ Min(T) # 0 /\ hs[Min(T)].pc = Min(H) + 1
  <2>1. PICK m : m = Min(T)
    OBVIOUS
  <2>2. m \in T /\ \A x \in T : m <= x
    BY <1>12, <1>13, <2>1, FirstOf
  <2>3. m \in 1..Len(hs)
    BY <1>12, <2>2
  <2>4. PICK k \in C : hs[m] = HandlerAt(ir, k)
    BY <1>3, <2>3 DEF HandlersAre
  <2>5. k \in H /\ hs[m].pc = k + 1
    BY <1>11, <2>2, <2>3, <2>4
  <2>6. ASSUME NEW y \in H PROVE k <= y
    <3>1. PICK x \in 1..Len(hs) : hs[x] = HandlerAt(ir, y)
      BY <1>3, <1>7 DEF HandlersAre
    <3>2. x \in T /\ hs[x].pc = y + 1
      BY <1>7, <1>11, <3>1
    <3>3. m <= x
      BY <2>2, <3>2
    <3>4. m < x => hs[m].pc < hs[x].pc
      BY <1>3, <2>3 DEF HandlersAre
    <3>5. k \in Nat /\ y \in Nat /\ x \in Nat /\ m \in Nat
      BY <1>12, <2>3, <2>5
    <3>6. CASE m = x
      BY <2>5, <3>2, <3>5, <3>6
    <3>7. CASE m < x
      BY <2>5, <3>2, <3>4, <3>5, <3>7
    <3> QED BY <3>3, <3>5, <3>6, <3>7
  <2>7. Min(H) = k
    BY <1>12, <2>5, <2>6, LeastIs
  <2> QED BY <2>1, <2>3, <2>5, <2>7
<1>14. ASSUME H # {} PROVE T # {}
  <2>1. PICK k \in H : TRUE
    BY <1>14
  <2>2. PICK x \in 1..Len(hs) : hs[x] = HandlerAt(ir, k)
    BY <1>3, <1>7 DEF HandlersAre
  <2> QED BY <1>7, <1>11, <2>2
<1>15. Handler(fr, l, exn) # 0 <=> T # {}
  BY <1>10, <1>13
<1>16. Handler(fr, l, exn) # 0 => hs[Handler(fr, l, exn)].pc = Min(H) + 1
  BY <1>10, <1>13, <1>15
<1> QED BY <1>1, <1>4, <1>9, <1>13, <1>14, <1>15, <1>16

\* A clause at level n goes to the label that the text counts from outside its
\* try_table.
LEMMA ExitIs ==
  ASSUME NEW ts, NEW fr, NEW ir, NEW t, Throwing(ts, fr, ir, t), NEW seq, Around(t, fr, seq),
         NEW n \in 1..Len(seq), NEW c \in Nat, NEW k, k = n - c
  PROVE  Exit(t, Keep(seq, n - 1), c) = IF k < 1 THEN Len(ir) + 1 ELSE fr.labels[k].target
<1>1. /\ t.ir = ir /\ Len(ir) \in Nat /\ seq \in Seq(Nat) /\ Len(seq) \in Nat
      /\ FuncLabelIs(ir, fr.labels[1])
  BY ThrowingIs
<1>2. PICK s : s = Keep(seq, n - 1)
  OBVIOUS
<1>3. n - 1 \in 0..Len(seq) /\ n \in Nat
  BY <1>1
<1>4. Len(s) = n - 1 /\ \A m \in 1..(n - 1) : s[m] = seq[m]
  BY <1>1, <1>2, <1>3, KeepSeq
<1>5. CASE c >= n - 1
  <2>1. Exit(t, s, c) = Len(ir) + 1
    BY <1>1, <1>4, <1>5 DEF Exit
  <2>2. k < 1 \/ k = 1
    BY <1>3, <1>5
  <2> QED BY <1>1, <1>2, <2>1, <2>2 DEF FuncLabelIs
<1>6. CASE ~(c >= n - 1)
  <2>1. PICK m : m = n - 1 - c
    OBVIOUS
  <2>2. m \in 1..(n - 1) /\ m \in 1..Len(seq) /\ k = m + 1 /\ ~(k < 1)
    BY <1>1, <1>3, <1>6, <2>1
  <2>3. PICK j : j = seq[m]
    OBVIOUS
  <2>4. Exit(t, s, c) = IF ir[j].op = "loop" THEN j + 1 ELSE t.closer[j] + 1
    BY <1>1, <1>4, <1>6, <2>1, <2>2, <2>3 DEF Exit
  <2>5. LevelIs(fr, ir, t, fr.labels[m + 1], j)
    BY <2>2, <2>3, LevelAt
  <2>6. fr.labels[k].target = IF ir[j].op = "loop" THEN j + 1 ELSE t.closer[j] + 1
    BY <2>2, <2>5 DEF LevelIs, Targets
  <2> QED BY <1>2, <2>2, <2>4, <2>6
<1> QED BY <1>3, <1>5, <1>6

\* Where a frame goes on after a search, 0 for nowhere.
LandsAt(fr, at) ==
  LET l == fr.labels[Len(fr.labels) - at.depth]
      c == Body(fr)[l.tryTable].catches[at.clause]
      k == Len(fr.labels) - TableLabel(at.depth, c)
  IN  IF at.kind = "table" THEN IF k < 1 THEN Len(Body(fr)) + 1 ELSE fr.labels[k].target
      ELSE IF at.kind = "legacy" THEN CF(fr).handlers[l.legacy][at.clause].pc
      ELSE 0

\* g is a search of the labels and f one of the text, both at every level.
Searching(fr, exn, t, seq, g, f) ==
  /\ \A d \in 0..Len(fr.labels) : g[d] = SearchStep(fr, exn, g, Len(fr.labels), d)
  /\ \A n \in 0..Len(seq) : f[n] = LandStep(fr, exn, t, seq, f, n)
AgreeAt(fr, t, seq, g, f, n) == PlaceOf(t, seq, f[n]) = LandsAt(fr, g[Len(seq) - n])

LEMMA AgreeOutside ==
  ASSUME NEW ts, NEW fr, NEW ir, NEW t, Throwing(ts, fr, ir, t), NEW seq, Around(t, fr, seq),
         NEW exn, NEW g, NEW f, Searching(fr, exn, t, seq, g, f)
  PROVE  AgreeAt(fr, t, seq, g, f, 0) /\ PlaceOf(t, seq, f[0]) = 0 /\ g[Len(seq) + 1] = Nowhere
<1>1. Len(seq) \in Nat /\ Len(fr.labels) = Len(seq) + 1 /\ FuncLabelIs(ir, fr.labels[1])
  BY ThrowingIs
<1>2. PICK D : D = Len(seq)
  OBVIOUS
<1>3. PICK L : L = Len(fr.labels)
  OBVIOUS
<1>4. D \in Nat /\ L = D + 1 /\ L - D = 1 /\ D # L /\ D \in 0..L /\ L \in 0..L
  BY <1>1, <1>2, <1>3
<1>5. PlaceOf(t, seq, f[0]) = 0
  <2>1. 0 \in 0..Len(seq)
    BY <1>1
  <2>2. f[0] = <<0, 0>>
    BY <2>1 DEF Searching, LandStep
  <2>3. f[0][1] = 0
    BY <2>2
  <2> QED BY <2>3 DEF PlaceOf, Place
<1>6. g[L] = Nowhere
  BY <1>3, <1>4 DEF Searching, SearchStep
<1>7. g[D] = SearchStep(fr, exn, g, L, D)
  BY <1>3, <1>4 DEF Searching
<1>8. fr.labels[1].tryTable = NoTry /\ fr.labels[1].legacy = NoTry
  BY <1>1 DEF FuncLabelIs
<1>9. g[D] = g[D + 1]
  BY <1>4, <1>7, <1>8 DEF SearchStep
<1>10. LandsAt(fr, Nowhere) = 0
  BY DEF LandsAt, Nowhere
<1> QED BY <1>1, <1>2, <1>4, <1>5, <1>6, <1>9, <1>10 DEF AgreeAt

LEMMA AgreeFurther ==
  ASSUME NEW ts, NEW fr, NEW ir, NEW t, Throwing(ts, fr, ir, t), NEW seq, Around(t, fr, seq),
         NEW exn, NEW g, NEW f, Searching(fr, exn, t, seq, g, f),
         NEW n \in 1..Len(seq), \A m \in 0..(n - 1) : AgreeAt(fr, t, seq, g, f, m)
  PROVE  AgreeAt(fr, t, seq, g, f, n)
<1>1. /\ Bracketed(ir, t) /\ Len(ir) \in Nat /\ t.ir = ir /\ Body(fr) = ir
      /\ Len(seq) \in Nat /\ Len(fr.labels) = Len(seq) + 1
      /\ \A k \in 1..Len(ir) : ValidInstr(code.insts[fr.inst], ir[k])
  BY ThrowingIs
<1>2. PICK D : D = Len(seq)
  OBVIOUS
<1>3. PICK L : L = Len(fr.labels)
  OBVIOUS
<1>4. PICK d : d = D - n
  OBVIOUS
<1>5. /\ D \in Nat /\ L = D + 1 /\ n \in 1..D /\ d \in 0..(D - 1) /\ d \in 0..L /\ d # L
      /\ L - d = n + 1 /\ D - (n - 1) = d + 1 /\ n \in 0..D /\ n # 0 /\ n - 1 \in 0..(n - 1)
  BY <1>1, <1>2, <1>3, <1>4
<1>6. PICK i : i = seq[n]
  OBVIOUS
<1>7. PICK l : l = fr.labels[n + 1]
  OBVIOUS
<1>8. LevelIs(fr, ir, t, l, i)
  BY <1>6, <1>7, LevelAt
<1>9. /\ i \in 1..Len(ir) /\ t.closer[i] \in 1..Len(ir) /\ Targets(ir, t, l, i)
      /\ HandlersAre(ir, CF(fr).handlers[i], CatchesOf(t, i)) /\ ValidInstr(code.insts[fr.inst], ir[i])
  BY <1>1, <1>8 DEF LevelIs
<1>10. g[d] = SearchStep(fr, exn, g, L, d)
  BY <1>3, <1>5 DEF Searching
<1>11. f[n] = LandStep(fr, exn, t, seq, f, n)
  BY <1>2, <1>5 DEF Searching
<1>12. PlaceOf(t, seq, f[n - 1]) = LandsAt(fr, g[d + 1])
  BY <1>2, <1>5 DEF AgreeAt
<1>13. /\ l.tryTable = IF ir[i].op = "try_table" THEN i ELSE NoTry
       /\ l.legacy = IF ir[i].op = "try" THEN i ELSE NoTry
       /\ i # NoTry
  BY <1>9 DEF Targets, NoTry
<1>14. CASE ir[i].op = "try_table" /\ ClausesFor(Tags(fr), exn, t, i) # {}
  <2>1. PICK x : x = Catch(fr, l, exn)
    OBVIOUS
  <2>2. x = Min(ClausesFor(Tags(fr), exn, t, i)) /\ x # 0 /\ ir[i].catches[x].label \in Nat
    BY <1>1, <1>9, <1>14, <2>1, CatchIs
  <2>3. g[d] = [kind |-> "table", depth |-> d, clause |-> x]
    BY <1>5, <1>7, <1>10, <1>13, <1>14, <2>1, <2>2 DEF SearchStep
  <2>4. PICK c : c = ir[i].catches[x].label
    OBVIOUS
  <2>5. PICK k : k = n - c
    OBVIOUS
  <2>6. PlaceOf(t, seq, f[n]) = Exit(t, Keep(seq, n - 1), c)
    <3>1. f[n] = <<n, x>>
      BY <1>1, <1>5, <1>6, <1>11, <1>14, <2>2 DEF LandStep
    <3>2. f[n][1] = n /\ f[n][2] = x
      BY <3>1
    <3> QED BY <1>1, <1>5, <1>6, <1>14, <2>4, <3>2 DEF PlaceOf, Place
  <2>7. PlaceOf(t, seq, f[n]) = IF k < 1 THEN Len(ir) + 1 ELSE fr.labels[k].target
    <3>1. c \in Nat
      BY <2>2, <2>4
    <3>2. Exit(t, Keep(seq, n - 1), c) = IF k < 1 THEN Len(ir) + 1 ELSE fr.labels[k].target
      BY <2>5, <3>1, ExitIs
    <3> QED BY <2>6, <3>2
  <2>8. L - (d + 1 + c) = k
    <3>1. c \in Nat /\ d \in Int /\ D \in Int /\ n \in Int /\ L = D + 1
      BY <1>5, <2>2, <2>4
    <3> QED BY <1>4, <2>5, <3>1
  <2>9. LandsAt(fr, g[d]) = IF k < 1 THEN Len(ir) + 1 ELSE fr.labels[k].target
    <3>1. fr.labels[L - d] = l /\ l.tryTable = i
      BY <1>5, <1>7, <1>13, <1>14
    <3>2. TableLabel(d, ir[i].catches[x]) = d + 1 + c
      BY <2>4 DEF TableLabel
    <3>3. g[d].kind = "table" /\ g[d].depth = d /\ g[d].clause = x
      BY <2>3
    <3> QED BY <1>1, <1>3, <2>8, <3>1, <3>2, <3>3 DEF LandsAt
  <2> QED BY <1>2, <1>4, <2>7, <2>9 DEF AgreeAt
<1>15. CASE ir[i].op = "try_table" /\ ClausesFor(Tags(fr), exn, t, i) = {}
  <2>1. Catch(fr, l, exn) = 0
    BY <1>1, <1>9, <1>15, CatchIs
  <2>2. g[d] = g[d + 1]
    BY <1>5, <1>7, <1>10, <1>13, <1>15, <2>1 DEF SearchStep
  <2>3. f[n] = f[n - 1]
    BY <1>1, <1>5, <1>6, <1>11, <1>15 DEF LandStep
  <2> QED BY <1>2, <1>4, <1>12, <2>2, <2>3 DEF AgreeAt
<1>16. CASE ir[i].op = "try" /\ ir[t.closer[i]].op = "delegate"
  <2>1. PICK skip : skip = ir[t.closer[i]].label
    OBVIOUS
  <2>2. skip \in Nat /\ CF(fr).delegate[i] = skip
    BY <1>8, <1>16, <2>1 DEF LevelIs
  <2>3. skip # NoDelegate
    BY <2>2 DEF NoDelegate
  <2>4. g[d] = g[IF d + 1 + skip < L THEN d + 1 + skip ELSE L]
    BY <1>5, <1>7, <1>10, <1>13, <1>16, <2>2, <2>3 DEF SearchStep, NoTry
  <2>5. f[n] = f[IF skip < n - 1 THEN n - 1 - skip ELSE 0]
    BY <1>1, <1>5, <1>6, <1>11, <1>16, <2>1 DEF LandStep
  <2>6. CASE skip < n
    <3>1. PICK m : m = n - 1 - skip
      OBVIOUS
    <3>2. m \in 0..(n - 1) /\ D - m = d + 1 + skip /\ d + 1 + skip < L
      BY <1>4, <1>5, <2>2, <2>6, <3>1
    <3>3. g[d] = g[D - m]
      BY <2>4, <3>2
    <3>4. f[n] = f[m]
      <4>1. skip < n - 1 \/ m = 0
        BY <1>5, <2>2, <2>6, <3>1
      <4>2. ~(skip < n - 1) => m = 0
        BY <4>1
      <4> QED BY <2>5, <3>1, <4>2
    <3>5. PlaceOf(t, seq, f[m]) = LandsAt(fr, g[D - m])
      BY <1>2, <3>2 DEF AgreeAt
    <3> QED BY <1>2, <1>4, <3>3, <3>4, <3>5 DEF AgreeAt
  <2>7. CASE ~(skip < n)
    <3>1. ~(d + 1 + skip < L) /\ ~(skip < n - 1)
      BY <1>4, <1>5, <2>2, <2>7
    <3>2. g[d] = Nowhere /\ PlaceOf(t, seq, f[n]) = 0
      BY <1>2, <1>5, <2>4, <2>5, <3>1, AgreeOutside
    <3>3. LandsAt(fr, Nowhere) = 0
      BY DEF LandsAt, Nowhere
    <3> QED BY <1>2, <1>4, <3>2, <3>3 DEF AgreeAt
  <2> QED BY <2>6, <2>7
<1>17. CASE ir[i].op = "try" /\ ir[t.closer[i]].op # "delegate"
  <2>1. CF(fr).delegate[i] = NoDelegate /\ (PastItsBody(l) <=> InHandler(t, i, fr.pc))
    BY <1>8, <1>17 DEF LevelIs
  <2>2. PICK H : H = HandlersFor(Tags(fr), exn, t, i)
    OBVIOUS
  <2>3. PICK x : x = Handler(fr, l, exn)
    OBVIOUS
  <2>4. /\ x # 0 <=> H # {}
        /\ x # 0 => CF(fr).handlers[l.legacy][x].pc = Min(H) + 1
    BY <1>1, <1>9, <1>17, <2>2, <2>3, HandlerIs
  <2>5. CASE H # {} /\ ~InHandler(t, i, fr.pc)
    <3>1. g[d] = [kind |-> "legacy", depth |-> d, clause |-> x]
      BY <1>5, <1>7, <1>10, <1>13, <1>17, <2>1, <2>3, <2>4, <2>5 DEF SearchStep, NoTry
    <3>2. PlaceOf(t, seq, f[n]) = Min(H) + 1
      <4>1. f[n] = <<n, Min(H)>>
        BY <1>1, <1>5, <1>6, <1>11, <1>17, <2>2, <2>5 DEF LandStep
      <4>2. f[n][1] = n /\ f[n][2] = Min(H)
        BY <4>1
      <4> QED BY <1>1, <1>5, <1>6, <1>17, <4>2 DEF PlaceOf, Place
    <3>3. LandsAt(fr, g[d]) = CF(fr).handlers[l.legacy][x].pc
      <4>1. PICK at : at = g[d]
        OBVIOUS
      <4>2. at.kind = "legacy" /\ at.depth = d /\ at.clause = x
        BY <3>1, <4>1
      <4>3. fr.labels[Len(fr.labels) - at.depth] = l
        BY <1>3, <1>5, <1>7, <4>2
      <4>4. LandsAt(fr, at) = CF(fr).handlers[l.legacy][x].pc
        BY <4>2, <4>3 DEF LandsAt
      <4> QED BY <4>1, <4>4
    <3> QED BY <1>2, <1>4, <2>4, <2>5, <3>2, <3>3 DEF AgreeAt
  <2>6. CASE ~(H # {} /\ ~InHandler(t, i, fr.pc))
    <3>1. g[d] = g[d + 1]
      BY <1>5, <1>7, <1>10, <1>13, <1>17, <2>1, <2>3, <2>4, <2>6 DEF SearchStep, NoTry
    <3>2. f[n] = f[n - 1]
      BY <1>1, <1>5, <1>6, <1>11, <1>17, <2>2, <2>6 DEF LandStep
    <3> QED BY <1>2, <1>4, <1>12, <3>1, <3>2 DEF AgreeAt
  <2> QED BY <2>5, <2>6
<1>18. CASE ir[i].op # "try_table" /\ ir[i].op # "try"
  <2>1. g[d] = g[d + 1]
    BY <1>5, <1>7, <1>10, <1>13, <1>18 DEF SearchStep
  <2>2. f[n] = f[n - 1]
    BY <1>1, <1>5, <1>6, <1>11, <1>18 DEF LandStep
  <2> QED BY <1>2, <1>4, <1>12, <2>1, <2>2 DEF AgreeAt
<1> QED BY <1>14, <1>15, <1>16, <1>17, <1>18

\* The search of the labels finds what the text says.
LEMMA SearchIsLexical ==
  ASSUME NEW ts, NEW fr, NEW ir, NEW t, Throwing(ts, fr, ir, t), t = TextOf(fr), NEW exn
  PROVE  Landing(fr, exn) = LandsAt(fr, Search(fr, exn))
<1>1. PICK seq : seq = t.around[fr.pc]
  OBVIOUS
<1>2. Around(t, fr, seq)
  BY <1>1 DEF Around
<1>3. t.ir = ir /\ Len(seq) \in Nat /\ Len(fr.labels) = Len(seq) + 1 /\ Len(ir) \in Nat
  BY <1>2, ThrowingIs
<1>4. \A n \in 1..Len(seq) : LevelIs(fr, ir, t, fr.labels[n + 1], seq[n])
  BY <1>2, LevelAt
<1>5. SkipsAreNumbers(t, seq)
  BY <1>3, <1>4 DEF SkipsAreNumbers, LevelIs
<1>6. DelegatesStandAlone(t, seq)
  BY <1>3, <1>4 DEF LevelIs, DelegatesStandAlone
<1>7. PICK f : /\ \A n \in 0..Len(seq) : f[n] = LandStep(fr, exn, t, seq, f, n)
               /\ Landing(fr, exn) = PlaceOf(t, seq, f[Len(seq)])
  BY <1>2, <1>3, <1>5, <1>6, LandingIs
<1>8. SkipsOut(fr)
  <2>1. fr.pc \in 1..Len(BodyOf(code, fr)) /\ CodeIsValid(code, ts) /\ fr \in Frames /\ FrameFits(code, ts, fr)
    BY DEF Throwing
  <2> QED BY <2>1, DelegatesSkipOut
<1>9. PICK L : L = Len(fr.labels)
  OBVIOUS
<1>10. L \in Nat
  BY <1>3, <1>9
<1>11. PICK g : SearchesFrom(g, fr, exn, L, 0) /\ Search(fr, exn) = g[0]
  BY <1>8, <1>9, <1>10, SearchIs
<1>12. \A d \in 0..L : g[d] = SearchStep(fr, exn, g, L, d)
  BY <1>11 DEF SearchesFrom
<1>13. Searching(fr, exn, t, seq, g, f)
  BY <1>7, <1>9, <1>12 DEF Searching
<1> DEFINE S == {k \in Nat : k <= Len(seq) => \A m \in 0..k : AgreeAt(fr, t, seq, g, f, m)}
<1>14. 0 \in S
  <2>1. AgreeAt(fr, t, seq, g, f, 0)
    BY <1>2, <1>13, AgreeOutside
  <2>2. \A m \in 0..0 : m = 0
    OBVIOUS
  <2> QED BY <2>1, <2>2
<1>15. ASSUME NEW k \in Nat, k \in S PROVE k + 1 \in S
  <2> SUFFICES ASSUME k + 1 <= Len(seq) PROVE \A m \in 0..(k + 1) : AgreeAt(fr, t, seq, g, f, m)
    OBVIOUS
  <2>1. PICK n : n = k + 1
    OBVIOUS
  <2>2. n \in 1..Len(seq) /\ n - 1 = k
    BY <1>3, <2>1
  <2>3. \A m \in 0..(n - 1) : AgreeAt(fr, t, seq, g, f, m)
    BY <1>3, <1>15, <2>2
  <2>4. AgreeAt(fr, t, seq, g, f, n)
    BY <1>2, <1>13, <2>2, <2>3, AgreeFurther
  <2>5. \A m \in 0..n : m = n \/ m \in 0..(n - 1)
    BY <2>2
  <2> QED BY <2>1, <2>3, <2>4, <2>5
<1> HIDE DEF S
<1>16. \A k \in Nat : k \in S
  BY <1>14, <1>15, NatSetInduction
<1>17. AgreeAt(fr, t, seq, g, f, Len(seq))
  BY <1>3, <1>16 DEF S
<1>18. Len(seq) - Len(seq) = 0
  BY <1>3
<1> QED BY <1>7, <1>11, <1>17, <1>18 DEF AgreeAt

\* An outcome that lands at q; it is uncaught only if q is nowhere.
Lands(o, q) ==
  /\ o.err = Ok => o.frame.pc = q
  /\ o.err = "UncaughtException" => q = 0

LEMMA BranchLands ==
  ASSUME NEW fr, "pc" \in DOMAIN fr, NEW n, NEW fu, NEW bx, NEW q,
         LET k == Len(fr.labels) - n IN ~(k < 1) => q = fr.labels[k].target
  PROVE  Lands(Branch(fr, n, fu, bx), q)
<1>1. PICK k : k = Len(fr.labels) - n
  OBVIOUS
<1>2. PICK l : l = fr.labels[k]
  OBVIOUS
<1> QED BY <1>1, <1>2 DEF Branch, Lands, Fine, Fails, Ok, Jump

LEMMA FailureLands ==
  ASSUME NEW e \in {"StackUnderflow", "ExnStoreExhausted"}, NEW fr, NEW fu, NEW bx, NEW q
  PROVE  Lands(Fails(e, fr, fu, bx), q)
BY DEF Lands, Fails, Ok

LEMMA TableLands ==
  ASSUME NEW fr \in Frames, NEW exn, NEW d, NEW i, NEW fu, NEW bx,
         NEW at, at = [kind |-> "table", depth |-> d, clause |-> i]
  PROVE  Lands(EnterTable(fr, exn, d, i, fu, bx), LandsAt(fr, at))
<1>1. PICK L : L = Len(fr.labels)
  OBVIOUS
<1>2. PICK l : l = fr.labels[L - d]
  OBVIOUS
<1>3. PICK c : c = Body(fr)[l.tryTable].catches[i]
  OBVIOUS
<1>4. PICK n : n = TableLabel(d, c)
  OBVIOUS
<1>5. PICK q : q = LandsAt(fr, at)
  OBVIOUS
<1>6. ~(L - n < 1) => q = fr.labels[L - n].target
  BY <1>1, <1>2, <1>3, <1>4, <1>5 DEF LandsAt
<1>7. fr = Moved(fr, fr.pc, fr.labels, fr.vals)
  BY FrameIs
<1>8. ASSUME NEW v, NEW b PROVE Lands(Branch([fr EXCEPT !.vals = v], n, fu, b), q)
  <2>1. PICK g : g = [fr EXCEPT !.vals = v]
    OBVIOUS
  <2>2. g.labels = fr.labels /\ "pc" \in DOMAIN g
    BY <1>7, <2>1 DEF Moved
  <2> QED BY <1>1, <1>6, <2>1, <2>2, BranchLands
<1>9. PICK o : o = EnterTable(fr, exn, d, i, fu, bx)
  OBVIOUS
<1>10. \/ \E e \in {"StackUnderflow", "ExnStoreExhausted"} : o = Fails(e, fr, fu, bx)
       \/ \E v, b : o = Branch([fr EXCEPT !.vals = v], n, fu, b)
  BY <1>1, <1>2, <1>3, <1>4, <1>9 DEF EnterTable
<1> QED BY <1>5, <1>8, <1>9, <1>10, FailureLands

LEMMA HandlerLands ==
  ASSUME NEW fr \in Frames, NEW exn, NEW d, NEW i, NEW fu, NEW bx,
         NEW at, at = [kind |-> "legacy", depth |-> d, clause |-> i]
  PROVE  Lands(EnterHandler(fr, exn, d, i, fu, bx), LandsAt(fr, at))
<1>1. PICK k : k = Len(fr.labels) - d
  OBVIOUS
<1>2. PICK l : l = fr.labels[k]
  OBVIOUS
<1>3. PICK h : h = CF(fr).handlers[l.legacy][i]
  OBVIOUS
<1>4. LandsAt(fr, at) = h.pc
  BY <1>1, <1>2, <1>3 DEF LandsAt
<1>5. fr = Moved(fr, fr.pc, fr.labels, fr.vals)
  BY FrameIs
<1>6. PICK v : v = Keep(fr.vals, l.base) \o (IF h.tag = NoTag THEN <<>> ELSE exn.values)
  OBVIOUS
<1>7. PICK ls : ls = Append(Keep(fr.labels, k - 1), [l EXCEPT !.caught = exn])
  OBVIOUS
<1>8. PICK g : g = [fr EXCEPT !.vals = v, !.labels = ls, !.pc = h.pc]
  OBVIOUS
<1>9. g.pc = h.pc
  BY <1>5, <1>8 DEF Moved
<1>10. EnterHandler(fr, exn, d, i, fu, bx) = IF l.base > Len(fr.vals) THEN Fails("StackUnderflow", fr, fu, bx) ELSE Fine(g, fu, bx)
  BY <1>1, <1>2, <1>3, <1>6, <1>7, <1>8 DEF EnterHandler
<1>11. Lands(Fine(g, fu, bx), h.pc)
  BY <1>9 DEF Lands, Fine, Ok
<1>12. Lands(Fails("StackUnderflow", fr, fu, bx), h.pc)
  BY FailureLands
<1> QED BY <1>4, <1>10, <1>11, <1>12

LEMMA ThrowLands ==
  ASSUME NEW ts, NEW fr, NEW ir, NEW t, Throwing(ts, fr, ir, t), t = TextOf(fr), NEW exn, NEW fu, NEW bx
  PROVE  Lands(ThrowException(fr, exn, fu, bx), Landing(fr, exn))
<1>1. PICK n : n = Len(fr.labels)
  OBVIOUS
<1>2. fr \in Frames /\ CodeIsValid(code, ts) /\ FrameFits(code, ts, fr) /\ fr.pc \in 1..Len(BodyOf(code, fr))
  BY DEF Throwing
<1>3. n \in Nat /\ SkipsOut(fr)
  BY <1>1, <1>2, FrameIs, DelegatesSkipOut
<1>4. PICK at : at = Search(fr, exn)
  OBVIOUS
<1>5. FoundBy(fr, exn, n, at)
  BY <1>1, <1>3, <1>4, SearchFinds
<1>6. Landing(fr, exn) = LandsAt(fr, at)
  BY <1>4, SearchIsLexical
<1>7. PICK o : o = ThrowException(fr, exn, fu, bx)
  OBVIOUS
<1>8. CASE at = Nowhere
  <2>1. o = Fails("UncaughtException", fr, fu, bx)
    BY <1>4, <1>7, <1>8 DEF ThrowException, Nowhere
  <2>2. LandsAt(fr, at) = 0
    BY <1>8 DEF LandsAt, Nowhere
  <2> QED BY <1>6, <1>7, <2>1, <2>2 DEF Lands, Fails, Ok
<1>9. ASSUME NEW d, NEW i, at = [kind |-> "table", depth |-> d, clause |-> i]
      PROVE  Lands(o, LandsAt(fr, at))
  <2>1. o = EnterTable(fr, exn, d, i, fu, bx)
    BY <1>4, <1>7, <1>9 DEF ThrowException
  <2> QED BY <1>2, <1>9, <2>1, TableLands
<1>10. ASSUME NEW d, NEW i, at = [kind |-> "legacy", depth |-> d, clause |-> i]
       PROVE  Lands(o, LandsAt(fr, at))
  <2>1. o = EnterHandler(fr, exn, d, i, fu, bx)
    BY <1>4, <1>7, <1>10 DEF ThrowException
  <2> QED BY <1>2, <1>10, <2>1, HandlerLands
<1>11. Lands(o, LandsAt(fr, at))
  BY <1>5, <1>6, <1>7, <1>8, <1>9, <1>10 DEF FoundBy
<1> QED BY <1>6, <1>7, <1>11

\* Landing does not look at the operands.
SamePlace(fr, g) == fr.pc = g.pc /\ fr.inst = g.inst /\ fr.func = g.func

LEMMA LandingOfPopped ==
  ASSUME NEW fr, NEW g, SamePlace(fr, g), NEW exn
  PROVE  Landing(g, exn) = Landing(fr, exn)
<1>1. Tags(g) = Tags(fr) /\ g.pc = fr.pc /\ TextOf(g) = TextOf(fr) /\ AroundAt(g) = AroundAt(fr)
  BY DEF SamePlace, Tags, TextOf, AroundAt
<1> QED BY <1>1, LandingNeeds

LEMMA ThrowingHere ==
  ASSUME Inv, NEW g \in Frames, FrameFits(code, Texts[prog], g), g.pc \in 1..Len(BodyOf(code, g)),
         BodyOf(code, g)[g.pc].op \notin Closers, NEW exn
  PROVE  Lands(ThrowException(g, exn, fuel, boxes), Landing(g, exn))
<1>1. PICK ir : ir = BodyOf(code, g)
  OBVIOUS
<1>2. PICK t : t = TextFor(Texts[prog], g)
  OBVIOUS
<1>3. Throwing(Texts[prog], g, ir, t)
  BY <1>1, <1>2, CodeHolds DEF Throwing
<1>4. t = TextOf(g)
  BY <1>2 DEF TextFor, TextOf
<1> QED BY <1>3, <1>4, ThrowLands

\* What LandingIsLexical says of one exception.
LandsLexically(exn) ==
  err' \in {Ok, "UncaughtException"} =>
    IF mode' = "run" THEN frames'[Len(frames')].pc = Landing(Top, exn) ELSE Landing(Top, exn) = 0

LEMMA RaiseLands ==
  ASSUME Inv, mode = "run", frames # <<>>,
         NEW g \in Frames, FrameFits(code, Texts[prog], g), SamePlace(Top, g), g.pc \in 1..Len(BodyOf(code, g)),
         BodyOf(code, g)[g.pc].op \notin Closers, NEW exn, Raise(g, exn)
  PROVE  LandsLexically(exn)
<1>1. PICK o : o = ThrowException(g, exn, fuel, boxes)
  OBVIOUS
<1>2. Lands(o, Landing(Top, exn))
  BY <1>1, ThrowingHere, LandingOfPopped
<1>3. CASE o.err = Ok
  <2>1. frames' = WithTop(o.frame) /\ mode' = "run"
    BY <1>1, <1>3 DEF Raise
  <2>2. frames'[Len(frames')] = o.frame
    <3>1. frames \in Seq(Frames) /\ Len(frames) \in Nat \ {0}
      BY TopHolds
    <3>2. Len(WithTop(o.frame)) = Len(frames) /\ WithTop(o.frame)[Len(frames)] = o.frame
      BY <3>1 DEF WithTop
    <3> QED BY <2>1, <3>2
  <2> QED BY <1>2, <1>3, <2>1, <2>2 DEF Lands, LandsLexically
<1>4. CASE o.err # Ok
  <2>1. err' = o.err /\ mode' = "unwind"
    BY <1>1, <1>4 DEF Raise
  <2> QED BY <1>2, <1>4, <2>1 DEF Lands, LandsLexically
<1> QED BY <1>3, <1>4

LEMMA UnwindLands ==
  ASSUME Inv, Unwind, err = "UncaughtException", pending # NoExn
  PROVE  LandsLexically(pending)
<1>1. mode = "unwind" /\ frames # <<>>
  BY DEF Unwind
<1>2. /\ frames \in Seq(Frames) /\ Len(frames) \in Nat \ {0}
      /\ Top \in Frames /\ FrameFits(code, Texts[prog], Top)
  BY <1>1, TopHolds
<1>3. AtCall(code, Top)
  <2>1. StackFits(code, Texts[prog], frames, mode)
    BY DEF Inv, Control
  <2> QED BY <1>1, <1>2, <2>1 DEF StackFits, Top
<1>4. PICK o : o = ThrowException(Top, pending, fuel, boxes)
  OBVIOUS
<1>5. Lands(o, Landing(Top, pending))
  <2>1. Top.pc \in 1..Len(BodyOf(code, Top)) /\ BodyOf(code, Top)[Top.pc].op \notin Closers
    BY <1>3 DEF AtCall, Closers
  <2> QED BY <1>2, <1>4, <2>1, ThrowingHere
<1>6. CASE o.err = Ok
  <2>1. CaughtHere(o)
    BY <1>4, <1>6 DEF Unwind, Ok
  <2>2. frames' = WithTop(o.frame) /\ mode' = "run"
    BY <2>1 DEF CaughtHere
  <2>3. Len(WithTop(o.frame)) = Len(frames) /\ WithTop(o.frame)[Len(frames)] = o.frame
    BY <1>2 DEF WithTop
  <2>4. frames'[Len(frames')] = o.frame
    BY <2>2, <2>3
  <2> QED BY <1>5, <1>6, <2>2, <2>4 DEF Lands, LandsLexically
<1>7. CASE o.err = "UncaughtException"
  <2>1. Fail(err)
    BY <1>4, <1>7 DEF Unwind, Ok
  <2>2. mode' = "unwind"
    BY <2>1 DEF Fail
  <2> QED BY <1>5, <1>7, <2>2 DEF Lands, LandsLexically
<1>8. CASE o.err # Ok /\ o.err # "UncaughtException"
  <2>1. err' = o.err
    BY <1>4, <1>8 DEF Unwind
  <2> QED BY <1>8, <2>1 DEF LandsLexically
<1> QED BY <1>6, <1>7, <1>8

\* A step that looks for a handler is that of a throw, or of a frame being left.
LEMMA OnlyThrows ==
  ASSUME Next, mode = "run", ~AtEnd, Instr.op \in {"throw", "throw_ref", "rethrow"}
  PROVE  Throw \/ ThrowRef \/ Rethrow
<1>1. ~Host /\ ~Calls /\ ~Unwind /\ ~Finish
  BY DEF Host, Invoke, Calls, CallTooDeep, CallImport, CallHost, CallWasm, Entering, Return, Unwind, Finish
<1>2. Instructions
  BY <1>1 DEF Next, Engine
<1>3. ~Const /\ ~Numeric /\ ~Drop /\ ~LocalGet /\ ~GlobalGet /\ ~GlobalSet
  BY DEF Const, Numeric, Drop, LocalGet, GlobalGet, GlobalSet, Running
<1>4. ~Block /\ ~If /\ ~SkipToEnd /\ ~End /\ ~Br /\ ~BrIf
  BY DEF Block, If, SkipToEnd, End, Br, BrIf, Running
<1>5. ~ReturnInstr /\ ~Unreachable /\ ~Call /\ ~ReturnCall
  BY DEF ReturnInstr, Unreachable, Call, ReturnCall, Running
<1> QED BY <1>2, <1>3, <1>4, <1>5 DEF Instructions

LEMMA OnlyUnwinds ==
  ASSUME Next, mode = "unwind", frames # <<>>
  PROVE  Unwind
<1>1. ~Host /\ ~Calls /\ ~Finish
  BY DEF Host, Invoke, Calls, CallTooDeep, CallImport, CallHost, CallWasm, Entering, Return, Finish
<1>2. ~Instructions
  BY DEF Instructions, Const, Numeric, Drop, LocalGet, GlobalGet, GlobalSet, Block, If, SkipToEnd, End, Br, BrIf,
         ReturnInstr, Unreachable, Call, ReturnCall, Throw, ThrowRef, Rethrow, Running
<1> QED BY <1>1, <1>2 DEF Next, Engine

LEMMA RaiseMovedLands ==
  ASSUME Inv, mode = "run", frames # <<>>, Top.pc \in 1..Len(BodyOf(code, Top)),
         BodyOf(code, Top)[Top.pc].op \notin Closers,
         NEW v \in Seq(Value), NEW g, g = Moved(Top, Top.pc, Top.labels, v), NEW exn, Raise(g, exn)
  PROVE  LandsLexically(exn)
<1>1. Top \in Frames /\ FrameFits(code, Texts[prog], Top) /\ Top.labels \in Seq(Labels)
  BY TopHolds
<1>2. LabelsFit(BodyOf(code, Top), TextFor(Texts[prog], Top), Top.pc, Top.labels)
      /\ Top.pc \in 1..(Len(BodyOf(code, Top)) + 1)
  BY <1>1 DEF FrameFits, TextFor
<1>3. Follows(code, Texts[prog], Top, g)
  BY <1>1, <1>2, MovedFits
<1>4. g \in Frames /\ FrameFits(code, Texts[prog], g)
  BY <1>3 DEF Follows
<1>5. SamePlace(Top, g) /\ BodyOf(code, g) = BodyOf(code, Top) /\ g.pc = Top.pc
  BY DEF SamePlace, Moved, BodyOf, FuncOf
<1> QED BY <1>4, <1>5, RaiseLands

LEMMA InstrThrows ==
  ASSUME Inv, Next, mode = "run", ~AtEnd, Instr.op \in {"throw", "throw_ref", "rethrow"}, Thrown # NoExn
  PROVE  LandsLexically(Thrown)
<1>1. Running({"throw", "throw_ref", "rethrow"})
  BY DEF Running
<1>2. /\ frames # <<>> /\ Top.pc \in 1..Len(BodyOf(code, Top)) /\ Instr = BodyOf(code, Top)[Top.pc]
      /\ ValidInstr(code.insts[Top.inst], Instr)
  BY <1>1, InstrHolds
<1>3. BodyOf(code, Top)[Top.pc].op \notin Closers
  BY <1>2 DEF Closers
<1>4. /\ Top \in Frames /\ FrameFits(code, Texts[prog], Top) /\ Top.vals \in Seq(Value) /\ Len(Top.vals) \in Nat
      /\ Top = Moved(Top, Top.pc, Top.labels, Top.vals) /\ TopVal \in Value
  BY <1>2, TopHolds
<1>5. Throw \/ ThrowRef \/ Rethrow
  BY OnlyThrows
<1>6. ASSUME NEW e, e \notin {Ok, "UncaughtException"}, Fail(e) PROVE LandsLexically(Thrown)
  BY <1>6 DEF Fail, LandsLexically
<1>7. CASE Throw
  <2>1. Running({"throw"}) /\ Instr.op = "throw"
    BY <1>7 DEF Throw, Running
  <2>2. PICK slot : slot = Tags(Top)[Instr.tag]
    OBVIOUS
  <2>3. PICK n : n = code.arity[slot]
    OBVIOUS
  <2>4. Thrown = [tag |-> slot, values |-> LastN(Top.vals, n)]
    BY <2>1, <2>2, <2>3 DEF Thrown, Running
  <2>5. n \in Nat
    <3>1. IsFunc(code, Top.inst, Top.func)
      BY <1>4, CodeHolds, FrameBody
    <3>2. Instr.tag \in 1..Len(code.insts[Top.inst].tags)
      BY <1>2, <2>1 DEF ValidInstr
    <3> QED BY <2>2, <2>3, <3>1, <3>2, CodeHolds DEF Tags, IsFunc, CodeIsValid
  <2>6. CASE Len(Top.vals) < n
    <3>1. Fail("StackUnderflow")
      BY <1>7, <2>2, <2>3, <2>6 DEF Throw
    <3> QED BY <1>6, <3>1 DEF Ok
  <2>7. CASE ~(Len(Top.vals) < n)
    <3>1. PICK v : v = Keep(Top.vals, Len(Top.vals) - n)
      OBVIOUS
    <3>2. PICK g : g = Pop(Top, n)
      OBVIOUS
    <3>3. g = Moved(Top, Top.pc, Top.labels, v) /\ v \in Seq(Value)
      BY <1>4, <2>5, <3>1, <3>2, PopIs
    <3>4. Raise(g, Thrown)
      BY <1>7, <2>2, <2>3, <2>4, <2>7, <3>2 DEF Throw
    <3> QED BY <1>2, <1>3, <3>3, <3>4, RaiseMovedLands
  <2> QED BY <2>6, <2>7
<1>8. CASE ThrowRef
  <2>1. Running({"throw_ref"}) /\ Instr.op = "throw_ref"
    BY <1>8 DEF ThrowRef, Running
  <2>2. CASE TopVal = NullRef \/ TopVal >= Len(boxes)
    <3>1. Fail("NullReference")
      BY <1>8, <2>2 DEF ThrowRef
    <3> QED BY <1>6, <3>1 DEF Ok
  <2>3. CASE ~(TopVal = NullRef \/ TopVal >= Len(boxes))
    <3>1. boxes \in Seq(Exns)
      BY DEF Inv, PoolsFit
    <3>2. TopVal \in 0..(Len(boxes) - 1)
      BY <1>4, <2>3, <3>1 DEF Value, NullRef
    <3>3. Thrown = boxes[TopVal + 1]
      BY <2>1, <3>2 DEF Thrown, Running
    <3>4. PICK v : v = Keep(Top.vals, Len(Top.vals) - 1)
      OBVIOUS
    <3>5. PICK g : g = Pop(Top, 1)
      OBVIOUS
    <3>6. g = Moved(Top, Top.pc, Top.labels, v) /\ v \in Seq(Value)
      BY <1>4, <3>4, <3>5, PopIs
    <3>7. Raise(g, Thrown)
      BY <1>8, <2>3, <3>3, <3>5 DEF ThrowRef
    <3> QED BY <1>2, <1>3, <3>6, <3>7, RaiseMovedLands
  <2> QED BY <2>2, <2>3
<1>9. CASE Rethrow
  <2>1. Running({"rethrow"}) /\ Instr.op = "rethrow"
    BY <1>9 DEF Rethrow, Running
  <2>2. PICK k : k = Len(Top.labels) - Instr.label
    OBVIOUS
  <2>3. Thrown = Top.labels[k].caught
    BY <2>1, <2>2 DEF Thrown, Running
  <2>4. CASE k < 1
    <3>1. Fail("UndefinedLabel")
      BY <1>9, <2>2, <2>4 DEF Rethrow
    <3> QED BY <1>6, <3>1 DEF Ok
  <2>5. CASE ~(k < 1)
    <3>1. PICK g : g = Top
      OBVIOUS
    <3>2. Raise(g, Thrown)
      BY <1>9, <2>2, <2>3, <2>5, <3>1 DEF Rethrow
    <3>3. PICK v : v = Top.vals
      OBVIOUS
    <3>4. g = Moved(Top, Top.pc, Top.labels, v) /\ v \in Seq(Value)
      BY <1>4, <3>1, <3>3
    <3> QED BY <1>2, <1>3, <3>2, <3>4, RaiseMovedLands
  <2> QED BY <2>4, <2>5
<1> QED BY <1>5, <1>7, <1>8, <1>9

\* An exception, thrown here or unwinding out of a call made here, goes to the
\* handler the text of the body gives it, past the delegates and the handlers
\* already running, and leaves the frame only if there is none (throw_exception,
\* raise, on_call_error).
THEOREM ExceptionsLandLexically == Spec => ExceptionsLandWhereTheTextSays
<1>1. ASSUME Inv, [Next]_vars PROVE [LandingIsLexical]_vars
  <2>1. CASE UNCHANGED vars
    BY <2>1
  <2>2. CASE Next
    <3>1. SUFFICES ASSUME Thrown # NoExn, frames # <<>> PROVE LandsLexically(Thrown)
      BY DEF LandingIsLexical, LandsLexically
    <3>2. CASE mode = "unwind"
      <4>1. err = "UncaughtException" /\ Thrown = pending
        BY <3>1, <3>2 DEF Thrown, Running
      <4> QED BY <1>1, <2>2, <3>1, <3>2, <4>1, OnlyUnwinds, UnwindLands
    <3>3. CASE mode # "unwind"
      <4>1. mode = "run" /\ ~AtEnd /\ Instr.op \in {"throw", "throw_ref", "rethrow"}
        BY <3>1, <3>3 DEF Thrown, Running
      <4> QED BY <1>1, <2>2, <3>1, <4>1, InstrThrows
    <3> QED BY <3>2, <3>3
  <2> QED BY <1>1, <2>1, <2>2
<1> QED BY <1>1, InvAlways, PTL DEF Spec, ExceptionsLandWhereTheTextSays
=============================================================================
