---------------------------- MODULE ControlFlow ----------------------------
(***************************************************************************)
(* precompute_control_flow of crates/wasmrt-core/src/interp.rs: one pass   *)
(* over a decoded body that pairs every opener with its end, its else and, *)
(* for a legacy try, its handlers or its delegate.                         *)
(*                                                                         *)
(* An instruction is a record with an op and the immediates its op needs.  *)
(* Positions count from 1, so a body ends before Len(ir) + 1.              *)
(***************************************************************************)
EXTENDS Integers, Sequences, SequencesExt, FiniteSets, FiniteSetsExt

Openers == {"block", "loop", "if", "try_table", "try"}
Catches == {"catch", "catch_all"}
NoElse == 0
NoTag == -1                    \* a catch_all handler
NoDelegate == -1

\* What the pass holds: a stack of openers with the handlers collected so far
\* and the positions of their catches, and the tables it fills in.
Start0(n) == [open |-> <<>>, endOf |-> [i \in 1..n |-> 0], elseOf |-> [i \in 1..n |-> NoElse],
              handlers |-> [i \in 1..n |-> <<>>], delegate |-> [i \in 1..n |-> NoDelegate]]

Opened(s, i) == [s EXCEPT !.open = Append(@, [at |-> i, handlers |-> <<>>, catches |-> {}])]

Else(s, i) == [s EXCEPT !.elseOf[Last(s.open).at] = i]

Caught(s, i, instr) ==
  LET o == Last(s.open)
      h == [tag |-> IF instr.op = "catch" THEN instr.tag ELSE NoTag, pc |-> i + 1]
  IN  [s EXCEPT !.open[Len(s.open)] =
         [at |-> o.at, handlers |-> Append(o.handlers, h), catches |-> o.catches \cup {i}]]

Delegated(s, i, instr) ==
  [s EXCEPT !.open = Front(@), !.endOf[Last(s.open).at] = i,
            !.delegate[Last(s.open).at] = instr.label]

\* Mutant of Ended: the catches of a try are not led to its end.
EndedBeforeCatches(s, i, ir) ==
  IF s.open = <<>> THEN s
  ELSE LET o == Last(s.open)
       IN  [s EXCEPT !.open = Front(@), !.endOf[o.at] = i,
                     !.handlers[o.at] = IF ir[o.at].op = "try" THEN o.handlers ELSE <<>>]

\* The end closes the opener, its else, and the catches of a legacy try; the
\* function's own end has no opener.
Ended(s, i, ir) ==
  IF s.open = <<>> THEN s
  ELSE LET o == Last(s.open)
           closes == {o.at} \cup (IF s.elseOf[o.at] # NoElse THEN {s.elseOf[o.at]} ELSE {})
                     \cup (IF ir[o.at].op = "try" THEN o.catches ELSE {})
       IN  [s EXCEPT !.open = Front(@),
                     !.endOf = [p \in DOMAIN @ |-> IF p \in closes THEN i ELSE @[p]],
                     !.handlers[o.at] = IF ir[o.at].op = "try" THEN o.handlers ELSE <<>>]

Scan(s, i, ir) ==
  LET instr == ir[i]
  IN  CASE instr.op \in Openers     -> Opened(s, i)
        [] instr.op = "else"        -> Else(s, i)
        [] instr.op \in Catches     -> Caught(s, i, instr)
        [] instr.op = "delegate"    -> Delegated(s, i, instr)
        [] instr.op = "end"         -> Ended(s, i, ir)
        [] OTHER                    -> s

\* What the pass holds after each position.
Pass(ir) ==
  LET After[i \in 0..Len(ir)] == IF i = 0 THEN Start0(Len(ir)) ELSE Scan(After[i - 1], i, ir)
  IN  After

Precompute(ir) == Pass(ir)[Len(ir)]

-----------------------------------------------------------------------------
(* Reference: what the tables mean, by counting brackets.                  *)

Closers == {"end", "delegate"}

\* How deep the text is nested after each position.
Heights(ir) ==
  [j \in 0..Len(ir) |-> Cardinality({k \in 1..j : ir[k].op \in Openers})
                        - Cardinality({k \in 1..j : ir[k].op \in Closers})]

\* The closer of an opener: the first position that brings the nesting back to
\* where it was before it; 0 at the other positions.
ClosersOf(ir) ==
  LET h == Heights(ir)
  IN  [i \in 1..Len(ir) |-> IF ir[i].op \in Openers
                            THEN Min({j \in (i + 1)..Len(ir) : h[j] < h[i]}) ELSE 0]

\* The openers around each position, the outermost first: the n-th is the one
\* that opened the n-th level of nesting and is still open.
AroundOf(ir, closer) ==
  LET h == Heights(ir)
  IN  [p \in 1..Len(ir) |->
         [n \in 1..h[p - 1] |-> CHOOSE i \in 1..(p - 1) : closer[i] >= p /\ h[i] = n]]

\* Text: a body's structure, for the definitions that compare the interpreter
\* with the text it runs.
Text(ir) == LET closer == ClosersOf(ir)
            IN  [ir |-> ir, closer |-> closer, around |-> AroundOf(ir, closer)]

\* Directly inside the construct opened at i, in no construct nested in it.
Inside(t, i) == {k \in (i + 1)..(t.closer[i] - 1) : \A j \in (i + 1)..(k - 1) : t.closer[j] < k}

ElsesOf(t, i) == {k \in Inside(t, i) : t.ir[k].op = "else"}
CatchesOf(t, i) == {k \in Inside(t, i) : t.ir[k].op \in Catches}

\* What the control stack of the validator makes sure of: the brackets match and
\* the last one closes the body, an if has at most one else, handlers are inside
\* a legacy try, and a delegate closes one that has none.
WellBracketed(t) ==
  LET h == Heights(t.ir)
  IN  /\ \A j \in 0..(Len(t.ir) - 1) : h[j] >= 0
      /\ h[Len(t.ir)] = -1
      /\ \A k \in 1..Len(t.ir) :
           /\ t.ir[k].op = "else" =>
                \E i \in 1..(k - 1) : t.ir[i].op = "if" /\ ElsesOf(t, i) = {k}
           /\ t.ir[k].op \in Catches =>
                \E i \in 1..(k - 1) : t.ir[i].op = "try" /\ k \in CatchesOf(t, i)
           /\ t.ir[k].op = "delegate" =>
                \E i \in 1..(k - 1) : /\ t.ir[i].op = "try" /\ t.closer[i] = k
                                      /\ CatchesOf(t, i) = {}

TablesAreRight(cf, t) ==
  \A i \in {k \in 1..Len(t.ir) : t.ir[k].op \in Openers} :
    LET j == t.closer[i]
        hs == cf.handlers[i]
    IN  /\ \A k \in {i} \cup ElsesOf(t, i) \cup CatchesOf(t, i) : cf.endOf[k] = j
        /\ IF ElsesOf(t, i) = {} THEN cf.elseOf[i] = NoElse ELSE cf.elseOf[i] \in ElsesOf(t, i)
        /\ {hs[k].pc - 1 : k \in DOMAIN hs} = CatchesOf(t, i)
        /\ \A a, b \in DOMAIN hs : a < b => hs[a].pc < hs[b].pc
        /\ cf.delegate[i] = IF t.ir[j].op = "delegate" THEN t.ir[j].label ELSE NoDelegate
=============================================================================
