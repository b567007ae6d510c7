------------------------------- MODULE MCExec -------------------------------
(***************************************************************************)
(* Programs for Exec.  Every body is built from statements that leave the  *)
(* operand stack as they found it, nested in constructs two deep, so all   *)
(* of them validate.  There is an operand below the outermost construct,   *)
(* and one that a throw leaves behind.                                     *)
(***************************************************************************)
EXTENDS Exec

Do(op) == [op |-> op]
Number(v) == [op |-> "const", value |-> v]
Const0 == Number(0)
Opener(op, params, results) == [op |-> op, params |-> params, results |-> results]
Tag(op, t) == [op |-> op, tag |-> t]
To(op, l) == [op |-> op, label |-> l]
CallTo(op, f) == [op |-> op, func |-> f]
Clause(t, l, ref) == [tag |-> t, label |-> l, ref |-> ref]
TryTable(clauses) == [op |-> "try_table", params |-> 0, results |-> 0, catches |-> clauses]

Wasm(n, m, body) == [kind |-> "wasm", params |-> n, results |-> m, ir |-> Append(body, Do("end"))]
Import(i, f) == [kind |-> "import", inst |-> i, func |-> f, params |-> 0, results |-> 0, ir |-> <<>>]
HostFunc == [kind |-> "host", params |-> 0, results |-> 0, ir |-> <<>>]

\* Tag 1 carries a value and tag 2 none; the second instance numbers them the
\* other way round.
ThrowA == <<Const0, Number(1), Tag("throw", 1)>>
ThrowB == <<Tag("throw", 2)>>
Maybe(body) == <<Do("any"), Opener("if", 0, 0)>> \o body \o <<Do("end")>>

\* Functions 2 to 6 of the first instance, called by the statements below.
Callees ==
  << Wasm(0, 0, ThrowA),
     Import(2, 1),
     HostFunc,
     Wasm(0, 0, Maybe(<<CallTo("call", 5)>>) \o <<Do("unreachable")>>),
     Wasm(0, 0, <<CallTo("return_call", 6)>>) >>
Exporter == [funcs |-> <<Wasm(0, 0, <<Tag("throw", 1)>>)>>, tags |-> <<2, 1>>]

\* The families of statements below are sequences, so that a program is its
\* position in Programs.
Each(family, F(_)) == [k \in 1..Len(family) |-> F(family[k])]
EachOf(family, F(_)) == FlattenSeq(Each(family, F))

\* What can happen inside the constructs.  The operand under br 1 is the result
\* of the block it may leave.
Simple ==
  << ThrowA, ThrowB, <<CallTo("call", 3)>>, <<CallTo("call", 2)>>,
     <<Do("any"), To("br_if", 0)>>, <<Const0, To("br", 1)>>, <<Do("return")>> >>
Calling == << <<CallTo("call", 4)>>, <<CallTo("call", 5)>>, <<CallTo("call", 6)>>, <<CallTo("return_call", 3)>> >>

\* Bodies of a handler, whose try is label 0.
Handling ==
  << <<>>, <<To("rethrow", 0)>>, ThrowB,
     <<Opener("try", 0, 0)>> \o ThrowB \o <<Do("catch_all"), To("rethrow", 1), Do("end")>>,
     <<Opener("try", 0, 0), To("rethrow", 1), Do("catch_all"), Do("end")>> >>

Try(b) == <<Opener("try", 0, 0)>> \o b
Boxed(b, use) == <<Opener("block", 0, 1), TryTable(<<Clause(NoTag, 0, TRUE)>>)>> \o b
                 \o <<Do("end"), Do("ref.null"), Do("end"), use>>

Wrapped(b) ==
  Each(Handling, LAMBDA h : Try(b) \o <<Tag("catch", 1), Do("drop")>> \o h \o <<Do("end")>>)
  \o Each(Handling, LAMBDA h : Try(b) \o <<Do("catch_all")>> \o h \o <<Do("end")>>)
  \o << Try(b) \o <<Tag("catch", 2), Tag("catch", 1), Do("drop"), Do("catch_all"), Do("end")>>,
        Try(b) \o <<To("delegate", 0)>>,
        <<Opener("loop", 0, 0)>> \o b \o <<Do("end")>>,
        <<Do("any"), Opener("if", 0, 0)>> \o b \o <<Do("else")>> \o ThrowB \o <<Do("end")>>,
        <<Opener("block", 0, 1), TryTable(<<Clause(2, 1, FALSE), Clause(1, 0, FALSE)>>)>> \o b
          \o <<Do("end"), Const0, Do("end"), Do("drop")>>,
        <<Opener("block", 0, 2), Opener("block", 0, 0), TryTable(<<Clause(1, 1, TRUE)>>)>> \o b
          \o <<Do("end"), Do("end"), Const0, Do("ref.null"), Do("end"), Do("throw_ref")>>,
        Boxed(b, Do("throw_ref")), Boxed(b, Do("global.set")) >>

\* A delegate that passes the construct around it.
Skipping(b) == <<Try(b) \o <<To("delegate", 1)>> >>

Program(body) ==
  [insts |-> << [funcs |-> <<Wasm(0, 0, <<Number(1)>> \o body \o <<Do("drop")>>)>> \o Callees, tags |-> <<1, 2>>], Exporter >>,
   arity |-> <<1, 0>>, exports |-> {1}]

Nested == EachOf(Simple, LAMBDA b : EachOf(Wrapped(b) \o Skipping(b), Wrapped))
Bodies == Nested \o EachOf(Calling, Wrapped)
MCPrograms == Each(Bodies, Program)

\* Two exports of one module: the first keeps what it caught, the second throws
\* it again.  Without imports, and one that tail-calls itself.
TwoExports ==
  << [insts |-> << [funcs |-> << Wasm(0, 0, Boxed(ThrowB, Do("global.set"))),
                                 Wasm(0, 0, <<Do("global.get"), Do("throw_ref")>>) >>,
                    tags |-> <<1, 2>>] >>,
      arity |-> <<1, 0>>, exports |-> {1, 2}] >>

TailCaller ==
  << [insts |-> << [funcs |-> << Wasm(1, 1, <<Do("any"), Opener("if", 0, 0), [op |-> "local.get", local |-> 1],
                                              CallTo("return_call", 1), Do("end"), [op |-> "local.get", local |-> 1]>>) >>,
                    tags |-> <<>>] >>,
      arity |-> <<>>, exports |-> {1}] >>



\* Ways to go round: back-edges, also out of a handler, recursion, tail calls;
\* and two boxes in a row.
Looped(b) == <<Opener("loop", 0, 0)>> \o b \o <<Do("end")>>
Repeating ==
  << Looped(<<To("br", 0)>>),
     Looped(<<TryTable(<<Clause(NoTag, 0, FALSE)>>)>> \o ThrowB \o <<Do("end")>>),
     Looped(Try(ThrowA) \o <<Do("catch_all"), To("br", 1), Do("end")>>),
     Looped(Try(<<CallTo("call", 2)>>) \o <<Do("catch_all"), Do("end"), Do("any"), To("br_if", 0)>>),
     Boxed(ThrowB, Do("drop")) \o Boxed(<<CallTo("call", 2)>>, Do("drop")),
     <<CallTo("call", 5)>>, <<CallTo("call", 6)>>, <<CallTo("return_call", 6)>> >>
AllPrograms == MCPrograms \o Each(Repeating \o EachOf(Repeating, Wrapped), Program) \o TwoExports \o TailCaller
=============================================================================
