-------------------------------- MODULE Exec --------------------------------
(***************************************************************************)
(* The interpreter of crates/wasmrt-core/src/interp.rs: invoke_index,      *)
(* call_function, run, Frame::branch, and how an exception or a trap       *)
(* leaves a frame (throw_exception, raise, on_call_error).                 *)
(*                                                                         *)
(* The code recurses: one call_function activation for each active call.   *)
(* Here the recursion is the sequence of frames, and what the recursion    *)
(* is doing is the mode:                                                   *)
(*                                                                         *)
(*    idle    no invocation: the host may invoke an export                 *)
(*    call    call_function was entered, and has not chosen a callee yet   *)
(*    run     the innermost frame executes the instruction at its pc       *)
(*    unwind  an Err is on its way out of the innermost frame's call       *)
(*                                                                         *)
(* Numeric instructions are left out: any instruction that computes a      *)
(* number is "any", whose result is either of two.  Positions count from   *)
(* 1; values, labels and indices into exn_store count from 0 as in the     *)
(* code.  A call remembers in hops how many imports it went through: it is *)
(* a history, and no step depends on it.                                   *)
(***************************************************************************)
EXTENDS ControlFlow

CONSTANTS
  Programs,        \* a sequence of linked programs; one is chosen initially
  MaxCallDepth,    \* ResourceLimits.max_call_depth
  MaxIterations,   \* ResourceLimits.max_iterations; 0 disables the budget
  MaxExnBoxes      \* ResourceLimits.max_exn_boxes

VARIABLES
  prog,            \* the index in Programs of the program that is loaded
  code,            \* its instances, as instantiation left them
  mode,            \* "idle", "call", "run" or "unwind"
  call,            \* the arguments of the call_function being entered
  frames,          \* the active frames, innermost last
  fuel,            \* Pools.fuel
  pending,         \* Pools.pending_exn
  boxes,           \* Pools.exn_store
  backtrace,       \* Pools.backtrace
  err,             \* the Err on its way out, or the last outcome
  saved            \* a mutable global of type exnref

loaded == <<prog, code>>
machine == <<call, frames>>
pools == <<fuel, pending, boxes, backtrace, saved>>
vars == <<prog, code, mode, call, frames, fuel, pending, boxes, backtrace, err, saved>>

-----------------------------------------------------------------------------
(* Programs.  A function is an import of another instance's, a function of *)
(* the host, or a body; the tags of an instance are slots of the store.    *)

NoTry == 0

\* The text of every body.
Texts ==
  LET ps == Programs
  IN  [p \in 1..Len(ps) |-> [i \in 1..Len(ps[p].insts) |->
         [f \in 1..Len(ps[p].insts[i].funcs) |-> Text(ps[p].insts[i].funcs[f].ir)]]]

\* What the immediates of an instruction refer to is there: functions of the
\* instance, its tags, and labels counted from the innermost out.
ValidInstr(inst, x) ==
  /\ x.op \in Openers => x.params \in Nat /\ x.results \in Nat
  /\ x.op = "const" => x.value \in Nat
  /\ x.op \in {"call", "return_call"} => x.func \in 1..Len(inst.funcs)
  /\ x.op \in {"throw", "catch"} => x.tag \in 1..Len(inst.tags)
  /\ x.op \in {"br", "br_if", "rethrow", "delegate"} => x.label \in Nat
  /\ x.op = "try_table" =>
       x.catches \in Seq([tag : {NoTag} \cup 1..Len(inst.tags), label : Nat, ref : BOOLEAN])

ValidFunc(p, fn, inst, text) ==
  /\ fn.kind \in {"import", "host", "wasm"} /\ fn.params \in Nat /\ fn.results \in Nat
  /\ fn.kind = "import" => /\ fn.inst \in 1..Len(p.insts)
                           /\ fn.func \in 1..Len(p.insts[fn.inst].funcs)
  /\ fn.kind = "wasm" => /\ Len(fn.ir) \in Nat /\ WellBracketed(text)
                         /\ \A k \in 1..Len(fn.ir) : ValidInstr(inst, fn.ir[k])

\* What validation and linking establish before a program runs.
ValidProgram(p, texts) ==
  /\ Len(p.insts) \in Nat \ {0} /\ \A f \in p.exports : f \in 1..Len(p.insts[1].funcs)
  /\ \A slot \in 1..Len(p.arity) : p.arity[slot] \in Nat
  /\ \A i \in 1..Len(p.insts) :
       LET inst == p.insts[i]
       IN  /\ \A t \in 1..Len(inst.tags) : inst.tags[t] \in 1..Len(p.arity)
           /\ \A f \in 1..Len(inst.funcs) : ValidFunc(p, inst.funcs[f], inst, texts[i][f])

ASSUME ProgramsAreValid == \A p \in 1..Len(Programs) : ValidProgram(Programs[p], Texts[p])
ASSUME LimitsAreNumbers == MaxCallDepth \in Nat /\ MaxIterations \in Nat /\ MaxExnBoxes \in Nat

-----------------------------------------------------------------------------

NullRef == -1
NoExn == [tag |-> 0, values |-> <<>>]
NoCall == [inst |-> 0, func |-> 0, args |-> <<>>, depth |-> 0, hops |-> 0]
Ok == "ok"

\* What instantiation keeps of a program: its instances, and the control-flow
\* tables of each body, computed once.
Loaded(p) ==
  [insts |-> p.insts, arity |-> p.arity, exports |-> p.exports,
   tables |-> [i \in 1..Len(p.insts) |->
                 [f \in 1..Len(p.insts[i].funcs) |-> Precompute(p.insts[i].funcs[f].ir)]]]

Func(i, f) == code.insts[i].funcs[f]
Top == frames[Len(frames)]
Body(fr) == Func(fr.inst, fr.func).ir
CF(fr) == code.tables[fr.inst][fr.func]
Tags(fr) == code.insts[fr.inst].tags
Instr == Body(Top)[Top.pc]
AtEnd == Top.pc > Len(Body(Top))
WithTop(fr) == [frames EXCEPT ![Len(frames)] = fr]
Keep(s, n) == SubSeq(s, 1, n)
LastN(s, n) == SubSeq(s, Len(s) - n + 1, Len(s))

-----------------------------------------------------------------------------
(* Labels and branches.                                                    *)

PlainLabel(isLoop, arity, target, base) ==
  [isLoop |-> isLoop, arity |-> arity, target |-> target, base |-> base,
   tryTable |-> NoTry, legacy |-> NoTry, caught |-> NoExn]

\* The outcome of a step that may fail: a frame to go on with, or an error.
Fine(fr, fu, bx) == [err |-> Ok, frame |-> fr, fuel |-> fu, boxes |-> bx]
Fails(e, fr, fu, bx) == [err |-> e, frame |-> fr, fuel |-> fu, boxes |-> bx]

OutOfFuel(fu) == MaxIterations # 0 /\ fu = 0
Spend(fu) == IF MaxIterations # 0 THEN fu - 1 ELSE fu

Jump(fr, l, kept) ==
  [fr EXCEPT !.vals = Keep(@, l.base) \o LastN(@, l.arity),
             !.labels = Keep(@, kept), !.pc = l.target]

\* Mutant of Branch: a loop's own label is popped by its back-edge.
BranchPopsLoop(fr, n, fu, bx) ==
  LET k == Len(fr.labels) - n
      l == fr.labels[k]
  IN  IF l.isLoop THEN Fine(Jump(fr, l, k - 1), Spend(fu), bx)
      ELSE Fine(Jump(fr, l, k - 1), fu, bx)

\* A branch to the n-th label out: its arity of operands move to its base.  A
\* back-edge keeps the loop's label and spends one iteration.
Branch(fr, n, fu, bx) ==
  LET k == Len(fr.labels) - n
      l == fr.labels[k]
  IN  IF k < 1 THEN Fails("UndefinedLabel", fr, fu, bx)
      ELSE IF Len(fr.vals) - l.arity < l.base THEN Fails("StackUnderflow", fr, fu, bx)
      ELSE IF ~l.isLoop THEN Fine(Jump(fr, l, k - 1), fu, bx)
      ELSE IF OutOfFuel(fu) THEN Fails("IterationLimitExceeded", fr, fu, bx)
      ELSE Fine(Jump(fr, l, k), Spend(fu), bx)

-----------------------------------------------------------------------------
(* Finding the handler of an exception in a frame.                         *)

Catch(fr, l, exn) ==
  SelectInSeq(Body(fr)[l.tryTable].catches,
              LAMBDA c : c.tag = NoTag \/ Tags(fr)[c.tag] = exn.tag)

Handler(fr, l, exn) ==
  SelectInSeq(CF(fr).handlers[l.legacy],
              LAMBDA h : h.tag = NoTag \/ Tags(fr)[h.tag] = exn.tag)

\* Mutant of PastItsBody: a handler can catch what it throws itself.
NeverPastItsBody(l) == FALSE

\* A legacy try that runs one of its handlers protects nothing any more.
PastItsBody(l) == l.caught # NoExn

Nowhere == [kind |-> "none", depth |-> 0, clause |-> 0]

\* The labels are searched from the innermost out; a delegate resumes the
\* search at its own label.
Search(fr, exn) ==
  LET n == Len(fr.labels)
      From[d \in 0..n] ==
        IF d = n THEN Nowhere
        ELSE LET l == fr.labels[n - d]
                 skip == CF(fr).delegate[l.legacy]
             IN  IF l.tryTable # NoTry /\ Catch(fr, l, exn) # 0
                 THEN [kind |-> "table", depth |-> d, clause |-> Catch(fr, l, exn)]
                 ELSE IF l.legacy # NoTry /\ skip # NoDelegate
                 THEN From[IF d + 1 + skip < n THEN d + 1 + skip ELSE n]
                 ELSE IF l.legacy # NoTry /\ ~PastItsBody(l) /\ Handler(fr, l, exn) # 0
                 THEN [kind |-> "legacy", depth |-> d, clause |-> Handler(fr, l, exn)]
                 ELSE From[d + 1]
  IN  From[0]

\* Mutant of TableLabel: the clause's label counts the try_table itself.
TableLabelFromInside(d, c) == d + c.label

\* The label of a clause is relative to the scope around its try_table, whose
\* own label is d deep.
TableLabel(d, c) == d + 1 + c.label

\* Mutant of BoxesFull: the limit is noticed one box late.
BoxesFullLate(bx) == Len(bx) > MaxExnBoxes

BoxesFull(bx) == Len(bx) >= MaxExnBoxes

\* Mutant of EnterTable: the box goes below the payload.
EnterTableBoxFirst(fr, exn, d, i, fu, bx) ==
  LET l == fr.labels[Len(fr.labels) - d]
      c == Body(fr)[l.tryTable].catches[i]
      payload == IF c.tag = NoTag THEN <<>> ELSE exn.values
      box == IF c.ref THEN <<Len(bx)>> ELSE <<>>
  IN  IF c.ref /\ BoxesFull(bx) THEN Fails("ExnStoreExhausted", fr, fu, bx)
      ELSE Branch([fr EXCEPT !.vals = Keep(@, l.base) \o box \o payload], TableLabel(d, c), fu,
                  IF c.ref THEN Append(bx, exn) ELSE bx)

\* A try_table branches out of itself, with the payload and, for the _ref
\* forms, a new box that holds the exception.
EnterTable(fr, exn, d, i, fu, bx) ==
  LET l == fr.labels[Len(fr.labels) - d]
      c == Body(fr)[l.tryTable].catches[i]
      payload == IF c.tag = NoTag THEN <<>> ELSE exn.values
      vals == Keep(fr.vals, l.base) \o payload
  IN  IF l.base > Len(fr.vals) THEN Fails("StackUnderflow", fr, fu, bx)
      ELSE IF ~c.ref THEN Branch([fr EXCEPT !.vals = vals], TableLabel(d, c), fu, bx)
      ELSE IF BoxesFull(bx) THEN Fails("ExnStoreExhausted", fr, fu, bx)
      ELSE Branch([fr EXCEPT !.vals = Append(vals, Len(bx))], TableLabel(d, c), fu,
                  Append(bx, exn))

\* Mutant of EnterHandler: the payload goes above whatever is on the stack.
EnterHandlerOverOperands(fr, exn, d, i, fu, bx) ==
  LET k == Len(fr.labels) - d
      l == fr.labels[k]
      h == CF(fr).handlers[l.legacy][i]
      payload == IF h.tag = NoTag THEN <<>> ELSE exn.values
  IN  Fine([fr EXCEPT !.vals = @ \o payload,
                      !.labels = Append(Keep(@, k - 1), [l EXCEPT !.caught = exn]),
                      !.pc = h.pc], fu, bx)

\* A legacy handler runs inside its try, whose label remembers the exception.
EnterHandler(fr, exn, d, i, fu, bx) ==
  LET k == Len(fr.labels) - d
      l == fr.labels[k]
      h == CF(fr).handlers[l.legacy][i]
      payload == IF h.tag = NoTag THEN <<>> ELSE exn.values
  IN  IF l.base > Len(fr.vals) THEN Fails("StackUnderflow", fr, fu, bx)
      ELSE Fine([fr EXCEPT !.vals = Keep(@, l.base) \o payload,
                           !.labels = Append(Keep(@, k - 1), [l EXCEPT !.caught = exn]),
                           !.pc = h.pc], fu, bx)

\* throw_exception: where the frame goes on, or UncaughtException.
ThrowException(fr, exn, fu, bx) ==
  LET at == Search(fr, exn)
  IN  CASE at.kind = "table"  -> EnterTable(fr, exn, at.depth, at.clause, fu, bx)
        [] at.kind = "legacy" -> EnterHandler(fr, exn, at.depth, at.clause, fu, bx)
        [] OTHER              -> Fails("UncaughtException", fr, fu, bx)

-----------------------------------------------------------------------------
(* The ways an instruction ends.                                           *)

\* The body goes on with this frame.
Go(fr) ==
  /\ frames' = WithTop(fr)
  /\ UNCHANGED <<loaded, mode, call, pools, err>>

\* run returned an Err: call_function records the frame and leaves it.
Fail(e) ==
  /\ mode' = "unwind" /\ err' = e
  /\ backtrace' = Append(backtrace, <<Top.inst, Top.func>>)
  /\ frames' = Front(frames)
  /\ UNCHANGED <<loaded, call, fuel, pending, boxes, saved>>

\* An outcome that neither throws nor catches.
Take(o) ==
  IF o.err = Ok
  THEN /\ frames' = WithTop(o.frame) /\ fuel' = o.fuel
       /\ UNCHANGED <<loaded, mode, call, pending, boxes, backtrace, err, saved>>
  ELSE Fail(o.err)

\* raise: the exception lands in this frame, or is parked and unwinds.
Raise(fr, exn) ==
  LET o == ThrowException(fr, exn, fuel, boxes)
  IN  IF o.err = Ok
      THEN /\ frames' = WithTop(o.frame) /\ fuel' = o.fuel /\ boxes' = o.boxes
           /\ UNCHANGED <<loaded, mode, call, pending, backtrace, err, saved>>
      ELSE /\ mode' = "unwind" /\ err' = o.err
           /\ backtrace' = Append(backtrace, <<fr.inst, fr.func>>)
           /\ frames' = Front(frames)
           /\ pending' = IF o.err = "UncaughtException" THEN exn ELSE pending
           /\ boxes' = o.boxes
           /\ UNCHANGED <<loaded, call, fuel, saved>>

Next1(fr) == [fr EXCEPT !.pc = @ + 1]
Push(fr, v) == [fr EXCEPT !.vals = Append(@, v)]
Pop(fr, n) == [fr EXCEPT !.vals = Keep(@, Len(@) - n)]
TopVal == IF Top.vals = <<>> THEN 0 ELSE Last(Top.vals)
Running(ops) == mode = "run" /\ ~AtEnd /\ Instr.op \in ops

-----------------------------------------------------------------------------
(* The host's side: invoke_index.                                          *)

Invoke(f, args) ==
  /\ mode = "idle"
  /\ Len(args) = Func(1, f).params
  /\ mode' = "call"
  /\ call' = [inst |-> 1, func |-> f, args |-> args, depth |-> 1, hops |-> 0]
  /\ fuel' = MaxIterations
  /\ pending' = NoExn /\ boxes' = <<>> /\ backtrace' = <<>> /\ err' = Ok
  /\ UNCHANGED <<loaded, frames, saved>>

\* The Err reached the host: an escaping exception's payload is dropped.
Finish ==
  /\ mode = "unwind" /\ frames = <<>>
  /\ mode' = "idle" /\ pending' = NoExn
  /\ UNCHANGED <<loaded, machine, fuel, boxes, backtrace, err, saved>>

-----------------------------------------------------------------------------
(* call_function.                                                          *)

Enter(i, f, args, depth, hops) ==
  /\ mode' = "call"
  /\ call' = [inst |-> i, func |-> f, args |-> args, depth |-> depth, hops |-> hops]

Callee == Func(call.inst, call.func)
Entering(kind) == mode = "call" /\ call.depth <= MaxCallDepth /\ Callee.kind = kind

\* The results replace the arguments the caller still holds; without a caller
\* the invocation is over.
Deliver(rest, results) ==
  IF rest = <<>>
  THEN mode' = "idle" /\ frames' = rest /\ call' = NoCall
  ELSE LET fr == Last(rest)
           np == Func(fr.inst, Body(fr)[fr.pc].func).params
       IN  /\ mode' = "run" /\ call' = NoCall
           /\ frames' = Append(Front(rest), Next1([fr EXCEPT !.vals = Keep(@, Len(@) - np) \o results]))

CallTooDeep ==
  /\ mode = "call" /\ call.depth > MaxCallDepth
  /\ mode' = "unwind" /\ err' = "CallStackExhausted" /\ call' = NoCall
  /\ UNCHANGED <<loaded, frames, pools>>

\* Mutants of CallImport: the hop is not counted, and counted twice.
CallImportUncounted ==
  /\ Entering("import")
  /\ Enter(Callee.inst, Callee.func, call.args, call.depth, call.hops + 1)
  /\ UNCHANGED <<loaded, frames, pools, err>>
CallImportTwice ==
  /\ Entering("import")
  /\ Enter(Callee.inst, Callee.func, call.args, call.depth + 2, call.hops + 1)
  /\ UNCHANGED <<loaded, frames, pools, err>>

\* An import of another instance's function: one level deeper, no frame.
CallImport ==
  /\ Entering("import")
  /\ Enter(Callee.inst, Callee.func, call.args, call.depth + 1, call.hops + 1)
  /\ UNCHANGED <<loaded, frames, pools, err>>

\* A host function returns, with what it left in its results, or fails; it may
\* fail with any Err.
CallHost ==
  /\ Entering("host")
  /\ \/ \E v \in {0, 1} :
          /\ Deliver(frames, [k \in 1..Callee.results |-> v])
          /\ UNCHANGED <<loaded, pools, err>>
     \/ \E e \in {"HostError", "UncaughtException"} :
          /\ mode' = "unwind" /\ err' = e /\ call' = NoCall
          /\ UNCHANGED <<loaded, frames, pools>>

CallWasm ==
  /\ Entering("wasm")
  /\ mode' = "run" /\ call' = NoCall
  /\ frames' = Append(frames,
       [inst |-> call.inst, func |-> call.func, pc |-> 1, vals |-> <<>>,
        locals |-> call.args, depth |-> call.depth, hops |-> call.hops,
        labels |-> <<PlainLabel(FALSE, Callee.results, Len(Callee.ir) + 1, 0)>>])
  /\ UNCHANGED <<loaded, pools, err>>

\* The body ran off its end.  A missing result is reported outside run, and
\* leaves no frame in the backtrace.
Return ==
  /\ mode = "run" /\ AtEnd
  /\ LET n == Func(Top.inst, Top.func).results
     IN  IF Len(Top.vals) < n
         THEN /\ mode' = "unwind" /\ err' = "StackUnderflow" /\ frames' = Front(frames)
              /\ UNCHANGED <<loaded, call, pools>>
         ELSE /\ Deliver(Front(frames), LastN(Top.vals, n))
              /\ UNCHANGED <<loaded, pools, err>>

Call ==
  /\ Running({"call"})
  /\ LET np == Func(Top.inst, Instr.func).params
     IN  IF Len(Top.vals) < np THEN Fail("StackUnderflow")
         ELSE /\ Enter(Top.inst, Instr.func, LastN(Top.vals, np), Top.depth + 1, 0)
              /\ UNCHANGED <<loaded, frames, pools, err>>

\* Mutant of ReturnCall: the hop is not counted.
ReturnCallUncounted ==
  /\ Running({"return_call"})
  /\ LET np == Func(Top.inst, Instr.func).params
     IN  IF Len(Top.vals) < np THEN Fail("StackUnderflow")
         ELSE /\ frames' = Front(frames)
              /\ Enter(Top.inst, Instr.func, LastN(Top.vals, np), Top.depth, Top.hops)
              /\ UNCHANGED <<loaded, pools, err>>

\* Mutant of ReturnCall: the hop goes one level deeper.
ReturnCallStacking ==
  /\ Running({"return_call"})
  /\ frames' = Front(frames)
  /\ Enter(Top.inst, Instr.func, LastN(Top.vals, Func(Top.inst, Instr.func).params), Top.depth + 1, Top.hops)
  /\ UNCHANGED <<loaded, pools, err>>

\* return_call ends the body, and the loop of call_function starts the callee
\* in its place and at its depth, for one iteration of the budget.
ReturnCall ==
  /\ Running({"return_call"})
  /\ LET np == Func(Top.inst, Instr.func).params
     IN  IF Len(Top.vals) < np THEN Fail("StackUnderflow")
         ELSE /\ frames' = Front(frames)
              /\ IF OutOfFuel(fuel)
                 THEN /\ mode' = "unwind" /\ err' = "IterationLimitExceeded"
                      /\ UNCHANGED <<loaded, call, pools>>
                 ELSE /\ Enter(Top.inst, Instr.func, LastN(Top.vals, np), Top.depth, Top.hops)
                      /\ fuel' = Spend(fuel)
                      /\ UNCHANGED <<loaded, pending, boxes, backtrace, saved, err>>

\* Mutant of CaughtHere: the frames the unwind recorded are kept.
CaughtHereKeepingFrames(o) ==
  /\ mode' = "run" /\ frames' = WithTop(o.frame)
  /\ fuel' = o.fuel /\ boxes' = o.boxes /\ pending' = NoExn /\ err' = Ok
  /\ UNCHANGED <<loaded, call, backtrace, saved>>

CaughtHere(o) ==
  /\ mode' = "run" /\ frames' = WithTop(o.frame)
  /\ fuel' = o.fuel /\ boxes' = o.boxes
  /\ pending' = NoExn /\ backtrace' = <<>> /\ err' = Ok
  /\ UNCHANGED <<loaded, call, saved>>

\* on_call_error in the caller: an exception may land here; an Err that is not
\* caught leaves this frame too.
Unwind ==
  /\ mode = "unwind" /\ frames # <<>>
  /\ IF err # "UncaughtException" \/ pending = NoExn
     THEN Fail(err)
     ELSE LET o == ThrowException(Top, pending, fuel, boxes)
          IN  CASE o.err = Ok -> CaughtHere(o)
                [] o.err = "UncaughtException" -> Fail(err)
                [] OTHER ->
                     /\ err' = o.err /\ pending' = NoExn /\ boxes' = o.boxes
                     /\ backtrace' = Append(backtrace, <<Top.inst, Top.func>>)
                     /\ frames' = Front(frames)
                     /\ UNCHANGED <<loaded, mode, call, fuel, saved>>

-----------------------------------------------------------------------------
(* Instructions that stay in the frame.                                    *)

Const == Running({"const", "ref.null"}) /\ Go(Next1(Push(Top, IF Instr.op = "const" THEN Instr.value ELSE NullRef)))

\* Any instruction that computes a number.
Numeric == Running({"any"}) /\ \E v \in {0, 1} : Go(Next1(Push(Top, v)))

Drop == Running({"drop"}) /\ Go(Next1(Pop(Top, 1)))

LocalGet ==
  /\ Running({"local.get"})
  /\ IF Instr.local \in DOMAIN Top.locals THEN Go(Next1(Push(Top, Top.locals[Instr.local])))
     ELSE Fail("StackUnderflow")

GlobalGet == Running({"global.get"}) /\ Go(Next1(Push(Top, saved)))

GlobalSet ==
  /\ Running({"global.set"})
  /\ saved' = TopVal /\ frames' = WithTop(Next1(Pop(Top, 1)))
  /\ UNCHANGED <<loaded, mode, call, fuel, pending, boxes, backtrace, err>>

\* The label an opener pushes over its operands.
OpenLabel(fr) ==
  LET i == Body(fr)[fr.pc]
      base == Len(fr.vals) - i.params
      plain == IF i.op = "loop" THEN PlainLabel(TRUE, i.params, fr.pc + 1, base)
               ELSE PlainLabel(FALSE, i.results, CF(fr).endOf[fr.pc] + 1, base)
  IN  [plain EXCEPT !.tryTable = IF i.op = "try_table" THEN fr.pc ELSE NoTry,
                    !.legacy = IF i.op = "try" THEN fr.pc ELSE NoTry]

Open(fr) == [fr EXCEPT !.labels = Append(@, OpenLabel(fr))]

Block ==
  /\ Running({"block", "loop", "try_table", "try"})
  /\ IF Len(Top.vals) < Instr.params THEN Fail("StackUnderflow") ELSE Go(Next1(Open(Top)))

\* A false condition goes past the else, or to the end, which pops the label.
If ==
  /\ Running({"if"})
  /\ LET fr == Pop(Top, 1)
         elseAt == CF(Top).elseOf[Top.pc]
     IN  IF Len(fr.vals) < Instr.params THEN Fail("StackUnderflow")
         ELSE Go([Open(fr) EXCEPT !.pc = IF TopVal # 0 THEN @ + 1
                                         ELSE IF elseAt # NoElse THEN elseAt + 1
                                         ELSE CF(Top).endOf[@]])

\* Reached by a branch, or a handler, that completed.
SkipToEnd == Running({"else", "catch", "catch_all"}) /\ Go([Top EXCEPT !.pc = CF(Top).endOf[@]])

End ==
  /\ Running({"end", "delegate"})
  /\ Go(Next1([Top EXCEPT !.labels = IF @ = <<>> THEN @ ELSE Front(@)]))

Br == Running({"br"}) /\ Take(Branch(Top, Instr.label, fuel, boxes))

BrIf ==
  /\ Running({"br_if"})
  /\ IF TopVal # 0 THEN Take(Branch(Pop(Top, 1), Instr.label, fuel, boxes)) ELSE Go(Next1(Pop(Top, 1)))

ReturnInstr == Running({"return"}) /\ Go([Top EXCEPT !.pc = Len(Body(Top)) + 1])

Unreachable == Running({"unreachable"}) /\ Fail("Unreachable")

Throw ==
  /\ Running({"throw"})
  /\ LET slot == Tags(Top)[Instr.tag]
         n == code.arity[slot]
     IN  IF Len(Top.vals) < n THEN Fail("StackUnderflow")
         ELSE Raise(Pop(Top, n), [tag |-> slot, values |-> LastN(Top.vals, n)])

ThrowRef ==
  /\ Running({"throw_ref"})
  /\ IF TopVal = NullRef \/ TopVal >= Len(boxes) THEN Fail("NullReference")
     ELSE Raise(Pop(Top, 1), boxes[TopVal + 1])

\* Thrown from here, with the exception the n-th label out caught.
Rethrow ==
  /\ Running({"rethrow"})
  /\ LET k == Len(Top.labels) - Instr.label
     IN  IF k < 1 THEN Fail("UndefinedLabel")
         ELSE IF Top.labels[k].caught = NoExn THEN Fail("UncaughtException")
         ELSE Raise(Top, Top.labels[k].caught)

-----------------------------------------------------------------------------

Init ==
  /\ prog \in 1..Len(Programs)
  /\ code = Loaded(Programs[prog])
  /\ mode = "idle" /\ call = NoCall /\ frames = <<>>
  /\ fuel = 0 /\ pending = NoExn /\ boxes = <<>> /\ backtrace = <<>>
  /\ err = Ok /\ saved = NullRef

Host == \E f \in code.exports : \E args \in [1..Func(1, f).params -> {0, 1}] : Invoke(f, args)

Calls == CallTooDeep \/ CallImport \/ CallHost \/ CallWasm \/ Return
Instructions ==
  \/ Const \/ Numeric \/ Drop \/ LocalGet \/ GlobalGet \/ GlobalSet
  \/ Block \/ If \/ SkipToEnd \/ End \/ Br \/ BrIf \/ ReturnInstr \/ Unreachable
  \/ Call \/ ReturnCall \/ Throw \/ ThrowRef \/ Rethrow

Engine == Calls \/ Instructions \/ Unwind \/ Finish

Next == Host \/ Engine

\* invoke_index does not return before the guest does: the engine goes on.
Spec == Init /\ [][Next]_vars /\ WF_vars(Engine)

-----------------------------------------------------------------------------
(* Reference: where constructs are, read off the text of a body.           *)

TextOf(fr) == Texts[prog][fr.inst][fr.func]
AroundAt(fr) == TextOf(fr).around[fr.pc]

InHandler(t, i, p) == \E k \in CatchesOf(t, i) : k < p

\* Where control goes at the n-th construct out of those in seq, which are the
\* ones around it, the outermost first.
Exit(t, seq, n) ==
  IF n >= Len(seq) THEN Len(t.ir) + 1
  ELSE LET i == seq[Len(seq) - n] IN IF t.ir[i].op = "loop" THEN i + 1 ELSE t.closer[i] + 1

\* What takes an exception thrown at p: clause k of the n-th construct around
\* p, or its handler at k.  Nothing in the body does if n is 0.
Taker(fr, exn) ==
  LET t == TextOf(fr)
      seq == AroundAt(fr)
      takes(c) == c.op = "catch_all" \/ Tags(fr)[c.tag] = exn.tag
      clauses(i) == {k \in DOMAIN t.ir[i].catches :
                       LET c == t.ir[i].catches[k] IN c.tag = NoTag \/ Tags(fr)[c.tag] = exn.tag}
      From[n \in 0..Len(seq)] ==
        IF n = 0 THEN <<0, 0>>
        ELSE LET i == seq[n]
                 closing == t.ir[t.closer[i]]
                 handlers == {k \in CatchesOf(t, i) : takes(t.ir[k])}
             IN  CASE t.ir[i].op = "try_table" /\ clauses(i) # {} -> <<n, Min(clauses(i))>>
                   [] t.ir[i].op = "try" /\ closing.op = "delegate" ->
                        From[IF closing.label < n - 1 THEN n - 1 - closing.label ELSE 0]
                   [] t.ir[i].op = "try" /\ handlers # {} /\ ~InHandler(t, i, fr.pc) -> <<n, Min(handlers)>>
                   [] OTHER -> From[n - 1]
  IN  From[Len(seq)]

\* Where control goes to what takes an exception, 0 for nowhere.
Place(t, seq, n, k) ==
  IF n = 0 THEN 0
  ELSE IF t.ir[seq[n]].op = "try_table" THEN Exit(t, Keep(seq, n - 1), t.ir[seq[n]].catches[k].label)
  ELSE k + 1
Landing(fr, exn) ==
  LET at == Taker(fr, exn) IN Place(TextOf(fr), AroundAt(fr), at[1], at[2])

-----------------------------------------------------------------------------
(* What the interpreter promises of valid programs.                        *)

Errors == {"UncaughtException", "CallStackExhausted", "IterationLimitExceeded",
           "ExnStoreExhausted", "NullReference", "Unreachable", "HostError",
           "StackUnderflow", "UndefinedLabel"}

\* Exceptions that a program can throw.
Exceptions == UNION {[tag : {slot}, values : [1..code.arity[slot] -> {0, 1}]] :
                          slot \in 1..Len(code.arity)}

\* The shape of the state: pools within their limits, frames of existing
\* functions at positions of their bodies, labels above operands that are there.
TypeOK ==
  /\ prog \in 1..Len(Programs)
  /\ mode \in {"idle", "call", "run", "unwind"}
  /\ err \in Errors \cup {Ok}
  /\ fuel \in 0..MaxIterations
  /\ pending \in Exceptions \cup {NoExn}
  /\ Len(boxes) <= MaxExnBoxes /\ \A k \in DOMAIN boxes : boxes[k] \in Exceptions
  /\ saved \in {NullRef} \cup 0..(MaxExnBoxes - 1)
  /\ \A k \in DOMAIN frames :
       LET fr == frames[k]
       IN  /\ Func(fr.inst, fr.func).kind = "wasm"
           /\ fr.pc \in 1..(Len(Body(fr)) + 1)
           /\ \A n \in DOMAIN fr.labels :
                /\ fr.labels[n].base <= Len(fr.vals)
                /\ n > 1 => fr.labels[n - 1].base <= fr.labels[n].base

\* Every path to a position opens the same constructs: the labels of a frame
\* are those the text puts around its pc, each with the target the text gives
\* it, and a legacy try holds an exception exactly while a handler of it runs.
\* Branches, handlers, delegates and ends all have to agree for this to hold.
LabelsMatchTheText ==
  \A k \in DOMAIN frames :
    LET fr == frames[k]
        t == TextOf(fr)
        seq == AroundAt(fr)
    IN  fr.pc <= Len(t.ir) =>
          /\ Len(fr.labels) = Len(seq) + 1
          /\ \A n \in DOMAIN seq :
               LET l == fr.labels[n + 1]
                   handling == t.ir[seq[n]].op = "try" /\ InHandler(t, seq[n], fr.pc)
               IN  /\ l.isLoop = (t.ir[seq[n]].op = "loop")
                   /\ l.target = Exit(t, Keep(seq, n), 0)
                   /\ l.caught # NoExn => handling
                   /\ handling /\ fr.pc < t.closer[seq[n]] => l.caught # NoExn

\* Interpreting a valid program never meets a state the code guards against
\* for unvalidated bodies only: a short operand stack or a missing label.
NoInternalTrap == err \notin {"StackUnderflow", "UndefinedLabel"}

\* The exception the innermost frame is about to look for a handler of.
Thrown ==
  CASE mode = "unwind" -> IF err = "UncaughtException" THEN pending ELSE NoExn
    [] Running({"throw"}) ->
         LET slot == Tags(Top)[Instr.tag] IN [tag |-> slot, values |-> LastN(Top.vals, code.arity[slot])]
    [] Running({"throw_ref"}) /\ TopVal \in 0..(Len(boxes) - 1) -> boxes[TopVal + 1]
    [] Running({"rethrow"}) -> Top.labels[Len(Top.labels) - Instr.label].caught
    [] OTHER -> NoExn

\* An exception, thrown here or unwinding out of a call made here, goes to the
\* handler the text of the body gives it; it leaves the frame only if there is
\* none.
LandingIsLexical ==
  Thrown # NoExn /\ frames # <<>> /\ err' \in {Ok, "UncaughtException"} =>
    IF mode' = "run"
    THEN frames'[Len(frames')].pc = Landing(Top, Thrown)
    ELSE Landing(Top, Thrown) = 0
ExceptionsLandWhereTheTextSays == [][LandingIsLexical]_vars

\* A handler starts with the payload its clause names, and the box it asks for,
\* right above the operands below the construct it goes on in.
PayloadLands ==
  Thrown # NoExn /\ frames # <<>> /\ mode' = "run" =>
    LET at == Taker(Top, Thrown)
        ir == TextOf(Top).ir
        opener == ir[AroundAt(Top)[at[1]]]
        table == opener.op = "try_table"
        clause == opener.catches[at[2]]
        boxed == table /\ clause.ref
        named == IF table THEN clause.tag # NoTag ELSE ir[at[2]].op = "catch"
        inside == IF table THEN at[1] - clause.label ELSE at[1] + 1
    IN  /\ frames'[Len(frames')].vals = Keep(Top.vals, Top.labels[inside].base)
                                       \o (IF named THEN Thrown.values ELSE <<>>)
                                       \o (IF boxed THEN <<Len(boxes)>> ELSE <<>>)
        /\ boxes' = IF boxed THEN Append(boxes, Thrown) ELSE boxes
\* What is below a construct stays as it was when the construct was entered.
OperandsBelowStay ==
  \A k \in DOMAIN frames \cap DOMAIN frames' :
    \A n \in DOMAIN frames[k].labels \cap DOMAIN frames'[k].labels :
      LET base == frames[k].labels[n].base
      IN  /\ frames'[k].labels[n].base = base
          /\ Keep(frames'[k].vals, base) = Keep(frames[k].vals, base)
\* However an exception got there, its handler finds the operands that the
\* construct was entered with and nothing but the payload above them: what was
\* computed since is gone, and no instruction reached below (throw_exception).
HandlersFindTheirOperands == [][PayloadLands /\ OperandsBelowStay]_vars

\* While the guest runs nothing is left of an error it survived: no pending
\* exception that a later Err could be taken for, no frames of an unwind that
\* was caught; and a success reports no backtrace.
CaughtErrorsLeaveNothing ==
  /\ pending # NoExn => mode = "unwind" /\ err = "UncaughtException"
  /\ mode \in {"call", "run"} => backtrace = <<>> /\ err = Ok
  /\ mode = "idle" /\ err = Ok => backtrace = <<>>

\* The depth that max_call_depth bounds is the number of active calls and of
\* the imports they went through: every call is one level below its caller, and
\* one more for each import between them.  A tail call takes the place of its
\* caller, at its depth.
DepthCountsActiveCalls ==
  LET CallerDepth(n) == IF n = 1 THEN 0 ELSE frames[n - 1].depth
  IN  /\ \A k \in DOMAIN frames :
           /\ frames[k].depth = CallerDepth(k) + 1 + frames[k].hops
           /\ frames[k].depth <= MaxCallDepth
      /\ mode = "call" => /\ call.depth = CallerDepth(Len(frames) + 1) + 1 + call.hops
                          /\ call.depth <= MaxCallDepth + 1

\* The precomputed tables pair every opener with its end, else, handlers and
\* delegate; they are evaluated between invocations, being constant.
TablesPairOpeners ==
  mode = "idle" /\ err = Ok =>
    \A i \in 1..Len(code.insts) : \A f \in 1..Len(code.insts[i].funcs) :
      Func(i, f).kind = "wasm" => TablesAreRight(code.tables[i][f], Texts[prog][i][f])

\* With an iteration budget every invocation ends, whatever the guest does:
\* loops, recursion, tail calls and handlers that throw.
InvocationsEnd == (mode # "idle") ~> (mode = "idle")

\* What a comment says of throw_ref: an exnref that designates no box is only
\* reachable from an unvalidated module.
ExnrefsAreInRange ==
  Running({"throw_ref"}) /\ TopVal # NullRef => TopVal < Len(boxes)

\* What the documentation of backtrace says: it is empty only after a success
\* and after a failure that never entered wasm.
TrapsLeaveABacktrace ==
  mode = "idle" /\ err # Ok /\ (\A f \in code.exports : Func(1, f).kind = "wasm")
    => backtrace # <<>>
=============================================================================
