# A TLA+ model of wasmrt

wasmrt is a WebAssembly runtime in Rust: a decoder, a validator and an
interpreter without unsafe code (`crates/wasmrt-core`), a C API
(`crates/wasmrt-capi`) and a command line (`crates/wasmrt`). A module goes
through the pin policy, decode, validate, instantiate into a `Store`, and execute.
This directory models that whole path from the bytes of a file to the values on
the stack, and the parts around it whose correctness depends on long sequences
of legal operations: instances that share state through a store, the
interpreter's control flow with exceptions, traps, tail calls and budgets, the
sandboxed file system of the WASI host, and the handles of the C interface.

Line numbers are those of `crates/wasmrt-core/src/interp.rs` unless another file
is named.

## Inventory

| Component | Where | State | Operations | What makes it correct |
|---|---|---|---|---|
| Store and instantiation | `interp.rs` 263-547, 853-1250, 1404-2255 | `Store.code`, `Pools` (globals, memories, tables, tags, segments, GC heap), one `IndexMaps` per instance | `instantiate`, the `Imports` builders, exports | an import is the exporter's own slot; no two definitions share a slot; no reference dangles, also after a failed instantiation |
| Shared-state instructions | 2925-4021, 4241-4274 | the pools | `call`, `call_indirect`, `table.*`, `global.*`, `memory.grow`, segments, allocation | the function that runs has the type its caller asked for; limits hold whoever grows |
| Interpreter control | 2350-2585, 2768-3221 | `Frame` (operands, labels, pc), the Rust recursion, `fuel`, `backtrace` | `call_function`, `run`, `branch`, `precompute_control_flow` | labels match the text; depth counts active calls; every invocation ends |
| Exceptions | 2590-2765, 3073-3164 | `pending_exn`, `exn_store`, `Label.caught` | `throw_exception`, `raise`, `on_call_error` | an exception lands where the text says; nothing of a caught error is left |
| Type registry | 1206-1403 | interned recursion groups | `assign`, `intern`, `is_subtype` | equal ids if and only if equal types |
| Memory, numerics, SIMD, atomics | 4119-6510 | bytes and operands | loads, stores, bulk operations, arithmetic | bounds; bit-exact results |
| Linker | `linker.rs` | definitions, namespaces, a fallback | `define_*`, `resolve` | a name means its last definition; kinds and global types match |
| Validator | `validate.rs` | operand stack and control frames of one body | `validate`, one rule per instruction | what it accepts the interpreter runs without an internal trap |
| Decoder | `module.rs`, `reader.rs`, `opcode.rs`, `types.rs` | a cursor | sections, LEB128, instructions | total on any bytes; exact widths |
| Features | `features.rs` | a set of switches | enable, disable, what a type or an instruction needs | dependencies between proposals; no value of a proposal that is off |
| WASI | `wasi/mod.rs`, `wasi/fs.rs`, `rng.rs` | the fd table, preopened directories | about 45 calls, `walk` | no path leaves the sandbox; rights never grow; a refused call changes nothing; every call returns |
| Pin policy | `pin.rs`, `main.rs` 290-485 | the databases of the machine and of the user | `mode_from_db`, `decide`, `verify_gate` | enforce cannot be overruled |
| C API | `wasmrt-capi` | handles, error slots, callback environments | create, use, delete | a stale or foreign handle is refused; finalizers run once |
| Assembler, script runner, CLI | `wat.rs`, `wat/annot.rs`, `sexpr.rs`, `wast.rs`, `main.rs` | none that outlives a call | text to bytes; scripts; arguments | output goes through decoder and validator |

How they interact. The linker reads a store and produces `Imports`; `instantiate`
checks them against the module and resolves each to a slot of a pool; from then
on instances interact only through the pools and through `call_function`, which
runs every function in the instance that defines it. A host function gets a
`Caller` with the calling instance's memories and cannot call back. The engine is
single threaded: the difficulty is not interleaving of threads but the order of
legal operations on shared state, errors that leave in the middle of one, and
state that survives from one invocation to the next. Decoder, validator and
interpreter share no code for what an instruction is: each has its own table of
opcodes, its own arities and its own idea of the labels, and the interpreter
checks nothing the validator has checked. An embedder in C sees integers instead
of references and may be called back in the middle of a call.

The behaviours that are hard, each at its line, are listed under `hazards` in
`PROJECT.json`. The main ones: an instantiation that fails after it has changed
tables it shares; numbers given out before the thing they number exists
(`self_inst`, pool bases); references that cross instances; the search for a
handler under delegates and inside handlers; the label stack across back-edges
and unwinding; what an error leaves behind in `pending_exn`, `backtrace` and
`exn_store`; the limits that make a guest stop; validator and interpreter that
disagree; readers of the same bytes that disagree; rights and paths after many
opens, links and renumberings; handles that outlive what they name; and a policy
that several sources have a say in.

## Modules

* **Linking** - the store. Variables are the pools, the instances (`code`), the
  instantiation in progress (`job`), the frames of the running invocation
  (`stack`) and the ids the host has been given (`issued`).
  `Store::instantiate` is one function in the code; here it is the sequence
  `BeginInstantiate` (counts, function imports, global imports, 1731-1885),
  `EvalGlobal` (1887-1895), `LinkResources` (1896-1986), `EvalTable` (1988-2014),
  `Commit` (element values, maps, pools, push; 2016-2192), `ApplyElem` and
  `ApplyData` (2210-2240) and `Start` (2242-2255), because it can fail between
  any two of them and each failure leaves another store. Nothing interleaves
  with these steps: the host is waiting for them. The other actions are
  `Invoke`, `Return`, `TrapOut`, the calls, and one action per instruction that
  changes shared state. `TrapOut` stands for every trap of the guest. A call
  that would trap is disabled: the outcome is that of `TrapOut`.
* **ControlFlow** - `precompute_control_flow` (2367-2441) as one operator per
  instruction class folded over a body, and a reference definition that pairs
  brackets by counting.
* **Exec** - the interpreter. The Rust recursion of `call_function` and `run`
  is the sequence `frames`; `mode` says what the recursion is doing (entering a
  call, executing, unwinding an `Err`). There is one action per instruction, per
  way `call_function` can go (too deep, import, host, wasm), and for
  `on_call_error` (`Unwind`). The last part is a reference semantics: where
  control should go read off the text of the body, without labels or tables.
* **FileTree** (the host's file system, external to the repository) and **Wasi**
  - the WASI host. A path call is one step for the lookup of its descriptor, one
  for each component of the walk (`walk` in `fs.rs`), and one for what the call
  then does; every other call is one step. The variable `walk` also keeps the
  directories that a walk with one open handle per component would hold, which
  the code does not have: `WalksStayBeneath` compares the two.
* **Capabilities** - the abstract specification of Wasi: descriptors that derive,
  move and close, and directories that change only under a right to change them.
  No paths and no walks. Wasi implements it (`RefinesCapabilities`; the mapping
  takes each descriptor to its grant and rights and each grant to what lies below
  its directory).
* **Linker** - the table of definitions (`linker.rs`) and `resolve`.
* **Embedding** - the C interface: stores with tags, linkers, handles, callbacks
  with environments and finalizers, calls that a callback may nest in, the
  parked message of a trap, WASI contexts. It composes Linker with what the
  store keeps of linked imports. A function returns or calls one function; `Reach`
  follows such calls through instances until one returns, a host function is
  reached or the calls are `MaxCalls` deep and the engine traps.
* **Types** - value types, groups, canonical equality, declared subtyping,
  matching of fields and signatures (`types.rs`, `module.rs`, `validate.rs`).
* **Signatures**, **Effects** - which instructions there are and what each pops
  and pushes, by families (the tables of `validate.rs` in one, of `interp.rs` in
  the other: they are translated separately).
* **Typing**, **Validation** - the validator's operand and control stacks, and the
  step for each instruction family, with the initialisation of locals and the
  constant expressions.
* **Machine**, **Interp** - the interpreter's stack, locals and labels, with values
  abstracted to what tells them apart: kind, null, and the type an object was
  made with. A call, a load, a global or a table gives any value of its declared
  type; what is stored must fit it.
* **Soundness** - Validation, then Interp: a body is accepted one instruction at a
  time and then run.
* **Bytes**, **Opcodes**, **Decoding** - the reader with its LEB128 widths, the
  decoding of instructions, and the sections. A reader is a record with its
  position, whether it is still good, and what it has read.
* **Features** - the switches and what types, instructions, constants and
  declarations need.
* **Admission** - `validate_with_features`: everything about a module except its
  bodies, and the bodies by Validation.
* **Pins** - modes, databases, the decision table, `verify_gate`.
* **Loading** - composes Pins, Decoding, Admission and Soundness: a file is asked
  for, gated, read section by section, validated and called.
* **MCLinking**, **MCExec**, **MCWasi**, **MCEmbedding**, **MCSoundness**,
  **MCLoading** - the small modules, programs, trees and files that the runs use.
* **LinkingProofs**, **StoreProofs** - theorems about Linking: the state of one
  store, and what its links and steps promise. **ControlFlowProofs** - that the
  precomputed tables pair what the text pairs. **ExecProofs** - theorems about Exec.
  **WasiProofs**, **EmbeddingProofs** - theorems about Wasi and Embedding. **LinkerProofs** has the lemmas about the definition table
  (what `Vec::retain` keeps, what a definition changes), **ProofLemmas** those
  about numbers, finite sets and sequences.

Data that no property tells apart is left out. In Linking: bytes of memories and
data segments (sizes are kept), numeric globals and constant expressions, fields
of objects. In Exec: numbers (an instruction that computes one is `any`, with
two outcomes), and every pool other than those of errors and budget; one global
of type exnref is kept, since exnrefs that survive an invocation matter. A
function has one parameter or result at most where a value's kind is what
matters (`SigOf` in Linking).

In Soundness: numbers are their type; nulls of different hierarchies are one
null; the iteration budget is left out, since every body of the run ends or
reaches the bound. In Loading: which error a refusal reports, the name section,
the bytes of data segments; too many locals found by the decoder and by the
validator are one refusal. In Wasi: times, inode numbers, the layout of what is
reported. In Embedding: values of arguments and results.

A host function returns or fails, and may fail with any error, `UncaughtException`
included. An id of another store is one extra backing per import.

## Runs

| Run | Question | Bounds |
|---|---|---|
| LinkFailures | failing instantiations: types, live references, owners of objects, limits, nothing taken back | 3 instances, 3 table entries, 1 page, 2 objects, depth 2 |
| LinkFunctions | functions through imports, re-exports, exact imports, tables, imported functions in tables of others; slots of shared tables, globals, tags | 3 instances, 3 table entries, depth 3 |
| Interpreter | labels, exceptions and the operands their handlers find, errors, depth, tables, termination | depth 4, 3 iterations, 1 exception box |
| Sandbox | WASI: rights, walks, refusals, appending, stdin, that calls return, and that Wasi implements Capabilities | 3 calls, 2 grants, files of 3 bytes, 3 links per walk, descriptors up to 7 |
| Handles | C interface: handles, finalizers, names, trap messages | 2 stores, 1 linker, 2 environments, 2 instances, 2 definitions, 2 nested callbacks, 5 nested calls |
| Soundness | from bytes to values: numbers, the passes over types, whole modules, features, the root policy, and that what validates runs as it was typed | bodies of up to 7 instructions from a menu per scene; 4 nested constructs; files below |
| MemoryCeiling, ForeignSignatures, DanglingExnref, TailTickBacktrace, ConstantDefaults, ExactFields | sentences of the documentation that the code does not keep | two or three instances; single programs and scenes |

Why these bounds. Linking needs three instances: an owner, an importer, and one
that imports what the second re-exports or takes the number a failed one was
meant to have. The two modules of LinkFailures are chosen so that every failure of
`instantiate` is reachable: the importer's second element segment is out of
bounds until somebody grew the table, its data segment until somebody grew the
memory, its global needs an object when the heap may be full, its import fits
only while the table is within its declared limits, and its start function may
trap. One page of memory, or two objects, is the smallest number where both
being at the limit and growing occur.

Exec runs 2620 programs: each of seven statements (throw of
either tag, one of them with an operand left below the payload, a throw out of a called function, a call of another instance's
function, a branch, a branch with a value under it, a return) inside each pair of
nested constructs, with five different handlers that rethrow, throw again or
catch what they rethrow; delegates that skip one or two constructs; and loops,
recursion and tail calls that never end by themselves. Four levels of calls allow
an import under a recursive call and the limit itself; three iterations allow a
loop to be entered a second time after an exception; one box makes a second
catch meet the limit. Every body runs above one operand, which handlers must leave
alone, and the payload differs from the number of the box, so that the order of the
two is seen. The two instances number their tags the other way round,
so that comparing tag indices instead of tag slots would be seen. Only programs
that are valid WebAssembly are run.

Sandbox starts from a tree with a relative link, links that restart at the root,
one of them back into itself, and paths that climb; the guest adds links of its
own. One guest makes its calls and nobody else changes the tree: a swap of a
directory during a walk, the residual that the module documentation of `fs.rs`
(lines 23-44) accepts, is outside the model. Three calls are enough to open, renumber or write, and
use; the second and the third come from menus that follow up the first. A full
host (no free node, a file past `MaxData`) answers IO.

Handles uses 16 for 2^32 as the width of a slot number, more than the slots
there are. Two stores are needed for a handle of one to be used with the other,
and a deleted store for a handle that is late; two definitions for a name that is
redefined; two nested callbacks for a callback that calls. Five nested calls are more
than any finite chain of the modules; `_initialize` of one of them calls itself and
exhausts the stack. Handles makes fewer stores
than there are tags, and `HandlesNameTheirObject` is claimed and proved only so far:
`NEXT_STORE_TAG` is an `AtomicU32` that wraps, as `StoreNew` does.

Soundness has two kinds of initial states. Scenes are a module, a function and a
menu of instructions: every body over the menu up to the bound is validated and,
if accepted, run; there is a scene for each family (numbers, locals, blocks and
branches, exceptions, structures, arrays, casts, descriptors, tables, calls and
tail calls, memory, constant expressions), and scenes whose modules are type
sections that must be refused. Files are the bytes of a module with every
section, cut at every place, with each byte changed to one of five values, and
with sections dropped, doubled or swapped; one small module for each proposal
under each choice of what is switched off; a module under every combination of
databases, flags and terminal; and files that are nothing but a number. Two
things the code accepts and should not. Default values of types without them, in
constant expressions, are left out of the passing scenes (the run ConstantDefaults).
A mutable field that a declared subtype narrows to the exact type is there, and
`SlotsReadAsWritten` excepts the modules that have one
(`MutableFieldsKeepExactness`); the run ExactFields shows what happens in them.

ForeignSignatures and LinkFunctions differ in their modules. `call_indirect` on an
entry that the entry's owner imported compares the two signatures in the type
section of the caller (`Callable`), import matching through the store-wide ids
(`Importable`). A module of Linking therefore has a type section (`types`), and a
signature the spelling that its module has for it: a number, or a reference to
a type by its index in the section. LinkFunctions has modules in which no spelling
of one means another type in the other (`SpellAlike`), which is so of any whose imported
functions take and give no references to types of their own; the modules of
ForeignSignatures have two types under the same index.

Deadlock checking is off: the host, the guest or the embedder may stop calling, a
body ends or reaches its bound, and with everything allocated and nothing running
there may be nothing left to do.

Fairness. `InvocationsEnd` is checked under weak fairness of `Engine`, everything
but the host's own actions. `invoke_index` is a function call on the host's
thread: it does not return before the guest has, and the interpreter has no way
to wait for anything, so it always takes its next step. It needs `MaxIterations`
other than 0, which disables the budget in the code as well. A host function
that never returns is outside the model. `CallsReturn` is checked under weak
fairness of `Host`: a WASI call is a Rust function that never waits for the guest;
the guest itself need not call. The other runs check safety only.

Six runs exhibit disagreements between documentation and code; `findings` in
`PROJECT.json` quotes both sides. In short: the memory ceiling is checked per
memory and not per instance when memory grows; an exnref kept in a global
survives the boxes it designates, in a valid program; running out of budget
at a tail call leaves an empty backtrace; a constant expression makes default
values of types that have none; `call_indirect` reads the signature of another
instance's imported function with the type section of the caller, and may call a
function of another type; and a declared subtype may narrow a mutable field to the exact type.

Further disagreements that the models contain as the code has them, without a
run of their own, are under `hazards` with a note: the mode of a pin database
with a trailing comment, a database in a directory that may not be searched,
and targets of casts that the feature
switches do not look at. `--verify warn` on a database without a mode turns a
refusal into a question at a terminal, where the comment in `verify_gate` says
that a user may only raise the policy. `define_wasi` of the C interface grants all
rights, where `fs.rs` describes creating links as opt-in; and a second
`define_wasi` replaces the context whose exit code is read. `export_global` calls
an imported global a snapshot (`interp.rs` 1581-1586), while `instantiate` gives
the importer the exporter's own slot, as WebAssembly asks and as Linking has it.

## Proofs

`LinkingProofs` proves, for any set of valid modules and any limits:

* `TypeCorrect`: `Spec => []TypeOK`, which includes that every index map of every
  instance covers its index space and points into its pool;
* `NoDanglingReferences`: `Spec => []ReferencesAreLive`;
* `CallsFindABody`: `Spec => []FramesHaveBodies`, every frame runs a function its
  instance defines, after any chain of imports;
* `StoreIsInOrder`: `Spec => []LinkInv`, from which the three follow.

Assumptions: `ModulesAreValid` (indices of a module are in range, constant
expressions read earlier immutable globals: what decoder and validator
establish, and, as a restriction of the model, segment items allocate nothing)
and `LimitsAreNumbers`. TLC evaluates both on every run of MCLinking.

The inductive invariant is `LinkInv == TypeOK /\ Building /\ Committed /\
FramesHaveBodies /\ ReferencesAreLive`. The first and the last alone are not
inductive: while an instantiation is in progress its values already name the
instance it will become, which does not exist. `Building` says that such a value
is live or is a function of that very instance (`LiveSoon`), that the imports
resolved so far are within the exporters' index spaces, and that no frame runs
and the store has room; `Commit` then turns each `LiveSoon` into `Live`.
`Committed` says that from then on the job is about the last instance, so that
element segments write references to an instance that exists, which is why a
failure after `Commit` leaves no dangling reference. `FramesHaveBodies` needs that
following imports ends within as many hops as there are instances. There is one
lemma per action; steps that only touch the stack share `StackStep`, and steps
that change tables share the argument that an entry is a live reference.

`StoreProofs` builds on `LinkInv` and proves, for the same constants:

* `AlwaysNothingIsTakenBack`: `Spec => NothingIsTakenBack`;
* `AlwaysLinksAreWhatWasAsked`: `Spec => []LinksAreWhatWasAsked`;
* `AlwaysCalleesHaveTheCallersType`: `Spec => []CalleesHaveTheCallersType`, for modules
  that spell alike (`SpellAlike(Modules)`), and `PlainImportsSpellAlike`: those whose
  imported functions have no reference to a type of their own do;
* `AlwaysExactImportsAreExact`: `Spec => []ExactImportsAreExact`;
* `AlwaysObjectsKnowTheirModule`: `Spec => []ObjectsKnowTheirModule`;
* `AlwaysLimitsHold`: `Spec => []LimitsHold`;
* `AlwaysSlotsHaveOneOwner`: `Spec => []SlotsHaveOneOwner`;
* `StoreIsAsked`, `StoreIsTyped`, `ObjectsAreOwned`, `LimitsStay`, `OwnersStay`: the
  inductive invariants that these follow from.

`AskedInv` adds to `LinkInv` what a running instantiation was given (`Asked`): its
backings were issued, lie in the exporter's index spaces and, for functions, match
the type asked for, until `Commit` writes them into the instance. `TypedInv` adds
`ImportsLead`: the walk from an imported function through re-exports ends at the
host or at a function of an older instance whose type has the signature asked for.
The walk is a function of the number of hops (`Trail`); that it settles within as
many hops as there are instances, since each hop goes to an older one, and that
younger instances do not change it, is proved by induction over hops. This holds
of any valid modules, since import matching compares types store-wide. `CallsInv`
adds that each frame's function has the signature its caller asked for. A direct
call follows a link, and a `call_indirect` of a function that the owner of the entry defines
compares store-wide ids; only for a function the owner imported does the proof need
that the two modules spell alike (`CallableSig`), and there the code needs it too: the
run ForeignSignatures.
`ObjectsInv` adds `JobKnows`: what a running instantiation holds is owned either by
an instance that exists or by the one it will become. A failed instantiation
leaves its objects in the heap with the number of the next instance; they are
harmless because nothing that can be reached holds them, which is what
`ObjectsInv` carries through every step.
`LimitsInv` adds that what an index of an instance leads to is what the module of
that instance declares (`Declared`), that the pools are within the ceilings and each
memory and table within its own maximum (`PoolsWithin`), and what a running
instantiation has evaluated and checked (`Planned`). `LimitsHold` alone is not
inductive. An instruction checks a table against the maximum the table was defined
with and a reference against the declaration of the instance it runs in, and
`LimitsHold` speaks of every other instance that can index the table: it needs
that their declared maximum is no smaller and their declared kind the same. A table
is filled from globals and segments, so these must be of the kind they declare too;
a global imported twice is reached through two declarations, which must then agree
(`Agree`), and that the fresh slots of `Commit` are not shared by two definitions
is a part of the argument.
`ModulesAreTyped` is assumed here: an initialiser produces the kind of what it
initialises, an active segment and those of `table.init` fit the table, `table.copy`
joins tables of one kind, and a defined memory or table has no maximum below its
minimum, as the validator checks. TLC evaluates it on every run of MCLinking.
`OwnersInv` says of each of the six pools that its slots are partitioned among the
definitions of the instances (`Partitioned`). It is preserved because what `Commit`
maps an index to is either a slot in use (an import) or one after those in use
(a definition, or a global the host supplies), and the latter are hit one by one:
in order for definitions (`DefinedInOrder`), by a count of the host's globals for
those (`HostsCounted`, an intermediate-value argument). No other step adds a slot
(`PoolsOnlyChange`).
One more assumption: `SubTypesShareSig`, a subtype has the parameters and results
of its supertype. In the model a signature stands for how the values lie on the
stack; the validator accepts a declared subtype only when its parameters and
results match the supertype's (`validate.rs`, subtype declarations), which changes
the kinds of references and never the number or the representation of values.
TLC evaluates it on every run of MCLinking.

`WasiProofs` proves, for every tree, every set of grants and every menu of calls:

* `RightsNeverGrow`: `Spec => []RightsWithinCeiling`;
* `RefusalsChangeNothing`: `Spec => RefusedCallsChangeNothing`;
* `HostStaysTyped`: `Spec => []TypeOK`;
* `WalksNeverEscape`: `Spec => []WalksStayBeneath`;
* `StdinIsNeverLost`: `Spec => []StdinIsConsumedOnceDelivered`;
* `AppendsKeep`: `Spec => AppendNeverOverwrites`;
* `DescriptorsAreCapabilities`: `Spec => Descriptors!Spec`, where `Descriptors` is
  Capabilities with nothing said of what the directories hold.

The first two have the inductive invariant `RightsInv`. `RightsWithinCeiling` alone
is not inductive: `path_open` looks its descriptor up, walks for any number of steps,
and then takes the rights of the new descriptor from the entry it finds under the
number. `OpensFromADirectory` says that this entry is still a directory; it holds
because no other call comes in between, so `RightsInv` also says that without a
call there is no walk and nothing found. `Bounded` adds that directories and files
descend from a grant. For the second theorem, each action either changes no file
and no descriptor, or reports SUCCESS or FAULT; the host's operations refuse as a
whole (`HostRefusesWhole`); a cursor moved by a failing append is not counted.

The others add `HostInv`: the tree is one a host can have, the table has no gaps
and its files are files of the tree, the call is one a guest can make, stdin is
consumed to where it was delivered, and a walk in progress is tracked (`Tracks`).
`WalksStayBeneath` is not inductive, because it says of the whole computed path where
it leads, and a climb needs to know that of every part of it. `Tracks` says it of every part:
after k names the path leads to the k-th handle, and each handle is what the one before
lists under the next name. A climb then takes the last of each away; a followed link
leaves them or starts again; and for a descent one has to know what the host makes of a path
with one name more. That is where the recursion of the host's resolution comes in, and
with it the only inductions of the proof: two resolutions are run beside each other, one step
apart (`Beside`), and until the last name they do the same, so the longer path leads to
what the directory of the shorter one lists under it (`NameIsLookedUp`); whether links are
followed makes no difference unless the path leads to one (`FollowedUnlessLink`).
From the chain of handles, that the last is below the first follows with as many levels as the
model's resolution has steps (`ChainEndsBelow`), because a path that leads somewhere has no
more names than that (`LongPathsLeadNowhere`). So `verify_beneath`, which asks the
host about both paths again, finds nothing to refuse (`TrackedIsBeneath`): no bound of
the run Sandbox matters to it. That the tree stays a tree of the host is one lemma for each
of the host's changes (`MakeSound` to `RenameSound`); a changed tree keeps its files
files and its directories directories (`Grows`), so an open descriptor keeps its file.
What a read of stdin consumes is a fold over the guest's buffers, and the lemma about it
(`ReadConsumes`) an induction over them: consumed and stored grow by the same bytes.

`DescriptorsAreCapabilities` is the half of the refinement that holds for every set of
grants: each step of Wasi derives a descriptor, drops one, moves one or leaves them as they
are. A new one takes a number that is free (`NewHeld`: the lowest hole, or the end of a table
without gaps), and `fd_renumber` moves one, or drops the target when it moves a standard
stream onto it. The other half, that what a granted directory holds changes only
under a right of that grant, is a property of grants that lie apart: a directory granted
read-only inside one granted with all rights does change. The run Sandbox checks it
(`RefinesCapabilities`) for two grants that are apart.

Assumptions: `SequencesAssumption` and `GrantsAssumption` (grants and calls are
sequences, a grant names a path), `CallsAssumption` (a call has arguments of the types the
imports have: sizes and positions are unsigned, paths are sequences of names),
`StdinAssumption`, `BoundsAssumption`, `NodesAssumption`, `FuelAssumption`, and
`TreesAssumption`: the file system at the start is one a host can have, what a directory
lists is there and no file is larger than the bound. Nothing is assumed of its links or of
how directories lie in each other. TLC evaluates all of them on the run Sandbox.

`EmbeddingProofs` proves, for every set of validated modules, every width of a slot
number above the slots there can be, and every bound:

* `AlwaysHandlesNameTheirObject`: `Spec => [](Len(stores) < Wide => HandlesNameTheirObject)`,
  that is, until as many stores were made as there are tags;
* `AlwaysFinalizersRunOnce`: `Spec => []FinalizersRunOnce`;
* `AlwaysNamesMeanTheirLastDefinition`: `Spec => []NamesMeanTheirLastDefinition`;
* `AlwaysTrapsCarryTheirMessage`: `Spec => []TrapsCarryTheirMessage`;
* `AlwaysTypeOK`: `Spec => []TypeOK`;
* `AlwaysEmbedderInv`: `Spec => []EmbedderInv`, from which the five follow.

None of the properties is inductive alone. A handle names its object only if the
tag of a store is its place in the order of creation, modulo the number of tags, if
its slot still holds what it was issued for, and if each entry behind a handle was issued (`StoresKept`,
`HandlesKept`; that slots stay below the width follows by counting). A finalizer
runs once because the count of an environment is the number of definitions and
links that refer to it (`Counted`), which every step that defines, replaces,
links or deletes has to preserve: the proof counts the references a step adds and
takes away as sets. That no finalizer runs under its own callback needs that the
store of a call in flight is alive and still holds the link
(`FramesKept`), and that a start function's instance is the last one of its store.
Where a call ends is an instance of the same store or a link of it (`ReachEnds`):
by induction over the chain of calls, from `LinksStay`, whose step for
`Instantiate` is that an import resolves to what the linker or an instance of the
same store has (`ImportsLead`). Names mean their last definition because what
`retain` keeps stays in order (`FirstRetained`, in LinkerProofs).
Assumptions: `ModulesAssumption` (a module's indices are in range and names are
names: what decoder and validator establish), `BoundsAssumption` (bounds are
numbers), `WideAssumption` (a slot number fits beside the tag: with 2^32, fewer
than 2^32 instances and handles). TLC evaluates them on the run Handles.
Induction over the naturals is derived in ProofLemmas for sets
(`NatSetInduction`), from the pigeonhole principle of the library.

`ControlFlowProofs` proves `PrecomputeIsRight`: for every body whose brackets
match, of any length and nesting, the tables of `precompute_control_flow` (`end_of`,
`else_of`, `handlers_of`) are those that the text gives by counting brackets. The
code computes them in one pass with a stack of open constructs, the definition looks
at the whole text, so the argument follows the pass: after i instructions its
stack is exactly the constructs around position i + 1, outermost first, each
with the catches met so far, and every construct already closed has its final entries
(`PassInv`); there is one lemma per class of instruction. Behind it is the geometry of
brackets: the height of the text before a position (`Heights`), the first position
where it comes back (`closer`), and the construct that is open at each height
(`around`), which determine one another (`BracketsMatch`, `AroundSteps`).

`ExecProofs` proves, for every set of programs as the validator admits them and
any limits:

* `LabelsFollowTheText`: `Spec => []LabelsMatchTheText`;
* `TablesStayRight`: `Spec => []TablesPairOpeners`, from `PrecomputeIsRight`;
* `DepthIsCounted`: `Spec => []DepthCountsActiveCalls`: the depth of a frame is one more
  than its caller's plus the imports the call went through. The code keeps the sum
  only; `hops` is a history field of calls and frames that counts the imports;
* `NothingIsLeft`: `Spec => []CaughtErrorsLeaveNothing`;
* `ExceptionsLandLexically`: `Spec => ExceptionsLandWhereTheTextSays`.

The inductive invariant is `Inv`. Labels that match the text are not
inductive alone: a branch restores the labels of an outer construct, so each of
them must still be where the text has it from the new position (`LabelIs` says
which construct a label is for, where it leads and what it catches); a
call returns into a frame that waits at its call instruction; and an error comes up
through frames that no instruction is running in. `Control` therefore speaks
of every frame of the stack, with the mode, the pending call and the depths, and
`PoolsFit` of fuel, boxes and the pending exception. There is one lemma for each
kind of move in a text (on to the next instruction, into a construct, past its
end, to a label's target, to a handler), and each action of Exec is one of
those. `NothingIsLeft` has an invariant of its own, `Quiet`: an error is unwinding
exactly while `mode` says so.

Where an exception lands is decided twice: by the code, in a search over the labels
from the innermost outwards in which a delegate makes it skip labels, and by the
reference semantics, over the constructs around the instruction with no labels at all.
Both are recursive functions, of label indices and of nesting levels. `SearchIsLexical`
shows that they agree, level by level from the outermost inwards (`AgreeAt`,
`AgreeFurther`): the label at a level is for the construct at that level, its clauses
are those of the construct, a label whose handler is already running has none and
the text says the same of a position after the catch, and a delegate names the same
level on both sides. The property follows for an exception thrown at the innermost
frame and for one that comes out of a call (`OnlyThrows`).

Assumptions: `ProgramsAreValid` (brackets match, and the functions, tags and
label depths that instructions name are those of the instance: what validator and
linking establish before anything runs) and `LimitsAreNumbers`. TLC evaluates both on the
2620 programs of the run Interpreter.

Only model-checked: of Exec, that the operands an instruction takes are there
(`NoInternalTrap`, and with it `TypeOK`) and that a handler finds those of its construct
and the payload above them (`HandlersFindTheirOperands`), which needs the typing of operands that
`ProgramsAreValid` does not state, since it is what Soundness is about; everything
about Soundness; of Wasi, what its refinement of Capabilities says of the directories;
Loading, whose decoder of
nested instructions is a recursive operator; and liveness, which is out of reach
of the prover.

## Not modelled, and the plan

Done: Linking with its runs and proofs; ControlFlow and Exec; Wasi with its
abstract specification and proofs; Linker and Embedding; the path from bytes to
values (Bytes to Loading).

Next, in this order:

1. More proofs: the part of Capabilities about directories, for grants that lie apart; the
   stages of Loading.
2. TypeRegistry across modules: interning of recursion groups against structural
   equality, with failed instantiations in between. Types has the keys already.
3. An abstract store (instances hold references to objects with identity, no
   slots, no indices) that Linking implements.

Not modelled, and why:

* The bits that numeric, SIMD and atomic instructions compute, and the bytes of
  memories: pure functions on bit patterns that the conformance suite covers;
  their typing and their traps are in Interp. `atomic.wait` cannot block in a
  single-threaded store.
* The text assembler (`wat.rs`, `sexpr.rs`): a compiler of one pass without state
  that outlives a call. Its output goes through decoder and validator, so its
  mistakes are refused modules or wrong programs, not unsound ones.
* The script runner, benchmarks, examples, release scripts: tools around the
  engine.
* Of the command line, argument parsing, printing, and the commands that only
  inspect, assemble or write pins. The pin database is looked for and then read
  in two calls of the host; that it changes in between is left out.
* Of the C interface, configuration flags, inspection of types and modules, and
  copies in and out of memories and globals: they read or copy.
* SHA-256 and UTF-8 checking are external: a digest is a model value.
