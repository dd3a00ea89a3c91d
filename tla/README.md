# Fors: a TLA+ model of the compiler

Fors is a compiler written in Rust (`crates/*`). This project models two kinds of things
in it. The first are the parts that keep state between calls, where a sequence of calls,
two threads, a cancellation or a process that dies can put the program in a wrong state:
the incremental query engine and the query set on it, the language server, the
differential tester with its pool of threads, the interpreter's memory, the comptime memo
that several builds share. The second are the passes of the compiler: each is run, on every
input of a set built to reach its cases, and its answer is held against a definition of
what it should be that does not know how the pass proceeds.

Contents: [inventory](#inventory) · [modules](#modules-and-the-code) · [runs](#runs) ·
[bounds](#bounds) · [the findings](#the-findings) · [observations](#observations) ·
[fairness](#fairness) · [proofs](#proofs) · [not modelled](#not-modelled) · [plan](#plan)

`PROJECT.json` lists, for every definition that models code, the file and the lines it
models; this file explains how to read them. To check something by hand:
`tlc -workers 2 -config Checker.cfg MCChecker`, `tlapm SeedPoolProofs.tla`.

## Inventory

| Part | State it keeps | Operations | What is hard | What makes it correct |
|---|---|---|---|---|
| Query engine, `fors-query` | node columns (value hash, `changed_at`, `verified_at`, dependency range), revision, in-flight stack, cancel flag | `set_input`, `demand`, `read`, `is_red`, `compact`, cancel, reset | re-entrant recursion; a flag raised at any poll; decisions from comparisons of revisions; reads that differ from run to run | a green node holds what a cold evaluation gives; no needless execution; every call returns |
| Dependency arena, `fors-query/src/db.rs` | one vector of edges, a range per node | append at commit, slice in `verify`, `compact` | a walk reading while other nodes commit; moved ranges | behaves as one list per node |
| Query set and driver, `fors-check/src/queries` | files, slots and sites of declarations, memos, the plan | `add_file`, `edit_file`, `remove_file`, `recheck`, `diagnostics` | edges forgotten by a query; nodes computed in the wrong stage; slots reused; a recheck cut short | what is printed equals a cold build |
| Language server, `fors-lsp` | open documents, shutdown flag | one message in, messages out | an editor that does not wait; messages behind a shutdown; garbage on the wire | answers from the text asked about; diagnostics settle |
| Positions, `fors-lsp` `LineIndex` | line starts | `pos`, `offset` | characters of 1 to 4 bytes, surrogates, clamping | agrees with reading the text |
| Native differential, `fors-oracle` | shared counter, results behind a mutex; per run a child, two pipes, two readers, a deadline | `run_seeds`, `check_with`, `Runner::run` | interleavings, full pipes, a child that ends as the deadline passes, a worker that panics | a verdict per seed, independent of the schedule; every run returns |
| Minimiser, `fors-oracle/src/reduce.rs` | the program that still fails, the stage, the pass | propose, keep or drop | a pass works on what the last one left; a success starts passes again | fails after every step, passes the verifier, ends at a program with no smaller neighbour |
| Image writing, `fors-obj`, `fors-oracle` | two process-wide counters, files | write a temporary, chmod, rename, spawn, remove | crash between write and rename, reused pids | whole outputs, own image run |
| Lexer and parser, `fors-lex`, `fors-syntax` | per file: position, tree under construction | lex, parse | error recovery, wrapping finished nodes, lookahead | the tree covers the file; no error exactly for files of the grammar; ends |
| Modules and names, `fors-index`, `fors-resolve` | module graph, import tables, scopes | build the universe, resolve items, main's capabilities | import cycles, re-exports bound late, shadowing | every name is what the scope rules say |
| Declarations, `fors-check/src/wf.rs`, `authority.rs` | verdicts and the buckets asked | thirteen passes over declarations; `holds` | traits through other impls and bounds; cycles of containment | marker traits are sound; answers agree with instances of impls |
| Bodies: authority, patterns, ownership, `fors-check` | brands in scope; matrices; liveness per place | check a body | brands through generic calls; branches, loops, deferred bodies; exhaustiveness | accepted bodies do no harm when run |
| Types, `fors-fir`, `normalise.rs` | hash-consed rows, memo of projections | substitute, match, unify, normalise | open terms, refused questions, order of asking | textbook laws |
| Encodings, `fors-fir`, `fors-fmir` | none | write, read back, hash, print, parse | damaged bytes, numbering of blocks | reads back what was written; the hash ignores numbering |
| Lowering, verifier, interpreter, `fors-lower`, `fors-fmir`, `fors-interp` | scopes, exit chains; frames, memory, borrow stacks | lower a body; one instruction or terminator | every exit runs every pending body once; stale pointers | runs as written; pointers reach their object |
| Comptime, `fors-interp`, `fors-cli/src/build.rs` | budgets, declared inputs, memo in memory and on disk | evaluate a block, look up, write | two builds and one directory, torn files, edited inputs, budgets at their limit | the memo cannot be observed |
| Backend, `fors-oir`, `fors-codegen-dev`, `fors-asm`, `fors-link` | none | compile, encode, link | boundaries of arithmetic, immediates, partial writes of the kernel | the image does what the interpreter does |
| Everything else | — | — | — | see [not modelled](#not-modelled) |

How the parts meet at run time. The CLI makes one `QueryBuild`, adds files and calls
`recheck` once; the incremental tests call it after every edit. `recheck` sets inputs on the
engine's `Db` and demands nodes; the engine calls `compute` of the stage that is running,
which reads other nodes through the engine. `fors build` goes on to lower what was checked
and evaluates comptime blocks with the interpreter. The language server parses and resolves
a document by itself at every change. The differential tester generates a program per seed,
runs the interpreter on it, compiles it, writes the image, spawns it and compares; a
program that fails goes to the minimiser.

There is real concurrency in five places: the cancel flag of the engine, the worker pool,
the child process with its two readers, the counter behind the temporary names, and the
memo directory. Everything else is sequential; what is hard there is the order of calls, or
the number of cases.

## Modules and the code

### The query engine

**`QueryEngine`** — `Db`. The recursion of `pull`, `verify` and `execute` is unfolded:
`stack` is the code's `Vec<Frame>`, `ret` the answer travelling to the frame that asked,
`goal` the public call in progress. A step is one call or one return, so `Cancel` and
`Reset` (the other thread) may fall between any two, and the flag is looked at only where
the code polls it. The query set is a parameter: `NextRead(n, seen)` is what `compute(n)`
reads next after what it has seen, `Result(n, seen)` what it returns, so any deterministic
query set is covered, including one whose reads depend on values.

**`QueryAcyclic`** — the promise of the engine to a query set whose reads descend in some
rank, and the inductive invariant behind it. `MCQueryAcyclic` has a query set with shifting
reads and a reference evaluation (`Cold`); `MCQueryCyclic` has one with a cycle that an
input switches on.

**`DepSets`**, **`DepArena`** — the abstract lists and the vector that implements them. In
`DepArena` the engine decides either way wherever it would decide from values, so the result
holds for every query set. A walk keeps its range and its index in its frame as `verify`
keeps them in locals; `compact` runs only while no call is in flight, node by node.

**`QueryBuild`** — the query set, `recheck` and the printing walk. `recheck` runs on one
thread and owns its `QueryBuild`, so it is one action, and the engine inside it is written as
functions on a record. The cancel flag is a parameter: after how many polls it is found up.
A text is reduced to the declarations its signature and its body name, and whether either
has an error. A hash is the hashed content.

### Servers, threads and processes

**`LanguageServer`** — `serve` and `Server::handle`, with the editor (external) at the other
end of two FIFO channels; versions and texts are kept, so "from which text was this
computed" can be asked of every answer. **`SeedPool`** — `run_seeds`: a step is a
`fetch_add`, a check, a push under the mutex, a panic, or the end of the thread scope.
**`NativeRun`** — one program: the parent, the child, a reader per pipe, the clock.
**`ImageWrite`** — the life of an image on disk. The three are kept apart because they share
nothing but what a verdict is: `SeedPool` takes any verdict from a check, `NativeRun` takes
an image that spawns, and `ImageWrite` says that it is the right one. `MCNative` runs the last two for
TLC, a behaviour being one of either.

**`InterpMemory`** — frames and locals, heap, arenas with generations, pointers with
provenance, borrow stacks, aggregates and slices; any sequence of memory instructions, as
any function may contain it. `born`, `owner`, `minted` and `clobbered` are history the
interpreter does not keep; no guard reads them.

**`Comptime`** — the machine in comptime mode under its budgets, `memo_key` and the memo's
file field by field, and the loop of `fors build`: two processes, each reading declared
inputs once, looking into the directory, evaluating, and writing in place (truncate, first
part, rest); writes fail, processes die, files are edited. A hash is what it is a hash of,
so what is checked is that the key contains everything the answer depends on.

### The passes

Two modules run the passes. In both a state is `stage` (the pass), `input`, `out` (the
pass's state, and in the end its answer) and `done`; the initial states are the inputs, and
the invariants compare `out` with a reference once it is there, or at every step for passes
that are machines (the parser, the interpreter, the minimiser, images, comptime builds).

**`MCCompiler`** (`Compiler.cfg`):

| Model of the code | Reference |
|---|---|
| `Lexer` (`fors-lex`) | its second half: the tokens lie end to end, are the longest matches of the lexical grammar, and every mistake is reported where it is |
| `LineIndex` (`fors-lsp`) | a reader that goes through the source byte by byte |
| `Parser` (`fors-syntax`, the recursive descent as a machine with an explicit stack, with its tree builder) | `Grammar`: the EBNF of `docs/spec/07-grammar.md`; the files are in `MCCompiler` |
| `FlowCheck` (`flow.rs`) | its second half: every path through the body, loops for two turns |
| `Lowering` (`lower.rs`), `FmirVerify` (`verify.rs`), `Exec` (`exec.rs`) | `SourceSemantics`: what the tree means, and the programs |
| `FirTypes` (`ty.rs`, `subst.rs`, `impls.rs`, `normalise.rs`) | `TypeLaws`: substitution, instances, linear values, projections by the impls as written |
| `SigCodec` (`fors-fir/src/encode.rs`), `FmirCodec` (`fors-fmir` `encode.rs`, `dump.rs`, `parse.rs`), both with `ByteReader` | reading back, under damage and rewording; hash under renumbering |
| `Assembler` (`fors-asm`) | its second half: the decoding tables of the architecture (external) |
| `Arithmetic` (`arith.rs`), `NativeCode` (`fors-oir`, `fors-codegen-dev`, `fors-link`) | second half of `NativeCode`: the machine and the kernel's `write` (external), and what the interpreter makes of the same declaration |

**`MCChecker`** (`Checker.cfg`):

| Model of the code | Reference |
|---|---|
| `Names` (`module.rs`, `items.rs`, `scope.rs`, `lib.rs`, `authority.rs` of `fors-resolve`) | its second half: what an import or a name denotes, told without an order of work |
| `Patterns` (`pat.rs`, `exhaust.rs`, `facts.rs`) | values of the type, matched one by one |
| `Declarations` (`wf.rs`, `authority.rs`) | instances of impls, and what values of a type hold |
| `Authority` (`authority.rs` of `fors-check`) | accepted bodies are run from `main`, with arenas told apart by identity and objects by module |
| `Minimiser` (`reduce.rs`) | its own promise: fails, verifies, no smaller neighbour, a measure that decreases |
| `Comptime` | the evaluation of a block alone, on the inputs this build read |

A definition whose name extends or negates another's (`AnsweredOffByOne` beside `Answered`,
`GenericAlone` beside `GenericDecl`) is a faulty variant of it, the way the code could be
wrong; the mutants in `PROJECT.json` put it in place, and the property named there must then
fail.

**`QueryEngineProofs`**, **`QueryAcyclicProofs`**, **`DepArenaProofs`**, **`LanguageServerProofs`**,
**`SeedPoolProofs`**, **`NativeRunProofs`**, **`ImageWriteProofs`** and **`InterpMemoryProofs`** hold
the theorems, each beside the module it is named after. `LanguageServerProofs` also holds those about
`LineIndex` and `Lexer`, what the server does with every document; `InterpMemoryProofs` those about
`Arithmetic`, what the interpreter does with the numbers.

## Runs

| Run | What it shows |
|---|---|
| `engine_acyclic` | `RedGreenInv` and its consequence `MemoConsistent`; `FromScratch`: every node stamped with the current revision holds what a fresh database would compute; `PlannedRedIsExecuted`: a node the plan found red is not found green afterwards; `NoNeedlessWork`: early cutoff works through layers |
| `engine_cyclic` | re-entry is cut (`InFlightOnce`) and calls return (`CallReturns`) |
| `dep_arena` | `ImplementsDepSets`: the vector with re-entrant walks, appends and `compact` behaves as lists |
| `build_edits` | `RecheckEqualsCold`; `StagesSeparate` (no `unreachable!` arm of a stage is reached) |
| `language_server` | `AnswersTheTextAsked`, `DiagnosticsSettle`, `RequestsServed` |
| `seed_pool` | `AllReported`, `TallyIsSequential` (no dependence on the schedule), `Finishes` |
| `native_run` | `OkExactlyIfFaithful`: "ok" exactly for a faithful image, unless it is late; `RunReturns`: no deadlock over full pipes; `OutputWhole`, `SpawnsItsImage`, over failing steps, kills and reused pids |
| `interp_memory` | `PointersReachTheirObject`: frame indices, arena bytes and windows of slices are reused, pointers to what was there are not; `BorrowsAreExclusive` |
| `compiler` | one property per pass: `LexesTheSource`, `PositionsAgree`, `ParsesTheGrammar` and `ParserEnds`, `AcceptedBodiesOwnRight`, `RunsAsWritten` and `VerifierAccepts`, `EncodesTheInstruction`, `TypesBehave`, `EncodingsSurvive`, `NativeMeansTheSame` |
| `checker` | `NamesResolveRight`, `MatchesCover`, `MinimisedRight` and `ReductionEnds`, `DeclarationsSound`, `AuthorityHolds`, `ComptimeTransparent` |
| `two_defers`, `bare_names` | the findings below |

`CHECK_DEADLOCK FALSE` stands where the system may stop: a pass that has answered, a server
whose input ended, a run that is over, an interpreter that reported a fault.

## Bounds

*Engine.* The decisions compare two stamps, so two edits after a first evaluation already
give every order of `changed_at` and `verified_at` between a node, its dependency and the
dependency's dependency; three layers are needed for a cutoff in the middle, and the reads of
the middle node depend on a value so that edges come and go. `MaxRev` bounds the writes.
*Arena.* A node commits while another node's walk is open, and a compaction finds a dead
range before a live one: three nodes and three edges do both. *`QueryBuild`.* A caller and a
callee in different files, two structs that can store each other, three disturbances
(`MaxDisturbances`); the polls at which a recheck is cut (`CancelPoints`) are spread over the
whole of a first recheck. *`NativeRun`.* Pipes hold one line and images write two, so both
fill. *`InterpMemory`.* Two frames with two locals, one generation after the first, and
bodies that mix the kinds of instruction that interfere (`Bodies`); serials, tags, objects
and cells are bounded by the `Max` constants. *Parser.* `MAX_DEPTH`, `MAX_POSTFIX_CHAIN` and
`MAX_ATTR_SCAN` are a few instead of hundreds, so that files meet them; every sample file is
also parsed with each of its tokens deleted or replaced. *Arithmetic and backend.* Widths (`ScaledWidths`) are
to a smaller scale that keeps the relations the code relies on (a product of two halves fits,
an f64 is exact on the half width and not on the full one), so all pairs can be tried at the
ends of the ranges. *Types.* Terms of depth two over two parameters, a brand and a few heads;
solvers of budget 1, 3 and 9, asked three questions. *Names, patterns, declarations, bodies.*
Sets built to contain every kind of declaration and every reported code at least once, and
then varied in the part under test. *Comptime.* A program with two blocks and a shared
callee, against every way another program can differ from it in one respect; one edit of one
input; a write is seen in two parts, at the same place in both processes (`Split`).

`StartFromZero` and `StartsChecked` are state constraints that only restrict where
exploration starts: the first writes of the inputs go in one order, and edits begin after a
first check. They cut no behaviour after that.

## The findings

`two_defers`. `docs/spec/01-ownership.md:576` asks that every place a deferred body mentions
is live at every exit at which that body runs. `flow.rs:2069` judges each deferred body
against the state before any of them ran. With two deferred bodies on one linear local, the
second to run may use, or consume again, what the first consumed, and the body is accepted.
`AcceptedBodiesOwnRight` is the same statement over the bodies that defer a local once, and
holds.

`bare_names`. `docs/spec/09-types.md:845` asks that a bare pattern name that resolves to a struct or
to a variant with a payload is rejected, and `:853` that a component of linear type which a
sub-pattern would drop is. `check_pat_struct` (`pat.rs:694`) and `check_payload` (`pat.rs:792`)
take such a name for a pattern that leaves every field out and do not look at the fields, as
`check_field_payload` does for fields left out of braces. The match counts as consuming its
scrutinee (`flow.rs:2118`), so a linear field is lost. `ArmsBindLinearParts` says that the arms of an
accepted match bind every linear part; it is violated on bare names (`BareSamples`). The same
statement, without exemption, is part of `MatchesCover`, whose matches have every other kind of
pattern, and holds. The conformance test for bare names matches an `i32`, which
`check_scrutinee_head` rejects anyway.

## Observations

Places where reading the code for the models showed a difference between the code and a
document, comment or neighbouring code. They are not runs: either the model follows the code
and its reference was stated around them, or the part is not modelled. Paths are below
`crates/` unless they start with `docs/`.

*Incremental build.* `RecheckEqualsCold` has three exceptions in its statement, with
`ReinsertedEqualsCold`, `CommentEqualsCold` and `GrownEqualsCold` in `QueryBuild` to put in a
configuration: a declaration deleted and put back has token nodes without dependencies
(`queries/mod.rs:662`), so later edits of it are not seen; a change of trivia does not refresh
the origins of positions (`mod.rs:647`); `INFINITE_SIZE` does not depend on `FILE_SET`, so a
struct in a file added later is not reported. The CLI calls `recheck` once per process and
meets none of them.

*Comments about the engine and the server* that their models refute, each with a property
in the module to put in a configuration: `cycle.rs:9-12`, a cycle's answer is independent of
the node demanded first (`CycleOrderFree`); `docs/design/type-checker.md:1086`, byte-identical
cold or warm, for query sets with cycles (`WarmEqualsCold`); `db.rs:253-256`, `is_red` never
calls `compute` (`IsRedNeverComputes`); `fors-lsp/src/lib.rs:250-251`, a response when the
message carried an id (`ResponseWhenId`); `lib.rs:269-271`, notifications are unaffected by
shutdown (`NotificationsUnaffected`); `fors-interp`: a plain pointer into an arena survives
its reset (`StalePlainPointers` in `InterpMemory`). `FromScratch` and the other properties hold
all the same.

*Lexer, parser, names.* A backslash before a newline in a string skips the newline
(`lexer.rs:429-432`; rule 5 of `docs/spec/07-grammar.md` ends the string). `clobber(a,)` is
accepted with its comma. `binder_name` (`items.rs:331-362`) skips a leading `set`, so a
binding of that name is never declared (07-grammar.md:614). For enums `resolve_file_bodies`
walks the grandchildren of every child, attributes included (`lib.rs:318-325`).

*Lowering.* Compound assignment ignores its operator: `a += b` stores `b` (`lower_assign`;
`docs/spec/09-types.md:375`). A function body's tail value is evaluated and dropped
(`lower.rs:2523-2533, 3387-3390`; 01-ownership.md:452). Copyable aggregates are copied by
handle (01-ownership.md:110). A receiver that is a local is read after the arguments
(`lower.rs:6415-6423`; 09-types.md:379). A region is left only by falling through `with`
(`lower.rs:2972`).

*Ownership.* Assigning an inout parameter of linear type drops its old value unseen
(`flow.rs:1805`). A match on an owned linear local is credited to every later exit
(`flow.rs:2118-2122, 585-605` against the comment at 293-296).

*Patterns.* `pat.rs:3` calls `check_pat` "R50 verbatim", but besides the bare names above `.rec(...)` on
a record variant skips its sub-patterns, and `.tup{x, y}` takes its fields as wildcards.
`exhaust.rs` does not specialise by the constructors that occur when the signature is
incomplete, so its step count is not R55's (09-types.md:904-911). The witness of a column
without a literal type is shown as `0`.

*Declarations and authority.* `impl_completeness` reads `sink.poisoned()` although only `emit`
opens the sink, so after an earlier report later impls are not checked for their methods
(`wf.rs:1272`; `diag.rs:53-54`). A trait method that mentions its own generic parameter cannot
be implemented (`method_signatures` compares types whose owners differ). `conforms_shared`
answers yes below depth 16; `mentions_atomic` looks only through tuples and `Array`.
`holds(param: Copyable, Droppable)` is no where `rigid_droppable` says yes. A7 and A13
(`authority.rs:323`) see two-word paths only; a type imported directly is left to the ordinary
rules. A mnemonic in a multi-line string reads as empty, so the rule for system calls does not
see it; `AuthorityHolds` speaks of ordinary strings. The rule against sealed operations in
comptime blocks is lexical; a call that reaches one through a function is stopped by the
evaluator (`Comptime`).

*Types and encodings.* `unify` (`impls.rs:192-203`) never unifies fn, const or open dyn types.
A positive memo hit (`normalise.rs:148-152`) and an exact impl hit (247-258) record no probed
bucket. The sort key of constraints uses the declared order of bounds
(`fors-fir/src/encode.rs:594-618`). The FMIR dump puts region lines before the values they
capture, so such a dump does not reparse; blocks no branch reaches are numbered in storage
order, so the hash depends on it there. `from_bytes` reserves from an unchecked count.

*Comptime.* `memo_key` hashes bodies with the raw numbers of their types, which are places in
the program's own type store; primitive types have fixed numbers, qualified and composite ones
do not, so the key is not a function of content alone where the text at the head of
`comptime.rs` says so. A hit is not charged to the build's budget, so a warm build can succeed
where a cold one exceeds it. `fs::write` in place is sound here because a torn file does not
decode; with short writes at different places in two processes a file with a hole in the
middle could.

*Backend.* In several forms `fors-asm` does not check register 31, nor compare operand widths of
shifts and scaled offsets. `wrap_as` of a negative float to a 64-bit integer adds 2^64 in f64
(`arith.rs:990`, against 952). A hard error or a zero return of `write` is taken as done.
*Minimiser.* The value stage does not run deletion again, so its result may have a smaller
neighbour by deletion.

## Fairness

* `QueryEngine`: weak fairness of `Engine`, the steps of the call in progress. The engine is
  sequential Rust that does not block, so a call that can go on goes on. Nothing is assumed
  of the owner or of the thread with the flag.
* `LanguageServer`: the serve loop and the editor's reading. `serve` blocks only on reading and
  on writing; an editor that never reads would block it, as in the code.
* `SeedPool`: each worker, and the end of the scope. `thread::scope` joins all of them and the
  operating system schedules them; a check returns by `RunReturns` of `NativeRun`.
* `NativeRun`: the parent, each reader, the clock. Not the child: an image may stop or spin for
  ever, which is what the deadline is for.
* `MCCompiler`: the parser's steps, sequential code without blocking. `ReductionEnds` of
  `MCChecker` needs none: a measure decreases at every step.
* The others state safety alone.

## Proofs

All are checked by TLAPS for every value of the constants.

**`QueryEngineProofs`**, whatever the reads, cyclic ones included. Assumptions: finitely many keys,
inputs and derived keys disjoint, `NextRead` and `Result` return keys and values.
`NeverTwiceInFlight` (`InFlightOnce`): `pull` scans the stack before it pushes. The invariant
`StackInvariant` adds that every frame was asked for by the one below it, as was the answer in
`ret`, and that nothing is in flight between two calls.

**`QueryAcyclicProofs`**, with a rank that reads descend (`RankAssumption`). `MemoConsistent` is not
inductive: it speaks of nodes with the current revision, and a walk decides from stamps set in
older ones. `RedGreenInv` adds (1) `Stamps`: `changed_at <= verified_at <= rev`; (2) `Recorded`:
for a valid node of any age, its value is what `compute` gives on what it read, and a dependency
that has not changed since still has the value read; (3) `Frames`: a walk has established that
each dependency it has finished is settled and unchanged, an execution that each value it has
seen is current; (4) `Descending`: ranks decrease along the stack; (5) that the answer in `ret` is
the column's. (2) and (3) together are the red-green argument: when the walk ends, every recorded
value is current, so the memo is what `compute` would give now. Cancellation preserves all of it
because it pops frames and writes no column. From (4) a read never meets a node in flight:
`RecoveryUnreachable`. `PlannedAreExecuted` (`PlannedRedIsExecuted`): a node the plan recorded as
red has a dependency whose stamp is past its own, and no step takes such a stamp back, so a later
walk finds it red again; the plan's answer cannot go stale within its revision.
`IncrementalEqualsCold` (`FromScratch`): a cold build is an assignment of values, reads and
validity to the keys that satisfies every key's own equation (`ColdBuilds`), which needs no
recursion to say; `MemosAreReadings` shows the memos satisfy the same equations, and the keys on
which memo and cold build differ would have one of least rank, which its equation rules out.
That the equations have a solution, the recursive `Cold`, is an assumption of `MCQueryAcyclic`
(`ColdIsColdBuild`) that TLC evaluates for every assignment of the inputs of the instance.

**`DepArenaProofs`.** `ArenaInvariant`: every range and every walk is inside its vector (the old
or the fresh one, depending on where `compact` is), every id in it is interned.
`ArenaImplementsDepSets`: with `edges[n]` mapped to the slice of `n`'s range and each frame to a
call over what is left of its slice, each step of the arena is a step of the lists or a
stutter. The two facts that carry it: a commit only appends, so slices taken before are
unchanged; and `compact` only runs with an empty stack and copies a range before it moves the
start.

**`SeedPoolProofs`.** For any number of workers and any range. `SeedsAccounted`: a seed is held
by one worker or reported once, and everything held or reported is below the counter, which
is why a drawn seed is new. `EveryProgramReported`: a worker leaves only when the counter is
past the range, and the scope ends only when all have left. `SequentialTally` (`TallyIsSequential`):
what the sort leaves is one result per seed in the order of the seeds, each the verdict of its
program, so the fold over it passes through the tallies of the first k seeds and ends at the
one a single thread gives. The argument along the fold is an induction stated of a set of
numbers (`Least`, `Induct`) instead of a predicate, and the library's sums and folds are
unfolded as functions on sets.

**`LanguageServerProofs`**, for any documents, any texts and any interleaving of the editor and the
server; the one assumption is that `None` is no document. The properties compare what has
arrived at the editor with what it sent, so the invariant `StreamsInStep` follows both streams:
replaying the messages not yet served over the server's documents gives the editor's, and
replaying what is still to be read over what the editor was shown gives what the server
published last. `AnswersAreOfTheTextAsked` (`AnswersTheTextAsked`): a request's text is the one the
replay has at its place, and a change sent later cannot overtake it. `DiagnosticsAreSettled`
(`DiagnosticsSettle`): with both streams empty the two replays are the states themselves.

About what the server computes from a text there are two theorems of its own modules, for texts of
any length. `PositionsOfEverySource`, for any well-formed UTF-8 source: the loops of `LineIndex` are
functions of how far they have come, and what is proved of them goes by induction over the bytes.
The table of lines only grows and is strictly increasing, so the line a search finds is the one
reading counts; the UTF-16 units of a slice are a difference of the units of prefixes; and the loop of
`offset` stops at the first boundary of a character that has the column before it, never past its
line, whence both the round trip and the clamping.
`EverySourceTokenises` is `LexedRight`, all that `LexesTheSource` asks of short sources, for any bytes
up to `MAX_SOURCE_LEN`: tiling, every kind of token, the diagnostics of error tokens, invalid UTF-8 and
the order of the diagnostics. Each scanner is a recursion whose rank, the bytes that are left, falls
at every turn; `RecursionExists` shows that such a recursion has values and `RankInduct` that what
its stops have and its steps hand on, it has everywhere. Progress of each `lex_` function (`OneRight`: it ends behind where it began, with a
token that is right and reaches exactly there) makes the loop of `lex` one as well. The grammar
speaks of slices, the code of positions, so numbers and strings are first told by their places
(`FloatOfSlice`, `EscapeOfSlice`). A run of digits stops at one place only (`DigitsLongest`), hence where
the code stops after digits, fraction and exponent is the end of the longest number there is
(`RadixNumber`, `DecimalNumber`); and an escape is of the grammar exactly if the code accepts it and
goes behind it (`EscapeExact`), so a string ends where the scan ends, or there is none
(`StringExact`), which is why an error token at a quote never hides a string. The assumption
`LexerParameters` says that `_` is no keyword; TLC evaluates it in `MCCompiler`.

**`NativeRunProofs`.** One assumption on the constants, that an image ends with a code, with a
signal or never (`BehaviourAssumption`). `RunInvariant`: what a reader has taken followed by what is in its pipe is
the beginning of what the image writes there; a status other than a timeout was taken from a
child that had written everything; and records are compared only after both readers saw the
end of an empty pipe. `VerdictsAreRight` (`OkExactlyIfFaithful`) follows.

**`ImageWriteProofs`**, for any number of processes and directories, with failing steps, kills and
reused pids. `ImageInvariant` is about ownership: the directories of one life of a process differ,
no inode has two names, so a thread's write, chmod and rename reach no file of another; what
a thread has written is where it left it, and only outputs are executed. `OutputsAreWhole` (`OutputWhole`), `EveryRunSpawnsItsImage`
(`SpawnsItsImage`) and the action property `ExecutedInodesStay` follow.

**`InterpMemoryProofs`**, for any number of locals, brands and regions, any program and any bounds.
The locals of a frame are numbered from one (`RootsAssumption`), as a `Vec` of them is.
`PointersReachTheirObject` is not inductive: a pointer may be held now and resolve only after
later steps, and it may sit in any local, cell or allocation. `MemoryInvariant` therefore says
that every slot held is in the set `Good`, whose pointers are right whether they resolve or not:
one to a local names the serial of its activation, and serials strictly increase along the stack and
are never given out again, so a reused frame index is another activation; one to the heap points
into memory whose size and objects stay; a `Ref` of the current generation is below the bump, and
the bytes there belong to its object until a reset moves the generation. The proof of each
instruction is then in two parts: the step makes no good slot bad (`GoodGrows`), so copying a slot
anywhere is free, and the one slot it makes is good. `PointersReachWhatTheyWereMadeFor` follows,
with the invariant that a slice names an aggregate, never another slice, and lies in it.
`AcceptedBorrowsAreExclusive` (`BorrowsAreExclusive`): in every borrow stack the tags grow from the
bottom, only the top may be shared, and nothing in it was written past. A write cuts the stack at
its own tag, and every tag it passes is above that; a stack that goes with its frame takes its
tags along, and a pointer to that frame no longer resolves.
`IntegerOperationsRight`, about `Arithmetic`, for any widths and any two bit patterns: a pattern and the
value it means are congruent modulo 2^w, and sums, differences and products respect that, so the wrapping
answer is the pattern of the true value; a quotient leaves the type only as `MIN / -1`; the saturated
value is the nearest there is, and a trapping operation traps exactly where the true value is outside
the type. Of powers of two the prover has no theory: the two facts used about them are the
assumption `WidthsAreBits`, true of 8, 16, 32 and 64, which TLC evaluates at the widths of the
instance (`WidthsAssumption` of `MCCompiler`). Shifts and floats are left to TLC.

Only model-checked: liveness (`CallReturns`, `RequestsServed`, `Finishes`, `RunReturns`,
`ParserEnds`), which needs fairness; `NoNeedlessWork`, whose history of what a cold build gave in
each revision is recursive; `RecheckEqualsCold` and `StagesSeparate`, since `QueryBuild` walks the
graph of stages by a recursive operator; and the passes over trees and terms. Induction itself can be
had, stated of a set, for a loop or a scanner that is a recursive function over positions, which is
how the tally, the line table and the lexer are done; the other passes are recursive operators over
trees, terms and programs, which the prover cannot unfold. `LexesTheSource`, `PositionsAgree` and
`NativeMeansTheSame` are stated in `MCCompiler`, beside recursive passes, so the theorems name their
parts, from `Lexer`, `LineIndex` and `Arithmetic`.

## Not modelled

* In `QueryBuild`: impls and the nodes of the impl world, generics, `LOOSE_DIAGS`, and how a
  pass finds its diagnostics (`Declarations` shows that an impl's verdict depends only on the
  buckets it asked). Hashes do not collide.
* In `QueryEngine`: the window of executed keys and `Stats`, which nothing decides from. In
  `DepArena`: the width of a range's start (`u32`).
* In `LanguageServer`: JSON, and what a query computes from its text. In `NativeRun` and
  `SeedPool`: timings. In `ImageWrite`: the image's format.
* In `Lowering` and `Exec`: generics, closures, capabilities, tiles, `spawn`, `with` regions and
  match lowering. In `FlowCheck`: places deeper than a field, matches, and types that are not
  linear. In `FmirVerify`: rows that the modelled bodies do not have.
* In `NativeCode`: declarations with branches or calls, which the backend of this commit
  refuses.
* Signature lowering, expression typing, call inference and method lookup of `fors-check`: the
  judgements they ask are modelled, the walk that asks them is not.
* Layout, object formats, the formatter, diagnostics rendering, the host and its replay, the
  generator and the command line: pure formats and I/O. The reason for each is in
  `PROJECT.json`.
* In every module: the wording and layout of diagnostics. A diagnostic is its code and place.

## Plan

1. Call inference (`call.rs`) as a machine that takes the arguments in order, against
   "some assignment of the callee's parameters makes the call well typed, and no other does".
2. `QueryBuild`: the impl world (`IMPL_HEADS`, `IMPLS_FOR`, `OVERLAP_CHECK`) on top of what
   `Declarations` knows of buckets.
3. Match lowering in `Lowering`, from the rows `Patterns` leaves.
4. Record and replay of host answers in the interpreter.
5. Proofs: the transparency of the memo, with the evaluation as a constant operator of the
   key.
