------------------------------ MODULE Comptime ------------------------------
(***************************************************************************)
(* Comptime blocks in a build: the evaluation of one block under its step, *)
(* byte and build budgets, the content-addressed memo, and builds of two   *)
(* processes that share a memo directory while input files are edited,     *)
(* writes fail and processes are killed (comptime.rs, budget.rs, the       *)
(* comptime mode of exec.rs, run_comptime of build.rs).                    *)
(*                                                                         *)
(* A function is a sequence of instructions over one register that holds   *)
(* bytes; strings and intrinsics are named by number and found in the      *)
(* function's side tables, as in FMIR.  A hash is what it is a hash of.    *)
(***************************************************************************)
EXTENDS Integers, Sequences, FiniteSets, SequencesExt, TLC

CONSTANT MAX_FRAMES     \* the deepest stack of calls the interpreter takes

-----------------------------------------------------------------------------
(* Budgets.                                                                *)

\* Meter::step on a machine; `left` is what the whole build has left.
StepEnd(env, n) ==
    IF n > env.left /\ env.left < env.limits.step THEN "build" ELSE IF n > env.limits.step THEN "steps" ELSE ""
Charged(env, m) == [m EXCEPT !.steps = @ + 1, !.end = StepEnd(env, m.steps + 1)]

\* Meter::bytes, and the value that was allocated.
Allocated(env, m, bytes) ==
    [m EXCEPT !.bytes = @ + Len(bytes), !.val = bytes,
              !.end = IF m.bytes + Len(bytes) > env.limits.alloc THEN "bytes" ELSE ""]

Remaining(limit, steps) == IF limit > steps THEN limit - steps ELSE 0

\* The first of the declarations charged most.
MostExpensive(per) ==
    {i \in DOMAIN per : /\ \A j \in DOMAIN per : per[j] <= per[i]
                        /\ \A j \in 1..(i - 1) : per[j] < per[i]}

-----------------------------------------------------------------------------
(* The machine in comptime mode.  An ended machine says why: "return", the *)
(* name of the budget, or of the fault.                                    *)

Find(p, key) == {i \in DOMAIN p.fns : p.fns[i].key = key /\ \A j \in 1..(i - 1) : p.fns[j].key # key}

Define(m, v) == [m EXCEPT !.val = v]
Fault(m, why) == [m EXCEPT !.end = why]

\* call, and what CallDirect does when the key has no body.
Call(m, targets) == [m EXCEPT !.stack = Append(@, [f |-> CHOOSE i \in targets : TRUE, pc |-> 1])]
CallDirect(p, m, key, targets) ==
    IF targets = {} THEN Fault(m, IF key \in p.externs THEN "sealed" ELSE "interp")
    ELSE IF Len(m.stack) >= MAX_FRAMES THEN Fault(m, "interp")
    ELSE Call(m, targets)

\* The read of a declared input: its path is the register.
InputRead(env, m) ==
    IF m.val \notin DOMAIN env.inputs THEN Fault(m, "undeclared")
    ELSE Allocated(env, [m EXCEPT !.read = IF \E i \in DOMAIN @ : @[i] = m.val THEN @ ELSE Append(@, m.val)],
                   env.inputs[m.val])

\* gate_intrinsic and the intrinsic; an address is made up, and remembered as
\* observed.
Intrinsic(env, m, name) ==
    CASE name = "input_read" -> InputRead(env, m)
      [] name = "address" -> [m EXCEPT !.val = <<77>>, !.seen = TRUE]
      [] name = "clock" -> Fault(m, "forbidden")
      [] OTHER -> Fault(m, "interp")

Exec(p, env, m, fn, ins) ==
    CASE ins[1] = "int" -> Define(m, <<ins[2]>>)
      [] ins[1] = "size" -> Define(m, <<p.target>>)
      [] ins[1] = "str" -> Allocated(env, m, fn.strings[ins[2]])
      [] ins[1] = "intrinsic" -> Intrinsic(env, m, fn.names[ins[2]])
      [] ins[1] = "call" -> CallDirect(p, m, ins[2], Find(p, ins[2]))
      [] ins[1] = "unless" -> IF m.val = <<ins[2]>> THEN [m EXCEPT !.stack[Len(m.stack)].pc = @ + 1] ELSE m
      [] ins[1] = "stop" -> Fault(m, "interp")

\* One step of drive: the instruction, or the return, costs one step before it
\* is done.
Stepped(p, env, m, top, at) ==
    IF m.end # "" THEN m
    ELSE IF at.pc <= Len(p.fns[at.f].body)
    THEN Exec(p, env, [m EXCEPT !.stack[top].pc = at.pc + 1], p.fns[at.f], p.fns[at.f].body[at.pc])
    ELSE [m EXCEPT !.stack = Front(@), !.end = IF top = 1 THEN "return" ELSE ""]
StepFrame(p, env, m) == Stepped(p, env, Charged(env, m), Len(m.stack), Last(m.stack))

RECURSIVE Drive(_, _, _)
Drive(p, env, m) == IF m.end # "" THEN m ELSE Drive(p, env, StepFrame(p, env, m))

\* encode_result: an aggregate has no encoding.
EncodeResult(ret, v) == [ty |-> ret, bytes |-> IF ret = "unit" THEN <<>> ELSE v]

\* ComptimeError::code.
Code(end) ==
    CASE end = "forbidden" -> "A12"
      [] end = "undeclared" -> "A13"
      [] end \in {"build", "steps", "bytes"} -> "A14"
      [] end = "sealed" -> "A2"
      [] OTHER -> "A11"

\* evaluate, but for the build meter: what one evaluation gives.
Start(entry, why) ==
    [stack |-> <<[f |-> entry, pc |-> 1]>>, val |-> <<>>, steps |-> 0, bytes |-> 0, seen |-> FALSE, read |-> <<>>, end |-> why]
Outcome(ret, inputs, m, ok) ==
    [ok |-> ok, why |-> IF ok THEN "" ELSE m.end, code |-> IF ok THEN "" ELSE Code(m.end),
     value |-> IF ok THEN EncodeResult(ret, m.val) ELSE EncodeResult("unit", <<>>),
     steps |-> m.steps, bytes |-> m.bytes, seen |-> ok /\ m.seen,
     read |-> IF ok THEN [i \in DOMAIN m.read |-> <<m.read[i], inputs[m.read[i]]>>] ELSE <<>>]
Ended(ret, inputs, m) == Outcome(ret, inputs, m, m.end = "return" /\ ret # "agg")
Evaluation(p, entry, env) ==
    Ended(p.fns[entry].ret, env.inputs, Drive(p, env, Start(entry, IF env.left = 0 THEN "build" ELSE "")))

-----------------------------------------------------------------------------
(* The memo.                                                               *)

\* The keys a function calls, in the order of its call rows.
Calls(fn) == LET is == SelectSeq(fn.body, LAMBDA i : i[1] = "call") IN [i \in DOMAIN is |-> is[i][2]]

\* reach: breadth first over the direct calls; keys without a body are skipped.
Reached(order, targets) == IF targets \subseteq ToSet(order) THEN order ELSE order \o SetToSeq(targets)
RECURSIVE Reach(_, _, _)
Reach(p, order, i) ==
    IF i > Len(order) THEN order
    ELSE Reach(p, FoldLeft(LAMBDA o, key : Reached(o, Find(p, key)), order, Calls(p.fns[order[i]])), i + 1)

\* memo_key: the target, every function reached with its side tables, every
\* declared input with its content, and the budgets of one evaluation.
KeyOf(p, inputs, fns) ==
    [target |-> p.target, inputs |-> inputs, step |-> p.limits.step, alloc |-> p.limits.alloc, fns |-> fns]
Bodies(p, order) == [i \in DOMAIN order |-> <<p.fns[order[i]].body, p.fns[order[i]].ret>>]
Tables(p, order) ==
    [i \in DOMAIN order |-> <<p.fns[order[i]].body, p.fns[order[i]].ret, p.fns[order[i]].strings, p.fns[order[i]].names>>]
KeyWithoutTables(p, entry, inputs) == KeyOf(p, inputs, Bodies(p, Reach(p, <<entry>>, 1)))
MemoKey(p, entry, inputs) == KeyOf(p, inputs, Tables(p, Reach(p, <<entry>>, 1)))

\* MemoEntry::new and to_bytes, field by field; zero stands for bytes nobody
\* wrote before a later part was.
Zero == [f |-> "zero", x |-> 0]
ToBytes(key, ev) ==
    << [f |-> "magic", x |-> 0], [f |-> "key", x |-> key], [f |-> "value", x |-> ev.value],
       [f |-> "steps", x |-> ev.steps], [f |-> "bytes", x |-> ev.bytes],
       [f |-> "seen", x |-> ev.seen], [f |-> "read", x |-> ev.read] >>
Fields == <<"magic", "key", "value", "steps", "bytes", "seen", "read">>

\* from_bytes: every field in its place, nothing cut off, nothing after it.
FromBytes(file) == Len(file) = Len(Fields) /\ \A i \in DOMAIN Fields : file[i].f = Fields[i]
EntryOf(file) ==
    [ok |-> TRUE, why |-> "", code |-> "", value |-> file[3].x, steps |-> file[4].x,
     bytes |-> file[5].x, seen |-> file[6].x, read |-> file[7].x]

-----------------------------------------------------------------------------
(* Builds.  The world has the input files, the memo directory, how many    *)
(* edits are still to come and the processes.                              *)

Process == [pc |-> "inputs", at |-> 1, cache |-> <<>>, memo |-> <<>>, steps |-> 0, per |-> <<>>,
            answers |-> <<>>, key |-> <<>>, bytes |-> <<>>]
World(files, edits) == [files |-> files, dir |-> <<>>, edits |-> edits, procs |-> <<Process, Process>>]

Thunk(p, s) == p.thunks[s.at]
Building(p, s) == s.at <= Len(p.thunks) /\ s.pc # "killed"
Put(f, k, v) == (k :> v) @@ f

Unread(inputs, cache) == {i \in DOMAIN inputs : inputs[i] \notin DOMAIN cache}

\* The next declared input that this build has not read before.
ReadPath(w, s, path) == [s EXCEPT !.cache = Put(@, path, w.files[path])]
ReadInput(w, s, inputs, unread) == ReadPath(w, s, inputs[CHOOSE i \in unread : \A j \in unread : i <= j])

Next1(s) == [s EXCEPT !.at = @ + 1, !.pc = "inputs", !.key = <<>>, !.bytes = <<>>]
Answered(s, a) == [s EXCEPT !.answers = Append(@, a)]

\* What a block gives when it is the whole build and there is no memo.
Cold(p, entry, inputs) == Evaluation(p, entry, [limits |-> p.limits, left |-> p.limits.step, inputs |-> inputs])

\* memo.insert of the file's entry, if there is one for this very key.
FromDirectory(w, memo, key) ==
    IF key \in DOMAIN w.dir /\ FromBytes(w.dir[key]) /\ w.dir[key][2].x = key /\ key \notin DOMAIN memo
    THEN Put(memo, key, EntryOf(w.dir[key])) ELSE memo

\* evaluate_memoized: a hit costs the build nothing; what was evaluated is
\* charged, and remembered and written if it is a value.
Answer(ev, cold, key, inputs, left, hit, who) ==
    [kind |-> IF ev.ok THEN "value" ELSE "error", hit |-> hit, got |-> ev, cold |-> cold,
     key |-> key, inputs |-> inputs, left |-> left, who |-> who]
Hit(s, memo, key, inputs, left, cold) ==
    Next1(Answered([s EXCEPT !.memo = memo], Answer(memo[key], cold, key, inputs, left, TRUE, {})))
Kept(s, memo, key, ev) ==
    IF ev.ok THEN [s EXCEPT !.memo = Put(memo, key, ev), !.pc = "open", !.key = key, !.bytes = ToBytes(key, ev)]
    ELSE Next1([s EXCEPT !.memo = memo])
Missed(s, memo, key, inputs, left, cold, ev, per) ==
    Kept(Answered([s EXCEPT !.steps = @ + ev.steps, !.per = per],
                  Answer(ev, cold, key, inputs, left, FALSE, IF ev.why = "build" THEN MostExpensive(per) ELSE {})),
         memo, key, ev)
Evaluate(s, memo, key, inputs, left, cold, ev) ==
    Missed(s, memo, key, inputs, left, cold, ev, IF left = 0 THEN s.per ELSE Append(s.per, ev.steps))
EvaluateMemoized(p, s, entry, memo, key, inputs, left, cold) ==
    IF key \in DOMAIN memo THEN Hit(s, memo, key, inputs, left, cold)
    ELSE Evaluate(s, memo, key, inputs, left, cold, Evaluation(p, entry, [limits |-> p.limits, left |-> left, inputs |-> inputs]))
Evaluated(p, w, s, entry, key, inputs) ==
    EvaluateMemoized(p, s, entry, FromDirectory(w, s.memo, key), key, inputs, Remaining(p.limits.build, s.steps),
                     Cold(p, entry, inputs))

\* The rest of the loop's body once the inputs are read: one that cannot be
\* read, or a block that was not lowered, is an error of the build.
Skipped(s, inputs) == Next1(Answered(s, [kind |-> "skipped", inputs |-> inputs]))
Judge(p, w, s, entry, inputs) ==
    IF \E x \in DOMAIN inputs : inputs[x] = <<>> THEN Skipped(s, inputs)
    ELSE Evaluated(p, w, s, entry, MemoKey(p, entry, inputs), inputs)
InputsDone(p, w, s, t, unread) ==
    IF t.error THEN Skipped(s, <<>>)
    ELSE IF unread # {} THEN ReadInput(w, s, t.inputs, unread)
    ELSE Judge(p, w, s, t.entry, [x \in ToSet(t.inputs) |-> s.cache[x]])

\* fs::write: create and truncate, then the bytes, which others may see in two
\* parts, each at its own place in the file.
Split == 3
Truncated(w, s) == [w EXCEPT !.dir = Put(w.dir, s.key, <<>>)]
FirstPart(w, s) ==
    [w EXCEPT !.dir[s.key] = [i \in 1..(IF Len(@) > Split THEN Len(@) ELSE Split) |-> IF i <= Split THEN s.bytes[i] ELSE @[i]]]
LastPart(w, s) ==
    [w EXCEPT !.dir[s.key] = [i \in 1..Len(s.bytes) |-> IF i > Split THEN s.bytes[i] ELSE IF i <= Len(@) THEN @[i] ELSE Zero]]

\* One step of process i.
Advance(p, w, s, i) ==
    CASE s.pc = "inputs" -> [w EXCEPT !.procs[i] = InputsDone(p, w, s, Thunk(p, s), Unread(Thunk(p, s).inputs, s.cache))]
      [] s.pc = "open" -> [Truncated(w, s) EXCEPT !.procs[i].pc = "first"]
      [] s.pc = "first" -> [FirstPart(w, s) EXCEPT !.procs[i].pc = "last"]
      [] s.pc = "last" -> [LastPart(w, s) EXCEPT !.procs[i] = Next1(s)]
Step(in, w, i) ==
    IF Building(in.progs[i], w.procs[i]) THEN {Advance(in.progs[i], w, w.procs[i], i)} ELSE {}

\* The write fails and the build goes on with an error; the process is killed.
Writing(in, w, i) == Building(in.progs[i], w.procs[i]) /\ w.procs[i].pc \in {"open", "first", "last"}
WriteFails(in, w, i) == IF Writing(in, w, i) THEN {[w EXCEPT !.procs[i] = Next1(w.procs[i])]} ELSE {}
Killed(in, w, i) == IF Writing(in, w, i) THEN {[w EXCEPT !.procs[i].pc = "killed"]} ELSE {}

\* Somebody edits an input file, or takes it away.
Edited(in, w) ==
    IF w.edits = 0 THEN {}
    ELSE {[w EXCEPT !.files[x] = c, !.edits = @ - 1] : x \in in.edited, c \in in.contents}

-----------------------------------------------------------------------------
(* What it is for.                                                         *)

\* A value that was answered, from whatever memo, is what the block gives when
\* it is evaluated alone on the inputs this build read; an error is that
\* block's own, or the build had less left than the block takes.
AnswerRight(p, a) ==
    /\ a.kind = "value" => a.cold.ok /\ a.got = a.cold
    /\ a.kind = "error" => ~a.hit /\ (a.got = a.cold \/ (a.got.why = "build" /\ a.left < p.limits.step /\ a.cold.steps > a.left))
    /\ a.kind = "value" => \A r \in ToSet(a.got.read) : r[1] \in DOMAIN a.inputs /\ a.inputs[r[1]] = r[2]

\* A path has one content in a build, whatever happens to the file, and the
\* build's budget is overrun by no more than the step that finds out.
BuildRight(p, s) ==
    /\ \A a, b \in ToSet(s.answers) : \A x \in DOMAIN a.inputs \cap DOMAIN b.inputs : a.inputs[x] = b.inputs[x]
    /\ s.steps <= p.limits.build + 1
    /\ \A a \in ToSet(s.answers) : a.kind = "error" /\ a.got.why = "build" => Cardinality(a.who) = 1

\* And a file that decodes is the entry of its key.
ComptimeRight(in, w) ==
    /\ \A i \in 1..2 : BuildRight(in.progs[i], w.procs[i]) /\ \A a \in ToSet(w.procs[i].answers) : AnswerRight(in.progs[i], a)
    /\ \A k \in DOMAIN w.dir : FromBytes(w.dir[k]) =>
           \A i \in 1..2 : \A a \in ToSet(w.procs[i].answers) :
               a.kind = "value" => (a.key = k => a.got = EntryOf(w.dir[k]))

-----------------------------------------------------------------------------
(* Samples: a program and the ways another can differ from it.             *)

Fn(key, body, ret) == [key |-> key, body |-> body, ret |-> ret, strings |-> <<<<1>>, <<2>>>>, names |-> <<"input_read", "address", "clock">>]
Prog(bodies, thunks) == [fns |-> bodies, thunks |-> thunks, externs |-> {9}, target |-> 8, limits |-> [step |-> 9, alloc |-> 4, build |-> 14]]
T(entry, inputs) == [entry |-> entry, inputs |-> inputs, error |-> FALSE]

\* A block that reads the file <<1>> in a function it calls, and one that reads
\* <<1>> and, unless it holds 5, <<2>>.
Helper == Fn(3, << <<"str", 1>>, <<"intrinsic", 1>> >>, "str")
Base == Prog(<< Fn(1, << <<"call", 3>> >>, "str"),
                Fn(2, << <<"call", 3>>, <<"unless", 5>>, <<"str", 2>>, <<"intrinsic", 1>> >>, "str"),
                Helper, Fn(4, << <<"int", 0>> >>, "int") >>,
             << T(1, <<<<1>>>>), T(2, <<<<1>>, <<2>>>>) >>)
With(i, fn) == [Base EXCEPT !.fns[i] = fn]
Variants ==
    { Base,
      [Base EXCEPT !.fns[3].strings[1] = <<2>>],                       \* another path in the callee's table
      [Base EXCEPT !.fns[3].names[1] = "address"],                     \* another intrinsic behind the number
      [Base EXCEPT !.fns[3].names[1] = "clock"],
      [Base EXCEPT !.fns[4].body = << <<"int", 1>> >>],                \* an unrelated declaration
      [Base EXCEPT !.limits.step = 4], [Base EXCEPT !.limits.alloc = 2], [Base EXCEPT !.limits.build = 5],
      [Base EXCEPT !.limits.build = 6], [Base EXCEPT !.limits.build = 4],
      [Base EXCEPT !.thunks[2].inputs = <<<<1>>>>],                    \* an input no longer declared
      [Base EXCEPT !.thunks = Reverse(@)],
      [Base EXCEPT !.thunks[1].error = TRUE],
      With(1, Fn(1, << <<"call", 1>> >>, "unit")),                     \* calls without end
      [With(1, Fn(1, << <<"call", 9>> >>, "unit")) EXCEPT !.thunks[2] = T(1, <<<<1>>>>)],  \* an extern, twice
      With(1, Fn(1, << <<"int", 3>>, <<"call", 8>> >>, "unit")),
      With(1, Fn(1, << <<"stop", 0>> >>, "unit")),
      With(1, Fn(1, << <<"int", 3>> >>, "agg")) }
Sized == [With(1, Fn(1, << <<"size", 0>> >>, "int")) EXCEPT !.thunks = <<T(1, <<>>), T(1, <<>>)>>]

Contents == {<<>>, <<5>>, <<6, 6>>}
Pairs == ({Base} \X Variants) \cup ({Sized} \X {[Sized EXCEPT !.target = 4], [Sized EXCEPT !.fns[1].ret = "unit"]})
Builds == {[progs |-> ps, edited |-> {<<1>>}, contents |-> Contents] : ps \in Pairs}
Files == {(<<1>> :> <<5>>) @@ (<<2>> :> <<7>>), (<<1>> :> <<6, 6>>) @@ (<<2>> :> <<7>>)}

=============================================================================
