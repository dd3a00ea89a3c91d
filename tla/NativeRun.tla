----------------------------- MODULE NativeRun -----------------------------
(***************************************************************************)
(* One program through both engines (crates/fors-oracle, native.rs:        *)
(* Runner::run; native_diff.rs: check_with, compare).  The interpreter     *)
(* runs first, then the image is compiled, written and spawned; two threads *)
(* drain its pipes while the parent polls with a deadline, kills a late    *)
(* child, joins the readers, and compares the records.                     *)
(*                                                                         *)
(* Actors: the parent, the child, the reader of stdout, the reader of      *)
(* stderr, the clock.  A stream is a sequence of lines; a pipe holds at    *)
(* most PipeCap of them, and a child writing to a full pipe blocks.  The   *)
(* operating system is modelled from how the code uses it.                 *)
(***************************************************************************)
EXTENDS Integers, Sequences

CONSTANTS
    Records,        \* what the interpreter may record: [exit, stdout, stderr]
    Behaviours,     \* what the image may do: [exit, stdout, stderr]
    PipeCap,        \* lines a pipe holds
    Deadline        \* ticks of TIMEOUT

ASSUME CapAssumption == PipeCap \in Nat \ {0} /\ Deadline \in Nat

\* An image ends with a code or a signal, or "spins".  A trap is an end the
\* interpreter alone knows, and a timeout is the parent's word.
Behaviour == [exit : STRING \ {"none", "timeout", "trap"}, stdout : Seq(STRING), stderr : Seq(STRING)]
ASSUME BehaviourAssumption == Behaviours \subseteq Behaviour

VARIABLES
    interp,     \* the interpreter's record
    prog,       \* what the image does; exit "spins" never ends
    pc,         \* the parent
    child,      \* "none", "running", "exited", "killed", "reaped"
    wrote,      \* stream -> lines the child has written
    pipe,       \* stream -> lines in the pipe
    read,       \* stream -> lines its reader holds
    eof,        \* stream -> has its reader seen the end and returned?
    clock,      \* ticks since the start of the wait
    status,     \* what the wait loop broke with
    verdict     \* what check_with returns

vars == <<interp, prog, pc, child, wrote, pipe, read, eof, clock, status, verdict>>
os == <<child, wrote, pipe, read, eof>>

Streams == {"stdout", "stderr"}

Init ==
    /\ interp \in Records
    /\ prog \in Behaviours
    /\ pc = "interp"
    /\ child = "none"
    /\ wrote = [s \in Streams |-> 0]
    /\ pipe = [s \in Streams |-> <<>>]
    /\ read = [s \in Streams |-> <<>>]
    /\ eof = [s \in Streams |-> FALSE]
    /\ clock = 0
    /\ status = "none"
    /\ verdict = "none"

Return(v) == pc' = "returned" /\ verdict' = v

-----------------------------------------------------------------------------
(***************************************************************************)
(* The parent                                                              *)
(***************************************************************************)

\* run_candidate: a refusal and a caught panic are the oracle's failures.
Interpret ==
    /\ pc = "interp"
    /\ \/ pc' = "compile" /\ UNCHANGED verdict
       \/ Return("oracle-fail")
    /\ UNCHANGED <<interp, prog, os, clock, status>>

\* compile: an image, a refusal by name, or a backend panic, caught.
Compile ==
    /\ pc = "compile"
    /\ \/ pc' = "spawn" /\ UNCHANGED verdict
       \/ Return("refused")
       \/ Return("compile-panic")
    /\ UNCHANGED <<interp, prog, os, clock, status>>

\* write_executable and spawn; an error of either is the same verdict.  From
\* here the child and the two reader threads run.
Spawn ==
    /\ pc = "spawn"
    /\ \/ pc' = "poll" /\ child' = "running" /\ UNCHANGED verdict
       \/ Return("spawn-fail") /\ UNCHANGED child
    /\ UNCHANGED <<interp, prog, wrote, pipe, read, eof, clock, status>>

\* child.try_wait(), Ok(Some(s)): the child has ended by itself.
PollEnded ==
    /\ pc = "poll" /\ child = "exited"
    /\ child' = "reaped"
    /\ status' = prog.exit
    /\ pc' = "join"
    /\ UNCHANGED <<interp, prog, wrote, pipe, read, eof, clock, verdict>>

\* Ok(None): the deadline is looked at after the child was.
PollRunning ==
    /\ pc = "poll" /\ child = "running"
    /\ pc' = "elapsed"
    /\ UNCHANGED <<interp, prog, os, clock, status, verdict>>

\* Err(e): an early return that leaves the child and the readers to themselves.
PollError ==
    /\ pc = "poll"
    /\ Return("spawn-fail")
    /\ UNCHANGED <<interp, prog, os, clock, status>>

\* start.elapsed() >= TIMEOUT, or a nap and another poll.
Elapsed ==
    /\ pc = "elapsed"
    /\ pc' = IF clock >= Deadline THEN "kill" ELSE "poll"
    /\ UNCHANGED <<interp, prog, os, clock, status, verdict>>

\* Faulty variant: no kill, only the wait.
KillNot ==
    /\ pc = "kill"
    /\ pc' = "wait"
    /\ UNCHANGED <<interp, prog, os, clock, status, verdict>>

\* child.kill(): the child may have ended since the poll; that is no error.
Kill ==
    /\ pc = "kill"
    /\ child' = IF child = "running" THEN "killed" ELSE child
    /\ pc' = "wait"
    /\ UNCHANGED <<interp, prog, wrote, pipe, read, eof, clock, status, verdict>>

\* child.wait() blocks until the child has ended; its answer is dropped.
Wait ==
    /\ pc = "wait" /\ child \in {"exited", "killed"}
    /\ child' = "reaped"
    /\ status' = "timeout"
    /\ pc' = "join"
    /\ UNCHANGED <<interp, prog, wrote, pipe, read, eof, clock, verdict>>

\* out_t.join(), err_t.join()
Join ==
    /\ pc = "join" /\ \A s \in Streams : eof[s]
    /\ pc' = "compare"
    /\ UNCHANGED <<interp, prog, os, clock, status, verdict>>

\* without_trap_line: the last line of a trapping run is the interpreter's own.
WithoutTrapLine(lines) ==
    IF lines # <<>> /\ lines[Len(lines)] = "trap:" THEN SubSeq(lines, 1, Len(lines) - 1) ELSE lines

\* Faulty variant: a trap and any other end are told apart by nothing.
CompareAnyTrap(i, n) ==
    LET want == IF i.exit = "trap" THEN WithoutTrapLine(i.stderr) ELSE i.stderr IN
    CASE i.exit = "ub" -> "oracle-fail"
      [] i.exit # "ub" /\ n.exit = "timeout" -> "timeout"
      [] OTHER -> IF i.exit # "trap" /\ i.exit # n.exit THEN "mismatch"
                  ELSE IF i.stdout # n.stdout \/ want # n.stderr THEN "mismatch" ELSE "ok"

\* compare, its arms in order.
Compare(i, n) ==
    LET sameExit == \/ i.exit = "trap" /\ n.exit = "sigtrap"
                    \/ i.exit = n.exit
        signalled == n.exit \in {"sigtrap", "signal"}
        want == IF i.exit = "trap" THEN WithoutTrapLine(i.stderr) ELSE i.stderr
    IN CASE i.exit = "ub" -> "oracle-fail"
         [] i.exit # "ub" /\ n.exit = "timeout" -> "timeout"
         [] i.exit # "ub" /\ signalled /\ ~sameExit -> "signal"
         [] OTHER -> IF sameExit /\ i.stdout = n.stdout /\ want = n.stderr THEN "ok" ELSE "mismatch"

CompareRecords ==
    /\ pc = "compare"
    /\ Return(Compare(interp, [exit |-> status, stdout |-> read["stdout"], stderr |-> read["stderr"]]))
    /\ UNCHANGED <<interp, prog, os, clock, status>>

-----------------------------------------------------------------------------
(***************************************************************************)
(* The child, the readers and the clock                                    *)
(***************************************************************************)

\* The image writes a line; a full pipe blocks it.
ChildWrite(s) ==
    /\ child = "running"
    /\ wrote[s] < Len(prog[s]) /\ Len(pipe[s]) < PipeCap
    /\ wrote' = [wrote EXCEPT ![s] = @ + 1]
    /\ pipe' = [pipe EXCEPT ![s] = Append(@, prog[s][wrote[s] + 1])]
    /\ UNCHANGED <<interp, prog, pc, child, read, eof, clock, status, verdict>>

\* The image ends once it has written everything, unless it spins.
ChildEnds ==
    /\ child = "running" /\ prog.exit # "spins"
    /\ \A s \in Streams : wrote[s] = Len(prog[s])
    /\ child' = "exited"
    /\ UNCHANGED <<interp, prog, pc, wrote, pipe, read, eof, clock, status, verdict>>

\* read_to_end of one reader thread.
ReadLine(s) ==
    /\ child # "none" /\ ~eof[s] /\ pipe[s] # <<>>
    /\ read' = [read EXCEPT ![s] = Append(@, Head(pipe[s]))]
    /\ pipe' = [pipe EXCEPT ![s] = Tail(@)]
    /\ UNCHANGED <<interp, prog, pc, child, wrote, eof, clock, status, verdict>>

\* The write end closes with the child; the thread returns its buffer.
ReadEnd(s) ==
    /\ child \in {"exited", "killed", "reaped"} /\ ~eof[s] /\ pipe[s] = <<>>
    /\ eof' = [eof EXCEPT ![s] = TRUE]
    /\ UNCHANGED <<interp, prog, pc, child, wrote, pipe, read, clock, status, verdict>>

\* Time passes at any moment of the wait.
Tick ==
    /\ pc \in {"poll", "elapsed"} /\ clock < Deadline
    /\ clock' = clock + 1
    /\ UNCHANGED <<interp, prog, pc, os, status, verdict>>

-----------------------------------------------------------------------------
Parent == \/ Interpret \/ Compile \/ Spawn \/ PollEnded \/ PollRunning \/ PollError \/ Elapsed
          \/ Kill \/ Wait \/ Join \/ CompareRecords
Child == ChildEnds \/ \E s \in Streams : ChildWrite(s)
Reader(s) == ReadLine(s) \/ ReadEnd(s)
Next == Parent \/ Child \/ Tick \/ \E s \in Streams : Reader(s)

\* The threads of this program run and time passes; nothing is asked of the
\* child, which may be slow, blocked or endless.
Fairness == WF_vars(Parent) /\ WF_vars(Tick) /\ \A s \in Streams : WF_vars(Reader(s))

Spec == Init /\ [][Next]_vars /\ Fairness

-----------------------------------------------------------------------------
(***************************************************************************)
(* Properties                                                              *)
(***************************************************************************)
Verdicts == {"ok", "mismatch", "refused", "compile-panic", "spawn-fail", "signal", "timeout", "oracle-fail"}

\* What the image does is what the interpreter recorded, the interpreter's
\* own trap line aside.
Faithful ==
    /\ prog.exit = IF interp.exit = "trap" THEN "sigtrap" ELSE interp.exit
    /\ prog.stdout = interp.stdout
    /\ prog.stderr = IF interp.exit = "trap" THEN WithoutTrapLine(interp.stderr) ELSE interp.stderr

\* An "ok" is never given to an image that does something else, however the
\* deadline, the exit and the readers raced; and once a record is compared a
\* faithful image is "ok" or late, never a mismatch and never a signal: no
\* output is lost to an early join, and the parent's own kill is not taken
\* for the program's death (compare on a complete record).
OkExactlyIfFaithful ==
    /\ verdict = "ok" => Faithful
    /\ (Faithful /\ interp.exit # "ub" /\ status # "none" /\ pc = "returned" /\ verdict # "spawn-fail") =>
           \/ verdict = "ok"
           \/ verdict = "timeout" /\ clock = Deadline

\* Every check returns a verdict, even when the image never ends or fills
\* both pipes ("a 10 s timeout").
RunReturns == <>(pc = "returned" /\ verdict \in Verdicts)

-----------------------------------------------------------------------------
(* Records and images: a clean run, one that fails with output on both     *)
(* streams, a trap, a program that prints a trap line of its own and ends  *)
(* well, and undefined behaviour; an image for each of the clean ones,     *)
(* images that end otherwise or write less, and one that fills both pipes  *)
(* and never ends.                                                         *)

R(e, out, err) == [exit |-> e, stdout |-> out, stderr |-> err]

MCRecords == {
    R("0", <<"a">>, <<>>),
    R("1", <<"a", "b">>, <<"x", "y">>),
    R("trap", <<"a">>, <<"x", "trap:">>),
    R("0", <<>>, <<"x", "trap:">>),
    R("ub", <<>>, <<>>)}

MCBehaviours == {
    R("0", <<"a">>, <<>>),
    R("1", <<"a", "b">>, <<"x", "y">>),
    R("sigtrap", <<"a">>, <<"x">>),
    R("0", <<>>, <<"x", "trap:">>),
    R("0", <<>>, <<"x">>),
    R("signal", <<"a">>, <<"x">>),
    R("spins", <<"a", "b">>, <<"x", "y">>)}

=============================================================================
