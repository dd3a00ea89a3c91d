------------------------------ MODULE SeedPool ------------------------------
(***************************************************************************)
(* The worker pool of the native differential (crates/fors-oracle,         *)
(* native_diff.rs: run_seeds, Tally).  As many threads as the machine has  *)
(* draw seeds from one shared atomic counter, generate and check a program *)
(* per seed, and push the result under one mutex; when all of them have    *)
(* gone, the results are sorted by seed and folded into the tally.         *)
(*                                                                         *)
(* Generating is a function of the seed, so prog is chosen once: its FMIR  *)
(* size and the verdict check_with gives it (NativeRun says which one), or *)
(* "panics" when the generator itself panics, which nothing catches.       *)
(***************************************************************************)
EXTENDS Integers, Sequences, FiniteSets, SequencesExt, FiniteSetsExt

CONSTANTS
    Workers,        \* the threads spawned
    First, End,     \* the range of seeds, First..End-1
    MaxFailures,    \* failures kept in the tally (20)
    Programs        \* what a seed may generate: [size, verdict]

\* NativeVerdict::class.
Classes == {"ok", "mismatch", "refused", "compile-panic", "spawn-fail", "signal", "timeout", "oracle-fail"}
Verdicts == Classes \cup {"panics", "none"}

ASSUME RangeAssumption == First \in Nat /\ End \in Nat /\ First <= End
ASSUME WorkersAssumption == Workers # {}
ASSUME ProgramsAssumption == Programs \subseteq [size : Nat, verdict : Classes \cup {"panics"}]
ASSUME MaxFailuresAssumption == MaxFailures \in Nat

Seeds == First..End - 1
Pcs == {"new", "take", "check", "push", "gone", "panicked"}

VARIABLES
    prog,       \* what each seed generates
    next,       \* the shared counter
    pc,         \* where each worker is
    runner,     \* has the worker a scratch directory?
    seed,       \* the seed it drew last
    found,      \* the verdict it is about to push
    results,    \* the vector behind the mutex
    phase,      \* "running", "done", or "panicked"
    tally       \* the value run_seeds returns

vars == <<prog, next, pc, runner, seed, found, results, phase, tally>>

-----------------------------------------------------------------------------
\* Tally::default()
Empty == [count |-> [c \in Classes |-> 0], failures |-> <<>>, instructions |-> 0, largest |-> <<>>]

Init ==
    /\ prog \in [Seeds -> Programs]
    /\ next = First
    /\ pc = [w \in Workers |-> "new"]
    /\ runner = [w \in Workers |-> FALSE]
    /\ seed = [w \in Workers |-> First]
    /\ found = [w \in Workers |-> "none"]
    /\ results = <<>>
    /\ phase = "running"
    /\ tally = Empty

\* let runner = Runner::new(): its failure is kept, not returned.
NewRunner(w) ==
    /\ pc[w] = "new"
    /\ \E made \in BOOLEAN : runner' = [runner EXCEPT ![w] = made]
    /\ pc' = [pc EXCEPT ![w] = "take"]
    /\ UNCHANGED <<prog, next, seed, found, results, phase, tally>>

\* Faulty variant: past the end the worker goes round again.
TakeAgain(w) ==
    /\ pc[w] = "take"
    /\ seed' = [seed EXCEPT ![w] = next]
    /\ next' = IF next >= End THEN next ELSE next + 1
    /\ pc' = [pc EXCEPT ![w] = IF next >= End THEN "take" ELSE "check"]
    /\ UNCHANGED <<prog, runner, found, results, phase, tally>>

\* let seed = next.fetch_add(1); if seed >= seeds.end { break; }
\* The counter runs past the end, by one for every worker.
Take(w) ==
    /\ pc[w] = "take"
    /\ seed' = [seed EXCEPT ![w] = next]
    /\ next' = next + 1
    /\ pc' = [pc EXCEPT ![w] = IF next >= End THEN "gone" ELSE "check"]
    /\ UNCHANGED <<prog, runner, found, results, phase, tally>>

\* generate_with, then check_with; without a scratch directory every seed of
\* this worker is a spawn-fail.
Check(w) ==
    /\ pc[w] = "check"
    /\ prog[seed[w]].verdict # "panics"
    /\ found' = [found EXCEPT ![w] = IF runner[w] THEN prog[seed[w]].verdict ELSE "spawn-fail"]
    /\ pc' = [pc EXCEPT ![w] = "push"]
    /\ UNCHANGED <<prog, next, runner, seed, results, phase, tally>>

\* generate_with panics: the thread ends, outside the mutex, so it is not poisoned.
Panic(w) ==
    /\ pc[w] = "check"
    /\ prog[seed[w]].verdict = "panics"
    /\ pc' = [pc EXCEPT ![w] = "panicked"]
    /\ UNCHANGED <<prog, next, runner, seed, found, results, phase, tally>>

\* Faulty variant: a push that may be repeated.
PushRetried(w) ==
    /\ pc[w] = "push"
    /\ results' = Append(results, [seed |-> seed[w], size |-> prog[seed[w]].size, verdict |-> found[w]])
    /\ pc' \in {pc, [pc EXCEPT ![w] = "take"]}
    /\ UNCHANGED <<prog, next, runner, seed, found, phase, tally>>

\* results.lock().push(...)
Push(w) ==
    /\ pc[w] = "push"
    /\ results' = Append(results, [seed |-> seed[w], size |-> prog[seed[w]].size, verdict |-> found[w]])
    /\ pc' = [pc EXCEPT ![w] = "take"]
    /\ UNCHANGED <<prog, next, runner, seed, found, phase, tally>>

-----------------------------------------------------------------------------
\* Faulty variant: tallied in the order the workers finished.
SortedAsPushed(rs) == rs

\* rs.sort_by_key(|r| r.0), which is stable: a result goes to the place that
\* the results before it and it itself fill up.
Precedes(rs, j, i) == rs[j].seed < rs[i].seed \/ (rs[j].seed = rs[i].seed /\ j <= i)
Rank(rs, i) == Cardinality({j \in DOMAIN rs : Precedes(rs, j, i)})
Sorted(rs) == [k \in DOMAIN rs |-> rs[CHOOSE i \in DOMAIN rs : Rank(rs, i) = k]]

\* One turn of the loop over the results, Tally::add included.
Tallied(t, r) ==
    LET larger == r.verdict = "ok" /\ (t.largest = <<>> \/ r.size > t.largest[2]) IN
    [count |-> [t.count EXCEPT ![r.verdict] = @ + 1],
     failures |-> IF r.verdict # "ok" /\ Len(t.failures) < MaxFailures
                  THEN Append(t.failures, <<r.seed, r.verdict>>) ELSE t.failures,
     instructions |-> t.instructions + r.size,
     largest |-> IF larger THEN <<r.seed, r.size>> ELSE t.largest]

TallyOf(rs) == FoldLeft(Tallied, Empty, Sorted(rs))

\* Faulty variant: the tally is made when the first worker has gone.
JoinFirst ==
    /\ phase = "running"
    /\ \E w \in Workers : pc[w] \in {"gone", "panicked"}
    /\ IF \E w \in Workers : pc[w] = "panicked"
       THEN phase' = "panicked" /\ UNCHANGED tally
       ELSE phase' = "done" /\ tally' = TallyOf(results)
    /\ UNCHANGED <<prog, next, pc, runner, seed, found, results>>

\* The end of the scope joins every thread, and panics if one of them did.
Join ==
    /\ phase = "running"
    /\ \A w \in Workers : pc[w] \in {"gone", "panicked"}
    /\ IF \E w \in Workers : pc[w] = "panicked"
       THEN phase' = "panicked" /\ UNCHANGED tally
       ELSE phase' = "done" /\ tally' = TallyOf(results)
    /\ UNCHANGED <<prog, next, pc, runner, seed, found, results>>

-----------------------------------------------------------------------------
Work(w) == NewRunner(w) \/ Take(w) \/ Check(w) \/ Panic(w) \/ Push(w)
Next == Join \/ \E w \in Workers : Work(w)

\* The scheduler runs every runnable thread; each of these steps ends, the
\* longest by NativeRun!RunReturns.
Fairness == WF_vars(Join) /\ \A w \in Workers : WF_vars(Work(w))

Spec == Init /\ [][Next]_vars /\ Fairness

-----------------------------------------------------------------------------
(***************************************************************************)
(* Properties                                                              *)
(***************************************************************************)
Results == Seq([seed : Seeds, size : Nat, verdict : Verdicts])

\* Every variable has its type, and no worker checks a seed out of the range.
TypeOK ==
    /\ prog \in [Seeds -> Programs]
    /\ next \in Nat /\ next >= First
    /\ pc \in [Workers -> Pcs]
    /\ runner \in [Workers -> BOOLEAN]
    /\ seed \in [Workers -> Nat]
    /\ \A w \in Workers : pc[w] \in {"check", "push", "panicked"} => seed[w] \in Seeds
    /\ found \in [Workers -> Verdicts]
    /\ results \in Results
    /\ phase \in {"running", "done", "panicked"}

Holds(w, s) == pc[w] \in {"check", "push", "panicked"} /\ seed[w] = s
Reported(s) == \E i \in DOMAIN results : results[i].seed = s
Drawn == {s \in Seeds : s < next}

\* No seed is checked twice: what workers hold and what was pushed is disjoint.
NoSeedTwice ==
    /\ \A i, j \in DOMAIN results : results[i].seed = results[j].seed => i = j
    /\ \A v, w \in Workers, s \in Seeds : Holds(v, s) /\ Holds(w, s) => v = w
    /\ \A w \in Workers, s \in Seeds : Holds(w, s) => ~Reported(s)

\* Every seed handed out is with a worker or among the results, and no other.
\* When the workers have gone that is the module documentation's claim,
\* "Every program gets exactly one NativeVerdict and every class is counted".
EverySeedAccounted ==
    \A s \in Seeds : s \in Drawn <=> (Reported(s) \/ \E w \in Workers : Holds(w, s))

\* A run that returns a tally has a result for every seed of its range.
AllReported == phase = "done" => \A s \in Seeds : Reported(s)

(* What a single worker going through the seeds S in order would return, of *)
(* which it lost some to a missing scratch directory.                       *)

Verdict(lost, s) == IF s \in lost THEN "spawn-fail" ELSE prog[s].verdict
Failing(lost, S) == {s \in S : Verdict(lost, s) # "ok"}
Passing(lost, S) == {s \in S : Verdict(lost, s) = "ok"}
Places(S, k) == {s \in S : Cardinality({r \in S : r <= s}) = k}
Nth(S, k) == CHOOSE s \in Places(S, k) : TRUE
Biggest(lost, S) == {s \in Passing(lost, S) : \A r \in Passing(lost, S) : prog[r].size <= prog[s].size}

Sequential(lost, S) ==
    [count |-> [c \in Classes |-> Cardinality({s \in S : Verdict(lost, s) = c})],
     failures |-> [k \in 1..Min({MaxFailures, Cardinality(Failing(lost, S))}) |->
                      LET s == Nth(Failing(lost, S), k) IN <<s, Verdict(lost, s)>>],
     instructions |-> SumFunction([s \in S |-> prog[s].size]),
     largest |-> IF Passing(lost, S) = {} THEN <<>>
                 ELSE LET s == Min(Biggest(lost, S)) IN <<s, prog[s].size>>]

\* The tally is the one a single worker going through the seeds in order
\* would return, whatever the interleaving ("Results are tallied BY SEED, so
\* the tally does not depend on the worker count"): the counts, the first
\* MaxFailures failures, and of the largest passing programs the first.  Only
\* a worker without a scratch directory turns seeds into spawn-fails, and then
\* too the counts add up to the range.
TallyIsSequential ==
    phase = "done" =>
        /\ SumFunction(tally.count) = End - First
        /\ \E lost \in SUBSET Seeds :
              /\ lost # {} => \E w \in Workers : ~runner[w]
              /\ tally = Sequential(lost, Seeds)

\* The run ends, in a tally or in the panic of a worker.
Finishes == <>(phase # "running")

-----------------------------------------------------------------------------
(* A small pool: programs of two sizes that pass, one the backend gets     *)
(* wrong, one that times out and one that makes the generator panic.       *)

Prog(n, v) == [size |-> n, verdict |-> v]
SomePrograms == {Prog(1, "ok"), Prog(2, "ok"), Prog(1, "mismatch"), Prog(2, "timeout"), Prog(1, "panics")}

=============================================================================
