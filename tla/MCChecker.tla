----------------------------- MODULE MCChecker -----------------------------
(***************************************************************************)
(* The passes between the parser and lowering, and the tools around them,  *)
(* each run on small inputs and compared with what it is for, as in        *)
(* MCCompiler.                                                             *)
(***************************************************************************)
EXTENDS Integers, Sequences, FiniteSets, SequencesExt, TLC

CONSTANTS SymbolOrder, PreludeTypes, PreludeValues, StdMemNames, StdModules     \* Names
CONSTANTS DeclSigs, Consts, MATCH_STEP_FACTOR                                       \* Patterns
CONSTANT MAX_FRAMES                                                             \* Comptime
CONSTANTS NORMALISE_DEPTH_MAX, LIN_DEPTH_MAX, HOLDS_DEPTH_MAX, SHARED_DEPTH_MAX, COMPONENTS_MAX \* Declarations

-----------------------------------------------------------------------------
(* Declarations for Patterns: enums with every kind of payload, a struct   *)
(* with a private field, one of another module, a recursive enum, an empty *)
(* one, a linear struct, and a struct and a variant that hold it.          *)

Type(k, d, args) == [k |-> k, d |-> d, args |-> args]
B == Type("bool", "", <<>>)
U == Type("u8", "", <<>>)
Nom(d) == Type("nominal", d, <<>>)
Opt(t) == Type("nominal", "Option", <<t>>)
Decl(kind, fs, vs) ==
    [kind |-> kind, generics |-> <<>>, fields |-> fs, variants |-> vs, linear |-> FALSE, recursive |-> FALSE, copy |-> TRUE, here |-> TRUE]
Var(n, p, fs) == [n |-> n, p |-> p, fields |-> fs]
Fld(n, ty, pub) == [n |-> n, ty |-> ty, pub |-> pub]
PatternSigs ==
    [Option |-> [Decl("enum", <<>>, <<Var("some", "tuple", <<Fld("", Type("param", "T", <<>>), TRUE)>>), Var("none", "none", <<>>)>>) EXCEPT !.generics = <<"T">>],
     E |-> Decl("enum", <<>>, <<Var("unit", "none", <<>>), Var("tup", "tuple", <<Fld("", B, TRUE), Fld("", U, TRUE)>>),
                                Var("rec", "record", <<Fld("x", B, TRUE), Fld("y", Opt(B), TRUE)>>)>>),
     P |-> Decl("struct", <<Fld("a", B, TRUE), Fld("b", Opt(B), FALSE)>>, <<>>),
     Q |-> [Decl("struct", <<Fld("c", B, FALSE), Fld("d", B, TRUE)>>, <<>>) EXCEPT !.here = FALSE],
     L |-> [Decl("enum", <<>>, <<Var("nil", "none", <<>>), Var("cons", "tuple", <<Fld("", Nom("L"), TRUE)>>)>>) EXCEPT !.recursive = TRUE, !.copy = FALSE],
     V |-> Decl("enum", <<>>, <<>>),
     H |-> [Decl("struct", <<Fld("fd", B, TRUE)>>, <<>>) EXCEPT !.linear = TRUE, !.copy = FALSE],
     R |-> [Decl("enum", <<>>, <<Var("open", "record", <<Fld("h", Nom("H"), TRUE), Fld("k", B, TRUE)>>), Var("shut", "none", <<>>)>>) EXCEPT !.copy = FALSE],
     S |-> [Decl("struct", <<Fld("h", Nom("H"), TRUE), Fld("k", B, TRUE)>>, <<>>) EXCEPT !.copy = FALSE]]
PatternConsts == [T |-> [ty |-> B, lit |-> <<"bool", TRUE>>], ONE |-> [ty |-> U, lit |-> <<"int", 1>>]]

-----------------------------------------------------------------------------
Nm == INSTANCE Names
Pt == INSTANCE Patterns
Mn == INSTANCE Minimiser
Dc == INSTANCE Declarations
Au == INSTANCE Authority
Ct == INSTANCE Comptime

VARIABLES
    stage,      \* the stage at work
    input,      \* what it was given
    out,        \* its state, and in the end its answer
    done        \* it has answered

vars == <<stage, input, out, done>>

Job(s, in, start) == stage = s /\ input = in /\ out = start /\ done = FALSE
Answer(a) == out' = a /\ done' = TRUE /\ UNCHANGED <<stage, input>>
Pending(s) == stage = s /\ ~done
Answered(s) == stage = s /\ done

-----------------------------------------------------------------------------
(* Packages of modules, items with names in them, and mains.               *)

ModuleWords == <<"X", "Y", "Z", "a", "b", "c", "d", "io", "mem", "std", "vec">>
NameJobs ==
    \/ \E p \in Nm!Packages : Job("link", p, <<>>)
    \/ \E n \in Nm!Bodies : Job("scope", n, <<>>)
    \/ \E p \in Nm!Mains : Job("main", p, <<>>)
LinkStage == Pending("link") /\ Answer(Nm!BuildUniverse(input, FALSE))
ScopeStage == Pending("scope") /\ Answer(Nm!ResolveItem(Nm!Env(input), input, 3))
MainStage == Pending("main") /\ Answer(Nm!Resolve(input, 1, FALSE))

\* Every cycle of imports is reported at an edge that closes one, and what is
\* left has none; where nothing is reported every import is what its path
\* names, through any chain of re-exports and in any order of files, and
\* nothing private crosses a module; a name in an item is the binder of the
\* innermost scope whose region it stands in, else the module's, else the
\* prelude's, and exactly the names that mean nothing and the binders that
\* hide something are reported; main asks for each root capability once, by
\* std's own type, and only for those the root module declares (module.rs,
\* items.rs, scope.rs, lib.rs, authority.rs).
NamesResolveRight ==
    /\ Answered("link") => Nm!LinkedRight(input, out)
    /\ Answered("scope") => Nm!ResolvedRight(Nm!Around(input), Nm!Env(input), 3, out)
    /\ Answered("main") => Nm!MainRight(input, 1, out)

-----------------------------------------------------------------------------
(* Matches: a type and the patterns of the arms.                           *)

MatchJobs == \E m \in Pt!MatchSamples : Job("match", m, <<>>)
MatchStage == Pending("match") /\ Answer(Pt!MatchExpr(input[1], input[2]))

\* A match is reported missing a value exactly when one is not matched, and
\* the value shown is such a one; an arm is reported exactly when the arms
\* before it take everything it takes; the rows left for lowering decide and
\* bind on every value as the text does; and an accepted arm loses no linear
\* part of the value (pat.rs, exhaust.rs, facts.rs).  The last is said of arms
\* that write out the fields of what holds a linear part: an arm that gives the
\* bare name of such a struct or variant is accepted and loses it, which is
\* ArmsBindLinearParts, and no match of this run has one.
MatchesCover == Answered("match") => Pt!MatchRight(input[1], input[2], out)

\* docs/spec/09-types.md:853-859: the arm binds every component of linear type
\* of what it matches, or the pattern is rejected (pat.rs check_pat_struct,
\* check_payload).
ArmsBindLinearParts == Answered("match") => Pt!ArmsKeep(input[1], input[2], out)

-----------------------------------------------------------------------------
(* Failing programs, made smaller a candidate at a time.                   *)

ReduceJobs == \E q \in Mn!Reductions : Job("reduce", q, Mn!Minimise(q))
ReduceStage == /\ Pending("reduce") /\ ~Mn!Ended(out)
               /\ out' \in Mn!Steps(input, out)
               /\ UNCHANGED <<stage, input, done>>

\* A program being made smaller shows its failure after every candidate that
\* was kept and passes the verifier; when a stage is over no single unit,
\* operator, branch or instruction can go, and no constant can be one nearer
\* to zero (reduce.rs).
MinimisedRight == stage = "reduce" => Mn!ReducedRight(input, out)

\* Whatever order the candidates are drawn in, and however often a success
\* starts a pass again, every candidate brings the end nearer: the minimiser
\* cannot go on for ever (reduce.rs).
ReductionEnds == [][stage = "reduce" => Mn!Nearer(Mn!Progress(out'), Mn!Progress(out))]_vars

-----------------------------------------------------------------------------
(* Sets of declarations, a pass at a time.                                 *)

DeclJobs == \E b \in Dc!Builds : Job("decls", b, Dc!Checking(b))
PassStage == /\ Pending("decls") /\ Dc!Running(out)
             /\ out' = Dc!PassDone(out)
             /\ UNCHANGED <<stage, input, done>>
AgainStage == /\ Pending("decls") /\ ~Dc!Running(out) /\ Dc!Accepted(out) /\ out.whom = <<>>
              /\ \E i \in DOMAIN input.impls : out' = Dc!Again(out, input.impls[i].def)
              /\ UNCHANGED <<stage, input, done>>
AnswerStage == /\ Pending("decls") /\ ~Dc!Running(out) /\ Dc!Accepted(out) /\ out.whom = <<>>
               /\ Answer(Dc!AnsweredAll(out))

\* Of declarations that were accepted: a Copyable type is made of nothing that
\* must not be copied, however deep; a Shared type shows no unsynchronised
\* state that nobody audited; a type implements a trait exactly when some
\* instance of an impl gives it, and then one impl does; an impl is judged
\* alike without the impls it did not ask about.  Of any: infinite size is
\* reported at the least of each cycle (wf.rs, authority.rs).
DeclarationsSound == stage = "decls" => Dc!DeclarationsRight(out)

-----------------------------------------------------------------------------
(* Bodies under authority, and pairs of types that may differ in brands.   *)

AuthorityJobs ==
    \/ \E p \in Au!Programs : Job("authority", p, <<>>)
    \/ \E s, t \in Au!BrandTypes : Job("brands", <<s, t>>, <<>>)
AuthorityStage == Pending("authority") /\ Answer(Au!Judged(input))
BrandStage == Pending("brands") /\ Answer(Au!BrandOnlyMismatch(input[1], input[2]))

\* A program whose bodies are accepted, run from main: the bytes of a sealed
\* operation are emitted only in objects of modules that declare it and never
\* run in a comptime block; no capability is made, no file outside the listed
\* inputs is read at comptime, no local of the run time reached from there; an
\* element is used with, and released by, the arena it came from, through any
\* calls over brands.  A comptime block is taken by its text: a function called
\* from one runs as at run time.  Inline assembly here is one line; its multi-line
\* strings are outside.  A mismatch is put down to brands exactly when they are
\* all that differs (authority.rs).
AuthorityHolds ==
    /\ Answered("authority") => Au!AuthorityRight(out)
    /\ Answered("brands") => out = (input[1] # input[2] /\ Au!Erased(input[1]) = Au!Erased(input[2]))

-----------------------------------------------------------------------------
(* Two builds at once over one memo directory.                             *)

ComptimeJobs == \E b \in Ct!Builds, f \in Ct!Files : Job("comptime", b, Ct!World(f, 1))
BuildStep == /\ Pending("comptime")
             /\ \E i \in 1..2 : out' \in Ct!Step(input, out, i)
             /\ UNCHANGED <<stage, input, done>>
WriteStops == /\ Pending("comptime")
              /\ \E i \in 1..2 : out' \in Ct!WriteFails(input, out, i) \cup Ct!Killed(input, out, i)
              /\ UNCHANGED <<stage, input, done>>
EditInput == /\ Pending("comptime")
             /\ out' \in Ct!Edited(input, out)
             /\ UNCHANGED <<stage, input, done>>

\* A comptime block's value is the same whether it is evaluated, found in this
\* build's memo or taken from a directory other builds write to at the same
\* time, die writing to, or filled from other programs, inputs, targets and
\* budgets; a torn file is never taken; an input has one content in a build
\* although it is edited meanwhile; and a build overruns its budget by at most
\* the step that finds out (comptime.rs, budget.rs, build.rs).
ComptimeTransparent == stage = "comptime" => Ct!ComptimeRight(input, out)

-----------------------------------------------------------------------------
Init == NameJobs \/ MatchJobs \/ ReduceJobs \/ DeclJobs \/ AuthorityJobs \/ ComptimeJobs

Next == LinkStage \/ ScopeStage \/ MainStage \/ MatchStage \/ ReduceStage
        \/ PassStage \/ AgainStage \/ AnswerStage
        \/ AuthorityStage \/ BrandStage
        \/ BuildStep \/ WriteStops \/ EditInput

Spec == Init /\ [][Next]_vars

\* Matches on a bare name.
BareNamesInit == \E m \in Pt!BareSamples : Job("match", m, <<>>)
BareNamesSpec == BareNamesInit /\ [][MatchStage]_vars

=============================================================================
