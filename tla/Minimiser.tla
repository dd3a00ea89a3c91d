----------------------------- MODULE Minimiser ------------------------------
(***************************************************************************)
(* The minimiser of failing programs (fors-oracle reduce.rs): a source     *)
(* text loses declarations, statements and operators, its FMIR loses       *)
(* functions, branches and instructions, its constants shrink towards      *)
(* zero, as long as a predicate keeps holding.  One step of the model is   *)
(* one candidate put to the predicate; a shuffle is a free choice among    *)
(* what has not been tried.                                                *)
(*                                                                         *)
(* A text is its syntax tree: each node, numbered in the order of the      *)
(* text, has a kind and the node above it.  A program of FMIR is a         *)
(* sequence of functions of blocks; an instruction is [id, op, v, uses],   *)
(* and stands for the source node of its number.                           *)
(***************************************************************************)
EXTENDS Integers, Sequences, FiniteSets, SequencesExt, FiniteSetsExt, TLC

Half(n) == Max({1, n \div 2})

-----------------------------------------------------------------------------
(* Texts.                                                                  *)

RECURSIVE Under(_, _, _)
Under(t, x, y) == x = y \/ (y \in DOMAIN t /\ Under(t, x, t[y].up))
Below(t, x) == {y \in DOMAIN t : Under(t, x, y)}
InOrder(S) == SetToSortSeq(S, LAMBDA a, b : a < b)
Units(t, stmts) ==
    InOrder({x \in DOMAIN t : IF stmts THEN t[x].k = "stmt" \/ (t[x].up # 0 /\ t[t[x].up].k = "block") ELSE t[x].k = "decl"})
RemoveRanges(t, xs) == [y \in (DOMAIN t) \ UNION {Below(t, x) : x \in xs} |-> t[y]]
Hoists(t) == {<<x, y>> \in (DOMAIN t) \X (DOMAIN t) : t[x].k = "op" /\ t[y].up = x}
Hoist(t, h) == [y \in ((DOMAIN t) \ Below(t, h[1])) \cup Below(t, h[2]) |-> IF y = h[2] THEN [t[y] EXCEPT !.up = t[h[1]].up] ELSE t[y]]

-----------------------------------------------------------------------------
(* Programs of FMIR: [fns, entry].                                         *)

Successors(b) == IF b.term.op \in {"br", "cond_br", "try_br", "switch"} THEN Range(b.term.to) ELSE {}
RECURSIVE Closure(_, _)
Closure(S, next) == LET more == S \cup UNION {next[x] : x \in S} IN IF more = S THEN S ELSE Closure(more, next)
ReachableBlocks(d) == Closure({1} \cup d.defers, [b \in DOMAIN d.blocks |-> Successors(d.blocks[b])])
LiveInsts(d) == UNION {Range(d.blocks[b].insts) : b \in ReachableBlocks(d)}
Callees(c, f) == {g \in DOMAIN c.fns : \E i \in LiveInsts(c.fns[f]) : i.op = "call" /\ i.v = c.fns[g].key}
ReachableFns(c) == Closure({c.entry}, [f \in DOMAIN c.fns |-> Callees(c, f)])
FmirSize(c) ==
    LET ran(f) == {<<"inst", f, i.id>> : i \in LiveInsts(c.fns[f])} \cup {<<"term", f, b>> : b \in ReachableBlocks(c.fns[f])}
    IN Cardinality(UNION {ran(f) : f \in ReachableFns(c)})
Rows(d) == InOrder({i.id : i \in LiveInsts(d)})

\* A call a live try_br hands its outcome to cannot be deleted alone.
DeleteInsts(d, ids) ==
    IF \E b \in Range(d.blocks) : b.term.op = "try_br" /\ b.term.of \in ids THEN {}
    ELSE {[d EXCEPT !.blocks = [b \in DOMAIN @ |-> [@[b] EXCEPT !.insts = SelectSeq(@, LAMBDA i : i.id \notin ids)]]]}
Prune(d) ==
    LET live == ReachableBlocks(d)
        cut == [d EXCEPT !.blocks = [b \in DOMAIN @ |-> IF b \in live THEN @[b] ELSE [@[b] EXCEPT !.term = [op |-> "unreachable", to |-> <<>>, of |-> 0]]]]
    IN DeleteInsts(cut, UNION {{i.id : i \in Range(d.blocks[b].insts)} : b \in (DOMAIN d.blocks) \ live})
\* Of the verifier, what these edits can break: a row of the exit table
\* [from, to, err] is an edge of its block's terminator and of its kind (a
\* `to` of 0 leaves the function).
IsExit(t, e) ==
    CASE t.op = "ret" -> e.to = 0 /\ ~e.err
      [] t.op = "br" -> e.to = t.to[1] /\ ~e.err
      [] t.op = "cond_br" -> e.to \in Range(t.to)
      [] t.op = "switch" -> e.to \in Range(t.to) /\ ~e.err
      [] t.op = "try_br" -> (e.to = t.to[1] /\ ~e.err) \/ (e.to = t.to[2] /\ e.err)
      [] OTHER -> FALSE
Verifies(d) == \A e \in d.exits : IsExit(d.blocks[e.from].term, e)
WithDecl(c, f, ds) == {[c EXCEPT !.fns[f] = d] : d \in {e \in ds : Verifies(e)}}

DropUnreachableFns(c) ==
    LET keep == InOrder(ReachableFns(c))
    IN IF Len(keep) = Len(c.fns) THEN {}
       ELSE {[fns |-> [i \in DOMAIN keep |-> c.fns[keep[i]]], entry |-> CHOOSE i \in DOMAIN keep : keep[i] = c.entry]}
\* The terminators tried for block b, in order.
Simpler(c, f, b) ==
    LET t == c.fns[f].blocks[b].term
        br(to) == [op |-> "br", to |-> <<to>>, of |-> 0]
        ret == [op |-> "ret", to |-> <<>>, of |-> 0]
    IN (CASE t.op = "cond_br" -> <<br(t.to[1]), br(t.to[2])>> [] t.op \in {"try_br", "switch"} -> <<br(t.to[1])>> [] OTHER -> <<>>)
       \o (IF f = c.entry /\ t # ret THEN <<ret>> ELSE <<>>)
SimplerPrograms(c, f, b) ==
    FlattenSeq([i \in DOMAIN Simpler(c, f, b) |-> SetToSeq(WithDecl(c, f, Prune([c.fns[f] EXCEPT !.blocks[b].term = Simpler(c, f, b)[i]])))])
ConstSites(c) == {<<f, i.id>> : <<f, i>> \in {<<f, i>> \in ReachableFns(c) \X UNION {LiveInsts(c.fns[g]) : g \in DOMAIN c.fns} : i \in LiveInsts(c.fns[f]) /\ i.op = "const"}}
ConstAt(c, s) == (CHOOSE i \in LiveInsts(c.fns[s[1]]) : i.id = s[2]).v
WithConst(c, s, v) ==
    [c EXCEPT !.fns[s[1]].blocks = [b \in DOMAIN @ |-> [@[b] EXCEPT !.insts = [j \in DOMAIN @ |-> IF @[j].id = s[2] THEN [@[j] EXCEPT !.v = v] ELSE @[j]]]]]

-----------------------------------------------------------------------------
(* The state of a reduction.  `left` is what the pass has still to try of  *)
(* the current candidate, `any` that this round has made it smaller.       *)

\* The predicate of a job: what must be left, what must not be left alone,
\* and the values that show the failure.
Shows(q, have) == q.need \subseteq have /\ ~(q.apart[1] \in have /\ q.apart[2] \notin have)
SrcPred(q, t) == Shows(q, DOMAIN t)
\* (a program that reads a value nothing defines ends in a ub report, which
\* no predicate on a clean run accepts)
FmirPred(q, c) ==
    LET live == UNION {LiveInsts(c.fns[f]) : f \in ReachableFns(c)}
        made == {i.id : i \in live} \cup {0}
    IN /\ Shows(q, made)
       /\ \A i \in live : i.uses \subseteq made /\ (i.op = "const" /\ i.id \in q.need => i.v \in q.vals)
       /\ \A f \in ReachableFns(c) : \A b \in ReachableBlocks(c.fns[f]) : c.fns[f].blocks[b].term.of \in made
\* What lowering makes of a text: the part of the program it still says.
BuildBlock(t, b) ==
    [insts |-> LET kept == SelectSeq(b.insts, LAMBDA i : i.id \in DOMAIN t) IN [j \in DOMAIN kept |-> [kept[j] EXCEPT !.uses = @ \cap DOMAIN t]],
     term |-> IF b.term.of \in {0} \cup DOMAIN t THEN b.term ELSE [op |-> "br", to |-> <<b.term.to[1]>>, of |-> 0]]
BuildDecl(t, d) ==
    LET blocks == [b \in DOMAIN d.blocks |-> BuildBlock(t, d.blocks[b])]
    IN [d EXCEPT !.blocks = blocks, !.exits = {e \in @ : IsExit(blocks[e.from].term, e)}]
Build(q, t) == [q.prog EXCEPT !.fns = [f \in DOMAIN @ |-> BuildDecl(t, @[f])]]

Items(st) == CASE st.ph = "decls" -> Units(st.t, FALSE)
               [] st.ph = "stmts" -> Units(st.t, TRUE)
               [] st.ph = "insts" -> Rows(st.c.fns[st.f])
Starts(n, chunk) == {s \in 1..n : (s - 1) % chunk = 0}
\* Begin a pass of ddmin, or go on with it from a new candidate.
Cut(st, chunk) ==
    LET n == Len(Items(st))
    IN [st EXCEPT !.chunk = IF n = 0 THEN 0 ELSE Min({chunk, n}), !.left = IF n = 0 THEN {} ELSE Starts(n, Min({chunk, n}))]
EnterDdmin(st) == Cut(st, Half(Len(Items(st))))
Enter(st, ph) ==
    LET s == [st EXCEPT !.ph = ph, !.left = {}, !.chunk = 0, !.todo = IF ph \in {"terms", "insts"} THEN ReachableFns(st.c) ELSE {}, !.f = 0]
    IN CASE ph \in {"decls", "stmts"} -> EnterDdmin(s)
         [] ph = "hoist" -> [s EXCEPT !.left = Hoists(s.t)]
         [] ph = "values" -> [s EXCEPT !.left = ConstSites(s.c)]
         [] OTHER -> s

\* reduce.rs minimise: the source, then FMIR, then values.
Minimise(q) ==
    LET start == [ph |-> "err", t |-> q.text, c |-> q.prog, left |-> {}, chunk |-> 0, todo |-> {}, f |-> 0, any |-> FALSE, site |-> <<>>, lo |-> 0, hi |-> 0]
    IN IF SrcPred(q, q.text) THEN Enter(start, "decls") ELSE start
ToFmir(q, st) == LET c == Build(q, st.t) IN IF FmirPred(q, c) THEN Enter([st EXCEPT !.c = c, !.any = FALSE], "fns") ELSE [st EXCEPT !.ph = "err"]
\* A mutant of AfterPass: deleting instructions is not followed by another
\* round of the passes before it.
AfterPassOnce(q, st) ==
    CASE st.ph = "decls" -> Enter(st, "stmts")
      [] st.ph = "stmts" -> Enter(st, "hoist")
      [] st.ph = "hoist" -> IF st.any THEN Enter([st EXCEPT !.any = FALSE], "decls") ELSE ToFmir(q, st)
      [] st.ph = "fns" -> Enter(st, "terms")
      [] st.ph = "terms" -> Enter(st, "insts")
      [] st.ph = "insts" -> Enter(st, "values")
      [] st.ph = "values" -> [st EXCEPT !.ph = "end"]
\* What follows a pass that has nothing left to try.
AfterPass(q, st) ==
    LET again == [st EXCEPT !.any = FALSE]
    IN CASE st.ph = "decls" -> Enter(st, "stmts")
         [] st.ph = "stmts" -> Enter(st, "hoist")
         [] st.ph = "hoist" -> IF st.any THEN Enter(again, "decls") ELSE ToFmir(q, st)
         [] st.ph = "fns" -> Enter(st, "terms")
         [] st.ph = "terms" -> Enter(st, "insts")
         [] st.ph = "insts" -> IF st.any THEN Enter(again, "fns") ELSE Enter(st, "values")
         [] st.ph = "values" -> [st EXCEPT !.ph = "end"]

Chunk(st, s) == Range(SubSeq(Items(st), s, Min({s + st.chunk - 1, Len(Items(st))})))
\* ddmin_text and delete_instructions: one chunk is put to the predicate.
\* (mutant of Next1: a pass without success is repeated with the same chunks)
Next1Again(st, s) ==
    LET rest == [st EXCEPT !.left = @ \ {s}]
    IN IF rest.left # {} \/ st.chunk <= 1 THEN rest ELSE Cut(rest, st.chunk)
Next1(st, s) ==
    LET rest == [st EXCEPT !.left = @ \ {s}]
    IN IF rest.left # {} \/ st.chunk <= 1 THEN rest ELSE Cut(rest, st.chunk \div 2)
DdminText(q, st) ==
    {LET t == RemoveRanges(st.t, Chunk(st, s))
     IN IF SrcPred(q, t) THEN Cut([st EXCEPT !.t = t, !.any = TRUE], st.chunk) ELSE Next1(st, s) : s \in st.left}
DeleteInstructions(q, st) ==
    {LET cs == {c \in WithDecl(st.c, st.f, DeleteInsts(st.c.fns[st.f], Chunk(st, s))) : FmirPred(q, c)}
     IN IF cs # {} THEN Cut([st EXCEPT !.c = CHOOSE c \in cs : TRUE, !.any = TRUE], st.chunk) ELSE Next1(st, s) : s \in st.left}
HoistExprs(q, st) ==
    {LET t == Hoist(st.t, h)
     IN IF SrcPred(q, t) THEN Enter([st EXCEPT !.t = t, !.any = TRUE], "hoist") ELSE [st EXCEPT !.left = @ \ {h}] : h \in st.left}
SimplifyTerminators(q, st) ==
    {LET good == SelectSeq(SimplerPrograms(st.c, st.f, b), LAMBDA c : FmirPred(q, c))
     IN IF good # <<>> THEN [st EXCEPT !.c = good[1], !.any = TRUE, !.left = ReachableBlocks(good[1].fns[st.f])] ELSE [st EXCEPT !.left = @ \ {b}] : b \in st.left}
TakeFn(st) == {LET s == [st EXCEPT !.f = f, !.todo = @ \ {f}]
               IN IF st.ph = "insts" THEN EnterDdmin(s) ELSE [s EXCEPT !.left = ReachableBlocks(s.c.fns[f])] : f \in st.todo}
DropFns(q, st) ==
    LET cs == {c \in DropUnreachableFns(st.c) : FmirPred(q, c)}
    IN IF cs = {} THEN AfterPass(q, st) ELSE AfterPass(q, [st EXCEPT !.c = CHOOSE c \in cs : TRUE, !.any = TRUE])

\* One constant: zero if that will do, else the smallest of its sign that a
\* search by halves meets.
Towards(v, m) == IF v < 0 THEN -m ELSE m
TakeSite(q, st) ==
    {LET v == ConstAt(st.c, s)
         zero == WithConst(st.c, s, 0)
         rest == [st EXCEPT !.left = @ \ {s}, !.site = s]
     IN IF v = 0 THEN [rest EXCEPT !.lo = 0, !.hi = 0]
        ELSE IF FmirPred(q, zero) THEN [rest EXCEPT !.c = zero, !.lo = 0, !.hi = 0]
        ELSE [rest EXCEPT !.lo = 0, !.hi = IF v < 0 THEN -v ELSE v] : s \in st.left}
Halve(q, st) ==
    LET mid == st.lo + (st.hi - st.lo) \div 2
        c == WithConst(st.c, st.site, Towards(ConstAt(st.c, st.site), mid))
    IN IF FmirPred(q, c) THEN [st EXCEPT !.c = c, !.hi = mid] ELSE [st EXCEPT !.lo = mid]

Ended(st) == st.ph \in {"end", "err"}
Steps(q, st) ==
    CASE st.ph = "values" /\ st.hi - st.lo > 1 -> {Halve(q, st)}
      [] st.ph = "fns" -> {DropFns(q, st)}
      [] st.ph # "fns" /\ st.left = {} -> IF st.todo # {} THEN TakeFn(st) ELSE {AfterPass(q, st)}
      [] OTHER -> CASE st.ph \in {"decls", "stmts"} -> DdminText(q, st)
                    [] st.ph = "hoist" -> HoistExprs(q, st)
                    [] st.ph = "terms" -> SimplifyTerminators(q, st)
                    [] st.ph = "insts" -> DeleteInstructions(q, st)
                    [] st.ph = "values" -> TakeSite(q, st)

-----------------------------------------------------------------------------
(* What it promises.                                                       *)

InText(st) == st.ph \in {"decls", "stmts", "hoist"}
TextMinimal(q, t) ==
    /\ \A x \in DOMAIN t : t[x].k \in {"decl", "stmt"} => ~SrcPred(q, RemoveRanges(t, {x}))
    /\ \A h \in Hoists(t) : ~SrcPred(q, Hoist(t, h))
FmirMinimal(q, c) ==
    /\ \A d \in DropUnreachableFns(c) : ~FmirPred(q, d)
    /\ \A f \in ReachableFns(c) :
         /\ \A i \in LiveInsts(c.fns[f]) : \A d \in WithDecl(c, f, DeleteInsts(c.fns[f], {i.id})) : ~FmirPred(q, d)
         /\ \A b \in ReachableBlocks(c.fns[f]) : ~\E d \in Range(SimplerPrograms(c, f, b)) : FmirPred(q, d)
\* What every candidate brings nearer to the end: the first number of these
\* that a step changes gets smaller.
Weight(c) ==
    LET branches(f) == {b \in ReachableBlocks(c.fns[f]) : c.fns[f].blocks[b].term.op # "ret"}
        edges(f) == UNION {{<<f, b, k>> : k \in 0..Len(c.fns[f].blocks[b].term.to)} : b \in branches(f)}
    IN Len(c.fns) + FmirSize(c) + Cardinality(UNION {edges(f) : f \in ReachableFns(c)})
Phases == <<"end", "err", "values", "insts", "terms", "fns", "hoist", "stmts", "decls">>
Progress(st) ==
    <<IF InText(st) THEN 1 ELSE 0,
      IF InText(st) THEN Cardinality(DOMAIN st.t) ELSE Weight(st.c),
      IF st.any THEN 1 ELSE 0,
      CHOOSE i \in DOMAIN Phases : Phases[i] = st.ph,
      Cardinality(st.todo), st.chunk, Cardinality(st.left), st.hi - st.lo>>
Nearer(p, o) == \E i \in DOMAIN p : p[i] < o[i] /\ \A j \in 1..(i - 1) : p[j] = o[j]
ReducedRight(q, st) ==
    /\ InText(st) => SrcPred(q, st.t)
    /\ st.ph \notin {"decls", "stmts", "hoist", "err"} =>
         /\ FmirPred(q, st.c)
         /\ \A f \in DOMAIN st.c.fns : Verifies(st.c.fns[f])
         /\ FmirSize(st.c) <= FmirSize(q.prog)
         /\ TextMinimal(q, st.t)
    /\ st.ph = "values" /\ st.site = <<>> => FmirMinimal(q, st.c)
    /\ st.ph = "values" /\ st.site # <<>> /\ st.hi - st.lo <= 1 =>
         LET v == ConstAt(st.c, st.site) IN v # 0 => ~FmirPred(q, WithConst(st.c, st.site, v - Towards(v, 1)))

-----------------------------------------------------------------------------
(* Samples: main calls f under a condition and tries g; f has a loop, g a  *)
(* deferred block.                                                         *)

Node(k, up) == [k |-> k, up |-> up]
SomeText == <<Node("decl", 0), Node("block", 1), Node("stmt", 2), Node("op", 3), Node("leaf", 4), Node("stmt", 2), Node("leaf", 6),
              Node("decl", 0), Node("block", 8), Node("stmt", 9), Node("leaf", 9), Node("decl", 0)>>
Inst(id, op, v, uses) == [id |-> id, op |-> op, v |-> v, uses |-> uses]
Blk(is, op, to, of) == [insts |-> is, term |-> [op |-> op, to |-> to, of |-> of]]
SomeProg(v, exits) ==
    [entry |-> 1,
     fns |-> <<[key |-> 91, defers |-> {}, exits |-> IF exits THEN {[from |-> 2, to |-> 4, err |-> TRUE], [from |-> 4, to |-> 0, err |-> FALSE]} ELSE {},
                blocks |-> <<Blk(<<Inst(5, "const", v, {}), Inst(4, "add", 0, {5})>>, "cond_br", <<2, 3>>, 4),
                             Blk(<<Inst(3, "call", 92, {4})>>, "try_br", <<3, 4>>, 3),
                             Blk(<<Inst(6, "write", 0, {})>>, "ret", <<>>, 0), Blk(<<>>, "ret", <<>>, 0)>>],
               [key |-> 92, defers |-> {3}, exits |-> {[from |-> 1, to |-> 2, err |-> FALSE]},
                blocks |-> <<Blk(<<Inst(11, "const", 3, {})>>, "switch", <<2, 1>>, 11), Blk(<<Inst(10, "write", 0, {11})>>, "ret", <<>>, 0), Blk(<<Inst(9, "write", 0, {})>>, "ret", <<>>, 0)>>],
               [key |-> 93, defers |-> {}, exits |-> {}, blocks |-> <<Blk(<<Inst(12, "const", 1, {})>>, "ret", <<>>, 0)>>]>>]
Reductions ==
    {[text |-> SomeText, prog |-> SomeProg(v, x), need |-> n, apart |-> a, vals |-> w] :
        <<v, x, n, a, w>> \in {7, -7} \X BOOLEAN \X {{}, {5}, {4, 6}, {10}, {3, 9}, {11, 99}} \X {<<0, 0>>, <<3, 10>>, <<6, 12>>} \X {-9..9, {-7, -6, -2, 2, 3, 6, 7}}}

=============================================================================
