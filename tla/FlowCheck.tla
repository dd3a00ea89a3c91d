------------------------------ MODULE FlowCheck ------------------------------
(***************************************************************************)
(* The ownership and linearity pass of the checker (fors-check flow.rs):   *)
(* one forward walk over the use tape of a body that decides, from the     *)
(* regions of the tree each event sits in, which places are dead, whether  *)
(* the paths that merge agree, and whether every linear local is consumed  *)
(* on every way out of its scope.                                          *)
(*                                                                         *)
(* A body is a sequence of statements, records with the field k:           *)
(*   let, lettry (let x = f()?), use, field (reads x.f), move, set, part   *)
(*   (moves x.f), return, raise, try, break, continue, with the local v    *)
(*   where there is one; defer and errdefer of a use or a move; closure of *)
(*   one; if (with els = <<>> and alt = FALSE when there is no else),      *)
(*   while, and block.                                                     *)
(* Tree numbers the nodes of a body in preorder, as the syntax tree does.  *)
(* Every local is of a linear type.  A diagnostic is a pair of the node    *)
(* and the rule; a body is accepted when there is none.                    *)
(***************************************************************************)
EXTENDS Integers, Sequences, SequencesExt, FiniteSets

Simple == {"use", "field", "move", "part", "set", "return", "raise", "try", "break", "continue"}

-----------------------------------------------------------------------------
(* The tree: a sequence of [k, end, v, kids, never, conv].                 *)

Node(k, end, v, kids, never) == [k |-> k, end |-> end, v |-> v, kids |-> kids, never |-> never]

\* body.rs: a statement after which control cannot continue, a block that has one
RECURSIVE NeverStmt(_)
NeverStmt(s) ==
    CASE s.k \in {"return", "raise", "break", "continue"} -> TRUE
      [] s.k = "if" -> s.alt /\ (\E i \in DOMAIN s.thn : NeverStmt(s.thn[i]))
                             /\ (\E i \in DOMAIN s.els : NeverStmt(s.els[i]))
      [] s.k = "block" -> \E i \in DOMAIN s.thn : NeverStmt(s.thn[i])
      [] OTHER -> FALSE
Never(stmts) == \E i \in DOMAIN stmts : NeverStmt(stmts[i])

RECURSIVE StmtNodes(_, _), BlockNodes(_, _)
BlockNodes(stmts, at) ==
    LET step(acc, s) == LET here == at + 1 + Len(acc.nodes) IN
            [nodes |-> acc.nodes \o StmtNodes(s, here), kids |-> Append(acc.kids, here)]
        all == FoldLeft(step, [nodes |-> <<>>, kids |-> <<>>], stmts)
    IN <<Node("block", at + 1 + Len(all.nodes), "", all.kids, Never(stmts))>> \o all.nodes
StmtNodes(s, at) ==
    CASE s.k = "let" -> <<Node("let", at + 2, "", <<at + 1>>, FALSE), Node("binding", at + 2, s.v, <<>>, FALSE)>>
      [] s.k = "lettry" -> <<Node("let", at + 3, "", <<at + 1, at + 2>>, FALSE),
                             Node("binding", at + 2, s.v, <<>>, FALSE), Node("try", at + 3, "", <<>>, FALSE)>>
      [] s.k \in Simple -> <<Node(s.k, at + 1, s.v, <<>>, NeverStmt(s))>>
      [] s.k \in {"defer", "errdefer", "closure"} ->
            <<Node(s.k, at + 2, "", <<at + 1>>, FALSE), Node(s.do, at + 2, s.v, <<>>, FALSE)>>
      [] s.k = "block" -> BlockNodes(s.thn, at)
      [] s.k = "while" -> LET b == BlockNodes(s.thn, at + 1)
                          IN <<Node("while", at + 1 + Len(b), "", <<at + 1>>, FALSE)>> \o b
      [] s.k = "if" -> LET t == BlockNodes(s.thn, at + 1)
                           e == IF s.alt THEN BlockNodes(s.els, at + 1 + Len(t)) ELSE <<>>
                       IN <<Node("if", at + 1 + Len(t) + Len(e), "",
                                 IF s.alt THEN <<at + 1, at + 1 + Len(t)>> ELSE <<at + 1>>, NeverStmt(s))>>
                          \o t \o e

\* a function: its declaration, which raises or does not, one parameter of the
\* convention conv, its block
Tree(conv, raises, stmts) ==
    LET b == BlockNodes(stmts, 3)
    IN <<Node("fn", 3 + Len(b), IF raises THEN "raises" ELSE "", <<2, 3>>, FALSE),
         Node("param", 3, conv, <<>>, FALSE)>> \o b
ErrorNodes(t) == {n \in DOMAIN t : t[n].k \in {"try", "raise"}}
\* a body with an error exit is of a function that raises
MayRaise(stmts) == IF ErrorNodes(Tree("let", TRUE, stmts)) # {} THEN {TRUE} ELSE BOOLEAN

-----------------------------------------------------------------------------
(* The tape.  The typing passes write an event per use, in the order the   *)
(* values are computed: the Declare of a let follows its initialiser.      *)

Inside(t, n, m) == m >= n /\ m < t[n].end
\* name resolution: the parameter p, or the nearest binding before the use
RootOf(t, n) ==
    LET v == t[n].v
        before == {m \in 1..n : t[m].k = "binding" /\ t[m].v = v}
    IN IF t[n].k = "binding" THEN n
       ELSE IF v = "p" \/ before = {} THEN 2 ELSE CHOOSE m \in before : \A o \in before : o <= m
UseKind(k) == CASE k = "binding" -> "declare" [] k = "set" -> "assign"
                [] k \in {"move", "part"} -> "move" [] OTHER -> "read"
Event(t, n) == [node |-> n, root |-> RootOf(t, n), kind |-> UseKind(t[n].k),
                path |-> IF t[n].k \in {"field", "part"} THEN <<"f">> ELSE <<>>]
Tape(t) ==
    LET uses == SetToSortSeq({n \in DOMAIN t : t[n].k \in {"use", "field", "move", "part", "set", "binding"}}, <)
    IN [i \in DOMAIN uses |-> Event(t, uses[i])]

-----------------------------------------------------------------------------
(* Flow::new and collect_scopes: regions, scopes, exits and defers.        *)

Region(kind, start, end, scope, scopeEnd, body, tier) ==
    [kind |-> kind, start |-> start, end |-> end, scope |-> scope, scopeEnd |-> scopeEnd,
     body |-> body, tier |-> tier]
Regions(t) ==
    {Region("join", n, t[n].end, n, t[n].end, n, 0) : n \in {m \in DOMAIN t : t[m].k = "if"}}
    \cup {Region("alt", n, t[n].end, j, t[j].end, n, 0) :
             <<n, j>> \in {<<a, b>> \in (DOMAIN t) \X (DOMAIN t) : t[b].k = "if" /\ a \in Range(t[b].kids)}}
    \cup {Region("defer", n, t[n].end, n, t[n].end, n, 0) : n \in {m \in DOMAIN t : t[m].k \in {"defer", "errdefer"}}}
    \cup {Region("closure", n, t[n].end, n, t[n].end, n, 0) : n \in {m \in DOMAIN t : t[m].k = "closure"}}
    \cup {Region("loop", n, t[n].end, n, t[n].end, t[n].kids[1], 0) : n \in {m \in DOMAIN t : t[m].k = "while"}}
    \cup {Region("scope", n, t[n].end, n, t[n].end, n, 1) : n \in {m \in DOMAIN t : t[m].k = "block"}}
Holds(r, n) == n >= r.start /\ n < r.end
Declares(r, n) == n >= r.scope /\ n < r.scopeEnd

BodyBlock == 3
Scopes(t) == {n \in DOMAIN t : t[n].k = "block"}
LoopBodies(t) == {t[n].kids[1] : n \in {m \in DOMAIN t : t[m].k = "while"}}
ScopeChain(t, n) == {s \in Scopes(t) : Inside(t, s, n)}
InnermostScope(t, n) == CHOOSE s \in ScopeChain(t, n) : \A o \in ScopeChain(t, n) : o <= s

\* where control goes after a block whose type is never
RECURSIVE DivergesTo(_, _)
DivergesTo(t, n) ==
    IF t[n].k # "block" THEN "exit"
    ELSE LET stops == SelectSeq(t[n].kids, LAMBDA c : t[c].never)
         IN IF stops = <<>> THEN "exit"
            ELSE LET c == Head(stops) IN
                 CASE t[c].k = "break" -> "break"
                   [] t[c].k = "continue" -> "continue"
                   [] t[c].k = "block" -> DivergesTo(t, c)
                   [] OTHER -> "exit"
Target(t, n) == IF t[n].never THEN DivergesTo(t, n) ELSE "falls"

ExitKinds == {"return", "raise", "try", "break", "continue"}
Exit(kind, node) == [kind |-> kind, node |-> node]
IsError(x) == x.kind \in {"raise", "try"}
BlockEnds(t) == {Exit("end", b) : b \in {s \in Scopes(t) : Target(t, s) = "falls"}}
Jumps(t) == {Exit(t[n].k, n) : n \in {m \in DOMAIN t : t[m].k \in ExitKinds}}

\* Faulty variant: a jump leaves only the block it stands in.
ScopesLeftOne(t, x) == IF x.kind = "end" THEN {x.node} ELSE {InnermostScope(t, x.node)}
\* the scopes an exit leaves: up to the loop's body for break and continue,
\* up to the function's for the others
ScopesLeft(t, x) ==
    CASE x.kind = "end" -> {x.node}
      [] x.kind \in {"break", "continue"} ->
            LET loops == ScopeChain(t, x.node) \cap LoopBodies(t)
            IN {s \in ScopeChain(t, x.node) : \A l \in loops : (\A o \in loops : o <= l) => s >= l}
      [] OTHER -> ScopeChain(t, x.node)

Defers(t) == {n \in DOMAIN t : t[n].k \in {"defer", "errdefer"}}
Mentions(t, tape, d) == {tape[i].root : i \in {j \in DOMAIN tape : Inside(t, d, tape[j].node) /\ tape[j].path = <<>>}}
Moves(t, tape, d) == {tape[i].root : i \in {j \in DOMAIN tape : Inside(t, d, tape[j].node) /\ tape[j].path = <<>>
                                                              /\ tape[j].kind = "move"}}
RunningDefers(t, x) ==
    {d \in Defers(t) : /\ InnermostScope(t, d) \in ScopesLeft(t, x)
                       /\ t[d].k = "errdefer" => IsError(x)
                       /\ x.kind = "end" \/ d < x.node}


\* collect_obligations: a linear local owes from its scope, a sink parameter
\* from the body; the range of its own declaration owes nothing yet
Obligs(t) ==
    {[root |-> n, scope |-> InnermostScope(t, n),
      decl |-> CHOOSE m \in DOMAIN t : t[m].k = "let" /\ Inside(t, m, n)] :
        n \in {m \in DOMAIN t : t[m].k = "binding"}}
    \cup (IF t[2].v = "sink" THEN {[root |-> 2, scope |-> BodyBlock, decl |-> 2]} ELSE {})

-----------------------------------------------------------------------------
(* The walk.  f is [dead, stack, born, said, done, faults]; a kill is      *)
(* [root, path, at]; a frame is [region, saved, alts, heads, exits].       *)

Prefix(p, q) == IsPrefix(p, q)
Overlaps(a, b) == a.root = b.root /\ (Prefix(a.path, b.path) \/ Prefix(b.path, a.path))
StrictPrefix(a, b) == a.root = b.root /\ Len(a.path) < Len(b.path) /\ Prefix(a.path, b.path)
Place(k) == [root |-> k.root, path |-> k.path]
Places(state) == {Place(k) : k \in state}
RootDead(state, root) == \E k \in state : k.root = root /\ k.path = <<>>
Reinit(state, ev) == {k \in state : ~(k.root = ev.root /\ Prefix(ev.path, k.path))}
Scoped(state, r) == {k \in state : ~Declares(r, k.root)}
Nested(t, a, b) == Inside(t, a, b)
Killers(t, state, ev) ==
    {k \in state : Overlaps(k, ev) /\ ~Nested(t, k.at, ev.node) /\ ~Nested(t, ev.node, k.at)}

Fault(f, rule, node) == [f EXCEPT !.faults = @ \cup {<<rule, node>>}]
Faulted(f, S) == [f EXCEPT !.faults = @ \cup S]

Holding(t, n) == SetToSortSeq({r \in Regions(t) : Holds(r, n)},
                              LAMBDA a, b : a.start < b.start \/ (a.start = b.start /\ a.tier < b.tier))

\* scope_exit: the deferred bodies that run here need their places alive, and
\* what the scopes left still owe must be dead or moved by such a body
Discharged(t, tape, f, x) ==
    {k.root : k \in {k \in f.dead : k.path = <<>>}} \cup UNION {Moves(t, tape, d) : d \in RunningDefers(t, x)}
ScopeExit(t, tape, f, x) ==
    LET needs == {d \in RunningDefers(t, x) : \E m \in Mentions(t, tape, d) : RootDead(f.dead, m)}
        leaks == {o \in Obligs(t) : /\ o.scope \in ScopesLeft(t, x)
                                    /\ o.root \notin f.said /\ o.root \in f.born
                                    /\ ~Inside(t, o.decl, x.node)
                                    /\ o.root \notin Discharged(t, tape, f, x)}
    IN IF needs # {} THEN Faulted(f, {<<"O23d", d>> : d \in needs})
       ELSE [f EXCEPT !.said = @ \cup {o.root : o \in leaks},
                      !.faults = @ \cup {<<"O22", x.node>> : o \in leaks}]

\* merge: a place dead on some of the paths only is a disagreement
MergeState(paths) == {k \in UNION paths : \A p \in paths : Place(k) \in Places(p)}
MergeFaults(paths) == {<<"O8", k.at>> : k \in {k \in UNION paths : \E p \in paths : Place(k) \notin Places(p)}}
\* loop_head: nothing outside the loop may change state from one turn to the next
LoopHead(entry, heads) ==
    UNION {{<<"O4b", k.at>> : k \in {k \in h : Place(k) \notin Places(entry)}}
           \cup {<<"O8", e.at>> : e \in {e \in entry : Place(e) \notin Places(h)}} : h \in heads}

\* forward: break and continue carry their state to the innermost loop
InnermostStop(stack) ==
    LET stops == {i \in DOMAIN stack : stack[i].region.kind \in {"loop", "closure", "defer"}}
    IN IF stops = {} THEN 0 ELSE CHOOSE i \in stops : \A j \in stops : j <= i
Forward(f, state, target) ==
    LET i == InnermostStop(f.stack) IN
    IF i = 0 \/ f.stack[i].region.kind # "loop" THEN f
    ELSE IF target = "break" THEN [f EXCEPT !.stack[i].exits = @ \cup {state}]
    ELSE [f EXCEPT !.stack[i].heads = @ \cup {state}]

LeaveAlt(t, f, frame) ==
    LET g == [f EXCEPT !.dead = frame.saved]
        alt == [start |-> frame.region.start, state |-> Scoped(f.dead, frame.region),
                went |-> Target(t, frame.region.body)]
    IN IF g.stack = <<>> THEN g ELSE [g EXCEPT !.stack[Len(g.stack)].alts = @ \cup {alt}]

\* an alternative no event was in ends as it began
Alternatives(t, f, frame) ==
    frame.alts \cup {[start |-> c, state |-> f.dead, went |-> "falls"] :
             c \in Range(t[frame.region.start].kids) \ {a.start : a \in frame.alts}}
LeaveJoin(t, f, frame) ==
    LET alts == Alternatives(t, f, frame)
        g == FoldLeft(LAMBDA acc, a : Forward(acc, a.state, a.went), f,
                      SetToSeq({a \in alts : a.went \in {"break", "continue"}}))
        falls == {a.state : a \in {a \in alts : a.went = "falls"}}
                 \cup (IF Len(t[frame.region.start].kids) = 1 THEN {f.dead} ELSE {})
    IN IF falls = {} THEN g
       ELSE [g EXCEPT !.dead = MergeState(falls), !.faults = @ \cup MergeFaults(falls)]

LeaveLoop(t, f, frame) ==
    LET r == frame.region
        end == Scoped(f.dead, r)
        went == Target(t, r.body)
        heads == {Scoped(s, r) : s \in frame.heads} \cup (IF went \in {"falls", "continue"} THEN {end} ELSE {})
        exits == {Scoped(s, r) : s \in frame.exits} \cup (IF went = "break" THEN {end} ELSE {})
        paths == {frame.saved} \cup exits
    IN [f EXCEPT !.dead = MergeState(paths),
                 !.faults = @ \cup LoopHead(frame.saved, heads) \cup MergeFaults(paths)]

LeaveScope(t, tape, f, frame) ==
    LET x == Exit("end", frame.region.start)
        g == IF x \in BlockEnds(t) THEN ScopeExit(t, tape, [f EXCEPT !.done = @ \cup {x.node}], x) ELSE f
    IN [g EXCEPT !.dead = Scoped(@, frame.region)]

Leave(t, tape, f0) ==
    LET frame == f0.stack[Len(f0.stack)]
        f == [f0 EXCEPT !.stack = SubSeq(@, 1, Len(@) - 1)]
    IN CASE frame.region.kind = "alt" -> LeaveAlt(t, f, frame)
         [] frame.region.kind = "join" -> LeaveJoin(t, f, frame)
         [] frame.region.kind = "loop" -> LeaveLoop(t, f, frame)
         [] frame.region.kind = "scope" -> LeaveScope(t, tape, f, frame)
         [] OTHER -> [f EXCEPT !.dead = frame.saved]

\* sync: leave the regions that do not hold the node, enter those that do
Common(f, want) == \* how many outer regions stay
    CHOOSE n \in 0..Len(f.stack) :
        /\ n <= Len(want) /\ \A i \in 1..n : f.stack[i].region = want[i]
        /\ n < Len(f.stack) /\ n < Len(want) => f.stack[n + 1].region # want[n + 1]
RECURSIVE LeaveTo(_, _, _, _)
LeaveTo(t, tape, f, n) == IF Len(f.stack) <= n THEN f ELSE LeaveTo(t, tape, Leave(t, tape, f), n)
Enter(f, rs) ==
    [f EXCEPT !.stack = @ \o [i \in DOMAIN rs |->
        [region |-> rs[i], saved |-> f.dead, alts |-> {}, heads |-> {}, exits |-> {}]]]
SyncTo(t, tape, f, want) ==
    LET n == Common(f, want) IN Enter(LeaveTo(t, tape, f, n), SubSeq(want, n + 1, Len(want)))
Sync(t, tape, f, node) == SyncTo(t, tape, f, Holding(t, node))

\* move_clause: what may not be moved at all
InClosure(t, n) == {r \in Regions(t) : r.kind = "closure" /\ Holds(r, n)}
MoveClause(t, ev) ==
    IF ev.path # <<>> THEN "O4c"
    ELSE IF ev.root = 2 /\ t[2].v = "let" THEN "O3"
    ELSE IF ev.root = 2 /\ t[2].v = "inout" THEN "O4d"
    ELSE IF \E r \in InClosure(t, ev.node) : ~Declares(r, ev.root) THEN "O4e" ELSE "ok"

OnEvent(t, f, ev) ==
    IF ev.kind \in {"declare", "assign"}
    THEN LET g == IF ev.kind = "declare" THEN [f EXCEPT !.born = @ \cup {ev.root}] ELSE f
             overwrites == /\ ev.kind = "assign" /\ ev.path = <<>> /\ ~RootDead(f.dead, ev.root)
                           /\ ev.root \in f.born /\ ev.root \notin f.said
                           /\ \E o \in Obligs(t) : o.root = ev.root
         IN IF overwrites THEN [Fault(g, "O22", ev.node) EXCEPT !.said = @ \cup {ev.root}]
            ELSE [g EXCEPT !.dead = Reinit(@, ev)]
    ELSE IF Killers(t, f.dead, ev) # {} THEN Fault(f, "O4a", ev.node)
    ELSE IF ev.kind # "move" THEN f
    ELSE IF MoveClause(t, ev) # "ok" THEN Fault(f, MoveClause(t, ev), ev.node)
    ELSE [f EXCEPT !.dead = @ \cup {[root |-> ev.root, path |-> ev.path, at |-> ev.node]}]

\* fire_at: an exit is judged after the last event inside it, or before the
\* first event past it
FireAt(t, tape, x) ==
    LET inside == {i \in DOMAIN tape : Inside(t, x.node, tape[i].node)}
        past == {i \in DOMAIN tape : tape[i].node >= t[x.node].end}
    IN IF inside # {} THEN 1 + (CHOOSE i \in inside : \A j \in inside : j <= i)
       ELSE IF past # {} THEN CHOOSE i \in past : \A j \in past : i <= j ELSE Len(tape) + 1
Due(t, tape, i) == SetToSortSeq({x \in Jumps(t) : FireAt(t, tape, x) = i}, LAMBDA a, b : a.node < b.node)

OnExit(t, tape, f, x) == ScopeExit(t, tape, Sync(t, tape, f, x.node), x)
OnExits(t, tape, f, xs) == FoldLeft(LAMBDA g, x : OnExit(t, tape, g, x), f, xs)
Walk(t, tape) ==
    LET init == [dead |-> {}, stack |-> <<>>, faults |-> {}, said |-> {}, done |-> {},
                 born |-> IF t[2].v = "sink" THEN {2} ELSE {}]
        step(f, i) == OnEvent(t, Sync(t, tape, OnExits(t, tape, f, Due(t, tape, i)), tape[i].node), tape[i])
        walked == FoldLeft(step, init, [i \in DOMAIN tape |-> i])
    IN SyncTo(t, tape, OnExits(t, tape, walked, Due(t, tape, Len(tape) + 1)), <<>>)
Rest(t, f) == SetToSortSeq({x \in BlockEnds(t) : x.node \notin f.done}, LAMBDA a, b : a.node > b.node)
FoldRest(t, tape, f) == FoldLeft(LAMBDA g, x : ScopeExit(t, tape, g, x), f, Rest(t, f))

\* error_exit_follows: the error exits of a deferred body's scope, those inside
\* another deferred body or a closure aside
ErrorExits(t, d) ==
    {n \in ErrorNodes(t) : /\ Inside(t, InnermostScope(t, d), n)
                           /\ ~\E r \in Regions(t) : r.kind \in {"defer", "closure"} /\ Holds(r, n)}
\* static_linear_checks: a deferred body in a loop may not move what was
\* declared outside it; an errdefer that consumes needs an error exit after it,
\* unless the function raises and its scope shows no error exit at all, as when
\* only calls may raise
StaticFaults(t, tape) ==
    LET loopOf(d) == {r \in Regions(t) : r.kind = "loop" /\ Holds(r, d)}
        visible(d) == t[1].v # "raises" \/ ErrorExits(t, d) # {}
        dead == {d \in Defers(t) : /\ t[d].k = "errdefer" /\ Moves(t, tape, d) # {}
                                   /\ visible(d) /\ \A n \in ErrorExits(t, d) : n <= d}
    IN {<<"O23b", d>> : d \in dead}
       \cup {<<"O4", d>> : d \in {d \in Defers(t) \ dead : \E m \in Moves(t, tape, d) :
                \E r \in loopOf(d) : (\A q \in loopOf(d) : q.start <= r.start) /\ ~Declares(r, m)}}

Flow(t, tape) == FoldRest(t, tape, Walk(t, tape)).faults \cup StaticFaults(t, tape)

-----------------------------------------------------------------------------
(***************************************************************************)
(* What it is for: the ownership rules path by path.  Every way control    *)
(* can take through a body is followed with the state of its locals.  A    *)
(* loop is followed for up to two turns: a third could only repeat what    *)
(* the second did.                                                         *)
(***************************************************************************)

\* a path so far: how it goes on, the locals, what went wrong
Path(how, val, bad) == [how |-> how, val |-> val, bad |-> bad]
Set(p, v, st) == [p EXCEPT !.val[v] = st]
Bad(p, what) == [p EXCEPT !.bad = @ \cup {what}]

Use(p, v) == IF p.val[v] = "live" THEN p ELSE Bad(p, "used dead")
Take(p, v) == Set(Use(p, v), v, "dead")
Do(p, do, v) == IF do = "move" THEN Take(p, v) ELSE Use(p, v)

\* a block is left: its deferred bodies run, last first, errdefers on an error
\* only; then no local declared in it may still be owed
DeferredRun(p, ds) ==
    FoldRight(LAMBDA d, q : IF d.k = "defer" \/ p.how = "raise" THEN Do(q, d.do, d.v) ELSE q, ds, p)
LeaveBlock(p, ds, owed) ==
    LET q == DeferredRun(p, ds)
        leaked == {v \in owed : q.val[v] = "live"}
    IN [q EXCEPT !.val = [v \in DOMAIN @ |-> IF v \in owed THEN "none" ELSE @[v]],
                 !.bad = @ \cup (IF leaked = {} THEN {} ELSE {"leaked"})]

RECURSIVE Stmt(_, _), Seq2(_, _, _, _), Turns(_, _, _)
Block(stmts, p, owed) == Seq2(stmts, p, <<>>, owed)
\* the statements left, the path, the bodies deferred and the locals owed so far
Seq2(stmts, p, ds, owed) ==
    IF p.how # "next" \/ stmts = <<>> THEN {LeaveBlock(p, ds, owed)}
    ELSE LET s == Head(stmts) IN
         IF s.k \in {"defer", "errdefer"} THEN Seq2(Tail(stmts), p, Append(ds, s), owed)
         ELSE UNION {Seq2(Tail(stmts), q, ds,
                          IF s.k \in {"let", "lettry"} /\ q.how = "next" THEN owed \cup {s.v} ELSE owed) :
                         q \in Stmt(s, p)}
Stmt(s, p) ==
    CASE s.k = "let" -> {Set(p, s.v, "live")}
      [] s.k = "lettry" -> {Set(p, s.v, "live"), [p EXCEPT !.how = "raise"]}
      [] s.k \in {"use", "field"} -> {Use(p, s.v)}
      [] s.k = "closure" -> {Do(p, "use", s.v)}
      [] s.k = "move" -> {Take(p, s.v)}
      [] s.k = "part" -> {Bad(p, "partial move")}
      [] s.k = "set" -> {Set(IF p.val[s.v] = "live" THEN Bad(p, "leaked") ELSE p, s.v, "live")}
      [] s.k = "try" -> {p, [p EXCEPT !.how = "raise"]}
      [] s.k \in {"return", "raise", "break", "continue"} -> {[p EXCEPT !.how = s.k]}
      [] s.k = "block" -> Block(s.thn, p, {})
      [] s.k = "if" -> Block(s.thn, p, {}) \cup (IF s.alt THEN Block(s.els, p, {}) ELSE {p})
      [] s.k = "while" -> Turns(s.thn, p, 2)
Turns(body, p, n) ==
    IF p.how = "break" THEN {[p EXCEPT !.how = "next"]}
    ELSE IF p.how \in {"return", "raise"} THEN {p}
    ELSE {[p EXCEPT !.how = "next"]}
         \cup (IF n = 0 THEN {} ELSE UNION {Turns(body, q, n - 1) : q \in Block(body, [p EXCEPT !.how = "next"], {})})

\* every path through a function with a parameter p of the convention conv
Paths(conv, stmts, locals) ==
    Block(stmts, Path("next", [v \in locals \cup {"p"} |-> IF v = "p" THEN "live" ELSE "none"], {}),
          IF conv = "sink" THEN {"p"} ELSE {})
\* what no path may do: a let or inout parameter is never taken either
Misused(conv, stmts, locals) ==
    \/ \E q \in Paths(conv, stmts, locals) : q.bad # {}
    \/ conv # "sink" /\ \E q \in Paths(conv, stmts, locals) : q.val["p"] = "dead"

=============================================================================
