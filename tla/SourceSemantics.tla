--------------------------- MODULE SourceSemantics ---------------------------
(***************************************************************************)
(* What a program means, read off its tree (docs/spec ch01 rules 23 to     *)
(* 23b, ch02 rules 16 and 17, ch09 rule 22): operands from left to right,  *)
(* a result computed before the bodies deferred run, those bodies in the   *)
(* reverse of their order on every way out of their block, errdefers only  *)
(* on an error.  The reference lowered programs are held against; programs *)
(* are the ones Lowering describes.                                        *)
(*                                                                         *)
(* A state is [fn, env, mem, out, how, v]: the function, names to the cells that hold them,  *)
(* the cells, what was written, and how control goes on: next, return,     *)
(* raise, break, continue, or the trap that ended the program.             *)
(***************************************************************************)
EXTENDS Integers, Sequences, SequencesExt, FiniteSets, TLC

CONSTANTS MaxInt, MaxFrames

None == [k |-> "none"]
Ends == {"trap", "contract", "overflow"}
New(s, x, w) == [s EXCEPT !.mem = Append(@, w), !.env = (x :> (Len(s.mem) + 1)) @@ @]
Get(s, x) == s.mem[s.env[x]]
Put(s, x, w) == [s EXCEPT !.mem[s.env[x]] = w]
Gives(s, v) == [s EXCEPT !.v = v]
Goes(s, how) == [s EXCEPT !.how = how]
Truth(b) == IF b THEN 1 ELSE 0
Number(s, n) == IF n > MaxInt \/ n < 0 THEN Goes(s, "trap") ELSE Gives(s, n)
Apply(op, a, b) ==
    CASE op = "add" -> a + b [] op = "sub" -> a - b
      [] op = "lt" -> Truth(a < b) [] op = "eq" -> Truth(a = b)
      [] op = "and" -> Truth(a # 0 /\ b # 0) [] op = "or" -> Truth(a # 0 \/ b # 0)

\* go on with r unless control has left
Then(r, F(_)) == IF r.how # "next" THEN r ELSE F(r)
AllThen(r, F(_)) == IF r.s.how # "next" THEN r.s ELSE F(r)

\* fns are the functions, d how deep the call is
RECURSIVE Ev(_, _, _, _), Run(_, _, _, _), Turn(_, _, _, _), Count(_, _, _, _, _, _)
Next1(acc, r) == [s |-> r, vs |-> Append(acc.vs, r.v)]
EvAll(fns, d, s, es) ==
    FoldLeft(LAMBDA acc, e : IF acc.s.how # "next" THEN acc ELSE Next1(acc, Ev(fns, d, acc.s, e)),
             [s |-> s, vs |-> <<>>], es)

Holds(r) == IF r.how = "next" /\ r.v = 0 THEN Goes(r, "contract") ELSE r
Clause(fns, d, s, e) == IF s.how # "next" \/ e = None THEN s ELSE Holds(Ev(fns, d, s, e))
Clauses(fns, d, s, e1, e2) == Clause(fns, d, Clause(fns, d, s, e1), e2)
\* the exit clauses are evaluated where a body returns, before what it deferred
Leaving(fns, d, s) ==
    Then(Clauses(fns, d, s, fns[s.fn].inv, fns[s.fn].post), LAMBDA r : Gives(Goes(r, "return"), s.v))
Params(ps, cells) == [x \in {ps[i].x : i \in DOMAIN ps} |-> cells[CHOOSE i \in DOMAIN ps : ps[i].x = x]]
Invoke(fns, d, s, f, cells) == \* cells: where each parameter lives
    [Then(Clauses(fns, d, [s EXCEPT !.fn = f, !.env = Params(fns[f].params, cells)], fns[f].pre, fns[f].inv),
          LAMBDA r : Run(fns, d, r, Append(fns[f].body, [k |-> "return", e |-> None])))
     EXCEPT !.env = s.env, !.fn = s.fn]
NewCell(acc, r) == [s |-> [r EXCEPT !.mem = Append(@, r.v)], at |-> Append(acc.at, Len(r.mem) + 1)]
Arg(fns, d, acc, a) ==
    IF acc.s.how # "next" THEN acc
    ELSE IF a.k = "ref" THEN [acc EXCEPT !.at = Append(@, acc.s.env[a.x])]
    ELSE NewCell(acc, Ev(fns, d, acc.s, a))
Returned(q) == IF q.how = "return" THEN Goes(q, "next") ELSE q
CallOf(fns, d, s, c) ==
    AllThen(FoldLeft(LAMBDA acc, a : Arg(fns, d, acc, a), [s |-> s, at |-> <<>>], c.args),
            LAMBDA r : IF d >= MaxFrames THEN Goes(r.s, "overflow") ELSE Returned(Invoke(fns, d + 1, r.s, c.f, r.at)))
Handled(fns, d, r, e) ==
    IF r.how # "raise" THEN r
    ELSE [Run(fns, d, New(Goes(r, "next"), e.x, r.v), Append(e.body, [k |-> "tail", e |-> e.tail])) EXCEPT !.env = r.env]

Element(s, seq, i) == IF i >= 0 /\ i < Len(seq) THEN Gives(s, seq[i + 1]) ELSE Goes(s, "trap")
Ev(fns, d, s, e) ==
    CASE e.k = "lit" -> Gives(s, e.n)
      [] e.k = "var" -> Gives(s, Get(s, e.x))
      [] e.k = "bin" -> AllThen(EvAll(fns, d, s, <<e.a, e.b>>), LAMBDA r : Number(r.s, Apply(e.op, r.vs[1], r.vs[2])))
      [] e.k = "not" -> Then(Ev(fns, d, s, e.a), LAMBDA r : Gives(r, Truth(r.v = 0)))
      [] e.k \in {"tuple", "array"} -> AllThen(EvAll(fns, d, s, e.es), LAMBDA r : Gives(r.s, r.vs))
      [] e.k = "struct" -> AllThen(EvAll(fns, d, s, [i \in DOMAIN e.fs |-> e.fs[i].e]),
                                   LAMBDA r : Gives(r.s, [f \in DOMAIN e.fs |-> r.vs[CHOOSE i \in DOMAIN e.fs : e.fs[i].f = f]]))
      [] e.k = "variant" -> AllThen(EvAll(fns, d, s, e.es), LAMBDA r : Gives(r.s, <<e.d>> \o r.vs))
      [] e.k = "field" -> Gives(s, Get(s, e.x)[e.f])
      [] e.k = "index" -> Then(Ev(fns, d, s, e.i), LAMBDA r : Element(r, Get(s, e.x), r.v))
      [] e.k = "write" -> Then(Ev(fns, d, s, e.a), LAMBDA r : Gives([r EXCEPT !.out = Append(@, r.v)], 0))
      [] e.k = "call" -> CallOf(fns, d, s, e)
      [] e.k = "try" -> CallOf(fns, d, s, e.c)
      [] e.k = "handler" -> Handled(fns, d, CallOf(fns, d, s, e.c), e)

\* does a pattern hold of a value, and what does it bind
RECURSIVE Matches(_, _), Binds(_, _, _)
Matches(p, w) ==
    CASE p.k \in {"wild", "bind"} -> TRUE
      [] p.k = "lit" -> w = p.n
      [] p.k = "tuple" -> \A i \in DOMAIN p.ps : Matches(p.ps[i], w[i])
      [] p.k = "variant" -> w[1] = p.d /\ \A i \in DOMAIN p.ps : Matches(p.ps[i], w[i + 1])
Binds(s, p, w) ==
    CASE p.k = "bind" -> New(s, p.x, w)
      [] p.k \in {"wild", "lit"} -> s
      [] OTHER -> FoldLeft(LAMBDA q, i : Binds(q, p.ps[i], IF p.k = "tuple" THEN w[i] ELSE w[i + 1]), s,
                           [i \in DOMAIN p.ps |-> i])

\* a block: its statements, then the bodies they deferred, the last one first;
\* its names end with it
RECURSIVE Steps(_, _, _, _, _)
Steps(fns, d, s, stmts, ds) ==
    IF stmts = <<>> \/ s.how # "next" THEN [s |-> s, ds |-> ds]
    ELSE IF Head(stmts).k = "defer" THEN Steps(fns, d, s, Tail(stmts), Append(ds, [stmt |-> Head(stmts), env |-> s.env]))
    ELSE Steps(fns, d, Turn(fns, d, s, Head(stmts)), Tail(stmts), ds)
AfterBody(r, s) == IF r.how = "next" THEN Gives(Goes(r, s.how), s.v) ELSE r
Deferred(fns, d, b, s) ==
    IF s.how \in Ends \/ (b.stmt.kind = "errdefer" /\ s.how # "raise") THEN s
    ELSE AfterBody(Run(fns, d, Goes([s EXCEPT !.env = b.env], "next"), b.stmt.body), s)
Unwind(fns, d, ran) == FoldRight(LAMBDA b, q : Deferred(fns, d, b, q), ran.ds, ran.s)
Run(fns, d, s, stmts) == [Unwind(fns, d, Steps(fns, d, s, stmts, <<>>)) EXCEPT !.env = s.env]

FirstOf(arms, hits) == arms[CHOOSE i \in hits : \A j \in hits : i <= j]
RunArm(fns, d, r, arm) == [Run(fns, d, Binds(r, arm.p, r.v), arm.body) EXCEPT !.env = r.env]
\* after a turn of a loop: out of it, or on to the next
Again(b, F(_)) ==
    IF b.how = "break" THEN Goes(b, "next") ELSE IF b.how \in {"next", "continue"} THEN F(Goes(b, "next")) ELSE b
Turn(fns, d, s, x) ==
    CASE x.k \in {"let", "letlin"} -> Then(Ev(fns, d, s, x.e), LAMBDA r : New(r, x.x, r.v))
      [] x.k = "letpat" -> Then(Ev(fns, d, s, x.e), LAMBDA r : Binds(r, x.p, r.v))
      [] x.k = "set" -> Then(Ev(fns, d, s, x.e), LAMBDA r : Put(r, x.x, r.v))
      [] x.k = "opset" -> Then(Ev(fns, d, s, [k |-> "bin", op |-> x.op, a |-> [k |-> "var", x |-> x.x], b |-> x.e]),
                               LAMBDA r : Put(r, x.x, r.v))
      [] x.k = "setfield" -> Then(Ev(fns, d, s, x.e), LAMBDA r : Put(r, x.x, [Get(r, x.x) EXCEPT ![x.f] = r.v]))
      [] x.k = "setindex" -> AllThen(EvAll(fns, d, s, <<x.i, x.e>>), LAMBDA r :
            IF r.vs[1] < 0 \/ r.vs[1] >= Len(Get(r.s, x.x)) THEN Goes(r.s, "trap")
            ELSE Put(r.s, x.x, [Get(r.s, x.x) EXCEPT ![r.vs[1] + 1] = r.vs[2]]))
      [] x.k = "tail" -> IF x.e = None THEN Gives(s, 0) ELSE Ev(fns, d, s, x.e)
      [] x.k = "expr" -> Ev(fns, d, s, x.e)
      [] x.k = "return" -> Then(IF x.e = None THEN Gives(s, 0) ELSE Ev(fns, d, s, x.e), LAMBDA r : Leaving(fns, d, r))
      [] x.k = "raise" -> Then(Ev(fns, d, s, x.e), LAMBDA r : Goes(r, "raise"))
      [] x.k \in {"break", "continue"} -> Goes(s, x.k)
      [] x.k = "if" -> Then(Ev(fns, d, s, x.c), LAMBDA r : Run(fns, d, r, IF r.v # 0 THEN x.thn ELSE IF x.alt THEN x.els ELSE <<>>))
      [] x.k = "switch" -> Then(Ev(fns, d, s, x.e), LAMBDA r :
            Run(fns, d, r, FirstOf(x.arms, {i \in DOMAIN x.arms : x.arms[i].wild \/ x.arms[i].n = r.v}).body))
      [] x.k = "match" -> Then(Ev(fns, d, s, x.e), LAMBDA r :
            RunArm(fns, d, r, FirstOf(x.arms, {i \in DOMAIN x.arms : Matches(x.arms[i].p, r.v)})))
      [] x.k \in {"block", "attr"} -> Run(fns, d, s, x.body)
      [] x.k = "with" -> [Run(fns, d, New(s, x.x, 0), x.body) EXCEPT !.env = s.env]
      [] x.k = "while" -> Then(Ev(fns, d, s, x.c), LAMBDA r :
            IF r.v = 0 THEN r ELSE Again(Run(fns, d, r, x.body), LAMBDA q : Turn(fns, d, q, x)))
      [] x.k = "for" -> AllThen(EvAll(fns, d, s, <<x.lo, x.hi>>), LAMBDA r : Count(fns, d, r.s, x, r.vs[1], r.vs[2]))
Count(fns, d, s, x, i, hi) ==
    IF i >= hi THEN s
    ELSE Again([Run(fns, d, New(s, x.x, i), x.body) EXCEPT !.env = s.env], LAMBDA q : Count(fns, d, q, x, i + 1, hi))

\* the program: main on its arguments
Meaning(fns, args) ==
    LET s == [env |-> <<>>, mem |-> args, out |-> <<>>, how |-> "next", v |-> 0, fn |-> "main"]
        r == Invoke(fns, 1, s, "main", [i \in DOMAIN args |-> i])
    IN [end |-> r.how, v |-> IF r.how \in Ends THEN 0 ELSE r.v, out |-> r.out]

-----------------------------------------------------------------------------
(* Programs.  main(p) on p = 0, 1, 2; g(x) raises unless x = 0 and defers  *)
(* on both ways out; bump(inout r) adds one.                               *)

Lit(n) == [k |-> "lit", n |-> n]
Var(x) == [k |-> "var", x |-> x]
Bin(op, a, b) == [k |-> "bin", op |-> op, a |-> a, b |-> b]
Say(e) == [k |-> "expr", e |-> [k |-> "write", a |-> e]]
W(n) == Say(Lit(n))
Calls(f, args) == [k |-> "call", f |-> f, args |-> args]
Try(c) == [k |-> "expr", e |-> [k |-> "try", c |-> c]]
Let(x, e) == [k |-> "let", x |-> x, e |-> e]
Set(x, e) == [k |-> "set", x |-> x, e |-> e]
If(c, thn) == [k |-> "if", c |-> c, thn |-> thn, els |-> <<>>, alt |-> FALSE]
IfElse(c, thn, els) == [k |-> "if", c |-> c, thn |-> thn, els |-> els, alt |-> TRUE]
Defer(kind, body) == [k |-> "defer", kind |-> kind, body |-> body]
Ret(e) == [k |-> "return", e |-> e]
Fn(ps, body) == [params |-> ps, pre |-> None, post |-> None, inv |-> None, body |-> body]
Param(x) == [x |-> x, conv |-> "let"]

GFn == Fn(<<Param("x")>>, <<Defer("defer", <<W(7)>>), Defer("errdefer", <<W(8)>>),
            IfElse(Bin("eq", Var("x"), Lit(0)), <<Ret(Lit(3))>>, <<[k |-> "raise", e |-> Var("x")]>>)>>)
Bump == Fn(<<[x |-> "r", conv |-> "inout"]>>, <<Set("r", Bin("add", Var("r"), Lit(1)))>>)
G(e) == Calls("g", <<e>>)
\* clauses: x <= 5 on entry and, with the deferred write after it, on the way out
Add2 == [params |-> <<Param("x"), [x |-> "y", conv |-> "let"]>>, pre |-> Bin("lt", Var("x"), Lit(5)),
         post |-> Bin("lt", Bin("add", Var("x"), Var("y")), Lit(4)), inv |-> [k |-> "not", a |-> [k |-> "write", a |-> Var("x")]],
         body |-> <<Defer("defer", <<W(8)>>), [k |-> "block", body |-> <<Ret(Bin("add", Var("x"), Var("y")))>>]>>]
Deep == Fn(<<Param("n")>>, <<If(Bin("eq", Var("n"), Lit(0)), <<Ret(Lit(0))>>), Ret(Calls("deep", <<Bin("add", Var("n"), Lit(1))>>))>>)

P == Var("p")
\* a statement that may leave the block it stands in
Departures == {Ret(P), [k |-> "raise", e |-> Lit(2)], Try(G(P)), If(P, <<Ret(Lit(2))>>),
            If(P, <<Try(G(P))>>),
            [k |-> "letlin", x |-> "q", e |-> Lit(1)]}
Jumping == {[k |-> "break"], [k |-> "continue"], If(P, <<[k |-> "break"]>>)}
Deferring == {Defer("defer", <<W(1)>>), Defer("errdefer", <<W(2)>>),
              Defer("defer", <<If(P, <<W(3)>>)>>),
              Defer("defer", <<Defer("defer", <<W(4)>>), W(5)>>),
              Defer("defer", <<[k |-> "expr", e |-> [k |-> "handler", c |-> G(P), x |-> "z", body |-> <<Say(Var("z"))>>, tail |-> Lit(0)]]>>)}
Quiet == {W(0), Set("a", Bin("add", Var("a"), P)),
          [k |-> "expr", e |-> Calls("bump", <<[k |-> "ref", x |-> "a"]>>)],
          Set("a", [k |-> "handler", c |-> G(P), x |-> "z", body |-> <<Defer("defer", <<W(6)>>)>>, tail |-> Bin("add", Var("z"), Lit(1))])}
Simple == Departures \cup Deferring \cup Quiet
\* a compound statement around a body
Around(b) ==
  {[k |-> "block", body |-> b], If(P, b), [k |-> "attr", body |-> b], [k |-> "with", x |-> "w", body |-> b],
   [k |-> "for", x |-> "i", lo |-> Lit(0), hi |-> Lit(2), body |-> b],
   [k |-> "while", c |-> Bin("lt", Var("a"), Lit(2)), body |-> <<Set("a", Bin("add", Var("a"), Lit(1)))>> \o b]}
Loops(b) == {s \in Around(b) : s.k \in {"for", "while"}}
MainBody(ss) == <<Let("a", Lit(0))>> \o ss \o <<Say(Var("a")), Ret(Var("a"))>>
Out(n) == [k |-> "write", a |-> Lit(n)]   \* an expression that shows when it is evaluated
Wild == [k |-> "wild"]
BindTo(x) == [k |-> "bind", x |-> x]
PLit(n) == [k |-> "lit", n |-> n]
PVar(d, ps) == [k |-> "variant", d |-> d, ps |-> ps]
PTup(ps) == [k |-> "tuple", ps |-> ps]
Arm(p, body) == [p |-> p, body |-> body]
Case(n, body) == [n |-> n, wild |-> FALSE, body |-> body]
Else(body) == [n |-> 0, wild |-> TRUE, body |-> body]
\* values of every shape, their parts read, written and matched
Data ==
  {<<Let("s", [k |-> "struct", fs |-> <<[f |-> 2, e |-> Bin("add", Out(1), P)], [f |-> 1, e |-> Out(2)]>>]),
     [k |-> "setfield", x |-> "s", f |-> 1, e |-> Lit(4)],
     Say([k |-> "field", x |-> "s", f |-> 1]), Say([k |-> "field", x |-> "s", f |-> 2])>>,
   <<Let("t", [k |-> "array", es |-> <<Out(1), Lit(5), Out(2)>>]),
     [k |-> "setindex", x |-> "t", i |-> Bin("add", P, Lit(1)), e |-> Bin("add", Out(3), Lit(6))],
     Say([k |-> "index", x |-> "t", i |-> Lit(2)]), Say([k |-> "index", x |-> "t", i |-> Bin("add", P, Lit(2))])>>,
   <<Let("o", [k |-> "variant", d |-> 1, es |-> <<P, Lit(5)>>]),
     [k |-> "match", e |-> Var("o"),
      arms |-> <<Arm(PVar(0, <<>>), <<W(1)>>), Arm(PVar(1, <<PLit(1), BindTo("y")>>), <<Say(Var("y")), Ret(Var("y"))>>),
                 Arm(PVar(1, <<BindTo("y"), Wild>>), <<Defer("defer", <<W(3)>>), Say(Var("y"))>>)>>]>>,
   <<[k |-> "letpat", p |-> PTup(<<BindTo("y"), PTup(<<Wild, BindTo("z")>>)>>),
      e |-> [k |-> "tuple", es |-> <<P, [k |-> "tuple", es |-> <<Lit(1), Bin("add", P, Lit(2))>>]>>]],
     Say(Var("y")), Say(Var("z"))>>,
   <<[k |-> "match", e |-> [k |-> "tuple", es |-> <<P, Lit(1)>>],
      arms |-> <<Arm(PTup(<<PLit(0), PLit(0)>>), <<W(1)>>), Arm(PTup(<<PLit(0), BindTo("y")>>), <<Ret(Var("y"))>>), Arm(Wild, <<>>)>>]>>,
   <<[k |-> "switch", e |-> P, arms |-> <<Case(0, <<Defer("defer", <<W(1)>>), W(2)>>), Case(1, <<Ret(Lit(5))>>)>>], W(3)>>,
   <<[k |-> "switch", e |-> P, arms |-> <<Case(1, <<W(2)>>), Else(<<Try(G(Lit(1)))>>)>>], W(3)>>,
   <<Say(Bin("sub", P, Lit(1)))>>,
   <<Let("b", [k |-> "not", a |-> Bin("and", Out(1), Bin("or", Out(2), P))]), Say(Var("b"))>>,
   <<Set("a", Calls("add2", <<Out(1), P>>)), Set("a", Calls("add2", <<Var("a"), Lit(4)>>))>>,
   <<Set("a", Calls("deep", <<P>>))>>}
Bodies ==
  {<<s, t>> : s \in Deferring, t \in Simple}
  \cup {<<Defer("defer", <<W(9)>>), c>> : c \in UNION {Around(<<s, t>>) : s \in Deferring \cup Quiet, t \in Departures}}
  \cup {<<c>> : c \in UNION {Loops(<<s, j>>) : s \in Deferring, j \in Jumping}}
  \cup {<<c>> : c \in UNION {Loops(<<s, d>>) : s \in Deferring, d \in UNION {Around(<<t, j>>) : t \in {W(4), Defer("defer", <<W(4)>>)}, j \in Jumping}}}
  \cup Data

Program(ss) == [main |-> Fn(<<Param("p")>>, MainBody(ss)), g |-> GFn, bump |-> Bump, add2 |-> Add2, deep |-> Deep]

AllPrograms == {Program(ss) : ss \in Bodies}

=============================================================================
