------------------------------ MODULE Lowering ------------------------------
(***************************************************************************)
(* Lowering of a checked function body to FMIR (fors-lower lower.rs): the  *)
(* walk over the tree that emits instructions into basic blocks, opens a   *)
(* scope row for every defer and every linear binding, and records, for    *)
(* every edge that leaves scopes, which deferred bodies it runs.           *)
(*                                                                         *)
(* A function is [params, pre, post, inv, body], with params a sequence of *)
(* [x, conv], the clauses expressions or NoClause, and body a sequence of  *)
(* statements.  Statements and expressions are records with a field k.     *)
(*   expressions: lit n, var x, bin op a b, not a, tuple es, array es,     *)
(*     struct fs (fields f e in the order written), field x f, index x i,  *)
(*     variant d es, call f args (an argument [k |-> "ref", x] is &x),     *)
(*     write a (the stdout intrinsic), try c, handler c x body tail        *)
(*   statements: let x e, letlin x e (a linear binding), letpat p e,       *)
(*     set x e, opset x op e (x op= e), setfield x f e, setindex x i e,    *)
(*     expr e, return e, returnunit, raise e, if c thn els alt, while c    *)
(*     body, for x lo hi body, switch e arms (literals, the last may be    *)
(*     wild), match e arms (patterns), block body, attr body, with body,   *)
(*     break, continue, defer kind body                                    *)
(*   patterns: wild, bind x, lit n, variant d ps, tuple ps                 *)
(* Types, spans, names of constants and the wording of errors are left     *)
(* out: what the checker refuses is not lowered.                           *)
(***************************************************************************)
EXTENDS Integers, Sequences, SequencesExt, FiniteSets, TLC

NoClause == [k |-> "none"]
NONE == 0          \* BlockId::NONE, ScopeId::NONE: outside the function
BODY_END == -1     \* the end of a deferred body
ROOT_SCOPE == 1
NoOperand == 0

Term(op, a, b, c) == [op |-> op, a |-> a, b |-> b, c |-> c]
Open == Term("open", 0, 0, 0)
Block(scope) == [first |-> 0, len |-> 0, term |-> Open, scope |-> scope]
Scope(parent, defer, owed, region) == [parent |-> parent, defer |-> defer, owed |-> owed, region |-> region]

\* FnLower::new
Fresh == [insts |-> <<>>, emitted |-> 0, blocks |-> <<Block(ROOT_SCOPE)>>, cur |-> 1, env |-> <<<<>>>>, roots |-> 0,
          indirect |-> {}, scopes |-> <<Scope(NONE, 0, 0, 0)>>, scopeCur |-> ROOT_SCOPE, defers |-> <<>>,
          exits |-> <<>>, loops |-> <<>>, regions |-> 0, relax |-> FALSE, post |-> NoClause, inv |-> NoClause, err |-> ""]
Err(l, e) == IF l.err = "" THEN [l EXCEPT !.err = e] ELSE l

-----------------------------------------------------------------------------
(* Instructions and blocks.  An instruction's result is named by its       *)
(* position; an operation that computes a value gives [l, v].              *)

Emit(l, i) == [l EXCEPT !.insts = Append(@, i)]
Val(l, v) == [l |-> l, v |-> v]
Out(l, i) == Val(Emit(l, i), Len(l.insts) + 1)
Inst(op, a, b) == [op |-> op, a |-> a, b |-> b]

Seal(l, term) ==
    [l EXCEPT !.blocks[l.cur].first = l.emitted, !.blocks[l.cur].len = Len(l.insts) - l.emitted,
              !.blocks[l.cur].term = term, !.emitted = Len(l.insts)]
IsOpen(l) == l.blocks[l.cur].term.op = "open"
NewBlock(l) == [l EXCEPT !.blocks = Append(@, Block(l.scopeCur)), !.cur = Len(l.blocks) + 1]
EnsureOpen(l) == IF IsOpen(l) THEN l ELSE NewBlock(l)
ReserveBlock(l) == [NewBlock(l) EXCEPT !.cur = l.cur]
Reserve(l, n) == FoldLeft(LAMBDA m, i : ReserveBlock(m), l, [i \in 1..n |-> i])
At(l, b) == [l EXCEPT !.cur = b]
Br(l, b) == Seal(l, Term("br", b, 0, 0))
BrIfOpen(l, b) == IF IsOpen(l) THEN Br(l, b) ELSE l
\* branch_on: go on in a new block when the test holds
BranchOn(l, cond, fail) ==
    LET n == Len(l.blocks) + 1 IN At(Seal(ReserveBlock(l), Term("condbr", cond, n, fail)), n)

-----------------------------------------------------------------------------
(* Names and places                                                        *)

Push(l) == [l EXCEPT !.env = Append(@, <<>>)]
Pop(l) == [l EXCEPT !.env = SubSeq(@, 1, Len(@) - 1)]
Bound(l, x) == {i \in DOMAIN l.env : x \in DOMAIN l.env[i]}
Lookup(l, x) == l.env[CHOOSE i \in Bound(l, x) : \A j \in Bound(l, x) : j <= i][x]
FreshRoot(l) == [l EXCEPT !.roots = @ + 1]
Bind(l, x) == [FreshRoot(l) EXCEPT !.env[Len(l.env)] = (x :> (l.roots + 1)) @@ @]
Seg(s, i) == [s |-> s, i |-> i]
InternPlace(l, root, segs) ==
    [root |-> root, segs |-> IF root \in l.indirect THEN <<Seg("deref", 0)>> \o segs ELSE segs]
ReadRoot(l, root) == Out(l, [op |-> "copy", place |-> InternPlace(l, root, <<>>)])
WritePlace(l, root, segs, v) == Emit(l, [op |-> "init", place |-> InternPlace(l, root, segs), v |-> v])

-----------------------------------------------------------------------------
(* Scopes and the edges that leave them                                    *)

RECURSIVE ScopesLeftTo(_, _, _)
ScopesLeftTo(l, from, outer) ==
    IF from \in {outer, NONE} THEN <<>> ELSE <<from>> \o ScopesLeftTo(l, l.scopes[from].parent, outer)
\* exit.rs expected_pending: the bodies of the scopes left, innermost first
ExpectedPending(l, leaving, kind) ==
    LET runs(s) == l.scopes[s].defer # 0 /\ (l.defers[l.scopes[s].defer].kind = "defer" \/ kind = "error")
    IN [i \in DOMAIN SelectSeq(leaving, runs) |-> l.scopes[SelectSeq(leaving, runs)[i]].defer]
ObligationsOf(l, leaving) ==
    LET owes(s) == l.scopes[s].owed # 0
    IN [i \in DOMAIN SelectSeq(leaving, owes) |-> l.scopes[SelectSeq(leaving, owes)[i]].owed]
RecordExit(l, from, to, kind, leaving) ==
    LET pending == ExpectedPending(l, leaving, kind)
        owed == ObligationsOf(l, leaving)
    IN IF leaving = <<>> \/ (pending = <<>> /\ owed = <<>>) THEN l
       ELSE [l EXCEPT !.exits = Append(@, [from |-> from, to |-> to, kind |-> kind, scopes |-> leaving,
                                           pending |-> pending, discharges |-> Range(owed)])]
CloseScopeRegionInside(l, mark) == \* the block after the region is left inside it
    IF l.scopeCur = mark \/ ~IsOpen(l) THEN [l EXCEPT !.scopeCur = mark]
    ELSE LET cont == Len(l.blocks) + 1
         IN [At(RecordExit(Br(ReserveBlock(l), cont), l.cur, cont, "normal", ScopesLeftTo(l, l.scopeCur, mark)), cont)
             EXCEPT !.scopeCur = mark]
CloseScopeRegion(l, mark) ==
    IF l.scopeCur = mark \/ ~IsOpen(l) THEN [l EXCEPT !.scopeCur = mark]
    ELSE LET cont == Len(l.blocks) + 1
             sealed == Br([ReserveBlock(l) EXCEPT !.blocks[cont].scope = mark], cont)
             left == RecordExit(sealed, l.cur, cont, "normal", ScopesLeftTo(l, l.scopeCur, mark))
         IN [At(left, cont) EXCEPT !.scopeCur = mark]

PushScope(l, row) == [l EXCEPT !.scopes = Append(@, row), !.scopeCur = Len(l.scopes) + 1]
OpenObligationScope(l, root) ==
    LET s == PushScope(l, Scope(l.scopeCur, 0, root, 0))
    IN IF IsOpen(s) THEN At(Br(ReserveBlock(s), Len(s.blocks) + 1), Len(s.blocks) + 1) ELSE s

\* ret and raise leave every scope of the function
LeaveFn(l, op, v, kind) ==
    RecordExit(Seal(l, Term(op, v, 0, 0)), l.cur, NONE, kind, ScopesLeftTo(l, l.scopeCur, NONE))

-----------------------------------------------------------------------------
(* Expressions and statements                                              *)

RECURSIVE LowerExpr(_, _), LowerChild(_, _), LowerBlockChildren(_, _), LowerPat(_, _, _, _)

\* operands in the order they are written: [l, vs]
AndThen(acc, r) == [l |-> r.l, vs |-> Append(acc.vs, r.v)]
LowerAll(l, es) == FoldLeft(LAMBDA acc, e : AndThen(acc, LowerExpr(acc.l, e)), [l |-> l, vs |-> <<>>], es)
\* store a value where it belongs
StoreIn(r, root, segs) == WritePlace(r.l, root, segs, r.v)
LowerBlockChildren(l, body) ==
    IF body = <<>> \/ l.err # "" THEN l ELSE LowerBlockChildren(LowerChild(l, Head(body)), Tail(body))
LowerBlockRegion(l, body) == CloseScopeRegion(LowerBlockChildren(l, body), l.scopeCur)
Scoped(l, body) == Pop(LowerBlockRegion(Push(l), body))

AggOf(r, vs) == Out(r.l, [op |-> "agg", args |-> vs])
LowerAgg(r) == AggOf(r, r.vs)
\* lower_struct_lit: evaluated as written, placed in the order declared
StructOf(r, fs) == AggOf(r, [f \in DOMAIN fs |-> r.vs[CHOOSE i \in DOMAIN fs : fs[i].f = f]])
LowerStructLit(l, fs) == StructOf(LowerAll(l, [i \in DOMAIN fs |-> fs[i].e]), fs)
\* emit_variant_new: the discriminant, then the payload
VariantOf(d, r) == AggOf(r, <<d>> \o r.vs)
LowerVariant(l, e) == VariantOf(Len(l.insts) + 1, LowerAll(Emit(l, Inst("const", e.d, 0)), e.es))
BinaryOf(r, op) == Out(r.l, Inst(op, r.vs[1], r.vs[2]))
LowerBinary(l, op, a, b) == BinaryOf(LowerAll(l, <<a, b>>), op)
UnaryOf(r, op) == Out(r.l, Inst(op, r.v, 0))
IndexOf(r, base) == Out(r.l, Inst("index", base, r.v))
LowerIndex(l, x, i) == IndexOf(LowerExpr(ReadRoot(l, Lookup(l, x)).l, i), Len(l.insts) + 1)
FieldOf(r, f) == Out(r.l, Inst("field", r.v, f))

\* lower_by_ref_arg: a pointer to the local, or the pointer it already is
LowerByRefArg(l, x) ==
    LET root == Lookup(l, x) IN
    IF root \in l.indirect THEN Out(l, [op |-> "copy", place |-> [root |-> root, segs |-> <<>>]])
    ELSE Out(l, [op |-> "borrowmut", root |-> root])
CallWith(r, f) == Out(r.l, [op |-> "call", f |-> f, args |-> r.vs])
LowerArg(l, a) == IF a.k = "ref" THEN LowerByRefArg(l, a.x) ELSE LowerExpr(l, a)
LowerCall(l, f, args) ==
    CallWith(FoldLeft(LAMBDA acc, a : AndThen(acc, LowerArg(acc.l, a)), [l |-> l, vs |-> <<>>], args), f)

\* the block of a call that may raise ends in a try_br to the two blocks next
TryBr(r, n) == Seal(Reserve(r.l, n), Term("trybr", r.v, Len(r.l.blocks) + 1, Len(r.l.blocks) + 2))
\* `?`: the error edge raises
Propagate(r, ok) == Val(At(LeaveFn(At(TryBr(r, 2), ok + 1), "raise", r.v, "error"), ok), r.v)
CallThenPropagate(r) == Propagate(r, Len(r.l.blocks) + 1)
LowerTry(l, c) == CallThenPropagate(LowerCall(EnsureOpen(l), c.f, c.args))

\* `else |x| { body; tail }`: both edges write the result slot, then join
HandlerTail(l, e, res) ==
    IF ~IsOpen(l) \/ e.tail = NoClause THEN l
    ELSE StoreIn(LowerExpr(l, e.tail), res, <<>>)
HandlerBody(l, e, res, error) ==
    HandlerTail(LowerBlockChildren(WritePlace(l, l.roots, <<>>, error), e.body), e, res)
HandlerGood(m, res, v, ok) == Br(WritePlace(At(m, ok), res, <<>>, v), ok + 2)
HandlerBad(l, e, res, v, ok) == HandlerBody(Bind(Push(At(l, ok + 1)), e.x), e, res, v)
HandlerArms(r, e, res, ok) ==
    ReadRoot(At(BrIfOpen(Pop(CloseScopeRegion(
                 HandlerBad(HandlerGood(TryBr([r EXCEPT !.l = FreshRoot(@)], 3), res, r.v, ok), e, res, r.v, ok),
                 r.l.scopeCur)), ok + 2), ok + 2), res)
CallThenHandle(r, e) == HandlerArms(r, e, r.l.roots + 1, Len(r.l.blocks) + 1)
LowerHandlerCall(l, e) == CallThenHandle(LowerCall(EnsureOpen(l), e.c.f, e.c.args), e)

LowerExpr(l, e) ==
    CASE e.k = "lit" -> Out(l, Inst("const", e.n, 0))
      [] e.k = "var" -> ReadRoot(l, Lookup(l, e.x))
      [] e.k = "bin" -> LowerBinary(l, e.op, e.a, e.b)
      [] e.k = "not" -> UnaryOf(LowerExpr(l, e.a), "not")
      [] e.k \in {"tuple", "array"} -> LowerAgg(LowerAll(l, e.es))
      [] e.k = "struct" -> LowerStructLit(l, e.fs)
      [] e.k = "field" -> FieldOf(ReadRoot(l, Lookup(l, e.x)), e.f)
      [] e.k = "index" -> LowerIndex(l, e.x, e.i)
      [] e.k = "variant" -> LowerVariant(l, e)
      [] e.k = "write" -> UnaryOf(LowerExpr(l, e.a), "write")
      [] e.k = "call" -> LowerCall(l, e.f, e.args)
      [] e.k = "try" -> LowerTry(l, e.c)
      [] e.k = "handler" -> LowerHandlerCall(l, e)

LowerLet(l, x, e) == \* the name is bound before its initialiser is lowered
    StoreIn(LowerExpr(Bind(l, x), e), l.roots + 1, <<>>)
LowerAssign(l, x, segs, e) == StoreIn(LowerExpr(l, e), Lookup(l, x), segs)
IndexStore(r, root) == WritePlace(r.l, root, <<Seg("index", r.vs[1])>>, r.vs[2])
LowerIndexAssign(l, x, i, e) == IndexStore(LowerAll(l, <<i, e>>), Lookup(l, x))

CheckOf(r) == Emit(r.l, Inst("check", r.v, 0))
Check(l, e) == IF e = NoClause THEN l ELSE CheckOf(LowerExpr(l, e))
EmitExitContracts(l) == Check(Check(EnsureOpen(l), l.inv), l.post)
ReturnValue(r) == LeaveFn(EmitExitContracts(r.l), "ret", r.v, "normal")
LowerReturn(l, e) == ReturnValue(IF e = NoClause THEN Val(l, NoOperand) ELSE LowerExpr(l, e))
RaiseValue(r) == LeaveFn(r.l, "raise", r.v, "error")
LowerRaise(l, e) == RaiseValue(LowerExpr(l, e))

IfThen(c, s, thn) ==
    At(BrIfOpen(Scoped(At(Seal(Reserve(c.l, 3), Term("condbr", c.v, thn, thn + 1)), thn), s.thn), thn + 2), thn + 1)
IfElse(l, s, join) == At(BrIfOpen(IF s.alt THEN Scoped(l, s.els) ELSE l, join), join)
IfArms(c, s, thn) == IfElse(IfThen(c, s, thn), s, thn + 2)
IfOn(c, s) == IfArms(c, s, Len(c.l.blocks) + 1)
LowerIfStmt(l, s) == IfOn(LowerExpr(l, s.c), s)

\* lower_scalar_match_switch: literal arms, a wildcard only last; without one
\* the default is unreachable
SwitchTerm(d, s, b1, n, wild) ==
    LET cases == SelectSeq([i \in 1..n |-> [i |-> i, arm |-> s.arms[i]]], LAMBDA a : ~a.arm.wild)
    IN [op |-> "switch", a |-> d.v, b |-> IF wild THEN b1 + n - 1 ELSE b1 + n,
        c |-> [j \in DOMAIN cases |-> [value |-> cases[j].arm.n, target |-> b1 + cases[j].i - 1]]]
SwitchBodies(l, s, b1, join) ==
    FoldLeft(LAMBDA q, i : BrIfOpen(Scoped(At(q, b1 + i - 1), s.arms[i].body), join), l, [i \in DOMAIN s.arms |-> i])
Unreachable(l, b) == Seal(At(l, b), Term("unreachable", 0, 0, 0))
SwitchDefault(l, b, wild) == IF wild THEN l ELSE Unreachable(l, b)
SwitchArms(d, s, b1, n, wild) ==
    LET join == b1 + n + (IF wild THEN 0 ELSE 1)
    IN At(SwitchDefault(SwitchBodies(Seal(Reserve(d.l, join - b1 + 1), SwitchTerm(d, s, b1, n, wild)), s, b1, join), b1 + n, wild), join)
SwitchOn(d, s) == SwitchArms(d, s, Len(d.l.blocks) + 1, Len(s.arms), Last(s.arms).wild)
LowerSwitch(l, s) == SwitchOn(LowerExpr(l, s.e), s)

\* lower_pat: tests branch to fail, bindings are written once the pattern holds
TestOn(c, fail) == BranchOn(c.l, c.v, fail)
LowerPatLit(l, v, n, fail) == TestOn(Out(Emit(l, Inst("const", n, 0)), Inst("eq", v, Len(l.insts) + 1)), fail)
PatChild(p, v, fail, acc, q) == LowerPat(p, q.v, fail, [acc EXCEPT !.l = q.l])
LowerPatChildren(p, v, fail, acc, op) ==
    FoldLeft(LAMBDA a, i : PatChild(p.ps[i], v, fail, a, Out(a.l, Inst(op, v, i))), acc, [i \in DOMAIN p.ps |-> i])
PatVariant(p, d, fail, acc) == [acc EXCEPT !.l = LowerPatLit(d.l, d.v, p.d, fail)]
LowerPat(p, v, fail, acc) ==
    CASE p.k = "wild" -> acc
      [] p.k = "bind" -> [acc EXCEPT !.binds = Append(@, [x |-> p.x, v |-> v])]
      [] p.k = "lit" -> [acc EXCEPT !.l = LowerPatLit(acc.l, v, p.n, fail)]
      [] p.k = "tuple" -> LowerPatChildren(p, v, fail, acc, "field")
      [] p.k = "variant" -> LowerPatChildren(p, v, fail, PatVariant(p, Out(acc.l, Inst("discr", v, 0)), fail, acc), "payload")
BindOne(l, b) == WritePlace(Bind(l, b.x), l.roots + 1, <<>>, b.v)
BindPattern(l, binds) == FoldLeft(BindOne, l, binds)
ArmBody(p, arm) == Pop(LowerBlockRegion(BindPattern(p.l, p.binds), arm.body))
LowerArm(l, arm, v, fail) == ArmBody(LowerPat(arm.p, v, fail, [l |-> Push(l), binds |-> <<>>]), arm)
\* lower_pattern_match: blocks join, one test per later arm, dead
MatchArm(l, i, s, v, join) ==
    BrIfOpen(LowerArm(IF i = 1 THEN l ELSE At(l, join + i - 1), s.arms[i], v, join + i), join)
MatchArms(v, s, join, n) ==
    At(Unreachable(FoldLeft(LAMBDA m, i : MatchArm(m, i, s, v.v, join), Reserve(v.l, n + 1), [i \in 1..n |-> i]), join + n), join)
MatchOn(v, s) == MatchArms(v, s, Len(v.l.blocks) + 1, Len(s.arms))
LowerPatternMatch(l, s) == MatchOn(LowerExpr(l, s.e), s)
BindAll(r) == BindPattern(r.l, r.binds)
Destructure(v, p) == BindAll(LowerPat(p, v.v, Len(v.l.blocks) + 1, [l |-> ReserveBlock(v.l), binds |-> <<>>]))
LowerLetDestructure(l, p, e) == Destructure(LowerExpr(l, e), p)

\* header, body, latch and exit of a loop; the latch advances a for's counter
Plus1(c) == Out(Emit(c.l, Inst("const", 1, 0)), Inst("add", c.v, c.v + 1))
LowerLatch(l, counter) ==
    IF counter = 0 THEN l ELSE StoreIn(Plus1(ReadRoot(l, counter)), counter, <<>>)
LoopEntered(l, header) ==
    [l EXCEPT !.loops = Append(@, [latch |-> header + 2, exit |-> header + 3, mark |-> l.scopeCur])]
LoopLeft(b, l, header) == At(BrIfOpen(CloseScopeRegion([b EXCEPT !.loops = l.loops], l.scopeCur), header + 2), header + 2)
LowerLoopBodyInner(l, body, header, counter) ==
    Pop(At(Br(LowerLatch(LoopLeft(LowerBlockChildren(LoopEntered(l, header), body), l, header), counter), header), header + 3))
\* the four blocks of a loop, the test lowered in the first
LoopHeader(l, header) == At(Br(Reserve(l, 4), header), header)
LoopTest(c, header) == Push(At(Seal(c.l, Term("condbr", c.v, header + 1, header + 3)), header + 1))
WhileAt(l, s, header) ==
    LowerLoopBodyInner(LoopTest(LowerExpr(LoopHeader(l, header), s.c), header), s.body, header, 0)
LowerWhile(l, s) == WhileAt(l, s, Len(l.blocks) + 1)
\* a for keeps its counter in a root of its own and binds a copy each turn
ForTest(i, hi) == Out(i.l, Inst("lt", i.v, hi))
ForBind(v, s) == BindOne(v.l, [x |-> s.x, v |-> v.v])
ForLoop(l, s, header, counter, hi) ==
    LowerLoopBodyInner(ForBind(ReadRoot(LoopTest(ForTest(ReadRoot(LoopHeader(l, header), counter), hi), header), counter), s),
                       s.body, header, counter)
ForOver(l, s, lo, hi) == ForLoop(WritePlace(FreshRoot(l), l.roots + 1, <<>>, lo), s, Len(l.blocks) + 1, l.roots + 1, hi)
ForBounds(r, s) == ForOver(r.l, s, r.vs[1], r.vs[2])
LowerFor(l, s) == ForBounds(LowerAll(l, <<s.lo, s.hi>>), s)
LowerJumpBare(l, to) == \* a jump that runs no deferred body
    IF l.loops = <<>> THEN Err(l, "jump outside a loop")
    ELSE Br(l, IF to = "exit" THEN Last(l.loops).exit ELSE Last(l.loops).latch)
LowerJump(l, to) ==
    IF l.loops = <<>> THEN Err(l, "jump outside a loop")
    ELSE LET t == Last(l.loops) b == IF to = "exit" THEN t.exit ELSE t.latch
         IN RecordExit(Br(l, b), l.cur, b, "normal", ScopesLeftTo(l, l.scopeCur, t.mark))

\* lower_defer: the body gets a block of its own, reached only by exits, and
\* what follows the statement a scope that owes it
DeferBody(l, s, body) == Pop(LowerBlockRegion(Push(At(Br(Reserve(l, 2), body + 1), body)), s.body))
DeferRow(b, s, body) == [BrIfOpen(b, BODY_END) EXCEPT !.defers = Append(@, [kind |-> s.kind, body |-> body])]
DeferScope(l, parent) == PushScope(l, Scope(parent, Len(l.defers), 0, 0))
DeferRest(l, rest) == [At(l, rest) EXCEPT !.blocks[rest].scope = l.scopeCur]
LowerDefer(l, s) ==
    LET body == Len(l.blocks) + 1
    IN DeferRest(DeferScope(DeferRow(DeferBody(l, s, body), s, body), l.scopeCur), body + 1)

\* lower_with: the arena is entered in a scope of its own and left where the
\* block falls through
WithEntered(l, s, r, body) == \* r: the region
    LET sc == [PushScope(l, Scope(l.scopeCur, 0, 0, r)) EXCEPT !.regions = r]
    IN Out(Bind(Push(At(Br(ReserveBlock(sc), body), body)), s.x), Inst("enter", r, 0))
WithBody(in, s) == Pop(LowerBlockRegion(WritePlace(in.l, in.l.roots, <<>>, in.v), s.body))
WithLeft(b, mark, r) ==
    LET left == [b EXCEPT !.scopeCur = mark] cont == Len(b.blocks) + 1
    IN IF IsOpen(b) THEN At(Br(ReserveBlock(Emit(left, Inst("exit", r, 0))), cont), cont) ELSE left
LowerWith(l, s) == WithLeft(WithBody(WithEntered(l, s, l.regions + 1, Len(l.blocks) + 1), s), l.scopeCur, l.regions + 1)
LowerAttrBlock(l, s) == [Scoped([l EXCEPT !.relax = TRUE], s.body) EXCEPT !.relax = l.relax]

LowerStmt(l, s) ==
    CASE s.k = "let" -> LowerLet(l, s.x, s.e)
      [] s.k = "letlin" -> OpenObligationScope(LowerLet(l, s.x, s.e), l.roots + 1)
      [] s.k = "letpat" -> LowerLetDestructure(l, s.p, s.e)
      [] s.k \in {"set", "opset"} -> LowerAssign(l, s.x, <<>>, s.e)
      [] s.k = "setfield" -> LowerAssign(l, s.x, <<Seg("field", s.f)>>, s.e)
      [] s.k = "setindex" -> LowerIndexAssign(l, s.x, s.i, s.e)
      [] s.k = "expr" -> LowerExpr(l, s.e).l
      [] s.k = "return" -> LowerReturn(l, s.e)
      [] s.k = "raise" -> LowerRaise(l, s.e)
      [] s.k = "if" -> LowerIfStmt(l, s)
      [] s.k = "switch" -> LowerSwitch(l, s)
      [] s.k = "match" -> LowerPatternMatch(l, s)
      [] s.k = "while" -> LowerWhile(l, s)
      [] s.k = "for" -> LowerFor(l, s)
      [] s.k = "break" -> LowerJump(l, "exit")
      [] s.k = "continue" -> LowerJump(l, "latch")
      [] s.k = "defer" -> LowerDefer(l, s)
      [] s.k = "with" -> LowerWith(l, s)
\* every statement but a block first makes sure a block is open
LowerChild(l, s) ==
    CASE s.k = "block" -> Scoped(l, s.body)
      [] s.k = "attr" -> LowerAttrBlock(l, s)
      [] OTHER -> LowerStmt(EnsureOpen(l), s)

BindParams(l, params) ==
    FoldLeft(LAMBDA m, p : LET b == Bind(m, p.x) IN
                 IF p.conv = "inout" THEN [b EXCEPT !.indirect = @ \cup {b.roots}] ELSE b, l, params)
FallOff(b) == IF IsOpen(b) THEN LeaveFn(EmitExitContracts(b), "ret", NoOperand, "normal") ELSE b
LowerFn(f) ==
    FallOff(LowerBlockChildren([Check(Check(BindParams(Fresh, f.params), f.pre), f.inv) EXCEPT !.post = f.post, !.inv = f.inv],
                               f.body))
\* finish: an unsealed block is unreachable
Finish(l) ==
    [code |-> l.insts, scopes |-> l.scopes, defers |-> l.defers, exits |-> l.exits, err |-> l.err,
     blocks |-> [b \in DOMAIN l.blocks |-> IF l.blocks[b].term = Open
                    THEN [l.blocks[b] EXCEPT !.term = Term("unreachable", 0, 0, 0)] ELSE l.blocks[b]]]
Lower(f) == Finish(LowerFn(f))

=============================================================================
