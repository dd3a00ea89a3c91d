----------------------------- MODULE Authority -----------------------------
(***************************************************************************)
(* What a body may do (fors-check authority): sealed operations, root      *)
(* capabilities, comptime blocks, inline assembly, and the brands of       *)
(* arenas and allocators.                                                  *)
(*                                                                         *)
(* A module has the capabilities it needs, the files it lists as inputs    *)
(* and its imports; a function its module, whether it or the declaration   *)
(* around it is generic or @unsafe, its parameters and its body.  A        *)
(* statement is a record whose k says what it is.                          *)
(***************************************************************************)
EXTENDS FirTypes

Own == <<"Own">>
Ref == <<"Ref">>
Arena == <<"Arena">>
RootCapTypes == {<<"io", "Stdout">>, <<"io", "Stderr">>, <<"io", "Stdin">>, <<"fs", "Dir">>, <<"net", "Net">>, <<"proc", "Exec">>,
                 <<"time", "Clock">>, <<"rand", "Rng">>, <<"env", "Env">>, <<"env", "Args">>, <<"gpu", "Device">>, <<"mem", "Heap">>}
SyscallClass == {"svc", "syscall", "sysenter", "int"}
BrandDepth == 16

NeedsHas(m, cap) == cap \in m.needs
Called(u) == IF u.alias = "" THEN Last(u.path) ELSE u.alias
StdUses(m, head) == SelectSeq(m.uses, LAMBDA u : Len(u.path) = 2 /\ u.path[1] = "std" /\ Called(u) = head)
StdModuleOfHead(m, head) == IF StdUses(m, head) = <<>> THEN "" ELSE StdUses(m, head)[1].path[2]
GenericAlone(f) == f.generic
GenericDecl(f) == f.generic \/ f.parent.generic
UnsafeDecl(f) == f.unsafe \/ f.parent.unsafe

-----------------------------------------------------------------------------
(* Checking a body: the comptime blocks open, what each local is (its      *)
(* type, the brand a `with` made for it, the comptime blocks that were     *)
(* open where it was introduced), the `with`s so far, the codes reported.  *)

Enter(p, f) ==
    [m |-> p.mods[f.module], f |-> f, fns |-> p.fns, depth |-> 0, fresh |-> 0, codes |-> {},
     locals |-> [x \in DOMAIN f.params |-> [ty |-> f.params[x], brand |-> NoTy, depth |-> 0]]]
Report(cx, code) == IF code = "" THEN cx ELSE [cx EXCEPT !.codes = @ \cup {code}]
ReportIf(cx, c, code) == IF c THEN Report(cx, code) ELSE cx
LocalOf(cx, x, ty, brand) == [cx EXCEPT !.locals = (x :> [ty |-> ty, brand |-> brand, depth |-> cx.depth]) @@ @]
IsWith(cx, x) == cx.locals[x].brand # NoTy
StdPath(cx, w) ==
    IF Len(w) # 2 \/ w[1] \in DOMAIN cx.locals \/ StdModuleOfHead(cx.m, w[1]) = "" THEN <<>>
    ELSE <<StdModuleOfHead(cx.m, w[1]), w[2]>>

\* A comptime block reaches no local from outside the innermost one.
ComptimeReach(cx, x) == ReportIf(cx, cx.depth > 0 /\ cx.locals[x].depth < cx.depth, "A12")
Reach(cx, xs) == FoldLeft(ComptimeReach, cx, xs)

AuthorityStructLit(cx, head) ==
    Report(cx, IF head = <<"unsafe">> /\ "unsafe" \notin DOMAIN cx.locals THEN "A10"
               ELSE IF StdPath(cx, head) \in RootCapTypes THEN "A7"
               ELSE IF head \in {Arena, <<"PageAllocator">>} /\ head[1] \notin DOMAIN cx.locals THEN "O15"
               ELSE "")

ExternCall(cx) == ReportIf(cx, cx.depth > 0 \/ GenericDecl(cx.f) \/ ~NeedsHas(cx.m, "ffi"), "A2")
ReadCall(cx, s) ==
    ReportIf(cx, /\ cx.depth > 0
                 /\ StdPath(cx, s.path) = <<"fs", "read_to_string">>
                 /\ s.file \notin cx.m.inputs, "A13")

\* The type of an argument that is a local, under at most three of `move`,
\* `&` and a label.
PeekLocalTy(cx, arg) == IF arg.under > 3 \/ arg.x \notin DOMAIN cx.locals THEN NoTy ELSE cx.locals[arg.x].ty
BrandOf(t, def) == IF t.tag = "nominal" /\ t.key = def /\ Len(t.kids) > 1 /\ t.kids[2].tag = "brand" THEN t.kids[2] ELSE NoTy
OtherBrand(t, def, brand) == BrandOf(Unqual(t), def) \notin {NoTy, brand}
DeinitCall(cx, s) ==
    ReportIf(cx, IsWith(cx, s.at) /\ \E i \in DOMAIN s.args : OtherBrand(PeekLocalTy(cx, s.args[i]), Own, cx.locals[s.at].brand), "O18")

RECURSIVE Walk(_, _, _)
WalkKids(a, b, d) == IF Len(a.kids) # Len(b.kids) THEN {"no"} ELSE {Walk(a.kids[i], b.kids[i], d + 1) : i \in DOMAIN a.kids}
Worst(answers) == IF "no" \in answers THEN "no" ELSE IF "differ" \in answers THEN "differ" ELSE "same"
Walk(a, b, d) ==
    IF a = b THEN "same"
    ELSE IF d > BrandDepth \/ a.tag # b.tag THEN "no"
    ELSE IF a.tag = "brand" THEN "differ"
    ELSE IF a.tag \in {"nominal", "tuple"} /\ a.key = b.key THEN Worst(WalkKids(Unqual(a), Unqual(b), d))
    ELSE "no"
BrandOnlyMismatch(s, want) == Walk(s, want, 0) = "differ"
Subsume(cx, s, want) ==
    Report(cx, IF s = want \/ TyError \in {s, want} THEN "" ELSE IF BrandOnlyMismatch(s, want) THEN "T26 brands" ELSE "T26")

ArenaMove(cx, x) ==
    ReportIf(cx, IsWith(cx, x) \/ (cx.locals[x].ty.tag = "nominal" /\ cx.locals[x].ty.key = Arena), "O15")
ArenaIndex(cx, arena, by) ==
    IF OtherBrand(by, Ref, arena.kids[2]) THEN Report(cx, "O16") ELSE Subsume(cx, by, Nominal(Ref, arena.kids))

\* Every primitive fits a register but a string.
Str == 13
RegisterTy(t) == t.tag = "prim" /\ t.data # <<Str>>
AsmShape(want, outs) ==
    IF outs = 0 THEN want = TyUnit
    ELSE IF outs = 1 THEN RegisterTy(want)
    ELSE want.tag = "tuple" /\ Len(want.kids) = outs /\ \A i \in DOMAIN want.kids : RegisterTy(want.kids[i])
Mnemonic(l) == IF l.multi THEN "" ELSE l.word
AsmExpr(cx, s) ==
    Report(cx, IF ~NeedsHas(cx.m, "asm") \/ ~UnsafeDecl(cx.f) THEN "A22"
               ELSE IF ~NeedsHas(cx.m, "syscall") /\ \E l \in s.lines : Mnemonic(l) \in SyscallClass THEN "A23"
               ELSE IF cx.depth > 0 \/ GenericDecl(cx.f) THEN "A2"
               ELSE IF s.want = NoTy \/ (s.want # TyError /\ ~AsmShape(s.want, s.outs)) THEN "A27"
               ELSE "")
UnsafeBlockForm(cx, attrs) == ReportIf(cx, "unsafe" \in attrs, "A10")

\* A call of a function of the build: its own parameters from the arguments.
FnCall(cx, g, xs) ==
    LET m == MatchAll([i \in DOMAIN g.order |-> g.params[g.order[i]]], [i \in DOMAIN xs |-> cx.locals[xs[i]].ty],
                      Fresh([def |-> <<g.name>>, arity |-> 2], NeutralOnly), "strict")
    IN ReportIf(cx, ~m.ok, "T26 brands")

-----------------------------------------------------------------------------
WithTy(cx) == FreshBrand(<<cx.f.name>>, cx.fresh)
Put(cx, s, brand) == LocalOf(cx, s.x, Nominal(s.ty, <<Prim(1), brand>>), NoTy)
RECURSIVE Check(_, _)
CheckBody(cx, ss) == FoldLeft(Check, cx, ss)
Leave(cx, after) == [after EXCEPT !.locals = cx.locals, !.depth = cx.depth]
Check(cx, s) ==
    CASE s.k = "with" ->
            Leave(cx, CheckBody([LocalOf(cx, s.x, Nominal(Arena, <<Prim(1), WithTy(cx)>>), WithTy(cx)) EXCEPT !.fresh = @ + 1], s.body))
      [] s.k = "comptime" -> Leave(cx, CheckBody([cx EXCEPT !.depth = @ + 1], s.body))
      [] s.k = "block" -> Leave(cx, CheckBody(UnsafeBlockForm(cx, s.attrs), s.body))
      [] s.k = "put" -> Put(Reach(cx, <<s.at>>), s, cx.locals[s.at].ty.kids[2])
      [] s.k = "index" -> ArenaIndex(Reach(cx, <<s.at, s.by>>), cx.locals[s.at].ty, cx.locals[s.by].ty)
      [] s.k = "deinit" -> DeinitCall(Reach(cx, <<s.at>> \o [i \in DOMAIN s.args |-> s.args[i].x]), s)
      [] s.k = "move" -> ArenaMove(Reach(cx, <<s.x>>), s.x)
      [] s.k = "call" -> FnCall(Reach(cx, s.args), cx.fns[s.fn], s.args)
      [] s.k = "extern" -> ExternCall(cx)
      [] s.k = "read" -> ReadCall(cx, s)
      [] s.k = "asm" -> AsmExpr(Reach(cx, s.ins), s)
      [] s.k = "lit" -> AuthorityStructLit(cx, s.head)
CodesOf(p) == [g \in DOMAIN p.fns |-> CheckBody(Enter(p, p.fns[g]), p.fns[g].body).codes]

-----------------------------------------------------------------------------
(* What running the program from main does.  A value is the arena it       *)
(* belongs to, named by the place in the run where its block was entered;  *)
(* the code of a generic function is emitted in the object of whoever      *)
(* instantiates it.  wrong collects what must never happen.                *)

Instantiated(f) == f.generic \/ f.parent.generic
Named(u) == IF u.alias = "" THEN Last(u.path) ELSE u.alias
Started(p, g, obj, at, env) ==
    [p |-> p, obj |-> IF Instantiated(p.fns[g]) THEN obj ELSE p.fns[g].module, f |-> p.fns[g], at |-> at, n |-> 0,
     env |-> env, depth |-> 0, wrong |-> {}]
Knows(e, x, arena) == [e EXCEPT !.env = (x :> [arena |-> arena, depth |-> e.depth]) @@ @]
Wrong(e, c, what) == IF c THEN [e EXCEPT !.wrong = @ \cup {what}] ELSE e
Sealed(e, caps) == Wrong(Wrong(e, ~(caps \subseteq e.p.mods[e.obj].needs), "sealed bytes without the capability"), e.depth > 0, "sealed at comptime")
Uses(e, xs) == Wrong(e, \E x \in xs : e.env[x].depth < e.depth, "run time reached from comptime")
Denotes(e, w) ==
    {u.path \o Tail(w) : u \in {x \in Range(e.p.mods[e.f.module].uses) : Named(x) = w[1] /\ w[1] \notin DOMAIN e.env /\ Len(x.path) = 2}}
Forms(want) == IF want = TyUnit THEN <<>> ELSE IF want.tag = "tuple" THEN want.kids ELSE <<want>>
Words(t) == IF t.tag # "prim" THEN 0 ELSE IF t.data = <<Str>> THEN 2 ELSE 1
RECURSIVE Does(_, _)
DoesAll(e, ss) == FoldLeft(Does, e, ss)
Back(e, after) == [e EXCEPT !.wrong = after.wrong, !.n = after.n]
Returned(e, after) == [e EXCEPT !.wrong = @ \cup after.wrong]
Step(e) == [e EXCEPT !.n = @ + 1]
Place(e) == Append(e.at, e.n)
Does(e0, s) ==
    LET e == Step(e0)
    IN CASE s.k = "with" -> Back(e, DoesAll(Knows(e, s.x, Place(e)), s.body))
         [] s.k = "comptime" -> Back(e, DoesAll([e EXCEPT !.depth = @ + 1], s.body))
         [] s.k = "block" -> Back(e, DoesAll(e, s.body))
         [] s.k = "put" -> Knows(Uses(e, {s.at}), s.x, e.env[s.at].arena)
         [] s.k = "index" -> Wrong(Uses(e, {s.at, s.by}), e.env[s.at].arena # e.env[s.by].arena, "another arena's element")
         [] s.k = "deinit" -> Wrong(Uses(e, {s.at} \cup {s.args[i].x : i \in DOMAIN s.args}),
                                    \E i \in DOMAIN s.args : e.env[s.args[i].x].arena # e.env[s.at].arena, "released by another allocator")
         [] s.k = "move" -> Wrong(Uses(e, {s.x}), s.whole, "an arena moved")
         [] s.k = "call" -> Returned(Uses(e, Range(s.args)),
                                     DoesAll(Started(e.p, s.fn, e.obj, Place(e),
                                                     [x \in DOMAIN e.p.fns[s.fn].params |->
                                                        [e.env[s.args[CHOOSE i \in DOMAIN s.args : e.p.fns[s.fn].order[i] = x]] EXCEPT !.depth = 0]]),
                                             e.p.fns[s.fn].body))
         [] s.k = "extern" -> Sealed(e, {"ffi"})
         [] s.k = "read" -> Wrong(e, e.depth > 0 /\ <<"std", "fs", "read_to_string">> \in Denotes(e, s.path) /\ s.file \notin e.p.mods[e.f.module].inputs, "an input not declared")
         [] s.k = "asm" -> Wrong(Sealed(Uses(e, Range(s.ins)), {"asm"} \cup {"syscall" : l \in {x \in s.lines : ~x.multi /\ x.word \in SyscallClass}}),
                                 Len(Forms(s.want)) # s.outs \/ \E i \in DOMAIN Forms(s.want) : Words(Forms(s.want)[i]) # 1, "an output without a register")
         [] s.k = "lit" -> Wrong(e, Denotes(e, s.head) \cap {<<"std">> \o t : t \in RootCapTypes} # {}, "a capability made")
RunOf(p) == DoesAll(Started(p, "main", p.fns["main"].module, <<>>, <<>>), p.fns["main"].body).wrong

Judged(p) == [codes |-> CodesOf(p), wrong |-> RunOf(p)]
AuthorityRight(x) == (\A g \in DOMAIN x.codes : x.codes[g] = {}) => x.wrong = {}

RECURSIVE Erased(_)
Erased(t) == [t EXCEPT !.q = {}, !.key = IF t.tag = "brand" THEN <<>> ELSE @, !.data = IF t.tag = "brand" THEN <<>> ELSE @,
                       !.kids = [i \in DOMAIN @ |-> Erased(@[i])]]

-----------------------------------------------------------------------------
(* Programs.                                                               *)

Outer == [generic |-> FALSE, unsafe |-> FALSE]
Fn(name, module, order, params, body) ==
    [name |-> name, module |-> module, generic |-> FALSE, unsafe |-> FALSE, parent |-> Outer, order |-> order, params |-> params, body |-> body]
Module(needs, inputs, uses) == [needs |-> needs, inputs |-> inputs, uses |-> uses]
Use(path, alias) == [path |-> path, alias |-> alias]
With(x, body) == [k |-> "with", x |-> x, body |-> body]
Comptime(body) == [k |-> "comptime", body |-> body]
PutIn(x, ty, at) == [k |-> "put", x |-> x, ty |-> ty, at |-> at]
IndexBy(at, by) == [k |-> "index", at |-> at, by |-> by]
Deinit(at, xs) == [k |-> "deinit", at |-> at, args |-> [i \in DOMAIN xs |-> [x |-> xs[i], under |-> i]]]
Move(x, whole) == [k |-> "move", x |-> x, whole |-> whole]
CallOf(fn, args) == [k |-> "call", fn |-> fn, args |-> args]
Asm(lines, ins, outs, want) == [k |-> "asm", lines |-> lines, ins |-> ins, outs |-> outs, want |-> want]
Line(word) == [multi |-> FALSE, word |-> word]
Extern == [k |-> "extern"]

\* Functions over brands: element and arena of one brand, and of two.
Of(def, n) == Nominal(def, <<Prim(1), Brand(<<n[1]>>, n[2])>>)
Touch == [Fn("touch", "m", <<"a", "r">>, [a |-> Of(Arena, <<"touch", 0>>), r |-> Of(Ref, <<"touch", 0>>)], <<IndexBy("a", "r")>>) EXCEPT !.generic = TRUE]
Cross == [Fn("cross", "m", <<"a", "r">>, [a |-> Of(Arena, <<"cross", 0>>), r |-> Of(Ref, <<"cross", 1>>)], <<>>) EXCEPT !.generic = TRUE]
Crosses == {[Cross EXCEPT !.body = b] : b \in {<<>>, <<IndexBy("a", "r")>>, <<CallOf("touch", <<"a", "r">>)>>, <<Move("a", TRUE)>>}}
BrandSteps ==
    {IndexBy(a, r) : a \in {"one", "two"}, r \in {"x", "y", "z"}} \cup {Deinit(a, <<o>>) : a \in {"one", "two"}, o \in {"o", "q"}}
    \cup {Deinit("one", <<"o", "q">>), Move("one", TRUE), Move("x", FALSE), Comptime(<<IndexBy("two", "y")>>),
          Comptime(<<With("c", <<PutIn("w", Ref, "c"), IndexBy("c", "w"), Comptime(<<IndexBy("c", "w")>>)>>)>>)}
    \cup {CallOf(f, <<a, r>>) : f \in {"touch", "cross"}, a \in {"one", "two"}, r \in {"x", "y"}}
BrandBody(s, t) ==
    <<With("one", <<PutIn("x", Ref, "one"), PutIn("o", Own, "one"), s[1],
                    With("two", <<PutIn("y", Ref, "two"), PutIn("q", Own, "two"), PutIn("z", Ref, "one")>> \o t)>>)>>
BrandPrograms ==
    {[mods |-> [m |-> Module({}, {}, <<>>)],
      fns |-> [main |-> Fn("main", "m", <<>>, <<>>, BrandBody(<<IndexBy("one", "x")>>, <<s, t>>)), touch |-> Touch, cross |-> c]] :
       s \in BrandSteps, t \in BrandSteps, c \in Crosses}

\* A function with a sealed operation, in a module or instantiated from another.
SealedSteps ==
    {Extern, Comptime(<<Extern>>), Comptime(<<[k |-> "block", attrs |-> {}, body |-> <<Asm({Line("nop")}, <<>>, 0, TyUnit)>>]>>)}
    \cup {Asm(ls, <<>>, o, w) : ls \in {{Line("nop")}, {Line("nop"), Line("svc")}}, o \in 0..2,
                                w \in {NoTy, TyUnit, Prim(1), Tuple(<<Prim(1), Prim(1)>>), Tuple(<<Prim(1), Prim(1), Prim(1)>>), Tuple(<<Prim(1), TyUnit>>), Prim(Str)}}
Marks == [generic : BOOLEAN, unsafe : BOOLEAN]
SealedFn(module, own, parent, s) ==
    [Fn("g", module, <<>>, <<>>, <<s>>) EXCEPT !.generic = own.generic, !.unsafe = own.unsafe, !.parent = parent]
SealedPrograms ==
    {[mods |-> [m |-> Module(nm, {}, <<>>), h |-> Module(nh, {}, <<>>)],
      fns |-> [main |-> Fn("main", "m", <<>>, <<>>, <<CallOf("g", <<>>)>>), g |-> SealedFn(at, own, parent, s)]] :
       nm \in {{}, {"asm"}}, nh \in {{"ffi", "asm"}, {"asm", "syscall"}}, at \in {"m", "h"}, own \in Marks, parent \in {Outer, [Outer EXCEPT !.generic = TRUE]},
       s \in SealedSteps}

\* Names of std through imports, hidden or not; blocks and literals.
NameSteps ==
    {[k |-> "lit", head |-> w] : w \in {<<"fs", "Dir">>, <<"f", "Dir">>, <<"io", "Dir">>, <<"fs", "Stdout">>, <<"unsafe">>, Arena, <<"S">>}}
    \cup {[k |-> "read", path |-> <<h, "read_to_string">>, file |-> f] : h \in {"fs", "f"}, f \in {"", "listed", "other"}}
    \cup {[k |-> "block", attrs |-> as, body |-> <<>>] : as \in {{}, {"unsafe"}, {"cold"}}}
UseLists == {<<>>, <<Use(<<"std", "fs">>, "")>>, <<Use(<<"std", "fs">>, "f")>>, <<Use(<<"std", "io">>, "fs"), Use(<<"std", "fs">>, "f")>>,
             <<Use(<<"own", "fs">>, ""), Use(<<"std", "io">>, "")>>}
NamePrograms ==
    {[mods |-> [m |-> Module({}, {"listed"}, us)], fns |-> [main |-> Fn("main", "m", <<>>, <<>>, b)]] :
       us \in UseLists, b \in UNION {{<<s>>, <<Comptime(<<s>>)>>, <<With("fs", <<s>>)>>, <<With("unsafe", <<Comptime(<<s>>)>>)>>} : s \in NameSteps}}
Programs == BrandPrograms \cup SealedPrograms \cup NamePrograms

BrandTypes ==
    LET brands == {Brand(<<"f">>, 0), FreshBrand(<<"f">>, 0), FreshBrand(<<"f">>, 1)}
        refs == {Nominal(d, <<Prim(1), b>>) : d \in {Ref, Own}, b \in brands}
    IN refs \cup {Tuple(<<r, s>>) : r \in refs, s \in refs} \cup {Nominal(Ref, <<r, b>>) : r \in refs, b \in brands}
       \cup {Tuple(<<r>>) : r \in refs} \cup {Prim(1), Prim(2)}

=============================================================================
