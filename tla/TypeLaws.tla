------------------------------ MODULE TypeLaws ------------------------------
(***************************************************************************)
(* What the operations of FirTypes are for, said without them, and the     *)
(* small types they are tried on.                                          *)
(***************************************************************************)
EXTENDS FirTypes

Key(n) == <<[up |-> <<>>, mod |-> <<<<109>>>>, kind |-> 2, name |-> <<<<n>>>>, dis |-> 0]>>
I32 == Prim(2)
U8 == Prim(5)
Vec == Key(1)
Opt == Key(2)
Iter == Key(3)
Conv == Key(4)
Fun == Key(10)          \* the declaration whose parameters are matched
Other == Key(11)
T0 == Param(Fun, 0)
T1 == Param(Fun, 1)
ItemOf(t) == Proj(t, Iter, <<>>, <<73>>)

\* Replacing parameters, by its textbook definition.
RECURSIVE Plain(_, _)
Plain(t, s) ==
    IF IsParam(t) /\ SlotOf(t) \in DOMAIN s THEN Qualified(s[SlotOf(t)], t.q)
    ELSE [t EXCEPT !.kids = [i \in DOMAIN t.kids |-> Plain(t.kids[i], s)]]

-----------------------------------------------------------------------------
(* Matching: patterns over two parameters and a brand of Fun.              *)

Iso(t) == Qualified(t, {"iso"})
Patterns ==
    {T0, Iso(T0), Nominal(Vec, <<T0>>), Iso(Nominal(Vec, <<T0>>)), Nominal(Vec, <<Iso(T0)>>), Tuple(<<T0, T1>>),
     Tuple(<<T0, T0>>), Tuple(<<T0, Iso(T0)>>), Tuple(<<Nominal(Vec, <<T1>>), T0>>), Dyn(Conv, <<T0>>),
     FnTy(0, <<1>>, <<T0, T1>>), FnTy(0, <<1>>, <<T0, T1, T0>>), FnTy(1, <<2, 1>>, <<T0, Iso(T1), I32>>),
     Nominal(Opt, <<ConstVal(<<2, 1>>, T0)>>), Nominal(Opt, <<Brand(Fun, 1), T0>>), Nominal(Opt, <<Brand(Other, 1), T0>>),
     Tuple(<<Param(Other, 0), T0>>), Tuple(<<T0, ItemOf(T0)>>), Tuple(<<ItemOf(T0), T0>>), Iso(Tuple(<<T0>>))}
Brands == {FreshBrand(Key(12), 0), Brand(Other, 1)}
Values == {I32, U8, TyUnit, Nominal(Vec, <<I32>>), Param(Other, 0), Tuple(<<I32, U8>>), FreshBrand(Key(12), 0), Iso(U8)}
Slots == {<<Fun, 0>>, <<Fun, 1>>}
\* A brand parameter stands for a brand, any other for a type.
Assignments(p) ==
    {s \in [Slots -> Values \cup Brands] :
        \A k \in Slots : IF Mentions(p, Brand(k[1], k[2])) THEN s[k] \in Brands ELSE s[k] \in Values}
Bound(s) == [Binding(Fun :> 2) EXCEPT !.at = s]
HasProj(t) == "proj" \in Flags(t)
Unqualified(s) == \A k \in DOMAIN s : s[k].q = {}
MentionedBound(p, b) == FirstUnbound(p, b) = <<>>

\* Substituting does what the textbook says, and matching is its inverse.
Substituted(p, s) ==
    Unqualified(s) /\ ~HasProj(p) => SubstNorm(p, Bound(s)) = Plain(p, s)
InverseOf(p, s, m) ==
    m.ok /\ MentionedBound(p, m.b) /\ \A k \in DOMAIN m.b.at : m.b.at[k] \in {NoTy, s[k]}
Inverts(p, s) ==
    \A t \in {SubstNorm(p, Bound(s))} : t # NoTy => InverseOf(p, s, OneWayMatch(p, t, Binding(Fun :> 2)))
\* A match that holds when it is tried again determines the target.
Sound(p, t) ==
    LET m == OneWayMatch(p, t, Binding(Fun :> 2))
    IN m.ok /\ MentionedBound(p, m.b) /\ OneWayMatch(p, t, m.b).ok => SubstNorm(p, m.b) = t

-----------------------------------------------------------------------------
(* Overlap of impls with one parameter each.                               *)

HeadsOf(d) ==
    {Param(d, 0), I32, Nominal(Vec, <<Param(d, 0)>>), Nominal(Vec, <<I32>>), Nominal(Vec, <<Nominal(Vec, <<Param(d, 0)>>)>>),
     Tuple(<<Param(d, 0), Param(d, 0)>>), Tuple(<<Param(d, 0), Nominal(Vec, <<Param(d, 0)>>)>>), Tuple(<<I32, U8>>),
     Tuple(<<Param(d, 0), U8>>), Dyn(Conv, <<I32>>)}
Row(d, tr, args, self, rhs) == [def |-> d, arity |-> 1, tr |-> tr, args |-> args, self |-> self, rhs |-> rhs]
RowsOf(d) == {Row(d, Conv, <<a>>, h, <<>>) : a \in {Param(d, 0), U8, Nominal(Vec, <<Param(d, 0)>>)}, h \in HeadsOf(d)}
Grounds ==
    LET g0 == {I32, U8, Dyn(Conv, <<I32>>)}
        g1 == g0 \cup {Nominal(Vec, <<g>>) : g \in g0} \cup {Tuple(<<x, y>>) : x, y \in {I32, U8}}
    IN g1 \cup {Nominal(Vec, <<g>>) : g \in g1} \cup {Tuple(<<g, Nominal(Vec, <<g>>)>>) : g \in g0}
GroundHeads(r) == {<<Plain(r.self, <<r.def, 0>> :> g), Plain(r.args[1], <<r.def, 0>> :> g)>> : g \in Grounds}
Unconstrained(r) == FirstUnconstrained(r.def, [o \in {0} |-> FALSE], {r.self} \cup ToSet(r.args))
Determined(r) ==
    \A g, h \in Grounds : g # h => \E t \in {r.self} \cup ToSet(r.args) : Plain(t, <<r.def, 0>> :> g) # Plain(t, <<r.def, 0>> :> h)
CommonInstance(a, b) == GroundHeads(a) \cap GroundHeads(b) # {}

-----------------------------------------------------------------------------
(* Linearity: H is declared linear, Own and Slice are built in.            *)

H == Key(20)
Own == Key(21)
Slice == Key(22)
Arr == Key(23)
SA == Key(24)           \* struct A { h: H }
SB == Key(25)           \* struct B[T] { t: T, s: Slice[A] }
SC == Key(26)           \* enum C { X(B[i32]), Y{ a: (u8, A) } }
SD == Key(27)           \* struct D[T] { s: Slice[D[T]], v: [T; 4], n: u8 }
LinSigs ==
    (SA :> [arity |-> 0, tys |-> <<I32, Nominal(H, <<>>)>>]) @@ (SB :> [arity |-> 1, tys |-> <<Param(SB, 0), Nominal(Slice, <<Nominal(SA, <<>>)>>)>>])
    @@ (SC :> [arity |-> 0, tys |-> <<Nominal(SB, <<I32>>), Tuple(<<U8, Nominal(SA, <<>>)>>)>>])
    @@ (SD :> [arity |-> 1, tys |-> <<Nominal(Slice, <<Nominal(SD, <<Param(SD, 0)>>)>>), Nominal(Arr, <<Param(SD, 0)>>), U8>>])
LinEnv == [roots |-> {H}, own |-> {Own}, opaque |-> {Slice}, byValue |-> {Arr}, rigid |-> {T0, ItemOf(T0)}]
LinBase == {I32, T0, T1, ItemOf(T0), TyError, Nominal(H, <<>>), Nominal(SA, <<>>), Nominal(SC, <<>>), Dyn(Conv, <<>>)}
LinTypes ==
    LinBase \cup {Nominal(k, <<x>>) : k \in {Own, Slice, Arr, SB, SD}, x \in LinBase}
    \cup {Tuple(<<I32, x>>) : x \in LinBase} \cup {Nominal(SB, <<Nominal(SD, <<x>>)>>) : x \in LinBase}
    \cup {Iso(Nominal(SB, <<x>>)) : x \in LinBase}

\* The types a value holds inside itself, by reading the declarations.
Inside(q) ==
    LET t == Unqual(q)
    IN IF t.tag = "tuple" THEN ToSet(t.kids)
       ELSE IF t.tag # "nominal" \/ t.key \in LinEnv.own \cup LinEnv.opaque \cup LinEnv.roots THEN {}
       ELSE IF t.key \in LinEnv.byValue THEN ToSet(t.kids)
       ELSE {Plain(c, [k \in {<<t.key, i - 1>> : i \in DOMAIN t.kids} |-> t.kids[k[2] + 1]]) : c \in ToSet(LinSigs[t.key].tys)}
RECURSIVE Reached(_, _)
Reached(ts, n) == IF n = 0 THEN ts ELSE Reached(ts \cup UNION {Inside(t) : t \in ts}, n - 1)
HoldsLinear(t) ==
    \/ \E r \in Reached({t}, 8) : r.tag = "nominal" /\ r.key \in LinEnv.roots \cup LinEnv.own
    \/ Unqual(t) \in LinEnv.rigid
RigidInside(t) == {Unqual(r) : r \in {x \in Reached({t}, 8) : Rigid(x)}}
HoldsLinearInside(t) == \E c \in Inside(t) : c \notin LinEnv.rigid /\ HoldsLinear(c)

-----------------------------------------------------------------------------
(* Normalisation: Base, W[T] and P[T, U] have an Item.                     *)

SBase == Key(30)
SW == Key(31)
SP == Key(32)
Item == <<73>>
Impl(d, arity, tr, args, self, rhs) ==
    [def |-> Key(d), arity |-> arity, tr |-> tr, args |-> args, self |-> self, rhs |-> rhs]
PT(d, i) == Param(Key(d), i)
Base == Nominal(SBase, <<>>)
W(t) == Nominal(SW, <<t>>)
Impls ==
    <<Impl(40, 0, Iter, <<>>, Base, Item :> I32),
      Impl(41, 1, Iter, <<>>, W(PT(41, 0)), Item :> Proj(PT(41, 0), Iter, <<>>, Item)),
      Impl(42, 2, Iter, <<>>, Nominal(SP, <<PT(42, 0), PT(42, 1)>>),
           Item :> Tuple(<<Proj(PT(42, 0), Iter, <<>>, Item), Proj(PT(42, 1), Iter, <<>>, Item)>>)),
      Impl(43, 0, Conv, <<U8>>, Base, Item :> U8),
      Impl(44, 1, Conv, <<PT(44, 0)>>, W(PT(44, 0)), Item :> PT(44, 0)),
      Impl(45, 0, Iter, <<>>, Tuple(<<U8>>), Item :> TyError)>>
Heads == {Base, U8, W(Base), W(W(Base)), W(W(W(Base))), W(W(W(W(Base)))), W(U8), Nominal(SP, <<Base, W(Base)>>),
          Nominal(SP, <<W(U8), W(W(Base))>>), T1, W(T1), Tuple(<<U8>>), W(TyError)}
Question(h) == <<ItemOf(T0), h>>
Questions ==
    {Question(h) : h \in Heads} \cup {<<Proj(T0, Conv, <<a>>, Item), h>> : a \in {U8, Base, ItemOf(T0)}, h \in {Base, W(Base)}}
Ask(q, n) == Subst(q[1], [Binding(Fun :> 2) EXCEPT !.at[<<Fun, 0>>] = q[2]], OpenQuery(n))

\* The item of a head, by the impls as written.
RECURSIVE ItemMeans(_)
ItemMeans(h) ==
    IF Rigid(h) THEN ItemOf(h)
    ELSE IF h = Base THEN I32
    ELSE IF h.tag = "nominal" /\ h.key = SW THEN ItemMeans(h.kids[1])
    ELSE IF h.tag = "nominal" /\ h.key = SP
    THEN IF NoTy \in {ItemMeans(h.kids[1]), ItemMeans(h.kids[2])} THEN NoTy
         ELSE Tuple(<<ItemMeans(h.kids[1]), ItemMeans(h.kids[2])>>)
    ELSE NoTy
ConvMeans(a, h) ==
    IF a = NoTy THEN NoTy ELSE IF h = Base /\ a = U8 THEN U8 ELSE IF h = W(a) THEN a ELSE NoTy
Means(q) ==
    IF q[1] = ItemOf(T0) THEN ItemMeans(q[2])
    ELSE ConvMeans(IF TraitArgs(q[1])[1] = ItemOf(T0) THEN ItemMeans(q[2]) ELSE TraitArgs(q[1])[1], q[2])
\* A question remembered is answered right, whatever was asked, and refused,
\* before; a query that no guard stopped is, too.
MemoRight(n) ==
    \A p \in DOMAIN n.memo :
        n.memo[p] = IF p.key = Iter THEN ItemMeans(HeadOf(p)) ELSE ConvMeans(TraitArgs(p)[1], HeadOf(p))
Stopped(n) == n.exceeded \/ n.deep
AnswerRight(q, r) == r.t = IF Stopped(r.n) THEN NoTy ELSE Means(q)
NoImplRight(n) == n.noimpl # NoTy => \A i \in DOMAIN Impls : Impls[i].tr = n.noimpl.key => HeadKey(Impls[i].self) # HeadKey(HeadOf(n.noimpl))

=============================================================================
