---------------------------- MODULE Declarations ----------------------------
(***************************************************************************)
(* The well-formedness of declarations (fors-check wf.rs) and the          *)
(* authority rules that look only at declarations (authority.rs): whether  *)
(* a type implements a trait, then the passes of Wf::run, each over every  *)
(* impl, use or declaration of the build.                                  *)
(*                                                                         *)
(* A build b has the declarations b.decl in the order b.order, the impl    *)
(* rows b.impls in source order, the uses of dyn and of container elements,*)
(* the @unsafe attributes, and b.poisoned, what lowering already reported. *)
(* A generic parameter is its kind and bounds.  The cache of linearity is  *)
(* left out: FirTypes has it.  Bounds are substituted without the impls.   *)
(* Add stands for the operator traits; no type here nests as deep as the   *)
(* 64 levels at which by_value_mentions stops.                             *)
(***************************************************************************)
EXTENDS FirTypes, FiniteSetsExt

CONSTANTS HOLDS_DEPTH_MAX, SHARED_DEPTH_MAX, COMPONENTS_MAX

Copyable == <<"Copyable">>
Droppable == <<"Droppable">>
Linear == <<"Linear">>
Shared == <<"Shared">>
Iterator == <<"Iterator">>
Index == <<"Index">>
IndexMut == <<"IndexMut">>
Add == <<"Add">>
Markers == {Shared, Copyable, Linear, Droppable}
Operators == {Add}
LanguageKnown == Markers \cup {Iterator, Index, IndexMut, Add}
Own == <<"Own">>
Ref == <<"Ref">>
Arena == <<"Arena">>
Slice == <<"Slice">>
Array == <<"Array">>
Option == <<"Option">>
Atomic == <<"Atomic">>
Vector == <<"vector">>
Mask == <<"mask">>
RangeExcl == <<"Range">>
RangeIncl == <<"RangeIncl">>
PreludeGenerics == {Own, Ref, Arena, Slice, Array, Option, Atomic, Vector, Mask, RangeExcl, RangeIncl}
Bare(tr) == [tr |-> tr, args |-> <<>>]

Item == <<1>>
Output == <<2>>
Parameter(conv, n, t) == [conv |-> conv, n |-> n, ty |-> t]
Method(params, result) ==
    [provided |-> FALSE, gen |-> <<>>, cons |-> 0, params |-> params, result |-> result, scoped |-> FALSE, raises |-> NoTy,
     receiver |-> TRUE]
\* The language's own traits, and what they ask of their impls; Index and
\* IndexMut give a place of the receiver.
Lacks == [assoc |-> <<>>, methods |-> <<>>]
PlaceOf(conv, tr) ==
    [Method(<<Parameter(conv, "self", Param(tr, 0)), Parameter("let", "i", Param(tr, 1))>>,
            Proj(Param(tr, 0), Index, <<Param(tr, 1)>>, Output)) EXCEPT !.scoped = TRUE]
PreludeTraits ==
    [tr \in LanguageKnown |->
        CASE tr = Iterator ->
                [assoc |-> <<[n |-> Item, bounds |-> <<Bare(Droppable)>>]>>,
                 methods |-> [next |-> Method(<<Parameter("inout", "self", Param(Iterator, 0))>>,
                                              Nominal(Option, <<Proj(Param(Iterator, 0), Iterator, <<>>, Item)>>))]]
          [] tr = Index -> [assoc |-> <<[n |-> Output, bounds |-> <<>>]>>, methods |-> [at |-> PlaceOf("let", Index)]]
          [] tr = IndexMut -> [Lacks EXCEPT !.methods = [at_mut |-> PlaceOf("inout", IndexMut)]]
          [] tr = Add ->
                [Lacks EXCEPT !.methods = [add |-> Method(<<Parameter("let", "self", Param(Add, 0)),
                                                            Parameter("let", "rhs", Param(Add, 0))>>, Param(Add, 0))]]
          [] OTHER -> Lacks]

Users(b) == DOMAIN b.decl
IsTrait(b, tr) == tr \in LanguageKnown \/ (tr \in Users(b) /\ b.decl[tr].kind = "trait")
TraitAt(b, tr) == IF tr \in LanguageKnown THEN PreludeTraits[tr] ELSE b.decl[tr]
Row(b, def) == SelectSeq(b.impls, LAMBDA r : r.def = def)
GenericsOf(b, owner) ==
    IF owner \in Users(b) THEN b.decl[owner].gen ELSE IF Row(b, owner) # <<>> THEN Row(b, owner)[1].gen ELSE <<>>
ConstraintsOf(b, owner) == IF Row(b, owner) # <<>> THEN Row(b, owner)[1].cons ELSE {}
Stored(d) == FlattenSeq([i \in DOMAIN d.members |-> d.members[i].tys])
Sigs(b) == [k \in Users(b) |-> [arity |-> Len(b.decl[k].gen), tys |-> Stored(b.decl[k])]]

IteratorTraits(b) ==
    <<Iterator>> \o SelectSeq(b.order, LAMBDA k : b.decl[k].kind = "trait" /\ b.decl[k].name = "Iterator")
DeclaredBounds(b, t) ==
    IF t.tag = "param"
    THEN IF t.data[1] < Len(GenericsOf(b, t.key)) THEN GenericsOf(b, t.key)[t.data[1] + 1].bounds ELSE {}
    ELSE IF t.tag # "proj" THEN {}
    ELSE UNION {Range(a.bounds) : a \in {x \in Range(TraitAt(b, t.key).assoc) : x.n = t.data}}
         \cup UNION {c.bounds : c \in {x \in ConstraintsOf(b, HeadOf(t).key) : x.subj = t}}

\* Linearity: a rigid leaf no bound makes droppable is linear.
CollectLinear(b) == {r.self.key : r \in {x \in Range(b.impls) : x.tr = Linear /\ x.self.tag = "nominal"}}
LinEnv(roots, rigid) ==
    [roots |-> roots, byValue |-> {Array, Vector, Atomic, Option}, own |-> {Own},
     opaque |-> {Slice, Ref, Arena, RangeExcl, RangeIncl, Mask}, rigid |-> rigid]
RigidDroppable(b, t) ==
    \E w \in DeclaredBounds(b, t) : w.tr \in {Droppable, Copyable} \cup Range(IteratorTraits(b))
LinLeaves(b, t) == OpenLeaves(t, Sigs(b), LinEnv(CollectLinear(b), {}))
IsLinear(b, t) ==
    Lin(t, Sigs(b), LinEnv(CollectLinear(b), {l \in LinLeaves(b, t) : ~RigidDroppable(b, l)}), <<>>).v

-----------------------------------------------------------------------------
(* holds: yes, no or unknown, and the buckets of impls it looked into.     *)

Says(v) == [v |-> v, seen |-> {}]
After(a, x) == [x EXCEPT !.seen = @ \cup a.seen]
SaysIf(c) == Says(IF c THEN "yes" ELSE "no")

RECURSIVE HoldsExact(_, _, _, _)
\* An Iterator of one's own answers for the language's, and the other way.
Aliased(a, x) == [v |-> IF x.v = "no" THEN a.v ELSE x.v, seen |-> a.seen \cup x.seen]
Aliases(w, iters) ==
    IF \E i \in DOMAIN iters : iters[i] = w.tr
    THEN <<w>> \o [i \in 1..Len(iters) - 1 |-> Bare(SelectSeq(iters, LAMBDA k : k # w.tr)[i])] ELSE <<w>>
Holds3(b, t, w, d) ==
    FoldLeft(LAMBDA a, x : IF a.v = "yes" THEN a ELSE Aliased(a, HoldsExact(b, t, x, d)), Says("no"),
             Aliases(w, IteratorTraits(b)))

BoundListHolds(b, t, w) == SaysIf(w \in DeclaredBounds(b, t))
SubstTraitRef(w, bind) == [w EXCEPT !.args = [i \in DOMAIN @ |-> SubstNorm(@[i], bind)]]
\* What an impl asks of what its parameters were bound to.
Goals(r, bind) ==
    UNION {{<<bind.at[<<r.def, o>>], SubstTraitRef(w, bind)>> : w \in r.gen[o + 1].bounds} :
           o \in {x \in 0..r.arity - 1 : bind.at[<<r.def, x>>] \notin {NoTy, TyError}}}
\* Any answer but yes refuses the impl.
Refused(a) == [a EXCEPT !.v = IF @ = "yes" THEN "yes" ELSE "no"]
GoalHolds(b, a, g, d) ==
    IF a.v # "yes" THEN a
    ELSE IF NoTy \in Range(g[2].args) THEN [a EXCEPT !.v = "no"]
    ELSE After(a, Refused(Holds3(b, g[1], g[2], d)))
ImplBoundsHold(b, r, bind, d) ==
    FoldLeft(LAMBDA a, g : GoalHolds(b, a, g, d + 1), Says("yes"), SetToSeq(Goals(r, bind)))
MatchHead(r, t, w) == MatchAll(r.args, w.args, Match(r.self, t, Fresh(r, NeutralOnly), "strict"), "strict")
RowHolds(b, r, m, d) == IF m.ok THEN ImplBoundsHold(b, r, m.b, d) ELSE Says("no")
ImplHolds(b, t, w, d) ==
    IF \E r \in Range(b.impls) : r.tr = w.tr /\ r.self = t /\ r.args = w.args
    THEN [v |-> "yes", seen |-> {<<w.tr, HeadKey(t)>>}]
    ELSE FoldLeft(LAMBDA a, r : IF a.v = "yes" THEN a ELSE After(a, RowHolds(b, r, MatchHead(r, t, w), d)),
                  [v |-> "no", seen |-> {<<w.tr, HeadKey(t)>>}],
                  SelectSeq(b.impls, LAMBDA r : r.tr = w.tr /\ HeadKey(r.self) = HeadKey(t)))

HoldsOfShape(b, t, w, d) ==
    IF Rigid(t) THEN BoundListHolds(b, t, w)
    ELSE IF t.tag \in {"error", "brand", "constval"} THEN Says("unknown")
    ELSE ImplHolds(b, t, w, d)
AllCopyable(b, ts, d) ==
    FoldLeft(LAMBDA a, t : IF a.v # "yes" THEN a ELSE After(a, Holds3(b, t, Bare(Copyable), d + 1)), Says("yes"), ts)
UnlessUnknown(a, x) == IF a.v # "unknown" THEN a ELSE After(a, x)
CopyableRule(b, t, d) ==
    CASE t.tag = "tuple" -> AllCopyable(b, t.kids, d)
      [] t.tag = "nominal" /\ t.key \in {Ref, Slice} -> Says("yes")
      [] t.tag = "nominal" /\ t.key \in {Own, Arena, Atomic} -> Says("no")
      [] t.tag = "nominal" /\ t.key \in {Array, Vector, Option} -> AllCopyable(b, SubSeq(t.kids, 1, 1), d)
      [] t.tag = "fn" -> SaysIf(~t.data[1])
      [] t.tag = "dyn" -> Says("no")
      [] OTHER -> Says("unknown")
StructuralRule(b, t, w, d) ==
    IF w.tr = Droppable /\ ~Rigid(t) THEN SaysIf(~IsLinear(b, t))
    ELSE IF w.tr = Copyable THEN CopyableRule(b, t, d)
    ELSE Says("unknown")
HoldsUnqual(b, t, w, d) == UnlessUnknown(StructuralRule(b, t, w, d), HoldsOfShape(b, t, w, d))
HoldsExact(b, t, w, d) ==
    IF t \in {TyError, NoTy} \/ d > HOLDS_DEPTH_MAX THEN Says("unknown")
    ELSE IF w.tr = Copyable /\ "iso" \in t.q THEN Says("no")
    ELSE HoldsUnqual(b, Unqual(t), w, d)
Holds0(b, t, tr) == Holds3(b, t, Bare(tr), 0)

-----------------------------------------------------------------------------
(* The passes.  s holds the diagnostics so far, whether the budget of the  *)
(* sink is spent (only a report opens a new one), the declarations that    *)
(* spoke and the buckets each asked about.                                 *)

Fresh0 == [diags |-> <<>>, charged |-> FALSE, spoke |-> {}, buckets |-> {}]
Emit(s, home, code) ==
    [s EXCEPT !.diags = Append(@, [home |-> home, code |-> code]), !.charged = TRUE, !.spoke = @ \cup {home}]
EmitIf(s, c, home, code) == IF c THEN Emit(s, home, code) ELSE s
Note(s, scope, a) == [s EXCEPT !.buckets = @ \cup {[scope |-> scope, bucket |-> k] : k \in a.seen}]
Sound(b, r) == r.def \notin b.poisoned
ModuleOf(b, d) == IF d \in Users(b) THEN b.decl[d].module ELSE ""
SameModule(b, head, r) == ModuleOf(b, head) = "" \/ ModuleOf(b, head) = r.module
Bounded(r) == \E o \in DOMAIN r.gen : r.gen[o].bounds # {}

MarkerBad(b, r) ==
    \/ r.tr = Droppable
    \/ r.tr = Linear /\ (Bounded(r) \/ (r.self.tag = "nominal" /\ ~SameModule(b, r.self.key, r)))
MarkerTraits(b, s, r) == EmitIf(s, Sound(b, r) /\ MarkerBad(b, r), r.def, "T24")

ParamAt(r, o) == IF r.gen[o].kind = "brand" THEN Brand(r.def, o - 1) ELSE Param(r.def, o - 1)
ParamsBad(r) ==
    \/ r.self.tag = "param"
    \/ r.tr = <<>> /\ r.self.tag \in {"fn", "dyn", "tuple"}
    \/ \E h \in {r.self} \cup Range(r.args) : "proj" \in Flags(h)
    \/ \E o \in DOMAIN r.gen :
           \/ ~\E h \in {r.self} \cup Range(r.args) : Mentions(h, ParamAt(r, o))
           \/ r.gen[o].bounds # {} /\ ~Mentions(r.self, ParamAt(r, o))
ImplParams(b, s, r) == EmitIf(s, Sound(b, r) /\ r.self # TyError /\ ParamsBad(r), r.def, "T18")

\* Each pair of one bucket that unifies is reported at its later row.
SameBucket(x, y) == x.tr = y.tr /\ x.tr # <<>> /\ TyError \notin {x.self, y.self} /\ HeadKey(x.self) = HeadKey(y.self)
OverlapsAt(b, j) ==
    {i \in 1..j - 1 : SameBucket(b.impls[i], b.impls[j]) /\ Sound(b, b.impls[i]) /\ Sound(b, b.impls[j])
                      /\ Overlap(b.impls[i], b.impls[j])}
OverlapPass(b, s) ==
    FoldLeft(LAMBDA a, p : Emit(a, b.impls[p[1]].def, "T19"), s,
             SetToSeq(UNION {{<<j, i>> : i \in OverlapsAt(b, j)} : j \in DOMAIN b.impls}))

-----------------------------------------------------------------------------
(* Completeness: what a trait asks of its impls.                           *)

\* The trait's types with Self, its parameters and Self's associated types
\* replaced by this impl's.
RECURSIVE Substitute(_, _)
Rebuild(t, r, kids) ==
    IF NoTy \in Range(kids) THEN NoTy
    ELSE IF t.tag # "proj" \/ Rigid(Last(kids)) THEN [t EXCEPT !.kids = kids]
    ELSE IF t.key # r.tr \/ {x \in Range(r.rhs) : x.n = t.data /\ x.ty \notin {NoTy, TyError}} = {} THEN NoTy
    ELSE (CHOOSE x \in Range(r.rhs) : x.n = t.data).ty
Replaced(t, r) ==
    IF t.tag # "param" THEN Rebuild(t, r, [i \in DOMAIN t.kids |-> Substitute(t.kids[i], r)])
    ELSE IF t.key # r.tr THEN t
    ELSE IF t.data[1] = 0 THEN r.self
    ELSE IF t.data[1] <= Len(r.args) THEN r.args[t.data[1]] ELSE NoTy
Substitute(t, r) == Requalify(t.q, R(Replaced(Unqual(t), r), NeutralOnly)).t
Differs(want, got, r) == Substitute(want, r) \notin {NoTy, TyError, got} /\ got # TyError

BoundHeads(g) == {w.tr : w \in g.bounds}
GenericsDiffer(w, g) ==
    \/ Len(w.gen) # Len(g.gen)
    \/ \E i \in DOMAIN w.gen : w.gen[i].kind # g.gen[i].kind \/ BoundHeads(w.gen[i]) # BoundHeads(g.gen[i])
    \/ w.cons # g.cons
SignatureDiffers(r, w, g) ==
    \/ Len(w.params) # Len(g.params)
    \/ GenericsDiffer(w, g)
    \/ \E i \in DOMAIN w.params :
           \/ w.params[i].conv # g.params[i].conv \/ w.params[i].n # g.params[i].n
           \/ Differs(w.params[i].ty, g.params[i].ty, r)
    \/ Differs(w.result, g.result, r)
    \/ w.scoped # g.scoped
    \/ (w.raises = NoTy) # (g.raises = NoTy)
    \/ w.raises # NoTy /\ Differs(w.raises, g.raises, r)
MethodSignatures(r, t) == \E n \in DOMAIN t.methods \cap DOMAIN r.methods : SignatureDiffers(r, t.methods[n], r.methods[n])
RequiredMethods(t) == {n \in DOMAIN t.methods : ~t.methods[n].provided}

Names(as) == {as[i].n : i \in DOMAIN as}
\* The bounds the trait sets on the associated types this impl defines.
AssocGoals(r, t) ==
    FlattenSeq([i \in DOMAIN t.assoc |->
        LET rhs == SelectSeq(r.rhs, LAMBDA x : x.n = t.assoc[i].n /\ x.ty \notin {NoTy, TyError})
        IN IF rhs = <<>> THEN <<>> ELSE [j \in DOMAIN t.assoc[i].bounds |-> <<rhs[1].ty, t.assoc[i].bounds[j]>>]])
At(g, a) == [v |-> a.v, seen |-> a.seen, at |-> g]
FirstNo(b, goals) ==
    FoldLeft(LAMBDA a, g : IF a.v = "no" THEN a ELSE At(g, After(a, Holds3(b, g[1], g[2], 0))),
             [v |-> "yes", seen |-> {}, at |-> <<>>], goals)
BoundCode(r, w) ==
    IF r.tr \in Operators \/ (r.tr = Iterator /\ w.tr \in LanguageKnown) THEN "T21" ELSE "T17"
MethodsBad(r, t) ==
    RequiredMethods(t) \ DOMAIN r.methods # {} \/ DOMAIN r.methods \ DOMAIN t.methods # {} \/ MethodSignatures(r, t)
AfterBounds(s, r, t, a) ==
    IF a.v = "no" THEN Emit(s, r.def, BoundCode(r, a.at[2])) ELSE EmitIf(s, MethodsBad(r, t), r.def, "T17")
NoteThen(b, s, r, t, a) == AfterBounds(Note(s, r.def, a), r, t, a)
\* The budget of whoever reported last ends the ladder after its first rung.
TraitImpl(b, s, r, t) ==
    IF Names(t.assoc) \ Names(r.rhs) # {} THEN Emit(s, r.def, "T17")
    ELSE IF s.charged THEN s
    ELSE IF Names(r.rhs) \ Names(t.assoc) # {} THEN Emit(s, r.def, "T17")
    ELSE NoteThen(b, s, r, t, FirstNo(b, AssocGoals(r, t)))
ImplCompleteness(b, s, r) ==
    IF ~Sound(b, r) THEN s
    ELSE IF r.tr = <<>> THEN EmitIf(s, r.rhs # <<>>, r.def, "T17")
    ELSE IF ~IsTrait(b, r.tr) THEN s
    ELSE TraitImpl(b, s, r, TraitAt(b, r.tr))

-----------------------------------------------------------------------------
(* What some traits ask beyond their members.                              *)

Judged(s, r, a, code) == EmitIf(Note(s, r.def, a), a.v = "no", r.def, code)
Prerequisites(b, s, r) ==
    IF ~Sound(b, r) \/ r.self = TyError \/ r.tr \notin {IndexMut, Iterator} THEN s
    ELSE Judged(s, r, Holds3(b, r.self, IF r.tr = IndexMut THEN [tr |-> Index, args |-> r.args] ELSE Bare(Droppable), 0), "T21")

\* The stored types of def with its parameters bound to args.
OrElse(t, u) == IF u = NoTy THEN t ELSE u
SubstAll(ts, bind) == [i \in DOMAIN ts |-> OrElse(ts[i], SubstNorm(ts[i], bind))]
Instantiated(b, def, args) ==
    IF def \notin Users(b) THEN <<>>
    ELSE IF args = <<>> \/ Len(args) # Len(b.decl[def].gen) THEN Stored(b.decl[def])
    ELSE SubstAll(Stored(b.decl[def]), [Binding(def :> Len(args)) EXCEPT !.at = [k \in DOMAIN @ |-> args[k[2] + 1]]])

\* A worklist: the last type pushed is looked at first, and none twice.
RECURSIVE NonCopyable(_, _, _, _)
NonCopyableAny(b, top, ts, a) == FoldLeft(LAMBDA x, t : IF x.bad THEN x ELSE NonCopyable(b, top, t, x), a, Reverse(ts))
Bad(a, c) == [a EXCEPT !.bad = c]
Asked(a, x) == [a EXCEPT !.bad = x.v = "no", !.seen = @ \cup x.seen]
NonCopyableNominal(b, top, t, a) ==
    IF t.key \in {Own, Arena, Atomic} THEN Bad(a, TRUE)
    ELSE IF t.key \in {Ref, RangeExcl, RangeIncl, Slice} THEN a
    ELSE IF t.key \in PreludeGenerics THEN NonCopyableAny(b, top, SubSeq(t.kids, 1, 1), a)
    ELSE NonCopyableAny(b, top, Instantiated(b, t.key, t.kids), a)
\* A field of another type is taken to be right.
NonCopyableTrusted(b, top, t, a) ==
    CASE t.tag \in {"fn", "dyn"} -> Bad(a, t.tag = "dyn" \/ t.data[1])
      [] t.tag = "tuple" -> NonCopyableAny(b, top, t.kids, a)
      [] t.tag = "nominal" /\ (t = top \/ t.key \in PreludeGenerics) -> NonCopyableNominal(b, top, t, a)
      [] OTHER -> a
NonCopyableShape(b, top, t, a) ==
    CASE t.tag = "fn" -> Bad(a, t.data[1])
      [] t.tag = "dyn" -> Bad(a, TRUE)
      [] t.tag = "tuple" -> NonCopyableAny(b, top, t.kids, a)
      [] Rigid(t) \/ (t.tag = "nominal" /\ t # top /\ t.key \notin PreludeGenerics) -> Asked(a, Holds0(b, t, Copyable))
      [] t.tag = "nominal" /\ (t = top \/ t.key \in PreludeGenerics) -> NonCopyableNominal(b, top, t, a)
      [] OTHER -> a
NonCopyablePopped(b, top, t, a) ==
    IF a.popped > COMPONENTS_MAX \/ t \in a.done \cup {TyError, NoTy} THEN a
    ELSE IF "iso" \in t.q THEN Bad(a, TRUE)
    ELSE NonCopyableShape(b, top, t, [a EXCEPT !.done = @ \cup {t}])
NonCopyable(b, top, t, a) == NonCopyablePopped(b, top, t, [a EXCEPT !.popped = @ + 1])
FirstNonCopyable(b, t) == NonCopyable(b, t, t, [bad |-> FALSE, seen |-> {}, done |-> {}, popped |-> 0])
CopyJudged(s, r, a) == EmitIf(Note(s, r.def, a), a.bad, r.def, "T23")
CopyableImpl(b, s, r) ==
    IF r.tr # Copyable \/ ~Sound(b, r) \/ r.self = TyError THEN s
    ELSE IF IsLinear(b, r.self) THEN Emit(s, r.def, "T23")
    ELSE CopyJudged(s, r, FirstNonCopyable(b, r.self))

NotDynCapable(t, tr) ==
    \E n \in DOMAIN t.methods :
        LET m == t.methods[n]
        IN \/ m.gen # <<>> \/ ~m.receiver
           \/ m.params[1].conv \notin {"let", "inout"}
           \/ \E x \in {m.params[i].ty : i \in 2..Len(m.params)} \cup {m.result, m.raises} :
                  x # NoTy /\ Mentions(x, Param(tr, 0))
DynBad(b, tr) ==
    IF tr \in Markers THEN "T24"
    ELSE IF ~IsTrait(b, tr) THEN ""
    ELSE IF TraitAt(b, tr).assoc # <<>> \/ NotDynCapable(TraitAt(b, tr), tr) THEN "T25" ELSE ""
DynCapable(b, s, u) ==
    IF u.home \in b.poisoned \/ DynBad(b, u.tr) = "" THEN s ELSE Emit(s, u.home, DynBad(b, u.tr))

\* The methods of the inherent impls of a nominal, in source order.
InherentItems(b, head) ==
    FlattenSeq([i \in DOMAIN b.impls |->
        IF b.impls[i].tr # <<>> \/ b.impls[i].self.tag # "nominal" \/ b.impls[i].self.key # head THEN <<>>
        ELSE SetToSeq({[n |-> n, def |-> b.impls[i].def] : n \in DOMAIN b.impls[i].methods})])
ClashAt(b, s, head, items, i) ==
    LET item == items[i]
        twice == \E j \in 1..i - 1 : items[j].n = item.n
        taken == head \in Users(b) /\ \E m \in Range(b.decl[head].members) : m.n = item.n
    IN IF item.def \in b.poisoned THEN s
       ELSE EmitIf(EmitIf(s, twice, item.def, "T48"), taken, item.def, "T48")
ClashesOf(b, s, head, items) == FoldLeft(LAMBDA a, i : ClashAt(b, a, head, items, i), s, [i \in DOMAIN items |-> i])
MemberClashes(b, s) == FoldLeft(LAMBDA a, head : ClashesOf(b, a, head, InherentItems(b, head)), s, b.order)

LinearElements(b, s, e) ==
    EmitIf(s, e.home \notin b.poisoned /\ ~Rigid(e.ty) /\ e.ty.tag # "error" /\ IsLinear(b, e.ty), e.home, "T11")

-----------------------------------------------------------------------------
(* Infinite size: declarations, then associated types, and who stores whom *)
(* by value; the components in the order of Tarjan's walk.                 *)

RECURSIVE ByValueMentions(_)
ByValueMentions(t) ==
    IF t.tag = "nominal" /\ t.key \in {Own, Ref, Arena, Slice} THEN {}
    ELSE IF t.tag = "proj" THEN {<<t.key, t.data>>}
    ELSE IF t.tag \notin {"nominal", "tuple"} THEN {}
    ELSE UNION {ByValueMentions(t.kids[i]) : i \in DOMAIN t.kids} \cup {<<k>> : k \in {t.key} \ (PreludeGenerics \cup {<<>>})}
SizedDecls(b) == SelectSeq(b.order, LAMBDA k : b.decl[k].kind \in {"struct", "enum"})
\* The language's own traits come before the build's.
AssocNodes(b) ==
    FlattenSeq([i \in DOMAIN (<<Iterator, Index>> \o b.order) |->
        LET tr == (<<Iterator, Index>> \o b.order)[i]
        IN IF ~IsTrait(b, tr) THEN <<>>
           ELSE [j \in DOMAIN TraitAt(b, tr).assoc |-> <<tr, TraitAt(b, tr).assoc[j].n>>]])
Nodes(b) == [i \in DOMAIN SizedDecls(b) |-> <<SizedDecls(b)[i]>>] \o AssocNodes(b)
StoredBy(b, node) ==
    IF Len(node) = 1 THEN UNION {ByValueMentions(t) : t \in Range(Stored(b.decl[node[1]]))}
    ELSE {n \in UNION {UNION {ByValueMentions(x.ty) : x \in {y \in Range(r.rhs) : y.n = node[2]}} :
                       r \in {q \in Range(b.impls) : q.tr = node[1]}} : Len(n) = 1}
Adjacent(b, nodes) == [i \in DOMAIN nodes |-> {j \in DOMAIN nodes : nodes[j] \in StoredBy(b, nodes[i])}]

RECURSIVE Visit(_, _, _), PopTo(_, _, _)
PopTo(v, comp, s) ==
    LET w == Last(s.stack)
        t == [s EXCEPT !.stack = Front(@)]
    IN IF w = v THEN [t EXCEPT !.out = Append(@, comp \cup {w})] ELSE PopTo(v, comp \cup {w}, t)
Lower(s, v, x) == [s EXCEPT !.low[v] = IF x < @ THEN x ELSE @]
Edge(adj, s, v, w) ==
    IF s.index[w] = 0 THEN Visit(adj, w, [s EXCEPT !.from = Append(@, v)])
    ELSE IF w \in Range(s.stack) THEN Lower(s, v, s.index[w]) ELSE s
Close(s, v) == IF s.low[v] = s.index[v] THEN PopTo(v, {}, s) ELSE s
Return(s, v) ==
    IF s.from = <<>> THEN s ELSE Lower([s EXCEPT !.from = Front(@)], Last(s.from), s.low[v])
Enter(s, v) ==
    [s EXCEPT !.counter = @ + 1, !.index[v] = s.counter + 1, !.low[v] = s.counter + 1, !.stack = Append(@, v)]
Visit(adj, v, s) == Return(Close(FoldLeft(LAMBDA a, w : Edge(adj, a, v, w), Enter(s, v), SetToSeq(adj[v])), v), v)
Tarjan(adj) ==
    FoldLeft(LAMBDA s, v : IF s.index[v] # 0 THEN s ELSE Visit(adj, v, s),
             [index |-> [v \in DOMAIN adj |-> 0], low |-> [v \in DOMAIN adj |-> 0], stack |-> <<>>, out |-> <<>>,
              counter |-> 0, from |-> <<>>],
             [v \in DOMAIN adj |-> v]).out
\* Reported at the least node of a cycle, a declaration.
Cyclic(adj, c) == Cardinality(c) > 1 \/ \E v \in c : v \in adj[v]
SizeAt(b, s, nodes, adj, c) ==
    LET home == nodes[Min(c)][1] IN EmitIf(s, Cyclic(adj, c) /\ home \notin b.poisoned, home, "T14")
SizesOf(b, s, nodes, adj) == FoldLeft(LAMBDA a, c : SizeAt(b, a, nodes, adj, c), s, Tarjan(adj))
InfiniteSize(b, s) == SizesOf(b, s, Nodes(b), Adjacent(b, Nodes(b)))

-----------------------------------------------------------------------------
(* Authority: @unsafe attributes, atomic fields and Shared.                *)

\* An argument is its label, "" for none, and a string, blank or not.
UnsafeFormFault(args) ==
    Len(args) # 1 \/ args[1].label # "invariant" \/ args[1].value # "text"
UnsafeAttributes(b, s, a) ==
    EmitIf(s, ~a.block /\ a.home \notin b.poisoned /\ UnsafeFormFault(a.args), a.home, "A10")

RECURSIVE MentionsAtomic(_, _), ConformsShared(_, _, _)
MentionsAtomic(t, d) ==
    /\ d <= SHARED_DEPTH_MAX
    /\ \/ t.tag = "nominal" /\ t.key = Atomic
       \/ t.tag = "nominal" /\ t.key = Array /\ t.kids # <<>> /\ MentionsAtomic(t.kids[1], d + 1)
       \/ t.tag = "tuple" /\ \E i \in DOMAIN t.kids : MentionsAtomic(t.kids[i], d + 1)
ImplementsShared(b, def) ==
    \E r \in Range(b.impls) : r.tr = Shared /\ (r.self = TyError \/ (r.self.tag = "nominal" /\ r.self.key = def))
AtomicField(b, s, def) ==
    EmitIf(s, /\ def \notin b.poisoned \cup s.spoke /\ ~ImplementsShared(b, def)
              /\ \E t \in Range(Instantiated(b, def, <<>>)) : MentionsAtomic(t, 0), def, "O21")
AtomicFields(b, s) == IF b.lost THEN s ELSE FoldLeft(LAMBDA a, d : AtomicField(b, a, d), s, SizedDecls(b))

\* Undecidable is silence.
AllConform(b, ts, d) ==
    FoldLeft(LAMBDA a, t : IF a.v = "no" THEN a ELSE After(a, ConformsShared(b, t, d)), Says("yes"), ts)
Decided(t, a) == [a EXCEPT !.v = IF @ = "yes" \/ (@ = "unknown" /\ ~Rigid(t)) THEN "yes" ELSE "no"]
ConformsUnqual(b, t, d) ==
    IF t.tag = "nominal" /\ t.key = Atomic THEN Says("yes")
    ELSE IF t.tag = "tuple" \/ (t.tag = "nominal" /\ t.key = Array)
    THEN AllConform(b, IF t.tag = "tuple" THEN t.kids ELSE SubSeq(t.kids, 1, 1), d + 1)
    ELSE IF t.tag = "nominal" \/ Rigid(t) THEN Decided(t, Holds0(b, t, Shared))
    ELSE SaysIf(t.tag \in {"error", "brand", "constval", "unit", "never"})
ConformsShared(b, q, d) ==
    IF d > SHARED_DEPTH_MAX \/ q \in {TyError, NoTy} \/ "imm" \in q.q THEN Says("yes") ELSE ConformsUnqual(b, Unqual(q), d)
SharedImpl(b, s, r) ==
    IF r.tr # Shared \/ r.self.tag # "nominal" \/ ~Sound(b, r) \/ r.def \in s.spoke \/ r.unsafe THEN s
    ELSE Judged(s, r, AllConform(b, Instantiated(b, r.self.key, r.self.kids), 0), "O21")

\* Wf::run, a pass a step.
Passes == <<"markers", "params", "overlap", "complete", "prerequisites", "copyable", "dyn", "clashes", "elements",
            "size", "unsafe", "atomic", "shared">>
Pass(b, s, p) ==
    CASE p = "markers" -> FoldLeft(LAMBDA a, r : MarkerTraits(b, a, r), s, b.impls)
      [] p = "params" -> FoldLeft(LAMBDA a, r : ImplParams(b, a, r), s, b.impls)
      [] p = "overlap" -> OverlapPass(b, s)
      [] p = "complete" -> FoldLeft(LAMBDA a, r : ImplCompleteness(b, a, r), s, b.impls)
      [] p = "prerequisites" -> FoldLeft(LAMBDA a, r : Prerequisites(b, a, r), s, b.impls)
      [] p = "copyable" -> FoldLeft(LAMBDA a, r : CopyableImpl(b, a, r), s, b.impls)
      [] p = "dyn" -> FoldLeft(LAMBDA a, u : DynCapable(b, a, u), s, b.dynUses)
      [] p = "clashes" -> MemberClashes(b, s)
      [] p = "elements" -> FoldLeft(LAMBDA a, e : LinearElements(b, a, e), s, b.elements)
      [] p = "size" -> InfiniteSize(b, s)
      [] p = "unsafe" -> FoldLeft(LAMBDA a, x : UnsafeAttributes(b, a, x), s, b.attrs)
      [] p = "atomic" -> AtomicFields(b, s)
      [] p = "shared" -> FoldLeft(LAMBDA a, r : SharedImpl(b, a, r), s, b.impls)

-----------------------------------------------------------------------------
(* What accepted declarations are to mean.                                 *)

\* A pass a step; an accepted build may be checked again as one impl saw it,
\* without the impls of the buckets it did not ask about.
Checking(b) == [b |-> b, s |-> Fresh0, p |-> 1, whom |-> <<>>, ans |-> <<>>]
PassDone(x) == [x EXCEPT !.s = Pass(x.b, x.s, Passes[x.p]), !.p = @ + 1]
Running(x) == x.p <= Len(Passes)
Heard(b, s, def) ==
    [b EXCEPT !.impls = SelectSeq(@, LAMBDA r :
        r.def = def \/ r.tr = Linear \/ [scope |-> def, bucket |-> <<r.tr, HeadKey(r.self)>>] \in s.buckets)]
Again(x, def) == [x EXCEPT !.b = Heard(x.b, x.s, def), !.s = Fresh0, !.p = 1, !.whom = def]
Accepted(x) == x.s.diags = <<>>

Grounds(b) ==
    LET leaves == {Prim(1), Qualified(Prim(1), {"iso"}), Nominal(Own, <<Prim(1)>>), Nominal(Atomic, <<Prim(1)>>)}
                  \cup {Nominal(k, <<>>) : k \in {d \in DOMAIN b.decl : b.decl[d].kind = "struct" /\ b.decl[d].gen = <<>>}}
        one == {Nominal(k, <<t>>) : k \in {d \in DOMAIN b.decl : b.decl[d].kind = "struct" /\ Len(b.decl[d].gen) = 1}, t \in leaves}
    IN leaves \cup one \cup {Tuple(<<Prim(1), t>>) : t \in one} \cup {[t EXCEPT !.kids = <<t>>] : t \in one}
Asks(b) == {Copyable, Shared} \cup {d \in DOMAIN b.decl : b.decl[d].kind = "trait" /\ Len(b.decl[d].gen) = 1}
AnsweredAll(x) == [x EXCEPT !.ans = [q \in Grounds(x.b) \X Asks(x.b) |-> Holds0(x.b, q[1], q[2]).v]]

\* Everything a value of type t is made of.
RECURSIVE Holding(_, _), Exposed(_, _)
Holding(b, t) ==
    {t} \cup (IF t.tag = "nominal" /\ t.key \in {Own, Ref, Arena, Slice} THEN {}
              ELSE IF t.tag = "tuple" \/ (t.tag = "nominal" /\ t.key \in PreludeGenerics)
              THEN UNION {Holding(b, t.kids[i]) : i \in DOMAIN t.kids}
              ELSE UNION {Holding(b, u) : u \in Range(Instantiated(b, t.key, t.kids))})
CopyIsSound(b, t) ==
    \A x \in Holding(b, t) :
        /\ "iso" \notin x.q /\ x.tag # "dyn" /\ x.key \notin {Own, Arena, Atomic} \cup CollectLinear(b)
        /\ x.tag = "fn" => ~x.data[1]
\* The unsynchronised state two threads with a t would share.
Audited(b, t) == \E r \in Range(b.impls) : r.tr = Shared /\ r.unsafe /\ r.self.key = t.key
Exposed(b, t) ==
    IF "imm" \in t.q \/ t.key = Atomic \/ t.tag = "unit" THEN {}
    ELSE IF t.tag = "tuple" \/ t.key = Array THEN UNION {Exposed(b, t.kids[i]) : i \in DOMAIN t.kids}
    ELSE IF t.tag # "nominal" \/ t.key \in PreludeGenerics THEN {t}
    ELSE IF Audited(b, t) THEN {}
    ELSE UNION {Exposed(b, u) : u \in Range(Instantiated(b, t.key, t.kids))}

\* What the impls give to the ground types, with no search: the least set
\* closed under every instance of every impl, qualifiers aside.
Unifier(r, t) == [own |-> {r.def}, at |-> IF r.arity = 0 THEN <<>> ELSE (<<r.def, 0>> :> t)]
Instances(b, grounds) ==
    {[goal |-> <<IF r.arity = 0 THEN r.self ELSE SubstNorm(r.self, Unifier(r, t)), r.tr>>,
      needs |-> IF r.arity = 0 THEN {} ELSE {<<Unqual(t), w.tr>> : w \in r.gen[1].bounds}, by |-> r.def] :
        r \in {x \in Range(b.impls) : x.arity < 2}, t \in grounds}
RECURSIVE Closed(_, _)
Closed(is, got) ==
    LET more == {i.goal : i \in {x \in is : x.needs \subseteq got}}
    IN IF more \subseteq got THEN got ELSE Closed(is, got \cup more)
TraitsRight(x, is) ==
    \A q \in DOMAIN x.ans :
        q[2] \notin {Copyable, Shared} =>
            /\ (x.ans[q] = "yes") <=> (<<Unqual(q[1]), q[2]>> \in Closed(is, {}))
            /\ Cardinality({i.by : i \in {y \in is : y.goal = <<Unqual(q[1]), q[2]>>}}) <= 1

\* A build has a declaration of infinite size at the least of each cycle.
Least(b, nodes, adj) ==
    LET step == [v \in DOMAIN adj |-> {v} \cup adj[v]]
        r2 == [v \in DOMAIN adj |-> UNION {step[w] : w \in step[v]}]
        r4 == [v \in DOMAIN adj |-> UNION {r2[w] : w \in r2[v]}]
        r8 == [v \in DOMAIN adj |-> UNION {r4[w] : w \in r4[v]}]
        onCycle == {v \in DOMAIN adj : \E w \in adj[v] : v \in r8[w]}
    IN {nodes[v][1] : v \in {u \in onCycle : \A w \in onCycle : (w \in r8[u] /\ u \in r8[w]) => u <= w}} \ b.poisoned
Reported(x, code) == {x.s.diags[i].home : i \in {j \in DOMAIN x.s.diags : x.s.diags[j].code = code}}

AnswersRight(x) ==
    /\ \A q \in DOMAIN x.ans : q[2] = Copyable /\ x.ans[q] = "yes" => CopyIsSound(x.b, q[1])
    /\ \A q \in DOMAIN x.ans : q[2] = Shared /\ x.ans[q] = "yes" => Exposed(x.b, q[1]) = {}
    /\ TraitsRight(x, Instances(x.b, Grounds(x.b)))
DeclarationsRight(x) ==
    /\ ~Running(x) => Reported(x, "T14") = Least(x.b, Nodes(x.b), Adjacent(x.b, Nodes(x.b)))
    /\ x.whom # <<>> => x.whom \notin {x.s.diags[i].home : i \in DOMAIN x.s.diags}
    /\ x.ans # <<>> /\ Accepted(x) => AnswersRight(x)

-----------------------------------------------------------------------------
(* Builds: a linear H, a generic P, S and C of many makes, and their       *)
(* impls; a trait with an associated type and methods, and impls of it     *)
(* that are right and wrong; structs that store each other.                *)

I32 == Prim(1)
D(n) == Nominal(<<n>>, <<>>)
P(t) == Nominal(<<"P">>, <<t>>)
G(kind, bounds) == [kind |-> kind, bounds |-> bounds]
Field(n, t) == [n |-> n, tys |-> <<t>>]
Struct(module, gen, members) ==
    [kind |-> "struct", name |-> "", module |-> module, gen |-> gen, members |-> members, assoc |-> <<>>, methods |-> <<>>]
Trait(gen, assoc, methods) ==
    [kind |-> "trait", name |-> "", module |-> "m", gen |-> gen, members |-> <<>>, assoc |-> assoc, methods |-> methods]
ImplOf(def, gen, tr, self) ==
    [def |-> <<def>>, module |-> "m", gen |-> gen, arity |-> Len(gen), tr |-> tr, args |-> <<>>, self |-> self,
     rhs |-> <<>>, methods |-> <<>>, cons |-> {}, unsafe |-> FALSE]
BuildOf(order, decl, impls) ==
    [order |-> order, decl |-> decl, impls |-> <<ImplOf("builtin", <<>>, Copyable, I32)>> \o impls, lost |-> FALSE, poisoned |-> {}, dynUses |-> <<>>, elements |-> <<>>,
     attrs |-> <<>>]

TypeParam == <<G("type", {})>>
Stores ==
    (<<"H">> :> Struct("m", <<>>, <<Field("fd", I32)>>)) @@ (<<"P">> :> Struct("m", TypeParam, <<Field("x", Param(<<"P">>, 0))>>))
LinearH == ImplOf("lh", <<>>, Linear, D("H"))
SFields == {I32, Qualified(D("C"), {"imm"}), Nominal(Atomic, <<I32>>), P(I32), P(Qualified(I32, {"iso"})), D("C"), D("H"),
            Tuple(<<Nominal(Atomic, <<I32>>), D("C")>>), Nominal(Array, <<D("C")>>), Nominal(Own, <<I32>>), Nominal(Ref, <<D("S")>>),
            P(D("C")), Nominal(Option, <<D("H")>>), FnTy(FALSE, <<>>, <<TyUnit, NoTy>>), FnTy(TRUE, <<>>, <<TyUnit, NoTy>>),
            Qualified(D("C"), {"iso"}), Dyn(Shared, <<>>), Nominal(RangeIncl, <<I32>>), P(Nominal(RangeExcl, <<I32>>)),
            P(Nominal(Vector, <<D("C"), ConstVal(4, I32)>>)), Nominal(Mask, <<ConstVal(4, I32)>>)}
CFields == {I32, Nominal(Atomic, <<I32>>), P(Nominal(Own, <<I32>>)), TyUnit}
OnP(def, tr, bound) == ImplOf(def, <<G("type", bound)>>, tr, P(Param(<<def>>, 0)))
MarkerImpls ==
    {<<ImplOf("cs", <<>>, Copyable, D("S")), ImplOf("cc", <<>>, Copyable, D("C")), OnP("cp", Copyable, {Bare(Copyable)})>>,
     <<ImplOf("cs", <<>>, Copyable, D("S")), OnP("cp", Copyable, {})>>,
     <<ImplOf("ss", <<>>, Shared, D("S")), ImplOf("sc", <<>>, Shared, D("C")), OnP("sp", Shared, {Bare(Shared)})>>,
     <<ImplOf("ss", <<>>, Shared, D("S")), [ImplOf("sc", <<>>, Shared, D("C")) EXCEPT !.unsafe = TRUE], OnP("sp", Shared, {Bare(Shared)})>>,
     <<ImplOf("ss", <<>>, Shared, D("S")), ImplOf("cs", <<>>, Copyable, D("S")), OnP("sp", Shared, {})>>}
MarkerBuilds ==
    {BuildOf(<<<<"H">>, <<"P">>, <<"S">>, <<"C">>>>,
             Stores @@ (<<"S">> :> Struct("m", <<>>, <<Field("a", f)>>)) @@ (<<"C">> :> Struct("m", <<>>, <<Field("c", g)>>)),
             <<LinearH>> \o is) : f \in SFields, g \in CFields, is \in MarkerImpls}

\* trait T { type Item: Copyable; fn get(let self, i: Self.Item) -> Self; fn opt(let self); }
T == <<"T">>
Self == Param(T, 0)
TheTrait ==
    Trait(TypeParam, <<[n |-> Item, bounds |-> <<Bare(Copyable)>>]>>,
          [get |-> Method(<<Parameter("let", "self", Self), Parameter("let", "i", Proj(Self, T, <<>>, Item))>>, Self),
           opt |-> [Method(<<Parameter("let", "self", Self)>>, TyUnit) EXCEPT !.provided = TRUE]])
Get(self, item, name) == Method(<<Parameter("let", "self", self), Parameter("let", name, item)>>, self)
Implements(r, item, name) ==
    [r EXCEPT !.rhs = <<[n |-> Item, ty |-> item]>>, !.methods = [get |-> Get(r.self, item, name)]]
TImpl(def, bound, self) == ImplOf(def, <<G("type", bound)>>, T, self)
Heads ==
    {ImplOf("a", <<>>, T, I32), ImplOf("a", <<>>, T, P(I32)), TImpl("a", {}, P(Param(<<"a">>, 0))),
     TImpl("a", {Bare(T)}, P(Param(<<"a">>, 0))), TImpl("a", {Bare(T)}, P(P(Param(<<"a">>, 0)))), TImpl("a", {}, Param(<<"a">>, 0)),
     TImpl("a", {}, I32)}
OtherHeads == {ImplOf("b", <<>>, T, D("H")), ImplOf("b", <<>>, T, P(D("H"))), TImpl("b", {Bare(T)}, P(Param(<<"b">>, 0))), ImplOf("b", <<>>, T, I32)}
Complete2(r) == {Implements(r, I32, "i"), Implements(r, Nominal(Own, <<I32>>), "i"), Implements(r, I32, "j"), r,
                 [Implements(r, I32, "i") EXCEPT !.methods = [opt |-> Method(<<>>, TyUnit)]]}
TraitBuilds ==
    {BuildOf(<<<<"H">>, <<"P">>, T>>, Stores @@ (T :> TheTrait), <<Implements(y, I32, "i"), x>>) :
        x \in UNION {Complete2(r) : r \in Heads}, y \in OtherHeads}
    \cup {[BuildOf(<<<<"H">>, <<"P">>, T>>, Stores @@ (T :> TheTrait),
                    <<LinearH, [ImplOf("in", <<>>, <<>>, D("H")) EXCEPT !.methods = [fd |-> Method(<<>>, TyUnit)]],
                      ImplOf("it", <<>>, Iterator, D("H")), ImplOf("ix", <<>>, IndexMut, I32), ImplOf("dr", <<>>, Droppable, I32)>>)
           EXCEPT !.dynUses = <<[home |-> <<"P">>, tr |-> T], [home |-> <<"H">>, tr |-> Shared]>>,
                  !.elements = <<[home |-> <<"P">>, ty |-> D("H")]>>,
                  !.attrs = <<[home |-> <<"P">>, block |-> FALSE, args |-> <<[label |-> "invariant", value |-> "blank"]>>]>>,
                  !.poisoned = p] : p \in {{}, {<<"P">>}, {<<"it">>}}}

\* Structs A, B and C that store one another, by value or behind an Own, and
\* through an associated type, of a trait of theirs or of Iterator.
Iterates(r, item) ==
    [r EXCEPT !.rhs = <<[n |-> Item, ty |-> item]>>,
              !.methods = [next |-> Method(<<Parameter("inout", "self", r.self)>>, Nominal(Option, <<item>>))]]
Kept == {<<>>, <<D("A")>>, <<D("B")>>, <<D("C")>>, <<D("B"), D("C")>>, <<D("A"), D("C")>>, <<Nominal(Own, <<D("A")>>), P(D("B"))>>,
         <<Proj(Param(<<"A">>, 0), T, <<>>, Item), Nominal(Option, <<D("C")>>)>>,
         <<Nominal(Option, <<Proj(Param(<<"A">>, 0), Iterator, <<>>, Item)>>)>>}
Fields(ts) == [i \in DOMAIN ts |-> Field("f", ts[i])]
SizeBuilds ==
    {BuildOf(<<<<"C">>, <<"A">>, <<"P">>, <<"B">>, T>>,
             (<<"A">> :> Struct("m", <<>>, Fields(x))) @@ (<<"B">> :> Struct("m", <<>>, Fields(y))) @@ (<<"C">> :> Struct("m", <<>>, Fields(z)))
             @@ (<<"P">> :> Stores[<<"P">>]) @@ (T :> [TheTrait EXCEPT !.assoc[1].bounds = <<>>]),
             <<Implements(ImplOf("a", <<>>, T, I32), D("A"), "i"), Iterates(ImplOf("it", <<>>, Iterator, D("C")), D("B"))>>) : x, y, z \in Kept}
Builds == MarkerBuilds \cup TraitBuilds \cup SizeBuilds

=============================================================================
