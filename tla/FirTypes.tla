------------------------------ MODULE FirTypes ------------------------------
(***************************************************************************)
(* The types of the typed IR (fors-fir), substitution, one-way matching,   *)
(* the overlap of impls and linearity, and the normalisation of            *)
(* projections through the impls of the build (fors-check normalise).      *)
(*                                                                         *)
(* A type is a value: interning makes two rows equal exactly when their    *)
(* tag, qualifiers, definition, children and data are.  The children of a  *)
(* function are its parameters, its result and what it raises; those of a  *)
(* projection are the arguments of its trait and last its head.            *)
(***************************************************************************)
EXTENDS Integers, Sequences, FiniteSets, SequencesExt, TLC

CONSTANTS NORMALISE_DEPTH_MAX, LIN_DEPTH_MAX

Ty(tag, key, kids, data) == [tag |-> tag, q |-> {}, key |-> key, kids |-> kids, data |-> data]
NoTy == Ty("none", <<>>, <<>>, <<>>)
TyError == Ty("error", <<>>, <<>>, <<>>)
TyUnit == Ty("unit", <<>>, <<>>, <<>>)
Prim(k) == Ty("prim", <<>>, <<>>, <<k>>)
Nominal(def, args) == Ty("nominal", def, args, <<>>)
Tuple(args) == Ty("tuple", <<>>, args, <<>>)
Dyn(tr, args) == Ty("dyn", tr, args, <<>>)
Param(owner, n) == Ty("param", owner, <<>>, <<n>>)
Brand(owner, n) == Ty("brand", owner, <<>>, <<0, n>>)
FreshBrand(owner, n) == Ty("brand", owner, <<>>, <<1, n>>)
Proj(head, tr, args, name) == Ty("proj", tr, Append(args, head), name)
FnTy(closure, convs, kids) == Ty("fn", <<>>, kids, <<closure>> \o convs)
ConstVal(v, ty) == Ty("constval", <<>>, <<ty>>, v)

Qualified(t, q) == [t EXCEPT !.q = @ \cup q]
Unqual(t) == [t EXCEPT !.q = {}]
Consistent(q) == ~({"iso", "imm"} \subseteq q)
Rigid(t) == t.tag \in {"param", "proj"}

RECURSIVE Flags(_)
Flags(t) ==
    UNION {Flags(t.kids[i]) : i \in DOMAIN t.kids}
    \cup (IF t.tag \in {"error", "param", "proj", "brand"} THEN {t.tag} ELSE {})
    \cup (IF t.tag = "brand" /\ t.data[1] = 1 THEN {"fresh"} ELSE {})
Monomorphic(t) == Flags(t) \cap {"param", "proj", "brand"} = {}

HeadKey(t) ==
    [tag |-> t.tag, key |-> IF t.tag \in {"nominal", "dyn"} THEN t.key ELSE <<>>,
     n |-> IF t.tag = "tuple" THEN Len(t.kids) ELSE IF t.tag = "prim" THEN t.data[1] ELSE 0]

-----------------------------------------------------------------------------
(* Bindings: the parameters of the owners, each with its slot.             *)

Binding(owners) ==
    [own |-> DOMAIN owners,
     at |-> [k \in UNION {{<<o, i>> : i \in 0..owners[o] - 1} : o \in DOMAIN owners} |-> NoTy]]
IsParam(t) == t.tag = "param" \/ (t.tag = "brand" /\ t.data[1] = 0)
Owned(t, b) == IsParam(t) /\ t.key \in b.own
SlotOf(t) == <<t.key, Last(t.data)>>
Slot(k, b) == IF k \in DOMAIN b.at THEN b.at[k] ELSE NoTy
Complete(b) == \A k \in DOMAIN b.at : b.at[k] # NoTy

\* A match in progress: whether it still holds, the binding, the solver.
Holds(m, c) == [m EXCEPT !.ok = @ /\ c]
Bind(m, k, t) ==
    IF k \notin DOMAIN m.b.at THEN Holds(m, FALSE)
    ELSE IF m.b.at[k] = NoTy THEN [m EXCEPT !.b.at[k] = t]
    ELSE Holds(m, m.b.at[k] = t)

\* The answer of a substitution and the solver after it.
R(t, n) == [t |-> t, n |-> n]
NeutralOnly == [neutral |-> TRUE]

\* What a solver that normalises through impls starts from.
NormState(impls, max) ==
    [neutral |-> FALSE, impls |-> impls, memo |-> <<>>, used |-> 0, max |-> max, depth |-> 0,
     exceeded |-> FALSE, deep |-> FALSE, noimpl |-> NoTy, probed |-> {}]
OpenQuery(n) == [n EXCEPT !.used = 0, !.noimpl = NoTy, !.exceeded = FALSE, !.deep = FALSE]
CloseQuery(n) == [n EXCEPT !.probed = {}]

RECURSIVE Subst(_, _, _), Match(_, _, _, _)

Pushed(a, r) == [ok |-> r.t # NoTy, ts |-> Append(a.ts, r.t), n |-> r.n]
SubstKids(ts, b, n) ==
    FoldLeft(LAMBDA a, t : IF ~a.ok THEN a ELSE Pushed(a, Subst(t, b, a.n)), [ok |-> TRUE, ts |-> <<>>, n |-> n], ts)

(* An impl: its definition, arity, trait, trait arguments, self type and   *)
(* the right-hand sides of its associated types.                           *)
Bucket(n, tr, head) == SelectSeq(n.impls, LAMBDA r : r.tr = tr /\ HeadKey(r.self) = HeadKey(head))
Exact(n, tr, head) == SelectSeq(n.impls, LAMBDA r : r.tr = tr /\ r.self = head)
HeadOf(p) == Last(p.kids)
TraitArgs(p) == Front(p.kids)
MatchAll(ps, ts, m, mode) ==
    IF Len(ps) # Len(ts) THEN Holds(m, FALSE)
    ELSE FoldLeft(LAMBDA a, i : Match(ps[i], ts[i], a, mode), m, [i \in DOMAIN ps |-> i])
Fresh(r, n) == [ok |-> TRUE, b |-> Binding(r.def :> r.arity), n |-> n]

NoImplHere == [def |-> <<>>, b |-> Binding(<<>>), rhs |-> <<>>]
Found(r, m) == [def |-> r.def, b |-> m.b, rhs |-> r.rhs]
FoundIf(r, m) == IF m.ok /\ Complete(m.b) THEN Found(r, m) ELSE NoImplHere
InBucket(p, n) ==
    FoldLeft(LAMBDA got, r :
                 IF got # NoImplHere THEN got
                 ELSE FoundIf(r, MatchAll(r.args, TraitArgs(p),
                                          Match(r.self, HeadOf(p), Fresh(r, NeutralOnly), "strict"), "strict")),
             NoImplHere, Bucket(n, p.key, HeadOf(p)))
ImplLookup(p, n, ground) == IF ground # <<>> THEN Found(ground[1], Fresh(ground[1], n)) ELSE InBucket(p, n)
Ground(p, n) == SelectSeq(Exact(n, p.key, HeadOf(p)), LAMBDA r : r.args = TraitArgs(p) /\ r.arity = 0)

NoteNoImpl(p, n) ==
    IF "error" \in Flags(HeadOf(p)) THEN n
    ELSE [n EXCEPT !.probed = @ \cup {<<p.key, HeadKey(HeadOf(p))>>},
                   !.noimpl = IF Bucket(n, p.key, HeadOf(p)) = <<>> THEN p ELSE @]
Probe(p, n) ==
    IF Ground(p, n) # <<>> THEN n
    ELSE [n EXCEPT !.probed = @ \cup {<<p.key, HeadKey(HeadOf(p))>>}]
AssocRhs(found, name) ==
    IF name \in DOMAIN found.rhs /\ found.rhs[name] \notin {NoTy, TyError} THEN found.rhs[name] ELSE NoTy
Ascend(r) == [r EXCEPT !.n.depth = @ - 1]
Instantiate(rhs, found, n) ==
    IF rhs = NoTy THEN R(NoTy, n) ELSE Ascend(Subst(rhs, found.b, [n EXCEPT !.depth = @ + 1]))
Through(found, p, n) == Instantiate(AssocRhs(found, p.data), found, n)
NormaliseUncached(p, n) ==
    IF "error" \in Flags(HeadOf(p)) THEN R(NoTy, n) ELSE Through(ImplLookup(p, n, Ground(p, n)), p, Probe(p, n))
RememberAlways(p, r) ==
    R(r.t, IF r.t = NoTy THEN NoteNoImpl(p, [r.n EXCEPT !.memo = (p :> r.t) @@ @])
           ELSE [r.n EXCEPT !.memo = (p :> r.t) @@ @])
Remember(p, r) ==
    IF r.t = NoTy /\ (r.n.exceeded \/ r.n.deep) THEN r ELSE RememberAlways(p, r)
Miss(p, n) ==
    IF n.used > n.max THEN R(NoTy, [n EXCEPT !.exceeded = TRUE])
    ELSE IF n.depth >= NORMALISE_DEPTH_MAX THEN R(NoTy, [n EXCEPT !.deep = TRUE])
    ELSE Remember(p, NormaliseUncached(p, n))
Solve(p, n) ==
    IF n.neutral THEN R(NoTy, n)
    ELSE IF p \in DOMAIN n.memo THEN R(n.memo[p], IF n.memo[p] = NoTy THEN NoteNoImpl(p, n) ELSE n)
    ELSE Miss(p, [n EXCEPT !.used = @ + 1])

Rebuilt(t, r) ==
    IF ~r.ok THEN R(NoTy, r.n)
    ELSE IF t.tag = "proj" /\ ~Rigid(Last(r.ts)) THEN Solve([t EXCEPT !.kids = r.ts], r.n)
    ELSE R([t EXCEPT !.kids = r.ts], r.n)
SubstCore(t, b, n) ==
    IF IsParam(t) THEN R(IF Owned(t, b) THEN Slot(SlotOf(t), b) ELSE t, n)
    ELSE Rebuilt(t, SubstKids(t.kids, b, n))
\* A qualified position takes only an unqualified argument.
Requalify(q, r) ==
    IF r.t = NoTy \/ q = {} THEN r
    ELSE IF r.t.q # {} THEN R(NoTy, r.n)
    ELSE R(Qualified(r.t, q), r.n)
Subst(t, b, n) == IF Monomorphic(t) THEN R(t, n) ELSE Requalify(t.q, SubstCore(Unqual(t), b, n))
SubstNorm(t, b) == Subst(t, b, NeutralOnly).t

RECURSIVE ProjHeadUnbound(_, _)
ProjHeadUnbound(t, b) ==
    IF t.tag = "proj" THEN ProjHeadUnbound(HeadOf(t), b)
    ELSE t.tag = "param" /\ Owned(t, b) /\ Slot(SlotOf(t), b) = NoTy

Compared(m, t, r) == [m EXCEPT !.ok = r.t = t, !.n = r.n]
MatchProj(p, t, m) ==
    IF ProjHeadUnbound(p, m.b) THEN m
    ELSE Compared(m, t, Subst(p, m.b, m.n))
MatchParamLoose(p, t, m) ==
    IF ~Owned(p, m.b) THEN Holds(m, p = t) ELSE Bind(m, SlotOf(p), Unqual(t))
MatchParam(p, t, m) ==
    IF ~Owned(p, m.b) THEN Holds(m, p = t)
    ELSE IF p.q = {} THEN Bind(m, SlotOf(p), t)
    ELSE IF p.q # t.q THEN Holds(m, FALSE)
    ELSE Bind(m, SlotOf(p), Unqual(t))
MatchBrand(p, t, m, mode) ==
    IF mode = "nofail" THEN m
    ELSE IF Owned(p, m.b) THEN Bind(m, SlotOf(p), t) ELSE Holds(m, p = t)
Match(p, t, m, mode) ==
    IF ~m.ok THEN m
    ELSE IF Monomorphic(p) THEN Holds(m, p = t)
    ELSE IF p.tag = "proj" THEN MatchProj(p, t, m)
    ELSE IF p.tag = "param" THEN MatchParam(p, t, m)
    ELSE IF p.q # t.q THEN Holds(m, FALSE)
    ELSE IF p.tag = "brand" THEN MatchBrand(p, t, m, mode)
    ELSE IF p.tag # t.tag \/ p.key # t.key \/ p.data # t.data THEN Holds(m, FALSE)
    ELSE MatchAll(p.kids, t.kids, m, mode)
OneWayMatch(p, t, b) == Match(p, t, [ok |-> TRUE, b |-> b, n |-> NeutralOnly], "strict")

\* The first slot of b the type mentions that is still unbound.
RECURSIVE FirstUnbound(_, _)
FirstUnbound(t, b) ==
    IF Monomorphic(t) THEN <<>>
    ELSE IF IsParam(t) THEN IF Owned(t, b) /\ Slot(SlotOf(t), b) = NoTy THEN <<SlotOf(t), t.tag>> ELSE <<>>
    ELSE FoldLeft(LAMBDA got, k : IF got # <<>> THEN got ELSE FirstUnbound(k, b), <<>>,
                  IF t.tag = "proj" THEN <<HeadOf(t)>> \o TraitArgs(t) ELSE t.kids)

-----------------------------------------------------------------------------
(* The overlap of two impls: u is the unifier, NoU its failure.            *)

NoU == <<NoTy>> :> NoTy
RECURSIVE Unify(_, _, _, _), Occurs(_, _, _, _)
IsVar(t, owners) == IsParam(t) /\ t.key \in owners
UnifyAll(as, bs, owners, u) ==
    IF Len(as) # Len(bs) THEN NoU
    ELSE FoldLeft(LAMBDA a, i : IF a = NoU THEN NoU ELSE Unify(as[i], bs[i], owners, a), u, [i \in DOMAIN as |-> i])
Unify(a, b, owners, u) ==
    IF a = b THEN u
    ELSE IF IsVar(a, owners) THEN
        IF SlotOf(a) \in DOMAIN u THEN Unify(u[SlotOf(a)], b, owners, u)
        ELSE IF Occurs(SlotOf(a), b, owners, u) THEN NoU
        ELSE (SlotOf(a) :> b) @@ u
    ELSE IF IsVar(b, owners) THEN Unify(b, a, owners, u)
    ELSE IF a.tag # b.tag \/ a.q # b.q THEN NoU
    ELSE IF a.tag \in {"nominal", "tuple"} /\ a.key = b.key THEN UnifyAll(a.kids, b.kids, owners, u)
    ELSE NoU
Occurs(k, t, owners, u) ==
    IF IsVar(t, owners)
    THEN SlotOf(t) = k \/ (SlotOf(t) \in DOMAIN u /\ Occurs(k, u[SlotOf(t)], owners, u))
    ELSE t.tag \in {"nominal", "tuple"} /\ \E i \in DOMAIN t.kids : Occurs(k, t.kids[i], owners, u)
OverlapFrom(a, b, u) == u # NoU /\ UnifyAll(a.args, b.args, {a.def, b.def}, u) # NoU
Overlap(a, b) ==
    a.tr = b.tr /\ a.def # b.def /\ OverlapFrom(a, b, Unify(a.self, b.self, {a.def, b.def}, <<>>))

RECURSIVE Mentions(_, _)
Mentions(hay, needle) ==
    \/ hay = needle \/ Unqual(hay) = needle
    \/ hay.tag \in {"nominal", "tuple", "fn"} /\ \E i \in DOMAIN hay.kids : Mentions(hay.kids[i], needle)
    \/ hay.tag = "proj" /\ Mentions(HeadOf(hay), needle)
\* The first parameter an impl head does not mention, or its arity.
FirstUnconstrained(def, brands, heads) ==
    LET free == {o \in DOMAIN brands : ~\E h \in heads :
                     Mentions(h, IF brands[o] THEN Brand(def, o) ELSE Param(def, o))}
    IN IF free = {} THEN {} ELSE {CHOOSE o \in free : \A p \in free : o <= p}

-----------------------------------------------------------------------------
(* Linearity.  sigs gives each definition its arity and the types of its   *)
(* fields and payloads; env the declared facts.                            *)

Components(t, sigs) ==
    IF t.key \notin DOMAIN sigs THEN <<>>
    ELSE LET s == sigs[t.key]
             b0 == Binding(t.key :> s.arity)
             b == [b0 EXCEPT !.at = [k \in DOMAIN b0.at |->
                       IF k[2] < Len(t.kids) THEN t.kids[k[2] + 1] ELSE NoTy]]
             Or(c, r) == IF r = NoTy THEN c ELSE r
             Inst(c) == IF t.kids = <<>> THEN c ELSE Or(c, SubstNorm(c, b))
         IN [i \in DOMAIN s.tys |-> Inst(s.tys[i])]

RECURSIVE LinUncached(_, _, _, _, _)
LinAny(ts, sigs, env, memo, depth) ==
    FoldLeft(LAMBDA a, t : IF a.v THEN a ELSE LinUncached(t, sigs, env, a.memo, depth), [v |-> FALSE, memo |-> memo], ts)
LinBody(t, sigs, env, memo, depth) ==
    CASE t.tag \in {"param", "proj"} -> [v |-> depth = 0 /\ t \in env.rigid, memo |-> memo]
      [] t.tag = "nominal" /\ t.key \in env.roots \cup env.own -> [v |-> TRUE, memo |-> memo]
      [] t.tag = "nominal" /\ t.key \in env.opaque \ (env.roots \cup env.own) -> [v |-> FALSE, memo |-> memo]
      [] t.tag = "nominal" /\ t.key \in env.byValue \ (env.roots \cup env.own \cup env.opaque) ->
            LinAny(SubSeq(t.kids, 1, 1), sigs, env, memo, depth + 1)
      [] t.tag = "nominal" /\ t.key \notin env.byValue \cup env.roots \cup env.own \cup env.opaque ->
            LinAny(Components(t, sigs), sigs, env, memo, depth + 1)
      [] t.tag = "tuple" -> LinAny(t.kids, sigs, env, memo, depth + 1)
      [] t.tag \notin {"param", "proj", "nominal", "tuple"} -> [v |-> FALSE, memo |-> memo]
Memoised(t, r) == [r EXCEPT !.memo = (t :> r.v) @@ @]
LinUncached(q, sigs, env, memo, depth) ==
    LET t == Unqual(q)
    IN IF depth > LIN_DEPTH_MAX \/ q = TyError THEN [v |-> FALSE, memo |-> memo]
       ELSE IF t.tag \notin {"nominal", "tuple"} THEN LinBody(t, sigs, env, memo, depth)
       ELSE IF t \in DOMAIN memo THEN [v |-> memo[t], memo |-> memo]
       ELSE Memoised(t, LinBody(t, sigs, env, (t :> FALSE) @@ memo, depth))
Lin(t, sigs, env, memo) == LinUncached(t, sigs, env, memo, 0)
LinComponents(q, sigs, env, memo) ==
    LET t == Unqual(q)
    IN IF t.tag = "tuple" THEN LinAny(t.kids, sigs, env, memo, 1)
       ELSE IF t.tag # "nominal" \/ t.key \in env.own \cup env.opaque THEN [v |-> FALSE, memo |-> memo]
       ELSE LinAny(IF t.key \in env.byValue THEN SubSeq(t.kids, 1, 1) ELSE Components(t, sigs), sigs, env, memo, 1)

RECURSIVE LeavesInto(_, _, _, _, _)
LeavesAll(ts, sigs, env, a, depth) == FoldLeft(LAMBDA x, t : LeavesInto(t, sigs, env, x, depth), a, ts)
LeavesInto(q, sigs, env, a, depth) ==
    LET t == Unqual(q)
        saw == [a EXCEPT !.seen = @ \cup {q}]
    IN IF depth > LIN_DEPTH_MAX \/ q = TyError \/ q \in a.seen THEN a
       ELSE IF Rigid(t) THEN [saw EXCEPT !.out = @ \cup {t}]
       ELSE IF t.tag = "tuple" THEN LeavesAll(t.kids, sigs, env, saw, depth + 1)
       ELSE IF t.tag # "nominal" \/ t.key \in env.roots \cup env.own \cup env.opaque THEN saw
       ELSE LeavesAll(IF t.key \in env.byValue THEN SubSeq(t.kids, 1, 1) ELSE Components(t, sigs), sigs, env, saw, depth + 1)
OpenLeaves(t, sigs, env) == LeavesInto(t, sigs, env, [seen |-> {}, out |-> {}], 0).out

=============================================================================
