------------------------------ MODULE Patterns ------------------------------
(***************************************************************************)
(* Patterns against the type they face, and the arms of a match            *)
(* (fors-check pat.rs, exhaust.rs, the pattern rows of facts.rs).          *)
(*                                                                         *)
(* A type is [k, d, args]: a primitive ("bool", "u8", "str"), a "tuple",   *)
(* a "nominal" d of DeclSigs, a type parameter, one of the types without       *)
(* patterns ("other"), or "error".  A pattern of the text is               *)
(* [k, n, to, pay, kids]: the name it binds, what its path resolved to or  *)
(* its literal, and the brackets of its payload.  The pattern a matrix     *)
(* holds, a witness and a value are all [c, subs]: a constructor and its   *)
(* parts.                                                                  *)
(***************************************************************************)
EXTENDS Integers, Sequences, FiniteSets, SequencesExt, TLC

CONSTANTS
    DeclSigs,                   \* the declared types, and the prelude's option
    Consts,                 \* the constants a pattern may name: type and literal
    MATCH_STEP_FACTOR

Type(k, d, args) == [k |-> k, d |-> d, args |-> args]
TyError == Type("error", "", <<>>)
Known(t) == t.k # "error"
Part(c, subs) == [c |-> c, subs |-> subs]
Wild == Part(<<"wild">>, <<>>)
IsWild(p) == p.c = <<"wild">>
FitsU8(n) == n \in 0..255
NO_PAT_SLOT == 99

RECURSIVE Substituted(_, _, _)
Substituted(d, args, t) ==
    IF t.k = "param"
    THEN IF args = <<>> THEN t ELSE args[CHOOSE i \in DOMAIN DeclSigs[d].generics : DeclSigs[d].generics[i] = t.d]
    ELSE [t EXCEPT !.args = [i \in DOMAIN t.args |-> Substituted(d, args, t.args[i])]]
IsHead(t, d) == t.k = "nominal" /\ t.d = d
ScrutineeArgs(t, d) == IF IsHead(t, d) THEN t.args ELSE <<>>
FieldTypes(d, args, fs) == [i \in DOMAIN fs |-> Substituted(d, args, fs[i].ty)]
StructFields(d, args) == FieldTypes(d, args, DeclSigs[d].fields)
NthVariant(d, i) == DeclSigs[d].variants[i]
VariantTypes(d, args, v) == FieldTypes(d, args, v.fields)
FindVariant(d, name) == {i \in DOMAIN DeclSigs[d].variants : DeclSigs[d].variants[i].n = name}

\* A type is linear by its declaration, or by a component it holds by value.
RECURSIVE IsLinear(_)
IsLinear(t) ==
    CASE t.k = "tuple" -> \E i \in DOMAIN t.args : IsLinear(t.args[i])
      [] t.k = "nominal" -> \/ DeclSigs[t.d].linear
                            \/ \E i \in DOMAIN t.args : IsLinear(t.args[i])
                            \/ ~DeclSigs[t.d].recursive /\ \E u \in Range(StructFields(t.d, t.args)) : IsLinear(u)
                            \/ ~DeclSigs[t.d].recursive /\ \E v \in Range(DeclSigs[t.d].variants) : \E u \in Range(VariantTypes(t.d, t.args, v)) : IsLinear(u)
      [] OTHER -> FALSE
RECURSIVE Copyable(_)
Copyable(t) == CASE t.k = "tuple" -> \A i \in DOMAIN t.args : Copyable(t.args[i])
                 [] t.k = "nominal" -> DeclSigs[t.d].copy /\ \A i \in DOMAIN t.args : Copyable(t.args[i])
                 [] OTHER -> t.k # "param"

-----------------------------------------------------------------------------
(* The rows left for lowering: a stack of open patterns, each with the     *)
(* rows of its components so far.                                          *)

Row(node, ty, shape) == [node |-> node, ty |-> ty, shape |-> shape, subs |-> <<>>, slot |-> NO_PAT_SLOT]
NoFacts == [nodes |-> <<>>, open |-> <<>>, root |-> 0, count |-> 0, diags |-> {}, id |-> Wild]
Adopt(c, i) == IF c.open = <<>> THEN c ELSE [c EXCEPT !.open[Len(c.open)].kids = Append(@, i)]
Open(c, node, ty) ==
    LET i == Len(c.nodes) + 1
        d == Adopt([c EXCEPT !.nodes = Append(@, Row(node, ty, <<"undecided">>)), !.root = IF c.open = <<>> THEN 0 ELSE @], i)
    IN [d EXCEPT !.open = Append(@, [i |-> i, kids |-> <<>>])]
Close(c) ==
    LET top == Last(c.open)
    IN [c EXCEPT !.open = Front(@), !.nodes[top.i].subs = top.kids, !.root = IF Len(c.open) = 1 THEN top.i ELSE @]
Leaf(c, node, ty, shape) == Adopt([c EXCEPT !.nodes = Append(@, Row(node, ty, shape))], Len(c.nodes) + 1)
Shape(c, shape) == [c EXCEPT !.nodes[Last(c.open).i].shape = shape]
SlotLast(c, slot) == [c EXCEPT !.nodes[Last(Last(c.open).kids)].slot = slot]
SortChildren(c) ==
    LET kids == Last(c.open).kids
        place(i) == Cardinality({j \in DOMAIN kids : \/ c.nodes[kids[j]].slot < c.nodes[kids[i]].slot
                                                     \/ c.nodes[kids[j]].slot = c.nodes[kids[i]].slot /\ j <= i})
    IN [c EXCEPT !.open[Len(c.open)].kids = [p \in DOMAIN kids |-> kids[CHOOSE i \in DOMAIN kids : place(i) = p]]]

Touch(c) == [c EXCEPT !.count = @ + 1]
Diag(c, code) == [c EXCEPT !.diags = @ \cup {code}]
DiagIf(c, bad, code) == IF bad THEN Diag(c, code) ELSE c
Is(c, p) == [c EXCEPT !.id = p]
BindShape(t) == IF ~Known(t) THEN <<"undecided">> ELSE <<"bind", IF Copyable(t) THEN "let" ELSE "sink">>

-----------------------------------------------------------------------------
(* One pattern against the type it faces.  Each step takes the state c to  *)
(* one whose `id` is the pattern the matrix will hold.                     *)

LitFits(lit, t) == CASE lit[1] = "int" -> t.k = "u8" /\ FitsU8(lit[2]) [] OTHER -> t.k = lit[1]
CheckPatLit(c, p, t) ==
    IF p.to[1] = "float" THEN Is(Diag(c, "T50"), Wild)
    ELSE Is(Shape(DiagIf(c, Known(t) /\ ~LitFits(p.to, t), "T50"), <<"lit", p.to>>), Part(p.to, <<>>))
CheckPatConst(c, t, const) ==
    IF Consts[const].lit = <<>> THEN Is(c, Wild)
    ELSE Is(Shape(DiagIf(c, Known(t) /\ Consts[const].ty # t, "T50"), <<"lit", Consts[const].lit>>), Part(Consts[const].lit, <<>>))
CheckScrutineeHead(c, t, d) == DiagIf(c, Known(t) /\ ~IsHead(t, d), "T50")

Built(got, ctor) == Is(Shape(got.c, ctor), Part(ctor, got.subs))

\* Sub-patterns in order against the component types: missing ones match
\* anything, those past the end face no type.
RECURSIVE CheckPat(_, _, _)
AddSub(s, d, i, typed) == IF typed THEN [c |-> SlotLast(d, i), subs |-> Append(s.subs, d.id)] ELSE [s EXCEPT !.c = d]
CheckComponent(s, p, tys, i) ==
    AddSub(s, IF i \in DOMAIN p.kids THEN CheckPat(s.c, p.kids[i], IF i \in DOMAIN tys THEN tys[i] ELSE TyError)
              ELSE Is(Leaf(s.c, p.n, tys[i], <<"wild">>), Wild), i, i \in DOMAIN tys)
CheckComponents(c, p, tys) ==
    LET upto[i \in 0..Max({Len(tys), Len(p.kids)})] == IF i = 0 THEN [c |-> c, subs |-> <<>>] ELSE CheckComponent(upto[i - 1], p, tys, i)
    IN upto[Max({Len(tys), Len(p.kids)})]

CheckPatTuple(c, p, t) ==
    LET tys == IF t.k = "tuple" THEN t.args ELSE <<>>
        ok == t.k = "tuple" /\ Len(t.args) = Len(p.kids)
    IN Built(CheckComponents(DiagIf(c, Known(t) /\ ~ok, "T50"), p, tys), <<"tuple", Len(tys)>>)

\* Named fields in any order, each once; fields left out match anything,
\* which a linear one may not.  `head` is the struct, whose fields may be
\* private; a variant's fields never are.
AddField(s, e, slot, new) == [c |-> SlotLast(e, slot), subs |-> IF new THEN [s.subs EXCEPT ![slot] = <<e.id>>] ELSE s.subs]
FieldPat(c, f, ty) == IF f.kids # <<>> THEN CheckPat(c, f.kids[1], ty) ELSE Is(Leaf(Touch(c), f.n, ty, BindShape(ty)), Wild)
CheckField(s, f, fs, tys, head, slot) ==
    LET known == slot # NO_PAT_SLOT
        twice == known /\ s.subs[slot] # <<>>
        hidden == known /\ ~twice /\ head # "" /\ ~fs[slot].pub /\ ~DeclSigs[head].here
    IN AddField(s, FieldPat(DiagIf(DiagIf(s.c, ~known \/ twice, "T50"), hidden, "N11"), f, IF known THEN tys[slot] ELSE TyError), slot, known /\ ~twice)
LeftOut(got, fs, tys) ==
    [c |-> SortChildren(DiagIf(got.c, \E i \in DOMAIN fs : got.subs[i] = <<>> /\ Known(tys[i]) /\ IsLinear(tys[i]), "O22")),
     subs |-> [i \in DOMAIN fs |-> IF got.subs[i] = <<>> THEN Wild ELSE got.subs[i][1]]]
CheckFieldPayload(c, p, fs, tys, head) ==
    LET named == SelectSeq(p.kids, LAMBDA k : k.k = "fpat")
        slot(f) == LET slots == {i \in DOMAIN fs : fs[i].n = f.n} IN IF slots = {} THEN NO_PAT_SLOT ELSE CHOOSE i \in slots : TRUE
        upto[n \in 0..Len(named)] ==
            IF n = 0 THEN [c |-> c, subs |-> [i \in DOMAIN fs |-> <<>>]] ELSE CheckField(upto[n - 1], named[n], fs, tys, head, slot(named[n]))
    IN LeftOut(upto[Len(named)], fs, tys)

CheckPayload(c, p, d, args, v) ==
    LET tys == VariantTypes(d, args, v)
        wilds == [i \in DOMAIN tys |-> Wild]
    IN CASE v.p = "none" -> [c |-> DiagIf(c, p.pay # "", "T50"), subs |-> <<>>]
         [] v.p = "tuple" /\ p.pay = "" -> [c |-> Diag(c, "T50"), subs |-> wilds]
         [] v.p = "tuple" /\ p.pay # "" -> CheckComponents(DiagIf(c, Len(p.kids) # Len(tys), "T50"), p, tys)
         [] v.p = "record" /\ p.pay = "" -> [c |-> c, subs |-> wilds]
         [] v.p = "record" /\ p.pay # "" -> CheckFieldPayload(c, p, v.fields, tys, "")
AsVariant(c, p, d, args, i) == Built(CheckPayload(c, p, d, args, NthVariant(d, i)), <<"variant", d, i>>)
CheckPatVariant(c, p, t, d, i) == AsVariant(CheckScrutineeHead(c, t, d), p, d, ScrutineeArgs(t, d), i)
CheckPatDot(c, p, t) ==
    CASE ~Known(t) -> Is(c, Wild)
      [] Known(t) /\ ~(t.k = "nominal" /\ DeclSigs[t.d].kind = "enum" /\ FindVariant(t.d, p.n) # {}) -> Is(Diag(c, "T50"), Wild)
      [] OTHER -> AsVariant(c, p, t.d, t.args, CHOOSE i \in FindVariant(t.d, p.n) : TRUE)
CheckPatOption(c, p, t) ==
    AsVariant(CheckScrutineeHead(c, t, "Option"), p, "Option", ScrutineeArgs(t, "Option"), CHOOSE i \in FindVariant("Option", p.n) : TRUE)
Fields(c, p, d, tys) == IF p.pay = "" THEN [c |-> c, subs |-> [i \in DOMAIN tys |-> Wild]] ELSE CheckFieldPayload(c, p, DeclSigs[d].fields, tys, d)
CheckPatStruct(c, p, t, d) == Built(Fields(CheckScrutineeHead(c, t, d), p, d, StructFields(d, ScrutineeArgs(t, d))), <<"struct", d>>)
CheckPatPath(c, p, t) ==
    CASE p.to[1] = "variant" -> CheckPatVariant(c, p, t, p.to[2], p.to[3])
      [] p.to[1] = "member" -> CheckPatDot(c, p, t)
      [] p.to[1] = "struct" -> CheckPatStruct(c, p, t, p.to[2])
      [] p.to[1] = "const" -> CheckPatConst(c, t, p.to[2])
      [] p.to[1] = "option" -> CheckPatOption(c, p, t)
      [] p.to[1] = "entity" -> Is(Diag(c, "T50"), Wild)
      [] p.to[1] = "unresolved" -> Is(c, Wild)

CheckPatDecided(c, p, t) ==
    CASE p.k \in {"wild", "lit"} /\ Known(t) /\ IsLinear(t) -> Is(Diag(c, "O22"), Wild)
      [] p.k = "wild" /\ ~(Known(t) /\ IsLinear(t)) -> Is(Shape(c, <<"wild">>), Wild)
      [] p.k = "lit" /\ ~(Known(t) /\ IsLinear(t)) -> CheckPatLit(c, p, t)
      [] p.k = "let" -> Is(Shape(c, BindShape(t)), Wild)
      [] p.k = "tuple" -> CheckPatTuple(c, p, t)
      [] p.k = "path" -> CheckPatPath(c, p, t)
      [] OTHER -> Is(c, Wild)
CheckPat(c, p, t) == Close(CheckPatDecided(Touch(Open(c, p.n, t)), p, t))

-----------------------------------------------------------------------------
(* Usefulness of a row after others, charged one step a row of every       *)
(* matrix formed.  b holds the steps so far and, at the end, the answer.   *)

Charge(b, n) == [b EXCEPT !.steps = @ + n, !.over = b.steps + n > b.limit]
SpecializeExact(rows, c, arity) ==
    LET fit == SelectSeq(rows, LAMBDA r : r[1].c = c)
    IN [i \in DOMAIN fit |-> fit[i][1].subs \o Tail(fit[i])]
Specialize(rows, c, arity) ==
    LET fit == SelectSeq(rows, LAMBDA r : IsWild(r[1]) \/ r[1].c = c)
    IN [i \in DOMAIN fit |-> (IF IsWild(fit[i][1]) THEN [j \in 1..arity |-> Wild] ELSE fit[i][1].subs) \o Tail(fit[i])]
DefaultRows(rows) == LET fit == SelectSeq(rows, LAMBDA r : IsWild(r[1])) IN [i \in DOMAIN fit |-> Tail(fit[i])]
CombineWitness(c, arity, w) == <<Part(c, SubSeq(w, 1, arity))>> \o SubSeq(w, arity + 1, Len(w))
Useful(b, w) == [b EXCEPT !.found = TRUE, !.w = w]
Useless(b) == [b EXCEPT !.found = FALSE, !.w = <<>>]

CtorSubTys(t, c) ==
    CASE c[1] = "tuple" -> IF t.k = "tuple" THEN t.args ELSE <<>>
      [] c[1] = "struct" -> StructFields(c[2], ScrutineeArgs(t, c[2]))
      [] c[1] = "variant" -> VariantTypes(c[2], ScrutineeArgs(t, c[2]), NthVariant(c[2], c[3]))
      [] OTHER -> <<>>
\* The constructors of a type and their components; none where the domain
\* counts as infinite, an enum without variants among them.
SignatureOf(t) ==
    CASE t.k = "bool" -> <<[c |-> <<"bool", FALSE>>, tys |-> <<>>], [c |-> <<"bool", TRUE>>, tys |-> <<>>]>>
      [] t.k = "tuple" -> <<[c |-> <<"tuple", Len(t.args)>>, tys |-> t.args]>>
      [] t.k = "nominal" /\ DeclSigs[t.d].kind = "struct" -> <<[c |-> <<"struct", t.d>>, tys |-> StructFields(t.d, t.args)]>>
      [] t.k = "nominal" /\ DeclSigs[t.d].kind = "enum" ->
            [i \in DOMAIN DeclSigs[t.d].variants |-> [c |-> <<"variant", t.d, i>>, tys |-> VariantTypes(t.d, t.args, NthVariant(t.d, i))]]
      [] OTHER -> <<>>
OtherWords == <<"other0", "other1", "other2", "other3", "other4">>
MissingLiteral(t, rows) ==
    LET lit(n) == IF t.k = "str" THEN <<"str", OtherWords[n + 1]>> ELSE <<"int", n>>
        free == {n \in 0..Len(rows) : ~\E r \in Range(rows) : r[1].c = lit(n)}
    IN Part(lit(CHOOSE n \in free : \A m \in free : n <= m), <<>>)

RECURSIVE Usefulness(_, _, _, _)
Under(tys, rows, v, b, c, subs, sub) ==        \* below constructor c
    LET r == Usefulness(subs \o Tail(tys), Specialize(rows, c, Len(subs)), sub \o Tail(v), b)
    IN IF r.over \/ ~r.found THEN r ELSE Useful(r, CombineWitness(c, Len(subs), r.w))
Default(tys, rows, v, b, first) ==
    LET r == Usefulness(Tail(tys), DefaultRows(rows), Tail(v), b)
    IN IF r.over \/ ~r.found THEN r ELSE Useful(r, <<first>> \o r.w)
Usefulness(tys, rows, v, b0) ==
    LET b == Charge(b0, Len(rows))
        sig == SignatureOf(tys[1])
        absent == {i \in DOMAIN sig : ~\E r \in Range(rows) : r[1].c = sig[i].c}
        first == sig[CHOOSE i \in absent : \A j \in absent : i <= j]
        upto[n \in 0..Len(sig)] ==
            IF n = 0 THEN Useless(b)
            ELSE
            LET acc == upto[n - 1]
                r == Under(tys, rows, v, acc, sig[n].c, sig[n].tys, [i \in DOMAIN sig[n].tys |-> Wild])
            IN IF acc.over THEN acc ELSE IF acc.found /\ ~r.over THEN Useful(r, acc.w) ELSE r
    IN CASE b.over -> b
         [] ~b.over /\ v = <<>> -> IF rows = <<>> THEN Useful(b, <<>>) ELSE Useless(b)
         [] ~b.over /\ v # <<>> /\ ~IsWild(v[1]) -> Under(tys, rows, v, b, v[1].c, CtorSubTys(tys[1], v[1].c), v[1].subs)
         [] ~b.over /\ v # <<>> /\ IsWild(v[1]) /\ sig = <<>> -> Default(tys, rows, v, b, MissingLiteral(tys[1], rows))
         [] ~b.over /\ v # <<>> /\ IsWild(v[1]) /\ sig # <<>> /\ absent # {} ->
                Default(tys, rows, v, b, Part(first.c, [i \in DOMAIN first.tys |-> Wild]))
         [] OTHER -> upto[Len(sig)]

\* Each arm against those before it, then anything at all against them all.
CheckMatch(arms, t, count) ==
    LET rows(n) == [i \in 1..n |-> <<arms[i]>>]
        ask(s, i) ==
            LET r == Usefulness(<<t>>, rows(i - 1), <<IF i > Len(arms) THEN Wild ELSE arms[i]>>, s.b)
            IN IF s.b.over THEN s
               ELSE [b |-> r, dead |-> IF i <= Len(arms) /\ ~r.over /\ ~r.found THEN s.dead \cup {i} ELSE s.dead]
        start == [b |-> [steps |-> 0, limit |-> MATCH_STEP_FACTOR * count, over |-> FALSE, found |-> FALSE, w |-> <<>>], dead |-> {}]
        end == FoldLeft(ask, start, [i \in 1..Len(arms) + 1 |-> i])
    IN IF ~Known(t) \/ arms = <<>> THEN [asked |-> FALSE]
       ELSE IF end.b.over THEN [asked |-> TRUE, over |-> TRUE]
       ELSE [asked |-> TRUE, over |-> FALSE, dead |-> end.dead, missing |-> end.b.w]

Arm(s, c) == [c |-> c, arms |-> Append(s.arms, c.id), roots |-> Append(s.roots, c.root)]
Matched(got, t) == [diags |-> got.c.diags, nodes |-> got.c.nodes, roots |-> got.roots, match |-> CheckMatch(got.arms, t, got.c.count)]
MatchExpr(t, pats) ==
    Matched(FoldLeft(LAMBDA s, p : Arm(s, CheckPat(s.c, p, t)), [c |-> NoFacts, arms |-> <<>>, roots |-> <<>>], pats), t)

-----------------------------------------------------------------------------
(* What it is for: a pattern matches values and binds their parts.         *)

\* The values of a type whose nesting is at most n, over small literals.
Opaque == {Part(<<"opaque">>, <<>>)}
RECURSIVE Values(_, _)
Products(tys, n) ==
    LET upto[i \in 0..Len(tys)] == IF i = 0 THEN {<<>>} ELSE {Append(s, v) : s \in upto[i - 1], v \in Values(tys[i], n)}
    IN upto[Len(tys)]
Values(t, n) ==
    CASE t.k = "u8" -> {Part(<<"int", i>>, <<>>) : i \in 0..4}
      [] t.k = "str" -> {Part(<<"str", w>>, <<>>) : w \in Range(OtherWords) \cup {"a", "b"}}
      [] t.k \notin {"u8", "str"} /\ SignatureOf(t) = <<>> -> Opaque
      [] OTHER -> IF n = 0 THEN {} ELSE UNION {{Part(s.c, subs) : subs \in Products(s.tys, n - 1)} : s \in Range(SignatureOf(t))}

Let(x) == [k |-> "let", n |-> x, to |-> <<"none">>, pay |-> "", kids |-> <<>>]
FieldsOf(c) == CASE c[1] = "struct" -> DeclSigs[c[2]].fields [] c[1] = "variant" -> NthVariant(c[2], c[3]).fields [] OTHER -> <<>>
\* Which sub-pattern faces which component of a value built by c.
Faces(p, c) ==
    IF p.k = "tuple" \/ p.pay = "()" THEN {<<i, p.kids[i]>> : i \in DOMAIN p.kids}
    ELSE UNION {{<<i, IF f.kids = <<>> THEN Let(f.n) ELSE f.kids[1]>> : i \in {j \in DOMAIN FieldsOf(c) : FieldsOf(c)[j].n = f.n}} : f \in Range(p.kids)}
HeadMatches(p, v) ==
    CASE p.k \in {"wild", "let", "tuple"} -> TRUE
      [] p.k = "lit" -> v.c = p.to
      [] p.k = "path" /\ p.to[1] = "const" -> v.c = Consts[p.to[2]].lit
      [] p.k = "path" /\ p.to[1] \in {"struct", "variant"} -> v.c = p.to
      [] OTHER -> NthVariant(v.c[2], v.c[3]).n = p.n
RECURSIVE Matches(_, _)
Matches(p, v) == HeadMatches(p, v) /\ \A f \in Faces(p, v.c) : Matches(f[2], v.subs[f[1]])
RECURSIVE Binds(_, _)
Binds(p, v) == IF p.k = "let" THEN {<<p.n, v>>} ELSE UNION {Binds(f[2], v.subs[f[1]]) : f \in Faces(p, v.c)}
\* Every linear part of v is bound by a name.
RECURSIVE Keeps(_, _, _)
Keeps(p, t, v) ==
    LET tys == CtorSubTys(t, v.c)
    IN \/ p.k = "let" \/ ~IsLinear(t)
       \/ /\ p.k \notin {"wild", "lit"}
          /\ \A i \in DOMAIN tys : \/ ~IsLinear(tys[i])
                                   \/ \E f \in Faces(p, v.c) : f[1] = i /\ Keeps(f[2], tys[i], v.subs[i])
\* The patterns of a type.  A struct, or a variant with named fields, may be
\* named without brackets: the checker takes it for one that leaves every
\* field out, though 09-types.md:845-849 asks it to reject such a name.
RECURSIVE WellTyped(_, _)
WellTyped(p, t) ==
    LET d == t.d
        index == IF p.to[1] = "variant" THEN {p.to[3]} ELSE FindVariant(d, p.n)
        v == NthVariant(d, CHOOSE i \in index : TRUE)
        inOrder(tys) == Len(p.kids) = Len(tys) /\ \A i \in DOMAIN tys : WellTyped(p.kids[i], tys[i])
        byName(fs, tys) ==
            /\ \A i, j \in DOMAIN p.kids : p.kids[i].n = p.kids[j].n => i = j
            /\ \A f \in Range(p.kids) : \E i \in DOMAIN fs : fs[i].n = f.n /\ (f.kids = <<>> \/ WellTyped(f.kids[1], tys[i]))
            /\ \A i \in DOMAIN fs : IsLinear(tys[i]) => \E f \in Range(p.kids) : f.n = fs[i].n
        seen(fs) == DeclSigs[d].here \/ \A f \in Range(p.kids) : \E i \in DOMAIN fs : fs[i].n = f.n /\ fs[i].pub
    IN CASE p.k = "wild" -> ~IsLinear(t)
         [] p.k = "let" -> TRUE
         [] p.k = "lit" -> p.to[1] # "float" /\ LitFits(p.to, t)
         [] p.k = "tuple" -> t.k = "tuple" /\ inOrder(t.args)
         [] p.k = "path" /\ p.to[1] = "const" -> Consts[p.to[2]].ty = t
         [] p.k = "path" /\ p.to[1] = "entity" -> FALSE
         [] p.k = "path" /\ p.to[1] = "struct" ->
                IsHead(t, p.to[2]) /\ (p.pay = "" \/ (byName(DeclSigs[d].fields, StructFields(d, t.args)) /\ seen(DeclSigs[d].fields)))
         [] OTHER ->
                /\ t.k = "nominal" /\ (p.to[1] = "option" => d = "Option") /\ (p.to[1] = "variant" => d = p.to[2])
                /\ DeclSigs[d].kind = "enum" /\ index # {}
                /\ CASE v.p = "none" -> p.pay = ""
                     [] v.p = "tuple" -> p.pay # "" /\ inOrder(VariantTypes(d, t.args, v))
                     [] v.p = "record" -> p.pay = "" \/ byName(v.fields, VariantTypes(d, t.args, v))

\* A value tested the way the rows say, component by component.
RECURSIVE RowRun(_, _, _)
RowRun(nodes, i, v) ==
    LET row == nodes[i]
        parts == {RowRun(nodes, row.subs[j], v.subs[nodes[row.subs[j]].slot]) : j \in DOMAIN row.subs}
        all == [ok |-> \A r \in parts : r.ok, binds |-> UNION {r.binds : r \in parts}]
        no == [ok |-> FALSE, binds |-> {}]
    IN CASE row.shape[1] = "bind" -> [ok |-> TRUE, binds |-> {<<row.node, v>>}]
         [] row.shape[1] = "lit" -> [ok |-> v.c = row.shape[2], binds |-> {}]
         [] row.shape[1] = "variant" -> IF v.c = row.shape THEN all ELSE no
         [] OTHER -> all

\* A witness stands for the values that agree with it.
RECURSIVE Agrees(_, _)
Agrees(w, v) == IsWild(w) \/ v.c = <<"opaque">> \/ (v.c = w.c /\ \A i \in DOMAIN w.subs : Agrees(w.subs[i], v.subs[i]))

\* Accepted arms bind every linear part of what they match.
ArmsKeep(t, pats, r) ==
    r.diags = {} => \A i \in DOMAIN pats : \A v \in Values(t, 3) : Matches(pats[i], v) => Keeps(pats[i], t, v)

MatchRight(t, pats, r) ==
    LET values == Values(t, 3)
        hit(i, v) == Matches(pats[i], v)
    IN /\ r.diags = {} <=> \A i \in DOMAIN pats : WellTyped(pats[i], t)
       /\ ArmsKeep(t, pats, r)
       /\ r.diags = {} =>
            /\ \A i \in DOMAIN pats : \A v \in values :
                 LET run == RowRun(r.nodes, r.roots[i], v)
                 IN /\ run.ok = hit(i, v)
                    /\ hit(i, v) => run.binds = Binds(pats[i], v)
            /\ ~r.match.over =>
                 /\ r.match.dead = {i \in DOMAIN pats : \A v \in values : hit(i, v) => \E j \in 1..i - 1 : hit(j, v)}
                 /\ r.match.missing = <<>> <=> \A v \in values : \E i \in DOMAIN pats : hit(i, v)
                 /\ r.match.missing # <<>> =>
                      LET shown == {v \in values : Agrees(r.match.missing[1], v)}
                      IN shown # {} /\ \A v \in shown : ~\E i \in DOMAIN pats : hit(i, v)

-----------------------------------------------------------------------------
(* Samples: the arms of matches on one type each.                          *)

B == Type("bool", "", <<>>)
U == Type("u8", "", <<>>)
Tup(ts) == Type("tuple", "", ts)
Nom(d) == Type("nominal", d, <<>>)
Opt(t) == Type("nominal", "Option", <<t>>)
Pat(k, n, to, pay, kids) == [k |-> k, n |-> n, to |-> to, pay |-> pay, kids |-> kids]
Blank == Pat("wild", "", <<"none">>, "", <<>>)
Lit(k, x) == Pat("lit", "", <<k, x>>, "", <<>>)
Yes == Lit("bool", TRUE)
No == Lit("bool", FALSE)
TupP(ps) == Pat("tuple", "", <<"none">>, "", ps)
Dot(n, pay, ps) == Pat("path", n, <<"member">>, pay, ps)
OptP(n, pay, ps) == Pat("path", n, <<"option">>, pay, ps)
Str(d, fs) == Pat("path", d, <<"struct", d>>, "{}", fs)
Bare(d) == Pat("path", d, <<"struct", d>>, "", <<>>)
F(n, ps) == Pat("fpat", n, <<"none">>, "", ps)
ConstP(n) == Pat("path", n, <<"const", n>>, "", <<>>)
Fun == Pat("path", "f", <<"entity">>, "", <<>>)
Some(p) == OptP("some", "()", <<p>>)
Pool ==
    {<<B, {Blank, Let("x"), Yes, No, ConstP("T"), Fun, Lit("int", 1)}>>,
     <<U, {Blank, Lit("int", 0), Lit("int", 1), ConstP("ONE"), Lit("int", 256), Lit("float", 0)}>>,
     <<Type("str", "", <<>>), {Blank, Lit("str", "a"), Lit("str", "other0"), Lit("str", "other1")}>>,
     <<Tup(<<B, B>>), {Blank, TupP(<<Yes, Blank>>), TupP(<<Blank, Yes>>), TupP(<<No, Let("x")>>), TupP(<<No, No>>), TupP(<<Yes>>)}>>,
     <<Opt(Opt(B)), {Blank, Some(Some(Blank)), Some(OptP("none", "", <<>>)), OptP("none", "", <<>>), Some(Dot("some", "()", <<Yes>>)), Some(Let("x")), OptP("some", "", <<>>), TupP(<<>>)}>>,
     <<Nom("E"), {Blank, Dot("unit", "", <<>>), Pat("path", "tup", <<"variant", "E", 2>>, "()", <<Yes, Lit("int", 0)>>), Dot("tup", "()", <<Let("x"), Let("y")>>), Dot("tup", "()", <<No, Blank>>),
                  Dot("rec", "{}", <<F("x", <<Yes>>)>>), Dot("rec", "{}", <<F("y", <<Some(Let("z"))>>), F("x", <<>>)>>), Dot("rec", "", <<>>),
                  Dot("rec", "{}", <<F("x", <<No>>), F("x", <<>>)>>), Dot("zip", "", <<>>)}>>,
     <<Nom("P"), {Blank, Str("P", <<F("a", <<Yes>>)>>), Str("P", <<F("b", <<Some(Blank)>>), F("a", <<>>)>>), Bare("P"), Str("P", <<F("b", <<OptP("none", "", <<>>)>>)>>), Bare("Q")}>>,
     <<Nom("Q"), {Blank, Str("Q", <<F("c", <<>>)>>), Str("Q", <<F("d", <<Yes>>)>>), Str("Q", <<F("e", <<>>)>>)}>>,
     <<Nom("L"), {Blank, Dot("nil", "", <<>>), Dot("cons", "()", <<Dot("nil", "", <<>>)>>), Dot("cons", "()", <<Dot("cons", "()", <<Blank>>)>>), Dot("cons", "()", <<Let("x")>>)}>>,
     <<Tup(<<Nom("V"), B>>), {TupP(<<Blank, Yes>>), TupP(<<Blank, No>>), TupP(<<Let("x"), Blank>>)}>>,
     <<Opt(Nom("H")), {Blank, Let("x"), Some(Let("h")), Some(Blank), OptP("none", "", <<>>), Some(Str("H", <<F("fd", <<Yes>>)>>)), Some(Str("H", <<>>))}>>,
     <<Nom("R"), {Dot("shut", "", <<>>), Dot("open", "{}", <<F("h", <<>>)>>), Dot("open", "{}", <<F("h", <<Blank>>), F("k", <<>>)>>), Dot("open", "{}", <<F("k", <<Yes>>)>>),
                  Dot("open", "{}", <<F("k", <<No>>), F("h", <<Let("x")>>)>>)}>>,
     <<Nom("S"), {Let("x"), Str("S", <<F("h", <<>>), F("k", <<No>>)>>), Str("S", <<F("k", <<Yes>>)>>), Str("S", <<F("k", <<>>), F("h", <<Str("H", <<F("fd", <<Yes>>)>>)>>)>>)}>>}
\* Matches whose arms name what has a linear part by a bare name, by itself,
\* below another pattern and as a variant.  They are kept out of MatchSamples:
\* the checker accepts them.
BareSamples ==
    {<<Nom("S"), <<Bare("S")>>>>, <<Opt(Nom("S")), <<Some(Bare("S")), OptP("none", "", <<>>)>>>>,
     <<Nom("R"), <<Dot("open", "", <<>>), Dot("shut", "", <<>>)>>>>}
MatchSamples == UNION {{<<p[1], s>> : s \in SeqOf(p[2], 3) \ {<<>>}} : p \in Pool}

=============================================================================
