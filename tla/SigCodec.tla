------------------------------ MODULE SigCodec ------------------------------
(***************************************************************************)
(* The canonical bytes of a signature (fors-fir encode.rs): what its       *)
(* fingerprint hashes and what is read back from a compiled module.  The   *)
(* encoder writes each type once, children first, and refers to it by its  *)
(* place; the decoder reads back what the bytes say or why it cannot.      *)
(*                                                                         *)
(* A signature is a record of optional parts (sequences of at most one).   *)
(* Bytes are numbers.  An integer constant and the hash of the contracts   *)
(* have WIDE bytes here, where the code writes sixteen.                    *)
(***************************************************************************)
EXTENDS FirTypes, ByteReader

CONSTANTS MAX_LIST, MAX_FN_PARAMS, MAX_KEY_DEPTH, WIDE

NoRef == 2147483647         \* u32::MAX, the absent reference
Magic == <<70, 73, 82, 49>>
Tags == <<"error", "unit", "never", "prim", "nominal", "tuple", "fn", "dyn", "param", "proj", "brand", "constval">>
Kinds == <<"fn", "extern", "struct", "enum", "trait", "impl", "const", "poisoned", "absent">>
TagByte(t) == CHOOSE i \in DOMAIN Tags : Tags[i] = t.tag
QualBits(q) == (IF "iso" \in q THEN 1 ELSE 0) + (IF "imm" \in q THEN 2 ELSE 0) + (IF "secret" \in q THEN 4 ELSE 0)
PolicyByte(p) == (IF p.values THEN 1 ELSE 0) + (IF p.nameless THEN 2 ELSE 0) + (IF p.sorted THEN 4 ELSE 0)
OfPolicyByte(v) == [values |-> v % 2 = 1, nameless |-> (v \div 2) % 2 = 1, sorted |-> (v \div 4) % 2 = 1]

-----------------------------------------------------------------------------
(* Writing.                                                                *)

RECURSIVE Uleb(_), KeyBytes(_), EmitTy(_, _)
Uleb(v) ==
    IF v = NoRef THEN <<255, 255, 255, 255, 15>>
    ELSE IF v < 128 THEN <<v>> ELSE <<128 + (v % 128)>> \o Uleb(v \div 128)
NameBytes(n) == Uleb(Len(n)) \o n
OptName(ns) == IF ns = <<>> THEN <<0>> ELSE <<1>> \o NameBytes(ns[1])
KeyBytes(k) ==
    (IF k.up = <<>> THEN <<0>> ELSE <<1>> \o KeyBytes(k.up[1]))
    \o Uleb(Len(k.mod)) \o FlattenSeq([i \in DOMAIN k.mod |-> NameBytes(k.mod[i])])
    \o <<k.kind>> \o OptName(k.name) \o Uleb(k.dis)
WriteDeclKey(ks) == IF ks = <<>> THEN <<2>> ELSE KeyBytes(ks[1])
\* An integer is <<1>> and its bytes, a Boolean <<2, b>>, a string <<3>> and its.
ConstBytes(v) == IF v[1] = 3 THEN <<3>> \o NameBytes(Tail(v)) ELSE v

Enc(me) == [me |-> me, tys |-> <<>>, pos |-> <<>>, next |-> 0, body |-> <<>>]
Put(s, bs) == [s EXCEPT !.body = @ \o bs]
Refs(s, ts) == FlattenSeq([i \in DOMAIN ts |-> Uleb(s.pos[ts[i]])])
RefList(s, ts) == Uleb(Len(ts)) \o Refs(s, ts)
OwnerBytes(me, owner) ==
    IF owner # <<>> /\ owner = me THEN <<0, 0>>
    ELSE IF owner # <<>> /\ me # <<>> /\ owner = me[1].up THEN <<0, 1>>
    ELSE <<1>> \o WriteDeclKey(owner)
FnBytes(s, t) ==
    LET n == Len(t.data) - 1
        raises == Len(t.kids) > n + 1
    IN <<t.data[1] + (IF raises THEN 2 ELSE 0)>> \o Uleb(n)
       \o FlattenSeq([i \in 1..n |-> <<t.data[i + 1]>> \o Uleb(s.pos[t.kids[i]])])
       \o Refs(s, SubSeq(t.kids, n + 1, Len(t.kids)))
EntryTail(s, t) ==
    CASE t.tag = "prim" -> t.data
      [] t.tag \in {"nominal", "dyn"} -> WriteDeclKey(t.key) \o RefList(s, t.kids)
      [] t.tag = "tuple" -> RefList(s, t.kids)
      [] t.tag = "fn" -> FnBytes(s, t)
      [] t.tag \in {"param", "brand"} -> OwnerBytes(s.me, t.key) \o Uleb(Last(t.data))
      [] t.tag = "proj" -> Uleb(s.pos[HeadOf(t)]) \o WriteDeclKey(t.key) \o RefList(s, TraitArgs(t)) \o NameBytes(t.data)
      [] t.tag = "constval" -> ConstBytes(t.data) \o Uleb(s.pos[t.kids[1]])
      [] t.tag \in {"error", "unit", "never"} -> <<>>
Entry(s, t) ==
    IF t.tag = "brand" /\ t.data[1] = 1 THEN <<1, 0>> ELSE <<TagByte(t), QualBits(t.q)>> \o EntryTail(s, t)
Placed(s, t) == [s EXCEPT !.tys = @ \o Entry(s, t), !.pos = (t :> s.next) @@ @, !.next = @ + 1]
EmitAll(s, ts) == FoldLeft(LAMBDA a, t : EmitTy(a, t), s, ts)
EmitTy(s, t) ==
    IF t \in DOMAIN s.pos THEN s
    ELSE Placed(EmitAll(s, IF t.tag = "proj" THEN <<HeadOf(t)>> \o TraitArgs(t) ELSE t.kids), t)

PutPlace(s, t) == Put(s, Uleb(s.pos[t]))
PutTy(s, t) == PutPlace(EmitTy(s, t), t)
PutOptTy(s, ts) == IF ts = <<>> THEN Put(s, Uleb(NoRef)) ELSE PutTy(s, ts[1])
PutRefs(s, ts) == Put(s, RefList(s, ts))
PutList(s, xs, Each(_, _)) == FoldLeft(Each, Put(s, Uleb(Len(xs))), xs)
PutTraitRef(s, tr) == PutRefs(EmitAll(Put(s, WriteDeclKey(tr.key)), tr.args), tr.args)

\* The order of bound lists: a sub-encoder of its own for each member.
Standalone(s) == Uleb(s.next) \o s.tys \o s.body
CanonTy(me, t) == Standalone(EmitTy(Enc(me), t))
CanonTraitRef(me, tr) == Standalone(PutTraitRef(Enc(me), tr))
RECURSIVE Before(_, _)
Before(a, b) ==
    IF b = <<>> THEN FALSE ELSE IF a = <<>> THEN TRUE
    ELSE a[1] < b[1] \/ (a[1] = b[1] /\ Before(Tail(a), Tail(b)))
Sorted(xs, Key(_)) == SortSeq(xs, LAMBDA x, y : Before(Key(x), Key(y)))
Unsorted(p, me, bounds) == bounds
Ordered(p, me, bounds) == IF p.sorted THEN Sorted(bounds, LAMBDA tr : CanonTraitRef(me, tr)) ELSE bounds
PutBounds(s, p, bounds) == PutList(s, Ordered(p, s.me, bounds), PutTraitRef)

PutGeneric(s, p, g) ==
    LET head == IF g.ty = <<>> THEN Put(s, <<g.kind>>) ELSE PutTy(Put(s, <<g.kind>>), g.ty[1])
    IN PutBounds(IF p.nameless THEN head ELSE Put(head, NameBytes(g.name)), p, g.bounds)
PutGenerics(s, p, gs) == PutList(s, gs, LAMBDA a, g : PutGeneric(a, p, g))
ConstraintKey(me, c) == CanonTy(me, c.subject) \o FlattenSeq([i \in DOMAIN c.bounds |-> CanonTraitRef(me, c.bounds[i])])
PutConstraints(s, p, cs) ==
    PutList(s, IF p.sorted THEN Sorted(cs, LAMBDA c : ConstraintKey(s.me, c)) ELSE cs,
            LAMBDA a, c : PutBounds(PutTy(a, c.subject), p, c.bounds))
PutParam(s, x) == PutTy(Put(s, NameBytes(x.name) \o <<x.conv>>), x.ty)
PutRaises(s, ts) == IF ts = <<>> THEN Put(s, <<0>>) ELSE PutTy(Put(s, <<1>>), ts[1])
PutFn(s, f) ==
    IF f = <<>> THEN Put(s, <<0, 0, 0, 255, 255>> \o [i \in 1..WIDE |-> 0])
    ELSE Put(PutRaises(PutTy(PutList(s, f[1].params, PutParam), f[1].result), f[1].raises),
             <<f[1].scoped, f[1].receiver>> \o f[1].hash)
PutField(s, m) == PutTy(Put(s, NameBytes(m.name) \o <<m.vis>>), m.tys[1])
PutFields(s, ms) == PutList(s, ms, PutField)
PutVariant(s, m) ==
    LET head == Put(s, NameBytes(m.name) \o <<m.payload>>)
    IN CASE m.payload = 0 -> head
         [] m.payload = 1 -> PutRefs(EmitAll(head, m.tys), m.tys)
         [] m.payload = 2 -> PutFields(head, m.sub)
PutVariants(s, ms) == PutList(s, ms, PutVariant)
PutItems(s, ms) == PutList(s, SelectSeq(ms, LAMBDA m : m.item # <<>>), LAMBDA a, m : Put(a, WriteDeclKey(m.item)))
PutAssoc(s, p, as, rhs) ==
    PutList(s, Sorted(as, LAMBDA a : a.name),
            LAMBDA a, x : IF rhs THEN PutTy(Put(a, NameBytes(x.name)), x.rhs[1])
                          ELSE PutBounds(Put(a, NameBytes(x.name)), p, x.bounds))
PutOptTraitRef(s, trs) == IF trs = <<>> THEN Put(s, <<0>>) ELSE PutTraitRef(Put(s, <<1>>), trs[1])
PutConst(s, p, cv) == Put(s, IF p.values /\ cv # <<>> THEN <<1>> \o ConstBytes(cv[1]) ELSE <<0>>)

KindByte(k) == (CHOOSE i \in DOMAIN Kinds : Kinds[i] = k) - 1
PutHead(s, p, g) ==
    PutConstraints(PutGenerics(Put(s, <<KindByte(g.kind), g.flags>>), p, g.generics), p, g.constraints)
PutSig(s, p, g) ==
    CASE g.kind \in {"fn", "extern"} -> PutFn(s, g.fn)
      [] g.kind = "struct" -> PutFields(s, g.members)
      [] g.kind = "enum" -> PutVariants(s, g.members)
      [] g.kind = "trait" -> PutItems(PutAssoc(s, p, g.assoc, FALSE), g.members)
      [] g.kind = "impl" -> PutItems(PutAssoc(PutOptTraitRef(PutOptTy(s, g.self), g.tref), p, g.assoc, TRUE), g.members)
      [] g.kind = "const" -> PutConst(PutOptTy(s, g.cty), p, g.cval)
      [] g.kind \in {"poisoned", "absent"} -> s
Framed(p, s) == Magic \o <<PolicyByte(p)>> \o Uleb(s.next) \o s.tys \o s.body
EncodeSig(g, p) == Framed(p, PutSig(PutHead(Enc(g.key), p, g), p, g))

-----------------------------------------------------------------------------
(* Reading.  The table of the reader holds the types read so far.          *)

\* A number the model has no room for is larger than every bound.
UlebValue(bs) ==
    IF Len(bs) > 4 THEN IF bs = Uleb(NoRef) THEN NoRef ELSE NoRef - 1
    ELSE FoldLeft(LAMBDA v, k : v * 128 + (bs[Len(bs) + 1 - k] % 128), 0, [k \in DOMAIN bs |-> k])
ReadUleb(d) ==
    LET ends == {k \in d.i..Len(d.b) : d.b[k] < 128}
        bytes == SubSeq(d.b, d.i, CHOOSE k \in ends : \A j \in ends : k <= j)
    IN IF d.err # "" THEN d
       ELSE IF ends = {} THEN Fail(d, IF Len(d.b) - d.i >= 9 THEN "BadUtf8Length" ELSE "Truncated")
       ELSE IF Len(bytes) > 10 THEN Fail(d, "BadUtf8Length")
       ELSE Take(d, Len(bytes), UlebValue(bytes))
ReadFixed(d, n) ==
    IF d.err # "" THEN d ELSE IF d.i + n - 1 > Len(d.b) THEN Fail(d, "Truncated")
    ELSE Take(d, n, SubSeq(d.b, d.i, d.i + n - 1))
BytesOf(d) ==
    IF d.err # "" THEN d ELSE IF Top(d) > Len(d.b) - d.i + 1 THEN Fail(d, "Truncated")
    ELSE Make(ReadFixed(d, Top(d)), 2, LAMBDA v : v[2])
ReadBytes(d) == BytesOf(ReadUleb(d))
CountOf(d, max) == IF d.err # "" THEN d ELSE Check(d, Top(d) <= max /\ Top(d) <= Len(d.b) - d.i + 1, "BadCount")
ReadCount(d, max) == CountOf(ReadUleb(d), max)
OrdinalOf(d) == IF d.err # "" THEN d ELSE Check(d, Top(d) <= 65535, "BadCount")
ReadOrdinal(d) == OrdinalOf(ReadUleb(d))

ReadList(d, max, Read(_)) == Members(ReadCount(d, max), Read)
\* A byte 0 or 1 says whether the part is there.
Optional(d, Read(_)) ==
    IF d.err # "" THEN d
    ELSE IF Top(d) \notin {0, 1} THEN Fail(d, "BadTag")
    ELSE Repeated(d, Top(d), Read)

ReadName(d) == ReadBytes(d)
RECURSIVE ReadDeclKeyAt(_, _)
KeyParent(d, depth) ==
    IF d.err # "" THEN d
    ELSE CASE Top(d) = 0 -> Make(d, 1, LAMBDA v : <<>>)
           [] Top(d) = 1 -> Make(ReadDeclKeyAt(d, depth + 1), 2, LAMBDA v : v[2])
           [] Top(d) = 2 -> Fail(d, "BadShape")
           [] OTHER -> Fail(d, "BadTag")
KeyKind(d) == IF d.err # "" THEN d ELSE Check(d, Top(d) <= 11, "BadTag")
ReadDeclKeyAt(d, depth) ==
    IF depth > MAX_KEY_DEPTH THEN Check(d, FALSE, "TooDeep")
    ELSE Make(ReadUleb(Optional(ReadByte(KeyKind(ReadByte(ReadList(KeyParent(ReadByte(d), depth), MAX_LIST, ReadName)))), ReadName)),
              5, LAMBDA v : <<[up |-> v[1], mod |-> v[2], kind |-> v[3], name |-> v[4], dis |-> v[5]]>>)
ReadDeclKey(d) == ReadDeclKeyAt(d, 0)
ConstOf(d) ==
    IF d.err # "" THEN d
    ELSE CASE Top(d) = 1 -> Make(ReadFixed(d, WIDE), 2, LAMBDA v : <<1>> \o v[2])
           [] Top(d) = 2 -> Make(ReadByte(d), 2, LAMBDA v : <<2, IF v[2] = 0 THEN 0 ELSE 1>>)
           [] Top(d) = 3 -> Make(ReadBytes(d), 2, LAMBDA v : <<3>> \o v[2])
           [] OTHER -> Fail(d, "BadTag")
ReadConst(d) == ConstOf(ReadByte(d))

TyAt(d) ==
    IF d.err # "" THEN d ELSE IF Top(d) >= Len(d.table) THEN Fail(d, "BadRef") ELSE Make(d, 1, LAMBDA v : d.table[v[1] + 1])
ReadTyRef(d) == TyAt(ReadUleb(d))
ReadRefs(d) == ReadList(d, MAX_LIST, ReadTyRef)
OptTyAt(d) ==
    IF d.err # "" THEN d ELSE IF Top(d) = NoRef THEN Make(d, 1, LAMBDA v : <<>>) ELSE Make(TyAt(d), 1, LAMBDA v : v)
OwnerOf(d, me) ==
    IF d.err # "" THEN d
    ELSE CASE Top(d) = 0 -> Make(ReadUleb(d), 2, LAMBDA v : IF v[2] = 0 \/ me[1].up = <<>> THEN me ELSE me[1].up)
           [] Top(d) = 1 -> Make(ReadDeclKey(d), 2, LAMBDA v : v[2])
           [] OTHER -> Fail(d, "BadTag")
ReadOwner(d, me) == OwnerOf(ReadByte(d), me)

ConvOf(d, max) == IF d.err # "" THEN d ELSE Check(d, Top(d) <= max, "BadTag")
ReadConv(d) == ConvOf(ReadByte(d), 3)
ReadFnParam(d) == Make(ReadTyRef(ReadConv(d)), 2, LAMBDA v : v)
FnParts(v) == FnTy(v[1] % 2, [i \in DOMAIN v[2] |-> v[2][i][1]], [i \in DOMAIN v[2] |-> v[2][i][2]] \o <<v[3]>> \o v[4])
FnRaises(d, flags) ==
    IF d.err # "" THEN d ELSE IF flags < 2 THEN Push(d, <<>>) ELSE Make(ReadTyRef(d), 1, LAMBDA v : v)
FnOf(d) ==
    IF d.err # "" THEN d ELSE IF Top(d) > 3 THEN Fail(d, "BadShape")
    ELSE Make(FnRaises(ReadTyRef(ReadList(d, MAX_FN_PARAMS, ReadFnParam)), Top(d)), 4, LAMBDA v : FnParts(v))
HeadIsRigid(d) == IF d.err # "" THEN d ELSE Check(d, Rigid(Top(d)), "BadShape")
TupleShape(d) == IF d.err # "" THEN d ELSE Check(d, Top(d) # <<>>, "BadShape")
PrimShape(d) == IF d.err # "" THEN d ELSE Check(d, Top(d) <= 14, "BadTag")
EntryOf(d, me, tag) ==
    CASE tag = "prim" -> Make(PrimShape(ReadByte(d)), 1, LAMBDA v : Prim(v[1]))
      [] tag = "nominal" -> Make(ReadRefs(ReadDeclKey(d)), 2, LAMBDA v : Nominal(v[1], v[2]))
      [] tag = "dyn" -> Make(ReadRefs(ReadDeclKey(d)), 2, LAMBDA v : Dyn(v[1], v[2]))
      [] tag = "tuple" -> Make(TupleShape(ReadRefs(d)), 1, LAMBDA v : Tuple(v[1]))
      [] tag = "fn" -> FnOf(ReadByte(d))
      [] tag = "param" -> Make(ReadOrdinal(ReadOwner(d, me)), 2, LAMBDA v : Param(v[1], v[2]))
      [] tag = "brand" -> Make(ReadOrdinal(ReadOwner(d, me)), 2, LAMBDA v : Brand(v[1], v[2]))
      [] tag = "proj" -> Make(ReadBytes(ReadRefs(ReadDeclKey(HeadIsRigid(ReadTyRef(d))))), 4,
                              LAMBDA v : Proj(v[1], v[2], v[3], v[4]))
      [] tag = "constval" -> Make(ReadTyRef(ReadConst(d)), 2, LAMBDA v : ConstVal(v[1], v[2]))
      [] tag \in {"error", "unit", "never"} -> Push(d, Ty(tag, <<>>, <<>>, <<>>))
QualsOf(b) == {q \in {"iso", "imm", "secret"} : (b \div QualBits({q})) % 2 = 1}
\* The tag, the qualifiers, then the type itself; it joins the table.
Tabled(d) == IF d.err # "" THEN d ELSE [d EXCEPT !.table = Append(@, Top(d)), !.st = Front(@)]
TyEntry(d, me) ==
    IF d.err # "" THEN d
    ELSE IF Top(d) > 7 \/ ~Consistent(QualsOf(Top(d))) THEN Fail(d, "BadShape")
    ELSE IF d.st[Len(d.st) - 1] \notin DOMAIN Tags THEN Fail(d, "BadTag")
    ELSE Tabled(Make(EntryOf(d, me, Tags[d.st[Len(d.st) - 1]]), 3, LAMBDA v : Qualified(v[3], QualsOf(v[2]))))
ReadTyEntry(d, me) == TyEntry(ReadByte(ReadByte(d)), me)

EntriesOf(d, me) ==
    IF d.err # "" THEN d ELSE FoldLeft(LAMBDA a, k : ReadTyEntry(a, me), d, [k \in 1..Top(d) |-> k])
ReadTypes(d, me) == EntriesOf(ReadCount(d, MAX_LIST), me)

ReadTraitRef(d) == Make(ReadRefs(ReadDeclKey(d)), 2, LAMBDA v : [key |-> v[1], args |-> v[2]])
ReadBounds(d) == ReadList(d, MAX_LIST, ReadTraitRef)
GenericKind(d) ==
    IF d.err # "" THEN d
    ELSE CASE Top(d) \in {1, 3} -> Make(ReadTyRef(d), 1, LAMBDA v : v)
           [] Top(d) \in {0, 2} -> Push(d, <<>>)
           [] OTHER -> Fail(d, "BadTag")
GenericName(d, p) == IF d.err # "" THEN d ELSE IF p.nameless THEN Push(d, <<95>>) ELSE ReadBytes(d)
ReadGeneric(d, p) ==
    Make(ReadBounds(GenericName(GenericKind(ReadByte(d)), p)), 4,
         LAMBDA v : [kind |-> v[1], ty |-> v[2], name |-> v[3], bounds |-> v[4]])
ReadConstraint(d) == Make(ReadBounds(ReadTyRef(d)), 2, LAMBDA v : [subject |-> v[1], bounds |-> v[2]])
ReadParam(d) == Make(ReadTyRef(ReadConv(ReadName(d))), 3, LAMBDA v : [name |-> v[1], conv |-> v[2], ty |-> v[3]])
Member(name, vis, payload, tys, sub, item) ==
    [name |-> name, vis |-> vis, payload |-> payload, tys |-> tys, sub |-> sub, item |-> item]
ReadField(d) == Make(ReadTyRef(ReadByte(ReadName(d))), 3, LAMBDA v : Member(v[1], v[2], 0, <<v[3]>>, <<>>, <<>>))
ReadFields(d) == ReadList(d, MAX_LIST, ReadField)
VariantOf(d) ==
    IF d.err # "" THEN d
    ELSE CASE Top(d) = 0 -> Make(d, 2, LAMBDA v : Member(v[1], 0, 0, <<>>, <<>>, <<>>))
           [] Top(d) = 1 -> Make(ReadRefs(d), 3, LAMBDA v : Member(v[1], 0, 1, v[3], <<>>, <<>>))
           [] Top(d) = 2 -> Make(ReadFields(d), 3, LAMBDA v : Member(v[1], 0, 2, <<>>, v[3], <<>>))
           [] OTHER -> Fail(d, "BadTag")
ReadVariant(d) == VariantOf(ReadByte(ReadName(d)))
ReadItem(d) ==
    Make(ReadDeclKey(d), 1, LAMBDA v : Member(IF v[1][1].name = <<>> THEN <<>> ELSE v[1][1].name[1], 0, 0, <<>>, <<>>, v[1]))
ReadItems(d) == ReadList(d, MAX_LIST, ReadItem)
ReadBoundAssoc(d) == Make(ReadBounds(ReadName(d)), 2, LAMBDA v : [name |-> v[1], bounds |-> v[2], rhs |-> <<>>])
ReadRhsAssoc(d) == Make(ReadTyRef(ReadName(d)), 2, LAMBDA v : [name |-> v[1], bounds |-> <<>>, rhs |-> <<v[2]>>])
ReadFn(d) ==
    Make(ReadFixed(ReadByte(ReadByte(Optional(ReadByte(ReadTyRef(ReadList(d, MAX_FN_PARAMS, ReadParam))), ReadTyRef))), WIDE), 6,
         LAMBDA v : <<[params |-> v[1], result |-> v[2], raises |-> v[3], scoped |-> v[4], receiver |-> v[5], hash |-> v[6]]>>)
ReadOptTy(d) == OptTyAt(ReadUleb(d))
ReadOptTraitRef(d) == Optional(ReadByte(d), ReadTraitRef)

Sig(key, kind) ==
    [key |-> key, kind |-> kind, flags |-> 0, generics |-> <<>>, constraints |-> <<>>, fn |-> <<>>, members |-> <<>>,
     self |-> <<>>, tref |-> <<>>, assoc |-> <<>>, cty |-> <<>>, cval |-> <<>>]
Store(d, n, F(_, _)) == Make(d, n + 1, LAMBDA v : F(v[1], Tail(v)))
KindOf(d, kind) ==
    CASE kind \in {"fn", "extern"} -> Store(ReadFn(d), 1, LAMBDA g, v : [g EXCEPT !.fn = v[1]])
      [] kind = "struct" -> Store(ReadFields(d), 1, LAMBDA g, v : [g EXCEPT !.members = v[1]])
      [] kind = "enum" -> Store(ReadList(d, MAX_LIST, ReadVariant), 1, LAMBDA g, v : [g EXCEPT !.members = v[1]])
      [] kind = "trait" -> Store(ReadItems(ReadList(d, MAX_LIST, ReadBoundAssoc)), 2,
                                 LAMBDA g, v : [g EXCEPT !.assoc = v[1], !.members = v[2]])
      [] kind = "impl" -> Store(ReadItems(ReadList(ReadOptTraitRef(ReadOptTy(d)), MAX_LIST, ReadRhsAssoc)), 4,
                                LAMBDA g, v : [g EXCEPT !.self = v[1], !.tref = v[2], !.assoc = v[3], !.members = v[4]])
      [] kind = "const" -> Store(Optional(ReadByte(ReadOptTy(d)), ReadConst), 2,
                                 LAMBDA g, v : [g EXCEPT !.cty = v[1], !.cval = v[2]])
      [] kind \in {"poisoned", "absent"} -> d
SigKind(d) == IF d.err # "" THEN d ELSE Check(d, Top(d) + 1 \in DOMAIN Kinds, "BadTag")
\* Of the flags the decoder keeps the two it knows.
HeadParts(me, v) ==
    [Sig(me, Kinds[v[1] + 1]) EXCEPT !.flags = v[2] % 4, !.generics = v[3], !.constraints = v[4]]
ReadHead(d, p, me) ==
    Make(ReadList(ReadList(ReadByte(SigKind(ReadByte(d))), MAX_LIST, LAMBDA a : ReadGeneric(a, p)), MAX_LIST, ReadConstraint),
         4, LAMBDA v : HeadParts(me, v))
Bodied(d) == IF d.err # "" THEN d ELSE KindOf(d, Top(d).kind)
AfterTypes(d, p, me) == Bodied(ReadHead(Drop(d), p, me))
Body(d, p, me) == AfterTypes(ReadTypes(d, me), p, me)
DecodeFrom(d, me) == IF d.err # "" THEN d ELSE Body(Drop(d), OfPolicyByte(Top(d)), me)
ReadMagic(d) ==
    IF \E k \in DOMAIN Magic : k <= Len(d.b) /\ d.b[k] # Magic[k] THEN Fail(d, "BadMagic") ELSE Drop(ReadFixed(d, 4))
DecodeSig(b, me) == DecodeFrom(ReadByte(ReadMagic(Dec(b))), me)

-----------------------------------------------------------------------------
(* Small signatures, what one is up to what its fingerprint ignores, and   *)
(* ways to write the same one differently.                                 *)

K(kind, n) == <<[up |-> <<>>, mod |-> <<<<109>>, <<111, 111>>>>, kind |-> kind, name |-> <<<<n>>>>, dis |-> 0]>>
Nested(up, kind, dis) == <<[up |-> up, mod |-> <<>>, kind |-> kind, name |-> <<>>, dis |-> dis]>>
RECURSIVE Tower(_)
Tower(n) == IF n = 0 THEN K(5, 97) ELSE Nested(Tower(n - 1), 0, n)
Me == K(0, 102)
Method == Nested(K(5, 105), 0, 200)
Tr(n, args) == [key |-> K(4, n), args |-> args]
S == Nominal(K(2, 83), <<>>)
P0 == Param(Me, 0)
Pr(n) == Prim(n)
WideBytes(n) == [i \in 1..WIDE |-> n]

Shapes(me) ==
    {Pr(2), TyUnit, TyError, Qualified(S, {"iso"}), Qualified(P0, {"imm", "secret"}), Nominal(K(2, 86), <<S, S>>),
     Tuple(<<Pr(3), P0>>), Dyn(K(4, 68), <<P0>>), Param(me, 1), Param(me[1].up, 300), Brand(me, 0), Param(K(2, 120), 7),
     Proj(P0, K(4, 73), <<Pr(5)>>, <<73, 116>>), Proj(Proj(P0, K(4, 73), <<>>, <<73>>), K(4, 74), <<S>>, <<>>),
     FnTy(0, <<>>, <<TyUnit>>), FnTy(1, <<3, 0>>, <<P0, Pr(2), S>>), FnTy(0, <<2>>, <<S, TyUnit, Pr(5)>>),
     ConstVal(<<1>> \o WideBytes(7), Pr(2)), ConstVal(<<2, 1>>, Pr(12)), ConstVal(<<3, 104, 105>>, Pr(13)),
     FreshBrand(me, 1), Nominal(Tower(8), <<>>), Tuple(<<Tuple(<<P0, S>>), Tuple(<<P0, S>>)>>)}
FnSig(params, result, raises) ==
    <<[params |-> params, result |-> result, raises |-> raises, scoped |-> 255, receiver |-> 0, hash |-> WideBytes(9)]>>
Gen(kind, ty, name, bounds) == [kind |-> kind, ty |-> ty, name |-> name, bounds |-> bounds]
Con(t, bounds) == [subject |-> t, bounds |-> bounds]
Bounds == {<<>>, <<Tr(2, <<>>)>>, <<Tr(2, <<>>), Tr(1, <<S>>)>>, <<Tr(1, <<P0>>), Tr(1, <<S>>), Tr(2, <<>>)>>}
Field(n, t) == Member(n, 1, 0, <<t>>, <<>>, <<>>)

Sigs ==
    {[Sig(me, "fn") EXCEPT !.fn = FnSig(<<[name |-> <<120>>, conv |-> 2, ty |-> t]>>, TyUnit, <<t>>)] :
        me \in {Me, Method}, t \in {u \in Shapes(Method) \cup Shapes(Me) : u.tag # "param" \/ u.key # <<>>}}
    \cup {[Sig(Me, "struct") EXCEPT !.flags = 3, !.members = <<Field(<<97>>, S), Field(<<>>, P0)>>,
             !.generics = <<Gen(0, <<>>, <<84>>, b), Gen(k, IF k \in {1, 3} THEN <<S>> ELSE <<>>, <<85>>, <<>>)>>,
             !.constraints = <<Con(Param(Me, 1), b), Con(P0, <<Tr(3, <<>>)>>)>>] : b \in Bounds, k \in 0..3}
    \cup {[Sig(Me, "enum") EXCEPT !.members = <<Member(<<97>>, 0, 0, <<>>, <<>>, <<>>), Member(<<98>>, 0, 1, <<P0, P0>>, <<>>, <<>>),
             Member(<<99>>, 0, 2, <<>>, <<Field(<<120>>, S)>>, <<>>)>>],
          [Sig(Me, "const") EXCEPT !.cty = <<Pr(2)>>, !.cval = <<<<1>> \o WideBytes(1)>>], Sig(Me, "const"), Sig(Me, "poisoned"),
          Sig(Me, "absent"), Sig(Me, "impl")}
    \cup {[Sig(Me, "trait") EXCEPT !.assoc = <<[name |-> <<98>>, bounds |-> b, rhs |-> <<>>], [name |-> <<97, 98>>, bounds |-> <<>>, rhs |-> <<>>]>>,
             !.members = <<Member(<<109>>, 0, 0, <<>>, <<>>, K(0, 109)), Member(<<>>, 0, 0, <<>>, <<>>, Nested(Me, 0, 1))>>] : b \in Bounds}
    \cup {[Sig(Me, "impl") EXCEPT !.self = <<Nominal(K(2, 86), <<P0>>)>>, !.tref = tr, !.members = <<Member(<<109>>, 0, 0, <<>>, <<>>, K(0, 109))>>,
             !.assoc = <<[name |-> <<98>>, bounds |-> <<>>, rhs |-> <<S>>], [name |-> <<97>>, bounds |-> <<>>, rhs |-> <<P0>>]>>] :
          tr \in {<<>>, <<Tr(1, <<P0, S>>)>>}}
Policies == {[values |-> v, nameless |-> n, sorted |-> s] : v, n, s \in BOOLEAN}

-----------------------------------------------------------------------------
RECURSIVE Erased(_)
Erased(t) == IF t.tag = "brand" /\ t.data[1] = 1 THEN TyError ELSE [t EXCEPT !.kids = [i \in DOMAIN @ |-> Erased(@[i])]]
\* What a signature says: bounds, constraints and associated types are sets.
Meaning(g, p) ==
    [g EXCEPT
        !.generics = [i \in DOMAIN @ |-> [@[i] EXCEPT !.name = IF p.nameless THEN <<>> ELSE @, !.bounds = ToSet(@)]],
        !.constraints = {[c EXCEPT !.bounds = ToSet(@)] : c \in ToSet(@)},
        !.assoc = {[a EXCEPT !.bounds = ToSet(@)] : a \in ToSet(@)},
        !.fn = [i \in DOMAIN @ |-> [@[i] EXCEPT !.params = [j \in DOMAIN @ |-> [@[j] EXCEPT !.ty = Erased(@)]],
                                                !.raises = [j \in DOMAIN @ |-> Erased(@[j])]]],
        !.cval = IF p.values THEN @ ELSE <<>>]
\* The same signature, written in another order and with other names.
Rewritten(g) ==
    [g EXCEPT
        !.generics = [i \in DOMAIN @ |-> [@[i] EXCEPT !.name = <<90>>, !.bounds = Reverse(@)]],
        !.constraints = [i \in DOMAIN @ |-> [Reverse(@)[i] EXCEPT !.bounds = Reverse(@)]],
        !.assoc = [i \in DOMAIN @ |-> [Reverse(@)[i] EXCEPT !.bounds = Reverse(@)]]]
FingerprintPolicy == [values |-> TRUE, nameless |-> TRUE, sorted |-> TRUE]

=============================================================================
