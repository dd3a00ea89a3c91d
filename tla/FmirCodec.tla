----------------------------- MODULE FmirCodec -----------------------------
(***************************************************************************)
(* A lowered declaration (FMIR) as words and back (encode.rs), its form up *)
(* to the numbering of blocks, which is what its hash is of, and its text  *)
(* and back (dump.rs, parse.rs).                                           *)
(*                                                                         *)
(* A declaration is a record of pools.  A row that is only numbers is the  *)
(* tuple of them; numbers count from 0 as in the code.  A 64-bit number is *)
(* its two words.  A token of the text is <<kind, n, m, word>>: `%v3`,     *)
(* `bb3`, `r3`, `%v3:let`, `7:bb3`, `split3,1`, `ct=3` carry numbers.      *)
(***************************************************************************)
EXTENDS ByteReader, FiniteSets, TLC

Absent == 2147483647        \* u32::MAX: no operand, no block
HalfMax == 65535
CtUnspecified == 65535
Convs == <<"let", "inout", "sink", "set">>
RegionKinds == <<"spawn", "parallel", "with-arena">>
Modes == <<"trap", "wrap", "sat", "unchecked">>
TrapKinds == <<"bounds", "overflow", "div-zero", "shift", "checked-conversion", "arena-generation", "contract", "empty-reduce">>
Arith == <<"add", "sub", "mul", "div", "rem", "shl", "shr", "neg">>
FloatOps == <<"fadd", "fsub", "fmul", "fdiv", "frem", "fneg">>
Checks == <<"check_pre", "check_post", "check_inv">>
Terminators == <<"br", "cond_br", "switch_discr", "try_br", "ret", "raise", "trap", "unreachable">>
\* The operations in the order of their discriminants.
Ops ==
    <<"const_int", "const_float", "const_bool", "const_unit", "const_str", "const_fn">> \o Arith \o FloatOps
    \o <<"icmp", "fcmp", "and", "or", "xor", "not", "conv_checked", "conv_wrap", "conv_sat", "conv_trunc", "agg_new", "field",
         "variant_new", "discr", "payload", "tuple_new", "move_from", "copy_from", "init", "borrow", "borrow_mut", "borrow_out",
         "index", "slice_range", "alloc", "free", "arena_alloc", "arena_deref", "arena_reset", "call_direct", "call_witness",
         "call_closure", "intrinsic">> \o Checks
    \o <<"reduce_tree", "erase_to_dyn", "declassify", "region_enter", "region_exit", "spawn", "sync">> \o Terminators \o <<"tile.op">>
IsTerminator(op) == op[1] \in ToSet(Terminators)
IsMemoryProducing(op) ==
    op[1] \in {"alloc", "arena_alloc", "arena_deref", "borrow", "borrow_mut", "borrow_out", "index", "slice_range"}
\* How many payloads an operation has: a mode, relaxations, a predicate, a policy.
Payloads(name) ==
    CASE name \in ToSet(Arith) -> 4 [] name \in ToSet(FloatOps) -> 256
      [] name \in {"icmp", "fcmp"} -> 6 [] name \in ToSet(Checks) -> 2 [] OTHER -> 1
NameByte(names, x) == (CHOOSE i \in DOMAIN names : names[i] = x) - 1
Discriminant(op) == NameByte(Ops, op[1])
Payload(op) == op[2]
\* Relaxations are kept to a byte; where there is no payload it is not read.
FromParts(n, pay) ==
    IF n >= Len(Ops) THEN <<>>
    ELSE LET name == Ops[n + 1]
         IN IF name \in ToSet(FloatOps) THEN <<name, pay % 256>>
            ELSE IF Payloads(name) = 1 THEN <<name, 0>>
            ELSE IF pay < Payloads(name) THEN <<name, pay>> ELSE <<>>

At(pool, n) == pool[n + 1]
Slice(pool, range) == SubSeq(pool, range[1] + 1, range[2])

-----------------------------------------------------------------------------
(* Words.                                                                  *)

List(xs, Each(_)) == <<Len(xs)>> \o FlattenSeq([i \in DOMAIN xs |-> Each(xs[i])])
Plain(row) == row
One(x) == <<x>>
InstRow(r) == <<Discriminant(r.op), Payload(r.op), r.a, r.b, r.c, r.ty, r.site>>
SeedWords(s) ==
    CASE s[1] = "none" -> <<0, 0, 0>>
      [] s[1] = "conv" -> <<1, NameByte(Convs, s[2]), 0>>
      [] s[1] = "own" -> <<2, s[2], 0>>
      [] s[1] = "arena" -> <<3, s[2], 0>>
      [] s[1] = "split" -> <<4, s[2], s[3]>>
Callees == <<"direct", "witness", "closure", "intrinsic">>
CalleeWords(c) == <<NameByte(Callees, c[1]), c[2], IF c[1] = "witness" THEN c[3] ELSE 0>>
ConstKinds == <<"int", "float", "bool", "unit", "str">>
ConstWords(c) == <<NameByte(ConstKinds, c[1]), c[2], c[3]>>
Segs == <<"field", "index", "deref">>
SegWords(s) == <<NameByte(Segs, s[1]), s[2]>>
Ways == <<"moved", "deferred", "raised", "returned">>
DischargeWords(x) == <<x[1], NameByte(Ways, x[2]), x[3], x[4]>>
ExitWords(x) == <<x.from, x.to, x.kind>> \o x.scopes \o x.pending \o x.drops \o x.discharges
PlaceWords(p) == <<p.root, p.ty>> \o List(p.segs, SegWords)
BlockWords(b) == <<b.first, b.len>> \o InstRow(b.term) \o <<b.scope>>
ConvWord(c) == <<NameByte(Convs, c)>>
ToWords(d) ==
    <<d.decl, d.sig, d.entry, d.unsafe>>
    \o List(d.vals, LAMBDA v : <<v.ty, v.flags, v.ct, v.def>>)
    \o FlattenSeq([i \in DOMAIN d.vals |-> IF d.vals[i].src = <<>> THEN <<0>> ELSE <<1>> \o d.vals[i].src])
    \o List(d.places, PlaceWords)
    \o List(d.insts, InstRow) \o FlattenSeq([i \in DOMAIN d.insts |-> SeedWords(d.insts[i].seed)])
    \o List(d.operands, One) \o List(d.convs, ConvWord)
    \o List(d.calls, LAMBDA c : CalleeWords(c.callee) \o c.args)
    \o List(d.reduces, LAMBDA r : CalleeWords(r.callee) \o r.row)
    \o List(d.switches, Plain) \o List(d.arms, Plain)
    \o List(d.blocks, BlockWords) \o List(d.scopes, Plain) \o List(d.defers, Plain)
    \o List(d.regions, LAMBDA r : <<NameByte(RegionKinds, r.kind)>> \o r.captures \o <<r.brand>>)
    \o List(d.captures, LAMBDA c : <<c[1], NameByte(Convs, c[2])>>)
    \o List(d.sites, Plain) \o List(d.consts, ConstWords)
    \o List(d.obligations, One) \o List(d.sources, One)
    \o List(d.exits, ExitWords) \o List(d.exscopes, One) \o List(d.pending, One) \o List(d.drops, One)
    \o List(d.discharges, DischargeWords)

Word(d) == ReadByte(d)
AtMost(d, max, e) == IF d.err # "" THEN d ELSE Check(d, Top(d) <= max, e)
Half(d) == AtMost(Word(d), HalfMax, "out of range")
Words(d, n) ==
    IF d.err # "" THEN d ELSE IF d.i + n - 1 > Len(d.b) THEN Fail(d, "unexpected end") ELSE Take(d, n, SubSeq(d.b, d.i, d.i + n - 1))
\* A count no input can meet ends, as the code's loop does, at the end of it.
CountOf(d) == IF d.err # "" THEN d ELSE Check(d, Top(d) <= Len(d.b), "unexpected end")
Rows(d, Read(_)) == Members(CountOf(Word(d)), Read)
Ids(d) == Rows(d, Word)
Table(d, n) == Rows(d, LAMBDA a : Words(a, n))
Named(d, names) ==
    IF d.err # "" THEN d ELSE IF Top(d) >= Len(names) THEN Fail(d, "bad tag") ELSE Make(d, 1, LAMBDA v : At(names, v[1]))
ReadConv(d) == Named(Word(d), Convs)
OpOf(d) ==
    IF d.err # "" THEN d
    ELSE IF FromParts(Top(d)[1], Top(d)[2]) = <<>> THEN Fail(d, "bad Op")
    ELSE Make(d, 1, LAMBDA v : [op |-> FromParts(v[1][1], v[1][2]), a |-> v[1][3], b |-> v[1][4], c |-> v[1][5],
                                ty |-> v[1][6], site |-> v[1][7], seed |-> <<"none">>])
ReadInstRow(d) == OpOf(Words(d, 7))
ConvSeed(d, v) ==
    IF v[2] >= Len(Convs) THEN Fail(d, "bad Conv") ELSE Make(d, 1, LAMBDA w : <<"conv", At(Convs, w[1][2])>>)
SeedOf(d) ==
    IF d.err # "" THEN d
    ELSE CASE Top(d)[1] = 0 -> Make(d, 1, LAMBDA v : <<"none">>)
           [] Top(d)[1] = 1 -> ConvSeed(d, Top(d))
           [] Top(d)[1] = 2 -> Make(d, 1, LAMBDA v : <<"own", v[1][2]>>)
           [] Top(d)[1] = 3 -> Make(d, 1, LAMBDA v : <<"arena", v[1][2]>>)
           [] Top(d)[1] = 4 -> IF Top(d)[3] > 255 THEN Fail(d, "out of range")
                               ELSE Make(d, 1, LAMBDA v : <<"split", v[1][2], v[1][3]>>)
           [] OTHER -> Fail(d, "bad AliasSeed tag")
ReadSeed(d) == SeedOf(Words(d, 3))
CalleeOf(d) ==
    IF d.err # "" THEN d
    ELSE IF Top(d)[1] >= 4 THEN Fail(d, "bad Callee tag")
    ELSE IF Top(d)[1] = 1 /\ Top(d)[3] > HalfMax THEN Fail(d, "method ordinal too large")
    ELSE Make(d, 1, LAMBDA v : <<At(Callees, v[1][1]), v[1][2], IF v[1][1] = 1 THEN v[1][3] ELSE 0>>)
ReadCallee(d) == CalleeOf(Words(d, 3))
SegOf(d) ==
    IF d.err # "" THEN d
    ELSE IF Top(d)[1] >= 3 \/ (Top(d)[1] = 0 /\ Top(d)[2] > HalfMax) THEN Fail(d, "bad Seg")
    ELSE Make(d, 1, LAMBDA v : <<At(Segs, v[1][1]), IF v[1][1] = 2 THEN 0 ELSE v[1][2]>>)
ReadPlace(d) ==
    Make(Rows(Word(Word(d)), LAMBDA a : SegOf(Words(a, 2))), 3, LAMBDA v : [root |-> v[1], ty |-> v[2], segs |-> v[3]])
\* Places are interned as they are read: one that was read before is refused.
Replayed(d) == IF d.err # "" THEN d ELSE Check(d, IsInjective(Top(d)), "not the same ids")
ConstOf(d) ==
    IF d.err # "" THEN d
    ELSE CASE Top(d)[1] \in {0, 1} -> Make(d, 1, LAMBDA v : <<At(ConstKinds, v[1][1]), v[1][2], v[1][3]>>)
           [] Top(d)[1] = 2 -> Make(d, 1, LAMBDA v : <<"bool", IF v[1][2] = 0 /\ v[1][3] = 0 THEN 0 ELSE 1, 0>>)
           [] Top(d)[1] = 3 -> Make(d, 1, LAMBDA v : <<"unit", 0, 0>>)
           [] Top(d)[1] = 4 -> IF Top(d)[3] # 0 THEN Fail(d, "symbol id out of range")
                               ELSE Make(d, 1, LAMBDA v : <<"str", v[1][2], 0>>)
           [] OTHER -> Fail(d, "bad ConstValue tag")
\* Constants are interned too, and there a repeated one is only dropped.
Intern(pool, x) == IF x \in ToSet(pool) THEN pool ELSE Append(pool, x)
Interned(d) == Make(d, 1, LAMBDA v : FoldLeft(Intern, <<>>, v[1]))
DischargeOf(d) ==
    IF d.err # "" THEN d
    ELSE IF Top(d)[2] >= 4 THEN Fail(d, "unknown Discharge tag")
    ELSE Make(d, 1, LAMBDA v : <<v[1][1], At(Ways, v[1][2]), IF v[1][2] = 3 THEN 0 ELSE v[1][3], IF v[1][2] = 1 THEN v[1][4] ELSE 0>>)
ExitOf(d) ==
    IF d.err # "" THEN d
    ELSE IF Top(d)[3] > 1 THEN Fail(d, "unknown ExitKind")
    ELSE Make(d, 1, LAMBDA v : [from |-> v[1][1], to |-> v[1][2], kind |-> v[1][3], scopes |-> SubSeq(v[1], 4, 5),
                                pending |-> SubSeq(v[1], 6, 7), drops |-> SubSeq(v[1], 8, 9), discharges |-> SubSeq(v[1], 10, 11)])
ReadVal(d) ==
    Make(Word(Half(Half(Word(d)))), 4, LAMBDA v : [ty |-> v[1], flags |-> v[2], ct |-> v[3], def |-> v[4], src |-> <<>>])
SourceOf(d) == IF d.err # "" THEN d ELSE IF Top(d) = 0 THEN Make(d, 1, LAMBDA v : <<>>) ELSE Make(Words(d, 2), 2, LAMBDA v : v[2])
\* As many as the pool on top has rows, joined to them one by one.
Joined(d, Read(_), Join(_, _)) ==
    IF d.err # "" THEN d
    ELSE Make(Repeated(Push(d, 0), Len(Top(d)), Read), 2, LAMBDA v : [i \in DOMAIN v[1] |-> Join(v[1][i], v[2][i])])
ReadBlock(d) ==
    Make(Word(ReadInstRow(Word(Word(d)))), 4, LAMBDA v : [first |-> v[1], len |-> v[2], term |-> v[3], scope |-> v[4]])
DeferOf(d) ==
    IF d.err # "" THEN d ELSE IF Top(d)[3] > HalfMax THEN Fail(d, "out of range")
    ELSE Make(d, 1, LAMBDA v : <<IF v[1][1] = 0 THEN 0 ELSE 1, v[1][2], v[1][3]>>)
ReadRegion(d) ==
    Make(Word(Words(Named(Word(d), RegionKinds), 2)), 3, LAMBDA v : [kind |-> v[1], captures |-> v[2], brand |-> v[3]])
ReadCapture(d) == Make(ReadConv(Word(d)), 2, LAMBDA v : v)

ReadHeader(d) == Word(Word(Word(Word(d))))
ReadVals(d) == Joined(Rows(d, ReadVal), LAMBDA a : SourceOf(Word(a)), LAMBDA v, s : [v EXCEPT !.src = s])
ReadPlaces(d) == Replayed(Rows(d, ReadPlace))
ReadInsts(d) == Joined(Rows(d, ReadInstRow), ReadSeed, LAMBDA r, s : [r EXCEPT !.seed = s])
ReadCalls(d) == Rows(Rows(Rows(Ids(d), ReadConv), LAMBDA a : Make(Words(ReadCallee(a), 2), 2, LAMBDA v : [callee |-> v[1], args |-> v[2]])),
                     LAMBDA a : Make(Words(ReadCallee(a), 4), 2, LAMBDA v : [callee |-> v[1], row |-> v[2]]))
ReadSwitches(d) == Table(Table(d, 4), 3)
ReadFrame(d) == Rows(Rows(Rows(Table(Rows(d, ReadBlock), 7), LAMBDA a : DeferOf(Words(a, 3))), ReadRegion), ReadCapture)
ReadTail(d) == Ids(Ids(Interned(Rows(Table(d, 2), LAMBDA a : ConstOf(Words(a, 3))))))
ReadExits(d) == Rows(Ids(Ids(Ids(Rows(d, LAMBDA a : ExitOf(Words(a, 11)))))), LAMBDA a : DischargeOf(Words(a, 4)))
AllRead(d) == Check(d, d.i > Len(d.b), "trailing bytes")
DeclOf(v) ==
    [decl |-> v[1], sig |-> v[2], entry |-> v[3], unsafe |-> IF v[4] = 0 THEN 0 ELSE 1, vals |-> v[5], places |-> v[6], insts |-> v[7],
     operands |-> v[8], convs |-> v[9], calls |-> v[10], reduces |-> v[11], switches |-> v[12], arms |-> v[13], blocks |-> v[14],
     scopes |-> v[15], defers |-> v[16], regions |-> v[17], captures |-> v[18], sites |-> v[19], consts |-> v[20],
     obligations |-> v[21], sources |-> v[22], exits |-> v[23], exscopes |-> v[24], pending |-> v[25], drops |-> v[26],
     discharges |-> v[27]]
Section(d, k) ==
    CASE k = 1 -> ReadHeader(d) [] k = 2 -> ReadVals(d) [] k = 3 -> ReadPlaces(d) [] k = 4 -> ReadInsts(d) [] k = 5 -> ReadCalls(d)
      [] k = 6 -> ReadSwitches(d) [] k = 7 -> ReadFrame(d) [] k = 8 -> ReadTail(d) [] k = 9 -> ReadExits(d) [] k = 10 -> AllRead(d)
FromWords(ws) == Make(FoldLeft(LAMBDA d, k : IF d.err # "" THEN d ELSE Section(d, k), Dec(ws), [k \in 1..10 |-> k]), 27, LAMBDA v : DeclOf(v))

-----------------------------------------------------------------------------
(* The form that is hashed: blocks numbered by a breadth-first walk, the   *)
(* ones the walk does not meet after them, in their order.                 *)

Targets(arms) == [i \in DOMAIN arms |-> arms[i][3]]
SwitchTargets(d, sw) == <<sw[2]>> \o Targets(Slice(d.arms, SubSeq(sw, 3, 4)))
Successors(d, term) ==
    CASE term.op[1] = "br" -> <<term.a>>
      [] term.op[1] \in {"cond_br", "try_br"} -> <<term.b, term.c>>
      [] term.op[1] = "switch_discr" /\ term.a < Len(d.switches) -> SwitchTargets(d, At(d.switches, term.a))
      [] OTHER -> <<>>
Queued(d, order, targets) ==
    FoldLeft(LAMBDA o, t : IF t < Len(d.blocks) /\ t \notin ToSet(o) THEN Append(o, t) ELSE o, order, targets)
Walk(d) ==
    FoldLeft(LAMBDA o, k : IF k > Len(o) THEN o ELSE Queued(d, o, Successors(d, At(d.blocks, o[k]).term)),
             Queued(d, <<>>, <<d.entry>>), [k \in DOMAIN d.blocks |-> k])
Ordered(d, walk) == walk \o SelectSeq([k \in DOMAIN d.blocks |-> k - 1], LAMBDA b : b \notin ToSet(walk))
CanonicalBlockOrder(d) == Ordered(d, Walk(d))

SafeRemap(new, b) == IF b \in DOMAIN new THEN new[b] ELSE b
RemapTerminator(r, new) ==
    CASE r.op[1] = "br" -> [r EXCEPT !.a = SafeRemap(new, @)]
      [] r.op[1] \in {"cond_br", "try_br"} -> [r EXCEPT !.b = SafeRemap(new, @), !.c = SafeRemap(new, @)]
      [] OTHER -> r
RemapExit(x, new) == [x EXCEPT !.from = SafeRemap(new, @), !.to = IF @ = Absent THEN @ ELSE SafeRemap(new, @)]
RemapDischarge(x, new) == IF x[2] = "deferred" THEN [x EXCEPT ![4] = SafeRemap(new, @)] ELSE x
Renumbered(d, order, new) ==
    [d EXCEPT !.entry = SafeRemap(new, @),
        !.blocks = [k \in DOMAIN @ |-> [At(@, order[k]) EXCEPT !.term = RemapTerminator(@, new)]],
        !.switches = [k \in DOMAIN @ |-> [@[k] EXCEPT ![2] = SafeRemap(new, @)]],
        !.arms = [k \in DOMAIN @ |-> [@[k] EXCEPT ![3] = SafeRemap(new, @)]],
        !.defers = [k \in DOMAIN @ |-> [@[k] EXCEPT ![2] = SafeRemap(new, @)]],
        !.exits = [k \in DOMAIN @ |-> RemapExit(@[k], new)],
        !.discharges = [k \in DOMAIN @ |-> RemapDischarge(@[k], new)]]
NewNumbers(order) == [b \in ToSet(order) |-> NameByte(order, b)]
InOrder(d, order) == Renumbered(d, order, NewNumbers(order))
Canonicalize(d) == InOrder(d, CanonicalBlockOrder(d))
Hashed(d) == ToWords(Canonicalize(d))

-----------------------------------------------------------------------------
(* Text.                                                                   *)

ParamTag == 1073741824      \* the top bit of a value's definition
SecretUnspecified == 32768
Tok(kind, n, m, word) == <<kind, n, m, word>>
Sign(kind) == Tok(kind, 0, 0, "")
Num(kind, n) == Tok(kind, n, 0, "")
Say(word) == Tok("word", 0, 0, word)

SecretTok(flags) ==
    Say(IF flags >= SecretUnspecified THEN "?" ELSE IF flags % 2 = 1 THEN "secret" ELSE "nosecret")
CtTok(ct) == IF ct = CtUnspecified THEN Sign("ct=?") ELSE Num("ct=", ct)
Typing(v) == <<Sign("ty"), Num("#", v.ty), SecretTok(v.flags), CtTok(v.ct)>>
ModeSuffix(m) == IF m = 0 THEN "" ELSE At(Modes, m)
\* An operation's name and, after a colon, its mode.
Mnemonic(op) == Tok("op", 0, 0, <<op[1], IF op[1] \in ToSet(Arith) THEN ModeSuffix(op[2]) ELSE "">>)
TrailingModifier(op) == IF op[1] \in ToSet(Checks) /\ op[2] = 1 THEN <<Say("policy=off")>> ELSE <<>>
V(n) == Num("%v", n)
BB(n) == Num("bb", n)
ArmToks(arms) == [i \in DOMAIN arms |-> Tok(":bb", arms[i][1], arms[i][3], "")]
DumpSwitch(d, sw) == <<V(sw[1]), BB(sw[2])>> \o ArmToks(Slice(d.arms, SubSeq(sw, 3, 4)))
DumpIntrinsic(d, call) ==
    (IF call.callee[1] = "intrinsic" THEN <<Num("@", call.callee[2])>> ELSE <<>>)
    \o [i \in 1..call.args[2] - call.args[1] |-> V(Slice(d.operands, call.args)[i])]
DumpOperands(d, i) ==
    LET op == i.op[1]
    IN CASE op \in (ToSet(Arith) \ {"neg"}) \cup {"index", "alloc", "arena_alloc"} -> <<V(i.a), V(i.b)>>
         [] op \in {"neg", "arena_deref", "arena_reset", "declassify", "erase_to_dyn", "free"} \cup ToSet(Checks) -> <<V(i.a)>>
         [] op = "slice_range" -> <<V(i.a), V(i.b), V(i.c)>>
         [] op = "intrinsic" -> IF i.a >= Len(d.calls) THEN <<>> ELSE DumpIntrinsic(d, At(d.calls, i.a))
         [] op = "br" -> <<BB(i.a)>>
         [] op = "cond_br" -> <<V(i.a), BB(i.b), BB(i.c)>>
         [] op = "switch_discr" -> IF i.a >= Len(d.switches) THEN <<>> ELSE DumpSwitch(d, At(d.switches, i.a))
         [] op = "try_br" -> <<Num("%inst", i.a), BB(i.b), BB(i.c)>>
         [] op \in {"ret", "raise"} -> IF i.a = Absent THEN <<>> ELSE <<V(i.a)>>
         [] op = "trap" -> <<Tok("kind=", 0, 0, IF i.a < 8 THEN At(TrapKinds, i.a) ELSE "?")>>
         [] op \in {"spawn", "sync", "region_enter", "region_exit"} -> <<Num("r", i.a)>>
         [] OTHER -> <<>>
SeedTok(d, s) ==
    CASE s[1] = "none" -> <<>>
      [] s[1] = "conv" -> <<Say("seed"), Tok("conv-", 0, 0, s[2])>>
      [] s[1] = "own" -> <<Say("seed"), Num("own", At(d.places, s[2]).root)>>
      [] s[1] = "arena" -> <<Say("seed"), Num("arena", s[2])>>
      [] s[1] = "split" -> <<Say("seed"), Tok("split", At(d.places, s[2]).root, s[3], "")>>
InstToks(d, i) == <<Mnemonic(i.op)>> \o DumpOperands(d, i) \o TrailingModifier(i.op)
DumpDo(d, i) == <<Say("do")>> \o InstToks(d, i)
DumpVal(d, i, v) ==
    <<Say("val"), V(v), Say("=")>> \o InstToks(d, i) \o Typing(At(d.vals, v))
    \o (IF IsMemoryProducing(i.op) THEN SeedTok(d, i.seed) ELSE <<>>)
\* The last value an instruction defines names it.
ValuesOf(d, k) == SelectSeq([v \in DOMAIN d.vals |-> v - 1], LAMBDA v : At(d.vals, v).def = k)
DumpInst(d, k, vs) ==
    IF vs # <<>> /\ ~IsTerminator(At(d.insts, k).op) THEN DumpVal(d, At(d.insts, k), Last(vs)) ELSE DumpDo(d, At(d.insts, k))
DumpBlock(d, n) ==
    LET b == At(d.blocks, n)
        rows == SelectSeq([k \in 1..b.len |-> b.first + k - 1], LAMBDA k : k < Len(d.insts))
    IN <<<<Say("block"), BB(n)>>>> \o [k \in DOMAIN rows |-> DumpInst(d, rows[k], ValuesOf(d, rows[k]))] \o <<DumpDo(d, b.term)>>
DumpRegion(d, n) ==
    LET r == At(d.regions, n)
        caps == Slice(d.captures, r.captures)
    IN <<Say("region"), Num("r", n), Say(r.kind)>>
       \o (IF r.captures[1] = Absent THEN <<>>
           ELSE <<Say("captures")>> \o [i \in DOMAIN caps |-> Tok("%v:", caps[i][1], 0, caps[i][2])])
DumpParam(d, v) == <<Say("val"), V(v), Say("="), Say("param"), Num("#", (At(d.vals, v).def - ParamTag) % (HalfMax + 1))>> \o Typing(At(d.vals, v))
Params(d) == SelectSeq([v \in DOMAIN d.vals |-> v - 1], LAMBDA v : At(d.vals, v).def >= ParamTag)
Dump(d) ==
    <<<<Say("decl"), Num("#", d.decl), Say("sig"), Num("#", d.sig)>> \o (IF d.unsafe = 1 THEN <<Say("unsafe")>> ELSE <<>>)>>
    \o [n \in DOMAIN d.regions |-> DumpRegion(d, n - 1)]
    \o [n \in DOMAIN Params(d) |-> DumpParam(d, Params(d)[n])]
    \o FlattenSeq([n \in DOMAIN d.blocks |-> DumpBlock(d, n - 1)])

\* The parser: the declaration so far, the numbers of the names met, the first
\* instruction of the open block and the numbers of all blocks.
EmptyDecl ==
    [decl |-> 0, sig |-> 0, entry |-> 0, unsafe |-> 0, vals |-> <<>>, places |-> <<>>, insts |-> <<>>, operands |-> <<>>,
     convs |-> <<>>, calls |-> <<>>, reduces |-> <<>>, switches |-> <<>>, arms |-> <<>>, blocks |-> <<>>,
     scopes |-> <<<<Absent, Absent, 0, 0, 0, 0, Absent>>>>, defers |-> <<>>, regions |-> <<>>, captures |-> <<>>, sites |-> <<>>,
     consts |-> <<>>, obligations |-> <<>>, sources |-> <<>>, exits |-> <<>>, exscopes |-> <<>>, pending |-> <<>>,
     drops |-> <<>>, discharges |-> <<>>]
BlockNames(text) ==
    FoldLeft(LAMBDA ns, l : IF l # <<>> /\ l[1] = Say("block") /\ Len(l) > 1 THEN Append(ns, l[2]) ELSE ns, <<>>, text)
Start(names) == [err |-> "", d |-> EmptyDecl, names |-> <<>>, open |-> <<>>, saw |-> FALSE, blocks |-> names]
Bad(p, e) == [p EXCEPT !.err = e]

\* An operand's number, or -1.
LookupVal(p, t) == IF t[1] = "%v" /\ t[2] \in DOMAIN p.names THEN p.names[t[2]] ELSE -1
LookupBlock(p, t) == IF t \in ToSet(p.blocks) THEN NameByte(p.blocks, t) ELSE -1
Resolve(p, t, shape) ==
    CASE shape = "v" -> LookupVal(p, t)
      [] shape = "b" -> LookupBlock(p, t)
      [] shape = "k" -> IF t[1] = "kind=" /\ t[4] \in ToSet(TrapKinds) THEN NameByte(TrapKinds, t[4]) ELSE -1
      [] OTHER -> IF t[1] = shape THEN t[2] ELSE -1
Shape(op) ==
    CASE op \in (ToSet(Arith) \ {"neg"}) \cup {"index", "alloc", "arena_alloc"} -> <<"v", "v">>
      [] op \in {"neg", "arena_deref", "arena_reset", "free", "declassify", "erase_to_dyn"} \cup ToSet(Checks) -> <<"v">>
      [] op = "slice_range" -> <<"v", "v", "v">>
      [] op = "br" -> <<"b">>
      [] op = "cond_br" -> <<"v", "b", "b">>
      [] op = "try_br" -> <<"%inst", "b", "b">>
      [] op = "trap" -> <<"k">>
      [] op \in {"spawn", "sync", "region_enter", "region_exit"} -> <<"r">>
      [] op \in {"unreachable", "tile.op"} -> <<>>
\* What reading operands leaves: the parser, the three operands, the rest of the line.
Read(p, abc, rest) ==
    [p |-> IF -1 \in ToSet(abc) THEN Bad(p, "operand") ELSE p, abc |-> abc \o [i \in 1..3 - Len(abc) |-> Absent], rest |-> rest]
Fixed(p, t, shape) ==
    Read(p, [i \in DOMAIN shape |-> IF i > Len(t) THEN -1 ELSE Resolve(p, t[i], shape[i])], SubSeq(t, Len(shape) + 1, Len(t)))
UpToTok(t, stops) ==
    LET at == {i \in DOMAIN t : t[i] \in stops}
    IN IF at = {} THEN Len(t) ELSE (CHOOSE i \in at : \A j \in at : i <= j) - 1
ReadIntrinsic(p, sym, t, n) ==
    LET args == [i \in 1..n |-> LookupVal(p, t[i])]
        from == Len(p.d.operands)
    IN IF -1 \in ToSet(args) THEN Read(p, <<-1>>, t)
       ELSE Read([p EXCEPT !.d.operands = @ \o args, !.d.convs = @ \o [i \in 1..n |-> "let"],
                           !.d.calls = Append(@, [callee |-> <<"intrinsic", sym, 0>>, args |-> <<from, from + n>>])],
                 <<Len(p.d.calls)>>, SubSeq(t, n + 1, Len(t)))
ReadSwitch(p, discr, default, t, n) ==
    LET arms == [i \in 1..n |-> <<t[i][2], 0, IF t[i][1] = ":bb" THEN LookupBlock(p, BB(t[i][3])) ELSE -1>>]
        from == Len(p.d.arms)
    IN IF -1 \in {discr, default} \cup {arms[i][3] : i \in 1..n} THEN Read(p, <<-1>>, t)
       ELSE Read([p EXCEPT !.d.arms = @ \o arms, !.d.switches = Append(@, <<discr, default, from, from + n>>)],
                 <<Len(p.d.switches)>>, SubSeq(t, n + 1, Len(t)))
ParseOperands(p, op, t) ==
    CASE op = "intrinsic" ->
            IF t = <<>> \/ t[1][1] # "@" THEN Read(p, <<-1>>, t)
            ELSE ReadIntrinsic(p, t[1][2], Tail(t), UpToTok(Tail(t), {Sign("ty"), Say("seed")}))
      [] op = "switch_discr" ->
            IF Len(t) < 2 THEN Read(p, <<-1>>, t)
            ELSE ReadSwitch(p, LookupVal(p, t[1]), LookupBlock(p, t[2]), SubSeq(t, 3, Len(t)), UpToTok(SubSeq(t, 3, Len(t)), {Sign("ty")}))
      [] op \in {"ret", "raise"} -> Fixed(p, t, IF t # <<>> /\ t[1][1] \in {"%v", "%inst", "%v:"} THEN <<"v">> ELSE <<>>)
      [] OTHER -> Fixed(p, t, Shape(op))

Parseable == {n \in ToSet(Ops) : n \in ToSet(Arith \o Checks \o Terminators) \cup {"index", "slice_range", "alloc", "free", "arena_alloc",
    "arena_deref", "arena_reset", "intrinsic", "declassify", "erase_to_dyn", "region_enter", "region_exit", "spawn", "sync", "tile.op"}}
\* A mode is read from every name and kept where the operation has one.
ParseMnemonic(t) ==
    IF t[1] # "op" \/ t[4][1] \notin Parseable \/ t[4][2] \notin ToSet(Modes) \cup {""} THEN <<>>
    ELSE <<t[4][1], IF t[4][1] \in ToSet(Arith) /\ t[4][2] # "" THEN NameByte(Modes, t[4][2]) ELSE 0>>
PolicyOff(t) == t # <<>> /\ t[1] = Say("policy=off")
ApplyTrailingPolicy(op, t) == IF PolicyOff(t) /\ op[1] \in ToSet(Checks) THEN <<op[1], 1>> ELSE op
Flags == [secret |-> 1, nosecret |-> 0]
SecretFlags(w) == IF w = "?" THEN SecretUnspecified ELSE Flags[w]
TypingRead(t) ==
    /\ Len(t) >= 4 /\ t[1][1] = "ty" /\ t[2][1] = "#" /\ t[3][1] = "word" /\ t[3][4] \in {"?", "secret", "nosecret"}
    /\ t[4][1] = "ct=?" \/ (t[4][1] = "ct=" /\ t[4][2] <= HalfMax)
ValRow(t, def) ==
    [ty |-> t[2][2], flags |-> SecretFlags(t[3][4]), ct |-> IF t[4][1] = "ct=?" THEN CtUnspecified ELSE t[4][2], def |-> def, src |-> <<>>]
Place(pool, root) == Intern(pool, [root |-> root, ty |-> 0, segs |-> <<>>])
PlaceAt(pool, root) == NameByte(pool, [root |-> root, ty |-> 0, segs |-> <<>>])
\* Not a seed at all is the seed none; a word that names none is an error.
ParseSeed(p, t) ==
    IF t = <<>> \/ t[1] # Say("seed") THEN [p |-> p, seed |-> <<"none">>]
    ELSE IF Len(t) < 2 \/ t[2][1] \notin {"conv-", "own", "arena", "split"} THEN [p |-> Bad(p, "seed"), seed |-> <<"none">>]
    ELSE IF t[2][1] = "conv-" THEN [p |-> p, seed |-> <<"conv", t[2][4]>>]
    ELSE IF t[2][1] = "arena" THEN [p |-> p, seed |-> <<"arena", t[2][2]>>]
    ELSE LET pool == Place(p.d.places, t[2][2])
         IN [p |-> [p EXCEPT !.d.places = pool],
             seed |-> IF t[2][1] = "own" THEN <<"own", PlaceAt(pool, t[2][2])>> ELSE <<"split", PlaceAt(pool, t[2][2]), t[2][3]>>]

PushInst(p, op, abc, ty, seed) ==
    [p EXCEPT !.d.insts = Append(@, [op |-> op, a |-> abc[1], b |-> abc[2], c |-> abc[3], ty |-> ty, site |-> 0, seed |-> seed])]
PushVal(p, name, row) == [p EXCEPT !.names = (name :> Len(p.d.vals)) @@ @, !.d.vals = Append(@, row)]
Seeded(r, name, op, abc, t) ==
    IF r.p.err # "" THEN r.p
    ELSE PushVal(PushInst(r.p, op, abc, t[2][2], r.seed), name, ValRow(t, Len(r.p.d.insts)))
ValTyped(p, name, op, abc, t) ==
    IF ~TypingRead(t) THEN Bad(p, "typing") ELSE Seeded(ParseSeed(p, SubSeq(t, 5, Len(t))), name, op, abc, t)
AfterPolicy(t) == IF PolicyOff(t) THEN Tail(t) ELSE t
ValInst(r, name, op) ==
    IF r.p.err # "" THEN r.p ELSE ValTyped(r.p, name, ApplyTrailingPolicy(op, r.rest), r.abc, AfterPolicy(r.rest))
DoInst(r, op) == IF r.p.err # "" THEN r.p ELSE PushInst(r.p, ApplyTrailingPolicy(op, r.rest), r.abc, 1, <<"none">>)
ParamLine(p, name, t) ==
    IF t = <<>> \/ t[1][1] # "#" \/ t[1][2] > HalfMax \/ ~TypingRead(Tail(t)) THEN Bad(p, "param")
    ELSE PushVal(p, name, ValRow(Tail(t), ParamTag + t[1][2]))
Defining(r, op, names) == IF names = {} THEN DoInst(r, op) ELSE ValInst(r, CHOOSE n \in names : TRUE, op)
InstLine(p, t, names) ==
    IF p.open = <<>> \/ t = <<>> \/ ParseMnemonic(t[1]) = <<>> THEN Bad(p, "instruction")
    ELSE Defining(ParseOperands(p, ParseMnemonic(t[1])[1], Tail(t)), ParseMnemonic(t[1]), names)
ValLine(p, t) ==
    IF Len(t) < 3 \/ t[2] # Say("=") THEN Bad(p, "val")
    ELSE IF t[3] = Say("param") THEN ParamLine(p, t[1][2], SubSeq(t, 4, Len(t)))
    ELSE InstLine(p, SubSeq(t, 3, Len(t)), {t[1][2]})
DeclLine(p, t) ==
    IF p.saw \/ Len(t) < 3 \/ t[1][1] # "#" \/ t[2] # Say("sig") \/ t[3][1] # "#" THEN Bad(p, "decl")
    ELSE [p EXCEPT !.saw = TRUE, !.d.decl = t[1][2], !.d.sig = t[3][2], !.d.unsafe = IF Len(t) > 3 /\ t[4] = Say("unsafe") THEN 1 ELSE @]
RegionLine(p, t) ==
    LET caps == [i \in 1..Len(t) - 3 |-> <<LookupVal(p, V(t[i + 3][2])), t[i + 3][4]>>]
        from == Len(p.d.captures)
    IN IF Len(t) < 2 \/ t[2][4] \notin ToSet(RegionKinds) THEN Bad(p, "region")
       ELSE IF Len(t) = 2 \/ t[3] # Say("captures")
            THEN [p EXCEPT !.d.regions = Append(@, [kind |-> t[2][4], captures |-> <<Absent, Absent>>, brand |-> Absent])]
       ELSE IF \E i \in DOMAIN caps : t[i + 3][1] # "%v:" \/ caps[i][1] = -1 THEN Bad(p, "capture")
       ELSE [p EXCEPT !.d.captures = @ \o caps,
                      !.d.regions = Append(@, [kind |-> t[2][4], captures |-> <<from, from + Len(caps)>>, brand |-> Absent])]
FinishBlock(p) ==
    IF p.err # "" \/ p.open = <<>> THEN p
    ELSE IF Len(p.d.insts) <= p.open[1] THEN Bad(p, "empty block")
    ELSE [p EXCEPT !.open = <<>>,
                   !.d.blocks = Append(@, [first |-> p.open[1], len |-> Len(p.d.insts) - p.open[1] - 1,
                                              term |-> [Last(p.d.insts) EXCEPT !.seed = <<"none">>], scope |-> 0])]
OpenBlock(p) == IF p.err # "" THEN p ELSE [p EXCEPT !.open = <<Len(p.d.insts)>>]
ParseLine(p, l) ==
    IF p.err # "" \/ l = <<>> THEN p
    ELSE CASE l[1] = Say("decl") -> DeclLine(p, Tail(l))
           [] l[1] = Say("region") -> RegionLine(p, Tail(l))
           [] l[1] = Say("block") -> OpenBlock(FinishBlock(p))
           [] l[1] = Say("val") -> ValLine(p, Tail(l))
           [] l[1] = Say("do") -> InstLine(p, Tail(l), {})
           [] OTHER -> Bad(p, "line kind")
Whole(p) == IF p.err = "" /\ (~p.saw \/ p.d.blocks = <<>>) THEN Bad(p, "missing") ELSE p
Parse(text) ==
    LET names == BlockNames(text)
    IN IF ~IsInjective(names) \/ \E i \in DOMAIN text : text[i] = <<Say("block")>> THEN Bad(Start(<<>>), "block name")
       ELSE Whole(FinishBlock(FoldLeft(ParseLine, Start(names), text)))

-----------------------------------------------------------------------------
(* Small lowered declarations and texts, and what their two encodings and  *)
(* the form that is hashed must keep.                                      *)

Inst(op, a, b, c) == [op |-> op, a |-> a, b |-> b, c |-> c, ty |-> 1, site |-> 0, seed |-> <<"none">>]
Do(name, a, b, c) == Inst(<<name, 0>>, a, b, c)
Blk(term) == [first |-> 0, len |-> 1, term |-> term, scope |-> 1]
Seeds == <<<<"none">>, <<"conv", "sink">>, <<"own", 1>>, <<"arena", 4>>, <<"split", 0, 1>>>>
\* A branch, a switch, a try and a deferred body nothing branches to.
Rich ==
    [EmptyDecl EXCEPT
        !.decl = 7, !.sig = 3, !.unsafe = 1,
        !.vals = <<[ty |-> 2, flags |-> 1, ct |-> 0, def |-> ParamTag + 1, src |-> <<>>],
                   [ty |-> 3, flags |-> SecretUnspecified, ct |-> CtUnspecified, def |-> 0, src |-> <<0, 2>>]>>,
        !.places = <<[root |-> 0, ty |-> 2, segs |-> <<>>], [root |-> 0, ty |-> 2, segs |-> <<<<"field", 3>>, <<"index", 1>>, <<"deref", 0>>>>]>>,
        !.insts = [i \in DOMAIN Seeds |-> [Do("index", 0, i, Absent) EXCEPT !.seed = Seeds[i]]],
        !.operands = <<0, 1, 1>>, !.convs = <<"let", "inout", "set">>,
        !.calls = <<[callee |-> <<"direct", 5, 0>>, args |-> <<0, 1>>], [callee |-> <<"witness", 2, 65535>>, args |-> <<1, 3>>]>>,
        !.reduces = <<[callee |-> <<"closure", 1, 0>>, row |-> <<0, 1, 8, 4>>]>>,
        !.switches = <<<<0, 3, 0, 2>>>>, !.arms = <<<<1, 0, 2>>, <<0, 9, 4>>>>,
        !.blocks = <<Blk(Do("cond_br", 0, 1, 2)), Blk(Do("switch_discr", 0, Absent, Absent)), Blk(Do("try_br", 2, 3, 1)),
                     Blk(Do("ret", Absent, Absent, Absent)), Blk(Do("br", 3, Absent, Absent)), Blk(Do("unreachable", 4, 4, 4))>>,
        !.scopes = @ \o <<<<0, 2, 0, 2, 0, 1, Absent>>>>, !.defers = <<<<0, 5, 1>>, <<1, 4, 65535>>>>,
        !.regions = <<[kind |-> "spawn", captures |-> <<0, 1>>, brand |-> Absent], [kind |-> "with-arena", captures |-> <<Absent, Absent>>, brand |-> 2]>>,
        !.captures = <<<<1, "sink">>>>, !.sites = <<<<4, 2>>>>,
        !.consts = <<<<"int", 5, 1>>, <<"float", 5, 1>>, <<"bool", 1, 0>>, <<"unit", 0, 0>>, <<"str", 6, 0>>>>,
        !.obligations = <<1>>, !.sources = <<0, 1>>,
        !.exits = <<[from |-> 2, to |-> 3, kind |-> 1, scopes |-> <<0, 1>>, pending |-> <<0, 2>>, drops |-> <<0, 1>>, discharges |-> <<0, 4>>],
                    [from |-> 3, to |-> Absent, kind |-> 0, scopes |-> <<1, 1>>, pending |-> <<2, 2>>, drops |-> <<1, 1>>, discharges |-> <<4, 4>>]>>,
        !.exscopes = <<1>>, !.pending = <<1, 0>>, !.drops = <<1>>,
        !.discharges = <<<<0, "moved", 1, 0>>, <<1, "deferred", 1, 5>>, <<0, "raised", 2, 0>>, <<1, "returned", 0, 0>>>>]
Decls == {Rich} \cup {[EmptyDecl EXCEPT !.insts = <<Inst(<<Ops[k], Payloads(Ops[k]) - 1>>, 0, 1, 2)>>] : k \in DOMAIN Ops}

\* The text of one or two instructions and a terminator over three parameters,
\* whose names are not the numbers they will get.
Mn(name, mode) == Tok("op", 0, 0, <<name, mode>>)
Ty(n) == <<Sign("ty"), Num("#", n), Say("nosecret"), Num("ct=", n)>>
Header(unsafe) ==
    <<<<Say("decl"), Num("#", 4), Say("sig"), Num("#", 2)>> \o (IF unsafe THEN <<Say("unsafe")>> ELSE <<>>),
      <<Say("region"), Num("r", 0), Say("spawn")>>, <<Say("region"), Num("r", 1), Say("parallel")>>,
      <<Say("val"), V(7), Say("="), Say("param"), Num("#", 0)>> \o Ty(1),
      <<Say("val"), V(8), Say("="), Say("param"), Num("#", 1), Sign("ty"), Num("#", 2), Say("secret"), Sign("ct=?")>>,
      <<Say("val"), V(9), Say("="), Say("param"), Num("#", 2), Sign("ty"), Num("#", 3), Say("?"), Num("ct=", 5)>>>>
SeedSpecs == {<<>>} \cup {<<Say("seed"), s>> : s \in {Tok("conv-", 0, 0, "sink"), Num("own", 6), Num("arena", 3), Tok("split", 6, 1, "")}}
Heads ==
    {<<Mn(Arith[k], m), V(7), V(8)>> : k \in 1..7, m \in {"", "wrap"}} \cup {<<Mn("neg", "sat"), V(9)>>, <<Mn("declassify", ""), V(8)>>}
    \cup {<<Mn(Checks[k], ""), V(9)>> \o w : k \in 1..3, w \in {<<>>, <<Say("policy=off")>>}}
    \cup {<<Mn("intrinsic", ""), Num("@", 12)>> \o a : a \in {<<>>, <<V(7), V(9)>>}}
    \cup {<<Mn(o, ""), V(7)>> : o \in {"free", "arena_reset", "erase_to_dyn"}}
    \cup {<<Mn(o, ""), Num("r", 1)>> : o \in {"spawn", "sync", "region_enter", "region_exit"}} \cup {<<Mn("tile.op", "")>>}
MemoryHeads ==
    {<<Mn("index", ""), V(7), V(8)>>, <<Mn("slice_range", ""), V(7), V(8), V(9)>>, <<Mn("alloc", ""), V(8), V(9)>>,
     <<Mn("arena_alloc", ""), V(8), V(9)>>, <<Mn("arena_deref", ""), V(9)>>}
Lines ==
    {<<Say("do")>> \o h : h \in Heads} \cup {<<Say("val"), V(4), Say("=")>> \o h \o Ty(5) : h \in Heads}
    \cup {<<Say("val"), V(4), Say("=")>> \o h \o Ty(6) \o s : h \in MemoryHeads, s \in SeedSpecs}
Ends ==
    {<<Mn("br", ""), BB(6)>>, <<Mn("cond_br", ""), V(8), BB(5), BB(6)>>, <<Mn("try_br", ""), Num("%inst", 0), BB(6), BB(5)>>,
     <<Mn("ret", "")>>, <<Mn("raise", ""), V(9)>>, <<Mn("trap", ""), Tok("kind=", 0, 0, "shift")>>, <<Mn("unreachable", "")>>,
     <<Mn("switch_discr", ""), V(7), BB(6), Tok(":bb", 2, 5, ""), Tok(":bb", 9, 6, "")>>}
Text(unsafe, line, end) ==
    Header(unsafe) \o <<<<Say("block"), BB(5)>>, line, <<Say("do")>> \o end, <<>>, <<Say("block"), BB(6)>>, <<Say("do"), Mn("ret", ""), V(7)>>>>
Texts ==
    {Text(FALSE, l, <<Mn("ret", ""), V(8)>>) : l \in Lines}
    \cup {Text(TRUE, <<Say("val"), V(4), Say("="), Mn("add", ""), V(7), V(8)>> \o Ty(5), e) : e \in Ends}

-----------------------------------------------------------------------------
OneMore(w) == IF w = Absent THEN 0 ELSE w + 1
\* The declaration with block b called f[b], the blocks stored in that order.
Called(f, b) == IF b \in DOMAIN f THEN f[b] ELSE b
TermCalled(f, t) ==
    CASE t.op[1] = "br" -> [t EXCEPT !.a = f[@]] [] t.op[1] \in {"cond_br", "try_br"} -> [t EXCEPT !.b = f[@], !.c = f[@]] [] OTHER -> t
Permuted(d, f) ==
    LET at(n) == CHOOSE b \in DOMAIN f : f[b] = n
    IN [d EXCEPT !.entry = f[@], !.blocks = [k \in DOMAIN @ |-> [@[at(k - 1) + 1] EXCEPT !.term = TermCalled(f, @)]],
            !.switches = [k \in DOMAIN @ |-> <<@[k][1], f[@[k][2]], @[k][3], @[k][4]>>],
            !.arms = [k \in DOMAIN @ |-> <<@[k][1], @[k][2], f[@[k][3]]>>],
            !.defers = [k \in DOMAIN @ |-> <<@[k][1], f[@[k][2]], @[k][3]>>],
            !.exits = [k \in DOMAIN @ |-> [@[k] EXCEPT !.from = f[@], !.to = Called(f, @)]],
            !.discharges = [k \in DOMAIN @ |-> IF @[k][2] = "deferred" THEN <<@[k][1], @[k][2], @[k][3], f[@[k][4]]>> ELSE @[k]]]
Renamings == {f \in [0..5 -> 0..5] : IsInjective(f)}
RichHash == Hashed(Rich)

=============================================================================
