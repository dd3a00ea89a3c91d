----------------------------- MODULE NativeCode -----------------------------
(***************************************************************************)
(* The native backend: a straight-line declaration of FMIR as OIR rows     *)
(* (fors-oir), a stencil per row with its holes filled, the trap tail and  *)
(* the literal pool behind the code (fors-codegen-dev), the runtime atoms  *)
(* and the linked text (fors-link).  An instruction is a record of its     *)
(* operation, registers d, n, m, immediate i and condition c; register 31  *)
(* reads as zero here and 32 is the stack pointer.  A half of an immediate *)
(* is three bits, a quarter of the 64-bit kinds at their scale of twelve.  *)
(***************************************************************************)
EXTENDS Arithmetic, FiniteSets, SequencesExt, TLC

MAX_FRAME == 32 * 1024
ATOM_ALIGN == 16
HALF == 3
Word == 2^Width("u64")

A == 10
B == 11
R == 12
T1 == 13
T2 == 14
T3 == 15
FP == 29
LR == 30
ZR == 31
SP == 32
X(n) == n

I(op, d, n, m, i, c) == [op |-> op, d |-> d, n |-> n, m |-> m, i |-> i, c |-> c, hole |-> <<>>]
Op3(op, d, n, m) == I(op, d, n, m, 0, "")
OpI(op, d, n, i) == I(op, d, n, ZR, i, "")
Sel(op, d, n, m, c) == I(op, d, n, m, 0, c)
Mov(d, n) == Op3("mov", d, n, ZR)
Hole(inst, kind, field) == [inst EXCEPT !.hole = <<kind, field>>]

-----------------------------------------------------------------------------
(* Pieces of stencils (stencil.rs, stencil/int.rs).                        *)

LdrSlot(rt, f) == Hole(OpI("ldr", rt, SP, 0), "ldst64", f)
StrSlot(rt, f) == Hole(OpI("str", rt, SP, 0), "ldst64", f)
HalfNames == <<"w1", "w2", "w3", "w4">>
MovzImm(rd, k, half) == Hole(I("movz", rd, ZR, half, 0, ""), "imm16", HalfNames[k])
MovkImm(rd, k, half) == Hole(I("movk", rd, ZR, half, 0, ""), "imm16", HalfNames[k])
TrapIf(cond, kind) == Hole(I("b.cond", ZR, ZR, ZR, 0, cond), "br19", kind)
TrapCbz(rt, kind) == Hole(OpI("cbz", ZR, rt, 0), "br19", kind)
TrapCbnz(rt, kind) == Hole(OpI("cbnz", ZR, rt, 0), "br19", kind)
TrapTbnz(rt, bit, kind) == Hole(I("tbnz", ZR, rt, bit, 0, ""), "br14", kind)
TrapAlways(kind) == Hole(OpI("b", ZR, ZR, 0), "br26", kind)
Bl(sym) == Hole(OpI("bl", ZR, ZR, 0), "br26", sym)
AdrLit(rd) == Hole(OpI("adr", rd, ZR, 0), "adr21", "lit")
BCondLocal(cond, words) == I("b.cond", ZR, ZR, ZR, words % 2^19, cond)

TrapKindsInOrder == <<"overflow", "div_zero", "shift", "checked_conversion">>
TrapNames == ToSet(TrapKindsInOrder)
RtSyms == {"write_uint", "write_line"}

\* The sites of a stencil: its trap kinds, each once, as they are first used.
Sites(insts) ==
    FoldLeft(LAMBDA acc, i : IF i.hole # <<>> /\ i.hole[2] \in TrapNames \ ToSet(acc) THEN Append(acc, i.hole[2]) ELSE acc,
             <<>>, insts)

Halves(v) == [k \in 1..4 |-> (v \div 2^(HALF * (k - 1))) % 2^HALF]
MovOf(rd, hs, plain, first, op) ==
    LET k0 == IF \E k \in 1..4 : hs[k] # plain THEN CHOOSE k \in 1..4 : hs[k] # plain /\ \A j \in 1..k - 1 : hs[j] = plain ELSE 1
        rest == SelectSeq(<<1, 2, 3, 4>>, LAMBDA k : k # k0 /\ hs[k] # plain)
    IN <<I(op, rd, ZR, k0 - 1, IF op = "movn" THEN 2^HALF - 1 - hs[k0] ELSE hs[k0], "")>>
       \o [j \in DOMAIN rest |-> I("movk", rd, ZR, rest[j] - 1, hs[rest[j]], "")]
MovImm(rd, value) ==
    LET hs == Halves(value)
        Count(x) == Cardinality({k \in 1..4 : hs[k] = x})
    IN IF Count(2^HALF - 1) > Count(0) THEN MovOf(rd, hs, 2^HALF - 1, 1, "movn") ELSE MovOf(rd, hs, 0, 1, "movz")

Is64(ty) == Width(ty) = Width("u64")
IsNarrow(ty) == ~Is64(ty)
Bound(v) == v % Word                                       \* IntTy::lo and hi as machine words
Canon(rd, rn, ty) ==
    IF Is64(ty) THEN (IF rd = rn THEN <<>> ELSE <<Mov(rd, rn)>>)
    ELSE <<OpI(IF Signed(ty) THEN "sxt" ELSE "uxt", rd, rn, Width(ty))>>
RawExt(ty) == IF Signed(ty) /\ IsNarrow(ty) THEN Width(ty) ELSE 0      \* 0: nothing to extend
Raw(rd, rn, e) == IF e = 0 THEN (IF rd = rn THEN <<>> ELSE <<Mov(rd, rn)>>) ELSE <<OpI("uxt", rd, rn, e)>>
Cmp(n, m) == Op3("subs", ZR, n, m)
CmpImm(n, i) == OpI("subsi", ZR, n, i)
FitsOrTrap(r, ty, kind) ==
    <<I("cmpx", ZR, r, r, Width(ty), IF Signed(ty) THEN "sxt" ELSE "uxt"), TrapIf("ne", kind)>>
ClampSigned(ty) ==
    MovImm(T1, Bound(Hi(ty))) \o <<Cmp(R, T1), Sel("csel", R, T1, R, "gt")>>
    \o MovImm(T1, Bound(Lo(ty))) \o <<Cmp(R, T1), Sel("csel", R, T1, R, "lt")>>
ClampHiUnsigned(hi) == MovImm(T1, hi) \o <<Cmp(R, T1), Sel("csel", R, T1, R, "hi")>>
ClampZeroUnsigned == <<CmpImm(R, 0), Sel("csel", R, ZR, R, "cc")>>
ClampZero == <<CmpImm(R, 0), Sel("csel", R, ZR, R, "lt")>>
SatBySign(rd, from) == <<OpI("asri", rd, from, Width("i64") - 1), OpI("eori", rd, rd, Hi("i64"))>>
LoadAB == <<LdrSlot(A, "a"), LdrSlot(B, "b")>>
StoreR == <<StrSlot(R, "dst")>>
ByMinusOne(skip) == <<OpI("addsi", ZR, B, 1), BCondLocal("ne", skip), Op3("subs", ZR, ZR, A)>>

AddSub(add, mode, ty) ==
    LET plain == <<Op3(IF add THEN "add" ELSE "sub", R, A, B)>>
        flags == <<Op3(IF add THEN "adds" ELSE "subs", R, A, B)>>
    IN IF IsNarrow(ty)
       THEN plain \o (CASE mode = "wrap" -> Canon(R, R, ty)
                        [] mode = "trap" -> FitsOrTrap(R, ty, "overflow")
                        [] OTHER -> IF Signed(ty) THEN ClampSigned(ty) ELSE IF add THEN ClampHiUnsigned(Hi(ty)) ELSE ClampZero)
       ELSE IF mode = "wrap" THEN plain
       ELSE flags \o (CASE mode = "trap" -> <<TrapIf(IF Signed(ty) THEN "vs" ELSE IF add THEN "cs" ELSE "cc", "overflow")>>
                        [] Signed(ty) -> SatBySign(T1, A) \o <<Sel("csel", R, T1, R, "vs")>>
                        [] add -> <<Sel("csinv", R, R, ZR, "cc")>>
                        [] OTHER -> <<Sel("csel", R, R, ZR, "cs")>>)
Mul(mode, ty) ==
    LET mul == <<Op3("mul", R, A, B)>>
        high == <<Op3("smulh", T1, A, B), I("subs", ZR, T1, R, Width("i64") - 1, "")>>
    IN IF IsNarrow(ty)
       THEN mul \o (CASE mode = "wrap" -> Canon(R, R, ty)
                      [] mode = "trap" -> FitsOrTrap(R, ty, "overflow")
                      [] OTHER -> IF Signed(ty) THEN ClampSigned(ty) ELSE ClampHiUnsigned(Hi(ty)))
       ELSE CASE mode = "wrap" -> mul
              [] mode = "trap" /\ Signed(ty) -> mul \o high \o <<TrapIf("ne", "overflow")>>
              [] mode = "trap" -> <<Op3("umulh", T1, A, B), TrapCbnz(T1, "overflow")>> \o mul
              [] Signed(ty) -> mul \o high \o <<Op3("eor", T2, A, B)>> \o SatBySign(T2, T2) \o <<Sel("csel", R, R, T2, "eq")>>
              [] OTHER -> <<Op3("umulh", T1, A, B)>> \o mul \o <<CmpImm(T1, 0), Sel("csinv", R, R, ZR, "eq")>>
Msub == I("msub", R, T1, B, A, "")
DivRem(div, mode, ty) ==
    <<TrapCbz(B, "div_zero")>> \o
    LET quotient(op) == IF div THEN <<Op3(op, R, A, B)>> ELSE <<Op3(op, T1, A, B), Msub>>
    IN IF ~Signed(ty) THEN quotient("udiv")
       ELSE IF IsNarrow(ty) /\ div
       THEN quotient("sdiv") \o (CASE mode = "trap" -> FitsOrTrap(R, ty, "overflow")
                                   [] mode = "wrap" -> Canon(R, R, ty) [] OTHER -> ClampSigned(ty))
       ELSE IF IsNarrow(ty)
       THEN <<Op3("sdiv", T1, A, B)>> \o (IF mode = "trap" THEN FitsOrTrap(T1, ty, "overflow") ELSE <<>>) \o <<Msub>>
       ELSE IF mode = "trap" THEN ByMinusOne(3) \o <<TrapIf("vs", "overflow")>> \o quotient("sdiv")
       ELSE IF mode = "sat" /\ div THEN quotient("sdiv") \o ByMinusOne(4) \o <<BCondLocal("vc", 2)>> \o MovImm(R, Hi("i64"))
       ELSE quotient("sdiv")
Bin(op, mode, ty) ==
    IF op \in {"add", "sub"} THEN AddSub(op = "add", mode, ty)
    ELSE IF op = "mul" THEN Mul(mode, ty) ELSE DivRem(op = "div", mode, ty)
Shift(op, mode, ty) ==
    LET back(how) == <<Op3(how, T2, R, T1), Cmp(T2, A)>>
    IN IF op = "shr" THEN <<Op3(IF Signed(ty) THEN "asrv" ELSE "lsrv", R, A, T1)>>
       ELSE <<Op3("lslv", R, A, T1)>> \o
            (IF mode # "sat" THEN Canon(R, R, ty)
             ELSE IF IsNarrow(ty) THEN (IF Signed(ty) THEN ClampSigned(ty) ELSE ClampHiUnsigned(Hi(ty)))
             ELSE IF Signed(ty) THEN back("asrv") \o SatBySign(T3, A) \o <<Sel("csel", R, R, T3, "eq")>>
             ELSE back("lsrv") \o <<Sel("csinv", R, R, ZR, "eq")>>)
Neg(mode, ty) ==
    IF IsNarrow(ty)
    THEN <<Op3("sub", R, ZR, A)>> \o (CASE mode = "wrap" -> Canon(R, R, ty)
                                        [] mode = "trap" -> FitsOrTrap(R, ty, "overflow") [] OTHER -> ClampSigned(ty))
    ELSE CASE mode = "wrap" -> <<Op3("sub", R, ZR, A)>>
           [] mode = "trap" -> <<Op3("subs", R, ZR, A), TrapIf("vs", "overflow")>>
           [] OTHER -> <<Op3("subs", R, ZR, A), Sel("csinv", R, R, R, "vc")>>
Conv(op, from, to) ==
    CASE op = "wrap" -> Canon(R, A, to)
      [] op = "checked" -> Canon(R, A, to)
            \o <<Cmp(R, A), TrapIf("ne", "checked_conversion")>>
            \o (IF Signed(from) # Signed(to) THEN <<TrapTbnz(A, Width("i64") - 1, "checked_conversion")>> ELSE <<>>)
      [] OTHER -> <<Mov(R, A)>> \o
            (IF Signed(to) /\ Signed(from) THEN ClampSigned(to)
             ELSE (IF Signed(from) THEN ClampZero ELSE <<>>) \o ClampHiUnsigned(Bound(Hi(to))))
CondOf(pred, signed) ==
    CASE pred \in {"eq", "ne"} -> pred
      [] signed -> pred
      [] OTHER -> [lt |-> "cc", le |-> "ls", gt |-> "hi", ge |-> "cs"][pred]

\* The instructions of a stencil, holes open.
Body(key) ==
    CASE key.k = "const" -> <<MovzImm(R, 1, 0), MovkImm(R, 2, 1), MovkImm(R, 3, 2), MovkImm(R, 4, 3)>> \o StoreR
      [] key.k = "copy" -> <<LdrSlot(A, "a"), StrSlot(A, "dst")>>
      [] key.k = "bin" -> LoadAB \o Bin(key.op, key.mode, key.ty) \o StoreR
      [] key.k = "shift" -> LoadAB \o Raw(T1, B, key.count) \o <<CmpImm(T1, Width(key.ty)), TrapIf("cs", "shift")>>
                            \o Shift(key.op, key.mode, key.ty) \o StoreR
      [] key.k = "neg" -> <<LdrSlot(A, "a")>> \o Neg(key.mode, key.ty) \o StoreR
      [] key.k = "logic" -> LoadAB \o <<Op3(key.op, R, A, B)>> \o StoreR
      [] key.k = "not" -> <<LdrSlot(A, "a"), Op3("orn", R, ZR, A)>> \o (IF Signed(key.ty) THEN <<>> ELSE Canon(R, R, key.ty)) \o StoreR
      [] key.k = "notbool" -> <<LdrSlot(A, "a"), OpI("eori", R, A, 1)>> \o StoreR
      [] key.k = "icmp" -> LoadAB \o <<Cmp(A, B), I("cset", R, ZR, ZR, 0, CondOf(key.pred, key.signed))>> \o StoreR
      [] key.k = "conv" -> <<LdrSlot(A, "a")>> \o Conv(key.op, key.from, key.to) \o StoreR
      [] key.k = "write_uint" -> <<LdrSlot(0, "a")>> \o Raw(0, 0, key.ext) \o <<Bl("write_uint")>>
      [] key.k = "write_line" -> <<AdrLit(0), MovzImm(1, 1, 0), MovkImm(1, 2, 1), Bl("write_line")>>
      [] key.k = "prologue" -> <<I("stp", FP, LR, SP, -16, "pre"), Mov(FP, SP), MovzImm(A, 1, 0), Op3("sub", SP, SP, A)>>
      [] key.k = "epilogue" -> <<Mov(SP, FP), I("ldp", FP, LR, SP, 16, "post"), Op3("ret", ZR, LR, ZR)>>
      [] key.k = "trap" -> <<TrapAlways(key.kind)>>
      [] key.k = "brk" -> <<I("brk", ZR, ZR, ZR, 0, key.kind)>>

IntModes == {"trap", "wrap", "sat"}
AllKeys ==
    [k : {"bin"}, op : {"add", "sub", "mul", "div", "rem"}, mode : IntModes, ty : IntKinds]
    \cup [k : {"shift"}, op : {"shl", "shr"}, mode : IntModes, ty : IntKinds, count : {0, Width("u8"), Width("u16"), Width("u32")}]
    \cup {key \in [k : {"neg"}, mode : IntModes, ty : IntKinds] : Signed(key.ty) \/ key.mode = "wrap"}
    \cup [k : {"not"}, ty : IntKinds] \cup [k : {"logic"}, op : {"and", "orr", "eor"}]
    \cup [k : {"icmp"}, pred : {"eq", "ne", "lt", "le", "gt", "ge"}, signed : BOOLEAN]
    \cup [k : {"conv"}, op : {"checked", "wrap", "sat"}, from : IntKinds, to : IntKinds]

\* Filling a hole: the bits of its field, cut to their width, and whether the
\* value is one the field can hold.
HoleValue(h, fill, word) ==
    CASE h[1] = "ldst64" -> fill.slot[h[2]]
      [] h[1] = "imm16" -> fill.imm[CHOOSE k \in 1..4 : HalfNames[k] = h[2]]
      [] h[2] \in TrapNames -> fill.trap[h[2]] - 4 * word
      [] h[2] \in RtSyms -> fill.call - 4 * word
      [] OTHER -> fill.lit - 4 * word
BranchBits == [br19 |-> 19, br14 |-> 14, br26 |-> 26]
PatchBits(kind, v) ==
    CASE kind = "ldst64" -> (v \div 8) % 2^12
      [] kind = "imm16" -> v % 2^16
      [] kind = "adr21" -> v % 2^21
      [] OTHER -> (v \div 4) % 2^BranchBits[kind]
Within(v, bits) == v >= -(2^(bits - 1)) /\ v < 2^(bits - 1)
HoleFits(kind, v) ==
    CASE kind = "ldst64" -> v >= 0 /\ v % 8 = 0 /\ v \div 8 <= 4095
      [] kind = "imm16" -> v \in 0..65535
      [] kind = "adr21" -> Within(v, 21)
      [] OTHER -> v % 4 = 0 /\ Within(v \div 4, BranchBits[kind])
Instantiate(insts, fill) ==
    [w \in DOMAIN insts |->
        IF insts[w].hole = <<>> THEN insts[w]
        ELSE [insts[w] EXCEPT !.i = PatchBits(insts[w].hole[1], HoleValue(insts[w].hole, fill, w - 1))]]
AllFit(insts, fill) ==
    \A w \in DOMAIN insts : insts[w].hole = <<>> \/ HoleFits(insts[w].hole[1], HoleValue(insts[w].hole, fill, w - 1))

-----------------------------------------------------------------------------
(* OIR (fors-oir).  A declaration is [blocks, params, insts, term]; an     *)
(* instruction has op, mode, ty, operands a and b (numbers of the          *)
(* instructions that define them), and whether its value is secret.        *)

LowTys == IntKinds \cup {"bool", "unit", "str"}
IsScalar(ty) == ty \in IntKinds \cup {"bool"}
Row(op, a, b, ty, mode, alias, site, dst) ==
    [op |-> op, a |-> a, b |-> b, ty |-> ty, mode |-> mode, alias |-> alias, site |-> site, dst |-> dst]
None == 0
Refuse(f, why) == [f EXCEPT !.err = why]
\* The class of a place's root; seeds that cannot be traced to one are refused.
ClassOfRoot(root, seed) == IF seed \in {"arena", "split"} THEN <<>> ELSE <<root, IF seed = "conv" THEN "convention" ELSE "affine">>
TyOf(ty) == CASE ty = "secret" -> "SECRET" [] ty \in LowTys -> "" [] OTHER -> "TYPE"
Operand(f, v) == v \in DOMAIN f.map /\ f.map[v] # None
ValueTy(f, v) == f.tys[f.map[v]]
\* Appends a row and, when the instruction has a value, that value.
Define(f, n, i, op, a, b, ty, mode, alias) ==
    IF ~i.def THEN [f EXCEPT !.rows = Append(@, Row(op, a, b, ty, mode, alias, n, None))]
    ELSE IF i.secret THEN Refuse(f, "SECRET")
    ELSE [f EXCEPT !.rows = Append(@, Row(op, a, b, ty, mode, alias, n, Len(f.tys) + 1)),
                   !.tys = Append(@, ty), !.ct = Append(@, i.ct), !.map[n] = Len(f.tys) + 1]
SlotFor(f, root, ty) ==
    IF \E s \in DOMAIN f.slots : f.slots[s].root = root THEN f ELSE [f EXCEPT !.slots = Append(@, [root |-> root, ty |-> ty])]
SlotOf(f, root) == CHOOSE s \in DOMAIN f.slots : f.slots[s].root = root

LowerConst(f, n, i) ==
    CASE i.op = "const_int" /\ i.ty \notin IntKinds -> Refuse(f, IF TyOf(i.ty) # "" THEN TyOf(i.ty) ELSE "TYPE")
      [] i.op = "const_str" -> Define([f EXCEPT !.strings = Append(@, i.a)], n, i, i.op, Len(f.strings) + 1, None, "str", "", <<>>)
      [] i.op = "const_bool" -> Define(f, n, i, i.op, i.a, None, "bool", "", <<>>)
      [] i.op = "const_unit" -> Define(f, n, i, i.op, None, None, "unit", "", <<>>)
      [] OTHER -> Define(f, n, i, i.op, i.a, None, i.ty, "", <<>>)
LowerArith(f, n, i) ==
    IF i.mode \notin IntModes THEN Refuse(f, "UNCHECKED")
    ELSE IF TyOf(i.ty) # "" THEN Refuse(f, TyOf(i.ty))
    ELSE IF ~Operand(f, i.a) THEN Refuse(f, "OPERAND")
    ELSE IF i.ty \notin IntKinds \/ ValueTy(f, i.a) # i.ty THEN Refuse(f, "TYPE")
    ELSE IF i.op = "neg"
    THEN IF ~Signed(i.ty) /\ i.mode # "wrap" THEN Refuse(f, "NEG_UNSIGNED")
         ELSE Define(f, n, i, "neg", f.map[i.a], None, i.ty, i.mode, <<>>)
    ELSE IF ~Operand(f, i.b) THEN Refuse(f, "OPERAND")
    ELSE IF IF i.op \in {"shl", "shr"} THEN ValueTy(f, i.b) \notin IntKinds ELSE ValueTy(f, i.b) # i.ty THEN Refuse(f, "TYPE")
    ELSE Define(f, n, i, i.op, f.map[i.a], f.map[i.b], i.ty, i.mode, <<>>)
LowerLogic(f, n, i) ==
    IF TyOf(i.ty) # "" THEN Refuse(f, TyOf(i.ty))
    ELSE IF ~Operand(f, i.a) \/ (i.op # "not" /\ ~Operand(f, i.b)) THEN Refuse(f, "OPERAND")
    ELSE IF ~IsScalar(i.ty) \/ ValueTy(f, i.a) # i.ty \/ (i.op # "not" /\ ValueTy(f, i.b) # i.ty) THEN Refuse(f, "TYPE")
    ELSE Define(f, n, i, i.op, f.map[i.a], IF i.op = "not" THEN None ELSE f.map[i.b], i.ty, "", <<>>)
LowerIcmp(f, n, i) ==
    IF ~Operand(f, i.a) \/ ~Operand(f, i.b) THEN Refuse(f, "OPERAND")
    ELSE IF ~IsScalar(ValueTy(f, i.a)) \/ ValueTy(f, i.b) # ValueTy(f, i.a) \/ i.ty # "bool" THEN Refuse(f, "TYPE")
    ELSE Define(f, n, i, "icmp", f.map[i.a], f.map[i.b], "bool", i.mode, <<>>)
LowerConv(f, n, i) ==
    IF TyOf(i.ty) # "" THEN Refuse(f, TyOf(i.ty))
    ELSE IF ~Operand(f, i.a) THEN Refuse(f, "OPERAND")
    ELSE IF i.ty \notin IntKinds \/ ValueTy(f, i.a) \notin IntKinds THEN Refuse(f, "TYPE")
    ELSE Define(f, n, i, "conv", f.map[i.a], None, i.ty, i.mode, <<>>)
\* A load or store of a whole scalar place: a is [root, ty, segs, seed].
LowerPlace(f, n, i) ==
    LET p == i.a
        class == ClassOfRoot(p.root, p.seed)
        g == SlotFor(f, p.root, p.ty)
        slot == SlotOf(g, p.root)
    IN IF p.segs # 0 THEN Refuse(f, "PROJECTION")
       ELSE IF TyOf(p.ty) # "" THEN Refuse(f, TyOf(p.ty))
       ELSE IF ~IsScalar(p.ty) THEN Refuse(f, "TYPE")
       ELSE IF class = <<>> THEN Refuse(f, "ALIAS")
       ELSE IF i.op = "copy_from" THEN Define(g, n, i, "slot_load", slot, None, p.ty, "", class)
       ELSE IF ~Operand(f, i.b) THEN Refuse(f, "OPERAND")
       ELSE IF ValueTy(f, i.b) # p.ty THEN Refuse(f, "TYPE")
       ELSE [g EXCEPT !.rows = Append(@, Row("slot_store", slot, f.map[i.b], "unit", "", class, n, None))]
LowerIntrinsic(f, n, i) ==
    IF i.mode \notin RtSyms THEN Refuse(f, "INTRINSIC")
    ELSE IF ~Operand(f, i.a) \/ ~Operand(f, i.b) THEN Refuse(f, "OPERAND")
    ELSE IF ValueTy(f, i.a) # "unit" THEN Refuse(f, "TYPE")
    ELSE IF IF i.mode = "write_line" THEN ValueTy(f, i.b) # "str" ELSE ~IsScalar(ValueTy(f, i.b)) THEN Refuse(f, "TYPE")
    ELSE Define(f, n, i, i.mode, f.map[i.b], None, "unit", "", <<>>)
LowerRow(f, n, i) ==
    CASE i.op \in {"const_int", "const_bool", "const_unit", "const_str"} -> LowerConst(f, n, i)
      [] i.op \in {"add", "sub", "mul", "div", "rem", "shl", "shr", "neg"} -> LowerArith(f, n, i)
      [] i.op \in {"and", "orr", "eor", "not"} -> LowerLogic(f, n, i)
      [] i.op = "icmp" -> LowerIcmp(f, n, i)
      [] i.op = "conv" -> LowerConv(f, n, i)
      [] i.op \in {"copy_from", "init"} -> LowerPlace(f, n, i)
      [] i.op = "intrinsic" -> LowerIntrinsic(f, n, i)
      [] OTHER -> Refuse(f, "OP")

\* The columns of a row that name values.
ValueCols(r) ==
    CASE r.op \in {"const_int", "const_bool", "const_unit", "const_str", "slot_load"} -> {}
      [] r.op = "slot_store" -> {r.b}
      [] r.op \in {"neg", "not", "conv", "write_uint", "write_line"} -> {r.a}
      [] OTHER -> {r.a, r.b}
StrMisused(f) == \E k \in DOMAIN f.rows : f.rows[k].op # "write_line" /\ \E v \in ValueCols(f.rows[k]) : f.tys[v] = "str"
Terminated(f, t) ==
    IF f.err # "" THEN f
    ELSE IF StrMisused(f) THEN Refuse(f, "STR_USE")
    ELSE CASE t.op = "ret" -> IF t.a = None THEN f
                              ELSE IF ~Operand(f, t.a) THEN Refuse(f, "OPERAND")
                              ELSE IF ValueTy(f, t.a) # "unit" THEN Refuse(f, "RETURN") ELSE f
           [] t.op = "trap" -> [f EXCEPT !.term = t.a]
           [] OTHER -> Refuse(f, "OP")
FromFmir(d) ==
    LET start == [rows |-> <<>>, tys |-> <<>>, ct |-> <<>>, slots |-> <<>>, strings |-> <<>>, map |-> [n \in DOMAIN d.insts |-> None],
                  term |-> "ret", err |-> ""]
    IN IF d.blocks # 1 THEN Refuse(start, "BLOCKS")
       ELSE IF d.params THEN Refuse(start, "PARAM")
       ELSE Terminated(FoldLeft(LAMBDA f, n : IF f.err # "" THEN f ELSE LowerRow(f, n, d.insts[n]), start, [n \in DOMAIN d.insts |-> n]), d.term)

\* verify.rs: the first fault, none when the rows are in order.
RowFault(f, k, defined) ==
    LET r == f.rows[k]
    IN CASE r.op \in {"slot_load", "slot_store"} /\ r.a \notin DOMAIN f.slots -> "bad-slot"
         [] r.op \in {"slot_load", "slot_store"} /\ r.alias = <<>> -> "missing-alias-class"
         [] r.op \in {"slot_load", "slot_store"} /\ r.alias[1] # f.slots[r.a].root -> "untraceable-alias-class"
         [] ~(ValueCols(r) \subseteq defined) -> "bad-operand"
         [] r.dst # None /\ (r.dst \notin DOMAIN f.tys \/ r.dst \in defined) -> "bad-operand"
         [] r.dst # None /\ f.tys[r.dst] # r.ty -> "type-mismatch"
         [] r.dst = None /\ r.ty # "unit" -> "type-mismatch"
         [] OTHER -> ""
Verify(f) ==
    IF Len(f.ct) < Len(f.tys) \/ "unspecified" \in ToSet(f.ct) THEN "missing-ct"
    ELSE LET faults == SelectSeq([k \in DOMAIN f.rows |-> RowFault(f, k, {f.rows[j].dst : j \in 1..k - 1} \ {None})], LAMBDA e : e # "")
         IN IF faults = <<>> THEN "" ELSE faults[1]

-----------------------------------------------------------------------------
(* Selection and emission (frame.rs, select.rs, emit.rs, trap.rs).         *)

FrameSize(values, slots) == (((values + slots) * 8 + 15) \div 16) * 16
FrameValue(v) == 8 * (v - 1)
FramePlace(f, s) == 8 * (Len(f.tys) + s - 1)
Canonical(bits, ty) == Value(bits, ty) % Word
KeyOf(f, r) ==
    CASE r.op \in {"const_int", "const_bool"} -> [k |-> "const"]
      [] r.op \in {"slot_load", "slot_store"} -> [k |-> "copy"]
      [] r.op \in {"add", "sub", "mul", "div", "rem"} -> [k |-> "bin", op |-> r.op, mode |-> r.mode, ty |-> r.ty]
      [] r.op \in {"shl", "shr"} -> [k |-> "shift", op |-> r.op, mode |-> r.mode, ty |-> r.ty, count |-> RawExt(f.tys[r.b])]
      [] r.op = "neg" -> [k |-> "neg", mode |-> r.mode, ty |-> r.ty]
      [] r.op \in {"and", "orr", "eor"} -> [k |-> "logic", op |-> r.op]
      [] r.op = "not" -> IF r.ty = "bool" THEN [k |-> "notbool"] ELSE [k |-> "not", ty |-> r.ty]
      [] r.op = "icmp" -> [k |-> "icmp", pred |-> r.mode, signed |-> f.tys[r.a] \in IntKinds /\ Signed(f.tys[r.a])]
      [] r.op = "conv" -> [k |-> "conv", op |-> r.mode, from |-> f.tys[r.a], to |-> r.ty]
      [] r.op = "write_uint" -> [k |-> "write_uint", ext |-> IF f.tys[r.a] \in IntKinds THEN RawExt(f.tys[r.a]) ELSE 0]
      [] r.op = "write_line" -> [k |-> "write_line"]
Fill == [slot |-> [a |-> 0, b |-> 0, dst |-> 0], imm |-> <<0, 0, 0, 0>>, trap |-> [t \in TrapNames |-> 0], call |-> 0, lit |-> 0]
StrOf(f, v) == (CHOOSE k \in DOMAIN f.rows : f.rows[k].op = "const_str" /\ f.rows[k].dst = v)
FillOf(f, r) ==
    CASE r.op = "const_int" -> [Fill EXCEPT !.imm = Halves(Canonical(r.a, r.ty)), !.slot.dst = FrameValue(r.dst)]
      [] r.op = "const_bool" -> [Fill EXCEPT !.imm = <<r.a, 0, 0, 0>>, !.slot.dst = FrameValue(r.dst)]
      [] r.op = "slot_load" -> [Fill EXCEPT !.slot.a = FramePlace(f, r.a), !.slot.dst = FrameValue(r.dst)]
      [] r.op = "slot_store" -> [Fill EXCEPT !.slot.a = FrameValue(r.b), !.slot.dst = FramePlace(f, r.a)]
      [] r.op = "write_uint" -> [Fill EXCEPT !.slot.a = FrameValue(r.a)]
      [] r.op = "write_line" -> [Fill EXCEPT !.imm = Halves(Len(f.strings[f.rows[StrOf(f, r.a)].a]))]
      [] OTHER -> [Fill EXCEPT !.slot.a = FrameValue(r.a), !.slot.b = IF r.b = None THEN 0 ELSE FrameValue(r.b),
                               !.slot.dst = IF r.dst = None THEN 0 ELSE FrameValue(r.dst)]
Lir(key, fill, lit, site) == [body |-> Body(key), fill |-> fill, lit |-> lit, site |-> site]
Stored(f) == SelectSeq(f.rows, LAMBDA r : r.op \notin {"const_unit", "const_str"})
Select(f) ==
    LET rows == Stored(f)
        lit(r) == IF r.op = "write_line" THEN f.rows[StrOf(f, r.a)].a ELSE None
    IN <<Lir([k |-> "prologue"], [Fill EXCEPT !.imm[1] = FrameSize(Len(f.tys), Len(f.slots))], None, None)>>
       \o [j \in DOMAIN rows |-> Lir(KeyOf(f, rows[j]), FillOf(f, rows[j]), lit(rows[j]), rows[j].site)]
       \o <<IF f.term = "ret" THEN Lir([k |-> "epilogue"], Fill, None, None) ELSE Lir([k |-> "trap", kind |-> f.term], Fill, None, None)>>

SumTo(ns, k) == FoldLeft(LAMBDA s, j : s + ns[j], 0, [j \in 1..k |-> j])
\* The sites of the tail, in the order of the stencils that own them.
TailOf(lir) == FlattenSeq([j \in DOMAIN lir |-> [s \in DOMAIN Sites(lir[j].body) |-> [kind |-> Sites(lir[j].body)[s], site |-> lir[j].site]]])
BrkPos(tailStart, g) == tailStart + 4 * (g - 1)
TrapRows(tail, tailStart) == [g \in DOMAIN tail |-> [pc |-> BrkPos(tailStart, g), kind |-> tail[g].kind, site |-> tail[g].site]]
\* Literals in the order of their first use, each once.
PoolOrder(lir) == FoldLeft(LAMBDA acc, l : IF l.lit = None \/ l.lit \in ToSet(acc) THEN acc ELSE Append(acc, l.lit), <<>>, lir)
FilledAt(l, start, firstSite, tailStart, litPos) ==
    LET sites == Sites(l.body)
        call == {w \in DOMAIN l.body : l.body[w].hole # <<>> /\ l.body[w].hole[2] \in RtSyms}
    IN [l.fill EXCEPT !.trap = [t \in TrapNames |-> IF t \in ToSet(sites)
                                   THEN BrkPos(tailStart, firstSite + CHOOSE k \in DOMAIN sites : sites[k] = t) - start ELSE 0],
                      !.lit = IF l.lit = None THEN 0 ELSE litPos[l.lit] - start,
                      !.call = IF call = {} THEN 0 ELSE 4 * ((CHOOSE w \in call : TRUE) - 1)]
CallsOf(l, start) ==
    LET ws == SelectSeq([w \in DOMAIN l.body |-> w], LAMBDA w : l.body[w].hole # <<>> /\ l.body[w].hole[2] \in RtSyms)
    IN [k \in DOMAIN ws |-> [offset |-> start + 4 * (ws[k] - 1), target |-> l.body[ws[k]].hole[2]]]
EmitWith(lir, f, name, starts, firsts, tail, tailStart, order) ==
    LET poolStart == tailStart + 4 * Len(tail)
        litPos == [l \in ToSet(order) |-> poolStart + SumTo([k \in DOMAIN order |-> Len(f.strings[order[k]])], (CHOOSE k \in DOMAIN order : order[k] = l) - 1)]
        fills == [j \in DOMAIN lir |-> FilledAt(lir[j], starts[j], firsts[j], tailStart, litPos)]
    IN [name |-> name, pool |-> FlattenSeq([k \in DOMAIN order |-> f.strings[order[k]]]),
        insts |-> FlattenSeq([j \in DOMAIN lir |-> Instantiate(lir[j].body, fills[j])]) \o [g \in DOMAIN tail |-> Body([k |-> "brk", kind |-> tail[g].kind])[1]],
        relocs |-> FlattenSeq([j \in DOMAIN lir |-> CallsOf(lir[j], starts[j])]),
        traps |-> TrapRows(tail, tailStart),
        err |-> IF \A j \in DOMAIN lir : AllFit(lir[j].body, fills[j]) THEN "" ELSE "TOO_LARGE"]
EmitLir(lir, f, name) ==
    LET sizes == [j \in DOMAIN lir |-> Len(lir[j].body)]
        counts == [j \in DOMAIN lir |-> Len(Sites(lir[j].body))]
    IN EmitWith(lir, f, name, [j \in DOMAIN lir |-> 4 * SumTo(sizes, j - 1)], [j \in DOMAIN lir |-> SumTo(counts, j - 1)],
                TailOf(lir), 4 * SumTo(sizes, Len(sizes)), PoolOrder(lir))
Refused(why) == [name |-> "", insts |-> <<>>, pool |-> <<>>, relocs |-> <<>>, traps |-> <<>>, err |-> why]
Compile(f, name) ==
    IF f.err # "" THEN Refused(f.err)
    ELSE IF Verify(f) # "" THEN Refused(Verify(f))
    ELSE IF FrameSize(Len(f.tys), Len(f.slots)) > MAX_FRAME THEN Refused("FRAME")
    ELSE EmitLir(Select(f), f, name)

-----------------------------------------------------------------------------
(* The runtime (rt) and the linker.                                        *)

Atom(name, insts, relocs) == [name |-> name, insts |-> insts, pool |-> <<>>, relocs |-> relocs, traps |-> <<>>, err |-> ""]
To(op, n, words, c) == I(op, ZR, n, ZR, words % (IF op \in {"b", "bl"} THEN 2^26 ELSE 2^19), c)
Push(n) == I("stp", FP, LR, SP, -n, "pre")
Pop(n) == I("ldp", FP, LR, SP, n, "post")
Return == Op3("ret", ZR, LR, ZR)
MainShim ==
    Atom("main", <<Push(16), Mov(FP, SP), To("bl", ZR, 0, ""), I("movz", 0, ZR, 0, 0, ""), Pop(16), Return>>,
         <<[offset |-> 8, target |-> "fors_main"]>>)
SYS_WRITE == 4
EINTR == 4
RtWrite ==
    Atom("write", <<Mov(3, 0), Mov(4, 1), Mov(5, 2),
        To("cbz", 5, 13, ""), Mov(0, 3), Mov(1, 4), Mov(2, 5), I("movz", 16, ZR, 0, SYS_WRITE, ""), Op3("svc", ZR, ZR, ZR),
        To("b.cond", ZR, 5, "cs"), To("cbz", 0, 6, ""), Op3("add", 4, 4, 0), Op3("sub", 5, 5, 0), To("b", ZR, -10, ""),
        CmpImm(0, EINTR), To("b.cond", ZR, -12, "eq"), Return>>, <<>>)
WriteUint ==
    Atom("write_uint", <<Push(48), Mov(FP, SP), OpI("addi", 4, SP, 40), Mov(5, 4), I("movz", 6, ZR, 0, 10, ""),
        Op3("udiv", 7, 0, 6), I("msub", 8, 7, 6, 0, ""), OpI("addi", 8, 8, 48), OpI("subi", 5, 5, 1), OpI("strb", 8, 5, 0),
        Mov(0, 7), To("cbnz", 0, -6, ""), I("movz", 0, ZR, 0, 1, ""), Mov(1, 5), Op3("sub", 2, 4, 5), To("bl", ZR, 0, ""),
        Pop(48), Return>>, <<[offset |-> 60, target |-> "write"]>>)
WriteLine ==
    Atom("write_line", <<Push(32), Mov(FP, SP), Mov(2, 1), Mov(1, 0), I("movz", 0, ZR, 0, 1, ""), To("bl", ZR, 0, ""),
        I("movz", 3, ZR, 0, 10, ""), OpI("strb", 3, SP, 16), I("movz", 0, ZR, 0, 1, ""), OpI("addi", 1, SP, 16),
        I("movz", 2, ZR, 0, 1, ""), To("bl", ZR, 0, ""), Pop(32), Return>>,
        <<[offset |-> 20, target |-> "write"], [offset |-> 44, target |-> "write"]>>)
RuntimeAtoms == <<MainShim, RtWrite, WriteUint, WriteLine>>

\* The bytes of an atom in units of four: instructions, then the pool padded.
DataUnits(pool) ==
    [u \in 1..(Len(pool) + 3) \div 4 |-> [op |-> "data", b |-> [k \in 1..4 |-> IF 4 * (u - 1) + k <= Len(pool) THEN pool[4 * (u - 1) + k] ELSE 0]]]
Units(atom) == atom.insts \o DataUnits(atom.pool)
AlignUp(n) == ((n + ATOM_ALIGN - 1) \div ATOM_ALIGN) * ATOM_ALIGN
Padding(n) == [u \in 1..(AlignUp(n) - n) \div 4 |-> [op |-> "data", b |-> <<0, 0, 0, 0>>]]
PlaceAtoms(atoms) ==
    FoldLeft(LAMBDA l, a : IF l.err # "" THEN l
                           ELSE IF a.name \in DOMAIN l.at THEN [l EXCEPT !.err = "DuplicateSymbol"]
                           ELSE [l EXCEPT !.at = [n \in DOMAIN @ \cup {a.name} |-> IF n = a.name THEN 4 * Len(l.text) ELSE l.at[n]],
                                          !.text = @ \o Units(a) \o Padding(4 * Len(Units(a)))],
             [text |-> <<>>, at |-> [n \in {} |-> 0], err |-> ""], atoms)
Relocate(l, a, r) ==
    LET site == l.at[a.name] + r.offset
        unit == site \div 4 + 1
    IN IF l.err # "" THEN l
       ELSE IF r.target \notin DOMAIN l.at THEN [l EXCEPT !.err = "UndefinedSymbol"]
       ELSE IF r.offset % 4 # 0 \/ r.offset + 4 > 4 * Len(Units(a)) THEN [l EXCEPT !.err = "BadReloc"]
       ELSE IF l.text[unit].op # "bl" THEN [l EXCEPT !.err = "BadReloc"]
       ELSE IF ~Within((l.at[r.target] - site) \div 4, 26) THEN [l EXCEPT !.err = "BranchOutOfRange"]
       ELSE [l EXCEPT !.text[unit].i = ((l.at[r.target] - site) \div 4) % 2^26]
Place(fors, runtime) ==
    LET atoms == runtime \o fors
        l == FoldLeft(LAMBDA acc, a : FoldLeft(LAMBDA acc2, r : Relocate(acc2, a, r), acc, a.relocs), PlaceAtoms(atoms), atoms)
    IN IF l.err = "" /\ "main" \notin DOMAIN l.at THEN [l EXCEPT !.err = "NoEntry"] ELSE l

-----------------------------------------------------------------------------
(* The machine the native code runs on, the kernel's write call, what the  *)
(* interpreter makes of the same declaration, and the declarations both    *)
(* are run on.                                                             *)

EXIT == 4092                                \* where main returns to
STACK == 4000
Sext(v, bits) == IF v >= 2^(bits - 1) THEN v - 2^bits ELSE v
Signed64(v) == Sext(v, Width("i64"))

Reg(m, r) == IF r = ZR THEN 0 ELSE IF r = SP THEN m.sp ELSE m.x[r]
Put(m, r, v) == IF r = ZR THEN m ELSE IF r = SP THEN [m EXCEPT !.sp = v % Word] ELSE [m EXCEPT !.x[r] = v % Word]
Holds(f, c) ==
    CASE c = "eq" -> f.z [] c = "ne" -> ~f.z [] c = "cs" -> f.c [] c = "cc" -> ~f.c [] c = "vs" -> f.v [] c = "vc" -> ~f.v
      [] c = "hi" -> f.c /\ ~f.z [] c = "ls" -> ~(f.c /\ ~f.z) [] c = "ge" -> f.n = f.v [] c = "lt" -> f.n # f.v
      [] c = "gt" -> ~f.z /\ f.n = f.v [] c = "le" -> ~(~f.z /\ f.n = f.v)
\* The flags of x + y + carry, as the manual's AddWithCarry has them.
FlagsOf(x, y, carry) ==
    LET r == (x + y + carry) % Word
    IN [n |-> Signed64(r) < 0, z |-> r = 0, c |-> x + y + carry >= Word, v |-> Signed64(x) + Signed64(y) + carry # Signed64(r)]
Flagged(m, d, x, y, carry) == Put([m EXCEPT !.f = FlagsOf(x, y, carry)], d, x + y + carry)
Not(v) == Word - 1 - v
Bit(v, k) == (v \div 2^k) % 2
Bitwise(op, x, y) ==
    LET bits == [k \in 0..Width("u64") - 1 |-> LET a == Bit(x, k) b == Bit(y, k)
                                             IN IF CASE op = "and" -> a + b = 2 [] op = "orr" -> a + b > 0 [] OTHER -> a # b THEN 2^k ELSE 0]
    IN FoldFunction(+, 0, bits)
Extended(op, v, w) == IF op = "sxt" THEN Sext(v % 2^w, w) % Word ELSE v % 2^w
Asr(v, k) == (Signed64(v) \div 2^k) % Word

\* Eight bytes at an address; a byte stored into them leaves them unreadable.
Load(m, a) == IF a \in DOMAIN m.mem THEN m.mem[a] ELSE -1
StoreSlot(m, a, v) == [m EXCEPT !.mem = (a :> v) @@ @]
StoreByte(m, a, v) ==
    [m EXCEPT !.bytes = (a :> v % 256) @@ @, !.mem = [s \in {s \in DOMAIN m.mem : ~(s <= a /\ a < s + 8)} |-> m.mem[s]]]
Wild(m) == [m EXCEPT !.end = "wild"]
LoadTo(m, r, a) == IF Load(m, a) = -1 THEN Wild(m) ELSE Put(m, r, Load(m, a))
Jump(m, to) == [m EXCEPT !.pc = to]
Branch(m, i, bits, taken) == Jump(m, IF taken THEN m.pc + 4 * Sext(i.i, bits) ELSE m.pc + 4)

\* What an instruction other than a branch leaves in the registers.
Alu(m, i, n, r) ==
    CASE i.op = "mov" -> Put(m, i.d, n)
      [] i.op = "movz" -> Put(m, i.d, i.i * 2^(HALF * i.m))
      [] i.op = "movn" -> Put(m, i.d, Not((i.i * 2^(HALF * i.m)) % Word))
      [] i.op = "movk" -> Put(m, i.d, Reg(m, i.d) - ((Reg(m, i.d) \div 2^(HALF * i.m)) % 2^HALF) * 2^(HALF * i.m) + i.i * 2^(HALF * i.m))
      [] i.op = "add" -> Put(m, i.d, n + r)
      [] i.op = "sub" -> Put(m, i.d, n - r)
      [] i.op = "addi" -> Put(m, i.d, n + i.i)
      [] i.op = "subi" -> Put(m, i.d, n - i.i)
      [] i.op = "adds" -> Flagged(m, i.d, n, r, 0)
      [] i.op = "subs" -> Flagged(m, i.d, n, Not(IF i.i = 0 THEN r ELSE Asr(r, i.i)), 1)
      [] i.op = "addsi" -> Flagged(m, i.d, n, i.i, 0)
      [] i.op = "subsi" -> Flagged(m, i.d, n, Not(i.i), 1)
      [] i.op = "cmpx" -> Flagged(m, ZR, n, Not(Extended(i.c, r, i.i)), 1)
      [] i.op \in {"and", "orr", "eor"} -> Put(m, i.d, Bitwise(i.op, n, r))
      [] i.op = "eori" -> Put(m, i.d, Bitwise("eor", n, i.i))
      [] i.op = "orn" -> Put(m, i.d, Bitwise("orr", n, Not(r)))
      [] i.op = "mul" -> Put(m, i.d, n * r)
      [] i.op = "umulh" -> Put(m, i.d, (n * r) \div Word)
      [] i.op = "smulh" -> Put(m, i.d, (Signed64(n) * Signed64(r)) \div Word)
      [] i.op = "udiv" -> Put(m, i.d, IF r = 0 THEN 0 ELSE n \div r)
      [] i.op = "sdiv" -> Put(m, i.d, IF r = 0 THEN 0 ELSE Quotient(Signed64(n), Signed64(r)))
      [] i.op = "msub" -> Put(m, i.d, Reg(m, i.i) - n * r)
      [] i.op = "csel" -> Put(m, i.d, IF Holds(m.f, i.c) THEN n ELSE r)
      [] i.op = "csinv" -> Put(m, i.d, IF Holds(m.f, i.c) THEN n ELSE Not(r))
      [] i.op = "cset" -> Put(m, i.d, IF Holds(m.f, i.c) THEN 1 ELSE 0)
      [] i.op = "asri" -> Put(m, i.d, Asr(n, i.i))
      [] i.op = "lslv" -> Put(m, i.d, n * 2^(r % Width("u64")))
      [] i.op = "lsrv" -> Put(m, i.d, n \div 2^(r % Width("u64")))
      [] i.op = "asrv" -> Put(m, i.d, Asr(n, r % Width("u64")))
      [] i.op \in {"sxt", "uxt"} -> Put(m, i.d, Extended(i.op, n, i.i))
      [] i.op = "adr" -> Put(m, i.d, m.pc + Sext(i.i, 21))
      [] i.op = "ldr" -> LoadTo(m, i.d, n + 8 * i.i)
      [] i.op = "str" -> StoreSlot(m, n + 8 * i.i, Reg(m, i.d))
      [] i.op = "strb" -> StoreByte(m, n + i.i, Reg(m, i.d))
      [] i.op = "stp" -> StoreSlot(StoreSlot([m EXCEPT !.sp = @ + i.i], m.sp + i.i, m.x[i.d]), m.sp + i.i + 8, m.x[i.n])
      [] i.op = "ldp" -> LoadTo(LoadTo([m EXCEPT !.sp = @ + i.i], i.d, m.sp), i.n, m.sp + 8)
Fetch(text, pc) == IF pc % 4 = 0 /\ pc \div 4 < Len(text) THEN text[pc \div 4 + 1] ELSE [op |-> "data"]
Execute(m, i) ==
    CASE i.op = "data" -> Wild(m)
      [] i.op = "b.cond" -> Branch(m, i, 19, Holds(m.f, i.c))
      [] i.op = "cbz" -> Branch(m, i, 19, Reg(m, i.n) = 0)
      [] i.op = "cbnz" -> Branch(m, i, 19, Reg(m, i.n) # 0)
      [] i.op = "tbnz" -> Branch(m, i, 14, Bit(Reg(m, i.n), i.m) = 1)
      [] i.op = "b" -> Branch(m, i, 26, TRUE)
      [] i.op = "bl" -> Branch(Put(m, LR, m.pc + 4), i, 26, TRUE)
      [] i.op = "ret" -> IF Reg(m, i.n) = EXIT THEN [m EXCEPT !.end = "exit"] ELSE Jump(m, Reg(m, i.n))
      [] i.op = "brk" -> [m EXCEPT !.end = i.c]
      [] i.op = "svc" -> [m EXCEPT !.end = "svc"]
      [] OTHER -> Alu([m EXCEPT !.pc = @ + 4], IF i.op = "adr" THEN [i EXCEPT !.i = (@ - 4) % 2^21] ELSE i, Reg(m, i.n), Reg(m, i.m))
\* Runs until the program ends or calls the kernel.
RECURSIVE RunOn(_, _)
RunOn(text, m) == IF m.end # "" THEN m ELSE RunOn(text, Execute(m, Fetch(text, m.pc)))

Machine(pc) ==
    [x |-> [r \in 0..30 |-> IF r = LR THEN EXIT ELSE 0], sp |-> STACK, pc |-> pc, end |-> "", out |-> <<>>,
     f |-> [n |-> FALSE, z |-> FALSE, c |-> FALSE, v |-> FALSE], mem |-> <<>>, bytes |-> <<>>]
ByteAt(text, m, a) ==
    IF a \in DOMAIN m.bytes THEN m.bytes[a] ELSE LET u == Fetch(text, a - (a % 4)) IN IF u.op = "data" /\ "b" \in DOMAIN u THEN u.b[(a % 4) + 1] ELSE -1
\* The kernel takes n of the bytes asked for, or is interrupted, or fails; what
\* it leaves in x1 is its own affair.
Answer(m, x0, carry) == [m EXCEPT !.end = "", !.pc = @ + 4, !.x[0] = x0, !.x[1] = 0, !.f.c = carry]
Takes(text, m, n) ==
    LET out == [k \in 1..n |-> ByteAt(text, m, m.x[1] + k - 1)]
    IN IF m.x[0] # 1 \/ m.x[16] # SYS_WRITE THEN Wild(m) ELSE Answer([m EXCEPT !.out = @ \o out], n, FALSE)
Interrupted(m) == Answer(m, EINTR, TRUE)
Fails(m) == Answer(m, 9, TRUE)

-----------------------------------------------------------------------------
(* One stencil on the operands of its kind, against the interpreter.       *)

Samples(k) ==
    {v \in {Narrow(b, k) : b \in {Lo(k), Lo(k) + 1, -1, 0, 1, 2, 5, 31, 32, 45, 63, 64, 90, Hi(k) - 1, Hi(k)}} : TRUE}
StencilText(key) ==
    LET b == Body(key)
        s == Sites(b)
        fill == [Fill EXCEPT !.slot = [a |-> 0, b |-> 8, dst |-> 16],
                             !.trap = [t \in TrapNames |-> IF t \in ToSet(s) THEN 4 * (Len(b) + CHOOSE k \in DOMAIN s : s[k] = t) ELSE 0]]
    IN Instantiate(b, fill) \o <<Return>> \o [k \in DOMAIN s |-> Body([k |-> "brk", kind |-> s[k]])[1]]
Stencil(text, a, b) == RunOn(text, [Machine(0) EXCEPT !.sp = STACK, !.mem = (STACK :> a) @@ (STACK + 8 :> b)])
Got(m) == IF m.end = "exit" THEN Ok(m.mem[STACK + 16]) ELSE Err(m.end)
CanonicalResult(r, k) == IF r.trap = "" THEN Ok(Canonical(r.v, k)) ELSE r
CountKinds(e) == {k \in IntKinds : RawExt(k) = e /\ (e # 0 \/ k \in {"u64", "u8"})}
\* The operands of a stencil: two patterns and their kinds.
Operands(key) ==
    CASE key.k = "bin" -> Samples(key.ty) \X Samples(key.ty) \X {<<key.ty, key.ty>>}
      [] key.k = "shift" -> UNION {Samples(key.ty) \X Samples(kb) \X {<<key.ty, kb>>} : kb \in CountKinds(key.count)}
      [] key.k \in {"neg", "not"} -> Samples(key.ty) \X {0} \X {<<key.ty, "u8">>}
      [] key.k = "logic" -> UNION {Samples(k) \X Samples(k) \X {<<k, k>>} : k \in IntKinds}
      [] key.k = "icmp" -> UNION {Samples(k) \X Samples(k) \X {<<k, k>>} : k \in {j \in IntKinds : Signed(j) = key.signed}}
      [] key.k = "conv" -> Samples(key.from) \X {0} \X {<<key.from, "u8">>}
StencilResults(key, text) == [p \in Operands(key) |-> Got(Stencil(text, Canonical(p[1], p[3][1]), Canonical(p[2], p[3][2])))]
\* What the interpreter makes of the same operands.
MeantBits(key, a, b, k) ==
    CASE key.k \in {"bin", "shift"} -> IntBinop(key.op, key.mode, a, b, key.ty)
      [] key.k = "neg" -> IntNeg(key.mode, a, key.ty)
      [] key.k = "not" -> Ok(Narrow(Not(a), key.ty))
      [] key.k = "logic" -> Ok(Narrow(Bitwise(key.op, a, b), k))
      [] key.k = "icmp" -> Ok(IF Icmp(a, b, k, key.pred) THEN 1 ELSE 0)
      [] key.k = "conv" -> CASE key.op = "checked" -> ConvCheckedInt(a, key.from, key.to)
                             [] key.op = "wrap" -> Ok(ConvWrapInt(a, key.from, key.to))
                             [] OTHER -> Ok(ConvSatInt(a, key.from, key.to))
ResultKind(key, k) == CASE key.k = "conv" -> key.to [] key.k = "icmp" -> "u64" [] OTHER -> k
Meant(key, p) == CanonicalResult(MeantBits(key, p[1], p[2], p[3][1]), ResultKind(key, p[3][1]))

-----------------------------------------------------------------------------
(* Declarations, as the interpreter runs them.                             *)

Plain(op, mode, ty, a, b) == [op |-> op, mode |-> mode, ty |-> ty, a |-> a, b |-> b, def |-> TRUE, secret |-> FALSE, ct |-> "pub"]
Const(ty, v) == Plain("const_int", "", ty, v, 0)
Unit == Plain("const_unit", "", "unit", 0, 0)
Str(bytes) == Plain("const_str", "", "str", bytes, 0)
PlaceOf(root, ty) == [root |-> root, ty |-> ty, segs |-> 0, seed |-> "own"]
Init0(root, ty, v) == [Plain("init", "", "unit", PlaceOf(root, ty), v) EXCEPT !.def = FALSE]
Copy(root, ty) == Plain("copy_from", "", ty, PlaceOf(root, ty), 0)
Show(v) == Plain("intrinsic", "write_uint", "unit", 1, v)
Line(v) == Plain("intrinsic", "write_line", "unit", 1, v)
Decl(insts) == [blocks |-> 1, params |-> FALSE, insts |-> <<Unit>> \o insts, term |-> [op |-> "ret", a |-> 0]]

RECURSIVE Digits(_)
Digits(v) == IF v < 10 THEN <<48 + v>> ELSE Append(Digits(v \div 10), 48 + (v % 10))
Step(s, d, n) ==
    LET i == d.insts[n]
        kind == i.ty
        with(r) == IF r.trap # "" THEN [s EXCEPT !.end = r.trap, !.at = n] ELSE [s EXCEPT !.v[n] = r.v, !.ty[n] = i.ty]
    IN CASE s.end # "" -> s
         [] i.op = "const_int" -> with(Ok(Narrow(i.a, kind)))
         [] i.op = "const_bool" -> with(Ok(i.a))
         [] i.op \in {"const_unit", "const_str"} -> s
         [] i.op = "neg" -> with(IntNeg(i.mode, s.v[i.a], kind))
         [] i.op = "not" -> with(Ok(IF kind = "bool" THEN 1 - s.v[i.a] ELSE Narrow(Not(s.v[i.a]), kind)))
         [] i.op \in {"and", "orr", "eor"} -> with(Ok(Bitwise(i.op, s.v[i.a], s.v[i.b])))
         [] i.op = "icmp" -> with(Ok(IF Icmp(s.v[i.a], s.v[i.b], s.ty[i.a], i.mode) THEN 1 ELSE 0))
         [] i.op = "conv" -> with(CASE i.mode = "checked" -> ConvCheckedInt(s.v[i.a], s.ty[i.a], kind)
                                    [] i.mode = "wrap" -> Ok(ConvWrapInt(s.v[i.a], s.ty[i.a], kind))
                                    [] OTHER -> Ok(ConvSatInt(s.v[i.a], s.ty[i.a], kind)))
         [] i.op = "copy_from" -> with(Ok(s.at0[i.a.root]))
         [] i.op = "init" -> [s EXCEPT !.at0 = (i.a.root :> s.v[i.b]) @@ @]
         [] i.op = "intrinsic" -> [s EXCEPT !.out = @ \o (IF i.mode = "write_uint" THEN Digits(s.v[i.b]) ELSE Append(d.insts[i.b].a, 10))]
         [] OTHER -> with(IntBinop(i.op, i.mode, s.v[i.a], s.v[i.b], kind))
Meaning(d) ==
    LET s == FoldLeft(LAMBDA acc, n : IF acc.end = "" THEN Step(acc, d, n) ELSE acc,
                 [v |-> [n \in DOMAIN d.insts |-> 0], ty |-> [n \in DOMAIN d.insts |-> "unit"], at0 |-> <<>>, out |-> <<>>, end |-> "", at |-> 0],
                 [n \in DOMAIN d.insts |-> n])
    IN IF s.end # "" THEN s ELSE [s EXCEPT !.end = IF d.term.op = "trap" THEN d.term.a ELSE "exit"]

Binary(op, mode, ty, x, y) == Decl(<<Const(ty, x), Const(ty, y), Plain(op, mode, ty, 2, 3), Show(4)>>)
Carried == <<
    Binary("add", "trap", "u8", 3, 1), Binary("add", "trap", "i64", 2000, 40), Binary("div", "trap", "i32", 33, 0), Binary("sub", "sat", "u64", 3, 700),
    Binary("mul", "wrap", "i16", 7, 5), Decl(<<>>),
    [Decl(<<Str(<<111, 107>>), Line(2), Const("u64", 4095), Show(4), Str(<<104, 105, 33>>), Line(6), Line(2)>>) EXCEPT !.term = [op |-> "trap", a |-> "overflow"]],
    Decl(<<Const("i8", 4095), Init0(7, "i8", 2), Const("i8", 1), Init0(9, "i8", 4), Copy(7, "i8"), Copy(9, "i8"), Plain("shl", "trap", "i8", 6, 7),
           Show(8), Init0(7, "i8", 8), Copy(7, "i8"), Plain("conv", "checked", "u32", 11, 0), Show(12)>>),
    Decl(<<Const("u32", 40), Const("u32", 41), Plain("icmp", "lt", "bool", 2, 3), Plain("not", "", "bool", 4, 0), Show(5), Plain("conv", "sat", "i8", 3, 0),
           Plain("neg", "sat", "i8", 7, 0), Plain("icmp", "ge", "bool", 7, 8), Show(8), Show(9), Plain("eor", "", "bool", 4, 9), Show(12)>>)>>
Uncarried == <<
    [Decl(<<>>) EXCEPT !.blocks = 2], [Decl(<<>>) EXCEPT !.params = TRUE], [Decl(<<Const("u8", 1)>>) EXCEPT !.term = [op |-> "ret", a |-> 2]],
    [Decl(<<>>) EXCEPT !.term = [op |-> "br", a |-> 0]],
    Decl(<<Const("f64", 1)>>), Decl(<<Const("secret", 1)>>), Decl(<<[Const("u8", 1) EXCEPT !.secret = TRUE]>>), Decl(<<Const("u8", 1), Show(3)>>),
    Decl(<<Const("u8", 1), Const("u16", 1), Plain("add", "trap", "u8", 2, 3)>>), Decl(<<Const("u8", 1), Plain("add", "unchecked", "u8", 2, 2)>>),
    Decl(<<Const("u8", 1), Plain("neg", "trap", "u8", 2, 0)>>), Decl(<<Str(<<1>>), Show(2)>>), Decl(<<Str(<<1>>), Plain("not", "", "str", 2, 0)>>),
    Decl(<<[Copy(1, "u8") EXCEPT !.a.segs = 1]>>), Decl(<<[Copy(1, "u8") EXCEPT !.a.seed = "split"]>>), Decl(<<Const("u8", 1), Init0(1, "u16", 2)>>),
    Decl(<<Plain("intrinsic", "spawn", "unit", 1, 1)>>), Decl(<<Plain("call", "", "unit", 1, 1)>>), Decl(<<[Const("u8", 1) EXCEPT !.ct = "unspecified"]>>)>>
Compiled(d) == Compile(FromFmir(d), "fors_main")
NotStarted == [text |-> <<>>, m |-> [end |-> "none"], at |-> 0, traps |-> <<>>, failed |-> FALSE]
Ran(l, traps) == [text |-> l.text, m |-> RunOn(l.text, Machine(l.at["main"])), at |-> l.at["fors_main"], traps |-> traps, failed |-> FALSE]
LoadedAtom(a) == Ran(Place(<<a>>, RuntimeAtoms), a.traps)
Loaded(d) == LoadedAtom(Compiled(d))
Served(s) == {Takes(s.text, s.m, n) : n \in 1..s.m.x[2]} \cup {Interrupted(s.m), Fails(s.m)}
Resumed(s, m) == [s EXCEPT !.m = RunOn(s.text, m), !.failed = @ \/ m = Fails(s.m)]

\* The image ends as the interpreter does, at the breakpoint of the
\* instruction that traps, and has written what it writes.
RanAlike(meant, s) ==
    /\ s.m.end = meant.end
    /\ ~s.failed => s.m.out = meant.out
    /\ meant.end # "exit" => \E r \in ToSet(s.traps) : r.pc + s.at = s.m.pc /\ r.kind = meant.end /\ r.site = meant.at
    /\ meant.end = "exit" => s.m.sp = STACK /\ s.m.x[0] = 0

=============================================================================
