----------------------------- MODULE Assembler -----------------------------
(***************************************************************************)
(* The AArch64 assembler (fors-asm): operands and their range checks, the  *)
(* constructors of instructions with the registers they refuse, and the    *)
(* word each instruction becomes.  A word is the set of its bits that are  *)
(* 1, an operand is kept as the value it stands for, and `Accept` is what  *)
(* the constructors of a form check before they answer Ok.                 *)
(***************************************************************************)
EXTENDS Integers, Sequences, FiniteSets, SequencesExt

Bit(b) == IF b THEN 1 ELSE 0
OneBits(v) == {k \in 0..25 : (v \div 2^k) % 2 = 1}
At(v, shift) == {shift + k : k \in OneBits(v)}
Number(bits, lo, hi) == LET n[k \in (lo - 1)..hi] == IF k < lo THEN 0 ELSE n[k - 1] + (IF k \in bits THEN 2^(k - lo) ELSE 0) IN n[hi]

(* Registers: number 31 is the stack pointer or the zero register.         *)
Reg(num, is64) == [num |-> num, is64 |-> is64, sp |-> FALSE]
Sp(is64) == [num |-> 31, is64 |-> is64, sp |-> TRUE]
Zr(is64) == Reg(31, is64)
IsSp(r) == r.num = 31 /\ r.sp
IsZr(r) == r.num = 31 /\ ~r.sp
SameWidth(regs) == \A r, s \in regs : r.is64 = s.is64
NoSp(regs) == \A r \in regs : ~IsSp(r)
Fp(num, double) == [num |-> num, double |-> double]
SameFp(regs) == \A r, s \in regs : r.double = s.double

-----------------------------------------------------------------------------
(* Operands.                                                               *)

Signed(v, bits) == v \in -(2^(bits - 1))..(2^(bits - 1) - 1)
Field(v, bits) == v % 2^bits
Inverted(cond) == IF cond % 2 = 0 THEN cond + 1 ELSE cond - 1
ShiftCode == [lsl |-> 0, lsr |-> 1, asr |-> 2, ror |-> 3]
ShiftOk(amount, is64) == amount <= (IF is64 THEN 63 ELSE 31)
ExtendCode == [uxtb |-> 0, uxth |-> 1, uxtw |-> 2, uxtx |-> 3, sxtb |-> 4, sxth |-> 5, sxtw |-> 6, sxtx |-> 7]
ExtendOk(amount) == amount <= 4
Uimm12Ok(v) == v <= 4095 \/ (v % 4096 = 0 /\ v \div 4096 <= 4095)
Uimm12(v) == IF v <= 4095 THEN [raw |-> v, shift12 |-> FALSE] ELSE [raw |-> v \div 4096, shift12 |-> TRUE]
BranchOk(bytes, bits) == bytes % 4 = 0 /\ Signed(bytes \div 4, bits)
BranchField(bytes, bits) == Field(bytes \div 4, bits)
AdrOk(v) == Signed(v, 21)
AdrFields(v) == [lo |-> Field(v, 21) % 4, hi |-> Field(v, 21) \div 4]
Simm9Ok(v) == Signed(v, 9)
UScaledOk(bytes, size) == bytes >= 0 /\ bytes % size = 0 /\ bytes \div size <= 4095
SImm7Ok(bytes, size) == bytes % size = 0 /\ Signed(bytes \div size, 7)

(* Bitmask immediates: a value is the set of its bits.                     *)
HighestBit(v) == CHOOSE k \in 0..6 : v \div 2^k = 1
Ror(x, amount, width) == {(k - amount) % width : k \in x}
Replicate(x, width, total) == {k \in 0..(total - 1) : k % width \in x}
NoMask == {-1}
DecodeBitmask(n, immr, imms, regSize) ==
    LET concat == n * 64 + (63 - imms) IN
    IF concat < 2 \/ 2^HighestBit(concat) > regSize THEN NoMask
    ELSE LET size == 2^HighestBit(concat)
             s == imms % size
         IN IF s = size - 1 THEN NoMask ELSE Replicate(Ror(0..s, immr % size, size), size, regSize)

\* The first of the encodings the search finds, 64-bit elements first.
Decoded == [size \in {32, 64} |-> [t \in (IF size = 64 THEN {0, 1} ELSE {0}) \X (0..63) \X (0..63) |-> DecodeBitmask(t[1], t[2], t[3], size)]]
EncodeBitmask(value, regSize) ==
    LET found == {t \in DOMAIN Decoded[regSize] : Decoded[regSize][t] = value}
        Before(t, u) == t[1] > u[1] \/ (t[1] = u[1] /\ (t[2] < u[2] \/ (t[2] = u[2] /\ t[3] <= u[3])))
    IN IF value = {} \/ value = 0..(regSize - 1) THEN {}
       ELSE {t \in found : \A u \in found : Before(t, u)}

(* Floating-point immediates: eight bits stand for sign, exponent, fraction. *)
Expand(imm8, is64) ==
    LET b == (imm8 \div 64) % 2
        cd == (imm8 \div 16) % 4
    IN [sign |-> imm8 \div 128, frac |-> imm8 % 16,
        exp |-> IF is64 THEN (1 - b) * 1024 + b * 255 * 4 + cd ELSE (1 - b) * 128 + b * 31 * 4 + cd]

-----------------------------------------------------------------------------
(* The constructors: what each form checks.                                *)

LdStSize == [strb |-> <<0, 0>>, ldrb |-> <<0, 1>>, ldrsbx |-> <<0, 2>>, ldrsbw |-> <<0, 3>>, strh |-> <<1, 0>>, ldrh |-> <<1, 1>>,
             ldrshx |-> <<1, 2>>, ldrshw |-> <<1, 3>>, strw |-> <<2, 0>>, ldrw |-> <<2, 1>>, ldrsw |-> <<2, 2>>, strx |-> <<3, 0>>, ldrx |-> <<3, 1>>]
AccessSize(op) == 2^LdStSize[op][1]
RtIs64(op) == op \in {"ldrsbx", "ldrshx", "ldrsw", "strx", "ldrx"}
LdStExtend == [uxtw |-> 2, lsl |-> 3, sxtw |-> 6, sxtx |-> 7]
RegOffsetOk(rm, extend) == rm.is64 = (extend \in {"lsl", "sxtx"})
Writeback(mode) == mode \in {"pre", "post"}
ModeOk(m, size) ==
    CASE m.mode = "uoff" -> UScaledOk(m.imm, size)
      [] m.mode \in {"unscaled", "pre", "post"} -> Simm9Ok(m.imm)
      [] m.mode = "reg" -> RegOffsetOk(m.rm, m.extend)

AcceptMovWide(i) == i.shift <= (IF i.rd.is64 THEN 48 ELSE 16) /\ i.shift % 16 = 0
\* The zero register let through as the first operand, where 31 is SP.
AcceptAddSubImmLoose(i) == SameWidth({i.rd, i.rn}) /\ (IF i.flags THEN ~IsSp(i.rd) ELSE ~IsZr(i.rd)) /\ Uimm12Ok(i.imm)
AcceptAddSubImm(i) ==
    SameWidth({i.rd, i.rn}) /\ ~IsZr(i.rn) /\ (IF i.flags THEN ~IsSp(i.rd) ELSE ~IsZr(i.rd)) /\ Uimm12Ok(i.imm)
AcceptAddSubShifted(i) ==
    i.kind # "ror" /\ SameWidth({i.rd, i.rn, i.rm}) /\ NoSp({i.rd, i.rn, i.rm}) /\ ShiftOk(i.amount, i.rd.is64)
AcceptAddSubExtended(i) ==
    LET wide == i.kind \in {"uxtx", "sxtx"} IN
    ~IsSp(i.rm) /\ SameWidth({i.rd, i.rn}) /\ i.rm.is64 = wide /\ (wide => i.rd.is64) /\ ExtendOk(i.amount)
AcceptLogicalImm(i) ==
    /\ SameWidth({i.rd, i.rn}) /\ ~IsSp(i.rn) /\ (i.op = "ands" => ~IsSp(i.rd))
    /\ EncodeBitmask(i.imm, IF i.rd.is64 THEN 64 ELSE 32) # {}
AcceptLogicalShifted(i) ==
    SameWidth({i.rd, i.rn, i.rm}) /\ NoSp({i.rd, i.rn, i.rm}) /\ ShiftOk(i.amount, i.rd.is64)
AcceptBitfield(i) ==
    SameWidth({i.rd, i.rn}) /\ {i.immr, i.imms} \subseteq 0..(IF i.rd.is64 THEN 63 ELSE 31) /\ NoSp({i.rd, i.rn})
AcceptDataProc2(i) == SameWidth({i.rd, i.rn, i.rm}) /\ NoSp({i.rd, i.rn, i.rm})
AcceptDataProc3(i) ==
    IF i.op \in {"smulh", "umulh"} THEN i.rd.is64 /\ i.rn.is64 /\ i.rm.is64
    ELSE IF i.mul THEN SameWidth({i.rd, i.rn, i.rm})
    ELSE SameWidth({i.rd, i.rn, i.rm, i.ra}) /\ NoSp({i.rd, i.rn, i.rm, i.ra})
AcceptDataProc1(i) == SameWidth({i.rd, i.rn}) /\ NoSp({i.rd, i.rn})
AcceptCondSelect(i) == SameWidth({i.rd, i.rn, i.rm}) /\ NoSp({i.rd, i.rn, i.rm})
AcceptAdr(i) == i.rd.is64 /\ AdrOk(i.imm)
AcceptTestBranch(i) == i.bit <= (IF i.rt.is64 THEN 63 ELSE 31) /\ BranchOk(i.imm, 14)
AcceptBranchReg(i) == i.rn.is64
AcceptLoadStore(i) ==
    /\ i.rt.is64 = RtIs64(i.op) /\ ~IsZr(i.rn) /\ i.rn.is64 /\ ModeOk(i.m, AccessSize(i.op))
    /\ (Writeback(i.m.mode) => i.rt.num # i.rn.num)
AcceptPair(i) ==
    /\ SameWidth({i.rt1, i.rt2}) /\ i.rn.is64 /\ SImm7Ok(i.imm, IF i.rt1.is64 THEN 8 ELSE 4)
    /\ (Writeback(i.index) => i.rn.num \notin {i.rt1.num, i.rt2.num}) /\ (i.load => i.rt1.num # i.rt2.num)
AcceptFpLoadStore(i) == i.rn.is64 /\ ModeOk(i.m, IF i.rt.double THEN 8 ELSE 4)
AcceptFp(i) ==
    CASE i.form = "fp1" -> SameFp({i.rd, i.rn})
      [] i.form = "fcvt" -> i.rd.double # i.rn.double
      [] i.form = "fp2" -> SameFp({i.rd, i.rn, i.rm})
      [] i.form = "fcmp" -> SameFp({i.rn, i.rm})
      [] i.form = "fcsel" -> SameFp({i.rd, i.rn, i.rm})
      [] i.form = "fmadd" -> SameFp({i.rd, i.rn, i.rm, i.ra})
      [] i.form = "fmovimm" -> TRUE
      [] i.form = "fptogp" -> i.rd.is64 = i.rn.double
      [] i.form = "gptofp" -> i.rd.double = i.rn.is64
      [] i.form = "fpint" -> TRUE

Accept(i) ==
    CASE i.form = "movwide" -> AcceptMovWide(i)
      [] i.form = "addsubimm" -> AcceptAddSubImm(i)
      [] i.form = "addsubshift" -> AcceptAddSubShifted(i)
      [] i.form = "addsubext" -> AcceptAddSubExtended(i)
      [] i.form = "logimm" -> AcceptLogicalImm(i)
      [] i.form = "logshift" -> AcceptLogicalShifted(i)
      [] i.form = "bitfield" -> AcceptBitfield(i)
      [] i.form = "dp2" -> AcceptDataProc2(i)
      [] i.form = "dp3" -> AcceptDataProc3(i)
      [] i.form = "dp1" -> AcceptDataProc1(i)
      [] i.form = "csel" -> AcceptCondSelect(i)
      [] i.form = "adr" -> AcceptAdr(i)
      [] i.form = "b" -> BranchOk(i.imm, 26)
      [] i.form \in {"bcond", "cb"} -> BranchOk(i.imm, 19)
      [] i.form = "tb" -> AcceptTestBranch(i)
      [] i.form = "breg" -> AcceptBranchReg(i)
      [] i.form = "ldst" -> AcceptLoadStore(i)
      [] i.form = "pair" -> AcceptPair(i)
      [] i.form = "fpldst" -> AcceptFpLoadStore(i)
      [] i.form = "sys" -> TRUE
      [] OTHER -> AcceptFp(i)
-----------------------------------------------------------------------------
(* The words.                                                              *)

Sf(r) == At(Bit(r.is64), 31)
RdRn(rd, rn) == At(rn.num, 5) \cup At(rd.num, 0)
RdRnRm(rd, rn, rm) == At(rm.num, 16) \cup RdRn(rd, rn)
OpS(i) == Sf(i.rd) \cup At(Bit(i.op = "sub"), 30) \cup At(Bit(i.flags), 29)

EncMovWide(i) ==
    Sf(i.rd) \cup At([movn |-> 0, movz |-> 2, movk |-> 3][i.op], 29) \cup At(37, 23) \cup At(i.shift \div 16, 21)
    \cup At(i.imm, 5) \cup At(i.rd.num, 0)
EncAddSubImm(i) ==
    OpS(i) \cup At(34, 23) \cup At(Bit(Uimm12(i.imm).shift12), 22) \cup At(Uimm12(i.imm).raw, 10) \cup RdRn(i.rd, i.rn)
EncAddSubShifted(i) ==
    OpS(i) \cup At(11, 24) \cup At(ShiftCode[i.kind], 22) \cup At(i.amount, 10) \cup RdRnRm(i.rd, i.rn, i.rm)
EncAddSubExtended(i) ==
    OpS(i) \cup At(11, 24) \cup At(1, 21) \cup At(ExtendCode[i.kind], 13) \cup At(i.amount, 10) \cup RdRnRm(i.rd, i.rn, i.rm)
EncLogicalImm(i) ==
    LET t == CHOOSE t \in EncodeBitmask(i.imm, IF i.rd.is64 THEN 64 ELSE 32) : TRUE IN
    Sf(i.rd) \cup At([and |-> 0, orr |-> 1, eor |-> 2, ands |-> 3][i.op], 29) \cup At(36, 23)
    \cup UNION {At(t[1], 22), At(t[2], 16), At(t[3], 10)} \cup RdRn(i.rd, i.rn)
LogicalOpc == [and |-> <<0, 0>>, bic |-> <<0, 1>>, orr |-> <<1, 0>>, orn |-> <<1, 1>>, eor |-> <<2, 0>>, eon |-> <<2, 1>>,
               ands |-> <<3, 0>>, bics |-> <<3, 1>>]
EncLogicalShifted(i) ==
    Sf(i.rd) \cup At(LogicalOpc[i.op][1], 29) \cup At(10, 24) \cup At(ShiftCode[i.kind], 22) \cup At(LogicalOpc[i.op][2], 21)
    \cup At(i.amount, 10) \cup RdRnRm(i.rd, i.rn, i.rm)
EncBitfield(i) ==
    Sf(i.rd) \cup At([sbfm |-> 0, bfm |-> 1, ubfm |-> 2][i.op], 29) \cup At(38, 23) \cup At(Bit(i.rd.is64), 22)
    \cup At(i.immr, 16) \cup At(i.imms, 10) \cup RdRn(i.rd, i.rn)
EncDataProc2(i) ==
    Sf(i.rd) \cup At(214, 21) \cup At([udiv |-> 2, sdiv |-> 3, lslv |-> 8, lsrv |-> 9, asrv |-> 10, rorv |-> 11][i.op], 10)
    \cup RdRnRm(i.rd, i.rn, i.rm)
EncDataProc3(i) ==
    LET o == [madd |-> <<0, 0>>, msub |-> <<0, 1>>, smulh |-> <<2, 0>>, umulh |-> <<6, 0>>][i.op] IN
    Sf(i.rd) \cup At(27, 24) \cup At(o[1], 21) \cup At(o[2], 15) \cup At(i.ra.num, 10) \cup RdRnRm(i.rd, i.rn, i.rm)
EncDataProc1(i) ==
    Sf(i.rd) \cup At(1, 30) \cup At(214, 21)
    \cup At([rbit |-> 0, clz |-> 4, rev |-> IF i.rd.is64 THEN 3 ELSE 2][i.op], 10) \cup RdRn(i.rd, i.rn)
EncCondSelect(i) ==
    LET o == [csel |-> <<0, 0>>, csinc |-> <<0, 1>>, csinv |-> <<1, 0>>, csneg |-> <<1, 1>>][i.op] IN
    Sf(i.rd) \cup At(o[1], 30) \cup At(212, 21) \cup At(i.cond, 12) \cup At(o[2], 10) \cup RdRnRm(i.rd, i.rn, i.rm)
EncAdr(i) ==
    At(Bit(i.page), 31) \cup At(AdrFields(i.imm).lo, 29) \cup At(16, 24) \cup At(AdrFields(i.imm).hi, 5) \cup At(i.rd.num, 0)
EncBranches(i) ==
    CASE i.form = "b" -> At(Bit(i.link), 31) \cup At(5, 26) \cup At(BranchField(i.imm, 26), 0)
      [] i.form = "bcond" -> At(42, 25) \cup At(BranchField(i.imm, 19), 5) \cup At(i.cond, 0)
      [] i.form = "cb" -> Sf(i.rt) \cup At(26, 25) \cup At(Bit(i.nz), 24) \cup At(BranchField(i.imm, 19), 5) \cup At(i.rt.num, 0)
      [] i.form = "tb" -> At(i.bit \div 32, 31) \cup At(27, 25) \cup At(Bit(i.nz), 24) \cup At(i.bit % 32, 19)
                          \cup At(BranchField(i.imm, 14), 5) \cup At(i.rt.num, 0)
      [] i.form = "breg" -> At([br |-> 54815, blr |-> 54847, ret |-> 54879][i.op], 16) \cup At(i.rn.num, 5)
EncLoadStoreCommon(size, v, opc, access, rt, rn, m) ==
    At(size, 30) \cup At(7, 27) \cup At(v, 26) \cup At(opc, 22) \cup RdRn(rt, rn) \cup
    CASE m.mode = "uoff" -> At(1, 24) \cup At(m.imm \div access, 10)
      [] m.mode = "unscaled" -> At(Field(m.imm, 9), 12)
      [] m.mode = "post" -> At(Field(m.imm, 9), 12) \cup At(1, 10)
      [] m.mode = "pre" -> At(Field(m.imm, 9), 12) \cup At(3, 10)
      [] m.mode = "reg" -> At(1, 21) \cup At(m.rm.num, 16) \cup At(LdStExtend[m.extend], 13) \cup At(Bit(m.shifted), 12) \cup At(2, 10)
EncPair(i) ==
    At(IF i.rt1.is64 THEN 2 ELSE 0, 30) \cup At(5, 27) \cup At([post |-> 1, offset |-> 2, pre |-> 3][i.index], 23)
    \cup At(Bit(i.load), 22) \cup At(Field(i.imm \div (IF i.rt1.is64 THEN 8 ELSE 4), 7), 15) \cup At(i.rt2.num, 10)
    \cup RdRn(i.rt1, i.rn)
EncSystem(i) ==
    CASE i.op = "nop" -> At(54531, 16) \cup At(8223, 0)
      [] i.op = "brk" -> At(54304, 16) \cup At(i.imm, 5)
      [] i.op = "svc" -> At(54272, 16) \cup At(1, 0) \cup At(i.imm, 5)
      [] i.op = "udf" -> At(i.imm, 0)

FpWord(r) == At(30, 24) \cup At(Bit(r.double), 22) \cup At(1, 21)
EncFp1(i) ==
    FpWord(i.rd) \cup At([fmov |-> 0, fabs |-> 1, fneg |-> 2, fsqrt |-> 3][i.op], 15) \cup At(16, 10) \cup RdRn(i.rd, i.rn)
EncFpConvert(i) ==
    At(30, 24) \cup At(IF i.rd.double THEN 0 ELSE 1, 22) \cup At(1, 21) \cup At(IF i.rd.double THEN 5 ELSE 4, 15)
    \cup At(16, 10) \cup RdRn(i.rd, i.rn)
EncFp2(i) ==
    FpWord(i.rd) \cup At([fmul |-> 0, fdiv |-> 1, fadd |-> 2, fsub |-> 3][i.op], 12) \cup At(2, 10) \cup RdRnRm(i.rd, i.rn, i.rm)
EncFpCompare(i) == FpWord(i.rn) \cup At(i.rm.num, 16) \cup At(8, 10) \cup At(i.rn.num, 5)
EncFpSelect(i) == FpWord(i.rd) \cup At(i.cond, 12) \cup At(3, 10) \cup RdRnRm(i.rd, i.rn, i.rm)
EncFpImm(i) == FpWord(i.rd) \cup At(i.imm8, 13) \cup At(4, 10) \cup At(i.rd.num, 0)
EncFpGp(i) ==
    CASE i.form = "fptogp" -> Sf(i.rd) \cup FpWord(i.rn) \cup At(6, 16) \cup RdRn(i.rd, i.rn)
      [] i.form = "gptofp" -> Sf(i.rn) \cup FpWord(i.rd) \cup At(7, 16) \cup RdRn(i.rd, i.rn)
EncFpInt(i) ==
    LET o == [scvtf |-> <<0, 2>>, ucvtf |-> <<0, 3>>, fcvtzs |-> <<3, 0>>, fcvtzu |-> <<3, 1>>][i.op] IN
    Sf(i.gp) \cup FpWord(i.fp) \cup At(o[1], 19) \cup At(o[2], 16)
    \cup (IF i.op \in {"scvtf", "ucvtf"} THEN RdRn(i.fp, i.gp) ELSE RdRn(i.gp, i.fp))
EncFpMadd(i) == At(31, 24) \cup At(Bit(i.rd.double), 22) \cup At(i.ra.num, 10) \cup RdRnRm(i.rd, i.rn, i.rm)

Encode(i) ==
    CASE i.form = "movwide" -> EncMovWide(i)
      [] i.form = "addsubimm" -> EncAddSubImm(i)
      [] i.form = "addsubshift" -> EncAddSubShifted(i)
      [] i.form = "addsubext" -> EncAddSubExtended(i)
      [] i.form = "logimm" -> EncLogicalImm(i)
      [] i.form = "logshift" -> EncLogicalShifted(i)
      [] i.form = "bitfield" -> EncBitfield(i)
      [] i.form = "dp2" -> EncDataProc2(i)
      [] i.form = "dp3" -> EncDataProc3(i)
      [] i.form = "dp1" -> EncDataProc1(i)
      [] i.form = "csel" -> EncCondSelect(i)
      [] i.form = "adr" -> EncAdr(i)
      [] i.form \in {"b", "bcond", "cb", "tb", "breg"} -> EncBranches(i)
      [] i.form = "ldst" -> EncLoadStoreCommon(LdStSize[i.op][1], 0, LdStSize[i.op][2], AccessSize(i.op), i.rt, i.rn, i.m)
      [] i.form = "fpldst" ->
            EncLoadStoreCommon(IF i.rt.double THEN 3 ELSE 2, 1, Bit(i.load), IF i.rt.double THEN 8 ELSE 4, i.rt, i.rn, i.m)
      [] i.form = "pair" -> EncPair(i)
      [] i.form = "sys" -> EncSystem(i)
      [] i.form = "fp1" -> EncFp1(i)
      [] i.form = "fcvt" -> EncFpConvert(i)
      [] i.form = "fp2" -> EncFp2(i)
      [] i.form = "fcmp" -> EncFpCompare(i)
      [] i.form = "fcsel" -> EncFpSelect(i)
      [] i.form = "fmovimm" -> EncFpImm(i)
      [] i.form \in {"fptogp", "gptofp"} -> EncFpGp(i)
      [] i.form = "fpint" -> EncFpInt(i)
      [] i.form = "fmadd" -> EncFpMadd(i)

-----------------------------------------------------------------------------
(* The aliases: each is an instruction of another form.                    *)

WidthOf(r) == IF r.is64 THEN 64 ELSE 32
Bitfield(op, rd, rn, immr, imms) == [form |-> "bitfield", op |-> op, rd |-> rd, rn |-> rn, immr |-> immr, imms |-> imms]
LslImm(rd, rn, s) == Bitfield("ubfm", rd, rn, (WidthOf(rd) - s) % WidthOf(rd), WidthOf(rd) - 1 - s)
LsrImm(rd, rn, s) == Bitfield("ubfm", rd, rn, s, WidthOf(rd) - 1)
AsrImm(rd, rn, s) == Bitfield("sbfm", rd, rn, s, WidthOf(rd) - 1)
Extend(op, rd, rn, top) == Bitfield(op, rd, rn, 0, top)
CondSelect(op, rd, rn, rm, cond) == [form |-> "csel", op |-> op, rd |-> rd, rn |-> rn, rm |-> rm, cond |-> cond]
RequireConditional(cond) == cond \notin {14, 15}
Cset(rd, cond) == CondSelect("csinc", rd, Zr(rd.is64), Zr(rd.is64), Inverted(cond))
Csetm(rd, cond) == CondSelect("csinv", rd, Zr(rd.is64), Zr(rd.is64), Inverted(cond))
Cinc(rd, rn, cond) == CondSelect("csinc", rd, rn, rn, Inverted(cond))
Cinv(rd, rn, cond) == CondSelect("csinv", rd, rn, rn, Inverted(cond))
Cneg(rd, rn, cond) == CondSelect("csneg", rd, rn, rn, Inverted(cond))

-----------------------------------------------------------------------------
(* What the architecture says a word is: the decoding tables of the Arm    *)
(* manual (A64 base and floating point, the forms fors-asm knows), with    *)
(* register 31 read as the stack pointer or the zero register by the slot  *)
(* it stands in; what a bitfield instruction and a conditional select      *)
(* compute, bit by bit; and what the aliases promise.                      *)

X(n, is64) == Reg(n, is64)                                 \* 31 is ZR
S(n, is64) == IF n = 31 THEN Sp(is64) ELSE Reg(n, is64)    \* 31 is SP
SignedOf(v, bits) == IF v >= 2^(bits - 1) THEN v - 2^bits ELSE v
NameOf(table, code) == CHOOSE k \in DOMAIN table : table[k] = code

\* Bit k of a bitmask immediate: elements of 2^len bits, a run of ones turned
\* right by immr.
MaskOf(n, immr, imms, is64) ==
    LET len == CHOOSE k \in 0..6 : 2^k <= n * 64 + (63 - imms) /\ n * 64 + (63 - imms) < 2^(k + 1) IN
    {k \in 0..(IF is64 THEN 63 ELSE 31) : ((k % 2^len) + immr) % 2^len <= imms % 2^len}

Unknown == [form |-> "unallocated"]

DataImm(w) ==
    LET F(hi, lo) == Number(w, lo, hi)
        is64 == 31 \in w
    IN
    CASE F(25, 24) = 0 -> [form |-> "adr", page |-> is64, rd |-> X(F(4, 0), TRUE), imm |-> SignedOf(F(23, 5) * 4 + F(30, 29), 21)]
      [] F(25, 23) = 2 -> [form |-> "addsubimm", op |-> IF 30 \in w THEN "sub" ELSE "add", flags |-> 29 \in w,
                           rd |-> IF 29 \in w THEN X(F(4, 0), is64) ELSE S(F(4, 0), is64), rn |-> S(F(9, 5), is64),
                           imm |-> F(21, 10) * (IF 22 \in w THEN 4096 ELSE 1)]
      [] F(25, 23) = 4 -> [form |-> "logimm", op |-> <<"and", "orr", "eor", "ands">>[F(30, 29) + 1],
                           rd |-> IF F(30, 29) = 3 THEN X(F(4, 0), is64) ELSE S(F(4, 0), is64), rn |-> X(F(9, 5), is64),
                           imm |-> MaskOf(F(22, 22), F(21, 16), F(15, 10), is64)]
      [] F(25, 23) = 5 -> [form |-> "movwide", op |-> <<"movn", "unallocated", "movz", "movk">>[F(30, 29) + 1],
                           rd |-> X(F(4, 0), is64), imm |-> F(20, 5), shift |-> 16 * F(22, 21)]
      [] F(25, 23) = 6 -> [form |-> "bitfield", op |-> <<"sbfm", "bfm", "ubfm", "unallocated">>[F(30, 29) + 1],
                           rd |-> X(F(4, 0), is64), rn |-> X(F(9, 5), is64), immr |-> F(21, 16), imms |-> F(15, 10)]
      [] OTHER -> Unknown

BranchesSystem(w) ==
    LET F(hi, lo) == Number(w, lo, hi) IN
    CASE F(30, 26) = 5 -> [form |-> "b", link |-> 31 \in w, imm |-> 4 * SignedOf(F(25, 0), 26)]
      [] F(31, 25) = 42 -> [form |-> "bcond", cond |-> F(3, 0), imm |-> 4 * SignedOf(F(23, 5), 19)]
      [] F(30, 25) = 26 -> [form |-> "cb", nz |-> 24 \in w, rt |-> X(F(4, 0), 31 \in w), imm |-> 4 * SignedOf(F(23, 5), 19)]
      [] F(30, 25) = 27 -> [form |-> "tb", nz |-> 24 \in w, rt |-> X(F(4, 0), 31 \in w), bit |-> F(31, 31) * 32 + F(23, 19),
                            imm |-> 4 * SignedOf(F(18, 5), 14)]
      [] F(31, 25) = 107 -> [form |-> "breg", op |-> <<"br", "blr", "ret">>[F(24, 21) + 1], rn |-> X(F(9, 5), TRUE)]
      [] F(31, 24) = 212 /\ F(23, 21) = 1 -> [form |-> "sys", op |-> "brk", imm |-> F(20, 5)]
      [] F(31, 24) = 212 /\ F(23, 21) = 0 /\ F(4, 0) = 1 -> [form |-> "sys", op |-> "svc", imm |-> F(20, 5)]
      [] F(31, 16) = 54531 /\ F(15, 0) = 8223 -> [form |-> "sys", op |-> "nop"]
      [] OTHER -> Unknown

LoadsStores(w) ==
    LET F(hi, lo) == Number(w, lo, hi)
        fp == 26 \in w
        size == F(31, 30)
        op == NameOf(LdStSize, <<size, F(23, 22)>>)
        mode == CASE 24 \in w -> [mode |-> "uoff", imm |-> F(21, 10) * 2^size]
                  [] 24 \notin w /\ 21 \in w -> [mode |-> "reg", rm |-> X(F(20, 16), F(13, 13) = 1), extend |-> NameOf(LdStExtend, F(15, 13)),
                                    shifted |-> 12 \in w]
                  [] OTHER -> [mode |-> <<"unscaled", "post", "?", "pre">>[F(11, 10) + 1], imm |-> SignedOf(F(20, 12), 9)]
    IN
    CASE F(29, 27) = 5 ->
            [form |-> "pair", load |-> 22 \in w, rt1 |-> X(F(4, 0), 31 \in w), rt2 |-> X(F(14, 10), 31 \in w), rn |-> S(F(9, 5), TRUE),
             index |-> <<"?", "post", "offset", "pre">>[F(25, 23) + 1], imm |-> SignedOf(F(21, 15), 7) * (IF 31 \in w THEN 8 ELSE 4)]
      [] F(29, 27) = 7 /\ fp ->
            [form |-> "fpldst", load |-> 22 \in w, rt |-> Fp(F(4, 0), size = 3), rn |-> S(F(9, 5), TRUE), m |-> mode]
      [] F(29, 27) = 7 /\ ~fp ->
            [form |-> "ldst", op |-> op, rt |-> X(F(4, 0), op \in {"ldrsbx", "ldrshx", "ldrsw", "strx", "ldrx"}), rn |-> S(F(9, 5), TRUE),
             m |-> mode]
      [] OTHER -> Unknown

DataReg(w) ==
    LET F(hi, lo) == Number(w, lo, hi)
        is64 == 31 \in w
        R(hi, lo) == X(F(hi, lo), is64)
        ext == NameOf(ExtendCode, F(15, 13))
    IN
    CASE F(28, 24) = 11 /\ 21 \notin w ->
            [form |-> "addsubshift", op |-> IF 30 \in w THEN "sub" ELSE "add", flags |-> 29 \in w, rd |-> R(4, 0), rn |-> R(9, 5),
             rm |-> R(20, 16), kind |-> NameOf(ShiftCode, F(23, 22)), amount |-> F(15, 10)]
      [] F(28, 24) = 11 /\ 21 \in w ->
            [form |-> "addsubext", op |-> IF 30 \in w THEN "sub" ELSE "add", flags |-> 29 \in w,
             rd |-> IF 29 \in w THEN R(4, 0) ELSE S(F(4, 0), is64), rn |-> S(F(9, 5), is64),
             rm |-> X(F(20, 16), ext \in {"uxtx", "sxtx"}), kind |-> ext, amount |-> F(12, 10)]
      [] F(28, 24) = 10 ->
            [form |-> "logshift", op |-> <<"and", "bic", "orr", "orn", "eor", "eon", "ands", "bics">>[F(30, 29) * 2 + F(21, 21) + 1],
             rd |-> R(4, 0), rn |-> R(9, 5), rm |-> R(20, 16), kind |-> NameOf(ShiftCode, F(23, 22)), amount |-> F(15, 10)]
      [] F(28, 21) = 212 ->
            [form |-> "csel", op |-> <<"csel", "csinc", "csinv", "csneg">>[F(30, 30) * 2 + F(10, 10) + 1],
             rd |-> R(4, 0), rn |-> R(9, 5), rm |-> R(20, 16), cond |-> F(15, 12)]
      [] F(28, 21) = 214 /\ 30 \in w ->
            [form |-> "dp1", rd |-> R(4, 0), rn |-> R(9, 5),
             op |-> CASE F(15, 10) = 0 -> "rbit" [] F(15, 10) = 4 -> "clz" [] F(15, 10) = (IF is64 THEN 3 ELSE 2) -> "rev"]
      [] F(28, 21) = 214 /\ 30 \notin w ->
            [form |-> "dp2", op |-> CASE F(15, 10) = 2 -> "udiv" [] F(15, 10) = 3 -> "sdiv" [] F(15, 10) = 8 -> "lslv"
                                      [] F(15, 10) = 9 -> "lsrv" [] F(15, 10) = 10 -> "asrv" [] F(15, 10) = 11 -> "rorv",
             rd |-> R(4, 0), rn |-> R(9, 5), rm |-> R(20, 16)]
      [] F(28, 24) = 27 ->
            [form |-> "dp3", op |-> CASE F(23, 21) = 0 -> IF 15 \in w THEN "msub" ELSE "madd"
                                      [] F(23, 21) = 2 -> "smulh" [] F(23, 21) = 6 -> "umulh",
             rd |-> R(4, 0), rn |-> R(9, 5), rm |-> R(20, 16), ra |-> R(14, 10)]
      [] OTHER -> Unknown

Floating(w) ==
    LET F(hi, lo) == Number(w, lo, hi)
        double == 22 \in w
        V(hi, lo) == Fp(F(hi, lo), double)
    IN
    CASE F(31, 24) = 31 -> [form |-> "fmadd", rd |-> V(4, 0), rn |-> V(9, 5), rm |-> V(20, 16), ra |-> V(14, 10)]
      [] F(31, 24) = 30 /\ F(14, 10) = 16 /\ F(20, 17) = 0 ->
            [form |-> "fp1", op |-> <<"fmov", "fabs", "fneg", "fsqrt">>[F(16, 15) + 1], rd |-> V(4, 0), rn |-> V(9, 5)]
      [] F(31, 24) = 30 /\ F(14, 10) = 16 /\ F(20, 17) = 1 ->
            [form |-> "fcvt", rd |-> Fp(F(4, 0), F(16, 15) = 1), rn |-> V(9, 5)]
      [] F(31, 24) = 30 /\ F(13, 10) = 8 /\ 14 \notin w -> [form |-> "fcmp", rn |-> V(9, 5), rm |-> V(20, 16)]
      [] F(31, 24) = 30 /\ F(12, 10) = 4 -> [form |-> "fmovimm", rd |-> V(4, 0), imm8 |-> F(20, 13)]
      [] F(31, 24) = 30 /\ F(11, 10) = 2 ->
            [form |-> "fp2", op |-> <<"fmul", "fdiv", "fadd", "fsub">>[F(15, 12) + 1], rd |-> V(4, 0), rn |-> V(9, 5), rm |-> V(20, 16)]
      [] F(31, 24) = 30 /\ F(11, 10) = 3 ->
            [form |-> "fcsel", rd |-> V(4, 0), rn |-> V(9, 5), rm |-> V(20, 16), cond |-> F(15, 12)]
      [] F(30, 24) = 30 /\ F(15, 10) = 0 /\ F(18, 16) = 6 -> [form |-> "fptogp", rd |-> X(F(4, 0), 31 \in w), rn |-> V(9, 5)]
      [] F(30, 24) = 30 /\ F(15, 10) = 0 /\ F(18, 16) = 7 -> [form |-> "gptofp", rd |-> V(4, 0), rn |-> X(F(9, 5), 31 \in w)]
      [] F(30, 24) = 30 /\ F(15, 10) = 0 /\ F(20, 16) \in {2, 3} ->
            [form |-> "fpint", op |-> <<"scvtf", "ucvtf">>[F(16, 16) + 1], gp |-> X(F(9, 5), 31 \in w), fp |-> V(4, 0)]
      [] F(30, 24) = 30 /\ F(15, 10) = 0 /\ F(20, 16) \in {24, 25} ->
            [form |-> "fpint", op |-> <<"fcvtzs", "fcvtzu">>[F(16, 16) + 1], gp |-> X(F(4, 0), 31 \in w), fp |-> V(9, 5)]
      [] OTHER -> Unknown

Decode(w) ==
    LET top == Number(w, 25, 28) IN
    CASE Number(w, 16, 31) = 0 -> [form |-> "sys", op |-> "udf", imm |-> Number(w, 0, 15)]
      [] top \in {8, 9} -> DataImm(w)
      [] top \in {10, 11} -> BranchesSystem(w)
      [] top \in {4, 6, 12, 14} -> LoadsStores(w)
      [] top \in {5, 13} -> DataReg(w)
      [] top \in {7, 15} -> Floating(w)
      [] OTHER -> Unknown

-----------------------------------------------------------------------------
(* What the aliases compute.  Source bit k of a register is <<"s", k>>,    *)
(* where a result bit is not a source bit it is <<"0", 0>>.                 *)

Src(k) == <<"s", k>>
Zero == <<"0", 0>>

\* UBFM and SBFM: a field of the source moved down or up, filled with zeros,
\* and above it with zeros or with the field's own top bit.
BitfieldBits(i) ==
    LET w == WidthOf(i.rd)
        up == i.imms < i.immr
        lo == IF up THEN w - i.immr ELSE 0
        len == IF up THEN i.imms + 1 ELSE i.imms - i.immr + 1
        from == IF up THEN 0 ELSE i.immr
    IN [k \in 0..(w - 1) |-> IF k < lo THEN Zero
                              ELSE IF k < lo + len THEN Src(from + k - lo)
                              ELSE IF i.op = "sbfm" THEN Src(from + len - 1) ELSE Zero]
AliasBits(a, w) ==
    [k \in 0..(w - 1) |->
        CASE a.alias = "lsl" -> IF k < a.s THEN Zero ELSE Src(k - a.s)
          [] a.alias = "lsr" -> IF k + a.s < w THEN Src(k + a.s) ELSE Zero
          [] a.alias = "asr" -> IF k + a.s < w THEN Src(k + a.s) ELSE Src(w - 1)
          [] a.alias \in {"uxtb", "uxth"} -> IF k <= a.s THEN Src(k) ELSE Zero
          [] a.alias \in {"sxtb", "sxth", "sxtw"} -> IF k <= a.s THEN Src(k) ELSE Src(a.s)]

\* A conditional select gives rn when the condition holds, else rm changed.
Holds(cond, z) == IF cond % 2 = 0 THEN z ELSE ~z    \* the flags satisfy the even one of the pair, or not
Selected(i, z) ==
    IF Holds(i.cond, z) THEN <<"is", i.rn.num>>
    ELSE <<[csel |-> "is", csinc |-> "inc", csinv |-> "inv", csneg |-> "neg"][i.op], i.rm.num>>
AliasSelected(a, z) ==
    CASE a.alias = "cset" -> IF Holds(a.cond, z) THEN <<"inc", 31>> ELSE <<"is", 31>>
      [] a.alias = "csetm" -> IF Holds(a.cond, z) THEN <<"inv", 31>> ELSE <<"is", 31>>
      [] a.alias = "cinc" -> IF Holds(a.cond, z) THEN <<"inc", a.rn.num>> ELSE <<"is", a.rn.num>>
      [] a.alias = "cinv" -> IF Holds(a.cond, z) THEN <<"inv", a.rn.num>> ELSE <<"is", a.rn.num>>
      [] a.alias = "cneg" -> IF Holds(a.cond, z) THEN <<"neg", a.rn.num>> ELSE <<"is", a.rn.num>>

\* The value an eight-bit floating-point immediate stands for, as its sign, its
\* exponent and its sixteenths: the manual's formula, and the IEEE reading of a pattern.
ManualFp(imm8) == [sign |-> imm8 \div 128, e |-> ((imm8 \div 16) % 4) + (IF (imm8 \div 64) % 2 = 1 THEN -3 ELSE 1), m |-> imm8 % 16]
ReadFp(p, is64) == [sign |-> p.sign, e |-> p.exp - (IF is64 THEN 1023 ELSE 127), m |-> p.frac]

\* A value is a bitmask immediate when it repeats an element that is, turned,
\* one run of ones.
IsMask(value, regSize) ==
    \E e \in {2, 4, 8, 16, 32, 64} :
        /\ e <= regSize
        /\ \A k \in 0..(regSize - 1) : (k \in value) <=> (((k + e) % regSize) \in value)
        /\ Cardinality({k \in 0..(e - 1) : k \in value /\ ((k + 1) % e) \notin value}) = 1

-----------------------------------------------------------------------------
\* An instruction the constructors accept is, in the word they make of it, what
\* the architecture reads: the same operation, the same registers (register 31
\* the one that was named), the same immediates.
SameInstruction(i, d) ==
    d = CASE i.form = "dp3" -> [k \in DOMAIN i \ {"mul"} |-> i[k]]
          [] i.form = "tb" -> [i EXCEPT !.rt.is64 = i.bit >= 32]    \* a low bit of X is that bit of W
          [] OTHER -> i

-----------------------------------------------------------------------------
(* Instructions of every form, with register 31 in every slot whose use    *)
(* the constructors judge, and immediates at the ends of their ranges; and *)
(* the aliases.                                                            *)

R64 == {Reg(1, TRUE), Sp(TRUE), Zr(TRUE)}
Regs == R64 \cup {Reg(30, FALSE), Sp(FALSE), Zr(FALSE)}
Plain == {Reg(0, TRUE), Reg(30, TRUE), Zr(TRUE), Reg(2, FALSE), Zr(FALSE)}    \* slots where ZR is what 31 means
Bases == {Reg(3, TRUE), Sp(TRUE)}
Fps == {Fp(0, TRUE), Fp(31, TRUE), Fp(5, FALSE)}
Flags == {TRUE, FALSE}

Immediates ==
    [form : {"movwide"}, op : {"movn", "movz", "movk"}, rd : {Reg(1, TRUE), Zr(TRUE), Reg(7, FALSE)}, imm : {0, 1, 65535}, shift : {0, 8, 16, 32, 48, 64}]
    \cup [form : {"addsubimm"}, op : {"add", "sub"}, flags : Flags, rd : Regs, rn : Regs, imm : {4095, 4096, 4097}]
    \cup [form : {"addsubimm"}, op : {"add"}, flags : {FALSE}, rd : {Sp(TRUE)}, rn : {Reg(1, TRUE)}, imm : {0, 4095 * 4096, 4096 * 4096}]
    \cup [form : {"logimm"}, op : {"and", "ands"}, rd : {Reg(1, FALSE), Sp(FALSE)}, rn : {Reg(1, FALSE), Zr(FALSE)}, imm : {{0, 31}}]
    \cup [form : {"logimm"}, op : {"and", "orr", "eor", "ands"}, rd : {Reg(9, FALSE)}, rn : {Reg(1, FALSE)},
          imm : {{k \in 0..31 : k % 2 = 1}, {0, 1, 2, 31}, {0, 2}}]
    \cup [form : {"logimm"}, op : {"orr"}, rd : {Reg(9, TRUE)}, rn : {Reg(1, TRUE)}, imm : {{63}, {5, 37}}]
    \cup [form : {"bitfield"}, op : {"sbfm", "bfm", "ubfm"}, rd : Regs, rn : {Reg(4, TRUE), Reg(4, FALSE)}, immr : {0, 31, 63}, imms : {0, 31, 32}]
    \cup [form : {"adr"}, page : Flags, rd : {Reg(1, TRUE), Reg(1, FALSE)}, imm : {0, 5, -3, 1048575, 1048576, -1048576, -1048577}]

Registers ==
    [form : {"addsubshift"}, op : {"add", "sub"}, flags : Flags, rd : Regs, rn : {Reg(2, TRUE), Zr(TRUE), Sp(TRUE)}, rm : {Reg(3, TRUE)},
     kind : {"lsl", "asr", "ror"}, amount : {0, 63, 64}]
    \cup [form : {"addsubext"}, op : {"add", "sub"}, flags : Flags, rd : {Reg(1, TRUE), Reg(1, FALSE)}, rn : Bases \cup {Sp(FALSE), Reg(2, FALSE)},
          rm : {Reg(9, TRUE), Reg(9, FALSE), Sp(TRUE), Zr(FALSE)}, kind : {"uxtb", "uxtx", "sxtw", "sxtx"}, amount : {0, 4, 5}]
    \cup [form : {"logshift"}, op : DOMAIN LogicalOpc, rd : Regs, rn : {Reg(2, FALSE), Zr(FALSE)}, rm : {Reg(3, FALSE), Sp(FALSE)},
          kind : {"lsr", "ror"}, amount : {1, 31, 32}]
    \cup [form : {"dp2"}, op : {"udiv", "sdiv", "lslv", "lsrv", "asrv", "rorv"}, rd : Regs, rn : {Reg(2, TRUE), Zr(TRUE)}, rm : R64]
    \cup [form : {"dp3"}, op : {"madd", "msub"}, rd : Regs, rn : {Reg(2, TRUE)}, rm : R64, ra : R64, mul : {FALSE}]
    \cup [form : {"dp3"}, op : {"madd"}, rd : {Reg(1, TRUE), Zr(TRUE)}, rn : Plain, rm : {Reg(4, TRUE)}, ra : {Zr(TRUE)}, mul : {TRUE}]
    \cup [form : {"dp3"}, op : {"smulh", "umulh"}, rd : Plain, rn : {Reg(1, TRUE)}, rm : {Reg(4, TRUE)}, ra : {Zr(TRUE)}, mul : {FALSE}]
    \cup [form : {"dp1"}, op : {"rbit", "clz", "rev"}, rd : Regs, rn : Regs]
    \cup [form : {"csel"}, op : {"csel", "csinc", "csinv", "csneg"}, rd : Regs, rn : {Reg(2, TRUE), Zr(TRUE)}, rm : {Reg(3, TRUE), Sp(TRUE)}, cond : {0, 13}]

Branches ==
    [form : {"b"}, link : Flags, imm : {0, 8, -4, 2, 134217724, 134217728, -134217728, -134217732}]
    \cup [form : {"bcond"}, cond : {0, 11, 15}, imm : {-4, 6, 1048572, 1048576, -1048576}]
    \cup [form : {"cb"}, nz : Flags, rt : Plain, imm : {-8, 1048572, 1048576}]
    \cup [form : {"tb"}, nz : Flags, rt : Plain, bit : {0, 31, 32, 63, 64}, imm : {-32768, 32764, 32768}]
    \cup [form : {"breg"}, op : {"br", "blr", "ret"}, rn : Plain]
    \cup [form : {"sys"}, op : {"brk", "svc", "udf"}, imm : {0, 1, 65535}] \cup {[form |-> "sys", op |-> "nop"]}

Modes == [mode : {"uoff"}, imm : {0, 1, 8, 4095, 4096 * 4, 4095 * 8, 4096 * 8, -8}]
         \cup [mode : {"unscaled", "pre", "post"}, imm : {0, -256, 255, 256}]
         \cup [mode : {"reg"}, rm : {Reg(7, TRUE), Reg(7, FALSE), Zr(TRUE)}, extend : DOMAIN LdStExtend, shifted : Flags]
Memory ==
    [form : {"ldst"}, op : DOMAIN LdStSize, rt : {Reg(1, TRUE), Reg(1, FALSE)}, rn : {Sp(TRUE)}, m : Modes]
    \cup [form : {"ldst"}, op : {"ldrx", "strw"}, rt : Plain, rn : Regs, m : {[mode |-> "pre", imm |-> 16], [mode |-> "uoff", imm |-> 16]}]
    \cup [form : {"fpldst"}, load : Flags, rt : Fps, rn : {Reg(1, TRUE), Sp(TRUE), Reg(1, FALSE)}, m : Modes]
    \cup [form : {"pair"}, load : Flags, rt1 : {Reg(0, TRUE), Zr(TRUE), Reg(2, FALSE)}, rt2 : {Reg(0, TRUE), Reg(30, TRUE), Reg(5, FALSE)}, rn : Bases \cup {Reg(0, TRUE), Reg(2, FALSE)},
          imm : {0, -512, 504, 512, 4}, index : {"pre", "post", "offset"}]

FloatingPoint ==
    [form : {"fp1"}, op : {"fmov", "fabs", "fneg", "fsqrt"}, rd : Fps, rn : Fps] \cup [form : {"fcvt"}, rd : Fps, rn : Fps]
    \cup [form : {"fp2"}, op : {"fmul", "fdiv", "fadd", "fsub"}, rd : Fps, rn : Fps, rm : Fps]
    \cup [form : {"fcmp"}, rn : Fps, rm : Fps] \cup [form : {"fcsel"}, rd : Fps, rn : Fps, rm : Fps, cond : {0, 12}]
    \cup [form : {"fmadd"}, rd : Fps, rn : Fps, rm : Fps, ra : Fps] \cup [form : {"fmovimm"}, rd : Fps, imm8 : {0, 1, 112, 255}]
    \cup [form : {"fptogp"}, rd : Plain, rn : Fps] \cup [form : {"gptofp"}, rd : Fps, rn : Plain]
    \cup [form : {"fpint"}, op : {"scvtf", "ucvtf", "fcvtzs", "fcvtzu"}, gp : Plain, fp : Fps]

Insts == Immediates \cup Registers \cup Branches \cup Memory \cup FloatingPoint

ShiftAliases == [alias : {"lsl", "lsr", "asr"}, rd : {Reg(1, TRUE), Reg(1, FALSE)}, s : {0, 1, 31}]
                \cup [alias : {"lsl", "lsr", "asr"}, rd : {Reg(1, TRUE)}, s : {32, 63}]
                \cup [alias : {"sxtb"}, rd : {Reg(1, TRUE), Reg(1, FALSE)}, s : {7}] \cup [alias : {"sxth"}, rd : {Reg(1, TRUE)}, s : {15}]
                \cup [alias : {"sxtw"}, rd : {Reg(1, TRUE)}, s : {31}] \cup [alias : {"uxtb"}, rd : {Reg(1, FALSE)}, s : {7}]
                \cup [alias : {"uxth"}, rd : {Reg(1, FALSE)}, s : {15}]
CondAliases == [alias : {"cset", "csetm", "cinc", "cinv", "cneg"}, rd : {Reg(1, TRUE)}, rn : {Reg(2, TRUE)}, cond : 0..15]
Masks == {{}, 0..31, {0}, {31}, {0, 31}, {0, 2}, {k \in 0..31 : k % 8 = 3}, {1, 2, 3, 17, 18, 19}}

=============================================================================
