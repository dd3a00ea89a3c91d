----------------------------- MODULE Arithmetic -----------------------------
(***************************************************************************)
(* Arithmetic of the interpreter (fors-interp arith.rs): integers as bit   *)
(* patterns of their width, with the trapping, wrapping and saturating     *)
(* form of every operation; the software remainder of floats; conversions. *)
(***************************************************************************)
EXTENDS Integers, Sequences

CONSTANT Widths         \* the bit width of each kind of integer

IntKinds == {"i8", "i16", "i32", "i64", "u8", "u16", "u32", "u64"}
Width(k) == Widths[k]
\* Widths are positive, and a power of two is twice the one before it: what the
\* proofs need to know of powers, of which the prover has no theory.
WidthsAreBits ==
    \A k \in IntKinds :
        /\ Width(k) \in Nat \ {0} /\ 2^(Width(k) - 1) \in Nat \ {0}
        /\ 2^Width(k) = 2 * 2^(Width(k) - 1)
Signed(k) == k \in {"i8", "i16", "i32", "i64"}
Lo(k) == IF Signed(k) THEN -(2^(Width(k) - 1)) ELSE 0
Hi(k) == IF Signed(k) THEN 2^(Width(k) - 1) - 1 ELSE 2^Width(k) - 1
AsUnsigned(b, k) == b % 2^Width(k)
AsSigned(b, k) == IF AsUnsigned(b, k) > Hi(k) THEN AsUnsigned(b, k) - 2^Width(k) ELSE AsUnsigned(b, k)
Narrow(v, k) == v % 2^Width(k)
Value(b, k) == IF Signed(k) THEN AsSigned(b, k) ELSE AsUnsigned(b, k)

Ok(v) == [trap |-> "", v |-> v]
Err(t) == [trap |-> t, v |-> 0]

\* Division as the machine and Rust do it: towards zero.
Abs(x) == IF x < 0 THEN -x ELSE x
Quotient(x, y) == IF (x < 0) = (y < 0) THEN Abs(x) \div Abs(y) ELSE -(Abs(x) \div Abs(y))
Remainder(x, y) == x - y * Quotient(x, y)
MinByMinusOne(a, b, k) == Signed(k) /\ Value(a, k) = Lo(k) /\ Value(b, k) = -1

TrapBinop(exact, k) == IF exact \in Lo(k)..Hi(k) THEN Ok(Narrow(exact, k)) ELSE Err("overflow")
TrapAdd(a, b, k) == TrapBinop(Value(a, k) + Value(b, k), k)
TrapSub(a, b, k) == TrapBinop(Value(a, k) - Value(b, k), k)
TrapMul(a, b, k) == TrapBinop(Value(a, k) * Value(b, k), k)
TrapDiv(a, b, k) ==
    IF Value(b, k) = 0 THEN Err("div_zero")
    ELSE IF MinByMinusOne(a, b, k) THEN Err("overflow")
    ELSE Ok(Narrow(Quotient(Value(a, k), Value(b, k)), k))
TrapRem(a, b, k) ==
    IF Value(b, k) = 0 THEN Err("div_zero")
    ELSE IF MinByMinusOne(a, b, k) THEN Err("overflow")
    ELSE Ok(Narrow(Remainder(Value(a, k), Value(b, k)), k))
TrapShl(a, count, k) ==
    IF count >= Width(k) THEN Err("shift") ELSE Ok(Narrow(AsUnsigned(a, k) * 2^count, k))
TrapShr(a, count, k) ==
    IF count >= Width(k) THEN Err("shift") ELSE Ok(Narrow(Value(a, k) \div 2^count, k))
TrapNeg(a, k) ==
    IF Signed(k) /\ AsSigned(a, k) = Lo(k) THEN Err("overflow") ELSE Ok(Narrow(-Value(a, k), k))

WrapBinop(exact, k) == Narrow(exact, k)
WrapAdd(a, b, k) == WrapBinop(AsUnsigned(a, k) + AsUnsigned(b, k), k)
WrapSub(a, b, k) == WrapBinop(AsUnsigned(a, k) - AsUnsigned(b, k), k)
WrapMul(a, b, k) == WrapBinop(AsUnsigned(a, k) * AsUnsigned(b, k), k)
WrapDiv(a, b, k) == IF Value(b, k) # 0 /\ MinByMinusOne(a, b, k) THEN Ok(Narrow(Lo(k), k)) ELSE TrapDiv(a, b, k)
WrapRem(a, b, k) == IF Value(b, k) # 0 /\ MinByMinusOne(a, b, k) THEN Ok(0) ELSE TrapRem(a, b, k)
WrapNeg(a, k) == IF Signed(k) THEN Narrow(-AsSigned(a, k), k) ELSE TrapNeg(a, k).v

SatClamp(v, k) == Narrow(IF v < Lo(k) THEN Lo(k) ELSE IF v > Hi(k) THEN Hi(k) ELSE v, k)
SatAdd(a, b, k) == SatClamp(Value(a, k) + Value(b, k), k)
SatSub(a, b, k) == SatClamp(Value(a, k) - Value(b, k), k)
SatMul(a, b, k) == SatClamp(Value(a, k) * Value(b, k), k)
SatDiv(a, b, k) ==
    IF Value(b, k) = 0 THEN Err("div_zero")
    ELSE IF MinByMinusOne(a, b, k) THEN Ok(SatClamp(Hi(k) + 1, k))
    ELSE Ok(SatClamp(Quotient(Value(a, k), Value(b, k)), k))
SatRem(a, b, k) ==
    IF Value(b, k) = 0 THEN Err("div_zero")
    ELSE IF MinByMinusOne(a, b, k) THEN Ok(0)
    ELSE Ok(SatClamp(Remainder(Value(a, k), Value(b, k)), k))
SatShl(a, count, k) ==
    IF count >= Width(k) THEN Err("shift") ELSE Ok(SatClamp(Value(a, k) * 2^count, k))
SatNeg(a, k) == IF Signed(k) THEN SatClamp(-AsSigned(a, k), k) ELSE WrapNeg(a, k)

IntBinop(op, mode, a, b, k) ==
    CASE op = "add" -> (CASE mode = "trap" -> TrapAdd(a, b, k) [] mode = "sat" -> Ok(SatAdd(a, b, k)) [] OTHER -> Ok(WrapAdd(a, b, k)))
      [] op = "sub" -> (CASE mode = "trap" -> TrapSub(a, b, k) [] mode = "sat" -> Ok(SatSub(a, b, k)) [] OTHER -> Ok(WrapSub(a, b, k)))
      [] op = "mul" -> (CASE mode = "trap" -> TrapMul(a, b, k) [] mode = "sat" -> Ok(SatMul(a, b, k)) [] OTHER -> Ok(WrapMul(a, b, k)))
      [] op = "div" -> (CASE mode = "trap" -> TrapDiv(a, b, k) [] mode = "sat" -> SatDiv(a, b, k) [] OTHER -> WrapDiv(a, b, k))
      [] op = "rem" -> (CASE mode = "trap" -> TrapRem(a, b, k) [] mode = "sat" -> SatRem(a, b, k) [] OTHER -> WrapRem(a, b, k))
      [] op = "shl" -> IF mode = "sat" THEN SatShl(a, b, k) ELSE TrapShl(a, b, k)
      [] op = "shr" -> TrapShr(a, b, k)
IntNeg(mode, a, k) ==
    CASE mode = "trap" -> TrapNeg(a, k) [] mode = "sat" -> Ok(SatNeg(a, k)) [] OTHER -> Ok(WrapNeg(a, k))
Icmp(a, b, k, pred) ==
    LET x == Value(a, k)
        y == Value(b, k)
    IN CASE pred = "eq" -> x = y [] pred = "ne" -> x # y [] pred = "lt" -> x < y
         [] pred = "le" -> x <= y [] pred = "gt" -> x > y [] pred = "ge" -> x >= y

\* What the language promises of an operation: the exact result where the type
\* holds it, and otherwise what its mode says.
Promised(op, mode, a, b, k) ==
    LET x == Value(a, k)
        y == Value(b, k)
        exact == CASE op = "add" -> x + y [] op = "sub" -> x - y [] op = "mul" -> x * y
                   [] op = "div" -> Quotient(x, y) [] op = "rem" -> Remainder(x, y)
    IN IF op \in {"div", "rem"} /\ y = 0 THEN Err("div_zero")
       ELSE IF mode = "trap" /\ (exact \notin Lo(k)..Hi(k) \/ (op = "rem" /\ MinByMinusOne(a, b, k))) THEN Err("overflow")
       ELSE IF mode = "sat" THEN Ok(SatClamp(exact, k))
       ELSE Ok(Narrow(exact, k))

-----------------------------------------------------------------------------
(* Floats: sign, exponent field and mantissa, as in IEEE 754, to scale.    *)
(* A finite magnitude is a whole number of Fines, 2^-8.                    *)

F64 == [man |-> 6, exp |-> 4, bias |-> 2, emin |-> -1]
F32 == [man |-> 3, exp |-> 3, bias |-> 1, emin |-> 0]
Fine == 8
NaN == [c |-> "nan", neg |-> FALSE, n |-> 0]
Inf(neg) == [c |-> "inf", neg |-> neg, n |-> 0]
Num(neg, n) == [c |-> "num", neg |-> neg, n |-> n]
InfField(f) == 2^f.exp - 1                                 \* the field of infinities
Lead(x) == CHOOSE k \in 0..24 : 2^k <= x /\ x < 2^(k + 1)

DecomposeBits(bits, f) ==
    LET field == (bits \div 2^f.man) % 2^f.exp
        man == bits % 2^f.man
    IN IF field = 0 THEN <<man, f.emin - f.man>> ELSE <<man + 2^f.man, field - f.bias - f.man>>
SignOf(bits, f) == bits >= 2^(f.man + f.exp)
FromBits(bits, f) ==
    IF (bits \div 2^f.man) % 2^f.exp = InfField(f) THEN (IF bits % 2^f.man = 0 THEN Inf(SignOf(bits, f)) ELSE NaN)
    ELSE LET d == DecomposeBits(bits, f) IN Num(SignOf(bits, f), d[1] * 2^(d[2] + Fine))
\* IEEE rounding to nearest, ties to even, of a whole number of Fines.
Rounded(v, f) ==
    IF v.c # "num" \/ v.n = 0 THEN v
    ELSE LET least == f.emin - f.man + Fine
             shift == IF Lead(v.n) - f.man > least THEN Lead(v.n) - f.man ELSE least
             q == v.n \div 2^shift
             r == v.n % 2^shift
             n == (IF 2 * r > 2^shift \/ (2 * r = 2^shift /\ q % 2 = 1) THEN q + 1 ELSE q) * 2^shift
         IN IF n >= 2^(InfField(f) - f.bias + Fine) THEN Inf(v.neg) ELSE Num(v.neg, n)
OfInt(i) == Num(i < 0, Abs(i) * 2^Fine)
Trunc(v) == IF v.c = "num" THEN Num(v.neg, (v.n \div 2^Fine) * 2^Fine) ELSE v
ToInt(v) == IF v.neg THEN -(v.n \div 2^Fine) ELSE v.n \div 2^Fine
Signum(v) == IF v.neg THEN -v.n ELSE v.n
\* a <= b for values that are not NaN.
AtMost(a, b) ==
    IF a.c = "inf" THEN a.neg \/ (b.c = "inf" /\ ~b.neg)
    ELSE IF b.c = "inf" THEN ~b.neg ELSE Signum(a) <= Signum(b)

PowModWith[e \in Nat, m \in Nat, base \in Nat, acc \in Nat] ==
    IF e = 0 THEN acc
    ELSE PowModWith[e \div 2, m, (base * base) % m, IF e % 2 = 1 THEN (acc * base) % m ELSE acc]
PowMod(e, m) == PowModWith[e, m, 2 % m, 1 % m]
PackUnits(units, exp, neg, f) ==
    LET sign == IF neg THEN 2^(f.man + f.exp) ELSE 0
        lead == Lead(units)
    IN IF units = 0 THEN sign
       ELSE IF exp + lead >= f.emin
       THEN sign + (exp + lead + f.bias) * 2^f.man + (units - 2^lead) * 2^(f.man - lead)
       ELSE sign + units * 2^(exp - f.emin + f.man)
FremSoft(a, b, neg, f) ==
    IF a[2] >= b[2] THEN PackUnits(((a[1] % b[1]) * PowMod(a[2] - b[2], b[1])) % b[1], b[2], neg, f)
    ELSE IF b[1] * 2^(b[2] - a[2]) > a[1] THEN PackUnits(a[1], a[2], neg, f)
    ELSE PackUnits(a[1] % (b[1] * 2^(b[2] - a[2])), a[2], neg, f)
CanonicalNaN(f) == InfField(f) * 2^f.man + 2^(f.man - 1)
Frem(a, b, f) ==
    LET x == FromBits(a, f)
        y == FromBits(b, f)
    IN IF x.c = "nan" \/ y.c = "nan" \/ y = Num(FALSE, 0) \/ y = Num(TRUE, 0) \/ x.c = "inf" THEN CanonicalNaN(f)
       ELSE IF y.c = "inf" \/ x.n = 0 THEN a
       ELSE FremSoft(DecomposeBits(a, f), DecomposeBits(b, f), x.neg, f)

\* The remainder is the exact one, with the sign of the dividend.
FremRight(a, b, r, f) ==
    LET x == FromBits(a, f)
        y == FromBits(b, f)
    IN FromBits(r, f) =
        IF x.c # "num" \/ y.c = "nan" \/ (y.c = "num" /\ y.n = 0) THEN NaN
        ELSE IF y.c = "inf" THEN x ELSE Num(x.neg, x.n % y.n)

-----------------------------------------------------------------------------
(* Conversions.  A kind of number is an integer kind or a float format.    *)

\* The value of 2^w, at the exponent where a float holds it.
BitsOf(v, f) ==
    (IF v.neg THEN 2^(f.man + f.exp) ELSE 0)
    + CASE v.c = "nan" -> CanonicalNaN(f)
        [] v.c = "inf" -> InfField(f) * 2^f.man
        [] OTHER -> IF v.n = 0 THEN 0 ELSE
             LET l == Lead(v.n) - Fine
             IN IF l >= f.emin THEN (l + f.bias) * 2^f.man + (v.n * 2^f.man) \div 2^(l + Fine) - 2^f.man
                ELSE v.n \div 2^(f.emin - f.man + Fine)
FloatBitsInIntRange(v, k) ==
    IF Signed(k) THEN -(2^(Width(k) - 1 + Fine)) <= Signum(v) /\ Signum(v) < 2^(Width(k) - 1 + Fine)
    ELSE 0 <= Signum(v) /\ Signum(v) < 2^(Width(k) + Fine)
ConvChecked(v, k) ==
    IF v.c # "num" \/ Trunc(v) # v \/ ~FloatBitsInIntRange(v, k) THEN Err("checked_conversion") ELSE Ok(Narrow(ToInt(v), k))
ConvCheckedInt(b, from, to) ==
    IF Value(b, from) \in Lo(to)..Hi(to) THEN Ok(Narrow(Value(b, from), to)) ELSE Err("checked_conversion")
ConvWrapInt(b, from, to) == Narrow(Value(b, from), to)
ConvSatInt(b, from, to) == SatClamp(Value(b, from), to)
ConvIntToFloat(b, from, f) == Rounded(Rounded(OfInt(Value(b, from)), F64), f)
ConvFloats(v) == IF v.c # "nan" /\ Rounded(v, F32) # v THEN Err("checked_conversion") ELSE Ok(0)
\* The value modulo 2^w, through Frem and, for a negative one, the sum r + 2^w,
\* which is an f64 and therefore rounded.
Folded(r, w) == IF r.neg /\ r.n > 0 THEN Rounded(Num(FALSE, 2^(w + Fine) - r.n), F64) ELSE r
TruncFloatToInt(v, k) ==
    LET r == FromBits(Frem(BitsOf(Trunc(v), F64), BitsOf(OfInt(2^Width(k)), F64), F64), F64)
    IN IF v.c = "nan" \/ r.c = "nan" THEN 0 ELSE Narrow(ToInt(Folded(r, Width(k))), k)
SatFloatToInt(v, k) ==
    IF v.c = "nan" THEN 0
    ELSE IF AtMost(Trunc(v), Rounded(OfInt(Lo(k)), F64)) THEN SatClamp(Lo(k), k)
    ELSE IF AtMost(Rounded(OfInt(Hi(k)), F64), Trunc(v)) THEN SatClamp(Hi(k), k)
    ELSE Narrow(ToInt(Trunc(v)), k)
Fcmp(a, b, pred) ==
    IF a.c = "nan" \/ b.c = "nan" THEN pred = "ne"
    ELSE CASE pred = "eq" -> AtMost(a, b) /\ AtMost(b, a) [] pred = "ne" -> ~(AtMost(a, b) /\ AtMost(b, a))
           [] pred = "lt" -> ~AtMost(b, a) [] pred = "le" -> AtMost(a, b)
           [] pred = "gt" -> ~AtMost(a, b) [] pred = "ge" -> AtMost(b, a)

\* Every float of a format, by its bits.
Patterns(f) == 0..(2^(f.man + f.exp + 1) - 1)
Bounded(v, k) == v.c = "num" /\ ToInt(v) \in Lo(k)..Hi(k)
\* A checked conversion is exact or a trap, a saturating one the nearest
\* integer of the type to the truncated value, and a wrapping one the
\* truncated value modulo the type, where an f64 holds every integer of the
\* type or nothing has to be folded.
Conversions(v, k) == [checked |-> ConvChecked(v, k), wrap |-> TruncFloatToInt(v, k), sat |-> SatFloatToInt(v, k)]
FloatConversionRight(v, k, r) ==
    /\ r.checked = IF v.c = "num" /\ v.n % 2^Fine = 0 /\ Bounded(v, k) THEN Ok(Narrow(ToInt(v), k)) ELSE Err("checked_conversion")
    /\ Value(r.sat, k) =
          CASE v.c = "nan" -> 0
            [] v.c = "inf" -> IF v.neg THEN Lo(k) ELSE Hi(k)
            [] OTHER -> IF ToInt(v) < Lo(k) THEN Lo(k) ELSE IF ToInt(v) > Hi(k) THEN Hi(k) ELSE ToInt(v)
    /\ Width(k) <= F64.man \/ ~v.neg => r.wrap = IF v.c = "num" THEN Narrow(ToInt(v), k) ELSE 0

=============================================================================
