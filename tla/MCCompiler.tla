----------------------------- MODULE MCCompiler -----------------------------
(***************************************************************************)
(* The stages of the compiler that are functions of their input, each run  *)
(* on a set of small inputs and compared with what it is for.  A stage     *)
(* that is a loop over a state of its own (the parser) takes one step of   *)
(* the specification per step of the loop; the others answer in one.       *)
(***************************************************************************)
EXTENDS Integers, Sequences, FiniteSets, SequencesExt, TLC

CONSTANTS Keywords, IntSuffixes, FloatSuffixes, MAX_SOURCE_LEN,     \* Lexer
          MAX_DEPTH, MAX_POSTFIX_CHAIN, MAX_ATTR_SCAN,              \* Parser
          MaxInt, MaxFrames,                                        \* Exec
          NORMALISE_DEPTH_MAX, LIN_DEPTH_MAX,                       \* FirTypes
          MAX_LIST, MAX_FN_PARAMS, MAX_KEY_DEPTH, WIDE,             \* SigCodec
          Widths                                                    \* Arithmetic

L == INSTANCE Lexer
P == INSTANCE Parser
G == INSTANCE Grammar
Lines == INSTANCE LineIndex
F == INSTANCE FlowCheck
Low == INSTANCE Lowering
Exec == INSTANCE Exec
Meant == INSTANCE SourceSemantics
Fmir == INSTANCE FmirVerify
Asm == INSTANCE Assembler
Types == INSTANCE TypeLaws
Sigs == INSTANCE SigCodec
Fmirs == INSTANCE FmirCodec
Nat64 == INSTANCE NativeCode

ASSUME Bounds == MaxInt \in Nat /\ MaxFrames \in Nat \ {0}
ASSUME WidthsAssumption == Nat64!WidthsAreBits
ASSUME KeywordsAssumption == L!LexerParameters

VARIABLES
    stage,      \* the stage at work
    input,      \* what it was given
    out,        \* its state, and in the end its answer
    done        \* it has answered

vars == <<stage, input, out, done>>

Job(s, in, start) == stage = s /\ input = in /\ out = start /\ done = FALSE
Answer(a) == out' = a /\ done' = TRUE /\ UNCHANGED <<stage, input>>
Pending(s) == stage = s /\ ~done
Answered(s) == stage = s /\ done

UpTo(A, n) == UNION {[1..k -> A] : k \in 0..n}

-----------------------------------------------------------------------------
(* Sources: byte strings for the lexer, characters for the line table.     *)

SomeKeywords == {<<"i", "f">>, <<"i", "n">>}
SomeIntSuffixes == {<<"u", "8">>, <<"i", "3", "2">>}
SomeFloatSuffixes == {<<"f", "3", "2">>}

Sources ==
    UpTo({"/", "*", "a", "nl"}, 5) \cup UpTo({"quote", "bs", "n", "u", "{", "1"}, 4)
    \cup UpTo({"0", "x", "1", "e", "_", ".", "u", "8"}, 4) \cup UpTo({"bs", "nl", "a", " "}, 4)
    \cup UpTo({"<", "=", "-", ">", "."}, 4) \cup UpTo({"i", "f", "1", "high", "bad", "quote"}, 3)
    \cup UpTo({"0", "b", "f", "3", "2"}, 5)

Chars == {<<"ascii">>, <<"newline">>, <<"lead2", "cont">>, <<"lead3", "cont", "cont">>,
          <<"lead4", "cont", "cont", "cont">>}
Texts == {t \in {FlattenSeq(cs) : cs \in UpTo(Chars, 3)} : Lines!WellFormed(t)}

LexStage == Pending("lex") /\ Answer(L!Lex(input))
LinesStage == Pending("lines") /\ Answer("built")

\* Lexing covers every byte with exactly one token or trivium, takes the
\* longest token the lexical grammar allows, and never passes over a byte it
\* cannot read without a diagnostic (lexer.rs).
LexesTheSource == Answered("lex") => L!LexedRight(input, out)

\* Offsets and editor positions are inverse to each other on character
\* boundaries, agree with reading the text, and clamp into the line asked
\* (lib.rs LineIndex).
PositionsAgree ==
    Answered("lines") => Lines!PosIsReading(input) /\ Lines!RoundTrip(input) /\ Lines!OffsetClamps(input)

-----------------------------------------------------------------------------
(* Files of tokens for the parser.                                         *)

ParseStep ==
    /\ Pending("parse")
    /\ \/ out.work # <<>> /\ out' = P!Step(out) /\ UNCHANGED done
       \/ out.work = <<>> /\ done' = TRUE /\ UNCHANGED out
    /\ UNCHANGED <<stage, input>>

\* Whatever the tokens, recovery leaves one tree over all of them: every node's
\* tokens lie inside its parent's, siblings do not overlap, the root holds the
\* file, no counter the parser balances is left open, and a region it skipped
\* has a diagnostic; and it accepts without a diagnostic exactly the files of
\* the language's grammar (docs/spec/07-grammar.md), apart from files nested
\* past MAX_DEPTH (parser.rs, tree.rs).
LosslessTree ==
    /\ \A t \in {P!Tree(out)} : P!WellNested(t, Len(out.toks))
    /\ out.open = <<>> /\ out.depth = 0 /\ out.member = 0 /\ out.asm = <<>>
    /\ (\E k \in DOMAIN out.nodes : out.nodes[k].kind = "Error") => out.errs # <<>>
ParsesTheGrammar == Answered("parse") => LosslessTree /\ (out.errs = <<>> <=> G!InGrammar(out.toks))

\* The parser ends on every file, also on one that is nothing but mistakes.
ParserEnds == stage = "parse" ~> done

-----------------------------------------------------------------------------
(* Bodies for the ownership pass.                                          *)

FlowOf(t) == F!Flow(t, F!Tape(t))
FlowStage == Pending("flow") /\ Answer(FlowOf(F!Tree(input.conv, input.raises, input.body)) = {})

\* A body the ownership pass accepts has no path, through any turn of a loop,
\* any early exit and any deferred body, on which a dead value is used, a
\* linear one is lost, or a borrowed parameter is consumed (flow.rs).
AcceptedBodiesOwnRight == Answered("flow") /\ out => ~F!Misused(input.conv, input.body, {"x", "y"})

\* docs/spec/01-ownership.md:576: every place a deferred body mentions is live at
\* every exit at which that body runs, and a body that moves it moves it there.
DeferredPlacesLive == Answered("flow") /\ out => ~F!Misused(input.conv, input.body, {"x", "y"})

-----------------------------------------------------------------------------
(* Programs, lowered and verified, then run one instruction or terminator  *)
(* at a time.                                                              *)

Lowered(fs) == [f \in DOMAIN fs |-> Low!Lower(fs[f])]
Loaded(fs, low, n) == [low |-> low, mach |-> Exec!Machine(low, <<Exec!Num(n)>>), meant |-> Meant!Meaning(fs, <<n>>)]
Running == Pending("run") /\ out.mach.end = ""
RunInst == Running /\ Exec!AtInst(out.low, out.mach) /\ out' = [out EXCEPT !.mach = Exec!StepInst(out.low, @)]
                   /\ UNCHANGED <<stage, input, done>>
RunTerm == Running /\ ~Exec!AtInst(out.low, out.mach) /\ out' = [out EXCEPT !.mach = Exec!StepTerm(out.low, @)]
                   /\ UNCHANGED <<stage, input, done>>
Ended == stage = "run" /\ out.mach.end # ""

\* A run ends as the program means, with the result and the output it means:
\* every deferred body ran once, in the reverse of its order, on the edges it
\* belongs to and on no other (lower.rs record_exit, exec.rs advance_exit), and
\* no run reads an undefined value, meets an unreachable block, loses an error
\* or leaves an obligation behind.
RunsAsWritten ==
    Ended => out.mach.end = out.meant.end /\ out.mach.v = out.meant.v /\ out.mach.out = out.meant.out

\* What lowering makes of a program the verifier has nothing to say about:
\* the scopes an edge leaves are the chain from its block, its bodies are in
\* order, no two edges share their ends, deferred bodies come back (verify.rs).
VerifierAccepts ==
    stage = "run" => \A f \in DOMAIN out.low : out.low[f].err = "" /\ Fmir!Verify(out.low[f], {}) = {}

-----------------------------------------------------------------------------
(* Instructions, their aliases and immediates for the assembler.           *)

AliasInst(a) ==
    CASE a.alias = "lsl" -> Asm!LslImm(a.rd, a.rd, a.s)
      [] a.alias = "lsr" -> Asm!LsrImm(a.rd, a.rd, a.s)
      [] a.alias = "asr" -> Asm!AsrImm(a.rd, a.rd, a.s)
      [] a.alias \in {"sxtb", "sxth", "sxtw"} -> Asm!Extend("sbfm", a.rd, a.rd, a.s)
      [] a.alias \in {"uxtb", "uxth"} -> Asm!Extend("ubfm", a.rd, a.rd, a.s)
      [] a.alias = "cset" -> Asm!Cset(a.rd, a.cond)
      [] a.alias = "csetm" -> Asm!Csetm(a.rd, a.cond)
      [] a.alias = "cinc" -> Asm!Cinc(a.rd, a.rn, a.cond)
      [] a.alias = "cinv" -> Asm!Cinv(a.rd, a.rn, a.cond)
      [] a.alias = "cneg" -> Asm!Cneg(a.rd, a.rn, a.cond)
Assembled(i) == IF Asm!Accept(i) THEN Asm!Encode(i) ELSE {-1}
Refused == {-1}
AsmJobs ==
    \/ \E i \in Asm!Insts : Job("asm", i, {})
    \/ \E a \in Asm!ShiftAliases \cup Asm!CondAliases : Job("alias", a, {})
    \/ \E m \in Asm!Masks : Job("mask", m, {})
    \/ \E k \in 0..255 : Job("fpimm", k, {})
AsmStage == Pending("asm") /\ Answer(Assembled(input))
MaskStage == Pending("mask") /\ Answer(Asm!EncodeBitmask(input, 32))
AliasStage == Pending("alias") /\ Answer(Assembled(AliasInst(input)))

\* What the assembler makes of an instruction it accepts is read back by the
\* architecture's decoding tables as that instruction: operation, registers,
\* register 31 as the one named, immediates at both ends of their ranges.
\* An alias computes what its name says, bit by bit, and an immediate is
\* encodable exactly when the manual's definition says so (fors-asm).
EncodesTheInstruction ==
    /\ Answered("asm") /\ out # Refused => Asm!SameInstruction(input, Asm!Decode(out))
    /\ Answered("alias") /\ out # Refused => \A i \in {Asm!Decode(out)} :
          IF "s" \in DOMAIN input THEN Asm!BitfieldBits(i) = Asm!AliasBits(input, Asm!WidthOf(input.rd))
          ELSE Asm!RequireConditional(input.cond) => \A z \in BOOLEAN : Asm!Selected(i, z) = Asm!AliasSelected(input, z)
    /\ Answered("mask") => (\A t \in out : Asm!MaskOf(t[1], t[2], t[3], FALSE) = input) /\ (out # {} <=> Asm!IsMask(input, 32))
    /\ stage = "fpimm" => \A is64 \in BOOLEAN : Asm!ReadFp(Asm!Expand(input, is64), is64) = Asm!ManualFp(input)

-----------------------------------------------------------------------------
(* Types: patterns and targets, impl heads, linear types, and projections  *)
(* asked one after the other of one solver.                                *)

MatchJob(p) ==
    /\ \A s \in Types!Assignments(p) : Types!Substituted(p, s) /\ Types!Inverts(p, s)
    /\ \A t \in Types!Patterns \cup Types!Values : Types!Sound(p, t)
LinJob(ts) ==
    LET r1 == Types!Lin(ts[1], Types!LinSigs, Types!LinEnv, <<>>)
    IN Types!Lin(ts[2], Types!LinSigs, Types!LinEnv, r1.memo)
TypeJobs ==
    \/ \E p \in Types!Patterns : Job("match", p, <<>>)
    \/ \E a \in Types!RowsOf(Types!Key(50)), b \in Types!RowsOf(Types!Key(51)) : Job("overlap", <<a, b>>, <<>>)
    \/ \E t, u \in Types!LinTypes : Job("linear", <<t, u>>, <<>>)
    \/ \E max \in {1, 3, 9} : Job("norm", <<max>>, [t |-> Types!NoTy, n |-> Types!NormState(Types!Impls, max)])
MatchStage == Pending("match") /\ Answer(MatchJob(input))
OverlapStage == Pending("overlap") /\ Answer(Types!Overlap(input[1], input[2]))
LinearStage == Pending("linear") /\ Answer(LinJob(input).v)
NormAsk(q) ==
    /\ stage = "norm" /\ Len(input) < 3
    /\ input' = Append(input, q)
    /\ out' = Types!Ask(q, Types!CloseQuery(out.n))
    /\ UNCHANGED <<stage, done>>

\* Substitution is what a textbook says, matching is its inverse and never
\* guesses, two impls overlap exactly when some type is an instance of both
\* and a parameter their heads leave free is found, a type is linear exactly
\* when a value of it holds a linear one, whatever was asked before, and the
\* projections asked of one solver are answered from the impls as written:
\* a question the budget or the depth guard refused is not remembered as an
\* answer (ty.rs, subst.rs, impls.rs, normalise.rs).
TypesBehave ==
    /\ Answered("match") => out
    /\ Answered("overlap") =>
          /\ out <=> Types!CommonInstance(input[1], input[2])
          /\ Types!Unconstrained(input[1]) = {} <=> Types!Determined(input[1])
    /\ Answered("linear") =>
          /\ out = Types!HoldsLinear(input[2])
          /\ Types!LinComponents(input[2], Types!LinSigs, Types!LinEnv, <<>>).v = Types!HoldsLinearInside(input[2])
          /\ Types!OpenLeaves(input[2], Types!LinSigs, Types!LinEnv) = Types!RigidInside(input[2])
    /\ stage = "norm" /\ Len(input) > 1 =>
          Types!AnswerRight(input[Len(input)], out) /\ Types!MemoRight(out.n) /\ Types!NoImplRight(out.n)

-----------------------------------------------------------------------------
(* Signatures through their canonical bytes, lowered declarations through  *)
(* words and text: written, read back, and on the way left alone, cut      *)
(* short, changed in one place, or said again in other words.              *)

Codec(s, in, at, v, bs) ==
    Job(s, in, [at |-> at, v |-> v, was |-> v, bs |-> bs, first |-> <<>>, rest |-> 0, how |-> "given"])
CodecJobs ==
    \/ \E g \in Sigs!Sigs, p \in Sigs!Policies : Codec("sig", [key |-> g.key, policy |-> p], "value", g, <<>>)
    \/ \E d \in Fmirs!Decls : Codec("words", d = Fmirs!Rich, "value", d, <<>>)
    \/ \E t \in Fmirs!Texts : Codec("text", <<>>, "bytes", <<>>, t)
    \/ \E f \in Fmirs!Renamings : Job("renamed", f, <<>>)
InCodec(at) == stage \in {"sig", "words", "text"} /\ out.at = at /\ UNCHANGED <<stage, input, done>>
Encoded(v) ==
    CASE stage = "sig" -> Sigs!EncodeSig(v, input.policy) [] stage = "words" -> Fmirs!ToWords(v) [] stage = "text" -> Fmirs!Dump(v)
\* What the reader makes of it: nothing or the value, and what it left unread.
Unread(d) == [v |-> IF d.err = "" THEN d.st ELSE <<>>, rest |-> Len(d.b) + 1 - d.i]
Parsed(r) == [v |-> IF r.err = "" THEN <<r.d>> ELSE <<>>, rest |-> 0]
Decoded(bs) ==
    CASE stage = "sig" -> Unread(Sigs!DecodeSig(bs, input.key)) [] stage = "words" -> Unread(Fmirs!FromWords(bs))
      [] stage = "text" -> Parsed(Fmirs!Parse(bs))
Read(r) == out' = [out EXCEPT !.at = IF r.v = <<>> THEN "refused" ELSE "read", !.v = IF r.v = <<>> THEN @ ELSE r.v[1], !.rest = r.rest]
Write == \/ InCodec("value") /\ out' = [out EXCEPT !.at = "bytes", !.was = out.v, !.bs = Encoded(out.v)]
         \/ /\ InCodec("read") /\ (out.how = "changed" \/ (out.how = "given" /\ stage = "text"))
            /\ out' = [out EXCEPT !.at = "value", !.how = "copied"]
ReadBack == InCodec("bytes") /\ \E r \in {Decoded(out.bs)} : Read(r)
Damage ==
    /\ InCodec("bytes") /\ out.how = "given"
    /\ stage = "sig" => input.policy = Sigs!FingerprintPolicy
    /\ stage = "words" => input
    /\ \/ \E n \in 0..Len(out.bs) - 1 : stage # "text" /\ out' = [out EXCEPT !.how = "cut", !.bs = SubSeq(@, 1, n)]
       \/ \E n \in DOMAIN out.bs : stage = "sig" /\ out' = [out EXCEPT !.how = "changed", !.bs[n] = (@ + 1) % 256]
       \/ \E n \in DOMAIN out.bs : stage = "words" /\ out' = [out EXCEPT !.how = "changed", !.bs[n] = Fmirs!OneMore(@)]
       \/ /\ stage = "text"
          /\ \E k \in DOMAIN out.bs : \E i \in DOMAIN out.bs[k] : out' = [out EXCEPT !.how = "changed", !.bs[k] = RemoveAt(@, i)]
Reword ==
    /\ InCodec("bytes") /\ out.how = "given" /\ stage = "sig" /\ input.policy = Sigs!FingerprintPolicy
    /\ out' = [out EXCEPT !.at = "value", !.how = "reworded", !.first = out.bs, !.v = Sigs!Rewritten(@)]
RenamedStage == Pending("renamed") /\ Answer(Fmirs!Hashed(Fmirs!Permuted(Fmirs!Rich, input)))

\* A signature read back from its bytes says what it said, under every policy;
\* written in another order and with other parameter names it has the same
\* fingerprint bytes; bytes cut short are an error, and a changed byte is an
\* error or a signature that itself survives (fors-fir encode.rs).  So does
\* a lowered declaration as words and as text, and the words its hash is of do
\* not depend on how its blocks are numbered (fors-fmir encode.rs, dump.rs,
\* parse.rs).
EncodingsSurvive ==
    /\ stage \in {"sig", "words", "text"} =>
        /\ out.at = "refused" => out.how \in {"cut", "changed"}
        /\ out.at = "read" => out.how # "cut" /\ (out.how # "changed" => out.rest = 0)
        /\ out.at = "read" /\ out.how # "changed" /\ (stage = "text" => out.how = "copied") =>
              IF stage = "sig" THEN Sigs!Meaning(out.v, input.policy) = Sigs!Meaning(out.was, input.policy) ELSE out.v = out.was
        /\ out.at = "bytes" /\ out.how = "reworded" => out.bs = out.first
    /\ Answered("renamed") => out = Fmirs!RichHash

-----------------------------------------------------------------------------
(* The interpreter's arithmetic, the stencils of the native backend, and   *)
(* whole images run against a kernel that takes part of a write, is        *)
(* interrupted or fails.                                                   *)

\* Widths to a smaller scale that keeps what the code relies on: two 32-bit
\* factors fit a 64-bit product, an f64 is exact on 32-bit integers and not on
\* 64-bit ones, an f32 is not exact on 32-bit ones.
ScaledWidths == [i8 |-> 2, i16 |-> 3, i32 |-> 6, i64 |-> 12, u8 |-> 2, u16 |-> 3, u32 |-> 6, u64 |-> 12]
FloatPatterns == {b \in Nat64!Patterns(Nat64!F64) : b % 3 = 0 \/ b % 64 \in {1, 63}}
Pairs(k) == Nat64!Samples(k) \X Nat64!Samples(k)
FloatJobs == \E b \in FloatPatterns, k \in Nat64!IntKinds : Job("float", <<b, k>>, <<>>)
NativeJobs ==
    \/ \E k \in Nat64!IntKinds, op \in {"add", "sub", "mul", "div", "rem"}, mode \in Nat64!IntModes : Job("arith", <<op, mode, k>>, <<>>)
    \/ \E b \in Nat64!Patterns(Nat64!F32) : Job("frem", b, <<>>)
    \/ \E k \in Nat64!AllKeys : Job("stencil", k, <<>>)
    \/ \E n \in DOMAIN Nat64!Carried : Job("native", Nat64!Carried[n], [meant |-> Nat64!Meaning(Nat64!Carried[n]), ran |-> Nat64!NotStarted])
    \/ \E n \in DOMAIN Nat64!Uncarried : Job("refuse", Nat64!Uncarried[n], <<>>)
    \/ FloatJobs
ArithStage ==
    Pending("arith") /\ Answer([p \in Pairs(input[3]) |-> Nat64!IntBinop(input[1], input[2], p[1], p[2], input[3])])
FremStage == Pending("frem") /\ Answer([b \in Nat64!Patterns(Nat64!F32) |-> Nat64!Frem(input, b, Nat64!F32)])
FloatStage == Pending("float") /\ Answer(Nat64!Conversions(Nat64!FromBits(input[1], Nat64!F64), input[2]))
StencilStage == Pending("stencil") /\ Answer(Nat64!StencilResults(input, Nat64!StencilText(input)))
Start == Pending("native") /\ out.ran = Nat64!NotStarted /\ out' = [out EXCEPT !.ran = Nat64!Loaded(input)] /\ UNCHANGED <<stage, input, done>>
\* The kernel answers a write, and the program runs on to the next.
Kernel ==
    /\ Pending("native") /\ out.ran.m.end = "svc"
    /\ \E m \in Nat64!Served(out.ran) : out' = [out EXCEPT !.ran = Nat64!Resumed(@, m)]
    /\ UNCHANGED <<stage, input, done>>
RefuseStage == Pending("refuse") /\ Answer(Nat64!Compiled(input).err)

\* Every operation in every mode gives what the language promises; the
\* remainder of floats is exact.  Each stencil with its holes filled computes
\* what the interpreter computes, its traps included; an image ends as the
\* interpreter does, at the breakpoint of the instruction that traps, having
\* written the same bytes however the kernel cuts up its writes, unless the
\* kernel fails; what the backend cannot carry it refuses (arith.rs,
\* stencil/int.rs, emit.rs, rt/write.rs, place.rs).
NativeMeansTheSame ==
    /\ Answered("arith") => \A p \in DOMAIN out : out[p] = Nat64!Promised(input[1], input[2], p[1], p[2], input[3])
    /\ Answered("frem") => \A b \in DOMAIN out : Nat64!FremRight(input, b, out[b], Nat64!F32)
    /\ Answered("float") => Nat64!FloatConversionRight(Nat64!FromBits(input[1], Nat64!F64), input[2], out)
    /\ Answered("stencil") => \A p \in DOMAIN out : out[p] = Nat64!Meant(input, p)
    /\ stage = "native" /\ out.ran.m.end \notin {"svc", "none"} => Nat64!RanAlike(out.meant, out.ran)
    /\ Answered("refuse") => out # ""

-----------------------------------------------------------------------------
(* Token files of the grammar for the parser: every kind of declaration,   *)
(* statement, expression, type and pattern is in one of them.              *)

InFn(b) == <<"fn", "ident", "(", ")", "{">> \o b \o <<"}">>
Files == <<
    <<"module", "ident", ";", "contracts", ":", ".", "ident", ";", "needs", "{", "asm", ",", "ident", "}", ";",
      "inputs", "{", "str", "}", ";">>,
    <<"pub", "use", "ident", ".", "ident", "as", "ident", ",", "ident", ";", "pub", "const", "ident", ":", "ident",
      "=", "int", ";">>,
    <<"@", "ident", "(", "ident", ":", "int", ")", "extern", "str", "fn", "ident", "(", "let", "ident", ":",
      "ident", ")", ";">>,
    <<"soa", "struct", "ident", "[", "ident", ":", "brand", "]", "invariant", "ident", "<", "int", "{", "pub",
      "ident", ":", "ident", ",", "}">>,
    <<"enum", "ident", "{", "ident", "(", "ident", ")", ",", "ident", "{", "ident", ":", "ident", "}", "}">>,
    <<"trait", "ident", "{", "type", "ident", ":", "ident", "+", "ident", ";", "fn", "ident", "(", "inout",
      "self", ")", ";", "}">>,
    <<"impl", "[", "ident", ".", "ident", ":", "ident", "]", "ident", "for", "ident", "{", "type", "ident", "=",
      "ident", ";", "pub", "fn", "ident", "(", "set", "self", ")", "{", "}", "}">>,
    <<"fn", "ident", "(", ")", "->", "scoped", "(", "ident", ")", "imm", "ident", "[", "ident", "+", "int", ",",
      "-", "int", "]", "raises", "ident", "pre", "ident", "{", "}">>,
    InFn(<<"let", "(", "ident", ",", "_", ")", ":", "fn", "(", "sink", "ident", ")", "->", "ident", "=", "ident",
           "{", "ident", ":", "int", "}", ";">>),
    InFn(<<"if", "ident", "{", "}", "else", "if", "ident", ".", "ident", "(", ")", "{", "}", "ident", "[", "int",
           "]", "=", "int", ";">>),
    InFn(<<"match", "ident", "{", ".", "ident", "(", "let", "ident", ")", "=>", "{", "}", "ident", "{", "ident",
           ":", "_", "}", "=>", "int", ",", "}">>),
    InFn(<<"ident", "(", "&", "out", "ident", ",", "+", ",", "ident", ":", "-", "int", ")", "else", "|", "ident",
           "|", "{", "}", ";">>),
    InFn(<<"parallel", "for", "ident", "in", "int", "..<", "int", "grain", "int", "{", "}", "simd", "for", "_",
           "in", "ident", "{", "}">>),
    InFn(<<"with", "arena", "ident", ":", "ident", "{", "break", ";", "}", "defer", "ident", "(", ")", "?", ";",
           "consume", "ident", ".", "ident", ";">>),
    InFn(<<"ident", "as", "ident", "==", "ident", "or", "not", "ident", "and", "ident", ";", "return", "|", "set",
           "ident", "|", "ident", ";">>),
    InFn(<<"asm", "(", "ident", ")", "{", "in", "(", "ident", ")", "=", "int", ",", "str", ",", "clobber", "(",
           "ident", ")", "}", ";", "[", "int", ";", "int", "]">>),
    InFn(<<"@", "ident", "{", "discard", "ident", "[", "iso", "ident", "]", ";", "}", "ident", "[", "ident", "]",
           "{", "}", ";", "comptime", "{", "}">>),
    InFn(<<"ident", "&", "ident", "&", "ident", ";", "ident", "<<", "int", ";", "(", "(", "(", "int", ")", ")",
           ")", "+", "int">>)
>>

\* files that only look like it: operators that do not mix or chain, statements
\* that may not stand where they do
Near == {InFn(b) : b \in {
    <<"ident", "&", "ident", "|", "ident", ";">>, <<"ident", "<<", "int", "<<", "int", ";">>,
    <<"ident", "&", "ident", "+", "int", ";">>, <<"int", "..<", "int", "..<", "int", ";">>,
    <<"ident", "<", "ident", "<", "ident", ";">>, <<"ident", "=", "ident", "=", "ident", ";">>,
    <<"not", "ident", "==", "ident", ";">>, <<"ident", "as", "ident", "as", "ident", ";">>,
    <<"ident", "and", "ident", "or", "ident", ";">>, <<"if", "ident", "{", "ident", ":", "int", "}", "{", "}">>,
    <<"int", "=", "ident", ";">>, <<"ident", "(", ")", "=", "int", ";">>, <<"let", "ident", ";">>,
    <<"ident", "ident", ";">>, <<"break", "ident", ";">>, <<"fn", "ident", "(", ")", "{", "}">>}}

\* a file, with any of its tokens deleted or replaced by one that opens, closes
\* or starts something else
Edited(f) ==
    {f} \cup {SubSeq(f, 1, i - 1) \o SubSeq(f, i + 1, Len(f)) : i \in 1..Len(f)}
        \cup {[f EXCEPT ![i] = t] : i \in 1..Len(f), t \in {"}", "("}}
TokenFiles == {Append(f, "eof") : f \in Near \cup UNION {Edited(Files[k]) : k \in DOMAIN Files}}

-----------------------------------------------------------------------------
(* Bodies over linear locals x and y and a parameter p for the ownership   *)
(* pass, in the form FlowCheck describes.                                  *)

S(k) == [k |-> k, v |-> ""]
V(k, v) == [k |-> k, v |-> v]
Deferred(k, do, v) == [k |-> k, do |-> do, v |-> v]
If(t) == [k |-> "if", thn |-> t, els |-> <<>>, alt |-> FALSE]
IfElse(t, e) == [k |-> "if", thn |-> t, els |-> e, alt |-> TRUE]
While(t) == [k |-> "while", thn |-> t]
Block(t) == [k |-> "block", thn |-> t]

On(v) == {V(k, v) : k \in {"use", "move", "set"}}
Leaves == On("x") \cup {S("return"), S("raise"), S("try")}
LoopLeaves == Leaves \cup {S("break"), S("continue")}
Defers == {Deferred(k, d, "x") : k \in {"defer", "errdefer"}, d \in {"use", "move"}}
\* one more deferred body on the same local, in a block of its own: the pass
\* judges each alone, so a body that already has one is left to TwoDefers
Compounds ==
    {If(b) : b \in UpTo(Leaves, 2)} \cup {IfElse(a, b) : a, b \in UpTo(Leaves, 1)}
    \cup {While(b) : b \in UpTo(LoopLeaves, 2)} \cup {While(<<If(<<a, b>>)>>) : a \in On("x"), b \in LoopLeaves}
    \cup {While(<<d, a>>) : d \in Defers, a \in LoopLeaves}
    \cup {Block(<<d, a>>) : d \in Defers, a \in Leaves}
HasDefer(s) == s.k \in {"while", "block"} /\ \E i \in DOMAIN s.thn : s.thn[i] \in Defers
LetX == <<V("let", "x")>>
XBodies ==
    {LetX \o a \o b : a \in UpTo(Leaves, 1), b \in UpTo(Leaves \cup Compounds, 1)}
    \cup {LetX \o <<d>> \o b : d \in Defers, b \in UpTo(Leaves \cup {c \in Compounds : ~HasDefer(c)}, 1)}
TwoDefers == {LetX \o <<d, e>> : d, e \in Defers} \cup {LetX \o <<d, Block(<<e>>)>> : d, e \in Defers}
\* a let parameter is never assigned (another pass), and assigning an inout one
\* is left out: the pass does not see the value it drops
PBodies(conv) ==
    {<<a>> \o b : a \in {V(k, "p") : k \in {"use", "move", "field", "part"} \cup (IF conv = "sink" THEN {"set"} ELSE {})}
                        \cup {Deferred(k, d, "p") : k \in {"defer", "errdefer", "closure"}, d \in {"use", "move"}},
                  b \in UpTo({V("move", "p"), S("try"), S("raise"), If(<<V("move", "p")>>),
                              If(<<V("move", "p"), S("return")>>), While(<<V("move", "p"), S("break")>>)}, 1)}
TwoBodies ==
    {<<V("let", "x"), V("lettry", "y"), a, b>> :
        a, b \in {V("move", "x"), V("move", "y"), Deferred("defer", "move", "x"), Deferred("errdefer", "move", "x"),
                  S("try"), IfElse(<<V("move", "x")>>, <<V("move", "y")>>), Block(<<V("let", "x"), V("move", "x")>>)}}

FlowJob(c, b) == \E r \in F!MayRaise(b) : Job("flow", [conv |-> c, raises |-> r, body |-> b], <<>>)

-----------------------------------------------------------------------------
Init ==
    \/ \E fs \in Meant!AllPrograms, n \in 0..1 : Job("run", <<>>, Loaded(fs, Lowered(fs), n))
    \/ AsmJobs
    \/ TypeJobs \/ CodecJobs \/ NativeJobs
    \/ \E s \in Sources : Job("lex", s, <<>>)
    \/ \E s \in Texts : Job("lines", s, <<>>)
    \/ \E f \in TokenFiles : Job("parse", <<>>, P!Start0(f))
    \/ \E c \in {"let", "inout", "sink"} : \E b \in PBodies(c) : FlowJob(c, b)
    \/ \E b \in XBodies \cup TwoBodies : FlowJob("let", b)

Next == AsmStage \/ MaskStage \/ AliasStage \/ LexStage \/ LinesStage \/ ParseStep \/ FlowStage \/ RunInst \/ RunTerm
        \/ MatchStage \/ OverlapStage \/ LinearStage \/ (\E q \in Types!Questions : NormAsk(q)) \/ Write \/ ReadBack \/ Damage \/ Reword \/ RenamedStage
        \/ ArithStage \/ FremStage \/ FloatStage \/ StencilStage \/ Start \/ Kernel \/ RefuseStage

Spec == Init /\ [][Next]_vars /\ WF_vars(ParseStep)

\* Bodies that defer the same local twice.
TwoDefersInit == \E b \in TwoDefers : FlowJob("let", b)
TwoDefersSpec == TwoDefersInit /\ [][FlowStage]_vars

=============================================================================
