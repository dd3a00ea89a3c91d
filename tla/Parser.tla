------------------------------- MODULE Parser -------------------------------
(***************************************************************************)
(* The parser of fors-syntax (parser.rs) and its tree builder (tree.rs).   *)
(*                                                                         *)
(* The recursive descent is a machine with an explicit stack: `work' holds *)
(* the moves still to make, a rule is the sequence of moves its function   *)
(* makes, and Step makes the first one.  A token is its spelling; "ident", *)
(* "int", "float", "str" and "mstr" stand for the tokens with a text, and  *)
(* the contextual words (Words) are identifiers spelled that way.  Trivia  *)
(* and error tokens, which the parser steps over, and the wording of       *)
(* diagnostics are left out: a diagnostic is where it was raised and its   *)
(* code.                                                                   *)
(***************************************************************************)
EXTENDS Naturals, Sequences, FiniteSets

CONSTANTS MAX_DEPTH, MAX_POSTFIX_CHAIN, MAX_ATTR_SCAN

Words == {"soa", "self", "set", "out", "clobber", "arena", "allocator", "pre", "post",
          "invariant", "grain", "brand", "scoped", "contracts", "needs", "inputs"}

MulOps == {"*", "/", "%"}
AddOps == {"+", "-"}
RangeOps == {"..<", "..="}
CmpOps == {"==", "!=", "<", ">", "<=", ">="}
BitOps == {"&", "|", "^", "<<", ">>"}
BinOps == MulOps \cup AddOps \cup RangeOps \cup CmpOps \cup BitOps
AssignOps == {"=", "+=", "-=", "*=", "/=", "%=", "&=", "|=", "^=", "<<=", ">>="}
UnambiguousBareOps == CmpOps \cup {"+", "*", "/", "%", "^", "<<", ">>", "and", "or"}
StmtKeywords == {"let", "var", "if", "match", "for", "while", "break", "continue", "return",
                 "raise", "with", "parallel", "simd", "spawn", "consume", "discard",
                 "comptime", "defer", "errdefer"}
Openers == {"(", "[", "{"}
Closers == {")", "]", "}"}
Strings == {"str", "mstr"}
Numbers == {"int", "float"}
Literals == Numbers \cup Strings \cup {"true", "false"}
Qualifiers == {"iso", "imm", "secret"}
Conventions == {"let", "inout", "sink"}

-----------------------------------------------------------------------------
\* Looking at the tokens.  A test is a set of alternatives, each the sets the
\* next tokens must be in.

Is(t, S) == t \in S \/ (t \in Words /\ "ident" \in S)

Nth(s, n) == s.toks[IF s.p + n <= Len(s.toks) THEN s.p + n ELSE Len(s.toks)]

AtAny(s, S) == Is(Nth(s, 0), S)

Looking(s, test) == \E alt \in test : \A n \in DOMAIN alt : Is(Nth(s, n - 1), alt[n])

At(S) == {<<S>>}

DeclKeywords == {"use", "struct", "enum", "trait", "impl", "const", "extern"}

DeclSyncAt(s, o) ==
    \/ Nth(s, o) \in DeclKeywords \cup {"module"}
    \/ Nth(s, o) = "fn" /\ Is(Nth(s, o + 1), {"ident"})
    \/ Nth(s, o) = "pub" /\ \/ Nth(s, o + 1) \in DeclKeywords \cup {"fn"}
                            \/ Nth(s, o + 1) = "soa" /\ Nth(s, o + 2) = "struct"
    \/ Nth(s, o) = "soa" /\ Nth(s, o + 1) = "struct"

\* The tokens after the "(" at offset i up to its ")" at offset j, as far as
\* the scan goes.
AttrArgsEnd(s, i, j) ==
    /\ Nth(s, j) = ")"
    /\ \A k \in i .. j - 1 : Nth(s, k) \notin {")", "eof"} /\ k <= MAX_ATTR_SCAN

AttrsPrecedeDecl(s) ==
    LET from[i \in 0 .. Len(s.toks) + 2] ==
          IF Nth(s, i) # "@" THEN DeclSyncAt(s, i)
          ELSE /\ Is(Nth(s, i + 1), {"ident"})
               /\ IF Nth(s, i + 2) # "(" THEN from[i + 2]
                  ELSE \E j \in i + 3 .. Len(s.toks) : AttrArgsEnd(s, i + 2, j) /\ from[j + 1]
    IN  from[0]

AtDeclSync(s) == DeclSyncAt(s, 0) \/ (Nth(s, 0) = "@" /\ AttrsPrecedeDecl(s))

AtBodyOverrun(s) == DeclSyncAt(s, 0) /\ ~Looking(s, {<<{"fn"}>>, <<{"pub"}, {"fn"}>>})

AtStmtSync(s) == AtAny(s, {";", "}", "eof"} \cup StmtKeywords) \/ AtDeclSync(s)

AtRecoveryStop(s) ==
    AtAny(s, {";", ",", "=>", "{", "else", "@", "eof"} \cup Closers \cup StmtKeywords) \/ AtDeclSync(s)

-----------------------------------------------------------------------------
\* The tree builder: nodes in the order they were opened, each with the tokens
\* it spans; a node wrapped later points at its wrapper.

Consumed(s) == s.p - 1

Opened(s, kind, first, start) ==
    [s EXCEPT !.nodes = Append(@, [kind |-> kind, first |-> first, end |-> first, endIdx |-> Len(@) + 1,
                                   start |-> IF start = 0 THEN Len(@) + 1 ELSE start]),
              !.open = <<Len(s.nodes) + 1>> \o @,
              !.last = 0]

StartNode(s, kind) == Opened(s, kind, Consumed(s), 0)

FinishNode(s) ==
    [s EXCEPT !.nodes[Head(s.open)].end = Consumed(s),
              !.nodes[Head(s.open)].endIdx = Len(s.nodes),
              !.open = Tail(@),
              !.last = Head(s.open)]

\* A wrapper that forgets where the node it encloses starts.
WrapHere(s, kind) == IF s.last = 0 THEN StartNode(s, kind) ELSE Opened(s, kind, Consumed(s), s.nodes[s.last].start)

WrapLastSibling(s, kind) ==
    IF s.last = 0 THEN StartNode(s, kind)
    ELSE Opened(s, kind, s.nodes[s.last].first, s.nodes[s.last].start)

SetCurrentKind(s, kind) == [s EXCEPT !.nodes[Head(s.open)].kind = kind]

SetLastKind(s, kind) == IF s.last = 0 THEN s ELSE [s EXCEPT !.nodes[s.last].kind = kind]

EmptyNode(s, kind) == FinishNode(StartNode(s, kind))

\* finish: wrappers come before what they enclose, the outermost first.  A
\* node's place in the tree is the number of nodes that come before it.
Before(nodes, i, j) == \/ nodes[i].start < nodes[j].start
                       \/ nodes[i].start = nodes[j].start /\ i > j

Tree(s) ==
    [j \in DOMAIN s.nodes |->
       [kind |-> s.nodes[j].kind, first |-> s.nodes[j].first, end |-> s.nodes[j].end,
        at |-> Cardinality({i \in DOMAIN s.nodes : Before(s.nodes, i, j)}),
        size |-> s.nodes[j].endIdx + 1 - s.nodes[j].start]]

-----------------------------------------------------------------------------
\* Small steps of the parser.

BumpTok(s) == IF s.p < Len(s.toks) THEN [s EXCEPT !.p = @ + 1] ELSE s

Report(s, code) ==
    IF s.lastErr = s.p THEN s
    ELSE [s EXCEPT !.lastErr = s.p, !.errs = Append(@, [at |-> s.p, code |-> code])]

Do(s, moves) == [s EXCEPT !.work = moves \o @]

-----------------------------------------------------------------------------
\* Moves, and the sequences of moves the rules are written in.

Bump == <<<<"bump">>>>
Expect(k) == <<<<"expect", k>>>>
IfExpect(k, yes, no) == <<<<"ifexpect", k, yes, no>>>>
If(test, yes, no) == <<<<"if", test, yes, no>>>>
When(test, yes) == If(test, yes, <<>>)
Cases(list, other) == <<<<"cases", list, other>>>>
While(test, body) == <<<<"while", test, body>>>>
Opt(k) == When(At({k}), Bump)
Err(code) == <<<<"err", code>>>>
Start(kind) == <<<<"start", kind>>>>
Finish == <<<<"finish">>>>
Node(kind, body) == Start(kind) \o body \o Finish
Wrap(kind, body) == <<<<"wrap", kind>>>> \o body \o Finish
Kind(kind) == <<<<"kind", kind>>>>
Empty(kind) == Node(kind, <<>>)
Call(rule) == <<<<"call", rule, FALSE>>>>
CallWith(rule, flag) == <<<<"call", rule, flag>>>>
Enter(body) == <<<<"enter", body>>>>
Flag(name, value) == <<<<"flag", name, value>>>>
IfFlag(name, yes, no) == <<<<"ifflag", name, yes, no>>>>
NotPlace == Flag("place", FALSE)
IsPlace == Flag("place", TRUE)
Moved(before, yes, no) == <<<<"moved", before, yes, no>>>>
Skip(stops) == <<<<"skip", stops, 0>>>>
SkipNode(stops) == <<<<"skipnode", stops>>>>
SkipGroup == Start("Error") \o <<<<"group", 0>>>> \o Finish
Semi == <<<<"semi">>>>
Close(k) == <<<<"close", k>>>>
Delimited(open, close, minOne, item) == <<<<"delim", open, close, minOne, item>>>>
Body(rule) == <<<<"body", rule>>>>
ErrorNode == <<<<"errnode">>>>
BumpNode(kind) == Node(kind, Bump)

-----------------------------------------------------------------------------
\* Names, headers, attributes.

PathTokens == Expect("ident") \o While({<<{"."}, {"ident"}>>}, Bump \o Bump)
Path(kind) == Node(kind, PathTokens)
UseItem == Node("UseItem", Path("Path") \o When(At({"as"}), Bump \o Expect("ident")))
NeedsPath == If(At({"asm"}), BumpNode("Path"), Path("Path"))
DotLit == Node("DotLit", Expect(".") \o Expect("ident"))

Literal(yes, no) ==
    Cases(<<<<At(Literals), BumpNode("Literal") \o yes>>,
            <<{<<{"."}, {"ident"}>>}, DotLit \o yes>>>>, no)

File ==
    Node("File",
      When(At({"module"}), Node("ModuleHdr", Bump \o Path("Path") \o Semi))
      \o When(At({"contracts"}), Node("ContractsClause", Bump \o Expect(":") \o DotLit \o Semi))
      \o When(At({"needs"}), Node("NeedsClause", Bump \o Delimited("{", "}", FALSE, NeedsPath) \o Semi))
      \o When(At({"inputs"}),
           Node("InputsClause",
             Bump \o Delimited("{", "}", FALSE, If(At(Strings), Literal(<<>>, <<>>), Err("Expected"))) \o Semi))
      \o While({<<{"use"}>>, <<{"pub"}, {"use"}>>},
           Node("UseDecl", Opt("pub") \o Bump \o UseItem \o While(At({","}), Bump \o UseItem) \o Semi))
      \o <<<<"decls">>>> \o <<<<"bumpany">>>>)

Attribute ==
    Node("Attribute",
      Bump \o Expect("ident")
      \o If(At({"["}), Err("Expected") \o SkipGroup,
            When(At({"("}), Delimited("(", ")", FALSE, Call("attr_arg")))))

AttrArg ==
    Node("AttrArg",
      When({<<{"ident"}, {":"}>>}, Bump \o Bump)
      \o Literal(<<>>, If(At({"ident"}), Path("Path"), Err("Expected"))))

Attributes == While(At({"@"}), Call("attribute"))

-----------------------------------------------------------------------------
\* Declarations.

Generics == Node("Generics", Delimited("[", "]", TRUE, Call("gparam")))
OptGenerics == When(At({"["}), Generics)
Type == CallWith("type", FALSE)
Expr == CallWith("expr", FALSE)
ExprNs == CallWith("expr", TRUE)
Block == Call("block")

SkipAssocItem == SkipNode({";", "}", "fn", "type", "pub", "@"}) \o Opt(";")

StructDecl ==
    Bump \o Expect("ident") \o OptGenerics
    \o Flag("header", TRUE) \o While(At({"invariant"}), Call("contract")) \o Flag("header", FALSE)
    \o Delimited("{", "}", FALSE, Call("field")) \o Kind("StructDecl")

Decl(before) ==
    Start("Error") \o Attributes \o Opt("pub")
    \o Cases(<<
        <<At({"fn"}), Call("fn_sig") \o Block \o Kind("FnDecl")>>,
        <<At({"extern"}), Bump \o Expect("str") \o If(At({"fn"}), Call("fn_sig"), Err("Expected")) \o Semi
                          \o Kind("ExternFnDecl")>>,
        <<At({"struct"}), StructDecl>>,
        <<{<<{"soa"}, {"struct"}>>}, Bump \o StructDecl>>,
        <<At({"enum"}), Bump \o Expect("ident") \o OptGenerics \o Delimited("{", "}", TRUE, Call("evariant"))
                        \o Kind("EnumDecl")>>,
        <<At({"trait"}), Bump \o Expect("ident") \o OptGenerics \o CallWith("item_body", FALSE) \o Kind("TraitDecl")>>,
        <<At({"impl"}), Bump \o OptGenerics \o Type \o When(At({"for"}), Bump \o Type)
                        \o CallWith("item_body", TRUE) \o Kind("ImplDecl")>>,
        <<At({"const"}), Bump \o Expect("ident") \o Expect(":") \o Type \o Expect("=") \o Expr \o Semi
                         \o Kind("ConstDecl")>>,
        <<At({"type"}), Err("UnexpectedToken") \o Bump \o SkipAssocItem \o Kind("Error")>> >>,
        Err("UnexpectedToken") \o Moved(before, <<>>, Bump) \o <<<<"skipdecl">>>> \o Kind("Error"))
    \o Finish

ItemBody(impl) ==
    IfExpect("{", <<<<"member", 1>>>> \o <<<<"members", impl>>>> \o <<<<"member", 0>>>> \o Close("}"), <<>>)

AssocTypeItem(impl) ==
    Kind(IF impl THEN "AssocTypeDef" ELSE "AssocTypeDecl") \o Bump
    \o IfExpect("ident",
         (IF impl THEN If(At({"="}), Bump \o Type, Err("Expected"))
          ELSE If(At({"="}), Err("UnexpectedToken"), When(At({":"}), Bump \o Call("bounds"))))
         \o If(At({";"}), Bump, Err("Expected") \o SkipAssocItem),
         SkipAssocItem)

Member(impl, before) ==
    Node(IF impl THEN "FnDecl" ELSE "TraitItem",
      Attributes \o (IF impl THEN Opt("pub") ELSE <<>>)
      \o Cases(<<
          <<At({"fn"}), Call("fn_sig") \o (IF impl THEN Block ELSE If(At({";"}), Bump, Block))>>,
          <<At({"type"}), Moved(before, Err("UnexpectedToken"), <<>>) \o AssocTypeItem(impl)>> >>,
          Err("Expected") \o Kind("Error") \o Moved(before, <<>>, Bump)))

Bounds == Type \o While(At({"+"}), Bump \o Type)
Contract == Node("Contract", Bump \o ExprNs)
Field == Node("Field", Opt("pub") \o Expect("ident") \o Expect(":") \o Type)

EVariant ==
    Node("EVariant",
      Expect("ident")
      \o Cases(<<<<At({"("}), Delimited("(", ")", TRUE, Type)>>,
                 <<At({"{"}), Delimited("{", "}", TRUE, Call("field"))>>>>, <<>>))

EqualityBound == Err("UnexpectedToken") \o Node("Error", Skip({",", "]", "{", ";"}))

GParam ==
    If({<<{"ident"}, {"."}>>},
       Node("GConstraint",
         Bump \o Bump
         \o IfExpect("ident", If(At({"="}), EqualityBound, IfExpect(":", Call("bounds"), <<>>)), <<>>)),
       Node("GParam",
         Expect("ident")
         \o Cases(<<<<At({":"}), Bump \o If(At({"brand"}), Bump, Call("bounds"))>>,
                    <<At({"="}), EqualityBound>>>>, <<>>)))

Convention == If(At(Conventions \cup {"set"}), Bump, Err("Expected"))
Raises == When(At({"raises"}), Node("Raises", Bump \o Type))

FnSig ==
    Node("FnSig",
      Bump \o Expect("ident") \o OptGenerics
      \o Node("Params", Delimited("(", ")", FALSE, Call("param")))
      \o When(At({"->"}), Bump \o CallWith("type", TRUE)) \o Raises
      \o While(At({"pre", "post", "invariant"}), Call("contract")))

\* A convention, then either a typed name or, in the body of a trait or impl,
\* a bare `self'.
Param ==
    LET typed == Expect("ident") \o Expect(":") \o Type
    IN  Node("Param",
          Convention
          \o Cases(<<<<{<<{"ident"}, {":"}>>}, typed>>,
                     <<At({"self"}), IfFlag("member", Bump, Err("Expected") \o Bump)>>,
                     <<At({"ident"}), Err("Expected") \o Bump>>>>, typed))

-----------------------------------------------------------------------------
\* Types.

TypeApp(bare) ==
    Start("TypeApp") \o PathTokens
    \o If(At({"["}), Delimited("[", "]", TRUE, Call("targ")) \o Finish, Finish \o bare)

FParam == Node("FParam", Convention \o Type)

TypeCore(ret) ==
    Cases(<<
      <<At({"ident"}), TypeApp(<<>>)>>,
      <<At({"("}), Node("TupleType", Delimited("(", ")", FALSE, CallWith("type", ret)))>>,
      <<At({"fn"}), Node("FnType", Bump \o Delimited("(", ")", FALSE, FParam) \o When(At({"->"}), Bump \o Type) \o Raises)>>,
      <<At({"dyn"}), Node("DynType", Bump \o If(At({"ident"}), TypeApp(<<>>), Err("Expected")))>> >>,
      Err("Expected") \o Empty("Error"))

TypeRule(ret) ==
    LET qualified == If(At(Qualifiers), Node("QualType", While(At(Qualifiers), Bump) \o TypeCore(ret)), TypeCore(ret))
    IN  Enter(IF ret THEN If({<<{"scoped"}, {"("}>>},
                             Node("ScopedType", Bump \o Bump \o Expect("ident") \o Expect(")") \o qualified),
                             qualified)
              ELSE qualified)

TArg ==
    Cases(<<
      <<At(Literals \cup {"-"}), CallWith("add_expr", FALSE)>>,
      <<At({"ident"}), Enter(TypeApp(When(At(MulOps \cup AddOps),
                         <<<<"lastkind", "NameExpr">>>> \o CallWith("mul_tail", FALSE) \o CallWith("add_tail", FALSE))))>> >>,
      Type)

-----------------------------------------------------------------------------
\* Statements.

BlockRule ==
    If(At({"{"}), Enter(Node("Block", Bump \o Body("stmt") \o Close("}"))), Err("Expected") \o Empty("Error"))

Binding ==
    Cases(<<<<At({"ident", "_"}), BumpNode("Binding")>>,
            <<At({"("}), Enter(Node("TupleBinding", Delimited("(", ")", TRUE, Call("binding"))))>>>>,
          Err("Expected") \o Empty("Error"))

ForHead == Call("binding") \o Expect("in") \o ExprNs

With ==
    Node("WithStmt",
      Bump
      \o If(At({"arena", "allocator"}), Bump, Err("Expected") \o When({<<{"ident"}, {"ident"}>>}, Bump))
      \o Expect("ident") \o Expect(":") \o Type \o Block)

Parallel ==
    Node("ParallelStmt",
      Bump
      \o When(At({"for"}), Bump \o Kind("ParallelForStmt") \o ForHead \o When(At({"grain"}), Bump \o ExprNs))
      \o Block)

ExprOrAssign ==
    Expr
    \o Cases(<<
        <<At(AssignOps), IfFlag("place", <<>>, Err("AssignTargetNotPlace"))
                         \o Wrap("AssignStmt", Bump \o Expr \o Semi)>>,
        <<At({"}"}), <<>>>> >>,
        Wrap("ExprStmt", Semi))

Stmt ==
    Cases(<<
      <<At({"let", "var"}), Node("LetStmt", Bump \o Call("binding") \o When(At({":"}), Bump \o Type)
                                            \o When(At({"="}), Bump \o Expr) \o Semi)>>,
      <<At({"if"}), Call("if_expr")>>,
      <<At({"match"}), Call("match_expr")>>,
      <<At({"comptime"}), Call("comptime_block")>>,
      <<At({"for"}), Node("ForStmt", Bump \o ForHead \o Block)>>,
      <<At({"while"}), Node("WhileStmt", Bump \o ExprNs \o Block)>>,
      <<At({"break"}), Node("BreakStmt", Bump \o Semi)>>,
      <<At({"continue"}), Node("ContinueStmt", Bump \o Semi)>>,
      <<At({"return"}), Node("ReturnStmt", Bump \o If(At({";", "}", "eof"}), <<>>, Expr) \o Semi)>>,
      <<At({"raise"}), Node("RaiseStmt", Bump \o Expr \o Semi)>>,
      <<At({"spawn"}), Node("SpawnStmt", Bump \o Expr \o Semi)>>,
      <<At({"with"}), With>>,
      <<At({"parallel"}), Parallel>>,
      <<At({"simd"}), Node("SimdForStmt", Bump \o Expect("for") \o ForHead \o Block)>>,
      <<At({"consume"}), Node("ConsumeStmt", Bump \o Call("place") \o Semi)>>,
      <<At({"discard"}), Node("DiscardStmt", Bump \o Call("place") \o Semi)>>,
      <<At({"defer"}), Node("DeferStmt", Bump \o If(At({"{"}), Block, Expr \o Semi))>>,
      <<At({"errdefer"}), Node("ErrdeferStmt", Bump \o If(At({"{"}), Block, Expr \o Semi))>>,
      <<At({"@"}), Node("AttrBlockStmt", Call("attribute") \o Block)>>,
      <<At({"{"}), Block>> >>,
      ExprOrAssign)

\* A place: its chain of fields and brackets.
PlaceRule == If(At({"ident"}), Path("NameExpr") \o <<<<"placechain", 0>>>>, Err("Expected") \o Empty("Error"))

-----------------------------------------------------------------------------
\* Expressions; ns is set where a struct literal is not allowed.

Chain(op, kind, rule, ns) ==
    CallWith(rule, ns)
    \o When(At({op}), Wrap(kind, While(At({op}), Bump \o CallWith(rule, ns))) \o NotPlace)

OrExpr(ns) == Chain("or", "OrExpr", "and_expr", ns)
AndExpr(ns) == Chain("and", "AndExpr", "not_expr", ns)

NotExpr(ns) ==
    If(At({"not"}), Enter(Node("NotExpr", Bump \o CallWith("not_expr", ns))) \o NotPlace, CallWith("cmp_expr", ns))

EatOperatorTail(ns) == While(At(BinOps), Bump \o CallWith("cast_expr", ns))
MixError(ns) == Err("BitwiseNeedsParens") \o EatOperatorTail(ns)

CmpExpr(ns) ==
    CallWith("range_or_bit", ns)
    \o IfFlag("bit", NotPlace,
         Cases(<<
           <<At(CmpOps), Wrap("CmpExpr",
                Bump \o CallWith("range_only", ns)
                \o When(At(CmpOps), Err("ComparisonChained") \o EatOperatorTail(ns))) \o NotPlace>>,
           <<At(BitOps), Wrap("Error", MixError(ns)) \o NotPlace>> >>, <<>>))

MulTail(ns) ==
    When(At(MulOps), Wrap("MulExpr", While(At(MulOps), Bump \o CallWith("cast_expr", ns))) \o NotPlace)

AddTail(ns) ==
    When(At(AddOps), Wrap("AddExpr", While(At(AddOps), Bump \o CallWith("cast_expr", ns) \o CallWith("mul_tail", ns)))
                     \o NotPlace)

AddExpr(ns) == CallWith("cast_expr", ns) \o CallWith("mul_tail", ns) \o CallWith("add_tail", ns)

\* Faulty variant: any bit operators in a row.

\* One repeated operator, or a single shift.
BitRun(ns) ==
    Cases(<<<<At({"<<", ">>"}), Bump \o CallWith("cast_expr", ns)>>,
            <<At({"&"}), While(At({"&"}), Bump \o CallWith("cast_expr", ns))>>,
            <<At({"|"}), While(At({"|"}), Bump \o CallWith("cast_expr", ns))>>>>,
          While(At({"^"}), Bump \o CallWith("cast_expr", ns)))

RangeOrBit(ns, allowBit) ==
    CallWith("cast_expr", ns)
    \o If(At(BitOps),
         IF ~allowBit THEN MixError(ns) \o NotPlace \o Flag("bit", FALSE)
         ELSE Wrap("BitExpr", BitRun(ns) \o When(At(BinOps), MixError(ns))) \o NotPlace \o Flag("bit", TRUE),
         CallWith("mul_tail", ns) \o CallWith("add_tail", ns)
         \o When(At(RangeOps),
              Wrap("RangeExpr",
                Bump \o CallWith("add_expr", ns)
                \o When(At(RangeOps), Err("RangeChained") \o EatOperatorTail(ns))) \o NotPlace)
         \o Flag("bit", FALSE))

CastExpr(ns) ==
    CallWith("unary_expr", ns)
    \o When(At({"as"}), Wrap("CastExpr", While(At({"as"}), Bump \o Type)) \o NotPlace)

UnaryExpr(ns) ==
    If(At({"-", "move"}), Enter(Node("UnaryExpr", Bump \o CallWith("unary_expr", ns))) \o NotPlace,
       CallWith("primary_expr", ns) \o <<<<"postfix", ns>>>>)

BracketArg == If(At(Qualifiers \cup {"fn", "dyn"}), Type, Expr)
Bracket == Wrap("Bracket", Enter(Delimited("[", "]", FALSE, BracketArg)))
StructLitTail ==
    Wrap("StructLit", Enter(Delimited("{", "}", FALSE, Node("FInit", Expect("ident") \o Expect(":") \o Expr))))

Handler == Node("Handler", Bump \o Bump \o Expect("ident") \o Expect("|") \o Block)

\* One step of the postfix chain: what was parsed is a place, is a bare path,
\* and is the n-th link.
Postfix(s, ns, place, bare, n) ==
    LET Next(p) == <<<<"link", ns, p, n + 1>>>>
    IN  CASE Nth(s, 0) = "?" -> Wrap("TryExpr", Bump) \o Next(FALSE)
          [] Nth(s, 0) = "." -> Wrap("FieldExpr", Bump \o Expect("ident")) \o Next(place)
          [] Nth(s, 0) = "(" -> Wrap("CallExpr", Enter(Delimited("(", ")", FALSE, Call("arg")))
                                                 \o When({<<{"else"}, {"|"}>>}, Handler)) \o Next(FALSE)
          [] Nth(s, 0) = "[" -> Bracket
               \o (IF bare /\ ~ns THEN If(At({"{"}), StructLitTail \o Next(FALSE), Next(place)) ELSE Next(place))
          [] OTHER -> Flag("place", place)

Link(s, ns, place, n) ==
    IF n < MAX_POSTFIX_CHAIN THEN Postfix(s, ns, place, FALSE, n)
    ELSE When(At(Openers \cup {"?", "."}), Err("NestingTooDeep")) \o Flag("place", place)

PlaceChain(s, n) ==
    LET next == IF n + 1 >= MAX_POSTFIX_CHAIN THEN <<>> ELSE <<<<"placechain", n + 1>>>>
    IN  CASE Nth(s, 0) = "." -> Wrap("FieldExpr", Bump \o Expect("ident")) \o next
          [] Nth(s, 0) = "[" -> Bracket \o next
          [] OTHER -> <<>>

ArgValue ==
    Cases(<<
      <<At(UnambiguousBareOps) \cup {<<{"-", "|", "&"}, {",", ")"}>>}, BumpNode("BareOp")>>,
      <<At({"&"}), Node("InoutArg",
           Bump \o When({<<{"out"}, {"ident"}>>}, Kind("SetArg") \o Bump) \o Call("place"))>> >>,
      Expr)

Arg == If({<<{"ident"}, {":"}>>}, Node("NamedArg", Bump \o Bump \o ArgValue), ArgValue)

ArrayLit ==
    Node("ArrayLit",
      Bump
      \o If(At({"]"}), <<>>,
           Expr \o If(At({";"}), Bump \o Expr, While(At({","}), Bump \o If(At({"]"}), <<>>, Expr))))
      \o Close("]"))

PrimaryExpr(ns) ==
    Literal(NotPlace,
      Cases(<<
        <<At({"ident"}), Path("NameExpr")
            \o If(At({"{"}),
                 IF ~ns THEN StructLitTail \o NotPlace
                 ELSE IfFlag("header", IsPlace,
                        If({<<{"{"}, {"ident"}, {":"}>>}, Err("Expected") \o StructLitTail \o NotPlace, IsPlace)),
                 IsPlace)>>,
        <<At({"("}), Enter(Node("TupleOrParen", Delimited("(", ")", FALSE, Expr))) \o NotPlace>>,
        <<At({"["}), Enter(ArrayLit) \o NotPlace>>,
        <<At({"|"}), Enter(Node("Closure", Delimited("|", "|", FALSE, Call("cparam"))
                                           \o If(At({"{"}), Block, CallWith("expr", ns)))) \o NotPlace>>,
        <<At({"if"}), Enter(Call("if_expr")) \o NotPlace>>,
        <<At({"match"}), Enter(Call("match_expr")) \o NotPlace>>,
        <<At({"asm"}), Enter(Call("asm_expr")) \o NotPlace>>,
        <<At({"comptime"}), Enter(Call("comptime_block")) \o NotPlace>>,
        <<At({"not"}), Err("Expected") \o CallWith("not_expr", ns) \o NotPlace>>,
        <<At({"&"}), Err("Expected") \o Enter(Node("Error", Bump \o CallWith("unary_expr", ns))) \o NotPlace>>,
        <<{<<{"."}, Numbers>>}, Err("Expected") \o Node("Error", Bump \o Bump) \o NotPlace>> >>,
        Err("Expected") \o ErrorNode \o NotPlace))

RegisterName == Expect("(") \o Expect("ident") \o Expect(")")

AsmItem ==
    Node("AsmItem",
      Cases(<<
        <<At(Strings), Bump \o <<<<"asmstring">>>> >>,
        <<At({"in"}), Bump \o RegisterName \o Expect("=") \o Expr>>,
        <<At({"out"}), Bump \o RegisterName>>,
        <<At({"clobber"}), Bump \o Delimited("(", ")", TRUE, Expect("ident"))>> >>,
        Err("Expected") \o ErrorNode))

AsmExpr ==
    Node("AsmExpr",
      Bump \o RegisterName \o <<<<"asmopen">>>> \o Delimited("{", "}", TRUE, Call("asm_item")) \o <<<<"asmclose">>>>)

CParam ==
    Node("CParam",
      When(At(Conventions) \cup {<<{"set"}, {"ident", "_"}>>}, Bump)
      \o If(At({"ident", "_"}), Bump, Err("Expected"))
      \o When(At({":"}), Bump \o Type))

ComptimeBlock == Node("ComptimeBlock", Bump \o Block)

IfChain == Bump \o ExprNs \o Block \o When(At({"else"}), Bump \o If(At({"if"}), Call("if_chain"), Block))
IfExpr == Node("IfExpr", Call("if_chain"))

MatchExpr == Node("MatchExpr", Bump \o ExprNs \o IfExpect("{", Body("arm") \o Close("}"), <<>>))

Arm ==
    Node("Arm",
      Call("pattern")
      \o IfExpect("=>",
           If(At({"{"}), Block \o Opt(","), Expr \o Cases(<<<<At({","}), Bump>>, <<At({"}"}), <<>>>>>>, Err("Expected"))),
           Node("Error", Skip({",", "}", ";"})) \o Opt(",")))

FPat ==
    Node("FPat",
      If(At({"let"}), Bump \o Expect("ident"),
         Expect("ident") \o If(At({":"}), Bump \o Call("pattern"), Err("Expected"))))

Payload ==
    When(At({"(", "{"}),
      Enter(Node("Payload", If(At({"("}), Delimited("(", ")", TRUE, Call("pattern")), Delimited("{", "}", TRUE, FPat)))))

Pattern ==
    Cases(<<
      <<At({"let"}), Node("PatLet", Bump \o Expect("ident"))>>,
      <<At({"_"}), BumpNode("PatWild")>>,
      <<At(Literals), BumpNode("PatLit")>>,
      <<{<<{"-"}, Numbers>>}, Node("PatLit", Bump \o Bump)>>,
      <<At({"."}), Node("PatDot", Bump \o Expect("ident") \o Payload)>>,
      <<At({"ident"}), Node("PatPath", PathTokens \o Payload)>>,
      <<At({"("}), Enter(Node("PatTuple", Delimited("(", ")", FALSE, Call("pattern"))))>> >>,
      Err("Expected") \o ErrorNode)

\* The function a call enters, with its flag and where it starts.
Rule(name, flag, p) ==
    CASE name = "decl" -> Decl(p)
      [] name = "attribute" -> Attribute [] name = "attr_arg" -> AttrArg
      [] name = "item_body" -> ItemBody(flag) [] name = "contract" -> Contract [] name = "field" -> Field
      [] name = "evariant" -> EVariant [] name = "gparam" -> GParam [] name = "bounds" -> Bounds
      [] name = "fn_sig" -> FnSig [] name = "param" -> Param
      [] name = "type" -> TypeRule(flag) [] name = "targ" -> TArg
      [] name = "block" -> BlockRule [] name = "binding" -> Binding [] name = "stmt" -> Stmt
      [] name = "place" -> PlaceRule
      [] name = "expr" -> OrExpr(flag) [] name = "and_expr" -> AndExpr(flag) [] name = "not_expr" -> NotExpr(flag)
      [] name = "cmp_expr" -> CmpExpr(flag) [] name = "range_or_bit" -> RangeOrBit(flag, TRUE)
      [] name = "range_only" -> RangeOrBit(flag, FALSE) [] name = "mul_tail" -> MulTail(flag)
      [] name = "add_tail" -> AddTail(flag) [] name = "add_expr" -> AddExpr(flag)
      [] name = "cast_expr" -> CastExpr(flag) [] name = "unary_expr" -> UnaryExpr(flag)
      [] name = "primary_expr" -> PrimaryExpr(flag) [] name = "arg" -> Arg
      [] name = "asm_expr" -> AsmExpr [] name = "asm_item" -> AsmItem [] name = "cparam" -> CParam
      [] name = "comptime_block" -> ComptimeBlock [] name = "if_expr" -> IfExpr [] name = "if_chain" -> IfChain
      [] name = "match_expr" -> MatchExpr [] name = "arm" -> Arm [] name = "pattern" -> Pattern

-----------------------------------------------------------------------------
\* The moves that are more than one of the small steps.

ExpectTok(s, k) == IF AtAny(s, {k}) THEN BumpTok(s) ELSE Report(s, "Expected")

TooDeep(s) ==
    Do(IF s.deep THEN s ELSE Report([s EXCEPT !.deep = TRUE], "NestingTooDeep"),
       IF AtAny(s, Openers) THEN SkipGroup ELSE Empty("Error"))

EnterRule(s, body) ==
    IF s.depth < MAX_DEPTH THEN Do([s EXCEPT !.depth = @ + 1], body \o <<<<"leave">>>>) ELSE TooDeep(s)

DepthAfter(s, d) == IF AtAny(s, Openers) THEN d + 1 ELSE IF AtAny(s, Closers) /\ d > 0 THEN d - 1 ELSE d

\* A group is skipped to the closer that balances its opener.
SkipGroupStep(s, d) ==
    IF AtAny(s, {"eof"}) \/ AtDeclSync(s) THEN s
    ELSE IF DepthAfter(s, d) = 0 THEN BumpTok(s)
    ELSE Do(BumpTok(s), <<<<"group", DepthAfter(s, d)>>>>)

Stops(s, stops, d) == AtAny(s, {"eof"}) \/ AtDeclSync(s) \/ (d = 0 /\ AtAny(s, stops))

\* Faulty variant: a closer that matches nothing is left for the caller.
SkipStepWaits(s, stops, d) ==
    IF Stops(s, stops, d) THEN s
    ELSE IF d = 0 /\ AtAny(s, Closers) THEN Do(s, <<<<"skip", stops, d>>>>)
    ELSE Do(BumpTok(s), <<<<"skip", stops, DepthAfter(s, d)>>>>)

\* Recovery counts the brackets it crosses.
SkipStep(s, stops, d) ==
    IF Stops(s, stops, d) THEN s ELSE Do(BumpTok(s), <<<<"skip", stops, DepthAfter(s, d)>>>>)

ExpectSemi(s) ==
    IF AtAny(s, {";"}) THEN BumpTok(s)
    ELSE IF AtStmtSync(s) THEN Report(s, "MissingSemicolon")
    ELSE Do(Report(s, "Expected"), Node("Error", Skip({";", "}"} \cup StmtKeywords)) \o Opt(";"))

DelimitedRule(s, open, close, minOne, item) ==
    IF ~AtAny(s, {open}) THEN Report(s, "Expected")
    ELSE Do(BumpTok(s), (IF minOne THEN When(At({close}), Err("Expected")) ELSE <<>>)
                        \o <<<<"items", close, item>>>> \o Close(close))

\* One item and, after a comma, the next: an item that took no token ends it.
ItemsStep(s, close, item) ==
    IF AtAny(s, {close, "eof"}) \/ AtDeclSync(s) THEN s
    ELSE Do(s, item \o Moved(s.p, When(At({","}), Bump \o <<<<"items", close, item>>>>), <<>>))

CloseRule(s, close) ==
    IF AtAny(s, {close}) THEN BumpTok(s)
    ELSE IF AtAny(s, {"eof"}) \/ AtDeclSync(s) THEN Report(s, "UnclosedBrace")
    ELSE Do(Report(s, "Expected"), SkipNode({close, ";"} \cup Closers) \o Opt(close))

\* The statements of a block and the arms of a match: each must move on.
BodyStep(s, rule) ==
    IF AtAny(s, {"}", "eof"}) \/ AtDeclSync(s) THEN s
    ELSE Do(s, Call(rule) \o Moved(s.p, <<>>, <<<<"unexpected">>>>) \o Body(rule))

GuardProgress(s) ==
    IF AtAny(s, {"eof"}) THEN s ELSE Do(s, Err("UnexpectedToken") \o BumpNode("Error"))

MembersStep(s, impl) ==
    IF AtAny(s, {"}", "eof"}) \/ AtBodyOverrun(s) THEN s
    ELSE Do(s, Member(impl, s.p) \o <<<<"members", impl>>>>)

FlagOf(s, name) == CASE name = "place" -> s.place [] name = "bit" -> s.bit
                     [] name = "header" -> s.header [] name = "member" -> s.member > 0

SetFlag(s, name, v) == CASE name = "place" -> [s EXCEPT !.place = v] [] name = "bit" -> [s EXCEPT !.bit = v]
                         [] name = "header" -> [s EXCEPT !.header = v]

FirstCase(s, list, other) ==
    LET hits == {i \in DOMAIN list : Looking(s, list[i][1])}
    IN  IF hits = {} THEN other ELSE list[CHOOSE i \in hits : \A j \in hits : i <= j][2]

\* Make the move m, the rest of the work being in s.
Make(s, m) ==
    CASE m[1] = "bump" -> BumpTok(s)
      [] m[1] = "bumpany" -> [s EXCEPT !.p = @ + 1]
      [] m[1] = "expect" -> ExpectTok(s, m[2])
      [] m[1] = "ifexpect" -> Do(ExpectTok(s, m[2]), IF AtAny(s, {m[2]}) THEN m[3] ELSE m[4])
      [] m[1] = "if" -> Do(s, IF Looking(s, m[2]) THEN m[3] ELSE m[4])
      [] m[1] = "cases" -> Do(s, FirstCase(s, m[2], m[3]))
      [] m[1] = "while" -> IF Looking(s, m[2]) THEN Do(s, m[3] \o <<m>>) ELSE s
      [] m[1] = "call" -> Do(s, Rule(m[2], m[3], s.p))
      [] m[1] = "err" -> Report(s, m[2])
      [] m[1] = "start" -> StartNode(s, m[2])
      [] m[1] = "finish" -> FinishNode(s)
      [] m[1] = "wrap" -> WrapLastSibling(s, m[2])
      [] m[1] = "kind" -> SetCurrentKind(s, m[2])
      [] m[1] = "lastkind" -> SetLastKind(s, m[2])
      [] m[1] = "enter" -> EnterRule(s, m[2])
      [] m[1] = "leave" -> [s EXCEPT !.depth = @ - 1]
      [] m[1] = "flag" -> SetFlag(s, m[2], m[3])
      [] m[1] = "ifflag" -> Do(s, IF FlagOf(s, m[2]) THEN m[3] ELSE m[4])
      [] m[1] = "moved" -> Do(s, IF s.p # m[2] THEN m[3] ELSE m[4])
      [] m[1] = "skip" -> SkipStep(s, m[2], m[3])
      [] m[1] = "skipnode" -> IF Stops(s, m[2], 0) THEN s ELSE Do(s, Node("Error", Skip(m[2])))
      [] m[1] = "group" -> SkipGroupStep(s, m[2])
      [] m[1] = "skipdecl" -> IF Stops(s, {"@"}, 0) THEN s ELSE Do(BumpTok(s), <<m>>)
      [] m[1] = "semi" -> ExpectSemi(s)
      [] m[1] = "delim" -> DelimitedRule(s, m[2], m[3], m[4], m[5])
      [] m[1] = "items" -> ItemsStep(s, m[2], m[3])
      [] m[1] = "close" -> CloseRule(s, m[2])
      [] m[1] = "body" -> BodyStep(s, m[2])
      [] m[1] = "unexpected" -> GuardProgress(s)
      [] m[1] = "errnode" -> Do(s, IF AtRecoveryStop(s) THEN Empty("Error") ELSE BumpNode("Error"))
      [] m[1] = "decls" -> IF AtAny(s, {"eof"}) THEN s ELSE Do(s, Call("decl") \o <<m>>)
      [] m[1] = "member" -> [s EXCEPT !.member = IF m[2] = 1 THEN @ + 1 ELSE @ - 1]
      [] m[1] = "members" -> MembersStep(s, m[2])
      [] m[1] = "postfix" -> Do(s, Postfix(s, m[2], s.place, s.place, 0))
      [] m[1] = "link" -> Do(s, Link(s, m[2], m[3], m[4]))
      [] m[1] = "placechain" -> Do(s, PlaceChain(s, m[2]))
      [] m[1] = "asmopen" -> [s EXCEPT !.asm = <<FALSE>> \o @]
      [] m[1] = "asmstring" -> [s EXCEPT !.asm[1] = TRUE]
      [] m[1] = "asmclose" -> [IF s.asm[1] THEN s ELSE Report(s, "Expected") EXCEPT !.asm = Tail(@)]

Step(s) == Make([s EXCEPT !.work = Tail(@)], Head(s.work))

\* parse_tokens: toks ends in "eof".
Start0(toks) ==
    [toks |-> toks, p |-> 1, work |-> File, nodes |-> <<>>, open |-> <<>>, last |-> 0,
     errs |-> <<>>, lastErr |-> 0, depth |-> 0, deep |-> FALSE, header |-> FALSE, member |-> 0,
     place |-> FALSE, bit |-> FALSE, asm |-> <<>>]

Parsed(s) == s.work = <<>>

\* a tree over n tokens: the root holds them all, a node's tokens lie inside
\* its parent's, and what is not nested does not overlap
WellNested(t, n) ==
    /\ \A k \in DOMAIN t : t[k].first <= t[k].end
    /\ \A k \in DOMAIN t : t[k].at = 0 =>
           t[k].kind = "File" /\ t[k].first = 0 /\ t[k].end = n /\ t[k].size = Len(t)
    /\ \A k, j \in DOMAIN t : t[k].at < t[j].at =>
           IF t[j].at < t[k].at + t[k].size
           THEN t[k].first <= t[j].first /\ t[j].end <= t[k].end /\ t[j].at + t[j].size <= t[k].at + t[k].size
           ELSE t[k].end <= t[j].first

====
