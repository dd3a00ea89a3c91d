------------------------------ MODULE Grammar ------------------------------
(***************************************************************************)
(* The language Parser accepts, as the grammar of docs/spec/07-grammar.md  *)
(* defines it: its EBNF with the choices its disambiguation rules fix.     *)
(* This is the reference the parser is compared with; it knows nothing of  *)
(* how the parser proceeds.                                                *)
(***************************************************************************)
EXTENDS Naturals, Sequences

Contextual == {"soa", "self", "set", "out", "clobber", "arena", "allocator", "pre", "post",
               "invariant", "grain", "brand", "scoped", "contracts", "needs", "inputs"}

\* Productions: a token of a set, a production (with the _ns mode), a
\* sequence, a choice, an option, a repetition, and "the next token is not".
T(S) == <<"tok", S>>
K(k) == <<"tok", {k}>>
N(name) == <<"prod", name, FALSE>>
M(name, ns) == <<"prod", name, ns>>
S(parts) == <<"seq", parts>>
A(parts) == <<"alt", parts>>
O(e) == <<"opt", e>>
R(e) == <<"rep", e>>
Not(S1) == <<"not", S1>>
Id == T({"ident"})
ListOf(open, item, close) == S(<<K(open), O(S(<<item, R(S(<<K(","), item>>)), O(K(","))>>)), K(close)>>)
SomeOf(open, item, close) == S(<<K(open), item, R(S(<<K(","), item>>)), O(K(",")), K(close)>>)
Left(op, e) == S(<<e, R(S(<<T(op), e>>))>>)

Quals == {"iso", "imm", "secret"}
Cmp == {"==", "!=", "<", ">", "<=", ">="}
Lits == {"int", "float", "str", "mstr", "true", "false"}
Assign == {"=", "+=", "-=", "*=", "/=", "%=", "&=", "|=", "^=", "<<=", ">>="}
StmtStart == {"let", "var", "if", "match", "comptime", "for", "while", "break", "continue", "return", "raise", "spawn",
              "with", "parallel", "simd", "consume", "discard", "defer", "errdefer", "@", "{"}

Decls(name) ==
    CASE name = "file" -> S(<<O(S(<<K("module"), N("path"), K(";")>>)),
                              O(S(<<K("contracts"), K(":"), K("."), Id, K(";")>>)),
                              O(S(<<K("needs"), ListOf("{", A(<<N("path"), K("asm")>>), "}"), K(";")>>)),
                              O(S(<<K("inputs"), ListOf("{", T({"str", "mstr"}), "}"), K(";")>>)),
                              R(S(<<O(K("pub")), K("use"), Left({","}, S(<<N("path"), O(S(<<K("as"), Id>>))>>)), K(";")>>)),
                              R(N("decl")), K("eof")>>)
      [] name = "path" -> S(<<Id, R(S(<<K("."), Id>>))>>)
      [] name = "attribute" -> S(<<K("@"), Id, O(ListOf("(", S(<<O(S(<<Id, K(":")>>)),
                                      A(<<T(Lits), S(<<K("."), Id>>), N("path")>>)>>), ")"))>>)
      [] name = "decl" -> S(<<R(N("attribute")), O(K("pub")),
            A(<<S(<<N("fn_sig"), N("block")>>),
                S(<<K("extern"), K("str"), N("fn_sig"), K(";")>>),
                S(<<O(K("soa")), K("struct"), Id, O(N("generics")), R(S(<<K("invariant"), M("expr", TRUE)>>)),
                    ListOf("{", N("field"), "}")>>),
                S(<<K("enum"), Id, O(N("generics")),
                    SomeOf("{", S(<<Id, O(A(<<SomeOf("(", N("type"), ")"), SomeOf("{", N("field"), "}")>>))>>), "}")>>),
                S(<<K("trait"), Id, O(N("generics")), K("{"),
                    R(A(<<S(<<R(N("attribute")), N("member_sig"), A(<<N("block"), K(";")>>)>>),
                          S(<<K("type"), Id, O(S(<<K(":"), N("bounds")>>)), K(";")>>)>>)), K("}")>>),
                S(<<K("impl"), O(N("generics")), N("type"), O(S(<<K("for"), N("type")>>)), K("{"),
                    R(A(<<S(<<R(N("attribute")), O(K("pub")), N("member_sig"), N("block")>>),
                          S(<<K("type"), Id, K("="), N("type"), K(";")>>)>>)), K("}")>>),
                S(<<K("const"), Id, K(":"), N("type"), K("="), N("expr"), K(";")>>)>>)>>)
      [] name = "fn_sig" -> S(<<K("fn"), Id, O(N("generics")), ListOf("(", N("param"), ")"), N("sig_tail")>>)
      [] name = "member_sig" -> S(<<K("fn"), Id, O(N("generics")),
                                    ListOf("(", A(<<N("param"), S(<<N("convention"), K("self")>>)>>), ")"), N("sig_tail")>>)
      [] name = "sig_tail" -> S(<<O(S(<<K("->"), N("ret_type")>>)), O(S(<<K("raises"), N("type")>>)),
                                  R(S(<<T({"pre", "post", "invariant"}), M("expr", TRUE)>>))>>)
      [] name = "generics" -> SomeOf("[", A(<<S(<<Id, O(S(<<K(":"), A(<<K("brand"), S(<<Not({"brand"}), N("bounds")>>)>>)>>))>>),
                                              S(<<Id, K("."), Id, K(":"), N("bounds")>>)>>), "]")
      [] name = "bounds" -> Left({"+"}, N("type"))
      [] name = "convention" -> T({"let", "inout", "sink", "set"})
      [] name = "param" -> S(<<N("convention"), Id, K(":"), N("type")>>)
      [] name = "field" -> S(<<O(K("pub")), Id, K(":"), N("type")>>)

Types(name) ==
    CASE name = "type" -> S(<<R(T(Quals)), N("type_core")>>)
      [] name = "type_core" -> A(<<N("type_app"), ListOf("(", N("type"), ")"), N("fn_type"), S(<<K("dyn"), N("type_app")>>)>>)
      [] name = "fn_type" -> S(<<K("fn"), ListOf("(", S(<<N("convention"), N("type")>>), ")"), O(S(<<K("->"), N("type")>>)),
                                 O(S(<<K("raises"), N("type")>>))>>)
      [] name = "ret_type" -> S(<<O(S(<<K("scoped"), K("("), Id, K(")")>>)), R(T(Quals)),
                                  A(<<N("type_app"), N("fn_type"), S(<<K("dyn"), N("type_app")>>), ListOf("(", N("ret_type"), ")")>>)>>)
      [] name = "type_app" -> S(<<N("path"), O(SomeOf("[", N("targ"), "]"))>>)
      [] name = "targ" -> A(<<N("type"), S(<<Not({"ident", "(", "[", "|", "if", "match", "comptime", "asm", ".", "move"} \cup Contextual), N("add_expr")>>),
                              S(<<N("path"), A(<<S(<<T({"*", "/", "%"}), Left({"*", "/", "%"}, N("cast_expr")),
                                                     R(S(<<T({"+", "-"}), N("mul_expr")>>))>>),
                                                 S(<<T({"+", "-"}), Left({"+", "-"}, N("mul_expr"))>>)>>)>>)>>)

Stmts(name) ==
    CASE name = "block" -> S(<<K("{"), R(N("stmt")), O(S(<<Not(StmtStart), N("expr")>>)), K("}")>>)
      [] name = "binding" -> A(<<T({"ident", "_"}), SomeOf("(", N("binding"), ")")>>)
      [] name = "for_head" -> S(<<N("binding"), K("in"), M("expr", TRUE)>>)
      [] name = "stmt" ->
           A(<<S(<<T({"let", "var"}), N("binding"), O(S(<<K(":"), N("type")>>)), O(S(<<K("="), N("expr")>>)), K(";")>>),
               N("if_expr"), N("match_expr"), S(<<K("comptime"), N("block")>>), N("block"),
               S(<<K("for"), N("for_head"), N("block")>>), S(<<K("while"), M("expr", TRUE), N("block")>>),
               S(<<T({"break", "continue"}), K(";")>>), S(<<K("return"), O(N("expr")), K(";")>>),
               S(<<T({"raise", "spawn"}), N("expr"), K(";")>>),
               S(<<K("with"), T({"arena", "allocator"}), Id, K(":"), N("type"), N("block")>>),
               S(<<K("parallel"), N("block")>>),
               S(<<K("parallel"), K("for"), N("for_head"), O(S(<<K("grain"), M("expr", TRUE)>>)), N("block")>>),
               S(<<K("simd"), K("for"), N("for_head"), N("block")>>),
               S(<<T({"consume", "discard"}), N("place"), K(";")>>),
               S(<<T({"defer", "errdefer"}), A(<<N("block"), S(<<N("expr"), K(";")>>)>>)>>),
               S(<<N("attribute"), N("block")>>),
               S(<<N("place"), T(Assign), N("expr"), K(";")>>),
               S(<<Not(StmtStart), N("expr"), K(";")>>)>>)

Exprs(name, ns) ==
    CASE name = "expr" -> Left({"or"}, M("and_expr", ns))
      [] name = "and_expr" -> Left({"and"}, M("not_expr", ns))
      [] name = "not_expr" -> A(<<S(<<K("not"), M("not_expr", ns)>>), M("cmp_expr", ns)>>)
      [] name = "cmp_expr" -> A(<<M("bit_expr", ns), S(<<M("range_expr", ns), O(S(<<T(Cmp), M("range_expr", ns)>>))>>)>>)
      [] name = "bit_expr" -> LET c == M("cast_expr", ns)
                              IN  S(<<c, A(<<S(<<K("&"), Left({"&"}, c)>>), S(<<K("|"), Left({"|"}, c)>>),
                                             S(<<K("^"), Left({"^"}, c)>>), S(<<T({"<<", ">>"}), c>>)>>)>>)
      [] name = "range_expr" -> S(<<M("add_expr", ns), O(S(<<T({"..<", "..="}), M("add_expr", ns)>>))>>)
      [] name = "add_expr" -> Left({"+", "-"}, M("mul_expr", ns))
      [] name = "mul_expr" -> Left({"*", "/", "%"}, M("cast_expr", ns))
      [] name = "cast_expr" -> S(<<M("unary_expr", ns), R(S(<<K("as"), N("type")>>))>>)
      [] name = "unary_expr" -> A(<<S(<<T({"-", "move"}), M("unary_expr", ns)>>), M("postfix_expr", ns)>>)
      [] name = "postfix_expr" -> S(<<M("primary_expr", ns),
                                      R(A(<<K("?"), S(<<K("."), Id>>), N("call"), ListOf("[", N("bracket_arg"), "]")>>))>>)
      [] name = "call" -> S(<<ListOf("(", N("arg"), ")"), O(S(<<K("else"), K("|"), Id, K("|"), N("block")>>))>>)
      [] name = "bracket_arg" -> A(<<S(<<Not({"ident", "("} \cup Contextual), N("type")>>), N("expr")>>)
      [] name = "arg" -> S(<<O(S(<<Id, K(":")>>)),
                             A(<<S(<<K("&"), O(K("out")), N("place")>>),
                                 T(Cmp \cup {"+", "-", "*", "/", "%", "&", "|", "^", "<<", ">>", "and", "or"}), N("expr")>>)>>)
      [] name = "place" -> S(<<Id, R(A(<<S(<<K("."), Id>>), ListOf("[", N("bracket_arg"), "]")>>))>>)
      [] name = "primary_expr" ->
           A((IF ns THEN <<>>
              ELSE <<S(<<N("path"), O(ListOf("[", N("bracket_arg"), "]")), ListOf("{", S(<<Id, K(":"), N("expr")>>), "}")>>)>>)
             \o <<T(Lits), S(<<K("."), Id>>), N("path"), ListOf("(", N("expr"), ")"),
                  S(<<K("["), O(S(<<N("expr"), A(<<S(<<K(";"), N("expr")>>), S(<<R(S(<<K(","), N("expr")>>)), O(K(","))>>)>>)>>)), K("]")>>),
                  S(<<ListOf("|", N("cparam"), "|"), A(<<N("block"), M("expr", ns)>>)>>),
                  N("if_expr"), N("match_expr"), S(<<K("comptime"), N("block")>>), N("asm_expr")>>)
      [] name = "cparam" -> S(<<O(N("convention")), T({"ident", "_"}), O(S(<<K(":"), N("type")>>))>>)
      [] name = "if_expr" -> S(<<K("if"), M("expr", TRUE), N("block"), O(S(<<K("else"), A(<<N("if_expr"), N("block")>>)>>))>>)
      [] name = "match_expr" -> S(<<K("match"), M("expr", TRUE), K("{"), N("arms"), K("}")>>)
      [] name = "arms" -> S(<<R(S(<<N("pattern"), K("=>"), A(<<S(<<N("block"), O(K(","))>>), S(<<N("expr"), K(",")>>)>>)>>)),
                              O(S(<<N("pattern"), K("=>"), N("expr")>>))>>)
      [] name = "asm_expr" -> S(<<K("asm"), K("("), Id, K(")"), K("{"), R(S(<<N("asm_item"), K(",")>>)), K("str"),
                                  R(S(<<K(","), N("asm_item")>>)), O(K(",")), K("}")>>)
      [] name = "asm_item" -> A(<<S(<<K("in"), K("("), Id, K(")"), K("="), N("expr")>>), S(<<K("out"), K("("), Id, K(")")>>),
                                  S(<<K("clobber"), SomeOf("(", Id, ")")>>), K("str")>>)
      [] name = "pattern" -> A(<<K("_"), T(Lits), S(<<K("-"), T({"int", "float"})>>), S(<<K("let"), Id>>),
                                 S(<<A(<<S(<<K("."), Id>>), N("path")>>), O(N("payload"))>>), ListOf("(", N("pattern"), ")")>>)
      [] name = "payload" -> A(<<SomeOf("(", N("pattern"), ")"),
                                 SomeOf("{", A(<<S(<<Id, K(":"), N("pattern")>>), S(<<K("let"), Id>>)>>), "}")>>)

Production(name, ns) ==
    CASE name \in {"file", "path", "attribute", "decl", "fn_sig", "member_sig", "sig_tail", "generics", "bounds",
                   "convention", "param", "field"} -> Decls(name)
      [] name \in {"type", "type_core", "fn_type", "ret_type", "type_app", "targ"} -> Types(name)
      [] name \in {"block", "binding", "for_head", "stmt"} -> Stmts(name)
      [] OTHER -> Exprs(name, ns)

\* Where a derivation of e that starts at token i can end.
RECURSIVE Ends(_, _, _), EndsAll(_, _, _), Repeat(_, _, _, _)

EndsAll(toks, parts, froms) ==
    IF parts = <<>> \/ froms = {} THEN froms
    ELSE EndsAll(toks, Tail(parts), UNION {Ends(toks, Head(parts), i) : i \in froms})

Repeat(toks, e, front, seen) ==
    IF front = {} THEN seen
    ELSE LET new == UNION {Ends(toks, e, i) : i \in front} \ seen IN Repeat(toks, e, new, seen \cup new)

Ends(toks, e, i) ==
    CASE i > Len(toks) -> {}
      [] e[1] = "tok" -> IF toks[i] \in e[2] \/ (toks[i] \in Contextual /\ "ident" \in e[2]) THEN {i + 1} ELSE {}
      [] e[1] = "not" -> IF toks[i] \in e[2] THEN {} ELSE {i}
      [] e[1] = "prod" -> Ends(toks, Production(e[2], e[3]), i)
      [] e[1] = "seq" -> EndsAll(toks, e[2], {i})
      [] e[1] = "alt" -> UNION {Ends(toks, e[2][n], i) : n \in DOMAIN e[2]}
      [] e[1] = "opt" -> {i} \cup Ends(toks, e[2], i)
      [] e[1] = "rep" -> Repeat(toks, e[2], {i}, {i})

InGrammar(toks) == Len(toks) + 1 \in Ends(toks, N("file"), 1)
====
