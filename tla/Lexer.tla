------------------------------- MODULE Lexer -------------------------------
(***************************************************************************)
(* The lexer of fors-lex (lexer.rs, token.rs).  The source is a sequence   *)
(* of characters; "high" is a character outside ASCII and "bad" a byte     *)
(* that is not UTF-8.  Keywords stand for the reserved table and Suffixes  *)
(* for the literal suffixes: what matters of either is which runs of       *)
(* letters are in it.  Every lex_ function returns where the token ends    *)
(* and the tokens and diagnostics it pushed.                               *)
(***************************************************************************)
EXTENDS Naturals, Sequences

CONSTANTS Keywords, IntSuffixes, FloatSuffixes, MAX_SOURCE_LEN

\* The underscore, a letter of names and a separator of digits.
Underscore == "_"
Ws == {" ", "nl"}
Dec == {"0", "1", "8", "3", "2"}
Oct == {"0", "1", "3", "2"}
Bin == {"0", "1"}
Hex == Dec \cup {"a", "b", "e", "f"}
Alpha == {"a", "b", "e", "f", "i", "n", "u", "x", "o"}
IdentStart == Alpha \cup {Underscore}
IdentContinue == Alpha \cup Dec \cup {Underscore}
NonAscii == {"high", "bad"}
Puncts == {<<"(">>, <<")">>, <<",">>, <<"{">>, <<"}">>, <<".">>, <<"+">>, <<"-">>, <<"=">>, <<"<">>, <<">">>, <<"*">>, <<"/">>,
           <<"-", ">">>, <<"-", "=">>, <<"=", ">">>, <<"=", "=">>, <<"!", "=">>, <<"<", "<">>, <<"<", "=">>,
           <<">", ">">>, <<">", "=">>, <<"+", "=">>, <<"*", "=">>, <<"/", "=">>, <<"<", "<", "=">>, <<">", ">", "=">>}

\* The byte at pos, or nothing past the end.
Get(b, pos) == IF pos <= Len(b) THEN b[pos] ELSE "none"

Slice(b, from, to) == SubSeq(b, from, to - 1)

\* The first position from pos on whose byte is not in S.
RunEnd(b, pos, S) == CHOOSE q \in pos .. Len(b) + 1 : Get(b, q) \notin S /\ \A r \in pos .. q - 1 : b[r] \in S

\* The first position from pos on that holds a byte of S.
Find(b, pos, S) == CHOOSE q \in pos .. Len(b) + 1 : (q > Len(b) \/ b[q] \in S) /\ \A r \in pos .. q - 1 : b[r] \notin S

Tok(kind, start) == [kind |-> kind, start |-> start]
Diag(start, end, code) == [start |-> start, end |-> end, code |-> code]
One(kind, start, end) == [pos |-> end, toks |-> <<Tok(kind, start)>>, diags |-> <<>>]
Bad(start, end, code) == [pos |-> end, toks |-> <<Tok("Error", start)>>, diags |-> <<Diag(start, end, code)>>]

LexWhitespace(b, start) == One("Whitespace", start, RunEnd(b, start + 1, Ws))

LexLineComment(b, start) == One("LineComment", start, Find(b, start + 2, {"nl"}))

\* Where the comment ends, from a position and the number of comments open there.
BlockStep(b, p) ==
    CASE Get(b, p[1]) = "/" /\ Get(b, p[1] + 1) = "*" -> <<p[1] + 2, p[2] + 1>>
      [] Get(b, p[1]) = "*" /\ Get(b, p[1] + 1) = "/" -> <<p[1] + 2, p[2] - 1>>
      [] OTHER -> <<p[1] + 1, p[2]>>
BlockScan(b) ==
    LET scan[p \in (1 .. Len(b) + 1) \X Nat] ==
          IF p[2] = 0 \/ p[1] > Len(b) THEN [pos |-> p[1], ended |-> p[2] = 0] ELSE scan[BlockStep(b, p)]
    IN  scan

LexBlockComment(b, start) ==
    LET end == BlockScan(b)[<<start + 2, 1>>]
    IN  IF end.ended THEN One("BlockComment", start, end.pos)
        ELSE Bad(start, end.pos, "UnterminatedBlockComment")

LexIdentOrKeyword(b, start) ==
    LET end == RunEnd(b, start + 1, IdentContinue)
        word == Slice(b, start, end)
    IN  One(IF word = <<Underscore>> THEN "Underscore" ELSE IF word \in Keywords THEN "Keyword" ELSE "Ident", start, end)

\* Digits of a class, single underscores between them.
ScanDigitRunLoose(b, pos, ok) == RunEnd(b, pos, ok \cup {Underscore})

DigitRun(b, ok) ==
    LET run[q \in 1 .. Len(b) + 1] ==
          IF Get(b, q) \in ok THEN run[q + 1]
          ELSE IF Get(b, q) = Underscore /\ Get(b, q + 1) \in ok THEN run[q + 2]
          ELSE q
    IN  run
ScanDigitRun(b, pos, ok) == DigitRun(b, ok)[pos]

RadixDigits(b, start) ==
    IF b[start] # "0" THEN {}
    ELSE CASE Get(b, start + 1) = "x" -> Hex [] Get(b, start + 1) = "o" -> Oct
           [] Get(b, start + 1) = "b" -> Bin [] OTHER -> {}

\* Where a fraction and where an exponent that starts at pos ends, or pos.
FractionEnd(b, pos) ==
    IF Get(b, pos) = "." /\ Get(b, pos + 1) \in Dec THEN ScanDigitRun(b, pos + 1, Dec) ELSE pos

ExponentEnd(b, pos) ==
    LET q == IF Get(b, pos + 1) \in {"+", "-"} THEN pos + 2 ELSE pos + 1
    IN  IF Get(b, pos) = "e" /\ Get(b, q) \in Dec THEN ScanDigitRun(b, q, Dec) ELSE pos

IsLegalSuffix(suffix, radix, float) ==
    suffix \in (IF float THEN {} ELSE IntSuffixes) \cup (IF radix THEN {} ELSE FloatSuffixes)

\* The digits end at pos; whatever letters are glued to them must be a suffix.
Suffixed(b, start, pos, kind, radix) ==
    LET end == RunEnd(b, pos, IdentContinue)
    IN  IF end = pos \/ IsLegalSuffix(Slice(b, pos, end), radix, kind = "Float") THEN One(kind, start, end)
        ELSE [pos |-> end, toks |-> <<Tok(kind, start), Tok("Error", pos)>>, diags |-> <<Diag(pos, end, "BadSuffix")>>]

LexNumber(b, start) ==
    IF Get(b, start + 2) \in RadixDigits(b, start)
    THEN Suffixed(b, start, ScanDigitRun(b, start + 2, RadixDigits(b, start)), "Int", TRUE)
    ELSE LET whole == ScanDigitRun(b, start, Dec)
             end == ExponentEnd(b, FractionEnd(b, whole))
         IN  Suffixed(b, start, end, IF end = whole THEN "Int" ELSE "Float", FALSE)

\* How far an escape at pos reaches, and whether it is one.
Escape(b, pos) ==
    CASE Get(b, pos + 1) \in {"n", "0", "bs", "quote"} -> [next |-> pos + 2, ok |-> TRUE]
      [] Get(b, pos + 1) = "x" -> IF Get(b, pos + 2) \in Hex /\ Get(b, pos + 3) \in Hex
                                  THEN [next |-> pos + 4, ok |-> TRUE] ELSE [next |-> pos + 2, ok |-> FALSE]
      [] Get(b, pos + 1) = "u" /\ Get(b, pos + 2) = "{" ->
           LET q == RunEnd(b, pos + 3, Hex)
           IN  IF q > pos + 3 /\ Get(b, q) = "}" THEN [next |-> q + 1, ok |-> TRUE] ELSE [next |-> q, ok |-> FALSE]
      [] OTHER -> [next |-> IF pos + 1 <= Len(b) THEN pos + 2 ELSE pos + 1, ok |-> FALSE]

\* Where the string ends, from a position in it and whether an escape was bad.
StringStep(b, p) ==
    IF Get(b, p[1]) = "bs" THEN <<Escape(b, p[1]).next, p[2] \/ ~Escape(b, p[1]).ok>> ELSE <<p[1] + 1, p[2]>>
StringScan(b) ==
    LET scan[p \in (1 .. Len(b) + 1) \X BOOLEAN] ==
          IF Get(b, p[1]) \in {"none", "nl"} THEN [pos |-> p[1], ended |-> FALSE, bad |-> p[2]]
          ELSE IF Get(b, p[1]) = "quote" THEN [pos |-> p[1] + 1, ended |-> TRUE, bad |-> p[2]]
          ELSE scan[StringStep(b, p)]
    IN  scan

LexString(b, start) ==
    LET end == StringScan(b)[<<start + 1, FALSE>>]
    IN  IF ~end.ended THEN Bad(start, end.pos, "UnterminatedString")
        ELSE IF end.bad THEN Bad(start, end.pos, "BadEscape")
        ELSE One("Str", start, end.pos)

\* Lines that start with two backslashes, with only white space between them.
OpensLine(b, pos) == Get(b, pos) = "bs" /\ Get(b, pos + 1) = "bs"
TextEnd(b, pos) == Find(b, pos + 2, {"nl"})
NextText(b, pos) == RunEnd(b, TextEnd(b, pos), Ws)
MultilineScan(b) ==
    LET line[q \in {p \in DOMAIN b : OpensLine(b, p)}] ==
          IF OpensLine(b, NextText(b, q)) THEN line[NextText(b, q)] ELSE TextEnd(b, q)
    IN  line
ScanMultilineString(b, start) == MultilineScan(b)[start]

PunctLengths(b, pos) == {n \in 1 .. 3 : pos + n - 1 <= Len(b) /\ Slice(b, pos, pos + n) \in Puncts}

ScanPunct(b, start) ==
    LET lens == PunctLengths(b, start)
        len == CHOOSE n \in lens : \A m \in lens : m <= n
    IN  IF lens # {} THEN One("Punct", start, start + len)
        ELSE IF b[start] \in NonAscii THEN Bad(start, RunEnd(b, start + 1, NonAscii), "StrayByte")
        ELSE Bad(start, start + 1, "StrayByte")

Range3(b, start) ==
    IF Get(b, start + 2) \in {"<", "="} THEN One("Range", start, start + 3)
    ELSE Bad(start, start + 2, "BadRangeDots")

\* One token from start.
LexAt(b, start) ==
    CASE b[start] \in Ws -> LexWhitespace(b, start)
      [] b[start] = "/" /\ Get(b, start + 1) = "/" -> LexLineComment(b, start)
      [] b[start] = "/" /\ Get(b, start + 1) = "*" -> LexBlockComment(b, start)
      [] b[start] = "bs" /\ Get(b, start + 1) = "bs" -> One("MultilineStr", start, ScanMultilineString(b, start))
      [] b[start] \in IdentStart -> LexIdentOrKeyword(b, start)
      [] b[start] \in Dec -> LexNumber(b, start)
      [] b[start] = "quote" -> LexString(b, start)
      [] b[start] = "." /\ Get(b, start + 1) = "." -> Range3(b, start)
      [] OTHER -> ScanPunct(b, start)

\* A diagnostic where sorting by start leaves it, behind those that start no later.
Place(diags, start) ==
    CHOOSE k \in 0 .. Len(diags) : /\ \A i \in 1 .. k : diags[i].start <= start
                                   /\ k < Len(diags) => diags[k + 1].start > start
PutAt(diags, k, diag) ==
    [i \in 1 .. Len(diags) + 1 |-> IF i <= k THEN diags[i] ELSE IF i = k + 1 THEN diag ELSE diags[i - 1]]

\* A byte that is not UTF-8 and lies in no diagnostic gets one of its own.
Utf8(b, diags) ==
    LET at == Find(b, 1, {"bad"})
    IN  IF at > Len(b) \/ \E i \in DOMAIN diags : diags[i].start <= at /\ at < diags[i].end THEN diags
        ELSE PutAt(diags, Place(diags, at), Diag(at, at + 1, "InvalidUtf8"))

\* What one token leaves, followed by the rest.
Then(one, rest) == [toks |-> one.toks \o rest.toks, diags |-> one.diags \o rest.diags]
LexFrom(b) ==
    LET from[pos \in 1 .. Len(b) + 1] ==
          IF pos > Len(b) THEN [toks |-> <<Tok("Eof", Len(b) + 1)>>, diags |-> <<>>]
          ELSE Then(LexAt(b, pos), from[LexAt(b, pos).pos])
    IN  from

Lex(b) ==
    IF Len(b) > MAX_SOURCE_LEN
    THEN [toks |-> <<Tok("Error", 1), Tok("Eof", MAX_SOURCE_LEN + 1)>>,
          diags |-> <<Diag(1, MAX_SOURCE_LEN + 1, "FileTooLarge")>>]
    ELSE [toks |-> LexFrom(b)[1].toks, diags |-> Utf8(b, LexFrom(b)[1].diags)]

-----------------------------------------------------------------------------
\* The languages of docs/spec/07-grammar.md, section "Lexical grammar".

AllIn(w, S) == \A i \in DOMAIN w : w[i] \in S

IsDigits(w, ok) ==
    /\ w # <<>> /\ w[1] \in ok /\ w[Len(w)] \in ok /\ AllIn(w, ok \cup {Underscore})
    /\ \A i \in 1 .. Len(w) - 1 : ~(w[i] = Underscore /\ w[i + 1] = Underscore)

IsInteger(w) ==
    \/ IsDigits(w, Dec)
    \/ Len(w) > 2 /\ w[1] = "0" /\ \E r \in {<<"x", Hex>>, <<"o", Oct>>, <<"b", Bin>>} :
                                        w[2] = r[1] /\ IsDigits(SubSeq(w, 3, Len(w)), r[2])

IsExponent(w) ==
    /\ w # <<>> /\ w[1] = "e"
    /\ \/ IsDigits(Tail(w), Dec)
       \/ Len(w) > 1 /\ w[2] \in {"+", "-"} /\ IsDigits(Tail(Tail(w)), Dec)

IsFloat(w) ==
    \E i \in 1 .. Len(w) - 1 :
      /\ IsDigits(SubSeq(w, 1, i), Dec)
      /\ \/ IsExponent(SubSeq(w, i + 1, Len(w)))
         \/ /\ w[i + 1] = "."
            /\ \E j \in i + 2 .. Len(w) : /\ IsDigits(SubSeq(w, i + 2, j), Dec)
                                          /\ j = Len(w) \/ IsExponent(SubSeq(w, j + 1, Len(w)))

\* The longest number the input holds at start.
NumberEnd(b, start) ==
    LET ends == {e \in start + 1 .. Len(b) + 1 : IsInteger(Slice(b, start, e)) \/ IsFloat(Slice(b, start, e))}
    IN  CHOOSE e \in ends : \A f \in ends : f <= e

EscapeText == {<<"n">>, <<"0">>, <<"bs">>, <<"quote">>}
IsEscape(w) ==
    \/ w \in EscapeText
    \/ Len(w) = 3 /\ w[1] = "x" /\ AllIn(Tail(w), Hex)
    \/ Len(w) > 3 /\ w[1] = "u" /\ w[2] = "{" /\ w[Len(w)] = "}" /\ AllIn(SubSeq(w, 3, Len(w) - 1), Hex)

\* The text between two quotes: plain characters and escapes.
IsText(w) ==
    LET from[i \in 1 .. Len(w) + 1] ==
          IF i > Len(w) THEN TRUE
          ELSE IF w[i] = "bs" THEN \E j \in i + 1 .. Len(w) : IsEscape(SubSeq(w, i + 1, j)) /\ from[j + 1]
          ELSE w[i] \notin {"quote", "nl"} /\ from[i + 1]
    IN  from[1]

IsString(w) == Len(w) > 1 /\ w[1] = "quote" /\ w[Len(w)] = "quote" /\ IsText(SubSeq(w, 2, Len(w) - 1))

HoldsString(b, start) == \E e \in start + 1 .. Len(b) + 1 : IsString(Slice(b, start, e))

\* A token is what the lexical grammar says starts there, and the longest one.
TokenRight(b, kind, s, e) ==
    CASE kind = "Whitespace" -> AllIn(Slice(b, s, e), Ws) /\ Get(b, e) \notin Ws
      [] kind \in {"Ident", "Keyword", "Underscore"} ->
           /\ b[s] \in IdentStart /\ AllIn(Slice(b, s, e), IdentContinue) /\ Get(b, e) \notin IdentContinue
           /\ kind = "Keyword" <=> Slice(b, s, e) \in Keywords
           /\ kind = "Underscore" <=> Slice(b, s, e) = <<Underscore>>
      [] kind \in {"Int", "Float"} ->
           /\ Slice(b, NumberEnd(b, s), e) \in {<<>>} \cup IntSuffixes \cup FloatSuffixes
           /\ kind = "Float" <=> IsFloat(Slice(b, s, NumberEnd(b, s)))
      [] kind = "Str" -> IsString(Slice(b, s, e))
      [] kind = "LineComment" -> /\ Get(b, e) \in {"nl", "none"} /\ Slice(b, s, s + 2) = <<"/", "/">>
                                 /\ \A p \in s .. e - 1 : b[p] # "nl"
      [] kind = "BlockComment" -> /\ e - s >= 4
                                  /\ Slice(b, s, s + 2) = <<"/", "*">> /\ Slice(b, e - 2, e) = <<"*", "/">>
      [] kind = "MultilineStr" -> Get(b, e) \in {"nl", "none"} /\ Slice(b, s, s + 2) = <<"bs", "bs">>
      [] kind = "Range" -> Slice(b, s, e) \in {<<".", ".", "<">>, <<".", ".", "=">>}
      [] kind = "Punct" -> Slice(b, s, e) \in Puncts /\ (e <= Len(b) => Slice(b, s, e + 1) \notin Puncts)
      [] kind = "Error" -> b[s] = "quote" => ~HoldsString(b, s)
      [] kind = "Eof" -> s = Len(b) + 1

\* The tokens tile the source: the first starts it, each ends where the next
\* starts and holds a byte at least, and the last stands for its end.
Tiles(b, toks) ==
    /\ toks[1].start = 1 /\ toks[Len(toks)] = Tok("Eof", Len(b) + 1)
    /\ \A i \in 1 .. Len(toks) - 1 : toks[i].start < toks[i + 1].start

\* Each token, which ends where the next starts, is right.
TokensRight(b, toks) == \A i \in 1 .. Len(toks) - 1 : TokenRight(b, toks[i].kind, toks[i].start, toks[i + 1].start)

\* Every error token carries a diagnostic of its extent.
ErrorsSaid(toks, diags) ==
    \A i \in 1 .. Len(toks) - 1 : toks[i].kind = "Error" =>
        \E d \in DOMAIN diags : diags[d].start = toks[i].start /\ diags[d].end = toks[i + 1].start

\* No byte that is not UTF-8 goes unreported.
BadBytesSaid(b, diags) ==
    (\E p \in DOMAIN b : b[p] = "bad") => \E d \in DOMAIN diags : \E p \in diags[d].start .. diags[d].end - 1 : b[p] = "bad"

\* What is said is said in the order of the source.
SaidInOrder(diags) == \A i, j \in DOMAIN diags : i < j => diags[i].start <= diags[j].start

\* An underscore of its own is no keyword.
KeywordsAreWords == <<Underscore>> \notin Keywords
LexerParameters == KeywordsAreWords /\ MAX_SOURCE_LEN \in Nat

LexedRight(b, out) ==
    /\ Tiles(b, out.toks) /\ TokensRight(b, out.toks)
    /\ ErrorsSaid(out.toks, out.diags) /\ BadBytesSaid(b, out.diags) /\ SaidInOrder(out.diags)
====
