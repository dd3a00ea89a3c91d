----------------------------- MODULE LineIndex -----------------------------
(***************************************************************************)
(* Byte offsets and editor positions (crates/fors-lsp, lib.rs: LineIndex). *)
(* The compiler counts bytes, the editor lines and UTF-16 code units; every *)
(* range that crosses the wire is converted with the table of line starts. *)
(*                                                                         *)
(* A source is a sequence of bytes, a byte being what the code tells apart: *)
(* an ASCII byte, the newline, the lead byte of a 2, 3 or 4 byte character, *)
(* or a continuation byte.  A document comes from a JSON string, so its    *)
(* bytes are well-formed UTF-8.                                            *)
(*                                                                         *)
(* The reference reads a source byte by byte and keeps the position as an  *)
(* editor would.                                                           *)
(***************************************************************************)
EXTENDS Integers, Sequences, FiniteSets

-----------------------------------------------------------------------------
(***************************************************************************)
(* The code                                                                *)
(***************************************************************************)

\* LineIndex::new: the offset of the start of every line.  The table after
\* the first i bytes, and the whole of it.
StartsTo(s) ==
    LET table[i \in 0..Len(s)] ==
            IF i = 0 THEN <<0>> ELSE IF s[i] = "newline" THEN Append(table[i - 1], i) ELSE table[i - 1]
    IN table
Starts(s) == StartsTo(s)[Len(s)]

\* utf16_units of a slice: every byte that is not a continuation starts a
\* character, and a four-byte character is two units.
Units(b) == IF b = "cont" THEN 0 ELSE IF b = "lead4" THEN 2 ELSE 1
UnitsTo(s) == LET n[i \in 0..Len(s)] == IF i = 0 THEN 0 ELSE n[i - 1] + Units(s[i]) IN n
Utf16Units(s) == UnitsTo(s)[Len(s)]

\* Faulty variant: partition_point(|s| s < off).
LineOfStrict(s, off) ==
    LET n == Cardinality({i \in DOMAIN Starts(s) : Starts(s)[i] < off}) IN IF n = 0 THEN 1 ELSE n

\* starts.partition_point(|s| s <= off) - 1, counting from one.
LineOf(s, off) == Cardinality({i \in DOMAIN Starts(s) : Starts(s)[i] <= off})

\* LineIndex::pos.
Pos(s, offset) ==
    LET off == IF offset <= Len(s) THEN offset ELSE Len(s)
        l == LineOf(s, off)
    IN <<l - 1, Utf16Units(SubSeq(s, Starts(s)[l] + 1, off))>>

\* utf8_char: byte length and UTF-16 width from the lead byte.
Utf8Char(b) ==
    CASE b = "lead2" -> <<2, 1>>
      [] b = "lead3" -> <<3, 1>>
      [] b = "lead4" -> <<4, 2>>
      [] OTHER -> <<1, 1>>

\* The loop of offset over the bytes of a line: its <<i, used>> after k turns.
\* A turn goes on by a byte at least, so there are as many as bytes at most.
Turn(s, character, p) ==
    IF p[1] >= Len(s) \/ p[2] >= character THEN p
    ELSE LET c == Utf8Char(s[p[1] + 1])
         IN <<IF p[1] + c[1] <= Len(s) THEN p[1] + c[1] ELSE Len(s), p[2] + c[2]>>
Turns(s, character) ==
    LET at[k \in 0..Len(s)] == IF k = 0 THEN <<0, 0>> ELSE Turn(s, character, at[k - 1]) IN at
Advance(s, character) == Turns(s, character)[Len(s)][1]

\* The end of line l: before its newline, or the end of the source.
LineEnd(s, l) ==
    IF l + 2 <= Len(Starts(s)) THEN Starts(s)[l + 2] - 1 ELSE Len(s)

\* LineIndex::offset.
Offset(s, l, character) ==
    IF l + 1 > Len(Starts(s)) THEN Len(s)
    ELSE LET from == Starts(s)[l + 1]
         IN from + Advance(SubSeq(s, from + 1, LineEnd(s, l)), character)

-----------------------------------------------------------------------------
(***************************************************************************)
(* Reading a source                                                        *)
(***************************************************************************)
ReadByte(p, b) == IF b = "newline" THEN <<p[1] + 1, 0>> ELSE <<p[1], p[2] + Units(b)>>
Reading(s) == LET p[i \in 0..Len(s)] == IF i = 0 THEN <<0, 0>> ELSE ReadByte(p[i - 1], s[i]) IN p
PosByReading(s, at) == Reading(s)[at]

\* Well-formed UTF-8: a lead byte is followed by its continuation bytes and
\* by no other, and nothing else is a continuation byte.
Bytes == {"ascii", "newline", "lead2", "lead3", "lead4", "cont"}
WholeCharacter(s, i, next) ==
    /\ next <= Len(s) + 1
    /\ \A j \in (i + 1)..(next - 1) : s[j] = "cont"
    /\ next <= Len(s) => s[next] # "cont"
WellFormed(s) ==
    /\ s \in Seq(Bytes)
    /\ s # <<>> => s[1] # "cont"
    /\ \A i \in DOMAIN s : s[i] # "cont" => WholeCharacter(s, i, i + Utf8Char(s[i])[1])

Boundary(s, o) == o = Len(s) \/ (o \in 0..Len(s) - 1 /\ s[o + 1] # "cont")
Width(s, l) == Pos(s, LineEnd(s, l))[2]

\* the table gives the position that reading from the start gives, at every
\* offset, the ones inside a character included, and clamps one past the end
PosIsReading(s) ==
    /\ \A at \in 0..Len(s) : Pos(s, at) = PosByReading(s, at)
    /\ Pos(s, Len(s) + 1) = PosByReading(s, Len(s))
\* a range sent to the editor and sent back names the same bytes
RoundTrip(s) == \A at \in 0..Len(s) : Boundary(s, at) => Offset(s, Pos(s, at)[1], Pos(s, at)[2]) = at
\* any position an editor may send is mapped into its line and never into the
\* middle of a character: to the position itself, past the pair when it is
\* between two surrogates, to the end of the line when it is beyond it
OffsetClamps(s) ==
    \A l \in 0..Len(Starts(s)), ch \in 0..2 * Len(s) + 1 :
        \A o \in {Offset(s, l, ch)} :
            /\ Boundary(s, o)
            /\ l >= Len(Starts(s)) => o = Len(s)
            /\ l < Len(Starts(s)) =>
                   /\ Pos(s, o)[1] = l
                   /\ Pos(s, o)[2] \in IF ch > Width(s, l) THEN {Width(s, l)} ELSE {ch, ch + 1}

=============================================================================
