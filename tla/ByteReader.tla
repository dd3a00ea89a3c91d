----------------------------- MODULE ByteReader -----------------------------
(***************************************************************************)
(* Reading a sequence of bytes or words front to back: a position, an      *)
(* error once one is met, a stack of what was read so far, and a table of  *)
(* what later parts may refer to.  After an error every reader leaves the  *)
(* state as it is, as the `?` operator of the decoders does.               *)
(***************************************************************************)
EXTENDS Integers, Sequences, SequencesExt

Dec(b) == [b |-> b, i |-> 1, err |-> "", st |-> <<>>, table |-> <<>>]
Fail(d, e) == [d EXCEPT !.err = e]
Push(d, v) == [d EXCEPT !.st = Append(@, v)]
Take(d, n, v) == [d EXCEPT !.st = Append(@, v), !.i = @ + n]
Top(d) == Last(d.st)
Check(d, c, e) == IF d.err # "" \/ c THEN d ELSE Fail(d, e)
Make(d, n, F(_)) ==
    IF d.err # "" THEN d
    ELSE [d EXCEPT !.st = Append(SubSeq(@, 1, Len(@) - n), F(SubSeq(@, Len(@) - n + 1, Len(@))))]
Drop(d) == IF d.err # "" THEN d ELSE [d EXCEPT !.st = Front(@)]

ReadByte(d) ==
    IF d.err # "" THEN d ELSE IF d.i > Len(d.b) THEN Fail(d, "Truncated") ELSE Take(d, 1, d.b[d.i])

\* n members, on the stack as one sequence in place of their count.
Collected(d, n) == Make(d, n + 1, LAMBDA v : Tail(v))
Repeated(d, n, Read(_)) == Collected(FoldLeft(LAMBDA a, k : IF a.err # "" THEN a ELSE Read(a), d, [k \in 1..n |-> k]), n)
Members(d, Read(_)) == IF d.err # "" THEN d ELSE Repeated(d, Top(d), Read)

=============================================================================
