------------------------ MODULE LanguageServerProofs ------------------------
(***************************************************************************)
(* Proofs about the language server, for every set of documents and texts, *)
(* any number of messages and any capacity of the two streams.             *)
(*                                                                         *)
(* Both properties relate the two ends of a FIFO stream, so the invariant  *)
(* has to say what is in between: at every place of the inbox, what the    *)
(* server will hold when it comes to that place; at every place of the     *)
(* outbox, what the editor will show when it has read up to there.         *)
(*                                                                         *)
(* And about the positions that cross the wire (module LineIndex), for     *)
(* every source that is well-formed UTF-8: the table gives the position    *)
(* that reading gives, a range comes back as it went, and a position past  *)
(* the end of its line is clamped into it.  The loops of the code are      *)
(* functions of how far they have come, so a fact about one of them is an  *)
(* induction over the bytes (Induct, from the well-founded order of the    *)
(* naturals).                                                              *)
(*                                                                         *)
(* And about what every query starts from, the tokens of the text (module  *)
(* Lexer): the tokens of any source tile it, and each is the one the       *)
(* grammar names, the longest number and the whole string included.  A     *)
(* scanner is a recursion whose rank falls (Descends), which is all that   *)
(* is needed for it to have values (RecursionExists) and for an induction  *)
(* along its steps (RankInduct).                                           *)
(***************************************************************************)
EXTENDS LanguageServer, LineIndex, Lexer, FiniteSetTheorems, SequenceTheorems, WellFoundedInduction, TLAPS

\* What the server holds of a document, and what the editor does.
Nothing == [text |-> None, version |-> NoVersion]
Have(u) == IF u \in DOMAIN docs THEN docs[u] ELSE Nothing
Wanted(u) == IF buffer[u] = None THEN Nothing ELSE [text |-> buffer[u], version |-> version[u]]

\* The messages that change what the server holds of u: a stray change is of
\* a document that is closed when it arrives.
Edits(m, u) ==
    /\ m.method \in {"didOpen", "didChange", "didClose"} /\ m.uri = u
    /\ m.method = "didChange" => m.seen # None
After(m) == IF m.method = "didClose" THEN Nothing ELSE [text |-> m.text, version |-> m.version]

\* Where h is held of u before the messages ms, d is after the first k of them.
Arrives(ms, u, k, d, h) ==
    /\ (\A i \in 1..k : ~Edits(ms[i], u)) => d = h
    /\ \A j \in 1..k :
           Edits(ms[j], u) /\ (\A i \in j + 1..k : ~Edits(ms[i], u)) => d = After(ms[j])

\* A message about u comes to the text the editor had when it was sent.
Comes(ms, u, k, h) ==
    IsMessage(ms[k]) /\ ms[k].uri = u =>
        \E v \in Int : Arrives(ms, u, k - 1, [text |-> ms[k].seen, version |-> v], h)

InboxInSync ==
    ~shutdown => \A u \in Uris :
        /\ \A k \in 1..Len(inbox) : Comes(inbox, u, k, Have(u))
        /\ Arrives(inbox, u, Len(inbox), Wanted(u), Have(u))

\* The same for the diagnostics on their way to the editor.
Publishes(o, u) == o.kind = "publish" /\ o.uri = u
Shows(o) == [version |-> o.version, diags |-> o.diags]
DiagsOf(h) == [version |-> h.version, diags |-> Diags(h.text)]
WillShow(os, u, d, h) ==
    /\ (\A i \in 1..Len(os) : ~Publishes(os[i], u)) => d = h
    /\ \A j \in 1..Len(os) :
           Publishes(os[j], u) /\ (\A i \in j + 1..Len(os) : ~Publishes(os[i], u)) => d = Shows(os[j])

OutboxInSync == \A u \in Uris : WillShow(outbox, u, DiagsOf(Have(u)), shown[u])

\* What travels on the two streams.
Methods == Requests \cup {"didOpen", "didChange", "didClose", "initialized", "exit", "response", "no method"}
Codes == {"ParseError", "InvalidRequest", "MethodNotFound", "InvalidParams"}
MessageSet ==
    [method : Methods, id : Nat, uri : Uris \cup {None}, text : Texts \cup {None, "ranged", "result"},
     version : Int, seen : Texts \cup {None}, late : BOOLEAN]
Incoming == MessageSet \cup {Unparsable, BadFrame, EndOfInput}
Outgoing ==
    [kind : {"result"}, id : Nat, from : Texts \cup {None}, seen : Texts \cup {None}, late : BOOLEAN]
        \cup [kind : {"error"}, id : Nat, code : Codes, late : BOOLEAN]
        \cup [kind : {"publish"}, uri : Uris, version : Int, diags : SUBSET {"parse", "name"}]

\* What a document message carries.
Carries(m) ==
    /\ m.method \in {"didOpen", "didChange", "didClose"} \cup DocQueries => m.uri \in Uris
    /\ m.method = "didOpen" => m.text \in Texts
    /\ m.method = "didChange" => m.text \in (IF m.seen = None THEN Texts \cup {"ranged"} ELSE Texts)

Documents == UNION {[D -> [text : Texts, version : Int]] : D \in SUBSET Uris}
TypeOK ==
    /\ docs \in Documents /\ shutdown \in BOOLEAN /\ sent \in Nat /\ leaving \in BOOLEAN
    /\ inbox \in Seq(Incoming) /\ \A i \in 1..Len(inbox) : Carries(inbox[i])
    /\ outbox \in Seq(Outgoing)
    /\ buffer \in [Uris -> Texts \cup {None}] /\ version \in [Uris -> Int]
    /\ shown \in [Uris -> [version : Int, diags : SUBSET {"parse", "name"}]]

StreamInv == TypeOK /\ InboxInSync /\ OutboxInSync /\ AnswersTheTextAsked

-----------------------------------------------------------------------------
(* Streams.                                                                *)

\* The reader takes the first message, and holds what that message leaves.
LEMMA ArrivesTail ==
  ASSUME NEW S, NEW ms \in Seq(S), ms # <<>>, NEW u, NEW k \in 1..Len(ms), NEW d, NEW h,
         Arrives(ms, u, k, d, h)
  PROVE  Arrives(Tail(ms), u, k - 1, d, IF Edits(Head(ms), u) THEN After(Head(ms)) ELSE h)
<1> DEFINE ts == Tail(ms)
<1>1. Len(ms) \in Nat \ {0} /\ Head(ms) = ms[1] /\ \A i \in 1..Len(ms) - 1 : ts[i] = ms[i + 1]
  BY HeadTailProperties, LenProperties, EmptySeq
<1>2. ASSUME \A i \in 1..k - 1 : ~Edits(ts[i], u)
      PROVE  d = IF Edits(ms[1], u) THEN After(ms[1]) ELSE h
  <2>1. \A i \in 2..k : ts[i - 1] = ms[i] /\ ~Edits(ts[i - 1], u)
    <3> SUFFICES ASSUME NEW i \in 2..k PROVE ts[i - 1] = ms[i] /\ ~Edits(ts[i - 1], u)
      OBVIOUS
    <3>1. i - 1 \in 1..k - 1 /\ i - 1 \in 1..Len(ms) - 1 /\ (i - 1) + 1 = i
      BY <1>1
    <3> QED
      BY <1>1, <1>2, <3>1
  <2>2. \A i \in 1 + 1..k : ~Edits(ms[i], u)
    BY <2>1
  <2>3. CASE Edits(ms[1], u)
    BY <2>2, <2>3 DEF Arrives
  <2>4. CASE ~Edits(ms[1], u)
    <3>1. \A i \in 1..k : ~Edits(ms[i], u)
      BY <2>2, <2>4
    <3> QED
      BY <2>4, <3>1 DEF Arrives
  <2> QED
    BY <2>3, <2>4
<1>3. ASSUME NEW j \in 1..k - 1, Edits(ts[j], u), \A i \in j + 1..k - 1 : ~Edits(ts[i], u)
      PROVE  d = After(ts[j])
  <2>1. \A i \in j + 2..k : ts[i - 1] = ms[i] /\ ~Edits(ts[i - 1], u)
    <3> SUFFICES ASSUME NEW i \in j + 2..k PROVE ts[i - 1] = ms[i] /\ ~Edits(ts[i - 1], u)
      OBVIOUS
    <3>1. i - 1 \in j + 1..k - 1 /\ i - 1 \in 1..Len(ms) - 1 /\ (i - 1) + 1 = i
      BY <1>1
    <3> QED
      BY <1>1, <1>3, <3>1
  <2>2. j + 1 \in 1..k /\ ts[j] = ms[j + 1]
    BY <1>1
  <2>3. \A i \in (j + 1) + 1..k : ~Edits(ms[i], u)
    BY <2>1
  <2> QED
    BY <1>3, <2>2, <2>3 DEF Arrives
<1> QED
  BY <1>1, <1>2, <1>3 DEF Arrives

\* A message sent later changes nothing at the places before it.
LEMMA ArrivesAppend ==
  ASSUME NEW S, NEW ms \in Seq(S), NEW m \in S, NEW u, NEW k \in 0..Len(ms), NEW d, NEW h,
         Arrives(ms, u, k, d, h)
  PROVE  Arrives(Append(ms, m), u, k, d, h)
<1> DEFINE more == Append(ms, m)
<1>1. Len(ms) \in Nat /\ \A i \in 1..k : more[i] = ms[i]
  BY AppendProperties, LenProperties
<1> HIDE DEF more
<1>2. (\A i \in 1..k : ~Edits(more[i], u)) => d = h
  BY <1>1 DEF Arrives
<1>3. ASSUME NEW j \in 1..k, Edits(more[j], u), \A i \in j + 1..k : ~Edits(more[i], u)
      PROVE  d = After(more[j])
  <2>1. \A i \in j + 1..k : ~Edits(ms[i], u)
    <3> SUFFICES ASSUME NEW i \in j + 1..k PROVE ~Edits(ms[i], u)
      OBVIOUS
    <3>1. i \in 1..k
      BY <1>1
    <3>2. more[i] = ms[i]
      BY <1>1, <3>1
    <3>3. ~Edits(more[i], u)
      BY <1>3
    <3> QED
      BY <3>2, <3>3
  <2> QED
    BY <1>1, <1>3, <2>1 DEF Arrives
<1>4. Arrives(more, u, k, d, h)
  BY <1>2, <1>3 DEF Arrives
<1> QED
  BY <1>4 DEF more

\* What the last message leaves.
LEMMA ArrivesLast ==
  ASSUME NEW S, NEW ms \in Seq(S), NEW m \in S, NEW u, NEW d, NEW h,
         Arrives(ms, u, Len(ms), d, h)
  PROVE  Arrives(Append(ms, m), u, Len(ms) + 1, IF Edits(m, u) THEN After(m) ELSE d, h)
<1> DEFINE more == Append(ms, m)
           n == Len(ms)
           e == IF Edits(m, u) THEN After(m) ELSE d
<1>1. n \in Nat /\ more[n + 1] = m /\ \A i \in 1..n : more[i] = ms[i]
  BY AppendProperties, LenProperties
<1>2. /\ (\A i \in 1..n : ~Edits(ms[i], u)) => d = h
      /\ \A j \in 1..n : Edits(ms[j], u) /\ (\A i \in j + 1..n : ~Edits(ms[i], u)) => d = After(ms[j])
  BY DEF Arrives
<1> HIDE DEF more, n
<1>3. ASSUME \A i \in 1..n + 1 : ~Edits(more[i], u) PROVE e = h
  <2>1. \A i \in 1..n : i \in 1..n + 1 /\ ~Edits(more[i], u) /\ more[i] = ms[i]
    BY <1>1, <1>3
  <2>2. ~Edits(m, u)
    BY <1>1, <1>3
  <2>3. \A i \in 1..n : ~Edits(ms[i], u)
    BY <2>1
  <2>4. d = h
    BY <1>2, <2>3
  <2> QED
    BY <2>2, <2>4
<1>4. ASSUME NEW j \in 1..n + 1, Edits(more[j], u), \A i \in j + 1..n + 1 : ~Edits(more[i], u)
      PROVE  e = After(more[j])
  <2>1. CASE j = n + 1
    BY <1>1, <1>4, <2>1
  <2>2. CASE j # n + 1
    <3>1. j \in 1..n /\ n + 1 \in j + 1..n + 1
      BY <1>1, <2>2
    <3>2. ~Edits(m, u)
      BY <1>1, <1>4, <3>1
    <3>3. \A i \in j + 1..n : ~Edits(ms[i], u)
      <4> SUFFICES ASSUME NEW i \in j + 1..n PROVE ~Edits(ms[i], u)
        OBVIOUS
      <4>1. i \in 1..n /\ i \in j + 1..n + 1
        BY <1>1, <3>1
      <4>2. more[i] = ms[i]
        BY <1>1, <4>1
      <4>3. ~Edits(more[i], u)
        BY <1>4, <4>1
      <4> QED
        BY <4>2, <4>3
    <3> QED
      BY <1>1, <1>2, <1>4, <3>1, <3>2, <3>3
  <2> QED
    BY <2>1, <2>2
<1>5. Arrives(more, u, n + 1, e, h)
  BY <1>3, <1>4 DEF Arrives
<1> QED
  BY <1>5 DEF more, n

\* Once the reader has taken a publish, that is what it shows.
LEMMA WillShowTail ==
  ASSUME NEW S, NEW os \in Seq(S), os # <<>>, NEW u, NEW d, NEW h, WillShow(os, u, d, h)
  PROVE  WillShow(Tail(os), u, d, IF Publishes(Head(os), u) THEN Shows(Head(os)) ELSE h)
<1> DEFINE ts == Tail(os)
           n == Len(os)
<1>1. n \in Nat \ {0} /\ Len(ts) = n - 1 /\ Head(os) = os[1] /\ \A i \in 1..n - 1 : ts[i] = os[i + 1]
  BY HeadTailProperties, LenProperties, EmptySeq
<1>0. /\ (\A i \in 1..n : ~Publishes(os[i], u)) => d = h
      /\ \A j \in 1..n : Publishes(os[j], u) /\ (\A i \in j + 1..n : ~Publishes(os[i], u)) => d = Shows(os[j])
  BY DEF WillShow
<1> HIDE DEF ts, n
<1>2. ASSUME \A i \in 1..n - 1 : ~Publishes(ts[i], u)
      PROVE  d = IF Publishes(os[1], u) THEN Shows(os[1]) ELSE h
  <2>1. \A i \in 2..n : ts[i - 1] = os[i] /\ ~Publishes(ts[i - 1], u)
    BY <1>1, <1>2
  <2>2. \A i \in 1 + 1..n : ~Publishes(os[i], u)
    BY <2>1
  <2>3. CASE Publishes(os[1], u)
    BY <1>0, <1>1, <2>2, <2>3
  <2>4. CASE ~Publishes(os[1], u)
    <3>1. \A i \in 1..n : ~Publishes(os[i], u)
      BY <1>1, <2>2, <2>4
    <3> QED
      BY <1>0, <2>4, <3>1
  <2> QED
    BY <2>3, <2>4
<1>3. ASSUME NEW j \in 1..n - 1, Publishes(ts[j], u), \A i \in j + 1..n - 1 : ~Publishes(ts[i], u)
      PROVE  d = Shows(ts[j])
  <2>1. \A i \in j + 2..n : ts[i - 1] = os[i] /\ ~Publishes(ts[i - 1], u)
    BY <1>1, <1>3
  <2>2. j + 1 \in 1..n /\ ts[j] = os[j + 1]
    BY <1>1
  <2>3. \A i \in (j + 1) + 1..n : ~Publishes(os[i], u)
    BY <1>1, <2>1
  <2> QED
    BY <1>0, <1>3, <2>2, <2>3
<1>4. WillShow(ts, u, d, IF Publishes(os[1], u) THEN Shows(os[1]) ELSE h)
  BY <1>1, <1>2, <1>3 DEF WillShow
<1> QED
  BY <1>1, <1>4 DEF ts

\* What is said last about a document is what will be shown of it.
LEMMA WillShowAppend ==
  ASSUME NEW S, NEW os \in Seq(S), NEW o \in S, NEW u, NEW d, NEW h, WillShow(os, u, d, h)
  PROVE  WillShow(Append(os, o), u, IF Publishes(o, u) THEN Shows(o) ELSE d, h)
<1> DEFINE more == Append(os, o)
           n == Len(os)
           e == IF Publishes(o, u) THEN Shows(o) ELSE d
<1>1. n \in Nat /\ Len(more) = n + 1 /\ more[n + 1] = o /\ \A i \in 1..n : more[i] = os[i]
  BY AppendProperties, LenProperties
<1>2. /\ (\A i \in 1..n : ~Publishes(os[i], u)) => d = h
      /\ \A j \in 1..n : Publishes(os[j], u) /\ (\A i \in j + 1..n : ~Publishes(os[i], u)) => d = Shows(os[j])
  BY DEF WillShow
<1> HIDE DEF more, n
<1>3. ASSUME \A i \in 1..n + 1 : ~Publishes(more[i], u) PROVE e = h
  <2>1. \A i \in 1..n : i \in 1..n + 1 /\ ~Publishes(more[i], u) /\ more[i] = os[i]
    BY <1>1, <1>3
  <2>2. ~Publishes(o, u)
    BY <1>1, <1>3
  <2>3. \A i \in 1..n : ~Publishes(os[i], u)
    BY <2>1
  <2> QED
    BY <1>2, <2>2, <2>3
<1>4. ASSUME NEW j \in 1..n + 1, Publishes(more[j], u), \A i \in j + 1..n + 1 : ~Publishes(more[i], u)
      PROVE  e = Shows(more[j])
  <2>1. CASE j = n + 1
    BY <1>1, <1>4, <2>1
  <2>2. CASE j # n + 1
    <3>1. j \in 1..n /\ n + 1 \in j + 1..n + 1
      BY <1>1, <2>2
    <3>2. ~Publishes(o, u)
      BY <1>1, <1>4, <3>1
    <3>3. \A i \in j + 1..n : ~Publishes(os[i], u)
      <4> SUFFICES ASSUME NEW i \in j + 1..n PROVE ~Publishes(os[i], u)
        OBVIOUS
      <4>1. i \in 1..n /\ i \in j + 1..n + 1
        BY <1>1, <3>1
      <4>2. more[i] = os[i]
        BY <1>1, <4>1
      <4>3. ~Publishes(more[i], u)
        BY <1>4, <4>1
      <4> QED
        BY <4>2, <4>3
    <3> QED
      BY <1>1, <1>2, <1>4, <3>1, <3>2, <3>3
  <2> QED
    BY <2>1, <2>2
<1>5. WillShow(more, u, e, h)
  BY <1>1, <1>3, <1>4 DEF WillShow
<1> QED
  BY <1>5 DEF more

-----------------------------------------------------------------------------
(* The documents the server holds.                                         *)

\* What has the fields of a message is one.
LEMMA AreMessages ==
  ASSUME NEW m \in MessageSet
  PROVE  IsMessage(m)
<1>1. m.method \notin {"unparsable", "bad frame", "end of input"}
  BY DEF MessageSet, Methods, Requests, DocQueries
<1>2. Unparsable.method = "unparsable" /\ BadFrame.method = "bad frame" /\ EndOfInput.method = "end of input"
  BY DEF Unparsable, BadFrame, EndOfInput
<1> QED
  BY <1>1, <1>2 DEF IsMessage

\* What is held of a document has a text exactly when the document is open.
LEMMA HaveType ==
  ASSUME docs \in Documents, NEW u
  PROVE  /\ Have(u) \in [text : Texts \cup {None}, version : Int]
         /\ u \in DOMAIN docs <=> Have(u).text # None
         /\ u \in DOMAIN docs => u \in Uris /\ Have(u) = docs[u] /\ docs[u] \in [text : Texts, version : Int]
         /\ u \notin DOMAIN docs => Have(u) = Nothing
<1>1. PICK D \in SUBSET Uris : docs \in [D -> [text : Texts, version : Int]]
  BY DEF Documents
<1>2. None \notin Texts
  BY TextsAssumption DEF AllTexts, None
<1> QED
  BY <1>1, <1>2 DEF Have, Nothing, NoVersion

\* didOpen and didChange set one document.
LEMMA SetDocument ==
  ASSUME docs \in Documents, NEW u \in Uris, NEW d \in [text : Texts, version : Int], docs' = With(u, d)
  PROVE  docs' \in Documents /\ \A x : Have(x)' = IF x = u THEN d ELSE Have(x)
<1>1. PICK D \in SUBSET Uris : docs \in [D -> [text : Texts, version : Int]]
  BY DEF Documents
<1>2. docs' \in [D \cup {u} -> [text : Texts, version : Int]]
  BY <1>1 DEF With, Open
<1>3. docs' \in Documents
  BY <1>2 DEF Documents
<1>4. ASSUME NEW x PROVE Have(x)' = IF x = u THEN d ELSE Have(x)
  BY <1>1 DEF With, Open, Have
<1> QED
  BY <1>3, <1>4

\* didClose removes one.
LEMMA RemoveDocument ==
  ASSUME docs \in Documents, NEW u \in Uris, docs' = Without(u)
  PROVE  docs' \in Documents /\ \A x : Have(x)' = IF x = u THEN Nothing ELSE Have(x)
<1>1. PICK D \in SUBSET Uris : docs \in [D -> [text : Texts, version : Int]]
  BY DEF Documents
<1>2. docs' \in [D \ {u} -> [text : Texts, version : Int]]
  BY <1>1 DEF Without, Open
<1>3. docs' \in Documents
  BY <1>2 DEF Documents
<1>4. ASSUME NEW x PROVE Have(x)' = IF x = u THEN Nothing ELSE Have(x)
  BY <1>1 DEF Without, Open, Have, Nothing
<1> QED
  BY <1>3, <1>4

-----------------------------------------------------------------------------
(* Server::handle.                                                         *)

\* What a round of the loop does: the documents change the way the message says,
\* and what is said, if anything, is an answer about the text asked for or the
\* diagnostics the server now has.
Speaks(o) ==
    /\ o \in Outgoing /\ outbox' = Append(outbox, o)
    /\ o.kind = "result" => o.from = o.seen
    /\ \A u \in Uris : DiagsOf(Have(u)') = IF Publishes(o, u) THEN Shows(o) ELSE DiagsOf(Have(u))
Silent == outbox' = outbox /\ \A u \in Uris : DiagsOf(Have(u)') = DiagsOf(Have(u))
Applies(m) ==
    /\ docs' \in Documents /\ shutdown' \in BOOLEAN
    /\ ~shutdown' => ~shutdown
    /\ ~shutdown' => \A u \in Uris : Have(u)' = IF Edits(m, u) THEN After(m) ELSE Have(u)
Round(m) == Applies(m) /\ (Silent \/ \E o \in Outgoing : Speaks(o))

\* A message whose handler leaves the documents alone.
LEMMA KeepsDocuments ==
  ASSUME TypeOK, NEW m \in Incoming, UNCHANGED docs, shutdown' \in BOOLEAN, shutdown => shutdown',
         shutdown' \/ \A u \in Uris : ~Edits(m, u)
  PROVE  Applies(m) /\ \A u \in Uris : Have(u)' = Have(u)
<1>1. \A u \in Uris : Have(u)' = Have(u)
  BY DEF Have
<1> QED
  BY <1>1 DEF Applies, TypeOK

\* handle's messages go out in order, after what is there.
LEMMA HandlesOut ==
  ASSUME outbox \in Seq(Outgoing), NEW m, NEW o \in Outgoing, NEW D
  PROVE  /\ Handles(m, <<o>>, D) => outbox' = Append(outbox, o) /\ docs' = D
         /\ Handles(m, <<>>, D) => outbox' = outbox /\ docs' = D
         /\ Handles(m, IfId(m, o), D) => outbox' \in {outbox, Append(outbox, o)} /\ docs' = D
<1>1. outbox \o <<>> = outbox
  BY ConcatEmptySeq
<1>2. outbox \o <<o>> = Append(outbox, o)
  BY AppendIsConcat
<1> QED
  BY <1>1, <1>2 DEF Handles, IfId

\* An error answers a request and says nothing of a document.
LEMMA ErrorSaid ==
  ASSUME NEW m \in MessageSet, NEW c \in Codes
  PROVE  /\ Error(m, c) \in Outgoing
         /\ Error(m, c).kind = "error"
         /\ \A u : ~Publishes(Error(m, c), u)
BY DEF Error, Outgoing, MessageSet, Publishes

\* An answer from the text the editor had.
LEMMA ResultSaid ==
  ASSUME NEW m \in MessageSet
  PROVE  /\ Result(m, m.seen) \in Outgoing
         /\ Result(m, m.seen).from = Result(m, m.seen).seen
         /\ \A u : ~Publishes(Result(m, m.seen), u)
BY DEF Result, Outgoing, MessageSet, Publishes

\* The diagnostics of what is held.
LEMMA PublishSaid ==
  ASSUME NEW u \in Uris, NEW h \in [text : Texts \cup {None}, version : Int]
  PROVE  LET o == Publish(u, h.version, Diags(h.text)) IN
         /\ o \in Outgoing
         /\ o.kind = "publish"
         /\ \A x : Publishes(o, x) <=> x = u
         /\ Shows(o) = DiagsOf(h)
BY DEF Publish, Outgoing, Publishes, Shows, DiagsOf, Diags

\* The text held of the document that the first message is about.
LEMMA HeadSees ==
  ASSUME StreamInv, inbox # <<>>, ~shutdown, IsMessage(Head(inbox)), Head(inbox).uri \in Uris
  PROVE  Have(Head(inbox).uri).text = Head(inbox).seen
<1> DEFINE u == Head(inbox).uri
<1>1. Len(inbox) \in Nat \ {0} /\ Head(inbox) = inbox[1] /\ 1 \in 1..Len(inbox)
  BY HeadTailProperties, LenProperties, EmptySeq DEF StreamInv, TypeOK
<1>2. PICK v \in Int : Arrives(inbox, u, 1 - 1, [text |-> inbox[1].seen, version |-> v], Have(u))
  <2>1. Comes(inbox, u, 1, Have(u))
    BY <1>1 DEF StreamInv, InboxInSync
  <2> QED
    BY <1>1, <2>1 DEF Comes
<1>3. Have(u) = [text |-> inbox[1].seen, version |-> v]
  BY <1>2 DEF Arrives
<1> QED
  BY <1>1, <1>3

\* A handler that leaves the documents alone and says o, or nothing.
LEMMA PlainRound ==
  ASSUME TypeOK, NEW m \in Incoming, NEW o \in Outgoing,
         UNCHANGED docs, shutdown' \in BOOLEAN, shutdown => shutdown',
         shutdown' \/ \A u \in Uris : ~Edits(m, u),
         outbox' \in {outbox, Append(outbox, o)},
         o.kind = "result" => o.from = o.seen, \A u : ~Publishes(o, u)
  PROVE  Round(m)
<1>1. Applies(m) /\ \A u \in Uris : Have(u)' = Have(u)
  BY KeepsDocuments
<1>2. CASE outbox' = outbox
  BY <1>1, <1>2 DEF Round, Silent
<1>3. CASE outbox' = Append(outbox, o)
  <2>1. Speaks(o)
    BY <1>1, <1>3 DEF Speaks
  <2> QED
    BY <1>1, <2>1 DEF Round
<1> QED
  BY <1>2, <1>3

\* After shutdown, requests are refused and nothing else happens.
LEMMA RejectedRound ==
  ASSUME StreamInv, NEW m \in MessageSet, Rejected(m)
  PROVE  Round(m)
<1> DEFINE o == Error(m, "InvalidRequest")
<1>1. o \in Outgoing /\ o.kind = "error" /\ \A u : ~Publishes(o, u)
  BY ErrorSaid DEF Codes
<1>2. Handles(m, IfId(m, o), docs) /\ UNCHANGED shutdown /\ shutdown /\ TypeOK
  BY DEF Rejected, StreamInv
<1> HIDE DEF o
<1>3. outbox' \in {outbox, Append(outbox, o)} /\ docs' = docs
  BY <1>1, <1>2, HandlesOut DEF TypeOK
<1> QED
  BY <1>1, <1>2, <1>3, PlainRound DEF Incoming, TypeOK

\* A message without a method is refused, or is a response.
LEMMA NoMethodRound ==
  ASSUME StreamInv, NEW m \in MessageSet, HandleNoMethod(m)
  PROVE  Round(m)
<1> DEFINE o == Error(m, "InvalidRequest")
<1>1. o \in Outgoing /\ o.kind = "error" /\ \A u : ~Publishes(o, u)
  BY ErrorSaid DEF Codes
<1>2. UNCHANGED shutdown /\ TypeOK /\ (Handles(m, IfId(m, o), docs) \/ Handles(m, <<>>, docs))
  BY DEF HandleNoMethod, StreamInv
<1>3. \A u \in Uris : ~Edits(m, u)
  BY DEF HandleNoMethod, Edits
<1> HIDE DEF o
<1>4. outbox' \in {outbox, Append(outbox, o)} /\ docs' = docs
  BY <1>1, <1>2, HandlesOut DEF TypeOK
<1> QED
  BY <1>1, <1>2, <1>3, <1>4, PlainRound DEF Incoming, TypeOK

\* initialize, initialized, shutdown and exit.
LEMMA LifecycleRound ==
  ASSUME StreamInv, NEW m \in MessageSet, HandleLifecycle(m)
  PROVE  Round(m)
<1> DEFINE o == Result(m, m.seen)
<1>1. o \in Outgoing /\ o.from = o.seen /\ \A u : ~Publishes(o, u)
  BY ResultSaid
<1>2. TypeOK /\ (Handles(m, <<o>>, docs) \/ Handles(m, <<>>, docs))
  BY DEF HandleLifecycle, StreamInv
<1>3. \A u \in Uris : ~Edits(m, u)
  BY DEF HandleLifecycle, Edits
<1>5. shutdown' \in BOOLEAN /\ (shutdown => shutdown')
  BY <1>2 DEF HandleLifecycle, TypeOK
<1> HIDE DEF o
<1>4. outbox' \in {outbox, Append(outbox, o)} /\ docs' = docs
  BY <1>1, <1>2, HandlesOut DEF TypeOK
<1> QED
  BY <1>1, <1>2, <1>3, <1>4, <1>5, PlainRound DEF Incoming, TypeOK

\* A query answers from the text that was asked about, or is an error.
LEMMA QueryRound ==
  ASSUME StreamInv, NEW m \in MessageSet, HandleQuery(m), inbox # <<>>, m = Head(inbox), Carries(m)
  PROVE  Round(m)
<1>1. \A u \in Uris : ~Edits(m, u)
  BY DEF HandleQuery, Edits, DocQueries
<1>2. ~shutdown /\ UNCHANGED shutdown /\ TypeOK
  BY DEF HandleQuery, StreamInv
<1>3. ASSUME m.method \in DocQueries, Handles(m, <<Answer(m)>>, docs) PROVE Round(m)
  <2>1. m.uri \in Uris /\ IsMessage(m)
    BY <1>3, AreMessages DEF Carries
  <2>2. Answer(m) = Result(m, m.seen)
    BY <1>2, <2>1, HeadSees, HaveType DEF Answer, Open, TypeOK, Nothing
  <2> DEFINE o == Result(m, m.seen)
  <2>3. o \in Outgoing /\ o.from = o.seen /\ \A u : ~Publishes(o, u)
    BY ResultSaid
  <2>5. Handles(m, <<o>>, docs)
    BY <1>3, <2>2
  <2> HIDE DEF o
  <2>4. outbox' \in {outbox, Append(outbox, o)} /\ docs' = docs
    BY <1>2, <2>3, <2>5, HandlesOut DEF TypeOK
  <2> QED
    BY <1>1, <1>2, <2>3, <2>4, PlainRound DEF Incoming, TypeOK
<1>4. ASSUME NEW c \in Codes, Handles(m, <<Error(m, c)>>, docs) \/ Handles(m, IfId(m, Error(m, c)), docs)
      PROVE  Round(m)
  <2> DEFINE o == Error(m, c)
  <2>1. o \in Outgoing /\ o.kind = "error" /\ \A u : ~Publishes(o, u)
    BY ErrorSaid
  <2>3. Handles(m, <<o>>, docs) \/ Handles(m, IfId(m, o), docs)
    BY <1>4
  <2> HIDE DEF o
  <2>2. outbox' \in {outbox, Append(outbox, o)} /\ docs' = docs
    BY <1>2, <2>1, <2>3, HandlesOut DEF TypeOK
  <2> QED
    BY <1>1, <1>2, <2>1, <2>2, PlainRound DEF Incoming, TypeOK
<1> QED
  BY <1>3, <1>4 DEF HandleQuery, Codes

\* didOpen, didChange and didClose apply what they carry, and publish what is
\* then held.
LEMMA DocumentRound ==
  ASSUME StreamInv, NEW m \in MessageSet, HandleDocument(m), inbox # <<>>, m = Head(inbox), Carries(m)
  PROVE  Round(m)
<1>1. ~shutdown /\ UNCHANGED shutdown /\ TypeOK
  BY DEF HandleDocument, StreamInv
<1>2. /\ m.method \in {"didOpen", "didChange", "didClose"} /\ m.uri \in Uris /\ IsMessage(m)
      /\ m.version \in Int
  BY AreMessages DEF HandleDocument, Carries, MessageSet
<1>3. Have(m.uri).text = m.seen
  BY <1>1, <1>2, HeadSees
<1> DEFINE Held(d) == docs' \in Documents /\ \A x : Have(x)' = IF x = m.uri THEN d ELSE Have(x)
<1>4. ASSUME NEW d \in [text : Texts \cup {None}, version : Int], Held(d),
             outbox' = Append(outbox, Publish(m.uri, d.version, Diags(d.text))),
             d = IF Edits(m, m.uri) THEN After(m) ELSE Have(m.uri)
      PROVE  Round(m)
  <2> DEFINE o == Publish(m.uri, d.version, Diags(d.text))
  <2>1. o \in Outgoing /\ o.kind = "publish" /\ (\A x : Publishes(o, x) <=> x = m.uri) /\ Shows(o) = DiagsOf(d)
    BY <1>2, PublishSaid
  <2>4. outbox' = Append(outbox, o)
    BY <1>4
  <2> HIDE DEF o
  <2>2. Speaks(o)
    BY <1>4, <2>1, <2>4 DEF Speaks
  <2>3. Applies(m)
    BY <1>1, <1>4 DEF Applies, Edits, TypeOK
  <2> QED
    BY <2>1, <2>2, <2>3 DEF Round
<1>5. ASSUME NEW D, docs' = D, NEW d \in [text : Texts \cup {None}, version : Int], Held(d),
             Handles(m, <<Diagnostics(D, m.uri)>>, D)
      PROVE  outbox' = Append(outbox, Publish(m.uri, d.version, Diags(d.text)))
  <2>1. Have(m.uri)' = d
    BY <1>5
  <2>2. Diagnostics(D, m.uri) = Publish(m.uri, d.version, Diags(d.text))
    BY <1>5, <2>1 DEF Diagnostics, Open, Have, Nothing, Diags, None
  <2>3. Publish(m.uri, d.version, Diags(d.text)) \in Outgoing
    BY <1>2, PublishSaid
  <2> QED
    BY <1>1, <1>5, <2>2, <2>3, HandlesOut DEF TypeOK
<1>6. CASE m.method = "didOpen" /\ Handles(m, <<Diagnostics(Opened(m), m.uri)>>, Opened(m))
  <2> DEFINE d == [text |-> m.text, version |-> m.version]
  <2>1. d \in [text : Texts, version : Int] /\ docs' = With(m.uri, d) /\ Opened(m) = With(m.uri, d)
    BY <1>2, <1>6 DEF Carries, Opened, Handles
  <2>2. Held(d)
    BY <1>1, <1>2, <2>1, SetDocument DEF TypeOK
  <2>3. d = IF Edits(m, m.uri) THEN After(m) ELSE Have(m.uri)
    BY <1>6 DEF Edits, After
  <2>4. d \in [text : Texts \cup {None}, version : Int]
    BY <2>1
  <2> HIDE DEF d, Held
  <2> QED
    BY <1>4, <1>5, <1>6, <2>1, <2>2, <2>3, <2>4
<1>7. CASE m.method = "didChange" /\ Handles(m, <<Diagnostics(Changed(m), m.uri)>>, Changed(m))
  <2>1. CASE m.seen # None
    <3> DEFINE d == [text |-> m.text, version |-> m.version]
    <3>1. m.text \in Texts /\ m.text # "ranged" /\ m.uri \in DOMAIN docs
      BY <1>1, <1>3, <1>7, <2>1, HaveType, TextsAssumption DEF Carries, TypeOK, AllTexts
    <3>2. d \in [text : Texts, version : Int] /\ docs' = With(m.uri, d) /\ Changed(m) = With(m.uri, d)
      BY <1>2, <1>7, <3>1 DEF Changed, Handles, Open
    <3>3. Held(d)
      BY <1>1, <1>2, <3>2, SetDocument DEF TypeOK
    <3>4. d = IF Edits(m, m.uri) THEN After(m) ELSE Have(m.uri)
      BY <1>7, <2>1 DEF Edits, After
    <3>5. d \in [text : Texts \cup {None}, version : Int]
      BY <3>2
    <3> HIDE DEF d, Held
    <3> QED
      BY <1>4, <1>5, <1>7, <3>2, <3>3, <3>4, <3>5
  <2>2. CASE m.seen = None
    <3> DEFINE d == Have(m.uri)
    <3>1. m.uri \notin DOMAIN docs /\ d \in [text : Texts \cup {None}, version : Int]
      BY <1>1, <1>3, <2>2, HaveType DEF TypeOK
    <3>2. Changed(m) = docs /\ docs' = docs
      BY <1>7, <3>1 DEF Changed, Handles, Open
    <3>3. Held(d)
      BY <1>1, <3>2 DEF Have, TypeOK
    <3>4. d = IF Edits(m, m.uri) THEN After(m) ELSE Have(m.uri)
      BY <1>7, <2>2 DEF Edits
    <3> HIDE DEF d, Held
    <3> QED
      BY <1>4, <1>5, <1>7, <3>1, <3>2, <3>3, <3>4
  <2> QED
    BY <2>1, <2>2
<1>8. CASE m.method = "didClose" /\ Handles(m, <<Publish(m.uri, NoVersion, {})>>, Without(m.uri))
  <2> DEFINE d == Nothing
  <2>1. d \in [text : Texts \cup {None}, version : Int] /\ docs' = Without(m.uri)
    BY <1>8 DEF Nothing, NoVersion, Handles
  <2>2. Held(d)
    BY <1>1, <1>2, <2>1, RemoveDocument DEF TypeOK
  <2>3. d = IF Edits(m, m.uri) THEN After(m) ELSE Have(m.uri)
    BY <1>8 DEF Edits, After
  <2>4. Publish(m.uri, NoVersion, {}) = Publish(m.uri, d.version, Diags(d.text))
    BY DEF Nothing, Diags, None
  <2>5. Publish(m.uri, NoVersion, {}) \in Outgoing
    BY <1>2, <2>1, <2>4, PublishSaid
  <2>6. outbox' = Append(outbox, Publish(m.uri, NoVersion, {}))
    BY <1>1, <1>8, <2>5, HandlesOut DEF TypeOK
  <2> HIDE DEF d, Held
  <2> QED
    BY <1>4, <2>1, <2>2, <2>3, <2>4, <2>6
<1> QED
  BY <1>6, <1>7, <1>8 DEF HandleDocument

-----------------------------------------------------------------------------
(* serve and the editor.                                                   *)

\* A frame that is no message ends the loop, or is answered with a parse error.
LEMMA GarbageRound ==
  ASSUME StreamInv, NEW m \in {Unparsable, BadFrame, EndOfInput},
         ReadUnparsable(m) \/ ReadBadFrame(m) \/ ReadEnd(m)
  PROVE  Round(m)
<1>1. ParseError \in Outgoing /\ ParseError.kind = "error" /\ \A u : ~Publishes(ParseError, u)
  BY DEF ParseError, Outgoing, Codes, Publishes
<1>2. UNCHANGED <<docs, shutdown>> /\ TypeOK
  BY DEF ReadUnparsable, ReadBadFrame, ReadEnd, server, StreamInv
<1>3. \A u \in Uris : ~Edits(m, u)
  <2>1. Unparsable.method = "unparsable" /\ BadFrame.method = "bad frame" /\ EndOfInput.method = "end of input"
    BY DEF Unparsable, BadFrame, EndOfInput
  <2> QED
    BY <2>1 DEF Edits
<1>4. outbox' \in {outbox, Append(outbox, ParseError)}
  BY DEF ReadUnparsable, ReadBadFrame, ReadEnd
<1> QED
  BY <1>1, <1>2, <1>3, <1>4, PlainRound DEF Incoming, TypeOK

\* The first message of the inbox, as TypeOK knows it.
LEMMA HeadOfInbox ==
  ASSUME TypeOK, inbox # <<>>
  PROVE  Head(inbox) \in Incoming /\ Carries(Head(inbox))
BY HeadTailProperties, LenProperties, EmptySeq DEF TypeOK

\* One round of the loop.
LEMMA ServeRound ==
  ASSUME StreamInv, Serve
  PROVE  Round(Head(inbox)) /\ inbox # <<>> /\ inbox' = Tail(inbox) /\ UNCHANGED editor
<1> DEFINE m == Head(inbox)
<1>1. /\ inbox # <<>> /\ inbox' = Tail(inbox) /\ UNCHANGED editor
      /\ ReadUnparsable(m) \/ ReadBadFrame(m) \/ ReadEnd(m) \/ Handle(m)
  BY DEF Serve
<1>2. m \in Incoming /\ Carries(m)
  BY <1>1, HeadOfInbox DEF StreamInv
<1> HIDE DEF m
<1>3. CASE ReadUnparsable(m) \/ ReadBadFrame(m) \/ ReadEnd(m)
  <2>1. m \in {Unparsable, BadFrame, EndOfInput}
    BY <1>3 DEF ReadUnparsable, ReadBadFrame, ReadEnd
  <2>2. Round(m)
    BY <1>3, <2>1, GarbageRound
  <2> QED
    BY <1>1, <2>2 DEF m
<1>4. CASE Handle(m)
  <2>1. m \in MessageSet /\ m = Head(inbox)
    BY <1>2, <1>4 DEF Handle, IsMessage, Incoming, m
  <2>2. Round(m)
    BY <1>1, <1>2, <1>4, <2>1, RejectedRound, NoMethodRound, LifecycleRound, DocumentRound, QueryRound DEF Handle
  <2> QED
    BY <1>1, <2>2 DEF m
<1> QED
  BY <1>1, <1>3, <1>4

\* A round keeps the inbox in step: what is left begins with what is now held.
LEMMA ServeKeepsInbox ==
  ASSUME StreamInv, inbox # <<>>, inbox' = Tail(inbox), UNCHANGED editor, Applies(Head(inbox))
  PROVE  InboxInSync'
<1> SUFFICES ASSUME ~shutdown', NEW u \in Uris
             PROVE  /\ \A k \in 1..Len(inbox') : Comes(inbox', u, k, Have(u)')
                    /\ Arrives(inbox', u, Len(inbox'), Wanted(u)', Have(u)')
  BY DEF InboxInSync
<1> DEFINE m == Head(inbox)
           h == IF Edits(m, u) THEN After(m) ELSE Have(u)
           n == Len(inbox)
<1>1. /\ inbox \in Seq(Incoming) /\ n \in Nat \ {0} /\ Len(inbox') = n - 1
      /\ \A i \in 1..n - 1 : inbox'[i] = inbox[i + 1]
  BY HeadTailProperties, LenProperties, EmptySeq DEF StreamInv, TypeOK
<1>2. Have(u)' = h /\ ~shutdown /\ Wanted(u)' = Wanted(u)
  BY DEF Applies, editor, Wanted
<1>3. /\ \A k \in 1..n : Comes(inbox, u, k, Have(u))
      /\ Arrives(inbox, u, n, Wanted(u), Have(u))
  BY <1>2 DEF StreamInv, InboxInSync
<1>4. ASSUME NEW k \in 1..n, NEW d, Arrives(inbox, u, k, d, Have(u))
      PROVE  Arrives(inbox', u, k - 1, d, h)
  BY <1>1, <1>4, ArrivesTail
<1> HIDE DEF n, h
<1>5. Arrives(inbox', u, n - 1, Wanted(u), h)
  BY <1>1, <1>3, <1>4
<1>6. ASSUME NEW k \in 1..n - 1 PROVE Comes(inbox', u, k, h)
  <2> SUFFICES ASSUME IsMessage(inbox[k + 1]), inbox[k + 1].uri = u
               PROVE  \E v \in Int : Arrives(inbox', u, k - 1, [text |-> inbox[k + 1].seen, version |-> v], h)
    BY <1>1 DEF Comes
  <2>1. k + 1 \in 1..n /\ (k + 1) - 1 = k /\ k \in 1..n
    BY <1>1
  <2>2. PICK v \in Int : Arrives(inbox, u, k, [text |-> inbox[k + 1].seen, version |-> v], Have(u))
    <3>1. Comes(inbox, u, k + 1, Have(u))
      BY <1>3, <2>1
    <3> QED
      BY <2>1, <3>1 DEF Comes
  <2>3. Arrives(inbox', u, k - 1, [text |-> inbox[k + 1].seen, version |-> v], h)
    BY <1>4, <2>1, <2>2
  <2> QED
    BY <2>3
<1> QED
  BY <1>1, <1>2, <1>5, <1>6

\* A round keeps the outbox in step, and answers the text asked for.
LEMMA ServeKeepsOutbox ==
  ASSUME StreamInv, UNCHANGED editor, Silent \/ \E o \in Outgoing : Speaks(o)
  PROVE  OutboxInSync' /\ AnswersTheTextAsked' /\ outbox' \in Seq(Outgoing)
<1>1. outbox \in Seq(Outgoing) /\ UNCHANGED shown
  BY DEF StreamInv, TypeOK, editor
<1>2. \A u \in Uris : WillShow(outbox, u, DiagsOf(Have(u)), shown[u])
  BY DEF StreamInv, OutboxInSync
<1>3. CASE Silent
  <2>1. \A u \in Uris : WillShow(outbox', u, DiagsOf(Have(u)'), shown'[u])
    BY <1>1, <1>2, <1>3 DEF Silent
  <2>2. OutboxInSync'
    BY <2>1 DEF OutboxInSync, DiagsOf
  <2> QED
    BY <1>1, <1>3, <2>2 DEF Silent, AnswersTheTextAsked, StreamInv
<1>4. ASSUME NEW o \in Outgoing, Speaks(o)
      PROVE  OutboxInSync' /\ AnswersTheTextAsked' /\ outbox' \in Seq(Outgoing)
  <2>1. outbox' = Append(outbox, o)
    BY <1>4 DEF Speaks
  <2>2. ASSUME NEW u \in Uris PROVE WillShow(outbox', u, DiagsOf(Have(u)'), shown'[u])
    <3>1. WillShow(outbox', u, IF Publishes(o, u) THEN Shows(o) ELSE DiagsOf(Have(u)), shown[u])
      BY <1>1, <1>2, <2>1, WillShowAppend
    <3>2. DiagsOf(Have(u)') = IF Publishes(o, u) THEN Shows(o) ELSE DiagsOf(Have(u))
      BY <1>4 DEF Speaks
    <3> QED
      BY <1>1, <3>1, <3>2
  <2>3. OutboxInSync'
    BY <2>2 DEF OutboxInSync, DiagsOf
  <2>4. /\ outbox' \in Seq(Outgoing) /\ DOMAIN outbox = 1..Len(outbox) /\ Len(outbox) \in Nat
        /\ DOMAIN outbox' = 1..Len(outbox) + 1
        /\ outbox'[Len(outbox) + 1] = o /\ \A i \in 1..Len(outbox) : outbox'[i] = outbox[i]
    BY <1>1, <2>1, AppendProperties, LenProperties
  <2>5. AnswersTheTextAsked'
    BY <1>4, <2>4 DEF AnswersTheTextAsked, StreamInv, Speaks
  <2> QED
    BY <2>3, <2>4, <2>5
<1> QED
  BY <1>3, <1>4

\* A round keeps the invariant.
LEMMA ServeKeeps ==
  ASSUME StreamInv, Serve
  PROVE  StreamInv'
<1>1. Round(Head(inbox)) /\ inbox # <<>> /\ inbox' = Tail(inbox) /\ UNCHANGED editor
  BY ServeRound
<1>2. InboxInSync'
  BY <1>1, ServeKeepsInbox DEF Round
<1>3. OutboxInSync' /\ AnswersTheTextAsked' /\ outbox' \in Seq(Outgoing)
  BY <1>1, ServeKeepsOutbox DEF Round
<1>4. inbox' \in Seq(Incoming) /\ \A i \in 1..Len(inbox') : Carries(inbox'[i])
  <2>1. Len(inbox) \in Nat \ {0} /\ Len(inbox') = Len(inbox) - 1 /\ inbox' \in Seq(Incoming)
        /\ \A i \in 1..Len(inbox) - 1 : inbox'[i] = inbox[i + 1]
    BY <1>1, HeadTailProperties, LenProperties, EmptySeq DEF StreamInv, TypeOK
  <2>2. \A i \in 1..Len(inbox) : Carries(inbox[i])
    BY DEF StreamInv, TypeOK
  <2>3. ASSUME NEW i \in 1..Len(inbox') PROVE Carries(inbox'[i])
    <3>1. i + 1 \in 1..Len(inbox) /\ inbox'[i] = inbox[i + 1]
      BY <2>1
    <3> QED
      BY <2>2, <3>1
  <2> QED
    BY <2>1, <2>3
<1>5. TypeOK'
  BY <1>1, <1>3, <1>4 DEF StreamInv, TypeOK, Round, Applies, editor
<1> QED
  BY <1>2, <1>3, <1>5 DEF StreamInv

\* The editor sends m, having asked from what it has, and wants what m leaves.
LEMMA SendKeeps ==
  ASSUME StreamInv, NEW m \in Incoming, Send(m), Carries(m),
         buffer' \in [Uris -> Texts \cup {None}], version' \in [Uris -> Int], leaving' \in BOOLEAN,
         IsMessage(m) /\ m.uri \in Uris => m.seen = buffer[m.uri],
         \A u \in Uris : Wanted(u)' = IF Edits(m, u) THEN After(m) ELSE Wanted(u)
  PROVE  StreamInv'
<1> DEFINE n == Len(inbox)
<1>1. /\ inbox \in Seq(Incoming) /\ n \in Nat /\ inbox' = Append(inbox, m)
      /\ inbox' \in Seq(Incoming) /\ Len(inbox') = n + 1
      /\ inbox'[n + 1] = m /\ \A i \in 1..n : inbox'[i] = inbox[i]
  BY AppendProperties, LenProperties DEF StreamInv, TypeOK, Send
<1>2. UNCHANGED <<docs, shutdown, outbox, shown>> /\ sent' = sent + 1 /\ \A u : Have(u)' = Have(u)
  BY DEF Send, server, Have
<1>3. InboxInSync'
  <2> SUFFICES ASSUME ~shutdown, NEW u \in Uris
               PROVE  /\ \A k \in 1..n + 1 : Comes(inbox', u, k, Have(u))
                      /\ Arrives(inbox', u, n + 1, Wanted(u)', Have(u))
    BY <1>1, <1>2 DEF InboxInSync
  <2>1. /\ \A k \in 1..n : Comes(inbox, u, k, Have(u))
        /\ Arrives(inbox, u, n, Wanted(u), Have(u))
    BY DEF StreamInv, InboxInSync
  <2>2. Arrives(inbox', u, n + 1, IF Edits(m, u) THEN After(m) ELSE Wanted(u), Have(u))
    BY <1>1, <2>1, ArrivesLast
  <2>3. ASSUME NEW k \in 0..n, NEW d, Arrives(inbox, u, k, d, Have(u))
        PROVE  Arrives(inbox', u, k, d, Have(u))
    BY <1>1, <2>3, ArrivesAppend
  <2> HIDE DEF n
  <2>4. ASSUME NEW k \in 1..n PROVE Comes(inbox', u, k, Have(u))
    <3>1. Comes(inbox, u, k, Have(u)) /\ inbox'[k] = inbox[k]
      BY <1>1, <2>1
    <3> DEFINE j == k - 1
    <3>3. j \in 0..n
      BY <1>1
    <3> HIDE DEF j
    <3>2. ASSUME NEW d, Arrives(inbox, u, j, d, Have(u)) PROVE Arrives(inbox', u, j, d, Have(u))
      BY <2>3, <3>2, <3>3
    <3> QED
      BY <3>1, <3>2 DEF Comes, j
  <2>5. Comes(inbox', u, n + 1, Have(u))
    <3> SUFFICES ASSUME IsMessage(m), m.uri = u
                 PROVE  \E v \in Int : Arrives(inbox', u, n, [text |-> m.seen, version |-> v], Have(u))
      <4>1. (n + 1) - 1 = n /\ inbox'[n + 1] = m
        BY <1>1
      <4> QED
        BY <4>1, Zenon DEF Comes
    <3>1. m.seen = buffer[u] /\ version \in [Uris -> Int]
      BY DEF StreamInv, TypeOK
    <3> DEFINE v == Wanted(u).version
    <3>2. v \in Int /\ Wanted(u) = [text |-> m.seen, version |-> v]
      <4>1. CASE buffer[u] = None
        BY <3>1, <4>1 DEF Wanted, Nothing, NoVersion
      <4>2. CASE buffer[u] # None
        BY <3>1, <4>2 DEF Wanted
      <4> QED
        BY <4>1, <4>2
    <3>3. Arrives(inbox', u, n, Wanted(u), Have(u))
      BY <1>1, <2>1, <2>3
    <3> QED
      BY <3>2, <3>3
  <2>6. \A k \in 1..n + 1 : Comes(inbox', u, k, Have(u))
    BY <1>1, <2>4, <2>5
  <2> QED
    BY <2>2, <2>6
<1>4. OutboxInSync' /\ AnswersTheTextAsked'
  BY <1>2 DEF StreamInv, OutboxInSync, AnswersTheTextAsked, Have
<1>5. TypeOK'
  BY <1>1, <1>2 DEF StreamInv, TypeOK
<1> QED
  BY <1>3, <1>4, <1>5 DEF StreamInv

\* What Message makes.
LEMMA MessageMade ==
  ASSUME TypeOK, NEW method \in Methods, NEW i \in Nat, NEW u \in Uris
  PROVE  /\ Message(method, i, u) \in MessageSet
         /\ Message(method, i, u).method = method
         /\ Message(method, i, u).uri = u
         /\ Message(method, i, u).text = None
         /\ Message(method, i, u).seen = buffer[u]
<1>1. buffer \in [Uris -> Texts \cup {None}] /\ leaving \in BOOLEAN
  BY DEF TypeOK
<1> QED
  BY <1>1, UrisAssumption DEF Message, MessageSet

\* Ids are numbers.
LEMMA IdsAreNumbers ==
  ASSUME TypeOK, NEW request, NEW i \in Ids(request)
  PROVE  i \in Nat
BY DEF TypeOK, Ids

\* An edit of an open document, or the opening of one.
LEMMA WriteKeeps ==
  ASSUME StreamInv, NEW u \in Uris, NEW t \in Texts, SendOpen(u, t) \/ SendChange(u, t)
  PROVE  StreamInv'
<1>1. /\ TypeOK /\ t # None /\ buffer \in [Uris -> Texts \cup {None}] /\ version \in [Uris -> Int]
      /\ leaving \in BOOLEAN
  BY TextsAssumption DEF StreamInv, TypeOK, AllTexts, None
<1>2. PICK method \in {"didOpen", "didChange"}, i \in Nat :
         /\ Send([Message(method, i, u) EXCEPT !.text = t, !.version = version[u] + 1])
         /\ method = "didChange" => buffer[u] # None
  BY <1>1, IdsAreNumbers DEF SendOpen, SendChange
<1>3. /\ buffer' = [buffer EXCEPT ![u] = t] /\ version' = [version EXCEPT ![u] = @ + 1]
      /\ UNCHANGED leaving
  BY DEF SendOpen, SendChange
<1> DEFINE m == [Message(method, i, u) EXCEPT !.text = t, !.version = version[u] + 1]
<1>4. /\ m \in MessageSet /\ m.method = method /\ m.uri = u /\ m.text = t
      /\ m.version = version[u] + 1 /\ m.seen = buffer[u]
  <2>1. method \in Methods
    BY DEF Methods
  <2>2. version[u] + 1 \in Int
    BY <1>1
  <2> DEFINE b == Message(method, i, u)
  <2>3. b \in MessageSet /\ b.method = method /\ b.uri = u /\ b.seen = buffer[u]
    <3> HIDE DEF m
    <3>1. TypeOK /\ i \in Nat /\ u \in Uris
      BY <1>1, <1>2
    <3> QED BY <2>1, <3>1, MessageMade
  <2> HIDE DEF b
  <2>4. m = [b EXCEPT !.text = t, !.version = version[u] + 1]
    BY DEF b
  <2> HIDE DEF m
  <2> QED
    BY <2>2, <2>3, <2>4 DEF MessageSet
<1>5. Send(m)
  BY <1>2
<1> HIDE DEF m
<1>6. Carries(m) /\ m \in Incoming
  BY <1>4 DEF Carries, Incoming, DocQueries
<1>7. \A x \in Uris : Wanted(x)' = IF Edits(m, x) THEN After(m) ELSE Wanted(x)
  <2>1. ASSUME NEW x \in Uris, x # u PROVE Wanted(x)' = Wanted(x) /\ ~Edits(m, x)
    BY <1>1, <1>3, <1>4, <2>1 DEF Wanted, Edits
  <2>2. Edits(m, u) /\ After(m) = [text |-> t, version |-> version[u] + 1]
    BY <1>2, <1>4 DEF Edits, After
  <2>3. Wanted(u)' = [text |-> t, version |-> version[u] + 1]
    BY <1>1, <1>3 DEF Wanted
  <2> QED
    BY <2>1, <2>2, <2>3
<1>8. buffer' \in [Uris -> Texts \cup {None}] /\ version' \in [Uris -> Int] /\ leaving' \in BOOLEAN
  BY <1>1, <1>3
<1> QED
  BY <1>4, <1>5, <1>6, <1>7, <1>8, SendKeeps

\* A message about no document that is changed leaves what is wanted alone.
LEMMA OtherKeeps ==
  ASSUME StreamInv, NEW m \in Incoming, Send(m), Carries(m), UNCHANGED <<buffer, version>>,
         leaving' \in BOOLEAN, \A u \in Uris : ~Edits(m, u),
         IsMessage(m) /\ m.uri \in Uris => m.seen = buffer[m.uri]
  PROVE  StreamInv'
<1>1. \A x \in Uris : Wanted(x)' = IF Edits(m, x) THEN After(m) ELSE Wanted(x)
  BY DEF Wanted
<1>2. buffer' \in [Uris -> Texts \cup {None}] /\ version' \in [Uris -> Int]
  BY DEF StreamInv, TypeOK
<1> QED
  BY <1>1, <1>2, SendKeeps

\* A change of a closed document changes nothing.
LEMMA StrayKeeps ==
  ASSUME StreamInv, NEW u \in Uris, SendStrayChange(u)
  PROVE  StreamInv'
<1>1. TypeOK /\ buffer[u] = None /\ UNCHANGED <<buffer, version, leaving>>
  BY DEF SendStrayChange, StreamInv
<1>2. PICK t \in Texts \cup {"ranged"} :
         Send([Message("didChange", 0, u) EXCEPT !.text = t, !.version = 9])
  BY DEF SendStrayChange
<1> DEFINE m == [Message("didChange", 0, u) EXCEPT !.text = t, !.version = 9]
<1>3. /\ m \in MessageSet /\ m.method = "didChange" /\ m.uri = u /\ m.text = t /\ m.seen = buffer[u]
  <2> DEFINE b == Message("didChange", 0, u)
  <2>1. "didChange" \in Methods
    BY DEF Methods
  <2>2. b \in MessageSet /\ b.method = "didChange" /\ b.uri = u /\ b.seen = buffer[u]
    BY <1>1, <2>1, MessageMade
  <2> HIDE DEF b
  <2>3. m = [b EXCEPT !.text = t, !.version = 9]
    BY DEF b
  <2> HIDE DEF m
  <2>4. t \in Texts \cup {None, "ranged", "result"} /\ 9 \in Int
    OBVIOUS
  <2>5. m.method = "didChange" /\ m.uri = u /\ m.text = t /\ m.seen = buffer[u]
    BY <2>2, <2>3 DEF MessageSet
  <2>6. m \in MessageSet
    BY <2>2, <2>3, <2>4 DEF MessageSet
  <2> QED
    BY <2>5, <2>6
<1>4. Send(m)
  BY <1>2
<1> HIDE DEF m
<1>5. Carries(m) /\ m \in Incoming /\ \A x \in Uris : ~Edits(m, x)
  BY <1>1, <1>3 DEF Carries, Incoming, Edits, DocQueries
<1> QED
  BY <1>1, <1>3, <1>4, <1>5, OtherKeeps DEF TypeOK

\* A close leaves nothing.
LEMMA CloseKeeps ==
  ASSUME StreamInv, NEW u \in Uris, SendClose(u)
  PROVE  StreamInv'
<1>1. /\ TypeOK /\ buffer' = [buffer EXCEPT ![u] = None] /\ UNCHANGED <<version, leaving>>
      /\ buffer \in [Uris -> Texts \cup {None}]
  BY DEF SendClose, StreamInv, TypeOK
<1>2. PICK i \in Nat : Send(Message("didClose", i, u))
  BY <1>1, IdsAreNumbers DEF SendClose
<1> DEFINE m == Message("didClose", i, u)
<1>3. m \in MessageSet /\ m.method = "didClose" /\ m.uri = u /\ m.seen = buffer[u] /\ m.text = None
  <2>1. "didClose" \in Methods
    BY DEF Methods
  <2> QED
    BY <1>1, <2>1, MessageMade
<1> HIDE DEF m
<1>4. Carries(m) /\ m \in Incoming
  BY <1>3 DEF Carries, Incoming, DocQueries
<1>5. \A x \in Uris : Wanted(x)' = IF Edits(m, x) THEN After(m) ELSE Wanted(x)
  BY <1>1, <1>3 DEF Wanted, Edits, After
<1>6. buffer' \in [Uris -> Texts \cup {None}] /\ version' \in [Uris -> Int] /\ leaving' \in BOOLEAN
  BY <1>1 DEF TypeOK
<1>7. Send(m)
  BY <1>2 DEF m
<1> QED
  BY <1>3, <1>4, <1>5, <1>6, <1>7, SendKeeps

\* Requests, notifications and messages without a method edit nothing.
LEMMA PlainSendKeeps ==
  ASSUME StreamInv, NEW method \in Methods \ {"didOpen", "didChange", "didClose"}, NEW i \in Nat,
         NEW u \in Uris \cup {None}, method \in DocQueries => u \in Uris,
         NEW m \in {Message(method, i, u), [Message(method, i, u) EXCEPT !.text = "result"]},
         Send(m), UNCHANGED <<buffer, version>>, leaving' \in BOOLEAN
  PROVE  StreamInv'
<1>1. TypeOK /\ buffer \in [Uris -> Texts \cup {None}] /\ leaving \in BOOLEAN
  BY DEF StreamInv, TypeOK
<1> DEFINE b == Message(method, i, u)
<1>2. b \in MessageSet /\ b.method = method /\ b.uri = u /\ (u \in Uris => b.seen = buffer[u])
  BY <1>1, UrisAssumption DEF Message, MessageSet
<1> HIDE DEF b
<1>3. m \in {b, [b EXCEPT !.text = "result"]}
  BY DEF b
<1>4. m \in MessageSet /\ m.method = method /\ m.uri = u /\ (u \in Uris => m.seen = buffer[u])
  BY <1>2, <1>3 DEF MessageSet
<1>5. Carries(m) /\ m \in Incoming /\ \A x \in Uris : ~Edits(m, x)
  BY <1>4 DEF Carries, Incoming, Edits
<1> QED
  BY <1>4, <1>5, OtherKeeps

\* What the editor sends besides documents.
LEMMA OtherSends ==
  ASSUME StreamInv, Other
  PROVE  StreamInv'
<1>1. TypeOK /\ leaving \in BOOLEAN /\ sent + 1 \in Nat
  BY DEF StreamInv, TypeOK
<1>2. ASSUME NEW u \in Uris, NEW method \in Requests, SendRequest(method, u) PROVE StreamInv'
  <2> DEFINE w == IF method \in DocQueries THEN u ELSE None
  <2>1. PICK i \in Nat : Send(Message(method, i, w))
    BY <1>1, <1>2, IdsAreNumbers DEF SendRequest
  <2>2. /\ method \in Methods \ {"didOpen", "didChange", "didClose"}
        /\ w \in Uris \cup {None} /\ (method \in DocQueries => w \in Uris)
    BY DEF Methods, Requests, DocQueries
  <2>3. UNCHANGED <<buffer, version>> /\ leaving' \in BOOLEAN
    BY <1>1, <1>2 DEF SendRequest
  <2> HIDE DEF w
  <2> QED
    BY <2>1, <2>2, <2>3, PlainSendKeeps
<1>3. ASSUME NEW method \in {"initialized", "exit", "unknown"}, SendNotification(method) PROVE StreamInv'
  <2>1. PICK i \in Nat : Send(Message(method, i, None))
    BY <1>1, <1>3, IdsAreNumbers DEF SendNotification
  <2>2. method \in Methods \ {"didOpen", "didChange", "didClose"} /\ method \notin DocQueries
    BY DEF Methods, Requests, DocQueries
  <2>3. UNCHANGED <<buffer, version>> /\ leaving' \in BOOLEAN
    BY <1>1, <1>3 DEF SendNotification
  <2> QED
    BY <2>1, <2>2, <2>3, PlainSendKeeps
<1>4. CASE SendNoMethod
  <2>1. /\ {"response", "no method"} \subseteq Methods \ {"didOpen", "didChange", "didClose"}
        /\ "response" \notin DocQueries /\ "no method" \notin DocQueries
    BY DEF Methods, Requests, DocQueries
  <2>2. UNCHANGED <<buffer, version>> /\ leaving' \in BOOLEAN
    BY <1>1, <1>4 DEF SendNoMethod
  <2>3. CASE Send(Response(sent + 1))
    BY <1>1, <2>1, <2>2, <2>3, PlainSendKeeps DEF Response
  <2>4. CASE Send(NoMethod(sent + 1))
    BY <1>1, <2>1, <2>2, <2>4, PlainSendKeeps DEF NoMethod
  <2> QED
    BY <1>4, <2>3, <2>4 DEF SendNoMethod
<1>5. CASE SendGarbage
  <2>1. PICK m \in {Unparsable, BadFrame, EndOfInput} : Send(m)
    BY <1>5 DEF SendGarbage
  <2>2. Unparsable.method = "unparsable" /\ BadFrame.method = "bad frame" /\ EndOfInput.method = "end of input"
    BY DEF Unparsable, BadFrame, EndOfInput
  <2>3. Carries(m) /\ m \in Incoming /\ (\A x \in Uris : ~Edits(m, x)) /\ ~IsMessage(m)
    BY <2>1, <2>2 DEF Carries, Incoming, Edits, DocQueries, IsMessage
  <2>4. UNCHANGED <<buffer, version>> /\ leaving' \in BOOLEAN
    BY <1>1, <1>5 DEF SendGarbage
  <2> QED
    BY <2>1, <2>3, <2>4, OtherKeeps
<1> QED
  BY <1>2, <1>3, <1>4, <1>5 DEF Other

\* The editor reads one message, and shows what it publishes.
LEMMA ReceiveKeeps ==
  ASSUME StreamInv, Receive
  PROVE  StreamInv'
<1> DEFINE o == Head(outbox)
           n == Len(outbox)
<1>1. /\ outbox \in Seq(Outgoing) /\ outbox # <<>> /\ outbox' = Tail(outbox)
      /\ UNCHANGED <<server, inbox, buffer, version, sent, leaving>>
      /\ shown \in [Uris -> [version : Int, diags : SUBSET {"parse", "name"}]]
      /\ shown' = IF o.kind = "publish"
                  THEN [shown EXCEPT ![o.uri] = [version |-> o.version, diags |-> o.diags]] ELSE shown
  BY DEF Receive, StreamInv, TypeOK
<1>2. /\ n \in Nat \ {0} /\ o \in Outgoing /\ outbox' \in Seq(Outgoing)
      /\ DOMAIN outbox = 1..n /\ DOMAIN outbox' = 1..n - 1
      /\ \A i \in 1..n - 1 : outbox'[i] = outbox[i + 1]
  BY <1>1, HeadTailProperties, LenProperties, EmptySeq
<1>3. ASSUME NEW u \in Uris PROVE WillShow(outbox', u, DiagsOf(Have(u)), shown'[u])
  <2>1. WillShow(outbox, u, DiagsOf(Have(u)), shown[u])
    BY DEF StreamInv, OutboxInSync
  <2>2. WillShow(outbox', u, DiagsOf(Have(u)), IF Publishes(o, u) THEN Shows(o) ELSE shown[u])
    BY <1>1, <2>1, WillShowTail
  <2>3. shown'[u] = IF Publishes(o, u) THEN Shows(o) ELSE shown[u]
    BY <1>1 DEF Publishes, Shows
  <2> QED
    BY <2>2, <2>3
<1>4. \A u : Have(u)' = Have(u) /\ Wanted(u)' = Wanted(u)
  BY <1>1 DEF Have, Wanted, server
<1>5. OutboxInSync'
  BY <1>3, <1>4 DEF OutboxInSync, DiagsOf
<1>6. InboxInSync'
  BY <1>1, <1>4 DEF StreamInv, InboxInSync, server
<1>7. AnswersTheTextAsked'
  <2>1. ASSUME NEW i \in 1..n - 1 PROVE i + 1 \in 1..n
    BY <1>2
  <2> QED
    BY <1>2, <2>1 DEF StreamInv, AnswersTheTextAsked
<1>8. shown' \in [Uris -> [version : Int, diags : SUBSET {"parse", "name"}]]
  <2>1. o.kind = "publish" => o.version \in Int /\ o.diags \in SUBSET {"parse", "name"}
    BY <1>2 DEF Outgoing
  <2> HIDE DEF o
  <2> QED
    BY <1>1, <2>1
<1>9. TypeOK'
  BY <1>1, <1>2, <1>8 DEF StreamInv, TypeOK, server
<1> QED
  BY <1>5, <1>6, <1>7, <1>9 DEF StreamInv

-----------------------------------------------------------------------------
\* The invariant behind both properties: in step on both streams.
THEOREM StreamsInStep == Spec => []StreamInv
<1>1. Init => StreamInv
  <2> SUFFICES ASSUME Init PROVE StreamInv
    OBVIOUS
  <2>1. docs = <<>> /\ docs \in [{} -> [text : Texts, version : Int]] /\ DOMAIN docs = {}
    BY DEF Init
  <2>2. docs \in Documents
    BY <2>1 DEF Documents
  <2>3. /\ inbox = <<>> /\ outbox = <<>> /\ inbox \in Seq(Incoming) /\ outbox \in Seq(Outgoing)
        /\ Len(inbox) = 0 /\ Len(outbox) = 0 /\ DOMAIN outbox = {}
    BY EmptySeq DEF Init
  <2>9. /\ shutdown = FALSE /\ sent = 0 /\ leaving = FALSE
        /\ buffer \in [Uris -> Texts \cup {None}] /\ version \in [Uris -> Int]
    BY DEF Init
  <2>10. shown \in [Uris -> [version : Int, diags : SUBSET {"parse", "name"}]]
    BY DEF Init, NoVersion
  <2>4. TypeOK
    <3>1. \A i \in 1..Len(inbox) : Carries(inbox[i])
      BY <2>3
    <3>2. shutdown \in BOOLEAN /\ leaving \in BOOLEAN /\ sent \in Nat
      BY <2>9
    <3> QED
      BY <2>2, <2>3, <2>9, <2>10, <3>1, <3>2, Zenon DEF TypeOK
  <2>5. \A u \in Uris : Have(u) = Nothing /\ Wanted(u) = Nothing /\ shown[u] = DiagsOf(Nothing)
    BY <2>1 DEF Init, Have, Wanted, DiagsOf, Nothing, Diags, None
  <2>6. InboxInSync
    <3>1. ASSUME NEW u \in Uris PROVE Arrives(inbox, u, 0, Wanted(u), Have(u))
      BY <2>5 DEF Arrives
    <3>2. ASSUME NEW u \in Uris PROVE \A k \in 1..Len(inbox) : Comes(inbox, u, k, Have(u))
      BY <2>3
    <3> QED
      BY <2>3, <3>1, <3>2 DEF InboxInSync
  <2>7. OutboxInSync
    <3>1. ASSUME NEW u \in Uris, NEW d PROVE WillShow(outbox, u, d, d)
      BY <2>3 DEF WillShow
    <3>2. ASSUME NEW u \in Uris PROVE WillShow(outbox, u, DiagsOf(Have(u)), shown[u])
      BY <2>5, <3>1
    <3> QED
      BY <3>2 DEF OutboxInSync
  <2>8. AnswersTheTextAsked
    BY <2>3 DEF AnswersTheTextAsked
  <2> QED
    BY <2>4, <2>6, <2>7, <2>8 DEF StreamInv
<1>2. StreamInv /\ [Next]_vars => StreamInv'
  <2> SUFFICES ASSUME StreamInv, [Next]_vars PROVE StreamInv'
    OBVIOUS
  <2>1. CASE Serve
    BY <2>1, ServeKeeps
  <2>2. CASE Receive
    BY <2>2, ReceiveKeeps
  <2>3. CASE Edit
    BY <2>3, WriteKeeps, StrayKeeps, CloseKeeps DEF Edit
  <2>4. CASE Other
    BY <2>4, OtherSends
  <2>5. CASE UNCHANGED vars
    BY <2>5 DEF vars, server, editor, StreamInv, TypeOK, InboxInSync, OutboxInSync, AnswersTheTextAsked,
           Have, Wanted
  <2> QED
    BY <2>1, <2>2, <2>3, <2>4, <2>5 DEF Next
<1> QED
  BY <1>1, <1>2, PTL DEF Spec

\* A query is answered from the text the editor had when it asked, whatever edits
\* were sent before and after it (Server::handle's arms for the document queries).
THEOREM AnswersAreOfTheTextAsked == Spec => []AnswersTheTextAsked
<1>1. StreamInv => AnswersTheTextAsked
  BY DEF StreamInv
<1> QED
  BY <1>1, StreamsInStep, PTL

\* Once both streams are empty the editor shows the diagnostics of the text it has
\* (Server::diagnostics, published by didOpen, didChange and didClose).
THEOREM DiagnosticsAreSettled == Spec => []DiagnosticsSettle
<1>1. StreamInv => DiagnosticsSettle
  <2> SUFFICES ASSUME StreamInv, inbox = <<>>, outbox = <<>>, ~shutdown, NEW u \in Uris
               PROVE  shown[u] = IF buffer[u] = None THEN [version |-> NoVersion, diags |-> {}]
                                 ELSE [version |-> version[u], diags |-> Diags(buffer[u])]
    BY DEF DiagnosticsSettle
  <2>1. Len(inbox) = 0 /\ Len(outbox) = 0
    BY EmptySeq
  <2>2. Wanted(u) = Have(u)
    BY <2>1 DEF StreamInv, InboxInSync, Arrives
  <2>3. shown[u] = DiagsOf(Have(u))
    BY <2>1 DEF StreamInv, OutboxInSync, WillShow
  <2>4. CASE buffer[u] = None
    <3>1. Have(u) = Nothing
      BY <2>2, <2>4 DEF Wanted
    <3>2. DiagsOf(Nothing) = [version |-> NoVersion, diags |-> {}]
      BY DEF DiagsOf, Nothing, Diags, None
    <3> QED
      BY <2>3, <2>4, <3>1, <3>2
  <2>5. CASE buffer[u] # None
    BY <2>2, <2>3, <2>5 DEF Wanted, DiagsOf
  <2> QED
    BY <2>4, <2>5
<1> QED
  BY <1>1, StreamsInStep, PTL

-----------------------------------------------------------------------------
(* Positions: induction over the bytes, and the loops as functions.        *)

\* Every nonempty set of naturals has a least element.
LEMMA Least ==
  ASSUME NEW S, S \subseteq Nat, S # {}
  PROVE  \E m \in S : \A k \in S : m <= k
<1> DEFINE R == OpToRel(<, Nat)
<1>1. \A x, y \in Nat : <<x, y>> \in R <=> x < y
  BY DEF OpToRel
<1>2. IsWellFoundedOn(R, Nat)
  BY NatLessThanWellFounded
<1> HIDE DEF R
<1>3. PICK m \in S : \A k \in S : <<k, m>> \notin R
  BY <1>2, WFMin
<1>4. ASSUME NEW k \in S PROVE m <= k
  <2>1. k \in Nat /\ m \in Nat
    OBVIOUS
  <2>2. ~(k < m)
    BY <1>1, <1>3, <2>1
  <2> QED BY <2>1, <2>2
<1> QED BY <1>4

\* Induction over the naturals, for a set instead of a predicate.
LEMMA Induct ==
  ASSUME NEW T, 0 \in T, \A n \in Nat : n \in T => n + 1 \in T
  PROVE  Nat \subseteq T
<1> SUFFICES ASSUME Nat \ T # {} PROVE FALSE
  OBVIOUS
<1>1. PICK m \in Nat \ T : \A k \in Nat \ T : m <= k
  BY Least
<1>2. m # 0 /\ m \in Nat
  OBVIOUS
<1>3. m - 1 \in Nat /\ ~(m <= m - 1)
  BY <1>2
<1>4. m - 1 \in T
  BY <1>1, <1>3
<1>5. (m - 1) + 1 = m
  BY <1>2
<1> QED BY <1>3, <1>4, <1>5

\* A loop of n turns over values in V, from v, with the body g; and its values f.
Loop(n, V, v, g) == n \in Nat /\ v \in V /\ g \in [(1..n) \X V -> V]
Runs(f, n, V, v, g) == f \in [0..n -> V] /\ f[0] = v /\ \A i \in 1..n : f[i] = g[<<i, f[i - 1]>>]

\* Every such loop has its values.
LEMMA LoopsExist ==
  ASSUME NEW V, NEW v, NEW n, NEW g, Loop(n, V, v, g)
  PROVE  \E f : Runs(f, n, V, v, g)
<1> USE DEF Loop, Runs
<1> DEFINE Good(f, k) == f \in [0..k -> V] /\ f[0] = v /\ \A i \in 1..k : f[i] = g[<<i, f[i - 1]>>]
           K == {k \in Nat : k <= n => \E f : Good(f, k)}
<1>1. 0 \in K
  <2> DEFINE f == [i \in 0..0 |-> v]
  <2>1. f[0] = v /\ f \in [0..0 -> V] /\ 1..0 = {}
    OBVIOUS
  <2>2. Good(f, 0)
    BY <2>1
  <2> HIDE DEF Good, f
  <2> QED BY <2>2
<1>2. ASSUME NEW k \in Nat, k \in K PROVE k + 1 \in K
  <2> SUFFICES ASSUME k + 1 <= n PROVE \E f : Good(f, k + 1)
    OBVIOUS
  <2>1. PICK f : Good(f, k)
    BY <1>2
  <2>2. k \in 0..k /\ f \in [0..k -> V] /\ f[k] \in V /\ k + 1 \in 1..n /\ f[0] = v
    BY <2>1
  <2> DEFINE h == [i \in 0..(k + 1) |-> IF i = k + 1 THEN g[<<k + 1, f[k]>>] ELSE f[i]]
  <2>3. g[<<k + 1, f[k]>>] \in V
    BY <2>2
  <2>4. h \in [0..(k + 1) -> V]
    BY <2>2, <2>3
  <2>5. h[0] = v /\ h[k + 1] = g[<<k + 1, f[k]>>] /\ \A i \in 0..k : h[i] = f[i]
    BY <2>2
  <2> HIDE DEF h
  <2>6. ASSUME NEW i \in 1..(k + 1) PROVE h[i] = g[<<i, h[i - 1]>>]
    <3>1. CASE i = k + 1
      BY <2>5, <3>1
    <3>2. CASE i # k + 1
      <4>1. i \in 1..k /\ i \in 0..k /\ i - 1 \in 0..k
        BY <3>2
      <4> QED BY <2>1, <2>5, <4>1
    <3> QED BY <3>1, <3>2
  <2>7. Good(h, k + 1)
    BY <2>4, <2>5, <2>6
  <2> HIDE DEF Good
  <2> QED BY <2>7
<1>3. Nat \subseteq K
  <2> HIDE DEF K
  <2> QED BY <1>1, <1>2, Induct
<1>4. n \in K
  BY <1>3
<1> QED BY <1>4

\* The units of the first i bytes (utf16_units of a prefix), one byte at a time.
LEMMA UnitsStep ==
  ASSUME NEW S, NEW s \in Seq(S)
  PROVE  /\ UnitsTo(s) \in [0..Len(s) -> Nat] /\ UnitsTo(s)[0] = 0
         /\ \A i \in 1..Len(s) : UnitsTo(s)[i] = UnitsTo(s)[i - 1] + Units(s[i])
<1> DEFINE n == Len(s)
           g == [p \in (1..n) \X Nat |-> p[2] + Units(s[p[1]])]
           Same(f) == f = [i \in 0..n |-> IF i = 0 THEN 0 ELSE f[i - 1] + Units(s[i])]
<1>1. \A b : Units(b) \in Nat
  BY DEF Units
<1>2. n \in Nat
  OBVIOUS
<1>3. g \in [(1..n) \X Nat -> Nat] /\ \A i \in 1..n, m \in Nat : g[<<i, m>>] = m + Units(s[i])
  BY <1>1
<1> HIDE DEF g, n
<1>4. PICK f : Runs(f, n, Nat, 0, g)
  <2>1. Loop(n, Nat, 0, g)
    BY <1>2, <1>3 DEF Loop
  <2> QED BY <2>1, LoopsExist
<1>5. \A i \in 1..n : f[i] = f[i - 1] + Units(s[i])
  <2> SUFFICES ASSUME NEW i \in 1..n PROVE f[i] = f[i - 1] + Units(s[i])
    OBVIOUS
  <2>1. f[i] = g[<<i, f[i - 1]>>] /\ f[i - 1] \in Nat
    BY <1>2, <1>4 DEF Runs
  <2> QED BY <1>3, <2>1
<1>6. Same(f)
  <2>1. f = [i \in 0..n |-> f[i]] /\ f[0] = 0
    BY <1>4 DEF Runs
  <2>2. \A i \in 0..n : i # 0 => i \in 1..n
    BY <1>2
  <2> QED BY <1>5, <2>1, <2>2
<1>7. UnitsTo(s) = CHOOSE f2 : Same(f2)
  BY DEF UnitsTo, n
<1> HIDE DEF Same
<1>8. Same(UnitsTo(s))
  BY <1>6, <1>7
<1> DEFINE u == UnitsTo(s)
<1>9. u = [i \in 0..n |-> IF i = 0 THEN 0 ELSE u[i - 1] + Units(s[i])]
  BY <1>8 DEF Same
<1> HIDE DEF u
<1>10. u[0] = 0 /\ \A i \in 1..n : u[i] = u[i - 1] + Units(s[i])
  BY <1>2, <1>9
<1> DEFINE K == {k \in Nat : k <= n => u[k] \in Nat}
<1>11. \A k \in Nat : k \in K => k + 1 \in K
  <2> SUFFICES ASSUME NEW k \in Nat, k \in K, k + 1 <= n PROVE u[k + 1] \in Nat
    OBVIOUS
  <2>1. k + 1 \in 1..n /\ (k + 1) - 1 = k /\ u[k] \in Nat
    BY <1>2
  <2> QED BY <1>1, <1>10, <2>1
<1>12. 0 \in K
  BY <1>10
<1>13. Nat \subseteq K
  <2> HIDE DEF K
  <2> QED BY <1>11, <1>12, Induct
<1>14. \A i \in 0..n : u[i] \in Nat
  BY <1>2, <1>13
<1>15. u \in [0..n -> Nat]
  BY <1>9, <1>14
<1> QED BY <1>10, <1>15 DEF u, n

\* The table after the first i bytes (the loop of LineIndex::new), one byte at a time.
LEMMA StartsStep ==
  ASSUME NEW S, NEW s \in Seq(S)
  PROVE  /\ StartsTo(s) \in [0..Len(s) -> Seq(Nat)] /\ StartsTo(s)[0] = <<0>>
         /\ \A i \in 1..Len(s) : StartsTo(s)[i] = (IF s[i] = "newline" THEN Append(StartsTo(s)[i - 1], i) ELSE StartsTo(s)[i - 1])
<1> DEFINE n == Len(s)
           V == Seq(Nat)
           g == [p \in (1..n) \X V |-> (IF s[p[1]] = "newline" THEN Append(p[2], p[1]) ELSE p[2])]
           Same(f) == f = [i \in 0..n |-> IF i = 0 THEN <<0>> ELSE (IF s[i] = "newline" THEN Append(f[i - 1], i) ELSE f[i - 1])]
<1>1. n \in Nat /\ <<0>> \in V
  OBVIOUS
<1>2. ASSUME NEW i \in 1..n, NEW m \in V PROVE (IF s[i] = "newline" THEN Append(m, i) ELSE m) \in V
  <2>1. i \in Nat
    BY <1>1
  <2> QED BY <2>1
<1>3. g \in [(1..n) \X V -> V] /\ \A i \in 1..n, m \in V : g[<<i, m>>] = (IF s[i] = "newline" THEN Append(m, i) ELSE m)
  <2> HIDE DEF n, V
  <2> QED BY <1>2
<1> HIDE DEF g, n, V
<1>4. PICK f : Runs(f, n, V, <<0>>, g)
  <2>1. Loop(n, V, <<0>>, g)
    BY <1>1, <1>3 DEF Loop
  <2> QED BY <2>1, LoopsExist
<1>5. \A i \in 1..n : f[i] = (IF s[i] = "newline" THEN Append(f[i - 1], i) ELSE f[i - 1])
  <2> SUFFICES ASSUME NEW i \in 1..n PROVE f[i] = (IF s[i] = "newline" THEN Append(f[i - 1], i) ELSE f[i - 1])
    OBVIOUS
  <2>1. f[i] = g[<<i, f[i - 1]>>] /\ f[i - 1] \in V
    BY <1>1, <1>4 DEF Runs
  <2> QED BY <1>3, <2>1
<1>6. Same(f)
  <2>1. f = [i \in 0..n |-> f[i]] /\ f[0] = <<0>>
    BY <1>4 DEF Runs
  <2>2. \A i \in 0..n : i # 0 => i \in 1..n
    BY <1>1
  <2> QED BY <1>5, <2>1, <2>2
<1>7. StartsTo(s) = CHOOSE f2 : Same(f2)
  BY DEF StartsTo, n
<1> HIDE DEF Same
<1>8. Same(StartsTo(s))
  BY <1>6, <1>7
<1> DEFINE u == StartsTo(s)
<1>9. u = [i \in 0..n |-> IF i = 0 THEN <<0>> ELSE (IF s[i] = "newline" THEN Append(u[i - 1], i) ELSE u[i - 1])]
  BY <1>8 DEF Same
<1> HIDE DEF u
<1>10. u[0] = <<0>> /\ \A i \in 1..n : u[i] = (IF s[i] = "newline" THEN Append(u[i - 1], i) ELSE u[i - 1])
  <2>1. \A i \in 0..n : u[i] = IF i = 0 THEN <<0>> ELSE (IF s[i] = "newline" THEN Append(u[i - 1], i) ELSE u[i - 1])
    BY <1>9
  <2>2. 0 \in 0..n /\ \A i \in 1..n : i \in 0..n /\ i # 0
    BY <1>1
  <2>3. u[0] = <<0>>
    BY <2>1, <2>2, Zenon
  <2> QED BY <2>1, <2>2, <2>3
<1> DEFINE K == {k \in Nat : k <= n => u[k] \in V}
<1>11. \A k \in Nat : k \in K => k + 1 \in K
  <2> SUFFICES ASSUME NEW k \in Nat, k \in K, k + 1 <= n PROVE u[k + 1] \in V
    OBVIOUS
  <2>1. k + 1 \in 1..n /\ (k + 1) - 1 = k /\ u[k] \in V
    BY <1>1
  <2>2. u[k + 1] = (IF s[k + 1] = "newline" THEN Append(u[k], k + 1) ELSE u[k])
    BY <1>10, <2>1
  <2> QED BY <1>2, <2>1, <2>2
<1>12. 0 \in K
  BY <1>1, <1>10
<1>13. Nat \subseteq K
  <2> HIDE DEF K
  <2> QED BY <1>11, <1>12, Induct
<1>14. \A i \in 0..n : u[i] \in V
  BY <1>1, <1>13
<1>15. u \in [0..n -> V]
  BY <1>9, <1>14
<1> QED BY <1>10, <1>15 DEF u, n, V

\* The state of the loop of LineIndex::offset, one turn at a time.
LEMMA TurnsStep ==
  ASSUME NEW S, NEW s \in Seq(S), NEW character \in Nat
  PROVE  /\ Turns(s, character) \in [0..Len(s) -> Nat \X Nat] /\ Turns(s, character)[0] = <<0, 0>>
         /\ \A i \in 1..Len(s) : Turns(s, character)[i] = Turn(s, character, Turns(s, character)[i - 1])
<1> DEFINE n == Len(s)
           V == Nat \X Nat
           g == [p \in (1..n) \X V |-> Turn(s, character, p[2])]
           Same(f) == f = [i \in 0..n |-> IF i = 0 THEN <<0, 0>> ELSE Turn(s, character, f[i - 1])]
<1>1. n \in Nat /\ <<0, 0>> \in V
  OBVIOUS
<1>2. ASSUME NEW i \in 1..n, NEW m \in V PROVE Turn(s, character, m) \in V
  <2>1. \A b : Utf8Char(b)[1] \in Nat /\ Utf8Char(b)[2] \in Nat
    BY DEF Utf8Char
  <2>2. m[1] \in Nat /\ m[2] \in Nat
    OBVIOUS
  <2> DEFINE c == Utf8Char(s[m[1] + 1])
  <2>3. c[1] \in Nat /\ c[2] \in Nat
    BY <2>1
  <2>4. Turn(s, character, m) = IF m[1] >= Len(s) \/ m[2] >= character THEN m
                                ELSE <<IF m[1] + c[1] <= Len(s) THEN m[1] + c[1] ELSE Len(s), m[2] + c[2]>>
    BY DEF Turn
  <2> HIDE DEF c
  <2>5. (IF m[1] + c[1] <= Len(s) THEN m[1] + c[1] ELSE Len(s)) \in Nat /\ m[2] + c[2] \in Nat
    BY <1>1, <2>2, <2>3
  <2> QED BY <2>4, <2>5
<1>3. g \in [(1..n) \X V -> V] /\ \A i \in 1..n, m \in V : g[<<i, m>>] = Turn(s, character, m)
  <2> HIDE DEF n, V
  <2> QED BY <1>2
<1> HIDE DEF g, n, V
<1>4. PICK f : Runs(f, n, V, <<0, 0>>, g)
  <2>1. Loop(n, V, <<0, 0>>, g)
    BY <1>1, <1>3 DEF Loop
  <2> QED BY <2>1, LoopsExist
<1>5. \A i \in 1..n : f[i] = Turn(s, character, f[i - 1])
  <2> SUFFICES ASSUME NEW i \in 1..n PROVE f[i] = Turn(s, character, f[i - 1])
    OBVIOUS
  <2>1. f[i] = g[<<i, f[i - 1]>>] /\ f[i - 1] \in V
    BY <1>1, <1>4 DEF Runs
  <2> QED BY <1>3, <2>1
<1>6. Same(f)
  <2>1. f = [i \in 0..n |-> f[i]] /\ f[0] = <<0, 0>>
    BY <1>4 DEF Runs
  <2>2. \A i \in 0..n : i # 0 => i \in 1..n
    BY <1>1
  <2> QED BY <1>5, <2>1, <2>2
<1>7. Turns(s, character) = CHOOSE f2 : Same(f2)
  BY DEF Turns, n
<1> HIDE DEF Same
<1>8. Same(Turns(s, character))
  BY <1>6, <1>7
<1> DEFINE u == Turns(s, character)
<1>9. u = [i \in 0..n |-> IF i = 0 THEN <<0, 0>> ELSE Turn(s, character, u[i - 1])]
  BY <1>8 DEF Same
<1> HIDE DEF u
<1>10. u[0] = <<0, 0>> /\ \A i \in 1..n : u[i] = Turn(s, character, u[i - 1])
  <2>1. \A i \in 0..n : u[i] = IF i = 0 THEN <<0, 0>> ELSE Turn(s, character, u[i - 1])
    BY <1>9
  <2>2. 0 \in 0..n /\ \A i \in 1..n : i \in 0..n /\ i # 0
    BY <1>1
  <2>3. u[0] = <<0, 0>>
    BY <2>1, <2>2, Zenon
  <2> QED BY <2>1, <2>2, <2>3
<1> DEFINE K == {k \in Nat : k <= n => u[k] \in V}
<1>11. \A k \in Nat : k \in K => k + 1 \in K
  <2> SUFFICES ASSUME NEW k \in Nat, k \in K, k + 1 <= n PROVE u[k + 1] \in V
    OBVIOUS
  <2>1. k + 1 \in 1..n /\ (k + 1) - 1 = k /\ u[k] \in V
    BY <1>1
  <2>2. u[k + 1] = Turn(s, character, u[k])
    BY <1>10, <2>1
  <2> QED BY <1>2, <2>1, <2>2
<1>12. 0 \in K
  BY <1>1, <1>10
<1>13. Nat \subseteq K
  <2> HIDE DEF K
  <2> QED BY <1>11, <1>12, Induct
<1>14. \A i \in 0..n : u[i] \in V
  BY <1>1, <1>13
<1>15. u \in [0..n -> V]
  BY <1>9, <1>14
<1> QED BY <1>10, <1>15 DEF u, n, V

\* What an editor reads up to offset i, one byte at a time.
LEMMA ReadingStep ==
  ASSUME NEW S, NEW s \in Seq(S)
  PROVE  /\ Reading(s) \in [0..Len(s) -> Nat \X Nat] /\ Reading(s)[0] = <<0, 0>>
         /\ \A i \in 1..Len(s) : Reading(s)[i] = ReadByte(Reading(s)[i - 1], s[i])
<1> DEFINE n == Len(s)
           V == Nat \X Nat
           g == [p \in (1..n) \X V |-> ReadByte(p[2], s[p[1]])]
           Same(f) == f = [i \in 0..n |-> IF i = 0 THEN <<0, 0>> ELSE ReadByte(f[i - 1], s[i])]
<1>1. n \in Nat /\ <<0, 0>> \in V
  OBVIOUS
<1>2. ASSUME NEW i \in 1..n, NEW m \in V PROVE ReadByte(m, s[i]) \in V
  <2>1. Units(s[i]) \in Nat /\ m[1] \in Nat /\ m[2] \in Nat
    BY DEF Units
  <2> QED BY <2>1 DEF ReadByte
<1>3. g \in [(1..n) \X V -> V] /\ \A i \in 1..n, m \in V : g[<<i, m>>] = ReadByte(m, s[i])
  <2> HIDE DEF n, V
  <2> QED BY <1>2
<1> HIDE DEF g, n, V
<1>4. PICK f : Runs(f, n, V, <<0, 0>>, g)
  <2>1. Loop(n, V, <<0, 0>>, g)
    BY <1>1, <1>3 DEF Loop
  <2> QED BY <2>1, LoopsExist
<1>5. \A i \in 1..n : f[i] = ReadByte(f[i - 1], s[i])
  <2> SUFFICES ASSUME NEW i \in 1..n PROVE f[i] = ReadByte(f[i - 1], s[i])
    OBVIOUS
  <2>1. f[i] = g[<<i, f[i - 1]>>] /\ f[i - 1] \in V
    BY <1>1, <1>4 DEF Runs
  <2> QED BY <1>3, <2>1
<1>6. Same(f)
  <2>1. f = [i \in 0..n |-> f[i]] /\ f[0] = <<0, 0>>
    BY <1>4 DEF Runs
  <2>2. \A i \in 0..n : i # 0 => i \in 1..n
    BY <1>1
  <2> QED BY <1>5, <2>1, <2>2
<1>7. Reading(s) = CHOOSE f2 : Same(f2)
  BY DEF Reading, n
<1> HIDE DEF Same
<1>8. Same(Reading(s))
  BY <1>6, <1>7
<1> DEFINE u == Reading(s)
<1>9. u = [i \in 0..n |-> IF i = 0 THEN <<0, 0>> ELSE ReadByte(u[i - 1], s[i])]
  BY <1>8 DEF Same
<1> HIDE DEF u
<1>10. u[0] = <<0, 0>> /\ \A i \in 1..n : u[i] = ReadByte(u[i - 1], s[i])
  <2>1. \A i \in 0..n : u[i] = IF i = 0 THEN <<0, 0>> ELSE ReadByte(u[i - 1], s[i])
    BY <1>9
  <2>2. 0 \in 0..n /\ \A i \in 1..n : i \in 0..n /\ i # 0
    BY <1>1
  <2>3. u[0] = <<0, 0>>
    BY <2>1, <2>2, Zenon
  <2> QED BY <2>1, <2>2, <2>3
<1> DEFINE K == {k \in Nat : k <= n => u[k] \in V}
<1>11. \A k \in Nat : k \in K => k + 1 \in K
  <2> SUFFICES ASSUME NEW k \in Nat, k \in K, k + 1 <= n PROVE u[k + 1] \in V
    OBVIOUS
  <2>1. k + 1 \in 1..n /\ (k + 1) - 1 = k /\ u[k] \in V
    BY <1>1
  <2>2. u[k + 1] = ReadByte(u[k], s[k + 1])
    BY <1>10, <2>1
  <2> QED BY <1>2, <2>1, <2>2
<1>12. 0 \in K
  BY <1>1, <1>10
<1>13. Nat \subseteq K
  <2> HIDE DEF K
  <2> QED BY <1>11, <1>12, Induct
<1>14. \A i \in 0..n : u[i] \in V
  BY <1>1, <1>13
<1>15. u \in [0..n -> V]
  BY <1>9, <1>14
<1> QED BY <1>10, <1>15 DEF u, n, V

-----------------------------------------------------------------------------
(* The table of line starts.                                               *)

\* A table with one more entry (Vec::push).
LEMMA Appended ==
  ASSUME NEW q \in Seq(Nat), NEW x \in Nat
  PROVE  /\ Append(q, x) \in Seq(Nat) /\ Len(q) \in Nat /\ Len(Append(q, x)) = Len(q) + 1
         /\ Append(q, x)[Len(q) + 1] = x
         /\ \A k \in 1..Len(q) : Append(q, x)[k] = q[k] /\ q[k] \in Nat
OBVIOUS

\* q is a table of line starts, of the first i bytes of s.
Table(s, q, i) ==
    /\ q \in Seq(Nat) /\ Len(q) >= 1 /\ q[1] = 0
    /\ \A k \in 2..Len(q) : q[k] \in 1..i /\ s[q[k]] = "newline"
    /\ \A j, k \in 1..Len(q) : j < k => q[j] < q[k]

\* A table stays one when a byte is read, and so does a table with the next line in it.
LEMMA TableNext ==
  ASSUME NEW s, NEW i \in Nat, NEW q, Table(s, q, i)
  PROVE  /\ Table(s, q, i + 1)
         /\ s[i + 1] = "newline" => Table(s, Append(q, i + 1), i + 1)
<1>1. Table(s, q, i + 1)
  BY DEF Table
<1>2. ASSUME s[i + 1] = "newline" PROVE Table(s, Append(q, i + 1), i + 1)
  <2> DEFINE r == Append(q, i + 1)
             n == Len(q)
  <2>0. q \in Seq(Nat) /\ i + 1 \in Nat
    BY DEF Table
  <2>1. r \in Seq(Nat) /\ n \in Nat /\ n >= 1 /\ Len(r) = n + 1 /\ r[n + 1] = i + 1 /\ \A k \in 1..n : r[k] = q[k] /\ q[k] \in Nat
    BY <2>0, Appended DEF Table
  <2>2. \A k \in 1..n : q[k] <= i
    <3> SUFFICES ASSUME NEW k \in 1..n PROVE q[k] <= i
      OBVIOUS
    <3>1. CASE k = 1
      BY <3>1 DEF Table
    <3>2. CASE k # 1
      BY <2>1, <3>2 DEF Table
    <3> QED BY <3>1, <3>2
  <2> HIDE DEF r, n
  <2>3. r[1] = 0
    BY <2>1 DEF Table, n
  <2>4. ASSUME NEW k \in 2..Len(r) PROVE r[k] \in 1..i + 1 /\ s[r[k]] = "newline"
    <3>1. CASE k = n + 1
      BY <1>2, <2>1, <3>1
    <3>2. CASE k # n + 1
      <4>1. k \in 2..n /\ r[k] = q[k]
        BY <2>1, <3>2
      <4> QED BY <4>1 DEF Table, n
    <3> QED BY <3>1, <3>2
  <2>5. ASSUME NEW j \in 1..Len(r), NEW k \in 1..Len(r), j < k PROVE r[j] < r[k]
    <3>1. j \in 1..n /\ r[j] = q[j] /\ q[j] <= i
      BY <2>1, <2>2, <2>5
    <3>2. CASE k = n + 1
      BY <2>1, <3>1, <3>2
    <3>3. CASE k # n + 1
      <4>1. k \in 1..n /\ r[k] = q[k]
        BY <2>1, <3>3
      <4> QED BY <2>5, <3>1, <4>1 DEF Table, n
    <3> QED BY <3>2, <3>3
  <2>6. Len(r) >= 1
    BY <2>1
  <2>7. Table(s, r, i + 1)
    BY <2>1, <2>3, <2>4, <2>5, <2>6 DEF Table
  <2> QED BY <2>7 DEF r
<1> QED BY <1>1, <1>2

\* After every byte LineIndex::new has a table of the lines so far, in order.
LEMMA Tables ==
  ASSUME NEW S, NEW s \in Seq(S)
  PROVE  \A i \in 0..Len(s) : Table(s, StartsTo(s)[i], i)
<1> DEFINE T == StartsTo(s)
           n == Len(s)
           K == {i \in Nat : i <= n => Table(s, T[i], i)}
<1>1. T[0] = <<0>> /\ n \in Nat /\ \A i \in 1..n : T[i] = IF s[i] = "newline" THEN Append(T[i - 1], i) ELSE T[i - 1]
  BY StartsStep
<1> HIDE DEF T, n
<1>2. 0 \in K
  <2>1. Table(s, <<0>>, 0)
    BY DEF Table
  <2> QED BY <1>1, <2>1
<1>3. ASSUME NEW i \in Nat, i \in K PROVE i + 1 \in K
  <2> SUFFICES ASSUME i + 1 <= n PROVE Table(s, T[i + 1], i + 1)
    OBVIOUS
  <2>1. Table(s, T[i], i)
    BY <1>1, <1>3
  <2>2. i + 1 \in 1..n /\ (i + 1) - 1 = i
    BY <1>1
  <2>3. T[i + 1] = IF s[i + 1] = "newline" THEN Append(T[i], i + 1) ELSE T[i]
    BY <1>1, <2>2
  <2> QED BY <2>1, <2>3, TableNext
<1>4. Nat \subseteq K
  <2> HIDE DEF K
  <2> QED BY <1>2, <1>3, Induct
<1> QED BY <1>1, <1>4 DEF T, n

\* r is q with line starts after i added.
Extends(q, r, i) ==
    /\ q \in Seq(Nat) /\ r \in Seq(Nat) /\ Len(q) <= Len(r)
    /\ \A k \in 1..Len(q) : r[k] = q[k]
    /\ \A k \in 1..Len(r) : k > Len(q) => r[k] > i

\* A table with a later line added has the earlier lines it had.
LEMMA ExtendsNext ==
  ASSUME NEW q, NEW r, NEW i \in Nat, NEW m \in Nat, i < m, Extends(q, r, i)
  PROVE  Extends(q, Append(r, m), i)
<1> DEFINE t == Append(r, m)
<1>1. t \in Seq(Nat) /\ Len(r) \in Nat /\ Len(q) \in Nat /\ Len(t) = Len(r) + 1 /\ t[Len(r) + 1] = m /\ \A k \in 1..Len(r) : t[k] = r[k]
  BY Appended DEF Extends
<1> HIDE DEF t
<1>2. \A k \in 1..Len(q) : t[k] = q[k]
  BY <1>1 DEF Extends
<1>3. ASSUME NEW k \in 1..Len(t), k > Len(q) PROVE t[k] > i
  <2>1. CASE k = Len(r) + 1
    BY <1>1, <2>1
  <2>2. CASE k # Len(r) + 1
    <3>1. k \in 1..Len(r) /\ t[k] = r[k]
      BY <1>1, <2>2
    <3> QED BY <1>3, <3>1 DEF Extends
  <2> QED BY <2>1, <2>2
<1>4. Extends(q, t, i)
  BY <1>1, <1>2, <1>3 DEF Extends
<1> QED BY <1>4 DEF t

\* The whole table extends the table after any of the bytes: no line is taken back.
LEMMA TableGrows ==
  ASSUME NEW S, NEW s \in Seq(S), NEW i \in 0..Len(s)
  PROVE  Extends(StartsTo(s)[i], Starts(s), i)
<1> DEFINE T == StartsTo(s)
           n == Len(s)
           K == {d \in Nat : i + d <= n => Extends(T[i], T[i + d], i)}
<1>1. n \in Nat /\ T \in [0..n -> Seq(Nat)] /\ \A j \in 1..n : T[j] = IF s[j] = "newline" THEN Append(T[j - 1], j) ELSE T[j - 1]
  BY StartsStep
<1>2. i \in Nat /\ i \in 0..n
  OBVIOUS
<1>0. Starts(s) = T[n]
  BY DEF Starts
<1> HIDE DEF T, n
<1>3. 0 \in K
  <2>1. T[i] \in Seq(Nat) /\ i + 0 = i
    BY <1>1, <1>2
  <2> DEFINE q == T[i]
  <2>2. Extends(q, q, i)
    <3>1. Len(q) \in Nat /\ q \in Seq(Nat)
      BY <2>1
    <3> HIDE DEF q
    <3> QED BY <3>1 DEF Extends
  <2> QED BY <2>1, <2>2
<1>4. ASSUME NEW d \in Nat, d \in K PROVE d + 1 \in K
  <2> SUFFICES ASSUME i + (d + 1) <= n PROVE Extends(T[i], T[i + (d + 1)], i)
    OBVIOUS
  <2> DEFINE m == i + (d + 1)
  <2>1. m \in 1..n /\ m - 1 = i + d /\ i < m /\ m \in Nat /\ i + d <= n
    BY <1>1, <1>2
  <2>2. Extends(T[i], T[i + d], i)
    BY <1>4, <2>1
  <2>3. T[m] = IF s[m] = "newline" THEN Append(T[i + d], m) ELSE T[i + d]
    BY <1>1, <2>1
  <2> HIDE DEF m
  <2>4. Extends(T[i], T[m], i)
    BY <1>2, <2>1, <2>2, <2>3, ExtendsNext
  <2> QED BY <2>4 DEF m
<1>5. Nat \subseteq K
  <2> HIDE DEF K
  <2> QED BY <1>3, <1>4, Induct
<1>6. n - i \in Nat /\ i + (n - i) = n
  BY <1>1, <1>2
<1>7. Extends(T[i], T[n], i)
  <2>1. \A d \in Nat : i + d <= n => Extends(T[i], T[i + d], i)
    BY <1>5
  <2>2. i + (n - i) <= n
    BY <1>1, <1>6
  <2>3. Extends(T[i], T[i + (n - i)], i)
    BY <1>6, <2>1, <2>2
  <2> QED BY <1>6, <2>3
<1> QED BY <1>0, <1>7 DEF T

-----------------------------------------------------------------------------
(* The position of an offset.                                              *)

\* The line of the offset i, and where it starts.
Rows(s, i) == Len(StartsTo(s)[i])
From(s, i) == StartsTo(s)[i][Rows(s, i)]

\* The line of an offset and its start, one byte at a time.
LEMMA LineStep ==
  ASSUME NEW S, NEW s \in Seq(S)
  PROVE  /\ Rows(s, 0) = 1 /\ From(s, 0) = 0
         /\ \A i \in 0..Len(s) : Rows(s, i) \in Nat /\ Rows(s, i) >= 1 /\ From(s, i) \in 0..i
         /\ \A i \in 1..Len(s) :
               IF s[i] = "newline" THEN Rows(s, i) = Rows(s, i - 1) + 1 /\ From(s, i) = i
               ELSE Rows(s, i) = Rows(s, i - 1) /\ From(s, i) = From(s, i - 1)
<1> DEFINE T == StartsTo(s)
           n == Len(s)
<1>1. /\ n \in Nat /\ T[0] = <<0>> /\ T \in [0..n -> Seq(Nat)]
      /\ \A i \in 1..n : T[i] = IF s[i] = "newline" THEN Append(T[i - 1], i) ELSE T[i - 1]
  BY StartsStep
<1>2. \A i \in 0..n : Table(s, T[i], i)
  BY Tables
<1> HIDE DEF T, n
<1>3. \A i \in 0..n : Rows(s, i) = Len(T[i]) /\ From(s, i) = T[i][Rows(s, i)]
  BY DEF Rows, From, T, n
<1>4. Rows(s, 0) = 1 /\ From(s, 0) = 0
  <2>1. 0 \in 0..n /\ Len(<<0>>) = 1 /\ <<0>>[1] = 0
    BY <1>1
  <2> QED BY <1>1, <1>3, <2>1
<1>5. ASSUME NEW i \in 0..n PROVE Rows(s, i) \in Nat /\ Rows(s, i) >= 1 /\ From(s, i) \in 0..i
  <2> DEFINE q == T[i]
  <2>1. Table(s, q, i) /\ Rows(s, i) = Len(q) /\ From(s, i) = q[Len(q)] /\ i \in Nat
    BY <1>1, <1>2, <1>3
  <2> HIDE DEF q
  <2>2. Len(q) \in Nat /\ Len(q) >= 1
    BY <2>1 DEF Table
  <2>3. q[Len(q)] \in 0..i
    <3>1. CASE Len(q) = 1
      BY <2>1, <3>1 DEF Table
    <3>2. CASE Len(q) # 1
      <4>0. \A a \in Nat : a >= 1 /\ a # 1 => a \in 2..a
        OBVIOUS
      <4>1. Len(q) \in 2..Len(q)
        BY <2>2, <3>2, <4>0, Zenon
      <4>2. q[Len(q)] \in 1..i
        BY <2>1, <4>1 DEF Table
      <4>3. 1..i \subseteq 0..i
        BY <2>1
      <4> QED BY <4>2, <4>3
    <3> QED BY <3>1, <3>2
  <2> QED BY <2>1, <2>2, <2>3
<1>6. ASSUME NEW i \in 1..n
      PROVE  IF s[i] = "newline" THEN Rows(s, i) = Rows(s, i - 1) + 1 /\ From(s, i) = i
             ELSE Rows(s, i) = Rows(s, i - 1) /\ From(s, i) = From(s, i - 1)
  <2> DEFINE q == T[i - 1]
  <2>1. i - 1 \in 0..n /\ i \in 0..n /\ i \in Nat /\ q \in Seq(Nat)
    BY <1>1
  <2>2. /\ T[i] = IF s[i] = "newline" THEN Append(q, i) ELSE q
        /\ Rows(s, i) = Len(T[i]) /\ From(s, i) = T[i][Len(T[i])]
        /\ Rows(s, i - 1) = Len(q) /\ From(s, i - 1) = q[Len(q)]
    BY <1>1, <1>3, <2>1
  <2>3. Append(q, i)[Len(Append(q, i))] = i /\ Len(Append(q, i)) = Len(q) + 1
    <3> HIDE DEF q
    <3> QED BY <2>1, Appended
  <2> QED BY <2>2, <2>3
<1> QED BY <1>4, <1>5, <1>6 DEF n

\* The entries of the whole table that are at most off: the first Rows of them.
LEMMA RowsAre ==
  ASSUME NEW S, NEW s \in Seq(S), NEW off \in 0..Len(s)
  PROVE  /\ Starts(s) \in Seq(Nat) /\ Rows(s, off) \in 1..Len(Starts(s))
         /\ LineOf(s, off) = Rows(s, off)
         /\ Starts(s)[Rows(s, off)] = From(s, off)
         /\ \A k \in 1..Len(Starts(s)) : Starts(s)[k] <= off <=> k <= Rows(s, off)
<1> DEFINE T == Starts(s)
           q == StartsTo(s)[off]
           r == Rows(s, off)
<1>1. Extends(q, T, off) /\ Table(s, q, off) /\ r = Len(q) /\ From(s, off) = q[r]
  BY TableGrows, Tables DEF Rows, From
<1>2. r \in Nat /\ r >= 1 /\ off \in Nat
  BY LineStep
<1> HIDE DEF T, q, r
<1>3. T \in Seq(Nat) /\ Len(T) \in Nat /\ r <= Len(T) /\ (\A k \in 1..r : T[k] = q[k]) /\ \A k \in 1..Len(T) : k > r => T[k] > off
  BY <1>1 DEF Extends
<1>4. \A k \in 1..r : q[k] <= off
  <2> SUFFICES ASSUME NEW k \in 1..r PROVE q[k] <= off
    OBVIOUS
  <2>1. CASE k = 1
    BY <1>1, <1>2, <2>1 DEF Table
  <2>2. CASE k # 1
    <3>1. k \in 2..Len(q)
      BY <1>1, <1>2, <2>2
    <3>2. q[k] \in 1..off
      BY <1>1, <3>1 DEF Table
    <3> QED BY <1>2, <3>2
  <2> QED BY <2>1, <2>2
<1>5. ASSUME NEW k \in 1..Len(T) PROVE T[k] <= off <=> k <= r
  <2>1. CASE k <= r
    <3>1. k \in 1..r
      BY <1>2, <2>1
    <3> QED BY <1>3, <1>4, <2>1, <3>1
  <2>2. CASE ~(k <= r)
    <3>1. T[k] > off /\ T[k] \in Nat
      BY <1>2, <1>3, <2>2
    <3> QED BY <1>2, <2>2, <3>1
  <2> QED BY <2>1, <2>2
<1>6. {k \in DOMAIN T : T[k] <= off} = 1..r
  <2>1. DOMAIN T = 1..Len(T)
    BY <1>3
  <2>2. \A k \in 1..r : k \in 1..Len(T)
    BY <1>2, <1>3
  <2>3. \A k \in 1..Len(T) : k <= r <=> k \in 1..r
    BY <1>2
  <2> QED BY <1>5, <2>1, <2>2, <2>3
<1>7. Cardinality(1..r) = r
  BY <1>2, FS_Interval
<1>8. LineOf(s, off) = r
  BY <1>6, <1>7 DEF LineOf, T
<1>9. T[r] = q[r] /\ r \in 1..Len(T)
  BY <1>2, <1>3
<1> QED BY <1>1, <1>3, <1>5, <1>8, <1>9 DEF T, r

\* utf16_units of a slice is a difference of prefixes.
LEMMA UnitsOfSlice ==
  ASSUME NEW S, NEW s \in Seq(S), NEW a \in 0..Len(s), NEW b \in a..Len(s)
  PROVE  Utf16Units(SubSeq(s, a + 1, b)) = UnitsTo(s)[b] - UnitsTo(s)[a]
<1> DEFINE q == SubSeq(s, a + 1, b)
           n == Len(s)
           u == UnitsTo(s)
           w == UnitsTo(q)
           K == {k \in Nat : k <= b - a => w[k] = u[a + k] - u[a]}
<1>1. n \in Nat /\ a \in Nat /\ b \in Nat /\ a <= b /\ b <= n
  OBVIOUS
<1>2. q \in Seq(S) /\ Len(q) = b - a /\ \A k \in 1..(b - a) : q[k] = s[a + k]
  <2>1. q = [k \in 1..(b - (a + 1) + 1) |-> s[(a + 1) + k - 1]]
    OBVIOUS
  <2>2. b - (a + 1) + 1 = b - a /\ \A k \in 1..(b - a) : (a + 1) + k - 1 = a + k /\ a + k \in 1..n
    BY <1>1
  <2> HIDE DEF q
  <2>3. q = [k \in 1..(b - a) |-> s[a + k]]
    BY <2>1, <2>2
  <2>4. \A k \in 1..(b - a) : s[a + k] \in S
    BY <2>2
  <2>5. b - a \in Nat
    BY <1>1
  <2> QED BY <2>3, <2>4, <2>5
<1> HIDE DEF q, n
<1>3. u \in [0..n -> Nat] /\ \A i \in 1..n : u[i] = u[i - 1] + Units(s[i])
  BY UnitsStep DEF n
<1>4. w[0] = 0 /\ \A k \in 1..(b - a) : w[k] = w[k - 1] + Units(q[k])
  BY <1>2, UnitsStep
<1> HIDE DEF u, w
<1>5. 0 \in K
  <2>1. a + 0 = a /\ u[a] \in Nat
    BY <1>1, <1>3
  <2> QED BY <1>4, <2>1
<1>6. ASSUME NEW k \in Nat, k \in K PROVE k + 1 \in K
  <2> SUFFICES ASSUME k + 1 <= b - a PROVE w[k + 1] = u[a + (k + 1)] - u[a]
    OBVIOUS
  <2>1. k + 1 \in 1..(b - a) /\ (k + 1) - 1 = k /\ a + (k + 1) \in 1..n /\ (a + (k + 1)) - 1 = a + k /\ k <= b - a
    BY <1>1
  <2>2. w[k] = u[a + k] - u[a] /\ q[k + 1] = s[a + (k + 1)]
    BY <1>2, <1>6, <2>1
  <2>3. w[k + 1] = w[k] + Units(q[k + 1]) /\ u[a + (k + 1)] = u[a + k] + Units(s[a + (k + 1)])
    BY <1>3, <1>4, <2>1
  <2>4. u[a + k] \in Nat /\ u[a] \in Nat /\ Units(s[a + (k + 1)]) \in Nat
    <3>1. a + k \in 0..n /\ a \in 0..n
      BY <1>1, <2>1
    <3> QED BY <1>3, <3>1 DEF Units
  <2> QED BY <2>2, <2>3, <2>4
<1>7. Nat \subseteq K
  <2> HIDE DEF K
  <2> QED BY <1>5, <1>6, Induct
<1>8. b - a \in Nat /\ a + (b - a) = b /\ b - a <= b - a
  BY <1>1
<1>9. w[b - a] = u[a + (b - a)] - u[a]
  <2>1. \A k \in Nat : k <= b - a => w[k] = u[a + k] - u[a]
    BY <1>7
  <2> QED BY <1>8, <2>1
<1>10. Utf16Units(q) = w[b - a]
  BY <1>2 DEF Utf16Units, w
<1> QED BY <1>8, <1>9, <1>10 DEF q, u

\* The units of its line before an offset.
Column(s, i) == UnitsTo(s)[i] - UnitsTo(s)[From(s, i)]

\* The position of an offset inside the source, and of one past its end
\* (LineIndex::pos).
LEMMA PosIs ==
  ASSUME NEW S, NEW s \in Seq(S)
  PROVE  /\ \A at \in 0..Len(s) : Pos(s, at) = <<Rows(s, at) - 1, Column(s, at)>>
         /\ Pos(s, Len(s) + 1) = Pos(s, Len(s))
<1>1. ASSUME NEW at \in 0..Len(s) PROVE Pos(s, at) = <<Rows(s, at) - 1, Column(s, at)>>
  <2>1. LineOf(s, at) = Rows(s, at) /\ Starts(s)[Rows(s, at)] = From(s, at)
    BY RowsAre
  <2>2. From(s, at) \in 0..at
    BY LineStep
  <2>3. Utf16Units(SubSeq(s, From(s, at) + 1, at)) = Column(s, at)
    <3>1. From(s, at) \in 0..Len(s) /\ at \in From(s, at)..Len(s)
      BY <2>2
    <3> QED BY <3>1, UnitsOfSlice DEF Column
  <2>4. at <= Len(s)
    OBVIOUS
  <2> QED BY <2>1, <2>3, <2>4 DEF Pos
<1>2. Pos(s, Len(s) + 1) = Pos(s, Len(s))
  <2>1. Len(s) \in Nat /\ ~(Len(s) + 1 <= Len(s))
    OBVIOUS
  <2> QED BY <2>1 DEF Pos
<1> QED BY <1>1, <1>2

\* The position of the table is the one that reading gives.
LEMMA PositionsAreReadings ==
  ASSUME NEW S, NEW s \in Seq(S)
  PROVE  PosIsReading(s)
<1> DEFINE n == Len(s)
           p == Reading(s)
           K == {i \in Nat : i <= n => p[i] = <<Rows(s, i) - 1, Column(s, i)>>}
<1>1. n \in Nat /\ p[0] = <<0, 0>> /\ \A i \in 1..n : p[i] = ReadByte(p[i - 1], s[i])
  BY ReadingStep
<1> HIDE DEF p, n
<1>2. UnitsTo(s) \in [0..n -> Nat] /\ \A i \in 1..n : UnitsTo(s)[i] = UnitsTo(s)[i - 1] + Units(s[i])
  BY UnitsStep DEF n
<1>3. 0 \in K
  <2>1. Rows(s, 0) = 1 /\ From(s, 0) = 0
    BY LineStep
  <2>2. UnitsTo(s)[0] \in Nat
    BY <1>1, <1>2
  <2> QED BY <1>1, <2>1, <2>2 DEF Column
<1>4. ASSUME NEW i \in Nat, i \in K PROVE i + 1 \in K
  <2> SUFFICES ASSUME i + 1 <= n PROVE p[i + 1] = <<Rows(s, i + 1) - 1, Column(s, i + 1)>>
    OBVIOUS
  <2> DEFINE m == i + 1
             u == UnitsTo(s)
  <2>1. m \in 1..n /\ m - 1 = i /\ i \in 0..n /\ m \in 0..n /\ i <= n
    BY <1>1
  <2>2. p[i] = <<Rows(s, i) - 1, Column(s, i)>> /\ p[m] = ReadByte(p[i], s[m])
    BY <1>1, <1>4, <2>1
  <2>3. /\ Rows(s, i) \in Nat /\ From(s, i) \in 0..i
        /\ IF s[m] = "newline" THEN Rows(s, m) = Rows(s, i) + 1 /\ From(s, m) = m
           ELSE Rows(s, m) = Rows(s, i) /\ From(s, m) = From(s, i)
    BY <2>1, LineStep DEF n
  <2>4. u[m] \in Nat /\ u[i] \in Nat /\ u[From(s, i)] \in Nat /\ u[m] = u[i] + Units(s[m]) /\ Units(s[m]) \in Nat
    <3>1. From(s, i) \in 0..n
      BY <1>1, <2>1, <2>3
    <3> QED BY <1>2, <2>1, <3>1 DEF Units
  <2> HIDE DEF m, u
  <2>5. Column(s, i) = u[i] - u[From(s, i)] /\ Column(s, m) = u[m] - u[From(s, m)]
    BY DEF Column, u
  <2>6. CASE s[m] = "newline"
    <3>0. Rows(s, m) = Rows(s, i) + 1 /\ From(s, m) = m
      BY <2>3, <2>6
    <3>1. Column(s, m) = 0 /\ Rows(s, m) - 1 = (Rows(s, i) - 1) + 1
      BY <2>3, <2>4, <2>5, <3>0
    <3> QED BY <2>2, <2>6, <3>1 DEF ReadByte, m
  <2>7. CASE s[m] # "newline"
    <3>1. Column(s, m) = Column(s, i) + Units(s[m]) /\ Rows(s, m) = Rows(s, i)
      BY <2>3, <2>4, <2>5, <2>7
    <3> QED BY <2>2, <2>7, <3>1 DEF ReadByte, m
  <2> QED BY <2>6, <2>7
<1>5. Nat \subseteq K
  <2> HIDE DEF K
  <2> QED BY <1>3, <1>4, Induct
<1>6. \A i \in 0..n : p[i] = <<Rows(s, i) - 1, Column(s, i)>>
  BY <1>1, <1>5
<1>7. \A i \in 0..Len(s) : Pos(s, i) = PosByReading(s, i)
  BY <1>6, PosIs DEF PosByReading, p, n
<1>8. Pos(s, Len(s) + 1) = PosByReading(s, Len(s))
  <2>1. Len(s) \in 0..Len(s)
    OBVIOUS
  <2> QED BY <1>7, <2>1, PosIs
<1> QED BY <1>7, <1>8 DEF PosIsReading

-----------------------------------------------------------------------------
(* Lines and characters.                                                   *)

\* What a well-formed source is for the loops: a sequence, with a count of units at every offset.
LEMMA WellFormedIs ==
  ASSUME NEW s, WellFormed(s)
  PROVE  /\ s \in Seq(Bytes) /\ Len(s) \in Nat /\ DOMAIN s = 1..Len(s)
         /\ UnitsTo(s) \in [0..Len(s) -> Nat] /\ \A i \in 1..Len(s) : UnitsTo(s)[i] = UnitsTo(s)[i - 1] + Units(s[i])
<1>1. s \in Seq(Bytes)
  BY DEF WellFormed
<1> HIDE DEF WellFormed
<1>2. UnitsTo(s) \in [0..Len(s) -> Nat] /\ \A i \in 1..Len(s) : UnitsTo(s)[i] = UnitsTo(s)[i - 1] + Units(s[i])
  BY <1>1, UnitsStep
<1>3. Len(s) \in Nat /\ DOMAIN s = 1..Len(s)
  BY <1>1
<1> QED BY <1>1, <1>2, <1>3

\* The bytes after a to e are whole characters and end before a newline or
\* with the source.
Stretch(s, a, e) ==
    /\ a \in 0..Len(s) /\ e \in a..Len(s)
    /\ Boundary(s, a) /\ Boundary(s, e)
    /\ e < Len(s) => s[e + 1] = "newline"

\* Line l is the stretch from its start to its end, and the offsets of it are those between (lib.rs LineIndex::offset).
LEMMA LineIs ==
  ASSUME NEW s, WellFormed(s), NEW l \in Nat, l < Len(Starts(s))
  PROVE  LET a == Starts(s)[l + 1]
             e == LineEnd(s, l) IN
         /\ Stretch(s, a, e)
         /\ \A off \in 0..Len(s) : (off \in a..e <=> Rows(s, off) = l + 1) /\ (off \in a..e => From(s, off) = a)
<1> DEFINE T == Starts(s)
           n == Len(s)
           a == T[l + 1]
           e == LineEnd(s, l)
<1>1. s \in Seq(Bytes) /\ n \in Nat /\ DOMAIN s = 1..n
  BY WellFormedIs
<1>2. Table(s, T, n)
  <2>1. n \in 0..Len(s)
    BY <1>1
  <2> QED BY <1>1, <2>1, Tables DEF Starts
<1>3. \A off \in 0..n : /\ Rows(s, off) \in 1..Len(T)
                        /\ T[Rows(s, off)] = From(s, off)
                        /\ \A k \in 1..Len(T) : T[k] <= off <=> k <= Rows(s, off)
  BY <1>1, RowsAre
<1>4. e = IF l + 2 <= Len(T) THEN T[l + 2] - 1 ELSE n
  BY DEF LineEnd
<1>5. WellFormed(s) => /\ s # <<>> => s[1] # "cont"
                       /\ \A i \in 1..n : s[i] = "newline" /\ i + 1 <= n => s[i + 1] # "cont"
  <2>1. Utf8Char("newline")[1] = 1
    BY DEF Utf8Char
  <2> QED BY <1>1, <2>1 DEF WellFormed, WholeCharacter
<1> HIDE DEF T, n, e
<1>6. Len(T) \in Nat /\ l + 1 \in 1..Len(T) /\ (l + 2 <= Len(T) => l + 2 \in 2..Len(T) /\ l + 2 \in 1..Len(T))
  BY <1>2 DEF Table, T
<1>7. a \in 0..n /\ (a # 0 => s[a] = "newline")
  <2>1. CASE l + 1 = 1
    BY <1>1, <1>2, <2>1 DEF Table
  <2>2. CASE l + 1 # 1
    <3>1. l + 1 \in 2..Len(T)
      BY <1>6, <2>2
    <3> QED BY <1>1, <1>2, <3>1 DEF Table
  <2> QED BY <2>1, <2>2
<1>8. l + 2 <= Len(T) => /\ e \in Nat /\ e + 1 = T[l + 2] /\ a <= e /\ e < n /\ s[e + 1] = "newline"
  <2> SUFFICES ASSUME l + 2 <= Len(T) PROVE e \in Nat /\ e + 1 = T[l + 2] /\ a <= e /\ e < n /\ s[e + 1] = "newline"
    OBVIOUS
  <2>1. T[l + 2] \in 1..n /\ s[T[l + 2]] = "newline" /\ T[l + 1] < T[l + 2]
    BY <1>2, <1>6 DEF Table
  <2>2. e = T[l + 2] - 1
    BY <1>4
  <2> HIDE DEF a
  <2>3. a < T[l + 2] /\ a \in Nat
    BY <1>7, <2>1 DEF a
  <2> QED BY <1>1, <2>1, <2>2, <2>3
<1>9. ~(l + 2 <= Len(T)) => e = n /\ Len(T) = l + 1
  BY <1>4, <1>6
<1>10. Boundary(s, a)
  <2>1. CASE a = n
    BY <2>1 DEF Boundary, n
  <2>2. CASE a # n
    <3>1. a \in 0..n - 1 /\ a + 1 \in 1..n /\ a + 1 <= n
      BY <1>1, <1>7, <2>2
    <3>2. s[a + 1] # "cont"
      <4>1. CASE a = 0
        <5>1. s # <<>>
          BY <1>1, <3>1 DEF n
        <5> QED BY <1>5, <4>1, <5>1
      <4>2. CASE a # 0
        BY <1>1, <1>5, <1>7, <3>1, <4>2
      <4> QED BY <4>1, <4>2
    <3> QED BY <3>1, <3>2 DEF Boundary, n
  <2> QED BY <2>1, <2>2
<1>11. a \in 0..n /\ e \in a..n /\ (e < n => s[e + 1] = "newline")
  <2> HIDE DEF a
  <2> QED BY <1>1, <1>7, <1>8, <1>9
<1>12. Boundary(s, e)
  <2> HIDE DEF a
  <2>1. e = n \/ (e \in 0..n - 1 /\ s[e + 1] # "cont")
    BY <1>1, <1>11
  <2> QED BY <2>1 DEF Boundary, n
<1>13. ASSUME NEW off \in 0..n PROVE (off \in a..e <=> Rows(s, off) = l + 1) /\ (off \in a..e => From(s, off) = a)
  <2>1. /\ Rows(s, off) \in Nat /\ Rows(s, off) <= Len(T) /\ T[Rows(s, off)] = From(s, off)
        /\ a <= off <=> l + 1 <= Rows(s, off)
        /\ l + 2 <= Len(T) => (T[l + 2] <= off <=> l + 2 <= Rows(s, off))
    BY <1>3, <1>6
  <2>2. off <= e <=> ~(l + 2 <= Rows(s, off))
    <3>1. CASE l + 2 <= Len(T)
      <4>1. off <= e <=> ~(T[l + 2] <= off)
        BY <1>1, <1>8, <3>1
      <4> QED BY <2>1, <3>1, <4>1
    <3>2. CASE ~(l + 2 <= Len(T))
      BY <1>1, <1>6, <1>9, <2>1, <3>2
    <3> QED BY <3>1, <3>2
  <2>3. off \in a..e <=> Rows(s, off) = l + 1
    <3>1. a \in Int /\ e \in Int
      BY <1>1, <1>11
    <3> HIDE DEF a
    <3> QED BY <1>1, <2>1, <2>2, <3>1
  <2>4. Rows(s, off) = l + 1 => From(s, off) = a
    BY <2>1
  <2> QED BY <2>3, <2>4
<1> QED BY <1>10, <1>11, <1>12, <1>13 DEF Stretch, T, e, n

\* Reading on never takes units back.
LEMMA UnitsGrow ==
  ASSUME NEW s, WellFormed(s), NEW i \in 0..Len(s)
  PROVE  \A j \in i..Len(s) : UnitsTo(s)[i] <= UnitsTo(s)[j]
<1> DEFINE n == Len(s)
           u == UnitsTo(s)
           K == {d \in Nat : i + d <= n => u[i] <= u[i + d]}
<1>1. n \in Nat /\ u \in [0..n -> Nat] /\ (\A j \in 1..n : u[j] = u[j - 1] + Units(s[j])) /\ i \in 0..n
  BY WellFormedIs
<1> HIDE DEF u, n
<1>2. 0 \in K
  <2>1. i + 0 = i /\ u[i] \in Nat
    BY <1>1
  <2> QED BY <2>1
<1>3. ASSUME NEW d \in Nat, d \in K PROVE d + 1 \in K
  <2> SUFFICES ASSUME i + (d + 1) <= n PROVE u[i] <= u[i + (d + 1)]
    OBVIOUS
  <2>1. i + d \in 0..n /\ i + d <= n /\ i + (d + 1) \in 1..n /\ (i + (d + 1)) - 1 = i + d
    BY <1>1
  <2>2. u[i] <= u[i + d] /\ u[i] \in Nat /\ u[i + d] \in Nat /\ u[i + (d + 1)] = u[i + d] + Units(s[i + (d + 1)])
    BY <1>1, <1>3, <2>1
  <2>3. Units(s[i + (d + 1)]) \in Nat
    BY DEF Units
  <2> QED BY <2>2, <2>3
<1>4. Nat \subseteq K
  <2> HIDE DEF K
  <2> QED BY <1>2, <1>3, Induct
<1>5. ASSUME NEW j \in i..n PROVE u[i] <= u[j]
  <2>1. j - i \in Nat /\ i + (j - i) = j /\ j <= n
    BY <1>1
  <2>2. \A d \in Nat : i + d <= n => u[i] <= u[i + d]
    BY <1>4
  <2>3. i + (j - i) <= n
    BY <2>1
  <2>4. u[i] <= u[i + (j - i)]
    BY <2>1, <2>2, <2>3
  <2> QED BY <2>1, <2>4
<1> QED BY <1>5 DEF u, n

\* One character further (utf8_char).
LEMMA CharacterNext ==
  ASSUME NEW s, WellFormed(s), NEW i \in 0..Len(s) - 1, s[i + 1] # "cont"
  PROVE  LET c == Utf8Char(s[i + 1]) IN
         /\ c[1] \in 1..4 /\ c[2] \in 1..2
         /\ i + c[1] \in 0..Len(s) /\ Boundary(s, i + c[1])
         /\ \A j \in (i + 1)..(i + c[1] - 1) : s[j + 1] = "cont"
         /\ UnitsTo(s)[i + c[1]] = UnitsTo(s)[i] + c[2]
<1> DEFINE n == Len(s)
           u == UnitsTo(s)
           c == Utf8Char(s[i + 1])
<1>1. n \in Nat /\ DOMAIN s = 1..n /\ i \in Nat /\ i + 1 \in 1..n /\ i \in 0..n
  BY WellFormedIs
<1>2. u \in [0..n -> Nat] /\ \A j \in 1..n : u[j] = u[j - 1] + Units(s[j])
  BY WellFormedIs
<1>3. c[1] \in 1..4 /\ c[2] \in 1..2 /\ Units(s[i + 1]) = c[2]
  BY DEF Utf8Char, Units
<1>4. /\ (i + 1) + c[1] <= n + 1
      /\ \A j \in ((i + 1) + 1)..((i + 1) + c[1] - 1) : s[j] = "cont"
      /\ (i + 1) + c[1] <= n => s[(i + 1) + c[1]] # "cont"
  <2>1. WholeCharacter(s, i + 1, (i + 1) + c[1])
    BY <1>1, Zenon DEF WellFormed
  <2> HIDE DEF c
  <2>2. (i + 1) + c[1] <= n + 1 /\ ((i + 1) + c[1] <= n => s[(i + 1) + c[1]] # "cont")
    BY <2>1 DEF WholeCharacter, n
  <2>3. ASSUME NEW j \in ((i + 1) + 1)..((i + 1) + c[1] - 1) PROVE s[j] = "cont"
    BY <2>1, <1>1, <1>3 DEF WholeCharacter
  <2> QED BY <2>2, <2>3
<1> HIDE DEF u, c, n
<1>5. i + c[1] \in 0..n
  BY <1>1, <1>3, <1>4
<1>6. Boundary(s, i + c[1])
  <2>1. CASE i + c[1] = n
    BY <2>1 DEF Boundary, n
  <2>2. CASE i + c[1] # n
    <3>a. c[1] \in Nat /\ i \in Nat /\ n \in Nat
      BY <1>1, <1>3
    <3>b. \A x \in Nat : i + x \in 0..n /\ i + x # n => i + x \in 0..n - 1 /\ (i + 1) + x <= n /\ (i + 1) + x = (i + x) + 1
      BY <3>a
    <3>1. i + c[1] \in 0..n - 1 /\ (i + 1) + c[1] <= n /\ (i + 1) + c[1] = (i + c[1]) + 1
      BY <1>5, <2>2, <3>a, <3>b, Zenon
    <3> QED BY <1>4, <3>1 DEF Boundary, n
  <2> QED BY <2>1, <2>2
<1>7. ASSUME NEW j \in (i + 1)..(i + c[1] - 1) PROVE s[j + 1] = "cont"
  <2>1. j + 1 \in ((i + 1) + 1)..((i + 1) + c[1] - 1)
    BY <1>1, <1>3
  <2> QED BY <1>4, <2>1
<1>8. Units("cont") = 0
  BY DEF Units
<1>9. u[i + 1] = u[i] + c[2] /\ u[i] \in Nat
  <2>1. (i + 1) - 1 = i
    BY <1>1
  <2> QED BY <1>1, <1>2, <1>3, <2>1
<1>10. \A j \in (i + 1)..(i + c[1] - 1) : u[j + 1] = u[j] /\ u[j] \in Nat
  <2> SUFFICES ASSUME NEW j \in (i + 1)..(i + c[1] - 1) PROVE u[j + 1] = u[j] /\ u[j] \in Nat
    OBVIOUS
  <2>1. j + 1 \in 1..n /\ (j + 1) - 1 = j /\ j \in 0..n
    BY <1>1, <1>3, <1>5
  <2>2. u[j + 1] = u[j] + 0 /\ u[j] \in Nat
    BY <1>2, <1>7, <1>8, <2>1
  <2> QED BY <2>2
<1>11. u[i + c[1]] = u[i + 1]
  <2>1. c[1] = 1 \/ c[1] = 2 \/ c[1] = 3 \/ c[1] = 4
    BY <1>3
  <2>2. (i + 1) + 1 = i + 2 /\ (i + 2) + 1 = i + 3 /\ (i + 3) + 1 = i + 4
    BY <1>1
  <2>3. c[1] >= 2 => i + 1 \in (i + 1)..(i + c[1] - 1)
    BY <1>1, <1>3
  <2>4. c[1] >= 3 => i + 2 \in (i + 1)..(i + c[1] - 1)
    BY <1>1, <1>3
  <2>5. c[1] >= 4 => i + 3 \in (i + 1)..(i + c[1] - 1)
    BY <1>1, <1>3
  <2>6. (c[1] >= 2 => u[i + 2] = u[i + 1]) /\ (c[1] >= 3 => u[i + 3] = u[i + 2]) /\ (c[1] >= 4 => u[i + 4] = u[i + 3])
    BY <1>10, <2>2, <2>3, <2>4, <2>5
  <2> QED BY <2>1, <2>6
<1> QED BY <1>3, <1>5, <1>6, <1>7, <1>9, <1>11 DEF u, c, n

-----------------------------------------------------------------------------
(* The offset of a position: the loop over the characters of a line.       *)

\* Where the loop of offset stands in the stretch from a to e: it has counted
\* the units of the bytes it went over, whole characters of them, and every
\* character it went over began before the column ch.
Stands(s, a, e, ch, p) ==
    /\ p[1] \in 0..(e - a) /\ p[2] \in 0..(ch + 1)
    /\ p[2] = UnitsTo(s)[a + p[1]] - UnitsTo(s)[a]
    /\ Boundary(s, a + p[1])
    /\ \A j \in 0..(p[1] - 1) : Boundary(s, a + j) => UnitsTo(s)[a + j] - UnitsTo(s)[a] < ch

\* A turn of the loop goes over one more character, and not past the end.
LEMMA TurnOn ==
  ASSUME NEW s, WellFormed(s), NEW a, NEW e, Stretch(s, a, e), NEW ch \in Nat,
         NEW p, Stands(s, a, e, ch, p), p[1] < e - a, p[2] < ch
  PROVE  LET c == Utf8Char(s[a + p[1] + 1]) IN
         c[1] \in 1..4 /\ p[1] + c[1] <= e - a /\ Stands(s, a, e, ch, <<p[1] + c[1], p[2] + c[2]>>)
<1> DEFINE n == Len(s)
           u == UnitsTo(s)
           w == p[1]
           v == p[2]
           i == a + w
           c == Utf8Char(s[i + 1])
           x == c[1]
           y == c[2]
<1>1. /\ n \in Nat /\ u \in [0..n -> Nat]
      /\ a \in 0..n /\ e \in a..n /\ (e < n => s[e + 1] = "newline")
      /\ w \in 0..(e - a) /\ v = u[i] - u[a] /\ v \in 0..(ch + 1) /\ w < e - a /\ v < ch
      /\ Boundary(s, i)
      /\ \A j \in 0..(w - 1) : Boundary(s, a + j) => u[a + j] - u[a] < ch
  BY WellFormedIs DEF Stands, Stretch
<1> HIDE DEF w, v
<1>2. i \in 0..n - 1 /\ i \in Nat /\ i < e /\ i \in 0..n
  BY <1>1
<1>3. s[i + 1] # "cont"
  BY <1>1, <1>2 DEF Boundary, n
<1> HIDE DEF WellFormed
<1>4. /\ x \in 1..4 /\ y \in 1..2
      /\ i + x \in 0..n /\ Boundary(s, i + x)
      /\ \A j \in (i + 1)..(i + x - 1) : s[j + 1] = "cont"
      /\ u[i + x] = u[i] + y
  <2> HIDE DEF i
  <2> QED BY <1>2, <1>3, CharacterNext DEF n, u
<1> HIDE DEF x, y, c, u, n
<1>a. n \in Nat /\ a \in Nat /\ e \in Nat /\ a <= e /\ e <= n /\ w \in Nat /\ v \in Nat /\ w < e - a /\ v < ch
  BY <1>1
<1>b. x \in Nat /\ 1 <= x /\ y \in Nat /\ 1 <= y /\ y <= 2 /\ i + x <= n
  BY <1>2, <1>4
<1>5. i + x <= e
  <2> SUFFICES ASSUME ~(i + x <= e) PROVE FALSE
    OBVIOUS
  <2> HIDE DEF i
  <2>1. e \in (i + 1)..(i + x - 1) /\ e < n
    BY <1>2, <1>a, <1>b
  <2>2. s[e + 1] = "cont" /\ s[e + 1] = "newline"
    BY <1>1, <1>4, <2>1
  <2> QED BY <2>2
<1>6. a + (w + x) = i + x /\ w + x \in 0..(e - a) /\ w + x <= e - a
  BY <1>a, <1>b, <1>5
<1>7. v + y = u[a + (w + x)] - u[a] /\ v + y \in 0..(ch + 1)
  <2>1. u[i] \in Nat /\ u[a] \in Nat /\ v = u[i] - u[a]
    BY <1>1, <1>2
  <2>2. u[a + (w + x)] = u[i] + y
    BY <1>4, <1>6
  <2>3. \A f, g \in Nat : v = f - g => v + y = (f + y) - g
    BY <1>a, <1>b
  <2>4. v + y = (u[i] + y) - u[a]
    BY <2>1, <2>3
  <2>5. v + y \in 0..(ch + 1)
    BY <1>a, <1>b
  <2> QED BY <2>2, <2>4, <2>5
<1>8. ASSUME NEW j \in 0..((w + x) - 1), Boundary(s, a + j) PROVE u[a + j] - u[a] < ch
  <2>0. j \in Nat /\ j <= (w + x) - 1
    BY <1>a, <1>b
  <2>1. CASE j < w
    <3>1. j \in 0..(w - 1)
      BY <1>a, <2>0, <2>1
    <3> QED BY <1>1, <1>8, <3>1
  <2>2. CASE j = w
    BY <1>1, <2>2
  <2>3. CASE j > w
    <3>1. a + j \in (i + 1)..(i + x - 1) /\ a + j \in 0..n - 1 /\ a + j # n
      BY <1>a, <1>b, <1>5, <2>0, <2>3
    <3>2. s[(a + j) + 1] = "cont"
      BY <1>4, <3>1
    <3>3. s[(a + j) + 1] # "cont"
      BY <1>8, <3>1 DEF Boundary, n
    <3> QED BY <3>2, <3>3
  <2> QED BY <1>a, <2>0, <2>1, <2>2, <2>3
<1>9. Stands(s, a, e, ch, <<w + x, v + y>>)
  <2>1. Boundary(s, a + (w + x))
    BY <1>4, <1>6
  <2>2. \A j \in 0..((w + x) - 1) : Boundary(s, a + j) => u[a + j] - u[a] < ch
    BY <1>8
  <2> QED BY <1>6, <1>7, <2>1, <2>2 DEF Stands, u
<1> QED BY <1>4, <1>6, <1>9 DEF w, v, x, y, c

\* Where offset comes to stand: at a character of the stretch or at its end,
\* the first one that has the column ch before it.
Lands(s, a, e, ch, o) ==
    /\ o \in a..e /\ Boundary(s, o)
    /\ UnitsTo(s)[o] - UnitsTo(s)[a] \in 0..(ch + 1)
    /\ o = e \/ UnitsTo(s)[o] - UnitsTo(s)[a] >= ch
    /\ \A j \in a..(o - 1) : Boundary(s, j) => UnitsTo(s)[j] - UnitsTo(s)[a] < ch

\* The loop of LineIndex::offset comes to stand there.
LEMMA OffsetLands ==
  ASSUME NEW s, WellFormed(s), NEW a, NEW e, Stretch(s, a, e), NEW ch \in Nat
  PROVE  Lands(s, a, e, ch, a + Advance(SubSeq(s, a + 1, e), ch))
<1> DEFINE n == Len(s)
           u == UnitsTo(s)
           q == SubSeq(s, a + 1, e)
           t == Turns(q, ch)
           L == e - a
           Stopped(k) == t[k][1] >= k \/ t[k][1] >= L \/ t[k][2] >= ch
           K == {k \in Nat : k <= L => Stands(s, a, e, ch, t[k]) /\ Stopped(k)}
<1>1. /\ n \in Nat /\ a \in 0..n /\ e \in a..n /\ Boundary(s, a) /\ L \in Nat
      /\ s \in Seq(Bytes) /\ u \in [0..n -> Nat]
  BY WellFormedIs DEF Stretch
<1>2. q \in Seq(Bytes) /\ Len(q) = L /\ \A k \in 1..L : q[k] = s[a + k]
  <2>1. q = [k \in 1..(e - (a + 1) + 1) |-> s[(a + 1) + k - 1]]
    BY <1>1
  <2>2. e - (a + 1) + 1 = L /\ \A k \in 1..L : (a + 1) + k - 1 = a + k /\ a + k \in 1..n
    BY <1>1
  <2> HIDE DEF q, L
  <2>3. q = [k \in 1..L |-> s[a + k]]
    BY <2>1, <2>2
  <2>4. \A k \in 1..L : s[a + k] \in Bytes
    BY <1>1, <2>2
  <2> QED BY <1>1, <2>3, <2>4
<1> HIDE DEF q, n, WellFormed
<1>3. t[0] = <<0, 0>> /\ \A k \in 1..L : t[k] = Turn(q, ch, t[k - 1])
  BY <1>2, TurnsStep
<1> HIDE DEF t
<1>4. 0 \in K
  <2>1. a + 0 = a /\ u[a] \in Nat /\ 0 \in 0..L
    BY <1>1
  <2>2. Stands(s, a, e, ch, <<0, 0>>)
    BY <1>1, <2>1 DEF Stands, u, L
  <2>3. Stopped(0)
    BY <1>3
  <2> QED BY <1>3, <2>2, <2>3
<1>5. ASSUME NEW k \in Nat, k \in K PROVE k + 1 \in K
  <2> SUFFICES ASSUME k + 1 <= L PROVE Stands(s, a, e, ch, t[k + 1]) /\ Stopped(k + 1)
    OBVIOUS
  <2> DEFINE p == t[k]
             m == k + 1
             c == Utf8Char(s[a + p[1] + 1])
  <2> HIDE DEF L
  <2>1. m \in 1..L /\ m - 1 = k /\ k <= L
    BY <1>1
  <2>2. Stands(s, a, e, ch, p) /\ (p[1] >= k \/ p[1] >= L \/ p[2] >= ch) /\ t[m] = Turn(q, ch, p)
    BY <1>3, <1>5, <2>1
  <2> HIDE DEF p, m
  <2>3. p[1] \in 0..L /\ p[2] \in Nat
    BY <2>2 DEF Stands, L
  <2>a. \A f \in 0..L : f \in Nat
    BY <1>1
  <2>b. p[1] \in Nat /\ L \in Nat /\ a \in Nat
    BY <1>1, <2>3, <2>a
  <2>4. CASE p[1] >= L \/ p[2] >= ch
    <3>1. t[m] = p
      BY <1>2, <2>2, <2>4 DEF Turn
    <3> QED BY <2>2, <2>4, <3>1 DEF m
  <2>5. CASE ~(p[1] >= L \/ p[2] >= ch)
    <3>1. p[1] < L /\ p[2] < ch /\ p[1] >= k /\ p[1] + 1 \in 1..L
      <4>1. \A f, g \in Nat : ~(f >= g) => f < g /\ f + 1 \in 1..g
        OBVIOUS
      <4>2. p[2] < ch
        BY <2>3, <2>5
      <4> QED BY <2>2, <2>5, <2>b, <4>1, <4>2
    <3>2. q[p[1] + 1] = s[a + p[1] + 1]
      <4>0. \A g \in Nat : g + 1 \in 1..L => q[g + 1] = s[a + g + 1]
        <5> SUFFICES ASSUME NEW g \in Nat, g + 1 \in 1..L PROVE q[g + 1] = s[a + g + 1]
          OBVIOUS
        <5>1. q[g + 1] = s[a + (g + 1)] /\ a + (g + 1) = a + g + 1
          BY <1>2, <2>b
        <5> QED BY <5>1
      <4>1. q[p[1] + 1] = s[a + p[1] + 1]
        BY <4>0, <2>b, <3>1, Zenon
      <4> QED BY <4>1
    <3>3. c[1] \in 1..4 /\ p[1] + c[1] <= L /\ Stands(s, a, e, ch, <<p[1] + c[1], p[2] + c[2]>>)
      BY <2>2, <3>1, TurnOn DEF L
    <3> HIDE DEF c
    <3>4. t[m] = <<p[1] + c[1], p[2] + c[2]>>
      BY <1>2, <2>2, <2>5, <3>2, <3>3 DEF Turn, c
    <3>5. p[1] + c[1] >= m
      BY <2>3, <3>1, <3>3 DEF m
    <3> QED BY <3>3, <3>4, <3>5 DEF m
  <2> QED BY <2>4, <2>5
<1>6. Nat \subseteq K
  <2> HIDE DEF K
  <2> QED BY <1>4, <1>5, Induct
<1>7. Stands(s, a, e, ch, t[L]) /\ Stopped(L)
  <2> HIDE DEF L
  <2>1. L <= L
    BY <1>1
  <2> QED BY <1>1, <1>6, <2>1
<1> DEFINE w == t[L][1]
           v == t[L][2]
           o == a + w
<1>8. /\ w \in 0..L /\ v \in 0..(ch + 1) /\ v = u[o] - u[a] /\ Boundary(s, o)
      /\ \A j \in 0..(w - 1) : Boundary(s, a + j) => u[a + j] - u[a] < ch
      /\ w >= L \/ v >= ch
  BY <1>7 DEF Stands
<1>9. Advance(q, ch) = w
  BY <1>2 DEF Advance, t
<1> HIDE DEF w, v
<1>10. o \in a..e /\ (w >= L => o = e)
  BY <1>1, <1>8
<1>11. ASSUME NEW j \in a..(o - 1), Boundary(s, j) PROVE u[j] - u[a] < ch
  <2>1. j - a \in 0..(w - 1) /\ a + (j - a) = j
    BY <1>1, <1>8
  <2>2. Boundary(s, a + (j - a)) => u[a + (j - a)] - u[a] < ch
    BY <1>8, <2>1
  <2> QED BY <1>11, <2>1, <2>2
<1> HIDE DEF o
<1>12. Lands(s, a, e, ch, o)
  BY <1>8, <1>10, <1>11 DEF Lands, u
<1> QED BY <1>9, <1>12 DEF o, q

-----------------------------------------------------------------------------
(* Back and forth.                                                         *)

\* offset of a position: the stretch of its line is gone over from its start.
LEMMA OffsetIs ==
  ASSUME NEW s, WellFormed(s), NEW l \in Nat, l < Len(Starts(s)), NEW ch \in Nat
  PROVE  /\ Stretch(s, Starts(s)[l + 1], LineEnd(s, l))
         /\ Lands(s, Starts(s)[l + 1], LineEnd(s, l), ch, Offset(s, l, ch))
<1> DEFINE a == Starts(s)[l + 1]
           e == LineEnd(s, l)
<1>1. Stretch(s, a, e)
  BY LineIs
<1>2. s \in Seq(Bytes) /\ Len(Starts(s)) \in Nat
  <2>1. s \in Seq(Bytes) /\ 0 \in 0..Len(s)
    BY WellFormedIs
  <2> QED BY <2>1, RowsAre
<1>3. Offset(s, l, ch) = a + Advance(SubSeq(s, a + 1, e), ch)
  <2>1. ~(l + 1 > Len(Starts(s)))
    BY <1>2
  <2> QED BY <2>1 DEF Offset
<1> HIDE DEF a, e, WellFormed
<1>4. Lands(s, a, e, ch, a + Advance(SubSeq(s, a + 1, e), ch))
  BY <1>1, OffsetLands
<1> QED BY <1>1, <1>3, <1>4 DEF a, e

\* A range sent to the editor and sent back names the same bytes.
LEMMA RangesComeBack ==
  ASSUME NEW s, WellFormed(s)
  PROVE  RoundTrip(s)
<1> SUFFICES ASSUME NEW at \in 0..Len(s), Boundary(s, at)
             PROVE  Offset(s, Pos(s, at)[1], Pos(s, at)[2]) = at
  BY DEF RoundTrip
<1> DEFINE n == Len(s)
           u == UnitsTo(s)
           r == Rows(s, at)
           l == r - 1
           a == Starts(s)[l + 1]
           e == LineEnd(s, l)
           ch == Column(s, at)
           o == Offset(s, l, ch)
<1>1. s \in Seq(Bytes) /\ n \in Nat /\ u \in [0..n -> Nat] /\ \A i \in 1..n : u[i] = u[i - 1] + Units(s[i])
  BY WellFormedIs
<1>2. r \in Nat /\ 1 <= r /\ r <= Len(Starts(s)) /\ Len(Starts(s)) \in Nat
  <2>1. r \in 1..Len(Starts(s)) /\ Starts(s) \in Seq(Nat)
    BY <1>1, RowsAre
  <2> QED BY <2>1
<1>3. Pos(s, at) = <<l, ch>>
  BY <1>1, PosIs
<1> HIDE DEF r, WellFormed
<1>4. l \in Nat /\ l < Len(Starts(s)) /\ r = l + 1
  BY <1>2
<1> HIDE DEF l, ch
<1>5. /\ Stretch(s, a, e)
      /\ at \in a..e /\ From(s, at) = a
  <2> HIDE DEF a, e
  <2>1. /\ Stretch(s, a, e)
        /\ \A off \in 0..Len(s) : (off \in a..e <=> Rows(s, off) = l + 1) /\ (off \in a..e => From(s, off) = a)
    BY <1>4, LineIs DEF a, e
  <2> QED BY <1>4, <2>1 DEF r
<1> HIDE DEF a, e
<1>6. a \in 0..n /\ e \in a..n /\ a \in Nat /\ e \in Nat /\ a <= at /\ at <= e /\ at \in Nat /\ e <= n
  BY <1>1, <1>5 DEF Stretch
<1> HIDE DEF n
<1>7. ch = u[at] - u[a] /\ u[at] \in Nat /\ u[a] \in Nat /\ ch \in Nat
  <2>1. ch = u[at] - u[a] /\ at \in a..Len(s) /\ a \in 0..Len(s)
    BY <1>5, <1>6 DEF ch, Column, n
  <2>2. u[a] <= u[at]
    BY <2>1, UnitsGrow
  <2>3. u[at] \in Nat /\ u[a] \in Nat
    BY <1>1, <1>6
  <2> HIDE DEF u
  <2> QED BY <2>1, <2>2, <2>3
<1>8. Lands(s, a, e, ch, o)
  BY <1>4, <1>7, OffsetIs DEF a, e
<1> HIDE DEF o
<1>9. /\ o \in a..e /\ Boundary(s, o) /\ o \in 0..n /\ o \in Nat
      /\ u[o] \in Nat
      /\ o = e \/ u[o] - u[a] >= ch
      /\ \A j \in a..(o - 1) : Boundary(s, j) => u[j] - u[a] < ch
  <2>1. o \in a..e /\ o \in 0..n /\ o \in Nat
    <3>1. o \in a..e
      BY <1>8 DEF Lands
    <3>2. \A k \in a..e : k \in 0..n /\ k \in Nat
      BY <1>1, <1>6
    <3> QED BY <3>1, <3>2
  <2>2. u[o] \in Nat
    BY <1>1, <2>1
  <2> QED BY <1>8, <2>1, <2>2 DEF Lands
<1>10. CASE o > at
  <2>1. at \in a..(o - 1)
    BY <1>6, <1>9, <1>10
  <2>2. u[at] - u[a] < ch
    BY <1>9, <2>1
  <2> HIDE DEF u
  <2> QED BY <1>7, <2>2
<1>11. CASE o < at
  <2>1. o \in 0..n - 1 /\ o + 1 \in 1..n /\ (o + 1) - 1 = o /\ o # n /\ o # e /\ o + 1 \in 0..n /\ at \in (o + 1)..n
    BY <1>1, <1>6, <1>9, <1>11
  <2>2. s[o + 1] # "cont"
    BY <1>9, <2>1 DEF Boundary, n
  <2>3. Units(s[o + 1]) \in 1..2
    BY <2>2 DEF Units
  <2>4. u[o + 1] = u[o] + Units(s[o + 1]) /\ u[o + 1] \in Nat
    BY <1>1, <2>1
  <2>5. u[o + 1] <= u[at]
    BY <2>1, UnitsGrow DEF n
  <2>6. u[o] - u[a] >= u[at] - u[a]
    BY <1>7, <1>9, <2>1
  <2> HIDE DEF u
  <2>7. u[o] \in Nat /\ u[at] \in Nat /\ u[a] \in Nat
    BY <1>7, <1>9
  <2>8. \A f, g, h \in Nat : f - h >= g - h => f >= g
    OBVIOUS
  <2>9. u[o] >= u[at]
    BY <2>6, <2>7, <2>8, Zenon
  <2>10. u[o + 1] > u[o]
    BY <2>3, <2>4, <2>7
  <2> QED BY <2>4, <2>5, <2>7, <2>9, <2>10
<1>12. CASE o = at
  BY <1>3, <1>12 DEF o
<1>13. o \in Nat /\ at \in Nat
  BY <1>6, <1>9
<1> QED BY <1>10, <1>11, <1>12, <1>13

\* Any position an editor may send is mapped to a character of its line.
LEMMA PositionsClamp ==
  ASSUME NEW s, WellFormed(s)
  PROVE  OffsetClamps(s)
<1> DEFINE n == Len(s)
           u == UnitsTo(s)
<1>1. s \in Seq(Bytes) /\ n \in Nat /\ u \in [0..n -> Nat] /\ Len(Starts(s)) \in Nat
  <2>1. s \in Seq(Bytes) /\ n \in Nat /\ u \in [0..n -> Nat] /\ 0 \in 0..Len(s)
    BY WellFormedIs
  <2> QED BY <2>1, RowsAre
<1> HIDE DEF WellFormed
<1> SUFFICES ASSUME NEW l \in 0..Len(Starts(s)), NEW ch \in 0..2 * Len(s) + 1
             PROVE  \A o \in {Offset(s, l, ch)} :
                       /\ Boundary(s, o)
                       /\ l >= Len(Starts(s)) => o = Len(s)
                       /\ l < Len(Starts(s)) =>
                              /\ Pos(s, o)[1] = l
                              /\ Pos(s, o)[2] \in IF ch > Width(s, l) THEN {Width(s, l)} ELSE {ch, ch + 1}
  BY DEF OffsetClamps
<1> DEFINE o == Offset(s, l, ch)
<1>2. l \in Nat /\ ch \in Nat
  BY <1>1
<1>3. CASE l >= Len(Starts(s))
  <2>1. l + 1 > Len(Starts(s)) /\ ~(l < Len(Starts(s)))
    BY <1>1, <1>2, <1>3
  <2>2. o = Len(s)
    BY <2>1 DEF Offset
  <2>3. Boundary(s, Len(s))
    BY DEF Boundary
  <2> QED BY <2>1, <2>2, <2>3
<1>4. CASE ~(l >= Len(Starts(s)))
  <2> DEFINE a == Starts(s)[l + 1]
             e == LineEnd(s, l)
  <2>1. l < Len(Starts(s))
    BY <1>1, <1>2, <1>4
  <2>2. Stretch(s, a, e) /\ Lands(s, a, e, ch, o)
    BY <1>2, <2>1, OffsetIs
  <2>3. \A off \in 0..n : off \in a..e => Rows(s, off) = l + 1 /\ From(s, off) = a
    BY <1>2, <2>1, LineIs
  <2>4. Width(s, l) = Pos(s, e)[2]
    BY DEF Width
  <2> HIDE DEF a, e, o, n
  <2>5. a \in 0..n /\ e \in a..n /\ a \in Nat /\ e \in Nat /\ o \in Nat /\ a <= o /\ o <= e /\ e <= n
    BY <1>1, <2>2 DEF Stretch, Lands, n
  <2>6. \A off \in a..e : Pos(s, off) = <<l, u[off] - u[a]>> /\ u[off] \in Nat
    <3> SUFFICES ASSUME NEW off \in a..e PROVE Pos(s, off) = <<l, u[off] - u[a]>> /\ u[off] \in Nat
      OBVIOUS
    <3>1. off \in 0..n
      BY <1>1, <2>5
    <3>2. Pos(s, off) = <<Rows(s, off) - 1, Column(s, off)>>
      BY <1>1, <3>1, PosIs DEF n
    <3>3. Rows(s, off) - 1 = l /\ From(s, off) = a
      BY <1>2, <2>3, <3>1
    <3>4. u[off] \in Nat
      BY <1>1, <3>1
    <3> QED BY <3>2, <3>3, <3>4 DEF Column
  <2>7. u[o] <= u[e] /\ u[a] \in Nat
    <3>1. o \in 0..Len(s) /\ e \in o..Len(s) /\ a \in a..e
      BY <1>1, <2>5 DEF n
    <3>2. u[o] <= u[e]
      BY <3>1, UnitsGrow
    <3> QED BY <2>6, <3>1, <3>2
  <2>8. o \in a..e /\ e \in a..e
    BY <2>5
  <2>9. /\ Pos(s, o) = <<l, u[o] - u[a]>> /\ u[o] \in Nat
        /\ Width(s, l) = u[e] - u[a] /\ u[e] \in Nat
    BY <2>4, <2>6, <2>8
  <2>10. Boundary(s, o) /\ u[o] - u[a] \in 0..(ch + 1) /\ (o = e \/ u[o] - u[a] >= ch)
    BY <2>2 DEF Lands
  <2>11. u[o] - u[a] \in IF ch > u[e] - u[a] THEN {u[e] - u[a]} ELSE {ch, ch + 1}
    <3> HIDE DEF u
    <3>1. CASE o = e
      <4>1. ch > u[e] - u[a] \/ u[e] - u[a] = ch \/ u[e] - u[a] = ch + 1
        BY <1>2, <2>7, <2>9, <2>10, <3>1
      <4>2. ch = u[e] - u[a] => ~(ch > u[e] - u[a])
        BY <1>2
      <4>3. ch + 1 = u[e] - u[a] => ~(ch > u[e] - u[a])
        BY <1>2
      <4> QED BY <3>1, <4>1, <4>2, <4>3
    <3>2. CASE o # e
      <4>1. u[o] - u[a] >= ch /\ ~(ch > u[e] - u[a])
        BY <1>2, <2>7, <2>9, <2>10, <3>2
      <4>2. u[o] - u[a] = ch \/ u[o] - u[a] = ch + 1
        BY <1>2, <2>7, <2>9, <2>10, <4>1
      <4> QED BY <4>1, <4>2
    <3> QED BY <3>1, <3>2
  <2> QED BY <1>4, <2>1, <2>9, <2>10, <2>11 DEF o
<1> QED BY <1>3, <1>4

\* Whatever the document holds: the table gives the position that reading it
\* gives, at every offset and past the end (LineIndex::pos); a range sent to the
\* editor and sent back names the same bytes; and any position an editor sends is
\* mapped to the start of a character of its line, to the one asked for or past
\* the surrogate pair around it, and to the end of the line when it is beyond it
\* (LineIndex::offset).
THEOREM PositionsOfEverySource ==
  ASSUME NEW s, WellFormed(s)
  PROVE  PosIsReading(s) /\ RoundTrip(s) /\ OffsetClamps(s)
<1>1. s \in Seq(Bytes)
  BY WellFormedIs
<1> HIDE DEF WellFormed
<1> QED BY <1>1, PositionsAreReadings, RangesComeBack, PositionsClamp

-----------------------------------------------------------------------------
(* Tokens: recursions whose rank falls.                                    *)

\* A recursion over S: it stops in stop, and otherwise goes to next, whose rank is lower.
Descends(S, stop, next, rank, N) ==
    /\ N \in Nat /\ stop \subseteq S /\ rank \in [S -> 0..N] /\ next \in [S \ stop -> S]
    /\ \A x \in S \ stop : rank[next[x]] < rank[x]

\* What holds where it stops, and of a point when it holds of the next, holds everywhere.
LEMMA RankInduct ==
  ASSUME NEW S, NEW stop, NEW next, NEW rank, NEW N, Descends(S, stop, next, rank, N),
         NEW T, \A x \in stop : x \in T, \A x \in S \ stop : next[x] \in T => x \in T
  PROVE  S \subseteq T
<1> USE DEF Descends
<1> DEFINE K == {k \in Nat : \A x \in S : rank[x] < k => x \in T}
<1>1. 0 \in K
  <2>1. \A x \in S : rank[x] \in 0..N
    OBVIOUS
  <2> QED BY <2>1
<1>2. ASSUME NEW k \in Nat, k \in K PROVE k + 1 \in K
  <2>1. ASSUME NEW x \in S, rank[x] < k + 1 PROVE x \in T
    <3>1. CASE x \in stop
      BY <3>1
    <3>2. CASE x \notin stop
      <4>1. next[x] \in S /\ rank[next[x]] < rank[x] /\ rank[next[x]] \in 0..N /\ rank[x] \in 0..N
        BY <3>2
      <4>2. rank[next[x]] < k
        BY <2>1, <4>1
      <4>3. next[x] \in T
        BY <1>2, <4>1, <4>2
      <4> QED BY <3>2, <4>3
    <3> QED BY <3>1, <3>2
  <2> QED BY <2>1
<1>3. Nat \subseteq K
  <2> HIDE DEF K
  <2> QED BY <1>1, <1>2, Induct
<1>4. N + 1 \in K
  BY <1>3
<1>5. \A x \in S : rank[x] < N + 1
  <2>1. \A x \in S : rank[x] \in 0..N
    OBVIOUS
  <2> QED BY <2>1
<1> QED BY <1>4, <1>5

\* Its values.
Solves(f, S, V, stop, base, next, step) ==
    /\ f \in [S -> V]
    /\ \A x \in S : f[x] = IF x \in stop THEN base[x] ELSE step[<<x, f[next[x]]>>]

\* Every such recursion has values.
LEMMA RecursionExists ==
  ASSUME NEW S, NEW stop, NEW next, NEW rank, NEW N, Descends(S, stop, next, rank, N),
         NEW V, V # {}, NEW base \in [stop -> V], NEW step \in [(S \ stop) \X V -> V]
  PROVE  \E f : Solves(f, S, V, stop, base, next, step)
<1> USE DEF Descends
<1>0. \A x \in S : rank[x] \in 0..N
  OBVIOUS
<1> DEFINE Val(f, x) == IF x \in stop THEN base[x] ELSE step[<<x, f[next[x]]>>]
           Upto(f, k) == f \in [S -> V] /\ \A x \in S : rank[x] < k => f[x] = Val(f, x)
           K == {k \in Nat : \E f : Upto(f, k)}
<1>1. 0 \in K
  <2>1. PICK v : v \in V
    OBVIOUS
  <2> DEFINE f == [x \in S |-> v]
  <2>2. f \in [S -> V] /\ \A x \in S : ~(rank[x] < 0)
    BY <1>0, <2>1
  <2>3. Upto(f, 0)
    BY <2>2
  <2> HIDE DEF Upto, f
  <2> QED BY <2>3
<1>2. ASSUME NEW k \in Nat, k \in K PROVE k + 1 \in K
  <2>1. PICK f : Upto(f, k)
    BY <1>2
  <2>2. \A x \in S : Val(f, x) \in V
    <3> SUFFICES ASSUME NEW x \in S PROVE Val(f, x) \in V
      OBVIOUS
    <3>1. CASE x \in stop
      BY <3>1
    <3>2. CASE x \notin stop
      <4>1. next[x] \in S /\ f[next[x]] \in V
        BY <2>1, <3>2
      <4> QED BY <3>2, <4>1
    <3> QED BY <3>1, <3>2
  <2> DEFINE g == [x \in S |-> IF rank[x] < k THEN f[x] ELSE Val(f, x)]
  <2>3. g \in [S -> V]
    BY <2>1, <2>2
  <2>4. ASSUME NEW x \in S, rank[x] < k + 1 PROVE g[x] = Val(g, x)
    <3>1. g[x] = Val(f, x)
      BY <2>1
    <3>2. CASE x \in stop
      BY <3>1, <3>2
    <3>3. CASE x \notin stop
      <4>1. next[x] \in S /\ rank[next[x]] < rank[x] /\ rank[next[x]] \in 0..N /\ rank[x] \in 0..N
        BY <3>3
      <4>2. rank[next[x]] < k
        BY <2>4, <4>1
      <4>3. g[next[x]] = f[next[x]]
        BY <4>1, <4>2
      <4> HIDE DEF g
      <4> QED BY <3>1, <3>3, <4>3
    <3> QED BY <3>2, <3>3
  <2> HIDE DEF g
  <2>5. Upto(g, k + 1)
    BY <2>3, <2>4
  <2> HIDE DEF Upto
  <2> QED BY <2>5
<1>3. Nat \subseteq K
  <2> HIDE DEF K
  <2> QED BY <1>1, <1>2, Induct
<1>4. N + 1 \in K
  <2> HIDE DEF K
  <2>1. N + 1 \in Nat
    OBVIOUS
  <2> QED BY <1>3, <2>1
<1>5. PICK f : Upto(f, N + 1)
  BY <1>4
<1>6. \A x \in S : f[x] = Val(f, x)
  <2>1. \A x \in S : rank[x] < N + 1
    BY <1>0
  <2> QED BY <1>5, <2>1
<1>7. Solves(f, S, V, stop, base, next, step)
  BY <1>5, <1>6 DEF Solves
<1> QED BY <1>7

\* The values of a loop: what it has where it stops.
Loops(f, S, stop, base, next) == \A x \in S : f[x] = IF x \in stop THEN base[x] ELSE f[next[x]]
\* The same for a loop that returns what the last turn does.
LEMMA LoopExists ==
  ASSUME NEW S, NEW stop, NEW next, NEW rank, NEW N, Descends(S, stop, next, rank, N),
         NEW V, V # {}, NEW base \in [stop -> V]
  PROVE  \E f \in [S -> V] : Loops(f, S, stop, base, next)
<1> DEFINE step == [p \in (S \ stop) \X V |-> p[2]]
<1>1. step \in [(S \ stop) \X V -> V] /\ \A x \in S \ stop, v \in V : step[<<x, v>>] = v
  OBVIOUS
<1> HIDE DEF step
<1>2. PICK f : Solves(f, S, V, stop, base, next, step)
  BY <1>1, RecursionExists
<1>3. Loops(f, S, stop, base, next)
  <2> SUFFICES ASSUME NEW x \in S PROVE f[x] = IF x \in stop THEN base[x] ELSE f[next[x]]
    BY DEF Loops
  <2>1. CASE x \in stop
    BY <1>2, <2>1 DEF Solves
  <2>2. CASE x \notin stop
    <3>1. next[x] \in S /\ f[next[x]] \in V
      BY <1>2, <2>2 DEF Solves, Descends
    <3>2. f[x] = step[<<x, f[next[x]]>>]
      BY <1>2, <2>2 DEF Solves
    <3>3. step[<<x, f[next[x]]>>] = f[next[x]]
      BY <1>1, <2>2, <3>1
    <3> QED BY <2>2, <3>2, <3>3
  <2> QED BY <2>1, <2>2
<1> QED BY <1>2, <1>3 DEF Solves

-----------------------------------------------------------------------------
(* Runs of bytes, and the first of a kind.                                 *)

\* A source: bytes, of which none is the mark for being past the end.
SourceBytes == STRING \ {"none"}

\* Vec::get: the byte, or the mark past the end.
LEMMA GetIs ==
  ASSUME NEW b \in Seq(SourceBytes)
  PROVE  /\ Len(b) \in Nat
         /\ \A p \in 1..Len(b) : Get(b, p) = b[p] /\ Get(b, p) # "none"
         /\ \A p \in Nat : p > Len(b) => Get(b, p) = "none"
         /\ \A p \in Nat : Get(b, p) # "none" => p <= Len(b)
<1>1. Len(b) \in Nat /\ \A p \in 1..Len(b) : b[p] \in SourceBytes
  OBVIOUS
<1>2. \A p \in 1..Len(b) : Get(b, p) = b[p] /\ b[p] # "none"
  BY <1>1 DEF Get, SourceBytes
<1>3. \A p \in Nat : p > Len(b) => Get(b, p) = "none"
  BY <1>1 DEF Get
<1> QED BY <1>1, <1>2, <1>3

\* A byte of a class is inside the source.
LEMMA Inside ==
  ASSUME NEW b \in Seq(SourceBytes), NEW X, "none" \notin X, NEW p \in Nat, Get(b, p) \in X
  PROVE  p <= Len(b)
<1>1. Get(b, p) # "none"
  OBVIOUS
<1> QED BY <1>1, GetIs

\* A loop over a run of bytes stops at the first that is not of the class.
LEMMA RunEndIs ==
  ASSUME NEW b \in Seq(SourceBytes), NEW pos \in 1..Len(b) + 1, NEW X, "none" \notin X
  PROVE  /\ RunEnd(b, pos, X) \in pos..Len(b) + 1
         /\ Get(b, RunEnd(b, pos, X)) \notin X
         /\ \A r \in pos..RunEnd(b, pos, X) - 1 : b[r] \in X
         /\ Get(b, pos) \in X => RunEnd(b, pos, X) > pos
<1>1. Len(b) \in Nat
  OBVIOUS
<1> DEFINE Q == {q \in pos..Len(b) + 1 : Get(b, q) \notin X}
           Is(q) == Get(b, q) \notin X /\ \A r \in pos..q - 1 : b[r] \in X
<1>2. Len(b) + 1 \in Q
  <2>1. Get(b, Len(b) + 1) = "none"
    BY <1>1, GetIs
  <2> QED BY <1>1, <2>1
<1>3. PICK q \in Q : \A k \in Q : q <= k
  <2>1. Q \subseteq Nat
    BY <1>1
  <2> HIDE DEF Q
  <2> QED BY <1>2, <2>1, Least
<1>4. q \in pos..Len(b) + 1 /\ Get(b, q) \notin X
  OBVIOUS
<1>5. ASSUME NEW r \in pos..q - 1 PROVE b[r] \in X
  <2>1. r \in 1..Len(b) /\ r \in pos..Len(b) + 1 /\ ~(q <= r)
    BY <1>1, <1>4
  <2>2. Get(b, r) \in X
    BY <1>3, <2>1
  <2> QED BY <2>1, <2>2, GetIs
<1>6. Is(q)
  BY <1>4, <1>5
<1>7. RunEnd(b, pos, X) = CHOOSE e \in pos..Len(b) + 1 : Is(e)
  BY DEF RunEnd
<1> DEFINE e == RunEnd(b, pos, X)
<1> HIDE DEF Is, e
<1>8. e \in pos..Len(b) + 1 /\ Is(e)
  BY <1>4, <1>6, <1>7 DEF e
<1>9. Get(b, pos) \in X => e > pos
  BY <1>1, <1>8 DEF Is
<1> QED BY <1>8, <1>9 DEF e, Is

\* A loop that looks for a byte stops at the first of the class, or at the end.
LEMMA FindIs ==
  ASSUME NEW b \in Seq(SourceBytes), NEW pos \in 1..Len(b) + 1, NEW X
  PROVE  /\ Find(b, pos, X) \in pos..Len(b) + 1
         /\ Find(b, pos, X) > Len(b) \/ b[Find(b, pos, X)] \in X
         /\ \A r \in pos..Find(b, pos, X) - 1 : b[r] \notin X
<1>1. Len(b) \in Nat
  OBVIOUS
<1> DEFINE Is(q) == (q > Len(b) \/ b[q] \in X) /\ \A r \in pos..q - 1 : b[r] \notin X
           Q == {q \in pos..Len(b) + 1 : q > Len(b) \/ b[q] \in X}
<1>2. Len(b) + 1 \in Q
  BY <1>1
<1>3. PICK q \in Q : \A k \in Q : q <= k
  <2>1. Q \subseteq Nat
    BY <1>1
  <2> HIDE DEF Q
  <2> QED BY <1>2, <2>1, Least
<1>4. q \in pos..Len(b) + 1 /\ (q > Len(b) \/ b[q] \in X)
  OBVIOUS
<1>5. ASSUME NEW r \in pos..q - 1 PROVE b[r] \notin X
  <2>1. r \in pos..Len(b) + 1 /\ ~(q <= r)
    BY <1>1, <1>4
  <2> QED BY <1>3, <2>1
<1>6. Is(q)
  BY <1>4, <1>5
<1>7. Find(b, pos, X) = CHOOSE e \in pos..Len(b) + 1 : Is(e)
  BY DEF Find
<1> HIDE DEF Is
<1>8. Find(b, pos, X) \in pos..Len(b) + 1 /\ Is(Find(b, pos, X))
  BY <1>4, <1>6, <1>7
<1> QED BY <1>8 DEF Is

-----------------------------------------------------------------------------
(* Runs of digits, and the numbers of the grammar.                         *)

\* Induction from the end: what holds of a position when it holds of all the later ones holds of each.
LEMMA InductBack ==
  ASSUME NEW n \in Nat, NEW T, \A q \in 1..n + 1 : (\A r \in (q + 1)..n + 1 : r \in T) => q \in T
  PROVE  1..n + 1 \subseteq T
<1> SUFFICES ASSUME NEW q \in 1..n + 1, q \notin T PROVE FALSE
  OBVIOUS
<1> DEFINE K == {k \in Nat : \E r \in 1..n + 1 : r \notin T /\ k = n + 1 - r}
<1>1. n + 1 - q \in K
  BY n + 1 - q \in Nat
<1>2. PICK m \in K : \A k \in K : m <= k
  BY <1>1, Least
<1>3. PICK r \in 1..n + 1 : r \notin T /\ m = n + 1 - r
  OBVIOUS
<1>4. PICK r2 \in (r + 1)..n + 1 : r2 \notin T
  BY <1>3
<1>5. r2 \in 1..n + 1 /\ n + 1 - r2 \in Nat /\ n + 1 - r2 < n + 1 - r
  BY <1>3, <1>4
<1>6. n + 1 - r2 \in K
  BY <1>4, <1>5
<1>7. m <= n + 1 - r2
  BY <1>2, <1>6
<1> HIDE DEF K
<1> QED BY <1>3, <1>5, <1>7

\* One turn of scan_digit_run.
LEMMA DigitRunStep ==
  ASSUME NEW b \in Seq(SourceBytes), NEW ok, "none" \notin ok, NEW q \in 1..Len(b) + 1
  PROVE  DigitRun(b, ok)[q] = IF Get(b, q) \in ok THEN DigitRun(b, ok)[q + 1]
                              ELSE IF Get(b, q) = Underscore /\ Get(b, q + 1) \in ok THEN DigitRun(b, ok)[q + 2] ELSE q
<1> DEFINE n == Len(b)
           S == 1..n + 1
           Beyond(p) == IF Get(b, p) \in ok THEN p + 1 ELSE p + 2
           Goes(p) == Get(b, p) \in ok \/ (Get(b, p) = Underscore /\ Get(b, p + 1) \in ok)
           stop == {p \in S : ~Goes(p)}
           next == [p \in S \ stop |-> Beyond(p)]
           rank == [p \in S |-> n + 1 - p]
           base == [p \in stop |-> p]
           Same(f) == f = [p \in S |-> IF Get(b, p) \in ok THEN f[p + 1]
                                       ELSE IF Get(b, p) = Underscore /\ Get(b, p + 1) \in ok THEN f[p + 2] ELSE p]
<1>1. n \in Nat
  OBVIOUS
<1>2. \A p \in S : Goes(p) => Beyond(p) \in S /\ Beyond(p) > p
  <2>1. \A p \in Nat : Get(b, p) \in ok => p <= n
    BY Inside
  <2> HIDE DEF n
  <2>2. ASSUME NEW p \in S, Get(b, p) \in ok PROVE Beyond(p) = p + 1 /\ p \in Nat /\ p <= n
    BY <1>1, <2>1, <2>2
  <2>3. ASSUME NEW p \in S, Get(b, p) \notin ok, Get(b, p + 1) \in ok PROVE Beyond(p) = p + 2 /\ p \in Nat /\ p + 1 <= n
    <3>1. p \in Nat /\ p + 1 \in Nat
      BY <1>1
    <3> HIDE DEF S
    <3> QED BY <2>1, <2>3, <3>1
  <2>4. ASSUME NEW p \in S, Goes(p) PROVE Beyond(p) \in S /\ Beyond(p) > p
    <3>1. CASE Get(b, p) \in ok
      <4>1. Beyond(p) = p + 1 /\ p \in Nat /\ p <= n
        BY <2>2, <3>1
      <4> HIDE DEF Beyond, Goes
      <4> QED BY <1>1, <4>1
    <3>2. CASE Get(b, p) \notin ok
      <4>1. Beyond(p) = p + 2 /\ p \in Nat /\ p + 1 <= n
        BY <2>3, <2>4, <3>2
      <4> HIDE DEF Beyond, Goes
      <4> QED BY <1>1, <4>1
    <3> QED BY <3>1, <3>2
  <2> HIDE DEF Beyond, Goes
  <2> QED BY <2>4
<1> HIDE DEF n, Beyond, Goes
<1>3. Descends(S, stop, next, rank, n)
  <2>1. \A p \in S \ stop : next[p] = Beyond(p) /\ Beyond(p) \in S /\ Beyond(p) > p
    BY <1>2
  <2>2. rank \in [S -> 0..n] /\ next \in [S \ stop -> S] /\ stop \subseteq S
    BY <1>1, <2>1
  <2>3. \A p \in S \ stop : rank[next[p]] < rank[p]
    BY <1>1, <2>1
  <2> QED BY <1>1, <2>2, <2>3 DEF Descends
<1>4. base \in [stop -> S] /\ S # {}
  <2>1. 1 \in S
    BY <1>1
  <2>2. \A p \in stop : p \in S
    OBVIOUS
  <2> HIDE DEF S, stop
  <2> QED BY <2>1, <2>2
<1>5. PICK f \in [S -> S] : Loops(f, S, stop, base, next)
  <2> HIDE DEF S, stop, next, rank, base
  <2> QED BY <1>3, <1>4, LoopExists
<1>6. Same(f)
  <2>1. \A p \in S : f[p] = IF Get(b, p) \in ok THEN f[p + 1]
                            ELSE IF Get(b, p) = Underscore /\ Get(b, p + 1) \in ok THEN f[p + 2] ELSE p
    BY <1>5 DEF Loops, Beyond, Goes
  <2>2. f = [p \in S |-> f[p]]
    BY <1>5
  <2> HIDE DEF S
  <2> QED BY <2>1, <2>2
<1>7. DigitRun(b, ok) = CHOOSE f2 : Same(f2)
  BY DEF DigitRun, n
<1> HIDE DEF Same
<1>8. Same(DigitRun(b, ok))
  BY <1>6, <1>7
<1> DEFINE r == DigitRun(b, ok)
<1>9. r = [p \in S |-> IF Get(b, p) \in ok THEN r[p + 1]
                        ELSE IF Get(b, p) = Underscore /\ Get(b, p + 1) \in ok THEN r[p + 2] ELSE p]
  BY <1>8 DEF Same
<1> HIDE DEF r
<1>10. q \in S
  BY DEF n
<1>11. r[q] = IF Get(b, q) \in ok THEN r[q + 1]
               ELSE IF Get(b, q) = Underscore /\ Get(b, q + 1) \in ok THEN r[q + 2] ELSE q
  <2> HIDE DEF S
  <2> QED BY <1>9, <1>10
<1> QED BY <1>11 DEF r

\* From s to e there are digits and single underscores, and the last is a digit.
RunAt(b, s, e, ok) ==
    /\ \A p \in s..e - 1 : b[p] \in ok \cup {Underscore}
    /\ \A p \in s..e - 2 : b[p] = Underscore => b[p + 1] # Underscore
    /\ e > s => b[e - 1] \in ok
DigitsAt(b, s, e, ok) == e > s /\ b[s] \in ok /\ RunAt(b, s, e, ok)

\* scan_digit_run goes over such a run, and only stops where none goes on.
LEMMA DigitRunIs ==
  ASSUME NEW b \in Seq(SourceBytes), NEW ok, "none" \notin ok, Underscore \notin ok, NEW pos \in 1..Len(b) + 1
  PROVE  /\ ScanDigitRun(b, pos, ok) \in pos..Len(b) + 1
         /\ RunAt(b, pos, ScanDigitRun(b, pos, ok), ok)
         /\ Get(b, ScanDigitRun(b, pos, ok)) \notin ok
         /\ ~(Get(b, ScanDigitRun(b, pos, ok)) = Underscore /\ Get(b, ScanDigitRun(b, pos, ok) + 1) \in ok)
<1> DEFINE n == Len(b)
           r == DigitRun(b, ok)
           Stops(e) == Get(b, e) \notin ok /\ ~(Get(b, e) = Underscore /\ Get(b, e + 1) \in ok)
           Right(q, e) == e \in q..n + 1 /\ RunAt(b, q, e, ok) /\ Stops(e)
           T == {q \in 1..n + 1 : Right(q, r[q])}
<1>1. n \in Nat
  OBVIOUS
<1>2. \A p \in Nat : Get(b, p) \in ok => p <= n
  BY Inside
<1>3. \A p \in 1..n : Get(b, p) = b[p]
  BY GetIs
<1>4. \A q \in 1..n + 1 : r[q] = IF Get(b, q) \in ok THEN r[q + 1]
                                 ELSE IF Get(b, q) = Underscore /\ Get(b, q + 1) \in ok THEN r[q + 2] ELSE q
  BY DigitRunStep
<1> HIDE DEF n, r
<1>5. ASSUME NEW q \in 1..n + 1, \A m \in (q + 1)..n + 1 : m \in T PROVE Right(q, r[q])
  <2> DEFINE e == r[q]
  <2>0. q \in Nat /\ q >= 1 /\ q + 1 \in Nat
    BY <1>1
  <2>1. CASE Get(b, q) \in ok
    <3>1. q <= n /\ q + 1 \in (q + 1)..n + 1 /\ b[q] \in ok
      <4>1. q <= n
        BY <1>2, <2>0, <2>1
      <4>2. q \in 1..n /\ q + 1 \in (q + 1)..n + 1
        BY <1>1, <2>0, <4>1
      <4> QED BY <1>3, <2>1, <4>1, <4>2
    <3>2. e = r[q + 1] /\ Right(q + 1, e)
      BY <1>4, <1>5, <2>1, <3>1
    <3> HIDE DEF e
    <3>3. e \in Nat /\ e >= q + 1 /\ e <= n + 1
      BY <1>1, <2>0, <3>2
    <3>4. \A p \in q..e - 1 : b[p] \in ok \cup {Underscore}
      <4> SUFFICES ASSUME NEW p \in q..e - 1 PROVE b[p] \in ok \cup {Underscore}
        OBVIOUS
      <4>1. p = q \/ p \in (q + 1)..e - 1
        BY <2>0, <3>3
      <4> QED BY <3>1, <3>2, <4>1 DEF RunAt
    <3>5. \A p \in q..e - 2 : b[p] = Underscore => b[p + 1] # Underscore
      <4> SUFFICES ASSUME NEW p \in q..e - 2, b[p] = Underscore PROVE b[p + 1] # Underscore
        OBVIOUS
      <4>1. p = q \/ p \in (q + 1)..e - 2
        BY <2>0, <3>3
      <4> QED BY <3>1, <3>2, <4>1 DEF RunAt
    <3>6. b[e - 1] \in ok
      <4>1. e > q + 1 \/ e - 1 = q
        BY <2>0, <3>3
      <4> QED BY <3>1, <3>2, <4>1 DEF RunAt
    <3>7. e \in q..n + 1
      BY <1>1, <2>0, <3>3
    <3>8. Right(q, e)
      BY <3>2, <3>4, <3>5, <3>6, <3>7 DEF RunAt
    <3> QED BY <3>8 DEF e
  <2>2. CASE Get(b, q) = Underscore /\ Get(b, q + 1) \in ok
    <3>1. q + 1 <= n /\ q + 2 \in (q + 1)..n + 1 /\ b[q] = Underscore /\ b[q + 1] \in ok
      <4>1. q + 1 <= n
        BY <1>2, <2>0, <2>2
      <4>2. q \in 1..n /\ q + 1 \in 1..n /\ q + 2 \in (q + 1)..n + 1
        BY <1>1, <2>0, <4>1
      <4> QED BY <1>3, <2>2, <4>1, <4>2
    <3>2. e = r[q + 2] /\ Right(q + 2, e)
      BY <1>4, <1>5, <2>2, <3>1
    <3> HIDE DEF e
    <3>3. e \in Nat /\ e >= q + 2 /\ e <= n + 1
      BY <1>1, <2>0, <3>2
    <3>4. \A p \in q..e - 1 : b[p] \in ok \cup {Underscore}
      <4> SUFFICES ASSUME NEW p \in q..e - 1 PROVE b[p] \in ok \cup {Underscore}
        OBVIOUS
      <4>1. p = q \/ p = q + 1 \/ p \in (q + 2)..e - 1
        BY <2>0, <3>3
      <4> QED BY <3>1, <3>2, <4>1 DEF RunAt
    <3>5. \A p \in q..e - 2 : b[p] = Underscore => b[p + 1] # Underscore
      <4> SUFFICES ASSUME NEW p \in q..e - 2, b[p] = Underscore PROVE b[p + 1] # Underscore
        OBVIOUS
      <4>1. p = q \/ p = q + 1 \/ p \in (q + 2)..e - 2
        BY <2>0, <3>3
      <4> QED BY <3>1, <3>2, <4>1 DEF RunAt
    <3>6. b[e - 1] \in ok
      <4>1. e > q + 2 \/ e - 1 = q + 1
        BY <2>0, <3>3
      <4> QED BY <3>1, <3>2, <4>1 DEF RunAt
    <3>7. e \in q..n + 1
      BY <1>1, <2>0, <3>3
    <3>8. Right(q, e)
      BY <3>2, <3>4, <3>5, <3>6, <3>7 DEF RunAt
    <3> QED BY <3>8 DEF e
  <2>3. CASE Stops(q)
    <3>1. e = q
      BY <1>4, <2>3
    <3>2. RunAt(b, q, q, ok) /\ q \in q..n + 1
      BY <1>1, <2>0 DEF RunAt
    <3> QED BY <2>3, <3>1, <3>2
  <2> QED BY <2>1, <2>2, <2>3
<1>6. 1..n + 1 \subseteq T
  <2>1. \A q \in 1..n + 1 : (\A m \in (q + 1)..n + 1 : m \in T) => q \in T
    <3> HIDE DEF Right
    <3> QED BY <1>5
  <2> HIDE DEF T
  <2> QED BY <1>1, <2>1, InductBack
<1>7. Right(pos, r[pos])
  <2>1. pos \in 1..n + 1
    BY DEF n
  <2> HIDE DEF Right
  <2> QED BY <1>6, <2>1
<1> QED BY <1>7 DEF ScanDigitRun, r, n

\* The bytes of a slice, which may be empty.
LEMMA SliceAt ==
  ASSUME NEW b \in Seq(SourceBytes), NEW s \in 1..Len(b) + 1, NEW e \in s..Len(b) + 1
  PROVE  /\ Slice(b, s, e) \in Seq(SourceBytes) /\ Len(Slice(b, s, e)) = e - s
         /\ DOMAIN Slice(b, s, e) = 1..e - s
         /\ \A i \in 1..e - s : Slice(b, s, e)[i] = b[s + i - 1]
<1>1. Len(b) \in Nat /\ s \in Nat /\ e \in Nat /\ e - 1 \in (s - 1)..Len(b) /\ s \in 1..Len(b) + 1
  <2>1. Len(b) \in Nat
    OBVIOUS
  <2> QED BY <2>1
<1>2. Slice(b, s, e) = SubSeq(b, s, e - 1) /\ e - 1 \in Int /\ s >= 1 /\ e - 1 <= Len(b) /\ (e - 1) - s + 1 = e - s /\ e - s \in Nat
  BY <1>1 DEF Slice
<1> DEFINE x == SubSeq(b, s, e - 1)
<1>3. x \in Seq(SourceBytes) /\ Len(x) = e - s /\ \A i \in 1..e - s : x[i] = b[s + i - 1]
  <2>1. x = [i \in 1..e - s |-> b[s + i - 1]]
    BY <1>1, <1>2
  <2>2. \A i \in 1..e - s : s + i - 1 \in 1..Len(b)
    BY <1>1
  <2>3. \A i \in 1..e - s : b[s + i - 1] \in SourceBytes
    BY <2>2
  <2> HIDE DEF x
  <2>4. x \in [1..e - s -> SourceBytes]
    BY <2>1, <2>3
  <2> QED BY <1>2, <2>1, <2>4
<1> QED BY <1>2, <1>3

\* Two sequences with the same elements.
LEMMA SameElements ==
  ASSUME NEW S, NEW v \in Seq(S), NEW w \in Seq(S), Len(v) = Len(w), \A i \in 1..Len(v) : v[i] = w[i]
  PROVE  v = w
OBVIOUS

\* A slice of a slice, and what is left of one behind its first byte.
LEMMA SliceOfSlice ==
  ASSUME NEW b \in Seq(SourceBytes), NEW s \in 1..Len(b) + 1, NEW e \in s..Len(b) + 1,
         NEW i \in Nat, NEW j \in Nat, 1 <= i, i <= j + 1, j <= e - s
  PROVE  SubSeq(Slice(b, s, e), i, j) = Slice(b, s + i - 1, s + j)
<1> DEFINE w == Slice(b, s, e)
           v == Slice(w, i, j + 1)
           u == Slice(b, s + i - 1, s + j)
<1>1. Len(b) \in Nat /\ s \in Nat /\ e \in Nat /\ s >= 1 /\ s <= e /\ e <= Len(b) + 1
  <2>1. Len(b) \in Nat
    OBVIOUS
  <2> QED BY <2>1
<1>2. w \in Seq(SourceBytes) /\ Len(w) = e - s /\ \A m \in 1..e - s : w[m] = b[s + m - 1]
  BY SliceAt
<1> HIDE DEF w
<1>3. i \in 1..Len(w) + 1 /\ j + 1 \in i..Len(w) + 1 /\ j + 1 - 1 = j /\ (j + 1) - i \in Nat
  BY <1>1, <1>2
<1>4. v = SubSeq(w, i, j)
  BY <1>3 DEF Slice
<1>5. v \in Seq(SourceBytes) /\ Len(v) = (j + 1) - i /\ \A m \in 1..(j + 1) - i : v[m] = w[i + m - 1]
  BY <1>2, <1>3, SliceAt
<1>6. s + i - 1 \in 1..Len(b) + 1 /\ s + j \in s + i - 1..Len(b) + 1 /\ (s + j) - (s + i - 1) = (j + 1) - i
  BY <1>1
<1>7. u \in Seq(SourceBytes) /\ Len(u) = (j + 1) - i /\ \A m \in 1..(j + 1) - i : u[m] = b[(s + i - 1) + m - 1]
  <2>1. u \in Seq(SourceBytes) /\ Len(u) = (s + j) - (s + i - 1) /\ \A m \in 1..(s + j) - (s + i - 1) : u[m] = b[(s + i - 1) + m - 1]
    BY <1>6, SliceAt
  <2> HIDE DEF u
  <2> QED BY <1>6, <2>1
<1> HIDE DEF v, u
<1>8. ASSUME NEW m \in 1..(j + 1) - i PROVE v[m] = u[m]
  <2>1. i + m - 1 \in 1..e - s /\ s + (i + m - 1) - 1 = (s + i - 1) + m - 1
    BY <1>1, <1>3
  <2>2. w[i + m - 1] = b[s + (i + m - 1) - 1]
    BY <1>2, <2>1
  <2> QED BY <1>5, <1>7, <2>1, <2>2
<1>9. v = u
  <2>1. Len(v) = Len(u) /\ \A m \in 1..Len(v) : v[m] = u[m]
    BY <1>5, <1>7, <1>8
  <2> QED BY <1>5, <1>7, <2>1, SameElements
<1> QED BY <1>4, <1>9 DEF u, w

\* What is left of a slice behind its first byte.
LEMMA TailOfSlice ==
  ASSUME NEW b \in Seq(SourceBytes), NEW s \in 1..Len(b) + 1, NEW e \in (s + 1)..Len(b) + 1
  PROVE  Slice(b, s, e) # <<>> /\ Tail(Slice(b, s, e)) = Slice(b, s + 1, e)
<1> DEFINE w == Slice(b, s, e)
           u == Slice(b, s + 1, e)
           v == Tail(w)
<1>1. Len(b) \in Nat /\ s \in Nat /\ e \in Nat /\ s >= 1 /\ s < e /\ e <= Len(b) + 1
  <2>1. Len(b) \in Nat
    OBVIOUS
  <2> QED BY <2>1
<1>2. w \in Seq(SourceBytes) /\ Len(w) = e - s /\ \A m \in 1..e - s : w[m] = b[s + m - 1]
  <2>1. e \in s..Len(b) + 1
    BY <1>1
  <2> QED BY <2>1, SliceAt
<1>3. u \in Seq(SourceBytes) /\ Len(u) = e - (s + 1) /\ \A m \in 1..e - (s + 1) : u[m] = b[(s + 1) + m - 1]
  <2>1. s + 1 \in 1..Len(b) + 1 /\ e \in (s + 1)..Len(b) + 1
    BY <1>1
  <2> QED BY <2>1, SliceAt
<1> HIDE DEF w, u
<1>4. w # <<>>
  BY <1>1, <1>2
<1>5. v \in Seq(SourceBytes) /\ Len(v) = Len(w) - 1 /\ \A m \in 1..Len(w) - 1 : v[m] = w[m + 1]
  BY <1>2, <1>4
<1> HIDE DEF v
<1>6. ASSUME NEW m \in 1..Len(v) PROVE v[m] = u[m]
  <2>1. m \in 1..Len(w) - 1 /\ m + 1 \in 1..e - s /\ m \in 1..e - (s + 1) /\ s + (m + 1) - 1 = (s + 1) + m - 1
    BY <1>1, <1>2, <1>5
  <2> QED BY <1>2, <1>3, <1>5, <2>1
<1>7. Len(v) = Len(u)
  BY <1>1, <1>2, <1>3, <1>5
<1>8. v = u
  BY <1>3, <1>5, <1>6, <1>7, SameElements
<1> QED BY <1>4, <1>8 DEF v, u, w

\* The digits of the grammar, by their places in the source.
LEMMA DigitsOfSlice ==
  ASSUME NEW b \in Seq(SourceBytes), NEW s \in 1..Len(b) + 1, NEW e \in s..Len(b) + 1, NEW ok
  PROVE  IsDigits(Slice(b, s, e), ok) <=> DigitsAt(b, s, e, ok)
<1> DEFINE w == Slice(b, s, e)
           n == e - s
<1>1. Len(b) \in Nat /\ s \in Nat /\ e \in Nat /\ s >= 1 /\ s <= e /\ e <= Len(b) + 1 /\ n \in Nat
  <2>1. Len(b) \in Nat
    OBVIOUS
  <2> QED BY <2>1
<1>2. w \in Seq(SourceBytes) /\ Len(w) = n /\ DOMAIN w = 1..n /\ \A m \in 1..n : w[m] = b[s + m - 1]
  BY SliceAt
<1> HIDE DEF w
<1>3. w # <<>> <=> e > s
  BY <1>1, <1>2
<1>4. ASSUME e > s PROVE w[1] = b[s] /\ w[Len(w)] = b[e - 1]
  <2>1. 1 \in 1..n /\ n \in 1..n /\ s + 1 - 1 = s /\ s + n - 1 = e - 1
    BY <1>1, <1>4
  <2> HIDE DEF n
  <2> QED BY <1>2, <2>1
<1>5. AllIn(w, ok \cup {Underscore}) <=> \A p \in s..e - 1 : b[p] \in ok \cup {Underscore}
  <2>1. ASSUME AllIn(w, ok \cup {Underscore}), NEW p \in s..e - 1 PROVE b[p] \in ok \cup {Underscore}
    <3>1. p - s + 1 \in 1..n /\ s + (p - s + 1) - 1 = p
      BY <1>1
    <3>2. w[p - s + 1] = b[p]
      BY <1>2, <3>1
    <3> QED BY <1>2, <2>1, <3>1, <3>2 DEF AllIn
  <2> DEFINE all == \A p \in s..e - 1 : b[p] \in ok \cup {Underscore}
  <2>2. ASSUME all, NEW m \in 1..n PROVE w[m] \in ok \cup {Underscore}
    <3>1. s + m - 1 \in s..e - 1
      BY <1>1
    <3>2. w[m] = b[s + m - 1]
      BY <1>2
    <3>3. b[s + m - 1] \in ok \cup {Underscore}
      BY <2>2, <3>1
    <3> QED BY <3>2, <3>3
  <2> QED BY <1>2, <2>1, <2>2 DEF AllIn
<1> DEFINE apart == \A i \in 1..Len(w) - 1 : ~(w[i] = Underscore /\ w[i + 1] = Underscore)
<1>6. apart <=> \A p \in s..e - 2 : b[p] = Underscore => b[p + 1] # Underscore
  <2>1. ASSUME apart, NEW p \in s..e - 2, b[p] = Underscore PROVE b[p + 1] # Underscore
    <3>1. /\ p - s + 1 \in 1..n - 1 /\ p - s + 1 \in 1..n /\ (p - s + 1) + 1 \in 1..n
          /\ s + (p - s + 1) - 1 = p /\ s + ((p - s + 1) + 1) - 1 = p + 1
      BY <1>1
    <3>2. w[p - s + 1] = b[p]
      BY <1>2, <3>1
    <3>4. w[(p - s + 1) + 1] = b[p + 1]
      <4> DEFINE i == (p - s + 1) + 1
      <4>1. i \in 1..n /\ s + i - 1 = p + 1
        BY <3>1
      <4> HIDE DEF i
      <4>2. w[i] = b[p + 1]
        BY <1>2, <4>1
      <4> QED BY <4>2 DEF i
    <3> QED BY <1>2, <2>1, <3>1, <3>2, <3>4
  <2>2. ASSUME \A p \in s..e - 2 : b[p] = Underscore => b[p + 1] # Underscore, NEW i \in 1..n - 1
        PROVE ~(w[i] = Underscore /\ w[i + 1] = Underscore)
    <3>1. s + i - 1 \in s..e - 2 /\ i \in 1..n /\ i + 1 \in 1..n /\ s + (i + 1) - 1 = (s + i - 1) + 1
      BY <1>1
    <3>2. w[i] = b[s + i - 1] /\ w[i + 1] = b[(s + i - 1) + 1]
      BY <1>2, <3>1
    <3> QED BY <2>2, <3>1, <3>2
  <2> QED BY <1>2, <2>1, <2>2
<1>7. IsDigits(w, ok) <=> w # <<>> /\ w[1] \in ok /\ w[Len(w)] \in ok /\ AllIn(w, ok \cup {Underscore}) /\ apart
  BY DEF IsDigits
<1> HIDE DEF n, apart
<1>8. IsDigits(w, ok) <=> DigitsAt(b, s, e, ok)
  BY <1>3, <1>4, <1>5, <1>6, <1>7 DEF DigitsAt, RunAt
<1> QED BY <1>8 DEF w

\* Integers, exponents and floats of the grammar, by their places in the source.
Radices == {<<"x", Hex>>, <<"o", Oct>>, <<"b", Bin>>}
IntegerAt(b, s, e) ==
    \/ DigitsAt(b, s, e, Dec)
    \/ /\ e - s > 2 /\ b[s] = "0"
       /\ \E r \in Radices : b[s + 1] = r[1] /\ DigitsAt(b, s + 2, e, r[2])
ExponentAt(b, s, e) ==
    /\ s < e /\ b[s] = "e"
    /\ DigitsAt(b, s + 1, e, Dec) \/ (s + 1 < e /\ b[s + 1] \in {"+", "-"} /\ DigitsAt(b, s + 2, e, Dec))
FractionAt(b, s, k, e) == DigitsAt(b, s, k, Dec) /\ (k = e \/ ExponentAt(b, k, e))
FloatAt(b, s, e) ==
    \E m \in (s + 1)..e - 1 :
        /\ DigitsAt(b, s, m, Dec)
        /\ ExponentAt(b, m, e) \/ (b[m] = "." /\ \E k \in (m + 2)..e : FractionAt(b, m + 1, k, e))

\* A slice is an integer of the grammar exactly if its places say so.
LEMMA IntegerOfSlice ==
  ASSUME NEW b \in Seq(SourceBytes), NEW s \in 1..Len(b) + 1, NEW e \in s..Len(b) + 1
  PROVE  IsInteger(Slice(b, s, e)) <=> IntegerAt(b, s, e)
<1> DEFINE w == Slice(b, s, e)
<1>1. Len(b) \in Nat /\ s \in Nat /\ e \in Nat /\ s >= 1 /\ s <= e /\ e <= Len(b) + 1
  <2>1. Len(b) \in Nat
    OBVIOUS
  <2> QED BY <2>1
<1>2. Len(w) = e - s /\ \A m \in 1..e - s : w[m] = b[s + m - 1]
  BY SliceAt
<1>3. IsDigits(w, Dec) <=> DigitsAt(b, s, e, Dec)
  BY DigitsOfSlice
<1>4. ASSUME e - s > 2
      PROVE  /\ w[1] = b[s] /\ w[2] = b[s + 1]
             /\ \A ok : IsDigits(SubSeq(w, 3, Len(w)), ok) <=> DigitsAt(b, s + 2, e, ok)
  <2>1. 1 \in 1..e - s /\ 2 \in 1..e - s /\ s + 1 - 1 = s /\ s + 2 - 1 = s + 1
    BY <1>1, <1>4
  <2>2. w[1] = b[s] /\ w[2] = b[s + 1]
    <3> HIDE DEF w
    <3> QED BY <1>2, <2>1
  <2> DEFINE j == e - s
  <2>3. 3 \in Nat /\ j \in Nat /\ 1 <= 3 /\ 3 <= j + 1 /\ j <= e - s /\ s + 3 - 1 = s + 2 /\ s + j = e
    BY <1>1, <1>4
  <2>4. SubSeq(w, 3, j) = Slice(b, s + 3 - 1, s + j)
    <3> HIDE DEF j
    <3> QED BY <2>3, SliceOfSlice
  <2>5. SubSeq(w, 3, Len(w)) = Slice(b, s + 2, e)
    <3> HIDE DEF w
    <3> QED BY <1>2, <2>3, <2>4
  <2>6. s + 2 \in 1..Len(b) + 1 /\ e \in s + 2..Len(b) + 1
    BY <1>1, <1>4
  <2>7. \A ok : IsDigits(Slice(b, s + 2, e), ok) <=> DigitsAt(b, s + 2, e, ok)
    BY <2>6, DigitsOfSlice
  <2> HIDE DEF w, j
  <2> QED BY <2>2, <2>5, <2>7
<1>5. IsInteger(w) <=> \/ IsDigits(w, Dec)
                       \/ Len(w) > 2 /\ w[1] = "0" /\ \E r \in Radices : w[2] = r[1] /\ IsDigits(SubSeq(w, 3, Len(w)), r[2])
  BY DEF IsInteger, Radices
<1> HIDE DEF w
<1>6. IsInteger(w) <=> IntegerAt(b, s, e)
  <2>1. CASE e - s > 2
    BY <1>2, <1>3, <1>4, <1>5, <2>1 DEF IntegerAt
  <2>2. CASE ~(e - s > 2)
    BY <1>2, <1>3, <1>5, <2>2 DEF IntegerAt
  <2> QED BY <2>1, <2>2
<1> QED BY <1>6 DEF w

\* And an exponent.
LEMMA ExponentOfSlice ==
  ASSUME NEW b \in Seq(SourceBytes), NEW s \in 1..Len(b) + 1, NEW e \in s..Len(b) + 1
  PROVE  IsExponent(Slice(b, s, e)) <=> ExponentAt(b, s, e)
<1> DEFINE w == Slice(b, s, e)
<1>1. Len(b) \in Nat /\ s \in Nat /\ e \in Nat /\ s >= 1 /\ s <= e /\ e <= Len(b) + 1
  <2>1. Len(b) \in Nat
    OBVIOUS
  <2> QED BY <2>1
<1>2. w \in Seq(SourceBytes) /\ Len(w) = e - s /\ \A m \in 1..e - s : w[m] = b[s + m - 1]
  BY SliceAt
<1>3. ASSUME e > s
      PROVE  w # <<>> /\ w[1] = b[s] /\ (IsDigits(Tail(w), Dec) <=> DigitsAt(b, s + 1, e, Dec)) /\ Tail(w) = Slice(b, s + 1, e)
  <2>1. 1 \in 1..e - s /\ s + 1 - 1 = s /\ s + 1 \in 1..Len(b) + 1 /\ e \in (s + 1)..Len(b) + 1
    BY <1>1, <1>3
  <2>2. w # <<>> /\ Tail(w) = Slice(b, s + 1, e)
    BY <2>1, TailOfSlice
  <2>3. IsDigits(Slice(b, s + 1, e), Dec) <=> DigitsAt(b, s + 1, e, Dec)
    BY <2>1, DigitsOfSlice
  <2> HIDE DEF w
  <2> QED BY <1>2, <2>1, <2>2, <2>3
<1>4. ASSUME e > s + 1
      PROVE  w[2] = b[s + 1] /\ (IsDigits(Tail(Tail(w)), Dec) <=> DigitsAt(b, s + 2, e, Dec))
  <2>1. /\ 2 \in 1..e - s /\ s + 2 - 1 = s + 1 /\ (s + 1) + 1 = s + 2 /\ s + 1 \in 1..Len(b) + 1
        /\ e \in ((s + 1) + 1)..Len(b) + 1 /\ s + 2 \in 1..Len(b) + 1 /\ e \in (s + 2)..Len(b) + 1 /\ e > s
    BY <1>1, <1>4
  <2>2. Tail(Slice(b, s + 1, e)) = Slice(b, (s + 1) + 1, e)
    BY <2>1, TailOfSlice
  <2>3. IsDigits(Slice(b, s + 2, e), Dec) <=> DigitsAt(b, s + 2, e, Dec)
    BY <2>1, DigitsOfSlice
  <2> HIDE DEF w
  <2>4. Tail(Tail(w)) = Slice(b, s + 2, e)
    BY <1>3, <2>1, <2>2
  <2>5. w[2] = b[s + 1]
    BY <1>2, <2>1
  <2> QED BY <2>3, <2>4, <2>5
<1> HIDE DEF w
<1>5. IsExponent(w) <=> /\ w # <<>> /\ w[1] = "e"
                        /\ IsDigits(Tail(w), Dec) \/ (Len(w) > 1 /\ w[2] \in {"+", "-"} /\ IsDigits(Tail(Tail(w)), Dec))
  BY DEF IsExponent
<1>6. IsExponent(w) <=> ExponentAt(b, s, e)
  <2>1. CASE e > s + 1
    <3>1. e > s /\ Len(w) > 1 /\ s + 1 < e
      BY <1>1, <1>2, <2>1
    <3> QED BY <1>3, <1>4, <1>5, <2>1, <3>1 DEF ExponentAt
  <2>2. CASE e = s + 1
    <3>1. e > s /\ ~(Len(w) > 1) /\ ~(s + 1 < e)
      BY <1>1, <1>2, <2>2
    <3> QED BY <1>3, <1>5, <2>2, <3>1 DEF ExponentAt
  <2>3. CASE e = s
    <3>1. Len(w) = 0 /\ ~(s < e)
      BY <1>1, <1>2, <2>3
    <3>2. w = <<>>
      BY <1>2, <3>1
    <3> QED BY <1>5, <3>1, <3>2 DEF ExponentAt
  <2> QED BY <1>1, <2>1, <2>2, <2>3
<1> QED BY <1>6 DEF w

\* Digits and an exponent inside a slice.
LEMMA PartOfSlice ==
  ASSUME NEW b \in Seq(SourceBytes), NEW s \in 1..Len(b) + 1, NEW e \in s..Len(b) + 1,
         NEW i \in Nat, NEW j \in Nat, i <= j, j <= e - s
  PROVE  /\ IsDigits(SubSeq(Slice(b, s, e), i + 1, j), Dec) <=> DigitsAt(b, s + i, s + j, Dec)
         /\ IsExponent(SubSeq(Slice(b, s, e), i + 1, j)) <=> ExponentAt(b, s + i, s + j)
<1> DEFINE x == s + i
           y == s + j
<1>1. Len(b) \in Nat
  OBVIOUS
<1>2. s \in Nat /\ e \in Nat /\ s >= 1 /\ e <= Len(b) + 1
  BY <1>1
<1>3. i + 1 \in Nat /\ 1 <= i + 1 /\ i + 1 <= j + 1 /\ s + (i + 1) - 1 = x
  BY <1>1, <1>2
<1>4. SubSeq(Slice(b, s, e), i + 1, j) = Slice(b, s + (i + 1) - 1, s + j)
  BY <1>3, SliceOfSlice
<1>5. x \in 1..Len(b) + 1 /\ y \in x..Len(b) + 1
  BY <1>1, <1>2
<1> HIDE DEF x, y
<1>6. (IsDigits(Slice(b, x, y), Dec) <=> DigitsAt(b, x, y, Dec)) /\ (IsExponent(Slice(b, x, y)) <=> ExponentAt(b, x, y))
  BY <1>5, DigitsOfSlice, ExponentOfSlice
<1>7. SubSeq(Slice(b, s, e), i + 1, j) = Slice(b, x, y)
  BY <1>3, <1>4 DEF y
<1> QED BY <1>6, <1>7 DEF x, y

\* And a float.
LEMMA FloatOfSlice ==
  ASSUME NEW b \in Seq(SourceBytes), NEW s \in 1..Len(b) + 1, NEW e \in s..Len(b) + 1
  PROVE  IsFloat(Slice(b, s, e)) <=> FloatAt(b, s, e)
<1> DEFINE w == Slice(b, s, e)
           n == e - s
           Ends(i) == IsExponent(SubSeq(w, i + 1, Len(w)))
           Frac(i, j) == IsDigits(SubSeq(w, i + 2, j), Dec) /\ (j = Len(w) \/ IsExponent(SubSeq(w, j + 1, Len(w))))
<1>1. Len(b) \in Nat
  OBVIOUS
<1>2. s \in Nat /\ e \in Nat /\ s >= 1 /\ s <= e /\ e <= Len(b) + 1 /\ n \in Nat /\ s + n = e
  BY <1>1
<1>3. Len(w) = n /\ \A m \in 1..n : w[m] = b[s + m - 1]
  BY SliceAt
<1>4. \A i, j \in Nat : i <= j /\ j <= n =>
         /\ IsDigits(SubSeq(w, i + 1, j), Dec) <=> DigitsAt(b, s + i, s + j, Dec)
         /\ IsExponent(SubSeq(w, i + 1, j)) <=> ExponentAt(b, s + i, s + j)
  BY PartOfSlice
<1>5. IsFloat(w) <=> \E i \in 1..Len(w) - 1 :
                        /\ IsDigits(SubSeq(w, 1, i), Dec)
                        /\ Ends(i) \/ (w[i + 1] = "." /\ \E j \in i + 2..Len(w) : Frac(i, j))
  BY DEF IsFloat
<1> HIDE DEF w, n
<1>6. ASSUME NEW i \in 1..n - 1
      PROVE  /\ s + i \in (s + 1)..e - 1 /\ w[i + 1] = b[s + i]
             /\ IsDigits(SubSeq(w, 1, i), Dec) <=> DigitsAt(b, s, s + i, Dec)
             /\ Ends(i) <=> ExponentAt(b, s + i, e)
  <2>1. /\ i \in Nat /\ 0 \in Nat /\ 0 <= i /\ i <= n /\ 0 + 1 = 1 /\ s + 0 = s /\ i + 1 \in 1..n
        /\ s + (i + 1) - 1 = s + i /\ s + i \in (s + 1)..e - 1 /\ n <= n
    BY <1>2
  <2>2. w[i + 1] = b[s + i]
    BY <1>3, <2>1
  <2>3. IsDigits(SubSeq(w, 0 + 1, i), Dec) <=> DigitsAt(b, s + 0, s + i, Dec)
    BY <1>4, <2>1
  <2>4. IsExponent(SubSeq(w, i + 1, n)) <=> ExponentAt(b, s + i, s + n)
    BY <1>2, <1>4, <2>1
  <2> QED BY <1>2, <1>3, <2>1, <2>2, <2>3, <2>4
<1>7. ASSUME NEW i \in 1..n - 1, NEW j \in i + 2..n
      PROVE  s + j \in (s + i + 2)..e /\ (Frac(i, j) <=> FractionAt(b, s + i + 1, s + j, e))
  <2>1. i + 1 \in Nat /\ j \in Nat /\ i + 1 <= j /\ j <= n /\ (i + 1) + 1 = i + 2 /\ s + (i + 1) = s + i + 1
        /\ s + j \in (s + i + 2)..e /\ n <= n
    BY <1>2
  <2>2. IsDigits(SubSeq(w, (i + 1) + 1, j), Dec) <=> DigitsAt(b, s + (i + 1), s + j, Dec)
    BY <1>4, <2>1
  <2>3. IsExponent(SubSeq(w, j + 1, n)) <=> ExponentAt(b, s + j, s + n)
    BY <1>2, <1>4, <2>1
  <2>4. j = n <=> s + j = e
    BY <1>2, <2>1
  <2> QED BY <1>2, <1>3, <2>1, <2>2, <2>3, <2>4 DEF FractionAt
<1>8. ASSUME IsFloat(w) PROVE FloatAt(b, s, e)
  <2>1. PICK i \in 1..n - 1 : /\ IsDigits(SubSeq(w, 1, i), Dec)
                              /\ Ends(i) \/ (w[i + 1] = "." /\ \E j \in i + 2..n : Frac(i, j))
    BY <1>3, <1>5, <1>8
  <2> HIDE DEF Ends, Frac
  <2> DEFINE m == s + i
  <2>2. m \in (s + 1)..e - 1 /\ w[i + 1] = b[m] /\ DigitsAt(b, s, m, Dec) /\ (Ends(i) <=> ExponentAt(b, m, e))
    BY <1>6, <2>1
  <2>3. ASSUME NEW j \in i + 2..n, Frac(i, j) PROVE \E k \in (m + 2)..e : FractionAt(b, m + 1, k, e)
    BY <1>7, <2>3
  <2> HIDE DEF m
  <2> QED BY <2>1, <2>2, <2>3 DEF FloatAt
<1>9. ASSUME FloatAt(b, s, e) PROVE IsFloat(w)
  <2>1. PICK m \in (s + 1)..e - 1 : /\ DigitsAt(b, s, m, Dec)
                                    /\ ExponentAt(b, m, e) \/ (b[m] = "." /\ \E k \in (m + 2)..e : FractionAt(b, m + 1, k, e))
    BY <1>9 DEF FloatAt
  <2> DEFINE i == m - s
  <2>2. i \in 1..n - 1 /\ s + i = m
    BY <1>2 DEF n
  <2> HIDE DEF i
  <2>3. w[i + 1] = b[m] /\ IsDigits(SubSeq(w, 1, i), Dec) /\ (Ends(i) <=> ExponentAt(b, m, e))
    BY <1>6, <2>1, <2>2
  <2>4. ASSUME NEW k \in (m + 2)..e, FractionAt(b, m + 1, k, e) PROVE \E j \in i + 2..n : Frac(i, j)
    <3> DEFINE j == k - s
    <3>1. j \in i + 2..n /\ s + j = k
      BY <1>2, <2>2
    <3> HIDE DEF j
    <3>2. Frac(i, j) <=> FractionAt(b, s + i + 1, s + j, e)
      BY <1>7, <2>2, <3>1
    <3> HIDE DEF Frac
    <3> QED BY <2>2, <2>4, <3>1, <3>2
  <2> HIDE DEF Ends, Frac
  <2>5. Ends(i) \/ (w[i + 1] = "." /\ \E j \in i + 2..n : Frac(i, j))
    BY <2>1, <2>3, <2>4
  <2> QED BY <1>3, <1>5, <2>2, <2>3, <2>5
<1>10. IsFloat(w) <=> FloatAt(b, s, e)
  BY <1>8, <1>9
<1> QED BY <1>10 DEF w

-----------------------------------------------------------------------------
(* The longest number.                                                     *)

\* The classes of digits, the letters of numbers and the underscore are apart.
LEMMA NumberBytes ==
  /\ "none" \notin Dec /\ "none" \notin Hex /\ "none" \notin Oct /\ "none" \notin Bin
  /\ Underscore \notin Dec /\ Underscore \notin Hex /\ Underscore \notin Oct /\ Underscore \notin Bin
  /\ Underscore \notin {"e", ".", "x", "o", "b"} /\ Dec \cap {"e", ".", "x", "o", "b", "+", "-"} = {}
<1>1. /\ Underscore \notin Dec /\ Underscore \notin Hex /\ Underscore \notin Oct /\ Underscore \notin Bin
      /\ Underscore \notin {"e", ".", "x", "o", "b"}
  BY Zenon DEF Underscore, Dec, Hex, Oct, Bin
<1>2. /\ "none" \notin Dec /\ "none" \notin Hex /\ "none" \notin Oct /\ "none" \notin Bin
      /\ Dec \cap {"e", ".", "x", "o", "b", "+", "-"} = {}
  BY DEF Dec, Hex, Oct, Bin
<1> QED BY <1>1, <1>2

\* A scan from a digit is over digits, and no digits from there are more.
LEMMA DigitsLongest ==
  ASSUME NEW b \in Seq(SourceBytes), NEW ok, "none" \notin ok, Underscore \notin ok, NEW s \in 1..Len(b), b[s] \in ok
  PROVE  /\ ScanDigitRun(b, s, ok) \in (s + 1)..Len(b) + 1
         /\ DigitsAt(b, s, ScanDigitRun(b, s, ok), ok)
         /\ \A e \in s..Len(b) + 1 : DigitsAt(b, s, e, ok) => e <= ScanDigitRun(b, s, ok)
<1> DEFINE r == ScanDigitRun(b, s, ok)
<1>1. Len(b) \in Nat /\ s \in Nat /\ s \in 1..Len(b) + 1 /\ s <= Len(b)
  <2>1. Len(b) \in Nat
    BY GetIs
  <2> QED BY <2>1
<1>2. /\ r \in s..Len(b) + 1 /\ RunAt(b, s, r, ok) /\ Get(b, r) \notin ok
      /\ ~(Get(b, r) = Underscore /\ Get(b, r + 1) \in ok)
  BY <1>1, DigitRunIs
<1>3. \A p \in 1..Len(b) : Get(b, p) = b[p]
  BY GetIs
<1> HIDE DEF r
<1>4. r # s /\ r \in Nat /\ r \in (s + 1)..Len(b) + 1
  <2>1. Get(b, s) \in ok
    BY <1>3
  <2>2. r # s
    BY <1>2, <2>1
  <2> QED BY <1>1, <1>2, <2>2
<1>5. DigitsAt(b, s, r, ok)
  BY <1>1, <1>2, <1>4 DEF DigitsAt
<1>6. ASSUME NEW e \in s..Len(b) + 1, DigitsAt(b, s, e, ok), e > r PROVE FALSE
  <2>1. e \in Nat /\ r \in s..e - 1 /\ r \in 1..Len(b)
    BY <1>1, <1>4, <1>6
  <2>2. Get(b, r) = b[r] /\ b[r] \in ok \cup {Underscore}
    BY <1>3, <1>6, <2>1 DEF DigitsAt, RunAt
  <2>3. b[r] = Underscore
    BY <1>2, <2>2
  <2>4. CASE r = e - 1
    <3>1. b[r] \in ok
      BY <1>6, <2>4 DEF DigitsAt, RunAt
    <3> QED BY <2>3, <3>1
  <2>5. CASE r # e - 1
    <3>1. r \in s..e - 2 /\ r + 1 \in s..e - 1 /\ r + 1 \in 1..Len(b)
      BY <1>1, <1>4, <2>1, <2>5
    <3>2. b[r + 1] # Underscore /\ b[r + 1] \in ok \cup {Underscore} /\ Get(b, r + 1) = b[r + 1]
      BY <1>3, <1>6, <2>3, <3>1 DEF DigitsAt, RunAt
    <3> QED BY <1>2, <2>2, <2>3, <3>2
  <2> QED BY <2>4, <2>5
<1>7. \A e \in s..Len(b) + 1 : DigitsAt(b, s, e, ok) => e <= r
  <2> SUFFICES ASSUME NEW e \in s..Len(b) + 1, DigitsAt(b, s, e, ok) PROVE e <= r
    OBVIOUS
  <2>1. ~(e > r) /\ e \in Nat
    BY <1>1, <1>6
  <2> QED BY <1>4, <2>1
<1> QED BY <1>4, <1>5, <1>7 DEF r

\* Where exponent_end stops is behind the longest exponent there is.
LEMMA ExponentLongest ==
  ASSUME NEW b \in Seq(SourceBytes), NEW p \in 1..Len(b) + 1
  PROVE  /\ ExponentEnd(b, p) \in p..Len(b) + 1
         /\ ExponentEnd(b, p) # p => ExponentAt(b, p, ExponentEnd(b, p))
         /\ \A e \in p..Len(b) + 1 : ExponentAt(b, p, e) => e <= ExponentEnd(b, p)
<1> DEFINE signed == Get(b, p + 1) \in {"+", "-"}
           q == IF signed THEN p + 2 ELSE p + 1
           goes == Get(b, p) = "e" /\ Get(b, q) \in Dec
           x == ExponentEnd(b, p)
<1>1. Len(b) \in Nat /\ p \in Nat /\ p >= 1 /\ p <= Len(b) + 1
  <2>1. Len(b) \in Nat
    BY GetIs
  <2> QED BY <2>1
<1>2. x = IF goes THEN ScanDigitRun(b, q, Dec) ELSE p
  BY DEF ExponentEnd
<1>3. \A i \in Nat : Get(b, i) # "none" => i <= Len(b)
  BY GetIs
<1>4. \A i \in 1..Len(b) : Get(b, i) = b[i]
  BY GetIs
<1>5. q \in {p + 1, p + 2} /\ (q = p + 2 => signed)
  OBVIOUS
<1>6. signed => q = p + 2
  OBVIOUS
<1>7. signed \in BOOLEAN /\ (~signed => q = p + 1)
  OBVIOUS
<1> HIDE DEF x, q
<1>8. ASSUME goes
      PROVE  /\ p \in 1..Len(b) /\ b[p] = "e" /\ q \in 1..Len(b) /\ q > p /\ b[q] \in Dec
             /\ x \in (q + 1)..Len(b) + 1 /\ DigitsAt(b, q, x, Dec) /\ x = ScanDigitRun(b, q, Dec)
  <2>1. Get(b, q) \in Dec /\ q \in Nat /\ q > p /\ Get(b, p) = "e" /\ q >= 1
    BY <1>1, <1>5, <1>8
  <2>2. q <= Len(b) /\ p <= Len(b)
    BY <1>1, <1>3, <2>1, NumberBytes
  <2>3. q \in 1..Len(b) /\ p \in 1..Len(b)
    BY <1>1, <2>1, <2>2
  <2>4. b[q] \in Dec /\ b[p] = "e"
    BY <1>4, <2>1, <2>3
  <2>5. x = ScanDigitRun(b, q, Dec)
    BY <1>2, <1>8
  <2>6. x \in (q + 1)..Len(b) + 1 /\ DigitsAt(b, q, x, Dec)
    BY <2>3, <2>4, <2>5, DigitsLongest, NumberBytes
  <2> QED BY <2>1, <2>3, <2>4, <2>5, <2>6
<1> HIDE DEF goes
<1>9. x \in p..Len(b) + 1
  <2>1. CASE goes
    BY <1>1, <1>8, <2>1
  <2>2. CASE ~goes
    BY <1>1, <1>2, <2>2
  <2> QED BY <2>1, <2>2
<1>10. ASSUME x # p PROVE ExponentAt(b, p, x)
  <2>1. goes
    BY <1>2, <1>10
  <2>2. p < x /\ b[p] = "e" /\ DigitsAt(b, q, x, Dec) /\ q \in 1..Len(b) /\ x \in (q + 1)..Len(b) + 1
    BY <1>1, <1>8, <2>1
  <2>3. CASE q = p + 1
    BY <2>2, <2>3 DEF ExponentAt
  <2>4. CASE q = p + 2
    <3>1. signed
      BY <1>5, <2>4
    <3>2. p + 1 \in 1..Len(b) /\ p + 1 < x
      BY <1>1, <2>2, <2>4
    <3>3. b[p + 1] \in {"+", "-"}
      BY <1>4, <3>1, <3>2
    <3> QED BY <2>2, <2>4, <3>2, <3>3 DEF ExponentAt
  <2> QED BY <1>5, <2>3, <2>4
<1>11. ASSUME NEW e \in p..Len(b) + 1, ExponentAt(b, p, e) PROVE e <= x
  <2>1. e \in Nat /\ p < e /\ b[p] = "e" /\ p \in 1..Len(b) /\ Get(b, p) = "e"
    <3>1. p < e /\ b[p] = "e"
      BY <1>11 DEF ExponentAt
    <3>2. p \in 1..Len(b) /\ e \in Nat
      BY <1>1, <3>1
    <3> QED BY <1>4, <3>1, <3>2
  <2>2. ASSUME DigitsAt(b, q, e, Dec), q \in Nat, q > p PROVE e <= x
    <3>1. e > q /\ b[q] \in Dec
      BY <2>2 DEF DigitsAt
    <3>2. q \in 1..Len(b) /\ e \in q..Len(b) + 1
      BY <1>1, <2>1, <2>2, <3>1
    <3>3. goes
      BY <1>4, <2>1, <3>1, <3>2 DEF goes
    <3>4. x = ScanDigitRun(b, q, Dec)
      BY <1>8, <3>3
    <3> QED BY <2>2, <3>1, <3>2, <3>4, DigitsLongest, NumberBytes
  <2>3. CASE DigitsAt(b, p + 1, e, Dec)
    <3>1. e > p + 1 /\ b[p + 1] \in Dec
      BY <2>3 DEF DigitsAt
    <3>2. p + 1 \in 1..Len(b)
      BY <1>1, <2>1, <3>1
    <3>3. ~signed
      BY <1>4, <3>1, <3>2, NumberBytes
    <3>4. q = p + 1
      BY <1>7, <3>3
    <3>5. q \in Nat /\ q > p
      BY <1>1, <3>4
    <3> QED BY <2>2, <2>3, <3>4, <3>5
  <2>4. CASE p + 1 < e /\ b[p + 1] \in {"+", "-"} /\ DigitsAt(b, p + 2, e, Dec)
    <3>1. p + 1 \in 1..Len(b)
      BY <1>1, <2>1, <2>4
    <3>2. signed
      BY <1>4, <2>4, <3>1
    <3>3. q = p + 2
      BY <1>6, <3>2
    <3>4. q \in Nat /\ q > p
      BY <1>1, <3>3
    <3> QED BY <2>2, <2>4, <3>3, <3>4
  <2> QED BY <1>11, <2>3, <2>4 DEF ExponentAt
<1> QED BY <1>9, <1>10, <1>11 DEF x

\* Where fraction_end stops.
LEMMA FractionLongest ==
  ASSUME NEW b \in Seq(SourceBytes), NEW p \in 1..Len(b) + 1
  PROVE  /\ FractionEnd(b, p) \in p..Len(b) + 1
         /\ FractionEnd(b, p) # p => b[p] = "." /\ p <= Len(b) /\ FractionEnd(b, p) >= p + 2 /\ DigitsAt(b, p + 1, FractionEnd(b, p), Dec)
         /\ \A k \in (p + 2)..Len(b) + 1 : b[p] = "." /\ DigitsAt(b, p + 1, k, Dec) => k <= FractionEnd(b, p) /\ FractionEnd(b, p) # p
         /\ Get(b, p) # "." => FractionEnd(b, p) = p
         /\ FractionEnd(b, p) # p => FractionEnd(b, p) = ScanDigitRun(b, p + 1, Dec)
<1> DEFINE goes == Get(b, p) = "." /\ Get(b, p + 1) \in Dec
           x == FractionEnd(b, p)
<1>1. Len(b) \in Nat /\ p \in Nat /\ p >= 1 /\ p <= Len(b) + 1 /\ p + 1 \in Nat
  <2>1. Len(b) \in Nat
    BY GetIs
  <2> QED BY <2>1
<1>2. x = IF goes THEN ScanDigitRun(b, p + 1, Dec) ELSE p
  BY DEF FractionEnd
<1>3. \A i \in Nat : Get(b, i) # "none" => i <= Len(b)
  BY GetIs
<1>4. \A i \in 1..Len(b) : Get(b, i) = b[i]
  BY GetIs
<1>5. goes => Get(b, p) = "." /\ Get(b, p + 1) \in Dec
  OBVIOUS
<1> HIDE DEF x
<1>6. ASSUME goes
      PROVE  /\ p \in 1..Len(b) /\ p + 1 \in 1..Len(b) /\ b[p] = "." /\ b[p + 1] \in Dec /\ x = ScanDigitRun(b, p + 1, Dec)
             /\ x \in (p + 1 + 1)..Len(b) + 1 /\ DigitsAt(b, p + 1, x, Dec)
  <2>1. p + 1 <= Len(b)
    BY <1>1, <1>3, <1>5, <1>6, NumberBytes
  <2>2. p \in 1..Len(b) /\ p + 1 \in 1..Len(b)
    BY <1>1, <2>1
  <2>3. b[p] = "." /\ b[p + 1] \in Dec
    BY <1>4, <1>5, <1>6, <2>2
  <2>4. x = ScanDigitRun(b, p + 1, Dec)
    BY <1>2, <1>6
  <2> DEFINE q == p + 1
  <2>5. q \in 1..Len(b) /\ b[q] \in Dec /\ x = ScanDigitRun(b, q, Dec)
    BY <2>2, <2>3, <2>4
  <2> HIDE DEF q
  <2>6. x \in (q + 1)..Len(b) + 1 /\ DigitsAt(b, q, x, Dec)
    BY <2>5, DigitsLongest, NumberBytes
  <2> QED BY <2>2, <2>3, <2>4, <2>6 DEF q
<1>7. ASSUME NEW k \in (p + 2)..Len(b) + 1, b[p] = ".", DigitsAt(b, p + 1, k, Dec) PROVE k <= x /\ x # p
  <2> DEFINE q == p + 1
  <2>1. k > q /\ b[q] \in Dec
    BY <1>7 DEF DigitsAt
  <2>2. p \in 1..Len(b) /\ q \in 1..Len(b) /\ k \in q..Len(b) + 1 /\ k > p
    BY <1>1, <2>1
  <2>3. goes
    BY <1>4, <1>7, <2>1, <2>2
  <2>4. x = ScanDigitRun(b, q, Dec)
    BY <1>6, <2>3
  <2>5. DigitsAt(b, q, k, Dec)
    BY <1>7
  <2> HIDE DEF q
  <2>6. k <= x
    BY <2>1, <2>2, <2>4, <2>5, DigitsLongest, NumberBytes
  <2>7. x \in Nat
    BY <1>1, <1>6, <2>3
  <2>8. p \in Nat /\ k \in Nat /\ k > p
    BY <1>1, <2>2
  <2> QED BY <2>6, <2>7, <2>8
<1> HIDE DEF goes
<1>8. CASE goes
  <2>1. x \in p..Len(b) + 1 /\ x >= p + 2 /\ p <= Len(b) /\ x # p
    BY <1>1, <1>6, <1>8
  <2> QED BY <1>5, <1>6, <1>7, <1>8, <2>1 DEF x
<1>9. CASE ~goes
  <2>1. x = p /\ p \in p..Len(b) + 1
    BY <1>1, <1>2, <1>9
  <2> QED BY <1>7, <2>1 DEF x
<1> QED BY <1>8, <1>9

\* A number without a radix: its digits, the fraction behind them, the exponent behind that.
DecimalEnd(b, s) == ExponentEnd(b, FractionEnd(b, ScanDigitRun(b, s, Dec)))

\* Digits that stop at a byte of another kind end where the scan does.
LEMMA DigitsStopAt ==
  ASSUME NEW b \in Seq(SourceBytes), NEW s \in 1..Len(b), b[s] \in Dec, NEW m \in s..Len(b), DigitsAt(b, s, m, Dec),
         b[m] \in {"e", "."}
  PROVE  m = ScanDigitRun(b, s, Dec)
<1> DEFINE r == ScanDigitRun(b, s, Dec)
<1>1. Len(b) \in Nat /\ s \in Nat /\ m \in Nat /\ m \in s..Len(b) + 1
  <2>1. Len(b) \in Nat
    BY GetIs
  <2> QED BY <2>1
<1>2. r \in (s + 1)..Len(b) + 1 /\ DigitsAt(b, s, r, Dec) /\ m <= r
  BY <1>1, DigitsLongest, NumberBytes
<1> HIDE DEF r
<1>3. CASE m < r
  <2>1. m \in s..r - 1
    BY <1>1, <1>2, <1>3
  <2>2. b[m] \in Dec \cup {Underscore}
    BY <1>2, <2>1 DEF DigitsAt, RunAt
  <2> QED BY <2>2, NumberBytes
<1>4. CASE ~(m < r)
  <2>1. m = r
    BY <1>1, <1>2, <1>4
  <2> QED BY <2>1 DEF r
<1> QED BY <1>3, <1>4

\* The end of a number without a radix: it is one of the grammar, and none from there is longer.
LEMMA DecimalLongest ==
  ASSUME NEW b \in Seq(SourceBytes), NEW s \in 1..Len(b), b[s] \in Dec
  PROVE  /\ ScanDigitRun(b, s, Dec) \in (s + 1)..Len(b) + 1
         /\ DecimalEnd(b, s) \in ScanDigitRun(b, s, Dec)..Len(b) + 1
         /\ DigitsAt(b, s, ScanDigitRun(b, s, Dec), Dec)
         /\ \A e \in (s + 1)..Len(b) + 1 : DigitsAt(b, s, e, Dec) => e <= ScanDigitRun(b, s, Dec)
         /\ DecimalEnd(b, s) # ScanDigitRun(b, s, Dec) => FloatAt(b, s, DecimalEnd(b, s))
         /\ \A e \in (s + 1)..Len(b) + 1 : FloatAt(b, s, e) => e <= DecimalEnd(b, s) /\ e > ScanDigitRun(b, s, Dec)
<1> DEFINE w == ScanDigitRun(b, s, Dec)
           f == FractionEnd(b, w)
           x == ExponentEnd(b, f)
<1>1. Len(b) \in Nat /\ s \in Nat /\ s >= 1
  <2>1. Len(b) \in Nat
    BY GetIs
  <2> QED BY <2>1
<1>2. w \in (s + 1)..Len(b) + 1 /\ DigitsAt(b, s, w, Dec) /\ \A e \in s..Len(b) + 1 : DigitsAt(b, s, e, Dec) => e <= w
  BY DigitsLongest, NumberBytes
<1>3. x = DecimalEnd(b, s)
  BY DEF DecimalEnd
<1>0. \A i \in 1..Len(b) : Get(b, i) = b[i]
  BY GetIs
<1>12. \A m \in s..Len(b) : DigitsAt(b, s, m, Dec) /\ b[m] \in {"e", "."} => m = w
  BY DigitsStopAt
<1> HIDE DEF w
<1>4. w \in 1..Len(b) + 1 /\ w \in Nat /\ w > s
  BY <1>1, <1>2
<1>5. /\ f \in w..Len(b) + 1
      /\ f # w => b[w] = "." /\ w <= Len(b) /\ f >= w + 2 /\ DigitsAt(b, w + 1, f, Dec)
      /\ \A k \in (w + 2)..Len(b) + 1 : b[w] = "." /\ DigitsAt(b, w + 1, k, Dec) => k <= f /\ f # w
      /\ Get(b, w) # "." => f = w
      /\ f # w => f = ScanDigitRun(b, w + 1, Dec)
  BY <1>4, FractionLongest
<1> HIDE DEF f
<1>6. f \in 1..Len(b) + 1 /\ f \in Nat
  BY <1>1, <1>4, <1>5
<1>7. /\ x \in f..Len(b) + 1 /\ (x # f => ExponentAt(b, f, x))
      /\ \A e \in f..Len(b) + 1 : ExponentAt(b, f, e) => e <= x
  BY <1>6, ExponentLongest
<1> HIDE DEF x
<1>8. x \in w..Len(b) + 1 /\ x \in Nat
  BY <1>1, <1>4, <1>5, <1>6, <1>7
<1>9. ASSUME x # w PROVE FloatAt(b, s, x)
  <2>1. w \in (s + 1)..x - 1
    BY <1>1, <1>2, <1>4, <1>8, <1>9
  <2>2. CASE f = w
    <3>1. ExponentAt(b, w, x)
      BY <1>7, <1>9, <2>2
    <3> QED BY <1>2, <2>1, <3>1 DEF FloatAt
  <2>3. CASE f # w
    <3>1. b[w] = "." /\ f \in (w + 2)..x /\ DigitsAt(b, w + 1, f, Dec)
      BY <1>1, <1>4, <1>5, <1>6, <1>7, <1>8, <2>3
    <3>2. f = x \/ ExponentAt(b, f, x)
      BY <1>7
    <3>3. FractionAt(b, w + 1, f, x)
      BY <3>1, <3>2 DEF FractionAt
    <3> QED BY <1>2, <2>1, <3>1, <3>3 DEF FloatAt
  <2> QED BY <2>2, <2>3
<1>10. ASSUME NEW e \in (s + 1)..Len(b) + 1, FloatAt(b, s, e) PROVE e <= x /\ e > w
  <2>1. PICK m \in (s + 1)..e - 1 : /\ DigitsAt(b, s, m, Dec)
                                    /\ ExponentAt(b, m, e) \/ (b[m] = "." /\ \E k \in (m + 2)..e : FractionAt(b, m + 1, k, e))
    BY <1>10 DEF FloatAt
  <2>2. b[m] \in {"e", "."}
    BY <2>1 DEF ExponentAt
  <2>3. m \in s..Len(b) /\ m \in 1..Len(b)
    BY <1>1
  <2>4. m = w
    BY <1>12, <2>1, <2>2, <2>3
  <2>5. w \in 1..Len(b) /\ Get(b, w) = b[w] /\ e > w /\ e \in Nat /\ e <= Len(b) + 1
    BY <1>0, <1>1, <2>3, <2>4
  <2>6. CASE ExponentAt(b, w, e)
    <3>1. b[w] = "e"
      BY <2>6 DEF ExponentAt
    <3>2. f = w
      BY <1>5, <2>5, <3>1
    <3>3. e \in w..Len(b) + 1
      BY <1>1, <2>5
    <3> QED BY <1>7, <2>5, <2>6, <3>2, <3>3
  <2>7. CASE b[w] = "." /\ \E k \in (w + 2)..e : FractionAt(b, w + 1, k, e)
    <3>1. PICK k \in (w + 2)..e : FractionAt(b, w + 1, k, e)
      BY <2>7
    <3>2. DigitsAt(b, w + 1, k, Dec) /\ (k = e \/ ExponentAt(b, k, e)) /\ k \in (w + 2)..Len(b) + 1 /\ k \in Nat
      BY <1>1, <1>4, <2>5, <3>1 DEF FractionAt
    <3>3. k <= f /\ f # w
      BY <1>5, <2>7, <3>2
    <3>4. CASE k = e
      <4>1. e <= x
        BY <1>1, <1>6, <1>7, <1>8, <3>2, <3>3, <3>4
      <4> QED BY <2>5, <4>1
    <3>5. CASE ExponentAt(b, k, e)
      <4> DEFINE q == w + 1
      <4>1. b[k] = "e" /\ k < e
        BY <3>5 DEF ExponentAt
      <4>2. DigitsAt(b, q, k, Dec) /\ b[q] \in Dec /\ f = ScanDigitRun(b, q, Dec)
        BY <1>5, <3>2, <3>3 DEF DigitsAt
      <4>3. q \in 1..Len(b) /\ k \in q..Len(b)
        BY <1>1, <1>4, <2>5, <3>2, <4>1
      <4> HIDE DEF q
      <4>4. k = f
        BY <4>1, <4>2, <4>3, DigitsStopAt
      <4>5. e \in f..Len(b) + 1
        BY <1>1, <1>6, <2>5, <4>1, <4>4
      <4>6. e <= x
        BY <1>7, <3>5, <4>4, <4>5
      <4> QED BY <2>5, <4>6
    <3> QED BY <3>2, <3>4, <3>5
  <2> QED BY <2>1, <2>4, <2>6, <2>7
<1>11. \A e \in (s + 1)..Len(b) + 1 : DigitsAt(b, s, e, Dec) => e <= w
  <2> SUFFICES ASSUME NEW e \in (s + 1)..Len(b) + 1, DigitsAt(b, s, e, Dec) PROVE e <= w
    OBVIOUS
  <2>1. e \in s..Len(b) + 1
    BY <1>1
  <2> QED BY <1>2, <2>1
<1> QED BY <1>2, <1>3, <1>8, <1>9, <1>10, <1>11 DEF w

\* The longest number is the one no other is longer than.
LEMMA NumberEndIs ==
  ASSUME NEW b \in Seq(SourceBytes), NEW s \in 1..Len(b), NEW e \in (s + 1)..Len(b) + 1,
         IntegerAt(b, s, e) \/ FloatAt(b, s, e),
         \A d \in (s + 1)..Len(b) + 1 : IntegerAt(b, s, d) \/ FloatAt(b, s, d) => d <= e
  PROVE  NumberEnd(b, s) = e
<1> DEFINE ends == {d \in s + 1 .. Len(b) + 1 : IsInteger(Slice(b, s, d)) \/ IsFloat(Slice(b, s, d))}
           Last(d) == \A c \in ends : c <= d
<1>1. Len(b) \in Nat /\ s \in Nat /\ s \in 1..Len(b) + 1
  <2>1. Len(b) \in Nat
    BY GetIs
  <2> QED BY <2>1
<1>2. \A d \in (s + 1)..Len(b) + 1 : d \in s..Len(b) + 1 /\ d \in Nat
  BY <1>1
<1>3. \A d \in (s + 1)..Len(b) + 1 : d \in ends <=> IntegerAt(b, s, d) \/ FloatAt(b, s, d)
  BY <1>1, <1>2, IntegerOfSlice, FloatOfSlice
<1>4. NumberEnd(b, s) = CHOOSE d \in ends : Last(d)
  BY DEF NumberEnd
<1>5. ends \subseteq (s + 1)..Len(b) + 1
  OBVIOUS
<1> HIDE DEF ends
<1>6. e \in ends /\ Last(e)
  BY <1>3, <1>5
<1>7. \A d \in ends : Last(d) => d = e
  BY <1>2, <1>5, <1>6
<1> HIDE DEF Last
<1>8. NumberEnd(b, s) \in ends /\ Last(NumberEnd(b, s))
  BY <1>4, <1>6
<1> QED BY <1>7, <1>8

\* What has a radix, and which digits.
LEMMA RadixIs ==
  ASSUME NEW b \in Seq(SourceBytes), NEW s \in 1..Len(b)
  PROVE  /\ RadixDigits(b, s) # {} => b[s] = "0" /\ s + 1 \in 1..Len(b) /\ <<b[s + 1], RadixDigits(b, s)>> \in Radices
         /\ \A r \in Radices : b[s] = "0" /\ s + 1 <= Len(b) /\ b[s + 1] = r[1] => RadixDigits(b, s) = r[2]
         /\ "none" \notin RadixDigits(b, s) /\ Underscore \notin RadixDigits(b, s)
         /\ \A r \in Radices : r[1] \in {"x", "o", "b"}
<1> DEFINE c == Get(b, s + 1)
           ok == RadixDigits(b, s)
<1>1. Len(b) \in Nat /\ s \in Nat /\ s + 1 \in Nat /\ s >= 1
  <2>1. Len(b) \in Nat
    BY GetIs
  <2> QED BY <2>1
<1>2. ok = IF b[s] # "0" THEN {} ELSE CASE c = "x" -> Hex [] c = "o" -> Oct [] c = "b" -> Bin [] OTHER -> {}
  BY DEF RadixDigits
<1>3. c # "none" => s + 1 \in 1..Len(b) /\ c = b[s + 1]
  <2>1. c # "none" => s + 1 <= Len(b)
    BY <1>1, GetIs
  <2>2. s + 1 <= Len(b) => s + 1 \in 1..Len(b)
    BY <1>1
  <2>3. s + 1 \in 1..Len(b) => c = b[s + 1]
    BY GetIs
  <2> HIDE DEF c
  <2> QED BY <2>1, <2>2, <2>3
<1>4. s + 1 <= Len(b) => c = b[s + 1]
  <2>1. s + 1 <= Len(b) => s + 1 \in 1..Len(b)
    BY <1>1
  <2> QED BY <2>1, GetIs
<1> HIDE DEF c, ok
<1>5. /\ ok # {} => b[s] = "0" /\ c \in {"x", "o", "b"} /\ (c = "x" => ok = Hex) /\ (c = "o" => ok = Oct) /\ (c = "b" => ok = Bin)
      /\ b[s] = "0" /\ c = "x" => ok = Hex
      /\ b[s] = "0" /\ c = "o" => ok = Oct
      /\ b[s] = "0" /\ c = "b" => ok = Bin
      /\ ok \in {{}, Hex, Oct, Bin}
  BY <1>2
<1>6. "none" \notin ok /\ Underscore \notin ok
  BY <1>5, NumberBytes
<1>7. ok # {} => <<c, ok>> \in Radices
  BY <1>5 DEF Radices
<1>8. ok # {} => b[s] = "0" /\ s + 1 \in 1..Len(b) /\ c = b[s + 1]
  BY <1>3, <1>5
<1>9. ASSUME NEW r \in Radices, b[s] = "0", s + 1 <= Len(b), b[s + 1] = r[1] PROVE ok = r[2]
  <2>1. c = r[1]
    BY <1>4, <1>9
  <2>2. r = <<"x", Hex>> \/ r = <<"o", Oct>> \/ r = <<"b", Bin>>
    BY DEF Radices
  <2> QED BY <1>5, <1>9, <2>1, <2>2
<1>10. \A r \in Radices : r[1] \in {"x", "o", "b"}
  BY DEF Radices
<1> QED BY <1>6, <1>7, <1>8, <1>9, <1>10 DEF ok

\* The letter of a radix tells which digits.
LEMMA RadixNamed ==
  ASSUME NEW b \in Seq(SourceBytes), NEW s \in 1..Len(b), NEW r \in Radices, b[s] = "0", s + 1 <= Len(b), b[s + 1] = r[1]
  PROVE  RadixDigits(b, s) = r[2]
<1> DEFINE t == <<b[s + 1], RadixDigits(b, s)>>
<1>1. /\ RadixDigits(b, s) # {} => b[s] = "0" /\ s + 1 \in 1..Len(b) /\ t \in Radices
      /\ \A x \in Radices : b[s] = "0" /\ s + 1 <= Len(b) /\ b[s + 1] = x[1] => RadixDigits(b, s) = x[2]
  BY RadixIs
<1> HIDE DEF t
<1> QED BY <1>1

\* A number with a radix: where its digits end, and it is no float.
LEMMA RadixNumber ==
  ASSUME NEW b \in Seq(SourceBytes), NEW s \in 1..Len(b), b[s] \in Dec, Get(b, s + 2) \in RadixDigits(b, s)
  PROVE  /\ ScanDigitRun(b, s + 2, RadixDigits(b, s)) \in (s + 3)..Len(b) + 1
         /\ NumberEnd(b, s) = ScanDigitRun(b, s + 2, RadixDigits(b, s))
         /\ ~IsFloat(Slice(b, s, ScanDigitRun(b, s + 2, RadixDigits(b, s))))
<1> DEFINE ok == RadixDigits(b, s)
           q == s + 2
           r == ScanDigitRun(b, q, ok)
<1>1. Len(b) \in Nat /\ s \in Nat /\ s \in 1..Len(b) + 1 /\ q \in Nat /\ q >= 1 /\ s + 1 <= q
  <2>1. Len(b) \in Nat
    BY GetIs
  <2> QED BY <2>1
<1>2. /\ b[s] = "0" /\ s + 1 \in 1..Len(b) /\ <<b[s + 1], ok>> \in Radices
      /\ \A x \in Radices : b[s + 1] = x[1] => ok = x[2]
      /\ "none" \notin ok /\ Underscore \notin ok /\ b[s + 1] \in {"x", "o", "b"}
  <2>1. ok # {}
    OBVIOUS
  <2> DEFINE t == <<b[s + 1], ok>>
  <2>2. /\ b[s] = "0" /\ s + 1 \in 1..Len(b) /\ t \in Radices
        /\ \A x \in Radices : b[s] = "0" /\ s + 1 <= Len(b) /\ b[s + 1] = x[1] => ok = x[2]
        /\ "none" \notin ok /\ Underscore \notin ok
        /\ \A x \in Radices : x[1] \in {"x", "o", "b"}
    BY <2>1, RadixIs
  <2>3. t[1] = b[s + 1]
    OBVIOUS
  <2>4. s + 1 <= Len(b)
    BY <1>1, <2>2
  <2> HIDE DEF ok, t, q, r
  <2>5. b[s + 1] \in {"x", "o", "b"}
    BY <2>2, <2>3
  <2> QED BY <2>2, <2>4, <2>5 DEF t
<1>3. q \in 1..Len(b) /\ b[q] \in ok
  <2>1. Get(b, q) \in ok
    OBVIOUS
  <2> HIDE DEF q, ok, r
  <2>2. q <= Len(b)
    BY <1>1, <1>2, <2>1, Inside
  <2>3. q \in 1..Len(b)
    BY <1>1, <2>2
  <2> QED BY <2>1, <2>3, GetIs
<1> HIDE DEF ok
<1>4. r \in (q + 1)..Len(b) + 1 /\ DigitsAt(b, q, r, ok) /\ \A e \in q..Len(b) + 1 : DigitsAt(b, q, e, ok) => e <= r
  <2> HIDE DEF q
  <2> QED BY <1>2, <1>3, DigitsLongest
<1> HIDE DEF r
<1>5. r \in (s + 3)..Len(b) + 1 /\ r \in (s + 1)..Len(b) + 1 /\ r \in s..Len(b) + 1 /\ r \in Nat /\ r - s > 2
  BY <1>1, <1>4
<1>6. IntegerAt(b, s, r)
  <2> DEFINE t == <<b[s + 1], ok>>
  <2>1. t \in Radices /\ b[s + 1] = t[1] /\ DigitsAt(b, s + 2, r, t[2])
    BY <1>2, <1>4
  <2> HIDE DEF t
  <2> QED BY <1>2, <1>5, <2>1 DEF IntegerAt
<1>7. ASSUME NEW e \in (s + 1)..Len(b) + 1, DigitsAt(b, s, e, Dec) PROVE e = s + 1
  <2>1. CASE e > s + 1
    <3>1. s + 1 \in s..e - 1
      BY <1>1, <2>1
    <3>2. b[s + 1] \in Dec \cup {Underscore}
      BY <1>7, <3>1 DEF DigitsAt, RunAt
    <3> QED BY <1>2, <3>2, NumberBytes
  <2> QED BY <1>1, <2>1
<1>8. ASSUME NEW e \in (s + 1)..Len(b) + 1, FloatAt(b, s, e) PROVE FALSE
  <2>1. PICK m \in (s + 1)..e - 1 : DigitsAt(b, s, m, Dec) /\ b[m] \in {"e", "."}
    BY <1>8 DEF FloatAt, ExponentAt
  <2>2. m \in (s + 1)..Len(b) + 1
    BY <1>1
  <2>3. m = s + 1
    BY <1>7, <2>1, <2>2
  <2> QED BY <1>2, <2>1, <2>3
<1>9. ASSUME NEW e \in (s + 1)..Len(b) + 1, IntegerAt(b, s, e) PROVE e <= r
  <2>1. CASE DigitsAt(b, s, e, Dec)
    BY <1>1, <1>5, <1>7, <2>1
  <2>2. CASE \E x \in Radices : b[s + 1] = x[1] /\ DigitsAt(b, s + 2, e, x[2])
    <3>1. PICK x \in Radices : b[s + 1] = x[1] /\ DigitsAt(b, q, e, x[2])
      BY <2>2
    <3>2. DigitsAt(b, q, e, ok)
      BY <1>2, <3>1
    <3>3. e > q
      BY <3>2 DEF DigitsAt
    <3>4. e \in q..Len(b) + 1
      BY <1>1, <3>3
    <3> QED BY <1>4, <3>2, <3>4
  <2> QED BY <1>9, <2>1, <2>2 DEF IntegerAt
<1>10. NumberEnd(b, s) = r
  BY <1>5, <1>6, <1>8, <1>9, NumberEndIs
<1>11. ~IsFloat(Slice(b, s, r))
  BY <1>1, <1>5, <1>8, FloatOfSlice
<1> QED BY <1>5, <1>10, <1>11 DEF r, q, ok

\* A number without: its end is the longest number's, and behind its digits it is a float.
LEMMA DecimalNumber ==
  ASSUME NEW b \in Seq(SourceBytes), NEW s \in 1..Len(b), b[s] \in Dec, Get(b, s + 2) \notin RadixDigits(b, s)
  PROVE  /\ DecimalEnd(b, s) \in (s + 1)..Len(b) + 1
         /\ NumberEnd(b, s) = DecimalEnd(b, s)
         /\ DecimalEnd(b, s) # ScanDigitRun(b, s, Dec) <=> IsFloat(Slice(b, s, DecimalEnd(b, s)))
<1> DEFINE w == ScanDigitRun(b, s, Dec)
           x == DecimalEnd(b, s)
<1>1. Len(b) \in Nat /\ s \in Nat /\ s \in 1..Len(b) + 1 /\ s >= 1
  <2>1. Len(b) \in Nat
    BY GetIs
  <2> QED BY <2>1
<1>2. /\ w \in (s + 1)..Len(b) + 1 /\ x \in w..Len(b) + 1 /\ DigitsAt(b, s, w, Dec)
      /\ \A e \in (s + 1)..Len(b) + 1 : DigitsAt(b, s, e, Dec) => e <= w
      /\ x # w => FloatAt(b, s, x)
      /\ \A e \in (s + 1)..Len(b) + 1 : FloatAt(b, s, e) => e <= x /\ e > w
  BY DecimalLongest
<1> HIDE DEF w, x
<1>3. x \in (s + 1)..Len(b) + 1 /\ x \in s..Len(b) + 1 /\ x \in Nat /\ w \in Nat /\ w <= x
  BY <1>1, <1>2
<1>4. IntegerAt(b, s, x) \/ FloatAt(b, s, x)
  BY <1>2 DEF IntegerAt
<1>5. ASSUME NEW e \in (s + 1)..Len(b) + 1, IntegerAt(b, s, e) PROVE e <= x
  <2>1. CASE DigitsAt(b, s, e, Dec)
    <3>1. e <= w /\ e \in Nat
      BY <1>1, <1>2, <2>1
    <3> QED BY <1>3, <3>1
  <2>2. CASE e - s > 2 /\ b[s] = "0" /\ \E r \in Radices : b[s + 1] = r[1] /\ DigitsAt(b, s + 2, e, r[2])
    <3>1. PICK r \in Radices : b[s + 1] = r[1] /\ DigitsAt(b, s + 2, e, r[2])
      BY <2>2
    <3>2. s + 1 <= Len(b) /\ s + 2 \in 1..Len(b)
      BY <1>1, <2>2
    <3>3. RadixDigits(b, s) = r[2]
      BY <2>2, <3>1, <3>2, RadixNamed
    <3>4. b[s + 2] \in r[2] /\ Get(b, s + 2) = b[s + 2]
      BY <3>1, <3>2, GetIs DEF DigitsAt
    <3> QED BY <3>3, <3>4
  <2> QED BY <1>5, <2>1, <2>2 DEF IntegerAt
<1>6. NumberEnd(b, s) = x
  BY <1>2, <1>3, <1>4, <1>5, NumberEndIs
<1>7. IsFloat(Slice(b, s, x)) <=> FloatAt(b, s, x)
  BY <1>1, <1>3, FloatOfSlice
<1>8. x # w <=> FloatAt(b, s, x)
  <2>1. ASSUME FloatAt(b, s, x) PROVE x # w
    <3>1. x > w
      BY <1>2, <1>3, <2>1
    <3> QED BY <1>3, <3>1
  <2> QED BY <1>2, <2>1
<1> QED BY <1>3, <1>6, <1>7, <1>8 DEF x, w

-----------------------------------------------------------------------------
(* Comments and strings.                                                   *)

\* One turn of the loop of lex_block_comment goes on, and reaches depth zero only by `*/`.
LEMMA BlockStepIs ==
  ASSUME NEW b \in Seq(SourceBytes), NEW q \in 1..Len(b), NEW d \in Nat, d > 0
  PROVE  /\ BlockStep(b, <<q, d>>)[1] \in (q + 1)..Len(b) + 1 /\ BlockStep(b, <<q, d>>)[2] \in Nat
         /\ BlockStep(b, <<q, d>>) = <<BlockStep(b, <<q, d>>)[1], BlockStep(b, <<q, d>>)[2]>>
         /\ BlockStep(b, <<q, d>>)[2] = 0 =>
                Get(b, q) = "*" /\ Get(b, q + 1) = "/" /\ BlockStep(b, <<q, d>>)[1] = q + 2
<1> DEFINE opens == Get(b, q) = "/" /\ Get(b, q + 1) = "*"
           closes == Get(b, q) = "*" /\ Get(b, q + 1) = "/"
<1>1. BlockStep(b, <<q, d>>) = IF opens THEN <<q + 2, d + 1>> ELSE IF closes THEN <<q + 2, d - 1>> ELSE <<q + 1, d>>
  BY DEF BlockStep
<1>2. q \in Nat /\ q + 1 \in Nat /\ Len(b) \in Nat /\ q >= 1 /\ q <= Len(b)
  OBVIOUS
<1>3. opens \/ closes => q + 1 <= Len(b)
  <2>1. opens \/ closes => Get(b, q + 1) # "none"
    OBVIOUS
  <2> HIDE DEF opens, closes
  <2> QED BY <1>2, <2>1, GetIs
<1>4. closes => Get(b, q) = "*" /\ Get(b, q + 1) = "/"
  OBVIOUS
<1> HIDE DEF opens, closes
<1>5. CASE opens
  <2>1. BlockStep(b, <<q, d>>) = <<q + 2, d + 1>>
    BY <1>1, <1>5
  <2> QED BY <1>2, <1>3, <1>5, <2>1
<1>6. CASE ~opens /\ closes
  <2>1. BlockStep(b, <<q, d>>) = <<q + 2, d - 1>>
    BY <1>1, <1>6
  <2> QED BY <1>2, <1>3, <1>4, <1>6, <2>1
<1>7. CASE ~opens /\ ~closes
  <2>1. BlockStep(b, <<q, d>>) = <<q + 1, d>>
    BY <1>1, <1>7
  <2> QED BY <1>2, <1>7, <2>1
<1> QED BY <1>5, <1>6, <1>7

\* lex_block_comment ends inside the source; where it ends at depth zero, `*/` is right before.
LEMMA BlockScanIs ==
  ASSUME NEW b \in Seq(SourceBytes), NEW pos \in 1..Len(b) + 1, NEW d \in Nat
  PROVE  /\ BlockScan(b)[<<pos, d>>].pos \in pos..Len(b) + 1
         /\ BlockScan(b)[<<pos, d>>].ended /\ d > 0 =>
                /\ BlockScan(b)[<<pos, d>>].pos >= pos + 2
                /\ Get(b, BlockScan(b)[<<pos, d>>].pos - 2) = "*" /\ Get(b, BlockScan(b)[<<pos, d>>].pos - 1) = "/"
<1> DEFINE n == Len(b)
           S == (1..n + 1) \X Nat
           Ends(p) == p[2] = 0 \/ p[1] > n
           stop == {p \in S : Ends(p)}
           next == [p \in S \ stop |-> BlockStep(b, p)]
           rank == [p \in S |-> n + 1 - p[1]]
           V == [pos : 1..n + 1, ended : BOOLEAN]
           base == [p \in stop |-> [pos |-> p[1], ended |-> p[2] = 0]]
           Same(f) == f = [p \in S |-> IF Ends(p) THEN [pos |-> p[1], ended |-> p[2] = 0] ELSE f[BlockStep(b, p)]]
<1>1. n \in Nat
  OBVIOUS
<1>2. \A p \in S : p = <<p[1], p[2]>> /\ p[1] \in 1..n + 1 /\ p[2] \in Nat
  OBVIOUS
<1>3. ASSUME NEW p \in S, ~Ends(p)
      PROVE  /\ BlockStep(b, p) \in S /\ BlockStep(b, p)[1] > p[1]
             /\ BlockStep(b, p)[2] = 0 => Get(b, p[1]) = "*" /\ Get(b, p[1] + 1) = "/" /\ BlockStep(b, p)[1] = p[1] + 2
  <2>1. p[1] \in 1..n /\ p[2] \in Nat /\ p[2] > 0
    BY <1>1, <1>2, <1>3
  <2>2. /\ BlockStep(b, p)[1] \in (p[1] + 1)..n + 1 /\ BlockStep(b, p)[2] \in Nat
        /\ BlockStep(b, p) = <<BlockStep(b, p)[1], BlockStep(b, p)[2]>>
        /\ BlockStep(b, p)[2] = 0 => Get(b, p[1]) = "*" /\ Get(b, p[1] + 1) = "/" /\ BlockStep(b, p)[1] = p[1] + 2
    BY <1>2, <2>1, BlockStepIs
  <2> DEFINE t == BlockStep(b, p)
  <2> HIDE DEF n, t
  <2>3. t[1] \in 1..n + 1 /\ t[1] > p[1]
    BY <1>1, <2>1, <2>2 DEF t
  <2> QED BY <2>2, <2>3 DEF t
<1> HIDE DEF n
<1>4. Descends(S, stop, next, rank, n)
  <2>1. \A p \in S \ stop : next[p] = BlockStep(b, p) /\ BlockStep(b, p) \in S /\ BlockStep(b, p)[1] > p[1]
    BY <1>3
  <2>2. rank \in [S -> 0..n]
    BY <1>1, <1>2
  <2>3. ASSUME NEW p \in S \ stop PROVE rank[next[p]] < rank[p]
    <3> DEFINE t == BlockStep(b, p)
    <3>1. next[p] = t /\ t \in S /\ t[1] > p[1]
      BY <2>1
    <3> HIDE DEF t
    <3>2. rank[t] = n + 1 - t[1] /\ rank[p] = n + 1 - p[1]
      BY <3>1
    <3> QED BY <1>1, <1>2, <3>1, <3>2
  <2>4. next \in [S \ stop -> S] /\ stop \subseteq S
    <3> HIDE DEF S
    <3> QED BY <2>1
  <2> HIDE DEF S, stop, next, rank
  <2> QED BY <1>1, <2>2, <2>3, <2>4 DEF Descends
<1>5. base \in [stop -> V] /\ V # {}
  <2>1. \A p \in stop : [pos |-> p[1], ended |-> p[2] = 0] \in V
    <3> SUFFICES ASSUME NEW p \in stop PROVE [pos |-> p[1], ended |-> p[2] = 0] \in V
      OBVIOUS
    <3>1. p[1] \in 1..n + 1 /\ (p[2] = 0) \in BOOLEAN
      BY <1>2
    <3> QED BY <3>1
  <2>2. [pos |-> 1, ended |-> TRUE] \in V
    BY <1>1
  <2> HIDE DEF S, V, stop
  <2> QED BY <2>1, <2>2
<1>6. PICK f \in [S -> V] : Loops(f, S, stop, base, next)
  <2> HIDE DEF S, stop, next, rank, base, V
  <2> QED BY <1>4, <1>5, LoopExists
<1>7. Same(f)
  <2>1. \A p \in S : f[p] = IF Ends(p) THEN [pos |-> p[1], ended |-> p[2] = 0] ELSE f[BlockStep(b, p)]
    <3> SUFFICES ASSUME NEW p \in S PROVE f[p] = IF Ends(p) THEN [pos |-> p[1], ended |-> p[2] = 0] ELSE f[BlockStep(b, p)]
      OBVIOUS
    <3>1. CASE Ends(p)
      BY <1>6, <3>1 DEF Loops
    <3>2. CASE ~Ends(p)
      BY <1>6, <3>2 DEF Loops
    <3> QED BY <3>1, <3>2
  <2>2. f = [p \in S |-> f[p]]
    BY <1>6
  <2> HIDE DEF S, Ends
  <2> QED BY <2>1, <2>2
<1>8. BlockScan(b) = CHOOSE g : Same(g)
  BY DEF BlockScan, n
<1> HIDE DEF Same
<1>9. Same(BlockScan(b))
  BY <1>7, <1>8
<1> DEFINE r == BlockScan(b)
<1>10. \A p \in S : r[p] = IF Ends(p) THEN [pos |-> p[1], ended |-> p[2] = 0] ELSE r[BlockStep(b, p)]
  <2>1. r = [p \in S |-> IF Ends(p) THEN [pos |-> p[1], ended |-> p[2] = 0] ELSE r[BlockStep(b, p)]]
    BY <1>9 DEF Same
  <2> HIDE DEF r, S, Ends
  <2> QED BY <2>1
<1> HIDE DEF r
<1> DEFINE Right(p, v) == /\ v.pos \in p[1]..n + 1
                          /\ v.ended /\ p[2] > 0 => /\ v.pos >= p[1] + 2 /\ Get(b, v.pos - 2) = "*" /\ Get(b, v.pos - 1) = "/"
           T == {p \in S : Right(p, r[p])}
<1>11. ASSUME NEW p \in stop PROVE p \in T
  <2>1. p \in S /\ Ends(p) /\ r[p] = [pos |-> p[1], ended |-> p[2] = 0]
    BY <1>10
  <2>2. p[1] \in p[1]..n + 1 /\ ~(p[2] = 0 /\ p[2] > 0)
    BY <1>1, <1>2, <2>1
  <2>3. r[p].pos = p[1] /\ r[p].ended = (p[2] = 0)
    BY <2>1
  <2>4. Right(p, r[p])
    <3> DEFINE v == r[p]
    <3>1. v.pos \in p[1]..n + 1 /\ ~(v.ended /\ p[2] > 0)
      BY <2>2, <2>3
    <3> HIDE DEF v
    <3>2. Right(p, v)
      BY <3>1
    <3> QED BY <3>2 DEF v
  <2> QED BY <2>1, <2>4
<1>12. ASSUME NEW p \in S \ stop, next[p] \in T PROVE p \in T
  <2> DEFINE t == BlockStep(b, p)
             v == r[t]
  <2>1. next[p] = t /\ r[p] = v /\ Right(t, v) /\ p \in S /\ t \in S
    BY <1>3, <1>10, <1>12
  <2>2. t[1] > p[1] /\ (t[2] = 0 => Get(b, p[1]) = "*" /\ Get(b, p[1] + 1) = "/" /\ t[1] = p[1] + 2)
    BY <1>3
  <2>3. t[2] = 0 => v = [pos |-> t[1], ended |-> TRUE]
    BY <1>10, <2>1
  <2> HIDE DEF t, v
  <2>0. v.pos \in t[1]..n + 1
    BY <2>1
  <2>4. p[1] \in Nat /\ t[1] \in Nat /\ t[2] \in Nat /\ v.pos \in Nat
    <3>1. p[1] \in 1..n + 1 /\ t[1] \in 1..n + 1 /\ t[2] \in Nat
      BY <1>2, <2>1
    <3> HIDE DEF S, stop
    <3> QED BY <1>1, <2>0, <3>1
  <2>5. v.pos \in p[1]..n + 1
    <3> HIDE DEF S, stop
    <3> QED BY <1>1, <2>0, <2>2, <2>4
  <2>6. ASSUME v.ended PROVE v.pos >= p[1] + 2 /\ Get(b, v.pos - 2) = "*" /\ Get(b, v.pos - 1) = "/"
    <3>1. CASE t[2] = 0
      <4>0. v.pos = t[1] /\ t[1] = p[1] + 2
        BY <2>2, <2>3, <3>1
      <4> DEFINE from == p[1]
                 to == v.pos
      <4>2. from \in Nat /\ to = from + 2
        BY <2>4, <4>0
      <4> HIDE DEF from, to
      <4>3. to = from + 2 /\ to - 2 = from /\ to - 1 = from + 1
        BY ONLY <4>2
      <4>1. v.pos = p[1] + 2 /\ v.pos - 2 = p[1] /\ v.pos - 1 = p[1] + 1
        BY ONLY <4>3 DEF from, to
      <4> QED BY <2>2, <2>4, <3>1, <4>1
    <3>2. CASE t[2] > 0
      <4>1. v.pos >= t[1] + 2 /\ Get(b, v.pos - 2) = "*" /\ Get(b, v.pos - 1) = "/"
        BY <2>1, <2>6, <3>2
      <4> DEFINE from == p[1]
                 on == t[1]
                 to == v.pos
      <4>2. from \in Nat /\ on \in Nat /\ to \in Nat /\ on > from /\ to >= on + 2
        BY <2>2, <2>4, <4>1
      <4> HIDE DEF from, on, to
      <4>3. to >= from + 2
        BY ONLY <4>2
      <4> QED BY <4>1, <4>3 DEF from, to
    <3> QED BY <2>4, <3>1, <3>2
  <2>7. Right(p, v)
    BY <2>5, <2>6
  <2> HIDE DEF Right
  <2> QED BY <2>1, <2>7
<1>13. S \subseteq T
  <2> HIDE DEF S, T, stop, next, rank
  <2> QED BY <1>4, <1>11, <1>12, RankInduct
<1>14. Right(<<pos, d>>, r[<<pos, d>>])
  <2>1. <<pos, d>> \in S
    BY DEF n
  <2> HIDE DEF Right, S
  <2> QED BY <1>13, <2>1
<1> QED BY <1>14 DEF r, n

\* An escape takes the backslash at least, and two bytes if it is one, and stays inside the source.
LEMMA EscapeIs ==
  ASSUME NEW b \in Seq(SourceBytes), NEW q \in 1..Len(b)
  PROVE  /\ Escape(b, q).next \in (q + 1)..Len(b) + 1 /\ Escape(b, q).ok \in BOOLEAN
         /\ Escape(b, q).ok => Escape(b, q).next >= q + 2
<1> DEFINE n == Len(b)
           e == RunEnd(b, q + 3, Hex)
           hex == Get(b, q + 2) \in Hex /\ Get(b, q + 3) \in Hex
           code == e > q + 3 /\ Get(b, e) = "}"
           short == [next |-> IF q + 1 <= n THEN q + 2 ELSE q + 1, ok |-> FALSE]
           c == Get(b, q + 1)
           brace == c = "u" /\ Get(b, q + 2) = "{"
<1>1. n \in Nat /\ q \in Nat /\ q >= 1 /\ q <= n
  OBVIOUS
<1>2. \A p \in Nat : Get(b, p) # "none" => p <= n
  BY GetIs
<1>3. "none" \notin Hex
  BY DEF Hex, Dec
<1>4. c \in {"n", "0", "bs", "quote", "x", "u"} => q + 1 <= n
  <2>1. c \in {"n", "0", "bs", "quote", "x", "u"} => c # "none"
    OBVIOUS
  <2>2. q + 1 \in Nat
    BY <1>1
  <2> QED BY <1>2, <2>1, <2>2
<1>5. hex => q + 3 <= n
  <2>1. q + 3 \in Nat
    BY <1>1
  <2>2. hex => Get(b, q + 3) # "none"
    BY <1>3
  <2> QED BY <1>2, <2>1, <2>2
<1>6. Get(b, q + 2) = "{" => q + 2 <= n
  <2>1. q + 2 \in Nat
    BY <1>1
  <2> QED BY <1>2, <2>1
<1>7. q + 2 <= n => e \in (q + 3)..n + 1
  <2>1. q + 2 <= n => q + 3 \in 1..n + 1
    BY <1>1
  <2> QED BY <1>3, <2>1, RunEndIs
<1>8. q + 2 <= n /\ Get(b, e) = "}" => e <= n
  <2>1. q + 2 <= n => e \in Nat
    BY <1>1, <1>7
  <2> QED BY <1>2, <2>1
<1>9. Escape(b, q) = CASE c \in {"n", "0", "bs", "quote"} -> [next |-> q + 2, ok |-> TRUE]
                       [] c = "x" -> IF hex THEN [next |-> q + 4, ok |-> TRUE] ELSE [next |-> q + 2, ok |-> FALSE]
                       [] brace -> IF code THEN [next |-> e + 1, ok |-> TRUE] ELSE [next |-> e, ok |-> FALSE]
                       [] OTHER -> short
  BY DEF Escape
<1> HIDE DEF n, e, hex, code, c
<1>10. CASE c \in {"n", "0", "bs", "quote"}
  <2>1. Escape(b, q) = [next |-> q + 2, ok |-> TRUE]
    BY <1>9, <1>10
  <2> QED BY <1>1, <1>4, <1>10, <2>1 DEF n
<1>11. CASE c = "x"
  <2>1. Escape(b, q) = IF hex THEN [next |-> q + 4, ok |-> TRUE] ELSE [next |-> q + 2, ok |-> FALSE]
    BY <1>9, <1>11
  <2>2. q + 1 <= n
    BY <1>4, <1>11
  <2> QED BY <1>1, <1>5, <2>1, <2>2 DEF n
<1>12. CASE brace
  <2>1. Escape(b, q) = IF code THEN [next |-> e + 1, ok |-> TRUE] ELSE [next |-> e, ok |-> FALSE]
    BY <1>9, <1>12
  <2>2. q + 2 <= n
    BY <1>6, <1>12
  <2>3. e \in (q + 3)..n + 1 /\ (code => e <= n)
    BY <1>7, <1>8, <2>2 DEF code
  <2> QED BY <1>1, <2>1, <2>2, <2>3 DEF n
<1>13. CASE c \notin {"n", "0", "bs", "quote"} /\ c # "x" /\ ~brace
  <2>1. Escape(b, q) = short
    BY <1>9, <1>13
  <2> QED BY <1>1, <2>1 DEF n
<1> QED BY <1>10, <1>11, <1>12, <1>13

\* lex_string ends inside the source; where it says it ended, a quote is right before; a bad
\* escape stays one; and one turn of it.
LEMMA StringScanIs ==
  ASSUME NEW b \in Seq(SourceBytes), NEW pos \in 1..Len(b) + 1, NEW bad \in BOOLEAN
  PROVE  /\ StringScan(b)[<<pos, bad>>].pos \in pos..Len(b) + 1
         /\ StringScan(b)[<<pos, bad>>].ended \in BOOLEAN /\ StringScan(b)[<<pos, bad>>].bad \in BOOLEAN
         /\ StringScan(b)[<<pos, bad>>].ended =>
                /\ StringScan(b)[<<pos, bad>>].pos > pos
                /\ Get(b, StringScan(b)[<<pos, bad>>].pos - 1) = "quote"
         /\ bad => StringScan(b)[<<pos, bad>>].bad
         /\ StringScan(b)[<<pos, bad>>] =
              IF Get(b, pos) \in {"none", "nl"} THEN [pos |-> pos, ended |-> FALSE, bad |-> bad]
              ELSE IF Get(b, pos) = "quote" THEN [pos |-> pos + 1, ended |-> TRUE, bad |-> bad]
              ELSE StringScan(b)[StringStep(b, <<pos, bad>>)]
<1> DEFINE n == Len(b)
           S == (1..n + 1) \X BOOLEAN
           Cut(p) == Get(b, p[1]) \in {"none", "nl"}
           Shut(p) == Get(b, p[1]) = "quote"
           Ends(p) == Cut(p) \/ Shut(p)
           Last(p) == IF Cut(p) THEN [pos |-> p[1], ended |-> FALSE, bad |-> p[2]] ELSE [pos |-> p[1] + 1, ended |-> TRUE, bad |-> p[2]]
           stop == {p \in S : Ends(p)}
           next == [p \in S \ stop |-> StringStep(b, p)]
           rank == [p \in S |-> n + 1 - p[1]]
           V == [pos : 1..n + 1, ended : BOOLEAN, bad : BOOLEAN]
           base == [p \in stop |-> Last(p)]
           Val(f, p) == IF Cut(p) THEN [pos |-> p[1], ended |-> FALSE, bad |-> p[2]]
                        ELSE IF Shut(p) THEN [pos |-> p[1] + 1, ended |-> TRUE, bad |-> p[2]]
                        ELSE f[StringStep(b, p)]
           Same(f) == f = [p \in S |-> Val(f, p)]
<1>1. n \in Nat
  OBVIOUS
<1>2. \A p \in S : p = <<p[1], p[2]>> /\ p[1] \in 1..n + 1 /\ p[2] \in BOOLEAN
  OBVIOUS
<1>3. \A p \in S : ~Cut(p) => p[1] \in 1..n
  <2> SUFFICES ASSUME NEW p \in S, ~Cut(p) PROVE p[1] \in 1..n
    OBVIOUS
  <2>1. p[1] \in Nat /\ p[1] >= 1 /\ Get(b, p[1]) # "none"
    BY <1>1, <1>2
  <2>2. p[1] <= n
    BY <2>1, GetIs
  <2> QED BY <1>1, <2>1, <2>2
<1>4. ASSUME NEW p \in S, ~Ends(p)
      PROVE  StringStep(b, p) \in S /\ StringStep(b, p)[1] > p[1] /\ (p[2] => StringStep(b, p)[2])
  <2>1. p[1] \in 1..n /\ p[2] \in BOOLEAN
    BY <1>2, <1>3, <1>4
  <2>2. Escape(b, p[1]).next \in (p[1] + 1)..n + 1 /\ Escape(b, p[1]).ok \in BOOLEAN
    BY <2>1, EscapeIs
  <2> DEFINE x == Escape(b, p[1]).next
             y == p[2] \/ ~Escape(b, p[1]).ok
             t == StringStep(b, p)
  <2>3. x \in (p[1] + 1)..n + 1 /\ y \in BOOLEAN
    BY <2>2
  <2>7. p[2] => y
    OBVIOUS
  <2>4. t = IF Get(b, p[1]) = "bs" THEN <<x, y>> ELSE <<p[1] + 1, p[2]>>
    BY DEF StringStep
  <2> HIDE DEF n, x, y, t
  <2>5. CASE Get(b, p[1]) = "bs"
    <3>1. t = <<x, y>> /\ x \in 1..n + 1 /\ x > p[1]
      BY <1>1, <2>1, <2>3, <2>4, <2>5
    <3>2. t[1] = x /\ t[2] = y /\ t \in S
      BY <2>3, <3>1
    <3> QED BY <2>7, <3>1, <3>2 DEF t
  <2>6. CASE Get(b, p[1]) # "bs"
    <3>1. t = <<p[1] + 1, p[2]>> /\ p[1] + 1 \in 1..n + 1 /\ p[1] + 1 > p[1]
      BY <1>1, <2>1, <2>4, <2>6
    <3> QED BY <2>1, <3>1 DEF t
  <2> QED BY <2>5, <2>6
<1>5. ASSUME NEW p \in S, Ends(p)
      PROVE  /\ Last(p).pos \in p[1]..n + 1 /\ Last(p).ended \in BOOLEAN /\ Last(p).bad \in BOOLEAN /\ Last(p) \in V
             /\ Last(p).ended => Last(p).pos > p[1] /\ Get(b, Last(p).pos - 1) = "quote"
             /\ p[2] => Last(p).bad
  <2>1. CASE Cut(p)
    <3>1. Last(p) = [pos |-> p[1], ended |-> FALSE, bad |-> p[2]]
      BY <2>1
    <3> HIDE DEF n, Last, Cut, Shut
    <3> QED BY <1>1, <1>2, <3>1
  <2>2. CASE ~Cut(p)
    <3>1. Last(p) = [pos |-> p[1] + 1, ended |-> TRUE, bad |-> p[2]]
      BY <2>2
    <3>2. p[1] \in 1..n /\ p[2] \in BOOLEAN
      BY <1>2, <1>3, <2>2
    <3>3. Get(b, p[1]) = "quote"
      BY <1>5, <2>2
    <3> DEFINE q == p[1]
               c == p[2]
               v == Last(p)
    <3>4. q \in 1..n /\ c \in BOOLEAN /\ v = [pos |-> q + 1, ended |-> TRUE, bad |-> c] /\ Get(b, q) = "quote"
      BY <3>1, <3>2, <3>3
    <3> HIDE DEF n, Last, Cut, Shut, q, c, v
    <3>5. q + 1 \in 1..n + 1 /\ q + 1 \in q..n + 1 /\ q + 1 > q /\ (q + 1) - 1 = q
      BY <1>1, <3>4
    <3>6. v.pos = q + 1 /\ v.ended = TRUE /\ v.bad = c
      BY <3>4
    <3>7. v \in V
      BY <3>4, <3>5
    <3>8. v.pos - 1 = q
      BY <3>5, <3>6
    <3> HIDE DEF V
    <3>9. /\ v.pos \in q..n + 1 /\ v.ended \in BOOLEAN /\ v.bad \in BOOLEAN /\ v \in V
          /\ v.ended => v.pos > q /\ Get(b, v.pos - 1) = "quote"
          /\ c => v.bad
      BY <3>4, <3>5, <3>6, <3>7, <3>8
    <3> QED BY <3>9 DEF v, q, c
  <2> QED BY <2>1, <2>2
<1> HIDE DEF n
<1>6. Descends(S, stop, next, rank, n)
  <2>1. \A p \in S \ stop : next[p] = StringStep(b, p) /\ StringStep(b, p) \in S /\ StringStep(b, p)[1] > p[1]
    BY <1>4
  <2>2. rank \in [S -> 0..n]
    BY <1>1, <1>2
  <2>3. ASSUME NEW p \in S \ stop PROVE rank[next[p]] < rank[p]
    <3> DEFINE t == StringStep(b, p)
    <3>1. next[p] = t /\ t \in S /\ t[1] > p[1]
      BY <2>1
    <3> HIDE DEF t
    <3>2. rank[t] = n + 1 - t[1] /\ rank[p] = n + 1 - p[1]
      BY <3>1
    <3> QED BY <1>1, <1>2, <3>1, <3>2
  <2>4. next \in [S \ stop -> S] /\ stop \subseteq S
    <3> HIDE DEF S, Ends
    <3> QED BY <2>1
  <2> HIDE DEF S, stop, next, rank
  <2> QED BY <1>1, <2>2, <2>3, <2>4 DEF Descends
<1>7. base \in [stop -> V] /\ V # {}
  <2>1. \A p \in stop : Last(p) \in V
    BY <1>5
  <2>2. [pos |-> 1, ended |-> TRUE, bad |-> TRUE] \in V
    BY <1>1
  <2> HIDE DEF S, V, stop, Last
  <2> QED BY <2>1, <2>2
<1>8. PICK f \in [S -> V] : Loops(f, S, stop, base, next)
  <2> HIDE DEF S, stop, next, rank, base, V
  <2> QED BY <1>6, <1>7, LoopExists
<1>9. Same(f)
  <2>1. \A p \in S : f[p] = Val(f, p)
    <3> SUFFICES ASSUME NEW p \in S PROVE f[p] = Val(f, p)
      OBVIOUS
    <3>1. CASE Ends(p)
      <4>1. p \in stop /\ base[p] = Last(p) /\ f[p] = base[p]
        BY <1>8, <3>1 DEF Loops
      <4>2. Val(f, p) = Last(p)
        BY <3>1
      <4> QED BY <4>1, <4>2
    <3>2. CASE ~Ends(p)
      <4>1. p \notin stop /\ next[p] = StringStep(b, p) /\ f[p] = f[next[p]]
        BY <1>8, <3>2 DEF Loops
      <4> QED BY <3>2, <4>1
    <3> QED BY <3>1, <3>2
  <2>2. f = [p \in S |-> f[p]]
    BY <1>8
  <2> HIDE DEF S, Val
  <2> QED BY <2>1, <2>2
<1>10. StringScan(b) = CHOOSE g : Same(g)
  BY DEF StringScan, n
<1> HIDE DEF Same
<1>11. Same(StringScan(b))
  BY <1>9, <1>10
<1> DEFINE r == StringScan(b)
<1>12. \A p \in S : r[p] = Val(r, p)
  <2>1. r = [p \in S |-> Val(r, p)]
    BY <1>11 DEF Same
  <2> HIDE DEF r, S, Val
  <2> QED BY <2>1
<1> HIDE DEF r
<1> DEFINE Shuts(p, v) == v.ended => v.pos > p[1] /\ Get(b, v.pos - 1) = "quote"
           Right(p, v) == v.pos \in p[1]..n + 1 /\ v.ended \in BOOLEAN /\ v.bad \in BOOLEAN /\ Shuts(p, v) /\ (p[2] => v.bad)
           T == {p \in S : Right(p, r[p])}
<1>13. ASSUME NEW p \in stop PROVE p \in T
  <2>1. p \in S /\ Ends(p)
    OBVIOUS
  <2>2. r[p] = Last(p)
    BY <1>12, <2>1
  <2> HIDE DEF S, Ends, Last
  <2> QED BY <1>5, <2>1, <2>2
<1>14. ASSUME NEW p \in S \ stop, next[p] \in T PROVE p \in T
  <2> DEFINE t == StringStep(b, p)
             v == r[t]
  <2>1. next[p] = t /\ r[p] = v /\ Right(t, v) /\ p \in S /\ t \in S
    BY <1>4, <1>12, <1>14
  <2>2. t[1] > p[1] /\ (p[2] => t[2])
    BY <1>4
  <2> HIDE DEF t, v
  <2>3. p[1] \in Nat /\ t[1] \in Nat /\ v.pos \in t[1]..n + 1
    BY <1>1, <1>2, <2>1
  <2>5. v.pos \in p[1]..n + 1 /\ (v.pos > t[1] => v.pos > p[1])
    BY <1>1, <2>2, <2>3
  <2>6. Shuts(t, v) /\ v.ended \in BOOLEAN /\ v.bad \in BOOLEAN /\ (t[2] => v.bad)
    BY <2>1
  <2>7. Shuts(p, v)
    BY <2>5, <2>6
  <2>4. Right(p, v)
    <3> HIDE DEF Shuts
    <3> QED BY <2>2, <2>5, <2>6, <2>7
  <2> HIDE DEF Right, S
  <2> QED BY <2>1, <2>4
<1>15. S \subseteq T
  <2> HIDE DEF S, T, stop, next, rank
  <2> QED BY <1>6, <1>13, <1>14, RankInduct
<1>16. Right(<<pos, bad>>, r[<<pos, bad>>])
  <2>1. <<pos, bad>> \in S
    BY DEF n
  <2> HIDE DEF Right, S
  <2> QED BY <1>15, <2>1
<1>17. r[<<pos, bad>>] = Val(r, <<pos, bad>>)
  <2>1. <<pos, bad>> \in S
    BY DEF n
  <2> HIDE DEF Val, S
  <2> QED BY <1>12, <2>1
<1> QED BY <1>16, <1>17 DEF r, n

-----------------------------------------------------------------------------
(* The strings of the grammar.                                             *)

\* The escapes of the grammar, by their places in the source.
LeftBrace == "{"
RightBrace == "}"
Simple == {"n", "0", "bs", "quote"}
ByteAt(b, q, j) == j = q + 3 /\ b[q + 1] = "x" /\ b[q + 2] \in Hex /\ b[q + 3] \in Hex
CodeAt(b, q, j) ==
    j > q + 3 /\ b[q + 1] = "u" /\ b[q + 2] = LeftBrace /\ b[j] = RightBrace /\ \A p \in q + 3..j - 1 : b[p] \in Hex

\* The escapes of one letter.
LEMMA SimpleOfSlice ==
  ASSUME NEW v \in Seq(SourceBytes)
  PROVE  v \in EscapeText <=> Len(v) = 1 /\ v[1] \in Simple
<1>1. ASSUME Len(v) = 1, v[1] \in Simple PROVE v \in EscapeText
  <2>1. v = <<v[1]>>
    BY <1>1
  <2> DEFINE c == v[1]
  <2>2. v = <<c>> /\ c \in Simple
    BY <1>1, <2>1
  <2> HIDE DEF c
  <2> QED BY <2>2 DEF Simple, EscapeText
<1>2. ASSUME v \in EscapeText PROVE Len(v) = 1 /\ v[1] \in Simple
  <2>1. PICK c \in Simple : v = <<c>>
    BY <1>2 DEF EscapeText, Simple
  <2> QED BY <2>1
<1> QED BY <1>1, <1>2

\* A slice is an escape of the grammar exactly if its places say so.
LEMMA EscapeOfSlice ==
  ASSUME NEW b \in Seq(SourceBytes), NEW q \in 1..Len(b), NEW j \in (q + 1)..Len(b)
  PROVE  IsEscape(Slice(b, q + 1, j + 1)) <=>
             (j = q + 1 /\ b[q + 1] \in Simple) \/ ByteAt(b, q, j) \/ CodeAt(b, q, j)
<1> DEFINE v == Slice(b, q + 1, j + 1)
           n == j - q
           a == q + 1
           z == j + 1
<1>1. Len(b) \in Nat /\ q \in Nat /\ j \in Nat /\ q >= 1 /\ j <= Len(b) /\ j >= q + 1
  <2>1. Len(b) \in Nat
    BY GetIs
  <2> QED BY <2>1
<1>2. a \in 1..Len(b) + 1 /\ z \in a..Len(b) + 1 /\ z - a = n /\ n \in Nat /\ n >= 1
  BY <1>1
<1>3. v \in Seq(SourceBytes) /\ Len(v) = n /\ DOMAIN v = 1..n /\ \A i \in 1..n : v[i] = b[a + i - 1]
  <2>1. v = Slice(b, a, z)
    OBVIOUS
  <2> HIDE DEF v, n, a, z
  <2>2. Slice(b, a, z) \in Seq(SourceBytes) /\ Len(Slice(b, a, z)) = z - a /\ DOMAIN Slice(b, a, z) = 1..z - a
        /\ \A i \in 1..z - a : Slice(b, a, z)[i] = b[a + i - 1]
    BY <1>2, SliceAt
  <2> QED BY <1>2, <2>1, <2>2
<1>4. \A i \in 1..n : v[i] = b[q + i]
  <2> SUFFICES ASSUME NEW i \in 1..n PROVE v[i] = b[q + i]
    OBVIOUS
  <2>1. a + i - 1 = q + i
    BY <1>1, <1>2
  <2> HIDE DEF v, n, a
  <2> QED BY <1>3, <2>1
<1> HIDE DEF v
<1>5. v[1] = b[q + 1] /\ (n = 1 <=> j = q + 1) /\ (n = 3 <=> j = q + 3) /\ (n > 3 <=> j > q + 3)
  <2>1. 1 \in 1..n
    BY <1>2
  <2> HIDE DEF n
  <2>2. v[1] = b[q + 1]
    BY <1>4, <2>1
  <2> QED BY <1>1, <2>2 DEF n
<1>6. v \in EscapeText <=> j = q + 1 /\ b[q + 1] \in Simple
  BY <1>3, <1>5, SimpleOfSlice
<1> HIDE DEF n, a, z
<1>7. ASSUME n = 3 PROVE AllIn(Tail(v), Hex) <=> b[q + 2] \in Hex /\ b[q + 3] \in Hex
  <2> DEFINE t == Tail(v)
             c == q + 2
  <2>1. z \in (a + 1)..Len(b) + 1 /\ a + 1 = c /\ c \in 1..Len(b) + 1 /\ z \in c..Len(b) + 1 /\ z - c = 2
        /\ c + 1 - 1 = q + 2 /\ c + 2 - 1 = q + 3
    BY <1>1, <1>2, <1>7 DEF n, a, z
  <2>2. t = Slice(b, c, z)
    <3> HIDE DEF c
    <3>1. Tail(Slice(b, a, z)) = Slice(b, a + 1, z)
      BY <1>2, <2>1, TailOfSlice
    <3> QED BY <2>1, <3>1 DEF v, a, z
  <2> HIDE DEF t
  <2>3. DOMAIN t = 1..2 /\ \A i \in 1..2 : t[i] = b[c + i - 1]
    <3> HIDE DEF c
    <3>1. DOMAIN Slice(b, c, z) = 1..z - c /\ \A i \in 1..z - c : Slice(b, c, z)[i] = b[c + i - 1]
      BY <2>1, SliceAt
    <3> QED BY <2>1, <2>2, <3>1
  <2>4. t[1] = b[q + 2] /\ t[2] = b[q + 3]
    <3> HIDE DEF c
    <3>1. 1 \in 1..2 /\ 2 \in 1..2
      OBVIOUS
    <3> QED BY <2>1, <2>3, <3>1
  <2>5. (\A i \in DOMAIN t : t[i] \in Hex) <=> t[1] \in Hex /\ t[2] \in Hex
    BY <2>3
  <2> QED BY <2>4, <2>5 DEF t, AllIn
<1>8. ASSUME n > 3
      PROVE  /\ v[2] = b[q + 2] /\ v[n] = b[j]
             /\ AllIn(SubSeq(v, 3, n - 1), Hex) <=> \A p \in q + 3..j - 1 : b[p] \in Hex
  <2>1. 2 \in 1..n /\ n \in 1..n /\ q + n = j
    BY <1>1, <1>2, <1>8 DEF n
  <2>2. v[2] = b[q + 2] /\ v[n] = b[j]
    BY <1>4, <2>1
  <2> DEFINE u == Slice(v, 3, n)
  <2>3. u = SubSeq(v, 3, n - 1)
    BY DEF Slice
  <2>4. 3 \in 1..Len(v) + 1 /\ n \in 3..Len(v) + 1 /\ n - 3 \in Nat
    BY <1>2, <1>3, <1>8
  <2>5. DOMAIN u = 1..n - 3 /\ \A i \in 1..n - 3 : u[i] = v[3 + i - 1]
    BY <1>3, <2>4, SliceAt
  <2> HIDE DEF u
  <2>6. \A i \in 1..n - 3 : u[i] = b[q + (i + 2)]
    <3> SUFFICES ASSUME NEW i \in 1..n - 3 PROVE u[i] = b[q + (i + 2)]
      OBVIOUS
    <3>1. 3 + i - 1 = i + 2 /\ i + 2 \in 1..n
      BY <1>2, <1>8
    <3> QED BY <1>4, <2>5, <3>1
  <2>7. ASSUME AllIn(u, Hex), NEW p \in q + 3..j - 1 PROVE b[p] \in Hex
    <3> DEFINE i == p - q - 2
    <3>1. i \in 1..n - 3 /\ q + (i + 2) = p
      BY <1>1, <1>8 DEF n
    <3> HIDE DEF i
    <3>2. u[i] \in Hex
      BY <2>5, <2>7, <3>1 DEF AllIn
    <3> QED BY <2>6, <3>1, <3>2
  <2> DEFINE all == \A p \in q + 3..j - 1 : b[p] \in Hex
  <2>8. ASSUME all, NEW i \in 1..n - 3 PROVE u[i] \in Hex
    <3>1. q + (i + 2) \in q + 3..j - 1
      BY <1>1, <1>8 DEF n
    <3>2. b[q + (i + 2)] \in Hex
      BY <2>8, <3>1
    <3> QED BY <2>6, <3>2
  <2>9. AllIn(u, Hex) <=> all
    BY <2>5, <2>7, <2>8 DEF AllIn
  <2> QED BY <2>2, <2>3, <2>9
<1>9. IsEscape(v) <=> \/ v \in EscapeText
                      \/ n = 3 /\ v[1] = "x" /\ AllIn(Tail(v), Hex)
                      \/ n > 3 /\ v[1] = "u" /\ v[2] = LeftBrace /\ v[n] = RightBrace /\ AllIn(SubSeq(v, 3, n - 1), Hex)
  BY <1>3, Zenon DEF IsEscape, LeftBrace, RightBrace
<1>10. n = 3 /\ v[1] = "x" /\ AllIn(Tail(v), Hex) <=> ByteAt(b, q, j)
  BY <1>5, <1>7 DEF ByteAt
<1>11. n > 3 /\ v[1] = "u" /\ v[2] = LeftBrace /\ v[n] = RightBrace /\ AllIn(SubSeq(v, 3, n - 1), Hex) <=> CodeAt(b, q, j)
  BY <1>5, <1>8 DEF CodeAt
<1> QED BY <1>6, <1>9, <1>10, <1>11 DEF v

\* The braces of an escape are no hex digits.
LEMMA BracesApart ==
  RightBrace \notin Hex /\ RightBrace # "none" /\ LeftBrace # "none"
BY Zenon DEF RightBrace, LeftBrace, Hex, Dec

\* A run of hex digits up to a brace is the one the loop goes over.
LEMMA CodeEnd ==
  ASSUME NEW b \in Seq(SourceBytes), NEW p \in 1..Len(b) + 1, NEW j \in p..Len(b),
         \A x \in p..j - 1 : b[x] \in Hex, b[j] = RightBrace
  PROVE  RunEnd(b, p, Hex) = j
<1> DEFINE e == RunEnd(b, p, Hex)
<1>1. Len(b) \in Nat /\ p \in Nat /\ p >= 1 /\ j \in Nat /\ j >= p /\ j <= Len(b)
  <2>1. Len(b) \in Nat
    BY GetIs
  <2> QED BY <2>1
<1>2. e \in p..Len(b) + 1 /\ Get(b, e) \notin Hex /\ \A x \in p..e - 1 : b[x] \in Hex
  BY NumberBytes, RunEndIs
<1> HIDE DEF e
<1>3. RightBrace \notin Hex
  BY BracesApart
<1>4. ~(e < j)
  <2> SUFFICES ASSUME e < j PROVE FALSE
    OBVIOUS
  <2>1. e \in p..j - 1 /\ e \in 1..Len(b)
    BY <1>1, <1>2
  <2>2. b[e] \in Hex /\ Get(b, e) = b[e]
    BY <2>1, GetIs
  <2> QED BY <1>2, <2>2
<1>5. ~(e > j)
  <2> SUFFICES ASSUME e > j PROVE FALSE
    OBVIOUS
  <2>1. j \in p..e - 1
    BY <1>1, <1>2
  <2> QED BY <1>2, <1>3, <2>1
<1>6. e = j
  BY <1>1, <1>2, <1>4, <1>5
<1> QED BY <1>6 DEF e

\* scan_escape accepts what the grammar does, and goes behind it.
LEMMA EscapeExact ==
  ASSUME NEW b \in Seq(SourceBytes), NEW q \in 1..Len(b), NEW j \in (q + 1)..Len(b)
  PROVE  IsEscape(Slice(b, q + 1, j + 1)) <=> Escape(b, q).ok /\ Escape(b, q).next = j + 1
<1> DEFINE n == Len(b)
           e == RunEnd(b, q + 3, Hex)
           hex == Get(b, q + 2) \in Hex /\ Get(b, q + 3) \in Hex
           code == e > q + 3 /\ Get(b, e) = RightBrace
           c == Get(b, q + 1)
           brace == c = "u" /\ Get(b, q + 2) = LeftBrace
           x == Escape(b, q)
           short == [next |-> IF q + 1 <= n THEN q + 2 ELSE q + 1, ok |-> FALSE]
<1>1. n \in Nat /\ q \in Nat /\ q >= 1 /\ j \in Nat /\ j >= q + 1 /\ j <= n
  <2>1. Len(b) \in Nat
    BY GetIs
  <2> QED BY <2>1
<1>2. \A p \in Nat : Get(b, p) # "none" => p <= n
  BY GetIs
<1>3. \A p \in 1..n : Get(b, p) = b[p]
  BY GetIs
<1>4. c = b[q + 1]
  BY <1>1, <1>3
<1>5. \A p \in {q + 2, q + 3} : Get(b, p) # "none" => p \in 1..n /\ Get(b, p) = b[p]
  <2> SUFFICES ASSUME NEW p \in {q + 2, q + 3}, Get(b, p) # "none" PROVE p \in 1..n /\ Get(b, p) = b[p]
    OBVIOUS
  <2>1. p \in Nat /\ p >= 1
    BY <1>1
  <2>2. p <= n
    BY <1>2, <2>1
  <2>3. p \in 1..n
    BY <1>1, <2>1, <2>2
  <2> QED BY <1>3, <2>3
<1>6. x = CASE c \in {"n", "0", "bs", "quote"} -> [next |-> q + 2, ok |-> TRUE]
            [] c = "x" -> IF hex THEN [next |-> q + 4, ok |-> TRUE] ELSE [next |-> q + 2, ok |-> FALSE]
            [] brace -> IF code THEN [next |-> e + 1, ok |-> TRUE] ELSE [next |-> e, ok |-> FALSE]
            [] OTHER -> short
  BY Zenon DEF Escape, LeftBrace, RightBrace
<1>7. IsEscape(Slice(b, q + 1, j + 1)) <=> (j = q + 1 /\ c \in Simple) \/ ByteAt(b, q, j) \/ CodeAt(b, q, j)
  BY <1>4, EscapeOfSlice
<1>8. ByteAt(b, q, j) <=> j = q + 3 /\ c = "x" /\ hex
  <2>1. ASSUME ByteAt(b, q, j) PROVE j = q + 3 /\ c = "x" /\ hex
    <3>1. q + 2 \in 1..n /\ q + 3 \in 1..n
      BY <1>1, <2>1 DEF ByteAt
    <3> HIDE DEF n
    <3> QED BY <1>3, <1>4, <2>1, <3>1 DEF ByteAt
  <2>2. ASSUME j = q + 3, c = "x", hex PROVE ByteAt(b, q, j)
    <3>1. b[q + 2] \in Hex /\ b[q + 3] \in Hex
      <4>1. Get(b, q + 2) # "none" /\ Get(b, q + 3) # "none"
        BY <2>2, NumberBytes
      <4> QED BY <1>5, <2>2, <4>1
    <3> QED BY <1>4, <2>2, <3>1 DEF ByteAt
  <2> QED BY <2>1, <2>2
<1>9. CodeAt(b, q, j) <=> brace /\ code /\ e = j
  <2>1. ASSUME CodeAt(b, q, j) PROVE brace /\ code /\ e = j
    <3> DEFINE p == q + 3
    <3>1. p \in 1..Len(b) + 1 /\ j \in p..Len(b) /\ q + 2 \in 1..n /\ j \in 1..n
      BY <1>1, <2>1 DEF CodeAt
    <3>2. (\A y \in p..j - 1 : b[y] \in Hex) /\ b[j] = RightBrace /\ j > q + 3 /\ b[q + 2] = LeftBrace /\ b[q + 1] = "u"
      BY <2>1 DEF CodeAt
    <3>3. e = j
      <4>1. e = RunEnd(b, p, Hex)
        OBVIOUS
      <4> HIDE DEF p, e
      <4> QED BY <3>1, <3>2, <4>1, CodeEnd
    <3> HIDE DEF e, n
    <3> QED BY <1>3, <1>4, <3>1, <3>2, <3>3
  <2>2. ASSUME brace, code, e = j PROVE CodeAt(b, q, j)
    <3>1. q + 2 \in 1..n /\ b[q + 2] = LeftBrace /\ b[q + 1] = "u"
      BY <1>4, <1>5, <2>2, BracesApart
    <3> DEFINE p == q + 3
    <3>2. p \in 1..Len(b) + 1 /\ e = RunEnd(b, p, Hex)
      BY <1>1, <3>1
    <3> HIDE DEF e, p
    <3>3. \A y \in p..e - 1 : b[y] \in Hex
      BY <3>2, NumberBytes, RunEndIs
    <3>4. j \in 1..n /\ Get(b, j) = b[j]
      BY <1>1, <1>3
    <3> QED BY <2>2, <3>1, <3>3, <3>4 DEF CodeAt, p
  <2> QED BY <2>1, <2>2
<1>10. e \in Nat \/ ~brace
  <2> SUFFICES ASSUME brace PROVE e \in Nat
    OBVIOUS
  <2>1. q + 2 \in 1..n
    BY <1>5, BracesApart
  <2>2. q + 3 \in 1..Len(b) + 1 /\ q + 3 \in Nat
    BY <1>1, <2>1
  <2> DEFINE p == q + 3
  <2>3. p \in 1..Len(b) + 1 /\ p \in Nat /\ e = RunEnd(b, p, Hex)
    BY <2>2
  <2> HIDE DEF p, e
  <2>4. e \in p..Len(b) + 1
    BY <2>3, NumberBytes, RunEndIs
  <2> QED BY <1>1, <2>3, <2>4
<1>11. brace => c = "u"
  OBVIOUS
<1>12. brace \in BOOLEAN /\ code \in BOOLEAN /\ hex \in BOOLEAN
  OBVIOUS
<1> HIDE DEF n, e, hex, code, c, brace, x
<1>13. CASE c \in {"n", "0", "bs", "quote"}
  <2>1. x = [next |-> q + 2, ok |-> TRUE] /\ c # "x" /\ ~brace /\ c \in Simple
    BY <1>6, <1>11, <1>13 DEF Simple
  <2>2. x.ok /\ x.next = q + 2
    BY <2>1
  <2>3. q + 2 = j + 1 <=> j = q + 1
    BY <1>1
  <2> QED BY <1>7, <1>8, <1>9, <2>1, <2>2, <2>3 DEF x
<1>14. CASE c = "x"
  <2>1. x = (IF hex THEN [next |-> q + 4, ok |-> TRUE] ELSE [next |-> q + 2, ok |-> FALSE]) /\ c \notin Simple /\ ~brace
    BY <1>6, <1>11, <1>14 DEF Simple
  <2>2. (hex => x.ok /\ x.next = q + 4) /\ (~hex => ~x.ok)
    BY <2>1
  <2>3. q + 4 = j + 1 <=> j = q + 3
    BY <1>1
  <2> QED BY <1>7, <1>8, <1>9, <1>12, <1>14, <2>1, <2>2, <2>3 DEF x
<1>15. CASE brace
  <2>1. x = (IF code THEN [next |-> e + 1, ok |-> TRUE] ELSE [next |-> e, ok |-> FALSE]) /\ c \notin Simple /\ c # "x"
    BY <1>6, <1>11, <1>15 DEF Simple
  <2>2. (code => x.ok /\ x.next = e + 1) /\ (~code => ~x.ok)
    BY <2>1
  <2>3. e + 1 = j + 1 <=> e = j
    BY <1>1, <1>10, <1>15
  <2> QED BY <1>7, <1>8, <1>9, <1>12, <1>15, <2>1, <2>2, <2>3 DEF x
<1>16. CASE c \notin {"n", "0", "bs", "quote"} /\ c # "x" /\ ~brace
  <2>1. x = short /\ c \notin Simple
    BY <1>6, <1>16 DEF Simple
  <2>2. ~x.ok
    BY <2>1
  <2> QED BY <1>7, <1>8, <1>9, <1>16, <2>1, <2>2 DEF x
<1> QED BY <1>13, <1>14, <1>15, <1>16

\* The recursion of IsText.
TextOf(w) ==
    LET from[i \in 1 .. Len(w) + 1] ==
          IF i > Len(w) THEN TRUE
          ELSE IF w[i] = "bs" THEN \E j \in i + 1 .. Len(w) : IsEscape(SubSeq(w, i + 1, j)) /\ from[j + 1]
          ELSE w[i] \notin {"quote", "nl"} /\ from[i + 1]
    IN  from

\* One step of it, by its place in the source: over an escape or over a plain byte.
LEMMA TextStep ==
  ASSUME NEW b \in Seq(SourceBytes), NEW a \in 1..Len(b), NEW z \in a..Len(b), NEW p \in a..z
  PROVE  /\ p = z => TextOf(Slice(b, a, z))[p - a + 1]
         /\ p # z /\ b[p] = "bs" =>
               (TextOf(Slice(b, a, z))[p - a + 1] <=>
                    /\ Escape(b, p).ok /\ Escape(b, p).next <= z
                    /\ TextOf(Slice(b, a, z))[Escape(b, p).next - a + 1])
         /\ p # z /\ b[p] # "bs" =>
               (TextOf(Slice(b, a, z))[p - a + 1] <=>
                    b[p] \notin {"quote", "nl"} /\ TextOf(Slice(b, a, z))[(p + 1) - a + 1])
<1> DEFINE w == Slice(b, a, z)
           m == z - a
           S == 1..m + 1
           At(i) == a + i - 1
           Ok(i) == Escape(b, At(i)).ok /\ Escape(b, At(i)).next <= z
           On(i) == Escape(b, At(i)).next - a + 1
           Bs(i) == b[At(i)] = "bs"
           Cut(i) == b[At(i)] \in {"quote", "nl"}
           Esc(f, i) == \E j \in i + 1..Len(w) : IsEscape(SubSeq(w, i + 1, j)) /\ f[j + 1]
           Val(f, i) == IF i > Len(w) THEN TRUE ELSE IF w[i] = "bs" THEN Esc(f, i)
                        ELSE w[i] \notin {"quote", "nl"} /\ f[i + 1]
           Same(f) == f = [i \in 1..Len(w) + 1 |-> Val(f, i)]
           Ends(i) == i > m \/ (Bs(i) /\ ~Ok(i)) \/ (~Bs(i) /\ Cut(i))
           stop == {i \in S : Ends(i)}
           Beyond(i) == IF Bs(i) THEN On(i) ELSE i + 1
           next == [i \in S \ stop |-> Beyond(i)]
           rank == [i \in S |-> m + 1 - i]
           base == [i \in stop |-> i > m]
<1>1. Len(b) \in Nat /\ a \in Nat /\ z \in Nat /\ a >= 1 /\ a <= z /\ z <= Len(b) /\ m \in Nat /\ a + m = z
  <2>1. Len(b) \in Nat
    BY GetIs
  <2> QED BY <2>1
<1>2. Len(w) = m /\ \A i \in 1..m : w[i] = b[At(i)]
  <2>1. a \in 1..Len(b) + 1 /\ z \in a..Len(b) + 1
    BY <1>1
  <2> QED BY <2>1, SliceAt
<1>3. \A i \in 1..m : At(i) \in 1..Len(b) /\ At(i) \in Nat
  BY <1>1
<1>4. \A i \in 1..m : /\ Escape(b, At(i)).next \in (At(i) + 1)..Len(b) + 1 /\ Escape(b, At(i)).ok \in BOOLEAN
                      /\ Escape(b, At(i)).ok => Escape(b, At(i)).next >= At(i) + 2
  BY <1>3, EscapeIs
<1>5. \A i \in 1..m : Ok(i) => On(i) \in (i + 2)..m + 1
  <2> SUFFICES ASSUME NEW i \in 1..m, Ok(i) PROVE On(i) \in (i + 2)..m + 1
    OBVIOUS
  <2> DEFINE x == Escape(b, At(i)).next
  <2>1. x \in Int /\ x >= (a + i - 1) + 2 /\ x <= z
    <3>1. x \in (At(i) + 1)..Len(b) + 1 /\ x >= At(i) + 2 /\ x <= z
      BY <1>4
    <3> HIDE DEF x
    <3> QED BY <1>1, <3>1
  <2> HIDE DEF x
  <2>2. x - a + 1 \in (i + 2)..m + 1
    BY <1>1, <2>1
  <2> QED BY <2>2 DEF x
<1>6. ASSUME NEW i \in 1..m, NEW j \in i + 1..m
      PROVE  IsEscape(SubSeq(w, i + 1, j)) <=> Escape(b, At(i)).ok /\ Escape(b, At(i)).next = a + j
  <2> DEFINE q == At(i)
             y == At(j)
  <2>1. /\ i + 1 \in Nat /\ j \in Nat /\ 1 <= i + 1 /\ i + 1 <= j + 1 /\ j <= z - a
        /\ a + (i + 1) - 1 = q + 1 /\ a + j = y + 1 /\ q \in 1..Len(b) /\ y \in (q + 1)..Len(b)
        /\ a \in 1..Len(b) + 1 /\ z \in a..Len(b) + 1
    BY <1>1
  <2>2. SubSeq(w, i + 1, j) = Slice(b, a + (i + 1) - 1, a + j)
    <3> HIDE DEF q, y
    <3> QED BY <2>1, SliceOfSlice
  <2> HIDE DEF q, y
  <2>3. SubSeq(w, i + 1, j) = Slice(b, q + 1, y + 1)
    BY <2>1, <2>2
  <2>4. IsEscape(Slice(b, q + 1, y + 1)) <=> Escape(b, q).ok /\ Escape(b, q).next = y + 1
    BY <2>1, EscapeExact
  <2> HIDE DEF w
  <2>5. IsEscape(SubSeq(w, i + 1, j)) <=> Escape(b, q).ok /\ Escape(b, q).next = a + j
    BY <2>1, <2>3, <2>4
  <2> QED BY <2>5 DEF q
<1>7. \A f : \A i \in 1..m : Esc(f, i) <=> Ok(i) /\ f[On(i)]
  <2> SUFFICES ASSUME NEW f, NEW i \in 1..m PROVE Esc(f, i) <=> Ok(i) /\ f[On(i)]
    OBVIOUS
  <2> DEFINE x == Escape(b, At(i)).next
             fine == Escape(b, At(i)).ok
             Good(j) == IsEscape(SubSeq(w, i + 1, j))
  <2>1. \A j \in i + 1..m : Good(j) <=> fine /\ x = a + j
    BY <1>6
  <2>2. x \in Nat /\ (fine => x >= (a + i - 1) + 2)
    <3>1. x \in (At(i) + 1)..Len(b) + 1 /\ (fine => x >= At(i) + 2)
      BY <1>4
    <3> HIDE DEF x, fine
    <3> QED BY <1>1, <3>1
  <2>3. Ok(i) <=> fine /\ x <= z
    OBVIOUS
  <2>4. On(i) = x - a + 1
    OBVIOUS
  <2>5. Esc(f, i) <=> \E j \in i + 1..m : Good(j) /\ f[j + 1]
    <3> HIDE DEF Good, w, m
    <3> QED BY <1>2 DEF Good
  <2> HIDE DEF x, fine, Good, Ok, On, Esc, m, w
  <2>6. ASSUME Esc(f, i) PROVE Ok(i) /\ f[On(i)]
    <3>1. PICK j \in i + 1..m : Good(j) /\ f[j + 1]
      BY <2>5, <2>6
    <3>2. fine /\ x = a + j
      BY <2>1, <3>1
    <3>3. x <= z /\ x - a + 1 = j + 1
      BY <1>1, <3>2
    <3>4. On(i) = j + 1
      BY <2>4, <3>3
    <3> QED BY <2>3, <3>1, <3>2, <3>3, <3>4
  <2>7. ASSUME Ok(i), f[On(i)] PROVE Esc(f, i)
    <3> DEFINE j == x - a
    <3>1. j \in i + 1..m /\ x = a + j /\ On(i) = j + 1
      BY <1>1, <2>2, <2>3, <2>4, <2>7
    <3> HIDE DEF j
    <3>2. Good(j) /\ f[j + 1]
      BY <2>1, <2>3, <2>7, <3>1
    <3> QED BY <2>5, <3>1, <3>2
  <2> QED BY <2>6, <2>7
<1>8. \A f : \A i \in S : Val(f, i) <=> IF i > m THEN TRUE ELSE IF Bs(i) THEN Ok(i) /\ f[On(i)] ELSE ~Cut(i) /\ f[i + 1]
  <2> SUFFICES ASSUME NEW f, NEW i \in S
               PROVE Val(f, i) <=> IF i > m THEN TRUE ELSE IF Bs(i) THEN Ok(i) /\ f[On(i)] ELSE ~Cut(i) /\ f[i + 1]
    OBVIOUS
  <2>1. ~(i > m) => i \in 1..m
    BY <1>1
  <2>2. ~(i > m) => w[i] = b[At(i)]
    BY <1>2, <2>1
  <2>3. ~(i > m) => (Esc(f, i) <=> Ok(i) /\ f[On(i)])
    BY <1>7, <2>1
  <2> HIDE DEF w, m, At, Ok, On, Esc
  <2> QED BY <1>2, <2>2, <2>3
<1>9. \A f : \A i \in S : Val(f, i) \in BOOLEAN
  OBVIOUS
<1>10. Descends(S, stop, next, rank, m)
  <2>1. ASSUME NEW i \in S \ stop PROVE Beyond(i) \in S /\ Beyond(i) > i
    <3>1. i \in 1..m /\ (Bs(i) => Ok(i))
      BY <1>1
    <3>2. CASE Bs(i)
      <4>1. On(i) \in (i + 2)..m + 1 /\ Beyond(i) = On(i)
        BY <1>5, <3>1, <3>2
      <4> HIDE DEF m, Beyond, On
      <4> QED BY <1>1, <3>1, <4>1
    <3>3. CASE ~Bs(i)
      <4>1. Beyond(i) = i + 1
        BY <3>3
      <4> HIDE DEF m, Beyond
      <4> QED BY <1>1, <3>1, <4>1
    <3> QED BY <3>2, <3>3
  <2> HIDE DEF m, Beyond
  <2>2. rank \in [S -> 0..m]
    BY <1>1
  <2>3. next \in [S \ stop -> S] /\ stop \subseteq S /\ \A i \in S \ stop : next[i] > i /\ next[i] \in S
    <3> HIDE DEF S, Ends
    <3> QED BY <2>1
  <2>4. \A i \in S \ stop : rank[next[i]] < rank[i]
    <3> SUFFICES ASSUME NEW i \in S \ stop PROVE rank[next[i]] < rank[i]
      OBVIOUS
    <3> DEFINE t == next[i]
    <3>1. t \in S /\ t > i /\ i \in S
      BY <2>3
    <3> HIDE DEF t
    <3>2. rank[t] = m + 1 - t /\ rank[i] = m + 1 - i
      BY <3>1
    <3> HIDE DEF rank
    <3>3. rank[t] < rank[i]
      BY <1>1, <3>1, <3>2
    <3> QED BY <3>3 DEF t
  <2> HIDE DEF S, stop, next, rank
  <2> QED BY <1>1, <2>2, <2>3, <2>4 DEF Descends
<1>11. base \in [stop -> BOOLEAN] /\ BOOLEAN # {}
  <2>1. \A i \in stop : (i > m) \in BOOLEAN
    OBVIOUS
  <2> HIDE DEF stop, m
  <2>2. base \in [stop -> BOOLEAN]
    BY <2>1
  <2> QED BY <2>2
<1>12. PICK f \in [S -> BOOLEAN] : Loops(f, S, stop, base, next)
  <2> HIDE DEF S, stop, next, rank, base
  <2> QED BY <1>10, <1>11, LoopExists
<1>13. Same(f)
  <2>1. \A i \in S : f[i] = Val(f, i)
    <3> SUFFICES ASSUME NEW i \in S PROVE f[i] = Val(f, i)
      OBVIOUS
    <3>1. f[i] \in BOOLEAN /\ Val(f, i) \in BOOLEAN
      <4>1. f[i] \in BOOLEAN
        BY <1>12
      <4> HIDE DEF Val
      <4> QED BY <1>9, <4>1
    <3>2. f[i] <=> Val(f, i)
      <4>0. i \in stop => f[i] = base[i] /\ base[i] = (i > m)
        BY <1>12 DEF Loops
      <4>1. i \notin stop => f[i] = f[next[i]] /\ next[i] = Beyond(i)
        BY <1>12 DEF Loops
      <4>2. Val(f, i) <=> IF i > m THEN TRUE ELSE IF Bs(i) THEN Ok(i) /\ f[On(i)] ELSE ~Cut(i) /\ f[i + 1]
        <5> HIDE DEF Val, m, Bs, Ok, On, Cut
        <5> QED BY <1>8
      <4>3. i \in stop <=> i > m \/ (Bs(i) /\ ~Ok(i)) \/ (~Bs(i) /\ Cut(i))
        OBVIOUS
      <4>4. i \notin stop => f[i] = (IF Bs(i) THEN f[On(i)] ELSE f[i + 1])
        BY <4>1
      <4> HIDE DEF Val, m, Bs, Ok, On, Cut, stop, next, base, S
      <4>5. CASE i \in stop
        BY <4>0, <4>2, <4>3, <4>5
      <4>6. CASE i \notin stop
        <5>1. CASE Bs(i)
          BY <4>2, <4>3, <4>4, <4>6, <5>1
        <5>2. CASE ~Bs(i)
          BY <4>2, <4>3, <4>4, <4>6, <5>2
        <5> QED BY <5>1, <5>2
      <4> QED BY <4>5, <4>6
    <3> HIDE DEF Val
    <3> QED BY <3>1, <3>2
  <2>2. f = [i \in S |-> f[i]]
    BY <1>12
  <2>3. S = 1..Len(w) + 1
    BY <1>2
  <2> HIDE DEF S, Val, w
  <2> QED BY <2>1, <2>2, <2>3
<1>14. TextOf(w) = CHOOSE g : Same(g)
  BY DEF TextOf
<1> HIDE DEF Same
<1>15. Same(TextOf(w))
  BY <1>13, <1>14
<1> DEFINE g == TextOf(w)
<1>16. \A i \in S : g[i] = Val(g, i)
  <2>1. g = [i \in 1..Len(w) + 1 |-> Val(g, i)]
    BY <1>15 DEF Same
  <2>2. S = 1..Len(w) + 1
    BY <1>2
  <2> HIDE DEF g, S, Val, w
  <2> QED BY <2>1, <2>2
<1> HIDE DEF g
<1> DEFINE i == p - a + 1
<1>17. i \in S /\ (i > m <=> p = z) /\ At(i) = p /\ i + 1 = (p + 1) - a + 1
  BY <1>1
<1>18. g[i] <=> IF i > m THEN TRUE ELSE IF Bs(i) THEN Ok(i) /\ g[On(i)] ELSE ~Cut(i) /\ g[i + 1]
  <2> HIDE DEF i, S
  <2>1. g[i] = Val(g, i)
    BY <1>16, <1>17
  <2>2. Val(g, i) <=> IF i > m THEN TRUE ELSE IF Bs(i) THEN Ok(i) /\ g[On(i)] ELSE ~Cut(i) /\ g[i + 1]
    <3> HIDE DEF Val, m, Bs, Ok, On, Cut
    <3> QED BY <1>8, <1>17
  <2> HIDE DEF Val, m, Bs, Ok, On, Cut
  <2> QED BY <2>1, <2>2
<1>19. (Bs(i) <=> b[p] = "bs") /\ (Ok(i) <=> Escape(b, p).ok /\ Escape(b, p).next <= z)
       /\ On(i) = Escape(b, p).next - a + 1 /\ (Cut(i) <=> b[p] \in {"quote", "nl"})
  BY <1>17
<1> HIDE DEF i, m, Bs, Ok, On, Cut, w
<1>20. /\ p = z => g[i]
       /\ p # z /\ b[p] = "bs" => (g[i] <=> Escape(b, p).ok /\ Escape(b, p).next <= z /\ g[Escape(b, p).next - a + 1])
       /\ p # z /\ b[p] # "bs" => (g[i] <=> b[p] \notin {"quote", "nl"} /\ g[(p + 1) - a + 1])
  BY <1>17, <1>18, <1>19
<1> QED BY <1>20 DEF g, i, w

\* The scan from p ends at the quote in z, over escapes that are all right.
Reaches(b, p, z) ==
    LET end == StringScan(b)[<<p, FALSE>>]
    IN  end.ended /\ ~end.bad /\ end.pos = z + 1

\* From each place, the text up to a quote is text exactly if the scan ends at that quote, with no bad escape.
LEMMA TextReaches ==
  ASSUME NEW b \in Seq(SourceBytes), NEW a \in 1..Len(b), NEW z \in a..Len(b), b[z] = "quote", NEW p \in a..z
  PROVE  TextOf(Slice(b, a, z))[p - a + 1] <=> Reaches(b, p, z)
<1> DEFINE g == TextOf(Slice(b, a, z))
           m == z - a
           Is(q) == g[q - a + 1] <=> Reaches(b, q, z)
           T == {i \in 1..m + 1 : Is(a + i - 1)}
           scan == StringScan(b)
<1>1. Len(b) \in Nat /\ a \in Nat /\ z \in Nat /\ a >= 1 /\ a <= z /\ z <= Len(b) /\ m \in Nat /\ a + m = z
  <2>1. Len(b) \in Nat
    BY GetIs
  <2> QED BY <2>1
<1>2. \A q \in a..z : Get(b, q) = b[q] /\ b[q] # "none" /\ q \in 1..Len(b)
  <2> SUFFICES ASSUME NEW q \in a..z PROVE Get(b, q) = b[q] /\ b[q] # "none" /\ q \in 1..Len(b)
    OBVIOUS
  <2>1. q \in 1..Len(b)
    BY <1>1
  <2> QED BY <2>1, GetIs
<1>3. \A q \in 1..Len(b) + 1, c \in BOOLEAN :
        /\ scan[<<q, c>>].pos \in q..Len(b) + 1 /\ (scan[<<q, c>>].ended => scan[<<q, c>>].pos > q)
        /\ c => scan[<<q, c>>].bad
        /\ scan[<<q, c>>] = IF Get(b, q) \in {"none", "nl"} THEN [pos |-> q, ended |-> FALSE, bad |-> c]
                            ELSE IF Get(b, q) = "quote" THEN [pos |-> q + 1, ended |-> TRUE, bad |-> c]
                            ELSE scan[StringStep(b, <<q, c>>)]
  BY StringScanIs
<1> HIDE DEF scan
<1>4. \A q : Reaches(b, q, z) <=> scan[<<q, FALSE>>].ended /\ ~scan[<<q, FALSE>>].bad /\ scan[<<q, FALSE>>].pos = z + 1
  BY DEF Reaches, scan
<1>5. ASSUME NEW q \in a..z, \A r \in (q + 1)..z : Is(r) PROVE Is(q)
  <2> DEFINE v == scan[<<q, FALSE>>]
  <2>1. q \in Nat /\ q >= 1 /\ q <= z /\ q \in 1..Len(b) /\ q \in 1..Len(b) + 1 /\ Get(b, q) = b[q] /\ b[q] # "none"
    BY <1>1, <1>2
  <2>2. v = IF b[q] = "nl" THEN [pos |-> q, ended |-> FALSE, bad |-> FALSE]
            ELSE IF b[q] = "quote" THEN [pos |-> q + 1, ended |-> TRUE, bad |-> FALSE]
            ELSE scan[StringStep(b, <<q, FALSE>>)]
    <3>1. v = IF Get(b, q) \in {"none", "nl"} THEN [pos |-> q, ended |-> FALSE, bad |-> FALSE]
              ELSE IF Get(b, q) = "quote" THEN [pos |-> q + 1, ended |-> TRUE, bad |-> FALSE]
              ELSE scan[StringStep(b, <<q, FALSE>>)]
      BY <1>3, <2>1
    <3>2. Get(b, q) \in {"none", "nl"} <=> b[q] = "nl"
      BY <2>1
    <3> HIDE DEF v
    <3> QED BY <2>1, <3>1, <3>2
  <2>3. Reaches(b, q, z) <=> v.ended /\ ~v.bad /\ v.pos = z + 1
    BY <1>4
  <2>4. /\ q = z => g[q - a + 1]
        /\ q # z /\ b[q] = "bs" => (g[q - a + 1] <=> Escape(b, q).ok /\ Escape(b, q).next <= z /\ g[Escape(b, q).next - a + 1])
        /\ q # z /\ b[q] # "bs" => (g[q - a + 1] <=> b[q] \notin {"quote", "nl"} /\ g[(q + 1) - a + 1])
    BY TextStep
  <2>5. StringStep(b, <<q, FALSE>>) = IF b[q] = "bs" THEN <<Escape(b, q).next, ~Escape(b, q).ok>> ELSE <<q + 1, FALSE>>
    BY <2>1 DEF StringStep
  <2> HIDE DEF v, g
  <2>6. CASE b[q] = "quote"
    <3>1. v.ended /\ ~v.bad /\ v.pos = q + 1
      BY <2>2, <2>6
    <3>2. Reaches(b, q, z) <=> q = z
      BY <1>1, <2>1, <2>3, <3>1
    <3>3. g[q - a + 1] <=> q = z
      BY <2>4, <2>6
    <3> QED BY <3>2, <3>3
  <2>7. CASE b[q] = "nl"
    <3>1. ~v.ended
      BY <2>2, <2>7
    <3>2. q # z
      BY <2>7
    <3> QED BY <2>3, <2>4, <2>7, <3>1, <3>2
  <2>8. CASE b[q] = "bs"
    <3> DEFINE x == Escape(b, q).next
               fine == Escape(b, q).ok
    <3>1. x \in (q + 1)..Len(b) + 1 /\ fine \in BOOLEAN
      BY <2>1, EscapeIs
    <3>2. q # z
      BY <2>8
    <3>3. v = scan[<<x, ~fine>>]
      BY <2>2, <2>5, <2>8
    <3>4. g[q - a + 1] <=> fine /\ x <= z /\ g[x - a + 1]
      BY <2>4, <2>8, <3>2
    <3> HIDE DEF x, fine
    <3>5. x \in Nat /\ x \in 1..Len(b) + 1 /\ x > q
      BY <1>1, <2>1, <3>1
    <3>6. CASE ~fine
      <4>1. v = scan[<<x, TRUE>>]
        BY <3>3, <3>6
      <4>2. v.bad
        BY <1>3, <3>5, <4>1
      <4> QED BY <2>3, <3>4, <3>6, <4>2
    <3>7. CASE fine /\ x > z
      <4>1. v = scan[<<x, FALSE>>]
        BY <3>3, <3>7
      <4>2. v.pos \in x..Len(b) + 1 /\ (v.ended => v.pos > x)
        BY <1>3, <3>5, <4>1
      <4>3. v.ended => v.pos # z + 1
        BY <1>1, <3>5, <3>7, <4>2
      <4>4. ~(x <= z)
        BY <1>1, <3>5, <3>7
      <4> QED BY <2>3, <3>4, <4>3, <4>4
    <3>8. CASE fine /\ x <= z
      <4>1. v = scan[<<x, FALSE>>]
        BY <3>3, <3>8
      <4>2. x \in (q + 1)..z
        BY <1>1, <2>1, <3>5, <3>8
      <4>3. Is(x)
        BY <1>5, <4>2
      <4>4. Reaches(b, x, z) <=> v.ended /\ ~v.bad /\ v.pos = z + 1
        BY <1>4, <4>1
      <4> QED BY <2>3, <3>4, <3>8, <4>3, <4>4
    <3>9. fine \in BOOLEAN /\ (x > z \/ x <= z)
      BY <1>1, <3>1, <3>5
    <3> QED BY <3>6, <3>7, <3>8, <3>9
  <2>9. CASE b[q] \notin {"quote", "nl", "bs"}
    <3>1. q # z
      BY <2>9
    <3>2. v = scan[<<q + 1, FALSE>>]
      BY <2>2, <2>5, <2>9
    <3>3. q + 1 \in (q + 1)..z
      BY <1>1, <2>1, <3>1
    <3>4. Is(q + 1)
      BY <1>5, <3>3
    <3>5. Reaches(b, q + 1, z) <=> v.ended /\ ~v.bad /\ v.pos = z + 1
      BY <1>4, <3>2
    <3> QED BY <2>3, <2>4, <2>9, <3>1, <3>4, <3>5
  <2> QED BY <2>6, <2>7, <2>8, <2>9
<1>6. \A i \in 1..m + 1 : (\A r \in (i + 1)..m + 1 : r \in T) => i \in T
  <2> SUFFICES ASSUME NEW i \in 1..m + 1, \A r \in (i + 1)..m + 1 : r \in T PROVE i \in T
    OBVIOUS
  <2> DEFINE q == a + i - 1
  <2>1. q \in a..z
    BY <1>1
  <2>2. ASSUME NEW r \in (q + 1)..z PROVE Is(r)
    <3> DEFINE k == r - a + 1
    <3>1. k \in (i + 1)..m + 1 /\ a + k - 1 = r
      BY <1>1
    <3> HIDE DEF k, Is
    <3>2. k \in T
      BY <3>1
    <3> QED BY <3>1, <3>2
  <2> HIDE DEF Is, q
  <2>3. Is(q)
    BY <1>5, <2>1, <2>2
  <2> QED BY <2>3 DEF q
<1>7. 1..m + 1 \subseteq T
  <2> HIDE DEF T, m
  <2> QED BY <1>1, <1>6, InductBack
<1>8. Is(p)
  <2> DEFINE k == p - a + 1
  <2>1. k \in 1..m + 1 /\ a + k - 1 = p
    BY <1>1
  <2> HIDE DEF k, Is
  <2>2. k \in T
    BY <1>7, <2>1
  <2> QED BY <2>1, <2>2
<1> QED BY <1>8 DEF g

\* A string of the grammar starts at a quote and ends at e exactly if lex_string says so.
LEMMA StringExact ==
  ASSUME NEW b \in Seq(SourceBytes), NEW s \in 1..Len(b), b[s] = "quote", NEW e \in (s + 1)..Len(b) + 1
  PROVE  IsString(Slice(b, s, e)) <=> Reaches(b, s + 1, e - 1)
<1> DEFINE w == Slice(b, s, e)
           n == e - s
           a == s + 1
           z == e - 1
<1>1. Len(b) \in Nat /\ s \in Nat /\ e \in Nat /\ s >= 1 /\ s < e /\ e <= Len(b) + 1 /\ n \in Nat /\ n >= 1
  <2>1. Len(b) \in Nat
    BY GetIs
  <2> QED BY <2>1
<1>2. s \in 1..Len(b) + 1 /\ e \in s..Len(b) + 1 /\ a \in 1..Len(b) + 1 /\ z + 1 = e
  BY <1>1
<1>3. Len(w) = n /\ \A i \in 1..n : w[i] = b[s + i - 1]
  <2> HIDE DEF a, z
  <2> QED BY <1>2, SliceAt
<1>4. w[1] = b[s] /\ w[n] = b[z]
  <2>1. 1 \in 1..n /\ n \in 1..n /\ s + 1 - 1 = s /\ s + n - 1 = z
    BY <1>1
  <2> HIDE DEF n, w, z
  <2> QED BY <1>3, <2>1
<1>5. IsString(w) <=> n > 1 /\ b[z] = "quote" /\ IsText(SubSeq(w, 2, n - 1))
  <2> HIDE DEF n, w, z
  <2> QED BY <1>3, <1>4 DEF IsString
<1>6. Reaches(b, a, z) => n > 1 /\ b[z] = "quote"
  <2> DEFINE v == StringScan(b)[<<a, FALSE>>]
  <2> HIDE DEF a
  <2>1. v.ended => v.pos > a /\ Get(b, v.pos - 1) = "quote"
    BY <1>2, StringScanIs
  <2>2. Reaches(b, a, z) <=> v.ended /\ ~v.bad /\ v.pos = z + 1
    BY DEF Reaches
  <2> HIDE DEF v, z
  <2>3. ASSUME Reaches(b, a, z) PROVE n > 1 /\ b[z] = "quote"
    <3>1. v.pos = e /\ v.ended
      BY <1>2, <2>2, <2>3
    <3>2. e > a /\ Get(b, z) = "quote"
      BY <2>1, <3>1 DEF z
    <3>3. n > 1 /\ z \in 1..Len(b)
      BY <1>1, <3>2 DEF a, z
    <3> QED BY <3>2, <3>3, GetIs
  <2> QED BY <2>3
<1>7. ASSUME n > 1, b[z] = "quote" PROVE IsText(SubSeq(w, 2, n - 1)) <=> Reaches(b, a, z)
  <2>1. /\ 2 \in Nat /\ n - 1 \in Nat /\ 1 <= 2 /\ 2 <= (n - 1) + 1 /\ n - 1 <= e - s /\ s + 2 - 1 = a /\ s + (n - 1) = z
        /\ a \in 1..Len(b) /\ z \in a..Len(b) /\ a \in a..z /\ a - a + 1 = 1
    BY <1>1, <1>7
  <2> DEFINE j == n - 1
  <2>2. SubSeq(w, 2, j) = Slice(b, s + 2 - 1, s + j)
    <3>1. j \in Nat /\ 2 <= j + 1 /\ j <= e - s
      BY <2>1
    <3> HIDE DEF j
    <3> QED BY <1>2, <2>1, <3>1, SliceOfSlice
  <2>3. SubSeq(w, 2, n - 1) = Slice(b, a, z)
    <3> HIDE DEF n, a, z, w
    <3> QED BY <2>1, <2>2
  <2> HIDE DEF w, n, a, z
  <2>4. TextOf(Slice(b, a, z))[a - a + 1] <=> Reaches(b, a, z)
    BY <1>7, <2>1, TextReaches
  <2>5. IsText(Slice(b, a, z)) <=> TextOf(Slice(b, a, z))[1]
    BY DEF IsText, TextOf
  <2> QED BY <2>1, <2>3, <2>4, <2>5
<1> HIDE DEF w, n, a, z
<1>8. IsString(w) <=> Reaches(b, a, z)
  BY <1>5, <1>6, <1>7
<1> QED BY <1>8 DEF w, a, z

-----------------------------------------------------------------------------
(* Lines of text.                                                          *)

\* A line of text holds its two backslashes and ends at a newline or the end.
LEMMA TextLineIs ==
  ASSUME NEW b \in Seq(SourceBytes), NEW q \in Nat, OpensLine(b, q)
  PROVE  /\ q + 1 <= Len(b)
         /\ q > 0 => /\ TextEnd(b, q) \in (q + 2)..Len(b) + 1 /\ Get(b, TextEnd(b, q)) \in {"nl", "none"}
                     /\ NextText(b, q) \in TextEnd(b, q)..Len(b) + 1
<1>1. Len(b) \in Nat /\ q + 1 \in Nat /\ Get(b, q + 1) # "none"
  BY DEF OpensLine
<1>2. q + 1 <= Len(b)
  BY <1>1, GetIs
<1>3. ASSUME q > 0
      PROVE  /\ TextEnd(b, q) \in (q + 2)..Len(b) + 1 /\ Get(b, TextEnd(b, q)) \in {"nl", "none"}
             /\ NextText(b, q) \in TextEnd(b, q)..Len(b) + 1
  <2>1. q + 2 \in 1..Len(b) + 1
    BY <1>1, <1>2
  <2> DEFINE e == TextEnd(b, q)
  <2>2. e \in (q + 2)..Len(b) + 1 /\ (e > Len(b) \/ b[e] \in {"nl"})
    BY <2>1, FindIs DEF TextEnd
  <2> HIDE DEF e
  <2>3. e \in 1..Len(b) + 1
    BY <1>1, <2>2
  <2>4. Get(b, e) \in {"nl", "none"}
    <3>1. CASE e > Len(b)
      BY <2>3, <3>1, GetIs
    <3>2. CASE ~(e > Len(b))
      <4>1. e \in 1..Len(b)
        BY <1>1, <2>3, <3>2
      <4> QED BY <2>2, <3>2, <4>1, GetIs
    <3> QED BY <3>1, <3>2
  <2>5. RunEnd(b, e, Ws) \in e..Len(b) + 1
    <3>1. "none" \notin Ws
      BY DEF Ws
    <3> QED BY <2>3, <3>1, RunEndIs
  <2> QED BY <2>2, <2>4, <2>5 DEF e, NextText
<1> QED BY <1>2, <1>3

\* scan_multiline_string ends where one of its lines does.
LEMMA MultilineIs ==
  ASSUME NEW b \in Seq(SourceBytes), NEW pos \in 1..Len(b), OpensLine(b, pos)
  PROVE  /\ ScanMultilineString(b, pos) \in (pos + 2)..Len(b) + 1
         /\ Get(b, ScanMultilineString(b, pos)) \in {"nl", "none"}
<1> DEFINE n == Len(b)
           S == {p \in DOMAIN b : OpensLine(b, p)}
           stop == {q \in S : ~OpensLine(b, NextText(b, q))}
           next == [q \in S \ stop |-> NextText(b, q)]
           rank == [q \in S |-> n + 1 - q]
           V == 1..n + 1
           base == [q \in stop |-> TextEnd(b, q)]
           Same(f) == f = [q \in S |-> IF OpensLine(b, NextText(b, q)) THEN f[NextText(b, q)] ELSE TextEnd(b, q)]
<1>1. n \in Nat /\ DOMAIN b = 1..n
  OBVIOUS
<1>2. ASSUME NEW q \in S
      PROVE  /\ q \in 1..n /\ TextEnd(b, q) \in (q + 2)..n + 1 /\ Get(b, TextEnd(b, q)) \in {"nl", "none"}
             /\ NextText(b, q) \in TextEnd(b, q)..n + 1 /\ NextText(b, q) > q
             /\ q \notin stop => NextText(b, q) \in S
  <2>1. q \in 1..n /\ q \in Nat /\ q > 0 /\ OpensLine(b, q)
    BY <1>1, <1>2
  <2>2. TextEnd(b, q) \in (q + 2)..n + 1 /\ Get(b, TextEnd(b, q)) \in {"nl", "none"} /\ NextText(b, q) \in TextEnd(b, q)..n + 1
    BY <2>1, TextLineIs
  <2> DEFINE t == NextText(b, q)
             e == TextEnd(b, q)
  <2>3. t \in Nat /\ t > q
    <3> HIDE DEF t, e
    <3>1. e \in (q + 2)..n + 1 /\ t \in e..n + 1
      BY <2>2 DEF t, e
    <3> HIDE DEF n
    <3> QED BY <1>1, <2>1, <3>1
  <2>4. q \notin stop => t \in S
    <3> SUFFICES ASSUME q \notin stop PROVE t \in S
      OBVIOUS
    <3>1. OpensLine(b, t)
      BY <1>2
    <3> HIDE DEF t
    <3>2. t + 1 <= n
      BY <2>3, <3>1, TextLineIs
    <3>3. t \in 1..n
      BY <1>1, <2>1, <2>3, <3>2
    <3> QED BY <1>1, <3>1, <3>3
  <2> HIDE DEF t, stop, S
  <2> QED BY <2>1, <2>2, <2>3, <2>4 DEF t
<1> HIDE DEF n
<1>3. Descends(S, stop, next, rank, n)
  <2>1. \A q \in S \ stop : next[q] = NextText(b, q) /\ NextText(b, q) \in S /\ NextText(b, q) > q
    BY <1>2
  <2>2. \A q \in S : q \in 1..n
    BY <1>1
  <2>3. rank \in [S -> 0..n]
    <3> HIDE DEF S
    <3> QED BY <1>1, <2>2
  <2>4. next \in [S \ stop -> S] /\ stop \subseteq S
    <3>1. stop \subseteq S
      OBVIOUS
    <3> HIDE DEF S, stop
    <3> QED BY <2>1, <3>1
  <2>5. ASSUME NEW q \in S \ stop PROVE rank[next[q]] < rank[q]
    <3> DEFINE t == next[q]
    <3>1. t \in S /\ t > q
      BY <2>1
    <3> HIDE DEF t, S, stop, next
    <3>2. rank[t] = n + 1 - t /\ rank[q] = n + 1 - q /\ t \in 1..n /\ q \in 1..n
      BY <2>2, <3>1
    <3> HIDE DEF rank
    <3>3. rank[t] < rank[q]
      BY <1>1, <3>1, <3>2
    <3> QED BY <3>3 DEF t
  <2> HIDE DEF S, stop, next, rank
  <2> QED BY <1>1, <2>3, <2>4, <2>5 DEF Descends
<1>4. base \in [stop -> V] /\ V # {}
  <2>1. \A q \in stop : TextEnd(b, q) \in V
    <3> SUFFICES ASSUME NEW q \in stop PROVE TextEnd(b, q) \in V
      OBVIOUS
    <3> DEFINE e == TextEnd(b, q)
    <3>1. q \in 1..n /\ e \in (q + 2)..n + 1
      BY <1>2
    <3> HIDE DEF e
    <3>2. e \in V
      BY <1>1, <3>1
    <3> QED BY <3>2 DEF e
  <2>2. 1 \in V
    BY <1>1
  <2> HIDE DEF S, V, stop
  <2> QED BY <2>1, <2>2
<1>5. PICK f \in [S -> V] : Loops(f, S, stop, base, next)
  <2> HIDE DEF S, stop, next, rank, base, V
  <2> QED BY <1>3, <1>4, LoopExists
<1>6. Same(f)
  <2>1. \A q \in S : f[q] = IF OpensLine(b, NextText(b, q)) THEN f[NextText(b, q)] ELSE TextEnd(b, q)
    <3> SUFFICES ASSUME NEW q \in S PROVE f[q] = IF OpensLine(b, NextText(b, q)) THEN f[NextText(b, q)] ELSE TextEnd(b, q)
      OBVIOUS
    <3>1. CASE q \in stop
      BY <1>5, <3>1 DEF Loops
    <3>2. CASE q \notin stop
      BY <1>5, <3>2 DEF Loops
    <3> QED BY <3>1, <3>2
  <2>2. f = [q \in S |-> f[q]]
    BY <1>5
  <2> HIDE DEF S
  <2> QED BY <2>1, <2>2
<1>7. MultilineScan(b) = CHOOSE g : Same(g)
  BY DEF MultilineScan
<1> HIDE DEF Same
<1>8. Same(MultilineScan(b))
  BY <1>6, <1>7
<1> DEFINE r == MultilineScan(b)
<1>9. \A q \in S : r[q] = IF OpensLine(b, NextText(b, q)) THEN r[NextText(b, q)] ELSE TextEnd(b, q)
  <2>1. r = [q \in S |-> IF OpensLine(b, NextText(b, q)) THEN r[NextText(b, q)] ELSE TextEnd(b, q)]
    BY <1>8 DEF Same
  <2> HIDE DEF r, S
  <2> QED BY <2>1
<1> HIDE DEF r
<1> DEFINE Right(q, v) == v \in (q + 2)..n + 1 /\ Get(b, v) \in {"nl", "none"}
           T == {q \in S : Right(q, r[q])}
<1>10. ASSUME NEW q \in stop PROVE q \in T
  <2>1. q \in S /\ r[q] = TextEnd(b, q)
    BY <1>9
  <2>2. TextEnd(b, q) \in (q + 2)..n + 1 /\ Get(b, TextEnd(b, q)) \in {"nl", "none"}
    BY <1>2, <2>1
  <2> HIDE DEF S
  <2> QED BY <2>1, <2>2
<1>11. ASSUME NEW q \in S \ stop, next[q] \in T PROVE q \in T
  <2> DEFINE t == NextText(b, q)
             v == r[t]
  <2>1. next[q] = t /\ r[q] = v /\ Right(t, v) /\ q \in S /\ t > q /\ t \in 1..n /\ q \in 1..n
    <3>1. q \in S /\ q \notin stop /\ OpensLine(b, t)
      OBVIOUS
    <3>2. t \in S /\ t > q
      BY <1>2, <3>1
    <3>3. r[q] = v
      BY <1>9, <3>1
    <3>4. t \in 1..n /\ q \in 1..n
      BY <1>1, <3>1, <3>2
    <3> QED BY <1>11, <3>1, <3>2, <3>3, <3>4
  <2> HIDE DEF t, v
  <2>2. Right(q, v)
    BY <1>1, <2>1
  <2> HIDE DEF Right, S
  <2> QED BY <2>1, <2>2
<1>12. S \subseteq T
  <2> HIDE DEF S, T, stop, next, rank
  <2> QED BY <1>3, <1>10, <1>11, RankInduct
<1>13. Right(pos, r[pos])
  <2>1. pos \in S
    BY <1>1 DEF n
  <2> HIDE DEF Right, S
  <2> QED BY <1>12, <2>1
<1> QED BY <1>13 DEF r, n, ScanMultilineString

-----------------------------------------------------------------------------
(* What one call of a lex_ function leaves.                                *)

\* The streams of tokens and of diagnostics (token.rs TokenKind, diag.rs).
TokenKinds == {"Whitespace", "Ident", "Keyword", "Underscore", "LineComment", "BlockComment", "MultilineStr", "Range", "Punct",
               "Int", "Float", "Str", "Error", "Eof"}
LexCodes == {"UnterminatedBlockComment", "UnterminatedString", "BadEscape", "BadSuffix", "StrayByte", "BadRangeDots", "InvalidUtf8"}
TokenSet == [kind : TokenKinds, start : Nat]
DiagSet == [start : Nat, end : Nat, code : LexCodes]

\* What a call of the lexer leaves when it makes one token, and when the suffix of a number is bad.
OneRight(b, s, one) ==
    /\ one.pos \in (s + 1)..Len(b) + 1 /\ one.diags \in Seq(DiagSet)
    /\ Len(one.diags) <= 1 /\ \A d \in DOMAIN one.diags : one.diags[d].start = s
    /\ \E k \in TokenKinds :
          /\ one.toks = <<Tok(k, s)>> /\ TokenRight(b, k, s, one.pos)
          /\ k = "Error" => (\E d \in DOMAIN one.diags : one.diags[d].start = s /\ one.diags[d].end = one.pos)
PairRight(b, s, one) ==
    /\ one.pos \in (s + 1)..Len(b) + 1
    /\ \E k \in {"Int", "Float"}, m \in (s + 1)..one.pos - 1 :
          /\ one.toks = <<Tok(k, s), Tok("Error", m)>> /\ one.diags = <<Diag(m, one.pos, "BadSuffix")>>
          /\ TokenRight(b, k, s, m) /\ TokenRight(b, "Error", m, one.pos)

\* The end of the source and a quote are no letters of names, and a quote is no digit.
LEMMA NamedBytes ==
  /\ "none" \notin IdentContinue /\ "quote" \notin IdentContinue /\ "quote" \notin Dec
BY Zenon DEF IdentContinue, Alpha, Dec, Underscore

\* There is always a place behind a byte.
LEMMA NextPlace ==
  ASSUME NEW b \in Seq(SourceBytes), NEW s \in 1..Len(b)
  PROVE  s \in Nat /\ Len(b) \in Nat /\ s + 1 \in 1..Len(b) + 1
<1>1. Len(b) \in Nat
  BY GetIs
<1> QED BY <1>1

\* A token right by itself is right as the only one a call pushes.
LEMMA OneGood ==
  ASSUME NEW b \in Seq(SourceBytes), NEW s \in 1..Len(b), NEW e \in (s + 1)..Len(b) + 1, NEW k \in TokenKinds,
         k # "Error", TokenRight(b, k, s, e)
  PROVE  OneRight(b, s, One(k, s, e))
<1>1. One(k, s, e) = [pos |-> e, toks |-> <<Tok(k, s)>>, diags |-> <<>>]
  BY DEF One
<1> DEFINE one == One(k, s, e)
<1>2. one.pos = e /\ one.toks = <<Tok(k, s)>> /\ one.diags = <<>>
  BY <1>1
<1> HIDE DEF one
<1>3. <<>> \in Seq(DiagSet) /\ Len(<<>>) <= 1 /\ DOMAIN <<>> = {}
  OBVIOUS
<1>4. OneRight(b, s, one)
  BY <1>2, <1>3 DEF OneRight
<1> QED BY <1>4 DEF one

\* An error token comes with the diagnostic of its extent: where no string starts, or none that
\* the grammar has.
LEMMA BadGood ==
  ASSUME NEW b \in Seq(SourceBytes), NEW s \in 1..Len(b), NEW e \in (s + 1)..Len(b) + 1, NEW code \in LexCodes,
         b[s] = "quote" => ~HoldsString(b, s)
  PROVE  OneRight(b, s, Bad(s, e, code))
<1>1. Bad(s, e, code) = [pos |-> e, toks |-> <<Tok("Error", s)>>, diags |-> <<Diag(s, e, code)>>]
  BY DEF Bad
<1> DEFINE one == Bad(s, e, code)
<1>2. one.pos = e /\ one.toks = <<Tok("Error", s)>> /\ one.diags = <<Diag(s, e, code)>>
  BY <1>1
<1> HIDE DEF one
<1>3. Diag(s, e, code) \in DiagSet /\ Diag(s, e, code).start = s /\ Diag(s, e, code).end = e
  <2>1. s \in Nat /\ e \in Nat
    <3>1. Len(b) \in Nat
      OBVIOUS
    <3> QED BY <3>1
  <2> QED BY <2>1 DEF Diag, DiagSet
<1> DEFINE g == Diag(s, e, code)
           ds == <<g>>
<1> HIDE DEF g
<1>4. ds \in Seq(DiagSet) /\ 1 \in DOMAIN ds /\ ds[1] = g /\ Len(ds) <= 1 /\ \A d \in DOMAIN ds : ds[d] = g
  BY <1>3 DEF g
<1> HIDE DEF ds
<1>5. one.diags = ds
  BY <1>2 DEF ds, g
<1>6. g.start = s /\ g.end = one.pos
  BY <1>2, <1>3 DEF g
<1>7. \E d \in DOMAIN one.diags : one.diags[d].start = s /\ one.diags[d].end = one.pos
  BY <1>4, <1>5, <1>6
<1>8. TokenRight(b, "Error", s, one.pos)
  BY DEF TokenRight
<1>9. one.pos \in (s + 1)..Len(b) + 1 /\ one.diags \in Seq(DiagSet)
      /\ Len(one.diags) <= 1 /\ \A d \in DOMAIN one.diags : one.diags[d].start = s
  BY <1>2, <1>4, <1>5, <1>6
<1> DEFINE k == "Error"
<1>10. k \in TokenKinds /\ one.toks = <<Tok(k, s)>> /\ TokenRight(b, k, s, one.pos)
  <2>1. "Error" \in TokenKinds
    BY DEF TokenKinds
  <2>2. one.toks = <<Tok("Error", s)>>
    BY <1>2
  <2> QED BY <1>8, <2>1, <2>2
<1>11. OneRight(b, s, one)
  <2> HIDE DEF k
  <2> QED BY <1>7, <1>9, <1>10 DEF OneRight
<1> QED BY <1>11 DEF one

\* The bytes of a slice that starts at a byte.
LEMMA SliceIs ==
  ASSUME NEW b \in Seq(SourceBytes), NEW s \in 1..Len(b), NEW e \in s..Len(b) + 1
  PROVE  /\ Slice(b, s, e) \in Seq(SourceBytes) /\ Len(Slice(b, s, e)) = e - s
         /\ DOMAIN Slice(b, s, e) = 1..e - s
         /\ \A i \in 1..e - s : Slice(b, s, e)[i] = b[s + i - 1]
<1>1. s \in 1..Len(b) + 1
  <2>1. Len(b) \in Nat
    BY GetIs
  <2> QED BY <2>1
<1> QED BY <1>1, SliceAt

\* A slice of bytes of a class.
LEMMA SliceAllIn ==
  ASSUME NEW b \in Seq(SourceBytes), NEW s \in 1..Len(b), NEW e \in (s + 1)..Len(b) + 1, NEW X,
         b[s] \in X, \A r \in (s + 1)..e - 1 : b[r] \in X
  PROVE  AllIn(Slice(b, s, e), X)
<1>1. Len(b) \in Nat /\ s \in Nat /\ e \in Nat /\ e \in s..Len(b) + 1
  <2>1. Len(b) \in Nat
    OBVIOUS
  <2> QED BY <2>1
<1>2. DOMAIN Slice(b, s, e) = 1..e - s /\ \A i \in 1..e - s : Slice(b, s, e)[i] = b[s + i - 1]
  BY <1>1, SliceIs
<1>3. ASSUME NEW i \in 1..e - s PROVE b[s + i - 1] \in X
  <2>1. s + i - 1 = s \/ s + i - 1 \in (s + 1)..e - 1
    BY <1>1
  <2> QED BY <2>1
<1> QED BY <1>2, <1>3 DEF AllIn

\* The slice of two bytes.
LEMMA SliceOfTwo ==
  ASSUME NEW b \in Seq(SourceBytes), NEW s \in 1..Len(b), s + 1 <= Len(b)
  PROVE  Slice(b, s, s + 2) = <<b[s], b[s + 1]>>
<1>1. Len(b) \in Nat /\ s \in Nat /\ s + 2 \in s..Len(b) + 1 /\ (s + 2) - s = 2
  <2>1. Len(b) \in Nat
    OBVIOUS
  <2> QED BY <2>1
<1> DEFINE x == Slice(b, s, s + 2)
<1>2. x \in Seq(SourceBytes) /\ Len(x) = 2 /\ \A i \in 1..2 : x[i] = b[s + i - 1]
  <2>1. Slice(b, s, s + 2) \in Seq(SourceBytes) /\ Len(Slice(b, s, s + 2)) = (s + 2) - s
        /\ \A i \in 1..(s + 2) - s : Slice(b, s, s + 2)[i] = b[s + i - 1]
    BY <1>1, SliceIs
  <2> QED BY <1>1, <2>1
<1> HIDE DEF x
<1>3. x[1] = b[s] /\ x[2] = b[s + 1]
  <2>1. s + 1 - 1 = s /\ s + 2 - 1 = s + 1
    BY <1>1
  <2> QED BY <1>2, <2>1
<1>4. x = <<x[1], x[2]>>
  BY <1>2
<1> QED BY <1>3, <1>4 DEF x

\* The slice of three bytes.
LEMMA SliceOfThree ==
  ASSUME NEW b \in Seq(SourceBytes), NEW s \in 1..Len(b), s + 2 <= Len(b)
  PROVE  Slice(b, s, s + 3) = <<b[s], b[s + 1], b[s + 2]>>
<1>1. Len(b) \in Nat /\ s \in Nat /\ s + 3 \in s..Len(b) + 1 /\ (s + 3) - s = 3
  <2>1. Len(b) \in Nat
    OBVIOUS
  <2> QED BY <2>1
<1> DEFINE x == Slice(b, s, s + 3)
<1>2. x \in Seq(SourceBytes) /\ Len(x) = 3 /\ \A i \in 1..3 : x[i] = b[s + i - 1]
  <2>1. Slice(b, s, s + 3) \in Seq(SourceBytes) /\ Len(Slice(b, s, s + 3)) = (s + 3) - s
        /\ \A i \in 1..(s + 3) - s : Slice(b, s, s + 3)[i] = b[s + i - 1]
    BY <1>1, SliceIs
  <2> QED BY <1>1, <2>1
<1> HIDE DEF x
<1>3. x[1] = b[s] /\ x[2] = b[s + 1] /\ x[3] = b[s + 2]
  <2>1. s + 1 - 1 = s /\ s + 2 - 1 = s + 1 /\ s + 3 - 1 = s + 2
    BY <1>1
  <2> QED BY <1>2, <2>1
<1>4. x = <<x[1], x[2], x[3]>>
  BY <1>2
<1> QED BY <1>3, <1>4 DEF x

-----------------------------------------------------------------------------
(* Each lex_ function.                                                     *)

\* lex_whitespace.
LEMMA WhitespaceGood ==
  ASSUME NEW b \in Seq(SourceBytes), NEW s \in 1..Len(b), b[s] \in Ws
  PROVE  OneRight(b, s, LexWhitespace(b, s))
<1> DEFINE e == RunEnd(b, s + 1, Ws)
<1>1. s \in Nat /\ Len(b) \in Nat /\ s + 1 \in 1..Len(b) + 1 /\ "none" \notin Ws
  <2>1. Len(b) \in Nat
    BY GetIs
  <2>2. "none" \notin Ws
    BY DEF Ws
  <2> HIDE DEF e
  <2> QED BY <2>1, <2>2
<1>2. e \in (s + 1)..Len(b) + 1 /\ Get(b, e) \notin Ws /\ \A r \in (s + 1)..e - 1 : b[r] \in Ws
  BY <1>1, RunEndIs
<1> HIDE DEF e
<1>3. AllIn(Slice(b, s, e), Ws)
  BY <1>2, SliceAllIn
<1>4. TokenRight(b, "Whitespace", s, e)
  BY <1>2, <1>3 DEF TokenRight
<1>5. "Whitespace" \in TokenKinds /\ "Whitespace" # "Error"
  BY DEF TokenKinds
<1>6. OneRight(b, s, One("Whitespace", s, e))
  BY <1>2, <1>4, <1>5, OneGood
<1> QED BY <1>6 DEF LexWhitespace, e

\* lex_line_comment.
LEMMA LineCommentGood ==
  ASSUME NEW b \in Seq(SourceBytes), NEW s \in 1..Len(b), b[s] = "/", Get(b, s + 1) = "/"
  PROVE  OneRight(b, s, LexLineComment(b, s))
<1> DEFINE e == Find(b, s + 2, {"nl"})
<1>1. s \in Nat /\ Len(b) \in Nat /\ s + 1 <= Len(b) /\ s + 2 \in 1..Len(b) + 1 /\ b[s + 1] = "/"
  <2>1. Len(b) \in Nat /\ s \in Nat /\ s + 1 \in Nat
    OBVIOUS
  <2>2. Get(b, s + 1) # "none"
    OBVIOUS
  <2>3. s + 1 <= Len(b)
    BY <2>1, <2>2, GetIs
  <2>4. s + 1 \in 1..Len(b)
    BY <2>1, <2>3
  <2>5. Get(b, s + 1) = b[s + 1]
    BY <2>4, GetIs
  <2> QED BY <2>1, <2>3, <2>5
<1>2. e \in (s + 2)..Len(b) + 1 /\ (e > Len(b) \/ b[e] \in {"nl"}) /\ \A r \in (s + 2)..e - 1 : b[r] \notin {"nl"}
  BY <1>1, FindIs
<1> HIDE DEF e
<1>3. e \in (s + 1)..Len(b) + 1 /\ e \in 1..Len(b) + 1
  BY <1>1, <1>2
<1>4. Get(b, e) \in {"nl", "none"}
  BY <1>1, <1>2, <1>3 DEF Get
<1>5. Slice(b, s, s + 2) = <<"/", "/">>
  BY <1>1, SliceOfTwo
<1>6. \A p \in s..e - 1 : b[p] # "nl"
  <2> SUFFICES ASSUME NEW p \in s..e - 1 PROVE b[p] # "nl"
    OBVIOUS
  <2>1. p = s \/ p = s + 1 \/ p \in (s + 2)..e - 1
    BY <1>1, <1>3
  <2> QED BY <1>1, <1>2, <2>1
<1>7. TokenRight(b, "LineComment", s, e)
  BY <1>4, <1>5, <1>6 DEF TokenRight
<1>8. "LineComment" \in TokenKinds /\ "LineComment" # "Error"
  BY DEF TokenKinds
<1>9. OneRight(b, s, One("LineComment", s, e))
  BY <1>3, <1>7, <1>8, OneGood
<1> QED BY <1>9 DEF LexLineComment, e

\* lex_block_comment: it holds four bytes at least, so `/*/` is none.
LEMMA BlockCommentGood ==
  ASSUME NEW b \in Seq(SourceBytes), NEW s \in 1..Len(b), b[s] = "/", Get(b, s + 1) = "*"
  PROVE  OneRight(b, s, LexBlockComment(b, s))
<1> DEFINE end == BlockScan(b)[<<s + 2, 1>>]
           e == end.pos
<1>1. s \in Nat /\ Len(b) \in Nat /\ s + 1 <= Len(b) /\ s + 2 \in 1..Len(b) + 1 /\ b[s + 1] = "*"
  <2>1. Len(b) \in Nat /\ s \in Nat /\ s + 1 \in Nat
    OBVIOUS
  <2>2. Get(b, s + 1) # "none"
    OBVIOUS
  <2>3. s + 1 <= Len(b)
    BY <2>1, <2>2, GetIs
  <2>4. s + 1 \in 1..Len(b)
    BY <2>1, <2>3
  <2>5. Get(b, s + 1) = b[s + 1]
    BY <2>4, GetIs
  <2> QED BY <2>1, <2>3, <2>5
<1>2. /\ e \in (s + 2)..Len(b) + 1
      /\ end.ended => e >= (s + 2) + 2 /\ Get(b, e - 2) = "*" /\ Get(b, e - 1) = "/"
  <2>1. 1 \in Nat /\ 1 > 0
    OBVIOUS
  <2> QED BY <1>1, <2>1, BlockScanIs
<1>3. LexBlockComment(b, s) = IF end.ended THEN One("BlockComment", s, e) ELSE Bad(s, e, "UnterminatedBlockComment")
  BY DEF LexBlockComment
<1> DEFINE said == end.ended
<1> HIDE DEF e, end, said
<1>4. e \in (s + 1)..Len(b) + 1
  BY <1>1, <1>2
<1>5. CASE said
  <2>1. e >= s + 4 /\ Get(b, e - 2) = "*" /\ Get(b, e - 1) = "/" /\ e \in Nat
    BY <1>1, <1>2, <1>5 DEF said
  <2>2. e - 2 \in 1..Len(b) /\ e - 1 \in 1..Len(b) /\ (e - 2) + 1 = e - 1 /\ (e - 2) + 2 = e /\ e - s >= 4
    BY <1>1, <1>4, <2>1
  <2>3. b[e - 2] = "*" /\ b[e - 1] = "/"
    BY <2>1, <2>2, GetIs
  <2>4. Slice(b, e - 2, e) = <<"*", "/">>
    <3>1. (e - 2) + 1 <= Len(b)
      BY <2>2
    <3>2. Slice(b, e - 2, (e - 2) + 2) = <<b[e - 2], b[(e - 2) + 1]>>
      BY <2>2, <3>1, SliceOfTwo
    <3> QED BY <2>2, <2>3, <3>2
  <2>5. Slice(b, s, s + 2) = <<"/", "*">>
    BY <1>1, SliceOfTwo
  <2>6. TokenRight(b, "BlockComment", s, e)
    BY <2>2, <2>4, <2>5 DEF TokenRight
  <2>7. "BlockComment" \in TokenKinds /\ "BlockComment" # "Error"
    BY DEF TokenKinds
  <2>8. OneRight(b, s, One("BlockComment", s, e))
    BY <1>4, <2>6, <2>7, OneGood
  <2> QED BY <1>3, <1>5, <2>8 DEF said
<1>6. CASE ~said
  <2>1. "UnterminatedBlockComment" \in LexCodes
    BY DEF LexCodes
  <2>2. OneRight(b, s, Bad(s, e, "UnterminatedBlockComment"))
    BY <1>4, <2>1, BadGood
  <2> QED BY <1>3, <1>6, <2>2 DEF said
<1> QED BY <1>5, <1>6

\* The arm of lex for two backslashes.
LEMMA MultilineGood ==
  ASSUME NEW b \in Seq(SourceBytes), NEW s \in 1..Len(b), b[s] = "bs", Get(b, s + 1) = "bs"
  PROVE  OneRight(b, s, One("MultilineStr", s, ScanMultilineString(b, s)))
<1> DEFINE e == ScanMultilineString(b, s)
<1>1. s \in Nat /\ Len(b) \in Nat /\ Get(b, s) = "bs"
  BY GetIs
<1>2. OpensLine(b, s)
  BY <1>1 DEF OpensLine
<1>3. e \in (s + 2)..Len(b) + 1 /\ Get(b, e) \in {"nl", "none"}
  BY <1>2, MultilineIs
<1> HIDE DEF e
<1>4. e \in (s + 1)..Len(b) + 1
  BY <1>1, <1>3
<1>5. s + 1 <= Len(b)
  BY <1>1, <1>2, TextLineIs
<1>6. Slice(b, s, s + 2) = <<"bs", "bs">>
  <2>1. s + 1 \in 1..Len(b)
    BY <1>1, <1>5
  <2>2. b[s + 1] = "bs"
    BY <2>1, GetIs
  <2> QED BY <1>5, <2>2, SliceOfTwo
<1>7. TokenRight(b, "MultilineStr", s, e)
  BY <1>3, <1>6 DEF TokenRight
<1>8. "MultilineStr" \in TokenKinds /\ "MultilineStr" # "Error"
  BY DEF TokenKinds
<1>9. OneRight(b, s, One("MultilineStr", s, e))
  BY <1>4, <1>7, <1>8, OneGood
<1> QED BY <1>9 DEF e

\* lex_ident_or_keyword.
LEMMA IdentGood ==
  ASSUME NEW b \in Seq(SourceBytes), NEW s \in 1..Len(b), b[s] \in IdentStart, KeywordsAreWords
  PROVE  OneRight(b, s, LexIdentOrKeyword(b, s))
<1> DEFINE e == RunEnd(b, s + 1, IdentContinue)
           word == Slice(b, s, e)
           k == IF word = <<Underscore>> THEN "Underscore" ELSE IF word \in Keywords THEN "Keyword" ELSE "Ident"
<1>1. s \in Nat /\ Len(b) \in Nat /\ s + 1 \in 1..Len(b) + 1 /\ "none" \notin IdentContinue
  <2>1. s \in Nat /\ Len(b) \in Nat /\ s + 1 \in 1..Len(b) + 1
    BY NextPlace
  <2>2. "none" \notin IdentContinue
    BY NamedBytes
  <2> HIDE DEF e, word, k
  <2> QED BY <2>1, <2>2
<1>2. e \in (s + 1)..Len(b) + 1 /\ Get(b, e) \notin IdentContinue /\ \A r \in (s + 1)..e - 1 : b[r] \in IdentContinue
  BY <1>1, RunEndIs
<1>3. LexIdentOrKeyword(b, s) = One(k, s, e)
  BY DEF LexIdentOrKeyword
<1> HIDE DEF e
<1>4. AllIn(word, IdentContinue)
  <2>1. b[s] \in IdentContinue
    BY DEF IdentStart, IdentContinue
  <2> HIDE DEF word
  <2> QED BY <1>2, <2>1, SliceAllIn DEF word
<1>5. k \in {"Ident", "Keyword", "Underscore"} /\ (k = "Keyword" <=> word \in Keywords) /\ (k = "Underscore" <=> word = <<Underscore>>)
  <2> HIDE DEF word
  <2>1. CASE word = <<Underscore>>
    BY <2>1 DEF KeywordsAreWords
  <2>2. CASE word # <<Underscore>> /\ word \in Keywords
    BY <2>2
  <2>3. CASE word # <<Underscore>> /\ word \notin Keywords
    BY <2>3
  <2> QED BY <2>1, <2>2, <2>3
<1> HIDE DEF k
<1>6. TokenRight(b, k, s, e)
  <2>1. k \in {"Ident", "Keyword", "Underscore"} =>
           TokenRight(b, k, s, e) = (/\ b[s] \in IdentStart /\ AllIn(Slice(b, s, e), IdentContinue) /\ Get(b, e) \notin IdentContinue
                                     /\ k = "Keyword" <=> Slice(b, s, e) \in Keywords
                                     /\ k = "Underscore" <=> Slice(b, s, e) = <<Underscore>>)
    BY DEF TokenRight
  <2> QED BY <1>2, <1>4, <1>5, <2>1
<1>7. k \in TokenKinds /\ k # "Error"
  BY <1>5 DEF TokenKinds
<1>8. OneRight(b, s, One(k, s, e))
  BY <1>2, <1>6, <1>7, OneGood
<1> QED BY <1>3, <1>8

\* The arm of lex for `..`.
LEMMA RangeGood ==
  ASSUME NEW b \in Seq(SourceBytes), NEW s \in 1..Len(b), b[s] = ".", Get(b, s + 1) = "."
  PROVE  OneRight(b, s, Range3(b, s))
<1>1. s \in Nat /\ Len(b) \in Nat /\ s + 1 \in Nat /\ s + 2 \in Nat
  BY NextPlace
<1>2. s + 1 <= Len(b)
  <2>1. Get(b, s + 1) # "none"
    OBVIOUS
  <2> QED BY <1>1, <2>1, GetIs
<1>3. CASE Get(b, s + 2) \in {"<", "="}
  <2>1. s + 2 <= Len(b)
    <3>1. Get(b, s + 2) # "none"
      BY <1>3
    <3> QED BY <1>1, <3>1, GetIs
  <2>2. s + 1 \in 1..Len(b) /\ s + 2 \in 1..Len(b) /\ s + 3 \in (s + 1)..Len(b) + 1
    BY <1>1, <2>1
  <2>3. b[s + 1] = "." /\ b[s + 2] \in {"<", "="}
    BY <1>3, <2>2, GetIs
  <2>4. Slice(b, s, s + 3) = <<".", ".", b[s + 2]>>
    BY <2>1, <2>3, SliceOfThree
  <2>5. TokenRight(b, "Range", s, s + 3)
    BY <2>3, <2>4 DEF TokenRight
  <2>6. "Range" \in TokenKinds /\ "Range" # "Error"
    BY DEF TokenKinds
  <2>7. OneRight(b, s, One("Range", s, s + 3))
    BY <2>2, <2>5, <2>6, OneGood
  <2> QED BY <1>3, <2>7 DEF Range3
<1>4. CASE Get(b, s + 2) \notin {"<", "="}
  <2>1. s + 2 \in (s + 1)..Len(b) + 1
    BY <1>1, <1>2
  <2>2. "BadRangeDots" \in LexCodes
    BY DEF LexCodes
  <2>3. OneRight(b, s, Bad(s, s + 2, "BadRangeDots"))
    BY <2>1, <2>2, BadGood
  <2> QED BY <1>4, <2>3 DEF Range3
<1> QED BY <1>3, <1>4

\* No punctuation is of four bytes, so a longest one is the longest there is.
LEMMA PunctsShort ==
  ASSUME NEW x \in Puncts
  PROVE  Len(x) # 4
<1>1. \/ \E y1 : x = <<y1>>
      \/ \E y1, y2 : x = <<y1, y2>>
      \/ \E y1, y2, y3 : x = <<y1, y2, y3>>
  BY Zenon DEF Puncts
<1>2. CASE \E y1 : x = <<y1>>
  <2>1. PICK y1 : x = <<y1>>
    BY <1>2
  <2>2. Len(x) = 1
    BY <2>1
  <2> QED BY <2>2
<1>3. CASE \E y1, y2 : x = <<y1, y2>>
  <2>1. PICK y1, y2 : x = <<y1, y2>>
    BY <1>3
  <2>2. Len(x) = 2
    BY <2>1
  <2> QED BY <2>2
<1>4. CASE \E y1, y2, y3 : x = <<y1, y2, y3>>
  <2>1. PICK y1, y2, y3 : x = <<y1, y2, y3>>
    BY <1>4
  <2>2. Len(x) = 3
    BY <2>1
  <2> QED BY <2>2
<1> QED BY <1>1, <1>2, <1>3, <1>4

\* scan_punct, and the stray bytes it refuses.
LEMMA PunctGood ==
  ASSUME NEW b \in Seq(SourceBytes), NEW s \in 1..Len(b), b[s] # "quote"
  PROVE  OneRight(b, s, ScanPunct(b, s))
<1> DEFINE lens == PunctLengths(b, s)
           Most(n) == \A m \in lens : m <= n
           len == CHOOSE n \in lens : Most(n)
<1>1. s \in Nat /\ Len(b) \in Nat /\ s + 1 \in (s + 1)..Len(b) + 1 /\ s + 1 \in 1..Len(b) + 1
  BY NextPlace
<1>2. lens \subseteq 1..3 /\ \A n \in 1..3 : n \in lens <=> s + n - 1 <= Len(b) /\ Slice(b, s, s + n) \in Puncts
  BY DEF PunctLengths
<1>3. ScanPunct(b, s) = IF lens # {} THEN One("Punct", s, s + len)
                        ELSE IF b[s] \in NonAscii THEN Bad(s, RunEnd(b, s + 1, NonAscii), "StrayByte")
                        ELSE Bad(s, s + 1, "StrayByte")
  BY DEF ScanPunct
<1>4. "StrayByte" \in LexCodes
  BY DEF LexCodes
<1> HIDE DEF lens
<1>5. CASE lens # {}
  <2>1. \E n \in lens : Most(n)
    <3>1. CASE 3 \in lens
      <4>1. Most(3)
        BY <1>2
      <4> QED BY <3>1, <4>1
    <3>2. CASE 3 \notin lens /\ 2 \in lens
      <4>1. Most(2)
        BY <1>2, <3>2
      <4> QED BY <3>2, <4>1
    <3>3. CASE 3 \notin lens /\ 2 \notin lens
      <4>1. 1 \in lens
        <5>1. PICK n \in lens : TRUE
          BY <1>5
        <5>2. n \in 1..3 /\ n # 3 /\ n # 2
          BY <1>2, <3>3, <5>1
        <5>3. n = 1
          BY <5>2
        <5> QED BY <5>1, <5>3
      <4>2. Most(1)
        BY <1>2, <3>3
      <4> QED BY <4>1, <4>2
    <3> QED BY <3>1, <3>2, <3>3
  <2> HIDE DEF Most
  <2>2. len \in lens /\ Most(len)
    BY <2>1
  <2> HIDE DEF len
  <2>3. len \in 1..3 /\ s + len - 1 <= Len(b) /\ Slice(b, s, s + len) \in Puncts
    BY <1>2, <2>2
  <2> DEFINE e == s + len
  <2>4. e \in (s + 1)..Len(b) + 1 /\ e - s = len
    BY <1>1, <2>3
  <2>5. ASSUME e <= Len(b) PROVE Slice(b, s, e + 1) \notin Puncts
    <3> SUFFICES ASSUME Slice(b, s, e + 1) \in Puncts PROVE FALSE
      OBVIOUS
    <3>1. CASE len < 3
      <4>1. len + 1 \in 1..3 /\ s + (len + 1) = e + 1 /\ s + (len + 1) - 1 <= Len(b)
        BY <1>1, <2>3, <2>5, <3>1
      <4>2. Slice(b, s, s + (len + 1)) \in Puncts
        BY <4>1
      <4>3. len + 1 \in lens
        BY <1>2, <4>1, <4>2
      <4>4. len + 1 <= len
        BY <2>2, <4>3 DEF Most
      <4> QED BY <2>3, <4>4
    <3>2. CASE ~(len < 3)
      <4>1. e + 1 \in s..Len(b) + 1 /\ (e + 1) - s = 4
        BY <1>1, <2>3, <2>5, <3>2
      <4>2. Len(Slice(b, s, e + 1)) = 4
        <5> DEFINE z == e + 1
        <5>1. z \in s..Len(b) + 1 /\ z - s = 4
          BY <4>1
        <5> HIDE DEF z
        <5>2. Len(Slice(b, s, z)) = z - s
          BY <5>1, SliceIs
        <5> QED BY <5>1, <5>2 DEF z
      <4> QED BY <4>2, PunctsShort
    <3> QED BY <3>1, <3>2
  <2> HIDE DEF e
  <2>6. TokenRight(b, "Punct", s, e)
    <3>1. Slice(b, s, e) \in Puncts
      BY <2>3 DEF e
    <3>2. TokenRight(b, "Punct", s, e) = (Slice(b, s, e) \in Puncts /\ (e <= Len(b) => Slice(b, s, e + 1) \notin Puncts))
      BY DEF TokenRight
    <3> QED BY <2>5, <3>1, <3>2
  <2>7. "Punct" \in TokenKinds /\ "Punct" # "Error"
    BY DEF TokenKinds
  <2>8. OneRight(b, s, One("Punct", s, e))
    BY <2>4, <2>6, <2>7, OneGood
  <2> QED BY <1>3, <1>5, <2>8 DEF e
<1>6. CASE lens = {} /\ b[s] \in NonAscii
  <2> DEFINE e == RunEnd(b, s + 1, NonAscii)
  <2>1. "none" \notin NonAscii
    BY DEF NonAscii
  <2>2. e \in (s + 1)..Len(b) + 1
    BY <1>1, <2>1, RunEndIs
  <2> HIDE DEF e
  <2>3. OneRight(b, s, Bad(s, e, "StrayByte"))
    BY <1>4, <2>2, BadGood
  <2> QED BY <1>3, <1>6, <2>3 DEF e
<1>7. CASE lens = {} /\ b[s] \notin NonAscii
  <2>1. OneRight(b, s, Bad(s, s + 1, "StrayByte"))
    BY <1>1, <1>4, BadGood
  <2> QED BY <1>3, <1>7, <2>1
<1> QED BY <1>5, <1>6, <1>7

\* lex_string: a string of the grammar, or an error where there is none.
LEMMA StringGood ==
  ASSUME NEW b \in Seq(SourceBytes), NEW s \in 1..Len(b), b[s] = "quote"
  PROVE  OneRight(b, s, LexString(b, s))
<1> DEFINE end == StringScan(b)[<<s + 1, FALSE>>]
           e == end.pos
           cut == ~end.ended
           bad == end.bad
<1>1. s \in Nat /\ Len(b) \in Nat /\ s + 1 \in 1..Len(b) + 1 /\ FALSE \in BOOLEAN
  BY NextPlace
<1>2. e \in (s + 1)..Len(b) + 1 /\ end.ended \in BOOLEAN /\ bad \in BOOLEAN
  BY <1>1, StringScanIs
<1>3. LexString(b, s) = IF cut THEN Bad(s, e, "UnterminatedString")
                        ELSE IF bad THEN Bad(s, e, "BadEscape") ELSE One("Str", s, e)
  BY DEF LexString
<1>4. \A q \in (s + 1)..Len(b) + 1 : IsString(Slice(b, s, q)) <=> (~cut /\ ~bad /\ e = (q - 1) + 1)
  BY StringExact DEF Reaches
<1> HIDE DEF end, e, cut, bad
<1>5. cut \/ bad => ~HoldsString(b, s)
  BY <1>4 DEF HoldsString
<1>6. ~cut /\ ~bad => TokenRight(b, "Str", s, e)
  <2>1. e = (e - 1) + 1
    BY <1>1, <1>2
  <2>2. ~cut /\ ~bad => IsString(Slice(b, s, e))
    BY <1>2, <1>4, <2>1
  <2> QED BY <2>2 DEF TokenRight
<1>7. "UnterminatedString" \in LexCodes /\ "BadEscape" \in LexCodes
  BY DEF LexCodes
<1>8. "Str" \in TokenKinds /\ "Str" # "Error"
  BY DEF TokenKinds
<1>9. CASE cut
  BY <1>2, <1>3, <1>5, <1>7, <1>9, BadGood
<1>10. CASE ~cut /\ bad
  BY <1>2, <1>3, <1>5, <1>7, <1>10, BadGood
<1>11. CASE ~cut /\ ~bad
  BY <1>2, <1>3, <1>6, <1>8, <1>11, OneGood
<1> QED BY <1>9, <1>10, <1>11

\* The tail of lex_number: the longest number with a suffix of the table, or the number and an error.
LEMMA SuffixedGood ==
  ASSUME NEW b \in Seq(SourceBytes), NEW s \in 1..Len(b), NEW pos \in (s + 1)..Len(b) + 1,
         NEW k \in {"Int", "Float"}, NEW radix, NumberEnd(b, s) = pos, k = "Float" <=> IsFloat(Slice(b, s, pos))
  PROVE  OneRight(b, s, Suffixed(b, s, pos, k, radix)) \/ PairRight(b, s, Suffixed(b, s, pos, k, radix))
<1> DEFINE e == RunEnd(b, pos, IdentContinue)
           suffix == Slice(b, pos, e)
           legal == e = pos \/ IsLegalSuffix(suffix, radix, k = "Float")
           pair == [pos |-> e, toks |-> <<Tok(k, s), Tok("Error", pos)>>, diags |-> <<Diag(pos, e, "BadSuffix")>>]
<1>1. s \in Nat /\ Len(b) \in Nat
  BY NextPlace
<1>2. pos \in 1..Len(b) + 1
  BY <1>1
<1>3. e \in pos..Len(b) + 1 /\ \A r \in pos..e - 1 : b[r] \in IdentContinue
  BY <1>2, NamedBytes, RunEndIs
<1>4. Suffixed(b, s, pos, k, radix) = IF legal THEN One(k, s, e) ELSE pair
  BY DEF Suffixed
<1>5. ~legal => e # pos
  OBVIOUS
<1>6. Slice(b, pos, pos) = <<>>
  <2> DEFINE x == Slice(b, pos, pos)
  <2>1. pos \in pos..Len(b) + 1 /\ pos - pos = 0
    BY <1>1, <1>2
  <2>2. \A q \in pos..Len(b) + 1 : Slice(b, pos, q) \in Seq(SourceBytes) /\ Len(Slice(b, pos, q)) = q - pos
    BY ONLY <1>2, b \in Seq(SourceBytes), SliceAt
  <2>3. x \in Seq(SourceBytes) /\ Len(x) = 0
    BY ONLY <2>1, <2>2
  <2> HIDE DEF x
  <2>4. x = <<>>
    BY <2>3
  <2> QED BY <2>4 DEF x
<1>7. legal => suffix \in {<<>>} \cup IntSuffixes \cup FloatSuffixes
  <2>1. CASE e = pos
    <3>1. suffix = <<>>
      BY <1>6, <2>1
    <3> QED BY <3>1
  <2>2. CASE e # pos
    <3> HIDE DEF e, suffix
    <3> QED BY <2>2 DEF IsLegalSuffix
  <2> QED BY <2>1, <2>2
<1>8. \A q : TokenRight(b, k, s, q) = (Slice(b, pos, q) \in {<<>>} \cup IntSuffixes \cup FloatSuffixes)
  <2> SUFFICES ASSUME NEW q PROVE TokenRight(b, k, s, q) = (Slice(b, pos, q) \in {<<>>} \cup IntSuffixes \cup FloatSuffixes)
    OBVIOUS
  <2> DEFINE fits == Slice(b, pos, q) \in {<<>>} \cup IntSuffixes \cup FloatSuffixes
             float == IsFloat(Slice(b, s, pos))
  <2>1. TokenRight(b, k, s, q) = (fits /\ (k = "Float" <=> float))
    <3>1. CASE k = "Int"
      BY <3>1 DEF TokenRight
    <3>2. CASE k = "Float"
      BY <3>2 DEF TokenRight
    <3> QED BY <3>1, <3>2
  <2>2. fits \in BOOLEAN /\ (k = "Float" <=> float)
    OBVIOUS
  <2> HIDE DEF fits, float
  <2>3. TokenRight(b, k, s, q) = fits
    BY <2>1, <2>2
  <2> QED BY <2>3 DEF fits
<1>9. legal => TokenRight(b, k, s, e)
  <2> HIDE DEF legal
  <2> QED BY <1>7, <1>8
<1> HIDE DEF e, legal
<1>10. e \in (s + 1)..Len(b) + 1
  BY <1>1, <1>2, <1>3
<1>11. CASE legal
  <2>1. k \in TokenKinds /\ k # "Error"
    BY DEF TokenKinds
  <2>2. OneRight(b, s, One(k, s, e))
    BY <1>9, <1>10, <1>11, <2>1, OneGood
  <2> QED BY <1>4, <1>11, <2>2
<1>12. CASE ~legal
  <2>1. pos \in (s + 1)..e - 1 /\ pos \in pos..e - 1
    BY <1>1, <1>2, <1>3, <1>5, <1>12
  <2>2. pair.pos = e /\ pair.toks = <<Tok(k, s), Tok("Error", pos)>> /\ pair.diags = <<Diag(pos, e, "BadSuffix")>>
    OBVIOUS
  <2> HIDE DEF pair
  <2>3. TokenRight(b, k, s, pos)
    BY <1>6, <1>8
  <2>4. TokenRight(b, "Error", pos, e)
    <3>1. b[pos] # "quote"
      BY <1>3, <2>1, NamedBytes
    <3> QED BY <3>1 DEF TokenRight
  <2>5. PairRight(b, s, pair)
    BY <1>10, <2>1, <2>2, <2>3, <2>4 DEF PairRight
  <2> QED BY <1>4, <1>12, <2>5
<1> QED BY <1>11, <1>12

\* lex_number: its digits end where the longest number of the grammar does.
LEMMA NumberGood ==
  ASSUME NEW b \in Seq(SourceBytes), NEW s \in 1..Len(b), b[s] \in Dec
  PROVE  OneRight(b, s, LexNumber(b, s)) \/ PairRight(b, s, LexNumber(b, s))
<1> DEFINE ok == RadixDigits(b, s)
           whole == ScanDigitRun(b, s, Dec)
           end == DecimalEnd(b, s)
           k == IF end = whole THEN "Int" ELSE "Float"
           radixEnd == ScanDigitRun(b, s + 2, ok)
           isRadix == Get(b, s + 2) \in ok
<1>1. LexNumber(b, s) = IF isRadix THEN Suffixed(b, s, radixEnd, "Int", TRUE) ELSE Suffixed(b, s, end, k, FALSE)
  BY DEF LexNumber, DecimalEnd
<1>2. s \in Nat /\ Len(b) \in Nat
  BY NextPlace
<1>3. CASE isRadix
  <2>1. radixEnd \in (s + 3)..Len(b) + 1 /\ NumberEnd(b, s) = radixEnd /\ ~IsFloat(Slice(b, s, radixEnd))
    BY <1>3, RadixNumber
  <2> HIDE DEF radixEnd, isRadix
  <2>2. radixEnd \in (s + 1)..Len(b) + 1
    BY <1>2, <2>1
  <2> DEFINE one == Suffixed(b, s, radixEnd, "Int", TRUE)
  <2>3. OneRight(b, s, one) \/ PairRight(b, s, one)
    BY <2>1, <2>2, SuffixedGood
  <2> HIDE DEF one
  <2> QED BY <1>1, <1>3, <2>3 DEF one
<1>4. CASE ~isRadix
  <2>1. end \in (s + 1)..Len(b) + 1 /\ NumberEnd(b, s) = end /\ (end # whole <=> IsFloat(Slice(b, s, end)))
    BY <1>4, DecimalNumber
  <2>2. k \in {"Int", "Float"} /\ (k = "Float" <=> end # whole)
    OBVIOUS
  <2> HIDE DEF end, whole, k, isRadix
  <2> DEFINE one == Suffixed(b, s, end, k, FALSE)
  <2>3. OneRight(b, s, one) \/ PairRight(b, s, one)
    BY <2>1, <2>2, SuffixedGood
  <2> HIDE DEF one
  <2> QED BY <1>1, <1>4, <2>3 DEF one
<1> QED BY <1>3, <1>4

\* One turn of the loop of lex: a right token, or a number with a bad suffix, behind where it began.
LEMMA LexAtGood ==
  ASSUME NEW b \in Seq(SourceBytes), NEW s \in 1..Len(b), KeywordsAreWords
  PROVE  OneRight(b, s, LexAt(b, s)) \/ PairRight(b, s, LexAt(b, s))
<1> DEFINE c1 == b[s] \in Ws
           c2 == b[s] = "/" /\ Get(b, s + 1) = "/"
           c3 == b[s] = "/" /\ Get(b, s + 1) = "*"
           c4 == b[s] = "bs" /\ Get(b, s + 1) = "bs"
           c5 == b[s] \in IdentStart
           c6 == b[s] \in Dec
           c7 == b[s] = "quote"
           c8 == b[s] = "." /\ Get(b, s + 1) = "."
           one == LexAt(b, s)
<1>1. one = CASE c1 -> LexWhitespace(b, s) [] c2 -> LexLineComment(b, s) [] c3 -> LexBlockComment(b, s)
              [] c4 -> One("MultilineStr", s, ScanMultilineString(b, s)) [] c5 -> LexIdentOrKeyword(b, s)
              [] c6 -> LexNumber(b, s) [] c7 -> LexString(b, s) [] c8 -> Range3(b, s) [] OTHER -> ScanPunct(b, s)
  BY DEF LexAt
<1>2. c1 => OneRight(b, s, LexWhitespace(b, s))
  BY WhitespaceGood
<1>3. c2 => OneRight(b, s, LexLineComment(b, s))
  BY LineCommentGood
<1>4. c3 => OneRight(b, s, LexBlockComment(b, s))
  BY BlockCommentGood
<1>5. c4 => OneRight(b, s, One("MultilineStr", s, ScanMultilineString(b, s)))
  BY MultilineGood
<1>6. c5 => OneRight(b, s, LexIdentOrKeyword(b, s))
  BY IdentGood
<1>7. c6 => OneRight(b, s, LexNumber(b, s)) \/ PairRight(b, s, LexNumber(b, s))
  BY NumberGood
<1>8. c7 => OneRight(b, s, LexString(b, s))
  BY StringGood
<1>9. c8 => OneRight(b, s, Range3(b, s))
  BY RangeGood
<1>10. ~c7 => OneRight(b, s, ScanPunct(b, s))
  BY PunctGood
<1>0. c1 \in BOOLEAN /\ c2 \in BOOLEAN /\ c3 \in BOOLEAN /\ c4 \in BOOLEAN /\ c5 \in BOOLEAN /\ c6 \in BOOLEAN
      /\ c7 \in BOOLEAN /\ c8 \in BOOLEAN
  OBVIOUS
<1> HIDE DEF c1, c2, c3, c4, c5, c6, c7, c8, one
<1>11. CASE c1 \/ c2 \/ c3 \/ c4 \/ c5 \/ c6 \/ c7 \/ c8
  <2>1. \/ c1 /\ one = LexWhitespace(b, s)
        \/ c2 /\ one = LexLineComment(b, s)
        \/ c3 /\ one = LexBlockComment(b, s)
        \/ c4 /\ one = One("MultilineStr", s, ScanMultilineString(b, s))
        \/ c5 /\ one = LexIdentOrKeyword(b, s)
        \/ c6 /\ one = LexNumber(b, s)
        \/ c7 /\ one = LexString(b, s)
        \/ c8 /\ one = Range3(b, s)
    BY <1>0, <1>1, <1>11
  <2> QED BY <1>2, <1>3, <1>4, <1>5, <1>6, <1>7, <1>8, <1>9, <2>1 DEF one
<1>12. CASE ~c1 /\ ~c2 /\ ~c3 /\ ~c4 /\ ~c5 /\ ~c6 /\ ~c7 /\ ~c8
  <2>1. one = ScanPunct(b, s)
    BY <1>1, <1>12
  <2> QED BY <1>10, <1>12, <2>1 DEF one
<1> QED BY <1>11, <1>12

-----------------------------------------------------------------------------
(* The loop of lex: one token, followed by the rest.                       *)

\* What lexing leaves from a position on.
OutRight(b, pos, out) ==
    /\ out.toks \in Seq(TokenSet) /\ out.diags \in Seq(DiagSet)
    /\ Len(out.toks) >= 1 /\ out.toks[1].start = pos /\ out.toks[Len(out.toks)] = Tok("Eof", Len(b) + 1)
    /\ \A i \in 1..Len(out.toks) - 1 : out.toks[i].start < out.toks[i + 1].start
    /\ TokensRight(b, out.toks)
    /\ ErrorsSaid(out.toks, out.diags)
    /\ SaidInOrder(out.diags) /\ \A d \in DOMAIN out.diags : out.diags[d].start >= pos

\* Two sequences, one behind the other.
LEMMA JoinIs ==
  ASSUME NEW S, NEW s \in Seq(S), NEW t \in Seq(S)
  PROVE  /\ s \o t \in Seq(S) /\ Len(s \o t) = Len(s) + Len(t)
         /\ \A i \in 1..Len(s) : (s \o t)[i] = s[i] /\ i \in DOMAIN (s \o t)
         /\ \A i \in 1..Len(t) : (s \o t)[Len(s) + i] = t[i] /\ Len(s) + i \in DOMAIN (s \o t)
<1>1. Len(s) \in Nat /\ Len(t) \in Nat /\ DOMAIN (s \o t) = 1..Len(s) + Len(t) /\ s \o t \in Seq(S) /\ Len(s \o t) = Len(s) + Len(t)
  OBVIOUS
<1>2. \A i \in 1..Len(s) : (s \o t)[i] = s[i] /\ i \in DOMAIN (s \o t)
  BY <1>1
<1>3. \A i \in 1..Len(t) : (s \o t)[Len(s) + i] = t[i] /\ Len(s) + i \in DOMAIN (s \o t)
  BY <1>1
<1> QED BY <1>1, <1>2, <1>3

\* A right token before right ones.
LEMMA ConsRight ==
  ASSUME NEW b \in Seq(SourceBytes), NEW pos \in 1..Len(b), NEW m \in (pos + 1)..Len(b) + 1, NEW rest, OutRight(b, m, rest),
         NEW k \in TokenKinds, TokenRight(b, k, pos, m),
         NEW ds \in Seq(DiagSet), k = "Error" => \E d \in DOMAIN ds : ds[d].start = pos /\ ds[d].end = m,
         Len(ds) <= 1, \A d \in DOMAIN ds : ds[d].start \in pos..m - 1,
         NEW out, out.toks = <<Tok(k, pos)>> \o rest.toks, out.diags = ds \o rest.diags
  PROVE  OutRight(b, pos, out)
<1> DEFINE tok == Tok(k, pos)
           n == Len(rest.toks)
<1>1. pos \in Nat /\ Len(b) \in Nat /\ m \in Nat /\ pos < m
  <2>1. Len(b) \in Nat
    BY GetIs
  <2> QED BY <2>1
<1>2. tok \in TokenSet /\ tok.kind = k /\ tok.start = pos
  BY <1>1 DEF TokenSet, Tok
<1>3. rest.toks \in Seq(TokenSet) /\ rest.diags \in Seq(DiagSet) /\ n >= 1 /\ n \in Nat
      /\ rest.toks[1].start = m /\ rest.toks[n] = Tok("Eof", Len(b) + 1)
  BY DEF OutRight
<1> HIDE DEF tok, n
<1>4. <<tok>> \in Seq(TokenSet) /\ Len(<<tok>>) = 1 /\ <<tok>>[1] = tok
  BY <1>2
<1>5. /\ out.toks \in Seq(TokenSet) /\ Len(out.toks) = 1 + n /\ out.toks[1] = tok
      /\ \A i \in 1..n : out.toks[1 + i] = rest.toks[i]
  BY <1>3, <1>4, JoinIs DEF tok, n
<1>6. out.diags \in Seq(DiagSet)
      /\ (\A i \in 1..Len(ds) : out.diags[i] = ds[i] /\ i \in DOMAIN out.diags)
      /\ (\A i \in 1..Len(rest.diags) : out.diags[Len(ds) + i] = rest.diags[i] /\ Len(ds) + i \in DOMAIN out.diags)
  <2> DEFINE h == rest.diags
  <2>1. h \in Seq(DiagSet) /\ out.diags = ds \o h
    BY <1>3
  <2> HIDE DEF h
  <2>2. /\ ds \o h \in Seq(DiagSet)
        /\ \A i \in 1..Len(ds) : (ds \o h)[i] = ds[i] /\ i \in DOMAIN (ds \o h)
        /\ \A i \in 1..Len(h) : (ds \o h)[Len(ds) + i] = h[i] /\ Len(ds) + i \in DOMAIN (ds \o h)
    BY <2>1, JoinIs
  <2> DEFINE c == ds \o h
  <2> HIDE DEF c
  <2>3. out.diags = c /\ c \in Seq(DiagSet)
        /\ (\A i \in 1..Len(ds) : c[i] = ds[i] /\ i \in DOMAIN c)
        /\ (\A i \in 1..Len(h) : c[Len(ds) + i] = h[i] /\ Len(ds) + i \in DOMAIN c)
    BY <2>1, <2>2 DEF c
  <2> QED BY <2>3 DEF h
<1>7. out.toks[2] = rest.toks[1] /\ out.toks[2].start = m /\ out.toks[1 + n] = rest.toks[n]
  <2>1. 1 \in 1..n /\ n \in 1..n /\ 1 + 1 = 2
    BY <1>3
  <2> QED BY <1>3, <1>5, <2>1
<1>8. \A i \in 1..Len(out.toks) - 1 : i = 1 \/ (\E j \in 1..n - 1 : i = 1 + j /\ out.toks[i] = rest.toks[j] /\ out.toks[i + 1] = rest.toks[j + 1])
  <2> SUFFICES ASSUME NEW i \in 1..Len(out.toks) - 1, i # 1
               PROVE \E j \in 1..n - 1 : i = 1 + j /\ out.toks[i] = rest.toks[j] /\ out.toks[i + 1] = rest.toks[j + 1]
    OBVIOUS
  <2>1. i \in Nat /\ n \in Nat /\ 1 < i /\ i <= n
    <3>1. n \in Nat /\ i \in 1..n
      BY <1>3, <1>5
    <3> QED BY <3>1
  <2> DEFINE j == i - 1
  <2>2. j \in 1..n - 1 /\ j \in 1..n /\ j + 1 \in 1..n /\ i = 1 + j /\ i + 1 = 1 + (j + 1)
    BY ONLY <2>1
  <2> HIDE DEF j
  <2>3. out.toks[i] = rest.toks[j] /\ out.toks[i + 1] = rest.toks[j + 1]
    BY <1>5, <2>2
  <2> QED BY <2>2, <2>3
<1>9. Len(out.toks) >= 1 /\ out.toks[1].start = pos /\ out.toks[Len(out.toks)] = Tok("Eof", Len(b) + 1)
  <2>1. Len(out.toks) = 1 + n /\ n \in Nat /\ out.toks[1] = tok
    BY <1>3, <1>5
  <2>2. out.toks[Len(out.toks)] = Tok("Eof", Len(b) + 1)
    BY <1>3, <1>7, <2>1
  <2>3. out.toks[1].start = pos
    BY <1>2, <2>1
  <2>4. Len(out.toks) >= 1
    BY ONLY <2>1
  <2> QED BY <2>2, <2>3, <2>4
<1>10. ASSUME NEW i \in 1..Len(out.toks) - 1 PROVE out.toks[i].start < out.toks[i + 1].start
  <2>1. CASE i = 1
    <3>1. out.toks[i].start = pos /\ out.toks[i + 1].start = m
      BY <1>2, <1>5, <1>7, <2>1
    <3> QED BY <1>1, <3>1
  <2>2. CASE i # 1
    <3>1. PICK j \in 1..n - 1 : out.toks[i] = rest.toks[j] /\ out.toks[i + 1] = rest.toks[j + 1]
      BY <1>8, <2>2
    <3>2. rest.toks[j].start < rest.toks[j + 1].start
      BY DEF OutRight, n
    <3> QED BY <3>1, <3>2
  <2> QED BY <2>1, <2>2
<1>11. TokensRight(b, out.toks)
  <2> SUFFICES ASSUME NEW i \in 1..Len(out.toks) - 1
               PROVE TokenRight(b, out.toks[i].kind, out.toks[i].start, out.toks[i + 1].start)
    BY DEF TokensRight
  <2>1. CASE i = 1
    <3>1. out.toks[i].kind = k /\ out.toks[i].start = pos /\ out.toks[i + 1].start = m
      BY <1>2, <1>5, <1>7, <2>1
    <3> QED BY <3>1
  <2>2. CASE i # 1
    <3>1. PICK j \in 1..n - 1 : out.toks[i] = rest.toks[j] /\ out.toks[i + 1] = rest.toks[j + 1]
      BY <1>8, <2>2
    <3>2. TokenRight(b, rest.toks[j].kind, rest.toks[j].start, rest.toks[j + 1].start)
      BY DEF OutRight, n, TokensRight
    <3> QED BY <3>1, <3>2
  <2> QED BY <2>1, <2>2
<1>12. ErrorsSaid(out.toks, out.diags)
  <2> SUFFICES ASSUME NEW i \in 1..Len(out.toks) - 1, out.toks[i].kind = "Error"
               PROVE \E d \in DOMAIN out.diags : out.diags[d].start = out.toks[i].start /\ out.diags[d].end = out.toks[i + 1].start
    BY DEF ErrorsSaid
  <2>1. CASE i = 1
    <3>1. out.toks[i].kind = k /\ out.toks[i].start = pos /\ out.toks[i + 1].start = m
      BY <1>2, <1>5, <1>7, <2>1
    <3>2. PICK d \in DOMAIN ds : ds[d].start = pos /\ ds[d].end = m
      BY <3>1
    <3>3. out.diags[d] = ds[d] /\ d \in DOMAIN out.diags
      <4>1. d \in 1..Len(ds)
        OBVIOUS
      <4> QED BY <1>6, <4>1
    <3> QED BY <3>1, <3>2, <3>3
  <2>2. CASE i # 1
    <3>1. PICK j \in 1..n - 1 : out.toks[i] = rest.toks[j] /\ out.toks[i + 1] = rest.toks[j + 1]
      BY <1>8, <2>2
    <3>2. rest.toks[j].kind = "Error" =>
             \E d \in DOMAIN rest.diags : rest.diags[d].start = rest.toks[j].start /\ rest.diags[d].end = rest.toks[j + 1].start
      BY DEF OutRight, n, ErrorsSaid
    <3>3. PICK d \in DOMAIN rest.diags : rest.diags[d].start = rest.toks[j].start /\ rest.diags[d].end = rest.toks[j + 1].start
      BY <3>1, <3>2
    <3>4. out.diags[Len(ds) + d] = rest.diags[d] /\ Len(ds) + d \in DOMAIN out.diags
      <4> DEFINE h == rest.diags
      <4>0. h \in Seq(DiagSet) /\ d \in DOMAIN h
        BY <1>3
      <4> HIDE DEF h
      <4>2. d \in 1..Len(h)
        BY <4>0
      <4>1. d \in 1..Len(rest.diags)
        BY <4>2 DEF h
      <4> QED BY <1>6, <4>1
    <3> QED BY <3>1, <3>3, <3>4
  <2> QED BY <2>1, <2>2
<1> DEFINE h == rest.diags
           more == out.diags
<1>13. /\ h \in Seq(DiagSet) /\ SaidInOrder(h) /\ \A d \in DOMAIN h : h[d].start >= m
       /\ more = ds \o h /\ more \in Seq(DiagSet)
  BY <1>3, <1>6 DEF OutRight
<1> HIDE DEF h, more
<1>14. /\ Len(ds) \in Nat /\ Len(h) \in Nat /\ DOMAIN ds = 1..Len(ds) /\ DOMAIN h = 1..Len(h)
       /\ DOMAIN more = 1..Len(ds) + Len(h)
       /\ \A i \in 1..Len(ds) : more[i] = ds[i]
       /\ \A i \in 1..Len(h) : more[Len(ds) + i] = h[i]
  BY <1>13
<1>15. \A i \in 1..Len(ds) : more[i].start \in pos..m - 1
  BY <1>14
<1>16. \A i \in DOMAIN more : i > Len(ds) =>
           \E j \in DOMAIN h : i = Len(ds) + j /\ more[i] = h[j] /\ more[i].start >= m
  <2> SUFFICES ASSUME NEW i \in DOMAIN more, i > Len(ds)
               PROVE \E j \in DOMAIN h : i = Len(ds) + j /\ more[i] = h[j] /\ more[i].start >= m
    OBVIOUS
  <2> DEFINE j == i - Len(ds)
             a == Len(ds)
             c == Len(h)
  <2>0. a \in Nat /\ c \in Nat /\ i \in 1..a + c /\ i > a
    BY <1>14
  <2>1. j \in 1..Len(h) /\ i = Len(ds) + j
    <3> HIDE DEF a, c
    <3>1. i - a \in 1..c /\ i = a + (i - a)
      BY ONLY <2>0
    <3> QED BY ONLY <3>1 DEF a, c, j
  <2> HIDE DEF j, a, c
  <2> QED BY <1>13, <1>14, <2>1
<1>17. \A i \in DOMAIN more : more[i].start \in Nat
  <2>0. more \in Seq(DiagSet)
    BY <1>13
  <2>1. \A i \in DOMAIN more : more[i] \in DiagSet
    BY ONLY <2>0
  <2> QED BY <2>1 DEF DiagSet
<1>18. \A i \in DOMAIN more : more[i].start >= pos
  <2> SUFFICES ASSUME NEW i \in DOMAIN more PROVE more[i].start >= pos
    OBVIOUS
  <2>1. CASE i > Len(ds)
    BY <1>1, <1>16, <1>17, <2>1
  <2>2. CASE ~(i > Len(ds))
    <3>1. i \in 1..Len(ds)
      BY <1>14, <2>2
    <3> QED BY <1>1, <1>15, <3>1
  <2> QED BY <2>1, <2>2
<1>19. SaidInOrder(more)
  <2> SUFFICES ASSUME NEW i \in DOMAIN more, NEW j \in DOMAIN more, i < j PROVE more[i].start <= more[j].start
    BY DEF SaidInOrder
  <2>1. j > Len(ds)
    BY <1>14
  <2>2. PICK y \in DOMAIN h : j = Len(ds) + y /\ more[j] = h[y] /\ more[j].start >= m
    BY <1>16, <2>1
  <2>3. CASE i > Len(ds)
    <3>1. PICK x \in DOMAIN h : i = Len(ds) + x /\ more[i] = h[x]
      BY <1>16, <2>3
    <3>2. x < y
      BY <1>14, <2>2, <3>1
    <3> QED BY <1>13, <2>2, <3>1, <3>2 DEF SaidInOrder
  <2>4. CASE ~(i > Len(ds))
    <3>1. i \in 1..Len(ds)
      BY <1>14, <2>4
    <3>2. more[i].start \in pos..m - 1
      BY <1>15, <3>1
    <3> QED BY <1>1, <1>17, <2>2, <3>2
  <2> QED BY <2>3, <2>4
<1> QED BY <1>5, <1>6, <1>9, <1>10, <1>11, <1>12, <1>18, <1>19 DEF OutRight, more

\* What one turn pushes.
LEMMA StepTyped ==
  ASSUME NEW b \in Seq(SourceBytes), NEW s \in 1..Len(b), NEW one, OneRight(b, s, one) \/ PairRight(b, s, one)
  PROVE  one.pos \in (s + 1)..Len(b) + 1 /\ one.toks \in Seq(TokenSet) /\ one.diags \in Seq(DiagSet)
<1>1. s \in Nat /\ Len(b) \in Nat
  BY NextPlace
<1>2. CASE OneRight(b, s, one)
  <2>1. PICK k \in TokenKinds : one.toks = <<Tok(k, s)>>
    BY <1>2 DEF OneRight
  <2>2. Tok(k, s) \in TokenSet
    BY <1>1 DEF Tok, TokenSet
  <2>3. one.pos \in (s + 1)..Len(b) + 1 /\ one.diags \in Seq(DiagSet)
    BY <1>2 DEF OneRight
  <2> QED BY <2>1, <2>2, <2>3
<1>3. CASE PairRight(b, s, one)
  <2>1. one.pos \in (s + 1)..Len(b) + 1
    BY <1>3 DEF PairRight
  <2>2. PICK k \in {"Int", "Float"}, m \in (s + 1)..one.pos - 1 :
             one.toks = <<Tok(k, s), Tok("Error", m)>> /\ one.diags = <<Diag(m, one.pos, "BadSuffix")>>
    BY <1>3 DEF PairRight
  <2>3. m \in Nat /\ one.pos \in Nat
    BY <1>1, <2>1
  <2>4. k \in TokenKinds /\ "Error" \in TokenKinds
    BY DEF TokenKinds
  <2>5. "BadSuffix" \in LexCodes
    BY DEF LexCodes
  <2>6. Tok(k, s) \in TokenSet /\ Tok("Error", m) \in TokenSet
    BY <1>1, <2>3, <2>4 DEF Tok, TokenSet
  <2>7. Diag(m, one.pos, "BadSuffix") \in DiagSet
    BY <2>3, <2>5 DEF Diag, DiagSet
  <2> QED BY <2>1, <2>2, <2>6, <2>7
<1> QED BY <1>2, <1>3

\* Two sequences of one.
LEMMA Couple ==
  ASSUME NEW S, NEW a \in Seq(S), NEW c \in Seq(S), Len(a) = 1, Len(c) = 1
  PROVE  a \o c = <<a[1], c[1]>>
<1> DEFINE d == a \o c
<1>1. d \in Seq(S) /\ Len(d) = Len(a) + Len(c) /\ \A i \in 1..Len(a) + Len(c) : d[i] = IF i <= Len(a) THEN a[i] ELSE c[i - Len(a)]
  BY ConcatProperties
<1> HIDE DEF d
<1>2. Len(d) = 2
  BY <1>1
<1>3. d[1] = a[1] /\ d[2] = c[1]
  BY <1>1
<1>4. d = <<d[1], d[2]>>
  BY <1>1, <1>2
<1> QED BY <1>3, <1>4 DEF d

\* Two pushes are one and then the other.
LEMMA PairJoin ==
  ASSUME NEW S, NEW x \in S, NEW y \in S, NEW t \in Seq(S)
  PROVE  <<x, y>> \o t = <<x>> \o (<<y>> \o t)
<1> DEFINE a == <<x>>
           c == <<y>>
           d == a \o c
<1>1. a \in Seq(S) /\ Len(a) = 1 /\ a[1] = x
  OBVIOUS
<1>2. c \in Seq(S) /\ Len(c) = 1 /\ c[1] = y
  OBVIOUS
<1> HIDE DEF a, c
<1>3. d = <<x, y>>
  BY <1>1, <1>2, Couple
<1>4. d \o t = a \o (c \o t)
  BY <1>1, <1>2, ConcatAssociative
<1> HIDE DEF d
<1> QED BY <1>3, <1>4 DEF a, c

\* One turn before the rest.
LEMMA ThenRight ==
  ASSUME NEW b \in Seq(SourceBytes), NEW s \in 1..Len(b), NEW one, OneRight(b, s, one) \/ PairRight(b, s, one),
         NEW rest, OutRight(b, one.pos, rest)
  PROVE  OutRight(b, s, Then(one, rest))
<1> DEFINE out == Then(one, rest)
<1>1. out.toks = one.toks \o rest.toks /\ out.diags = one.diags \o rest.diags
  BY DEF Then
<1> HIDE DEF out
<1>2. s \in Nat /\ Len(b) \in Nat
  BY NextPlace
<1>3. one.pos \in (s + 1)..Len(b) + 1 /\ one.toks \in Seq(TokenSet) /\ one.diags \in Seq(DiagSet)
  BY StepTyped
<1>4. rest.toks \in Seq(TokenSet) /\ rest.diags \in Seq(DiagSet)
  BY DEF OutRight
<1> DEFINE e == one.pos
           ds == one.diags
<1>5. e \in (s + 1)..Len(b) + 1 /\ ds \in Seq(DiagSet) /\ OutRight(b, e, rest) /\ out.diags = ds \o rest.diags
  BY <1>1, <1>3
<1>6. CASE OneRight(b, s, one)
  <2>1. PICK k \in TokenKinds :
          /\ one.toks = <<Tok(k, s)>> /\ TokenRight(b, k, s, e)
          /\ k = "Error" => (\E d \in DOMAIN ds : ds[d].start = s /\ ds[d].end = e)
    BY <1>6 DEF OneRight
  <2>0. Len(ds) <= 1 /\ \A d \in DOMAIN ds : ds[d].start \in s..e - 1
    <3>1. Len(ds) <= 1 /\ \A d \in DOMAIN ds : ds[d].start = s
      BY <1>6 DEF OneRight
    <3> HIDE DEF ds, e
    <3>2. s \in s..e - 1
      BY <1>2, <1>5
    <3> QED BY <3>1, <3>2
  <2> HIDE DEF e, ds
  <2>2. out.toks = <<Tok(k, s)>> \o rest.toks
    BY <1>1, <2>1
  <2>3. OutRight(b, s, out)
    BY <1>5, <2>0, <2>1, <2>2, ConsRight
  <2> QED BY <2>3 DEF out
<1>7. CASE PairRight(b, s, one)
  <2>1. PICK k \in {"Int", "Float"}, m \in (s + 1)..e - 1 :
             /\ one.toks = <<Tok(k, s), Tok("Error", m)>> /\ ds = <<Diag(m, e, "BadSuffix")>>
             /\ TokenRight(b, k, s, m) /\ TokenRight(b, "Error", m, e)
    BY <1>7 DEF PairRight
  <2> HIDE DEF e, ds
  <2>2. m \in 1..Len(b) /\ m \in (s + 1)..Len(b) + 1 /\ e \in (m + 1)..Len(b) + 1 /\ m \in Nat /\ e \in Nat
    BY <1>2, <1>5
  <2>3. k \in TokenKinds /\ "Error" \in TokenKinds /\ k # "Error"
    BY DEF TokenKinds
  <2>4. Tok(k, s) \in TokenSet /\ Tok("Error", m) \in TokenSet
    BY <1>2, <2>2, <2>3 DEF Tok, TokenSet
  <2> DEFINE toks1 == <<Tok("Error", m)>> \o rest.toks
             diags1 == ds \o rest.diags
             out1 == [toks |-> toks1, diags |-> diags1]
  <2>5. out1.toks = toks1 /\ out1.diags = diags1
    OBVIOUS
  <2> HIDE DEF out1
  <2>6. /\ \E d \in DOMAIN ds : ds[d].start = m /\ ds[d].end = e
        /\ Len(ds) <= 1 /\ \A d \in DOMAIN ds : ds[d].start \in m..e - 1
    <3> DEFINE g == Diag(m, e, "BadSuffix")
    <3>1. g.start = m /\ g.end = e
      BY DEF Diag
    <3> HIDE DEF g
    <3>2. ds = <<g>>
      BY <2>1 DEF g
    <3>3. 1 \in DOMAIN ds /\ ds[1] = g /\ Len(ds) <= 1 /\ \A d \in DOMAIN ds : ds[d] = g
      BY <3>2
    <3>4. m \in m..e - 1
      BY <2>2
    <3> QED BY <3>1, <3>3, <3>4
  <2>7. OutRight(b, m, out1)
    BY <1>5, <2>1, <2>2, <2>3, <2>5, <2>6, ConsRight
  <2>8. out1.toks \in Seq(TokenSet) /\ out1.diags \in Seq(DiagSet)
    BY <2>7 DEF OutRight
  <2>9. out.toks = <<Tok(k, s)>> \o out1.toks
    <3> DEFINE t == rest.toks
               x == Tok(k, s)
               y == Tok("Error", m)
    <3> HIDE DEF t, x, y
    <3>1. out.toks = <<x, y>> \o t /\ out1.toks = <<y>> \o t
      BY <1>1, <2>1, <2>5 DEF t, x, y
    <3>2. x \in TokenSet /\ y \in TokenSet /\ t \in Seq(TokenSet)
      BY <1>4, <2>4 DEF t, x, y
    <3> HIDE DEF toks1, diags1
    <3>3. <<x, y>> \o t = <<x>> \o (<<y>> \o t)
      BY ONLY <3>2, PairJoin, SMTT(30)
    <3>4. out.toks = <<x>> \o out1.toks
      BY <3>1, <3>3
    <3> QED BY <3>4 DEF x
  <2>10. out.diags = <<>> \o out1.diags /\ <<>> \in Seq(DiagSet)
    <3> DEFINE h == out1.diags
    <3>1. out.diags = h /\ h \in Seq(DiagSet)
      BY <1>5, <2>5, <2>8
    <3> HIDE DEF h
    <3>2. <<>> \o h = h
      BY <3>1
    <3> QED BY <3>1, <3>2 DEF h
  <2>11. OutRight(b, s, out)
    <3> DEFINE es == <<>>
    <3>1. es \in Seq(DiagSet) /\ out.diags = es \o out1.diags /\ Len(es) <= 1 /\ DOMAIN es = {}
      BY <2>10
    <3> HIDE DEF es
    <3> QED BY <2>1, <2>2, <2>3, <2>7, <2>9, <3>1, ConsRight
  <2> QED BY <2>11 DEF out
<1> QED BY <1>6, <1>7

\* Every turn makes progress, so the loop of lex ends, with a right stream from each position.
LEMMA LexFromGood ==
  ASSUME NEW b \in Seq(SourceBytes), KeywordsAreWords
  PROVE  \A pos \in 1..Len(b) + 1 : OutRight(b, pos, LexFrom(b)[pos])
<1> DEFINE n == Len(b)
           S == 1..n + 1
           stop == {pos \in S : pos > n}
           next == [pos \in S \ stop |-> LexAt(b, pos).pos]
           rank == [pos \in S |-> n + 1 - pos]
           V == [toks : Seq(TokenSet), diags : Seq(DiagSet)]
           last == [toks |-> <<Tok("Eof", n + 1)>>, diags |-> <<>>]
           base == [pos \in stop |-> last]
           step == [p \in (S \ stop) \X V |-> Then(LexAt(b, p[1]), p[2])]
           Val(f, pos) == IF pos > n THEN last ELSE Then(LexAt(b, pos), f[LexAt(b, pos).pos])
           Same(f) == f = [pos \in S |-> IF pos > n THEN last ELSE Then(LexAt(b, pos), f[LexAt(b, pos).pos])]
<1>1. n \in Nat
  BY GetIs
<1>2. ASSUME NEW pos \in S \ stop
      PROVE  /\ pos \in 1..n /\ LexAt(b, pos).pos \in (pos + 1)..n + 1
             /\ LexAt(b, pos).toks \in Seq(TokenSet) /\ LexAt(b, pos).diags \in Seq(DiagSet)
             /\ OneRight(b, pos, LexAt(b, pos)) \/ PairRight(b, pos, LexAt(b, pos))
  <2>1. pos \in 1..n
    BY <1>1
  <2>2. OneRight(b, pos, LexAt(b, pos)) \/ PairRight(b, pos, LexAt(b, pos))
    BY <2>1, LexAtGood
  <2> DEFINE one == LexAt(b, pos)
  <2> HIDE DEF one
  <2>3. OneRight(b, pos, one) \/ PairRight(b, pos, one)
    BY <2>2 DEF one
  <2>4. one.pos \in (pos + 1)..n + 1 /\ one.toks \in Seq(TokenSet) /\ one.diags \in Seq(DiagSet)
    BY <2>1, <2>3, StepTyped
  <2> QED BY <2>1, <2>3, <2>4 DEF one
<1>3. last \in V /\ OutRight(b, n + 1, last)
  <2> DEFINE eof == Tok("Eof", n + 1)
             ts == <<eof>>
             ds == <<>>
  <2>1. eof \in TokenSet /\ eof.start = n + 1
    <3>1. "Eof" \in TokenKinds
      BY DEF TokenKinds
    <3>2. n + 1 \in Nat
      BY <1>1
    <3> HIDE DEF n
    <3> QED BY <3>1, <3>2 DEF Tok, TokenSet
  <2>2. ds \in Seq(DiagSet) /\ DOMAIN ds = {}
    OBVIOUS
  <2>11. SaidInOrder(ds)
    BY <2>2 DEF SaidInOrder
  <2> HIDE DEF eof, ds
  <2>3. ts \in Seq(TokenSet) /\ Len(ts) = 1 /\ ts[1] = eof
    BY <2>1
  <2>4. last = [toks |-> ts, diags |-> ds]
    BY DEF eof, ds
  <2> HIDE DEF ts
  <2>5. last.toks = ts /\ last.diags = ds /\ last \in V
    BY <2>2, <2>3, <2>4
  <2> HIDE DEF last, V
  <2>6. \A i \in 1..Len(ts) - 1 : FALSE
    BY <2>3
  <2>8. TokensRight(b, ts)
    BY <2>6 DEF TokensRight
  <2>9. ErrorsSaid(ts, ds)
    BY <2>6 DEF ErrorsSaid
  <2>10. ts[1] = Tok("Eof", Len(b) + 1) /\ ts[1].start = n + 1
    BY <2>1, <2>3 DEF eof, n
  <2>7. OutRight(b, n + 1, last)
    <3>1. last.toks = ts /\ last.diags = ds
      BY <2>5
    <3>2. Len(ts) >= 1 /\ ts[Len(ts)] = Tok("Eof", Len(b) + 1) /\ \A i \in 1..Len(ts) - 1 : ts[i].start < ts[i + 1].start
      BY <2>3, <2>6, <2>10
    <3> HIDE DEF S, stop, next, rank, base, step, Val, Same
    <3> QED BY <2>2, <2>3, <2>8, <2>9, <2>10, <2>11, <3>1, <3>2 DEF OutRight
  <2> QED BY <2>5, <2>7
<1> HIDE DEF n, last
<1>4. Descends(S, stop, next, rank, n)
  <2>1. \A pos \in S \ stop : next[pos] = LexAt(b, pos).pos /\ next[pos] \in (pos + 1)..n + 1 /\ pos \in 1..n
    BY <1>2
  <2> HIDE DEF next
  <2>2. \A pos \in S \ stop : next[pos] \in S /\ next[pos] > pos
    BY <1>1, <2>1
  <2>3. next \in [S \ stop -> S] /\ stop \subseteq S
    <3>1. stop \subseteq S /\ next = [pos \in S \ stop |-> next[pos]]
      BY DEF next
    <3> HIDE DEF S, stop
    <3> QED BY <2>2, <3>1
  <2>4. rank \in [S -> 0..n]
    BY <1>1
  <2>5. \A pos \in S \ stop : rank[next[pos]] < rank[pos]
    <3> SUFFICES ASSUME NEW pos \in S \ stop PROVE rank[next[pos]] < rank[pos]
      OBVIOUS
    <3> DEFINE t == next[pos]
    <3>1. t \in S /\ t > pos /\ pos \in S
      BY <2>2
    <3> HIDE DEF t
    <3>2. rank[t] = n + 1 - t /\ rank[pos] = n + 1 - pos
      BY <3>1
    <3> HIDE DEF rank
    <3>3. rank[t] < rank[pos]
      BY <1>1, <3>1, <3>2
    <3> QED BY <3>3 DEF t
  <2> HIDE DEF S, stop, rank
  <2> QED BY <1>1, <2>3, <2>4, <2>5 DEF Descends
<1>5. base \in [stop -> V] /\ V # {}
  <2> HIDE DEF stop, V
  <2> QED BY <1>3
<1>6. step \in [(S \ stop) \X V -> V] /\ \A pos \in S \ stop, v \in V : step[<<pos, v>>] = Then(LexAt(b, pos), v)
  <2>1. ASSUME NEW pos \in S \ stop, NEW v \in V PROVE Then(LexAt(b, pos), v) \in V
    <3> DEFINE one == LexAt(b, pos)
    <3>1. one.toks \in Seq(TokenSet) /\ one.diags \in Seq(DiagSet)
      BY <1>2
    <3>2. v.toks \in Seq(TokenSet) /\ v.diags \in Seq(DiagSet)
      OBVIOUS
    <3> HIDE DEF one
    <3>3. one.toks \o v.toks \in Seq(TokenSet) /\ one.diags \o v.diags \in Seq(DiagSet)
      BY <3>1, <3>2, ConcatProperties
    <3> QED BY <3>3 DEF Then, one
  <2> HIDE DEF S, stop, V
  <2> QED BY <2>1
<1>7. PICK f : Solves(f, S, V, stop, base, next, step)
  <2> HIDE DEF S, stop, next, rank, base, V, step
  <2> QED BY <1>4, <1>5, <1>6, RecursionExists
<1>8. Same(f)
  <2>1. \A pos \in S : f[pos] = IF pos > n THEN last ELSE Then(LexAt(b, pos), f[LexAt(b, pos).pos])
    <3> SUFFICES ASSUME NEW pos \in S PROVE f[pos] = IF pos > n THEN last ELSE Then(LexAt(b, pos), f[LexAt(b, pos).pos])
      OBVIOUS
    <3>1. CASE pos \in stop
      <4>1. f[pos] = base[pos] /\ base[pos] = last /\ pos > n
        BY <1>7, <3>1 DEF Solves
      <4> QED BY <4>1
    <3>2. CASE pos \notin stop
      <4>1. f[pos] = step[<<pos, f[next[pos]]>>] /\ next[pos] = LexAt(b, pos).pos /\ ~(pos > n)
        BY <1>7, <3>2 DEF Solves
      <4>2. next[pos] \in S
        BY <1>4, <3>2 DEF Descends
      <4>3. f[next[pos]] \in V
        BY <1>7, <4>2 DEF Solves
      <4> HIDE DEF next, step, V
      <4>4. step[<<pos, f[next[pos]]>>] = Then(LexAt(b, pos), f[next[pos]])
        BY <1>6, <3>2, <4>3
      <4> QED BY <4>1, <4>4
    <3> QED BY <3>1, <3>2
  <2>2. f = [pos \in S |-> f[pos]]
    <3> HIDE DEF S, V, stop, base, next, step
    <3> QED BY <1>7 DEF Solves
  <2> HIDE DEF S
  <2> QED BY <2>1, <2>2
<1>9. LexFrom(b) = CHOOSE g : Same(g)
  BY DEF LexFrom, n, last
<1> HIDE DEF Same
<1>10. Same(LexFrom(b))
  BY <1>8, <1>9
<1> DEFINE r == LexFrom(b)
<1>11. \A pos \in S : r[pos] = IF pos > n THEN last ELSE Then(LexAt(b, pos), r[LexAt(b, pos).pos])
  <2>1. r = [pos \in S |-> IF pos > n THEN last ELSE Then(LexAt(b, pos), r[LexAt(b, pos).pos])]
    BY <1>10 DEF Same
  <2> HIDE DEF r, S
  <2> QED BY <2>1
<1> HIDE DEF r
<1> DEFINE T == {pos \in S : OutRight(b, pos, r[pos])}
<1>12. ASSUME NEW pos \in stop PROVE pos \in T
  <2>1. pos \in S /\ pos = n + 1 /\ pos > n
    BY <1>1
  <2>2. r[pos] = last
    BY <1>11, <2>1
  <2> HIDE DEF S
  <2> QED BY <1>3, <2>1, <2>2
<1>13. ASSUME NEW pos \in S \ stop, next[pos] \in T PROVE pos \in T
  <2> DEFINE one == LexAt(b, pos)
             v == r[one.pos]
  <2>1. pos \in S /\ next[pos] = one.pos /\ ~(pos > n)
    OBVIOUS
  <2>2. r[pos] = Then(one, v)
    BY <1>11, <2>1
  <2>3. OutRight(b, one.pos, v)
    BY <1>13, <2>1
  <2>4. pos \in 1..Len(b) /\ (OneRight(b, pos, one) \/ PairRight(b, pos, one))
    BY <1>2 DEF n
  <2> HIDE DEF one, v, S
  <2>5. OutRight(b, pos, Then(one, v))
    BY <2>3, <2>4, ThenRight
  <2> QED BY <2>1, <2>2, <2>5
<1>14. S \subseteq T
  <2> HIDE DEF S, T, stop, next, rank
  <2> QED BY <1>4, <1>12, <1>13, RankInduct
<1>15. \A pos \in S : OutRight(b, pos, r[pos])
  BY <1>14
<1> QED BY <1>15 DEF r, n

\* There is a place for a diagnostic in any list of them.
LEMMA PlaceIs ==
  ASSUME NEW ds \in Seq(DiagSet), NEW at \in Nat
  PROVE  /\ Place(ds, at) \in 0..Len(ds) /\ \A i \in 1..Place(ds, at) : ds[i].start <= at
         /\ Place(ds, at) < Len(ds) => ds[Place(ds, at) + 1].start > at
<1> DEFINE n == Len(ds)
           Is(k) == (\A i \in 1..k : ds[i].start <= at) /\ (k < n => ds[k + 1].start > at)
           Q == {k \in 0..n : k = n \/ ds[k + 1].start > at}
<1>1. n \in Nat /\ \A i \in 1..n : ds[i].start \in Nat
  <2>1. \A i \in 1..n : ds[i] \in DiagSet
    OBVIOUS
  <2> QED BY <2>1 DEF DiagSet
<1> HIDE DEF n
<1>2. PICK k \in Q : \A j \in Q : k <= j
  <2>1. n \in Q /\ Q \subseteq Nat
    BY <1>1
  <2> HIDE DEF Q
  <2> QED BY <2>1, Least
<1>3. k \in 0..n /\ (k = n \/ ds[k + 1].start > at)
  OBVIOUS
<1>4. ASSUME NEW i \in 1..k PROVE ds[i].start <= at
  <2>1. i - 1 \in 0..n /\ i - 1 # n /\ ~(k <= i - 1) /\ (i - 1) + 1 = i /\ i \in 1..n
    BY <1>1, <1>3
  <2>2. ~(ds[i].start > at)
    BY <1>2, <2>1
  <2> QED BY <1>1, <2>1, <2>2
<1>5. k \in 0..n /\ Is(k)
  BY <1>1, <1>3, <1>4
<1>6. Place(ds, at) = CHOOSE j \in 0..n : Is(j)
  BY DEF Place, n
<1> HIDE DEF Is
<1>7. Place(ds, at) \in 0..n /\ Is(Place(ds, at))
  BY <1>5, <1>6
<1> QED BY <1>7 DEF Is, n

\* sort_by_key after a push to a list in order: in order, with the old ones and the new one.
LEMMA PutInOrder ==
  ASSUME NEW ds \in Seq(DiagSet), NEW g \in DiagSet, SaidInOrder(ds)
  PROVE  /\ SaidInOrder(PutAt(ds, Place(ds, g.start), g))
         /\ \A i \in DOMAIN ds : \E j \in DOMAIN PutAt(ds, Place(ds, g.start), g) : PutAt(ds, Place(ds, g.start), g)[j] = ds[i]
         /\ \E j \in DOMAIN PutAt(ds, Place(ds, g.start), g) : PutAt(ds, Place(ds, g.start), g)[j] = g
<1> DEFINE n == Len(ds)
           at == g.start
           k == Place(ds, at)
           more == PutAt(ds, k, g)
<1>1. n \in Nat /\ at \in Nat /\ DOMAIN ds = 1..n /\ \A i \in 1..n : ds[i].start \in Nat
  <2>1. \A i \in 1..n : ds[i] \in DiagSet
    OBVIOUS
  <2>2. n \in Nat /\ DOMAIN ds = 1..n
    OBVIOUS
  <2> HIDE DEF n
  <2> QED BY <2>1, <2>2 DEF DiagSet
<1>2. k \in 0..n /\ (\A i \in 1..k : ds[i].start <= at) /\ (k < n => ds[k + 1].start > at)
  BY <1>1, PlaceIs
<1>3. more = [i \in 1..n + 1 |-> IF i <= k THEN ds[i] ELSE IF i = k + 1 THEN g ELSE ds[i - 1]]
  BY DEF PutAt
<1> HIDE DEF n, k, more
<1>4. DOMAIN more = 1..n + 1
  BY <1>3
<1>5. \A i \in 1..k : more[i] = ds[i] /\ i \in 1..n /\ i \in 1..n + 1 /\ more[i].start <= at
  BY <1>1, <1>2, <1>3
<1>6. more[k + 1] = g /\ k + 1 \in 1..n + 1
  BY <1>1, <1>2, <1>3
<1>7. \A i \in k + 2..n + 1 : more[i] = ds[i - 1] /\ i - 1 \in 1..n /\ i \in 1..n + 1
  BY <1>1, <1>2, <1>3
<1>8. \A i \in k + 1..n : ds[i].start > at
  <2> SUFFICES ASSUME NEW i \in k + 1..n PROVE ds[i].start > at
    OBVIOUS
  <2>1. k + 1 \in 1..n /\ i \in 1..n /\ k < n /\ (i = k + 1 \/ k + 1 < i)
    BY <1>1, <1>2
  <2>2. ds[k + 1].start > at
    BY <1>2, <2>1
  <2>3. ds[k + 1].start <= ds[i].start
    <3>1. CASE i = k + 1
      BY <1>1, <2>1, <3>1
    <3>2. CASE k + 1 < i
      BY <1>1, <2>1, <3>2 DEF SaidInOrder
    <3> QED BY <2>1, <3>1, <3>2
  <2> QED BY <1>1, <2>1, <2>2, <2>3
<1>9. SaidInOrder(more)
  <2> SUFFICES ASSUME NEW i \in 1..n + 1, NEW j \in 1..n + 1, i < j PROVE more[i].start <= more[j].start
    BY <1>4 DEF SaidInOrder
  <2>1. CASE j <= k
    <3>1. i \in 1..k /\ j \in 1..k /\ i \in 1..n /\ j \in 1..n
      BY <1>1, <1>2, <2>1
    <3>2. ds[i].start <= ds[j].start
      BY <1>1, <3>1 DEF SaidInOrder
    <3> QED BY <1>5, <3>1, <3>2
  <2>2. CASE j = k + 1
    <3>1. i \in 1..k
      BY <1>1, <1>2, <2>2
    <3> QED BY <1>5, <1>6, <2>2, <3>1
  <2>3. CASE j > k + 1
    <3>1. j \in k + 2..n + 1 /\ j - 1 \in k + 1..n /\ j - 1 \in 1..n
      BY <1>1, <1>2, <2>3
    <3>2. more[j] = ds[j - 1] /\ ds[j - 1].start > at /\ ds[j - 1].start \in Nat
      BY <1>1, <1>7, <1>8, <3>1
    <3>3. CASE i <= k
      <4>1. i \in 1..k /\ i \in 1..n
        BY <1>1, <1>2, <3>3
      <4>2. more[i].start <= at /\ more[i].start \in Nat
        BY <1>1, <1>5, <4>1
      <4> QED BY <1>1, <3>2, <4>2
    <3>4. CASE i = k + 1
      BY <1>1, <1>6, <3>2, <3>4
    <3>5. CASE i > k + 1
      <4>1. i \in k + 2..n + 1 /\ i - 1 \in 1..n /\ i - 1 < j - 1
        BY <1>1, <1>2, <3>5
      <4>2. more[i] = ds[i - 1]
        BY <1>7, <4>1
      <4>3. ds[i - 1].start <= ds[j - 1].start
        BY <1>1, <3>1, <4>1 DEF SaidInOrder
      <4> QED BY <3>2, <4>2, <4>3
    <3> QED BY <1>1, <1>2, <3>3, <3>4, <3>5
  <2> QED BY <1>1, <1>2, <2>1, <2>2, <2>3
<1>10. ASSUME NEW i \in 1..n PROVE \E j \in DOMAIN more : more[j] = ds[i]
  <2>1. CASE i <= k
    <3>1. i \in 1..k
      BY <1>1, <1>2, <2>1
    <3> QED BY <1>4, <1>5, <3>1
  <2>2. CASE i > k
    <3>1. i + 1 \in k + 2..n + 1 /\ (i + 1) - 1 = i
      BY <1>1, <1>2, <2>2
    <3>2. more[i + 1] = ds[(i + 1) - 1] /\ i + 1 \in 1..n + 1
      BY <1>7, <3>1
    <3> QED BY <1>4, <3>1, <3>2
  <2> QED BY <1>1, <1>2, <2>1, <2>2
<1> QED BY <1>1, <1>4, <1>6, <1>9, <1>10 DEF more, k

\* The tail of lex: a byte that is not UTF-8 is in a diagnostic that was there, or gets one.
LEMMA Utf8Good ==
  ASSUME NEW b \in Seq(SourceBytes), NEW ds \in Seq(DiagSet), NEW toks, ErrorsSaid(toks, ds), SaidInOrder(ds)
  PROVE  BadBytesSaid(b, Utf8(b, ds)) /\ ErrorsSaid(toks, Utf8(b, ds)) /\ SaidInOrder(Utf8(b, ds))
<1> DEFINE at == Find(b, 1, {"bad"})
           said == \E i \in DOMAIN ds : ds[i].start <= at /\ at < ds[i].end
           g == Diag(at, at + 1, "InvalidUtf8")
<1>1. Len(b) \in Nat /\ 1 \in 1..Len(b) + 1 /\ DOMAIN b = 1..Len(b) /\ DOMAIN ds = 1..Len(ds) /\ Len(ds) \in Nat
  <2>1. Len(b) \in Nat /\ DOMAIN b = 1..Len(b) /\ DOMAIN ds = 1..Len(ds) /\ Len(ds) \in Nat
    OBVIOUS
  <2> HIDE DEF at, said, g
  <2> QED BY <2>1
<1>2. at \in 1..Len(b) + 1 /\ (at > Len(b) \/ b[at] \in {"bad"}) /\ \A r \in 1..at - 1 : b[r] \notin {"bad"}
  BY <1>1, FindIs
<1>3. Utf8(b, ds) = IF at > Len(b) \/ said THEN ds ELSE PutAt(ds, Place(ds, at), g)
  BY DEF Utf8
<1>4. g.start = at /\ g.end = at + 1
  BY DEF Diag
<1>5. \A i \in DOMAIN ds : ds[i].start \in Nat /\ ds[i].end \in Nat
  <2>1. \A i \in DOMAIN ds : ds[i] \in DiagSet
    OBVIOUS
  <2> QED BY <2>1 DEF DiagSet
<1> DEFINE more == PutAt(ds, Place(ds, at), g)
<1>6. /\ \A i \in DOMAIN ds : \E j \in DOMAIN more : more[j] = ds[i]
      /\ \E j \in DOMAIN more : more[j] = g
      /\ SaidInOrder(more)
  <2>1. g \in DiagSet
    <3>1. "InvalidUtf8" \in LexCodes
      BY DEF LexCodes
    <3>2. at \in Nat /\ at + 1 \in Nat
      <4> HIDE DEF at
      <4> QED BY <1>1, <1>2
    <3> HIDE DEF at
    <3> QED BY <3>1, <3>2 DEF Diag, DiagSet
  <2> HIDE DEF g
  <2>2. /\ \A i \in DOMAIN ds : \E j \in DOMAIN PutAt(ds, Place(ds, g.start), g) : PutAt(ds, Place(ds, g.start), g)[j] = ds[i]
        /\ \E j \in DOMAIN PutAt(ds, Place(ds, g.start), g) : PutAt(ds, Place(ds, g.start), g)[j] = g
        /\ SaidInOrder(PutAt(ds, Place(ds, g.start), g))
    BY <2>1, PutInOrder
  <2> QED BY <1>4, <2>2
<1> HIDE DEF at, g, more
<1>7. CASE at > Len(b)
  <2>1. \A p \in DOMAIN b : b[p] # "bad"
    BY <1>1, <1>2, <1>7
  <2> QED BY <1>3, <1>7, <2>1 DEF BadBytesSaid
<1>8. CASE at <= Len(b) /\ said
  <2>0. Utf8(b, ds) = ds
    BY <1>3, <1>8
  <2>1. Utf8(b, ds) = ds /\ b[at] = "bad" /\ at \in Nat
    <3> HIDE DEF said
    <3> QED BY <1>1, <1>2, <1>8, <2>0
  <2>2. PICK i \in DOMAIN ds : ds[i].start <= at /\ at < ds[i].end
    BY <1>8
  <2>3. at \in ds[i].start..ds[i].end - 1
    BY <1>5, <2>1, <2>2
  <2> QED BY <2>1, <2>3 DEF BadBytesSaid
<1>9. CASE at <= Len(b) /\ ~said
  <2>0. ~(at > Len(b)) /\ b[at] = "bad" /\ at \in Nat
    <3> HIDE DEF said
    <3> QED BY <1>1, <1>2, <1>9
  <2>1. Utf8(b, ds) = more /\ b[at] = "bad" /\ at \in Nat
    BY <1>3, <1>9, <2>0 DEF more
  <2>2. PICK j \in DOMAIN more : more[j] = g
    BY <1>6
  <2>3. at \in more[j].start..more[j].end - 1
    BY <1>4, <2>1, <2>2
  <2>4. BadBytesSaid(b, more)
    BY <2>1, <2>3 DEF BadBytesSaid
  <2>5. ErrorsSaid(toks, more)
    <3> SUFFICES ASSUME NEW i \in 1..Len(toks) - 1, toks[i].kind = "Error"
                 PROVE \E d \in DOMAIN more : more[d].start = toks[i].start /\ more[d].end = toks[i + 1].start
      BY DEF ErrorsSaid
    <3>1. PICK d \in DOMAIN ds : ds[d].start = toks[i].start /\ ds[d].end = toks[i + 1].start
      BY DEF ErrorsSaid
    <3>2. PICK j2 \in DOMAIN more : more[j2] = ds[d]
      BY <1>6
    <3> QED BY <3>1, <3>2
  <2> QED BY <1>6, <2>1, <2>4, <2>5
<1> QED BY <1>1, <1>2, <1>7, <1>8, <1>9

\* Whatever bytes the file holds (lexer.rs lex): the tokens start at its first
\* byte, each ends where the next starts and none is empty, up to the Eof at its
\* end; each is what the lexical grammar says starts there: white space, a name, a
\* keyword, a comment, lines of text, a range or punctuation, the longest there is;
\* the longest integer or float, with a suffix of the table or none, and a float
\* exactly if the grammar calls it one; a whole string, and never an error where the
\* grammar has a string; every error token has a diagnostic of its extent; a source
\* that is not UTF-8 is reported; and the diagnostics are in the order of the source.
THEOREM EverySourceTokenises ==
  ASSUME LexerParameters, NEW b \in Seq(SourceBytes), Len(b) <= MAX_SOURCE_LEN
  PROVE  LexedRight(b, Lex(b))
<1> DEFINE out == LexFrom(b)[1]
<1>1. Len(b) \in Nat /\ 1 \in 1..Len(b) + 1 /\ ~(Len(b) > MAX_SOURCE_LEN) /\ KeywordsAreWords
  <2>1. Len(b) \in Nat /\ MAX_SOURCE_LEN \in Nat /\ KeywordsAreWords
    BY GetIs DEF LexerParameters
  <2> HIDE DEF out
  <2> QED BY <2>1
<1>2. OutRight(b, 1, out)
  BY <1>1, LexFromGood
<1>3. Lex(b) = [toks |-> out.toks, diags |-> Utf8(b, out.diags)]
  BY <1>1 DEF Lex
<1> HIDE DEF out
<1>4. Lex(b).toks = out.toks /\ Lex(b).diags = Utf8(b, out.diags)
  BY <1>3
<1>5. out.diags \in Seq(DiagSet) /\ ErrorsSaid(out.toks, out.diags) /\ TokensRight(b, out.toks) /\ SaidInOrder(out.diags)
  BY <1>2 DEF OutRight
<1>6. Tiles(b, out.toks)
  BY <1>2 DEF OutRight, Tiles
<1>7. BadBytesSaid(b, Utf8(b, out.diags)) /\ ErrorsSaid(out.toks, Utf8(b, out.diags))
      /\ SaidInOrder(Utf8(b, out.diags))
  BY <1>5, Utf8Good
<1> QED BY <1>4, <1>5, <1>6, <1>7 DEF LexedRight

=============================================================================
