--------------------------- MODULE LanguageServer ---------------------------
(***************************************************************************)
(* The language server of crates/fors-lsp (lib.rs): `serve` reads framed   *)
(* messages from one stream, Server::handle answers each of them, and the  *)
(* answers go out on another stream before the next message is read.       *)
(*                                                                         *)
(* The editor at the other end (external) keeps its own buffers, sends     *)
(* without waiting for answers and reads what comes back when it likes: the *)
(* two streams are FIFO channels between two processes.                    *)
(*                                                                         *)
(* A text is one of three kinds, which is what the handlers tell apart: it *)
(* does not parse, it parses with names that do not resolve, or it is      *)
(* clean.  A body on the wire is a message, or something json::parse       *)
(* rejects; a frame may also be one that read_message rejects.             *)
(***************************************************************************)
EXTENDS Integers, Sequences

CONSTANTS
    Uris,           \* documents
    Texts,          \* texts, a subset of AllTexts
    MaxSent,        \* bound on the messages the editor sends
    MaxQueue,       \* bound on the messages in a channel
    AnyIds          \* whether ids are also left out of requests and put on notifications

AllTexts == {"broken", "unresolved", "clean"}
None == "none"

ASSUME TextsAssumption == Texts \subseteq AllTexts
ASSUME UrisAssumption == None \notin Uris

VARIABLES
    docs,           \* Server::docs, as a function on the open documents
    shutdown,       \* Server::shutdown_requested
    status,         \* of serve: "serving", "ended" (exit or end of input), "failed" (Err)
    inbox,          \* editor to server: what has been sent and not read
    outbox,         \* server to editor
    buffer,         \* the editor's text of a document, None when it is closed
    version,        \* the editor's version counter
    sent,           \* how many messages the editor has sent
    leaving,        \* whether the editor has sent shutdown
    asked,          \* history: the ids of the requests sent, in order
    shown,          \* the diagnostics the editor shows
    answered        \* history: the ids of the answers received, in order

server == <<docs, shutdown, status>>
editor == <<buffer, version, sent, leaving, asked, shown, answered>>
vars == <<server, inbox, outbox, editor>>

-----------------------------------------------------------------------------
(***************************************************************************)
(* Messages                                                                *)
(***************************************************************************)
DocQueries == {"formatting", "rangeFormatting", "documentSymbol", "foldingRange", "codeAction"}
Requests == DocQueries \cup {"initialize", "shutdown", "codeActionMalformed", "unknown"}

\* `seen` is history: the editor's text of the document when the message was
\* sent; `late`: it had sent shutdown before.
Message(method, id, uri) ==
    [method |-> method, id |-> id, uri |-> uri, text |-> None, version |-> 0,
     seen |-> IF uri = None THEN None ELSE buffer[uri], late |-> leaving]

\* Bodies and frames that are no message.
Unparsable == [method |-> "unparsable"]
BadFrame == [method |-> "bad frame"]
EndOfInput == [method |-> "end of input"]
IsMessage(m) == m \notin {Unparsable, BadFrame, EndOfInput}

\* A message with no method: a response of the editor, or a malformed request.
Response(id) == [Message("response", id, None) EXCEPT !.text = "result"]
NoMethod(id) == Message("no method", id, None)

Result(m, from) ==
    [kind |-> "result", id |-> m.id, from |-> from, seen |-> m.seen, late |-> m.late]
Error(m, code) ==
    [kind |-> "error", id |-> m.id, code |-> code, late |-> m.late]
ParseError == [kind |-> "error", id |-> 0, code |-> "ParseError", late |-> FALSE]
Publish(u, v, ds) == [kind |-> "publish", uri |-> u, version |-> v, diags |-> ds]

NoVersion == -1

\* diagnostic_entries: the resolver runs only when the parse is clean.
Diags(t) == IF t = "broken" THEN {"parse"} ELSE IF t = "unresolved" THEN {"name"} ELSE {}

-----------------------------------------------------------------------------
(***************************************************************************)
(* Server::handle                                                          *)
(***************************************************************************)
Open(D) == DOMAIN D

\* Server::diagnostics, from the documents D.
Diagnostics(D, u) ==
    IF u \in Open(D) THEN Publish(u, D[u].version, Diags(D[u].text)) ELSE Publish(u, NoVersion, {})

With(u, d) == [x \in Open(docs) \cup {u} |-> IF x = u THEN d ELSE docs[x]]
Without(u) == [x \in Open(docs) \ {u} |-> docs[x]]

Opened(m) == With(m.uri, [text |-> m.text, version |-> m.version])

\* Full sync: a change with a range is not applied.
Changed(m) ==
    IF m.uri \in Open(docs) /\ m.text # "ranged"
    THEN With(m.uri, [text |-> m.text, version |-> m.version])
    ELSE docs

\* Faulty variant: the answer is about any open document.
AnswerAny(m) ==
    Result(m, IF docs # <<>> THEN docs[CHOOSE u \in Open(docs) : TRUE].text ELSE None)

\* format, symbols, folding, code_action: an answer about the text the server
\* has, an empty one for a document it does not have.
Answer(m) == Result(m, IF m.uri \in Open(docs) THEN docs[m.uri].text ELSE None)

IfId(m, out) == IF m.id # 0 THEN <<out>> ELSE <<>>

Handles(m, out, D) == outbox' = outbox \o out /\ docs' = D

\* Faulty variant: the method is looked up first.
RejectedAfterLookup(m) ==
    /\ shutdown
    /\ m.method \notin {"exit", "response", "no method"}
    /\ LET code == IF m.method = "unknown" THEN "MethodNotFound" ELSE "InvalidRequest"
       IN Handles(m, IfId(m, Error(m, code)), docs)
    /\ UNCHANGED <<shutdown, status>>

\* The early return of handle once shutdown has been requested.
Rejected(m) ==
    /\ shutdown
    /\ m.method \notin {"exit", "response", "no method"}
    /\ Handles(m, IfId(m, Error(m, "InvalidRequest")), docs)
    /\ UNCHANGED <<shutdown, status>>

HandleNoMethod(m) ==
    /\ m.method \in {"response", "no method"}
    /\ Handles(m, IF m.method = "no method" THEN IfId(m, Error(m, "InvalidRequest")) ELSE <<>>, docs)
    /\ UNCHANGED <<shutdown, status>>

HandleLifecycle(m) ==
    \/ /\ m.method = "initialize" /\ ~shutdown
       /\ Handles(m, <<Result(m, m.seen)>>, docs)
       /\ UNCHANGED <<shutdown, status>>
    \/ /\ m.method = "initialized" /\ ~shutdown
       /\ Handles(m, <<>>, docs)
       /\ UNCHANGED <<shutdown, status>>
    \/ /\ m.method = "shutdown" /\ ~shutdown
       /\ shutdown' = TRUE
       /\ Handles(m, <<Result(m, m.seen)>>, docs)
       /\ UNCHANGED status
    \/ /\ m.method = "exit"
       /\ status' = "ended"
       /\ Handles(m, <<>>, docs)
       /\ UNCHANGED shutdown

\* Faulty variant: didClose forgets the document and not its diagnostics.
HandleDocumentCloseSilent(m) ==
    /\ ~shutdown
    /\ \/ m.method = "didOpen" /\ Handles(m, <<Diagnostics(Opened(m), m.uri)>>, Opened(m))
       \/ m.method = "didChange" /\ Handles(m, <<Diagnostics(Changed(m), m.uri)>>, Changed(m))
       \/ m.method = "didClose" /\ Handles(m, <<>>, Without(m.uri))
    /\ UNCHANGED <<shutdown, status>>

HandleDocument(m) ==
    /\ ~shutdown
    /\ \/ m.method = "didOpen" /\ Handles(m, <<Diagnostics(Opened(m), m.uri)>>, Opened(m))
       \/ m.method = "didChange" /\ Handles(m, <<Diagnostics(Changed(m), m.uri)>>, Changed(m))
       \/ m.method = "didClose" /\ Handles(m, <<Publish(m.uri, NoVersion, {})>>, Without(m.uri))
    /\ UNCHANGED <<shutdown, status>>

HandleQuery(m) ==
    /\ ~shutdown
    /\ \/ m.method \in DocQueries /\ Handles(m, <<Answer(m)>>, docs)
       \/ m.method = "codeActionMalformed" /\ Handles(m, <<Error(m, "InvalidParams")>>, docs)
       \/ m.method = "unknown" /\ Handles(m, IfId(m, Error(m, "MethodNotFound")), docs)
    /\ UNCHANGED <<shutdown, status>>

Handle(m) ==
    /\ IsMessage(m)
    /\ \/ Rejected(m)
       \/ HandleNoMethod(m)
       \/ HandleLifecycle(m)
       \/ HandleDocument(m)
       \/ HandleQuery(m)

-----------------------------------------------------------------------------
(***************************************************************************)
(* serve: one round of its loop                                            *)
(***************************************************************************)

\* A body that does not parse is answered and the loop goes on.
ReadUnparsable(m) ==
    /\ m = Unparsable
    /\ outbox' = Append(outbox, ParseError)
    /\ UNCHANGED server

\* read_message: no usable Content-Length, or the body is cut short.
ReadBadFrame(m) ==
    /\ m = BadFrame
    /\ status' = "failed"
    /\ UNCHANGED <<docs, shutdown, outbox>>

ReadEnd(m) ==
    /\ m = EndOfInput
    /\ status' = "ended"
    /\ UNCHANGED <<docs, shutdown, outbox>>

\* Faulty variant: the bytes of a rejected body are read again.
ServeRereads ==
    /\ status = "serving"
    /\ inbox # <<>>
    /\ Len(outbox) < MaxQueue
    /\ LET m == Head(inbox) IN
       ReadUnparsable(m) \/ ReadBadFrame(m) \/ ReadEnd(m) \/ Handle(m)
    /\ inbox' = IF Head(inbox) = Unparsable THEN inbox ELSE Tail(inbox)
    /\ UNCHANGED editor

Serve ==
    /\ status = "serving"
    /\ inbox # <<>>
    /\ Len(outbox) < MaxQueue
    /\ LET m == Head(inbox) IN
       ReadUnparsable(m) \/ ReadBadFrame(m) \/ ReadEnd(m) \/ Handle(m)
    /\ inbox' = Tail(inbox)
    /\ UNCHANGED editor

-----------------------------------------------------------------------------
(***************************************************************************)
(* The editor (external)                                                   *)
(***************************************************************************)
Init ==
    /\ docs = <<>>
    /\ shutdown = FALSE
    /\ status = "serving"
    /\ inbox = <<>>
    /\ outbox = <<>>
    /\ buffer = [u \in Uris |-> None]
    /\ version = [u \in Uris |-> 0]
    /\ sent = 0
    /\ leaving = FALSE
    /\ asked = <<>>
    /\ shown = [u \in Uris |-> [version |-> NoVersion, diags |-> {}]]
    /\ answered = <<>>

Send(m) ==
    /\ sent < MaxSent
    /\ Len(inbox) < MaxQueue
    /\ \A i \in DOMAIN inbox : inbox[i] \notin {EndOfInput, BadFrame}
    /\ sent' = sent + 1
    /\ inbox' = Append(inbox, m)
    /\ UNCHANGED <<server, outbox, shown, answered>>

\* The id of a message: a request has a fresh one, a notification none.
Ids(request) == IF AnyIds THEN {0, sent + 1} ELSE {IF request THEN sent + 1 ELSE 0}
Asks(id) == asked' = IF id = 0 THEN asked ELSE Append(asked, id)

SendOpen(u, t) ==
    /\ buffer[u] = None
    /\ buffer' = [buffer EXCEPT ![u] = t]
    /\ version' = [version EXCEPT ![u] = @ + 1]
    /\ \E id \in Ids(FALSE) :
           /\ Send([Message("didOpen", id, u) EXCEPT !.text = t, !.version = version[u] + 1])
           /\ Asks(id)
    /\ UNCHANGED leaving

SendChange(u, t) ==
    /\ buffer[u] # None
    /\ buffer' = [buffer EXCEPT ![u] = t]
    /\ version' = [version EXCEPT ![u] = @ + 1]
    /\ \E id \in Ids(FALSE) :
           /\ Send([Message("didChange", id, u) EXCEPT !.text = t, !.version = version[u] + 1])
           /\ Asks(id)
    /\ UNCHANGED leaving

\* A change the server did not ask for: incremental, or of a closed document.
SendStrayChange(u) ==
    /\ buffer[u] = None
    /\ \E t \in Texts \cup {"ranged"} :
           Send([Message("didChange", 0, u) EXCEPT !.text = t, !.version = 9])
    /\ UNCHANGED <<buffer, version, leaving, asked>>

SendClose(u) ==
    /\ buffer[u] # None
    /\ buffer' = [buffer EXCEPT ![u] = None]
    /\ \E id \in Ids(FALSE) : Send(Message("didClose", id, u)) /\ Asks(id)
    /\ UNCHANGED <<version, leaving>>

SendRequest(method, u) ==
    /\ method \in Requests
    /\ \E id \in Ids(TRUE) :
           Send(Message(method, id, IF method \in DocQueries THEN u ELSE None)) /\ Asks(id)
    /\ leaving' = (leaving \/ method = "shutdown")
    /\ UNCHANGED <<buffer, version>>

SendNotification(method) ==
    /\ method \in {"initialized", "exit", "unknown"}
    /\ \E id \in Ids(FALSE) : Send(Message(method, id, None)) /\ Asks(id)
    /\ UNCHANGED <<buffer, version, leaving>>

\* A malformed request has an id and is answered; a response has one too.
SendNoMethod ==
    /\ \/ Send(Response(sent + 1)) /\ UNCHANGED asked
       \/ Send(NoMethod(sent + 1)) /\ Asks(sent + 1)
    /\ UNCHANGED <<buffer, version, leaving>>

SendGarbage ==
    /\ Send(Unparsable) \/ Send(BadFrame) \/ Send(EndOfInput)
    /\ UNCHANGED <<buffer, version, leaving, asked>>

Receive ==
    /\ outbox # <<>>
    /\ LET m == Head(outbox) IN
       /\ shown' = IF m.kind = "publish"
                   THEN [shown EXCEPT ![m.uri] = [version |-> m.version, diags |-> m.diags]]
                   ELSE shown
       /\ answered' = IF m.kind = "publish" \/ m = ParseError THEN answered
                      ELSE Append(answered, m.id)
    /\ outbox' = Tail(outbox)
    /\ UNCHANGED <<server, inbox, buffer, version, sent, leaving, asked>>

Edit ==
    \E u \in Uris :
        \/ \E t \in Texts : SendOpen(u, t) \/ SendChange(u, t)
        \/ SendStrayChange(u)
        \/ SendClose(u)

Other ==
    \/ \E u \in Uris, method \in Requests : SendRequest(method, u)
    \/ \E method \in {"initialized", "exit", "unknown"} : SendNotification(method)
    \/ SendNoMethod
    \/ SendGarbage

Next == Serve \/ Receive \/ Edit \/ Other

\* serve loops until its input ends and the editor reads what it is sent.
Fairness == WF_vars(Serve) /\ WF_vars(Receive)
Spec == Init /\ [][Next]_vars /\ Fairness

-----------------------------------------------------------------------------
(***************************************************************************)
(* Properties                                                              *)
(***************************************************************************)

\* Ids of the requests in a channel to the server, in order.
Pending(ms) ==
    LET Waits(m) == IsMessage(m) /\ m.method # "response" /\ m.id # 0
        q == SelectSeq(ms, Waits)
    IN [i \in DOMAIN q |-> q[i].id]
Replies(ms) ==
    LET q == SelectSeq(ms, LAMBDA m : m.kind # "publish" /\ m # ParseError)
    IN [i \in DOMAIN q |-> q[i].id]

\* A query is answered from the text the editor had when it asked: edits sent
\* before it are applied first, and later ones are not, so the positions of
\* the answer are positions of that text.
AnswersTheTextAsked ==
    \A i \in DOMAIN outbox : outbox[i].kind = "result" => outbox[i].from = outbox[i].seen

\* Once both channels are empty the editor shows, for every document, the
\* diagnostics of the text it holds, with its version, and none for a closed one.
DiagnosticsSettle ==
    status = "serving" /\ inbox = <<>> /\ outbox = <<>> /\ ~shutdown =>
        \A u \in Uris :
            shown[u] = IF buffer[u] = None THEN [version |-> NoVersion, diags |-> {}]
                       ELSE [version |-> version[u], diags |-> Diags(buffer[u])]

\* What has been asked is answered in the end, unless the input ends first.
RequestsServed == (asked # answered) ~> (asked = answered \/ status # "serving")

\* "Answers one incoming message with the messages to send back: a response
\* (when the message carried an `id`) and any notifications" (lib.rs, handle).
ResponseWhenId ==
    LET Known == answered \o Replies(outbox) \o Pending(inbox) IN
    status = "serving" => \A i \in DOMAIN asked : \E j \in DOMAIN Known : Known[j] = asked[i]

\* "`exit` itself and bare notifications are unaffected" by shutdown (lib.rs).
NotificationsUnaffected ==
    status = "serving" /\ inbox = <<>> /\ outbox = <<>> =>
        \A u \in Uris : buffer[u] # None => shown[u].version = version[u]

=============================================================================
