----------------------------- MODULE QueryBuild -----------------------------
(***************************************************************************)
(* The incremental build of crates/fors-check (queries/mod.rs, memo.rs):   *)
(* the query set that runs on the engine of fors-query, and the driver     *)
(* QueryBuild::recheck with its plan of red bodies.                        *)
(*                                                                         *)
(* The owner edits, adds and removes files and calls recheck; a completed  *)
(* recheck leaves in the memos the diagnostics that `diagnostics` prints.  *)
(* recheck runs on one thread and touches nothing but its own QueryBuild,  *)
(* so here it is one action.  The only thing another thread can do to it   *)
(* is to raise the cancel flag, and the flag is only looked at when the    *)
(* engine polls it: the parameter `polls` of Recheck is the number of      *)
(* polls that still find the flag down.                                    *)
(*                                                                         *)
(* Inside the action the engine is the one of module QueryEngine, written  *)
(* as functions on a record S (the Db, the memos, and the flags of the     *)
(* call): Pull, Verify, Execute.  Value hashes are the hashed content      *)
(* itself, so two hashes are equal when the contents are.                  *)
(*                                                                         *)
(* Declarations are functions and structs.  Of a declaration's text the    *)
(* model keeps what the queries tell apart: the declarations its signature *)
(* names, whether its signature is ill formed, the declarations its body   *)
(* names, the signature the body expects of them, and whether the body has *)
(* an error of its own.  There are no impls and no generics: the impl      *)
(* nodes of the query set are not modelled.                                *)
(***************************************************************************)
EXTENDS Integers, Sequences, FiniteSets, SequencesExt

CONSTANTS
    Files,              \* a sequence: the files, in the order they are added
    DeclsIn(_),         \* the declarations a file may hold, in source order
    Fns,                \* the declarations that have a body
    Texts(_),           \* the texts a declaration may have
    FirstText(_),       \* the one it is added with
    MaxDisturbances,    \* bound on edits, cancelled rechecks and late files together
    MaxCuts,            \* bound on the rechecks that are cancelled
    CancelPoints,       \* the values of `polls` explored
    Never               \* polls, when the flag stays down

FileSet == Range(Files)
Decls == UNION {Range(DeclsIn(f)) : f \in FileSet}
FileOf(d) == CHOOSE f \in FileSet : d \in Range(DeclsIn(f))

VARIABLES
    files,      \* QueryBuild::files, as far as add_file has come
    live,       \* FileEntry::live
    pad,        \* FileEntry::source: the trivia before the first declaration
    text,       \* FileEntry::source: the declarations, a function on those present
    qb,         \* the Db and the Memo
    outcome,    \* how the last recheck ended; "edited" after an edit
    checked,    \* the bodies the last recheck type-checked
    edits,      \* how many edits have been made
    past,       \* history: what happened to the sources so far
    basis       \* history: what each body was last checked against

source == <<files, live, pad, text>>
vars == <<source, qb, outcome, checked, edits, past, basis>>

Present == DOMAIN text
In(f) == SelectSeq(DeclsIn(f), LAMBDA d : d \in Present)
TextOf(f) == [d \in Range(In(f)) |-> text[d]]

\* Source positions.  Every declaration is DeclSize long; its signature
\* diagnostics point at its start and its body diagnostics BodyAt further.
DeclSize == 3
BodyAt == 1
Origin(d) == pad[FileOf(d)] + DeclSize * (SelectInSeq(In(FileOf(d)), LAMBDA e : e = d) - 1)

-----------------------------------------------------------------------------
(***************************************************************************)
(* The whole-build passes: resolve, check_signatures, check_bodies.  They  *)
(* read this revision's sources and nothing else.                          *)
(***************************************************************************)
SigTokens(t) == <<t.mentions, t.sigErr>>
BodyTokens(t) == <<t.calls, t.expects, t.bodyErr>>

\* The name uses of a declaration with what they resolve to.
Uses(d) == [x \in text[d].mentions \cup text[d].calls |-> x \in Present]
Mentions(d) == text[d].mentions \cap Present
SigHash(d) == <<Mentions(d), text[d].sigErr>>
SigDiags(d) == IF text[d].sigErr THEN {[code |-> "sig", start |-> Origin(d)]} ELSE {}

\* The signatures the body of d looks at, and its diagnostics: its own
\* error, and a use of something whose signature is not the expected one.
\* A name that does not resolve is the resolver's error and not the body's.
BodyReads(d) == text[d].calls \cap Present
BodyDiags(d) ==
    IF \/ text[d].bodyErr
       \/ \E c \in BodyReads(d) : Mentions(c) # text[d].expects
    THEN {[code |-> "body", start |-> Origin(d) + BodyAt]}
    ELSE {}

\* R14: a struct that stores itself by value.  One diagnostic for a cycle,
\* at the first of its declarations.
Structs == Decls \ Fns
Stores(d) == IF d \in Present \ Fns THEN Mentions(d) \ Fns ELSE {}
RECURSIVE Reach(_, _)
Reach(D, n) == IF n = 0 THEN D ELSE Reach(D \cup UNION {Stores(d) : d \in D}, n - 1)
Reaches(d) == Reach(Stores(d), Cardinality(Structs))
AllDecls == FlattenSeq([i \in DOMAIN Files |-> DeclsIn(Files[i])])
Before(d, e) == SelectInSeq(AllDecls, LAMBDA x : x = d) < SelectInSeq(AllDecls, LAMBDA x : x = e)
Infinite ==
    {d \in Present : /\ d \in Reaches(d)
                     /\ \A e \in Reaches(d) : d \in Reaches(e) => e = d \/ Before(d, e)}

-----------------------------------------------------------------------------
(***************************************************************************)
(* Node keys and the edges of the query set                                *)
(***************************************************************************)
K(kind, x) == <<kind, x>>
Unit(kind) == <<kind, "build">>

FileKinds == {"SOURCE_TEXT", "PARSE", "MODULE_FACTS", "DECL_INDEX", "DECL_KEYS", "MODULE_EXPORTS"}
DeclKinds == {"DECL_SIG_TOKENS", "DECL_BODY_TOKENS", "NAME_USES", "DECL_ARITY",
              "SIGNATURE_OF", "SIZE_EDGES", "CHECK_BODY"}
UnitKinds == {"FILE_SET", "MODULE_GRAPH", "RESOLVE_BUILD", "SIGNATURE_PHASE", "INFINITE_SIZE"}
InputKinds == {"FILE_SET", "SOURCE_TEXT"}
StageAKinds == {"PARSE", "MODULE_FACTS", "DECL_INDEX", "DECL_KEYS",
                "DECL_SIG_TOKENS", "DECL_BODY_TOKENS"}

Keys == (FileKinds \X FileSet) \cup (DeclKinds \X Decls) \cup {Unit(k) : k \in UnitKinds}

NoSite == -1
HasSite(S, d) == S.site[d] # NoSite

\* The slots whose declaration is in the build.
LiveSlots(S) == SelectSeq(S.slots, LAMBDA d : HasSite(S, d))
Slots(S, D) == SelectSeq(S.slots, LAMBDA d : d \in D)
Each(kind, s) == [i \in DOMAIN s |-> K(kind, s[i])]

\* What compute reads, in order.  The branches it takes depend on the memos
\* (S.site, S.defs) and on the passes, and on neither does a read have an
\* effect while a stage runs.
ReadsA(S, kind, x) ==
    CASE kind = "PARSE" -> <<K("SOURCE_TEXT", x)>>
      [] kind \in {"MODULE_FACTS", "DECL_INDEX"} -> <<K("PARSE", x)>>
      [] kind = "DECL_KEYS" -> <<K("DECL_INDEX", x)>>
      [] kind \in {"DECL_SIG_TOKENS", "DECL_BODY_TOKENS"} ->
             IF HasSite(S, x) THEN <<K("DECL_INDEX", FileOf(x))>> ELSE <<>>

\* The items the signature names, by arity only: two structs may name each other.
SignatureEdges(S, x) ==
    IF HasSite(S, x) THEN Each("DECL_ARITY", Slots(S, Mentions(x))) ELSE <<>>

\* Faulty variant: a body does not depend on what it calls.
BodyEdgesNone(S, x) == <<>>

\* The signatures the body read, known for the bodies of the body phase.
BodyEdges(S, x) ==
    IF HasSite(S, x) /\ x \in S.phase
    THEN Each("SIGNATURE_OF", Slots(S, BodyReads(x)))
    ELSE <<>>

\* Faulty variant: the set of files is not an input of the resolver.
ResolveEdgesNoFileSet ==
    FlattenSeq([i \in DOMAIN files |-> <<K("PARSE", files[i]), K("MODULE_FACTS", files[i])>>])

ResolveEdges ==
    <<Unit("FILE_SET")>>
    \o FlattenSeq([i \in DOMAIN files |-> <<K("PARSE", files[i]), K("MODULE_FACTS", files[i])>>])

ReadsB(S, kind, x) ==
    CASE kind = "MODULE_GRAPH" -> <<Unit("FILE_SET")>> \o Each("MODULE_FACTS", files)
      [] kind = "RESOLVE_BUILD" -> ResolveEdges
      [] kind = "SIGNATURE_PHASE" -> <<Unit("RESOLVE_BUILD")>> \o Each("DECL_INDEX", files)
      [] kind = "MODULE_EXPORTS" -> <<Unit("MODULE_GRAPH"), K("DECL_INDEX", x)>>
      [] kind = "NAME_USES" ->
             <<Unit("RESOLVE_BUILD")>>
             \o (IF HasSite(S, x) THEN <<K("DECL_INDEX", FileOf(x))>> ELSE <<>>)
      [] kind = "DECL_ARITY" ->
             <<K("DECL_SIG_TOKENS", x)>>
             \o (IF x \in S.defs THEN <<K("MODULE_EXPORTS", FileOf(x))>> ELSE <<>>)
      [] kind = "SIGNATURE_OF" ->
             <<K("DECL_SIG_TOKENS", x), K("NAME_USES", x), K("DECL_ARITY", x)>>
             \o SignatureEdges(S, x)
      [] kind = "SIZE_EDGES" -> <<K("SIGNATURE_OF", x)>>
      [] kind = "INFINITE_SIZE" -> Each("DECL_KEYS", files) \o Each("SIZE_EDGES", LiveSlots(S))
      [] kind = "CHECK_BODY" ->
             <<K("DECL_BODY_TOKENS", x), K("DECL_SIG_TOKENS", x),
               K("NAME_USES", x), K("SIGNATURE_OF", x)>>
             \o BodyEdges(S, x)

Reads(S, k) == IF k[1] \in StageAKinds THEN ReadsA(S, k[1], k[2]) ELSE ReadsB(S, k[1], k[2])

-----------------------------------------------------------------------------
(***************************************************************************)
(* What compute returns once it has read, and what it leaves in the memos  *)
(***************************************************************************)

\* CachedDiag::of and ::render: positions relative to the declaration.
Cached(ds, origin) == {[d EXCEPT !.start = @ - origin] : d \in ds}
Rendered(ds, origin) == {[d EXCEPT !.start = IF origin + @ < 0 THEN 0 ELSE origin + @] : d \in ds}

ValueA(S, kind, x) ==
    CASE kind = "PARSE" -> <<TextOf(x)>>            \* tokens and tree shape: no trivia
      [] kind = "MODULE_FACTS" -> <<>>              \* headers and imports are never edited
      [] kind = "DECL_INDEX" -> <<TextOf(x)>>
      [] kind = "DECL_KEYS" -> <<Range(In(x))>>
      [] kind = "DECL_SIG_TOKENS" ->
             IF HasSite(S, x) THEN <<SigTokens(S.table[FileOf(x)][x])>> ELSE <<>>
      [] kind = "DECL_BODY_TOKENS" ->
             IF HasSite(S, x) THEN <<BodyTokens(S.table[FileOf(x)][x])>> ELSE <<>>

NameUsesValue(x) == <<Uses(x)>>

ValueB(S, kind, x) ==
    CASE kind = "MODULE_GRAPH" -> <<>>
      [] kind = "RESOLVE_BUILD" -> <<[d \in Present |-> Uses(d)]>>
      [] kind = "SIGNATURE_PHASE" ->
             <<[d \in Present |-> <<SigHash(d), SigDiags(d)>>], Infinite>>
      [] kind = "MODULE_EXPORTS" ->
             <<In(x), [d \in Range(In(x)) |-> SigTokens(text[d])]>>
      [] kind = "NAME_USES" -> IF HasSite(S, x) THEN NameUsesValue(x) ELSE <<>>
      [] kind = "DECL_ARITY" -> IF x \in S.defs THEN <<"arity">> ELSE <<>>
      [] kind = "SIGNATURE_OF" ->
             IF HasSite(S, x) THEN <<SigHash(x), Cached(SigDiags(x), S.site[x])>> ELSE <<>>
      [] kind = "SIZE_EDGES" ->
             IF x \in S.defs
             THEN <<S.sigHash[x], IF x \in Present THEN Stores(x) ELSE {}>>
             ELSE <<>>
      [] kind = "INFINITE_SIZE" ->
             <<{<<d, Origin(d) - S.site[d]>> : d \in {e \in Infinite : HasSite(S, e)}}>>
      [] kind = "CHECK_BODY" ->
             IF HasSite(S, x)
             THEN <<IF x \in S.phase THEN Cached(BodyDiags(x), S.site[x]) ELSE {}>>
             ELSE <<>>

Value(S, k) == IF k[1] \in StageAKinds THEN ValueA(S, k[1], k[2]) ELSE ValueB(S, k[1], k[2])

\* decl_keys: the sites this file owned are dropped, the ones it has now are
\* written, and a key never seen gets the next slot (Decls::slot).
WriteKeys(S, f) ==
    [S EXCEPT
        !.site = [d \in Decls |-> IF d \in Range(In(f)) THEN Origin(d)
                                  ELSE IF d \in Range(S.fileSlots[f]) THEN NoSite
                                  ELSE S.site[d]],
        !.slots = @ \o SelectSeq(In(f), LAMBDA d : d \notin Range(S.slots)),
        !.fileSlots[f] = In(f)]

Memoise(S, k, v) ==
    LET x == k[2] IN
    CASE k[1] = "DECL_INDEX" -> [S EXCEPT !.table[x] = TextOf(x)]
      [] k[1] = "DECL_KEYS" -> WriteKeys(S, x)
      [] k[1] = "SIGNATURE_OF" /\ v # <<>> ->
             [S EXCEPT !.sigHash[x] = v[1], !.sigDiags[x] = v[2]]
      [] k[1] = "INFINITE_SIZE" -> [S EXCEPT !.infinite = v[1]]
      [] k[1] = "CHECK_BODY" /\ v # <<>> -> [S EXCEPT !.bodyDiags[x] = v[1]]
      [] OTHER -> S

-----------------------------------------------------------------------------
(***************************************************************************)
(* The engine, as in QueryEngine                                           *)
(***************************************************************************)
NewNode ==
    [id |-> 0, valid |-> FALSE, value |-> <<>>, verifiedAt |-> 0, changedAt |-> 0, deps |-> {}]

\* Polling the flag; every operation below does nothing once it is seen up.
Poll(S) ==
    IF S.polls = Never THEN S
    ELSE IF S.polls = 0 THEN [S EXCEPT !.cancelled = TRUE]
    ELSE [S EXCEPT !.polls = @ - 1]

Intern(S, k) ==
    IF S.cancelled \/ S.node[k].id # 0 THEN S
    ELSE [S EXCEPT !.node[k].id = S.ids + 1, !.ids = @ + 1]

\* Faulty variant: no new revision.
WriteSameRevision(S, k, v) ==
    [S EXCEPT !.rev = IF @ = 0 THEN 1 ELSE @,
              !.node[k] = [@ EXCEPT !.valid = TRUE, !.value = v,
                                    !.changedAt = S.rev, !.verifiedAt = S.rev]]
Write(S, k, v) ==
    IF S.node[k].valid /\ S.node[k].value = v THEN S
    ELSE [S EXCEPT !.rev = @ + 1,
                   !.node[k] = [@ EXCEPT !.valid = TRUE, !.value = v,
                                         !.changedAt = S.rev + 1, !.verifiedAt = S.rev + 1]]
SetInput(S, k, v) == Write(Intern(S, k), k, v)

UpToDate(S, k) == S.node[k].valid /\ S.node[k].verifiedAt = S.rev

\* execute's end: edges, stamps, early cutoff, and the memo columns that
\* compute wrote.
Commit(S, k, v) ==
    [Memoise(S, k, v) EXCEPT
        !.node[k] = [@ EXCEPT
            !.deps = Range(Reads(S, k)) \ {k},
            !.verifiedAt = S.rev,
            !.changedAt = IF ~S.node[k].valid \/ S.node[k].value # v THEN S.rev ELSE @,
            !.value = v,
            !.valid = TRUE],
        !.busy = @ \ {k}]

\* Faulty variant: a walk that was cancelled in stage B leaves its node up to date.
InterruptedIsGreen(S, k) ==
    [S EXCEPT !.node[k].verifiedAt = IF S.stage = "B" THEN S.rev ELSE @]
Interrupted(S, k) == S

RECURSIVE Pull(_, _), Walk(_, _, _), ReadAll(_, _)

\* The walk of k over the dependencies D that it has not asked yet, in the
\* order of their ids.  `red` is its verdict.
FirstId(S, D) == CHOOSE x \in D : \A y \in D : S.node[x].id <= S.node[y].id
Asked(S, k, d, D) ==
    IF S.cancelled THEN Interrupted(S, k)
    ELSE IF S.node[d].changedAt > S.node[k].verifiedAt
         THEN [S EXCEPT !.busy = @ \ {k}, !.red = TRUE]
         ELSE Walk(S, k, D \ {d})
AskNext(S, k, d, D) == Asked(Pull(S, d), k, d, D)
Walk(S, k, D) ==
    IF D = {}
    THEN [S EXCEPT !.node[k].verifiedAt = S.rev, !.busy = @ \ {k}, !.red = FALSE]
    ELSE AskNext(S, k, FirstId(S, D), D)

Verify(S, k) ==
    IF S.node[k].valid
    THEN Walk([S EXCEPT !.busy = @ \cup {k}], k, S.node[k].deps)
    ELSE [S EXCEPT !.red = TRUE]

ReadAll(S, ks) ==
    IF ks = <<>> \/ S.cancelled THEN S ELSE ReadAll(Pull(S, Head(ks)), Tail(ks))

\* A stage has no compute for the other stage's kinds: `misrouted` is the
\* unreachable! of StageA::compute and StageB::compute.
HasRead(S, k) == IF S.cancelled THEN S ELSE Commit(S, k, Value(S, k))
Execute(S, k) ==
    HasRead(ReadAll([S EXCEPT !.busy = @ \cup {k},
                              !.misrouted = @ \/ (k[1] \in StageAKinds) # (S.stage = "A")],
                    Reads(S, k)),
            k)

\* A key in flight is answered by on_cycle; `cycled` records that it was.
Verified(S, k) == IF S.cancelled \/ ~S.red THEN S ELSE Execute(S, k)
Answer(S, k) ==
    IF S.cancelled \/ k[1] \in InputKinds \/ UpToDate(S, k) THEN S
    ELSE IF k \in S.busy THEN [S EXCEPT !.cycled = TRUE]
    ELSE Verified(Verify(S, k), k)
Pull(S, k) == Answer(Intern(Poll(S), k), k)

Probe(S, k) ==
    IF S.cancelled THEN S
    ELSE IF UpToDate(S, k) THEN [S EXCEPT !.red = FALSE]
    ELSE Verify(S, k)
IsRed(S, k) == Probe(Intern(Poll(S), k), k)

-----------------------------------------------------------------------------
(***************************************************************************)
(* recheck                                                                 *)
(***************************************************************************)

\* QueryBuild::new, and the flags of one call.
NewBuild ==
    [node |-> [k \in Keys |-> NewNode], ids |-> 0, rev |-> 0,
     slots |-> <<>>, site |-> [d \in Decls |-> NoSite], defs |-> {},
     fileSlots |-> [f \in FileSet |-> <<>>], table |-> [f \in FileSet |-> <<>>],
     sigHash |-> [d \in Decls |-> <<>>], sigDiags |-> [d \in Decls |-> {}],
     bodyDiags |-> [d \in Decls |-> {}], infinite |-> {},
     polls |-> Never, cancelled |-> FALSE, busy |-> {}, red |-> FALSE,
     stage |-> "none", phase |-> {}, misrouted |-> FALSE, cycled |-> FALSE]

RECURSIVE SetSources(_, _)
SetSources(S, fs) ==
    IF fs = <<>> THEN S
    ELSE LET f == Head(fs) IN
         SetSources(SetInput(S, K("SOURCE_TEXT", f), <<live[f], pad[f], TextOf(f)>>), Tail(fs))

SetInputs(S) == SetSources(SetInput(S, Unit("FILE_SET"), <<{f \in Range(files) : live[f]}>>), files)

\* Faulty variant: only the slots still in the build.
TokenSlotsLive(S) == LiveSlots(S)
TokenSlots(S) == S.slots

\* Keys of the given kinds for each member of a sequence, member by member.
ForEach(kinds, xs) ==
    FlattenSeq([i \in DOMAIN xs |-> [j \in DOMAIN kinds |-> K(kinds[j], xs[i])]])

\* The per-file half, then the tokens of every slot, then a poll.
Polled(S) == IF S.cancelled THEN S ELSE Poll(S)
Tokens(S) == ReadAll(S, ForEach(<<"DECL_SIG_TOKENS", "DECL_BODY_TOKENS">>, TokenSlots(S)))
StageA(S) ==
    Polled(Tokens(ReadAll([S EXCEPT !.stage = "A"],
                          ForEach(<<"PARSE", "DECL_INDEX", "MODULE_FACTS", "DECL_KEYS">>, files))))

\* The whole-build passes have run: definitions are renumbered, and the
\* nodes that read the passes are demanded for every live slot.
Demanded(L) ==
    <<Unit("MODULE_GRAPH"), Unit("RESOLVE_BUILD"), Unit("SIGNATURE_PHASE")>>
    \o ForEach(<<"NAME_USES", "DECL_ARITY">>, L)
    \o ForEach(<<"SIGNATURE_OF", "SIZE_EDGES">>, L)
    \o <<Unit("INFINITE_SIZE")>>
StageB(S) ==
    IF S.cancelled THEN S
    ELSE ReadAll([S EXCEPT !.stage = "B", !.defs = @ \cup Range(LiveSlots(S))],
                 Demanded(LiveSlots(S)))

\* The plan: is_red of every body, before any of them is type-checked.
RECURSIVE Plan(_, _)
Planned(S, d) == IF ~S.cancelled /\ S.red THEN [S EXCEPT !.phase = @ \cup {d}] ELSE S
Plan(S, ds) ==
    IF ds = <<>> \/ S.cancelled THEN S
    ELSE Plan(Planned(IsRed(S, K("CHECK_BODY", Head(ds))), Head(ds)), Tail(ds))

\* One body phase for the red set (a poll before it), then their nodes.
BodyPhase(S) ==
    IF S.cancelled THEN [S EXCEPT !.phase = {}]
    ELSE ReadAll(S, Each("CHECK_BODY", Slots(S, S.phase)))
Bodies(S) ==
    IF S.cancelled THEN S
    ELSE BodyPhase(Polled(Plan(S, SelectSeq(LiveSlots(S), LAMBDA d : d \in Fns))))

Rechecked(S, polls) == Bodies(StageB(StageA([SetInputs(S) EXCEPT !.polls = polls])))

\* The record between two calls: the flags of the call are gone.
AtRest(S) ==
    [S EXCEPT !.polls = Never, !.cancelled = FALSE, !.busy = {}, !.red = FALSE,
              !.stage = "none", !.phase = {}]

\* QueryBuild::diagnostics: the printing walk over the memos.
Diagnostics(S) ==
    LET Printed(f) == {d \in Range(S.fileSlots[f]) : HasSite(S, d)}
        Of(d) == Rendered(S.sigDiags[d] \cup S.bodyDiags[d], S.site[d])
    IN UNION {{<<d, x>> : x \in Of(d)} :
                  d \in UNION {Printed(f) : f \in {g \in Range(files) : live[g]}}}
       \cup {<<r[1], [code |-> "infinite", start |-> S.site[r[1]] + r[2]]>> :
                 r \in {x \in S.infinite : HasSite(S, x[1]) /\ live[FileOf(x[1])]}}

-----------------------------------------------------------------------------
(***************************************************************************)
(* The owner's calls                                                       *)
(***************************************************************************)
Init ==
    /\ files = <<>>
    /\ live = [f \in FileSet |-> FALSE]
    /\ pad = [f \in FileSet |-> 0]
    /\ text = <<>>
    /\ qb = NewBuild
    /\ outcome = "edited"
    /\ checked = {}
    /\ edits = 0
    /\ past = [moved |-> FALSE, gone |-> {}, readded |-> {}, grown |-> FALSE, cuts |-> 0]
    /\ basis = [d \in Fns |-> <<>>]

\* What the exploration is bounded by: edits, rechecks cut short, and files
\* that join a build already checked (once for all of them).
Disturbed == edits + past.cuts + (IF past.grown THEN 1 ELSE 0)

AddFile(f) ==
    /\ Len(files) < Len(Files)
    /\ f = Files[Len(files) + 1]
    /\ qb.rev > 0 /\ ~past.grown => Disturbed < MaxDisturbances
    /\ files' = Append(files, f)
    /\ live' = [live EXCEPT ![f] = TRUE]
    /\ text' = [d \in Present \cup Range(DeclsIn(f)) |->
                    IF d \in Present THEN text[d] ELSE FirstText(d)]
    /\ outcome' = "edited"
    /\ past' = [past EXCEPT !.grown = @ \/ qb.rev > 0]
    /\ UNCHANGED <<pad, qb, checked, edits, basis>>

\* edit_file: one declaration rewritten, deleted or inserted, or the trivia
\* at the top of the file changed.
Edited(f) ==
    /\ live[f]
    /\ Disturbed < MaxDisturbances
    /\ edits' = edits + 1
    /\ outcome' = "edited"

Rewrite(d, t) ==
    /\ d \in Present
    /\ Edited(FileOf(d))
    /\ text[d] # t
    /\ text' = [text EXCEPT ![d] = t]
    /\ UNCHANGED <<files, live, pad, qb, checked, past, basis>>

Delete(d) ==
    /\ d \in Present
    /\ Edited(FileOf(d))
    /\ text' = [x \in Present \ {d} |-> text[x]]
    /\ past' = [past EXCEPT !.gone = @ \cup {d}]
    /\ UNCHANGED <<files, live, pad, qb, checked, basis>>

Insert(d, t) ==
    /\ d \notin Present
    /\ Edited(FileOf(d))
    /\ text' = [x \in Present \cup {d} |-> IF x = d THEN t ELSE text[x]]
    /\ past' = [past EXCEPT !.readded = @ \cup ({d} \cap past.gone)]
    /\ UNCHANGED <<files, live, pad, qb, checked, basis>>

Comment(f) ==
    /\ Edited(f)
    /\ pad' = [pad EXCEPT ![f] = 2 - @]
    /\ past' = [past EXCEPT !.moved = TRUE]
    /\ UNCHANGED <<files, live, text, qb, checked, basis>>

RemoveFile(f) ==
    /\ Edited(f)
    /\ live' = [live EXCEPT ![f] = FALSE]
    /\ pad' = [pad EXCEPT ![f] = 0]
    /\ text' = [x \in Present \ Range(DeclsIn(f)) |-> text[x]]
    /\ UNCHANGED <<files, qb, checked, past, basis>>

\* History: what the check of a body can depend on.
Basis(d) ==
    <<SigTokens(text[d]), BodyTokens(text[d]), Uses(d),
      [c \in BodyReads(d) |-> <<SigHash(c), SigDiags(c) # {}>>]>>

Recheck(polls) ==
    LET S == Rechecked(qb, polls) IN
    /\ polls # Never => past.cuts < MaxCuts /\ Disturbed < MaxDisturbances
    /\ qb' = AtRest(S)
    /\ outcome' = IF S.cancelled THEN "cancelled" ELSE "done"
    /\ checked' = S.phase
    /\ past' = [past EXCEPT !.cuts = IF S.cancelled THEN @ + 1 ELSE @]
    /\ basis' = [d \in Fns |-> IF d \in S.phase /\ UpToDate(S, K("CHECK_BODY", d))
                                THEN Basis(d) ELSE basis[d]]
    /\ UNCHANGED <<source, edits>>

Next ==
    \/ \E f \in FileSet : AddFile(f) \/ Comment(f) \/ RemoveFile(f)
    \/ \E d \in Decls : Delete(d) \/ \E t \in Texts(d) : Rewrite(d, t) \/ Insert(d, t)
    \/ \E polls \in CancelPoints \cup {Never} : Recheck(polls)

Spec == Init /\ [][Next]_vars

-----------------------------------------------------------------------------
(***************************************************************************)
(* Properties                                                              *)
(***************************************************************************)

Cold == Diagnostics(Rechecked(NewBuild, Never))

WithoutPositions(ds) == {<<x[1], x[2].code>> : x \in ds}
WithoutSizes(ds) == {x \in ds : x[2].code # "infinite"}

\* A completed recheck prints what a build from nothing prints of the same
\* sources, whatever edits, additions, removals and cancelled rechecks came
\* before (the judge of tests/incremental_verify.rs).  Three histories are
\* left out, for which the code does not keep this: a declaration deleted and inserted again; for
\* the positions, an edit of trivia alone; for the R14 verdicts, a file added
\* to a build that has been checked.
RecheckEqualsCold ==
    LET Sized(ds) == IF past.grown THEN WithoutSizes(ds) ELSE ds
        Compared(ds) == IF past.moved THEN WithoutPositions(Sized(ds)) ELSE Sized(ds) IN
    outcome = "done" /\ past.readded = {} => Compared(Diagnostics(qb)) = Compared(Cold)

\* No node of the per-file half is found red while the other half runs, which
\* has no compute for it (the unreachable! arms of the two computes). Nor does a
\* read of the query set lead back to a query in flight, although what a node
\* reads shifts with the sources: the engine's recovery value, which depends
\* on the order of the demands, is never used.
StagesSeparate == ~qb.misrouted /\ ~qb.cycled

\* The three that do not hold, for a reader to put in a configuration: what
\* tests/incremental.rs and tests/incremental_verify.rs assert after every
\* edit, for a declaration that was deleted and inserted again;
ReinsertedEqualsCold ==
    outcome = "done" /\ ~past.grown => WithoutPositions(Diagnostics(qb)) = WithoutPositions(Cold)

\* with the positions, which diagnostics() is documented to render against
\* the current revision's origins;
CommentEqualsCold ==
    outcome = "done" /\ past.readded = {} /\ ~past.grown => Diagnostics(qb) = Cold

\* and for a build that gained files since it was last checked.
GrownEqualsCold ==
    outcome = "done" /\ past.readded = {} =>
        WithoutPositions(Diagnostics(qb)) = WithoutPositions(Cold)

-----------------------------------------------------------------------------
(* A build of two files.  A holds the function f and the struct s, B the   *)
(* function g and the struct t: f may call g and expect a signature of it, *)
(* s and t may store each other.                                           *)

MCFiles == <<"A", "B">>
MCDeclsIn(f) == IF f = "A" THEN <<"s", "f">> ELSE <<"t", "g">>
MCFns == {"f", "g"}

Struct(m) == [mentions |-> m, sigErr |-> FALSE, calls |-> {}, expects |-> {}, bodyErr |-> FALSE]
Fn(m, e, c, x, b) == [mentions |-> m, sigErr |-> e, calls |-> c, expects |-> x, bodyErr |-> b]

MCTexts(d) ==
    CASE d = "s" -> {Struct({}), Struct({"t"})}
      [] d = "t" -> {Struct({"s"}), Struct({"t"})}
      [] d = "f" -> {Fn({}, FALSE, {"g"}, {}, FALSE), Fn({}, FALSE, {}, {}, TRUE)}
      [] d = "g" -> {Fn({}, FALSE, {}, {}, FALSE), Fn({"s"}, FALSE, {}, {}, FALSE),
                     Fn({}, TRUE, {}, {}, TRUE)}
MCFirstText(d) ==
    CASE d = "s" -> Struct({})
      [] d = "t" -> Struct({"s"})
      [] d = "f" -> Fn({}, FALSE, {"g"}, {}, FALSE)
      [] d = "g" -> Fn({}, FALSE, {}, {}, FALSE)

\* Edits start from a build that has been checked once, with a file in it.
StartsChecked == (edits > 0 => qb.rev > 0) /\ (qb.rev > 0 => files # <<>>)

=============================================================================
