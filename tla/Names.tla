------------------------------- MODULE Names -------------------------------
(***************************************************************************)
(* Modules, imports and names (fors-index module.rs; fors-resolve          *)
(* items.rs, scope.rs, lib.rs, authority.rs): the graph of the modules a   *)
(* package's files use, what each module exports, what each import binds,  *)
(* and what each name in an item denotes.                                  *)
(*                                                                         *)
(* A file is [name, header, uses, needs, items]; a use is [path, as, pub]; *)
(* an item and everything in it is a node [k, nm, pub, segs, kids], with   *)
(* the kinds of the syntax tree.  A place in a file is the address of a    *)
(* node: the indices of the children on the way down, the item's first.    *)
(* An entity is a tuple, its first part saying what it is of.              *)
(***************************************************************************)
EXTENDS Integers, FiniteSets, Sequences, SequencesExt

CONSTANTS SymbolOrder,     \* the words module names are made of, in byte order
          PreludeTypes, PreludeValues,
          StdMemNames,     \* the prelude's names that std.mem defines (PRELUDE_TYPES5)
          StdModules       \* the std modules known while std ships no source

None == ""
Poisoned == <<"poisoned">>

-----------------------------------------------------------------------------
(* The module graph.                                                       *)

Place(s) == CHOOSE i \in DOMAIN SymbolOrder : SymbolOrder[i] = s
Before(p, q) ==
    \/ Len(p) < Len(q) /\ \A i \in DOMAIN p : p[i] = q[i]
    \/ \E i \in DOMAIN p \cap DOMAIN q : Place(p[i]) < Place(q[i]) /\ \A j \in 1..i - 1 : p[j] = q[j]
Sorted(files, S) ==
    SetToSortSeq(S, LAMBDA i, j : Before(files[i].name, files[j].name) \/ (files[i].name = files[j].name /\ i < j))

\* Of two files with one module name the first is that module.
Find(files, path) ==
    LET S == {i \in DOMAIN files : files[i].name = path} IN IF S = {} THEN 0 ELSE CHOOSE i \in S : \A j \in S : i <= j
UseTarget(files, path) ==
    IF Find(files, path) # 0 THEN Find(files, path)
    ELSE IF Len(path) >= 2 THEN Find(files, Front(path)) ELSE 0
Edges(files) ==
    {<<m, UseTarget(files, u.path)>> : <<m, u>> \in UNION {{m} \X Range(files[m].uses) : m \in DOMAIN files}}
Imports(files) == {e \in Edges(files) : e[2] \notin {0, e[1]}}
GraphDiags(files) ==
    {<<m, "N1">> : m \in {k \in DOMAIN files : files[k].header \notin {<<>>, files[k].name}}}
    \cup {<<m, "N8">> : m \in {k \in DOMAIN files : <<k, k>> \in Edges(files)}}

\* The first cycle a depth-first walk closes, both the starts and the
\* neighbours taken in the order of their names.
RECURSIVE Dfs(_, _, _, _)
Dfs(files, edges, u, s) ==
    LET entered == [s EXCEPT !.visited = @ \cup {u}, !.stack = Append(@, u)]
        Visit(acc, v) ==
            CASE acc.cycle # <<>> -> acc
              [] v \in Range(acc.stack) ->
                    [acc EXCEPT !.cycle = SubSeq(acc.stack, CHOOSE i \in DOMAIN acc.stack : acc.stack[i] = v, Len(acc.stack))]
              [] v \notin acc.visited -> Dfs(files, edges, v, acc)
              [] OTHER -> acc
        left == FoldLeft(Visit, entered, Sorted(files, {e[2] : e \in {x \in edges : x[1] = u}}))
    IN [left EXCEPT !.stack = Front(@)]
FindOneCycle(files, edges) ==
    FoldLeft(LAMBDA acc, u : IF acc.cycle # <<>> \/ u \in acc.visited THEN acc ELSE Dfs(files, edges, u, acc),
             [visited |-> {}, stack |-> <<>>, cycle |-> <<>>], Sorted(files, DOMAIN files)).cycle

\* A cycle is reported at the edge that closes it, its module of the least
\* name first, and that edge is taken out before the next is looked for.
Closing(files, c) ==
    LET min == CHOOSE i \in DOMAIN c : \A j \in DOMAIN c : files[c[i]].name = files[c[j]].name \/ Before(files[c[i]].name, files[c[j]].name)
    IN <<c[((min + Len(c) - 2) % Len(c)) + 1], c[min]>>
RECURSIVE DetectCycles(_, _, _)
DetectCycles(files, edges, left) ==
    LET c == FindOneCycle(files, edges)
    IN IF left = 0 \/ c = <<>> THEN <<>>
       ELSE <<Closing(files, c)>> \o DetectCycles(files, edges \ {Closing(files, c)}, left - 1)

-----------------------------------------------------------------------------
(* Trees.                                                                  *)

KidsOf(n, kinds) == SelectSeq(n.kids, LAMBDA c : c.k \in kinds)
RECURSIVE At(_, _)
At(n, a) == IF a = <<>> THEN n ELSE At(n.kids[a[1]], Tail(a))
RECURSIVE TypeHeads(_)
TypeHeads(n) == (IF n.k = "type" THEN {n.segs[1]} ELSE {}) \cup UNION {TypeHeads(c) : c \in Range(n.kids)}
HeadsIn(ns) == UNION {TypeHeads(n) : n \in Range(ns)}
\* A parameter's convention is not part of its name; a `_` binds nothing.
BinderName(n) == IF n.nm \in {"_", "set"} THEN None ELSE n.nm
SigHeads(f) ==
    UNION {HeadsIn(SelectSeq(s.kids, LAMBDA c : c.k # "contract")) : s \in Range(KidsOf(f, {"sig"}))}

Twice(names) == \E i, j \in DOMAIN names : i < j /\ names[i] = names[j] /\ names[i] # None
NamesOf(ns) == [i \in DOMAIN ns |-> BinderName(ns[i])]
Members == {"fn", "traititem", "assocdecl", "assocdef"}
HeaderTypes(n) == SelectSeq(n.kids, LAMBDA c : c.k \notin Members \cup {"generics", "attr", "error"})

-----------------------------------------------------------------------------
(* What each module declares.                                              *)

RowsOf(scope, name) == {i \in DOMAIN scope.rows : scope.rows[i].name = name}
Row(scope, name) == scope.rows[CHOOSE i \in RowsOf(scope, name) : TRUE]
ExportAnything(scope, name) == IF RowsOf(scope, name) = {} THEN "absent" ELSE "public"
Export(scope, name) ==
    IF RowsOf(scope, name) = {} THEN "absent"
    ELSE IF Row(scope, name).pub THEN "public" ELSE IF Row(scope, name).origin = "item" THEN "private" ELSE "absent"
Push(scope, row) == [scope EXCEPT !.rows = Append(@, row)]
OwnItem(scope, name, pub) == RowsOf(scope, name) # {} /\ Row(scope, name).origin = "item" /\ Row(scope, name).pub = pub

\* A field, variant or member named twice; `pub` where the language has none.
ItemDiags(n) ==
    LET fields == KidsOf(n, {"field"})
        variants == KidsOf(n, {"variant"})
        members == KidsOf(n, Members)
    IN (IF n.k = "struct" /\ Twice(NamesOf(fields)) THEN {"N27"} ELSE {})
       \cup (IF n.k = "enum" /\ \E v \in Range(variants) : \E f \in Range(KidsOf(v, {"field"})) : f.pub THEN {"N11"} ELSE {})
       \cup (IF n.k = "enum" /\ \E v \in Range(variants) : Twice(NamesOf(KidsOf(v, {"field"}))) THEN {"N27"} ELSE {})
       \cup (IF n.k \in {"impl", "trait"} /\ Twice(NamesOf(members)) THEN {"N27"} ELSE {})
       \cup (IF n.k = "impl" /\ Len(HeaderTypes(n)) = 2 /\ \E f \in Range(KidsOf(n, {"fn"})) : f.pub THEN {"N11"} ELSE {})

\* What of an item other modules can see, and the names of types it is made of.
ExposedHeads(scope, n) ==
    CASE n.k \in {"fn", "extern"} -> SigHeads(n)
      [] n.k = "struct" -> HeadsIn(KidsOf(n, {"generics"})) \cup HeadsIn(SelectSeq(n.kids, LAMBDA c : c.k = "field" /\ c.pub))
      [] n.k = "enum" -> HeadsIn(KidsOf(n, {"generics", "variant"}))
      [] n.k = "trait" ->
            UNION {SigHeads(f) : f \in Range(KidsOf(n, {"fn", "traititem"}))}
            \cup HeadsIn(SelectSeq(n.kids, LAMBDA c : c.k \notin {"fn", "traititem", "attr"}))
      [] n.k = "const" -> IF n.kids = <<>> THEN {} ELSE TypeHeads(n.kids[1])
      [] n.k = "impl" ->
            LET hs == HeaderTypes(n)
                HeadPub(h) == h.k = "type" /\ ~OwnItem(scope, h.segs[1], FALSE)
            IN IF hs # <<>> /\ Last(hs).k = "type" /\ OwnItem(scope, Last(hs).segs[1], TRUE)
               THEN (IF Len(hs) = 2 /\ HeadPub(hs[1]) THEN HeadsIn(KidsOf(n, {"assocdef"})) ELSE {})
                    \cup UNION {SigHeads(f) : f \in {g \in Range(KidsOf(n, {"fn", "traititem"})) : g.pub}}
               ELSE {}
      [] OTHER -> {}
Leaks(scope, n) ==
    IF (n.k = "impl" \/ n.pub) /\ \E h \in ExposedHeads(scope, n) : OwnItem(scope, h, FALSE) THEN {"N12"} ELSE {}

VariantNames(n) ==
    FoldLeft(LAMBDA acc, v : IF BinderName(v) \in {None} \cup Range(acc) THEN acc ELSE Append(acc, BinderName(v)),
             <<>>, IF n.k = "enum" THEN KidsOf(n, {"variant"}) ELSE <<>>)
\* An item enters its module's scope unless an earlier one, or the prelude
\* outside std, has its name.
Declare(scope, m, d, n) ==
    IF n.nm = None THEN [scope |-> scope, err |-> {}]
    ELSE IF (n.nm \in PreludeTypes \cup PreludeValues /\ ~scope.inStd) \/ RowsOf(scope, n.nm) # {}
    THEN [scope |-> scope, err |-> {"N13"}]
    ELSE [scope |-> Push(scope, [name |-> n.nm, entity |-> <<"item", m, d>>, origin |-> "item", pub |-> n.pub, variants |-> VariantNames(n)]),
          err |-> IF n.k = "enum" /\ Twice(NamesOf(KidsOf(n, {"variant"}))) THEN {"N27"} ELSE {}]
BoundName(u) == IF u.as # None THEN u.as ELSE Last(u.path)
DeclareAll(file, m, isStd) ==
    LET Step(acc, d) ==
            LET r == Declare(acc.scope, m, d, file.items[d])
            IN [scope |-> r.scope, err |-> acc.err \cup r.err \cup ItemDiags(file.items[d])]
        start == [rows |-> <<>>, inStd |-> isStd \/ file.name[1] = "std",
                  pubUses |-> {BoundName(u) : u \in {v \in Range(file.uses) : v.pub}}]
        all == FoldLeft(Step, [scope |-> start, err |-> {}], [d \in DOMAIN file.items |-> d])
    IN [all EXCEPT !.err = @ \cup UNION {Leaks(all.scope, n) : n \in Range(file.items)}]

\* With std in the build a name std.mem contributes to the prelude is the one
\* public item of std.mem or a module of it with that name.
StdHomes(files) == {m \in DOMAIN files : Len(files[m].name) \in {2, 3} /\ files[m].name[1] = "std" /\ files[m].name[2] = "mem"}
HasStd(files) == \E m \in DOMAIN files : files[m].name[1] = "std"
Prelude(files, scopes) ==
    [s \in PreludeTypes \cup PreludeValues |->
        LET homes == {m \in StdHomes(files) : OwnItem(scopes[m], s, TRUE)}
        IN IF HasStd(files) /\ s \in StdMemNames /\ Cardinality(homes) = 1
           THEN LET r == Row(scopes[CHOOSE m \in homes : TRUE], s) IN [entity |-> r.entity, variants |-> r.variants]
           ELSE [entity |-> <<IF s \in PreludeTypes THEN "type" ELSE "value", s>>, variants |-> <<>>]]

-----------------------------------------------------------------------------
(* What each import binds, an importer after the modules it uses.          *)

RECURSIVE VisitOrder(_, _, _)
VisitOrder(edges, u, s) ==
    IF u \in s.seen THEN s
    ELSE LET below == FoldLeft(LAMBDA acc, v : VisitOrder(edges, v, acc), [s EXCEPT !.seen = @ \cup {u}],
                               SetToSortSeq({e[2] : e \in {x \in edges : x[1] = u}}, LAMBDA i, j : i < j))
         IN [below EXCEPT !.out = Append(@, u)]
DependencyOrder(files, edges) ==
    FoldLeft(LAMBDA acc, u : VisitOrder(edges, u, acc), [seen |-> {}, out |-> <<>>], Sorted(files, DOMAIN files)).out
RECURSIVE Reachable(_, _)
Reachable(edges, S) ==
    LET T == S \cup {e[2] : e \in {x \in edges : x[1] \in S}} IN IF T = S THEN S ELSE Reachable(edges, T)
Reaches(edges, src, dst) == dst \in Reachable(edges, {src})

\* What a use's path names: the entity, its variants, the diagnostic; a use
\* of the module it stands in binds nothing.
Names(entity, variants, err) == [entity |-> entity, variants |-> variants, err |-> err]
Nothing == Names(<<"nothing">>, <<>>, "")
UsePath(files, edges, uni, m, path) ==
    LET sn == Last(path)
        whole == Find(files, path)
        pm == Find(files, Front(path))
        scope == uni.scopes[pm]
        tie == pm # 0 /\ (sn \in scope.pubUses \/ (RowsOf(scope, sn) # {} /\ Row(scope, sn).pub))
    IN CASE path[1] = "std" /\ ~HasStd(files) ->
              (CASE Len(path) = 1 -> Names(Poisoned, <<>>, "N4")
                 [] Len(path) = 2 /\ sn \in StdModules -> Names(<<"stdmodule", sn>>, <<>>, "")
                 [] Len(path) = 2 /\ sn \notin StdModules -> Names(Poisoned, <<>>, "N17")
                 [] OTHER -> Names(Poisoned, <<>>, ""))
         [] whole # 0 ->
              IF tie THEN Names(Poisoned, <<>>, "N4")
              ELSE IF whole = m THEN Nothing ELSE Names(<<"module", whole>>, <<>>, "")
         [] whole = 0 /\ pm = 0 -> Names(Poisoned, <<>>, "N4")
         [] whole = 0 /\ pm = m -> Nothing
         [] OTHER ->
              (CASE Export(scope, sn) = "public" -> Names(Row(scope, sn).entity, Row(scope, sn).variants, "")
                 [] Export(scope, sn) = "absent" /\ Reaches(edges, pm, m) -> Names(Poisoned, <<>>, "")
                 [] OTHER -> Names(Poisoned, <<>>, "N4"))

\* The bound name must be free, or name the same entity already.
Bind(uni, m, name, pub, r) ==
    LET scope == uni.scopes[m]
        poisoned == r.entity = Poisoned
        inPrelude == name \in DOMAIN uni.prelude
        sameItem == inPrelude /\ r.entity[1] = "item" /\ uni.prelude[name].entity = r.entity
        Keep(err) == [scope |-> scope, err |-> IF err = "" THEN {} ELSE {err}]
    IN CASE inPrelude /\ poisoned -> Keep("")
         [] inPrelude /\ ~poisoned /\ ~sameItem /\ ~scope.inStd -> Keep("N13")
         [] OTHER ->
              IF RowsOf(scope, name) = {}
              THEN [scope |-> Push(scope, [name |-> name, entity |-> r.entity, origin |-> "use", pub |-> pub, variants |-> r.variants]), err |-> {}]
              ELSE LET old == Row(scope, name)
                   IN CASE old.origin = "item" -> Keep(IF poisoned THEN "" ELSE "N13")
                        [] old.origin = "use" /\ (old.entity = Poisoned \/ poisoned) -> Keep("")
                        [] OTHER -> IF old.entity # r.entity THEN Keep("N15")
                                    ELSE [scope |-> [scope EXCEPT !.rows = [i \in DOMAIN @ |-> IF @[i].name = name THEN [@[i] EXCEPT !.pub = @ \/ pub] ELSE @[i]]], err |-> {}]
BindUse(files, edges, uni, m, k) ==
    LET u == files[m].uses[k]
        r == UsePath(files, edges, uni, m, u.path)
        b == IF r = Nothing THEN [scope |-> uni.scopes[m], err |-> {}] ELSE Bind(uni, m, BoundName(u), u.pub, r)
    IN [uni EXCEPT !.scopes[m] = b.scope,
                   !.diags = @ \cup {<<m, e, k>> : e \in b.err \cup (IF r.err = "" THEN {} ELSE {r.err})}]

BuildUniverse(files, isStd) ==
    LET declared == [m \in DOMAIN files |-> DeclareAll(files[m], m, isStd)]
        scopes == [m \in DOMAIN files |-> declared[m].scope]
        edges == Imports(files)
        start == [scopes |-> scopes, prelude |-> Prelude(files, scopes),
                  diags |-> UNION {{<<m, e, 0>> : e \in declared[m].err} : m \in DOMAIN files},
                  graph |-> GraphDiags(files), cuts |-> DetectCycles(files, edges, Cardinality(edges) + 1)]
    IN FoldLeft(LAMBDA uni, m : FoldLeft(LAMBDA v, k : BindUse(files, edges, v, m, k), uni, [k \in DOMAIN files[m].uses |-> k]),
                start, DependencyOrder(files, edges))

-----------------------------------------------------------------------------
(* What each name in an item denotes.  A walk carries the open frames,     *)
(* innermost last, the uses recorded, the diagnostics, and the parameters  *)
(* of the function whose signature is walked.  env is [uni, m].            *)

Scope(env) == env.uni.scopes[env.m]
Diag(c, code, a) == [c EXCEPT !.diags = @ \cup {<<code, a>>}]
Record(c, a, target, consumed) == [c EXCEPT !.uses = @ \cup {[at |-> a, target |-> target, consumed |-> consumed]}]
Diagnosed == <<"deferred", "diagnosed">>
PushFrame(c) == [c EXCEPT !.frames = Append(@, <<>>)]
PopFrame(c) == [c EXCEPT !.frames = Front(@)]
Has(frame, name) == \E i \in DOMAIN frame : frame[i][1] = name
InFrame(frame, name) == frame[CHOOSE i \in DOMAIN frame : frame[i][1] = name /\ \A j \in 1..i - 1 : frame[j][1] # name][2]
Shown(frames, name) == {k \in DOMAIN frames : Has(frames[k], name)}

\* The innermost frame that has the name, then the module, then the prelude.
Lookup(env, c, name) ==
    CASE Shown(c.frames, name) # {} ->
            [at |-> "local", node |-> InFrame(c.frames[CHOOSE k \in Shown(c.frames, name) : \A j \in Shown(c.frames, name) : j <= k], name)]
      [] Shown(c.frames, name) = {} /\ RowsOf(Scope(env), name) # {} -> [at |-> "entity", row |-> Row(Scope(env), name)]
      [] OTHER -> IF name \in DOMAIN env.uni.prelude THEN [at |-> "entity", row |-> env.uni.prelude[name]] ELSE [at |-> "none"]

\* A name declared twice in one frame is the first; one that hides an outer
\* one is reported and declared all the same.
DeclareLocal(env, c, name, a, overPrelude) ==
    LET top == Last(c.frames)
        hides == \/ \E k \in 1..Len(c.frames) - 1 : Has(c.frames[k], name)
                 \/ RowsOf(Scope(env), name) # {}
                 \/ ~overPrelude /\ name \in DOMAIN env.uni.prelude
        pushed == [c EXCEPT !.frames[Len(c.frames)] = Append(@, <<name, a>>)]
    IN CASE name = None -> c
         [] name = "Self" -> Diag(c, "N13", a)
         [] name # "Self" /\ name # None /\ Has(top, name) -> Diag(c, "N18", a)
         [] OTHER -> IF hides THEN Diag(pushed, "N18", a) ELSE pushed

\* Along modules to an item, then at most one more segment to its variant.
RECURSIVE FollowPath(_, _, _, _, _, _)
FollowPath(env, c, a, row, segs, i) ==
    CASE row.entity[1] = "module" ->
            IF i > Len(segs) THEN Record(Diag(c, "N16", a), a, Diagnosed, i - 1)
            ELSE LET there == env.uni.scopes[row.entity[2]]
                 IN CASE Export(there, segs[i]) = "public" -> FollowPath(env, c, a, Row(there, segs[i]), segs, i + 1)
                      [] Export(there, segs[i]) = "private" -> Record(Diag(c, "N10", a), a, Diagnosed, i - 1)
                      [] OTHER -> Record(Diag(c, "N16", a), a, Diagnosed, i - 1)
      [] row.entity[1] = "stdmodule" ->
            IF i <= Len(segs) THEN Record(c, a, <<"deferred", "stdabsent">>, i - 1)
            ELSE Record(Diag(c, "N16", a), a, Diagnosed, i - 1)
      [] row.entity[1] = "poisoned" -> Record(c, a, Diagnosed, i - 1)
      [] row.entity[1] = "item" ->
            LET vs == {v \in DOMAIN row.variants : i <= Len(segs) /\ row.variants[v] = segs[i]}
            IN IF vs = {} THEN Record(c, a, <<"entity", row.entity>>, i - 1)
               ELSE Record(c, a, <<"entity", <<"variant">> \o Tail(row.entity) \o <<CHOOSE v \in vs : TRUE>> >>, i)
      [] OTHER -> Record(c, a, <<"entity", row.entity>>, i - 1)
ResolvePath(env, c, n, a) ==
    LET found == Lookup(env, c, n.segs[1])
    IN CASE n.segs = <<>> -> c
         [] n.segs # <<>> /\ found.at = "none" -> Record(Diag(c, "N14", a), a, Diagnosed, 0)
         [] n.segs # <<>> /\ found.at = "local" -> Record(c, a, <<"local", found.node>>, 1)
         [] OTHER -> FollowPath(env, c, a, found.row, n.segs, 2)

\* A name alone as a pattern: never a local, which would look like a test.
ResolveBare(env, c, n, a) ==
    LET found == Lookup(env, c, n.segs[1])
    IN CASE found.at = "none" -> Record(Diag(c, "N14", a), a, Diagnosed, 0)
         [] found.at = "local" -> Record(Diag(c, "N25", a), a, Diagnosed, 1)
         [] OTHER -> IF found.row.entity[1] \in {"module", "stdmodule"} THEN Record(Diag(c, "N16", a), a, Diagnosed, 1)
                     ELSE Record(c, a, <<"entity", found.row.entity>>, 1)
\* The head of a constraint: a parameter declared before, or Self.
ResolveConstraint(env, c, root, n, a) ==
    LET found == Lookup(env, c, BinderName(n))
    IN IF found.at = "local" /\ At(root, Tail(found.node)).k \in {"gparam", "impl", "trait"}
       THEN Record(c, a, <<"local", found.node>>, 1) ELSE Diag(c, "N26", a)
\* An impl stands in the module of its trait or of its type.
Home(c, a) ==
    LET S == {u \in c.uses : u.at = a}
        t == (CHOOSE u \in S : TRUE).target
    IN IF S = {} THEN <<"nowhere">>
       ELSE CASE t[1] = "entity" /\ t[2][1] \in {"item", "variant"} -> <<"module", t[2][2]>>
              [] t[1] = "entity" /\ t[2][1] \in {"type", "value"} -> <<"std">>
              [] t[1] = "local" -> <<"nowhere">>
              [] OTHER -> <<"unknown">>
Positions(n, kinds) == {i \in DOMAIN n.kids : n.kids[i].k \in kinds}
HeaderAt(n) == DOMAIN n.kids \ Positions(n, Members \cup {"generics", "attr", "error"})
CheckOrphan(env, c, n, a) ==
    LET homes == {Home(c, Append(a, i)) : i \in HeaderAt(n)}
    IN IF Cardinality(HeaderAt(n)) \notin {1, 2} \/ <<"unknown">> \in homes \/ <<"module", env.m>> \in homes \/ (<<"std">> \in homes /\ Scope(env).inStd)
       THEN c ELSE Diag(c, "N21", a)

-----------------------------------------------------------------------------
(* The order of the walk: what it does at each node on the way, as a       *)
(* sequence of steps [op, n, a].  It depends on the tree alone.            *)

Do(op, n, a) == <<[op |-> op, n |-> n, a |-> a]>>
Framed(n, a, steps) == Do("push", n, a) \o steps \o Do("pop", n, a)
Only(S) == CHOOSE i \in S : \A j \in S : i <= j
RECURSIVE Steps(_, _), BindSteps(_, _)
Over(n, a, I) == FlattenSeq([i \in DOMAIN n.kids |-> IF i \in I THEN Steps(n.kids[i], Append(a, i)) ELSE <<>>])
BindSteps(n, a) ==
    CASE n.k = "tuple" -> FlattenSeq([i \in DOMAIN n.kids |-> BindSteps(n.kids[i], Append(a, i))])
      [] n.k = "bind" -> Do("declare", n, a)
      [] OTHER -> <<>>
\* Generic parameters and constraints in order; their bounds come later.
GenericSteps(n, a) ==
    FlattenSeq([i \in DOMAIN n.kids |-> Do(IF n.kids[i].k = "gconstraint" THEN "constraint" ELSE "gparam", n.kids[i], Append(a, i))])
BoundSteps(n, a) == FlattenSeq([i \in DOMAIN n.kids |-> Over(n.kids[i], Append(a, i), DOMAIN n.kids[i].kids)])
ParamSteps(n, a) ==
    FlattenSeq([i \in DOMAIN n.kids |-> Over(n.kids[i], Append(a, i), DOMAIN n.kids[i].kids) \o Do("declare", n.kids[i], Append(a, i))])
SigSteps(n, a) ==
    LET gs == Positions(n, {"generics"})
        ps == Positions(n, {"params"})
        Each(I, Of(_, _)) == FlattenSeq([i \in DOMAIN n.kids |-> IF i \in I THEN Of(n.kids[i], Append(a, i)) ELSE <<>>])
    IN Each(gs, GenericSteps)
       \o IF ps = {} THEN <<>>
          ELSE Each(ps, ParamSteps) \o Each(gs, BoundSteps)
               \o Do("params", n.kids[Only(ps)], a) \o Over(n, a, DOMAIN n.kids \ (gs \cup ps)) \o Do("noparams", n, a)
FnSteps(n, a) ==
    LET ss == Positions(n, {"sig"})
        sig == n.kids[Only(ss)]
    IN IF ss = {} THEN <<>>
       ELSE SigSteps(sig, Append(a, Only(ss))) \o IF Positions(sig, {"params"}) = {} THEN <<>> ELSE Over(n, a, Positions(n, {"block"}))
ItemSteps(n, a) ==
    LET gs == Positions(n, {"generics"})
        generics == FlattenSeq([i \in DOMAIN n.kids |->
                        IF i \in gs THEN GenericSteps(n.kids[i], Append(a, i)) \o BoundSteps(n.kids[i], Append(a, i)) ELSE <<>>])
    IN CASE n.k \in {"fn", "extern"} -> FnSteps(n, a)
         [] n.k \in {"struct", "enum", "const"} -> generics \o Over(n, a, DOMAIN n.kids \ gs)
         [] n.k \in {"impl", "trait"} ->
              generics \o Over(n, a, HeaderAt(n)) \o (IF n.k = "impl" THEN Do("orphan", n, a) ELSE <<>>) \o Do("self", n, a)
              \o Over(n, a, Positions(n, {"assocdecl", "assocdef"}))
              \o FlattenSeq([i \in DOMAIN n.kids |-> IF n.kids[i].k \in {"fn", "traititem"} THEN Framed(n, a, FnSteps(n.kids[i], Append(a, i))) ELSE <<>>])
PatternSteps(n, a) ==
    CASE n.k = "plet" -> Do("declare", n, a)
      [] n.k = "ppath" ->
            Do(IF Len(n.segs) = 1 /\ KidsOf(n, {"payload"}) = <<>> THEN "bare" ELSE "resolve", n, a) \o Over(n, a, DOMAIN n.kids)
      [] n.k = "pdot" -> Do("member", n, a) \o Over(n, a, DOMAIN n.kids)
      [] n.k = "fpat" -> IF n.kids = <<>> THEN Do("declare", n, a) ELSE Over(n, a, {1})
Steps(n, a) ==
    LET all == DOMAIN n.kids
        end == Len(n.kids)
    IN CASE n.k \in {"name", "type"} -> Do("resolve", n, a) \o Over(n, a, all)
         [] n.k = "scoped" -> Do("scoped", n, a) \o Over(n, a, all)
         [] n.k = "attr" -> <<>>
         [] n.k \in {"block", "arm"} -> Framed(n, a, Over(n, a, all))
         [] n.k = "let" -> Over(n, a, 2..end) \o BindSteps(n.kids[1], Append(a, 1))
         [] n.k = "for" -> Over(n, a, 2..end - 1) \o Framed(n, a, BindSteps(n.kids[1], Append(a, 1)) \o Over(n, a, {end}))
         [] n.k \in {"with", "handler"} -> Framed(n, a, Do("declare", n, a) \o Over(n, a, all))
         [] n.k = "closure" ->
              Framed(n, a, FlattenSeq([i \in all |-> IF n.kids[i].k = "cparam" THEN Do("declare", n.kids[i], Append(a, i)) ELSE <<>>]) \o Over(n, a, all))
         [] n.k \in {"plet", "ppath", "pdot", "fpat"} -> PatternSteps(n, a)
         [] OTHER -> Over(n, a, all)

Take(env, root, c, s) ==
    CASE s.op = "push" -> PushFrame(c)
      [] s.op = "pop" -> PopFrame(c)
      [] s.op \in {"declare", "gparam"} -> DeclareLocal(env, c, BinderName(s.n), s.a, s.op = "declare")
      [] s.op = "self" -> [c EXCEPT !.frames[Len(c.frames)] = Append(@, <<"Self", s.a>>)]
      [] s.op = "params" -> [c EXCEPT !.params = Range(NamesOf(s.n.kids)) \ {None}]
      [] s.op = "noparams" -> [c EXCEPT !.params = {}]
      [] s.op = "scoped" -> IF s.n.nm \in c.params THEN Record(c, s.a, <<"local", s.a>>, 1) ELSE Diag(c, "N20", s.a)
      [] s.op = "resolve" -> ResolvePath(env, c, s.n, s.a)
      [] s.op = "bare" -> ResolveBare(env, c, s.n, s.a)
      [] s.op = "member" -> Record(c, s.a, <<"deferred", "member">>, 0)
      [] s.op = "constraint" -> ResolveConstraint(env, c, root, s.n, s.a)
      [] s.op = "orphan" -> CheckOrphan(env, c, s.n, s.a)
ResolveItem(env, n, d) ==
    FoldLeft(LAMBDA c, s : Take(env, n, c, s), [frames |-> <<<<>>>>, uses |-> {}, diags |-> {}, params |-> {}], ItemSteps(n, <<d>>))

-----------------------------------------------------------------------------
(* The capabilities the root module may declare, and what main may ask.    *)

Capabilities ==
    {<<"fs", "read">>, <<"fs", "write">>, <<"net">>, <<"exec">>, <<"ffi">>, <<"clock">>, <<"rng">>, <<"env">>,
     <<"io", "stdout">>, <<"io", "stderr">>, <<"io", "stdin">>, <<"gpu">>, <<"asm">>, <<"syscall">>}
MainParamTypes ==
    {[ty |-> <<"io", "Stdout">>, caps |-> {<<"io", "stdout">>}], [ty |-> <<"io", "Stderr">>, caps |-> {<<"io", "stderr">>}],
     [ty |-> <<"io", "Stdin">>, caps |-> {<<"io", "stdin">>}], [ty |-> <<"fs", "Dir">>, caps |-> {<<"fs", "read">>, <<"fs", "write">>}],
     [ty |-> <<"net", "Net">>, caps |-> {<<"net">>}], [ty |-> <<"proc", "Exec">>, caps |-> {<<"exec">>}],
     [ty |-> <<"time", "Clock">>, caps |-> {<<"clock">>}], [ty |-> <<"rand", "Rng">>, caps |-> {<<"rng">>}],
     [ty |-> <<"env", "Env">>, caps |-> {<<"env">>}], [ty |-> <<"env", "Args">>, caps |-> {<<"env">>}],
     [ty |-> <<"gpu", "Device">>, caps |-> {<<"gpu">>}], [ty |-> <<"mem", "Heap">>, caps |-> {}]}
NeedsVocabulary(file) == IF Range(file.needs) \subseteq Capabilities THEN {} ELSE {"A1"}

RECURSIVE Words(_)
Words(n) == n.segs \o FlattenSeq([i \in DOMAIN n.kids |-> Words(n.kids[i])])
\* What the first word of a parameter's type is bound to in the root module.
HeadBinding(files, env, head) ==
    IF RowsOf(Scope(env), head) = {} THEN "unbound"
    ELSE LET e == Row(Scope(env), head).entity
         IN CASE e[1] = "stdmodule" -> e[2]
              [] e[1] = "module" /\ Len(files[e[2]].name) = 2 /\ files[e[2]].name[1] = "std" -> files[e[2]].name[2]
              [] e[1] = "poisoned" -> "unbound"
              [] OTHER -> "other"
MainParam(files, env, n) ==
    LET w == Words(n)
        head == HeadBinding(files, env, w[1])
        ty == IF Len(w) = 2 THEN <<head, w[2]>> ELSE w
        fits == {t \in MainParamTypes : t.ty = ty}
    IN CASE n.k # "type" -> [ty |-> <<>>, err |-> {"A8"}]
         [] n.k = "type" /\ Len(w) = 2 /\ head = "unbound" -> [ty |-> <<>>, err |-> {}]
         [] n.k = "type" /\ ~(Len(w) = 2 /\ head = "unbound") /\ (fits = {} \/ n.kids # <<>>) -> [ty |-> <<>>, err |-> {"A8"}]
         [] OTHER -> LET caps == (CHOOSE t \in fits : TRUE).caps
                     IN [ty |-> ty, err |-> IF caps = {} \/ caps \cap Range(files[env.m].needs) # {} THEN {} ELSE {"A1"}]
CheckMain(files, env) ==
    LET items == files[env.m].items
        mains == {d \in DOMAIN items : items[d].k \in {"fn", "extern"} /\ items[d].nm = "main"}
        main == items[Only(mains)]
        sig == KidsOf(main, {"sig"})[1]
        params == KidsOf(sig, {"params"})[1].kids
        asked == [i \in DOMAIN params |-> MainParam(files, env, params[i].kids[1])]
    IN CASE mains = {} -> {}
         [] mains # {} /\ main.k = "extern" -> {"A8"}
         [] OTHER -> (IF KidsOf(sig, {"generics"}) # <<>> THEN {"A8"} ELSE {})
                     \cup UNION {asked[i].err : i \in DOMAIN asked}
                     \cup (IF \E i, j \in DOMAIN asked : i < j /\ asked[i].ty = asked[j].ty /\ asked[i].ty # <<>> THEN {"A8"} ELSE {})

\* The whole of it: linking, the root's main, and every item of every file.
Resolve(files, root, isStd) ==
    LET uni == BuildUniverse(files, isStd)
    IN [uni |-> uni, words |-> UNION {NeedsVocabulary(f) : f \in Range(files)},
        main |-> IF root \in DOMAIN files THEN CheckMain(files, [uni |-> uni, m |-> root]) ELSE {},
        items |-> [m \in DOMAIN files |-> [d \in DOMAIN files[m].items |-> ResolveItem([uni |-> uni, m |-> m], files[m].items[d], d)]]]

-----------------------------------------------------------------------------
(* What modules, imports and names ought to mean, told without an order of *)
(* work, and small packages and bodies to compare with it.                 *)

Node(k, nm, segs, kids) == [k |-> k, nm |-> nm, pub |-> FALSE, segs |-> segs, kids |-> kids]
Pub(n) == [n EXCEPT !.pub = TRUE]
File(name, uses, items) == [name |-> name, header |-> <<>>, uses |-> uses, needs |-> <<>>, items |-> items]
Use(path, as, pub) == [path |-> path, as |-> as, pub |-> pub]

-----------------------------------------------------------------------------
(* Imports.  In a package without cycles a public name of a module is its  *)
(* public item, or what a public use of that name names.                   *)

Least(S) == CHOOSE i \in S : \A j \in S : i <= j
RECURSIVE NamedBy(_, _, _), PathNames(_, _)
NamedBy(files, p, sn) ==
    LET own == {d \in DOMAIN files[p].items : files[p].items[d].nm = sn}
    IN IF own # {} THEN (IF files[p].items[Least(own)].pub THEN {<<"item", p, Least(own)>>} ELSE {})
       ELSE UNION {PathNames(files, u.path) : u \in {v \in Range(files[p].uses) : v.pub /\ BoundName(v) = sn}}
PathNames(files, path) ==
    IF path[1] = "std" /\ ~HasStd(files) THEN (IF Len(path) = 2 /\ path[2] \in StdModules THEN {<<"stdmodule", path[2]>>} ELSE {})
    ELSE IF Find(files, path) # 0 THEN {<<"module", Find(files, path)>>}
    ELSE IF Find(files, Front(path)) # 0 THEN NamedBy(files, Find(files, Front(path)), Last(path)) ELSE {}
BothWays(files, path) ==
    /\ Find(files, path) # 0 /\ Find(files, Front(path)) # 0
    /\ LET p == files[Find(files, Front(path))]
       IN \/ \E u \in Range(p.uses) : u.pub /\ BoundName(u) = Last(path)
          \/ \E n \in Range(p.items) : n.pub /\ n.nm = Last(path)

OnCycle(edges) == {e \in edges : Reaches(edges, e[2], e[1])}
CyclesReported(files, uni) ==
    LET edges == Imports(files)
    IN /\ OnCycle(edges \ Range(uni.cuts)) = {}
       /\ \A i \in DOMAIN uni.cuts : uni.cuts[i] \in OnCycle(edges \ {uni.cuts[j] : j \in 1..i - 1})
Clean(uni) == uni.diags = {} /\ uni.graph = {} /\ uni.cuts = <<>>
\* Where nothing is reported, every import is what its path names, whatever
\* the order of files and uses; what is reported of a path is true of it; and
\* nothing private of another module is in any scope.
ImportsRight(files, uni) ==
    /\ \A m \in DOMAIN files : \A k \in DOMAIN files[m].uses :
          LET u == files[m].uses[k]
              rows == RowsOf(uni.scopes[m], BoundName(u))
              deep == Len(u.path) > 2 /\ u.path[1] = "std" /\ ~HasStd(files)
          IN /\ Clean(uni) /\ ~deep =>
                  rows # {} /\ PathNames(files, u.path) = {Row(uni.scopes[m], BoundName(u)).entity} /\ ~BothWays(files, u.path)
             /\ uni.cuts = <<>> /\ <<m, "N4", k>> \in uni.diags =>
                  PathNames(files, u.path) = {} \/ BothWays(files, u.path)
             /\ uni.cuts = <<>> /\ <<m, "N15", k>> \in uni.diags =>
                  \E j \in 1..k - 1 : LET v == files[m].uses[j]
                                      IN BoundName(v) = BoundName(u) /\ PathNames(files, v.path) # PathNames(files, u.path)
    /\ \A m \in DOMAIN files : \A r \in Range(uni.scopes[m].rows) :
          /\ r.entity[1] = "item" /\ r.origin = "use" => files[r.entity[2]].items[r.entity[3]].pub
          /\ r.entity = Poisoned => ~Clean(uni) \/ \E u \in Range(files[m].uses) : BoundName(u) = r.name /\ Len(u.path) > 2 /\ u.path[1] = "std"
LinkedRight(files, uni) == CyclesReported(files, uni) /\ ImportsRight(files, uni)

Some(k, name, pub) == [Node(k, name, <<>>, <<>>) EXCEPT !.pub = pub]
UsesOf(P, n) == UNION {[1..k -> P] : k \in 0..n}
AUses == UsesOf({Use(<<"b", "X">>, None, TRUE), Use(<<"b", "Y">>, "X", TRUE), Use(<<"a", "b", "X">>, "Y", FALSE), Use(<<"b">>, None, TRUE), Use(<<"a", "X">>, None, FALSE)}, 2)
BUses == UsesOf({Use(<<"a", "X">>, "Y", TRUE), Use(<<"a", "b">>, None, TRUE), Use(<<"c", "X">>, None, TRUE), Use(<<"std", "io">>, "X", TRUE), Use(<<"std", "mem", "Vec">>, None, FALSE)}, 1)
CChoice == <<Use(<<"a", "X">>, None, FALSE), Use(<<"b", "X">>, None, TRUE), Use(<<"b", "Y">>, "X", FALSE), Use(<<"a", "b">>, None, FALSE),
            Use(<<"c">>, None, FALSE), Use(<<"d", "X">>, None, FALSE), Use(<<"a">>, "Vec", FALSE)>>
CUses == {<<>>} \cup {<<CChoice[i]>> : i \in DOMAIN CChoice} \cup {<<CChoice[p[1]], CChoice[p[2]]>> : p \in {q \in (DOMAIN CChoice) \X (DOMAIN CChoice) : q[1] < q[2]}}
\* Three modules, the third with an item that may be private; four with a.b.
Packages ==
    {LET three == <<File(<<"a">>, ua, ia), File(<<"b">>, ub, <<>>), File(<<"c">>, uc, <<Some("struct", "Z", FALSE)>>)>>
     IN [i \in 1..3 |-> three[o[i]]] :
        <<ua, ia, ub, uc, o>> \in {u \in AUses : Len(u) < 2} \X {<<>>, <<Some("fn", "X", TRUE)>>} \X BUses \X CUses \X {<<1, 2, 3>>}}
    \cup
    {LET four == <<File(<<"a">>, ua, <<Some("fn", "X", p)>>), File(<<"a", "b">>, <<Use(<<"a", "X">>, None, TRUE)>>, <<Some("fn", "X", p)>>),
                   File(<<"b">>, ub, <<Some("fn", "X", TRUE), Some("fn", "Y", FALSE), Some("fn", "Vec", TRUE)>>), File(<<"c">>, uc, <<Some("fn", "X", FALSE)>>)>>
     IN [i \in 1..4 |-> four[o[i]]] :
        <<ua, p, ub, uc, o>> \in {u \in AUses : Len(u) < 2} \X BOOLEAN \X BUses \X {u \in CUses : Len(u) < 2} \X {<<1, 2, 3, 4>>, <<4, 3, 2, 1>>}}
    \cup
    {<<File(<<"a">>, ua, <<>>), File(<<"std", "mem">>, us, im), File(<<"std", "mem", "vec">>, <<>>, <<Some("enum", "Vec", p)>>)>> :
        <<ua, us, im, p>> \in UsesOf({Use(<<"std", "mem", "Vec">>, None, FALSE), Use(<<"std", "mem">>, None, FALSE), Use(<<"std", "mem", "vec", "Vec">>, "V", FALSE)}, 2)
            \X UsesOf({Use(<<"std", "mem", "vec", "Vec">>, None, TRUE), Use(<<"std", "io">>, None, TRUE)}, 2) \X {<<>>, <<Some("fn", "Vec", TRUE)>>} \X BOOLEAN}

-----------------------------------------------------------------------------
(* Scopes.  Every binder has a region of the tree; a name is the binder of  *)
(* the innermost frame among those whose region it stands in.              *)

Prefix(p, a) == Len(p) <= Len(a) /\ SubSeq(a, 1, Len(p)) = p
Inside(p, a) == Prefix(p, a) /\ p # a
After(b, u) == Inside(b, u) \/ \E i \in DOMAIN b \cap DOMAIN u : b[i] < u[i] /\ \A j \in 1..i - 1 : b[j] = u[j]
RECURSIVE Addresses(_, _)
Addresses(n, a) == {a} \cup UNION {Addresses(n.kids[i], Append(a, i)) : i \in DOMAIN n.kids}
Under(root, a) == At(root, Tail(a))
Above(root, a, kinds) ==      \* the nearest node of these kinds over an address
    LET S == {n \in 1..Len(a) - 1 : Under(root, SubSeq(a, 1, n)).k \in kinds} IN SubSeq(a, 1, CHOOSE n \in S : \A k \in S : k <= n)
Binds(n) == (n.k \in {"bind", "with", "cparam", "handler", "plet", "gparam", "param"} \/ (n.k = "fpat" /\ n.kids = <<>>)) /\ n.nm # "_"
Binders(root, d) == {a \in Addresses(root, <<d>>) : Binds(Under(root, a))}
FnLike == {"fn", "traititem", "extern", "impl", "trait", "struct", "enum"}
Frame(root, b) ==
    LET k == Under(root, b).k
        st == Above(root, b, {"let", "for"})
    IN CASE k = "bind" -> IF Under(root, st).k = "let" THEN Front(st) ELSE st
         [] k \in {"with", "handler"} -> b
         [] k = "cparam" -> Front(b)
         [] k \in {"plet", "fpat"} -> Above(root, b, {"arm"})
         [] k \in {"gparam", "param"} -> Above(root, b, FnLike)
InRegion(root, b, u) ==
    LET k == Under(root, b).k
        st == Above(root, b, {"let", "for"})
        Within(pos) == Len(u) > Len(st) /\ Prefix(st, u) /\ u[Len(st) + 1] = pos
    IN CASE k = "bind" ->
              \/ Within(1) /\ After(b, u)
              \/ IF Under(root, st).k = "for" THEN Within(Len(Under(root, st).kids))
                 ELSE Len(u) >= Len(st) /\ Prefix(Front(st), u) /\ u[Len(st)] > Last(st)
         [] k \in {"with", "handler", "cparam"} -> Inside(Frame(root, b), u)
         [] k \in {"plet", "fpat"} -> Prefix(Frame(root, b), u) /\ After(b, u)
         [] k = "gparam" -> Inside(Frame(root, b), u) /\ (Under(root, u).k = "gconstraint" => After(b, u))
         [] k = "param" -> /\ Inside(Frame(root, b), u) /\ ~Inside(b, u)
                           /\ After(b, u) \/ (\E g \in Addresses(root, <<b[1]>>) : Under(root, g).k \in {"gparam", "gconstraint"} /\ Inside(g, u))
\* `Self`, in the body of an impl or a trait.
SelfHere(root, u) == root.k \in {"impl", "trait"} /\ Len(u) > 1 /\ Under(root, SubSeq(u, 1, 2)).k \in Members
LocalNamed(root, u, name) ==
    LET S == {b \in Binders(root, u[1]) : Under(root, b).nm = name /\ InRegion(root, b, u)}
        inner == {b \in S : \A c \in S : Len(Frame(root, c)) <= Len(Frame(root, b))}
    IN IF name = "Self" THEN (IF SelfHere(root, u) THEN {<<u[1]>>} ELSE {})
       ELSE {b \in inner : \A c \in inner : c = b \/ After(b, c)}

\* The binders a reviewer would object to: named as something they hide.
Objectionable(files, env, root, d) ==
    {b \in Binders(root, d) : Under(root, b).nm # "Self" /\
        \/ \E c \in Binders(root, d) : After(c, b) /\ Under(root, c).nm = Under(root, b).nm /\ InRegion(root, c, b)
        \/ RowsOf(Scope(env), Under(root, b).nm) # {}
        \/ Under(root, b).k = "gparam" /\ Under(root, b).nm \in PreludeTypes \cup PreludeValues}

\* What a path that starts at no local names: entity, segments used, or why not.
RECURSIVE Reading(_, _, _, _)
Reading(files, e, segs, i) ==
    CASE e[1] = "module" ->
            IF i > Len(segs) THEN <<"N16">>
            ELSE LET S == NamedBy(files, e[2], segs[i])
                 IN IF S # {} THEN Reading(files, CHOOSE x \in S : TRUE, segs, i + 1)
                    ELSE IF \E n \in Range(files[e[2]].items) : n.nm = segs[i] THEN <<"N10">> ELSE <<"N16">>
      [] e[1] = "stdmodule" -> IF i <= Len(segs) THEN <<"deferred", "stdabsent">> ELSE <<"N16">>
      [] e[1] = "item" ->
            LET vs == KidsOf(files[e[2]].items[e[3]], {"variant"})
                at == {v \in DOMAIN vs : i <= Len(segs) /\ vs[v].nm = segs[i]}
            IN IF at = {} THEN <<"entity", e>> ELSE <<"entity", <<"variant", e[2], e[3], Least(at)>> >>
      [] OTHER -> <<"entity", e>>
GlobalNamed(files, m, name) ==
    LET own == {d \in DOMAIN files[m].items : files[m].items[d].nm = name}
    IN IF own # {} THEN {<<"item", m, Least(own)>>}
       ELSE LET S == UNION {PathNames(files, u.path) : u \in {v \in Range(files[m].uses) : BoundName(v) = name}}
            IN IF S # {} THEN S ELSE IF name \in PreludeTypes THEN {<<"type", name>>} ELSE IF name \in PreludeValues THEN {<<"value", name>>} ELSE {}
PathMeaning(files, m, root, u) ==
    LET n == Under(root, u)
        local == LocalNamed(root, u, n.segs[1])
        global == GlobalNamed(files, m, n.segs[1])
    IN IF local # {} THEN <<"local", CHOOSE b \in local : TRUE>>
       ELSE IF global # {} THEN Reading(files, CHOOSE e \in global : TRUE, n.segs, 2) ELSE <<"N14">>
Bare(n) == n.k = "ppath" /\ Len(n.segs) = 1 /\ KidsOf(n, {"payload"}) = <<>>
ParamNamed(root, u) ==        \* scoped(x) in a result names a parameter
    LET f == Above(root, u, FnLike) IN \E b \in Binders(root, u[1]) : Under(root, b).k = "param" /\ Front(Front(Front(b))) = f /\ Under(root, b).nm = Under(root, u).nm

\* Every name is what its place in the text makes it, and exactly the names
\* and binders that mean nothing, or hide something, are reported.
ResolvedRight(files, env, d, c) ==
    LET root == files[env.m].items[d]
        all == {a \in Addresses(root, <<d>>) : \A i \in 1..Len(a) - 1 : Under(root, SubSeq(a, 1, i)).k # "attr"}
        paths == {a \in all : Under(root, a).k \in {"name", "type", "ppath"}}
        Says(u, code) == <<code, u>> \in c.diags
    IN /\ \A u \in paths :
             LET means == PathMeaning(files, env.m, root, u)
                 got == {r.target : r \in {x \in c.uses : x.at = u}}
             IN IF Len(means) = 1 THEN Says(u, means[1]) /\ got = {Diagnosed}
                ELSE IF Bare(Under(root, u)) /\ means[1] = "local" THEN Says(u, "N25") /\ got = {Diagnosed}
                ELSE got = {means} /\ ~\E x \in c.diags : x[2] = u /\ x[1] \in {"N14", "N16", "N10", "N25"}
       /\ {x[2] : x \in {y \in c.diags : y[1] = "N18"}} = Objectionable(files, env, root, d)
       /\ \A u \in all : Under(root, u).k = "gconstraint" =>
             LET S == {b \in LocalNamed(root, u, Under(root, u).nm) : Under(root, b).k \in {"gparam", "impl", "trait"}}
             IN Says(u, "N26") <=> S = {}
       /\ \A u \in all : Under(root, u).k = "scoped" /\ Under(root, Front(u)).k = "sig" => (Says(u, "N20") <=> ~ParamNamed(root, u))
       /\ c.frames = <<>> \/ Len(c.frames) = 1

X(name) == Node("name", None, <<name>>, <<>>)
Ty(name) == Node("type", None, <<name>>, <<>>)
Way(segs) == Node("name", None, segs, <<>>)
B(name) == Node("bind", name, <<>>, <<>>)
PLet(name) == Node("plet", name, <<>>, <<>>)
Block(stmts) == Node("block", None, <<>>, stmts)
Arm(p, e) == Node("arm", None, <<>>, <<p, e>>)
Stmts ==
    <<Node("let", None, <<>>, <<B("x"), X("y")>>), Node("let", None, <<>>, <<Node("tuple", None, <<>>, <<B("x"), B("y")>>), X("x")>>),
      Node("let", None, <<>>, <<Node("tuple", None, <<>>, <<B("x"), B("x")>>), X("x")>>), Node("let", None, <<>>, <<B("_"), Ty("T"), X("x")>>),
      Node("let", None, <<>>, <<B("y"), Block(<<Node("let", None, <<>>, <<B("x"), X("x")>>), X("x")>>)>>),
      Node("let", None, <<>>, <<B("some"), X("some")>>), Node("let", None, <<>>, <<B("E"), X("E")>>),
      Node("for", None, <<>>, <<B("x"), X("x"), Block(<<X("x"), X("y")>>)>>),
      Node("for", None, <<>>, <<Node("tuple", None, <<>>, <<B("y"), B("x")>>), X("y"), Block(<<Node("let", None, <<>>, <<B("y"), X("y")>>)>>)>>),
      Node("with", "x", <<>>, <<X("x"), Block(<<X("x")>>)>>), Node("handler", "y", <<>>, <<Block(<<X("y"), X("x")>>)>>),
      Node("closure", None, <<>>, <<Node("cparam", "x", <<>>, <<Ty("y")>>), Node("cparam", "y", <<>>, <<Ty("x")>>), X("y")>>),
      Node("closure", None, <<>>, <<Node("cparam", "x", <<>>, <<>>), Node("cparam", "x", <<>>, <<>>), Node("block", None, <<>>, <<Node("let", None, <<>>, <<B("x"), X("x")>>)>>)>>),
      Node("match", None, <<>>, <<X("x"), Arm(PLet("x"), X("x")), Arm(Node("ppath", None, <<"E", "V">>, <<Node("payload", None, <<>>, <<PLet("y")>>)>>), X("y"))>>),
      Node("match", None, <<>>, <<X("y"), Arm(Node("ppath", None, <<"x">>, <<>>), X("x")), Arm(Node("ppath", None, <<"E">>, <<>>), X("E")), Arm(Node("ppath", None, <<"b">>, <<>>), X("z"))>>),
      Node("match", None, <<>>, <<X("x"), Arm(Node("ptuple", None, <<>>, <<PLet("x"), Node("pdot", None, <<>>, <<Node("payload", None, <<>>, <<Node("fpat", "y", <<>>, <<>>), Node("fpat", "f", <<>>, <<PLet("x")>>)>>)>>)>>), X("y"))>>),
      Way(<<"b", "g">>), Way(<<"b", "h">>), X("b"), Way(<<"E", "V", "x">>), Way(<<"q", "X">>), Way(<<"io", "w">>), X("io"), X("some"), Way(<<"x", "f">>),
      Node("attr", None, <<>>, <<X("zzz")>>), Block(<<Node("let", None, <<>>, <<B("y"), X("x")>>)>>)>>
Param(name, ty) == Node("param", name, <<>>, <<ty>>)
Sig(gs, ps, rest) == Node("sig", None, <<>>, (IF gs = <<>> THEN <<>> ELSE <<Node("generics", None, <<>>, gs)>>) \o <<Node("params", None, <<>>, ps)>> \o rest)
G(name, bounds) == Node("gparam", name, <<>>, bounds)
Where(name, bounds) == Node("gconstraint", name, <<>>, bounds)
Fn(name, sig, body) == Node("fn", name, <<>>, <<sig>> \o body)
Sigs ==
    {Sig(<<>>, <<>>, <<>>), Sig(<<>>, <<Param("x", Ty("T"))>>, <<>>), Sig(<<>>, <<Param("x", Ty("y")), Param("y", Ty("x"))>>, <<Ty("T")>>)}
Generic ==
    {Sig(gs, ps, <<r>>) :
        <<gs, ps, r>> \in
            {<<G("A", <<>>), G("B", <<Ty("A")>>)>>, <<Where("A", <<Ty("T")>>), G("A", <<>>)>>, <<G("A", <<Ty("x")>>), Where("A", <<Ty("B")>>)>>,
             <<G("i32", <<>>), G("T", <<>>)>>, <<Where("Self", <<>>), Where("C", <<Ty("Self")>>)>>, <<G("A", <<>>), G("A", <<>>)>>}
            \X {<<Param("x", Ty("A"))>>, <<Param("x", Ty("Self")), Param("A", Ty("C"))>>, <<Param("_", Ty("x")), Param("x", Node("scoped", "x", <<>>, <<>>))>> }
            \X {Node("scoped", "x", <<>>, <<Ty("A")>>), Node("contract", None, <<>>, <<X("x")>>), Ty("B")}}
Impl(gs, hs, rest) == Node("impl", None, <<>>, (IF gs = <<>> THEN <<>> ELSE <<Node("generics", None, <<>>, gs)>>) \o hs \o rest)
Bodies ==
    {Fn("f", Sig(<<>>, <<Param("x", Ty("T"))>>, <<>>), <<Block(<<Stmts[i], Stmts[j]>>)>>) : <<i, j>> \in (DOMAIN Stmts) \X (DOMAIN Stmts)}
    \cup {Fn("f", s, <<Block(<<Stmts[i]>>)>>) : <<s, i>> \in Sigs \X (DOMAIN Stmts)}
    \cup {Fn("f", s, <<Block(<<X("x")>>)>>) : s \in Generic}
    \cup {[Impl(gs, hs, <<Node("assocdef", "I", <<>>, <<Ty("Self"), Ty("C")>>), Fn("f", s, <<Block(<<X("x"), Ty("Self")>>)>>)>>) EXCEPT !.k = k] :
             <<gs, hs, s, k>> \in {<<>>, <<G("C", <<Ty("T")>>)>>, <<G("C", <<Ty("Self")>>), Where("C", <<>>)>>}
                \X {<<Ty("T")>>, <<Ty("T"), Ty("i32")>>, <<Ty("b")>>, <<Ty("C")>>} \X {s \in Generic : Len(s.kids) = 3 /\ s.kids[3].k = "type"} \X {"impl", "trait"}}
    \cup {Node(k, "S", <<>>, <<Node("generics", None, <<>>, gs), Node("field", "x", <<>>, <<Ty("C")>>), Node("field", "y", <<>>, <<Ty("D")>>)>>) :
             <<k, gs>> \in {"struct", "enum"} \X {<<G("C", <<Ty("D")>>), G("D", <<>>)>>, <<G("T", <<>>)>>, <<Where("C", <<>>), G("C", <<>>)>>}}
\* The package a body stands in, as its fourth item.
Around(n) ==
    <<[File(<<"a">>, <<Use(<<"b">>, None, FALSE), Use(<<"std", "io">>, None, FALSE), Use(<<"b", "g">>, "q", FALSE)>>,
            <<Pub(Node("struct", "T", <<>>, <<>>)), Node("enum", "E", <<>>, <<Node("variant", "U", <<>>, <<>>), Node("variant", "V", <<>>, <<>>)>>), n>>) EXCEPT !.header = <<"a">>],
      File(<<"b">>, <<>>, <<Pub(Node("enum", "g", <<>>, <<Node("variant", "X", <<>>, <<>>)>>)), Node("fn", "h", <<>>, <<>>)>>)>>
Env(n) == [uni |-> BuildUniverse(Around(n), FALSE), m |-> 1]

-----------------------------------------------------------------------------
(* main takes each root capability at most once, by the type std gives it, *)
(* whatever its module is called here, and only those the root declares.   *)

ModuleMeant(files, e) == IF e[1] = "stdmodule" THEN e[2] ELSE IF e[1] = "module" /\ files[e[2]].name[1] = "std" /\ Len(files[e[2]].name) = 2 THEN files[e[2]].name[2] ELSE "other"
Asked(files, m, n) ==
    LET g == GlobalNamed(files, m, n.segs[1])
    IN IF n.k # "type" \/ Len(n.segs) # 2 \/ n.kids # <<>> \/ g = {} THEN <<>> ELSE <<ModuleMeant(files, CHOOSE e \in g : TRUE), n.segs[2]>>
Granted(files, m, ty) == \E t \in MainParamTypes : t.ty = ty /\ (t.caps = {} \/ t.caps \cap Range(files[m].needs) # {})
MainRight(files, m, r) ==
    \A d \in {k \in DOMAIN files[m].items : files[m].items[k].nm = "main"} :
        LET ps == files[m].items[d].kids[1].kids[1].kids
            ty == [i \in DOMAIN ps |-> Asked(files, m, ps[i].kids[1])]
        IN (\A i \in DOMAIN ps : GlobalNamed(files, m, ps[i].kids[1].segs[1]) # {}) =>
              (r.words \cup r.main = {}
               <=> /\ \A i \in DOMAIN ty : Granted(files, m, ty[i])
                   /\ \A i, j \in DOMAIN ty : ty[i] = ty[j] => i = j
                   /\ Range(files[m].needs) \subseteq Capabilities)
MainTypes == {<<"io", "Stdout">>, <<"o", "Stdout">>, <<"fs", "Dir">>, <<"mem", "Heap">>, <<"b", "g">>, <<"gone", "Stdin">>, <<"i32">>}
Mains ==
    {<<[File(<<"a">>, <<Use(<<"std", "io">>, None, FALSE), Use(<<"std", "io">>, "o", FALSE), Use(<<"std", "fs">>, None, FALSE), Use(<<"b">>, x, FALSE)>>,
             <<Fn("main", Sig(<<>>, [i \in DOMAIN ts |-> Param("p", Node("type", None, ts[i], <<>>))], <<>>), <<Block(<<>>)>>)>>) EXCEPT !.needs = w],
       File(<<"b">>, <<>>, <<Some("struct", "g", TRUE), Some("struct", "Dir", TRUE)>>)>> :
        <<x, ts, w>> \in {None, "mem"} \X UsesOf(MainTypes, 2) \X {<<>>, << <<"io", "stdout">> >>, << <<"fs", "write">>, <<"io", "stdout">> >>, << <<"fs">> >>}}

=============================================================================
