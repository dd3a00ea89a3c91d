------------------------------ MODULE DepArena ------------------------------
(***************************************************************************)
(* The dependency arena of the query engine (crates/fors-query, db.rs):    *)
(* the edges of all nodes in one vector `deps`, a node's edges being the   *)
(* range dep_start, dep_len of it.  An execution appends a fresh range and *)
(* abandons the old one; compact copies the live ranges into a new vector. *)
(*                                                                         *)
(* A verification walk (Db::verify) takes its node's range into two local  *)
(* variables and then, between any two reads of the vector, calls into the *)
(* engine, which may commit any number of executions.  The question is     *)
(* whether it still reads its own node's edges: DepSets says so, and this  *)
(* module is shown to implement it.                                        *)
(*                                                                         *)
(* Values, stamps and the verdicts that depend on them are those of module *)
(* QueryEngine; here the engine may decide either way wherever it decides  *)
(* from them.                                                              *)
(***************************************************************************)
EXTENDS Integers, Sequences

CONSTANTS
    N,                  \* how many nodes may be interned
    MaxArena            \* bound on the length of the vector explored

ASSUME NAssumption == N \in Nat
ASSUME MaxArenaAssumption == MaxArena \in Nat

Ids == 1..N

VARIABLES
    count,      \* Nodes::len
    arena,      \* Db::deps
    start,      \* Nodes::dep_start
    length,     \* Nodes::dep_len
    stack,      \* Db::stack, with the locals of verify
    cursor,     \* compact: the node its loop is at, 0 when compact is not running
    fresh       \* compact: the vector being built

vars == <<count, arena, start, length, stack, cursor, fresh>>

\* The slice v[s..s + l].
Slice(v, s, l) == [i \in 1..l |-> v[s + i]]

\* A frame of verify has its range (s, l) and the index j of its loop; a
\* frame of execute has the edges read so far.
WalkFrame(n, s, l, j) == [node |-> n, mode |-> "verify", s |-> s, l |-> l, j |-> j, deps |-> {}]
ExecFrame(n, D) == [node |-> n, mode |-> "execute", s |-> 0, l |-> 0, j |-> 0, deps |-> D]

Frame == [node : Ids, mode : {"verify", "execute"}, s : Nat, l : Nat, j : Nat, deps : SUBSET Ids]

Top == stack[Len(stack)]
Pop == SubSeq(stack, 1, Len(stack) - 1)
InFlight(n) == \E i \in DOMAIN stack : stack[i].node = n

\* Db::intern.
Intern(n) == n <= count + 1 /\ count' = IF n > count THEN n ELSE count

\* Db::pull of n on behalf of the frames F: an input, a memo hit or a cycle
\* is answered at once; otherwise verify or execute pushes a frame.
Pulled(F, n) ==
    {F} \cup IF InFlight(n) THEN {}
             ELSE {Append(F, WalkFrame(n, start[n], length[n], 0)), Append(F, ExecFrame(n, {}))}

Init ==
    /\ count = 0
    /\ arena = <<>>
    /\ start = [n \in Ids |-> 0]
    /\ length = [n \in Ids |-> 0]
    /\ stack = <<>>
    /\ cursor = 0
    /\ fresh = <<>>

-----------------------------------------------------------------------------
Demand(n) ==
    /\ stack = <<>>
    /\ cursor = 0
    /\ Intern(n)
    /\ stack' \in Pulled(<<>>, n)
    /\ UNCHANGED <<arena, start, length, cursor, fresh>>

\* One round of verify's loop.
VerifyAsk ==
    /\ stack # <<>>
    /\ Top.mode = "verify"
    /\ Top.j < Top.l
    /\ LET dep == arena[Top.s + Top.j + 1]
           walk == WalkFrame(Top.node, Top.s, Top.l, Top.j + 1)
       IN stack' \in Pulled(Append(Pop, walk), dep)
    /\ UNCHANGED <<count, arena, start, length, cursor, fresh>>

\* Green when the loop is through; red after a round (the answer changed), and
\* then execute follows, unless is_red asked.
VerifyEnd ==
    /\ stack # <<>>
    /\ Top.mode = "verify"
    /\ \/ stack' = Pop /\ (Top.j = Top.l \/ Len(stack) = 1)
       \/ stack' = Append(Pop, ExecFrame(Top.node, {})) /\ Top.j > 0
    /\ UNCHANGED <<count, arena, start, length, cursor, fresh>>

\* compute reads n: an edge, unless n is the node itself.
ExecuteRead(n) ==
    /\ stack # <<>>
    /\ Top.mode = "execute"
    /\ Intern(n)
    /\ stack' \in Pulled(Append(Pop, ExecFrame(Top.node, Top.deps \cup ({n} \ {Top.node}))), n)
    /\ UNCHANGED <<arena, start, length, cursor, fresh>>

\* deps.sort_unstable(); deps.dedup().
Increasing(q) == \A i, j \in DOMAIN q : i < j => q[i] < q[j]
Sorted(D) ==
    {q \in UNION {[1..k -> Ids] : k \in 0..N} :
         Increasing(q) /\ D = {q[i] : i \in DOMAIN q}}

\* Faulty variant: the old range is patched in place when the vector is long enough.
CommitInPlace ==
    /\ stack # <<>>
    /\ Top.mode = "execute"
    /\ \E q \in Sorted(Top.deps) :
        LET at == start[Top.node] IN
        /\ Len(arena) + Len(q) <= MaxArena
        /\ arena' = IF at + Len(q) <= Len(arena)
                    THEN [i \in DOMAIN arena |->
                              IF i \in at + 1..at + Len(q) THEN q[i - at] ELSE arena[i]]
                    ELSE arena \o q
        /\ start' = [start EXCEPT ![Top.node] =
                        IF at + Len(q) <= Len(arena) THEN at ELSE Len(arena)]
        /\ length' = [length EXCEPT ![Top.node] = Len(q)]
    /\ stack' = Pop
    /\ UNCHANGED <<count, cursor, fresh>>

\* The end of execute.
Commit ==
    /\ stack # <<>>
    /\ Top.mode = "execute"
    /\ \E q \in Sorted(Top.deps) :
        /\ Len(arena) + Len(q) <= MaxArena
        /\ arena' = arena \o q
        /\ start' = [start EXCEPT ![Top.node] = Len(arena)]
        /\ length' = [length EXCEPT ![Top.node] = Len(q)]
    /\ stack' = Pop
    /\ UNCHANGED <<count, cursor, fresh>>

\* Err(Cancelled) passes through every frame.
Cancelled ==
    /\ stack # <<>>
    /\ stack' = <<>>
    /\ UNCHANGED <<count, arena, start, length, cursor, fresh>>

-----------------------------------------------------------------------------
(***************************************************************************)
(* Db::compact, a round of its loop at a time.  It holds &mut Db, so       *)
(* nothing else runs.                                                      *)
(***************************************************************************)
CompactBegin ==
    /\ stack = <<>>
    /\ cursor = 0
    /\ cursor' = 1
    /\ fresh' = <<>>
    /\ UNCHANGED <<count, arena, start, length, stack>>

\* Faulty variant: the moved range keeps its old start.
CompactNodeKeepsStart ==
    /\ cursor \in 1..count
    /\ fresh' = fresh \o Slice(arena, start[cursor], length[cursor])
    /\ cursor' = cursor + 1
    /\ UNCHANGED <<count, arena, start, length, stack>>

CompactNode ==
    /\ cursor \in 1..count
    /\ fresh' = fresh \o Slice(arena, start[cursor], length[cursor])
    /\ start' = [start EXCEPT ![cursor] = Len(fresh)]
    /\ cursor' = cursor + 1
    /\ UNCHANGED <<count, arena, length, stack>>

CompactEnd ==
    /\ cursor = count + 1
    /\ arena' = fresh
    /\ fresh' = <<>>
    /\ cursor' = 0
    /\ UNCHANGED <<count, start, length, stack>>

Next ==
    \/ \E n \in Ids : Demand(n) \/ ExecuteRead(n)
    \/ VerifyAsk
    \/ VerifyEnd
    \/ Commit
    \/ Cancelled
    \/ CompactBegin
    \/ CompactNode
    \/ CompactEnd

Spec == Init /\ [][Next]_vars

-----------------------------------------------------------------------------
(***************************************************************************)
(* Properties                                                              *)
(***************************************************************************)

\* Every column, frame and vector of the arena has its type.
TypeOK ==
    /\ count \in 0..N
    /\ arena \in Seq(Ids)
    /\ start \in [Ids -> Nat]
    /\ length \in [Ids -> Nat]
    /\ stack \in Seq(Frame)
    /\ cursor \in 0..N + 1
    /\ fresh \in Seq(Ids)

\* The vector a node's range is in: compact moves the nodes one by one.
Home(n) == IF n < cursor THEN fresh ELSE arena

\* No range and no walk reaches past the end of its vector (an index out of
\* bounds in deps_of, verify or compact is a panic), and compact runs only
\* between demands.
RangesInArena ==
    /\ \A n \in Ids : start[n] + length[n] <= Len(Home(n))
    /\ \A i \in DOMAIN stack :
           stack[i].mode = "verify" =>
               stack[i].s + stack[i].l <= Len(arena) /\ stack[i].j <= stack[i].l
    /\ cursor > 0 => stack = <<>> /\ cursor <= count + 1

\* Every id that a range, an edge list in the making or a frame holds has been
\* interned (the key column is indexed with it).
AllInterned ==
    /\ \A n \in Ids : n > count => start[n] = 0 /\ length[n] = 0
    /\ \A p \in DOMAIN arena : arena[p] <= count
    /\ \A p \in DOMAIN fresh : fresh[p] <= count
    /\ \A i \in DOMAIN stack :
           stack[i].node <= count /\ \A n \in stack[i].deps : n <= count

\* The refinement mapping: a node's edges are its slice, and what a walk has
\* still to ask is the rest of the slice it took when it began.
Edges == [n \in Ids |-> Slice(Home(n), start[n], length[n])]
Call(v, f) ==
    [node |-> f.node, mode |-> f.mode, read |-> f.deps,
     rest |-> IF f.mode = "verify" THEN Slice(v, f.s + f.j, f.l - f.j) ELSE <<>>]
CallsOf(v, F) == [i \in DOMAIN F |-> Call(v, F[i])]
Calls == CallsOf(arena, stack)

Abstract == INSTANCE DepSets WITH edges <- Edges, calls <- Calls

\* The arena implements the per-node lists: appending never disturbs a walk in
\* progress, and compact changes no node's edges.
ImplementsDepSets == Abstract!Spec

=============================================================================
