------------------------------ MODULE DepSets ------------------------------
(***************************************************************************)
(* What the dependency columns of the query engine (crates/fors-query,     *)
(* db.rs) promise to the code above them: every node has a list of edges,  *)
(* replaced as a whole when an execution of the node commits, and a        *)
(* verification walk goes through the list its node had when the walk      *)
(* began, whatever commits meanwhile.  Reclaiming memory is invisible.     *)
(***************************************************************************)
EXTENDS Integers, Sequences

CONSTANT N                      \* how many nodes may be interned

Ids == 1..N

VARIABLES
    count,      \* nodes interned so far: ids are handed out in order
    edges,      \* the edges of a node, strictly increasing
    calls       \* walks and executions in flight, innermost last

vars == <<count, edges, calls>>

Increasing(q) == \A i, j \in DOMAIN q : i < j => q[i] < q[j]
Lists(D) ==
    {q \in UNION {[1..k -> Ids] : k \in 0..N} :
         Increasing(q) /\ D = {q[i] : i \in DOMAIN q}}

Walk(n, rest) == [node |-> n, mode |-> "verify", rest |-> rest, read |-> {}]
Execution(n, D) == [node |-> n, mode |-> "execute", rest |-> <<>>, read |-> D]

Last == calls[Len(calls)]
Front == SubSeq(calls, 1, Len(calls) - 1)
Busy(n) == \E i \in DOMAIN calls : calls[i].node = n

Intern(n) == n <= count + 1 /\ count' = IF n > count THEN n ELSE count

\* The call to n that its caller, now the sequence of calls C, makes: answered
\* at once, or by a walk over n's edges, or by an execution of n.
Calling(C, n) ==
    {C} \cup IF Busy(n) THEN {}
             ELSE {Append(C, Walk(n, edges[n])), Append(C, Execution(n, {}))}

Init ==
    /\ count = 0
    /\ edges = [n \in Ids |-> <<>>]
    /\ calls = <<>>

Demand(n) ==
    /\ calls = <<>>
    /\ Intern(n)
    /\ calls' \in Calling(<<>>, n)
    /\ UNCHANGED edges

Ask ==
    /\ calls # <<>>
    /\ Last.mode = "verify"
    /\ Last.rest # <<>>
    /\ calls' \in Calling(Append(Front, Walk(Last.node, Tail(Last.rest))), Head(Last.rest))
    /\ UNCHANGED <<count, edges>>

Read(n) ==
    /\ calls # <<>>
    /\ Last.mode = "execute"
    /\ Intern(n)
    /\ calls' \in Calling(Append(Front, Execution(Last.node, Last.read \cup ({n} \ {Last.node}))), n)
    /\ UNCHANGED edges

\* A walk ends green, or red and then its node is executed (or only reported).
EndWalk ==
    /\ calls # <<>>
    /\ Last.mode = "verify"
    /\ calls' \in {Front, Append(Front, Execution(Last.node, {}))}
    /\ UNCHANGED <<count, edges>>

Commit ==
    /\ calls # <<>>
    /\ Last.mode = "execute"
    /\ \E q \in Lists(Last.read) : edges' = [edges EXCEPT ![Last.node] = q]
    /\ calls' = Front
    /\ UNCHANGED count

Cancelled ==
    /\ calls' = <<>>
    /\ UNCHANGED <<count, edges>>

Next ==
    \/ \E n \in Ids : Demand(n) \/ Read(n)
    \/ Ask
    \/ EndWalk
    \/ Commit
    \/ Cancelled

Spec == Init /\ [][Next]_vars

=============================================================================
