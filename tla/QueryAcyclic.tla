---------------------------- MODULE QueryAcyclic ----------------------------
(***************************************************************************)
(* What the query engine promises a query set whose reads are well founded *)
(* whatever the inputs are: a node only ever reads nodes of smaller rank.  *)
(* (fors_check's queries are layered in this way, apart from the alias and *)
(* bound cycles of the program being compiled.)                            *)
(***************************************************************************)
EXTENDS QueryEngine

CONSTANT Rank

ASSUME RankAssumption ==
    /\ Rank \in [Keys -> Nat]
    /\ \A n \in Derived, s \in Seen :
           NextRead(n, s) # Done => Rank[NextRead(n, s)] < Rank[n]

-----------------------------------------------------------------------------
\* What n's dependencies hold now.
Current(n) == [d \in Deps(n) |-> value[d]]

\* The memo is consistent: a derived node stamped at the current revision
\* holds what compute returns on the values its recorded dependencies hold
\* at this moment, compute would read nothing beyond them, and each of them
\* is itself up to date.  This is the red-green promise of db.rs's verify
\* and execute: a green node was not recomputed and did not need to be.
MemoConsistent ==
    \A n \in Derived : UpToDate(n) =>
        /\ NextRead(n, Current(n)) = Done
        /\ value[n] = Result(n, Current(n))
        /\ \A d \in Deps(n) \cap Derived : UpToDate(d)

\* Nothing is ever answered with a recovery value: a read never meets a
\* query in flight, neither an executing one nor one whose dependencies are
\* being verified (db.rs: pull's stack scan).
NeverRecovers == \A k \in Keys : Asks(k) => ~InFlight(k)

-----------------------------------------------------------------------------
(***************************************************************************)
(* What a fresh database would compute.                                    *)
(***************************************************************************)

\* What compute has been given when it has read the keys D out of C.
Given(C, D) == [d \in D |-> C[d]]

\* D, each key at its place, is in the order in which compute(n) reads it out
\* of C: a key is the one it asks for after those at the places before.
Before(D, place, d) == {e \in D : place[e] < place[d]}
ReadInOrder(n, C, D, place) ==
    \A d \in D : d = NextRead(n, Given(C, Before(D, place, d)))

\* C answers n the way compute(n) does: reading out of C until it reads no
\* more, compute returns C[n].
Places == 1..Cardinality(Keys)
Computes(n, C) ==
    \E D \in SUBSET Keys :
        /\ NextRead(n, Given(C, D)) = Done
        /\ C[n] = Result(n, Given(C, D))
        /\ \E place \in [D -> Places] : ReadInOrder(n, C, D, place)

\* A cold build: every query answered, out of the answers to the others.  With
\* well-founded reads there is exactly one for given inputs.
ColdBuilds ==
    {[inputs |-> Given(C, Inputs), answers |-> C] : C \in {A \in [Keys -> Values] : \A n \in Derived : Computes(n, A)}}

\* Incremental equals cold: every node stamped at the current revision holds
\* the value a database started on the current inputs would compute for it,
\* whatever edits, probes, cancelled demands and restarts came before
\* (design type-checker.md section 9, db.rs verify and execute).
FromScratch ==
    \A b \in ColdBuilds : b.inputs = Given(value, Inputs) =>
        \A n \in Derived : UpToDate(n) => value[n] = b.answers[n]

\* A key is_red reported red is not re-stamped in that revision without
\* being executed: the body phase fors_check runs for exactly the red bodies
\* is never run for one that the later demand finds green (db.rs: is_red).
PlannedRedIsExecuted ==
    [][\A k \in planned :
          verifiedAt'[k] # verifiedAt[k] => Top.mode = "execute"]_vars

-----------------------------------------------------------------------------
(***************************************************************************)
(* The inductive invariant behind the two.                                 *)
(***************************************************************************)
Stamps == \A k \in Keys : changedAt[k] <= verifiedAt[k] /\ verifiedAt[k] <= rev

\* A key whose memoised answer is good in this revision.
Settled(k) == IF k \in Inputs THEN state[k] = "Valid" ELSE UpToDate(k)

\* What a memoised value was computed from.  The stamps make the difference
\* between "the dependency holds what I read" and "it may not" decidable:
\* no change of d is stamped at or before verifiedAt[n] unless n saw it.
RecordedAt(n, d) ==
    /\ Rank[d] < Rank[n]
    /\ state[d] = "Valid"
    /\ d \in Derived => verifiedAt[n] <= verifiedAt[d]
    /\ changedAt[d] <= verifiedAt[n] => value[d] = reads[n][d]

Recorded ==
    \A n \in Derived : state[n] = "Valid" =>
        /\ NextRead(n, reads[n]) = Done
        /\ value[n] = Result(n, reads[n])
        /\ \A d \in Deps(n) : RecordedAt(n, d)

\* What a frame has established so far.
VerifyFrameOK(f) ==
    /\ state[f.node] = "Valid"
    /\ f.todo \subseteq Deps(f.node)
    /\ \A d \in Deps(f.node) \ f.todo :
           Settled(d) /\ changedAt[d] <= verifiedAt[f.node]

ExecuteFrameOK(f) ==
    \A d \in DOMAIN f.seen :
        /\ Settled(d)
        /\ f.seen[d] = value[d]
        /\ Rank[d] < Rank[f.node]

FrameOK(f) ==
    /\ ~UpToDate(f.node)
    /\ f.mode = "verify" => VerifyFrameOK(f)
    /\ f.mode = "execute" => ExecuteFrameOK(f)

Frames == \A i \in 1..Len(stack) : FrameOK(stack[i])

Descending ==
    \A i, j \in 1..Len(stack) : i < j => Rank[stack[j].node] < Rank[stack[i].node]

ReturnOK ==
    ret # NoAnswer =>
        /\ Settled(ret.key)
        /\ ret = Answer(ret.key)
        /\ stack # <<>> => Rank[ret.key] < Rank[Top.node]

CallOK ==
    /\ goal = Idle => stack = <<>> /\ ret = NoAnswer
    /\ goal # Idle => InputsSet

\* The invariant TLAPS proves; MemoConsistent and NeverRecovers follow.
RedGreenInv ==
    /\ Stamps
    /\ Recorded
    /\ Frames
    /\ Descending
    /\ ReturnOK
    /\ CallOK

=============================================================================
