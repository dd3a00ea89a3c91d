---------------------------- MODULE QueryEngine ----------------------------
(***************************************************************************)
(* The incremental query engine of crates/fors-query (db.rs, cycle.rs).    *)
(*                                                                         *)
(* A Db holds one node per query key.  An input node is written by its     *)
(* owner; a derived node is computed by the query set (`Queries`), which   *)
(* reads other nodes while it runs.  Two revision stamps per node let a    *)
(* later demand decide, without recomputing, whether the memoised value is *)
(* still good (the red-green walk), and an in-flight stack catches a read  *)
(* that leads back to a query being answered.                              *)
(*                                                                         *)
(* The engine is recursive Rust: pull, verify and execute call each other  *)
(* and, through `compute`, the query set.  Here that recursion is the      *)
(* variable `stack` (the code's own Vec<Frame>) plus a register `ret` with *)
(* the answer travelling back to the frame that asked.  One step of the    *)
(* specification is one call or one return.                                *)
(*                                                                         *)
(* The query set is a parameter: NextRead(n, seen) is the key that         *)
(* compute(n) reads next when `seen` maps the keys it has read so far to   *)
(* the hashes it got (Done when it reads no more), and Result(n, seen) is  *)
(* the value hash it then returns.  So compute is a deterministic function *)
(* of what it reads, which is what the engine asks of a query set.         *)
(***************************************************************************)
EXTENDS Integers, Sequences, FiniteSets

CONSTANTS
    Inputs,             \* keys written with set_input
    Derived,            \* keys answered by Queries::compute
    Values,             \* value hashes
    Zero,               \* the hash a fresh node's column holds
    Done,               \* "reads nothing more"
    MaxRev,             \* bound on the number of input writes explored
    NextRead(_, _),
    Result(_, _),
    OnCycle(_)          \* Queries::on_cycle

Keys == Inputs \cup Derived

\* What a computation can have read so far: a partial function.
Seen == UNION {[D -> Values] : D \in SUBSET Keys}

ASSUME KeysAssumption ==
    /\ IsFiniteSet(Keys)
    /\ Inputs \cap Derived = {}
    /\ Done \notin Keys

ASSUME ValuesAssumption == Zero \in Values

ASSUME MaxRevAssumption == MaxRev \in Nat

\* compute reads existing keys, each of them once (a second read of a key is
\* answered from the memo), and returns a hash; so does on_cycle.
ASSUME QueriesAssumption ==
    \A n \in Derived :
        /\ OnCycle(n) \in Values
        /\ \A s \in Seen :
               /\ NextRead(n, s) \in (Keys \ DOMAIN s) \cup {Done}
               /\ Result(n, s) \in Values

VARIABLES
    rev,            \* Db::rev
    id,             \* Db::index: the node id of a key, 0 when not interned
    state,          \* Nodes::state
    value,          \* Nodes::value
    verifiedAt,     \* Nodes::verified_at
    changedAt,      \* Nodes::changed_at
    reads,          \* the dependency range of a node; see Deps
    stack,          \* Db::stack
    ret,            \* the Answer on its way back to the top frame
    cancel,         \* the shared CancelFlag
    goal,           \* the public call being served
    planned         \* keys is_red reported red in this revision

columns == <<state, value, verifiedAt, changedAt, reads>>
vars == <<rev, id, columns, stack, ret, cancel, goal, planned>>

-----------------------------------------------------------------------------
(***************************************************************************)
(* State                                                                   *)
(***************************************************************************)
NoAnswer == [key |-> Done]
Idle == [op |-> "none"]

EmptySeen == [k \in {} |-> Zero]

\* A frame.  The one a verification pushes still has the dependencies
\* `todo` to ask; the one an execution pushes has `seen` what it has read.
\* (Frame::attribute is mode = "execute".)
VerifyFrame(n, D) == [node |-> n, mode |-> "verify", todo |-> D, seen |-> EmptySeen]
ExecuteFrame(n) == [node |-> n, mode |-> "execute", todo |-> {}, seen |-> EmptySeen]

Top == stack[Len(stack)]
Pop == SubSeq(stack, 1, Len(stack) - 1)
Push(f) == Append(stack, f)
SetTop(f) == [stack EXCEPT ![Len(stack)] = f]

\* Faulty variant: the frames that verifications push are not looked at.
InFlightExecuting(k) ==
    \E i \in 1..Len(stack) : stack[i].node = k /\ stack[i].mode = "execute"
InFlight(k) == \E i \in 1..Len(stack) : stack[i].node = k

\* A node's recorded dependencies are the domain of reads[n].  The hashes it
\* maps them to are history: the code does not keep them and no action
\* looks at them, but they say what the memoised value was computed from.
Deps(n) == DOMAIN reads[n]

Answer(k) == [key |-> k, value |-> value[k], changedAt |-> changedAt[k]]

\* Ids are handed out in the order of first use (Db::intern).
Interned(k) ==
    IF id[k] # 0 THEN id
    ELSE [id EXCEPT ![k] = Cardinality({j \in Keys : id[j] # 0}) + 1]

Frame == [node : Derived, mode : {"verify", "execute"},
          todo : SUBSET Keys, seen : Seen]

\* Every column, frame and answer of the engine has its type.
TypeOK ==
    /\ rev \in Nat
    /\ id \in [Keys -> Nat]
    /\ state \in [Keys -> {"Empty", "Valid"}]
    /\ value \in [Keys -> Values]
    /\ verifiedAt \in [Keys -> Nat]
    /\ changedAt \in [Keys -> Nat]
    /\ reads \in [Keys -> Seen]
    /\ stack \in Seq(Frame)
    /\ ret \in [key : Keys, value : Values, changedAt : Nat] \cup {NoAnswer}
    /\ cancel \in BOOLEAN
    /\ goal \in [op : {"demand", "is_red"}, key : Derived] \cup {Idle}
    /\ planned \subseteq Derived

\* Db::new.
Init ==
    /\ rev = 0
    /\ id = [k \in Keys |-> 0]
    /\ state = [k \in Keys |-> "Empty"]
    /\ value = [k \in Keys |-> Zero]
    /\ verifiedAt = [k \in Keys |-> 0]
    /\ changedAt = [k \in Keys |-> 0]
    /\ reads = [k \in Keys |-> EmptySeen]
    /\ stack = <<>>
    /\ ret = NoAnswer
    /\ cancel = FALSE
    /\ goal = Idle
    /\ planned = {}

-----------------------------------------------------------------------------
(***************************************************************************)
(* The owner's calls                                                       *)
(***************************************************************************)

\* Faulty variant: stamps the write with the revision before it.
SetInputStampedEarly(k, v) ==
    /\ goal = Idle
    /\ rev < MaxRev
    /\ ~(state[k] = "Valid" /\ value[k] = v)
    /\ id' = Interned(k)
    /\ rev' = rev + 1
    /\ value' = [value EXCEPT ![k] = v]
    /\ changedAt' = [changedAt EXCEPT ![k] = rev - 1]
    /\ verifiedAt' = [verifiedAt EXCEPT ![k] = rev + 1]
    /\ state' = [state EXCEPT ![k] = "Valid"]
    /\ planned' = {}
    /\ UNCHANGED <<reads, stack, ret, cancel, goal>>

\* Db::set_input with a value that differs from the current one.  Writing
\* the same value again returns before anything is changed.
SetInput(k, v) ==
    /\ goal = Idle
    /\ rev < MaxRev
    /\ ~(state[k] = "Valid" /\ value[k] = v)
    /\ id' = Interned(k)
    /\ rev' = rev + 1
    /\ value' = [value EXCEPT ![k] = v]
    /\ changedAt' = [changedAt EXCEPT ![k] = rev + 1]
    /\ verifiedAt' = [verifiedAt EXCEPT ![k] = rev + 1]
    /\ state' = [state EXCEPT ![k] = "Valid"]
    /\ planned' = {}
    /\ UNCHANGED <<reads, stack, ret, cancel, goal>>

\* pull asserts that an input it reads has been set; every owner sets its
\* inputs before its first demand.
InputsSet == \A k \in Inputs : state[k] = "Valid"

Demand(k) ==
    /\ goal = Idle
    /\ InputsSet
    /\ goal' = [op |-> "demand", key |-> k]
    /\ UNCHANGED <<rev, id, columns, stack, ret, cancel, planned>>

\* Db::is_red, up to its own early returns: a cancelled call and a node that
\* is up to date change nothing but the index; a node never computed is red.
IsRed(k) ==
    /\ goal = Idle
    /\ InputsSet
    /\ ~cancel
    /\ id' = Interned(k)
    /\ \/ /\ state[k] = "Valid"
          /\ verifiedAt[k] # rev
          /\ goal' = [op |-> "is_red", key |-> k]
          /\ stack' = Push(VerifyFrame(k, Deps(k)))
          /\ UNCHANGED planned
       \/ /\ state[k] = "Empty"
          /\ planned' = planned \cup {k}
          /\ UNCHANGED <<goal, stack>>
    /\ UNCHANGED <<rev, columns, ret, cancel>>

\* CancelFlag::cancel and ::reset, from any thread at any time.
Cancel ==
    /\ ~cancel
    /\ cancel' = TRUE
    /\ UNCHANGED <<rev, id, columns, stack, ret, goal, planned>>

Reset ==
    /\ cancel
    /\ cancel' = FALSE
    /\ UNCHANGED <<rev, id, columns, stack, ret, goal, planned>>

-----------------------------------------------------------------------------
(***************************************************************************)
(* pull: the next key that the frame on top (or the demand itself) asks.   *)
(* A verification asks its dependencies in the order of their ids, the     *)
(* order in which execute sorted them.                                     *)
(***************************************************************************)
Asks(k) ==
    /\ goal # Idle
    /\ ret = NoAnswer
    /\ IF stack = <<>>
       THEN k = goal.key
       ELSE \/ /\ Top.mode = "verify"
               /\ k \in Top.todo
               /\ \A d \in Top.todo : id[k] <= id[d]
            \/ /\ Top.mode = "execute"
               /\ k = NextRead(Top.node, Top.seen)

\* Faulty variant: the walk takes a cancelled dependency for an unchanged one.
PullCancelledIsGreen(k) ==
    /\ Asks(k)
    /\ cancel
    /\ verifiedAt' = IF stack # <<>> /\ Top.mode = "verify"
                     THEN [verifiedAt EXCEPT ![Top.node] = rev]
                     ELSE verifiedAt
    /\ stack' = <<>>
    /\ goal' = Idle
    /\ UNCHANGED <<rev, id, state, value, changedAt, reads, ret, cancel, planned>>

\* The flag is polled at every pull.  Err(Cancelled) then unwinds the whole
\* stack: verify pops and propagates, compute returns Outcome::Cancelled,
\* execute drops its frame.
PullCancelled(k) ==
    /\ Asks(k)
    /\ cancel
    /\ stack' = <<>>
    /\ goal' = Idle
    /\ UNCHANGED <<rev, id, columns, ret, cancel, planned>>

PullInput(k) ==
    /\ Asks(k)
    /\ ~cancel
    /\ k \in Inputs
    /\ id' = Interned(k)
    /\ ret' = Answer(k)
    /\ UNCHANGED <<rev, columns, stack, cancel, goal, planned>>

UpToDate(k) == state[k] = "Valid" /\ verifiedAt[k] = rev

PullMemo(k) ==
    /\ Asks(k)
    /\ ~cancel
    /\ k \in Derived
    /\ UpToDate(k)
    /\ id' = Interned(k)
    /\ ret' = Answer(k)
    /\ UNCHANGED <<rev, columns, stack, cancel, goal, planned>>

\* A key already in flight: the query set's recovery value, as if it had
\* changed in this revision, and not memoised.
PullCycle(k) ==
    /\ Asks(k)
    /\ ~cancel
    /\ k \in Derived
    /\ ~UpToDate(k)
    /\ InFlight(k)
    /\ id' = Interned(k)
    /\ ret' = [key |-> k, value |-> OnCycle(k), changedAt |-> rev]
    /\ UNCHANGED <<rev, columns, stack, cancel, goal, planned>>

PullVerify(k) ==
    /\ Asks(k)
    /\ ~cancel
    /\ k \in Derived
    /\ state[k] = "Valid"
    /\ verifiedAt[k] # rev
    /\ ~InFlight(k)
    /\ id' = Interned(k)
    /\ stack' = Push(VerifyFrame(k, Deps(k)))
    /\ UNCHANGED <<rev, columns, ret, cancel, goal, planned>>

\* verify answers "not up to date" at once for a node never computed.
PullExecute(k) ==
    /\ Asks(k)
    /\ ~cancel
    /\ k \in Derived
    /\ state[k] = "Empty"
    /\ ~InFlight(k)
    /\ id' = Interned(k)
    /\ stack' = Push(ExecuteFrame(k))
    /\ UNCHANGED <<rev, columns, ret, cancel, goal, planned>>

-----------------------------------------------------------------------------
(***************************************************************************)
(* verify: the red-green walk                                              *)
(***************************************************************************)

\* The three ways an answer can leave the walk of n.
AskNext == stack' = SetTop([Top EXCEPT !.todo = @ \ {ret.key}]) /\ UNCHANGED <<goal, planned>>

Dirty(n) ==
    IF goal.op = "is_red" /\ Len(stack) = 1
    THEN /\ stack' = <<>>
         /\ goal' = Idle
         /\ planned' = planned \cup {n}
    ELSE /\ stack' = SetTop(ExecuteFrame(n))
         /\ UNCHANGED <<goal, planned>>

\* Faulty variants of the comparison and of the loop.
AnsweredOffByOne(n) ==
    IF ret.changedAt <= verifiedAt[n] + 1 THEN AskNext ELSE Dirty(n)
AnsweredProbeTooStrict(n) ==
    IF ret.changedAt <= verifiedAt[n] /\ ~(goal.op = "is_red" /\ ret.changedAt = verifiedAt[n])
    THEN AskNext ELSE Dirty(n)
AnsweredAsksAgain(n) ==
    IF ret.changedAt <= verifiedAt[n]
    THEN UNCHANGED <<stack, goal, planned>>
    ELSE Dirty(n)

Answered(n) ==
    IF ret.changedAt <= verifiedAt[n] THEN AskNext ELSE Dirty(n)

\* The answer of one dependency.  A dependency that changed after this node
\* was last verified ends the walk: is_red reports red, pull goes on to
\* execute (which polls nothing before compute runs).
VerifyAnswer ==
    /\ stack # <<>>
    /\ ret # NoAnswer
    /\ Top.mode = "verify"
    /\ Answered(Top.node)
    /\ ret' = NoAnswer
    /\ UNCHANGED <<rev, id, columns, cancel>>

\* No dependency changed: the node is re-stamped and not executed.
VerifyGreen ==
    /\ stack # <<>>
    /\ ret = NoAnswer
    /\ Top.mode = "verify"
    /\ Top.todo = {}
    /\ verifiedAt' = [verifiedAt EXCEPT ![Top.node] = rev]
    /\ stack' = Pop
    /\ ret' = Answer(Top.node)
    /\ UNCHANGED <<rev, id, state, value, changedAt, reads, cancel, goal, planned>>

-----------------------------------------------------------------------------
(***************************************************************************)
(* execute                                                                 *)
(***************************************************************************)
ExecuteAnswer ==
    /\ stack # <<>>
    /\ ret # NoAnswer
    /\ Top.mode = "execute"
    /\ stack' = SetTop([Top EXCEPT !.seen =
                          [k \in DOMAIN Top.seen \cup {ret.key} |->
                              IF k = ret.key THEN ret.value ELSE Top.seen[k]]])
    /\ ret' = NoAnswer
    /\ UNCHANGED <<rev, id, columns, cancel, goal, planned>>

\* Faulty variants: the change stamp always moves, or never; the node's own
\* read of itself becomes an edge.
CommitNoCutoff(n, v, seen) ==
    /\ reads' = [reads EXCEPT ![n] = [k \in DOMAIN seen \ {n} |-> seen[k]]]
    /\ verifiedAt' = [verifiedAt EXCEPT ![n] = rev]
    /\ value' = [value EXCEPT ![n] = v]
    /\ changedAt' = [changedAt EXCEPT ![n] = rev]
    /\ state' = [state EXCEPT ![n] = "Valid"]
CommitKeepsChangeStamp(n, v, seen) ==
    /\ reads' = [reads EXCEPT ![n] = [k \in DOMAIN seen \ {n} |-> seen[k]]]
    /\ verifiedAt' = [verifiedAt EXCEPT ![n] = rev]
    /\ value' = [value EXCEPT ![n] = v]
    /\ changedAt' = [changedAt EXCEPT ![n] = IF state[n] # "Valid" THEN rev ELSE @]
    /\ state' = [state EXCEPT ![n] = "Valid"]
CommitSelfEdge(n, v, seen) ==
    /\ reads' = [reads EXCEPT ![n] = [k \in DOMAIN seen \cup {n} |->
                                         IF k = n THEN v ELSE seen[k]]]
    /\ verifiedAt' = [verifiedAt EXCEPT ![n] = rev]
    /\ value' = [value EXCEPT ![n] = v]
    /\ changedAt' = [changedAt EXCEPT ![n] =
                        IF state[n] # "Valid" \/ value[n] # v THEN rev ELSE @]
    /\ state' = [state EXCEPT ![n] = "Valid"]

\* compute has returned v.  The edges are committed (a read of the node by
\* itself is not an edge), both stamps are written, and the change stamp
\* moves only if the value did: the early cutoff.
Commit(n, v, seen) ==
    /\ reads' = [reads EXCEPT ![n] = [k \in DOMAIN seen \ {n} |-> seen[k]]]
    /\ verifiedAt' = [verifiedAt EXCEPT ![n] = rev]
    /\ value' = [value EXCEPT ![n] = v]
    /\ changedAt' = [changedAt EXCEPT ![n] =
                        IF state[n] # "Valid" \/ value[n] # v THEN rev ELSE @]
    /\ state' = [state EXCEPT ![n] = "Valid"]

ExecuteCommit ==
    /\ stack # <<>>
    /\ ret = NoAnswer
    /\ Top.mode = "execute"
    /\ NextRead(Top.node, Top.seen) = Done
    /\ Commit(Top.node, Result(Top.node, Top.seen), Top.seen)
    /\ stack' = Pop
    /\ ret' = [key |-> Top.node, value |-> value'[Top.node],
               changedAt |-> changedAt'[Top.node]]
    /\ planned' = planned \ {Top.node}
    /\ UNCHANGED <<rev, id, cancel, goal>>

\* The outermost pull (or is_red's walk, green) returns to the owner.
Return ==
    /\ goal # Idle
    /\ stack = <<>>
    /\ ret # NoAnswer
    /\ goal' = Idle
    /\ ret' = NoAnswer
    /\ UNCHANGED <<rev, id, columns, stack, cancel, planned>>

-----------------------------------------------------------------------------
Pull ==
    \E k \in Keys :
        \/ PullCancelled(k)
        \/ PullInput(k)
        \/ PullMemo(k)
        \/ PullCycle(k)
        \/ PullVerify(k)
        \/ PullExecute(k)

\* What the thread inside Db does on its own once it has been called.
Engine == Pull \/ VerifyAnswer \/ VerifyGreen \/ ExecuteAnswer \/ ExecuteCommit \/ Return

Owner ==
    \/ \E k \in Inputs, v \in Values : SetInput(k, v)
    \/ \E k \in Derived : Demand(k) \/ IsRed(k)

Next == Engine \/ Owner \/ Cancel \/ Reset

\* The call runs to its end: nothing in the engine blocks.  The owner and
\* the cancelling thread are under no obligation.
Spec == Init /\ [][Next]_vars /\ WF_vars(Engine)

-----------------------------------------------------------------------------
\* No key is in flight twice: the recursion of pull, verify and execute is
\* as deep as there are keys at most, and a walk that leads back to the node
\* it started from stops there (db.rs: the frame verify pushes).
InFlightOnce ==
    \A i, j \in 1..Len(stack) : stack[i].node = stack[j].node => i = j

=============================================================================
