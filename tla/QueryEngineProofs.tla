------------------------- MODULE QueryEngineProofs --------------------------
(***************************************************************************)
(* Proofs about the query engine, for every set of keys and values and     *)
(* every query set, whether its reads are well founded or go round in a    *)
(* circle: type correctness, and that no node is in flight twice.          *)
(***************************************************************************)
EXTENDS QueryEngine, FiniteSetTheorems, SequenceTheorems, TLAPS

(***************************************************************************)
(* Facts about stacks (a Vec with push, pop and last_mut)                  *)
(***************************************************************************)
\* Removing the last element of a stack (Vec::pop).
LEMMA FrontFacts ==
    ASSUME NEW S, NEW s \in Seq(S), s # <<>>
    PROVE  /\ SubSeq(s, 1, Len(s) - 1) \in Seq(S)
           /\ Len(SubSeq(s, 1, Len(s) - 1)) = Len(s) - 1
           /\ \A i \in 1..(Len(s) - 1) : SubSeq(s, 1, Len(s) - 1)[i] = s[i]
           /\ Len(s) \in Nat \ {0}
           /\ s[Len(s)] \in S
  <1> DEFINE m == Len(s) - 1
             t == SubSeq(s, 1, m)
  <1>1. /\ Len(s) \in Nat \ {0}
        /\ m \in Nat
        /\ \A i \in 1..Len(s) : s[i] \in S
    BY LenProperties, EmptySeq, ElementOfSeq
  <1>2. \A i \in 1..m : s[i] \in S
    BY <1>1
  <1>3. /\ t \in Seq(S)
        /\ Len(t) = IF 1 <= m THEN m - 1 + 1 ELSE 0
        /\ \A i \in 1..(m - 1 + 1) : t[i] = s[1 + i - 1]
    <2> HIDE DEF m
    <2> QED BY <1>1, <1>2, SubSeqProperties
  <1>4. Len(t) = m /\ \A i \in 1..m : t[i] = s[i]
    <2> HIDE DEF m, t
    <2> QED BY <1>1, <1>3
  <1>5. s[Len(s)] \in S
    BY <1>1
  <1> QED
    BY <1>1, <1>3, <1>4, <1>5, Zenon

\* Pushing a frame (Vec::push).
LEMMA PushFacts ==
    ASSUME NEW S, NEW s \in Seq(S), NEW e \in S
    PROVE  /\ Append(s, e) \in Seq(S)
           /\ Append(s, e) # <<>>
           /\ Len(Append(s, e)) = Len(s) + 1
           /\ \A i \in 1..Len(s) : Append(s, e)[i] = s[i]
           /\ Append(s, e)[Len(s) + 1] = e
           /\ Len(s) \in Nat
  BY AppendProperties, LenProperties, EmptySeq

\* Updating the frame on top (Vec::last_mut).
LEMMA SetLastFacts ==
    ASSUME NEW S, NEW s \in Seq(S), s # <<>>, NEW e \in S
    PROVE  /\ [s EXCEPT ![Len(s)] = e] \in Seq(S)
           /\ [s EXCEPT ![Len(s)] = e] # <<>>
           /\ Len([s EXCEPT ![Len(s)] = e]) = Len(s)
           /\ \A i \in 1..(Len(s) - 1) : [s EXCEPT ![Len(s)] = e][i] = s[i]
           /\ [s EXCEPT ![Len(s)] = e][Len(s)] = e
  <1> DEFINE t == [s EXCEPT ![Len(s)] = e]
  <1>1. Len(s) \in Nat \ {0} /\ Len(s) \in 1..Len(s)
    BY LenProperties, EmptySeq
  <1>2. /\ t \in Seq(S)
        /\ Len(t) = Len(s)
        /\ \A j \in 1..Len(s) : t[j] = IF j = Len(s) THEN e ELSE s[j]
    BY <1>1, ExceptSeq
  <1>3. /\ t # <<>>
        /\ \A i \in 1..(Len(s) - 1) : t[i] = s[i]
        /\ t[Len(s)] = e
    <2> HIDE DEF t
    <2> QED BY <1>1, <1>2, EmptySeq
  <1> QED
    BY <1>2, <1>3, Zenon

(***************************************************************************)
(* Facts about the data                                                    *)
(***************************************************************************)

\* Interning hands out ids and nothing else.
LEMMA InternedType ==
    ASSUME id \in [Keys -> Nat], NEW k \in Keys
    PROVE  Interned(k) \in [Keys -> Nat]
  <1>1. IsFiniteSet({j \in Keys : id[j] # 0})
    BY KeysAssumption, FS_Subset, {j \in Keys : id[j] # 0} \subseteq Keys
  <1>2. Cardinality({j \in Keys : id[j] # 0}) \in Nat
    BY <1>1, FS_CardinalityType
  <1> QED
    BY <1>2 DEF Interned

\* The partial functions of Seen, by membership.
LEMMA SeenMember ==
    ASSUME NEW D \in SUBSET Keys, NEW f \in [D -> Values]
    PROVE  f \in Seen
  BY DEF Seen

\* What a frame has seen is a function from some keys to values.
LEMMA SeenProperties ==
    ASSUME NEW s \in Seen
    PROVE  /\ DOMAIN s \subseteq Keys
           /\ s \in [DOMAIN s -> Values]
           /\ \A k \in DOMAIN s : s[k] \in Values
  BY DEF Seen

-----------------------------------------------------------------------------
(***************************************************************************)
(* Type correctness                                                        *)
(***************************************************************************)

\* The frames an action pushes or leaves on top are frames.
LEMMA FrameTypes ==
    ASSUME NEW n \in Derived
    PROVE  /\ \A D \in SUBSET Keys : VerifyFrame(n, D) \in Frame
           /\ ExecuteFrame(n) \in Frame
  <1>1. EmptySeen \in Seen
    <2>1. EmptySeen \in [{} -> Values]
      BY DEF EmptySeen
    <2> QED BY <2>1, SeenMember
  <1> QED
    BY <1>1 DEF VerifyFrame, ExecuteFrame, Frame

\* The frame on top and its fields.
LEMMA TopType ==
    ASSUME TypeOK, stack # <<>>
    PROVE  /\ Top \in Frame
           /\ Top.node \in Derived
           /\ Top.node \in Keys
           /\ Top.todo \subseteq Keys
           /\ Top.seen \in Seen
           /\ Top.mode \in {"verify", "execute"}
           /\ Pop \in Seq(Frame)
  <1>1. Top \in Frame /\ Pop \in Seq(Frame)
    BY FrontFacts DEF TypeOK, Top, Pop
  <1> QED
    BY <1>1 DEF Frame, Keys

\* The answer on its way back, once there is one.
LEMMA RetType ==
    ASSUME TypeOK, ret # NoAnswer
    PROVE  ret \in [key : Keys, value : Values, changedAt : Nat]
  BY DEF TypeOK

\* Every pull leaves the state well typed (Db::pull).
LEMMA PullType ==
    ASSUME TypeOK, Pull
    PROVE  TypeOK'
  <1>1. PICK k \in Keys : \/ PullCancelled(k) \/ PullInput(k) \/ PullMemo(k)
                          \/ PullCycle(k) \/ PullVerify(k) \/ PullExecute(k)
    BY DEF Pull
  <1>2. Interned(k) \in [Keys -> Nat]
    BY InternedType DEF TypeOK
  <1>3. Answer(k) \in [key : Keys, value : Values, changedAt : Nat]
    BY DEF TypeOK, Answer
  <1>4. Deps(k) \subseteq Keys
    BY SeenProperties DEF TypeOK, Deps
  <1>5. CASE PullCancelled(k)
    BY <1>5, EmptySeq DEF PullCancelled, TypeOK, columns
  <1>6. CASE PullInput(k)
    BY <1>6, <1>2, <1>3 DEF PullInput, TypeOK, columns
  <1>7. CASE PullMemo(k)
    BY <1>7, <1>2, <1>3 DEF PullMemo, TypeOK, columns
  <1>8. CASE PullCycle(k)
    <2>1. OnCycle(k) \in Values
      BY <1>8, QueriesAssumption DEF PullCycle
    <2> QED
      BY <1>8, <1>2, <2>1 DEF PullCycle, TypeOK, columns
  <1>9. CASE PullVerify(k)
    <2>1. k \in Derived /\ stack' = Append(stack, VerifyFrame(k, Deps(k)))
      BY <1>9 DEF PullVerify, Push
    <2>2. stack' \in Seq(Frame)
      BY <2>1, <1>4, FrameTypes, PushFacts DEF TypeOK
    <2> QED
      BY <1>9, <1>2, <2>2 DEF PullVerify, TypeOK, columns
  <1>10. CASE PullExecute(k)
    <2>1. k \in Derived /\ stack' = Append(stack, ExecuteFrame(k))
      BY <1>10 DEF PullExecute, Push
    <2>2. stack' \in Seq(Frame)
      BY <2>1, FrameTypes, PushFacts DEF TypeOK
    <2> QED
      BY <1>10, <1>2, <2>2 DEF PullExecute, TypeOK, columns
  <1> QED
    BY <1>1, <1>5, <1>6, <1>7, <1>8, <1>9, <1>10

\* The set of reads a step extends or commits (Frame::deps).
LEMMA ExtendSeen ==
    ASSUME NEW s \in Seen, NEW k \in Keys, NEW v \in Values
    PROVE  [j \in DOMAIN s \cup {k} |-> IF j = k THEN v ELSE s[j]] \in Seen
  <1> DEFINE t == [j \in DOMAIN s \cup {k} |-> IF j = k THEN v ELSE s[j]]
  <1>1. DOMAIN s \cup {k} \subseteq Keys
    BY SeenProperties
  <1>2. t \in [DOMAIN s \cup {k} -> Values]
    BY SeenProperties
  <1> QED
    BY <1>1, <1>2, SeenMember

\* Without its own node, what a frame has seen still has its type (the self edge
\* that execute leaves out of the new dependency list).
LEMMA DropSelf ==
    ASSUME NEW s \in Seen, NEW n
    PROVE  [k \in DOMAIN s \ {n} |-> s[k]] \in Seen
  <1>1. DOMAIN s \ {n} \subseteq Keys
    BY SeenProperties
  <1>2. [k \in DOMAIN s \ {n} |-> s[k]] \in [DOMAIN s \ {n} -> Values]
    BY SeenProperties
  <1> QED
    BY <1>1, <1>2, SeenMember

\* The type invariant is inductive.
LEMMA TypeStep ==
    ASSUME TypeOK, [Next]_vars
    PROVE  TypeOK'
  <1>1. CASE Pull
    BY <1>1, PullType
  <1>2. CASE VerifyAnswer
    <2>1. /\ Top \in Frame
          /\ Top.node \in Derived
      BY <1>2, TopType DEF VerifyAnswer
    <2>2. [Top EXCEPT !.todo = @ \ {ret.key}] \in Frame
      BY <2>1 DEF Frame
    <2>3. ExecuteFrame(Top.node) \in Frame
      BY <2>1, FrameTypes
    <2>4. \A f \in Frame : SetTop(f) \in Seq(Frame)
      BY <1>2, SetLastFacts DEF VerifyAnswer, SetTop, TypeOK
    <2>5. stack' \in Seq(Frame)
      BY <1>2, <2>2, <2>3, <2>4, EmptySeq DEF VerifyAnswer, Answered, AskNext, Dirty
    <2>6. planned' \subseteq Derived /\ goal' \in {goal, Idle}
      BY <1>2, <2>1 DEF VerifyAnswer, Answered, AskNext, Dirty, TypeOK
    <2> QED
      BY <1>2, <2>5, <2>6 DEF VerifyAnswer, Answered, AskNext, Dirty, TypeOK, columns
  <1>3. CASE VerifyGreen
    BY <1>3, TopType DEF VerifyGreen, TypeOK, Answer
  <1>4. CASE ExecuteAnswer
    <2> DEFINE s == [k \in DOMAIN Top.seen \cup {ret.key} |->
                        IF k = ret.key THEN ret.value ELSE Top.seen[k]]
    <2>1. Top \in Frame /\ Top.seen \in Seen
      BY <1>4, TopType DEF ExecuteAnswer
    <2>2. ret.key \in Keys /\ ret.value \in Values
      BY <1>4, RetType DEF ExecuteAnswer
    <2>3. s \in Seen
      BY <2>1, <2>2, ExtendSeen
    <2>4. [Top EXCEPT !.seen = s] \in Frame
      <3> HIDE DEF s
      <3> QED BY <2>1, <2>3 DEF Frame
    <2>5. stack' \in Seq(Frame)
      BY <1>4, <2>4, SetLastFacts DEF ExecuteAnswer, SetTop, TypeOK
    <2> QED
      BY <1>4, <2>5 DEF ExecuteAnswer, TypeOK, columns
  <1>5. CASE ExecuteCommit
    <2> DEFINE n == Top.node
               s == Top.seen
               r == [k \in DOMAIN s \ {n} |-> s[k]]
    <2>1. n \in Derived /\ n \in Keys /\ s \in Seen /\ Pop \in Seq(Frame)
      BY <1>5, TopType DEF ExecuteCommit
    <2>2. r \in Seen
      BY <2>1, DropSelf
    <2>3. Result(n, s) \in Values
      BY <2>1, QueriesAssumption
    <2>4. reads' = [reads EXCEPT ![n] = r]
      BY <1>5 DEF ExecuteCommit, Commit
    <2>5. reads' \in [Keys -> Seen]
      <3> HIDE DEF r
      <3> QED BY <2>1, <2>2, <2>4 DEF TypeOK
    <2>6. /\ value' \in [Keys -> Values]
          /\ verifiedAt' \in [Keys -> Nat]
          /\ changedAt' \in [Keys -> Nat]
          /\ state' \in [Keys -> {"Empty", "Valid"}]
      BY <1>5, <2>1, <2>3 DEF ExecuteCommit, Commit, TypeOK
    <2>7. ret' \in [key : Keys, value : Values, changedAt : Nat]
      BY <1>5, <2>1, <2>6 DEF ExecuteCommit
    <2> QED
      BY <1>5, <2>1, <2>5, <2>6, <2>7 DEF ExecuteCommit, TypeOK
  <1>6. CASE Return
    BY <1>6 DEF Return, TypeOK, columns
  <1>7. ASSUME NEW k \in Inputs, NEW v \in Values, SetInput(k, v)
        PROVE  TypeOK'
    <2>1. Interned(k) \in [Keys -> Nat]
      BY InternedType DEF TypeOK, Keys
    <2> QED
      BY <1>7, <2>1 DEF SetInput, TypeOK, Keys
  <1>8. ASSUME NEW k \in Derived, Demand(k)
        PROVE  TypeOK'
    BY <1>8 DEF Demand, TypeOK, columns
  <1>9. ASSUME NEW k \in Derived, IsRed(k)
        PROVE  TypeOK'
    <2>1. Interned(k) \in [Keys -> Nat]
      BY InternedType DEF TypeOK, Keys
    <2>2. VerifyFrame(k, Deps(k)) \in Frame
      BY FrameTypes, SeenProperties DEF TypeOK, Deps, Keys
    <2>3. Push(VerifyFrame(k, Deps(k))) \in Seq(Frame)
      BY <2>2, PushFacts DEF Push, TypeOK
    <2>4. stack' \in Seq(Frame)
      BY <1>9, <2>3 DEF IsRed, TypeOK
    <2> QED
      BY <1>9, <2>1, <2>4 DEF IsRed, TypeOK, columns
  <1>10. CASE Cancel \/ Reset
    BY <1>10 DEF Cancel, Reset, TypeOK, columns
  <1>11. CASE UNCHANGED vars
    BY <1>11 DEF vars, columns, TypeOK
  <1> QED
    BY <1>1, <1>2, <1>3, <1>4, <1>5, <1>6, <1>7, <1>8, <1>9, <1>10, <1>11
    DEF Next, Engine, Owner

\* Every reachable state of the database is well typed: node columns, the
\* in-flight stack, the answer register (db.rs, whole file).
THEOREM TypeCorrect == Spec => []TypeOK
  <1>1. Init => TypeOK
    <2>1. EmptySeen \in Seen
      <3>1. EmptySeen \in [{} -> Values]
        BY DEF EmptySeen
      <3> QED BY <3>1, SeenMember
    <2>2. <<>> \in Seq(Frame)
      BY EmptySeq
    <2> QED
      <3> HAVE Init
      <3>1. /\ stack \in Seq(Frame)
            /\ reads \in [Keys -> Seen]
        BY <2>1, <2>2 DEF Init
      <3> QED
        BY <3>1, ValuesAssumption DEF Init, TypeOK
  <1>2. TypeOK /\ [Next]_vars => TypeOK'
    BY TypeStep
  <1> QED
    BY <1>1, <1>2, PTL DEF Spec

-----------------------------------------------------------------------------
(***************************************************************************)
(* The stack                                                               *)
(***************************************************************************)

\* The key f is waiting for: one of the dependencies it has still to verify, or
\* what compute reads next.
Awaits(f, k) == IF f.mode = "verify" THEN k \in f.todo ELSE k = NextRead(f.node, f.seen)

\* A frame stands over the frame that asked for it, and so does an answer.
Asked ==
    /\ \A i \in 1..(Len(stack) - 1) : Awaits(stack[i], stack[i + 1].node)
    /\ ret # NoAnswer /\ stack # <<>> => Awaits(Top, ret.key)
Resting == goal = Idle => stack = <<>> /\ ret = NoAnswer

\* Between two calls nothing is in flight, and within one each node is in
\* flight once and was asked for by the one below it.
StackInv == InFlightOnce /\ Resting /\ Asked

\* An empty stack (cancellation; a probe that found its node red).
LEMMA EmptyStackInv ==
    ASSUME stack' = <<>>, ret' = NoAnswer
    PROVE  StackInv'
  <1>1. Len(stack') = 0
    BY EmptySeq
  <1> QED
    BY <1>1 DEF StackInv, InFlightOnce, Resting, Asked

\* A step that leaves the stack alone and answers, if it does, what the frame
\* on top has asked.
LEMMA SameStackInv ==
    ASSUME StackInv, stack' = stack,
           goal' = Idle => stack = <<>> /\ ret' = NoAnswer,
           ret' # NoAnswer /\ stack # <<>> => Awaits(Top, ret'.key)
    PROVE  StackInv'
  BY DEF StackInv, InFlightOnce, Resting, Asked, Awaits, Top

\* Pushing a frame for a key that the frame on top has asked and that is not in
\* flight (pull: the scan of the stack).
LEMMA PushInv ==
    ASSUME TypeOK, StackInv, NEW f \in Frame, ~InFlight(f.node),
           stack # <<>> => Awaits(Top, f.node),
           stack' = Push(f), ret' = NoAnswer, goal' # Idle
    PROVE  StackInv'
  <1>1. /\ Len(stack') = Len(stack) + 1
        /\ \A i \in 1..Len(stack) : stack'[i] = stack[i]
        /\ stack'[Len(stack) + 1] = f
        /\ Len(stack) \in Nat
        /\ stack # <<>> => Len(stack) > 0
    <2>1. stack \in Seq(Frame)
      BY DEF TypeOK
    <2> QED BY <2>1, PushFacts, EmptySeq DEF Push
  <1>2. InFlightOnce'
    BY <1>1 DEF StackInv, InFlightOnce, InFlight
  <1>3. \A i \in 1..(Len(stack') - 1) : Awaits(stack'[i], stack'[i + 1].node)
    <2> SUFFICES ASSUME NEW i \in 1..Len(stack)
                 PROVE  Awaits(stack'[i], stack'[i + 1].node)
      BY <1>1
    <2>1. CASE i = Len(stack)
      <3>1. stack # <<>> /\ stack'[i] = Top /\ stack'[i + 1] = f
        BY <1>1, <2>1, EmptySeq DEF Top
      <3> QED
        BY <3>1
    <2>2. CASE i # Len(stack)
      <3>1. i \in 1..(Len(stack) - 1) /\ i + 1 \in 1..Len(stack)
        BY <1>1, <2>2
      <3>2. stack'[i] = stack[i] /\ stack'[i + 1] = stack[i + 1]
        BY <1>1, <3>1
      <3> QED
        BY <3>1, <3>2 DEF StackInv, Asked
    <2> QED BY <2>1, <2>2
  <1> QED
    BY <1>2, <1>3 DEF StackInv, Resting, Asked, Awaits

\* The frame on top becomes one of the same node.
LEMMA SetTopInv ==
    ASSUME TypeOK, StackInv, stack # <<>>, NEW f \in Frame, f.node = Top.node,
           stack' = SetTop(f), ret' = NoAnswer, goal' # Idle
    PROVE  StackInv'
  <1>1. /\ Len(stack') = Len(stack)
        /\ \A i \in 1..(Len(stack) - 1) : stack'[i] = stack[i]
        /\ stack'[Len(stack)] = f
        /\ Len(stack) \in Nat \ {0}
    <2>1. stack \in Seq(Frame)
      BY DEF TypeOK
    <2> QED BY <2>1, SetLastFacts, FrontFacts DEF SetTop
  <1>2. \A i \in 1..Len(stack) : stack'[i].node = stack[i].node
    BY <1>1 DEF Top
  <1>3. InFlightOnce'
    BY <1>1, <1>2 DEF StackInv, InFlightOnce
  <1>4. \A i \in 1..(Len(stack') - 1) : Awaits(stack'[i], stack'[i + 1].node)
    <2> SUFFICES ASSUME NEW i \in 1..(Len(stack) - 1)
                 PROVE  Awaits(stack'[i], stack'[i + 1].node)
      BY <1>1
    <2>1. stack'[i] = stack[i] /\ stack'[i + 1].node = stack[i + 1].node
      BY <1>1, <1>2
    <2> QED
      BY <2>1 DEF StackInv, Asked
  <1> QED
    BY <1>3, <1>4 DEF StackInv, Resting, Asked

\* The frame on top is done and its node is the answer (verify, execute).
LEMMA PopInv ==
    ASSUME TypeOK, StackInv, stack # <<>>, stack' = Pop, ret'.key = Top.node, goal' = goal
    PROVE  StackInv'
  <1>1. /\ Len(stack') = Len(stack) - 1
        /\ \A i \in 1..(Len(stack) - 1) : stack'[i] = stack[i]
        /\ Len(stack) \in Nat \ {0}
        /\ stack' \in Seq(Frame)
    <2>1. stack \in Seq(Frame)
      BY DEF TypeOK
    <2> QED BY <2>1, FrontFacts DEF Pop
  <1>2. InFlightOnce'
    BY <1>1 DEF StackInv, InFlightOnce
  <1>3. \A i \in 1..(Len(stack) - 1) : Awaits(stack[i], stack[i + 1].node)
    BY DEF StackInv, Asked
  <1>4. \A i \in 1..(Len(stack') - 1) : Awaits(stack'[i], stack'[i + 1].node)
    <2> SUFFICES ASSUME NEW i \in 1..(Len(stack) - 2)
                 PROVE  Awaits(stack'[i], stack'[i + 1].node)
      BY <1>1
    <2>1. stack'[i] = stack[i] /\ stack'[i + 1] = stack[i + 1] /\ i \in 1..(Len(stack) - 1)
      BY <1>1
    <2> QED
      BY <1>3, <2>1
  <1>5. stack' # <<>> => Awaits(Top', ret'.key)
    <2> SUFFICES ASSUME stack' # <<>> PROVE Awaits(Top', ret'.key)
      OBVIOUS
    <2>1. Len(stack) - 1 \in 1..(Len(stack) - 1) /\ Len(stack) - 1 + 1 = Len(stack)
      BY <1>1, EmptySeq
    <2>2. Top' = stack[Len(stack) - 1]
      BY <1>1, <2>1 DEF Top
    <2>3. Awaits(stack[Len(stack) - 1], stack[Len(stack)].node)
      BY <1>3, <2>1
    <2> QED
      BY <2>2, <2>3 DEF Top
  <1>6. goal # Idle
    BY DEF StackInv, Resting
  <1> QED
    BY <1>2, <1>4, <1>5, <1>6 DEF StackInv, Resting, Asked, Awaits, Top

\* What Asks lets through is what the frame on top awaits.
LEMMA AskIsAwaited ==
    ASSUME TypeOK, NEW k \in Keys, Asks(k), stack # <<>>
    PROVE  Awaits(Top, k)
  BY TopType DEF Asks, Awaits

\* Every branch of pull.
LEMMA PullInv ==
    ASSUME TypeOK, StackInv, Pull
    PROVE  StackInv'
  <1>1. PICK k \in Keys : \/ PullCancelled(k) \/ PullInput(k) \/ PullMemo(k)
                          \/ PullCycle(k) \/ PullVerify(k) \/ PullExecute(k)
    BY DEF Pull
  <1>2. Asks(k) /\ goal # Idle /\ ret = NoAnswer /\ (stack # <<>> => Awaits(Top, k))
    BY <1>1, AskIsAwaited DEF PullCancelled, PullInput, PullMemo, PullCycle, PullVerify, PullExecute, Asks
  <1>3. CASE PullCancelled(k)
    BY <1>2, <1>3, EmptyStackInv DEF PullCancelled
  <1>4. CASE PullInput(k) \/ PullMemo(k) \/ PullCycle(k)
    <2>1. stack' = stack /\ goal' = goal /\ ret'.key = k
      BY <1>4 DEF PullInput, PullMemo, PullCycle, Answer
    <2> QED
      BY <1>2, <2>1, SameStackInv
  <1>5. CASE PullVerify(k)
    <2>1. k \in Derived /\ stack' = Push(VerifyFrame(k, Deps(k))) /\ ~InFlight(k) /\ ret' = ret /\ goal' = goal
      BY <1>5 DEF PullVerify
    <2>2. VerifyFrame(k, Deps(k)) \in Frame /\ VerifyFrame(k, Deps(k)).node = k
      BY <2>1, FrameTypes, SeenProperties DEF TypeOK, Deps, VerifyFrame
    <2> QED
      BY <1>2, <2>1, <2>2, PushInv
  <1>6. CASE PullExecute(k)
    <2>1. k \in Derived /\ stack' = Push(ExecuteFrame(k)) /\ ~InFlight(k) /\ ret' = ret /\ goal' = goal
      BY <1>6 DEF PullExecute
    <2>2. ExecuteFrame(k) \in Frame /\ ExecuteFrame(k).node = k
      BY <2>1, FrameTypes DEF ExecuteFrame
    <2> QED
      BY <1>2, <2>1, <2>2, PushInv
  <1> QED
    BY <1>1, <1>3, <1>4, <1>5, <1>6

\* The answer of one dependency: the next one, or the node itself executes.
LEMMA VerifyAnswerInv ==
    ASSUME TypeOK, StackInv, VerifyAnswer
    PROVE  StackInv'
  <1>1. stack # <<>> /\ ret' = NoAnswer /\ goal # Idle /\ Top \in Frame /\ Top.node \in Derived
    BY TopType DEF VerifyAnswer, StackInv, Resting
  <1>2. CASE stack' = <<>>
    BY <1>1, <1>2, EmptyStackInv
  <1>3. CASE stack' = SetTop([Top EXCEPT !.todo = @ \ {ret.key}]) /\ goal' = goal
    <2> DEFINE f == [Top EXCEPT !.todo = @ \ {ret.key}]
    <2>1. f \in Frame /\ f.node = Top.node
      BY <1>1 DEF Frame
    <2> HIDE DEF f
    <2>2. stack' = SetTop(f)
      BY <1>3 DEF f
    <2> QED
      BY <1>1, <1>3, <2>1, <2>2, SetTopInv
  <1>4. CASE stack' = SetTop(ExecuteFrame(Top.node)) /\ goal' = goal
    <2>1. ExecuteFrame(Top.node) \in Frame /\ ExecuteFrame(Top.node).node = Top.node
      BY <1>1, FrameTypes DEF ExecuteFrame
    <2> QED
      BY <1>1, <1>4, <2>1, SetTopInv
  <1> QED
    BY <1>2, <1>3, <1>4 DEF VerifyAnswer, Answered, AskNext, Dirty

\* The answer to one read.
LEMMA ExecuteAnswerInv ==
    ASSUME TypeOK, StackInv, ExecuteAnswer
    PROVE  StackInv'
  <1>1. stack # <<>> /\ ret # NoAnswer /\ ret' = NoAnswer /\ goal # Idle /\ goal' = goal /\ Top \in Frame
    BY TopType DEF ExecuteAnswer, StackInv, Resting
  <1> DEFINE s == [k \in DOMAIN Top.seen \cup {ret.key} |-> IF k = ret.key THEN ret.value ELSE Top.seen[k]]
             f == [Top EXCEPT !.seen = s]
  <1>2. s \in Seen
    BY <1>1, TopType, RetType, ExtendSeen
  <1>3. f \in Frame /\ f.node = Top.node
    <2> HIDE DEF s
    <2> QED BY <1>1, <1>2 DEF Frame
  <1>4. stack' = SetTop(f)
    BY DEF ExecuteAnswer
  <1> HIDE DEF f
  <1> QED
    BY <1>1, <1>3, <1>4, SetTopInv

\* Every step of the engine and of its owner.
LEMMA StackStep ==
    ASSUME TypeOK, StackInv, [Next]_vars
    PROVE  StackInv'
  <1>1. CASE Pull
    BY <1>1, PullInv
  <1>2. CASE VerifyAnswer
    BY <1>2, VerifyAnswerInv
  <1>3. CASE VerifyGreen
    <2>1. stack # <<>> /\ stack' = Pop /\ ret'.key = Top.node /\ goal' = goal
      BY <1>3 DEF VerifyGreen, Answer
    <2> QED
      BY <2>1, PopInv
  <1>4. CASE ExecuteAnswer
    BY <1>4, ExecuteAnswerInv
  <1>5. CASE ExecuteCommit
    <2>1. stack # <<>> /\ stack' = Pop /\ ret'.key = Top.node /\ goal' = goal
      BY <1>5 DEF ExecuteCommit
    <2> QED
      BY <2>1, PopInv
  <1>6. CASE Return
    BY <1>6, EmptyStackInv DEF Return
  <1>7. ASSUME NEW k \in Inputs, NEW v \in Values, SetInput(k, v)
        PROVE  StackInv'
    BY <1>7, EmptyStackInv DEF SetInput, StackInv, Resting
  <1>8. ASSUME NEW k \in Derived, Demand(k)
        PROVE  StackInv'
    BY <1>8, EmptyStackInv DEF Demand, StackInv, Resting
  <1>9. ASSUME NEW k \in Derived, IsRed(k)
        PROVE  StackInv'
    <2>1. stack = <<>> /\ ret = NoAnswer /\ ret' = NoAnswer
      BY <1>9 DEF IsRed, StackInv, Resting
    <2>2. CASE stack' = stack
      BY <2>1, <2>2, EmptyStackInv
    <2>3. CASE stack' = Push(VerifyFrame(k, Deps(k))) /\ goal' = [op |-> "is_red", key |-> k]
      <3>1. VerifyFrame(k, Deps(k)) \in Frame
        BY FrameTypes, SeenProperties DEF TypeOK, Deps, Keys
      <3>2. ~InFlight(VerifyFrame(k, Deps(k)).node)
        BY <2>1, EmptySeq DEF InFlight
      <3>3. goal' # Idle
        BY <2>3 DEF Idle
      <3> QED
        BY <2>1, <2>3, <3>1, <3>2, <3>3, PushInv
    <2> QED
      BY <1>9, <2>2, <2>3 DEF IsRed
  <1>10. CASE Cancel \/ Reset \/ UNCHANGED vars
    BY <1>10, SameStackInv DEF Cancel, Reset, vars, StackInv, Resting, Asked
  <1> QED
    BY <1>1, <1>2, <1>3, <1>4, <1>5, <1>6, <1>7, <1>8, <1>9, <1>10
    DEF Next, Engine, Owner

\* What is in flight was asked for, and nothing is in flight between calls
\* (db.rs: pull, verify, execute and the frames they push and pop).
THEOREM StackInvariant == Spec => []StackInv
  <1>1. Init => StackInv
    <2> SUFFICES ASSUME Init PROVE StackInv
      OBVIOUS
    <2>1. Len(stack) = 0
      BY EmptySeq DEF Init
    <2> QED
      BY <2>1 DEF Init, StackInv, InFlightOnce, Resting, Asked
  <1>2. TypeOK /\ StackInv /\ [Next]_vars => StackInv'
    BY StackStep
  <1> QED
    BY <1>1, <1>2, TypeCorrect, PTL DEF Spec

\* No node is in flight twice, also when reads go round in a circle: a walk
\* that comes back to a node being verified or executed is answered at once.
THEOREM NeverTwiceInFlight == Spec => []InFlightOnce
  <1>1. StackInv => InFlightOnce
    BY DEF StackInv
  <1> QED
    BY <1>1, StackInvariant, PTL

=============================================================================
