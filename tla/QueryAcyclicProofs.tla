------------------------ MODULE QueryAcyclicProofs -------------------------
(***************************************************************************)
(* Proofs about the query engine under a query set with well-founded       *)
(* reads: the red-green invariant and the consistency of the memo; that    *)
(* what was planned red is executed; and that what is up to date is what a *)
(* cold build computes.                                                    *)
(***************************************************************************)
EXTENDS QueryAcyclic, QueryEngineProofs, WellFoundedInduction

(***************************************************************************)
(* The red-green invariant                                                 *)
(***************************************************************************)

\* The key a frame asks is below every node in flight.
LEMMA AskBelow ==
    ASSUME TypeOK, RedGreenInv, NEW k \in Keys, Asks(k)
    PROVE  \A i \in 1..Len(stack) : Rank[k] < Rank[stack[i].node]
  <1> SUFFICES ASSUME stack # <<>>
               PROVE  \A i \in 1..Len(stack) : Rank[k] < Rank[stack[i].node]
    BY EmptySeq
  <1>1. /\ Len(stack) \in Nat \ {0}
        /\ \A i \in 1..Len(stack) : stack[i] \in Frame
    BY FrontFacts, ElementOfSeq DEF TypeOK
  <1>2. /\ Top.node \in Derived
        /\ Top.seen \in Seen
        /\ FrameOK(Top)
    BY <1>1, TopType DEF RedGreenInv, Frames, Top
  <1>3. Rank[k] < Rank[Top.node]
    <2>1. CASE Top.mode = "verify"
      BY <1>2, <2>1 DEF Asks, FrameOK, VerifyFrameOK, RedGreenInv, Recorded, RecordedAt
    <2>2. CASE Top.mode = "execute"
      BY <1>2, <2>2, RankAssumption, KeysAssumption DEF Asks
    <2> QED
      BY <2>1, <2>2 DEF Asks
  <1>4. \A i \in 1..Len(stack) : i # Len(stack) => Rank[Top.node] < Rank[stack[i].node]
    BY <1>1 DEF RedGreenInv, Descending, Top
  <1>5. \A j \in Keys : Rank[j] \in Nat
    BY RankAssumption
  <1>6. \A i \in 1..Len(stack) : stack[i].node \in Keys
    BY <1>1 DEF Frame, Keys
  <1> QED
    BY <1>2, <1>3, <1>4, <1>5, <1>6 DEF Top, Keys

\* When reads descend in rank, no key that is asked for is already on the stack.
LEMMA AskNotInFlight ==
    ASSUME TypeOK, RedGreenInv, NEW k \in Keys, Asks(k)
    PROVE  ~InFlight(k)
  <1>1. Rank[k] \in Nat
    BY RankAssumption
  <1> QED
    BY <1>1, AskBelow DEF InFlight

\* A step that writes no column keeps what the columns say; what a frame
\* has established it has still established.
LEMMA ColumnsKept ==
    ASSUME Stamps, Recorded, UNCHANGED <<rev, columns>>
    PROVE  /\ Stamps'
           /\ Recorded'
           /\ (\A i \in 1..Len(stack') : FrameOK(stack'[i])) => Frames'
           /\ InputsSet => InputsSet'
  <1>1. Stamps'
    BY DEF Stamps, columns
  <1>2. Recorded'
    BY DEF Recorded, RecordedAt, Deps, columns
  <1>3. (\A i \in 1..Len(stack') : FrameOK(stack'[i])) => Frames'
    BY DEF Frames, FrameOK, VerifyFrameOK, ExecuteFrameOK, Settled, UpToDate, Deps, columns
  <1>4. InputsSet => InputsSet'
    BY DEF InputsSet, columns
  <1> QED
    BY <1>1, <1>2, <1>3, <1>4

\* Pushing a frame for a key below every node in flight.
LEMMA PushKeeps ==
    ASSUME TypeOK, RedGreenInv, UNCHANGED <<rev, columns>>,
           NEW f \in Frame, FrameOK(f),
           \A i \in 1..Len(stack) : Rank[f.node] < Rank[stack[i].node],
           stack' = Push(f)
    PROVE  Frames' /\ Descending'
  <1>1. /\ stack' # <<>>
        /\ Len(stack') = Len(stack) + 1
        /\ \A i \in 1..Len(stack) : stack'[i] = stack[i]
        /\ stack'[Len(stack) + 1] = f
        /\ Len(stack) \in Nat
    <2>1. stack \in Seq(Frame)
      BY DEF TypeOK
    <2> QED BY <2>1, PushFacts DEF Push
  <1>2. \A i \in 1..Len(stack') : FrameOK(stack'[i])
    BY <1>1 DEF RedGreenInv, Frames
  <1>3. Frames'
    BY <1>2, ColumnsKept DEF RedGreenInv
  <1>4. Descending'
    BY <1>1 DEF RedGreenInv, Descending
  <1> QED
    BY <1>3, <1>4

\* Changing the frame on top, not its node.
LEMMA SetTopKeeps ==
    ASSUME TypeOK, RedGreenInv, UNCHANGED <<rev, columns>>, stack # <<>>,
           NEW f \in Frame, FrameOK(f), f.node = Top.node,
           stack' = SetTop(f)
    PROVE  Frames' /\ Descending'
  <1>1. /\ stack' # <<>>
        /\ Len(stack') = Len(stack)
        /\ \A i \in 1..(Len(stack) - 1) : stack'[i] = stack[i]
        /\ stack'[Len(stack)] = f
        /\ Len(stack) \in Nat \ {0}
    <2>1. stack \in Seq(Frame)
      BY DEF TypeOK
    <2> QED BY <2>1, SetLastFacts, FrontFacts DEF SetTop
  <1>2. \A i \in 1..Len(stack') : FrameOK(stack'[i])
    BY <1>1 DEF RedGreenInv, Frames
  <1>3. Frames'
    BY <1>2, ColumnsKept DEF RedGreenInv
  <1>4. \A i \in 1..Len(stack) : stack'[i].node = stack[i].node
    BY <1>1 DEF Top
  <1>5. Descending'
    BY <1>1, <1>4 DEF RedGreenInv, Descending
  <1> QED
    BY <1>3, <1>5

\* An empty stack has nothing to say.
LEMMA EmptyStackKeeps ==
    ASSUME stack' = <<>>
    PROVE  Frames' /\ Descending'
  <1>1. Len(stack') = 0
    BY EmptySeq
  <1> QED
    BY <1>1 DEF Frames, Descending

\* Every branch of pull keeps the red-green invariant: none writes a column.
LEMMA PullKeeps ==
    ASSUME TypeOK, RedGreenInv, Pull
    PROVE  RedGreenInv'
  <1>1. PICK k \in Keys : \/ PullCancelled(k) \/ PullInput(k) \/ PullMemo(k)
                          \/ PullCycle(k) \/ PullVerify(k) \/ PullExecute(k)
    BY DEF Pull
  <1>2. /\ UNCHANGED <<rev, columns>>
        /\ Asks(k)
        /\ goal # Idle
        /\ ret = NoAnswer
    BY <1>1 DEF PullCancelled, PullInput, PullMemo, PullCycle, PullVerify, PullExecute, Asks
  <1>3. Stamps' /\ Recorded' /\ InputsSet /\ InputsSet'
    BY <1>2, ColumnsKept DEF RedGreenInv, CallOK
  <1>4. \A i \in 1..Len(stack) : Rank[k] < Rank[stack[i].node]
    BY <1>2, AskBelow
  <1>5. CASE PullCancelled(k)
    <2>1. stack' = <<>> /\ ret' = NoAnswer
      BY <1>5, <1>2 DEF PullCancelled
    <2> QED
      BY <1>3, <2>1, EmptyStackKeeps DEF RedGreenInv, ReturnOK, CallOK
  <1>6. CASE PullInput(k) \/ PullMemo(k)
    <2>1. stack' = stack /\ goal' = goal /\ ret' = Answer(k) /\ Settled(k)
      BY <1>6, <1>3, KeysAssumption DEF PullInput, PullMemo, Settled, InputsSet
    <2>2. Frames' /\ Descending'
      BY <1>2, <2>1, ColumnsKept DEF RedGreenInv, Frames, Descending
    <2>3. stack # <<>> => Rank[k] < Rank[Top.node]
      BY <1>4, FrontFacts DEF TypeOK, Top
    <2>4. ReturnOK'
      BY <1>2, <2>1, <2>3
      DEF ReturnOK, Answer, Settled, UpToDate, Top, columns
    <2> QED
      BY <1>2, <1>3, <2>1, <2>2, <2>4 DEF RedGreenInv, CallOK
  <1>7. CASE PullCycle(k)
    BY <1>7, <1>2, AskNotInFlight DEF PullCycle
  <1>8. CASE PullVerify(k) \/ PullExecute(k)
    <2>1. PICK f \in Frame : FrameOK(f) /\ f.node = k /\ stack' = Push(f)
      <3>1. CASE PullVerify(k)
        <4>1. VerifyFrame(k, Deps(k)) \in Frame
          BY <3>1, FrameTypes, SeenProperties DEF PullVerify, TypeOK, Deps
        <4>2. FrameOK(VerifyFrame(k, Deps(k)))
          BY <3>1 DEF PullVerify, FrameOK, VerifyFrameOK, VerifyFrame, UpToDate
        <4> QED
          BY <3>1, <4>1, <4>2 DEF PullVerify, VerifyFrame
      <3>2. CASE PullExecute(k)
        <4>1. ExecuteFrame(k) \in Frame
          BY <3>2, FrameTypes DEF PullExecute
        <4>2. FrameOK(ExecuteFrame(k))
          BY <3>2
          DEF PullExecute, FrameOK, ExecuteFrameOK, ExecuteFrame, EmptySeen, UpToDate
        <4> QED
          BY <3>2, <4>1, <4>2 DEF PullExecute, ExecuteFrame
      <3> QED BY <1>8, <3>1, <3>2
    <2>2. Frames' /\ Descending'
      BY <1>2, <1>4, <2>1, PushKeeps
    <2>3. goal' = goal /\ ret' = NoAnswer
      BY <1>8, <1>2 DEF PullVerify, PullExecute
    <2> QED
      BY <1>2, <1>3, <2>2, <2>3 DEF RedGreenInv, ReturnOK, CallOK
  <1> QED
    BY <1>1, <1>5, <1>6, <1>7, <1>8

\* The answer a verification gets from one dependency (verify's loop body).
LEMMA VerifyAnswerKeeps ==
    ASSUME TypeOK, RedGreenInv, VerifyAnswer
    PROVE  RedGreenInv'
  <1>1. /\ UNCHANGED <<rev, columns>>
        /\ stack # <<>>
        /\ ret # NoAnswer
        /\ ret' = NoAnswer
        /\ Top.mode = "verify"
    BY DEF VerifyAnswer
  <1>2. goal # Idle
    BY <1>1 DEF RedGreenInv, CallOK
  <1>3. Stamps' /\ Recorded' /\ InputsSet /\ InputsSet'
    BY <1>1, <1>2, ColumnsKept DEF RedGreenInv, CallOK
  <1>4. /\ Top \in Frame
        /\ Top.node \in Derived
        /\ FrameOK(Top)
    BY <1>1, TopType, FrontFacts DEF RedGreenInv, Frames, Top, TypeOK
  <1>5. CASE stack' = <<>> /\ goal' = Idle
    BY <1>1, <1>3, <1>5, EmptyStackKeeps DEF RedGreenInv, ReturnOK, CallOK
  <1>6. CASE ret.changedAt <= verifiedAt[Top.node]
    <2> DEFINE f == [Top EXCEPT !.todo = @ \ {ret.key}]
    <2>1. f \in Frame /\ f.node = Top.node /\ f.mode = "verify" /\ f.todo = Top.todo \ {ret.key}
      BY <1>1, <1>4 DEF Frame
    <2>2. Settled(ret.key) /\ ret.changedAt = changedAt[ret.key]
      BY <1>1 DEF RedGreenInv, ReturnOK, Answer
    <2>3. FrameOK(f)
      <3> HIDE DEF f
      <3> QED BY <1>1, <1>4, <1>6, <2>1, <2>2 DEF FrameOK, VerifyFrameOK
    <2>4. stack' = SetTop(f) /\ goal' = goal
      BY <1>6 DEF VerifyAnswer, Answered, AskNext
    <2>5. Frames' /\ Descending'
      <3> HIDE DEF f
      <3> QED BY <1>1, <2>1, <2>3, <2>4, SetTopKeeps
    <2> QED
      BY <1>1, <1>2, <1>3, <2>4, <2>5 DEF RedGreenInv, ReturnOK, CallOK
  <1>7. CASE stack' = SetTop(ExecuteFrame(Top.node)) /\ goal' = goal
    <2>1. ExecuteFrame(Top.node) \in Frame
      BY <1>4, FrameTypes
    <2>2. FrameOK(ExecuteFrame(Top.node)) /\ ExecuteFrame(Top.node).node = Top.node
      BY <1>4 DEF FrameOK, ExecuteFrameOK, ExecuteFrame, EmptySeen
    <2>3. Frames' /\ Descending'
      BY <1>1, <1>7, <2>1, <2>2, SetTopKeeps
    <2> QED
      BY <1>1, <1>2, <1>3, <1>7, <2>3 DEF RedGreenInv, ReturnOK, CallOK
  <1> QED
    BY <1>5, <1>6, <1>7 DEF VerifyAnswer, Answered, AskNext, Dirty

\* The answer an execution gets to one read.
LEMMA ExecuteAnswerKeeps ==
    ASSUME TypeOK, RedGreenInv, ExecuteAnswer
    PROVE  RedGreenInv'
  <1>1. /\ UNCHANGED <<rev, columns, goal>>
        /\ stack # <<>>
        /\ ret # NoAnswer
        /\ ret' = NoAnswer
        /\ Top.mode = "execute"
    BY DEF ExecuteAnswer
  <1>2. goal # Idle
    BY <1>1 DEF RedGreenInv, CallOK
  <1>3. Stamps' /\ Recorded' /\ InputsSet /\ InputsSet'
    BY <1>1, <1>2, ColumnsKept DEF RedGreenInv, CallOK
  <1>4. /\ Top \in Frame
        /\ Top.node \in Derived
        /\ Top.seen \in Seen
        /\ FrameOK(Top)
    BY <1>1, TopType, FrontFacts DEF RedGreenInv, Frames, Top, TypeOK
  <1>5. /\ Settled(ret.key)
        /\ ret.value = value[ret.key]
        /\ Rank[ret.key] < Rank[Top.node]
        /\ ret.key \in Keys
        /\ ret.value \in Values
    BY <1>1, RetType DEF RedGreenInv, ReturnOK, Answer
  <1> DEFINE s == [k \in DOMAIN Top.seen \cup {ret.key} |->
                      IF k = ret.key THEN ret.value ELSE Top.seen[k]]
             f == [Top EXCEPT !.seen = s]
  <1>6. s \in Seen
    BY <1>4, <1>5, ExtendSeen
  <1>7. f \in Frame /\ f.node = Top.node /\ f.mode = "execute" /\ f.seen = s
    <2> HIDE DEF s
    <2> QED BY <1>1, <1>4, <1>6 DEF Frame
  <1>8. FrameOK(f)
    <2>1. \A d \in DOMAIN s : Settled(d) /\ s[d] = value[d] /\ Rank[d] < Rank[Top.node]
      BY <1>1, <1>4, <1>5 DEF FrameOK, ExecuteFrameOK
    <2> HIDE DEF f, s
    <2> QED
      BY <1>1, <1>4, <1>7, <2>1 DEF FrameOK, ExecuteFrameOK
  <1>9. stack' = SetTop(f)
    BY DEF ExecuteAnswer
  <1>10. Frames' /\ Descending'
    <2> HIDE DEF f
    <2> QED BY <1>1, <1>7, <1>8, <1>9, SetTopKeeps
  <1> QED
    BY <1>1, <1>2, <1>3, <1>10 DEF RedGreenInv, ReturnOK, CallOK

\* A step that writes the columns of the node on top only, and pops it.
LEMMA PopKeeps ==
    ASSUME TypeOK, RedGreenInv, stack # <<>>, rev' = rev, stack' = Pop,
           \A k \in Keys : k # Top.node =>
               /\ state'[k] = state[k]
               /\ value'[k] = value[k]
               /\ verifiedAt'[k] = verifiedAt[k]
               /\ changedAt'[k] = changedAt[k]
               /\ reads'[k] = reads[k]
    PROVE  /\ Frames'
           /\ Descending'
           /\ stack' # <<>> => Rank[Top.node] < Rank[Top'.node]
           /\ InputsSet => InputsSet'
  <1> DEFINE n == Top.node
  <1>1. /\ Len(stack') = Len(stack) - 1
        /\ \A i \in 1..(Len(stack) - 1) : stack'[i] = stack[i]
        /\ Len(stack) \in Nat \ {0}
        /\ stack' \in Seq(Frame)
        /\ \A i \in 1..Len(stack) : stack[i] \in Frame
    <2>1. stack \in Seq(Frame)
      BY DEF TypeOK
    <2> QED BY <2>1, FrontFacts, ElementOfSeq DEF Pop
  <1>2. n \in Derived /\ n \in Keys /\ n \notin Inputs /\ ~UpToDate(n)
    BY <1>1, TopType, KeysAssumption DEF RedGreenInv, Frames, FrameOK, Top
  <1>3. \A k \in Keys : Settled(k) => k # n /\ Settled(k)'
    BY <1>2 DEF Settled, UpToDate
  <1>4. \A i \in 1..(Len(stack) - 1) :
            /\ Rank[n] < Rank[stack[i].node]
            /\ stack[i].node # n
            /\ stack[i].node \in Keys
            /\ stack[i] \in Frame
            /\ FrameOK(stack[i])
    BY <1>1, <1>2, RankAssumption DEF RedGreenInv, Descending, Frames, Top, Frame, Keys
  <1>5. Frames'
    <2> SUFFICES ASSUME NEW i \in 1..(Len(stack) - 1)
                 PROVE  FrameOK(stack[i])'
      BY <1>1 DEF Frames
    <2> DEFINE f == stack[i]
    <2>1. f = stack'[i] /\ f.node \in Keys /\ f.node # n /\ f \in Frame
      BY <1>1, <1>4
    <2>2. FrameOK(f)
      BY <1>4
    <2>3. DOMAIN f.seen \subseteq Keys /\ Deps(f.node) \subseteq Keys
      BY <2>1, SeenProperties DEF Frame, TypeOK, Deps
    <2> HIDE DEF f
    <2>4. ~(state'[f.node] = "Valid" /\ verifiedAt'[f.node] = rev')
      BY <2>1, <2>2 DEF FrameOK, UpToDate
    <2>5. f.mode = "verify" =>
              /\ state'[f.node] = "Valid"
              /\ f.todo \subseteq DOMAIN reads'[f.node]
              /\ \A d \in DOMAIN reads'[f.node] \ f.todo :
                     Settled(d)' /\ changedAt'[d] <= verifiedAt'[f.node]
      BY <1>3, <2>1, <2>2, <2>3 DEF FrameOK, VerifyFrameOK, Deps
    <2>6. f.mode = "execute" =>
              \A d \in DOMAIN f.seen :
                  Settled(d)' /\ f.seen[d] = value'[d] /\ Rank[d] < Rank[f.node]
      BY <1>3, <2>1, <2>2, <2>3 DEF FrameOK, ExecuteFrameOK
    <2> QED
      BY <2>1, <2>4, <2>5, <2>6
      DEF FrameOK, VerifyFrameOK, ExecuteFrameOK, UpToDate, Deps
  <1>6. Descending'
    BY <1>1 DEF RedGreenInv, Descending
  <1>7. stack' # <<>> => Rank[Top.node] < Rank[Top'.node]
    <2>1. stack' # <<>> => Len(stack') \in Nat \ {0}
      BY <1>1, EmptySeq
    <2> QED
      BY <1>1, <1>4, <2>1 DEF Top
  <1>8. InputsSet => InputsSet'
    BY <1>2 DEF InputsSet, Keys
  <1> QED
    BY <1>5, <1>6, <1>7, <1>8

\* Stamping a node green: every dependency is settled, and none changed
\* after the old stamp, so none differs from what the node read.
LEMMA VerifyGreenKeeps ==
    ASSUME TypeOK, RedGreenInv, VerifyGreen
    PROVE  RedGreenInv'
  <1>0. PICK n \in Derived : n = Top.node
    BY TopType DEF VerifyGreen
  <1>1. /\ stack # <<>>
        /\ stack' = Pop
        /\ UNCHANGED <<rev, state, value, changedAt, reads, goal>>
        /\ verifiedAt' = [verifiedAt EXCEPT ![n] = rev]
        /\ ret' = Answer(n)
        /\ ret = NoAnswer
    BY <1>0 DEF VerifyGreen
  <1>2. n \in Derived /\ n \in Keys /\ n \notin Inputs
    BY KeysAssumption DEF Keys
  <1>3. /\ verifiedAt'[n] = rev
        /\ \A k \in Keys : k # n => verifiedAt'[k] = verifiedAt[k]
        /\ \A k \in Keys : verifiedAt[k] <= verifiedAt'[k]
        /\ rev \in Nat
        /\ \A k \in Keys : verifiedAt[k] \in Nat /\ changedAt[k] \in Nat
    BY <1>1, <1>2 DEF TypeOK, RedGreenInv, Stamps
  <1>4. /\ Frames'
        /\ Descending'
        /\ stack' # <<>> => Rank[n] < Rank[Top'.node]
        /\ InputsSet => InputsSet'
    BY <1>0, <1>1, <1>3, PopKeeps
  <1>5. /\ FrameOK(Top)
        /\ Top.mode = "verify"
        /\ Top.todo = {}
    BY <1>1, FrontFacts DEF VerifyGreen, RedGreenInv, Frames, Top, TypeOK
  <1>6. /\ state[n] = "Valid"
        /\ Deps(n) \subseteq Keys
        /\ \A d \in Deps(n) : Settled(d) /\ changedAt[d] <= verifiedAt[n]
    BY <1>0, <1>2, <1>5, SeenProperties DEF FrameOK, VerifyFrameOK, TypeOK, Deps
  <1>7. Stamps'
    BY <1>1, <1>3 DEF RedGreenInv, Stamps
  <1>8. Recorded'
    <2> SUFFICES ASSUME NEW m \in Derived, state[m] = "Valid"
                 PROVE  /\ NextRead(m, reads[m]) = Done
                        /\ value[m] = Result(m, reads[m])
                        /\ \A d \in Deps(m) : RecordedAt(m, d)'
      BY <1>1 DEF Recorded, Deps
    <2>1. /\ NextRead(m, reads[m]) = Done
          /\ value[m] = Result(m, reads[m])
          /\ \A d \in Deps(m) : RecordedAt(m, d)
      BY DEF RedGreenInv, Recorded
    <2>2. m \in Keys /\ Deps(m) \subseteq Keys
      BY SeenProperties DEF TypeOK, Deps, Keys
    <2>3. ASSUME NEW d \in Deps(m), m # n
          PROVE  RecordedAt(m, d)'
      BY <1>1, <1>3, <2>1, <2>2, <2>3 DEF RecordedAt
    <2>4. ASSUME NEW d \in Deps(m), m = n
          PROVE  RecordedAt(m, d)'
      <3>1. Rank[d] < Rank[n] /\ state[d] = "Valid" /\ value[d] = reads[n][d]
        BY <1>6, <2>1, <2>4 DEF RecordedAt
      <3>2. d \in Derived => verifiedAt'[d] = rev
        BY <1>3, <1>6, <2>2, <2>4, KeysAssumption DEF Settled, UpToDate
      <3> QED
        BY <1>1, <1>3, <2>4, <3>1, <3>2 DEF RecordedAt
    <2> QED
      BY <2>1, <2>3, <2>4
  <1>9. ReturnOK'
    <2>1. Answer(n)' = Answer(n) /\ Settled(n)' /\ ret'.key = n
      BY <1>1, <1>2, <1>3, <1>6 DEF Answer, Settled, UpToDate
    <2> QED
      BY <1>1, <1>4, <2>1 DEF ReturnOK, Answer, Settled, UpToDate
  <1>10. CallOK'
    BY <1>1, <1>4 DEF RedGreenInv, CallOK
  <1> QED
    BY <1>4, <1>7, <1>8, <1>9, <1>10 DEF RedGreenInv

\* Committing an execution: what it read is what those nodes still hold, and
\* a node that had read the old value was stamped before this revision.
LEMMA CommitKeeps ==
    ASSUME TypeOK, RedGreenInv, ExecuteCommit
    PROVE  RedGreenInv'
  <1>0. PICK n \in Derived, s \in Seen : n = Top.node /\ s = Top.seen
    BY TopType DEF ExecuteCommit
  <1> DEFINE v == Result(n, s)
  <1>1. /\ stack # <<>>
        /\ stack' = Pop
        /\ UNCHANGED <<rev, goal>>
        /\ ret = NoAnswer
        /\ Top.mode = "execute"
        /\ NextRead(n, s) = Done
    BY <1>0 DEF ExecuteCommit
  <1>2. n \in Derived /\ n \in Keys /\ n \notin Inputs /\ s \in Seen
    BY KeysAssumption DEF Keys
  <1>3. /\ rev \in Nat
        /\ \A k \in Keys : verifiedAt[k] \in Nat /\ changedAt[k] \in Nat
        /\ \A k \in Keys : Rank[k] \in Nat
    BY RankAssumption DEF TypeOK
  <1>4. /\ ~UpToDate(n)
        /\ \A d \in DOMAIN s : Settled(d) /\ s[d] = value[d] /\ Rank[d] < Rank[n]
    BY <1>0, <1>1, FrontFacts DEF RedGreenInv, Frames, FrameOK, ExecuteFrameOK, Top, TypeOK
  <1>5. n \notin DOMAIN s /\ DOMAIN s \subseteq Keys
    BY <1>2, <1>3, <1>4, SeenProperties
  <1>6. [k \in DOMAIN s \ {n} |-> s[k]] = s
    BY <1>2, <1>5, SeenProperties
  <1>7. /\ reads'[n] = s
        /\ verifiedAt'[n] = rev
        /\ value'[n] = v
        /\ changedAt'[n] = IF state[n] # "Valid" \/ value[n] # v THEN rev ELSE changedAt[n]
        /\ state'[n] = "Valid"
        /\ ret' = [key |-> n, value |-> value'[n], changedAt |-> changedAt'[n]]
    BY <1>0, <1>2, <1>6 DEF ExecuteCommit, Commit, TypeOK
  <1>8. \A k \in Keys : k # n =>
            /\ state'[k] = state[k]
            /\ value'[k] = value[k]
            /\ verifiedAt'[k] = verifiedAt[k]
            /\ changedAt'[k] = changedAt[k]
            /\ reads'[k] = reads[k]
    BY <1>0, <1>2 DEF ExecuteCommit, Commit, TypeOK
  <1> HIDE DEF v
  <1>9. /\ Frames'
        /\ Descending'
        /\ stack' # <<>> => Rank[n] < Rank[Top'.node]
        /\ InputsSet => InputsSet'
    BY <1>0, <1>1, <1>8, PopKeeps
  <1>10. Stamps'
    BY <1>1, <1>3, <1>7, <1>8 DEF RedGreenInv, Stamps
  <1>11. Recorded'
    <2> SUFFICES ASSUME NEW m \in Derived, state'[m] = "Valid"
                 PROVE  /\ NextRead(m, reads'[m]) = Done
                        /\ value'[m] = Result(m, reads'[m])
                        /\ \A d \in DOMAIN reads'[m] : RecordedAt(m, d)'
      BY DEF Recorded, Deps
    <2>1. CASE m = n
      <3>1. ASSUME NEW d \in DOMAIN s
            PROVE  RecordedAt(m, d)'
        <4>1. d \in Keys /\ d # n /\ state[d] = "Valid" /\ value'[d] = s[d]
          BY <1>4, <1>5, <1>8 DEF Settled, UpToDate
        <4>2. d \in Derived => verifiedAt'[d] = rev
          BY <1>4, <1>8, <4>1, KeysAssumption DEF Settled, UpToDate
        <4> QED
          BY <1>3, <1>4, <1>7, <1>8, <2>1, <4>1, <4>2 DEF RecordedAt
      <3> QED
        BY <1>1, <1>7, <2>1, <3>1 DEF v
    <2>2. CASE m # n
      <3>1. /\ m \in Keys
            /\ state[m] = "Valid"
            /\ reads'[m] = reads[m]
            /\ Deps(m) \subseteq Keys
        BY <1>8, <2>2, SeenProperties DEF TypeOK, Deps, Keys
      <3>2. /\ NextRead(m, reads[m]) = Done
            /\ value[m] = Result(m, reads[m])
            /\ \A d \in Deps(m) : RecordedAt(m, d)
        BY <3>1 DEF RedGreenInv, Recorded
      <3>3. ASSUME NEW d \in Deps(m), d # n
            PROVE  RecordedAt(m, d)'
        BY <1>8, <2>2, <3>1, <3>2, <3>3 DEF RecordedAt
      <3>4. ASSUME n \in Deps(m)
            PROVE  RecordedAt(m, n)'
        <4>1. /\ Rank[n] < Rank[m]
              /\ state[n] = "Valid"
              /\ verifiedAt[m] <= verifiedAt[n]
              /\ changedAt[n] <= verifiedAt[m] => value[n] = reads[m][n]
          BY <1>2, <3>2, <3>4 DEF RecordedAt
        <4>2. verifiedAt[n] < rev
          BY <1>2, <1>3, <1>4, <4>1 DEF UpToDate, RedGreenInv, Stamps
        <4> QED
          BY <1>2, <1>3, <1>7, <1>8, <2>2, <3>1, <4>1, <4>2 DEF RecordedAt
      <3> QED
        BY <1>8, <2>2, <3>1, <3>2, <3>3, <3>4 DEF Deps
    <2> QED
      BY <2>1, <2>2
  <1>12. ReturnOK'
    BY <1>1, <1>2, <1>7, <1>9 DEF ReturnOK, Answer, Settled, UpToDate
  <1>13. CallOK'
    BY <1>1, <1>9 DEF RedGreenInv, CallOK
  <1> QED
    BY <1>9, <1>10, <1>11, <1>12, <1>13 DEF RedGreenInv

\* An input write: no node was stamped at the new revision, so every node
\* that read this input sees a change stamp above its own.
LEMMA SetInputKeeps ==
    ASSUME TypeOK, RedGreenInv, NEW k \in Inputs, NEW v \in Values, SetInput(k, v)
    PROVE  RedGreenInv'
  <1>1. /\ goal = Idle /\ goal' = Idle
        /\ stack = <<>> /\ stack' = <<>>
        /\ ret = NoAnswer /\ ret' = NoAnswer
        /\ rev' = rev + 1
        /\ reads' = reads
    BY DEF SetInput, RedGreenInv, CallOK
  <1>2. k \in Keys /\ k \notin Derived
    BY KeysAssumption DEF Keys
  <1>3. /\ state'[k] = "Valid"
        /\ changedAt'[k] = rev + 1
        /\ verifiedAt'[k] = rev + 1
        /\ \A j \in Keys : j # k =>
               /\ state'[j] = state[j]
               /\ value'[j] = value[j]
               /\ verifiedAt'[j] = verifiedAt[j]
               /\ changedAt'[j] = changedAt[j]
    BY <1>2 DEF SetInput, TypeOK
  <1>4. /\ rev \in Nat
        /\ \A j \in Keys : /\ verifiedAt[j] \in Nat
                           /\ changedAt[j] \in Nat
                           /\ changedAt[j] <= verifiedAt[j]
                           /\ verifiedAt[j] <= rev
    BY DEF TypeOK, RedGreenInv, Stamps
  <1>5. Stamps'
    BY <1>1, <1>3, <1>4 DEF Stamps
  <1>6. Recorded'
    <2> SUFFICES ASSUME NEW m \in Derived, state'[m] = "Valid"
                 PROVE  /\ NextRead(m, reads[m]) = Done
                        /\ value'[m] = Result(m, reads[m])
                        /\ \A d \in DOMAIN reads[m] : RecordedAt(m, d)'
      BY <1>1 DEF Recorded, Deps
    <2>1. m \in Keys /\ m # k /\ DOMAIN reads[m] \subseteq Keys
      BY <1>2, SeenProperties DEF TypeOK, Keys
    <2>2. /\ state[m] = "Valid"
          /\ value'[m] = value[m]
          /\ verifiedAt'[m] = verifiedAt[m]
      BY <1>3, <2>1
    <2>3. /\ NextRead(m, reads[m]) = Done
          /\ value[m] = Result(m, reads[m])
          /\ \A d \in DOMAIN reads[m] : RecordedAt(m, d)
      BY <2>2 DEF RedGreenInv, Recorded, Deps
    <2>4. ASSUME NEW d \in DOMAIN reads[m]
          PROVE  RecordedAt(m, d)'
      BY <1>1, <1>2, <1>3, <1>4, <2>1, <2>2, <2>3 DEF RecordedAt
    <2> QED
      BY <2>2, <2>3, <2>4
  <1> QED
    BY <1>1, <1>5, <1>6, EmptyStackKeeps DEF RedGreenInv, ReturnOK, CallOK

\* is_red starts a verification walk on an empty stack.
LEMMA IsRedKeeps ==
    ASSUME TypeOK, RedGreenInv, NEW k \in Derived, IsRed(k)
    PROVE  RedGreenInv'
  <1>1. /\ UNCHANGED <<rev, columns>>
        /\ goal = Idle
        /\ InputsSet
        /\ stack = <<>>
        /\ ret = NoAnswer /\ ret' = NoAnswer
    BY DEF IsRed, RedGreenInv, CallOK
  <1>2. Stamps' /\ Recorded' /\ InputsSet'
    BY <1>1, ColumnsKept DEF RedGreenInv
  <1>3. CASE stack' = stack /\ goal' = goal
    BY <1>1, <1>2, <1>3, EmptyStackKeeps DEF RedGreenInv, ReturnOK, CallOK
  <1>4. CASE /\ state[k] = "Valid"
             /\ verifiedAt[k] # rev
             /\ goal' = [op |-> "is_red", key |-> k]
             /\ stack' = Push(VerifyFrame(k, Deps(k)))
    <2>1. VerifyFrame(k, Deps(k)) \in Frame
      BY FrameTypes, SeenProperties DEF TypeOK, Deps, Keys
    <2>2. FrameOK(VerifyFrame(k, Deps(k)))
      BY <1>4 DEF FrameOK, VerifyFrameOK, VerifyFrame, UpToDate
    <2>3. 1..Len(stack) = {}
      BY <1>1, EmptySeq
    <2>4. Frames' /\ Descending'
      BY <1>1, <1>4, <2>1, <2>2, <2>3, PushKeeps
    <2>5. goal' # Idle
      BY <1>4 DEF Idle
    <2> QED
      BY <1>1, <1>2, <2>4, <2>5 DEF RedGreenInv, ReturnOK, CallOK
  <1> QED
    BY <1>3, <1>4 DEF IsRed

\* The red-green invariant is inductive.
LEMMA RedGreenStep ==
    ASSUME TypeOK, RedGreenInv, [Next]_vars
    PROVE  RedGreenInv'
  <1>1. CASE Pull
    BY <1>1, PullKeeps
  <1>2. CASE VerifyAnswer
    BY <1>2, VerifyAnswerKeeps
  <1>3. CASE VerifyGreen
    BY <1>3, VerifyGreenKeeps
  <1>4. CASE ExecuteAnswer
    BY <1>4, ExecuteAnswerKeeps
  <1>5. CASE ExecuteCommit
    BY <1>5, CommitKeeps
  <1>6. ASSUME NEW k \in Inputs, NEW v \in Values, SetInput(k, v)
        PROVE  RedGreenInv'
    BY <1>6, SetInputKeeps
  <1>7. ASSUME NEW k \in Derived, IsRed(k)
        PROVE  RedGreenInv'
    BY <1>7, IsRedKeeps
  <1>8. ASSUME NEW k \in Derived, Demand(k)
        PROVE  RedGreenInv'
    <2>1. /\ UNCHANGED <<rev, columns, stack, ret>>
          /\ stack = <<>>
          /\ ret = NoAnswer
          /\ InputsSet
      BY <1>8 DEF Demand, RedGreenInv, CallOK
    <2>2. Stamps' /\ Recorded' /\ InputsSet'
      BY <2>1, ColumnsKept DEF RedGreenInv
    <2> QED
      BY <2>1, <2>2, EmptyStackKeeps DEF RedGreenInv, ReturnOK, CallOK
  <1>9. CASE Return
    <2>1. /\ UNCHANGED <<rev, columns, stack>>
          /\ stack = <<>>
          /\ ret' = NoAnswer
          /\ goal' = Idle
      BY <1>9 DEF Return
    <2>2. Stamps' /\ Recorded'
      BY <2>1, ColumnsKept DEF RedGreenInv
    <2> QED
      BY <2>1, <2>2, EmptyStackKeeps DEF RedGreenInv, ReturnOK, CallOK
  <1>10. CASE Cancel \/ Reset \/ UNCHANGED vars
    <2>1. UNCHANGED <<rev, columns, stack, ret, goal>>
      BY <1>10 DEF Cancel, Reset, vars
    <2>2. Stamps' /\ Recorded' /\ (InputsSet => InputsSet')
      BY <2>1, ColumnsKept DEF RedGreenInv
    <2>3. Frames' /\ Descending'
      BY <2>1, ColumnsKept DEF RedGreenInv, Frames, Descending
    <2>4. ReturnOK' /\ CallOK'
      BY <2>1, <2>2 DEF RedGreenInv, ReturnOK, CallOK, Settled, UpToDate, Answer, Top, columns
    <2> QED
      BY <2>2, <2>3, <2>4 DEF RedGreenInv
  <1> QED
    BY <1>1, <1>2, <1>3, <1>4, <1>5, <1>6, <1>7, <1>8, <1>9, <1>10
    DEF Next, Engine, Owner

\* A new database satisfies it (Db::new).
LEMMA RedGreenInit == Init => RedGreenInv
  <1> HAVE Init
  <1>1. Stamps /\ Recorded /\ CallOK /\ ReturnOK
    BY ValuesAssumption DEF Init, Stamps, Recorded, CallOK, ReturnOK, Keys
  <1>2. Len(stack) = 0
    BY EmptySeq DEF Init
  <1> QED
    BY <1>1, <1>2 DEF RedGreenInv, Frames, Descending

\* The red-green invariant holds throughout (db.rs: pull, verify, execute).
THEOREM RedGreen == Spec => []RedGreenInv
  <1>1. TypeOK /\ RedGreenInv /\ [Next]_vars => RedGreenInv'
    BY RedGreenStep
  <1> QED
    BY <1>1, RedGreenInit, TypeCorrect, PTL DEF Spec

\* A node stamped at the current revision holds what compute returns on the
\* present values of its recorded dependencies, all of them up to date, in
\* every reachable state: after any edits, probes and cancelled demands, and
\* in the middle of a demand (db.rs: the early returns of pull and verify).
THEOREM MemoIsConsistent == Spec => []MemoConsistent
  <1>1. TypeOK /\ RedGreenInv => MemoConsistent
    <2> SUFFICES ASSUME TypeOK, RedGreenInv, NEW n \in Derived, UpToDate(n)
                 PROVE  /\ NextRead(n, Current(n)) = Done
                        /\ value[n] = Result(n, Current(n))
                        /\ \A d \in Deps(n) \cap Derived : UpToDate(d)
      BY DEF MemoConsistent
    <2>1. /\ n \in Keys
          /\ Deps(n) \subseteq Keys
          /\ reads[n] \in [Deps(n) -> Values]
      BY SeenProperties DEF TypeOK, Deps, Keys
    <2>2. /\ rev \in Nat
          /\ \A j \in Keys : /\ verifiedAt[j] \in Nat
                             /\ changedAt[j] \in Nat
                             /\ changedAt[j] <= rev
                             /\ verifiedAt[j] <= rev
      BY DEF TypeOK, RedGreenInv, Stamps
    <2>3. /\ NextRead(n, reads[n]) = Done
          /\ value[n] = Result(n, reads[n])
          /\ \A d \in Deps(n) : RecordedAt(n, d)
      BY DEF RedGreenInv, Recorded, UpToDate
    <2>4. \A d \in Deps(n) : value[d] = reads[n][d]
      BY <2>1, <2>2, <2>3 DEF RecordedAt, UpToDate
    <2>5. Current(n) = reads[n]
      BY <2>1, <2>4 DEF Current
    <2>6. \A d \in Deps(n) \cap Derived : UpToDate(d)
      BY <2>1, <2>2, <2>3 DEF RecordedAt, UpToDate
    <2> QED
      BY <2>3, <2>5, <2>6
  <1> QED
    BY <1>1, TypeCorrect, RedGreen, PTL

\* A query set with well-founded reads never sees a recovery value, whatever
\* the order of its nodes' ids and whatever changed between two demands
\* (db.rs: the in-flight scan of pull never succeeds).
THEOREM RecoveryUnreachable == Spec => []NeverRecovers
  <1>1. TypeOK /\ RedGreenInv => NeverRecovers
    BY AskNotInFlight DEF NeverRecovers
  <1> QED
    BY <1>1, TypeCorrect, RedGreen, PTL

-----------------------------------------------------------------------------
(***************************************************************************)
(* What is planned red                                                     *)
(***************************************************************************)

\* k was never computed, or something it read is settled in this revision and
\* has changed since k was last found up to date.
Outdated(k) == state[k] = "Empty" \/ \E d \in Deps(k) : Settled(d) /\ changedAt[d] > verifiedAt[k]
PlannedInv == \A k \in planned : Outdated(k)

\* A node whose walk has ended green was not outdated.
LEMMA GreenIsNotOutdated ==
    ASSUME TypeOK, RedGreenInv, stack # <<>>, Top.mode = "verify", Top.todo = {}
    PROVE  ~Outdated(Top.node)
  <1>1. /\ FrameOK(Top)
        /\ Top.node \in Keys
    BY TopType, FrontFacts DEF RedGreenInv, Frames, Top, TypeOK
  <1>2. Deps(Top.node) \subseteq Keys
    BY <1>1, SeenProperties DEF TypeOK, Deps
  <1> QED
    BY <1>1, <1>2 DEF FrameOK, VerifyFrameOK, Outdated, TypeOK

\* Committing or re-stamping the node on top leaves the others outdated: what
\* has changed under them is settled, so it is not that node.
LEMMA OthersStayOutdated ==
    ASSUME TypeOK, RedGreenInv, stack # <<>>, rev' = rev,
           \A j \in Keys : j # Top.node =>
               /\ state'[j] = state[j]
               /\ verifiedAt'[j] = verifiedAt[j]
               /\ changedAt'[j] = changedAt[j]
               /\ reads'[j] = reads[j],
           NEW k \in Derived, k # Top.node, Outdated(k)
    PROVE  Outdated(k)'
  <1>1. /\ FrameOK(Top)
        /\ Top.node \in Derived /\ Top.node \notin Inputs
    BY TopType, FrontFacts, KeysAssumption DEF RedGreenInv, Frames, Top, TypeOK
  <1>2. k \in Keys /\ Deps(k) \subseteq Keys /\ Deps(k)' = Deps(k)
    BY SeenProperties DEF TypeOK, Deps, Keys
  <1>3. \A d \in Deps(k) : Settled(d) => d # Top.node
    BY <1>1 DEF FrameOK, Settled
  <1>4. \A d \in Deps(k) : Settled(d) => Settled(d)' /\ changedAt'[d] = changedAt[d]
    BY <1>2, <1>3 DEF Settled, UpToDate
  <1> QED
    BY <1>2, <1>4 DEF Outdated

\* Every step keeps what was planned outdated (is_red; set_input starts a new
\* revision and with it a new plan).
LEMMA PlannedStep ==
    ASSUME TypeOK, RedGreenInv, StackInv, PlannedInv, [Next]_vars
    PROVE  PlannedInv'
  <1>1. CASE UNCHANGED <<rev, columns>> /\ planned' \subseteq planned
    BY <1>1 DEF PlannedInv, Outdated, Settled, UpToDate, Deps, columns
  <1>2. CASE VerifyAnswer
    <2>1. /\ stack # <<>> /\ ret # NoAnswer /\ Top.mode = "verify"
          /\ UNCHANGED <<rev, columns>>
          /\ planned' \subseteq planned \cup {Top.node}
          /\ Top.node \in planned' => Top.node \in planned \/ ret.changedAt > verifiedAt[Top.node]
      <3>1. Top.node \in Keys /\ ret.changedAt \in Nat /\ verifiedAt[Top.node] \in Nat
        BY <1>2, TopType, RetType DEF VerifyAnswer, TypeOK
      <3> QED
        BY <1>2, <3>1 DEF VerifyAnswer, Answered, AskNext, Dirty
    <2>2. Settled(ret.key) /\ ret.changedAt = changedAt[ret.key] /\ ret.key \in Deps(Top.node)
      <3>1. FrameOK(Top)
        BY <2>1, FrontFacts DEF RedGreenInv, Frames, Top, TypeOK
      <3>2. ret.key \in Top.todo
        BY <2>1 DEF StackInv, Asked, Awaits
      <3> QED
        BY <2>1, <3>1, <3>2 DEF FrameOK, VerifyFrameOK, RedGreenInv, ReturnOK, Answer
    <2>3. \A k \in planned' : Outdated(k)
      BY <2>1, <2>2 DEF PlannedInv, Outdated
    <2> QED
      BY <2>1, <2>3 DEF PlannedInv, Outdated, Settled, UpToDate, Deps, columns
  <1>3. CASE VerifyGreen
    <2>1. /\ stack # <<>> /\ Top.mode = "verify" /\ Top.todo = {} /\ planned' = planned /\ Top.node \in Keys
          /\ UNCHANGED <<rev, state, changedAt, reads>>
          /\ verifiedAt' = [verifiedAt EXCEPT ![Top.node] = rev]
      BY <1>3, TopType DEF VerifyGreen
    <2>2. \A k \in planned : k \in Derived /\ k \in Keys /\ Outdated(k) /\ k # Top.node
      BY <2>1, GreenIsNotOutdated DEF PlannedInv, TypeOK, Keys
    <2>3. \A j \in Keys : j # Top.node => verifiedAt'[j] = verifiedAt[j]
      BY <2>1 DEF TypeOK
    <2>4. ASSUME NEW k \in planned PROVE Outdated(k)'
      BY <2>1, <2>2, <2>3, OthersStayOutdated
    <2> QED
      BY <2>1, <2>4 DEF PlannedInv
  <1>4. CASE ExecuteCommit
    <2>1. stack # <<>> /\ planned' = planned \ {Top.node} /\ rev' = rev /\ Top.node \in Keys
      BY <1>4, TopType DEF ExecuteCommit
    <2>2. \A k \in planned' : k \in Derived /\ k \in Keys /\ Outdated(k) /\ k # Top.node
      BY <2>1 DEF PlannedInv, TypeOK, Keys
    <2>3. \A j \in Keys : j # Top.node =>
              /\ state'[j] = state[j]
              /\ verifiedAt'[j] = verifiedAt[j]
              /\ changedAt'[j] = changedAt[j]
              /\ reads'[j] = reads[j]
      BY <1>4, <2>1 DEF ExecuteCommit, Commit, TypeOK
    <2>4. ASSUME NEW k \in planned' PROVE Outdated(k)'
      BY <2>1, <2>2, <2>3, OthersStayOutdated
    <2> QED
      BY <2>4 DEF PlannedInv
  <1>5. ASSUME NEW k \in Inputs, NEW v \in Values, SetInput(k, v)
        PROVE  PlannedInv'
    BY <1>5 DEF SetInput, PlannedInv
  <1>6. ASSUME NEW k \in Derived, IsRed(k)
        PROVE  PlannedInv'
    <2>1. UNCHANGED <<rev, columns>> /\ planned' \subseteq planned \cup {k} /\ (k \in planned' => k \in planned \/ Outdated(k))
      BY <1>6 DEF IsRed, Outdated
    <2> QED
      BY <2>1 DEF PlannedInv, Outdated, Settled, UpToDate, Deps, columns
  <1>7. CASE Pull
    BY <1>7, <1>1 DEF Pull, PullCancelled, PullInput, PullMemo, PullCycle, PullVerify, PullExecute
  <1>8. CASE ExecuteAnswer \/ Return \/ Cancel \/ Reset \/ (\E k \in Derived : Demand(k)) \/ UNCHANGED vars
    BY <1>8, <1>1 DEF ExecuteAnswer, Return, Cancel, Reset, Demand, vars
  <1> QED
    BY <1>2, <1>3, <1>4, <1>5, <1>6, <1>7, <1>8 DEF Next, Engine, Owner

\* A node reported red stays outdated for the rest of its revision, or is
\* executed (db.rs: is_red, verify).
THEOREM PlannedStayOutdated == Spec => []PlannedInv
  <1>1. Init => PlannedInv
    BY DEF Init, PlannedInv
  <1>2. TypeOK /\ RedGreenInv /\ StackInv /\ PlannedInv /\ [Next]_vars => PlannedInv'
    BY PlannedStep
  <1> QED
    BY <1>1, <1>2, TypeCorrect, RedGreen, StackInvariant, PTL DEF Spec

\* What is_red planned is not re-stamped without being executed, whatever else
\* was verified, demanded or cancelled since the plan was made.
THEOREM PlannedAreExecuted == Spec => PlannedRedIsExecuted
  <1> DEFINE Executes == \A k \in planned : verifiedAt'[k] # verifiedAt[k] => Top.mode = "execute"
  <1>1. TypeOK /\ RedGreenInv /\ PlannedInv /\ [Next]_vars => [Executes]_vars
    <2> SUFFICES ASSUME TypeOK, RedGreenInv, PlannedInv, Next,
                        NEW k \in planned, verifiedAt'[k] # verifiedAt[k]
                 PROVE  Top.mode = "execute"
      BY DEF Executes
    <2>1. k \in Derived /\ k \in Keys /\ k \notin Inputs
      BY KeysAssumption DEF TypeOK, Keys
    <2>2. CASE VerifyGreen
      <3>1. Top.node = k
        BY <2>1, <2>2 DEF VerifyGreen, TypeOK
      <3> QED
        BY <2>2, <3>1, GreenIsNotOutdated DEF VerifyGreen, PlannedInv
    <2>3. CASE ExecuteCommit
      BY <2>3 DEF ExecuteCommit
    <2>4. ASSUME NEW j \in Inputs, NEW v \in Values, SetInput(j, v)
          PROVE  FALSE
      BY <2>1, <2>4 DEF SetInput, TypeOK
    <2>5. CASE Pull \/ VerifyAnswer \/ ExecuteAnswer \/ Return \/ Cancel \/ Reset
               \/ \E j \in Derived : Demand(j) \/ IsRed(j)
      BY <2>5 DEF Pull, PullCancelled, PullInput, PullMemo, PullCycle, PullVerify, PullExecute, VerifyAnswer,
                  ExecuteAnswer, Return, Cancel, Reset, Demand, IsRed, columns
    <2> QED
      BY <2>2, <2>3, <2>4, <2>5 DEF Next, Engine, Owner
  <1>2. Spec => [][Executes]_vars
    BY <1>1, TypeCorrect, RedGreen, PlannedStayOutdated, PTL DEF Spec
  <1> QED
    BY <1>2 DEF PlannedRedIsExecuted

-----------------------------------------------------------------------------
(***************************************************************************)
(* What has been read, in order                                            *)
(***************************************************************************)

\* s is what compute(n) has been given so far, key after key.
WasRead(n, s) ==
    \E m \in Nat : \E place \in [DOMAIN s -> Nat] :
        /\ \A d \in DOMAIN s : place[d] < m
        /\ ReadInOrder(n, s, DOMAIN s, place)

MemosRead == \A n \in Derived : state[n] = "Valid" => WasRead(n, reads[n])
FramesRead == \A i \in 1..Len(stack) : stack[i].mode = "execute" => WasRead(stack[i].node, stack[i].seen)
ReadInv == MemosRead /\ FramesRead

\* At the start of compute nothing has been read.
LEMMA NothingRead == \A n : WasRead(n, EmptySeen)
  <1> SUFFICES ASSUME NEW n PROVE WasRead(n, EmptySeen)
    OBVIOUS
  <1>1. DOMAIN EmptySeen = {} /\ [d \in {} |-> 0] \in [DOMAIN EmptySeen -> Nat]
    BY DEF EmptySeen
  <1> QED
    BY <1>1 DEF WasRead, ReadInOrder

\* Each read is put behind those before it.
LEMMA ReadOneMore ==
    ASSUME NEW n \in Derived, NEW s \in Seen, NEW v \in Values, NEW k \in Keys,
           k = NextRead(n, s), WasRead(n, s)
    PROVE  WasRead(n, [j \in DOMAIN s \cup {k} |-> IF j = k THEN v ELSE s[j]])
  <1> DEFINE t == [j \in DOMAIN s \cup {k} |-> IF j = k THEN v ELSE s[j]]
  <1>1. k \notin DOMAIN s
    BY QueriesAssumption, KeysAssumption
  <1>2. PICK m \in Nat, place \in [DOMAIN s -> Nat] :
            (\A d \in DOMAIN s : place[d] < m) /\ ReadInOrder(n, s, DOMAIN s, place)
    BY DEF WasRead
  <1> DEFINE q == [j \in DOMAIN s \cup {k} |-> IF j = k THEN m ELSE place[j]]
  <1>3. /\ q \in [DOMAIN t -> Nat] /\ DOMAIN t = DOMAIN s \cup {k}
        /\ q[k] = m /\ \A d \in DOMAIN s : q[d] = place[d] /\ t[d] = s[d]
    BY <1>1, <1>2
  <1> HIDE DEF t, q
  <1>4. \A d \in DOMAIN t : q[d] < m + 1
    BY <1>2, <1>3
  <1>5. ASSUME NEW d \in DOMAIN t
        PROVE  d = NextRead(n, Given(t, Before(DOMAIN t, q, d)))
    <2>1. CASE d = k
      <3>1. Before(DOMAIN t, q, d) = DOMAIN s
        BY <1>1, <1>2, <1>3, <2>1 DEF Before
      <3>2. Given(t, DOMAIN s) = s
        BY <1>3, SeenProperties DEF Given
      <3> QED
        BY <2>1, <3>1, <3>2
    <2>2. CASE d # k
      <3>1. d \in DOMAIN s /\ Before(DOMAIN t, q, d) = Before(DOMAIN s, place, d)
        BY <1>1, <1>2, <1>3, <2>2 DEF Before
      <3>2. Given(t, Before(DOMAIN s, place, d)) = Given(s, Before(DOMAIN s, place, d))
        BY <1>3 DEF Given, Before
      <3> QED
        BY <1>2, <3>1, <3>2 DEF ReadInOrder
    <2> QED BY <2>1, <2>2
  <1>6. WasRead(n, t)
    <2>1. ReadInOrder(n, t, DOMAIN t, q)
      BY <1>5 DEF ReadInOrder
    <2>2. m + 1 \in Nat
      OBVIOUS
    <2> QED
      BY <1>3, <1>4, <2>1, <2>2, Zenon DEF WasRead
  <1> QED
    BY <1>6 DEF t

\* Every step keeps it: a read is appended to what its frame has seen, and a
\* commit records what the frame has seen.
LEMMA ReadStep ==
    ASSUME TypeOK, RedGreenInv, StackInv, ReadInv, [Next]_vars
    PROVE  ReadInv'
  <1>0. stack \in Seq(Frame)
    BY DEF TypeOK
  <1>1. ASSUME UNCHANGED <<state, reads>>
        PROVE  MemosRead'
    BY <1>1 DEF ReadInv, MemosRead
  <1>2. ASSUME stack' = stack \/ stack' = <<>>
        PROVE  FramesRead'
    <2>1. Len(<<>>) = 0
      BY EmptySeq
    <2> QED
      BY <1>2, <2>1 DEF ReadInv, FramesRead
  <1>3. ASSUME NEW f \in Frame, f.mode = "execute" => WasRead(f.node, f.seen), stack' = Push(f)
        PROVE  FramesRead'
    BY <1>0, <1>3, PushFacts DEF ReadInv, FramesRead, Push
  <1>4. ASSUME stack # <<>>, NEW f \in Frame, f.mode = "execute" => WasRead(f.node, f.seen), stack' = SetTop(f)
        PROVE  FramesRead'
    <2>1. /\ Len(stack') = Len(stack)
          /\ \A i \in 1..(Len(stack) - 1) : stack'[i] = stack[i]
          /\ stack'[Len(stack)] = f
          /\ Len(stack) \in Nat \ {0}
      BY <1>0, <1>4, SetLastFacts, FrontFacts DEF SetTop
    <2> QED
      BY <1>4, <2>1 DEF ReadInv, FramesRead
  <1>5. ASSUME stack # <<>>, stack' = Pop
        PROVE  FramesRead'
    BY <1>0, <1>5, FrontFacts DEF ReadInv, FramesRead, Pop
  <1>6. ASSUME stack # <<>>
        PROVE  Top \in Frame /\ Top.node \in Derived /\ Top.seen \in Seen
               /\ (Top.mode = "execute" => WasRead(Top.node, Top.seen))
    BY <1>0, <1>6, TopType, FrontFacts DEF ReadInv, FramesRead, Top
  <1>7. \A n \in Derived, D \in SUBSET Keys :
            /\ VerifyFrame(n, D) \in Frame /\ VerifyFrame(n, D).mode = "verify"
            /\ ExecuteFrame(n) \in Frame /\ WasRead(ExecuteFrame(n).node, ExecuteFrame(n).seen)
    BY FrameTypes, NothingRead DEF VerifyFrame, ExecuteFrame
  <1>8. \A n \in Derived : Deps(n) \in SUBSET Keys
    BY SeenProperties DEF TypeOK, Deps, Keys
  <1>9. CASE Pull
    <2>1. PICK k \in Keys : \/ PullCancelled(k) \/ PullInput(k) \/ PullMemo(k)
                            \/ PullCycle(k) \/ PullVerify(k) \/ PullExecute(k)
      BY <1>9 DEF Pull
    <2>2. UNCHANGED <<state, reads>>
      BY <2>1 DEF PullCancelled, PullInput, PullMemo, PullCycle, PullVerify, PullExecute, columns
    <2>3. CASE stack' = stack \/ stack' = <<>>
      BY <1>1, <1>2, <2>2, <2>3 DEF ReadInv
    <2>4. CASE PullVerify(k) \/ PullExecute(k)
      BY <1>1, <1>3, <1>7, <1>8, <2>2, <2>4 DEF ReadInv, PullVerify, PullExecute
    <2> QED
      BY <2>1, <2>3, <2>4 DEF PullCancelled, PullInput, PullMemo, PullCycle
  <1>10. CASE VerifyAnswer
    <2>1. stack # <<>> /\ Top.mode = "verify" /\ UNCHANGED <<state, reads>>
      BY <1>10 DEF VerifyAnswer, columns
    <2>2. CASE stack' = <<>>
      BY <1>1, <1>2, <2>1, <2>2 DEF ReadInv
    <2>3. CASE stack' = SetTop([Top EXCEPT !.todo = @ \ {ret.key}])
      <3> DEFINE f == [Top EXCEPT !.todo = @ \ {ret.key}]
      <3>1. f \in Frame /\ f.mode # "execute"
        BY <1>6, <2>1 DEF Frame
      <3> HIDE DEF f
      <3>2. stack' = SetTop(f)
        BY <2>3 DEF f
      <3> QED
        BY <1>1, <1>4, <2>1, <3>1, <3>2 DEF ReadInv
    <2>4. CASE stack' = SetTop(ExecuteFrame(Top.node))
      BY <1>1, <1>4, <1>6, <1>7, <2>1, <2>4 DEF ReadInv
    <2> QED
      BY <1>10, <2>2, <2>3, <2>4 DEF VerifyAnswer, Answered, AskNext, Dirty
  <1>11. CASE VerifyGreen
    BY <1>1, <1>5, <1>11 DEF VerifyGreen, ReadInv
  <1>12. CASE ExecuteAnswer
    <2> DEFINE t == [k \in DOMAIN Top.seen \cup {ret.key} |-> IF k = ret.key THEN ret.value ELSE Top.seen[k]]
               f == [Top EXCEPT !.seen = t]
    <2>1. stack # <<>> /\ ret # NoAnswer /\ Top.mode = "execute" /\ UNCHANGED <<state, reads>> /\ stack' = SetTop(f)
      BY <1>12 DEF ExecuteAnswer, columns
    <2>2. ret.key \in Keys /\ ret.value \in Values /\ ret.key = NextRead(Top.node, Top.seen)
      BY <2>1, RetType DEF StackInv, Asked, Awaits
    <2>3. t \in Seen /\ WasRead(Top.node, t)
      BY <1>6, <2>1, <2>2, ExtendSeen, ReadOneMore
    <2>4. f \in Frame /\ WasRead(f.node, f.seen)
      <3> HIDE DEF t
      <3> QED BY <1>6, <2>1, <2>3 DEF Frame
    <2> HIDE DEF f
    <2> QED
      BY <1>1, <1>4, <2>1, <2>4 DEF ReadInv
  <1>13. CASE ExecuteCommit
    <2>1. stack # <<>> /\ stack' = Pop /\ Top.mode = "execute" /\ Top.node \in Keys
      BY <1>13, TopType DEF ExecuteCommit
    <2>2. FramesRead'
      BY <1>5, <2>1
    <2>3. \A n \in Derived : n # Top.node => state'[n] = state[n] /\ reads'[n] = reads[n]
      BY <1>13 DEF ExecuteCommit, Commit, TypeOK, Keys
    <2>4. reads'[Top.node] = Top.seen
      <3>1. FrameOK(Top)
        BY <2>1, FrontFacts DEF RedGreenInv, Frames, Top, TypeOK
      <3>2. Top.node \notin DOMAIN Top.seen
        BY <1>6, <2>1, <3>1, RankAssumption DEF FrameOK, ExecuteFrameOK
      <3>3. [k \in DOMAIN Top.seen \ {Top.node} |-> Top.seen[k]] = Top.seen
        BY <1>6, <2>1, <3>2, SeenProperties
      <3> QED
        BY <1>13, <2>1, <3>3 DEF ExecuteCommit, Commit, TypeOK
    <2>5. MemosRead'
      BY <1>6, <2>1, <2>3, <2>4 DEF ReadInv, MemosRead
    <2> QED
      BY <2>2, <2>5 DEF ReadInv
  <1>14. ASSUME NEW k \in Inputs, NEW v \in Values, SetInput(k, v)
         PROVE  ReadInv'
    <2>1. \A n \in Derived : state'[n] = state[n] /\ reads'[n] = reads[n]
      BY <1>14, KeysAssumption DEF SetInput, TypeOK, Keys
    <2>2. stack' = stack
      BY <1>14 DEF SetInput
    <2> QED
      BY <1>2, <2>1, <2>2 DEF ReadInv, MemosRead
  <1>15. ASSUME NEW k \in Derived, IsRed(k)
         PROVE  ReadInv'
    <2>1. UNCHANGED <<state, reads>>
      BY <1>15 DEF IsRed, columns
    <2>2. stack' = stack \/ stack' = Push(VerifyFrame(k, Deps(k)))
      BY <1>15 DEF IsRed
    <2> QED
      BY <1>1, <1>2, <1>3, <1>7, <1>8, <2>1, <2>2 DEF ReadInv
  <1>16. CASE Return \/ Cancel \/ Reset \/ (\E k \in Derived : Demand(k)) \/ UNCHANGED vars
    <2>1. UNCHANGED <<state, reads, stack>>
      BY <1>16 DEF Return, Cancel, Reset, Demand, vars, columns
    <2> QED
      BY <1>1, <1>2, <2>1 DEF ReadInv
  <1> QED
    BY <1>9, <1>10, <1>11, <1>12, <1>13, <1>14, <1>15, <1>16 DEF Next, Engine, Owner

\* What a memo records is what one run of compute read, in its order (db.rs:
\* execute, which replaces the whole list of dependencies).
THEOREM MemosAreReadings == Spec => []ReadInv
  <1>1. Init => ReadInv
    <2> SUFFICES ASSUME Init PROVE ReadInv
      OBVIOUS
    <2>1. Len(stack) = 0
      BY EmptySeq DEF Init
    <2> QED
      BY <2>1 DEF Init, ReadInv, MemosRead, FramesRead, Keys
  <1>2. TypeOK /\ RedGreenInv /\ StackInv /\ ReadInv /\ [Next]_vars => ReadInv'
    BY ReadStep
  <1> QED
    BY <1>1, <1>2, TypeCorrect, RedGreen, StackInvariant, PTL DEF Spec

-----------------------------------------------------------------------------
(***************************************************************************)
(* Incremental equals cold                                                 *)
(***************************************************************************)

\* A non-empty set has a member with the least of any natural measure.
LEMMA LeastMember ==
    ASSUME NEW S, S # {}, NEW f, \A a \in S : f[a] \in Nat
    PROVE  \E a \in S : \A b \in S : f[a] <= f[b]
  <1> DEFINE T == {f[a] : a \in S}
  <1>1. T \subseteq Nat /\ T # {}
    OBVIOUS
  <1>2. PICK i \in T : \A j \in T : ~(<<j, i>> \in OpToRel(<, Nat))
    <2> HIDE DEF T
    <2> QED
      BY <1>1, WFMin, NatLessThanWellFounded
  <1>3. \A j \in T : ~(j < i)
    BY <1>1, <1>2 DEF OpToRel
  <1>4. PICK a \in S : i = f[a]
    BY <1>2
  <1>5. ASSUME NEW b \in S PROVE f[a] <= f[b]
    <2>1. f[b] \in T /\ f[a] \in Nat /\ f[b] \in Nat
      OBVIOUS
    <2> HIDE DEF T
    <2> QED
      BY <1>3, <1>4, <2>1
  <1> QED
    BY <1>5

\* Two readings of one assignment do not part: what one reads, another that is
\* complete reads too, and at the same point.
LEMMA ReadingsAgree ==
    ASSUME NEW n \in Derived, NEW C \in [Keys -> Values],
           NEW D \in SUBSET Keys, NEW p \in [D -> Nat], ReadInOrder(n, C, D, p),
           NEW E \in SUBSET Keys, NEW q \in [E -> Nat], ReadInOrder(n, C, E, q),
           NextRead(n, Given(C, E)) = Done
    PROVE  D \subseteq E
  <1> DEFINE Same(d) == d \in E /\ Before(D, p, d) = Before(E, q, d)
             Odd == {d \in D : ~Same(d)}
  <1>1. ASSUME Odd # {} PROVE FALSE
    <2>1. PICK d \in Odd : \A e \in Odd : p[d] <= p[e]
      <3> HIDE DEF Odd
      <3>1. \A e \in Odd : p[e] \in Nat
        BY DEF Odd
      <3> QED
        BY <1>1, <3>1, LeastMember
    <2> DEFINE B == Before(D, p, d)
    <2>2. B \subseteq D /\ (\A e \in B : Same(e)) /\ d = NextRead(n, Given(C, B)) /\ d \notin B
      BY <2>1 DEF Before, ReadInOrder
    <2>3. \A e \in B, g \in E : q[g] < q[e] => g \in B
      <3> SUFFICES ASSUME NEW e \in B, NEW g \in E, q[g] < q[e] PROVE g \in B
        OBVIOUS
      <3>1. g \in Before(D, p, e)
        BY <2>2 DEF Before
      <3> QED
        BY <2>1, <3>1 DEF Before
    <2>4. E \ B # {}
      <3>1. B \subseteq E
        BY <2>2
      <3>2. B # E
        BY <2>1, <2>2, KeysAssumption
      <3> QED
        BY <3>1, <3>2
    <2>5. PICK g \in E \ B : \A h \in E \ B : q[g] <= q[h]
      <3> DEFINE R == E \ B
      <3>1. R # {} /\ \A h \in R : q[h] \in Nat
        BY <2>4
      <3> HIDE DEF R
      <3>2. \E g \in R : \A h \in R : q[g] <= q[h]
        BY <3>1, LeastMember
      <3> QED
        BY <3>2 DEF R
    <2>6. Before(E, q, g) = B
      <3>1. ASSUME NEW h \in E, q[h] < q[g] PROVE h \in B
        BY <2>5, <3>1
      <3>2. ASSUME NEW e \in B PROVE e \in E /\ q[e] < q[g]
        <4>1. e \in E /\ Before(D, p, e) = Before(E, q, e)
          BY <2>2
        <4>2. ~(q[g] < q[e])
          BY <2>3, <2>5
        <4>3. q[g] # q[e]
          <5> SUFFICES ASSUME q[g] = q[e] PROVE FALSE
            OBVIOUS
          <5>1. Before(E, q, g) = Before(E, q, e)
            BY DEF Before
          <5>2. g = e
            BY <4>1, <5>1, <2>5 DEF ReadInOrder
          <5> QED
            BY <5>2, <2>5
        <4> QED
          BY <4>1, <4>2, <4>3, <2>5
      <3> QED
        BY <3>1, <3>2, <2>2 DEF Before
    <2>7. g = d
      BY <2>2, <2>5, <2>6 DEF ReadInOrder
    <2> QED
      BY <2>1, <2>5, <2>6, <2>7
  <1> QED
    BY <1>1

\* A complete reading is the only one.
LEMMA OneReading ==
    ASSUME NEW n \in Derived, NEW C \in [Keys -> Values],
           NEW D \in SUBSET Keys, NEW p \in [D -> Nat], ReadInOrder(n, C, D, p), NextRead(n, Given(C, D)) = Done,
           NEW E \in SUBSET Keys, NEW q \in [E -> Nat], ReadInOrder(n, C, E, q), NextRead(n, Given(C, E)) = Done
    PROVE  D = E
  BY ReadingsAgree

\* A memo that is up to date over settled dependencies equal to a cold build's
\* holds that build's answer.
LEMMA SameAnswer ==
    ASSUME TypeOK, RedGreenInv, ReadInv, NEW n \in Derived, UpToDate(n),
           NEW C \in [Keys -> Values], Computes(n, C),
           \A d \in Deps(n) : reads[n][d] = C[d]
    PROVE  value[n] = C[n]
  <1> DEFINE D == Deps(n)
  <1>1. /\ n \in Keys
        /\ D \in SUBSET Keys
        /\ reads[n] \in [D -> Values]
        /\ NextRead(n, reads[n]) = Done
        /\ value[n] = Result(n, reads[n])
    BY SeenProperties DEF TypeOK, Deps, Keys, RedGreenInv, Recorded, UpToDate
  <1>2. reads[n] = Given(C, D)
    BY <1>1 DEF Given
  <1>3. PICK p \in [D -> Nat] : ReadInOrder(n, reads[n], D, p)
    BY DEF ReadInv, MemosRead, WasRead, UpToDate, Deps
  <1>4. ReadInOrder(n, C, D, p)
    <2> SUFFICES ASSUME NEW d \in D PROVE d = NextRead(n, Given(C, Before(D, p, d)))
      BY DEF ReadInOrder
    <2>1. Given(reads[n], Before(D, p, d)) = Given(C, Before(D, p, d))
      BY <1>2 DEF Given, Before
    <2> QED
      BY <1>3, <2>1 DEF ReadInOrder
  <1>5. PICK E \in SUBSET Keys :
            /\ NextRead(n, Given(C, E)) = Done
            /\ C[n] = Result(n, Given(C, E))
            /\ \E q \in [E -> Places] : ReadInOrder(n, C, E, q)
    BY DEF Computes
  <1>6. PICK q \in [E -> Nat] : ReadInOrder(n, C, E, q)
    <2>1. Places \subseteq Nat
      BY KeysAssumption, FS_CardinalityType DEF Places
    <2> QED
      BY <1>5, <2>1
  <1>7. D = E
    <2> HIDE DEF D
    <2> QED
      BY <1>1, <1>2, <1>4, <1>5, <1>6, OneReading
  <1> QED
    BY <1>1, <1>2, <1>5, <1>7

\* Whatever edits, probes, cancelled demands and cut-off changes came before,
\* what is up to date is what a cold build of the present inputs computes
\* (db.rs: verify and execute; design type-checker.md section 9).
THEOREM IncrementalEqualsCold == Spec => []FromScratch
  <1>1. TypeOK /\ RedGreenInv /\ ReadInv => FromScratch
    <2> SUFFICES ASSUME TypeOK, RedGreenInv, ReadInv,
                        NEW C \in [Keys -> Values], \A n \in Derived : Computes(n, C),
                        Given(C, Inputs) = Given(value, Inputs)
                 PROVE  \A n \in Derived : UpToDate(n) => value[n] = C[n]
      BY DEF FromScratch, ColdBuilds
    <2>1. \A k \in Inputs : value[k] = C[k]
      BY DEF Given
    <2> DEFINE Wrong == {n \in Derived : UpToDate(n) /\ value[n] # C[n]}
    <2>2. ASSUME Wrong # {} PROVE FALSE
      <3>1. PICK n \in Wrong : \A m \in Wrong : Rank[n] <= Rank[m]
        <4>1. \A m \in Wrong : Rank[m] \in Nat
          BY RankAssumption DEF Keys
        <4> HIDE DEF Wrong
        <4> QED
          BY <2>2, <4>1, LeastMember
      <3>2. /\ n \in Derived /\ n \in Keys /\ UpToDate(n) /\ value[n] # C[n]
            /\ Deps(n) \subseteq Keys
        BY <3>1, SeenProperties DEF TypeOK, Deps, Keys
      <3>3. ASSUME NEW d \in Deps(n) PROVE reads[n][d] = C[d]
        <4>1. RecordedAt(n, d)
          BY <3>2 DEF RedGreenInv, Recorded, UpToDate
        <4>2. /\ d \in Keys /\ rev \in Nat /\ verifiedAt[n] = rev
              /\ verifiedAt[d] \in Nat /\ changedAt[d] \in Nat
              /\ changedAt[d] <= verifiedAt[d] /\ verifiedAt[d] <= rev
          BY <3>2 DEF TypeOK, RedGreenInv, Stamps, UpToDate
        <4>3. value[d] = reads[n][d]
          BY <4>1, <4>2 DEF RecordedAt
        <4>4. CASE d \in Inputs
          BY <2>1, <4>3, <4>4
        <4>5. CASE d \in Derived
          <5>1. UpToDate(d)
            BY <4>1, <4>2, <4>5 DEF RecordedAt, UpToDate
          <5>2. d \notin Wrong
            BY <3>1, <3>2, <4>1, <4>2, RankAssumption DEF RecordedAt
          <5> QED
            BY <4>3, <4>5, <5>1, <5>2
        <4> QED
          BY <4>2, <4>4, <4>5 DEF Keys
      <3> QED
        BY <3>2, <3>3, SameAnswer
    <2> QED
      BY <2>2
  <1> QED
    BY <1>1, TypeCorrect, RedGreen, MemosAreReadings, PTL

=============================================================================
