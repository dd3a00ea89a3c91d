--------------------------- MODULE DepArenaProofs ---------------------------
(***************************************************************************)
(* Proofs about the dependency arena (module DepArena): its ranges stay    *)
(* inside their vector, and the arena implements per-node edge lists       *)
(* (module DepSets), for every number of nodes.                            *)
(***************************************************************************)
EXTENDS DepArena, SequenceTheorems, TLAPS

\* The inductive invariant.
Inv == TypeOK /\ RangesInArena /\ AllInterned

-----------------------------------------------------------------------------
(***************************************************************************)
(* Stacks (a Vec with push and pop)                                        *)
(***************************************************************************)
\* Removing the last element of a stack (Vec::pop).
LEMMA FrontFacts ==
    ASSUME NEW S, NEW s \in Seq(S), s # <<>>
    PROVE  /\ SubSeq(s, 1, Len(s) - 1) \in Seq(S)
           /\ Len(SubSeq(s, 1, Len(s) - 1)) = Len(s) - 1
           /\ \A i \in 1..(Len(s) - 1) : SubSeq(s, 1, Len(s) - 1)[i] = s[i]
           /\ Len(s) \in Nat \ {0}
           /\ s[Len(s)] \in S
  <1> DEFINE m == Len(s) - 1
             t == SubSeq(s, 1, m)
  <1>1. /\ Len(s) \in Nat \ {0}
        /\ m \in Nat
        /\ \A i \in 1..Len(s) : s[i] \in S
    BY LenProperties, EmptySeq, ElementOfSeq
  <1>2. \A i \in 1..m : s[i] \in S
    BY <1>1
  <1>3. /\ t \in Seq(S)
        /\ Len(t) = IF 1 <= m THEN m - 1 + 1 ELSE 0
        /\ \A i \in 1..(m - 1 + 1) : t[i] = s[1 + i - 1]
    <2> HIDE DEF m
    <2> QED BY <1>1, <1>2, SubSeqProperties
  <1>4. Len(t) = m /\ \A i \in 1..m : t[i] = s[i]
    <2> HIDE DEF m, t
    <2> QED BY <1>1, <1>3
  <1>5. s[Len(s)] \in S
    BY <1>1
  <1> QED
    BY <1>1, <1>3, <1>4, <1>5, Zenon

\* Pushing a frame (Vec::push).
LEMMA PushFacts ==
    ASSUME NEW S, NEW s \in Seq(S), NEW e \in S
    PROVE  /\ Append(s, e) \in Seq(S)
           /\ Append(s, e) # <<>>
           /\ Len(Append(s, e)) = Len(s) + 1
           /\ \A i \in 1..Len(s) : Append(s, e)[i] = s[i]
           /\ Append(s, e)[Len(s) + 1] = e
           /\ Len(s) \in Nat
  BY AppendProperties, LenProperties, EmptySeq

-----------------------------------------------------------------------------
(***************************************************************************)
(* Frames                                                                  *)
(***************************************************************************)
LEMMA WalkFrameType ==
    ASSUME NEW n \in Ids, NEW s \in Nat, NEW l \in Nat, NEW j \in Nat
    PROVE  WalkFrame(n, s, l, j) \in Frame
BY DEF WalkFrame, Frame

\* The frame of an execution is a frame.
LEMMA ExecFrameType ==
    ASSUME NEW n \in Ids, NEW D \in SUBSET Ids
    PROVE  ExecFrame(n, D) \in Frame
BY DEF ExecFrame, Frame

\* The innermost frame and the ones below it.
LEMMA TopAndPop ==
    ASSUME stack \in Seq(Frame), stack # <<>>
    PROVE  /\ Len(stack) \in Nat \ {0}
           /\ Top \in Frame
           /\ Top = stack[Len(stack)]
           /\ Pop \in Seq(Frame)
           /\ Len(Pop) = Len(stack) - 1
           /\ \A i \in 1..Len(Pop) : Pop[i] = stack[i] /\ i \in 1..Len(stack)
<1>1. /\ Pop \in Seq(Frame)
      /\ Len(Pop) = Len(stack) - 1
      /\ \A i \in 1..(Len(stack) - 1) : Pop[i] = stack[i]
      /\ Len(stack) \in Nat \ {0}
      /\ Top \in Frame
  BY FrontFacts DEF Pop, Top
<1>. QED  BY <1>1 DEF Top

\* A frame of a pushed-on sequence is an old one or the new one.
LEMMA Pushed ==
    ASSUME NEW F \in Seq(Frame), NEW f \in Frame
    PROVE  /\ Append(F, f) \in Seq(Frame)
           /\ \A i \in DOMAIN Append(F, f) :
                  (i \in DOMAIN F /\ Append(F, f)[i] = F[i]) \/ Append(F, f)[i] = f
OBVIOUS

-----------------------------------------------------------------------------
(***************************************************************************)
(* The invariant                                                           *)
(***************************************************************************)

\* What Inv says of the frames, of a vector v and of the node count c.
Sound(F, v, c) ==
    \A i \in DOMAIN F :
        /\ F[i].mode = "verify" => F[i].s + F[i].l <= Len(v) /\ F[i].j <= F[i].l
        /\ F[i].node <= c
        /\ \A n \in F[i].deps : n <= c

\* An empty database satisfies the invariant.
LEMMA InitInv == Init => Inv
BY NAssumption DEF Init, Inv, TypeOK, RangesInArena, AllInterned, Home, Ids

\* A call pushes nothing, a walk over a live range, or an execution.
LEMMA PulledSound ==
    ASSUME Inv, cursor = 0,
           NEW F \in Seq(Frame), NEW c \in 0..N, count <= c, Sound(F, arena, c),
           NEW n \in Ids, n <= c, NEW G \in Pulled(F, n)
    PROVE  G \in Seq(Frame) /\ Sound(G, arena, c)
<1>. DEFINE w == WalkFrame(n, start[n], length[n], 0)
            x == ExecFrame(n, {})
<1>1. /\ start[n] \in Nat /\ length[n] \in Nat
      /\ start[n] + length[n] <= Len(arena)
  BY DEF Inv, TypeOK, RangesInArena, Home, Ids
<1>2. w \in Frame /\ x \in Frame
  BY <1>1, WalkFrameType, ExecFrameType
<1>3. CASE G = F
  BY <1>3
<1>4. CASE G = Append(F, w)
  <2>1. w.mode = "verify" => w.s + w.l <= Len(arena) /\ w.j <= w.l
    BY <1>1 DEF WalkFrame
  <2>2. w.node <= c /\ \A m \in w.deps : m <= c
    BY DEF WalkFrame
  <2>. HIDE DEF w
  <2>. QED  BY <1>2, <1>4, <2>1, <2>2, Pushed DEF Sound
<1>5. CASE G = Append(F, x)
  <2>1. x.mode # "verify" /\ x.node <= c /\ \A m \in x.deps : m <= c
    BY DEF ExecFrame
  <2>. HIDE DEF x
  <2>. QED  BY <1>2, <1>5, <2>1, Pushed DEF Sound
<1>. QED  BY <1>3, <1>4, <1>5 DEF Pulled

\* Outside a compaction the invariant says that every frame is sound.
LEMMA InvSound == Inv /\ cursor = 0 => Sound(stack, arena, count)
BY DEF Inv, RangesInArena, AllInterned, Sound

\* Frames survive when the vector and the count only grow.
LEMMA SoundGrows ==
    ASSUME NEW F \in Seq(Frame), NEW v \in Seq(Ids), NEW w \in Seq(Ids),
           NEW c \in Nat, NEW d \in Nat,
           Len(v) <= Len(w), c <= d, Sound(F, v, c)
    PROVE  Sound(F, w, d)
<1>1. \A i \in DOMAIN F : F[i] \in Frame
  OBVIOUS
<1>2. Len(v) \in Nat /\ Len(w) \in Nat
  OBVIOUS
<1>3. ASSUME NEW i \in DOMAIN F
      PROVE  /\ F[i].mode = "verify" => F[i].s + F[i].l <= Len(w) /\ F[i].j <= F[i].l
             /\ F[i].node <= d
             /\ \A n \in F[i].deps : n <= d
  <2>1. /\ F[i].s \in Nat /\ F[i].l \in Nat /\ F[i].node \in Nat
        /\ \A n \in F[i].deps : n \in Nat
    <3>1. Ids \subseteq Nat
      BY NAssumption DEF Ids
    <3>2. F[i] \in Frame
      BY <1>1
    <3>. QED  BY <3>1, <3>2 DEF Frame
  <2>2. /\ F[i].mode = "verify" => F[i].s + F[i].l <= Len(v) /\ F[i].j <= F[i].l
        /\ F[i].node <= c
        /\ \A n \in F[i].deps : n <= c
    BY DEF Sound
  <2>. QED  BY <1>2, <2>1, <2>2
<1>. QED  BY <1>3 DEF Sound

\* Without its innermost frame, the stack is still sound.
LEMMA PopSound ==
    ASSUME Inv, cursor = 0, stack # <<>>
    PROVE  Pop \in Seq(Frame) /\ Sound(Pop, arena, count)
<1>1. stack \in Seq(Frame)
  BY DEF Inv, TypeOK
<1>2. Sound(stack, arena, count)
  BY InvSound
<1>. QED  BY <1>1, <1>2, TopAndPop DEF Sound

\* Pushing a sound frame keeps the stack sound.
LEMMA AppendSound ==
    ASSUME NEW F \in Seq(Frame), NEW v, NEW c, Sound(F, v, c), NEW f \in Frame,
           f.mode = "verify" => f.s + f.l <= Len(v) /\ f.j <= f.l,
           f.node <= c, \A n \in f.deps : n <= c
    PROVE  Append(F, f) \in Seq(Frame) /\ Sound(Append(F, f), v, c)
BY Pushed DEF Sound

\* The steps that only replace the frames.
LEMMA FramesKeepInv ==
    ASSUME Inv, cursor = 0, count' \in 0..N, count <= count',
           UNCHANGED <<arena, start, length, cursor, fresh>>,
           stack' \in Seq(Frame), Sound(stack', arena, count')
    PROVE  Inv'
<1>1. TypeOK'
  BY DEF Inv, TypeOK
<1>2. RangesInArena'
  BY <1>1 DEF Inv, RangesInArena, Home, Sound, Ids
<1>3. AllInterned'
  BY <1>1, NAssumption DEF Inv, TypeOK, AllInterned, Sound, Ids
<1>. QED  BY <1>1, <1>2, <1>3 DEF Inv

\* A compaction is under way only while no call is in flight.
LEMMA InFlightIdle == Inv /\ stack # <<>> => cursor = 0
BY DEF Inv, TypeOK, RangesInArena

\* A demand from outside keeps the invariant.
LEMMA DemandInv == ASSUME Inv, NEW n \in Ids, Demand(n) PROVE Inv'
<1>1. count' \in 0..N /\ count <= count' /\ n <= count'
  BY NAssumption DEF Inv, TypeOK, Demand, Intern, Ids
<1>2. <<>> \in Seq(Frame) /\ Sound(<<>>, arena, count')
  BY DEF Sound
<1>3. stack' \in Seq(Frame) /\ Sound(stack', arena, count')
  BY <1>1, <1>2, PulledSound DEF Demand
<1>. QED  BY <1>1, <1>3, FramesKeepInv DEF Demand

\* A read of a running computation keeps the invariant.
LEMMA ExecuteReadInv == ASSUME Inv, NEW n \in Ids, ExecuteRead(n) PROVE Inv'
<1>. DEFINE f == ExecFrame(Top.node, Top.deps \cup ({n} \ {Top.node}))
<1>0. stack # <<>> /\ cursor = 0 /\ stack \in Seq(Frame)
  BY InFlightIdle DEF Inv, TypeOK, ExecuteRead
<1>1. count' \in 0..N /\ count <= count' /\ n <= count' /\ count \in Nat
  BY NAssumption DEF Inv, TypeOK, ExecuteRead, Intern, Ids
<1>2. Top \in Frame /\ Top.node <= count /\ \A m \in Top.deps : m <= count
  BY <1>0, TopAndPop DEF Inv, AllInterned
<1>3. /\ f \in Frame
      /\ f.mode # "verify" /\ f.node <= count' /\ \A m \in f.deps : m <= count'
  BY <1>1, <1>2 DEF ExecFrame, Frame, Ids
<1>4. Pop \in Seq(Frame) /\ Sound(Pop, arena, count')
  BY <1>0, <1>1, PopSound, SoundGrows DEF Inv, TypeOK
<1>5. Append(Pop, f) \in Seq(Frame) /\ Sound(Append(Pop, f), arena, count')
  <2>. HIDE DEF f
  <2>. QED  BY <1>3, <1>4, AppendSound
<1>6. stack' \in Pulled(Append(Pop, f), n)
  BY DEF ExecuteRead
<1>7. stack' \in Seq(Frame) /\ Sound(stack', arena, count')
  <2>. HIDE DEF f
  <2>. QED  BY <1>0, <1>1, <1>5, <1>6, PulledSound
<1>. QED  BY <1>0, <1>1, <1>7, FramesKeepInv DEF ExecuteRead

\* One step of the walk over the old dependencies keeps the invariant.
LEMMA VerifyAskInv == ASSUME Inv, VerifyAsk PROVE Inv'
<1>. DEFINE dep == arena[Top.s + Top.j + 1]
            f == WalkFrame(Top.node, Top.s, Top.l, Top.j + 1)
<1>0. stack # <<>> /\ cursor = 0 /\ stack \in Seq(Frame) /\ arena \in Seq(Ids) /\ count \in 0..N
  BY InFlightIdle DEF Inv, TypeOK, VerifyAsk
<1>2. /\ Top \in Frame /\ Top.node <= count
      /\ Top.s + Top.l <= Len(arena) /\ Top.j < Top.l
  BY <1>0, TopAndPop DEF Inv, AllInterned, RangesInArena, VerifyAsk
<1>3. /\ f \in Frame /\ f.node <= count
      /\ f.s + f.l <= Len(arena) /\ f.j <= f.l
      /\ \A m \in f.deps : m <= count
  BY <1>2 DEF WalkFrame, Frame
<1>4. Top.s + Top.j + 1 \in DOMAIN arena
  BY <1>0, <1>2 DEF Frame
<1>5. dep \in Ids /\ dep <= count
  BY <1>0, <1>4 DEF Inv, AllInterned
<1>6. Append(Pop, f) \in Seq(Frame) /\ Sound(Append(Pop, f), arena, count)
  <2>. HIDE DEF f
  <2>. QED  BY <1>0, <1>3, PopSound, AppendSound
<1>7. stack' \in Pulled(Append(Pop, f), dep)
  BY DEF VerifyAsk
<1>8. stack' \in Seq(Frame) /\ Sound(stack', arena, count)
  <2>. HIDE DEF f, dep
  <2>1. count <= count
    BY <1>0, NAssumption
  <2>. QED  BY <1>0, <1>5, <1>6, <1>7, <2>1, PulledSound
<1>9. count' = count
  BY DEF VerifyAsk
<1>. QED  BY <1>0, <1>8, <1>9, FramesKeepInv DEF VerifyAsk

\* The end of such a walk keeps the invariant.
LEMMA VerifyEndInv == ASSUME Inv, VerifyEnd PROVE Inv'
<1>. DEFINE f == ExecFrame(Top.node, {})
<1>0. stack # <<>> /\ cursor = 0 /\ stack \in Seq(Frame) /\ count \in 0..N
  BY InFlightIdle DEF Inv, TypeOK, VerifyEnd
<1>1. Pop \in Seq(Frame) /\ Sound(Pop, arena, count)
  BY <1>0, PopSound
<1>2. Top \in Frame /\ Top.node <= count
  BY <1>0, TopAndPop DEF Inv, AllInterned
<1>3. f \in Frame /\ f.mode # "verify" /\ f.node <= count /\ f.deps = {}
  BY <1>2 DEF ExecFrame, Frame
<1>4. Append(Pop, f) \in Seq(Frame) /\ Sound(Append(Pop, f), arena, count)
  <2>. HIDE DEF f
  <2>. QED  BY <1>1, <1>3, AppendSound
<1>5. stack' \in Seq(Frame) /\ Sound(stack', arena, count)
  BY <1>1, <1>4 DEF VerifyEnd
<1>6. count' = count
  BY DEF VerifyEnd
<1>. QED  BY <1>0, <1>5, <1>6, FramesKeepInv DEF VerifyEnd

\* Unwinding after a cancellation keeps the invariant.
LEMMA CancelledInv == ASSUME Inv, Cancelled PROVE Inv'
<1>1. stack # <<>> /\ cursor = 0 /\ count \in 0..N /\ count' = count
  BY InFlightIdle DEF Inv, TypeOK, Cancelled
<1>2. stack' \in Seq(Frame) /\ Sound(stack', arena, count)
  BY DEF Cancelled, Sound
<1>. QED  BY <1>1, <1>2, FramesKeepInv DEF Cancelled

\* A slice that lies in its vector.
LEMMA SliceFacts ==
    ASSUME NEW v \in Seq(Ids), NEW s \in Nat, NEW l \in Nat, s + l <= Len(v)
    PROVE  /\ Slice(v, s, l) \in Seq(Ids)
           /\ Len(Slice(v, s, l)) = l
           /\ \A i \in 1..l : Slice(v, s, l)[i] = v[s + i]
<1>1. \A i \in 1..l : s + i \in 1..Len(v)
  OBVIOUS
<1>2. Slice(v, s, l) \in [1..l -> Ids]
  BY <1>1 DEF Slice
<1>3. Slice(v, s, l) \in Seq(Ids)
  BY <1>2
<1>. QED  BY <1>2, <1>3 DEF Slice

\* A sorted list of ids is a sequence of ids without others.
LEMMA SortedFacts ==
    ASSUME NEW D \in SUBSET Ids, NEW q \in Sorted(D)
    PROVE  q \in Seq(Ids) /\ \A i \in DOMAIN q : q[i] \in D
<1>1. PICK k \in 0..N : q \in [1..k -> Ids]
  BY DEF Sorted
<1>2. k \in Nat
  BY NAssumption
<1>3. q \in Seq(Ids)
  BY <1>1, <1>2
<1>. QED  BY <1>3 DEF Sorted

\* Appending the new list of a node, and moving its range, keeps the invariant.
LEMMA CommitInv == ASSUME Inv, Commit PROVE Inv'
<1>0. /\ stack # <<>> /\ cursor = 0 /\ stack \in Seq(Frame) /\ count \in 0..N
      /\ arena \in Seq(Ids) /\ Len(arena) \in Nat
  BY InFlightIdle DEF Inv, TypeOK, Commit
<1>1. Pop \in Seq(Frame) /\ Sound(Pop, arena, count)
  BY <1>0, PopSound
<1>2. Top \in Frame /\ Top.node <= count /\ \A m \in Top.deps : m <= count
  BY <1>0, TopAndPop DEF Inv, AllInterned
<1>3. PICK n \in Ids : n = Top.node
  BY <1>2 DEF Frame
<1>4. PICK D \in SUBSET Ids : D = Top.deps
  BY <1>2 DEF Frame
<1>5. PICK q \in Sorted(D) :
          /\ arena' = arena \o q
          /\ start' = [start EXCEPT ![n] = Len(arena)]
          /\ length' = [length EXCEPT ![n] = Len(q)]
  BY <1>3, <1>4 DEF Commit
<1>6. /\ q \in Seq(Ids) /\ Len(q) \in Nat
      /\ \A i \in 1..Len(q) : q[i] <= count
  BY <1>2, <1>4, SortedFacts
<1>7. /\ arena' \in Seq(Ids)
      /\ Len(arena') = Len(arena) + Len(q)
      /\ \A i \in 1..Len(arena') : arena'[i] <= count
  <2>1. \A i \in 1..Len(arena) : arena[i] <= count
    BY <1>0 DEF Inv, AllInterned
  <2>. QED  BY <1>0, <1>5, <1>6, <2>1
<1>8. /\ count' = count /\ cursor' = cursor /\ fresh' = fresh /\ stack' = Pop
  BY DEF Commit
<1>9. TypeOK'
  BY <1>0, <1>1, <1>5, <1>6, <1>7, <1>8 DEF Inv, TypeOK
<1>10. Sound(stack', arena', count)
  <2>1. Len(arena) <= Len(arena') /\ count \in Nat /\ count <= count
    BY <1>0, <1>6, <1>7, NAssumption
  <2>. QED  BY <1>0, <1>1, <1>7, <1>8, <2>1, SoundGrows
<1>11. \A m \in Ids : start'[m] + length'[m] <= Len(arena')
  <2>1. \A m \in Ids : start[m] + length[m] <= Len(arena) /\ start[m] \in Nat /\ length[m] \in Nat
    BY <1>0 DEF Inv, TypeOK, RangesInArena, Home, Ids
  <2>2. start \in [Ids -> Nat] /\ length \in [Ids -> Nat]
    BY DEF Inv, TypeOK
  <2>. QED  BY <1>0, <1>5, <1>6, <1>7, <2>1, <2>2
<1>12. RangesInArena'
  BY <1>0, <1>8, <1>10, <1>11 DEF RangesInArena, Home, Sound, Ids
<1>13. AllInterned'
  <2>1. \A m \in Ids : m > count => start'[m] = 0 /\ length'[m] = 0
    BY <1>0, <1>2, <1>3, <1>5, NAssumption DEF Inv, TypeOK, AllInterned, Ids
  <2>. QED  BY <1>7, <1>8, <1>10, <2>1 DEF Inv, AllInterned, Sound
<1>. QED  BY <1>9, <1>12, <1>13 DEF Inv

\* Starting a compaction keeps the invariant.
LEMMA CompactBeginInv == ASSUME Inv, CompactBegin PROVE Inv'
<1>1. TypeOK'
  BY NAssumption DEF Inv, TypeOK, CompactBegin
<1>2. RangesInArena'
  BY NAssumption DEF Inv, TypeOK, RangesInArena, Home, CompactBegin, Ids
<1>3. AllInterned'
  BY DEF Inv, AllInterned, CompactBegin
<1>. QED  BY <1>1, <1>2, <1>3 DEF Inv

\* Moving the list of one node to the fresh vector keeps the invariant.
LEMMA CompactNodeInv == ASSUME Inv, CompactNode PROVE Inv'
<1>. DEFINE s == start[cursor]
            l == length[cursor]
            part == Slice(arena, s, l)
<1>0. /\ cursor \in Ids /\ cursor \in 1..count /\ count \in 0..N /\ cursor' = cursor + 1
      /\ start \in [Ids -> Nat] /\ length \in [Ids -> Nat]
      /\ arena \in Seq(Ids) /\ fresh \in Seq(Ids)
      /\ s \in Nat /\ l \in Nat /\ Len(fresh) \in Nat
      /\ UNCHANGED <<count, arena, length, stack>>
      /\ start' = [start EXCEPT ![cursor] = Len(fresh)]
  BY NAssumption DEF Inv, TypeOK, CompactNode, Ids
<1>1. s + l <= Len(arena) /\ stack = <<>>
  BY <1>0 DEF Inv, RangesInArena, Home
<1>2. /\ part \in Seq(Ids) /\ Len(part) = l
      /\ \A i \in 1..l : part[i] = arena[s + i]
  BY <1>0, <1>1, SliceFacts
<1>3. \A i \in 1..l : part[i] <= count
  <2>1. \A i \in 1..l : s + i \in DOMAIN arena
    BY <1>0, <1>1
  <2>2. \A p \in DOMAIN arena : arena[p] <= count
    BY DEF Inv, AllInterned
  <2>. QED  BY <1>2, <2>1, <2>2
<1>4. /\ fresh' \in Seq(Ids)
      /\ Len(fresh') = Len(fresh) + l
      /\ \A i \in 1..Len(fresh') : fresh'[i] <= count
  <2>1. \A i \in 1..Len(fresh) : fresh[i] <= count
    BY <1>0 DEF Inv, AllInterned
  <2>2. fresh' = fresh \o part
    BY DEF CompactNode
  <2>3. /\ fresh \o part \in Seq(Ids)
        /\ Len(fresh \o part) = Len(fresh) + Len(part)
        /\ \A i \in 1..Len(fresh) + Len(part) :
               (fresh \o part)[i] = IF i <= Len(fresh) THEN fresh[i] ELSE part[i - Len(fresh)]
    BY <1>0, <1>2, ConcatProperties
  <2>. HIDE DEF part, l
  <2>. QED  BY <1>0, <1>2, <1>3, <2>1, <2>2, <2>3
<1>5. TypeOK'
  BY <1>0, <1>4, NAssumption DEF Inv, TypeOK
<1>6. \A m \in Ids : start'[m] + length'[m] <= Len(Home(m)')
  <2>. SUFFICES ASSUME NEW m \in Ids PROVE start'[m] + length'[m] <= Len(Home(m)')
    OBVIOUS
  <2>1. start[m] + length[m] <= Len(Home(m)) /\ start[m] \in Nat /\ length[m] \in Nat
    BY <1>0 DEF Inv, RangesInArena
  <2>2. CASE m = cursor
    BY <1>0, <1>4, <2>2 DEF Home
  <2>3. CASE m < cursor
    BY <1>0, <1>4, <2>1, <2>3, NAssumption DEF Home, Ids
  <2>4. CASE m > cursor
    BY <1>0, <2>1, <2>4, NAssumption DEF Home, Ids
  <2>. QED  BY <1>0, <2>2, <2>3, <2>4, NAssumption DEF Ids
<1>7. RangesInArena'
  <2>1. cursor' > 0 => stack' = <<>> /\ cursor' <= count' + 1
    BY <1>0, <1>1, NAssumption
  <2>2. \A i \in DOMAIN stack' : FALSE
    BY <1>0, <1>1
  <2>. QED  BY <1>6, <2>1, <2>2 DEF RangesInArena
<1>8. AllInterned'
  <2>1. \A m \in Ids : m > count => start'[m] = 0 /\ length'[m] = 0
    BY <1>0, NAssumption DEF Inv, AllInterned, Ids
  <2>. QED  BY <1>0, <1>1, <1>4, <2>1 DEF Inv, AllInterned
<1>. QED  BY <1>5, <1>7, <1>8 DEF Inv

\* Putting the fresh vector in place of the old one keeps the invariant.
LEMMA CompactEndInv == ASSUME Inv, CompactEnd PROVE Inv'
<1>0. /\ cursor = count + 1 /\ count \in 0..N /\ stack = <<>>
      /\ UNCHANGED <<count, start, length, stack>>
      /\ arena' = fresh /\ fresh' = <<>> /\ cursor' = 0
      /\ start \in [Ids -> Nat] /\ length \in [Ids -> Nat] /\ fresh \in Seq(Ids)
  BY NAssumption DEF Inv, TypeOK, RangesInArena, CompactEnd
<1>1. TypeOK'
  BY <1>0, NAssumption DEF Inv, TypeOK
<1>2. \A m \in Ids : start[m] + length[m] <= Len(fresh)
  <2>. SUFFICES ASSUME NEW m \in Ids PROVE start[m] + length[m] <= Len(fresh)
    OBVIOUS
  <2>1. CASE m <= count
    BY <1>0, <2>1, NAssumption DEF Inv, RangesInArena, Home, Ids
  <2>2. CASE m > count
    BY <1>0, <2>2 DEF Inv, AllInterned
  <2>. QED  BY <1>0, <2>1, <2>2, NAssumption DEF Ids
<1>3. RangesInArena'
  BY <1>0, <1>2, NAssumption DEF RangesInArena, Home, Ids
<1>4. AllInterned'
  BY <1>0 DEF Inv, AllInterned
<1>. QED  BY <1>1, <1>3, <1>4 DEF Inv

\* No range and no walk of the arena ever leaves its vector, and every id it
\* holds has been interned (Db::verify, execute, deps_of, compact).
THEOREM ArenaInvariant == Spec => [](TypeOK /\ RangesInArena /\ AllInterned)
<1>1. Inv /\ [Next]_vars => Inv'
  <2>. SUFFICES ASSUME Inv, [Next]_vars PROVE Inv'
    OBVIOUS
  <2>1. CASE UNCHANGED vars
    BY <2>1 DEF vars, Inv, TypeOK, RangesInArena, AllInterned, Home
  <2>2. CASE \E n \in Ids : Demand(n) \/ ExecuteRead(n)
    BY <2>2, DemandInv, ExecuteReadInv
  <2>. QED
    BY <2>1, <2>2, VerifyAskInv, VerifyEndInv, CommitInv, CancelledInv,
       CompactBeginInv, CompactNodeInv, CompactEndInv DEF Next
<1>. QED  BY InitInv, <1>1, PTL DEF Spec, Inv

-----------------------------------------------------------------------------
(***************************************************************************)
(* The refinement mapping                                                  *)
(***************************************************************************)
CallSet(v) == {Call(v, f) : f \in Frame}

\* The mapped stack has one call for each frame.
LEMMA CallsType ==
    ASSUME NEW v, NEW F \in Seq(Frame)
    PROVE  /\ CallsOf(v, F) \in Seq(CallSet(v))
           /\ Len(CallsOf(v, F)) = Len(F)
           /\ \A i \in 1..Len(F) : CallsOf(v, F)[i] = Call(v, F[i])
<1>1. DOMAIN F = 1..Len(F) /\ Len(F) \in Nat /\ \A i \in 1..Len(F) : F[i] \in Frame
  OBVIOUS
<1>2. CallsOf(v, F) \in [1..Len(F) -> CallSet(v)]
  BY <1>1 DEF CallsOf, CallSet
<1>3. CallsOf(v, F) \in Seq(CallSet(v))
  BY <1>1, <1>2
<1>. QED  BY <1>1, <1>2, <1>3 DEF CallsOf

\* Mapping a pushed frame pushes the mapped frame.
LEMMA CallsAppend ==
    ASSUME NEW v, NEW F \in Seq(Frame), NEW f \in Frame
    PROVE  CallsOf(v, Append(F, f)) = Append(CallsOf(v, F), Call(v, f))
<1>. DEFINE G == Append(F, f)
            A == CallsOf(v, G)
            B == Append(CallsOf(v, F), Call(v, f))
<1>1. /\ G \in Seq(Frame) /\ Len(G) = Len(F) + 1 /\ Len(F) \in Nat
      /\ \A i \in 1..Len(F) : G[i] = F[i]
      /\ G[Len(F) + 1] = f
  BY PushFacts
<1>2. /\ A \in Seq(CallSet(v)) /\ Len(A) = Len(F) + 1
      /\ \A i \in 1..Len(F) + 1 : A[i] = Call(v, G[i])
  <2>. HIDE DEF G
  <2>. QED  BY <1>1, CallsType
<1>3. /\ CallsOf(v, F) \in Seq(CallSet(v)) /\ Len(CallsOf(v, F)) = Len(F)
      /\ \A i \in 1..Len(F) : CallsOf(v, F)[i] = Call(v, F[i])
      /\ Call(v, f) \in CallSet(v)
  BY CallsType DEF CallSet
<1>4. /\ B \in Seq(CallSet(v)) /\ Len(B) = Len(F) + 1
      /\ \A i \in 1..Len(F) : B[i] = CallsOf(v, F)[i]
      /\ B[Len(F) + 1] = Call(v, f)
  BY <1>3, PushFacts
<1>5. \A i \in 1..Len(F) + 1 : A[i] = B[i]
  <2>. SUFFICES ASSUME NEW i \in 1..Len(F) + 1 PROVE A[i] = B[i]
    OBVIOUS
  <2>. HIDE DEF A, B, G
  <2>1. CASE i \in 1..Len(F)
    <3>1. A[i] = Call(v, G[i]) /\ G[i] = F[i] /\ B[i] = Call(v, F[i])
      BY <1>1, <1>2, <1>3, <1>4, <2>1
    <3>. QED  BY <3>1
  <2>2. CASE i = Len(F) + 1
    <3>1. A[i] = Call(v, G[i]) /\ G[i] = f /\ B[i] = Call(v, f)
      BY <1>1, <1>2, <1>4, <2>2
    <3>. QED  BY <3>1
  <2>. QED  BY <1>1, <2>1, <2>2
<1>6. A = B
  <2>. HIDE DEF A, B, G
  <2>. QED  BY <1>1, <1>2, <1>4, <1>5, SeqEqual
<1>. QED  BY <1>6

\* The mapping of the innermost frame and of the ones below it.
LEMMA CallsTop ==
    ASSUME stack \in Seq(Frame), stack # <<>>
    PROVE  /\ Calls # <<>>
           /\ Abstract!Last = Call(arena, Top)
           /\ Abstract!Front = CallsOf(arena, Pop)
<1>. DEFINE A == Abstract!Front
            B == CallsOf(arena, Pop)
<1>1. /\ Calls \in Seq(CallSet(arena)) /\ Len(Calls) = Len(stack) /\ Len(stack) \in Nat \ {0}
      /\ \A i \in 1..Len(stack) : Calls[i] = Call(arena, stack[i])
  BY CallsType, TopAndPop DEF Calls
<1>2. Calls # <<>>
  BY <1>1
<1>3. Abstract!Last = Call(arena, Top)
  BY <1>1 DEF Abstract!Last, Top
<1>4. /\ A \in Seq(CallSet(arena)) /\ Len(A) = Len(stack) - 1
      /\ \A i \in 1..(Len(stack) - 1) : A[i] = Calls[i]
  BY <1>1, <1>2, FrontFacts DEF Abstract!Front
<1>5. /\ B \in Seq(CallSet(arena)) /\ Len(B) = Len(stack) - 1
      /\ \A i \in 1..(Len(stack) - 1) : B[i] = Call(arena, stack[i])
  BY TopAndPop, CallsType
<1>6. A = B
  <2>. HIDE DEF A, B
  <2>. QED  BY <1>1, <1>4, <1>5, SeqEqual
<1>. QED  BY <1>2, <1>3, <1>6

\* A node is in flight for the lists exactly when it is for the arena.
LEMMA BusyIsInFlight ==
    ASSUME stack \in Seq(Frame), NEW n
    PROVE  Abstract!Busy(n) <=> InFlight(n)
<1>1. /\ DOMAIN Calls = 1..Len(stack) /\ DOMAIN stack = 1..Len(stack)
      /\ \A i \in 1..Len(stack) : Calls[i].node = stack[i].node
  BY CallsType DEF Calls, CallsOf, Call
<1>. QED  BY <1>1 DEF Abstract!Busy, InFlight

\* A walk over a range of the vector maps to a walk over the list stored there.
LEMMA CallOfWalk ==
    ASSUME NEW v, NEW n, NEW s, NEW l, NEW j
    PROVE  Call(v, WalkFrame(n, s, l, j)) = Abstract!Walk(n, Slice(v, s + j, l - j))
BY DEF Call, WalkFrame, Abstract!Walk

\* An execution maps to an execution.
LEMMA CallOfExec ==
    ASSUME NEW v, NEW n, NEW D
    PROVE  Call(v, ExecFrame(n, D)) = Abstract!Execution(n, D)
BY DEF Call, ExecFrame, Abstract!Execution

\* A call of the arena's engine maps to a call of the lists'.
LEMMA PulledMaps ==
    ASSUME Inv, cursor = 0, NEW F \in Seq(Frame), NEW n \in Ids, NEW G \in Pulled(F, n)
    PROVE  CallsOf(arena, G) \in Abstract!Calling(CallsOf(arena, F), n)
<1>. DEFINE w == WalkFrame(n, start[n], length[n], 0)
            x == ExecFrame(n, {})
<1>0. stack \in Seq(Frame) /\ start[n] \in Nat /\ length[n] \in Nat
  BY DEF Inv, TypeOK
<1>1. w \in Frame /\ x \in Frame
  BY <1>0, WalkFrameType, ExecFrameType
<1>2. Call(arena, w) = Abstract!Walk(n, Edges[n])
  <2>1. Edges[n] = Slice(arena, start[n], length[n])
    BY DEF Edges, Home, Ids
  <2>. QED  BY <1>0, <2>1, CallOfWalk
<1>3. Call(arena, x) = Abstract!Execution(n, {})
  BY CallOfExec
<1>4. CASE G = F
  BY <1>4 DEF Abstract!Calling
<1>5. CASE G = Append(F, w) /\ ~InFlight(n)
  <2>1. CallsOf(arena, G) = Append(CallsOf(arena, F), Abstract!Walk(n, Edges[n]))
    <3>. HIDE DEF w
    <3>. QED  BY <1>1, <1>2, <1>5, CallsAppend
  <2>. QED  BY <1>0, <1>5, <2>1, BusyIsInFlight DEF Abstract!Calling
<1>6. CASE G = Append(F, x) /\ ~InFlight(n)
  <2>1. CallsOf(arena, G) = Append(CallsOf(arena, F), Abstract!Execution(n, {}))
    <3>. HIDE DEF x
    <3>. QED  BY <1>1, <1>3, <1>6, CallsAppend
  <2>. QED  BY <1>0, <1>6, <2>1, BusyIsInFlight DEF Abstract!Calling
<1>. QED  BY <1>4, <1>5, <1>6 DEF Pulled

\* While the columns stay, so do the mapped edges.
LEMMA ColumnsStay ==
    ASSUME UNCHANGED <<arena, start, length, cursor, fresh>>
    PROVE  Edges' = Edges /\ Calls' = CallsOf(arena, stack')
BY DEF Edges, Home, Slice, Calls, CallsOf, Call

\* A demand from outside is a demand of the lists' engine.
LEMMA DemandMaps == ASSUME Inv, NEW n \in Ids, Demand(n) PROVE Abstract!Next
<1>1. Edges' = Edges /\ Calls' = CallsOf(arena, stack')
  BY ColumnsStay DEF Demand
<1>2. <<>> \in Seq(Frame) /\ CallsOf(arena, <<>>) = <<>> /\ Calls = <<>>
  BY DEF CallsOf, Calls, Demand
<1>3. Calls' \in Abstract!Calling(<<>>, n)
  BY <1>1, <1>2, PulledMaps DEF Demand
<1>4. Abstract!Intern(n)
  BY DEF Demand, Intern, Abstract!Intern
<1>5. Abstract!Demand(n)
  BY <1>1, <1>2, <1>3, <1>4 DEF Abstract!Demand
<1>. QED  BY <1>5 DEF Abstract!Next, Abstract!Ids, Ids

\* A read of a computation is a read of the lists' engine.
LEMMA ExecuteReadMaps == ASSUME Inv, NEW n \in Ids, ExecuteRead(n) PROVE Abstract!Next
<1>. DEFINE f == ExecFrame(Top.node, Top.deps \cup ({n} \ {Top.node}))
<1>0. stack # <<>> /\ cursor = 0 /\ stack \in Seq(Frame)
  BY InFlightIdle DEF Inv, TypeOK, ExecuteRead
<1>1. Edges' = Edges /\ Calls' = CallsOf(arena, stack')
  BY ColumnsStay DEF ExecuteRead
<1>2. Top \in Frame /\ Pop \in Seq(Frame)
  BY <1>0, TopAndPop
<1>3. f \in Frame
  BY <1>2 DEF ExecFrame, Frame
<1>4. /\ Calls # <<>> /\ Abstract!Last = Call(arena, Top)
      /\ Abstract!Front = CallsOf(arena, Pop)
  BY <1>0, CallsTop
<1>5. /\ Abstract!Last.mode = "execute" /\ Abstract!Last.node = Top.node
      /\ Abstract!Last.read = Top.deps
  BY <1>4 DEF Call, ExecuteRead
<1>6. CallsOf(arena, Append(Pop, f))
        = Append(Abstract!Front,
                 Abstract!Execution(Abstract!Last.node,
                                    Abstract!Last.read \cup ({n} \ {Abstract!Last.node})))
  <2>1. Call(arena, f)
          = Abstract!Execution(Abstract!Last.node,
                               Abstract!Last.read \cup ({n} \ {Abstract!Last.node}))
    BY <1>5, CallOfExec
  <2>. HIDE DEF f
  <2>. QED  BY <1>2, <1>3, <1>4, <2>1, CallsAppend
<1>7. Calls' \in Abstract!Calling(CallsOf(arena, Append(Pop, f)), n)
  <2>1. stack' \in Pulled(Append(Pop, f), n)
    BY DEF ExecuteRead
  <2>2. Append(Pop, f) \in Seq(Frame)
    BY <1>2, <1>3, PushFacts
  <2>. HIDE DEF f
  <2>. QED  BY <1>0, <1>1, <2>1, <2>2, PulledMaps
<1>8. Abstract!Intern(n)
  BY DEF ExecuteRead, Intern, Abstract!Intern
<1>9. Abstract!Read(n)
  <2>. HIDE DEF f
  <2>. QED  BY <1>1, <1>4, <1>5, <1>6, <1>7, <1>8 DEF Abstract!Read
<1>. QED  BY <1>9 DEF Abstract!Next, Abstract!Ids, Ids

\* The rest of a walk loses its head when the loop index advances.
LEMMA RestShrinks ==
    ASSUME NEW v \in Seq(Ids), NEW a \in Nat, NEW n \in Nat, n # 0, a + n <= Len(v)
    PROVE  /\ Slice(v, a, n) # <<>>
           /\ Head(Slice(v, a, n)) = v[a + 1]
           /\ Tail(Slice(v, a, n)) = Slice(v, a + 1, n - 1)
<1>. DEFINE r == Slice(v, a, n)
            t == Slice(v, a + 1, n - 1)
<1>1. r \in Seq(Ids) /\ Len(r) = n /\ \A i \in 1..n : r[i] = v[a + i]
  BY SliceFacts
<1>2. t \in Seq(Ids) /\ Len(t) = n - 1 /\ \A i \in 1..(n - 1) : t[i] = v[(a + 1) + i]
  <2>1. a + 1 \in Nat /\ n - 1 \in Nat /\ (a + 1) + (n - 1) <= Len(v)
    OBVIOUS
  <2>. QED  BY <2>1, SliceFacts
<1>. HIDE DEF r, t
<1>3. r # <<>>
  BY <1>1
<1>4. /\ Head(r) = r[1]
      /\ Tail(r) \in Seq(Ids) /\ Len(Tail(r)) = Len(r) - 1
      /\ \A i \in 1..Len(Tail(r)) : Tail(r)[i] = r[i + 1]
  BY <1>1, <1>3, HeadTailProperties
<1>5. Head(r) = v[a + 1]
  BY <1>1, <1>4
<1>6. \A i \in 1..Len(Tail(r)) : Tail(r)[i] = t[i]
  <2>. SUFFICES ASSUME NEW i \in 1..Len(Tail(r)) PROVE Tail(r)[i] = t[i]
    OBVIOUS
  <2>1. i \in 1..(n - 1) /\ i + 1 \in 1..n /\ a + (i + 1) = (a + 1) + i
    BY <1>1, <1>4
  <2>. QED  BY <1>1, <1>2, <1>4, <2>1
<1>7. Tail(r) = t
  BY <1>1, <1>2, <1>4, <1>6, SeqEqual
<1>. QED  BY <1>3, <1>5, <1>7 DEF r, t

\* A step of a walk takes the next element of the stored list.
LEMMA VerifyAskMaps == ASSUME Inv, VerifyAsk PROVE Abstract!Next
<1>. DEFINE dep == arena[Top.s + Top.j + 1]
            f == WalkFrame(Top.node, Top.s, Top.l, Top.j + 1)
<1>0. stack # <<>> /\ cursor = 0 /\ stack \in Seq(Frame) /\ arena \in Seq(Ids)
  BY InFlightIdle DEF Inv, TypeOK, VerifyAsk
<1>1. Edges' = Edges /\ Calls' = CallsOf(arena, stack')
  BY ColumnsStay DEF VerifyAsk
<1>2. /\ Top \in Frame /\ Pop \in Seq(Frame)
      /\ Top.s \in Nat /\ Top.l \in Nat /\ Top.j \in Nat /\ Top.node \in Ids
      /\ Top.s + Top.l <= Len(arena) /\ Top.j < Top.l
  <2>1. Top \in Frame /\ Pop \in Seq(Frame)
    BY <1>0, TopAndPop
  <2>2. Top.s + Top.l <= Len(arena) /\ Top.j < Top.l
    BY <1>0, TopAndPop DEF Inv, RangesInArena, VerifyAsk
  <2>. QED  BY <2>1, <2>2 DEF Frame
<1>3. f \in Frame
  BY <1>2, WalkFrameType
<1>4. /\ Calls # <<>> /\ Abstract!Last = Call(arena, Top)
      /\ Abstract!Front = CallsOf(arena, Pop)
  BY <1>0, CallsTop
<1>5. /\ Abstract!Last.mode = "verify" /\ Abstract!Last.node = Top.node
      /\ Abstract!Last.rest = Slice(arena, Top.s + Top.j, Top.l - Top.j)
  BY <1>4 DEF Call, VerifyAsk
<1>6. /\ Abstract!Last.rest # <<>>
      /\ Head(Abstract!Last.rest) = dep
      /\ Tail(Abstract!Last.rest) = Slice(arena, Top.s + (Top.j + 1), Top.l - (Top.j + 1))
  <2>1. PICK a \in Nat : a = Top.s + Top.j
    BY <1>2
  <2>2. PICK n \in Nat : n = Top.l - Top.j
    BY <1>2
  <2>3. n # 0 /\ a + n <= Len(arena) /\ arena \in Seq(Ids)
    BY <1>0, <1>2, <2>1, <2>2
  <2>4. /\ Slice(arena, a, n) # <<>>
        /\ Head(Slice(arena, a, n)) = arena[a + 1]
        /\ Tail(Slice(arena, a, n)) = Slice(arena, a + 1, n - 1)
    BY <2>3, RestShrinks
  <2>5. Top.s + (Top.j + 1) = a + 1 /\ Top.l - (Top.j + 1) = n - 1
    <3>1. PICK s \in Nat, l \in Nat, j \in Nat : s = Top.s /\ l = Top.l /\ j = Top.j
      BY <1>2
    <3>2. a = s + j /\ n = l - j
      BY <2>1, <2>2, <3>1
    <3>3. s + (j + 1) = a + 1 /\ l - (j + 1) = n - 1
      BY <3>2
    <3>. QED  BY <3>1, <3>3
  <2>6. Abstract!Last.rest = Slice(arena, a, n)
    BY <1>5, <2>1, <2>2
  <2>. QED  BY <2>1, <2>4, <2>5, <2>6
<1>7. dep \in Ids
  <2>1. Top.s + Top.j + 1 \in 1..Len(arena)
    BY <1>0, <1>2
  <2>. QED  BY <1>0, <2>1
<1>8. CallsOf(arena, Append(Pop, f))
        = Append(Abstract!Front, Abstract!Walk(Abstract!Last.node, Tail(Abstract!Last.rest)))
  <2>1. Call(arena, f) = Abstract!Walk(Abstract!Last.node, Tail(Abstract!Last.rest))
    <3>1. Call(arena, f) = Abstract!Walk(Top.node, Slice(arena, Top.s + (Top.j + 1), Top.l - (Top.j + 1)))
      BY CallOfWalk
    <3>. QED  BY <1>5, <1>6, <3>1
  <2>. HIDE DEF f
  <2>. QED  BY <1>2, <1>3, <1>4, <2>1, CallsAppend
<1>9. Calls' \in Abstract!Calling(CallsOf(arena, Append(Pop, f)), dep)
  <2>1. stack' \in Pulled(Append(Pop, f), dep)
    BY DEF VerifyAsk
  <2>2. Append(Pop, f) \in Seq(Frame)
    BY <1>2, <1>3, PushFacts
  <2>. HIDE DEF f, dep
  <2>. QED  BY <1>0, <1>1, <1>7, <2>1, <2>2, PulledMaps
<1>10. Abstract!Ask
  <2>. HIDE DEF f, dep
  <2>1. count' = count
    BY DEF VerifyAsk
  <2>. QED  BY <1>1, <1>4, <1>5, <1>6, <1>8, <1>9, <2>1 DEF Abstract!Ask
<1>. QED  BY <1>10 DEF Abstract!Next

\* A walk over the whole range has walked the whole list.
LEMMA VerifyEndMaps == ASSUME Inv, VerifyEnd PROVE Abstract!Next
<1>. DEFINE f == ExecFrame(Top.node, {})
<1>0. stack # <<>> /\ stack \in Seq(Frame)
  BY DEF Inv, TypeOK, VerifyEnd
<1>1. Edges' = Edges /\ Calls' = CallsOf(arena, stack')
  BY ColumnsStay DEF VerifyEnd
<1>2. Top \in Frame /\ Pop \in Seq(Frame) /\ f \in Frame
  BY <1>0, TopAndPop DEF ExecFrame, Frame
<1>3. /\ Calls # <<>> /\ Abstract!Last = Call(arena, Top)
      /\ Abstract!Front = CallsOf(arena, Pop)
  BY <1>0, CallsTop
<1>4. Abstract!Last.mode = "verify" /\ Abstract!Last.node = Top.node
  BY <1>3 DEF Call, VerifyEnd
<1>5. CallsOf(arena, Append(Pop, f))
        = Append(Abstract!Front, Abstract!Execution(Abstract!Last.node, {}))
  <2>1. Call(arena, f) = Abstract!Execution(Abstract!Last.node, {})
    BY <1>4, CallOfExec
  <2>. HIDE DEF f
  <2>. QED  BY <1>2, <1>3, <2>1, CallsAppend
<1>6. stack' = Pop \/ stack' = Append(Pop, f)
  BY DEF VerifyEnd
<1>7. Abstract!EndWalk
  <2>. HIDE DEF f
  <2>1. count' = count
    BY DEF VerifyEnd
  <2>. QED  BY <1>1, <1>3, <1>4, <1>5, <1>6, <2>1 DEF Abstract!EndWalk
<1>. QED  BY <1>7 DEF Abstract!Next

\* Unwinding is unwinding.
LEMMA CancelledMaps == ASSUME Inv, Cancelled PROVE Abstract!Next
<1>1. Edges' = Edges /\ Calls' = CallsOf(arena, stack')
  BY ColumnsStay DEF Cancelled
<1>2. Calls' = <<>> /\ count' = count
  BY <1>1 DEF Cancelled, CallsOf
<1>. QED  BY <1>1, <1>2 DEF Abstract!Cancelled, Abstract!Next

\* A slice does not change when its vector is extended.
LEMMA SliceExtended ==
    ASSUME NEW v \in Seq(Ids), NEW q \in Seq(Ids), NEW s \in Nat, NEW l \in Nat,
           s + l <= Len(v)
    PROVE  Slice(v \o q, s, l) = Slice(v, s, l)
<1>1. \A i \in 1..l : (v \o q)[s + i] = v[s + i]
  <2>. SUFFICES ASSUME NEW i \in 1..l PROVE (v \o q)[s + i] = v[s + i]
    OBVIOUS
  <2>1. s + i \in 1..Len(v) + Len(q) /\ s + i <= Len(v)
    BY LenProperties
  <2>. QED  BY <2>1, ConcatProperties
<1>. QED  BY <1>1 DEF Slice

\* The slice that was appended.
LEMMA SliceAppended ==
    ASSUME NEW v \in Seq(Ids), NEW q \in Seq(Ids)
    PROVE  Slice(v \o q, Len(v), Len(q)) = q
<1>0. Len(v) \in Nat /\ Len(q) \in Nat /\ v \o q \in Seq(Ids) /\ Len(v \o q) = Len(v) + Len(q)
  BY LenProperties, ConcatProperties
<1>. DEFINE r == Slice(v \o q, Len(v), Len(q))
<1>1. /\ r \in Seq(Ids) /\ Len(r) = Len(q)
      /\ \A i \in 1..Len(q) : r[i] = (v \o q)[Len(v) + i]
  <2>1. PICK w \in Seq(Ids) : w = v \o q
    BY <1>0
  <2>2. Len(v) + Len(q) <= Len(w)
    BY <1>0, <2>1
  <2>. QED  BY <1>0, <2>1, <2>2, SliceFacts
<1>2. \A i \in 1..Len(q) : (v \o q)[Len(v) + i] = q[i]
  <2>. SUFFICES ASSUME NEW i \in 1..Len(q) PROVE (v \o q)[Len(v) + i] = q[i]
    OBVIOUS
  <2>1. /\ Len(v) + i \in 1..Len(v) + Len(q)
        /\ ~(Len(v) + i <= Len(v)) /\ (Len(v) + i) - Len(v) = i
    BY <1>0
  <2>. QED  BY <2>1, ConcatProperties
<1>3. r = q
  <2>. HIDE DEF r
  <2>. QED  BY <1>0, <1>1, <1>2, SeqEqual
<1>. QED  BY <1>3

\* A commit replaces the list of its node and of no other.
LEMMA CommitMaps == ASSUME Inv, Commit PROVE Abstract!Next
<1>0. /\ stack # <<>> /\ cursor = 0 /\ stack \in Seq(Frame) /\ arena \in Seq(Ids)
      /\ start \in [Ids -> Nat] /\ length \in [Ids -> Nat]
  BY InFlightIdle DEF Inv, TypeOK, Commit
<1>1. Pop \in Seq(Frame) /\ Sound(Pop, arena, count)
  BY <1>0, PopSound
<1>2. Top \in Frame
  BY <1>0, TopAndPop
<1>3. PICK n \in Ids : n = Top.node
  BY <1>2 DEF Frame
<1>4. PICK D \in SUBSET Ids : D = Top.deps
  BY <1>2 DEF Frame
<1>5. PICK q \in Sorted(D) :
          /\ arena' = arena \o q
          /\ start' = [start EXCEPT ![n] = Len(arena)]
          /\ length' = [length EXCEPT ![n] = Len(q)]
  BY <1>3, <1>4 DEF Commit
<1>6. q \in Seq(Ids)
  BY SortedFacts
<1>7. /\ count' = count /\ cursor' = cursor /\ fresh' = fresh /\ stack' = Pop
  BY DEF Commit
<1>8. /\ Calls # <<>> /\ Abstract!Last = Call(arena, Top)
      /\ Abstract!Front = CallsOf(arena, Pop)
  BY <1>0, CallsTop
<1>9. Abstract!Last.mode = "execute" /\ Abstract!Last.node = n /\ Abstract!Last.read = D
  BY <1>3, <1>4, <1>8 DEF Call, Commit
<1>10. CallsOf(arena \o q, Pop) = CallsOf(arena, Pop)
  <2>1. ASSUME NEW i \in DOMAIN Pop PROVE Call(arena \o q, Pop[i]) = Call(arena, Pop[i])
    <3>1. Pop[i] \in Frame
      BY <1>1
    <3>2. PICK f \in Frame : f = Pop[i]
      BY <3>1
    <3>3. /\ f.s \in Nat /\ f.l \in Nat /\ f.j \in Nat
          /\ f.mode = "verify" \/ f.mode = "execute"
      BY DEF Frame
    <3>4. CASE f.mode = "verify"
      <4>1. f.s + f.l <= Len(arena) /\ f.j <= f.l
        BY <1>1, <3>2, <3>4 DEF Sound
      <4>2. f.s + f.j \in Nat /\ f.l - f.j \in Nat /\ (f.s + f.j) + (f.l - f.j) <= Len(arena)
        BY <1>0, <3>3, <4>1
      <4>3. Slice(arena \o q, f.s + f.j, f.l - f.j) = Slice(arena, f.s + f.j, f.l - f.j)
        BY <1>0, <1>6, <4>2, SliceExtended
      <4>. QED  BY <3>2, <4>3 DEF Call
    <3>5. CASE f.mode = "execute"
      BY <3>2, <3>5 DEF Call
    <3>. QED  BY <3>3, <3>4, <3>5
  <2>. QED  BY <2>1 DEF CallsOf
<1>11. Calls' = Abstract!Front
  BY <1>5, <1>7, <1>8, <1>10 DEF Calls
<1>12. Edges' = [Edges EXCEPT ![n] = q]
  <2>1. Edges' = [m \in Ids |-> Slice(arena \o q, start'[m], length'[m])]
    BY <1>0, <1>5, <1>7 DEF Edges, Home, Ids
  <2>2. Edges = [m \in Ids |-> Slice(arena, start[m], length[m])]
    BY <1>0 DEF Edges, Home, Ids
  <2>3. ASSUME NEW m \in Ids, m # n
        PROVE  Slice(arena \o q, start'[m], length'[m]) = Slice(arena, start[m], length[m])
    <3>1. start'[m] = start[m] /\ length'[m] = length[m] /\ start[m] \in Nat /\ length[m] \in Nat
      BY <1>0, <1>5, <2>3
    <3>2. start[m] + length[m] <= Len(arena)
      BY <1>0 DEF Inv, RangesInArena, Home, Ids
    <3>. QED  BY <1>0, <1>6, <3>1, <3>2, SliceExtended
  <2>4. Slice(arena \o q, start'[n], length'[n]) = q
    <3>1. start'[n] = Len(arena) /\ length'[n] = Len(q)
      BY <1>0, <1>5
    <3>. QED  BY <1>0, <1>6, <3>1, SliceAppended
  <2>. QED  BY <2>1, <2>2, <2>3, <2>4
<1>13. q \in Abstract!Lists(D)
  BY DEF Sorted, Increasing, Abstract!Lists, Abstract!Increasing, Abstract!Ids, Ids
<1>14. Abstract!Commit
  BY <1>7, <1>8, <1>9, <1>11, <1>12, <1>13 DEF Abstract!Commit
<1>. QED  BY <1>14 DEF Abstract!Next

\* compact is invisible.
LEMMA CompactMaps ==
    ASSUME Inv, CompactBegin \/ CompactNode \/ CompactEnd
    PROVE  UNCHANGED Abstract!vars
<1>0. /\ count \in 0..N /\ cursor \in 0..N + 1 /\ arena \in Seq(Ids) /\ fresh \in Seq(Ids)
      /\ start \in [Ids -> Nat] /\ length \in [Ids -> Nat]
  BY DEF Inv, TypeOK
<1>1. stack = <<>> /\ stack' = <<>> /\ count' = count
  BY <1>0, NAssumption DEF Inv, RangesInArena, CompactBegin, CompactNode, CompactEnd
<1>2. Calls = <<>> /\ Calls' = <<>>
  BY <1>1 DEF Calls, CallsOf
<1>3. ASSUME NEW m \in Ids
      PROVE  Slice(Home(m), start[m], length[m])' = Slice(Home(m), start[m], length[m])
  <2>0. m \in Nat /\ m >= 1 /\ start[m] \in Nat /\ length[m] \in Nat
    BY <1>0, NAssumption DEF Ids
  <2>1. CASE CompactBegin
    BY <2>0, <2>1 DEF CompactBegin, Home, Slice
  <2>2. CASE CompactNode /\ m < cursor
    <3>1. start'[m] = start[m] /\ length'[m] = length[m]
      BY <1>0, <2>0, <2>2, NAssumption DEF CompactNode
    <3>2. m < cursor'
      BY <1>0, <2>0, <2>2, NAssumption DEF CompactNode
    <3>3. PICK q : q = Slice(arena, start[cursor], length[cursor])
      OBVIOUS
    <3>4. fresh' = fresh \o q /\ q \in Seq(Ids)
      <4>1. cursor \in Ids /\ ~(cursor < cursor)
        BY <1>0, <2>2, NAssumption DEF CompactNode, Ids
      <4>2. /\ start[cursor] \in Nat /\ length[cursor] \in Nat
            /\ start[cursor] + length[cursor] <= Len(arena)
        BY <1>0, <4>1 DEF Inv, RangesInArena, Home
      <4>. QED  BY <1>0, <2>2, <3>3, <4>2, SliceFacts DEF CompactNode
    <3>5. start[m] + length[m] <= Len(fresh)
      BY <2>2 DEF Inv, RangesInArena, Home
    <3>6. Slice(fresh \o q, start[m], length[m]) = Slice(fresh, start[m], length[m])
      BY <1>0, <2>0, <3>4, <3>5, SliceExtended
    <3>. QED  BY <2>2, <3>1, <3>2, <3>4, <3>6 DEF Home
  <2>3. CASE CompactNode /\ m = cursor
    <3>1. start'[m] = Len(fresh) /\ length'[m] = length[m] /\ m < cursor' /\ ~(m < cursor)
      BY <1>0, <2>0, <2>3, NAssumption DEF CompactNode
    <3>2. PICK q : q = Slice(arena, start[m], length[m])
      OBVIOUS
    <3>3. start[m] + length[m] <= Len(arena)
      BY <3>1 DEF Inv, RangesInArena, Home
    <3>4. q \in Seq(Ids) /\ Len(q) = length[m] /\ fresh' = fresh \o q
      BY <1>0, <2>0, <2>3, <3>2, <3>3, SliceFacts DEF CompactNode
    <3>5. Slice(fresh \o q, Len(fresh), length[m]) = q
      BY <1>0, <3>4, SliceAppended
    <3>. QED  BY <3>1, <3>2, <3>4, <3>5 DEF Home
  <2>4. CASE CompactNode /\ m > cursor
    <3>1. /\ start'[m] = start[m] /\ length'[m] = length[m] /\ arena' = arena
          /\ ~(m < cursor') /\ ~(m < cursor)
      BY <1>0, <2>0, <2>4, NAssumption DEF CompactNode
    <3>. QED  BY <3>1 DEF Home
  <2>5. CASE CompactEnd /\ m <= count
    <3>1. /\ start' = start /\ length' = length /\ arena' = fresh
          /\ ~(m < cursor') /\ m < cursor
      BY <1>0, <2>0, <2>5, NAssumption DEF CompactEnd
    <3>. QED  BY <3>1 DEF Home
  <2>6. CASE CompactEnd /\ m > count
    <3>1. length[m] = 0 /\ start[m] = 0 /\ start' = start /\ length' = length
      BY <2>6 DEF Inv, AllInterned, CompactEnd
    <3>. QED  BY <3>1 DEF Slice
  <2>7. /\ m < cursor \/ m = cursor \/ m > cursor
        /\ m <= count \/ m > count
    BY <1>0, <2>0, NAssumption
  <2>. QED  BY <2>1, <2>2, <2>3, <2>4, <2>5, <2>6, <2>7, Zenon
<1>4. Edges' = Edges
  BY <1>3 DEF Edges
<1>. QED  BY <1>1, <1>2, <1>4 DEF Abstract!vars

\* The arena implements per-node edge lists: a verification walk goes through
\* the edges its node had when the walk began although executions append to
\* the vector meanwhile, and compact is invisible (Db::verify, execute, compact).
THEOREM ArenaImplementsDepSets == Spec => ImplementsDepSets
<1>1. Init => Abstract!Init
  BY NAssumption DEF Init, Abstract!Init, Edges, Home, Slice, Calls, CallsOf, Ids, Abstract!Ids
<1>2. Inv /\ [Next]_vars => [Abstract!Next]_(Abstract!vars)
  <2>. SUFFICES ASSUME Inv, [Next]_vars PROVE [Abstract!Next]_(Abstract!vars)
    OBVIOUS
  <2>1. CASE UNCHANGED vars
    <3>1. Edges' = Edges /\ Calls' = CallsOf(arena, stack')
      BY <2>1, ColumnsStay DEF vars
    <3>2. stack' = stack /\ count' = count
      BY <2>1 DEF vars
    <3>. QED  BY <3>1, <3>2 DEF Abstract!vars, Calls
  <2>2. CASE \E n \in Ids : Demand(n) \/ ExecuteRead(n)
    BY <2>2, DemandMaps, ExecuteReadMaps
  <2>. QED
    BY <2>1, <2>2, VerifyAskMaps, VerifyEndMaps, CommitMaps, CancelledMaps, CompactMaps DEF Next
<1>3. Spec => []Inv
  BY ArenaInvariant, PTL DEF Inv
<1>. QED  BY <1>1, <1>2, <1>3, PTL DEF Spec, ImplementsDepSets, Abstract!Spec

=============================================================================
