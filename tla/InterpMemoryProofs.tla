------------------------- MODULE InterpMemoryProofs -------------------------
(***************************************************************************)
(* Proofs about the memory of the interpreter, for any number of locals,   *)
(* brands and regions, any depth of calls, any generation and any program: *)
(* a pointer that resolves reaches the object it was made for, no window   *)
(* leaves its sequence, and a borrow that is still accepted has had        *)
(* nothing written past it.  At the end, the arithmetic on what the memory *)
(* holds.                                                                  *)
(***************************************************************************)
EXTENDS InterpMemory, Arithmetic, FiniteSetTheorems, SequenceTheorems, WellFoundedInduction, TLAPS

(***************************************************************************)
(* The invariant.  Good is the set of slots whose pointer, if they hold    *)
(* one, means what it was made to mean; every slot held is Good, and a     *)
(* step only ever makes more slots Good.                                   *)
(***************************************************************************)
Triples == {"root", "alloc", "object"} \X Nat \X Nat
Targets ==
    [k : {"root"}, frame : Nat \ {0}, serial : Nat, root : Roots]
        \cup [k : {"alloc"}, id : Nat \ {0}] \cup [k : {"arena"}, arena : Nat \ {0}, id : Nat \ {0}]
Ptrs == [target : Targets, tag : Nat, gen : Nat, off : Nat, born : Triples]
Slot == [st : {"uninit"}] \cup [st : {"moved"}] \cup [st : {"val"}, v : [data : Nat] \cup [cell : Nat] \cup Ptrs]

\* A pointer to a local: of the activation it was made in, whose borrow stack
\* for that local is there as long as the activation is.
RootOK(p) ==
    /\ p.target.serial < nextSerial
    /\ p.born = <<"root", p.target.serial, p.target.root>>
    /\ Alive(p.target) => RootKey(p.target.frame, p.target.root) \in DOMAIN borrows

\* A plain pointer: into an arena it may be stale, on the heap it is not.
AllocOK(p) ==
    /\ p.target.id \in 1..Len(allocs)
    /\ allocs[p.target.id].owner[1] = "heap" /\ p.off < allocs[p.target.id].size =>
           <<p.target.id, p.off>> \in DOMAIN owner /\ owner[<<p.target.id, p.off>>] = p.born

\* An arena Ref of the current generation is below the bump.
ArenaOK(p) ==
    /\ p.target.arena \in 1..Len(arenas)
    /\ p.target.id = arenas[p.target.arena].data
    /\ p.gen <= arenas[p.target.arena].gen
    /\ p.born # Handle /\ p.gen = arenas[p.target.arena].gen =>
           /\ p.off < arenas[p.target.arena].bump
           /\ <<p.target.id, p.off>> \in DOMAIN owner /\ owner[<<p.target.id, p.off>>] = p.born

SlotOK(s) ==
    /\ IsPtr(s) => CASE s.v.target.k = "root" -> RootOK(s.v)
                     [] s.v.target.k = "alloc" -> AllocOK(s.v)
                     [] OTHER -> ArenaOK(s.v)
    /\ IsCell(s) => s.v.cell \in 1..Len(cells)
Good == {s \in Slot : SlotOK(s)}

FrameOf(G) == [serial : Nat, roots : [Roots -> G], val : G]
Owners == ({"heap"} \X Brands) \cup ({"arena"} \X Nat)
AllocOf(G) == UNION {[owner : Owners, state : {"live", "freed", "reset"}, size : {n}, cells : [0..n - 1 -> G]] : n \in Nat}
CellOf(G) == [kind : {"agg", "slice"}, slots : Seq(G)]
Held(G) == frames \in Seq(FrameOf(G)) /\ allocs \in Seq(AllocOf(G)) /\ cells \in Seq(CellOf(G))

Counters ==
    /\ nextSerial \in Nat /\ nextTag \in Nat /\ objects \in Nat
    /\ fault = "none" => frames # <<>>
    /\ arenas \in Seq([gen : Nat, bump : Nat, data : Nat, region : Regions])
    /\ minted \in Seq([object : Triples, unique : BOOLEAN]) /\ Len(minted) = nextTag
    /\ clobbered \subseteq 1..nextTag

\* No two activations have one serial, and no two arenas one allocation.
Serials ==
    /\ \A i, j \in 1..Len(frames) : i < j => frames[i].serial < frames[j].serial
    /\ \A i \in 1..Len(frames) : frames[i].serial < nextSerial
Arenas ==
    \A a \in 1..Len(arenas) :
        /\ arenas[a].data \in 1..Len(allocs) /\ allocs[arenas[a].data].owner[1] = "arena"
        /\ \A b \in 1..Len(arenas) : a # b => arenas[a].data # arenas[b].data
Owned == DOMAIN owner \subseteq (1..Len(allocs)) \X Nat

\* A slice names an aggregate and lies in it.
Window(b, start, len) == <<Val(Scalar(b)), Val(Scalar(start)), Val(Scalar(len))>>
Windows ==
    \A c \in 1..Len(cells) : cells[c].kind = "slice" =>
        \E b \in 1..Len(cells), start, len \in Nat :
            /\ cells[c].slots = Window(b, start, len)
            /\ cells[b].kind = "agg" /\ start + len <= Len(cells[b].slots)

\* A borrow stack begins with the local itself, its tags grow, only its top may
\* be shared, and nothing in it has been written past.
Items == [unique : BOOLEAN, tags : SUBSET Nat]
StackOK(s, o, n, mints, gone) ==
    /\ s \in Seq(Items) /\ s # <<>> /\ s[1] = Item(TRUE, ROOT_TAG)
    /\ \A i \in 1..Len(s) - 1 : s[i].unique
    /\ \A i \in 1..Len(s) : s[i].unique => \A t, u \in s[i].tags : t = u
    /\ \A i, j \in 1..Len(s) : i < j => \A t \in s[i].tags, u \in s[j].tags : t < u
    /\ \A i \in 2..Len(s) : \A t \in s[i].tags :
           t \in 1..n /\ t \notin gone /\ mints[t].object = o /\ mints[t].unique = s[i].unique
RootKeys == {"root"} \X (1..Len(frames)) \X Roots
Stacks ==
    /\ DOMAIN borrows \subseteq RootKeys \cup ({"alloc"} \X Nat \X {0})
    /\ \A f \in 1..Len(frames), r \in Roots : RootKey(f, r) \in DOMAIN borrows =>
           StackOK(borrows[RootKey(f, r)], ObjectOf(f, r), nextTag, minted, clobbered)

MemoryInv == Held(Good) /\ Counters /\ Serials /\ Arenas /\ Owned /\ Windows /\ Stacks

-----------------------------------------------------------------------------
(* Borrow stacks.                                                          *)

\* The locals of a frame are numbered from one.
LEMMA RootsNumbered == \E n \in Nat : Roots = 1..n
BY RootsAssumption, FS_CardinalityType

\* A set of places has a last one, which is what iter().rposition() finds.
LEMMA LargestFacts ==
  ASSUME NEW n \in Nat, NEW S \in SUBSET (1..n)
  PROVE  /\ Largest(S) \in 0..n
         /\ S # {} => Largest(S) \in S /\ \A j \in S : j <= Largest(S)
         /\ S = {} => Largest(S) = 0
<1>1. ASSUME S # {} PROVE \E i \in S : \A j \in S : j <= i
  <2> DEFINE T == {n - i : i \in S}
  <2>0. \A i \in S : i \in 1..n /\ n - i \in Nat
    OBVIOUS
  <2>1. T \subseteq Nat /\ T # {}
    BY <1>1, <2>0
  <2>2. PICK m \in T : \A k \in T : ~(<<k, m>> \in OpToRel(<, Nat))
    <3> HIDE DEF T
    <3> QED
      BY <2>1, WFMin, NatLessThanWellFounded
  <2>3. \A k \in T : ~(k < m)
    BY <2>1, <2>2 DEF OpToRel
  <2>4. PICK i \in S : m = n - i
    BY <2>2
  <2>5. ASSUME NEW j \in S PROVE j <= i
    <3>1. n - j \in T /\ i \in 1..n /\ j \in 1..n
      OBVIOUS
    <3>2. ~(n - j < n - i)
      BY <2>3, <2>4, <3>1
    <3> QED
      BY <3>1, <3>2
  <2> QED
    BY <2>5
<1>2. ASSUME S # {} PROVE Largest(S) \in S /\ \A j \in S : j <= Largest(S)
  BY <1>1, <1>2 DEF Largest
<1>3. S = {} => Largest(S) = 0
  BY DEF Largest
<1>4. CASE S = {}
  BY <1>3, <1>4
<1>5. CASE S # {}
  <2>1. Largest(S) \in S /\ \A j \in S : j <= Largest(S)
    BY <1>2, <1>5
  <2>2. Largest(S) \in 1..n
    BY <2>1
  <2> QED
    BY <1>5, <2>1, <2>2
<1> QED
  BY <1>4, <1>5

\* What a well-formed stack is, place by place.
LEMMA StackFacts ==
  ASSUME NEW s, NEW o, NEW n, NEW mints, NEW gone, StackOK(s, o, n, mints, gone)
  PROVE  /\ s \in Seq(Items) /\ Len(s) \in Nat \ {0} /\ DOMAIN s = 1..Len(s)
         /\ \A i \in 1..Len(s) : s[i] \in Items
         /\ s[1].unique = TRUE /\ s[1].tags = {0}
<1>1. s \in Seq(Items) /\ s # <<>> /\ s[1] = [unique |-> TRUE, tags |-> {0}]
  BY DEF StackOK, Item, ROOT_TAG
<1>2. Len(s) \in Nat \ {0} /\ DOMAIN s = 1..Len(s) /\ \A i \in 1..Len(s) : s[i] \in Items
  BY <1>1, LenProperties, EmptySeq, ElementOfSeq
<1> QED
  BY <1>1, <1>2

\* Where a tag is found.
LEMMA PositionFacts ==
  ASSUME NEW s, NEW o, NEW n, NEW mints, NEW gone, StackOK(s, o, n, mints, gone), NEW tag
  PROVE  /\ Position(s, tag) \in 0..Len(s)
         /\ Position(s, tag) # 0 => tag \in s[Position(s, tag)].tags
         /\ Position(s, tag) = 0 => \A i \in 1..Len(s) : tag \notin s[i].tags
<1> DEFINE S == {i \in DOMAIN s : tag \in s[i].tags}
<1>1. Len(s) \in Nat /\ S \in SUBSET (1..Len(s)) /\ DOMAIN s = 1..Len(s)
  BY StackFacts
<1>2. /\ Largest(S) \in 0..Len(s)
      /\ S # {} => Largest(S) \in S
      /\ S = {} => Largest(S) = 0
  <2> HIDE DEF S
  <2> QED
    BY <1>1, LargestFacts
<1>3. Position(s, tag) = Largest(S)
  BY DEF Position
<1>4. Largest(S) # 0 => Largest(S) \in S
  BY <1>2
<1>5. Largest(S) = 0 => S = {}
  BY <1>1, <1>2
<1> QED
  BY <1>1, <1>2, <1>3, <1>4, <1>5

\* A stack cut above its first k places is still one.
LEMMA StackCut ==
  ASSUME NEW s, NEW o, NEW n \in Nat, NEW mints, NEW gone, StackOK(s, o, n, mints, gone), NEW k \in 1..Len(s)
  PROVE  /\ StackOK(SubSeq(s, 1, k), o, n, mints, gone)
         /\ Len(SubSeq(s, 1, k)) = k
         /\ \A i \in 1..k : SubSeq(s, 1, k)[i] = s[i]
<1> DEFINE c == SubSeq(s, 1, k)
<1>1. s \in Seq(Items) /\ Len(s) \in Nat \ {0} /\ \A i \in 1..Len(s) : s[i] \in Items
  BY StackFacts
<1>2. c \in Seq(Items) /\ Len(c) = k /\ \A i \in 1..k : c[i] = s[i]
  <2>1. \A i \in 1..k : s[i] \in Items
    BY <1>1
  <2>2. /\ c \in Seq(Items) /\ Len(c) = IF 1 <= k THEN k - 1 + 1 ELSE 0
        /\ \A i \in 1..k - 1 + 1 : c[i] = s[1 + i - 1]
    BY <1>1, <2>1, SubSeqProperties
  <2> HIDE DEF c
  <2> QED
    BY <1>1, <2>2
<1> HIDE DEF c
<1>3. c # <<>> /\ c[1] = s[1]
  BY <1>1, <1>2, EmptySeq
<1>4. StackOK(c, o, n, mints, gone)
  <2>1. c[1] = Item(TRUE, ROOT_TAG)
    BY <1>3 DEF StackOK
  <2>2. \A i \in 1..k - 1 : c[i].unique
    BY <1>1, <1>2 DEF StackOK
  <2>3. \A i \in 1..k : c[i].unique => \A t, u \in c[i].tags : t = u
    BY <1>1, <1>2 DEF StackOK
  <2>4. \A i, j \in 1..k : i < j => \A t \in c[i].tags, u \in c[j].tags : t < u
    BY <1>1, <1>2 DEF StackOK
  <2>5. \A i \in 2..k : \A t \in c[i].tags :
           t \in 1..n /\ t \notin gone /\ mints[t].object = o /\ mints[t].unique = c[i].unique
    <3> SUFFICES ASSUME NEW i \in 2..k, NEW t \in c[i].tags
                 PROVE  t \in 1..n /\ t \notin gone /\ mints[t].object = o /\ mints[t].unique = c[i].unique
      OBVIOUS
    <3>1. i \in 2..Len(s) /\ c[i] = s[i]
      BY <1>1, <1>2
    <3> QED
      BY <3>1 DEF StackOK
  <2> QED
    BY <1>2, <1>3, <2>1, <2>2, <2>3, <2>4, <2>5 DEF StackOK
<1> QED
  BY <1>2, <1>4 DEF c

\* A stack stays one when a tag is made for something else.
LEMMA StackOlder ==
  ASSUME NEW s, NEW o, NEW n \in Nat, NEW S, NEW mints \in Seq(S), Len(mints) = n, NEW gone,
         StackOK(s, o, n, mints, gone), NEW m \in S
  PROVE  StackOK(s, o, n + 1, Append(mints, m), gone)
<1> DEFINE ms == Append(mints, m)
<1>1. \A t \in 1..n : ms[t] = mints[t]
  BY AppendProperties
<1> HIDE DEF ms
<1>2. \A i \in 2..Len(s) : \A t \in s[i].tags :
          t \in 1..n + 1 /\ t \notin gone /\ ms[t].object = o /\ ms[t].unique = s[i].unique
  <2> SUFFICES ASSUME NEW i \in 2..Len(s), NEW t \in s[i].tags
               PROVE  t \in 1..n + 1 /\ t \notin gone /\ ms[t].object = o /\ ms[t].unique = s[i].unique
    OBVIOUS
  <2>1. t \in 1..n /\ t \notin gone /\ mints[t].object = o /\ mints[t].unique = s[i].unique
    BY DEF StackOK
  <2> QED
    BY <1>1, <2>1
<1>3. StackOK(s, o, n + 1, ms, gone)
  BY <1>2 DEF StackOK
<1> QED
  BY <1>3 DEF ms

\* A new item on top, above a unique one, for the tag made last.
LEMMA StackPush ==
  ASSUME NEW s, NEW o, NEW n \in Nat, NEW mints, NEW gone, StackOK(s, o, n + 1, mints, gone),
         \A i \in 1..Len(s) : s[i].unique /\ \A t \in s[i].tags : t <= n,
         NEW u \in BOOLEAN, mints[n + 1].object = o, mints[n + 1].unique = u, n + 1 \notin gone
  PROVE  StackOK(Append(s, Item(u, n + 1)), o, n + 1, mints, gone)
<1> DEFINE e == Item(u, n + 1)
<1> DEFINE c == Append(s, e)
<1>1. s \in Seq(Items) /\ Len(s) \in Nat \ {0} /\ \A i \in 1..Len(s) : s[i] \in Items
  BY StackFacts
<1>2. e \in Items /\ e.unique = u /\ e.tags = {n + 1}
  BY DEF Item, Items
<1> HIDE DEF e
<1>3. /\ c \in Seq(Items) /\ Len(c) = Len(s) + 1
      /\ \A i \in 1..Len(s) : c[i] = s[i]
      /\ c[Len(s) + 1] = e
  BY <1>1, <1>2, AppendProperties
<1> HIDE DEF c
<1>4. c # <<>> /\ c[1] = s[1]
  BY <1>1, <1>3, EmptySeq
<1>5. \A i \in 1..Len(c) : i \in 1..Len(s) \/ i = Len(s) + 1
  BY <1>1, <1>3
<1>6. \A i \in 1..Len(c) - 1 : c[i].unique
  BY <1>1, <1>3
<1>7. \A i \in 1..Len(c) : c[i].unique => \A t, w \in c[i].tags : t = w
  BY <1>1, <1>2, <1>3, <1>5 DEF StackOK
<1>8. \A i, j \in 1..Len(c) : i < j => \A t \in c[i].tags, w \in c[j].tags : t < w
  <2> SUFFICES ASSUME NEW i \in 1..Len(c), NEW j \in 1..Len(c), i < j, NEW t \in c[i].tags, NEW w \in c[j].tags
               PROVE  t < w
    OBVIOUS
  <2>1. i \in 1..Len(s) /\ c[i] = s[i] /\ t <= n /\ t \in Nat
    BY <1>1, <1>3, <1>5 DEF Items
  <2>2. CASE j \in 1..Len(s)
    BY <1>3, <2>1, <2>2 DEF StackOK
  <2>3. CASE j = Len(s) + 1
    BY <1>2, <1>3, <2>1, <2>3
  <2> QED
    BY <1>5, <2>2, <2>3
<1>9. \A i \in 2..Len(c) : \A t \in c[i].tags :
          t \in 1..n + 1 /\ t \notin gone /\ mints[t].object = o /\ mints[t].unique = c[i].unique
  <2> SUFFICES ASSUME NEW i \in 2..Len(c), NEW t \in c[i].tags
               PROVE  t \in 1..n + 1 /\ t \notin gone /\ mints[t].object = o /\ mints[t].unique = c[i].unique
    OBVIOUS
  <2>1. CASE i \in 1..Len(s)
    <3>1. i \in 2..Len(s) /\ c[i] = s[i]
      BY <1>3, <2>1
    <3> QED
      BY <3>1 DEF StackOK
  <2>2. CASE i = Len(s) + 1
    BY <1>2, <1>3, <2>2
  <2> QED
    BY <1>1, <1>3, <1>5, <2>1, <2>2
<1>10. c[1] = Item(TRUE, ROOT_TAG)
  BY <1>4 DEF StackOK
<1>11. StackOK(c, o, n + 1, mints, gone)
  BY <1>3, <1>4, <1>6, <1>7, <1>8, <1>9, <1>10 DEF StackOK
<1> QED
  BY <1>11 DEF c, e

\* The stack a local has before its first borrow.
LEMMA RootedStack ==
  ASSUME NEW o, NEW n, NEW mints, NEW gone
  PROVE  StackOK(Rooted(ROOT_TAG), o, n, mints, gone)
<1> DEFINE e == Item(TRUE, ROOT_TAG)
<1>1. e \in Items /\ e.unique = TRUE /\ e.tags = {0}
  BY DEF Item, Items, ROOT_TAG
<1>2. Rooted(ROOT_TAG) = <<e>>
  BY DEF Rooted
<1> HIDE DEF e
<1>3. <<e>> \in Seq(Items) /\ Len(<<e>>) = 1 /\ <<e>>[1] = e /\ <<e>> # <<>>
  BY <1>1
<1>4. \A i \in 1..1 : i = 1
  OBVIOUS
<1>5. StackOK(<<e>>, o, n, mints, gone)
  <2> DEFINE c == <<e>>
  <2>1. c \in Seq(Items) /\ Len(c) = 1 /\ c[1] = e /\ c # <<>>
    BY <1>3
  <2>2. e = Item(TRUE, ROOT_TAG)
    BY DEF e
  <2> HIDE DEF c
  <2>3. \A i \in 1..Len(c) - 1 : FALSE
    BY <2>1
  <2>4. \A i \in 2..Len(c) : FALSE
    BY <2>1
  <2>5. \A i \in 1..Len(c) : c[i] = e
    BY <2>1
  <2>6. \A i, j \in 1..Len(c) : ~(i < j)
    BY <2>1
  <2> HIDE DEF e
  <2>7. \A i \in 1..Len(c) : c[i].unique => \A t, u \in c[i].tags : t = u
    BY <1>1, <2>5
  <2>8. c[1] = Item(TRUE, ROOT_TAG)
    BY <2>1, <2>2
  <2>9. StackOK(c, o, n, mints, gone)
    BY <2>1, <2>3, <2>4, <2>6, <2>7, <2>8 DEF StackOK
  <2> QED
    BY <2>9 DEF c
<1> QED
  BY <1>2, <1>5

\* No tag of a stack is newer than the newest.
LEMMA TagsBounded ==
  ASSUME NEW s, NEW o, NEW n \in Nat, NEW mints, NEW gone, StackOK(s, o, n, mints, gone)
  PROVE  \A i \in 1..Len(s) : \A t \in s[i].tags : t \in 0..n
<1> SUFFICES ASSUME NEW i \in 1..Len(s), NEW t \in s[i].tags PROVE t \in 0..n
  OBVIOUS
<1>1. Len(s) \in Nat \ {0} /\ s[1].tags = {0}
  BY StackFacts
<1>2. CASE i = 1
  BY <1>1, <1>2
<1>3. CASE i # 1
  <2>1. i \in 2..Len(s)
    BY <1>1, <1>3
  <2>2. t \in 1..n
    BY <2>1 DEF StackOK
  <2> QED
    BY <2>2
<1> QED
  BY <1>2, <1>3

\* A tag that joins the shared group on top.
LEMMA StackJoin ==
  ASSUME NEW s, NEW o, NEW n \in Nat, NEW mints, NEW gone, StackOK(s, o, n + 1, mints, gone),
         \A i \in 1..Len(s) : \A t \in s[i].tags : t <= n, s[Len(s)].unique = FALSE,
         mints[n + 1].object = o, mints[n + 1].unique = FALSE, n + 1 \notin gone
  PROVE  StackOK([s EXCEPT ![Len(s)].tags = @ \cup {n + 1}], o, n + 1, mints, gone)
<1> DEFINE z == Len(s)
<1> DEFINE e == [s[z] EXCEPT !.tags = @ \cup {n + 1}]
<1> DEFINE c == [s EXCEPT ![z] = e]
<1>1. /\ s \in Seq(Items) /\ Len(s) \in Nat \ {0} /\ s[1].unique = TRUE
      /\ \A i \in 1..Len(s) : s[i] \in Items
  BY StackFacts
<1>2. e \in Items /\ e.unique = FALSE /\ e.tags = s[z].tags \cup {n + 1} /\ z \in 1..Len(s) /\ z # 1
  <2>1. s[z] \in Items /\ z # 1
    BY <1>1
  <2> QED
    BY <1>1, <2>1 DEF Items
<1> HIDE DEF e, z
<1>3. /\ c \in Seq(Items) /\ Len(c) = Len(s)
      /\ c[z] = e
      /\ \A i \in 1..Len(s) : i # z => c[i] = s[i]
  BY <1>1, <1>2, ExceptSeq
<1> HIDE DEF c
<1>4. c # <<>> /\ c[1] = Item(TRUE, ROOT_TAG)
  <2>1. 1 \in 1..Len(s)
    BY <1>1
  <2>2. c[1] = s[1]
    BY <1>2, <1>3, <2>1
  <2> QED
    BY <1>1, <1>3, <2>2, EmptySeq DEF StackOK
<1>5. \A i \in 1..Len(c) - 1 : c[i].unique
  <2> SUFFICES ASSUME NEW i \in 1..Len(s) - 1 PROVE c[i].unique
    BY <1>3
  <2>1. i \in 1..Len(s) /\ i # z
    BY <1>1 DEF z
  <2>2. c[i] = s[i]
    BY <1>3, <2>1
  <2> QED
    BY <2>2 DEF StackOK
<1>6. \A i \in 1..Len(c) : c[i].unique => \A t, w \in c[i].tags : t = w
  BY <1>2, <1>3 DEF StackOK
<1>7. \A i, j \in 1..Len(c) : i < j => \A t \in c[i].tags, w \in c[j].tags : t < w
  <2> SUFFICES ASSUME NEW i \in 1..Len(s), NEW j \in 1..Len(s), i < j, NEW t \in c[i].tags, NEW w \in c[j].tags
               PROVE  t < w
    BY <1>3
  <2>1. i # z
    BY <1>1 DEF z
  <2>2. c[i] = s[i] /\ s[i] \in Items
    BY <1>1, <1>3, <2>1
  <2>3. t <= n /\ t \in Nat /\ t \in s[i].tags
    BY <2>2 DEF Items
  <2>4. CASE w \in s[j].tags
    BY <2>3, <2>4 DEF StackOK
  <2>5. CASE w = n + 1
    BY <2>3, <2>5
  <2>6. w \in s[j].tags \/ w = n + 1
    BY <1>2, <1>3
  <2> QED
    BY <2>4, <2>5, <2>6
<1>8. \A i \in 2..Len(c) : \A t \in c[i].tags :
          t \in 1..n + 1 /\ t \notin gone /\ mints[t].object = o /\ mints[t].unique = c[i].unique
  <2> SUFFICES ASSUME NEW i \in 2..Len(s), NEW t \in c[i].tags
               PROVE  t \in 1..n + 1 /\ t \notin gone /\ mints[t].object = o /\ mints[t].unique = c[i].unique
    BY <1>3
  <2>1. i \in 1..Len(s)
    BY <1>1
  <2>2. CASE i # z
    <3>1. c[i] = s[i]
      BY <1>3, <2>1, <2>2
    <3> QED
      BY <3>1 DEF StackOK
  <2>3. CASE i = z
    <3>1. c[i] = e /\ s[i].unique = FALSE
      BY <1>3, <2>3 DEF z
    <3>2. CASE t = n + 1
      <4>1. t \in 1..n + 1
        BY <3>2
      <4>2. t \notin gone /\ mints[t].object = o /\ mints[t].unique = FALSE
        BY <3>2, Zenon
      <4>3. c[i].unique = FALSE
        BY <1>2, <3>1
      <4> QED
        BY <4>1, <4>2, <4>3
    <3>3. CASE t \in s[i].tags
      BY <1>2, <3>1, <3>3 DEF StackOK
    <3> QED
      BY <1>2, <2>3, <3>1, <3>2, <3>3
  <2> QED
    BY <2>2, <2>3
<1>9. StackOK(c, o, n + 1, mints, gone)
  BY <1>3, <1>4, <1>5, <1>6, <1>7, <1>8 DEF StackOK
<1>10. c = [s EXCEPT ![Len(s)].tags = @ \cup {n + 1}]
  BY DEF c, e, z
<1> QED
  BY <1>9, <1>10

\* push_unique: the shared group on top is cut, and the new tag put on.
LEMMA PushUniqueStack ==
  ASSUME NEW s, NEW o, NEW n \in Nat, NEW mints, NEW gone, n + 1 \notin gone,
         StackOK(s, o, n + 1, mints, gone), \A i \in 1..Len(s) : \A t \in s[i].tags : t <= n,
         mints[n + 1].object = o, mints[n + 1].unique = TRUE
  PROVE  StackOK(PushUnique(s, n + 1), o, n + 1, mints, gone)
<1> DEFINE U == {i \in DOMAIN s : s[i].unique}
<1> DEFINE k == Largest(U)
<1>1. Len(s) \in Nat \ {0} /\ DOMAIN s = 1..Len(s) /\ s[1].unique = TRUE
  BY StackFacts
<1>2. U \in SUBSET (1..Len(s)) /\ 1 \in U
  BY <1>1
<1>3. k \in 1..Len(s) /\ k \in U
  <2> HIDE DEF U
  <2> QED
    BY <1>1, <1>2, LargestFacts
<1>4. s[k].unique
  BY <1>3
<1> HIDE DEF U, k
<1> DEFINE c == SubSeq(s, 1, k)
<1>5. StackOK(c, o, n + 1, mints, gone) /\ Len(c) = k /\ \A i \in 1..k : c[i] = s[i]
  BY <1>3, StackCut
<1> HIDE DEF c
<1>6. \A i \in 1..k : i \in 1..Len(s) /\ s[i].unique
  <2> SUFFICES ASSUME NEW i \in 1..k PROVE i \in 1..Len(s) /\ s[i].unique
    OBVIOUS
  <2>1. i = k \/ i \in 1..Len(s) - 1
    BY <1>1, <1>3
  <2> QED
    BY <1>3, <1>4, <2>1 DEF StackOK
<1>7. \A i \in 1..Len(c) : c[i].unique /\ \A t \in c[i].tags : t <= n
  BY <1>5, <1>6
<1>8. StackOK(Append(c, Item(TRUE, n + 1)), o, n + 1, mints, gone)
  BY <1>5, <1>7, StackPush
<1> QED
  BY <1>8 DEF PushUnique, c, k, U

\* push_shared: into the shared group on top, or a group of its own.
LEMMA PushSharedStack ==
  ASSUME NEW s, NEW o, NEW n \in Nat, NEW mints, NEW gone, n + 1 \notin gone,
         StackOK(s, o, n + 1, mints, gone), \A i \in 1..Len(s) : \A t \in s[i].tags : t <= n,
         mints[n + 1].object = o, mints[n + 1].unique = FALSE
  PROVE  StackOK(PushShared(s, n + 1), o, n + 1, mints, gone)
<1>1. /\ s \in Seq(Items) /\ Len(s) \in Nat \ {0} /\ s # <<>> /\ Len(s) \in 1..Len(s)
      /\ s[Len(s)] \in Items
  BY StackFacts DEF StackOK
<1>2. s[Len(s)].unique \in BOOLEAN
  BY <1>1 DEF Items
<1>3. CASE s[Len(s)].unique = TRUE
  <2>1. \A i \in 1..Len(s) : s[i].unique
    <3> SUFFICES ASSUME NEW i \in 1..Len(s) PROVE s[i].unique
      OBVIOUS
    <3>1. i = Len(s) \/ i \in 1..Len(s) - 1
      BY <1>1
    <3> QED
      BY <1>3, <3>1 DEF StackOK
  <2>2. StackOK(Append(s, Item(FALSE, n + 1)), o, n + 1, mints, gone)
    BY <2>1, StackPush
  <2> QED
    BY <1>3, <2>2 DEF PushShared
<1>4. CASE s[Len(s)].unique = FALSE
  BY <1>1, <1>4, StackJoin DEF PushShared
<1> QED
  BY <1>2, <1>3, <1>4

\* The local itself may always be written.
LEMMA RootWrites ==
  ASSUME NEW s, NEW o, NEW n \in Nat, NEW mints, NEW gone, StackOK(s, o, n, mints, gone)
  PROVE  Allows(s, ROOT_TAG, "write")
<1> DEFINE k == Position(s, 0)
<1>1. Len(s) \in Nat \ {0} /\ s[1].unique = TRUE /\ s[1].tags = {0}
  BY StackFacts
<1>2. /\ k \in 0..Len(s)
      /\ k # 0 => 0 \in s[k].tags
      /\ k = 0 => \A i \in 1..Len(s) : 0 \notin s[i].tags
  BY PositionFacts
<1> HIDE DEF k
<1>3. k # 0 /\ k \in 1..Len(s) /\ 1 \in 1..Len(s) /\ 0 \in s[k].tags
  BY <1>1, <1>2
<1>4. ~(1 < k)
  <2> SUFFICES ASSUME 1 < k PROVE FALSE
    OBVIOUS
  <2>1. 0 < 0
    BY <1>1, <1>3 DEF StackOK
  <2> QED
    BY <2>1
<1>5. k = 1
  BY <1>3, <1>4
<1> QED
  <2>1. Position(s, ROOT_TAG) = 1
    BY <1>5 DEF ROOT_TAG, k
  <2>2. s[1].unique
    BY <1>1
  <2> QED
    BY <2>1, <2>2 DEF Allows

\* A write that the stack allows cuts it above the writer, so nothing that it
\* passed is left.
LEMMA WriteStack ==
  ASSUME NEW s, NEW o, NEW n \in Nat, NEW mints, NEW gone, StackOK(s, o, n, mints, gone),
         NEW tag \in Nat, Allows(s, tag, "write"), NEW now,
         \A t \in 1..n : t \in now => t \in gone \/ (t # tag /\ (t > tag \/ ~mints[t].unique))
  PROVE  StackOK(AfterWrite(s, tag), o, n, mints, now)
<1> DEFINE k == Position(s, tag)
<1>1. Len(s) \in Nat \ {0} /\ \A i \in 1..Len(s) : s[i] \in Items
  BY StackFacts
<1>2. k \in 1..Len(s) /\ tag \in s[k].tags /\ s[k].unique
  <2>1. k # 0 /\ s[k].unique
    BY DEF Allows
  <2>2. k \in 0..Len(s) /\ (k # 0 => tag \in s[k].tags)
    BY PositionFacts
  <2> HIDE DEF k
  <2> QED
    BY <1>1, <2>1, <2>2
<1>3. AfterWrite(s, tag) = SubSeq(s, 1, k)
  BY DEF AfterWrite
<1> HIDE DEF k
<1> DEFINE c == SubSeq(s, 1, k)
<1>4. StackOK(c, o, n, mints, gone) /\ Len(c) = k /\ \A i \in 1..k : c[i] = s[i]
  BY <1>2, StackCut
<1> HIDE DEF c
<1>5. ASSUME NEW i \in 2..Len(c), NEW t \in c[i].tags
      PROVE  t \in 1..n /\ t \notin now /\ mints[t].object = o /\ mints[t].unique = c[i].unique
  <2>1. t \in 1..n /\ t \notin gone /\ mints[t].object = o /\ mints[t].unique = c[i].unique
    BY <1>4 DEF StackOK
  <2>2. i \in 1..Len(s) /\ c[i] = s[i] /\ (i = k \/ (i \in 1..Len(s) - 1 /\ i < k))
    BY <1>1, <1>2, <1>4
  <2>3. CASE i = k
    <3>1. t = tag
      BY <1>2, <2>2, <2>3 DEF StackOK
    <3> QED
      BY <2>1, <3>1
  <2>4. CASE i \in 1..Len(s) - 1 /\ i < k
    <3>1. t < tag
      BY <1>2, <2>2, <2>4 DEF StackOK
    <3>2. s[i].unique
      BY <2>4 DEF StackOK
    <3>3. mints[t].unique
      BY <2>1, <2>2, <3>2
    <3>4. ~(t > tag)
      BY <2>1, <3>1
    <3> QED
      BY <2>1, <3>3, <3>4
  <2> QED
    BY <2>2, <2>3, <2>4
<1>6. StackOK(c, o, n, mints, now)
  BY <1>4, <1>5 DEF StackOK
<1> QED
  BY <1>3, <1>6 DEF c

\* A write to another object passes nothing of this one.
LEMMA OtherStack ==
  ASSUME NEW s, NEW o, NEW n \in Nat, NEW mints, NEW gone, StackOK(s, o, n, mints, gone), NEW now,
         \A t \in 1..n : t \in now => t \in gone \/ mints[t].object # o
  PROVE  StackOK(s, o, n, mints, now)
<1>1. ASSUME NEW i \in 2..Len(s), NEW t \in s[i].tags
      PROVE  t \in 1..n /\ t \notin now /\ mints[t].object = o /\ mints[t].unique = s[i].unique
  <2>1. t \in 1..n /\ t \notin gone /\ mints[t].object = o /\ mints[t].unique = s[i].unique
    BY DEF StackOK
  <2> QED
    BY <2>1
<1> QED
  BY <1>1 DEF StackOK

\* A borrow that is still in its stack has not been written past.
LEMMA InStackNotGone ==
  ASSUME NEW s, NEW o, NEW n \in Nat, NEW mints, NEW gone \in SUBSET (1..n), StackOK(s, o, n, mints, gone),
         NEW tag, Position(s, tag) # 0
  PROVE  tag \notin gone
<1> DEFINE k == Position(s, tag)
<1>1. Len(s) \in Nat \ {0} /\ s[1].tags = {0}
  BY StackFacts
<1>2. k \in 1..Len(s) /\ tag \in s[k].tags
  <2>1. k \in 0..Len(s) /\ k # 0 /\ (k # 0 => tag \in s[k].tags)
    BY PositionFacts
  <2> HIDE DEF k
  <2> QED
    BY <1>1, <2>1
<1> HIDE DEF k
<1>3. CASE k = 1
  BY <1>1, <1>2, <1>3
<1>4. CASE k # 1
  <2>1. k \in 2..Len(s)
    BY <1>1, <1>2, <1>4
  <2> QED
    BY <1>2, <2>1 DEF StackOK
<1> QED
  BY <1>3, <1>4

-----------------------------------------------------------------------------
(* Slots and pointers.                                                     *)

\* What the interpreter finds in a slot it has looked at.
LEMMA SlotKinds ==
  ASSUME NEW s \in Slot
  PROVE  /\ SlotFault(s) = "ok" => s.st = "val" /\ s.v \in [data : Nat] \cup [cell : Nat] \cup Ptrs
         /\ IsPtr(s) => s.st = "val" /\ s.v \in Ptrs /\ s = Val(s.v)
         /\ IsCell(s) => s.st = "val" /\ s.v \in [cell : Nat]
<1>1. CASE s \in [st : {"uninit"}]
  BY <1>1 DEF SlotFault, IsPtr, IsCell
<1>2. CASE s \in [st : {"moved"}]
  BY <1>2 DEF SlotFault, IsPtr, IsCell
<1>3. CASE s \in [st : {"val"}, v : [data : Nat] \cup [cell : Nat] \cup Ptrs]
  <2>1. s.st = "val" /\ s.v \in [data : Nat] \cup [cell : Nat] \cup Ptrs /\ s = Val(s.v)
    BY <1>3 DEF Val
  <2>2. CASE s.v \in [data : Nat]
    <3>1. DOMAIN s.v = {"data"}
      BY <2>2
    <3> QED
      BY <2>1, <3>1 DEF IsPtr, IsCell
  <2>3. CASE s.v \in [cell : Nat]
    <3>1. DOMAIN s.v = {"cell"}
      BY <2>3
    <3> QED
      BY <2>1, <2>3, <3>1 DEF IsPtr, IsCell
  <2>4. CASE s.v \in Ptrs
    <3>1. DOMAIN s.v = {"target", "tag", "gen", "off", "born"}
      BY <2>4 DEF Ptrs
    <3> QED
      BY <2>1, <2>4, <3>1 DEF IsPtr, IsCell
  <2> QED
    BY <2>1, <2>2, <2>3, <2>4
<1> QED
  BY <1>1, <1>2, <1>3 DEF Slot

\* What a pointer points to.
LEMMA TargetKinds ==
  ASSUME NEW p \in Ptrs
  PROVE  /\ p.tag \in Nat /\ p.gen \in Nat /\ p.off \in Nat /\ p.born \in Triples
         /\ p.target.k \in {"root", "alloc", "arena"}
         /\ p.target.k = "root" => p.target.frame \in Nat \ {0} /\ p.target.serial \in Nat /\ p.target.root \in Roots
         /\ p.target.k = "alloc" => p.target.id \in Nat \ {0}
         /\ p.target.k = "arena" => p.target.arena \in Nat \ {0} /\ p.target.id \in Nat \ {0}
<1>1. p.tag \in Nat /\ p.gen \in Nat /\ p.off \in Nat /\ p.born \in Triples /\ p.target \in Targets
  BY DEF Ptrs
<1> DEFINE t == p.target
<1>2. CASE t \in [k : {"root"}, frame : Nat \ {0}, serial : Nat, root : Roots]
  BY <1>1, <1>2
<1>3. CASE t \in [k : {"alloc"}, id : Nat \ {0}]
  BY <1>1, <1>3
<1>4. CASE t \in [k : {"arena"}, arena : Nat \ {0}, id : Nat \ {0}]
  BY <1>1, <1>4
<1> QED
  BY <1>1, <1>2, <1>3, <1>4 DEF Targets

\* The slots that hold no pointer and no cell are always good.
LEMMA PlainSlots ==
  /\ Uninit \in Good /\ MovedOut \in Good
  /\ \A n \in Nat : Val(Scalar(n)) \in Good
<1>1. Uninit \in Good
  <2>1. Uninit \in Slot /\ Uninit.st = "uninit"
    BY DEF Uninit, Slot
  <2> QED
    BY <2>1 DEF Good, SlotOK, IsPtr, IsCell
<1>2. MovedOut \in Good
  <2>1. MovedOut \in Slot /\ MovedOut.st = "moved"
    BY DEF MovedOut, Slot
  <2> QED
    BY <2>1 DEF Good, SlotOK, IsPtr, IsCell
<1>3. ASSUME NEW n \in Nat PROVE Val(Scalar(n)) \in Good
  <2> DEFINE s == Val(Scalar(n))
  <2>1. s \in Slot /\ s.v = [data |-> n]
    BY DEF Val, Scalar, Slot
  <2>2. DOMAIN s.v = {"data"}
    BY <2>1
  <2> HIDE DEF s
  <2>3. s \in Good
    BY <2>1, <2>2 DEF Good, SlotOK, IsPtr, IsCell
  <2> QED
    BY <2>3 DEF s
<1> QED
  BY <1>1, <1>2, <1>3

\* A pointer in a slot is good exactly if what it points to is as it should be.
PtrOK(p) ==
    /\ p.target.k = "root" => RootOK(p)
    /\ p.target.k = "alloc" => AllocOK(p)
    /\ p.target.k = "arena" => ArenaOK(p)

\* The pointers of good slots, and the slots of good pointers.
LEMMA GoodPointers ==
  /\ \A s \in Good : IsPtr(s) => s.v \in Ptrs /\ PtrOK(s.v)
  /\ \A p \in Ptrs : PtrOK(p) => Val(p) \in Good
<1>1. ASSUME NEW s \in Good, IsPtr(s) PROVE s.v \in Ptrs /\ PtrOK(s.v)
  <2>1. s \in Slot /\ SlotOK(s)
    BY DEF Good
  <2>2. s.v \in Ptrs
    BY <1>1, <2>1, SlotKinds
  <2> QED
    BY <1>1, <2>1, <2>2 DEF SlotOK, PtrOK
<1>2. ASSUME NEW p \in Ptrs, PtrOK(p) PROVE Val(p) \in Good
  <2> DEFINE s == Val(p)
  <2>1. s \in Slot /\ s.v = p
    BY DEF Val, Slot
  <2>2. DOMAIN p = {"target", "tag", "gen", "off", "born"}
    BY DEF Ptrs
  <2>3. p.target.k \in {"root", "alloc", "arena"}
    BY TargetKinds
  <2> HIDE DEF s
  <2>4. s \in Good
    BY <1>2, <2>1, <2>2, <2>3 DEF Good, SlotOK, IsPtr, IsCell, PtrOK
  <2> QED
    BY <2>4 DEF s
<1> QED
  BY <1>1, <1>2

\* A reference to a cell that exists is good.
LEMMA GoodCells == \A c \in Nat : c \in 1..Len(cells) => Val(CellRef(c)) \in Good
<1> SUFFICES ASSUME NEW c \in Nat, c \in 1..Len(cells) PROVE Val(CellRef(c)) \in Good
  OBVIOUS
<1> DEFINE s == Val(CellRef(c))
<1>1. s \in Slot /\ s.v = [cell |-> c]
  BY DEF Val, CellRef, Slot
<1>2. DOMAIN s.v = {"cell"} /\ s.v.cell = c
  BY <1>1
<1> HIDE DEF s
<1>3. s \in Good
  BY <1>1, <1>2 DEF Good, SlotOK, IsPtr, IsCell
<1> QED
  BY <1>3 DEF s

\* The same in the next state.
LEMMA GoodNext ==
  /\ Uninit \in Good' /\ MovedOut \in Good'
  /\ \A n \in Nat : Val(Scalar(n)) \in Good'
  /\ \A p \in Ptrs : PtrOK(p)' => Val(p) \in Good'
  /\ \A c \in Nat : c \in 1..Len(cells') => Val(CellRef(c)) \in Good'
<1>1. (Uninit \in Good)' /\ (MovedOut \in Good)' /\ (\A n \in Nat : Val(Scalar(n)) \in Good)'
  BY PlainSlots, PTL
<1>2. (\A p \in Ptrs : PtrOK(p) => Val(p) \in Good)'
  BY GoodPointers, PTL
<1>3. (\A c \in Nat : c \in 1..Len(cells) => Val(CellRef(c)) \in Good)'
  BY GoodCells, PTL
<1> QED
  BY <1>1, <1>2, <1>3 DEF Uninit, MovedOut, Val, Scalar, CellRef

(***************************************************************************)
(* What a step may do to the rest of the memory without making a good      *)
(* pointer bad.                                                            *)
(***************************************************************************)

\* An activation that was not there before is younger than every pointer, and
\* one that stays keeps its borrow stacks.
RootsStay ==
    /\ nextSerial' \in Nat /\ nextSerial <= nextSerial' /\ Len(frames') \in Nat
    /\ \A f \in 1..Len(frames') : frames'[f].serial < nextSerial =>
           /\ f \in 1..Len(frames) /\ frames'[f].serial = frames[f].serial
           /\ \A r \in Roots : RootKey(f, r) \in DOMAIN borrows => RootKey(f, r) \in DOMAIN borrows'

\* A heap allocation keeps its size and the objects in it.
AllocsStay ==
    /\ Len(allocs') \in Nat /\ Len(allocs) <= Len(allocs')
    /\ \A i \in 1..Len(allocs) :
           /\ allocs'[i].owner[1] = allocs[i].owner[1]
           /\ allocs[i].owner[1] = "heap" =>
                  /\ allocs'[i].size = allocs[i].size
                  /\ \A j \in Nat : <<i, j>> \in DOMAIN owner =>
                         <<i, j>> \in DOMAIN owner' /\ owner'[<<i, j>>] = owner[<<i, j>>]

\* An arena keeps its data, and within a generation what is below its bump.
ArenasStay ==
    /\ Len(arenas') \in Nat /\ Len(arenas) <= Len(arenas')
    /\ \A a \in 1..Len(arenas) :
           /\ arenas'[a].data = arenas[a].data
           /\ arenas'[a].gen \in Nat /\ arenas[a].gen <= arenas'[a].gen
           /\ arenas'[a].gen = arenas[a].gen =>
                  /\ arenas'[a].bump \in Nat /\ arenas[a].bump <= arenas'[a].bump
                  /\ \A j \in Nat : j < arenas[a].bump /\ <<arenas[a].data, j>> \in DOMAIN owner =>
                         /\ <<arenas[a].data, j>> \in DOMAIN owner'
                         /\ owner'[<<arenas[a].data, j>>] = owner[<<arenas[a].data, j>>]

CellsStay == Len(cells') \in Nat /\ Len(cells) <= Len(cells')
MemoryStays == RootsStay /\ AllocsStay /\ ArenasStay /\ CellsStay

\* What has a length.
LEMMA Lengths ==
  ASSUME Held(Good), Counters
  PROVE  /\ Len(frames) \in Nat /\ Len(allocs) \in Nat /\ Len(cells) \in Nat
         /\ Len(arenas) \in Nat /\ Len(minted) \in Nat
         /\ \A i \in 1..Len(frames) : frames[i] \in FrameOf(Good)
         /\ \A i \in 1..Len(allocs) : allocs[i] \in AllocOf(Good)
         /\ \A i \in 1..Len(cells) : cells[i] \in CellOf(Good)
         /\ \A i \in 1..Len(arenas) : arenas[i] \in [gen : Nat, bump : Nat, data : Nat, region : Regions]
BY LenProperties, ElementOfSeq DEF Held, Counters

\* Then whatever was good is good.
LEMMA GoodGrows ==
  ASSUME Held(Good), Counters, MemoryStays
  PROVE  Good \subseteq Good'
<1>1. /\ Len(frames) \in Nat /\ Len(allocs) \in Nat /\ Len(cells) \in Nat /\ Len(arenas) \in Nat
      /\ \A i \in 1..Len(frames) : frames[i].serial \in Nat
      /\ \A i \in 1..Len(arenas) : arenas[i].gen \in Nat /\ arenas[i].bump \in Nat
      /\ nextSerial \in Nat
  BY Lengths DEF FrameOf, Counters
<1>2. ASSUME NEW p \in Ptrs, p.target.k = "root", RootOK(p) PROVE RootOK(p)'
  <2>1. p.target.frame \in Nat \ {0} /\ p.target.serial \in Nat /\ p.target.root \in Roots
    BY <1>2, TargetKinds
  <2>2. p.target.serial < nextSerial /\ p.target.serial < nextSerial'
    BY <1>1, <1>2, <2>1 DEF RootOK, MemoryStays, RootsStay
  <2>3. ASSUME p.target.frame <= Len(frames'), frames'[p.target.frame].serial = p.target.serial
        PROVE  RootKey(p.target.frame, p.target.root) \in DOMAIN borrows'
    <3>1. p.target.frame \in 1..Len(frames')
      BY <2>1, <2>3 DEF MemoryStays, RootsStay
    <3>2. /\ p.target.frame \in 1..Len(frames)
          /\ frames[p.target.frame].serial = p.target.serial
          /\ RootKey(p.target.frame, p.target.root) \in DOMAIN borrows =>
                 RootKey(p.target.frame, p.target.root) \in DOMAIN borrows'
      BY <2>1, <2>2, <2>3, <3>1 DEF MemoryStays, RootsStay
    <3> QED
      BY <1>1, <1>2, <3>2 DEF RootOK, Alive
  <2> QED
    BY <1>2, <2>2, <2>3 DEF RootOK, Alive, RootKey
<1>3. ASSUME NEW p \in Ptrs, p.target.k = "alloc", AllocOK(p) PROVE AllocOK(p)'
  <2>1. p.off \in Nat
    BY TargetKinds
  <2>2. p.target.id \in 1..Len(allocs) /\ p.target.id \in 1..Len(allocs')
    BY <1>1, <1>3 DEF AllocOK, MemoryStays, AllocsStay
  <2> QED
    BY <1>3, <2>1, <2>2 DEF AllocOK, MemoryStays, AllocsStay
<1>4. ASSUME NEW p \in Ptrs, p.target.k = "arena", ArenaOK(p) PROVE ArenaOK(p)'
  <2>1. p.off \in Nat /\ p.gen \in Nat
    BY TargetKinds
  <2> DEFINE a == p.target.arena
  <2>2. /\ a \in 1..Len(arenas) /\ a \in 1..Len(arenas')
        /\ p.target.id = arenas[a].data /\ p.target.id = arenas'[a].data
        /\ p.gen <= arenas[a].gen
    BY <1>1, <1>4 DEF ArenaOK, MemoryStays, ArenasStay
  <2>3. /\ arenas[a].gen \in Nat /\ arenas[a].bump \in Nat
        /\ arenas'[a].gen \in Nat /\ arenas[a].gen <= arenas'[a].gen
    BY <1>1, <2>2 DEF MemoryStays, ArenasStay
  <2>4. p.gen <= arenas'[a].gen
    BY <2>1, <2>2, <2>3
  <2>5. ASSUME p.born # Handle, p.gen = arenas'[a].gen
        PROVE  /\ p.off < arenas'[a].bump
               /\ <<p.target.id, p.off>> \in DOMAIN owner' /\ owner'[<<p.target.id, p.off>>] = p.born
    <3>1. p.gen = arenas[a].gen /\ arenas'[a].gen = arenas[a].gen
      BY <2>1, <2>2, <2>3, <2>5
    <3>2. /\ p.off < arenas[a].bump
          /\ <<arenas[a].data, p.off>> \in DOMAIN owner /\ owner[<<arenas[a].data, p.off>>] = p.born
      BY <1>4, <2>2, <2>5, <3>1 DEF ArenaOK
    <3>3. /\ arenas'[a].bump \in Nat /\ arenas[a].bump <= arenas'[a].bump
          /\ <<arenas[a].data, p.off>> \in DOMAIN owner'
          /\ owner'[<<arenas[a].data, p.off>>] = owner[<<arenas[a].data, p.off>>]
      BY <2>1, <2>2, <3>1, <3>2 DEF MemoryStays, ArenasStay
    <3>4. p.off < arenas'[a].bump
      BY <2>1, <2>3, <3>2, <3>3
    <3> QED
      BY <2>2, <3>2, <3>3, <3>4
  <2> QED
    BY <2>2, <2>4, <2>5 DEF ArenaOK, Handle
<1>5. ASSUME NEW s \in Good PROVE s \in Good'
  <2>1. s \in Slot /\ SlotOK(s)
    BY DEF Good
  <2>2. IsCell(s) => s.v.cell \in 1..Len(cells')
    <3>1. IsCell(s) => s.v.cell \in 1..Len(cells)
      BY <2>1 DEF SlotOK
    <3> QED
      BY <1>1, <3>1 DEF MemoryStays, CellsStay
  <2>3. CASE IsPtr(s)
    <3>1. s.v \in Ptrs /\ PtrOK(s.v)
      BY <2>3, GoodPointers
    <3>2. s.v.target.k \in {"root", "alloc", "arena"}
      BY <3>1, TargetKinds
    <3> QED
      BY <1>2, <1>3, <1>4, <2>1, <2>2, <3>1, <3>2 DEF Good, SlotOK, PtrOK, IsPtr, IsCell
  <2>4. CASE ~IsPtr(s)
    BY <2>1, <2>2, <2>4 DEF Good, SlotOK, IsPtr, IsCell
  <2> QED
    BY <2>3, <2>4
<1> QED
  BY <1>5

-----------------------------------------------------------------------------
(* Frames.                                                                 *)

\* Where more slots are good, frames, allocations and cells that were good are.
LEMMA SetsGrow ==
  ASSUME NEW G, NEW H, G \subseteq H
  PROVE  /\ \A s : s \in Seq(FrameOf(G)) => s \in Seq(FrameOf(H))
         /\ \A s : s \in Seq(AllocOf(G)) => s \in Seq(AllocOf(H))
         /\ \A s : s \in Seq(CellOf(G)) => s \in Seq(CellOf(H))
<1>1. FrameOf(G) \subseteq FrameOf(H)
  BY DEF FrameOf
<1>2. AllocOf(G) \subseteq AllocOf(H)
  <2> SUFFICES ASSUME NEW a \in AllocOf(G) PROVE a \in AllocOf(H)
    OBVIOUS
  <2>1. PICK n \in Nat : a \in [owner : Owners, state : {"live", "freed", "reset"}, size : {n}, cells : [0..n - 1 -> G]]
    BY DEF AllocOf
  <2>2. a \in [owner : Owners, state : {"live", "freed", "reset"}, size : {n}, cells : [0..n - 1 -> H]]
    BY <2>1
  <2> QED
    BY <2>2 DEF AllocOf
<1>3. CellOf(G) \subseteq CellOf(H)
  <2> SUFFICES ASSUME NEW c \in CellOf(G) PROVE c \in CellOf(H)
    OBVIOUS
  <2>1. c.slots \in Seq(H)
    BY DEF CellOf
  <2> QED
    BY <2>1 DEF CellOf
<1>4. ASSUME NEW S, NEW T, S \subseteq T, NEW s \in Seq(S) PROVE s \in Seq(T)
  BY <1>4
<1> QED
  BY <1>1, <1>2, <1>3, <1>4

\* What is held stays good.
LEMMA HeldGrows ==
  ASSUME Good \subseteq Good', frames' \in Seq(FrameOf(Good)), allocs' \in Seq(AllocOf(Good)), cells' \in Seq(CellOf(Good))
  PROVE  Held(Good)'
BY SetsGrow DEF Held

\* An allocation, field by field.
LEMMA AllocFacts ==
  ASSUME NEW G, NEW a
  PROVE  a \in AllocOf(G) <=>
         /\ a = [owner |-> a.owner, state |-> a.state, size |-> a.size, cells |-> a.cells]
         /\ a.owner \in Owners /\ a.state \in {"live", "freed", "reset"} /\ a.size \in Nat
         /\ a.cells \in [0..a.size - 1 -> G]
<1>1. ASSUME a \in AllocOf(G)
      PROVE  /\ a = [owner |-> a.owner, state |-> a.state, size |-> a.size, cells |-> a.cells]
             /\ a.owner \in Owners /\ a.state \in {"live", "freed", "reset"} /\ a.size \in Nat
             /\ a.cells \in [0..a.size - 1 -> G]
  <2>1. PICK n \in Nat : a \in [owner : Owners, state : {"live", "freed", "reset"}, size : {n}, cells : [0..n - 1 -> G]]
    BY <1>1 DEF AllocOf
  <2> QED
    BY <2>1
<1>2. ASSUME /\ a = [owner |-> a.owner, state |-> a.state, size |-> a.size, cells |-> a.cells]
             /\ a.owner \in Owners /\ a.state \in {"live", "freed", "reset"} /\ a.size \in Nat
             /\ a.cells \in [0..a.size - 1 -> G]
      PROVE  a \in AllocOf(G)
  <2>1. a \in [owner : Owners, state : {"live", "freed", "reset"}, size : {a.size}, cells : [0..a.size - 1 -> G]]
    BY <1>2
  <2> QED
    BY <1>2, <2>1 DEF AllocOf
<1> QED
  BY <1>1, <1>2

\* A step that leaves every activation where it is.
SameShape ==
    /\ Len(frames') = Len(frames)
    /\ \A i \in 1..Len(frames) : frames'[i].serial = frames[i].serial

\* One frame replaced by another of the same activation.
LEMMA FrameReplaced ==
  ASSUME NEW G, frames \in Seq(FrameOf(G)), NEW i \in 1..Len(frames), NEW f \in FrameOf(G),
         f.serial = frames[i].serial, frames' = [frames EXCEPT ![i] = f]
  PROVE  frames' \in Seq(FrameOf(G)) /\ SameShape
<1>1. /\ frames' \in Seq(FrameOf(G)) /\ Len(frames') = Len(frames)
      /\ \A j \in 1..Len(frames) : frames'[j] = IF j = i THEN f ELSE frames[j]
  BY ExceptSeq
<1> QED
  BY <1>1 DEF SameShape

\* A value is defined in the frame on top.
LEMMA Defines ==
  ASSUME NEW G, frames \in Seq(FrameOf(G)), frames # <<>>, NEW s \in G, Define(s)
  PROVE  frames' \in Seq(FrameOf(G)) /\ SameShape
<1> DEFINE f == [frames[Top] EXCEPT !.val = s]
<1>1. Top \in 1..Len(frames) /\ frames[Top] \in FrameOf(G)
  BY LenProperties, EmptySeq, ElementOfSeq DEF Top
<1>2. f \in FrameOf(G) /\ f.serial = frames[Top].serial
  BY <1>1 DEF FrameOf
<1>3. frames' = [frames EXCEPT ![Top] = f]
  BY DEF Define
<1> HIDE DEF f
<1> QED
  BY <1>1, <1>2, <1>3, FrameReplaced

\* A local is set, in whatever frame it is.
LEMMA SetsRoot ==
  ASSUME NEW G, frames \in Seq(FrameOf(G)), NEW i \in 1..Len(frames), NEW r \in Roots, NEW s \in G, SetRoot(i, r, s)
  PROVE  frames' \in Seq(FrameOf(G)) /\ SameShape
<1> DEFINE f == [frames[i] EXCEPT !.roots[r] = s]
<1>1. frames[i] \in FrameOf(G)
  BY ElementOfSeq
<1>2. f \in FrameOf(G) /\ f.serial = frames[i].serial
  BY <1>1 DEF FrameOf
<1>3. frames' = [frames EXCEPT ![i] = f]
  BY DEF SetRoot
<1> HIDE DEF f
<1> QED
  BY <1>2, <1>3, FrameReplaced

\* A local of the frame on top is set, and a value defined.
LEMMA SetsBoth ==
  ASSUME NEW G, frames \in Seq(FrameOf(G)), frames # <<>>, NEW r \in Roots, NEW s \in G, NEW v \in G,
         frames' = [frames EXCEPT ![Top] = [frames[Top] EXCEPT !.roots[r] = s, !.val = v]]
  PROVE  frames' \in Seq(FrameOf(G)) /\ SameShape
<1> DEFINE f == [frames[Top] EXCEPT !.roots[r] = s, !.val = v]
<1>1. Top \in 1..Len(frames) /\ frames[Top] \in FrameOf(G)
  BY LenProperties, EmptySeq, ElementOfSeq DEF Top
<1>2. f \in FrameOf(G) /\ f.serial = frames[Top].serial
  BY <1>1 DEF FrameOf
<1>3. frames' = [frames EXCEPT ![Top] = f]
  OBVIOUS
<1> HIDE DEF f
<1> QED
  BY <1>1, <1>2, <1>3, FrameReplaced

\* Then serials stay in order, and live activations keep what they had.
LEMMA ShapeKeeps ==
  ASSUME Held(Good), Counters, Serials, SameShape, nextSerial' = nextSerial,
         DOMAIN borrows \subseteq DOMAIN borrows'
  PROVE  Serials' /\ RootsStay /\ \A f \in 1..Len(frames), r \in Roots : ObjectOf(f, r)' = ObjectOf(f, r)
<1>1. Len(frames) \in Nat /\ nextSerial \in Nat /\ \A i \in 1..Len(frames) : frames[i].serial \in Nat
  BY Lengths DEF FrameOf, Counters
<1>2. Serials'
  BY <1>1 DEF Serials, SameShape
<1>3. RootsStay
  BY <1>1 DEF RootsStay, SameShape, RootKey
<1> QED
  BY <1>2, <1>3 DEF SameShape, ObjectOf

-----------------------------------------------------------------------------
(* Borrow stacks through a step.                                           *)

\* The locals of two activations, and two locals of one, are different objects.
LEMMA ObjectsDiffer ==
  ASSUME Held(Good), Counters, Serials, NEW f \in 1..Len(frames), NEW g \in 1..Len(frames),
         NEW r, NEW q, ObjectOf(f, r) = ObjectOf(g, q)
  PROVE  f = g /\ r = q
<1>1. Len(frames) \in Nat /\ \A i \in 1..Len(frames) : frames[i].serial \in Nat
  BY Lengths DEF FrameOf
<1>2. frames[f].serial = frames[g].serial /\ r = q
  BY DEF ObjectOf
<1>3. f < g \/ g < f \/ f = g
  BY <1>1
<1> QED
  BY <1>1, <1>2, <1>3 DEF Serials

\* Nothing is borrowed and nothing written.
LEMMA StacksSame ==
  ASSUME Stacks, SameShape, UNCHANGED <<borrows, nextTag, minted, clobbered>>
  PROVE  Stacks'
<1>1. \A f \in 1..Len(frames), r \in Roots : ObjectOf(f, r)' = ObjectOf(f, r)
  BY DEF SameShape, ObjectOf
<1> QED
  BY <1>1 DEF Stacks, RootKeys, RootKey, SameShape

\* A local is written, by itself or through a borrow that its stack allows.
LEMMA StacksRootWritten ==
  ASSUME Held(Good), Counters, Serials, Stacks, SameShape, UNCHANGED <<nextTag, minted>>,
         NEW f \in 1..Len(frames), NEW r \in Roots, NEW tag \in Nat,
         BorrowAllows(RootKey(f, r), tag, "write"),
         borrows' = Written(RootKey(f, r), tag), clobbered' = Passed(ObjectOf(f, r), tag)
  PROVE  Stacks' /\ DOMAIN borrows' = DOMAIN borrows /\ clobbered' \subseteq 1..nextTag
<1> DEFINE key == RootKey(f, r)
<1>1. nextTag \in Nat /\ clobbered \subseteq 1..nextTag
  BY DEF Counters
<1>2. /\ DOMAIN borrows' = DOMAIN borrows
      /\ key \in DOMAIN borrows => borrows'[key] = AfterWrite(borrows[key], tag)
      /\ \A k \in DOMAIN borrows : k # key => borrows'[k] = borrows[k]
  <2>1. CASE key \in DOMAIN borrows
    <3>1. Allows(borrows[key], tag, "write")
      BY <2>1 DEF BorrowAllows
    <3>2. borrows' = [borrows EXCEPT ![key] = AfterWrite(borrows[key], tag)]
      BY <2>1, <3>1 DEF Written
    <3> HIDE DEF key
    <3> QED
      BY <2>1, <3>2
  <2>2. CASE key \notin DOMAIN borrows
    BY <2>2 DEF Written
  <2> QED
    BY <2>1, <2>2
<1>3. clobbered' \subseteq 1..nextTag
  BY <1>1 DEF Passed
<1>4. ASSUME NEW g \in 1..Len(frames), NEW q \in Roots, RootKey(g, q) \in DOMAIN borrows
      PROVE  StackOK(borrows'[RootKey(g, q)], ObjectOf(g, q), nextTag, minted, clobbered')
  <2>1. StackOK(borrows[RootKey(g, q)], ObjectOf(g, q), nextTag, minted, clobbered)
    BY <1>4 DEF Stacks
  <2>2. CASE g = f /\ q = r
    <3>1. Allows(borrows[key], tag, "write")
      BY <1>4, <2>2 DEF BorrowAllows
    <3>2. \A t \in 1..nextTag : t \in clobbered' => t \in clobbered \/ (t # tag /\ (t > tag \/ ~minted[t].unique))
      BY DEF Passed
    <3>3. StackOK(AfterWrite(borrows[key], tag), ObjectOf(g, q), nextTag, minted, clobbered')
      BY <1>1, <2>1, <2>2, <3>1, <3>2, WriteStack
    <3> QED
      BY <1>2, <1>4, <2>2, <3>3
  <2>3. CASE ~(g = f /\ q = r)
    <3>1. ObjectOf(g, q) # ObjectOf(f, r)
      BY <2>3, ObjectsDiffer
    <3>2. RootKey(g, q) # key
      BY <2>3 DEF RootKey
    <3>3. \A t \in 1..nextTag : t \in clobbered' => t \in clobbered \/ minted[t].object # ObjectOf(g, q)
      BY <3>1 DEF Passed
    <3>4. StackOK(borrows[RootKey(g, q)], ObjectOf(g, q), nextTag, minted, clobbered')
      BY <1>1, <2>1, <3>3, OtherStack
    <3> QED
      BY <1>2, <1>4, <3>2, <3>4
  <2> QED
    BY <2>2, <2>3
<1>5. \A g \in 1..Len(frames), q \in Roots : ObjectOf(g, q)' = ObjectOf(g, q)
  BY DEF SameShape, ObjectOf
<1> HIDE DEF key
<1>6. Stacks'
  BY <1>2, <1>4, <1>5 DEF Stacks, RootKeys, RootKey, SameShape
<1> QED
  BY <1>2, <1>3, <1>6

\* An allocation is written.
LEMMA StacksAllocWritten ==
  ASSUME Held(Good), Counters, Stacks, SameShape, UNCHANGED <<nextTag, minted>>,
         NEW id, NEW tag,
         borrows' = Written(AllocKey(id), tag), clobbered' = Passed(<<"alloc", id, 0>>, tag)
  PROVE  Stacks' /\ DOMAIN borrows' = DOMAIN borrows /\ clobbered' \subseteq 1..nextTag
<1> DEFINE key == AllocKey(id)
<1>1. nextTag \in Nat /\ clobbered \subseteq 1..nextTag
  BY DEF Counters
<1>2. DOMAIN borrows' = DOMAIN borrows /\ \A k \in DOMAIN borrows : k # key => borrows'[k] = borrows[k]
  <2> DEFINE w == AfterWrite(borrows[key], tag)
  <2>1. borrows' = [borrows EXCEPT ![key] = w] \/ borrows' = borrows
    BY DEF Written
  <2> HIDE DEF key, w
  <2> QED
    BY <2>1
<1>3. clobbered' \subseteq 1..nextTag
  BY <1>1 DEF Passed
<1>4. ASSUME NEW g \in 1..Len(frames), NEW q \in Roots, RootKey(g, q) \in DOMAIN borrows
      PROVE  StackOK(borrows'[RootKey(g, q)], ObjectOf(g, q), nextTag, minted, clobbered')
  <2>1. StackOK(borrows[RootKey(g, q)], ObjectOf(g, q), nextTag, minted, clobbered)
    BY <1>4 DEF Stacks
  <2>2. RootKey(g, q) # key /\ ObjectOf(g, q) # <<"alloc", id, 0>>
    BY DEF RootKey, AllocKey, ObjectOf
  <2>3. \A t \in 1..nextTag : t \in clobbered' => t \in clobbered \/ minted[t].object # ObjectOf(g, q)
    BY <2>2 DEF Passed
  <2>4. StackOK(borrows[RootKey(g, q)], ObjectOf(g, q), nextTag, minted, clobbered')
    BY <1>1, <2>1, <2>3, OtherStack
  <2> QED
    BY <1>2, <1>4, <2>2, <2>4
<1>5. \A g \in 1..Len(frames), q \in Roots : ObjectOf(g, q)' = ObjectOf(g, q)
  BY DEF SameShape, ObjectOf
<1> HIDE DEF key
<1>6. Stacks'
  BY <1>2, <1>4, <1>5 DEF Stacks, RootKeys, RootKey, SameShape
<1> QED
  BY <1>2, <1>3, <1>6

\* A tag is made, the stack of one key set, and every other stack kept.
LEMMA StacksMinted ==
  ASSUME Held(Good), Counters, Stacks, SameShape, UNCHANGED clobbered, nextTag' = nextTag + 1,
         NEW m \in [object : Triples, unique : BOOLEAN], minted' = Append(minted, m),
         NEW key \in RootKeys \cup ({"alloc"} \X Nat \X {0}), NEW st, borrows' = WithStack(key, st),
         \A g \in 1..Len(frames), q \in Roots :
             RootKey(g, q) = key => StackOK(st, ObjectOf(g, q), nextTag + 1, minted', clobbered)
  PROVE  /\ Stacks' /\ DOMAIN borrows \subseteq DOMAIN borrows'
         /\ minted' \in Seq([object : Triples, unique : BOOLEAN]) /\ Len(minted') = nextTag'
         /\ clobbered' \subseteq 1..nextTag'
<1>1. /\ nextTag \in Nat /\ clobbered \subseteq 1..nextTag /\ Len(minted) = nextTag
      /\ minted \in Seq([object : Triples, unique : BOOLEAN])
  BY DEF Counters
<1>2. minted' \in Seq([object : Triples, unique : BOOLEAN]) /\ Len(minted') = nextTag + 1
  BY <1>1, AppendProperties
<1>3. /\ DOMAIN borrows' = DOMAIN borrows \cup {key} /\ borrows'[key] = st
      /\ \A k \in DOMAIN borrows : k # key => borrows'[k] = borrows[k]
  BY DEF WithStack
<1>4. ASSUME NEW g \in 1..Len(frames), NEW q \in Roots, RootKey(g, q) \in DOMAIN borrows'
      PROVE  StackOK(borrows'[RootKey(g, q)], ObjectOf(g, q), nextTag + 1, minted', clobbered)
  <2>1. CASE RootKey(g, q) = key
    BY <1>3, <2>1
  <2>2. CASE RootKey(g, q) # key
    <3>1. RootKey(g, q) \in DOMAIN borrows /\ borrows'[RootKey(g, q)] = borrows[RootKey(g, q)]
      BY <1>3, <1>4, <2>2
    <3>2. StackOK(borrows[RootKey(g, q)], ObjectOf(g, q), nextTag, minted, clobbered)
      BY <3>1 DEF Stacks
    <3>3. StackOK(borrows[RootKey(g, q)], ObjectOf(g, q), nextTag + 1, Append(minted, m), clobbered)
      BY <1>1, <3>2, StackOlder
    <3> QED
      BY <3>1, <3>3
  <2> QED
    BY <2>1, <2>2
<1>5. \A g \in 1..Len(frames), q \in Roots : ObjectOf(g, q)' = ObjectOf(g, q)
  BY DEF SameShape, ObjectOf
<1>6. DOMAIN borrows' \subseteq RootKeys' \cup ({"alloc"} \X Nat \X {0})
  BY <1>3 DEF Stacks, RootKeys, SameShape
<1>7. Stacks'
  BY <1>4, <1>5, <1>6 DEF Stacks, RootKey, SameShape
<1>8. clobbered' \subseteq 1..nextTag'
  BY <1>1
<1> QED
  BY <1>2, <1>3, <1>7, <1>8

\* The stack of a local that is borrowed.
LEMMA BorrowedStack ==
  ASSUME Held(Good), Counters, Stacks, NEW f \in 1..Len(frames), NEW r \in Roots, NEW u \in BOOLEAN,
         minted' = Append(minted, [object |-> ObjectOf(f, r), unique |-> u]),
         [object |-> ObjectOf(f, r), unique |-> u] \in [object : Triples, unique : BOOLEAN]
  PROVE  /\ u = TRUE => StackOK(PushUnique(BorrowStack(RootKey(f, r)), nextTag + 1), ObjectOf(f, r), nextTag + 1, minted', clobbered)
         /\ u = FALSE => StackOK(PushShared(BorrowStack(RootKey(f, r)), nextTag + 1), ObjectOf(f, r), nextTag + 1, minted', clobbered)
<1> DEFINE s == BorrowStack(RootKey(f, r))
<1> DEFINE o == ObjectOf(f, r)
<1> DEFINE m == [object |-> o, unique |-> u]
<1>1. /\ nextTag \in Nat /\ clobbered \subseteq 1..nextTag /\ Len(minted) = nextTag
      /\ minted \in Seq([object : Triples, unique : BOOLEAN])
  BY DEF Counters
<1>2. StackOK(s, o, nextTag, minted, clobbered)
  BY RootedStack DEF BorrowStack, Stacks
<1>3. m.object = o /\ m.unique = u /\ m \in [object : Triples, unique : BOOLEAN] /\ minted' = Append(minted, m)
  OBVIOUS
<1> HIDE DEF s, o, m
<1>4. StackOK(s, o, nextTag + 1, minted', clobbered)
  <2> DEFINE M == [object : Triples, unique : BOOLEAN]
  <2>1. minted \in Seq(M) /\ m \in M
    BY <1>1, <1>3
  <2> HIDE DEF M
  <2>2. StackOK(s, o, nextTag + 1, Append(minted, m), clobbered)
    BY <1>1, <1>2, <2>1, StackOlder
  <2> QED
    BY <1>3, <2>2
<1>5. \A i \in 1..Len(s) : \A t \in s[i].tags : t <= nextTag
  <2>1. \A i \in 1..Len(s) : \A t \in s[i].tags : t \in 0..nextTag
    BY <1>1, <1>2, TagsBounded
  <2>2. \A t \in 0..nextTag : t <= nextTag
    BY <1>1
  <2> QED
    BY <2>1, <2>2, Zenon
<1>6. minted'[nextTag + 1] = m
  BY <1>1, <1>3, AppendProperties
<1>7. minted'[nextTag + 1].object = o /\ minted'[nextTag + 1].unique = u
  BY <1>3, <1>6
<1>8. nextTag + 1 \notin clobbered
  BY <1>1
<1>9. ASSUME u = TRUE PROVE StackOK(PushUnique(s, nextTag + 1), o, nextTag + 1, minted', clobbered)
  <2>1. minted'[nextTag + 1].unique = TRUE
    BY <1>7, <1>9
  <2> QED
    BY <1>1, <1>4, <1>5, <1>7, <1>8, <2>1, PushUniqueStack
<1>10. ASSUME u = FALSE PROVE StackOK(PushShared(s, nextTag + 1), o, nextTag + 1, minted', clobbered)
  <2>1. minted'[nextTag + 1].unique = FALSE
    BY <1>7, <1>10
  <2> QED
    BY <1>1, <1>4, <1>5, <1>7, <1>8, <2>1, PushSharedStack
<1> QED
  BY <1>9, <1>10 DEF s, o

-----------------------------------------------------------------------------
(* Steps.                                                                  *)

\* What did not change cannot make a pointer bad.
LEMMA UnchangedStays ==
  ASSUME Held(Good), Counters
  PROVE  /\ UNCHANGED <<allocs, owner>> => AllocsStay
         /\ UNCHANGED <<arenas, owner>> => ArenasStay
         /\ UNCHANGED cells => CellsStay
<1>1. /\ Len(allocs) \in Nat /\ Len(cells) \in Nat /\ Len(arenas) \in Nat
      /\ \A i \in 1..Len(arenas) : arenas[i].gen \in Nat /\ arenas[i].bump \in Nat
  BY Lengths
<1> QED
  BY <1>1 DEF AllocsStay, ArenasStay, CellsStay

\* A step that only moves values between locals.
LEMMA ValueStep ==
  ASSUME MemoryInv, fault = "none", SameShape, frames' \in Seq(FrameOf(Good)),
         UNCHANGED <<nextSerial, nextTag, mem, hist>>
  PROVE  MemoryInv'
<1> USE DEF mem, hist
<1>1. Held(Good) /\ Counters /\ Serials /\ Stacks
  BY DEF MemoryInv
<1>2. Serials' /\ RootsStay
  BY <1>1, ShapeKeeps
<1>3. Good \subseteq Good'
  BY <1>1, <1>2, UnchangedStays, GoodGrows DEF MemoryStays
<1>4. Held(Good)'
  BY <1>1, <1>3, SetsGrow DEF Held
<1>5. frames' # <<>>
  BY <1>1, EmptySeq DEF Counters, SameShape, Held
<1>6. Counters'
  BY <1>1, <1>5 DEF Counters
<1>7. Stacks'
  BY <1>1, StacksSame
<1>8. Arenas' /\ Owned' /\ Windows'
  BY DEF MemoryInv, Arenas, Owned, Windows
<1> QED
  BY <1>2, <1>4, <1>6, <1>7, <1>8 DEF MemoryInv

\* A refused step leaves nothing behind.
LEMMA FaultStep ==
  ASSUME NEW class, class # "none", Faults(class)
  PROVE  MemoryInv'
<1>1. /\ frames' = <<>> /\ allocs' = <<>> /\ cells' = <<>> /\ arenas' = <<>> /\ minted' = <<>>
      /\ Len(frames') = 0 /\ Len(allocs') = 0 /\ Len(cells') = 0 /\ Len(arenas') = 0 /\ Len(minted') = 0
      /\ nextSerial' = 0 /\ nextTag' = 0 /\ objects' = 0 /\ fault' # "none" /\ clobbered' = {}
  BY EmptySeq DEF Faults
<1>2. DOMAIN borrows' = {} /\ DOMAIN owner' = {}
  <2>1. borrows' = << >> /\ owner' = << >>
    BY DEF Faults
  <2> QED
    BY <2>1
<1>3. 1..0 = {}
  OBVIOUS
<1>4. Held(Good)' /\ Counters'
  BY <1>1 DEF Held, Counters
<1>5. Serials' /\ Arenas' /\ Owned' /\ Windows'
  BY <1>1, <1>2, <1>3 DEF Serials, Arenas, Owned, Windows
<1>6. Stacks'
  BY <1>1, <1>2, <1>3 DEF Stacks
<1> QED
  BY <1>4, <1>5, <1>6 DEF MemoryInv

\* Every report has a class.
LEMMA FaultsNamed ==
  /\ \A s : SlotFault(s) # "none" /\ ArenaOperandFault(s) # "none"
  /\ \A p : ResolveDeref(p) # "none"
  /\ \A r, how : ThroughFault(r, how) # "none"
  /\ \A c : WindowFault(c) # "none"
  /\ \A r, i : ElementFault(r, i) # "none"
  /\ \A s, b : FreeFault(s, b) # "none"
<1>1. \A s : SlotFault(s) # "none"
  BY DEF SlotFault
<1>2. \A id : AllocFault(id) # "none" /\ ArenaFault(id) # "none"
  BY DEF AllocFault, ArenaFault
<1>3. \A p : ResolveDeref(p) # "none"
  BY <1>2 DEF ResolveDeref
<1>4. \A r, how : ThroughFault(r, how) # "none"
  BY <1>1, <1>3 DEF ThroughFault
<1>5. \A c : WindowFault(c) # "none"
  BY DEF WindowFault
<1>6. \A r, i : ElementFault(r, i) # "none"
  BY <1>1, <1>5 DEF ElementFault
<1>7. \A s, b : FreeFault(s, b) # "none"
  BY <1>1, <1>2 DEF FreeFault
<1>8. \A s : ArenaOperandFault(s) # "none"
  BY <1>1, <1>2 DEF ArenaOperandFault
<1> QED
  BY <1>1, <1>3, <1>4, <1>5, <1>6, <1>7, <1>8

\* The frame on top.
LEMMA CurFacts ==
  ASSUME MemoryInv, fault = "none"
  PROVE  /\ frames # <<>> /\ Top \in 1..Len(frames) /\ Len(frames) \in Nat
         /\ Cur \in FrameOf(Good) /\ Cur.val \in Good /\ Cur.serial \in Nat
         /\ \A r \in Roots : Cur.roots[r] \in Good
<1>1. Held(Good) /\ Counters
  BY DEF MemoryInv
<1>2. frames # <<>> /\ Len(frames) \in Nat /\ Len(frames) # 0
  BY <1>1, Lengths, EmptySeq DEF Counters, Held
<1>3. Top \in 1..Len(frames)
  BY <1>2 DEF Top
<1>4. Cur \in FrameOf(Good)
  BY <1>1, <1>3, Lengths DEF Cur
<1> QED
  BY <1>2, <1>3, <1>4 DEF FrameOf

\* The activation or allocation behind a pointer that resolves.
LEMMA ResolvedFacts ==
  ASSUME MemoryInv, NEW p \in Ptrs, PtrOK(p), ResolveDeref(p) = "ok"
  PROVE  /\ p.target.k = "root" =>
                /\ p.target.frame \in 1..Len(frames) /\ p.target.root \in Roots
                /\ frames[p.target.frame].serial = p.target.serial
                /\ RootKey(p.target.frame, p.target.root) \in DOMAIN borrows
         /\ p.target.k # "root" => p.target.id \in 1..Len(allocs) /\ allocs[p.target.id] \in AllocOf(Good)
         /\ p.target.k = "arena" => p.gen = arenas[p.target.arena].gen
<1>1. Held(Good) /\ Counters /\ Arenas
  BY DEF MemoryInv
<1>2. /\ Len(frames) \in Nat /\ Len(allocs) \in Nat
      /\ \A i \in 1..Len(allocs) : allocs[i] \in AllocOf(Good)
  BY <1>1, Lengths
<1>3. p.target.k \in {"root", "alloc", "arena"}
  BY TargetKinds
<1>4. CASE p.target.k = "root"
  <2>1. p.target.frame \in Nat \ {0} /\ p.target.root \in Roots
    BY <1>4, TargetKinds
  <2>2. Alive(p.target)
    BY <1>4 DEF ResolveDeref
  <2>3. p.target.frame \in 1..Len(frames) /\ frames[p.target.frame].serial = p.target.serial
    BY <1>2, <2>1, <2>2 DEF Alive
  <2> QED
    BY <1>4, <2>1, <2>2, <2>3 DEF PtrOK, RootOK
<1>5. CASE p.target.k = "alloc"
  BY <1>2, <1>5 DEF PtrOK, AllocOK
<1>6. CASE p.target.k = "arena"
  <2>1. CheckGeneration(p)
    BY <1>6 DEF ResolveDeref
  <2>2. p.gen = arenas[p.target.arena].gen
    BY <2>1 DEF CheckGeneration
  <2>3. p.target.id \in 1..Len(allocs)
    BY <1>1, <1>6 DEF PtrOK, ArenaOK, Arenas
  <2> QED
    BY <1>2, <1>6, <2>2, <2>3
<1> QED
  BY <1>3, <1>4, <1>5, <1>6

\* What an accepted access through the pointer of a local has checked.
LEMMA ThroughFacts ==
  ASSUME MemoryInv, fault = "none", NEW r \in Roots, NEW how \in {"read", "write"}, ThroughFault(r, how) = "ok"
  PROVE  /\ Cur.roots[r].v \in Ptrs /\ PtrOK(Cur.roots[r].v) /\ ResolveDeref(Cur.roots[r].v) = "ok"
         /\ BorrowAllows(KeyOf(Cur.roots[r].v), Cur.roots[r].v.tag, how)
         /\ Cur.roots[r].v.target.k # "root" =>
                Cur.roots[r].v.off \in 0..allocs[Cur.roots[r].v.target.id].size - 1
         /\ Behind(Cur.roots[r].v) \in Good
<1> DEFINE s == Cur.roots[r]
<1> DEFINE p == Cur.roots[r].v
<1>1. s \in Good
  BY CurFacts
<1>2. IsPtr(s) /\ ResolveDeref(p) = "ok" /\ BorrowAllows(KeyOf(p), p.tag, how) /\ InBounds(p)
  BY DEF ThroughFault
<1>3. p \in Ptrs /\ PtrOK(p)
  BY <1>1, <1>2, GoodPointers
<1>4. /\ p.target.k = "root" => p.target.frame \in 1..Len(frames) /\ p.target.root \in Roots
      /\ p.target.k # "root" => p.target.id \in 1..Len(allocs) /\ allocs[p.target.id] \in AllocOf(Good)
  BY <1>2, <1>3, ResolvedFacts
<1>5. p.off \in Nat
  BY <1>3, TargetKinds
<1>6. CASE p.target.k = "root"
  <2>1. frames[p.target.frame] \in FrameOf(Good)
    BY <1>4, <1>6, Lengths DEF MemoryInv
  <2>2. Behind(p) \in Good
    BY <1>4, <1>6, <2>1 DEF Behind, FrameOf
  <2> QED
    BY <1>2, <1>3, <1>6, <2>2
<1>7. CASE p.target.k # "root"
  <2> DEFINE a == allocs[p.target.id]
  <2>1. a.size \in Nat /\ a.cells \in [0..a.size - 1 -> Good]
    BY <1>4, <1>7, AllocFacts
  <2>2. p.off < a.size
    BY <1>2, <1>7 DEF InBounds
  <2>3. p.off \in 0..a.size - 1
    <3> DEFINE n == a.size
    <3> DEFINE off == p.off
    <3>1. n \in Nat /\ off \in Nat /\ off < n
      BY <1>5, <2>1, <2>2
    <3> HIDE DEF n, off
    <3>2. off \in 0..n - 1
      BY <3>1
    <3> QED
      BY <3>2 DEF n, off
  <2>4. Behind(p) \in Good
    BY <1>7, <2>1, <2>3 DEF Behind
  <2> QED
    BY <1>2, <1>3, <2>3, <2>4
<1> QED
  BY <1>6, <1>7

\* The window of a sequence lies in an aggregate.
LEMMA WindowFacts ==
  ASSUME MemoryInv, NEW c \in 1..Len(cells)
  PROVE  /\ SeqWindow(c).cell \in 1..Len(cells) /\ cells[SeqWindow(c).cell].kind = "agg"
         /\ SeqWindow(c).start \in Nat /\ SeqWindow(c).len \in Nat
         /\ SeqWindow(c).start + SeqWindow(c).len <= Len(cells[SeqWindow(c).cell].slots)
         /\ Len(cells[SeqWindow(c).cell].slots) \in Nat
         /\ cells[SeqWindow(c).cell] \in CellOf(Good)
<1>1. Held(Good) /\ Counters /\ Windows
  BY DEF MemoryInv
<1>2. Len(cells) \in Nat /\ \A b \in 1..Len(cells) : cells[b] \in CellOf(Good)
  BY <1>1, Lengths
<1>3. \A b \in 1..Len(cells) : cells[b].slots \in Seq(Good) /\ cells[b].kind \in {"agg", "slice"}
  BY <1>2 DEF CellOf
<1>4. \A b \in 1..Len(cells) : Len(cells[b].slots) \in Nat
  BY <1>3, LenProperties
<1>5. CASE cells[c].kind = "agg"
  <2>1. SeqWindow(c).cell = c /\ SeqWindow(c).start = 0 /\ SeqWindow(c).len = Len(cells[c].slots)
    BY <1>5 DEF SeqWindow
  <2>2. 0 + Len(cells[c].slots) <= Len(cells[c].slots)
    BY <1>4
  <2> QED
    BY <1>2, <1>4, <1>5, <2>1, <2>2
<1>6. CASE cells[c].kind = "slice"
  <2>1. PICK b \in 1..Len(cells), start \in Nat, len \in Nat :
            /\ cells[c].slots = Window(b, start, len)
            /\ cells[b].kind = "agg" /\ start + len <= Len(cells[b].slots)
    BY <1>1, <1>6 DEF Windows
  <2>2. /\ cells[c].slots[1].v.data = b /\ cells[c].slots[2].v.data = start
        /\ cells[c].slots[3].v.data = len
    BY <2>1 DEF Window, Val, Scalar
  <2>3. SeqWindow(c).cell = b /\ SeqWindow(c).start = start /\ SeqWindow(c).len = len
    BY <1>6, <2>2 DEF SeqWindow
  <2> QED
    BY <1>2, <1>4, <2>1, <2>3
<1> QED
  BY <1>3, <1>5, <1>6

\* An element that was found is one of the slots of an aggregate.
LEMMA ElementFacts ==
  ASSUME MemoryInv, fault = "none", NEW r \in Roots, NEW i \in Nat, ElementFault(r, i) = "ok"
  PROVE  /\ Element(r, i)[1] \in 1..Len(cells) /\ cells[Element(r, i)[1]].kind = "agg"
         /\ Element(r, i)[2] \in 1..Len(cells[Element(r, i)[1]].slots)
         /\ cells[Element(r, i)[1]] \in CellOf(Good)
         /\ cells[Element(r, i)[1]].slots[Element(r, i)[2]] \in Good
<1> DEFINE s == Cur.roots[r]
<1> DEFINE w == SeqWindow(s.v.cell)
<1>1. s \in Good /\ IsCell(s) /\ ~(i >= w.len)
  BY CurFacts DEF ElementFault
<1>2. s.v.cell \in 1..Len(cells)
  BY <1>1 DEF Good, SlotOK
<1>3. /\ w.cell \in 1..Len(cells) /\ cells[w.cell].kind = "agg"
      /\ w.start \in Nat /\ w.len \in Nat /\ w.start + w.len <= Len(cells[w.cell].slots)
      /\ Len(cells[w.cell].slots) \in Nat /\ cells[w.cell] \in CellOf(Good)
  BY <1>2, WindowFacts
<1>4. Element(r, i)[1] = w.cell /\ Element(r, i)[2] = w.start + i + 1
  BY DEF Element
<1> HIDE DEF w
<1>5. w.start + i + 1 \in 1..Len(cells[w.cell].slots)
  <2>1. ASSUME NEW start \in Nat, NEW len \in Nat, NEW k \in Nat, start + len <= k, ~(i >= len)
        PROVE  start + i + 1 \in 1..k
    BY <2>1
  <2> QED
    BY <1>1, <1>3, <2>1
<1>6. cells[w.cell].slots \in Seq(Good)
  BY <1>3 DEF CellOf
<1>7. cells[w.cell].slots[w.start + i + 1] \in Good
  BY <1>5, <1>6, ElementOfSeq
<1> QED
  BY <1>3, <1>4, <1>5, <1>7

\* Steps that define a value and leave the rest alone.
LEMMA DefineStep ==
  ASSUME MemoryInv, fault = "none", NEW s \in Good, Define(s),
         UNCHANGED <<nextSerial, nextTag, mem, hist>>
  PROVE  MemoryInv'
<1>1. frames \in Seq(FrameOf(Good)) /\ frames # <<>>
  BY CurFacts DEF MemoryInv, Held
<1>2. frames' \in Seq(FrameOf(Good)) /\ SameShape
  BY <1>1, Defines
<1> QED
  BY <1>2, ValueStep

\* const
LEMMA ConstKeeps == MemoryInv /\ Const => MemoryInv'
<1> SUFFICES ASSUME MemoryInv, Const PROVE MemoryInv'
  OBVIOUS
<1>1. PICK n \in Data : Charge("scalar") /\ Define(Val(Scalar(n))) /\ UNCHANGED <<nextSerial, nextTag, mem, hist>>
  BY DEF Const
<1>2. n \in Nat
  BY BoundsAssumption
<1> QED
  BY <1>1, <1>2, PlainSlots, DefineStep DEF Charge

\* copy_from of a local
LEMMA CopyFromKeeps == MemoryInv /\ CopyFrom => MemoryInv'
<1> SUFFICES ASSUME MemoryInv, CopyFrom PROVE MemoryInv'
  OBVIOUS
<1>1. PICK r \in Roots :
          /\ fault = "none"
          /\ \/ Faults(SlotFault(Cur.roots[r]))
             \/ Define(Cur.roots[r]) /\ UNCHANGED <<nextSerial, nextTag, mem, hist>>
  BY DEF CopyFrom, Charge
<1> QED
  BY <1>1, CurFacts, DefineStep, FaultStep, FaultsNamed

\* move_from of a local
LEMMA MoveFromKeeps == MemoryInv /\ MoveFrom => MemoryInv'
<1> SUFFICES ASSUME MemoryInv, MoveFrom PROVE MemoryInv'
  OBVIOUS
<1>1. PICK r \in Roots :
          /\ fault = "none"
          /\ \/ Faults(SlotFault(Cur.roots[r]))
             \/ /\ frames' = [frames EXCEPT ![Top].val = Cur.roots[r], ![Top].roots[r] = MovedOut]
                /\ UNCHANGED <<nextSerial, nextTag, mem, hist>>
  BY DEF MoveFrom, Charge
<1>2. CASE Faults(SlotFault(Cur.roots[r]))
  BY <1>2, FaultStep, FaultsNamed
<1>3. CASE /\ frames' = [frames EXCEPT ![Top].val = Cur.roots[r], ![Top].roots[r] = MovedOut]
           /\ UNCHANGED <<nextSerial, nextTag, mem, hist>>
  <2>1. /\ frames \in Seq(FrameOf(Good)) /\ frames # <<>> /\ Top \in 1..Len(frames)
        /\ Cur \in FrameOf(Good) /\ Cur.roots[r] \in Good /\ Cur = frames[Top]
    BY <1>1, CurFacts DEF MemoryInv, Held, Cur
  <2>2. frames' = [frames EXCEPT ![Top] = [frames[Top] EXCEPT !.roots[r] = MovedOut, !.val = Cur.roots[r]]]
    BY <1>3, <2>1 DEF FrameOf
  <2>3. frames' \in Seq(FrameOf(Good)) /\ SameShape
    BY <2>1, <2>2, PlainSlots, SetsBoth
  <2> QED
    BY <1>1, <1>3, <2>3, ValueStep
<1> QED
  BY <1>1, <1>2, <1>3

\* copy_from through a pointer
LEMMA ReadThroughKeeps == MemoryInv /\ ReadThrough => MemoryInv'
<1> SUFFICES ASSUME MemoryInv, ReadThrough PROVE MemoryInv'
  OBVIOUS
<1>1. PICK r \in Roots :
          /\ fault = "none"
          /\ \/ Faults(ThroughFault(r, "read"))
             \/ /\ ThroughFault(r, "read") = "ok" /\ Define(Behind(Cur.roots[r].v))
                /\ UNCHANGED <<nextSerial, nextTag, mem, hist>>
  BY DEF ReadThrough, Charge
<1>2. CASE Faults(ThroughFault(r, "read"))
  BY <1>2, FaultStep, FaultsNamed
<1>3. CASE /\ ThroughFault(r, "read") = "ok" /\ Define(Behind(Cur.roots[r].v))
           /\ UNCHANGED <<nextSerial, nextTag, mem, hist>>
  <2>1. Behind(Cur.roots[r].v) \in Good
    BY <1>1, <1>3, ThroughFacts
  <2> QED
    BY <1>1, <1>3, <2>1, DefineStep
<1> QED
  BY <1>1, <1>2, <1>3

\* copy_from of an element
LEMMA ReadElementKeeps == MemoryInv /\ ReadElement => MemoryInv'
<1> SUFFICES ASSUME MemoryInv, ReadElement PROVE MemoryInv'
  OBVIOUS
<1>1. PICK r \in Roots, i \in 0..Cardinality(Roots) :
          /\ fault = "none"
          /\ \/ ElementFault(r, i) # "ok" /\ Faults(ElementFault(r, i))
             \/ Faults(SlotFault(cells[Element(r, i)[1]].slots[Element(r, i)[2]]))
             \/ /\ ElementFault(r, i) = "ok" /\ Define(cells[Element(r, i)[1]].slots[Element(r, i)[2]])
                /\ UNCHANGED <<nextSerial, nextTag, mem, hist>>
  BY DEF ReadElement, Charge
<1>2. i \in Nat
  BY RootsAssumption, FS_CardinalityType
<1>3. CASE /\ ElementFault(r, i) = "ok" /\ Define(cells[Element(r, i)[1]].slots[Element(r, i)[2]])
           /\ UNCHANGED <<nextSerial, nextTag, mem, hist>>
  <2>1. cells[Element(r, i)[1]].slots[Element(r, i)[2]] \in Good
    BY <1>1, <1>2, <1>3, ElementFacts
  <2> QED
    BY <1>1, <1>3, <2>1, DefineStep
<1> QED
  BY <1>1, <1>3, FaultStep, FaultsNamed

\* arena_deref: a plain pointer into an arena promises nothing about its object.
LEMMA ArenaDerefKeeps == MemoryInv /\ ArenaDeref => MemoryInv'
<1> SUFFICES ASSUME MemoryInv, ArenaDeref PROVE MemoryInv'
  OBVIOUS
<1> DEFINE s == Cur.val
<1>1. /\ fault = "none"
      /\ \/ Faults(SlotFault(s)) \/ Faults("error type-mismatch") \/ Faults(ResolveDeref(s.v))
         \/ /\ IsPtr(s) /\ ResolveDeref(s.v) = "ok" /\ s.v.target.k # "root"
            /\ Define(Val([s.v EXCEPT !.target = ToAlloc(s.v.target.id), !.gen = 0]))
            /\ UNCHANGED <<nextSerial, nextTag, mem, hist>>
  BY DEF ArenaDeref, Charge
<1>2. CASE /\ IsPtr(s) /\ ResolveDeref(s.v) = "ok" /\ s.v.target.k # "root"
           /\ Define(Val([s.v EXCEPT !.target = ToAlloc(s.v.target.id), !.gen = 0]))
           /\ UNCHANGED <<nextSerial, nextTag, mem, hist>>
  <2> DEFINE p == s.v
  <2> DEFINE q == [p EXCEPT !.target = ToAlloc(p.target.id), !.gen = 0]
  <2>1. p \in Ptrs /\ PtrOK(p)
    BY <1>1, <1>2, CurFacts, GoodPointers
  <2>2. p.target.k \in {"alloc", "arena"} /\ p.target.id \in Nat \ {0}
    BY <1>2, <2>1, TargetKinds
  <2>3. p.target.id \in 1..Len(allocs)
    BY <1>2, <2>1, ResolvedFacts
  <2>4. ToAlloc(p.target.id) \in Targets /\ ToAlloc(p.target.id).k = "alloc" /\ ToAlloc(p.target.id).id = p.target.id
    BY <2>2 DEF ToAlloc, Targets
  <2>5. q \in Ptrs /\ q.target = ToAlloc(p.target.id) /\ q.off = p.off /\ q.born = p.born
    BY <2>1, <2>4 DEF Ptrs
  <2>6. q.target.k = "alloc" /\ q.target.id = p.target.id
    BY <2>4, <2>5
  <2>7. Val(q) = Val([s.v EXCEPT !.target = ToAlloc(s.v.target.id), !.gen = 0])
    OBVIOUS
  <2> HIDE DEF p, q
  <2>8. AllocOK(q)
    <3>1. CASE p.target.k = "alloc"
      BY <2>1, <2>5, <2>6, <3>1 DEF PtrOK, AllocOK
    <3>2. CASE p.target.k = "arena"
      <4>1. allocs[p.target.id].owner[1] = "arena"
        BY <2>1, <3>2 DEF PtrOK, ArenaOK, MemoryInv, Arenas
      <4> QED
        BY <2>3, <2>5, <2>6, <4>1 DEF AllocOK
    <3> QED
      BY <2>2, <3>1, <3>2
  <2>9. Val(q) \in Good
    BY <2>5, <2>6, <2>8, GoodPointers DEF PtrOK
  <2>10. Define(Val(q)) /\ UNCHANGED <<nextSerial, nextTag, mem, hist>>
    BY <1>2, <2>7
  <2> QED
    BY <1>1, <2>9, <2>10, DefineStep
<1> QED
  BY <1>1, <1>2, FaultStep, FaultsNamed

\* A step that makes no activation, tag, arena or object.
Quiet ==
    /\ SameShape /\ AllocsStay /\ CellsStay /\ DOMAIN borrows' = DOMAIN borrows
    /\ UNCHANGED <<nextSerial, nextTag, arenas, objects, owner, minted>>

\* Such a step makes no slot bad.
LEMMA QuietGrows ==
  ASSUME MemoryInv, Quiet
  PROVE  Good \subseteq Good'
<1>1. Held(Good) /\ Counters /\ Serials
  BY DEF MemoryInv
<1>2. RootsStay
  BY <1>1, ShapeKeeps DEF Quiet
<1> QED
  BY <1>1, <1>2, UnchangedStays, GoodGrows DEF Quiet, MemoryStays

\* And what is left to show of it.
LEMMA QuietStep ==
  ASSUME MemoryInv, fault = "none", Quiet, Held(Good)', Windows', Stacks', clobbered' \subseteq 1..nextTag
  PROVE  MemoryInv'
<1>1. Held(Good) /\ Counters /\ Serials /\ Arenas /\ Owned
  BY DEF MemoryInv
<1>2. Serials'
  BY <1>1, ShapeKeeps DEF Quiet
<1>3. frames' # <<>>
  BY <1>1, EmptySeq DEF Counters, Quiet, SameShape, Held
<1>4. Counters'
  BY <1>1, <1>3 DEF Counters, Quiet
<1>5. Len(allocs) \in Nat /\ Len(allocs') \in Nat /\ Len(allocs) <= Len(allocs')
  BY <1>1, Lengths DEF Quiet, AllocsStay
<1>6. \A i \in 1..Len(allocs) : i \in 1..Len(allocs')
  BY <1>5
<1>7. Arenas'
  BY <1>1, <1>6 DEF Arenas, Quiet, AllocsStay
<1>8. Owned'
  <2>1. (1..Len(allocs)) \X Nat \subseteq (1..Len(allocs')) \X Nat
    BY <1>6
  <2> QED
    BY <1>1, <2>1 DEF Owned, Quiet
<1> QED
  BY <1>2, <1>4, <1>7, <1>8 DEF MemoryInv

\* init of a local
LEMMA InitRootKeeps == MemoryInv /\ InitRoot => MemoryInv'
<1> SUFFICES ASSUME MemoryInv, InitRoot PROVE MemoryInv'
  OBVIOUS
<1>1. PICK r \in Roots :
          /\ fault = "none"
          /\ \/ Faults(SlotFault(Cur.val))
             \/ /\ SetRoot(Top, r, Cur.val)
                /\ borrows' = Written(RootKey(Top, r), ROOT_TAG)
                /\ clobbered' = Passed(ObjectOf(Top, r), ROOT_TAG)
                /\ UNCHANGED <<nextSerial, nextTag, allocs, arenas, cells, objects, owner, minted>>
  BY DEF InitRoot, Charge
<1>2. CASE Faults(SlotFault(Cur.val))
  BY <1>2, FaultStep, FaultsNamed
<1>3. CASE /\ SetRoot(Top, r, Cur.val)
           /\ borrows' = Written(RootKey(Top, r), ROOT_TAG)
           /\ clobbered' = Passed(ObjectOf(Top, r), ROOT_TAG)
           /\ UNCHANGED <<nextSerial, nextTag, allocs, arenas, cells, objects, owner, minted>>
  <2>1. Held(Good) /\ Counters /\ Serials /\ Stacks /\ nextTag \in Nat
    BY DEF MemoryInv, Counters
  <2>2. Top \in 1..Len(frames) /\ Cur.val \in Good
    BY <1>1, CurFacts
  <2>3. frames' \in Seq(FrameOf(Good)) /\ SameShape
    BY <1>3, <2>1, <2>2, SetsRoot DEF Held
  <2>4. BorrowAllows(RootKey(Top, r), ROOT_TAG, "write")
    <3> SUFFICES ASSUME RootKey(Top, r) \in DOMAIN borrows
                 PROVE  Allows(borrows[RootKey(Top, r)], ROOT_TAG, "write")
      BY DEF BorrowAllows
    <3>1. StackOK(borrows[RootKey(Top, r)], ObjectOf(Top, r), nextTag, minted, clobbered)
      BY <2>1, <2>2 DEF Stacks
    <3> QED
      BY <2>1, <3>1, RootWrites
  <2>5. ROOT_TAG \in Nat
    BY DEF ROOT_TAG
  <2>6. Stacks' /\ DOMAIN borrows' = DOMAIN borrows /\ clobbered' \subseteq 1..nextTag
    BY <1>3, <2>1, <2>2, <2>3, <2>4, <2>5, StacksRootWritten
  <2>7. Quiet
    BY <1>3, <2>1, <2>3, <2>6, UnchangedStays DEF Quiet
  <2>8. Held(Good)'
    BY <1>3, <2>1, <2>3, <2>7, QuietGrows, SetsGrow DEF Held
  <2>9. Windows'
    BY <1>3 DEF MemoryInv, Windows
  <2> QED
    BY <1>1, <2>6, <2>7, <2>8, <2>9, QuietStep
<1> QED
  BY <1>1, <1>2, <1>3

\* One allocation replaced by another of the same owner, and on the heap of the
\* same size.
LEMMA AllocReplaced ==
  ASSUME Held(Good), Counters, NEW i \in 1..Len(allocs), NEW G, allocs \in Seq(AllocOf(G)), NEW a \in AllocOf(G),
         a.owner = allocs[i].owner, a.owner[1] = "heap" => a.size = allocs[i].size,
         allocs' = [allocs EXCEPT ![i] = a]
  PROVE  /\ allocs' \in Seq(AllocOf(G)) /\ Len(allocs') = Len(allocs)
         /\ \A j \in 1..Len(allocs) : allocs'[j] = IF j = i THEN a ELSE allocs[j]
         /\ owner' = owner => AllocsStay
<1>1. /\ allocs' \in Seq(AllocOf(G)) /\ Len(allocs') = Len(allocs)
      /\ \A j \in 1..Len(allocs) : allocs'[j] = IF j = i THEN a ELSE allocs[j]
  BY ExceptSeq
<1>2. Len(allocs) \in Nat
  BY Lengths
<1>3. ASSUME owner' = owner PROVE AllocsStay
  <2>1. ASSUME NEW j \in 1..Len(allocs)
        PROVE  /\ allocs'[j].owner = allocs[j].owner
               /\ allocs[j].owner[1] = "heap" => allocs'[j].size = allocs[j].size
    BY <1>1
  <2> QED
    BY <1>1, <1>2, <1>3, <2>1 DEF AllocsStay
<1> QED
  BY <1>1, <1>3

\* init through a pointer
LEMMA WriteThroughKeeps == MemoryInv /\ WriteThrough => MemoryInv'
<1> SUFFICES ASSUME MemoryInv, WriteThrough PROVE MemoryInv'
  OBVIOUS
<1>1. PICK r \in Roots :
          /\ fault = "none"
          /\ \/ Faults(SlotFault(Cur.val)) \/ Faults(ThroughFault(r, "write"))
             \/ /\ ThroughFault(r, "write") = "ok"
                /\ IF Cur.roots[r].v.target.k = "root"
                   THEN SetRoot(Cur.roots[r].v.target.frame, Cur.roots[r].v.target.root, Cur.val) /\ UNCHANGED allocs
                   ELSE /\ allocs' = [allocs EXCEPT ![Cur.roots[r].v.target.id].cells[Cur.roots[r].v.off] = Cur.val]
                        /\ UNCHANGED frames
                /\ borrows' = Written(KeyOf(Cur.roots[r].v), Cur.roots[r].v.tag)
                /\ clobbered' = Passed(Reached(Cur.roots[r].v), Cur.roots[r].v.tag)
                /\ UNCHANGED <<nextSerial, nextTag, arenas, cells, objects, owner, minted>>
  BY DEF WriteThrough, Charge
<1> DEFINE p == Cur.roots[r].v
<1>2. CASE Faults(SlotFault(Cur.val)) \/ Faults(ThroughFault(r, "write"))
  BY <1>2, FaultStep, FaultsNamed
<1>3. CASE /\ ThroughFault(r, "write") = "ok"
           /\ IF p.target.k = "root"
              THEN SetRoot(p.target.frame, p.target.root, Cur.val) /\ UNCHANGED allocs
              ELSE allocs' = [allocs EXCEPT ![p.target.id].cells[p.off] = Cur.val] /\ UNCHANGED frames
           /\ borrows' = Written(KeyOf(p), p.tag)
           /\ clobbered' = Passed(Reached(p), p.tag)
           /\ UNCHANGED <<nextSerial, nextTag, arenas, cells, objects, owner, minted>>
  <2>1. Held(Good) /\ Counters /\ Serials /\ Stacks /\ nextTag \in Nat
    BY DEF MemoryInv, Counters
  <2>2. Cur.val \in Good
    BY <1>1, CurFacts
  <2>3. /\ p \in Ptrs /\ PtrOK(p) /\ ResolveDeref(p) = "ok"
        /\ BorrowAllows(KeyOf(p), p.tag, "write")
        /\ p.target.k # "root" => p.off \in 0..allocs[p.target.id].size - 1
    BY <1>1, <1>3, ThroughFacts
  <2>4. /\ p.target.k = "root" => p.target.frame \in 1..Len(frames) /\ p.target.root \in Roots
        /\ p.target.k # "root" => p.target.id \in 1..Len(allocs) /\ allocs[p.target.id] \in AllocOf(Good)
    BY <2>3, ResolvedFacts
  <2>5. p.tag \in Nat
    BY <2>3, TargetKinds
  <2> HIDE DEF p
  <2>6. CASE p.target.k = "root"
    <3>1. SetRoot(p.target.frame, p.target.root, Cur.val) /\ UNCHANGED allocs
      BY <1>3, <2>6
    <3>2. frames' \in Seq(FrameOf(Good)) /\ SameShape
      BY <2>1, <2>2, <2>4, <2>6, <3>1, SetsRoot DEF Held
    <3>3. KeyOf(p) = RootKey(p.target.frame, p.target.root) /\ Reached(p) = ObjectOf(p.target.frame, p.target.root)
      BY <2>6 DEF KeyOf, Reached
    <3>4. Stacks' /\ DOMAIN borrows' = DOMAIN borrows /\ clobbered' \subseteq 1..nextTag
      BY <1>3, <2>1, <2>3, <2>4, <2>5, <2>6, <3>2, <3>3, StacksRootWritten
    <3>5. Quiet
      BY <1>3, <2>1, <3>1, <3>2, <3>4, UnchangedStays DEF Quiet
    <3>6. Held(Good)'
      BY <1>3, <2>1, <3>1, <3>2, <3>5, QuietGrows, SetsGrow DEF Held
    <3>7. Windows'
      BY <1>3 DEF MemoryInv, Windows
    <3> QED
      BY <1>1, <3>4, <3>5, <3>6, <3>7, QuietStep
  <2>7. CASE p.target.k # "root"
    <3> DEFINE i == p.target.id
    <3> DEFINE a == [allocs[i] EXCEPT !.cells[p.off] = Cur.val]
    <3>1. allocs' = [allocs EXCEPT ![i].cells[p.off] = Cur.val] /\ UNCHANGED frames
      BY <1>3, <2>7
    <3>2. i \in 1..Len(allocs) /\ allocs[i] \in AllocOf(Good) /\ p.off \in 0..allocs[i].size - 1
      BY <2>3, <2>4, <2>7
    <3>3. /\ allocs[i] = [owner |-> allocs[i].owner, state |-> allocs[i].state, size |-> allocs[i].size, cells |-> allocs[i].cells]
          /\ allocs[i].owner \in Owners /\ allocs[i].state \in {"live", "freed", "reset"} /\ allocs[i].size \in Nat
          /\ allocs[i].cells \in [0..allocs[i].size - 1 -> Good]
      BY <3>2, AllocFacts
    <3>4. /\ a = [owner |-> allocs[i].owner, state |-> allocs[i].state, size |-> allocs[i].size,
                  cells |-> [allocs[i].cells EXCEPT ![p.off] = Cur.val]]
      <4> DEFINE z == allocs[i]
      <4> DEFINE c == [z.cells EXCEPT ![p.off] = Cur.val]
      <4>1. a = [z EXCEPT !.cells = c]
        OBVIOUS
      <4>2. z = [owner |-> z.owner, state |-> z.state, size |-> z.size, cells |-> z.cells]
        BY <3>3
      <4> HIDE DEF a, z, c
      <4>3. a = [owner |-> z.owner, state |-> z.state, size |-> z.size, cells |-> c]
        BY <4>1, <4>2
      <4> QED
        BY <4>3 DEF z, c
    <3>5. [allocs[i].cells EXCEPT ![p.off] = Cur.val] \in [0..allocs[i].size - 1 -> Good]
      BY <2>2, <3>2, <3>3
    <3>6. a.owner = allocs[i].owner /\ a.size = allocs[i].size /\ a.state = allocs[i].state
          /\ a.cells = [allocs[i].cells EXCEPT ![p.off] = Cur.val]
      BY <3>4
    <3>7. allocs' = [allocs EXCEPT ![i] = a]
      BY <3>1
    <3>8. a \in AllocOf(Good)
      <4> HIDE DEF a
      <4> QED
        BY <3>3, <3>4, <3>5, <3>6, AllocFacts
    <3> HIDE DEF a, i
    <3>9. allocs' \in Seq(AllocOf(Good)) /\ AllocsStay
      BY <1>3, <2>1, <3>2, <3>6, <3>7, <3>8, AllocReplaced DEF Held
    <3>10. SameShape
      BY <3>1 DEF SameShape
    <3>11. KeyOf(p) = AllocKey(p.target.id) /\ Reached(p) = <<"alloc", p.target.id, 0>>
      BY <2>7 DEF KeyOf, Reached
    <3>12. Stacks' /\ DOMAIN borrows' = DOMAIN borrows /\ clobbered' \subseteq 1..nextTag
      BY <1>3, <2>1, <3>10, <3>11, StacksAllocWritten
    <3>13. Quiet
      BY <1>3, <2>1, <3>9, <3>10, <3>12, UnchangedStays DEF Quiet
    <3>14. Held(Good)'
      <4>1. Good \subseteq Good'
        BY <3>13, QuietGrows
      <4>2. frames' = frames /\ cells' = cells
        BY <1>3, <3>1
      <4> QED
        BY <2>1, <3>9, <4>1, <4>2, HeldGrows DEF Held
    <3>15. Windows'
      BY <1>3 DEF MemoryInv, Windows
    <3> QED
      BY <1>1, <3>12, <3>13, <3>14, <3>15, QuietStep
  <2> QED
    BY <2>6, <2>7
<1> QED
  BY <1>1, <1>2, <1>3

\* init of an element: a slice is never the cell that is written, so no window moves.
LEMMA WriteElementKeeps == MemoryInv /\ WriteElement => MemoryInv'
<1> SUFFICES ASSUME MemoryInv, WriteElement PROVE MemoryInv'
  OBVIOUS
<1>1. PICK r \in Roots, i \in 0..Cardinality(Roots) :
          /\ fault = "none"
          /\ \/ Faults(SlotFault(Cur.val)) \/ Faults(ElementFault(r, i))
             \/ /\ ElementFault(r, i) = "ok"
                /\ cells' = [cells EXCEPT ![Element(r, i)[1]].slots[Element(r, i)[2]] = Cur.val]
                /\ borrows' = Written(RootKey(Top, r), ROOT_TAG)
                /\ clobbered' = Passed(ObjectOf(Top, r), ROOT_TAG)
                /\ UNCHANGED <<frames, nextSerial, nextTag, allocs, arenas, objects, owner, minted>>
  BY DEF WriteElement, Charge
<1>2. CASE Faults(SlotFault(Cur.val)) \/ Faults(ElementFault(r, i))
  BY <1>2, FaultStep, FaultsNamed
<1>3. CASE /\ ElementFault(r, i) = "ok"
           /\ cells' = [cells EXCEPT ![Element(r, i)[1]].slots[Element(r, i)[2]] = Cur.val]
           /\ borrows' = Written(RootKey(Top, r), ROOT_TAG)
           /\ clobbered' = Passed(ObjectOf(Top, r), ROOT_TAG)
           /\ UNCHANGED <<frames, nextSerial, nextTag, allocs, arenas, objects, owner, minted>>
  <2> DEFINE c == Element(r, i)[1]
  <2> DEFINE j == Element(r, i)[2]
  <2> DEFINE z == [cells[c].slots EXCEPT ![j] = Cur.val]
  <2> DEFINE d == [cells[c] EXCEPT !.slots = z]
  <2>1. Held(Good) /\ Counters /\ Serials /\ Stacks /\ Windows /\ nextTag \in Nat /\ cells \in Seq(CellOf(Good))
    BY DEF MemoryInv, Counters, Held
  <2>2. i \in Nat
    BY RootsAssumption, FS_CardinalityType
  <2>3. /\ c \in 1..Len(cells) /\ cells[c].kind = "agg" /\ j \in 1..Len(cells[c].slots)
        /\ cells[c] \in CellOf(Good)
    BY <1>1, <1>3, <2>2, ElementFacts
  <2>4. Cur.val \in Good /\ Top \in 1..Len(frames)
    BY <1>1, CurFacts
  <2>5. cells' = [cells EXCEPT ![c] = d]
    BY <1>3
  <2> HIDE DEF c, j
  <2>6. cells[c].slots \in Seq(Good)
    BY <2>3 DEF CellOf
  <2>7. z \in Seq(Good) /\ Len(z) = Len(cells[c].slots)
    BY <2>3, <2>4, <2>6, ExceptSeq
  <2> HIDE DEF z
  <2>8. d \in CellOf(Good) /\ d.kind = "agg" /\ d.slots = z
    BY <2>3, <2>7 DEF CellOf
  <2> HIDE DEF d
  <2>9. /\ cells' \in Seq(CellOf(Good)) /\ Len(cells') = Len(cells)
        /\ \A b \in 1..Len(cells) : cells'[b] = IF b = c THEN d ELSE cells[b]
    BY <2>1, <2>3, <2>5, <2>8, ExceptSeq
  <2>10. \A b \in 1..Len(cells) :
             /\ cells'[b].kind = cells[b].kind /\ Len(cells'[b].slots) = Len(cells[b].slots)
             /\ cells[b].kind = "slice" => cells'[b] = cells[b]
    BY <2>3, <2>7, <2>8, <2>9
  <2>11. Windows'
    <3> SUFFICES ASSUME NEW b \in 1..Len(cells), cells'[b].kind = "slice"
                 PROVE  \E e \in 1..Len(cells), start, len \in Nat :
                            /\ cells'[b].slots = Window(e, start, len)
                            /\ cells'[e].kind = "agg" /\ start + len <= Len(cells'[e].slots)
      BY <2>9 DEF Windows
    <3>1. cells[b].kind = "slice" /\ cells'[b] = cells[b]
      BY <2>10
    <3>2. PICK e \in 1..Len(cells), start \in Nat, len \in Nat :
              /\ cells[b].slots = Window(e, start, len)
              /\ cells[e].kind = "agg" /\ start + len <= Len(cells[e].slots)
      BY <2>1, <3>1 DEF Windows
    <3>3. /\ cells'[b].slots = Window(e, start, len)
          /\ cells'[e].kind = "agg" /\ start + len <= Len(cells'[e].slots)
      BY <2>10, <3>1, <3>2
    <3> QED
      BY <3>3
  <2>12. SameShape
    BY <1>3 DEF SameShape
  <2>13. BorrowAllows(RootKey(Top, r), ROOT_TAG, "write")
    <3> SUFFICES ASSUME RootKey(Top, r) \in DOMAIN borrows
                 PROVE  Allows(borrows[RootKey(Top, r)], ROOT_TAG, "write")
      BY DEF BorrowAllows
    <3>1. StackOK(borrows[RootKey(Top, r)], ObjectOf(Top, r), nextTag, minted, clobbered)
      BY <2>1, <2>4 DEF Stacks
    <3> QED
      BY <2>1, <3>1, RootWrites
  <2>14. ROOT_TAG \in Nat
    BY DEF ROOT_TAG
  <2>15. Stacks' /\ DOMAIN borrows' = DOMAIN borrows /\ clobbered' \subseteq 1..nextTag
    BY <1>3, <2>1, <2>4, <2>12, <2>13, <2>14, StacksRootWritten
  <2>16. CellsStay
    BY <2>1, <2>9, Lengths DEF CellsStay
  <2>17. Quiet
    BY <1>3, <2>1, <2>12, <2>15, <2>16, UnchangedStays DEF Quiet
  <2>18. Held(Good)'
    <3>1. Good \subseteq Good'
      BY <2>17, QuietGrows
    <3>2. frames' \in Seq(FrameOf(Good)) /\ allocs' \in Seq(AllocOf(Good))
      BY <1>3, <2>1 DEF Held
    <3> QED
      BY <2>9, <3>1, <3>2, SetsGrow DEF Held
  <2> QED
    BY <1>1, <2>11, <2>15, <2>17, <2>18, QuietStep
<1> QED
  BY <1>1, <1>2, <1>3

\* An allocation whose state alone changes.
LEMMA StateStep ==
  ASSUME MemoryInv, fault = "none", NEW i \in 1..Len(allocs), NEW st \in {"live", "freed", "reset"},
         allocs' = [allocs EXCEPT ![i].state = st], Define(Val(Scalar(0))),
         UNCHANGED <<nextSerial, nextTag, arenas, borrows, cells, hist>>
  PROVE  MemoryInv'
<1> USE DEF hist
<1> DEFINE a == [allocs[i] EXCEPT !.state = st]
<1>1. Held(Good) /\ Counters /\ Serials /\ Stacks /\ Windows
  BY DEF MemoryInv
<1>2. allocs[i] \in AllocOf(Good)
  BY <1>1, Lengths
<1>3. /\ allocs[i] = [owner |-> allocs[i].owner, state |-> allocs[i].state, size |-> allocs[i].size, cells |-> allocs[i].cells]
      /\ allocs[i].owner \in Owners /\ allocs[i].size \in Nat
      /\ allocs[i].cells \in [0..allocs[i].size - 1 -> Good]
  BY <1>2, AllocFacts
<1>4. a = [owner |-> allocs[i].owner, state |-> st, size |-> allocs[i].size, cells |-> allocs[i].cells]
  BY <1>3
<1>5. a.owner = allocs[i].owner /\ a.size = allocs[i].size /\ a.state = st /\ a.cells = allocs[i].cells
  BY <1>4
<1>6. allocs' = [allocs EXCEPT ![i] = a]
  OBVIOUS
<1> HIDE DEF a
<1>7. a \in AllocOf(Good)
  BY <1>3, <1>4, <1>5, AllocFacts
<1>8. allocs' \in Seq(AllocOf(Good)) /\ AllocsStay
  BY <1>1, <1>5, <1>6, <1>7, AllocReplaced DEF Held
<1>9. Val(Scalar(0)) \in Good
  BY PlainSlots
<1>10. frames' \in Seq(FrameOf(Good)) /\ SameShape
  BY <1>1, <1>9, CurFacts, Defines DEF Held
<1>11. Quiet
  BY <1>1, <1>8, <1>10, UnchangedStays DEF Quiet
<1>12. Held(Good)'
  <2>1. Good \subseteq Good'
    BY <1>11, QuietGrows
  <2>2. cells' \in Seq(CellOf(Good))
    BY <1>1 DEF Held
  <2> QED
    BY <1>8, <1>10, <2>1, <2>2, HeldGrows
<1>13. Stacks' /\ clobbered' \subseteq 1..nextTag
  BY <1>1, <1>10, StacksSame DEF Counters
<1>14. Windows'
  BY <1>1 DEF Windows
<1> QED
  BY <1>11, <1>12, <1>13, <1>14, QuietStep

\* free
LEMMA FreeKeeps == MemoryInv /\ Free => MemoryInv'
<1> SUFFICES ASSUME MemoryInv, Free PROVE MemoryInv'
  OBVIOUS
<1>1. PICK b \in Brands :
          /\ fault = "none"
          /\ \/ Faults(FreeFault(Cur.val, b))
             \/ /\ FreeFault(Cur.val, b) = "ok"
                /\ allocs' = [allocs EXCEPT ![Cur.val.v.target.id].state = "freed"]
                /\ Define(Val(Scalar(0)))
                /\ UNCHANGED <<nextSerial, nextTag, arenas, borrows, cells, hist>>
  BY DEF Free, Charge
<1>2. CASE Faults(FreeFault(Cur.val, b))
  BY <1>2, FaultStep, FaultsNamed
<1>3. CASE /\ FreeFault(Cur.val, b) = "ok"
           /\ allocs' = [allocs EXCEPT ![Cur.val.v.target.id].state = "freed"]
           /\ Define(Val(Scalar(0)))
           /\ UNCHANGED <<nextSerial, nextTag, arenas, borrows, cells, hist>>
  <2>1. Cur.val \in Good /\ IsPtr(Cur.val) /\ Cur.val.v.target.k = "alloc"
    BY <1>1, <1>3, CurFacts DEF FreeFault
  <2>2. Cur.val.v.target.id \in 1..Len(allocs)
    BY <2>1, GoodPointers DEF PtrOK, AllocOK
  <2> QED
    BY <1>1, <1>3, <2>2, StateStep
<1> QED
  BY <1>1, <1>2, <1>3

\* region_exit
LEMMA RegionExitKeeps == MemoryInv /\ RegionExit => MemoryInv'
<1> SUFFICES ASSUME MemoryInv, RegionExit PROVE MemoryInv'
  OBVIOUS
<1>1. PICK g \in Regions :
          /\ fault = "none"
          /\ \/ Faults("error type-mismatch")
             \/ /\ Entered(g) # {}
                /\ allocs' = [allocs EXCEPT ![arenas[Largest(Entered(g))].data].state = "reset"]
                /\ Define(Val(Scalar(0)))
                /\ UNCHANGED <<nextSerial, nextTag, arenas, borrows, cells, hist>>
  BY DEF RegionExit, Charge
<1>2. CASE Faults("error type-mismatch")
  BY <1>2, FaultStep
<1>3. CASE /\ Entered(g) # {}
           /\ allocs' = [allocs EXCEPT ![arenas[Largest(Entered(g))].data].state = "reset"]
           /\ Define(Val(Scalar(0)))
           /\ UNCHANGED <<nextSerial, nextTag, arenas, borrows, cells, hist>>
  <2>1. Len(arenas) \in Nat /\ DOMAIN arenas = 1..Len(arenas)
    BY LenProperties DEF MemoryInv, Counters
  <2>2. Entered(g) \in SUBSET (1..Len(arenas))
    BY <2>1 DEF Entered
  <2>3. Largest(Entered(g)) \in 1..Len(arenas)
    BY <1>3, <2>1, <2>2, LargestFacts
  <2>4. arenas[Largest(Entered(g))].data \in 1..Len(allocs)
    BY <2>3 DEF MemoryInv, Arenas
  <2> QED
    BY <1>1, <1>3, <2>4, StateStep
<1> QED
  BY <1>1, <1>2, <1>3

\* A cell is added, and referred to.
LEMMA CellStep ==
  ASSUME MemoryInv, fault = "none", NEW c \in CellOf(Good), cells' = Append(cells, c),
         Define(Val(CellRef(Len(cells) + 1))),
         UNCHANGED <<nextSerial, nextTag, allocs, arenas, borrows, hist>>,
         c.kind = "slice" => \E b \in 1..Len(cells), start, len \in Nat :
             /\ c.slots = Window(b, start, len)
             /\ cells[b].kind = "agg" /\ start + len <= Len(cells[b].slots)
  PROVE  MemoryInv'
<1> USE DEF hist
<1>1. Held(Good) /\ Counters /\ Serials /\ Stacks /\ Windows /\ cells \in Seq(CellOf(Good)) /\ Len(cells) \in Nat
  BY Lengths DEF MemoryInv, Held
<1>2. /\ cells' \in Seq(CellOf(Good)) /\ Len(cells') = Len(cells) + 1
      /\ \A b \in 1..Len(cells) : cells'[b] = cells[b]
      /\ cells'[Len(cells) + 1] = c
  BY <1>1, AppendProperties
<1>3. CellsStay
  BY <1>1, <1>2 DEF CellsStay
<1>4. SameShape
  <2>1. frames \in Seq(FrameOf(Slot \cup {Val(CellRef(Len(cells) + 1))})) /\ frames # <<>>
    <3>1. Good \subseteq Slot \cup {Val(CellRef(Len(cells) + 1))}
      BY DEF Good
    <3> QED
      BY <1>1, <3>1, SetsGrow, CurFacts DEF Held
  <2> QED
    BY <2>1, Defines
<1>5. Quiet
  BY <1>1, <1>3, <1>4, UnchangedStays DEF Quiet
<1>6. Good \subseteq Good'
  BY <1>5, QuietGrows
<1>7. Val(CellRef(Len(cells) + 1)) \in Good'
  <2>1. Len(cells) + 1 \in Nat /\ Len(cells) + 1 \in 1..Len(cells')
    BY <1>1, <1>2
  <2> QED
    BY <2>1, GoodNext
<1>8. frames' \in Seq(FrameOf(Good'))
  <2>1. frames \in Seq(FrameOf(Good')) /\ frames # <<>>
    BY <1>1, <1>6, SetsGrow, CurFacts DEF Held
  <2> QED
    BY <1>7, <2>1, Defines
<1>9. Held(Good)'
  <2>1. allocs' \in Seq(AllocOf(Good'))
    BY <1>1, <1>6, SetsGrow DEF Held
  <2>2. cells' \in Seq(CellOf(Good'))
    BY <1>2, <1>6, SetsGrow
  <2> QED
    BY <1>8, <2>1, <2>2 DEF Held
<1>10. Windows'
  <2> SUFFICES ASSUME NEW d \in 1..Len(cells'), cells'[d].kind = "slice"
               PROVE  \E b \in 1..Len(cells'), start, len \in Nat :
                          /\ cells'[d].slots = Window(b, start, len)
                          /\ cells'[b].kind = "agg" /\ start + len <= Len(cells'[b].slots)
    BY DEF Windows, Window, Val, Scalar
  <2>1. \E b \in 1..Len(cells), start, len \in Nat :
            /\ cells'[d].slots = Window(b, start, len)
            /\ cells[b].kind = "agg" /\ start + len <= Len(cells[b].slots)
    <3>1. CASE d \in 1..Len(cells)
      BY <1>1, <1>2, <3>1 DEF Windows
    <3>2. CASE d = Len(cells) + 1
      BY <1>2, <3>2
    <3> QED
      BY <1>1, <1>2, <3>1, <3>2
  <2>2. PICK b \in 1..Len(cells), start \in Nat, len \in Nat :
            /\ cells'[d].slots = Window(b, start, len)
            /\ cells[b].kind = "agg" /\ start + len <= Len(cells[b].slots)
    BY <2>1
  <2>3. b \in 1..Len(cells') /\ cells'[b] = cells[b]
    BY <1>1, <1>2
  <2> QED
    BY <2>2, <2>3
<1>11. Stacks' /\ clobbered' \subseteq 1..nextTag
  BY <1>1, <1>4, StacksSame DEF Counters
<1> QED
  BY <1>5, <1>9, <1>10, <1>11, QuietStep

\* agg_new
LEMMA AggNewKeeps == MemoryInv /\ AggNew => MemoryInv'
<1> SUFFICES ASSUME MemoryInv, AggNew PROVE MemoryInv'
  OBVIOUS
<1> DEFINE z == [i \in Roots |-> Cur.val]
<1> DEFINE c == [kind |-> "agg", slots |-> z]
<1>1. /\ fault = "none" /\ cells' = Append(cells, c) /\ Define(Val(CellRef(Len(cells) + 1)))
      /\ UNCHANGED <<nextSerial, nextTag, allocs, arenas, borrows, hist>>
  BY DEF AggNew, Charge
<1>2. z \in Seq(Good)
  <2>1. PICK n \in Nat : Roots = 1..n
    BY RootsNumbered
  <2>2. Cur.val \in Good
    BY <1>1, CurFacts
  <2>3. z \in [1..n -> Good]
    BY <2>1, <2>2
  <2> HIDE DEF z
  <2> QED
    BY <2>3, SeqDef
<1> HIDE DEF z
<1>3. c \in CellOf(Good) /\ c.kind = "agg"
  BY <1>2 DEF CellOf
<1> HIDE DEF c
<1> QED
  BY <1>1, <1>3, CellStep

\* slice_range
LEMMA SliceRangeKeeps == MemoryInv /\ SliceRange => MemoryInv'
<1> SUFFICES ASSUME MemoryInv, SliceRange PROVE MemoryInv'
  OBVIOUS
<1> DEFINE s == Cur.val
<1> DEFINE w == SeqWindow(s.v.cell)
<1>1. PICK lo \in 0..Cardinality(Roots), hi \in 0..Cardinality(Roots) :
          /\ fault = "none"
          /\ \/ Faults(SlotFault(s)) \/ Faults("error type-mismatch") \/ Faults(WindowFault(s.v.cell))
             \/ Faults("trap bounds")
             \/ /\ IsCell(s) /\ Fits(w, lo, hi)
                /\ cells' = Append(cells, [kind |-> "slice", slots |-> Window(w.cell, w.start + lo, hi - lo)])
                /\ Define(Val(CellRef(Len(cells) + 1)))
                /\ UNCHANGED <<nextSerial, nextTag, allocs, arenas, borrows, hist>>
  BY DEF SliceRange, Charge, Window
<1>2. CASE \/ Faults(SlotFault(s)) \/ Faults("error type-mismatch") \/ Faults(WindowFault(s.v.cell))
           \/ Faults("trap bounds")
  BY <1>2, FaultStep, FaultsNamed
<1>3. CASE /\ IsCell(s) /\ Fits(w, lo, hi)
           /\ cells' = Append(cells, [kind |-> "slice", slots |-> Window(w.cell, w.start + lo, hi - lo)])
           /\ Define(Val(CellRef(Len(cells) + 1)))
           /\ UNCHANGED <<nextSerial, nextTag, allocs, arenas, borrows, hist>>
  <2>1. s.v.cell \in 1..Len(cells)
    BY <1>1, <1>3, CurFacts DEF Good, SlotOK
  <2>2. /\ w.cell \in 1..Len(cells) /\ cells[w.cell].kind = "agg"
        /\ w.start \in Nat /\ w.len \in Nat /\ w.start + w.len <= Len(cells[w.cell].slots)
        /\ Len(cells[w.cell].slots) \in Nat
    BY <2>1, WindowFacts
  <2>3. lo \in Nat /\ hi \in Nat
    BY RootsAssumption, FS_CardinalityType
  <2>4. lo <= hi /\ hi <= w.len
    BY <1>3 DEF Fits
  <2> DEFINE b == w.cell
  <2> DEFINE start == w.start + lo
  <2> DEFINE len == hi - lo
  <2> DEFINE c == [kind |-> "slice", slots |-> Window(b, start, len)]
  <2>5. b \in Nat /\ b \in 1..Len(cells) /\ cells[b].kind = "agg"
    BY <2>2
  <2>6. start \in Nat /\ len \in Nat /\ start + len <= Len(cells[b].slots)
    <3> DEFINE m == w.start
    <3> DEFINE n == w.len
    <3> DEFINE all == Len(cells[b].slots)
    <3>1. m \in Nat /\ n \in Nat /\ all \in Nat /\ m + n <= all /\ hi <= n
      BY <2>2, <2>4
    <3>2. start = m + lo
      OBVIOUS
    <3> HIDE DEF m, n, all, start
    <3>3. start \in Nat /\ len \in Nat /\ start + len <= all
      BY <2>3, <2>4, <3>1, <3>2
    <3> QED
      BY <3>3 DEF all
  <2> HIDE DEF w
  <2>7. cells' = Append(cells, c)
    BY <1>3
  <2> HIDE DEF b, start, len
  <2>8. Window(b, start, len) \in Seq(Good)
    <3>1. Val(Scalar(b)) \in Good /\ Val(Scalar(start)) \in Good /\ Val(Scalar(len)) \in Good
      BY <2>5, <2>6, PlainSlots
    <3> QED
      BY <3>1 DEF Window
  <2>9. c \in CellOf(Good) /\ c.slots = Window(b, start, len)
    BY <2>8 DEF CellOf
  <2> HIDE DEF c
  <2> QED
    BY <1>1, <1>3, <2>5, <2>6, <2>7, <2>9, CellStep
<1> QED
  BY <1>1, <1>2, <1>3

\* call: the new activation is younger than every pointer.
LEMMA CallKeeps == MemoryInv /\ Call => MemoryInv'
<1> SUFFICES ASSUME MemoryInv, Call PROVE MemoryInv'
  OBVIOUS
<1> USE DEF mem, hist
<1> DEFINE f == [serial |-> nextSerial, val |-> Uninit,
                 roots |-> [r \in Roots |-> IF r = 1 THEN Cur.val ELSE Uninit]]
<1>1. /\ fault = "none"
      /\ \/ Faults("error stack-overflow")
         \/ /\ frames' = Append(frames, f) /\ nextSerial' = nextSerial + 1
            /\ UNCHANGED <<nextTag, mem, hist>>
  BY DEF Call, Charge
<1>2. CASE Faults("error stack-overflow")
  BY <1>2, FaultStep
<1>3. CASE /\ frames' = Append(frames, f) /\ nextSerial' = nextSerial + 1
           /\ UNCHANGED <<nextTag, mem, hist>>
  <2>1. /\ Held(Good) /\ Counters /\ Serials /\ Stacks /\ Windows /\ Arenas /\ Owned
        /\ frames \in Seq(FrameOf(Good)) /\ Len(frames) \in Nat /\ nextSerial \in Nat
        /\ \A i \in 1..Len(frames) : frames[i].serial \in Nat
    BY Lengths DEF MemoryInv, Held, Counters, FrameOf
  <2>2. f \in FrameOf(Good) /\ f.serial = nextSerial
    BY <1>1, <2>1, CurFacts, PlainSlots DEF FrameOf
  <2> HIDE DEF f
  <2>3. /\ frames' \in Seq(FrameOf(Good)) /\ Len(frames') = Len(frames) + 1
        /\ \A i \in 1..Len(frames) : frames'[i] = frames[i]
        /\ frames'[Len(frames) + 1] = f
    BY <1>3, <2>1, <2>2, AppendProperties
  <2>4. \A i \in 1..Len(frames') : i \in 1..Len(frames) \/ (i = Len(frames) + 1 /\ frames'[i].serial = nextSerial)
    BY <2>1, <2>2, <2>3
  <2>5. RootsStay
    <3> SUFFICES ASSUME NEW i \in 1..Len(frames'), frames'[i].serial < nextSerial
                 PROVE  i \in 1..Len(frames) /\ frames'[i].serial = frames[i].serial
      BY <1>3, <2>1, <2>3 DEF RootsStay
    <3>1. i \in 1..Len(frames)
      BY <2>1, <2>4
    <3> QED
      BY <2>3, <3>1
  <2>6. Good \subseteq Good'
    BY <1>3, <2>1, <2>5, UnchangedStays, GoodGrows DEF MemoryStays
  <2>7. Held(Good)'
    BY <1>3, <2>1, <2>3, <2>6, SetsGrow DEF Held
  <2>8. Serials'
    <3>1. ASSUME NEW i \in 1..Len(frames'), NEW j \in 1..Len(frames'), i < j
          PROVE  frames'[i].serial < frames'[j].serial
      <4>1. i \in 1..Len(frames) /\ frames'[i] = frames[i]
        BY <2>1, <2>3, <3>1
      <4>2. CASE j \in 1..Len(frames)
        BY <2>1, <2>3, <3>1, <4>1, <4>2 DEF Serials
      <4>3. CASE j = Len(frames) + 1 /\ frames'[j].serial = nextSerial
        BY <2>1, <4>1, <4>3 DEF Serials
      <4> QED
        BY <2>4, <4>2, <4>3
    <3>2. ASSUME NEW i \in 1..Len(frames') PROVE frames'[i].serial < nextSerial + 1
      <4>1. CASE i \in 1..Len(frames)
        BY <2>1, <2>3, <4>1 DEF Serials
      <4>2. CASE i = Len(frames) + 1 /\ frames'[i].serial = nextSerial
        BY <2>1, <4>2
      <4> QED
        BY <2>4, <4>1, <4>2
    <3> QED
      BY <1>3, <3>1, <3>2 DEF Serials
  <2>9. Counters'
    <3>1. frames' # <<>>
      BY <2>1, <2>3, EmptySeq
    <3>2. nextSerial' \in Nat
      BY <1>3, <2>1
    <3> QED
      BY <1>3, <2>1, <3>1, <3>2 DEF Counters
  <2>10. Stacks'
    <3>1. \A i \in 1..Len(frames) : i \in 1..Len(frames')
      BY <2>1, <2>3
    <3>2. RootKeys \subseteq RootKeys'
      BY <3>1 DEF RootKeys
    <3>3. ASSUME NEW i \in 1..Len(frames'), NEW r \in Roots, RootKey(i, r) \in DOMAIN borrows
          PROVE  i \in 1..Len(frames) /\ ObjectOf(i, r)' = ObjectOf(i, r)
      <4>1. i \in 1..Len(frames)
        BY <2>1, <3>3 DEF Stacks, RootKeys, RootKey
      <4> QED
        BY <2>3, <4>1 DEF ObjectOf
    <3> QED
      BY <1>3, <2>1, <3>2, <3>3 DEF Stacks, RootKey
  <2>11. Arenas' /\ Owned' /\ Windows'
    BY <1>3, <2>1 DEF Arenas, Owned, Windows
  <2> QED
    BY <2>7, <2>8, <2>9, <2>10, <2>11 DEF MemoryInv
<1> QED
  BY <1>1, <1>2, <1>3

\* ret: pop_frame drops the borrow stacks of the activation that ends, and no
\* other one's.
LEMMA ReturnKeeps == MemoryInv /\ Return => MemoryInv'
<1> SUFFICES ASSUME MemoryInv, Return PROVE MemoryInv'
  OBVIOUS
<1> USE DEF hist
<1>1. /\ fault = "none" /\ Top > 1
      /\ \/ Faults(SlotFault(Cur.val))
         \/ /\ frames' = [SubSeq(frames, 1, Top - 1) EXCEPT ![Top - 1].val = Cur.val]
            /\ PopFrame
            /\ UNCHANGED <<nextSerial, nextTag, allocs, arenas, cells, hist>>
  BY DEF Return, Charge
<1>2. CASE Faults(SlotFault(Cur.val))
  BY <1>2, FaultStep, FaultsNamed
<1>3. CASE /\ frames' = [SubSeq(frames, 1, Top - 1) EXCEPT ![Top - 1].val = Cur.val]
           /\ PopFrame
           /\ UNCHANGED <<nextSerial, nextTag, allocs, arenas, cells, hist>>
  <2> DEFINE n == Len(frames) - 1
  <2> DEFINE fs == SubSeq(frames, 1, n)
  <2> DEFINE f == [fs[n] EXCEPT !.val = Cur.val]
  <2>1. /\ Held(Good) /\ Counters /\ Serials /\ Stacks /\ Windows /\ Arenas /\ Owned
        /\ frames \in Seq(FrameOf(Good)) /\ Len(frames) \in Nat /\ nextSerial \in Nat
        /\ \A i \in 1..Len(frames) : frames[i].serial \in Nat
    BY Lengths DEF MemoryInv, Held, Counters, FrameOf
  <2>2. n \in Nat \ {0} /\ n \in 1..Len(frames) /\ Top - 1 = n /\ Top = n + 1 /\ Len(frames) = n + 1
    BY <1>1, <2>1 DEF Top
  <2>3. Cur.val \in Good
    BY <1>1, CurFacts
  <2>4. frames' = [fs EXCEPT ![n] = f]
    BY <1>3, <2>2
  <2>5. fs \in Seq(FrameOf(Good)) /\ Len(fs) = n /\ \A i \in 1..n : fs[i] = frames[i]
    <3>1. \A i \in 1..n : i \in 1..Len(frames)
      BY <2>1, <2>2
    <3>2. \A i \in 1..n : frames[i] \in FrameOf(Good)
      BY <2>1, <3>1, ElementOfSeq
    <3>3. /\ fs \in Seq(FrameOf(Good)) /\ Len(fs) = IF 1 <= n THEN n - 1 + 1 ELSE 0
          /\ \A i \in 1..n - 1 + 1 : fs[i] = frames[1 + i - 1]
      BY <2>1, <2>2, <3>2, SubSeqProperties
    <3> HIDE DEF fs, n
    <3> QED
      BY <2>2, <3>3
  <2> HIDE DEF fs
  <2>6. fs[n] \in FrameOf(Good)
    BY <2>2, <2>5, ElementOfSeq
  <2>7. f \in FrameOf(Good) /\ f.serial = fs[n].serial
    BY <2>3, <2>6 DEF FrameOf
  <2> HIDE DEF f, n
  <2>8. /\ frames' \in Seq(FrameOf(Good)) /\ Len(frames') = n
        /\ \A i \in 1..n : frames'[i].serial = frames[i].serial
    <3>1. n \in 1..Len(fs)
      BY <2>2, <2>5
    <3>2. /\ frames' \in Seq(FrameOf(Good)) /\ Len(frames') = Len(fs)
          /\ \A i \in 1..Len(fs) : frames'[i] = IF i = n THEN f ELSE fs[i]
      BY <2>4, <2>5, <2>7, <3>1, ExceptSeq
    <3> QED
      BY <2>5, <2>7, <3>2
  <2>9. \A i \in 1..n : i \in 1..Len(frames) /\ i # Top
    BY <2>2
  <2>10. /\ DOMAIN borrows' = {k \in DOMAIN borrows : k[1] = "root" => k[2] # Top}
         /\ \A k \in DOMAIN borrows' : borrows'[k] = borrows[k]
    BY <1>3 DEF PopFrame
  <2>11. \A i \in 1..n, r \in Roots : RootKey(i, r) \in DOMAIN borrows => RootKey(i, r) \in DOMAIN borrows'
    BY <2>9, <2>10 DEF RootKey
  <2>12. RootsStay
    BY <1>3, <2>1, <2>2, <2>8, <2>9, <2>11 DEF RootsStay
  <2>13. Good \subseteq Good'
    <3>1. UNCHANGED <<allocs, owner, arenas, cells>>
      BY <1>3
    <3>2. MemoryStays
      BY <2>1, <2>12, <3>1, UnchangedStays DEF MemoryStays
    <3> QED
      BY <2>1, <3>2, GoodGrows
  <2>14. Held(Good)'
    <3>1. allocs' = allocs /\ cells' = cells
      BY <1>3
    <3>2. frames' \in Seq(FrameOf(Good'))
      BY <2>8, <2>13, SetsGrow
    <3> QED
      BY <2>1, <2>13, <3>1, <3>2, SetsGrow DEF Held
  <2>15. Serials'
    BY <1>3, <2>1, <2>8, <2>9 DEF Serials
  <2>16. Counters'
    <3>1. frames' # <<>>
      BY <2>2, <2>8, EmptySeq
    <3> QED
      BY <1>3, <2>1, <3>1 DEF Counters
  <2>17. Stacks'
    <3>1. DOMAIN borrows' \subseteq RootKeys' \cup ({"alloc"} \X Nat \X {0})
      <4> SUFFICES ASSUME NEW k \in DOMAIN borrows' PROVE k \in RootKeys' \cup ({"alloc"} \X Nat \X {0})
        OBVIOUS
      <4>1. k \in RootKeys \cup ({"alloc"} \X Nat \X {0}) /\ (k[1] = "root" => k[2] # Top)
        BY <2>1, <2>10 DEF Stacks
      <4>2. CASE k \in RootKeys
        <5>1. k \in {"root"} \X (1..Len(frames)) \X Roots
          BY <4>2 DEF RootKeys
        <5>2. k[1] = "root" /\ k[2] \in 1..Len(frames) /\ k[3] \in Roots /\ k = <<k[1], k[2], k[3]>>
          BY <5>1
        <5>3. k[2] \in 1..n
          BY <2>2, <4>1, <5>2
        <5> QED
          BY <2>8, <5>2, <5>3 DEF RootKeys
      <4> QED
        BY <4>1, <4>2
    <3>2. ASSUME NEW i \in 1..n, NEW r \in Roots, RootKey(i, r) \in DOMAIN borrows'
          PROVE  StackOK(borrows'[RootKey(i, r)], ObjectOf(i, r), nextTag, minted, clobbered) /\ ObjectOf(i, r)' = ObjectOf(i, r)
      <4>1. RootKey(i, r) \in DOMAIN borrows /\ borrows'[RootKey(i, r)] = borrows[RootKey(i, r)]
        BY <2>10, <3>2
      <4>2. i \in 1..Len(frames)
        BY <2>9
      <4> QED
        BY <2>1, <2>8, <4>1, <4>2 DEF Stacks, ObjectOf
    <3> QED
      BY <1>3, <2>8, <3>1, <3>2 DEF Stacks, RootKey
  <2>18. Arenas' /\ Owned' /\ Windows'
    BY <1>3, <2>1 DEF Arenas, Owned, Windows
  <2> QED
    BY <2>14, <2>15, <2>16, <2>17, <2>18 DEF MemoryInv
<1> QED
  BY <1>1, <1>2, <1>3

\* Counters of a step that may make tags, objects and arenas.
LEMMA CountersStep ==
  ASSUME MemoryInv, fault = "none", SameShape, frames' \in Seq(FrameOf(Good')), nextSerial' = nextSerial,
         nextTag' \in Nat, objects' \in Nat, arenas' \in Seq([gen : Nat, bump : Nat, data : Nat, region : Regions]),
         minted' \in Seq([object : Triples, unique : BOOLEAN]), Len(minted') = nextTag', clobbered' \subseteq 1..nextTag'
  PROVE  Counters'
<1>1. frames # <<>> /\ frames \in Seq(FrameOf(Good)) /\ nextSerial \in Nat
  BY CurFacts DEF MemoryInv, Held, Counters
<1>2. Len(frames) # 0
  BY <1>1, EmptySeq
<1>3. frames' # <<>>
  BY <1>2, EmptySeq DEF SameShape
<1> QED
  BY <1>1, <1>3 DEF Counters

\* A pointer to a local of the frame on top is made, as borrow and its kin do.
LEMMA BorrowKeeps == MemoryInv /\ Borrow => MemoryInv'
<1> SUFFICES ASSUME MemoryInv, Borrow PROVE MemoryInv'
  OBVIOUS
<1>1. PICK r \in Roots, op \in {"borrow", "borrow_mut", "borrow_out"} :
          /\ fault = "none"
          /\ borrows' = WithStack(RootKey(Top, r),
                            IF op = "borrow" THEN PushShared(BorrowStack(RootKey(Top, r)), nextTag + 1)
                            ELSE PushUnique(BorrowStack(RootKey(Top, r)), nextTag + 1))
          /\ frames' = [frames EXCEPT
                 ![Top].roots[r] = IF op = "borrow_out" THEN Uninit ELSE @,
                 ![Top].val = Val(Ptr(ToRoot(Top, Cur.serial, r), nextTag + 1, 0, 0, ObjectOf(Top, r)))]
          /\ minted' = Append(minted, [object |-> ObjectOf(Top, r), unique |-> op # "borrow"])
          /\ nextTag' = nextTag + 1
          /\ UNCHANGED <<nextSerial, allocs, arenas, cells, objects, owner, clobbered>>
  BY ZenonT(60) DEF Borrow, Charge
<1> DEFINE o == ObjectOf(Top, r)
<1> DEFINE t == ToRoot(Top, Cur.serial, r)
<1> DEFINE p == Ptr(t, nextTag + 1, 0, 0, o)
<1> DEFINE x == IF op = "borrow_out" THEN Uninit ELSE Cur.roots[r]
<1> DEFINE u == op # "borrow"
<1> DEFINE m == [object |-> o, unique |-> u]
<1> DEFINE st == IF op = "borrow" THEN PushShared(BorrowStack(RootKey(Top, r)), nextTag + 1)
                 ELSE PushUnique(BorrowStack(RootKey(Top, r)), nextTag + 1)
<1>2. /\ Held(Good) /\ Counters /\ Serials /\ Stacks /\ Windows /\ Arenas /\ Owned
      /\ frames \in Seq(FrameOf(Good)) /\ nextTag \in Nat /\ nextSerial \in Nat
  BY DEF MemoryInv, Held, Counters
<1>3. /\ frames # <<>> /\ Top \in 1..Len(frames) /\ Len(frames) \in Nat /\ Cur \in FrameOf(Good)
      /\ Cur.serial \in Nat /\ Cur.roots[r] \in Good /\ Cur = frames[Top]
  BY <1>1, CurFacts DEF Cur
<1>4. Top \in Nat \ {0} /\ Cur.serial < nextSerial
  BY <1>2, <1>3 DEF Serials
<1>5. o = <<"root", Cur.serial, r>> /\ r \in Nat
  BY <1>3, RootsNumbered DEF ObjectOf
<1>6. o \in Triples
  BY <1>3, <1>5 DEF Triples
<1>7. t \in Targets /\ t.k = "root" /\ t.frame = Top /\ t.serial = Cur.serial /\ t.root = r
  BY <1>3, <1>4 DEF ToRoot, Targets
<1> HIDE DEF o, t
<1>8. p \in Ptrs /\ p.target = t /\ p.born = o
  BY <1>2, <1>6, <1>7 DEF Ptr, Ptrs
<1>9. frames' = [frames EXCEPT ![Top] = [frames[Top] EXCEPT !.roots[r] = x, !.val = Val(p)]]
  BY <1>1, <1>3 DEF FrameOf, o, t
<1>10. x \in Good
  BY <1>3, PlainSlots
<1>11. u \in BOOLEAN /\ m \in [object : Triples, unique : BOOLEAN] /\ minted' = Append(minted, m)
  BY <1>1, <1>6 DEF o
<1> HIDE DEF x, p
<1>12. SameShape
  <2>1. Good \subseteq Slot \cup {Val(p)}
    BY DEF Good
  <2>2. frames \in Seq(FrameOf(Slot \cup {Val(p)})) /\ x \in Slot \cup {Val(p)}
    BY <1>2, <1>10, <2>1, SetsGrow
  <2> QED
    BY <1>3, <1>9, <2>2, SetsBoth
<1>13. StackOK(st, o, nextTag + 1, minted', clobbered)
  <2>1. CASE op = "borrow"
    <3>1. u = FALSE
      BY <2>1
    <3>2. StackOK(PushShared(BorrowStack(RootKey(Top, r)), nextTag + 1), o, nextTag + 1, minted', clobbered)
      <4> HIDE DEF u
      <4> QED
        BY <1>2, <1>3, <1>11, <3>1, BorrowedStack DEF o
    <3> QED
      BY <2>1, <3>2
  <2>2. CASE op # "borrow"
    <3>1. u = TRUE
      BY <2>2
    <3>2. StackOK(PushUnique(BorrowStack(RootKey(Top, r)), nextTag + 1), o, nextTag + 1, minted', clobbered)
      <4> HIDE DEF u
      <4> QED
        BY <1>2, <1>3, <1>11, <3>1, BorrowedStack DEF o
    <3> QED
      BY <2>2, <3>2
  <2> QED
    BY <2>1, <2>2
<1>14. borrows' = WithStack(RootKey(Top, r), st) /\ RootKey(Top, r) \in RootKeys
  BY <1>1, <1>3 DEF RootKey, RootKeys
<1> HIDE DEF st, m, u
<1>15. \A g \in 1..Len(frames), q \in Roots :
           RootKey(g, q) = RootKey(Top, r) => StackOK(st, ObjectOf(g, q), nextTag + 1, minted', clobbered)
  <2> SUFFICES ASSUME NEW g \in 1..Len(frames), NEW q \in Roots, RootKey(g, q) = RootKey(Top, r)
               PROVE  StackOK(st, ObjectOf(g, q), nextTag + 1, minted', clobbered)
    OBVIOUS
  <2>1. g = Top /\ q = r
    BY DEF RootKey
  <2> QED
    BY <1>13, <2>1 DEF o
<1>16. UNCHANGED <<nextSerial, allocs, arenas, cells, objects, owner, clobbered>> /\ nextTag' = nextTag + 1
  BY <1>1
<1>17. /\ Stacks' /\ DOMAIN borrows \subseteq DOMAIN borrows'
       /\ minted' \in Seq([object : Triples, unique : BOOLEAN]) /\ Len(minted') = nextTag'
       /\ clobbered' \subseteq 1..nextTag'
  BY <1>2, <1>11, <1>12, <1>14, <1>15, <1>16, StacksMinted
<1>18. Serials' /\ RootsStay
  BY <1>2, <1>12, <1>16, <1>17, ShapeKeeps
<1>19. Good \subseteq Good'
  BY <1>2, <1>16, <1>18, UnchangedStays, GoodGrows DEF MemoryStays
<1>20. Val(p) \in Good'
  <2> SUFFICES ASSUME NEW q \in Ptrs, q = p PROVE Val(q) \in Good'
    BY <1>8
  <2>1. RootKey(Top, r) \in DOMAIN borrows'
    BY <1>14 DEF WithStack
  <2>2. /\ q.target.k = "root" /\ q.target.frame = Top /\ q.target.serial = Cur.serial
        /\ q.target.root = r /\ q.born = o
    BY <1>7, <1>8
  <2>3. RootOK(q)'
    <3>1. q.target.serial < nextSerial'
      BY <1>4, <1>16, <2>2
    <3>2. q.born = <<"root", q.target.serial, q.target.root>>
      BY <1>5, <2>2
    <3>3. RootKey(q.target.frame, q.target.root) \in DOMAIN borrows'
      BY <2>1, <2>2
    <3> QED
      BY <3>1, <3>2, <3>3 DEF RootOK, RootKey
  <2> QED
    BY <2>2, <2>3, GoodNext DEF PtrOK
<1>21. frames' \in Seq(FrameOf(Good'))
  <2>1. frames \in Seq(FrameOf(Good')) /\ x \in Good'
    BY <1>2, <1>10, <1>19, SetsGrow
  <2> QED
    BY <1>3, <1>9, <1>20, <2>1, SetsBoth
<1>22. Held(Good)'
  BY <1>2, <1>16, <1>19, <1>21, SetsGrow DEF Held
<1>23. Counters'
  BY <1>1, <1>2, <1>12, <1>16, <1>17, <1>21, CountersStep DEF Counters
<1>24. Arenas' /\ Owned' /\ Windows'
  BY <1>2, <1>16 DEF Arenas, Owned, Windows
<1> QED
  BY <1>17, <1>18, <1>22, <1>23, <1>24 DEF MemoryInv

\* An allocation is added, with a stack and a tag of its own.
LEMMA ObjectMade ==
  ASSUME MemoryInv, fault = "none", SameShape, NEW a \in AllocOf(Good), NewObject(a), UNCHANGED clobbered,
         \A c \in DOMAIN owner : c \in DOMAIN owner' /\ owner'[c] = owner[c]
  PROVE  /\ Stacks' /\ DOMAIN borrows \subseteq DOMAIN borrows' /\ nextTag' = nextTag + 1
         /\ minted' \in Seq([object : Triples, unique : BOOLEAN]) /\ Len(minted') = nextTag'
         /\ clobbered' \subseteq 1..nextTag'
         /\ allocs' \in Seq(AllocOf(Good)) /\ Len(allocs') = Len(allocs) + 1 /\ Len(allocs) \in Nat
         /\ \A i \in 1..Len(allocs) : allocs'[i] = allocs[i]
         /\ allocs'[Len(allocs) + 1] = a
         /\ AllocsStay
<1> DEFINE id == Len(allocs) + 1
<1>1. /\ Held(Good) /\ Counters /\ Stacks /\ Len(allocs) \in Nat
      /\ allocs \in Seq(AllocOf(Good)) /\ nextTag \in Nat
  BY Lengths DEF MemoryInv, Held, Counters
<1>2. /\ allocs' = Append(allocs, a)
      /\ borrows' = WithStack(AllocKey(id), Rooted(nextTag + 1))
      /\ minted' = Append(minted, [object |-> <<"alloc", id, 0>>, unique |-> TRUE])
      /\ nextTag' = nextTag + 1
  BY DEF NewObject
<1>3. id \in Nat
  BY <1>1
<1> HIDE DEF id
<1>4. [object |-> <<"alloc", id, 0>>, unique |-> TRUE] \in [object : Triples, unique : BOOLEAN]
  BY <1>3 DEF Triples
<1>5. AllocKey(id) \in RootKeys \cup ({"alloc"} \X Nat \X {0})
  BY <1>3 DEF AllocKey
<1>6. \A g \in 1..Len(frames), q \in Roots : RootKey(g, q) # AllocKey(id)
  BY DEF RootKey, AllocKey
<1> DEFINE m == [object |-> <<"alloc", id, 0>>, unique |-> TRUE]
<1> DEFINE st == Rooted(nextTag + 1)
<1> DEFINE key == AllocKey(id)
<1>7. /\ Stacks' /\ DOMAIN borrows \subseteq DOMAIN borrows'
      /\ minted' \in Seq([object : Triples, unique : BOOLEAN]) /\ Len(minted') = nextTag'
      /\ clobbered' \subseteq 1..nextTag'
  <2>1. m \in [object : Triples, unique : BOOLEAN] /\ minted' = Append(minted, m)
    BY <1>2, <1>4
  <2>2. key \in RootKeys \cup ({"alloc"} \X Nat \X {0}) /\ borrows' = WithStack(key, st)
    BY <1>2, <1>5
  <2> HIDE DEF m, st
  <2>3. \A g \in 1..Len(frames), q \in Roots :
            RootKey(g, q) = key => StackOK(st, ObjectOf(g, q), nextTag + 1, minted', clobbered)
    BY <1>6
  <2> HIDE DEF key
  <2>4. Held(Good) /\ Counters /\ Stacks /\ SameShape /\ UNCHANGED clobbered /\ nextTag' = nextTag + 1
    BY <1>1, <1>2
  <2> QED
    BY <2>1, <2>2, <2>3, <2>4, StacksMinted
<1>8. /\ allocs' \in Seq(AllocOf(Good)) /\ Len(allocs') = Len(allocs) + 1
      /\ \A i \in 1..Len(allocs) : allocs'[i] = allocs[i]
      /\ allocs'[Len(allocs) + 1] = a
  BY <1>1, <1>2, AppendProperties
<1>9. AllocsStay
  BY <1>1, <1>8 DEF AllocsStay
<1> QED
  BY <1>1, <1>2, <1>7, <1>8, <1>9

\* A block of memory that nothing was written to yet.
LEMMA BlankAlloc ==
  ASSUME NEW w \in Owners, NEW n \in Nat
  PROVE  [owner |-> w, state |-> "live", size |-> n, cells |-> Blank(n)] \in AllocOf(Good)
<1> DEFINE z == Blank(n)
<1> DEFINE a == [owner |-> w, state |-> "live", size |-> n, cells |-> z]
<1>1. z \in [0..n - 1 -> Good]
  BY PlainSlots DEF Blank
<1> HIDE DEF z
<1>2. a.owner = w /\ a.state = "live" /\ a.size = n /\ a.cells = z
  OBVIOUS
<1>3. a = [owner |-> a.owner, state |-> a.state, size |-> a.size, cells |-> a.cells]
  OBVIOUS
<1> HIDE DEF a
<1>4. a \in AllocOf(Good)
  BY <1>1, <1>2, <1>3, AllocFacts
<1> QED
  BY <1>4 DEF a, z

\* alloc
LEMMA AllocKeeps == MemoryInv /\ Alloc => MemoryInv'
<1> SUFFICES ASSUME MemoryInv, Alloc PROVE MemoryInv'
  OBVIOUS
<1> DEFINE id == Len(allocs) + 1
<1> DEFINE p == Ptr(ToAlloc(id), nextTag + 1, 0, 0, NewBorn)
<1>1. PICK n \in Sizes, b \in Brands :
          /\ fault = "none" /\ objects' = objects + 1
          /\ NewObject([owner |-> <<"heap", b>>, state |-> "live", size |-> n, cells |-> Blank(n)])
          /\ owner' = [c \in DOMAIN owner \cup ({id} \X (0..n - 1)) |->
                           IF c \in DOMAIN owner THEN owner[c] ELSE NewBorn]
          /\ Define(Val(p))
          /\ UNCHANGED <<nextSerial, arenas, cells, clobbered>>
  BY DEF Alloc, Charge
<1> DEFINE a == [owner |-> <<"heap", b>>, state |-> "live", size |-> n, cells |-> Blank(n)]
<1>2. /\ Held(Good) /\ Counters /\ Serials /\ Windows /\ Arenas /\ Owned
      /\ frames \in Seq(FrameOf(Good)) /\ frames # <<>> /\ nextTag \in Nat /\ objects \in Nat
      /\ Len(allocs) \in Nat /\ Len(arenas) \in Nat
      /\ \A i \in 1..Len(arenas) : arenas[i].gen \in Nat /\ arenas[i].bump \in Nat
  BY <1>1, CurFacts, Lengths DEF MemoryInv, Held, Counters
<1>3. n \in Nat /\ <<"heap", b>> \in Owners /\ <<"heap", b>>[1] = "heap"
  BY BoundsAssumption DEF Owners
<1>4. a \in AllocOf(Good) /\ a.owner[1] = "heap" /\ a.size = n
  BY <1>3, BlankAlloc
<1>5. NewObject(a) /\ id \in Nat \ {0}
  BY <1>1, <1>2
<1>6. NewBorn \in Triples
  BY <1>2 DEF NewBorn, Triples
<1>7. p \in Ptrs /\ p.target.k = "alloc" /\ p.target.id = id /\ p.off = 0 /\ p.born = NewBorn
  <2>1. ToAlloc(id) \in Targets /\ ToAlloc(id).k = "alloc" /\ ToAlloc(id).id = id
    BY <1>5 DEF ToAlloc, Targets
  <2> QED
    BY <1>2, <1>6, <2>1 DEF Ptr, Ptrs
<1> HIDE DEF p, a
<1>8. SameShape
  <2>1. Good \subseteq Slot \cup {Val(p)}
    BY DEF Good
  <2>2. frames \in Seq(FrameOf(Slot \cup {Val(p)}))
    BY <1>2, <2>1, SetsGrow
  <2> QED
    BY <1>1, <1>2, <2>2, Defines
<1>9. /\ DOMAIN owner' = DOMAIN owner \cup ({id} \X (0..n - 1))
      /\ \A c \in DOMAIN owner : owner'[c] = owner[c]
      /\ \A c \in {id} \X (0..n - 1) : c \notin DOMAIN owner => owner'[c] = NewBorn
  BY <1>1
<1>10. UNCHANGED <<nextSerial, arenas, cells, clobbered>> /\ objects' = objects + 1 /\ Define(Val(p))
  BY <1>1
<1>11. /\ Stacks' /\ DOMAIN borrows \subseteq DOMAIN borrows' /\ nextTag' = nextTag + 1
       /\ minted' \in Seq([object : Triples, unique : BOOLEAN]) /\ Len(minted') = nextTag'
       /\ clobbered' \subseteq 1..nextTag'
       /\ allocs' \in Seq(AllocOf(Good)) /\ Len(allocs') = Len(allocs) + 1
       /\ \A i \in 1..Len(allocs) : allocs'[i] = allocs[i]
       /\ allocs'[Len(allocs) + 1] = a
       /\ AllocsStay
  BY <1>1, <1>4, <1>5, <1>8, <1>9, <1>10, ObjectMade
<1>12. Serials' /\ RootsStay
  BY <1>2, <1>8, <1>10, <1>11, ShapeKeeps
<1>13. ArenasStay /\ CellsStay
  BY <1>2, <1>9, <1>10, Lengths DEF ArenasStay, CellsStay
<1>14. Good \subseteq Good'
  BY <1>2, <1>11, <1>12, <1>13, GoodGrows DEF MemoryStays
<1>15. Val(p) \in Good'
  <2> SUFFICES ASSUME NEW q \in Ptrs, q = p PROVE Val(q) \in Good'
    BY <1>7
  <2>1. /\ q.target.k = "alloc" /\ q.target.id = id /\ q.off = 0 /\ q.born = NewBorn
    BY <1>7
  <2>2. id \in 1..Len(allocs') /\ allocs'[id] = a
    BY <1>2, <1>11
  <2>3. ASSUME 0 < n PROVE <<id, 0>> \in DOMAIN owner' /\ owner'[<<id, 0>>] = NewBorn
    <3>1. <<id, 0>> \in {id} \X (0..n - 1)
      BY <1>3, <2>3
    <3>2. <<id, 0>> \notin DOMAIN owner
      <4>1. id \notin 1..Len(allocs)
        BY <1>2
      <4> QED
        BY <1>2, <4>1 DEF Owned
    <3> QED
      BY <1>9, <3>1, <3>2
  <2>4. AllocOK(q)'
    BY <1>4, <2>1, <2>2, <2>3 DEF AllocOK
  <2> QED
    BY <2>1, <2>4, GoodNext DEF PtrOK
<1>16. frames' \in Seq(FrameOf(Good'))
  <2>1. frames \in Seq(FrameOf(Good'))
    BY <1>2, <1>14, SetsGrow
  <2> QED
    BY <1>2, <1>10, <1>15, <2>1, Defines
<1>17. Held(Good)'
  BY <1>2, <1>10, <1>11, <1>14, <1>16, SetsGrow DEF Held
<1>18. Counters'
  <2>1. nextTag' \in Nat /\ objects' \in Nat
    BY <1>2, <1>10, <1>11
  <2> QED
    BY <1>1, <1>2, <1>8, <1>10, <1>11, <1>16, <2>1, CountersStep DEF Counters
<1>19. \A i \in 1..Len(allocs) : i \in 1..Len(allocs')
  BY <1>2, <1>11
<1>20. Arenas' /\ Windows'
  BY <1>2, <1>10, <1>11, <1>19 DEF Arenas, Windows
<1>21. Owned'
  <2>1. id \in 1..Len(allocs') /\ \A i \in 0..n - 1 : i \in Nat
    BY <1>2, <1>3, <1>11
  <2>2. {id} \X (0..n - 1) \subseteq (1..Len(allocs')) \X Nat
    BY <2>1
  <2>3. (1..Len(allocs)) \X Nat \subseteq (1..Len(allocs')) \X Nat
    BY <1>19
  <2> QED
    BY <1>2, <1>9, <2>2, <2>3 DEF Owned
<1> QED
  BY <1>11, <1>12, <1>17, <1>18, <1>20, <1>21 DEF MemoryInv

\* region_enter
LEMMA RegionEnterKeeps == MemoryInv /\ RegionEnter => MemoryInv'
<1> SUFFICES ASSUME MemoryInv, RegionEnter PROVE MemoryInv'
  OBVIOUS
<1> DEFINE id == Len(allocs) + 1
<1> DEFINE n == Len(arenas) + 1
<1> DEFINE p == Ptr(ToArena(n, id), nextTag + 1, 0, 0, Handle)
<1> DEFINE a == [owner |-> <<"arena", n>>, state |-> "live", size |-> 0, cells |-> Blank(0)]
<1>1. PICK g \in Regions :
          /\ fault = "none" /\ NewObject(a)
          /\ arenas' = Append(arenas, [gen |-> 0, bump |-> 0, data |-> id, region |-> g])
          /\ Define(Val(p))
          /\ UNCHANGED <<nextSerial, cells, objects, owner, clobbered>>
  BY DEF RegionEnter, Charge
<1> DEFINE e == [gen |-> 0, bump |-> 0, data |-> id, region |-> g]
<1>2. /\ Held(Good) /\ Counters /\ Serials /\ Windows /\ Arenas /\ Owned
      /\ frames \in Seq(FrameOf(Good)) /\ frames # <<>> /\ nextTag \in Nat /\ objects \in Nat
      /\ Len(allocs) \in Nat /\ Len(arenas) \in Nat
      /\ arenas \in Seq([gen : Nat, bump : Nat, data : Nat, region : Regions])
      /\ \A i \in 1..Len(arenas) : arenas[i].gen \in Nat /\ arenas[i].bump \in Nat
  BY <1>1, CurFacts, Lengths DEF MemoryInv, Held, Counters
<1>3. <<"arena", n>> \in Owners /\ <<"arena", n>>[1] = "arena" /\ n \in Nat \ {0} /\ id \in Nat \ {0}
  BY <1>2 DEF Owners
<1>4. a \in AllocOf(Good) /\ a.owner[1] = "arena"
  BY <1>3, BlankAlloc
<1>5. NewObject(a)
  BY <1>1
<1>6. e \in [gen : Nat, bump : Nat, data : Nat, region : Regions] /\ e.gen = 0 /\ e.data = id
  BY <1>3
<1>7. p \in Ptrs /\ p.target.k = "arena" /\ p.target.arena = n /\ p.target.id = id /\ p.gen = 0 /\ p.born = Handle
  <2>1. ToArena(n, id) \in Targets /\ ToArena(n, id).k = "arena" /\ ToArena(n, id).id = id /\ ToArena(n, id).arena = n
    BY <1>3 DEF ToArena, Targets
  <2>2. Handle \in Triples
    BY DEF Handle, Triples
  <2> QED
    BY <1>2, <2>1, <2>2 DEF Ptr, Ptrs
<1>8. arenas' = Append(arenas, e) /\ Define(Val(p)) /\ UNCHANGED <<nextSerial, cells, objects, owner, clobbered>>
  BY <1>1
<1> HIDE DEF p, a, e
<1>9. SameShape
  <2>1. Good \subseteq Slot \cup {Val(p)}
    BY DEF Good
  <2>2. frames \in Seq(FrameOf(Slot \cup {Val(p)}))
    BY <1>2, <2>1, SetsGrow
  <2> QED
    BY <1>2, <1>8, <2>2, Defines
<1>10. /\ arenas' \in Seq([gen : Nat, bump : Nat, data : Nat, region : Regions]) /\ Len(arenas') = n
       /\ \A i \in 1..Len(arenas) : arenas'[i] = arenas[i]
       /\ arenas'[n] = e
  BY <1>2, <1>6, <1>8, AppendProperties
<1>11. /\ Stacks' /\ DOMAIN borrows \subseteq DOMAIN borrows' /\ nextTag' = nextTag + 1
       /\ minted' \in Seq([object : Triples, unique : BOOLEAN]) /\ Len(minted') = nextTag'
       /\ clobbered' \subseteq 1..nextTag'
       /\ allocs' \in Seq(AllocOf(Good)) /\ Len(allocs') = id
       /\ \A i \in 1..Len(allocs) : allocs'[i] = allocs[i]
       /\ allocs'[id] = a
       /\ AllocsStay
  BY <1>1, <1>4, <1>5, <1>8, <1>9, ObjectMade
<1>12. Serials' /\ RootsStay
  BY <1>2, <1>8, <1>9, <1>11, ShapeKeeps
<1>13. ArenasStay
  <2>1. Len(arenas') \in Nat /\ Len(arenas) <= Len(arenas')
    BY <1>2, <1>3, <1>10
  <2>2. \A i \in 1..Len(arenas) : arenas'[i] = arenas[i] /\ arenas[i].gen \in Nat /\ arenas[i].bump \in Nat
    <3> HIDE DEF n, id
    <3> QED
      BY <1>2, <1>10
  <2>3. owner' = owner
    BY <1>8
  <2> HIDE DEF n, id
  <2>4. \A i \in 1..Len(arenas) :
            /\ arenas'[i].data = arenas[i].data
            /\ arenas'[i].gen \in Nat /\ arenas[i].gen <= arenas'[i].gen
            /\ arenas'[i].bump \in Nat /\ arenas[i].bump <= arenas'[i].bump
    BY <2>2
  <2>5. \A i \in 1..Len(arenas) : \A j \in Nat : <<arenas[i].data, j>> \in DOMAIN owner =>
            /\ <<arenas[i].data, j>> \in DOMAIN owner'
            /\ owner'[<<arenas[i].data, j>>] = owner[<<arenas[i].data, j>>]
    BY <2>3
  <2> QED
    BY <2>1, <2>4, <2>5 DEF ArenasStay
<1>14. CellsStay
  BY <1>2, <1>8, Lengths DEF CellsStay
<1>15. Good \subseteq Good'
  BY <1>2, <1>11, <1>12, <1>13, <1>14, GoodGrows DEF MemoryStays
<1>16. Val(p) \in Good'
  <2> SUFFICES ASSUME NEW q \in Ptrs, q = p PROVE Val(q) \in Good'
    BY <1>7
  <2>1. q.target.k = "arena" /\ q.target.arena = n /\ q.target.id = id /\ q.gen = 0 /\ q.born = Handle
    BY <1>7
  <2>2. n \in 1..Len(arenas') /\ arenas'[n].data = id /\ arenas'[n].gen = 0
    BY <1>3, <1>6, <1>10
  <2>3. ArenaOK(q)'
    BY <2>1, <2>2 DEF ArenaOK, Handle
  <2> QED
    BY <2>1, <2>3, GoodNext DEF PtrOK
<1>17. frames' \in Seq(FrameOf(Good'))
  <2>1. frames \in Seq(FrameOf(Good'))
    BY <1>2, <1>15, SetsGrow
  <2> QED
    BY <1>2, <1>8, <1>16, <2>1, Defines
<1>18. Held(Good)'
  BY <1>2, <1>8, <1>11, <1>15, <1>17, SetsGrow DEF Held
<1>19. Counters'
  <2>1. nextTag' \in Nat /\ objects' \in Nat
    BY <1>2, <1>8, <1>11
  <2> QED
    BY <1>1, <1>2, <1>8, <1>9, <1>10, <1>11, <1>17, <2>1, CountersStep
<1>20. (\A i \in 1..Len(allocs) : i \in 1..Len(allocs') /\ i # id) /\ id \in 1..Len(allocs')
  BY <1>2, <1>11
<1>21. \A i \in 1..Len(arenas') : i \in 1..Len(arenas) \/ i = n
  BY <1>2, <1>10
<1>22. Arenas'
  <2>1. \A i \in 1..Len(arenas) :
            /\ arenas'[i].data \in 1..Len(allocs) /\ arenas'[i].data # id
            /\ arenas'[i].data \in 1..Len(allocs') /\ allocs'[arenas'[i].data].owner[1] = "arena"
            /\ \A j \in 1..Len(arenas) : i # j => arenas'[i].data # arenas'[j].data
    <3> SUFFICES ASSUME NEW i \in 1..Len(arenas)
                 PROVE  /\ arenas'[i].data \in 1..Len(allocs) /\ arenas'[i].data # id
                        /\ arenas'[i].data \in 1..Len(allocs') /\ allocs'[arenas'[i].data].owner[1] = "arena"
                        /\ \A j \in 1..Len(arenas) : i # j => arenas'[i].data # arenas'[j].data
      OBVIOUS
    <3>1. arenas[i].data \in 1..Len(allocs) /\ allocs[arenas[i].data].owner[1] = "arena"
      BY <1>2 DEF Arenas
    <3>2. \A j \in 1..Len(arenas) : i # j => arenas[i].data # arenas[j].data
      BY <1>2 DEF Arenas
    <3>3. arenas'[i] = arenas[i] /\ \A j \in 1..Len(arenas) : arenas'[j] = arenas[j]
      BY <1>10
    <3>4. allocs'[arenas[i].data] = allocs[arenas[i].data]
      BY <1>11, <3>1
    <3> HIDE DEF id, n
    <3> QED
      BY <1>20, <3>1, <3>2, <3>3, <3>4
  <2>2. arenas'[n].data = id /\ allocs'[id].owner[1] = "arena"
    BY <1>4, <1>6, <1>10, <1>11
  <2> QED
    BY <1>20, <1>21, <2>1, <2>2 DEF Arenas
<1>23. Windows'
  BY <1>2, <1>8 DEF Windows
<1>24. Owned'
  <2>1. (1..Len(allocs)) \X Nat \subseteq (1..Len(allocs')) \X Nat
    BY <1>20
  <2> QED
    BY <1>2, <1>8, <2>1 DEF Owned
<1> QED
  BY <1>11, <1>12, <1>18, <1>19, <1>22, <1>23, <1>24 DEF MemoryInv

\* The arena an operand names.
LEMMA OperandFacts ==
  ASSUME MemoryInv, fault = "none", ArenaOperandFault(Cur.val) = "ok"
  PROVE  /\ Cur.val.v.target.arena \in 1..Len(arenas) /\ Cur.val.v.tag \in Nat
         /\ Cur.val.v.target.id = arenas[Cur.val.v.target.arena].data
         /\ Cur.val.v.target.id \in 1..Len(allocs) /\ allocs[Cur.val.v.target.id].owner[1] = "arena"
         /\ Cur.val.v.target.id \in Nat \ {0}
<1> DEFINE s == Cur.val
<1>1. s \in Good /\ Arenas
  BY CurFacts DEF MemoryInv
<1>2. IsPtr(s) /\ s.v.target.k = "arena"
  BY DEF ArenaOperandFault
<1> HIDE DEF s
<1>3. s.v \in Ptrs /\ ArenaOK(s.v)
  BY <1>1, <1>2, GoodPointers DEF PtrOK
<1>4. s.v.tag \in Nat /\ s.v.target.id \in Nat \ {0}
  BY <1>2, <1>3, TargetKinds
<1>5. s.v.target.arena \in 1..Len(arenas) /\ s.v.target.id = arenas[s.v.target.arena].data
  BY <1>3 DEF ArenaOK
<1>6. s.v.target.id \in 1..Len(allocs) /\ allocs[s.v.target.id].owner[1] = "arena"
  BY <1>1, <1>5 DEF Arenas
<1> QED
  BY <1>4, <1>5, <1>6 DEF s

ArenaEntry == [gen : Nat, bump : Nat, data : Nat, region : Regions]

\* A step that changes one arena and its data: the arena grows within its
\* generation, or begins another.
ArenaMoves(a, id, e, x) ==
  /\ id = arenas[a].data /\ e \in ArenaEntry /\ e.data = id /\ e.gen >= arenas[a].gen
  /\ e.gen = arenas[a].gen => e.bump >= arenas[a].bump
  /\ arenas' = [arenas EXCEPT ![a] = e]
  /\ x \in AllocOf(Good) /\ x.owner = allocs[id].owner /\ allocs' = [allocs EXCEPT ![id] = x]
  /\ DOMAIN owner \subseteq DOMAIN owner' /\ DOMAIN owner' \subseteq (1..Len(allocs)) \X Nat
  /\ \A c \in DOMAIN owner :
         c[1] # id \/ (e.gen = arenas[a].gen /\ c[2] < arenas[a].bump) => owner'[c] = owner[c]
  /\ objects' \in Nat /\ UNCHANGED <<nextSerial, nextTag, borrows, cells, minted, clobbered>>

\* Such a step keeps the invariant if the value it gives is good.
LEMMA ArenaStep ==
  ASSUME MemoryInv, fault = "none", NEW a \in 1..Len(arenas), NEW id, NEW e, NEW x, ArenaMoves(a, id, e, x),
         NEW s, Define(s)
  PROVE  /\ arenas'[a] = e /\ Len(arenas') = Len(arenas)
         /\ s \in Good' => MemoryInv'
<1>0. /\ id = arenas[a].data /\ e \in ArenaEntry /\ e.data = id /\ e.gen >= arenas[a].gen
      /\ e.gen = arenas[a].gen => e.bump >= arenas[a].bump
      /\ arenas' = [arenas EXCEPT ![a] = e]
      /\ x \in AllocOf(Good) /\ x.owner = allocs[id].owner /\ allocs' = [allocs EXCEPT ![id] = x]
      /\ DOMAIN owner \subseteq DOMAIN owner' /\ DOMAIN owner' \subseteq (1..Len(allocs)) \X Nat
      /\ \A c \in DOMAIN owner :
             c[1] # id \/ (e.gen = arenas[a].gen /\ c[2] < arenas[a].bump) => owner'[c] = owner[c]
      /\ objects' \in Nat /\ UNCHANGED <<nextSerial, nextTag, borrows, cells, minted, clobbered>>
  BY DEF ArenaMoves
<1> USE <1>0
<1>1. /\ Held(Good) /\ Counters /\ Serials /\ Windows /\ Arenas /\ Owned /\ Stacks
      /\ frames \in Seq(FrameOf(Good)) /\ frames # <<>> /\ allocs \in Seq(AllocOf(Good))
      /\ Len(allocs) \in Nat /\ Len(arenas) \in Nat
      /\ arenas \in Seq(ArenaEntry)
      /\ \A i \in 1..Len(arenas) : arenas[i].gen \in Nat /\ arenas[i].bump \in Nat
  BY CurFacts, Lengths DEF MemoryInv, Held, Counters, ArenaEntry
<1>2. id \in 1..Len(allocs) /\ allocs[id].owner[1] = "arena"
  BY <1>1 DEF Arenas
<1>3. \A b \in 1..Len(arenas) : b # a => arenas[b].data # id
  BY <1>1 DEF Arenas
<1>4. e.gen \in Nat /\ e.bump \in Nat
  BY DEF ArenaEntry
<1>5. SameShape
  <2>1. Good \subseteq Slot \cup {s}
    BY DEF Good
  <2>2. frames \in Seq(FrameOf(Slot \cup {s}))
    BY <1>1, <2>1, SetsGrow
  <2> QED
    BY <1>1, <2>2, Defines
<1>6. /\ arenas' \in Seq(ArenaEntry) /\ Len(arenas') = Len(arenas) /\ arenas'[a] = e
      /\ \A i \in 1..Len(arenas) : i # a => arenas'[i] = arenas[i]
  BY <1>1, ExceptSeq
<1>7. /\ allocs' \in Seq(AllocOf(Good)) /\ Len(allocs') = Len(allocs) /\ allocs'[id] = x
      /\ \A j \in 1..Len(allocs) : j # id => allocs'[j] = allocs[j]
  BY <1>1, <1>2, ExceptSeq
<1>8. \A j \in 1..Len(allocs) : allocs'[j].owner = allocs[j].owner
  BY <1>7
<1>9. AllocsStay
  <2> SUFFICES ASSUME NEW i \in 1..Len(allocs), allocs[i].owner[1] = "heap"
               PROVE  /\ allocs'[i].size = allocs[i].size
                      /\ \A j \in Nat : <<i, j>> \in DOMAIN owner =>
                             <<i, j>> \in DOMAIN owner' /\ owner'[<<i, j>>] = owner[<<i, j>>]
    BY <1>1, <1>7, <1>8 DEF AllocsStay
  <2>1. i # id
    BY <1>2
  <2>2. \A j \in Nat : <<i, j>>[1] # id
    BY <2>1
  <2> QED
    BY <1>7, <2>1, <2>2
<1>10. ArenasStay
  <2> SUFFICES ASSUME NEW i \in 1..Len(arenas)
               PROVE  /\ arenas'[i].data = arenas[i].data
                      /\ arenas'[i].gen \in Nat /\ arenas[i].gen <= arenas'[i].gen
                      /\ arenas'[i].gen = arenas[i].gen =>
                             /\ arenas'[i].bump \in Nat /\ arenas[i].bump <= arenas'[i].bump
                             /\ \A j \in Nat : j < arenas[i].bump /\ <<arenas[i].data, j>> \in DOMAIN owner =>
                                    /\ <<arenas[i].data, j>> \in DOMAIN owner'
                                    /\ owner'[<<arenas[i].data, j>>] = owner[<<arenas[i].data, j>>]
    BY <1>1, <1>6 DEF ArenasStay
  <2>1. arenas[i].gen \in Nat /\ arenas[i].bump \in Nat
    BY <1>1
  <2>2. CASE i # a
    <3>1. arenas'[i] = arenas[i] /\ \A j \in Nat : <<arenas[i].data, j>>[1] # id
      BY <1>3, <1>6, <2>2
    <3>2. \A j \in Nat : <<arenas[i].data, j>> \in DOMAIN owner =>
              /\ <<arenas[i].data, j>> \in DOMAIN owner'
              /\ owner'[<<arenas[i].data, j>>] = owner[<<arenas[i].data, j>>]
      BY <3>1
    <3>3. /\ arenas'[i].data = arenas[i].data
          /\ arenas'[i].gen \in Nat /\ arenas[i].gen <= arenas'[i].gen
          /\ arenas'[i].bump \in Nat /\ arenas[i].bump <= arenas'[i].bump
      BY <2>1, <3>1
    <3> QED
      BY <3>2, <3>3
  <2>3. CASE i = a
    <3>1. arenas'[i] = e /\ arenas[i].data = id /\ \A j \in Nat : <<id, j>>[2] = j
      BY <1>6, <2>3
    <3>2. arenas[i].gen <= e.gen /\ (e.gen = arenas[i].gen => arenas[i].bump <= e.bump)
      BY <1>4, <2>1, <2>3
    <3>3. e.gen = arenas[i].gen => \A j \in Nat : j < arenas[i].bump /\ <<id, j>> \in DOMAIN owner =>
              <<id, j>> \in DOMAIN owner' /\ owner'[<<id, j>>] = owner[<<id, j>>]
      BY <2>3, <3>1
    <3> QED
      BY <1>4, <3>1, <3>2, <3>3
  <2> QED
    BY <2>2, <2>3
<1>11. Serials' /\ RootsStay
  <2>1. nextSerial' = nextSerial /\ DOMAIN borrows \subseteq DOMAIN borrows'
    OBVIOUS
  <2> QED
    BY <1>1, <1>5, <2>1, ShapeKeeps
<1>12. CellsStay
  BY <1>1, UnchangedStays
<1>13. Good \subseteq Good'
  BY <1>1, <1>9, <1>10, <1>11, <1>12, GoodGrows DEF MemoryStays
<1>14. Stacks'
  BY <1>1, <1>5, StacksSame
<1>15. Owned' /\ Windows'
  BY <1>1, <1>7 DEF Owned, Windows
<1>16. Arenas'
  <2> SUFFICES ASSUME NEW i \in 1..Len(arenas)
               PROVE  /\ arenas'[i].data \in 1..Len(allocs') /\ allocs'[arenas'[i].data].owner[1] = "arena"
                      /\ \A b \in 1..Len(arenas) : i # b => arenas'[i].data # arenas'[b].data
    BY <1>6 DEF Arenas
  <2>1. \A b \in 1..Len(arenas) : arenas'[b].data = arenas[b].data
    BY <1>6
  <2>2. /\ arenas[i].data \in 1..Len(allocs) /\ allocs[arenas[i].data].owner[1] = "arena"
        /\ \A b \in 1..Len(arenas) : i # b => arenas[i].data # arenas[b].data
    BY <1>1 DEF Arenas
  <2> QED
    BY <1>7, <1>8, <2>1, <2>2
<1>17. ASSUME s \in Good' PROVE MemoryInv'
  <2>1. frames \in Seq(FrameOf(Good'))
    BY <1>1, <1>13, SetsGrow
  <2>2. frames' \in Seq(FrameOf(Good'))
    BY <1>1, <1>17, <2>1, Defines
  <2>3. Held(Good)'
    BY <1>1, <1>7, <1>13, <2>2, SetsGrow DEF Held
  <2>4. Counters'
    <3>1. nextTag' \in Nat /\ minted' \in Seq([object : Triples, unique : BOOLEAN]) /\ Len(minted') = nextTag'
             /\ clobbered' \subseteq 1..nextTag' /\ nextSerial' = nextSerial
      BY <1>1 DEF Counters
    <3>2. arenas' \in Seq([gen : Nat, bump : Nat, data : Nat, region : Regions])
      BY <1>6 DEF ArenaEntry
    <3> QED
      BY <1>5, <2>2, <3>1, <3>2, CountersStep
  <2> QED
    BY <1>11, <1>14, <1>15, <1>16, <2>3, <2>4 DEF MemoryInv
<1> QED
  BY <1>6, <1>17

\* Memory that grows keeps what was in it.
LEMMA GrownFacts ==
  ASSUME NEW x \in AllocOf(Good), NEW n \in Nat
  PROVE  GrownTo(x, n) \in AllocOf(Good) /\ GrownTo(x, n).owner = x.owner
<1>1. /\ x = [owner |-> x.owner, state |-> x.state, size |-> x.size, cells |-> x.cells]
      /\ x.owner \in Owners /\ x.state \in {"live", "freed", "reset"} /\ x.size \in Nat
      /\ x.cells \in [0..x.size - 1 -> Good]
  BY AllocFacts
<1>2. CASE n <= x.size
  BY <1>2 DEF GrownTo
<1>3. CASE ~(n <= x.size)
  <2> DEFINE z == [o \in 0..n - 1 |-> IF o < x.size THEN x.cells[o] ELSE Uninit]
  <2> DEFINE y == [owner |-> x.owner, state |-> x.state, size |-> n, cells |-> z]
  <2>1. z \in [0..n - 1 -> Good]
    <3>1. \A o \in 0..n - 1 : o < x.size => x.cells[o] \in Good
      BY <1>1
    <3> QED
      BY <3>1, PlainSlots
  <2>2. GrownTo(x, n) = y
    <3>1. GrownTo(x, n) = [x EXCEPT !.size = n, !.cells = z]
      BY <1>3 DEF GrownTo
    <3> DEFINE v == [x EXCEPT !.size = n]
    <3> DEFINE w == [x EXCEPT !.size = n, !.cells = z]
    <3> HIDE DEF z
    <3>2. v = [owner |-> x.owner, state |-> x.state, size |-> n, cells |-> x.cells]
      BY <1>1
    <3>3. w = [v EXCEPT !.cells = z]
      OBVIOUS
    <3> HIDE DEF v, w
    <3>4. w = y
      BY <3>2, <3>3
    <3> QED
      BY <3>1, <3>4 DEF w
  <2> HIDE DEF z
  <2>3. y.owner = x.owner /\ y.state = x.state /\ y.size = n /\ y.cells = z
    OBVIOUS
  <2>4. y = [owner |-> y.owner, state |-> y.state, size |-> y.size, cells |-> y.cells]
    OBVIOUS
  <2> HIDE DEF y
  <2>5. y \in AllocOf(Good)
    BY <1>1, <2>1, <2>3, <2>4, AllocFacts
  <2> QED
    BY <2>2, <2>3, <2>5
<1> QED
  BY <1>2, <1>3

\* An arena's memory that was reset is of no use to anyone.
LEMMA ForgetFacts ==
  ASSUME NEW x \in AllocOf(Good)
  PROVE  Forget(x) \in AllocOf(Good) /\ Forget(x).owner = x.owner
<1>1. /\ x = [owner |-> x.owner, state |-> x.state, size |-> x.size, cells |-> x.cells]
      /\ x.owner \in Owners /\ x.state \in {"live", "freed", "reset"} /\ x.size \in Nat
  BY AllocFacts
<1> DEFINE z == Blank(x.size)
<1> DEFINE y == [owner |-> x.owner, state |-> x.state, size |-> x.size, cells |-> z]
<1>2. z \in [0..x.size - 1 -> Good]
  BY PlainSlots DEF Blank
<1>3. Forget(x) = [x EXCEPT !.cells = z]
  BY DEF Forget
<1> HIDE DEF z
<1>4. [x EXCEPT !.cells = z] = y
  BY <1>1
<1>5. y.owner = x.owner /\ y.state = x.state /\ y.size = x.size /\ y.cells = z
  OBVIOUS
<1>6. y = [owner |-> y.owner, state |-> y.state, size |-> y.size, cells |-> y.cells]
  OBVIOUS
<1> HIDE DEF y
<1>7. y \in AllocOf(Good)
  BY <1>1, <1>2, <1>5, <1>6, AllocFacts
<1> QED
  BY <1>3, <1>4, <1>5, <1>7

\* arena_reset
LEMMA ArenaResetKeeps == MemoryInv /\ ArenaReset => MemoryInv'
<1> SUFFICES ASSUME MemoryInv, ArenaReset PROVE MemoryInv'
  OBVIOUS
<1> DEFINE a == Cur.val.v.target.arena
<1> DEFINE id == Cur.val.v.target.id
<1>1. fault = "none"
  BY DEF ArenaReset, Charge
<1>2. CASE ArenaOperandFault(Cur.val) # "ok"
  BY <1>2, FaultStep, FaultsNamed DEF ArenaReset
<1>3. CASE ArenaOperandFault(Cur.val) = "ok" /\ arenas[a].gen = MaxGen
  BY <1>3, FaultStep DEF ArenaReset
<1>4. CASE ArenaOperandFault(Cur.val) = "ok" /\ arenas[a].gen # MaxGen
  <2>1. /\ arenas' = [arenas EXCEPT ![a].gen = @ + 1, ![a].bump = 0]
        /\ allocs' = [allocs EXCEPT ![id] = Forget(@)]
        /\ Define(Val(Scalar(0)))
        /\ UNCHANGED <<nextSerial, nextTag, borrows, cells, hist>>
    BY <1>4 DEF ArenaReset
  <2>2. a \in 1..Len(arenas) /\ id = arenas[a].data /\ id \in 1..Len(allocs)
    BY <1>1, <1>4, OperandFacts
  <2> HIDE DEF a, id
  <2>3. /\ Owned /\ Counters /\ objects \in Nat /\ Len(allocs) \in Nat
        /\ arenas \in Seq(ArenaEntry) /\ arenas[a] \in ArenaEntry /\ allocs \in Seq(AllocOf(Good)) /\ allocs[id] \in AllocOf(Good)
    BY <2>2, Lengths DEF MemoryInv, Held, Counters, ArenaEntry
  <2> DEFINE e == [gen |-> arenas[a].gen + 1, bump |-> 0, data |-> id, region |-> arenas[a].region]
  <2> DEFINE x == Forget(allocs[id])
  <2>4. arenas[a].gen \in Nat /\ e \in ArenaEntry /\ e.data = id /\ e.gen = arenas[a].gen + 1
    <3>1. arenas[a].gen \in Nat /\ arenas[a].region \in Regions /\ id \in Nat
      BY <2>2, <2>3 DEF ArenaEntry
    <3>2. arenas[a].gen + 1 \in Nat
      BY <3>1
    <3> QED
      BY <3>1, <3>2 DEF ArenaEntry
  <2>5. arenas' = [arenas EXCEPT ![a] = e]
    <3>1. arenas' = [arenas EXCEPT ![a] = [arenas[a] EXCEPT !.gen = @ + 1, !.bump = 0]]
      BY <2>1, <2>2, <2>3
    <3> DEFINE z == arenas[a]
    <3> DEFINE v == [z EXCEPT !.gen = z.gen + 1]
    <3> DEFINE w == [z EXCEPT !.gen = @ + 1, !.bump = 0]
    <3>2. z = [gen |-> z.gen, bump |-> z.bump, data |-> id, region |-> z.region]
      BY <2>2, <2>3 DEF ArenaEntry
    <3>3. arenas' = [arenas EXCEPT ![a] = w]
      BY <3>1
    <3>4. e = [gen |-> z.gen + 1, bump |-> 0, data |-> id, region |-> z.region]
      OBVIOUS
    <3> HIDE DEF z, e
    <3>5. v = [gen |-> z.gen + 1, bump |-> z.bump, data |-> id, region |-> z.region]
      BY <3>2
    <3>6. w = [v EXCEPT !.bump = 0]
      OBVIOUS
    <3> HIDE DEF v, w
    <3>7. w = e
      BY <3>4, <3>5, <3>6
    <3> QED
      BY <3>3, <3>7
  <2>6. x \in AllocOf(Good) /\ x.owner = allocs[id].owner /\ allocs' = [allocs EXCEPT ![id] = x]
    BY <2>1, <2>3, ForgetFacts
  <2> HIDE DEF e, x
  <2>7. e.gen >= arenas[a].gen /\ e.gen # arenas[a].gen
    BY <2>4
  <2>8. /\ UNCHANGED <<nextSerial, nextTag, borrows, cells, minted, clobbered>> /\ Define(Val(Scalar(0)))
        /\ owner' = owner /\ objects' \in Nat
    BY <2>1, <2>3 DEF hist
  <2>9. DOMAIN owner' \subseteq (1..Len(allocs)) \X Nat
    BY <2>3, <2>8 DEF Owned
  <2> DEFINE s == Val(Scalar(0))
  <2>10. s \in Good'
    BY GoodNext
  <2>11. Define(s)
    BY <2>8
  <2>12. \A c \in DOMAIN owner : owner'[c] = owner[c]
    BY <2>8
  <2> HIDE DEF s
  <2>13. ArenaMoves(a, id, e, x)
    BY <2>2, <2>4, <2>5, <2>6, <2>7, <2>8, <2>9, <2>12 DEF ArenaMoves
  <2> QED
    BY <1>1, <2>2, <2>10, <2>11, <2>13, ArenaStep
<1> QED
  BY <1>2, <1>3, <1>4

\* arena_alloc: the new object lies at the bump, above all of its generation
LEMMA ArenaAllocKeeps == MemoryInv /\ ArenaAlloc => MemoryInv'
<1> SUFFICES ASSUME MemoryInv, ArenaAlloc PROVE MemoryInv'
  OBVIOUS
<1> DEFINE a == Cur.val.v.target.arena
<1> DEFINE id == Cur.val.v.target.id
<1> DEFINE tag == Cur.val.v.tag
<1> DEFINE off == arenas[a].bump
<1>1. fault = "none"
  BY DEF ArenaAlloc, Charge
<1>2. CASE ArenaOperandFault(Cur.val) # "ok"
  BY <1>2, FaultStep, FaultsNamed DEF ArenaAlloc
<1>3. ASSUME ArenaOperandFault(Cur.val) = "ok", NEW n \in Sizes \ {0}, off + n > MaxOff, Faults("error unrepresentable")
      PROVE  MemoryInv'
  BY <1>3, FaultStep
<1>4. ASSUME ArenaOperandFault(Cur.val) = "ok", NEW n \in Sizes \ {0},
             /\ arenas' = [arenas EXCEPT ![a].bump = off + n]
             /\ objects' = objects + 1
             /\ allocs' = [allocs EXCEPT ![id] = GrownTo(@, off + n)]
             /\ owner' = [c \in DOMAIN owner \cup ({id} \X (off..off + n - 1)) |->
                             IF c \in {id} \X (off..off + n - 1) THEN NewBorn ELSE owner[c]]
             /\ Define(Val(Ptr(ToArena(a, id), tag, arenas[a].gen, off, NewBorn)))
             /\ UNCHANGED <<nextSerial, nextTag, borrows, cells, minted, clobbered>>
      PROVE  MemoryInv'
  <2> DEFINE p == Ptr(ToArena(a, id), tag, arenas[a].gen, off, NewBorn)
  <2>1. /\ a \in 1..Len(arenas) /\ id = arenas[a].data /\ id \in 1..Len(allocs)
        /\ tag \in Nat /\ id \in Nat \ {0} /\ a \in Nat \ {0}
    <3>1. a \in 1..Len(arenas) /\ id = arenas[a].data /\ id \in 1..Len(allocs) /\ tag \in Nat /\ id \in Nat \ {0}
      BY <1>1, <1>4, OperandFacts
    <3>2. Len(arenas) \in Nat
      BY Lengths DEF MemoryInv
    <3> HIDE DEF a, id, tag
    <3>3. a \in Nat \ {0}
      BY <3>1, <3>2
    <3> QED
      BY <3>1, <3>3
  <2>2. n \in Nat \ {0}
    BY BoundsAssumption
  <2> HIDE DEF a, id, tag
  <2>3. /\ Owned /\ Counters /\ objects \in Nat /\ Len(allocs) \in Nat
        /\ arenas \in Seq(ArenaEntry) /\ arenas[a] \in ArenaEntry /\ allocs \in Seq(AllocOf(Good)) /\ allocs[id] \in AllocOf(Good)
    BY <2>1, Lengths DEF MemoryInv, Held, Counters, ArenaEntry
  <2>4. arenas[a].gen \in Nat /\ off \in Nat
    BY <2>3 DEF ArenaEntry
  <2> DEFINE e == [arenas[a] EXCEPT !.bump = off + n]
  <2> DEFINE x == GrownTo(allocs[id], off + n)
  <2>5. e \in ArenaEntry /\ e.data = id /\ e.gen = arenas[a].gen /\ e.bump = off + n
    <3> DEFINE z == arenas[a]
    <3>1. z = [gen |-> z.gen, bump |-> z.bump, data |-> id, region |-> z.region] /\ z.region \in Regions
      BY <2>1, <2>3 DEF ArenaEntry
    <3> HIDE DEF z
    <3>2. e = [gen |-> z.gen, bump |-> off + n, data |-> id, region |-> z.region]
      BY <3>1 DEF z
    <3>3. off + n \in Nat /\ z.gen \in Nat
      BY <2>2, <2>4 DEF z
    <3> HIDE DEF e
    <3>4. e \in ArenaEntry /\ e.data = id /\ e.gen = z.gen /\ e.bump = off + n
      BY <2>1, <3>1, <3>2, <3>3 DEF ArenaEntry
    <3> QED
      BY <3>4 DEF z
  <2>6. arenas' = [arenas EXCEPT ![a] = e]
    BY <1>4
  <2>7. x \in AllocOf(Good) /\ x.owner = allocs[id].owner /\ allocs' = [allocs EXCEPT ![id] = x]
    <3>1. off + n \in Nat
      BY <2>2, <2>4
    <3> QED
      BY <1>4, <2>3, <3>1, GrownFacts
  <2>8. e.gen >= arenas[a].gen /\ e.bump >= arenas[a].bump
    BY <2>2, <2>4, <2>5
  <2> HIDE DEF e, x, off
  <2> DEFINE New == {id} \X (off..off + n - 1)
  <2>9. /\ DOMAIN owner' = DOMAIN owner \cup New
        /\ \A c \in DOMAIN owner : c \notin New => owner'[c] = owner[c]
        /\ \A c \in New : owner'[c] = NewBorn
    BY <1>4
  <2>10. DOMAIN owner' \subseteq (1..Len(allocs)) \X Nat
    <3>1. \A i \in off..off + n - 1 : i \in Nat
      BY <2>2, <2>4
    <3>2. New \subseteq (1..Len(allocs)) \X Nat
      BY <2>1, <3>1
    <3> QED
      BY <2>3, <2>9, <3>2 DEF Owned
  <2>11. \A c \in DOMAIN owner : c[1] # id \/ c[2] < arenas[a].bump => owner'[c] = owner[c]
    <3> SUFFICES ASSUME NEW c \in DOMAIN owner, c[1] # id \/ c[2] < arenas[a].bump PROVE c \notin New
      BY <2>9
    <3>1. off = arenas[a].bump
      BY DEF off
    <3>2. c \in New => c[1] = id /\ c[2] \in off..off + n - 1
      OBVIOUS
    <3> HIDE DEF New
    <3>3. c \in New => c[1] = id /\ ~(c[2] < off)
      BY <2>2, <2>4, <3>2
    <3> QED
      BY <3>1, <3>3
  <2>12. <<id, off>> \in New
    BY <2>2, <2>4
  <2>13. <<id, off>> \in DOMAIN owner' /\ owner'[<<id, off>>] = NewBorn
    BY <2>9, <2>12
  <2>14. /\ UNCHANGED <<nextSerial, nextTag, borrows, cells, minted, clobbered>> /\ Define(Val(p))
         /\ DOMAIN owner \subseteq DOMAIN owner' /\ objects' \in Nat
    BY <1>4, <2>3, <2>9 DEF p, off
  <2>15. /\ p \in Ptrs /\ p.target.k = "arena" /\ p.target.arena = a /\ p.target.id = id
         /\ p.gen = arenas[a].gen /\ p.off = off /\ p.born = NewBorn
    <3>1. ToArena(a, id) \in Targets /\ ToArena(a, id).k = "arena" /\ ToArena(a, id).id = id /\ ToArena(a, id).arena = a
      BY <2>1 DEF ToArena, Targets
    <3>2. NewBorn \in Triples
      BY <2>3 DEF NewBorn, Triples
    <3> QED
      BY <2>1, <2>4, <3>1, <3>2 DEF Ptr, Ptrs, off
  <2> HIDE DEF p, New
  <2> DEFINE s == Val(p)
  <2>16. Define(s)
    BY <2>14
  <2> HIDE DEF s
  <2>17. arenas'[a] = e /\ Len(arenas') = Len(arenas) /\ (s \in Good' => MemoryInv')
    <3>1. \A c \in DOMAIN owner :
              c[1] # id \/ (e.gen = arenas[a].gen /\ c[2] < arenas[a].bump) => owner'[c] = owner[c]
      BY <2>11
    <3>2. e \in ArenaEntry /\ e.data = id /\ e.gen >= arenas[a].gen /\ (e.gen = arenas[a].gen => e.bump >= arenas[a].bump)
      BY <2>5, <2>8
    <3>3. a \in 1..Len(arenas) /\ id = arenas[a].data
      BY <2>1
    <3>4. /\ UNCHANGED <<nextSerial, nextTag, borrows, cells, minted, clobbered>>
          /\ DOMAIN owner \subseteq DOMAIN owner' /\ objects' \in Nat
      BY <2>14
    <3>5. ArenaMoves(a, id, e, x)
      BY <2>6, <2>7, <2>10, <3>1, <3>2, <3>3, <3>4 DEF ArenaMoves
    <3> QED
      BY <1>1, <2>16, <3>3, <3>5, ArenaStep
  <2>18. s \in Good'
    <3> SUFFICES ASSUME NEW q \in Ptrs, q = p PROVE Val(q) \in Good'
      BY <2>15 DEF s
    <3>1. /\ q.target.k = "arena" /\ q.target.arena = a /\ q.target.id = id
          /\ q.gen = arenas[a].gen /\ q.off = off /\ q.born = NewBorn
      BY <2>15
    <3>2. a \in 1..Len(arenas') /\ arenas'[a].data = id /\ arenas'[a].gen = arenas[a].gen /\ off < arenas'[a].bump
      <4>1. off < off + n
        BY <2>2, <2>4
      <4> QED
        BY <2>1, <2>5, <2>17, <4>1
    <3>3. arenas[a].gen <= arenas[a].gen
      BY <2>4
    <3>4. ArenaOK(q)'
      BY <2>13, <3>1, <3>2, <3>3 DEF ArenaOK
    <3> QED
      BY <3>1, <3>4, GoodNext DEF PtrOK
  <2> QED
    BY <2>17, <2>18
<1>5. PICK n \in Sizes \ {0} :
         IF ArenaOperandFault(Cur.val) # "ok" THEN Faults(ArenaOperandFault(Cur.val))
         ELSE IF off + n > MaxOff THEN Faults("error unrepresentable")
         ELSE /\ arenas' = [arenas EXCEPT ![a].bump = off + n]
              /\ objects' = objects + 1
              /\ allocs' = [allocs EXCEPT ![id] = GrownTo(@, off + n)]
              /\ owner' = [c \in DOMAIN owner \cup ({id} \X (off..off + n - 1)) |->
                              IF c \in {id} \X (off..off + n - 1) THEN NewBorn ELSE owner[c]]
              /\ Define(Val(Ptr(ToArena(a, id), tag, arenas[a].gen, off, NewBorn)))
              /\ UNCHANGED <<nextSerial, nextTag, borrows, cells, minted, clobbered>>
  BY DEF ArenaAlloc
<1> HIDE DEF a, id, tag, off
<1>6. CASE ArenaOperandFault(Cur.val) = "ok" /\ off + n > MaxOff
  BY <1>3, <1>5, <1>6
<1>7. CASE ArenaOperandFault(Cur.val) = "ok" /\ ~(off + n > MaxOff)
  BY <1>4, <1>5, <1>7
<1> QED
  BY <1>2, <1>6, <1>7

\* A run over its budget.
LEMMA StepBudgetKeeps == MemoryInv /\ StepBudget => MemoryInv'
BY FaultStep DEF StepBudget

\* A step that changes nothing.
LEMMA StutterKeeps == MemoryInv /\ UNCHANGED vars => MemoryInv'
<1> SUFFICES ASSUME MemoryInv, UNCHANGED vars PROVE MemoryInv'
  OBVIOUS
<1>1. /\ frames' = frames /\ nextSerial' = nextSerial /\ nextTag' = nextTag /\ fault' = fault
      /\ allocs' = allocs /\ arenas' = arenas /\ borrows' = borrows /\ cells' = cells
      /\ objects' = objects /\ owner' = owner /\ minted' = minted /\ clobbered' = clobbered
  BY DEF vars, mem, hist
<1>2. Good' = Good
  BY <1>1 DEF Good, SlotOK, RootOK, AllocOK, ArenaOK, Alive
<1>3. Held(Good)' /\ Counters' /\ Serials' /\ Arenas' /\ Owned' /\ Windows'
  BY <1>1, <1>2 DEF MemoryInv, Held, Counters, Serials, Arenas, Owned, Windows
<1>4. Stacks'
  BY <1>1 DEF MemoryInv, Stacks, RootKeys, ObjectOf
<1> QED
  BY <1>3, <1>4 DEF MemoryInv

-----------------------------------------------------------------------------
(* The theorems.                                                           *)

\* The interpreter starts with one activation, and no memory.
LEMMA InitMemory == Init => MemoryInv
<1> SUFFICES ASSUME Init PROVE MemoryInv
  OBVIOUS
<1> DEFINE f == [serial |-> 0, roots |-> [r \in Roots |-> Uninit], val |-> Val(Scalar(0))]
<1>1. /\ frames = <<f>> /\ nextSerial = 1 /\ nextTag = 0
      /\ allocs = <<>> /\ arenas = <<>> /\ borrows = << >> /\ cells = <<>>
      /\ objects = 0 /\ owner = << >> /\ minted = <<>> /\ clobbered = {}
  BY DEF Init
<1>2. f \in FrameOf(Good) /\ f.serial = 0
  BY PlainSlots DEF FrameOf
<1> HIDE DEF f
<1>3. frames \in Seq(FrameOf(Good)) /\ Len(frames) = 1 /\ frames[1] = f /\ frames # <<>>
  BY <1>1, <1>2
<1>4. Held(Good)
  BY <1>1, <1>3 DEF Held
<1>5. Counters
  BY <1>1, <1>3 DEF Counters
<1>6. Serials
  <2>1. \A i \in 1..Len(frames) : i = 1
    BY <1>3
  <2> QED
    BY <1>1, <1>2, <1>3, <2>1 DEF Serials
<1>7. Len(arenas) = 0 /\ Len(cells) = 0 /\ DOMAIN borrows = {} /\ DOMAIN owner = {}
  BY <1>1
<1>8. Arenas /\ Windows
  BY <1>7 DEF Arenas, Windows
<1>9. Owned /\ Stacks
  BY <1>7 DEF Owned, Stacks
<1> QED
  BY <1>4, <1>5, <1>6, <1>8, <1>9 DEF MemoryInv

\* Every instruction keeps the invariant.
LEMMA StepMemory == MemoryInv /\ [Next]_vars => MemoryInv'
<1> SUFFICES ASSUME MemoryInv, [Next]_vars PROVE MemoryInv'
  OBVIOUS
<1>1. CASE UNCHANGED vars
  BY <1>1, StutterKeeps
<1>2. CASE Next
  BY <1>2, StepBudgetKeeps, CallKeeps, ReturnKeeps, ConstKeeps, CopyFromKeeps, MoveFromKeeps, InitRootKeeps,
     ReadThroughKeeps, WriteThroughKeeps, BorrowKeeps, AllocKeeps, FreeKeeps, RegionEnterKeeps, RegionExitKeeps,
     ArenaAllocKeeps, ArenaDerefKeeps, ArenaResetKeeps, AggNewKeeps, SliceRangeKeeps, ReadElementKeeps, WriteElementKeeps
     DEF Next
<1> QED
  BY <1>1, <1>2

\* In every reachable state every slot the interpreter holds is good: a pointer
\* means the activation, allocation or generation it was made for.
THEOREM MemoryInvariant == Spec => []MemoryInv
<1>1. MemoryInv /\ [Next]_vars => MemoryInv'
  BY StepMemory
<1> QED
  BY InitMemory, <1>1, PTL DEF Spec

\* Every slot held is a good one, so every pointer held is.
LEMMA HeldAreGood ==
  ASSUME MemoryInv
  PROVE  \A p \in PointersHeld : p \in Ptrs /\ PtrOK(p)
<1>1. /\ Len(frames) \in Nat /\ Len(allocs) \in Nat /\ Len(cells) \in Nat
      /\ \A i \in 1..Len(frames) : frames[i] \in FrameOf(Good)
      /\ \A i \in 1..Len(allocs) : allocs[i] \in AllocOf(Good)
      /\ \A i \in 1..Len(cells) : cells[i] \in CellOf(Good)
  BY Lengths DEF MemoryInv
<1>2. frames \in Seq(FrameOf(Good)) /\ allocs \in Seq(AllocOf(Good)) /\ cells \in Seq(CellOf(Good))
  BY DEF MemoryInv, Held
<1>3. DOMAIN frames = 1..Len(frames) /\ DOMAIN allocs = 1..Len(allocs) /\ DOMAIN cells = 1..Len(cells)
  BY <1>2, LenProperties
<1>4. \A f \in Range(frames) : Range(f.roots) \subseteq Good /\ f.val \in Good
  BY <1>1, <1>3 DEF Range, FrameOf
<1>5. \A a \in Range(allocs) : Range(a.cells) \subseteq Good
  <2> SUFFICES ASSUME NEW i \in 1..Len(allocs) PROVE Range(allocs[i].cells) \subseteq Good
    BY <1>3 DEF Range
  <2>1. allocs[i].cells \in [0..allocs[i].size - 1 -> Good]
    BY <1>1, AllocFacts
  <2> QED
    BY <2>1 DEF Range
<1>6. \A c \in Range(cells) : Range(c.slots) \subseteq Good
  <2> SUFFICES ASSUME NEW i \in 1..Len(cells) PROVE Range(cells[i].slots) \subseteq Good
    BY <1>3 DEF Range
  <2>1. cells[i].slots \in Seq(Good)
    BY <1>1 DEF CellOf
  <2>2. DOMAIN cells[i].slots = 1..Len(cells[i].slots) /\ \A j \in 1..Len(cells[i].slots) : cells[i].slots[j] \in Good
    BY <2>1, LenProperties, ElementOfSeq
  <2> QED
    BY <2>2 DEF Range
<1>7. ASSUME NEW s \in SlotsHeld PROVE s \in Good
  <2>1. \/ \E f \in Range(frames) : s \in Range(f.roots) \/ s = f.val
        \/ \E a \in Range(allocs) : s \in Range(a.cells)
        \/ \E c \in Range(cells) : s \in Range(c.slots)
    BY DEF SlotsHeld
  <2> QED
    BY <1>4, <1>5, <1>6, <2>1
<1> QED
  BY <1>7, GoodPointers DEF PointersHeld

\* A pointer the interpreter lets through reaches the object it was made for.
LEMMA ReachedIsMeant ==
  ASSUME MemoryInv, NEW p \in PointersHeld, Reachable(p), p.born # Handle, ~Plain(p)
  PROVE  ReachesItsObject(p)
<1>1. p \in Ptrs /\ PtrOK(p) /\ ResolveDeref(p) = "ok"
  BY HeldAreGood DEF Reachable
<1>2. /\ p.target.k = "root" => frames[p.target.frame].serial = p.target.serial
      /\ p.target.k # "root" => p.target.id \in 1..Len(allocs) /\ allocs[p.target.id] \in AllocOf(Good)
      /\ p.target.k = "arena" => p.gen = arenas[p.target.arena].gen
  BY <1>1, ResolvedFacts
<1>3. CASE p.target.k = "root"
  <2>1. p.born = <<"root", p.target.serial, p.target.root>>
    BY <1>1, <1>3 DEF PtrOK, RootOK
  <2> QED
    BY <1>2, <1>3, <2>1 DEF ReachesItsObject, ObjectOf
<1>4. CASE p.target.k = "alloc"
  <2>1. allocs[p.target.id].owner \in Owners /\ allocs[p.target.id].owner[1] # "arena"
    BY <1>2, <1>4, AllocFacts DEF Plain
  <2>2. allocs[p.target.id].owner[1] = "heap"
    BY <2>1 DEF Owners
  <2>3. p.off < allocs[p.target.id].size
    BY <1>4 DEF Reachable, InBounds
  <2> QED
    BY <1>1, <1>4, <2>2, <2>3 DEF PtrOK, AllocOK, ReachesItsObject
<1>5. CASE p.target.k = "arena"
  BY <1>1, <1>2, <1>5 DEF PtrOK, ArenaOK, ReachesItsObject
<1> QED
  BY <1>1, <1>3, <1>4, <1>5, TargetKinds

\* No window of a slice leaves its sequence.
LEMMA WindowsInside == MemoryInv => SlicesStayInside
<1> SUFFICES ASSUME MemoryInv, NEW c \in DOMAIN cells PROVE WindowFault(c) = "ok"
  BY DEF SlicesStayInside
<1>1. c \in 1..Len(cells)
  BY LenProperties DEF MemoryInv, Held
<1> DEFINE w == SeqWindow(c)
<1>2. w.start \in Nat /\ w.len \in Nat /\ Len(cells[w.cell].slots) \in Nat /\ w.start + w.len <= Len(cells[w.cell].slots)
  BY <1>1, WindowFacts
<1>3. WindowFault(c) = IF w.start + w.len > Len(cells[w.cell].slots) THEN "error type-mismatch" ELSE "ok"
  BY DEF WindowFault
<1>4. ASSUME NEW i \in Nat, NEW n \in Nat, NEW k \in Nat, i + n <= k PROVE ~(i + n > k)
  BY <1>4
<1> HIDE DEF w
<1>5. ~(w.start + w.len > Len(cells[w.cell].slots))
  BY <1>2, <1>4
<1> QED
  BY <1>3, <1>5

\* mem.rs: a pointer that resolve_deref lets through reaches the very activation
\* or allocation it was made for, however often frames and arenas were reused;
\* and seq_window's own check never fires.
THEOREM PointersReachWhatTheyWereMadeFor == Spec => []PointersReachTheirObject
<1>1. MemoryInv => PointersReachTheirObject
  BY ReachedIsMeant, WindowsInside DEF PointersReachTheirObject
<1> QED
  BY MemoryInvariant, <1>1, PTL

\* ub.rs: a borrow through which an access is still accepted has had nothing
\* written past it.
THEOREM AcceptedBorrowsAreExclusive == Spec => []BorrowsAreExclusive
<1>1. ASSUME MemoryInv PROVE BorrowsAreExclusive
  <2> SUFFICES ASSUME NEW p \in PointersHeld, p.target.k = "root", ResolveDeref(p) = "ok",
                      BorrowAllows(KeyOf(p), p.tag, "read")
               PROVE  p.tag \notin clobbered
    BY DEF BorrowsAreExclusive
  <2>1. p \in Ptrs /\ PtrOK(p)
    BY <1>1, HeldAreGood
  <2> DEFINE f == p.target.frame
  <2> DEFINE r == p.target.root
  <2>2. f \in 1..Len(frames) /\ r \in Roots /\ RootKey(f, r) \in DOMAIN borrows
    BY <1>1, <2>1, ResolvedFacts
  <2>3. KeyOf(p) = RootKey(f, r)
    BY DEF KeyOf
  <2> HIDE DEF f, r
  <2> DEFINE s == borrows[RootKey(f, r)]
  <2>4. StackOK(s, ObjectOf(f, r), nextTag, minted, clobbered)
    BY <1>1, <2>2 DEF MemoryInv, Stacks
  <2>5. nextTag \in Nat /\ clobbered \in SUBSET (1..nextTag)
    BY <1>1 DEF MemoryInv, Counters
  <2>6. Position(s, p.tag) # 0
    BY <2>2, <2>3 DEF BorrowAllows, Allows
  <2> HIDE DEF s
  <2> QED
    BY <2>4, <2>5, <2>6, InStackNotGone
<1>2. MemoryInv => BorrowsAreExclusive
  BY <1>1
<1> QED
  BY MemoryInvariant, <1>2, PTL

(***************************************************************************)
(* Arithmetic (Arithmetic.tla), for every width and every pair of bit      *)
(* patterns.  A pattern and its value differ by a multiple of 2^w, sums,   *)
(* differences and products respect that, and a quotient leaves the type   *)
(* in one case only.                                                       *)
(***************************************************************************)

\* The remainder by a positive modulus, and the quotient that goes with it: what
\* the masks of narrow and as_unsigned compute.
LEMMA DivMod ==
  ASSUME NEW c \in Int, NEW m \in Nat, m > 0
  PROVE  c % m \in 0..(m - 1) /\ c \div m \in Int /\ c = m * (c \div m) + (c % m)
OBVIOUS

\* A multiple of m that is a difference of two remainders is zero.
LEMMA MulBelow ==
  ASSUME NEW m \in Nat, NEW q \in Int, NEW r \in 0..(m - 1), NEW s \in 0..(m - 1), m > 0, m * q = r - s
  PROVE  q = 0
<1>1. CASE q >= 1
  <2>1. m * q >= m
    BY <1>1
  <2> QED BY <2>1
<1>2. CASE q <= -1
  <2>1. m * q <= -m
    BY <1>2
  <2> QED BY <2>1
<1> QED BY <1>1, <1>2

\* A remainder is known by its range: the pattern of a number is the only one
\* that differs from it by a multiple of 2^w.
LEMMA ModIs ==
  ASSUME NEW m \in Nat, m > 0, NEW c \in Int, NEW q \in Int, NEW r \in 0..(m - 1), c = m * q + r
  PROVE  c % m = r
<1> DEFINE p == c \div m
           s == c % m
<1>1. s \in 0..(m - 1) /\ p \in Int /\ c = m * p + s
  BY DivMod
<1> HIDE DEF p, s
<1>2. m * (q - p) = s - r
  <2>1. m * q + r = m * p + s
    BY <1>1
  <2>2. m * (q - p) = m * q - m * p
    BY <1>1
  <2>3. m * q \in Int /\ m * p \in Int
    BY <1>1
  <2> QED BY <1>1, <2>1, <2>2, <2>3
<1>3. q - p = 0
  BY <1>1, <1>2, MulBelow
<1>4. q = p
  BY <1>1, <1>3
<1>5. s = r
  <2>1. m * p \in Int
    BY <1>1
  <2> QED BY <1>1, <1>4, <2>1
<1> QED BY <1>5 DEF s

\* Adding multiples of the modulus changes no pattern.
LEMMA ModShift ==
  ASSUME NEW m \in Nat, m > 0, NEW c \in Int, NEW q \in Int
  PROVE  (c + m * q) % m = c % m
<1> DEFINE p == c \div m
           s == c % m
<1>1. s \in 0..(m - 1) /\ p \in Int /\ c = m * p + s
  BY DivMod
<1> HIDE DEF p, s
<1>2. c + m * q = m * (p + q) + s
  <2>1. m * (p + q) = m * p + m * q /\ m * p \in Int /\ m * q \in Int
    BY <1>1
  <2> QED BY <1>1, <2>1
<1>3. c + m * q \in Int /\ p + q \in Int
  BY <1>1
<1> QED BY <1>1, <1>2, <1>3, ModIs DEF s

\* Division of naturals: the quotient of magnitudes that trap_div takes is no
\* larger than the dividend, at most half of it when the divisor is not one, and
\* what is left is less than the divisor.
LEMMA NatDivision ==
  ASSUME NEW n \in Nat, NEW m \in Nat, m > 0
  PROVE  /\ n \div m \in Nat /\ n \div m <= n
         /\ m * (n \div m) <= n /\ n - m * (n \div m) < m
         /\ m = 1 => n \div m = n
         /\ m >= 2 => 2 * (n \div m) <= n
<1> DEFINE d == n \div m
           r == n % m
<1>1. r \in 0..(m - 1) /\ d \in Int /\ n = m * d + r
  BY DivMod
<1> HIDE DEF d, r
<1>2. d >= 0
  <2> SUFFICES ASSUME d <= -1 PROVE FALSE
    BY <1>1
  <2>1. m * d <= -m
    BY <1>1
  <2> QED BY <1>1, <2>1
<1>3. m * d >= d
  BY <1>1, <1>2
<1>4. m >= 2 => m * d >= 2 * d
  BY <1>1, <1>2
<1>5. m * d \in Int
  BY <1>1
<1>6. m = 1 => m * d = d /\ r = 0
  BY <1>1
<1> QED BY <1>1, <1>2, <1>3, <1>4, <1>5, <1>6 DEF d

\* The quotient towards zero of two numbers of a signed type is of the type,
\* except MIN / -1, which is one more than the largest: the only case trap_div,
\* wrap_div and sat_div single out.
LEMMA QuotientFits ==
  ASSUME NEW h \in Nat, h > 0, NEW x \in Int, NEW y \in Int, y # 0
  PROVE  /\ Quotient(x, y) \in Int
         /\ x >= 0 /\ y > 0 => Quotient(x, y) \in 0..x
         /\ x \in (-h)..(h - 1) /\ ~(x = -h /\ y = -1) => Quotient(x, y) \in (-h)..(h - 1)
         /\ x = -h /\ y = -1 => Quotient(x, y) = h
<1> DEFINE n == Abs(x)
           m == Abs(y)
           d == n \div m
<1>1. n \in Nat /\ m \in Nat /\ m > 0 /\ (x >= 0 => n = x) /\ (x < 0 => n = -x) /\ (y > 0 => m = y) /\ (y < 0 => m = -y)
  BY DEF Abs
<1> HIDE DEF n, m
<1>2. d \in Nat /\ d <= n /\ (m = 1 => d = n) /\ (m >= 2 => 2 * d <= n)
  BY <1>1, NatDivision
<1>3. Quotient(x, y) = IF (x < 0) = (y < 0) THEN d ELSE -d
  BY DEF Quotient, n, m
<1> HIDE DEF d
<1>4. CASE x >= 0 /\ y > 0
  <2>1. Quotient(x, y) = d
    BY <1>3, <1>4
  <2> QED BY <1>1, <1>2, <1>4, <2>1
<1>5. CASE x >= 0 /\ y < 0
  <2>1. Quotient(x, y) = -d
    BY <1>3, <1>5
  <2> QED BY <1>1, <1>2, <1>5, <2>1
<1>6. CASE x < 0 /\ y > 0
  <2>1. Quotient(x, y) = -d
    BY <1>3, <1>6
  <2> QED BY <1>1, <1>2, <1>6, <2>1
<1>7. CASE x < 0 /\ y < 0
  <2>1. Quotient(x, y) = d
    BY <1>3, <1>7
  <2> QED BY <1>1, <1>2, <1>7, <2>1
<1> QED BY <1>4, <1>5, <1>6, <1>7

\* The remainder has the sign of the dividend and is no larger in magnitude, so
\* it is always of the type; by -1 it is zero (trap_rem, wrap_rem, sat_rem).
LEMMA RemainderFits ==
  ASSUME NEW x \in Int, NEW y \in Int, y # 0
  PROVE  /\ Remainder(x, y) \in Int
         /\ x >= 0 => Remainder(x, y) \in 0..x
         /\ x < 0 => Remainder(x, y) \in x..0
         /\ y = -1 => Remainder(x, y) = 0
<1> DEFINE n == Abs(x)
           m == Abs(y)
           d == n \div m
<1>1. n \in Nat /\ m \in Nat /\ m > 0 /\ (x >= 0 => n = x) /\ (x < 0 => n = -x) /\ (y > 0 => m = y) /\ (y < 0 => m = -y) /\ (y = -1 => m = 1)
  BY DEF Abs
<1> HIDE DEF n, m
<1>2. d \in Nat /\ m * d <= n /\ (m = 1 => d = n) /\ m * d \in Nat
  BY <1>1, NatDivision
<1>3. Remainder(x, y) = x - y * (IF (x < 0) = (y < 0) THEN d ELSE -d)
  BY DEF Remainder, Quotient, n, m
<1> HIDE DEF d
<1>4. CASE x >= 0
  <2>1. Remainder(x, y) = x - m * d
    <3>1. CASE y > 0
      <4>1. Remainder(x, y) = x - y * d
        BY <1>3, <1>4, <3>1
      <4> QED BY <1>1, <3>1, <4>1
    <3>2. CASE y < 0
      <4>1. Remainder(x, y) = x - y * (-d)
        BY <1>3, <1>4, <3>2
      <4>2. y * (-d) = (-y) * d
        BY <1>2
      <4> QED BY <1>1, <3>2, <4>1, <4>2
    <3> QED BY <3>1, <3>2
  <2>2. y = -1 => m * d = d /\ d = n
    <3>1. \A e \in Nat : 1 * e = e
      OBVIOUS
    <3> QED BY <1>1, <1>2, <3>1
  <2> QED BY <1>1, <1>2, <1>4, <2>1, <2>2
<1>5. CASE x < 0
  <2>1. Remainder(x, y) = x + m * d
    <3>1. CASE y > 0
      <4>1. Remainder(x, y) = x - y * (-d)
        BY <1>3, <1>5, <3>1
      <4>2. x - y * (-d) = x + y * d
        BY <1>2
      <4> QED BY <1>1, <3>1, <4>1, <4>2
    <3>2. CASE y < 0
      <4>1. Remainder(x, y) = x - y * d
        BY <1>3, <1>5, <3>2
      <4>2. x - y * d = x + (-y) * d
        BY <1>2
      <4> QED BY <1>1, <3>2, <4>1, <4>2
    <3> QED BY <3>1, <3>2
  <2>2. y = -1 => m * d = d /\ d = n
    <3>1. \A e \in Nat : 1 * e = e
      OBVIOUS
    <3> QED BY <1>1, <1>2, <3>1
  <2> QED BY <1>1, <1>2, <1>5, <2>1, <2>2
<1> QED BY <1>4, <1>5

\* The range of a kind of integer, by half its modulus (int_range).
LEMMA Ranges ==
  ASSUME WidthsAreBits, NEW k \in IntKinds
  PROVE  \E h \in Nat : /\ h > 0 /\ 2^Width(k) = 2 * h /\ 2^(Width(k) - 1) = h
                        /\ Signed(k) => Lo(k) = -h /\ Hi(k) = h - 1
                        /\ ~Signed(k) => Lo(k) = 0 /\ Hi(k) = 2 * h - 1
<1> DEFINE h == 2^(Width(k) - 1)
<1>1. h \in Nat /\ h > 0 /\ 2^Width(k) = 2 * h
  BY DEF WidthsAreBits
<1>2. Signed(k) => Lo(k) = -h /\ Hi(k) = h - 1
  BY DEF Lo, Hi
<1>3. ~Signed(k) => Lo(k) = 0 /\ Hi(k) = 2 * h - 1
  BY <1>1 DEF Lo, Hi
<1> HIDE DEF h
<1>4. h \in Nat /\ h = 2^(Width(k) - 1)
  BY <1>1 DEF h
<1> QED BY <1>1, <1>2, <1>3, <1>4

\* The value of a pattern is in the range of its kind, and the pattern is the
\* value or one modulus more (as_signed, as_unsigned).
LEMMA Values ==
  ASSUME WidthsAreBits, NEW k \in IntKinds, NEW b \in Int
  PROVE  /\ 2^Width(k) \in Nat /\ 2^Width(k) > 0
         /\ Lo(k) \in Int /\ Hi(k) \in Int /\ Lo(k) <= 0 /\ Hi(k) >= 0
         /\ Value(b, k) \in Lo(k)..Hi(k) /\ Value(b, k) \in Int
         /\ AsUnsigned(b, k) \in Int
         /\ \E q \in {0, 1} : AsUnsigned(b, k) = Value(b, k) + 2^Width(k) * q
<1> DEFINE m == 2^Width(k)
           u == AsUnsigned(b, k)
<1>1. PICK h \in Nat : /\ h > 0 /\ m = 2 * h
                       /\ Signed(k) => Lo(k) = -h /\ Hi(k) = h - 1
                       /\ ~Signed(k) => Lo(k) = 0 /\ Hi(k) = 2 * h - 1
  BY Ranges
<1> HIDE DEF m
<1>2. m \in Nat /\ m > 0
  BY <1>1
<1>3. u \in 0..(m - 1)
  BY <1>2, DivMod DEF AsUnsigned, m
<1>4. Value(b, k) = IF Signed(k) /\ u > Hi(k) THEN u - m ELSE u
  BY DEF Value, AsSigned, m
<1> HIDE DEF u
<1>5. Lo(k) \in Int /\ Hi(k) \in Int /\ Lo(k) <= 0 /\ Hi(k) >= 0
  <2>1. CASE Signed(k)
    BY <1>1, <2>1
  <2>2. CASE ~Signed(k)
    BY <1>1, <2>2
  <2> QED BY <2>1, <2>2
<1>6. CASE Signed(k) /\ u > Hi(k)
  <2>1. Value(b, k) = u - m /\ Lo(k) = -h /\ Hi(k) = h - 1
    BY <1>1, <1>4, <1>6
  <2>2. u - m \in (-h)..(h - 1) /\ u = (u - m) + m * 1
    BY <1>1, <1>2, <1>3, <1>6, <2>1
  <2>3. \E q \in {0, 1} : u = Value(b, k) + m * q
    BY <2>1, <2>2
  <2> QED BY <1>2, <1>3, <1>5, <2>1, <2>2, <2>3 DEF m, u
<1>7. CASE ~(Signed(k) /\ u > Hi(k))
  <2>1. Value(b, k) = u
    BY <1>4, <1>7
  <2>2. u \in Lo(k)..Hi(k)
    <3>1. CASE Signed(k)
      BY <1>1, <1>3, <1>7, <3>1
    <3>2. CASE ~Signed(k)
      BY <1>1, <1>3, <3>2
    <3> QED BY <3>1, <3>2
  <2>3. u = u + m * 0
    BY <1>2, <1>3
  <2>4. \E q \in {0, 1} : u = Value(b, k) + m * q
    BY <2>1, <2>3
  <2> QED BY <1>2, <1>3, <1>5, <2>1, <2>2, <2>4 DEF m, u
<1> QED BY <1>6, <1>7

\* The same modulo m.
Congruent(c, d, m) == \E q \in Int : c = d + m * q

\* Numbers that are the same modulo m have the same pattern.
LEMMA CongruentMod ==
  ASSUME NEW m \in Nat, m > 0, NEW c \in Int, NEW d \in Int, Congruent(c, d, m)
  PROVE  c % m = d % m
<1>1. PICK q \in Int : c = d + m * q
  BY DEF Congruent
<1> QED BY <1>1, ModShift

\* Sums, differences and products respect it: why wrap_add, wrap_sub and
\* wrap_mul may work on patterns without looking at the sign.
LEMMA CongruentSums ==
  ASSUME NEW m \in Nat, m > 0, NEW x \in Int, NEW y \in Int, NEW u \in Int, NEW v \in Int,
         Congruent(u, x, m), Congruent(v, y, m)
  PROVE  /\ Congruent(u + v, x + y, m) /\ Congruent(u - v, x - y, m) /\ Congruent(u * v, x * y, m)
<1>1. PICK p \in Int : u = x + m * p
  BY DEF Congruent
<1>2. PICK q \in Int : v = y + m * q
  BY DEF Congruent
<1> DEFINE z == p * y + q * x + m * (p * q)
<1>3. z \in Int /\ p + q \in Int /\ p - q \in Int
  OBVIOUS
<1>4. u * v = x * y + m * z
  BY <1>1, <1>2
<1>5. u + v = (x + y) + m * (p + q) /\ u - v = (x - y) + m * (p - q)
  <2>1. m * p \in Int /\ m * q \in Int /\ m * (p + q) = m * p + m * q /\ m * (p - q) = m * p - m * q
    OBVIOUS
  <2> QED BY <1>1, <1>2, <2>1
<1> HIDE DEF z
<1>6. Congruent(u * v, x * y, m)
  BY <1>3, <1>4 DEF Congruent
<1>7. Congruent(u + v, x + y, m)
  BY <1>3, <1>5 DEF Congruent
<1>8. Congruent(u - v, x - y, m)
  BY <1>3, <1>5 DEF Congruent
<1> QED BY <1>6, <1>7, <1>8

\* A pattern and its value are the same modulo 2^w.
LEMMA ValueCongruent ==
  ASSUME WidthsAreBits, NEW k \in IntKinds, NEW b \in Int
  PROVE  AsUnsigned(b, k) \in Int /\ Congruent(AsUnsigned(b, k), Value(b, k), 2^Width(k))
<1> DEFINE m == 2^Width(k)
           u == AsUnsigned(b, k)
           x == Value(b, k)
<1>1. PICK q \in {0, 1} : u = x + m * q
  BY Values
<1>2. u \in Int
  BY Values
<1> HIDE DEF m, u, x
<1>3. q \in Int
  OBVIOUS
<1>4. Congruent(u, x, m)
  BY <1>1, <1>3 DEF Congruent
<1> QED BY <1>2, <1>4 DEF m, u, x

\* The pattern of a value of the type means that value again (narrow, then
\* as_signed or as_unsigned).
LEMMA ValueOfBits ==
  ASSUME WidthsAreBits, NEW k \in IntKinds, NEW v \in Lo(k)..Hi(k)
  PROVE  Value(Narrow(v, k), k) = v
<1> DEFINE m == 2^Width(k)
           u == Narrow(v, k)
<1>1. PICK h \in Nat : /\ h > 0 /\ m = 2 * h
                       /\ Signed(k) => Lo(k) = -h /\ Hi(k) = h - 1
                       /\ ~Signed(k) => Lo(k) = 0 /\ Hi(k) = 2 * h - 1
  BY Ranges
<1>2. m \in Nat /\ m > 0 /\ Lo(k) \in Int /\ Hi(k) \in Int
  <2>1. m \in Nat /\ m > 0
    <3> HIDE DEF m
    <3> QED BY <1>1
  <2>2. 0 \in Int
    OBVIOUS
  <2> QED BY <2>1, <2>2, Values
<1>3. v \in Int
  BY <1>2
<1>4. u = v % m
  BY DEF Narrow
<1> HIDE DEF m, u
<1>5. v >= 0 => v < m
  <2>1. CASE Signed(k)
    BY <1>1, <1>2, <1>3, <2>1
  <2>2. CASE ~Signed(k)
    BY <1>1, <1>2, <1>3, <2>2
  <2> QED BY <2>1, <2>2
<1>6. v >= 0 => u = v
  <2>1. v >= 0 => v \in 0..(m - 1) /\ v = m * 0 + v
    BY <1>2, <1>3, <1>5
  <2> QED BY <1>2, <1>3, <1>4, <2>1, ModIs
<1>7. v < 0 => Signed(k) /\ v + m \in 0..(m - 1) /\ u = v + m
  <2>1. v < 0 => Signed(k)
    BY <1>1, <1>2, <1>3
  <2>2. v < 0 => v + m \in 0..(m - 1) /\ v = m * (-1) + (v + m)
    BY <1>1, <1>2, <1>3, <2>1
  <2> QED BY <1>2, <1>3, <1>4, <2>1, <2>2, ModIs
<1>8. u \in 0..(m - 1)
  <2>1. v >= 0 \/ v < 0
    BY <1>3
  <2> QED BY <1>2, <1>3, <1>5, <1>6, <1>7, <2>1
<1>9. u % m = u
  <2>1. u = m * 0 + u /\ u \in Int
    BY <1>2, <1>8
  <2> QED BY <1>2, <1>8, <2>1, ModIs
<1>10. Value(u, k) = IF Signed(k) /\ u > Hi(k) THEN u - m ELSE u
  BY <1>9 DEF Value, AsSigned, AsUnsigned, m
<1>11. Value(u, k) = v
  <2>1. CASE v >= 0
    <3>1. ~(u > Hi(k))
      BY <1>2, <1>3, <1>6, <2>1
    <3> QED BY <1>6, <1>10, <2>1, <3>1
  <2>2. CASE v < 0
    <3>1. Lo(k) = -h /\ Hi(k) = h - 1 /\ Signed(k)
      BY <1>1, <1>7, <2>2
    <3>2. u > Hi(k) /\ u - m = v
      BY <1>1, <1>2, <1>3, <1>7, <2>2, <3>1
    <3> QED BY <1>10, <3>1, <3>2
  <2> QED BY <1>3, <2>1, <2>2
<1> QED BY <1>11 DEF u

\* Addition is what its mode promises (trap_add, wrap_add, sat_add).
LEMMA AddRight ==
  ASSUME WidthsAreBits, NEW k \in IntKinds, NEW a \in Int, NEW b \in Int, NEW mode \in {"trap", "wrap", "sat"}
  PROVE  IntBinop("add", mode, a, b, k) = Promised("add", mode, a, b, k)
<1> DEFINE m == 2^Width(k)
           x == Value(a, k)
           y == Value(b, k)
<1>1. m \in Nat /\ m > 0 /\ x \in Int /\ y \in Int
  BY Values
<1> DEFINE u == AsUnsigned(a, k)
           v == AsUnsigned(b, k)
<1>2. u \in Int /\ v \in Int /\ Congruent(u, x, m) /\ Congruent(v, y, m)
  BY ValueCongruent
<1>3. WrapAdd(a, b, k) = (u + v) % m
  BY DEF WrapAdd, WrapBinop, Narrow
<1>4. WrapAdd(a, b, k) = Narrow(x + y, k)
  <2> HIDE DEF m, x, y, u, v
  <2>1. Congruent(u + v, x + y, m) /\ u + v \in Int /\ x + y \in Int
    BY <1>1, <1>2, CongruentSums
  <2>2. (u + v) % m = (x + y) % m
    BY <1>1, <2>1, CongruentMod
  <2> QED BY <1>3, <2>2 DEF Narrow, m
<1>5. Promised("add", mode, a, b, k) =
        IF mode = "trap" /\ (x + y) \notin Lo(k)..Hi(k) THEN Err("overflow")
        ELSE IF mode = "sat" THEN Ok(SatClamp(x + y, k)) ELSE Ok(Narrow(x + y, k))
  BY DEF Promised
<1>6. IntBinop("add", mode, a, b, k) =
        IF mode = "trap" THEN TrapAdd(a, b, k) ELSE IF mode = "sat" THEN Ok(SatAdd(a, b, k)) ELSE Ok(WrapAdd(a, b, k))
  BY DEF IntBinop
<1>7. TrapAdd(a, b, k) = (IF (x + y) \in Lo(k)..Hi(k) THEN Ok(Narrow(x + y, k)) ELSE Err("overflow"))
      /\ SatAdd(a, b, k) = SatClamp(x + y, k)
  BY DEF TrapAdd, TrapBinop, SatAdd
<1> HIDE DEF m, x, y
<1> QED BY <1>4, <1>5, <1>6, <1>7

\* Subtraction is what its mode promises (trap_sub, wrap_sub, sat_sub).
LEMMA SubRight ==
  ASSUME WidthsAreBits, NEW k \in IntKinds, NEW a \in Int, NEW b \in Int, NEW mode \in {"trap", "wrap", "sat"}
  PROVE  IntBinop("sub", mode, a, b, k) = Promised("sub", mode, a, b, k)
<1> DEFINE m == 2^Width(k)
           x == Value(a, k)
           y == Value(b, k)
<1>1. m \in Nat /\ m > 0 /\ x \in Int /\ y \in Int
  BY Values
<1> DEFINE u == AsUnsigned(a, k)
           v == AsUnsigned(b, k)
<1>2. u \in Int /\ v \in Int /\ Congruent(u, x, m) /\ Congruent(v, y, m)
  BY ValueCongruent
<1>3. WrapSub(a, b, k) = (u - v) % m
  BY DEF WrapSub, WrapBinop, Narrow
<1>4. WrapSub(a, b, k) = Narrow(x - y, k)
  <2> HIDE DEF m, x, y, u, v
  <2>1. Congruent(u - v, x - y, m) /\ u - v \in Int /\ x - y \in Int
    BY <1>1, <1>2, CongruentSums
  <2>2. (u - v) % m = (x - y) % m
    BY <1>1, <2>1, CongruentMod
  <2> QED BY <1>3, <2>2 DEF Narrow, m
<1>5. Promised("sub", mode, a, b, k) =
        IF mode = "trap" /\ (x - y) \notin Lo(k)..Hi(k) THEN Err("overflow")
        ELSE IF mode = "sat" THEN Ok(SatClamp(x - y, k)) ELSE Ok(Narrow(x - y, k))
  BY DEF Promised
<1>6. IntBinop("sub", mode, a, b, k) =
        IF mode = "trap" THEN TrapSub(a, b, k) ELSE IF mode = "sat" THEN Ok(SatSub(a, b, k)) ELSE Ok(WrapSub(a, b, k))
  BY DEF IntBinop
<1>7. TrapSub(a, b, k) = (IF (x - y) \in Lo(k)..Hi(k) THEN Ok(Narrow(x - y, k)) ELSE Err("overflow"))
      /\ SatSub(a, b, k) = SatClamp(x - y, k)
  BY DEF TrapSub, TrapBinop, SatSub
<1> HIDE DEF m, x, y
<1> QED BY <1>4, <1>5, <1>6, <1>7

\* Multiplication is what its mode promises (trap_mul, wrap_mul, sat_mul).
LEMMA MulRight ==
  ASSUME WidthsAreBits, NEW k \in IntKinds, NEW a \in Int, NEW b \in Int, NEW mode \in {"trap", "wrap", "sat"}
  PROVE  IntBinop("mul", mode, a, b, k) = Promised("mul", mode, a, b, k)
<1> DEFINE m == 2^Width(k)
           x == Value(a, k)
           y == Value(b, k)
<1>1. m \in Nat /\ m > 0 /\ x \in Int /\ y \in Int
  BY Values
<1> DEFINE u == AsUnsigned(a, k)
           v == AsUnsigned(b, k)
<1>2. u \in Int /\ v \in Int /\ Congruent(u, x, m) /\ Congruent(v, y, m)
  BY ValueCongruent
<1>3. WrapMul(a, b, k) = (u * v) % m
  BY DEF WrapMul, WrapBinop, Narrow
<1>4. WrapMul(a, b, k) = Narrow(x * y, k)
  <2> HIDE DEF m, x, y, u, v
  <2>1. Congruent(u * v, x * y, m) /\ u * v \in Int /\ x * y \in Int
    BY <1>1, <1>2, CongruentSums
  <2>2. (u * v) % m = (x * y) % m
    BY <1>1, <2>1, CongruentMod
  <2> QED BY <1>3, <2>2 DEF Narrow, m
<1>5. Promised("mul", mode, a, b, k) =
        IF mode = "trap" /\ (x * y) \notin Lo(k)..Hi(k) THEN Err("overflow")
        ELSE IF mode = "sat" THEN Ok(SatClamp(x * y, k)) ELSE Ok(Narrow(x * y, k))
  BY DEF Promised
<1>6. IntBinop("mul", mode, a, b, k) =
        IF mode = "trap" THEN TrapMul(a, b, k) ELSE IF mode = "sat" THEN Ok(SatMul(a, b, k)) ELSE Ok(WrapMul(a, b, k))
  BY DEF IntBinop
<1>7. TrapMul(a, b, k) = (IF (x * y) \in Lo(k)..Hi(k) THEN Ok(Narrow(x * y, k)) ELSE Err("overflow"))
      /\ SatMul(a, b, k) = SatClamp(x * y, k)
  BY DEF TrapMul, TrapBinop, SatMul
<1> HIDE DEF m, x, y
<1> QED BY <1>4, <1>5, <1>6, <1>7

\* Division of two values of a type: quotient and remainder are of the type, but
\* for MIN / -1, whose quotient is one too large, has the pattern of MIN, and
\* leaves nothing.
LEMMA QuotientInType ==
  ASSUME WidthsAreBits, NEW k \in IntKinds, NEW x \in Lo(k)..Hi(k), NEW y \in Lo(k)..Hi(k), y # 0
  PROVE  /\ Lo(k) \in Int /\ Hi(k) \in Int /\ x \in Int /\ y \in Int
         /\ Quotient(x, y) \in Int /\ Remainder(x, y) \in Lo(k)..Hi(k) /\ Remainder(x, y) \in Int
         /\ ~(Signed(k) /\ x = Lo(k) /\ y = -1) => Quotient(x, y) \in Lo(k)..Hi(k)
         /\ Signed(k) /\ x = Lo(k) /\ y = -1 =>
                /\ Quotient(x, y) = Hi(k) + 1 /\ Remainder(x, y) = 0
                /\ Narrow(Quotient(x, y), k) = Narrow(Lo(k), k)
<1> DEFINE m == 2^Width(k)
           q == Quotient(x, y)
           r == Remainder(x, y)
<1>1. PICK h \in Nat : /\ h > 0 /\ m = 2 * h
                       /\ Signed(k) => Lo(k) = -h /\ Hi(k) = h - 1
                       /\ ~Signed(k) => Lo(k) = 0 /\ Hi(k) = 2 * h - 1
  BY Ranges
<1>2. Lo(k) \in Int /\ Hi(k) \in Int /\ Lo(k) <= 0 /\ Hi(k) >= 0
  <2>1. 0 \in Int
    OBVIOUS
  <2> QED BY <2>1, Values
<1>3. x \in Int /\ y \in Int
  BY <1>2
<1>4. r \in Int /\ (x >= 0 => r \in 0..x) /\ (x < 0 => r \in x..0) /\ (y = -1 => r = 0)
  BY <1>3, RemainderFits
<1>5. /\ q \in Int
      /\ x >= 0 /\ y > 0 => q \in 0..x
      /\ x \in (-h)..(h - 1) /\ ~(x = -h /\ y = -1) => q \in (-h)..(h - 1)
      /\ x = -h /\ y = -1 => q = h
  BY <1>1, <1>3, QuotientFits
<1> HIDE DEF m, q, r
<1>6. r \in Lo(k)..Hi(k)
  <2>1. CASE x >= 0
    BY <1>2, <1>3, <1>4, <2>1
  <2>2. CASE x < 0
    BY <1>2, <1>3, <1>4, <2>2
  <2> QED BY <1>3, <2>1, <2>2
<1>7. ~(Signed(k) /\ x = Lo(k) /\ y = -1) => q \in Lo(k)..Hi(k)
  <2>1. CASE Signed(k)
    BY <1>1, <1>5, <2>1
  <2>2. CASE ~Signed(k)
    <3>1. x >= 0 /\ y > 0 /\ x <= Hi(k) /\ Lo(k) = 0
      BY <1>1, <1>2, <1>3, <2>2
    <3> QED BY <1>2, <1>3, <1>5, <3>1
  <2> QED BY <2>1, <2>2
<1>8. ASSUME Signed(k), x = Lo(k), y = -1
      PROVE  q = Hi(k) + 1 /\ r = 0 /\ Narrow(q, k) = Narrow(Lo(k), k)
  <2>1. q = h /\ Lo(k) = -h /\ Hi(k) = h - 1
    BY <1>1, <1>5, <1>8
  <2>2. h = -h + m * 1 /\ -h \in Int /\ h \in Int /\ m \in Nat /\ m > 0
    BY <1>1
  <2>3. Congruent(h, -h, m)
    BY <2>2 DEF Congruent
  <2>4. h % m = (-h) % m
    BY <2>2, <2>3, CongruentMod
  <2>5. Narrow(q, k) = h % m /\ Narrow(Lo(k), k) = (-h) % m
    BY <2>1 DEF Narrow, m
  <2> QED BY <1>1, <1>4, <1>8, <2>1, <2>4, <2>5
<1> QED BY <1>2, <1>3, <1>4, <1>5, <1>6, <1>7, <1>8 DEF q, r

\* Division is what its mode promises (trap_div, wrap_div, sat_div): the two
\* guards, of zero and of MIN / -1, catch every case and no other.
LEMMA DivRight ==
  ASSUME WidthsAreBits, NEW k \in IntKinds, NEW a \in Int, NEW b \in Int, NEW mode \in {"trap", "wrap", "sat"}
  PROVE  IntBinop("div", mode, a, b, k) = Promised("div", mode, a, b, k)
<1> DEFINE x == Value(a, k)
           y == Value(b, k)
           q == Quotient(x, y)
<1>1. x \in Lo(k)..Hi(k) /\ y \in Lo(k)..Hi(k)
  BY Values
<1>2. Promised("div", mode, a, b, k) =
        IF y = 0 THEN Err("div_zero")
        ELSE IF mode = "trap" /\ q \notin Lo(k)..Hi(k) THEN Err("overflow")
        ELSE IF mode = "sat" THEN Ok(SatClamp(q, k)) ELSE Ok(Narrow(q, k))
  BY DEF Promised
<1>3. IntBinop("div", mode, a, b, k) =
        IF mode = "trap" THEN TrapDiv(a, b, k) ELSE IF mode = "sat" THEN SatDiv(a, b, k) ELSE WrapDiv(a, b, k)
  BY DEF IntBinop
<1> DEFINE M == Signed(k) /\ x = Lo(k) /\ y = -1
<1>4. MinByMinusOne(a, b, k) = M
  BY DEF MinByMinusOne
<1>5. TrapDiv(a, b, k) = (IF y = 0 THEN Err("div_zero") ELSE IF M THEN Err("overflow") ELSE Ok(Narrow(q, k)))
  BY <1>4 DEF TrapDiv
<1>6. SatDiv(a, b, k) = (IF y = 0 THEN Err("div_zero") ELSE IF M THEN Ok(SatClamp(Hi(k) + 1, k)) ELSE Ok(SatClamp(q, k)))
  BY <1>4 DEF SatDiv
<1>7. WrapDiv(a, b, k) = (IF y # 0 /\ M THEN Ok(Narrow(Lo(k), k)) ELSE TrapDiv(a, b, k))
  BY <1>4 DEF WrapDiv
<1>8. CASE y = 0
  BY <1>2, <1>3, <1>5, <1>6, <1>7, <1>8
<1>9. CASE y # 0
  <2>1. /\ Lo(k) \in Int /\ Hi(k) \in Int
        /\ ~M => q \in Lo(k)..Hi(k)
        /\ M => q = Hi(k) + 1 /\ Narrow(q, k) = Narrow(Lo(k), k)
    BY <1>1, <1>9, QuotientInType
  <2> HIDE DEF x, y, q, M
  <2>2. M => q \notin Lo(k)..Hi(k)
    BY <2>1
  <2>3. CASE M
    BY <1>2, <1>3, <1>5, <1>6, <1>7, <1>9, <2>1, <2>2, <2>3
  <2>4. CASE ~M
    BY <1>2, <1>3, <1>5, <1>6, <1>7, <1>9, <2>1, <2>4
  <2> QED BY <2>3, <2>4
<1> QED BY <1>8, <1>9

\* Zero is the pattern of zero and in the range of every type.
LEMMA ZeroBits ==
  ASSUME WidthsAreBits, NEW k \in IntKinds
  PROVE  Narrow(0, k) = 0 /\ SatClamp(0, k) = 0
<1> DEFINE m == 2^Width(k)
<1>1. m \in Nat /\ m > 0 /\ Lo(k) \in Int /\ Hi(k) \in Int /\ Lo(k) <= 0 /\ Hi(k) >= 0
  <2>1. 0 \in Int
    OBVIOUS
  <2> QED BY <2>1, Values
<1>2. Narrow(0, k) = 0 % m
  BY DEF Narrow
<1>3. SatClamp(0, k) = Narrow(0, k)
  BY <1>1 DEF SatClamp
<1> HIDE DEF m
<1>4. 0 = m * 0 + 0 /\ 0 \in 0..(m - 1)
  BY <1>1
<1>5. 0 % m = 0
  BY <1>1, <1>4, ModIs
<1> QED BY <1>2, <1>3, <1>5

\* The remainder is what its mode promises (trap_rem, wrap_rem, sat_rem): MIN % -1
\* traps with the division it comes from, and is zero in the other modes.
LEMMA RemRight ==
  ASSUME WidthsAreBits, NEW k \in IntKinds, NEW a \in Int, NEW b \in Int, NEW mode \in {"trap", "wrap", "sat"}
  PROVE  IntBinop("rem", mode, a, b, k) = Promised("rem", mode, a, b, k)
<1> DEFINE x == Value(a, k)
           y == Value(b, k)
           r == Remainder(x, y)
           M == Signed(k) /\ x = Lo(k) /\ y = -1
<1>1. x \in Lo(k)..Hi(k) /\ y \in Lo(k)..Hi(k)
  BY Values
<1>2. MinByMinusOne(a, b, k) = M
  BY DEF MinByMinusOne
<1>3. Promised("rem", mode, a, b, k) =
        IF y = 0 THEN Err("div_zero")
        ELSE IF mode = "trap" /\ (r \notin Lo(k)..Hi(k) \/ M) THEN Err("overflow")
        ELSE IF mode = "sat" THEN Ok(SatClamp(r, k)) ELSE Ok(Narrow(r, k))
  BY <1>2 DEF Promised
<1>4. IntBinop("rem", mode, a, b, k) =
        IF mode = "trap" THEN TrapRem(a, b, k) ELSE IF mode = "sat" THEN SatRem(a, b, k) ELSE WrapRem(a, b, k)
  BY DEF IntBinop
<1>5. TrapRem(a, b, k) = (IF y = 0 THEN Err("div_zero") ELSE IF M THEN Err("overflow") ELSE Ok(Narrow(r, k)))
  BY <1>2 DEF TrapRem
<1>6. SatRem(a, b, k) = (IF y = 0 THEN Err("div_zero") ELSE IF M THEN Ok(0) ELSE Ok(SatClamp(r, k)))
  BY <1>2 DEF SatRem
<1>7. WrapRem(a, b, k) = (IF y # 0 /\ M THEN Ok(0) ELSE TrapRem(a, b, k))
  BY <1>2 DEF WrapRem
<1>8. CASE y = 0
  BY <1>3, <1>4, <1>5, <1>6, <1>7, <1>8
<1>9. CASE y # 0
  <2>1. r \in Lo(k)..Hi(k) /\ (M => r = 0)
    BY <1>1, <1>9, QuotientInType
  <2> HIDE DEF x, y, r, M
  <2>2. Narrow(0, k) = 0 /\ SatClamp(0, k) = 0
    BY ZeroBits
  <2>3. CASE M
    BY <1>3, <1>4, <1>5, <1>6, <1>7, <1>9, <2>1, <2>2, <2>3
  <2>4. CASE ~M
    BY <1>3, <1>4, <1>5, <1>6, <1>7, <1>9, <2>1, <2>4
  <2> QED BY <2>3, <2>4
<1> QED BY <1>8, <1>9

Modes == {"trap", "wrap", "sat"}
\* A number of the type, and none of the type is nearer to v.
IsNearest(n, v, k) == n \in Lo(k)..Hi(k) /\ \A w \in Lo(k)..Hi(k) : Abs(v - n) <= Abs(v - w)

\* Saturation answers with the number of the type nearest to the exact one
\* (sat_clamp).
LEMMA Saturates ==
  ASSUME WidthsAreBits, NEW k \in IntKinds, NEW v \in Int
  PROVE  IsNearest(Value(SatClamp(v, k), k), v, k) /\ (v \in Lo(k)..Hi(k) => Value(SatClamp(v, k), k) = v)
<1> DEFINE c == IF v < Lo(k) THEN Lo(k) ELSE IF v > Hi(k) THEN Hi(k) ELSE v
           n == Value(SatClamp(v, k), k)
<1>1. Lo(k) \in Int /\ Hi(k) \in Int /\ Lo(k) <= 0 /\ Hi(k) >= 0
  <2>1. 0 \in Int
    OBVIOUS
  <2> QED BY <2>1, Values
<1>2. c \in Lo(k)..Hi(k)
  BY <1>1
<1>3. SatClamp(v, k) = Narrow(c, k)
  BY DEF SatClamp
<1> HIDE DEF c
<1>4. n = c
  BY <1>2, <1>3, ValueOfBits
<1> HIDE DEF n
<1>5. \A w \in Lo(k)..Hi(k) : Abs(v - n) <= Abs(v - w)
  BY <1>1, <1>4 DEF c, Abs
<1>6. v \in Lo(k)..Hi(k) => n = v
  BY <1>1, <1>4 DEF c
<1> QED BY <1>2, <1>4, <1>5, <1>6 DEF n, IsNearest

\* Negation of a signed number is what its mode promises (trap_neg, wrap_neg,
\* sat_neg): only MIN has no negative of its type.
LEMMA NegRight ==
  ASSUME WidthsAreBits, NEW k \in IntKinds, NEW a \in Int, NEW mode \in Modes, Signed(k)
  PROVE  IntNeg(mode, a, k) =
            IF mode = "trap" /\ -Value(a, k) \notin Lo(k)..Hi(k) THEN Err("overflow")
            ELSE IF mode = "sat" THEN Ok(SatClamp(-Value(a, k), k)) ELSE Ok(Narrow(-Value(a, k), k))
<1> DEFINE x == Value(a, k)
<1>1. PICK h \in Nat : h > 0 /\ Lo(k) = -h /\ Hi(k) = h - 1
  BY Ranges
<1>2. x \in Lo(k)..Hi(k) /\ AsSigned(a, k) = x
  BY Values DEF Value
<1>3. IntNeg(mode, a, k) =
        IF mode = "trap" THEN (IF AsSigned(a, k) = Lo(k) THEN Err("overflow") ELSE Ok(Narrow(-x, k)))
        ELSE IF mode = "sat" THEN Ok(SatClamp(-AsSigned(a, k), k)) ELSE Ok(Narrow(-AsSigned(a, k), k))
  BY DEF IntNeg, TrapNeg, SatNeg, WrapNeg, Modes
<1> HIDE DEF x
<1>4. (-x \notin Lo(k)..Hi(k)) <=> (x = Lo(k))
  BY <1>1, <1>2
<1>5. IntNeg(mode, a, k) =
            IF mode = "trap" /\ -x \notin Lo(k)..Hi(k) THEN Err("overflow")
            ELSE IF mode = "sat" THEN Ok(SatClamp(-x, k)) ELSE Ok(Narrow(-x, k))
  BY <1>2, <1>3, <1>4
<1> QED BY <1>5 DEF x

\* Whatever the widths, whatever the two bit patterns, every integer operation of
\* the interpreter gives what the language promises of its mode: the exact result
\* where the type holds it, a trap, the nearest number of the type or the result
\* modulo 2^w where it does not, div_zero by zero and nothing else; and the
\* pattern it answers with means that number.
THEOREM IntegerOperationsRight ==
    WidthsAreBits =>
        \A k \in IntKinds :
            /\ \A a, b \in Int, mode \in Modes, op \in {"add", "sub", "mul", "div", "rem"} :
                   IntBinop(op, mode, a, b, k) = Promised(op, mode, a, b, k)
            /\ \A a \in Int, mode \in Modes : Signed(k) =>
                   IntNeg(mode, a, k) =
                       IF mode = "trap" /\ -Value(a, k) \notin Lo(k)..Hi(k) THEN Err("overflow")
                       ELSE IF mode = "sat" THEN Ok(SatClamp(-Value(a, k), k)) ELSE Ok(Narrow(-Value(a, k), k))
            /\ \A v \in Int : IsNearest(Value(SatClamp(v, k), k), v, k)
            /\ \A v \in Lo(k)..Hi(k) : Value(Narrow(v, k), k) = v
<1> SUFFICES ASSUME WidthsAreBits, NEW k \in IntKinds
             PROVE  /\ \A a, b \in Int, mode \in Modes, op \in {"add", "sub", "mul", "div", "rem"} :
                           IntBinop(op, mode, a, b, k) = Promised(op, mode, a, b, k)
                    /\ \A a \in Int, mode \in Modes : Signed(k) =>
                           IntNeg(mode, a, k) =
                               IF mode = "trap" /\ -Value(a, k) \notin Lo(k)..Hi(k) THEN Err("overflow")
                               ELSE IF mode = "sat" THEN Ok(SatClamp(-Value(a, k), k)) ELSE Ok(Narrow(-Value(a, k), k))
                    /\ \A v \in Int : IsNearest(Value(SatClamp(v, k), k), v, k)
                    /\ \A v \in Lo(k)..Hi(k) : Value(Narrow(v, k), k) = v
  OBVIOUS
<1>1. ASSUME NEW a \in Int, NEW b \in Int, NEW mode \in Modes, NEW op \in {"add", "sub", "mul", "div", "rem"}
      PROVE  IntBinop(op, mode, a, b, k) = Promised(op, mode, a, b, k)
  <2>1. mode \in {"trap", "wrap", "sat"}
    BY DEF Modes
  <2>2. CASE op = "add"
    BY <2>1, <2>2, AddRight
  <2>3. CASE op = "sub"
    BY <2>1, <2>3, SubRight
  <2>4. CASE op = "mul"
    BY <2>1, <2>4, MulRight
  <2>5. CASE op = "div"
    BY <2>1, <2>5, DivRight
  <2>6. CASE op = "rem"
    BY <2>1, <2>6, RemRight
  <2> QED BY <2>2, <2>3, <2>4, <2>5, <2>6
<1>2. \A a \in Int, mode \in Modes : Signed(k) =>
           IntNeg(mode, a, k) =
               IF mode = "trap" /\ -Value(a, k) \notin Lo(k)..Hi(k) THEN Err("overflow")
               ELSE IF mode = "sat" THEN Ok(SatClamp(-Value(a, k), k)) ELSE Ok(Narrow(-Value(a, k), k))
  BY NegRight
<1>3. \A v \in Int : IsNearest(Value(SatClamp(v, k), k), v, k)
  BY Saturates
<1>4. \A v \in Lo(k)..Hi(k) : Value(Narrow(v, k), k) = v
  BY ValueOfBits
<1> QED BY <1>1, <1>2, <1>3, <1>4

=============================================================================
