---------------------------- MODULE InterpMemory ----------------------------
(***************************************************************************)
(* The memory of the FMIR interpreter (fors-interp: exec.rs, mem.rs,       *)
(* ub.rs): frames and their local roots, heap allocations, arenas with     *)
(* generations, pointers that carry a provenance, and one borrow stack per *)
(* local or allocation.  Any sequence of memory instructions may be        *)
(* executed, as any FMIR function may contain it; a step the interpreter   *)
(* refuses ends the run with the class of its report in fault.             *)
(*                                                                         *)
(* A pointer value carries its provenance row (the rows are append-only,   *)
(* so the row is as good as its index) and its bits: an offset, and for an *)
(* arena Ref the generation too.  born, owner, minted and clobbered are    *)
(* history the interpreter does not keep; no guard reads them.             *)
(* A scalar is one cell wide.  An aggregate lives in cells and is shared   *)
(* by reference, as in the code; a slice is a window (base, start, len).   *)
(***************************************************************************)
EXTENDS Integers, Sequences, FiniteSets, Functions

CONSTANTS Roots,       \* local slots of a frame
          Data,        \* scalar values, naturals
          Sizes,       \* sizes an allocation may ask for
          Brands,      \* allocator brands a scope may have
          Regions,     \* region rows of kind WithArena
          MaxFrames,   \* MAX_FRAMES
          MaxGen,      \* u32::MAX for a generation
          MaxOff,      \* u32::MAX for an arena offset
          Bodies,      \* the kinds of instruction a program may use, a set of sets
          MaxSerial, MaxTag, MaxObjects, MaxCells   \* bounds of the instance

ASSUME BoundsAssumption ==
    /\ MaxFrames \in Nat \ {0} /\ MaxGen \in Nat /\ MaxOff \in Nat
    /\ {MaxSerial, MaxTag, MaxObjects, MaxCells} \subseteq Nat /\ Sizes \subseteq Nat /\ Data \subseteq Nat
ASSUME RootsAssumption == IsFiniteSet(Roots) /\ Roots = 1..Cardinality(Roots)

VARIABLES frames,      \* Seq of [serial, roots, val]; val is the last value defined
          nextSerial, nextTag,
          allocs,      \* Seq of [owner, state, size, cells]
          arenas,      \* Seq of [gen, bump, data, region]
          borrows,     \* borrow stacks by key
          cells,       \* Seq of [kind, slots]: aggregates and slice descriptors
          body,        \* the instructions of this program
          fault,       \* "none", or the class of the report that ended the run
          objects,     \* history: how many objects were made
          owner,       \* history: the object at each <<allocation, offset>>
          minted,      \* history: per tag, the key it was made for and if unique
          clobbered    \* history: tags written past since they were made

mem == <<allocs, arenas, borrows, cells>>
hist == <<objects, owner, minted, clobbered>>
vars == <<frames, nextSerial, nextTag, mem, body, fault, hist>>

ROOT_TAG == 0

\* Slots.
Uninit == [st |-> "uninit"]
MovedOut == [st |-> "moved"]
Val(v) == [st |-> "val", v |-> v]
Scalar(n) == [data |-> n]
CellRef(c) == [cell |-> c]
Ptr(target, tag, gen, off, born) ==
    [target |-> target, tag |-> tag, gen |-> gen, off |-> off, born |-> born]
IsPtr(s) == s.st = "val" /\ "target" \in DOMAIN s.v
IsCell(s) == s.st = "val" /\ "cell" \in DOMAIN s.v
ToRoot(f, n, r) == [k |-> "root", frame |-> f, serial |-> n, root |-> r]
ToAlloc(id) == [k |-> "alloc", id |-> id]
ToArena(a, id) == [k |-> "arena", arena |-> a, id |-> id]

Top == Len(frames)
Cur == frames[Top]
RootKey(f, r) == <<"root", f, r>>
AllocKey(id) == <<"alloc", id, 0>>
ObjectOf(f, r) == <<"root", frames[f].serial, r>>

-----------------------------------------------------------------------------
(* Borrow stacks.  An item is unique, with one tag, or a shared group.     *)

Largest(S) == IF S = {} THEN 0 ELSE CHOOSE i \in S : \A j \in S : j <= i
Item(u, tag) == [unique |-> u, tags |-> {tag}]
Rooted(tag) == <<Item(TRUE, tag)>>

PushUniqueKeeping(s, tag) == Append(s, Item(TRUE, tag))
PushUnique(s, tag) ==
    Append(SubSeq(s, 1, Largest({i \in DOMAIN s : s[i].unique})), Item(TRUE, tag))

PushShared(s, tag) ==
    IF s # <<>> /\ ~s[Len(s)].unique
    THEN [s EXCEPT ![Len(s)].tags = @ \cup {tag}]
    ELSE Append(s, Item(FALSE, tag))

Position(s, tag) == Largest({i \in DOMAIN s : tag \in s[i].tags})
Allows(s, tag, how) ==
    LET i == Position(s, tag) IN i # 0 /\ (how = "read" \/ s[i].unique)
AfterWriteKeeping(s, tag) == s
AfterWrite(s, tag) == SubSeq(s, 1, Position(s, tag))

BorrowAllows(key, tag, how) ==
    key \in DOMAIN borrows => Allows(borrows[key], tag, how)
Written(key, tag) ==
    IF key \in DOMAIN borrows /\ Allows(borrows[key], tag, "write")
    THEN [borrows EXCEPT ![key] = AfterWrite(@, tag)] ELSE borrows
BorrowStack(key) == IF key \in DOMAIN borrows THEN borrows[key] ELSE Rooted(ROOT_TAG)
WithStack(key, s) == [k \in DOMAIN borrows \cup {key} |-> IF k = key THEN s ELSE borrows[k]]

\* history: a write through tag passes every later tag of the same object,
\* and every shared one
Passed(object, tag) ==
    clobbered \cup {t \in 1..nextTag : minted[t].object = object /\ t # tag
                                       /\ (t > tag \/ ~minted[t].unique)}

-----------------------------------------------------------------------------
(* Reaching through a pointer: the class of the report, or "ok".           *)

SlotFault(s) == CASE s.st = "moved" -> "use-after-move"
                  [] s.st = "uninit" -> "uninit-read"
                  [] OTHER -> "ok"

AllocFault(id) == CASE allocs[id].state = "live" -> "ok"
                    [] allocs[id].state = "freed" -> "use-after-free"
                    [] OTHER -> "trap arena-generation"

ArenaFault(id) == IF allocs[id].state = "live" THEN "ok" ELSE "trap arena-generation"

AliveByIndex(t) == t.frame <= Len(frames)
Alive(t) == t.frame <= Len(frames) /\ frames[t.frame].serial = t.serial
CheckGenerationNot(p) == TRUE
CheckGeneration(p) == arenas[p.target.arena].gen = p.gen

ResolveDeref(p) ==
    CASE p.target.k = "root" -> IF Alive(p.target) THEN "ok" ELSE "use-after-free"
      [] p.target.k = "alloc" -> AllocFault(p.target.id)
      [] OTHER -> IF CheckGeneration(p) THEN ArenaFault(p.target.id)
                  ELSE "trap arena-generation"

KeyOf(p) == IF p.target.k = "root" THEN RootKey(p.target.frame, p.target.root)
            ELSE AllocKey(p.target.id)
Reached(p) == IF p.target.k = "root" THEN ObjectOf(p.target.frame, p.target.root)
              ELSE <<"alloc", p.target.id, 0>>

\* what is behind a resolved pointer
Behind(p) == IF p.target.k = "root" THEN frames[p.target.frame].roots[p.target.root]
             ELSE allocs[p.target.id].cells[p.off]
InBounds(p) == p.target.k = "root" \/ p.off < allocs[p.target.id].size

\* the first check that refuses an access through local root r
ThroughFault(r, how) ==
    LET s == Cur.roots[r] IN
    IF SlotFault(s) # "ok" THEN SlotFault(s)
    ELSE IF ~IsPtr(s) THEN "error type-mismatch"
    ELSE IF ResolveDeref(s.v) # "ok" THEN ResolveDeref(s.v)
    ELSE IF ~BorrowAllows(KeyOf(s.v), s.v.tag, how) THEN "aliasing"
    ELSE IF ~InBounds(s.v) THEN "trap bounds"
    ELSE IF how = "read" THEN SlotFault(Behind(s.v)) ELSE "ok"

\* a sequence value: its cell, where its window starts and how long it is
SeqWindow(c) ==
    IF cells[c].kind = "agg" THEN [cell |-> c, start |-> 0, len |-> Len(cells[c].slots)]
    ELSE LET d == cells[c].slots IN [cell |-> d[1].v.data, start |-> d[2].v.data, len |-> d[3].v.data]
WindowFault(c) ==
    LET w == SeqWindow(c) IN
    IF w.start + w.len > Len(cells[w.cell].slots) THEN "error type-mismatch" ELSE "ok"

\* element i of the sequence in local root r
ElementFault(r, i) ==
    LET s == Cur.roots[r] IN
    IF SlotFault(s) # "ok" THEN SlotFault(s)
    ELSE IF ~IsCell(s) THEN "error type-mismatch"
    ELSE IF WindowFault(s.v.cell) # "ok" THEN WindowFault(s.v.cell)
    ELSE IF i >= SeqWindow(s.v.cell).len THEN "trap bounds" ELSE "ok"
Element(r, i) == LET w == SeqWindow(Cur.roots[r].v.cell) IN <<w.cell, w.start + i + 1>>

-----------------------------------------------------------------------------
Init ==
    /\ frames = <<[serial |-> 0, roots |-> [r \in Roots |-> Uninit], val |-> Val(Scalar(0))]>>
    /\ nextSerial = 1 /\ nextTag = 0
    /\ allocs = <<>> /\ arenas = <<>> /\ borrows = << >> /\ cells = <<>>
    /\ body \in Bodies /\ fault = "none" /\ objects = 0
    /\ owner = << >> /\ minted = <<>> /\ clobbered = {}

\* charge: any step may be the one past the cap
Charge(kind) == fault = "none" /\ kind \in body /\ UNCHANGED body
\* the report leaves the machine, which is dropped
Faults(class) ==
    /\ fault' = class
    /\ frames' = <<>> /\ nextSerial' = 0 /\ nextTag' = 0
    /\ allocs' = <<>> /\ arenas' = <<>> /\ borrows' = << >> /\ cells' = <<>>
    /\ objects' = 0 /\ owner' = << >> /\ minted' = <<>> /\ clobbered' = {}
Goes == fault' = "none"
Define(s) == frames' = [frames EXCEPT ![Top].val = s]
SetRoot(f, r, s) == frames' = [frames EXCEPT ![f].roots[r] = s]

StepBudget == fault = "none" /\ Faults("error step-budget") /\ UNCHANGED body

\* call: the argument becomes the first root of a new activation
Call ==
    /\ Charge("call") /\ nextSerial <= MaxSerial
    /\ IF Top >= MaxFrames THEN Faults("error stack-overflow")
       ELSE /\ frames' = Append(frames, [serial |-> nextSerial, val |-> Uninit,
                             roots |-> [r \in Roots |-> IF r = 1 THEN Cur.val ELSE Uninit]])
            /\ nextSerial' = nextSerial + 1
            /\ Goes /\ UNCHANGED <<nextTag, mem, hist>>

\* a return: pop_frame drops the borrow stacks of the frame's index
PopFrame == borrows' = [k \in {k \in DOMAIN borrows : k[1] = "root" => k[2] # Top} |-> borrows[k]]
Return ==
    /\ Top > 1 /\ Charge("call")
    /\ IF SlotFault(Cur.val) # "ok" THEN Faults(SlotFault(Cur.val))
       ELSE /\ frames' = [SubSeq(frames, 1, Top - 1) EXCEPT ![Top - 1].val = Cur.val]
            /\ PopFrame
            /\ Goes /\ UNCHANGED <<nextSerial, nextTag, allocs, arenas, cells, hist>>

\* a constant
Const == \E n \in Data :
    /\ Charge("scalar") /\ Define(Val(Scalar(n)))
    /\ Goes /\ UNCHANGED <<nextSerial, nextTag, mem, hist>>

\* copy_from and move_from of a whole local
CopyFrom == \E r \in Roots :
    /\ Charge("place")
    /\ IF SlotFault(Cur.roots[r]) # "ok" THEN Faults(SlotFault(Cur.roots[r]))
       ELSE Define(Cur.roots[r]) /\ Goes /\ UNCHANGED <<nextSerial, nextTag, mem, hist>>
MoveFrom == \E r \in Roots :
    /\ Charge("move")
    /\ IF SlotFault(Cur.roots[r]) # "ok" THEN Faults(SlotFault(Cur.roots[r]))
       ELSE /\ frames' = [frames EXCEPT ![Top].val = Cur.roots[r], ![Top].roots[r] = MovedOut]
            /\ Goes /\ UNCHANGED <<nextSerial, nextTag, mem, hist>>

\* init of a whole local: a write through the root's own tag
InitRoot == \E r \in Roots :
    /\ Charge("place")
    /\ IF SlotFault(Cur.val) # "ok" THEN Faults(SlotFault(Cur.val))
       ELSE /\ SetRoot(Top, r, Cur.val)
            /\ borrows' = Written(RootKey(Top, r), ROOT_TAG)
            /\ clobbered' = Passed(ObjectOf(Top, r), ROOT_TAG)
            /\ Goes /\ UNCHANGED <<nextSerial, nextTag, allocs, arenas, cells, objects, owner, minted>>

\* copy_from and init through the pointer in a local (place [Deref])
ReadThrough == \E r \in Roots :
    /\ Charge("through")
    /\ IF ThroughFault(r, "read") # "ok" THEN Faults(ThroughFault(r, "read"))
       ELSE Define(Behind(Cur.roots[r].v)) /\ Goes /\ UNCHANGED <<nextSerial, nextTag, mem, hist>>
WriteThrough == \E r \in Roots :
    /\ Charge("through")
    /\ LET p == Cur.roots[r].v IN
       IF SlotFault(Cur.val) # "ok" THEN Faults(SlotFault(Cur.val))
       ELSE IF ThroughFault(r, "write") # "ok" THEN Faults(ThroughFault(r, "write"))
       ELSE /\ IF p.target.k = "root"
               THEN SetRoot(p.target.frame, p.target.root, Cur.val) /\ UNCHANGED allocs
               ELSE allocs' = [allocs EXCEPT ![p.target.id].cells[p.off] = Cur.val] /\ UNCHANGED frames
            /\ borrows' = Written(KeyOf(p), p.tag)
            /\ clobbered' = Passed(Reached(p), p.tag)
            /\ Goes /\ UNCHANGED <<nextSerial, nextTag, arenas, cells, objects, owner, minted>>

\* borrow, borrow_mut and borrow_out of a local; the last also forgets it
Borrow == \E r \in Roots, op \in {"borrow", "borrow_mut", "borrow_out"} :
    /\ Charge("borrow") /\ nextTag < MaxTag
    /\ LET key == RootKey(Top, r)
           tag == nextTag + 1
       IN /\ borrows' = WithStack(key, IF op = "borrow" THEN PushShared(BorrowStack(key), tag)
                                       ELSE PushUnique(BorrowStack(key), tag))
          /\ frames' = [frames EXCEPT
                 ![Top].roots[r] = IF op = "borrow_out" THEN Uninit ELSE @,
                 ![Top].val = Val(Ptr(ToRoot(Top, Cur.serial, r), tag, 0, 0, ObjectOf(Top, r)))]
          /\ minted' = Append(minted, [object |-> ObjectOf(Top, r), unique |-> op # "borrow"])
          /\ nextTag' = tag
    /\ Goes /\ UNCHANGED <<nextSerial, allocs, arenas, cells, objects, owner, clobbered>>

\* history: the object a step makes, and the one an arena handle stands for
NewBorn == <<"object", objects + 1, 0>>
Handle == <<"object", 0, 0>>

\* a new object with its own borrow stack
NewObject(a) ==
    /\ allocs' = Append(allocs, a)
    /\ borrows' = WithStack(AllocKey(Len(allocs) + 1), Rooted(nextTag + 1))
    /\ minted' = Append(minted, [object |-> <<"alloc", Len(allocs) + 1, 0>>, unique |-> TRUE])
    /\ nextTag' = nextTag + 1
Blank(n) == [o \in 0..n - 1 |-> Uninit]

Alloc == \E n \in Sizes, b \in Brands :
    /\ Charge("heap") /\ objects < MaxObjects
    /\ objects' = objects + 1
    /\ LET id == Len(allocs) + 1 IN
       /\ NewObject([owner |-> <<"heap", b>>, state |-> "live", size |-> n, cells |-> Blank(n)])
       /\ owner' = [c \in DOMAIN owner \cup ({id} \X (0..n - 1)) |->
                        IF c \in DOMAIN owner THEN owner[c] ELSE NewBorn]
       /\ Define(Val(Ptr(ToAlloc(id), nextTag + 1, 0, 0, NewBorn)))
    /\ Goes /\ UNCHANGED <<nextSerial, arenas, cells, clobbered>>

\* free: only by the brand that allocated, and only once
FreeFault(s, b) ==
    IF SlotFault(s) # "ok" THEN SlotFault(s)
    ELSE IF ~IsPtr(s) THEN "error type-mismatch"
    ELSE IF s.v.target.k # "alloc" THEN "allocator-mismatch"
    ELSE IF AllocFault(s.v.target.id) # "ok" THEN AllocFault(s.v.target.id)
    ELSE IF allocs[s.v.target.id].owner # <<"heap", b>> THEN "allocator-mismatch" ELSE "ok"
Free == \E b \in Brands :
    /\ Charge("heap")
    /\ IF FreeFault(Cur.val, b) # "ok" THEN Faults(FreeFault(Cur.val, b))
       ELSE /\ allocs' = [allocs EXCEPT ![Cur.val.v.target.id].state = "freed"]
            /\ Define(Val(Scalar(0)))
            /\ Goes /\ UNCHANGED <<nextSerial, nextTag, arenas, borrows, cells, hist>>

RegionEnter == \E g \in Regions :
    /\ Charge("arena") /\ nextTag < MaxTag
    /\ LET id == Len(allocs) + 1
           a == Len(arenas) + 1
       IN /\ NewObject([owner |-> <<"arena", a>>, state |-> "live", size |-> 0, cells |-> Blank(0)])
          /\ arenas' = Append(arenas, [gen |-> 0, bump |-> 0, data |-> id, region |-> g])
          /\ Define(Val(Ptr(ToArena(a, id), nextTag + 1, 0, 0, Handle)))
    /\ Goes /\ UNCHANGED <<nextSerial, cells, objects, owner, clobbered>>

\* region_exit closes the newest live arena its region entered
Entered(g) == {i \in DOMAIN arenas : arenas[i].region = g /\ allocs[arenas[i].data].state = "live"}
RegionExit == \E g \in Regions :
    /\ Charge("arena")
    /\ IF Entered(g) = {} THEN Faults("error type-mismatch")
       ELSE /\ allocs' = [allocs EXCEPT ![arenas[Largest(Entered(g))].data].state = "reset"]
            /\ Define(Val(Scalar(0)))
            /\ Goes /\ UNCHANGED <<nextSerial, nextTag, arenas, borrows, cells, hist>>

\* an operand that must be a live arena
ArenaOperandFault(s) ==
    IF SlotFault(s) # "ok" THEN SlotFault(s)
    ELSE IF ~IsPtr(s) THEN "error type-mismatch"
    ELSE IF s.v.target.k # "arena" THEN "error type-mismatch" ELSE ArenaFault(s.v.target.id)

GrownTo(a, n) == IF n <= a.size THEN a
                 ELSE [a EXCEPT !.size = n,
                                !.cells = [o \in 0..n - 1 |-> IF o < a.size THEN @[o] ELSE Uninit]]

ArenaAlloc == \E n \in Sizes \ {0} :
    /\ Charge("arena") /\ objects < MaxObjects
    /\ IF ArenaOperandFault(Cur.val) # "ok" THEN Faults(ArenaOperandFault(Cur.val))
       ELSE LET a == Cur.val.v.target.arena
                id == Cur.val.v.target.id
                off == arenas[a].bump
            IN IF off + n > MaxOff THEN Faults("error unrepresentable")
               ELSE /\ arenas' = [arenas EXCEPT ![a].bump = off + n]
                    /\ objects' = objects + 1
                    /\ allocs' = [allocs EXCEPT ![id] = GrownTo(@, off + n)]
                    /\ owner' = [c \in DOMAIN owner \cup ({id} \X (off..off + n - 1)) |->
                                    IF c \in {id} \X (off..off + n - 1) THEN NewBorn ELSE owner[c]]
                    /\ Define(Val(Ptr(ToArena(a, id), Cur.val.v.tag, arenas[a].gen, off, NewBorn)))
                    /\ Goes /\ UNCHANGED <<nextSerial, nextTag, borrows, cells, minted, clobbered>>

\* arena_deref: the generation is checked here, and the result is a plain pointer
ArenaDeref ==
    /\ Charge("arena")
    /\ LET s == Cur.val IN
       IF SlotFault(s) # "ok" THEN Faults(SlotFault(s))
       ELSE IF ~IsPtr(s) THEN Faults("error type-mismatch")
       ELSE IF ResolveDeref(s.v) # "ok" THEN Faults(ResolveDeref(s.v))
       ELSE IF s.v.target.k = "root" THEN Faults("error type-mismatch")
       ELSE /\ Define(Val([s.v EXCEPT !.target = ToAlloc(s.v.target.id), !.gen = 0]))
            /\ Goes /\ UNCHANGED <<nextSerial, nextTag, mem, hist>>

Forget(a) == [a EXCEPT !.cells = Blank(a.size)]
ArenaReset ==
    /\ Charge("arena")
    /\ IF ArenaOperandFault(Cur.val) # "ok" THEN Faults(ArenaOperandFault(Cur.val))
       ELSE LET a == Cur.val.v.target.arena
                id == Cur.val.v.target.id
            IN IF arenas[a].gen = MaxGen THEN Faults("trap arena-generation")
               ELSE /\ arenas' = [arenas EXCEPT ![a].gen = @ + 1, ![a].bump = 0]
                    /\ allocs' = [allocs EXCEPT ![id] = Forget(@)]
                    /\ Define(Val(Scalar(0)))
                    /\ Goes /\ UNCHANGED <<nextSerial, nextTag, borrows, cells, hist>>

\* agg_new of values, whose state is not looked at
AggNew ==
    /\ Charge("seq") /\ Len(cells) < MaxCells
    /\ cells' = Append(cells, [kind |-> "agg", slots |-> [i \in Roots |-> Cur.val]])
    /\ Define(Val(CellRef(Len(cells) + 1)))
    /\ Goes /\ UNCHANGED <<nextSerial, nextTag, allocs, arenas, borrows, hist>>

\* slice_range of the sequence in the value: never wider than its window
Fits(w, lo, hi) == lo <= hi /\ hi <= w.len
SliceRange == \E lo, hi \in 0..Cardinality(Roots) :
    /\ Charge("seq") /\ Len(cells) < MaxCells
    /\ LET s == Cur.val IN
       IF SlotFault(s) # "ok" THEN Faults(SlotFault(s))
       ELSE IF ~IsCell(s) THEN Faults("error type-mismatch")
       ELSE IF WindowFault(s.v.cell) # "ok" THEN Faults(WindowFault(s.v.cell))
       ELSE LET w == SeqWindow(s.v.cell) IN
            IF ~Fits(w, lo, hi) THEN Faults("trap bounds")
            ELSE /\ cells' = Append(cells, [kind |-> "slice",
                        slots |-> <<Val(Scalar(w.cell)), Val(Scalar(w.start + lo)), Val(Scalar(hi - lo))>>])
                 /\ Define(Val(CellRef(Len(cells) + 1)))
                 /\ Goes /\ UNCHANGED <<nextSerial, nextTag, allocs, arenas, borrows, hist>>

\* copy_from and init of an element of the sequence in a local (place [Index])
ReadElement == \E r \in Roots, i \in 0..Cardinality(Roots) :
    /\ Charge("seq")
    /\ IF ElementFault(r, i) # "ok" THEN Faults(ElementFault(r, i))
       ELSE LET e == Element(r, i)
                s == cells[e[1]].slots[e[2]]
            IN IF SlotFault(s) # "ok" THEN Faults(SlotFault(s))
               ELSE Define(s) /\ Goes /\ UNCHANGED <<nextSerial, nextTag, mem, hist>>
WriteElement == \E r \in Roots, i \in 0..Cardinality(Roots) :
    /\ Charge("seq")
    /\ IF SlotFault(Cur.val) # "ok" THEN Faults(SlotFault(Cur.val))
       ELSE IF ElementFault(r, i) # "ok" THEN Faults(ElementFault(r, i))
       ELSE LET e == Element(r, i) IN
            /\ cells' = [cells EXCEPT ![e[1]].slots[e[2]] = Cur.val]
            /\ borrows' = Written(RootKey(Top, r), ROOT_TAG)
            /\ clobbered' = Passed(ObjectOf(Top, r), ROOT_TAG)
            /\ Goes /\ UNCHANGED <<frames, nextSerial, nextTag, allocs, arenas, objects, owner, minted>>

Next == \/ StepBudget \/ Call \/ Return \/ Const \/ CopyFrom \/ MoveFrom \/ InitRoot
        \/ ReadThrough \/ WriteThrough \/ Borrow \/ Alloc \/ Free
        \/ RegionEnter \/ RegionExit \/ ArenaAlloc \/ ArenaDeref \/ ArenaReset
        \/ AggNew \/ SliceRange \/ ReadElement \/ WriteElement

Spec == Init /\ [][Next]_vars

-----------------------------------------------------------------------------
SlotsHeld ==
    (UNION {Range(f.roots) \cup {f.val} : f \in Range(frames)})
    \cup (UNION {Range(a.cells) : a \in Range(allocs)})
    \cup (UNION {Range(c.slots) : c \in Range(cells)})
PointersHeld == {s.v : s \in {s \in SlotsHeld : IsPtr(s)}}

\* Every value, pointer and borrow tag is of the shape the interpreter gives it,
\* and whatever a pointer names exists.
TypeOK ==
    /\ Len(frames) \in (IF fault = "none" THEN 1..MaxFrames ELSE {0})
    /\ Len(minted) = nextTag /\ clobbered \subseteq 1..nextTag
    /\ \A i, j \in DOMAIN frames : i < j => frames[i].serial < frames[j].serial
    /\ \A f \in Range(frames) : f.serial < nextSerial
    /\ \A a \in Range(allocs) : DOMAIN a.cells = 0..a.size - 1
    /\ \A a \in Range(arenas) : a.gen <= MaxGen /\ a.bump <= allocs[a.data].size
    /\ \A p \in PointersHeld :
          /\ p.tag \in 1..nextTag
          /\ CASE p.target.k = "root" -> p.target.serial < nextSerial
               [] p.target.k = "alloc" -> p.target.id \in DOMAIN allocs
               [] OTHER -> p.target.arena \in DOMAIN arenas /\ p.target.id = arenas[p.target.arena].data

\* mem.rs: a frame index is reused by the next call and an arena's bytes by the
\* next generation; a pointer that resolve_deref lets through must reach the very
\* activation or allocation it was made for, never the one now in its place.
\* (An arena handle is not a Ref, and the plain pointer arena_deref makes is for
\* immediate use: see StalePlainPointers.)  And a slice of a slice of a sequence
\* never reaches past the sequence: seq_window's own check never fires.
Reachable(p) == ResolveDeref(p) = "ok" /\ InBounds(p)
ReachesItsObject(p) ==
    IF p.target.k = "root" THEN ObjectOf(p.target.frame, p.target.root) = p.born
    ELSE owner[<<p.target.id, p.off>>] = p.born
Plain(p) == p.target.k = "alloc" /\ allocs[p.target.id].owner[1] = "arena"
SlicesStayInside == \A c \in DOMAIN cells : WindowFault(c) = "ok"
PointersReachTheirObject ==
    /\ \A p \in PointersHeld :
           Reachable(p) /\ p.born # Handle /\ ~Plain(p) => ReachesItsObject(p)
    /\ SlicesStayInside

\* ub.rs: what a compiled program would get wrong the interpreter names.  The same
\* for the plain pointers of arena_deref, which carry no generation.
StalePlainPointers ==
    \A p \in PointersHeld : Reachable(p) /\ p.born # Handle /\ Plain(p) => ReachesItsObject(p)

\* ub.rs, the borrow stack: a borrow through which an access is still accepted has
\* had nothing written past it - a shared one no write at all, a unique one no
\* write through the local itself or an older borrow.
BorrowsAreExclusive ==
    \A p \in PointersHeld :
        p.target.k = "root" /\ ResolveDeref(p) = "ok" /\ BorrowAllows(KeyOf(p), p.tag, "read")
            => p.tag \notin clobbered

=============================================================================
