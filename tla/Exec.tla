-------------------------------- MODULE Exec --------------------------------
(***************************************************************************)
(* The interpreter's machine over lowered functions (fors-interp exec.rs): *)
(* frames, the destination each call's result goes to, and the stack of    *)
(* exit edges a frame is in the middle of.  One step is one turn of drive: *)
(* an instruction, or a terminator together with what it starts.           *)
(* Aggregates are cells shared by handle, as the machine keeps them; the   *)
(* memory rules behind pointers are the subject of InterpMemory.           *)
(***************************************************************************)
EXTENDS Integers, Sequences, SequencesExt, FiniteSets

CONSTANTS MaxInt,     \* the greatest integer: an addition past it traps
          MaxFrames   \* how deep calls may nest

BODY_END == -1
NONE == 0
Empty == [st |-> "none", n |-> 0, fr |-> 0, root |-> 0]
Num(n) == [Empty EXCEPT !.st = "num", !.n = n]
Pointer(fr, root) == [Empty EXCEPT !.st = "ptr", !.fr = fr, !.root = root]
UnitSlot == Num(0)

\* call: a frame whose first slots are the arguments
Frame(fns, f, args) ==
    [fn |-> f, vals |-> [i \in 1..Len(fns[f].code) |-> Empty], roots |-> args, block |-> 1, pc |-> 0,
     exits |-> <<>>, raised |-> FALSE]
Machine(fns, args) == [frames |-> <<Frame(fns, "main", args)>>, dest |-> <<0>>, cells |-> <<>>, out |-> <<>>, end |-> "", v |-> 0]
Top(m) == Len(m.frames)
Cur(m) == m.frames[Top(m)]
Settle(m, end, v) == [m EXCEPT !.end = end, !.v = v]

Define(m, fr, d, s) == IF d = 0 THEN m ELSE [m EXCEPT !.frames[fr].vals[d] = s]
SlotOf(m, v) == Cur(m).vals[v]
RootSlot(roots, r) == IF r \in DOMAIN roots THEN roots[r] ELSE Empty
Grown(roots, r, s) == [i \in 1..(IF r > Len(roots) THEN r ELSE Len(roots)) |->
                          IF i = r THEN s ELSE IF i \in DOMAIN roots THEN roots[i] ELSE Empty]
SetRoot(m, fr, r, s) == [m EXCEPT !.frames[fr].roots = Grown(@, r, s)]

-----------------------------------------------------------------------------
(* Places: a root, behind a pointer, a field or an element of it           *)

Base(m, p) == RootSlot(Cur(m).roots, p.root)
ReadPlace(m, p) ==
    IF p.segs = <<>> THEN Base(m, p)
    ELSE LET ptr == Base(m, p) IN RootSlot(m.frames[ptr.fr].roots, ptr.root) \* [Deref]
InBounds(m, cell, i) == i >= 0 /\ i < Len(m.cells[cell])
WritePlace(m, p, s) ==
    IF p.segs = <<>> THEN SetRoot(m, Top(m), p.root, s)
    ELSE LET seg == p.segs[1] b == Base(m, p) IN
         CASE seg.s = "deref" -> SetRoot(m, b.fr, b.root, s)
           [] seg.s = "field" -> [m EXCEPT !.cells[b.n][seg.i] = s]
           [] seg.s = "index" -> LET i == SlotOf(m, seg.i).n IN
                IF InBounds(m, b.n, i) THEN [m EXCEPT !.cells[b.n][i + 1] = s] ELSE Settle(m, "trap", 0)

-----------------------------------------------------------------------------
(* Instructions                                                            *)

Here(fns, m) == fns[Cur(m).fn]
BlockRow(fns, m) == Here(fns, m).blocks[Cur(m).block]
AtInst(fns, m) == Cur(m).pc < BlockRow(fns, m).len
At(fns, m) == BlockRow(fns, m).first + Cur(m).pc + 1
InstAt(fns, m) == Here(fns, m).code[At(fns, m)]
Advance(m) == [m EXCEPT !.frames[Top(m)].pc = @ + 1]

Bool(b) == Num(IF b THEN 1 ELSE 0)
Arith(op, a, b) ==
    CASE op = "add" -> a + b [] op = "sub" -> a - b
      [] op = "lt" -> Bool(a < b).n [] op = "eq" -> Bool(a = b).n
      [] op = "and" -> Bool(a # 0 /\ b # 0).n [] op = "or" -> Bool(a # 0 \/ b # 0).n
ArithOps == {"add", "sub", "lt", "eq", "and", "or"}

Cells(i, d) == CASE i.op = "field" -> i.b [] i.op = "discr" -> 1 [] i.op = "payload" -> i.b + 1 [] i.op = "index" -> d + 1
\* the operands an instruction reads must be defined
Operands(i) ==
    CASE i.op \in ArithOps \cup {"index"} -> {i.a, i.b}
      [] i.op \in {"not", "field", "discr", "payload", "write", "check"} -> {i.a}
      [] i.op = "init" -> {i.v}
      [] i.op \in {"agg", "call"} -> Range(i.args)
      [] OTHER -> {}
ReadsUndefined(m, i) ==
    \/ \E v \in Operands(i) : SlotOf(m, v).st = "none"
    \/ i.op = "copy" /\ ReadPlace(m, i.place).st = "none"

ExecArith(m, d, i) ==
    LET r == Arith(i.op, SlotOf(m, i.a).n, SlotOf(m, i.b).n)
    IN IF r > MaxInt \/ r < 0 THEN Settle(m, "trap", 0) ELSE Define(m, Top(m), d, Num(r))
ExecProject(m, d, i) ==
    LET c == SlotOf(m, i.a).n at == Cells(i, IF i.op = "index" THEN SlotOf(m, i.b).n ELSE 0)
    IN IF at \in DOMAIN m.cells[c] THEN Define(m, Top(m), d, m.cells[c][at]) ELSE Settle(m, "trap", 0)
ExecAgg(m, d, i) ==
    Define([m EXCEPT !.cells = Append(@, [j \in DOMAIN i.args |-> SlotOf(m, i.args[j])])],
           Top(m), d, Num(Len(m.cells) + 1))
Call(fns, m, d, f, args) ==
    IF Top(m) >= MaxFrames THEN Settle(m, "overflow", 0)
    ELSE [m EXCEPT !.frames = Append(@, Frame(fns, f, args)), !.dest = Append(@, d)]
ExecInst(fns, m, d, i) ==
    CASE i.op = "const" -> Define(m, Top(m), d, Num(i.a))
      [] i.op \in ArithOps -> ExecArith(m, d, i)
      [] i.op = "not" -> Define(m, Top(m), d, Bool(SlotOf(m, i.a).n = 0))
      [] i.op \in {"field", "discr", "payload", "index"} -> ExecProject(m, d, i)
      [] i.op = "agg" -> ExecAgg(m, d, i)
      [] i.op = "copy" -> Define(m, Top(m), d, ReadPlace(m, i.place))
      [] i.op = "init" -> WritePlace(m, i.place, SlotOf(m, i.v))
      [] i.op = "borrowmut" -> Define(m, Top(m), d, Pointer(Top(m), i.root))
      [] i.op = "write" -> Define([m EXCEPT !.out = Append(@, SlotOf(m, i.a).n)], Top(m), d, UnitSlot)
      [] i.op = "check" -> IF SlotOf(m, i.a).n = 0 THEN Settle(m, "contract", 0) ELSE m
      [] i.op = "enter" -> Define(m, Top(m), d, UnitSlot)
      [] i.op = "exit" -> m
      [] i.op = "call" -> Call(fns, m, d, i.f, [j \in DOMAIN i.args |-> SlotOf(m, i.args[j])])
\* step_frame, an instruction: the counter moves before it runs
StepInst(fns, m) ==
    IF ReadsUndefined(m, InstAt(fns, m)) THEN Settle(m, "ub", 0)
    ELSE ExecInst(fns, Advance(m), At(fns, m), InstAt(fns, m))

-----------------------------------------------------------------------------
(* Terminators and exit edges                                              *)

Goto(m, b) == [m EXCEPT !.frames[Top(m)].block = b, !.frames[Top(m)].pc = 0]
Edge(fns, m, from, to) ==
    LET es == Here(fns, m).exits hits == {i \in DOMAIN es : es[i].from = from /\ es[i].to = to}
    IN IF hits = {} THEN 0 ELSE CHOOSE i \in hits : \A j \in hits : i <= j
PopFrame(m) == [m EXCEPT !.frames = SubSeq(@, 1, Len(@) - 1), !.dest = SubSeq(@, 1, Len(@) - 1)]

\* drive: a frame is done; its result goes to the caller, an error only to a
\* caller that stands at a try_br
Return(m, v) ==
    IF Top(m) = 1 THEN Settle(m, "return", v.n) ELSE LET q == PopFrame(m) IN Define(q, Top(q), Last(m.dest), v)
AtTryBr(fns, m) == ~AtInst(fns, m) /\ BlockRow(fns, m).term.op = "trybr"
Raise(fns, m, v) ==
    IF Top(m) = 1 THEN Settle(m, "raise", v.n)
    ELSE LET q == PopFrame(m) IN
         IF ~AtTryBr(fns, q) THEN Settle(m, "unhandled", 0)
         ELSE [Define(q, Top(q), Last(m.dest), v) EXCEPT !.frames[Top(q)].raised = TRUE]
FinishTransfer(fns, m, to, v, raising) ==
    IF to # NONE THEN Goto(m, to) ELSE IF raising THEN Raise(fns, m, v) ELSE Return(m, v)

\* check_obligations: what the scopes left owe is discharged on the edge
Leaks(fns, m, edge) ==
    {Here(fns, m).scopes[s].owed : s \in Range(edge.scopes)} \ ({0} \cup edge.discharges)
\* advance_exit: the next body of the innermost exit under way, or its end
AdvanceExit(fns, m) ==
    LET run == Last(Cur(m).exits)
        edge == Here(fns, m).exits[run.edge]
        rest == [m EXCEPT !.frames[Top(m)].exits = SubSeq(@, 1, Len(@) - 1)]
    IN IF run.done < Len(edge.pending)
       THEN LET d == Here(fns, m).defers[edge.pending[run.done + 1]] IN
            IF d.kind = "errdefer" /\ edge.kind = "normal" THEN Settle(m, "malformed", 0)
            ELSE Goto([m EXCEPT !.frames[Top(m)].exits[Len(Cur(m).exits)].done = @ + 1], d.body)
       ELSE IF Leaks(fns, m, edge) # {} THEN Settle(m, "ub", 0)
       ELSE FinishTransfer(fns, rest, run.resume, run.result, run.raising)
BeginExitOrGoto(fns, m, to, v, raising) ==
    LET e == Edge(fns, m, Cur(m).block, to)
        run == [edge |-> e, done |-> 0, resume |-> to, result |-> v, raising |-> raising]
    IN IF e = 0 THEN FinishTransfer(fns, m, to, v, raising)
       ELSE AdvanceExit(fns, [m EXCEPT !.frames[Top(m)].exits = Append(@, run)])

SwitchTarget(t, n) ==
    LET hits == {i \in DOMAIN t.c : t.c[i].value = n}
    IN IF hits = {} THEN t.b ELSE t.c[CHOOSE i \in hits : \A j \in hits : i <= j].target
\* exec_term
ExecBr(fns, m, t) == IF t.a = BODY_END THEN AdvanceExit(fns, m) ELSE BeginExitOrGoto(fns, m, t.a, UnitSlot, FALSE)
ExecCondBr(fns, m, t) == BeginExitOrGoto(fns, m, IF SlotOf(m, t.a).n # 0 THEN t.b ELSE t.c, UnitSlot, FALSE)
ExecSwitch(fns, m, t) == BeginExitOrGoto(fns, m, SwitchTarget(t, SlotOf(m, t.a).n), UnitSlot, FALSE)
ExecTryBr(fns, m, t) ==
    BeginExitOrGoto(fns, [m EXCEPT !.frames[Top(m)].raised = FALSE], IF Cur(m).raised THEN t.c ELSE t.b, UnitSlot, FALSE)
ExecRet(fns, m, t) ==
    BeginExitOrGoto(fns, m, NONE, IF t.a = 0 THEN UnitSlot ELSE SlotOf(m, t.a), t.op = "raise")
StepTerm(fns, m) ==
    LET t == BlockRow(fns, m).term IN
    CASE t.op = "br" -> ExecBr(fns, m, t)
      [] t.op = "condbr" -> ExecCondBr(fns, m, t)
      [] t.op = "switch" -> ExecSwitch(fns, m, t)
      [] t.op = "trybr" -> ExecTryBr(fns, m, t)
      [] t.op \in {"ret", "raise"} -> ExecRet(fns, m, t)
      [] t.op = "unreachable" -> Settle(m, "unreachable", 0)

=============================================================================
