-------------------------- MODULE NativeRunProofs --------------------------
(***************************************************************************)
(* One program through both engines, for every set of records and images,  *)
(* every capacity of a pipe and every deadline.  What each reader holds,   *)
(* followed by what is still in its pipe, is always the beginning of the   *)
(* stream the child has written; the rest is about who knows what when: a  *)
(* status that is not a timeout was taken from a child that had written    *)
(* everything, and the records are compared only after both readers saw    *)
(* the end of their pipe.                                                  *)
(***************************************************************************)
EXTENDS NativeRun, SequenceTheorems, TLAPS

Lines == STRING
Pcs == {"interp", "compile", "spawn", "poll", "elapsed", "kill", "wait", "join", "compare", "returned"}
TypeOK ==
    /\ interp \in Records
    /\ prog \in Behaviours
    /\ pc \in Pcs
    /\ child \in {"none", "running", "exited", "killed", "reaped"}
    /\ wrote \in [Streams -> Nat]
    /\ pipe \in [Streams -> Seq(Lines)]
    /\ read \in [Streams -> Seq(Lines)]
    /\ eof \in [Streams -> BOOLEAN]
    /\ clock \in 0..Deadline
    /\ status \in {"none", "timeout", prog.exit}
    /\ verdict \in Verdicts \cup {"none"}

\* Nothing is lost between the child and a reader.
Passed(s) == wrote[s] <= Len(prog[s]) /\ read[s] \o pipe[s] = SubSeq(prog[s], 1, wrote[s])
PipesHold == \A s \in Streams : Passed(s)

\* A child that ended by itself had written everything.
AllWritten == \A s \in Streams : wrote[s] = Len(prog[s])
EndsWhole == child = "exited" => AllWritten

\* A reader has returned only from the empty pipe of a child that is gone.
ReturnsAtEnd == \A s \in Streams : eof[s] => child \in {"exited", "killed", "reaped"} /\ pipe[s] = <<>>

\* The parent's place, and what the wait loop broke with.
Waits ==
    /\ pc \in {"interp", "compile", "spawn"} => child = "none"
    /\ pc \in {"poll", "elapsed"} => child \in {"running", "exited"}
    /\ pc \in {"kill", "wait"} => clock = Deadline
    /\ pc # "returned" => verdict = "none"
    /\ pc \in {"join", "compare"} => status # "none"
    /\ status # "none" => pc \in {"join", "compare", "returned"} /\ child = "reaped"
    /\ status = "timeout" => clock = Deadline
    /\ status \notin {"none", "timeout"} => status = prog.exit /\ AllWritten

\* Both readers have been joined, and what is compared is what they returned.
Joined == \A s \in Streams : eof[s]
TheRecord == [exit |-> status, stdout |-> read["stdout"], stderr |-> read["stderr"]]
Compares ==
    /\ pc = "compare" => Joined
    /\ pc = "returned" /\ status # "none" => Joined /\ verdict = Compare(interp, TheRecord)
    /\ pc = "returned" /\ status = "none" => verdict \in {"oracle-fail", "refused", "compile-panic", "spawn-fail"}

RunInv == TypeOK /\ PipesHold /\ EndsWhole /\ ReturnsAtEnd /\ Waits /\ Compares

-----------------------------------------------------------------------------
(* Streams.                                                                *)

\* A line written to a pipe lengthens what its reader will have by that line.
LEMMA WritingExtends ==
  ASSUME NEW S, NEW p \in Seq(S), NEW r \in Seq(S), NEW q \in Seq(S), NEW k \in Nat,
         k < Len(p), r \o q = SubSeq(p, 1, k)
  PROVE  /\ Append(q, p[k + 1]) \in Seq(S)
         /\ r \o Append(q, p[k + 1]) = SubSeq(p, 1, k + 1)
<1> DEFINE e == p[k + 1]
<1>1. e \in S
  OBVIOUS
<1> HIDE DEF e
<1>2. r \o Append(q, e) = Append(r \o q, e)
  BY <1>1
<1>3. Append(SubSeq(p, 1, k), p[k + 1]) = SubSeq(p, 1, k + 1)
  OBVIOUS
<1> QED
  BY <1>1, <1>2, <1>3 DEF e

\* A line read moves from the pipe to the reader and changes nothing else.
LEMMA ReadingMoves ==
  ASSUME NEW S, NEW r \in Seq(S), NEW q \in Seq(S), q # <<>>
  PROVE  /\ Append(r, Head(q)) \in Seq(S) /\ Tail(q) \in Seq(S)
         /\ Append(r, Head(q)) \o Tail(q) = r \o q
<1>1. Head(q) \in S /\ Tail(q) \in Seq(S)
  OBVIOUS
<1>2. <<Head(q)>> \o Tail(q) = q
  OBVIOUS
<1>3. Append(r, Head(q)) \o Tail(q) = r \o (<<Head(q)>> \o Tail(q))
  BY <1>1
<1> QED
  BY <1>1, <1>2, <1>3

\* What an image is.
LEMMA ImageType ==
  ASSUME TypeOK
  PROVE  /\ prog.exit \notin {"none", "timeout", "trap"}
         /\ \A s \in Streams : prog[s] \in Seq(Lines)
BY BehaviourAssumption DEF TypeOK, Behaviour, Streams, Lines

-----------------------------------------------------------------------------
(* The invariant holds at the start and every step keeps it.               *)

\* Nothing has been started or written.
LEMMA InitRunInv == Init => RunInv
<1> SUFFICES ASSUME Init PROVE RunInv
  OBVIOUS
<1> USE CapAssumption, BehaviourAssumption DEF Init
<1>1. TypeOK
  BY DEF TypeOK, Pcs
<1>2. PipesHold
  BY <1>1, ImageType DEF PipesHold, Passed
<1>3. EndsWhole /\ ReturnsAtEnd
  BY DEF EndsWhole, ReturnsAtEnd
<1>4. Waits
  BY DEF Waits
<1>5. Compares
  BY DEF Compares
<1> QED
  BY <1>1, <1>2, <1>3, <1>4, <1>5 DEF RunInv

\* compare answers one of the verdicts.
LEMMA CompareAnswers == \A i, n : Compare(i, n) \in {"ok", "mismatch", "signal", "timeout", "oracle-fail"}
BY DEF Compare

\* The parent's steps leave the streams alone; each keeps what the parent
\* knows about the child and the readers.
LEMMA ParentKeeps ==
  ASSUME RunInv, Parent
  PROVE  RunInv'
<1> USE CapAssumption DEF RunInv
<1>0. /\ UNCHANGED <<interp, prog, wrote, pipe, read, eof, clock>>
      /\ child' = "exited" => child = "exited"
      /\ child \in {"exited", "killed", "reaped"} => child' \in {"exited", "killed", "reaped"}
  BY DEF Parent, Interpret, Compile, Spawn, PollEnded, PollRunning, PollError, Elapsed, Kill, Wait, Join,
         CompareRecords, Return, os, Waits
<1>1. TypeOK'
  <2>1. pc' \in Pcs
    BY DEF Parent, Interpret, Compile, Spawn, PollEnded, PollRunning, PollError, Elapsed, Kill, Wait, Join,
           CompareRecords, Return, os, TypeOK, Pcs
  <2>2. child' \in {"none", "running", "exited", "killed", "reaped"}
    BY DEF Parent, Interpret, Compile, Spawn, PollEnded, PollRunning, PollError, Elapsed, Kill, Wait, Join,
           CompareRecords, Return, os, TypeOK
  <2>3. status' \in {"none", "timeout", prog'.exit}
    BY DEF Parent, Interpret, Compile, Spawn, PollEnded, PollRunning, PollError, Elapsed, Kill, Wait,
           Join, CompareRecords, Return, os, TypeOK
  <2>4. verdict' \in Verdicts \cup {"none"}
    BY CompareAnswers DEF Parent, Interpret, Compile, Spawn, PollEnded, PollRunning, PollError, Elapsed, Kill, Wait,
           Join, CompareRecords, Return, os, TypeOK, Verdicts
  <2> QED
    BY <1>0, <2>1, <2>2, <2>3, <2>4 DEF TypeOK
<1>2. PipesHold'
  BY <1>0 DEF PipesHold, Passed
<1>3. EndsWhole'
  BY <1>0 DEF EndsWhole, AllWritten
<1>4. ReturnsAtEnd'
  BY <1>0 DEF ReturnsAtEnd
<1>5. Waits' /\ Compares'
  <2>1. CASE Interpret
    BY <2>1, <1>0 DEF Interpret, Return, os, Waits, Compares
  <2>2. CASE Compile
    BY <2>2, <1>0 DEF Compile, Return, os, Waits, Compares
  <2>3. CASE Spawn
    BY <2>3, <1>0 DEF Spawn, Return, Waits, Compares
  <2>4. CASE PollEnded
    BY <2>4, <1>0, ImageType DEF PollEnded, Waits, Compares, EndsWhole, AllWritten
  <2>5. CASE PollRunning
    BY <2>5, <1>0 DEF PollRunning, os, Waits, Compares
  <2>6. CASE PollError
    BY <2>6, <1>0 DEF PollError, Return, os, Waits, Compares
  <2>7. CASE Elapsed
    BY <2>7, <1>0 DEF Elapsed, os, Waits, Compares, TypeOK
  <2>8. CASE Kill
    BY <2>8, <1>0 DEF Kill, Waits, Compares
  <2>9. CASE Wait
    BY <2>9, <1>0 DEF Wait, Waits, Compares
  <2>10. CASE Join
    BY <2>10, <1>0 DEF Join, os, Waits, AllWritten, Compares, Joined
  <2>11. CASE CompareRecords
    <3>1. Joined' /\ TheRecord' = TheRecord
      BY <2>11, <1>0 DEF CompareRecords, Compares, Joined, TheRecord, os
    <3>2. pc' = "returned" /\ verdict' = Compare(interp, TheRecord)' /\ status' = status /\ child' = child
      BY <2>11, <1>0, <3>1 DEF CompareRecords, Return, TheRecord, os
    <3>3. Waits'
      BY <2>11, <3>2, <1>0 DEF CompareRecords, Waits, AllWritten
    <3> QED
      BY <2>11, <3>1, <3>2, <3>3 DEF CompareRecords, Compares, Waits
  <2> QED
    BY <2>1, <2>2, <2>3, <2>4, <2>5, <2>6, <2>7, <2>8, <2>9, <2>10, <2>11 DEF Parent
<1> QED
  BY <1>1, <1>2, <1>3, <1>4, <1>5

\* A line of the child.  A running child has no status yet and no reader has
\* returned.
LEMMA ChildWriteKeeps ==
  ASSUME RunInv, NEW s \in Streams, ChildWrite(s)
  PROVE  RunInv'
<1> USE DEF RunInv
<1>0. prog[s] \in Seq(Lines) /\ wrote[s] \in Nat /\ pipe[s] \in Seq(Lines) /\ read[s] \in Seq(Lines)
  BY ImageType DEF TypeOK
<1>1. /\ Append(pipe[s], prog[s][wrote[s] + 1]) \in Seq(Lines)
      /\ read[s] \o Append(pipe[s], prog[s][wrote[s] + 1]) = SubSeq(prog[s], 1, wrote[s] + 1)
  <2>1. wrote[s] < Len(prog[s]) /\ read[s] \o pipe[s] = SubSeq(prog[s], 1, wrote[s])
    BY DEF ChildWrite, PipesHold, Passed
  <2> DEFINE p == prog[s]
             r == read[s]
             q == pipe[s]
             k == wrote[s]
  <2>2. p \in Seq(Lines) /\ r \in Seq(Lines) /\ q \in Seq(Lines) /\ k \in Nat /\ k < Len(p) /\ r \o q = SubSeq(p, 1, k)
    BY <1>0, <2>1
  <2> HIDE DEF p, r, q, k
  <2>3. Append(q, p[k + 1]) \in Seq(Lines) /\ r \o Append(q, p[k + 1]) = SubSeq(p, 1, k + 1)
    BY <2>2, WritingExtends
  <2> QED
    BY <2>3 DEF p, r, q, k
<1>2. TypeOK'
  BY <1>0, <1>1 DEF TypeOK, ChildWrite
<1>3. PipesHold'
  <2> SUFFICES ASSUME NEW t \in Streams PROVE Passed(t)'
    BY DEF PipesHold
  <2>1. CASE t = s
    <3>1. /\ wrote'[s] = wrote[s] + 1 /\ wrote[s] + 1 <= Len(prog[s]) /\ prog' = prog /\ read' = read
          /\ pipe'[s] = Append(pipe[s], prog[s][wrote[s] + 1])
      BY <1>0 DEF ChildWrite, TypeOK
    <3> QED
      BY <2>1, <3>1, <1>1 DEF Passed
  <2>2. CASE t # s
    BY <2>2 DEF ChildWrite, PipesHold, Passed, TypeOK
  <2> QED
    BY <2>1, <2>2
<1>4. EndsWhole' /\ ReturnsAtEnd'
  BY DEF ChildWrite, EndsWhole, ReturnsAtEnd
<1>5. status = "none" /\ UNCHANGED <<interp, prog, pc, child, eof, clock, status, verdict>>
  BY DEF ChildWrite, Waits
<1>6. Waits' /\ Compares'
  BY <1>5 DEF Waits, Compares, Joined
<1> QED
  BY <1>2, <1>3, <1>4, <1>6

\* The end of the child.
LEMMA ChildEndsKeeps ==
  ASSUME RunInv, ChildEnds
  PROVE  RunInv'
<1> USE DEF RunInv
<1>1. TypeOK' /\ PipesHold'
  BY DEF TypeOK, ChildEnds, PipesHold, Passed
<1>2. EndsWhole' /\ ReturnsAtEnd'
  BY DEF ChildEnds, EndsWhole, AllWritten, ReturnsAtEnd
<1>3. status = "none" /\ UNCHANGED <<interp, prog, pc, wrote, eof, clock, status, verdict>>
  BY DEF ChildEnds, Waits
<1>4. Waits' /\ Compares'
  BY <1>3 DEF ChildEnds, Waits, Compares, Joined
<1> QED
  BY <1>1, <1>2, <1>4

\* A line read.  Its reader has not returned, so nothing has been compared.
LEMMA ReadLineKeeps ==
  ASSUME RunInv, NEW s \in Streams, ReadLine(s)
  PROVE  RunInv'
<1> USE DEF RunInv
<1>0. pipe[s] \in Seq(Lines) /\ read[s] \in Seq(Lines)
  BY DEF TypeOK
<1>1. /\ Append(read[s], Head(pipe[s])) \in Seq(Lines) /\ Tail(pipe[s]) \in Seq(Lines)
      /\ Append(read[s], Head(pipe[s])) \o Tail(pipe[s]) = read[s] \o pipe[s]
  BY <1>0, ReadingMoves DEF ReadLine
<1>2. TypeOK'
  BY <1>0, <1>1 DEF TypeOK, ReadLine
<1>3. PipesHold'
  <2> SUFFICES ASSUME NEW t \in Streams PROVE Passed(t)'
    BY DEF PipesHold
  <2>1. CASE t = s
    BY <2>1, <1>0, <1>1 DEF ReadLine, PipesHold, Passed, TypeOK
  <2>2. CASE t # s
    BY <2>2 DEF ReadLine, PipesHold, Passed, TypeOK
  <2> QED
    BY <2>1, <2>2
<1>4. EndsWhole' /\ ReturnsAtEnd'
  BY DEF ReadLine, EndsWhole, AllWritten, ReturnsAtEnd, TypeOK
<1>5. ~Joined /\ UNCHANGED <<interp, prog, pc, child, wrote, eof, clock, status, verdict>>
  BY DEF ReadLine, Joined
<1>6. Waits'
  BY <1>5 DEF Waits, AllWritten
<1>7. Compares'
  BY <1>5 DEF Compares, Joined
<1> QED
  BY <1>2, <1>3, <1>4, <1>6, <1>7

\* The end of a pipe.
LEMMA ReadEndKeeps ==
  ASSUME RunInv, NEW s \in Streams, ReadEnd(s)
  PROVE  RunInv'
<1> USE DEF RunInv
<1>1. TypeOK' /\ PipesHold'
  BY DEF TypeOK, ReadEnd, PipesHold, Passed
<1>2. EndsWhole' /\ ReturnsAtEnd'
  BY DEF ReadEnd, EndsWhole, AllWritten, ReturnsAtEnd, TypeOK
<1>3. ~Joined /\ UNCHANGED <<interp, prog, pc, child, wrote, read, clock, status, verdict>>
  BY DEF ReadEnd, Joined
<1>4. Waits'
  BY <1>3 DEF Waits, AllWritten
<1>5. Compares'
  BY <1>3 DEF Compares
<1> QED
  BY <1>1, <1>2, <1>4, <1>5

\* Time.
LEMMA TickKeeps ==
  ASSUME RunInv, Tick
  PROVE  RunInv'
<1> USE CapAssumption DEF RunInv
<1>1. TypeOK' /\ PipesHold' /\ EndsWhole' /\ ReturnsAtEnd'
  BY DEF TypeOK, Tick, os, PipesHold, Passed, EndsWhole, AllWritten, ReturnsAtEnd
<1>2. Waits'
  BY DEF Tick, os, Waits, AllWritten
<1>3. Compares'
  BY DEF Tick, os, Compares, Joined, TheRecord
<1> QED
  BY <1>1, <1>2, <1>3

\* The inductive invariant of a run of check_with.
THEOREM RunInvariant == Spec => []RunInv
<1>1. RunInv /\ [Next]_vars => RunInv'
  <2> SUFFICES ASSUME RunInv, [Next]_vars PROVE RunInv'
    OBVIOUS
  <2>1. CASE Parent
    BY <2>1, ParentKeeps
  <2>2. CASE Child
    BY <2>2, ChildEndsKeeps, ChildWriteKeeps DEF Child
  <2>3. CASE Tick
    BY <2>3, TickKeeps
  <2>4. ASSUME NEW s \in Streams, Reader(s) PROVE RunInv'
    BY <2>4, ReadLineKeeps, ReadEndKeeps DEF Reader
  <2>5. CASE UNCHANGED vars
    BY <2>5 DEF vars, RunInv, TypeOK, PipesHold, Passed, EndsWhole, AllWritten, ReturnsAtEnd, Waits, Compares,
                Joined, TheRecord
  <2> QED
    BY <2>1, <2>2, <2>3, <2>4, <2>5 DEF Next
<1> QED
  BY InitRunInv, <1>1, PTL DEF Spec

-----------------------------------------------------------------------------
(* What the verdict says.                                                  *)

\* After both readers have returned, a status that is not a timeout comes with
\* everything the image writes.
LEMMA RecordIsWhole ==
  ASSUME RunInv, Joined, status \notin {"none", "timeout"}
  PROVE  TheRecord = [exit |-> prog.exit, stdout |-> prog.stdout, stderr |-> prog.stderr]
<1>1. ASSUME NEW s \in Streams PROVE read[s] = prog[s]
  <2>1. pipe[s] = <<>> /\ wrote[s] = Len(prog[s])
    BY DEF RunInv, Joined, ReturnsAtEnd, Waits, AllWritten
  <2>2. prog[s] \in Seq(Lines) /\ read[s] \in Seq(Lines)
    BY ImageType DEF RunInv, TypeOK
  <2>3. read[s] \o <<>> = SubSeq(prog[s], 1, Len(prog[s]))
    BY <2>1 DEF RunInv, PipesHold, Passed
  <2> QED
    BY <2>2, <2>3
<1> QED
  BY <1>1 DEF TheRecord, RunInv, Waits, Streams

\* An "ok" is given only to an image that does what was recorded, and a
\* faithful image whose record was compared is ok or late (check_with).
THEOREM VerdictsAreRight == Spec => []OkExactlyIfFaithful
<1>1. RunInv => OkExactlyIfFaithful
  <2> SUFFICES ASSUME RunInv PROVE OkExactlyIfFaithful
    OBVIOUS
  <2>0. prog.exit \notin {"none", "timeout", "trap"}
    BY ImageType DEF RunInv
  <2>1. verdict = "ok" => Faithful
    <3> SUFFICES ASSUME verdict = "ok" PROVE Faithful
      OBVIOUS
    <3>1. Joined /\ status # "none" /\ Compare(interp, TheRecord) = "ok"
      BY DEF RunInv, Waits, Compares
    <3>2. status # "timeout"
      BY <3>1 DEF Compare, TheRecord
    <3>3. TheRecord = [exit |-> prog.exit, stdout |-> prog.stdout, stderr |-> prog.stderr]
      BY <3>1, <3>2, RecordIsWhole
    <3> QED
      BY <3>1, <3>3, <2>0 DEF Compare, Faithful
  <2>2. ASSUME Faithful, interp.exit # "ub", status # "none", pc = "returned"
        PROVE  verdict = "ok" \/ (verdict = "timeout" /\ clock = Deadline)
    <3>1. Joined /\ verdict = Compare(interp, TheRecord)
      BY <2>2 DEF RunInv, Compares
    <3>2. CASE status = "timeout"
      BY <3>1, <3>2, <2>2 DEF Compare, TheRecord, RunInv, Waits
    <3>3. CASE status # "timeout"
      <4>1. TheRecord = [exit |-> prog.exit, stdout |-> prog.stdout, stderr |-> prog.stderr]
        BY <3>1, <3>3, <2>2, RecordIsWhole
      <4> QED
        BY <3>1, <4>1, <2>0, <2>2 DEF Compare, Faithful
    <3> QED
      BY <3>2, <3>3
  <2> QED
    BY <2>1, <2>2 DEF OkExactlyIfFaithful
<1> QED
  BY RunInvariant, <1>1, PTL

=============================================================================
