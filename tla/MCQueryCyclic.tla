--------------------------- MODULE MCQueryCyclic ---------------------------
(***************************************************************************)
(* A query set whose reads depend on what it has read.  `mode` copies the  *)
(* input.  When it is 0, b reads a; when it is 1, a reads b; in neither    *)
(* case is there a cycle.  When it is 2 each reads the other, like the     *)
(* ring of db.rs's own cycle test.                                         *)
(***************************************************************************)
EXTENDS QueryEngine, TLC

CONSTANTS in, mode, a, b

MCInputs == {in}
MCDerived == {mode, a, b}
MCValues == 0..2

Unread(k, s) == IF k \in DOMAIN s THEN Done ELSE k

\* Does n, having read that the mode is m, read the other one?
ReadsOther(n, m) == (n = a /\ m \in {1, 2}) \/ (n = b /\ m \in {0, 2})
Other(n) == IF n = a THEN b ELSE a

MCNextRead(n, s) ==
    IF n = mode THEN Unread(in, s)
    ELSE IF mode \notin DOMAIN s THEN mode
    ELSE IF ReadsOther(n, s[mode]) THEN Unread(Other(n), s) ELSE Done

MCResult(n, s) ==
    IF n = mode THEN IF in \in DOMAIN s THEN s[in] ELSE 0
    ELSE IF Other(n) \in DOMAIN s THEN (s[Other(n)] + 1) % 3 ELSE 1

MCOnCycle(n) == 0

-----------------------------------------------------------------------------
\* What a fresh database answers when n is the first key demanded: `path`
\* holds the keys in flight.
RECURSIVE DemandedFirst(_, _, _), FirstRun(_, _, _)
DemandedFirst(k, i, path) ==
    CASE k \in Inputs -> i
      [] k \in path -> OnCycle(k)
      [] OTHER -> FirstRun(k, i, <<EmptySeen, path \cup {k}>>)
FirstRun(n, i, run) ==
    LET k == NextRead(n, run[1]) IN
    IF k = Done THEN Result(n, run[1])
    ELSE FirstRun(n, i, <<(k :> DemandedFirst(k, i, run[2])) @@ run[1], run[2]>>)

Cold(n) == DemandedFirst(n, value[in], {})

\* Every public call comes back, also when the reads go round in a circle.
CallReturns == (goal # Idle) ~> (goal = Idle)

\* cycle.rs and fors_check's on_cycle say that a cycle's answer does not
\* depend on the key demanded first: then a memoised member of a cycle would
\* hold the value it has when it is the first one demanded.
CycleOrderFree ==
    value[in] = 2 =>
        \A n \in Derived : UpToDate(n) => value[n] = Cold(n)

\* The design says that output is byte-identical cold or after an edit: with
\* no cycle among the present inputs, a stamped node holds its cold value.
WarmEqualsCold ==
    value[in] # 2 =>
        \A n \in Derived : UpToDate(n) => value[n] = Cold(n)
=============================================================================
