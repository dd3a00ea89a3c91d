--------------------------- MODULE MCQueryAcyclic ---------------------------
(***************************************************************************)
(* A small layered query set for TLC.  `flag` is x; `pick` reads y only    *)
(* when the flag is up, so its dependencies differ from run to run, and an *)
(* edit of x while y is 0 is cut off there; `sum` reads y and then pick.   *)
(* A history variable keeps the input values of every revision so far.     *)
(***************************************************************************)
EXTENDS QueryAcyclic, TLC

CONSTANTS x, y, flag, pick, sum

VARIABLE inputsAt

MCInputs == {x, y}
MCDerived == {flag, pick, sum}
MCValues == 0..1
MCRank == (x :> 0) @@ (y :> 0) @@ (flag :> 1) @@ (pick :> 2) @@ (sum :> 3)

\* The first key of the sequence that has not been read.
FirstUnread(ks, s) ==
    IF \A i \in 1..Len(ks) : ks[i] \in DOMAIN s THEN Done
    ELSE ks[CHOOSE i \in 1..Len(ks) :
                /\ ks[i] \notin DOMAIN s
                /\ \A j \in 1..(i - 1) : ks[j] \in DOMAIN s]

MCNextRead(n, s) ==
    CASE n = flag -> FirstUnread(<<x>>, s)
      [] n = pick -> IF flag \in DOMAIN s /\ s[flag] = 1
                     THEN FirstUnread(<<flag, y>>, s)
                     ELSE FirstUnread(<<flag>>, s)
      [] n = sum -> FirstUnread(<<y, pick>>, s)

Got(s, k) == IF k \in DOMAIN s THEN s[k] ELSE 0

MCResult(n, s) ==
    CASE n = flag -> Got(s, x)
      [] n = pick -> Got(s, y)
      [] n = sum -> (Got(s, y) + Got(s, pick)) % 2

MCOnCycle(n) == 0

\* The bound on where exploration starts: x and then y are first set to 0.
\* Every other assignment is one or two edits away.
StartFromZero ==
    /\ id[y] # 0 => id[x] # 0
    /\ rev <= 2 => \A k \in Inputs : value[k] = 0
    /\ rev = 2 => InputsSet

-----------------------------------------------------------------------------
\* The reference definition: what a fresh database would compute.
RECURSIVE Cold(_, _), ColdRun(_, _, _)
Cold(k, in) == IF k \in Inputs THEN in[k] ELSE ColdRun(k, in, EmptySeen)
ColdRun(n, in, s) ==
    LET k == NextRead(n, s) IN
    IF k = Done THEN Result(n, s)
    ELSE ColdRun(n, in, (k :> Cold(k, in)) @@ s)

InputValues == [k \in Inputs |-> value[k]]

Remember == inputsAt' = IF rev' # rev THEN Append(inputsAt, InputValues') ELSE inputsAt

MCSpec ==
    /\ Init /\ inputsAt = <<>>
    /\ [][Next /\ Remember]_<<vars, inputsAt>>
    /\ WF_vars(Engine)

\* The recursion above is the only cold build of its inputs.
ASSUME ColdIsColdBuild ==
    /\ Cardinality(ColdBuilds) = Cardinality([Inputs -> Values])
    /\ \A in \in [Inputs -> Values] :
           [inputs |-> in, answers |-> [k \in Keys |-> Cold(k, in)]] \in ColdBuilds

\* A node is re-executed only when something it read has had another value
\* since it was last found up to date: a change that is cut off further down
\* (a recomputed dependency with its old value) wakes nobody, and neither
\* does a probe, a cancelled demand or an edit elsewhere (db.rs: verify's
\* comparison and execute's early cutoff).
NoNeedlessWork ==
    [][\A n \in Derived :
          ( /\ state[n] = "Valid"
            /\ stack # <<>> /\ Top.node = n /\ Top.mode = "verify"
            /\ stack' # <<>> /\ Top'.node = n /\ Top'.mode = "execute")
          => \E d \in Deps(n), r \in verifiedAt[n]..rev :
                 Cold(d, inputsAt[r]) # reads[n][d]]_vars

\* db.rs says of is_red that it never calls compute, and a test is named
\* is_red_plans_without_computing: no frame is executing during a probe.
IsRedNeverComputes ==
    goal # Idle /\ goal.op = "is_red" => \A i \in 1..Len(stack) : stack[i].mode = "verify"
=============================================================================
