--------------------------- MODULE SeedPoolProofs ---------------------------
(***************************************************************************)
(* The worker pool, for every number of workers, every range of seeds and  *)
(* whatever the seeds generate.                                            *)
(*                                                                         *)
(* Accounting: the inductive invariant is TypeOK, NoSeedTwice and          *)
(* EverySeedAccounted together.  The counter is the only thing a worker    *)
(* reads before it claims a seed, so what makes a freshly drawn seed new   *)
(* is that everything held or reported is below the counter.               *)
(*                                                                         *)
(* The tally: its results are complete and honest, so sorted by seed they  *)
(* are one result per seed of the range, and the fold over them goes       *)
(* through the tallies of the first k seeds, k = 0, 1, ....  Sums and folds *)
(* are the library's, which fold over a set in an order that CHOOSE picks; *)
(* Induct, from the well-founded order of the naturals, is what shows that *)
(* the order does not matter.                                              *)
(***************************************************************************)
EXTENDS SeedPool, FiniteSetTheorems, SequenceTheorems, WellFoundedInduction, TLAPS

Accounts == TypeOK /\ NoSeedTwice /\ EverySeedAccounted

\* The pool starts with nothing drawn (run_seeds before the first spawn).
LEMMA InitAccounts == Init => Accounts
<1> SUFFICES ASSUME Init PROVE Accounts
  OBVIOUS
<1> USE RangeAssumption DEF Init, Seeds
<1>1. TypeOK
  <2>1. results \in Results
    BY DEF Results
  <2>2. found \in [Workers -> Verdicts] /\ runner \in [Workers -> BOOLEAN] /\ pc \in [Workers -> Pcs]
    BY DEF Pcs, Verdicts
  <2>3. seed \in [Workers -> Nat] /\ \A w \in Workers : pc[w] = "new"
    OBVIOUS
  <2> QED
    BY <2>1, <2>2, <2>3 DEF TypeOK
<1>2. NoSeedTwice
  BY DEF NoSeedTwice, Holds, Reported
<1>3. EverySeedAccounted
  BY DEF EverySeedAccounted, Holds, Reported, Drawn
<1> QED
  BY <1>1, <1>2, <1>3 DEF Accounts

\* A step that changes only where a worker is, and neither what it holds nor
\* the results, keeps the accounts.
LEMMA SameHoldings ==
  ASSUME Accounts, TypeOK',
         results' = results, next' = next,
         \A w \in Workers, s \in Seeds : Holds(w, s)' <=> Holds(w, s)
  PROVE  Accounts'
<1>1. NoSeedTwice'
  BY DEF Accounts, NoSeedTwice, Reported
<1>2. EverySeedAccounted'
  BY DEF Accounts, EverySeedAccounted, Reported, Drawn
<1> QED
  BY <1>1, <1>2 DEF Accounts

\* Drawing: the counter's value is held by nobody and reported nowhere.
LEMMA TakeAccounts ==
  ASSUME Accounts, NEW w \in Workers, Take(w)
  PROVE  Accounts'
<1> USE RangeAssumption DEF Seeds
<1>1. TypeOK'
  BY DEF Accounts, TypeOK, Take, Pcs, Results
<1>2. \A v \in Workers \ {w}, s \in Seeds : Holds(v, s)' <=> Holds(v, s)
  BY DEF Accounts, TypeOK, Take, Holds
<1>3. \A s \in Seeds : ~Holds(w, s) /\ (Holds(w, s)' <=> s = next)
  BY DEF Accounts, TypeOK, Take, Holds
<1>4. \A s \in Seeds : Reported(s)' <=> Reported(s)
  BY DEF Take, Reported
<1>5. next \in Seeds => ~Reported(next) /\ \A v \in Workers : ~Holds(v, next)
  BY DEF Accounts, TypeOK, EverySeedAccounted, Drawn
<1>6. NoSeedTwice'
  <2>1. \A i, j \in DOMAIN results' : results'[i].seed = results'[j].seed => i = j
    BY DEF Accounts, NoSeedTwice, Take
  <2>2. ASSUME NEW u \in Workers, NEW v \in Workers, NEW s \in Seeds, Holds(u, s)', Holds(v, s)'
        PROVE  u = v
    BY <1>2, <1>3, <1>5, <2>2 DEF Accounts, NoSeedTwice
  <2>3. ASSUME NEW v \in Workers, NEW s \in Seeds, Holds(v, s)'
        PROVE  ~Reported(s)'
    BY <1>2, <1>3, <1>4, <1>5, <2>3 DEF Accounts, NoSeedTwice
  <2> QED
    BY <2>1, <2>2, <2>3 DEF NoSeedTwice
<1>7. EverySeedAccounted'
  <2> SUFFICES ASSUME NEW s \in Seeds
               PROVE  s \in Drawn' <=> (Reported(s)' \/ \E v \in Workers : Holds(v, s)')
    BY DEF EverySeedAccounted
  <2>1. s \in Drawn' <=> s \in Drawn \/ s = next
    BY DEF Accounts, TypeOK, Take, Drawn
  <2>2. s \in Drawn <=> (Reported(s) \/ \E v \in Workers : Holds(v, s))
    BY DEF Accounts, EverySeedAccounted
  <2>3. (\E v \in Workers : Holds(v, s)') <=> (s = next \/ \E v \in Workers : Holds(v, s))
    BY <1>2, <1>3
  <2> QED
    BY <1>4, <2>1, <2>2, <2>3
<1> QED
  BY <1>1, <1>6, <1>7 DEF Accounts

\* What a seed generates has a size and a verdict.
LEMMA ProgramTyped ==
  ASSUME prog \in [Seeds -> Programs], NEW s \in Seeds
  PROVE  prog[s] \in [size : Nat, verdict : Verdicts]
<1>1. prog[s] \in [size : Nat, verdict : Classes \cup {"panics"}]
  BY ProgramsAssumption
<1>2. Classes \cup {"panics"} \subseteq Verdicts
  BY DEF Verdicts
<1> QED BY <1>1, <1>2

\* Pushing: the seed moves from the worker to the results.
LEMMA PushAccounts ==
  ASSUME Accounts, NEW w \in Workers, Push(w)
  PROVE  Accounts'
<1> DEFINE r == [seed |-> seed[w], size |-> prog[seed[w]].size, verdict |-> found[w]]
<1> USE RangeAssumption DEF Seeds
<1>0. /\ seed[w] \in Seeds
      /\ prog[seed[w]] \in [size : Nat, verdict : Verdicts]
      /\ found[w] \in Verdicts
  BY ProgramTyped DEF Accounts, TypeOK, Push
<1>1. /\ r \in [seed : Seeds, size : Nat, verdict : Verdicts]
      /\ results \in Results
      /\ results' = Append(results, r)
      /\ r.seed = seed[w]
  BY <1>0 DEF Accounts, TypeOK, Push
<1>2. /\ results' \in Results
      /\ Len(results') = Len(results) + 1
      /\ results'[Len(results) + 1] = r
      /\ \A i \in DOMAIN results : results'[i] = results[i]
      /\ DOMAIN results = 1..Len(results)
      /\ DOMAIN results' = 1..(Len(results) + 1)
      /\ Len(results) \in Nat
  BY <1>1 DEF Results
<1>3. TypeOK'
  BY <1>2 DEF Accounts, TypeOK, Push, Pcs
<1>4. \A v \in Workers \ {w}, s \in Seeds : Holds(v, s)' <=> Holds(v, s)
  BY DEF Accounts, TypeOK, Push, Holds
<1>5. Holds(w, seed[w]) /\ (\A s \in Seeds : Holds(w, s) => s = seed[w]) /\ \A s \in Seeds : ~Holds(w, s)'
  BY DEF Accounts, TypeOK, Push, Holds
<1>6. \A s \in Seeds : Reported(s)' <=> Reported(s) \/ s = seed[w]
  BY <1>1, <1>2 DEF Reported
<1>7. ~Reported(seed[w])
  BY <1>0, <1>5 DEF Accounts, NoSeedTwice
<1>8. NoSeedTwice'
  <2>1. ASSUME NEW i \in DOMAIN results', NEW j \in DOMAIN results', results'[i].seed = results'[j].seed
        PROVE  i = j
    <3>1. CASE i \in DOMAIN results /\ j \in DOMAIN results
      BY <1>2, <2>1, <3>1 DEF Accounts, NoSeedTwice
    <3>2. CASE i = Len(results) + 1 /\ j \in DOMAIN results
      BY <1>1, <1>2, <1>7, <2>1, <3>2 DEF Reported
    <3>3. CASE j = Len(results) + 1 /\ i \in DOMAIN results
      BY <1>1, <1>2, <1>7, <2>1, <3>3 DEF Reported
    <3>4. CASE i = Len(results) + 1 /\ j = Len(results) + 1
      BY <3>4
    <3> QED
      BY <1>2, <3>1, <3>2, <3>3, <3>4
  <2>2. \A u, v \in Workers, s \in Seeds : Holds(u, s)' /\ Holds(v, s)' => u = v
    BY <1>4, <1>5 DEF Accounts, NoSeedTwice
  <2>3. ASSUME NEW v \in Workers, NEW s \in Seeds, Holds(v, s)'
        PROVE  ~Reported(s)'
    <3>1. v # w /\ Holds(v, s)
      BY <1>4, <1>5, <2>3
    <3>2. s # seed[w] /\ ~Reported(s)
      BY <1>0, <1>5, <3>1 DEF Accounts, NoSeedTwice
    <3> QED
      BY <1>6, <3>2
  <2> QED
    BY <2>1, <2>2, <2>3 DEF NoSeedTwice
<1>9. EverySeedAccounted'
  <2> SUFFICES ASSUME NEW s \in Seeds
               PROVE  s \in Drawn' <=> (Reported(s)' \/ \E v \in Workers : Holds(v, s)')
    BY DEF EverySeedAccounted
  <2>1. s \in Drawn' <=> s \in Drawn
    BY DEF Push, Drawn
  <2>2. s \in Drawn <=> (Reported(s) \/ \E v \in Workers : Holds(v, s))
    BY DEF Accounts, EverySeedAccounted
  <2>3. (Reported(s) \/ \E v \in Workers : Holds(v, s)) <=> (Reported(s)' \/ \E v \in Workers : Holds(v, s)')
    BY <1>4, <1>5, <1>6
  <2> QED
    BY <2>1, <2>2, <2>3
<1> QED
  BY <1>3, <1>8, <1>9 DEF Accounts

\* Every step of the pool keeps the accounts.
LEMMA NextAccounts == Accounts /\ [Next]_vars => Accounts'
<1> SUFFICES ASSUME Accounts, [Next]_vars PROVE Accounts'
  OBVIOUS
<1>1. ASSUME NEW w \in Workers, NewRunner(w) PROVE Accounts'
  <2>1. TypeOK'
    BY <1>1 DEF Accounts, TypeOK, NewRunner, Pcs
  <2>2. \A v \in Workers, s \in Seeds : Holds(v, s)' <=> Holds(v, s)
    BY <1>1 DEF Accounts, TypeOK, NewRunner, Holds
  <2> QED
    BY <1>1, <2>1, <2>2, SameHoldings DEF NewRunner
<1>2. ASSUME NEW w \in Workers, Check(w) PROVE Accounts'
  <2>0. prog[seed[w]] \in [size : Nat, verdict : Verdicts]
    BY <1>2, ProgramTyped DEF Accounts, TypeOK, Check
  <2>1. PICK p \in [size : Nat, verdict : Verdicts] : p = prog[seed[w]]
    BY <2>0
  <2>4. p.verdict \in Verdicts
    BY Zenon
  <2>5. (IF runner[w] THEN prog[seed[w]].verdict ELSE "spawn-fail") \in Verdicts
    BY <2>1, <2>4 DEF Verdicts, Classes
  <2>6. found' \in [Workers -> Verdicts]
    BY <1>2, <2>5 DEF Accounts, TypeOK, Check
  <2>2. TypeOK'
    BY <1>2, <2>6 DEF Accounts, TypeOK, Check, Pcs
  <2>3. \A v \in Workers, s \in Seeds : Holds(v, s)' <=> Holds(v, s)
    BY <1>2 DEF Accounts, TypeOK, Check, Holds
  <2> QED
    BY <1>2, <2>2, <2>3, SameHoldings DEF Check
<1>3. ASSUME NEW w \in Workers, Panic(w) PROVE Accounts'
  <2>1. TypeOK'
    BY <1>3 DEF Accounts, TypeOK, Panic, Pcs
  <2>2. \A v \in Workers, s \in Seeds : Holds(v, s)' <=> Holds(v, s)
    BY <1>3 DEF Accounts, TypeOK, Panic, Holds
  <2> QED
    BY <1>3, <2>1, <2>2, SameHoldings DEF Panic
<1>4. CASE Join
  <2>1. TypeOK'
    BY <1>4 DEF Accounts, TypeOK, Join
  <2>2. \A v \in Workers, s \in Seeds : Holds(v, s)' <=> Holds(v, s)
    BY <1>4 DEF Join, Holds
  <2> QED
    BY <1>4, <2>1, <2>2, SameHoldings DEF Join
<1>5. CASE UNCHANGED vars
  <2>1. TypeOK'
    BY <1>5 DEF Accounts, TypeOK, vars
  <2>2. \A v \in Workers, s \in Seeds : Holds(v, s)' <=> Holds(v, s)
    BY <1>5 DEF vars, Holds
  <2> QED
    BY <1>5, <2>1, <2>2, SameHoldings DEF vars
<1> QED
  BY <1>1, <1>2, <1>3, <1>4, <1>5, TakeAccounts, PushAccounts DEF Next, Work

\* However many workers share the counter, no seed of run_seeds is checked
\* twice, and every seed handed out stays accounted for.
THEOREM SeedsAccounted == Spec => [](NoSeedTwice /\ EverySeedAccounted)
<1>1. Accounts => NoSeedTwice /\ EverySeedAccounted
  BY DEF Accounts
<1> QED
  BY <1>1, InitAccounts, NextAccounts, PTL DEF Spec

\* A worker leaves the loop only when the counter is past the range, and the
\* scope ends normally only when every worker has left.
Departed ==
    /\ \A w \in Workers : pc[w] = "gone" => next >= End
    /\ phase = "done" => \A w \in Workers : pc[w] = "gone"

\* Departed holds in every reachable state.
LEMMA DepartedInvariant == Spec => []Departed
<1>1. Init => Departed
  BY DEF Init, Departed
<1>2. Accounts /\ Departed /\ [Next]_vars => Departed'
  <2> SUFFICES ASSUME Accounts, Departed, [Next]_vars PROVE Departed'
    OBVIOUS
  <2> USE RangeAssumption DEF Accounts, TypeOK, Departed
  <2>1. ASSUME NEW w \in Workers, Work(w) PROVE Departed'
    <3>1. CASE NewRunner(w) BY <3>1 DEF NewRunner
    <3>2. CASE Take(w) BY <3>2 DEF Take
    <3>3. CASE Check(w) BY <3>3 DEF Check
    <3>4. CASE Panic(w) BY <3>4 DEF Panic
    <3>5. CASE Push(w) BY <3>5 DEF Push
    <3> QED BY <2>1, <3>1, <3>2, <3>3, <3>4, <3>5 DEF Work
  <2>2. CASE Join
    BY <2>2 DEF Join
  <2>3. CASE UNCHANGED vars
    BY <2>3 DEF vars
  <2> QED
    BY <2>1, <2>2, <2>3 DEF Next
<1> QED
  BY <1>1, <1>2, InitAccounts, NextAccounts, PTL DEF Spec

\* The tally run_seeds returns is computed from results that hold every seed
\* of the range, whatever the number of workers.
THEOREM EveryProgramReported == Spec => []AllReported
<1>1. Accounts /\ Departed => AllReported
  BY RangeAssumption, WorkersAssumption
     DEF Accounts, TypeOK, Departed, AllReported, EverySeedAccounted, Drawn, Holds, Seeds
<1>2. Spec => []Accounts
  BY InitAccounts, NextAccounts, PTL DEF Spec
<1> QED
  BY <1>1, <1>2, DepartedInvariant, PTL

-----------------------------------------------------------------------------
(* Induction, sums and folds.                                              *)

\* Every nonempty set of naturals has a least element.
LEMMA Least ==
  ASSUME NEW S, S \subseteq Nat, S # {}
  PROVE  \E m \in S : \A k \in S : m <= k
<1> DEFINE R == OpToRel(<, Nat)
<1>1. \A x, y \in Nat : <<x, y>> \in R <=> x < y
  BY DEF OpToRel
<1>2. IsWellFoundedOn(R, Nat)
  BY NatLessThanWellFounded
<1> HIDE DEF R
<1>3. PICK m \in S : \A k \in S : <<k, m>> \notin R
  BY <1>2, WFMin
<1>4. ASSUME NEW k \in S PROVE m <= k
  <2>1. k \in Nat /\ m \in Nat
    OBVIOUS
  <2>2. ~(k < m)
    BY <1>1, <1>3, <2>1
  <2> QED BY <2>1, <2>2
<1> QED BY <1>4

\* Induction over the naturals, for a set instead of a predicate.
LEMMA Induct ==
  ASSUME NEW T, 0 \in T, \A n \in Nat : n \in T => n + 1 \in T
  PROVE  Nat \subseteq T
<1> SUFFICES ASSUME Nat \ T # {} PROVE FALSE
  OBVIOUS
<1>1. PICK m \in Nat \ T : \A k \in Nat \ T : m <= k
  BY Least
<1>2. m # 0 /\ m \in Nat
  OBVIOUS
<1>3. m - 1 \in Nat /\ ~(m <= m - 1)
  BY <1>2
<1>4. m - 1 \in T
  BY <1>1, <1>3
<1>5. (m - 1) + 1 = m
  BY <1>2
<1> QED BY <1>3, <1>4, <1>5

\* g sums F over the members of D, in the order CHOOSE takes them.
Sums(g, F, D) == g = [s \in D |-> IF s = {} THEN 0 ELSE LET x == CHOOSE x \in s : TRUE IN F[x] + g[s \ {x}]]

\* g sums F over the subsets of S.
IsSum(g, F, S) == Sums(g, F, SUBSET S)
\* What can be summed.
Summable(F, S) == IsFiniteSet(S) /\ \A x \in S : F[x] \in Int

\* The library's sum is the value at S of a function on the subsets of S.
LEMMA SumUnfolded ==
  ASSUME NEW F, NEW S
  PROVE  SumFunctionOnSet(F, S) = (CHOOSE g : Sums(g, F, SUBSET S))[S]
BY DEF SumFunctionOnSet, FoldFunctionOnSet, MapThenFoldSet, Sums

\* The member CHOOSE takes.
Member(s) == CHOOSE x \in s : TRUE

\* That function at a set: the value of some member and the rest.
LEMMA SumsAt ==
  ASSUME NEW g, NEW F, NEW D, Sums(g, F, D)
  PROVE  \A s \in D : g[s] = IF s = {} THEN 0 ELSE F[Member(s)] + g[s \ {Member(s)}]
BY DEF Sums, Member

\* A finite set without one of its members has one member less.
LEMMA SmallerSet ==
  ASSUME NEW S, IsFiniteSet(S), NEW x \in S
  PROVE  /\ IsFiniteSet(S \ {x})
         /\ Cardinality(S) \in Nat /\ Cardinality(S \ {x}) \in Nat
         /\ Cardinality(S) = Cardinality(S \ {x}) + 1
<1>1. IsFiniteSet(S \ {x}) /\ Cardinality(S \ {x}) = Cardinality(S) - 1
  BY FS_RemoveElement
<1>2. Cardinality(S) \in Nat /\ Cardinality(S \ {x}) \in Nat
  BY <1>1, FS_CardinalityType
<1> QED BY <1>1, <1>2

\* There is such a function, for every finite set.
LEMMA SumsExist ==
  ASSUME NEW F, NEW S, IsFiniteSet(S)
  PROVE  \E g : Sums(g, F, SUBSET S)
<1> DEFINE Low(n) == {T \in SUBSET S : Cardinality(T) <= n}
           K == {n \in Nat : \E g : Sums(g, F, Low(n))}
<1>0. \A T \in SUBSET S : IsFiniteSet(T) /\ Cardinality(T) \in Nat
  BY FS_Subset, FS_CardinalityType
<1>1. 0 \in K
  <2> DEFINE g == [T \in Low(0) |-> 0]
  <2>1. \A T \in Low(0) : T = {}
    BY <1>0, FS_EmptySet
  <2>2. Sums(g, F, Low(0))
    BY <2>1 DEF Sums
  <2> QED BY <2>2
<1>2. ASSUME NEW n \in Nat, n \in K PROVE n + 1 \in K
  <2>1. PICK g : Sums(g, F, Low(n))
    BY <1>2
  <2> DEFINE h == [T \in Low(n + 1) |-> IF T = {} THEN 0 ELSE F[Member(T)] + g[T \ {Member(T)}]]
  <2>2. ASSUME NEW T \in Low(n + 1), T # {}
        PROVE  T \ {Member(T)} \in Low(n) /\ T \ {Member(T)} \in Low(n + 1)
    <3>1. Member(T) \in T
      BY <2>2 DEF Member
    <3>2. IsFiniteSet(T) /\ T \in SUBSET S /\ Cardinality(T) <= n + 1
      BY <1>0
    <3>3. /\ Cardinality(T) \in Nat /\ Cardinality(T \ {Member(T)}) \in Nat
          /\ Cardinality(T) = Cardinality(T \ {Member(T)}) + 1
      BY <3>1, <3>2, SmallerSet
    <3>4. Cardinality(T \ {Member(T)}) <= n /\ Cardinality(T \ {Member(T)}) <= n + 1
      BY <3>2, <3>3
    <3> QED BY <3>2, <3>4
  <2>3. ASSUME NEW T \in Low(n), T \in Low(n + 1) PROVE h[T] = g[T]
    <3>1. g[T] = IF T = {} THEN 0 ELSE F[Member(T)] + g[T \ {Member(T)}]
      <4> HIDE DEF Low
      <4> QED BY <2>1, <2>3, SumsAt
    <3> QED BY <2>3, <3>1
  <2>4. ASSUME NEW T \in Low(n + 1)
        PROVE  h[T] = IF T = {} THEN 0 ELSE LET x == CHOOSE x \in T : TRUE IN F[x] + h[T \ {x}]
    <3>1. CASE T = {}
      BY <3>1
    <3>2. CASE T # {}
      <4>1. h[T \ {Member(T)}] = g[T \ {Member(T)}]
        BY <2>2, <2>3, <3>2
      <4> QED BY <3>2, <4>1 DEF Member
    <3> QED BY <3>1, <3>2
  <2>5. Sums(h, F, Low(n + 1))
    BY <2>4, Zenon DEF Sums
  <2> HIDE DEF h, Low
  <2> QED BY <2>5
<1>3. Cardinality(S) \in Nat /\ Nat \subseteq K
  <2> HIDE DEF K
  <2> QED BY <1>1, <1>2, Induct, FS_CardinalityType
<1>4. Low(Cardinality(S)) = SUBSET S
  BY FS_Subset
<1>5. Cardinality(S) \in K
  BY <1>3
<1> QED BY <1>4, <1>5

\* So the sum of a finite set is the value of one of these functions.
LEMMA SumOfSet ==
  ASSUME NEW F, NEW S, IsFiniteSet(S)
  PROVE  \E g : IsSum(g, F, S) /\ SumFunctionOnSet(F, S) = g[S]
BY SumsExist, SumUnfolded DEF IsSum

\* Two of them agree on the subsets they share when their terms do.
LEMMA SumsAgree ==
  ASSUME NEW F, NEW G, NEW S, NEW T, IsFiniteSet(S),
         S \subseteq T, \A x \in S : F[x] = G[x],
         NEW g, NEW h, IsSum(g, F, S), IsSum(h, G, T)
  PROVE  \A U \in SUBSET S : g[U] = h[U]
<1> DEFINE K == {n \in Nat : \A U \in SUBSET S : Cardinality(U) = n => g[U] = h[U]}
<1>0. \A U \in SUBSET S : IsFiniteSet(U) /\ Cardinality(U) \in Nat /\ U \in SUBSET T
  BY FS_Subset, FS_CardinalityType
<1>a. \A U \in SUBSET S : g[U] = IF U = {} THEN 0 ELSE F[Member(U)] + g[U \ {Member(U)}]
  BY SumsAt DEF IsSum
<1>b. \A U \in SUBSET T : h[U] = IF U = {} THEN 0 ELSE G[Member(U)] + h[U \ {Member(U)}]
  BY SumsAt DEF IsSum
<1>1. 0 \in K
  <2> SUFFICES ASSUME NEW U \in SUBSET S, Cardinality(U) = 0 PROVE g[U] = h[U]
    OBVIOUS
  <2>1. U = {}
    BY <1>0, FS_EmptySet
  <2> QED BY <1>0, <1>a, <1>b, <2>1
<1>2. ASSUME NEW n \in Nat, n \in K PROVE n + 1 \in K
  <2> SUFFICES ASSUME NEW U \in SUBSET S, Cardinality(U) = n + 1 PROVE g[U] = h[U]
    OBVIOUS
  <2>1. U # {}
    BY FS_EmptySet
  <2>2. Member(U) \in U /\ Member(U) \in S
    BY <2>1 DEF Member
  <2>3. Cardinality(U \ {Member(U)}) = n /\ U \ {Member(U)} \in SUBSET S
    BY <1>0, <2>2, SmallerSet
  <2>4. g[U \ {Member(U)}] = h[U \ {Member(U)}]
    BY <1>2, <2>3
  <2>5. g[U] = F[Member(U)] + g[U \ {Member(U)}]
    BY <1>a, <2>1
  <2>6. U \in SUBSET T /\ h[U] = G[Member(U)] + h[U \ {Member(U)}]
    BY <1>0, <1>b, <2>1
  <2> QED BY <2>2, <2>4, <2>5, <2>6
<1>3. Nat \subseteq K
  <2> HIDE DEF K
  <2> QED BY <1>1, <1>2, Induct
<1> QED BY <1>0, <1>3

\* They have integer values when the terms are integers.
LEMMA SumsTyped ==
  ASSUME NEW F, NEW S, Summable(F, S),
         NEW g, IsSum(g, F, S)
  PROVE  \A U \in SUBSET S : g[U] \in Int
<1> DEFINE K == {n \in Nat : \A U \in SUBSET S : Cardinality(U) = n => g[U] \in Int}
<1>0. \A U \in SUBSET S : IsFiniteSet(U) /\ Cardinality(U) \in Nat
  BY FS_Subset, FS_CardinalityType DEF Summable
<1>a. \A U \in SUBSET S : g[U] = IF U = {} THEN 0 ELSE F[Member(U)] + g[U \ {Member(U)}]
  BY SumsAt DEF IsSum
<1>1. 0 \in K
  <2> SUFFICES ASSUME NEW U \in SUBSET S, Cardinality(U) = 0 PROVE g[U] \in Int
    OBVIOUS
  <2>1. U = {}
    BY <1>0, FS_EmptySet
  <2>2. g[U] = 0
    BY <1>a, <2>1
  <2> QED BY <2>2
<1>2. ASSUME NEW n \in Nat, n \in K PROVE n + 1 \in K
  <2> SUFFICES ASSUME NEW U \in SUBSET S, Cardinality(U) = n + 1 PROVE g[U] \in Int
    OBVIOUS
  <2>1. U # {}
    BY FS_EmptySet
  <2>2. Member(U) \in U /\ Member(U) \in S
    BY <2>1 DEF Member
  <2>3. Cardinality(U \ {Member(U)}) = n /\ U \ {Member(U)} \in SUBSET S
    BY <1>0, <2>2, SmallerSet
  <2>4. g[U \ {Member(U)}] \in Int
    BY <1>2, <2>3
  <2>5. g[U] = F[Member(U)] + g[U \ {Member(U)}] /\ F[Member(U)] \in Int
    BY <1>a, <2>1, <2>2 DEF Summable
  <2> QED BY <2>4, <2>5
<1>3. Nat \subseteq K
  <2> HIDE DEF K
  <2> QED BY <1>1, <1>2, Induct
<1> QED BY <1>0, <1>3

\* Any member may be taken out first, not only the one CHOOSE picks.
LEMMA SumsWithout ==
  ASSUME NEW F, NEW S, Summable(F, S),
         NEW g, IsSum(g, F, S)
  PROVE  \A U \in SUBSET S, x \in S : x \in U => g[U] = F[x] + g[U \ {x}]
<1> DEFINE K == {n \in Nat : \A U \in SUBSET S : Cardinality(U) = n => \A x \in U : g[U] = F[x] + g[U \ {x}]}
<1>0. \A U \in SUBSET S : IsFiniteSet(U) /\ Cardinality(U) \in Nat
  BY FS_Subset, FS_CardinalityType DEF Summable
<1>a. \A U \in SUBSET S : g[U] = IF U = {} THEN 0 ELSE F[Member(U)] + g[U \ {Member(U)}]
  BY SumsAt DEF IsSum
<1>b. \A U \in SUBSET S : g[U] \in Int
  BY SumsTyped
<1>1. 0 \in K
  BY <1>0, FS_EmptySet
<1>2. ASSUME NEW n \in Nat, n \in K PROVE n + 1 \in K
  <2> SUFFICES ASSUME NEW U \in SUBSET S, Cardinality(U) = n + 1, NEW x \in U PROVE g[U] = F[x] + g[U \ {x}]
    OBVIOUS
  <2> DEFINE m == Member(U)
  <2>1. m \in U /\ g[U] = F[m] + g[U \ {m}]
    BY <1>a DEF Member
  <2>2. CASE x = m
    BY <2>1, <2>2
  <2>3. CASE x # m
    <3> HIDE DEF m
    <3>1. /\ Cardinality(U \ {m}) = n /\ U \ {m} \in SUBSET S /\ x \in U \ {m}
          /\ Cardinality(U \ {x}) = n /\ U \ {x} \in SUBSET S /\ m \in U \ {x}
      BY <1>0, <2>1, <2>3, SmallerSet
    <3>2. g[U \ {m}] = F[x] + g[(U \ {m}) \ {x}]
      BY <1>2, <3>1
    <3>3. g[U \ {x}] = F[m] + g[(U \ {x}) \ {m}]
      BY <1>2, <3>1
    <3>4. (U \ {x}) \ {m} = (U \ {m}) \ {x}
      OBVIOUS
    <3>5. F[x] \in Int /\ F[m] \in Int /\ g[(U \ {m}) \ {x}] \in Int
      BY <1>b, <2>1 DEF Summable
    <3>6. \A a, b, c, d, e, f \in Int : a = b + c /\ c = d + e /\ f = b + e => a = d + f
      OBVIOUS
    <3>7. g[U] \in Int /\ g[U \ {m}] \in Int /\ g[U \ {x}] \in Int
      BY <1>b, <3>1
    <3>8. g[U \ {x}] = F[m] + g[(U \ {m}) \ {x}]
      BY <3>3, <3>4
    <3> QED BY <2>1, <3>2, <3>5, <3>6, <3>7, <3>8
  <2> QED BY <2>2, <2>3
<1>3. Nat \subseteq K
  <2> HIDE DEF K
  <2> QED BY <1>1, <1>2, Induct
<1>4. ASSUME NEW U \in SUBSET S, NEW x \in U PROVE g[U] = F[x] + g[U \ {x}]
  BY <1>0, <1>3
<1> QED BY <1>4

\* A sum is one of its terms and the sum of the others.
LEMMA SumWithout ==
  ASSUME NEW F, NEW S, Summable(F, S), NEW x \in S
  PROVE  /\ SumFunctionOnSet(F, S) = F[x] + SumFunctionOnSet(F, S \ {x})
         /\ SumFunctionOnSet(F, S \ {x}) \in Int
<1>0. IsFiniteSet(S) /\ IsFiniteSet(S \ {x}) /\ Summable(F, S \ {x})
  BY FS_RemoveElement DEF Summable
<1>1. PICK g : IsSum(g, F, S) /\ SumFunctionOnSet(F, S) = g[S]
  BY <1>0, SumOfSet
<1>2. PICK h : IsSum(h, F, (S \ {x})) /\ SumFunctionOnSet(F, S \ {x}) = h[S \ {x}]
  BY <1>0, SumOfSet
<1>a. IsSum(g, F, S) /\ IsSum(h, F, S \ {x})
  BY <1>1, <1>2
<1>3. \A U \in SUBSET (S \ {x}) : h[U] = g[U]
  <2>1. S \ {x} \subseteq S /\ \A y \in S \ {x} : F[y] = F[y]
    OBVIOUS
  <2>2. \A U \in SUBSET (S \ {x}) : h[U] = g[U]
    BY <1>0, <1>a, <2>1, SumsAgree
  <2> QED BY <2>2
<1>4. g[S] = F[x] + g[S \ {x}] /\ g[S \ {x}] \in Int
  <2>1. \A U \in SUBSET S, y \in S : y \in U => g[U] = F[y] + g[U \ {y}]
    BY <1>a, SumsWithout
  <2>2. \A U \in SUBSET S : g[U] \in Int
    BY <1>a, SumsTyped
  <2> QED BY <2>1, <2>2
<1> QED BY <1>1, <1>2, <1>3, <1>4

\* A sum depends on its terms alone.
LEMMA SumSame ==
  ASSUME NEW F, NEW G, NEW S, IsFiniteSet(S), \A x \in S : F[x] = G[x]
  PROVE  SumFunctionOnSet(F, S) = SumFunctionOnSet(G, S)
<1>1. PICK g : IsSum(g, F, S) /\ SumFunctionOnSet(F, S) = g[S]
  BY SumOfSet
<1>2. PICK h : IsSum(h, G, S) /\ SumFunctionOnSet(G, S) = h[S]
  BY SumOfSet
<1>3. \A U \in SUBSET S : g[U] = h[U]
  <2>1. S \subseteq S
    OBVIOUS
  <2> QED BY <1>1, <1>2, <2>1, SumsAgree
<1> QED BY <1>1, <1>2, <1>3

\* The sum of nothing.
LEMMA SumEmpty == \A F : SumFunctionOnSet(F, {}) = 0
<1> SUFFICES ASSUME NEW F PROVE SumFunctionOnSet(F, {}) = 0
  OBVIOUS
<1>1. PICK g : IsSum(g, F, {}) /\ SumFunctionOnSet(F, {}) = g[{}]
  BY SumOfSet, FS_EmptySet
<1>2. \A U \in SUBSET {} : g[U] = IF U = {} THEN 0 ELSE F[Member(U)] + g[U \ {Member(U)}]
  BY <1>1, SumsAt DEF IsSum
<1> QED BY <1>1, <1>2

\* One more in one place is one more in the sum (Tally::add counting a verdict).
LEMMA SumBumped ==
  ASSUME NEW S, IsFiniteSet(S), NEW F \in [S -> Int], NEW x \in S
  PROVE  SumFunction([F EXCEPT ![x] = @ + 1]) = SumFunction(F) + 1
<1> DEFINE G == [F EXCEPT ![x] = @ + 1]
<1>0. IsFiniteSet(S \ {x})
  BY FS_RemoveElement
<1>1. /\ DOMAIN G = S /\ DOMAIN F = S /\ G[x] = F[x] + 1 /\ F[x] \in Int
      /\ \A y \in S : G[y] \in Int /\ F[y] \in Int
      /\ \A y \in S \ {x} : G[y] = F[y]
      /\ Summable(G, S) /\ Summable(F, S)
  BY DEF Summable
<1> HIDE DEF G
<1>2. SumFunctionOnSet(G, S) = G[x] + SumFunctionOnSet(G, S \ {x})
  BY <1>1, SumWithout
<1>3. SumFunctionOnSet(F, S) = F[x] + SumFunctionOnSet(F, S \ {x}) /\ SumFunctionOnSet(F, S \ {x}) \in Int
  BY <1>1, SumWithout
<1>4. SumFunctionOnSet(G, S \ {x}) = SumFunctionOnSet(F, S \ {x})
  BY <1>0, <1>1, SumSame
<1>5. SumFunctionOnSet(G, S) = SumFunctionOnSet(F, S) + 1
  BY <1>1, <1>2, <1>3, <1>4
<1>6. SumFunction(G) = SumFunctionOnSet(G, S) /\ SumFunction(F) = SumFunctionOnSet(F, S)
  BY <1>1 DEF SumFunction
<1> QED BY <1>5, <1>6 DEF G

\* A nonempty set of positions has a largest one.
LEMMA LargestMember ==
  ASSUME NEW n \in Nat, NEW S \in SUBSET (1..n), S # {}
  PROVE  Max(S) \in S /\ \A y \in S : y <= Max(S)
<1> DEFINE T == {m \in Nat : \A y \in S : y <= m}
<1>1. n \in T
  OBVIOUS
<1>2. T \subseteq Nat /\ T # {}
  BY <1>1
<1> HIDE DEF T
<1>3. PICK m \in T : \A k \in T : m <= k
  BY <1>2, Least
<1> USE DEF T
<1>4. m \in Nat /\ \A y \in S : y \in Nat /\ y >= 1 /\ y <= m
  BY <1>3
<1>5. m # 0
  <2>1. PICK y \in S : TRUE
    OBVIOUS
  <2> QED BY <1>4, <2>1
<1>6. m \in S
  <2> SUFFICES ASSUME m \notin S PROVE FALSE
    OBVIOUS
  <2>1. m - 1 \in Nat /\ \A y \in S : y <= m - 1
    BY <1>4, <1>5
  <2>2. m - 1 \in T
    BY <2>1
  <2> QED BY <1>3, <1>4, <2>2
<1>7. \E x \in S : \A y \in S : x >= y
  BY <1>4, <1>6
<1>8. Max(S) \in S /\ \A y \in S : Max(S) >= y
  BY <1>7 DEF Max
<1> QED BY <1>8, <1>4

\* g tallies the results of q at the positions in the members of D.
Folds(g, q, D) == g = [s \in D |-> IF s = {} THEN Empty ELSE LET x == Max(s) IN Tallied(g[s \ {x}], q[x])]

\* g tallies the first results of q, n at most.
IsFold(g, q, n) == Folds(g, q, SUBSET (1..n))

\* The library's fold is the value at its domain of a function on sets of positions.
LEMMA FoldUnfolded ==
  ASSUME NEW q
  PROVE  FoldLeft(Tallied, Empty, q) = (CHOOSE g : Folds(g, q, SUBSET (DOMAIN q)))[DOMAIN q]
BY DEF FoldLeft, MapThenFoldSet, Folds

\* That function at a set: the last position folded into the rest.
LEMMA FoldsAt ==
  ASSUME NEW g, NEW q, NEW n, IsFold(g, q, n)
  PROVE  \A s \in SUBSET (1..n) : g[s] = IF s = {} THEN Empty ELSE Tallied(g[s \ {Max(s)}], q[Max(s)])
BY DEF Folds, IsFold

\* There is such a function, for every length.
LEMMA FoldsExist ==
  ASSUME NEW q
  PROVE  \A n \in Nat : \E g : IsFold(g, q, n)
<1> DEFINE K == {n \in Nat : \E g : IsFold(g, q, n)}
<1>1. 0 \in K
  <2> DEFINE g == [s \in SUBSET (1..0) |-> Empty]
  <2>1. \A s \in SUBSET (1..0) : s = {}
    OBVIOUS
  <2>2. IsFold(g, q, 0)
    BY <2>1 DEF Folds, IsFold
  <2> HIDE DEF g
  <2> QED BY <2>2
<1>2. ASSUME NEW n \in Nat, n \in K PROVE n + 1 \in K
  <2>1. PICK g : IsFold(g, q, n)
    BY <1>2
  <2> DEFINE D == SUBSET (1..(n + 1))
             h == [s \in D |-> IF n + 1 \in s THEN Tallied(g[s \ {n + 1}], q[n + 1]) ELSE g[s]]
  <2>2. \A s \in SUBSET (1..n) : g[s] = IF s = {} THEN Empty ELSE Tallied(g[s \ {Max(s)}], q[Max(s)])
    BY <2>1, FoldsAt
  <2>3. \A s \in SUBSET (1..n) : s \in D /\ n + 1 \notin s
    OBVIOUS
  <2>4. \A s \in D : n + 1 \notin s => s \in SUBSET (1..n)
    OBVIOUS
  <2>5. ASSUME NEW s \in D
        PROVE  h[s] = IF s = {} THEN Empty ELSE LET x == Max(s) IN Tallied(h[s \ {x}], q[x])
    <3>1. CASE n + 1 \in s
      <4>1. n + 1 \in Nat /\ s \in SUBSET (1..(n + 1)) /\ s # {}
        BY <3>1
      <4>2. Max(s) \in s /\ \A y \in s : y <= Max(s)
        BY <4>1, LargestMember
      <4>3. Max(s) = n + 1
        <5>1. Max(s) \in 1..(n + 1) /\ n + 1 <= Max(s)
          BY <3>1, <4>1, <4>2
        <5> QED BY <5>1
      <4>4. s \ {n + 1} \in D /\ n + 1 \notin s \ {n + 1}
        OBVIOUS
      <4>5. h[s \ {n + 1}] = g[s \ {n + 1}]
        BY <4>4
      <4>6. h[s] = Tallied(g[s \ {n + 1}], q[n + 1])
        BY <3>1
      <4> QED BY <4>1, <4>3, <4>5, <4>6
    <3>2. CASE n + 1 \notin s
      <4>1. s \in SUBSET (1..n) /\ h[s] = g[s]
        BY <2>4, <3>2
      <4>2. CASE s = {}
        BY <2>2, <4>1, <4>2
      <4>3. CASE s # {}
        <5>1. s \ {Max(s)} \in SUBSET (1..n)
          BY <4>1
        <5>2. s \ {Max(s)} \in D /\ n + 1 \notin s \ {Max(s)}
          BY <2>3, <5>1
        <5>3. h[s \ {Max(s)}] = g[s \ {Max(s)}]
          BY <5>2
        <5>4. g[s] = Tallied(g[s \ {Max(s)}], q[Max(s)])
          BY <2>2, <4>1, <4>3
        <5> QED BY <4>1, <4>3, <5>3, <5>4
      <4> QED BY <4>2, <4>3
    <3> QED BY <3>1, <3>2
  <2>6. IsFold(h, q, n + 1)
    <3>1. h = [s \in D |-> h[s]]
      OBVIOUS
    <3> HIDE DEF h, D
    <3>2. h = [s \in D |-> IF s = {} THEN Empty ELSE LET x == Max(s) IN Tallied(h[s \ {x}], q[x])]
      BY <2>5, <3>1
    <3> QED BY <3>2 DEF Folds, D, IsFold
  <2> HIDE DEF h
  <2> QED BY <2>6
<1>3. Nat \subseteq K
  <2> HIDE DEF K
  <2> QED BY <1>1, <1>2, Induct
<1> QED BY <1>3

\* The loop over the results of run_seeds: each tally is the one before it with one more result.
LEMMA FoldInOrder ==
  ASSUME NEW n \in Nat, NEW q, DOMAIN q = 1..n
  PROVE  \E t : /\ t[0] = Empty
                /\ \A k \in 1..n : t[k] = Tallied(t[k - 1], q[k])
                /\ FoldLeft(Tallied, Empty, q) = t[n]
<1>1. PICK g : IsFold(g, q, n) /\ FoldLeft(Tallied, Empty, q) = g[1..n]
  BY FoldsExist, FoldUnfolded DEF IsFold
<1>2. \A s \in SUBSET (1..n) : g[s] = IF s = {} THEN Empty ELSE Tallied(g[s \ {Max(s)}], q[Max(s)])
  <2>1. IsFold(g, q, n)
    BY <1>1
  <2> QED BY <2>1 DEF IsFold, Folds
<1> DEFINE t == [k \in 0..n |-> g[1..k]]
<1>3. t[0] = Empty
  <2>1. 1..0 = {} /\ 0 \in 0..n
    OBVIOUS
  <2>2. g[{}] = Empty
    BY <1>2
  <2> QED BY <2>1, <2>2
<1>4. ASSUME NEW k \in 1..n PROVE t[k] = Tallied(t[k - 1], q[k])
  <2>1. k \in Nat /\ 1..k \in SUBSET (1..k) /\ 1..k \in SUBSET (1..n) /\ k \in 1..k /\ 1..k # {}
    OBVIOUS
  <2>2. Max(1..k) \in 1..k /\ \A y \in 1..k : y <= Max(1..k)
    BY <2>1, LargestMember
  <2>3. Max(1..k) = k
    BY <2>1, <2>2
  <2>4. (1..k) \ {k} = 1..(k - 1) /\ k - 1 \in 0..n /\ k \in 0..n
    BY <2>1
  <2>5. g[1..k] = Tallied(g[1..(k - 1)], q[k])
    BY <1>2, <2>1, <2>3, <2>4
  <2> QED BY <2>4, <2>5
<1>5. t[n] = g[1..n]
  OBVIOUS
<1> HIDE DEF t
<1> QED BY <1>1, <1>3, <1>4, <1>5
-----------------------------------------------------------------------------
(* The tally of the seeds up to one of them, and of that one too.          *)

\* The seeds of the range below s.
Before(s) == First..s - 1

\* The seeds before s + 1 are the ones before s and s itself.
LEMMA BeforeNext ==
  ASSUME NEW s \in Seeds
  PROVE  /\ s \in Nat /\ s + 1 \in Nat
         /\ s \notin Before(s) /\ Before(s + 1) = Before(s) \cup {s}
         /\ Before(s) \subseteq Nat /\ \A r \in Before(s) : r < s
         /\ IsFiniteSet(Before(s)) /\ IsFiniteSet(Before(s + 1))
         /\ \A S \in SUBSET Before(s) : IsFiniteSet(S) /\ Cardinality(S) \in Nat
<1>1. s \in Nat /\ First \in Nat /\ First <= s
  BY RangeAssumption DEF Seeds
<1>2. /\ s \notin Before(s) /\ Before(s + 1) = Before(s) \cup {s}
      /\ Before(s) \subseteq Nat /\ \A r \in Before(s) : r < s
  BY <1>1 DEF Before
<1>3. IsFiniteSet(Before(s))
  BY <1>1, FS_Interval DEF Before
<1>4. IsFiniteSet(Before(s + 1))
  BY <1>2, <1>3, FS_AddElement
<1>5. \A S \in SUBSET Before(s) : IsFiniteSet(S) /\ Cardinality(S) \in Nat
  BY <1>3, FS_Subset, FS_CardinalityType
<1> QED BY <1>1, <1>2, <1>3, <1>4, <1>5

\* A seed past all others takes the next place among them.
LEMMA PlacesNext ==
  ASSUME NEW s \in Seeds, NEW F \in SUBSET Before(s)
  PROVE  /\ Cardinality(F \cup {s}) = Cardinality(F) + 1
         /\ \A k \in 1..Cardinality(F) : Places(F \cup {s}, k) = Places(F, k)
         /\ Places(F \cup {s}, Cardinality(F) + 1) = {s}
<1> DEFINE G == F \cup {s}
<1>1. s \in Nat /\ s \notin F /\ F \subseteq Nat /\ \A r \in F : r < s
  BY BeforeNext
<1>2. \A S \in SUBSET F : IsFiniteSet(S) /\ Cardinality(S) \in Nat
  BY BeforeNext
<1>3. Cardinality(G) = Cardinality(F) + 1
  BY <1>1, <1>2, FS_AddElement
<1>4. \A x \in F : {r \in G : r <= x} = {r \in F : r <= x}
  BY <1>1
<1>5. {r \in G : r <= s} = G
  <2>1. \A r \in G : r <= s
    BY <1>1
  <2> QED BY <2>1
<1>6. \A x \in F : Cardinality({r \in F : r <= x}) \in Nat /\ Cardinality({r \in F : r <= x}) <= Cardinality(F)
  <2> SUFFICES ASSUME NEW x \in F
               PROVE  Cardinality({r \in F : r <= x}) \in Nat /\ Cardinality({r \in F : r <= x}) <= Cardinality(F)
    OBVIOUS
  <2>1. {r \in F : r <= x} \in SUBSET F /\ IsFiniteSet(F)
    BY <1>2
  <2> QED BY <1>2, <2>1, FS_Subset
<1>7. Cardinality(F) \in Nat /\ \A k \in 1..Cardinality(F) : k # Cardinality(F) + 1
  BY <1>2
<1> HIDE DEF G
<1>8. ASSUME NEW k \in 1..Cardinality(F) PROVE Places(G, k) = Places(F, k)
  <2>1. \A x \in F : Cardinality({r \in G : r <= x}) = Cardinality({r \in F : r <= x})
    BY <1>4
  <2>2. Cardinality({r \in G : r <= s}) # k
    BY <1>3, <1>5, <1>7
  <2>3. \A x : x \in G <=> x \in F \/ x = s
    BY DEF G
  <2> QED BY <2>1, <2>2, <2>3 DEF Places
<1>9. Places(G, Cardinality(F) + 1) = {s}
  <2>1. \A x \in F : Cardinality({r \in G : r <= x}) # Cardinality(F) + 1
    BY <1>4, <1>6, <1>7
  <2>2. Cardinality({r \in G : r <= s}) = Cardinality(F) + 1
    BY <1>3, <1>5
  <2>3. \A x : x \in G <=> x \in F \/ x = s
    BY DEF G
  <2> QED BY <2>1, <2>2, <2>3 DEF Places
<1> QED BY <1>3, <1>8, <1>9 DEF G

\* Counting the verdict of one more seed (Tally::add).
LEMMA CountNext ==
  ASSUME NEW lost, NEW s \in Seeds, Verdict(lost, s) \in Classes
  PROVE  [Sequential(lost, Before(s)).count EXCEPT ![Verdict(lost, s)] = @ + 1]
             = Sequential(lost, Before(s + 1)).count
<1> DEFINE At(S, c) == {r \in S : Verdict(lost, r) = c}
           S == Before(s)
           R == Before(s + 1)
           v == Verdict(lost, s)
<1>1. s \notin S /\ R = S \cup {s} /\ IsFiniteSet(S)
  BY BeforeNext
<1>2. ASSUME NEW c \in Classes
      PROVE  Cardinality(At(R, c)) = IF c = v THEN Cardinality(At(S, c)) + 1 ELSE Cardinality(At(S, c))
  <2>1. At(S, c) \in SUBSET S /\ s \notin At(S, c) /\ IsFiniteSet(At(S, c))
    BY <1>1, FS_Subset
  <2>2. c = v => At(R, c) = At(S, c) \cup {s}
    BY <1>1
  <2>3. c # v => At(R, c) = At(S, c)
    BY <1>1
  <2> HIDE DEF At
  <2> QED BY <2>1, <2>2, <2>3, FS_AddElement
<1>3. /\ Sequential(lost, S).count = [c \in Classes |-> Cardinality(At(S, c))]
      /\ Sequential(lost, R).count = [c \in Classes |-> Cardinality(At(R, c))]
  BY DEF Sequential
<1> HIDE DEF At, S, R, v
<1>4. [Sequential(lost, S).count EXCEPT ![v] = @ + 1] = Sequential(lost, R).count
  BY <1>2, <1>3
<1> QED BY <1>4 DEF S, R, v

\* Adding the size of one more program (the loop of run_seeds).
LEMMA SumNext ==
  ASSUME NEW lost, NEW s \in Seeds, prog \in [Seeds -> Programs]
  PROVE  Sequential(lost, Before(s)).instructions + prog[s].size = Sequential(lost, Before(s + 1)).instructions
<1> DEFINE S == Before(s)
           R == Before(s + 1)
           f == [r \in S |-> prog[r].size]
           g == [r \in R |-> prog[r].size]
<1>0. S \subseteq Seeds /\ R \subseteq Seeds
  BY RangeAssumption DEF Before, Seeds
<1>1. s \notin S /\ R = S \cup {s} /\ IsFiniteSet(S) /\ IsFiniteSet(R) /\ S = R \ {s} /\ s \in R
  BY BeforeNext
<1>2. \A r \in Seeds : prog[r].size \in Nat
  BY ProgramsAssumption
<1>3. /\ g[s] = prog[s].size /\ \A r \in R : g[r] \in Int
      /\ \A r \in S : g[r] = f[r]
      /\ DOMAIN f = S /\ DOMAIN g = R
  BY <1>0, <1>1, <1>2
<1>5. Sequential(lost, S).instructions = SumFunction(f) /\ Sequential(lost, R).instructions = SumFunction(g)
  BY DEF Sequential
<1> HIDE DEF S, R, f, g
<1>6. SumFunctionOnSet(g, R) = g[s] + SumFunctionOnSet(g, S) /\ SumFunctionOnSet(g, S) \in Int
  <2>1. Summable(g, R)
    BY <1>1, <1>3 DEF Summable
  <2> QED BY <1>1, <2>1, SumWithout
<1>7. SumFunctionOnSet(g, S) = SumFunctionOnSet(f, S)
  BY <1>1, <1>3, SumSame
<1>8. SumFunction(f) + prog[s].size = SumFunction(g)
  <2>1. SumFunction(f) = SumFunctionOnSet(f, S) /\ SumFunction(g) = SumFunctionOnSet(g, R)
    BY <1>3 DEF SumFunction
  <2>2. prog[s].size \in Nat
    BY <1>2
  <2> QED BY <1>3, <1>6, <1>7, <2>1, <2>2
<1> QED BY <1>5, <1>8 DEF S, R

\* The smaller of two numbers.
LEMMA SmallerOf ==
  ASSUME NEW a \in Nat, NEW b \in Nat
  PROVE  Min({a, b}) = IF a <= b THEN a ELSE b
<1>1. \E x \in {a, b} : \A y \in {a, b} : x =< y
  OBVIOUS
<1>2. Min({a, b}) \in {a, b} /\ \A y \in {a, b} : Min({a, b}) =< y
  BY <1>1 DEF Min
<1> QED BY <1>2

\* Keeping the failure of one more seed, if there is room (the loop of run_seeds).
LEMMA FailuresNext ==
  ASSUME NEW lost, NEW s \in Seeds
  PROVE  LET fs == Sequential(lost, Before(s)).failures IN
         /\ Len(fs) \in Nat
         /\ (IF Verdict(lost, s) # "ok" /\ Len(fs) < MaxFailures
             THEN Append(fs, <<s, Verdict(lost, s)>>) ELSE fs)
               = Sequential(lost, Before(s + 1)).failures
<1> DEFINE F == Failing(lost, Before(s))
           G == Failing(lost, Before(s + 1))
           n == Cardinality(F)
           e(S, k) == <<Nth(S, k), Verdict(lost, Nth(S, k))>>
           fs == [k \in 1..Min({MaxFailures, n}) |-> e(F, k)]
           gs == [k \in 1..Min({MaxFailures, Cardinality(G)}) |-> e(G, k)]
<1>1. fs = Sequential(lost, Before(s)).failures /\ gs = Sequential(lost, Before(s + 1)).failures
  BY Zenon DEF Sequential
<1>2. s \notin Before(s) /\ Before(s + 1) = Before(s) \cup {s} /\ F \in SUBSET Before(s) /\ n \in Nat
  BY BeforeNext DEF Failing
<1>3. Verdict(lost, s) = "ok" => G = F
  BY <1>2 DEF Failing
<1>4. Verdict(lost, s) # "ok" => G = F \cup {s}
  BY <1>2 DEF Failing
<1>5. MaxFailures \in Nat
  BY MaxFailuresAssumption
<1> DEFINE m == IF MaxFailures <= n THEN MaxFailures ELSE n
<1>6. Min({MaxFailures, n}) = m /\ m \in Nat
  BY <1>2, <1>5, SmallerOf
<1>7. fs = [k \in 1..m |-> e(F, k)]
  BY <1>6
<1>8. Len(fs) = m /\ fs \in Seq({e(F, k) : k \in 1..m} \cup {<<s, Verdict(lost, s)>>})
  <2> HIDE DEF e, m, F, fs
  <2> QED BY <1>6, <1>7
<1> DEFINE Goal == /\ Len(fs) \in Nat
                   /\ (IF Verdict(lost, s) # "ok" /\ Len(fs) < MaxFailures
                       THEN Append(fs, <<s, Verdict(lost, s)>>) ELSE fs) = gs
<1>9. ASSUME Verdict(lost, s) = "ok" PROVE Goal
  <2>1. gs = fs
    BY <1>3, <1>9
  <2> HIDE DEF fs, gs, e, m
  <2> QED BY <1>1, <1>6, <1>8, <1>9, <2>1
<1>10. ASSUME Verdict(lost, s) # "ok", MaxFailures <= n PROVE Goal
  <2>0. G = F \cup {s}
    BY <1>4, <1>10
  <2>1. Cardinality(G) = n + 1 /\ \A k \in 1..n : Places(G, k) = Places(F, k)
    <3> HIDE DEF F, G
    <3> QED BY <1>2, <2>0, PlacesNext
  <2>2. Min({MaxFailures, Cardinality(G)}) = MaxFailures
    <3> HIDE DEF F, G, n
    <3> QED BY <1>2, <1>5, <1>10, <2>1, SmallerOf
  <2>3. m = MaxFailures /\ \A k \in 1..m : k \in 1..n
    <3> HIDE DEF n
    <3> QED BY <1>2, <1>5, <1>10
  <2>4. \A k \in 1..m : Nth(G, k) = Nth(F, k)
    BY <2>1, <2>3 DEF Nth
  <2>5. gs = fs
    <3> HIDE DEF m
    <3>1. gs = [k \in 1..m |-> e(G, k)]
      BY <2>2, <2>3
    <3>2. \A k \in 1..m : e(G, k) = e(F, k)
      BY <2>4
    <3> HIDE DEF e, fs, gs, F, G, n
    <3> QED BY <1>7, <3>1, <3>2
  <2> HIDE DEF fs, gs, e, m, F, G, n
  <2> QED BY <1>1, <1>5, <1>8, <1>10, <2>3, <2>5
<1>11. ASSUME Verdict(lost, s) # "ok", ~(MaxFailures <= n) PROVE Goal
  <2>0. G = F \cup {s}
    BY <1>4, <1>11
  <2>1. Cardinality(G) = n + 1 /\ (\A k \in 1..n : Places(G, k) = Places(F, k)) /\ Places(G, n + 1) = {s}
    <3> HIDE DEF F, G
    <3> QED BY <1>2, <2>0, PlacesNext
  <2>2. Min({MaxFailures, Cardinality(G)}) = n + 1
    <3>1. Min({MaxFailures, n + 1}) = IF MaxFailures <= n + 1 THEN MaxFailures ELSE n + 1
      <4> HIDE DEF n
      <4> QED BY <1>2, <1>5, SmallerOf
    <3> HIDE DEF F, G, n
    <3> QED BY <1>2, <1>5, <1>11, <2>1, <3>1
  <2>3. m = n
    BY <1>11
  <2>4. (\A k \in 1..n : Nth(G, k) = Nth(F, k)) /\ Nth(G, n + 1) = s
    BY <2>1 DEF Nth
  <2>5. gs = [k \in 1..(n + 1) |-> e(G, k)]
    BY <2>2
  <2>6. (\A k \in 1..n : e(G, k) = e(F, k)) /\ e(G, n + 1) = <<s, Verdict(lost, s)>>
    BY <2>4
  <2>7. gs = Append(fs, <<s, Verdict(lost, s)>>)
    <3> HIDE DEF e, F, G, n, m, fs, gs
    <3>1. fs = [k \in 1..n |-> e(F, k)] /\ n \in Nat
      BY <1>2, <1>7, <2>3
    <3>2. Append(fs, <<s, Verdict(lost, s)>>) = [k \in 1..(n + 1) |-> IF k \in 1..n THEN fs[k] ELSE <<s, Verdict(lost, s)>>]
      BY <1>8, <2>3, <3>1
    <3> QED BY <2>5, <2>6, <3>1, <3>2
  <2>8. Len(fs) \in Nat /\ Len(fs) < MaxFailures
    <3> HIDE DEF fs, e, F, G, m, n
    <3>1. Len(fs) = n
      BY <1>8, <2>3
    <3>2. n \in Nat /\ n < MaxFailures
      BY <1>2, <1>5, <1>11
    <3> QED BY <3>1, <3>2
  <2> HIDE DEF fs, gs, e, m, F, G, n
  <2> QED BY <1>11, <2>7, <2>8
<1>12. Goal
  <2> HIDE DEF Goal, n
  <2> QED BY <1>9, <1>10, <1>11
<1> QED BY <1>1, <1>12

\* Where z is biggest on P.
Top(z, P) == {x \in P : \A r \in P : z[r] <= z[x]}

\* The minimum of a nonempty set of naturals is in it and below the rest.
LEMMA FirstOf ==
  ASSUME NEW T, T \subseteq Nat, T # {}
  PROVE  Min(T) \in T /\ \A y \in T : Min(T) <= y
<1>1. PICK x \in T : \A y \in T : x <= y
  BY Least
<1>2. Min(T) \in T /\ \A y \in T : Min(T) =< y
  BY <1>1 DEF Min
<1> QED BY <1>2

\* A member below the rest is the minimum.
LEMMA MinIs ==
  ASSUME NEW T, T \subseteq Nat, NEW x \in T, \A y \in T : x <= y
  PROVE  Min(T) = x
<1>1. Min(T) \in T /\ Min(T) <= x /\ x <= Min(T)
  BY FirstOf
<1>2. Min(T) \in Nat /\ x \in Nat
  BY <1>1
<1> QED BY <1>1, <1>2

\* One more number, past all others: it is the first of the biggest exactly if
\* it is bigger than what was.
LEMMA TopNext ==
  ASSUME NEW P, NEW z, NEW s \in Nat, P \subseteq Nat, \A r \in P : r < s,
         \A r \in P \cup {s} : z[r] \in Nat, P # {} => Top(z, P) # {}
  PROVE  LET m == Min(Top(z, P)) IN
         /\ Top(z, P \cup {s}) # {}
         /\ P = {} \/ z[s] > z[m] => Min(Top(z, P \cup {s})) = s
         /\ P # {} /\ ~(z[s] > z[m]) => Min(Top(z, P \cup {s})) = m
<1> DEFINE G == P \cup {s}
           m == Min(Top(z, P))
<1>1. P # {} => m \in Top(z, P) /\ \A y \in Top(z, P) : m <= y
  <2>1. Top(z, P) \subseteq Nat
    BY DEF Top
  <2> QED BY <2>1, FirstOf
<1>2. Top(z, G) \subseteq Nat
  BY DEF Top
<1> HIDE DEF m
<1>3. ASSUME P = {} PROVE Top(z, G) = {s}
  BY <1>3 DEF Top
<1>4. ASSUME P # {}, z[s] > z[m] PROVE Top(z, G) = {s}
  <2>1. m \in P /\ \A r \in P : z[r] <= z[m]
    BY <1>1, <1>4 DEF Top
  <2>2. \A r \in P : z[r] < z[s]
    BY <1>4, <2>1
  <2>3. \A r \in P : r \notin Top(z, G)
    BY <2>2 DEF Top
  <2>4. s \in Top(z, G)
    BY <2>2 DEF Top
  <2>5. Top(z, G) \subseteq P \cup {s}
    BY DEF Top
  <2> QED BY <2>3, <2>4, <2>5
<1>5. ASSUME P # {}, ~(z[s] > z[m]) PROVE m \in Top(z, G) /\ \A y \in Top(z, G) : m <= y
  <2>0. m \in P /\ \A r \in P : z[r] <= z[m]
    BY <1>1, <1>5 DEF Top
  <2>1. m \in P /\ (\A r \in P : z[r] <= z[m]) /\ z[s] <= z[m] /\ m < s
    <3>1. z[s] \in Nat /\ z[m] \in Nat
      BY <2>0
    <3> QED BY <1>5, <2>0, <3>1
  <2>2. m \in Top(z, G)
    BY <2>1 DEF Top
  <2>3. ASSUME NEW y \in Top(z, G) PROVE m <= y
    <3>1. CASE y = s
      BY <2>1, <3>1
    <3>2. CASE y # s
      <4>1. y \in P /\ \A r \in P : z[r] <= z[y]
        BY <3>2 DEF Top
      <4>2. y \in Top(z, P)
        BY <4>1 DEF Top
      <4> QED BY <1>1, <1>5, <4>2
    <3> QED BY <3>1, <3>2
  <2> QED BY <2>2, <2>3
<1> HIDE DEF G
<1>6. P = {} \/ z[s] > z[m] => Top(z, G) # {} /\ Min(Top(z, G)) = s
  <2>1. P = {} \/ z[s] > z[m] => Top(z, G) = {s}
    BY <1>3, <1>4
  <2>2. Min({s}) = s
    BY MinIs
  <2> QED BY <2>1, <2>2
<1>7. P # {} /\ ~(z[s] > z[m]) => Top(z, G) # {} /\ Min(Top(z, G)) = m
  BY <1>2, <1>5, MinIs
<1> QED BY <1>6, <1>7 DEF G, m

\* The sizes of the programs.
Sizes == [r \in Seeds |-> prog[r].size]

\* The biggest passing programs are the top of the sizes.
LEMMA BiggestIsTop ==
  ASSUME NEW lost, NEW S \in SUBSET Seeds, prog \in [Seeds -> Programs]
  PROVE  Biggest(lost, S) = Top(Sizes, Passing(lost, S))
<1>1. \A r \in Passing(lost, S) : Sizes[r] = prog[r].size
  BY DEF Sizes, Passing
<1> QED BY <1>1 DEF Biggest, Top

\* The passing programs up to one more seed.
LEMMA PassingNext ==
  ASSUME NEW lost, NEW s \in Seeds, prog \in [Seeds -> Programs]
  PROVE  LET P == Passing(lost, Before(s)) IN
         /\ P \subseteq Seeds /\ P \subseteq Nat /\ \A r \in P : r < s
         /\ Before(s) \in SUBSET Seeds /\ Before(s + 1) \in SUBSET Seeds
         /\ \A r \in P \cup {s} : Sizes[r] \in Nat
         /\ Passing(lost, Before(s + 1)) = IF Verdict(lost, s) = "ok" THEN P \cup {s} ELSE P
<1>1. \A r \in Seeds : Sizes[r] \in Nat
  BY ProgramsAssumption DEF Sizes
<1>2. Before(s) \in SUBSET Seeds /\ Before(s + 1) \in SUBSET Seeds
  BY RangeAssumption DEF Before, Seeds
<1>3. Before(s + 1) = Before(s) \cup {s} /\ Before(s) \subseteq Nat /\ \A r \in Before(s) : r < s
  BY BeforeNext
<1> QED BY <1>1, <1>2, <1>3 DEF Passing

\* Where a program passed there is a biggest one.
LEMMA BiggestExists ==
  ASSUME NEW lost, prog \in [Seeds -> Programs]
  PROVE  \A n \in Nat : First + n <= End /\ Passing(lost, Before(First + n)) # {} => Biggest(lost, Before(First + n)) # {}
<1> DEFINE K == {n \in Nat : First + n <= End /\ Passing(lost, Before(First + n)) # {} => Biggest(lost, Before(First + n)) # {}}
<1>1. 0 \in K
  <2>1. Before(First + 0) = {}
    BY RangeAssumption DEF Before
  <2> QED BY <2>1 DEF Passing
<1>2. ASSUME NEW n \in Nat, n \in K PROVE n + 1 \in K
  <2> SUFFICES ASSUME First + (n + 1) <= End, Passing(lost, Before(First + (n + 1))) # {}
               PROVE  Biggest(lost, Before(First + (n + 1))) # {}
    OBVIOUS
  <2> DEFINE s == First + n
             P == Passing(lost, Before(s))
  <2>1. s \in Seeds /\ s \in Nat /\ s + 1 = First + (n + 1) /\ First + n <= End
    BY RangeAssumption DEF Seeds
  <2>2. P # {} => Biggest(lost, Before(s)) # {}
    BY <1>2, <2>1
  <2> HIDE DEF s
  <2>3. /\ P \subseteq Nat /\ \A r \in P : r < s
        /\ Before(s) \in SUBSET Seeds /\ Before(s + 1) \in SUBSET Seeds
        /\ \A r \in P \cup {s} : Sizes[r] \in Nat
        /\ Passing(lost, Before(s + 1)) = IF Verdict(lost, s) = "ok" THEN P \cup {s} ELSE P
    BY <2>1, PassingNext
  <2>4. Biggest(lost, Before(s)) = Top(Sizes, P) /\ Biggest(lost, Before(s + 1)) = Top(Sizes, Passing(lost, Before(s + 1)))
    BY <2>3, BiggestIsTop
  <2> HIDE DEF P
  <2>5. Top(Sizes, P \cup {s}) # {}
    BY <2>1, <2>2, <2>3, <2>4, TopNext
  <2> QED BY <2>1, <2>2, <2>3, <2>4, <2>5
<1> HIDE DEF K
<1>3. Nat \subseteq K
  BY <1>1, <1>2, Induct
<1> QED BY <1>3 DEF K

\* Comparing the program of one more seed with the largest so far (the loop of run_seeds).
LEMMA LargestNext ==
  ASSUME NEW lost, NEW s \in Seeds, prog \in [Seeds -> Programs]
  PROVE  LET l == Sequential(lost, Before(s)).largest IN
         (IF Verdict(lost, s) = "ok" /\ (l = <<>> \/ prog[s].size > l[2]) THEN <<s, prog[s].size>> ELSE l)
           = Sequential(lost, Before(s + 1)).largest
<1> DEFINE P == Passing(lost, Before(s))
           Q == Passing(lost, Before(s + 1))
           m == Min(Biggest(lost, Before(s)))
           k == Min(Biggest(lost, Before(s + 1)))
           l == IF P = {} THEN <<>> ELSE <<m, prog[m].size>>
           g == IF Q = {} THEN <<>> ELSE <<k, prog[k].size>>
<1>1. l = Sequential(lost, Before(s)).largest /\ g = Sequential(lost, Before(s + 1)).largest
  BY Zenon DEF Sequential
<1>2. /\ P \subseteq Seeds /\ P \subseteq Nat /\ \A r \in P : r < s
      /\ Before(s) \in SUBSET Seeds /\ Before(s + 1) \in SUBSET Seeds
      /\ \A r \in P \cup {s} : Sizes[r] \in Nat
      /\ Q = IF Verdict(lost, s) = "ok" THEN P \cup {s} ELSE P
  BY PassingNext
<1>3. Biggest(lost, Before(s)) = Top(Sizes, P) /\ Biggest(lost, Before(s + 1)) = Top(Sizes, Q)
  BY <1>2, BiggestIsTop
<1>4. P # {} => Biggest(lost, Before(s)) # {}
  <2>1. s - First \in Nat /\ First + (s - First) = s /\ s <= End
    BY RangeAssumption DEF Seeds
  <2> QED BY <2>1, BiggestExists
<1>5. s \in Nat /\ Sizes[s] = prog[s].size
  BY BeforeNext DEF Sizes
<1>6. P # {} => m \in P /\ Sizes[m] = prog[m].size
  <2>1. Top(Sizes, P) \subseteq P
    BY DEF Top
  <2>2. P # {} => m \in P
    BY <1>2, <1>3, <1>4, <2>1, FirstOf
  <2> QED BY <1>2, <2>2 DEF Sizes
<1> HIDE DEF P, Q
<1>6a. m = Min(Top(Sizes, P)) /\ (P # {} => Top(Sizes, P) # {})
  BY <1>3, <1>4
<1> HIDE DEF m
<1>7. /\ P = {} \/ Sizes[s] > Sizes[m] => Min(Top(Sizes, P \cup {s})) = s
      /\ P # {} /\ ~(Sizes[s] > Sizes[m]) => Min(Top(Sizes, P \cup {s})) = m
  BY <1>2, <1>5, <1>6a, TopNext
<1>8. ASSUME Verdict(lost, s) = "ok" PROVE k = Min(Top(Sizes, P \cup {s})) /\ Q # {}
  BY <1>2, <1>3, <1>8
<1>9. ASSUME Verdict(lost, s) # "ok" PROVE g = l
  <2>1. Q = P
    BY <1>2, <1>9
  <2>2. k = m
    BY <1>3, <1>6a, <2>1
  <2> HIDE DEF k
  <2> QED BY <2>1, <2>2
<1> HIDE DEF m, k
<1>10. (IF Verdict(lost, s) = "ok" /\ (l = <<>> \/ prog[s].size > l[2]) THEN <<s, prog[s].size>> ELSE l) = g
  <2>1. CASE Verdict(lost, s) # "ok"
    BY <1>9, <2>1
  <2>2. CASE Verdict(lost, s) = "ok" /\ P = {}
    BY <1>7, <1>8, <2>2
  <2>3. CASE Verdict(lost, s) = "ok" /\ P # {} /\ Sizes[s] > Sizes[m]
    BY <1>5, <1>6, <1>7, <1>8, <2>3
  <2>4. CASE Verdict(lost, s) = "ok" /\ P # {} /\ ~(Sizes[s] > Sizes[m])
    <3>1. l = <<m, prog[m].size>> /\ g = <<m, prog[m].size>>
      BY <1>7, <1>8, <2>4
    <3>2. l # <<>> /\ ~(prog[s].size > l[2])
      BY <1>5, <1>6, <2>4, <3>1
    <3> QED BY <3>1, <3>2
  <2> QED BY <2>1, <2>2, <2>3, <2>4
<1> QED BY <1>1, <1>10

\* With no seed the sequential tally is Tally::default().
LEMMA SequentialEmpty ==
  ASSUME NEW lost
  PROVE  Sequential(lost, {}) = Empty
<1>1. Failing(lost, {}) = {} /\ Passing(lost, {}) = {}
  BY DEF Failing, Passing
<1>2. Cardinality({}) = 0
  BY FS_EmptySet
<1>3. \A c \in Classes : {s \in {} : Verdict(lost, s) = c} = {}
  OBVIOUS
<1>4. Min({MaxFailures, 0}) = 0
  BY MaxFailuresAssumption, SmallerOf
<1>5. SumFunction([s \in {} |-> prog[s].size]) = 0
  BY SumEmpty DEF SumFunction
<1>6. Sequential(lost, {}).count = [c \in Classes |-> 0]
  BY <1>2, <1>3 DEF Sequential
<1>7. Sequential(lost, {}).failures = <<>>
  <2> DEFINE e(k) == LET s == Nth(Failing(lost, {}), k) IN <<s, Verdict(lost, s)>>
             N == 1..Min({MaxFailures, Cardinality(Failing(lost, {}))})
  <2>1. Sequential(lost, {}).failures = [k \in N |-> e(k)]
    BY Zenon DEF Sequential
  <2>2. N = {}
    BY <1>1, <1>2, <1>4
  <2> HIDE DEF e, N
  <2>3. [k \in N |-> e(k)] = <<>>
    BY <2>2
  <2> QED BY <2>1, <2>3
<1>8. Sequential(lost, {}).instructions = 0 /\ Sequential(lost, {}).largest = <<>>
  BY <1>1, <1>5 DEF Sequential
<1> QED BY <1>6, <1>7, <1>8 DEF Sequential, Empty

\* A sum of zeros.
LEMMA SumOfZeros ==
  ASSUME NEW S, IsFiniteSet(S)
  PROVE  SumFunction([x \in S |-> 0]) = 0
<1> DEFINE F == [x \in S |-> 0]
           K == {n \in Nat : \A U \in SUBSET S : Cardinality(U) = n => SumFunctionOnSet(F, U) = 0}
<1>1. \A U \in SUBSET S : IsFiniteSet(U) /\ Cardinality(U) \in Nat /\ Summable(F, U)
  <2>1. \A U \in SUBSET S : IsFiniteSet(U) /\ Cardinality(U) \in Nat
    BY FS_Subset, FS_CardinalityType
  <2>2. \A x \in S : F[x] \in Int
    OBVIOUS
  <2> QED BY <2>1, <2>2 DEF Summable
<1>2. 0 \in K
  <2>1. \A U \in SUBSET S : Cardinality(U) = 0 => U = {}
    BY <1>1, FS_EmptySet
  <2> QED BY <2>1, SumEmpty
<1>3. ASSUME NEW n \in Nat, n \in K PROVE n + 1 \in K
  <2> SUFFICES ASSUME NEW U \in SUBSET S, Cardinality(U) = n + 1 PROVE SumFunctionOnSet(F, U) = 0
    OBVIOUS
  <2>1. PICK x \in U : TRUE
    BY FS_EmptySet
  <2>2. U \ {x} \in SUBSET S /\ Cardinality(U \ {x}) = n
    BY <1>1, <2>1, SmallerSet
  <2>3. SumFunctionOnSet(F, U \ {x}) = 0
    BY <1>3, <2>2
  <2>4. F[x] = 0
    OBVIOUS
  <2> HIDE DEF F
  <2>5. SumFunctionOnSet(F, U) = F[x] + SumFunctionOnSet(F, U \ {x})
    BY <1>1, <2>1, SumWithout
  <2> QED BY <2>3, <2>4, <2>5
<1>4. Nat \subseteq K
  <2> HIDE DEF K
  <2> QED BY <1>2, <1>3, Induct
<1>5. SumFunctionOnSet(F, S) = 0
  <2>1. Cardinality(S) \in K /\ S \in SUBSET S
    BY <1>1, <1>4
  <2> QED BY <2>1
<1>6. DOMAIN F = S
  OBVIOUS
<1> HIDE DEF F
<1>7. SumFunction(F) = 0
  BY <1>5, <1>6 DEF SumFunction
<1> QED BY <1>7 DEF F

\* r is the result of a seed that a sequential run with these losses would get.
Matches(lost, r) ==
    /\ r.seed \in Seeds /\ r.size = prog[r.seed].size
    /\ r.verdict = Verdict(lost, r.seed) /\ r.verdict \in Classes

\* Tallying the result of the next seed makes the sequential tally of the next
\* seed (one turn of the loop of run_seeds).
LEMMA TalliedNext ==
  ASSUME NEW lost, prog \in [Seeds -> Programs], NEW r, Matches(lost, r)
  PROVE  Tallied(Sequential(lost, Before(r.seed)), r) = Sequential(lost, Before(r.seed + 1))
<1> DEFINE s == r.seed
           A == Sequential(lost, Before(s))
           B == Sequential(lost, Before(s + 1))
<1>1. s \in Seeds /\ r.size = prog[s].size /\ r.verdict = Verdict(lost, s) /\ Verdict(lost, s) \in Classes
  BY DEF Matches
<1> HIDE DEF s
<1>2. [A.count EXCEPT ![Verdict(lost, s)] = @ + 1] = B.count
  BY <1>1, CountNext
<1>3. (IF Verdict(lost, s) # "ok" /\ Len(A.failures) < MaxFailures
       THEN Append(A.failures, <<s, Verdict(lost, s)>>) ELSE A.failures) = B.failures
  BY <1>1, FailuresNext
<1>4. A.instructions + prog[s].size = B.instructions
  BY <1>1, SumNext
<1>5. (IF Verdict(lost, s) = "ok" /\ (A.largest = <<>> \/ prog[s].size > A.largest[2]) THEN <<s, prog[s].size>> ELSE A.largest)
         = B.largest
  BY <1>1, LargestNext
<1>6. B = [count |-> B.count, failures |-> B.failures, instructions |-> B.instructions, largest |-> B.largest]
  BY DEF Sequential
<1> HIDE DEF A, B
<1>7. Tallied(A, r) = B
  <2>1. Tallied(A, r) =
          [count |-> [A.count EXCEPT ![r.verdict] = @ + 1],
           failures |-> IF r.verdict # "ok" /\ Len(A.failures) < MaxFailures
                        THEN Append(A.failures, <<r.seed, r.verdict>>) ELSE A.failures,
           instructions |-> A.instructions + r.size,
           largest |-> IF r.verdict = "ok" /\ (A.largest = <<>> \/ r.size > A.largest[2]) THEN <<r.seed, r.size>> ELSE A.largest]
    BY Zenon DEF Tallied
  <2>2. Tallied(A, r) =
          [count |-> B.count, failures |-> B.failures, instructions |-> B.instructions, largest |-> B.largest]
    BY <1>1, <1>2, <1>3, <1>4, <1>5, <2>1, Zenon DEF s
  <2> QED BY <1>6, <2>2
<1> QED BY <1>7 DEF A, B, s

\* One result for every seed of the range.
Complete(rs) ==
    /\ rs \in Results
    /\ \A i, j \in DOMAIN rs : rs[i].seed = rs[j].seed => i = j
    /\ \A s \in Seeds : \E i \in DOMAIN rs : rs[i].seed = s

\* In complete results the place of a result is the place of its seed in the range.
LEMMA RankIsSeed ==
  ASSUME NEW rs, Complete(rs)
  PROVE  /\ DOMAIN rs = 1..(End - First)
         /\ \A i \in DOMAIN rs : rs[i].seed \in Seeds /\ Rank(rs, i) = rs[i].seed - First + 1
<1>1. First \in Nat /\ End \in Nat /\ First <= End /\ Seeds \subseteq Nat
  BY RangeAssumption DEF Seeds
<1>2. Len(rs) \in Nat /\ DOMAIN rs = 1..Len(rs) /\ \A i \in DOMAIN rs : rs[i].seed \in Seeds
  <2> DEFINE R == [seed : Seeds, size : Nat, verdict : Verdicts]
  <2>1. rs \in Seq(R)
    BY DEF Complete, Results
  <2>2. \A r \in R : r.seed \in Seeds
    OBVIOUS
  <2> HIDE DEF R
  <2>3. Len(rs) \in Nat /\ DOMAIN rs = 1..Len(rs) /\ \A i \in DOMAIN rs : rs[i] \in R
    BY <2>1
  <2> QED BY <2>2, <2>3
<1>3. \A i \in DOMAIN rs : IsFiniteSet({j \in DOMAIN rs : Precedes(rs, j, i)})
  <2>1. IsFiniteSet(DOMAIN rs)
    BY <1>2, FS_Interval
  <2> QED BY <2>1, FS_Subset
<1>4. ASSUME NEW T \in SUBSET Seeds, NEW I \in SUBSET (DOMAIN rs), \A i \in DOMAIN rs : i \in I <=> rs[i].seed \in T
      PROVE  Cardinality(I) = Cardinality(T)
  <2> DEFINE f == [i \in I |-> rs[i].seed]
  <2>1. f \in [I -> T] /\ \A i \in I : f[i] = rs[i].seed
    BY <1>4
  <2> HIDE DEF f
  <2>2. IsInjective(f)
    BY <2>1 DEF IsInjective, Complete
  <2>3. \A t \in T : \E i \in I : f[i] = t
    <3> SUFFICES ASSUME NEW t \in T PROVE \E i \in I : f[i] = t
      OBVIOUS
    <3>1. PICK i \in DOMAIN rs : rs[i].seed = t
      BY DEF Complete
    <3> QED BY <1>4, <2>1, <3>1
  <2>4. f \in Bijection(I, T)
    BY <2>1, <2>2, <2>3 DEF Bijection, Injection, Surjection
  <2>5. IsFiniteSet(I)
    <3>1. IsFiniteSet(DOMAIN rs)
      BY <1>2, FS_Interval
    <3> QED BY <3>1, FS_Subset
  <2>6. ExistsBijection(I, T)
    BY <2>4 DEF ExistsBijection
  <2> QED BY <2>5, <2>6, FS_Bijection
<1>5. Cardinality(DOMAIN rs) = End - First
  <2>1. Cardinality(DOMAIN rs) = Cardinality(Seeds)
    BY <1>2, <1>4
  <2>2. Cardinality(First..End - 1) = IF First > End - 1 THEN 0 ELSE (End - 1) - First + 1
    BY <1>1, FS_Interval
  <2> QED BY <1>1, <2>1, <2>2 DEF Seeds
<1>6. Len(rs) = End - First
  <2>1. Cardinality(1..Len(rs)) = IF 1 > Len(rs) THEN 0 ELSE Len(rs) - 1 + 1
    BY <1>2, FS_Interval
  <2> QED BY <1>2, <1>5, <2>1
<1>7. ASSUME NEW i \in DOMAIN rs PROVE Rank(rs, i) = rs[i].seed - First + 1
  <2> DEFINE I == {j \in DOMAIN rs : Precedes(rs, j, i)}
             T == First..rs[i].seed
  <2>1. rs[i].seed \in Nat /\ First <= rs[i].seed /\ rs[i].seed <= End - 1 /\ i <= i
    BY <1>1, <1>2 DEF Seeds
  <2>2. T \in SUBSET Seeds
    BY <1>1, <2>1 DEF Seeds
  <2>3. ASSUME NEW j \in DOMAIN rs PROVE j \in I <=> rs[j].seed \in T
    <3>1. rs[j].seed \in Nat /\ First <= rs[j].seed
      BY <1>1, <1>2 DEF Seeds
    <3>2. rs[j].seed = rs[i].seed => j = i
      BY DEF Complete
    <3>3. Precedes(rs, j, i) <=> rs[j].seed <= rs[i].seed
      BY <2>1, <3>1, <3>2 DEF Precedes
    <3> QED BY <2>1, <3>1, <3>3
  <2>4. I \in SUBSET (DOMAIN rs)
    OBVIOUS
  <2>5. Cardinality(T) = rs[i].seed - First + 1
    BY <1>1, <2>1, FS_Interval
  <2> HIDE DEF I, T
  <2>6. Cardinality(I) = Cardinality(T)
    BY <1>4, <2>2, <2>3, <2>4
  <2> QED BY <2>5, <2>6 DEF Rank, I
<1> QED BY <1>2, <1>6, <1>7

\* So sorting (sort_by_key) puts the k-th seed of the range in place k.
LEMMA SortedBySeed ==
  ASSUME NEW rs, Complete(rs)
  PROVE  /\ DOMAIN Sorted(rs) = 1..(End - First)
         /\ \A k \in 1..(End - First) : \E i \in DOMAIN rs : Sorted(rs)[k] = rs[i] /\ rs[i].seed = First + k - 1
<1>1. /\ DOMAIN rs = 1..(End - First)
      /\ \A i \in DOMAIN rs : rs[i].seed \in Seeds /\ Rank(rs, i) = rs[i].seed - First + 1
  BY RankIsSeed
<1>2. DOMAIN Sorted(rs) = 1..(End - First)
  BY <1>1 DEF Sorted
<1>3. ASSUME NEW k \in 1..(End - First)
      PROVE  \E i \in DOMAIN rs : Sorted(rs)[k] = rs[i] /\ rs[i].seed = First + k - 1
  <2> DEFINE at == CHOOSE i \in DOMAIN rs : Rank(rs, i) = k
  <2>1. First \in Nat /\ End \in Nat /\ k \in Nat /\ First + k - 1 \in Seeds
    BY RangeAssumption DEF Seeds
  <2>2. PICK i \in DOMAIN rs : rs[i].seed = First + k - 1
    BY <2>1 DEF Complete
  <2>3. Rank(rs, i) = k
    BY <1>1, <2>1, <2>2
  <2>4. at \in DOMAIN rs /\ Rank(rs, at) = k
    BY <2>3
  <2>5. Sorted(rs)[k] = rs[at]
    BY <1>1 DEF Sorted
  <2> HIDE DEF at
  <2>6. rs[at].seed - First + 1 = k /\ rs[at].seed \in Nat
    BY <1>1, <2>4, RangeAssumption DEF Seeds
  <2> QED BY <2>1, <2>4, <2>5, <2>6
<1> QED BY <1>2, <1>3

\* And the tally of complete results is the sequential one, whatever their order.
LEMMA TallyIsTheSequentialOne ==
  ASSUME NEW rs, Complete(rs), NEW lost, prog \in [Seeds -> Programs],
         \A i \in DOMAIN rs : Matches(lost, rs[i])
  PROVE  TallyOf(rs) = Sequential(lost, Seeds) /\ SumFunction(TallyOf(rs).count) = End - First
<1> DEFINE n == End - First
           q == Sorted(rs)
<1>1. n \in Nat /\ First \in Nat /\ End \in Nat /\ First + n = End
  BY RangeAssumption
<1>2. DOMAIN q = 1..n /\ \A k \in 1..n : Matches(lost, q[k]) /\ q[k].seed = First + k - 1
  BY SortedBySeed
<1> HIDE DEF q, n
<1>3. PICK t : t[0] = Empty /\ (\A k \in 1..n : t[k] = Tallied(t[k - 1], q[k])) /\ FoldLeft(Tallied, Empty, q) = t[n]
  BY <1>1, <1>2, FoldInOrder
<1> DEFINE K == {k \in Nat : k <= n => t[k] = Sequential(lost, Before(First + k)) /\ SumFunction(t[k].count) = k}
<1>4. IsFiniteSet(Classes)
  <2>1. \A T, x : IsFiniteSet(T) => IsFiniteSet(T \cup {x})
    BY FS_AddElement
  <2> DEFINE With(T, a, b) == (T \cup {a}) \cup {b}
             All == With(With(With(With({}, "ok", "mismatch"), "refused", "compile-panic"),
                              "spawn-fail", "signal"), "timeout", "oracle-fail")
  <2>2. IsFiniteSet(All)
    BY <2>1, FS_EmptySet
  <2>3. Classes = All
    BY DEF Classes
  <2> QED BY <2>2, <2>3
<1>5. 0 \in K
  <2>1. Before(First + 0) = {}
    BY <1>1 DEF Before
  <2>2. t[0] = Sequential(lost, Before(First + 0))
    BY <1>3, <2>1, SequentialEmpty
  <2>3. SumFunction(t[0].count) = 0
    BY <1>3, <1>4, SumOfZeros DEF Empty
  <2> QED BY <2>2, <2>3
<1>6. ASSUME NEW k \in Nat, k \in K PROVE k + 1 \in K
  <2> SUFFICES ASSUME k + 1 <= n
               PROVE  t[k + 1] = Sequential(lost, Before(First + (k + 1))) /\ SumFunction(t[k + 1].count) = k + 1
    OBVIOUS
  <2> DEFINE r == q[k + 1]
  <2>1. k + 1 \in 1..n /\ (k + 1) - 1 = k /\ First + (k + 1) - 1 = First + k /\ (First + k) + 1 = First + (k + 1) /\ k <= n
    BY <1>1
  <2>2. Matches(lost, r) /\ r.seed = First + k
    BY <1>2, <2>1
  <2>3. t[k] = Sequential(lost, Before(First + k)) /\ SumFunction(t[k].count) = k
    BY <1>6, <2>1
  <2>4. t[k + 1] = Tallied(t[k], r)
    BY <1>3, <2>1
  <2> HIDE DEF r
  <2>5. Tallied(Sequential(lost, Before(r.seed)), r) = Sequential(lost, Before(r.seed + 1))
    BY <2>2, TalliedNext
  <2>6. t[k + 1] = Sequential(lost, Before(First + (k + 1)))
    BY <2>1, <2>2, <2>3, <2>4, <2>5
  <2> DEFINE F == t[k].count
  <2>7. t[k + 1].count = [F EXCEPT ![r.verdict] = @ + 1]
    BY <2>4 DEF Tallied
  <2>8. F \in [Classes -> Int] /\ r.verdict \in Classes
    <3>1. F = [c \in Classes |-> Cardinality({s \in Before(First + k) : Verdict(lost, s) = c})]
      BY <2>3 DEF Sequential
    <3>2. First + k \in Seeds
      BY <1>1, <2>1 DEF Seeds
    <3>3. \A c \in Classes : Cardinality({s \in Before(First + k) : Verdict(lost, s) = c}) \in Nat
      BY <3>2, BeforeNext
    <3>4. F \in [Classes -> Int]
      <4> HIDE DEF F
      <4> QED BY <3>1, <3>3
    <3> QED BY <2>2, <3>4 DEF Matches
  <2> HIDE DEF F
  <2>9. SumFunction([F EXCEPT ![r.verdict] = @ + 1]) = SumFunction(F) + 1
    BY <1>4, <2>8, SumBumped
  <2> QED BY <2>3, <2>6, <2>7, <2>9 DEF F
<1>7. Nat \subseteq K
  <2> HIDE DEF K
  <2> QED BY <1>5, <1>6, Induct
<1>8. t[n] = Sequential(lost, Before(First + n)) /\ SumFunction(t[n].count) = n
  <2>1. n \in K /\ n <= n
    BY <1>1, <1>7
  <2> QED BY <2>1
<1>9. Before(First + n) = Seeds
  BY <1>1 DEF Before, Seeds
<1>10. TallyOf(rs) = t[n]
  BY <1>3 DEF TallyOf, q
<1> QED BY <1>8, <1>9, <1>10 DEF n

-----------------------------------------------------------------------------
(* What the pool tallies.                                                  *)

\* A worker has been left without a scratch directory.
Lossy == \E w \in Workers : pc[w] # "new" /\ ~runner[w]

\* v is what check_with gives the program of seed s, or the spawn-fail of a
\* worker without a scratch directory.
Truthful(s, v) ==
    /\ prog[s].verdict # "panics"
    /\ v = prog[s].verdict \/ (v = "spawn-fail" /\ Lossy)

\* Everything found and everything pushed is true of its seed.
Honest ==
    /\ \A w \in Workers : pc[w] = "push" => Truthful(seed[w], found[w])
    /\ \A i \in DOMAIN results : /\ results[i].size = prog[results[i].seed].size
                                 /\ Truthful(results[i].seed, results[i].verdict)

\* What is pushed is what was found, and what was found stays true.
LEMMA HonestInvariant == Accounts /\ Honest /\ [Next]_vars => Honest'
<1> SUFFICES ASSUME Accounts, Honest, [Next]_vars PROVE Honest'
  OBVIOUS
<1> USE DEF Accounts, TypeOK
<1>1. prog' = prog
  BY DEF Next, Work, NewRunner, Take, Check, Panic, Push, Join, vars
<1>2. Lossy => Lossy'
  <2>1. ASSUME NEW w \in Workers, Work(w), Lossy PROVE Lossy'
    <3>1. PICK v \in Workers : pc[v] # "new" /\ ~runner[v]
      BY <2>1 DEF Lossy
    <3>2. runner'[v] = runner[v] /\ pc'[v] # "new"
      BY <2>1, <3>1 DEF Work, NewRunner, Take, Check, Panic, Push
    <3> QED BY <3>1, <3>2 DEF Lossy
  <2>2. CASE Join \/ UNCHANGED vars
    BY <2>2 DEF Join, vars, Lossy
  <2> QED BY <2>1, <2>2 DEF Next
<1>3. \A s, v : Truthful(s, v) => Truthful(s, v)'
  BY <1>1, <1>2 DEF Truthful
<1>4. ASSUME NEW w \in Workers, Work(w) PROVE Honest'
  <2>1. CASE NewRunner(w)
    <3>1. \A v \in Workers : pc'[v] = "push" => pc[v] = "push" /\ seed'[v] = seed[v] /\ found'[v] = found[v]
      BY <2>1 DEF NewRunner
    <3>2. results' = results
      BY <2>1 DEF NewRunner
    <3> QED BY <1>1, <1>3, <3>1, <3>2 DEF Honest
  <2>2. CASE Take(w)
    <3>1. \A v \in Workers : pc'[v] = "push" => pc[v] = "push" /\ seed'[v] = seed[v] /\ found'[v] = found[v]
      BY <2>2 DEF Take
    <3>2. results' = results
      BY <2>2 DEF Take
    <3> QED BY <1>1, <1>3, <3>1, <3>2 DEF Honest
  <2>3. CASE Check(w)
    <3>1. \A v \in Workers \ {w} : pc'[v] = "push" => pc[v] = "push" /\ seed'[v] = seed[v] /\ found'[v] = found[v]
      BY <2>3 DEF Check
    <3>2. results' = results
      BY <2>3 DEF Check
    <3>3. Truthful(seed[w], found'[w])
      <4>1. found'[w] = IF runner[w] THEN prog[seed[w]].verdict ELSE "spawn-fail"
        BY <2>3 DEF Check
      <4>2. prog[seed[w]].verdict # "panics" /\ pc[w] # "new"
        BY <2>3 DEF Check
      <4> QED BY <4>1, <4>2 DEF Truthful, Lossy
    <3>4. Truthful(seed[w], found[w])'
      <4>1. seed'[w] = seed[w]
        BY <2>3 DEF Check
      <4> QED BY <1>1, <1>2, <3>3, <4>1 DEF Truthful
    <3> QED BY <1>1, <1>3, <3>1, <3>2, <3>4 DEF Honest
  <2>4. CASE Panic(w)
    <3>1. \A v \in Workers : pc'[v] = "push" => pc[v] = "push" /\ seed'[v] = seed[v] /\ found'[v] = found[v]
      BY <2>4 DEF Panic
    <3>2. results' = results
      BY <2>4 DEF Panic
    <3> QED BY <1>1, <1>3, <3>1, <3>2 DEF Honest
  <2>5. CASE Push(w)
    <3> DEFINE r == [seed |-> seed[w], size |-> prog[seed[w]].size, verdict |-> found[w]]
    <3>1. \A v \in Workers : pc'[v] = "push" => pc[v] = "push" /\ seed'[v] = seed[v] /\ found'[v] = found[v]
      BY <2>5 DEF Push
    <3>2. results' = Append(results, r)
      BY <2>5 DEF Push
    <3>3. r.size = prog[r.seed].size /\ Truthful(r.seed, r.verdict)
      BY <2>5 DEF Push, Honest
    <3> HIDE DEF r
    <3>4. \A i \in DOMAIN results' : results'[i] = r \/ (i \in DOMAIN results /\ results'[i] = results[i])
      BY <3>2 DEF Results
    <3>5. \A i \in DOMAIN results' :
             results'[i].size = prog[results'[i].seed].size /\ Truthful(results'[i].seed, results'[i].verdict)
      BY <3>3, <3>4 DEF Honest
    <3>6. \A i \in DOMAIN results' :
             results'[i].size = prog'[results'[i].seed].size /\ Truthful(results[i].seed, results[i].verdict)'
      <4> USE DEF Truthful
      <4> QED BY <1>1, <1>2, <3>5
    <3> QED BY <1>3, <3>1, <3>6 DEF Honest
  <2> QED BY <1>4, <2>1, <2>2, <2>3, <2>4, <2>5 DEF Work
<1>5. CASE Join \/ UNCHANGED vars
  <2>1. pc' = pc /\ seed' = seed /\ found' = found /\ results' = results
    BY <1>5 DEF Join, vars
  <2> QED BY <1>1, <1>3, <2>1 DEF Honest
<1> QED BY <1>4, <1>5 DEF Next

\* The tally returned is the one of the results.
TallyMade == phase = "done" => tally = TallyOf(results)

\* What is returned is the tally of the results (the end of run_seeds).
LEMMA TallyMadeInvariant == Accounts /\ Departed /\ TallyMade /\ [Next]_vars => TallyMade'
<1> SUFFICES ASSUME Accounts, Departed, TallyMade, [Next]_vars PROVE TallyMade'
  OBVIOUS
<1>1. ASSUME NEW w \in Workers, Work(w) PROVE TallyMade'
  <2>1. phase # "done" /\ phase' = phase
    BY <1>1 DEF Work, NewRunner, Take, Check, Panic, Push, Departed
  <2> QED BY <2>1 DEF TallyMade
<1>2. CASE Join
  <2>1. phase' = "done" => tally' = TallyOf(results)
    BY <1>2 DEF Join
  <2>2. results' = results
    BY <1>2 DEF Join
  <2>3. TallyOf(results)' = TallyOf(results)
    BY <2>2
  <2> QED BY <2>1, <2>3 DEF TallyMade
<1>3. CASE UNCHANGED vars
  <2>1. phase' = phase /\ tally' = tally /\ results' = results
    BY <1>3 DEF vars
  <2>2. TallyOf(results)' = TallyOf(results)
    BY <2>1
  <2> QED BY <2>1, <2>2 DEF TallyMade
<1> QED BY <1>1, <1>2, <1>3 DEF Next

\* In a state that satisfies the invariants the tally returned is the sequential one.
LEMMA DoneIsSequential == Accounts /\ Departed /\ Honest /\ TallyMade => TallyIsSequential
<1> SUFFICES ASSUME Accounts, Departed, Honest, TallyMade, phase = "done"
             PROVE  /\ SumFunction(tally.count) = End - First
                    /\ \E lost \in SUBSET Seeds :
                          /\ lost # {} => \E w \in Workers : ~runner[w]
                          /\ tally = Sequential(lost, Seeds)
  BY DEF TallyIsSequential
<1> DEFINE lost == {s \in Seeds : \E i \in DOMAIN results : results[i].seed = s /\ results[i].verdict # prog[s].verdict}
<1>1. Complete(results)
  <2>1. \A s \in Seeds : Reported(s)
    BY RangeAssumption, WorkersAssumption
       DEF Accounts, TypeOK, Departed, EverySeedAccounted, Drawn, Holds, Seeds
  <2> QED BY <2>1 DEF Complete, Accounts, TypeOK, NoSeedTwice, Reported
<1>2. prog \in [Seeds -> Programs]
  BY DEF Accounts, TypeOK
<1>3. lost # {} => \E w \in Workers : ~runner[w]
  BY DEF Honest, Truthful, Lossy
<1>4. ASSUME NEW i \in DOMAIN results PROVE Matches(lost, results[i])
  <2> DEFINE s == results[i].seed
  <2>1. s \in Seeds
    BY <1>1, RankIsSeed
  <2>2. results[i].size = prog[s].size /\ Truthful(s, results[i].verdict)
    BY DEF Honest
  <2>3. prog[s].verdict \in Classes
    <3>1. prog[s] \in [size : Nat, verdict : Classes \cup {"panics"}]
      BY <1>2, <2>1, ProgramsAssumption
    <3>2. \A p \in [size : Nat, verdict : Classes \cup {"panics"}] : p.verdict \in Classes \cup {"panics"}
      OBVIOUS
    <3> QED BY <2>2, <3>1, <3>2 DEF Truthful
  <2>4. s \in lost <=> results[i].verdict # prog[s].verdict
    BY <1>1, <2>1 DEF Complete
  <2> HIDE DEF lost
  <2>5. results[i].verdict = Verdict(lost, s)
    BY <2>2, <2>4 DEF Truthful, Verdict
  <2>6. results[i].verdict \in Classes
    BY <2>2, <2>3 DEF Truthful, Classes
  <2> QED BY <2>1, <2>2, <2>5, <2>6 DEF Matches
<1>5. lost \in SUBSET Seeds
  OBVIOUS
<1> HIDE DEF lost
<1>6. TallyOf(results) = Sequential(lost, Seeds) /\ SumFunction(TallyOf(results).count) = End - First
  BY <1>1, <1>2, <1>4, TallyIsTheSequentialOne
<1>7. tally = TallyOf(results)
  BY DEF TallyMade
<1> QED BY <1>3, <1>5, <1>6, <1>7

\* "Results are tallied BY SEED, so the tally does not depend on the worker
\* count": for any number of workers, any interleaving and any set of workers
\* left without a scratch directory, run_seeds returns the tally of one worker
\* going through the range in order.
THEOREM SequentialTally == Spec => []TallyIsSequential
<1>1. Init => Honest /\ TallyMade
  BY DEF Init, Honest, TallyMade
<1>2. Spec => []Accounts
  BY InitAccounts, NextAccounts, PTL DEF Spec
<1> QED
  BY <1>1, <1>2, DepartedInvariant, HonestInvariant, TallyMadeInvariant, DoneIsSequential, PTL DEF Spec

=============================================================================
