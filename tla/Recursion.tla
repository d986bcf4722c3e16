------------------------------- MODULE Recursion -------------------------------
(***************************************************************************)
(* Induction for the proofs of the other modules, stated with sets so that *)
(* it can be cited: every natural number is in a set that has 0 and with   *)
(* each number the next; a recursive definition that goes down in rank has *)
(* a function that satisfies it; and what sums of functions are, and       *)
(* members of sequences.                                                   *)
(***************************************************************************)
EXTENDS Integers, Sequences, FiniteSets, Functions, FiniteSetsExt, FiniteSetTheorems,
        WellFoundedInduction, TLAPS

\* A set of natural numbers has a least element.
LEMMA LeastNumber ==
    ASSUME NEW S, S \subseteq Nat, S # {}
    PROVE  \E n \in S : \A m \in S : n <= m
<1> DEFINE R == OpToRel(<, Nat)
<1>1. IsWellFoundedOn(R, Nat)
  BY NatLessThanWellFounded
<1> HIDE DEF R
<1>2. \E x \in S : \A y \in S : <<y, x>> \notin R
  BY <1>1, WFMin
<1>3. \A x, y \in Nat : <<y, x>> \in R <=> y < x
  BY DEF R, OpToRel
<1>4. PICK x \in S : \A y \in S : <<y, x>> \notin R
  BY <1>2
<1>5. ASSUME NEW y \in S PROVE x <= y
  <2>1. x \in Nat /\ y \in Nat /\ ~(y < x)
    BY <1>3, <1>4
  <2> QED BY <2>1
<1> QED BY <1>5

LEMMA MinIs ==
    ASSUME NEW S, S \subseteq Nat, S # {}
    PROVE  Min(S) \in S /\ \A m \in S : Min(S) <= m
BY LeastNumber DEF Min

LEMMA MaxIs ==
    ASSUME NEW S, S \subseteq Nat, S # {}, NEW N \in Nat, \A m \in S : m <= N
    PROVE  Max(S) \in S /\ \A m \in S : m <= Max(S)
<1>. DEFINE R == {N - m : m \in S}
<1>1. R \subseteq Nat /\ R # {}
  <2>1. ASSUME NEW m \in S PROVE N - m \in Nat
    <3>1. m \in Nat /\ m <= N
      OBVIOUS
    <3> QED BY <3>1
  <2> QED BY <2>1
<1>2. \E n \in R : \A m \in R : n <= m
  <2>. HIDE DEF R
  <2> QED BY <1>1, LeastNumber
<1>3. PICK x \in S : \A m \in S : N - x <= N - m
  BY <1>2
<1>4. ASSUME NEW m \in S PROVE m <= x
  <2>1. m \in Nat /\ x \in Nat /\ N - x <= N - m
    BY <1>3
  <2> QED BY <2>1
<1> QED BY <1>3, <1>4 DEF Max

\* Induction on the natural numbers.
THEOREM Induct ==
    ASSUME NEW S, 0 \in S, \A n \in Nat : n \in S => n + 1 \in S
    PROVE  Nat \subseteq S
<1> SUFFICES ASSUME Nat \ S # {} PROVE FALSE
  OBVIOUS
<1>1. PICK n \in Nat \ S : \A m \in Nat \ S : n <= m
  BY LeastNumber
<1>2. n # 0 /\ n - 1 \in Nat
  BY <1>1
<1>3. n - 1 \in S
  BY <1>1, <1>2
<1> QED BY <1>2, <1>3

\* Induction on the rank of the members of a set.
THEOREM RankInduction ==
    ASSUME NEW D, NEW rank \in [D -> Nat], NEW S,
           \A d \in D : (\A e \in D : rank[e] < rank[d] => e \in S) => d \in S
    PROVE  D \subseteq S
<1> SUFFICES ASSUME D \ S # {} PROVE FALSE
  OBVIOUS
<1> DEFINE ranks == {rank[d] : d \in D \ S}
<1>1. ranks \subseteq Nat /\ ranks # {}
  OBVIOUS
<1>2. \E n \in ranks : \A m \in ranks : n <= m
  <2>. HIDE DEF ranks
  <2> QED BY <1>1, LeastNumber
<1>3. PICK d \in D \ S : \A e \in D \ S : rank[d] <= rank[e]
  BY <1>2
<1>4. ASSUME NEW e \in D, rank[e] < rank[d], e \notin S PROVE FALSE
  <2>1. rank[d] <= rank[e] /\ rank[e] \in Nat /\ rank[d] \in Nat
    BY <1>3, <1>4
  <2> QED BY <1>4, <2>1
<1> QED BY <1>3, <1>4

\* A definition is a function F from functions to functions, whose value at d depends
\* only on values at lower rank, and the ranks have a bound.
GoesDown(D, T, rank, F) ==
    /\ T # {}
    /\ rank \in [D -> Nat]
    /\ \E N \in Nat : \A d \in D : rank[d] < N
    /\ F \in [[D -> T] -> [D -> T]]
    /\ \A g, h \in [D -> T] : \A d \in D :
          (\A e \in D : rank[e] < rank[d] => g[e] = h[e]) => F[g][d] = F[h][d]

\* Then some function satisfies it.
THEOREM RecursiveFunction ==
    ASSUME NEW D, NEW T, NEW rank, NEW F, GoesDown(D, T, rank, F)
    PROVE  \E g \in [D -> T] : g = F[g]
<1>. USE DEF GoesDown
<1>0. PICK N \in Nat : \A d \in D : rank[d] < N
  OBVIOUS
<1> DEFINE S == {n \in Nat : \E g \in [D -> T] : \A d \in D : rank[d] < n => g[d] = F[g][d]}
<1>1. 0 \in S
  <2>1. PICK t \in T : TRUE
    OBVIOUS
  <2>2. [d \in D |-> t] \in [D -> T]
    OBVIOUS
  <2>3. \A d \in D : ~(rank[d] < 0)
    OBVIOUS
  <2> QED BY <2>2, <2>3
<1>2. ASSUME NEW n \in Nat, n \in S PROVE n + 1 \in S
  <2>1. PICK g \in [D -> T] : \A d \in D : rank[d] < n => g[d] = F[g][d]
    BY <1>2
  <2>2. F[g] \in [D -> T]
    BY <2>1
  <2>3. ASSUME NEW d \in D, rank[d] < n + 1
        PROVE  F[g][d] = F[F[g]][d]
    <3>1. \A e \in D : rank[e] < rank[d] => rank[e] < n
      BY <2>3
    <3>2. \A e \in D : rank[e] < rank[d] => g[e] = F[g][e]
      BY <2>1, <3>1
    <3> QED BY <2>1, <2>2, <3>2
  <2> QED BY <2>2, <2>3
<1>3. N \in S
  <2>. HIDE DEF S
  <2> QED BY <1>1, <1>2, Induct
<1>4. PICK g \in [D -> T] : \A d \in D : g[d] = F[g][d]
  BY <1>0, <1>3
<1>5. F[g] \in [D -> T]
  BY <1>4
<1> QED BY <1>4, <1>5

-----------------------------------------------------------------------------
(* Sequences, folded from the first to the last                            *)

LEMMA UpTo ==
    ASSUME NEW k \in Nat
    PROVE  /\ 1 .. 0 = {} /\ 1 .. k + 1 # {}
           /\ Max(1 .. k + 1) = k + 1 /\ (1 .. k + 1) \ {k + 1} = 1 .. k
<1>. DEFINE S == 1 .. k + 1
<1>1. S \subseteq Nat /\ k + 1 \in S /\ k + 1 \in Nat /\ \A m \in S : m <= k + 1
  OBVIOUS
<1>2. Max(S) \in S /\ \A m \in S : m <= Max(S)
  <2>. HIDE DEF S
  <2> QED BY <1>1, MaxIs
<1>3. Max(S) = k + 1
  BY <1>1, <1>2
<1> QED BY <1>3

\* What FoldLeft takes off is the last of what is left, and op is what it does with it.
Folds(N, base, op, iter) ==
    iter = [s \in SUBSET (1 .. N) |->
               IF s = {} THEN base ELSE op[<<iter[s \ {Max(s)}], Max(s)>>]]

THEOREM FoldExists ==
    ASSUME NEW N \in Nat, NEW A, NEW base \in A, NEW op \in [A \X (1 .. N) -> A]
    PROVE  \E iter \in [SUBSET (1 .. N) -> A] : Folds(N, base, op, iter)
<1>. DEFINE D == SUBSET (1 .. N)
            rank == [s \in D |-> Cardinality(s)]
            step(g, s) == IF s = {} THEN base ELSE op[<<g[s \ {Max(s)}], Max(s)>>]
            F == [g \in [D -> A] |-> [s \in D |-> step(g, s)]]
<1>1. ASSUME NEW s \in D
      PROVE  /\ Cardinality(s) \in Nat /\ Cardinality(s) < N + 1
             /\ s # {} => /\ Max(s) \in 1 .. N /\ s \ {Max(s)} \in D
                          /\ Cardinality(s \ {Max(s)}) < Cardinality(s)
  <2>1. IsFiniteSet(1 .. N) /\ Cardinality(1 .. N) <= N
    <3>1. IsFiniteSet(1 .. N) /\ Cardinality(1 .. N) = IF 1 > N THEN 0 ELSE N - 1 + 1
      BY FS_Interval
    <3>2. Cardinality(1 .. N) <= N
      BY <3>1
    <3> QED BY <3>1, <3>2
  <2>2. IsFiniteSet(s) /\ Cardinality(s) <= Cardinality(1 .. N) /\ Cardinality(s) \in Nat
        /\ Cardinality(1 .. N) \in Nat
    BY <2>1, FS_Subset, FS_CardinalityType
  <2>3. Cardinality(s) < N + 1
    BY <2>1, <2>2
  <2>4. ASSUME s # {} PROVE Max(s) \in s
    <3>1. s \subseteq Nat /\ \A m \in s : m <= N
      OBVIOUS
    <3> QED BY <2>4, <3>1, MaxIs
  <2>5. ASSUME s # {} PROVE Cardinality(s \ {Max(s)}) < Cardinality(s)
    <3>1. Cardinality(s \ {Max(s)}) = Cardinality(s) - 1
      BY <2>2, <2>4, <2>5, FS_RemoveElement
    <3> QED BY <2>2, <3>1
  <2> QED BY <2>2, <2>3, <2>4, <2>5
<1>. HIDE DEF D
<1>2. rank \in [D -> Nat] /\ N + 1 \in Nat /\ \A s \in D : rank[s] < N + 1
  <2>1. N + 1 \in Nat
    OBVIOUS
  <2>2. rank \in [D -> Nat]
    BY <1>1
  <2>3. \A s \in D : rank[s] < N + 1
    BY <1>1
  <2> QED BY <2>1, <2>2, <2>3
<1>3. \A s \in D : s # {} => s \ {Max(s)} \in D /\ rank[s \ {Max(s)}] < rank[s] /\ Max(s) \in 1 .. N
  BY <1>1
<1>. HIDE DEF rank
<1>4. F \in [[D -> A] -> [D -> A]]
  <2>1. ASSUME NEW g \in [D -> A], NEW s \in D PROVE step(g, s) \in A
    BY <1>3
  <2>. HIDE DEF step
  <2> QED BY <2>1
<1>5. \A g, h \in [D -> A] : \A s \in D :
          (\A e \in D : rank[e] < rank[s] => g[e] = h[e]) => F[g][s] = F[h][s]
  <2>1. ASSUME NEW g \in [D -> A], NEW h \in [D -> A], NEW s \in D,
               \A e \in D : rank[e] < rank[s] => g[e] = h[e]
        PROVE  step(g, s) = step(h, s)
    BY <1>3, <2>1
  <2>. HIDE DEF step
  <2>2. \A g \in [D -> A], s \in D : F[g][s] = step(g, s)
    OBVIOUS
  <2>. HIDE DEF F
  <2> QED BY <2>1, <2>2
<1>6. \E g \in [D -> A] : g = F[g]
  <2>. HIDE DEF F
  <2>1. GoesDown(D, A, rank, F)
    BY <1>2, <1>4, <1>5 DEF GoesDown
  <2> QED BY <2>1, RecursiveFunction
<1>7. PICK g \in [D -> A] : g = [s \in D |-> step(g, s)]
  BY <1>6
<1>8. Folds(N, base, op, g)
  BY <1>7 DEF Folds, D
<1> QED BY <1>7, <1>8 DEF D

\* Taking the last off leaves a part of 1 .. N.
LEMMA LastOff ==
    ASSUME NEW N \in Nat, NEW s \in SUBSET (1 .. N), s # {}
    PROVE  Max(s) \in 1 .. N /\ s \ {Max(s)} \in SUBSET (1 .. N)
<1>1. s \subseteq Nat /\ \A m \in s : m <= N
  OBVIOUS
<1>2. Max(s) \in s
  BY <1>1, MaxIs
<1> QED BY <1>2

\* What FoldLeft makes goes from one to the next, and its last is what it returns.
Folding(N, A, base, op, iter) ==
    /\ iter[{}] = base
    /\ \A s \in SUBSET (1 .. N) :
          s # {} /\ iter[s \ {Max(s)}] \in A => iter[s] = op[<<iter[s \ {Max(s)}], Max(s)>>]

Steps(N, A, base, op, P) ==
    /\ P \in [0 .. N -> A] /\ P[0] = base
    /\ \A k \in 0 .. N - 1 : P[k + 1] = op[<<P[k], k + 1>>]

Stepped(N, A, base, op, iter) == \E P : Steps(N, A, base, op, P) /\ P[N] = iter[1 .. N]

LEMMA FoldSteps ==
    ASSUME NEW N \in Nat, NEW A, NEW base \in A, NEW op \in [A \X (1 .. N) -> A], NEW iter,
           Folding(N, A, base, op, iter)
    PROVE  Stepped(N, A, base, op, iter)
<1>. DEFINE P == [k \in 0 .. N |-> iter[1 .. k]]
            T == {k \in Nat : k <= N => iter[1 .. k] \in A}
<1>1. iter[1 .. 0] = base
  <2>1. 1 .. 0 = {}
    BY UpTo
  <2> QED BY <2>1 DEF Folding
<1>2. ASSUME NEW k \in Nat, k + 1 <= N, iter[1 .. k] \in A
      PROVE  iter[1 .. k + 1] = op[<<iter[1 .. k], k + 1>>]
  <2>1. 1 .. k + 1 \in SUBSET (1 .. N)
    BY <1>2
  <2>2. 1 .. k + 1 # {} /\ Max(1 .. k + 1) = k + 1 /\ (1 .. k + 1) \ {k + 1} = 1 .. k
    BY UpTo
  <2> QED BY <1>2, <2>1, <2>2 DEF Folding
<1>3. 0 \in T
  BY <1>1
<1>4. ASSUME NEW k \in Nat, k \in T PROVE k + 1 \in T
  <2>1. SUFFICES ASSUME k + 1 <= N PROVE iter[1 .. k + 1] \in A
    OBVIOUS
  <2>2. k <= N /\ k + 1 \in 1 .. N
    BY <2>1
  <2>3. iter[1 .. k] \in A
    BY <1>4, <2>2
  <2>4. <<iter[1 .. k], k + 1>> \in A \X (1 .. N)
    BY <2>2, <2>3
  <2> QED BY <1>2, <2>1, <2>3, <2>4
<1>5. \A k \in Nat : k \in T
  <2>. HIDE DEF T
  <2> QED BY <1>3, <1>4, Induct
<1>6. \A k \in 0 .. N : k \in Nat /\ iter[1 .. k] \in A
  <2>1. \A k \in 0 .. N : k \in Nat /\ k <= N
    OBVIOUS
  <2> QED BY <1>5, <2>1
<1>7. P \in [0 .. N -> A]
  BY <1>6
<1>8. 0 \in 0 .. N /\ N \in 0 .. N
      /\ \A k \in 0 .. N - 1 : k \in 0 .. N /\ k + 1 \in 0 .. N /\ k \in Nat /\ k + 1 <= N
  OBVIOUS
<1>9. P[0] = base /\ P[N] = iter[1 .. N]
  BY <1>1, <1>8
<1>10. \A k \in 0 .. N - 1 : P[k + 1] = op[<<P[k], k + 1>>]
  BY <1>2, <1>6, <1>8
<1>. HIDE DEF P
<1> QED BY <1>7, <1>9, <1>10 DEF Steps, Stepped

-----------------------------------------------------------------------------
(* Sums                                                                    *)


\* Natural numbers are summed over a finite set by taking one off, whichever one.
SumOver(f, S) == FoldFunctionOnSet(+, 0, f, S)

\* The one FoldFunctionOnSet takes.
SomeOf(s) == CHOOSE x \in s : TRUE

LEMMA SomeOfIn == ASSUME NEW s, s # {} PROVE SomeOf(s) \in s
BY DEF SomeOf

LEMMA SumIs ==
    ASSUME NEW f, NEW S, IsFiniteSet(S), \A x \in S : f[x] \in Nat
    PROVE  \E sum \in [SUBSET S -> Nat] :
              /\ \A s \in SUBSET S :
                    sum[s] = IF s = {} THEN 0
                             ELSE f[SomeOf(s)] + sum[s \ {SomeOf(s)}]
              /\ SumOver(f, S) = sum[S]
<1>. DEFINE D == SUBSET S
            step(g, s) == IF s = {} THEN 0 ELSE f[SomeOf(s)] + g[s \ {SomeOf(s)}]
            F == [g \in [D -> Nat] |-> [s \in D |-> step(g, s)]]
            rank == [s \in D |-> Cardinality(s)]
            N == Cardinality(S) + 1
<1>1. ASSUME NEW s \in D, s # {}
      PROVE  SomeOf(s) \in s /\ s \ {SomeOf(s)} \in D /\ f[SomeOf(s)] \in Nat
  BY <1>1, SomeOfIn
<1>2. ASSUME NEW s \in D
      PROVE  /\ IsFiniteSet(s) /\ Cardinality(s) \in Nat /\ Cardinality(s) <= Cardinality(S)
             /\ s # {} => Cardinality(s \ {SomeOf(s)}) = Cardinality(s) - 1
  <2>1. IsFiniteSet(s) /\ Cardinality(s) <= Cardinality(S)
    BY FS_Subset
  <2> QED BY <1>1, <2>1, FS_CardinalityType, FS_RemoveElement
<1>3. Cardinality(S) \in Nat /\ S \in D /\ {} \in D
  BY FS_CardinalityType
<1>. HIDE DEF D
<1>4. rank \in [D -> Nat] /\ N \in Nat /\ \A s \in D : rank[s] < N
  <2>1. ASSUME NEW s \in D PROVE Cardinality(s) \in Nat /\ Cardinality(s) < Cardinality(S) + 1
    <3>1. Cardinality(s) \in Nat /\ Cardinality(s) <= Cardinality(S)
      BY <1>2
    <3> QED BY <1>3, <3>1
  <2> QED BY <1>3, <2>1
<1>5. ASSUME NEW s \in D, s # {}
      PROVE  s \ {SomeOf(s)} \in D /\ rank[s \ {SomeOf(s)}] < rank[s]
  <2>1. s \ {SomeOf(s)} \in D /\ Cardinality(s \ {SomeOf(s)}) < Cardinality(s)
    BY <1>1, <1>2, <1>5
  <2> QED BY <2>1
<1>. HIDE DEF rank, N
<1>6. F \in [[D -> Nat] -> [D -> Nat]]
  <2>1. ASSUME NEW g \in [D -> Nat], NEW s \in D PROVE step(g, s) \in Nat
    BY <1>1
  <2>. HIDE DEF step
  <2> QED BY <2>1
<1>7. \A g, h \in [D -> Nat] : \A s \in D :
          (\A e \in D : rank[e] < rank[s] => g[e] = h[e]) => F[g][s] = F[h][s]
  <2>1. ASSUME NEW g \in [D -> Nat], NEW h \in [D -> Nat], NEW s \in D,
               \A e \in D : rank[e] < rank[s] => g[e] = h[e]
        PROVE  step(g, s) = step(h, s)
    BY <1>5, <2>1
  <2>. HIDE DEF step
  <2>2. \A g \in [D -> Nat], s \in D : F[g][s] = step(g, s)
    OBVIOUS
  <2>. HIDE DEF F
  <2> QED BY <2>1, <2>2
<1>8. \E g \in [D -> Nat] : g = F[g]
  <2>. HIDE DEF F
  <2>1. GoesDown(D, Nat, rank, F)
    BY <1>4, <1>6, <1>7 DEF GoesDown
  <2> QED BY <2>1, RecursiveFunction
<1>9. PICK g \in [D -> Nat] : g = [s \in D |-> step(g, s)]
  BY <1>8
<1>. DEFINE sum == CHOOSE h : h = [s \in D |-> step(h, s)]
<1>10. sum = [s \in D |-> step(sum, s)]
  BY <1>9
<1>11. SumOver(f, S) = sum[S]
  BY DEF SumOver, FoldFunctionOnSet, MapThenFoldSet, SomeOf, D
<1>. HIDE DEF sum
<1>12. \A s \in D : sum[s] = step(sum, s)
  BY <1>10
<1>13. sum \in [D -> Nat]
  <2>. DEFINE T == {s \in D : sum[s] \in Nat}
  <2>1. ASSUME NEW s \in D, \A e \in D : rank[e] < rank[s] => e \in T
        PROVE  s \in T
    <3>1. CASE s = {}
      <4>1. sum[s] = 0
        BY <1>12, <3>1
      <4> QED BY <4>1
    <3>2. CASE s # {}
      <4>1. sum[s \ {SomeOf(s)}] \in Nat /\ f[SomeOf(s)] \in Nat
        BY <1>1, <1>5, <2>1, <3>2
      <4>2. sum[s] = f[SomeOf(s)] + sum[s \ {SomeOf(s)}]
        BY <1>12, <3>2
      <4> QED BY <4>1, <4>2
    <3> QED BY <3>1, <3>2
  <2>2. D \subseteq T
    <3>. HIDE DEF T
    <3> QED BY <1>4, <2>1, RankInduction
  <2> QED BY <1>10, <2>2
<1> QED BY <1>11, <1>12, <1>13 DEF D

\* Induction on the subsets of a finite set.
LEMMA SubsetInduction ==
    ASSUME NEW S, IsFiniteSet(S), NEW T,
           \A s \in SUBSET S : (\A x \in s : s \ {x} \in T) => s \in T
    PROVE  SUBSET S \subseteq T
<1>. DEFINE D == SUBSET S
            rank == [s \in D |-> Cardinality(s)]
<1>1. ASSUME NEW s \in D
      PROVE  /\ Cardinality(s) \in Nat
             /\ \A x \in s : s \ {x} \in D /\ Cardinality(s \ {x}) = Cardinality(s) - 1
  <2>1. IsFiniteSet(s)
    BY FS_Subset
  <2> QED BY <2>1, FS_CardinalityType, FS_RemoveElement
<1>2. rank \in [D -> Nat]
  BY <1>1
<1>3. ASSUME NEW s \in D, \A e \in D : rank[e] < rank[s] => e \in T
      PROVE  s \in T
  <2>1. ASSUME NEW x \in s PROVE s \ {x} \in D /\ rank[s \ {x}] < rank[s]
    <3>1. s \ {x} \in D /\ Cardinality(s) \in Nat /\ Cardinality(s \ {x}) = Cardinality(s) - 1
      BY <1>1
    <3>2. Cardinality(s \ {x}) < Cardinality(s)
      BY <3>1
    <3> QED BY <3>1, <3>2
  <2> QED BY <1>3, <2>1
<1>. HIDE DEF D, rank
<1>4. D \subseteq T
  BY <1>2, <1>3, RankInduction
<1> QED BY <1>4 DEF D

SumsSubsets(f, sum, S) ==
    \A s \in SUBSET S : sum[s] = IF s = {} THEN 0 ELSE f[SomeOf(s)] + sum[s \ {SomeOf(s)}]

LEMMA SumsAgree ==
    ASSUME NEW S, IsFiniteSet(S), NEW f, NEW g, NEW h, SumsSubsets(f, g, S), SumsSubsets(f, h, S)
    PROVE  \A s \in SUBSET S : g[s] = h[s]
<1>. DEFINE T == {s \in SUBSET S : g[s] = h[s]}
<1>1. ASSUME NEW s \in SUBSET S, \A y \in s : s \ {y} \in T
      PROVE  s \in T
  <2>1. s # {} => SomeOf(s) \in s
    BY SomeOfIn
  <2>2. s # {} => g[s \ {SomeOf(s)}] = h[s \ {SomeOf(s)}]
    BY <1>1, <2>1
  <2>3. g[s] = h[s]
    BY <2>2 DEF SumsSubsets
  <2> QED BY <2>3
<1>2. SUBSET S \subseteq T
  <2>. HIDE DEF T
  <2> QED BY <1>1, SubsetInduction
<1> QED BY <1>2

LEMMA SumStep ==
    ASSUME NEW f, NEW S, IsFiniteSet(S), \A x \in S : f[x] \in Nat
    PROVE  /\ SumOver(f, S) \in Nat
           /\ S = {} => SumOver(f, S) = 0
           /\ S # {} => \E x \in S : SumOver(f, S) = f[x] + SumOver(f, S \ {x})
<1>1. PICK sum \in [SUBSET S -> Nat] :
         /\ \A s \in SUBSET S : sum[s] = IF s = {} THEN 0 ELSE f[SomeOf(s)] + sum[s \ {SomeOf(s)}]
         /\ SumOver(f, S) = sum[S]
  BY SumIs
<1>2. ASSUME S # {}
      PROVE  \E x \in S : SumOver(f, S) = f[x] + SumOver(f, S \ {x})
  <2>. DEFINE x == SomeOf(S)
              R == S \ {x}
  <2>1. x \in S /\ IsFiniteSet(R) /\ R \in SUBSET S /\ \A y \in R : f[y] \in Nat
    BY <1>2, SomeOfIn, FS_RemoveElement
  <2>2. PICK part \in [SUBSET R -> Nat] :
           /\ \A s \in SUBSET R : part[s] = IF s = {} THEN 0 ELSE f[SomeOf(s)] + part[s \ {SomeOf(s)}]
           /\ SumOver(f, R) = part[R]
    <3>. HIDE DEF R
    <3> QED BY <2>1, SumIs
  <2>3. SumsSubsets(f, sum, R) /\ SumsSubsets(f, part, R)
    <3>1. \A s \in SUBSET R : s \in SUBSET S
      OBVIOUS
    <3>. HIDE DEF R
    <3> QED BY <1>1, <2>2, <3>1 DEF SumsSubsets
  <2>4. \A s \in SUBSET R : part[s] = sum[s]
    <3>. HIDE DEF R
    <3> QED BY <2>1, <2>3, SumsAgree
  <2>5. part[R] = sum[R]
    BY <2>4
  <2>6. sum[S] = f[x] + sum[R]
    BY <1>1, <1>2
  <2>. HIDE DEF R
  <2>7. SumOver(f, S) = f[x] + SumOver(f, R)
    BY <1>1, <2>2, <2>5, <2>6
  <2> QED BY <2>1, <2>7 DEF R
<1>3. S \in SUBSET S /\ {} \in SUBSET S
  OBVIOUS
<1>4. SumOver(f, S) \in Nat
  BY <1>1, <1>3
<1>5. S = {} => SumOver(f, S) = 0
  BY <1>1, <1>3
<1> QED BY <1>2, <1>4, <1>5

\* Any of the numbers may be taken off.
THEOREM SumOff ==
    ASSUME NEW f, NEW S, IsFiniteSet(S), \A x \in S : f[x] \in Nat, NEW x \in S
    PROVE  SumOver(f, S) = f[x] + SumOver(f, S \ {x})
<1>. DEFINE T == {s \in SUBSET S : \A y \in s : SumOver(f, s) = f[y] + SumOver(f, s \ {y})}
<1>1. ASSUME NEW s \in SUBSET S
      PROVE  IsFiniteSet(s) /\ (\A y \in s : f[y] \in Nat) /\ SumOver(f, s) \in Nat
  <2>1. IsFiniteSet(s) /\ \A y \in s : f[y] \in Nat
    BY FS_Subset
  <2> QED BY <2>1, SumStep
<1>2. ASSUME NEW s \in SUBSET S, \A y \in s : s \ {y} \in T, NEW y \in s
      PROVE  SumOver(f, s) = f[y] + SumOver(f, s \ {y})
  <2>1. PICK z \in s : SumOver(f, s) = f[z] + SumOver(f, s \ {z})
    BY <1>1, SumStep
  <2>2. CASE z = y
    BY <2>1, <2>2
  <2>3. CASE z # y
    <3>. DEFINE rest == (s \ {z}) \ {y}
    <3>1. rest = (s \ {y}) \ {z} /\ y \in s \ {z} /\ z \in s \ {y}
      BY <2>3
    <3>2. SumOver(f, s \ {z}) = f[y] + SumOver(f, rest)
      BY <1>2, <3>1
    <3>3. SumOver(f, s \ {y}) = f[z] + SumOver(f, rest)
      BY <1>2, <3>1
    <3>4. f[y] \in Nat /\ f[z] \in Nat /\ SumOver(f, rest) \in Nat
      BY <1>1
    <3> QED BY <2>1, <3>2, <3>3, <3>4
  <2> QED BY <2>2, <2>3
<1>3. \A s \in SUBSET S : (\A y \in s : s \ {y} \in T) => s \in T
  BY <1>2
<1>4. SUBSET S \subseteq T
  <2>. HIDE DEF T
  <2> QED BY <1>3, SubsetInduction
<1>5. S \in T
  BY <1>4
<1> QED BY <1>5

\* Sums grow with what is summed, and are the same for functions that are the same there.
THEOREM SumLeq ==
    ASSUME NEW f, NEW g, NEW S, IsFiniteSet(S),
           \A x \in S : f[x] \in Nat /\ g[x] \in Nat /\ f[x] <= g[x]
    PROVE  SumOver(f, S) <= SumOver(g, S)
<1>. DEFINE T == {s \in SUBSET S : SumOver(f, s) <= SumOver(g, s)}
<1>1. ASSUME NEW s \in SUBSET S, \A y \in s : s \ {y} \in T
      PROVE  s \in T
  <2>1. IsFiniteSet(s) /\ \A y \in s : f[y] \in Nat /\ g[y] \in Nat
    BY FS_Subset
  <2>2. CASE s = {}
    <3>1. SumOver(f, s) = 0 /\ SumOver(g, s) = 0
      BY <2>1, <2>2, SumStep
    <3> QED BY <3>1
  <2>3. CASE s # {}
    <3>1. PICK y \in s : TRUE
      BY <2>3
    <3>2. SumOver(f, s) = f[y] + SumOver(f, s \ {y}) /\ SumOver(g, s) = g[y] + SumOver(g, s \ {y})
      BY <2>1, SumOff
    <3>3. SumOver(f, s \ {y}) \in Nat /\ SumOver(g, s \ {y}) \in Nat
      <4>1. IsFiniteSet(s \ {y}) /\ \A z \in s \ {y} : f[z] \in Nat /\ g[z] \in Nat
        BY <2>1, FS_RemoveElement
      <4> QED BY <4>1, SumStep
    <3>4. SumOver(f, s \ {y}) <= SumOver(g, s \ {y}) /\ f[y] <= g[y] /\ f[y] \in Nat /\ g[y] \in Nat
      BY <1>1
    <3>5. f[y] + SumOver(f, s \ {y}) <= g[y] + SumOver(g, s \ {y})
      BY <3>3, <3>4
    <3> QED BY <3>2, <3>5
  <2> QED BY <2>2, <2>3
<1>2. SUBSET S \subseteq T
  <2>. HIDE DEF T
  <2> QED BY <1>1, SubsetInduction
<1>3. S \in T
  BY <1>2
<1> QED BY <1>3

LEMMA SumSame ==
    ASSUME NEW f, NEW g, NEW S, IsFiniteSet(S), \A x \in S : f[x] \in Nat /\ g[x] = f[x]
    PROVE  SumOver(f, S) = SumOver(g, S)
<1>1. SumOver(f, S) <= SumOver(g, S) /\ SumOver(g, S) <= SumOver(f, S)
  <2>1. \A x \in S : /\ f[x] \in Nat /\ g[x] \in Nat
                     /\ f[x] <= g[x] /\ g[x] <= f[x]
    OBVIOUS
  <2> QED BY <2>1, SumLeq
<1>2. SumOver(f, S) \in Nat /\ SumOver(g, S) \in Nat
  BY SumStep
<1> QED BY <1>1, <1>2

-----------------------------------------------------------------------------
(* Sequences                                                               *)

LEMMA Joined ==
    ASSUME NEW S, NEW a \in Seq(S), NEW b \in Seq(S)
    PROVE  /\ a \o b \in Seq(S) /\ Len(a \o b) = Len(a) + Len(b)
           /\ \A q \in 1 .. Len(a) : (a \o b)[q] = a[q]
           /\ \A q \in 1 .. Len(b) : (a \o b)[Len(a) + q] = b[q]
OBVIOUS

LEMMA MemberAt == ASSUME NEW S, NEW s \in Seq(S) PROVE \A q \in 1 .. Len(s) : s[q] \in S
OBVIOUS
================================================================================
