-------------------------- MODULE PosManagerProofs --------------------------
(***************************************************************************)
(* Type correctness of PosManager and the balance of every paid ticket,    *)
(* for every menu, pricing, tax rate and number of tickets, orders, days,  *)
(* crashes and failed writes; and the lines of a ticket: what each change  *)
(* does to its subtotal, which of them can give two lines one key, and     *)
(* that a restart leaves the bill alone.                                   *)
(***************************************************************************)
EXTENDS PosManager, FiniteSetTheorems, SequenceTheorems, WellFoundedInduction, TLAPS

-----------------------------------------------------------------------------
(* Sums over a finite set.  SumFunctionOnSet is a recursive function on the *)
(* subsets of the set; what is known of it rests on that function existing, *)
(* shown by taking a least cardinality for which it would not.              *)

\* A set of naturals that is not empty has a least element.
LEMMA LeastElement ==
  ASSUME NEW T, T \subseteq Nat, T # {}
  PROVE  \E m \in T : \A n \in T : m <= n
<1> DEFINE R == {ss \in Nat \X Nat : ss[1] < ss[2]}
<1>1. IsWellFoundedOn(R, Nat)
  BY NatLessThanWellFounded DEF OpToRel
<1>2. \A x, y \in Nat : x < y => <<x, y>> \in R
  OBVIOUS
<1> HIDE DEF R
<1>3. PICK x \in T : \A y \in T : ~(<<y, x>> \in R)
  BY <1>1, WFMin
<1>4. \A y \in T : ~(y < x)
  BY <1>2, <1>3
<1>5. QED
  BY <1>4

Pick(s) == CHOOSE x \in s : TRUE

\* The equation of the sums of F over the subsets of S.
SumStep(F, S, sums) ==
  [s \in SUBSET S |-> IF s = {} THEN 0 ELSE F[Pick(s)] + sums[s \ {Pick(s)}]]

PartialSums(F, S) == CHOOSE sums : sums = SumStep(F, S, sums)

LEMMA SumUnfolds ==
  ASSUME NEW F, NEW S
  PROVE  SumFunctionOnSet(F, S) = PartialSums(F, S)[S]
  BY DEF SumFunctionOnSet, FoldFunctionOnSet, MapThenFoldSet, PartialSums, SumStep, Pick

Small(S, n) == {s \in SUBSET S : Cardinality(s) <= n}

\* g solves the equation for the subsets of at most n elements.
SolvesUpTo(F, S, n, g) ==
  /\ g \in [Small(S, n) -> Int]
  /\ \A s \in Small(S, n) :
       g[s] = IF s = {} THEN 0 ELSE F[Pick(s)] + g[s \ {Pick(s)}]

\* One element less.
LEMMA PickLeavesLess ==
  ASSUME NEW S, IsFiniteSet(S), NEW s \in SUBSET S, s # {}
  PROVE  /\ Pick(s) \in s /\ s \ {Pick(s)} \in SUBSET S
         /\ Cardinality(s) \in Nat /\ Cardinality(s \ {Pick(s)}) = Cardinality(s) - 1
<1>1. Pick(s) \in s
  BY DEF Pick
<1>2. IsFiniteSet(s)
  BY FS_Subset
<1>3. Cardinality(s) \in Nat /\ Cardinality(s \ {Pick(s)}) = Cardinality(s) - 1
  BY <1>1, <1>2, FS_CardinalityType, FS_RemoveElement
<1>4. QED
  BY <1>1, <1>3

LEMMA SolutionGrows ==
  ASSUME NEW S, IsFiniteSet(S), NEW F \in [S -> Int],
         NEW n \in Nat, NEW g, SolvesUpTo(F, S, n, g)
  PROVE  \E h : SolvesUpTo(F, S, n + 1, h)
<1> DEFINE h == [s \in Small(S, n + 1) |-> IF s = {} THEN 0 ELSE F[Pick(s)] + g[s \ {Pick(s)}]]
<1>1. \A s \in Small(S, n) : s \in Small(S, n + 1) /\ h[s] = g[s]
  <2>1. ASSUME NEW s \in Small(S, n)
        PROVE  s \in Small(S, n + 1)
    <3>1. Cardinality(s) \in Nat /\ Cardinality(s) <= n
      BY <2>1, FS_Subset, FS_CardinalityType DEF Small
    <3>2. QED
      BY <3>1 DEF Small
  <2>2. QED
    BY <2>1 DEF SolvesUpTo
<1>2. ASSUME NEW s \in Small(S, n + 1), s # {}
      PROVE  Pick(s) \in S /\ s \ {Pick(s)} \in Small(S, n)
  BY <1>2, PickLeavesLess DEF Small
<1>3. \A s \in Small(S, n + 1) : h[s] \in Int
  BY <1>2 DEF SolvesUpTo
<1>4. \A s \in Small(S, n + 1) :
        h[s] = IF s = {} THEN 0 ELSE F[Pick(s)] + h[s \ {Pick(s)}]
  BY <1>1, <1>2
<1>5. h \in [Small(S, n + 1) -> Int]
  BY <1>3
<1> HIDE DEF h
<1>6. SolvesUpTo(F, S, n + 1, h)
  BY <1>4, <1>5 DEF SolvesUpTo
<1>7. QED
  BY <1>6

LEMMA SolutionExists ==
  ASSUME NEW S, IsFiniteSet(S), NEW F \in [S -> Int], NEW n \in Nat
  PROVE  \E g : SolvesUpTo(F, S, n, g)
<1> DEFINE Bad == {m \in Nat : ~(\E g : SolvesUpTo(F, S, m, g))}
<1>1. SUFFICES ASSUME Bad # {} PROVE FALSE
  OBVIOUS
<1>2. PICK m \in Bad : \A k \in Bad : m <= k
  BY <1>1, LeastElement
<1>3. m \in Nat /\ ~(\E g : SolvesUpTo(F, S, m, g))
  BY <1>2
<1>4. CASE m = 0
  <2> DEFINE g == [s \in Small(S, 0) |-> 0]
  <2>1. \A s \in Small(S, 0) : s = {}
    <3>1. ASSUME NEW s \in Small(S, 0)
          PROVE  s = {}
      <4>1. IsFiniteSet(s) /\ Cardinality(s) <= 0
        BY <3>1, FS_Subset DEF Small
      <4>2. Cardinality(s) = 0
        BY <4>1, FS_CardinalityType
      <4>3. QED
        BY <4>1, <4>2, FS_EmptySet
    <3>2. QED
      BY <3>1
  <2>2. SolvesUpTo(F, S, 0, g)
    BY <2>1 DEF SolvesUpTo
  <2>3. QED
    BY <1>3, <1>4, <2>2
<1>5. CASE m # 0
  <2>1. m - 1 \in Nat /\ m - 1 \notin Bad
    BY <1>2, <1>3, <1>5
  <2>2. PICK g : SolvesUpTo(F, S, m - 1, g)
    BY <2>1
  <2>3. \E h : SolvesUpTo(F, S, (m - 1) + 1, h)
    BY <2>1, <2>2, SolutionGrows
  <2>4. (m - 1) + 1 = m
    BY <1>3
  <2>5. QED
    BY <1>3, <2>3, <2>4
<1>6. QED
  BY <1>4, <1>5

\* The sums over the subsets of a finite set are integers and satisfy their
\* equation.
LEMMA SumsAreSums ==
  ASSUME NEW S, IsFiniteSet(S), NEW F \in [S -> Int]
  PROVE  /\ PartialSums(F, S) = SumStep(F, S, PartialSums(F, S))
         /\ PartialSums(F, S)[{}] = 0
         /\ \A s \in SUBSET S : s # {} =>
              PartialSums(F, S)[s] = F[Pick(s)] + PartialSums(F, S)[s \ {Pick(s)}]
<1> DEFINE n == Cardinality(S)
<1>1. n \in Nat
  BY FS_CardinalityType
<1>2. PICK g : SolvesUpTo(F, S, n, g)
  BY <1>1, SolutionExists
<1>3. Small(S, n) = SUBSET S
  BY FS_Subset DEF Small
<1> HIDE DEF n
<1>4. g = SumStep(F, S, g)
  BY <1>2, <1>3 DEF SolvesUpTo, SumStep
<1>5. PartialSums(F, S) = SumStep(F, S, PartialSums(F, S))
  BY <1>4 DEF PartialSums
<1> DEFINE p == PartialSums(F, S)
<1>6. p = SumStep(F, S, p)
  BY <1>5
<1> HIDE DEF p
<1>7. \A s \in SUBSET S : p[s] = IF s = {} THEN 0 ELSE F[Pick(s)] + p[s \ {Pick(s)}]
  BY <1>6 DEF SumStep
<1>8. QED
  BY <1>6, <1>7 DEF p


LEMMA PartialSumsType ==
  ASSUME NEW S, IsFiniteSet(S), NEW F \in [S -> Int], NEW s \in SUBSET S
  PROVE  PartialSums(F, S)[s] \in Int
<1> DEFINE Bad == {m \in Nat : \E u \in SUBSET S :
                       Cardinality(u) = m /\ PartialSums(F, S)[u] \notin Int}
<1>1. SUFFICES ASSUME Bad # {} PROVE FALSE
  <2>1. Cardinality(s) \in Nat
    BY FS_Subset, FS_CardinalityType
  <2>2. QED
    BY <1>1, <2>1
<1>2. PICK m \in Bad : \A k \in Bad : m <= k
  BY <1>1, LeastElement
<1>3. PICK u \in SUBSET S : Cardinality(u) = m /\ PartialSums(F, S)[u] \notin Int
  BY <1>2
<1>4. u # {}
  <2>1. PartialSums(F, S)[{}] = 0
    BY SumsAreSums
  <2>2. QED
    BY <1>3, <2>1
<1> DEFINE v == u \ {Pick(u)}
<1>5. Pick(u) \in S /\ v \in SUBSET S /\ m \in Nat /\ Cardinality(v) = m - 1 /\ m - 1 \in Nat
  <2>1. /\ Pick(u) \in u /\ v \in SUBSET S
        /\ Cardinality(u) \in Nat /\ Cardinality(v) = Cardinality(u) - 1
    BY <1>4, PickLeavesLess
  <2>2. Cardinality(v) \in Nat
    BY <2>1, FS_Subset, FS_CardinalityType
  <2>3. QED
    BY <1>3, <2>1, <2>2
<1>6. m - 1 \notin Bad
  BY <1>2, <1>5
<1>7. PartialSums(F, S)[v] \in Int
  BY <1>5, <1>6
<1>8. PartialSums(F, S)[u] = F[Pick(u)] + PartialSums(F, S)[v]
  BY <1>4, SumsAreSums
<1>9. QED
  BY <1>3, <1>5, <1>7, <1>8

\* A sum over a finite set is an integer; over the empty set it is 0.
LEMMA SumType ==
  ASSUME NEW S, IsFiniteSet(S), NEW F \in [S -> Int]
  PROVE  SumFunctionOnSet(F, S) \in Int
  BY SumUnfolds, PartialSumsType

LEMMA SumOfNothing ==
  ASSUME NEW F \in [{} -> Int]
  PROVE  SumFunctionOnSet(F, {}) = 0
  BY SumUnfolds, SumsAreSums, FS_EmptySet

LEMMA SumOfOne ==
  ASSUME NEW x, NEW F \in [{x} -> Int]
  PROVE  SumFunctionOnSet(F, {x}) = F[x]
<1>1. IsFiniteSet({x})
  BY FS_Singleton
<1>2. Pick({x}) = x /\ {x} \ {Pick({x})} = {} /\ {x} \in SUBSET {x} /\ {x} # {}
  BY DEF Pick
<1>3. PartialSums(F, {x})[{x}] = F[Pick({x})] + PartialSums(F, {x})[{x} \ {Pick({x})}]
  <2>1. \A s \in SUBSET {x} : s # {} =>
          PartialSums(F, {x})[s] = F[Pick(s)] + PartialSums(F, {x})[s \ {Pick(s)}]
    BY <1>1, SumsAreSums
  <2>2. QED
    BY <1>2, <2>1
<1>4. PartialSums(F, {x})[{}] = 0
  BY <1>1, SumsAreSums
<1>5. PartialSums(F, {x})[{x}] = F[x] + 0 /\ F[x] \in Int
  BY <1>2, <1>3, <1>4
<1>6. QED
  BY <1>5, SumUnfolds

\* The sum of a figure that is the sum of two others is the sum of their sums.
LEMMA SumAdds ==
  ASSUME NEW S, IsFiniteSet(S), NEW F \in [S -> Int], NEW G \in [S -> Int],
         NEW H \in [S -> Int], \A x \in S : H[x] = F[x] + G[x]
  PROVE  SumFunctionOnSet(H, S) = SumFunctionOnSet(F, S) + SumFunctionOnSet(G, S)
<1> DEFINE P(s) == PartialSums(H, S)[s] = PartialSums(F, S)[s] + PartialSums(G, S)[s]
           Bad == {m \in Nat : \E u \in SUBSET S : Cardinality(u) = m /\ ~P(u)}
<1>1. SUFFICES ASSUME Bad # {} PROVE FALSE
  <2>1. Cardinality(S) \in Nat
    BY FS_CardinalityType
  <2>2. P(S)
    BY <1>1, <2>1
  <2>3. QED
    BY <2>2, SumUnfolds
<1>2. PICK m \in Bad : \A k \in Bad : m <= k
  BY <1>1, LeastElement
<1>3. PICK u \in SUBSET S : Cardinality(u) = m /\ ~P(u)
  BY <1>2
<1>4. u # {}
  <2>1. P({})
    BY SumsAreSums
  <2>2. QED
    BY <1>3, <2>1
<1> DEFINE v == u \ {Pick(u)}
<1>5. Pick(u) \in S /\ v \in SUBSET S /\ m \in Nat /\ Cardinality(v) = m - 1 /\ m - 1 \in Nat
  <2>1. /\ Pick(u) \in u /\ v \in SUBSET S
        /\ Cardinality(u) \in Nat /\ Cardinality(v) = Cardinality(u) - 1
    BY <1>4, PickLeavesLess
  <2>2. Cardinality(v) \in Nat
    BY <2>1, FS_Subset, FS_CardinalityType
  <2>3. QED
    BY <1>3, <2>1, <2>2
<1>6. m - 1 \notin Bad
  BY <1>2, <1>5
<1>7. P(v)
  BY <1>5, <1>6
<1>8. /\ PartialSums(F, S)[u] = F[Pick(u)] + PartialSums(F, S)[v]
      /\ PartialSums(G, S)[u] = G[Pick(u)] + PartialSums(G, S)[v]
      /\ PartialSums(H, S)[u] = H[Pick(u)] + PartialSums(H, S)[v]
  BY <1>4, SumsAreSums
<1>9. /\ PartialSums(F, S)[v] \in Int /\ PartialSums(G, S)[v] \in Int
      /\ F[Pick(u)] \in Int /\ G[Pick(u)] \in Int
      /\ H[Pick(u)] = F[Pick(u)] + G[Pick(u)]
  BY <1>5, PartialSumsType
<1>10. P(u)
  BY <1>7, <1>8, <1>9
<1>11. QED
  BY <1>3, <1>10

\* Whatever holds of the empty set, and of each set when it holds of the sets
\* with one element less, holds of every subset of a finite set: a least
\* cardinality at which a family H misses a subset leads to a contradiction.
LEMMA BySubsets ==
  ASSUME NEW S, IsFiniteSet(S), NEW H,
         {} \in H,
         \A u \in SUBSET S : (u # {} /\ \A x \in u : u \ {x} \in H) => u \in H
  PROVE  \A u \in SUBSET S : u \in H
<1> DEFINE Bad == {m \in Nat : \E u \in SUBSET S : Cardinality(u) = m /\ u \notin H}
<1>1. SUFFICES ASSUME NEW w \in SUBSET S, w \notin H PROVE FALSE
  OBVIOUS
<1>2. Bad # {}
  <2>1. Cardinality(w) \in Nat
    BY FS_Subset, FS_CardinalityType
  <2>2. QED
    BY <1>1, <2>1
<1>3. PICK m \in Bad : \A k \in Bad : m <= k
  BY <1>2, LeastElement
<1>4. PICK u \in SUBSET S : Cardinality(u) = m /\ u \notin H
  BY <1>3
<1>5. u # {}
  BY <1>4
<1>6. ASSUME NEW x \in u PROVE u \ {x} \in H
  <2>1. IsFiniteSet(u) /\ IsFiniteSet(u \ {x}) /\ u \ {x} \in SUBSET S
    BY FS_Subset
  <2>2. Cardinality(u \ {x}) = m - 1 /\ Cardinality(u \ {x}) \in Nat /\ m \in Nat
    BY <1>4, <2>1, FS_RemoveElement, FS_CardinalityType
  <2>3. m - 1 \notin Bad
    BY <1>3, <2>2
  <2>4. QED
    BY <2>1, <2>2, <2>3
<1>7. QED
  BY <1>4, <1>5, <1>6

\* One element of a set may be taken out of its sum first, whichever it is.
LEMMA PartialWithout ==
  ASSUME NEW S, IsFiniteSet(S), NEW F \in [S -> Int], NEW v \in SUBSET S, NEW y \in v
  PROVE  PartialSums(F, S)[v] = F[y] + PartialSums(F, S)[v \ {y}]
<1> DEFINE p == PartialSums(F, S)
           H == {w \in SUBSET S : \A z \in w : p[w] = F[z] + p[w \ {z}]}
<1>1. \A u \in SUBSET S : u # {} => p[u] = F[Pick(u)] + p[u \ {Pick(u)}]
  BY SumsAreSums
<1>2. \A u \in SUBSET S : p[u] \in Int
  BY PartialSumsType
<1> HIDE DEF p
<1>3. {} \in H
  OBVIOUS
<1>4. ASSUME NEW u \in SUBSET S, u # {}, \A x \in u : u \ {x} \in H
      PROVE  u \in H
  <2> DEFINE c == Pick(u)
  <2>1. c \in u /\ p[u] = F[c] + p[u \ {c}]
    BY <1>1, <1>4 DEF Pick
  <2> HIDE DEF c
  <2>2. ASSUME NEW x \in u, x # c PROVE p[u] = F[x] + p[u \ {x}]
    <3>1. p[u \ {c}] = F[x] + p[(u \ {c}) \ {x}]
      BY <1>4, <2>1, <2>2
    <3>2. p[u \ {x}] = F[c] + p[(u \ {x}) \ {c}]
      BY <1>4, <2>1, <2>2
    <3>3. (u \ {c}) \ {x} = (u \ {x}) \ {c}
      OBVIOUS
    <3> DEFINE rest == p[(u \ {c}) \ {x}]
    <3>4. F[x] \in Int /\ F[c] \in Int /\ rest \in Int
      BY <1>2, <2>1, <2>2
    <3>5. p[u \ {x}] = F[c] + rest /\ p[u] = F[c] + (F[x] + rest)
      BY <2>1, <3>1, <3>2, <3>3
    <3> HIDE DEF rest
    <3>6. QED
      BY <3>4, <3>5
  <2>3. QED
    BY <2>1, <2>2
<1>5. \A u \in SUBSET S : u \in H
  <2> HIDE DEF H
  <2>1. QED
    BY <1>3, <1>4, BySubsets
<1>6. v \in H
  BY <1>5
<1>7. p[v] = F[y] + p[v \ {y}]
  BY <1>6
<1>8. QED
  BY <1>7 DEF p

\* p has the sums of F over the subsets of S, each the sum of a set with one
\* element less and the figure of that element, whichever it is.
Unfolds(p, F, S) ==
    p[{}] = 0 /\ \A u \in SUBSET S : \A x \in u : p[u] = F[x] + p[u \ {x}]

LEMMA PartialsUnfold ==
  ASSUME NEW S, IsFiniteSet(S), NEW F \in [S -> Int]
  PROVE  Unfolds(PartialSums(F, S), F, S)
<1> DEFINE p == PartialSums(F, S)
<1>1. p[{}] = 0
  BY SumsAreSums
<1>2. ASSUME NEW u \in SUBSET S, NEW x \in u PROVE p[u] = F[x] + p[u \ {x}]
  BY PartialWithout
<1> HIDE DEF p
<1>3. Unfolds(p, F, S)
  BY <1>1, <1>2 DEF Unfolds
<1>4. QED
  BY <1>3 DEF p

\* The elements of S correspond to those of T under b, with the same figures.
SameFigures(b, F, S, G, T) ==
  /\ b \in [S -> T]
  /\ \A x, y \in S : b[x] = b[y] => x = y
  /\ \A t \in T : \E x \in S : b[x] = t
  /\ \A x \in S : F[x] = G[b[x]]

\* Sums over two sets whose elements correspond are the same.
LEMMA SumMoves ==
  ASSUME NEW S, IsFiniteSet(S), NEW F \in [S -> Int],
         NEW T, IsFiniteSet(T), NEW G \in [T -> Int],
         NEW b, SameFigures(b, F, S, G, T)
  PROVE  SumFunctionOnSet(F, S) = SumFunctionOnSet(G, T)
<1> USE DEF SameFigures
<1> DEFINE p == PartialSums(F, S)
           q == PartialSums(G, T)
           H == {w \in SUBSET S : p[w] = q[{b[z] : z \in w}]}
<1>1. p[{}] = 0 /\ \A u \in SUBSET S : \A x \in u : p[u] = F[x] + p[u \ {x}]
  <2>1. Unfolds(p, F, S)
    BY PartialsUnfold
  <2> HIDE DEF p
  <2>2. QED
    BY <2>1 DEF Unfolds
<1>2. q[{}] = 0 /\ \A v \in SUBSET T : \A y \in v : q[v] = G[y] + q[v \ {y}]
  <2>1. Unfolds(q, G, T)
    BY PartialsUnfold
  <2> HIDE DEF q
  <2>2. QED
    BY <2>1 DEF Unfolds
<1> HIDE DEF p, q
<1>3. {} \in H
  <2>1. {b[x] : x \in {}} = {}
    OBVIOUS
  <2>2. QED
    BY <1>1, <1>2, <2>1
<1>4. ASSUME NEW u \in SUBSET S, u # {}, \A x \in u : u \ {x} \in H
      PROVE  u \in H
  <2>1. PICK x \in u : TRUE
    BY <1>4
  <2> DEFINE v == {b[y] : y \in u}
  <2>2. b[x] \in v /\ v \in SUBSET T /\ {b[y] : y \in u \ {x}} = v \ {b[x]}
    BY <2>1
  <2>3. p[u \ {x}] = q[v \ {b[x]}]
    <3>1. p[u \ {x}] = q[{b[z] : z \in u \ {x}}]
      BY <1>4, <2>1
    <3> HIDE DEF v
    <3>2. QED
      BY <2>2, <3>1
  <2> HIDE DEF v
  <2>4. p[u] = F[x] + p[u \ {x}] /\ q[v] = G[b[x]] + q[v \ {b[x]}]
    BY <1>1, <1>2, <2>1, <2>2
  <2>5. F[x] = G[b[x]]
    BY <2>1
  <2>6. p[u] = q[v]
    BY <2>3, <2>4, <2>5
  <2>7. QED
    BY <2>6 DEF v
<1>5. \A u \in SUBSET S : u \in H
  <2> HIDE DEF H
  <2>1. QED
    BY <1>3, <1>4, BySubsets
<1>6. p[S] = q[{b[x] : x \in S}]
  BY <1>5
<1>7. {b[x] : x \in S} = T
  OBVIOUS
<1>8. QED
  BY <1>6, <1>7, SumUnfolds DEF p, q

\* The sum over a set without one of its elements.
LEMMA SumWithout ==
  ASSUME NEW S, IsFiniteSet(S), NEW F \in [S -> Int], NEW x \in S
  PROVE  SumFunctionOnSet(F, S)
           = F[x] + SumFunctionOnSet([y \in S \ {x} |-> F[y]], S \ {x})
<1> DEFINE R == S \ {x}
           E == [y \in R |-> F[y]]
           p == PartialSums(F, S)
           q == PartialSums(E, R)
           H == {w \in SUBSET R : p[w] = q[w]}
<1>1. IsFiniteSet(R) /\ E \in [R -> Int] /\ R \in SUBSET S
  BY FS_Subset
<1>2. \A y \in R : E[y] = F[y]
  OBVIOUS
<1> HIDE DEF R, E
<1>3. p[{}] = 0 /\ \A u \in SUBSET S : \A y \in u : p[u] = F[y] + p[u \ {y}]
  <2>1. Unfolds(p, F, S)
    BY PartialsUnfold
  <2> HIDE DEF p, q
  <2>2. QED
    BY <2>1 DEF Unfolds
<1>10. q[{}] = 0 /\ \A v \in SUBSET R : \A y \in v : q[v] = E[y] + q[v \ {y}]
  <2>1. Unfolds(q, E, R)
    BY <1>1, PartialsUnfold
  <2> HIDE DEF p, q
  <2>2. QED
    BY <2>1 DEF Unfolds
<1> HIDE DEF p, q
<1>4. {} \in H
  BY <1>3, <1>10
<1>5. ASSUME NEW u \in SUBSET R, u # {}, \A y \in u : u \ {y} \in H
      PROVE  u \in H
  <2>1. PICK y \in u : TRUE
    BY <1>5
  <2>2. p[u \ {y}] = q[u \ {y}]
    BY <1>5, <2>1
  <2>3. p[u] = F[y] + p[u \ {y}] /\ q[u] = E[y] + q[u \ {y}] /\ E[y] = F[y]
    BY <1>1, <1>2, <1>3, <1>10, <2>1
  <2>4. QED
    BY <2>2, <2>3
<1>6. \A u \in SUBSET R : u \in H
  <2> HIDE DEF H
  <2>1. QED
    BY <1>1, <1>4, <1>5, BySubsets
<1>7. p[R] = q[R]
  BY <1>6
<1>8. p[S] = F[x] + p[R]
  BY <1>3 DEF R
<1>9. QED
  BY <1>7, <1>8, SumUnfolds DEF p, q, E, R

-----------------------------------------------------------------------------
(* The operators of TicketLines, for every set of lines *)

\* recalculate's llround returns the nearest cent: the tax is within half a
\* cent of subtotal * rate, on either side (in units of 1/20000 cent).
THEOREM TaxIsNearestCent ==
  ASSUME NEW subtotal \in Int, NEW bps \in Nat
  PROVE  /\ RoundedTax(subtotal, bps) \in Int
         /\ 20000 * RoundedTax(subtotal, bps) - 2 * (subtotal * bps) <= 10000
         /\ 2 * (subtotal * bps) - 20000 * RoundedTax(subtotal, bps) <= 10000
<1> DEFINE p == subtotal * bps
<1>1. p \in Int
  OBVIOUS
<1>2. /\ 2 * subtotal * bps = 2 * p
      /\ 2 * (-subtotal) * bps = -(2 * p)
  OBVIOUS
<1> HIDE DEF p
<1>3. RoundedTax(subtotal, bps) =
        IF subtotal >= 0 THEN (2 * p + 10000) \div 20000
                         ELSE -((-(2 * p) + 10000) \div 20000)
  BY <1>2 DEF RoundedTax
<1>4. /\ RoundedTax(subtotal, bps) \in Int
      /\ 20000 * RoundedTax(subtotal, bps) - 2 * p <= 10000
      /\ 2 * p - 20000 * RoundedTax(subtotal, bps) <= 10000
  BY <1>1, <1>3
<1>5. QED
  BY <1>4 DEF p

\* erase: what remove_item leaves is a sequence of the lines that were there,
\* one shorter.
LEMMA RemoveAtShape ==
  ASSUME NEW S, NEW s \in Seq(S), NEW i \in 1..Len(s)
  PROVE  RemoveAt(s, i) \in Seq(S) /\ Len(RemoveAt(s, i)) = Len(s) - 1
<1> DEFINE before == SubSeq(s, 1, i - 1)
           after  == SubSeq(s, i + 1, Len(s))
<1>1. Len(s) \in Nat /\ \A j \in 1..Len(s) : s[j] \in S
  BY LenProperties, ElementOfSeq
<1>2. before \in Seq(S) /\ Len(before) = i - 1
  <2>1. \A j \in 1..(i - 1) : s[j] \in S
    BY <1>1
  <2>2. QED
    BY <1>1, <2>1, SubSeqProperties
<1>3. after \in Seq(S) /\ Len(after) = Len(s) - i
  <2>1. \A j \in (i + 1)..Len(s) : s[j] \in S
    BY <1>1
  <2>2. QED
    BY <1>1, <2>1, SubSeqProperties
<1> HIDE DEF before, after
<1>4. /\ before \o after \in Seq(S)
      /\ Len(before \o after) = Len(before) + Len(after)
  BY <1>2, <1>3, ConcatProperties
<1>5. RemoveAt(s, i) = before \o after
  BY DEF RemoveAt, before, after
<1>6. Len(before) + Len(after) = Len(s) - 1
  BY <1>1, <1>2, <1>3
<1>7. QED
  BY <1>4, <1>5, <1>6, Zenon

\* erase: the lines after the one that went move up by one.
LEMMA RemoveAtMoves ==
  ASSUME NEW S, NEW s \in Seq(S), NEW k \in 1..Len(s)
  PROVE  /\ \A i \in 1..(k - 1) : RemoveAt(s, k)[i] = s[i]
         /\ \A i \in k..(Len(s) - 1) : RemoveAt(s, k)[i] = s[i + 1]
<1> DEFINE n == Len(s)
           before == SubSeq(s, 1, k - 1)
           after  == SubSeq(s, k + 1, n)
<1>1. n \in Nat /\ k \in Nat /\ 1 <= k /\ k <= n /\ \A i \in 1..n : s[i] \in S
  BY LenProperties, ElementOfSeq
<1>2. before \in Seq(S) /\ Len(before) = k - 1 /\ \A i \in 1..(k - 1) : before[i] = s[i]
  BY <1>1, SubSeqProperties
<1>3. after \in Seq(S) /\ Len(after) = n - k /\ \A i \in 1..(n - k) : after[i] = s[i + k]
  <2>1. k + 1 \in Int /\ n \in Int /\ \A i \in (k + 1)..n : s[i] \in S
    BY <1>1
  <2>2. /\ after \in Seq(S)
        /\ Len(after) = IF k + 1 <= n THEN n - (k + 1) + 1 ELSE 0
        /\ \A i \in 1..(n - (k + 1) + 1) : after[i] = s[(k + 1) + i - 1]
    BY <2>1, SubSeqProperties
  <2> HIDE DEF after, n
  <2>3. n - (k + 1) + 1 = n - k /\ (k + 1 > n => n - k = 0)
    BY <1>1
  <2>4. \A i \in 1..(n - k) : (k + 1) + i - 1 = i + k
    BY <1>1
  <2>5. Len(after) = n - k
    BY <2>1, <2>2, <2>3
  <2>6. QED
    BY <2>2, <2>3, <2>4, <2>5
<1>4. RemoveAt(s, k) = before \o after
  BY DEF RemoveAt
<1> DEFINE r == RemoveAt(s, k)
<1> HIDE DEF n, before, after, r
<1>5. \A i \in 1..((k - 1) + (n - k)) :
        r[i] = IF i <= k - 1 THEN before[i] ELSE after[i - (k - 1)]
  BY <1>2, <1>3, <1>4, ConcatProperties DEF r
<1>6. ASSUME NEW i \in 1..(k - 1) PROVE r[i] = s[i]
  BY <1>1, <1>2, <1>5
<1>7. ASSUME NEW i \in k..(n - 1) PROVE r[i] = s[i + 1]
  <2>1. r[i] = after[i - (k - 1)] /\ i - (k - 1) \in 1..(n - k) /\ (i - (k - 1)) + k = i + 1
    BY <1>1, <1>5
  <2>2. QED
    BY <1>3, <2>1
<1>8. QED
  BY <1>6, <1>7 DEF r, n

\* The search for a key ends at the first line that has it, or nowhere.
LEMMA FirstFound ==
  ASSUME NEW S, NEW items \in Seq(S), NEW key
  PROVE  LET i == FirstWithKey(items, key) IN
         \/ i = 0 /\ \A j \in 1..Len(items) : items[j].key # key
         \/ i \in 1..Len(items) /\ items[i].key = key
<1> DEFINE I == {j \in 1..Len(items) : items[j].key = key}
<1>1. FirstWithKey(items, key) = IF I # {} THEN Min(I) ELSE 0
  BY DEF FirstWithKey, SelectInSeq
<1>2. CASE I = {}
  BY <1>1, <1>2
<1>3. CASE I # {}
  <2>1. I \subseteq Nat
    OBVIOUS
  <2> HIDE DEF I
  <2>2. Min(I) \in I
    BY <1>3, <2>1, LeastElement DEF Min
  <2>3. QED
    BY <1>1, <1>3, <2>2 DEF I
<1>4. QED
  BY <1>2, <1>3

\* What save_ticket stores are lines of the ticket, at most as many as it has.
LEMMA StoredLinesShape ==
  ASSUME NEW S, NEW items \in Seq(S)
  PROVE  /\ StoredLines(items) \subseteq S
         /\ IsFiniteSet(StoredLines(items))
         /\ Cardinality(StoredLines(items)) \in Nat
         /\ Cardinality(StoredLines(items)) <= Len(items)
<1> DEFINE kept == {j \in 1..Len(items) : FirstWithKey(items, items[j].key) = j}
           f == [j \in kept |-> items[j]]
<1>1. Len(items) \in Nat /\ \A j \in 1..Len(items) : items[j] \in S
  BY LenProperties, ElementOfSeq
<1>2. IsFiniteSet(1..Len(items)) /\ Cardinality(1..Len(items)) = Len(items)
  <2>1. Len(items) \in Int /\ 1 \in Int
    BY <1>1
  <2>2. /\ IsFiniteSet(1..Len(items))
        /\ Cardinality(1..Len(items)) =
             IF 1 > Len(items) THEN 0 ELSE Len(items) - 1 + 1
    BY <2>1, FS_Interval
  <2>3. QED
    BY <1>1, <2>2
<1>3. /\ IsFiniteSet(kept)
      /\ Cardinality(kept) <= Len(items)
      /\ Cardinality(kept) \in Nat
  BY <1>2, FS_Subset, FS_CardinalityType
<1>4. StoredLines(items) = {items[j] : j \in kept}
  BY DEF StoredLines
<1> HIDE DEF kept
<1>5. f \in Surjection(kept, StoredLines(items))
  BY <1>4 DEF Surjection
<1>6. /\ IsFiniteSet(StoredLines(items))
      /\ Cardinality(StoredLines(items)) <= Cardinality(kept)
  BY <1>3, <1>5, FS_Surjection
<1>7. Cardinality(StoredLines(items)) \in Nat
  BY <1>6, FS_CardinalityType
<1>8. StoredLines(items) \subseteq S
  BY <1>1, <1>4 DEF kept
<1>9. QED
  BY <1>1, <1>3, <1>6, <1>7, <1>8

\* load_all_tickets gives back a sequence of the rows, each of them once.
LEMMA LoadedLinesShape ==
  ASSUME NEW S, NEW rows \in SUBSET S, IsFiniteSet(rows)
  PROVE  /\ LoadedLines(rows) \in Seq(S)
         /\ Len(LoadedLines(rows)) = Cardinality(rows)
<1> DEFINE n == Cardinality(rows)
<1>1. n \in Nat /\ ExistsBijection(1..n, rows)
  BY FS_CardinalityType
<1>2. PICK g \in [1..n -> rows] : IsInjective(g)
  BY <1>1 DEF ExistsBijection, Bijection, Injection, IsInjective
<1>3. LoadedLines(rows) \in [1..n -> rows]
  BY <1>2 DEF LoadedLines, SetToSeq
<1>4. LoadedLines(rows) \in Seq(S) /\ Len(LoadedLines(rows)) = n
  BY <1>1, <1>3
<1>5. QED
  BY <1>4

\* A sequence of all elements of a finite set without repetitions meets each.
LEMMA MeetsAll ==
  ASSUME NEW T, IsFiniteSet(T), NEW f \in [1..Cardinality(T) -> T],
         \A i, j \in 1..Cardinality(T) : i # j => f[i] # f[j],
         NEW t \in T
  PROVE  \E i \in 1..Cardinality(T) : f[i] = t
<1> DEFINE n == Cardinality(T)
<1>1. n \in Nat /\ IsFiniteSet(1..n) /\ Cardinality(1..n) = n
  <2>1. n \in Nat
    BY FS_CardinalityType
  <2>2. /\ IsFiniteSet(1..n)
        /\ Cardinality(1..n) = IF 1 > n THEN 0 ELSE n - 1 + 1
    BY <2>1, FS_Interval
  <2>3. QED
    BY <2>1, <2>2
<1>2. f \in Injection(1..n, T)
  BY DEF Injection, IsInjective
<1>3. f \in Surjection(1..n, T)
  <2>1. Cardinality(1..n) = Cardinality(T)
    BY <1>1
  <2> HIDE DEF n
  <2>2. QED
    BY <1>2, <2>1, FS_Injection
<1>4. QED
  BY <1>3 DEF Surjection

\* Lines that were stored once are stored whole again after a load: no two of
\* them have one key.
LEMMA StoredAgain ==
  ASSUME NEW S, NEW items \in Seq(S)
  PROVE  StoredLines(LoadedLines(StoredLines(items))) = StoredLines(items)
<1> DEFINE rows == StoredLines(items)
           n == Cardinality(rows)
           s == LoadedLines(rows)
<1>1. IsFiniteSet(rows) /\ rows \in SUBSET rows
  BY StoredLinesShape
<1>2. \A a, b \in rows : a.key = b.key => a = b
  BY DEF StoredLines
<1> HIDE DEF rows
<1>3. s \in Seq(rows) /\ Len(s) = n
  BY <1>1, LoadedLinesShape
<1>4. n \in Nat /\ s \in [1..n -> rows] /\ IsInjective(s)
  <2>1. n \in Nat /\ ExistsBijection(1..n, rows)
    BY <1>1, FS_CardinalityType
  <2>2. PICK g \in [1..n -> rows] : IsInjective(g)
    BY <2>1 DEF ExistsBijection, Bijection, Injection, IsInjective
  <2>3. QED
    BY <2>1, <2>2 DEF LoadedLines, SetToSeq
<1>5. \A i, j \in 1..n : i # j => s[i] # s[j]
  BY <1>4 DEF IsInjective
<1> HIDE DEF s
<1>6. \A r \in rows : \E j \in 1..n : s[j] = r
  BY <1>1, <1>4, <1>5, MeetsAll
<1>7. ASSUME NEW j \in 1..n PROVE FirstWithKey(s, s[j].key) = j
  <2> DEFINE I == {i \in 1..Len(s) : s[i].key = s[j].key}
  <2>1. I = {j}
    <3>1. \A i \in 1..n : s[i].key = s[j].key => s[i] = s[j]
      BY <1>2, <1>4
    <3>2. QED
      BY <1>3, <1>5, <3>1
  <2>2. Min(I) = j
    <3> HIDE DEF I
    <3>1. \A x \in I : x = j
      BY <2>1
    <3>2. QED
      BY <2>1 DEF Min
  <2>3. FirstWithKey(s, s[j].key) = IF I # {} THEN Min(I) ELSE 0
    BY DEF FirstWithKey, SelectInSeq
  <2> HIDE DEF I
  <2>4. QED
    BY <2>1, <2>2, <2>3
<1>8. StoredLines(s) = {s[j] : j \in 1..n}
  BY <1>3, <1>7 DEF StoredLines
<1>9. {s[j] : j \in 1..n} = rows
  BY <1>4, <1>6
<1>10. QED
  BY <1>8, <1>9 DEF rows, s
-----------------------------------------------------------------------------

\* The inductive invariant is the type invariant with every ticket, row and
\* snapshot restricted to the balanced ones.
GoodTicket == {t \in Ticket : Balanced(t)}
GoodRow    == {r \in TicketRow : Balanced(r)}
IInv == ShapeOK(GoodTicket, GoodRow)

USE DEF NoDate, NoId

-----------------------------------------------------------------------------
(* Tickets *)

\* A TicketItem as Ticket::recalculate reads it: whatever its price and however
\* many units.
Priced == [key : LineKeys, price : Int, qty : Nat \ {0}]

LEMMA LinesArePriced == Line \subseteq Priced
  BY MoneyAssumption, BoundsAssumption DEF Line, Priced

\* What the loop of Ticket::recalculate adds up, line by line.
Figures(items) == [i \in DOMAIN items |-> items[i].price * items[i].qty]

LEMMA FiguresType ==
  ASSUME NEW items \in Seq(Priced)
  PROVE  /\ Len(items) \in Nat /\ DOMAIN items = 1..Len(items)
         /\ IsFiniteSet(1..Len(items))
         /\ \A i \in 1..Len(items) : items[i] \in Priced
         /\ Figures(items) \in [1..Len(items) -> Int]
         /\ \A i \in 1..Len(items) : Figures(items)[i] = items[i].price * items[i].qty
         /\ LinesSubtotal(items) = SumFunctionOnSet(Figures(items), 1..Len(items))
<1> DEFINE n == Len(items)
<1>1. n \in Nat /\ DOMAIN items = 1..n /\ \A i \in 1..n : items[i] \in Priced
  OBVIOUS
<1>2. \A l \in Priced : l.price \in Int /\ l.qty \in Int
  BY DEF Priced
<1>3. \A l \in Priced : l.price * l.qty \in Int
  BY <1>2
<1>4. /\ Figures(items) \in [1..n -> Int]
      /\ \A i \in 1..n : Figures(items)[i] = items[i].price * items[i].qty
  BY <1>1, <1>3 DEF Figures
<1>5. IsFiniteSet(1..n)
  BY <1>1, FS_Interval
<1>6. LinesSubtotal(items) = SumFunctionOnSet(Figures(items), 1..n)
  BY <1>1 DEF LinesSubtotal, Figures
<1>7. QED
  BY <1>1, <1>4, <1>5, <1>6

\* A subtotal is a number of cents.
LEMMA SubtotalType ==
  ASSUME NEW items \in Seq(Priced)
  PROVE  LinesSubtotal(items) \in Int
<1>1. /\ IsFiniteSet(1..Len(items))
      /\ Figures(items) \in [1..Len(items) -> Int]
      /\ LinesSubtotal(items) = SumFunctionOnSet(Figures(items), 1..Len(items))
  BY FiguresType
<1>2. SumFunctionOnSet(Figures(items), 1..Len(items)) \in Int
  BY <1>1, SumType
<1>3. QED
  BY <1>1, <1>2

\* When one line changes, the subtotal changes by what that line does.
LEMMA OneLineChanged ==
  ASSUME NEW items \in Seq(Priced), NEW other \in Seq(Priced), NEW k \in 1..Len(items),
         Len(other) = Len(items),
         \A i \in 1..Len(items) : i # k => other[i] = items[i]
  PROVE  LinesSubtotal(other) - other[k].price * other[k].qty
           = LinesSubtotal(items) - items[k].price * items[k].qty
<1> DEFINE D == 1..Len(items)
           f == Figures(items)
           g == Figures(other)
           rest == SumFunctionOnSet([i \in D \ {k} |-> f[i]], D \ {k})
           restOfOther == SumFunctionOnSet([i \in D \ {k} |-> g[i]], D \ {k})
<1>1. /\ f \in [D -> Int] /\ IsFiniteSet(D)
      /\ \A i \in D : f[i] = items[i].price * items[i].qty
      /\ LinesSubtotal(items) = SumFunctionOnSet(f, D)
  BY FiguresType
<1>2. /\ g \in [D -> Int]
      /\ \A i \in D : g[i] = other[i].price * other[i].qty
      /\ LinesSubtotal(other) = SumFunctionOnSet(g, D)
  BY FiguresType
<1> HIDE DEF f, g, D
<1>3. k \in D /\ \A i \in D \ {k} : other[i] = items[i]
  BY DEF D
<1>4. \A i \in D \ {k} : f[i] = g[i]
  BY <1>1, <1>2, <1>3
<1>5. [i \in D \ {k} |-> f[i]] = [i \in D \ {k} |-> g[i]]
  BY <1>4
<1>6. rest = restOfOther
  BY <1>5
<1>7. SumFunctionOnSet(f, D) = f[k] + rest
  BY <1>1, <1>3, SumWithout
<1>8. SumFunctionOnSet(g, D) = g[k] + restOfOther
  BY <1>1, <1>2, <1>3, SumWithout
<1>9. rest \in Int
  <2> DEFINE E == [i \in D \ {k} |-> f[i]]
  <2>1. E \in [D \ {k} -> Int] /\ IsFiniteSet(D \ {k})
    BY <1>1, FS_Subset
  <2> HIDE DEF E
  <2>2. SumFunctionOnSet(E, D \ {k}) \in Int
    BY <2>1, SumType
  <2>3. QED
    BY <2>2 DEF E
<1> HIDE DEF rest, restOfOther
<1>10. f[k] \in Int /\ g[k] \in Int
  BY <1>1, <1>2, <1>3
<1>11. LinesSubtotal(other) - g[k] = LinesSubtotal(items) - f[k]
  BY <1>1, <1>2, <1>6, <1>7, <1>8, <1>9, <1>10
<1>12. QED
  BY <1>1, <1>2, <1>3, <1>11

\* A line at the end adds what it costs.
LEMMA LineAppended ==
  ASSUME NEW items \in Seq(Priced), NEW line \in Priced
  PROVE  LinesSubtotal(Append(items, line)) = LinesSubtotal(items) + line.price * line.qty
<1> DEFINE n == Len(items)
           s == Append(items, line)
           f == Figures(items)
           g == Figures(s)
<1>1. /\ n \in Nat /\ f \in [1..n -> Int]
      /\ \A i \in 1..n : f[i] = items[i].price * items[i].qty
      /\ LinesSubtotal(items) = SumFunctionOnSet(f, 1..n)
  BY FiguresType
<1>2. /\ s \in Seq(Priced) /\ Len(s) = n + 1 /\ s[n + 1] = line
      /\ \A i \in 1..n : s[i] = items[i]
  BY <1>1
<1>3. /\ g \in [1..(n + 1) -> Int] /\ IsFiniteSet(1..(n + 1))
      /\ \A i \in 1..(n + 1) : g[i] = s[i].price * s[i].qty
      /\ LinesSubtotal(s) = SumFunctionOnSet(g, 1..(n + 1))
  <2> HIDE DEF s, n
  <2>1. QED
    BY <1>2, FiguresType
<1> HIDE DEF s, f, g, n
<1>4. (1..(n + 1)) \ {n + 1} = 1..n /\ n + 1 \in 1..(n + 1)
  BY <1>1
<1>5. ASSUME NEW i \in 1..n PROVE i \in 1..(n + 1) /\ g[i] = f[i]
  <2>1. i \in 1..(n + 1)
    BY <1>1
  <2>2. s[i] = items[i]
    BY <1>2
  <2>3. g[i] = s[i].price * s[i].qty
    BY <1>3, <2>1
  <2>4. f[i] = items[i].price * items[i].qty
    BY <1>1
  <2>5. g[i] = items[i].price * items[i].qty
    BY <2>2, <2>3, Zenon
  <2>6. QED
    BY <2>1, <2>4, <2>5, Zenon
<1>6. [i \in (1..(n + 1)) \ {n + 1} |-> g[i]] = f
  <2>1. [i \in 1..n |-> g[i]] = [i \in 1..n |-> f[i]]
    BY <1>5
  <2>2. f = [i \in 1..n |-> f[i]]
    BY <1>1
  <2>3. QED
    BY <1>4, <2>1, <2>2
<1>7. SumFunctionOnSet(g, 1..(n + 1))
        = g[n + 1] + SumFunctionOnSet([i \in (1..(n + 1)) \ {n + 1} |-> g[i]],
                                      (1..(n + 1)) \ {n + 1})
  BY <1>3, <1>4, SumWithout
<1>8. LinesSubtotal(s) = g[n + 1] + LinesSubtotal(items)
  BY <1>1, <1>3, <1>4, <1>6, <1>7
<1>9. g[n + 1] = line.price * line.qty /\ g[n + 1] \in Int /\ LinesSubtotal(items) \in Int
  BY <1>2, <1>3, <1>4, SubtotalType
<1>10. LinesSubtotal(s) = LinesSubtotal(items) + line.price * line.qty
  <2>1. g[n + 1] + LinesSubtotal(items) = LinesSubtotal(items) + g[n + 1]
    BY <1>9
  <2>2. QED
    BY <1>8, <1>9, <2>1
<1>11. QED
  BY <1>10 DEF s

\* A line that goes takes off what it cost.
LEMMA LineErased ==
  ASSUME NEW items \in Seq(Priced), NEW k \in 1..Len(items)
  PROVE  LinesSubtotal(RemoveAt(items, k)) = LinesSubtotal(items) - items[k].price * items[k].qty
<1> DEFINE n == Len(items)
           s == RemoveAt(items, k)
           f == Figures(items)
           g == Figures(s)
           R == (1..n) \ {k}
           E == [i \in R |-> f[i]]
           At(i) == IF i < k THEN i ELSE i + 1
           b == [i \in 1..(n - 1) |-> At(i)]
<1>1. /\ n \in Nat /\ f \in [1..n -> Int] /\ IsFiniteSet(1..n)
      /\ \A i \in 1..n : f[i] = items[i].price * items[i].qty
      /\ LinesSubtotal(items) = SumFunctionOnSet(f, 1..n)
  BY FiguresType
<1>2. /\ s \in Seq(Priced) /\ Len(s) = n - 1
      /\ \A i \in 1..(k - 1) : s[i] = items[i]
      /\ \A i \in k..(n - 1) : s[i] = items[i + 1]
  BY RemoveAtShape, RemoveAtMoves
<1>3. /\ g \in [1..(n - 1) -> Int] /\ IsFiniteSet(1..(n - 1))
      /\ \A i \in 1..(n - 1) : g[i] = s[i].price * s[i].qty
      /\ LinesSubtotal(s) = SumFunctionOnSet(g, 1..(n - 1))
  <2> HIDE DEF s, n
  <2>1. QED
    BY <1>2, FiguresType
<1> HIDE DEF s, f, g
<1>4. k \in 1..n /\ k \in Nat
  BY <1>1
<1>5. /\ b \in [1..(n - 1) -> R]
      /\ \A i, j \in 1..(n - 1) : b[i] = b[j] => i = j
      /\ \A t \in R : \E i \in 1..(n - 1) : b[i] = t
  <2> HIDE DEF n
  <2>1. \A i \in 1..(n - 1) : At(i) \in R
    BY <1>1, <1>4
  <2>2. \A i, j \in 1..(n - 1) : At(i) = At(j) => i = j
    BY <1>1, <1>4
  <2>3. ASSUME NEW t \in R PROVE \E i \in 1..(n - 1) : At(i) = t
    <3>1. CASE t < k
      <4>1. t \in 1..(n - 1) /\ At(t) = t
        BY <1>1, <1>4, <3>1
      <4>2. QED
        BY <4>1
    <3>2. CASE ~(t < k)
      <4>1. t - 1 \in 1..(n - 1) /\ At(t - 1) = t
        BY <1>1, <1>4, <3>2
      <4>2. QED
        BY <4>1
    <3>3. QED
      BY <3>1, <3>2
  <2> HIDE DEF At, R
  <2>4. QED
    BY <2>1, <2>2, <2>3
<1>6. \A i \in 1..(n - 1) : b[i] \in 1..n /\ s[i] = items[b[i]]
  <2> HIDE DEF n
  <2>1. ASSUME NEW i \in 1..(n - 1) PROVE At(i) \in 1..n /\ s[i] = items[At(i)]
    <3>1. CASE i < k
      <4>1. i \in 1..(k - 1) /\ i \in 1..n /\ At(i) = i
        BY <1>1, <1>4, <3>1
      <4> HIDE DEF At
      <4>2. QED
        BY <1>2, <4>1
    <3>2. CASE ~(i < k)
      <4>1. i \in k..(n - 1) /\ i + 1 \in 1..n /\ At(i) = i + 1
        BY <1>1, <1>4, <3>2
      <4> HIDE DEF At
      <4>2. QED
        BY <1>2, <4>1
    <3>3. QED
      BY <3>1, <3>2
  <2> HIDE DEF At
  <2>2. QED
    BY <2>1
<1> HIDE DEF n, b
<1>7. E \in [R -> Int] /\ IsFiniteSet(R)
  BY <1>1, FS_Subset
<1>8. ASSUME NEW i \in 1..(n - 1) PROVE g[i] = E[b[i]]
  <2>1. b[i] \in R /\ b[i] \in 1..n /\ s[i] = items[b[i]]
    BY <1>5, <1>6
  <2>2. g[i] = s[i].price * s[i].qty
    BY <1>3
  <2>3. f[b[i]] = items[b[i]].price * items[b[i]].qty
    BY <1>1, <2>1
  <2>4. g[i] = f[b[i]]
    BY <2>1, <2>2, <2>3, Zenon
  <2>5. QED
    BY <2>1, <2>4
<1>9. SumFunctionOnSet(f, 1..n) = f[k] + SumFunctionOnSet(E, R)
  BY <1>1, <1>4, SumWithout
<1> HIDE DEF E, R
<1>10. SumFunctionOnSet(g, 1..(n - 1)) = SumFunctionOnSet(E, R)
  <2>1. \A i \in 1..(n - 1) : g[i] = E[b[i]]
    BY <1>8
  <2> DEFINE D == 1..(n - 1)
  <2>2. SameFigures(b, g, D, E, R)
    BY <1>5, <2>1 DEF SameFigures
  <2>3. g \in [D -> Int] /\ IsFiniteSet(D)
    BY <1>3
  <2> HIDE DEF D
  <2>4. SumFunctionOnSet(g, D) = SumFunctionOnSet(E, R)
    BY <1>7, <2>2, <2>3, SumMoves
  <2>5. QED
    BY <2>4 DEF D
<1>11. /\ f[k] = items[k].price * items[k].qty /\ f[k] \in Int
       /\ LinesSubtotal(s) \in Int /\ LinesSubtotal(items) \in Int
  BY <1>1, <1>2, <1>4, SubtotalType
<1>12. LinesSubtotal(s) = LinesSubtotal(items) - f[k]
  <2>1. LinesSubtotal(items) = f[k] + LinesSubtotal(s)
    BY <1>1, <1>3, <1>9, <1>10
  <2>2. QED
    BY <1>11, <2>1
<1>13. QED
  BY <1>11, <1>12 DEF s

\* Joining the line that has the key changes its quantity only.
LEMMA MoreUnits ==
  ASSUME NEW items \in Seq(Priced), NEW k \in 1..Len(items), NEW q \in Nat \ {0}
  PROVE  /\ [items EXCEPT ![k].qty = q] \in Seq(Priced)
         /\ Len([items EXCEPT ![k].qty = q]) = Len(items)
         /\ \A i \in 1..Len(items) : i # k => [items EXCEPT ![k].qty = q][i] = items[i]
         /\ [items EXCEPT ![k].qty = q][k] = [items[k] EXCEPT !.qty = q]
<1>1. items[k] \in Priced
  OBVIOUS
<1>2. [items[k] EXCEPT !.qty = q] \in Priced
  BY <1>1 DEF Priced
<1>3. [items EXCEPT ![k].qty = q] = [items EXCEPT ![k] = [items[k] EXCEPT !.qty = q]]
  OBVIOUS
<1> DEFINE l == [items[k] EXCEPT !.qty = q]
<1> HIDE DEF l
<1>4. /\ [items EXCEPT ![k] = l] \in Seq(Priced)
      /\ Len([items EXCEPT ![k] = l]) = Len(items)
      /\ \A i \in 1..Len(items) : i # k => [items EXCEPT ![k] = l][i] = items[i]
      /\ [items EXCEPT ![k] = l][k] = l
  BY <1>2 DEF l
<1>5. QED
  BY <1>3, <1>4 DEF l

\* One change of a ticket changes its subtotal by exactly that change, whatever
\* the ticket held: added units cost the price of the line they join (the price
\* the first of them had, add_item), or their own when they start a line; a
\* removed line takes its whole price off (remove_item); decrease_item takes
\* off the price of one unit.  Ticket::recalculate adds everything up again each
\* time, so nothing a ticket went through is left in its subtotal.
THEOREM BillFollowsTheLines ==
  ASSUME NEW items \in Seq(Priced)
  PROVE  /\ \A line \in Priced :
              LET i == FirstWithKey(items, line.key) IN
              LinesSubtotal(AddLine(items, line))
                = LinesSubtotal(items)
                    + (IF i = 0 THEN line.price ELSE items[i].price) * line.qty
         /\ \A i \in 1..Len(items) :
              /\ LinesSubtotal(RemoveLine(items, i))
                   = LinesSubtotal(items) - items[i].price * items[i].qty
              /\ LinesSubtotal(DecreaseLine(items, i))
                   = LinesSubtotal(items) - items[i].price
<1>1. LinesSubtotal(items) \in Int
  BY SubtotalType
<1>2. \A i \in 1..Len(items) : items[i] \in Priced
  OBVIOUS
<1>3. ASSUME NEW i \in 1..Len(items), NEW q \in Nat \ {0}
      PROVE  LinesSubtotal([items EXCEPT ![i].qty = q])
               = LinesSubtotal(items) + items[i].price * (q - items[i].qty)
  <2> DEFINE other == [items EXCEPT ![i].qty = q]
             p == items[i].price
             n == items[i].qty
  <2>1. /\ other \in Seq(Priced) /\ Len(other) = Len(items)
        /\ \A j \in 1..Len(items) : j # i => other[j] = items[j]
        /\ other[i] = [items[i] EXCEPT !.qty = q]
    BY MoreUnits
  <2>2. other[i].price = p /\ other[i].qty = q /\ p \in Int /\ n \in Int
    BY <1>2, <2>1 DEF Priced
  <2> HIDE DEF other
  <2>3. LinesSubtotal(other) - other[i].price * other[i].qty = LinesSubtotal(items) - p * n
    BY <2>1, OneLineChanged
  <2>4. LinesSubtotal(other) \in Int
    BY <2>1, SubtotalType
  <2>5. LinesSubtotal(other) - p * q = LinesSubtotal(items) - p * n
    BY <2>2, <2>3, Zenon
  <2> HIDE DEF p, n
  <2>6. p * (q - n) = p * q - p * n /\ p * q \in Int /\ p * n \in Int
    BY <2>2
  <2>7. LinesSubtotal(other) = LinesSubtotal(items) + p * (q - n)
    BY <1>1, <2>4, <2>5, <2>6
  <2>8. QED
    BY <2>7 DEF other, p, n
<1>4. ASSUME NEW line \in Priced
      PROVE  LET i == FirstWithKey(items, line.key) IN
             LinesSubtotal(AddLine(items, line))
               = LinesSubtotal(items)
                   + (IF i = 0 THEN line.price ELSE items[i].price) * line.qty
  <2> DEFINE i == FirstWithKey(items, line.key)
  <2>1. i = 0 \/ i \in 1..Len(items)
    BY FirstFound
  <2>2. AddLine(items, line) = IF i = 0 THEN Append(items, line)
                               ELSE [items EXCEPT ![i].qty = @ + line.qty]
    BY DEF AddLine
  <2> HIDE DEF i
  <2>3. CASE i = 0
    BY <2>2, <2>3, LineAppended DEF i
  <2>4. CASE i # 0
    <3> DEFINE q == items[i].qty + line.qty
    <3>1. i \in 1..Len(items)
      BY <2>1, <2>4
    <3>2. q \in Nat \ {0} /\ q - items[i].qty = line.qty
      <4>1. items[i] \in Priced
        BY <1>2, <3>1
      <4>2. items[i].qty \in Nat \ {0} /\ line.qty \in Nat \ {0}
        BY <4>1 DEF Priced
      <4>3. QED
        BY <4>2
    <3>3. AddLine(items, line) = [items EXCEPT ![i].qty = q]
      BY <2>2, <2>4, <3>1
    <3> HIDE DEF q
    <3>4. LinesSubtotal([items EXCEPT ![i].qty = q])
            = LinesSubtotal(items) + items[i].price * (q - items[i].qty)
      BY <1>3, <3>1, <3>2
    <3>5. LinesSubtotal(AddLine(items, line)) = LinesSubtotal(items) + items[i].price * line.qty
      BY <3>2, <3>3, <3>4, Zenon
    <3>6. QED
      BY <2>4, <3>5 DEF i
  <2>5. QED
    BY <2>3, <2>4
<1>5. ASSUME NEW i \in 1..Len(items)
      PROVE  /\ LinesSubtotal(RemoveLine(items, i))
                  = LinesSubtotal(items) - items[i].price * items[i].qty
             /\ LinesSubtotal(DecreaseLine(items, i)) = LinesSubtotal(items) - items[i].price
  <2> DEFINE p == items[i].price
             n == items[i].qty
  <2>1. p \in Int /\ n \in Nat \ {0}
    BY <1>2 DEF Priced
  <2>2. LinesSubtotal(RemoveAt(items, i)) = LinesSubtotal(items) - p * n
    BY LineErased
  <2>3. CASE n > 1
    <3> DEFINE m == n - 1
    <3>1. m \in Nat \ {0} /\ m - n = -1
      BY <2>1, <2>3
    <3>2. DecreaseLine(items, i) = [items EXCEPT ![i].qty = m]
      BY <2>3 DEF DecreaseLine
    <3> HIDE DEF m
    <3>3. LinesSubtotal([items EXCEPT ![i].qty = m])
            = LinesSubtotal(items) + items[i].price * (m - items[i].qty)
      BY <1>3, <3>1
    <3>4. LinesSubtotal([items EXCEPT ![i].qty = m]) = LinesSubtotal(items) + p * (m - n)
      BY <3>3
    <3> HIDE DEF p, n
    <3>5. LinesSubtotal([items EXCEPT ![i].qty = m]) = LinesSubtotal(items) + p * (-1)
      BY <3>1, <3>4, Zenon
    <3>6. p * (-1) = -p
      BY <2>1
    <3>7. LinesSubtotal(DecreaseLine(items, i)) = LinesSubtotal(items) - p
      BY <1>1, <2>1, <3>2, <3>5, <3>6
    <3>8. QED
      BY <2>2, <3>7 DEF RemoveLine, p, n
  <2>4. CASE ~(n > 1)
    <3>1. n = 1
      BY <2>1, <2>4
    <3>2. DecreaseLine(items, i) = RemoveAt(items, i)
      BY <2>4 DEF DecreaseLine
    <3> HIDE DEF p, n
    <3>3. p * n = p
      BY <2>1, <3>1
    <3>4. LinesSubtotal(DecreaseLine(items, i)) = LinesSubtotal(items) - p
      BY <2>2, <3>2, <3>3
    <3>5. QED
      BY <2>2, <3>4 DEF RemoveLine, p, n
  <2>5. QED
    BY <2>3, <2>4
<1>6. QED
  BY <1>4, <1>5

\* No two lines have one key.
KeysDiffer(items) ==
  \A i, j \in 1..Len(items) : items[i].key = items[j].key => i = j

\* Of the things that happen to a ticket's lines, only an edit can give two of
\* them one key (add_item, remove_item and decrease_item cannot), and an edit
\* does only when it gives a line the key of another one (update_item does not
\* look for one).
THEOREM OnlyEditsClash ==
  ASSUME NEW items \in Seq(Priced), KeysDiffer(items)
  PROVE  /\ \A line \in Priced : KeysDiffer(AddLine(items, line))
         /\ \A i \in 1..Len(items) :
              /\ KeysDiffer(RemoveLine(items, i))
              /\ KeysDiffer(DecreaseLine(items, i))
              /\ \A key, price :
                   (\A j \in 1..Len(items) : j # i => items[j].key # key)
                     <=> KeysDiffer(UpdateLine(items, i, key, price))
<1> DEFINE n == Len(items)
<1>1. /\ n \in Nat /\ DOMAIN items = 1..n
      /\ \A i \in 1..n : items[i] \in Priced
      /\ \A i, j \in 1..n : items[i].key = items[j].key => i = j
  BY DEF KeysDiffer
<1>2. ASSUME NEW i \in 1..n, NEW q \in Nat \ {0}
      PROVE  KeysDiffer([items EXCEPT ![i].qty = q])
  <2> DEFINE other == [items EXCEPT ![i].qty = q]
  <2>1. /\ Len(other) = n /\ \A j \in 1..n : j # i => other[j] = items[j]
        /\ other[i] = [items[i] EXCEPT !.qty = q]
    BY MoreUnits
  <2> HIDE DEF other
  <2>2. other[i].key = items[i].key
    BY <1>1, <2>1 DEF Priced
  <2>3. ASSUME NEW j \in 1..n PROVE other[j].key = items[j].key
    BY <2>1, <2>2
  <2>4. KeysDiffer(other)
    BY <1>1, <2>1, <2>3 DEF KeysDiffer
  <2>5. QED
    BY <2>4 DEF other
<1>3. ASSUME NEW i \in 1..n PROVE KeysDiffer(RemoveAt(items, i))
  <2> DEFINE s == RemoveAt(items, i)
             At(j) == IF j < i THEN j ELSE j + 1
  <2>1. /\ Len(s) = n - 1
        /\ \A j \in 1..(i - 1) : s[j] = items[j]
        /\ \A j \in i..(n - 1) : s[j] = items[j + 1]
    BY RemoveAtShape, RemoveAtMoves
  <2> HIDE DEF s, n
  <2>2. ASSUME NEW j \in 1..(n - 1) PROVE At(j) \in 1..n /\ s[j] = items[At(j)]
    <3>1. CASE j < i
      <4>1. j \in 1..(i - 1) /\ j \in 1..n /\ At(j) = j
        BY <1>1, <3>1
      <4> HIDE DEF At
      <4>2. QED
        BY <2>1, <4>1
    <3>2. CASE ~(j < i)
      <4>1. j \in i..(n - 1) /\ j + 1 \in 1..n /\ At(j) = j + 1
        BY <1>1, <3>2
      <4> HIDE DEF At
      <4>2. QED
        BY <2>1, <4>1
    <3>3. QED
      BY <3>1, <3>2
  <2>3. \A j, k \in 1..(n - 1) : At(j) = At(k) => j = k
    BY <1>1
  <2> HIDE DEF At
  <2>4. KeysDiffer(s)
    BY <1>1, <2>1, <2>2, <2>3 DEF KeysDiffer
  <2>5. QED
    BY <2>4 DEF s
<1>4. ASSUME NEW line \in Priced PROVE KeysDiffer(AddLine(items, line))
  <2> DEFINE i == FirstWithKey(items, line.key)
  <2>1. \/ i = 0 /\ \A j \in 1..n : items[j].key # line.key
        \/ i \in 1..n
    BY FirstFound
  <2>2. AddLine(items, line) = IF i = 0 THEN Append(items, line)
                               ELSE [items EXCEPT ![i].qty = @ + line.qty]
    BY DEF AddLine
  <2> HIDE DEF i
  <2>3. CASE i = 0
    <3> DEFINE s == Append(items, line)
    <3>1. /\ Len(s) = n + 1 /\ s[n + 1] = line
          /\ \A j \in 1..n : s[j] = items[j]
      BY <1>1
    <3>2. \A j \in 1..n : items[j].key # line.key
      BY <1>1, <2>1, <2>3
    <3>3. AddLine(items, line) = s
      BY <2>2, <2>3
    <3> HIDE DEF s, n
    <3>4. \A j \in 1..(n + 1) : j \in 1..n \/ j = n + 1
      BY <1>1
    <3>5. KeysDiffer(s)
      BY <1>1, <3>1, <3>2, <3>4 DEF KeysDiffer
    <3>6. QED
      BY <3>3, <3>5
  <2>4. CASE i # 0
    <3> DEFINE q == items[i].qty + line.qty
    <3>1. i \in 1..n
      BY <2>1, <2>4
    <3>2. items[i].qty \in Nat \ {0} /\ line.qty \in Nat \ {0}
      <4>1. items[i] \in Priced
        BY <1>1, <3>1
      <4>2. QED
        BY <4>1 DEF Priced
    <3>3. q \in Nat \ {0}
      BY <3>2
    <3>4. AddLine(items, line) = [items EXCEPT ![i].qty = q]
      BY <2>2, <2>4, <3>1
    <3>5. QED
      BY <1>2, <3>1, <3>3, <3>4
  <2>5. QED
    BY <2>3, <2>4
<1>5. ASSUME NEW i \in 1..n PROVE KeysDiffer(DecreaseLine(items, i))
  <2>1. CASE items[i].qty > 1
    <3> DEFINE q == items[i].qty - 1
    <3>1. q \in Nat \ {0}
      BY <1>1, <2>1 DEF Priced
    <3>2. DecreaseLine(items, i) = [items EXCEPT ![i].qty = q]
      BY <2>1 DEF DecreaseLine
    <3>3. QED
      BY <1>2, <3>1, <3>2
  <2>2. CASE ~(items[i].qty > 1)
    BY <1>3, <2>2 DEF DecreaseLine
  <2>3. QED
    BY <2>1, <2>2
<1>6. ASSUME NEW i \in 1..n, NEW key, NEW price
      PROVE  (\A j \in 1..n : j # i => items[j].key # key)
               <=> KeysDiffer(UpdateLine(items, i, key, price))
  <2> DEFINE other == UpdateLine(items, i, key, price)
  <2>1. /\ DOMAIN other = 1..n /\ Len(other) = n
        /\ \A j \in 1..n : j # i => other[j] = items[j]
    BY <1>1 DEF UpdateLine
  <2>2. other[i].key = key
    BY <1>1 DEF UpdateLine, Priced
  <2> HIDE DEF other, n
  <2>3. QED
    BY <1>1, <2>1, <2>2 DEF KeysDiffer, other
<1>7. QED
  BY <1>3, <1>4, <1>5, <1>6 DEF RemoveLine

\* A restart leaves the bill alone: the lines load_all_tickets gives back, in
\* whatever order, add up to the subtotal of the lines save_ticket stored.
\* Lines of one key are the exception: the table has only the first of them.
THEOREM BillSurvivesRestart ==
  ASSUME NEW items \in Seq(Priced), KeysDiffer(items)
  PROVE  LinesSubtotal(LoadedLines(StoredLines(items))) = LinesSubtotal(items)
<1> DEFINE n == Len(items)
           rows == StoredLines(items)
           m == Cardinality(rows)
           s == LoadedLines(rows)
           f == Figures(items)
           g == Figures(s)
           b == [j \in 1..m |-> CHOOSE i \in 1..n : items[i] = s[j]]
<1>1. /\ n \in Nat /\ f \in [1..n -> Int] /\ IsFiniteSet(1..n)
      /\ \A i \in 1..n : f[i] = items[i].price * items[i].qty
      /\ LinesSubtotal(items) = SumFunctionOnSet(f, 1..n)
  BY FiguresType
<1>2. \A i, j \in 1..n : items[i].key = items[j].key => i = j
  BY DEF KeysDiffer
<1>3. IsFiniteSet(rows) /\ rows \in SUBSET Priced /\ rows \in SUBSET rows
  BY StoredLinesShape
<1>4. rows = {items[i] : i \in 1..n}
  <2>1. ASSUME NEW i \in 1..n PROVE FirstWithKey(items, items[i].key) = i
    <3> DEFINE k == FirstWithKey(items, items[i].key)
    <3>1. \/ k = 0 /\ \A j \in 1..n : items[j].key # items[i].key
          \/ k \in 1..n /\ items[k].key = items[i].key
      BY FirstFound
    <3> HIDE DEF k
    <3>2. QED
      BY <1>2, <3>1 DEF k
  <2>2. QED
    BY <2>1 DEF StoredLines
<1>5. s \in [1..m -> rows] /\ IsInjective(s) /\ m \in Nat /\ s \in Seq(Priced) /\ Len(s) = m
  <2> HIDE DEF rows
  <2>1. m \in Nat /\ ExistsBijection(1..m, rows)
    BY <1>3, FS_CardinalityType
  <2>2. PICK h \in [1..m -> rows] : IsInjective(h)
    BY <2>1 DEF ExistsBijection, Bijection, Injection, IsInjective
  <2>3. s \in [1..m -> rows] /\ IsInjective(s)
    BY <2>2 DEF LoadedLines, SetToSeq
  <2>4. s \in Seq(Priced) /\ Len(s) = m
    BY <1>3, LoadedLinesShape
  <2>5. QED
    BY <2>1, <2>3, <2>4
<1>6. /\ g \in [1..m -> Int] /\ IsFiniteSet(1..m)
      /\ \A j \in 1..m : g[j] = s[j].price * s[j].qty
      /\ LinesSubtotal(s) = SumFunctionOnSet(g, 1..m)
  <2> HIDE DEF s, m
  <2>1. QED
    BY <1>5, FiguresType
<1>7. \A i, j \in 1..m : i # j => s[i] # s[j]
  BY <1>5 DEF IsInjective
<1>8. \A r \in rows : \E j \in 1..m : s[j] = r
  <2> HIDE DEF rows, s
  <2>1. QED
    BY <1>3, <1>5, <1>7, MeetsAll
<1> HIDE DEF n, rows, m, s, f, g
<1>9. \A j \in 1..m : \E i \in 1..n : items[i] = s[j]
  BY <1>4, <1>5
<1>10. \A j \in 1..m : b[j] \in 1..n /\ items[b[j]] = s[j]
  BY <1>9
<1>11. \A t \in 1..n : \E j \in 1..m : s[j] = items[t]
  BY <1>4, <1>8
<1>12. \A t \in 1..n : \A j \in 1..m : s[j] = items[t] => b[j] = t
  <2> HIDE DEF b
  <2>1. QED
    BY <1>2, <1>10
<1>13. ASSUME NEW j \in 1..m PROVE g[j] = f[b[j]]
  <2>1. b[j] \in 1..n /\ items[b[j]] = s[j]
    BY <1>10
  <2> HIDE DEF b
  <2>2. g[j] = s[j].price * s[j].qty
    BY <1>6
  <2>3. f[b[j]] = items[b[j]].price * items[b[j]].qty
    BY <1>1, <2>1
  <2>4. QED
    BY <2>1, <2>2, <2>3, Zenon
<1>14. SameFigures(b, g, 1..m, f, 1..n)
  <2>1. b \in [1..m -> 1..n]
    BY <1>10
  <2> HIDE DEF b
  <2>2. \A x, y \in 1..m : b[x] = b[y] => x = y
    BY <1>7, <1>10
  <2>3. \A t \in 1..n : \E x \in 1..m : b[x] = t
    BY <1>11, <1>12
  <2>4. QED
    BY <1>13, <2>1, <2>2, <2>3 DEF SameFigures
<1> HIDE DEF b
<1>15. SumFunctionOnSet(g, 1..m) = SumFunctionOnSet(f, 1..n)
  <2> DEFINE D == 1..m
             T == 1..n
  <2>1. /\ g \in [D -> Int] /\ IsFiniteSet(D)
        /\ f \in [T -> Int] /\ IsFiniteSet(T)
        /\ SameFigures(b, g, D, f, T)
    BY <1>1, <1>6, <1>14
  <2> HIDE DEF D, T
  <2>2. SumFunctionOnSet(g, D) = SumFunctionOnSet(f, T)
    BY <2>1, SumMoves
  <2>3. QED
    BY <2>2 DEF D, T
<1>16. QED
  BY <1>1, <1>6, <1>15 DEF s, rows

\* A recalculated OPEN ticket is a ticket whose total is subtotal and tax; it
\* owes no balance.
LEMMA RecalculatedShape ==
  ASSUME NEW t \in Ticket, t.status = "OPEN", NEW bps \in Nat,
         t.paid = t.payments.cash + t.payments.card
  PROVE  Recalculated(t, bps) \in GoodTicket
<1> DEFINE sum == LinesSubtotal(t.items)
           tax == RoundedTax(sum, bps)
<1>1. sum \in Int
  <2>1. t.items \in Seq(Line)
    BY DEF Ticket, TicketOf, Items
  <2>2. t.items \in Seq(Priced)
    BY <2>1, LinesArePriced
  <2>3. QED
    BY <2>2, SubtotalType
<1>2. tax \in Int
  BY <1>1, TaxIsNearestCent
<1>3. sum + tax \in Int
  BY <1>1, <1>2
<1>4. Recalculated(t, bps) = [t EXCEPT !.subtotal = sum, !.tax = tax, !.total = sum + tax]
  BY DEF Recalculated
<1> DEFINE total == sum + tax
<1> HIDE DEF sum, tax, total
<1>5. /\ Recalculated(t, bps) = [t EXCEPT !.subtotal = sum, !.tax = tax, !.total = total]
      /\ sum \in Int /\ tax \in Int /\ total \in Int /\ total = sum + tax
  BY <1>1, <1>2, <1>3, <1>4 DEF total
<1>6. Recalculated(t, bps) \in Ticket
  BY <1>5 DEF Ticket, TicketOf
<1>7. LET u == Recalculated(t, bps) IN
      /\ u.status = "OPEN" /\ u.total = u.subtotal + u.tax
      /\ u.paid = u.payments.cash + u.payments.card
  BY <1>5 DEF Ticket, TicketOf
<1>8. QED
  BY <1>6, <1>7 DEF GoodTicket, Balanced, Settled

\* A ticket that checkout accepts balances.
LEMMA PaidShape ==
  ASSUME NEW t \in GoodTicket, NEW legs \in Payments, NEW fee \in CardFees,
         ~Refused(t, legs, fee), today \in 1..MaxDay
  PROVE  Paid(t, legs, fee) \in GoodTicket
<1>1. legs.cash \in Nat /\ legs.card \in Nat /\ legs \in [cash : Nat, card : Nat]
      /\ fee \in Nat /\ t.total \in Int /\ t \in Ticket /\ t.total = t.subtotal + t.tax
  BY MoneyAssumption DEF GoodTicket, Balanced, Ticket, TicketOf
<1>2. today \in Dates /\ "CLOSED" \in Statuses
  BY BoundsAssumption DEF Dates, Statuses, Settled
<1> DEFINE paid == legs.cash + legs.card
           change == paid - (t.total + fee)
<1>3. paid \in Int /\ change \in Int /\ change >= 0
  BY <1>1 DEF Refused
<1>4. Paid(t, legs, fee) =
        [t EXCEPT !.fee = fee, !.payments = legs, !.paid = paid, !.change = change,
                  !.status = "CLOSED", !.closed = today]
  BY DEF Paid
<1>5. change = paid - (t.total + fee) /\ paid = legs.cash + legs.card
  OBVIOUS
<1> HIDE DEF paid, change
<1>6. Paid(t, legs, fee) \in Ticket
  BY <1>1, <1>2, <1>3, <1>4 DEF Ticket, TicketOf
<1>7. Balanced(Paid(t, legs, fee))
  BY <1>1, <1>3, <1>4, <1>5 DEF Balanced, Ticket, TicketOf
<1>8. QED
  BY <1>6, <1>7 DEF GoodTicket

\* save_ticket turns a balanced ticket into a balanced row.
LEMMA RowShape ==
  ASSUME NEW t \in GoodTicket
  PROVE  Row(t) \in GoodRow
<1>1. t \in Ticket /\ Balanced(t) /\ t.items \in Seq(Line) /\ Len(t.items) <= MaxLines
  BY DEF GoodTicket, Ticket, TicketOf, Items
<1>2. /\ StoredLines(t.items) \in SUBSET Line
      /\ IsFiniteSet(StoredLines(t.items))
      /\ Cardinality(StoredLines(t.items)) <= MaxLines
  <2>1. Len(t.items) \in Nat /\ MaxLines \in Nat
    BY <1>1, LenProperties, BoundsAssumption
  <2>2. QED
    BY <1>1, <2>1, StoredLinesShape
<1>3. Row(t) \in TicketOf(SUBSET Line) /\ Row(t).items = StoredLines(t.items)
  BY <1>1, <1>2 DEF Row, Ticket, TicketOf
<1>4. Balanced(Row(t))
  BY <1>1 DEF Row, Balanced, Ticket, TicketOf
<1>5. QED
  BY <1>2, <1>3, <1>4 DEF GoodRow, TicketRow

\* load_all_tickets turns a balanced row into a balanced ticket.
LEMMA LoadedShape ==
  ASSUME NEW r \in GoodRow
  PROVE  Loaded(r) \in GoodTicket
<1>1. /\ r \in TicketOf(SUBSET Line) /\ Balanced(r)
      /\ r.items \in SUBSET Line
      /\ IsFiniteSet(r.items) /\ Cardinality(r.items) <= MaxLines
  BY DEF GoodRow, TicketRow, TicketOf
<1>2. LoadedLines(r.items) \in Items
  BY <1>1, LoadedLinesShape DEF Items
<1>3. Loaded(r) \in Ticket
  BY <1>1, <1>2 DEF Loaded, Ticket, TicketOf
<1>4. Balanced(Loaded(r))
  BY <1>1 DEF Loaded, Balanced, TicketOf
<1>5. QED
  BY <1>3, <1>4 DEF GoodTicket

LEMMA EmptyTicketShape == EmptyTicket \in GoodTicket
<1>1. <<>> \in Items
  BY BoundsAssumption, EmptySeq DEF Items
<1>2. 0 \in Dates /\ "OPEN" \in Statuses
  BY BoundsAssumption DEF Dates, Statuses
<1>3. EmptyTicket \in Ticket
  BY <1>1, <1>2 DEF EmptyTicket, Ticket, TicketOf
<1>4. Balanced(EmptyTicket)
  BY DEF EmptyTicket, Balanced, Settled
<1>5. QED
  BY <1>3, <1>4 DEF GoodTicket

-----------------------------------------------------------------------------
(* The database *)

GoodTables == TablesOf(GoodTicket, GoodRow)
GoodWrite  == WriteOf(GoodTicket)

\* Each kind of write has the fields Apply takes from it.
LEMMA WriteFields ==
  ASSUME NEW w \in GoodWrite
  PROVE  /\ w.op = "save_ticket" => w.id \in Ids /\ w.ticket \in GoodTicket
         /\ w.op = "delete_ticket" => w.id \in Ids
         /\ w.op = "set_ticket_printed" => w.id \in Ids /\ w.printed = TRUE
         /\ w.op = "save_phone_order" => w.oid \in Oids /\ w.row \in OrderRow
         /\ w.op = "save_seq" => w.name \in SeqNames /\ w.value \in Nat
         /\ w.op = "save_report" => w.date \in Dates /\ w.report \in ReportOf(GoodTicket)
         /\ w.op = "save_setting" => w.bps \in Nat
         /\ w.op \in {"save_ticket", "delete_ticket", "set_ticket_printed",
                      "save_phone_order", "save_seq", "save_report", "save_setting"}
  BY DEF GoodWrite, WriteOf

\* Every write leaves the tables well formed, their tickets balanced.
LEMMA ApplyShape ==
  ASSUME NEW d \in GoodTables, NEW w \in GoodWrite
  PROVE  Apply(d, w) \in GoodTables
<1> USE DEF GoodTables, TablesOf
<1>1. CASE w.op = "save_ticket"
  <2>1. w.id \in Ids /\ Row(w.ticket) \in GoodRow
    BY <1>1, WriteFields, RowShape
  <2>2. Apply(d, w) = [d EXCEPT !.tickets[w.id] = Row(w.ticket)]
    BY <1>1 DEF Apply
  <2>3. QED
    BY <2>1, <2>2
<1>2. CASE w.op = "delete_ticket"
  <2>1. w.id \in Ids
    BY <1>2, WriteFields
  <2>2. Apply(d, w) = [d EXCEPT !.tickets[w.id] = NoRow]
    BY <1>2 DEF Apply
  <2>3. QED
    BY <2>1, <2>2
<1>3. CASE w.op = "set_ticket_printed"
  <2>1. w.id \in Ids /\ w.printed \in BOOLEAN
    BY <1>3, WriteFields
  <2>2. Apply(d, w) = IF d.tickets[w.id] = NoRow THEN d
                      ELSE [d EXCEPT !.tickets[w.id].printed = w.printed]
    BY <1>3 DEF Apply
  <2>3. CASE d.tickets[w.id] # NoRow
    <3> DEFINE r == [d.tickets[w.id] EXCEPT !.printed = w.printed]
    <3>1. d.tickets[w.id] \in GoodRow
      BY <2>1, <2>3
    <3>2. r \in GoodRow
      BY <2>1, <3>1 DEF GoodRow, TicketRow, TicketOf, Balanced
    <3>3. Apply(d, w) = [d EXCEPT !.tickets[w.id] = r]
      BY <2>1, <2>2, <2>3
    <3> HIDE DEF r
    <3>4. QED
      BY <2>1, <3>2, <3>3
  <2>4. QED
    BY <2>2, <2>3
<1>4. CASE w.op = "save_phone_order"
  <2>1. w.oid \in Oids /\ w.row \in OrderRow
    BY <1>4, WriteFields
  <2>2. Apply(d, w) = IF d.orders[w.oid] = NoRow
                      THEN [d EXCEPT !.orders[w.oid] = w.row]
                      ELSE [d EXCEPT !.orders[w.oid].status = w.row.status]
    BY <1>4 DEF Apply
  <2>3. CASE d.orders[w.oid] = NoRow
    BY <2>1, <2>2, <2>3
  <2>4. CASE d.orders[w.oid] # NoRow
    <3> DEFINE r == [d.orders[w.oid] EXCEPT !.status = w.row.status]
    <3>1. r \in OrderRow
      BY <2>1, <2>4 DEF OrderRow
    <3>2. Apply(d, w) = [d EXCEPT !.orders[w.oid] = r]
      BY <2>1, <2>2, <2>4
    <3> HIDE DEF r
    <3>3. QED
      BY <2>1, <3>1, <3>2
  <2>5. QED
    BY <2>3, <2>4
<1>5. CASE w.op = "save_seq"
  <2>1. w.name \in SeqNames /\ w.value \in Nat
    BY <1>5, WriteFields
  <2>2. Apply(d, w) = [d EXCEPT !.seq[w.name] = w.value]
    BY <1>5 DEF Apply
  <2>3. QED
    BY <2>1, <2>2
<1>6. CASE w.op = "save_report"
  <2>1. w.date \in Dates /\ w.report \in ReportOf(GoodTicket)
    BY <1>6, WriteFields
  <2>2. Apply(d, w) = [d EXCEPT !.reports[w.date] = w.report]
    BY <1>6 DEF Apply
  <2>3. QED
    BY <2>1, <2>2
<1>7. CASE w.op = "save_setting"
  <2>1. w.bps \in Nat
    BY <1>7, WriteFields
  <2>2. Apply(d, w) = [d EXCEPT !.taxRate = w.bps]
    BY <1>7 DEF Apply
  <2>3. QED
    BY <2>1, <2>2
<1>8. QED
  BY <1>1, <1>2, <1>3, <1>4, <1>5, <1>6, <1>7, WriteFields

\* What a restart reads back is well formed and balanced.
LEMMA LoadShape ==
  ASSUME NEW d \in GoodTables
  PROVE  /\ LoadTickets(d) \in [Ids -> GoodTicket \cup {NoRow}]
         /\ LoadOrders(d, NoId, EmptyTicket)
              \in [Oids -> PhoneOrderOf(GoodTicket) \cup {NoRow}]
<1>1. /\ d.tickets \in [Ids -> GoodRow \cup {NoRow}]
      /\ d.orders \in [Oids -> OrderRow \cup {NoRow}]
  BY DEF GoodTables, TablesOf
<1>2. LoadTickets(d) \in [Ids -> GoodTicket \cup {NoRow}]
  BY <1>1, LoadedShape DEF LoadTickets
<1>3. ASSUME NEW oid \in Oids
      PROVE  LoadOrders(d, NoId, EmptyTicket)[oid] \in PhoneOrderOf(GoodTicket) \cup {NoRow}
  <2> DEFINE row == d.orders[oid]
  <2>1. CASE row = NoRow
    BY <1>1, <2>1 DEF LoadOrders
  <2>2. CASE row # NoRow /\ d.tickets[row.tid] = NoRow
    <3>1. row.status \in OrderStatuses /\ 0 \in Ids
      BY <1>1, <2>2, BoundsAssumption DEF OrderRow, Ids
    <3>2. LoadOrders(d, NoId, EmptyTicket)[oid] =
            [tid |-> 0, ticket |-> EmptyTicket, status |-> row.status]
      BY <1>1, <2>2 DEF LoadOrders
    <3>3. QED
      BY <3>1, <3>2, EmptyTicketShape DEF PhoneOrderOf
  <2>3. CASE row # NoRow /\ d.tickets[row.tid] # NoRow
    <3>1. /\ row.status \in OrderStatuses /\ row.tid \in Ids
          /\ Loaded(d.tickets[row.tid]) \in GoodTicket
      BY <1>1, <2>3, LoadedShape DEF OrderRow
    <3>2. LoadOrders(d, NoId, EmptyTicket)[oid] =
            [tid |-> row.tid, ticket |-> Loaded(d.tickets[row.tid]), status |-> row.status]
      BY <1>1, <2>3 DEF LoadOrders
    <3>3. QED
      BY <3>1, <3>2 DEF PhoneOrderOf
  <2>4. QED
    BY <2>1, <2>2, <2>3
<1>4. LoadOrders(d, NoId, EmptyTicket) = [oid \in Oids |-> LoadOrders(d, NoId, EmptyTicket)[oid]]
  BY <1>1 DEF LoadOrders
<1>5. QED
  BY <1>2, <1>3, <1>4

-----------------------------------------------------------------------------
(* Operations *)

\* The part of IInv a handler's frame keeps, given writes of the right shape.
Frame == /\ db \in GoodTables /\ pending \in Seq(GoodWrite)
         /\ up \in BOOLEAN /\ today \in 1..MaxDay
         /\ crashes \in 0..MaxCrashes /\ failures \in 0..MaxFailures

Memory == /\ tickets \in [Ids -> GoodTicket \cup {NoRow}]
          /\ orders \in [Oids -> PhoneOrderOf(GoodTicket) \cup {NoRow}]
          /\ seq \in [SeqNames -> Nat]
          /\ archived \in [Dates -> {NoRow} \cup ReportOf(GoodTicket)]
          /\ taxRate \in Nat

LEMMA IInvParts == IInv <=> Memory /\ Frame
  BY DEF IInv, ShapeOK, Memory, Frame, GoodTables, GoodWrite

LEMMA IInvPartsNext == IInv' <=> Memory' /\ Frame'
  BY DEF IInv, ShapeOK, Memory, Frame, GoodTables, GoodWrite

LEMMA WritesShape ==
  ASSUME Frame, NEW ws \in Seq(GoodWrite), Writes(ws)
  PROVE  Frame'
  BY DEF Frame, Writes

LEMMA GoodWrites ==
  /\ \A id \in Ids, t \in GoodTicket : SaveTicket(id, t) \in GoodWrite
  /\ \A id \in Ids : DeleteTicket(id) \in GoodWrite
  /\ \A id \in Ids : SetTicketPrinted(id, TRUE) \in GoodWrite
  /\ \A oid \in Oids, row \in OrderRow : SaveOrderRow(oid, row) \in GoodWrite
  /\ \A name \in SeqNames, n \in Nat : SaveSeq(name, n) \in GoodWrite
  /\ \A d \in Dates, r \in ReportOf(GoodTicket) : SaveReport(d, r) \in GoodWrite
  /\ \A bps \in Nat : SaveTaxRate(bps) \in GoodWrite
  BY DEF GoodWrite, WriteOf, SaveTicket, DeleteTicket, SetTicketPrinted,
         SaveOrderRow, SaveSeq, SaveReport, SaveTaxRate

LEMMA SavePhoneOrderShape ==
  ASSUME NEW oid \in Oids, NEW po \in PhoneOrderOf(GoodTicket)
  PROVE  SavePhoneOrder(oid, po) \in Seq(GoodWrite)
<1>1. /\ po.tid \in Ids /\ po.ticket \in GoodTicket
      /\ [tid |-> po.tid, status |-> po.status] \in OrderRow
  BY DEF PhoneOrderOf, OrderRow
<1>2. /\ SaveTicket(po.tid, po.ticket) \in GoodWrite
      /\ SaveOrderRow(oid, [tid |-> po.tid, status |-> po.status]) \in GoodWrite
  BY <1>1, GoodWrites
<1>3. QED
  BY <1>2 DEF SavePhoneOrder

\* Replacing one ticket by a balanced one.
LEMMA StoreShape ==
  ASSUME IInv, NEW id \in Ids, NEW t \in GoodTicket, Store(id, t)
  PROVE  IInv'
<1>1. Memory /\ Frame
  BY IInvParts
<1>2. <<SaveTicket(id, t)>> \in Seq(GoodWrite)
  BY GoodWrites
<1>3. Frame'
  BY <1>1, <1>2, WritesShape DEF Store
<1>4. Memory'
  BY <1>1 DEF Memory, Store
<1>5. QED
  BY <1>3, <1>4, IInvPartsNext

\* The ticket of an operation is one of the balanced tickets.
LEMMA InMemoryShape ==
  ASSUME IInv, NEW id \in Ids, InMemory(id)
  PROVE  /\ tickets[id] \in GoodTicket /\ tickets[id] \in Ticket
         /\ tickets[id].items \in Items
  BY IInvParts DEF Memory, InMemory, GoodTicket, Ticket, TicketOf

LEMMA HoldingShape ==
  ASSUME IInv, NEW oid \in Oids, Holding(oid)
  PROVE  /\ orders[oid] \in PhoneOrderOf(GoodTicket)
         /\ orders[oid].tid \in Ids
         /\ orders[oid].ticket \in GoodTicket
  BY IInvParts DEF Memory, Holding, PhoneOrderOf

LEMMA EditLinesShape ==
  ASSUME IInv, NEW id \in Ids, IsOpen(id), NEW items \in Items, EditLines(id, items)
  PROVE  IInv'
<1> DEFINE t == [tickets[id] EXCEPT !.items = items]
<1>1. /\ tickets[id] \in Ticket /\ Balanced(tickets[id])
      /\ tickets[id].status = "OPEN"
  BY InMemoryShape DEF IsOpen, GoodTicket
<1>2. /\ t \in Ticket /\ t.status = "OPEN"
      /\ t.paid = t.payments.cash + t.payments.card
  BY <1>1 DEF Ticket, TicketOf, Balanced
<1>3. taxRate \in Nat
  BY IInvParts DEF Memory
<1>4. Recalculated(t, taxRate) \in GoodTicket
  BY <1>2, <1>3, RecalculatedShape
<1>5. Store(id, Recalculated(t, taxRate))
  BY DEF EditLines
<1> HIDE DEF t
<1>6. QED
  BY <1>4, <1>5, StoreShape

LEMMA NewTicketStep == IInv /\ NewTicket => IInv'
<1> SUFFICES ASSUME IInv, NewTicket PROVE IInv'
  OBVIOUS
<1> DEFINE id == seq["ticket"] + 1
<1>1. Memory /\ Frame
  BY IInvParts
<1>2. id \in Ids /\ id \in Nat /\ "ticket" \in SeqNames
  BY <1>1, BoundsAssumption DEF Memory, NewTicket, Ids, SeqNames
<1>3. SaveTicket(id, EmptyTicket) \in GoodWrite /\ SaveSeq("ticket", id) \in GoodWrite
  BY <1>2, EmptyTicketShape, GoodWrites
<1>4. <<SaveTicket(id, EmptyTicket), SaveSeq("ticket", id)>> \in Seq(GoodWrite)
  BY <1>3
<1>5. /\ Writes(<<SaveTicket(id, EmptyTicket), SaveSeq("ticket", id)>>)
      /\ seq' = [seq EXCEPT !["ticket"] = id]
      /\ tickets' = [tickets EXCEPT ![id] = EmptyTicket]
      /\ UNCHANGED <<orders, archived, taxRate>>
  BY DEF NewTicket
<1> HIDE DEF id
<1>6. Frame'
  BY <1>1, <1>4, <1>5, WritesShape
<1>7. Memory'
  BY <1>1, <1>2, <1>5, EmptyTicketShape DEF Memory
<1>8. QED
  BY <1>6, <1>7, IInvPartsNext

LEMMA AddItemStep ==
  ASSUME IInv, NEW id \in Ids, NEW key \in LineKeys, NEW qty \in 1..MaxQty,
         AddItem(id, key, qty)
  PROVE  IInv'
<1> DEFINE items == AddLine(tickets[id].items,
                            [key |-> key, price |-> UnitPrice[key], qty |-> qty])
<1>1. IsOpen(id) /\ items \in Items /\ EditLines(id, items)
  BY DEF AddItem
<1> HIDE DEF items
<1>2. QED
  BY <1>1, EditLinesShape

\* Dropping one line keeps the items well formed.
LEMMA RemoveLineShape ==
  ASSUME NEW items \in Items, NEW i \in 1..Len(items)
  PROVE  RemoveAt(items, i) \in Items
<1>1. items \in Seq(Line) /\ Len(items) <= MaxLines /\ Len(items) \in Nat
  BY LenProperties DEF Items
<1>2. RemoveAt(items, i) \in Seq(Line) /\ Len(RemoveAt(items, i)) = Len(items) - 1
  BY <1>1, RemoveAtShape
<1>3. QED
  BY <1>1, <1>2, BoundsAssumption DEF Items

\* Changing one line keeps the items well formed.
LEMMA ChangeLineShape ==
  ASSUME NEW items \in Items, NEW i \in 1..Len(items), NEW l \in Line
  PROVE  [items EXCEPT ![i] = l] \in Items
<1>1. items \in Seq(Line) /\ Len(items) <= MaxLines
  BY DEF Items
<1>2. /\ [items EXCEPT ![i] = l] \in Seq(Line)
      /\ Len([items EXCEPT ![i] = l]) = Len(items)
  BY <1>1, ExceptSeq
<1>3. QED
  BY <1>1, <1>2 DEF Items

LEMMA RemoveItemStep ==
  ASSUME IInv, NEW id \in Ids, NEW i \in 1..MaxLines, RemoveItem(id, i)
  PROVE  IInv'
<1>1. IsOpen(id) /\ tickets[id].items \in Items /\ i \in 1..Len(tickets[id].items)
  BY InMemoryShape DEF RemoveItem, IsOpen, Findable
<1>2. RemoveLine(tickets[id].items, i) \in Items
  BY <1>1, RemoveLineShape DEF RemoveLine
<1>3. QED
  BY <1>1, <1>2, EditLinesShape DEF RemoveItem

LEMMA DecreaseItemStep ==
  ASSUME IInv, NEW id \in Ids, NEW i \in 1..MaxLines, DecreaseItem(id, i)
  PROVE  IInv'
<1> DEFINE items == tickets[id].items
           l == [items[i] EXCEPT !.qty = @ - 1]
<1>1. IsOpen(id) /\ items \in Items /\ i \in 1..Len(items)
  BY InMemoryShape DEF DecreaseItem, IsOpen, Findable
<1>2. items[i] \in Line
  BY <1>1, ElementOfSeq DEF Items
<1>3. CASE items[i].qty > 1
  <2>1. l \in Line
    BY <1>2, <1>3, BoundsAssumption DEF Line
  <2>2. DecreaseLine(items, i) = [items EXCEPT ![i] = l]
    BY <1>1, <1>3 DEF DecreaseLine
  <2> HIDE DEF l, items
  <2>3. DecreaseLine(items, i) \in Items
    BY <1>1, <2>1, <2>2, ChangeLineShape
  <2>4. QED
    BY <1>1, <2>3, EditLinesShape DEF DecreaseItem, items
<1>4. CASE ~(items[i].qty > 1)
  <2>1. DecreaseLine(items, i) \in Items
    BY <1>1, <1>4, RemoveLineShape DEF DecreaseLine
  <2>2. QED
    BY <1>1, <2>1, EditLinesShape DEF DecreaseItem
<1>5. QED
  BY <1>3, <1>4

LEMMA UpdateItemStep ==
  ASSUME IInv, NEW id \in Ids, NEW i \in 1..MaxLines, NEW key \in LineKeys,
         UpdateItem(id, i, key)
  PROVE  IInv'
<1> DEFINE items == tickets[id].items
           l == [items[i] EXCEPT !.key = key, !.price = UnitPrice[key]]
<1>1. IsOpen(id) /\ items \in Items /\ i \in 1..Len(items)
  <2>1. IsOpen(id) /\ i \in DOMAIN items
    BY DEF UpdateItem
  <2>2. items \in Items
    BY <2>1, InMemoryShape DEF IsOpen
  <2>3. QED
    BY <2>1, <2>2, LenProperties DEF Items
<1>2. items[i] \in Line /\ UnitPrice[key] \in {UnitPrice[k] : k \in LineKeys}
  BY <1>1, ElementOfSeq DEF Items
<1>3. l \in Line
  BY <1>2 DEF Line
<1>4. UpdateLine(items, i, key, UnitPrice[key]) = [items EXCEPT ![i] = l]
  BY <1>1 DEF UpdateLine
<1>5. EditLines(id, UpdateLine(items, i, key, UnitPrice[key]))
  BY DEF UpdateItem
<1> HIDE DEF items, l
<1>6. UpdateLine(items, i, key, UnitPrice[key]) \in Items
  BY <1>1, <1>3, <1>4, ChangeLineShape
<1>7. QED
  BY <1>1, <1>5, <1>6, EditLinesShape

LEMMA CheckoutRefusedStep ==
  ASSUME IInv, NEW id \in Ids, NEW legs \in Payments, NEW fee \in CardFees,
         CheckoutRefused(id, legs, fee)
  PROVE  IInv'
<1> DEFINE t == [tickets[id] EXCEPT !.fee = fee]
<1>1. Memory /\ Frame
  BY IInvParts
<1>2. /\ tickets' = [tickets EXCEPT ![id] = t]
      /\ Writes(<<>>) /\ UNCHANGED <<orders, seq, archived, taxRate>>
  <2>1. /\ tickets' = [tickets EXCEPT ![id].fee = fee]
        /\ Writes(<<>>) /\ UNCHANGED <<orders, seq, archived, taxRate>>
    BY DEF CheckoutRefused
  <2>2. QED
    BY <1>1, <2>1 DEF Memory
<1>3. t \in GoodTicket
  <2>1. /\ tickets[id] \in Ticket /\ Balanced(tickets[id])
        /\ tickets[id].status = "OPEN" /\ fee \in Nat
    BY InMemoryShape, MoneyAssumption DEF CheckoutRefused, IsOpen, GoodTicket
  <2>2. t \in Ticket
    BY <2>1 DEF Ticket, TicketOf
  <2>3. Balanced(t)
    BY <2>1 DEF Ticket, TicketOf, Balanced, Settled
  <2>4. QED
    BY <2>2, <2>3 DEF GoodTicket
<1> HIDE DEF t
<1>4. Frame'
  BY <1>1, <1>2, WritesShape, EmptySeq
<1>5. Memory'
  BY <1>1, <1>2, <1>3 DEF Memory
<1>6. QED
  BY <1>4, <1>5, IInvPartsNext

LEMMA CheckoutStep ==
  ASSUME IInv, NEW id \in Ids, NEW legs \in Payments, NEW fee \in CardFees,
         Checkout(id, legs, fee)
  PROVE  IInv'
<1>1. tickets[id] \in GoodTicket /\ today \in 1..MaxDay
  BY InMemoryShape, IInvParts DEF Checkout, IsOpen, Frame
<1>2. ~Refused(tickets[id], legs, fee) /\ Store(id, Paid(tickets[id], legs, fee))
  BY DEF Checkout
<1>3. Paid(tickets[id], legs, fee) \in GoodTicket
  BY <1>1, <1>2, PaidShape
<1>4. QED
  BY <1>2, <1>3, StoreShape

LEMMA VoidTicketStep ==
  ASSUME IInv, NEW id \in Ids, VoidTicket(id)
  PROVE  IInv'
<1> DEFINE d == IF tickets[id].closed = NoDate THEN today ELSE tickets[id].closed
           t == [tickets[id] EXCEPT !.status = "VOIDED", !.closed = d]
<1>1. tickets[id] \in Ticket /\ Balanced(tickets[id])
  BY InMemoryShape DEF VoidTicket, GoodTicket
<1>2. d \in Dates
  BY <1>1, IInvParts, BoundsAssumption DEF Frame, Dates, Ticket, TicketOf
<1>3. Store(id, t)
  <2>1. Store(id, [tickets[id] EXCEPT !.status = "VOIDED",
                     !.closed = IF @ = NoDate THEN today ELSE @])
    BY DEF VoidTicket
  <2>2. t = [tickets[id] EXCEPT !.status = "VOIDED",
               !.closed = IF @ = NoDate THEN today ELSE @]
    BY <1>1 DEF Ticket, TicketOf
  <2>3. QED
    BY <2>1, <2>2
<1>4. t \in GoodTicket
  <2> HIDE DEF d
  <2>1. t \in Ticket
    BY <1>1, <1>2 DEF Ticket, TicketOf, Statuses
  <2>2. Balanced(t)
    BY <1>1 DEF Balanced, Settled, Ticket, TicketOf
  <2>3. QED
    BY <2>1, <2>2 DEF GoodTicket
<1> HIDE DEF t
<1>5. QED
  BY <1>3, <1>4, StoreShape

\* comp_ticket and refund_ticket: the money of a paid ticket is not touched.
LEMMA SettleStep ==
  ASSUME IInv, NEW id \in Ids, NEW status \in Settled, Settle(id, status)
  PROVE  IInv'
<1> DEFINE t == [tickets[id] EXCEPT !.status = status]
<1>1. tickets[id] \in Ticket /\ Balanced(tickets[id]) /\ tickets[id].status = "CLOSED"
  BY InMemoryShape DEF Settle, GoodTicket
<1>2. t \in Ticket
  BY <1>1 DEF Ticket, TicketOf, Statuses
<1>3. Balanced(t)
  BY <1>1 DEF Balanced, Settled, Ticket, TicketOf
<1>4. Store(id, t)
  BY DEF Settle
<1>5. t \in GoodTicket
  BY <1>2, <1>3 DEF GoodTicket
<1> HIDE DEF t
<1>6. QED
  BY <1>4, <1>5, StoreShape

LEMMA MarkTicketPrintedStep ==
  ASSUME IInv, NEW id \in Ids, MarkTicketPrinted(id)
  PROVE  IInv'
<1>1. CASE InMemory(id)
  <2> DEFINE t == [tickets[id] EXCEPT !.printed = TRUE]
  <2>1. tickets[id] \in Ticket /\ Balanced(tickets[id])
    BY <1>1, InMemoryShape DEF GoodTicket
  <2>2. t \in GoodTicket
    BY <2>1 DEF GoodTicket, Balanced, Ticket, TicketOf
  <2>3. Store(id, t)
    BY <1>1 DEF MarkTicketPrinted
  <2> HIDE DEF t
  <2>4. QED
    BY <2>2, <2>3, StoreShape
<1>2. CASE ~InMemory(id)
  <2>1. Writes(<<SetTicketPrinted(id, TRUE)>>) /\ UNCHANGED memory
    BY <1>2 DEF MarkTicketPrinted
  <2>2. <<SetTicketPrinted(id, TRUE)>> \in Seq(GoodWrite)
    <3> DEFINE w == SetTicketPrinted(id, TRUE)
    <3>1. w \in GoodWrite
      BY DEF SetTicketPrinted, GoodWrite, WriteOf
    <3> HIDE DEF w
    <3>2. <<w>> \in Seq(GoodWrite)
      BY <3>1
    <3>3. QED
      BY <3>2 DEF w
  <2>3. Frame'
    BY <2>1, <2>2, WritesShape, IInvParts
  <2>4. Memory'
    BY <2>1, IInvParts DEF Memory, memory
  <2>5. QED
    BY <2>3, <2>4, IInvPartsNext
<1>3. QED
  BY <1>1, <1>2

\* The tickets closed on a date are finitely many, and balanced.
LEMMA ClosedOnShape ==
  ASSUME IInv, NEW date
  PROVE  ClosedOn(date) \in ReportOf(GoodTicket)
<1> DEFINE S == {i \in Ids : InMemory(i) /\ tickets[i].closed = date}
           f == [i \in S |-> <<i, tickets[i]>>]
<1>1. IsFiniteSet(S)
  <2>1. IsFiniteSet(Ids)
    BY BoundsAssumption, FS_Interval DEF Ids
  <2>2. QED
    BY <2>1, FS_Subset
<1>2. f \in Surjection(S, ClosedOn(date))
  BY DEF Surjection, ClosedOn
<1>3. IsFiniteSet(ClosedOn(date))
  BY <1>1, <1>2, FS_Surjection
<1>4. ClosedOn(date) \subseteq Ids \X GoodTicket
  BY InMemoryShape DEF ClosedOn
<1>5. QED
  BY <1>3, <1>4 DEF ReportOf

LEMMA EndDayStep == IInv /\ EndDay => IInv'
<1> SUFFICES ASSUME IInv, EndDay PROVE IInv'
  OBVIOUS
<1> DEFINE z == ClosedOn(today)
           gone == {id \in Ids : Deletable(id)}
<1>1. Memory /\ Frame
  BY IInvParts
<1>2. PICK order \in SetToSeqs(gone) :
        Writes([i \in DOMAIN order |-> DeleteTicket(order[i])] \o <<SaveReport(today, z)>>)
  BY DEF EndDay
<1>3. /\ archived' = [archived EXCEPT ![today] = z]
      /\ tickets' = [id \in Ids |-> IF id \in gone THEN NoRow ELSE tickets[id]]
      /\ UNCHANGED <<orders, seq, taxRate>>
  BY DEF EndDay
<1>4. today \in Dates
  BY <1>1, BoundsAssumption DEF Frame, Dates
<1>5. z \in ReportOf(GoodTicket)
  BY ClosedOnShape
<1>6. [i \in DOMAIN order |-> DeleteTicket(order[i])] \in Seq(GoodWrite)
  <2>1. order \in [1..Cardinality(gone) -> gone]
    BY <1>2 DEF SetToSeqs
  <2>2. IsFiniteSet(gone)
    <3>1. IsFiniteSet(Ids)
      BY BoundsAssumption, FS_Interval DEF Ids
    <3>2. QED
      BY <3>1, FS_Subset
  <2>3. Cardinality(gone) \in Nat
    BY <2>2, FS_CardinalityType
  <2>4. \A i \in 1..Cardinality(gone) : DeleteTicket(order[i]) \in GoodWrite
    BY <2>1, GoodWrites
  <2> HIDE DEF gone
  <2>5. QED
    BY <2>1, <2>3, <2>4
<1>7. <<SaveReport(today, z)>> \in Seq(GoodWrite)
  BY <1>4, <1>5, GoodWrites
<1> HIDE DEF z, gone
<1> DEFINE ws == [i \in DOMAIN order |-> DeleteTicket(order[i])] \o <<SaveReport(today, z)>>
<1>8. ws \in Seq(GoodWrite)
  BY <1>6, <1>7, ConcatProperties
<1>9. Writes(ws)
  BY <1>2
<1> HIDE DEF ws
<1>10. Frame'
  BY <1>1, <1>8, <1>9, WritesShape
<1>11. Memory'
  BY <1>1, <1>3, <1>4, <1>5 DEF Memory
<1>12. QED
  BY <1>10, <1>11, IInvPartsNext

LEMMA CreatePhoneOrderStep ==
  ASSUME IInv, NEW id \in Ids, CreatePhoneOrder(id)
  PROVE  IInv'
<1> DEFINE oid == seq["phone_order"] + 1
           po  == [tid |-> id, ticket |-> tickets[id], status |-> "HOLDING"]
           ws  == <<DeleteTicket(id)>> \o SavePhoneOrder(oid, po)
                    \o <<SaveSeq("phone_order", oid)>>
<1>1. Memory /\ Frame
  BY IInvParts
<1>2. oid \in Oids /\ oid \in Nat /\ "phone_order" \in SeqNames
  BY <1>1, BoundsAssumption DEF Memory, CreatePhoneOrder, Oids, SeqNames
<1>3. po \in PhoneOrderOf(GoodTicket)
  BY InMemoryShape DEF CreatePhoneOrder, IsOpen, PhoneOrderOf, OrderStatuses
<1>4. /\ Writes(ws)
      /\ seq' = [seq EXCEPT !["phone_order"] = oid]
      /\ orders' = [orders EXCEPT ![oid] = po]
      /\ tickets' = [tickets EXCEPT ![id] = NoRow]
      /\ UNCHANGED <<archived, taxRate>>
  BY DEF CreatePhoneOrder
<1>5. ws \in Seq(GoodWrite)
  <2>1. DeleteTicket(id) \in GoodWrite /\ SaveSeq("phone_order", oid) \in GoodWrite
    BY <1>2, GoodWrites
  <2>2. SavePhoneOrder(oid, po) \in Seq(GoodWrite)
    BY <1>2, <1>3, SavePhoneOrderShape
  <2> HIDE DEF oid, po
  <2>3. QED
    BY <2>1, <2>2, ConcatProperties
<1> HIDE DEF oid, po, ws
<1>6. Frame'
  BY <1>1, <1>4, <1>5, WritesShape
<1>7. Memory'
  BY <1>1, <1>2, <1>3, <1>4 DEF Memory
<1>8. QED
  BY <1>6, <1>7, IInvPartsNext

\* The snapshot put back by CHECKOUT and EDIT is OPEN, whatever it was.
LEMMA ReopenedShape ==
  ASSUME IInv, NEW po \in PhoneOrderOf(GoodTicket)
  PROVE  Reopened(po) \in GoodTicket
<1> DEFINE t == [po.ticket EXCEPT !.status = "OPEN"]
<1>1. po.ticket \in Ticket /\ Balanced(po.ticket)
  BY DEF PhoneOrderOf, GoodTicket
<1>2. /\ t \in Ticket /\ t.status = "OPEN"
      /\ t.paid = t.payments.cash + t.payments.card
  BY <1>1 DEF Ticket, TicketOf, Statuses, Balanced
<1>3. taxRate \in Nat
  BY IInvParts DEF Memory
<1>4. Reopened(po) = Recalculated(t, taxRate)
  BY DEF Reopened
<1> HIDE DEF t
<1>5. QED
  BY <1>2, <1>3, <1>4, RecalculatedShape

\* A phone order on hold with another status.
LEMMA StatusShape ==
  ASSUME IInv, NEW oid \in Oids, Holding(oid), NEW status \in OrderStatuses
  PROVE  /\ [orders[oid] EXCEPT !.status = status] \in PhoneOrderOf(GoodTicket)
         /\ [orders[oid] EXCEPT !.status = status].tid \in Ids
  BY HoldingShape DEF PhoneOrderOf

LEMMA PhoneCheckoutStep ==
  ASSUME IInv, NEW oid \in Oids, PhoneCheckout(oid)
  PROVE  IInv'
<1> DEFINE po == [orders[oid] EXCEPT !.status = "COMPLETED"]
           ws == <<SaveTicket(po.tid, Reopened(po))>> \o SavePhoneOrder(oid, po)
<1>1. Memory /\ Frame
  BY IInvParts
<1>2. po \in PhoneOrderOf(GoodTicket) /\ po.tid \in Ids
  BY StatusShape DEF PhoneCheckout, OrderStatuses
<1>3. /\ tickets' = [tickets EXCEPT ![po.tid] = Reopened(po)]
      /\ orders' = [orders EXCEPT ![oid] = po]
      /\ Writes(ws)
      /\ UNCHANGED <<seq, archived, taxRate>>
  BY DEF PhoneCheckout
<1> HIDE DEF po
<1>4. Reopened(po) \in GoodTicket
  BY <1>2, ReopenedShape
<1>5. ws \in Seq(GoodWrite)
  <2>1. SaveTicket(po.tid, Reopened(po)) \in GoodWrite
    BY <1>2, <1>4, GoodWrites
  <2>2. SavePhoneOrder(oid, po) \in Seq(GoodWrite)
    BY <1>2, SavePhoneOrderShape
  <2>3. QED
    BY <2>1, <2>2, ConcatProperties
<1> HIDE DEF ws
<1>6. Frame'
  BY <1>1, <1>3, <1>5, WritesShape
<1>7. Memory'
  BY <1>1, <1>2, <1>3, <1>4 DEF Memory
<1>8. QED
  BY <1>6, <1>7, IInvPartsNext

LEMMA PhoneCancelStep ==
  ASSUME IInv, NEW oid \in Oids, PhoneCancel(oid)
  PROVE  IInv'
<1> DEFINE po == [orders[oid] EXCEPT !.status = "CANCELLED"]
<1>1. Memory /\ Frame
  BY IInvParts
<1>2. po \in PhoneOrderOf(GoodTicket)
  BY StatusShape DEF PhoneCancel, OrderStatuses
<1>3. /\ orders' = [orders EXCEPT ![oid] = po]
      /\ Writes(SavePhoneOrder(oid, po))
      /\ UNCHANGED <<tickets, seq, archived, taxRate>>
  BY DEF PhoneCancel
<1> HIDE DEF po
<1>4. Frame'
  BY <1>1, <1>2, <1>3, SavePhoneOrderShape, WritesShape
<1>5. Memory'
  BY <1>1, <1>2, <1>3 DEF Memory
<1>6. QED
  BY <1>4, <1>5, IInvPartsNext

LEMMA PhoneEditStep ==
  ASSUME IInv, NEW oid \in Oids, PhoneEdit(oid)
  PROVE  IInv'
<1>1. orders[oid] \in PhoneOrderOf(GoodTicket) /\ orders[oid].tid \in Ids
  BY HoldingShape DEF PhoneEdit
<1>2. Reopened(orders[oid]) \in GoodTicket
  BY <1>1, ReopenedShape
<1>3. Store(orders[oid].tid, Reopened(orders[oid]))
  BY DEF PhoneEdit
<1>4. QED
  BY <1>1, <1>2, <1>3, StoreShape

-----------------------------------------------------------------------------
(* Settings, the database and the process *)

LEMMA SetTaxRateStep ==
  ASSUME IInv, NEW bps \in TaxRates, SetTaxRate(bps)
  PROVE  IInv'
<1>1. bps \in Nat
  BY MoneyAssumption
<1>2. <<SaveTaxRate(bps)>> \in Seq(GoodWrite)
  BY <1>1, GoodWrites
<1>3. Frame'
  BY <1>2, WritesShape, IInvParts DEF SetTaxRate
<1>4. Memory'
  BY <1>1, IInvParts DEF Memory, SetTaxRate
<1>5. QED
  BY <1>3, <1>4, IInvPartsNext

LEMMA CommitWriteStep == IInv /\ CommitWrite => IInv'
<1> SUFFICES ASSUME IInv, CommitWrite PROVE IInv'
  OBVIOUS
<1>1. Memory /\ Frame
  BY IInvParts
<1>2. Head(pending) \in GoodWrite /\ Tail(pending) \in Seq(GoodWrite)
  BY <1>1, HeadTailProperties DEF Frame, CommitWrite
<1>3. Apply(db, Head(pending)) \in GoodTables
  BY <1>1, <1>2, ApplyShape DEF Frame
<1>4. Frame'
  BY <1>1, <1>2, <1>3 DEF Frame, CommitWrite
<1>5. Memory'
  BY <1>1 DEF Memory, CommitWrite, memory
<1>6. QED
  BY <1>4, <1>5, IInvPartsNext

LEMMA WriteFailsStep == IInv /\ WriteFails => IInv'
<1> SUFFICES ASSUME IInv, WriteFails PROVE IInv'
  OBVIOUS
<1>1. Memory /\ Frame
  BY IInvParts
<1>2. Tail(pending) \in Seq(GoodWrite) /\ <<>> \in Seq(GoodWrite)
  BY <1>1, HeadTailProperties, EmptySeq DEF Frame, WriteFails
<1>3. pending' \in Seq(GoodWrite)
  BY <1>2 DEF WriteFails
<1>4. failures' \in 0..MaxFailures
  BY <1>1, BoundsAssumption DEF Frame, WriteFails
<1>5. Frame'
  BY <1>1, <1>3, <1>4 DEF Frame, WriteFails
<1>6. Memory'
  BY <1>1 DEF Memory, WriteFails, memory
<1>7. QED
  BY <1>5, <1>6, IInvPartsNext

LEMMA CrashStep == IInv /\ Crash => IInv'
<1> SUFFICES ASSUME IInv, Crash PROVE IInv'
  OBVIOUS
<1>1. Memory /\ Frame
  BY IInvParts
<1>2. pending' \in Seq(GoodWrite)
  BY EmptySeq DEF Crash
<1>3. crashes' \in 0..MaxCrashes
  BY <1>1, BoundsAssumption DEF Frame, Crash
<1>4. Frame'
  BY <1>1, <1>2, <1>3 DEF Frame, Crash
<1>5. Memory'
  BY MoneyAssumption DEF Memory, Crash
<1>6. QED
  BY <1>4, <1>5, IInvPartsNext

LEMMA RestartStep == IInv /\ Restart => IInv'
<1> SUFFICES ASSUME IInv, Restart PROVE IInv'
  OBVIOUS
<1>1. Memory /\ Frame
  BY IInvParts
<1>2. db \in GoodTables
  BY <1>1 DEF Frame
<1>3. /\ db.seq \in [SeqNames -> Nat]
      /\ db.reports \in [Dates -> {NoRow} \cup ReportOf(GoodTicket)]
      /\ db.taxRate \in Nat \cup {NoRow}
  BY <1>2 DEF GoodTables, TablesOf
<1>4. Memory'
  BY <1>2, <1>3, LoadShape, MoneyAssumption DEF Memory, Restart, Load
<1>5. Frame'
  BY <1>1 DEF Frame, Restart
<1>6. QED
  BY <1>4, <1>5, IInvPartsNext

LEMMA NextDayStep == IInv /\ NextDay => IInv'
<1> SUFFICES ASSUME IInv, NextDay PROVE IInv'
  OBVIOUS
<1>1. Memory /\ Frame
  BY IInvParts
<1>2. today' \in 1..MaxDay
  BY <1>1, BoundsAssumption DEF Frame, NextDay
<1>3. Frame'
  BY <1>1, <1>2 DEF Frame, NextDay
<1>4. Memory'
  BY <1>1 DEF Memory, NextDay, memory
<1>5. QED
  BY <1>3, <1>4, IInvPartsNext

-----------------------------------------------------------------------------
(* The invariant *)

LEMMA InitIInv == Init => IInv
<1> SUFFICES ASSUME Init PROVE IInv
  OBVIOUS
<1>1. 1 \in 1..MaxDay /\ 0 \in 0..MaxCrashes /\ 0 \in 0..MaxFailures
  BY BoundsAssumption
<1>2. EmptyDb \in GoodTables
  BY DEF EmptyDb, GoodTables, TablesOf
<1>3. Frame
  BY <1>1, <1>2, EmptySeq DEF Init, Frame
<1>4. Memory
  BY MoneyAssumption DEF Init, Memory
<1>5. QED
  BY <1>3, <1>4, IInvParts

LEMMA TicketOpsStep ==
  ASSUME IInv, NEW id \in Ids, TicketOps(id)
  PROVE  IInv'
<1>1. ASSUME NEW key \in LineKeys, NEW qty \in 1..MaxQty, AddItem(id, key, qty)
      PROVE  IInv'
  BY <1>1, AddItemStep
<1>2. ASSUME NEW i \in 1..MaxLines, RemoveItem(id, i) \/ DecreaseItem(id, i)
      PROVE  IInv'
  BY <1>2, RemoveItemStep, DecreaseItemStep
<1>3. ASSUME NEW i \in 1..MaxLines, NEW key \in LineKeys, UpdateItem(id, i, key)
      PROVE  IInv'
  BY <1>3, UpdateItemStep
<1>4. ASSUME NEW legs \in Payments, NEW fee \in CardFees,
             Checkout(id, legs, fee) \/ CheckoutRefused(id, legs, fee)
      PROVE  IInv'
  BY <1>4, CheckoutStep, CheckoutRefusedStep
<1>5. CASE VoidTicket(id)
  BY <1>5, VoidTicketStep
<1>6. CASE CompTicket(id) \/ RefundTicket(id)
  BY <1>6, SettleStep DEF CompTicket, RefundTicket, Settled
<1>7. CASE MarkTicketPrinted(id)
  BY <1>7, MarkTicketPrintedStep
<1>8. CASE CreatePhoneOrder(id)
  BY <1>8, CreatePhoneOrderStep
<1>9. QED
  BY <1>1, <1>2, <1>3, <1>4, <1>5, <1>6, <1>7, <1>8 DEF TicketOps

\* Every step keeps every ticket, row, snapshot, report and write well formed
\* and balanced.
LEMMA NextIInv == IInv /\ [Next]_vars => IInv'
<1> SUFFICES ASSUME IInv, [Next]_vars PROVE IInv'
  OBVIOUS
<1>1. CASE NewTicket \/ EndDay
  BY <1>1, NewTicketStep, EndDayStep
<1>2. ASSUME NEW id \in Ids, TicketOps(id)
      PROVE  IInv'
  BY <1>2, TicketOpsStep
<1>3. ASSUME NEW oid \in Oids, PhoneOps(oid)
      PROVE  IInv'
  BY <1>3, PhoneCheckoutStep, PhoneCancelStep, PhoneEditStep DEF PhoneOps
<1>4. ASSUME NEW bps \in TaxRates, SetTaxRate(bps)
      PROVE  IInv'
  BY <1>4, SetTaxRateStep
<1>5. CASE CommitWrite \/ WriteFails
  BY <1>5, CommitWriteStep, WriteFailsStep
<1>6. CASE Crash \/ Restart \/ NextDay
  BY <1>6, CrashStep, RestartStep, NextDayStep
<1>7. CASE UNCHANGED vars
  <2>1. Memory /\ Frame
    BY IInvParts
  <2>2. Memory'
    BY <1>7, <2>1 DEF Memory, vars, memory
  <2>3. Frame'
    BY <1>7, <2>1 DEF Frame, vars
  <2>4. QED
    BY <2>2, <2>3, IInvPartsNext
<1>8. QED
  BY <1>1, <1>2, <1>3, <1>4, <1>5, <1>6, <1>7 DEF Next

LEMMA GoodWriteFields ==
  ASSUME IInv, NEW i \in 1..Len(pending)
  PROVE  /\ pending[i] \in GoodWrite
         /\ pending[i].op = "save_ticket" => pending[i].ticket \in GoodTicket
         /\ pending[i].op = "save_report" => pending[i].report \in ReportOf(GoodTicket)
<1>1. pending[i] \in GoodWrite
  BY IInvParts, ElementOfSeq DEF Frame
<1>2. QED
  BY <1>1, WriteFields

LEMMA IInvTypeOK == IInv => TypeOK
<1> SUFFICES ASSUME IInv PROVE TypeOK
  OBVIOUS
<1>1. Memory /\ Frame
  BY IInvParts
<1>2. GoodTicket \subseteq Ticket /\ GoodRow \subseteq TicketRow
  BY DEF GoodTicket, GoodRow
<1>3. /\ PhoneOrderOf(GoodTicket) \subseteq PhoneOrderOf(Ticket)
      /\ ReportOf(GoodTicket) \subseteq ReportOf(Ticket)
  BY <1>2 DEF PhoneOrderOf, ReportOf
<1>4. WriteOf(GoodTicket) \subseteq WriteOf(Ticket)
  BY <1>2, <1>3 DEF WriteOf
<1>5. TablesOf(GoodTicket, GoodRow) \subseteq TablesOf(Ticket, TicketRow)
  BY <1>2, <1>3 DEF TablesOf
<1>6. pending \in Seq(WriteOf(Ticket))
  <2>1. pending \in Seq(WriteOf(GoodTicket))
    BY <1>1 DEF Frame, GoodWrite
  <2>2. QED
    BY <1>4, <2>1
<1>7. QED
  BY <1>1, <1>2, <1>3, <1>5, <1>6 DEF TypeOK, ShapeOK, Memory, Frame, GoodTables

LEMMA IInvSettledBalance == IInv => SettledBalance
<1> SUFFICES ASSUME IInv PROVE SettledBalance
  OBVIOUS
<1>1. Memory /\ Frame
  BY IInvParts
<1>2. \A id \in Ids : tickets[id] # NoRow => Balanced(tickets[id])
  BY <1>1 DEF Memory, GoodTicket
<1>3. \A oid \in Oids : orders[oid] # NoRow => Balanced(orders[oid].ticket)
  BY <1>1 DEF Memory, GoodTicket, PhoneOrderOf
<1>4. \A id \in Ids : db.tickets[id] # NoRow => Balanced(db.tickets[id])
  BY <1>1 DEF Frame, GoodTables, TablesOf, GoodRow
<1>5. \A d \in Dates : archived[d] # NoRow => \A s \in archived[d] : Balanced(s[2])
  BY <1>1 DEF Memory, ReportOf, GoodTicket
<1>6. \A d \in Dates : db.reports[d] # NoRow => \A s \in db.reports[d] : Balanced(s[2])
  BY <1>1 DEF Frame, GoodTables, TablesOf, ReportOf, GoodTicket
<1>7. \A i \in 1..Len(pending) :
        /\ pending[i].op = "save_ticket" => Balanced(pending[i].ticket)
        /\ pending[i].op = "save_report" => \A s \in pending[i].report : Balanced(s[2])
  BY GoodWriteFields DEF ReportOf, GoodTicket
<1>8. QED
  BY <1>2, <1>3, <1>4, <1>5, <1>6, <1>7 DEF SettledBalance

LEMMA AlwaysIInv == Spec => []IInv
<1>1. QED
  BY InitIInv, NextIInv, PTL DEF Spec

\* The handlers, the crashes and the reloads of pos_manager.cpp keep tickets,
\* orders, tables and waiting writes well formed, whatever the constants.
THEOREM TypeCorrect == Spec => []TypeOK
<1>1. QED
  BY AlwaysIInv, IInvTypeOK, PTL

\* The change checkout computes stays right for good: in memory, in phone
\* orders, in the tables, in reports and in the writes on their way, through
\* crashes and failed writes.
THEOREM SettledAlwaysBalances == Spec => []SettledBalance
<1>1. QED
  BY AlwaysIInv, IInvSettledBalance, PTL
=============================================================================
