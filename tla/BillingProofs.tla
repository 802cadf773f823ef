---------------------------- MODULE BillingProofs ----------------------------
(***************************************************************************)
(* Proofs about Billing, for any hour, day and week, any tables of rules,  *)
(* sessions of any length and any number of payment requests.              *)
(*                                                                         *)
(* A price is a fold over minutes, and the winner of a minute a fold over  *)
(* rules.  The folds of the library are recursive functions chosen to      *)
(* solve an equation: the first part shows that these have a solution and  *)
(* are what one expects of them, by induction over the size of a set.  The *)
(* second goes through pickWinner and computePrice row by row and minute   *)
(* by minute; the third is about sessions, the fourth about payments.      *)
(***************************************************************************)
EXTENDS Billing, FiniteSetTheorems, SequenceTheorems, WellFoundedInduction,
        TLAPS

\* Induction over the numbers, for a set instead of a predicate.
LEMMA CountUp ==
  ASSUME NEW T, 0 \in T, \A n \in Nat : n \in T => n + 1 \in T
  PROVE  Nat \subseteq T
<1> DEFINE Missing == Nat \ T
<1> SUFFICES ASSUME Missing # {} PROVE FALSE
  OBVIOUS
<1>1. PICK R : R = OpToRel(<, Nat)
  OBVIOUS
<1>2. IsWellFoundedOn(R, Nat)
  BY <1>1, NatLessThanWellFounded
<1>3. Missing \subseteq Nat
  OBVIOUS
<1> HIDE DEF Missing
<1>4. PICK n \in Missing : \A m \in Missing : <<m, n>> \notin R
  BY <1>2, <1>3, WFMin
<1>5. \A m, k \in Nat : m < k => <<m, k>> \in R
  BY <1>1 DEF OpToRel
<1>6. n \in Nat /\ n \notin T
  BY <1>4 DEF Missing
<1>7. n # 0 /\ n - 1 \in Nat /\ n - 1 < n /\ (n - 1) + 1 = n
  BY <1>6
<1>8. n - 1 \notin Missing
  BY <1>4, <1>5, <1>6, <1>7
<1>9. n - 1 \in T
  BY <1>7, <1>8 DEF Missing
<1> QED
  BY <1>6, <1>7, <1>9

\* Induction over the subsets of a finite set, one element less at a time.
Inductive(T, S) ==
    \A s \in SUBSET S : (\A x \in s : s \ {x} \in T) => s \in T

\* Such a set holds every subset.
LEMMA BySize ==
  ASSUME NEW S, IsFiniteSet(S), NEW T, Inductive(T, S)
  PROVE  SUBSET S \subseteq T
<1> USE DEF Inductive
<1> DEFINE N == {n \in Nat : \A s \in SUBSET S : Cardinality(s) = n => s \in T}
<1>1. \A s \in SUBSET S : IsFiniteSet(s) /\ Cardinality(s) \in Nat
  BY FS_Subset, FS_CardinalityType
<1>2. \A s \in SUBSET S : \A x \in s : Cardinality(s \ {x}) = Cardinality(s) - 1
  BY <1>1, FS_RemoveElement
<1>3. 0 \in N
  <2>1. \A s \in SUBSET S : Cardinality(s) = 0 => s = {}
    BY <1>1, FS_EmptySet
  <2> QED
    BY <2>1
<1>4. ASSUME NEW n \in Nat, n \in N PROVE n + 1 \in N
  <2> SUFFICES ASSUME NEW s \in SUBSET S, Cardinality(s) = n + 1 PROVE s \in T
    OBVIOUS
  <2>1. \A x \in s : Cardinality(s \ {x}) = n /\ s \ {x} \in SUBSET S
    BY <1>2
  <2> QED
    BY <1>4, <2>1
<1> HIDE DEF N
<1>5. Nat \subseteq N
  BY <1>3, <1>4, CountUp
<1> QED
  BY <1>1, <1>5 DEF N

\* The recursion behind every fold: over the subsets of a finite set, one
\* element less at a time.
FoldStep(h, s, first, choice, step) ==
    IF s = {} THEN first ELSE step[choice[s]][h[s \ {choice[s]}]]

IsFold(h, S, first, choice, step) ==
    h = [s \in SUBSET S |-> FoldStep(h, s, first, choice, step)]

Chooses(choice, S) == \A s \in SUBSET S : s # {} => choice[s] \in s
StaysIn(step, S, V) == \A x \in S : \A v \in V : step[x][v] \in V

\* It has a solution.
LEMMA FoldExists ==
  ASSUME NEW S, IsFiniteSet(S), NEW V, NEW first \in V, NEW choice, NEW step,
         Chooses(choice, S), StaysIn(step, S, V)
  PROVE  \E h \in [SUBSET S -> V] : IsFold(h, S, first, choice, step)
<1> USE DEF Chooses, StaysIn
<1> DEFINE Upto(n) == {s \in SUBSET S : Cardinality(s) <= n}
           Value(s, h) == FoldStep(h, s, first, choice, step)
           Solves(n, h) == /\ h \in [Upto(n) -> V]
                           /\ \A s \in Upto(n) : h[s] = Value(s, h)
           N == {n \in Nat : \E h : Solves(n, h)}
<1>1. \A s \in SUBSET S : IsFiniteSet(s) /\ Cardinality(s) \in Nat
  BY FS_Subset, FS_CardinalityType
<1>2. \A s \in SUBSET S : Cardinality(s) = 0 => s = {}
  BY <1>1, FS_EmptySet
<1>3. 0 \in N
  <2>1. PICK h : h = [s \in Upto(0) |-> first]
    OBVIOUS
  <2>2. \A s \in Upto(0) : s = {}
    BY <1>1, <1>2
  <2>3. Solves(0, h)
    BY <2>1, <2>2 DEF FoldStep
  <2> QED
    BY <2>3
<1>4. ASSUME NEW n \in Nat, n \in N PROVE n + 1 \in N
  <2>1. PICK h : Solves(n, h)
    BY <1>4
  <2>2. \A s \in Upto(n + 1) : s # {} =>
            /\ choice[s] \in S
            /\ s \ {choice[s]} \in Upto(n)
    <3> SUFFICES ASSUME NEW s \in Upto(n + 1), s # {}
                 PROVE  choice[s] \in S /\ s \ {choice[s]} \in Upto(n)
      OBVIOUS
    <3>1. PICK x \in s : x = choice[s]
      OBVIOUS
    <3>2. IsFiniteSet(s) /\ Cardinality(s) \in Nat /\ Cardinality(s \ {x}) \in Nat
      BY <1>1
    <3>3. Cardinality(s \ {x}) = Cardinality(s) - 1
      BY <3>2, FS_RemoveElement
    <3>4. Cardinality(s \ {x}) <= n
      BY <3>2, <3>3
    <3> QED
      BY <3>1, <3>4
  <2>3. PICK g : g = [s \in Upto(n + 1) |-> Value(s, h)]
    OBVIOUS
  <2>4. \A s \in Upto(n + 1) : g[s] = Value(s, h)
    BY <2>3
  <2>5. \A s \in Upto(n + 1) : Value(s, h) \in V
    BY <2>1, <2>2 DEF FoldStep
  <2>6. \A s \in Upto(n) : s \in Upto(n + 1)
    BY <1>1
  <2>7. \A s \in Upto(n) : g[s] = h[s]
    BY <2>1, <2>4, <2>6
  <2>8. \A s \in Upto(n + 1) : Value(s, g) = Value(s, h)
    BY <2>2, <2>7 DEF FoldStep
  <2>9. g \in [Upto(n + 1) -> V]
    BY <2>3, <2>5
  <2>10. \A s \in Upto(n + 1) : g[s] = Value(s, g)
    BY <2>4, <2>8
  <2> HIDE DEF Upto, Value
  <2>11. Solves(n + 1, g)
    BY <2>9, <2>10
  <2> QED
    BY <2>11
<1> HIDE DEF N
<1>5. PICK n \in Nat : n = Cardinality(S)
  BY FS_CardinalityType
<1>6. n \in N
  BY <1>3, <1>4, <1>5, CountUp
<1>7. PICK h : Solves(n, h)
  BY <1>6 DEF N
<1>8. Upto(n) = SUBSET S
  <2> SUFFICES ASSUME NEW s \in SUBSET S PROVE Cardinality(s) <= n
    OBVIOUS
  <2> QED
    BY <1>5, FS_Subset
<1>9. h \in [SUBSET S -> V]
  BY <1>7, <1>8
<1>10. \A s \in SUBSET S : h[s] = FoldStep(h, s, first, choice, step)
  BY <1>7, <1>8
<1>11. IsFold(h, S, first, choice, step)
  BY <1>9, <1>10 DEF IsFold
<1> QED
  BY <1>9, <1>11

-----------------------------------------------------------------------------
(* SumFunctionOnSet.                                                       *)

IntValued(f, S) == \A x \in S : f[x] \in Int

IsSum(h, f, S) ==
    h = [s \in SUBSET S |-> IF s = {} THEN 0
                            ELSE LET x == CHOOSE x \in s : TRUE
                                 IN  f[x] + h[s \ {x}]]

Added(h, f, s) ==
    IF s = {} THEN 0
    ELSE LET x == CHOOSE x \in s : TRUE IN f[x] + h[s \ {x}]

\* What the function says of one subset.
LEMMA SumStep ==
  ASSUME NEW S, NEW f, NEW h, IsSum(h, f, S)
  PROVE  \A s \in SUBSET S : h[s] = Added(h, f, s)
BY DEF IsSum, Added

\* The recursion of the library has a solution.
LEMMA SumsExist ==
  ASSUME NEW S, IsFiniteSet(S), NEW f, IntValued(f, S)
  PROVE  \E h \in [SUBSET S -> Int] : IsSum(h, f, S)
<1>1. PICK choice : choice = [s \in SUBSET S |-> CHOOSE x \in s : TRUE]
  OBVIOUS
<1>2. PICK step : step = [x \in S |-> [v \in Int |-> f[x] + v]]
  OBVIOUS
<1>3. Chooses(choice, S)
  BY <1>1 DEF Chooses
<1>4. StaysIn(step, S, Int)
  BY <1>2 DEF StaysIn, IntValued
<1>5. 0 \in Int
  OBVIOUS
<1>6. PICK h \in [SUBSET S -> Int] : IsFold(h, S, 0, choice, step)
  BY <1>3, <1>4, <1>5, FoldExists
<1>7. \A s \in SUBSET S : h[s] = FoldStep(h, s, 0, choice, step)
  BY <1>6 DEF IsFold
<1>8. \A x \in S : \A v \in Int : step[x][v] = f[x] + v
  BY <1>2
<1>9. \A s \in SUBSET S : FoldStep(h, s, 0, choice, step) = Added(h, f, s)
  BY <1>1, <1>3, <1>6, <1>8 DEF FoldStep, Added, Chooses
<1>10. h = [s \in SUBSET S |-> Added(h, f, s)]
  BY <1>6, <1>7, <1>9
<1> QED
  BY <1>6, <1>10 DEF IsSum, Added

\* One function holds the sums of all subsets.
LEMMA SumTable ==
  ASSUME NEW S, IsFiniteSet(S), NEW f, IntValued(f, S)
  PROVE  \E h \in [SUBSET S -> Int] :
             /\ IsSum(h, f, S)
             /\ \A s \in SUBSET S : h[s] = SumFunctionOnSet(f, s)
<1>1. PICK h \in [SUBSET S -> Int] : IsSum(h, f, S)
  BY SumsExist
<1>2. \A s \in SUBSET S : h[s] = Added(h, f, s)
  BY <1>1, SumStep
<1>3. ASSUME NEW R \in SUBSET S PROVE h[R] = SumFunctionOnSet(f, R)
  <2>1. IsFiniteSet(R)
    BY FS_Subset
  <2>2. IntValued(f, R)
    BY DEF IntValued
  <2>3. PICK k : k = CHOOSE g : IsSum(g, f, R)
    OBVIOUS
  <2>4. IsSum(k, f, R)
    BY <2>1, <2>2, <2>3, SumsExist
  <2>5. \A s \in SUBSET R : k[s] = Added(k, f, s)
    BY <2>4, SumStep
  <2>6. SumFunctionOnSet(f, R) = k[R]
    BY <2>3 DEF SumFunctionOnSet, FoldFunctionOnSet, MapThenFoldSet, IsSum
  <2> DEFINE T == {s \in SUBSET R : h[s] = k[s]}
  <2>7. Inductive(T, R)
    <3> SUFFICES ASSUME NEW s \in SUBSET R, \A x \in s : s \ {x} \in T
                 PROVE  s \in T
      BY DEF Inductive
    <3> QED
      BY <1>2, <2>5 DEF Added
  <2> HIDE DEF T
  <2>8. SUBSET R \subseteq T
    BY <2>1, <2>7, BySize
  <2> QED
    BY <2>6, <2>8 DEF T
<1> QED
  BY <1>1, <1>3

\* A sum is a number, nothing at first, and any term may be taken out of it.
LEMMA SumOfNothing == ASSUME NEW f PROVE SumFunctionOnSet(f, {}) = 0
<1>1. PICK S : S = {}
  OBVIOUS
<1>2. IsFiniteSet(S) /\ IntValued(f, S)
  BY <1>1, FS_EmptySet DEF IntValued
<1>3. PICK h \in [SUBSET S -> Int] :
          /\ IsSum(h, f, S)
          /\ \A s \in SUBSET S : h[s] = SumFunctionOnSet(f, s)
  BY <1>2, SumTable
<1>4. h[S] = Added(h, f, S)
  BY <1>3, SumStep
<1> QED
  BY <1>1, <1>3, <1>4 DEF Added

\* The sum over a finite set of numbers is one.
LEMMA SumIsNumber ==
  ASSUME NEW S, IsFiniteSet(S), NEW f, IntValued(f, S)
  PROVE  SumFunctionOnSet(f, S) \in Int
<1>1. PICK h \in [SUBSET S -> Int] :
          /\ IsSum(h, f, S)
          /\ \A s \in SUBSET S : h[s] = SumFunctionOnSet(f, s)
  BY SumTable
<1> QED
  BY <1>1

\* Any term, not only the one the recursion chose, may be taken out.
LEMMA SumWithout ==
  ASSUME NEW S, IsFiniteSet(S), NEW f, IntValued(f, S), NEW x \in S
  PROVE  SumFunctionOnSet(f, S) = f[x] + SumFunctionOnSet(f, S \ {x})
<1>1. PICK h \in [SUBSET S -> Int] :
          /\ IsSum(h, f, S)
          /\ \A s \in SUBSET S : h[s] = SumFunctionOnSet(f, s)
  BY SumTable
<1>2. \A s \in SUBSET S : h[s] = Added(h, f, s)
  BY <1>1, SumStep
<1> DEFINE T == {s \in SUBSET S : \A y \in s : h[s] = f[y] + h[s \ {y}]}
<1>3. ASSUME NEW s \in SUBSET S, \A y \in s : s \ {y} \in T,
             NEW y \in s
      PROVE  h[s] = f[y] + h[s \ {y}]
  <2>1. PICK c \in s : c = CHOOSE z \in s : TRUE
    OBVIOUS
  <2>2. h[s] = f[c] + h[s \ {c}]
    BY <1>2, <2>1 DEF Added
  <2>3. CASE c # y
    <3>1. s \ {c} \in T /\ y \in s \ {c} /\ s \ {y} \in T /\ c \in s \ {y}
      BY <1>3, <2>3
    <3>2. PICK r : r = (s \ {c}) \ {y}
      OBVIOUS
    <3>3. r = (s \ {y}) \ {c}
      BY <3>2
    <3>4. h[s \ {c}] = f[y] + h[r]
      BY <3>1, <3>2
    <3>5. h[s \ {y}] = f[c] + h[r]
      BY <3>1, <3>3
    <3>6. f[c] \in Int /\ f[y] \in Int
      BY DEF IntValued
    <3>7. h[r] \in Int
      BY <1>1, <3>2
    <3> HIDE DEF T
    <3> QED
      BY <2>2, <3>4, <3>5, <3>6, <3>7
  <2> QED
    BY <2>2, <2>3
<1>4. Inductive(T, S)
  BY <1>3 DEF Inductive
<1> HIDE DEF T
<1>5. SUBSET S \subseteq T
  BY <1>4, BySize
<1>6. h[S] = f[x] + h[S \ {x}]
  BY <1>5 DEF T
<1> QED
  BY <1>1, <1>6

\* A part of the terms has a sum as well.
LEMMA PartIntValued ==
  ASSUME NEW S, IsFiniteSet(S), NEW f, IntValued(f, S), NEW s \in SUBSET S
  PROVE  /\ IsFiniteSet(s) /\ IntValued(f, s)
         /\ SumFunctionOnSet(f, s) \in Int
<1>1. IsFiniteSet(s)
  BY FS_Subset
<1>2. IntValued(f, s)
  BY DEF IntValued
<1> QED
  BY <1>1, <1>2, SumIsNumber

\* Two sums differ by the terms that only the first one has.
LEMMA SumsDiffer ==
  ASSUME NEW S, IsFiniteSet(S), NEW f, IntValued(f, S), NEW g, IntValued(g, S),
         NEW T, \A x \in S : g[x] = IF x \in T THEN 0 ELSE f[x]
  PROVE  SumFunctionOnSet(f, S) - SumFunctionOnSet(g, S)
             = SumFunctionOnSet(f, S \cap T)
<1> DEFINE Good(s) == SumFunctionOnSet(f, s) - SumFunctionOnSet(g, s)
                          = SumFunctionOnSet(f, s \cap T)
           G == {s \in SUBSET S : Good(s)}
<1>1. ASSUME NEW s \in SUBSET S, \A x \in s : s \ {x} \in G
      PROVE  Good(s)
  <2>1. CASE s = {}
    <3>1. s \cap T = {}
      BY <2>1
    <3> QED
      BY <2>1, <3>1, SumOfNothing
  <2>2. CASE s # {}
    <3>1. PICK x \in s : TRUE
      BY <2>2
    <3>2. PICK r \in SUBSET S : r = s \ {x}
      OBVIOUS
    <3>3. Good(r)
      BY <1>1, <3>2
    <3>4. /\ IsFiniteSet(s) /\ IntValued(f, s) /\ IntValued(g, s)
      BY PartIntValued
    <3>5. /\ SumFunctionOnSet(f, s) = f[x] + SumFunctionOnSet(f, r)
          /\ SumFunctionOnSet(g, s) = g[x] + SumFunctionOnSet(g, r)
      BY <3>2, <3>4, SumWithout
    <3>6. /\ SumFunctionOnSet(f, r) \in Int /\ SumFunctionOnSet(g, r) \in Int
          /\ SumFunctionOnSet(f, r \cap T) \in Int
      BY PartIntValued
    <3>7. f[x] \in Int /\ g[x] = IF x \in T THEN 0 ELSE f[x]
      BY DEF IntValued
    <3>8. CASE x \in T
      <4>1. PICK u : u = s \cap T
        OBVIOUS
      <4>2. u \in SUBSET S /\ x \in u /\ u \ {x} = r \cap T
        BY <3>2, <3>8, <4>1
      <4>3. IsFiniteSet(u) /\ IntValued(f, u)
        BY <4>2, PartIntValued
      <4>4. SumFunctionOnSet(f, u) = f[x] + SumFunctionOnSet(f, r \cap T)
        BY <4>2, <4>3, SumWithout
      <4> QED
        BY <3>3, <3>5, <3>6, <3>7, <3>8, <4>1, <4>4
    <3>9. CASE x \notin T
      <4>1. s \cap T = r \cap T
        BY <3>2, <3>9
      <4>2. PICK a \in Int, b \in Int, d \in Int :
                /\ a = SumFunctionOnSet(f, r) /\ b = SumFunctionOnSet(g, r)
                /\ d = f[x]
        BY <3>6, <3>7
      <4>3. /\ SumFunctionOnSet(f, s) = d + a /\ SumFunctionOnSet(g, s) = d + b
            /\ a - b = SumFunctionOnSet(f, s \cap T)
        BY <3>3, <3>5, <3>7, <3>9, <4>1, <4>2
      <4> QED
        BY <4>2, <4>3
    <3> QED
      BY <3>8, <3>9
  <2> QED
    BY <2>1, <2>2
<1> HIDE DEF Good
<1>2. Inductive(G, S)
  BY <1>1 DEF Inductive
<1> HIDE DEF G
<1>3. SUBSET S \subseteq G
  BY <1>2, BySize
<1>4. Good(S)
  BY <1>3 DEF G
<1> QED
  BY <1>4 DEF Good

\* Only the terms matter.
Agree(f, g, S) == \A x \in S : f[x] = g[x]

\* Equal terms, equal sums.
LEMMA SumsAgree ==
  ASSUME NEW S, IsFiniteSet(S), NEW f, IntValued(f, S), NEW g, IntValued(g, S),
         Agree(f, g, S)
  PROVE  SumFunctionOnSet(f, S) = SumFunctionOnSet(g, S)
<1> DEFINE T == {s \in SUBSET S : SumFunctionOnSet(f, s) = SumFunctionOnSet(g, s)}
<1>1. ASSUME NEW s \in SUBSET S, \A x \in s : s \ {x} \in T
      PROVE  SumFunctionOnSet(f, s) = SumFunctionOnSet(g, s)
  <2>1. CASE s = {}
    BY <2>1, SumOfNothing
  <2>2. CASE s # {}
    <3>1. PICK x \in s : TRUE
      BY <2>2
    <3>2. IsFiniteSet(s) /\ IntValued(f, s) /\ IntValued(g, s)
      BY PartIntValued
    <3>3. /\ SumFunctionOnSet(f, s) = f[x] + SumFunctionOnSet(f, s \ {x})
          /\ SumFunctionOnSet(g, s) = g[x] + SumFunctionOnSet(g, s \ {x})
      BY <3>2, SumWithout
    <3>4. SumFunctionOnSet(f, s \ {x}) = SumFunctionOnSet(g, s \ {x})
      BY <1>1
    <3> QED
      BY <3>3, <3>4 DEF Agree
  <2> QED
    BY <2>1, <2>2
<1>2. Inductive(T, S)
  BY <1>1 DEF Inductive
<1> HIDE DEF T
<1>3. SUBSET S \subseteq T
  BY <1>2, BySize
<1> QED
  BY <1>3 DEF T

\* The sum of a function, and what a term more or a greater term does to it.
IntFunction(f, S) == f \in [S -> Int]

\* The sum of a function is a number.
LEMMA SumOfFunction ==
  ASSUME NEW S, IsFiniteSet(S), NEW f, IntFunction(f, S)
  PROVE  SumFunction(f) \in Int
<1> USE DEF IntFunction
<1>1. IntValued(f, S)
  BY DEF IntValued
<1>2. SumFunctionOnSet(f, S) \in Int
  BY <1>1, SumIsNumber
<1> QED
  BY <1>1, <1>2 DEF SumFunction

\* With one term more.
LEMMA SumWithTerm ==
  ASSUME NEW S, IsFiniteSet(S), NEW x \in S, NEW R, R = S \ {x},
         NEW f, IntFunction(f, S), NEW g, IntFunction(g, R), Agree(f, g, R)
  PROVE  SumFunction(f) = f[x] + SumFunction(g)
<1> USE DEF IntFunction
<1>1. R = S \ {x}
  OBVIOUS
<1>2. IsFiniteSet(S) /\ IsFiniteSet(R)
  BY FS_Subset
<1>3. IntValued(f, S) /\ IntValued(f, R) /\ IntValued(g, R)
  BY <1>1 DEF IntValued
<1>4. SumFunctionOnSet(f, S) = f[x] + SumFunctionOnSet(f, S \ {x})
  BY <1>1, <1>2, <1>3, SumWithout
<1>5. SumFunctionOnSet(f, R) = SumFunctionOnSet(g, R)
  BY <1>2, <1>3, SumsAgree
<1>6. DOMAIN f = S /\ DOMAIN g = R /\ S \ {x} = R
  BY <1>1
<1> QED
  BY <1>4, <1>5, <1>6 DEF SumFunction

\* With one term changed.
LEMMA SumWithTermGrown ==
  ASSUME NEW S, IsFiniteSet(S), NEW x \in S, NEW f, IntFunction(f, S),
         NEW g, IntFunction(g, S), NEW R, R = S \ {x}, Agree(f, g, R)
  PROVE  SumFunction(f) - SumFunction(g) = f[x] - g[x]
<1> USE DEF IntFunction
<1>1. R = S \ {x} /\ IsFiniteSet(R)
  BY FS_Subset
<1>2. IntValued(f, S) /\ IntValued(f, R) /\ IntValued(g, S) /\ IntValued(g, R)
  BY <1>1 DEF IntValued
<1>3. SumFunctionOnSet(f, S) = f[x] + SumFunctionOnSet(f, S \ {x})
  BY <1>2, SumWithout
<1>4. SumFunctionOnSet(g, S) = g[x] + SumFunctionOnSet(g, S \ {x})
  BY <1>2, SumWithout
<1>5. SumFunctionOnSet(f, R) = SumFunctionOnSet(g, R)
  BY <1>1, <1>2, SumsAgree
<1>6. SumFunctionOnSet(g, R) \in Int
  BY <1>1, <1>2, SumIsNumber
<1>7. f[x] \in Int /\ g[x] \in Int
  OBVIOUS
<1>8. SumFunctionOnSet(f, S) - SumFunctionOnSet(g, S) = f[x] - g[x]
  BY <1>1, <1>3, <1>4, <1>5, <1>6, <1>7
<1> QED
  BY <1>8 DEF SumFunction

\* Of terms that are not negative more make no smaller sum.
LEMMA SumGrows ==
  ASSUME NEW S, IsFiniteSet(S), NEW f, \A x \in S : f[x] \in Nat,
         NEW R \in SUBSET S
  PROVE  SumFunctionOnSet(f, R) <= SumFunctionOnSet(f, S)
<1> DEFINE Good(s) == SumFunctionOnSet(f, s \cap R) <= SumFunctionOnSet(f, s)
           T == {s \in SUBSET S : Good(s)}
<1>0. IntValued(f, S)
  BY DEF IntValued
<1>1. ASSUME NEW s \in SUBSET S, \A x \in s : s \ {x} \in T
      PROVE  Good(s)
  <2>1. CASE s = {}
    <3>1. s \cap R = {}
      BY <2>1
    <3> QED
      BY <2>1, <3>1, SumOfNothing
  <2>2. CASE s # {}
    <3>1. PICK x \in s : TRUE
      BY <2>2
    <3>2. PICK r \in SUBSET S : r = s \ {x}
      OBVIOUS
    <3>3. Good(r)
      BY <1>1, <3>2
    <3>4. IsFiniteSet(s) /\ IntValued(f, s)
      BY <1>0, PartIntValued
    <3>5. SumFunctionOnSet(f, s) = f[x] + SumFunctionOnSet(f, r)
      BY <3>2, <3>4, SumWithout
    <3>6. /\ SumFunctionOnSet(f, r) \in Int
          /\ SumFunctionOnSet(f, r \cap R) \in Int
      BY <1>0, PartIntValued
    <3>7. f[x] \in Nat
      OBVIOUS
    <3>8. CASE x \in R
      <4>1. PICK u \in SUBSET S : u = s \cap R
        OBVIOUS
      <4>2. x \in u /\ u \ {x} = r \cap R
        BY <3>2, <3>8, <4>1
      <4>3. IsFiniteSet(u) /\ IntValued(f, u)
        BY <1>0, PartIntValued
      <4>4. SumFunctionOnSet(f, u) = f[x] + SumFunctionOnSet(f, r \cap R)
        BY <4>2, <4>3, SumWithout
      <4> QED
        BY <3>3, <3>5, <3>6, <3>7, <4>1, <4>4
    <3>9. CASE x \notin R
      <4>1. s \cap R = r \cap R
        BY <3>2, <3>9
      <4> QED
        BY <3>3, <3>5, <3>6, <3>7, <4>1
    <3> QED
      BY <3>8, <3>9
  <2> QED
    BY <2>1, <2>2
<1> HIDE DEF Good
<1>2. Inductive(T, S)
  BY <1>1 DEF Inductive
<1> HIDE DEF T
<1>3. SUBSET S \subseteq T
  BY <1>2, BySize
<1>4. Good(S) /\ S \cap R = R
  BY <1>3 DEF T
<1> QED
  BY <1>4 DEF Good

-----------------------------------------------------------------------------
(***************************************************************************)
(* The clock, and which rule a minute falls under.                         *)
(***************************************************************************)

\* What is known of quotient and remainder.
LEMMA Division ==
  ASSUME NEW d \in Nat \ {0}, NEW x \in Int
  PROVE  x \div d \in Int /\ x % d \in 0 .. d - 1
OBVIOUS

\* Division keeps the order.
LEMMA DivisionGrows ==
  ASSUME NEW d \in Nat \ {0}, NEW x \in Int, NEW y \in Int, x <= y
  PROVE  x \div d <= y \div d
OBVIOUS

\* The test of the code, with a window that may reach past midnight, is what
\* the band of a rule means: it began today or yesterday and is not over.
LEMMA WindowIsBand ==
  ASSUME NEW rule, rule.start \in 0 .. Day, rule.end \in 0 .. Day,
         NEW m \in 0 .. Day - 1
  PROVE  RuleMatchesMinute(rule, m) <=> InBand(rule, m)
<1>1. PICK d \in Nat \ {0} : d = Day
  BY ClockAssumption
<1>2. PICK start \in 0 .. d, end \in 0 .. d :
          start = rule.start /\ end = rule.end
  BY <1>1
<1>3. PICK length \in 0 .. d : /\ length = BandLength(rule)
                              /\ length = IF end > start THEN end - start
                                         ELSE end - start + d
  BY <1>1, <1>2 DEF BandLength
<1>4. RuleMatchesMinute(rule, m) <=>
          IF end <= start /\ end > 0 THEN m >= start \/ m < end
          ELSE IF end <= start THEN m >= start ELSE m >= start /\ m < end
  BY <1>1, <1>2 DEF RuleMatchesMinute, RuleWindow
<1>5. InBand(rule, m) <=> \/ 0 <= m - start /\ m - start < length
                          \/ 0 <= m + d - start /\ m + d - start < length
  BY <1>1, <1>2, <1>3 DEF InBand
<1> QED
  BY <1>1, <1>3, <1>4, <1>5

\* A rule applies in the code when it holds for the cafe.
LEMMA AppliesIsHolds ==
  ASSUME TableOK(rules), NEW t \in Nat, NEW rule \in rules
  PROVE  Applies(rule, t) <=> Holds(rule, t, tier)
<1>1. Day \in Nat \ {0}
  BY ClockAssumption
<1>2. t % Day \in 0 .. Day - 1
  BY <1>1, Division
<1>3. rule.start \in 0 .. Day /\ rule.end \in 0 .. Day
  BY DEF TableOK
<1>4. RuleMatchesMinute(rule, t % Day) <=> InBand(rule, t % Day)
  BY <1>2, <1>3, WindowIsBand
<1> QED
  BY <1>4 DEF Applies, Holds

-----------------------------------------------------------------------------
(***************************************************************************)
(* FoldLeft takes the last element first.                                  *)
(***************************************************************************)

IsLast(choice, n) ==
    \A s \in SUBSET (1 .. n) : s # {} =>
        choice[s] = Max(s) /\ choice[s] \in s

\* A set of the first numbers has a greatest one.
LEMMA MaxIsInSet ==
  ASSUME NEW n \in Nat, NEW s \in SUBSET (1 .. n), s # {}
  PROVE  Max(s) \in s /\ \A x \in s : x <= Max(s)
<1> DEFINE T == {r \in SUBSET s : r # {} => \E x \in r : \A y \in r : x >= y}
<1>1. IsFiniteSet(s)
  <2>1. IsFiniteSet(1 .. n)
    BY FS_Interval
  <2> QED
    BY <2>1, FS_Subset
<1>2. ASSUME NEW r \in SUBSET s, \A x \in r : r \ {x} \in T, r # {}
      PROVE  \E x \in r : \A y \in r : x >= y
  <2>1. PICK x \in r : TRUE
    BY <1>2
  <2>2. CASE r \ {x} = {}
    <3>1. r = {x}
      BY <2>2
    <3> QED
      BY <3>1
  <2>3. CASE r \ {x} # {}
    <3>1. PICK z \in r \ {x} : \A y \in r \ {x} : z >= y
      BY <1>2, <2>3
    <3>2. x \in Int /\ z \in Int
      OBVIOUS
    <3>3. CASE x >= z
      BY <3>1, <3>2, <3>3
    <3>4. CASE z >= x
      BY <3>1, <3>2, <3>4
    <3> QED
      BY <3>2, <3>3, <3>4
  <2> QED
    BY <2>2, <2>3
<1>3. Inductive(T, s)
  BY <1>2 DEF Inductive
<1> HIDE DEF T
<1>4. SUBSET s \subseteq T
  BY <1>1, <1>3, BySize
<1>5. \E x \in s : \A y \in s : x >= y
  BY <1>4 DEF T
<1> QED
  BY <1>5 DEF Max

IsGreatest(r, s) == r \in s /\ \A q \in s : q \in Int /\ r >= q

\* That is the maximum.
LEMMA GreatestIsMax ==
  ASSUME NEW s, NEW r, IsGreatest(r, s)
  PROVE  Max(s) = r
<1> USE DEF IsGreatest
<1>1. PICK x : x = Max(s)
  OBVIOUS
<1>2. x \in s /\ \A y \in s : x >= y
  BY <1>1 DEF Max
<1>3. x >= r /\ r >= x /\ x \in Int /\ r \in Int
  BY <1>2
<1> QED
  BY <1>1, <1>3

\* The intermediate results of a fold over a sequence.
StepByStep(h, n, first, step) ==
    /\ h[{}] = first
    /\ \A i \in 1 .. n : h[1 .. i] = step[i][h[1 .. (i - 1)]]

\* It goes through the sequence from the left.
LEMMA FoldFromTheLeft ==
  ASSUME NEW n \in Nat, NEW first, NEW choice, NEW step, NEW h,
         IsLast(choice, n), IsFold(h, 1 .. n, first, choice, step)
  PROVE  StepByStep(h, n, first, step)
<1>1. \A s \in SUBSET (1 .. n) : h[s] = FoldStep(h, s, first, choice, step)
  BY DEF IsFold
<1>2. h[{}] = first
  BY <1>1 DEF FoldStep
<1>3. ASSUME NEW i \in 1 .. n PROVE h[1 .. i] = step[i][h[1 .. (i - 1)]]
  <2>1. PICK s \in SUBSET (1 .. n) : s = 1 .. i
    OBVIOUS
  <2>2. i \in s /\ s # {} /\ \A x \in s : x <= i
    BY <2>1
  <2>3. Max(s) \in s /\ \A x \in s : x <= Max(s)
    BY <2>2, MaxIsInSet
  <2>4. Max(s) = i
    BY <2>1, <2>2, <2>3
  <2>5. choice[s] = i
    BY <2>2, <2>4 DEF IsLast
  <2>6. s \ {i} = 1 .. (i - 1)
    BY <2>1
  <2>7. h[s] = step[i][h[s \ {i}]]
    BY <1>1, <2>2, <2>5 DEF FoldStep
  <2> QED
    BY <2>1, <2>6, <2>7
<1> QED
  BY <1>2, <1>3 DEF StepByStep

\* There is a function that chooses the last element.
LEMMA LastExists ==
  ASSUME NEW n \in Nat
  PROVE  \E choice : IsLast(choice, n) /\ Chooses(choice, 1 .. n)
<1>1. PICK choice : choice = [s \in SUBSET (1 .. n) |-> Max(s)]
  OBVIOUS
<1>2. \A s \in SUBSET (1 .. n) : s # {} => Max(s) \in s
  BY MaxIsInSet
<1>3. IsLast(choice, n) /\ Chooses(choice, 1 .. n)
  BY <1>1, <1>2 DEF IsLast, Chooses
<1> QED
  BY <1>3

-----------------------------------------------------------------------------
(***************************************************************************)
(* pickWinner: the winner among the first rows, and among all of them.     *)
(***************************************************************************)

PickStep(rule, winner, t) ==
    IF Applies(rule, t) /\ Beats(rule, winner) THEN rule ELSE winner

Picked(h, s, rows, t) ==
    IF s = {} THEN NoRule
    ELSE LET x == Max(s) IN PickStep(rows[x], h[s \ {x}], t)

IsPick(h, rows, t, n) ==
    h = [s \in SUBSET (1 .. n) |-> Picked(h, s, rows, t)]

WinnersBySet(h, rows, t, n) ==
    /\ IsPick(h, rows, t, n)
    /\ h[{}] = NoRule
    /\ \A i \in 1 .. n : h[1 .. i] = PickStep(rows[i], h[1 .. (i - 1)], t)

\* The recursion of the library has a solution, the winners of the prefixes.
LEMMA PicksExist ==
  ASSUME NEW n \in Nat, NEW table, NEW rows \in [1 .. n -> table], NEW t
  PROVE  \E h \in [SUBSET (1 .. n) -> table \cup {NoRule}] :
             WinnersBySet(h, rows, t, n)
<1>1. PICK S : S = 1 .. n /\ IsFiniteSet(S)
  BY FS_Interval
<1>2. PICK choice : IsLast(choice, n) /\ Chooses(choice, S)
  BY <1>1, LastExists
<1>3. PICK V : V = table \cup {NoRule}
  OBVIOUS
<1>4. PICK step : step = [x \in S |-> [v \in V |-> PickStep(rows[x], v, t)]]
  OBVIOUS
<1>5. \A x \in S : \A v \in V : step[x][v] = PickStep(rows[x], v, t)
  BY <1>4
<1>6. StaysIn(step, S, V)
  BY <1>1, <1>3, <1>5 DEF StaysIn, PickStep
<1>7. NoRule \in V
  BY <1>3
<1>8. PICK h \in [SUBSET S -> V] : IsFold(h, S, NoRule, choice, step)
  BY <1>1, <1>2, <1>6, <1>7, FoldExists
<1>9. \A s \in SUBSET S : h[s] = FoldStep(h, s, NoRule, choice, step)
  BY <1>8 DEF IsFold
<1>10. ASSUME NEW s \in SUBSET S
       PROVE  FoldStep(h, s, NoRule, choice, step) = Picked(h, s, rows, t)
  <2>1. CASE s = {}
    BY <2>1 DEF FoldStep, Picked
  <2>2. CASE s # {}
    <3>1. PICK x \in s : x = choice[s] /\ x = Max(s)
      BY <1>1, <1>2, <2>2 DEF IsLast
    <3>2. h[s \ {x}] \in V
      BY <1>8
    <3>3. step[x][h[s \ {x}]] = PickStep(rows[x], h[s \ {x}], t)
      BY <1>5, <3>2
    <3> QED
      BY <2>2, <3>1, <3>3 DEF FoldStep, Picked
  <2> QED
    BY <2>1, <2>2
<1>11. h = [s \in SUBSET S |-> Picked(h, s, rows, t)]
  BY <1>8, <1>9, <1>10
<1>12. IsPick(h, rows, t, n)
  BY <1>1, <1>11 DEF IsPick
<1>13. IsFold(h, 1 .. n, NoRule, choice, step)
  BY <1>1, <1>8
<1>14. /\ h[{}] = NoRule
       /\ \A i \in 1 .. n : h[1 .. i] = step[i][h[1 .. (i - 1)]]
  <2>1. StepByStep(h, n, NoRule, step)
    BY <1>2, <1>13, FoldFromTheLeft
  <2> QED
    BY <2>1 DEF StepByStep
<1>15. ASSUME NEW i \in 1 .. n
       PROVE  h[1 .. i] = PickStep(rows[i], h[1 .. (i - 1)], t)
  <2>1. h[1 .. (i - 1)] \in V
    BY <1>1, <1>8
  <2> QED
    BY <1>1, <1>5, <1>14, <2>1
<1>16. WinnersBySet(h, rows, t, n)
  BY <1>12, <1>14, <1>15 DEF WinnersBySet
<1> QED
  BY <1>1, <1>3, <1>8, <1>16

Winners(w, rows, t, n) ==
    /\ w[0] = NoRule
    /\ \A i \in 1 .. n : w[i] = PickStep(rows[i], w[i - 1], t)
    /\ PickWinner(rows, t) = w[n]

\* pickWinner is the last of them.
LEMMA WinnersOfPrefixes ==
  ASSUME NEW n \in Nat, NEW table, NEW rows \in [1 .. n -> table], NEW t
  PROVE  \E w \in [0 .. n -> table \cup {NoRule}] : Winners(w, rows, t, n)
<1>0. PICK h \in [SUBSET (1 .. n) -> table \cup {NoRule}] :
          WinnersBySet(h, rows, t, n)
  BY PicksExist
<1>1. /\ IsPick(h, rows, t, n)
      /\ h[{}] = NoRule
      /\ \A i \in 1 .. n : h[1 .. i] = PickStep(rows[i], h[1 .. (i - 1)], t)
  BY <1>0 DEF WinnersBySet
<1>2. PICK k : k = CHOOSE g : IsPick(g, rows, t, n)
  OBVIOUS
<1>3. IsPick(k, rows, t, n)
  BY <1>1, <1>2
<1>4. PICK S : S = 1 .. n /\ IsFiniteSet(S)
  BY FS_Interval
<1>5. \A s \in SUBSET S : /\ h[s] = Picked(h, s, rows, t)
                          /\ k[s] = Picked(k, s, rows, t)
  BY <1>1, <1>3, <1>4 DEF IsPick
<1> DEFINE T == {s \in SUBSET S : h[s] = k[s]}
<1>6. Inductive(T, S)
  <2> SUFFICES ASSUME NEW s \in SUBSET S, \A x \in s : s \ {x} \in T
               PROVE  s \in T
    BY DEF Inductive
  <2>1. s # {} => Max(s) \in s
    BY <1>4, MaxIsInSet
  <2> QED
    BY <1>5, <2>1 DEF Picked
<1> HIDE DEF T
<1>7. SUBSET S \subseteq T
  BY <1>4, <1>6, BySize
<1>8. PickWinner(rows, t) = k[1 .. n]
  <2>1. DOMAIN rows = 1 .. n
    OBVIOUS
  <2> QED
    BY <1>2, <2>1
       DEF PickWinner, FoldLeft, MapThenFoldSet, IsPick, Picked, PickStep
<1>9. PICK w : w = [i \in 0 .. n |-> h[1 .. i]]
  OBVIOUS
<1>10. w \in [0 .. n -> table \cup {NoRule}]
  BY <1>1, <1>9
<1>11. w[0] = NoRule
  <2>1. 1 .. 0 = {}
    OBVIOUS
  <2> QED
    BY <1>1, <1>9, <2>1
<1>12. \A i \in 1 .. n : w[i] = PickStep(rows[i], w[i - 1], t)
  BY <1>1, <1>9
<1>13. w[n] = PickWinner(rows, t)
  BY <1>4, <1>7, <1>8, <1>9 DEF T
<1>14. Winners(w, rows, t, n)
  BY <1>11, <1>12, <1>13 DEF Winners
<1> QED
  BY <1>10, <1>14

\* Nothing of the rules considered should have won instead.
BestOf(winner, rules_, t) ==
    /\ winner = NoRule => \A rule \in rules_ : ~Applies(rule, t)
    /\ winner # NoRule =>
           /\ winner \in rules_ /\ Applies(winner, t)
           /\ \A rule \in rules_ : Applies(rule, t) =>
                  \/ rule.priority < winner.priority
                  \/ rule.priority = winner.priority /\ rule.rate <= winner.rate

\* One more row is compared with the winner so far.
LEMMA PickStepKeepsBest ==
  ASSUME NEW table, TableOK(table), NEW some \in SUBSET table, NEW rule \in table,
         NEW t, NEW winner, BestOf(winner, some, t)
  PROVE  BestOf(PickStep(rule, winner, t), some \cup {rule}, t)
<1>1. \A r \in table : /\ r # NoRule /\ r.priority \in Int /\ r.rate \in Int
  BY DEF TableOK
<1>2. CASE ~Applies(rule, t)
  BY <1>2 DEF PickStep, BestOf
<1>3. CASE Applies(rule, t) /\ winner = NoRule
  <2>1. PickStep(rule, winner, t) = rule
    BY <1>3 DEF PickStep, Beats
  <2> QED
    BY <1>1, <1>3, <2>1 DEF BestOf
<1>4. CASE Applies(rule, t) /\ winner # NoRule
  <2>1. winner \in some
    BY <1>4 DEF BestOf
  <2>2. CASE Beats(rule, winner)
    <3>1. PickStep(rule, winner, t) = rule
      BY <1>4, <2>2 DEF PickStep
    <3>2. \/ rule.priority > winner.priority
          \/ rule.priority = winner.priority /\ rule.rate > winner.rate
      BY <1>4, <2>2 DEF Beats
    <3>3. \A r \in some : Applies(r, t) =>
              \/ r.priority < rule.priority
              \/ r.priority = rule.priority /\ r.rate <= rule.rate
      BY <1>1, <1>4, <2>1, <3>2 DEF BestOf
    <3> QED
      BY <1>1, <1>4, <3>1, <3>3 DEF BestOf
  <2>3. CASE ~Beats(rule, winner)
    <3>1. PickStep(rule, winner, t) = winner
      BY <2>3 DEF PickStep
    <3>2. \/ rule.priority < winner.priority
          \/ rule.priority = winner.priority /\ rule.rate <= winner.rate
      BY <1>1, <1>4, <2>1, <2>3 DEF Beats
    <3> QED
      BY <1>4, <3>1, <3>2 DEF BestOf
  <2> QED
    BY <2>2, <2>3
<1> QED
  BY <1>2, <1>3, <1>4

\* In whatever order the table is read, the best rule of all wins.
LEMMA WinnerIsBest ==
  ASSUME NEW table, TableOK(table), NEW rows \in SetToSeqs(table), NEW t
  PROVE  BestOf(PickWinner(rows, t), table, t)
<1>1. PICK n \in Nat : n = Cardinality(table)
  BY FS_CardinalityType DEF TableOK
<1>2. /\ rows \in [1 .. n -> table]
      /\ \A i, j \in 1 .. n : i # j => rows[i] # rows[j]
  BY <1>1 DEF SetToSeqs
<1>3. {rows[i] : i \in 1 .. n} = table
  <2>1. rows \in Injection(1 .. n, table)
    BY <1>2 DEF Injection, IsInjective
  <2>2. Cardinality(1 .. n) = n
    BY FS_Interval
  <2>3. rows \in Surjection(1 .. n, table)
    BY <1>1, <2>1, <2>2, FS_Injection DEF TableOK
  <2> QED
    BY <1>2, <2>3 DEF Surjection
<1>4. PICK w \in [0 .. n -> table \cup {NoRule}] : Winners(w, rows, t, n)
  BY <1>2, WinnersOfPrefixes
<1> DEFINE First(i) == {rows[j] : j \in 1 .. i}
           T == {i \in Nat : i <= n => BestOf(w[i], First(i), t)}
<1>5. 0 \in T
  <2>1. First(0) = {}
    OBVIOUS
  <2> QED
    BY <1>4, <2>1 DEF Winners, BestOf
<1>6. ASSUME NEW i \in Nat, i \in T PROVE i + 1 \in T
  <2> SUFFICES ASSUME i + 1 <= n PROVE BestOf(w[i + 1], First(i + 1), t)
    OBVIOUS
  <2>1. PICK k \in 1 .. n : k = i + 1
    OBVIOUS
  <2>2. w[k] = PickStep(rows[k], w[i], t)
    BY <1>4, <2>1 DEF Winners
  <2>3. First(k) = First(i) \cup {rows[k]}
    BY <2>1
  <2>4. First(i) \in SUBSET table /\ rows[k] \in table
    BY <1>2, <2>1
  <2>5. BestOf(w[i], First(i), t)
    BY <1>6, <2>1
  <2> HIDE DEF First
  <2>6. BestOf(PickStep(rows[k], w[i], t), First(i) \cup {rows[k]}, t)
    BY <2>4, <2>5, PickStepKeepsBest
  <2> QED
    BY <2>1, <2>2, <2>3, <2>6
<1> HIDE DEF T
<1>7. Nat \subseteq T
  BY <1>5, <1>6, CountUp
<1>8. BestOf(w[n], First(n), t)
  <2>1. n \in T
    BY <1>7
  <2> HIDE DEF First
  <2> QED
    BY <2>1 DEF T
<1> QED
  BY <1>3, <1>4, <1>8 DEF Winners

\* Its rate is the one a cafe would state for the tier of the PC.
LEMMA WinnerHasTheRate ==
  ASSUME TableOK(rules), NEW rows \in SetToSeqs(rules), NEW t \in Nat
  PROVE  Rate(PickWinner(rows, t)) = RateAt(t, tier) /\ RateAt(t, tier) \in Nat
<1>1. PICK winner : winner = PickWinner(rows, t)
  OBVIOUS
<1>2. BestOf(winner, rules, t)
  BY <1>1, WinnerIsBest
<1> DEFINE holding == {rule \in rules : Holds(rule, t, tier)}
           most == {rule \in holding :
                       \A other \in holding : other.priority <= rule.priority}
           rates == {rule.rate : rule \in most} \cup {0}
<1>3. holding = {rule \in rules : Applies(rule, t)}
  BY AppliesIsHolds
<1>4. \A rule \in rules : rule.priority \in Int /\ rule.rate \in Nat /\ rule # NoRule
  BY DEF TableOK
<1>5. RateAt(t, tier) = Max(rates)
  BY DEF RateAt
<1>6. CASE winner = NoRule
  <2>1. rates = {0}
    BY <1>2, <1>3, <1>6 DEF BestOf
  <2>2. Max(rates) = 0
    BY <2>1 DEF Max
  <2> QED
    BY <1>1, <1>5, <1>6, <2>2 DEF Rate
<1>7. CASE winner # NoRule
  <2>1. winner \in most
    BY <1>2, <1>3, <1>4, <1>7 DEF BestOf
  <2>2. \A rule \in most : rule.rate <= winner.rate
    BY <1>2, <1>3, <1>4, <1>7, <2>1 DEF BestOf
  <2>3. PICK r \in Nat : r = winner.rate
    BY <1>4, <2>1
  <2>4. r \in rates /\ \A q \in rates : q \in Nat /\ r >= q
    BY <1>4, <2>1, <2>2, <2>3
  <2> HIDE DEF rates
  <2>5. PICK all : all = rates
    OBVIOUS
  <2>6. Max(all) = r
    <3>1. IsGreatest(r, all)
      BY <2>4, <2>5 DEF IsGreatest
    <3> QED
      BY <3>1, GreatestIsMax
  <2> QED
    BY <1>1, <1>5, <1>7, <2>3, <2>5, <2>6 DEF Rate
<1> QED
  BY <1>6, <1>7

-----------------------------------------------------------------------------
(***************************************************************************)
(* computePrice: the segments after each minute.                           *)
(***************************************************************************)

Segment(table) ==
    [from : Int, rule : table \cup {NoRule}, minutes : Nat \ {0}]

\* The winner is a row of the table, or none is.
LEMMA WinnerIsARule ==
  ASSUME NEW table, TableOK(table), NEW rows \in SetToSeqs(table), NEW t
  PROVE  PickWinner(rows, t) \in table \cup {NoRule}
BY WinnerIsBest DEF BestOf

\* One minute more: the last segment grows, or another one is appended.
LEMMA NextMinuteCases ==
  ASSUME NEW table, TableOK(table), NEW rows \in SetToSeqs(table), NEW t \in Int,
         NEW segments \in Seq(Segment(table)), NEW winner,
         winner = PickWinner(rows, t)
  PROVE  LET next == NextMinute(rows, segments, t)
             n == Len(segments)
         IN  /\ next \in Seq(Segment(table))
             /\ \/ /\ n > 0 /\ segments[n].rule = winner
                   /\ Len(next) = n
                   /\ next[n].from = segments[n].from
                   /\ next[n].rule = segments[n].rule
                   /\ next[n].minutes = segments[n].minutes + 1
                   /\ \A i \in 1 .. n - 1 : next[i] = segments[i]
                \/ /\ n > 0 => segments[n].rule # winner
                   /\ Len(next) = n + 1
                   /\ next[n + 1] = [from |-> t, rule |-> winner, minutes |-> 1]
                   /\ \A i \in 1 .. n : next[i] = segments[i]
<1>1. winner \in table \cup {NoRule}
  BY WinnerIsARule
<1>2. PICK n \in Nat : n = Len(segments)
  BY LenProperties
<1>3. PICK next : next = NextMinute(rows, segments, t)
  OBVIOUS
<1>4. segments # <<>> <=> n > 0
  BY <1>2, EmptySeq
<1>5. CASE n > 0 /\ segments[n].rule = winner
  <2>1. PICK last : last = segments[n]
    OBVIOUS
  <2>2. last \in Segment(table)
    BY <1>2, <1>5, <2>1, ElementOfSeq
  <2>3. PICK grown : grown = [last EXCEPT !.minutes = @ + 1]
    OBVIOUS
  <2>4. /\ grown \in Segment(table) /\ grown.from = last.from
        /\ grown.rule = last.rule /\ grown.minutes = last.minutes + 1
    <3>1. PICK from, rule, minutes :
              /\ last = [from |-> from, rule |-> rule, minutes |-> minutes]
              /\ from \in Int /\ rule \in table \cup {NoRule}
              /\ minutes \in Nat \ {0}
      BY <2>2 DEF Segment
    <3>2. grown = [from |-> from, rule |-> rule, minutes |-> minutes + 1]
      BY <2>3, <3>1
    <3> QED
      BY <3>1, <3>2 DEF Segment
  <2>5. next = [segments EXCEPT ![n] = grown]
    BY <1>2, <1>3, <1>4, <1>5, <2>1, <2>3 DEF NextMinute, Last
  <2>6. /\ next \in Seq(Segment(table)) /\ Len(next) = n
        /\ \A j \in 1 .. n : next[j] = IF j = n THEN grown ELSE segments[j]
    BY <1>2, <1>5, <2>4, <2>5, ExceptSeq
  <2> QED
    BY <1>2, <1>3, <1>5, <2>1, <2>4, <2>6
<1>6. CASE n > 0 => segments[n].rule # winner
  <2>1. PICK new : new = [from |-> t, rule |-> winner, minutes |-> 1]
    OBVIOUS
  <2>2. new \in Segment(table)
    BY <1>1, <2>1 DEF Segment
  <2>3. next = Append(segments, new)
    BY <1>2, <1>3, <1>4, <1>6, <2>1 DEF NextMinute, Last
  <2>4. /\ next \in Seq(Segment(table)) /\ Len(next) = n + 1
        /\ next[n + 1] = new /\ \A i \in 1 .. n : next[i] = segments[i]
    BY <1>2, <2>2, <2>3, AppendProperties
  <2> QED
    BY <1>2, <1>3, <1>6, <2>1, <2>4
<1> QED
  BY <1>5, <1>6

Broken(h, s, rows, startAt) ==
    IF s = {} THEN <<>>
    ELSE LET x == Max(s) IN NextMinute(rows, h[s \ {x}], startAt + x - 1)

IsBreakdown(h, rows, startAt, n) ==
    h = [s \in SUBSET (1 .. n) |-> Broken(h, s, rows, startAt)]

SegmentsBySet(h, rows, startAt, n) ==
    /\ IsBreakdown(h, rows, startAt, n)
    /\ h[{}] = <<>>
    /\ \A i \in 1 .. n :
           h[1 .. i] = NextMinute(rows, h[1 .. (i - 1)], startAt + i - 1)

\* The recursion has a solution, the segments of the first minutes.
LEMMA BreakdownsExist ==
  ASSUME NEW table, TableOK(table), NEW rows \in SetToSeqs(table),
         NEW startAt \in Nat, NEW n \in Nat
  PROVE  \E h \in [SUBSET (1 .. n) -> Seq(Segment(table))] :
             SegmentsBySet(h, rows, startAt, n)
<1>1. PICK S : S = 1 .. n /\ IsFiniteSet(S)
  BY FS_Interval
<1>2. PICK choice : IsLast(choice, n) /\ Chooses(choice, S)
  BY <1>1, LastExists
<1>3. PICK V : V = Seq(Segment(table))
  OBVIOUS
<1>4. PICK step :
          step = [x \in S |-> [v \in V |-> NextMinute(rows, v, startAt + x - 1)]]
  OBVIOUS
<1>5. \A x \in S : \A v \in V : step[x][v] = NextMinute(rows, v, startAt + x - 1)
  BY <1>4
<1>6. StaysIn(step, S, V)
  <2> SUFFICES ASSUME NEW x \in S, NEW v \in V
               PROVE  NextMinute(rows, v, startAt + x - 1) \in V
    BY <1>5 DEF StaysIn
  <2>1. PICK t \in Int : t = startAt + x - 1
    BY <1>1
  <2> QED
    BY <1>3, <2>1, NextMinuteCases
<1>7. <<>> \in V
  BY <1>3
<1>8. PICK h \in [SUBSET S -> V] : IsFold(h, S, <<>>, choice, step)
  BY <1>1, <1>2, <1>6, <1>7, FoldExists
<1>9. \A s \in SUBSET S : h[s] = FoldStep(h, s, <<>>, choice, step)
  BY <1>8 DEF IsFold
<1>10. ASSUME NEW s \in SUBSET S
       PROVE  FoldStep(h, s, <<>>, choice, step) = Broken(h, s, rows, startAt)
  <2>1. CASE s = {}
    BY <2>1 DEF FoldStep, Broken
  <2>2. CASE s # {}
    <3>1. PICK x \in s : x = choice[s] /\ x = Max(s)
      BY <1>1, <1>2, <2>2 DEF IsLast
    <3>2. h[s \ {x}] \in V
      BY <1>8
    <3>3. step[x][h[s \ {x}]] = NextMinute(rows, h[s \ {x}], startAt + x - 1)
      BY <1>5, <3>2
    <3> QED
      BY <2>2, <3>1, <3>3 DEF FoldStep, Broken
  <2> QED
    BY <2>1, <2>2
<1>11. h = [s \in SUBSET S |-> Broken(h, s, rows, startAt)]
  BY <1>8, <1>9, <1>10
<1>12. IsBreakdown(h, rows, startAt, n)
  BY <1>1, <1>11 DEF IsBreakdown
<1>13. IsFold(h, 1 .. n, <<>>, choice, step)
  BY <1>1, <1>8
<1>14. /\ h[{}] = <<>>
       /\ \A i \in 1 .. n : h[1 .. i] = step[i][h[1 .. (i - 1)]]
  <2>1. StepByStep(h, n, <<>>, step)
    BY <1>2, <1>13, FoldFromTheLeft
  <2> QED
    BY <2>1 DEF StepByStep
<1>15. ASSUME NEW i \in 1 .. n
       PROVE  h[1 .. i] = NextMinute(rows, h[1 .. (i - 1)], startAt + i - 1)
  <2>1. h[1 .. (i - 1)] \in V
    BY <1>1, <1>8
  <2> QED
    BY <1>1, <1>5, <1>14, <2>1
<1>16. SegmentsBySet(h, rows, startAt, n)
  BY <1>12, <1>14, <1>15 DEF SegmentsBySet
<1> QED
  BY <1>1, <1>3, <1>8, <1>16

Segments(b, rows, startAt, n) ==
    /\ b[0] = <<>>
    /\ \A i \in 1 .. n : b[i] = NextMinute(rows, b[i - 1], startAt + i - 1)
    /\ Breakdown(rows, startAt, n) = b[n]

\* computePrice's breakdown is the last of them.
LEMMA SegmentsOfPrefixes ==
  ASSUME NEW table, TableOK(table), NEW rows \in SetToSeqs(table),
         NEW startAt \in Nat, NEW n \in Nat
  PROVE  \E b \in [0 .. n -> Seq(Segment(table))] : Segments(b, rows, startAt, n)
<1>0. PICK h \in [SUBSET (1 .. n) -> Seq(Segment(table))] :
          SegmentsBySet(h, rows, startAt, n)
  BY BreakdownsExist
<1>1. /\ IsBreakdown(h, rows, startAt, n)
      /\ h[{}] = <<>>
      /\ \A i \in 1 .. n :
             h[1 .. i] = NextMinute(rows, h[1 .. (i - 1)], startAt + i - 1)
  BY <1>0 DEF SegmentsBySet
<1>2. PICK is : is = [i \in 1 .. n |-> i]
  OBVIOUS
<1> DEFINE Solution(g) ==
               g = [s \in SUBSET DOMAIN is |->
                       IF s = {} THEN <<>>
                       ELSE LET x == Max(s)
                            IN  NextMinute(rows, g[s \ {x}], startAt + is[x] - 1)]
<1>3. PICK S : S = 1 .. n /\ IsFiniteSet(S) /\ S = DOMAIN is
  BY <1>2, FS_Interval
<1>4. \A s \in SUBSET S : s # {} => Max(s) \in s /\ is[Max(s)] = Max(s)
  <2>1. \A s \in SUBSET S : s # {} => Max(s) \in s
    BY <1>3, MaxIsInSet
  <2> QED
    BY <1>2, <1>3, <2>1
<1>5. Solution(h)
  BY <1>1, <1>3, <1>4 DEF IsBreakdown, Broken
<1>6. PICK k : k = CHOOSE g : Solution(g)
  OBVIOUS
<1>7. Solution(k)
  BY <1>5, <1>6
<1>8. \A s \in SUBSET S : /\ h[s] = Broken(h, s, rows, startAt)
                          /\ k[s] = Broken(k, s, rows, startAt)
  BY <1>3, <1>4, <1>5, <1>7 DEF Broken
<1>9. Breakdown(rows, startAt, n) = k[1 .. n]
  BY <1>2, <1>6 DEF Breakdown, FoldLeft, MapThenFoldSet
<1> DEFINE T == {s \in SUBSET S : h[s] = k[s]}
<1>10. Inductive(T, S)
  <2> SUFFICES ASSUME NEW s \in SUBSET S, \A x \in s : s \ {x} \in T
               PROVE  s \in T
    BY DEF Inductive
  <2> QED
    BY <1>4, <1>8 DEF Broken
<1> HIDE DEF T
<1>11. SUBSET S \subseteq T
  BY <1>3, <1>10, BySize
<1>12. PICK b : b = [i \in 0 .. n |-> h[1 .. i]]
  OBVIOUS
<1>13. b \in [0 .. n -> Seq(Segment(table))]
  BY <1>1, <1>12
<1>14. b[0] = <<>>
  <2>1. 1 .. 0 = {}
    OBVIOUS
  <2> QED
    BY <1>1, <1>12, <2>1
<1>15. ASSUME NEW i \in 1 .. n
       PROVE  b[i] = NextMinute(rows, b[i - 1], startAt + i - 1)
  <2>1. i \in 0 .. n /\ i - 1 \in 0 .. n
    OBVIOUS
  <2>2. b[i] = h[1 .. i] /\ b[i - 1] = h[1 .. (i - 1)]
    BY <1>12, <2>1
  <2> QED
    BY <1>1, <2>2
<1>16. b[n] = Breakdown(rows, startAt, n)
  BY <1>3, <1>9, <1>11, <1>12 DEF T
<1>17. Segments(b, rows, startAt, n)
  BY <1>14, <1>15, <1>16 DEF Segments
<1> QED
  BY <1>13, <1>17

-----------------------------------------------------------------------------
(***************************************************************************)
(* What a breakdown is made of, and that it covers the session.            *)
(***************************************************************************)

\* What a breakdown is made of, minute by minute.
Lengths(b) == [i \in DOMAIN b |-> b[i].minutes]
Costs(b) == [i \in DOMAIN b |-> Rate(b[i].rule) * b[i].minutes]
RatesFrom(startAt, k, class) ==
    [t \in startAt .. startAt + k - 1 |-> RateAt(t, class)]

Chained(b) ==
    \A i \in 1 .. Len(b) - 1 :
        /\ b[i + 1].from = b[i].from + b[i].minutes
        /\ b[i + 1].rule # b[i].rule

\* The segments of k minutes: one after the other from the first minute to
\* the last, and worth what those minutes are worth at a tier.
Covers(b, startAt, k, class) ==
    /\ Len(b) = 0 <=> k = 0
    /\ Len(b) > 0 => /\ b[1].from = startAt
                     /\ b[Len(b)].from + b[Len(b)].minutes = startAt + k
    /\ Chained(b)
    /\ SumFunction(Lengths(b)) = k
    /\ SumFunction(Costs(b)) = SumFunction(RatesFrom(startAt, k, class))

\* The rate of a minute is a number: some order of the rules finds it.
LEMMA RatesTyped ==
  ASSUME TableOK(rules), NEW startAt \in Nat, NEW k \in Nat
  PROVE  /\ \A t \in startAt .. startAt + k - 1 : RateAt(t, tier) \in Nat
         /\ IntFunction(RatesFrom(startAt, k, tier), startAt .. startAt + k - 1)
<1>1. ASSUME NEW t \in startAt .. startAt + k - 1 PROVE RateAt(t, tier) \in Nat
  <2>1. rules \in SUBSET rules /\ t \in Nat
    OBVIOUS
  <2>2. PICK rows : rows \in SetToSeqs(rules)
    <3>1. PICK table : table = rules /\ IsFiniteSet(table)
      BY DEF TableOK
    <3>2. PICK n \in Nat : ExistsBijection(1 .. n, table)
      BY <3>1, FS_NatBijection
    <3>3. Cardinality(table) = n
      BY <3>2, FS_CountingElements
    <3>4. PICK f : f \in Injection(1 .. n, table)
      BY <3>2 DEF ExistsBijection, Bijection
    <3> QED
      BY <3>1, <3>3, <3>4 DEF SetToSeqs, Injection, IsInjective
  <2> QED
    BY <2>1, <2>2, WinnerHasTheRate
<1> QED
  BY <1>1 DEF RatesFrom, IntFunction

\* Lengths and costs are numbers for every breakdown.
LEMMA PartsTyped ==
  ASSUME NEW table, TableOK(table), NEW b \in Seq(Segment(table))
  PROVE  /\ IsFiniteSet(DOMAIN b)
         /\ IntFunction(Lengths(b), DOMAIN b)
         /\ IntFunction(Costs(b), DOMAIN b)
<1>1. IsFiniteSet(DOMAIN b)
  BY LenProperties, FS_Interval
<1>2. ASSUME NEW i \in DOMAIN b
      PROVE  b[i].minutes \in Nat /\ Rate(b[i].rule) \in Nat
  <2>1. b[i] \in Segment(table)
    BY ElementOfSeq, LenProperties
  <2>2. b[i].minutes \in Nat /\ b[i].rule \in table \cup {NoRule}
    BY <2>1 DEF Segment
  <2> QED
    BY <2>2 DEF Rate, TableOK
<1>3. \A i \in DOMAIN b : Rate(b[i].rule) * b[i].minutes \in Nat
  BY <1>2
<1> QED
  BY <1>1, <1>2, <1>3 DEF Lengths, Costs, IntFunction

\* One minute more is worth what its rate says.
LEMMA RatesNext ==
  ASSUME TableOK(rules), NEW startAt \in Nat, NEW k \in Nat
  PROVE  SumFunction(RatesFrom(startAt, k + 1, tier)) =
             RateAt(startAt + k, tier) + SumFunction(RatesFrom(startAt, k, tier))
<1>1. PICK k1 \in Nat : k1 = k + 1
  OBVIOUS
<1>2. PICK x, R, S : /\ x = startAt + k /\ R = startAt .. startAt + k - 1
                     /\ S = startAt .. startAt + k1 - 1
  OBVIOUS
<1>3. x \in S /\ R = S \ {x} /\ IsFiniteSet(S)
  <2>1. IsFiniteSet(S)
    BY <1>2, FS_Interval
  <2> QED
    BY <1>1, <1>2, <2>1
<1>4. PICK f, g : /\ f = RatesFrom(startAt, k1, tier)
                  /\ g = RatesFrom(startAt, k, tier)
  OBVIOUS
<1>5. IntFunction(f, S) /\ IntFunction(g, R)
  BY <1>2, <1>4, RatesTyped
<1>6. Agree(f, g, R) /\ f[x] = RateAt(x, tier)
  BY <1>2, <1>3, <1>4 DEF Agree, RatesFrom
<1>7. SumFunction(f) = f[x] + SumFunction(g)
  BY <1>3, <1>5, <1>6, SumWithTerm
<1> QED
  BY <1>1, <1>2, <1>4, <1>6, <1>7

\* The two ways in which a breakdown goes on, and what becomes of its sums.
Grew(next, b, n) ==
    /\ Len(next) = n
    /\ next[n].from = b[n].from
    /\ next[n].rule = b[n].rule
    /\ next[n].minutes = b[n].minutes + 1
    /\ \A i \in 1 .. n - 1 : next[i] = b[i]

WasAppended(next, b, n, t, winner) ==
    /\ Len(next) = n + 1
    /\ next[n + 1] = [from |-> t, rule |-> winner, minutes |-> 1]
    /\ \A i \in 1 .. n : next[i] = b[i]

\* The last segment grew.
LEMMA SumsWhenGrown ==
  ASSUME NEW table, TableOK(table), NEW b \in Seq(Segment(table)),
         NEW next \in Seq(Segment(table)), NEW n \in Nat \ {0}, n = Len(b),
         Grew(next, b, n)
  PROVE  /\ SumFunction(Lengths(next)) = SumFunction(Lengths(b)) + 1
         /\ SumFunction(Costs(next)) = SumFunction(Costs(b)) + Rate(b[n].rule)
<1>1. PICK S : S = 1 .. n /\ IsFiniteSet(S)
  BY FS_Interval
<1>2. DOMAIN b = S /\ DOMAIN next = S /\ n \in S
  BY <1>1, LenProperties DEF Grew
<1>3. PICK f1, g1, f2, g2 : /\ f1 = Lengths(next) /\ g1 = Lengths(b)
                            /\ f2 = Costs(next) /\ g2 = Costs(b)
  OBVIOUS
<1>4. /\ IntFunction(f1, S) /\ IntFunction(g1, S)
      /\ IntFunction(f2, S) /\ IntFunction(g2, S)
  BY <1>2, <1>3, PartsTyped
<1>5. PICK R : R = S \ {n} /\ Agree(f1, g1, R) /\ Agree(f2, g2, R)
  <2>1. \A i \in S \ {n} : next[i] = b[i]
    BY <1>1 DEF Grew
  <2> QED
    BY <1>2, <1>3, <2>1 DEF Agree, Lengths, Costs
<1>6. b[n].minutes \in Nat /\ Rate(b[n].rule) \in Nat
  <2>1. b[n] \in Segment(table)
    BY <1>2, ElementOfSeq, LenProperties
  <2>2. b[n].minutes \in Nat /\ b[n].rule \in table \cup {NoRule}
    BY <2>1 DEF Segment
  <2> QED
    BY <2>2 DEF Rate, TableOK
<1>7. f1[n] = g1[n] + 1 /\ g1[n] \in Int
  BY <1>2, <1>3, <1>6 DEF Grew, Lengths
<1>8. f2[n] = g2[n] + Rate(b[n].rule) /\ g2[n] \in Int
  <2>1. PICK r \in Nat, m \in Nat : r = Rate(b[n].rule) /\ m = b[n].minutes
    BY <1>6
  <2>2. f2[n] = r * (m + 1) /\ g2[n] = r * m
    BY <1>2, <1>3, <2>1 DEF Grew, Costs
  <2>3. r * (m + 1) = (r * m) + r
    OBVIOUS
  <2> QED
    BY <2>1, <2>2, <2>3
<1>9. n \in S /\ IsFiniteSet(S)
  BY <1>1, <1>2
<1>10. SumFunction(f1) - SumFunction(g1) = f1[n] - g1[n]
  BY <1>4, <1>5, <1>9, SumWithTermGrown
<1>11. SumFunction(f2) - SumFunction(g2) = f2[n] - g2[n]
  BY <1>4, <1>5, <1>9, SumWithTermGrown
<1>12. /\ SumFunction(f1) \in Int /\ SumFunction(g1) \in Int
       /\ SumFunction(f2) \in Int /\ SumFunction(g2) \in Int
  BY <1>1, <1>4, SumOfFunction
<1>13. SumFunction(f1) = SumFunction(g1) + 1
  BY <1>7, <1>10, <1>12
<1>14. SumFunction(f2) = SumFunction(g2) + Rate(b[n].rule)
  BY <1>6, <1>8, <1>11, <1>12
<1> QED
  BY <1>3, <1>13, <1>14

\* A segment was appended.
LEMMA SumsWhenAppended ==
  ASSUME NEW table, TableOK(table), NEW b \in Seq(Segment(table)),
         NEW next \in Seq(Segment(table)), NEW n \in Nat, n = Len(b),
         NEW t, NEW winner, WasAppended(next, b, n, t, winner)
  PROVE  /\ SumFunction(Lengths(next)) = SumFunction(Lengths(b)) + 1
         /\ SumFunction(Costs(next)) = SumFunction(Costs(b)) + Rate(winner)
<1>1. PICK R : R = 1 .. n /\ IsFiniteSet(R)
  BY FS_Interval
<1>2. PICK x, S : x = n + 1 /\ S = 1 .. n + 1
  OBVIOUS
<1>3. /\ x \in S /\ R = S \ {x} /\ IsFiniteSet(S)
      /\ DOMAIN b = R /\ DOMAIN next = S
  <2>1. IsFiniteSet(S)
    BY <1>2, FS_Interval
  <2>2. x \in S /\ R = S \ {x}
    BY <1>1, <1>2
  <2>3. DOMAIN b = R /\ DOMAIN next = S
    BY <1>1, <1>2, LenProperties DEF WasAppended
  <2> QED
    BY <2>1, <2>2, <2>3
<1>4. PICK f1, g1, f2, g2 : /\ f1 = Lengths(next) /\ g1 = Lengths(b)
                            /\ f2 = Costs(next) /\ g2 = Costs(b)
  OBVIOUS
<1>5. /\ IntFunction(f1, S) /\ IntFunction(g1, R)
      /\ IntFunction(f2, S) /\ IntFunction(g2, R)
  BY <1>3, <1>4, PartsTyped
<1>6. Agree(f1, g1, R) /\ Agree(f2, g2, R)
  <2>1. \A i \in R : next[i] = b[i]
    BY <1>1 DEF WasAppended
  <2> QED
    BY <1>3, <1>4, <2>1 DEF Agree, Lengths, Costs
<1>7. next[x] = [from |-> t, rule |-> winner, minutes |-> 1]
  BY <1>2 DEF WasAppended
<1>8. Rate(winner) \in Nat
  <2>1. next[x] \in Segment(table)
    BY <1>3, ElementOfSeq, LenProperties
  <2>2. winner \in table \cup {NoRule}
    BY <1>7, <2>1 DEF Segment
  <2> QED
    BY <2>2 DEF Rate, TableOK
<1>9. f1[x] = 1 /\ f2[x] = Rate(winner)
  BY <1>3, <1>4, <1>7, <1>8 DEF Lengths, Costs
<1>10. SumFunction(f1) = f1[x] + SumFunction(g1)
  BY <1>1, <1>3, <1>5, <1>6, SumWithTerm
<1>11. SumFunction(f2) = f2[x] + SumFunction(g2)
  BY <1>1, <1>3, <1>5, <1>6, SumWithTerm
<1>12. SumFunction(g1) \in Int /\ SumFunction(g2) \in Int
  BY <1>1, <1>5, SumOfFunction
<1> QED
  BY <1>4, <1>8, <1>9, <1>10, <1>11, <1>12

\* No minutes have no segments.
LEMMA NothingCovers ==
  ASSUME NEW startAt \in Nat, NEW class
  PROVE  Covers(<<>>, startAt, 0, class)
<1>1. SumFunction(Lengths(<<>>)) = 0
  <2>1. DOMAIN Lengths(<<>>) = {}
    BY DEF Lengths
  <2>2. PICK f : f = Lengths(<<>>)
    OBVIOUS
  <2> QED
    BY <2>1, <2>2, SumOfNothing DEF SumFunction
<1>2. SumFunction(Costs(<<>>)) = 0
  <2>1. DOMAIN Costs(<<>>) = {}
    BY DEF Costs
  <2>2. PICK f : f = Costs(<<>>)
    OBVIOUS
  <2> QED
    BY <2>1, <2>2, SumOfNothing DEF SumFunction
<1>3. SumFunction(RatesFrom(startAt, 0, class)) = 0
  <2>1. DOMAIN RatesFrom(startAt, 0, class) = {}
    BY DEF RatesFrom
  <2>2. PICK f : f = RatesFrom(startAt, 0, class)
    OBVIOUS
  <2> QED
    BY <2>1, <2>2, SumOfNothing DEF SumFunction
<1> QED
  BY <1>1, <1>2, <1>3 DEF Covers, Chained

\* One more minute is covered by the breakdown that goes on with it.
LEMMA NextMinuteCovers ==
  ASSUME NEW table, table = rules, TableOK(table), NEW rows \in SetToSeqs(table),
         NEW startAt \in Nat, NEW k \in Nat, NEW b \in Seq(Segment(table)),
         Covers(b, startAt, k, tier),
         NEW next, next = NextMinute(rows, b, startAt + k)
  PROVE  next \in Seq(Segment(table)) /\ Covers(next, startAt, k + 1, tier)
<1>1. PICK n \in Nat : n = Len(b)
  BY LenProperties
<1>2. PICK t \in Nat : t = startAt + k
  OBVIOUS
<1>3. PICK winner : winner = PickWinner(rows, t)
  OBVIOUS
<1>4. /\ next \in Seq(Segment(table))
      /\ \/ n > 0 /\ b[n].rule = winner /\ Grew(next, b, n)
         \/ /\ n > 0 => b[n].rule # winner
            /\ WasAppended(next, b, n, t, winner)
  <2>0. t \in Int
    BY <1>2
  <2>1. LET new == NextMinute(rows, b, t)
            size == Len(b)
        IN  /\ new \in Seq(Segment(table))
            /\ \/ /\ size > 0 /\ b[size].rule = winner
                  /\ Len(new) = size
                  /\ new[size].from = b[size].from
                  /\ new[size].rule = b[size].rule
                  /\ new[size].minutes = b[size].minutes + 1
                  /\ \A i \in 1 .. size - 1 : new[i] = b[i]
               \/ /\ size > 0 => b[size].rule # winner
                  /\ Len(new) = size + 1
                  /\ new[size + 1] = [from |-> t, rule |-> winner, minutes |-> 1]
                  /\ \A i \in 1 .. size : new[i] = b[i]
    BY <1>3, <2>0, NextMinuteCases
  <2>2. next = NextMinute(rows, b, t)
    BY <1>2
  <2>3. CASE /\ n > 0 /\ b[n].rule = winner
             /\ Len(next) = n
             /\ next[n].from = b[n].from
             /\ next[n].rule = b[n].rule
             /\ next[n].minutes = b[n].minutes + 1
             /\ \A i \in 1 .. n - 1 : next[i] = b[i]
    BY <2>1, <2>2, <2>3 DEF Grew
  <2>4. CASE /\ n > 0 => b[n].rule # winner
             /\ Len(next) = n + 1
             /\ next[n + 1] = [from |-> t, rule |-> winner, minutes |-> 1]
             /\ \A i \in 1 .. n : next[i] = b[i]
    BY <2>1, <2>2, <2>4 DEF WasAppended
  <2> QED
    BY <1>1, <2>1, <2>2, <2>3, <2>4
<1>5. Rate(winner) = RateAt(t, tier) /\ RateAt(t, tier) \in Nat
  BY <1>2, <1>3, WinnerHasTheRate
<1>6. SumFunction(RatesFrom(startAt, k + 1, tier)) =
          RateAt(t, tier) + SumFunction(RatesFrom(startAt, k, tier))
  BY <1>2, RatesNext
<1>7. \A i \in 1 .. n : b[i].from \in Int /\ b[i].minutes \in Nat
  <2>1. \A i \in 1 .. n : b[i] \in Segment(table)
    BY <1>1, ElementOfSeq
  <2> QED
    BY <2>1 DEF Segment
<1>8. SumFunction(Lengths(b)) = k
  BY DEF Covers
<1>9. PICK cost \in Int : /\ cost = SumFunction(Costs(b))
                         /\ cost = SumFunction(RatesFrom(startAt, k, tier))
  BY PartsTyped, SumOfFunction DEF Covers
<1>10. CASE n > 0 /\ b[n].rule = winner /\ Grew(next, b, n)
  <2>1. n \in Nat \ {0}
    BY <1>10
  <2>2. /\ SumFunction(Lengths(next)) = SumFunction(Lengths(b)) + 1
        /\ SumFunction(Costs(next)) = SumFunction(Costs(b)) + Rate(b[n].rule)
    BY <1>1, <1>4, <1>10, <2>1, SumsWhenGrown
  <2>3. SumFunction(Lengths(next)) = k + 1
    BY <1>8, <2>2
  <2>4. SumFunction(Costs(next)) = SumFunction(RatesFrom(startAt, k + 1, tier))
    BY <1>5, <1>6, <1>9, <1>10, <2>2
  <2>5. Len(next) = n /\ b[1].from = startAt /\ b[n].from + b[n].minutes = t
    BY <1>1, <1>2, <1>10 DEF Covers, Grew
  <2>6. /\ next[1].from = startAt
        /\ next[n].from + next[n].minutes = startAt + (k + 1)
    <3>1. next[n].from + next[n].minutes = startAt + (k + 1)
      <4>1. PICK from \in Int, minutes \in Nat :
                from = b[n].from /\ minutes = b[n].minutes
        BY <1>7, <1>10
      <4>2. next[n].from = from /\ next[n].minutes = minutes + 1
        BY <1>10, <4>1 DEF Grew
      <4>3. from + minutes = t
        BY <2>5, <4>1
      <4>4. from + (minutes + 1) = t + 1
        BY <4>3
      <4>5. t + 1 = startAt + (k + 1)
        BY <1>2
      <4> QED
        BY <4>2, <4>4, <4>5
    <3>2. CASE n = 1
      BY <1>10, <2>5, <3>1, <3>2 DEF Grew
    <3>3. CASE n # 1
      <4>1. 1 \in 1 .. n - 1
        BY <1>10, <3>3
      <4>2. next[1] = b[1]
        BY <1>10, <4>1 DEF Grew
      <4> QED
        BY <2>5, <3>1, <4>2
    <3> QED
      BY <3>1, <3>2, <3>3
  <2>7. Chained(next)
    <3> SUFFICES ASSUME NEW i \in 1 .. n - 1
                 PROVE  /\ next[i + 1].from = next[i].from + next[i].minutes
                        /\ next[i + 1].rule # next[i].rule
      BY <2>5 DEF Chained
    <3>1. /\ b[i + 1].from = b[i].from + b[i].minutes
          /\ b[i + 1].rule # b[i].rule
      BY <1>1 DEF Covers, Chained
    <3>2. next[i] = b[i]
      BY <1>10 DEF Grew
    <3>3. next[i + 1].from = b[i + 1].from /\ next[i + 1].rule = b[i + 1].rule
      BY <1>10 DEF Grew
    <3> QED
      BY <3>1, <3>2, <3>3
  <2> QED
    BY <1>4, <1>10, <2>3, <2>4, <2>5, <2>6, <2>7 DEF Covers
<1>11. CASE (n > 0 => b[n].rule # winner) /\ WasAppended(next, b, n, t, winner)
  <2>2. /\ SumFunction(Lengths(next)) = SumFunction(Lengths(b)) + 1
        /\ SumFunction(Costs(next)) = SumFunction(Costs(b)) + Rate(winner)
    BY <1>1, <1>4, <1>11, SumsWhenAppended
  <2>3. SumFunction(Lengths(next)) = k + 1
    BY <1>8, <2>2
  <2>4. SumFunction(Costs(next)) = SumFunction(RatesFrom(startAt, k + 1, tier))
    BY <1>5, <1>6, <1>9, <2>2
  <2>5. /\ Len(next) = n + 1 /\ next[n + 1].from = t
        /\ next[n + 1].minutes = 1 /\ next[n + 1].rule = winner
    BY <1>11 DEF WasAppended
  <2>6. next[1].from = startAt
    <3>1. CASE n = 0
      <4>1. k = 0
        BY <1>1, <3>1 DEF Covers
      <4> QED
        BY <1>2, <2>5, <3>1, <4>1
    <3>2. CASE n > 0
      <4>1. next[1] = b[1] /\ b[1].from = startAt
        BY <1>1, <1>11, <3>2 DEF WasAppended, Covers
      <4> QED
        BY <4>1
    <3> QED
      BY <3>1, <3>2
  <2>7. next[n + 1].from + next[n + 1].minutes = startAt + (k + 1)
    BY <1>2, <2>5
  <2>8. Chained(next)
    <3> SUFFICES ASSUME NEW i \in 1 .. n
                 PROVE  /\ next[i + 1].from = next[i].from + next[i].minutes
                        /\ next[i + 1].rule # next[i].rule
      BY <2>5 DEF Chained
    <3>1. next[i] = b[i]
      BY <1>11 DEF WasAppended
    <3>2. CASE i = n
      <4>1. b[n].from + b[n].minutes = t
        BY <1>1, <1>2, <3>2 DEF Covers
      <4> QED
        BY <1>11, <2>5, <3>1, <3>2, <4>1
    <3>3. CASE i # n
      <4>1. i \in 1 .. n - 1 /\ next[i + 1] = b[i + 1]
        BY <1>11, <3>3 DEF WasAppended
      <4>2. /\ b[i + 1].from = b[i].from + b[i].minutes
            /\ b[i + 1].rule # b[i].rule
        BY <1>1, <4>1 DEF Covers, Chained
      <4> QED
        BY <3>1, <4>1, <4>2
    <3> QED
      BY <3>2, <3>3
  <2> QED
    BY <1>4, <2>3, <2>4, <2>5, <2>6, <2>7, <2>8 DEF Covers
<1> QED
  BY <1>4, <1>10, <1>11

\* However the table is read, the breakdown covers the session.
LEMMA BreakdownCovers ==
  ASSUME TableOK(rules), NEW rows \in SetToSeqs(rules), NEW startAt \in Nat,
         NEW minutes \in Nat
  PROVE  /\ Breakdown(rows, startAt, minutes) \in Seq(Segment(rules))
         /\ Covers(Breakdown(rows, startAt, minutes), startAt, minutes, tier)
<1>1. PICK table : table = rules
  OBVIOUS
<1>2. TableOK(table) /\ rows \in SetToSeqs(table)
  BY <1>1
<1>3. PICK b \in [0 .. minutes -> Seq(Segment(table))] :
          Segments(b, rows, startAt, minutes)
  BY <1>2, SegmentsOfPrefixes
<1> DEFINE T == {k \in Nat : k <= minutes => Covers(b[k], startAt, k, tier)}
<1>4. 0 \in T
  BY <1>3, NothingCovers DEF Segments
<1>5. ASSUME NEW k \in Nat, k \in T PROVE k + 1 \in T
  <2> SUFFICES ASSUME k + 1 <= minutes
               PROVE  Covers(b[k + 1], startAt, k + 1, tier)
    OBVIOUS
  <2>1. PICK now, next : now = b[k] /\ next = b[k + 1]
    OBVIOUS
  <2>2. now \in Seq(Segment(table)) /\ Covers(now, startAt, k, tier)
    BY <1>3, <1>5, <2>1
  <2>3. next = NextMinute(rows, now, startAt + k)
    <3>1. PICK i \in 1 .. minutes : i = k + 1
      OBVIOUS
    <3>2. b[i] = NextMinute(rows, b[i - 1], startAt + i - 1)
      BY <1>3 DEF Segments
    <3>3. i - 1 = k /\ startAt + i - 1 = startAt + k
      BY <3>1
    <3> QED
      BY <2>1, <3>1, <3>2, <3>3
  <2> QED
    BY <1>1, <1>2, <2>1, <2>2, <2>3, NextMinuteCovers
<1> HIDE DEF T
<1>6. Nat \subseteq T
  BY <1>4, <1>5, CountUp
<1>7. Covers(b[minutes], startAt, minutes, tier)
  BY <1>6 DEF T
<1> QED
  BY <1>1, <1>3, <1>7 DEF Segments

-----------------------------------------------------------------------------
(***************************************************************************)
(* A session, booked and extended.                                         *)
(***************************************************************************)

\* What a session costs is told by its breakdown, and that covers its minutes
\* at the tier it was priced at, which need not be the tier the PC has now.
SaleInv ==
    /\ TableOK(rules)
    /\ booking.startedAt \in Nat /\ booking.minutes \in Nat
    /\ booking.breakdown \in Seq(Segment(rules))
    /\ Covers(booking.breakdown, booking.startedAt, booking.minutes,
              booking.tier)
    /\ booking.price = RoundToHours(RateMinutes(booking.breakdown))

\* The two names of one sum.
LEMMA CostsAreRateMinutes ==
  ASSUME NEW b
  PROVE  RateMinutes(b) = SumFunction(Costs(b))
BY DEF RateMinutes, Costs

\* Rounding keeps the order.
LEMMA RoundingGrows ==
  ASSUME NEW x \in Int, NEW y \in Int, x <= y
  PROVE  /\ RoundToHours(x) \in Int /\ RoundToHours(y) \in Int
         /\ RoundToHours(x) <= RoundToHours(y)
<1>1. PICK d \in Nat \ {0} : d = 2 * Hour
  BY ClockAssumption
<1>2. PICK a \in Int, b \in Int : a = 2 * x + Hour /\ b = 2 * y + Hour /\ a <= b
  BY ClockAssumption
<1>3. a \div d \in Int /\ b \div d \in Int /\ a \div d <= b \div d
  BY <1>2, Division, DivisionGrows
<1> QED
  BY <1>1, <1>2, <1>3 DEF RoundToHours

\* Nothing costs nothing.
LEMMA NothingIsFree == RoundToHours(0) = 0
<1>1. PICK h \in Nat \ {0} : h = Hour
  BY ClockAssumption
<1>2. h \div (2 * h) = 0
  OBVIOUS
<1> QED
  BY <1>1, <1>2 DEF RoundToHours

\* Nothing is booked at first.
LEMMA SaleInvInitially == SaleInit => SaleInv
<1> SUFFICES ASSUME SaleInit PROVE SaleInv
  OBVIOUS
<1>1. TableOK(rules)
  BY RulesAssumption DEF SaleInit
<1>2. /\ booking.startedAt = 0 /\ booking.minutes = 0 /\ booking.price = 0
      /\ booking.breakdown = <<>> /\ booking.tier = AnyTier
  BY DEF SaleInit, NoBooking
<1>3. Covers(<<>>, 0, 0, AnyTier)
  BY NothingCovers
<1>4. RateMinutes(<<>>) = 0
  <2>1. DOMAIN Costs(<<>>) = {}
    BY DEF Costs
  <2>2. PICK f : f = Costs(<<>>)
    OBVIOUS
  <2>3. SumFunction(Costs(<<>>)) = 0
    BY <2>1, <2>2, SumOfNothing DEF SumFunction
  <2> QED
    BY <2>3, CostsAreRateMinutes
<1> QED
  BY <1>1, <1>2, <1>3, <1>4, NothingIsFree DEF SaleInv

\* A session that is priced from its start is priced right.
LEMMA PricedSession ==
  ASSUME TableOK(rules), NEW rows \in SetToSeqs(rules), NEW startAt \in Nat,
         NEW minutes \in Nat, UNCHANGED <<rules, tier>>,
         booking' = ComputePrice(rows, startAt, minutes)
  PROVE  /\ SaleInv'
         /\ booking'.startedAt = startAt /\ booking'.minutes = minutes
         /\ booking'.tier = tier
<1>1. PICK b, table, class : /\ b = Breakdown(rows, startAt, minutes)
                            /\ table = rules /\ class = tier
  OBVIOUS
<1>2. b \in Seq(Segment(table)) /\ Covers(b, startAt, minutes, class)
  BY <1>1, BreakdownCovers
<1>3. /\ booking'.startedAt = startAt /\ booking'.minutes = minutes
      /\ booking'.tier = class
      /\ booking'.breakdown = b /\ booking'.price = RoundToHours(RateMinutes(b))
  BY <1>1 DEF ComputePrice
<1>4. Covers(b, startAt, minutes, class)'
  <2>1. RatesFrom(startAt, minutes, class)' = RatesFrom(startAt, minutes, class)
    BY DEF RatesFrom, RateAt, Holds
  <2> QED
    BY <1>2, <2>1 DEF Covers
<1> QED
  BY <1>1, <1>2, <1>3, <1>4 DEF SaleInv

\* handleStartSession.
LEMMA BookingStep ==
  ASSUME SaleInv, NEW startAt \in 0 .. Day * Week - 1,
         NEW minutes \in 1 .. MaxMinutes, Book(startAt, minutes)
  PROVE  SaleInv'
<1>1. PICK rows \in SetToSeqs(rules) :
          booking' = ComputePrice(rows, startAt, minutes)
  BY DEF Book
<1>2. startAt \in Nat /\ minutes \in Nat
  BY BoundAssumption
<1> QED
  BY <1>1, <1>2, PricedSession DEF Book, SaleInv

\* handleExtendSession: start and rules stay, minutes are added.
LEMMA ExtensionStep ==
  ASSUME SaleInv, NEW minutes \in 1 .. MaxMinutes, Extend(minutes)
  PROVE  /\ SaleInv'
         /\ booking'.startedAt = booking.startedAt
         /\ booking'.minutes = booking.minutes + minutes
         /\ booking'.tier = tier
<1>1. PICK startAt \in Nat, all \in Nat :
          startAt = booking.startedAt /\ all = booking.minutes + minutes
  BY BoundAssumption DEF SaleInv
<1>2. PICK rows \in SetToSeqs(rules) :
          booking' = ComputePrice(rows, startAt, all)
  BY <1>1 DEF Extend
<1> QED
  BY <1>1, <1>2, PricedSession DEF Extend, SaleInv

\* Every step of a sale keeps the invariant.
LEMMA SaleStepKeepsInv == SaleInv /\ [SaleNext]_saleVars => SaleInv'
<1> SUFFICES ASSUME SaleInv, [SaleNext]_saleVars PROVE SaleInv'
  OBVIOUS
<1>1. CASE UNCHANGED <<rules, booking>>
  <2>1. \A s, k, c : RatesFrom(s, k, c)' = RatesFrom(s, k, c)
    BY <1>1 DEF RatesFrom, RateAt, Holds
  <2> QED
    BY <1>1, <2>1 DEF SaleInv, Covers
<1>2. CASE \E startAt \in 0 .. Day * Week - 1, minutes \in 1 .. MaxMinutes :
               Book(startAt, minutes)
  BY <1>2, BookingStep
<1>3. CASE \E minutes \in 1 .. MaxMinutes : Extend(minutes)
  BY <1>3, ExtensionStep
<1>4. CASE \E class \in Tiers : PatchPc(class)
  BY <1>1, <1>4 DEF PatchPc
<1> QED
  BY <1>1, <1>2, <1>3, <1>4 DEF SaleNext, saleVars

\* The minutes of a session cost what their rates add up to.
Worth ==
    SumFunction(RatesFrom(booking.startedAt, booking.minutes, booking.tier))

\* The price is what the minutes are worth, rounded.
LEMMA PriceOfRates ==
  SaleInv => Worth \in Int /\ booking.price = RoundToHours(Worth)
<1> SUFFICES ASSUME SaleInv
             PROVE  Worth \in Int /\ booking.price = RoundToHours(Worth)
  OBVIOUS
<1>0. PICK b : b = booking.breakdown
  OBVIOUS
<1>1. SumFunction(Costs(b)) \in Int
  <2>1. PICK table : table = rules
    OBVIOUS
  <2>2. TableOK(table) /\ b \in Seq(Segment(table))
    BY <1>0, <2>1 DEF SaleInv
  <2> QED
    BY <2>2, PartsTyped, SumOfFunction
<1>2. SumFunction(Costs(b)) = Worth
  BY <1>0 DEF SaleInv, Covers, Worth
<1>3. booking.price = RoundToHours(SumFunction(Costs(b)))
  BY <1>0, CostsAreRateMinutes DEF SaleInv
<1> QED
  BY <1>1, <1>2, <1>3

\* More minutes from the same start cost no less.
LEMMA RatesAddUp ==
  ASSUME TableOK(rules), NEW startAt \in Nat, NEW k \in Nat, NEW more \in Nat
  PROVE  SumFunction(RatesFrom(startAt, k, tier)) <=
             SumFunction(RatesFrom(startAt, k + more, tier))
<1>1. PICK all \in Nat : all = k + more
  OBVIOUS
<1>2. PICK R, S : /\ R = startAt .. startAt + k - 1
                  /\ S = startAt .. startAt + all - 1
  OBVIOUS
<1>3. R \in SUBSET S
  BY <1>1, <1>2
<1>4. PICK f, g : /\ f = RatesFrom(startAt, all, tier)
                  /\ g = RatesFrom(startAt, k, tier)
  OBVIOUS
<1>5. IsFiniteSet(S) /\ IsFiniteSet(R)
  BY <1>2, FS_Interval
<1>6. \A x \in S : f[x] \in Nat
  BY <1>2, <1>4, RatesTyped DEF RatesFrom
<1>7. SumFunctionOnSet(f, R) <= SumFunctionOnSet(f, S)
  BY <1>3, <1>5, <1>6, SumGrows
<1>8. IntValued(f, R) /\ IntValued(g, R) /\ Agree(f, g, R)
  <2>1. Agree(f, g, R)
    BY <1>2, <1>3, <1>4 DEF Agree, RatesFrom
  <2> QED
    BY <1>3, <1>6, <2>1 DEF Agree, IntValued
<1>9. SumFunctionOnSet(f, R) = SumFunctionOnSet(g, R)
  BY <1>5, <1>8, SumsAgree
<1>10. /\ SumFunction(f) = SumFunctionOnSet(f, S)
       /\ SumFunction(g) = SumFunctionOnSet(g, R)
  BY <1>2, <1>4 DEF SumFunction, RatesFrom
<1> QED
  BY <1>1, <1>4, <1>7, <1>9, <1>10

\* Only an extension changes a price there is, and as long as the tier stays
\* it adds minutes to the same sum.
LEMMA NoStepMakesCheaper ==
  SaleInv /\ [SaleNext]_saleVars =>
      [booking # NoBooking /\ booking'.tier = booking.tier =>
           booking'.price >= booking.price]_booking
<1> SUFFICES ASSUME SaleInv, SaleNext, booking # NoBooking, booking' # booking,
                    booking'.tier = booking.tier
             PROVE  booking'.price >= booking.price
  BY DEF saleVars
<1>1. PICK more \in 1 .. MaxMinutes : Extend(more)
  BY DEF SaleNext, Book, PatchPc
<1>2. PICK startAt, k, m, class :
          /\ startAt \in Nat /\ k \in Nat /\ m \in Nat
          /\ startAt = booking.startedAt /\ k = booking.minutes /\ m = more
          /\ class = booking.tier
  BY BoundAssumption DEF SaleInv
<1>3. /\ SaleInv' /\ booking'.startedAt = startAt /\ booking'.minutes = k + m
      /\ booking'.tier = class /\ tier = class
  BY <1>1, <1>2, ExtensionStep
<1>4. PICK x, y : /\ x = SumFunction(RatesFrom(startAt, k, class))
                  /\ y = SumFunction(RatesFrom(startAt, k + m, class))
  OBVIOUS
<1>5. x \in Int /\ booking.price = RoundToHours(x)
  BY <1>2, <1>4, PriceOfRates DEF Worth
<1>6. y \in Int /\ booking'.price = RoundToHours(y)
  <2>1. RatesFrom(startAt, k + m, class)' = RatesFrom(startAt, k + m, class)
    BY <1>1 DEF Extend, RatesFrom, RateAt, Holds
  <2>2. (Worth \in Int /\ booking.price = RoundToHours(Worth))'
    BY <1>3, PriceOfRates, PTL
  <2>3. Worth' = y
    BY <1>3, <1>4, <2>1 DEF Worth
  <2> QED
    BY <2>2, <2>3 DEF RoundToHours
<1>7. x <= y
  BY <1>2, <1>3, <1>4, RatesAddUp DEF SaleInv
<1> QED
  BY <1>5, <1>6, <1>7, RoundingGrows

-----------------------------------------------------------------------------
(***************************************************************************)
(* Payments.  That a request that was answered is paid rests on the        *)
(* payment that made its insert fail being there when it looks for it      *)
(* (Grounded); what the ledger has of a payment is told by how far its     *)
(* request came.                                                           *)
(***************************************************************************)

\* A request that found its key taken has a payment to find, and one that
\* inserted has its own; a row stands for a request that got that far.
Grounded ==
    /\ \A r \in Requests : request[r].step = "taken" =>
           \E p \in payment : request[p].key = request[r].key
    /\ \A r \in Requests : request[r].step = "inserted" => r \in payment
    /\ \A p \in payment : request[p].step \in {"inserted", "answered", "broken"}

\* The ledger has a payment once if its request went through, not at all if
\* it is on the way or broke: LedgerExplainsRevenue payment by payment.
ChargedByStep ==
    /\ \A p \in payment :
           charge[p] = IF request[p].step = "answered" THEN 1 ELSE 0
    /\ \A r \in Requests : r \notin payment => charge[r] = 0

PayInv ==
    /\ PayTypeOK
    /\ OnePaymentPerKey
    /\ AnsweredIsPaid
    /\ Grounded
    /\ ChargedByStep
    /\ IsFiniteSet(payment)

\* Before any request nothing is entered.
LEMMA PayInvInitially == PayInit => PayInv
<1> SUFFICES ASSUME PayInit PROVE PayInv
  OBVIOUS
<1>1. request \in [Requests -> Request]
  BY DEF PayInit, Request, Step
<1>2. \A r \in Requests : request[r].step = "idle"
  BY DEF PayInit
<1>3. PayTypeOK
  BY <1>1 DEF PayInit, PayTypeOK
<1>4. IsFiniteSet(payment)
  BY FS_EmptySet DEF PayInit
<1> QED
  BY <1>2, <1>3, <1>4 DEF PayInit, PayInv, OnePaymentPerKey, AnsweredIsPaid,
                    Grounded, ChargedByStep

\* A step of one request leaves the others and what each asked for alone.
LEMMA PayStepKeepsInv == PayInv /\ [PayNext]_payVars => PayInv'
<1> SUFFICES ASSUME PayInv, [PayNext]_payVars PROVE PayInv'
  OBVIOUS
<1> USE DEF PayInv
<1>1. CASE UNCHANGED payVars
  BY <1>1 DEF payVars, PayTypeOK, OnePaymentPerKey, AnsweredIsPaid, Grounded,
              ChargedByStep
<1>2. ASSUME NEW r \in Requests, CheckRequest(r)
      PROVE  PayInv'
  <2>1. PayTypeOK'
    BY <1>2 DEF CheckRequest, PayTypeOK, Request, Step
  <2>2. /\ \A q \in Requests : /\ request'[q].key = request[q].key
                               /\ request'[q].cafe = request[q].cafe
                               /\ request'[q].answer = request[q].answer
                               /\ q # r => request'[q].step = request[q].step
        /\ request'[r].step = "checked" /\ r \notin payment
    BY <1>2 DEF CheckRequest, PayTypeOK, Request, Grounded
  <2> QED
    BY <1>2, <2>1, <2>2 DEF CheckRequest, PayTypeOK, OnePaymentPerKey,
       AnsweredIsPaid, Grounded, ChargedByStep
<1>3. ASSUME NEW r \in Requests, InsertPayment(r)
      PROVE  PayInv'
  <2>0. r \notin payment /\ charge' = charge
    BY <1>3 DEF InsertPayment, Grounded
  <2>1. PayTypeOK'
    BY <1>3 DEF InsertPayment, PayTypeOK, Request, Step
  <2>2. \A q \in Requests : /\ request'[q].key = request[q].key
                            /\ request'[q].cafe = request[q].cafe
                            /\ request'[q].answer = request[q].answer
                            /\ q # r => request'[q].step = request[q].step
    BY <1>3 DEF InsertPayment, PayTypeOK, Request
  <2>3. CASE \E p \in payment : request[p].key = request[r].key
    <3>1. payment' = payment /\ request'[r].step = "taken"
      BY <1>3, <2>3 DEF InsertPayment, PayTypeOK, Request
    <3> QED
      BY <2>0, <2>1, <2>2, <2>3, <3>1 DEF PayTypeOK, OnePaymentPerKey,
         AnsweredIsPaid, Grounded, ChargedByStep
  <2>4. CASE ~ \E p \in payment : request[p].key = request[r].key
    <3>1. payment' = payment \cup {r} /\ request'[r].step = "inserted"
      BY <1>3, <2>4 DEF InsertPayment, PayTypeOK, Request
    <3>2. OnePaymentPerKey'
      BY <2>2, <2>4, <3>1 DEF PayTypeOK, OnePaymentPerKey
    <3>3. AnsweredIsPaid'
      BY <2>2, <3>1 DEF PayTypeOK, AnsweredIsPaid
    <3>4. Grounded' /\ ChargedByStep'
      BY <2>0, <2>2, <3>1 DEF PayTypeOK, Grounded, ChargedByStep
    <3>5. IsFiniteSet(payment')
      BY <3>1, FS_AddElement
    <3> QED
      BY <2>1, <3>2, <3>3, <3>4, <3>5
  <2> QED
    BY <2>3, <2>4
<1>4. ASSUME NEW r \in Requests, ReadPrior(r)
      PROVE  PayInv'
  <2> DEFINE prior == {p \in payment : /\ request[p].key = request[r].key
                                       /\ request[p].cafe = request[r].cafe}
  <2>1. PICK p \in IF prior = {} THEN {NoPayment} ELSE prior :
          request' = [request EXCEPT ![r].step = "answered", ![r].answer = p]
    BY <1>4 DEF ReadPrior
  <2>2. /\ request[r].step = "taken" /\ r \notin payment
        /\ payment' = payment /\ charge' = charge
    BY <1>4 DEF ReadPrior, Grounded
  <2>3. p \in Requests \cup {NoPayment}
    BY DEF PayTypeOK
  <2>4. PayTypeOK'
    <3>1. request[r] \in Request
      BY DEF PayTypeOK
    <3>2. [request[r] EXCEPT !.step = "answered"] \in Request
      BY <3>1 DEF Request, Step
    <3>3. [request[r] EXCEPT !.step = "answered", !.answer = p] \in Request
      BY <2>3, <3>2 DEF Request
    <3>4. request' = [request EXCEPT ![r] =
                         [request[r] EXCEPT !.step = "answered", !.answer = p]]
      BY <2>1
    <3> QED
      BY <2>2, <3>3, <3>4 DEF PayTypeOK
  <2>5. /\ \A q \in Requests : /\ request'[q].key = request[q].key
                               /\ request'[q].cafe = request[q].cafe
                               /\ q # r => request'[q] = request[q]
        /\ request'[r].step = "answered" /\ request'[r].answer = p
    BY <2>1 DEF PayTypeOK, Request
  <2>6. \E s \in payment :
            /\ request[s].key = request[r].key
            /\ IF request[s].cafe = request[r].cafe THEN p = s
               ELSE p = NoPayment
    <3>1. CASE prior = {}
      BY <2>2, <3>1 DEF Grounded
    <3>2. CASE prior # {}
      BY <3>2
    <3> QED
      BY <3>1, <3>2
  <2>7. AnsweredIsPaid'
    BY <2>2, <2>5, <2>6 DEF PayTypeOK, AnsweredIsPaid
  <2> QED
    BY <2>2, <2>4, <2>5, <2>7 DEF PayTypeOK, OnePaymentPerKey, Grounded,
       ChargedByStep
<1>5. ASSUME NEW r \in Requests, WriteCharge(r)
      PROVE  PayInv'
  <2>1. /\ r \in payment /\ payment' = payment
        /\ charge[r] = 0 /\ charge' = [charge EXCEPT ![r] = @ + 1]
    BY <1>5 DEF WriteCharge, Grounded, ChargedByStep
  <2>2. PayTypeOK'
    <3>1. request' \in [Requests -> Request]
      <4>1. request[r] \in Request
        BY DEF PayTypeOK
      <4>2. [request[r] EXCEPT !.step = "answered", !.answer = r] \in Request
        BY <4>1 DEF Request, Step
      <4>3. request' = [request EXCEPT ![r] =
                           [request[r] EXCEPT !.step = "answered", !.answer = r]]
        BY <1>5, <4>1 DEF WriteCharge, Request
      <4> QED
        BY <4>2, <4>3 DEF PayTypeOK
    <3>2. charge' \in [Requests -> Nat]
      BY <2>1 DEF PayTypeOK
    <3> QED
      BY <2>1, <3>1, <3>2 DEF PayTypeOK
  <2>3. /\ \A q \in Requests : /\ request'[q].key = request[q].key
                               /\ request'[q].cafe = request[q].cafe
                               /\ q # r => request'[q] = request[q]
        /\ request'[r].step = "answered" /\ request'[r].answer = r
    BY <1>5 DEF WriteCharge, PayTypeOK, Request
  <2>4. charge'[r] = 1 /\ \A q \in Requests : q # r => charge'[q] = charge[q]
    BY <2>1 DEF PayTypeOK
  <2> QED
    BY <2>1, <2>2, <2>3, <2>4 DEF PayTypeOK, OnePaymentPerKey, AnsweredIsPaid,
       Grounded, ChargedByStep
<1>6. ASSUME NEW r \in Requests, Break(r)
      PROVE  PayInv'
  <2>1. payment' = payment /\ charge' = charge
    BY <1>6 DEF Break
  <2>2. PayTypeOK'
    BY <1>6 DEF Break, PayTypeOK, Request, Step
  <2>3. /\ \A q \in Requests : /\ request'[q].key = request[q].key
                               /\ request'[q].cafe = request[q].cafe
                               /\ q # r => request'[q] = request[q]
        /\ request[r].step \in {"checked", "inserted", "taken"}
        /\ request'[r].step = "broken"
    BY <1>6 DEF Break, PayTypeOK, Request
  <2> QED
    BY <2>1, <2>2, <2>3 DEF PayTypeOK, OnePaymentPerKey, AnsweredIsPaid,
       Grounded, ChargedByStep
<1> QED
  BY <1>1, <1>2, <1>3, <1>4, <1>5, <1>6 DEF PayNext


\* Revenue and ledger are two sums over the payments of a cafe; they differ by
\* the terms that the second one lacks.
LEMMA LedgerOfCafe == PayInv => LedgerExplainsRevenue
<1> SUFFICES ASSUME PayInv, NEW c \in Cafes
             PROVE  Revenue(c) - Charged(c) =
                        SumFunctionOnSet(Paid, {p \in OfCafe(c) :
                            request[p].step \in {"inserted", "broken"}})
  BY DEF LedgerExplainsRevenue
<1> USE DEF PayInv
<1>1. PICK f, g, S : f = Paid /\ g = Entered /\ S = OfCafe(c)
  OBVIOUS
<1>2. PICK T : T = {p \in payment : request[p].step \in {"inserted", "broken"}}
  OBVIOUS
<1>3. S \subseteq payment /\ IsFiniteSet(S)
  BY <1>1, FS_Subset DEF OfCafe
<1>4. \A p \in payment : /\ request[p].amount \in Nat
                         /\ request[p].step \in {"inserted", "answered", "broken"}
                         /\ charge[p] = IF p \in T THEN 0 ELSE 1
  BY <1>2, AmountsAssumption
     DEF PayTypeOK, Request, Grounded, ChargedByStep
<1>5. \A p \in S : /\ f[p] \in Int
                   /\ g[p] = IF p \in T THEN 0 ELSE f[p]
  BY <1>1, <1>3, <1>4 DEF Paid, Entered
<1>6. IntValued(f, S) /\ IntValued(g, S)
  BY <1>5 DEF IntValued
<1>7. SumFunctionOnSet(f, S) - SumFunctionOnSet(g, S)
          = SumFunctionOnSet(f, S \cap T)
  BY <1>3, <1>5, <1>6, SumsDiffer
<1>8. S \cap T = {p \in OfCafe(c) : request[p].step \in {"inserted", "broken"}}
  BY <1>1, <1>2 DEF OfCafe
<1> QED
  BY <1>1, <1>7, <1>8 DEF Revenue, Charged

Inv == SaleInv /\ PayInv

\* Sales and payments leave each other alone.
THEOREM InvCorrect == Spec => []Inv
<1>1. Init => Inv
  BY SaleInvInitially, PayInvInitially DEF Init, Inv
<1>2. Inv /\ [Next]_<<saleVars, payVars>> => Inv'
  <2>1. [Next]_<<saleVars, payVars>> => [SaleNext]_saleVars /\ [PayNext]_payVars
    BY DEF Next
  <2> QED
    BY <2>1, SaleStepKeepsInv, PayStepKeepsInv DEF Inv
<1> QED
  BY <1>1, <1>2, PTL DEF Spec

\* The invariant says so.
LEMMA SalePriced == SaleInv => PriceIsSumOfRates
<1> SUFFICES ASSUME SaleInv PROVE PriceIsSumOfRates
  OBVIOUS
<1>1. booking.price = RoundToHours(Worth)
  BY PriceOfRates
<1> QED
  BY <1>1 DEF PriceIsSumOfRates, Worth, RatesFrom

\* In whatever order the database returns the rules, however often the session
\* was extended and the PC moved to another tier, it costs the rates of its
\* minutes at the tier it was last priced at, rounded once.
THEOREM PricedMinuteByMinute == Spec => []PriceIsSumOfRates
<1>1. Inv => PriceIsSumOfRates
  BY SalePriced DEF Inv
<1> QED
  BY <1>1, InvCorrect, PTL

\* The invariant says so, conjunct by conjunct.
LEMMA SaleExplained == SaleInv => BreakdownExplainsPrice
<1> SUFFICES ASSUME SaleInv PROVE BreakdownExplainsPrice
  OBVIOUS
<1>1. PICK b : b = booking.breakdown
  OBVIOUS
<1>2. /\ b \in Seq(Segment(rules))
      /\ Covers(b, booking.startedAt, booking.minutes, booking.tier)
  BY <1>1 DEF SaleInv
<1>3. booking.minutes = SumFunction([i \in DOMAIN b |-> b[i].minutes])
  BY <1>2 DEF Covers, Lengths
<1>4. b # <<>> => b[1].from = booking.startedAt
  <2>1. PICK V : V = Segment(rules)
    OBVIOUS
  <2>2. b # <<>> => Len(b) > 0
    BY <1>2, <2>1, EmptySeq, LenProperties
  <2> QED
    BY <1>2, <2>2 DEF Covers
<1>5. \A i \in 1 .. Len(b) - 1 : /\ b[i + 1].from = b[i].from + b[i].minutes
                                 /\ b[i + 1].rule # b[i].rule
  BY <1>2 DEF Covers, Chained
<1>6. booking.price = RoundToHours(RateMinutes(b))
  BY <1>1 DEF SaleInv
<1> QED
  BY <1>1, <1>3, <1>4, <1>5, <1>6 DEF BreakdownExplainsPrice

\* The breakdown that is shown adds up to the price and to the minutes, and
\* runs without gap from the start of the session.
THEOREM PriceExplained == Spec => []BreakdownExplainsPrice
<1>1. Inv => BreakdownExplainsPrice
  BY SaleExplained DEF Inv
<1> QED
  BY <1>1, InvCorrect, PTL

\* No extension makes a session cheaper that is priced at the same tier.
THEOREM NeverCheaper == Spec => PriceNeverDrops
<1>1. Inv /\ [Next]_<<saleVars, payVars>> =>
          [booking # NoBooking /\ booking'.tier = booking.tier =>
               booking'.price >= booking.price]_booking
  <2>1. [Next]_<<saleVars, payVars>> => [SaleNext]_saleVars
    BY DEF Next
  <2> QED
    BY <2>1, NoStepMakesCheaper DEF Inv
<1> QED
  BY <1>1, InvCorrect, PTL DEF Spec, PriceNeverDrops

\* The dashboard's revenue is the ledger's, but for the payments whose request
\* is between the two statements or broke there.
THEOREM RevenueExplained == Spec => []LedgerExplainsRevenue
<1>1. Inv => LedgerExplainsRevenue
  BY LedgerOfCafe DEF Inv
<1> QED
  BY <1>1, InvCorrect, PTL

\* POST /payments is typed as its tables are.
THEOREM PayTypeCorrect == Spec => []PayTypeOK
<1>1. Inv => PayTypeOK
  BY DEF Inv, PayInv
<1> QED
  BY <1>1, InvCorrect, PTL

\* Whatever requests are repeated and race, a key has one payment.
THEOREM PaidOnce == Spec => []OnePaymentPerKey
<1>1. Inv => OnePaymentPerKey
  BY DEF Inv, PayInv
<1> QED
  BY <1>1, InvCorrect, PTL

\* A request that was answered stands for one payment, in the books of its
\* cafe unless another cafe took the key.
THEOREM AnswersArePaid == Spec => []AnsweredIsPaid
<1>1. Inv => AnsweredIsPaid
  BY DEF Inv, PayInv
<1> QED
  BY <1>1, InvCorrect, PTL

\* No payment has two ledger rows, and one has none only if its request is on
\* the way or broke.
THEOREM ChargedOnce == Spec => []ChargedByStep
<1>1. Inv => ChargedByStep
  BY DEF Inv, PayInv
<1> QED
  BY <1>1, InvCorrect, PTL
=============================================================================
