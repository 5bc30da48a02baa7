----------------------------- MODULE FiniteSums -----------------------------
(***************************************************************************)
(* Facts about SumFunction, the sum of a function over a finite domain,    *)
(* that the proofs about money rest on.  The library defines the sum by    *)
(* recursion on the subsets of the domain, taking elements in an order it  *)
(* does not say; these lemmas give what any order gives.                   *)
(*                                                                         *)
(* Induction is written without predicate variables: a set of numbers that *)
(* holds 0 and is closed under successor is Nat, because a least           *)
(* counterexample exists (WFMin of WellFoundedInduction).                  *)
(***************************************************************************)
EXTENDS Integers, Functions, FiniteSets, FiniteSetTheorems, WellFoundedInduction, TLAPS

Below == {p \in Nat \X Nat : p[1] < p[2]}

LEMMA BelowIsWellFounded == IsWellFoundedOn(Below, Nat)
  BY NatLessThanWellFounded DEF OpToRel, Below

LEMMA BelowIs == \A m, n \in Nat : <<m, n>> \in Below <=> m < n
<1>1. ASSUME NEW m \in Nat, NEW n \in Nat PROVE <<m, n>> \in Below <=> m < n
  <2>1. <<m, n>> \in Nat \X Nat /\ <<m, n>>[1] = m /\ <<m, n>>[2] = n
    OBVIOUS
  <2>2. QED
    BY <2>1 DEF Below
<1>2. QED
  BY <1>1

LEMMA SmallestOf ==
  ASSUME NEW T \in SUBSET Nat, T # {}
  PROVE  \E n \in T : \A m \in T : n <= m
<1>1. PICK n \in T : \A m \in T : ~ <<m, n>> \in Below
  BY WFMin, BelowIsWellFounded
<1>2. ASSUME NEW m \in T PROVE n <= m
  <2>1. <<m, n>> \notin Below
    BY <1>1
  <2>2. ~(m < n)
    BY <2>1, BelowIs
  <2>3. QED
    BY <2>2
<1>3. QED
  BY <1>2

\* Induction on the natural numbers.
LEMMA ByInduction ==
  ASSUME NEW S \in SUBSET Nat, 0 \in S, \A n \in S : n + 1 \in S
  PROVE  S = Nat
<1>1. SUFFICES ASSUME S # Nat PROVE FALSE
  OBVIOUS
<1>2. PICK n \in Nat \ S : \A m \in Nat \ S : n <= m
  <2>1. Nat \ S # {}
    BY <1>1
  <2>2. QED
    BY <2>1, SmallestOf
<1>3. n - 1 \in S
  BY <1>2
<1>4. QED
  BY <1>2, <1>3

\* A family of finite sets that is not empty has a member of least cardinality.
LEMMA SmallestSet ==
  ASSUME NEW C, C # {}, \A s \in C : IsFiniteSet(s)
  PROVE  \E s \in C : \A t \in C : Cardinality(s) <= Cardinality(t)
<1> DEFINE T == {Cardinality(s) : s \in C}
<1>1. T \in SUBSET Nat /\ T # {}
  BY FS_CardinalityType
<1>2. PICK n \in T : \A m \in T : n <= m
  BY <1>1, SmallestOf
<1>3. QED
  BY <1>2

\* Induction on the subsets of a finite set.
LEMMA BySubsets ==
  ASSUME NEW S, IsFiniteSet(S), NEW C \in SUBSET SUBSET S, {} \in C,
         \A s \in C : \A x \in S \ s : s \cup {x} \in C
  PROVE  C = SUBSET S
<1>1. SUFFICES ASSUME (SUBSET S) \ C # {} PROVE FALSE
  OBVIOUS
<1> DEFINE D == (SUBSET S) \ C
<1>2. \A s \in D : IsFiniteSet(s)
  BY FS_Subset
<1>3. PICK s \in D : \A t \in D : Cardinality(s) <= Cardinality(t)
  <2> HIDE DEF D
  <2>1. D # {}
    BY <1>1 DEF D
  <2>2. QED
    BY <1>2, <2>1, SmallestSet
<1>4. PICK x \in s : TRUE
  <2>1. s # {}
    OBVIOUS
  <2>2. QED
    BY <2>1
<1>5. IsFiniteSet(s) /\ Cardinality(s) \in Nat /\ Cardinality(s \ {x}) = Cardinality(s) - 1
  BY <1>2, <1>4, FS_RemoveElement, FS_CardinalityType
<1>6. s \ {x} \in C
  BY <1>3, <1>5
<1>7. (s \ {x}) \cup {x} = s /\ x \in S \ (s \ {x})
  BY <1>4
<1>8. QED
  BY <1>6, <1>7

-----------------------------------------------------------------------------
(***************************************************************************)
(* Folds.  A fold over a finite set S takes, by pick, some element out of  *)
(* what is left and combines it, by step, with the fold over the others;   *)
(* pick and step are functions here, so that the lemma can be cited.       *)
(***************************************************************************)
Unfolds(g, base, pick, step, S) ==
    \A s \in SUBSET S : g[s] = IF s = {} THEN base ELSE step[pick[s]][g[s \ {pick[s]}]]

PicksFrom(pick, S) == \A s \in SUBSET S : s # {} => pick[s] \in s

\* Some function obeys the recursion: it is built up from the sets of at most n
\* elements to those of one more.
LEMMA FoldExists ==
  ASSUME NEW S, IsFiniteSet(S), NEW V, NEW base \in V, NEW pick, NEW step \in [S -> [V -> V]],
         PicksFrom(pick, S)
  PROVE  \E g \in [SUBSET S -> V] : Unfolds(g, base, pick, step, S)
<1> DEFINE UpTo(g, n) ==
             \A s \in SUBSET S : Cardinality(s) <= n =>
                 g[s] = IF s = {} THEN base ELSE step[pick[s]][g[s \ {pick[s]}]]
           N == {n \in Nat : \E g \in [SUBSET S -> V] : UpTo(g, n)}
<1>1. \A s \in SUBSET S : /\ IsFiniteSet(s) /\ Cardinality(s) \in Nat
                          /\ Cardinality(s) <= Cardinality(S)
                          /\ Cardinality(s) = 0 => s = {}
  BY FS_Subset, FS_CardinalityType, FS_EmptySet
<1>2. \A s \in SUBSET S : s # {} =>
          /\ pick[s] \in S
          /\ s \ {pick[s]} \in SUBSET S
          /\ Cardinality(s \ {pick[s]}) = Cardinality(s) - 1
  BY <1>1, FS_RemoveElement DEF PicksFrom
<1>3. 0 \in N
  <2> DEFINE g == [s \in SUBSET S |-> base]
  <2>1. g \in [SUBSET S -> V] /\ UpTo(g, 0)
    BY <1>1
  <2> HIDE DEF UpTo, g
  <2>2. QED
    BY <2>1
<1>4. ASSUME NEW n \in N PROVE n + 1 \in N
  <2>1. n \in Nat /\ Cardinality({}) <= n
    BY FS_EmptySet
  <2>2. PICK g \in [SUBSET S -> V] : UpTo(g, n)
    OBVIOUS
  <2> DEFINE h == [s \in SUBSET S |-> IF Cardinality(s) <= n THEN g[s]
                                      ELSE step[pick[s]][g[s \ {pick[s]}]]]
  <2>3. \A s \in SUBSET S : Cardinality(s) <= n => h[s] = g[s]
    OBVIOUS
  <2>4. \A s \in SUBSET S : ~(Cardinality(s) <= n) => h[s] = step[pick[s]][g[s \ {pick[s]}]]
    OBVIOUS
  <2>5. h \in [SUBSET S -> V]
    <3>1. \A s \in SUBSET S : ~(Cardinality(s) <= n) => s # {}
      BY <2>1
    <3>2. \A s \in SUBSET S : s # {} => step[pick[s]][g[s \ {pick[s]}]] \in V
      BY <1>2
    <3>3. QED
      BY <3>1, <3>2
  <2> HIDE DEF h
  <2>6. ASSUME NEW s \in SUBSET S, Cardinality(s) <= n + 1, s # {}
        PROVE  h[s] = step[pick[s]][h[s \ {pick[s]}]]
    <3>1. s \ {pick[s]} \in SUBSET S /\ Cardinality(s \ {pick[s]}) <= n
      BY <1>1, <1>2, <2>1, <2>6
    <3>2. h[s \ {pick[s]}] = g[s \ {pick[s]}]
      BY <2>3, <3>1
    <3>3. CASE Cardinality(s) <= n
      BY <2>2, <2>3, <2>6, <3>2, <3>3
    <3>4. CASE ~(Cardinality(s) <= n)
      BY <2>4, <3>2, <3>4
    <3>5. QED
      BY <3>3, <3>4
  <2>7. h[{}] = base
    BY <2>1, <2>2, <2>3
  <2>8. UpTo(h, n + 1)
    BY <2>6, <2>7
  <2> HIDE DEF UpTo
  <2>9. QED
    BY <2>1, <2>5, <2>8
<1>5. N = Nat
  <2> HIDE DEF N
  <2>1. N \in SUBSET Nat
    BY DEF N
  <2>2. QED
    BY <1>3, <1>4, <2>1, ByInduction
<1>6. PICK g \in [SUBSET S -> V] : UpTo(g, Cardinality(S))
  BY <1>5, FS_CardinalityType
<1>7. Unfolds(g, base, pick, step, S)
  BY <1>1, <1>6 DEF Unfolds
<1>8. QED
  BY <1>7

-----------------------------------------------------------------------------
(***************************************************************************)
(* Sums.  SumsOf(f, S) is the function on the subsets of S that            *)
(* SumFunction applies to S; AddsUp says that a function obeys its         *)
(* recursion.                                                              *)
(***************************************************************************)
Pick(s) == CHOOSE x \in s : TRUE

SumsOf(f, S) ==
    CHOOSE g : g = [s \in SUBSET S |-> IF s = {} THEN 0 ELSE f[Pick(s)] + g[s \ {Pick(s)}]]

AddsUp(g, f, S) ==
    /\ g \in [SUBSET S -> Int]
    /\ \A s \in SUBSET S : g[s] = IF s = {} THEN 0 ELSE f[Pick(s)] + g[s \ {Pick(s)}]

LEMMA SumIsOfSubsets ==
  ASSUME NEW f
  PROVE  SumFunction(f) = SumsOf(f, DOMAIN f)[DOMAIN f]
  BY DEF SumFunction, SumFunctionOnSet, FoldFunctionOnSet, MapThenFoldSet, SumsOf, Pick

LEMMA PickIsIn == \A s : s # {} => Pick(s) \in s
  BY DEF Pick

LEMMA SumsExist ==
  ASSUME NEW S, IsFiniteSet(S), NEW f \in [S -> Int]
  PROVE  \E g : AddsUp(g, f, S)
<1> DEFINE pick == [s \in SUBSET S |-> Pick(s)]
           step == [x \in S |-> [n \in Int |-> f[x] + n]]
<1>1. PicksFrom(pick, S) /\ \A s \in SUBSET S : pick[s] = Pick(s)
  BY PickIsIn DEF PicksFrom
<1>2. step \in [S -> [Int -> Int]] /\ \A x \in S : \A n \in Int : step[x][n] = f[x] + n
  OBVIOUS
<1> HIDE DEF pick, step
<1>3. PICK g \in [SUBSET S -> Int] : Unfolds(g, 0, pick, step, S)
  <2> DEFINE V == Int
             zero == 0
  <2>1. zero \in V /\ step \in [S -> [V -> V]]
    BY <1>2
  <2> HIDE DEF V, zero
  <2>2. \E g \in [SUBSET S -> V] : Unfolds(g, zero, pick, step, S)
    BY <1>1, <2>1, FoldExists
  <2>3. QED
    BY <2>2 DEF V, zero
<1>4. ASSUME NEW s \in SUBSET S, s # {} PROVE g[s] = f[Pick(s)] + g[s \ {Pick(s)}]
  <2>1. Pick(s) \in S /\ g[s \ {Pick(s)}] \in Int
    BY <1>4, PickIsIn
  <2>2. g[s] = step[Pick(s)][g[s \ {Pick(s)}]]
    BY <1>1, <1>3, <1>4 DEF Unfolds
  <2>3. QED
    BY <1>2, <2>1, <2>2
<1>5. g[{}] = 0
  BY <1>3 DEF Unfolds
<1>6. AddsUp(g, f, S)
  BY <1>4, <1>5 DEF AddsUp
<1>7. QED
  BY <1>6

LEMMA SumsAddUp ==
  ASSUME NEW S, IsFiniteSet(S), NEW f \in [S -> Int]
  PROVE  AddsUp(SumsOf(f, S), f, S)
<1>1. PICK g : AddsUp(g, f, S)
  BY SumsExist
<1>2. g = [s \in SUBSET S |-> IF s = {} THEN 0 ELSE f[Pick(s)] + g[s \ {Pick(s)}]]
  BY <1>1 DEF AddsUp
<1> DEFINE h == SumsOf(f, S)
<1>3. h = [s \in SUBSET S |-> IF s = {} THEN 0 ELSE f[Pick(s)] + h[s \ {Pick(s)}]]
  BY <1>2 DEF SumsOf
<1> HIDE DEF h
<1>4. \A s \in SUBSET S : h[s] \in Int
  <2>1. SUFFICES ASSUME {s \in SUBSET S : h[s] \notin Int} # {} PROVE FALSE
    OBVIOUS
  <2> DEFINE D == {s \in SUBSET S : h[s] \notin Int}
  <2>2. PICK s \in D : \A t \in D : Cardinality(s) <= Cardinality(t)
    <3>1. D # {} /\ \A t \in D : IsFiniteSet(t)
      BY <2>1, FS_Subset
    <3> HIDE DEF D
    <3>2. QED
      BY <3>1, SmallestSet
  <2>3. s # {}
    BY <1>3
  <2>4. Pick(s) \in s /\ f[Pick(s)] \in Int /\ s \ {Pick(s)} \in SUBSET S
    BY <2>3, PickIsIn
  <2>5. Cardinality(s \ {Pick(s)}) = Cardinality(s) - 1 /\ Cardinality(s) \in Nat
    BY <2>4, FS_Subset, FS_RemoveElement, FS_CardinalityType
  <2>6. h[s \ {Pick(s)}] \in Int
    BY <2>2, <2>4, <2>5
  <2>7. h[s] = f[Pick(s)] + h[s \ {Pick(s)}]
    BY <1>3, <2>3
  <2>8. QED
    BY <2>4, <2>6, <2>7
<1>5. QED
  BY <1>3, <1>4 DEF AddsUp, h

\* The order in which elements are taken does not matter, within one fold ...
AnyFirst(g, f, S) == \A s \in SUBSET S : \A x \in s : g[s] = f[x] + g[s \ {x}]

LEMMA AnyElementFirst ==
  ASSUME NEW S, IsFiniteSet(S), NEW f \in [S -> Int], NEW g, AddsUp(g, f, S)
  PROVE  AnyFirst(g, f, S)
<1> DEFINE D == {s \in SUBSET S : ~ \A x \in s : g[s] = f[x] + g[s \ {x}]}
<1>1. SUFFICES ASSUME D # {} PROVE FALSE
  BY DEF AnyFirst
<1>2. \A s \in SUBSET S : IsFiniteSet(s) /\ Cardinality(s) \in Nat /\ g[s] \in Int
  BY FS_Subset, FS_CardinalityType DEF AddsUp
<1>3. PICK s \in D : \A t \in D : Cardinality(s) <= Cardinality(t)
  <2>1. \A t \in D : IsFiniteSet(t)
    BY <1>2
  <2> HIDE DEF D
  <2>2. QED
    BY <1>1, <2>1, SmallestSet
<1>4. PICK x \in s : ~(g[s] = f[x] + g[s \ {x}])
  OBVIOUS
<1> DEFINE c == Pick(s)
           t == s \ {c}
           u == s \ {x}
           r == s \ {c, x}
<1>5. c \in s /\ g[s] = f[c] + g[t]
  BY <1>4, PickIsIn DEF AddsUp
<1>6. c # x
  BY <1>4, <1>5
<1>7. s \in SUBSET S /\ t \in SUBSET S /\ u \in SUBSET S /\ r \in SUBSET S
  OBVIOUS
<1>8. Cardinality(t) = Cardinality(s) - 1 /\ Cardinality(u) = Cardinality(s) - 1
  BY <1>2, <1>4, <1>5, FS_RemoveElement
<1>9. t \notin D /\ u \notin D
  <2> HIDE DEF D
  <2>1. Cardinality(s) \in Nat
    BY <1>2, <1>7
  <2>2. QED
    BY <1>3, <1>8, <2>1
<1>10. g[t] = f[x] + g[t \ {x}] /\ g[u] = f[c] + g[u \ {c}]
  BY <1>4, <1>5, <1>6, <1>7, <1>9
<1>11. t \ {x} = r /\ u \ {c} = r
  OBVIOUS
<1>12. f[x] \in Int /\ f[c] \in Int /\ g[r] \in Int
  BY <1>2, <1>4, <1>5, <1>7
<1> HIDE DEF c, t, u, r, D
<1>13. g[s] = f[c] + (f[x] + g[r]) /\ g[u] = f[c] + g[r]
  BY <1>5, <1>10, <1>11
<1>14. QED
  BY <1>4, <1>12, <1>13 DEF u

\* ... and the folds over a set and over a larger one agree.
LEMMA FoldsAgree ==
  ASSUME NEW S, IsFiniteSet(S), NEW f \in [S -> Int], NEW g, AddsUp(g, f, S),
         NEW T \in SUBSET S, NEW e \in [T -> Int], \A x \in T : e[x] = f[x],
         NEW h, AddsUp(h, e, T)
  PROVE  \A s \in SUBSET T : g[s] = h[s]
<1>1. IsFiniteSet(T)
  BY FS_Subset
<1>0. AnyFirst(g, f, S) /\ AnyFirst(h, e, T)
  BY <1>1, AnyElementFirst
<1> DEFINE C == {s \in SUBSET T : g[s] = h[s]}
<1>2. {} \in C
  BY DEF AddsUp
<1>3. ASSUME NEW s \in C, NEW x \in T \ s PROVE s \cup {x} \in C
  <2>1. (s \cup {x}) \ {x} = s /\ s \cup {x} \in SUBSET T /\ s \cup {x} \in SUBSET S
    OBVIOUS
  <2>2. g[s \cup {x}] = f[x] + g[s]
    BY <1>0, <2>1 DEF AnyFirst
  <2>3. h[s \cup {x}] = e[x] + h[s]
    <3> DEFINE U == s \cup {x}
    <3>1. U \in SUBSET T /\ x \in U /\ U \ {x} = s
      BY <2>1
    <3> HIDE DEF U
    <3>2. h[U] = e[x] + h[U \ {x}]
      BY <1>0, <3>1 DEF AnyFirst
    <3>3. QED
      BY <3>1, <3>2 DEF U
  <2>4. QED
    BY <2>1, <2>2, <2>3
<1>4. C = SUBSET T
  <2>1. C \in SUBSET SUBSET T
    OBVIOUS
  <2> HIDE DEF C
  <2>2. QED
    BY <1>1, <1>2, <1>3, <2>1, BySubsets
<1>7. QED
  BY <1>4

-----------------------------------------------------------------------------
(***************************************************************************)
(* What is used of all this: the sum over a part T of a domain, written    *)
(* SumOn(f, T) here, is 0 over no element and takes in elements one by one.  *)
(***************************************************************************)
SumOn(f, T) == SumFunction([x \in T |-> f[x]])

LEMMA SumOfNone == ASSUME NEW f PROVE SumOn(f, {}) = 0
<1> DEFINE e == [x \in {} |-> f[x]]
<1>1. e \in [{} -> Int] /\ DOMAIN e = {} /\ IsFiniteSet({})
  BY FS_EmptySet
<1>2. AddsUp(SumsOf(e, {}), e, {})
  BY <1>1, SumsAddUp
<1>3. SumFunction(e) = SumsOf(e, {})[{}]
  BY <1>1, SumIsOfSubsets
<1>4. QED
  BY <1>2, <1>3 DEF AddsUp, SumOn

LEMMA SumOfOneMore ==
  ASSUME NEW S, IsFiniteSet(S), NEW f \in [S -> Int], NEW T \in SUBSET S
  PROVE  /\ SumOn(f, T) \in Int
         /\ \A x \in S \ T : SumOn(f, T \cup {x}) = SumOn(f, T) + f[x]
<1> DEFINE g == SumsOf(f, S)
           On(U) == [x \in U |-> f[x]]
<1>1. AddsUp(g, f, S)
  BY SumsAddUp
<1>2. \A U \in SUBSET S : SumOn(f, U) = g[U]
  <2> SUFFICES ASSUME NEW U \in SUBSET S PROVE SumOn(f, U) = g[U]
    OBVIOUS
  <2>1. IsFiniteSet(U) /\ On(U) \in [U -> Int] /\ DOMAIN On(U) = U
        /\ \A x \in U : On(U)[x] = f[x]
    BY FS_Subset
  <2> HIDE DEF On
  <2>2. AddsUp(SumsOf(On(U), U), On(U), U)
    BY <2>1, SumsAddUp
  <2>3. SumOn(f, U) = SumsOf(On(U), U)[U]
    BY <2>1, SumIsOfSubsets DEF SumOn, On
  <2>4. g[U] = SumsOf(On(U), U)[U]
    <3> HIDE DEF g
    <3>1. QED
      BY <1>1, <2>1, <2>2, FoldsAgree
  <2>5. QED
    BY <2>3, <2>4
<1> HIDE DEF g
<1>3. ASSUME NEW x \in S \ T PROVE SumOn(f, T \cup {x}) = SumOn(f, T) + f[x]
  <2>1. (T \cup {x}) \ {x} = T /\ T \cup {x} \in SUBSET S
    OBVIOUS
  <2>2. g[T \cup {x}] = f[x] + g[T]
    BY <1>1, <2>1, AnyElementFirst DEF AnyFirst
  <2>3. g[T] \in Int /\ f[x] \in Int
    BY <1>1 DEF AddsUp
  <2>4. QED
    BY <1>2, <2>1, <2>2, <2>3
<1>4. QED
  BY <1>1, <1>2, <1>3 DEF AddsUp

LEMMA SumIsInt ==
  ASSUME NEW S, IsFiniteSet(S), NEW f \in [S -> Int]
  PROVE  \A T \in SUBSET S : SumOn(f, T) \in Int
  BY SumOfOneMore

\* What holds of every element holds of the sums: bounds on either side ...
LEMMA SumIsBounded ==
  ASSUME NEW S, IsFiniteSet(S), NEW f \in [S -> Int], NEW m \in [S -> Int],
         \A x \in S : -m[x] <= f[x] /\ f[x] <= m[x]
  PROVE  \A T \in SUBSET S : -SumOn(m, T) <= SumOn(f, T) /\ SumOn(f, T) <= SumOn(m, T)
<1> DEFINE C == {T \in SUBSET S : -SumOn(m, T) <= SumOn(f, T) /\ SumOn(f, T) <= SumOn(m, T)}
<1>1. {} \in C
  BY SumOfNone
<1>2. ASSUME NEW T \in C, NEW x \in S \ T PROVE T \cup {x} \in C
  <2>1. /\ SumOn(f, T \cup {x}) = SumOn(f, T) + f[x] /\ SumOn(f, T) \in Int /\ f[x] \in Int
        /\ SumOn(m, T \cup {x}) = SumOn(m, T) + m[x] /\ SumOn(m, T) \in Int /\ m[x] \in Int
    BY SumOfOneMore
  <2>2. QED
    BY <2>1
<1>3. C = SUBSET S
  <2>1. C \in SUBSET SUBSET S
    OBVIOUS
  <2> HIDE DEF C
  <2>2. QED
    BY <1>1, <1>2, <2>1, BySubsets
<1>4. QED
  BY <1>3

\* ... and opposites.
LEMMA SumOfOpposites ==
  ASSUME NEW S, IsFiniteSet(S), NEW f \in [S -> Int], NEW e \in [S -> Int],
         \A x \in S : e[x] = -f[x]
  PROVE  \A T \in SUBSET S : SumOn(e, T) = -SumOn(f, T)
<1> DEFINE C == {T \in SUBSET S : SumOn(e, T) = -SumOn(f, T)}
<1>1. {} \in C
  BY SumOfNone
<1>2. ASSUME NEW T \in C, NEW x \in S \ T PROVE T \cup {x} \in C
  <2>1. /\ SumOn(f, T \cup {x}) = SumOn(f, T) + f[x] /\ SumOn(f, T) \in Int /\ f[x] \in Int
        /\ SumOn(e, T \cup {x}) = SumOn(e, T) + e[x] /\ SumOn(e, T) \in Int /\ e[x] \in Int
    BY SumOfOneMore
  <2>2. QED
    BY <2>1
<1>3. C = SUBSET S
  <2>1. C \in SUBSET SUBSET S
    OBVIOUS
  <2> HIDE DEF C
  <2>2. QED
    BY <1>1, <1>2, <2>1, BySubsets
<1>4. QED
  BY <1>3

\* A sum of numbers none of which is negative grows with the set it is over.
LEMMA SumGrows ==
  ASSUME NEW S, IsFiniteSet(S), NEW m \in [S -> Nat]
  PROVE  \A T \in SUBSET S : SumOn(m, T) <= SumOn(m, S)
<1> SUFFICES ASSUME NEW T \in SUBSET S PROVE SumOn(m, T) <= SumOn(m, S)
  OBVIOUS
<1> DEFINE C == {U \in SUBSET (S \ T) : SumOn(m, T) <= SumOn(m, T \cup U)}
<1>0. m \in [S -> Int] /\ IsFiniteSet(S \ T)
  BY FS_Subset
<1>1. {} \in C
  <2>1. T \cup {} = T /\ SumOn(m, T) \in Int
    BY <1>0, SumIsInt
  <2>2. QED
    BY <2>1
<1>2. ASSUME NEW U \in C, NEW x \in (S \ T) \ U PROVE U \cup {x} \in C
  <2>1. T \cup (U \cup {x}) = (T \cup U) \cup {x} /\ T \cup U \in SUBSET S /\ x \in S \ (T \cup U)
    OBVIOUS
  <2>2. SumOn(m, (T \cup U) \cup {x}) = SumOn(m, T \cup U) + m[x]
    <3> DEFINE W == T \cup U
    <3>1. W \in SUBSET S /\ x \in S \ W
      BY <2>1
    <3> HIDE DEF W
    <3>2. SumOn(m, W \cup {x}) = SumOn(m, W) + m[x]
      BY <1>0, <3>1, SumOfOneMore
    <3>3. QED
      BY <3>2 DEF W
  <2>3. SumOn(m, T) \in Int /\ SumOn(m, T \cup U) \in Int /\ m[x] \in Nat
    BY <1>0, <2>1, SumIsInt
  <2>4. QED
    BY <2>1, <2>2, <2>3
<1>3. C = SUBSET (S \ T)
  <2>1. C \in SUBSET SUBSET (S \ T)
    OBVIOUS
  <2> HIDE DEF C
  <2>2. QED
    BY <1>0, <1>1, <1>2, <2>1, BySubsets
<1>4. T \cup (S \ T) = S
  OBVIOUS
<1>5. QED
  BY <1>3, <1>4
=============================================================================
