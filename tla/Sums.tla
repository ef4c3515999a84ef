-------------------------------- MODULE Sums --------------------------------
(***************************************************************************)
(* What SumFunctionOnSet of the community modules computes: its definition *)
(* takes the elements of a finite set in an arbitrary order, and these     *)
(* lemmas say that the order does not matter, and how a sum changes when an*)
(* element is added or left out.  A set of sets or of numbers stands for   *)
(* the hypothesis of each induction.                                       *)
(***************************************************************************)
EXTENDS Integers, Functions, FiniteSetTheorems, WellFoundedInduction, TLAPS

ChosenOf(s) == CHOOSE x \in s : TRUE

\* The recursion that MapThenFoldSet unfolds to for a sum.
IsSum(h, f, S) ==
  h = [s \in SUBSET S |-> IF s = {} THEN 0 ELSE f[ChosenOf(s)] + h[s \ {ChosenOf(s)}]]

\* Induction over the naturals, for a set of them.
LEMMA NaturalsInductively ==
  ASSUME NEW N \in SUBSET Nat, \A n \in Nat : (\A m \in Nat : m < n => m \in N) => n \in N
  PROVE  N = Nat
<1> SUFFICES ASSUME Nat \ N # {} PROVE FALSE
  OBVIOUS
<1> DEFINE less == {ss \in Nat \X Nat : ss[1] < ss[2]}
<1>1. IsWellFoundedOn(less, Nat)
  <2>1. \A f \in [Nat -> Nat] : ~\A n \in Nat : f[n + 1] < f[n]
    <3> SUFFICES ASSUME NEW f \in [Nat -> Nat], \A n \in Nat : f[n + 1] < f[n]
                 PROVE  FALSE
      OBVIOUS
    <3>1. \A n \in Nat : f[n] \in Nat /\ f[n + 1] \in Nat
      OBVIOUS
    <3> QED BY <3>1, NatLessThanWellFounded, Zenon DEF IsWellFoundedOn, OpToRel
  <2> QED BY <2>1 DEF IsWellFoundedOn
<1>2. PICK m \in Nat \ N : \A n \in Nat \ N : <<n, m>> \notin less
  BY <1>1, WFMin
<1>3. ASSUME NEW n \in Nat, n < m PROVE n \in N
  <2>1. <<n, m>> \in less
    BY <1>3, <<n, m>>[1] = n, <<n, m>>[2] = m, Zenon
  <2> QED BY <1>2, <2>1
<1> QED BY <1>2, <1>3

\* Induction over the subsets of a finite set, for a set of them.
LEMMA SubsetsInductively ==
  ASSUME NEW S, IsFiniteSet(S), NEW P \in SUBSET SUBSET S,
         \A s \in SUBSET S : (\A x \in s : s \ {x} \in P) => s \in P
  PROVE  P = SUBSET S
<1> DEFINE N == {n \in Nat : \A s \in SUBSET S : Cardinality(s) = n => s \in P}
<1>1. N \in SUBSET Nat
  OBVIOUS
<1>2. \A s \in SUBSET S : IsFiniteSet(s) /\ Cardinality(s) \in Nat
  BY FS_Subset, FS_CardinalityType
<1>3. ASSUME NEW n \in Nat, \A m \in Nat : m < n => m \in N PROVE n \in N
  <2>1. ASSUME NEW s \in SUBSET S, Cardinality(s) = n PROVE s \in P
    <3>1. ASSUME NEW x \in s PROVE s \ {x} \in P
      <4>1. Cardinality(s \ {x}) = n - 1 /\ s \ {x} \in SUBSET S
        BY <1>2, <2>1, FS_RemoveElement
      <4>2. n - 1 \in Nat /\ n - 1 < n
        BY <1>2, <4>1
      <4> QED BY <1>3, <4>1, <4>2
    <3> QED BY <3>1
  <2> QED BY <2>1
<1>4. N = Nat
  <2> HIDE DEF N
  <2> QED BY <1>1, <1>3, NaturalsInductively
<1> QED BY <1>2, <1>4

\* The sum is the recursion that was chosen, at the whole set.
LEMMA SumIsChosen ==
  ASSUME NEW f, NEW S
  PROVE  SumFunctionOnSet(f, S) = (CHOOSE h : IsSum(h, f, S))[S]
BY Zenon DEF SumFunctionOnSet, FoldFunctionOnSet, MapThenFoldSet, IsSum, ChosenOf

\* A non-empty set has its chosen element.
LEMMA ChosenIsMember == ASSUME NEW s, s # {} PROVE ChosenOf(s) \in s
BY DEF ChosenOf

\* The recursion has a solution over a finite set: one for the subsets of at most
\* n elements extends to those of n + 1.
LEMMA SumExists ==
  ASSUME NEW S, IsFiniteSet(S), NEW f
  PROVE  \E h : IsSum(h, f, S)
<1> DEFINE Upto(n) == {s \in SUBSET S : Cardinality(s) <= n}
           Body(h, s) == IF s = {} THEN 0 ELSE f[ChosenOf(s)] + h[s \ {ChosenOf(s)}]
           N == {n \in Nat : \E h : h = [s \in Upto(n) |-> Body(h, s)]}
<1>1. \A s \in SUBSET S : IsFiniteSet(s) /\ Cardinality(s) \in Nat
  BY FS_Subset, FS_CardinalityType
<1>0. N \in SUBSET Nat
  OBVIOUS
<1>2. ASSUME NEW n \in Nat, \A m \in Nat : m < n => m \in N PROVE n \in N
  <2>1. CASE n = 0
    <3> DEFINE h == [s \in Upto(n) |-> 0]
    <3>1. \A s \in Upto(n) : s = {}
      BY <1>1, <2>1, FS_EmptySet
    <3>2. h = [s \in Upto(n) |-> Body(h, s)]
      BY <3>1
    <3> QED BY <3>2
  <2>2. CASE n # 0
    <3>1. n - 1 \in N
      <4> HIDE DEF N
      <4> QED BY <1>2, <2>2
    <3>2. PICK g : g = [s \in Upto(n - 1) |-> Body(g, s)]
      BY <3>1
    <3> DEFINE h == [s \in Upto(n) |-> Body(g, s)]
    <3>3. \A s \in Upto(n - 1) : s \in Upto(n) /\ h[s] = g[s]
      <4>1. \A s \in Upto(n - 1) : s \in Upto(n)
        BY <1>1
      <4> HIDE DEF Upto, Body
      <4> QED BY <3>2, <4>1
    <3>4. ASSUME NEW s \in Upto(n), s # {} PROVE s \ {ChosenOf(s)} \in Upto(n - 1)
      <4>1. ChosenOf(s) \in s
        BY <3>4, ChosenIsMember
      <4>2. Cardinality(s \ {ChosenOf(s)}) = Cardinality(s) - 1
        BY <1>1, <4>1, FS_RemoveElement
      <4> QED BY <1>1, <4>2
    <3>5. \A s \in Upto(n) : Body(g, s) = Body(h, s)
      <4> HIDE DEF h, Upto
      <4>1. ASSUME NEW s \in Upto(n), s # {}
            PROVE  h[s \ {ChosenOf(s)}] = g[s \ {ChosenOf(s)}]
        BY <3>3, <3>4, <4>1
      <4> QED BY <4>1, Zenon
    <3>6. h = [s \in Upto(n) |-> Body(h, s)]
      BY <3>5
    <3> QED BY <3>6
  <2> QED BY <2>1, <2>2
<1>3. N = Nat
  <2> HIDE DEF N
  <2> QED BY <1>0, <1>2, NaturalsInductively
<1>4. PICK h : h = [s \in Upto(Cardinality(S)) |-> Body(h, s)]
  BY <1>1, <1>3
<1>5. Upto(Cardinality(S)) = SUBSET S
  BY FS_Subset
<1> QED BY <1>4, <1>5 DEF IsSum

\* Over a finite set, the chosen recursion is one.
LEMMA SumUnfolds ==
  ASSUME NEW S, IsFiniteSet(S), NEW f
  PROVE  \E h : IsSum(h, f, S) /\ SumFunctionOnSet(f, S) = h[S]
<1> DEFINE h == CHOOSE k : IsSum(k, f, S)
<1>1. IsSum(h, f, S)
  BY SumExists, Zenon
<1>2. SumFunctionOnSet(f, S) = h[S]
  BY SumIsChosen, Zenon
<1> QED BY <1>1, <1>2, Zenon

Alike(f, g, U) == \A x \in U : f[x] \in Int /\ f[x] = g[x]

\* Two recursions agree wherever the functions they sum do.
LEMMA SumsAgree ==
  ASSUME NEW S, NEW T, NEW U \in SUBSET S, U \subseteq T, IsFiniteSet(U),
         NEW f, NEW g, Alike(f, g, U),
         NEW h, NEW k, IsSum(h, f, S), IsSum(k, g, T)
  PROVE  \A u \in SUBSET U : h[u] \in Int /\ h[u] = k[u]
<1> DEFINE P == {u \in SUBSET U : h[u] \in Int /\ h[u] = k[u]}
<1>1. ASSUME NEW u \in SUBSET U, \A x \in u : u \ {x} \in P PROVE u \in P
  <2>1. h[u] = IF u = {} THEN 0 ELSE f[ChosenOf(u)] + h[u \ {ChosenOf(u)}]
    BY u \in SUBSET S DEF IsSum
  <2>2. k[u] = IF u = {} THEN 0 ELSE g[ChosenOf(u)] + k[u \ {ChosenOf(u)}]
    BY u \in SUBSET T DEF IsSum
  <2>3. CASE u = {}
    BY <2>1, <2>2, <2>3
  <2>4. CASE u # {}
    <3>1. ChosenOf(u) \in u
      BY <2>4, ChosenIsMember
    <3>2. /\ h[u \ {ChosenOf(u)}] \in Int
          /\ h[u \ {ChosenOf(u)}] = k[u \ {ChosenOf(u)}]
      BY <1>1, <3>1
    <3>3. f[ChosenOf(u)] \in Int /\ f[ChosenOf(u)] = g[ChosenOf(u)]
      BY <3>1 DEF Alike
    <3> QED BY <2>1, <2>2, <2>4, <3>2, <3>3
  <2> QED BY <2>3, <2>4
<1>2. P = SUBSET U
  <2>1. P \in SUBSET SUBSET U
    OBVIOUS
  <2> HIDE DEF P
  <2> QED BY <1>1, <2>1, SubsetsInductively
<1> QED BY <1>2

\* A sum depends only on the values summed, and is an integer.
LEMMA SumOfEqual ==
  ASSUME NEW S, IsFiniteSet(S), NEW f, NEW g,
         \A x \in S : f[x] \in Int /\ f[x] = g[x]
  PROVE  /\ SumFunctionOnSet(f, S) \in Int
         /\ SumFunctionOnSet(f, S) = SumFunctionOnSet(g, S)
<1>1. PICK h : IsSum(h, f, S) /\ SumFunctionOnSet(f, S) = h[S]
  BY SumUnfolds
<1>2. PICK k : IsSum(k, g, S) /\ SumFunctionOnSet(g, S) = k[S]
  BY SumUnfolds
<1>3. \A u \in SUBSET S : h[u] \in Int /\ h[u] = k[u]
  <2>1. S \in SUBSET S /\ S \subseteq S /\ Alike(f, g, S)
    BY DEF Alike
  <2> QED BY <1>1, <1>2, <2>1, SumsAgree
<1> QED BY <1>1, <1>2, <1>3

\* Nothing sums to nothing.
LEMMA SumOfNone == ASSUME NEW f PROVE SumFunctionOnSet(f, {}) = 0
<1>1. PICK h : IsSum(h, f, {}) /\ SumFunctionOnSet(f, {}) = h[{}]
  BY SumUnfolds, FS_EmptySet
<1> QED BY <1>1 DEF IsSum

\* The order does not matter: any element can be taken first.
LEMMA SumWithout ==
  ASSUME NEW S, IsFiniteSet(S), NEW f, \A x \in S : f[x] \in Int, NEW x \in S
  PROVE  SumFunctionOnSet(f, S) = f[x] + SumFunctionOnSet(f, S \ {x})
<1> DEFINE sum(u) == SumFunctionOnSet(f, u)
           P == {u \in SUBSET S : \A y \in u : sum(u) = f[y] + sum(u \ {y})}
<1>1. \A u \in SUBSET S : IsFiniteSet(u)
  BY FS_Subset
<1>2. \A u \in SUBSET S : sum(u) \in Int
  BY <1>1, SumOfEqual
<1>3. ASSUME NEW u \in SUBSET S, u # {}
      PROVE  sum(u) = f[ChosenOf(u)] + sum(u \ {ChosenOf(u)})
  <2> DEFINE c == ChosenOf(u)
             v == u \ {c}
  <2>1. PICK h : IsSum(h, f, u) /\ sum(u) = h[u]
    BY <1>1, SumUnfolds
  <2>2. PICK k : IsSum(k, f, v) /\ sum(v) = k[v]
    BY <1>1, SumUnfolds
  <2>3. h[v] = k[v]
    <3>1. v \in SUBSET u /\ v \subseteq v /\ IsFiniteSet(v) /\ Alike(f, f, v)
      BY <1>1 DEF Alike
    <3> QED BY <2>1, <2>2, <3>1, SumsAgree
  <2>4. h[u] = f[c] + h[v]
    BY <1>3, <2>1 DEF IsSum
  <2> QED BY <2>1, <2>2, <2>3, <2>4
<1> HIDE DEF sum
<1>4. ASSUME NEW u \in SUBSET S, \A y \in u : u \ {y} \in P PROVE u \in P
  <2>1. ASSUME NEW y \in u PROVE sum(u) = f[y] + sum(u \ {y})
    <3> DEFINE c == ChosenOf(u)
    <3>1. c \in u /\ sum(u) = f[c] + sum(u \ {c})
      BY <1>3, <2>1, ChosenIsMember
    <3>2. CASE y = c
      BY <3>1, <3>2
    <3>3. CASE y # c
      <4> HIDE DEF c
      <4>1. sum(u \ {c}) = f[y] + sum((u \ {c}) \ {y})
        BY <1>4, <2>1, <3>1, <3>3
      <4>2. sum(u \ {y}) = f[c] + sum((u \ {y}) \ {c})
        BY <1>4, <2>1, <3>1, <3>3
      <4>3. sum((u \ {y}) \ {c}) = sum((u \ {c}) \ {y})
        BY (u \ {y}) \ {c} = (u \ {c}) \ {y}, Zenon
      <4>4. f[y] \in Int /\ f[c] \in Int /\ sum((u \ {c}) \ {y}) \in Int
        BY <1>2, <3>1
      <4> QED BY <3>1, <4>1, <4>2, <4>3, <4>4
    <3> QED BY <3>2, <3>3
  <2> QED BY <2>1
<1>5. P = SUBSET S
  <2>1. P \in SUBSET SUBSET S
    OBVIOUS
  <2> HIDE DEF P
  <2> QED BY <1>4, <2>1, SubsetsInductively
<1> QED BY <1>5 DEF sum

\* A new element adds its value.
LEMMA SumWith ==
  ASSUME NEW S, IsFiniteSet(S), NEW f, NEW x, x \notin S,
         \A y \in S \cup {x} : f[y] \in Int
  PROVE  SumFunctionOnSet(f, S \cup {x}) = f[x] + SumFunctionOnSet(f, S)
<1>1. IsFiniteSet(S \cup {x}) /\ (S \cup {x}) \ {x} = S
  BY FS_AddElement
<1>2. SumFunctionOnSet(f, S \cup {x}) = f[x] + SumFunctionOnSet(f, (S \cup {x}) \ {x})
  BY <1>1, SumWithout
<1> QED BY <1>1, <1>2

\* T holds a name of its own for every element of S, and g says of it what f does.
Renames(name, f, S, g, T) ==
  /\ \A x \in S : name[x] \in T /\ g[name[x]] = f[x]
  /\ \A x, y \in S : name[x] = name[y] => x = y
  /\ \A t \in T : \E x \in S : name[x] = t

\* A sum does not depend on what the things summed over are called.
LEMMA SumOfRenamed ==
  ASSUME NEW S, IsFiniteSet(S), NEW f, \A x \in S : f[x] \in Int,
         NEW g, NEW T, NEW name, Renames(name, f, S, g, T)
  PROVE  SumFunctionOnSet(g, T) = SumFunctionOnSet(f, S)
<1> USE DEF Renames
<1> DEFINE named(u) == {name[x] : x \in u}
           P == {u \in SUBSET S : /\ IsFiniteSet(named(u))
                                  /\ SumFunctionOnSet(g, named(u)) = SumFunctionOnSet(f, u)}
<1>1. ASSUME NEW u \in SUBSET S, \A x \in u : u \ {x} \in P PROVE u \in P
  <2>1. CASE u = {}
    <3>1. named(u) = {}
      BY <2>1
    <3> QED BY <2>1, <3>1, SumOfNone, FS_EmptySet
  <2>2. CASE u # {}
    <3>1. PICK x \in u : TRUE
      BY <2>2
    <3> DEFINE v == u \ {x}
    <3>2. v \in P /\ x \in S
      BY <1>1, <3>1
    <3>3. IsFiniteSet(named(v)) /\ SumFunctionOnSet(g, named(v)) = SumFunctionOnSet(f, v)
      BY <3>2
    <3>4. IsFiniteSet(u)
      BY FS_Subset
    <3>5. named(u) = named(v) \cup {name[x]} /\ name[x] \notin named(v)
      BY <3>1
    <3>6. \A z \in named(v) \cup {name[x]} : g[z] \in Int
      BY <3>2
    <3>7. g[name[x]] = f[x]
      BY <3>2
    <3>8. \A y \in u : f[y] \in Int
      OBVIOUS
    <3> HIDE DEF named, P
    <3>9. SumFunctionOnSet(g, named(u)) = g[name[x]] + SumFunctionOnSet(g, named(v))
      <4>1. SumFunctionOnSet(g, named(v) \cup {name[x]}) = g[name[x]] + SumFunctionOnSet(g, named(v))
        BY <3>3, <3>5, <3>6, SumWith
      <4> QED BY <3>5, <4>1
    <3>10. SumFunctionOnSet(f, u) = f[x] + SumFunctionOnSet(f, v)
      BY <3>1, <3>4, <3>8, SumWithout
    <3>11. IsFiniteSet(named(u))
      <4>1. IsFiniteSet(named(v) \cup {name[x]})
        BY <3>3, FS_AddElement
      <4> QED BY <3>5, <4>1
    <3> QED BY <3>3, <3>7, <3>9, <3>10, <3>11 DEF P
  <2> QED BY <2>1, <2>2
<1>2. P = SUBSET S
  <2>1. P \in SUBSET SUBSET S
    OBVIOUS
  <2> HIDE DEF P
  <2> QED BY <1>1, <2>1, SubsetsInductively
<1>3. S \in P
  BY <1>2
<1>4. T = named(S)
  OBVIOUS
<1>5. SumFunctionOnSet(g, named(S)) = SumFunctionOnSet(f, S)
  BY <1>3
<1> HIDE DEF named
<1> QED BY <1>4, <1>5

\* A part of naturals sums to no more than the whole, and to a natural.
LEMMA SumOfPart ==
  ASSUME NEW S, IsFiniteSet(S), NEW f, \A x \in S : f[x] \in Nat, NEW T \in SUBSET S
  PROVE  /\ SumFunctionOnSet(f, T) \in Nat
         /\ SumFunctionOnSet(f, T) <= SumFunctionOnSet(f, S)
<1> DEFINE sum(u) == SumFunctionOnSet(f, u)
           P == {u \in SUBSET S : \A v \in SUBSET u : sum(v) \in Nat /\ sum(v) <= sum(u)}
<1>1. \A u \in SUBSET S : IsFiniteSet(u)
  BY FS_Subset
<1>2. \A u \in SUBSET S : \A x \in u : sum(u) = f[x] + sum(u \ {x})
  BY <1>1, SumWithout
<1>3. sum({}) = 0
  BY SumOfNone
<1> HIDE DEF sum
<1>4. ASSUME NEW u \in SUBSET S, \A x \in u : u \ {x} \in P PROVE u \in P
  <2>1. ASSUME NEW v \in SUBSET u, v # u PROVE sum(v) \in Nat /\ sum(v) <= sum(u)
    <3>1. PICK x \in u : x \notin v
      BY <2>1
    <3>2. sum(v) \in Nat /\ sum(u \ {x}) \in Nat /\ sum(v) <= sum(u \ {x})
      BY <1>4, <3>1
    <3> QED BY <1>2, <3>1, <3>2
  <2>2. sum(u) \in Nat
    <3>1. CASE u = {}
      BY <1>3, <3>1
    <3>2. CASE u # {}
      <4>1. PICK x \in u : TRUE
        BY <3>2
      <4>2. sum(u \ {x}) \in Nat
        BY <1>4, <4>1
      <4> QED BY <1>2, <4>1, <4>2
    <3> QED BY <3>1, <3>2
  <2> QED BY <2>1, <2>2
<1>5. P = SUBSET S
  <2>1. P \in SUBSET SUBSET S
    OBVIOUS
  <2> HIDE DEF P
  <2> QED BY <1>4, <2>1, SubsetsInductively
<1> QED BY <1>5 DEF sum
=============================================================================
