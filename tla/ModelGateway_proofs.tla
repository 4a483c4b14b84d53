------------------------- MODULE ModelGateway_proofs --------------------------
(***************************************************************************)
(* Proofs about the model gateway, for every number of turns and providers *)
(* and every limit: the variables keep their types; every chat request has *)
(* one row; the limits of a turn and of a day bound the requests; the      *)
(* budgets see every token; and a circuit is open exactly after a burst of *)
(* failures.                                                               *)
(***************************************************************************)
EXTENDS ModelGateway, FiniteSetTheorems, SequenceTheorems, WellFoundedInduction, TLAPS

(* A set of naturals with 0 and every successor has all of them.           *)
LEMMA NatSetInduction ==
  ASSUME NEW T \in SUBSET Nat, 0 \in T, \A n \in T : n + 1 \in T
  PROVE  T = Nat
<1> DEFINE R == OpToRel(<, Nat)
           U == Nat \ T
<1>1. IsWellFoundedOn(R, Nat)
  BY NatLessThanWellFounded
<1>2. SUFFICES ASSUME U # {} PROVE FALSE
  OBVIOUS
<1>3. PICK x \in U : \A y \in U : ~(<<y, x>> \in R)
  <2> HIDE DEF R, U
  <2>1. U \subseteq Nat
    BY DEF U
  <2> QED BY <1>1, <1>2, <2>1, WFMin
<1>4. x # 0 /\ x - 1 \in Nat
  OBVIOUS
<1>5. <<x - 1, x>> \in R
  BY <1>4 DEF OpToRel
<1>6. x - 1 \in U
  BY <1>4
<1> QED BY <1>3, <1>5, <1>6, Zenon

(* A property Q, as a set, that passes from the proper subsets of a set to *)
(* the set holds of every subset of a finite set.                          *)
LEMMA SubsetInduction ==
  ASSUME NEW S, IsFiniteSet(S), NEW Q,
         \A U \in SUBSET S : (\A V \in SUBSET U : V # U => V \in Q) => U \in Q
  PROVE  \A U \in SUBSET S : U \in Q
<1> DEFINE T == {n \in Nat : \A U \in SUBSET S : Cardinality(U) <= n => U \in Q}
<1>1. \A U \in SUBSET S : IsFiniteSet(U) /\ Cardinality(U) \in Nat
  BY FS_Subset, FS_CardinalityType
<1>2. \A U \in SUBSET S : \A V \in SUBSET U : V # U => Cardinality(V) < Cardinality(U)
  <2> SUFFICES ASSUME NEW U \in SUBSET S, NEW V \in SUBSET U, V # U
               PROVE  Cardinality(V) < Cardinality(U)
    OBVIOUS
  <2>1. Cardinality(V) <= Cardinality(U) /\ Cardinality(V) # Cardinality(U)
    BY <1>1, FS_Subset
  <2>2. Cardinality(V) \in Nat /\ Cardinality(U) \in Nat
    BY <1>1
  <2> QED BY <2>1, <2>2
<1>3. 0 \in T
  <2> SUFFICES ASSUME NEW U \in SUBSET S, Cardinality(U) <= 0 PROVE U \in Q
    OBVIOUS
  <2>1. \A V \in SUBSET U : V # U => FALSE
    BY <1>1, <1>2
  <2> QED BY <2>1
<1>4. ASSUME NEW n \in T PROVE n + 1 \in T
  <2> SUFFICES ASSUME NEW U \in SUBSET S, Cardinality(U) <= n + 1 PROVE U \in Q
    OBVIOUS
  <2>1. \A V \in SUBSET U : V # U => V \in Q
    <3> SUFFICES ASSUME NEW V \in SUBSET U, V # U PROVE V \in Q
      OBVIOUS
    <3>1. Cardinality(V) < Cardinality(U) /\ Cardinality(V) \in Nat /\ Cardinality(U) \in Nat
      BY <1>1, <1>2
    <3>2. Cardinality(V) <= n
      BY <3>1
    <3> QED BY <3>2
  <2> QED BY <2>1
<1>5. T = Nat
  <2> HIDE DEF T
  <2>1. T \subseteq Nat
    BY DEF T
  <2> QED BY <1>3, <1>4, <2>1, NatSetInduction
<1> SUFFICES ASSUME NEW U \in SUBSET S PROVE U \in Q
  OBVIOUS
<1>6. Cardinality(U) \in T
  BY <1>1, <1>5
<1> QED BY <1>1, <1>6

(* The element a sum starts with.                                          *)
Picked(s) == CHOOSE x \in s : TRUE

(* A table of the sums of f over the subsets of S.                         *)
IsSum(it, f, S) ==
  it = [s \in SUBSET S |-> IF s = {} THEN 0 ELSE f[Picked(s)] + it[s \ {Picked(s)}]]

(* SumFunctionOnSet, as a name of its own.                                 *)
Sum(f, U) == SumFunctionOnSet(f, U)

(* What SumFunctionOnSet computes is the table of partial sums, if there   *)
(* is one.                                                                 *)
LEMMA SumChosen ==
  ASSUME NEW f, NEW S, NEW it, IsSum(it, f, S)
  PROVE  \E sum : IsSum(sum, f, S) /\ SumFunctionOnSet(f, S) = sum[S]
<1> DEFINE sum == CHOOSE s : IsSum(s, f, S)
<1>1. IsSum(sum, f, S)
  OBVIOUS
<1>2. SumFunctionOnSet(f, S) = sum[S]
  BY Zenon DEF SumFunctionOnSet, FoldFunctionOnSet, MapThenFoldSet, IsSum, Picked
<1> QED BY <1>1, <1>2

(* Equal functions have equal tables.                                      *)
LEMMA SumIsUnique ==
  ASSUME NEW f, NEW g, NEW S, NEW T, IsFiniteSet(S), NEW a, NEW b,
         IsSum(a, f, S), IsSum(b, g, T), S \subseteq T, \A x \in S : f[x] = g[x]
  PROVE  \A U \in SUBSET S : a[U] = b[U]
<1> DEFINE Q == {U \in SUBSET S : a[U] = b[U]}
<1>1. ASSUME NEW U \in SUBSET S, \A V \in SUBSET U : V # U => V \in Q
      PROVE  U \in Q
  <2>0. U \in SUBSET T
    OBVIOUS
  <2>1. CASE U = {}
    BY <2>0, <2>1 DEF IsSum
  <2>2. CASE U # {}
    <3>1. Picked(U) \in U
      BY <2>2 DEF Picked
    <3>2. U \ {Picked(U)} \in Q
      BY <1>1, <3>1
    <3>3. a[U] = f[Picked(U)] + a[U \ {Picked(U)}]
      BY <2>2 DEF IsSum
    <3>4. b[U] = g[Picked(U)] + b[U \ {Picked(U)}]
      BY <2>0, <2>2 DEF IsSum
    <3> QED BY <3>1, <3>2, <3>3, <3>4
  <2> QED BY <2>1, <2>2
<1>2. \A U \in SUBSET S : U \in Q
  <2> HIDE DEF Q
  <2> QED BY <1>1, SubsetInduction
<1> QED BY <1>2

(* A sum does not depend on the set its table is made for.                 *)
LEMMA SumRestricted ==
  ASSUME NEW f, NEW S, NEW T, IsFiniteSet(S), NEW a, NEW b,
         IsSum(a, f, S), IsSum(b, f, T), S \subseteq T
  PROVE  a[S] = b[S]
<1>1. \A U \in SUBSET S : a[U] = b[U]
  BY SumIsUnique
<1> QED BY <1>1

(* Over a finite set there is a table of partial sums.                     *)
LEMMA SumExists ==
  ASSUME NEW f, NEW S, IsFiniteSet(S)
  PROVE  \E it : IsSum(it, f, S)
<1> DEFINE Q == {U \in SUBSET S : \E it : IsSum(it, f, U)}
           Val(it, s) == IF s = {} THEN 0 ELSE f[Picked(s)] + it[s \ {Picked(s)}]
<1>1. ASSUME NEW U \in SUBSET S, \A V \in SUBSET U : V # U => V \in Q
      PROVE  \E it : IsSum(it, f, U)
  <2>0. \A V \in SUBSET U : IsFiniteSet(V)
    BY FS_Subset
  <2> DEFINE of == [V \in SUBSET U |-> CHOOSE it : IsSum(it, f, V)]
  <2>1. \A V \in SUBSET U : V # U => IsSum(of[V], f, V)
    BY <1>1
  <2> DEFINE sub == [V \in SUBSET U |-> IF V = {} THEN 0 
                            ELSE f[Picked(V)] + of[V \ {Picked(V)}][V \ {Picked(V)}]]
  <2> HIDE DEF of
  <2>2. \A V \in SUBSET U : V # {} => Picked(V) \in V
    BY DEF Picked
  <2>3. ASSUME NEW V \in SUBSET U, V # {}
        PROVE  sub[V \ {Picked(V)}] = of[V \ {Picked(V)}][V \ {Picked(V)}]
    <3> DEFINE W == V \ {Picked(V)}
    <3>1. W \in SUBSET U /\ W # U /\ IsFiniteSet(W)
      BY <2>0, <2>2, <2>3
    <3>2. IsSum(of[W], f, W)
      BY <2>1, <3>1
    <3>3. CASE W = {}
      BY <3>1, <3>2, <3>3 DEF IsSum
    <3>4. CASE W # {}
      <4> DEFINE X == W \ {Picked(W)}
      <4>1. X \in SUBSET W /\ X # U /\ X \in SUBSET U /\ IsFiniteSet(X)
        BY <2>0, <2>2, <3>1, <3>4
      <4>2. IsSum(of[X], f, X)
        BY <2>1, <4>1
      <4>3. of[X][X] = of[W][X]
        <5> HIDE DEF X, W
        <5>0. X \subseteq W /\ IsFiniteSet(X)
          BY <4>1
        <5> QED BY <3>2, <4>2, <5>0, SumRestricted
      <4>4. of[W][W] = f[Picked(W)] + of[W][X]
        BY <3>2, <3>4 DEF IsSum
      <4>5. sub[W] = f[Picked(W)] + of[X][X]
        BY <3>1, <3>4
      <4> QED BY <4>3, <4>4, <4>5
    <3> QED BY <3>3, <3>4
  <2>4. IsSum(sub, f, U)
    <3>1. \A V \in SUBSET U : sub[V] = IF V = {} THEN 0 ELSE f[Picked(V)] + sub[V \ {Picked(V)}]
      <4> SUFFICES ASSUME NEW V \in SUBSET U
                   PROVE  sub[V] = IF V = {} THEN 0 ELSE f[Picked(V)] + sub[V \ {Picked(V)}]
        OBVIOUS
      <4>1. CASE V = {} BY <4>1
      <4>2. CASE V # {}
        <5>1. sub[V] = f[Picked(V)] + of[V \ {Picked(V)}][V \ {Picked(V)}]
          BY <4>2
        <5> HIDE DEF sub
        <5> QED BY <5>1, <4>2, <2>3
      <4> QED BY <4>1, <4>2
    <3>2. sub = [V \in SUBSET U |-> sub[V]]
      OBVIOUS
    <3> HIDE DEF sub
    <3> QED BY <3>1, <3>2, Zenon DEF IsSum
  <2> QED BY <2>4
<1>2. \A U \in SUBSET S : U \in Q
  <2>1. \A U \in SUBSET S : (\A V \in SUBSET U : V # U => V \in Q) => U \in Q
    BY <1>1
  <2> HIDE DEF Q
  <2> QED BY <2>1, SubsetInduction
<1> QED BY <1>2

(* The sum over nothing is 0.                                              *)
LEMMA SumEmpty == ASSUME NEW f PROVE Sum(f, {}) = 0
<1>1. IsFiniteSet({})
  BY FS_EmptySet
<1>2. PICK sum : IsSum(sum, f, {}) /\ SumFunctionOnSet(f, {}) = sum[{}]
  BY <1>1, SumExists, SumChosen
<1>3. sum[{}] = 0
  BY <1>2 DEF IsSum
<1> QED BY <1>2, <1>3 DEF Sum

(* A sum is the element it starts with and the sum of the others.          *)
LEMMA SumPicked ==
  ASSUME NEW f, NEW U, IsFiniteSet(U), U # {}
  PROVE  /\ Picked(U) \in U
         /\ Sum(f, U) = f[Picked(U)] + Sum(f, U \ {Picked(U)})
<1> DEFINE W == U \ {Picked(U)}
<1>1. Picked(U) \in U
  BY DEF Picked
<1>2. IsFiniteSet(W) /\ W \subseteq U
  BY FS_Subset
<1>3. PICK a : IsSum(a, f, U) /\ SumFunctionOnSet(f, U) = a[U]
  BY SumExists, SumChosen
<1>4. PICK b : IsSum(b, f, W) /\ SumFunctionOnSet(f, W) = b[W]
  <2> HIDE DEF W
  <2> QED BY <1>2, SumExists, SumChosen
<1>5. b[W] = a[W]
  <2> HIDE DEF W
  <2> QED BY <1>2, <1>3, <1>4, SumRestricted
<1>6. a[U] = f[Picked(U)] + a[W]
  BY <1>3 DEF IsSum
<1> QED BY <1>1, <1>3, <1>4, <1>5, <1>6 DEF Sum

(* A sum of naturals is a natural.                                         *)
LEMMA SumType ==
  ASSUME NEW f, NEW S, IsFiniteSet(S), \A x \in S : f[x] \in Nat
  PROVE  Sum(f, S) \in Nat
<1> DEFINE Q == {U \in SUBSET S : Sum(f, U) \in Nat}
<1>1. ASSUME NEW U \in SUBSET S, \A V \in SUBSET U : V # U => V \in Q
      PROVE  U \in Q
  <2>0. IsFiniteSet(U)
    BY FS_Subset
  <2>1. CASE U = {}
    BY <2>1, SumEmpty
  <2>2. CASE U # {}
    <3>1. Picked(U) \in U /\ Sum(f, U) = f[Picked(U)] + Sum(f, U \ {Picked(U)})
      BY <2>0, <2>2, SumPicked
    <3>2. U \ {Picked(U)} \in Q
      BY <1>1, <3>1
    <3> QED BY <3>1, <3>2
  <2> QED BY <2>1, <2>2
<1>2. \A U \in SUBSET S : U \in Q
  <2> HIDE DEF Q
  <2> QED BY <1>1, SubsetInduction
<1>3. S \in Q
  BY <1>2
<1> QED BY <1>3

(* A sum is any of its elements and the sum of the others.                 *)
LEMMA SumRemove ==
  ASSUME NEW f, NEW S, IsFiniteSet(S), \A x \in S : f[x] \in Nat, NEW y \in S
  PROVE  Sum(f, S) = f[y] + Sum(f, S \ {y})
<1> DEFINE Q == {U \in SUBSET S : \A z \in U : Sum(f, U) = f[z] + Sum(f, U \ {z})}
<1>1. ASSUME NEW U \in SUBSET S, \A V \in SUBSET U : V # U => V \in Q
      PROVE  U \in Q
  <2> SUFFICES ASSUME NEW z \in U PROVE Sum(f, U) = f[z] + Sum(f, U \ {z})
    OBVIOUS
  <2> DEFINE x == Picked(U)
  <2>1. IsFiniteSet(U) /\ IsFiniteSet(U \ {z}) /\ IsFiniteSet((U \ {z}) \ {x})
    BY FS_Subset
  <2>2. x \in U /\ Sum(f, U) = f[x] + Sum(f, U \ {x})
    BY <2>1, SumPicked
  <2>3. CASE x = z
    BY <2>2, <2>3
  <2>4. CASE x # z
    <3>1. U \ {x} \in Q /\ U \ {z} \in Q
      BY <1>1, <2>2
    <3>2. Sum(f, U \ {x}) = f[z] + Sum(f, (U \ {x}) \ {z})
      BY <2>4, <3>1
    <3>3. Sum(f, U \ {z}) = f[x] + Sum(f, (U \ {z}) \ {x})
      BY <2>2, <2>4, <3>1
    <3>4. (U \ {z}) \ {x} = (U \ {x}) \ {z}
      OBVIOUS
    <3>5. Sum(f, (U \ {z}) \ {x}) \in Nat /\ f[x] \in Nat /\ f[z] \in Nat
      BY <2>1, <2>2, SumType
    <3> HIDE DEF x
    <3> QED BY <2>2, <3>2, <3>3, <3>4, <3>5
  <2> QED BY <2>3, <2>4
<1>2. \A U \in SUBSET S : U \in Q
  <2> HIDE DEF Q
  <2> QED BY <1>1, SubsetInduction
<1>3. S \in Q
  BY <1>2
<1> QED BY <1>3

(* Equal functions have equal sums.                                        *)
LEMMA SumEqual ==
  ASSUME NEW f, NEW g, NEW S, IsFiniteSet(S), \A x \in S : f[x] = g[x]
  PROVE  Sum(f, S) = Sum(g, S)
<1>1. PICK a : IsSum(a, f, S) /\ SumFunctionOnSet(f, S) = a[S]
  BY SumExists, SumChosen
<1>2. PICK b : IsSum(b, g, S) /\ SumFunctionOnSet(g, S) = b[S]
  BY SumExists, SumChosen
<1>3. \A U \in SUBSET S : a[U] = b[U]
  BY <1>1, <1>2, SumIsUnique
<1> QED BY <1>1, <1>2, <1>3 DEF Sum

(* If f exceeds g by at most d at every element, so do the sums, as often  *)
(* as there are elements.                                                  *)
LEMMA SumBounded ==
  ASSUME NEW f, NEW g, NEW d \in Nat, NEW S, IsFiniteSet(S),
         \A x \in S : f[x] \in Nat /\ g[x] \in Nat /\ f[x] <= g[x] + d
  PROVE  Sum(f, S) <= Sum(g, S) + d * Cardinality(S)
<1> DEFINE Q == {U \in SUBSET S : Sum(f, U) <= Sum(g, U) + d * Cardinality(U)}
<1>1. ASSUME NEW U \in SUBSET S, \A V \in SUBSET U : V # U => V \in Q
      PROVE  U \in Q
  <2>0. IsFiniteSet(U)
    BY FS_Subset
  <2>1. CASE U = {}
    <3>1. Sum(f, U) = 0 /\ Sum(g, U) = 0 /\ Cardinality(U) = 0
      BY <2>1, SumEmpty, FS_EmptySet
    <3> QED BY <3>1
  <2>2. CASE U # {}
    <3> DEFINE x == Picked(U)
               W == U \ {x}
    <3>1. x \in U /\ Sum(f, U) = f[x] + Sum(f, W) /\ Sum(g, U) = g[x] + Sum(g, W)
      BY <2>0, <2>2, SumPicked
    <3>2. W \in Q
      BY <1>1, <3>1
    <3>3. IsFiniteSet(W) /\ W \subseteq S
      BY FS_Subset
    <3>4. Cardinality(W) \in Nat /\ Cardinality(U) = Cardinality(W) + 1
      BY <2>0, <3>1, <3>3, FS_RemoveElement, FS_CardinalityType
    <3>5. Sum(f, W) \in Nat /\ Sum(g, W) \in Nat
      <4> HIDE DEF W
      <4> QED BY <3>3, SumType
    <3>6. f[x] \in Nat /\ g[x] \in Nat /\ f[x] <= g[x] + d
      BY <3>1
    <3>7. Sum(f, W) <= Sum(g, W) + d * Cardinality(W)
      BY <3>2
    <3>8. d * Cardinality(U) = d * Cardinality(W) + d /\ d * Cardinality(W) \in Nat
      <4> HIDE DEF W
      <4> QED BY <3>4
    <3> HIDE DEF W, x
    <3>9. Sum(f, U) <= Sum(g, U) + d * Cardinality(U)
      BY <3>1, <3>5, <3>6, <3>7, <3>8
    <3> QED BY <3>9
  <2> QED BY <2>1, <2>2
<1>2. \A U \in SUBSET S : U \in Q
  <2> HIDE DEF Q
  <2> QED BY <1>1, SubsetInduction
<1>3. S \in Q
  BY <1>2
<1> QED BY <1>3

(* The sum of zeros is 0.                                                  *)
LEMMA SumZero ==
  ASSUME NEW f, NEW S, IsFiniteSet(S), \A x \in S : f[x] = 0
  PROVE  Sum(f, S) = 0
<1> DEFINE Q == {U \in SUBSET S : Sum(f, U) = 0}
<1>1. ASSUME NEW U \in SUBSET S, \A V \in SUBSET U : V # U => V \in Q
      PROVE  U \in Q
  <2>0. IsFiniteSet(U)
    BY FS_Subset
  <2>1. CASE U = {}
    BY <2>1, SumEmpty
  <2>2. CASE U # {}
    <3>1. Picked(U) \in U /\ Sum(f, U) = f[Picked(U)] + Sum(f, U \ {Picked(U)})
      BY <2>0, <2>2, SumPicked
    <3>2. U \ {Picked(U)} \in Q
      BY <1>1, <3>1
    <3> QED BY <3>1, <3>2
  <2> QED BY <2>1, <2>2
<1>2. \A U \in SUBSET S : U \in Q
  <2> HIDE DEF Q
  <2> QED BY <1>1, SubsetInduction
<1>3. S \in Q
  BY <1>2
<1> QED BY <1>3
-----------------------------------------------------------------------------
(* A finite set of naturals has a greatest element.                        *)
LEMMA MaxExists ==
  ASSUME NEW S \in SUBSET Nat, IsFiniteSet(S), S # {}
  PROVE  Max(S) \in S /\ \A x \in S : x <= Max(S)
<1> DEFINE Q == {U \in SUBSET S : U # {} => \E x \in U : \A y \in U : x >= y}
<1>1. ASSUME NEW U \in SUBSET S, \A V \in SUBSET U : V # U => V \in Q
      PROVE  U \in Q
  <2> SUFFICES ASSUME U # {} PROVE \E x \in U : \A y \in U : x >= y
    OBVIOUS
  <2>1. PICK z \in U : TRUE
    OBVIOUS
  <2>2. U \ {z} \in Q
    BY <1>1
  <2>3. CASE U \ {z} = {}
    <3>1. \A y \in U : z >= y
      BY <2>3
    <3> QED BY <3>1
  <2>4. CASE U \ {z} # {}
    <3>1. PICK x \in U \ {z} : \A y \in U \ {z} : x >= y
      BY <2>2, <2>4
    <3>2. x \in Nat /\ z \in Nat
      OBVIOUS
    <3>3. CASE x >= z
      BY <3>1, <3>3
    <3>4. CASE z >= x
      <4>1. \A y \in U : z >= y
        BY <3>1, <3>2, <3>4
      <4> QED BY <4>1
    <3> QED BY <3>2, <3>3, <3>4
  <2> QED BY <2>3, <2>4
<1>2. \A U \in SUBSET S : U \in Q
  <2> HIDE DEF Q
  <2> QED BY <1>1, SubsetInduction
<1>3. \E x \in S : \A y \in S : x >= y
  <2>1. S \in Q
    BY <1>2
  <2> QED BY <2>1
<1>4. Max(S) \in S /\ \A y \in S : Max(S) >= y
  BY <1>3 DEF Max
<1> QED BY <1>4

(* One round of the loop in Within, and a table of what it keeps of the    *)
(* failures at the places in each subset of S.                             *)
AddKept(age, kept, f) == IF f + age >= now THEN Append(kept, f) ELSE kept

IsKept(it, age, times, S) ==
  it = [s \in SUBSET S |-> IF s = {} THEN <<>> 
                           ELSE AddKept(age, it[s \ {Max(s)}], times[Max(s)])]

(* What Within computes is such a table, if there is one.                  *)
LEMMA KeptChosen ==
  ASSUME NEW age, NEW times, \E it : IsKept(it, age, times, DOMAIN times)
  PROVE  \E it : IsKept(it, age, times, DOMAIN times) /\ Within(age, times) = it[DOMAIN times]
<1> DEFINE kept == CHOOSE it : IsKept(it, age, times, DOMAIN times)
<1>1. IsKept(kept, age, times, DOMAIN times)
  OBVIOUS
<1>2. Within(age, times) = kept[DOMAIN times]
  BY Zenon DEF Within, FoldLeft, MapThenFoldSet, IsKept, AddKept
<1> QED BY <1>1, <1>2

(* There is one table only.                                                *)
LEMMA KeptIsUnique ==
  ASSUME NEW age, NEW times, NEW S \in SUBSET Nat, NEW T, IsFiniteSet(S), NEW a, NEW b,
         IsKept(a, age, times, S), IsKept(b, age, times, T), S \subseteq T
  PROVE  a[S] = b[S]
<1> DEFINE Q == {U \in SUBSET S : a[U] = b[U]}
<1>1. ASSUME NEW U \in SUBSET S, \A V \in SUBSET U : V # U => V \in Q
      PROVE  U \in Q
  <2>0. U \in SUBSET T /\ U \in SUBSET Nat /\ IsFiniteSet(U)
    BY FS_Subset
  <2>1. CASE U = {}
    BY <2>0, <2>1 DEF IsKept
  <2>2. CASE U # {}
    <3>1. Max(U) \in U
      BY <2>0, <2>2, MaxExists
    <3>2. U \ {Max(U)} \in Q
      BY <1>1, <3>1
    <3>3. a[U] = AddKept(age, a[U \ {Max(U)}], times[Max(U)])
      BY <2>2 DEF IsKept
    <3>4. b[U] = AddKept(age, b[U \ {Max(U)}], times[Max(U)])
      BY <2>0, <2>2 DEF IsKept
    <3> QED BY <3>2, <3>3, <3>4
  <2> QED BY <2>1, <2>2
<1>2. \A U \in SUBSET S : U \in Q
  <2> HIDE DEF Q
  <2> QED BY <1>1, SubsetInduction
<1>3. S \in Q
  BY <1>2
<1> QED BY <1>3

(* Over a finite set of naturals there is a table.                         *)
LEMMA KeptExists ==
  ASSUME NEW age, NEW times, NEW S \in SUBSET Nat, IsFiniteSet(S)
  PROVE  \E it : IsKept(it, age, times, S)
<1> DEFINE Q == {U \in SUBSET S : \E it : IsKept(it, age, times, U)}
<1>1. ASSUME NEW U \in SUBSET S, \A V \in SUBSET U : V # U => V \in Q
      PROVE  \E it : IsKept(it, age, times, U)
  <2>1. \A V \in SUBSET U : IsFiniteSet(V) /\ V \in SUBSET Nat
    BY FS_Subset
  <2>2. \A V \in SUBSET U : V # {} => Max(V) \in V
    BY <2>1, MaxExists
  <2> DEFINE of == [V \in SUBSET U |-> CHOOSE it : IsKept(it, age, times, V)]
             below(V) == of[V \ {Max(V)}][V \ {Max(V)}]
             it == [V \in SUBSET U |-> IF V = {} THEN <<>> ELSE AddKept(age, below(V), times[Max(V)])]
  <2>3. \A V \in SUBSET U : V # U => IsKept(of[V], age, times, V)
    BY <1>1
  <2> HIDE DEF of
  <2>4. ASSUME NEW V \in SUBSET U, V # {}
        PROVE  it[V \ {Max(V)}] = below(V)
    <3> DEFINE W == V \ {Max(V)}
    <3>1. W \in SUBSET U /\ W # U /\ IsFiniteSet(W) /\ W \in SUBSET Nat
      BY <2>1, <2>2, <2>4
    <3>2. IsKept(of[W], age, times, W)
      BY <2>3, <3>1
    <3>3. CASE W = {}
      BY <3>1, <3>2, <3>3 DEF IsKept
    <3>4. CASE W # {}
      <4> DEFINE X == W \ {Max(W)}
      <4>1. X \subseteq W /\ X # U /\ X \in SUBSET U /\ IsFiniteSet(X) /\ X \in SUBSET Nat
        BY <2>1, <2>2, <3>1, <3>4
      <4>2. IsKept(of[X], age, times, X)
        BY <2>3, <4>1
      <4>3. of[X][X] = of[W][X]
        <5> HIDE DEF X, W
        <5>1. X \in SUBSET Nat /\ IsFiniteSet(X) /\ X \subseteq W
          BY <4>1
        <5> DEFINE a == of[X]
                   b == of[W]
        <5>2. IsKept(a, age, times, X) /\ IsKept(b, age, times, W)
          BY <3>2, <4>2
        <5>3. a[X] = b[X]
          <6> HIDE DEF a, b
          <6> QED BY <5>1, <5>2, KeptIsUnique
        <5> QED BY <5>3
      <4>4. of[W][W] = AddKept(age, of[W][X], times[Max(W)])
        BY <3>2, <3>4 DEF IsKept
      <4>5. it[W] = AddKept(age, of[X][X], times[Max(W)])
        BY <3>1, <3>4
      <4> QED BY <4>3, <4>4, <4>5
    <3> QED BY <3>3, <3>4
  <2>5. \A V \in SUBSET U : it[V] = IF V = {} THEN <<>> ELSE AddKept(age, it[V \ {Max(V)}], times[Max(V)])
    <3> SUFFICES ASSUME NEW V \in SUBSET U
                 PROVE  it[V] = IF V = {} THEN <<>> ELSE AddKept(age, it[V \ {Max(V)}], times[Max(V)])
      OBVIOUS
    <3>1. CASE V = {}
      BY <3>1
    <3>2. CASE V # {}
      <4>1. it[V] = AddKept(age, below(V), times[Max(V)])
        BY <3>2
      <4> HIDE DEF it, below
      <4> QED BY <4>1, <3>2, <2>4
    <3> QED BY <3>1, <3>2
  <2>6. it = [V \in SUBSET U |-> it[V]]
    OBVIOUS
  <2> HIDE DEF it
  <2>7. IsKept(it, age, times, U)
    BY <2>5, <2>6, Zenon DEF IsKept
  <2> QED BY <2>7
<1>2. \A U \in SUBSET S : U \in Q
  <2>1. \A U \in SUBSET S : (\A V \in SUBSET U : V # U => V \in Q) => U \in Q
    BY <1>1
  <2> HIDE DEF Q
  <2> QED BY <2>1, SubsetInduction
<1> QED BY <1>2

(* Times in order.                                                         *)
Sorted(times) == \A i, j \in 1..Len(times) : i <= j => times[i] <= times[j]

(* Of failures in the order of time, Within keeps those from some place    *)
(* on: exactly the ones that are not too old (the loop in _failure).       *)
LEMMA WithinIsSuffix ==
  ASSUME NEW age \in Nat, NEW times \in Seq(Nat), Sorted(times), now \in Nat
  PROVE  \E m \in 1..Len(times) + 1 :
           /\ \A i \in 1..Len(times) : i < m <=> times[i] + age < now
           /\ Within(age, times) = SubSeq(times, m, Len(times))
<1> DEFINE n == Len(times)
           Old == {i \in 1..n : times[i] + age < now}
           k == IF Old = {} THEN 0 ELSE Max(Old)
           m == k + 1
<1>0. n \in Nat /\ DOMAIN times = 1..n /\ IsFiniteSet(1..n)
  BY FS_Interval
<1>1. k \in 0..n /\ \A i \in 1..n : i <= k <=> times[i] + age < now
  <2>1. IsFiniteSet(Old) /\ Old \in SUBSET Nat
    BY <1>0, FS_Subset
  <2>2. CASE Old = {}
    BY <1>0, <2>2
  <2>3. CASE Old # {}
    <3>1. Max(Old) \in Old /\ \A x \in Old : x <= Max(Old)
      <4> HIDE DEF Old
      <4> QED BY <2>1, <2>3, MaxExists
    <3>2. k = Max(Old)
      BY <2>3
    <3>3. k \in 1..n /\ times[k] + age < now /\ \A i \in 1..n : times[i] + age < now => i <= k
      BY <3>1, <3>2
    <3>4. \A i \in 1..n : times[i] \in Nat
      BY <1>0
    <3> HIDE DEF k, Old, n
    <3>5. \A i \in 1..n : i <= k => times[i] <= times[k]
      BY <3>3 DEF Sorted, n
    <3>6. \A i \in 1..n : i <= k => times[i] + age < now
      BY <3>3, <3>4, <3>5
    <3> QED BY <1>0, <3>3, <3>6
  <2> QED BY <2>2, <2>3
<1>2. \E it : IsKept(it, age, times, DOMAIN times)
  BY <1>0, KeptExists
<1>3. PICK it : IsKept(it, age, times, DOMAIN times) /\ Within(age, times) = it[DOMAIN times]
  BY <1>2, KeptChosen
<1> HIDE DEF k, n
<1> DEFINE T == {j \in Nat : j <= n => it[1..j] = SubSeq(times, m, j)}
<1>4. 0 \in T
  <2>1. it[1..0] = <<>>
    BY <1>0, <1>3 DEF IsKept
  <2>2. SubSeq(times, m, 0) = <<>>
    BY <1>1, SubSeqEmpty
  <2> QED BY <2>1, <2>2
<1>5. ASSUME NEW j \in T PROVE j + 1 \in T
  <2> SUFFICES ASSUME j + 1 <= n PROVE it[1..j + 1] = SubSeq(times, m, j + 1)
    OBVIOUS
  <2> DEFINE U == 1..(j + 1)
  <2>1. U \in SUBSET (1..n) /\ U # {} /\ IsFiniteSet(U) /\ U \in SUBSET Nat
    <3>1. IsFiniteSet(U)
      BY FS_Interval
    <3>2. j \in Nat /\ n \in Nat
      BY <1>0
    <3> HIDE DEF T
    <3>3. U \subseteq 1..n
      BY <3>2
    <3>4. 1 \in U
      BY <3>2
    <3> QED BY <3>1, <3>3, <3>4
  <2>2. Max(U) = j + 1
    <3>1. Max(U) \in U /\ \A x \in U : x <= Max(U)
      <4> HIDE DEF U
      <4> QED BY <2>1, MaxExists
    <3> QED BY <3>1
  <2>3. U \ {j + 1} = 1..j
    OBVIOUS
  <2>4. it[U] = AddKept(age, it[1..j], times[j + 1])
    <3>1. it[U] = AddKept(age, it[U \ {Max(U)}], times[Max(U)])
      <4> HIDE DEF U
      <4> QED BY <1>0, <1>3, <2>1 DEF IsKept
    <3> QED BY <2>2, <2>3, <3>1
  <2>5. it[1..j] = SubSeq(times, m, j)
    BY <1>0
  <2>6. j + 1 \in 1..n
    BY <1>0
  <2>7. CASE j + 1 <= k
    <3>1. times[j + 1] + age < now
      BY <1>1, <2>6, <2>7
    <3>2. it[U] = it[1..j]
      <4>1. times[j + 1] \in Nat
        BY <2>6 DEF n
      <4> QED BY <2>4, <3>1, <4>1 DEF AddKept
    <3>3. SubSeq(times, m, j) = <<>> /\ SubSeq(times, m, j + 1) = <<>>
      BY <1>1, <2>7, SubSeqEmpty
    <3> QED BY <2>5, <3>2, <3>3
  <2>8. CASE m <= j + 1
    <3>1. ~(times[j + 1] + age < now)
      BY <1>1, <2>6, <2>8
    <3>2. it[U] = Append(it[1..j], times[j + 1])
      <4>1. times[j + 1] \in Nat
        BY <2>6 DEF n
      <4> QED BY <2>4, <3>1, <4>1 DEF AddKept
    <3>3. SubSeq(times, m, j + 1) = Append(SubSeq(times, m, j), times[j + 1])
      BY <1>1, <2>6, <2>8 DEF n
    <3> QED BY <2>5, <3>2, <3>3
  <2> QED BY <1>1, <2>7, <2>8
<1>6. T = Nat
  <2> HIDE DEF T
  <2>1. T \subseteq Nat
    BY DEF T
  <2> QED BY <1>4, <1>5, <2>1, NatSetInduction
<1>7. Within(age, times) = SubSeq(times, m, n)
  <2>1. n \in T
    BY <1>0, <1>6
  <2> QED BY <1>0, <1>3, <2>1
<1>8. \A i \in 1..n : i < m <=> times[i] + age < now
  BY <1>0, <1>1
<1>9. m \in 1..n + 1
  BY <1>0, <1>1
<1> HIDE DEF m
<1> QED BY <1>7, <1>8, <1>9 DEF n
-----------------------------------------------------------------------------
(* Some providers of the chain have a first one.                           *)
LEMMA MinExists ==
  ASSUME NEW n \in Nat, NEW S \in SUBSET (1..n), S # {}
  PROVE  \E q \in S : \A r \in S : q <= r
<1> DEFINE M == {x \in 0..n : n - x \in S}
<1>1. IsFiniteSet(M) /\ M \in SUBSET Nat
  <2>1. IsFiniteSet(0..n) /\ M \in SUBSET (0..n)
    BY FS_Interval
  <2>2. IsFiniteSet(M)
    <3> HIDE DEF M
    <3> QED BY <2>1, FS_Subset
  <2> QED BY <2>2
<1>2. M # {}
  <2>1. PICK q \in S : TRUE
    OBVIOUS
  <2>2. n - q \in 0..n /\ n - (n - q) = q
    OBVIOUS
  <2>3. n - q \in M
    BY <2>2
  <2> QED BY <2>3
<1>3. Max(M) \in M /\ \A x \in M : x <= Max(M)
  <2> HIDE DEF M
  <2> QED BY <1>1, <1>2, MaxExists
<1>4. n - Max(M) \in S /\ Max(M) \in 0..n
  BY <1>3
<1>5. ASSUME NEW r \in S PROVE n - Max(M) <= r
  <2>1. n - r \in 0..n /\ n - (n - r) = r
    OBVIOUS
  <2>2. n - r \in M
    BY <2>1
  <2>3. n - r <= Max(M)
    BY <1>3, <2>2
  <2> HIDE DEF M
  <2> QED BY <1>4, <2>3
<1> HIDE DEF M
<1> QED BY <1>4, <1>5

(* A day is a number and does not end before it began.                     *)
LEMMA DayFacts ==
  ASSUME NEW n \in Nat, NEW d \in Nat \ {0}
  PROVE  n \div d \in Nat /\ n \div d <= (n + 1) \div d
OBVIOUS

-----------------------------------------------------------------------------
(* Rows.  Reported tokens are numbers.                                     *)
LEMMA UsagesAreNumbers == Usages \subseteq Nat
<1>1. Sizes \subseteq Nat
  BY GatewayAssumption
<1> QED BY <1>1 DEF Usages, Unknown

(* What is in a sequence of rows after one more.                           *)
LEMMA AppendedRow ==
  ASSUME NEW s \in Seq(Row), NEW r \in Row
  PROVE  /\ Append(s, r) \in Seq(Row)
         /\ Len(s) \in Nat /\ Len(Append(s, r)) = Len(s) + 1
         /\ DOMAIN s = 1..Len(s) /\ DOMAIN Append(s, r) = 1..Len(s) + 1
         /\ \A i \in 1..Len(s) : Append(s, r)[i] = s[i] /\ s[i] \in Row
         /\ Append(s, r)[Len(s) + 1] = r
OBVIOUS

(* A condition selects finitely many rows.                                 *)
LEMMA RowsAreFinite ==
  ASSUME NEW s \in Seq(Row), NEW I \in SUBSET (DOMAIN s)
  PROVE  IsFiniteSet(I) /\ Cardinality(I) \in Nat
<1>1. IsFiniteSet(DOMAIN s)
  <2>1. DOMAIN s = 1..Len(s) /\ Len(s) \in Nat
    OBVIOUS
  <2> QED BY <2>1, FS_Interval
<1> QED BY <1>1, FS_Subset, FS_CardinalityType

(* One more row counts as a chat request if it is one.                     *)
LEMMA ChatsAppended ==
  ASSUME NEW s \in Seq(Row), NEW r \in Row
  PROVE  Cardinality(Chats(Append(s, r)))
           = Cardinality(Chats(s)) + (IF r.kind = "chat" THEN 1 ELSE 0)
<1>1. IsFiniteSet(Chats(s)) /\ Cardinality(Chats(s)) \in Nat /\ Len(s) + 1 \notin Chats(s)
  BY RowsAreFinite, AppendedRow DEF Chats
<1>2. CASE r.kind = "chat"
  <2>1. Chats(Append(s, r)) = Chats(s) \cup {Len(s) + 1}
    BY <1>2, AppendedRow DEF Chats
  <2> QED BY <1>1, <1>2, <2>1, FS_AddElement
<1>3. CASE r.kind # "chat"
  <2>1. Chats(Append(s, r)) = Chats(s)
    BY <1>3, AppendedRow DEF Chats
  <2> QED BY <1>1, <1>3, <2>1
<1> QED BY <1>2, <1>3

(* It counts for its own day only.                                         *)
LEMMA DayChatsAppended ==
  ASSUME NEW s \in Seq(Row), NEW r \in Row, NEW d
  PROVE  Cardinality(Chats(Append(s, r)) \cap OnDay(Append(s, r), d))
           = Cardinality(Chats(s) \cap OnDay(s, d))
             + (IF r.kind = "chat" /\ r.day = d THEN 1 ELSE 0)
<1> DEFINE C(q) == Chats(q) \cap OnDay(q, d)
<1>1. IsFiniteSet(C(s)) /\ Cardinality(C(s)) \in Nat /\ Len(s) + 1 \notin C(s)
  BY RowsAreFinite, AppendedRow DEF Chats, OnDay
<1>2. CASE r.kind = "chat" /\ r.day = d
  <2>1. C(Append(s, r)) = C(s) \cup {Len(s) + 1}
    BY <1>2, AppendedRow DEF Chats, OnDay
  <2> HIDE DEF C
  <2>2. Cardinality(C(Append(s, r))) = Cardinality(C(s)) + 1
    BY <1>1, <2>1, FS_AddElement
  <2> QED BY <1>2, <2>2 DEF C
<1>3. CASE ~(r.kind = "chat" /\ r.day = d)
  <2>1. C(Append(s, r)) = C(s)
    BY <1>3, AppendedRow DEF Chats, OnDay
  <2> HIDE DEF C
  <2>2. Cardinality(C(Append(s, r))) = Cardinality(C(s)) + 0
    BY <1>1, <2>1
  <2> QED BY <1>3, <2>2 DEF C
<1> QED BY <1>2, <1>3

(* The tokens of some rows are a number.                                   *)
LEMMA TokensType ==
  ASSUME NEW s \in Seq(Row), NEW I \in SUBSET (DOMAIN s)
  PROVE  Tokens(s, I) \in Nat
<1> DEFINE f == [i \in DOMAIN s |-> s[i].tokens]
<1>1. \A i \in I : f[i] \in Nat
  <2> SUFFICES ASSUME NEW i \in DOMAIN s PROVE s[i].tokens \in Nat
    OBVIOUS
  <2>1. s[i] \in Row
    OBVIOUS
  <2>2. s[i].tokens \in Usages
    BY <2>1 DEF Row
  <2> QED BY <2>2, UsagesAreNumbers
<1>2. IsFiniteSet(I)
  BY RowsAreFinite
<1> HIDE DEF f
<1>3. Sum(f, I) \in Nat
  BY <1>1, <1>2, SumType
<1> QED BY <1>3 DEF f, Tokens, Sum

(* A later row does not change the tokens of those before it.              *)
LEMMA TokensAppended ==
  ASSUME NEW s \in Seq(Row), NEW r \in Row, NEW I \in SUBSET (DOMAIN s)
  PROVE  Tokens(Append(s, r), I) = Tokens(s, I)
<1> DEFINE f == [i \in DOMAIN s |-> s[i].tokens]
           q == Append(s, r)
           g == [i \in DOMAIN q |-> q[i].tokens]
<1>1. \A i \in I : f[i] = g[i]
  BY AppendedRow
<1>2. IsFiniteSet(I)
  BY RowsAreFinite
<1> HIDE DEF f, g
<1>3. Sum(f, I) = Sum(g, I)
  BY <1>1, <1>2, SumEqual
<1> QED BY <1>3 DEF f, g, Tokens, Sum

(* The sum of a function is the sum over its domain.                       *)
LEMMA SumOfFunction ==
  ASSUME NEW S, NEW f, DOMAIN f = S
  PROVE  SumFunction(f) = Sum(f, S)
BY DEF SumFunction, Sum

-----------------------------------------------------------------------------
(* The inductive invariant.                                                *)

Calls == [pc : {"idle", "chat", "search"}, at : Chain, day : Nat]

(* Nothing is of a later day than today.                                   *)
ClockInv ==
  /\ \A t \in Turns : call[t].day <= Today
  /\ \A t \in Turns : \A i \in 1..Len(rows[t]) : rows[t][i].day <= Today

(* The limits of a turn still hold while its request is awaited.           *)
BudgetInv ==
  \A t \in Turns : call[t].pc = "chat" =>
    Len(rows[t]) < TurnCalls /\ Tokens(rows[t], DOMAIN rows[t]) < TurnTokens

(* A row has at least the tokens the provider reported.                    *)
OwnInv == \A t \in Turns : \A i \in 1..Len(rows[t]) : rows[t][i].own <= rows[t][i].tokens

(* The transient failures of a provider are in the order of time.          *)
InOrder(out, time) == Sorted(out) /\ \A i \in 1..Len(out) : out[i] <= time

(* Its circuit knows the last of them; those it forgot are out of the      *)
(* window.                                                                 *)
Knows(known, out, time) ==
  \E k \in 1..Len(out) + 1 :
    /\ known = SubSeq(out, k, Len(out))
    /\ \A i \in 1..(k - 1) : out[i] + Window < time

BurstIn(times, i) == i >= Threshold /\ times[i - Threshold + 1] + Window >= times[i]

(* It is open until the end of the cooldown of the last burst.             *)
OpenFor(until, out) ==
  /\ until # 0 => \E i \in 1..Len(out) : BurstIn(out, i) /\ until = out[i] + Cooldown
  /\ \A i \in 1..Len(out) : BurstIn(out, i) => out[i] + Cooldown <= until

CircuitFits(known, until, out, time) ==
  InOrder(out, time) /\ Knows(known, out, time) /\ OpenFor(until, out)

CircuitInv == \A p \in Chain : CircuitFits(failures[p], opened[p], outages[p], now)

GInv ==
  /\ TypeOK /\ ClockInv /\ BudgetInv /\ OwnInv /\ CircuitInv
  /\ LimitsBoundRequests /\ EveryRequestAudited

-----------------------------------------------------------------------------
(* The shape of a step: a turn moves on and a circuit notices.             *)

(* A turn writes a row or not, and awaits the next call.                   *)
LedgerStep(t) ==
  \E tokens, own \in Usages, next \in Calls :
    /\ own <= tokens
    /\ \/ rows' = rows /\ call[t].pc # "chat"
       \/ rows' = Recorded(t, tokens, own) /\ call[t].pc # "idle"
    /\ Awaits(t, next)
    /\ next.day <= Today
    /\ next.pc = "chat" => next.day = Today /\ WithinBudget(rows', t)

(* A circuit is left alone, closed by an answer, or notices a failure.     *)
CircuitStep(p) ==
  \/ UNCHANGED <<failures, opened, outages>>
  \/ /\ failures' = [failures EXCEPT ![p] = <<>>]
     /\ opened' = [opened EXCEPT ![p] = 0]
     /\ outages' = [outages EXCEPT ![p] = <<>>]
  \/ Trips(p)

TurnMoves ==
  /\ \E t \in Turns : LedgerStep(t)
  /\ \E p \in Chain : CircuitStep(p)
  /\ remembered' \in [Chain -> Usages]
  /\ UNCHANGED <<now, crashes>>

(* The day of a time is a number.                                          *)
LEMMA TodayFacts ==
  ASSUME now \in Times
  PROVE  Today \in Nat /\ now \in Nat
<1>1. now \in Nat
  BY GatewayAssumption DEF Times
<1> QED BY <1>1, GatewayAssumption, DayFacts DEF Today

(* A turn that awaits nothing has a call.                                  *)
LEMMA IdleIsCall == Idle \in Calls
<1>1. 1 \in Chain
  BY GatewayAssumption DEF Chain
<1> QED BY <1>1 DEF Idle, Calls

(* The fallback either ends or sends a request to a provider of the chain, *)
(* today and within the budget (FallbackLLM.complete, BudgetGate.check).   *)
LEMMA CallFromFacts ==
  ASSUME NEW p \in Nat, NEW rs, NEW t, now \in Times
  PROVE  /\ CallFrom(p, rs, t) \in Calls
         /\ CallFrom(p, rs, t).pc # "search"
         /\ CallFrom(p, rs, t).day <= Today
         /\ CallFrom(p, rs, t).pc = "chat" => CallFrom(p, rs, t).day = Today /\ WithinBudget(rs, t)
<1>0. Today \in Nat
  BY TodayFacts
<1>1. CASE Admitting(p) # {} /\ WithinBudget(rs, t)
  <2> DEFINE q == CHOOSE q \in Admitting(p) : \A r \in Admitting(p) : q <= r
  <2>1. q \in Chain
    <3>1. Admitting(p) \in SUBSET (1..Providers) /\ Providers \in Nat
      BY GatewayAssumption DEF Admitting, Chain
    <3>2. \E r \in Admitting(p) : \A u \in Admitting(p) : r <= u
      BY <1>1, <3>1, MinExists
    <3>3. q \in Admitting(p)
      BY <3>2
    <3> HIDE DEF q
    <3> QED BY <3>3 DEF Admitting
  <2>2. CallFrom(p, rs, t) = [pc |-> "chat", at |-> q, day |-> Today]
    BY <1>1 DEF CallFrom
  <2> HIDE DEF q
  <2> QED BY <1>0, <1>1, <2>1, <2>2 DEF Calls
<1>2. CASE ~(Admitting(p) # {} /\ WithinBudget(rs, t))
  <2>1. CallFrom(p, rs, t) = Idle
    BY <1>2 DEF CallFrom
  <2>2. Idle.pc = "idle" /\ Idle.day = 0
    BY DEF Idle
  <2> QED BY <1>0, <2>1, <2>2, IdleIsCall
<1> QED BY <1>1, <1>2

(* The search chain ends or goes on with its next provider, without a      *)
(* budget.                                                                 *)
LEMMA SearchFromFacts ==
  ASSUME NEW p, now \in Times
  PROVE  /\ SearchFrom(p) \in Calls
         /\ SearchFrom(p).pc # "chat"
         /\ SearchFrom(p).day <= Today
<1>0. Today \in Nat
  BY TodayFacts
<1>1. CASE p \in Chain
  BY <1>0, <1>1 DEF SearchFrom, Calls
<1>2. CASE p \notin Chain
  <2>1. SearchFrom(p) = Idle
    BY <1>2 DEF SearchFrom
  <2> QED BY <1>0, <2>1, IdleIsCall DEF Idle
<1> QED BY <1>1, <1>2

(* Every action of a turn is of this shape.                                *)
LEMMA TurnShape ==
  ASSUME TypeOK, NEW t \in Turns,
         \/ Request(t)
         \/ \E own \in Usages, streamed \in BOOLEAN : Answers(t, own, streamed)
         \/ \E counts, falls \in BOOLEAN : Fails(t, counts, falls)
         \/ Search(t)
         \/ \E own \in Usages : SearchAnswers(t, own)
         \/ SearchFails(t)
         \/ SearchCancelled(t)
  PROVE  TurnMoves
<1>0. /\ now \in Times /\ call \in [Turns -> Calls] /\ remembered \in [Chain -> Usages]
      /\ Today \in Nat
  BY TodayFacts DEF TypeOK, Calls
<1>1. call[t] \in Calls /\ call[t].at \in Chain /\ call[t].at \in Nat /\ 1 \in Chain
  BY <1>0, GatewayAssumption DEF Calls, Chain
<1>2. Unknown \in Usages /\ \A u \in Usages : Unknown <= u /\ u <= u
  <2>1. Unknown \in Usages /\ Unknown = 0
    BY DEF Usages, Unknown
  <2>2. \A u \in Usages : u \in Nat
    BY UsagesAreNumbers
  <2> QED BY <2>1, <2>2
<1>3. Idle \in Calls /\ Idle.pc = "idle" /\ Idle.day = 0
  BY IdleIsCall DEF Idle
<1>4. CASE Request(t)
  <2>1. CallFrom(1, rows, t) \in Calls /\ CallFrom(1, rows, t).day <= Today
        /\ (CallFrom(1, rows, t).pc = "chat" =>
              CallFrom(1, rows, t).day = Today /\ WithinBudget(rows, t))
    BY <1>0, CallFromFacts
  <2>2. rows' = rows /\ call[t].pc # "chat" /\ Awaits(t, CallFrom(1, rows, t))
    BY <1>3, <1>4 DEF Request
  <2>3. LedgerStep(t)
    BY <1>2, <2>1, <2>2 DEF LedgerStep
  <2>4. CircuitStep(1) /\ remembered' = remembered /\ UNCHANGED <<now, crashes>>
    BY <1>4 DEF Request, CircuitStep, breakers
  <2> QED BY <1>0, <1>1, <2>3, <2>4 DEF TurnMoves
<1>5. ASSUME NEW own \in Usages, NEW streamed \in BOOLEAN, Answers(t, own, streamed)
      PROVE  TurnMoves
  <2> DEFINE p == call[t].at
             usage == UsageAfter(p, own, streamed)
  <2>0. remembered[p] \in Usages
    BY <1>0, <1>1
  <2>1. usage \in Usages /\ own <= usage
    <3>1. CASE streamed /\ own = Unknown
      <4>1. usage = remembered[p]
        BY <3>1 DEF UsageAfter
      <4> QED BY <1>2, <2>0, <3>1, <4>1
    <3>2. CASE ~(streamed /\ own = Unknown)
      <4>1. usage = own
        BY <3>2 DEF UsageAfter
      <4> QED BY <1>2, <4>1
    <3> QED BY <3>1, <3>2
  <2>2. rows' = Recorded(t, usage, own) /\ call[t].pc = "chat" /\ Awaits(t, Idle)
    BY <1>5 DEF Answers
  <2>3. LedgerStep(t)
    <3> HIDE DEF usage
    <3> QED BY <1>0, <1>3, <2>1, <2>2 DEF LedgerStep
  <2>4. CircuitStep(p) /\ remembered' = [remembered EXCEPT ![p] = usage] /\ UNCHANGED <<now, crashes>>
    BY <1>5 DEF Answers, CircuitStep
  <2> QED BY <1>0, <1>1, <2>1, <2>3, <2>4 DEF TurnMoves
<1>6. ASSUME NEW counts \in BOOLEAN, NEW falls \in BOOLEAN, Fails(t, counts, falls)
      PROVE  TurnMoves
  <2> DEFINE p == call[t].at
             rs == Recorded(t, remembered[p], Unknown)
             next == IF falls THEN CallFrom(p + 1, rs, t) ELSE Idle
  <2>0. remembered[p] \in Usages
    BY <1>0, <1>1
  <2>1. remembered[p] \in Usages /\ Unknown <= remembered[p]
    BY <1>2, <2>0
  <2>2. rows' = rs /\ call[t].pc = "chat" /\ Awaits(t, next)
    BY <1>6 DEF Fails
  <2>3. next \in Calls /\ next.day <= Today
        /\ (next.pc = "chat" => next.day = Today /\ WithinBudget(rs, t))
    <3>1. CASE falls
      <4>1. p + 1 \in Nat /\ next = CallFrom(p + 1, rs, t)
        BY <1>1, <3>1
      <4> HIDE DEF next, rs, p
      <4> QED BY <1>0, <4>1, CallFromFacts
    <3>2. CASE ~falls
      BY <1>0, <1>3, <3>2
    <3> QED BY <3>1, <3>2
  <2>4. LedgerStep(t)
    <3>1. WithinBudget(rs, t) => WithinBudget(rows', t)
      BY <2>2
    <3> HIDE DEF next
    <3> QED BY <1>2, <2>1, <2>2, <2>3, <3>1 DEF LedgerStep
  <2>5. CircuitStep(p) /\ remembered' = remembered /\ UNCHANGED <<now, crashes>>
    BY <1>6 DEF Fails, CircuitStep
  <2> QED BY <1>0, <1>1, <2>4, <2>5 DEF TurnMoves
<1>7. CASE Search(t)
  <2>1. SearchFrom(1) \in Calls /\ SearchFrom(1).day <= Today /\ SearchFrom(1).pc # "chat"
    BY <1>0, SearchFromFacts
  <2>2. rows' = rows /\ call[t].pc # "chat" /\ Awaits(t, SearchFrom(1))
    BY <1>3, <1>7 DEF Search
  <2>3. LedgerStep(t)
    BY <1>2, <2>1, <2>2 DEF LedgerStep
  <2>4. CircuitStep(1) /\ remembered' = remembered /\ UNCHANGED <<now, crashes>>
    BY <1>7 DEF Search, CircuitStep, breakers
  <2> QED BY <1>0, <1>1, <2>3, <2>4 DEF TurnMoves
<1>8. ASSUME NEW own \in Usages, SearchAnswers(t, own)
      PROVE  TurnMoves
  <2>1. rows' = Recorded(t, own, own) /\ call[t].pc = "search" /\ Awaits(t, Idle) /\ own <= own
    BY <1>2, <1>8 DEF SearchAnswers
  <2>2. LedgerStep(t)
    BY <1>0, <1>3, <2>1 DEF LedgerStep
  <2>3. CircuitStep(1) /\ remembered' = remembered /\ UNCHANGED <<now, crashes>>
    BY <1>8 DEF SearchAnswers, CircuitStep, breakers
  <2> QED BY <1>0, <1>1, <2>2, <2>3 DEF TurnMoves
<1>9. CASE SearchFails(t)
  <2> DEFINE next == SearchFrom(call[t].at + 1)
  <2>1. next \in Calls /\ next.day <= Today /\ next.pc # "chat"
    BY <1>0, SearchFromFacts
  <2>2. rows' = Recorded(t, Unknown, Unknown) /\ call[t].pc = "search" /\ Awaits(t, next)
    BY <1>9 DEF SearchFails
  <2> HIDE DEF next
  <2>3. LedgerStep(t)
    BY <1>2, <2>1, <2>2 DEF LedgerStep
  <2>4. CircuitStep(1) /\ remembered' = remembered /\ UNCHANGED <<now, crashes>>
    BY <1>9 DEF SearchFails, CircuitStep, breakers
  <2> QED BY <1>0, <1>1, <2>3, <2>4 DEF TurnMoves
<1>10. CASE SearchCancelled(t)
  <2>1. rows' = rows /\ call[t].pc # "chat" /\ Awaits(t, Idle)
    BY <1>10 DEF SearchCancelled
  <2>2. LedgerStep(t)
    BY <1>0, <1>2, <1>3, <2>1 DEF LedgerStep
  <2>3. CircuitStep(1) /\ remembered' = remembered /\ UNCHANGED <<now, crashes>>
    BY <1>10 DEF SearchCancelled, CircuitStep, breakers
  <2> QED BY <1>0, <1>1, <2>2, <2>3 DEF TurnMoves
<1> QED BY <1>4, <1>5, <1>6, <1>7, <1>8, <1>9, <1>10

(* Every step is one of a turn, a death, a tick or none.                   *)
LEMMA StepShape ==
  ASSUME TypeOK, [Next]_vars
  PROVE  TurnMoves \/ Crash \/ Tick \/ UNCHANGED vars
BY TurnShape DEF Next

-----------------------------------------------------------------------------
(* The rows of the turns.                                                  *)

(* The row that a request leaves.                                          *)
LEMMA RecordedFacts ==
  ASSUME TypeOK, ClockInv, NEW t \in Turns, NEW tokens \in Usages, NEW own \in Usages,
         call[t].pc # "idle", rows' = Recorded(t, tokens, own)
  PROVE  \E r \in Row :
           /\ r.kind = call[t].pc /\ r.day = call[t].day /\ r.tokens = tokens /\ r.own = own
           /\ rows' = [rows EXCEPT ![t] = Append(@, r)]
<1> DEFINE r == [kind |-> call[t].pc, day |-> call[t].day, tokens |-> tokens, own |-> own]
<1>1. r \in Row
  BY DEF TypeOK, Row
<1>2. rows' = [rows EXCEPT ![t] = Append(@, r)]
  BY DEF Recorded
<1> QED BY <1>1, <1>2

(* What a turn's step does to the rows and calls.                          *)
LEMMA RowsType ==
  ASSUME TypeOK, ClockInv, NEW t \in Turns, LedgerStep(t)
  PROVE  /\ rows' \in [Turns -> Seq(Row)]
         /\ \A u \in Turns : u # t => rows'[u] = rows[u] /\ call'[u] = call[u]
         /\ \/ rows'[t] = rows[t] /\ call[t].pc # "chat"
            \/ /\ call[t].pc # "idle"
               /\ \E r \in Row : /\ rows'[t] = Append(rows[t], r)
                                 /\ r.kind = call[t].pc /\ r.day = call[t].day /\ r.own <= r.tokens
         /\ call' \in [Turns -> Calls]
         /\ call'[t].day <= Today
         /\ call'[t].pc = "chat" => call'[t].day = Today /\ WithinBudget(rows', t)
         /\ requests' = [requests EXCEPT ![t] = IF call'[t].pc = "chat" THEN @ + 1 ELSE @]
<1>0. rows \in [Turns -> Seq(Row)] /\ call \in [Turns -> Calls]
  BY DEF TypeOK, Calls
<1>1. PICK tokens \in Usages, own \in Usages, next \in Calls :
        /\ own <= tokens
        /\ \/ rows' = rows /\ call[t].pc # "chat"
           \/ rows' = Recorded(t, tokens, own) /\ call[t].pc # "idle"
        /\ Awaits(t, next)
        /\ next.day <= Today
        /\ next.pc = "chat" => next.day = Today /\ WithinBudget(rows', t)
  BY DEF LedgerStep
<1>2. call' = [call EXCEPT ![t] = next] /\ call'[t] = next /\ call' \in [Turns -> Calls]
  BY <1>0, <1>1 DEF Awaits
<1>3. requests' = [requests EXCEPT ![t] = IF call'[t].pc = "chat" THEN @ + 1 ELSE @]
  BY <1>1, <1>2 DEF Awaits
<1>4. \/ rows' = rows /\ call[t].pc # "chat"
      \/ /\ call[t].pc # "idle"
         /\ \E r \in Row : /\ rows' = [rows EXCEPT ![t] = Append(@, r)]
                           /\ r.kind = call[t].pc /\ r.day = call[t].day /\ r.own <= r.tokens
  BY <1>1, RecordedFacts
<1>5. CASE rows' = rows /\ call[t].pc # "chat"
  BY <1>0, <1>1, <1>2, <1>3, <1>5
<1>6. CASE call[t].pc # "idle" /\ \E r \in Row :
             /\ rows' = [rows EXCEPT ![t] = Append(@, r)]
             /\ r.kind = call[t].pc /\ r.day = call[t].day /\ r.own <= r.tokens
  <2>1. PICK r \in Row : /\ rows' = [rows EXCEPT ![t] = Append(@, r)]
                         /\ r.kind = call[t].pc /\ r.day = call[t].day /\ r.own <= r.tokens
    BY <1>6
  <2>2. rows[t] \in Seq(Row) /\ Append(rows[t], r) \in Seq(Row)
    BY <1>0, AppendedRow
  <2>3. rows' \in [Turns -> Seq(Row)] /\ rows'[t] = Append(rows[t], r)
        /\ \A u \in Turns : u # t => rows'[u] = rows[u]
    BY <1>0, <2>1, <2>2
  <2> QED BY <1>0, <1>1, <1>2, <1>3, <1>6, <2>1, <2>3
<1> QED BY <1>4, <1>5, <1>6

(* Every step keeps the count of requests and rows.                        *)
LEMMA AuditKept ==
  ASSUME GInv, [Next]_vars
  PROVE  EveryRequestAudited' /\ requests' \in [Turns -> Nat]
<1> USE DEF GInv
<1>0. /\ rows \in [Turns -> Seq(Row)] /\ call \in [Turns -> Calls] /\ requests \in [Turns -> Nat]
  BY DEF TypeOK, Calls
<1>1. ASSUME NEW s \in Seq(Row) PROVE Cardinality(Chats(s)) \in Nat
  BY RowsAreFinite DEF Chats
<1>2. \A u \in Turns : requests[u] = Cardinality(Chats(rows[u])) + (IF call[u].pc = "chat" THEN 1 ELSE 0)
  BY DEF EveryRequestAudited
<1>3. CASE TurnMoves
  <2>1. PICK t \in Turns : LedgerStep(t)
    BY <1>3 DEF TurnMoves
  <2>2. /\ \A u \in Turns : u # t => rows'[u] = rows[u] /\ call'[u] = call[u]
        /\ \/ rows'[t] = rows[t] /\ call[t].pc # "chat"
           \/ /\ call[t].pc # "idle"
              /\ \E r \in Row : rows'[t] = Append(rows[t], r) /\ r.kind = call[t].pc
        /\ requests' = [requests EXCEPT ![t] = IF call'[t].pc = "chat" THEN @ + 1 ELSE @]
    BY <2>1, RowsType
  <2>3. requests[t] \in Nat /\ requests' \in [Turns -> Nat]
    BY <1>0, <2>2
  <2>4. Cardinality(Chats(rows'[t]))
          = Cardinality(Chats(rows[t])) + (IF call[t].pc = "chat" THEN 1 ELSE 0)
    <3>1. rows[t] \in Seq(Row) /\ Cardinality(Chats(rows[t])) \in Nat
      BY <1>0, <1>1
    <3>2. CASE rows'[t] = rows[t] /\ call[t].pc # "chat"
      BY <3>1, <3>2
    <3>3. ASSUME NEW r \in Row, rows'[t] = Append(rows[t], r), r.kind = call[t].pc
          PROVE  Cardinality(Chats(rows'[t]))
                   = Cardinality(Chats(rows[t])) + (IF call[t].pc = "chat" THEN 1 ELSE 0)
      BY <3>1, <3>3, ChatsAppended
    <3> QED BY <2>2, <3>2, <3>3
  <2>5. ASSUME NEW u \in Turns
        PROVE  requests'[u] = Cardinality(Chats(rows'[u])) + (IF call'[u].pc = "chat" THEN 1 ELSE 0)
    <3>1. CASE u = t
      <4>1. requests'[t] = requests[t] + (IF call'[t].pc = "chat" THEN 1 ELSE 0)
        BY <1>0, <2>2, <2>3
      <4>2. requests[t] = Cardinality(Chats(rows'[t]))
        BY <1>2, <2>4
      <4> QED BY <3>1, <4>1, <4>2
    <3>2. CASE u # t
      BY <1>0, <1>2, <2>2, <3>2
    <3> QED BY <3>1, <3>2
  <2> QED BY <2>3, <2>5 DEF EveryRequestAudited
<1>4. CASE Crash
  <2>1. /\ requests' = [t \in Turns |-> requests[t] - (IF call[t].pc = "chat" THEN 1 ELSE 0)]
        /\ call' = [t \in Turns |-> Idle] /\ rows' = rows
    BY <1>4 DEF Crash
  <2>2. ASSUME NEW u \in Turns
        PROVE  /\ requests'[u] = Cardinality(Chats(rows'[u])) + (IF call'[u].pc = "chat" THEN 1 ELSE 0)
               /\ requests'[u] \in Nat
    <3>1. rows[u] \in Seq(Row) /\ Cardinality(Chats(rows[u])) \in Nat
      BY <1>0, <1>1
    <3>2. requests'[u] = Cardinality(Chats(rows[u]))
      BY <1>2, <2>1, <3>1
    <3>3. call'[u].pc # "chat"
      BY <2>1 DEF Idle
    <3> QED BY <2>1, <3>1, <3>2, <3>3
  <2>3. requests' \in [Turns -> Nat]
    BY <2>1, <2>2
  <2> QED BY <2>2, <2>3 DEF EveryRequestAudited
<1>5. CASE Tick
  BY <1>0, <1>2, <1>5 DEF Tick, history, EveryRequestAudited
<1>6. CASE UNCHANGED vars
  BY <1>0, <1>2, <1>6 DEF vars, history, EveryRequestAudited
<1> QED BY <1>3, <1>4, <1>5, <1>6, StepShape

(* No step makes a row or a call of a later day.                           *)
LEMMA RowsClockKept ==
  ASSUME GInv, [Next]_vars
  PROVE  /\ \A t \in Turns : call'[t].day <= Today'
         /\ \A t \in Turns : \A i \in 1..Len(rows'[t]) : rows'[t][i].day <= Today'
<1> USE DEF GInv
<1>0. /\ rows \in [Turns -> Seq(Row)] /\ call \in [Turns -> Calls]
      /\ now \in Times /\ Today \in Nat
  BY TodayFacts DEF TypeOK, Calls
<1>1. /\ \A u \in Turns : call[u].day <= Today /\ call[u].day \in Nat
      /\ \A u \in Turns : \A i \in 1..Len(rows[u]) : rows[u][i].day <= Today
  BY <1>0 DEF ClockInv, Calls
<1>2. CASE TurnMoves
  <2>1. PICK t \in Turns : LedgerStep(t)
    BY <1>2 DEF TurnMoves
  <2>2. /\ \A u \in Turns : u # t => rows'[u] = rows[u] /\ call'[u] = call[u]
        /\ \/ rows'[t] = rows[t]
           \/ \E r \in Row : rows'[t] = Append(rows[t], r) /\ r.day = call[t].day
        /\ call'[t].day <= Today
    BY <2>1, RowsType
  <2>3. Today' = Today
    BY <1>2 DEF TurnMoves, Today
  <2>4. ASSUME NEW u \in Turns, NEW i \in 1..Len(rows'[u]) PROVE rows'[u][i].day <= Today
    <3>1. CASE rows'[u] = rows[u]
      BY <1>1, <3>1
    <3>2. ASSUME NEW r \in Row, u = t, rows'[t] = Append(rows[t], r), r.day = call[t].day
          PROVE  rows'[u][i].day <= Today
      <4>1. rows[t] \in Seq(Row)
        BY <1>0
      <4>2. /\ Len(rows[t]) \in Nat /\ i \in 1..Len(rows[t]) + 1
            /\ i \in 1..Len(rows[t]) => rows'[u][i] = rows[t][i]
            /\ i = Len(rows[t]) + 1 => rows'[u][i] = r
        BY <3>2, <4>1, AppendedRow
      <4>3. CASE i \in 1..Len(rows[t])
        BY <1>1, <4>2, <4>3
      <4>4. CASE i = Len(rows[t]) + 1
        BY <1>1, <3>2, <4>2, <4>4
      <4> QED BY <4>2, <4>3, <4>4
    <3> QED BY <2>2, <3>1, <3>2
  <2>5. \A u \in Turns : call'[u].day <= Today
    BY <1>1, <2>2
  <2> QED BY <2>3, <2>4, <2>5
<1>3. CASE Crash
  <2>1. Today' = Today /\ rows' = rows /\ call' = [t \in Turns |-> Idle]
    BY <1>3 DEF Crash, Today
  <2>2. Idle.day <= Today
    BY <1>0 DEF Idle
  <2> QED BY <1>1, <2>1, <2>2
<1>4. CASE Tick
  <2>1. Today' \in Nat /\ Today <= Today' /\ rows' = rows /\ call' = call
    <3>1. now \in Nat /\ now' = now + 1
      BY <1>0, <1>4, TodayFacts DEF Tick
    <3>2. DayLength \in Nat \ {0}
      BY GatewayAssumption
    <3>3. now \div DayLength \in Nat /\ now \div DayLength <= (now + 1) \div DayLength
      BY <3>1, <3>2, DayFacts
    <3>4. (now + 1) \div DayLength \in Nat
      BY <3>1, <3>2, DayFacts
    <3> QED BY <1>4, <3>1, <3>3, <3>4 DEF Today, Tick
  <2>2. ASSUME NEW u \in Turns, NEW i \in 1..Len(rows[u]) PROVE rows[u][i].day \in Nat
    <3>1. rows[u] \in Seq(Row)
      BY <1>0
    <3>2. rows[u][i] \in Row
      BY <3>1, ElementOfSeq
    <3> QED BY <3>2 DEF Row
  <2> QED BY <1>0, <1>1, <2>1, <2>2
<1>5. CASE UNCHANGED vars
  <2>1. Today' = Today /\ rows' = rows /\ call' = call
    BY <1>5 DEF vars, Today
  <2> QED BY <1>1, <2>1
<1> QED BY <1>2, <1>3, <1>4, <1>5, StepShape

(* A request that is awaited was checked against the rows there are still. *)
LEMMA BudgetKept ==
  ASSUME GInv, [Next]_vars
  PROVE  BudgetInv' /\ OwnInv'
<1> USE DEF GInv
<1>0. rows \in [Turns -> Seq(Row)] /\ call \in [Turns -> Calls]
  BY DEF TypeOK, Calls
<1>1. CASE TurnMoves
  <2>1. PICK t \in Turns : LedgerStep(t)
    BY <1>1 DEF TurnMoves
  <2>2. /\ \A u \in Turns : u # t => rows'[u] = rows[u] /\ call'[u] = call[u]
        /\ \/ rows'[t] = rows[t]
           \/ \E r \in Row : rows'[t] = Append(rows[t], r) /\ r.own <= r.tokens
        /\ call'[t].pc = "chat" => WithinBudget(rows', t)
    BY <2>1, RowsType
  <2>3. ASSUME NEW u \in Turns, call'[u].pc = "chat"
        PROVE  Len(rows'[u]) < TurnCalls /\ Tokens(rows'[u], DOMAIN rows'[u]) < TurnTokens
    <3>1. CASE u # t
      BY <2>2, <2>3, <3>1 DEF BudgetInv
    <3>2. CASE u = t
      BY <2>2, <2>3, <3>2 DEF WithinBudget, Below
    <3> QED BY <3>1, <3>2
  <2>4. ASSUME NEW u \in Turns, NEW i \in 1..Len(rows'[u])
        PROVE  rows'[u][i].own <= rows'[u][i].tokens
    <3>1. CASE rows'[u] = rows[u]
      BY <3>1 DEF OwnInv
    <3>2. ASSUME NEW r \in Row, u = t, rows'[t] = Append(rows[t], r), r.own <= r.tokens
          PROVE  rows'[u][i].own <= rows'[u][i].tokens
      <4>1. rows[t] \in Seq(Row)
        BY <1>0
      <4>2. /\ Len(rows[t]) \in Nat /\ i \in 1..Len(rows[t]) + 1
            /\ i \in 1..Len(rows[t]) => rows'[u][i] = rows[t][i]
            /\ i = Len(rows[t]) + 1 => rows'[u][i] = r
        BY <3>2, <4>1, AppendedRow
      <4>3. CASE i \in 1..Len(rows[t])
        BY <4>2, <4>3 DEF OwnInv
      <4>4. CASE i = Len(rows[t]) + 1
        BY <3>2, <4>2, <4>4
      <4> QED BY <4>2, <4>3, <4>4
    <3> QED BY <2>2, <3>1, <3>2
  <2> QED BY <2>3, <2>4 DEF BudgetInv, OwnInv
<1>2. CASE Crash
  <2>1. rows' = rows /\ call' = [t \in Turns |-> Idle] /\ Idle.pc # "chat"
    BY <1>2 DEF Crash, Idle
  <2> QED BY <2>1 DEF BudgetInv, OwnInv
<1>3. CASE Tick
  BY <1>3 DEF Tick, BudgetInv, OwnInv
<1>4. CASE UNCHANGED vars
  BY <1>4 DEF vars, BudgetInv, OwnInv
<1> QED BY <1>1, <1>2, <1>3, <1>4, StepShape

(* No chat row is added when the rows before it used up a limit of the     *)
(* turn.                                                                   *)
LEMMA TurnLimitKept ==
  ASSUME GInv, [Next]_vars
  PROVE  \A t \in Turns : \A i \in 1..Len(rows'[t]) :
           rows'[t][i].kind = "chat" => i <= TurnCalls /\ Tokens(rows'[t], 1..(i - 1)) < TurnTokens
<1> USE DEF GInv
<1>0. rows \in [Turns -> Seq(Row)] /\ call \in [Turns -> Calls]
  BY DEF TypeOK, Calls
<1>1. \A t \in Turns : \A i \in 1..Len(rows[t]) :
         rows[t][i].kind = "chat" => i <= TurnCalls /\ Tokens(rows[t], 1..(i - 1)) < TurnTokens
  BY DEF LimitsBoundRequests
<1>2. CASE TurnMoves
  <2>1. PICK t \in Turns : LedgerStep(t)
    BY <1>2 DEF TurnMoves
  <2>2. /\ \A u \in Turns : u # t => rows'[u] = rows[u]
        /\ \/ rows'[t] = rows[t]
           \/ \E r \in Row : rows'[t] = Append(rows[t], r) /\ r.kind = call[t].pc
    BY <2>1, RowsType
  <2> SUFFICES ASSUME NEW u \in Turns, NEW i \in 1..Len(rows'[u]), rows'[u][i].kind = "chat"
               PROVE  i <= TurnCalls /\ Tokens(rows'[u], 1..(i - 1)) < TurnTokens
    OBVIOUS
  <2>3. CASE rows'[u] = rows[u]
    BY <1>1, <2>3
  <2>4. ASSUME NEW r \in Row, u = t, rows'[t] = Append(rows[t], r), r.kind = call[t].pc
        PROVE  i <= TurnCalls /\ Tokens(rows'[u], 1..(i - 1)) < TurnTokens
    <3>1. rows[t] \in Seq(Row)
      BY <1>0
    <3>2. /\ Len(rows[t]) \in Nat /\ i \in 1..Len(rows[t]) + 1 /\ DOMAIN rows[t] = 1..Len(rows[t])
          /\ i \in 1..Len(rows[t]) => rows'[u][i] = rows[t][i]
          /\ i = Len(rows[t]) + 1 => rows'[u][i] = r
      BY <2>4, <3>1, AppendedRow
    <3>3. 1..(i - 1) \in SUBSET (DOMAIN rows[t])
      BY <3>2
    <3>4. Tokens(rows'[u], 1..(i - 1)) = Tokens(rows[t], 1..(i - 1))
      BY <2>4, <3>1, <3>3, TokensAppended
    <3>5. CASE i \in 1..Len(rows[t])
      BY <1>1, <3>2, <3>4, <3>5
    <3>6. CASE i = Len(rows[t]) + 1
      <4>1. call[t].pc = "chat"
        BY <2>4, <3>2, <3>6
      <4>2. Len(rows[t]) < TurnCalls /\ Tokens(rows[t], DOMAIN rows[t]) < TurnTokens
        BY <4>1 DEF BudgetInv
      <4>3. 1..(i - 1) = DOMAIN rows[t]
        BY <3>2, <3>6
      <4>4. TurnCalls \in Nat
        BY GatewayAssumption
      <4> QED BY <3>2, <3>4, <3>6, <4>2, <4>3, <4>4
    <3> QED BY <3>2, <3>5, <3>6
  <2> QED BY <2>2, <2>3, <2>4
<1>3. CASE rows' = rows
  BY <1>1, <1>3
<1>4. Crash \/ Tick \/ UNCHANGED vars => rows' = rows
  BY DEF Crash, Tick, vars
<1> QED BY <1>2, <1>3, <1>4, StepShape

-----------------------------------------------------------------------------
(* The requests of a day: those with a row and those awaited.              *)

LoadOf(s, c, day) ==
  Cardinality(Chats(s) \cap OnDay(s, day)) + (IF c.pc = "chat" /\ c.day = day THEN 1 ELSE 0)

Load(rs, cs, day) == Sum([t \in Turns |-> LoadOf(rs[t], cs[t], day)], Turns)

DayBounded == Load(rows, call, Today) < DayCalls + Cardinality(Turns)

(* The sum that LimitsBoundRequests bounds.                                *)
LEMMA LoadIsSum ==
  ASSUME NEW rs, NEW cs, NEW day
  PROVE  Load(rs, cs, day)
           = SumFunction([t \in Turns |-> Cardinality(Chats(rs[t]) \cap OnDay(rs[t], day))
                                  + (IF cs[t].pc = "chat" /\ cs[t].day = day THEN 1 ELSE 0)])
<1> DEFINE f == [t \in Turns |-> LoadOf(rs[t], cs[t], day)]
<1>1. DOMAIN f = Turns
  OBVIOUS
<1>2. SumFunction(f) = Sum(f, Turns)
  <2> HIDE DEF f
  <2> QED BY <1>1, SumOfFunction
<1> QED BY <1>2 DEF Load, LoadOf

(* The turns are finitely many.                                            *)
LEMMA TurnsAreFinite ==
  /\ IsFiniteSet(Turns) /\ Cardinality(Turns) \in Nat /\ Cardinality(Turns) > 0
  /\ DayCalls \in Nat
<1>1. IsFiniteSet(Turns) /\ Turns # {} /\ DayCalls \in Nat
  BY GatewayAssumption
<1> QED BY <1>1, FS_CardinalityType, FS_EmptySet

(* A turn has at most one request more than it has rows of the day.        *)
LEMMA LoadType ==
  ASSUME NEW s \in Seq(Row), NEW c, NEW day
  PROVE  /\ LoadOf(s, c, day) \in Nat /\ Cardinality(OnDay(s, day)) \in Nat
         /\ LoadOf(s, c, day) <= Cardinality(OnDay(s, day)) + 1
<1> DEFINE C == Chats(s) \cap OnDay(s, day)
           D == OnDay(s, day)
<1>1. C \in SUBSET D /\ D \in SUBSET (DOMAIN s) /\ C \in SUBSET (DOMAIN s)
  BY DEF OnDay
<1> HIDE DEF C, D
<1>2. Cardinality(C) \in Nat /\ Cardinality(D) \in Nat /\ IsFiniteSet(D)
  BY <1>1, RowsAreFinite
<1>3. Cardinality(C) <= Cardinality(D)
  BY <1>1, <1>2, FS_Subset
<1> QED BY <1>2, <1>3 DEF LoadOf, C, D

(* If no turn has more requests than before, the bound holds still.        *)
LEMMA LoadsBounded ==
  ASSUME NEW rs \in [Turns -> Seq(Row)], NEW cs, NEW day,
         NEW rs2 \in [Turns -> Seq(Row)], NEW cs2, NEW day2,
         \A t \in Turns : LoadOf(rs2[t], cs2[t], day2) <= LoadOf(rs[t], cs[t], day),
         Load(rs, cs, day) < DayCalls + Cardinality(Turns)
  PROVE  Load(rs2, cs2, day2) < DayCalls + Cardinality(Turns)
<1> DEFINE f == [t \in Turns |-> LoadOf(rs[t], cs[t], day)]
           g == [t \in Turns |-> LoadOf(rs2[t], cs2[t], day2)]
<1>1. \A t \in Turns : f[t] \in Nat /\ g[t] \in Nat /\ g[t] <= f[t] + 0
  <2>1. \A t \in Turns : LoadOf(rs[t], cs[t], day) \in Nat /\ LoadOf(rs2[t], cs2[t], day2) \in Nat
    BY LoadType
  <2> QED BY <2>1
<1> HIDE DEF f, g
<1>2. Sum(g, Turns) <= Sum(f, Turns) + 0 * Cardinality(Turns)
  BY <1>1, TurnsAreFinite, SumBounded
<1>3. Sum(g, Turns) \in Nat /\ Sum(f, Turns) \in Nat
  BY <1>1, TurnsAreFinite, SumType
<1>4. Sum(f, Turns) < DayCalls + Cardinality(Turns)
  BY DEF Load, f
<1>5. Sum(g, Turns) < DayCalls + Cardinality(Turns)
  BY <1>2, <1>3, <1>4, TurnsAreFinite
<1> QED BY <1>5 DEF Load, g

(* When BudgetGate.check lets a request pass, the rows are below the limit *)
(* and every turn awaits at most one request.                              *)
LEMMA LoadAdmitted ==
  ASSUME NEW rs \in [Turns -> Seq(Row)], NEW cs, NEW day, CallsOn(rs, day) < DayCalls
  PROVE  Load(rs, cs, day) < DayCalls + Cardinality(Turns)
<1> DEFINE f == [t \in Turns |-> LoadOf(rs[t], cs[t], day)]
           g == [t \in Turns |-> Cardinality(OnDay(rs[t], day))]
<1>1. \A t \in Turns : f[t] \in Nat /\ g[t] \in Nat /\ f[t] <= g[t] + 1
  <2>1. \A t \in Turns : /\ LoadOf(rs[t], cs[t], day) \in Nat /\ Cardinality(OnDay(rs[t], day)) \in Nat
                         /\ LoadOf(rs[t], cs[t], day) <= Cardinality(OnDay(rs[t], day)) + 1
    BY LoadType
  <2> QED BY <2>1
<1>2. DOMAIN g = Turns
  OBVIOUS
<1> HIDE DEF f, g
<1>3. Sum(f, Turns) <= Sum(g, Turns) + 1 * Cardinality(Turns)
  BY <1>1, TurnsAreFinite, SumBounded
<1>4. Sum(g, Turns) \in Nat /\ Sum(f, Turns) \in Nat
  BY <1>1, TurnsAreFinite, SumType
<1>5. Sum(g, Turns) < DayCalls
  BY <1>2, SumOfFunction DEF CallsOn, g
<1>6. Sum(f, Turns) < DayCalls + Cardinality(Turns)
  BY <1>3, <1>4, <1>5, TurnsAreFinite
<1> QED BY <1>6 DEF Load, f

(* Every step keeps the bound on the requests of the day.                  *)
LEMMA DayBoundedKept ==
  ASSUME GInv, [Next]_vars, rows' \in [Turns -> Seq(Row)]
  PROVE  DayBounded'
<1> USE DEF GInv
<1>0. /\ rows \in [Turns -> Seq(Row)] /\ call \in [Turns -> Calls]
      /\ Today \in Nat
  BY TodayFacts DEF TypeOK, Calls
<1>1. Load(rows, call, Today) < DayCalls + Cardinality(Turns)
  BY LoadIsSum DEF LimitsBoundRequests
<1>2. SUFFICES ASSUME NEW d, d = Today' PROVE Load(rows', call', d) < DayCalls + Cardinality(Turns)
  BY DEF DayBounded
<1>3. ASSUME \A t \in Turns : LoadOf(rows'[t], call'[t], d) <= LoadOf(rows[t], call[t], Today)
      PROVE  Load(rows', call', d) < DayCalls + Cardinality(Turns)
  BY <1>0, <1>1, <1>3, LoadsBounded
<1>4. CASE TurnMoves
  <2>1. PICK t \in Turns : LedgerStep(t)
    BY <1>4 DEF TurnMoves
  <2>2. /\ \A u \in Turns : u # t => rows'[u] = rows[u] /\ call'[u] = call[u]
        /\ \/ rows'[t] = rows[t] /\ call[t].pc # "chat"
           \/ /\ call[t].pc # "idle"
              /\ \E r \in Row : /\ rows'[t] = Append(rows[t], r)
                                /\ r.kind = call[t].pc /\ r.day = call[t].day
        /\ call'[t].pc = "chat" => WithinBudget(rows', t)
    BY <2>1, RowsType
  <2>3. d = Today
    BY <1>2, <1>4 DEF TurnMoves, Today
  <2>4. CASE call'[t].pc = "chat"
    <3>1. CallsOn(rows', d) < DayCalls
      BY <2>2, <2>3, <2>4 DEF WithinBudget, Below
    <3> QED BY <3>1, LoadAdmitted
  <2>5. CASE call'[t].pc # "chat"
    <3>1. ASSUME NEW u \in Turns
          PROVE  LoadOf(rows'[u], call'[u], d) <= LoadOf(rows[u], call[u], Today)
      <4>0. LoadOf(rows[u], call[u], Today) \in Nat /\ rows[u] \in Seq(Row)
            /\ Cardinality(Chats(rows[u]) \cap OnDay(rows[u], Today)) \in Nat
        <5>1. rows[u] \in Seq(Row) /\ Chats(rows[u]) \cap OnDay(rows[u], Today) \in SUBSET (DOMAIN rows[u])
          BY <1>0 DEF Chats
        <5> QED BY <5>1, LoadType, RowsAreFinite
      <4>1. CASE u # t
        BY <2>2, <2>3, <4>0, <4>1
      <4>2. CASE u = t /\ rows'[t] = rows[t] /\ call[t].pc # "chat"
        BY <2>3, <2>5, <4>0, <4>2 DEF LoadOf
      <4>3. ASSUME NEW r \in Row, u = t, rows'[t] = Append(rows[t], r),
                   r.kind = call[t].pc, r.day = call[t].day
            PROVE  LoadOf(rows'[u], call'[u], d) <= LoadOf(rows[u], call[u], Today)
        <5>1. Cardinality(Chats(rows'[u]) \cap OnDay(rows'[u], d))
                = Cardinality(Chats(rows[u]) \cap OnDay(rows[u], d))
                  + (IF r.kind = "chat" /\ r.day = d THEN 1 ELSE 0)
          <6>1. Cardinality(Chats(Append(rows[u], r)) \cap OnDay(Append(rows[u], r), d))
                  = Cardinality(Chats(rows[u]) \cap OnDay(rows[u], d))
                    + (IF r.kind = "chat" /\ r.day = d THEN 1 ELSE 0)
            BY <4>0, DayChatsAppended
          <6> QED BY <4>3, <6>1
        <5>2. LoadOf(rows'[u], call'[u], d) = Cardinality(Chats(rows'[u]) \cap OnDay(rows'[u], d)) + 0
          BY <2>5, <4>3 DEF LoadOf
        <5> QED BY <2>3, <4>0, <4>3, <5>1, <5>2 DEF LoadOf
      <4> QED BY <2>2, <4>1, <4>2, <4>3
    <3> QED BY <1>3, <3>1
  <2> QED BY <2>4, <2>5
<1>5. CASE Crash
  <2>1. d = Today /\ rows' = rows /\ call' = [t \in Turns |-> Idle] /\ Idle.pc # "chat"
    BY <1>2, <1>5 DEF Crash, Today, Idle
  <2>2. ASSUME NEW u \in Turns
        PROVE  LoadOf(rows'[u], call'[u], d) <= LoadOf(rows[u], call[u], Today)
    <3>1. rows[u] \in Seq(Row) /\ Chats(rows[u]) \cap OnDay(rows[u], Today) \in SUBSET (DOMAIN rows[u])
      BY <1>0 DEF Chats
    <3>2. Cardinality(Chats(rows[u]) \cap OnDay(rows[u], Today)) \in Nat
      BY <3>1, RowsAreFinite
    <3> QED BY <2>1, <3>2 DEF LoadOf
  <2> QED BY <1>3, <2>2
<1>6. CASE Tick
  <2>1. rows' = rows /\ call' = call /\ Today <= d /\ d \in Nat
    <3>1. now \in Nat /\ now' = now + 1
      BY <1>6, TodayFacts DEF Tick, TypeOK
    <3>2. DayLength \in Nat \ {0}
      BY GatewayAssumption
    <3>3. now \div DayLength <= (now + 1) \div DayLength /\ (now + 1) \div DayLength \in Nat
      BY <3>1, <3>2, DayFacts
    <3> QED BY <1>2, <1>6, <3>1, <3>3 DEF Today, Tick
  <2>2. ASSUME NEW u \in Turns
        PROVE  LoadOf(rows'[u], call'[u], d) <= LoadOf(rows[u], call[u], Today)
    <3>1. rows[u] \in Seq(Row) /\ LoadOf(rows[u], call[u], Today) \in Nat
      BY <1>0, LoadType
    <3>2. CASE d = Today
      BY <2>1, <3>1, <3>2
    <3>3. CASE d > Today
      <4>1. \A i \in DOMAIN rows[u] : rows[u][i].day # d
        <5>1. \A i \in DOMAIN rows[u] : rows[u][i].day <= Today /\ rows[u][i].day \in Nat
          <6> SUFFICES ASSUME NEW i \in DOMAIN rows[u]
                       PROVE  rows[u][i].day <= Today /\ rows[u][i].day \in Nat
            OBVIOUS
          <6>1. i \in 1..Len(rows[u]) /\ rows[u][i] \in Row
            BY <3>1, ElementOfSeq
          <6> QED BY <6>1 DEF ClockInv, Row
        <5> QED BY <1>0, <2>1, <3>3, <5>1
      <4>2. Chats(rows[u]) \cap OnDay(rows[u], d) = {}
        BY <4>1 DEF OnDay
      <4>3. call[u].day <= Today /\ call[u].day \in Nat
        BY <1>0 DEF ClockInv, Calls
      <4>4. LoadOf(rows[u], call[u], d) = 0
        <5>1. call[u].day # d
          BY <1>0, <2>1, <3>3, <4>3
        <5>2. Cardinality(Chats(rows[u]) \cap OnDay(rows[u], d)) = 0
          BY <4>2, FS_EmptySet
        <5> QED BY <5>1, <5>2 DEF LoadOf
      <4> QED BY <2>1, <3>1, <4>4
    <3> QED BY <1>0, <2>1, <3>2, <3>3
  <2> QED BY <1>3, <2>2
<1>7. CASE UNCHANGED vars
  BY <1>1, <1>2, <1>7 DEF vars, Today
<1> QED BY <1>4, <1>5, <1>6, <1>7, StepShape

(* Both limits together.                                                   *)
LEMMA LimitsKept ==
  ASSUME GInv, [Next]_vars, rows' \in [Turns -> Seq(Row)]
  PROVE  LimitsBoundRequests'
<1>1. \A t \in Turns : \A i \in 1..Len(rows'[t]) :
         rows'[t][i].kind = "chat" => i <= TurnCalls /\ Tokens(rows'[t], 1..(i - 1)) < TurnTokens
  BY TurnLimitKept
<1>2. DayBounded'
  BY DayBoundedKept
<1>3. Load(rows', call', Today')
        = SumFunction([t \in Turns |-> Cardinality(Chats(rows'[t]) \cap OnDay(rows'[t], Today'))
                         + (IF call'[t].pc = "chat" /\ call'[t].day = Today' THEN 1 ELSE 0)])
  BY LoadIsSum
<1> QED BY <1>1, <1>2, <1>3 DEF LimitsBoundRequests, DayBounded

-----------------------------------------------------------------------------
(* The circuits.                                                           *)

(* The end of a sequence.                                                  *)
LEMMA SuffixFacts ==
  ASSUME NEW s \in Seq(Nat), NEW m \in 1..Len(s) + 1
  PROVE  /\ SubSeq(s, m, Len(s)) \in Seq(Nat)
         /\ Len(SubSeq(s, m, Len(s))) = Len(s) - m + 1
         /\ \A j \in 1..(Len(s) - m + 1) : SubSeq(s, m, Len(s))[j] = s[m + j - 1]
<1>1. Len(s) \in Nat /\ m \in Int /\ Len(s) \in Int /\ \A i \in m..Len(s) : s[i] \in Nat
  OBVIOUS
<1>2. /\ SubSeq(s, m, Len(s)) \in Seq(Nat)
      /\ Len(SubSeq(s, m, Len(s))) = IF m <= Len(s) THEN Len(s) - m + 1 ELSE 0
      /\ \A j \in 1..(Len(s) - m + 1) : SubSeq(s, m, Len(s))[j] = s[m + j - 1]
  BY <1>1, SubSeqProperties
<1> QED BY <1>1, <1>2

(* The failures that count after a new one are a suffix of the history,    *)
(* although the circuit forgets old ones.                                  *)
LEMMA RecentFacts ==
  ASSUME NEW out \in Seq(Nat), InOrder(out, now), now \in Nat, NEW known, Knows(known, out, now)
  PROVE  \E k \in 1..Len(out) + 1 :
           /\ Append(Within(Window, known), now) = SubSeq(Append(out, now), k, Len(out) + 1)
           /\ \A i \in 1..Len(out) : i < k <=> out[i] + Window < now
<1> DEFINE n == Len(out)
<1>0. n \in Nat /\ Window \in Nat
  BY GatewayAssumption
<1>1. PICK k \in 1..n + 1 : /\ known = SubSeq(out, k, n)
                            /\ \A i \in 1..(k - 1) : out[i] + Window < now
  BY DEF Knows
<1>2. /\ known \in Seq(Nat) /\ Len(known) = n - k + 1
      /\ \A j \in 1..Len(known) : known[j] = out[k + j - 1]
  BY <1>0, <1>1
<1>3. Sorted(known)
  <2> SUFFICES ASSUME NEW i \in 1..Len(known), NEW j \in 1..Len(known), i <= j
               PROVE  known[i] <= known[j]
    BY DEF Sorted
  <2>1. k + i - 1 \in 1..n /\ k + j - 1 \in 1..n /\ k + i - 1 <= k + j - 1
    BY <1>0, <1>1, <1>2
  <2>2. out[k + i - 1] <= out[k + j - 1]
    BY <2>1 DEF InOrder, Sorted
  <2> QED BY <1>2, <2>2
<1>4. PICK m \in 1..Len(known) + 1 :
        /\ \A i \in 1..Len(known) : i < m <=> known[i] + Window < now
        /\ Within(Window, known) = SubSeq(known, m, Len(known))
  BY <1>0, <1>2, <1>3, WithinIsSuffix
<1> DEFINE l == k + m - 1
<1>5. l \in 1..n + 1
  BY <1>0, <1>1, <1>2
<1>6. Append(Within(Window, known), now) = SubSeq(Append(out, now), l, n + 1)
  <2> DEFINE a == Append(SubSeq(known, m, Len(known)), now)
             b == SubSeq(Append(out, now), l, n + 1)
  <2>0. SubSeq(known, m, Len(known)) \in Seq(Nat)
        /\ Len(SubSeq(known, m, Len(known))) = Len(known) - m + 1
    <3> HIDE DEF n
    <3> QED BY <1>2, SuffixFacts
  <2>1. a \in Seq(Nat) /\ Len(a) = Len(known) - m + 2
    BY <2>0
  <2>2. b \in Seq(Nat) /\ Len(b) = n + 2 - l
    BY <1>0, <1>5
  <2>3. Len(a) = Len(b)
    BY <1>0, <1>2, <2>1, <2>2
  <2>4. ASSUME NEW j \in 1..Len(a) PROVE a[j] = b[j]
    <3>1. CASE j = Len(a)
      <4>1. a[j] = now
        BY <1>0, <1>2, <2>1, <3>1
      <4>2. b[j] = now
        BY <1>0, <1>2, <1>5, <2>1, <2>2, <3>1
      <4> QED BY <4>1, <4>2
    <3>2. CASE j < Len(a)
      <4>1. a[j] = known[m + j - 1] /\ m + j - 1 \in 1..Len(known)
        BY <1>0, <1>2, <2>1, <3>2
      <4>2. known[m + j - 1] = out[k + (m + j - 1) - 1]
        BY <1>2, <4>1
      <4>3. l + j - 1 \in 1..n /\ k + (m + j - 1) - 1 = l + j - 1
        BY <1>0, <1>2, <2>1, <3>2
      <4>4. b[j] = out[l + j - 1]
        BY <1>0, <1>5, <2>2, <2>3, <4>3
      <4> QED BY <4>1, <4>2, <4>3, <4>4
    <3>3. Len(a) \in Nat /\ j \in 1..Len(a)
      BY <2>1
    <3> HIDE DEF a, b
    <3> QED BY <3>1, <3>2, <3>3
  <2>5. a = b
    <3> HIDE DEF a, b
    <3> QED BY <2>1, <2>2, <2>3, <2>4, SeqEqual
  <2> QED BY <1>4, <2>5
<1>7. ASSUME NEW i \in 1..n PROVE i < l <=> out[i] + Window < now
  <2>1. CASE i < k
    BY <1>0, <1>1, <2>1
  <2>2. CASE i >= k
    <3>1. i - k + 1 \in 1..Len(known) /\ k + (i - k + 1) - 1 = i
      BY <1>0, <1>2, <2>2
    <3>2. known[i - k + 1] = out[i]
      BY <1>2, <3>1
    <3>3. i - k + 1 < m <=> out[i] + Window < now
      BY <1>4, <3>1, <3>2
    <3> QED BY <1>0, <2>2, <3>3
  <2> QED BY <1>0, <2>1, <2>2
<1> HIDE DEF l
<1> QED BY <1>5, <1>6, <1>7

(* A transient failure keeps what a circuit knows and whether it is open   *)
(* (CircuitBreakerLLM._failure).                                           *)
LEMMA CircuitTrips ==
  ASSUME NEW out \in Seq(Nat), now \in Nat, NEW known, NEW until \in Nat,
         CircuitFits(known, until, out, now),
         NEW recent, recent = Append(Within(Window, known), now),
         NEW until2, until2 = IF Len(recent) >= Threshold THEN now + Cooldown ELSE until
  PROVE  CircuitFits(recent, until2, Append(out, now), now)
<1> DEFINE n == Len(out)
           out2 == Append(out, now)
<1>0. n \in Nat /\ Window \in Nat /\ Cooldown \in Nat /\ Threshold \in Nat \ {0}
  BY GatewayAssumption
<1>1. /\ out2 \in Seq(Nat) /\ Len(out2) = n + 1 /\ out2[n + 1] = now
      /\ \A i \in 1..n : out2[i] = out[i] /\ out[i] \in Nat /\ out2[i] \in Nat
  OBVIOUS
<1>2. PICK k \in 1..n + 1 : /\ recent = SubSeq(out2, k, n + 1)
                            /\ \A i \in 1..n : i < k <=> out[i] + Window < now
  BY RecentFacts DEF CircuitFits
<1> HIDE DEF out2
<1>3. InOrder(out2, now)
  <2>1. \A i \in 1..n : out[i] <= now
    BY DEF CircuitFits, InOrder
  <2>2. \A i, j \in 1..n : i <= j => out[i] <= out[j]
    BY DEF CircuitFits, InOrder, Sorted
  <2>3. \A i \in 1..n + 1 : out2[i] <= now
    <3> SUFFICES ASSUME NEW i \in 1..n + 1 PROVE out2[i] <= now
      OBVIOUS
    <3>1. i \in 1..n \/ i = n + 1
      BY <1>0
    <3> HIDE DEF n
    <3> QED BY <1>1, <2>1, <3>1
  <2>4. ASSUME NEW i \in 1..n + 1, NEW j \in 1..n + 1, i <= j PROVE out2[i] <= out2[j]
    <3>1. CASE j = n + 1
      BY <1>1, <2>3, <3>1
    <3>2. CASE j # n + 1
      <4>1. i \in 1..n /\ j \in 1..n
        BY <1>0, <2>4, <3>2
      <4> QED BY <1>1, <2>2, <2>4, <4>1
    <3> QED BY <3>1, <3>2
  <2> QED BY <1>1, <2>3, <2>4 DEF InOrder, Sorted
<1>4. Knows(recent, out2, now)
  <2>1. k \in 1..Len(out2) + 1 /\ recent = SubSeq(out2, k, Len(out2))
    BY <1>0, <1>1, <1>2
  <2>2. ASSUME NEW i \in 1..(k - 1) PROVE out2[i] + Window < now
    <3>1. i \in 1..n /\ i < k
      BY <1>0
    <3> HIDE DEF n
    <3> QED BY <1>1, <1>2, <3>1
  <2> QED BY <2>1, <2>2 DEF Knows
<1>5. Len(recent) >= Threshold <=> BurstIn(out2, n + 1)
  <2> DEFINE b == n + 1 - Threshold + 1
  <2>0. BurstIn(out2, n + 1) <=> n + 1 >= Threshold /\ out2[b] + Window >= out2[n + 1]
    <3> HIDE DEF n
    <3> QED BY <1>0 DEF BurstIn
  <2>1. Len(recent) = n + 2 - k
    BY <1>0, <1>1, <1>2
  <2>2. Len(recent) >= Threshold <=> b >= k
    BY <1>0, <2>1
  <2>3. b <= n + 1 /\ (b >= 1 <=> n + 1 >= Threshold)
    BY <1>0
  <2>4. CASE b < 1
    BY <1>0, <2>2, <2>3, <2>4 DEF BurstIn
  <2>5. CASE b = n + 1
    <3>1. out2[b] + Window >= out2[n + 1]
      BY <1>0, <1>1, <2>5
    <3> QED BY <1>0, <2>2, <2>3, <2>5, <3>1 DEF BurstIn
  <2>6. CASE b \in 1..n
    <3>1. b >= k <=> out[b] + Window >= now
      <4>1. b < k <=> out[b] + Window < now
        BY <1>2, <2>6
      <4>2. out[b] \in Nat /\ b \in Nat /\ k \in Nat
        BY <1>1, <2>6
      <4> HIDE DEF b
      <4> QED BY <1>0, <4>1, <4>2
    <3>2. out2[b] = out[b] /\ out2[n + 1] = now
      BY <1>1, <2>6
    <3>3. n + 1 >= Threshold
      BY <1>0, <2>6
    <3> HIDE DEF n, b
    <3> QED BY <2>0, <2>2, <3>1, <3>2, <3>3
  <2> QED BY <1>0, <2>3, <2>4, <2>5, <2>6
<1>6. \A i \in 1..n : BurstIn(out2, i) <=> BurstIn(out, i)
  <2> SUFFICES ASSUME NEW i \in 1..n PROVE BurstIn(out2, i) <=> BurstIn(out, i)
    OBVIOUS
  <2>1. i >= Threshold => i - Threshold + 1 \in 1..n
    BY <1>0
  <2> QED BY <1>1, <2>1 DEF BurstIn
<1>7. /\ until # 0 => \E i \in 1..n : BurstIn(out, i) /\ until = out[i] + Cooldown
      /\ \A i \in 1..n : BurstIn(out, i) => out[i] + Cooldown <= until
  BY DEF CircuitFits, OpenFor
<1>8. OpenFor(until2, out2)
  <2>1. CASE Len(recent) >= Threshold
    <3>1. until2 = out2[n + 1] + Cooldown /\ BurstIn(out2, n + 1) /\ n + 1 \in 1..Len(out2)
      BY <1>0, <1>1, <1>5, <2>1
    <3>2. \A i \in 1..Len(out2) : out2[i] <= now /\ out2[i] \in Nat
      BY <1>0, <1>1, <1>3 DEF InOrder
    <3>3. \A i \in 1..Len(out2) : out2[i] + Cooldown <= until2
      BY <1>0, <1>1, <3>1, <3>2
    <3> QED BY <3>1, <3>3 DEF OpenFor
  <2>2. CASE ~(Len(recent) >= Threshold)
    <3>1. until2 = until /\ ~BurstIn(out2, n + 1)
      BY <1>5, <2>2
    <3>2. until # 0 => \E i \in 1..Len(out2) : BurstIn(out2, i) /\ until = out2[i] + Cooldown
      <4> SUFFICES ASSUME until # 0
                   PROVE \E i \in 1..Len(out2) : BurstIn(out2, i) /\ until = out2[i] + Cooldown
        OBVIOUS
      <4>1. PICK i \in 1..n : BurstIn(out, i) /\ until = out[i] + Cooldown
        BY <1>7
      <4> HIDE DEF n
      <4>2. i \in 1..Len(out2) /\ BurstIn(out2, i) /\ until = out2[i] + Cooldown
        BY <1>0, <1>1, <1>6, <4>1
      <4> QED BY <4>2
    <3>3. ASSUME NEW i \in 1..Len(out2), BurstIn(out2, i) PROVE out2[i] + Cooldown <= until
      <4>1. i \in 1..n
        BY <1>0, <1>1, <3>1, <3>3
      <4> QED BY <1>1, <1>6, <1>7, <3>3, <4>1
    <3> QED BY <3>1, <3>2, <3>3 DEF OpenFor
  <2> QED BY <2>1, <2>2
<1> QED BY <1>3, <1>4, <1>8 DEF CircuitFits, out2

(* Times are numbers.                                                      *)
LEMMA TimesAreNumbers ==
  ASSUME NEW s \in Seq(Times)
  PROVE  s \in Seq(Nat) /\ Len(s) \in Nat /\ \A i \in 1..Len(s) : s[i] \in Nat /\ s[i] \in Times
<1>1. Times \subseteq Nat
  BY GatewayAssumption DEF Times
<1>2. Len(s) \in Nat /\ s \in [1..Len(s) -> Times]
  OBVIOUS
<1>3. s \in [1..Len(s) -> Nat]
  BY <1>1, <1>2
<1> QED BY <1>1, <1>2, <1>3

(* Every step keeps the circuits.                                          *)
LEMMA CircuitsKept ==
  ASSUME GInv, [Next]_vars
  PROVE  /\ CircuitInv'
         /\ failures' \in [Chain -> Seq(Times)] /\ outages' \in [Chain -> Seq(Times)]
         /\ opened' \in [Chain -> Nat]
<1> USE DEF GInv
<1>0. /\ failures \in [Chain -> Seq(Times)] /\ outages \in [Chain -> Seq(Times)]
      /\ opened \in [Chain -> Nat] /\ now \in Times /\ now \in Nat
      /\ Times \subseteq Nat /\ Window \in Nat /\ Cooldown \in Nat
  BY TodayFacts, GatewayAssumption DEF TypeOK, Times
<1>1. \A p \in Chain : CircuitFits(failures[p], opened[p], outages[p], now)
  BY DEF CircuitInv
<1>2. ASSUME NEW time \in Nat PROVE CircuitFits(<<>>, 0, <<>>, time)
  <2>1. InOrder(<<>>, time)
    BY DEF InOrder, Sorted
  <2>2. Knows(<<>>, <<>>, time)
    <3>1. 1 \in 1..Len(<<>>) + 1 /\ <<>> = SubSeq(<<>>, 1, Len(<<>>))
      BY SubSeqEmpty
    <3> QED BY <3>1 DEF Knows
  <2>3. OpenFor(0, <<>>)
    BY DEF OpenFor
  <2> QED BY <2>1, <2>2, <2>3 DEF CircuitFits
<1>3. <<>> \in Seq(Times) /\ 0 \in Nat
  OBVIOUS
<1>4. CASE TurnMoves
  <2>1. PICK p \in Chain : CircuitStep(p)
    BY <1>4 DEF TurnMoves
  <2>2. now' = now
    BY <1>4 DEF TurnMoves
  <2>3. CASE UNCHANGED <<failures, opened, outages>>
    BY <1>0, <1>1, <2>2, <2>3 DEF CircuitInv
  <2>4. CASE /\ failures' = [failures EXCEPT ![p] = <<>>]
             /\ opened' = [opened EXCEPT ![p] = 0]
             /\ outages' = [outages EXCEPT ![p] = <<>>]
    <3>1. failures' \in [Chain -> Seq(Times)] /\ outages' \in [Chain -> Seq(Times)]
          /\ opened' \in [Chain -> Nat]
      BY <1>0, <1>3, <2>4
    <3>2. ASSUME NEW q \in Chain PROVE CircuitFits(failures'[q], opened'[q], outages'[q], now)
      <4>1. CASE q = p
        BY <1>0, <1>2, <2>4, <4>1
      <4>2. CASE q # p
        BY <1>0, <1>1, <2>4, <4>2
      <4> QED BY <4>1, <4>2
    <3> QED BY <2>2, <3>1, <3>2 DEF CircuitInv
  <2>5. CASE Trips(p)
    <3> DEFINE recent == RecentFailures(p)
               until == IF Len(recent) >= Threshold THEN now + Cooldown ELSE opened[p]
    <3>1. /\ failures' = [failures EXCEPT ![p] = recent]
          /\ opened' = [opened EXCEPT ![p] = until]
          /\ outages' = [outages EXCEPT ![p] = Append(@, now)]
      BY <1>0, <2>5 DEF Trips
    <3>2. outages[p] \in Seq(Times) /\ outages[p] \in Seq(Nat) /\ opened[p] \in Nat
          /\ Append(outages[p], now) \in Seq(Times)
      <4>1. outages[p] \in Seq(Times) /\ opened[p] \in Nat
        BY <1>0
      <4> QED BY <1>0, <4>1, TimesAreNumbers
    <3>3. recent = Append(Within(Window, failures[p]), now)
      BY DEF RecentFailures
    <3>4. CircuitFits(recent, until, Append(outages[p], now), now)
      <4> HIDE DEF recent
      <4> QED BY <1>0, <1>1, <3>2, <3>3, CircuitTrips
    <3>5. recent \in Seq(Times)
      <4> DEFINE n == Len(outages[p])
                 out == Append(outages[p], now)
      <4>1. CircuitFits(failures[p], opened[p], outages[p], now)
        BY <1>1
      <4>2. PICK k \in 1..n + 1 : recent = SubSeq(out, k, n + 1)
        <5> HIDE DEF recent
        <5> QED BY <1>0, <3>2, <3>3, <4>1, RecentFacts DEF CircuitFits
      <4>3. n \in Nat /\ Len(out) = n + 1 /\ out \in Seq(Times)
        BY <3>2
      <4> HIDE DEF n, out, recent
      <4>4. \A i \in k..n + 1 : out[i] \in Times
        BY <4>3
      <4> QED BY <4>2, <4>3, <4>4, SubSeqProperties
    <3>6. until \in Nat
      BY <1>0, <3>2
    <3> HIDE DEF recent, until
    <3>7. failures' \in [Chain -> Seq(Times)] /\ outages' \in [Chain -> Seq(Times)]
          /\ opened' \in [Chain -> Nat]
      BY <1>0, <3>1, <3>2, <3>5, <3>6
    <3>8. ASSUME NEW q \in Chain PROVE CircuitFits(failures'[q], opened'[q], outages'[q], now)
      <4>1. CASE q = p
        BY <1>0, <3>1, <3>4, <4>1
      <4>2. CASE q # p
        BY <1>0, <1>1, <3>1, <4>2
      <4> QED BY <4>1, <4>2
    <3> QED BY <2>2, <3>7, <3>8 DEF CircuitInv
  <2> QED BY <2>1, <2>3, <2>4, <2>5 DEF CircuitStep
<1>5. CASE Crash
  <2>1. /\ failures' = [p \in Chain |-> <<>>] /\ outages' = [p \in Chain |-> <<>>]
        /\ opened' = [p \in Chain |-> 0] /\ now' = now
    BY <1>5 DEF Crash
  <2>2. \A p \in Chain : CircuitFits(failures'[p], opened'[p], outages'[p], now')
    BY <1>0, <1>2, <2>1
  <2> QED BY <1>3, <2>1, <2>2 DEF CircuitInv
<1>6. CASE Tick
  <2>1. failures' = failures /\ opened' = opened /\ outages' = outages /\ now' = now + 1
    BY <1>6 DEF Tick, breakers, history
  <2>2. ASSUME NEW p \in Chain PROVE CircuitFits(failures[p], opened[p], outages[p], now + 1)
    <3> DEFINE out == outages[p]
    <3>1. out \in Seq(Nat) /\ Len(out) \in Nat /\ \A i \in 1..Len(out) : out[i] \in Nat
      <4>1. out \in Seq(Times)
        BY <1>0
      <4> HIDE DEF out
      <4> QED BY <4>1, TimesAreNumbers
    <3>2. CircuitFits(failures[p], opened[p], out, now)
      BY <1>1
    <3> HIDE DEF out
    <3>3. InOrder(out, now + 1)
      BY <1>0, <3>1, <3>2 DEF CircuitFits, InOrder
    <3>4. Knows(failures[p], out, now + 1)
      <4>1. PICK k \in 1..Len(out) + 1 : /\ failures[p] = SubSeq(out, k, Len(out))
                                         /\ \A i \in 1..(k - 1) : out[i] + Window < now
        BY <3>2 DEF CircuitFits, Knows
      <4>2. \A i \in 1..(k - 1) : out[i] + Window < now + 1
        BY <1>0, <3>1, <4>1
      <4> QED BY <4>1, <4>2 DEF Knows
    <3> QED BY <3>2, <3>3, <3>4 DEF CircuitFits, out
  <2> QED BY <1>0, <2>1, <2>2 DEF CircuitInv
<1>7. CASE UNCHANGED vars
  BY <1>0, <1>1, <1>7 DEF vars, breakers, history, CircuitInv
<1> QED BY <1>4, <1>5, <1>6, <1>7, StepShape

-----------------------------------------------------------------------------
(* Every step keeps the types of the other variables.                      *)
LEMMA RowsKept ==
  ASSUME GInv, [Next]_vars
  PROVE  /\ rows' \in [Turns -> Seq(Row)] /\ call' \in [Turns -> Calls]
         /\ now' \in Times /\ crashes' \in 0..MaxCrashes /\ remembered' \in [Chain -> Usages]
<1> USE DEF GInv
<1>0. /\ rows \in [Turns -> Seq(Row)] /\ call \in [Turns -> Calls]
      /\ now \in Times /\ now \in Nat /\ crashes \in 0..MaxCrashes
      /\ remembered \in [Chain -> Usages] /\ MaxTime \in Nat /\ MaxCrashes \in Nat
  BY TodayFacts, GatewayAssumption DEF TypeOK, Calls
<1>1. CASE TurnMoves
  <2>1. PICK t \in Turns : LedgerStep(t)
    BY <1>1 DEF TurnMoves
  <2> QED BY <1>0, <1>1, <2>1, RowsType DEF TurnMoves
<1>2. CASE Crash
  BY <1>0, <1>2, IdleIsCall DEF Crash, Usages, Unknown
<1>3. CASE Tick
  BY <1>0, <1>3 DEF Tick, Times, breakers
<1>4. CASE UNCHANGED vars
  BY <1>0, <1>4 DEF vars, breakers
<1> QED BY <1>1, <1>2, <1>3, <1>4, StepShape

(* Every step keeps the invariant.                                         *)
LEMMA InvariantKept ==
  ASSUME GInv, [Next]_vars
  PROVE  GInv'
<1>1. TypeOK'
  BY RowsKept, CircuitsKept, AuditKept DEF TypeOK, Calls
<1>2. ClockInv'
  BY RowsClockKept DEF ClockInv
<1>3. BudgetInv' /\ OwnInv' /\ CircuitInv' /\ EveryRequestAudited'
  BY BudgetKept, CircuitsKept, AuditKept
<1>4. LimitsBoundRequests'
  BY RowsKept, LimitsKept
<1> QED BY <1>1, <1>2, <1>3, <1>4 DEF GInv

(* It holds in the beginning.                                              *)
LEMMA InvariantStarts == Init => GInv
<1> SUFFICES ASSUME Init PROVE GInv
  OBVIOUS
<1>0. /\ now = 0 /\ rows = [t \in Turns |-> <<>>] /\ call = [t \in Turns |-> Idle]
      /\ failures = [p \in Chain |-> <<>>] /\ opened = [p \in Chain |-> 0]
      /\ outages = [p \in Chain |-> <<>>] /\ remembered = [p \in Chain |-> Unknown]
      /\ requests = [t \in Turns |-> 0] /\ crashes = 0
  BY DEF Init
<1>1. 0 \in Times /\ 0 \in 0..MaxCrashes /\ Unknown \in Usages
  BY GatewayAssumption DEF Times, Usages, Unknown
<1>2. TypeOK
  BY <1>0, <1>1, IdleIsCall DEF TypeOK, Calls
<1>3. Today \in Nat /\ Idle.day = 0 /\ Idle.pc = "idle"
  BY <1>0, <1>1, TodayFacts DEF Idle
<1>4. ClockInv /\ BudgetInv /\ OwnInv
  BY <1>0, <1>3 DEF ClockInv, BudgetInv, OwnInv
<1>5. CircuitInv
  <2>1. InOrder(<<>>, 0) /\ OpenFor(0, <<>>)
    BY DEF InOrder, Sorted, OpenFor
  <2>2. Knows(<<>>, <<>>, 0)
    <3>1. 1 \in 1..Len(<<>>) + 1 /\ <<>> = SubSeq(<<>>, 1, Len(<<>>))
      BY SubSeqEmpty
    <3> QED BY <3>1 DEF Knows
  <2> QED BY <1>0, <2>1, <2>2 DEF CircuitInv, CircuitFits
<1>6. Chats(<<>>) = {} /\ OnDay(<<>>, Today) = {} /\ Cardinality({}) = 0
  BY FS_EmptySet DEF Chats, OnDay
<1>7. EveryRequestAudited
  <2>1. ASSUME NEW t \in Turns
        PROVE  requests[t] = Cardinality(Chats(rows[t])) + (IF call[t].pc = "chat" THEN 1 ELSE 0)
    <3>1. requests[t] = 0 /\ rows[t] = <<>> /\ call[t].pc # "chat"
      BY <1>0, <1>3
    <3>2. Cardinality(Chats(<<>>)) = 0
      BY <1>6
    <3> QED BY <3>1, <3>2
  <2> QED BY <2>1 DEF EveryRequestAudited
<1>8. LimitsBoundRequests
  <2>1. Load(rows, call, Today) < DayCalls + Cardinality(Turns)
    <3> DEFINE f == [t \in Turns |-> LoadOf(rows[t], call[t], Today)]
               g == [t \in Turns |-> 0]
    <3>1. \A t \in Turns : f[t] = 0
      <4>1. Cardinality(Chats(<<>>) \cap OnDay(<<>>, Today)) = 0
        BY <1>6
      <4> QED BY <1>0, <1>3, <4>1 DEF LoadOf
    <3> HIDE DEF f
    <3>2. Sum(f, Turns) = 0
      BY <3>1, TurnsAreFinite, SumZero
    <3> QED BY <3>2, TurnsAreFinite DEF Load, f
  <2>2. \A t \in Turns : Len(rows[t]) = 0
    BY <1>0
  <2>3. SumFunction([t \in Turns |-> Cardinality(Chats(rows[t]) \cap OnDay(rows[t], Today))
                        + (IF call[t].pc = "chat" /\ call[t].day = Today THEN 1 ELSE 0)])
          < DayCalls + Cardinality(Turns)
    BY <2>1, LoadIsSum
  <2>4. \A t \in Turns : \A i \in 1..Len(rows[t]) :
          rows[t][i].kind = "chat" => i <= TurnCalls /\ Tokens(rows[t], 1..(i - 1)) < TurnTokens
    BY <2>2
  <2> QED BY <2>3, <2>4 DEF LimitsBoundRequests
<1> QED BY <1>2, <1>4, <1>5, <1>7, <1>8 DEF GInv

(* It holds always.                                                        *)
LEMMA Invariant == Spec => []GInv
BY InvariantStarts, InvariantKept, PTL DEF Spec

-----------------------------------------------------------------------------
(* In every state the variables have their types; in particular a row and  *)
(* a call name a provider of the chain and a usage some provider reported. *)
THEOREM TypeCorrect == Spec => []TypeOK
<1>1. GInv => TypeOK
  BY DEF GInv
<1> QED BY <1>1, Invariant, PTL

(* Every chat request of a turn has exactly one row as soon as it is not   *)
(* awaited any more, failed and cancelled ones too; only a death of the    *)
(* process loses one (AuditedLLM).                                         *)
THEOREM RequestsAudited == Spec => []EveryRequestAudited
<1>1. GInv => EveryRequestAudited
  BY DEF GInv
<1> QED BY <1>1, Invariant, PTL

(* Whatever turns run at once: no chat request is made once the rows of    *)
(* its turn used up a limit, and the requests of a day exceed the day's    *)
(* limit by less than the number of turns (BudgetGate.check before, the    *)
(* row after the request).                                                 *)
THEOREM RequestsLimited == Spec => []LimitsBoundRequests
<1>1. GInv => LimitsBoundRequests
  BY DEF GInv
<1> QED BY <1>1, Invariant, PTL

(* However calls end and whichever turns share a client: the tokens of a   *)
(* turn's rows are at least those its providers reported (AuditedLLM,      *)
(* last_usage).                                                            *)
THEOREM TokensSeen == Spec => []BudgetSeesEveryToken
<1>1. GInv => BudgetSeesEveryToken
  <2> SUFFICES ASSUME GInv, NEW t \in Turns
               PROVE  Tokens(rows[t], DOMAIN rows[t])
                        >= SumFunction([i \in DOMAIN rows[t] |-> rows[t][i].own])
    BY DEF BudgetSeesEveryToken
  <2> DEFINE s == rows[t]
             f == [i \in DOMAIN s |-> s[i].own]
             g == [i \in DOMAIN s |-> s[i].tokens]
  <2>1. s \in Seq(Row) /\ DOMAIN s = 1..Len(s) /\ IsFiniteSet(DOMAIN s)
    <3>1. s \in Seq(Row)
      BY DEF GInv, TypeOK
    <3>2. DOMAIN s \in SUBSET (DOMAIN s) /\ DOMAIN s = 1..Len(s)
      BY <3>1
    <3> HIDE DEF s
    <3> QED BY <3>1, <3>2, RowsAreFinite
  <2>2. \A i \in DOMAIN s : f[i] \in Nat /\ g[i] \in Nat /\ f[i] <= g[i] + 0
    <3> SUFFICES ASSUME NEW i \in DOMAIN s
                 PROVE  s[i].own \in Nat /\ s[i].tokens \in Nat /\ s[i].own <= s[i].tokens
      OBVIOUS
    <3>1. s[i] \in Row
      BY <2>1
    <3>2. s[i].own \in Nat /\ s[i].tokens \in Nat
      BY <3>1, UsagesAreNumbers DEF Row
    <3>3. s[i].own <= s[i].tokens
      BY <2>1 DEF GInv, OwnInv
    <3> QED BY <3>2, <3>3
  <2>3. DOMAIN f = DOMAIN s
    OBVIOUS
  <2> HIDE DEF f, g
  <2>4. Sum(f, DOMAIN s) <= Sum(g, DOMAIN s) + 0 * Cardinality(DOMAIN s)
    <3> HIDE DEF s
    <3> QED BY <2>1, <2>2, SumBounded
  <2>5. Sum(f, DOMAIN s) \in Nat /\ Sum(g, DOMAIN s) \in Nat /\ Cardinality(DOMAIN s) \in Nat
    <3> HIDE DEF s
    <3> QED BY <2>1, <2>2, SumType, FS_CardinalityType
  <2>6. SumFunction(f) = Sum(f, DOMAIN s) /\ Tokens(s, DOMAIN s) = Sum(g, DOMAIN s)
    <3>1. SumFunction(f) = Sum(f, DOMAIN s)
      <4> HIDE DEF s
      <4> QED BY <2>3, SumOfFunction
    <3>2. Tokens(s, DOMAIN s) = Sum(g, DOMAIN s)
      BY DEF Tokens, Sum, g
    <3> QED BY <3>1, <3>2
  <2>7. Tokens(s, DOMAIN s) >= SumFunction(f)
    <3> HIDE DEF s
    <3> QED BY <2>4, <2>5, <2>6
  <2> QED BY <2>7 DEF f
<1> QED BY <1>1, Invariant, PTL

(* A circuit is open exactly for a cooldown after Threshold transient      *)
(* failures within the window since the last success, although _failure    *)
(* drops old failures and opened_until is set over (CircuitBreakerLLM).    *)
THEOREM CircuitTrue == Spec => []CircuitOpenAfterBurst
<1>1. GInv => CircuitOpenAfterBurst
  <2> SUFFICES ASSUME GInv, NEW p \in Chain
               PROVE  IsOpen(p) <=>
                        \E i \in 1..Len(outages[p]) : Burst(p, i) /\ now < outages[p][i] + Cooldown
    BY DEF CircuitOpenAfterBurst
  <2>0. /\ now \in Nat /\ opened[p] \in Nat /\ outages[p] \in Seq(Nat) /\ Cooldown \in Nat
        /\ \A i \in 1..Len(outages[p]) : outages[p][i] \in Nat
    <3>1. now \in Times /\ opened[p] \in Nat /\ outages[p] \in Seq(Times)
      BY DEF GInv, TypeOK
    <3>2. now \in Nat /\ Cooldown \in Nat
      BY <3>1, TodayFacts, GatewayAssumption
    <3> QED BY <3>1, <3>2, TimesAreNumbers
  <2>1. \A i : BurstIn(outages[p], i) <=> Burst(p, i)
    BY DEF BurstIn, Burst
  <2>2. OpenFor(opened[p], outages[p])
    BY DEF GInv, CircuitInv, CircuitFits
  <2>3. ASSUME IsOpen(p)
        PROVE  \E i \in 1..Len(outages[p]) : Burst(p, i) /\ now < outages[p][i] + Cooldown
    <3>1. now < opened[p] /\ opened[p] # 0
      BY <2>0, <2>3 DEF IsOpen
    <3>2. PICK i \in 1..Len(outages[p]) :
            BurstIn(outages[p], i) /\ opened[p] = outages[p][i] + Cooldown
      BY <2>2, <3>1 DEF OpenFor
    <3> QED BY <2>1, <3>1, <3>2
  <2>4. ASSUME NEW i \in 1..Len(outages[p]), Burst(p, i), now < outages[p][i] + Cooldown
        PROVE  IsOpen(p)
    <3>1. outages[p][i] + Cooldown <= opened[p]
      BY <2>1, <2>2, <2>4 DEF OpenFor
    <3> QED BY <2>0, <2>4, <3>1 DEF IsOpen
  <2> QED BY <2>3, <2>4
<1> QED BY <1>1, Invariant, PTL
====
