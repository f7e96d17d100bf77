-------------------------- MODULE PartialMapTheorems --------------------------
(***************************************************************************)
(* What the operations on partial maps return, and what sums over them do. *)
(*                                                                         *)
(* A sum is a fold, a recursive definition over finite sets. The provers   *)
(* cannot use an induction theorem, which has an operator as parameter;    *)
(* they can use that the subsets of a finite set are well-founded under    *)
(* inclusion. Each induction below is therefore the search for a smallest  *)
(* counterexample, a set of sets, which SmallestSet provides.              *)
(***************************************************************************)
EXTENDS PartialMaps, FiniteSetTheorems, TLAPS

\* The empty map has no keys and is a map into every set.
LEMMA EmptyMapIsEmpty ==
  ASSUME NEW T
  PROVE  EmptyMap \in [{} -> T] /\ DOMAIN EmptyMap = {}
  BY DEF EmptyMap

\* Induction on finite sets: among the subsets of a finite set that are bad in some
\* way there is one whose proper subsets are not.
LEMMA SmallestSet ==
  ASSUME NEW S, IsFiniteSet(S), NEW Bad, Bad \subseteq SUBSET S, Bad # {}
  PROVE  \E T \in Bad : \A U \in Bad : U \subseteq T => U = T
<1>1. IsWellFoundedOn(StrictSubsetOrdering(S), SUBSET S)
  BY FS_StrictSubsetOrderingWellFounded, FS_FiniteSubsetsOfFinite
<1>2. \E T \in Bad : \A U \in Bad : ~ (<<U, T>> \in StrictSubsetOrdering(S))
  BY <1>1, WFMin
<1>3. QED
  BY <1>2 DEF StrictSubsetOrdering

-----------------------------------------------------------------------------
(* Sums over finite sets                                                   *)

\* One step of a sum over s by way of the sums g of its subsets.
SumStep(f, g, s) ==
  IF s = {} THEN 0 ELSE f[CHOOSE x \in s : TRUE] + g[s \ {CHOOSE x \in s : TRUE}]

\* g holds the sums of all subsets of T.
IsSum(f, T, g) == g = [s \in SUBSET T |-> SumStep(f, g, s)]

\* A sum is read off such a table.
LEMMA SumUnfolds ==
  ASSUME NEW f, NEW S
  PROVE  SumFunctionOnSet(f, S) = (CHOOSE g : IsSum(f, S, g))[S]
BY DEF SumFunctionOnSet, FoldFunctionOnSet, MapThenFoldSet, IsSum, SumStep

\* Two tables agree where both are defined.
LEMMA SumsAgree ==
  ASSUME NEW f, NEW f2, NEW T, NEW T2, NEW g, IsSum(f, T, g), NEW h, IsSum(f2, T2, h)
  PROVE  \A V : IsFiniteSet(V) /\ V \in SUBSET T /\ V \in SUBSET T2 /\ (\A x \in V : f[x] = f2[x])
             => g[V] = h[V]
<1> SUFFICES ASSUME NEW V, IsFiniteSet(V), V \in SUBSET T, V \in SUBSET T2,
                    \A x \in V : f[x] = f2[x]
             PROVE  g[V] = h[V]
  OBVIOUS
<1> DEFINE Bad == {U \in SUBSET V : g[U] # h[U]}
<1> SUFFICES ASSUME Bad # {} PROVE FALSE
  OBVIOUS
<1>1. PICK U \in Bad : \A W \in Bad : W \subseteq U => W = U
  <2>1. Bad \subseteq SUBSET V
    OBVIOUS
  <2> HIDE DEF Bad
  <2> QED BY <2>1, SmallestSet
<1>2. g[U] = SumStep(f, g, U) /\ h[U] = SumStep(f2, h, U)
  BY DEF IsSum
<1>3. U # {}
  BY <1>2 DEF SumStep
<1> DEFINE c == CHOOSE x \in U : TRUE
<1>4. c \in U
  BY <1>3
<1>5. g[U \ {c}] = h[U \ {c}]
  BY <1>1, <1>4
<1>6. g[U] = f[c] + g[U \ {c}] /\ h[U] = f2[c] + h[U \ {c}]
  BY <1>2, <1>3 DEF SumStep
<1>7. f[c] = f2[c]
  BY <1>4
<1> QED
  BY <1>1, <1>5, <1>6, <1>7

\* There is a table for every finite set.
LEMMA SumsExist ==
  ASSUME NEW f, NEW S, IsFiniteSet(S)
  PROVE  \E g : IsSum(f, S, g)
<1> DEFINE Bad == {T \in SUBSET S : ~ \E g : IsSum(f, T, g)}
<1> SUFFICES ASSUME Bad # {} PROVE FALSE
  OBVIOUS
<1>1. PICK T \in Bad : \A W \in Bad : W \subseteq T => W = T
  <2>1. Bad \subseteq SUBSET S
    OBVIOUS
  <2> HIDE DEF Bad
  <2> QED BY <2>1, SmallestSet
<1> DEFINE G(U) == (CHOOSE g : IsSum(f, U, g))
           c(s) == CHOOSE x \in s : TRUE
           h == [s \in SUBSET T |-> IF s = {} THEN 0 ELSE f[c(s)] + G(s \ {c(s)})[s \ {c(s)}]]
<1>2. \A U \in SUBSET T : U # T => IsSum(f, U, G(U))
  BY <1>1
<1>3. ASSUME NEW s \in SUBSET T, s # {}
      PROVE  G(s \ {c(s)})[s \ {c(s)}] = h[s \ {c(s)}]
  <2> DEFINE U == s \ {c(s)}
  <2>1. c(s) \in s
    BY <1>3
  <2>2. U \in SUBSET T /\ U # T
    BY <2>1
  <2>3. IsSum(f, U, G(U))
    BY <2>2, <1>2
  <2>4. G(U)[U] = SumStep(f, G(U), U)
    BY <2>3 DEF IsSum
  <2>5. CASE U = {}
    BY <2>4, <2>5 DEF SumStep
  <2>6. CASE U # {}
    <3> DEFINE V == U \ {c(U)}
    <3>1. c(U) \in U
      BY <2>6
    <3>2. V \in SUBSET T /\ V # T /\ V \subseteq U
      BY <2>2, <3>1
    <3>3. IsSum(f, V, G(V))
      BY <3>2, <1>2
    <3>4. G(U)[V] = G(V)[V]
      <4>1. IsFiniteSet(V) /\ V \in SUBSET U /\ V \in SUBSET V
        BY <1>1, <2>2, <3>2, FS_Subset
      <4> HIDE DEF G, U, V
      <4> QED BY <2>3, <3>3, <4>1, SumsAgree
    <3>5. G(U)[U] = f[c(U)] + G(U)[V]
      BY <2>4, <2>6 DEF SumStep
    <3>6. h[U] = f[c(U)] + G(V)[V]
      BY <2>2, <2>6
    <3>7. h[U] = G(U)[U]
      <4> HIDE DEF G, U, V, h
      <4> QED BY <3>4, <3>5, <3>6
    <3> HIDE DEF G, h, c
    <3> QED BY <3>7
  <2> QED BY <2>5, <2>6
<1>4. IsSum(f, T, h)
  <2>1. ASSUME NEW s \in SUBSET T
        PROVE  h[s] = SumStep(f, h, s)
    <3>1. CASE s = {}
      BY <3>1 DEF SumStep
    <3>2. CASE s # {}
      <4>1. h[s] = f[c(s)] + G(s \ {c(s)})[s \ {c(s)}]
        BY <3>2
      <4>2. h[s] = f[c(s)] + h[s \ {c(s)}]
        <5>1. G(s \ {c(s)})[s \ {c(s)}] = h[s \ {c(s)}]
          BY <3>2, <1>3
        <5> HIDE DEF G, h, c
        <5> QED BY <4>1, <5>1
      <4> HIDE DEF h
      <4> QED BY <3>2, <4>2 DEF SumStep
    <3> QED BY <3>1, <3>2
  <2>2. h = [s \in SUBSET T |-> h[s]]
    OBVIOUS
  <2> HIDE DEF h
  <2> QED BY <2>1, <2>2 DEF IsSum
<1> QED
  BY <1>1, <1>4

\* The sum over the empty set, and over a nonempty set from the element taken first.
LEMMA SumFirst ==
  ASSUME NEW f, NEW S, IsFiniteSet(S)
  PROVE  SumFunctionOnSet(f, S) =
           IF S = {} THEN 0
           ELSE f[CHOOSE x \in S : TRUE]
                + SumFunctionOnSet(f, S \ {CHOOSE x \in S : TRUE})
<1> DEFINE G(U) == CHOOSE g : IsSum(f, U, g)
<1>1. \A U \in SUBSET S : IsSum(f, U, G(U))
  BY FS_Subset, SumsExist
<1>2. \A U : SumFunctionOnSet(f, U) = G(U)[U]
  BY SumUnfolds
<1>3. IsSum(f, S, G(S))
  BY <1>1
<1> HIDE DEF G
<1>4. G(S)[S] = SumStep(f, G(S), S)
  BY <1>3 DEF IsSum
<1>5. CASE S = {}
  BY <1>2, <1>4, <1>5 DEF SumStep
<1>6. CASE S # {}
  <2> DEFINE c == CHOOSE x \in S : TRUE
             V == S \ {c}
  <2>1. V \in SUBSET S
    OBVIOUS
  <2>2. IsSum(f, V, G(V))
    BY <2>1, <1>1
  <2>3. G(S)[V] = G(V)[V]
    <3>1. IsFiniteSet(V) /\ V \in SUBSET S /\ V \in SUBSET V
      BY <2>1, FS_Subset
    <3> HIDE DEF V
    <3> QED BY <1>3, <2>2, <3>1, SumsAgree
  <2>4. G(S)[S] = f[c] + G(S)[V]
    BY <1>4, <1>6 DEF SumStep
  <2>5. SumFunctionOnSet(f, S) = f[c] + SumFunctionOnSet(f, V)
    BY <2>3, <2>4, <1>2
  <2> QED BY <1>6, <2>5
<1> QED BY <1>5, <1>6

\* A sum reads its function on the set only.
LEMMA SumReadsItsSet ==
  ASSUME NEW f, NEW g, NEW S, IsFiniteSet(S), \A x \in S : f[x] = g[x]
  PROVE  SumFunctionOnSet(f, S) = SumFunctionOnSet(g, S)
<1>1. PICK a : IsSum(f, S, a)
  BY SumsExist
<1>2. PICK b : IsSum(g, S, b)
  BY SumsExist
<1>3. IsSum(f, S, CHOOSE h : IsSum(f, S, h)) /\ IsSum(g, S, CHOOSE h : IsSum(g, S, h))
  BY <1>1, <1>2
<1>4. S \in SUBSET S
  OBVIOUS
<1>5. (CHOOSE h : IsSum(f, S, h))[S] = (CHOOSE h : IsSum(g, S, h))[S]
  <2> DEFINE a2 == CHOOSE h : IsSum(f, S, h)
             b2 == CHOOSE h : IsSum(g, S, h)
  <2>1. IsSum(f, S, a2) /\ IsSum(g, S, b2)
    BY <1>3
  <2> HIDE DEF a2, b2
  <2> QED BY <2>1, <1>4, SumsAgree
<1> QED BY <1>5, SumUnfolds

\* A sum of integers is an integer, one of natural numbers a natural number.
LEMMA SumType ==
  ASSUME NEW f, NEW S, IsFiniteSet(S), \A x \in S : f[x] \in Int
  PROVE  /\ SumFunctionOnSet(f, S) \in Int
         /\ (\A x \in S : f[x] >= 0) => SumFunctionOnSet(f, S) >= 0
<1> DEFINE Good(T) == /\ SumFunctionOnSet(f, T) \in Int
                      /\ (\A x \in T : f[x] >= 0) => SumFunctionOnSet(f, T) >= 0
           Bad == {T \in SUBSET S : ~ Good(T)}
<1> SUFFICES ASSUME Bad # {} PROVE FALSE
  OBVIOUS
<1>1. PICK T \in Bad : \A W \in Bad : W \subseteq T => W = T
  <2>1. Bad \subseteq SUBSET S
    OBVIOUS
  <2> HIDE DEF Bad
  <2> QED BY <2>1, SmallestSet
<1>2. IsFiniteSet(T)
  BY <1>1, FS_Subset
<1>3. T # {}
  <2>1. Good({})
    <3>1. IsFiniteSet({})
      BY FS_EmptySet
    <3>2. SumFunctionOnSet(f, {}) = 0
      BY <3>1, SumFirst
    <3> QED BY <3>2
  <2> QED BY <1>1, <2>1
<1> DEFINE c == CHOOSE x \in T : TRUE
<1>4. c \in T
  BY <1>3
<1>5. Good(T \ {c})
  BY <1>1, <1>4
<1>6. SumFunctionOnSet(f, T) = f[c] + SumFunctionOnSet(f, T \ {c})
  BY <1>2, <1>3, SumFirst
<1>7. f[c] \in Int
  BY <1>1, <1>4
<1>8. Good(T)
  <2> HIDE DEF c
  <2> QED BY <1>4, <1>5, <1>6, <1>7
<1> QED BY <1>1, <1>8

\* Any element may be the one taken out of a sum.
LEMMA SumTakesAny ==
  ASSUME NEW f, NEW S, IsFiniteSet(S), \A x \in S : f[x] \in Int, NEW x \in S
  PROVE  SumFunctionOnSet(f, S) = f[x] + SumFunctionOnSet(f, S \ {x})
<1> DEFINE Good(T) == \A y \in T :
                        SumFunctionOnSet(f, T) = f[y] + SumFunctionOnSet(f, T \ {y})
           Bad == {T \in SUBSET S : ~ Good(T)}
<1> SUFFICES ASSUME Bad # {} PROVE FALSE
  OBVIOUS
<1>1. PICK T \in Bad : \A W \in Bad : W \subseteq T => W = T
  <2>1. Bad \subseteq SUBSET S
    OBVIOUS
  <2> HIDE DEF Bad
  <2> QED BY <2>1, SmallestSet
<1>2. PICK y \in T : SumFunctionOnSet(f, T) # f[y] + SumFunctionOnSet(f, T \ {y})
  BY <1>1
<1> DEFINE c == CHOOSE z \in T : TRUE
           R == (T \ {c}) \ {y}
<1>3. c \in T
  BY <1>2
<1>4. IsFiniteSet(T) /\ IsFiniteSet(R)
  BY <1>1, FS_Subset
<1>5. SumFunctionOnSet(f, T) = f[c] + SumFunctionOnSet(f, T \ {c})
  BY <1>2, <1>4, SumFirst
<1>6. c # y
  BY <1>2, <1>5
<1>7. Good(T \ {c}) /\ Good(T \ {y})
  BY <1>1, <1>2, <1>3
<1>8. SumFunctionOnSet(f, T \ {c}) = f[y] + SumFunctionOnSet(f, R)
  BY <1>2, <1>6, <1>7
<1>9. SumFunctionOnSet(f, T \ {y}) = f[c] + SumFunctionOnSet(f, R)
  <2>1. (T \ {y}) \ {c} = R
    OBVIOUS
  <2> QED BY <1>3, <1>6, <1>7, <2>1
<1>10. SumFunctionOnSet(f, R) \in Int /\ f[c] \in Int /\ f[y] \in Int
  BY <1>1, <1>2, <1>3, <1>4, SumType
<1> HIDE DEF c, R
<1> QED BY <1>2, <1>5, <1>8, <1>9, <1>10

-----------------------------------------------------------------------------
(* Sums of the values of a map                                             *)

\* Maps that agree on a set have the same sum over it, whatever else they hold.
LEMMA SumOverSubset ==
  ASSUME NEW S, NEW f, NEW T, IsFiniteSet(T), NEW g, DOMAIN g = T, \A x \in T : g[x] = f[x]
  PROVE  SumFunction(g) = SumFunctionOnSet(f, T)
BY SumReadsItsSet DEF SumFunction

\* The sum of an empty map.
LEMMA SumOfNone ==
  ASSUME NEW f, DOMAIN f = {}
  PROVE  SumFunction(f) = 0
<1>1. IsFiniteSet({})
  BY FS_EmptySet
<1> QED BY <1>1, SumFirst DEF SumFunction

\* The sum of a map of integers.
LEMMA SumIsInt ==
  ASSUME NEW S, IsFiniteSet(S), NEW f \in [S -> Int]
  PROVE  SumFunction(f) \in Int
BY SumType DEF SumFunction

\* The sum of a map of natural numbers: a counter that holds it is never negative.
LEMMA SumIsNat ==
  ASSUME NEW S, IsFiniteSet(S), NEW f \in [S -> Nat]
  PROVE  SumFunction(f) \in Nat
<1>1. \A x \in S : f[x] \in Int /\ f[x] >= 0
  OBVIOUS
<1>2. SumFunctionOnSet(f, S) \in Int /\ SumFunctionOnSet(f, S) >= 0
  BY <1>1, SumType
<1> QED BY <1>2 DEF SumFunction

\* A map with one more key.
LEMMA SumGrows ==
  ASSUME NEW S, IsFiniteSet(S), NEW f \in [S -> Int], NEW x, x \notin S,
         NEW T, T = S \cup {x}, NEW g \in [T -> Int], \A y \in S : g[y] = f[y]
  PROVE  SumFunction(g) = SumFunction(f) + g[x]
<1>1. IsFiniteSet(S \cup {x})
  BY FS_AddElement
<1>2. SumFunctionOnSet(g, S \cup {x}) = g[x] + SumFunctionOnSet(g, (S \cup {x}) \ {x})
  BY <1>1, SumTakesAny
<1>3. (S \cup {x}) \ {x} = S
  OBVIOUS
<1>4. SumFunctionOnSet(g, S) = SumFunctionOnSet(f, S)
  BY SumReadsItsSet
<1>5. SumFunctionOnSet(f, S) \in Int
  BY SumType
<1>6. DOMAIN g = S \cup {x} /\ DOMAIN f = S /\ g[x] \in Int
  OBVIOUS
<1>7. SumFunction(g) = SumFunctionOnSet(g, S \cup {x})
  BY <1>6 DEF SumFunction
<1>8. SumFunction(f) = SumFunctionOnSet(f, S)
  BY <1>6 DEF SumFunction
<1>9. SumFunctionOnSet(g, S \cup {x}) = g[x] + SumFunctionOnSet(f, S)
  BY <1>2, <1>3, <1>4
<1>10. SumFunction(f) \in Int
  BY <1>5, <1>8
<1>11. SumFunction(g) = g[x] + SumFunction(f)
  BY <1>7, <1>8, <1>9
<1> QED BY <1>6, <1>10, <1>11

\* Two maps that differ at one key.
LEMMA SumChanges ==
  ASSUME NEW S, IsFiniteSet(S), NEW f \in [S -> Int], NEW x \in S,
         NEW g \in [S -> Int], \A y \in S \ {x} : g[y] = f[y]
  PROVE  SumFunction(g) = SumFunction(f) - f[x] + g[x]
<1>1. IsFiniteSet(S \ {x})
  BY FS_RemoveElement
<1>2. /\ SumFunctionOnSet(f, S) = f[x] + SumFunctionOnSet(f, S \ {x})
      /\ SumFunctionOnSet(g, S) = g[x] + SumFunctionOnSet(g, S \ {x})
  BY SumTakesAny
<1>3. SumFunctionOnSet(f, S \ {x}) = SumFunctionOnSet(g, S \ {x})
  BY <1>1, SumReadsItsSet
<1>4. SumFunctionOnSet(f, S \ {x}) \in Int /\ f[x] \in Int /\ g[x] \in Int
  BY <1>1, SumType
<1>5. DOMAIN g = S /\ DOMAIN f = S
  OBVIOUS
<1> QED BY <1>2, <1>3, <1>4, <1>5 DEF SumFunction

\* The keys of a map may be summed apart.
LEMMA SumSplits ==
  ASSUME NEW S, IsFiniteSet(S), NEW f \in [S -> Int], NEW T \in SUBSET S
  PROVE  SumFunction(f) = SumFunctionOnSet(f, T) + SumFunctionOnSet(f, S \ T)
<1> DEFINE Sum(W) == SumFunctionOnSet(f, W)
           Bad == {W \in SUBSET T : Sum(S) # Sum(W) + Sum(S \ W)}
<1>1. \A W \in SUBSET S : IsFiniteSet(W) /\ Sum(W) \in Int
  BY FS_Subset, SumType
<1>2. ASSUME Bad # {} PROVE FALSE
  <2>1. PICK W \in Bad : \A Y \in Bad : Y \subseteq W => Y = W
    <3>1. Bad \subseteq SUBSET S
      OBVIOUS
    <3> HIDE DEF Bad
    <3> QED BY <1>2, <3>1, SmallestSet
  <2>2. W # {}
    <3>1. Sum({}) = 0
      BY FS_EmptySet, SumFirst
    <3>2. Sum(S) \in Int /\ S \ {} = S
      BY <1>1
    <3> HIDE DEF Sum
    <3>3. Sum(S) = Sum({}) + Sum(S \ {})
      BY <3>1, <3>2
    <3> QED BY <2>1, <3>3
  <2>3. PICK x : x \in W
    BY <2>2
  <2>4. Sum(S) = Sum(W \ {x}) + Sum(S \ (W \ {x}))
    BY <2>1, <2>3
  <2>5. Sum(W) = f[x] + Sum(W \ {x})
    BY <1>1, <2>1, <2>3, SumTakesAny
  <2>6. Sum(S \ (W \ {x})) = f[x] + Sum(S \ W)
    <3>1. x \in S \ (W \ {x}) /\ (S \ (W \ {x})) \ {x} = S \ W /\ S \ (W \ {x}) \in SUBSET S
      BY <2>1, <2>3
    <3>2. \A y \in S \ (W \ {x}) : f[y] \in Int
      OBVIOUS
    <3>3. S \ W \in SUBSET S
      OBVIOUS
    <3> DEFINE R == S \ (W \ {x})
    <3>4. Sum(R) = f[x] + Sum(R \ {x})
      <4>1. IsFiniteSet(R) /\ x \in R /\ \A y \in R : f[y] \in Int
        BY <1>1, <3>1, <3>2
      <4> HIDE DEF R
      <4> QED BY <4>1, SumTakesAny
    <3> QED BY <3>1, <3>4
  <2>7. Sum(W \ {x}) \in Int /\ Sum(S \ W) \in Int /\ f[x] \in Int
    BY <1>1, <2>1, <2>3
  <2> HIDE DEF Sum
  <2>8. Sum(S) = Sum(W) + Sum(S \ W)
    BY <2>4, <2>5, <2>6, <2>7
  <2> QED BY <2>1, <2>8
<1>3. Sum(S) = Sum(T) + Sum(S \ T)
  BY <1>2
<1> QED BY <1>3 DEF SumFunction

\* Renumbering the terms of a sum: a set of numbers, moved up by n.
LEMMA SumShifts ==
  ASSUME NEW n \in Nat, NEW S, S \subseteq Nat, IsFiniteSet(S), NEW f, NEW g,
         \A i \in S : g[i] \in Int /\ f[n + i] = g[i]
  PROVE  SumFunctionOnSet(g, S) = SumFunctionOnSet(f, {n + i : i \in S})
<1> DEFINE Moved(U) == {n + i : i \in U}
           Same(U) == /\ IsFiniteSet(Moved(U))
                      /\ SumFunctionOnSet(g, U) = SumFunctionOnSet(f, Moved(U))
           Bad == {U \in SUBSET S : ~ Same(U)}
<1>1. ASSUME Bad # {} PROVE FALSE
  <2>1. PICK U \in Bad : \A W \in Bad : W \subseteq U => W = U
    <3>1. Bad \subseteq SUBSET S
      OBVIOUS
    <3>2. IsFiniteSet(S)
      OBVIOUS
    <3> HIDE DEF Bad
    <3> QED BY ONLY <1>1, <3>1, <3>2, SmallestSet
  <2>2. U \in SUBSET S /\ ~ Same(U) /\ \A W \in SUBSET U : W # U => Same(W)
    <3> HIDE DEF Same
    <3> QED BY <2>1
  <2> HIDE DEF Bad
  <2>3. PICK i : i \in U
    <3>1. SumFunctionOnSet(f, {}) = 0 /\ SumFunctionOnSet(g, {}) = 0 /\ IsFiniteSet({})
      BY FS_EmptySet, SumFirst
    <3>2. Moved({}) = {}
      OBVIOUS
    <3>3. Same({})
      BY <3>1, <3>2
    <3> HIDE DEF Same
    <3> QED BY <2>2, <3>3
  <2> DEFINE W == U \ {i}
             V == Moved(W)
             M == Moved(U)
             j == n + i
  <2>4. IsFiniteSet(V) /\ SumFunctionOnSet(g, W) = SumFunctionOnSet(f, V)
    <3>1. Same(W)
      <4> HIDE DEF Same
      <4> QED BY <2>2, <2>3
    <3> HIDE DEF W
    <3> QED BY <3>1
  <2>5. M = V \cup {j} /\ M \ {j} = V /\ j \in M
    <3>1. U \subseteq Nat /\ i \in U
      BY <2>2, <2>3
    <3> QED BY <3>1
  <2>6. /\ IsFiniteSet(U) /\ i \in U /\ f[j] = g[i]
        /\ \A m \in U : g[m] \in Int
        /\ \A m \in M : f[m] \in Int
    <3> HIDE DEF Same
    <3> QED BY <2>2, <2>3, FS_Subset
  <2>7. ~ (IsFiniteSet(M) /\ SumFunctionOnSet(g, U) = SumFunctionOnSet(f, M))
    BY <2>2
  <2> HIDE DEF M, V, j, Same
  <2>8. IsFiniteSet(M)
    BY <2>4, <2>5, FS_AddElement
  <2>9. SumFunctionOnSet(g, U) = g[i] + SumFunctionOnSet(g, W)
    BY <2>6, SumTakesAny
  <2>10. SumFunctionOnSet(f, M) = f[j] + SumFunctionOnSet(f, M \ {j})
    BY <2>5, <2>6, <2>8, SumTakesAny
  <2> HIDE DEF W
  <2> QED BY <2>4, <2>5, <2>6, <2>7, <2>8, <2>9, <2>10
<1>2. Same(S)
  <2> HIDE DEF Same
  <2> QED BY <1>1
<1> QED BY <1>2

\* A sequence of numbers with one more at its end.
LEMMA SumAppends ==
  ASSUME NEW n \in Nat, NEW f \in [1 .. n -> Int], NEW g \in [1 .. n + 1 -> Int],
         \A i \in 1 .. n : f[i] = g[i]
  PROVE  SumFunction(g) = SumFunction(f) + g[n + 1]
<1> DEFINE S == 1 .. n
           T == 1 .. n + 1
           m == n + 1
<1>1. T = S \cup {m} /\ m \notin S
  OBVIOUS
<1>2. IsFiniteSet(S)
  <2>1. 1 \in Int /\ n \in Int
    OBVIOUS
  <2> QED BY <2>1, FS_Interval
<1>3. DOMAIN f = S /\ DOMAIN g = T /\ \A i \in T : g[i] \in Int
  OBVIOUS
<1>4. IsFiniteSet(T) /\ m \in T /\ T \ {m} = S
  BY <1>1, <1>2, FS_AddElement
<1> HIDE DEF S, T, m
<1>5. SumFunctionOnSet(g, T) = g[m] + SumFunctionOnSet(g, S)
  BY <1>3, <1>4, SumTakesAny
<1>6. SumFunctionOnSet(f, S) = SumFunctionOnSet(g, S)
  BY <1>2, SumReadsItsSet DEF S
<1>7. SumFunctionOnSet(g, S) \in Int /\ g[m] \in Int
  <2>1. \A i \in S : g[i] \in Int
    BY <1>1, <1>3
  <2> QED BY <1>2, <1>3, <1>4, <2>1, SumType
<1>8. SumFunction(f) = SumFunctionOnSet(f, S) /\ SumFunction(g) = SumFunctionOnSet(g, T)
  BY <1>3 DEF SumFunction
<1>9. SumFunction(g) = SumFunction(f) + g[m]
  BY <1>5, <1>6, <1>7, <1>8
<1> QED BY <1>9 DEF m
=============================================================================
