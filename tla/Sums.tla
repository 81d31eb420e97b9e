-------------------------------- MODULE Sums --------------------------------
(***************************************************************************)
(* Lemmas about finite sums.  The totals of this system (what is at risk,  *)
(* what the account holds, what was spent today) are sums over a set of    *)
(* rows, written with SumFunctionOnSet of the community modules; the proof *)
(* modules use what is proved here of it for every function and every      *)
(* finite set.                                                             *)
(*                                                                         *)
(* The sum is defined by recursion over the subsets of the set, through a  *)
(* CHOOSE of the table of all of them.  So the lemmas first show that this *)
(* table exists and is unique (SumRestrict, SumUnique, SumExists), then    *)
(* what follows from its defining equation.                                *)
(***************************************************************************)
EXTENDS Integers, FiniteSets, FiniteSetsExt, Functions, FiniteSetTheorems, WellFoundedInduction, TLAPS

\* Of a non-empty set of finite sets, some member has no member strictly inside it:
\* the strict order of the subsets of a finite set is well founded.
LEMMA SmallestSubset ==
  ASSUME NEW S, IsFiniteSet(S), NEW Q, Q \subseteq SUBSET S, Q # {}
  PROVE  \E T \in Q : \A U \in Q : ~(U \subseteq T /\ U # T)
<1> DEFINE W == FiniteSubsetsOf(S)
           R == StrictSubsetOrdering(S)
<1>1. W = SUBSET S /\ IsWellFoundedOn(R, W)
  BY FS_FiniteSubsetsOfFinite, FS_StrictSubsetOrderingWellFounded
<1>2. \E T \in Q : \A U \in Q : ~(<<U, T>> \in R)
  <2> HIDE DEF R, W
  <2> QED
    BY <1>1, WFMin
<1>3. \A T, U \in SUBSET S : <<U, T>> \in R <=> (U \subseteq T /\ U # T)
  BY DEF StrictSubsetOrdering
<1> QED
  BY <1>2, <1>3

\* Induction over a finite set, with the predicate given as the set P of the subsets it
\* holds of: a set is what the library's induction theorem, stated for an operator, is not,
\* a fact the provers can instantiate.
LEMMA FiniteSetInduction ==
  ASSUME NEW S, IsFiniteSet(S), NEW P, {} \in P,
         \A T \in SUBSET S : \A x \in S \ T : T \in P => T \cup {x} \in P
  PROVE  S \in P
<1> SUFFICES ASSUME S \notin P PROVE FALSE
  OBVIOUS
<1> DEFINE Bad == {T \in SUBSET S : T \notin P}
<1>1. Bad \subseteq SUBSET S /\ Bad # {} /\ \A T \in SUBSET S : T \in Bad <=> T \notin P
  OBVIOUS
<1> HIDE DEF Bad
<1>2. PICK T \in Bad : \A U \in Bad : ~(U \subseteq T /\ U # T)
  BY <1>1, SmallestSubset
<1>3. PICK x : x \in T
  <2>1. T \notin P /\ {} \in P
    BY <1>1, <1>2
  <2> QED
    BY <2>1
<1> DEFINE U == T \ {x}
<1>4. U \in SUBSET S /\ U \subseteq T /\ U # T /\ x \in S \ U /\ U \cup {x} = T
  BY <1>1, <1>2, <1>3
<1> HIDE DEF U
<1>5. U \in P
  BY <1>1, <1>2, <1>4
<1> QED
  BY <1>1, <1>2, <1>4, <1>5

\* g is the table of the sums of f over the subsets of S: the recursion inside
\* Functions!SumFunctionOnSet, as a predicate.
IsSum(g, f, S) ==
  g = [s \in SUBSET S |-> IF s = {} THEN 0
                          ELSE f[CHOOSE x \in s : TRUE] + g[s \ {CHOOSE x \in s : TRUE}]]

\* SumFunctionOnSet is the table its definition chooses, read at S.
LEMMA SumIsChosen ==
  ASSUME NEW f, NEW S
  PROVE  SumFunctionOnSet(f, S) = (CHOOSE g : IsSum(g, f, S))[S]
  BY DEF SumFunctionOnSet, FoldFunctionOnSet, MapThenFoldSet, IsSum

\* A table of sums over the subsets of S is one over the subsets of any T inside S.
LEMMA SumRestrict ==
  ASSUME NEW g, NEW f, NEW S, IsSum(g, f, S), NEW T \in SUBSET S
  PROVE  IsSum([s \in SUBSET T |-> g[s]], f, T)
<1> DEFINE c(s) == CHOOSE x \in s : TRUE
<1>1. \A s \in SUBSET S : g[s] = IF s = {} THEN 0 ELSE f[c(s)] + g[s \ {c(s)}]
  BY DEF IsSum
<1>2. \A s \in SUBSET T : s \in SUBSET S /\ s \ {c(s)} \in SUBSET T
  OBVIOUS
<1> HIDE DEF c
<1> DEFINE h == [s \in SUBSET T |-> g[s]]
<1>3. h = [s \in SUBSET T |-> IF s = {} THEN 0 ELSE f[c(s)] + h[s \ {c(s)}]]
  BY <1>1, <1>2
<1> QED
  BY <1>3 DEF IsSum, c

\* There is at most one table of sums over a finite set.
LEMMA SumUnique ==
  ASSUME NEW g, NEW h, NEW f, NEW S, IsFiniteSet(S), IsSum(g, f, S), IsSum(h, f, S)
  PROVE  g = h
<1> DEFINE c(s) == CHOOSE x \in s : TRUE
<1>1. \A s \in SUBSET S : /\ g[s] = IF s = {} THEN 0 ELSE f[c(s)] + g[s \ {c(s)}]
                          /\ h[s] = IF s = {} THEN 0 ELSE f[c(s)] + h[s \ {c(s)}]
  BY DEF IsSum
<1> HIDE DEF c
<1> DEFINE Bad == {s \in SUBSET S : g[s] # h[s]}
<1>2. Bad = {}
  <2> SUFFICES ASSUME Bad # {} PROVE FALSE
    OBVIOUS
  <2>1. PICK s \in Bad : \A u \in Bad : ~(u \subseteq s /\ u # s)
    <3>1. Bad \subseteq SUBSET S
      OBVIOUS
    <3> HIDE DEF Bad
    <3> QED
      BY <3>1, SmallestSubset
  <2>2. s # {} => s \ {c(s)} \notin Bad
    BY <2>1 DEF c
  <2> QED
    BY <1>1, <2>1, <2>2
<1>3. \A s \in SUBSET S : g[s] = h[s]
  BY <1>2
<1>4. g = [s \in SUBSET S |-> g[s]] /\ h = [s \in SUBSET S |-> h[s]]
  BY DEF IsSum
<1> QED
  BY <1>3, <1>4

\* There is a table of sums over every finite set: of the smallest set without one, the
\* smaller sets have tables, and they agree where they overlap.
LEMMA SumExists ==
  ASSUME NEW f, NEW S, IsFiniteSet(S)
  PROVE  \E g : IsSum(g, f, S)
<1> DEFINE c(s) == CHOOSE x \in s : TRUE
           G(s) == CHOOSE g : IsSum(g, f, s)
           Bad == {T \in SUBSET S : ~ \E g : IsSum(g, f, T)}
<1>1. SUFFICES ASSUME S \in Bad PROVE FALSE
  OBVIOUS
<1>2. PICK T \in Bad : \A U \in Bad : ~(U \subseteq T /\ U # T)
  <2>1. Bad \subseteq SUBSET S /\ Bad # {}
    BY <1>1
  <2> HIDE DEF Bad
  <2> QED
    BY <2>1, SmallestSubset
<1>3. T \subseteq S /\ ~ \E g : IsSum(g, f, T)
  OBVIOUS
<1>4. ASSUME NEW s \in SUBSET T, s # T
      PROVE  IsSum(G(s), f, s) /\ IsFiniteSet(s)
  <2>1. s \in SUBSET S /\ s \notin Bad
    BY <1>2, <1>4
  <2> QED
    BY <2>1, FS_Subset
<1> HIDE DEF Bad, G
<1>5. ASSUME NEW s \in SUBSET T, s # T, NEW u \in SUBSET s
      PROVE  G(s)[u] = G(u)[u]
  <2>1. IsSum([v \in SUBSET u |-> G(s)[v]], f, u)
    BY <1>4, <1>5, SumRestrict
  <2>2. IsSum(G(u), f, u) /\ IsFiniteSet(u)
    BY <1>4, <1>5
  <2>3. [v \in SUBSET u |-> G(s)[v]] = G(u)
    BY <2>1, <2>2, SumUnique
  <2> QED
    BY <2>3
<1> DEFINE h == [s \in SUBSET T |-> IF s # T THEN G(s)[s]
                                    ELSE IF s = {} THEN 0
                                    ELSE f[c(s)] + G(s \ {c(s)})[s \ {c(s)}]]
<1>6. ASSUME NEW s \in SUBSET T
      PROVE  h[s] = IF s = {} THEN 0 ELSE f[c(s)] + h[s \ {c(s)}]
  <2>1. s # {} => c(s) \in s
    OBVIOUS
  <2> HIDE DEF c
  <2>2. CASE s = T /\ s # {}
    BY <2>1, <2>2
  <2>3. CASE s = T /\ s = {}
    BY <2>3
  <2>4. CASE s # T
    <3>1. G(s)[s] = IF s = {} THEN 0 ELSE f[c(s)] + G(s)[s \ {c(s)}]
      BY <1>4, <2>4 DEF IsSum, c
    <3>2. h[s] = G(s)[s]
      BY <2>4
    <3>3. s # {} => h[s \ {c(s)}] = G(s \ {c(s)})[s \ {c(s)}]
      BY <2>4, <2>1
    <3>4. G(s)[s \ {c(s)}] = G(s \ {c(s)})[s \ {c(s)}]
      BY <1>5, <2>4
    <3> HIDE DEF h
    <3> QED
      BY <3>1, <3>2, <3>3, <3>4
  <2> QED
    BY <2>2, <2>3, <2>4
<1>7. h = [s \in SUBSET T |-> h[s]]
  OBVIOUS
<1> HIDE DEF h
<1>8. IsSum(h, f, T)
  BY <1>6, <1>7 DEF IsSum
<1> QED
  BY <1>3, <1>8

\* What the definition of the sum says: 0 over the empty set, and over another one element
\* and the sum of the rest.
LEMMA SumStep ==
  ASSUME NEW f, NEW S, IsFiniteSet(S)
  PROVE  /\ S = {} => SumFunctionOnSet(f, S) = 0
         /\ S # {} => \E x \in S : SumFunctionOnSet(f, S) = f[x] + SumFunctionOnSet(f, S \ {x})
<1> DEFINE g == CHOOSE h : IsSum(h, f, S)
           x == CHOOSE y \in S : TRUE
<1>1. IsSum(g, f, S) /\ SumFunctionOnSet(f, S) = g[S]
  BY SumExists, SumIsChosen
<1>2. g[S] = IF S = {} THEN 0 ELSE f[x] + g[S \ {x}]
  BY <1>1 DEF IsSum
<1>3. SumFunctionOnSet(f, S \ {x}) = g[S \ {x}]
  <2> DEFINE U == S \ {x}
             k == CHOOSE h : IsSum(h, f, U)
  <2>1. IsFiniteSet(U)
    BY FS_Subset
  <2>2. IsSum([s \in SUBSET U |-> g[s]], f, U)
    BY <1>1, SumRestrict
  <2>3. IsSum(k, f, U) /\ SumFunctionOnSet(f, U) = k[U]
    BY <2>1, SumExists, SumIsChosen
  <2>4. k = [s \in SUBSET U |-> g[s]]
    <3> HIDE DEF g, k, U
    <3> QED
      BY <2>1, <2>2, <2>3, SumUnique
  <2> HIDE DEF g, k
  <2> QED
    BY <2>3, <2>4
<1>4. S # {} => x \in S
  OBVIOUS
<1> HIDE DEF g, x
<1> QED
  BY <1>1, <1>2, <1>3, <1>4

\* A sum of integers is an integer.
LEMMA SumType ==
  ASSUME NEW f, NEW S, IsFiniteSet(S), \A y \in S : f[y] \in Int
  PROVE  SumFunctionOnSet(f, S) \in Int
<1> DEFINE Bad == {T \in SUBSET S : SumFunctionOnSet(f, T) \notin Int}
<1> SUFFICES ASSUME Bad # {} PROVE FALSE
  OBVIOUS
<1>1. PICK T \in Bad : \A U \in Bad : ~(U \subseteq T /\ U # T)
  <2>1. Bad \subseteq SUBSET S
    OBVIOUS
  <2> HIDE DEF Bad
  <2> QED
    BY <2>1, SmallestSubset
<1>2. T \in SUBSET S /\ IsFiniteSet(T) /\ SumFunctionOnSet(f, T) \notin Int
  BY FS_Subset
<1>3. T # {}
  BY <1>2, SumStep
<1>4. PICK x \in T : SumFunctionOnSet(f, T) = f[x] + SumFunctionOnSet(f, T \ {x})
  BY <1>2, <1>3, SumStep
<1>5. T \ {x} \notin Bad /\ T \ {x} \in SUBSET S
  BY <1>1
<1> QED
  BY <1>2, <1>4, <1>5

\* Any element may be taken out first: the sum does not depend on the order.
LEMMA SumRemove ==
  ASSUME NEW f, NEW S, IsFiniteSet(S), \A y \in S : f[y] \in Int, NEW x \in S
  PROVE  SumFunctionOnSet(f, S) = f[x] + SumFunctionOnSet(f, S \ {x})
<1> DEFINE V(T) == SumFunctionOnSet(f, T)
           Bad == {T \in SUBSET S : \E y \in T : V(T) # f[y] + V(T \ {y})}
<1>0. \A T \in SUBSET S : V(T) \in Int
  <2> TAKE T \in SUBSET S
  <2>1. IsFiniteSet(T) /\ \A y \in T : f[y] \in Int
    BY FS_Subset
  <2> QED
    BY <2>1, SumType
<1> SUFFICES ASSUME Bad # {} PROVE FALSE
  OBVIOUS
<1>1. PICK T \in Bad : \A U \in Bad : ~(U \subseteq T /\ U # T)
  <2>1. Bad \subseteq SUBSET S
    OBVIOUS
  <2> HIDE DEF Bad
  <2> QED
    BY <2>1, SmallestSubset
<1>2. PICK y \in T : V(T) # f[y] + V(T \ {y})
  OBVIOUS
<1>3. T \in SUBSET S /\ IsFiniteSet(T)
  BY FS_Subset
<1>4. PICK z \in T : V(T) = f[z] + V(T \ {z})
  BY <1>2, <1>3, SumStep
<1>5. z # y
  BY <1>2, <1>4
<1>6. T \ {z} \notin Bad /\ T \ {y} \notin Bad
  BY <1>1
<1>7. V(T \ {z}) = f[y] + V((T \ {z}) \ {y}) /\ V(T \ {y}) = f[z] + V((T \ {y}) \ {z})
  BY <1>3, <1>5, <1>6
<1>8. (T \ {z}) \ {y} = (T \ {y}) \ {z}
  OBVIOUS
<1>9. f[y] \in Int /\ f[z] \in Int /\ V((T \ {y}) \ {z}) \in Int
  BY <1>0, <1>3
<1>10. \A a, b, w \in Int : a + (b + w) = b + (a + w)
  OBVIOUS
<1>11. /\ V(T) = f[z] + (f[y] + V((T \ {y}) \ {z}))
       /\ f[y] + V(T \ {y}) = f[y] + (f[z] + V((T \ {y}) \ {z}))
  <2> HIDE DEF V
  <2> QED
    BY <1>4, <1>7, <1>8
<1> QED
  BY <1>2, <1>9, <1>10, <1>11

\* The sum over one element more.
LEMMA SumAdd ==
  ASSUME NEW f, NEW S, IsFiniteSet(S), NEW x, x \notin S, \A y \in S \cup {x} : f[y] \in Int
  PROVE  SumFunctionOnSet(f, S \cup {x}) = f[x] + SumFunctionOnSet(f, S)
<1>1. IsFiniteSet(S \cup {x}) /\ (S \cup {x}) \ {x} = S
  BY FS_AddElement
<1> QED
  BY <1>1, SumRemove

\* A larger summand never makes a smaller sum.
LEMMA SumLeq ==
  ASSUME NEW f, NEW g, NEW S, IsFiniteSet(S),
         \A y \in S : f[y] \in Int /\ g[y] \in Int /\ f[y] <= g[y]
  PROVE  SumFunctionOnSet(f, S) <= SumFunctionOnSet(g, S)
<1> DEFINE P == {T \in SUBSET S : SumFunctionOnSet(f, T) <= SumFunctionOnSet(g, T)}
<1>1. {} \in P
  BY SumStep, FS_EmptySet
<1>2. ASSUME NEW T \in SUBSET S, NEW x \in S \ T, T \in P
      PROVE  T \cup {x} \in P
  <2>1. IsFiniteSet(T)
    BY FS_Subset
  <2>2. /\ SumFunctionOnSet(f, T \cup {x}) = f[x] + SumFunctionOnSet(f, T)
        /\ SumFunctionOnSet(g, T \cup {x}) = g[x] + SumFunctionOnSet(g, T)
    BY <2>1, SumAdd
  <2>3. SumFunctionOnSet(f, T) \in Int /\ SumFunctionOnSet(g, T) \in Int
    BY <2>1, SumType
  <2>4. SumFunctionOnSet(f, T) <= SumFunctionOnSet(g, T)
    BY <1>2
  <2> QED
    BY <2>2, <2>3, <2>4
<1> HIDE DEF P
<1>3. S \in P
  BY <1>1, <1>2, FiniteSetInduction
<1> QED
  BY <1>3 DEF P

\* The sum depends only on the values over the set.
LEMMA SumEqual ==
  ASSUME NEW f, NEW g, NEW S, IsFiniteSet(S), \A y \in S : f[y] \in Int /\ g[y] = f[y]
  PROVE  SumFunctionOnSet(g, S) = SumFunctionOnSet(f, S)
<1>1. SumFunctionOnSet(f, S) <= SumFunctionOnSet(g, S) /\ SumFunctionOnSet(g, S) <= SumFunctionOnSet(f, S)
  BY SumLeq
<1>2. SumFunctionOnSet(f, S) \in Int /\ SumFunctionOnSet(g, S) \in Int
  BY SumType
<1> QED
  BY <1>1, <1>2

\* A function changed at one element changes its sum by the difference there: what every
\* handler that writes one row does to a total over the rows.
LEMMA SumOneChanged ==
  ASSUME NEW f, NEW g, NEW S, IsFiniteSet(S), NEW x \in S,
         \A y \in S : f[y] \in Int /\ g[y] \in Int,
         \A y \in S \ {x} : g[y] = f[y]
  PROVE  SumFunctionOnSet(g, S) = SumFunctionOnSet(f, S) - f[x] + g[x]
<1>1. IsFiniteSet(S \ {x})
  BY FS_Subset
<1>2. SumFunctionOnSet(g, S \ {x}) = SumFunctionOnSet(f, S \ {x}) /\ SumFunctionOnSet(f, S \ {x}) \in Int
  BY <1>1, SumEqual, SumType
<1>3. /\ SumFunctionOnSet(f, S) = f[x] + SumFunctionOnSet(f, S \ {x})
      /\ SumFunctionOnSet(g, S) = g[x] + SumFunctionOnSet(g, S \ {x})
  BY SumRemove
<1> QED
  BY <1>2, <1>3

\* The sum over two disjoint sets.
LEMMA SumUnion ==
  ASSUME NEW f, NEW S, NEW U, IsFiniteSet(S), IsFiniteSet(U), S \cap U = {},
         \A y \in S \cup U : f[y] \in Int
  PROVE  SumFunctionOnSet(f, S \cup U) = SumFunctionOnSet(f, S) + SumFunctionOnSet(f, U)
<1> DEFINE P == {T \in SUBSET U : SumFunctionOnSet(f, S \cup T) = SumFunctionOnSet(f, S) + SumFunctionOnSet(f, T)}
<1>0. SumFunctionOnSet(f, S) \in Int
  BY SumType
<1>1. {} \in P
  <2>1. S \cup {} = S /\ SumFunctionOnSet(f, {}) = 0
    BY SumStep, FS_EmptySet
  <2> QED
    BY <1>0, <2>1
<1>2. ASSUME NEW T \in SUBSET U, NEW x \in U \ T, T \in P
      PROVE  T \cup {x} \in P
  <2>1. IsFiniteSet(T) /\ IsFiniteSet(S \cup T) /\ x \notin S \cup T /\ S \cup (T \cup {x}) = (S \cup T) \cup {x}
    BY FS_Subset, FS_Union
  <2>2. \A y \in (S \cup T) \cup {x} : f[y] \in Int
    OBVIOUS
  <2>3. SumFunctionOnSet(f, (S \cup T) \cup {x}) = f[x] + SumFunctionOnSet(f, S \cup T)
    BY <2>1, <2>2, SumAdd
  <2>4. SumFunctionOnSet(f, T \cup {x}) = f[x] + SumFunctionOnSet(f, T) /\ SumFunctionOnSet(f, T) \in Int
    BY <2>1, <2>2, SumAdd, SumType
  <2>5. SumFunctionOnSet(f, S \cup T) = SumFunctionOnSet(f, S) + SumFunctionOnSet(f, T)
    BY <1>2
  <2>6. SumFunctionOnSet(f, S \cup (T \cup {x})) = SumFunctionOnSet(f, S) + SumFunctionOnSet(f, T \cup {x})
    <3>1. \A a, b, v \in Int : v + (a + b) = a + (v + b)
      OBVIOUS
    <3>2. /\ SumFunctionOnSet(f, S \cup (T \cup {x})) = f[x] + (SumFunctionOnSet(f, S) + SumFunctionOnSet(f, T))
          /\ f[x] \in Int
      BY <2>1, <2>2, <2>3, <2>5
    <3> QED
      BY <1>0, <2>4, <3>1, <3>2
  <2> QED
    BY <2>6
<1> HIDE DEF P
<1>3. U \in P
  BY <1>1, <1>2, FiniteSetInduction
<1> QED
  BY <1>3 DEF P

\* A sum of values of at most c is at most c for each element.
LEMMA SumBound ==
  ASSUME NEW f, NEW S, IsFiniteSet(S), NEW c \in Int, \A y \in S : f[y] \in Int /\ f[y] <= c
  PROVE  SumFunctionOnSet(f, S) <= c * Cardinality(S)
<1> DEFINE P == {T \in SUBSET S : SumFunctionOnSet(f, T) <= c * Cardinality(T)}
<1>1. {} \in P
  <2>1. Cardinality({}) = 0 /\ SumFunctionOnSet(f, {}) = 0 /\ c * 0 = 0
    BY SumStep, FS_EmptySet
  <2> QED
    BY <2>1
<1>2. ASSUME NEW T \in SUBSET S, NEW x \in S \ T, T \in P
      PROVE  T \cup {x} \in P
  <2>1. IsFiniteSet(T) /\ Cardinality(T) \in Nat /\ Cardinality(T \cup {x}) = Cardinality(T) + 1
    BY FS_Subset, FS_AddElement, FS_CardinalityType
  <2>2. SumFunctionOnSet(f, T \cup {x}) = f[x] + SumFunctionOnSet(f, T) /\ SumFunctionOnSet(f, T) \in Int
    BY <2>1, SumAdd, SumType
  <2>3. c * (Cardinality(T) + 1) = c * Cardinality(T) + c /\ c * Cardinality(T) \in Int
    <3>1. \A n \in Int : c * (n + 1) = c * n + c /\ c * n \in Int
      OBVIOUS
    <3>2. Cardinality(T) \in Int
      BY <2>1
    <3> QED
      BY <3>1, <3>2, Zenon
  <2>4. SumFunctionOnSet(f, T) <= c * Cardinality(T)
    BY <1>2
  <2> QED
    BY <2>1, <2>2, <2>3, <2>4
<1> HIDE DEF P
<1>3. S \in P
  BY <1>1, <1>2, FiniteSetInduction
<1> QED
  BY <1>3 DEF P

\* The sum over one element, and over two.
LEMMA SumOfOne ==
  ASSUME NEW f, NEW x, f[x] \in Int
  PROVE  SumFunctionOnSet(f, {x}) = f[x]
<1>1. IsFiniteSet({x}) /\ {x} \ {x} = {}
  BY FS_Singleton
<1>2. SumFunctionOnSet(f, {x}) = f[x] + SumFunctionOnSet(f, {x} \ {x})
  BY <1>1, SumRemove
<1>3. SumFunctionOnSet(f, {}) = 0
  BY SumStep, FS_EmptySet
<1> QED
  BY <1>1, <1>2, <1>3

\* A sum of two terms.
LEMMA SumOfTwo ==
  ASSUME NEW f, NEW x, NEW y, x # y, f[x] \in Int, f[y] \in Int
  PROVE  SumFunctionOnSet(f, {x, y}) = f[x] + f[y]
<1>1. IsFiniteSet({y}) /\ x \notin {y} /\ {y} \cup {x} = {x, y}
  BY FS_Singleton
<1>2. \A z \in {y} \cup {x} : f[z] \in Int
  OBVIOUS
<1>3. SumFunctionOnSet(f, {y} \cup {x}) = f[x] + SumFunctionOnSet(f, {y})
  BY <1>1, <1>2, SumAdd
<1>4. SumFunctionOnSet(f, {y}) = f[y]
  BY SumOfOne
<1> QED
  BY <1>1, <1>3, <1>4

\* A sum of zeros.
LEMMA SumZero ==
  ASSUME NEW f, NEW S, IsFiniteSet(S), \A y \in S : f[y] = 0
  PROVE  SumFunctionOnSet(f, S) = 0
<1> DEFINE z == [y \in S |-> 0]
           P == {T \in SUBSET S : SumFunctionOnSet(f, T) = 0}
<1>1. {} \in P
  BY SumStep, FS_EmptySet
<1>2. ASSUME NEW T \in SUBSET S, NEW x \in S \ T, T \in P
      PROVE  T \cup {x} \in P
  <2>1. SumFunctionOnSet(f, T \cup {x}) = f[x] + SumFunctionOnSet(f, T) /\ f[x] = 0 /\ SumFunctionOnSet(f, T) = 0
    BY <1>2, FS_Subset, SumAdd
  <2> QED
    BY <2>1
<1> HIDE DEF P
<1>3. S \in P
  BY <1>1, <1>2, FiniteSetInduction
<1> QED
  BY <1>3 DEF P

\* A sum of non-negative values is non-negative, bounds the sum over any part, and bounds
\* every summand.
LEMMA SumNat ==
  ASSUME NEW f, NEW S, IsFiniteSet(S), \A y \in S : f[y] \in Nat
  PROVE  /\ SumFunctionOnSet(f, S) \in Nat
         /\ \A T \in SUBSET S : SumFunctionOnSet(f, T) <= SumFunctionOnSet(f, S)
         /\ \A x \in S : f[x] <= SumFunctionOnSet(f, S)
<1> DEFINE P == {T \in SUBSET S : SumFunctionOnSet(f, T) >= 0}
<1>1. {} \in P
  BY SumStep, FS_EmptySet
<1>2. ASSUME NEW T \in SUBSET S, NEW x \in S \ T, T \in P
      PROVE  T \cup {x} \in P
  <2>1. SumFunctionOnSet(f, T \cup {x}) = f[x] + SumFunctionOnSet(f, T) /\ SumFunctionOnSet(f, T) \in Int
    BY FS_Subset, SumAdd, SumType
  <2> QED
    BY <1>2, <2>1
<1> HIDE DEF P
<1>3. \A T \in SUBSET S : SumFunctionOnSet(f, T) \in Nat
  <2> TAKE T \in SUBSET S
  <2>1. IsFiniteSet(T) /\ \A U \in SUBSET T : \A x \in T \ U : U \in P => U \cup {x} \in P
    BY <1>2, FS_Subset
  <2>2. T \in P
    BY <1>1, <2>1, FiniteSetInduction
  <2>3. SumFunctionOnSet(f, T) \in Int
    BY <2>1, SumType
  <2> QED
    BY <2>2, <2>3 DEF P
<1>4. ASSUME NEW T \in SUBSET S
      PROVE  SumFunctionOnSet(f, T) <= SumFunctionOnSet(f, S)
  <2>1. IsFiniteSet(T) /\ IsFiniteSet(S \ T) /\ T \cap (S \ T) = {} /\ S = T \cup (S \ T)
    BY FS_Subset
  <2>2. SumFunctionOnSet(f, S) = SumFunctionOnSet(f, T) + SumFunctionOnSet(f, S \ T)
    BY <2>1, SumUnion
  <2>3. SumFunctionOnSet(f, T) \in Nat /\ SumFunctionOnSet(f, S \ T) \in Nat
    BY <1>3
  <2> QED
    BY <2>2, <2>3
<1>5. ASSUME NEW x \in S
      PROVE  f[x] <= SumFunctionOnSet(f, S)
  <2>1. SumFunctionOnSet(f, S) = f[x] + SumFunctionOnSet(f, S \ {x}) /\ SumFunctionOnSet(f, S \ {x}) \in Nat
    BY <1>3, SumRemove
  <2> QED
    BY <2>1
<1> QED
  BY <1>3, <1>4, <1>5

-----------------------------------------------------------------------------
(* Least and greatest elements, and what products need *)

\* A sum over a part is the sum over the whole of what the part holds, and nothing else.
LEMMA SumFilter ==
  ASSUME NEW f, NEW g, NEW S, NEW U, IsFiniteSet(U), S \subseteq U,
         \A y \in S : f[y] \in Int /\ g[y] = f[y], \A y \in U \ S : g[y] = 0
  PROVE  SumFunctionOnSet(g, U) = SumFunctionOnSet(f, S)
<1>1. IsFiniteSet(S) /\ IsFiniteSet(U \ S) /\ S \cap (U \ S) = {} /\ S \cup (U \ S) = U
  BY FS_Subset
<1>2. \A y \in S \cup (U \ S) : g[y] \in Int
  OBVIOUS
<1>3. SumFunctionOnSet(g, S \cup (U \ S)) = SumFunctionOnSet(g, S) + SumFunctionOnSet(g, U \ S)
  BY <1>1, <1>2, SumUnion
<1>4. SumFunctionOnSet(g, U) = SumFunctionOnSet(g, S) + SumFunctionOnSet(g, U \ S)
  BY <1>1, <1>3
<1>5. SumFunctionOnSet(g, S) = SumFunctionOnSet(f, S)
  BY <1>1, SumEqual
<1>6. SumFunctionOnSet(g, U \ S) = 0
  BY <1>1, SumZero
<1>7. SumFunctionOnSet(f, S) \in Int
  BY <1>1, SumType
<1> QED BY <1>4, <1>5, <1>6, <1>7

\* Sums add up, value by value.
LEMMA SumPlus ==
  ASSUME NEW f, NEW g, NEW h, NEW S, IsFiniteSet(S),
         \A y \in S : f[y] \in Int /\ g[y] \in Int /\ h[y] = f[y] + g[y]
  PROVE  SumFunctionOnSet(h, S) = SumFunctionOnSet(f, S) + SumFunctionOnSet(g, S)
<1> DEFINE P == {T \in SUBSET S :
                   SumFunctionOnSet(h, T) = SumFunctionOnSet(f, T) + SumFunctionOnSet(g, T)}
<1>1. {} \in P
  <2>1. SumFunctionOnSet(h, {}) = 0 /\ SumFunctionOnSet(f, {}) = 0 /\ SumFunctionOnSet(g, {}) = 0
    BY FS_EmptySet, SumStep
  <2> QED BY <2>1
<1>2. ASSUME NEW T \in SUBSET S, NEW x \in S \ T, T \in P
      PROVE  T \cup {x} \in P
  <2>1. IsFiniteSet(T) /\ x \notin T /\ T \cup {x} \in SUBSET S
    BY FS_Subset
  <2>2. \A y \in T \cup {x} : f[y] \in Int /\ g[y] \in Int /\ h[y] \in Int
    OBVIOUS
  <2>3. /\ SumFunctionOnSet(h, T \cup {x}) = h[x] + SumFunctionOnSet(h, T)
        /\ SumFunctionOnSet(f, T \cup {x}) = f[x] + SumFunctionOnSet(f, T)
        /\ SumFunctionOnSet(g, T \cup {x}) = g[x] + SumFunctionOnSet(g, T)
    BY <2>1, <2>2, SumAdd
  <2>4. SumFunctionOnSet(f, T) \in Int /\ SumFunctionOnSet(g, T) \in Int
    BY <2>1, <2>2, SumType
  <2>5. SumFunctionOnSet(h, T) = SumFunctionOnSet(f, T) + SumFunctionOnSet(g, T)
    BY <1>2
  <2>6. h[x] = f[x] + g[x] /\ f[x] \in Int /\ g[x] \in Int
    OBVIOUS
  <2> QED BY <2>1, <2>3, <2>4, <2>5, <2>6
<1> HIDE DEF P
<1>3. S \in P
  BY <1>1, <1>2, FiniteSetInduction
<1> QED BY <1>3 DEF P

\* What a function takes the elements of a finite set to is finite.
LEMMA FiniteRange ==
  ASSUME NEW f, NEW S, IsFiniteSet(S)
  PROVE  IsFiniteSet({f[y] : y \in S})
<1> DEFINE P == {T \in SUBSET S : IsFiniteSet({f[y] : y \in T})}
<1>1. {} \in P
  <2>1. {f[y] : y \in {}} = {}
    OBVIOUS
  <2> QED
    BY <2>1, FS_EmptySet
<1>2. ASSUME NEW T \in SUBSET S, NEW x \in S \ T, T \in P
      PROVE  T \cup {x} \in P
  <2>1. {f[y] : y \in T \cup {x}} = {f[y] : y \in T} \cup {f[x]}
    OBVIOUS
  <2>2. IsFiniteSet({f[y] : y \in T} \cup {f[x]})
    BY <1>2, FS_AddElement
  <2> QED
    BY <2>1, <2>2
<1> HIDE DEF P
<1>3. S \in P
  BY <1>1, <1>2, FiniteSetInduction
<1> QED
  BY <1>3 DEF P

\* A finite set of integers has a least element, and Min names it.
LEMMA MinOfSet ==
  ASSUME NEW S, IsFiniteSet(S), S # {}, S \subseteq Int
  PROVE  Min(S) \in S /\ \A z \in S : Min(S) <= z
<1> DEFINE P == {T \in SUBSET S : T = {} \/ \E m \in T : \A z \in T : m <= z}
<1>1. {} \in P
  OBVIOUS
<1>2. ASSUME NEW T \in SUBSET S, NEW x \in S \ T, T \in P
      PROVE  T \cup {x} \in P
  <2>1. CASE T = {}
    BY <2>1
  <2>2. CASE T # {}
    <3>1. PICK m \in T : \A z \in T : m <= z
      BY <1>2, <2>2
    <3>2. CASE m <= x
      <4>1. \A z \in T \cup {x} : m <= z
        BY <3>1, <3>2
      <4> QED BY <4>1
    <3>3. CASE x < m
      <4>1. \A z \in T \cup {x} : x <= z
        BY <3>1, <3>3
      <4> QED BY <4>1
    <3> QED BY <3>2, <3>3
  <2> QED BY <2>1, <2>2
<1> HIDE DEF P
<1>3. S \in P
  BY <1>1, <1>2, FiniteSetInduction
<1>4. PICK m \in S : \A z \in S : m <= z
  BY <1>3 DEF P
<1> QED BY <1>4 DEF Min

\* The same of the greatest.
LEMMA MaxOfSet ==
  ASSUME NEW S, IsFiniteSet(S), S # {}, S \subseteq Int
  PROVE  Max(S) \in S /\ \A z \in S : z <= Max(S)
<1> DEFINE P == {T \in SUBSET S : T = {} \/ \E m \in T : \A z \in T : z <= m}
<1>1. {} \in P
  OBVIOUS
<1>2. ASSUME NEW T \in SUBSET S, NEW x \in S \ T, T \in P
      PROVE  T \cup {x} \in P
  <2>1. CASE T = {}
    BY <2>1
  <2>2. CASE T # {}
    <3>1. PICK m \in T : \A z \in T : z <= m
      BY <1>2, <2>2
    <3>2. CASE x <= m
      <4>1. \A z \in T \cup {x} : z <= m
        BY <3>1, <3>2
      <4> QED BY <4>1
    <3>3. CASE m < x
      <4>1. \A z \in T \cup {x} : z <= x
        BY <3>1, <3>3
      <4> QED BY <4>1
    <3> QED BY <3>2, <3>3
  <2> QED BY <2>1, <2>2
<1> HIDE DEF P
<1>3. S \in P
  BY <1>1, <1>2, FiniteSetInduction
<1>4. PICK m \in S : \A z \in S : m >= z
  BY <1>3 DEF P
<1>5. Max(S) \in S /\ \A z \in S : Max(S) >= z
  BY <1>4 DEF Max
<1> QED BY <1>5

\* Sets written out are finite.
LEMMA SmallSets ==
  ASSUME NEW x, NEW y, NEW z
  PROVE  IsFiniteSet({x}) /\ IsFiniteSet({x, y}) /\ IsFiniteSet({x, y, z})
<1>1. IsFiniteSet({x})
  BY FS_Singleton
<1>2. IsFiniteSet({x} \cup {y}) /\ {x} \cup {y} = {x, y}
  BY <1>1, FS_AddElement
<1>3. IsFiniteSet({x, y} \cup {z}) /\ {x, y} \cup {z} = {x, y, z}
  BY <1>2, FS_AddElement
<1> QED BY <1>1, <1>2, <1>3

\* The larger and the smaller of two.
LEMMA MaxOfTwo ==
  ASSUME NEW x \in Int, NEW y \in Int
  PROVE  Max({x, y}) = IF x >= y THEN x ELSE y
<1>1. Max({x, y}) \in {x, y} /\ \A z \in {x, y} : z <= Max({x, y})
  BY MaxOfSet, SmallSets
<1> QED BY <1>1

\* The smaller of two.
LEMMA MinOfTwo ==
  ASSUME NEW x \in Int, NEW y \in Int
  PROVE  Min({x, y}) = IF x <= y THEN x ELSE y
<1>1. Min({x, y}) \in {x, y} /\ \A z \in {x, y} : Min({x, y}) <= z
  BY MinOfSet, SmallSets
<1> QED BY <1>1

\* A product grows with its second factor.
LEMMA ProductGrows ==
  ASSUME NEW p \in Nat, NEW a \in Nat, NEW b \in Nat, a <= b
  PROVE  p * a \in Nat /\ p * b \in Nat /\ p * a <= p * b
<1>1. PICK d \in Nat : b = a + d
  <2>1. b - a \in Nat /\ b = a + (b - a)
    OBVIOUS
  <2> QED BY <2>1
<1>2. p * (a + d) = p * a + p * d
  OBVIOUS
<1>3. p * a \in Nat /\ p * d \in Nat
  OBVIOUS
<1> QED BY <1>1, <1>2, <1>3

\* What is bought with a budget stays inside it: the division rounds down.
LEMMA DivisionFits ==
  ASSUME NEW u \in Int, NEW d \in Nat, d > 0
  PROVE  u \div d \in Int /\ d * (u \div d) <= u /\ (u >= 0 => u \div d >= 0)
  OBVIOUS

\* Induction over the first n numbers, for a set that holds 0 and is closed under the next.
LEMMA Climb ==
  ASSUME NEW n \in Nat, NEW P, 0 \in P, \A i \in 1 .. n : i - 1 \in P => i \in P
  PROVE  n \in P
<1> SUFFICES ASSUME n \notin P PROVE FALSE
  OBVIOUS
<1> DEFINE Bad == {i \in 0 .. n : i \notin P}
<1>1. /\ Bad # {} /\ Bad \subseteq Int /\ Bad \subseteq 0 .. n
      /\ \A i \in 0 .. n : i \in Bad <=> i \notin P
  OBVIOUS
<1>2. IsFiniteSet(Bad)
  <2>1. IsFiniteSet(0 .. n)
    BY FS_Interval
  <2> QED
    BY <1>1, <2>1, FS_Subset
<1> HIDE DEF Bad
<1>3. PICK least \in Bad : \A i \in Bad : least <= i
  BY <1>1, <1>2, MinOfSet
<1> QED
  BY <1>1, <1>3

\* The sums of the first i terms.
LEMMA PrefixSums ==
  ASSUME NEW n \in Nat, NEW f, \A i \in 1 .. n : f[i] \in Int
  PROVE  /\ SumFunctionOnSet(f, 1 .. 0) = 0
         /\ \A i \in 0 .. n : SumFunctionOnSet(f, 1 .. i) \in Int
         /\ \A i \in 1 .. n : SumFunctionOnSet(f, 1 .. i) = SumFunctionOnSet(f, 1 .. i - 1) + f[i]
<1>1. \A i \in 0 .. n : IsFiniteSet(1 .. i) /\ 1 .. i \subseteq 1 .. n
  BY FS_Interval
<1>2. SumFunctionOnSet(f, 1 .. 0) = 0
  <2>1. 1 .. 0 = {}
    OBVIOUS
  <2> QED
    BY <2>1, SumStep, FS_EmptySet
<1>3. ASSUME NEW i \in 0 .. n PROVE SumFunctionOnSet(f, 1 .. i) \in Int
  BY <1>1, SumType
<1>4. ASSUME NEW i \in 1 .. n
      PROVE  SumFunctionOnSet(f, 1 .. i) = SumFunctionOnSet(f, 1 .. i - 1) + f[i]
  <2>1. i - 1 \in 0 .. n /\ i \in 0 .. n /\ i \in 1 .. i /\ (1 .. i) \ {i} = 1 .. i - 1
    OBVIOUS
  <2>2. SumFunctionOnSet(f, 1 .. i) = f[i] + SumFunctionOnSet(f, (1 .. i) \ {i})
    BY <1>1, <2>1, SumRemove
  <2>3. SumFunctionOnSet(f, 1 .. i - 1) \in Int /\ f[i] \in Int
    BY <1>3, <2>1
  <2>4. PICK a, b : a = SumFunctionOnSet(f, 1 .. i) /\ b = SumFunctionOnSet(f, 1 .. i - 1)
    OBVIOUS
  <2>5. a = f[i] + b /\ b \in Int
    BY <2>1, <2>2, <2>3, <2>4
  <2>6. a = b + f[i]
    BY <2>3, <2>5
  <2> QED
    BY <2>4, <2>6
<1> QED
  BY <1>2, <1>3, <1>4

\* A sum of differences is the difference of the ends.
Telescopes(f, g, n) == SumFunctionOnSet(f, 1 .. n) = g[n] - g[0]

\* Differences of neighbours telescope.
LEMMA Telescope ==
  ASSUME NEW n \in Nat, NEW f, NEW g, \A i \in 0 .. n : g[i] \in Int,
         \A i \in 1 .. n : f[i] = g[i] - g[i - 1]
  PROVE  Telescopes(f, g, n)
<1> DEFINE S(i) == SumFunctionOnSet(f, 1 .. i)
           P == {i \in 0 .. n : S(i) = g[i] - g[0]}
<1>1. \A i \in 1 .. n : f[i] \in Int
  <2> SUFFICES ASSUME NEW i \in 1 .. n PROVE f[i] \in Int
    OBVIOUS
  <2>1. i \in 0 .. n /\ i - 1 \in 0 .. n
    OBVIOUS
  <2> QED
    BY <2>1
<1>2. /\ S(0) = 0
      /\ \A i \in 0 .. n : S(i) \in Int
      /\ \A i \in 1 .. n : S(i) = S(i - 1) + f[i]
  BY <1>1, PrefixSums
<1> HIDE DEF S
<1>3. 0 \in P
  BY <1>2
<1>4. ASSUME NEW i \in 1 .. n, i - 1 \in P PROVE i \in P
  <2>1. i \in 0 .. n /\ i - 1 \in 0 .. n /\ 0 \in 0 .. n
    OBVIOUS
  <2>2. S(i) = S(i - 1) + (g[i] - g[i - 1]) /\ S(i - 1) = g[i - 1] - g[0]
    BY <1>2, <1>4
  <2>3. PICK a \in Int, b \in Int, c \in Int : a = g[i] /\ b = g[i - 1] /\ c = g[0]
    BY <2>1
  <2>4. S(i) = a - c
    BY <2>2, <2>3
  <2> QED
    BY <2>1, <2>3, <2>4
<1>5. n \in P
  BY <1>3, <1>4, Climb
<1> QED
  BY <1>5 DEF S, Telescopes

\* What begins with zeros is the sum of the rest.
LEMMA SumOfTail ==
  ASSUME NEW n \in Nat, NEW d \in 0 .. n, NEW f, NEW h,
         \A i \in 1 .. n : f[i] \in Int, \A i \in 1 .. d : f[i] = 0,
         \A i \in 1 .. n - d : h[i] = f[d + i]
  PROVE  SumFunctionOnSet(h, 1 .. n - d) = SumFunctionOnSet(f, 1 .. n)
<1> DEFINE S(i) == SumFunctionOnSet(f, 1 .. i)
<1>1. PICK m \in Nat : m = n - d
  OBVIOUS
<1>2. /\ \A i \in 0 .. n : S(i) \in Int
      /\ \A i \in 1 .. n : S(i) = S(i - 1) + f[i]
  BY PrefixSums
<1>3. S(d) = 0
  <2>1. IsFiniteSet(1 .. d)
    BY FS_Interval
  <2> QED
    BY <2>1, SumZero
<1> HIDE DEF S
<1>4. PICK g : g = [i \in 0 .. m |-> S(d + i)]
  OBVIOUS
<1>5. \A i \in 0 .. m : g[i] \in Int
  BY <1>1, <1>2, <1>4
<1>6. ASSUME NEW i \in 1 .. m PROVE h[i] = g[i] - g[i - 1]
  <2>1. d + i \in 1 .. n /\ d + i - 1 \in 0 .. n /\ d + i \in 0 .. n /\ i \in 0 .. m /\ i - 1 \in 0 .. m
        /\ d + (i - 1) = d + i - 1
    BY <1>1
  <2>2. g[i] = S(d + i) /\ g[i - 1] = S(d + i - 1)
    BY <1>4, <2>1
  <2>3. S(d + i) = S(d + i - 1) + f[d + i] /\ S(d + i - 1) \in Int /\ f[d + i] \in Int
    BY <1>2, <2>1
  <2>4. h[i] = f[d + i]
    BY <1>1
  <2> QED
    BY <2>2, <2>3, <2>4
<1>7. SumFunctionOnSet(h, 1 .. m) = g[m] - g[0]
  <2>1. Telescopes(h, g, m)
    BY <1>5, <1>6, Telescope
  <2> QED
    BY <2>1 DEF Telescopes
<1>8. g[m] = S(n) /\ g[0] = S(d) /\ S(n) \in Int
  BY <1>1, <1>2, <1>4
<1> QED
  BY <1>1, <1>3, <1>7, <1>8 DEF S
=============================================================================
