--------------------------- MODULE RetrievalProofs ---------------------------
(***************************************************************************)
(* For any index, any snapshots and any interleaving with the indexer: a   *)
(* response holds what the request may see and the index has served while  *)
(* the query ran, and keeps to its budget; it is the head of the ranking,  *)
(* which the fusion makes as it is defined, and what it lacks of the       *)
(* lexical rows is lost to copies.  What an evaluation measures of it is   *)
(* what the measures are called; and the query ends.                       *)
(***************************************************************************)
EXTENDS JudgedRetrieval, FiniteSetTheorems, TLAPS

-----------------------------------------------------------------------------
(* Sums of the values of a function on a finite set, as Total makes them.  *)

\* f sums c over the subsets of E, as Total does.
SumsOver(c, E, f) ==
  f = [S \in SUBSET E |->
         IF S = {} THEN 0
         ELSE LET e == CHOOSE x \in S : TRUE
              IN c[e] + f[S \ {e}]]

Any(S) == CHOOSE x \in S : TRUE

LEMMA SumsAt ==
  ASSUME NEW c, NEW E, NEW f, SumsOver(c, E, f), NEW S \in SUBSET E
  PROVE /\ S = {} => f[S] = 0
        /\ S # {} => Any(S) \in S /\ f[S] = c[Any(S)] + f[S \ {Any(S)}]
<1> DEFINE Val(U) == IF U = {} THEN 0
                     ELSE LET e == CHOOSE x \in U : TRUE IN c[e] + f[U \ {e}]
<1>1. f = [U \in SUBSET E |-> Val(U)]
  BY DEF SumsOver
<1>2. f[S] = Val(S)
  <2> HIDE DEF Val
  <2> QED
    BY <1>1
<1>3. S # {} => Any(S) \in S
  BY DEF Any
<1>4. S # {} => f[S] = c[Any(S)] + f[S \ {Any(S)}]
  BY <1>2 DEF Any
<1>5. S = {} => f[S] = 0
  BY <1>2
<1> QED
  BY <1>3, <1>4, <1>5

\* The least set that is different in some way, among the finite ones.
LEMMA LeastSubset ==
  ASSUME NEW E, IsFiniteSet(E), NEW T \in SUBSET (SUBSET E), T # {}
  PROVE \E S \in T : \A U \in T : U \subseteq S => U = S
<1>1. T \subseteq FiniteSubsetsOf(E)
  BY FS_Subset DEF FiniteSubsetsOf
<1>2. IsWellFoundedOn(StrictSubsetOrdering(E), FiniteSubsetsOf(E))
  BY FS_StrictSubsetOrderingWellFounded
<1>3. PICK S \in T : \A U \in T : ~(<<U, S>> \in StrictSubsetOrdering(E))
  BY <1>1, <1>2, WFMin
<1>4. ASSUME NEW U \in T, U \subseteq S, U # S PROVE FALSE
  <2>1. <<U, S>> \in StrictSubsetOrdering(E)
    BY <1>4 DEF StrictSubsetOrdering
  <2> QED
    BY <1>3, <2>1
<1> QED
  BY <1>4

\* Sums over a set and over one of its subsets agree.
LEMMA SumsAgree ==
  ASSUME NEW c, NEW E, IsFiniteSet(E), NEW D \in SUBSET E, NEW f, NEW g,
         SumsOver(c, E, f), SumsOver(c, D, g)
  PROVE \A S \in SUBSET D : f[S] = g[S]
<1> DEFINE T == {S \in SUBSET D : f[S] # g[S]}
<1>1. SUFFICES ASSUME T # {} PROVE FALSE
  OBVIOUS
<1>2. T \in SUBSET (SUBSET E)
  OBVIOUS
<1>3. PICK S \in T : \A U \in T : U \subseteq S => U = S
  <2> HIDE DEF T
  <2> QED
    BY <1>1, <1>2, LeastSubset
<1>4. S \in SUBSET D /\ S \in SUBSET E /\ f[S] # g[S]
  OBVIOUS
<1> HIDE DEF T
<1>5. S # {}
  <2>1. S = {} => f[S] = 0 /\ g[S] = 0
    BY <1>4, SumsAt
  <2> QED
    BY <1>4, <2>1
<1>6. PICK e : e = Any(S)
  OBVIOUS
<1>7. e \in S /\ f[S] = c[e] + f[S \ {e}]
  BY <1>4, <1>5, <1>6, SumsAt
<1>8. g[S] = c[e] + g[S \ {e}]
  BY <1>4, <1>5, <1>6, SumsAt
<1>9. S \ {e} \notin T
  BY <1>3, <1>7
<1>10. f[S \ {e}] = g[S \ {e}]
  BY <1>4, <1>9 DEF T
<1> QED
  BY <1>4, <1>7, <1>8, <1>10

\* There is a sum: of the smallest set without one, there would be.
LEMMA SumsExist ==
  ASSUME NEW c, NEW E, IsFiniteSet(E)
  PROVE \E f : SumsOver(c, E, f)
<1> DEFINE T == {U \in SUBSET E : ~\E f : SumsOver(c, U, f)}
<1>1. SUFFICES ASSUME E \in T PROVE FALSE
  OBVIOUS
<1>2. T \in SUBSET (SUBSET E) /\ T # {}
  BY <1>1
<1>3. PICK D \in T : \A U \in T : U \subseteq D => U = D
  <2> HIDE DEF T
  <2> QED
    BY <1>2, LeastSubset
<1>4. D \in SUBSET E /\ ~\E f : SumsOver(c, D, f)
  OBVIOUS
<1>5. \A U \in SUBSET D : U # D => \E f : SumsOver(c, U, f)
  BY <1>3, <1>4
<1> DEFINE sums(U) == CHOOSE f : SumsOver(c, U, f)
           part(U) == sums(U)[U]
           Val(U) == IF U = {} THEN 0
                     ELSE c[Any(U)] + part(U \ {Any(U)})
           h == [U \in SUBSET D |-> Val(U)]
<1>6. \A U \in SUBSET D : U # D => SumsOver(c, U, sums(U))
  BY <1>5
<1>7. ASSUME NEW U \in SUBSET D, U # D PROVE part(U) = Val(U)
  <2>1. SumsOver(c, U, sums(U))
    BY <1>6, <1>7
  <2>2. CASE U = {}
    BY <2>1, <2>2, SumsAt
  <2>3. CASE U # {}
    <3>9. PICK e : e = Any(U)
      OBVIOUS
    <3>1. e \in U /\ sums(U)[U] = c[e] + sums(U)[U \ {e}]
      <4> HIDE DEF sums
      <4>1. U \in SUBSET U
        OBVIOUS
      <4>2. U # {} => /\ Any(U) \in U
                      /\ sums(U)[U] = c[Any(U)] + sums(U)[U \ {Any(U)}]
        BY <2>1, <4>1, SumsAt
      <4> QED
        BY <2>3, <3>9, <4>2
    <3>2. U \ {e} \in SUBSET D /\ U \ {e} # D /\ U \ {e} \in SUBSET U
      BY <1>7
    <3>3. SumsOver(c, U \ {e}, sums(U \ {e}))
      BY <1>6, <3>2
    <3>4. IsFiniteSet(U)
      BY <1>4, FS_Subset
    <3>5. sums(U)[U \ {e}] = sums(U \ {e})[U \ {e}]
      <4> HIDE DEF sums
      <4>1. U \ {e} \in SUBSET (U \ {e})
        OBVIOUS
      <4> QED
        BY <2>1, <3>2, <3>3, <3>4, <4>1, SumsAgree
    <3>6. part(U) = c[e] + part(U \ {e})
      BY <3>1, <3>5
    <3> HIDE DEF part
    <3> QED
      BY <2>3, <3>9, <3>6
  <2> QED
    BY <2>2, <2>3
<1> HIDE DEF part, sums
<1>8. ASSUME NEW U \in SUBSET D, U # {}, NEW e \in U
      PROVE h[U \ {e}] = part(U \ {e})
  <2>1. U \ {e} \in SUBSET D /\ U \ {e} # D
    BY <1>8
  <2>2. h[U \ {e}] = Val(U \ {e})
    <3> HIDE DEF Val
    <3> QED
      BY <2>1
  <2> QED
    BY <1>7, <2>1, <2>2
<1> DEFINE Next1(U) == IF U = {} THEN 0
                       ELSE c[Any(U)] + h[U \ {Any(U)}]
<1>9. ASSUME NEW U \in SUBSET D PROVE Val(U) = Next1(U)
  <2>1. CASE U = {}
    BY <2>1
  <2>2. CASE U # {}
    <3>1. PICK e \in U : e = Any(U)
      BY <2>2 DEF Any
    <3>2. Val(U) = c[e] + part(U \ {e})
      BY <2>2, <3>1
    <3>3. Next1(U) = c[e] + h[U \ {e}]
      <4> HIDE DEF h
      <4> QED
        BY <2>2, <3>1
    <3> QED
      BY <1>8, <2>2, <3>2, <3>3
  <2> QED
    BY <2>1, <2>2
<1>10. h = [U \in SUBSET D |-> Next1(U)]
  <2> HIDE DEF Val, Next1
  <2> QED
    BY <1>9
<1>11. SumsOver(c, D, h)
  <2> HIDE DEF h
  <2> QED
    BY <1>10 DEF SumsOver, Any
<1> QED
  BY <1>4, <1>11

\* Every element of a set adds its own value to its sum.
LEMMA SumsSplit ==
  ASSUME NEW c, NEW E, IsFiniteSet(E), \A e \in E : c[e] \in Int,
         NEW f, SumsOver(c, E, f)
  PROVE \A S \in SUBSET E :
          f[S] \in Int /\ \A e \in S : f[S] = c[e] + f[S \ {e}]
<1> DEFINE T == {S \in SUBSET E :
                   ~(f[S] \in Int /\ \A e \in S : f[S] = c[e] + f[S \ {e}])}
<1>1. SUFFICES ASSUME T # {} PROVE FALSE
  OBVIOUS
<1>2. T \in SUBSET (SUBSET E)
  OBVIOUS
<1> HIDE DEF T
<1>3. PICK S \in T : \A U \in T : U \subseteq S => U = S
  BY <1>1, <1>2, LeastSubset
<1>4. /\ S \in SUBSET E
      /\ ~(f[S] \in Int /\ \A e \in S : f[S] = c[e] + f[S \ {e}])
  BY DEF T
<1>5. \A U \in SUBSET S : U # S =>
        f[U] \in Int /\ \A e \in U : f[U] = c[e] + f[U \ {e}]
  BY <1>3, <1>4 DEF T
<1>6. S # {}
  <2>1. S = {} => f[S] = 0
    BY <1>4, SumsAt
  <2> QED
    BY <1>4, <2>1
<1>7. PICK a : a = Any(S)
  OBVIOUS
<1>8. a \in S /\ f[S] = c[a] + f[S \ {a}]
  <2>1. S \in SUBSET E
    BY <1>4
  <2> QED
    BY <1>6, <1>7, <2>1, SumsAt
<1>9. f[S \ {a}] \in Int /\ \A e \in S \ {a} : f[S \ {a}] = c[e] + f[(S \ {a}) \ {e}]
  BY <1>5, <1>8
<1>10. c[a] \in Int /\ f[S] \in Int
  BY <1>4, <1>8, <1>9
<1>11. ASSUME NEW e \in S PROVE f[S] = c[e] + f[S \ {e}]
  <2>1. CASE e = a
    BY <1>8, <2>1
  <2>2. CASE e # a
    <3>1. PICK U : U = (S \ {a}) \ {e}
      OBVIOUS
    <3>2. U \in SUBSET S /\ U # S /\ U = (S \ {e}) \ {a}
      BY <1>8, <3>1
    <3>3. f[U] \in Int
      BY <1>5, <3>2
    <3>4. f[S \ {a}] = c[e] + f[U]
      BY <1>9, <2>2, <3>1
    <3>5. f[S \ {e}] = c[a] + f[U]
      <4>1. S \ {e} \in SUBSET S /\ S \ {e} # S /\ a \in S \ {e}
        BY <1>8, <2>2
      <4> QED
        BY <1>5, <3>2, <4>1
    <3>6. c[e] \in Int
      BY <1>4
    <3> QED
      BY <1>8, <1>10, <3>3, <3>4, <3>5, <3>6
  <2> QED
    BY <2>1, <2>2
<1> QED
  BY <1>4, <1>10, <1>11

\* Total is such a sum.
LEMMA TotalSums ==
  ASSUME NEW c, IsFiniteSet(DOMAIN c)
  PROVE \E f : SumsOver(c, DOMAIN c, f) /\ Total(c) = f[DOMAIN c]
<1> DEFINE f == CHOOSE g : SumsOver(c, DOMAIN c, g)
<1>1. SumsOver(c, DOMAIN c, f)
  BY SumsExist
<1>2. Total(c) = f[DOMAIN c]
  BY DEF Total, SumsOver
<1> HIDE DEF f
<1> QED
  BY <1>1, <1>2

LEMMA TotalNone ==
  ASSUME NEW c, DOMAIN c = {}
  PROVE Total(c) = 0
<1>1. IsFiniteSet(DOMAIN c) /\ DOMAIN c \in SUBSET DOMAIN c
  BY FS_EmptySet
<1>2. PICK f : SumsOver(c, DOMAIN c, f) /\ Total(c) = f[DOMAIN c]
  BY <1>1, TotalSums
<1>3. DOMAIN c = {} => f[DOMAIN c] = 0
  BY <1>1, <1>2, SumsAt
<1> QED
  BY <1>2, <1>3

\* One entry more adds its own value.
LEMMA TotalMore ==
  ASSUME NEW d, IsFiniteSet(DOMAIN d), NEW e, e \notin DOMAIN d,
         NEW c, DOMAIN c = DOMAIN d \cup {e},
         \A x \in DOMAIN d : c[x] = d[x] /\ d[x] \in Int, c[e] \in Int
  PROVE Total(d) \in Int /\ Total(c) = c[e] + Total(d)
<1> DEFINE D == DOMAIN d
           E == DOMAIN c
<1>1. IsFiniteSet(E)
  BY FS_AddElement
<1>2. PICK f : SumsOver(c, E, f) /\ Total(c) = f[E]
  BY <1>1, TotalSums
<1>3. PICK g : SumsOver(d, D, g) /\ Total(d) = g[D]
  BY TotalSums
<1>4. /\ D \in SUBSET E /\ E \in SUBSET E /\ D \in SUBSET D
      /\ D = E \ {e} /\ e \in E
  OBVIOUS
<1>5. SumsOver(c, D, g)
  <2> DEFINE OfD(S) == IF S = {} THEN 0 ELSE d[Any(S)] + g[S \ {Any(S)}]
             OfC(S) == IF S = {} THEN 0 ELSE c[Any(S)] + g[S \ {Any(S)}]
  <2>1. g = [S \in SUBSET D |-> OfD(S)]
    BY <1>3 DEF SumsOver, Any
  <2>2. \A S \in SUBSET D : OfD(S) = OfC(S)
    <3> TAKE S \in SUBSET D
    <3>1. S # {} => Any(S) \in S
      BY DEF Any
    <3> QED
      BY <3>1
  <2>3. g = [S \in SUBSET D |-> OfC(S)]
    <3> HIDE DEF OfD, OfC, D
    <3> QED
      BY <2>1, <2>2
  <2> QED
    BY <2>3 DEF SumsOver, Any
<1>6. \A x \in E : c[x] \in Int
  OBVIOUS
<1> HIDE DEF D, E
<1>7. f[D] = g[D]
  BY <1>1, <1>2, <1>4, <1>5, SumsAgree
<1>8. f[E] = c[e] + f[E \ {e}] /\ f[D] \in Int
  <2>1. \A S \in SUBSET E :
          f[S] \in Int /\ \A x \in S : f[S] = c[x] + f[S \ {x}]
    <3>1. SumsOver(c, E, f)
      BY <1>2
    <3>2. IsFiniteSet(E) /\ \A x \in E : c[x] \in Int
      BY <1>1, <1>6
    <3> QED
      BY ONLY <3>1, <3>2, SumsSplit
  <2> QED
    BY <1>4, <2>1
<1> QED
  BY <1>2, <1>3, <1>4, <1>7, <1>8

-----------------------------------------------------------------------------
(* Sums of falling values: as many of the first ranks are worth the most.   *)

\* A bigger set of positive values has a bigger sum.
LEMMA SumsGrow ==
  ASSUME NEW c, NEW E, IsFiniteSet(E), \A e \in E : c[e] \in Nat \ {0},
         NEW f, SumsOver(c, E, f), NEW S \in SUBSET E
  PROVE \A T \in SUBSET E : S \subseteq T =>
          f[S] <= f[T] /\ (f[S] = f[T] => S = T)
<1> DEFINE Bad == {T \in SUBSET E :
                     S \subseteq T /\ ~(f[S] <= f[T] /\ (f[S] = f[T] => S = T))}
<1>1. SUFFICES ASSUME Bad # {} PROVE FALSE
  OBVIOUS
<1>2. Bad \in SUBSET (SUBSET E)
  OBVIOUS
<1>0. \A T \in SUBSET E : f[T] \in Int /\ \A e \in T : f[T] = c[e] + f[T \ {e}]
  <2>1. \A e \in E : c[e] \in Int
    OBVIOUS
  <2>2. IsFiniteSet(E)
    OBVIOUS
  <2>3. SumsOver(c, E, f)
    OBVIOUS
  <2> QED
    BY ONLY <2>1, <2>2, <2>3, SumsSplit
<1> HIDE DEF Bad
<1>3. PICK T \in Bad : \A U \in Bad : U \subseteq T => U = T
  BY <1>1, <1>2, LeastSubset
<1>4. /\ T \in SUBSET E /\ S \subseteq T
      /\ ~(f[S] <= f[T] /\ (f[S] = f[T] => S = T))
  BY <1>3 DEF Bad
<1>5. S # T
  BY <1>0, <1>4
<1>6. PICK e \in T : e \notin S
  BY <1>4, <1>5
<1>7. f[S] <= f[T \ {e}]
  <2>1. T \ {e} \in SUBSET E /\ S \subseteq T \ {e} /\ T \ {e} # T
    BY <1>4, <1>6
  <2>2. T \ {e} \notin Bad
    BY <1>3, <2>1
  <2> QED
    BY <2>1, <2>2 DEF Bad
<1>8. f[T] = c[e] + f[T \ {e}] /\ c[e] \in Nat \ {0}
  BY <1>0, <1>4, <1>6
<1>9. f[S] \in Int /\ f[T] \in Int /\ f[T \ {e}] \in Int
  BY <1>0, <1>4
<1> QED
  BY <1>4, <1>7, <1>8, <1>9

\* A set of ranks that is not empty has a first and a last one.
LEMMA FirstOf ==
  ASSUME NEW n \in Nat, NEW S \in SUBSET (1..n), S # {}
  PROVE \E a \in S : \A i \in S : a <= i
<1> DEFINE E == 1..n
           Below(a) == {i \in S : i <= a}
           T == {Below(a) : a \in S}
<1>1. T \in SUBSET (SUBSET E) /\ T # {}
  <2>1. \A U \in T : U \subseteq 1..n
    OBVIOUS
  <2>2. PICK a : a \in S
    OBVIOUS
  <2> QED
    BY <2>1, <2>2
<1>5. IsFiniteSet(E)
  BY FS_Interval
<1>2. \E B \in T : \A U \in T : U \subseteq B => U = B
  <2> HIDE DEF T, E
  <2> QED
    BY ONLY <1>1, <1>5, LeastSubset
<1>3. PICK a \in S : \A U \in T : U \subseteq Below(a) => U = Below(a)
  BY <1>2
<1>4. ASSUME NEW i \in S, i < a PROVE FALSE
  <2>1. i \in Nat /\ a \in Nat
    OBVIOUS
  <2>2. Below(i) \in T /\ Below(i) \subseteq Below(a)
    <3>1. \A x \in S : x \in Nat
      OBVIOUS
    <3>2. \A x \in S : x <= i => x <= a
      BY <1>4, <2>1, <3>1
    <3> QED
      BY <3>2
  <2>3. a \notin Below(i) /\ a \in Below(a)
    BY <1>4, <2>1
  <2> QED
    BY <1>3, <2>2, <2>3
<1> QED
  BY <1>4

LEMMA LastOf ==
  ASSUME NEW n \in Nat, NEW S \in SUBSET (1..n), S # {}
  PROVE \E a \in S : \A i \in S : i <= a
<1> DEFINE E == 1..n
           Above(a) == {i \in S : a <= i}
           T == {Above(a) : a \in S}
<1>1. T \in SUBSET (SUBSET E) /\ T # {}
  <2>1. \A U \in T : U \subseteq 1..n
    OBVIOUS
  <2>2. PICK a : a \in S
    OBVIOUS
  <2> QED
    BY <2>1, <2>2
<1>5. IsFiniteSet(E)
  BY FS_Interval
<1>2. \E B \in T : \A U \in T : U \subseteq B => U = B
  <2> HIDE DEF T, E
  <2> QED
    BY ONLY <1>1, <1>5, LeastSubset
<1>3. PICK a \in S : \A U \in T : U \subseteq Above(a) => U = Above(a)
  BY <1>2
<1>4. ASSUME NEW i \in S, a < i PROVE FALSE
  <2>1. i \in Nat /\ a \in Nat
    OBVIOUS
  <2>2. Above(i) \in T /\ Above(i) \subseteq Above(a)
    <3>1. \A x \in S : x \in Nat
      OBVIOUS
    <3>2. \A x \in S : i <= x => a <= x
      BY <1>4, <2>1, <3>1
    <3> QED
      BY <3>2
  <2>3. a \notin Above(i) /\ a \in Above(a)
    BY <1>4, <2>1
  <2> QED
    BY <1>3, <2>2, <2>3
<1> QED
  BY <1>4

\* f sums the values of c at 1 to n, which are positive and fall.
FallingSums(c, n, f) ==
  /\ n \in Nat
  /\ \A i \in 1..n : c[i] \in Nat \ {0}
  /\ \A i, j \in 1..n : i < j => c[j] < c[i]
  /\ SumsOver(c, 1..n, f)

\* Of as many falling values, the first sum to the most.
LEMMA FirstSumMost ==
  ASSUME NEW c, NEW n, NEW f, FallingSums(c, n, f)
  PROVE \A S \in SUBSET (1..n) :
          /\ Cardinality(S) \in 0..n
          /\ f[S] <= f[1..Cardinality(S)]
          /\ f[S] = f[1..Cardinality(S)] => S = 1..Cardinality(S)
<1>a. PICK E :
        /\ E = 1..n /\ n \in Nat
        /\ \A i \in E : c[i] \in Nat \ {0}
        /\ \A i, j \in E : i < j => c[j] < c[i]
        /\ SumsOver(c, E, f)
  BY DEF FallingSums
<1> DEFINE Good(S) == f[S] <= f[1..Cardinality(S)] /\
                      (f[S] = f[1..Cardinality(S)] => S = 1..Cardinality(S))
           Bad == {S \in SUBSET E : ~Good(S)}
<1>1. IsFiniteSet(E) /\ Cardinality(E) = n
  BY <1>a, FS_Interval
<1>2. ASSUME NEW S \in SUBSET E
      PROVE  IsFiniteSet(S) /\ Cardinality(S) \in 0..n
  <2>1. IsFiniteSet(S) /\ Cardinality(S) <= n
    BY ONLY <1>1, <1>2, FS_Subset
  <2> QED
    BY <1>a, <2>1, FS_CardinalityType
<1>3. \A T \in SUBSET E : f[T] \in Int /\ \A e \in T : f[T] = c[e] + f[T \ {e}]
  <2>1. \A e \in E : c[e] \in Int
    BY <1>a
  <2>2. SumsOver(c, E, f)
    BY <1>a
  <2>3. IsFiniteSet(E)
    BY <1>1
  <2> QED
    BY ONLY <2>1, <2>2, <2>3, SumsSplit
<1>4. SUFFICES ASSUME Bad # {} PROVE FALSE
  BY <1>a, <1>2
<1>5. Bad \in SUBSET (SUBSET E)
  OBVIOUS
<1>6. PICK S \in Bad : \A U \in Bad : U \subseteq S => U = S
  <2> HIDE DEF Bad
  <2> QED
    BY ONLY <1>1, <1>4, <1>5, LeastSubset
<1>7. S \in SUBSET E /\ ~Good(S)
  BY <1>6
<1>8. S # {}
  <2>1. SUFFICES ASSUME S = {} PROVE FALSE
    OBVIOUS
  <2>2. Cardinality(S) = 0 /\ 1..0 = {}
    BY <2>1, FS_EmptySet
  <2>3. f[S] = f[1..Cardinality(S)] /\ f[S] \in Int /\ S = 1..Cardinality(S)
    BY <1>3, <1>7, <2>1, <2>2
  <2> QED
    BY <1>7, <2>3
<1>9. PICK a \in S : \A i \in S : i <= a
  BY <1>a, <1>7, <1>8, LastOf
<1>10. PICK U : U = S \ {a}
  OBVIOUS
<1>11. PICK m \in Nat : m = Cardinality(U)
  BY <1>2, <1>7, <1>10
<1>12. Cardinality(S) = m + 1 /\ m + 1 \in 1..n
  <2>1. Cardinality(S) \in 0..n /\ IsFiniteSet(S)
    BY <1>2, <1>7
  <2>2. Cardinality(U) = Cardinality(S) - 1
    BY <1>10, <2>1, FS_RemoveElement
  <2> QED
    BY <1>a, <1>11, <2>1, <2>2
<1>13. a \in E /\ m + 1 <= a
  <2>1. a \in E
    BY <1>7
  <2>2. S \in SUBSET (1..a)
    BY <1>a, <1>7, <1>9
  <2>3. IsFiniteSet(1..a) /\ Cardinality(1..a) = a
    BY <1>a, <2>1, FS_Interval
  <2>4. Cardinality(S) <= a
    <3>1. Cardinality(S) <= Cardinality(1..a)
      BY ONLY <2>2, <2>3, FS_Subset
    <3> QED
      BY ONLY <2>3, <3>1
  <2> QED
    BY <1>a, <1>12, <2>1, <2>4
<1>14. c[a] \in Nat /\ c[m + 1] \in Nat /\ c[a] <= c[m + 1] /\ (c[a] = c[m + 1] => a = m + 1)
  BY <1>a, <1>12, <1>13
<1>15. Good(U)
  <2>1. U \in SUBSET E /\ U \subseteq S /\ U # S
    BY <1>7, <1>10
  <2>2. U \notin Bad
    BY <1>6, <2>1
  <2> QED
    BY <2>1, <2>2
<1>16. f[S] = c[a] + f[U] /\ f[U] \in Int
  <2>1. U \in SUBSET E
    BY <1>7, <1>10
  <2> QED
    BY <1>3, <1>7, <1>10, <2>1
<1>17. f[1..m+1] = c[m + 1] + f[1..m] /\ f[1..m] \in Int
  <2>1. 1..m+1 \in SUBSET E /\ m + 1 \in 1..m+1 /\ (1..m+1) \ {m + 1} = 1..m /\ 1..m \in SUBSET E
    BY <1>a, <1>12
  <2>2. f[1..m+1] = c[m + 1] + f[(1..m+1) \ {m + 1}] /\ f[1..m] \in Int
    BY ONLY <1>3, <2>1
  <2> QED
    BY ONLY <2>1, <2>2
<1>18. f[U] <= f[1..m] /\ (f[U] = f[1..m] => U = 1..m)
  BY <1>11, <1>15
<1>19. f[S] <= f[1..m+1]
  BY <1>a, <1>14, <1>16, <1>17, <1>18
<1>20. ASSUME f[S] = f[1..m+1] PROVE S = 1..m+1
  <2>1. f[U] = f[1..m] /\ c[a] = c[m + 1]
    BY <1>14, <1>16, <1>17, <1>18, <1>20
  <2>2. U = 1..m /\ a = m + 1
    BY <1>14, <1>18, <2>1
  <2>3. S = U \cup {a}
    BY <1>10
  <2> QED
    BY <2>2, <2>3
<1> QED
  BY <1>7, <1>12, <1>19, <1>20

\* S has m ranks at most of 1 to n, and P is the first m.
Few(S, n, m, P) ==
  /\ S \in SUBSET (1..n) /\ m \in Nat /\ Cardinality(S) <= m
  /\ P = {i \in 1..n : i <= m}

\* Of so many values at most.
LEMMA FirstFewSumMost ==
  ASSUME NEW c, NEW n, NEW f, FallingSums(c, n, f),
         NEW S, NEW m, NEW P, Few(S, n, m, P)
  PROVE /\ f[S] \in Int /\ f[P] \in Int
        /\ f[S] <= f[P]
        /\ f[S] = f[P] <=> S = P
<1>a. PICK E :
        /\ E = 1..n /\ n \in Nat
        /\ \A i \in E : c[i] \in Nat \ {0}
        /\ SumsOver(c, E, f)
  BY DEF FallingSums
<1>b. /\ S \in SUBSET E /\ m \in Nat /\ Cardinality(S) <= m
      /\ P = {i \in E : i <= m}
  BY <1>a DEF Few
<1>1. IsFiniteSet(E)
  BY <1>a, FS_Interval
<1>2. \A T \in SUBSET E : f[T] \in Int
  <2>1. \A e \in E : c[e] \in Int
    BY <1>a
  <2>2. SumsOver(c, E, f)
    BY <1>a
  <2> QED
    BY ONLY <1>1, <2>1, <2>2, SumsSplit
<1>3. \A T \in SUBSET E :
        /\ Cardinality(T) \in 0..n
        /\ f[T] <= f[1..Cardinality(T)]
        /\ f[T] = f[1..Cardinality(T)] => T = 1..Cardinality(T)
  BY <1>a, FirstSumMost
<1>4. PICK h \in 0..n : h = Cardinality(S) /\ h <= m
  BY <1>a, <1>b, <1>3
<1>5. PICK H \in SUBSET E : H = 1..h
  BY <1>a, <1>4
<1>6. f[S] <= f[H] /\ (f[S] = f[H] => S = H)
  BY <1>a, <1>b, <1>3, <1>4, <1>5
<1>7. H \in SUBSET E /\ P \in SUBSET E /\ H \subseteq P
  BY <1>a, <1>b, <1>4, <1>5
<1>8. f[H] <= f[P] /\ (f[H] = f[P] => H = P)
  <2>1. \A e \in E : c[e] \in Nat \ {0}
    BY <1>a
  <2>2. SumsOver(c, E, f)
    BY <1>a
  <2> QED
    BY ONLY <1>1, <1>7, <2>1, <2>2, SumsGrow
<1>9. f[S] \in Int /\ f[H] \in Int /\ f[P] \in Int
  BY <1>a, <1>b, <1>2, <1>7
<1> QED
  BY ONLY <1>6, <1>8, <1>9

\* f sums the values of c, which are integers, over the subsets of E.
IntSums(c, E, f) ==
  IsFiniteSet(E) /\ (\A e \in E : c[e] \in Int) /\ SumsOver(c, E, f)

LEMMA IntSumsFacts ==
  ASSUME NEW c, NEW E, NEW f, IntSums(c, E, f)
  PROVE /\ f[{}] = 0
        /\ \A T \in SUBSET E : f[T] \in Int /\ \A e \in T : f[T] = c[e] + f[T \ {e}]
<1>1. IsFiniteSet(E)
  BY DEF IntSums
<1>2. \A e \in E : c[e] \in Int
  BY DEF IntSums
<1>3. SumsOver(c, E, f)
  BY DEF IntSums
<1>4. f[{}] = 0
  <2>1. {} \in SUBSET E /\ {} = {}
    OBVIOUS
  <2> QED
    BY ONLY <1>3, <2>1, SumsAt
<1>5. \A T \in SUBSET E : f[T] \in Int /\ \A e \in T : f[T] = c[e] + f[T \ {e}]
  BY ONLY <1>1, <1>2, <1>3, SumsSplit
<1> QED
  BY <1>4, <1>5

\* What one element more adds to the sum over a part.
LEMMA SumsPart ==
  ASSUME NEW c, NEW E, NEW f, IntSums(c, E, f),
         NEW U \in SUBSET E, NEW A, NEW a \in U
  PROVE /\ f[U \cap A] \in Int /\ f[(U \ {a}) \cap A] \in Int
        /\ f[U \cap A] = (IF a \in A THEN c[a] ELSE 0) + f[(U \ {a}) \cap A]
<1>1. \A T \in SUBSET E : f[T] \in Int /\ \A e \in T : f[T] = c[e] + f[T \ {e}]
  BY IntSumsFacts
<1>2. PICK V : V = U \cap A
  OBVIOUS
<1>3. PICK W : W = (U \ {a}) \cap A
  OBVIOUS
<1>4. V \in SUBSET E /\ W \in SUBSET E
  BY <1>2, <1>3
<1>5. f[V] = (IF a \in A THEN c[a] ELSE 0) + f[W]
  <2>1. CASE a \in A
    <3>1. a \in V /\ V \ {a} = W
      BY <1>2, <1>3, <2>1
    <3> QED
      BY <1>1, <1>4, <2>1, <3>1
  <2>2. CASE a \notin A
    <3>1. V = W
      BY <1>2, <1>3, <2>2
    <3> QED
      BY <1>1, <1>4, <2>2, <3>1
  <2> QED
    BY <2>1, <2>2
<1> QED
  BY <1>1, <1>2, <1>3, <1>4, <1>5

\* A sum of values that count once, or three times, or not at all.
LEMMA WeightedTotal ==
  ASSUME NEW c, NEW E, NEW f, IntSums(c, E, f),
         NEW d, DOMAIN d \in SUBSET E,
         NEW A \in SUBSET DOMAIN d, NEW B \in SUBSET DOMAIN d,
         \A x \in DOMAIN d :
           d[x] = (IF x \in A THEN c[x] ELSE 0) + 2 * (IF x \in B THEN c[x] ELSE 0)
  PROVE Total(d) = f[A] + 2 * f[B]
<1>1. PICK D : D = DOMAIN d /\ D \in SUBSET E /\ A \in SUBSET D /\ B \in SUBSET D
  OBVIOUS
<1>2. IsFiniteSet(D)
  BY <1>1, FS_Subset DEF IntSums
<1>3. PICK g : SumsOver(d, D, g) /\ Total(d) = g[D]
  BY <1>1, <1>2, TotalSums
<1>4. \A x \in D : c[x] \in Int /\ d[x] \in Int
  BY <1>1 DEF IntSums
<1>5. IntSums(d, D, g)
  BY <1>2, <1>3, <1>4 DEF IntSums
<1> DEFINE Good(U) == g[U] = f[U \cap A] + 2 * f[U \cap B]
           Bad == {U \in SUBSET D : ~Good(U)}
<1>9. Bad \in SUBSET (SUBSET D)
  OBVIOUS
<1>6. ASSUME Bad # {} PROVE FALSE
  <2>1. PICK U \in Bad : \A V \in Bad : V \subseteq U => V = U
    <3> HIDE DEF Bad
    <3> QED
      BY ONLY <1>2, <1>6, <1>9, LeastSubset
  <2>2. U \in SUBSET D /\ ~Good(U)
    BY <2>1
  <2>3. U # {}
    <3>1. SUFFICES ASSUME U = {} PROVE FALSE
      OBVIOUS
    <3>2. g[{}] = 0
      BY <1>5, IntSumsFacts
    <3>3. f[{}] = 0
      BY IntSumsFacts
    <3>4. U \cap A = {} /\ U \cap B = {}
      BY <3>1
    <3> QED
      BY <2>2, <3>1, <3>2, <3>3, <3>4
  <2>4. PICK a \in U : TRUE
    BY <2>3
  <2>5. Good(U \ {a})
    <3>1. U \ {a} \in SUBSET D /\ U \ {a} \subseteq U /\ U \ {a} # U
      BY <2>2, <2>4
    <3>2. U \ {a} \notin Bad
      BY <2>1, <3>1
    <3> QED
      BY <3>1, <3>2
  <2>6. g[U] = d[a] + g[U \ {a}]
    <3>1. \A T \in SUBSET D : g[T] \in Int /\ \A e \in T : g[T] = d[e] + g[T \ {e}]
      BY <1>5, IntSumsFacts
    <3> QED
      BY <2>2, <2>4, <3>1
  <2>7. U \in SUBSET E /\ a \in D /\ a \in U
    BY <1>1, <2>2, <2>4
  <2>8. /\ f[U \cap A] \in Int /\ f[(U \ {a}) \cap A] \in Int
        /\ f[U \cap A] = (IF a \in A THEN c[a] ELSE 0) + f[(U \ {a}) \cap A]
    BY <2>7, SumsPart
  <2>9. /\ f[U \cap B] \in Int /\ f[(U \ {a}) \cap B] \in Int
        /\ f[U \cap B] = (IF a \in B THEN c[a] ELSE 0) + f[(U \ {a}) \cap B]
    BY <2>7, SumsPart
  <2>10. d[a] = (IF a \in A THEN c[a] ELSE 0) + 2 * (IF a \in B THEN c[a] ELSE 0)
    BY <1>1, <2>7
  <2>11. c[a] \in Int
    BY <1>4, <2>7
  <2>12. Good(U)
    BY <2>5, <2>6, <2>8, <2>9, <2>10, <2>11
  <2> QED
    BY <2>2, <2>12
<1>7. Good(D)
  BY <1>6
<1>8. D \cap A = A /\ D \cap B = B
  BY <1>1
<1> QED
  BY <1>3, <1>7, <1>8

-----------------------------------------------------------------------------
(* What an evaluation makes of a response that has each reference once.     *)

LEMMA DiscountsFall == \E f : FallingSums(Discount, Large, f)
<1>1. Large \in Nat /\ 1..Large \subseteq DOMAIN Discount
  BY EvaluationAssumption
<1>2. \A i \in 1..Large : Discount[i] \in Nat \ {0}
  BY <1>1, EvaluationAssumption
<1>3. \A i, j \in 1..Large : i < j => Discount[j] < Discount[i]
  BY <1>1, EvaluationAssumption
<1>4. \E f : SumsOver(Discount, 1..Large, f)
  <2>1. PICK E : E = 1..Large
    OBVIOUS
  <2>2. IsFiniteSet(E)
    BY <1>1, <2>1, FS_Interval
  <2>3. \E f : SumsOver(Discount, E, f)
    BY ONLY <2>2, SumsExist
  <2> QED
    BY <2>1, <2>3
<1> QED
  BY <1>1, <1>2, <1>3, <1>4 DEF FallingSums

\* A are the ranks up to the last cut-off of a positive grade, B of the best.
ByGrade(grades, A, B) ==
  /\ DOMAIN grades \subseteq Nat \ {0}
  /\ \A i \in DOMAIN grades : grades[i] \in 0..2
  /\ A = {i \in DOMAIN grades : i <= Large /\ grades[i] > 0}
  /\ B = {i \in DOMAIN grades : i <= Large /\ grades[i] = 2}

\* The gains of grades up to the last cut-off, by the ranks that have them.
LEMMA GainsAre ==
  ASSUME NEW f, FallingSums(Discount, Large, f),
         NEW grades, NEW A, NEW B, ByGrade(grades, A, B)
  PROVE /\ Gains(grades, Large) = f[A] + 2 * f[B]
        /\ A \in SUBSET (1..Large) /\ B \in SUBSET (1..Large)
<1> USE DEF ByGrade
<1>1. Large \in Nat
  BY EvaluationAssumption
<1>2. PICK D : D = {i \in DOMAIN grades : i <= Large}
  OBVIOUS
<1>3. PICK d : d = [i \in D |-> (2^grades[i] - 1) * Discount[i]]
  OBVIOUS
<1>4. Gains(grades, Large) = Total(d)
  BY <1>2, <1>3 DEF Gains
<1>5. PICK E : E = 1..Large
  OBVIOUS
<1>6. DOMAIN d \in SUBSET E /\ A \in SUBSET DOMAIN d /\ B \in SUBSET DOMAIN d
  BY <1>1, <1>2, <1>3, <1>5
<1>7. IntSums(Discount, E, f)
  <2>1. IsFiniteSet(E)
    BY <1>1, <1>5, FS_Interval
  <2> QED
    BY <1>5, <2>1 DEF IntSums, FallingSums
<1>8. ASSUME NEW x \in DOMAIN d
      PROVE d[x] = (IF x \in A THEN Discount[x] ELSE 0)
                     + 2 * (IF x \in B THEN Discount[x] ELSE 0)
  <2>1. x \in D /\ Discount[x] \in Int /\ d[x] = (2^grades[x] - 1) * Discount[x]
    BY <1>3, <1>6, <1>7 DEF IntSums
  <2>2. grades[x] \in 0..2
    BY <1>2, <2>1
  <2>3. CASE grades[x] = 0
    <3>1. x \notin A /\ x \notin B
      BY <2>3
    <3>2. 2^0 - 1 = 0
      OBVIOUS
    <3>3. d[x] = 0 * Discount[x]
      BY <2>1, <2>3, <3>2
    <3> QED
      BY <2>1, <3>1, <3>3
  <2>4. CASE grades[x] = 1
    <3>1. x \in A /\ x \notin B
      BY <1>2, <2>1, <2>4
    <3>2. 2^1 - 1 = 1
      OBVIOUS
    <3>3. d[x] = 1 * Discount[x]
      BY <2>1, <2>4, <3>2
    <3> QED
      BY <2>1, <3>1, <3>3
  <2>5. CASE grades[x] = 2
    <3>1. x \in A /\ x \in B
      BY <1>2, <2>1, <2>5
    <3>2. 2^2 - 1 = 3
      OBVIOUS
    <3>3. d[x] = 3 * Discount[x]
      BY <2>1, <2>5, <3>2
    <3> QED
      BY <2>1, <3>1, <3>3
  <2> QED
    BY <2>2, <2>3, <2>4, <2>5
<1>9. Total(d) = f[A] + 2 * f[B]
  BY ONLY <1>6, <1>7, <1>8, WeightedTotal
<1> QED
  BY <1>4, <1>5, <1>6, <1>9

\* References that differ: as many labels of a set are met as there are ranks
\* that meet one, at least.
LEMMA RanksInject ==
  ASSUME NEW n \in Nat, NEW S \in SUBSET (1..n), NEW refs, NEW L \in SUBSET Refs,
         \A i \in S : refs[i] \in L,
         \A i, e \in S : refs[i] = refs[e] => i = e
  PROVE IsFiniteSet(S) /\ Cardinality(S) <= Cardinality(L) /\ Cardinality(L) \in Nat
<1>1. IsFiniteSet(L)
  BY EvaluationAssumption, FS_Subset
<1>2. PICK g : g = [i \in S |-> refs[i]]
  OBVIOUS
<1>3. g \in Injection(S, L)
  BY <1>2 DEF Injection, IsInjective
<1>4. IsFiniteSet(S) /\ Cardinality(S) <= Cardinality(L)
  BY <1>1, <1>3, FS_Injection
<1> QED
  BY <1>1, <1>4, FS_CardinalityType

\* The references of a response that has each once.
Answer(refs, n) ==
  /\ n \in Nat /\ DOMAIN refs = 1..n
  /\ \A i, e \in 1..n : refs[i] = refs[e] => i = e

LEMMA LabelCounts ==
  ASSUME NEW j \in Judgments
  PROVE /\ Cardinality(j.required) \in Nat
        /\ Cardinality(j.required \cup j.acceptable) \in Nat
        /\ Cardinality(j.required) <= Cardinality(j.required \cup j.acceptable)
        /\ j.required # {} => Cardinality(j.required) > 0
        /\ j.required \in SUBSET Refs
        /\ j.required \cup j.acceptable \in SUBSET Refs
<1>1. PICK R, L : R = j.required /\ L = j.required \cup j.acceptable
  OBVIOUS
<1>2. R \in SUBSET L /\ L \in SUBSET Refs /\ R \in SUBSET Refs
  BY <1>1 DEF Judgments
<1>3. IsFiniteSet(L) /\ IsFiniteSet(R)
  BY <1>2, EvaluationAssumption, FS_Subset
<1>4. Cardinality(R) <= Cardinality(L)
  BY ONLY <1>2, <1>3, FS_Subset
<1>5. Cardinality(R) \in Nat /\ Cardinality(L) \in Nat
  BY ONLY <1>3, FS_CardinalityType
<1>6. R # {} => Cardinality(R) > 0
  <2>1. Cardinality(R) = 0 <=> R = {}
    BY ONLY <1>3, FS_EmptySet
  <2> QED
    BY <1>5, <2>1
<1> QED
  BY <1>1, <1>2, <1>4, <1>5, <1>6

\* The relevant hits are at most as many as the labels.
LEMMA FewPositive ==
  ASSUME NEW n, NEW refs, Answer(refs, n), NEW j \in Judgments,
         NEW S \in SUBSET (1..n)
  PROVE /\ (\A i \in S : Grade(j, refs[i]) > 0) =>
             IsFiniteSet(S) /\ Cardinality(S) <= Cardinality(j.required \cup j.acceptable)
        /\ (\A i \in S : Grade(j, refs[i]) = 2) =>
             IsFiniteSet(S) /\ Cardinality(S) <= Cardinality(j.required)
<1>1. n \in Nat /\ \A i, e \in S : refs[i] = refs[e] => i = e
  BY DEF Answer
<1>2. S \in SUBSET (1..n)
  OBVIOUS
<1>3. j.required \in SUBSET Refs /\ j.required \cup j.acceptable \in SUBSET Refs
  BY LabelCounts
<1>4. PICK R, L : R = j.required /\ L = j.required \cup j.acceptable
  OBVIOUS
<1>5. R \in SUBSET Refs /\ L \in SUBSET Refs
  BY <1>3, <1>4
<1>6. ASSUME \A i \in S : Grade(j, refs[i]) > 0
      PROVE  IsFiniteSet(S) /\ Cardinality(S) <= Cardinality(L)
  <2>1. \A i \in S : refs[i] \in L
    BY <1>4, <1>6 DEF Grade
  <2> QED
    BY ONLY <1>1, <1>2, <1>5, <2>1, RanksInject
<1>7. ASSUME \A i \in S : Grade(j, refs[i]) = 2
      PROVE  IsFiniteSet(S) /\ Cardinality(S) <= Cardinality(R)
  <2>1. \A i \in S : refs[i] \in R
    BY <1>4, <1>7 DEF Grade
  <2> QED
    BY ONLY <1>1, <1>2, <1>5, <2>1, RanksInject
<1> QED
  BY <1>4, <1>6, <1>7

LEMMA IdealGrades ==
  ASSUME NEW j \in Judgments, NEW R, R = Cardinality(j.required),
         NEW N, N = Cardinality(j.required \cup j.acceptable)
  PROVE /\ R \in Nat /\ N \in Nat /\ R <= N
        /\ DOMAIN Ideal(j) = 1..N
        /\ \A i \in 1..N : Ideal(j)[i] = IF i <= R THEN 2 ELSE 1
        /\ {i \in 1..N : i <= Large /\ Ideal(j)[i] > 0} = {i \in 1..Large : i <= N}
        /\ {i \in 1..N : i <= Large /\ Ideal(j)[i] = 2} = {i \in 1..Large : i <= R}
<1>1. R \in Nat /\ N \in Nat /\ R <= N
  BY LabelCounts
<1>2. Ideal(j) = [i \in 1..N |-> IF i <= R THEN 2 ELSE 1]
  BY DEF Ideal
<1>3. Large \in Nat
  BY EvaluationAssumption
<1>4. DOMAIN Ideal(j) = 1..N /\ \A i \in 1..N : Ideal(j)[i] = IF i <= R THEN 2 ELSE 1
  BY <1>2
<1>7. PICK h : h = Ideal(j)
  OBVIOUS
<1>8. \A i \in 1..N : h[i] > 0 /\ (h[i] = 2 <=> i <= R)
  <2> SUFFICES ASSUME NEW i \in 1..N PROVE h[i] > 0 /\ (h[i] = 2 <=> i <= R)
    OBVIOUS
  <2>1. h[i] = IF i <= R THEN 2 ELSE 1
    BY <1>4, <1>7
  <2>2. CASE i <= R
    BY <2>1, <2>2
  <2>3. CASE ~(i <= R)
    BY <2>1, <2>3
  <2> QED
    BY <2>2, <2>3
<1>5. {i \in 1..N : i <= Large /\ h[i] > 0} = {i \in 1..Large : i <= N}
  BY ONLY <1>1, <1>3, <1>8
<1>6. {i \in 1..N : i <= Large /\ h[i] = 2} = {i \in 1..Large : i <= R}
  BY ONLY <1>1, <1>3, <1>8
<1> QED
  BY <1>1, <1>4, <1>5, <1>6, <1>7

LEMMA NdcgHolds ==
  ASSUME NEW n, NEW refs, Answer(refs, n), NEW j \in Judgments
  PROVE /\ AtMost(Ndcg(refs, j, Large), <<1, 1>>)
        /\ Ndcg(refs, j, Large)[1] = Ndcg(refs, j, Large)[2] <=>
             \A i \in DOMAIN Ideal(j) :
               i <= Large =>
                 i \in DOMAIN refs /\ Grade(j, refs[i]) = Ideal(j)[i]
<1>0. n \in Nat /\ DOMAIN refs = 1..n
  BY DEF Answer
<1>1. PICK f : FallingSums(Discount, Large, f)
  BY DiscountsFall
<1>2. PICK R, N : /\ R = Cardinality(j.required)
                  /\ N = Cardinality(j.required \cup j.acceptable)
  OBVIOUS
<1>3. PICK g : g = [i \in 1..n |-> Grade(j, refs[i])]
  OBVIOUS
<1>4. PICK h : h = Ideal(j)
  OBVIOUS
<1>5. PICK A : A = {i \in 1..n : i <= Large /\ g[i] > 0}
  OBVIOUS
<1>6. PICK B : B = {i \in 1..n : i <= Large /\ g[i] = 2}
  OBVIOUS
<1>7. PICK P : P = {i \in 1..Large : i <= N}
  OBVIOUS
<1>8. PICK Q : Q = {i \in 1..Large : i <= R}
  OBVIOUS
<1>9. /\ R \in Nat /\ N \in Nat /\ R <= N
      /\ DOMAIN h = 1..N
      /\ \A i \in 1..N : h[i] = IF i <= R THEN 2 ELSE 1
      /\ {i \in 1..N : i <= Large /\ h[i] > 0} = P
      /\ {i \in 1..N : i <= Large /\ h[i] = 2} = Q
  BY <1>2, <1>4, <1>7, <1>8, IdealGrades
<1>10. \A i \in 1..n : g[i] = Grade(j, refs[i]) /\ g[i] \in 0..2
  BY <1>3 DEF Grade
<1>11. Gains(g, Large) = f[A] + 2 * f[B] /\ A \in SUBSET (1..Large) /\ B \in SUBSET (1..Large)
  <2>1. DOMAIN g = 1..n /\ DOMAIN g \subseteq Nat \ {0} /\ \A i \in DOMAIN g : g[i] \in 0..2
    BY <1>0, <1>3, <1>10
  <2>2. A = {i \in DOMAIN g : i <= Large /\ g[i] > 0}
    BY <1>5, <2>1
  <2>3. B = {i \in DOMAIN g : i <= Large /\ g[i] = 2}
    BY <1>6, <2>1
  <2>4. ByGrade(g, A, B)
    BY <2>1, <2>2, <2>3 DEF ByGrade
  <2> QED
    BY <1>1, <2>4, GainsAre
<1>12. Gains(h, Large) = f[P] + 2 * f[Q] /\ P \in SUBSET (1..Large) /\ Q \in SUBSET (1..Large)
  <2>1. DOMAIN h = 1..N /\ DOMAIN h \subseteq Nat \ {0} /\ \A i \in DOMAIN h : h[i] \in 0..2
    BY <1>9
  <2>2. P = {i \in DOMAIN h : i <= Large /\ h[i] > 0}
    BY <1>9, <2>1
  <2>3. Q = {i \in DOMAIN h : i <= Large /\ h[i] = 2}
    BY <1>9, <2>1
  <2>4. ByGrade(h, P, Q)
    BY <2>1, <2>2, <2>3 DEF ByGrade
  <2> QED
    BY <1>1, <2>4, GainsAre
<1>13. Cardinality(A) <= N /\ Cardinality(B) <= R
  <2>1. A \in SUBSET (1..n) /\ \A i \in A : Grade(j, refs[i]) > 0
    BY <1>5, <1>10
  <2>2. B \in SUBSET (1..n) /\ \A i \in B : Grade(j, refs[i]) = 2
    BY <1>6, <1>10
  <2> QED
    BY <1>2, <2>1, <2>2, FewPositive
<1>14. f[A] \in Int /\ f[P] \in Int /\ f[A] <= f[P] /\ (f[A] = f[P] <=> A = P)
  <2>1. Few(A, Large, N, P)
    BY <1>7, <1>9, <1>11, <1>13 DEF Few
  <2> QED
    BY <1>1, <2>1, FirstFewSumMost
<1>15. f[B] \in Int /\ f[Q] \in Int /\ f[B] <= f[Q] /\ (f[B] = f[Q] <=> B = Q)
  <2>1. Few(B, Large, R, Q)
    BY <1>8, <1>9, <1>11, <1>13 DEF Few
  <2> QED
    BY <1>1, <2>1, FirstFewSumMost
<1>16. Ndcg(refs, j, Large) = <<Gains(g, Large), Gains(h, Large)>>
  BY <1>0, <1>3, <1>4 DEF Ndcg
<1>17. AtMost(Ndcg(refs, j, Large), <<1, 1>>)
  <2>1. Gains(g, Large) \in Int /\ Gains(h, Large) \in Int
        /\ Gains(g, Large) <= Gains(h, Large)
    BY ONLY <1>11, <1>12, <1>14, <1>15
  <2>2. AtMost(<<Gains(g, Large), Gains(h, Large)>>, <<1, 1>>)
    BY ONLY <2>1 DEF AtMost
  <2> QED
    BY ONLY <1>16, <2>2
<1>18. Gains(g, Large) = Gains(h, Large) <=> A = P /\ B = Q
  BY ONLY <1>11, <1>12, <1>14, <1>15
<1>19. ASSUME A = P, B = Q, NEW i \in 1..N, i <= Large
       PROVE  i \in 1..n /\ g[i] = h[i]
  <2>1. Large \in Nat
    BY EvaluationAssumption
  <2>2. i \in P /\ i \in A
    BY <1>7, <1>9, <1>19, <2>1
  <2>3. i \in 1..n /\ g[i] > 0 /\ g[i] \in 0..2
    BY <1>5, <1>10, <2>2
  <2>4. g[i] = 2 <=> i <= R
    BY <1>6, <1>8, <1>9, <1>19, <2>1, <2>3
  <2> QED
    BY <1>9, <2>3, <2>4
<1>20. ASSUME \A i \in 1..N : i <= Large => i \in 1..n /\ g[i] = h[i]
       PROVE  A = P /\ B = Q
  <2>1. Large \in Nat
    BY EvaluationAssumption
  <2>2. P \subseteq A
    BY <1>5, <1>9, <1>20
  <2>3. Q \subseteq B
    BY <1>6, <1>9, <1>20
  <2>4. PICK E : /\ E = 1..Large /\ IsFiniteSet(E)
                 /\ SumsOver(Discount, E, f) /\ \A e \in E : Discount[e] \in Nat \ {0}
    BY <1>1, <2>1, FS_Interval DEF FallingSums
  <2>5. A \in SUBSET E /\ B \in SUBSET E /\ P \in SUBSET E /\ Q \in SUBSET E
    BY <1>11, <1>12, <2>4
  <2>6. f[P] <= f[A] /\ f[Q] <= f[B]
    BY ONLY <2>2, <2>3, <2>4, <2>5, SumsGrow
  <2> QED
    BY ONLY <1>14, <1>15, <2>6
<1>21. Gains(g, Large) = Gains(h, Large) <=>
         \A i \in 1..N : i <= Large => i \in 1..n /\ g[i] = h[i]
  BY <1>18, <1>19, <1>20
<1>22. Ndcg(refs, j, Large)[1] = Gains(g, Large) /\ Ndcg(refs, j, Large)[2] = Gains(h, Large)
  BY <1>16
<1> QED
  BY <1>0, <1>4, <1>9, <1>10, <1>17, <1>21, <1>22

\* What is found up to a cut-off, and how many there are.
LEMMA FoundFacts ==
  ASSUME NEW n, NEW refs, Answer(refs, n), NEW j \in Judgments
  PROVE /\ Found(refs, j, Small) \subseteq Found(refs, j, Large)
        /\ Cardinality(Found(refs, j, Small)) \in Nat
        /\ Cardinality(Found(refs, j, Large)) \in Nat
        /\ Cardinality(Found(refs, j, Small)) <= Cardinality(Found(refs, j, Large))
        /\ Cardinality(Found(refs, j, Large)) <= Cardinality(j.required)
<1>1. n \in Nat /\ DOMAIN refs = 1..n
  BY DEF Answer
<1>2. PICK S, T : S = Found(refs, j, Small) /\ T = Found(refs, j, Large)
  OBVIOUS
<1>3. Small \in Nat /\ Large \in Nat /\ Small <= Large
  BY EvaluationAssumption
<1>4. S \subseteq T /\ T \in SUBSET (1..n)
  BY <1>1, <1>2, <1>3 DEF Found
<1>5. \A i \in T : Grade(j, refs[i]) = 2
  BY <1>2 DEF Found, Grade
<1>6. IsFiniteSet(T) /\ Cardinality(T) <= Cardinality(j.required)
  BY <1>4, <1>5, FewPositive
<1>7. IsFiniteSet(S) /\ Cardinality(S) <= Cardinality(T)
  BY ONLY <1>4, <1>6, FS_Subset
<1>8. Cardinality(S) \in Nat /\ Cardinality(T) \in Nat
  BY ONLY <1>6, <1>7, FS_CardinalityType
<1> QED
  BY <1>2, <1>4, <1>6, <1>7, <1>8

\* Recall grows with the cut-off and is at most 1.
LEMMA RecallHolds ==
  ASSUME NEW n, NEW refs, Answer(refs, n), NEW j \in Judgments
  PROVE /\ AtMost(Recall(refs, j, Small), Recall(refs, j, Large))
        /\ AtMost(Recall(refs, j, Large), <<1, 1>>)
<1>1. CASE j.required = {}
  <2>1. Recall(refs, j, Small) = <<1, 1>> /\ Recall(refs, j, Large) = <<1, 1>>
    BY <1>1 DEF Recall
  <2>2. AtMost(<<1, 1>>, <<1, 1>>)
    BY DEF AtMost
  <2> QED
    BY <2>1, <2>2
<1>2. CASE j.required # {}
  <2>1. PICK s, t, r \in Nat : /\ s = Cardinality(Found(refs, j, Small))
                               /\ t = Cardinality(Found(refs, j, Large))
                               /\ r = Cardinality(j.required)
    BY FoundFacts, LabelCounts
  <2>2. s <= t /\ t <= r
    BY <2>1, FoundFacts
  <2>3. Recall(refs, j, Small) = <<s, r>> /\ Recall(refs, j, Large) = <<t, r>>
    BY <1>2, <2>1 DEF Recall
  <2>4. s * r <= t * r
    BY ONLY <2>2, s \in Nat, t \in Nat, r \in Nat
  <2>5. AtMost(<<s, r>>, <<t, r>>) /\ AtMost(<<t, r>>, <<1, 1>>)
    BY <2>2, <2>4 DEF AtMost
  <2> QED
    BY <2>3, <2>5
<1> QED
  BY <1>1, <1>2

\* A hit within the cut-off has a rank within it.
LEMMA FirstRankHolds ==
  ASSUME NEW n, NEW refs, Answer(refs, n), NEW j \in Judgments,
         Found(refs, j, Large) # {}
  PROVE FirstRank(refs, j) \in 1..Large
<1>1. n \in Nat /\ DOMAIN refs = 1..n
  BY DEF Answer
<1>2. PICK k \in Found(refs, j, Large) : TRUE
  OBVIOUS
<1>3. PICK S : S = {i \in DOMAIN refs : Grade(j, refs[i]) > 0}
  OBVIOUS
<1>4. k \in S /\ k <= Large /\ S \in SUBSET (1..n)
  BY <1>1, <1>2, <1>3 DEF Found, Grade
<1>5. \E a \in S : \A e \in S : a <= e
  BY <1>1, <1>4, FirstOf
<1>6. FirstRank(refs, j) = CHOOSE i \in S : \A e \in S : i <= e
  BY <1>3, <1>4 DEF FirstRank
<1>7. FirstRank(refs, j) \in S /\ FirstRank(refs, j) <= k
  BY <1>4, <1>5, <1>6
<1>8. PICK a \in 1..n : a = FirstRank(refs, j) /\ a <= k
  BY <1>4, <1>7
<1>9. k \in Nat /\ Large \in Nat
  BY <1>1, <1>4, EvaluationAssumption
<1>10. a \in 1..Large
  BY ONLY <1>1, <1>4, <1>8, <1>9
<1> QED
  BY <1>8, <1>10

LEMMA MeasuresOfAnswers ==
  ASSUME NEW n, NEW refs, Answer(refs, n)
  PROVE Duplicates(refs) = {} /\ MeasuresHold(refs)
<1>1. Duplicates(refs) = {}
  <2>1. n \in Nat /\ DOMAIN refs = 1..n /\ \A i, e \in 1..n : refs[i] = refs[e] => i = e
    BY DEF Answer
  <2>2. \A i, e \in 1..n : e < i => i # e
    BY <2>1
  <2> QED
    BY <2>1, <2>2 DEF Duplicates
<1>2. ASSUME NEW j \in Judgments
      PROVE  /\ AtMost(Recall(refs, j, Small), Recall(refs, j, Large))
             /\ AtMost(Recall(refs, j, Large), <<1, 1>>)
             /\ AtMost(Ndcg(refs, j, Large), <<1, 1>>)
             /\ Ndcg(refs, j, Large)[1] = Ndcg(refs, j, Large)[2] <=>
                  \A i \in DOMAIN Ideal(j) :
                    i <= Large =>
                      i \in DOMAIN refs /\ Grade(j, refs[i]) = Ideal(j)[i]
             /\ Found(refs, j, Large) # {} => FirstRank(refs, j) \in 1..Large
  BY RecallHolds, NdcgHolds, FirstRankHolds
<1> QED
  BY <1>1, <1>2 DEF MeasuresHold

-----------------------------------------------------------------------------
USE RetrievalAssumption

\* Rankings of hits.
Ranking == UNION {[S -> Nat] : S \in SUBSET Hits}

LEMMA RankingFacts ==
  ASSUME NEW r \in Ranking
  PROVE IsRanking(r)
BY DEF Ranking, IsRanking

LEMMA CountIsNat ==
  ASSUME NEW S \in SUBSET Hits
  PROVE IsFiniteSet(S) /\ Cardinality(S) \in Nat
BY HitsAssumption, FS_Subset, FS_CardinalityType

LEMMA EmptyRanking == Empty \in Ranking /\ DOMAIN Empty = {}
<1>1. Empty \in [{} -> Nat] /\ DOMAIN Empty = {}
  BY DEF Empty
<1> QED
  BY <1>1 DEF Ranking

\* What a query matches is ranked, and is among what it is matched against.
LEMMA MatchesRank ==
  ASSUME NEW S \in SUBSET Hits, NEW r \in Matches(S)
  PROVE r \in Ranking /\ DOMAIN r \subseteq S
<1>1. PICK m \in SUBSET S : r \in Rankings(m)
  BY DEF Matches
<1>2. Cardinality(m) \in Nat /\ r \in [m -> 1..Cardinality(m)]
  BY <1>1, CountIsNat DEF Rankings
<1>3. r \in [m -> Nat]
  BY <1>2
<1> QED
  BY <1>3 DEF Ranking

LEMMA KeepRanks ==
  ASSUME NEW r \in Ranking, NEW kept
  PROVE Keep(r, kept) \in Ranking /\ DOMAIN Keep(r, kept) = DOMAIN r \cap kept
<1>1. DOMAIN r \subseteq Hits
  BY RankingFacts DEF IsRanking
<1>2. \A h \in DOMAIN r \cap kept :
        Cardinality({g \in DOMAIN r \cap kept : r[g] <= r[h]}) \in Nat
  <2> TAKE h \in DOMAIN r \cap kept
  <2>1. {g \in DOMAIN r \cap kept : r[g] <= r[h]} \in SUBSET Hits
    BY <1>1
  <2> QED
    BY <2>1, CountIsNat
<1>3. Keep(r, kept) \in [DOMAIN r \cap kept -> Nat]
  BY <1>2 DEF Keep
<1> QED
  BY <1>1, <1>3 DEF Ranking

LEMMA CutRanks ==
  ASSUME NEW r \in Ranking, NEW n
  PROVE Cut(r, n) \in Ranking /\ DOMAIN Cut(r, n) \subseteq DOMAIN r
BY KeepRanks DEF Cut

-----------------------------------------------------------------------------
(* The invariant.                                                          *)

\* Before it is asked a query holds nothing, and it has no result before it
\* packs: its request decides what it may hold.
Fresh ==
  /\ at = "idle" =>
       /\ semantic = Empty /\ lexical = Empty /\ ranked = Empty
       /\ lists = << >> /\ \A t \in Texts : best[t] = None
  /\ at \notin {"packing", "done"} => result = << >>
  /\ at # "idle" => current \subseteq seen

\* What has been spent while packing.
Spending ==
  at \in {"packing", "done"} =>
    /\ packing.limit > 0
    /\ Len(result) <= packing.limit
    /\ packing.bytes <= ByteCap
    /\ result = << >> => packing.bytes = 0
    /\ packing.tokens > packing.budget => Len(result) <= 1
    /\ \A i \in DOMAIN result :
         result[i].cut => Len(result) = 1 /\ packing.tokens >= packing.budget

Kinds ==
  /\ current \subseteq Local /\ seen \subseteq Local /\ changes \in Nat
  /\ request \in [mode : Modes, explicit : BOOLEAN]
  /\ semantic \in Ranking /\ found \in Ranking /\ lexical \in Ranking
  /\ ranked \in Ranking
  /\ sources \subseteq Snapshots
  /\ lists \in Seq(Ranking)
  /\ cursor \in (Nat \ {0}) \X (Nat \ {0}) /\ admitted \in Nat
  /\ best \in [Texts -> Acc \cup {None}]
  /\ packing \in [limit : Nat, budget : Nat, tokens : Nat, bytes : Nat]
  /\ result \in Seq([hit : Hits, cost : Nat, cut : BOOLEAN])
  /\ truncated \in BOOLEAN

IInv == Kinds /\ Fresh /\ ListsPermitted /\ OnlyPermitted /\ Spending

LEMMA KindsAreTypes == Kinds => TypeOK
<1> SUFFICES ASSUME Kinds PROVE TypeOK
  OBVIOUS
<1>1. /\ IsRanking(semantic) /\ IsRanking(found) /\ IsRanking(lexical)
      /\ IsRanking(ranked)
  BY RankingFacts DEF Kinds
<1>2. \A i \in DOMAIN lists : IsRanking(lists[i])
  BY RankingFacts DEF Kinds
<1> QED
  BY <1>1, <1>2 DEF Kinds, TypeOK

LEMMA InitIInv == Init => IInv
<1> SUFFICES ASSUME Init PROVE IInv
  OBVIOUS
<1>1. Empty \in Ranking /\ DOMAIN Empty = {}
  BY EmptyRanking
<1>2. /\ current \subseteq Local /\ seen = {} /\ changes = 0 /\ at = "idle"
      /\ request = [mode |-> "lexical", explicit |-> FALSE]
      /\ semantic = Empty /\ found = Empty /\ lexical = Empty /\ ranked = Empty
      /\ sources = {} /\ lists = << >> /\ cursor = <<1, 1>> /\ admitted = 0
      /\ best = [t \in Texts |-> None] /\ result = << >> /\ truncated = FALSE
      /\ packing = [limit |-> 0, budget |-> 0, tokens |-> 0, bytes |-> 0]
  BY DEF Init
<1>3. request \in [mode : Modes, explicit : BOOLEAN]
  BY <1>2 DEF Modes
<1>4. packing \in [limit : Nat, budget : Nat, tokens : Nat, bytes : Nat]
  BY <1>2
<1>5. /\ cursor \in (Nat \ {0}) \X (Nat \ {0}) /\ lists \in Seq(Ranking)
      /\ result \in Seq([hit : Hits, cost : Nat, cut : BOOLEAN])
      /\ best \in [Texts -> Acc \cup {None}]
  BY <1>2
<1>6. Kinds
  BY <1>1, <1>2, <1>3, <1>4, <1>5 DEF Kinds
<1>7. Fresh /\ Spending
  BY <1>2 DEF Fresh, Spending
<1>8. ListsPermitted /\ OnlyPermitted
  BY <1>1, <1>2 DEF ListsPermitted, OnlyPermitted
<1> QED
  BY <1>6, <1>7, <1>8 DEF IInv

-----------------------------------------------------------------------------
(* What goes on meanwhile.                                                 *)

\* What is permitted stays so while the request is the same.
LEMMA PermittedStays ==
  ASSUME request' = request, seen \subseteq seen', NEW h, Permitted(h)
  PROVE Permitted(h)'
BY DEF Permitted, Returnable

\* A step that only changes what is current and what has been seen.
LEMMA IndexStep ==
  ASSUME IInv, UNCHANGED <<at, request, channels, fusion, ranked, response>>,
         current' \subseteq Local, seen' \subseteq Local, changes' \in Nat,
         seen \subseteq seen', at # "idle" => current' \subseteq seen'
  PROVE IInv'
<1>1. UNCHANGED <<at, request, semantic, found, lexical, sources, lists, cursor,
                  admitted, best, ranked, packing, result, truncated>>
  BY DEF channels, fusion, response
<1>2. Kinds'
  BY <1>1 DEF IInv, Kinds
<1>3. Fresh' /\ Spending'
  BY <1>1 DEF IInv, Fresh, Spending
<1>4. ListsPermitted' /\ OnlyPermitted'
  BY <1>1, PermittedStays DEF IInv, ListsPermitted, OnlyPermitted
<1> QED
  BY <1>2, <1>3, <1>4 DEF IInv

LEMMA WorldKeeps ==
  ASSUME IInv, NEW s \in Local, Promote(s) \/ Vanish(s)
  PROVE IInv'
<1>1. /\ current \subseteq Local /\ seen \subseteq Local /\ changes \in Nat
      /\ at # "idle" => current \subseteq seen
  BY DEF IInv, Kinds, Fresh
<1>2. CASE Promote(s)
  <2>1. /\ changes' = changes + 1
        /\ current' = {t \in current : File[t] # File[s]} \cup {s}
        /\ seen' = IF at = "idle" THEN seen ELSE seen \cup {s}
        /\ UNCHANGED <<at, request, channels, fusion, ranked, response>>
    BY <1>2 DEF Promote
  <2> QED
    BY <1>1, <2>1, IndexStep
<1>3. CASE Vanish(s)
  <2>1. /\ changes' = changes + 1
        /\ current' = current \ {s} /\ seen' = seen
        /\ UNCHANGED <<at, request, channels, fusion, ranked, response>>
    BY <1>3 DEF Vanish
  <2> QED
    BY <1>1, <2>1, IndexStep
<1> QED
  BY <1>2, <1>3

-----------------------------------------------------------------------------
(* The channels.                                                           *)

LEMMA AskKeeps ==
  ASSUME IInv, Ask
  PROVE IInv'
<1>1. /\ at = "idle" /\ seen' = current
      /\ UNCHANGED <<current, changes, semantic, found, lexical, sources, lists,
                     cursor, admitted, best, ranked, packing, result, truncated>>
      /\ at' \in {"lexical", "semantic"}
  BY DEF Ask, channels, fusion, response
<1>2. request' \in [mode : Modes, explicit : BOOLEAN]
  BY DEF Ask
<1>3. /\ semantic = Empty /\ lexical = Empty /\ ranked = Empty
      /\ lists = << >> /\ (\A t \in Texts : best[t] = None) /\ result = << >>
  BY <1>1 DEF IInv, Fresh
<1>4. Kinds'
  BY <1>1, <1>2 DEF IInv, Kinds
<1>5. Fresh' /\ Spending'
  BY <1>1, <1>3 DEF Fresh, Spending
<1>6. ListsPermitted' /\ OnlyPermitted'
  BY <1>1, <1>3, EmptyRanking DEF ListsPermitted, OnlyPermitted
<1> QED
  BY <1>4, <1>5, <1>6 DEF IInv

\* Steps of a query before it packs: what it comes to hold is permitted.
LEMMA ListStep ==
  ASSUME IInv, UNCHANGED <<index, request, response>>,
         at \notin {"idle", "packing", "done"},
         at' \notin {"idle", "packing", "done"},
         semantic' \in Ranking, found' \in Ranking, lexical' \in Ranking,
         ranked' \in Ranking, sources' \subseteq Snapshots,
         lists' \in Seq(Ranking),
         cursor' \in (Nat \ {0}) \X (Nat \ {0}), admitted' \in Nat,
         best' \in [Texts -> Acc \cup {None}],
         \A h \in DOMAIN semantic' \cup DOMAIN lexical' \cup DOMAIN ranked' :
            Permitted(h),
         \A i \in DOMAIN lists' : \A h \in DOMAIN lists'[i] : Permitted(h),
         \A t \in Texts : best'[t] # None => Permitted(best'[t].hit)
  PROVE IInv'
<1>1. UNCHANGED <<current, changes, seen, request, packing, result, truncated>>
  BY DEF index, response
<1>2. \A h : Permitted(h) => Permitted(h)'
  BY <1>1, PermittedStays
<1>3. Kinds'
  BY <1>1 DEF IInv, Kinds
<1>4. result = << >>
  BY DEF IInv, Fresh
<1>5. Fresh' /\ Spending' /\ OnlyPermitted'
  BY <1>1, <1>4 DEF IInv, Fresh, Spending, OnlyPermitted
<1>6. ListsPermitted'
  BY <1>2 DEF ListsPermitted
<1> QED
  BY <1>3, <1>5, <1>6 DEF IInv

\* What every list step starts from.
LEMMA ListFacts ==
  ASSUME IInv
  PROVE /\ semantic \in Ranking /\ found \in Ranking /\ lexical \in Ranking
        /\ ranked \in Ranking /\ sources \subseteq Snapshots
        /\ lists \in Seq(Ranking)
        /\ cursor \in (Nat \ {0}) \X (Nat \ {0}) /\ admitted \in Nat
        /\ best \in [Texts -> Acc \cup {None}]
        /\ \A h \in DOMAIN semantic \cup DOMAIN lexical \cup DOMAIN ranked :
              Permitted(h)
        /\ \A i \in DOMAIN lists : \A h \in DOMAIN lists[i] : Permitted(h)
        /\ \A t \in Texts : best[t] # None => Permitted(best[t].hit)
        /\ current \subseteq Local
        /\ at # "idle" => current \subseteq seen
BY DEF IInv, Kinds, ListsPermitted, Fresh

\* A step that writes no list.
LEMMA QuietStep ==
  ASSUME IInv, UNCHANGED <<index, request, channels, fusion, ranked, response>>,
         at \notin {"idle", "packing", "done"},
         at' \notin {"idle", "packing", "done"}
  PROVE IInv'
<1>1. UNCHANGED <<semantic, found, lexical, sources, lists, cursor, admitted,
                  best, ranked>>
  BY DEF channels, fusion
<1> QED
  BY <1>1, ListFacts, ListStep

LEMMA SemanticSearchKeeps ==
  ASSUME IInv, SemanticSearch
  PROVE IInv'
<1>1. /\ at = "semantic" /\ at' \in {"pack", "lexical"}
      /\ UNCHANGED <<index, request, found, lexical, sources, lists, fusion,
                     response>>
  BY DEF SemanticSearch
<1> DEFINE all == {h \in {Here(s) : s \in current} : Returnable(h)}
<1>2. PICK r \in Matches(all) :
        /\ semantic' = Cut(r, SemanticCandidates)
        /\ ranked' = IF request.mode = "semantic" THEN semantic' ELSE ranked
  BY DEF SemanticSearch
<1>3. all \in SUBSET Hits /\ \A h \in all : Permitted(h)
  BY <1>1, ListFacts DEF Hits, Here, Permitted, IsLocal
<1>4. semantic' \in Ranking /\ \A h \in DOMAIN semantic' : Permitted(h)
  <2>1. r \in Ranking /\ DOMAIN r \subseteq all
    BY <1>3, MatchesRank
  <2> QED
    BY <1>2, <1>3, <2>1, CutRanks
<1>5. UNCHANGED <<cursor, admitted, best>>
  BY <1>1 DEF fusion
<1>6. ranked' \in Ranking /\ \A h \in DOMAIN ranked' : Permitted(h)
  BY <1>2, <1>4, ListFacts
<1> QED
  BY <1>1, <1>4, <1>5, <1>6, ListFacts, ListStep

LEMMA LexicalSearchKeeps ==
  ASSUME IInv, LexicalSearch
  PROVE IInv'
<1>1. /\ at = "lexical" /\ at' = "federate"
      /\ UNCHANGED <<index, request, semantic, sources, lists, fusion, ranked,
                     response>>
  BY DEF LexicalSearch
<1> DEFINE all == {Here(s) : s \in current}
<1>2. PICK r \in Matches(all) :
        /\ found' = Cut(r, Candidates)
        /\ lexical' = Keep(Keep(found', FirstOfText(found')),
                           {h \in DOMAIN found' : Returnable(h)})
  BY DEF LexicalSearch
<1>3. all \in SUBSET Hits /\ \A h \in all : IsLocal(h) /\ h.seg \in seen
  BY <1>1, ListFacts DEF Hits, Here, IsLocal
<1>4. found' \in Ranking /\ DOMAIN found' \subseteq all
  <2>1. r \in Ranking /\ DOMAIN r \subseteq all
    BY <1>3, MatchesRank
  <2>2. Cut(r, Candidates) \in Ranking /\ DOMAIN Cut(r, Candidates) \subseteq DOMAIN r
    BY <2>1, CutRanks
  <2> QED
    BY <1>2, <2>1, <2>2
<1> DEFINE first == Keep(found', FirstOfText(found'))
<1>5. first \in Ranking /\ DOMAIN first \subseteq all
  <2> DEFINE rows == found'
             kept == FirstOfText(rows)
  <2>1. rows \in Ranking /\ DOMAIN rows \subseteq all
    BY <1>4
  <2> HIDE DEF all, rows, kept
  <2>2. /\ Keep(rows, kept) \in Ranking
        /\ DOMAIN Keep(rows, kept) = DOMAIN rows \cap kept
    BY <2>1, KeepRanks
  <2>3. DOMAIN Keep(rows, kept) \subseteq all
    BY <2>1, <2>2
  <2> QED
    BY <2>2, <2>3 DEF rows, kept
<1>6. /\ lexical' \in Ranking
      /\ DOMAIN lexical' \subseteq {h \in all : Returnable(h)}
  <2>1. lexical' = Keep(first, {h \in DOMAIN found' : Returnable(h)})
    BY <1>2
  <2> HIDE DEF first
  <2>2. DOMAIN lexical' = DOMAIN first \cap {h \in DOMAIN found' : Returnable(h)}
    BY <1>5, <2>1, KeepRanks
  <2> QED
    BY <1>4, <1>5, <2>1, <2>2, KeepRanks
<1>7. \A h \in DOMAIN lexical' : Permitted(h)
  BY <1>3, <1>6 DEF Permitted
<1>8. UNCHANGED <<cursor, admitted, best>>
  BY <1>1 DEF fusion
<1> QED
  BY <1>1, <1>4, <1>6, <1>7, <1>8, ListFacts, ListStep

LEMMA FederateKeeps ==
  ASSUME IInv, Federate
  PROVE IInv'
<1>1. /\ at = "federate" /\ at' = "sources" /\ lists' = <<lexical>>
      /\ sources' \subseteq Snapshots
      /\ UNCHANGED <<index, request, semantic, found, lexical, fusion, ranked,
                     response>>
  BY DEF Federate
<1>2. UNCHANGED <<cursor, admitted, best>>
  BY <1>1 DEF fusion
<1>3. lists' \in Seq(Ranking) /\ DOMAIN lists' = {1} /\ lists'[1] = lexical
  BY <1>1, ListFacts
<1> QED
  BY <1>1, <1>2, <1>3, ListFacts, ListStep

\* A list more, of what is permitted.
LEMMA AppendList ==
  ASSUME IInv, NEW r \in Ranking, \A h \in DOMAIN r : Permitted(h)
  PROVE /\ Append(lists, r) \in Seq(Ranking)
        /\ \A i \in DOMAIN Append(lists, r) :
             \A h \in DOMAIN Append(lists, r)[i] : Permitted(h)
<1>1. lists \in Seq(Ranking)
  BY ListFacts
<1>2. \A i \in DOMAIN Append(lists, r) :
        Append(lists, r)[i] = IF i \in DOMAIN lists THEN lists[i] ELSE r
  BY <1>1
<1> QED
  BY <1>1, <1>2, ListFacts

LEMMA SearchSnapshotKeeps ==
  ASSUME IInv, NEW x \in Snapshots, SearchSnapshot(x)
  PROVE IInv'
<1>1. /\ at = "sources" /\ at' = at /\ sources' = sources \ {x}
      /\ UNCHANGED <<index, request, semantic, found, lexical, fusion, ranked,
                     response>>
  BY DEF SearchSnapshot
<1> DEFINE all == [seg : Imported[x], from : {x}]
<1>2. PICK r \in Matches(all) :
        LET cut == Cut(r, SnapshotCandidates)
            hits == Keep(cut, {h \in DOMAIN cut : Returnable(h)})
        IN lists' = IF hits = Empty THEN lists ELSE Append(lists, hits)
  BY DEF SearchSnapshot
<1> DEFINE cut == Cut(r, SnapshotCandidates)
           hits == Keep(cut, {h \in DOMAIN cut : Returnable(h)})
<1>3. all \in SUBSET Hits /\ \A h \in all : ~IsLocal(h)
  BY DEF Hits, Evidence, IsLocal
<1>4. cut \in Ranking /\ DOMAIN cut \subseteq all
  BY <1>3, MatchesRank, CutRanks
<1>5. hits \in Ranking /\ DOMAIN hits \subseteq {h \in all : Returnable(h)}
  <2> DEFINE kept == {h \in DOMAIN cut : Returnable(h)}
  <2> HIDE DEF cut, kept, all
  <2>1. Keep(cut, kept) \in Ranking /\ DOMAIN Keep(cut, kept) = DOMAIN cut \cap kept
    BY <1>4, KeepRanks
  <2>2. DOMAIN Keep(cut, kept) \subseteq {h \in all : Returnable(h)}
    BY <1>4, <2>1 DEF kept
  <2> QED
    BY <2>1, <2>2 DEF kept
<1>6. \A h \in DOMAIN hits : Permitted(h)
  BY <1>3, <1>5 DEF Permitted
<1>7. /\ lists' \in Seq(Ranking)
      /\ \A i \in DOMAIN lists' : \A h \in DOMAIN lists'[i] : Permitted(h)
  <2>1. lists' = lists \/ lists' = Append(lists, hits)
    BY <1>2
  <2> HIDE DEF hits
  <2> QED
    BY <1>5, <1>6, <2>1, AppendList, ListFacts
<1>8. UNCHANGED <<cursor, admitted, best>>
  BY <1>1 DEF fusion
<1> QED
  BY <1>1, <1>7, <1>8, ListFacts, ListStep

LEMMA SnapshotFailsKeeps ==
  ASSUME IInv, NEW x \in Snapshots, SnapshotFails(x)
  PROVE IInv'
<1>1. /\ at = "sources" /\ at' = at /\ sources' = sources \ {x}
      /\ UNCHANGED <<index, request, semantic, found, lexical, lists, fusion,
                     ranked, response>>
  BY DEF SnapshotFails
<1>2. UNCHANGED <<cursor, admitted, best>>
  BY <1>1 DEF fusion
<1> QED
  BY <1>1, <1>2, ListFacts, ListStep

LEMMA GatherKeeps ==
  ASSUME IInv, Gather
  PROVE IInv'
<1>1. /\ at = "sources" /\ at' \in {"pack", "fuse"}
      /\ UNCHANGED <<index, request, semantic, found, lexical, sources, fusion,
                     response>>
      /\ lists' = IF semantic = Empty THEN lists ELSE Append(lists, semantic)
      /\ ranked' = lexical \/ ranked' = ranked
  BY DEF Gather
<1>2. UNCHANGED <<cursor, admitted, best>>
  BY <1>1 DEF fusion
<1>3. /\ lists' \in Seq(Ranking)
      /\ \A i \in DOMAIN lists' : \A h \in DOMAIN lists'[i] : Permitted(h)
  BY <1>1, AppendList, ListFacts
<1>4. ranked' \in Ranking /\ \A h \in DOMAIN ranked' : Permitted(h)
  BY <1>1, ListFacts
<1> QED
  BY <1>1, <1>2, <1>3, <1>4, ListFacts, ListStep

-----------------------------------------------------------------------------
(* Fusion.                                                                 *)

LEMMA AdmitKeeps ==
  ASSUME IInv, Admit
  PROVE IInv'
<1>1. /\ at = "fuse" /\ at' = at /\ cursor[1] <= Len(lists)
      /\ admitted' = admitted + 1 /\ cursor' = <<cursor[1], cursor[2] + 1>>
      /\ UNCHANGED <<index, request, channels, ranked, response>>
  BY DEF Admit
<1>2. PICK h \in Pointed :
        best' = [best EXCEPT ![TextOf(h)] =
                   Accumulate(@, h, Contribution(cursor[2]))]
  BY DEF Admit
<1>3. cursor[1] \in DOMAIN lists /\ cursor[1] \in Nat /\ cursor[2] \in Nat
  BY <1>1, ListFacts
<1>4. h \in DOMAIN lists[cursor[1]] /\ lists[cursor[1]] \in Ranking
  BY <1>3, ListFacts DEF Pointed
<1>5. h \in Hits /\ Permitted(h)
  BY <1>3, <1>4, ListFacts, RankingFacts DEF IsRanking
<1>6. TextOf(h) \in Texts
  BY <1>5 DEF TextOf, Hits, Evidence
<1>7. Contribution(cursor[2]) \in Int
  <2>1. K + cursor[2] \in Nat \ {0} /\ Scale \in Nat
    BY <1>3
  <2> QED
    BY <2>1 DEF Contribution
<1> DEFINE acc == best[TextOf(h)]
           new == Accumulate(acc, h, Contribution(cursor[2]))
<1>8. acc \in Acc \cup {None}
  BY <1>6, ListFacts
<1>9. /\ new \in Acc \cup {None}
      /\ new # None => new.hit = h \/ (acc # None /\ new.hit = acc.hit)
  <2>1. CASE acc = None \/ (IsLocal(h) /\ ~IsLocal(acc.hit))
    <3>1. new = [hit |-> h, score |-> Contribution(cursor[2])]
      BY <2>1 DEF Accumulate
    <3>2. new \in Acc /\ new.hit = h
      BY <1>5, <1>7, <3>1 DEF Acc
    <3> QED
      BY <3>2
  <2>2. CASE ~(acc = None \/ (IsLocal(h) /\ ~IsLocal(acc.hit)))
    <3>1. acc \in Acc
      BY <1>8, <2>2
    <3>2. new = [acc EXCEPT !.score = @ + Contribution(cursor[2])] \/ new = acc
      BY <2>2 DEF Accumulate
    <3>3. acc.score + Contribution(cursor[2]) \in Int
      BY <1>7, <3>1 DEF Acc
    <3>4. new \in Acc /\ new.hit = acc.hit
      BY <3>1, <3>2, <3>3 DEF Acc
    <3> QED
      BY <2>2, <3>4
  <2> QED
    BY <2>1, <2>2
<1>10. best' = [best EXCEPT ![TextOf(h)] = new]
  BY <1>2
<1>11. /\ best' \in [Texts -> Acc \cup {None}]
       /\ \A t \in Texts : best'[t] = IF t = TextOf(h) THEN new ELSE best[t]
  <2> HIDE DEF new
  <2> QED
    BY <1>6, <1>9, <1>10, ListFacts
<1>12. \A t \in Texts : best'[t] # None => Permitted(best'[t].hit)
  <2>1. acc # None => Permitted(acc.hit)
    BY <1>6, ListFacts
  <2> HIDE DEF new, acc
  <2> QED
    BY <1>5, <1>9, <1>11, <2>1, ListFacts
<1>13. UNCHANGED <<semantic, found, lexical, sources, lists>>
  BY <1>1 DEF channels
<1>14. cursor' \in (Nat \ {0}) \X (Nat \ {0}) /\ admitted' \in Nat
  BY <1>1, ListFacts
<1> QED
  BY <1>1, <1>11, <1>12, <1>13, <1>14, ListFacts, ListStep

LEMMA NextListKeeps ==
  ASSUME IInv, NextList
  PROVE IInv'
<1>1. /\ at = "fuse" /\ at' = at /\ cursor' = <<cursor[1] + 1, 1>>
      /\ UNCHANGED <<index, request, channels, admitted, best, ranked, response>>
  BY DEF NextList
<1>2. UNCHANGED <<semantic, found, lexical, sources, lists>>
  BY <1>1 DEF channels
<1>3. cursor' \in (Nat \ {0}) \X (Nat \ {0})
  BY <1>1, ListFacts
<1> QED
  BY <1>1, <1>2, <1>3, ListFacts, ListStep

LEMMA RankKeeps ==
  ASSUME IInv, Rank
  PROVE IInv'
<1>1. /\ at = "fuse" /\ at' = "pack" /\ ranked' \in Rankings(Fused)
      /\ UNCHANGED <<index, request, channels, fusion, response>>
  BY DEF Rank
<1>2. /\ Fused \in SUBSET Hits
      /\ \A h \in Fused : Permitted(h)
  <2>1. \A t \in Texts : best[t] # None => best[t].hit \in Hits
    BY ListFacts DEF Acc
  <2> QED
    BY <2>1, ListFacts DEF Fused
<1>3. ranked' \in Ranking /\ DOMAIN ranked' \subseteq Fused
  <2>1. ranked' \in Matches(Fused)
    BY <1>1 DEF Matches
  <2> QED
    BY <1>2, <2>1, MatchesRank
<1>4. UNCHANGED <<semantic, found, lexical, sources, lists, cursor, admitted, best>>
  BY <1>1 DEF channels, fusion
<1> QED
  BY <1>1, <1>2, <1>3, <1>4, ListFacts, ListStep

LEMMA FailsKeep ==
  ASSUME IInv, SemanticFails \/ LexicalFails
  PROVE IInv'
<1>1. /\ at \in {"semantic", "lexical"} /\ at' \in {"lexical", "failed"}
      /\ UNCHANGED <<index, request, channels, fusion, ranked, response>>
  BY DEF SemanticFails, LexicalFails
<1> QED
  BY <1>1, QuietStep

-----------------------------------------------------------------------------
(* Packing.                                                                *)

\* Steps of packing read the ranking and write the response.
LEMMA PackStep ==
  ASSUME IInv, UNCHANGED <<index, request, channels, fusion, ranked>>,
         at # "idle", at' \in {"packing", "done"},
         packing' \in [limit : Nat, budget : Nat, tokens : Nat, bytes : Nat],
         result' \in Seq([hit : Hits, cost : Nat, cut : BOOLEAN]),
         truncated' \in BOOLEAN,
         \A i \in DOMAIN result' : Permitted(result'[i].hit),
         Spending'
  PROVE IInv'
<1>1. UNCHANGED <<current, changes, seen, semantic, found, lexical, sources,
                  lists, cursor, admitted, best, request, ranked>>
  BY DEF index, channels, fusion
<1>2. \A h : Permitted(h) => Permitted(h)'
  BY <1>1, PermittedStays
<1>3. Kinds'
  BY <1>1 DEF IInv, Kinds
<1>4. Fresh'
  BY <1>1 DEF IInv, Fresh
<1>5. ListsPermitted'
  BY <1>1, <1>2 DEF IInv, ListsPermitted
<1>6. OnlyPermitted'
  BY <1>2 DEF OnlyPermitted
<1> QED
  BY <1>3, <1>4, <1>5, <1>6 DEF IInv

LEMMA PackFacts ==
  ASSUME IInv
  PROVE /\ packing \in [limit : Nat, budget : Nat, tokens : Nat, bytes : Nat]
        /\ result \in Seq([hit : Hits, cost : Nat, cut : BOOLEAN])
        /\ truncated \in BOOLEAN
        /\ \A i \in DOMAIN result : Permitted(result[i].hit)
        /\ Spending
        /\ \A h \in Following : h \in Hits /\ Permitted(h) /\ TextOf(h) \in Texts
<1>1. ranked \in Ranking /\ \A h \in DOMAIN ranked : Permitted(h)
  BY ListFacts
<1>2. \A h \in Following : h \in Hits /\ Permitted(h)
  BY <1>1, RankingFacts DEF Following, IsRanking
<1>3. \A h \in Hits : TextOf(h) \in Texts
  BY DEF Hits, Evidence, TextOf
<1> QED
  BY <1>2, <1>3 DEF IInv, Kinds, OnlyPermitted

LEMMA StartPackKeeps ==
  ASSUME IInv, StartPack
  PROVE IInv'
<1>1. /\ at = "pack" /\ at' = "packing"
      /\ UNCHANGED <<index, request, channels, fusion, ranked, result, truncated>>
  BY DEF StartPack
<1>2. PICK limit \in Limits, budget \in Budgets, query \in Queries :
        packing' = [limit |-> limit, budget |-> budget,
                    tokens |-> ResponseOverhead + query, bytes |-> 0]
  BY DEF StartPack
<1>3. result = << >>
  BY <1>1 DEF IInv, Fresh
<1>4. /\ packing' \in [limit : Nat, budget : Nat, tokens : Nat, bytes : Nat]
      /\ packing'.limit > 0 /\ packing'.bytes = 0
  BY <1>2
<1>5. Spending'
  BY <1>1, <1>3, <1>4 DEF Spending
<1> QED
  BY <1>1, <1>4, <1>5, PackFacts, PackStep

\* A sequence with one more element.
LEMMA OneMore ==
  ASSUME NEW E, NEW q \in Seq(E), NEW e \in E
  PROVE /\ Append(q, e) \in Seq(E)
        /\ Len(Append(q, e)) = Len(q) + 1 /\ Len(q) \in Nat
        /\ DOMAIN Append(q, e) = 1..(Len(q) + 1) /\ DOMAIN q = 1..Len(q)
        /\ \A i \in DOMAIN Append(q, e) :
             Append(q, e)[i] = IF i \in DOMAIN q THEN q[i] ELSE e
  OBVIOUS

\* A response with one more entry spends what the entry costs.
LEMMA SpentMore ==
  ASSUME NEW p \in [limit : Nat, budget : Nat, tokens : Nat, bytes : Nat],
         NEW c \in Nat, NEW b \in Nat
  PROVE [p EXCEPT !.tokens = @ + c, !.bytes = @ + b]
          \in [limit : Nat, budget : Nat, tokens : Nat, bytes : Nat]
<1> DEFINE R == [limit : Nat, budget : Nat, tokens : Nat, bytes : Nat]
<1>1. \A x \in R, n \in Nat : [x EXCEPT !.tokens = n] \in R
  OBVIOUS
<1>2. \A x \in R, n \in Nat : [x EXCEPT !.bytes = n] \in R
  OBVIOUS
<1>3. p.tokens + c \in Nat /\ p.bytes + b \in Nat
  OBVIOUS
<1> HIDE DEF R
<1> QED
  BY <1>1, <1>2, <1>3 DEF R

\* A hit more at the end of the response.
LEMMA PackHit ==
  ASSUME IInv, NEW h \in Following, NEW cost \in Nat, NEW cut \in BOOLEAN,
         Pack(h, cost, cut), at = "packing", Spending'
  PROVE IInv'
<1>1. /\ result' = Append(result, [hit |-> h, cost |-> cost, cut |-> cut])
      /\ packing' = [packing EXCEPT !.tokens = @ + cost,
                                    !.bytes = @ + Bytes[TextOf(h)]]
      /\ UNCHANGED <<index, at, request, channels, fusion, ranked, truncated>>
  BY DEF Pack
<1>2. h \in Hits /\ Permitted(h) /\ Bytes[TextOf(h)] \in Nat
  BY PackFacts
<1>3. packing' \in [limit : Nat, budget : Nat, tokens : Nat, bytes : Nat]
  <2> DEFINE b == Bytes[TextOf(h)]
  <2>1. b \in Nat /\ packing' = [packing EXCEPT !.tokens = @ + cost, !.bytes = @ + b]
    BY <1>1, <1>2
  <2> HIDE DEF b
  <2> QED
    BY <2>1, PackFacts, SpentMore
<1> DEFINE entry == [hit |-> h, cost |-> cost, cut |-> cut]
<1>4. entry \in [hit : Hits, cost : Nat, cut : BOOLEAN] /\ entry.hit = h
  BY <1>2
<1>5. /\ result' \in Seq([hit : Hits, cost : Nat, cut : BOOLEAN])
      /\ \A i \in DOMAIN result' :
           result'[i] = IF i \in DOMAIN result THEN result[i] ELSE entry
  <2> DEFINE E == [hit : Hits, cost : Nat, cut : BOOLEAN]
  <2>1. result \in Seq(E) /\ entry \in E /\ result' = Append(result, entry)
    BY <1>1, <1>4, PackFacts
  <2>2. SUFFICES result' \in Seq(E) /\ \A i \in DOMAIN result' :
           result'[i] = IF i \in DOMAIN result THEN result[i] ELSE entry
    OBVIOUS
  <2> HIDE DEF entry, E
  <2> QED
    BY <2>1, OneMore
<1>6. \A i \in DOMAIN result' : Permitted(result'[i].hit)
  BY <1>2, <1>4, <1>5, PackFacts
<1> QED
  BY <1>1, <1>3, <1>5, <1>6, PackFacts, PackStep

\* What one more entry does to what has been spent.
LEMMA SpendingMore ==
  ASSUME IInv, NEW h \in Following, NEW cost \in Nat, NEW cut \in BOOLEAN,
         Pack(h, cost, cut), at = "packing", Len(result) < packing.limit,
         packing.bytes + Bytes[TextOf(h)] <= ByteCap,
         \/ ~cut /\ packing.tokens + cost <= packing.budget /\ cost > 0
         \/ cut /\ result = << >> /\ packing.tokens + cost >= packing.budget
  PROVE Spending'
<1>1. /\ result' = Append(result, [hit |-> h, cost |-> cost, cut |-> cut])
      /\ packing' = [packing EXCEPT !.tokens = @ + cost,
                                    !.bytes = @ + Bytes[TextOf(h)]]
  BY DEF Pack
<1>2. Bytes[TextOf(h)] \in Nat
  BY PackFacts
<1>3. /\ packing'.tokens = packing.tokens + cost
      /\ packing'.bytes = packing.bytes + Bytes[TextOf(h)]
      /\ packing'.limit = packing.limit /\ packing'.budget = packing.budget
      /\ packing.tokens \in Nat /\ packing.bytes \in Nat
      /\ packing.limit \in Nat /\ packing.budget \in Nat
  BY <1>1, PackFacts
<1> DEFINE entry == [hit |-> h, cost |-> cost, cut |-> cut]
<1>4. /\ Len(result') = Len(result) + 1 /\ Len(result) \in Nat
      /\ DOMAIN result' = 1..(Len(result) + 1) /\ DOMAIN result = 1..Len(result)
      /\ \A i \in DOMAIN result' :
           result'[i] = IF i \in DOMAIN result THEN result[i] ELSE entry
  <2> DEFINE E == [hit : Hits, cost : Nat, cut : BOOLEAN]
  <2>1. h \in Hits
    BY PackFacts
  <2>2. result \in Seq(E) /\ entry \in E /\ result' = Append(result, entry)
    BY <1>1, <2>1, PackFacts
  <2> HIDE DEF entry, E
  <2> QED
    BY <2>2, OneMore
<1>5. entry.cut = cut
  OBVIOUS
<1>6. result = << >> => Len(result) = 0
  OBVIOUS
<1>7. /\ packing.limit > 0 /\ packing.bytes <= ByteCap
      /\ packing.tokens > packing.budget => Len(result) <= 1
      /\ \A i \in DOMAIN result :
           result[i].cut => Len(result) = 1 /\ packing.tokens >= packing.budget
  BY PackFacts DEF Spending
<1>8. packing'.tokens > packing'.budget => Len(result') <= 1
  BY <1>3, <1>4, <1>6
<1>9. ASSUME NEW i \in DOMAIN result', result'[i].cut
      PROVE Len(result') = 1 /\ packing'.tokens >= packing'.budget
  <2>1. CASE cut
    BY <1>3, <1>4, <1>6, <2>1
  <2>2. CASE ~cut
    <3>1. i \in DOMAIN result /\ result[i].cut
      BY <1>4, <1>5, <1>9, <2>2
    <3>2. packing.tokens >= packing.budget
      BY <1>7, <3>1
    <3> QED
      BY <1>3, <2>2, <3>2
  <2> QED
    BY <2>1, <2>2
<1>10. result' # << >>
  BY <1>4
<1>11. /\ packing'.limit > 0 /\ Len(result') <= packing'.limit
       /\ packing'.bytes <= ByteCap
  BY <1>3, <1>4, <1>7
<1> QED
  BY <1>8, <1>9, <1>10, <1>11 DEF Spending

LEMMA TakeKeeps ==
  ASSUME IInv, Take
  PROVE IInv'
<1>1. at = "packing" /\ Len(result) < packing.limit
  BY DEF Take
<1>2. PICK h \in Following : Fits(h) /\ Pack(h, Cost(h), FALSE)
  BY DEF Take
<1>3. TextOf(h) \in Texts
  BY PackFacts
<1>4. Cost(h) \in Nat /\ Cost(h) > 0
  BY <1>3 DEF Cost
<1>5. /\ packing.tokens + Cost(h) <= packing.budget
      /\ packing.bytes + Bytes[TextOf(h)] <= ByteCap
  BY <1>2 DEF Fits
<1>6. Spending'
  BY <1>1, <1>2, <1>4, <1>5, SpendingMore
<1> QED
  BY <1>1, <1>2, <1>4, <1>6, PackHit

LEMMA ShortenKeeps ==
  ASSUME IInv, Shorten
  PROVE IInv'
<1>1. at = "packing" /\ result = << >>
  BY DEF Shorten
<1>2. PICK h \in Following :
        /\ ~Fits(h)
        /\ Pack(h, ResultOverhead + IF Tokens[TextOf(h)] < Room
                                    THEN Tokens[TextOf(h)] ELSE Room, TRUE)
  BY DEF Shorten
<1>3. /\ TextOf(h) \in Texts /\ Tokens[TextOf(h)] \in Nat
      /\ Bytes[TextOf(h)] \in Nat /\ Bytes[TextOf(h)] <= ByteCap
  BY PackFacts
<1>4. /\ packing.tokens \in Nat /\ packing.budget \in Nat /\ packing.limit \in Nat
      /\ packing.limit > 0 /\ packing.bytes = 0
  BY <1>1, PackFacts DEF Spending
<1>5. packing.bytes + Bytes[TextOf(h)] <= ByteCap
  BY <1>3, <1>4
<1>6. packing.tokens + ResultOverhead + Tokens[TextOf(h)] > packing.budget
  <2>1. ResultOverhead + Tokens[TextOf(h)] \in Nat
    BY <1>3
  <2> QED
    BY <1>2, <1>3, <1>4, <1>5, <2>1 DEF Fits, Cost
<1>7. Room \in Nat /\ packing.tokens + ResultOverhead + Room >= packing.budget
  BY <1>4 DEF Room
<1> DEFINE cost == ResultOverhead + IF Tokens[TextOf(h)] < Room
                                    THEN Tokens[TextOf(h)] ELSE Room
<1>8. cost \in Nat /\ packing.tokens + cost >= packing.budget
  <2> DEFINE more == Tokens[TextOf(h)]
  <2>1. more \in Nat /\ ResultOverhead \in Nat
    BY <1>3, RetrievalAssumption
  <2>2. packing.tokens + ResultOverhead + more > packing.budget
    BY <1>6
  <2>3. cost = ResultOverhead + more \/ cost = ResultOverhead + Room
    OBVIOUS
  <2> HIDE DEF more, cost
  <2> QED
    BY <1>4, <1>7, <2>1, <2>2, <2>3
<1>9. Len(result) < packing.limit
  BY <1>1, <1>4
<1>10. Pack(h, cost, TRUE)
  BY <1>2
<1> HIDE DEF cost
<1>11. Spending'
  BY <1>1, <1>5, <1>8, <1>9, <1>10, SpendingMore
<1> QED
  BY <1>1, <1>8, <1>10, <1>11, PackHit

LEMMA EndsKeep ==
  ASSUME IInv, Stop \/ EndPack
  PROVE IInv'
<1>1. /\ at = "packing" /\ at' = "done" /\ truncated' \in BOOLEAN
      /\ UNCHANGED <<index, request, channels, fusion, ranked, packing, result>>
  <2>1. CASE Stop
    BY <2>1 DEF Stop
  <2>2. CASE EndPack
    <3>1. (Len(result) >= packing.limit) \in BOOLEAN
      OBVIOUS
    <3> QED
      BY <2>2, <3>1, Zenon DEF EndPack
  <2> QED
    BY <2>1, <2>2
<1>2. Spending'
  BY <1>1, PackFacts DEF Spending
<1> QED
  BY <1>1, <1>2, PackFacts, PackStep

-----------------------------------------------------------------------------
LEMMA NextIInv == IInv /\ [Next]_vars => IInv'
<1> SUFFICES ASSUME IInv, [Next]_vars PROVE IInv'
  OBVIOUS
<1>1. CASE UNCHANGED vars
  <2>1. UNCHANGED <<current, changes, seen, at, request, semantic, found, lexical,
                    sources, lists, cursor, admitted, best, ranked, packing,
                    result, truncated>>
    BY <1>1 DEF vars, index, channels, fusion, response
  <2> QED
    BY <2>1 DEF IInv, Kinds, Fresh, ListsPermitted, OnlyPermitted, Spending,
                Permitted, Returnable
<1>2. \A s \in current : s \in Local
  BY DEF IInv, Kinds
<1>3. CASE \/ \E s \in Local : Promote(s)
           \/ \E s \in current : Vanish(s)
  BY <1>2, <1>3, WorldKeeps
<1>4. CASE Channels
  BY <1>4, AskKeeps, SemanticSearchKeeps, LexicalSearchKeeps, FederateKeeps,
     GatherKeeps, SearchSnapshotKeeps, SnapshotFailsKeeps, FailsKeep DEF Channels
<1>5. CASE Fusing
  BY <1>5, AdmitKeeps, NextListKeeps, RankKeeps DEF Fusing
<1>6. CASE Packing
  BY <1>6, StartPackKeeps, TakeKeeps, ShortenKeeps, EndsKeep DEF Packing
<1> QED
  BY <1>1, <1>3, <1>4, <1>5, <1>6 DEF Next

\* What a query holds in every step: its values are of their kinds, all it has
\* ranked it may return, and what it has packed costs what it has spent.
THEOREM RetrievalInvariant == Spec => []IInv
<1> QED
  BY InitIInv, NextIInv, PTL DEF Spec

\* Whatever a query holds on its way, in any channel, it may return.
THEOREM RetrievalSound == Spec => []Sound
<1>1. IInv => Sound
  BY KindsAreTypes DEF IInv, Sound
<1> QED
  BY <1>1, RetrievalInvariant, PTL

\* No path that needs an explicit request is in the response of another, and
\* no local text is that the index did not serve while the query ran.
THEOREM ResponsesPermitted == Spec => []OnlyPermitted
<1>1. IInv => OnlyPermitted
  BY DEF IInv
<1> QED
  BY <1>1, RetrievalInvariant, PTL

\* The budget holds unless one result alone is returned, and a shortened
\* result stands alone.
THEOREM ResponsesWithinBudget == Spec => []WithinBudget
<1>1. IInv => WithinBudget
  <2> SUFFICES ASSUME IInv, at \in {"packing", "done"} PROVE WithinBudget
    BY DEF WithinBudget
  <2>1. packing.tokens \in Nat /\ packing.budget \in Nat /\ Spending
    BY PackFacts
  <2> QED
    BY <2>1 DEF WithinBudget, Spending
<1> QED
  BY <1>1, RetrievalInvariant, PTL

-----------------------------------------------------------------------------
(* What is ranked where: from the channels to the response.                 *)

\* A ranking that gives each rank to one hit, from 1 on.
Dense(r) == r \in Rankings(DOMAIN r)

OneText(S) == \A h, g \in S : TextOf(h) = TextOf(g) => h = g

OneOfFile(S) ==
  \A h, g \in S : IsLocal(h) /\ IsLocal(g) /\ File[h.seg] = File[g.seg] => h = g

\* The local hits among S are of the lexical channel.
FoundHere(S) == \A h \in S : IsLocal(h) => h \in DOMAIN lexical

\* What each channel has found.
Rows ==
  /\ \A s, t \in current : File[s] = File[t] => s = t
  /\ Dense(semantic) /\ Dense(lexical) /\ Dense(ranked)
  /\ OneText(DOMAIN lexical)
  /\ OneOfFile(DOMAIN semantic) /\ OneOfFile(DOMAIN lexical)

\* Which way the query goes, and what it holds so far.
Route ==
  /\ at \in {"idle", "semantic", "lexical", "federate"} =>
       lists = << >> /\ \A t \in Texts : best[t] = None
  /\ request.mode = "semantic" => at \notin {"lexical", "federate", "sources", "fuse"}

\* What the lists, the fusion and the ranking have from the channels.
Descent ==
  /\ \A t \in Texts : best[t] # None => TextOf(best[t].hit) = t
  /\ semantic = Empty =>
       /\ \A i \in DOMAIN lists : FoundHere(DOMAIN lists[i])
       /\ FoundHere(Fused)
  /\ at \in {"pack", "packing", "done"} =>
       /\ request.mode = "semantic" => ranked = semantic
       /\ request.mode # "semantic" =>
            OneText(DOMAIN ranked) /\ (semantic = Empty => FoundHere(DOMAIN ranked))

\* What the response has from the ranking.
Heads ==
  /\ \A i \in DOMAIN result :
       result[i].hit \in DOMAIN ranked /\ ranked[result[i].hit] = i
  /\ at = "done" /\ ~truncated => Len(result) = Cardinality(DOMAIN ranked)

\* The inductive invariant of what is ranked where.
Ordered == Rows /\ Route /\ Descent /\ Heads /\ LostToCopies

-----------------------------------------------------------------------------
(* Rankings.                                                               *)

LEMMA EmptyIsDense == Dense(Empty) /\ DOMAIN Empty = {}
<1>1. DOMAIN Empty = {} /\ Empty \in [{} -> 1..Cardinality({})]
  BY DEF Empty
<1> QED
  BY <1>1 DEF Dense, Rankings

LEMMA MatchesAreDense ==
  ASSUME NEW S \in SUBSET Hits, NEW r \in Matches(S)
  PROVE Dense(r)
<1>1. PICK m \in SUBSET S : r \in Rankings(m)
  BY DEF Matches
<1>2. DOMAIN r = m
  BY <1>1 DEF Rankings
<1> QED
  BY <1>1, <1>2 DEF Dense

\* What stays of a ranking is ranked again from 1, in the same order.
LEMMA KeepIsDense ==
  ASSUME NEW r \in Ranking, Dense(r), NEW kept
  PROVE Dense(Keep(r, kept))
<1> DEFINE D == DOMAIN r \cap kept
           Upto(h) == {g \in D : r[g] <= r[h]}
           q == Keep(r, kept)
<1>1. /\ DOMAIN r \subseteq Hits /\ \A h \in DOMAIN r : r[h] \in Nat
      /\ \A h, g \in DOMAIN r : r[h] = r[g] => h = g
  BY RankingFacts DEF IsRanking, Dense, Rankings
<1>2. IsFiniteSet(D) /\ Cardinality(D) \in Nat
  BY <1>1, CountIsNat
<1>3. q = [h \in D |-> Cardinality(Upto(h))]
  BY DEF Keep
<1>4. ASSUME NEW h \in D
      PROVE IsFiniteSet(Upto(h)) /\ Cardinality(Upto(h)) \in 1..Cardinality(D)
  <2>1. Upto(h) \in SUBSET D /\ h \in Upto(h)
    BY <1>1
  <2>2. IsFiniteSet(Upto(h)) /\ Cardinality(Upto(h)) <= Cardinality(D)
    BY <1>2, <2>1, FS_Subset
  <2>3. Cardinality(Upto(h)) \in Nat /\ Cardinality(Upto(h)) # 0
    BY <2>1, <2>2, FS_CardinalityType, FS_EmptySet
  <2> QED
    BY <1>2, <2>2, <2>3
<1>5. ASSUME NEW h \in D, NEW g \in D, r[h] < r[g]
      PROVE Cardinality(Upto(h)) # Cardinality(Upto(g))
  <2>1. Upto(h) \in SUBSET Upto(g)
    BY <1>1, <1>5
  <2>2. g \in Upto(g) /\ g \notin Upto(h)
    BY <1>1, <1>5
  <2>3. IsFiniteSet(Upto(g))
    BY <1>4
  <2> HIDE DEF Upto
  <2> QED
    BY <2>1, <2>2, <2>3, FS_Subset
<1>6. ASSUME NEW h \in D, NEW g \in D, q[h] = q[g]
      PROVE h = g
  <2>1. Cardinality(Upto(h)) = Cardinality(Upto(g))
    BY <1>3, <1>6
  <2>2. ~(r[h] < r[g]) /\ ~(r[g] < r[h])
    BY <1>5, <2>1
  <2> QED
    BY <1>1, <2>2
<1>7. q \in [D -> 1..Cardinality(D)]
  <2> HIDE DEF D, Upto, q
  <2> QED
    BY <1>3, <1>4
<1> HIDE DEF q, D
<1>8. DOMAIN q = D
  BY <1>7
<1> QED
  BY <1>6, <1>7, <1>8 DEF Dense, Rankings, q

LEMMA CutIsDense ==
  ASSUME NEW r \in Ranking, Dense(r), NEW n
  PROVE Dense(Cut(r, n))
BY KeepIsDense DEF Cut

\* Of the first rows of each text, no two have the same.
LEMMA FirstHaveOneText ==
  ASSUME NEW r \in Ranking, Dense(r)
  PROVE OneText(FirstOfText(r))
<1> SUFFICES ASSUME NEW h \in FirstOfText(r), NEW g \in FirstOfText(r),
                    TextOf(h) = TextOf(g)
             PROVE h = g
  BY DEF OneText
<1>1. \A f \in DOMAIN r : r[f] \in Nat
  BY RankingFacts DEF IsRanking
<1>2. h \in DOMAIN r /\ g \in DOMAIN r /\ ~(r[h] < r[g]) /\ ~(r[g] < r[h])
  BY DEF FirstOfText
<1>3. r[h] = r[g]
  BY <1>1, <1>2
<1> QED
  BY <1>2, <1>3 DEF Dense, Rankings

\* A ranking of n hits has each rank up to n.
LEMMA DenseHasAllRanks ==
  ASSUME NEW r \in Ranking, Dense(r), NEW i \in 1..Cardinality(DOMAIN r)
  PROVE \E h \in DOMAIN r : r[h] = i
<1> DEFINE D == DOMAIN r
           n == Cardinality(D)
<1>1. D \in SUBSET Hits
  BY RankingFacts DEF IsRanking
<1>2. IsFiniteSet(D) /\ n \in Nat
  BY <1>1, CountIsNat
<1>3. IsFiniteSet(1..n) /\ Cardinality(1..n) = n
  BY <1>2, FS_Interval
<1>4. r \in Injection(D, 1..n)
  BY DEF Dense, Rankings, Injection, IsInjective
<1>5. r \in Surjection(D, 1..n)
  <2> HIDE DEF D
  <2> QED
    BY <1>3, <1>4, FS_Injection
<1> QED
  BY <1>5 DEF Surjection

-----------------------------------------------------------------------------
(* What goes on meanwhile, and the channels.                               *)

LEMMA OrderedFacts ==
  ASSUME IInv, Ordered
  PROVE /\ Rows /\ Route /\ Descent /\ Heads /\ LostToCopies
        /\ semantic \in Ranking /\ lexical \in Ranking /\ ranked \in Ranking
        /\ lists \in Seq(Ranking)
        /\ best \in [Texts -> Acc \cup {None}]
        /\ result \in Seq([hit : Hits, cost : Nat, cut : BOOLEAN])
        /\ current \subseteq Local
        /\ at \notin {"packing", "done"} => result = << >>
BY DEF Ordered, IInv, Kinds, Fresh

LEMMA IndexOrdered ==
  ASSUME Ordered, UNCHANGED <<at, request, channels, fusion, ranked, response>>,
         \A s, t \in current' : File[s] = File[t] => s = t
  PROVE Ordered'
<1>1. UNCHANGED <<at, request, semantic, found, lexical, sources, lists, cursor,
                  admitted, best, ranked, packing, result, truncated>>
  BY DEF channels, fusion, response
<1>2. Rows' /\ Route'
  BY <1>1 DEF Ordered, Rows, Route, Dense, OneText, OneOfFile
<1>3. Descent' /\ Heads'
  BY <1>1 DEF Ordered, Descent, Heads, OneText, FoundHere, Fused
<1>4. LostToCopies'
  BY <1>1 DEF Ordered, LostToCopies, Returnable
<1> QED
  BY <1>2, <1>3, <1>4 DEF Ordered

LEMMA WorldOrdered ==
  ASSUME IInv, Ordered, NEW s \in Local, Promote(s) \/ Vanish(s)
  PROVE Ordered'
<1>1. \A t, u \in current : File[t] = File[u] => t = u
  BY DEF Ordered, Rows
<1>2. UNCHANGED <<at, request, channels, fusion, ranked, response>>
  BY DEF Promote, Vanish
<1>3. \/ current' = {t \in current : File[t] # File[s]} \cup {s}
      \/ current' = current \ {s}
  BY DEF Promote, Vanish
<1>4. \A t, u \in current' : File[t] = File[u] => t = u
  BY <1>1, <1>3
<1> QED
  BY <1>2, <1>4, IndexOrdered

\* A step before packing: there is no response yet.
LEMMA EarlyStep ==
  ASSUME IInv, Ordered, at \notin {"packing", "done"},
         UNCHANGED <<current, response>>, at' # "done",
         Rows', Route', Descent', LostToCopies'
  PROVE Ordered'
<1>1. result' = << >>
  BY OrderedFacts DEF response
<1>2. Heads'
  BY <1>1 DEF Heads
<1> QED
  BY <1>2 DEF Ordered

LEMMA AskOrdered ==
  ASSUME IInv, Ordered, Ask
  PROVE Ordered'
<1>1. /\ at = "idle" /\ at' \in {"lexical", "semantic"}
      /\ request'.mode = "semantic" => at' = "semantic"
      /\ UNCHANGED <<current, semantic, found, lexical, sources, lists, cursor,
                     admitted, best, ranked, packing, result, truncated>>
  BY DEF Ask, channels, fusion, response
<1>2. Rows'
  BY <1>1 DEF Ordered, Rows, Dense, OneText, OneOfFile
<1>3. Route' /\ LostToCopies'
  BY <1>1 DEF Ordered, Route, LostToCopies
<1>4. Descent'
  BY <1>1 DEF Ordered, Descent, FoundHere, Fused
<1> QED
  BY <1>1, <1>2, <1>3, <1>4, EarlyStep DEF response

\* Hits of current segments: one of each file.
LEMMA CurrentOneOfFile ==
  ASSUME Rows, NEW S, S \subseteq {Here(s) : s \in current}
  PROVE OneOfFile(S)
<1> SUFFICES ASSUME NEW h \in S, NEW g \in S, File[h.seg] = File[g.seg]
             PROVE h = g
  BY DEF OneOfFile
<1>1. PICK s \in current : h = Here(s)
  OBVIOUS
<1>2. PICK t \in current : g = Here(t)
  OBVIOUS
<1>3. h.seg = s /\ g.seg = t
  BY <1>1, <1>2 DEF Here
<1> QED
  BY <1>1, <1>2, <1>3 DEF Rows

LEMMA SemanticSearchOrdered ==
  ASSUME IInv, Ordered, SemanticSearch
  PROVE Ordered'
<1>1. /\ at = "semantic"
      /\ at' = IF request.mode = "semantic" THEN "pack" ELSE "lexical"
      /\ UNCHANGED <<current, request, found, lexical, lists, best, response>>
  BY DEF SemanticSearch, index, fusion
<1> DEFINE all == {h \in {Here(s) : s \in current} : Returnable(h)}
<1>2. PICK r \in Matches(all) :
        /\ semantic' = Cut(r, SemanticCandidates)
        /\ ranked' = IF request.mode = "semantic" THEN semantic' ELSE ranked
  BY DEF SemanticSearch
<1>3. all \in SUBSET Hits
  BY OrderedFacts DEF Hits, Here
<1>4. Dense(semantic') /\ DOMAIN semantic' \subseteq {Here(s) : s \in current}
  <2>1. r \in Ranking /\ DOMAIN r \subseteq all /\ Dense(r)
    BY <1>3, MatchesRank, MatchesAreDense
  <2> HIDE DEF all
  <2>2. Dense(Cut(r, SemanticCandidates))
        /\ DOMAIN Cut(r, SemanticCandidates) \subseteq all
    BY <2>1, CutRanks, CutIsDense
  <2> QED
    BY <1>2, <2>2 DEF all
<1>5. OneOfFile(DOMAIN semantic')
  BY <1>4, OrderedFacts, CurrentOneOfFile
<1>6. Rows'
  <2>1. Dense(ranked')
    BY <1>2, <1>4, OrderedFacts DEF Rows
  <2> QED
    BY <1>1, <1>4, <1>5, <2>1, OrderedFacts DEF Rows, Dense, OneText, OneOfFile
<1>7. lists = << >> /\ \A t \in Texts : best[t] = None
  BY <1>1, OrderedFacts DEF Route
<1>8. Route' /\ LostToCopies'
  BY <1>1, <1>7 DEF Route, LostToCopies
<1>9. Fused = {} /\ Fused' = {}
  BY <1>1, <1>7 DEF Fused
<1>10. Descent'
  BY <1>1, <1>2, <1>7, <1>9 DEF Descent, FoundHere
<1> QED
  BY <1>1, <1>6, <1>8, <1>10, EarlyStep

LEMMA LexicalSearchOrdered ==
  ASSUME IInv, Ordered, LexicalSearch
  PROVE Ordered'
<1>1. /\ at = "lexical" /\ at' = "federate"
      /\ UNCHANGED <<current, request, semantic, lists, best, ranked, response>>
  BY DEF LexicalSearch, index, fusion
<1> DEFINE all == {Here(s) : s \in current}
<1>2. PICK r \in Matches(all) :
        /\ found' = Cut(r, Candidates)
        /\ lexical' = Keep(Keep(found', FirstOfText(found')),
                           {h \in DOMAIN found' : Returnable(h)})
  BY DEF LexicalSearch
<1>3. all \in SUBSET Hits
  BY OrderedFacts DEF Hits, Here
<1>4. PICK rows : rows = found'
  OBVIOUS
<1>5. rows \in Ranking /\ Dense(rows) /\ DOMAIN rows \subseteq all
  <2>1. r \in Ranking /\ DOMAIN r \subseteq all /\ Dense(r)
    BY <1>3, MatchesRank, MatchesAreDense
  <2> HIDE DEF all
  <2>2. /\ Cut(r, Candidates) \in Ranking /\ Dense(Cut(r, Candidates))
        /\ DOMAIN Cut(r, Candidates) \subseteq all
    BY <2>1, CutRanks, CutIsDense
  <2> QED
    BY <1>2, <1>4, <2>2
<1>6. PICK first : first = Keep(rows, FirstOfText(rows))
  OBVIOUS
<1>7. /\ first \in Ranking /\ Dense(first)
      /\ DOMAIN first = DOMAIN rows \cap FirstOfText(rows)
  BY <1>5, <1>6, KeepRanks, KeepIsDense
<1>8. PICK shown : shown = {h \in DOMAIN rows : Returnable(h)}
  OBVIOUS
<1>9. lexical' = Keep(first, shown)
  BY <1>2, <1>4, <1>6, <1>8
<1>10. /\ Dense(lexical')
       /\ DOMAIN lexical' = (DOMAIN rows \cap FirstOfText(rows)) \cap shown
  BY <1>7, <1>9, KeepRanks, KeepIsDense
<1>11. OneText(DOMAIN lexical')
  BY <1>5, <1>10, FirstHaveOneText DEF OneText
<1>12. OneOfFile(DOMAIN lexical')
  BY <1>5, <1>10, OrderedFacts, CurrentOneOfFile
<1>13. Rows'
  BY <1>1, <1>10, <1>11, <1>12, OrderedFacts DEF Rows, Dense, OneText, OneOfFile
<1>14. LostToCopies'
  <2>1. ASSUME NEW h \in DOMAIN rows
        PROVE \/ h \in DOMAIN lexical'
              \/ ~Returnable(h)
              \/ \E g \in DOMAIN rows : rows[g] < rows[h] /\ TextOf(g) = TextOf(h)
    BY <1>8, <1>10 DEF FirstOfText
  <2> QED
    BY <1>1, <1>4, <2>1 DEF LostToCopies, Returnable
<1>15. lists = << >> /\ \A t \in Texts : best[t] = None
  BY <1>1, OrderedFacts DEF Route
<1>16. Route'
  BY <1>1, <1>15, OrderedFacts DEF Route
<1>17. Fused' = {}
  BY <1>1, <1>15 DEF Fused
<1>18. Descent'
  BY <1>1, <1>15, <1>17 DEF Descent, FoundHere
<1> QED
  BY <1>1, <1>13, <1>14, <1>16, <1>18, EarlyStep

LEMMA FailsOrdered ==
  ASSUME IInv, Ordered, SemanticFails \/ LexicalFails
  PROVE Ordered'
<1>1. /\ at \in {"semantic", "lexical"}
      /\ at' \in {"lexical", "failed"} /\ (at' = "lexical" => request.mode = "auto")
      /\ UNCHANGED <<current, request, semantic, found, lexical, sources, lists,
                     cursor, admitted, best, ranked, packing, result, truncated>>
  BY DEF SemanticFails, LexicalFails, index, channels, fusion, response
<1>2. Rows'
  BY <1>1 DEF Ordered, Rows, Dense, OneText, OneOfFile
<1>3. Route' /\ LostToCopies'
  BY <1>1 DEF Ordered, Route, LostToCopies
<1>4. Descent'
  BY <1>1 DEF Ordered, Descent, FoundHere, Fused
<1> QED
  BY <1>1, <1>2, <1>3, <1>4, EarlyStep DEF response

LEMMA FederateOrdered ==
  ASSUME IInv, Ordered, Federate
  PROVE Ordered'
<1>1. /\ at = "federate" /\ at' = "sources" /\ lists' = <<lexical>>
      /\ UNCHANGED <<current, request, semantic, found, lexical, best, ranked,
                     response>>
  BY DEF Federate, index, fusion
<1>2. Rows'
  BY <1>1 DEF Ordered, Rows, Dense, OneText, OneOfFile
<1>3. Route' /\ LostToCopies'
  BY <1>1 DEF Ordered, Route, LostToCopies
<1>4. \A i \in DOMAIN lists' : lists'[i] = lexical
  BY <1>1
<1>5. Fused' = Fused
  BY <1>1 DEF Fused
<1>6. Descent'
  BY <1>1, <1>4, <1>5 DEF Ordered, Descent, FoundHere
<1> QED
  BY <1>1, <1>2, <1>3, <1>6, EarlyStep

\* A list more, without local hits.
LEMMA SourceOrdered ==
  ASSUME IInv, Ordered, NEW x \in Snapshots, SearchSnapshot(x) \/ SnapshotFails(x)
  PROVE Ordered'
<1>1. /\ at = "sources" /\ at' = at
      /\ UNCHANGED <<current, request, semantic, found, lexical, best, ranked,
                     response>>
  BY DEF SearchSnapshot, SnapshotFails, index, fusion
<1>2. \/ lists' = lists
      \/ \E r \in Ranking : /\ lists' = Append(lists, r)
                            /\ \A h \in DOMAIN r : ~IsLocal(h)
  <2>1. CASE SearchSnapshot(x)
    <3> DEFINE all == [seg : Imported[x], from : {x}]
    <3>1. PICK r \in Matches(all) :
            LET cut == Cut(r, SnapshotCandidates)
                hits == Keep(cut, {h \in DOMAIN cut : Returnable(h)})
            IN lists' = IF hits = Empty THEN lists ELSE Append(lists, hits)
      BY <2>1 DEF SearchSnapshot
    <3>2. all \in SUBSET Hits /\ \A h \in all : ~IsLocal(h)
      BY DEF Hits, Evidence, IsLocal
    <3>3. PICK cut : cut = Cut(r, SnapshotCandidates)
      OBVIOUS
    <3>4. PICK kept : kept = {h \in DOMAIN cut : Returnable(h)}
      OBVIOUS
    <3> HIDE DEF all
    <3>5. cut \in Ranking /\ DOMAIN cut \subseteq all
      BY <3>2, <3>3, MatchesRank, CutRanks
    <3>6. Keep(cut, kept) \in Ranking /\ DOMAIN Keep(cut, kept) \subseteq all
      <4>1. /\ Keep(cut, kept) \in Ranking
            /\ DOMAIN Keep(cut, kept) = DOMAIN cut \cap kept
        BY <3>5, KeepRanks
      <4> QED
        BY <3>5, <4>1
    <3>7. lists' = lists \/ lists' = Append(lists, Keep(cut, kept))
      BY <3>1, <3>3, <3>4
    <3> QED
      BY <3>2, <3>6, <3>7
  <2>2. CASE SnapshotFails(x)
    BY <2>2 DEF SnapshotFails
  <2> QED
    BY <2>1, <2>2
<1>3. \A i \in DOMAIN lists' :
        (i \in DOMAIN lists /\ lists'[i] = lists[i])
        \/ \A h \in DOMAIN lists'[i] : ~IsLocal(h)
  <2>1. CASE lists' = lists
    BY <2>1
  <2>2. ASSUME NEW r \in Ranking, lists' = Append(lists, r),
               \A h \in DOMAIN r : ~IsLocal(h), NEW i \in DOMAIN lists'
        PROVE \/ i \in DOMAIN lists /\ lists'[i] = lists[i]
              \/ \A h \in DOMAIN lists'[i] : ~IsLocal(h)
    <3>1. lists'[i] = IF i \in DOMAIN lists THEN lists[i] ELSE r
      BY <2>2, OrderedFacts, OneMore
    <3> QED
      BY <2>2, <3>1
  <2> QED
    BY <1>2, <2>1, <2>2
<1>4. Rows'
  BY <1>1 DEF Ordered, Rows, Dense, OneText, OneOfFile
<1>5. Route' /\ LostToCopies'
  BY <1>1 DEF Ordered, Route, LostToCopies
<1>6. Fused' = Fused
  BY <1>1 DEF Fused
<1>7. Descent'
  BY <1>1, <1>3, <1>6 DEF Ordered, Descent, FoundHere
<1> QED
  BY <1>1, <1>4, <1>5, <1>7, EarlyStep

LEMMA GatherOrdered ==
  ASSUME IInv, Ordered, Gather
  PROVE Ordered'
<1>1. /\ at = "sources" /\ at' \in {"pack", "fuse"}
      /\ UNCHANGED <<current, request, semantic, found, lexical, best, response>>
      /\ semantic = Empty => lists' = lists
      /\ ranked' = IF at' = "pack" THEN lexical ELSE ranked
  BY DEF Gather, index, fusion
<1>2. Rows'
  BY <1>1 DEF Ordered, Rows, Dense, OneText, OneOfFile
<1>3. Route' /\ LostToCopies'
  BY <1>1 DEF Ordered, Route, LostToCopies
<1>4. Fused' = Fused
  BY <1>1 DEF Fused
<1>5. request.mode # "semantic" /\ OneText(DOMAIN lexical)
  BY <1>1, OrderedFacts DEF Route, Rows
<1>6. Descent'
  BY <1>1, <1>4, <1>5 DEF Ordered, Descent, FoundHere, OneText
<1> QED
  BY <1>1, <1>2, <1>3, <1>6, EarlyStep

-----------------------------------------------------------------------------
(* Fusion.                                                                 *)

\* What a candidate does to what stands for its text.
LEMMA AdmitFacts ==
  ASSUME IInv, Admit
  PROVE \E h : /\ cursor[1] \in DOMAIN lists /\ h \in DOMAIN lists[cursor[1]]
               /\ \A t \in Texts :
                    \/ best'[t] = best[t]
                    \/ t = TextOf(h) /\ best'[t].hit = h
                    \/ best[t] # None /\ best'[t].hit = best[t].hit
<1>1. cursor[1] <= Len(lists)
  BY DEF Admit
<1>2. PICK h \in Pointed :
        best' = [best EXCEPT ![TextOf(h)] =
                   Accumulate(@, h, Contribution(cursor[2]))]
  BY DEF Admit
<1>3. cursor[1] \in DOMAIN lists
  BY <1>1, ListFacts
<1>4. h \in DOMAIN lists[cursor[1]]
  BY DEF Pointed
<1>5. PICK u, c : u = TextOf(h) /\ c = Contribution(cursor[2])
  OBVIOUS
<1>6. /\ best \in [Texts -> Acc \cup {None}]
      /\ best' = [best EXCEPT ![u] = Accumulate(best[u], h, c)]
  BY <1>2, <1>5, ListFacts
<1>7. PICK new : new = Accumulate(best[u], h, c)
  OBVIOUS
<1>8. u \in Texts =>
        \/ new.hit = h
        \/ best[u] # None /\ new.hit = best[u].hit
  <2>1. SUFFICES ASSUME u \in Texts
                 PROVE new.hit = h \/ (best[u] # None /\ new.hit = best[u].hit)
    OBVIOUS
  <2>2. CASE new = [hit |-> h, score |-> c]
    BY <2>2
  <2>3. CASE new # [hit |-> h, score |-> c]
    <3>1. best[u] # None
      BY <1>7, <2>3 DEF Accumulate
    <3>2. best[u] \in Acc
      BY <1>6, <2>1, <3>1
    <3>3. new = [best[u] EXCEPT !.score = @ + c] \/ new = best[u]
      BY <1>7, <2>3 DEF Accumulate
    <3> QED
      BY <3>1, <3>2, <3>3 DEF Acc
  <2> QED
    BY <2>2, <2>3
<1>9. \A t \in Texts : best'[t] = IF t = u THEN new ELSE best[t]
  BY <1>6, <1>7
<1> QED
  BY <1>3, <1>4, <1>5, <1>8, <1>9

LEMMA AdmitOrdered ==
  ASSUME IInv, Ordered, Admit
  PROVE Ordered'
<1>1. /\ at = "fuse" /\ at' = at
      /\ UNCHANGED <<current, request, semantic, found, lexical, lists, ranked,
                     response>>
  BY DEF Admit, index, channels
<1>2. PICK h : /\ cursor[1] \in DOMAIN lists /\ h \in DOMAIN lists[cursor[1]]
               /\ \A t \in Texts :
                    \/ best'[t] = best[t]
                    \/ t = TextOf(h) /\ best'[t].hit = h
                    \/ best[t] # None /\ best'[t].hit = best[t].hit
  BY AdmitFacts
<1>3. Rows'
  BY <1>1 DEF Ordered, Rows, Dense, OneText, OneOfFile
<1>4. Route' /\ LostToCopies'
  BY <1>1 DEF Ordered, Route, LostToCopies
<1>5. Fused' \subseteq Fused \cup {h}
  BY <1>2 DEF Fused
<1>6. semantic = Empty => FoundHere(Fused)
  BY OrderedFacts DEF Descent
<1>7. semantic = Empty => (IsLocal(h) => h \in DOMAIN lexical)
  BY <1>2, OrderedFacts DEF Descent, FoundHere
<1>8. semantic' = Empty => FoundHere(Fused)'
  BY <1>1, <1>5, <1>6, <1>7 DEF FoundHere
<1>9. \A t \in Texts : best'[t] # None => TextOf(best'[t].hit) = t
  BY <1>2, OrderedFacts DEF Descent
<1>10. Descent'
  <2>1. semantic' = Empty => \A i \in DOMAIN lists' : FoundHere(DOMAIN lists[i])'
    BY <1>1, OrderedFacts DEF Descent, FoundHere
  <2> QED
    BY <1>1, <1>8, <1>9, <2>1 DEF Descent, TextOf
<1> QED
  BY <1>1, <1>3, <1>4, <1>10, EarlyStep

LEMMA NextListOrdered ==
  ASSUME IInv, Ordered, NextList
  PROVE Ordered'
<1>1. /\ at = "fuse" /\ at' = at
      /\ UNCHANGED <<current, request, semantic, found, lexical, lists, best,
                     ranked, response>>
  BY DEF NextList, index, channels
<1>2. Rows' /\ Route' /\ LostToCopies'
  BY <1>1 DEF Ordered, Rows, Dense, OneText, OneOfFile, Route, LostToCopies
<1>3. Descent'
  BY <1>1 DEF Ordered, Descent, FoundHere, Fused
<1> QED
  BY <1>1, <1>2, <1>3, EarlyStep

LEMMA RankOrdered ==
  ASSUME IInv, Ordered, Rank
  PROVE Ordered'
<1>1. /\ at = "fuse" /\ at' = "pack" /\ ranked' \in Rankings(Fused)
      /\ UNCHANGED <<current, request, semantic, found, lexical, lists, best,
                     response>>
  BY DEF Rank, index, channels, fusion
<1>2. DOMAIN ranked' = Fused /\ Dense(ranked')
  BY <1>1 DEF Rankings, Dense
<1>3. Rows'
  BY <1>1, <1>2 DEF Ordered, Rows, Dense, OneText, OneOfFile
<1>4. Route' /\ LostToCopies'
  BY <1>1 DEF Ordered, Route, LostToCopies
<1>5. OneText(Fused)
  BY OrderedFacts DEF Descent, Fused, OneText
<1>6. Fused' = Fused
  BY <1>1 DEF Fused
<1>7. request.mode # "semantic"
  BY <1>1, OrderedFacts DEF Route
<1>8. Descent'
  BY <1>1, <1>2, <1>5, <1>6, <1>7, OrderedFacts DEF Descent, FoundHere, OneText, TextOf
<1> QED
  BY <1>1, <1>3, <1>4, <1>8, EarlyStep

-----------------------------------------------------------------------------
(* Packing takes the head of the ranking.                                  *)

LEMMA PackOrdered ==
  ASSUME IInv, Ordered, UNCHANGED <<index, request, channels, fusion, ranked>>,
         at \in {"pack", "packing"}, at' \in {"packing", "done"}, Heads'
  PROVE Ordered'
<1>1. UNCHANGED <<current, request, semantic, found, lexical, lists, best, ranked>>
  BY DEF index, channels, fusion
<1>2. Rows' /\ Route' /\ LostToCopies'
  BY <1>1 DEF Ordered, Rows, Dense, OneText, OneOfFile, Route, LostToCopies
<1>3. Descent'
  BY <1>1 DEF Ordered, Descent, FoundHere, Fused, OneText
<1> QED
  BY <1>2, <1>3 DEF Ordered

LEMMA StartPackOrdered ==
  ASSUME IInv, Ordered, StartPack
  PROVE Ordered'
<1>1. /\ at = "pack" /\ at' = "packing" /\ result' = result
      /\ UNCHANGED <<index, request, channels, fusion, ranked>>
  BY DEF StartPack
<1>2. Heads'
  BY <1>1, OrderedFacts DEF Heads
<1> QED
  BY <1>1, <1>2, PackOrdered

LEMMA HitOrdered ==
  ASSUME IInv, Ordered, NEW h \in Following, NEW cost, NEW cut \in BOOLEAN,
         cost \in Nat, Pack(h, cost, cut), at = "packing"
  PROVE Ordered'
<1>1. /\ result' = Append(result, [hit |-> h, cost |-> cost, cut |-> cut])
      /\ UNCHANGED <<index, at, request, channels, fusion, ranked, truncated>>
  BY DEF Pack
<1>2. h \in Hits /\ h \in DOMAIN ranked /\ ranked[h] = Len(result) + 1
  BY PackFacts DEF Following
<1>3. PICK entry, E : /\ entry = [hit |-> h, cost |-> cost, cut |-> cut]
                      /\ E = [hit : Hits, cost : Nat, cut : BOOLEAN]
  OBVIOUS
<1>4. entry \in E /\ entry.hit = h
  BY <1>2, <1>3
<1>5. result \in Seq(E) /\ result' = Append(result, entry)
  BY <1>1, <1>3, OrderedFacts
<1>6. /\ DOMAIN result' = 1..(Len(result) + 1) /\ DOMAIN result = 1..Len(result)
      /\ Len(result) \in Nat
      /\ \A i \in DOMAIN result' :
           result'[i] = IF i \in DOMAIN result THEN result[i] ELSE entry
  BY <1>4, <1>5, OneMore
<1>7. \A i \in DOMAIN result' :
        result'[i].hit \in DOMAIN ranked /\ ranked[result'[i].hit] = i
  <2> TAKE i \in DOMAIN result'
  <2>1. CASE i \in DOMAIN result
    BY <1>6, <2>1, OrderedFacts DEF Heads
  <2>2. CASE i \notin DOMAIN result
    <3>1. i = Len(result) + 1 /\ result'[i] = entry
      BY <1>6, <2>2
    <3> QED
      BY <1>2, <1>4, <3>1
  <2> QED
    BY <2>1, <2>2
<1>8. Heads'
  BY <1>1, <1>7 DEF Heads
<1> QED
  BY <1>1, <1>8, PackOrdered

LEMMA TakeOrdered ==
  ASSUME IInv, Ordered, Take \/ Shorten
  PROVE Ordered'
<1>1. at = "packing"
  BY DEF Take, Shorten
<1>2. CASE Take
  <2>1. PICK h \in Following : Pack(h, Cost(h), FALSE)
    BY <1>2 DEF Take
  <2>2. Cost(h) \in Nat
    BY PackFacts DEF Cost
  <2> QED
    BY <1>1, <2>1, <2>2, HitOrdered
<1>3. CASE Shorten
  <2>1. PICK h \in Following :
          Pack(h, ResultOverhead + IF Tokens[TextOf(h)] < Room
                                   THEN Tokens[TextOf(h)] ELSE Room, TRUE)
    BY <1>3 DEF Shorten
  <2>2. Tokens[TextOf(h)] \in Nat /\ Room \in Nat
    <3>1. packing.budget \in Nat /\ packing.tokens + ResultOverhead \in Nat
      BY PackFacts
    <3> QED
      BY <3>1, PackFacts DEF Room
  <2>3. (ResultOverhead + IF Tokens[TextOf(h)] < Room
                          THEN Tokens[TextOf(h)] ELSE Room) \in Nat
    BY <2>2
  <2> QED
    BY <1>1, <2>1, <2>3, HitOrdered
<1> QED
  BY <1>2, <1>3

\* A response that is not truncated has met every rank.
LEMMA EndsOrdered ==
  ASSUME IInv, Ordered, Stop \/ EndPack
  PROVE Ordered'
<1>1. /\ at = "packing" /\ at' = "done" /\ result' = result
      /\ UNCHANGED <<index, request, channels, fusion, ranked>>
  BY DEF Stop, EndPack
<1>2. CASE Stop
  <2>1. truncated'
    BY <1>2 DEF Stop
  <2>2. Heads'
    BY <1>1, <2>1, OrderedFacts DEF Heads
  <2> QED
    BY <1>1, <2>2, PackOrdered
<1>3. CASE EndPack
  <2>1. Following = {}
    BY <1>3 DEF EndPack
  <2> DEFINE n == Cardinality(DOMAIN ranked)
  <2>2. /\ ranked \in Ranking /\ Dense(ranked) /\ DOMAIN ranked \in SUBSET Hits
        /\ result \in Seq([hit : Hits, cost : Nat, cut : BOOLEAN])
    BY OrderedFacts, RankingFacts DEF Rows, IsRanking
  <2>3. n \in Nat /\ Len(result) \in Nat /\ DOMAIN result = 1..Len(result)
    BY <2>2, CountIsNat
  <2>4. ~(Len(result) < n)
    <3>1. SUFFICES ASSUME Len(result) < n PROVE FALSE
      OBVIOUS
    <3>2. Len(result) + 1 \in 1..n
      BY <2>3, <3>1
    <3>3. PICK h \in DOMAIN ranked : ranked[h] = Len(result) + 1
      BY <2>2, <3>2, DenseHasAllRanks
    <3> QED
      BY <2>1, <3>3 DEF Following
  <2>5. Len(result) <= n
    <3>1. CASE Len(result) = 0
      BY <2>3, <3>1
    <3>2. CASE Len(result) # 0
      <4>1. Len(result) \in DOMAIN result
        BY <2>3, <3>2
      <4>2. PICK h \in DOMAIN ranked : ranked[h] = Len(result)
        BY <4>1, OrderedFacts DEF Heads
      <4>3. ranked[h] \in 1..n
        BY <2>2 DEF Dense, Rankings
      <4> QED
        BY <2>3, <4>2, <4>3
    <3> QED
      BY <3>1, <3>2
  <2>6. Len(result) = n
    BY <2>3, <2>4, <2>5
  <2>7. Heads'
    BY <1>1, <2>6, OrderedFacts DEF Heads
  <2> QED
    BY <1>1, <2>7, PackOrdered
<1> QED
  BY <1>2, <1>3

-----------------------------------------------------------------------------
LEMMA InitOrdered == Init => Ordered
<1> SUFFICES ASSUME Init PROVE Ordered
  OBVIOUS
<1>1. Dense(Empty) /\ DOMAIN Empty = {}
  BY EmptyIsDense
<1>2. /\ semantic = Empty /\ found = Empty /\ lexical = Empty /\ ranked = Empty
      /\ lists = << >> /\ result = << >> /\ at = "idle"
      /\ request.mode = "lexical" /\ \A t \in Texts : best[t] = None
  BY DEF Init
<1>3. Rows
  BY <1>1, <1>2 DEF Init, Rows, OneText, OneOfFile
<1>4. Route /\ LostToCopies
  BY <1>2 DEF Route, LostToCopies
<1>5. Descent /\ Heads
  BY <1>2 DEF Descent, Heads, FoundHere, Fused
<1> QED
  BY <1>3, <1>4, <1>5 DEF Ordered

LEMMA NextOrdered == IInv /\ Ordered /\ [Next]_vars => Ordered'
<1> SUFFICES ASSUME IInv, Ordered, [Next]_vars PROVE Ordered'
  OBVIOUS
<1>1. CASE UNCHANGED vars
  <2>1. UNCHANGED <<current, at, request, channels, fusion, ranked, response>>
    BY <1>1 DEF vars, index
  <2> QED
    BY <2>1, OrderedFacts, IndexOrdered DEF Rows
<1>2. \A s \in current : s \in Local
  BY OrderedFacts
<1>3. CASE \/ \E s \in Local : Promote(s)
           \/ \E s \in current : Vanish(s)
  BY <1>2, <1>3, WorldOrdered
<1>4. CASE Channels
  BY <1>4, AskOrdered, SemanticSearchOrdered, LexicalSearchOrdered,
     FederateOrdered, GatherOrdered, SourceOrdered, FailsOrdered DEF Channels
<1>5. CASE Fusing
  BY <1>5, AdmitOrdered, NextListOrdered, RankOrdered DEF Fusing
<1>6. CASE Packing
  BY <1>6, StartPackOrdered, TakeOrdered, EndsOrdered DEF Packing
<1> QED
  BY <1>1, <1>3, <1>4, <1>5, <1>6 DEF Next

LEMMA OrderedHolds == Spec => [](IInv /\ Ordered)
<1>1. Init => IInv /\ Ordered
  BY InitIInv, InitOrdered
<1>2. (IInv /\ Ordered) /\ [Next]_vars => (IInv /\ Ordered)'
  BY NextIInv, NextOrdered
<1> QED
  BY <1>1, <1>2, PTL DEF Spec

\* A row the lexical statement has found, and which may be shown, is missing
\* for a copy above it and for no other reason, whatever the ranking is.
THEOREM LostToCopiesOnly == Spec => []LostToCopies
<1>1. Ordered => LostToCopies
  BY DEF Ordered
<1> QED
  BY <1>1, OrderedHolds, PTL

\* The response is the head of the ranking, and all of it unless it says that
\* it is truncated; a text occurs once unless the scan alone has answered.
THEOREM ResponsesAreHeads == Spec => []HeadOfRanking
<1>1. IInv /\ Ordered => HeadOfRanking
  <2> SUFFICES ASSUME IInv, Ordered PROVE HeadOfRanking
    OBVIOUS
  <2>1. Heads
    BY DEF Ordered
  <2>2. ASSUME request.mode # "semantic",
               NEW i \in DOMAIN result, NEW j \in DOMAIN result,
               TextOf(result[i].hit) = TextOf(result[j].hit)
        PROVE i = j
    <3>1. at \in {"packing", "done"}
      BY OrderedFacts
    <3>2. OneText(DOMAIN ranked)
      BY <2>2, <3>1, OrderedFacts DEF Descent
    <3>3. result[i].hit = result[j].hit
      BY <2>1, <2>2, <3>2 DEF Heads, OneText
    <3> QED
      BY <2>1, <3>3 DEF Heads
  <2> QED
    BY <2>1, <2>2 DEF HeadOfRanking, Heads
<1> QED
  BY <1>1, OrderedHolds, PTL

\* A response that one local channel has answered never shows two revisions of
\* a file, whatever the indexer promotes while the query runs.
THEOREM ResponsesOfOneRevision == Spec => []OneRevision
<1>1. IInv /\ Ordered => OneRevision
  <2> SUFFICES ASSUME IInv, Ordered, semantic = Empty \/ request.mode = "semantic",
                      NEW i \in DOMAIN result, NEW j \in DOMAIN result,
                      IsLocal(result[i].hit), IsLocal(result[j].hit),
                      File[result[i].hit.seg] = File[result[j].hit.seg]
               PROVE result[i].hit = result[j].hit
    BY DEF OneRevision
  <2>1. /\ at \in {"packing", "done"}
        /\ result[i].hit \in DOMAIN ranked /\ result[j].hit \in DOMAIN ranked
    BY OrderedFacts DEF Heads
  <2>2. OneOfFile(DOMAIN semantic) /\ OneOfFile(DOMAIN lexical)
    BY OrderedFacts DEF Rows
  <2>3. CASE request.mode = "semantic"
    <3>1. ranked = semantic
      BY <2>1, <2>3, OrderedFacts DEF Descent
    <3> QED
      BY <2>1, <2>2, <3>1 DEF OneOfFile
  <2>4. CASE request.mode # "semantic"
    <3>1. FoundHere(DOMAIN ranked)
      BY <2>1, <2>4, OrderedFacts DEF Descent
    <3> QED
      BY <2>1, <2>2, <3>1 DEF OneOfFile, FoundHere
  <2> QED
    BY <2>3, <2>4
<1> QED
  BY <1>1, OrderedHolds, PTL

-----------------------------------------------------------------------------
(* The fusion adds up what its definition says.                            *)

\* What is fused so far is what the definition says of the entries met so far.
Counted ==
  /\ \A i \in DOMAIN lists : Dense(lists[i])
  /\ at \in {"idle", "semantic", "lexical", "federate", "sources"} =>
       cursor = <<1, 1>> /\ \A t \in Texts : best[t] = None
  /\ FusedByDefinition

\* A score so far, as the definition has it.
Owed(S) == Total(Shares(S))

LEMMA ContributionType ==
  ASSUME NEW n \in Nat
  PROVE Contribution(n) \in Int
<1>1. K + n \in Nat \ {0} /\ Scale \in Nat
  OBVIOUS
<1> QED
  BY <1>1 DEF Contribution

\* What the fusion has met of a text.
LEMMA TakenFacts ==
  ASSUME IInv, NEW t
  PROVE /\ Taken(t) \in SUBSET ((DOMAIN lists) \X Hits)
        /\ IsFiniteSet((DOMAIN lists) \X Hits)
        /\ \A e \in Taken(t) : lists[e[1]][e[2]] \in Nat
<1>1. lists \in Seq(Ranking) /\ DOMAIN lists = 1..Len(lists) /\ Len(lists) \in Nat
  BY ListFacts
<1>2. IsFiniteSet(DOMAIN lists)
  BY <1>1, FS_Interval
<1>3. IsFiniteSet((DOMAIN lists) \X Hits)
  BY <1>2, HitsAssumption, FS_Product
<1>4. \A e \in Taken(t) : lists[e[1]][e[2]] \in Nat
  <2> TAKE e \in Taken(t)
  <2>1. e[1] \in DOMAIN lists /\ e[2] \in DOMAIN lists[e[1]]
    BY DEF Taken
  <2>2. lists[e[1]] \in Ranking
    BY <1>1, <2>1
  <2>3. \A h \in DOMAIN lists[e[1]] : lists[e[1]][h] \in Nat
    BY <2>2, RankingFacts DEF IsRanking
  <2> QED
    BY <2>1, <2>3
<1> QED
  BY <1>3, <1>4 DEF Taken

LEMMA OwedNone == Owed({}) = 0
<1>1. DOMAIN Shares({}) = {}
  BY DEF Shares
<1> QED
  BY <1>1, TotalNone DEF Owed

\* One entry more is owed its own contribution.
LEMMA OwedMore ==
  ASSUME NEW S, IsFiniteSet(S), \A x \in S : lists[x[1]][x[2]] \in Nat,
         NEW e, e \notin S, lists[e[1]][e[2]] \in Nat
  PROVE /\ Owed(S) \in Int
        /\ Owed(S \cup {e}) = Contribution(lists[e[1]][e[2]]) + Owed(S)
<1>1. PICK d : d = Shares(S)
  OBVIOUS
<1>2. PICK c : c = Shares(S \cup {e})
  OBVIOUS
<1>3. DOMAIN d = S /\ DOMAIN c = S \cup {e}
  BY <1>1, <1>2 DEF Shares
<1>4. /\ \A x \in S : c[x] = d[x] /\ d[x] = Contribution(lists[x[1]][x[2]])
      /\ c[e] = Contribution(lists[e[1]][e[2]])
  BY <1>1, <1>2 DEF Shares
<1>5. \A x \in S : c[x] = d[x] /\ d[x] \in Int
  <2> TAKE x \in S
  <2>1. PICK n \in Nat : n = lists[x[1]][x[2]]
    OBVIOUS
  <2>2. Contribution(n) \in Int
    BY ContributionType
  <2> QED
    BY <1>4, <2>1, <2>2
<1>6. c[e] \in Int
  BY <1>4, ContributionType
<1>7. Total(d) \in Int /\ Total(c) = c[e] + Total(d)
  BY <1>3, <1>5, <1>6, TotalMore
<1> QED
  BY <1>1, <1>2, <1>4, <1>7 DEF Owed

\* FusedByDefinition of one text.
Right(t) ==
  LET own == {e \in Taken(t) : IsLocal(e[2])}
  IN IF Taken(t) = {} THEN best[t] = None
     ELSE /\ best[t] # None
          /\ IsLocal(best[t].hit) <=> own # {}
          /\ best[t].score = Owed(IF own # {} THEN own ELSE Taken(t))

LEMMA RightIsDefinition ==
  FusedByDefinition <=>
    (at = "fuse" /\ admitted < FusionCandidates => \A t \in Texts : Right(t))
BY DEF FusedByDefinition, Right, Owed

LEMMA RightIsDefinitionNext ==
  FusedByDefinition' <=>
    (at' = "fuse" /\ admitted' < FusionCandidates => \A t \in Texts : Right(t)')
BY DEF FusedByDefinition, Right, Owed

-----------------------------------------------------------------------------
\* The fusion meets one candidate more.
LEMMA AdmitTakes ==
  ASSUME IInv, Counted, Admit
  PROVE \E h \in Hits :
          LET e == <<cursor[1], h>>
              c == Contribution(cursor[2])
              u == TextOf(h)
          IN /\ u \in Texts /\ e \notin Taken(u)
             /\ lists[cursor[1]][h] = cursor[2] /\ cursor[2] \in Nat
             /\ best' = [best EXCEPT ![u] = Accumulate(best[u], h, c)]
             /\ Taken(u)' = Taken(u) \cup {e}
             /\ \A t \in Texts : t # u => Taken(t)' = Taken(t)
<1>1. /\ cursor[1] <= Len(lists) /\ cursor' = <<cursor[1], cursor[2] + 1>>
      /\ UNCHANGED channels
  BY DEF Admit
<1>2. PICK h \in Pointed :
        best' = [best EXCEPT ![TextOf(h)] =
                   Accumulate(@, h, Contribution(cursor[2]))]
  BY DEF Admit
<1>3. /\ cursor[1] \in DOMAIN lists /\ cursor[1] \in Nat /\ cursor[2] \in Nat
      /\ lists' = lists /\ lists \in Seq(Ranking) /\ DOMAIN lists \subseteq Nat
  BY <1>1, ListFacts DEF channels
<1>4. PICK i, n : i = cursor[1] /\ n = cursor[2]
  OBVIOUS
<1>5. i \in DOMAIN lists /\ n \in Nat /\ cursor'[1] = i /\ cursor'[2] = n + 1
  BY <1>1, <1>3, <1>4
<1>6. h \in DOMAIN lists[i] /\ lists[i][h] = n /\ lists[i] \in Ranking
  BY <1>3, <1>4 DEF Pointed
<1>7. h \in Hits /\ \A g \in DOMAIN lists[i] : lists[i][g] \in Nat
  BY <1>6, RankingFacts DEF IsRanking
<1>8. \A g \in DOMAIN lists[i] : lists[i][g] = n => g = h
  BY <1>5, <1>6 DEF Counted, Dense, Rankings
<1>9. PICK u, e : u = TextOf(h) /\ e = <<i, h>>
  OBVIOUS
<1>10. u \in Texts
  BY <1>7, <1>9 DEF TextOf, Hits, Evidence
<1>11. e \notin Taken(u)
  <2>1. e[1] = i /\ e[2] = h
    BY <1>9
  <2> QED
    BY <1>3, <1>4, <1>6, <2>1 DEF Taken
<1>12. ASSUME NEW t, NEW x \in (DOMAIN lists) \X Hits
       PROVE x \in Taken(t)' <=> x \in Taken(t) \/ (x = e /\ t = u)
  <2>1. PICK j \in DOMAIN lists, g \in Hits : x = <<j, g>>
    OBVIOUS
  <2>2. j \in Nat /\ i \in Nat
    BY <1>3, <1>4
  <2>3. x \in Taken(t) <=>
          /\ g \in DOMAIN lists[j] /\ TextOf(g) = t
          /\ j < i \/ (j = i /\ lists[j][g] < n)
    BY <1>4, <2>1 DEF Taken
  <2>4. x \in Taken(t)' <=>
          /\ g \in DOMAIN lists[j] /\ TextOf(g) = t
          /\ j < i \/ (j = i /\ lists[j][g] < n + 1)
    BY <1>3, <1>5, <2>1 DEF Taken, TextOf
  <2>5. CASE j # i
    BY <1>9, <2>1, <2>3, <2>4, <2>5
  <2>6. CASE j = i /\ g \notin DOMAIN lists[j]
    BY <1>6, <1>9, <2>1, <2>3, <2>4, <2>6
  <2>7. CASE j = i /\ g \in DOMAIN lists[j]
    <3>1. lists[j][g] \in Nat
      BY <1>7, <2>7
    <3>2. lists[j][g] < n + 1 <=> lists[j][g] < n \/ lists[j][g] = n
      BY <1>5, <3>1
    <3>3. lists[j][g] = n <=> g = h
      BY <1>6, <1>8, <2>7
    <3>4. x = e <=> g = h
      BY <1>9, <2>1, <2>7
    <3> QED
      BY <1>9, <2>2, <2>3, <2>4, <2>7, <3>2, <3>3, <3>4
  <2> QED
    BY <2>5, <2>6, <2>7
<1>13. \A t : Taken(t) \subseteq (DOMAIN lists) \X Hits
              /\ Taken(t)' \subseteq (DOMAIN lists) \X Hits
  BY <1>3 DEF Taken
<1>14. e \in (DOMAIN lists) \X Hits
  BY <1>5, <1>7, <1>9
<1>15. /\ Taken(u)' = Taken(u) \cup {e}
       /\ \A t \in Texts : t # u => Taken(t)' = Taken(t)
  <2>1. ASSUME NEW t PROVE Taken(t)' = IF t = u THEN Taken(t) \cup {e} ELSE Taken(t)
    <3>1. PICK S : S = Taken(t)
      OBVIOUS
    <3>2. PICK Q : Q = Taken(t)'
      OBVIOUS
    <3>3. S \subseteq (DOMAIN lists) \X Hits /\ Q \subseteq (DOMAIN lists) \X Hits
      BY <1>13, <3>1, <3>2
    <3>4. \A x \in (DOMAIN lists) \X Hits : x \in Q <=> x \in S \/ (x = e /\ t = u)
      BY <1>12, <3>1, <3>2
    <3> QED
      BY <1>14, <3>1, <3>2, <3>3, <3>4
  <2> QED
    BY <2>1
<1> QED
  BY <1>2, <1>4, <1>5, <1>6, <1>7, <1>9, <1>10, <1>11, <1>15

LEMMA CountedFacts ==
  ASSUME IInv, Ordered, Counted
  PROVE /\ lists \in Seq(Ranking) /\ \A i \in DOMAIN lists : Dense(lists[i])
        /\ lexical \in Ranking /\ Dense(lexical)
        /\ semantic \in Ranking /\ Dense(semantic)
        /\ best \in [Texts -> Acc \cup {None}]
        /\ at \in {"idle", "semantic", "lexical", "federate", "sources"} =>
             cursor = <<1, 1>> /\ \A t \in Texts : best[t] = None
        /\ cursor \in (Nat \ {0}) \X (Nat \ {0}) /\ admitted \in Nat
BY ListFacts, OrderedFacts DEF Counted, Rows

\* What stands for the text of a candidate, by what stood for it before.
LEMMA AccumulateFacts ==
  ASSUME NEW acc \in Acc \cup {None}, NEW h \in Hits, NEW c \in Int,
         NEW new, new = Accumulate(acc, h, c)
  PROVE /\ new \in Acc /\ new # None
        /\ acc = None => new.hit = h /\ new.score = c
        /\ acc # None =>
             IF IsLocal(h) /\ ~IsLocal(acc.hit) THEN new.hit = h /\ new.score = c
             ELSE IF IsLocal(acc.hit) /\ ~IsLocal(h) THEN new = acc
             ELSE new.hit = acc.hit /\ new.score = acc.score + c
<1>1. None \notin Acc
  BY NoneAssumption DEF Acc
<1>2. CASE acc = None \/ (IsLocal(h) /\ ~IsLocal(acc.hit))
  <2>1. new = [hit |-> h, score |-> c]
    BY <1>2 DEF Accumulate
  <2>2. new.hit = h /\ new.score = c /\ new \in Acc
    BY <2>1 DEF Acc
  <2> QED
    BY <1>1, <1>2, <2>2
<1>3. CASE acc # None /\ ~(IsLocal(h) /\ ~IsLocal(acc.hit))
  <2>1. acc \in Acc
    BY <1>3
  <2>2. CASE IsLocal(acc.hit) /\ ~IsLocal(h)
    <3>1. new = acc
      BY <1>3, <2>2 DEF Accumulate
    <3> QED
      BY <1>3, <2>1, <2>2, <3>1
  <2>3. CASE ~(IsLocal(acc.hit) /\ ~IsLocal(h))
    <3>1. new = [acc EXCEPT !.score = @ + c]
      BY <1>3, <2>3 DEF Accumulate
    <3>2. PICK n : n = acc.score + c
      OBVIOUS
    <3>3. acc.score \in Int
      BY <2>1 DEF Acc
    <3>4. n \in Int
      BY <3>2, <3>3
    <3>5. new = [acc EXCEPT !.score = n]
      BY <3>1, <3>2
    <3>6. new \in Acc /\ new.hit = acc.hit /\ new.score = n
      BY <2>1, <3>4, <3>5 DEF Acc
    <3> QED
      BY <1>1, <1>3, <2>3, <3>2, <3>6
  <2> QED
    BY <2>2, <2>3
<1> QED
  BY <1>2, <1>3

LEMMA AdmitCounted ==
  ASSUME IInv, Ordered, Counted, Admit
  PROVE Counted'
<1>1. /\ at = "fuse" /\ at' = at /\ admitted' = admitted + 1 /\ lists' = lists
  BY DEF Admit, channels
<1>2. PICK h \in Hits :
        LET e == <<cursor[1], h>>
            c == Contribution(cursor[2])
            u == TextOf(h)
        IN /\ u \in Texts /\ e \notin Taken(u)
           /\ lists[cursor[1]][h] = cursor[2] /\ cursor[2] \in Nat
           /\ best' = [best EXCEPT ![u] = Accumulate(best[u], h, c)]
           /\ Taken(u)' = Taken(u) \cup {e}
           /\ \A t \in Texts : t # u => Taken(t)' = Taken(t)
  BY AdmitTakes
<1>3. PICK u, e, c : /\ u = TextOf(h) /\ e = <<cursor[1], h>>
                     /\ c = Contribution(cursor[2])
  OBVIOUS
<1>4. PICK acc, new : acc = best[u] /\ new = Accumulate(acc, h, c)
  OBVIOUS
<1>5. /\ u \in Texts /\ e \notin Taken(u) /\ e[2] = h
      /\ c = Contribution(lists[e[1]][e[2]]) /\ c \in Int
      /\ lists[e[1]][e[2]] \in Nat
      /\ Taken(u)' = Taken(u) \cup {e}
      /\ \A t \in Texts : t # u => Taken(t)' = Taken(t)
      /\ best' = [best EXCEPT ![u] = new]
  BY <1>2, <1>3, <1>4, ContributionType
<1>6. \A t \in Texts : best'[t] = IF t = u THEN new ELSE best[t]
  BY <1>5, CountedFacts
<1>7. \A S : Owed(S)' = Owed(S)
  BY <1>1 DEF Owed, Shares
<1>8. SUFFICES ASSUME admitted' < FusionCandidates, NEW t \in Texts
               PROVE Right(t)'
  BY <1>1, RightIsDefinitionNext DEF Counted, Dense
<1>9. Right(t) /\ Right(u)
  BY <1>1, <1>5, <1>8, CountedFacts, RightIsDefinition DEF Counted
<1>10. CASE t # u
  BY <1>5, <1>6, <1>7, <1>9, <1>10 DEF Right
<1>11. CASE t = u
  <2>1. PICK S, own : S = Taken(u) /\ own = {x \in S : IsLocal(x[2])}
    OBVIOUS
  <2>2. PICK Q, mine : Q = S \cup {e} /\ mine = {x \in Q : IsLocal(x[2])}
    OBVIOUS
  <2>3. /\ IsFiniteSet(S) /\ IsFiniteSet(own) /\ own \subseteq S /\ e \notin S
        /\ \A x \in S : lists[x[1]][x[2]] \in Nat
    BY <1>5, <2>1, TakenFacts, FS_Subset
  <2>4. mine = IF IsLocal(h) THEN own \cup {e} ELSE own
    BY <1>5, <2>1, <2>2
  <2>5. /\ Owed(S) \in Int /\ Owed(Q) = c + Owed(S)
        /\ Owed(own) \in Int /\ Owed(own \cup {e}) = c + Owed(own)
        /\ Owed({}) = 0
    <3>1. Owed(S) \in Int /\ Owed(S \cup {e}) = c + Owed(S)
      BY <1>5, <2>3, OwedMore
    <3>2. Owed(own) \in Int /\ Owed(own \cup {e}) = c + Owed(own)
      <4>1. e \notin own /\ \A x \in own : lists[x[1]][x[2]] \in Nat
        BY <2>3
      <4> QED
        BY <1>5, <2>3, <4>1, OwedMore
    <3> QED
      BY <2>2, <3>1, <3>2, OwedNone
  <2>6. IF S = {} THEN acc = None
        ELSE /\ acc # None
             /\ IsLocal(acc.hit) <=> own # {}
             /\ acc.score = Owed(IF own # {} THEN own ELSE S)
    BY <1>4, <1>9, <2>1 DEF Right
  <2>7. acc \in Acc \cup {None}
    BY <1>4, <1>5, CountedFacts
  <2>8. /\ new # None
        /\ acc = None => new.hit = h /\ new.score = c
        /\ acc # None =>
             IF IsLocal(h) /\ ~IsLocal(acc.hit) THEN new.hit = h /\ new.score = c
             ELSE IF IsLocal(acc.hit) /\ ~IsLocal(h) THEN new = acc
             ELSE new.hit = acc.hit /\ new.score = acc.score + c
    <3>1. c \in Int /\ acc \in Acc \cup {None} /\ new = Accumulate(acc, h, c)
      BY <1>4, <1>5, <2>7
    <3> QED
      BY ONLY <3>1, AccumulateFacts, h \in Hits
  <2>9. /\ IsLocal(new.hit) <=> mine # {}
        /\ new.score = Owed(IF mine # {} THEN mine ELSE Q)
    <3>1. CASE acc = None
      <4>1. S = {} /\ own = {}
        BY <2>1, <2>6, <3>1
      <4>2. new.hit = h /\ new.score = c
        BY <2>8, <3>1
      <4>3. Q = {e} /\ Owed(Q) = c
        BY <1>5, <2>2, <2>5, <4>1
      <4>4. CASE IsLocal(h)
        <5>1. mine = Q
          BY <2>4, <4>1, <4>3, <4>4
        <5> QED
          BY <4>2, <4>3, <4>4, <5>1
      <4>5. CASE ~IsLocal(h)
        <5>1. mine = {}
          BY <2>4, <4>1, <4>5
        <5> QED
          BY <4>2, <4>3, <4>5, <5>1
      <4> QED
        BY <4>4, <4>5
    <3>2. CASE acc # None /\ IsLocal(h) /\ ~IsLocal(acc.hit)
      <4>1. own = {}
        BY <2>1, <2>6, <3>2
      <4>2. new.hit = h /\ new.score = c
        BY <2>8, <3>2
      <4> QED
        BY <1>5, <2>4, <2>5, <3>2, <4>1, <4>2
    <3>3. CASE acc # None /\ (IsLocal(h) <=> IsLocal(acc.hit))
      <4>1. new.hit = acc.hit /\ new.score = acc.score + c
        BY <2>8, <3>3
      <4>2. /\ IsLocal(acc.hit) <=> own # {}
            /\ acc.score = Owed(IF own # {} THEN own ELSE S)
        BY <2>1, <2>6, <3>3
      <4>3. CASE IsLocal(h)
        <5>1. own # {} /\ mine = own \cup {e}
          BY <2>4, <3>3, <4>2, <4>3
        <5> QED
          BY <1>5, <2>5, <3>3, <4>1, <4>2, <4>3, <5>1
      <4>4. CASE ~IsLocal(h)
        <5>1. own = {} /\ mine = {}
          BY <2>4, <3>3, <4>2, <4>4
        <5> QED
          BY <1>5, <2>5, <3>3, <4>1, <4>2, <4>4, <5>1
      <4> QED
        BY <4>3, <4>4
    <3>4. CASE acc # None /\ ~IsLocal(h) /\ IsLocal(acc.hit)
      <4>1. new = acc
        BY <2>8, <3>4
      <4>2. own # {} /\ mine = own /\ acc.score = Owed(own)
        BY <2>1, <2>4, <2>6, <3>4
      <4> QED
        BY <3>4, <4>1, <4>2
    <3> QED
      BY <3>1, <3>2, <3>3, <3>4
  <2>10. Taken(t)' = Q /\ Q # {} /\ best'[t] = new
    BY <1>5, <1>6, <1>11, <2>1, <2>2
  <2>11. {x \in Q : IsLocal(x[2])} = mine
    BY <2>2
  <2> QED
    BY <1>7, <2>8, <2>9, <2>10, <2>11 DEF Right
<1> QED
  BY <1>10, <1>11

\* When no candidate has the rank of the cursor, the list has been met whole.
LEMMA NextListCounted ==
  ASSUME IInv, Ordered, Counted, NextList
  PROVE Counted'
<1>1. /\ at = "fuse" /\ at' = at /\ admitted' = admitted /\ lists' = lists
      /\ best' = best /\ cursor' = <<cursor[1] + 1, 1>>
      /\ cursor[1] <= Len(lists)
  BY DEF NextList, channels
<1>2. \A S : Owed(S)' = Owed(S)
  BY <1>1 DEF Owed, Shares
<1>3. SUFFICES ASSUME admitted' < FusionCandidates, NEW t \in Texts
               PROVE Right(t)'
  BY <1>1, RightIsDefinitionNext DEF Counted, Dense
<1>4. Right(t)
  BY <1>1, <1>3, RightIsDefinition DEF Counted
<1>5. PICK i, n : i = cursor[1] /\ n = cursor[2]
  OBVIOUS
<1>6. /\ i \in Nat /\ n \in Nat /\ n > 0 /\ lists \in Seq(Ranking)
      /\ i \in DOMAIN lists
  BY <1>1, <1>5, CountedFacts
<1>7. Pointed = {}
  BY <1>1, <1>3, CountedFacts DEF NextList
<1>8. ASSUME NEW j \in DOMAIN lists, NEW h \in DOMAIN lists[j]
      PROVE lists[j][h] \in Nat /\ lists[j][h] > 0 /\ (j = i => lists[j][h] < n)
  <2>1. lists[j] \in Ranking /\ Dense(lists[j])
    BY <1>8, CountedFacts
  <2>2. DOMAIN lists[j] \in SUBSET Hits
    BY <2>1, RankingFacts DEF IsRanking
  <2>3. PICK m : m = Cardinality(DOMAIN lists[j])
    OBVIOUS
  <2>4. m \in Nat
    BY <2>2, <2>3, CountIsNat
  <2>5. lists[j][h] \in 1..m
    BY <1>8, <2>1, <2>3 DEF Dense, Rankings
  <2>6. ASSUME j = i, n \in 1..m PROVE FALSE
    <3>1. PICK g \in DOMAIN lists[j] : lists[j][g] = n
      BY <2>1, <2>3, <2>6, DenseHasAllRanks
    <3> QED
      BY <1>5, <1>7, <2>6, <3>1 DEF Pointed
  <2> QED
    BY <1>6, <2>4, <2>5, <2>6
<1>9. ASSUME NEW x \in (DOMAIN lists) \X Hits
      PROVE x \in Taken(t)' <=> x \in Taken(t)
  <2>1. PICK j \in DOMAIN lists, g \in Hits : x = <<j, g>>
    OBVIOUS
  <2>2. j \in Nat
    BY <1>6
  <2>3. x \in Taken(t) <=>
          /\ g \in DOMAIN lists[j] /\ TextOf(g) = t
          /\ j < i \/ (j = i /\ lists[j][g] < n)
    BY <1>5, <2>1 DEF Taken
  <2>4. x \in Taken(t)' <=>
          /\ g \in DOMAIN lists[j] /\ TextOf(g) = t
          /\ j < i + 1 \/ (j = i + 1 /\ lists[j][g] < 1)
    BY <1>1, <1>5, <2>1 DEF Taken, TextOf
  <2> QED
    BY <1>6, <1>8, <2>2, <2>3, <2>4
<1>10. Taken(t)' = Taken(t)
  <2>1. PICK S, Q : S = Taken(t) /\ Q = Taken(t)'
    OBVIOUS
  <2>2. S \subseteq (DOMAIN lists) \X Hits /\ Q \subseteq (DOMAIN lists) \X Hits
    BY <1>1, <2>1 DEF Taken
  <2> QED
    BY <1>9, <2>1, <2>2
<1> QED
  BY <1>1, <1>2, <1>4, <1>10 DEF Right

\* The fusion begins with nothing met.
LEMMA GatherCounted ==
  ASSUME IInv, Ordered, Counted, Gather
  PROVE Counted'
<1>1. /\ at = "sources" /\ at' \in {"pack", "fuse"}
      /\ lists' = lists \/ lists' = Append(lists, semantic)
      /\ cursor' = cursor /\ best' = best
  BY DEF Gather, fusion
<1>2. cursor = <<1, 1>> /\ \A t \in Texts : best[t] = None
  BY <1>1, CountedFacts
<1>3. \A i \in DOMAIN lists' :
        lists'[i] \in Ranking /\ Dense(lists'[i]) /\ i \in Nat /\ i > 0
  <2>1. lists \in Seq(Ranking) /\ \A i \in DOMAIN lists : i \in Nat /\ i > 0
    BY CountedFacts
  <2>2. CASE lists' = lists
    BY <2>1, <2>2, CountedFacts
  <2>3. CASE lists' = Append(lists, semantic)
    <3>1. \A i \in DOMAIN lists' :
            /\ i \in Nat /\ i > 0
            /\ lists'[i] = IF i \in DOMAIN lists THEN lists[i] ELSE semantic
      BY <2>3, CountedFacts, OneMore
    <3> QED
      BY <2>1, <3>1, CountedFacts
  <2> QED
    BY <1>1, <2>2, <2>3
<1>4. ASSUME NEW t \in Texts PROVE Taken(t)' = {}
  <2>1. ASSUME NEW i \in DOMAIN lists', NEW h \in DOMAIN lists'[i]
        PROVE lists'[i][h] \in Nat /\ lists'[i][h] > 0
    <3>1. lists'[i] \in Ranking /\ Dense(lists'[i])
      BY <1>3
    <3>2. PICK r : r = lists'[i]
      OBVIOUS
    <3>3. DOMAIN r \in SUBSET Hits
      BY <3>1, <3>2, RankingFacts DEF IsRanking
    <3>4. Cardinality(DOMAIN r) \in Nat
      BY <3>3, CountIsNat
    <3>5. r[h] \in 1..Cardinality(DOMAIN r)
      BY <3>1, <3>2 DEF Dense, Rankings
    <3> QED
      BY <3>2, <3>4, <3>5
  <2>2. cursor'[1] = 1 /\ cursor'[2] = 1
    BY <1>1, <1>2
  <2>3. ASSUME NEW e \in Taken(t)' PROVE FALSE
    <3>1. /\ e[1] \in DOMAIN lists' /\ e[2] \in DOMAIN lists'[e[1]]
          /\ e[1] < 1 \/ lists'[e[1]][e[2]] < 1
      BY <2>2 DEF Taken
    <3> QED
      BY <1>3, <2>1, <3>1
  <2> QED
    BY <2>3
<1>5. \A t \in Texts : Right(t)'
  BY <1>1, <1>2, <1>4 DEF Right
<1>6. FusedByDefinition'
  BY <1>5, RightIsDefinitionNext
<1> QED
  BY <1>1, <1>3, <1>6 DEF Counted, Dense

\* A step that is not of the fusion.
LEMMA AwayCounted ==
  ASSUME IInv, Ordered, Counted, at' # "fuse",
         \/ at' \notin {"idle", "semantic", "lexical", "federate", "sources"}
         \/ /\ at \in {"idle", "semantic", "lexical", "federate", "sources"}
            /\ UNCHANGED fusion,
         \A i \in DOMAIN lists' : Dense(lists'[i])
  PROVE Counted'
<1>1. FusedByDefinition'
  BY RightIsDefinitionNext
<1> QED
  BY <1>1, CountedFacts DEF Counted, fusion, Dense

LEMMA SearchSnapshotCounted ==
  ASSUME IInv, Ordered, Counted, NEW x \in Snapshots, SearchSnapshot(x)
  PROVE Counted'
<1>1. at = "sources" /\ at' = at /\ UNCHANGED fusion
  BY DEF SearchSnapshot
<1> DEFINE all == [seg : Imported[x], from : {x}]
<1>2. PICK r \in Matches(all) :
        LET cut == Cut(r, SnapshotCandidates)
            hits == Keep(cut, {h \in DOMAIN cut : Returnable(h)})
        IN lists' = IF hits = Empty THEN lists ELSE Append(lists, hits)
  BY DEF SearchSnapshot
<1>3. all \in SUBSET Hits
  BY DEF Hits, Evidence
<1>4. PICK cut : cut = Cut(r, SnapshotCandidates)
  OBVIOUS
<1>5. PICK hits : hits = Keep(cut, {h \in DOMAIN cut : Returnable(h)})
  OBVIOUS
<1> HIDE DEF all
<1>6. cut \in Ranking /\ Dense(cut)
  BY <1>3, <1>4, MatchesRank, MatchesAreDense, CutRanks, CutIsDense
<1>7. hits \in Ranking /\ Dense(hits)
  BY <1>5, <1>6, KeepRanks, KeepIsDense
<1>8. lists' = lists \/ lists' = Append(lists, hits)
  BY <1>2, <1>4, <1>5
<1>9. \A i \in DOMAIN lists' : Dense(lists'[i])
  <2>1. CASE lists' = lists
    BY <2>1, CountedFacts
  <2>2. CASE lists' = Append(lists, hits)
    <3>1. \A i \in DOMAIN lists' :
            lists'[i] = IF i \in DOMAIN lists THEN lists[i] ELSE hits
      BY <1>7, <2>2, CountedFacts, OneMore
    <3> QED
      BY <1>7, <3>1, CountedFacts
  <2> QED
    BY <1>8, <2>1, <2>2
<1> QED
  BY <1>1, <1>9, AwayCounted

LEMMA ChannelsCounted ==
  ASSUME IInv, Ordered, Counted, Channels
  PROVE Counted'
<1>1. CASE Ask \/ SemanticSearch \/ SemanticFails \/ LexicalSearch \/ LexicalFails
  <2>1. /\ at \in {"idle", "semantic", "lexical"}
        /\ at' \in {"semantic", "lexical", "federate", "pack", "failed"}
        /\ UNCHANGED <<fusion, lists>>
    BY <1>1 DEF Ask, SemanticSearch, SemanticFails, LexicalSearch, LexicalFails,
                channels
  <2> QED
    BY <2>1, CountedFacts, AwayCounted
<1>2. CASE Federate
  <2>1. /\ at = "federate" /\ at' = "sources" /\ lists' = <<lexical>>
        /\ UNCHANGED fusion
    BY <1>2 DEF Federate
  <2>2. \A i \in DOMAIN lists' : lists'[i] = lexical
    BY <2>1
  <2> QED
    BY <2>1, <2>2, CountedFacts, AwayCounted
<1>3. CASE Gather
  BY <1>3, GatherCounted
<1>4. ASSUME NEW x \in Snapshots, SnapshotFails(x) PROVE Counted'
  <2>1. at = "sources" /\ at' = at /\ UNCHANGED <<fusion, lists>>
    BY <1>4 DEF SnapshotFails
  <2> QED
    BY <2>1, CountedFacts, AwayCounted
<1> QED
  BY <1>1, <1>2, <1>3, <1>4, SearchSnapshotCounted DEF Channels

LEMMA QuietCounted ==
  ASSUME Counted, UNCHANGED <<at, lists, fusion>>
  PROVE Counted'
<1>1. UNCHANGED <<at, lists, cursor, admitted, best>>
  BY DEF fusion
<1>2. \A t : Taken(t)' = Taken(t)
  BY <1>1 DEF Taken
<1>3. \A S : Owed(S)' = Owed(S)
  BY <1>1 DEF Owed, Shares
<1>4. \A t \in Texts : Right(t) => Right(t)'
  BY <1>1, <1>2, <1>3 DEF Right
<1>5. FusedByDefinition'
  BY <1>1, <1>4, RightIsDefinition, RightIsDefinitionNext DEF Counted
<1> QED
  BY <1>1, <1>5 DEF Counted, Dense

LEMMA InitCounted == Init => Counted
BY DEF Init, Counted, FusedByDefinition

LEMMA NextCounted == IInv /\ Ordered /\ Counted /\ [Next]_vars => Counted'
<1> SUFFICES ASSUME IInv, Ordered, Counted, [Next]_vars PROVE Counted'
  OBVIOUS
<1>1. CASE UNCHANGED vars
  BY <1>1, QuietCounted DEF vars, channels
<1>2. CASE (\E s \in Local : Promote(s)) \/ (\E s \in current : Vanish(s))
  <2>1. UNCHANGED <<at, lists, fusion>>
    BY <1>2 DEF Promote, Vanish, channels
  <2> QED
    BY <2>1, QuietCounted
<1>3. CASE Channels
  BY <1>3, ChannelsCounted
<1>4. CASE Rank \/ Packing
  <2>1. /\ at' \in {"pack", "packing", "done"} /\ lists' = lists
    BY <1>4 DEF Rank, Packing, StartPack, Take, Shorten, Stop, EndPack, Pack,
                channels
  <2> QED
    BY <2>1, CountedFacts, AwayCounted
<1> QED
  BY <1>1, <1>2, <1>3, <1>4, AdmitCounted, NextListCounted DEF Next, Fusing

\* The fusion is what its definition says, for any lists and any order in which
\* local and imported copies of a text are met: the incremental loop replaces a
\* snapshot's score when a local copy comes, and never counts an entry twice.
THEOREM FusionByDefinition == Spec => []FusedByDefinition
<1>1. Init => Counted
  BY InitCounted
<1>2. (IInv /\ Ordered) /\ Counted /\ [Next]_vars => Counted'
  BY NextCounted
<1>3. Counted => FusedByDefinition
  BY DEF Counted
<1> QED
  BY <1>1, <1>2, <1>3, OrderedHolds, PTL DEF Spec

-----------------------------------------------------------------------------
(* The response to an evaluation is such a one.                            *)

\* While nobody changes the index, a query has seen what is there.
SeenIsThere == changes = 0 => seen \subseteq current

LEMMA NextSeenIsThere ==
  IInv /\ SeenIsThere /\ [Next]_vars => SeenIsThere'
<1> SUFFICES ASSUME IInv, SeenIsThere, [Next]_vars PROVE SeenIsThere'
  OBVIOUS
<1>1. CASE UNCHANGED index
  BY <1>1 DEF index, SeenIsThere
<1>2. CASE changes' = changes + 1
  <2>1. changes \in Nat
    BY DEF IInv, Kinds
  <2> QED
    BY <1>2, <2>1 DEF SeenIsThere
<1>3. CASE Ask
  BY <1>3 DEF Ask, SeenIsThere
<1>4. CASE Channels /\ ~Ask
  <2>1. UNCHANGED index
    BY <1>4 DEF Channels, SemanticSearch, SemanticFails, LexicalSearch,
       LexicalFails, Federate, Gather, SearchSnapshot, SnapshotFails
  <2> QED
    BY <1>1, <2>1
<1>5. CASE Fusing \/ Packing
  <2>1. UNCHANGED index
    BY <1>5 DEF Fusing, Packing, Admit, NextList, Rank, StartPack, Take, Shorten,
       Pack, Stop, EndPack
  <2> QED
    BY <1>1, <2>1
<1>6. CASE UNCHANGED vars
  BY <1>1, <1>6 DEF vars
<1>7. CASE \/ \E s \in Local : Promote(s)
           \/ \E s \in current : Vanish(s)
  <2>1. changes' = changes + 1
    BY <1>7 DEF Promote, Vanish
  <2> QED
    BY <1>2, <2>1
<1> QED
  BY <1>3, <1>4, <1>5, <1>6, <1>7 DEF Next

\* The references of an evaluation's response are those of its hits, once each.
LEMMA IsolatedAnswers ==
  ASSUME IInv, Ordered, SeenIsThere, Isolated
  PROVE Answer([i \in DOMAIN result |-> Ref(i)], Len(result))
<1>1. PICK refs : refs = [i \in DOMAIN result |-> Ref(i)]
  OBVIOUS
<1>2. /\ result \in Seq([hit : Hits, cost : Nat, cut : BOOLEAN])
      /\ Heads /\ Rows
  BY OrderedFacts
<1>3. Len(result) \in Nat /\ DOMAIN result = 1..Len(result)
  BY <1>2
<1>4. ASSUME NEW i \in DOMAIN result
      PROVE  /\ result[i].hit \in Hits /\ result[i].hit.from = "local"
             /\ result[i].hit.seg \in current /\ ranked[result[i].hit] = i
  <2>1. result[i].hit \in Hits
    <3>1. PICK S : S = [hit : Hits, cost : Nat, cut : BOOLEAN]
      OBVIOUS
    <3>2. result \in Seq(S)
      BY <1>2, <3>1
    <3>3. result[i] \in S
      BY ONLY <1>3, <3>2, i \in DOMAIN result
    <3> QED
      BY <3>1, <3>3
  <2>2. changes = 0 /\ result[i].hit.from = "local"
    BY DEF Isolated, IsLocal
  <2>3. result[i].hit.seg \in seen
    BY <2>2 DEF IInv, OnlyPermitted, Permitted, IsLocal
  <2>4. result[i].hit.seg \in current
    BY <2>2, <2>3 DEF SeenIsThere
  <2>5. ranked[result[i].hit] = i
    BY <1>2 DEF Heads
  <2> QED
    BY <2>1, <2>2, <2>4, <2>5
<1>5. ASSUME NEW i \in DOMAIN result, NEW e \in DOMAIN result, refs[i] = refs[e]
      PROVE  i = e
  <2>1. File[result[i].hit.seg] = File[result[e].hit.seg]
    BY <1>1, <1>5 DEF Ref
  <2>2. result[i].hit.seg = result[e].hit.seg
    <3>1. \A s, t \in current : File[s] = File[t] => s = t
      BY <1>2 DEF Rows
    <3>2. result[i].hit.seg \in current /\ result[e].hit.seg \in current
      BY <1>4
    <3> QED
      BY ONLY <2>1, <3>1, <3>2
  <2>3. PICK h, g : /\ h = result[i].hit /\ g = result[e].hit
                    /\ h \in Hits /\ g \in Hits
                    /\ h.from = "local" /\ g.from = "local" /\ h.seg = g.seg
    BY <1>4, <2>2
  <2>4. h = g
    BY ONLY <2>3 DEF Hits
  <2> QED
    <3>1. ranked[h] = i /\ ranked[g] = e
      BY <1>4, <2>3
    <3> QED
      BY ONLY <2>4, <3>1
<1>6. DOMAIN refs = 1..Len(result) /\ \A i, e \in 1..Len(result) : refs[i] = refs[e] => i = e
  BY <1>1, <1>3, <1>5
<1> QED
  BY <1>1, <1>3, <1>6 DEF Answer

\* An evaluation counts no reference twice, and its measures are what they are
\* called, whatever the judgment, the table of discounts and the cut-offs.
THEOREM EvaluationsMeasure == Spec => []ResponsesAreMeasured
<1>1. IInv /\ Ordered /\ SeenIsThere => ResponsesAreMeasured
  <2> SUFFICES ASSUME IInv, Ordered, SeenIsThere, Isolated
               PROVE  LET refs == [i \in DOMAIN result |-> Ref(i)]
                      IN Duplicates(refs) = {} /\ MeasuresHold(refs)
    BY DEF ResponsesAreMeasured
  <2>1. PICK refs : refs = [i \in DOMAIN result |-> Ref(i)]
    OBVIOUS
  <2>2. PICK n : n = Len(result)
    OBVIOUS
  <2>3. Answer(refs, n)
    BY <2>1, <2>2, IsolatedAnswers
  <2>4. Duplicates(refs) = {} /\ MeasuresHold(refs)
    BY <2>3, MeasuresOfAnswers
  <2> QED
    BY <2>1, <2>4
<1>2. Init => SeenIsThere
  BY DEF Init, SeenIsThere
<1>3. (IInv /\ Ordered) /\ SeenIsThere /\ [Next]_vars => SeenIsThere'
  BY NextSeenIsThere
<1> QED
  BY <1>1, <1>2, <1>3, OrderedHolds, PTL DEF Spec

-----------------------------------------------------------------------------
(* A query takes finitely many steps.                                      *)

HIDE RetrievalAssumption

Stage ==
  [idle |-> 8, semantic |-> 7, lexical |-> 6, federate |-> 5, sources |-> 4,
   fuse |-> 3, pack |-> 2, packing |-> 1, done |-> 0, failed |-> 0]

\* What the loop of the stage has before it.
Rest ==
  IF at = "sources" THEN Cardinality(sources)
  ELSE IF at = "fuse"
  THEN (Len(lists) + 1 - cursor[1]) + (FusionCandidates - admitted)
  ELSE IF at = "packing" THEN packing.limit - Len(result)
  ELSE 0

\* A step to a later stage, or one less of the loop.
Nearer ==
  \/ Stage[at'] < Stage[at]
  \/ at' = at /\ Rest' < Rest

\* The counters of the loops are within their bounds.
Bounded ==
  /\ at \in DOMAIN Stage
  /\ at \in {"idle", "semantic", "lexical", "federate", "sources"} =>
       cursor = <<1, 1>> /\ admitted = 0
  /\ at = "fuse" => cursor[1] <= Len(lists) + 1 /\ admitted <= FusionCandidates

LEMMA BoundedFacts ==
  ASSUME IInv
  PROVE /\ Len(lists) \in Nat /\ Len(result) \in Nat
        /\ cursor[1] \in Nat \ {0} /\ admitted \in Nat
        /\ IsFiniteSet(sources) /\ Cardinality(sources) \in Nat
        /\ packing.limit \in Nat
<1>1. /\ sources \subseteq Snapshots
      /\ lists \in Seq(Ranking)
      /\ result \in Seq([hit : Hits, cost : Nat, cut : BOOLEAN])
      /\ cursor \in (Nat \ {0}) \X (Nat \ {0}) /\ admitted \in Nat
      /\ packing \in [limit : Nat, budget : Nat, tokens : Nat, bytes : Nat]
  BY DEF IInv, Kinds
<1>2. IsFiniteSet(sources)
  BY <1>1, HitsAssumption, FS_Subset
<1>3. Cardinality(sources) \in Nat
  BY <1>2, FS_CardinalityType
<1>4. Len(lists) \in Nat /\ Len(result) \in Nat
  <2>1. PICK S : S = [hit : Hits, cost : Nat, cut : BOOLEAN]
    OBVIOUS
  <2>2. result \in Seq(S)
    BY <1>1, <2>1
  <2> QED
    BY ONLY <1>1, <2>2
<1> QED
  BY <1>1, <1>2, <1>3, <1>4

LEMMA RestIsNat ==
  ASSUME IInv, Bounded
  PROVE Rest \in Nat
<1>1. CASE at = "sources"
  BY <1>1, BoundedFacts DEF Rest
<1>2. CASE at = "fuse"
  <2>1. cursor[1] <= Len(lists) + 1 /\ admitted <= FusionCandidates
    BY <1>2 DEF Bounded
  <2>2. FusionCandidates \in Nat
    BY RetrievalAssumption
  <2>3. Rest = (Len(lists) + 1 - cursor[1]) + (FusionCandidates - admitted)
    BY <1>2 DEF Rest
  <2> QED
    BY <2>1, <2>2, <2>3, BoundedFacts
<1>3. CASE at = "packing"
  <2>1. Len(result) <= packing.limit
    BY <1>3 DEF IInv, Spending
  <2> QED
    BY <1>3, <2>1, BoundedFacts DEF Rest
<1>4. CASE at \notin {"sources", "fuse", "packing"}
  BY <1>4 DEF Rest
<1> QED
  BY <1>1, <1>2, <1>3, <1>4

LEMMA LaterStage ==
  /\ Stage["idle"] = 8 /\ Stage["semantic"] = 7 /\ Stage["lexical"] = 6
  /\ Stage["federate"] = 5 /\ Stage["sources"] = 4 /\ Stage["fuse"] = 3
  /\ Stage["pack"] = 2 /\ Stage["packing"] = 1
  /\ Stage["done"] = 0 /\ Stage["failed"] = 0
  /\ DOMAIN Stage = {"idle", "semantic", "lexical", "federate", "sources", "fuse",
                     "pack", "packing", "done", "failed"}
BY DEF Stage

LEMMA ChannelsNear ==
  ASSUME IInv, Bounded, Channels
  PROVE Nearer /\ Bounded'
<1>1. CASE Ask
  <2>1. at = "idle" /\ at' \in {"lexical", "semantic"} /\ UNCHANGED fusion
    BY <1>1 DEF Ask
  <2> QED
    BY <2>1, LaterStage DEF Nearer, Bounded, fusion
<1>2. CASE SemanticSearch
  <2>1. at = "semantic" /\ at' \in {"lexical", "pack"} /\ UNCHANGED fusion
    BY <1>2 DEF SemanticSearch
  <2> QED
    BY <2>1, LaterStage DEF Nearer, Bounded, fusion
<1>3. CASE SemanticFails
  <2>1. at = "semantic" /\ at' \in {"lexical", "failed"} /\ UNCHANGED fusion
    BY <1>3 DEF SemanticFails
  <2> QED
    BY <2>1, LaterStage DEF Nearer, Bounded, fusion
<1>4. CASE LexicalSearch \/ LexicalFails
  <2>1. at = "lexical" /\ at' \in {"federate", "failed"} /\ UNCHANGED fusion
    BY <1>4 DEF LexicalSearch, LexicalFails
  <2> QED
    BY <2>1, LaterStage DEF Nearer, Bounded, fusion
<1>5. CASE Federate
  <2>1. at = "federate" /\ at' = "sources" /\ UNCHANGED fusion
    BY <1>5 DEF Federate
  <2> QED
    BY <2>1, LaterStage DEF Nearer, Bounded, fusion
<1>6. CASE Gather
  <2>1. at = "sources" /\ at' \in {"pack", "fuse"} /\ UNCHANGED fusion
        /\ lists' = IF semantic = Empty THEN lists ELSE Append(lists, semantic)
    BY <1>6 DEF Gather
  <2>2. Nearer
    BY <2>1, LaterStage DEF Nearer
  <2>3. cursor' = <<1, 1>> /\ admitted' = 0 /\ FusionCandidates \in Nat
    BY <2>1, RetrievalAssumption DEF Bounded, fusion
  <2>4. Len(lists') \in Nat
    <3>1. lists \in Seq(Ranking) /\ semantic \in Ranking
      BY DEF IInv, Kinds
    <3>2. lists' \in Seq(Ranking)
      BY <2>1, <3>1
    <3> QED
      BY ONLY <3>2
  <2>5. Bounded'
    BY <2>1, <2>3, <2>4, LaterStage DEF Bounded
  <2> QED
    BY <2>2, <2>5
<1>7. CASE \E x \in Snapshots : SearchSnapshot(x) \/ SnapshotFails(x)
  <2>1. PICK x \in sources : /\ at = "sources" /\ at' = at /\ UNCHANGED fusion
                             /\ sources' = sources \ {x}
    BY <1>7 DEF SearchSnapshot, SnapshotFails
  <2>2. IsFiniteSet(sources) /\ Cardinality(sources) \in Nat
    BY BoundedFacts
  <2>3. Cardinality(sources') = Cardinality(sources) - 1
    BY <2>1, <2>2, FS_RemoveElement
  <2>4. Rest' < Rest
    BY <2>1, <2>2, <2>3 DEF Rest
  <2> QED
    BY <2>1, <2>4, LaterStage DEF Nearer, Bounded, fusion
<1> QED
  BY <1>1, <1>2, <1>3, <1>4, <1>5, <1>6, <1>7 DEF Channels

LEMMA FusingNears ==
  ASSUME IInv, Bounded, Fusing
  PROVE Nearer /\ Bounded'
<1>1. CASE Rank
  <2>1. at = "fuse" /\ at' = "pack"
    BY <1>1 DEF Rank
  <2> QED
    BY <2>1, LaterStage DEF Nearer, Bounded
<1>2. CASE Admit \/ NextList
  <2>1. /\ at = "fuse" /\ at' = at /\ lists' = lists
        /\ cursor[1] <= Len(lists)
        /\ \/ /\ admitted < FusionCandidates /\ admitted' = admitted + 1
              /\ cursor'[1] = cursor[1]
           \/ admitted' = admitted /\ cursor'[1] = cursor[1] + 1
    BY <1>2 DEF Admit, NextList, channels
  <2>2. admitted <= FusionCandidates
    BY <2>1 DEF Bounded
  <2>3. /\ Len(lists) \in Nat /\ cursor[1] \in Nat /\ admitted \in Nat
        /\ FusionCandidates \in Nat
    BY BoundedFacts, RetrievalAssumption
  <2>4. /\ Rest = (Len(lists) + 1 - cursor[1]) + (FusionCandidates - admitted)
        /\ Rest' = (Len(lists) + 1 - cursor'[1]) + (FusionCandidates - admitted')
    BY <2>1 DEF Rest
  <2>5. Rest' < Rest
    <3>1. PICK n, c, d, a, b : /\ n = Len(lists) /\ c = cursor[1] /\ d = cursor'[1]
                               /\ a = admitted /\ b = admitted'
      OBVIOUS
    <3>2. /\ n \in Nat /\ c \in Nat /\ a \in Nat /\ FusionCandidates \in Nat
          /\ \/ b = a + 1 /\ d = c
             \/ b = a /\ d = c + 1
      BY ONLY <2>1, <2>3, <3>1
    <3>3. (n + 1 - d) + (FusionCandidates - b) < (n + 1 - c) + (FusionCandidates - a)
      BY ONLY <3>2
    <3> QED
      BY <2>4, <3>1, <3>3
  <2>6. cursor'[1] <= Len(lists) + 1 /\ admitted' <= FusionCandidates
    BY ONLY <2>1, <2>2, <2>3
  <2> QED
    BY <2>1, <2>5, <2>6, LaterStage DEF Nearer, Bounded
<1> QED
  BY <1>1, <1>2 DEF Fusing

LEMMA PackingNears ==
  ASSUME IInv, Bounded, Packing
  PROVE Nearer /\ Bounded'
<1>1. CASE StartPack
  <2>1. at = "pack" /\ at' = "packing"
    BY <1>1 DEF StartPack
  <2> QED
    BY <2>1, LaterStage DEF Nearer, Bounded
<1>2. CASE Stop \/ EndPack
  <2>1. at = "packing" /\ at' = "done"
    BY <1>2 DEF Stop, EndPack
  <2> QED
    BY <2>1, LaterStage DEF Nearer, Bounded
<1>3. CASE Take \/ Shorten
  <2>1. PICK h, cost, cut : at = "packing" /\ Pack(h, cost, cut)
    BY <1>3 DEF Take, Shorten
  <2>2. at' = at /\ packing'.limit = packing.limit
    <3>1. packing \in [limit : Nat, budget : Nat, tokens : Nat, bytes : Nat]
      BY DEF IInv, Kinds
    <3> QED
      BY <2>1, <3>1 DEF Pack
  <2>3. Len(result') = Len(result) + 1 /\ Len(result) \in Nat /\ packing.limit \in Nat
    <3>1. PICK S : S = [hit : Hits, cost : Nat, cut : BOOLEAN] /\ result \in Seq(S)
      BY DEF IInv, Kinds
    <3>2. PICK e : result' = Append(result, e)
      BY <2>1 DEF Pack
    <3>3. Len(result') = Len(result) + 1
      BY ONLY <3>1, <3>2
    <3> QED
      BY <3>3, BoundedFacts
  <2>4. Rest' < Rest
    BY <2>1, <2>2, <2>3 DEF Rest
  <2> QED
    BY <2>1, <2>2, <2>4, LaterStage DEF Nearer, Bounded
<1> QED
  BY <1>1, <1>2, <1>3 DEF Packing

LEMMA NextBounded ==
  IInv /\ Bounded /\ [Next]_vars =>
    Bounded' /\ [Channels \/ Fusing \/ Packing => Nearer]_vars
<1> SUFFICES ASSUME IInv, Bounded, [Next]_vars
             PROVE  /\ Bounded'
                    /\ [Channels \/ Fusing \/ Packing => Nearer]_vars
  OBVIOUS
<1>1. CASE Channels \/ Fusing \/ Packing
  BY <1>1, ChannelsNear, FusingNears, PackingNears
<1>2. ASSUME UNCHANGED <<at, lists, cursor, admitted>> PROVE Bounded'
  BY <1>2 DEF Bounded
<1>3. CASE UNCHANGED vars
  <2>1. UNCHANGED <<at, lists, cursor, admitted>>
    BY <1>3 DEF vars, channels, fusion
  <2> QED
    BY <1>2, <1>3, <2>1
<1>4. CASE /\ ~(Channels \/ Fusing \/ Packing)
           /\ \/ \E s \in Local : Promote(s)
              \/ \E s \in current : Vanish(s)
  <2>1. UNCHANGED <<at, lists, cursor, admitted>>
    BY <1>4 DEF Promote, Vanish, channels, fusion
  <2> QED
    BY <1>2, <1>4, <2>1
<1> QED
  BY <1>1, <1>3, <1>4 DEF Next

\* A query ends after finitely many steps of its own, whatever the snapshots,
\* the bounds and the indexer are: each step takes it to a later stage, or
\* makes less of what the loop of its stage has before it, a natural number.
THEOREM QueriesDescend ==
  Spec => /\ [](Rest \in Nat)
          /\ [][Channels \/ Fusing \/ Packing => Nearer]_vars
<1>1. Init => IInv /\ Bounded
  <2>1. Init => Bounded
    BY LaterStage DEF Init, Bounded
  <2> QED
    BY <2>1, InitIInv
<1>2. IInv /\ [Next]_vars => IInv'
  BY NextIInv
<1>3. IInv /\ Bounded /\ [Next]_vars =>
        Bounded' /\ [Channels \/ Fusing \/ Packing => Nearer]_vars
  BY NextBounded
<1>4. IInv /\ Bounded => Rest \in Nat
  BY RestIsNat
<1> QED
  BY <1>1, <1>2, <1>3, <1>4, PTL DEF Spec
=============================================================================
