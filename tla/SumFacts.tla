------------------------------- MODULE SumFacts -------------------------------
(***************************************************************************)
(* Sums over finite sets, as MapThenSumSet of the community modules        *)
(* computes them: what is left of a sum when one element goes, and what it *)
(* depends on.  The caps of the PostgreSQL store and the daily spend of    *)
(* the engine are such sums.                                               *)
(*                                                                         *)
(* MapThenSumSet is defined by recursion over the subsets.  A sum of       *)
(* naturals is the number of units in the shares of the elements, so the   *)
(* function that counts units satisfies the recursion (UnitsAreSum), and   *)
(* any function that satisfies it counts units (SumIsUnits, by a smallest  *)
(* subset on which the two differ).                                        *)
(*                                                                         *)
(* Last, how often a value occurs in a sequence that grows at its end: the *)
(* effects under an idempotency key are counted that way.                  *)
(***************************************************************************)
EXTENDS Sequences, FiniteSetsExt, FiniteSetTheorems, FunctionTheorems, TLAPS

\* The units of x, and those of all elements of S.
Share(f, x) == {x} \X (1 .. f[x])
Units(f, S) == UNION {Share(f, x) : x \in S}

\* The sum of f over S.
Total(f, S) == MapThenSumSet(LAMBDA x : f[x], S)

\* Finitely many elements have finitely many units.
LEMMA UnitsAreFinite ==
  ASSUME NEW S, IsFiniteSet(S), NEW f, \A x \in S : f[x] \in Nat
  PROVE  IsFiniteSet(Units(f, S))
<1> DEFINE T == {Share(f, x) : x \in S}
           g == [x \in S |-> Share(f, x)]
<1>1. IsFiniteSet(T)
  <2>1. g \in [S -> T] /\ \A t \in T : \E s \in S : g[s] = t
    OBVIOUS
  <2>2. g \in Surjection(S, T)
    BY <2>1, Fun_IsSurj
  <2>3. QED BY <2>2, FS_Surjection
<1>2. ASSUME NEW x \in S PROVE IsFiniteSet(Share(f, x))
  <2>1. IsFiniteSet({x})
    BY FS_Singleton
  <2>2. f[x] \in Int /\ 1 \in Int
    OBVIOUS
  <2>3. IsFiniteSet(1 .. f[x])
    BY <2>2, FS_Interval
  <2>4. QED BY <2>1, <2>3, FS_Product DEF Share
<1>3. QED BY <1>1, <1>2, FS_UNION DEF Units

\* An element adds its own share to the units.
LEMMA UnitsAddUp ==
  ASSUME NEW S, IsFiniteSet(S), NEW f, NEW x, x \notin S,
         \A y \in S \cup {x} : f[y] \in Nat
  PROVE  Cardinality(Units(f, S \cup {x})) = f[x] + Cardinality(Units(f, S))
<1>1. IsFiniteSet(Units(f, S)) /\ Cardinality(Units(f, S)) \in Nat
  BY UnitsAreFinite, FS_CardinalityType
<1>2. IsFiniteSet(Share(f, x)) /\ Cardinality(Share(f, x)) = f[x]
  <2>1. IsFiniteSet({x}) /\ Cardinality({x}) = 1
    BY FS_Singleton
  <2>2. f[x] \in Nat /\ 1 \in Int /\ f[x] \in Int
    OBVIOUS
  <2>3. /\ IsFiniteSet(1 .. f[x])
        /\ Cardinality(1 .. f[x]) = IF 1 > f[x] THEN 0 ELSE f[x] - 1 + 1
    BY <2>2, FS_Interval
  <2>4. /\ IsFiniteSet(Share(f, x))
        /\ Cardinality(Share(f, x)) = Cardinality({x}) * Cardinality(1 .. f[x])
    BY <2>1, <2>3, FS_Product DEF Share
  <2>5. QED BY <2>1, <2>2, <2>3, <2>4
<1>3. Units(f, S \cup {x}) = Units(f, S) \cup Share(f, x)
  BY DEF Units
<1>4. Units(f, S) \cap Share(f, x) = {}
  <2>1. SUFFICES ASSUME NEW u \in Share(f, x), NEW y \in S, u \in Share(f, y)
                 PROVE  FALSE
    BY DEF Units
  <2>2. u[1] = x /\ u[1] = y
    BY <2>1 DEF Share
  <2>3. QED BY <2>2
<1>5. ASSUME NEW U, NEW V, IsFiniteSet(U), IsFiniteSet(V), U \cap V = {}
      PROVE  Cardinality(U \cup V) = Cardinality(V) + Cardinality(U)
  <2>1. Cardinality(U) \in Nat /\ Cardinality(V) \in Nat
    BY <1>5, FS_CardinalityType
  <2>2. Cardinality(U \cup V) =
          Cardinality(U) + Cardinality(V) - Cardinality(U \cap V)
    BY <1>5, FS_Union
  <2>3. Cardinality(U \cap V) = 0
    BY <1>5, FS_EmptySet
  <2>4. QED BY <2>1, <2>2, <2>3
<1>6. QED BY <1>1, <1>2, <1>3, <1>4, <1>5

\* g satisfies the recursion by which MapThenSumSet sums f over subsets of S.
IsSum(g, f, S) ==
  g = [s \in SUBSET S |-> IF s = {} THEN 0
                          ELSE f[CHOOSE x \in s : TRUE] + g[s \ {CHOOSE x \in s : TRUE}]]

\* Counting units satisfies the recursion.
LEMMA UnitsAreSum ==
  ASSUME NEW S, IsFiniteSet(S), NEW f, \A x \in S : f[x] \in Nat
  PROVE  IsSum([s \in SUBSET S |-> Cardinality(Units(f, s))], f, S)
<1> DEFINE g == [s \in SUBSET S |-> Cardinality(Units(f, s))]
<1>1. ASSUME NEW s \in SUBSET S, s # {}
      PROVE g[s] = f[CHOOSE x \in s : TRUE] + g[s \ {CHOOSE x \in s : TRUE}]
  <2> DEFINE x == CHOOSE y \in s : TRUE
  <2>1. x \in s
    BY <1>1
  <2> HIDE DEF x
  <2>2. IsFiniteSet(s \ {x})
    BY FS_Subset
  <2>3. s = (s \ {x}) \cup {x}
    BY <2>1
  <2>4. Cardinality(Units(f, s)) = f[x] + Cardinality(Units(f, s \ {x}))
    BY <2>1, <2>2, <2>3, UnitsAddUp
  <2>5. g[s] = f[x] + g[s \ {x}]
    BY <2>4
  <2>6. QED BY <2>5 DEF x
<1>2. g[{}] = 0
  <2>1. Units(f, {}) = {}
    BY DEF Units
  <2>2. QED BY <2>1, FS_EmptySet
<1>3. QED BY <1>1, <1>2 DEF IsSum

\* Nothing else does: on a smallest subset where the two differ they would agree
\* once the chosen element is gone.
LEMMA SumIsUnits ==
  ASSUME NEW S, IsFiniteSet(S), NEW f, \A x \in S : f[x] \in Nat,
         NEW g, IsSum(g, f, S)
  PROVE  g[S] = Cardinality(Units(f, S))
<1> DEFINE h == [s \in SUBSET S |-> Cardinality(Units(f, s))]
           Differ == {s \in SUBSET S : g[s] # h[s]}
<1>1. SUFFICES ASSUME Differ # {} PROVE FALSE
  OBVIOUS
<1>2. IsSum(h, f, S)
  BY UnitsAreSum
<1>3. PICK s \in Differ : \A t \in Differ : <<t, s>> \notin StrictSubsetOrdering(S)
  <2>1. IsWellFoundedOn(StrictSubsetOrdering(S), FiniteSubsetsOf(S))
    BY FS_StrictSubsetOrderingWellFounded
  <2>2. FiniteSubsetsOf(S) = SUBSET S
    BY FS_FiniteSubsetsOfFinite
  <2>3. Differ \subseteq FiniteSubsetsOf(S)
    BY <2>2
  <2> HIDE DEF Differ
  <2>4. QED BY <1>1, <2>1, <2>3, WFMin
<1> DEFINE x == CHOOSE y \in s : TRUE
<1> HIDE DEF h, x
<1>4. s # {}
  BY <1>2 DEF IsSum
<1>5. x \in s
  BY <1>4 DEF x
<1>6. g[s \ {x}] = h[s \ {x}]
  <2>1. <<s \ {x}, s>> \in StrictSubsetOrdering(S)
    BY <1>5 DEF StrictSubsetOrdering
  <2>2. QED BY <1>3, <2>1
<1>7. g[s] = f[x] + g[s \ {x}] /\ h[s] = f[x] + h[s \ {x}]
  BY <1>2, <1>4 DEF IsSum, x
<1>8. QED BY <1>6, <1>7

\* So the sum that MapThenSumSet chooses is the number of units.
LEMMA TotalCounts ==
  ASSUME NEW S, IsFiniteSet(S), NEW f, \A x \in S : f[x] \in Nat
  PROVE  Total(f, S) = Cardinality(Units(f, S))
<1> DEFINE R == CHOOSE g : IsSum(g, f, S)
<1>1. IsSum(R, f, S)
  BY UnitsAreSum
<1>2. Total(f, S) = R[S]
  BY DEF Total, MapThenSumSet, MapThenFoldSet, IsSum
<1>3. QED BY <1>1, <1>2, SumIsUnits

\* A sum is a natural number, and an element leaves it with what it adds.
LEMMA TotalFacts ==
  ASSUME NEW S, IsFiniteSet(S), NEW f, \A x \in S : f[x] \in Nat
  PROVE  /\ Total(f, S) \in Nat
         /\ \A x \in S : Total(f, S) = f[x] + Total(f, S \ {x})
<1>1. Total(f, S) \in Nat
  BY TotalCounts, UnitsAreFinite, FS_CardinalityType
<1>2. ASSUME NEW x \in S PROVE Total(f, S) = f[x] + Total(f, S \ {x})
  <2>1. IsFiniteSet(S \ {x}) /\ S = (S \ {x}) \cup {x}
    BY FS_Subset
  <2>2. Cardinality(Units(f, S)) = f[x] + Cardinality(Units(f, S \ {x}))
    BY <2>1, UnitsAddUp
  <2>3. QED BY <2>1, <2>2, TotalCounts
<1>3. QED BY <1>1, <1>2

\* A sum depends on the values at the elements of its set only.
LEMMA TotalDependsOn ==
  ASSUME NEW S, IsFiniteSet(S), NEW f, NEW g,
         \A x \in S : f[x] \in Nat /\ g[x] = f[x]
  PROVE  Total(f, S) = Total(g, S)
<1>1. Units(f, S) = Units(g, S)
  BY DEF Units, Share
<1>2. QED BY <1>1, TotalCounts

\* Nothing adds up to nothing.
LEMMA TotalEmpty ==
  ASSUME NEW f
  PROVE  Total(f, {}) = 0
<1>1. IsFiniteSet({}) /\ Cardinality({}) = 0
  BY FS_EmptySet
<1>2. Units(f, {}) = {}
  BY DEF Units
<1>3. QED BY <1>1, <1>2, TotalCounts

\* An element enters: the sum grows by its value.
LEMMA TotalEnters ==
  ASSUME NEW S, IsFiniteSet(S), NEW f, NEW g, NEW x, x \notin S,
         NEW T, T = S \cup {x},
         \A y \in S : f[y] \in Nat /\ g[y] = f[y], g[x] \in Nat
  PROVE  Total(g, T) = Total(f, S) + g[x] /\ Total(f, S) \in Nat
<1>1. IsFiniteSet(T)
  BY FS_AddElement
<1>2. Total(f, S) = Total(g, S) /\ Total(f, S) \in Nat
  BY TotalDependsOn, TotalFacts
<1>3. x \in T /\ \A y \in T : g[y] \in Nat
  OBVIOUS
<1>4. Total(g, T) = g[x] + Total(g, T \ {x})
  BY <1>1, <1>3, TotalFacts
<1>5. T \ {x} = S
  OBVIOUS
<1>6. Total(g, T \ {x}) = Total(g, S)
  BY <1>5, Zenon
<1>7. Total(g, T) = g[x] + Total(f, S)
  BY <1>2, <1>4, <1>6, Zenon
<1>8. g[x] + Total(f, S) = Total(f, S) + g[x]
  BY <1>2
<1>9. QED BY <1>2, <1>7, <1>8, Zenon

\* An element leaves: the sum was at least its value and drops by it.
LEMMA TotalLeaves ==
  ASSUME NEW S, IsFiniteSet(S), NEW f, NEW g, NEW x \in S,
         NEW T, T = S \ {x},
         \A y \in S : f[y] \in Nat, \A y \in T : g[y] = f[y]
  PROVE  /\ Total(g, T) = Total(f, S) - f[x]
         /\ Total(f, S) >= f[x] /\ Total(f, S) \in Nat
<1>1. IsFiniteSet(T) /\ \A y \in T : f[y] \in Nat
  BY FS_Subset
<1>2. /\ Total(f, S) = f[x] + Total(f, T)
      /\ Total(f, S) \in Nat /\ Total(f, T) \in Nat
  BY <1>1, TotalFacts
<1>3. Total(f, T) = Total(g, T)
  BY <1>1, TotalDependsOn
<1>4. f[x] \in Nat
  OBVIOUS
<1>5. QED BY <1>2, <1>3, <1>4

\* A set falls into a part and the rest.
Splits(S, R, T) == R \subseteq S /\ T = S \ R

\* A part of the elements leaves: what is left of the sum is the sum of the rest.
LEMMA TotalSplits ==
  ASSUME NEW S, IsFiniteSet(S), NEW f, \A x \in S : f[x] \in Nat,
         NEW R, NEW T, Splits(S, R, T)
  PROVE  /\ Total(f, S) = Total(f, R) + Total(f, T)
         /\ Total(f, R) \in Nat /\ Total(f, T) \in Nat
<1>1. /\ IsFiniteSet(R) /\ \A x \in R : f[x] \in Nat
      /\ IsFiniteSet(T) /\ \A x \in T : f[x] \in Nat
  BY FS_Subset DEF Splits
<1>2. IsFiniteSet(Units(f, R)) /\ IsFiniteSet(Units(f, T))
  BY <1>1, UnitsAreFinite
<1>3. Units(f, S) = Units(f, R) \cup Units(f, T)
  BY DEF Splits, Units
<1>4. Units(f, R) \cap Units(f, T) = {}
  BY DEF Splits, Units, Share
<1>5. Cardinality(Units(f, S)) = Cardinality(Units(f, R)) + Cardinality(Units(f, T))
  <2>1. /\ Cardinality(Units(f, R)) \in Nat /\ Cardinality(Units(f, T)) \in Nat
        /\ Cardinality(Units(f, R) \cap Units(f, T)) = 0
    BY <1>2, <1>4, FS_CardinalityType, FS_EmptySet
  <2>2. Cardinality(Units(f, R) \cup Units(f, T)) =
          Cardinality(Units(f, R)) + Cardinality(Units(f, T))
            - Cardinality(Units(f, R) \cap Units(f, T))
    BY <1>2, FS_Union
  <2>3. QED BY <1>3, <2>1, <2>2
<1>6. Total(f, R) \in Nat /\ Total(f, T) \in Nat
  BY <1>1, TotalFacts
<1>7. QED BY <1>1, <1>5, <1>6, TotalCounts

-----------------------------------------------------------------------------
(* Counts *)

\* How often j is in the sequence h.
Count(h, j) == Cardinality({i \in DOMAIN h : h[i] = j})

\* One more element at the end: one more position for its value.
LEMMA HistoryGrows ==
  ASSUME NEW S, NEW h \in Seq(S), NEW k \in S, NEW j \in S
  PROVE  Count(Append(h, k), j) = IF j = k THEN Count(h, j) + 1 ELSE Count(h, j)
<1> DEFINE old == {i \in DOMAIN h : h[i] = j}
           new == {i \in DOMAIN Append(h, k) : Append(h, k)[i] = j}
           n == Len(h)
<1>1. DOMAIN h = 1 .. n /\ n \in Nat
  OBVIOUS
<1>2. /\ DOMAIN Append(h, k) = 1 .. (n + 1) /\ Append(h, k)[n + 1] = k
      /\ \A i \in 1 .. n : Append(h, k)[i] = h[i]
  OBVIOUS
<1>3. IsFiniteSet(old)
  <2>1. IsFiniteSet(1 .. n)
    BY <1>1, FS_Interval
  <2>2. QED BY <1>1, <2>1, FS_Subset
<1>5. CASE j = k
  <2>1. new = old \cup {n + 1}
    BY <1>1, <1>2, <1>5
  <2>2. n + 1 \notin old
    BY <1>1
  <2>3. Cardinality(old \cup {n + 1}) = Cardinality(old) + 1
    BY <1>3, <2>2, FS_AddElement
  <2>4. QED BY <1>5, <2>1, <2>3 DEF Count
<1>6. CASE j # k
  <2>1. new = old
    BY <1>1, <1>2, <1>6
  <2>2. QED BY <1>6, <2>1 DEF Count
<1>7. QED BY <1>5, <1>6

\* Nothing occurs in the empty sequence.
LEMMA NothingInEmpty == ASSUME NEW j PROVE Count(<<>>, j) = 0
<1>1. {i \in DOMAIN <<>> : <<>>[i] = j} = {}
  OBVIOUS
<1>2. QED BY <1>1, FS_EmptySet, Zenon DEF Count

=============================================================================
