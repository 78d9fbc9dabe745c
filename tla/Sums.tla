--------------------------------- MODULE Sums ---------------------------------
(***************************************************************************)
(* Sums and counts over finite sets, for the proofs of the other modules.  *)
(* MapThenSumSet and SumFunction are defined by a recursive function on    *)
(* the subsets of their argument; what it computes is proved by taking, of *)
(* the sets for which a claim fails, a smallest one.                       *)
(***************************************************************************)
EXTENDS Integers, FiniteSetTheorems, WellFoundedInduction, FiniteSetsExt, Functions, TLAPS

\* Every set of natural numbers that holds 0 and is closed under successor holds
\* all of them.
LEMMA NatClosed ==
  ASSUME NEW P, 0 \in P, \A n \in Nat : n \in P => n + 1 \in P
  PROVE  Nat \subseteq P
<1> SUFFICES ASSUME NEW m \in Nat, m \notin P PROVE FALSE
  OBVIOUS
<1> DEFINE T == Nat \ P
           R == {ss \in Nat \X Nat : ss[1] < ss[2]}
<1>1. IsWellFoundedOn(R, Nat)
  BY NatLessThanWellFounded DEF OpToRel
<1>2. T # {} /\ T \subseteq Nat
  OBVIOUS
<1>3. PICK x \in T : \A y \in T : ~(<<y, x>> \in R)
  <2> HIDE DEF R, T
  <2>1. QED
    BY <1>1, <1>2, WFMin
<1>4. x - 1 \in Nat /\ (x - 1) + 1 = x /\ x - 1 < x
  BY <1>3
<1>5. x - 1 \in P
  BY <1>3, <1>4
<1>6. QED
  BY <1>3, <1>4, <1>5

\* Of the naturals of a non-empty set, one is the smallest.
LEMMA SmallestOf ==
  ASSUME NEW V \in SUBSET Nat, V # {}
  PROVE  \E x \in V : \A y \in V : x <= y
<1> DEFINE R == {ss \in Nat \X Nat : ss[1] < ss[2]}
<1>1. IsWellFoundedOn(R, Nat)
  BY NatLessThanWellFounded DEF OpToRel
<1>2. PICK x \in V : \A y \in V : ~(<<y, x>> \in R)
  <2> HIDE DEF R
  <2> QED
    BY <1>1, WFMin
<1>3. \A y \in V : x <= y
  <2> SUFFICES ASSUME NEW y \in V PROVE x <= y
    OBVIOUS
  <2>1. x \in Nat /\ y \in Nat /\ ~(<<y, x>> \in R)
    BY <1>2
  <2> QED
    BY <2>1
<1> QED
  BY <1>3

\* Of a non-empty collection of subsets of a finite set, one has no proper subset
\* in the collection.
LEMMA SmallestSubset ==
  ASSUME NEW S, IsFiniteSet(S), NEW B, B \subseteq SUBSET S, B # {}
  PROVE  \E T \in B : \A U \in B : U \subseteq T => U = T
<1>1. IsWellFoundedOn(StrictSubsetOrdering(S), SUBSET S)
  BY FS_StrictSubsetOrderingWellFounded, FS_FiniteSubsetsOfFinite
<1>2. PICK T \in B : \A U \in B : ~(<<U, T>> \in StrictSubsetOrdering(S))
  BY <1>1, WFMin
<1>3. QED
  BY <1>2 DEF StrictSubsetOrdering

Pick(T) == CHOOSE k \in T : TRUE

\* What f makes of T when it sums w over T, one element at a time.
SumAt(w, f, T) == IF T = {} THEN 0 ELSE w[Pick(T)] + f[T \ {Pick(T)}]

SumOn(w, S) == CHOOSE f : f = [T \in SUBSET S |-> SumAt(w, f, T)]

Sum(w, S) == SumOn(w, S)[S]

\* The recursion has a solution on the subsets of a finite set.
LEMMA SumExists ==
  ASSUME NEW w, NEW S, IsFiniteSet(S), \A k \in S : w[k] \in Nat
  PROVE  \A T \in SUBSET S : SumOn(w, S)[T] = SumAt(w, SumOn(w, S), T)
<1> DEFINE D(n) == {T \in SUBSET S : Cardinality(T) <= n}
           P == {n \in Nat : \E g \in [D(n) -> Nat] : \A T \in D(n) : g[T] = SumAt(w, g, T)}
<1>1. \A T \in SUBSET S : IsFiniteSet(T) /\ Cardinality(T) \in Nat
  BY FS_Subset, FS_CardinalityType
<1>2. 0 \in P
  <2>1. D(0) = {{}}
    BY <1>1, FS_EmptySet
  <2> DEFINE g == [T \in D(0) |-> 0]
  <2>2. g \in [D(0) -> Nat] /\ \A T \in D(0) : g[T] = SumAt(w, g, T)
    BY <2>1 DEF SumAt
  <2>3. QED
    BY <2>2
<1>3. ASSUME NEW n \in Nat, n \in P PROVE n + 1 \in P
  <2>1. PICK g \in [D(n) -> Nat] : \A T \in D(n) : g[T] = SumAt(w, g, T)
    BY <1>3
  <2> DEFINE h == [T \in D(n + 1) |-> IF T \in D(n) THEN g[T] ELSE SumAt(w, g, T)]
  <2>2. ASSUME NEW T \in D(n + 1), T # {}
        PROVE  /\ Pick(T) \in T /\ T \ {Pick(T)} \in D(n) /\ T \ {Pick(T)} \in D(n + 1)
               /\ w[Pick(T)] \in Nat
    <3>1. Pick(T) \in T
      BY <2>2 DEF Pick
    <3>2. /\ Cardinality(T \ {Pick(T)}) = Cardinality(T) - 1 /\ Cardinality(T) \in Nat
          /\ T \ {Pick(T)} \in SUBSET S
      BY <1>1, <3>1, FS_RemoveElement
    <3>3. Cardinality(T) <= n + 1
      OBVIOUS
    <3>4. QED
      BY <3>1, <3>2, <3>3
  <2>3. ASSUME NEW T \in D(n + 1)
        PROVE  h[T] \in Nat /\ h[T] = SumAt(w, h, T)
    <3>1. CASE T = {}
      <4>1. T \in D(n) /\ SumAt(w, g, T) = 0 /\ SumAt(w, h, T) = 0
        BY <1>1, <3>1, FS_EmptySet DEF SumAt
      <4>2. QED
        BY <2>1, <4>1
    <3>2. CASE T # {}
      <4> DEFINE U == T \ {Pick(T)}
      <4>1. U \in D(n) /\ U \in D(n + 1) /\ w[Pick(T)] \in Nat
        BY <2>2, <3>2
      <4>2. h[U] = g[U] /\ g[U] \in Nat
        BY <2>1, <4>1
      <4>3. SumAt(w, h, T) = SumAt(w, g, T) /\ SumAt(w, g, T) \in Nat
        BY <3>2, <4>1, <4>2 DEF SumAt
      <4>4. h[T] = SumAt(w, g, T)
        BY <2>1
      <4>5. QED
        BY <4>3, <4>4
    <3>3. QED
      BY <3>1, <3>2
  <2> HIDE DEF h
  <2>4. h \in [D(n + 1) -> Nat]
    BY <2>3 DEF h
  <2>5. \E d \in [D(n + 1) -> Nat] : \A T \in D(n + 1) : d[T] = SumAt(w, d, T)
    <3> HIDE DEF D
    <3>1. QED
      BY <2>3, <2>4
  <2>6. n + 1 \in Nat
    OBVIOUS
  <2>7. QED
    BY <2>5, <2>6
<1>4. Cardinality(S) \in P
  <2> HIDE DEF P
  <2>1. QED
    BY <1>1, <1>2, <1>3, NatClosed
<1>5. D(Cardinality(S)) = SUBSET S
  <2>1. \A T \in SUBSET S : Cardinality(T) <= Cardinality(S)
    BY FS_Subset
  <2>2. QED
    BY <2>1
<1>6. PICK g \in [SUBSET S -> Nat] : \A T \in SUBSET S : g[T] = SumAt(w, g, T)
  BY <1>4, <1>5
<1>7. g = [T \in SUBSET S |-> SumAt(w, g, T)]
  BY <1>6
<1>8. SumOn(w, S) = [T \in SUBSET S |-> SumAt(w, SumOn(w, S), T)]
  BY <1>7 DEF SumOn
<1> DEFINE f == SumOn(w, S)
<1>9. f = [T \in SUBSET S |-> SumAt(w, f, T)]
  BY <1>8
<1> HIDE DEF f
<1>10. \A T \in SUBSET S : f[T] = SumAt(w, f, T)
  BY <1>9
<1>11. QED
  BY <1>10 DEF f

\* What the recursion gives for T is the same wherever it is started, and for
\* any weights that agree on T.
LEMMA SumLocal ==
  ASSUME NEW w, NEW v, NEW S, NEW V, IsFiniteSet(S), IsFiniteSet(V),
         \A k \in S : w[k] \in Nat, \A k \in V : v[k] \in Nat,
         NEW X, X \subseteq S, X \subseteq V, \A k \in X : w[k] = v[k]
  PROVE  SumOn(w, S)[X] = SumOn(v, V)[X] /\ SumOn(w, S)[X] \in Nat
<1> DEFINE f == SumOn(w, S)
           g == SumOn(v, V)
           B == {T \in SUBSET X : ~(f[T] = g[T] /\ f[T] \in Nat)}
<1>1. \A T \in SUBSET X : f[T] = SumAt(w, f, T) /\ g[T] = SumAt(v, g, T)
  <2>1. \A T \in SUBSET S : f[T] = SumAt(w, f, T)
    BY SumExists
  <2>2. \A T \in SUBSET V : g[T] = SumAt(v, g, T)
    BY SumExists
  <2>3. \A T \in SUBSET X : T \in SUBSET S /\ T \in SUBSET V
    OBVIOUS
  <2> HIDE DEF f, g
  <2>4. QED
    BY <2>1, <2>2, <2>3
<1> HIDE DEF f, g
<1>2. IsFiniteSet(X)
  BY FS_Subset
<1>3. ASSUME B # {} PROVE FALSE
  <2>1. PICK T \in B : \A U \in B : U \subseteq T => U = T
    <3>1. B \subseteq SUBSET X
      OBVIOUS
    <3> HIDE DEF B
    <3>2. QED
      BY <1>2, <1>3, <3>1, SmallestSubset
  <2>2. CASE T = {}
    <3>1. T \in SUBSET X
      BY <2>1
    <3>2. SumAt(w, f, T) = 0 /\ SumAt(v, g, T) = 0
      BY <2>2 DEF SumAt
    <3>3. f[T] = 0 /\ g[T] = 0
      BY <1>1, <3>1, <3>2
    <3>4. QED
      BY <2>1, <3>3
  <2>3. CASE T # {}
    <3>1. Pick(T) \in T /\ Pick(T) \in X /\ w[Pick(T)] \in Nat /\ w[Pick(T)] = v[Pick(T)]
      BY <2>1, <2>3 DEF Pick
    <3>2. T \ {Pick(T)} \in SUBSET X /\ T \ {Pick(T)} \notin B
      BY <2>1, <3>1
    <3>3. /\ f[T \ {Pick(T)}] = g[T \ {Pick(T)}] /\ f[T \ {Pick(T)}] \in Nat
      BY <3>2
    <3>4. f[T] = w[Pick(T)] + f[T \ {Pick(T)}] /\ g[T] = v[Pick(T)] + g[T \ {Pick(T)}]
      BY <1>1, <2>1, <2>3 DEF SumAt
    <3>5. f[T] = g[T] /\ f[T] \in Nat
      BY <3>1, <3>3, <3>4
    <3>6. QED
      BY <2>1, <3>5
  <2>4. QED
    BY <2>2, <2>3
<1>4. QED
  BY <1>3 DEF f, g

\* The sum of a finite set is a number, and depends on the weights in it alone.
LEMMA SumAgrees ==
  ASSUME NEW w, NEW v, NEW S, IsFiniteSet(S), \A k \in S : w[k] \in Nat,
         \A k \in S : w[k] = v[k]
  PROVE  Sum(w, S) \in Nat /\ Sum(w, S) = Sum(v, S)
BY SumLocal DEF Sum

\* One element more.
LEMMA SumRemoves ==
  ASSUME NEW w, NEW S, IsFiniteSet(S), \A k \in S : w[k] \in Nat, NEW e \in S
  PROVE  Sum(w, S) = w[e] + Sum(w, S \ {e})
<1> DEFINE f == SumOn(w, S)
           B == {T \in SUBSET S : ~(\A k \in T : f[T] = w[k] + f[T \ {k}])}
<1>1. \A T \in SUBSET S : f[T] = SumAt(w, f, T)
  BY SumExists
<1>2. \A T \in SUBSET S : f[T] \in Nat
  BY SumLocal
<1> HIDE DEF f
<1>3. ASSUME B # {} PROVE FALSE
  <2>1. PICK T \in B : \A U \in B : U \subseteq T => U = T
    <3>1. B \subseteq SUBSET S
      OBVIOUS
    <3> HIDE DEF B
    <3>2. QED
      BY <1>3, <3>1, SmallestSubset
  <2>2. PICK k \in T : ~(f[T] = w[k] + f[T \ {k}])
    BY <2>1
  <2> DEFINE x == Pick(T)
  <2>3. x \in T
    BY <2>2 DEF Pick
  <2>4. f[T] = w[x] + f[T \ {x}]
    BY <1>1, <2>1, <2>2 DEF SumAt
  <2> HIDE DEF x
  <2>5. x # k
    BY <2>2, <2>4
  <2>6. /\ T \ {x} \in SUBSET S /\ T \ {x} \notin B /\ k \in T \ {x}
        /\ T \ {k} \in SUBSET S /\ T \ {k} \notin B /\ x \in T \ {k}
    BY <2>1, <2>2, <2>3, <2>5
  <2>7. f[T \ {x}] = w[k] + f[(T \ {x}) \ {k}] /\ f[T \ {k}] = w[x] + f[(T \ {k}) \ {x}]
    BY <2>6
  <2>8. (T \ {x}) \ {k} = (T \ {k}) \ {x} /\ (T \ {x}) \ {k} \in SUBSET S
    BY <2>1
  <2>9. w[x] \in Nat /\ w[k] \in Nat /\ f[(T \ {x}) \ {k}] \in Nat
    BY <1>2, <2>1, <2>3, <2>8
  <2>10. f[T] = w[k] + f[T \ {k}]
    BY <2>4, <2>7, <2>8, <2>9
  <2>11. QED
    BY <2>2, <2>10
<1>4. f[S] = w[e] + f[S \ {e}]
  BY <1>3
<1>5. f[S \ {e}] = Sum(w, S \ {e})
  <2>1. IsFiniteSet(S \ {e})
    BY FS_Subset
  <2>2. QED
    BY <2>1, SumLocal DEF Sum, f
<1>6. QED
  BY <1>4, <1>5 DEF Sum, f

\* A part of a set sums to no more than the set.
LEMMA SumMonotone ==
  ASSUME NEW w, NEW S, IsFiniteSet(S), \A k \in S : w[k] \in Nat, NEW T \in SUBSET S
  PROVE  Sum(w, T) <= Sum(w, S)
<1> DEFINE B == {U \in SUBSET S : T \subseteq U /\ ~(Sum(w, T) <= Sum(w, U))}
<1>1. \A U \in SUBSET S : IsFiniteSet(U) /\ Sum(w, U) \in Nat
  BY FS_Subset, SumAgrees
<1>2. ASSUME B # {} PROVE FALSE
  <2>1. PICK U \in B : \A V \in B : V \subseteq U => V = U
    <3>1. B \subseteq SUBSET S
      OBVIOUS
    <3> HIDE DEF B
    <3>2. QED
      BY <1>2, <3>1, SmallestSubset
  <2>2. PICK e \in U : e \notin T
    <3>1. U # T
      BY <1>1, <2>1
    <3>2. QED
      BY <2>1, <3>1
  <2>3. /\ U \ {e} \in SUBSET S /\ U \ {e} \notin B /\ T \subseteq U \ {e}
        /\ w[e] \in Nat
    BY <2>1, <2>2
  <2>4. Sum(w, T) <= Sum(w, U \ {e})
    BY <2>3
  <2>5. Sum(w, U) = w[e] + Sum(w, U \ {e})
    BY <1>1, <2>1, <2>2, SumRemoves
  <2>6. Sum(w, T) <= Sum(w, U)
    BY <1>1, <2>1, <2>3, <2>4, <2>5
  <2>7. QED
    BY <2>1, <2>6
<1>3. QED
  BY <1>2

\* Nothing sums to nothing.
LEMMA SumEmpty == ASSUME NEW w PROVE Sum(w, {}) = 0
<1>1. IsFiniteSet({}) /\ \A k \in {} : w[k] \in Nat
  BY FS_EmptySet
<1>2. SumOn(w, {})[{}] = SumAt(w, SumOn(w, {}), {})
  BY <1>1, SumExists
<1>3. QED
  BY <1>2 DEF Sum, SumAt

\* The interval of the numbers above a, up to b.
LEMMA IntervalSize ==
  ASSUME NEW a \in Nat, NEW b \in Nat, a <= b
  PROVE  IsFiniteSet(a + 1 .. b) /\ Cardinality(a + 1 .. b) = b - a
<1>1. a + 1 \in Int /\ b \in Int
  OBVIOUS
<1>2. /\ IsFiniteSet(a + 1 .. b)
      /\ Cardinality(a + 1 .. b) = IF a + 1 > b THEN 0 ELSE b - (a + 1) + 1
  BY <1>1, FS_Interval
<1>3. QED
  BY <1>2

\* SumFunction and MapThenSumSet are such sums.
LEMMA SumFunctionIsSum == \A f : SumFunction(f) = Sum(f, DOMAIN f)
BY DEF SumFunction, SumFunctionOnSet, FoldFunctionOnSet, MapThenFoldSet, Sum, SumOn, SumAt, Pick

-----------------------------------------------------------------------------
(* Induction on the subsets of a finite set, and what it gives.            *)

\* What holds of nothing, and of a set with one element more, holds of the set.
LEMMA SubsetInduction ==
  ASSUME NEW S, IsFiniteSet(S), NEW P, {} \in P,
         \A T \in SUBSET S : \A e \in S \ T : T \in P => T \cup {e} \in P
  PROVE  S \in P
<1> DEFINE B == {T \in SUBSET S : T \notin P}
<1>1. ASSUME B # {} PROVE FALSE
  <2>1. PICK T \in B : \A U \in B : U \subseteq T => U = T
    <3>1. B \subseteq SUBSET S
      OBVIOUS
    <3> HIDE DEF B
    <3>2. QED
      BY <1>1, <3>1, SmallestSubset
  <2>2. PICK e : e \in T
    BY <2>1
  <2>3. T \ {e} \in SUBSET S /\ T \ {e} \notin B /\ e \in S \ (T \ {e})
    BY <2>1, <2>2
  <2>4. (T \ {e}) \cup {e} = T
    BY <2>2
  <2>5. QED
    BY <2>1, <2>3, <2>4
<1>2. QED
  BY <1>1

\* One element more, the other way round.
LEMMA SumAdds ==
  ASSUME NEW w, NEW S, IsFiniteSet(S), \A k \in S : w[k] \in Nat, NEW T \in SUBSET S, NEW e \in S \ T
  PROVE  Sum(w, T \cup {e}) = w[e] + Sum(w, T) /\ Sum(w, T) \in Nat /\ Sum(w, T \cup {e}) \in Nat
<1>1. IsFiniteSet(T) /\ IsFiniteSet(T \cup {e}) /\ T \cup {e} \subseteq S
  BY FS_Subset
<1>2. (T \cup {e}) \ {e} = T
  OBVIOUS
<1>3. Sum(w, T \cup {e}) = w[e] + Sum(w, (T \cup {e}) \ {e})
  BY <1>1, SumRemoves
<1>4. Sum(w, T) \in Nat /\ Sum(w, T \cup {e}) \in Nat
  BY <1>1, SumAgrees
<1>5. QED
  BY <1>2, <1>3, <1>4

\* A sum of greater weights is greater.
LEMMA SumLeq ==
  ASSUME NEW w, NEW v, NEW S, IsFiniteSet(S),
         \A k \in S : w[k] \in Nat /\ v[k] \in Nat /\ w[k] <= v[k]
  PROVE  Sum(w, S) <= Sum(v, S)
<1> DEFINE P == {T \in SUBSET S : Sum(w, T) <= Sum(v, T)}
<1>1. {} \in P
  BY SumEmpty
<1>2. ASSUME NEW T \in SUBSET S, NEW e \in S \ T, T \in P PROVE T \cup {e} \in P
  <2>1. Sum(w, T \cup {e}) = w[e] + Sum(w, T) /\ Sum(w, T) \in Nat
    BY SumAdds
  <2>2. Sum(v, T \cup {e}) = v[e] + Sum(v, T) /\ Sum(v, T) \in Nat
    BY SumAdds
  <2>3. QED
    BY <1>2, <2>1, <2>2
<1>3. S \in P
  <2> HIDE DEF P
  <2>1. QED
    BY <1>1, <1>2, SubsetInduction
<1>4. QED
  BY <1>3

\* A sum of sums, and a multiple of a sum.
LEMMA SumPlus ==
  ASSUME NEW w, NEW v, NEW u, NEW S, IsFiniteSet(S),
         \A k \in S : w[k] \in Nat /\ v[k] \in Nat /\ u[k] = w[k] + v[k]
  PROVE  Sum(u, S) = Sum(w, S) + Sum(v, S)
<1> DEFINE P == {T \in SUBSET S : Sum(u, T) = Sum(w, T) + Sum(v, T)}
<1>1. {} \in P
  BY SumEmpty
<1>2. ASSUME NEW T \in SUBSET S, NEW e \in S \ T, T \in P PROVE T \cup {e} \in P
  <2>1. Sum(w, T \cup {e}) = w[e] + Sum(w, T) /\ Sum(w, T) \in Nat
    BY SumAdds
  <2>2. Sum(v, T \cup {e}) = v[e] + Sum(v, T) /\ Sum(v, T) \in Nat
    BY SumAdds
  <2>3. \A k \in S : u[k] \in Nat
    OBVIOUS
  <2>4. Sum(u, T \cup {e}) = u[e] + Sum(u, T) /\ Sum(u, T) \in Nat
    BY <2>3, SumAdds
  <2>5. QED
    BY <1>2, <2>1, <2>2, <2>4
<1>3. S \in P
  <2> HIDE DEF P
  <2>1. QED
    BY <1>1, <1>2, SubsetInduction
<1>4. QED
  BY <1>3

\* A product of a sum is the sum of the products.
LEMMA Distributes ==
  ASSUME NEW c \in Int, NEW a \in Int, NEW b \in Int
  PROVE  c * (a + b) = c * a + c * b /\ c * 0 = 0 /\ c * a \in Int
OBVIOUS

\* Weights that are at least, or at most, c times others sum to so much.
LEMMA SumScaled ==
  ASSUME NEW w, NEW v, NEW c \in Nat, NEW S, IsFiniteSet(S),
         \A k \in S : w[k] \in Nat /\ v[k] \in Nat
  PROVE  /\ (\A k \in S : c * v[k] <= w[k]) => c * Sum(v, S) <= Sum(w, S)
         /\ (\A k \in S : w[k] <= c * v[k]) => Sum(w, S) <= c * Sum(v, S)
<1> DEFINE P == {T \in SUBSET S :
                   /\ (\A k \in T : c * v[k] <= w[k]) => c * Sum(v, T) <= Sum(w, T)
                   /\ (\A k \in T : w[k] <= c * v[k]) => Sum(w, T) <= c * Sum(v, T)}
<1>1. {} \in P
  BY SumEmpty
<1>2. ASSUME NEW T \in SUBSET S, NEW e \in S \ T, T \in P PROVE T \cup {e} \in P
  <2>1. Sum(w, T \cup {e}) = w[e] + Sum(w, T) /\ Sum(w, T) \in Nat
    BY SumAdds
  <2>2. Sum(v, T \cup {e}) = v[e] + Sum(v, T) /\ Sum(v, T) \in Nat
    BY SumAdds
  <2>3. v[e] \in Nat /\ w[e] \in Nat
    OBVIOUS
  <2>4. /\ c * (v[e] + Sum(v, T)) = c * v[e] + c * Sum(v, T)
        /\ c * v[e] \in Int /\ c * Sum(v, T) \in Int
    BY <2>2, <2>3, Distributes
  <2>5. e \in T \cup {e} /\ \A k \in T : k \in T \cup {e}
    OBVIOUS
  <2>6. (\A k \in T \cup {e} : c * v[k] <= w[k]) => c * Sum(v, T \cup {e}) <= Sum(w, T \cup {e})
    <3> SUFFICES ASSUME \A k \in T \cup {e} : c * v[k] <= w[k]
                 PROVE  c * Sum(v, T \cup {e}) <= Sum(w, T \cup {e})
      OBVIOUS
    <3>1. c * v[e] <= w[e] /\ c * Sum(v, T) <= Sum(w, T)
      BY <1>2
    <3>2. QED
      BY <2>1, <2>2, <2>3, <2>4, <3>1
  <2>7. (\A k \in T \cup {e} : w[k] <= c * v[k]) => Sum(w, T \cup {e}) <= c * Sum(v, T \cup {e})
    <3> SUFFICES ASSUME \A k \in T \cup {e} : w[k] <= c * v[k]
                 PROVE  Sum(w, T \cup {e}) <= c * Sum(v, T \cup {e})
      OBVIOUS
    <3>1. w[e] <= c * v[e] /\ Sum(w, T) <= c * Sum(v, T)
      BY <1>2
    <3>2. QED
      BY <2>1, <2>2, <2>3, <2>4, <3>1
  <2>8. T \cup {e} \in SUBSET S
    OBVIOUS
  <2>9. QED
    BY <2>6, <2>7, <2>8
<1>3. S \in P
  <2> HIDE DEF P
  <2>1. QED
    BY <1>1, <1>2, SubsetInduction
<1>4. QED
  BY <1>3

\* A sum may be taken part by part: c says which of the parts T an element is in.
LEMMA SumFibres ==
  ASSUME NEW w, NEW c, NEW S, NEW T, IsFiniteSet(S), IsFiniteSet(T),
         \A x \in S : w[x] \in Nat /\ c[x] \in T
  PROVE  Sum(w, S) = Sum([g \in T |-> Sum(w, {x \in S : c[x] = g})], T)
<1> DEFINE Part(U, g) == {x \in U : c[x] = g}
           F(U) == [g \in T |-> Sum(w, Part(U, g))]
           P == {U \in SUBSET S : Sum(w, U) = Sum(F(U), T)}
<1>1. \A U \in SUBSET S : \A g \in T : IsFiniteSet(Part(U, g)) /\ Sum(w, Part(U, g)) \in Nat
  <2> SUFFICES ASSUME NEW U \in SUBSET S, NEW g \in T
               PROVE  IsFiniteSet(Part(U, g)) /\ Sum(w, Part(U, g)) \in Nat
    OBVIOUS
  <2>1. Part(U, g) \subseteq S
    OBVIOUS
  <2>2. IsFiniteSet(Part(U, g)) /\ \A x \in Part(U, g) : w[x] \in Nat
    BY <2>1, FS_Subset
  <2> HIDE DEF Part
  <2>3. QED
    BY <2>2, SumAgrees
<1>2. {} \in P
  <2>1. \A g \in T : F({})[g] = 0
    <3>1. \A g \in T : Part({}, g) = {}
      OBVIOUS
    <3> HIDE DEF Part
    <3>2. QED
      BY <3>1, SumEmpty
  <2> DEFINE Q == {U \in SUBSET T : Sum(F({}), U) = 0}
  <2>2. {} \in Q
    BY SumEmpty
  <2>3. ASSUME NEW U \in SUBSET T, NEW e \in T \ U, U \in Q PROVE U \cup {e} \in Q
    <3>1. \A g \in T : F({})[g] \in Nat
      BY <2>1
    <3> DEFINE f == F({})
    <3>2. f[e] = 0 /\ \A g \in T : f[g] \in Nat
      BY <2>1, <3>1
    <3> HIDE DEF f
    <3>3. Sum(f, U \cup {e}) = f[e] + Sum(f, U)
      BY <3>2, SumAdds
    <3>4. Sum(f, U) = 0
      BY <2>3 DEF f
    <3>5. Sum(f, U \cup {e}) = 0
      BY <3>2, <3>3, <3>4
    <3>6. QED
      BY <3>5 DEF f
  <2>4. T \in Q
    <3> HIDE DEF Q
    <3>1. QED
      BY <2>2, <2>3, SubsetInduction
  <2>5. QED
    BY <2>4, SumEmpty
<1>3. ASSUME NEW U \in SUBSET S, NEW e \in S \ U, U \in P PROVE U \cup {e} \in P
  <2> DEFINE V == U \cup {e}
             d == c[e]
             f == F(U)
             h == F(V)
  <2>1. d \in T /\ w[e] \in Nat /\ V \in SUBSET S
    OBVIOUS
  <2>2. \A g \in T : f[g] = Sum(w, Part(U, g)) /\ h[g] = Sum(w, Part(V, g)) /\ f[g] \in Nat /\ h[g] \in Nat
    BY <1>1, <2>1
  <2>3. Part(V, d) = Part(U, d) \cup {e} /\ Part(U, d) \in SUBSET S /\ e \in S \ Part(U, d)
    OBVIOUS
  <2>4. \A g \in T \ {d} : Part(V, g) = Part(U, g)
    OBVIOUS
  <2> HIDE DEF Part
  <2>5. h[d] = w[e] + f[d]
    <3>1. Sum(w, Part(U, d) \cup {e}) = w[e] + Sum(w, Part(U, d))
      <4>1. Part(U, d) \in SUBSET S /\ e \in S \ Part(U, d)
        BY <2>3
      <4> HIDE DEF d
      <4>2. QED
        BY <4>1, SumAdds
    <3> HIDE DEF f, h
    <3>2. QED
      BY <2>1, <2>2, <2>3, <3>1
  <2>6. \A g \in T \ {d} : h[g] = f[g]
    BY <2>2, <2>4
  <2>7. Sum(w, V) = w[e] + Sum(w, U) /\ Sum(w, U) \in Nat
    BY SumAdds
  <2>8. Sum(w, U) = Sum(f, T)
    BY <1>3
  <2> HIDE DEF f, h, d, V
  <2>9. Sum(f, T) = f[d] + Sum(f, T \ {d}) /\ Sum(h, T) = h[d] + Sum(h, T \ {d})
    BY <2>1, <2>2, SumRemoves
  <2>10. Sum(h, T \ {d}) = Sum(f, T \ {d}) /\ Sum(f, T \ {d}) \in Nat
    <3>1. IsFiniteSet(T \ {d})
      BY FS_Subset
    <3>2. \A g \in T \ {d} : f[g] \in Nat /\ h[g] \in Nat
      BY <2>2
    <3>3. QED
      BY <2>6, <3>1, <3>2, SumAgrees
  <2>11. Sum(w, V) = Sum(h, T)
    BY <2>1, <2>2, <2>5, <2>7, <2>8, <2>9, <2>10
  <2>12. QED
    BY <2>1, <2>11 DEF h, V
<1>4. S \in P
  <2> HIDE DEF P
  <2>1. QED
    BY <1>2, <1>3, SubsetInduction
<1>5. QED
  BY <1>4

\* A count is a sum of ones.
LEMMA CountIsSum ==
  ASSUME NEW w, NEW S, IsFiniteSet(S), \A x \in S : w[x] = 1
  PROVE  Cardinality(S) = Sum(w, S)
<1> DEFINE P == {T \in SUBSET S : Cardinality(T) = Sum(w, T)}
<1>1. {} \in P
  BY SumEmpty, FS_EmptySet
<1>2. ASSUME NEW T \in SUBSET S, NEW e \in S \ T, T \in P PROVE T \cup {e} \in P
  <2>1. IsFiniteSet(T) /\ Cardinality(T) \in Nat
    BY FS_Subset, FS_CardinalityType
  <2>2. Cardinality(T \cup {e}) = Cardinality(T) + 1
    BY <2>1, FS_AddElement
  <2>3. Sum(w, T \cup {e}) = w[e] + Sum(w, T)
    BY SumAdds
  <2>4. QED
    BY <1>2, <2>1, <2>2, <2>3
<1>3. S \in P
  <2> HIDE DEF P
  <2>1. QED
    BY <1>1, <1>2, SubsetInduction
<1>4. QED
  BY <1>3

\* A count may be taken part by part.
LEMMA CountFibres ==
  ASSUME NEW c, NEW S, NEW T, IsFiniteSet(S), IsFiniteSet(T), \A x \in S : c[x] \in T
  PROVE  Cardinality(S) = Sum([g \in T |-> Cardinality({x \in S : c[x] = g})], T)
<1> DEFINE w == [x \in S |-> 1]
           f == [g \in T |-> Cardinality({x \in S : c[x] = g})]
           h == [g \in T |-> Sum(w, {x \in S : c[x] = g})]
<1>1. \A x \in S : w[x] = 1 /\ w[x] \in Nat
  OBVIOUS
<1> HIDE DEF w
<1>2. \A g \in T : f[g] \in Nat /\ f[g] = h[g]
  <2> TAKE g \in T
  <2>1. {x \in S : c[x] = g} \in SUBSET S
    OBVIOUS
  <2>2. IsFiniteSet({x \in S : c[x] = g}) /\ \A x \in {y \in S : c[y] = g} : w[x] = 1
    BY <1>1, <2>1, FS_Subset
  <2>3. Cardinality({x \in S : c[x] = g}) = Sum(w, {x \in S : c[x] = g})
    BY <2>2, CountIsSum
  <2>4. Cardinality({x \in S : c[x] = g}) \in Nat
    BY <2>2, FS_CardinalityType
  <2>5. QED
    BY <2>3, <2>4
<1>3. Sum(w, S) = Sum(h, T)
  BY <1>1, SumFibres
<1> HIDE DEF f, h
<1>4. Sum(f, T) = Sum(h, T)
  BY <1>2, SumAgrees
<1>5. Cardinality(S) = Sum(w, S)
  BY <1>1, CountIsSum
<1>6. QED
  BY <1>3, <1>4, <1>5 DEF f

-----------------------------------------------------------------------------
(* Counting, and the greatest and the least of a finite set.               *)

\* What a function makes of a finite set is finite, and no larger.
LEMMA ImageCount ==
  ASSUME NEW f, NEW S, IsFiniteSet(S), NEW T, T = {f[x] : x \in S}
  PROVE  /\ IsFiniteSet(T) /\ Cardinality(T) <= Cardinality(S)
         /\ Cardinality(T) \in Nat /\ Cardinality(S) \in Nat
<1> DEFINE h == [x \in S |-> f[x]]
<1>1. h \in Surjection(S, T)
  BY DEF Surjection
<1>2. QED
  BY <1>1, FS_Surjection, FS_CardinalityType

\* What is mapped one to one into a finite set is finite, and no larger.
LEMMA InjectionCount ==
  ASSUME NEW f, NEW S, NEW T, IsFiniteSet(T), \A x \in S : f[x] \in T,
         \A x, y \in S : f[x] = f[y] => x = y
  PROVE  /\ IsFiniteSet(S) /\ Cardinality(S) <= Cardinality(T)
         /\ Cardinality(S) \in Nat /\ Cardinality(T) \in Nat
<1> DEFINE h == [x \in S |-> f[x]]
<1>1. h \in Injection(S, T)
  BY DEF Injection, IsInjective
<1>2. QED
  BY <1>1, FS_Injection, FS_CardinalityType

\* Two sets mapped one to one into each other are of one size.
LEMMA SameCount ==
  ASSUME NEW f, NEW S, NEW T, IsFiniteSet(S), T = {f[x] : x \in S},
         \A x, y \in S : f[x] = f[y] => x = y
  PROVE  IsFiniteSet(T) /\ Cardinality(T) = Cardinality(S)
<1>1. IsFiniteSet(T) /\ Cardinality(T) <= Cardinality(S)
  BY ImageCount
<1>2. \A x \in S : f[x] \in T
  OBVIOUS
<1>3. /\ Cardinality(S) <= Cardinality(T) /\ Cardinality(S) \in Nat
      /\ Cardinality(T) \in Nat
  BY <1>1, <1>2, InjectionCount
<1>4. QED
  BY <1>1, <1>3

\* A finite set of numbers that is not empty has a least and a greatest.
LEMMA Extremes ==
  ASSUME NEW S, IsFiniteSet(S), S \subseteq Int, S # {}
  PROVE  /\ Max(S) \in S /\ \A x \in S : x <= Max(S)
         /\ Min(S) \in S /\ \A x \in S : Min(S) <= x
<1> DEFINE P == {T \in SUBSET S : T # {} => /\ \E a \in T : \A x \in T : a >= x
                                            /\ \E b \in T : \A x \in T : b <= x}
<1>1. {} \in P
  OBVIOUS
<1>2. ASSUME NEW T \in SUBSET S, NEW e \in S \ T, T \in P PROVE T \cup {e} \in P
  <2>1. CASE T = {}
    BY <2>1
  <2>2. CASE T # {}
    <3>1. PICK a \in T : \A x \in T : a >= x
      BY <1>2, <2>2
    <3>2. PICK b \in T : \A x \in T : b <= x
      BY <1>2, <2>2
    <3> DEFINE c == IF a >= e THEN a ELSE e
               d == IF b <= e THEN b ELSE e
    <3>3. c \in T \cup {e} /\ \A x \in T \cup {e} : c >= x
      BY <3>1
    <3>4. d \in T \cup {e} /\ \A x \in T \cup {e} : d <= x
      BY <3>2
    <3>5. QED
      BY <3>3, <3>4
  <2>3. QED
    BY <2>1, <2>2
<1>3. S \in P
  <2> HIDE DEF P
  <2>1. QED
    BY <1>1, <1>2, SubsetInduction
<1>4. /\ \E a \in S : \A x \in S : a >= x
      /\ \E b \in S : \A x \in S : b <= x
  BY <1>3
<1>5. Max(S) \in S /\ \A x \in S : Max(S) >= x
  BY <1>4 DEF Max
<1>6. Min(S) \in S /\ \A x \in S : Min(S) <= x
  BY <1>4 DEF Min
<1>7. QED
  BY <1>5, <1>6
=============================================================================
