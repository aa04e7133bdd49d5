----------------------------- MODULE FiniteSums -----------------------------
(***************************************************************************)
(* Sums over finite sets, as SumFunction of the community modules makes    *)
(* them: what the figures of the household are built from.                 *)
(*                                                                         *)
(* The induction theorems of the library quantify over operators, which    *)
(* the provers here cannot instantiate.  A minimal counterexample does the *)
(* same work: the set of the subsets for which a fact fails is a set, and  *)
(* WFMin picks a smallest member of it.                                    *)
(***************************************************************************)
EXTENDS Integers, FiniteSets, Functions, FiniteSetTheorems, TLAPS

-----------------------------------------------------------------------------
(***************************************************************************)
(* Minimal counterexamples                                                 *)
(***************************************************************************)

\* A non-empty set of natural numbers has a least member.
LEMMA LeastNatural ==
    ASSUME NEW T \in SUBSET Nat, T # {}
    PROVE  \E n \in T : \A m \in T : n <= m
  <1>1. IsWellFoundedOn(OpToRel(<, Nat), Nat)
    BY NatLessThanWellFounded
  <1>2. PICK n \in T : \A m \in T : <<m, n>> \notin OpToRel(<, Nat)
    BY <1>1, WFMin
  <1>3. \A m \in T : ~(m < n)
    BY <1>2 DEF OpToRel
  <1> QED
    BY <1>3

\* A non-empty set of subsets of a finite set has a member that includes no other.
LEMMA LeastSubset ==
    ASSUME NEW S, IsFiniteSet(S), NEW T \in SUBSET (SUBSET S), T # {}
    PROVE  \E U \in T : \A V \in T : V \subseteq U => V = U
  <1>1. IsWellFoundedOn(StrictSubsetOrdering(S), SUBSET S)
    BY FS_StrictSubsetOrderingWellFounded, FS_FiniteSubsetsOfFinite
  <1>2. PICK U \in T : \A V \in T : <<V, U>> \notin StrictSubsetOrdering(S)
    BY <1>1, WFMin
  <1>3. \A V \in T : V \subseteq U => V = U
    BY <1>2 DEF StrictSubsetOrdering
  <1> QED
    BY <1>3

-----------------------------------------------------------------------------
(***************************************************************************)
(* The recursion behind a sum                                              *)
(***************************************************************************)

First(s) == CHOOSE x \in s : TRUE

\* g is the running sum of F over the subsets of S.
Accumulates(F, S, g) ==
    g = [s \in SUBSET S |-> IF s = {} THEN 0 ELSE F[First(s)] + g[s \ {First(s)}]]

LEMMA FirstIsIn == ASSUME NEW s, s # {} PROVE First(s) \in s
  BY DEF First

\* Two running sums agree where both are defined.
LEMMA AccumulatorsAgree ==
    ASSUME NEW F, NEW S, IsFiniteSet(S), NEW R \in SUBSET S,
           NEW g, NEW h, Accumulates(F, S, g), Accumulates(F, R, h)
    PROVE  \A s \in SUBSET R : g[s] = h[s]
  <1> DEFINE Bad == {s \in SUBSET R : g[s] # h[s]}
  <1>1. SUFFICES ASSUME Bad # {} PROVE FALSE
    OBVIOUS
  <1>2. IsFiniteSet(R)
    BY FS_Subset
  <1>3. PICK s \in Bad : \A t \in Bad : t \subseteq s => t = s
    <2>1. Bad \in SUBSET (SUBSET R)
      OBVIOUS
    <2> HIDE DEF Bad
    <2> QED
      BY <1>1, <1>2, <2>1, LeastSubset
  <1>4. s \in SUBSET R /\ s \in SUBSET S /\ g[s] # h[s]
    OBVIOUS
  <1>5. g[s] = (IF s = {} THEN 0 ELSE F[First(s)] + g[s \ {First(s)}])
    BY <1>4 DEF Accumulates
  <1>6. h[s] = (IF s = {} THEN 0 ELSE F[First(s)] + h[s \ {First(s)}])
    BY <1>4 DEF Accumulates
  <1>7. CASE s = {}
    BY <1>4, <1>5, <1>6, <1>7
  <1>8. CASE s # {}
    <2>1. First(s) \in s
      BY <1>8, FirstIsIn
    <2>2. s \ {First(s)} \in SUBSET R /\ s \ {First(s)} # s
      BY <1>4, <2>1
    <2>3. s \ {First(s)} \notin Bad
      BY <1>3, <2>2
    <2>4. g[s \ {First(s)}] = h[s \ {First(s)}]
      BY <2>2, <2>3
    <2> QED
      BY <1>4, <1>5, <1>6, <1>8, <2>4
  <1> QED
    BY <1>7, <1>8

\* The recursion has a solution.
LEMMA AccumulatorExists ==
    ASSUME NEW F, NEW S, IsFiniteSet(S)
    PROVE  \E g : Accumulates(F, S, g)
  <1> DEFINE Bad == {R \in SUBSET S : ~\E g : Accumulates(F, R, g)}
  <1>1. SUFFICES ASSUME Bad # {} PROVE FALSE
    OBVIOUS
  <1>2. PICK R \in Bad : \A U \in Bad : U \subseteq R => U = R
    <2>1. Bad \in SUBSET (SUBSET S)
      OBVIOUS
    <2> HIDE DEF Bad
    <2> QED
      BY <1>1, <2>1, LeastSubset
  <1> DEFINE W(U) == CHOOSE g : Accumulates(F, U, g)
  <1> HIDE DEF Bad
  <1>a. R \in SUBSET S /\ IsFiniteSet(R)
    BY <1>2, FS_Subset DEF Bad
  <1>3. ASSUME NEW U \in SUBSET R, U # R
        PROVE  Accumulates(F, U, W(U))
    <2>1. U \notin Bad
      BY <1>2, <1>3
    <2>2. \E g : Accumulates(F, U, g)
      BY <2>1, <1>a DEF Bad
    <2> QED
      BY <2>2
  <1> DEFINE h == [s \in SUBSET R |-> IF s = {} THEN 0
                       ELSE F[First(s)] + W(s \ {First(s)})[s \ {First(s)}]]
  <1> HIDE DEF W
  <1>4. ASSUME NEW s \in SUBSET R, s # {}
        PROVE  h[s \ {First(s)}] = W(s \ {First(s)})[s \ {First(s)}]
    <2> DEFINE u == s \ {First(s)}
    <2>1. First(s) \in s /\ u \in SUBSET R /\ u # R
      BY <1>4, FirstIsIn
    <2> HIDE DEF u
    <2>2. Accumulates(F, u, W(u))
      BY <1>3, <2>1
    <2>3. W(u)[u] = (IF u = {} THEN 0 ELSE F[First(u)] + W(u)[u \ {First(u)}])
      BY <2>2 DEF Accumulates
    <2>4. CASE u = {}
      <3>1. h[{}] = 0
        OBVIOUS
      <3> QED
        BY <2>3, <2>4, <3>1 DEF u
    <2>5. CASE u # {}
      <3> DEFINE v == u \ {First(u)}
      <3>1. First(u) \in u /\ v \in SUBSET u /\ v \in SUBSET R /\ v # R
        BY <2>1, <2>5, FirstIsIn
      <3> HIDE DEF v
      <3>2. Accumulates(F, v, W(v)) /\ IsFiniteSet(u)
        BY <1>3, <1>a, <2>1, <3>1, FS_Subset
      <3>3. W(u)[v] = W(v)[v]
        BY <2>2, <3>1, <3>2, AccumulatorsAgree
      <3>4. h[u] = F[First(u)] + W(v)[v]
        BY <2>1, <2>5 DEF v
      <3> QED
        BY <2>3, <2>5, <3>3, <3>4 DEF v, u
    <2> QED
      BY <2>4, <2>5
  <1>5. \A s \in SUBSET R :
            (IF s = {} THEN 0 ELSE F[First(s)] + W(s \ {First(s)})[s \ {First(s)}])
              = (IF s = {} THEN 0 ELSE F[First(s)] + h[s \ {First(s)}])
    BY <1>4
  <1>6. h = [s \in SUBSET R |-> IF s = {} THEN 0 ELSE F[First(s)] + h[s \ {First(s)}]]
    <2>1. /\ DOMAIN h = SUBSET R
          /\ \A s \in SUBSET R :
                h[s] = (IF s = {} THEN 0 ELSE F[First(s)] + h[s \ {First(s)}])
      BY <1>5
    <2>2. h = [s \in SUBSET R |-> h[s]]
      OBVIOUS
    <2> HIDE DEF h
    <2> QED
      BY <2>1, <2>2
  <1>7. Accumulates(F, R, h)
    BY <1>6 DEF Accumulates
  <1> QED
    BY <1>2, <1>7 DEF Bad

\* A sum is what any solution of the recursion says of the whole set.
LEMMA SumIsAccumulated ==
    ASSUME NEW F, NEW S, IsFiniteSet(S), NEW g, Accumulates(F, S, g)
    PROVE  SumFunctionOnSet(F, S) = g[S]
  <1> DEFINE sum == CHOOSE h : Accumulates(F, S, h)
  <1>1. Accumulates(F, S, sum)
    OBVIOUS
  <1>2. SumFunctionOnSet(F, S) = sum[S]
    BY DEF SumFunctionOnSet, FoldFunctionOnSet, MapThenFoldSet, Accumulates, First
  <1> HIDE DEF sum
  <1> QED
    BY <1>1, <1>2, AccumulatorsAgree

-----------------------------------------------------------------------------
(***************************************************************************)
(* Sums                                                                    *)
(***************************************************************************)

LEMMA SumEmpty == ASSUME NEW F PROVE SumFunctionOnSet(F, {}) = 0
  <1>1. IsFiniteSet({})
    BY FS_EmptySet
  <1>2. PICK g : Accumulates(F, {}, g)
    BY <1>1, AccumulatorExists
  <1>3. g[{}] = 0
    BY <1>2 DEF Accumulates
  <1> QED
    BY <1>1, <1>2, <1>3, SumIsAccumulated

\* The element that the recursion takes first.
LEMMA SumFirst ==
    ASSUME NEW F, NEW S, IsFiniteSet(S), S # {}
    PROVE  SumFunctionOnSet(F, S) = F[First(S)] + SumFunctionOnSet(F, S \ {First(S)})
  <1> DEFINE R == S \ {First(S)}
  <1>1. R \in SUBSET S /\ IsFiniteSet(R)
    BY FS_Subset
  <1>2. PICK g : Accumulates(F, S, g)
    BY AccumulatorExists
  <1>3. g[S] = F[First(S)] + g[R]
    BY <1>2 DEF Accumulates
  <1>4. PICK h : Accumulates(F, R, h)
    BY <1>1, AccumulatorExists
  <1> HIDE DEF R
  <1>5. g[R] = h[R]
    <2>1. \A e, f : Accumulates(F, S, e) /\ Accumulates(F, R, f) =>
                       \A s \in SUBSET R : e[s] = f[s]
      BY <1>1, AccumulatorsAgree
    <2>2. \A s \in SUBSET R : g[s] = h[s]
      BY <1>2, <1>4, <2>1
    <2> QED
      BY <2>2
  <1>6. SumFunctionOnSet(F, S) = g[S] /\ SumFunctionOnSet(F, R) = h[R]
    BY <1>1, <1>2, <1>4, SumIsAccumulated
  <1> QED
    BY <1>3, <1>5, <1>6 DEF R

Integral(F, S) == \A x \in S : F[x] \in Int

LEMMA SumInt ==
    ASSUME NEW F, NEW S, IsFiniteSet(S), Integral(F, S)
    PROVE  SumFunctionOnSet(F, S) \in Int
  <1> DEFINE Bad == {R \in SUBSET S : SumFunctionOnSet(F, R) \notin Int}
  <1>1. SUFFICES ASSUME Bad # {} PROVE FALSE
    OBVIOUS
  <1>2. PICK R \in Bad : \A U \in Bad : U \subseteq R => U = R
    <2>1. Bad \in SUBSET (SUBSET S)
      OBVIOUS
    <2> HIDE DEF Bad
    <2> QED
      BY <1>1, <2>1, LeastSubset
  <1>3. R \in SUBSET S /\ IsFiniteSet(R) /\ R # {}
    <2>1. IsFiniteSet(R)
      BY FS_Subset
    <2>2. ASSUME R = {} PROVE FALSE
      BY <1>2, <2>2, SumEmpty
    <2> QED
      BY <2>1, <2>2
  <1>4. First(R) \in R /\ F[First(R)] \in Int
    BY <1>3, FirstIsIn DEF Integral
  <1>5. R \ {First(R)} \notin Bad
    BY <1>2, <1>4
  <1>6. SumFunctionOnSet(F, R \ {First(R)}) \in Int
    BY <1>3, <1>5
  <1>7. SumFunctionOnSet(F, R) \in Int
    BY <1>3, <1>4, <1>6, SumFirst
  <1> QED
    BY <1>7

\* Any element can be taken first: addition commutes.
LEMMA SumRemove ==
    ASSUME NEW F, NEW S, IsFiniteSet(S), Integral(F, S), NEW x \in S
    PROVE  SumFunctionOnSet(F, S) = F[x] + SumFunctionOnSet(F, S \ {x})
  <1> DEFINE Sum(R) == SumFunctionOnSet(F, R)
             Bad == {R \in SUBSET S : \E y \in R : Sum(R) # F[y] + Sum(R \ {y})}
  <1>1. SUFFICES ASSUME Bad # {} PROVE FALSE
    OBVIOUS
  <1>2. PICK R \in Bad : \A U \in Bad : U \subseteq R => U = R
    <2>1. Bad \in SUBSET (SUBSET S)
      OBVIOUS
    <2> HIDE DEF Bad
    <2> QED
      BY <1>1, <2>1, LeastSubset
  <1>3. PICK y \in R : Sum(R) # F[y] + Sum(R \ {y})
    BY <1>2
  <1> DEFINE z == First(R)
             rest == R \ {y, z}
  <1>4. R \in SUBSET S /\ z \in R
    BY <1>3, FirstIsIn
  <1>5. /\ IsFiniteSet(R) /\ IsFiniteSet(R \ {y}) /\ IsFiniteSet(R \ {z})
        /\ IsFiniteSet(rest) /\ Integral(F, rest)
    BY <1>4, FS_Subset DEF Integral
  <1>6. Sum(R) = F[z] + Sum(R \ {z})
    BY <1>3, <1>5, SumFirst
  <1>7. y # z
    BY <1>3, <1>6
  <1>8. R \ {z} \notin Bad /\ R \ {y} \notin Bad
    BY <1>2, <1>3, <1>4
  <1>9. /\ Sum(R \ {z}) = F[y] + Sum((R \ {z}) \ {y})
        /\ Sum(R \ {y}) = F[z] + Sum((R \ {y}) \ {z})
    BY <1>3, <1>4, <1>7, <1>8
  <1>10. (R \ {z}) \ {y} = rest /\ (R \ {y}) \ {z} = rest
    OBVIOUS
  <1>11. Sum(rest) \in Int /\ F[y] \in Int /\ F[z] \in Int
    BY <1>3, <1>4, <1>5, SumInt DEF Integral
  <1>12. /\ Sum(R \ {z}) = F[y] + Sum(rest)
         /\ Sum(R \ {y}) = F[z] + Sum(rest)
    BY <1>9, <1>10
  <1>13. Sum(R) = F[y] + Sum(R \ {y})
    <2> HIDE DEF Sum, Bad, z, rest
    <2> QED
      BY <1>6, <1>11, <1>12
  <1> QED
    BY <1>3, <1>13

LEMMA SumAdd ==
    ASSUME NEW F, NEW S, IsFiniteSet(S), Integral(F, S), NEW x, x \notin S, F[x] \in Int
    PROVE  SumFunctionOnSet(F, S \cup {x}) = SumFunctionOnSet(F, S) + F[x]
  <1>1. /\ IsFiniteSet(S \cup {x}) /\ Integral(F, S \cup {x})
        /\ (S \cup {x}) \ {x} = S
    BY FS_AddElement DEF Integral
  <1>2. SumFunctionOnSet(F, S) \in Int
    BY SumInt
  <1> QED
    BY <1>1, <1>2, SumRemove

\* A sum depends on the function where it is summed only.
LEMMA SumSame ==
    ASSUME NEW F, NEW G, NEW S, IsFiniteSet(S), \A x \in S : F[x] = G[x]
    PROVE  SumFunctionOnSet(F, S) = SumFunctionOnSet(G, S)
  <1> DEFINE Bad == {R \in SUBSET S : SumFunctionOnSet(F, R) # SumFunctionOnSet(G, R)}
  <1>1. SUFFICES ASSUME Bad # {} PROVE FALSE
    OBVIOUS
  <1>2. PICK R \in Bad : \A U \in Bad : U \subseteq R => U = R
    <2>1. Bad \in SUBSET (SUBSET S)
      OBVIOUS
    <2> HIDE DEF Bad
    <2> QED
      BY <1>1, <2>1, LeastSubset
  <1>3. R \in SUBSET S /\ IsFiniteSet(R) /\ R # {}
    <2>1. IsFiniteSet(R)
      BY FS_Subset
    <2>2. ASSUME R = {} PROVE FALSE
      BY <1>2, <2>2, SumEmpty
    <2> QED
      BY <2>1, <2>2
  <1>4. First(R) \in R /\ F[First(R)] = G[First(R)]
    BY <1>3, FirstIsIn
  <1>5. R \ {First(R)} \notin Bad
    BY <1>2, <1>4
  <1>6. SumFunctionOnSet(F, R \ {First(R)}) = SumFunctionOnSet(G, R \ {First(R)})
    BY <1>3, <1>5
  <1>7. SumFunctionOnSet(F, R) = SumFunctionOnSet(G, R)
    BY <1>3, <1>4, <1>6, SumFirst
  <1> QED
    BY <1>7

\* Sums add up term by term.
LEMMA SumPlus ==
    ASSUME NEW F, NEW G, NEW H, NEW S, IsFiniteSet(S),
           Integral(F, S), Integral(G, S), \A x \in S : H[x] = F[x] + G[x]
    PROVE  SumFunctionOnSet(H, S) = SumFunctionOnSet(F, S) + SumFunctionOnSet(G, S)
  <1> DEFINE Sum(f, R) == SumFunctionOnSet(f, R)
             Bad == {R \in SUBSET S : Sum(H, R) # Sum(F, R) + Sum(G, R)}
  <1>1. SUFFICES ASSUME Bad # {} PROVE FALSE
    OBVIOUS
  <1>2. PICK R \in Bad : \A U \in Bad : U \subseteq R => U = R
    <2>1. Bad \in SUBSET (SUBSET S)
      OBVIOUS
    <2> HIDE DEF Bad
    <2> QED
      BY <1>1, <2>1, LeastSubset
  <1>3. R \in SUBSET S /\ IsFiniteSet(R) /\ R # {}
    <2>1. IsFiniteSet(R)
      BY FS_Subset
    <2>2. ASSUME R = {} PROVE FALSE
      BY <1>2, <2>2, SumEmpty
    <2> QED
      BY <2>1, <2>2
  <1> DEFINE z == First(R)
             rest == R \ {z}
  <1>4. z \in R /\ F[z] \in Int /\ G[z] \in Int /\ H[z] = F[z] + G[z]
    BY <1>3, FirstIsIn DEF Integral
  <1>5. rest \notin Bad
    BY <1>2, <1>4
  <1>6. IsFiniteSet(rest) /\ Integral(F, rest) /\ Integral(G, rest)
    BY <1>3, FS_Subset DEF Integral
  <1>7. Sum(F, rest) \in Int /\ Sum(G, rest) \in Int
    BY <1>6, SumInt
  <1>8. Sum(H, rest) = Sum(F, rest) + Sum(G, rest)
    BY <1>3, <1>5
  <1>9. /\ Sum(F, R) = F[z] + Sum(F, rest)
        /\ Sum(G, R) = G[z] + Sum(G, rest)
        /\ Sum(H, R) = H[z] + Sum(H, rest)
    BY <1>3, SumFirst
  <1>10. Sum(H, R) = Sum(F, R) + Sum(G, R)
    <2> HIDE DEF Sum, Bad, z, rest
    <2> QED
      BY <1>4, <1>7, <1>8, <1>9
  <1> QED
    BY <1>10

\* A sum of which one term changes.
LEMMA SumChange ==
    ASSUME NEW F, NEW G, NEW S, IsFiniteSet(S), Integral(F, S), Integral(G, S),
           NEW x \in S, \A y \in S \ {x} : F[y] = G[y]
    PROVE  SumFunctionOnSet(G, S) = SumFunctionOnSet(F, S) - F[x] + G[x]
  <1>1. IsFiniteSet(S \ {x}) /\ Integral(F, S \ {x}) /\ F[x] \in Int /\ G[x] \in Int
    BY FS_Subset DEF Integral
  <1>2. SumFunctionOnSet(F, S \ {x}) = SumFunctionOnSet(G, S \ {x})
    BY <1>1, SumSame
  <1>3. /\ SumFunctionOnSet(F, S) = F[x] + SumFunctionOnSet(F, S \ {x})
        /\ SumFunctionOnSet(G, S) = G[x] + SumFunctionOnSet(G, S \ {x})
    BY SumRemove
  <1>4. SumFunctionOnSet(F, S \ {x}) \in Int
    BY <1>1, SumInt
  <1> QED
    BY <1>1, <1>2, <1>3, <1>4

\* Terms that are zero can be left out.
LEMMA SumSupport ==
    ASSUME NEW F, NEW S, IsFiniteSet(S), NEW R \in SUBSET S, Integral(F, R),
           \A x \in S \ R : F[x] = 0
    PROVE  SumFunctionOnSet(F, S) = SumFunctionOnSet(F, R)
  <1> DEFINE Sum(T) == SumFunctionOnSet(F, T)
             Bad == {T \in SUBSET S : Sum(T) # Sum(T \cap R)}
  <1>1. SUFFICES ASSUME Bad # {} PROVE FALSE
    <2>1. S \cap R = R
      OBVIOUS
    <2> QED
      BY <2>1
  <1>2. PICK T \in Bad : \A U \in Bad : U \subseteq T => U = T
    <2>1. Bad \in SUBSET (SUBSET S)
      OBVIOUS
    <2> HIDE DEF Bad
    <2> QED
      BY <1>1, <2>1, LeastSubset
  <1>3. T \in SUBSET S /\ IsFiniteSet(T) /\ IsFiniteSet(T \cap R)
    BY FS_Subset
  <1>4. T # {}
    <2> SUFFICES ASSUME T = {} PROVE FALSE
      OBVIOUS
    <2>1. T \cap R = T
      OBVIOUS
    <2> QED
      BY <2>1
  <1> DEFINE z == First(T)
             rest == T \ {z}
  <1>5. z \in T
    BY <1>4, FirstIsIn
  <1>6. Sum(rest) = Sum(rest \cap R)
    <2>1. rest \notin Bad
      BY <1>2, <1>5
    <2> QED
      BY <1>3, <2>1
  <1>7. /\ Integral(F, T \cap R) /\ Integral(F, rest \cap R)
        /\ IsFiniteSet(rest \cap R)
    BY <1>3, FS_Subset DEF Integral
  <1>8. Sum(T) = F[z] + Sum(rest)
    BY <1>3, <1>4, SumFirst
  <1>9. Sum(rest \cap R) \in Int
    BY <1>7, SumInt
  <1>10. CASE z \in R
    <2>1. (T \cap R) \ {z} = rest \cap R /\ z \in T \cap R
      BY <1>5, <1>10
    <2>2. Sum(T \cap R) = F[z] + Sum((T \cap R) \ {z})
      BY <1>3, <1>7, <2>1, SumRemove
    <2>3. Sum(T) = Sum(T \cap R)
      <3> HIDE DEF Sum, z, rest, Bad
      <3> QED
        BY <1>6, <1>8, <2>1, <2>2
    <2> QED
      BY <2>3
  <1>11. CASE z \notin R
    <2>1. T \cap R = rest \cap R /\ F[z] = 0
      BY <1>3, <1>5, <1>11
    <2>2. Sum(T \cap R) = Sum(rest \cap R)
      BY <2>1
    <2>3. Sum(T) = Sum(T \cap R)
      <3> HIDE DEF Sum, z, rest, Bad
      <3> QED
        BY <1>6, <1>8, <1>9, <2>1, <2>2
    <2> QED
      BY <2>3
  <1> QED
    BY <1>10, <1>11

LEMMA SumZero ==
    ASSUME NEW F, NEW S, IsFiniteSet(S), \A x \in S : F[x] = 0
    PROVE  SumFunctionOnSet(F, S) = 0
  <1>1. {} \in SUBSET S /\ Integral(F, {})
    BY DEF Integral
  <1>2. SumFunctionOnSet(F, S) = SumFunctionOnSet(F, {})
    BY <1>1, SumSupport
  <1> QED
    BY <1>2, SumEmpty

\* A sum of which one term at most is not zero.
LEMMA SumOfOne ==
    ASSUME NEW F, NEW S, IsFiniteSet(S), NEW x \in S, F[x] \in Int,
           \A y \in S \ {x} : F[y] = 0
    PROVE  SumFunctionOnSet(F, S) = F[x]
  <1>1. Integral(F, S)
    BY DEF Integral
  <1>2. SumFunctionOnSet(F, S) = F[x] + SumFunctionOnSet(F, S \ {x})
    BY <1>1, SumRemove
  <1>3. SumFunctionOnSet(F, S \ {x}) = 0
    BY FS_Subset, SumZero
  <1> QED
    BY <1>2, <1>3

LEMMA SumNat ==
    ASSUME NEW F, NEW S, IsFiniteSet(S), \A x \in S : F[x] \in Nat
    PROVE  SumFunctionOnSet(F, S) \in Nat
  <1> DEFINE Bad == {R \in SUBSET S : SumFunctionOnSet(F, R) \notin Nat}
  <1>1. SUFFICES ASSUME Bad # {} PROVE FALSE
    OBVIOUS
  <1>2. PICK R \in Bad : \A U \in Bad : U \subseteq R => U = R
    <2>1. Bad \in SUBSET (SUBSET S)
      OBVIOUS
    <2> HIDE DEF Bad
    <2> QED
      BY <1>1, <2>1, LeastSubset
  <1>3. R \in SUBSET S /\ IsFiniteSet(R) /\ R # {}
    <2>1. IsFiniteSet(R)
      BY FS_Subset
    <2>2. ASSUME R = {} PROVE FALSE
      BY <1>2, <2>2, SumEmpty
    <2> QED
      BY <2>1, <2>2
  <1>4. First(R) \in R /\ F[First(R)] \in Nat
    BY <1>3, FirstIsIn
  <1>5. R \ {First(R)} \notin Bad
    BY <1>2, <1>4
  <1>6. SumFunctionOnSet(F, R \ {First(R)}) \in Nat
    BY <1>3, <1>5
  <1>7. SumFunctionOnSet(F, R) \in Nat
    BY <1>3, <1>4, <1>6, SumFirst
  <1> QED
    BY <1>7

\* Disjoint sets are summed one after the other.
LEMMA SumUnion ==
    ASSUME NEW F, NEW S, NEW T, IsFiniteSet(S), IsFiniteSet(T), S \cap T = {},
           Integral(F, S), Integral(F, T)
    PROVE  SumFunctionOnSet(F, S \cup T) = SumFunctionOnSet(F, S) + SumFunctionOnSet(F, T)
  <1> DEFINE U == S \cup T
             InS == [x \in U |-> IF x \in S THEN F[x] ELSE 0]
             InT == [x \in U |-> IF x \in T THEN F[x] ELSE 0]
  <1>1. IsFiniteSet(U)
    BY FS_Union
  <1>2. /\ Integral(InS, U) /\ Integral(InT, U) /\ Integral(InS, S) /\ Integral(InT, T)
        /\ \A x \in U : F[x] = InS[x] + InT[x]
    BY DEF Integral
  <1>3. SumFunctionOnSet(F, U) = SumFunctionOnSet(InS, U) + SumFunctionOnSet(InT, U)
    BY <1>1, <1>2, SumPlus
  <1>4. SumFunctionOnSet(InS, U) = SumFunctionOnSet(InS, S)
    <2>1. S \in SUBSET U /\ \A x \in U \ S : InS[x] = 0
      OBVIOUS
    <2> QED
      BY <1>1, <1>2, <2>1, SumSupport
  <1>5. SumFunctionOnSet(InT, U) = SumFunctionOnSet(InT, T)
    <2>1. T \in SUBSET U /\ \A x \in U \ T : InT[x] = 0
      OBVIOUS
    <2> QED
      BY <1>1, <1>2, <2>1, SumSupport
  <1>6. /\ SumFunctionOnSet(InS, S) = SumFunctionOnSet(F, S)
        /\ SumFunctionOnSet(InT, T) = SumFunctionOnSet(F, T)
    <2>1. \A x \in S : InS[x] = F[x]
      OBVIOUS
    <2>2. \A x \in T : InT[x] = F[x]
      OBVIOUS
    <2> HIDE DEF InS, InT
    <2> QED
      BY <2>1, <2>2, SumSame
  <1> QED
    BY <1>3, <1>4, <1>5, <1>6
=============================================================================
