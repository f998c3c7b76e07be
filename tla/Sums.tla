-------------------------------- MODULE Sums --------------------------------
(***************************************************************************)
(* Sums over finite sets: what SumFunctionOnSet returns, and how it        *)
(* changes with one of its terms.  Induction is by a smallest               *)
(* counterexample among the subsets of the set that is summed over.        *)
(***************************************************************************)
EXTENDS Functions, FiniteSets, FiniteSetTheorems, WellFoundedInduction, TLAPS

Pick(s) == CHOOSE x \in s : TRUE

(* g has the sum of every subset of S, as the library computes it.         *)
Adds(g, f, S) ==
    g = [s \in SUBSET S |-> IF s = {} THEN 0 ELSE f[Pick(s)] + g[s \ {Pick(s)}]]

(* What is false of a subset of a finite set is false of a smallest one.   *)
LEMMA Smallest ==
    ASSUME NEW S, IsFiniteSet(S), NEW B \in SUBSET SUBSET S, B # {}
    PROVE  \E s \in B : \A t \in SUBSET s : t \in B => t = s
  <1>1. IsWellFoundedOn(StrictSubsetOrdering(S), SUBSET S)
    BY FS_StrictSubsetOrderingWellFounded, FS_FiniteSubsetsOfFinite
  <1>2. PICK s \in B : \A t \in B : ~(<<t, s>> \in StrictSubsetOrdering(S))
    BY <1>1, WFMin
  <1>3. ASSUME NEW t \in SUBSET s, t \in B PROVE t = s
    BY <1>2, <1>3 DEF StrictSubsetOrdering
  <1>4. QED
    BY <1>2, <1>3

(* Two such functions agree where both are defined.                        *)
LEMMA AddsUnique ==
    ASSUME NEW f, NEW S, IsFiniteSet(S), NEW T, NEW U, S \subseteq T, S \subseteq U,
           NEW g, NEW h, Adds(g, f, T), Adds(h, f, U)
    PROVE  g[S] = h[S]
  <1> DEFINE B == {s \in SUBSET S : g[s] # h[s]}
  <1> SUFFICES ASSUME B # {} PROVE FALSE
    OBVIOUS
  <1>0. B \in SUBSET SUBSET S
    OBVIOUS
  <1> HIDE DEF B
  <1>1. PICK s \in B : \A t \in SUBSET s : t \in B => t = s
    BY <1>0, Smallest
  <1> USE DEF B
  <1>2. s \in SUBSET T /\ s \in SUBSET U
    OBVIOUS
  <1>3. /\ g[s] = IF s = {} THEN 0 ELSE f[Pick(s)] + g[s \ {Pick(s)}]
        /\ h[s] = IF s = {} THEN 0 ELSE f[Pick(s)] + h[s \ {Pick(s)}]
    BY <1>2 DEF Adds
  <1>4. s # {}
    BY <1>3
  <1>5. Pick(s) \in s
    BY <1>4 DEF Pick
  <1>6. s \ {Pick(s)} \notin B
    BY <1>1, <1>5
  <1>7. g[s \ {Pick(s)}] = h[s \ {Pick(s)}]
    BY <1>6
  <1>8. QED
    BY <1>3, <1>7

(* There is one for every finite set.                                      *)
LEMMA AddsExists ==
    ASSUME NEW f, NEW S, IsFiniteSet(S)
    PROVE  \E g : Adds(g, f, S)
  <1> DEFINE B == {s \in SUBSET S : ~\E g : Adds(g, f, s)}
  <1> SUFFICES ASSUME B # {} PROVE FALSE
    OBVIOUS
  <1>0. B \in SUBSET SUBSET S
    OBVIOUS
  <1> HIDE DEF B
  <1>1. PICK s \in B : \A t \in SUBSET s : t \in B => t = s
    BY <1>0, Smallest
  <1> USE DEF B
  <1> DEFINE V(t) == (CHOOSE g : Adds(g, f, t))[t]
  <1> DEFINE w == [t \in SUBSET s |->
                     IF t = {} THEN 0 ELSE f[Pick(t)] + V(t \ {Pick(t)})]
  <1>2. \A t \in SUBSET s : t # s => \E g : Adds(g, f, t)
    BY <1>1
  <1>3. ASSUME NEW t \in SUBSET s, t # s PROVE w[t] = V(t)
    <2>1. PICK g : g = (CHOOSE h : Adds(h, f, t)) /\ Adds(g, f, t)
      BY <1>2, <1>3
    <2>2. g[t] = IF t = {} THEN 0 ELSE f[Pick(t)] + g[t \ {Pick(t)}]
      BY <2>1 DEF Adds
    <2>3. CASE t = {}
      BY <2>1, <2>2, <2>3
    <2>4. CASE t # {}
      <3>1. Pick(t) \in t
        BY <2>4 DEF Pick
      <3> DEFINE u == t \ {Pick(t)}
      <3>2. u \in SUBSET s /\ u # s /\ u \subseteq t /\ IsFiniteSet(u)
        BY <3>1, FS_Subset
      <3>3. PICK h : h = (CHOOSE k : Adds(k, f, u)) /\ Adds(h, f, u)
        BY <1>2, <3>2
      <3> HIDE DEF u
      <3>4. g[u] = h[u]
        BY <2>1, <3>2, <3>3, AddsUnique
      <3>5. QED
        BY <2>1, <2>2, <2>4, <3>3, <3>4 DEF u
    <2>5. QED
      BY <2>3, <2>4
  <1>4. Adds(w, f, s)
    <2>1. ASSUME NEW t \in SUBSET s
          PROVE  w[t] = IF t = {} THEN 0 ELSE f[Pick(t)] + w[t \ {Pick(t)}]
      <3>1. CASE t = {}
        BY <3>1
      <3>2. CASE t # {}
        <4>1. Pick(t) \in t
          BY <3>2 DEF Pick
        <4> DEFINE u == t \ {Pick(t)}
        <4>2. u \in SUBSET s /\ u # s
          BY <4>1
        <4> HIDE DEF u
        <4>3. w[u] = V(u)
          BY <1>3, <4>2
        <4>4. w[t] = f[Pick(t)] + V(u)
          BY <3>2 DEF u
        <4>5. QED
          BY <3>2, <4>3, <4>4 DEF u
      <3>3. QED
        BY <3>1, <3>2
    <2> HIDE DEF V
    <2>2. QED
      BY <2>1 DEF Adds
  <1>5. QED
    BY <1>1, <1>4

(* The sum of a set is what such a function has for it.                    *)
LEMMA SumDefined ==
    ASSUME NEW f, NEW S, IsFiniteSet(S)
    PROVE  \E g : Adds(g, f, S) /\ SumFunctionOnSet(f, S) = g[S]
  <1>1. SumFunctionOnSet(f, S) = (CHOOSE g : Adds(g, f, S))[S]
    BY DEF SumFunctionOnSet, FoldFunctionOnSet, MapThenFoldSet, Adds, Pick
  <1>2. QED
    BY <1>1, AddsExists

-----------------------------------------------------------------------------
(* The sum over nothing.                                                   *)
LEMMA SumEmpty ==
    ASSUME NEW f
    PROVE  SumFunctionOnSet(f, {}) = 0
  <1>1. PICK g : Adds(g, f, {}) /\ SumFunctionOnSet(f, {}) = g[{}]
    BY SumDefined, FS_EmptySet
  <1>2. QED
    BY <1>1 DEF Adds

(* The sum takes its chosen element first.                                 *)
LEMMA SumPicks ==
    ASSUME NEW f, NEW S, IsFiniteSet(S), S # {}
    PROVE  /\ Pick(S) \in S
           /\ SumFunctionOnSet(f, S) = f[Pick(S)] + SumFunctionOnSet(f, S \ {Pick(S)})
  <1>1. Pick(S) \in S
    BY DEF Pick
  <1>2. PICK g : Adds(g, f, S) /\ SumFunctionOnSet(f, S) = g[S]
    BY SumDefined
  <1>3. g[S] = f[Pick(S)] + g[S \ {Pick(S)}]
    BY <1>2 DEF Adds
  <1> DEFINE R == S \ {Pick(S)}
  <1>4. IsFiniteSet(R) /\ R \subseteq S
    BY FS_RemoveElement
  <1> HIDE DEF R
  <1>5. PICK h : Adds(h, f, R) /\ SumFunctionOnSet(f, R) = h[R]
    BY <1>4, SumDefined
  <1>6. g[R] = h[R]
    BY <1>2, <1>4, <1>5, AddsUnique
  <1>7. QED
    BY <1>1, <1>2, <1>3, <1>5, <1>6 DEF R

(* A sum of integers is an integer.                                        *)
LEMMA SumType ==
    ASSUME NEW f, NEW S, IsFiniteSet(S), \A x \in S : f[x] \in Int
    PROVE  SumFunctionOnSet(f, S) \in Int
  <1> DEFINE B == {s \in SUBSET S : SumFunctionOnSet(f, s) \notin Int}
  <1> SUFFICES ASSUME B # {} PROVE FALSE
    OBVIOUS
  <1>0. B \in SUBSET SUBSET S
    OBVIOUS
  <1> HIDE DEF B
  <1>1. PICK s \in B : \A t \in SUBSET s : t \in B => t = s
    BY <1>0, Smallest
  <1> USE DEF B
  <1>2. IsFiniteSet(s) /\ s # {}
    <2>1. IsFiniteSet(s)
      BY FS_Subset
    <2>2. SumFunctionOnSet(f, {}) \in Int
      BY SumEmpty
    <2>3. QED
      BY <2>1, <2>2
  <1>3. /\ Pick(s) \in s
        /\ SumFunctionOnSet(f, s) = f[Pick(s)] + SumFunctionOnSet(f, s \ {Pick(s)})
    BY <1>2, SumPicks
  <1>4. SumFunctionOnSet(f, s \ {Pick(s)}) \in Int
    BY <1>1, <1>3
  <1>5. QED
    BY <1>3, <1>4

(* Any element may be taken first.                                         *)
LEMMA SumTakes ==
    ASSUME NEW f, NEW S, IsFiniteSet(S), \A x \in S : f[x] \in Int, NEW a \in S
    PROVE  SumFunctionOnSet(f, S) = f[a] + SumFunctionOnSet(f, S \ {a})
  <1> DEFINE B == {s \in SUBSET S : \E x \in s :
                      SumFunctionOnSet(f, s) # f[x] + SumFunctionOnSet(f, s \ {x})}
  <1> SUFFICES ASSUME B # {} PROVE FALSE
    OBVIOUS
  <1>0. B \in SUBSET SUBSET S
    OBVIOUS
  <1> HIDE DEF B
  <1>1. PICK s \in B : \A t \in SUBSET s : t \in B => t = s
    BY <1>0, Smallest
  <1> USE DEF B
  <1>2. PICK x \in s : SumFunctionOnSet(f, s) # f[x] + SumFunctionOnSet(f, s \ {x})
    OBVIOUS
  <1> DEFINE p == Pick(s)
  <1>3. IsFiniteSet(s) /\ p \in s
        /\ SumFunctionOnSet(f, s) = f[p] + SumFunctionOnSet(f, s \ {p})
    BY FS_Subset, SumPicks
  <1> HIDE DEF p
  <1>4. p # x
    BY <1>2, <1>3
  <1>5. \A t \in SUBSET s : t # s => \A y \in t :
           SumFunctionOnSet(f, t) = f[y] + SumFunctionOnSet(f, t \ {y})
    BY <1>1
  <1>6. SumFunctionOnSet(f, s \ {p}) = f[x] + SumFunctionOnSet(f, (s \ {p}) \ {x})
    BY <1>3, <1>4, <1>5
  <1>7. SumFunctionOnSet(f, s \ {x}) = f[p] + SumFunctionOnSet(f, (s \ {x}) \ {p})
    BY <1>3, <1>4, <1>5
  <1>8. (s \ {p}) \ {x} = (s \ {x}) \ {p}
    OBVIOUS
  <1> DEFINE R == (s \ {x}) \ {p}
  <1>9. SumFunctionOnSet(f, R) \in Int /\ f[x] \in Int /\ f[p] \in Int
    <2>1. IsFiniteSet(R) /\ \A y \in R : f[y] \in Int
      BY <1>3, FS_Subset
    <2>2. QED
      BY <2>1, <1>3, SumType
  <1> HIDE DEF R
  <1>10. SumFunctionOnSet(f, s \ {p}) = f[x] + SumFunctionOnSet(f, R)
    BY <1>6, <1>8 DEF R
  <1>11. SumFunctionOnSet(f, s \ {x}) = f[p] + SumFunctionOnSet(f, R)
    BY <1>7 DEF R
  <1>12. QED
    BY <1>2, <1>3, <1>9, <1>10, <1>11

(* An element more.                                                        *)
LEMMA SumWith ==
    ASSUME NEW f, NEW S, IsFiniteSet(S), NEW a, a \notin S, f[a] \in Int, \A x \in S : f[x] \in Int
    PROVE  SumFunctionOnSet(f, S \cup {a}) = f[a] + SumFunctionOnSet(f, S)
  <1> DEFINE T == S \cup {a}
  <1>1. IsFiniteSet(T) /\ a \in T /\ T \ {a} = S /\ \A x \in T : f[x] \in Int
    BY FS_AddElement
  <1> HIDE DEF T
  <1>2. SumFunctionOnSet(f, T) = f[a] + SumFunctionOnSet(f, T \ {a})
    BY <1>1, SumTakes
  <1>3. QED
    BY <1>1, <1>2 DEF T

(* Only the terms over the set matter.                                     *)
LEMMA SumSame ==
    ASSUME NEW f, NEW h, NEW S, IsFiniteSet(S), \A x \in S : f[x] = h[x]
    PROVE  SumFunctionOnSet(f, S) = SumFunctionOnSet(h, S)
  <1> DEFINE B == {s \in SUBSET S : SumFunctionOnSet(f, s) # SumFunctionOnSet(h, s)}
  <1> SUFFICES ASSUME B # {} PROVE FALSE
    OBVIOUS
  <1>0. B \in SUBSET SUBSET S
    OBVIOUS
  <1> HIDE DEF B
  <1>1. PICK s \in B : \A t \in SUBSET s : t \in B => t = s
    BY <1>0, Smallest
  <1> USE DEF B
  <1>2. IsFiniteSet(s) /\ s # {}
    BY FS_Subset, SumEmpty
  <1>3. /\ Pick(s) \in s
        /\ SumFunctionOnSet(f, s) = f[Pick(s)] + SumFunctionOnSet(f, s \ {Pick(s)})
        /\ SumFunctionOnSet(h, s) = h[Pick(s)] + SumFunctionOnSet(h, s \ {Pick(s)})
    BY <1>2, SumPicks
  <1>4. SumFunctionOnSet(f, s \ {Pick(s)}) = SumFunctionOnSet(h, s \ {Pick(s)})
    BY <1>1, <1>3
  <1>5. QED
    BY <1>3, <1>4

(* A sum is no more than one of larger terms.                              *)
LEMMA SumMonotone ==
    ASSUME NEW f, NEW h, NEW S, IsFiniteSet(S),
           \A x \in S : f[x] \in Int /\ h[x] \in Int /\ f[x] <= h[x]
    PROVE  SumFunctionOnSet(f, S) <= SumFunctionOnSet(h, S)
  <1> DEFINE B == {s \in SUBSET S : ~(SumFunctionOnSet(f, s) <= SumFunctionOnSet(h, s))}
  <1> SUFFICES ASSUME B # {} PROVE FALSE
    OBVIOUS
  <1>0. B \in SUBSET SUBSET S
    OBVIOUS
  <1> HIDE DEF B
  <1>1. PICK s \in B : \A t \in SUBSET s : t \in B => t = s
    BY <1>0, Smallest
  <1> USE DEF B
  <1>2. IsFiniteSet(s) /\ s # {}
    <2>1. IsFiniteSet(s)
      BY FS_Subset
    <2>2. SumFunctionOnSet(f, {}) <= SumFunctionOnSet(h, {})
      BY SumEmpty
    <2>3. QED
      BY <2>1, <2>2
  <1> DEFINE p == Pick(s)
             R == s \ {Pick(s)}
  <1>3. /\ p \in s
        /\ SumFunctionOnSet(f, s) = f[p] + SumFunctionOnSet(f, R)
        /\ SumFunctionOnSet(h, s) = h[p] + SumFunctionOnSet(h, R)
    BY <1>2, SumPicks
  <1>4. SumFunctionOnSet(f, R) <= SumFunctionOnSet(h, R)
    BY <1>1, <1>3
  <1>5. IsFiniteSet(R) /\ R \subseteq S
    BY <1>2, FS_RemoveElement
  <1> HIDE DEF p, R
  <1>6. SumFunctionOnSet(f, R) \in Int /\ SumFunctionOnSet(h, R) \in Int
    BY <1>5, SumType
  <1>7. f[p] \in Int /\ h[p] \in Int /\ f[p] <= h[p]
    BY <1>3
  <1>8. QED
    BY <1>3, <1>4, <1>6, <1>7

(* One term changes.                                                       *)
LEMMA SumChanges ==
    ASSUME NEW f, NEW h, NEW S, IsFiniteSet(S), NEW a \in S,
           \A x \in S : f[x] \in Int /\ h[x] \in Int,
           \A x \in S : x # a => f[x] = h[x]
    PROVE  /\ SumFunctionOnSet(f, S) \in Int /\ SumFunctionOnSet(h, S) \in Int
           /\ SumFunctionOnSet(h, S) = SumFunctionOnSet(f, S) - f[a] + h[a]
  <1>1. SumFunctionOnSet(f, S) \in Int /\ SumFunctionOnSet(h, S) \in Int
    BY SumType
  <1> DEFINE R == S \ {a}
  <1>2. /\ SumFunctionOnSet(f, S) = f[a] + SumFunctionOnSet(f, R)
        /\ SumFunctionOnSet(h, S) = h[a] + SumFunctionOnSet(h, R)
    BY SumTakes
  <1>3. IsFiniteSet(R) /\ R \subseteq S /\ a \notin R
    BY FS_RemoveElement
  <1> HIDE DEF R
  <1>4. SumFunctionOnSet(f, R) = SumFunctionOnSet(h, R)
    BY <1>3, SumSame
  <1>5. SumFunctionOnSet(f, R) \in Int
    BY <1>3, SumType
  <1>6. QED
    BY <1>1, <1>2, <1>4, <1>5

(* A sum over more elements is no less, when the terms are not negative.   *)
LEMMA SumGrows ==
    ASSUME NEW f, NEW T, IsFiniteSet(T), NEW S \in SUBSET T, \A x \in T : f[x] \in Nat
    PROVE  0 <= SumFunctionOnSet(f, S) /\ SumFunctionOnSet(f, S) <= SumFunctionOnSet(f, T)
  <1> DEFINE OK(s) == /\ 0 <= SumFunctionOnSet(f, S \cap s)
                      /\ SumFunctionOnSet(f, S \cap s) <= SumFunctionOnSet(f, s)
             B == {s \in SUBSET T : ~OK(s)}
  <1>0. B \in SUBSET SUBSET T
    OBVIOUS
  <1>1. ASSUME B # {} PROVE FALSE
    <2> HIDE DEF B
    <2>1. PICK s \in B : \A t \in SUBSET s : t \in B => t = s
      BY <1>0, <1>1, Smallest
    <2> USE DEF B
    <2>2. IsFiniteSet(s) /\ s \subseteq T /\ ~OK(s)
      BY FS_Subset
    <2>3. s # {}
      <3>1. S \cap {} = {}
        OBVIOUS
      <3>2. OK({})
        BY <3>1, SumEmpty
      <3>3. QED
        BY <2>2, <3>2
    <2> DEFINE p == Pick(s)
               R == s \ {p}
    <2>4. p \in s /\ SumFunctionOnSet(f, s) = f[p] + SumFunctionOnSet(f, R)
      BY <2>2, <2>3, SumPicks
    <2>5. R \in SUBSET s /\ R # s /\ p \notin R /\ s = R \cup {p}
      BY <2>4
    <2>6. OK(R)
      BY <2>1, <2>2, <2>5
    <2>7. IsFiniteSet(R) /\ IsFiniteSet(S \cap R)
      BY <2>2, <2>5, FS_Subset, FS_Intersection
    <2>8. f[p] \in Nat /\ \A x \in s : f[x] \in Nat
      BY <2>2, <2>4
    <2> HIDE DEF p, R
    <2>9. SumFunctionOnSet(f, R) \in Int /\ SumFunctionOnSet(f, S \cap R) \in Int
      BY <2>5, <2>7, <2>8, SumType
    <2>10. CASE p \in S
      <3> DEFINE Q == S \cap R
      <3>1. S \cap s = Q \cup {p} /\ p \notin Q /\ IsFiniteSet(Q) /\ \A x \in Q : f[x] \in Int
        BY <2>5, <2>7, <2>8, <2>10
      <3> HIDE DEF Q
      <3>2. SumFunctionOnSet(f, Q \cup {p}) = f[p] + SumFunctionOnSet(f, Q)
        BY <2>8, <3>1, SumWith
      <3>3. QED
        BY <2>2, <2>4, <2>6, <2>8, <2>9, <3>1, <3>2 DEF Q
    <2>11. CASE p \notin S
      <3> DEFINE Q == S \cap R
      <3>1. S \cap s = Q
        BY <2>5, <2>11
      <3>2. /\ 0 <= SumFunctionOnSet(f, Q) /\ SumFunctionOnSet(f, Q) <= SumFunctionOnSet(f, R)
            /\ SumFunctionOnSet(f, Q) \in Int
        BY <2>6, <2>9
      <3> HIDE DEF Q
      <3>3. SumFunctionOnSet(f, R) \in Int
        BY <2>9
      <3>4. SumFunctionOnSet(f, Q) <= SumFunctionOnSet(f, s)
        BY <2>4, <2>8, <3>2, <3>3
      <3>5. OK(s)
        BY <3>1, <3>2, <3>4
      <3>6. QED
        BY <2>2, <3>5
    <2>12. QED
      BY <2>10, <2>11
  <1>2. OK(T) /\ S \cap T = S
    BY <1>1
  <1>3. QED
    BY <1>2

(* The sum of sums.                                                        *)
LEMMA SumOfSums ==
    ASSUME NEW f, NEW h, NEW g, NEW S, IsFiniteSet(S),
           \A x \in S : f[x] \in Int /\ h[x] \in Int /\ g[x] = f[x] + h[x]
    PROVE  SumFunctionOnSet(g, S) = SumFunctionOnSet(f, S) + SumFunctionOnSet(h, S)
  <1> DEFINE B == {s \in SUBSET S : ~(SumFunctionOnSet(g, s) = SumFunctionOnSet(f, s) + SumFunctionOnSet(h, s))}
  <1> SUFFICES ASSUME B # {} PROVE FALSE
    OBVIOUS
  <1>0. B \in SUBSET SUBSET S
    OBVIOUS
  <1> HIDE DEF B
  <1>1. PICK s \in B : \A t \in SUBSET s : t \in B => t = s
    BY <1>0, Smallest
  <1> USE DEF B
  <1>2. IsFiniteSet(s) /\ s # {}
    <2>1. IsFiniteSet(s)
      BY FS_Subset
    <2>2. SumFunctionOnSet(g, {}) = SumFunctionOnSet(f, {}) + SumFunctionOnSet(h, {})
      BY SumEmpty
    <2>3. QED
      BY <2>1, <2>2
  <1> DEFINE p == Pick(s)
             R == s \ {Pick(s)}
  <1>3. /\ p \in s
        /\ SumFunctionOnSet(f, s) = f[p] + SumFunctionOnSet(f, R)
        /\ SumFunctionOnSet(h, s) = h[p] + SumFunctionOnSet(h, R)
        /\ SumFunctionOnSet(g, s) = g[p] + SumFunctionOnSet(g, R)
    BY <1>2, SumPicks
  <1>4. SumFunctionOnSet(g, R) = SumFunctionOnSet(f, R) + SumFunctionOnSet(h, R)
    BY <1>1, <1>3
  <1>5. IsFiniteSet(R) /\ R \subseteq S
    BY <1>2, FS_RemoveElement
  <1>6. ~(SumFunctionOnSet(g, s) = SumFunctionOnSet(f, s) + SumFunctionOnSet(h, s))
    OBVIOUS
  <1> HIDE DEF p, R
  <1>7. SumFunctionOnSet(f, R) \in Int /\ SumFunctionOnSet(h, R) \in Int
    BY <1>5, SumType
  <1>8. f[p] \in Int /\ h[p] \in Int /\ g[p] = f[p] + h[p]
    BY <1>3
  <1>9. QED
    BY <1>3, <1>4, <1>6, <1>7, <1>8

-----------------------------------------------------------------------------
(* The same for the sum of a whole function.                               *)
LEMMA SumAll ==
    ASSUME NEW S, NEW f \in [S -> Int]
    PROVE  SumFunction(f) = SumFunctionOnSet(f, S)
  <1>1. DOMAIN f = S
    OBVIOUS
  <1>2. QED
    BY <1>1 DEF SumFunction

(* A sum of integers is an integer.                                        *)
LEMMA WholeSumType ==
    ASSUME NEW S, IsFiniteSet(S), NEW f \in [S -> Int]
    PROVE  SumFunction(f) \in Int
  <1>1. \A x \in S : f[x] \in Int
    OBVIOUS
  <1>2. QED
    BY <1>1, SumAll, SumType

(* A sum of zeros is zero.                                                 *)
LEMMA WholeSumZero ==
    ASSUME NEW S, IsFiniteSet(S), NEW f \in [S -> Int], \A x \in S : f[x] = 0
    PROVE  SumFunction(f) = 0
  <1>1. SumFunctionOnSet(f, S) <= 0 /\ SumFunctionOnSet(f, S) \in Int
    <2> DEFINE B == {s \in SUBSET S : SumFunctionOnSet(f, s) # 0}
    <2>1. ASSUME B # {} PROVE FALSE
      <3>0. B \in SUBSET SUBSET S
        OBVIOUS
      <3> HIDE DEF B
      <3>1. PICK s \in B : \A t \in SUBSET s : t \in B => t = s
        BY <2>1, <3>0, Smallest
      <3> USE DEF B
      <3>2. IsFiniteSet(s) /\ s # {}
        BY FS_Subset, SumEmpty
      <3>3. Pick(s) \in s /\ SumFunctionOnSet(f, s) = f[Pick(s)] + SumFunctionOnSet(f, s \ {Pick(s)})
        BY <3>2, SumPicks
      <3>4. SumFunctionOnSet(f, s \ {Pick(s)}) = 0 /\ f[Pick(s)] = 0
        BY <3>1, <3>3
      <3>5. QED
        BY <3>3, <3>4
    <2>2. QED
      BY <2>1
  <1>2. 0 <= SumFunctionOnSet(f, S)
    <2>1. \A x \in S : f[x] \in Nat
      OBVIOUS
    <2>2. S \in SUBSET S
      OBVIOUS
    <2>3. QED
      BY <2>1, <2>2, SumGrows
  <1>3. QED
    BY <1>1, <1>2, SumAll

(* A sum of natural numbers is one.                                        *)
LEMMA WholeSumNat ==
    ASSUME NEW S, IsFiniteSet(S), NEW f \in [S -> Nat]
    PROVE  SumFunction(f) \in Nat
  <1>1. \A x \in S : f[x] \in Nat
    OBVIOUS
  <1>2. S \in SUBSET S /\ f \in [S -> Int]
    OBVIOUS
  <1>3. 0 <= SumFunctionOnSet(f, S)
    BY <1>1, <1>2, SumGrows
  <1>4. QED
    BY <1>2, <1>3, SumAll, WholeSumType

(* One term changes, and the sum by as much.                               *)
LEMMA OneTermChanges ==
    ASSUME NEW S, IsFiniteSet(S), NEW f \in [S -> Int], NEW h \in [S -> Int], NEW a \in S,
           \A x \in S : x # a => f[x] = h[x]
    PROVE  /\ SumFunction(f) \in Int /\ SumFunction(h) \in Int
           /\ f[a] \in Int /\ h[a] \in Int
           /\ SumFunction(h) = SumFunction(f) - f[a] + h[a]
  <1>1. \A x \in S : f[x] \in Int /\ h[x] \in Int
    OBVIOUS
  <1>2. QED
    BY <1>1, SumAll, SumChanges

(* Terms that do not grow make a sum that does not.                        *)
LEMMA WholeSumMonotone ==
    ASSUME NEW S, IsFiniteSet(S), NEW f \in [S -> Int], NEW h \in [S -> Int],
           \A x \in S : f[x] <= h[x]
    PROVE  SumFunction(f) <= SumFunction(h)
  <1>1. \A x \in S : f[x] \in Int /\ h[x] \in Int /\ f[x] <= h[x]
    OBVIOUS
  <1>2. QED
    BY <1>1, SumAll, SumMonotone

(* Functions are added term by term.                                       *)
LEMMA WholeSumOfSums ==
    ASSUME NEW S, IsFiniteSet(S), NEW f \in [S -> Int], NEW h \in [S -> Int], NEW g \in [S -> Int],
           \A x \in S : g[x] = f[x] + h[x]
    PROVE  SumFunction(g) = SumFunction(f) + SumFunction(h)
  <1>1. \A x \in S : f[x] \in Int /\ h[x] \in Int /\ g[x] = f[x] + h[x]
    OBVIOUS
  <1>2. QED
    BY <1>1, SumAll, SumOfSums

(* No term of natural numbers is more than their sum.                      *)
LEMMA TermWithinSum ==
    ASSUME NEW S, IsFiniteSet(S), NEW f \in [S -> Nat], NEW a \in S
    PROVE  f[a] <= SumFunction(f)
  <1> DEFINE h == [x \in S |-> IF x = a THEN f[a] ELSE 0]
             z == [x \in S |-> 0]
  <1>1. /\ h \in [S -> Int] /\ z \in [S -> Int] /\ f \in [S -> Int]
        /\ h[a] = f[a] /\ z[a] = 0 /\ f[a] \in Int
        /\ \A x \in S : x # a => z[x] = h[x]
        /\ \A x \in S : z[x] = 0
        /\ \A x \in S : h[x] <= f[x]
    OBVIOUS
  <1> HIDE DEF h, z
  <1>2. SumFunction(h) = SumFunction(z) - z[a] + h[a]
    BY <1>1, OneTermChanges
  <1>3. SumFunction(z) = 0
    BY <1>1, WholeSumZero
  <1>4. SumFunction(h) <= SumFunction(f)
    BY <1>1, WholeSumMonotone
  <1>5. SumFunction(h) = f[a]
    BY <1>1, <1>2, <1>3
  <1>6. QED
    BY <1>4, <1>5
=============================================================================
