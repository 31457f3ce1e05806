------------------------------ MODULE SumTheorems -----------------------------
(***************************************************************************)
(* Facts about finite sets, the least element of a set of numbers, sums    *)
(* over finite sets and selections from sequences that the proofs about    *)
(* the samplers, the tracer and the analysis use.  Those about sums and    *)
(* least elements rest on one: among finite sets there is a minimal one.   *)
(***************************************************************************)
EXTENDS Integers, Sequences, Selection, FiniteSetTheorems, SequenceTheorems, WellFoundedInduction,
        Functions, TLAPS

\* Of some finite sets one has none of the others as a proper part: with this, what has
\* no smallest counterexample holds, without a theorem that takes an operator.
LEMMA MinimalFinite ==
    ASSUME NEW S, NEW T, T # {}, \A U \in T : U \in SUBSET S /\ IsFiniteSet(U)
    PROVE  \E U \in T : \A V \in T : ~ (V \subseteq U /\ V # U)
<1>1. IsWellFoundedOn(StrictSubsetOrdering(S), FiniteSubsetsOf(S))
  BY FS_StrictSubsetOrderingWellFounded
<1>2. T \subseteq FiniteSubsetsOf(S)
  BY DEF FiniteSubsetsOf
<1>3. PICK U \in T : \A V \in T : ~ (<<V, U>> \in StrictSubsetOrdering(S))
  BY <1>1, <1>2, WFMin
<1> QED
  BY <1>3 DEF StrictSubsetOrdering

\* A set of natural numbers has a least one.
LEMMA LeastNumber ==
    ASSUME NEW S \in SUBSET Nat, S # {}
    PROVE  \E m \in S : \A k \in S : m <= k
<1> DEFINE T == {1..k : k \in S}
<1>1. \A U \in T : U \in SUBSET Nat /\ IsFiniteSet(U)
  BY FS_Interval
<1>2. T # {}
  OBVIOUS
<1> HIDE DEF T
<1>3. PICK U \in T : \A V \in T : ~ (V \subseteq U /\ V # U)
  BY ONLY <1>1, <1>2, MinimalFinite, SMT
<1> USE DEF T
<1>4. PICK m \in S : U = 1..m
  OBVIOUS
<1>5. ASSUME NEW k \in S, k < m PROVE FALSE
  <2>1. 1..k \subseteq 1..m /\ m \in 1..m /\ m \notin 1..k
    BY <1>5
  <2> QED
    BY <1>3, <1>4, <2>1
<1> QED
  BY <1>5
-------------------------------------------------------------------------------
(* Sums: SumFunctionOnSet(F, S) takes the elements of S one by one             *)

\* g[V] is the sum of F over V for every subset V of S.
Taken(V) == CHOOSE x \in V : TRUE
IsSum(g, F, S) ==
    g = [V \in SUBSET S |-> IF V = {} THEN 0 ELSE F[Taken(V)] + g[V \ {Taken(V)}]]

\* The sums of functions that agree on a set are the same for its subsets.
LEMMA SumUnique ==
    ASSUME NEW S, NEW R, NEW F, NEW G, NEW g, NEW h, IsSum(g, F, S), IsSum(h, G, R),
           NEW W, IsFiniteSet(W), W \subseteq S, W \subseteq R, \A x \in W : F[x] = G[x]
    PROVE  \A V \in SUBSET W : g[V] = h[V]
<1> DEFINE T == {V \in SUBSET W : g[V] # h[V]}
<1>1. SUFFICES ASSUME T # {} PROVE FALSE
  OBVIOUS
<1>2. \A U \in T : U \in SUBSET W /\ IsFiniteSet(U)
  BY FS_Subset
<1>3. PICK U \in T : \A V \in T : ~ (V \subseteq U /\ V # U)
  <2> HIDE DEF T
  <2> QED
    BY ONLY <1>1, <1>2, MinimalFinite
<1>4. U # {}
  BY DEF IsSum
<1>5. Taken(U) \in U
  BY <1>4 DEF Taken
<1>6. g[U] = F[Taken(U)] + g[U \ {Taken(U)}] /\ h[U] = G[Taken(U)] + h[U \ {Taken(U)}]
  BY <1>2, <1>4 DEF IsSum
<1>7. U \ {Taken(U)} \notin T /\ U \ {Taken(U)} \in SUBSET W
  BY <1>3, <1>5
<1> QED
  BY <1>3, <1>5, <1>6, <1>7

\* There are sums over every finite set.
LEMMA SumExists ==
    ASSUME NEW S, IsFiniteSet(S), NEW F
    PROVE  \E g : IsSum(g, F, S)
<1> DEFINE T == {V \in SUBSET S : ~ \E g : IsSum(g, F, V)}
<1>1. SUFFICES ASSUME T # {} PROVE FALSE
  OBVIOUS
<1>2. \A U \in T : U \in SUBSET S /\ IsFiniteSet(U)
  BY FS_Subset
<1>3. PICK U \in T : \A V \in T : ~ (V \subseteq U /\ V # U)
  <2> HIDE DEF T
  <2> QED
    BY ONLY <1>1, <1>2, MinimalFinite
<1> DEFINE s(V) == CHOOSE g : IsSum(g, F, V)
           Rest(V) == V \ {Taken(V)}
           h == [V \in SUBSET U |-> IF V = {} THEN 0 ELSE F[Taken(V)] + s(Rest(V))[Rest(V)]]
<1>4. ASSUME NEW V \in SUBSET U, V # U PROVE IsSum(s(V), F, V) /\ IsFiniteSet(V)
  <2>1. V \notin T /\ V \in SUBSET S
    BY <1>3, <1>4
  <2> QED
    BY <2>1, FS_Subset
<1>5. ASSUME NEW V \in SUBSET U, V # U PROVE h[V] = s(V)[V]
  <2>1. CASE V = {}
    <3>1. IsSum(s(V), F, V)
      BY <1>4, <1>5
    <3> HIDE DEF s
    <3> QED
      BY <2>1, <3>1 DEF IsSum
  <2>2. CASE V # {}
    <3>1. Taken(V) \in V /\ Rest(V) \in SUBSET U /\ Rest(V) # U /\ Rest(V) \in SUBSET V
      BY <1>5, <2>2 DEF Taken
    <3>2. IsSum(s(V), F, V) /\ IsSum(s(Rest(V)), F, Rest(V)) /\ IsFiniteSet(Rest(V))
      BY <1>4, <1>5, <3>1
    <3> HIDE DEF s
    <3>3. s(V)[V] = F[Taken(V)] + s(V)[Rest(V)]
      BY <2>2, <3>2 DEF IsSum
    <3>4. s(V)[Rest(V)] = s(Rest(V))[Rest(V)]
      BY <3>1, <3>2, SumUnique
    <3> QED
      BY <2>2, <3>3, <3>4
  <2> QED
    BY <2>1, <2>2
<1>6. IsSum(h, F, U)
  <2>1. ASSUME NEW V \in SUBSET U, V # {} PROVE h[Rest(V)] = s(Rest(V))[Rest(V)]
    <3>1. Rest(V) \in SUBSET U /\ Rest(V) # U
      BY <2>1 DEF Taken
    <3> QED
      BY <1>5, <3>1
  <2> HIDE DEF s
  <2> QED
    BY <2>1 DEF IsSum
<1> QED
  BY <1>3, <1>6

\* A sum with one element of the set set apart, and over the empty set.
LEMMA SumIs ==
    ASSUME NEW F, NEW S, IsFiniteSet(S), \A x \in S : F[x] \in Int
    PROVE  /\ SumFunctionOnSet(F, S) \in Int
           /\ S = {} => SumFunctionOnSet(F, S) = 0
           /\ \A x \in S : SumFunctionOnSet(F, S) = F[x] + SumFunctionOnSet(F, S \ {x})
<1> DEFINE sum(V) == SumFunctionOnSet(F, V)
<1>1. PICK g : IsSum(g, F, S)
  BY SumExists
<1>2. ASSUME NEW V \in SUBSET S PROVE sum(V) = g[V]
  <2>1. IsFiniteSet(V)
    BY FS_Subset
  <2>2. \E h : IsSum(h, F, V) /\ SumFunctionOnSet(F, V) = h[V]
    <3>1. PICK h : IsSum(h, F, V)
      BY <2>1, SumExists
    <3> QED
      BY <3>1 DEF IsSum, Taken, SumFunctionOnSet, FoldFunctionOnSet, MapThenFoldSet
  <2> QED
    BY <1>1, <2>1, <2>2, SumUnique
<1>3. g[{}] = 0 /\ \A V \in SUBSET S : V # {} => g[V] = F[Taken(V)] + g[V \ {Taken(V)}]
  BY <1>1 DEF IsSum
<1>4. \A V \in SUBSET S : V # {} => Taken(V) \in V
  BY DEF Taken
<1> DEFINE T == {V \in SUBSET S : g[V] \notin Int \/ \E x \in V : g[V] # F[x] + g[V \ {x}]}
<1>5. T = {}
  <2>1. SUFFICES ASSUME T # {} PROVE FALSE
    OBVIOUS
  <2>2. \A U \in T : U \in SUBSET S /\ IsFiniteSet(U)
    BY FS_Subset
  <2>3. PICK U \in T : \A V \in T : ~ (V \subseteq U /\ V # U)
    <3> HIDE DEF T
    <3> QED
      BY ONLY <2>1, <2>2, MinimalFinite
  <2>4. \A V \in SUBSET U : V # U => g[V] \in Int /\ \A x \in V : g[V] = F[x] + g[V \ {x}]
    BY <2>3
  <2>5. U # {} => g[U] = F[Taken(U)] + g[U \ {Taken(U)}] /\ Taken(U) \in U
    BY <1>3, <1>4
  <2>6. g[U] \in Int
    <3>1. CASE U = {}
      BY <1>3, <3>1
    <3>2. CASE U # {}
      <4>1. g[U \ {Taken(U)}] \in Int /\ F[Taken(U)] \in Int
        BY <2>4, <2>5, <3>2
      <4> QED
        BY <2>5, <3>2, <4>1
    <3> QED
      BY <3>1, <3>2
  <2>7. ASSUME NEW x \in U PROVE g[U] = F[x] + g[U \ {x}]
    <3>1. CASE x = Taken(U)
      BY <2>5, <3>1
    <3>2. CASE x # Taken(U)
      <4> DEFINE p == Taken(U)
      <4>1. p \in U /\ F[x] \in Int /\ F[p] \in Int
        BY <2>5
      <4>2. g[U \ {p}] = F[x] + g[(U \ {p}) \ {x}]
        BY <2>4, <3>2, <4>1
      <4>3. g[U \ {x}] = F[p] + g[(U \ {x}) \ {p}]
        BY <2>4, <3>2, <4>1
      <4>4. (U \ {x}) \ {p} = (U \ {p}) \ {x} /\ g[(U \ {x}) \ {p}] \in Int
        BY <2>4, <4>1
      <4>5. g[U] = F[p] + g[U \ {p}]
        BY <2>5
      <4>6. PICK n \in Int, i \in Int, j \in Int :
                n = g[(U \ {x}) \ {p}] /\ i = F[x] /\ j = F[p]
        BY <4>1, <4>4
      <4>7. g[U] = j + (i + n) /\ g[U \ {x}] = j + n
        BY <4>2, <4>3, <4>4, <4>5, <4>6
      <4> QED
        BY <4>6, <4>7
    <3> QED
      BY <3>1, <3>2
  <2> QED
    BY <2>3, <2>6, <2>7
<1>6. sum(S) = g[S] /\ \A x \in S : sum(S \ {x}) = g[S \ {x}]
  BY <1>2
<1> HIDE DEF sum
<1>7. g[S] \in Int /\ \A x \in S : g[S] = F[x] + g[S \ {x}]
  BY <1>5
<1>8. sum(S) \in Int /\ (S = {} => sum(S) = 0) /\ \A x \in S : sum(S) = F[x] + sum(S \ {x})
  BY <1>3, <1>6, <1>7
<1> QED
  BY <1>8 DEF sum

\* Functions that agree on a set have the same sum over it.
LEMMA SumSame ==
    ASSUME NEW F, NEW G, NEW S, IsFiniteSet(S), \A x \in S : F[x] = G[x]
    PROVE  SumFunctionOnSet(F, S) = SumFunctionOnSet(G, S)
<1>1. PICK f : IsSum(f, F, S) /\ SumFunctionOnSet(F, S) = f[S]
  <2>1. PICK h : IsSum(h, F, S)
    BY SumExists
  <2> QED
    BY <2>1, ZenonT(40) DEF IsSum, Taken, SumFunctionOnSet, FoldFunctionOnSet, MapThenFoldSet
<1>2. PICK g : IsSum(g, G, S) /\ SumFunctionOnSet(G, S) = g[S]
  <2>1. PICK h : IsSum(h, G, S)
    BY SumExists
  <2> QED
    BY <2>1, ZenonT(40) DEF IsSum, Taken, SumFunctionOnSet, FoldFunctionOnSet, MapThenFoldSet
<1> QED
  BY <1>1, <1>2, SumUnique

\* A sum of natural numbers is one.
LEMMA SumNat ==
    ASSUME NEW F, NEW S, IsFiniteSet(S), \A x \in S : F[x] \in Nat
    PROVE  SumFunctionOnSet(F, S) \in Nat
<1> DEFINE sum(V) == SumFunctionOnSet(F, V)
           T == {V \in SUBSET S : sum(V) \notin Nat}
<1>1. SUFFICES ASSUME T # {} PROVE FALSE
  OBVIOUS
<1>2. \A U \in T : U \in SUBSET S /\ IsFiniteSet(U)
  BY FS_Subset
<1>3. PICK U \in T : \A V \in T : ~ (V \subseteq U /\ V # U)
  <2> HIDE DEF T
  <2> QED
    BY ONLY <1>1, <1>2, MinimalFinite
<1>4. U \in SUBSET S /\ IsFiniteSet(U) /\ \A x \in U : F[x] \in Nat
  BY <1>2
<1>5. (U = {} => sum(U) = 0) /\ \A x \in U : sum(U) = F[x] + sum(U \ {x})
  BY <1>4, SumIs
<1> HIDE DEF sum
<1>6. sum(U) \notin Nat /\ \A x \in U : U \ {x} \notin T /\ U \ {x} \in SUBSET S
  BY <1>3, <1>4
<1>7. ASSUME NEW x \in U PROVE FALSE
  <2>1. sum(U \ {x}) \in Nat
    BY <1>6, <1>7
  <2>2. sum(U) = F[x] + sum(U \ {x}) /\ F[x] \in Nat
    BY <1>4, <1>5
  <2> QED
    BY <1>6, <2>1, <2>2
<1> QED
  BY <1>5, <1>6, <1>7

\* Two sums that differ in one element of their sets at most.
LEMMA SumChange ==
    ASSUME NEW F, NEW S, IsFiniteSet(S), \A y \in S : F[y] \in Int,
           NEW G, NEW R, IsFiniteSet(R), \A y \in R : G[y] \in Int,
           NEW x, R \ {x} = S \ {x}, \A y \in S \ {x} : F[y] = G[y]
    PROVE  SumFunctionOnSet(G, R) = SumFunctionOnSet(F, S)
               + (IF x \in R THEN G[x] ELSE 0) - (IF x \in S THEN F[x] ELSE 0)
<1> DEFINE rest == SumFunctionOnSet(F, S \ {x})
<1>1. rest = SumFunctionOnSet(G, R \ {x}) /\ rest \in Int
  <2>1. IsFiniteSet(S \ {x}) /\ \A y \in S \ {x} : F[y] \in Int
    BY FS_Subset
  <2>2. rest \in Int
    BY <2>1, SumIs
  <2>3. SumFunctionOnSet(F, S \ {x}) = SumFunctionOnSet(G, S \ {x})
    BY <2>1, SumSame
  <2> QED
    BY <2>2, <2>3
<1>2. SumFunctionOnSet(F, S) = (IF x \in S THEN F[x] ELSE 0) + rest
  <2>1. CASE x \in S
    <3>1. SumFunctionOnSet(F, S) = F[x] + SumFunctionOnSet(F, S \ {x})
      BY <2>1, SumIs
    <3> QED
      BY <2>1, <3>1
  <2>2. CASE x \notin S
    <3>1. S \ {x} = S
      BY <2>2
    <3> HIDE DEF rest
    <3>2. rest = SumFunctionOnSet(F, S)
      BY <3>1 DEF rest
    <3> QED
      BY <1>1, <2>2, <3>2
  <2> QED
    BY <2>1, <2>2
<1>3. SumFunctionOnSet(G, R) = (IF x \in R THEN G[x] ELSE 0) + rest
  <2>1. CASE x \in R
    <3>1. SumFunctionOnSet(G, R) = G[x] + SumFunctionOnSet(G, R \ {x})
      BY <2>1, SumIs
    <3> QED
      BY <1>1, <2>1, <3>1
  <2>2. CASE x \notin R
    <3>1. R \ {x} = R
      BY <2>2
    <3> HIDE DEF rest
    <3>2. rest = SumFunctionOnSet(G, R)
      BY <1>1, <3>1
    <3> QED
      BY <1>1, <2>2, <3>2
  <2> QED
    BY <2>1, <2>2
<1> HIDE DEF rest
<1>4. PICK a \in Int : a = IF x \in S THEN F[x] ELSE 0
  OBVIOUS
<1>5. PICK b \in Int : b = IF x \in R THEN G[x] ELSE 0
  OBVIOUS
<1>6. SumFunctionOnSet(F, S) = a + rest /\ SumFunctionOnSet(G, R) = b + rest
  BY <1>2, <1>3, <1>4, <1>5
<1>7. b + rest = (a + rest) + b - a
  BY <1>1
<1> QED
  BY <1>4, <1>5, <1>6, <1>7

\* A sum of zeros.
LEMMA SumZero ==
    ASSUME NEW F, NEW S, IsFiniteSet(S), \A x \in S : F[x] = 0
    PROVE  SumFunctionOnSet(F, S) = 0
<1> DEFINE sum(V) == SumFunctionOnSet(F, V)
           T == {V \in SUBSET S : sum(V) # 0}
<1>1. SUFFICES ASSUME T # {} PROVE FALSE
  OBVIOUS
<1>2. \A U \in T : U \in SUBSET S /\ IsFiniteSet(U)
  BY FS_Subset
<1>3. PICK U \in T : \A V \in T : ~ (V \subseteq U /\ V # U)
  <2> HIDE DEF T
  <2> QED
    BY ONLY <1>1, <1>2, MinimalFinite
<1>4. U \in SUBSET S /\ IsFiniteSet(U) /\ \A x \in U : F[x] \in Int
  BY <1>2
<1>5. (U = {} => sum(U) = 0) /\ \A x \in U : sum(U) = F[x] + sum(U \ {x})
  BY <1>4, SumIs
<1> HIDE DEF sum
<1>6. sum(U) # 0 /\ \A x \in U : U \ {x} \notin T /\ U \ {x} \in SUBSET S
  BY <1>3, <1>4
<1>7. ASSUME NEW x \in U PROVE FALSE
  <2>1. sum(U \ {x}) = 0
    BY <1>6, <1>7
  <2> QED
    BY <1>4, <1>5, <1>6, <2>1
<1> QED
  BY <1>5, <1>6, <1>7

\* A sum can be taken part by part: c[x] is the part of x.
Fibre(S, c, k) == {x \in S : c[x] = k}
ByPart(F, S, c, K) == [k \in K |-> SumFunctionOnSet(F, Fibre(S, c, k))]
LEMMA SumFibres ==
    ASSUME NEW F, NEW S, IsFiniteSet(S), \A x \in S : F[x] \in Int,
           NEW K, IsFiniteSet(K), NEW c, \A x \in S : c[x] \in K
    PROVE  /\ \A k \in K : ByPart(F, S, c, K)[k] \in Int
           /\ SumFunctionOnSet(ByPart(F, S, c, K), K) = SumFunctionOnSet(F, S)
<1> DEFINE sum(V) == SumFunctionOnSet(F, V)
           parts(V) == SumFunctionOnSet(ByPart(F, V, c, K), K)
           T == {V \in SUBSET S : parts(V) # sum(V)}
<1>1. ASSUME NEW V \in SUBSET S, NEW k \in K
      PROVE  /\ IsFiniteSet(V) /\ IsFiniteSet(Fibre(V, c, k)) /\ Fibre(V, c, k) \in SUBSET S
             /\ ByPart(F, V, c, K)[k] = sum(Fibre(V, c, k))
             /\ ByPart(F, V, c, K)[k] \in Int
  <2>1. Fibre(V, c, k) \in SUBSET V
    BY DEF Fibre
  <2>2. IsFiniteSet(V) /\ IsFiniteSet(Fibre(V, c, k))
    BY <2>1, FS_Subset
  <2>3. \A x \in Fibre(V, c, k) : F[x] \in Int
    BY <2>1
  <2>4. sum(Fibre(V, c, k)) \in Int
    BY <2>2, <2>3, SumIs
  <2>5. ByPart(F, V, c, K)[k] = sum(Fibre(V, c, k))
    BY DEF ByPart
  <2> HIDE DEF sum
  <2> QED
    BY <2>1, <2>2, <2>4, <2>5
<1>2. SUFFICES ASSUME T # {} PROVE FALSE
  <2>1. S \in SUBSET S
    OBVIOUS
  <2> HIDE DEF sum, parts
  <2>2. T = {} => parts(S) = sum(S)
    BY <2>1
  <2> QED
    BY <1>1, <2>1, <2>2 DEF sum, parts
<1>3. \A U \in T : U \in SUBSET S /\ IsFiniteSet(U)
  BY FS_Subset
<1>4. PICK U \in T : \A V \in T : ~ (V \subseteq U /\ V # U)
  <2> HIDE DEF T
  <2> QED
    BY ONLY <1>2, <1>3, MinimalFinite
<1>5. U \in SUBSET S /\ IsFiniteSet(U) /\ parts(U) # sum(U)
  BY <1>3
<1>6. U # {}
  <2>1. SUFFICES ASSUME U = {} PROVE FALSE
    OBVIOUS
  <2>2. \A k \in K : Fibre(U, c, k) = {}
    BY <2>1 DEF Fibre
  <2>3. sum({}) = 0
    BY FS_EmptySet, SumIs
  <2>4. \A k \in K : ByPart(F, U, c, K)[k] = 0
    BY <1>1, <1>5, <2>2, <2>3
  <2>5. parts(U) = 0
    BY <2>4, SumZero
  <2> HIDE DEF sum, parts
  <2> QED
    BY <1>5, <2>1, <2>3, <2>5
<1>7. PICK x : x \in U
  BY <1>6
<1> DEFINE W == U \ {x}
<1>8. W \in SUBSET S /\ IsFiniteSet(W) /\ parts(W) = sum(W)
  <2>1. W \in SUBSET S /\ W \subseteq U /\ W # U
    BY <1>5, <1>7
  <2>2. IsFiniteSet(W)
    BY <1>5, FS_Subset
  <2> HIDE DEF sum, parts
  <2> QED
    BY <1>4, <2>1, <2>2
<1>9. sum(U) = F[x] + sum(W) /\ F[x] \in Int /\ sum(W) \in Int
  <2>1. \A y \in U : F[y] \in Int
    BY <1>5
  <2>2. \A y \in W : F[y] \in Int
    BY <2>1
  <2> QED
    BY <1>5, <1>7, <1>8, <2>1, <2>2, SumIs
<1> DEFINE G == ByPart(F, U, c, K)
           H == ByPart(F, W, c, K)
           p == c[x]
<1>10. p \in K
  BY <1>5, <1>7
<1>11. G[p] = F[x] + H[p]
  <2>1. x \in Fibre(U, c, p) /\ Fibre(U, c, p) \ {x} = Fibre(W, c, p)
    BY <1>7 DEF Fibre
  <2>2. \A y \in Fibre(U, c, p) : F[y] \in Int
    BY <1>1, <1>5, <1>10
  <2>3. sum(Fibre(U, c, p)) = F[x] + sum(Fibre(U, c, p) \ {x})
    <3>1. PICK Z : Z = Fibre(U, c, p)
      OBVIOUS
    <3>2. IsFiniteSet(Z) /\ (\A y \in Z : F[y] \in Int) /\ x \in Z
      BY <1>1, <1>5, <1>10, <2>1, <2>2, <3>1
    <3>3. SumFunctionOnSet(F, Z) = F[x] + SumFunctionOnSet(F, Z \ {x})
      BY <3>2, SumIs
    <3> QED
      BY <3>1, <3>3
  <2> HIDE DEF sum, W
  <2> QED
    BY <1>1, <1>5, <1>8, <1>10, <2>1, <2>3
<1>12. \A k \in K \ {p} : H[k] = G[k]
  <2>1. \A k \in K \ {p} : Fibre(W, c, k) = Fibre(U, c, k)
    BY DEF Fibre
  <2> HIDE DEF sum, W
  <2> QED
    BY <1>1, <1>5, <1>8, <2>1
<1>13. \A k \in K : G[k] \in Int /\ H[k] \in Int
  BY <1>1, <1>5, <1>8
<1>14. parts(U) = parts(W) + G[p] - H[p]
  <2> HIDE DEF G, H, p
  <2>1. SumFunctionOnSet(G, K) = SumFunctionOnSet(H, K) + (IF p \in K THEN G[p] ELSE 0)
                                     - (IF p \in K THEN H[p] ELSE 0)
    BY <1>12, <1>13, SumChange
  <2>2. SumFunctionOnSet(G, K) = SumFunctionOnSet(H, K) + G[p] - H[p]
    BY <1>10, <2>1
  <2> QED
    BY <2>2 DEF G, H
<1>15. H[p] \in Int
  BY <1>10, <1>13
<1> HIDE DEF sum, parts, G, H, p
<1> QED
  BY <1>5, <1>8, <1>9, <1>11, <1>14, <1>15
-------------------------------------------------------------------------------
(* The elements of a sequence at some indices                                  *)

\* A sequence of anything.
IsSequence(s) == \E S : s \in Seq(S)

\* A sequence has a length, and its indices are those up to it.
LEMMA LenIsNat ==
    ASSUME NEW s, IsSequence(s)
    PROVE  Len(s) \in Nat /\ DOMAIN s = 1..Len(s)
<1>1. PICK S : s \in Seq(S)
  BY DEF IsSequence
<1> QED
  BY <1>1

\* The numbers of a finite set in their order: each is the n-th for one n.
LEMMA NthIs ==
    ASSUME NEW S \in SUBSET Int, IsFiniteSet(S)
    PROVE  /\ Cardinality(S) \in Nat
           /\ \A n \in 1..Cardinality(S) : Nth(S, n) \in S
           /\ \A m, n \in 1..Cardinality(S) : m < n => Nth(S, m) < Nth(S, n)
           /\ \A i \in S : \E n \in 1..Cardinality(S) : Nth(S, n) = i
           /\ \A i \in S : Nth(S, Cardinality({j \in S : j <= i})) = i
<1> DEFINE upto(i) == {j \in S : j <= i}
           rank(i) == Cardinality(upto(i))
           size == Cardinality(S)
           f == [i \in S |-> rank(i)]
<1>1. size \in Nat /\ IsFiniteSet(1..size) /\ Cardinality(1..size) = size
  BY FS_CardinalityType, FS_Interval
<1>2. ASSUME NEW i \in S PROVE rank(i) \in 1..size
  <2>1. upto(i) \in SUBSET S /\ i \in upto(i)
    OBVIOUS
  <2>2. IsFiniteSet(upto(i)) /\ rank(i) <= size
    BY <2>1, FS_Subset
  <2>3. rank(i) \in Nat /\ rank(i) # 0
    BY <2>1, <2>2, FS_CardinalityType, FS_EmptySet
  <2> QED
    BY <2>2, <2>3, <1>1
<1>3. ASSUME NEW i \in S, NEW k \in S, i < k PROVE rank(i) < rank(k)
  <2>0. i \in Int /\ k \in Int /\ (\A j \in S : j \in Int)
    OBVIOUS
  <2>1. upto(i) \in SUBSET upto(k) /\ k \in upto(k) /\ k \notin upto(i) /\ upto(k) \in SUBSET S
    <3>1. ASSUME NEW j \in S, j <= i PROVE j <= k
      BY <1>3, <2>0, <3>1
    <3>2. k <= k /\ ~ (k <= i)
      BY <1>3, <2>0
    <3> QED
      BY <3>1, <3>2
  <2>2. IsFiniteSet(upto(k))
    BY <2>1, FS_Subset
  <2>3. rank(i) <= rank(k) /\ (rank(k) = rank(i) => upto(k) = upto(i))
    BY <2>1, <2>2, FS_Subset
  <2> HIDE DEF upto
  <2> QED
    BY <2>1, <2>3, <1>2
<1> HIDE DEF rank
<1>4. f \in Injection(S, 1..size)
  <2>1. f \in [S -> 1..size]
    BY <1>2
  <2>2. \A i, k \in S : f[i] = f[k] => i = k
    <3> TAKE i, k \in S
    <3>1. i < k \/ k < i \/ i = k
      OBVIOUS
    <3> QED
      BY <3>1, <1>2, <1>3
  <2> HIDE DEF f
  <2> QED
    BY <2>1, <2>2 DEF Injection, IsInjective
<1>5. f \in Surjection(S, 1..size)
  BY <1>1, <1>4, FS_Injection
<1>6. ASSUME NEW n \in 1..size PROVE \E i \in S : rank(i) = n
  BY <1>5 DEF Surjection
<1>7. ASSUME NEW n \in 1..size PROVE Nth(S, n) \in S /\ rank(Nth(S, n)) = n
  BY <1>6 DEF Nth, rank
<1>8. ASSUME NEW i \in S PROVE Nth(S, rank(i)) = i /\ \E n \in 1..size : Nth(S, n) = i
  <2>1. rank(i) \in 1..size /\ rank(Nth(S, rank(i))) = rank(i) /\ Nth(S, rank(i)) \in S
    BY <1>2, <1>7
  <2>2. Nth(S, rank(i)) = i
    <3> DEFINE k == Nth(S, rank(i))
    <3>1. k \in S /\ rank(k) = rank(i)
      BY <2>1
    <3> HIDE DEF k
    <3>2. k < i \/ i < k \/ k = i
      BY <3>1
    <3>3. ~ (k < i) /\ ~ (i < k)
      BY <3>1, <1>2, <1>3
    <3> QED
      BY <3>2, <3>3 DEF k
  <2> QED
    BY <2>1, <2>2
<1>9. ASSUME NEW m \in 1..size, NEW n \in 1..size, m < n PROVE Nth(S, m) < Nth(S, n)
  <2> DEFINE i == Nth(S, m)
             k == Nth(S, n)
  <2>1. i \in S /\ k \in S /\ rank(i) = m /\ rank(k) = n
    BY <1>7
  <2> HIDE DEF i, k
  <2>2. ~ (k < i)
    BY <2>1, <1>1, <1>3, <1>9
  <2>3. k # i
    BY <2>1, <1>1, <1>9
  <2>4. i < k
    BY <2>1, <2>2, <2>3
  <2> QED
    BY <2>4 DEF i, k
<1>10. \A i \in S : Nth(S, Cardinality({j \in S : j <= i})) = i
  BY <1>8 DEF rank
<1> QED
  BY <1>1, <1>7, <1>8, <1>9, <1>10

\* Where T is in front of the rest of S, its numbers are the first ones of S.
LEMMA NthPrefix ==
    ASSUME NEW S \in SUBSET Int, IsFiniteSet(S), NEW T \in SUBSET S,
           \A i \in T : \A j \in S \ T : i < j
    PROVE  /\ IsFiniteSet(T) /\ Cardinality(T) \in Nat /\ Cardinality(S) \in Nat
           /\ Cardinality(T) <= Cardinality(S)
           /\ \A n \in 1..Cardinality(T) : Nth(S, n) = Nth(T, n) /\ Nth(T, n) \in T
           /\ \A n \in 1..Cardinality(S) : n > Cardinality(T) => Nth(S, n) \in S \ T
<1>1. IsFiniteSet(T) /\ Cardinality(T) <= Cardinality(S) /\ Cardinality(T) \in Nat /\ Cardinality(S) \in Nat
  BY FS_Subset, FS_CardinalityType
<1>2. ASSUME NEW n \in 1..Cardinality(T) PROVE Nth(S, n) = Nth(T, n) /\ Nth(T, n) \in T
  <2>1. PICK i \in T : i = Nth(T, n)
    BY <1>1, NthIs
  <2>2. {j \in S : j <= i} = {j \in T : j <= i}
    <3>1. \A j \in S : j <= i => j \in T
      <4> SUFFICES ASSUME NEW j \in S \ T PROVE ~ (j <= i)
        OBVIOUS
      <4>1. i < j /\ i \in Int /\ j \in Int
        OBVIOUS
      <4> QED
        BY <4>1
    <3> QED
      BY <3>1
  <2>3. Nth(S, Cardinality({j \in S : j <= i})) = i
    BY NthIs
  <2>4. PICK m \in 1..Cardinality(T) : m = Cardinality({j \in T : j <= i}) /\ Nth(T, m) = i
    <3>1. i \in {j \in T : j <= i} /\ {j \in T : j <= i} \in SUBSET T
      OBVIOUS
    <3>2. /\ Cardinality({j \in T : j <= i}) <= Cardinality(T)
          /\ Cardinality({j \in T : j <= i}) \in Nat /\ Cardinality({j \in T : j <= i}) # 0
      BY <1>1, <3>1, FS_Subset, FS_CardinalityType, FS_EmptySet
    <3>3. Nth(T, Cardinality({j \in T : j <= i})) = i
      BY <1>1, NthIs
    <3> QED
      BY <1>1, <3>2, <3>3
  <2>5. m = n
    <3>1. ~ (m < n) /\ ~ (n < m)
      BY <1>1, <2>1, <2>4, NthIs
    <3> QED
      BY <1>1, <3>1
  <2> QED
    BY <2>1, <2>2, <2>3, <2>4, <2>5
<1>3. ASSUME NEW n \in 1..Cardinality(S), n > Cardinality(T) PROVE Nth(S, n) \in S \ T
  <2>1. Nth(S, n) \in S /\ \A m \in 1..Cardinality(S) : m < n => Nth(S, m) < Nth(S, n)
    BY NthIs
  <2>2. SUFFICES ASSUME Nth(S, n) \in T PROVE FALSE
    BY <2>1
  <2>3. PICK m \in 1..Cardinality(T) : Nth(T, m) = Nth(S, n)
    BY <1>1, <2>2, NthIs
  <2>4. m \in 1..Cardinality(S) /\ m < n /\ Nth(S, m) = Nth(S, n)
    BY <1>1, <1>2, <1>3, <2>3
  <2>5. Nth(S, m) < Nth(S, n) /\ Nth(S, n) \in Int
    BY <2>1, <2>4
  <2> QED
    BY <2>4, <2>5
<1> QED
  BY <1>1, <1>2, <1>3

\* The n-th number of an interval.
LEMMA NthInterval ==
    ASSUME NEW a \in Int, NEW b \in Int, a <= b + 1
    PROVE  /\ IsFiniteSet(a..b) /\ Cardinality(a..b) = b - a + 1
           /\ \A n \in 1..(b - a + 1) : Nth(a..b, n) = a + n - 1
<1>1. IsFiniteSet(a..b) /\ Cardinality(a..b) = b - a + 1
  BY FS_Interval
<1>2. ASSUME NEW n \in 1..(b - a + 1) PROVE Nth(a..b, n) = a + n - 1
  <2>1. PICK i \in a..b : i = a + n - 1
    OBVIOUS
  <2>2. {j \in a..b : j <= i} = a..i
    OBVIOUS
  <2>3. Cardinality(a..i) = n
    <3>1. Cardinality(a..i) = i - a + 1
      BY FS_Interval
    <3> QED
      BY <2>1, <3>1
  <2>4. a..b \in SUBSET Int
    OBVIOUS
  <2> QED
    BY <1>1, <2>1, <2>2, <2>3, <2>4, NthIs
<1> QED
  BY <1>1, <1>2

\* The selected elements are those at the indices.
LEMMA SelectedIs ==
    ASSUME NEW s, IsSequence(s), NEW S \in SUBSET (1..Len(s))
    PROVE  /\ IsSequence(Selected(s, S)) /\ Cardinality(S) \in Nat
           /\ Len(Selected(s, S)) = Cardinality(S) /\ DOMAIN Selected(s, S) = 1..Cardinality(S)
           /\ \A n \in 1..Cardinality(S) : Nth(S, n) \in S /\ Selected(s, S)[n] = s[Nth(S, n)]
           /\ \A i \in S : \E n \in 1..Cardinality(S) : Nth(S, n) = i
           /\ \A m, n \in 1..Cardinality(S) : m < n => Nth(S, m) < Nth(S, n)
<1>1. PICK T : s \in Seq(T)
  BY DEF IsSequence
<1>2. Len(s) \in Nat
  BY <1>1
<1>3. S \in SUBSET Int /\ IsFiniteSet(S)
  <2>1. IsFiniteSet(1..Len(s)) /\ 1..Len(s) \subseteq Int
    BY <1>2, FS_Interval
  <2> QED
    BY <2>1, FS_Subset
<1>4. /\ Cardinality(S) \in Nat
      /\ \A n \in 1..Cardinality(S) : Nth(S, n) \in S
      /\ \A m, n \in 1..Cardinality(S) : m < n => Nth(S, m) < Nth(S, n)
      /\ \A i \in S : \E n \in 1..Cardinality(S) : Nth(S, n) = i
  BY <1>3, NthIs
<1>5. Selected(s, S) \in [1..Cardinality(S) -> T]
  <2>1. ASSUME NEW n \in 1..Cardinality(S) PROVE s[Nth(S, n)] \in T
    <3>1. Nth(S, n) \in 1..Len(s)
      BY <1>4
    <3> QED
      BY <1>1, <3>1
  <2> QED
    BY <2>1 DEF Selected
<1>6. Selected(s, S) \in Seq(T)
  BY <1>4, <1>5, SeqDef
<1>7. Len(Selected(s, S)) = Cardinality(S)
  BY <1>4, <1>5, <1>6, LenProperties
<1> QED
  BY <1>4, <1>5, <1>6, <1>7 DEF Selected, IsSequence

\* The numbers of a finite set, each once, in their order.
LEMMA AscendingIs ==
    ASSUME NEW S \in SUBSET Int, IsFiniteSet(S)
    PROVE  /\ Cardinality(S) \in Nat /\ Ascending(S) \in Seq(S)
           /\ Len(Ascending(S)) = Cardinality(S) /\ DOMAIN Ascending(S) = 1..Cardinality(S)
           /\ \A m, n \in 1..Cardinality(S) : m < n => Ascending(S)[m] < Ascending(S)[n]
           /\ \A i \in S : \E n \in 1..Cardinality(S) : Ascending(S)[n] = i
<1>1. /\ Cardinality(S) \in Nat
      /\ \A n \in 1..Cardinality(S) : Nth(S, n) \in S
      /\ \A m, n \in 1..Cardinality(S) : m < n => Nth(S, m) < Nth(S, n)
      /\ \A i \in S : \E n \in 1..Cardinality(S) : Nth(S, n) = i
  BY NthIs
<1>2. Ascending(S) \in [1..Cardinality(S) -> S]
  BY <1>1 DEF Ascending
<1>3. Ascending(S) \in Seq(S)
  BY <1>1, <1>2, SeqDef
<1>4. Len(Ascending(S)) = Cardinality(S)
  BY <1>1, <1>2, <1>3, LenProperties
<1> QED BY <1>1, <1>2, <1>3, <1>4 DEF Ascending
===============================================================================
