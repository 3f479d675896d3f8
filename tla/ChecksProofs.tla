---------------------------- MODULE ChecksProofs ----------------------------
(***************************************************************************)
(* What holds of the registry, the score and the outputs for any evidence. *)
(*                                                                         *)
(* The score and a console-call count are sums over sets of any size, and  *)
(* a fact about such a sum is a fact about a recursion.  It is proved from *)
(* the least set that refutes it: among the subsets of a finite set, those *)
(* that refute it would have a minimal one, and that one is empty or takes *)
(* its refutation from a smaller one.                                      *)
(***************************************************************************)
EXTENDS Checks, FiniteSetTheorems, WellFoundedInduction, TLAPS

-----------------------------------------------------------------------------
(***************************************************************************)
(* Sums over finite sets.                                                  *)
(***************************************************************************)
\* Every nonempty set of subsets of a finite set has a minimal one: what a proof
\* by induction on finite sets rests on.
LEMMA MinimalSubset ==
    ASSUME NEW S, IsFiniteSet(S), NEW B, B \subseteq SUBSET S, B # {}
    PROVE  \E T \in B : \A U \in B : U \subseteq T => U = T
<1>1. IsWellFoundedOn(StrictSubsetOrdering(S), SUBSET S)
  BY FS_StrictSubsetOrderingWellFounded, FS_FiniteSubsetsOfFinite
<1>2. PICK T \in B : \A U \in B : <<U, T>> \notin StrictSubsetOrdering(S)
  BY <1>1, WFMin
<1> QED  BY <1>2 DEF StrictSubsetOrdering

\* The recursion that the library sums with.
AnyOf(s) == CHOOSE x \in s : TRUE
IsSum(w, S, g) ==
    g = [s \in SUBSET S |-> IF s = {} THEN 0 ELSE w[AnyOf(s)] + g[s \ {AnyOf(s)}]]
Total(w, S) == (CHOOSE g : IsSum(w, S, g))[S]

LEMMA AnyOfIn == ASSUME NEW s, s # {} PROVE AnyOf(s) \in s
BY DEF AnyOf

LEMMA SumUnfolds ==
    ASSUME NEW w, NEW S, NEW g, IsSum(w, S, g), NEW s \in SUBSET S
    PROVE  /\ s = {} => g[s] = 0
           /\ s # {} => g[s] = w[AnyOf(s)] + g[s \ {AnyOf(s)}]
BY DEF IsSum

LEMMA SumsAgree ==
    ASSUME NEW w, NEW S, IsFiniteSet(S), NEW T, NEW g, NEW h, IsSum(w, S, g), IsSum(w, T, h),
           NEW u \in SUBSET (S \cap T)
    PROVE  g[u] = h[u]
<1> DEFINE B == {v \in SUBSET S : v \subseteq T /\ g[v] # h[v]}
<1>1. B = {}
  <2> SUFFICES ASSUME B # {} PROVE FALSE  OBVIOUS
  <2>0. B \subseteq SUBSET S
    OBVIOUS
  <2> HIDE DEF B
  <2>1. PICK v \in B : \A y \in B : y \subseteq v => y = v
    BY <2>0, MinimalSubset
  <2> USE DEF B
  <2>2. v \in SUBSET S /\ v \in SUBSET T /\ g[v] # h[v]
    OBVIOUS
  <2>3. v # {}
    BY <2>2, SumUnfolds
  <2> DEFINE y == v \ {AnyOf(v)}
  <2>4. y \in SUBSET S /\ y \subseteq T /\ y \subseteq v /\ y # v
    BY <2>2, <2>3, AnyOfIn
  <2>5. g[y] = h[y]
    BY <2>1, <2>4
  <2>6. g[v] = w[AnyOf(v)] + g[y] /\ h[v] = w[AnyOf(v)] + h[y]
    BY <2>2, <2>3, SumUnfolds
  <2> QED  BY <2>2, <2>5, <2>6
<1> QED  BY <1>1

LEMMA SumExists ==
    ASSUME NEW w, NEW S, IsFiniteSet(S)
    PROVE  \E g : IsSum(w, S, g)
<1> DEFINE B == {T \in SUBSET S : ~\E g : IsSum(w, T, g)}
<1>1. B = {}
  <2> SUFFICES ASSUME B # {} PROVE FALSE  OBVIOUS
  <2>0. B \subseteq SUBSET S
    OBVIOUS
  <2> HIDE DEF B
  <2>1. PICK T \in B : \A U \in B : U \subseteq T => U = T
    BY <2>0, MinimalSubset
  <2> USE DEF B
  <2> DEFINE G(u) == CHOOSE g : IsSum(w, u, g)
  <2>2. ASSUME NEW u \in SUBSET T, u # T PROVE IsSum(w, u, G(u))
    BY <2>1, <2>2
  <2>3. ASSUME NEW u \in SUBSET T, u # T, NEW v \in SUBSET u, v # T PROVE G(u)[v] = G(v)[v]
    <3>1. IsFiniteSet(u)
      BY FS_Subset
    <3>2. IsSum(w, u, G(u)) /\ IsSum(w, v, G(v))
      BY <2>2, <2>3
    <3> HIDE DEF G
    <3> QED  BY <3>1, <3>2, SumsAgree
  <2> HIDE DEF G
  <2> DEFINE Rest(s) == s \ {AnyOf(s)}
             step(s) == IF s = {} THEN 0 ELSE w[AnyOf(s)] + G(Rest(s))[Rest(s)]
             f == [s \in SUBSET T |-> step(s)]
  <2>a. ASSUME NEW u \in SUBSET T, u # T PROVE f[u] = G(u)[u]
    <3> DEFINE g == G(u)
    <3>1. IsSum(w, u, g) /\ u \in SUBSET u
      BY <2>a, <2>2
    <3> HIDE DEF g
    <3>2. CASE u = {}
      BY <3>1, <3>2, SumUnfolds DEF g
    <3>3. CASE u # {}
      <4>1. g[u] = w[AnyOf(u)] + g[Rest(u)]
        BY <3>1, <3>3, SumUnfolds
      <4>2. Rest(u) \in SUBSET u /\ Rest(u) # T
        BY <2>a, <3>3, AnyOfIn
      <4>3. g[Rest(u)] = G(Rest(u))[Rest(u)]
        BY <4>2, <2>a, <2>3 DEF g
      <4>4. f[u] = w[AnyOf(u)] + G(Rest(u))[Rest(u)]
        BY <3>3
      <4> QED  BY <4>1, <4>3, <4>4 DEF g
    <3> QED  BY <3>2, <3>3
  <2>4. ASSUME NEW s \in SUBSET T, s # {}
        PROVE  f[s] = w[AnyOf(s)] + f[Rest(s)]
    <3>1. Rest(s) \in SUBSET T /\ Rest(s) # T
      BY <2>4, AnyOfIn
    <3>2. f[Rest(s)] = G(Rest(s))[Rest(s)]
      BY <3>1, <2>a
    <3>3. f[s] = w[AnyOf(s)] + G(Rest(s))[Rest(s)]
      BY <2>4
    <3> QED  BY <3>2, <3>3
  <2>5. f[{}] = 0
    OBVIOUS
  <2>6. f = [s \in SUBSET T |-> f[s]]
    OBVIOUS
  <2> HIDE DEF f
  <2>7. IsSum(w, T, f)
    BY <2>4, <2>5, <2>6 DEF IsSum
  <2> QED  BY <2>1, <2>7
<1> QED  BY <1>1

LEMMA TotalOfSum ==
    ASSUME NEW w, NEW S, IsFiniteSet(S), NEW T \in SUBSET S, NEW g, IsSum(w, S, g)
    PROVE  g[T] = Total(w, T)
<1> DEFINE h == CHOOSE h : IsSum(w, T, h)
<1>1. IsFiniteSet(T)
  BY FS_Subset
<1>2. IsSum(w, T, h)
  BY <1>1, SumExists
<1> HIDE DEF h
<1>3. g[T] = h[T]
  BY <1>2, SumsAgree
<1> QED  BY <1>3 DEF Total, h

LEMMA TotalUnfolds ==
    ASSUME NEW w, NEW S, IsFiniteSet(S)
    PROVE  /\ Total(w, {}) = 0
           /\ S # {} => Total(w, S) = w[AnyOf(S)] + Total(w, S \ {AnyOf(S)})
<1>1. PICK g : IsSum(w, S, g)
  BY SumExists
<1>2. \A T \in SUBSET S : g[T] = Total(w, T)
  BY <1>1, TotalOfSum
<1>3. {} \in SUBSET S /\ S \in SUBSET S /\ S \ {AnyOf(S)} \in SUBSET S
  OBVIOUS
<1>4. g[{}] = 0
  BY <1>1, <1>3, SumUnfolds
<1>5. S # {} => g[S] = w[AnyOf(S)] + g[S \ {AnyOf(S)}]
  BY <1>1, <1>3, SumUnfolds
<1> QED  BY <1>2, <1>3, <1>4, <1>5

LEMMA TotalType ==
    ASSUME NEW D, NEW w \in [D -> Nat], NEW S \in SUBSET D, IsFiniteSet(S)
    PROVE  Total(w, S) \in Nat
<1> DEFINE B == {T \in SUBSET S : Total(w, T) \notin Nat}
<1>1. ASSUME B # {} PROVE FALSE
  <2>1. B \subseteq SUBSET S
    OBVIOUS
  <2> HIDE DEF B
  <2>2. PICK T \in B : \A U \in B : U \subseteq T => U = T
    BY <1>1, <2>1, MinimalSubset
  <2>3. IsFiniteSet(T) /\ T \in SUBSET S /\ Total(w, T) \notin Nat
    BY FS_Subset DEF B
  <2>4. T # {}
    <3>1. Total(w, {}) = 0
      BY TotalUnfolds
    <3> QED  BY <2>3, <3>1
  <2>5. Total(w, T) = w[AnyOf(T)] + Total(w, T \ {AnyOf(T)})
    BY <2>3, <2>4, TotalUnfolds
  <2>6. Total(w, T \ {AnyOf(T)}) \in Nat /\ w[AnyOf(T)] \in Nat
    BY <2>2, <2>3, <2>4, AnyOfIn DEF B
  <2> QED  BY <2>3, <2>5, <2>6
<1> QED  BY <1>1

\* Whichever element goes first, the total is the same.
LEMMA TotalTakes ==
    ASSUME NEW D, NEW w \in [D -> Nat], NEW S \in SUBSET D, IsFiniteSet(S), NEW x \in S
    PROVE  Total(w, S) = w[x] + Total(w, S \ {x})
<1> DEFINE B == {T \in SUBSET S : \E z \in T : Total(w, T) # w[z] + Total(w, T \ {z})}
<1>1. ASSUME B # {} PROVE FALSE
  <2>1. B \subseteq SUBSET S
    OBVIOUS
  <2> HIDE DEF B
  <2>2. PICK T \in B : \A U \in B : U \subseteq T => U = T
    BY <1>1, <2>1, MinimalSubset
  <2>3. PICK z \in T : Total(w, T) # w[z] + Total(w, T \ {z})
    BY DEF B
  <2>4. IsFiniteSet(T) /\ T \in SUBSET S /\ T # {}
    BY <2>1, <2>3, FS_Subset
  <2> DEFINE y == AnyOf(T)
  <2>5. y \in T /\ Total(w, T) = w[y] + Total(w, T \ {y})
    BY <2>4, TotalUnfolds, AnyOfIn
  <2>6. y # z
    BY <2>3, <2>5
  <2> HIDE DEF y
  <2>7. ASSUME NEW a \in T, NEW b \in T, a # b
        PROVE  Total(w, T \ {a}) = w[b] + Total(w, T \ {a, b})
    <3>1. T \ {a} \in SUBSET S /\ T \ {a} \notin B /\ b \in T \ {a}
      BY <2>2, <2>4, <2>7
    <3>2. (T \ {a}) \ {b} = T \ {a, b}
      OBVIOUS
    <3> QED  BY <3>1, <3>2 DEF B
  <2>8. Total(w, T \ {y}) = w[z] + Total(w, T \ {y, z}) /\ Total(w, T \ {z}) = w[y] + Total(w, T \ {z, y})
    BY <2>5, <2>6, <2>7
  <2>9. Total(w, T \ {z, y}) = Total(w, T \ {y, z})
    <3>1. T \ {y, z} = T \ {z, y}
      OBVIOUS
    <3> QED  BY <3>1
  <2>10. Total(w, T \ {y, z}) \in Nat /\ w[z] \in Nat /\ w[y] \in Nat
    <3>1. T \ {y, z} \in SUBSET D /\ IsFiniteSet(T \ {y, z}) /\ y \in D /\ z \in D
      BY <2>4, <2>5, FS_Subset
    <3>2. Total(w, T \ {y, z}) \in Nat
      BY <3>1, TotalType
    <3> QED  BY <3>1, <3>2
  <2> QED  BY ONLY <2>3, <2>5, <2>8, <2>9, <2>10
<1> QED  BY <1>1

\* Elements of weight zero add nothing.
LEMMA TotalOfNonzero ==
    ASSUME NEW D, NEW w \in [D -> Nat], NEW S \in SUBSET D, IsFiniteSet(S),
           NEW U \in SUBSET S, \A x \in S \ U : w[x] = 0
    PROVE  Total(w, S) = Total(w, U)
<1> DEFINE B == {T \in SUBSET S : U \subseteq T /\ Total(w, T) # Total(w, U)}
<1>1. ASSUME B # {} PROVE FALSE
  <2>1. B \subseteq SUBSET S
    OBVIOUS
  <2> HIDE DEF B
  <2>2. PICK T \in B : \A V \in B : V \subseteq T => V = T
    BY <1>1, <2>1, MinimalSubset
  <2>3. T \in SUBSET S /\ U \subseteq T /\ Total(w, T) # Total(w, U) /\ IsFiniteSet(T)
    BY FS_Subset DEF B
  <2>4. PICK x \in T : x \notin U
    BY <2>3
  <2>5. Total(w, T) = w[x] + Total(w, T \ {x})
    BY <2>3, TotalTakes
  <2>6. Total(w, T \ {x}) = Total(w, U)
    BY <2>2, <2>3, <2>4 DEF B
  <2>7. w[x] = 0 /\ Total(w, U) \in Nat
    BY <2>3, <2>4, TotalType, FS_Subset
  <2> QED  BY <2>3, <2>5, <2>6, <2>7
<1> QED  BY <1>1

LEMMA TotalMonotone ==
    ASSUME NEW D, NEW w \in [D -> Nat], NEW S \in SUBSET D, IsFiniteSet(S), NEW U \in SUBSET S
    PROVE  Total(w, U) <= Total(w, S)
<1> DEFINE B == {T \in SUBSET S : U \subseteq T /\ ~(Total(w, U) <= Total(w, T))}
<1>1. ASSUME B # {} PROVE FALSE
  <2>1. B \subseteq SUBSET S
    OBVIOUS
  <2> HIDE DEF B
  <2>2. PICK T \in B : \A V \in B : V \subseteq T => V = T
    BY <1>1, <2>1, MinimalSubset
  <2>3. T \in SUBSET S /\ U \subseteq T /\ ~(Total(w, U) <= Total(w, T)) /\ IsFiniteSet(T) /\ IsFiniteSet(U)
    BY FS_Subset DEF B
  <2>4. Total(w, U) \in Nat /\ Total(w, T) \in Nat
    BY <2>3, TotalType
  <2>5. PICK x \in T : x \notin U
    BY <2>3, <2>4
  <2>6. Total(w, T) = w[x] + Total(w, T \ {x})
    BY <2>3, TotalTakes
  <2>7. Total(w, U) <= Total(w, T \ {x})
    BY <2>2, <2>3, <2>5 DEF B
  <2>8. w[x] \in Nat /\ Total(w, T \ {x}) \in Nat
    BY <2>3, TotalType, FS_Subset
  <2> QED  BY <2>3, <2>4, <2>6, <2>7, <2>8
<1> QED  BY <1>1

\* A total is zero when every element weighs nothing, and only then.
LEMMA TotalZero ==
    ASSUME NEW D, NEW w \in [D -> Nat], NEW S \in SUBSET D, IsFiniteSet(S)
    PROVE  Total(w, S) = 0 <=> \A x \in S : w[x] = 0
<1>1. Total(w, {}) = 0
  BY FS_EmptySet, TotalUnfolds
<1>2. ASSUME \A x \in S : w[x] = 0 PROVE Total(w, S) = 0
  BY <1>1, <1>2, TotalOfNonzero
<1>3. ASSUME Total(w, S) = 0, NEW x \in S PROVE w[x] = 0
  <2>1. Total(w, S) = w[x] + Total(w, S \ {x})
    BY TotalTakes
  <2>2. w[x] \in Nat /\ Total(w, S \ {x}) \in Nat
    BY TotalType, FS_Subset
  <2> QED  BY <2>1, <2>2, <1>3
<1> QED  BY <1>2, <1>3

\* Functions that agree on a set have one total of it.
LEMMA TotalSame ==
    ASSUME NEW v, NEW w, NEW S, IsFiniteSet(S), \A x \in S : v[x] = w[x]
    PROVE  Total(v, S) = Total(w, S)
<1> DEFINE B == {T \in SUBSET S : Total(v, T) # Total(w, T)}
<1>1. ASSUME B # {} PROVE FALSE
  <2>1. B \subseteq SUBSET S
    OBVIOUS
  <2> HIDE DEF B
  <2>2. PICK T \in B : \A V \in B : V \subseteq T => V = T
    BY <1>1, <2>1, MinimalSubset
  <2>3. T \in SUBSET S /\ Total(v, T) # Total(w, T) /\ IsFiniteSet(T)
    BY FS_Subset DEF B
  <2>4. T # {}
    <3>1. Total(v, {}) = 0 /\ Total(w, {}) = 0
      BY FS_EmptySet, TotalUnfolds
    <3> QED  BY <2>3, <3>1
  <2> DEFINE y == AnyOf(T)
  <2>5. /\ y \in T
        /\ Total(v, T) = v[y] + Total(v, T \ {y})
        /\ Total(w, T) = w[y] + Total(w, T \ {y})
    BY <2>3, <2>4, AnyOfIn, TotalUnfolds
  <2> HIDE DEF y
  <2>6. Total(v, T \ {y}) = Total(w, T \ {y})
    BY <2>2, <2>3, <2>5 DEF B
  <2> QED  BY <2>3, <2>5, <2>6
<1> QED  BY <1>1

\* One more element adds at most its weight.
LEMMA TotalAdds ==
    ASSUME NEW D, NEW w \in [D -> Nat], NEW S \in SUBSET D, IsFiniteSet(S), NEW x \in D
    PROVE  IsFiniteSet(S \cup {x}) /\ Total(w, S \cup {x}) <= Total(w, S) + w[x]
<1>1. IsFiniteSet(S \cup {x})
  BY FS_AddElement
<1>2. Total(w, S) \in Nat /\ w[x] \in Nat
  BY TotalType
<1>3. CASE x \in S
  <2>1. S \cup {x} = S
    BY <1>3
  <2>2. Total(w, S) <= Total(w, S) + w[x]
    BY ONLY <1>2
  <2> QED  BY <1>1, <2>1, <2>2
<1>4. CASE x \notin S
  <2>1. (S \cup {x}) \ {x} = S /\ S \cup {x} \in SUBSET D /\ x \in S \cup {x}
    BY <1>4
  <2> DEFINE T == S \cup {x}
  <2> HIDE DEF T
  <2>2. Total(w, T) = w[x] + Total(w, T \ {x})
    BY <1>1, <2>1, TotalTakes DEF T
  <2>3. Total(w, T) = w[x] + Total(w, S)
    BY <2>1, <2>2 DEF T
  <2>4. Total(w, T) <= Total(w, S) + w[x]
    BY ONLY <1>2, <2>3
  <2> QED  BY <1>1, <2>4 DEF T
<1> QED  BY <1>3, <1>4

\* Heavier elements have a heavier total.
LEMMA TotalLess ==
    ASSUME NEW S, IsFiniteSet(S), NEW v \in [S -> Nat], NEW w \in [S -> Nat], \A x \in S : v[x] <= w[x]
    PROVE  Total(v, S) <= Total(w, S)
<1> DEFINE B == {T \in SUBSET S : ~(Total(v, T) <= Total(w, T))}
<1>1. ASSUME B # {} PROVE FALSE
  <2>1. B \subseteq SUBSET S
    OBVIOUS
  <2> HIDE DEF B
  <2>2. PICK T \in B : \A U \in B : U \subseteq T => U = T
    BY <1>1, <2>1, MinimalSubset
  <2>3. T \in SUBSET S /\ ~(Total(v, T) <= Total(w, T)) /\ IsFiniteSet(T)
    BY FS_Subset DEF B
  <2>4. T # {}
    <3>1. Total(v, {}) = 0 /\ Total(w, {}) = 0
      BY FS_EmptySet, TotalUnfolds
    <3> QED  BY <2>3, <3>1
  <2> DEFINE y == AnyOf(T)
  <2>5. /\ y \in T
        /\ Total(v, T) = v[y] + Total(v, T \ {y})
        /\ Total(w, T) = w[y] + Total(w, T \ {y})
    BY <2>3, <2>4, AnyOfIn, TotalUnfolds
  <2> HIDE DEF y
  <2>6. Total(v, T \ {y}) <= Total(w, T \ {y})
    BY <2>2, <2>3, <2>5 DEF B
  <2>7. Total(v, T \ {y}) \in Nat /\ Total(w, T \ {y}) \in Nat
    <3>1. T \ {y} \in SUBSET S /\ IsFiniteSet(T \ {y})
      BY <2>3, FS_Subset
    <3> QED  BY <3>1, TotalType
  <2>8. v[y] \in Nat /\ w[y] \in Nat /\ v[y] <= w[y]
    BY <2>3, <2>5
  <2> QED  BY <2>3, <2>5, <2>6, <2>7, <2>8
<1> QED  BY <1>1

\* The total over an image, when no two elements have the same.
LEMMA TotalOfImage ==
    ASSUME NEW S, IsFiniteSet(S), NEW D, IsFiniteSet(D), NEW F \in [S -> D], NEW w \in [D -> Nat],
           \A x \in S, y \in S : F[x] = F[y] => x = y
    PROVE  Total(w, {F[x] : x \in S}) = Total([x \in S |-> w[F[x]]], S)
<1> DEFINE Image(T) == {F[x] : x \in T}
           v == [x \in S |-> w[F[x]]]
           B == {T \in SUBSET S : Total(w, Image(T)) # Total(v, T)}
<1>1. ASSUME B # {} PROVE FALSE
  <2>1. B \subseteq SUBSET S
    OBVIOUS
  <2>0. v \in [S -> Nat] /\ \A x \in S : v[x] = w[F[x]]
    OBVIOUS
  <2> HIDE DEF B, v
  <2>2. PICK T \in B : \A U \in B : U \subseteq T => U = T
    BY <1>1, <2>1, MinimalSubset
  <2>3. T \in SUBSET S /\ Total(w, Image(T)) # Total(v, T) /\ IsFiniteSet(T)
    BY FS_Subset DEF B
  <2>4. T # {}
    <3>1. Total(v, {}) = 0 /\ Total(w, {}) = 0
      BY FS_EmptySet, TotalUnfolds
    <3>2. Image({}) = {}
      OBVIOUS
    <3> QED  BY <2>3, <3>1, <3>2
  <2>5. PICK y \in T : TRUE
    BY <2>4
  <2>6. Total(v, T) = v[y] + Total(v, T \ {y})
    BY <2>0, <2>3, TotalTakes
  <2>7. Image(T) \in SUBSET D /\ F[y] \in Image(T) /\ Image(T) \ {F[y]} = Image(T \ {y})
    BY <2>3
  <2>8. IsFiniteSet(Image(T))
    BY <2>7, FS_Subset
  <2> HIDE DEF Image
  <2>9. Total(w, Image(T)) = w[F[y]] + Total(w, Image(T) \ {F[y]})
    BY <2>7, <2>8, TotalTakes
  <2>10. Total(w, Image(T \ {y})) = Total(v, T \ {y})
    BY <2>2, <2>3, <2>5 DEF B
  <2> QED  BY <2>0, <2>3, <2>6, <2>7, <2>9, <2>10
<1> QED  BY <1>1

\* A finite set whose total is at most n.
Within(w, S, n) == IsFiniteSet(S) /\ Total(w, S) <= n

LEMMA FourWithin ==
    ASSUME NEW D, NEW w \in [D -> Nat], NEW a \in D, NEW b \in D, NEW c \in D, NEW d \in D,
           NEW n \in Nat, w[a] + w[b] + w[c] + w[d] <= n
    PROVE  Within(w, {a, b, c, d}, n)
<1> DEFINE S1 == {} \cup {a}
           S2 == S1 \cup {b}
           S3 == S2 \cup {c}
           S4 == S3 \cup {d}
<1>1. {a, b, c, d} = S4 /\ S1 \in SUBSET D /\ S2 \in SUBSET D /\ S3 \in SUBSET D /\ S4 \in SUBSET D
  OBVIOUS
<1>2. {} \in SUBSET D /\ IsFiniteSet({}) /\ Total(w, {}) = 0
  BY FS_EmptySet, TotalUnfolds
<1> HIDE DEF S1, S2, S3, S4
<1>3. IsFiniteSet(S1) /\ Total(w, S1) <= 0 + w[a]
  BY <1>2, TotalAdds DEF S1
<1>4. IsFiniteSet(S2) /\ Total(w, S2) <= Total(w, S1) + w[b]
  BY <1>1, <1>3, TotalAdds DEF S2
<1>5. IsFiniteSet(S3) /\ Total(w, S3) <= Total(w, S2) + w[c]
  BY <1>1, <1>4, TotalAdds DEF S3
<1>6. IsFiniteSet(S4) /\ Total(w, S4) <= Total(w, S3) + w[d]
  BY <1>1, <1>5, TotalAdds DEF S4
<1>7. /\ w[a] \in Nat /\ w[b] \in Nat /\ w[c] \in Nat /\ w[d] \in Nat
      /\ Total(w, S1) \in Nat /\ Total(w, S2) \in Nat /\ Total(w, S3) \in Nat /\ Total(w, S4) \in Nat
  BY <1>1, <1>3, <1>4, <1>5, <1>6, TotalType
<1>8. IsFiniteSet(S4) /\ Total(w, S4) <= w[a] + w[b] + w[c] + w[d]
  BY ONLY <1>3, <1>4, <1>5, <1>6, <1>7
<1>9. Total(w, S4) <= n
  BY <1>7, <1>8
<1> QED  BY <1>1, <1>8, <1>9 DEF Within

LEMMA UnionWithin ==
    ASSUME NEW D, NEW w \in [D -> Nat], NEW S \in SUBSET D, NEW T \in SUBSET D,
           NEW m \in Nat, NEW n \in Nat, NEW k \in Nat, m + n <= k, Within(w, S, m), Within(w, T, n)
    PROVE  Within(w, S \cup T, k)
<1> DEFINE B == {V \in SUBSET T : ~(Total(w, S \cup V) <= Total(w, S) + Total(w, V))}
<1>0. IsFiniteSet(S) /\ IsFiniteSet(T) /\ Total(w, S) <= m /\ Total(w, T) <= n
  BY DEF Within
<1>1. ASSUME B # {} PROVE FALSE
  <2>1. B \subseteq SUBSET T
    OBVIOUS
  <2> HIDE DEF B
  <2>2. PICK V \in B : \A U \in B : U \subseteq V => U = V
    BY <1>0, <1>1, <2>1, MinimalSubset
  <2>3. V \in SUBSET T /\ V \in SUBSET D /\ IsFiniteSet(V) /\ ~(Total(w, S \cup V) <= Total(w, S) + Total(w, V))
    BY <1>0, FS_Subset DEF B
  <2>4. Total(w, S) \in Nat /\ Total(w, {}) = 0
    BY <1>0, TotalType, FS_EmptySet, TotalUnfolds
  <2>5. V # {}
    <3>1. S \cup {} = S
      OBVIOUS
    <3> QED  BY <2>3, <2>4, <3>1
  <2>6. PICK x \in V : TRUE
    BY <2>5
  <2> DEFINE U == V \ {x}
             W == S \cup U
  <2>7. Total(w, V) = w[x] + Total(w, U)
    BY <2>3, TotalTakes
  <2>8. U \in SUBSET V /\ U # V /\ U \in SUBSET T /\ W \in SUBSET D /\ S \cup V = W \cup {x} /\ x \in D
    BY <2>3
  <2>9. Total(w, W) <= Total(w, S) + Total(w, U)
    BY <2>2, <2>8 DEF B
  <2>10. IsFiniteSet(U)
    BY <2>3, <2>8, FS_Subset
  <2>11. IsFiniteSet(W)
    BY <1>0, <2>10, FS_Union
  <2> HIDE DEF U, W
  <2>12. Total(w, W \cup {x}) <= Total(w, W) + w[x] /\ IsFiniteSet(W \cup {x})
    BY <2>8, <2>11, TotalAdds
  <2>13. /\ Total(w, W) \in Nat /\ Total(w, U) \in Nat /\ w[x] \in Nat /\ Total(w, V) \in Nat
         /\ Total(w, W \cup {x}) \in Nat
    BY <2>3, <2>8, <2>10, <2>11, <2>12, TotalType
  <2>14. ~(Total(w, W \cup {x}) <= Total(w, S) + Total(w, V))
    BY <2>3, <2>8
  <2> QED  BY ONLY <2>4, <2>7, <2>9, <2>12, <2>13, <2>14
<1>2. Total(w, S \cup T) <= Total(w, S) + Total(w, T)
  BY <1>1
<1>3. IsFiniteSet(S \cup T)
  BY <1>0, FS_Union
<1>4. Total(w, S) \in Nat /\ Total(w, T) \in Nat /\ Total(w, S \cup T) \in Nat
  BY <1>0, <1>3, TotalType
<1> QED  BY <1>0, <1>2, <1>3, <1>4 DEF Within

LEMMA DeductionsAreATotal ==
    ASSUME NEW F, IsFiniteSet(F)
    PROVE  MapThenSumSet(Deduction, F) = Total([f \in F |-> Deduction(f)], F)
<1> DEFINE w == [f \in F |-> Deduction(f)]
           D(g) == g = [s \in SUBSET F |->
                          IF s = {} THEN 0
                          ELSE Deduction(CHOOSE x \in s : TRUE) + g[s \ {CHOOSE x \in s : TRUE}]]
           it == CHOOSE g : D(g)
<1>1. MapThenSumSet(Deduction, F) = it[F]
  BY DEF MapThenSumSet, MapThenFoldSet
<1>2. ASSUME NEW g PROVE D(g) <=> IsSum(w, F, g)
  <2>1. ASSUME NEW s \in SUBSET F, s # {} PROVE w[AnyOf(s)] = Deduction(CHOOSE x \in s : TRUE)
    BY <2>1, AnyOfIn DEF AnyOf
  <2> QED BY <2>1 DEF IsSum, AnyOf
<1> HIDE DEF D, w
<1>3. \E g : D(g)
  BY <1>2, SumExists
<1>4. D(it)
  BY <1>3
<1>5. IsSum(w, F, it)
  BY <1>2, <1>4
<1> HIDE DEF it
<1>6. it[F] = Total(w, F)
  BY <1>5, TotalOfSum
<1> QED  BY <1>1, <1>6 DEF w

-----------------------------------------------------------------------------
(***************************************************************************)
(* The registry by tier: seven checks are active, those over the hidden    *)
(* paths, and every other one is passive, on any evidence.                 *)
(***************************************************************************)
\* A manifest the score and the outputs can use: whatever is more than
\* informational has a weight.
Manifest(c) ==
    /\ c.severity \in DOMAIN SeverityOrder
    /\ c.confidence \in DOMAIN ConfidenceFactor
    /\ c.weight \in Nat
    /\ c.severity # "info" => c.weight > 0

Passive(c) == c.tier = "passive" /\ Manifest(c)

LEMMA HdrPassive ==
    ASSUME NEW e PROVE \A c \in HdrChecks(e) : Passive(c)
<1>1. /\ Passive(HstsPresent(e))
      /\ Passive(HstsMaxAge(e))
      /\ Passive(HstsIncludeSubdomains(e))
      /\ Passive(CspPresent(e))
      /\ Passive(CspNoUnsafeInline(e))
      /\ Passive(XContentTypeOptions(e))
      /\ Passive(ClickjackingProtection(e))
      /\ Passive(ReferrerPolicy(e))
      /\ Passive(PermissionsPolicy(e))
      /\ Passive(ServerHeaderNoVersion(e))
      /\ Passive(XPoweredByAbsent(e))
      /\ Passive(ContentTypePresent(e))
  BY DEF Passive, Manifest, SeverityOrder, ConfidenceFactor, Confirmed, Indicated, CheckOf, HstsPresent, HstsMaxAge,
     HstsIncludeSubdomains, CspPresent, CspNoUnsafeInline, XContentTypeOptions,
     ClickjackingProtection, ReferrerPolicy, PermissionsPolicy, ServerHeaderNoVersion,
     XPoweredByAbsent, ContentTypePresent
<1> QED  BY <1>1 DEF HdrChecks

LEMMA TlsPassive ==
    ASSUME NEW e PROVE \A c \in TlsChecks(e) : Passive(c)
<1>1. /\ Passive(HttpsEnforced(e))
      /\ Passive(HandshakeVerifies(e))
      /\ Passive(CertNotExpired(e))
      /\ Passive(CertNotExpiringSoon(e))
      /\ Passive(ProtocolVersionModern(e))
      /\ Passive(NoMixedContent(e))
      /\ Passive(CertValidityWindow(e))
      /\ Passive(NoWeakCipher(e))
  BY DEF Passive, Manifest, SeverityOrder, ConfidenceFactor, Confirmed, Indicated, CheckOf, HttpsEnforced,
     HandshakeVerifies, CertNotExpired, CertNotExpiringSoon, ProtocolVersionModern,
     NoMixedContent, CertValidityWindow, NoWeakCipher
<1> QED  BY <1>1 DEF TlsChecks

LEMMA SesPassive ==
    ASSUME NEW e PROVE \A c \in SesChecks(e) : Passive(c)
<1>1. /\ Passive(CookiesSecure(e))
      /\ Passive(CookiesHttpOnly(e))
      /\ Passive(CookiesSamesiteSet(e))
      /\ Passive(CookiesSamesiteNoneRequiresSecure(e))
      /\ Passive(NoSessionIdInUrl(e))
      /\ Passive(CookieLifetimeSane(e))
  BY DEF Passive, Manifest, SeverityOrder, ConfidenceFactor, Confirmed, Indicated, CheckOf, CookiesSecure,
     CookiesHttpOnly, CookiesSamesiteSet, CookiesSamesiteNoneRequiresSecure,
     NoSessionIdInUrl, CookieLifetimeSane
<1> QED  BY <1>1 DEF SesChecks

LEMMA LegPassive ==
    ASSUME NEW e PROVE \A c \in LegChecks(e) : Passive(c)
<1>1. /\ Passive(PrivacyPolicyLinked(e))
      /\ Passive(TermsLinked(e))
      /\ Passive(CookiePolicyLinked(e))
      /\ Passive(ContactInfoPresent(e))
  BY DEF Passive, Manifest, SeverityOrder, ConfidenceFactor, Confirmed, Indicated, CheckOf, PrivacyPolicyLinked,
     TermsLinked, CookiePolicyLinked, ContactInfoPresent
<1> QED  BY <1>1 DEF LegChecks

LEMMA CmpPassive ==
    ASSUME NEW e PROVE \A c \in CmpChecks(e) : Passive(c)
<1>1. /\ Passive(TrackerWithoutConsentLibrary(e))
      /\ Passive(GaUsesConsentMode(e))
      /\ Passive(NoPrecheckedMarketingCheckbox(e))
      /\ Passive(ConsentNoticeReferencesPrivacyPolicy(e))
  BY DEF Passive, Manifest, SeverityOrder, ConfidenceFactor, Confirmed, Indicated, CheckOf,
     TrackerWithoutConsentLibrary, GaUsesConsentMode, NoPrecheckedMarketingCheckbox,
     ConsentNoticeReferencesPrivacyPolicy
<1> QED  BY <1>1 DEF CmpChecks

LEMMA DepPassive ==
    ASSUME NEW e PROVE \A c \in DepChecks(e) : Passive(c)
<1>1. /\ Passive(SriPresentOnThirdPartyScripts(e))
      /\ Passive(NoKnownOldLibrary(e))
      /\ Passive(BoundedThirdPartyOrigins(e))
      /\ Passive(NoUnpinnedCdnVersion(e))
  BY DEF Passive, Manifest, SeverityOrder, ConfidenceFactor, Confirmed, Indicated, CheckOf,
     SriPresentOnThirdPartyScripts, NoKnownOldLibrary, BoundedThirdPartyOrigins,
     NoUnpinnedCdnVersion
<1> QED  BY <1>1 DEF DepChecks

LEMMA CliPassive ==
    ASSUME NEW e PROVE \A c \in CliChecks(e) : Passive(c)
<1>1. /\ Passive(NoAwsKey(e))
      /\ Passive(NoStripeSecret(e))
      /\ Passive(NoSlackToken(e))
      /\ Passive(NoGithubGitlabToken(e))
      /\ Passive(NoPrivateKeyBlock(e))
      /\ Passive(NoGenericSecret(e))
      /\ Passive(NoSourceMapComment(e))
      /\ Passive(NoDevBuildMarker(e))
      /\ Passive(BoundedConsoleCalls(e))
      /\ Passive(NoHardcodedInternalHostname(e))
  BY DEF Passive, Manifest, SeverityOrder, ConfidenceFactor, Confirmed, Indicated, CheckOf, NoAwsKey, NoStripeSecret,
     NoSlackToken, NoGithubGitlabToken, NoPrivateKeyBlock, NoGenericSecret,
     NoSourceMapComment, NoDevBuildMarker, BoundedConsoleCalls, NoHardcodedInternalHostname
<1> QED  BY <1>1 DEF CliChecks

\* The checks over the hidden paths.
HiddenChecks(e) ==
    {NoRepoMetadataExposed(e), NoBackupArtefactsExposed(e), NoExposedConfigFiles(e),
     NoDebugRoutesExposed(e), NoTestRoutesExposed(e), NoDirectoryListingEnabled(e),
     NoDefaultAdminPanelExposed(e)}

LEMMA ExpPassive ==
    ASSUME NEW e PROVE \A c \in ExpChecks(e) : Passive(c) \/ c \in HiddenChecks(e)
<1>1. /\ Passive(SecurityTxtPresent(e))
      /\ Passive(RobotsTxtPresent(e))
      /\ Passive(SitemapPresent(e))
      /\ Passive(ManifestPresent(e))
      /\ Passive(NoVerboseErrorPage(e))
  BY DEF Passive, Manifest, SeverityOrder, ConfidenceFactor, Confirmed, Indicated, CheckOf, SecurityTxtPresent,
     RobotsTxtPresent, SitemapPresent, ManifestPresent, NoVerboseErrorPage
<1> QED  BY <1>1 DEF ExpChecks, HiddenChecks

LEMMA DatPassive ==
    ASSUME NEW e PROVE \A c \in DatChecks(e) : Passive(c)
<1>1. /\ Passive(NoServiceRoleKeyExposed(e))
      /\ Passive(SupabaseSchemaNotIntrospectable(e))
      /\ Passive(FirebaseNotPubliclyReadable(e))
      /\ Passive(NoPublicBucketListing(e))
  BY DEF Passive, Manifest, SeverityOrder, ConfidenceFactor, Confirmed, Indicated, CheckOf, NoServiceRoleKeyExposed,
     SupabaseSchemaNotIntrospectable, FirebaseNotPubliclyReadable, NoPublicBucketListing
<1> QED  BY <1>1 DEF DatChecks

LEMMA RegistryByTier ==
    ASSUME NEW e, NEW c \in Registry(e)
    PROVE  Passive(c) \/ c \in HiddenChecks(e)
BY HdrPassive, TlsPassive, SesPassive, LegPassive, CmpPassive, DepPassive, CliPassive, ExpPassive,
   DatPassive DEF Registry

\* They are planned for an active scan, and evaluated when the paths were asked for.
LEMMA HiddenIsActive ==
    ASSUME NEW e, NEW c \in HiddenChecks(e)
    PROVE  /\ c.tier = "active"
           /\ Manifest(c)
           /\ c \in Registry(e)
           /\ e.paths # None => c.verdict # "inconclusive"
<1>1. ASSUME NEW id, NEW severity \in DOMAIN SeverityOrder, NEW confidence \in DOMAIN ConfidenceFactor,
             NEW weight \in Nat, weight > 0, NEW kind, c = Hidden(e, id, severity, confidence, weight, kind)
      PROVE  /\ c.tier = "active"
             /\ Manifest(c)
             /\ e.paths # None => c.verdict # "inconclusive"
  BY <1>1 DEF Hidden, CheckOf, Requires, FailIf, Manifest
<1>2. c \in Registry(e)
  BY DEF Registry, ExpChecks, HiddenChecks
<1> QED
  BY <1>1, <1>2 DEF SeverityOrder, ConfidenceFactor, HiddenChecks, NoRepoMetadataExposed, NoBackupArtefactsExposed,
     NoExposedConfigFiles, NoDebugRoutesExposed, NoTestRoutesExposed, NoDirectoryListingEnabled,
     NoDefaultAdminPanelExposed

\* They are seven, for their ids are.
LEMMA HiddenIds ==
    ASSUME NEW e
    PROVE  /\ NoRepoMetadataExposed(e).id = "EXP-006"
           /\ NoBackupArtefactsExposed(e).id = "EXP-007"
           /\ NoExposedConfigFiles(e).id = "EXP-008"
           /\ NoDebugRoutesExposed(e).id = "EXP-009"
           /\ NoTestRoutesExposed(e).id = "EXP-010"
           /\ NoDirectoryListingEnabled(e).id = "EXP-011"
           /\ NoDefaultAdminPanelExposed(e).id = "EXP-012"
BY DEF Hidden, CheckOf, NoRepoMetadataExposed, NoBackupArtefactsExposed, NoExposedConfigFiles,
   NoDebugRoutesExposed, NoTestRoutesExposed, NoDirectoryListingEnabled, NoDefaultAdminPanelExposed

\* A set with one more element has one more element.
LEMMA OneMore ==
    ASSUME NEW S, NEW x, NEW n \in Nat, IsFiniteSet(S), Cardinality(S) = n, x \notin S
    PROVE  IsFiniteSet(S \cup {x}) /\ Cardinality(S \cup {x}) = n + 1
BY FS_AddElement

LEMMA SevenHidden == ASSUME NEW e PROVE Cardinality(HiddenChecks(e)) = 7
<1> DEFINE a == NoRepoMetadataExposed(e)
           b == NoBackupArtefactsExposed(e)
           c == NoExposedConfigFiles(e)
           d == NoDebugRoutesExposed(e)
           f == NoTestRoutesExposed(e)
           g == NoDirectoryListingEnabled(e)
           h == NoDefaultAdminPanelExposed(e)
<1>1. /\ a # b /\ a # c /\ a # d /\ a # f /\ a # g /\ a # h
      /\ b # c /\ b # d /\ b # f /\ b # g /\ b # h
      /\ c # d /\ c # f /\ c # g /\ c # h
      /\ d # f /\ d # g /\ d # h
      /\ f # g /\ f # h
      /\ g # h
  BY HiddenIds
<1> HIDE DEF a, b, c, d, f, g, h
<1> DEFINE S1 == {a}
           S2 == S1 \cup {b}
           S3 == S2 \cup {c}
           S4 == S3 \cup {d}
           S5 == S4 \cup {f}
           S6 == S5 \cup {g}
           S7 == S6 \cup {h}
<1>2. HiddenChecks(e) = S7
  BY DEF HiddenChecks, a, b, c, d, f, g, h
<1>3. /\ b \notin S1
      /\ c \notin S2
      /\ d \notin S3
      /\ f \notin S4
      /\ g \notin S5
      /\ h \notin S6
  BY <1>1
<1>4. IsFiniteSet(S1) /\ Cardinality(S1) = 1
  BY FS_Singleton
<1> HIDE DEF S1, S2, S3, S4, S5, S6, S7
<1>5. IsFiniteSet(S2) /\ Cardinality(S2) = 2
  BY <1>3, <1>4, OneMore DEF S2
<1>6. IsFiniteSet(S3) /\ Cardinality(S3) = 3
  BY <1>3, <1>5, OneMore DEF S3
<1>7. IsFiniteSet(S4) /\ Cardinality(S4) = 4
  BY <1>3, <1>6, OneMore DEF S4
<1>8. IsFiniteSet(S5) /\ Cardinality(S5) = 5
  BY <1>3, <1>7, OneMore DEF S5
<1>9. IsFiniteSet(S6) /\ Cardinality(S6) = 6
  BY <1>3, <1>8, OneMore DEF S6
<1>10. IsFiniteSet(S7) /\ Cardinality(S7) = 7
  BY <1>3, <1>9, OneMore DEF S7
<1> QED  BY <1>2, <1>10

-----------------------------------------------------------------------------
(***************************************************************************)
(* The outputs.  A threshold is breached by a failed finding of at least   *)
(* its severity, and that is the finding whose SARIF level says so.        *)
(***************************************************************************)
LEMMA RegistryManifests == ASSUME NEW e, NEW c \in Registry(e) PROVE Manifest(c)
BY RegistryByTier, HiddenIsActive DEF Passive

LEMMA SeverityKnown ==
    ASSUME NEW e, NEW t, NEW f \in Findings(e, t)
    PROVE  f.severity \in DOMAIN SeverityOrder
BY RegistryManifests DEF Manifest, Findings, PlanRegistry

\* The level of a failed finding against the order of its severity.
LEMMA LevelOfSeverity ==
    ASSUME NEW severity \in DOMAIN SeverityOrder
    PROVE  /\ FailedLevel[severity] = "error" <=> SeverityOrder[severity] <= SeverityOrder["high"]
           /\ FailedLevel[severity] \in {"error", "warning"}
                <=> SeverityOrder[severity] <= SeverityOrder["medium"]
BY DEF SeverityOrder, FailedLevel

\* Errors and warnings of a report are its failed findings.
LEMMA LevelsOfReport ==
    ASSUME NEW fs, NEW level \in {"error", "warning"}
    PROVE  level \in {r.level : r \in SarifReport(fs, {})}
             <=> \E f \in With(fs, "failed") : FailedLevel[f.severity] = level
<1>1. ASSUME NEW f \in With(fs, "failed"), FailedLevel[f.severity] = level
      PROVE  level \in {r.level : r \in SarifReport(fs, {})}
  <2>1. f \in fs /\ f.verdict = "failed"
    BY DEF With
  <2>2. SarifResult(f) \in SarifReport(fs, {})
    BY <2>1 DEF SarifReport
  <2>3. SarifResult(f).level = level
    BY <2>1, <1>1 DEF SarifResult
  <2> QED  BY <2>2, <2>3
<1>2. ASSUME NEW r \in SarifReport(fs, {}), r.level = level
      PROVE  \E f \in With(fs, "failed") : FailedLevel[f.severity] = level
  <2>1. PICK f \in fs : r = SarifResult(f) /\ f.verdict \in {"failed", "inconclusive"}
    BY DEF SarifReport
  <2>2. f.verdict # "inconclusive" /\ level = FailedLevel[f.severity]
    BY <2>1, <1>2 DEF SarifResult
  <2> QED  BY <2>1, <2>2 DEF With
<1> QED  BY <1>1, <1>2

-----------------------------------------------------------------------------
(***************************************************************************)
(* The score.  Checks of medium severity or less, all failed, deduct 287   *)
(* of 2000 twentieths; grade B reaches down to 1500.                       *)
(***************************************************************************)
\* What a check would deduct, if checks of high severity deducted nothing.
Lesser(c) == IF c.severity \in {"critical", "high"} THEN 0 ELSE Deduction(c)

LEMMA HdrWithin ==
    ASSUME NEW e, NEW D, NEW w \in [D -> Nat], HdrChecks(e) \subseteq D, \A c \in D : w[c] <= Lesser(c)
    PROVE  Within(w, HdrChecks(e), 76)
<1> DEFINE S1 == {HstsPresent(e), HstsMaxAge(e), HstsIncludeSubdomains(e), CspPresent(e)}
           S2 == {CspNoUnsafeInline(e), XContentTypeOptions(e), ClickjackingProtection(e),
                  ReferrerPolicy(e)}
           S3 == {PermissionsPolicy(e), ServerHeaderNoVersion(e), XPoweredByAbsent(e),
                  ContentTypePresent(e)}
<1>1. Within(w, S1, 28)
  <2>1. /\ Lesser(HstsPresent(e)) = 0
        /\ Lesser(HstsMaxAge(e)) = 24
        /\ Lesser(HstsIncludeSubdomains(e)) = 4
        /\ Lesser(CspPresent(e)) = 0
    BY DEF Lesser, Deduction, SeverityMultiplier, ConfidenceFactor, CheckOf, Confirmed,
       HstsPresent, HstsMaxAge, HstsIncludeSubdomains, CspPresent
  <2>2. /\ HstsPresent(e) \in D
        /\ HstsMaxAge(e) \in D
        /\ HstsIncludeSubdomains(e) \in D
        /\ CspPresent(e) \in D
    BY DEF HdrChecks
  <2>3. /\ w[HstsPresent(e)] \in 0 .. 0
        /\ w[HstsMaxAge(e)] \in 0 .. 24
        /\ w[HstsIncludeSubdomains(e)] \in 0 .. 4
        /\ w[CspPresent(e)] \in 0 .. 0
    BY <2>1, <2>2
  <2> QED  BY <2>2, <2>3, FourWithin
<1>2. Within(w, S2, 44)
  <2>1. /\ Lesser(CspNoUnsafeInline(e)) = 12
        /\ Lesser(XContentTypeOptions(e)) = 4
        /\ Lesser(ClickjackingProtection(e)) = 24
        /\ Lesser(ReferrerPolicy(e)) = 4
    BY DEF Lesser, Deduction, SeverityMultiplier, ConfidenceFactor, CheckOf, Confirmed, Indicated,
       CspNoUnsafeInline, XContentTypeOptions, ClickjackingProtection, ReferrerPolicy
  <2>2. /\ CspNoUnsafeInline(e) \in D
        /\ XContentTypeOptions(e) \in D
        /\ ClickjackingProtection(e) \in D
        /\ ReferrerPolicy(e) \in D
    BY DEF HdrChecks
  <2>3. /\ w[CspNoUnsafeInline(e)] \in 0 .. 12
        /\ w[XContentTypeOptions(e)] \in 0 .. 4
        /\ w[ClickjackingProtection(e)] \in 0 .. 24
        /\ w[ReferrerPolicy(e)] \in 0 .. 4
    BY <2>1, <2>2
  <2> QED  BY <2>2, <2>3, FourWithin
<1>3. Within(w, S3, 4)
  <2>1. /\ Lesser(PermissionsPolicy(e)) = 2
        /\ Lesser(ServerHeaderNoVersion(e)) = 0
        /\ Lesser(XPoweredByAbsent(e)) = 0
        /\ Lesser(ContentTypePresent(e)) = 2
    BY DEF Lesser, Deduction, SeverityMultiplier, ConfidenceFactor, CheckOf, Confirmed, Indicated,
       PermissionsPolicy, ServerHeaderNoVersion, XPoweredByAbsent, ContentTypePresent
  <2>2. /\ PermissionsPolicy(e) \in D
        /\ ServerHeaderNoVersion(e) \in D
        /\ XPoweredByAbsent(e) \in D
        /\ ContentTypePresent(e) \in D
    BY DEF HdrChecks
  <2>3. /\ w[PermissionsPolicy(e)] \in 0 .. 2
        /\ w[ServerHeaderNoVersion(e)] \in 0 .. 0
        /\ w[XPoweredByAbsent(e)] \in 0 .. 0
        /\ w[ContentTypePresent(e)] \in 0 .. 2
    BY <2>1, <2>2
  <2> QED  BY <2>2, <2>3, FourWithin
<1>4. HdrChecks(e) = S1 \cup S2 \cup S3
  BY DEF HdrChecks
<1>5. S1 \in SUBSET D /\ S2 \in SUBSET D /\ S3 \in SUBSET D
  BY <1>4
<1> HIDE DEF S1, S2, S3
<1>6. Within(w, S1 \cup S2, 72)
  BY <1>5, <1>1, <1>2, UnionWithin
<1>7. Within(w, S1 \cup S2 \cup S3, 76)
  BY <1>5, <1>6, <1>3, UnionWithin
<1> QED  BY <1>4, <1>7

LEMMA TlsWithin ==
    ASSUME NEW e, NEW D, NEW w \in [D -> Nat], TlsChecks(e) \subseteq D, \A c \in D : w[c] <= Lesser(c)
    PROVE  Within(w, TlsChecks(e), 31)
<1> DEFINE S1 == {HttpsEnforced(e), HandshakeVerifies(e), CertNotExpired(e),
                  CertNotExpiringSoon(e)}
           S2 == {ProtocolVersionModern(e), NoMixedContent(e), CertValidityWindow(e),
                  NoWeakCipher(e)}
<1>1. Within(w, S1, 18)
  <2>1. /\ Lesser(HttpsEnforced(e)) = 0
        /\ Lesser(HandshakeVerifies(e)) = 0
        /\ Lesser(CertNotExpired(e)) = 0
        /\ Lesser(CertNotExpiringSoon(e)) = 18
    BY DEF Lesser, Deduction, SeverityMultiplier, ConfidenceFactor, CheckOf, Confirmed,
       HttpsEnforced, HandshakeVerifies, CertNotExpired, CertNotExpiringSoon
  <2>2. /\ HttpsEnforced(e) \in D
        /\ HandshakeVerifies(e) \in D
        /\ CertNotExpired(e) \in D
        /\ CertNotExpiringSoon(e) \in D
    BY DEF TlsChecks
  <2>3. /\ w[HttpsEnforced(e)] \in 0 .. 0
        /\ w[HandshakeVerifies(e)] \in 0 .. 0
        /\ w[CertNotExpired(e)] \in 0 .. 0
        /\ w[CertNotExpiringSoon(e)] \in 0 .. 18
    BY <2>1, <2>2
  <2> QED  BY <2>2, <2>3, FourWithin
<1>2. Within(w, S2, 13)
  <2>1. /\ Lesser(ProtocolVersionModern(e)) = 0
        /\ Lesser(NoMixedContent(e)) = 9
        /\ Lesser(CertValidityWindow(e)) = 4
        /\ Lesser(NoWeakCipher(e)) = 0
    BY DEF Lesser, Deduction, SeverityMultiplier, ConfidenceFactor, CheckOf, Confirmed, Indicated,
       ProtocolVersionModern, NoMixedContent, CertValidityWindow, NoWeakCipher
  <2>2. /\ ProtocolVersionModern(e) \in D
        /\ NoMixedContent(e) \in D
        /\ CertValidityWindow(e) \in D
        /\ NoWeakCipher(e) \in D
    BY DEF TlsChecks
  <2>3. /\ w[ProtocolVersionModern(e)] \in 0 .. 0
        /\ w[NoMixedContent(e)] \in 0 .. 9
        /\ w[CertValidityWindow(e)] \in 0 .. 4
        /\ w[NoWeakCipher(e)] \in 0 .. 0
    BY <2>1, <2>2
  <2> QED  BY <2>2, <2>3, FourWithin
<1>3. TlsChecks(e) = S1 \cup S2
  BY DEF TlsChecks
<1>4. S1 \in SUBSET D /\ S2 \in SUBSET D
  BY <1>3
<1> HIDE DEF S1, S2
<1>5. Within(w, S1 \cup S2, 31)
  BY <1>4, <1>1, <1>2, UnionWithin
<1> QED  BY <1>3, <1>5

LEMMA SesWithin ==
    ASSUME NEW e, NEW D, NEW w \in [D -> Nat], SesChecks(e) \subseteq D, \A c \in D : w[c] <= Lesser(c)
    PROVE  Within(w, SesChecks(e), 33)
<1> DEFINE S1 == {CookiesSecure(e), CookiesHttpOnly(e), CookiesSamesiteSet(e),
                  CookiesSamesiteNoneRequiresSecure(e)}
           S2 == {NoSessionIdInUrl(e), CookieLifetimeSane(e), CookiesSecure(e), CookiesSecure(e)}
<1>1. Within(w, S1, 22)
  <2>1. /\ Lesser(CookiesSecure(e)) = 0
        /\ Lesser(CookiesHttpOnly(e)) = 0
        /\ Lesser(CookiesSamesiteSet(e)) = 4
        /\ Lesser(CookiesSamesiteNoneRequiresSecure(e)) = 18
    BY DEF Lesser, Deduction, SeverityMultiplier, ConfidenceFactor, CheckOf, Confirmed,
       CookiesSecure, CookiesHttpOnly, CookiesSamesiteSet, CookiesSamesiteNoneRequiresSecure
  <2>2. /\ CookiesSecure(e) \in D
        /\ CookiesHttpOnly(e) \in D
        /\ CookiesSamesiteSet(e) \in D
        /\ CookiesSamesiteNoneRequiresSecure(e) \in D
    BY DEF SesChecks
  <2>3. /\ w[CookiesSecure(e)] \in 0 .. 0
        /\ w[CookiesHttpOnly(e)] \in 0 .. 0
        /\ w[CookiesSamesiteSet(e)] \in 0 .. 4
        /\ w[CookiesSamesiteNoneRequiresSecure(e)] \in 0 .. 18
    BY <2>1, <2>2
  <2> QED  BY <2>2, <2>3, FourWithin
<1>2. Within(w, S2, 11)
  <2>1. /\ Lesser(NoSessionIdInUrl(e)) = 9
        /\ Lesser(CookieLifetimeSane(e)) = 2
        /\ Lesser(CookiesSecure(e)) = 0
    BY DEF Lesser, Deduction, SeverityMultiplier, ConfidenceFactor, CheckOf, Confirmed, Indicated,
       NoSessionIdInUrl, CookieLifetimeSane, CookiesSecure
  <2>2. /\ NoSessionIdInUrl(e) \in D
        /\ CookieLifetimeSane(e) \in D
        /\ CookiesSecure(e) \in D
    BY DEF SesChecks
  <2>3. /\ w[NoSessionIdInUrl(e)] \in 0 .. 9
        /\ w[CookieLifetimeSane(e)] \in 0 .. 2
        /\ w[CookiesSecure(e)] \in 0 .. 0
    BY <2>1, <2>2
  <2> QED  BY <2>2, <2>3, FourWithin
<1>3. SesChecks(e) = S1 \cup S2
  BY DEF SesChecks
<1>4. S1 \in SUBSET D /\ S2 \in SUBSET D
  BY <1>3
<1> HIDE DEF S1, S2
<1>5. Within(w, S1 \cup S2, 33)
  BY <1>4, <1>1, <1>2, UnionWithin
<1> QED  BY <1>3, <1>5

LEMMA LegWithin ==
    ASSUME NEW e, NEW D, NEW w \in [D -> Nat], LegChecks(e) \subseteq D, \A c \in D : w[c] <= Lesser(c)
    PROVE  Within(w, LegChecks(e), 14)
<1>1. /\ Lesser(PrivacyPolicyLinked(e)) = 9
      /\ Lesser(TermsLinked(e)) = 2
      /\ Lesser(CookiePolicyLinked(e)) = 2
      /\ Lesser(ContactInfoPresent(e)) = 1
  BY DEF Lesser, Deduction, SeverityMultiplier, ConfidenceFactor, CheckOf, Indicated,
     PrivacyPolicyLinked, TermsLinked, CookiePolicyLinked, ContactInfoPresent
<1>2. /\ PrivacyPolicyLinked(e) \in D
      /\ TermsLinked(e) \in D
      /\ CookiePolicyLinked(e) \in D
      /\ ContactInfoPresent(e) \in D
  BY DEF LegChecks
<1>3. /\ w[PrivacyPolicyLinked(e)] \in 0 .. 9
      /\ w[TermsLinked(e)] \in 0 .. 2
      /\ w[CookiePolicyLinked(e)] \in 0 .. 2
      /\ w[ContactInfoPresent(e)] \in 0 .. 1
  BY <1>1, <1>2
<1> QED  BY <1>2, <1>3, FourWithin DEF LegChecks

LEMMA CmpWithin ==
    ASSUME NEW e, NEW D, NEW w \in [D -> Nat], CmpChecks(e) \subseteq D, \A c \in D : w[c] <= Lesser(c)
    PROVE  Within(w, CmpChecks(e), 18)
<1>1. /\ Lesser(TrackerWithoutConsentLibrary(e)) = 9
      /\ Lesser(GaUsesConsentMode(e)) = 2
      /\ Lesser(NoPrecheckedMarketingCheckbox(e)) = 6
      /\ Lesser(ConsentNoticeReferencesPrivacyPolicy(e)) = 1
  BY DEF Lesser, Deduction, SeverityMultiplier, ConfidenceFactor, CheckOf, Indicated,
     TrackerWithoutConsentLibrary, GaUsesConsentMode, NoPrecheckedMarketingCheckbox,
     ConsentNoticeReferencesPrivacyPolicy
<1>2. /\ TrackerWithoutConsentLibrary(e) \in D
      /\ GaUsesConsentMode(e) \in D
      /\ NoPrecheckedMarketingCheckbox(e) \in D
      /\ ConsentNoticeReferencesPrivacyPolicy(e) \in D
  BY DEF CmpChecks
<1>3. /\ w[TrackerWithoutConsentLibrary(e)] \in 0 .. 9
      /\ w[GaUsesConsentMode(e)] \in 0 .. 2
      /\ w[NoPrecheckedMarketingCheckbox(e)] \in 0 .. 6
      /\ w[ConsentNoticeReferencesPrivacyPolicy(e)] \in 0 .. 1
  BY <1>1, <1>2
<1> QED  BY <1>2, <1>3, FourWithin DEF CmpChecks

LEMMA DepWithin ==
    ASSUME NEW e, NEW D, NEW w \in [D -> Nat], DepChecks(e) \subseteq D, \A c \in D : w[c] <= Lesser(c)
    PROVE  Within(w, DepChecks(e), 43)
<1>1. /\ Lesser(SriPresentOnThirdPartyScripts(e)) = 24
      /\ Lesser(NoKnownOldLibrary(e)) = 9
      /\ Lesser(BoundedThirdPartyOrigins(e)) = 1
      /\ Lesser(NoUnpinnedCdnVersion(e)) = 9
  BY DEF Lesser, Deduction, SeverityMultiplier, ConfidenceFactor, CheckOf, Confirmed, Indicated,
     SriPresentOnThirdPartyScripts, NoKnownOldLibrary, BoundedThirdPartyOrigins,
     NoUnpinnedCdnVersion
<1>2. /\ SriPresentOnThirdPartyScripts(e) \in D
      /\ NoKnownOldLibrary(e) \in D
      /\ BoundedThirdPartyOrigins(e) \in D
      /\ NoUnpinnedCdnVersion(e) \in D
  BY DEF DepChecks
<1>3. /\ w[SriPresentOnThirdPartyScripts(e)] \in 0 .. 24
      /\ w[NoKnownOldLibrary(e)] \in 0 .. 9
      /\ w[BoundedThirdPartyOrigins(e)] \in 0 .. 1
      /\ w[NoUnpinnedCdnVersion(e)] \in 0 .. 9
  BY <1>1, <1>2
<1> QED  BY <1>2, <1>3, FourWithin DEF DepChecks

LEMMA CliWithin ==
    ASSUME NEW e, NEW D, NEW w \in [D -> Nat], CliChecks(e) \subseteq D, \A c \in D : w[c] <= Lesser(c)
    PROVE  Within(w, CliChecks(e), 20)
<1> DEFINE S1 == {NoAwsKey(e), NoStripeSecret(e), NoSlackToken(e), NoGithubGitlabToken(e)}
           S2 == {NoPrivateKeyBlock(e), NoGenericSecret(e), NoSourceMapComment(e),
                  NoDevBuildMarker(e)}
           S3 == {BoundedConsoleCalls(e), NoHardcodedInternalHostname(e), NoAwsKey(e),
                  NoAwsKey(e)}
<1>1. Within(w, S1, 0)
  <2>1. /\ Lesser(NoAwsKey(e)) = 0
        /\ Lesser(NoStripeSecret(e)) = 0
        /\ Lesser(NoSlackToken(e)) = 0
        /\ Lesser(NoGithubGitlabToken(e)) = 0
    BY DEF Lesser, Deduction, SeverityMultiplier, ConfidenceFactor, CheckOf, Confirmed, NoAwsKey,
       NoStripeSecret, NoSlackToken, NoGithubGitlabToken
  <2>2. /\ NoAwsKey(e) \in D
        /\ NoStripeSecret(e) \in D
        /\ NoSlackToken(e) \in D
        /\ NoGithubGitlabToken(e) \in D
    BY DEF CliChecks
  <2>3. /\ w[NoAwsKey(e)] \in 0 .. 0
        /\ w[NoStripeSecret(e)] \in 0 .. 0
        /\ w[NoSlackToken(e)] \in 0 .. 0
        /\ w[NoGithubGitlabToken(e)] \in 0 .. 0
    BY <2>1, <2>2
  <2> QED  BY <2>2, <2>3, FourWithin
<1>2. Within(w, S2, 18)
  <2>1. /\ Lesser(NoPrivateKeyBlock(e)) = 0
        /\ Lesser(NoGenericSecret(e)) = 12
        /\ Lesser(NoSourceMapComment(e)) = 4
        /\ Lesser(NoDevBuildMarker(e)) = 2
    BY DEF Lesser, Deduction, SeverityMultiplier, ConfidenceFactor, CheckOf, Confirmed, Indicated,
       NoPrivateKeyBlock, NoGenericSecret, NoSourceMapComment, NoDevBuildMarker
  <2>2. /\ NoPrivateKeyBlock(e) \in D
        /\ NoGenericSecret(e) \in D
        /\ NoSourceMapComment(e) \in D
        /\ NoDevBuildMarker(e) \in D
    BY DEF CliChecks
  <2>3. /\ w[NoPrivateKeyBlock(e)] \in 0 .. 0
        /\ w[NoGenericSecret(e)] \in 0 .. 12
        /\ w[NoSourceMapComment(e)] \in 0 .. 4
        /\ w[NoDevBuildMarker(e)] \in 0 .. 2
    BY <2>1, <2>2
  <2> QED  BY <2>2, <2>3, FourWithin
<1>3. Within(w, S3, 2)
  <2>1. /\ Lesser(BoundedConsoleCalls(e)) = 0
        /\ Lesser(NoHardcodedInternalHostname(e)) = 2
        /\ Lesser(NoAwsKey(e)) = 0
    BY DEF Lesser, Deduction, SeverityMultiplier, ConfidenceFactor, CheckOf, Confirmed, Indicated,
       BoundedConsoleCalls, NoHardcodedInternalHostname, NoAwsKey
  <2>2. /\ BoundedConsoleCalls(e) \in D
        /\ NoHardcodedInternalHostname(e) \in D
        /\ NoAwsKey(e) \in D
    BY DEF CliChecks
  <2>3. /\ w[BoundedConsoleCalls(e)] \in 0 .. 0
        /\ w[NoHardcodedInternalHostname(e)] \in 0 .. 2
        /\ w[NoAwsKey(e)] \in 0 .. 0
    BY <2>1, <2>2
  <2> QED  BY <2>2, <2>3, FourWithin
<1>4. CliChecks(e) = S1 \cup S2 \cup S3
  BY DEF CliChecks
<1>5. S1 \in SUBSET D /\ S2 \in SUBSET D /\ S3 \in SUBSET D
  BY <1>4
<1> HIDE DEF S1, S2, S3
<1>6. Within(w, S1 \cup S2, 18)
  BY <1>5, <1>1, <1>2, UnionWithin
<1>7. Within(w, S1 \cup S2 \cup S3, 20)
  BY <1>5, <1>6, <1>3, UnionWithin
<1> QED  BY <1>4, <1>7

LEMMA ExpWithin ==
    ASSUME NEW e, NEW D, NEW w \in [D -> Nat], ExpChecks(e) \subseteq D, \A c \in D : w[c] <= Lesser(c)
    PROVE  Within(w, ExpChecks(e), 52)
<1> DEFINE S1 == {SecurityTxtPresent(e), RobotsTxtPresent(e), SitemapPresent(e),
                  ManifestPresent(e)}
           S2 == {NoVerboseErrorPage(e), NoRepoMetadataExposed(e), NoBackupArtefactsExposed(e),
                  NoExposedConfigFiles(e)}
           S3 == {NoDebugRoutesExposed(e), NoTestRoutesExposed(e), NoDirectoryListingEnabled(e),
                  NoDefaultAdminPanelExposed(e)}
<1>1. Within(w, S1, 2)
  <2>1. /\ Lesser(SecurityTxtPresent(e)) = 2
        /\ Lesser(RobotsTxtPresent(e)) = 0
        /\ Lesser(SitemapPresent(e)) = 0
        /\ Lesser(ManifestPresent(e)) = 0
    BY DEF Lesser, Deduction, SeverityMultiplier, ConfidenceFactor, CheckOf, Confirmed,
       SecurityTxtPresent, RobotsTxtPresent, SitemapPresent, ManifestPresent
  <2>2. /\ SecurityTxtPresent(e) \in D
        /\ RobotsTxtPresent(e) \in D
        /\ SitemapPresent(e) \in D
        /\ ManifestPresent(e) \in D
    BY DEF ExpChecks
  <2>3. /\ w[SecurityTxtPresent(e)] \in 0 .. 2
        /\ w[RobotsTxtPresent(e)] \in 0 .. 0
        /\ w[SitemapPresent(e)] \in 0 .. 0
        /\ w[ManifestPresent(e)] \in 0 .. 0
    BY <2>1, <2>2
  <2> QED  BY <2>2, <2>3, FourWithin
<1>2. Within(w, S2, 0)
  <2>1. /\ Lesser(NoVerboseErrorPage(e)) = 0
        /\ Lesser(NoRepoMetadataExposed(e)) = 0
        /\ Lesser(NoBackupArtefactsExposed(e)) = 0
        /\ Lesser(NoExposedConfigFiles(e)) = 0
    BY DEF Lesser, Deduction, SeverityMultiplier, ConfidenceFactor, CheckOf, Confirmed, Hidden,
       NoVerboseErrorPage, NoRepoMetadataExposed, NoBackupArtefactsExposed, NoExposedConfigFiles
  <2>2. /\ NoVerboseErrorPage(e) \in D
        /\ NoRepoMetadataExposed(e) \in D
        /\ NoBackupArtefactsExposed(e) \in D
        /\ NoExposedConfigFiles(e) \in D
    BY DEF ExpChecks
  <2>3. /\ w[NoVerboseErrorPage(e)] \in 0 .. 0
        /\ w[NoRepoMetadataExposed(e)] \in 0 .. 0
        /\ w[NoBackupArtefactsExposed(e)] \in 0 .. 0
        /\ w[NoExposedConfigFiles(e)] \in 0 .. 0
    BY <2>1, <2>2
  <2> QED  BY <2>2, <2>3, FourWithin
<1>3. Within(w, S3, 50)
  <2>1. /\ Lesser(NoDebugRoutesExposed(e)) = 30
        /\ Lesser(NoTestRoutesExposed(e)) = 3
        /\ Lesser(NoDirectoryListingEnabled(e)) = 15
        /\ Lesser(NoDefaultAdminPanelExposed(e)) = 2
    BY DEF Lesser, Deduction, SeverityMultiplier, ConfidenceFactor, CheckOf, Hidden,
       NoDebugRoutesExposed, NoTestRoutesExposed, NoDirectoryListingEnabled,
       NoDefaultAdminPanelExposed
  <2>2. /\ NoDebugRoutesExposed(e) \in D
        /\ NoTestRoutesExposed(e) \in D
        /\ NoDirectoryListingEnabled(e) \in D
        /\ NoDefaultAdminPanelExposed(e) \in D
    BY DEF ExpChecks
  <2>3. /\ w[NoDebugRoutesExposed(e)] \in 0 .. 30
        /\ w[NoTestRoutesExposed(e)] \in 0 .. 3
        /\ w[NoDirectoryListingEnabled(e)] \in 0 .. 15
        /\ w[NoDefaultAdminPanelExposed(e)] \in 0 .. 2
    BY <2>1, <2>2
  <2> QED  BY <2>2, <2>3, FourWithin
<1>4. ExpChecks(e) = S1 \cup S2 \cup S3
  BY DEF ExpChecks
<1>5. S1 \in SUBSET D /\ S2 \in SUBSET D /\ S3 \in SUBSET D
  BY <1>4
<1> HIDE DEF S1, S2, S3
<1>6. Within(w, S1 \cup S2, 2)
  BY <1>5, <1>1, <1>2, UnionWithin
<1>7. Within(w, S1 \cup S2 \cup S3, 52)
  BY <1>5, <1>6, <1>3, UnionWithin
<1> QED  BY <1>4, <1>7

LEMMA DatWithin ==
    ASSUME NEW e, NEW D, NEW w \in [D -> Nat], DatChecks(e) \subseteq D, \A c \in D : w[c] <= Lesser(c)
    PROVE  Within(w, DatChecks(e), 0)
<1>1. /\ Lesser(NoServiceRoleKeyExposed(e)) = 0
      /\ Lesser(SupabaseSchemaNotIntrospectable(e)) = 0
      /\ Lesser(FirebaseNotPubliclyReadable(e)) = 0
      /\ Lesser(NoPublicBucketListing(e)) = 0
  BY DEF Lesser, Deduction, SeverityMultiplier, ConfidenceFactor, CheckOf, Confirmed, Indicated,
     NoServiceRoleKeyExposed, SupabaseSchemaNotIntrospectable, FirebaseNotPubliclyReadable,
     NoPublicBucketListing
<1>2. /\ NoServiceRoleKeyExposed(e) \in D
      /\ SupabaseSchemaNotIntrospectable(e) \in D
      /\ FirebaseNotPubliclyReadable(e) \in D
      /\ NoPublicBucketListing(e) \in D
  BY DEF DatChecks
<1>3. /\ w[NoServiceRoleKeyExposed(e)] \in 0 .. 0
      /\ w[SupabaseSchemaNotIntrospectable(e)] \in 0 .. 0
      /\ w[FirebaseNotPubliclyReadable(e)] \in 0 .. 0
      /\ w[NoPublicBucketListing(e)] \in 0 .. 0
  BY <1>1, <1>2
<1> QED  BY <1>2, <1>3, FourWithin DEF DatChecks

\* What one finding deducts.
LEMMA DeductionOf ==
    ASSUME NEW c, Manifest(c)
    PROVE  /\ Deduction(c) \in Nat
           /\ Lesser(c) \in Nat
           /\ Deduction(c) = 0 <=> c.severity = "info"
<1>1. PICK m \in {0, 1, 3, 6, 10} : /\ m = SeverityMultiplier[c.severity]
                                    /\ m = 0 <=> c.severity = "info"
  BY DEF Manifest, SeverityOrder, SeverityMultiplier
<1>2. PICK k \in {1, 2} : k = ConfidenceFactor[c.confidence]
  BY DEF Manifest, ConfidenceFactor
<1>3. PICK n \in Nat : n = c.weight /\ (m # 0 => n > 0)
  BY <1>1 DEF Manifest
<1>4. Deduction(c) = n * m * k
  BY <1>1, <1>2, <1>3 DEF Deduction
<1>5. n * m \in Nat /\ (n * m = 0 <=> m = 0)
  <2>1. CASE m = 0
    BY <2>1, <1>3
  <2>2. CASE m = 1
    BY <2>2, <1>3
  <2>3. CASE m = 3
    BY <2>3, <1>3
  <2>4. CASE m = 6
    BY <2>4, <1>3
  <2>5. CASE m = 10
    BY <2>5, <1>3
  <2> QED  BY <2>1, <2>2, <2>3, <2>4, <2>5
<1>6. n * m * k \in Nat /\ (n * m * k = 0 <=> n * m = 0)
  <2>1. CASE k = 1
    BY <2>1, <1>5
  <2>2. CASE k = 2
    BY <2>2, <1>5
  <2> QED  BY <2>1, <2>2
<1>7. Deduction(c) \in Nat /\ (Deduction(c) = 0 <=> c.severity = "info")
  BY <1>1, <1>4, <1>5, <1>6
<1> QED  BY <1>7 DEF Lesser

LEMMA RegistryWithin ==
    ASSUME NEW e, NEW w \in [Registry(e) -> Nat], \A c \in Registry(e) : w[c] <= Lesser(c)
    PROVE  Within(w, Registry(e), 287)
<1> DEFINE D == Registry(e)
           G1 == HdrChecks(e)
           G2 == TlsChecks(e)
           G3 == SesChecks(e)
           G4 == LegChecks(e)
           G5 == DepChecks(e)
           G6 == CmpChecks(e)
           G7 == CliChecks(e)
           G8 == ExpChecks(e)
           G9 == DatChecks(e)
<1>1. D = G1 \cup G2 \cup G3 \cup G4 \cup G5 \cup G6 \cup G7 \cup G8 \cup G9
  BY DEF Registry
<1>2. /\ G1 \in SUBSET D /\ G2 \in SUBSET D /\ G3 \in SUBSET D /\ G4 \in SUBSET D /\ G5 \in SUBSET D
      /\ G6 \in SUBSET D /\ G7 \in SUBSET D /\ G8 \in SUBSET D /\ G9 \in SUBSET D
  BY <1>1
<1>3. w \in [D -> Nat] /\ \A c \in D : w[c] <= Lesser(c)
  OBVIOUS
<1> HIDE DEF D
<1>g1. Within(w, G1, 76)
  BY <1>2, <1>3, HdrWithin
<1>g2. Within(w, G2, 31)
  BY <1>2, <1>3, TlsWithin
<1>g3. Within(w, G3, 33)
  BY <1>2, <1>3, SesWithin
<1>g4. Within(w, G4, 14)
  BY <1>2, <1>3, LegWithin
<1>g5. Within(w, G5, 43)
  BY <1>2, <1>3, DepWithin
<1>g6. Within(w, G6, 18)
  BY <1>2, <1>3, CmpWithin
<1>g7. Within(w, G7, 20)
  BY <1>2, <1>3, CliWithin
<1>g8. Within(w, G8, 52)
  BY <1>2, <1>3, ExpWithin
<1>g9. Within(w, G9, 0)
  BY <1>2, <1>3, DatWithin
<1> DEFINE U2 == G1 \cup G2
           U3 == U2 \cup G3
           U4 == U3 \cup G4
           U5 == U4 \cup G5
           U6 == U5 \cup G6
           U7 == U6 \cup G7
           U8 == U7 \cup G8
           U9 == U8 \cup G9
<1>5. /\ U9 = D
      /\ U2 \in SUBSET D /\ U3 \in SUBSET D /\ U4 \in SUBSET D /\ U5 \in SUBSET D
      /\ U6 \in SUBSET D /\ U7 \in SUBSET D /\ U8 \in SUBSET D
  BY <1>1, <1>2
<1> HIDE DEF G1, G2, G3, G4, G5, G6, G7, G8, G9, U2, U3, U4, U5, U6, U7, U8, U9
<1>6. Within(w, U2, 107)
  BY ONLY <1>2, <1>3, <1>5, <1>g2, <1>g1, UnionWithin DEF U2
<1>7. Within(w, U3, 140)
  BY ONLY <1>2, <1>3, <1>5, <1>g3, <1>6, UnionWithin DEF U3
<1>8. Within(w, U4, 154)
  BY ONLY <1>2, <1>3, <1>5, <1>g4, <1>7, UnionWithin DEF U4
<1>9. Within(w, U5, 197)
  BY ONLY <1>2, <1>3, <1>5, <1>g5, <1>8, UnionWithin DEF U5
<1>10. Within(w, U6, 215)
  BY ONLY <1>2, <1>3, <1>5, <1>g6, <1>9, UnionWithin DEF U6
<1>11. Within(w, U7, 235)
  BY ONLY <1>2, <1>3, <1>5, <1>g7, <1>10, UnionWithin DEF U7
<1>12. Within(w, U8, 287)
  BY ONLY <1>2, <1>3, <1>5, <1>g8, <1>11, UnionWithin DEF U8
<1>13. Within(w, U9, 287)
  BY ONLY <1>2, <1>3, <1>5, <1>g9, <1>12, UnionWithin DEF U9
<1> QED  BY <1>5, <1>13 DEF D

LEMMA RegistryFinite == ASSUME NEW e PROVE IsFiniteSet(Registry(e))
<1> DEFINE w == [c \in Registry(e) |-> 0]
<1>1. w \in [Registry(e) -> Nat] /\ \A c \in Registry(e) : w[c] <= Lesser(c)
  BY RegistryManifests, DeductionOf
<1> HIDE DEF w
<1> QED  BY <1>1, RegistryWithin DEF Within

LEMMA LargestOfTwo ==
    ASSUME NEW n \in Nat
    PROVE  Max({0, 2000 - n}) = IF n <= 2000 THEN 2000 - n ELSE 0
<1> DEFINE S == {0, 2000 - n}
           m == IF n <= 2000 THEN 2000 - n ELSE 0
<1>1. m \in S /\ \A y \in S : m >= y
  OBVIOUS
<1>2. \A x \in S : (\A y \in S : x >= y) => x = m
  <2> SUFFICES ASSUME NEW x \in S, \A y \in S : x >= y PROVE x = m  OBVIOUS
  <2>1. x >= m /\ m >= x /\ x \in Int /\ m \in Int
    BY <1>1
  <2> QED  BY ONLY <2>1
<1> HIDE DEF S, m
<1>3. Max(S) \in S /\ \A y \in S : Max(S) >= y
  BY <1>1 DEF Max
<1>4. Max(S) = m
  BY <1>2, <1>3
<1> QED  BY <1>4 DEF S, m

\* What each of a set of findings deducts.
Deductions(fs) == [f \in fs |-> Deduction(f)]

\* What its failed ones deduct together.
Deducted(fs) == Total(Deductions(With(fs, "failed")), With(fs, "failed"))

\* The score of a set of findings is what its failed ones leave of 2000.
LEMMA ScoreOf ==
    ASSUME NEW e, NEW fs \in SUBSET Registry(e)
    PROVE  /\ IsFiniteSet(With(fs, "failed"))
           /\ Deductions(With(fs, "failed")) \in [With(fs, "failed") -> Nat]
           /\ Deducted(fs) \in Nat
           /\ Score(fs) = IF Deducted(fs) <= 2000 THEN 2000 - Deducted(fs) ELSE 0
<1> DEFINE bad == With(fs, "failed")
           w == Deductions(bad)
           total == Total(w, bad)
<1>1. bad \in SUBSET Registry(e)
  BY DEF With
<1>2. IsFiniteSet(bad)
  BY <1>1, RegistryFinite, FS_Subset
<1>3. w \in [bad -> Nat]
  BY <1>1, RegistryManifests, DeductionOf DEF Deductions
<1>4. Score(fs) = Max({0, 2000 - MapThenSumSet(Deduction, bad)})
  BY DEF Score
<1> HIDE DEF bad
<1>5. MapThenSumSet(Deduction, bad) = total
  BY <1>2, DeductionsAreATotal DEF Deductions
<1> HIDE DEF w
<1>6. total \in Nat
  BY <1>2, <1>3, TotalType
<1> HIDE DEF total
<1>7. Max({0, 2000 - total}) = IF total <= 2000 THEN 2000 - total ELSE 0
  BY <1>6, LargestOfTwo
<1>8. Score(fs) = IF total <= 2000 THEN 2000 - total ELSE 0
  BY <1>4, <1>5, <1>7
<1>9. total = Deducted(fs)
  BY DEF w, bad, total, Deducted
<1> QED  BY <1>2, <1>3, <1>6, <1>8, <1>9 DEF w, bad

\* A perfect score means that nothing but informational checks failed.
THEOREM PerfectScore ==
    ASSUME NEW e, NEW fs \in SUBSET Registry(e)
    PROVE  Score(fs) = 2000 <=> ~BreachesThreshold(fs, "low")
<1> DEFINE bad == With(fs, "failed")
           w == Deductions(bad)
<1>1. /\ IsFiniteSet(bad)
      /\ w \in [bad -> Nat]
      /\ Deducted(fs) \in Nat
      /\ Score(fs) = IF Deducted(fs) <= 2000 THEN 2000 - Deducted(fs) ELSE 0
  BY ScoreOf
<1>2. \A f \in bad : Manifest(f) /\ w[f] = Deduction(f)
  BY RegistryManifests DEF With, Deductions
<1> HIDE DEF w
<1>3. Score(fs) = 2000 <=> Deducted(fs) = 0
  BY <1>1
<1>7. Deducted(fs) = Total(w, bad)
  BY DEF Deducted, w
<1>4. Total(w, bad) = 0 <=> \A f \in bad : w[f] = 0
  <2> HIDE DEF bad
  <2> QED  BY <1>1, TotalZero
<1>5. \A f \in bad : w[f] = 0 <=> ~(SeverityOrder[f.severity] <= SeverityOrder["low"])
  <2> SUFFICES ASSUME NEW f \in bad
               PROVE  w[f] = 0 <=> ~(SeverityOrder[f.severity] <= SeverityOrder["low"])
    OBVIOUS
  <2>1. w[f] = 0 <=> f.severity = "info"
    BY <1>2, DeductionOf
  <2>2. f.severity = "info" <=> ~(SeverityOrder[f.severity] <= SeverityOrder["low"])
    BY <1>2 DEF Manifest, SeverityOrder
  <2> QED  BY <2>1, <2>2
<1>6. BreachesThreshold(fs, "low") <=> \E f \in bad : SeverityOrder[f.severity] <= SeverityOrder["low"]
  BY DEF BreachesThreshold
<1> HIDE DEF bad
<1> QED  BY <1>3, <1>4, <1>5, <1>6, <1>7

\* Checks of medium severity or less never take a site below grade B.
THEOREM LesserChecksKeepB ==
    ASSUME NEW e, NEW fs \in SUBSET Registry(e), ~BreachesThreshold(fs, "high")
    PROVE  Score(fs) >= 1713 /\ GradeFor(Score(fs)) \in {"A", "B"}
<1> DEFINE D == Registry(e)
           bad == With(fs, "failed")
           v == Deductions(bad)
           w == [c \in D |-> Lesser(c)]
<1>1. /\ IsFiniteSet(bad)
      /\ Deducted(fs) \in Nat
      /\ Score(fs) = IF Deducted(fs) <= 2000 THEN 2000 - Deducted(fs) ELSE 0
  BY ScoreOf
<1>2. bad \in SUBSET D /\ \A f \in bad : Manifest(f)
  BY RegistryManifests DEF With
<1>3. \A f \in bad : v[f] = w[f]
  <2> SUFFICES ASSUME NEW f \in bad PROVE v[f] = w[f]  OBVIOUS
  <2>1. ~(SeverityOrder[f.severity] <= SeverityOrder["high"])
    BY DEF BreachesThreshold
  <2>2. f.severity \notin {"critical", "high"}
    BY <2>1 DEF SeverityOrder
  <2> QED  BY <1>2, <2>2 DEF Lesser, Deductions
<1>4. w \in [D -> Nat] /\ \A c \in D : w[c] <= Lesser(c)
  BY RegistryManifests, DeductionOf
<1> HIDE DEF v, w, bad
<1>5. IsFiniteSet(D) /\ Total(w, D) <= 287
  BY <1>4, RegistryWithin DEF Within
<1> HIDE DEF D
<1>6. Total(w, bad) <= Total(w, D)
  BY <1>2, <1>4, <1>5, TotalMonotone
<1>7. Total(v, bad) = Total(w, bad)
  BY <1>1, <1>3, TotalSame
<1>8. Total(w, D) \in Nat
  BY <1>4, <1>5, TotalType
<1>9. Deducted(fs) = Total(v, bad)
  BY DEF Deducted, v, bad
<1>10. Deducted(fs) <= 287
  BY ONLY <1>1, <1>5, <1>6, <1>7, <1>8, <1>9
<1>11. Score(fs) = 2000 - Deducted(fs)
  BY <1>1, <1>10
<1>12. Score(fs) \in Nat /\ Score(fs) >= 1713
  BY ONLY <1>1, <1>10, <1>11
<1>13. GradeFor(Score(fs)) \in {"A", "B"}
  BY ONLY <1>12 DEF GradeFor
<1> QED  BY <1>12, <1>13

=============================================================================
