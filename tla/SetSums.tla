------------------------------ MODULE SetSums ------------------------------
(***************************************************************************)
(* Lemmas about SumFunctionOnSet, the sum of a function over a finite set  *)
(* (the bytes of a user's files, the credits held by a user's orders).     *)
(* They need an induction over finite sets, which is made with the least   *)
(* counterexample: among the subsets of a finite set that have a property  *)
(* there is one none of whose proper subsets has it.                       *)
(***************************************************************************)
EXTENDS Integers, FiniteSets, Functions, FiniteSetTheorems, TLAPS

\* The element a sum takes first.
First(S) == CHOOSE x \in S : TRUE

\* The function g gives for each subset of S the sum of f over it.
AddsUp(g, f, S) ==
    g = [T \in SUBSET S |-> IF T = {} THEN 0 ELSE f[First(T)] + g[T \ {First(T)}]]

\* There is a first element unless the set is empty.
LEMMA FirstIsIn == ASSUME NEW S, S # {} PROVE First(S) \in S
BY DEF First

\* The definition of the sum, by way of such a function.
LEMMA SumIsChosen ==
    ASSUME NEW f, NEW S
    PROVE  SumFunctionOnSet(f, S) = (CHOOSE g : AddsUp(g, f, S))[S]
BY DEF SumFunctionOnSet, FoldFunctionOnSet, MapThenFoldSet, AddsUp, First

\* The induction: a set of subsets of a finite set has a least member.
LEMMA LeastSubset ==
    ASSUME NEW S, IsFiniteSet(S), NEW Bad, Bad \subseteq SUBSET S, Bad # {}
    PROVE  \E T \in Bad : \A U \in Bad : U \subseteq T => U = T
<1>1. IsWellFoundedOn(StrictSubsetOrdering(S), SUBSET S)
  BY FS_StrictSubsetOrderingWellFounded, FS_FiniteSubsetsOfFinite
<1>2. \E T \in Bad : \A U \in Bad : ~ (<<U, T>> \in StrictSubsetOrdering(S))
  BY <1>1, WFMin
<1>. QED  BY <1>2 DEF StrictSubsetOrdering

-----------------------------------------------------------------------------
(* The sum is well defined                                                 *)

\* The sums over subsets do not depend on the set they are subsets of.
LEMMA SumsAgree ==
    ASSUME NEW f, NEW S, IsFiniteSet(S), NEW g, AddsUp(g, f, S), NEW U \in SUBSET S,
           NEW h, AddsUp(h, f, U)
    PROVE  \A T \in SUBSET U : g[T] = h[T]
<1> DEFINE Bad == {T \in SUBSET U : g[T] # h[T]}
<1> SUFFICES ASSUME Bad # {} PROVE FALSE
  OBVIOUS
<1>0. Bad \subseteq SUBSET U /\ IsFiniteSet(U)
  BY FS_Subset
<1>1. PICK T \in Bad : \A V \in Bad : V \subseteq T => V = T
  <2> HIDE DEF Bad
  <2>. QED  BY <1>0, LeastSubset
<1>2. g[T] = IF T = {} THEN 0 ELSE f[First(T)] + g[T \ {First(T)}]
  BY DEF AddsUp
<1>3. h[T] = IF T = {} THEN 0 ELSE f[First(T)] + h[T \ {First(T)}]
  BY DEF AddsUp
<1>4. T # {}
  BY <1>2, <1>3
<1>5. First(T) \in T
  BY <1>4, FirstIsIn
<1>6. g[T \ {First(T)}] = h[T \ {First(T)}]
  BY <1>1, <1>5
<1>. QED  BY <1>2, <1>3, <1>6

\* A finite set has its sums: if all proper subsets of T do, those of T are put
\* together from theirs.
LEMMA SumsExist ==
    ASSUME NEW f, NEW S, IsFiniteSet(S)
    PROVE  \E g : AddsUp(g, f, S)
<1> DEFINE Bad == {T \in SUBSET S : ~ \E g : AddsUp(g, f, T)}
<1> SUFFICES ASSUME Bad # {} PROVE FALSE
  OBVIOUS
<1>0. Bad \subseteq SUBSET S
  OBVIOUS
<1>1. PICK T \in Bad : \A V \in Bad : V \subseteq T => V = T
  <2> HIDE DEF Bad
  <2>. QED  BY <1>0, LeastSubset
<1> DEFINE Of(U) == CHOOSE g : AddsUp(g, f, U)
           Rest(U) == U \ {First(U)}
           g == [U \in SUBSET T |-> IF U = {} THEN 0 ELSE f[First(U)] + Of(Rest(U))[Rest(U)]]
<1>2. \A U \in SUBSET T : U # T => AddsUp(Of(U), f, U)
  BY <1>1
<1>3. \A U \in SUBSET T : U # T => IsFiniteSet(U)
  BY FS_Subset
<1>4. ASSUME NEW U \in SUBSET T, U # T PROVE Of(U)[U] = g[U]
  <2>0. Of(U) = [V \in SUBSET U |-> IF V = {} THEN 0 ELSE f[First(V)] + Of(U)[Rest(V)]]
    BY <1>2, <1>4 DEF AddsUp
  <2> HIDE DEF Of
  <2>u. U \in SUBSET U
    OBVIOUS
  <2>1. CASE U = {}
    <3>1. Of(U)[U] = 0
      BY <2>0, <2>u, <2>1
    <3>. QED  BY <2>1, <3>1
  <2>2. CASE U # {}
    <3> DEFINE V == Rest(U)
    <3>1. V \subseteq U /\ V # T /\ V \subseteq T /\ V # U
      BY <1>4, <2>2, FirstIsIn
    <3>2. Of(U)[U] = f[First(U)] + Of(U)[V]
      BY <2>0, <2>u, <2>2
    <3>3. Of(U)[V] = Of(V)[V]
      BY <1>2, <1>3, <1>4, <3>1, SumsAgree
    <3>. QED  BY <2>2, <3>2, <3>3
  <2>. QED  BY <2>1, <2>2
<1>5. \A U \in SUBSET T : U # {} => g[Rest(U)] = Of(Rest(U))[Rest(U)]
  <2> SUFFICES ASSUME NEW U \in SUBSET T, U # {}
               PROVE  g[Rest(U)] = Of(Rest(U))[Rest(U)]
    OBVIOUS
  <2>1. Rest(U) \in SUBSET T /\ Rest(U) # T
    BY FirstIsIn
  <2> HIDE DEF g, Of, Rest
  <2>. QED  BY <1>4, <2>1
<1>6. g = [U \in SUBSET T |-> IF U = {} THEN 0 ELSE f[First(U)] + g[Rest(U)]]
  <2> HIDE DEF Of
  <2>. QED  BY <1>5
<1>. QED  BY <1>1, <1>6 DEF AddsUp

-----------------------------------------------------------------------------
(* What it computes                                                        *)

\* The sum over no element is zero.
LEMMA SumEmpty == \A f : SumFunctionOnSet(f, {}) = 0
<1>1. \A f : \E g : AddsUp(g, f, {})
  BY SumsExist, FS_EmptySet
<1>. QED  BY <1>1, SumIsChosen DEF AddsUp

\* The first element is added to the sum of the others.
LEMMA SumFirst ==
    ASSUME NEW f, NEW S, IsFiniteSet(S), S # {}
    PROVE  SumFunctionOnSet(f, S) = f[First(S)] + SumFunctionOnSet(f, S \ {First(S)})
<1> DEFINE g == CHOOSE g : AddsUp(g, f, S)
           U == S \ {First(S)}
           h == CHOOSE h : AddsUp(h, f, U)
<1>1. IsFiniteSet(U)
  BY FS_Subset
<1>2. AddsUp(g, f, S) /\ AddsUp(h, f, U)
  BY <1>1, SumsExist
<1>3. g[S] = f[First(S)] + g[U]
  BY <1>2 DEF AddsUp
<1>4. g[U] = h[U]
  <2>1. U \in SUBSET S /\ U \in SUBSET U
    OBVIOUS
  <2> HIDE DEF g, h, U
  <2>2. \A T \in SUBSET U : g[T] = h[T]
    BY <1>2, <2>1, SumsAgree
  <2>. QED  BY <2>1, <2>2
<1>. QED  BY <1>3, <1>4, SumIsChosen

\* A sum of natural numbers is one.
LEMMA SumType ==
    ASSUME NEW f, NEW S, IsFiniteSet(S), \A x \in S : f[x] \in Nat
    PROVE  SumFunctionOnSet(f, S) \in Nat
<1> DEFINE Bad == {T \in SUBSET S : SumFunctionOnSet(f, T) \notin Nat}
<1> SUFFICES ASSUME Bad # {} PROVE FALSE
  OBVIOUS
<1>0. Bad \subseteq SUBSET S
  OBVIOUS
<1>1. PICK T \in Bad : \A V \in Bad : V \subseteq T => V = T
  <2> HIDE DEF Bad
  <2>. QED  BY <1>0, LeastSubset
<1>2. T # {}
  BY SumEmpty
<1>3. First(T) \in T /\ IsFiniteSet(T)
  BY <1>2, FirstIsIn, FS_Subset
<1>4. SumFunctionOnSet(f, T \ {First(T)}) \in Nat
  BY <1>1, <1>3
<1>. QED  BY <1>2, <1>3, <1>4, SumFirst

\* Functions that agree on a set have the same sum over it.
LEMMA SumSame ==
    ASSUME NEW f, NEW g, NEW S, IsFiniteSet(S), \A x \in S : f[x] = g[x]
    PROVE  SumFunctionOnSet(f, S) = SumFunctionOnSet(g, S)
<1> DEFINE Bad == {T \in SUBSET S : SumFunctionOnSet(f, T) # SumFunctionOnSet(g, T)}
<1> SUFFICES ASSUME Bad # {} PROVE FALSE
  OBVIOUS
<1>0. Bad \subseteq SUBSET S
  OBVIOUS
<1>1. PICK T \in Bad : \A V \in Bad : V \subseteq T => V = T
  <2> HIDE DEF Bad
  <2>. QED  BY <1>0, LeastSubset
<1>2. T # {}
  BY SumEmpty
<1>3. First(T) \in T /\ IsFiniteSet(T)
  BY <1>2, FirstIsIn, FS_Subset
<1>4. SumFunctionOnSet(f, T \ {First(T)}) = SumFunctionOnSet(g, T \ {First(T)})
  BY <1>1, <1>3
<1>. QED  BY <1>2, <1>3, <1>4, SumFirst

\* Any element may be taken out first: in a least set T where x may not, with the
\* first element c, both may be taken out of what the other leaves.
LEMMA SumRemove ==
    ASSUME NEW f, NEW S, IsFiniteSet(S), \A y \in S : f[y] \in Nat, NEW x \in S
    PROVE  SumFunctionOnSet(f, S) = f[x] + SumFunctionOnSet(f, S \ {x})
<1> DEFINE Sum(T) == SumFunctionOnSet(f, T)
           Bad == {T \in SUBSET S : \E y \in T : Sum(T) # f[y] + Sum(T \ {y})}
<1> SUFFICES ASSUME Bad # {} PROVE FALSE
  OBVIOUS
<1>0. Bad \subseteq SUBSET S
  OBVIOUS
<1>1. PICK T \in Bad : \A V \in Bad : V \subseteq T => V = T
  <2> HIDE DEF Bad
  <2>. QED  BY <1>0, LeastSubset
<1>2. PICK y \in T : Sum(T) # f[y] + Sum(T \ {y})
  OBVIOUS
<1>3. PICK c : c = First(T)
  OBVIOUS
<1>4. \A U \in SUBSET S : IsFiniteSet(U) /\ Sum(U) \in Nat
  BY FS_Subset, SumType
<1>5. c \in T /\ f[c] \in Nat /\ f[y] \in Nat /\ Sum(T) = f[c] + Sum(T \ {c})
  BY <1>3, <1>4, FirstIsIn, SumFirst
<1> HIDE DEF Sum
<1>6. \A V \in SUBSET T : \A v \in V : V # T => Sum(V) = f[v] + Sum(V \ {v})
  BY <1>1
<1>7. c # y
  BY <1>2, <1>5
<1>8. Sum(T \ {c}) = f[y] + Sum((T \ {c}) \ {y})
  BY <1>5, <1>6, <1>7
<1>9. Sum(T \ {y}) = f[c] + Sum((T \ {y}) \ {c})
  BY <1>5, <1>6, <1>7
<1>10. (T \ {c}) \ {y} = (T \ {y}) \ {c} /\ (T \ {y}) \ {c} \in SUBSET S
  OBVIOUS
<1>11. Sum((T \ {y}) \ {c}) \in Nat
  BY <1>4, <1>10
<1>12. PICK z \in Nat : Sum(T \ {c}) = f[y] + z /\ Sum(T \ {y}) = f[c] + z
  BY <1>8, <1>9, <1>10, <1>11
<1>. QED  BY <1>2, <1>5, <1>12

\* A new element adds its value.
LEMMA SumAdd ==
    ASSUME NEW f, NEW S, IsFiniteSet(S), NEW x, x \notin S, \A y \in S \cup {x} : f[y] \in Nat
    PROVE  SumFunctionOnSet(f, S \cup {x}) = f[x] + SumFunctionOnSet(f, S)
<1>1. IsFiniteSet(S \cup {x}) /\ (S \cup {x}) \ {x} = S /\ x \in S \cup {x}
  BY FS_AddElement
<1>2. SumFunctionOnSet(f, S \cup {x}) = f[x] + SumFunctionOnSet(f, (S \cup {x}) \ {x})
  BY <1>1, SumRemove
<1>. QED  BY <1>1, <1>2

\* A subset has no larger sum.
LEMMA SumGrows ==
    ASSUME NEW f, NEW S, IsFiniteSet(S), \A y \in S : f[y] \in Nat, NEW T \in SUBSET S
    PROVE  SumFunctionOnSet(f, T) <= SumFunctionOnSet(f, S)
<1> DEFINE Sum(U) == SumFunctionOnSet(f, U)
           Bad == {U \in SUBSET S : T \subseteq U /\ ~ (Sum(T) <= Sum(U))}
<1> SUFFICES ASSUME Bad # {} PROVE FALSE
  OBVIOUS
<1>0. Bad \subseteq SUBSET S
  OBVIOUS
<1>1. PICK U \in Bad : \A V \in Bad : V \subseteq U => V = U
  <2> HIDE DEF Bad
  <2>. QED  BY <1>0, LeastSubset
<1>2. \A V \in SUBSET S : IsFiniteSet(V) /\ Sum(V) \in Nat
  BY FS_Subset, SumType
<1>3. PICK x \in U : x \notin T
  BY <1>2
<1>4. Sum(U) = f[x] + Sum(U \ {x})
  BY <1>2, SumRemove
<1>5. Sum(T) <= Sum(U \ {x})
  BY <1>1, <1>3
<1>. QED  BY <1>2, <1>4, <1>5

\* A sum of zeros is zero.
LEMMA SumZero ==
    ASSUME NEW f, NEW S, IsFiniteSet(S), \A x \in S : f[x] = 0
    PROVE  SumFunctionOnSet(f, S) = 0
<1> DEFINE Bad == {T \in SUBSET S : SumFunctionOnSet(f, T) # 0}
<1> SUFFICES ASSUME Bad # {} PROVE FALSE
  OBVIOUS
<1>0. Bad \subseteq SUBSET S
  OBVIOUS
<1>1. PICK T \in Bad : \A V \in Bad : V \subseteq T => V = T
  <2> HIDE DEF Bad
  <2>. QED  BY <1>0, LeastSubset
<1>2. T # {}
  BY SumEmpty
<1>3. First(T) \in T /\ IsFiniteSet(T)
  BY <1>2, FirstIsIn, FS_Subset
<1>4. SumFunctionOnSet(f, T \ {First(T)}) = 0
  BY <1>1, <1>3
<1>. QED  BY <1>2, <1>3, <1>4, SumFirst

\* Changing one summand changes the sum by as much.
LEMMA SumUpdate ==
    ASSUME NEW S, IsFiniteSet(S), NEW f \in [S -> Nat], NEW x \in S, NEW v \in Nat
    PROVE  SumFunction([f EXCEPT ![x] = v]) = SumFunction(f) + v - f[x]
<1> DEFINE g == [f EXCEPT ![x] = v]
           rest == SumFunctionOnSet(f, S \ {x})
<1>1. IsFiniteSet(S \ {x})
  BY FS_Subset
<1>2. SumFunctionOnSet(f, S) = f[x] + rest
  BY SumRemove
<1>3. g \in [S -> Nat] /\ g[x] = v /\ \A y \in S \ {x} : g[y] = f[y]
  OBVIOUS
<1> HIDE DEF g
<1>4. SumFunctionOnSet(g, S) = v + SumFunctionOnSet(g, S \ {x})
  BY <1>3, SumRemove
<1>5. SumFunctionOnSet(g, S \ {x}) = rest
  BY <1>1, <1>3, SumSame
<1>6. rest \in Nat /\ f[x] \in Nat
  BY <1>1, SumType
<1>7. SumFunctionOnSet(g, S) = v + rest
  BY <1>4, <1>5
<1>8. SumFunction(g) = SumFunctionOnSet(g, S) /\ SumFunction(f) = SumFunctionOnSet(f, S)
  BY <1>3 DEF SumFunction
<1> HIDE DEF rest
<1>. QED  BY <1>2, <1>6, <1>7, <1>8 DEF g

=============================================================================
