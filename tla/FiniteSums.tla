------------------------------ MODULE FiniteSums ------------------------------
(***************************************************************************)
(* What proofs about the ledger and the paper accounts need to know of the *)
(* sums that both keep: SumFunctionOnSet(w, S) of the community modules,   *)
(* the sum of w[x] over the finite set S.  The library's induction         *)
(* theorems take an operator as a parameter; here every induction is a     *)
(* minimal counterexample among the subsets of a finite set.               *)
(***************************************************************************)
EXTENDS Integers, FiniteSetTheorems, Functions, TLAPS

\* Among subsets of a finite set, one contains no other.
LEMMA MinimalSet ==
    ASSUME NEW S, IsFiniteSet(S), NEW B \in SUBSET SUBSET S, B # {}
    PROVE  \E T \in B : \A U \in B : U \subseteq T => U = T
<1>1. IsWellFoundedOn(StrictSubsetOrdering(S), SUBSET S)
  BY FS_StrictSubsetOrderingWellFounded, FS_FiniteSubsetsOfFinite, Zenon
<1>2. PICK T \in B : \A U \in B : ~(<<U, T>> \in StrictSubsetOrdering(S))
  BY <1>1, WFMin, Zenon
<1>3. ASSUME NEW U \in B, U \subseteq T PROVE U = T
  <2>1. <<U, T>> \in (SUBSET S) \X (SUBSET S)
    OBVIOUS
  <2> QED BY <1>2, <1>3, <2>1 DEF StrictSubsetOrdering
<1> QED BY <1>3

-----------------------------------------------------------------------------
(* The sum as a recursive function on the subsets of S *)

Pick(s) == CHOOSE x \in s : TRUE

\* g sums w over each subset of S.
Sums(g, w, S) ==
    g = [s \in SUBSET S |-> IF s = {} THEN 0 ELSE w[Pick(s)] + g[s \ {Pick(s)}]]

\* The library's definition.
LEMMA SumUnfold ==
    ASSUME NEW w, NEW S
    PROVE  SumFunctionOnSet(w, S) = (CHOOSE g : Sums(g, w, S))[S]
BY DEF SumFunctionOnSet, FoldFunctionOnSet, MapThenFoldSet, Sums, Pick

\* A nonempty set has the element that is picked.
LEMMA PickIn == ASSUME NEW s, s # {} PROVE Pick(s) \in s
BY DEF Pick

\* The equation of g, for one set.
LEMMA SumsAt ==
    ASSUME NEW g, NEW w, NEW S, Sums(g, w, S), NEW s, s \subseteq S
    PROVE  g[s] = IF s = {} THEN 0 ELSE w[Pick(s)] + g[s \ {Pick(s)}]
BY DEF Sums

\* Two functions that sum w agree wherever both are defined.
LEMMA SumsAgree ==
    ASSUME NEW w, NEW S, IsFiniteSet(S), NEW R, IsFiniteSet(R),
           NEW g, Sums(g, w, S), NEW h, Sums(h, w, R), NEW t, t \subseteq S, t \subseteq R
    PROVE  g[t] = h[t]
<1> DEFINE B == {s \in SUBSET S : s \subseteq R /\ g[s] # h[s]}
<1>1. SUFFICES ASSUME B # {} PROVE FALSE
  OBVIOUS
<1>2. PICK s \in B : \A u \in B : u \subseteq s => u = s
  <2>1. B \in SUBSET SUBSET S
    OBVIOUS
  <2> HIDE DEF B
  <2> QED BY <1>1, <2>1, MinimalSet
<1>3. s \subseteq S /\ s \subseteq R /\ g[s] # h[s]
  OBVIOUS
<1>4. s # {}
  BY <1>3, SumsAt
<1> DEFINE u == s \ {Pick(s)}
<1>5. u \subseteq S /\ u \subseteq R /\ u \subseteq s /\ u # s
  BY <1>3, <1>4, PickIn
<1>6. g[u] = h[u]
  BY <1>2, <1>5
<1>7. g[s] = w[Pick(s)] + g[u] /\ h[s] = w[Pick(s)] + h[u]
  BY <1>3, <1>4, SumsAt
<1> QED BY <1>3, <1>6, <1>7

\* For a finite set there is such a function.
LEMMA SumsExist ==
    ASSUME NEW w, NEW S, IsFiniteSet(S)
    PROVE  \E g : Sums(g, w, S)
<1> DEFINE B == {T \in SUBSET S : ~ \E g : Sums(g, w, T)}
<1>1. SUFFICES ASSUME B # {} PROVE FALSE
  BY DEF B
<1>2. PICK T \in B : \A U \in B : U \subseteq T => U = T
  <2>1. B \in SUBSET SUBSET S
    OBVIOUS
  <2> HIDE DEF B
  <2> QED BY <1>1, <2>1, MinimalSet
<1>3. T \subseteq S /\ ~ \E g : Sums(g, w, T)
  OBVIOUS
<1> DEFINE G(U) == CHOOSE g : Sums(g, w, U)
           rest(s) == s \ {Pick(s)}
           f == [s \in SUBSET T |-> IF s = {} THEN 0 ELSE w[Pick(s)] + G(rest(s))[rest(s)]]
<1>4. ASSUME NEW U, U \subseteq T, U # T
      PROVE  Sums(G(U), w, U) /\ IsFiniteSet(U)
  <2>1. U \in SUBSET S /\ U \notin B
    BY <1>2, <1>3, <1>4
  <2>2. \E g : Sums(g, w, U)
    BY <2>1
  <2>3. IsFiniteSet(U)
    BY <2>1, FS_Subset
  <2> QED BY <2>2, <2>3, Zenon
<1>5. ASSUME NEW s \in SUBSET T, s # {}
      PROVE  G(rest(s))[rest(s)] = f[rest(s)]
  <2> DEFINE t == rest(s)
  <2>1. t \subseteq T /\ t # T
    BY <1>5, PickIn
  <2>2. Sums(G(t), w, t) /\ IsFiniteSet(t)
    BY <1>4, <2>1, Zenon
  <2>3. G(t)[t] = IF t = {} THEN 0 ELSE w[Pick(t)] + G(t)[rest(t)]
    <3> HIDE DEF t, G
    <3> QED BY <2>2, SumsAt, Zenon
  <2>4. CASE t = {}
    <3> HIDE DEF G
    <3>1. f[t] = 0
      BY <2>1, <2>4
    <3> QED BY <2>3, <2>4, <3>1
  <2>5. CASE t # {}
    <3>1. rest(t) \subseteq t /\ rest(t) # T /\ rest(t) \subseteq T
      BY <2>1
    <3>2. Sums(G(rest(t)), w, rest(t)) /\ IsFiniteSet(rest(t))
      BY <1>4, <3>1, Zenon
    <3>3. G(t)[rest(t)] = G(rest(t))[rest(t)]
      <4> DEFINE r == rest(t)
      <4>1. r \subseteq t /\ r \subseteq r /\ Sums(G(r), w, r) /\ IsFiniteSet(r)
        BY <3>1, <3>2
      <4> HIDE DEF G, t, r
      <4>2. G(t)[r] = G(r)[r]
        BY <2>2, <4>1, SumsAgree
      <4> QED BY <4>2 DEF r
    <3> HIDE DEF G
    <3>4. f[t] = w[Pick(t)] + G(rest(t))[rest(t)]
      BY <2>1, <2>5
    <3> QED BY <2>3, <2>5, <3>3, <3>4
  <2> QED BY <2>4, <2>5
<1> HIDE DEF G
<1>6. Sums(f, w, T)
  BY <1>5 DEF Sums
<1> QED BY <1>3, <1>6

-----------------------------------------------------------------------------
(* Sums *)

\* Any function that sums w gives the sum.
LEMMA SumIs ==
    ASSUME NEW w, NEW S, IsFiniteSet(S), NEW g, Sums(g, w, S)
    PROVE  SumFunctionOnSet(w, S) = g[S]
<1> DEFINE h == CHOOSE x : Sums(x, w, S)
<1>1. Sums(h, w, S)
  OBVIOUS
<1>2. SumFunctionOnSet(w, S) = h[S]
  BY SumUnfold, Zenon
<1> HIDE DEF h
<1>3. h[S] = g[S]
  BY <1>1, SumsAgree
<1> QED BY <1>2, <1>3

\* Nothing sums to zero.
LEMMA SumEmpty == ASSUME NEW w PROVE SumFunctionOnSet(w, {}) = 0
<1>1. IsFiniteSet({})
  BY FS_EmptySet
<1>2. PICK g : Sums(g, w, {})
  BY <1>1, SumsExist
<1>3. SumFunctionOnSet(w, {}) = g[{}]
  BY <1>1, <1>2, SumIs
<1> QED BY <1>2, <1>3, SumsAt

\* The sum over a nonempty set, by the element that is picked.
LEMMA SumPick ==
    ASSUME NEW w, NEW S, IsFiniteSet(S), S # {}
    PROVE  SumFunctionOnSet(w, S) = w[Pick(S)] + SumFunctionOnSet(w, S \ {Pick(S)})
<1> DEFINE R == S \ {Pick(S)}
<1>1. R \subseteq S /\ R \subseteq R /\ IsFiniteSet(R)
  BY FS_Subset
<1>2. PICK g : Sums(g, w, S)
  BY SumsExist
<1> HIDE DEF R
<1>3. PICK h : Sums(h, w, R)
  BY <1>1, SumsExist
<1>4. g[R] = h[R]
  <2>1. \A t : t \subseteq S /\ t \subseteq R => g[t] = h[t]
    BY <1>1, <1>2, <1>3, SumsAgree
  <2> QED BY <1>1, <2>1
<1>5. g[S] = w[Pick(S)] + g[R]
  BY <1>2, SumsAt DEF R
<1>6. SumFunctionOnSet(w, S) = g[S] /\ SumFunctionOnSet(w, R) = h[R]
  BY <1>1, <1>2, <1>3, SumIs
<1> QED BY <1>4, <1>5, <1>6 DEF R

\* Sums of integers are integers, sums of naturals are naturals.
LEMMA SumType ==
    ASSUME NEW w, NEW S, IsFiniteSet(S), NEW N, N = Int \/ N = Nat, \A x \in S : w[x] \in N
    PROVE  SumFunctionOnSet(w, S) \in N
<1> DEFINE B == {T \in SUBSET S : SumFunctionOnSet(w, T) \notin N}
<1>1. SUFFICES ASSUME B # {} PROVE FALSE
  OBVIOUS
<1>2. PICK T \in B : \A U \in B : U \subseteq T => U = T
  <2>1. B \in SUBSET SUBSET S
    OBVIOUS
  <2> HIDE DEF B
  <2> QED BY <1>1, <2>1, MinimalSet
<1>3. T \subseteq S /\ SumFunctionOnSet(w, T) \notin N /\ IsFiniteSet(T)
  BY FS_Subset
<1>4. T # {}
  BY <1>3, SumEmpty
<1> DEFINE R == T \ {Pick(T)}
<1>5. R \subseteq S /\ R \subseteq T /\ R # T /\ Pick(T) \in S
  BY <1>3, <1>4, PickIn
<1>6. SumFunctionOnSet(w, R) \in N
  BY <1>2, <1>5
<1>7. SumFunctionOnSet(w, T) = w[Pick(T)] + SumFunctionOnSet(w, R)
  BY <1>3, <1>4, SumPick
<1> HIDE DEF R
<1> QED BY <1>3, <1>5, <1>6, <1>7

\* Only the values on the set matter.
LEMMA SumSame ==
    ASSUME NEW w, NEW v, NEW S, IsFiniteSet(S), \A x \in S : w[x] = v[x]
    PROVE  SumFunctionOnSet(w, S) = SumFunctionOnSet(v, S)
<1>1. PICK g : Sums(g, w, S)
  BY SumsExist
<1>2. Sums(g, v, S)
  <2>1. \A s \in SUBSET S : s # {} => w[Pick(s)] = v[Pick(s)]
    BY PickIn
  <2> QED BY <1>1, <2>1 DEF Sums
<1> QED BY <1>1, <1>2, SumIs

\* Any element may be taken out.
LEMMA SumRemove ==
    ASSUME NEW w, NEW S, IsFiniteSet(S), NEW x \in S, \A y \in S : w[y] \in Int
    PROVE  SumFunctionOnSet(w, S) = w[x] + SumFunctionOnSet(w, S \ {x})
<1> DEFINE Bad(T) == \E y \in T : SumFunctionOnSet(w, T) # w[y] + SumFunctionOnSet(w, T \ {y})
           B == {T \in SUBSET S : Bad(T)}
<1>1. SUFFICES ASSUME B # {} PROVE FALSE
  OBVIOUS
<1>2. PICK T \in B : \A U \in B : U \subseteq T => U = T
  <2>1. B \in SUBSET SUBSET S
    OBVIOUS
  <2> HIDE DEF B
  <2> QED BY <1>1, <2>1, MinimalSet
<1>3. /\ T \subseteq S /\ IsFiniteSet(T)
      /\ \A U \in SUBSET S : U \subseteq T /\ U # T => ~Bad(U)
  BY <1>2, FS_Subset
<1>4. PICK y \in T : SumFunctionOnSet(w, T) # w[y] + SumFunctionOnSet(w, T \ {y})
  OBVIOUS
<1> DEFINE c == Pick(T)
           R == (T \ {c}) \ {y}
<1>5. c \in T
  BY <1>4, PickIn
<1>6. SumFunctionOnSet(w, T) = w[c] + SumFunctionOnSet(w, T \ {c})
  BY <1>3, <1>4, SumPick
<1> HIDE DEF c
<1>7. y # c
  BY <1>4, <1>6
<1>8. SumFunctionOnSet(w, T \ {c}) = w[y] + SumFunctionOnSet(w, R)
  <2>1. T \ {c} \in SUBSET S /\ T \ {c} \subseteq T /\ T \ {c} # T /\ y \in T \ {c}
    BY <1>3, <1>4, <1>5, <1>7
  <2> QED BY <1>3, <2>1
<1>9. SumFunctionOnSet(w, T \ {y}) = w[c] + SumFunctionOnSet(w, R)
  <2>1. T \ {y} \in SUBSET S /\ T \ {y} \subseteq T /\ T \ {y} # T /\ c \in T \ {y}
    BY <1>3, <1>4, <1>5, <1>7
  <2>2. (T \ {y}) \ {c} = R
    OBVIOUS
  <2>3. \A z \in T \ {y} :
            SumFunctionOnSet(w, T \ {y}) = w[z] + SumFunctionOnSet(w, (T \ {y}) \ {z})
    BY <1>3, <2>1
  <2> QED BY <2>1, <2>2, <2>3
<1>10. IsFiniteSet(R) /\ R \subseteq S
  BY <1>3, FS_Subset
<1> HIDE DEF R
<1>11. SumFunctionOnSet(w, R) \in Int
  BY <1>10, SumType
<1>12. w[c] \in Int /\ w[y] \in Int
  BY <1>3, <1>4, <1>5
<1> DEFINE sum == SumFunctionOnSet(w, R)
           wc == w[c]
           wy == w[y]
<1>13. wc \in Int /\ wy \in Int /\ sum \in Int /\ wc + (wy + sum) # wy + (wc + sum)
  BY <1>4, <1>6, <1>8, <1>9, <1>11, <1>12
<1> HIDE DEF sum, wc, wy
<1> QED BY <1>13

\* An element is added.
LEMMA SumAdd ==
    ASSUME NEW w, NEW S, IsFiniteSet(S), NEW x, x \notin S, \A y \in S \cup {x} : w[y] \in Int
    PROVE  SumFunctionOnSet(w, S \cup {x}) = w[x] + SumFunctionOnSet(w, S)
<1> DEFINE T == S \cup {x}
<1>1. IsFiniteSet(T) /\ x \in T /\ T \ {x} = S
  BY FS_AddElement
<1> HIDE DEF T
<1>2. SumFunctionOnSet(w, T) = w[x] + SumFunctionOnSet(w, T \ {x})
  BY <1>1, SumRemove DEF T
<1> QED BY <1>1, <1>2 DEF T

=============================================================================
