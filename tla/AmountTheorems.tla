---- MODULE AmountTheorems ----
(***************************************************************************)
(* Laws of SumFunctionOnSet, the sum the ledger's totals are written with, *)
(* and of the roundings of Amounts.  SumFunctionOnSet folds a set by the   *)
(* elements CHOOSE takes from it; here its value is shown to be            *)
(* independent of that order, which is what the proofs about balances and  *)
(* totals rely on.                                                         *)
(***************************************************************************)
EXTENDS Amounts, Functions, FiniteSetTheorems, WellFoundedInduction, TLAPS

Pick(S) == CHOOSE x \in S : TRUE

(* it is the function the fold of f over S iterates.                        *)
Iterates(it, f, S) ==
    it = [T \in SUBSET S |-> IF T = {} THEN 0 ELSE f[Pick(T)] + it[T \ {Pick(T)}]]

(* The sum is what the fold's function gives for the whole set.             *)
LEMMA SumUnfolds ==
    ASSUME NEW f, NEW S
    PROVE  SumFunctionOnSet(f, S) = (CHOOSE it : Iterates(it, f, S))[S]
  BY DEF SumFunctionOnSet, FoldFunctionOnSet, MapThenFoldSet, Iterates, Pick

(* Among sets of subsets of a finite set, one that is not empty has a       *)
(* minimal member: induction over subsets in the form used below.           *)
LEMMA MinimalSubset ==
    ASSUME NEW S, IsFiniteSet(S), NEW B, B \subseteq SUBSET S, B # {}
    PROVE  \E T \in B : \A U \in B : U \subseteq T => U = T
<1>1. IsWellFoundedOn(StrictSubsetOrdering(S), SUBSET S)
  BY FS_StrictSubsetOrderingWellFounded, FS_FiniteSubsetsOfFinite
<1>2. PICK T \in B : \A U \in B : <<U, T>> \notin StrictSubsetOrdering(S)
  BY <1>1, WFMin
<1>3. ASSUME NEW U \in B, U \subseteq T, U # T PROVE FALSE
  BY <1>2, <1>3 DEF StrictSubsetOrdering
<1> QED
  BY <1>3

(* Pick takes an element of the set.                                        *)
LEMMA PickOne == ASSUME NEW S, S # {} PROVE Pick(S) \in S
  BY DEF Pick

(* Iterations over two sets agree on what both contain.                     *)
LEMMA IteratesAgree ==
    ASSUME NEW f, NEW S, NEW R, IsFiniteSet(S), S \subseteq R,
           NEW g, Iterates(g, f, S), NEW h, Iterates(h, f, R)
    PROVE  g[S] = h[S]
<1> DEFINE B == {T \in SUBSET S : g[T] # h[T]}
<1>1. ASSUME B # {} PROVE FALSE
  <2>0. B \subseteq SUBSET S
    OBVIOUS
  <2>1. PICK T \in B : \A U \in B : U \subseteq T => U = T
    <3> HIDE DEF B
    <3> QED
      BY <1>1, <2>0, MinimalSubset
  <2>2. g[T] = IF T = {} THEN 0 ELSE f[Pick(T)] + g[T \ {Pick(T)}]
    BY DEF Iterates
  <2>3. h[T] = IF T = {} THEN 0 ELSE f[Pick(T)] + h[T \ {Pick(T)}]
    BY DEF Iterates
  <2>4. T # {} => g[T \ {Pick(T)}] = h[T \ {Pick(T)}]
    BY <2>1, PickOne
  <2> QED
    BY <2>1, <2>2, <2>3, <2>4
<1> QED
  BY <1>1

(* Over a finite set there is one, so CHOOSE finds one.                     *)
LEMMA IterationExists ==
    ASSUME NEW f, NEW S, IsFiniteSet(S) PROVE \E it : Iterates(it, f, S)
<1> DEFINE B == {T \in SUBSET S : ~\E it : Iterates(it, f, T)}
<1>1. ASSUME B # {} PROVE FALSE
  <2>0. B \subseteq SUBSET S
    OBVIOUS
  <2>1. PICK T \in B : \A U \in B : U \subseteq T => U = T
    <3> HIDE DEF B
    <3> QED
      BY <1>1, <2>0, MinimalSubset
  <2> DEFINE of == [U \in SUBSET T |-> CHOOSE it : Iterates(it, f, U)]
             rest(U) == U \ {Pick(U)}
             it == [U \in SUBSET T |-> IF U = {} THEN 0 ELSE f[Pick(U)] + of[rest(U)][rest(U)]]
  <2>2. ASSUME NEW U \in SUBSET T, U # T PROVE Iterates(of[U], f, U)
    BY <2>1, <2>2
  <2>3. ASSUME NEW U \in SUBSET T, U # {} PROVE rest(U) \in SUBSET T /\ rest(U) # T
    BY <2>3, PickOne
  <2>4. ASSUME NEW U \in SUBSET T, U # T PROVE of[U][U] = it[U]
    <3>1. of[U][U] = IF U = {} THEN 0 ELSE f[Pick(U)] + of[U][rest(U)]
      <4>1. Iterates(of[U], f, U)
        BY <2>2, <2>4
      <4> HIDE DEF of
      <4> QED
        BY <4>1 DEF Iterates
    <3>2. ASSUME U # {} PROVE of[U][rest(U)] = of[rest(U)][rest(U)]
      <4>1. Iterates(of[U], f, U) /\ Iterates(of[rest(U)], f, rest(U))
        BY <2>2, <2>3, <2>4, <3>2
      <4>2. IsFiniteSet(rest(U)) /\ rest(U) \subseteq U
        BY FS_Subset
      <4> HIDE DEF of, rest
      <4> QED
        BY <4>1, <4>2, IteratesAgree
    <3> QED
      BY <3>1, <3>2
  <2>5. ASSUME NEW U \in SUBSET T
        PROVE  it[U] = IF U = {} THEN 0 ELSE f[Pick(U)] + it[rest(U)]
    <3>1. it[U] = IF U = {} THEN 0 ELSE f[Pick(U)] + of[rest(U)][rest(U)]
      OBVIOUS
    <3>2. U # {} => of[rest(U)][rest(U)] = it[rest(U)]
      BY <2>3, <2>4
    <3> HIDE DEF it, of
    <3> QED
      BY <3>1, <3>2
  <2>6. it = [U \in SUBSET T |-> IF U = {} THEN 0 ELSE f[Pick(U)] + it[rest(U)]]
    <3>1. it = [U \in SUBSET T |-> it[U]]
      OBVIOUS
    <3> HIDE DEF it
    <3> QED
      BY <2>5, <3>1
  <2>7. Iterates(it, f, T)
    <3> HIDE DEF it
    <3> QED
      BY <2>6 DEF Iterates
  <2> QED
    BY <2>1, <2>7
<1> QED
  BY <1>1

-----------------------------------------------------------------------------
(* The recursion of the sum, in the order of Pick.                          *)
LEMMA SumRecursion ==
    ASSUME NEW f, NEW S, IsFiniteSet(S)
    PROVE  SumFunctionOnSet(f, S) =
             IF S = {} THEN 0 ELSE f[Pick(S)] + SumFunctionOnSet(f, S \ {Pick(S)})
<1> DEFINE rest == S \ {Pick(S)}
           it == CHOOSE it : Iterates(it, f, S)
           jt == CHOOSE jt : Iterates(jt, f, rest)
<1>1. IsFiniteSet(rest) /\ rest \subseteq S
  BY FS_Subset
<1>2. Iterates(it, f, S)
  BY IterationExists
<1>3. Iterates(jt, f, rest)
  <2> HIDE DEF rest
  <2> QED
    BY <1>1, IterationExists
<1>4. it[S] = IF S = {} THEN 0 ELSE f[Pick(S)] + it[rest]
  <2> HIDE DEF it
  <2> QED
    BY <1>2 DEF Iterates
<1>5. jt[rest] = it[rest]
  <2> HIDE DEF it, jt, rest
  <2> QED
    BY <1>1, <1>2, <1>3, IteratesAgree
<1>6. SumFunctionOnSet(f, S) = it[S]
  BY SumUnfolds
<1>7. SumFunctionOnSet(f, rest) = jt[rest]
  BY SumUnfolds
<1> HIDE DEF it, jt
<1> QED
  BY <1>4, <1>5, <1>6, <1>7

(* The empty sum.                                                           *)
LEMMA SumEmpty == ASSUME NEW f PROVE SumFunctionOnSet(f, {}) = 0
  BY SumRecursion, FS_EmptySet

(* f has integer values on S.                                               *)
Summable(f, S) == IsFiniteSet(S) /\ \A x \in S : f[x] \in Int

(* What can be summed can be summed in part.                                *)
LEMMA SummablePart ==
    ASSUME NEW f, NEW S, Summable(f, S), NEW T, T \subseteq S PROVE Summable(f, T)
  BY FS_Subset DEF Summable

(* A sum of integers is one.                                                *)
LEMMA SumType ==
    ASSUME NEW f, NEW S, Summable(f, S) PROVE SumFunctionOnSet(f, S) \in Int
<1> DEFINE B == {T \in SUBSET S : SumFunctionOnSet(f, T) \notin Int}
<1>1. ASSUME B # {} PROVE FALSE
  <2>0. B \subseteq SUBSET S
    OBVIOUS
  <2>1. PICK T \in B : \A U \in B : U \subseteq T => U = T
    <3> HIDE DEF B
    <3> QED
      BY <1>1, <2>0, MinimalSubset DEF Summable
  <2>2. IsFiniteSet(T)
    BY FS_Subset DEF Summable
  <2>3. T # {} => /\ Pick(T) \in T
                  /\ SumFunctionOnSet(f, T \ {Pick(T)}) \in Int
    BY <2>1, PickOne
  <2>4. T # {} => f[Pick(T)] \in Int
    BY <2>3 DEF Summable
  <2>5. SumFunctionOnSet(f, T) =
          IF T = {} THEN 0 ELSE f[Pick(T)] + SumFunctionOnSet(f, T \ {Pick(T)})
    BY <2>2, SumRecursion
  <2> QED
    BY <2>1, <2>3, <2>4, <2>5
<1> QED
  BY <1>1

(* Any element can be taken out of a sum, not only the one CHOOSE takes.    *)
LEMMA SumRemove ==
    ASSUME NEW f, NEW S, Summable(f, S), NEW x \in S
    PROVE  SumFunctionOnSet(f, S) = f[x] + SumFunctionOnSet(f, S \ {x})
<1> DEFINE sum(T) == SumFunctionOnSet(f, T)
           B == {T \in SUBSET S : \E y \in T : sum(T) # f[y] + sum(T \ {y})}
<1>1. ASSUME B # {} PROVE FALSE
  <2>0. B \subseteq SUBSET S
    OBVIOUS
  <2>1. PICK T \in B : \A U \in B : U \subseteq T => U = T
    <3> HIDE DEF B
    <3> QED
      BY <1>1, <2>0, MinimalSubset DEF Summable
  <2>2. PICK y \in T : sum(T) # f[y] + sum(T \ {y})
    BY <2>1
  <2> DEFINE c == Pick(T)
  <2>3. c \in T
    BY PickOne
  <2>4. sum(T) = f[c] + sum(T \ {c})
    BY <2>2, SumRecursion, FS_Subset DEF Summable
  <2>5. c # y
    BY <2>2, <2>4
  <2>6. T \ {c} \notin B /\ T \ {y} \notin B
    BY <2>1, <2>2, <2>3
  <2>7. sum(T \ {c}) = f[y] + sum((T \ {c}) \ {y})
    BY <2>5, <2>6
  <2>8. sum(T \ {y}) = f[c] + sum((T \ {y}) \ {c})
    BY <2>3, <2>5, <2>6
  <2>9. (T \ {c}) \ {y} = (T \ {y}) \ {c}
    OBVIOUS
  <2>10. f[c] \in Int /\ f[y] \in Int /\ sum((T \ {y}) \ {c}) \in Int
    <3>1. f[c] \in Int /\ f[y] \in Int
      BY <2>3 DEF Summable
    <3>2. Summable(f, (T \ {y}) \ {c})
      BY SummablePart
    <3> QED
      BY <3>1, <3>2, SumType
  <2>11. \A p, q, n \in Int : p + (q + n) = q + (p + n)
    OBVIOUS
  <2>12. f[c] + (f[y] + sum((T \ {y}) \ {c})) = f[y] + (f[c] + sum((T \ {y}) \ {c}))
    <3> HIDE DEF sum, c
    <3> QED
      BY <2>10, <2>11
  <2> HIDE DEF sum, c
  <2> QED
    BY <2>2, <2>4, <2>7, <2>8, <2>9, <2>12, Zenon
<1> QED
  BY <1>1

(* One element more.                                                        *)
LEMMA SumAdd ==
    ASSUME NEW f, NEW S, NEW x, x \notin S, Summable(f, S \cup {x})
    PROVE  SumFunctionOnSet(f, S \cup {x}) = SumFunctionOnSet(f, S) + f[x]
<1>1. (S \cup {x}) \ {x} = S
  OBVIOUS
<1>2. SumFunctionOnSet(f, S \cup {x}) = f[x] + SumFunctionOnSet(f, S)
  BY <1>1, SumRemove
<1>3. SumFunctionOnSet(f, S) \in Int /\ f[x] \in Int
  BY SummablePart, SumType DEF Summable
<1> QED
  BY <1>2, <1>3

(* The sum over one element.                                                *)
LEMMA SumOne ==
    ASSUME NEW f, NEW x, f[x] \in Int PROVE SumFunctionOnSet(f, {x}) = f[x]
<1>1. Summable(f, {x}) /\ {x} \ {x} = {}
  BY FS_Singleton DEF Summable
<1>2. SumFunctionOnSet(f, {x}) = f[x] + SumFunctionOnSet(f, {x} \ {x})
  BY <1>1, SumRemove
<1> QED
  BY <1>1, <1>2, SumEmpty

(* The sum over two elements.                                               *)
LEMMA SumTwo ==
    ASSUME NEW f, NEW x, NEW y, x # y, f[x] \in Int, f[y] \in Int
    PROVE  SumFunctionOnSet(f, {x, y}) = f[x] + f[y]
<1>1. Summable(f, {x, y}) /\ {x, y} \ {x} = {y}
  <2>1. IsFiniteSet({x} \cup {y})
    BY FS_Singleton, FS_AddElement
  <2>2. {x} \cup {y} = {x, y}
    OBVIOUS
  <2> QED
    BY <2>1, <2>2 DEF Summable
<1>2. SumFunctionOnSet(f, {x, y}) = f[x] + SumFunctionOnSet(f, {x, y} \ {x})
  BY <1>1, SumRemove
<1> QED
  BY <1>1, <1>2, SumOne

(* A sum depends on the values of f in the set only.                        *)
LEMMA SumSame ==
    ASSUME NEW f, NEW g, NEW S, Summable(f, S), \A x \in S : f[x] = g[x]
    PROVE  SumFunctionOnSet(f, S) = SumFunctionOnSet(g, S)
<1> DEFINE B == {T \in SUBSET S : SumFunctionOnSet(f, T) # SumFunctionOnSet(g, T)}
<1>1. ASSUME B # {} PROVE FALSE
  <2>0. B \subseteq SUBSET S
    OBVIOUS
  <2>1. PICK T \in B : \A U \in B : U \subseteq T => U = T
    <3> HIDE DEF B
    <3> QED
      BY <1>1, <2>0, MinimalSubset DEF Summable
  <2>2. IsFiniteSet(T)
    BY FS_Subset DEF Summable
  <2>3. T # {} => /\ Pick(T) \in T
                  /\ SumFunctionOnSet(f, T \ {Pick(T)}) = SumFunctionOnSet(g, T \ {Pick(T)})
    BY <2>1, PickOne
  <2>4. /\ SumFunctionOnSet(f, T) =
             IF T = {} THEN 0 ELSE f[Pick(T)] + SumFunctionOnSet(f, T \ {Pick(T)})
        /\ SumFunctionOnSet(g, T) =
             IF T = {} THEN 0 ELSE g[Pick(T)] + SumFunctionOnSet(g, T \ {Pick(T)})
    BY <2>2, SumRecursion
  <2> QED
    BY <2>1, <2>3, <2>4
<1> QED
  BY <1>1

(* The sum over the union of two sets that share nothing.                   *)
LEMMA SumUnion ==
    ASSUME NEW f, NEW S, NEW R, Summable(f, S \cup R), S \cap R = {}
    PROVE  SumFunctionOnSet(f, S \cup R) = SumFunctionOnSet(f, S) + SumFunctionOnSet(f, R)
<1> DEFINE sum(T) == SumFunctionOnSet(f, T)
           B == {T \in SUBSET R : sum(S \cup T) # sum(S) + sum(T)}
<1>0. IsFiniteSet(R) /\ Summable(f, S)
  BY FS_Subset, SummablePart DEF Summable
<1>1. ASSUME B # {} PROVE FALSE
  <2>0. B \subseteq SUBSET R
    OBVIOUS
  <2>1. PICK T \in B : \A U \in B : U \subseteq T => U = T
    <3> HIDE DEF B
    <3> QED
      BY <1>0, <1>1, <2>0, MinimalSubset
  <2>2. CASE T = {}
    <3>1. sum({}) = 0 /\ S \cup {} = S /\ sum(S) \in Int
      BY <1>0, SumEmpty, SumType
    <3> QED
      BY <2>1, <2>2, <3>1
  <2>3. CASE T # {}
    <3> DEFINE c == Pick(T)
    <3>1. c \in T /\ c \notin S
      BY <2>3, PickOne
    <3>2. (S \cup T) \ {c} = S \cup (T \ {c}) /\ T \ {c} \notin B
      BY <2>1, <3>1
    <3>3. Summable(f, S \cup T) /\ Summable(f, T) /\ Summable(f, T \ {c})
      BY SummablePart
    <3>4. sum(S \cup T) = f[c] + sum(S \cup (T \ {c}))
      BY <3>1, <3>2, <3>3, SumRemove
    <3>5. sum(T) = f[c] + sum(T \ {c})
      BY <3>1, <3>3, SumRemove
    <3>6. sum(S \cup (T \ {c})) = sum(S) + sum(T \ {c})
      BY <3>2
    <3>7. f[c] \in Int /\ sum(S) \in Int /\ sum(T \ {c}) \in Int
      BY <1>0, <3>1, <3>3, SumType DEF Summable
    <3>8. \A p, q, n \in Int : p + (q + n) = q + (p + n)
      OBVIOUS
    <3>9. f[c] + (sum(S) + sum(T \ {c})) = sum(S) + (f[c] + sum(T \ {c}))
      <4> HIDE DEF sum, c
      <4> QED
        BY <3>7, <3>8
    <3>10. sum(S \cup T) # sum(S) + sum(T)
      BY <2>1
    <3> HIDE DEF sum, c
    <3> QED
      BY <3>4, <3>5, <3>6, <3>9, <3>10, Zenon
  <2> QED
    BY <2>2, <2>3
<1> QED
  BY <1>1

(* A sum of zeros.                                                          *)
LEMMA SumZero ==
    ASSUME NEW f, NEW S, IsFiniteSet(S), \A x \in S : f[x] = 0
    PROVE  SumFunctionOnSet(f, S) = 0
<1> DEFINE B == {T \in SUBSET S : SumFunctionOnSet(f, T) # 0}
<1>1. ASSUME B # {} PROVE FALSE
  <2>0. B \subseteq SUBSET S
    OBVIOUS
  <2>1. PICK T \in B : \A U \in B : U \subseteq T => U = T
    <3> HIDE DEF B
    <3> QED
      BY <1>1, <2>0, MinimalSubset
  <2>2. T # {} => /\ f[Pick(T)] = 0
                  /\ SumFunctionOnSet(f, T \ {Pick(T)}) = 0
    BY <2>1, PickOne
  <2>3. SumFunctionOnSet(f, T) =
          IF T = {} THEN 0 ELSE f[Pick(T)] + SumFunctionOnSet(f, T \ {Pick(T)})
    BY FS_Subset, SumRecursion
  <2> QED
    BY <2>1, <2>2, <2>3
<1> QED
  BY <1>1

(* The sum of the negated values.                                           *)
LEMMA SumNegated ==
    ASSUME NEW f, NEW g, NEW S, Summable(f, S), \A x \in S : g[x] = -f[x]
    PROVE  SumFunctionOnSet(g, S) = -SumFunctionOnSet(f, S)
<1> DEFINE B == {T \in SUBSET S : SumFunctionOnSet(g, T) # -SumFunctionOnSet(f, T)}
<1>1. ASSUME B # {} PROVE FALSE
  <2>0. B \subseteq SUBSET S
    OBVIOUS
  <2>1. PICK T \in B : \A U \in B : U \subseteq T => U = T
    <3> HIDE DEF B
    <3> QED
      BY <1>1, <2>0, MinimalSubset DEF Summable
  <2>2. CASE T = {}
    BY <2>1, <2>2, SumEmpty
  <2>3. CASE T # {}
    <3> DEFINE c == Pick(T)
    <3>1. /\ c \in T /\ f[c] \in Int /\ g[c] = -f[c]
          /\ SumFunctionOnSet(g, T \ {c}) = -SumFunctionOnSet(f, T \ {c})
      BY <2>1, <2>3, PickOne DEF Summable
    <3>2. /\ SumFunctionOnSet(f, T) = f[c] + SumFunctionOnSet(f, T \ {c})
          /\ SumFunctionOnSet(g, T) = g[c] + SumFunctionOnSet(g, T \ {c})
      BY <2>3, FS_Subset, SumRecursion DEF Summable
    <3>3. SumFunctionOnSet(f, T \ {c}) \in Int
      BY SummablePart, SumType
    <3>4. SumFunctionOnSet(g, T) # -SumFunctionOnSet(f, T)
      BY <2>1
    <3> HIDE DEF c
    <3> QED
      BY <3>1, <3>2, <3>3, <3>4
  <2> QED
    BY <2>2, <2>3
<1> QED
  BY <1>1

(* A finite set has finitely many images.                                   *)
LEMMA FiniteImage ==
    ASSUME NEW S, IsFiniteSet(S), NEW b PROVE IsFiniteSet({b[x] : x \in S})
<1> DEFINE image == {b[x] : x \in S}
           map == [x \in S |-> b[x]]
<1>1. map \in Surjection(S, image)
  BY DEF Surjection
<1>2. IsFiniteSet(image)
  <2> HIDE DEF image, map
  <2> QED
    BY <1>1, FS_Surjection, Zenon
<1> QED
  BY <1>2

(* A sum over the images of a set under a function that is one to one.      *)
LEMMA SumRenamed ==
    ASSUME NEW f, NEW S, NEW b, IsFiniteSet(S), NEW g,
           \A x, y \in S : b[x] = b[y] => x = y,
           \A x \in S : f[b[x]] = g[x] /\ g[x] \in Int
    PROVE  SumFunctionOnSet(f, {b[x] : x \in S}) = SumFunctionOnSet(g, S)
<1> DEFINE image(T) == {b[x] : x \in T}
           B == {T \in SUBSET S : SumFunctionOnSet(f, image(T)) # SumFunctionOnSet(g, T)}
<1>1. ASSUME B # {} PROVE FALSE
  <2>0. B \subseteq SUBSET S
    OBVIOUS
  <2>1. PICK T \in B : \A U \in B : U \subseteq T => U = T
    <3> HIDE DEF B
    <3> QED
      BY <1>1, <2>0, MinimalSubset
  <2>2. CASE T = {}
    <3>1. image({}) = {}
      OBVIOUS
    <3> QED
      BY <2>1, <2>2, <3>1, SumEmpty
  <2>3. CASE T # {}
    <3> DEFINE c == Pick(T)
    <3>1. c \in T /\ f[b[c]] = g[c] /\ g[c] \in Int
      BY <2>3, PickOne
    <3>2. image(T) \ {b[c]} = image(T \ {c}) /\ b[c] \in image(T)
      BY <3>1
    <3>3. SumFunctionOnSet(f, image(T \ {c})) = SumFunctionOnSet(g, T \ {c})
      BY <2>1, <3>1
    <3>4. IsFiniteSet(T)
      BY FS_Subset
    <3>5. Summable(g, T) /\ Summable(f, image(T))
      <4>1. IsFiniteSet(image(T))
        BY <3>4, FiniteImage
      <4> QED
        BY <3>4, <4>1 DEF Summable
    <3>6. SumFunctionOnSet(g, T) = g[c] + SumFunctionOnSet(g, T \ {c})
      BY <3>1, <3>5, SumRemove
    <3>7. SumFunctionOnSet(f, image(T)) = f[b[c]] + SumFunctionOnSet(f, image(T) \ {b[c]})
      <4> HIDE DEF image, c
      <4> QED
        BY <3>2, <3>5, SumRemove
    <3>8. SumFunctionOnSet(f, image(T)) # SumFunctionOnSet(g, T)
      BY <2>1
    <3> HIDE DEF image, c
    <3> QED
      BY <3>1, <3>2, <3>3, <3>6, <3>7, <3>8
  <2> QED
    BY <2>2, <2>3
<1> QED
  BY <1>1

(* A sum over sets that share nothing is the sum of their sums.             *)
LEMMA SumOfSums ==
    ASSUME NEW I, IsFiniteSet(I), NEW F, NEW f, NEW g,
           \A i \in I : Summable(f, F[i]),
           \A i, j \in I : i # j => F[i] \cap F[j] = {},
           \A i \in I : g[i] = SumFunctionOnSet(f, F[i])
    PROVE  /\ Summable(f, UNION {F[i] : i \in I})
           /\ SumFunctionOnSet(f, UNION {F[i] : i \in I}) = SumFunctionOnSet(g, I)
<1> DEFINE U(J) == UNION {F[i] : i \in J}
           good(J) == /\ Summable(f, U(J))
                      /\ SumFunctionOnSet(f, U(J)) = SumFunctionOnSet(g, J)
           B == {J \in SUBSET I : ~good(J)}
<1>1. ASSUME B # {} PROVE FALSE
  <2>0. B \subseteq SUBSET I
    OBVIOUS
  <2>1. PICK J \in B : \A K \in B : K \subseteq J => K = J
    <3> HIDE DEF B
    <3> QED
      BY <1>1, <2>0, MinimalSubset
  <2>2. CASE J = {}
    <3>1. U({}) = {}
      OBVIOUS
    <3>2. Summable(f, {})
      BY FS_EmptySet DEF Summable
    <3> QED
      BY <2>1, <2>2, <3>1, <3>2, SumEmpty
  <2>3. CASE J # {}
    <3> DEFINE c == Pick(J)
               rest == J \ {c}
    <3>1. c \in J /\ c \in I
      BY <2>3, PickOne
    <3>2. U(J) = U(rest) \cup F[c] /\ U(rest) \cap F[c] = {}
      BY <3>1
    <3>3. good(rest)
      <4>1. rest \in SUBSET I /\ rest \notin B
        <5> HIDE DEF B
        <5> QED
          BY <2>0, <2>1, <3>1
      <4> HIDE DEF good, rest
      <4> QED
        BY <4>1
    <3>4. Summable(f, U(J))
      <4>1. Summable(f, U(rest)) /\ Summable(f, F[c])
        BY <3>1, <3>3
      <4> HIDE DEF U, rest, c
      <4>2. IsFiniteSet(U(rest)) /\ IsFiniteSet(F[c])
        BY <4>1 DEF Summable
      <4>3. IsFiniteSet(U(J))
        <5>1. IsFiniteSet(U(rest) \cup F[c])
          BY <4>2, FS_Union
        <5> QED
          BY <3>2, <5>1
      <4>4. \A x \in U(J) : f[x] \in Int
        BY <3>2, <4>1 DEF Summable
      <4> QED
        BY <4>3, <4>4 DEF Summable
    <3>5. SumFunctionOnSet(f, U(J)) = SumFunctionOnSet(f, U(rest)) + SumFunctionOnSet(f, F[c])
      <4> HIDE DEF U, rest, c
      <4> QED
        BY <3>2, <3>4, SumUnion
    <3>6. SumFunctionOnSet(g, J) = g[c] + SumFunctionOnSet(g, rest)
      BY <2>3, FS_Subset, SumRecursion
    <3>7. g[c] = SumFunctionOnSet(f, F[c]) /\ g[c] \in Int
      BY <3>1, SumType
    <3>8. SumFunctionOnSet(f, U(rest)) = SumFunctionOnSet(g, rest)
          /\ SumFunctionOnSet(f, U(rest)) \in Int
      BY <3>3, SumType
    <3>9. good(J)
      <4> HIDE DEF U, rest, c
      <4> QED
        BY <3>4, <3>5, <3>6, <3>7, <3>8
    <3> QED
      BY <2>1, <3>9
  <2> QED
    BY <2>2, <2>3
<1>2. good(I)
  BY <1>1
<1> QED
  BY <1>2

(* The family F over I cuts U into disjoint parts over which f can be summed. *)
Parts(f, F, I, U) ==
    /\ IsFiniteSet(I) /\ \A i \in I : Summable(f, F[i])
    /\ \A x : x \in U <=> \E i \in I : x \in F[i]
    /\ \A i, j \in I : i # j => F[i] \cap F[j] = {}

(* A sum over a set is the sum of the sums over its parts.                  *)
LEMMA SumByParts ==
    ASSUME NEW f, NEW F, NEW I, NEW U, Parts(f, F, I, U),
           NEW g, \A i \in I : g[i] = SumFunctionOnSet(f, F[i])
    PROVE  Summable(f, U) /\ SumFunctionOnSet(f, U) = SumFunctionOnSet(g, I)
<1>1. U = UNION {F[i] : i \in I}
  BY DEF Parts
<1> QED
  BY <1>1, SumOfSums DEF Parts

(* Sums of values that are half of b apart at most are half of b apart for  *)
(* each element at most.                                                    *)
LEMMA SumApart ==
    ASSUME NEW f, NEW g, NEW S, Summable(f, S), Summable(g, S), NEW b \in Nat,
           \A x \in S : 2 * Abs(f[x] - g[x]) <= b
    PROVE  2 * Abs(SumFunctionOnSet(f, S) - SumFunctionOnSet(g, S)) <= Cardinality(S) * b
<1> DEFINE apart(T) == 2 * Abs(SumFunctionOnSet(f, T) - SumFunctionOnSet(g, T))
           B == {T \in SUBSET S : ~(apart(T) <= Cardinality(T) * b)}
<1>1. ASSUME B # {} PROVE FALSE
  <2>0. B \subseteq SUBSET S
    OBVIOUS
  <2>1. PICK T \in B : \A U \in B : U \subseteq T => U = T
    <3> HIDE DEF B
    <3> QED
      BY <1>1, <2>0, MinimalSubset DEF Summable
  <2>2. CASE T = {}
    <3>1. SumFunctionOnSet(f, {}) = 0 /\ SumFunctionOnSet(g, {}) = 0 /\ Cardinality({}) = 0
      BY SumEmpty, FS_EmptySet
    <3> QED
      BY <2>1, <2>2, <3>1 DEF Abs
  <2>3. CASE T # {}
    <3>1. PICK c : c = Pick(T)
      OBVIOUS
    <3>2. PICK R : R = T \ {c}
      OBVIOUS
    <3>3. c \in T /\ R \in SUBSET S /\ R # T /\ IsFiniteSet(T)
      BY <2>1, <2>3, <3>1, <3>2, PickOne, FS_Subset DEF Summable
    <3>4. apart(R) <= Cardinality(R) * b
      BY <2>1, <3>2, <3>3
    <3>5. /\ SumFunctionOnSet(f, T) = f[c] + SumFunctionOnSet(f, R)
          /\ SumFunctionOnSet(g, T) = g[c] + SumFunctionOnSet(g, R)
      BY <2>3, <3>1, <3>2, <3>3, SumRecursion
    <3>6. Cardinality(R) \in Nat /\ Cardinality(T) = Cardinality(R) + 1
      <4>1. IsFiniteSet(R)
        BY <3>2, <3>3, FS_Subset
      <4>2. Cardinality(R) = Cardinality(T) - 1
        BY <3>2, <3>3, FS_RemoveElement
      <4> QED
        BY <3>3, <4>1, <4>2, FS_CardinalityType
    <3>7. PICK n \in Nat, w \in Int : n = Cardinality(R) /\ w = n * b
      BY <3>6
    <3>8. Cardinality(T) * b = w + b
      BY <3>6, <3>7
    <3>9. /\ f[c] \in Int /\ g[c] \in Int /\ 2 * Abs(f[c] - g[c]) <= b
          /\ SumFunctionOnSet(f, R) \in Int /\ SumFunctionOnSet(g, R) \in Int
      BY <3>3, SummablePart, SumType DEF Summable
    <3>10. PICK x, y, u, v \in Int : /\ x = f[c] /\ y = g[c]
                                    /\ u = SumFunctionOnSet(f, R) /\ v = SumFunctionOnSet(g, R)
      BY <3>9
    <3>11. 2 * Abs(u - v) <= w /\ 2 * Abs(x - y) <= b
      BY <3>4, <3>7, <3>9, <3>10
    <3>12. 2 * Abs((x + u) - (y + v)) <= w + b
      BY <3>11 DEF Abs
    <3>13. apart(T) <= Cardinality(T) * b
      BY <3>5, <3>8, <3>10, <3>12
    <3> QED
      BY <2>1, <3>13
  <2> QED
    BY <2>2, <2>3
<1> QED
  BY <1>1

(* A sum of values none of which is negative is not negative.               *)
LEMMA SumNat ==
    ASSUME NEW f, NEW S, Summable(f, S), \A x \in S : f[x] >= 0
    PROVE  SumFunctionOnSet(f, S) >= 0
<1> DEFINE B == {T \in SUBSET S : ~(SumFunctionOnSet(f, T) >= 0)}
<1>1. ASSUME B # {} PROVE FALSE
  <2>0. B \subseteq SUBSET S
    OBVIOUS
  <2>1. PICK T \in B : \A U \in B : U \subseteq T => U = T
    <3> HIDE DEF B
    <3> QED
      BY <1>1, <2>0, MinimalSubset DEF Summable
  <2>2. CASE T = {}
    <3>1. SumFunctionOnSet(f, {}) = 0
      BY SumEmpty
    <3> QED
      BY <2>1, <2>2, <3>1
  <2> SUFFICES ASSUME T # {} PROVE FALSE
    BY <2>2
  <2>3. PICK c, R : c = Pick(T) /\ R = T \ {c}
    OBVIOUS
  <2>4. c \in T /\ R \in SUBSET S /\ R # T /\ IsFiniteSet(T)
    BY <2>1, <2>3, PickOne, FS_Subset DEF Summable
  <2>5. SumFunctionOnSet(f, T) = f[c] + SumFunctionOnSet(f, R)
    BY <2>3, <2>4, SumRecursion
  <2>6. SumFunctionOnSet(f, R) \in Int /\ SumFunctionOnSet(f, R) >= 0 /\ f[c] \in Int
    BY <2>1, <2>3, <2>4, SummablePart, SumType DEF Summable
  <2> QED
    BY <2>1, <2>4, <2>5, <2>6
<1> QED
  BY <1>1

(* A sum of multiples is one.                                               *)
LEMMA SumMultiple ==
    ASSUME NEW f, NEW S, IsFiniteSet(S), NEW g \in Int, \A x \in S : \E k \in Int : f[x] = k * g
    PROVE  \E k \in Int : SumFunctionOnSet(f, S) = k * g
<1> DEFINE multiple(T) == \E k \in Int : SumFunctionOnSet(f, T) = k * g
           B == {T \in SUBSET S : ~multiple(T)}
<1>1. ASSUME B # {} PROVE FALSE
  <2>0. B \subseteq SUBSET S
    OBVIOUS
  <2>1. PICK T \in B : \A U \in B : U \subseteq T => U = T
    <3> HIDE DEF B
    <3> QED
      BY <1>1, <2>0, MinimalSubset
  <2>2. CASE T = {}
    <3>1. SumFunctionOnSet(f, {}) = 0 /\ 0 = 0 * g /\ 0 \in Int
      BY SumEmpty
    <3> QED
      BY <2>1, <2>2, <3>1
  <2> SUFFICES ASSUME T # {} PROVE FALSE
    BY <2>2
  <2>3. PICK c, R : c = Pick(T) /\ R = T \ {c}
    OBVIOUS
  <2>4. c \in T /\ R \in SUBSET S /\ R # T /\ IsFiniteSet(T)
    BY <2>1, <2>3, PickOne, FS_Subset
  <2>5. SumFunctionOnSet(f, T) = f[c] + SumFunctionOnSet(f, R)
    BY <2>3, <2>4, SumRecursion
  <2>6. PICK i \in Int : f[c] = i * g
    BY <2>1, <2>4
  <2>7. PICK j \in Int : SumFunctionOnSet(f, R) = j * g
    BY <2>1, <2>3, <2>4
  <2>8. i * g + j * g = (i + j) * g /\ i + j \in Int
    OBVIOUS
  <2> QED
    BY <2>1, <2>5, <2>6, <2>7, <2>8
<1> QED
  BY <1>1

-----------------------------------------------------------------------------
(* Rounding.  What division does.                                           *)
LEMMA DivBounds ==
    ASSUME NEW a \in Int, NEW b \in Nat \ {0}
    PROVE  a \div b \in Int /\ b * (a \div b) <= a /\ a < b * (a \div b) + b
  OBVIOUS

(* ROUND_HALF_UP goes to a multiple of the grain, half a grain away at most. *)
LEMMA HalfUpNear ==
    ASSUME NEW x \in Int, NEW g \in Nat \ {0}
    PROVE  /\ \E k \in Int : RoundHalfUp(x, g) = k * g
           /\ RoundHalfUp(x, g) \in Int
           /\ 2 * Abs(x - RoundHalfUp(x, g)) <= g
<1>1. PICK m \in Nat : m = Abs(x)
  BY DEF Abs
<1>2. PICK q : q = (2 * m + g) \div (2 * g)
  OBVIOUS
<1>3. 2 * g \in Nat \ {0} /\ 2 * m + g \in Int
  OBVIOUS
<1>4. q \in Int /\ (2 * g) * q <= 2 * m + g /\ 2 * m + g < (2 * g) * q + 2 * g
  BY <1>2, <1>3, DivBounds
<1>5. PICK p \in Int : p = q * g
  BY <1>4
<1>6. (2 * g) * q = 2 * p
  BY <1>4, <1>5
<1>7. RoundHalfUp(x, g) = IF x < 0 THEN -p ELSE p
  BY <1>1, <1>2, <1>5 DEF RoundHalfUp
<1>8. \E k \in Int : RoundHalfUp(x, g) = k * g
  <2>1. -p = (-q) * g /\ -q \in Int
    BY <1>4, <1>5
  <2> QED
    BY <1>4, <1>5, <1>7, <2>1
<1>9. 2 * Abs(m - p) <= g
  BY <1>4, <1>6 DEF Abs
<1>10. x - RoundHalfUp(x, g) = IF x < 0 THEN -(m - p) ELSE m - p
  BY <1>1, <1>7 DEF Abs
<1> QED
  BY <1>7, <1>8, <1>9, <1>10 DEF Abs

(* Two multiples less than a grain apart are one.                           *)
LEMMA GridGap ==
    ASSUME NEW g \in Nat \ {0}, NEW i \in Int, NEW j \in Int,
           Abs(i * g - j * g) < g
    PROVE  i = j
<1>1. PICK d \in Int : d = i - j
  OBVIOUS
<1>2. i * g - j * g = d * g
  BY <1>1
<1>3. d >= 1 => d * g >= g
  OBVIOUS
<1>4. d <= -1 => d * g <= -g
  OBVIOUS
<1>5. d * g \in Int
  OBVIOUS
<1>6. PICK e \in Int : e = d * g
  BY <1>5
<1>7. d = 0
  BY <1>2, <1>3, <1>4, <1>6 DEF Abs
<1> QED
  BY <1>1, <1>7

(* A multiple of the grain is rounded to itself.                            *)
LEMMA HalfUpExact ==
    ASSUME NEW g \in Nat \ {0}, NEW k \in Int PROVE RoundHalfUp(k * g, g) = k * g
<1>1. PICK x \in Int : x = k * g
  OBVIOUS
<1>2. PICK j \in Int : RoundHalfUp(x, g) = j * g
  BY HalfUpNear
<1>3. PICK y \in Int : y = j * g
  OBVIOUS
<1>4. 2 * Abs(x - y) <= g
  BY <1>2, <1>3, HalfUpNear
<1>5. Abs(k * g - j * g) < g
  BY <1>1, <1>3, <1>4 DEF Abs
<1>6. k = j
  BY <1>5, GridGap
<1> QED
  BY <1>1, <1>2, <1>6

(* ROUND_HALF_EVEN goes to a multiple of the grain, half a grain away at     *)
(* most: of the two multiples next to x that are half of it away, one is    *)
(* even.                                                                    *)
LEMMA HalfEvenNear ==
    ASSUME NEW x \in Int, NEW g \in Nat \ {0}
    PROVE  RoundHalfEven(x, g) \in Int /\ 2 * Abs(x - RoundHalfEven(x, g)) <= g
<1>1. PICK q \in Int : q = x \div g
  BY DivBounds
<1>2. PICK p \in Int : p = q * g
  OBVIOUS
<1>3. g * q <= x /\ x < g * q + g
  BY <1>1, DivBounds
<1>4. p <= x /\ x < p + g /\ (q + 1) * g = p + g
  BY <1>2, <1>3
<1>5. p \div g = q /\ (p + g) \div g = q + 1
  <2>1. \A i, k \in Int : k = i * g => k \div g = i
    <3> SUFFICES ASSUME NEW i \in Int, NEW k \in Int, k = i * g PROVE k \div g = i
      OBVIOUS
    <3>1. PICK j \in Int : j = k \div g
      BY DivBounds
    <3>2. g * j <= k /\ k < g * j + g
      BY <3>1, DivBounds
    <3>3. PICK y \in Int : y = j * g
      OBVIOUS
    <3>4. y <= k /\ k < y + g
      BY <3>2, <3>3
    <3>5. Abs(i * g - j * g) < g
      BY <3>3, <3>4 DEF Abs
    <3> QED
      BY <3>1, <3>5, GridGap
  <2> QED
    BY <1>2, <1>4, <2>1
<1>6. q % 2 = 0 \/ (q + 1) % 2 = 0
  OBVIOUS
<1> DEFINE near(y) == \/ 2 * Abs(x - y) < g
                      \/ 2 * Abs(x - y) = g /\ (y \div g) % 2 = 0
<1>7. near(p) \/ near(p + g)
  <2>0. \A y : 2 * Abs(x - y) < g => near(y)
    OBVIOUS
  <2>1. PICK d \in Int : d = x - p
    OBVIOUS
  <2>2. 0 <= d /\ d < g
    BY <1>4, <2>1
  <2>3. Abs(x - p) = d /\ Abs(x - (p + g)) = g - d
    BY <2>1, <2>2 DEF Abs
  <2>4. CASE 2 * d = g
    <3>1. 2 * (g - d) = g
      BY <2>4
    <3> QED
      BY <1>5, <1>6, <2>3, <2>4, <3>1
  <2>5. CASE 2 * d # g
    <3>1. 2 * d < g \/ 2 * (g - d) < g
      BY <2>2, <2>5
    <3> HIDE DEF near
    <3> QED
      BY <2>0, <2>3, <3>1
  <2> QED
    BY <2>4, <2>5
<1> DEFINE S == {(x \div g) * g, (x \div g + 1) * g}
<1>8. RoundHalfEven(x, g) = CHOOSE y \in S : near(y)
  BY DEF RoundHalfEven
<1> HIDE DEF near
<1>9. RoundHalfEven(x, g) \in {p, p + g} /\ near(RoundHalfEven(x, g))
  <2>1. S = {p, p + g}
    BY <1>1, <1>2, <1>4
  <2> HIDE DEF S
  <2> QED
    BY <1>7, <1>8, <2>1
<1>10. p \in Int /\ p + g \in Int
  BY <1>2
<1>11. \A y \in Int : near(y) => 2 * Abs(x - y) <= g
  BY DEF near, Abs
<1> QED
  BY <1>9, <1>10, <1>11

(* A value on the scale of a column is a multiple of its grain.             *)
LEMMA OnScaleMultiple ==
    ASSUME NEW x \in Int, NEW g \in Nat \ {0}, OnScale(x, g) PROVE \E k \in Int : x = k * g
<1>1. x = g * (x \div g) + (x % g) /\ x \div g \in Int
  OBVIOUS
<1>2. x = (x \div g) * g
  BY <1>1 DEF OnScale
<1> QED
  BY <1>1, <1>2

(* Adding a multiple of the grain commutes with rounding, on one side of    *)
(* zero.                                                                    *)
LEMMA HalfUpShift ==
    ASSUME NEW g \in Nat \ {0}, NEW x \in Nat, NEW j \in Int, x + j * g >= 0
    PROVE  RoundHalfUp(x + j * g, g) = RoundHalfUp(x, g) + j * g
<1>1. PICK y \in Int : y = j * g
  OBVIOUS
<1>2. PICK p, q : p = (2 * x + g) \div (2 * g) /\ q = (2 * (x + y) + g) \div (2 * g)
  OBVIOUS
<1>3. 2 * g \in Nat \ {0} /\ 2 * x + g \in Int /\ 2 * (x + y) + g \in Int
  OBVIOUS
<1>4. /\ p \in Int /\ (2 * g) * p <= 2 * x + g /\ 2 * x + g < (2 * g) * p + 2 * g
      /\ q \in Int /\ (2 * g) * q <= 2 * (x + y) + g /\ 2 * (x + y) + g < (2 * g) * q + 2 * g
  BY <1>2, <1>3, DivBounds
<1>5. PICK P, Q \in Int : P = p * (2 * g) /\ Q = (q - j) * (2 * g)
  BY <1>4
<1>6. (2 * g) * p = P /\ (2 * g) * q = Q + 2 * y
  BY <1>1, <1>4, <1>5
<1>7. Abs(P - Q) < 2 * g
  BY <1>4, <1>6 DEF Abs
<1>8. p = q - j
  <2>1. PICK h \in Nat \ {0} : h = 2 * g
    BY <1>3
  <2>2. PICK i \in Int : i = q - j
    BY <1>4
  <2>3. Abs(p * h - i * h) < h
    BY <1>5, <1>7, <2>1, <2>2
  <2> QED
    BY <1>4, <2>2, <2>3, GridGap
<1>9. RoundHalfUp(x, g) = p * g /\ RoundHalfUp(x + y, g) = q * g
  BY <1>1, <1>2 DEF RoundHalfUp, Abs
<1>10. q * g = p * g + j * g
  BY <1>4, <1>8
<1> QED
  BY <1>1, <1>9, <1>10
====
