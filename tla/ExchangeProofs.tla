--------------------------- MODULE ExchangeProofs ---------------------------
(* Proofs about Exchange, for every set of users, menu of orders, fee rate, *)
(* depth and bound.  Three parts: facts about sums; IInv, the inductive    *)
(* invariant, one lemma per action that changes what it speaks of; the     *)
(* money.                                                                  *)
EXTENDS Exchange, FiniteSetTheorems, WellFoundedInduction, TLAPS

-----------------------------------------------------------------------------
(* Sums over finite sets, for the money of the exchange: what the fold     *)
(* behind SumFunction computes when a value changes, two sums are added,   *)
(* an index is renamed or the order of summation swapped.                  *)
(*                                                                         *)
(* The fold is a recursive function chosen over the subsets of its index   *)
(* set, so every fact is an induction over finite sets.  It is made with   *)
(* Minimal: a statement that fails for some subset fails for a smallest    *)
(* one, B collects the subsets where it fails, and the smallest member T   *)
(* of B contradicts T without its first element.                           *)

\* The fold, named: one step, and being a solution of its recursion.
Pick(s) == CHOOSE x \in s : TRUE
Step(f, g, s) == IF s = {} THEN 0 ELSE f[Pick(s)] + g[s \ {Pick(s)}]
Iterates(f, S, g) == g = [s \in SUBSET S |-> Step(f, g, s)]

\* A set that is not empty contains the element Pick chooses.
LEMMA PickIn == ASSUME NEW s, s # {} PROVE Pick(s) \in s
BY DEF Pick

\* Induction over finite sets, as a smallest counterexample: in a family of
\* subsets of a finite set some member has no smaller one below it.
LEMMA Minimal ==
  ASSUME NEW S, IsFiniteSet(S), NEW T, T \subseteq SUBSET S, T # {}
  PROVE  \E x \in T : \A y \in SUBSET x : y # x => y \notin T
<1>1. IsWellFoundedOn(StrictSubsetOrdering(S), SUBSET S)
  BY FS_StrictSubsetOrderingWellFounded, FS_FiniteSubsetsOfFinite
<1>2. PICK x \in T : \A y \in T : <<y, x>> \notin StrictSubsetOrdering(S)
  BY <1>1, WFMin
<1>3. ASSUME NEW y \in SUBSET x, y # x, y \in T PROVE FALSE
  <2>1. <<y, x>> \in (SUBSET S) \X (SUBSET S)
    OBVIOUS
  <2>2. <<y, x>> \in StrictSubsetOrdering(S)
    BY <2>1, <1>3 DEF StrictSubsetOrdering
  <2> QED BY <2>2, <1>2, <1>3
<1> QED BY <1>3

\* Two runs of the fold agree on every finite set both reach.
LEMMA IterAgree ==
  ASSUME NEW f, NEW S, NEW T, NEW g, NEW h, Iterates(f, S, g), Iterates(f, T, h),
         NEW U, U \subseteq S, U \subseteq T, IsFiniteSet(U)
  PROVE  g[U] = h[U]
<1> DEFINE B == {s \in SUBSET U : g[s] # h[s]}
<1>1. SUFFICES ASSUME B # {} PROVE FALSE
  OBVIOUS
<1>2. PICK x \in B : \A y \in SUBSET x : y # x => y \notin B
  <2>1. B \subseteq SUBSET U
    OBVIOUS
  <2> HIDE DEF B
  <2> QED BY <1>1, <2>1, Minimal
<1>3. g[x] = Step(f, g, x) /\ h[x] = Step(f, h, x)
  BY DEF Iterates
<1>4. x # {} BY <1>3 DEF Step
<1>5. Pick(x) \in x BY <1>4, PickIn
<1>6. x \ {Pick(x)} \notin B /\ x \ {Pick(x)} \subseteq U
  BY <1>2, <1>5
<1>7. g[x \ {Pick(x)}] = h[x \ {Pick(x)}]
  BY <1>6
<1> QED BY <1>3, <1>4, <1>7 DEF Step

\* The recursive function of the fold exists: the CHOOSE in it means something.
LEMMA IterExists ==
  ASSUME NEW f, NEW S, IsFiniteSet(S)
  PROVE  \E g : Iterates(f, S, g)
<1> DEFINE B == {s \in SUBSET S : ~\E g : Iterates(f, s, g)}
<1>1. SUFFICES ASSUME B # {} PROVE FALSE
  OBVIOUS
<1>2. PICK T \in B : \A y \in SUBSET T : y # T => y \notin B
  <2>1. B \subseteq SUBSET S
    OBVIOUS
  <2> HIDE DEF B
  <2> QED BY <1>1, <2>1, Minimal
<1> DEFINE G(s) == CHOOSE g : Iterates(f, s, g)
           v == [s \in SUBSET T |-> G(s)[s]]
           w == [s \in SUBSET T |-> IF s = T THEN Step(f, v, s) ELSE v[s]]
<1>3. \A s \in SUBSET T : s # T => Iterates(f, s, G(s))
  BY <1>2
<1> HIDE DEF G
<1>4. ASSUME NEW s \in SUBSET T PROVE w[s] = Step(f, w, s)
  <2>1. CASE s = {} /\ s = T
    BY <2>1 DEF Step
  <2>2. CASE s = {} /\ s # T
    <3>1. w[s] = G(s)[s]
      BY <2>2
    <3>2. G(s)[s] = Step(f, G(s), s)
      BY <1>3, <2>2 DEF Iterates
    <3> QED BY <2>2, <3>1, <3>2 DEF Step
  <2>3. CASE s # {}
    <3> DEFINE r == s \ {Pick(s)}
    <3>1. Pick(s) \in s BY <2>3, PickIn
    <3>2. r \in SUBSET T /\ r # T /\ r \subseteq s /\ r # s
      BY <3>1
    <3>3. w[r] = v[r] /\ v[r] = G(r)[r]
      BY <3>2
    <3>4. CASE s = T
      BY <3>4, <2>3, <3>3 DEF Step
    <3>5. CASE s # T
      <4>1. w[s] = G(s)[s]
        BY <3>5
      <4>2. G(s)[s] = Step(f, G(s), s)
        BY <1>3, <3>5 DEF Iterates
      <4>3. IsFiniteSet(r)
        BY <3>2, FS_Subset, IsFiniteSet(S)
      <4>4. Iterates(f, s, G(s)) /\ Iterates(f, r, G(r))
        BY <1>3, <3>2, <3>5
      <4>5. G(s)[r] = G(r)[r]
        BY <4>3, <4>4, <3>2, IterAgree
      <4> QED BY <4>1, <4>2, <4>5, <3>3, <2>3 DEF Step
    <3> QED BY <3>4, <3>5
  <2> QED BY <2>1, <2>2, <2>3
<1>5. Iterates(f, T, w)
  BY <1>4 DEF Iterates
<1> QED BY <1>5, <1>2

\* SumFunctionOnSet is the value of such a recursive function.
LEMMA SumIterates ==
  ASSUME NEW f, NEW S, IsFiniteSet(S)
  PROVE  \E g : Iterates(f, S, g) /\ SumFunctionOnSet(f, S) = g[S]
<1> DEFINE it == CHOOSE g : g = [s \in SUBSET S |-> IF s = {} THEN 0
                        ELSE f[CHOOSE x \in s : TRUE] + g[s \ {CHOOSE x \in s : TRUE}]]
<1>1. SumFunctionOnSet(f, S) = it[S]
  BY DEF SumFunctionOnSet, FoldFunctionOnSet, MapThenFoldSet
<1>2. it = CHOOSE g : Iterates(f, S, g)
  BY DEF Iterates, Step, Pick
<1>3. Iterates(f, S, it)
  BY <1>2, IterExists
<1> QED BY <1>1, <1>3

\* The sum over no index is 0.
LEMMA SumEmpty == ASSUME NEW f PROVE SumFunctionOnSet(f, {}) = 0
<1>1. IsFiniteSet({})
  BY FS_EmptySet
<1>2. PICK g : Iterates(f, {}, g) /\ SumFunctionOnSet(f, {}) = g[{}]
  BY <1>1, SumIterates
<1> QED BY <1>2 DEF Iterates, Step

\* The sum takes its indices one at a time, in the order of CHOOSE.
LEMMA SumPick ==
  ASSUME NEW f, NEW S, IsFiniteSet(S), S # {}
  PROVE  /\ Pick(S) \in S
         /\ SumFunctionOnSet(f, S) = f[Pick(S)] + SumFunctionOnSet(f, S \ {Pick(S)})
<1> DEFINE r == S \ {Pick(S)}
<1>1. IsFiniteSet(r)
  BY FS_RemoveElement
<1>2. PICK g : Iterates(f, S, g) /\ SumFunctionOnSet(f, S) = g[S]
  BY SumIterates
<1>3. PICK h : Iterates(f, r, h) /\ SumFunctionOnSet(f, r) = h[r]
  BY <1>1, SumIterates
<1>4. g[r] = h[r]
  <2>1. r \subseteq S
    OBVIOUS
  <2> HIDE DEF r
  <2> QED BY <1>1, <1>2, <1>3, <2>1, IterAgree
<1>5. g[S] = Step(f, g, S)
  BY <1>2 DEF Iterates
<1> QED BY <1>2, <1>3, <1>4, <1>5, PickIn DEF Step

\* A sum of integers is an integer.
LEMMA SumType ==
  ASSUME NEW f, NEW S, IsFiniteSet(S), \A x \in S : f[x] \in Int
  PROVE  SumFunctionOnSet(f, S) \in Int
<1> DEFINE B == {s \in SUBSET S : SumFunctionOnSet(f, s) \notin Int}
<1>1. SUFFICES ASSUME B # {} PROVE FALSE
  OBVIOUS
<1>2. PICK T \in B : \A y \in SUBSET T : y # T => y \notin B
  <2>1. B \subseteq SUBSET S
    OBVIOUS
  <2> HIDE DEF B
  <2> QED BY <1>1, <2>1, Minimal
<1>3. T # {}
  BY SumEmpty
<1>4. IsFiniteSet(T)
  BY FS_Subset
<1>5. Pick(T) \in T /\ SumFunctionOnSet(f, T) = f[Pick(T)] + SumFunctionOnSet(f, T \ {Pick(T)})
  BY <1>3, <1>4, SumPick
<1>6. SumFunctionOnSet(f, T \ {Pick(T)}) \in Int
  BY <1>2, <1>5
<1> QED BY <1>5, <1>6

\* The sum depends on nothing but the values at its indices.
LEMMA SumAgree ==
  ASSUME NEW f, NEW g, NEW S, IsFiniteSet(S), \A x \in S : f[x] = g[x]
  PROVE  SumFunctionOnSet(f, S) = SumFunctionOnSet(g, S)
<1> DEFINE B == {s \in SUBSET S : SumFunctionOnSet(f, s) # SumFunctionOnSet(g, s)}
<1>1. SUFFICES ASSUME B # {} PROVE FALSE
  OBVIOUS
<1>2. PICK T \in B : \A y \in SUBSET T : y # T => y \notin B
  <2>1. B \subseteq SUBSET S
    OBVIOUS
  <2> HIDE DEF B
  <2> QED BY <1>1, <2>1, Minimal
<1>3. T # {}
  BY SumEmpty
<1>4. IsFiniteSet(T)
  BY FS_Subset
<1>5. /\ Pick(T) \in T
      /\ SumFunctionOnSet(f, T) = f[Pick(T)] + SumFunctionOnSet(f, T \ {Pick(T)})
      /\ SumFunctionOnSet(g, T) = g[Pick(T)] + SumFunctionOnSet(g, T \ {Pick(T)})
  BY <1>3, <1>4, SumPick
<1>6. SumFunctionOnSet(f, T \ {Pick(T)}) = SumFunctionOnSet(g, T \ {Pick(T)})
  BY <1>2, <1>5
<1> QED BY <1>5, <1>6

\* The order does not matter: any index may be taken first.
LEMMA SumRemove ==
  ASSUME NEW f, NEW S, IsFiniteSet(S), \A x \in S : f[x] \in Int, NEW x \in S
  PROVE  SumFunctionOnSet(f, S) = f[x] + SumFunctionOnSet(f, S \ {x})
<1> DEFINE B == {s \in SUBSET S : \E y \in s :
                   SumFunctionOnSet(f, s) # f[y] + SumFunctionOnSet(f, s \ {y})}
<1>1. SUFFICES ASSUME B # {} PROVE FALSE
  OBVIOUS
<1>2. PICK T \in B : \A y \in SUBSET T : y # T => y \notin B
  <2>1. B \subseteq SUBSET S
    OBVIOUS
  <2> HIDE DEF B
  <2> QED BY <1>1, <2>1, Minimal
<1>3. PICK y \in T : SumFunctionOnSet(f, T) # f[y] + SumFunctionOnSet(f, T \ {y})
  OBVIOUS
<1>4. IsFiniteSet(T)
  BY FS_Subset
<1> DEFINE p == Pick(T)
<1>5. p \in T /\ SumFunctionOnSet(f, T) = f[p] + SumFunctionOnSet(f, T \ {p})
  BY <1>3, <1>4, SumPick
<1>6. p # y
  BY <1>3, <1>5
<1> HIDE DEF p
<1>7. SumFunctionOnSet(f, T \ {p}) = f[y] + SumFunctionOnSet(f, (T \ {p}) \ {y})
  BY <1>2, <1>5, <1>6
<1>8. SumFunctionOnSet(f, T \ {y}) = f[p] + SumFunctionOnSet(f, (T \ {y}) \ {p})
  <2>1. T \ {y} \in SUBSET T /\ T \ {y} # T /\ p \in T \ {y} /\ T \ {y} \in SUBSET S
    BY <1>5, <1>6
  <2>2. T \ {y} \notin B
    BY <1>2, <2>1
  <2> QED BY <2>1, <2>2
<1>9. (T \ {y}) \ {p} = (T \ {p}) \ {y}
  OBVIOUS
<1>10. IsFiniteSet((T \ {y}) \ {p}) /\ (T \ {y}) \ {p} \subseteq S
  BY <1>4, FS_RemoveElement
<1>11. SumFunctionOnSet(f, (T \ {y}) \ {p}) \in Int
  BY <1>10, SumType
<1>12. f[p] \in Int /\ f[y] \in Int
  BY <1>5
<1>13. SumFunctionOnSet(f, (T \ {p}) \ {y}) = SumFunctionOnSet(f, (T \ {y}) \ {p})
  BY <1>9
<1> HIDE DEF B
<1> QED BY <1>3, <1>5, <1>7, <1>8, <1>13, <1>11, <1>12

\* A sum of sums: the values may be added index by index.
LEMMA SumPlus ==
  ASSUME NEW f, NEW g, NEW h, NEW S, IsFiniteSet(S),
         \A x \in S : f[x] \in Int /\ g[x] \in Int /\ h[x] = f[x] + g[x]
  PROVE  SumFunctionOnSet(h, S) = SumFunctionOnSet(f, S) + SumFunctionOnSet(g, S)
<1> DEFINE B == {s \in SUBSET S : SumFunctionOnSet(h, s) # SumFunctionOnSet(f, s) + SumFunctionOnSet(g, s)}
<1>1. SUFFICES ASSUME B # {} PROVE FALSE
  OBVIOUS
<1>2. PICK T \in B : \A y \in SUBSET T : y # T => y \notin B
  <2>1. B \subseteq SUBSET S
    OBVIOUS
  <2> HIDE DEF B
  <2> QED BY <1>1, <2>1, Minimal
<1>3. T # {}
  <2>1. SumFunctionOnSet(f, {}) = 0 /\ SumFunctionOnSet(g, {}) = 0 /\ SumFunctionOnSet(h, {}) = 0
    BY SumEmpty
  <2>2. SumFunctionOnSet(h, {}) = SumFunctionOnSet(f, {}) + SumFunctionOnSet(g, {})
    BY <2>1
  <2>3. {} \notin B
    BY <2>2
  <2> QED BY <2>3
<1>4. IsFiniteSet(T)
  BY FS_Subset
<1> DEFINE p == Pick(T)
<1>5. /\ p \in T
      /\ SumFunctionOnSet(f, T) = f[p] + SumFunctionOnSet(f, T \ {p})
      /\ SumFunctionOnSet(g, T) = g[p] + SumFunctionOnSet(g, T \ {p})
      /\ SumFunctionOnSet(h, T) = h[p] + SumFunctionOnSet(h, T \ {p})
  BY <1>3, <1>4, SumPick
<1> HIDE DEF p
<1>6. SumFunctionOnSet(h, T \ {p}) = SumFunctionOnSet(f, T \ {p}) + SumFunctionOnSet(g, T \ {p})
  BY <1>2, <1>5
<1>7. SumFunctionOnSet(f, T \ {p}) \in Int /\ SumFunctionOnSet(g, T \ {p}) \in Int
  <2>1. IsFiniteSet(T \ {p}) /\ T \ {p} \subseteq S
    BY <1>4, FS_RemoveElement
  <2> QED BY <2>1, SumType
<1>8. f[p] \in Int /\ g[p] \in Int /\ h[p] = f[p] + g[p]
  BY <1>5
<1> QED BY <1>5, <1>6, <1>7, <1>8

\* A common factor may be taken out.
LEMMA SumScale ==
  ASSUME NEW f, NEW c \in Int, NEW g, NEW S, IsFiniteSet(S),
         \A x \in S : f[x] \in Int /\ g[x] = c * f[x]
  PROVE  SumFunctionOnSet(g, S) = c * SumFunctionOnSet(f, S)
<1> DEFINE B == {s \in SUBSET S : SumFunctionOnSet(g, s) # c * SumFunctionOnSet(f, s)}
<1>1. SUFFICES ASSUME B # {} PROVE FALSE
  OBVIOUS
<1>2. PICK T \in B : \A y \in SUBSET T : y # T => y \notin B
  <2>1. B \subseteq SUBSET S
    OBVIOUS
  <2> HIDE DEF B
  <2> QED BY <1>1, <2>1, Minimal
<1>3. T # {}
  <2>1. SumFunctionOnSet(f, {}) = 0 /\ SumFunctionOnSet(g, {}) = 0 /\ c * 0 = 0
    BY SumEmpty
  <2> QED BY <2>1
<1>4. IsFiniteSet(T)
  BY FS_Subset
<1> DEFINE p == Pick(T)
<1>5. /\ p \in T
      /\ SumFunctionOnSet(f, T) = f[p] + SumFunctionOnSet(f, T \ {p})
      /\ SumFunctionOnSet(g, T) = g[p] + SumFunctionOnSet(g, T \ {p})
  BY <1>3, <1>4, SumPick
<1> HIDE DEF p
<1>6. SumFunctionOnSet(g, T \ {p}) = c * SumFunctionOnSet(f, T \ {p})
  BY <1>2, <1>5
<1>7. SumFunctionOnSet(f, T \ {p}) \in Int
  <2>1. IsFiniteSet(T \ {p}) /\ T \ {p} \subseteq S
    BY <1>4, FS_RemoveElement
  <2> QED BY <2>1, SumType
<1>8. f[p] \in Int /\ g[p] = c * f[p]
  BY <1>5
<1>9. \A i, j \in Int : c * (i + j) = c * i + c * j
  OBVIOUS
<1>10. SumFunctionOnSet(g, T) = c * SumFunctionOnSet(f, T)
  BY <1>5, <1>6, <1>7, <1>8, <1>9
<1> QED BY <1>10

\* Changing one value changes the sum by the difference.
LEMMA SumChange ==
  ASSUME NEW f, NEW g, NEW S, IsFiniteSet(S), NEW x \in S,
         \A y \in S : f[y] \in Int /\ g[y] \in Int,
         \A y \in S \ {x} : g[y] = f[y]
  PROVE  SumFunctionOnSet(g, S) = SumFunctionOnSet(f, S) + (g[x] - f[x])
<1>1. SumFunctionOnSet(f, S) = f[x] + SumFunctionOnSet(f, S \ {x})
  BY SumRemove
<1>2. SumFunctionOnSet(g, S) = g[x] + SumFunctionOnSet(g, S \ {x})
  BY SumRemove
<1>3. IsFiniteSet(S \ {x})
  BY FS_RemoveElement
<1>4. SumFunctionOnSet(f, S \ {x}) = SumFunctionOnSet(g, S \ {x})
  BY <1>3, SumAgree
<1>5. SumFunctionOnSet(f, S \ {x}) \in Int
  BY <1>3, SumType
<1> QED BY <1>1, <1>2, <1>4, <1>5

\* A sum of zeros is 0.
LEMMA SumZero ==
  ASSUME NEW f, NEW S, IsFiniteSet(S), \A x \in S : f[x] = 0
  PROVE  SumFunctionOnSet(f, S) = 0
<1> DEFINE B == {s \in SUBSET S : SumFunctionOnSet(f, s) # 0}
<1>1. SUFFICES ASSUME B # {} PROVE FALSE
  OBVIOUS
<1>2. PICK T \in B : \A y \in SUBSET T : y # T => y \notin B
  <2>1. B \subseteq SUBSET S
    OBVIOUS
  <2> HIDE DEF B
  <2> QED BY <1>1, <2>1, Minimal
<1>3. T # {}
  BY SumEmpty
<1>4. IsFiniteSet(T)
  BY FS_Subset
<1> DEFINE p == Pick(T)
<1>5. p \in T /\ SumFunctionOnSet(f, T) = f[p] + SumFunctionOnSet(f, T \ {p})
  BY <1>3, <1>4, SumPick
<1>6. SumFunctionOnSet(f, T \ {p}) = 0
  BY <1>2, <1>5
<1> QED BY <1>5, <1>6

\* Of a sum with one value that is not 0, that value remains.
LEMMA SumOnly ==
  ASSUME NEW f, NEW S, IsFiniteSet(S), NEW x \in S, f[x] \in Int,
         \A y \in S \ {x} : f[y] = 0
  PROVE  SumFunctionOnSet(f, S) = f[x]
<1>1. \A y \in S : f[y] \in Int
  OBVIOUS
<1>2. SumFunctionOnSet(f, S) = f[x] + SumFunctionOnSet(f, S \ {x})
  BY <1>1, SumRemove
<1>3. SumFunctionOnSet(f, S \ {x}) = 0
  BY FS_RemoveElement, SumZero
<1> QED BY <1>2, <1>3

\* The sum over two disjoint sets is the sum of the two sums.
LEMMA SumUnion ==
  ASSUME NEW f, NEW S, NEW R, IsFiniteSet(S), IsFiniteSet(R), S \cap R = {},
         \A x \in S \cup R : f[x] \in Int
  PROVE  SumFunctionOnSet(f, S \cup R) = SumFunctionOnSet(f, S) + SumFunctionOnSet(f, R)
<1> DEFINE B == {s \in SUBSET S : SumFunctionOnSet(f, s \cup R) # SumFunctionOnSet(f, s) + SumFunctionOnSet(f, R)}
<1>1. SUFFICES ASSUME B # {} PROVE FALSE
  OBVIOUS
<1>2. PICK T \in B : \A y \in SUBSET T : y # T => y \notin B
  <2>1. B \subseteq SUBSET S
    OBVIOUS
  <2> HIDE DEF B
  <2> QED BY <1>1, <2>1, Minimal
<1>3. T # {}
  <2>1. SumFunctionOnSet(f, R) \in Int
    BY SumType
  <2>2. {} \cup R = R
    OBVIOUS
  <2>3. SumFunctionOnSet(f, {}) = 0
    BY SumEmpty
  <2>4. SumFunctionOnSet(f, {} \cup R) = SumFunctionOnSet(f, R)
    BY <2>2
  <2>5. SumFunctionOnSet(f, {} \cup R) = SumFunctionOnSet(f, {}) + SumFunctionOnSet(f, R)
    BY <2>1, <2>3, <2>4
  <2>6. {} \notin B
    BY <2>5
  <2> QED BY <2>6
<1>4. IsFiniteSet(T)
  BY FS_Subset
<1> DEFINE p == Pick(T)
<1>5. /\ p \in T
      /\ SumFunctionOnSet(f, T) = f[p] + SumFunctionOnSet(f, T \ {p})
  BY <1>3, <1>4, SumPick
<1> HIDE DEF p
<1>6. SumFunctionOnSet(f, (T \ {p}) \cup R) = SumFunctionOnSet(f, T \ {p}) + SumFunctionOnSet(f, R)
  BY <1>2, <1>5
<1>7. IsFiniteSet(T \cup R) /\ T \cup R \subseteq S \cup R /\ p \in T \cup R
  BY <1>4, <1>5, FS_Union
<1>8. SumFunctionOnSet(f, T \cup R) = f[p] + SumFunctionOnSet(f, (T \cup R) \ {p})
  BY <1>7, SumRemove
<1>9. (T \cup R) \ {p} = (T \ {p}) \cup R
  BY <1>5
<1>10. SumFunctionOnSet(f, T \ {p}) \in Int /\ SumFunctionOnSet(f, R) \in Int /\ f[p] \in Int
  <2>1. IsFiniteSet(T \ {p}) /\ T \ {p} \subseteq S \cup R
    BY <1>4, FS_RemoveElement
  <2> QED BY <2>1, <1>5, SumType
<1>12. SumFunctionOnSet(f, (T \cup R) \ {p}) = SumFunctionOnSet(f, (T \ {p}) \cup R)
  BY <1>9
<1>11. SumFunctionOnSet(f, T \cup R) = SumFunctionOnSet(f, T) + SumFunctionOnSet(f, R)
  <2> HIDE DEF B
  <2> QED BY <1>5, <1>6, <1>8, <1>10, <1>12
<1> QED BY <1>11

\* Renaming the indices one to one leaves the sum alone.
LEMMA SumImage ==
  ASSUME NEW f, NEW g, NEW h, NEW S, IsFiniteSet(S),
         \A x \in S : f[x] \in Int /\ g[h[x]] = f[x],
         \A x, y \in S : h[x] = h[y] => x = y
  PROVE  SumFunctionOnSet(g, {h[x] : x \in S}) = SumFunctionOnSet(f, S)
<1> DEFINE B == {s \in SUBSET S : SumFunctionOnSet(g, {h[x] : x \in s}) # SumFunctionOnSet(f, s)}
<1>1. SUFFICES ASSUME B # {} PROVE FALSE
  OBVIOUS
<1>2. PICK T \in B : \A y \in SUBSET T : y # T => y \notin B
  <2>1. B \subseteq SUBSET S
    OBVIOUS
  <2> HIDE DEF B
  <2> QED BY <1>1, <2>1, Minimal
<1>3. T # {}
  <2>1. {h[x] : x \in {}} = {}
    OBVIOUS
  <2> QED BY <2>1, SumEmpty
<1>4. IsFiniteSet(T)
  BY FS_Subset
<1> DEFINE p == Pick(T)
<1>5. /\ p \in T
      /\ SumFunctionOnSet(f, T) = f[p] + SumFunctionOnSet(f, T \ {p})
  BY <1>3, <1>4, SumPick
<1> HIDE DEF p
<1> DEFINE I(s) == {h[x] : x \in s}
<1>6. SumFunctionOnSet(g, I(T \ {p})) = SumFunctionOnSet(f, T \ {p})
  BY <1>2, <1>5
<1>7. I(T \ {p}) = I(T) \ {h[p]} /\ h[p] \in I(T)
  BY <1>5
<1>8. /\ IsFiniteSet(I(T))
      /\ \A z \in I(T) : g[z] \in Int
  <2>1. IsFiniteSet(I(T))
    <3> DEFINE e == [x \in T |-> h[x]]
    <3>1. e \in Surjection(T, I(T))
      BY DEF Surjection
    <3> QED BY <3>1, <1>4, FS_Surjection
  <2>2. \A z \in I(T) : g[z] \in Int
    OBVIOUS
  <2> QED BY <2>1, <2>2
<1> HIDE DEF I
<1>9. SumFunctionOnSet(g, I(T)) = g[h[p]] + SumFunctionOnSet(g, I(T) \ {h[p]})
  BY <1>7, <1>8, SumRemove
<1>10. SumFunctionOnSet(g, I(T)) = SumFunctionOnSet(f, T)
  BY <1>5, <1>6, <1>7, <1>9
<1> QED BY <1>10 DEF I

\* Rows first or columns first: the order of two sums may be swapped.
LEMMA SumSwap ==
  ASSUME NEW A, NEW S, IsFiniteSet(A), IsFiniteSet(S),
         NEW d, \A i \in A, x \in S : d[i][x] \in Int
  PROVE  SumFunctionOnSet([i \in A |-> SumFunctionOnSet(d[i], S)], A)
         = SumFunctionOnSet([x \in S |-> SumFunctionOnSet([i \in A |-> d[i][x]], A)], S)
<1> DEFINE row(s) == [i \in A |-> SumFunctionOnSet(d[i], s)]
           col == [x \in S |-> SumFunctionOnSet([i \in A |-> d[i][x]], A)]
<1> DEFINE B == {s \in SUBSET S : SumFunctionOnSet(row(s), A) # SumFunctionOnSet(col, s)}
<1>1. SUFFICES ASSUME B # {} PROVE FALSE
  OBVIOUS
<1>2. PICK T \in B : \A y \in SUBSET T : y # T => y \notin B
  <2>1. B \subseteq SUBSET S
    OBVIOUS
  <2> HIDE DEF B
  <2> QED BY <1>1, <2>1, Minimal
<1>3. T # {}
  <2>1. \A i \in A : row({})[i] = 0
    BY SumEmpty
  <2> HIDE DEF row, col
  <2> QED BY <2>1, SumEmpty, SumZero
<1>4. IsFiniteSet(T)
  BY FS_Subset
<1> DEFINE p == Pick(T)
<1>5. /\ p \in T
      /\ SumFunctionOnSet(col, T) = col[p] + SumFunctionOnSet(col, T \ {p})
  BY <1>3, <1>4, SumPick
<1> HIDE DEF p
<1>6. SumFunctionOnSet(row(T \ {p}), A) = SumFunctionOnSet(col, T \ {p})
  <2> HIDE DEF row, col
  <2> QED BY <1>2, <1>5
<1>7. \A i \in A : row(T)[i] = d[i][p] + row(T \ {p})[i]
  BY <1>4, <1>5, SumRemove
<1>8. \A i \in A : row(T \ {p})[i] \in Int
  BY <1>4, FS_RemoveElement, SumType
<1> DEFINE at == [i \in A |-> d[i][p]]
<1>9. \A i \in A : at[i] \in Int /\ at[i] = d[i][p]
  BY <1>5
<1>10. col[p] = SumFunctionOnSet(at, A)
  BY <1>5
<1> HIDE DEF row, col, at
<1>11. SumFunctionOnSet(row(T), A) = SumFunctionOnSet(at, A) + SumFunctionOnSet(row(T \ {p}), A)
  <2> DEFINE rT == row(T)
             rP == row(T \ {p})
  <2>1. \A i \in A : at[i] \in Int /\ rP[i] \in Int /\ rT[i] = at[i] + rP[i]
    BY <1>7, <1>8, <1>9
  <2>2. SumFunctionOnSet(rT, A) = SumFunctionOnSet(at, A) + SumFunctionOnSet(rP, A)
    <3> HIDE DEF rT, rP
    <3> QED BY <2>1, SumPlus
  <2> QED BY <2>2
<1>12. SumFunctionOnSet(row(T), A) = SumFunctionOnSet(col, T)
  BY <1>5, <1>6, <1>10, <1>11
<1> QED BY <1>12

-----------------------------------------------------------------------------
(* What the engine's fills are, given that the book is within the orders.  *)

\* Fills never exceed what a maker has left in the database, and never touch
\* the taker or a row that is not an active LIMIT order.
LEMMA FillFacts ==
    ASSUME TypeOK, BookWithinOrders, NEW o \in OrderId, NEW k, NEW f \in Fills(o, k)
    PROVE  /\ f \in [OrderId -> Nat]
           /\ SumFunction(f) \in 0..Wanted(o)
           /\ \A m \in OrderId : f[m] <= book[m]
           /\ \A m \in OrderId : f[m] > 0 =>
                /\ m # o /\ orders[m].side # orders[o].side
                /\ Active(m) /\ orders[m].type = "LIMIT" /\ f[m] <= orders[m].leave
<1>1. f \in [OrderId -> Nat] /\ SumFunction(f) \in 0..Wanted(o)
  BY BoundsAssumption DEF Fills
<1>2. \A m \in OrderId : IF m \in Makers(o, k) THEN f[m] <= book[m] ELSE f[m] = 0
  BY DEF Fills
<1>3. \A m \in Makers(o, k) : m \in OrderId /\ m # o /\ book[m] > 0 /\ orders[m].side # orders[o].side
  BY DEF Makers, Opposite, Resting
<1>4. \A m \in OrderId : f[m] <= book[m]
  <2> SUFFICES ASSUME NEW m \in OrderId PROVE f[m] <= book[m]
    OBVIOUS
  <2>1. book[m] \in Nat
    BY DEF TypeOK
  <2> QED
    BY <1>2, <2>1
<1>5. ASSUME NEW m \in OrderId, f[m] > 0
      PROVE  /\ m # o /\ orders[m].side # orders[o].side
             /\ Active(m) /\ orders[m].type = "LIMIT" /\ f[m] <= orders[m].leave
  <2>1. m \in Makers(o, k)
    BY <1>1, <1>2, <1>5
  <2>2. Active(m) /\ orders[m].type = "LIMIT" /\ book[m] <= orders[m].leave
    BY <2>1, <1>3 DEF BookWithinOrders
  <2>3. f[m] \in Nat /\ book[m] \in Nat /\ orders[m].leave \in Nat
    BY <1>1 DEF TypeOK, OrderRow
  <2> QED
    BY <2>1, <2>2, <2>3, <1>3, <1>4
<1> QED
  BY <1>1, <1>4, <1>5

\* The book after a match is a book again, holds at most the taker's wanted
\* quantity of a LIMIT taker, and no more of the others than before.
LEMMA BookAfterFacts ==
    ASSUME TypeOK, BookWithinOrders, NEW o \in OrderId, NEW k, NEW f \in Fills(o, k)
    PROVE  /\ Wanted(o) \in Nat /\ Residual(o, f) \in 0..Wanted(o)
           /\ BookAfter(o, f) \in [OrderId -> Nat]
           /\ BookAfter(o, f)[o] = IF orders[o].type = "LIMIT" THEN Residual(o, f) ELSE 0
           /\ \A x \in OrderId \ {o} : BookAfter(o, f)[x] = book[x] - f[x]
<1>1. Wanted(o) \in Nat
  BY DEF TypeOK, OrderRow, Wanted
<1>2. Residual(o, f) \in 0..Wanted(o)
  BY <1>1, FillFacts DEF Residual
<1>3. \A x \in OrderId : book[x] - f[x] \in Nat
  BY FillFacts DEF TypeOK
<1> QED
  BY <1>1, <1>2, <1>3 DEF BookAfter

-----------------------------------------------------------------------------
(* The initial state.                                                      *)

\* The empty tables and the empty book satisfy the invariant.
LEMMA InitIInv == Init => IInv
<1> SUFFICES ASSUME Init PROVE IInv
  OBVIOUS
<1> USE BoundsAssumption, RequestAssumption, AmountAssumption
<1>1. NoOrder \in OrderRow
  BY DEF NoOrder, OrderRow, Sides, Types
<1>2. TypeOK
  <2>1. failed \in BOOLEAN
    BY DEF Init
  <2> QED
    BY <1>1, <2>1 DEF Init, TypeOK, EmptyBook, WalletRow
<1>3. OrderAccounting /\ IdsUnused
  BY DEF Init, OrderAccounting, IdsUnused, NoOrder, OrderId
<1>4. BookWithinOrders /\ ReplayReadsActive
  BY DEF Init, BookWithinOrders, ReplayReadsActive, EmptyBook
<1> QED
  BY <1>2, <1>3, <1>4 DEF IInv

-----------------------------------------------------------------------------
(* The API.                                                                *)

\* A new order row, its lock and its outbox row keep the invariant.
LEMMA SubmitIInv ==
    ASSUME IInv, NEW r \in Menu, Submit(r)
    PROVE  IInv'
<1> DEFINE o == placed + 1
           amt == Reserve(r, r.quantity)
           row == [user |-> r.user, side |-> r.side, type |-> r.type,
                   price |-> r.price, quantity |-> r.quantity,
                   filled |-> 0, leave |-> r.quantity, status |-> "OPEN"]
<1> USE BoundsAssumption, RequestAssumption, AmountAssumption
<1>1. r \in Request /\ r.quantity \in Nat \ {0} /\ r.price \in Nat
  BY DEF Request
<1>2. row \in OrderRow
  BY <1>1 DEF Request, OrderRow
<1>3. o \in OrderId /\ orders[o].status = "ABSENT"
  BY DEF Submit, OrderId, IInv, TypeOK, IdsUnused
<1>4. orders' = [orders EXCEPT ![o] = row] /\ placed' = o
  BY DEF Submit
<1>5. amt \in Nat /\ ReserveAsset(r.side) \in Assets
  <2>1. r.quantity * FeeBase \in Nat /\ r.price * r.quantity \in Nat
    BY <1>1
  <2>2. (r.price * r.quantity) * FeeBase \in Nat
    BY <2>1
  <2> QED
    BY <2>1, <2>2 DEF Reserve, Gross, ReserveAsset, Assets, Request, Sides
<1>6. wallet' \in [Users -> [Assets -> WalletRow]]
  BY <1>1, <1>5 DEF Submit, IInv, TypeOK, WalletRow, Request
<1>7. outbox' \in Seq(Command) /\ DOMAIN outbox \subseteq DOMAIN outbox'
  <2>1. [type |-> "SUBMIT", order |-> o] \in Command
    BY <1>3 DEF Command
  <2> QED
    BY <2>1 DEF Submit, IInv, TypeOK
<1>8. TypeOK'
  <2>1. orders' \in [OrderId -> OrderRow] /\ placed' \in 0..MaxOrders
    BY <1>2, <1>3, <1>4 DEF IInv, TypeOK, OrderId
  <2>2. \A k \in DOMAIN log' : log'[k] \in DOMAIN outbox'
    BY <1>7 DEF Submit, IInv, TypeOK
  <2>3. processed' \subseteq DOMAIN outbox'
    BY <1>7 DEF Submit, IInv, TypeOK
  <2> QED
    BY <1>6, <1>7, <2>1, <2>2, <2>3 DEF Submit, IInv, TypeOK, process
<1>9. OrderAccounting' /\ IdsUnused'
  <2>1. ASSUME NEW x \in OrderId
        PROVE  orders'[x] = IF x = o THEN row ELSE orders[x]
    BY <1>3, <1>4 DEF IInv, TypeOK
  <2>2. OrderAccounting'
    BY <1>1, <2>1 DEF IInv, OrderAccounting
  <2>3. IdsUnused'
    BY <1>3, <1>4, <2>1 DEF IInv, TypeOK, IdsUnused, OrderId
  <2> QED
    BY <2>2, <2>3
<1>10. BookWithinOrders' /\ ReplayReadsActive'
  BY <1>3, <1>4 DEF Submit, process, IInv, TypeOK, BookWithinOrders, ReplayReadsActive, Active
<1> QED
  BY <1>8, <1>9, <1>10 DEF IInv

\* Steps that leave the orders, the book and the replay alone keep the
\* invariant when they keep the types.
LEMMA FrameIInv ==
    ASSUME IInv, TypeOK', UNCHANGED <<orders, placed, book, todo, matcher>>
    PROVE  IInv'
BY DEF IInv, OrderAccounting, BookWithinOrders, IdsUnused, ReplayReadsActive, Active

\* A cancel request only adds to the outbox.
LEMMA CancelRequestIInv ==
    ASSUME IInv, NEW o \in OrderId, CancelRead(o) \/ CancelPublish(o)
    PROVE  IInv'
<1>1. CASE CancelRead(o)
  <2>1. TypeOK'
    BY <1>1 DEF IInv, TypeOK, CancelRead, database, kafka, process
  <2> QED
    BY <1>1, <2>1, FrameIInv DEF CancelRead, database, process
<1>2. CASE CancelPublish(o)
  <2>1. [type |-> "CANCEL", order |-> o] \in Command
    BY DEF Command
  <2>2. outbox' \in Seq(Command) /\ DOMAIN outbox \subseteq DOMAIN outbox'
    BY <1>2, <2>1 DEF CancelPublish, IInv, TypeOK
  <2>3. TypeOK'
    BY <1>2, <2>2 DEF IInv, TypeOK, CancelPublish, database, process
  <2> QED
    BY <1>2, <2>3, FrameIInv DEF CancelPublish, database, process
<1> QED
  BY <1>1, <1>2

\* Publishing a row, marked or not, only extends the log.
LEMMA RelayIInv ==
    ASSUME IInv, NEW i \in DOMAIN outbox, RelayPublish(i) \/ RelayPublishUnmarked(i)
    PROVE  IInv'
<1>1. log' = Append(log, i) /\ outbox' = outbox /\ processed' \subseteq DOMAIN outbox
  BY DEF RelayPublish, RelayPublishUnmarked, IInv, TypeOK
<1>2. i \in Nat /\ log \in Seq(Nat)
  BY DEF IInv, TypeOK
<1>3. log' \in Seq(Nat) /\ \A k \in DOMAIN log' : log'[k] \in DOMAIN outbox'
  BY <1>1, <1>2 DEF IInv, TypeOK
<1>4. TypeOK'
  BY <1>1, <1>3 DEF IInv, TypeOK, RelayPublish, RelayPublishUnmarked, database, process
<1> QED
  BY <1>4, FrameIInv DEF RelayPublish, RelayPublishUnmarked, database, process

-----------------------------------------------------------------------------
(* The matcher's handlers.                                                 *)

\* The rows a settlement writes account for their quantities, as in
\* OrderAccounting.
RowOK(r) ==
    /\ r.filled + r.leave = r.quantity
    /\ r.status = "OPEN" => r.filled = 0 /\ r.leave > 0
    /\ r.status = "PARTIAL" => r.type = "LIMIT" /\ r.filled > 0 /\ r.leave > 0
    /\ r.status = "FILLED" => r.filled > 0 /\ (r.type = "LIMIT" => r.leave = 0)

\* An active row has its whole wanted quantity left.
LEMMA ActiveRow ==
    ASSUME TypeOK, OrderAccounting, NEW o \in OrderId, Active(o)
    PROVE  /\ orders[o] \in OrderRow /\ RowOK(orders[o])
           /\ Wanted(o) = orders[o].leave /\ orders[o].leave > 0
<1>1. orders[o] \in OrderRow /\ RowOK(orders[o])
  BY DEF TypeOK, OrderAccounting, RowOK
<1> QED
  BY <1>1 DEF Active, RowOK, OrderRow, Types, Wanted

\* updateOrderAfterMatch and executeMarketOrder write a sound row for the taker;
\* a LIMIT taker with something left stays active.
LEMMA TakerRow ==
    ASSUME TypeOK, OrderAccounting, BookWithinOrders, NEW o \in OrderId, Active(o),
           NEW k, NEW f \in Fills(o, k)
    PROVE  /\ TakerAfter(o, f) \in OrderRow /\ RowOK(TakerAfter(o, f))
           /\ TakerAfter(o, f).type = orders[o].type
           /\ TakerAfter(o, f).leave = Residual(o, f)
           /\ TakerAfter(o, f).status # "ABSENT"
           /\ orders[o].type = "LIMIT" /\ Residual(o, f) > 0
                => TakerAfter(o, f).status \in {"OPEN", "PARTIAL"}
<1> DEFINE r == orders[o]
           rest == Residual(o, f)
<1>1. r \in OrderRow /\ RowOK(r) /\ Wanted(o) = r.leave /\ r.leave > 0
  BY ActiveRow
<1>2. rest \in 0..r.leave
  BY <1>1, BookAfterFacts
<1>3. r.leave \in Nat /\ r.filled \in Nat /\ r.quantity \in Nat /\ r.leave <= r.quantity
  BY <1>1 DEF RowOK, OrderRow
<1>4. rest \in Nat /\ rest <= r.quantity /\ r.quantity - rest \in Nat /\ r.quantity > 0
  BY <1>1, <1>2, <1>3
<1> HIDE DEF rest
<1>5. CASE r.type = "LIMIT"
  <2>1. TakerAfter(o, f) = AfterMatch(r, rest)
    BY <1>5 DEF TakerAfter, rest
  <2> QED
    BY <1>1, <1>3, <1>4, <1>5, <2>1 DEF AfterMatch, Update, OrderRow, RowOK, rest
<1>6. CASE r.type # "LIMIT"
  <2>1. TakerAfter(o, f) = AfterSweep(r, rest)
    BY <1>6 DEF TakerAfter, rest
  <2> QED
    BY <1>1, <1>3, <1>4, <1>6, <2>1 DEF AfterSweep, Update, OrderRow, RowOK, rest
<1> QED
  BY <1>5, <1>6

\* settleTrades writes a sound row for a maker, active while something is left.
LEMMA MakerRow ==
    ASSUME NEW r \in OrderRow, RowOK(r), r.type = "LIMIT",
           NEW q \in Nat, q > 0, q <= r.leave
    PROVE  /\ MakerAfter(r, q) \in OrderRow /\ RowOK(MakerAfter(r, q))
           /\ MakerAfter(r, q).type = r.type
           /\ MakerAfter(r, q).leave = r.leave - q
           /\ MakerAfter(r, q).status # "ABSENT"
           /\ r.leave - q > 0 => MakerAfter(r, q).status = "PARTIAL"
BY DEF MakerAfter, Update, OrderRow, RowOK

\* Every handler moves the offset by one and leaves the log alone.
LEMMA HandlingTypes ==
    ASSUME IInv, NEW type, NEW o \in OrderId, Handling(type, o),
           wallet' \in [Users -> [Assets -> WalletRow]],
           orders' \in [OrderId -> OrderRow],
           trades' \subseteq Trade,
           book' \in [OrderId -> Nat],
           failed' \in BOOLEAN, aborts' \in Nat
    PROVE  TypeOK' /\ todo' = {} /\ placed' = placed
BY DEF Handling, kafka, IInv, TypeOK, ReplayReadsActive

\* A handler leaves the history of failures alone or records one.
LEMMA FailedType ==
    ASSUME TypeOK, NEW o \in OrderId, Handle(o)
    PROVE  failed' \in BOOLEAN
<1>1. failed' = failed \/ failed' = TRUE
  BY DEF Handle, SubmitSkip, SubmitDuplicate, SubmitCommit, SubmitRollback, CancelSkip,
         CancelCommit, CancelRollback, CommandLost
<1>2. failed \in BOOLEAN
  BY DEF TypeOK
<1> QED
  BY <1>1, <1>2

\* A wallet table before the CHECK constraints are looked at.
Table == [Users -> [Assets -> [balance : Int, locked : Int]]]

\* The amounts of an order and of a trade are integers, natural for a quantity.
LEMMA AmountTypes ==
    ASSUME TypeOK, NEW m \in OrderId, NEW q \in Nat
    PROVE  /\ \A p \in Nat, s \in Sides : Given(s, p, q) \in Nat /\ Received(s, p, q) \in Nat
           /\ \A x \in Nat : Gross(x) \in Nat /\ Net(x, MakerFeeBp) \in Nat /\ Net(x, TakerFeeBp) \in Nat
           /\ Reserve(orders[m], q) \in Nat
           /\ ReserveAsset(orders[m].side) \in Assets
<1> USE AmountAssumption
<1>1. \A p \in Nat, s \in Sides : Given(s, p, q) \in Nat /\ Received(s, p, q) \in Nat
  BY DEF Given, Received
<1>2. FeeBase \in Nat /\ FeeBase - MakerFeeBp \in Nat /\ FeeBase - TakerFeeBp \in Nat
  OBVIOUS
<1>3. \A x, y \in Nat : x * y \in Nat
  OBVIOUS
<1>4. \A x \in Nat : Gross(x) \in Nat /\ Net(x, MakerFeeBp) \in Nat /\ Net(x, TakerFeeBp) \in Nat
  BY <1>2, <1>3 DEF Gross, Net
<1>5. orders[m].price \in Nat /\ orders[m].price * q \in Nat
  BY <1>3 DEF TypeOK, OrderRow
<1>6. Reserve(orders[m], q) \in Nat
  BY <1>4, <1>5 DEF Reserve
<1>7. ReserveAsset(orders[m].side) \in Assets
  BY DEF ReserveAsset, Assets
<1> QED
  BY <1>1, <1>4, <1>6, <1>7

\* What a trade adds to a wallet row is a pair of integers.
LEMMA ChangeTypes ==
    ASSUME TypeOK, NEW o \in OrderId, NEW m \in OrderId, NEW q \in Nat, NEW u, NEW a
    PROVE  /\ MakerChange(m, q, u, a).balance \in Int /\ MakerChange(m, q, u, a).locked \in Int
           /\ TakerChange(o, m, q, u, a).balance \in Int /\ TakerChange(o, m, q, u, a).locked \in Int
<1>1. /\ orders[m].price \in Nat /\ orders[m].side \in Sides /\ orders[o].side \in Sides
  BY DEF TypeOK, OrderRow
<1>2. /\ Given(orders[m].side, orders[m].price, q) \in Nat
      /\ Received(orders[m].side, orders[m].price, q) \in Nat
      /\ Given(orders[o].side, orders[m].price, q) \in Nat
      /\ Received(orders[o].side, orders[m].price, q) \in Nat
  BY <1>1, AmountTypes
<1>3. /\ Gross(Given(orders[m].side, orders[m].price, q)) \in Nat
      /\ Net(Received(orders[m].side, orders[m].price, q), MakerFeeBp) \in Nat
      /\ Gross(Given(orders[o].side, orders[m].price, q)) \in Nat
      /\ Net(Received(orders[o].side, orders[m].price, q), TakerFeeBp) \in Nat
      /\ Reserve(orders[o], q) \in Nat
  BY <1>2, AmountTypes
<1>4. MakerChange(m, q, u, a).balance \in Int /\ MakerChange(m, q, u, a).locked \in Int
  BY <1>3 DEF MakerChange, NoChange
<1>5. TakerChange(o, m, q, u, a).balance \in Int /\ TakerChange(o, m, q, u, a).locked \in Int
  BY <1>3 DEF TakerChange, NoChange
<1> QED
  BY <1>4, <1>5

\* The trades of a settlement take a wallet table to a wallet table.
LEMMA AfterTradesTable ==
    ASSUME TypeOK, NEW o \in OrderId, NEW f \in [OrderId -> Nat]
    PROVE  AfterTrades(o, f) \in Table
<1> DEFINE bal(u, a) == SumFunction([m \in OrderId |->
                MakerChange(m, f[m], u, a).balance + TakerChange(o, m, f[m], u, a).balance])
           lock(u, a) == SumFunction([m \in OrderId |->
                MakerChange(m, f[m], u, a).locked + TakerChange(o, m, f[m], u, a).locked])
<1>1. IsFiniteSet(OrderId)
  BY FS_Interval, BoundsAssumption DEF OrderId
<1>2. ASSUME NEW u, NEW a PROVE bal(u, a) \in Int /\ lock(u, a) \in Int
  <2> DEFINE b == [m \in OrderId |->
                MakerChange(m, f[m], u, a).balance + TakerChange(o, m, f[m], u, a).balance]
             l == [m \in OrderId |->
                MakerChange(m, f[m], u, a).locked + TakerChange(o, m, f[m], u, a).locked]
  <2>1. \A m \in OrderId : b[m] \in Int /\ l[m] \in Int
    BY ChangeTypes
  <2>2. DOMAIN b = OrderId /\ DOMAIN l = OrderId
    OBVIOUS
  <2>3. bal(u, a) = SumFunctionOnSet(b, OrderId) /\ lock(u, a) = SumFunctionOnSet(l, OrderId)
    BY <2>2 DEF SumFunction
  <2> HIDE DEF b, l
  <2>4. SumFunctionOnSet(b, OrderId) \in Int /\ SumFunctionOnSet(l, OrderId) \in Int
    BY <1>1, <2>1, SumType
  <2> QED
    BY <2>3, <2>4
<1>3. AfterTrades(o, f) = [u \in Users |-> [a \in Assets |->
            [balance |-> wallet[u][a].balance + bal(u, a),
             locked |-> wallet[u][a].locked + lock(u, a)]]]
  BY DEF AfterTrades
<1> HIDE DEF bal, lock
<1>4. \A u \in Users, a \in Assets : wallet[u][a].balance \in Int /\ wallet[u][a].locked \in Int
  BY DEF TypeOK, WalletRow
<1> QED
  BY <1>2, <1>3, <1>4 DEF Table

\* Releasing a reservation writes one row of the table.
LEMMA ReleaseRow ==
    ASSUME TypeOK, NEW w \in Table, NEW o \in OrderId, NEW q \in Nat
    PROVE  LET amt == Reserve(orders[o], q)
               x == orders[o].user
               b == ReserveAsset(orders[o].side)
           IN  /\ Release(w, o, q) \in Table
               /\ x \in Users /\ b \in Assets
               /\ Release(w, o, q)[x][b].balance = w[x][b].balance + amt
               /\ Release(w, o, q)[x][b].locked = w[x][b].locked - amt
               /\ \A u \in Users, a \in Assets : u # x \/ a # b => Release(w, o, q)[u][a] = w[u][a]
<1> DEFINE amt == Reserve(orders[o], q)
           x == orders[o].user
           b == ReserveAsset(orders[o].side)
           row == [balance |-> w[x][b].balance + amt, locked |-> w[x][b].locked - amt]
<1>1. x \in Users /\ b \in Assets /\ amt \in Nat
  BY AmountTypes DEF TypeOK, OrderRow
<1>2. Release(w, o, q) = [w EXCEPT ![x][b] = row]
  BY DEF Release
<1> HIDE DEF x, b, amt
<1>3. row \in [balance : Int, locked : Int]
  BY <1>1 DEF Table
<1>4. Release(w, o, q) \in Table
  <2> HIDE DEF row
  <2> QED BY <1>1, <1>2, <1>3 DEF Table
<1>5. Release(w, o, q)[x][b] = row
  BY <1>1, <1>2 DEF Table
<1>6. \A u \in Users, a \in Assets : u # x \/ a # b => Release(w, o, q)[u][a] = w[u][a]
  <2> HIDE DEF row
  <2> QED BY <1>1, <1>2 DEF Table
<1> QED
  BY <1>1, <1>4, <1>5, <1>6 DEF x, b, amt

\* The CHECK constraints make a wallet table well typed.
LEMMA CheckedTypes ==
    ASSUME NEW w \in Table, NonNegative(w)
    PROVE  w \in [Users -> [Assets -> WalletRow]]
BY DEF Table, NonNegative, WalletRow

\* A settlement that commits keeps rows, wallets and book consistent.
LEMMA SubmitCommitIInv ==
    ASSUME IInv, NEW o \in OrderId, SubmitCommit(o)
    PROVE  IInv'
<1>1. TypeOK /\ OrderAccounting /\ BookWithinOrders /\ IdsUnused
  BY DEF IInv
<1>2. Active(o) /\ Handling("SUBMIT", o) /\ aborts' = aborts
  BY DEF SubmitCommit
<1>3. PICK f \in Fills(o, Depth) :
        /\ book' = BookAfter(o, f)
        /\ trades' = trades \cup TradeRows(o, f)
        /\ orders' = [x \in OrderId |-> IF x = o THEN TakerAfter(o, f)
                                        ELSE IF f[x] > 0 THEN MakerAfter(orders[x], f[x])
                                        ELSE orders[x]]
        /\ wallet' = IF orders[o].type = "MARKET"
                     THEN Release(AfterTrades(o, f), o, Residual(o, f))
                     ELSE AfterTrades(o, f)
        /\ NonNegative(wallet')
  BY DEF SubmitCommit
<1>4. /\ f \in [OrderId -> Nat]
      /\ \A m \in OrderId : f[m] <= book[m]
      /\ \A m \in OrderId : f[m] > 0 =>
            m # o /\ Active(m) /\ orders[m].type = "LIMIT" /\ f[m] <= orders[m].leave
  BY <1>1, FillFacts
<1>5. /\ BookAfter(o, f) \in [OrderId -> Nat]
      /\ BookAfter(o, f)[o] = IF orders[o].type = "LIMIT" THEN Residual(o, f) ELSE 0
      /\ \A x \in OrderId \ {o} : BookAfter(o, f)[x] = book[x] - f[x]
      /\ Residual(o, f) \in Nat
  BY <1>1, BookAfterFacts
<1>6. /\ TakerAfter(o, f) \in OrderRow /\ RowOK(TakerAfter(o, f))
      /\ TakerAfter(o, f).type = orders[o].type
      /\ TakerAfter(o, f).leave = Residual(o, f)
      /\ TakerAfter(o, f).status # "ABSENT"
      /\ orders[o].type = "LIMIT" /\ Residual(o, f) > 0
           => TakerAfter(o, f).status \in {"OPEN", "PARTIAL"}
  BY <1>1, <1>2, TakerRow
<1>7. ASSUME NEW x \in OrderId
      PROVE  /\ orders[x] \in OrderRow /\ RowOK(orders[x])
             /\ f[x] \in Nat /\ book[x] \in Nat
             /\ x # o /\ ~(f[x] > 0) => f[x] = 0 /\ orders'[x] = orders[x]
             /\ f[x] > 0 => orders'[x] = MakerAfter(orders[x], f[x])
             /\ orders'[o] = TakerAfter(o, f)
  BY <1>1, <1>3, <1>4 DEF TypeOK, OrderAccounting, RowOK
<1>8. ASSUME NEW x \in OrderId, f[x] > 0
      PROVE  /\ orders'[x] \in OrderRow /\ RowOK(orders'[x])
             /\ orders'[x].type = "LIMIT"
             /\ orders'[x].leave = orders[x].leave - f[x]
             /\ orders'[x].status # "ABSENT"
             /\ orders[x].leave - f[x] > 0 => orders'[x].status = "PARTIAL"
  BY <1>4, <1>7, <1>8, MakerRow
<1>9. orders' \in [OrderId -> OrderRow] /\ \A x \in OrderId : RowOK(orders'[x])
  <2>1. ASSUME NEW x \in OrderId
        PROVE  orders'[x] \in OrderRow /\ RowOK(orders'[x])
    BY <1>6, <1>7, <1>8
  <2>2. \E g : orders' = [x \in OrderId |-> g[x]]
    <3>1. orders' = [x \in OrderId |-> orders'[x]]
      BY <1>3
    <3> QED
      BY <3>1
  <2> QED
    BY <2>1, <2>2
<1>10. trades' \subseteq Trade
  <2>1. TradeRows(o, f) \subseteq Trade
    BY <1>4, <1>7 DEF TradeRows, Trade, OrderRow
  <2> QED
    BY <1>1, <1>3, <2>1 DEF TypeOK
<1>11. wallet' \in [Users -> [Assets -> WalletRow]]
  <2>1. AfterTrades(o, f) \in Table
    BY <1>1, <1>4, AfterTradesTable
  <2>2. Release(AfterTrades(o, f), o, Residual(o, f)) \in Table
    BY <1>1, <1>5, <2>1, ReleaseRow
  <2>3. wallet' \in Table
    BY <1>3, <2>1, <2>2
  <2> QED
    BY <1>3, <2>3, CheckedTypes
<1>12. TypeOK' /\ todo' = {} /\ placed' = placed
  <2>1. failed' \in BOOLEAN
    BY <1>1, FailedType DEF Handle
  <2> QED
    BY <1>1, <1>2, <1>3, <1>5, <1>9, <1>10, <1>11, <2>1, HandlingTypes DEF TypeOK
<1>13. OrderAccounting'
  BY <1>9 DEF OrderAccounting, RowOK
<1>14. IdsUnused'
  <2>1. ASSUME NEW x \in OrderId
        PROVE  orders'[x].status = "ABSENT" <=> orders[x].status = "ABSENT"
    BY <1>2, <1>4, <1>6, <1>7, <1>8 DEF Active
  <2> QED
    BY <1>1, <1>12, <2>1 DEF IdsUnused
<1>15. BookWithinOrders'
  <2> SUFFICES ASSUME NEW x \in OrderId, book'[x] > 0
               PROVE  /\ orders'[x].status \in {"OPEN", "PARTIAL"}
                      /\ orders'[x].type = "LIMIT" /\ book'[x] <= orders'[x].leave
    BY DEF BookWithinOrders, Active
  <2>1. CASE x = o
    BY <1>3, <1>5, <1>6, <1>7, <2>1
  <2>2. CASE x # o
    <3>1. book'[x] = book[x] - f[x] /\ book[x] > 0
      BY <1>3, <1>5, <1>7, <2>2
    <3>2. Active(x) /\ orders[x].type = "LIMIT" /\ book[x] <= orders[x].leave
      BY <1>1, <3>1 DEF BookWithinOrders
    <3>3. orders[x].leave \in Nat
      BY <1>7 DEF OrderRow
    <3> QED
      BY <1>7, <1>8, <2>2, <3>1, <3>2, <3>3 DEF Active
  <2> QED
    BY <2>1, <2>2
<1>16. ReplayReadsActive'
  BY <1>12 DEF ReplayReadsActive
<1> QED
  BY <1>12, <1>13, <1>14, <1>15, <1>16 DEF IInv

\* A rolled back settlement leaves the rows as they were and only shrinks what
\* the book offers of them, or adds the order itself.
LEMMA SubmitRollbackIInv ==
    ASSUME IInv, NEW o \in OrderId, SubmitRollback(o)
    PROVE  IInv'
<1>1. TypeOK /\ OrderAccounting /\ BookWithinOrders /\ IdsUnused
  BY DEF IInv
<1>2. /\ Active(o) /\ Handling("SUBMIT", o)
      /\ wallet' = wallet /\ orders' = orders /\ trades' = trades
  BY DEF SubmitRollback
<1>a. PICK k \in 1..Depth : \E f \in Fills(o, k) : book' = BookAfter(o, f) /\ aborts' \in Nat
  BY <1>1 DEF SubmitRollback, TypeOK
<1>3. PICK f \in Fills(o, k) : book' = BookAfter(o, f) /\ aborts' \in Nat
  BY <1>a
<1>4. /\ f \in [OrderId -> Nat]
      /\ book' \in [OrderId -> Nat]
      /\ book'[o] = IF orders[o].type = "LIMIT" THEN Residual(o, f) ELSE 0
      /\ \A x \in OrderId \ {o} : book'[x] = book[x] - f[x]
      /\ Residual(o, f) \in 0..Wanted(o)
  BY <1>1, <1>3, FillFacts, BookAfterFacts
<1>5. Wanted(o) = orders[o].leave /\ orders[o].leave \in Nat
  BY <1>1, <1>2, ActiveRow DEF OrderRow
<1>6. TypeOK' /\ todo' = {} /\ placed' = placed
  <2>1. failed' \in BOOLEAN
    BY <1>1, FailedType DEF Handle
  <2> QED
    BY <1>1, <1>2, <1>3, <1>4, <2>1, HandlingTypes DEF TypeOK
<1>7. BookWithinOrders'
  <2> SUFFICES ASSUME NEW x \in OrderId, book'[x] > 0
               PROVE  Active(x) /\ orders[x].type = "LIMIT" /\ book'[x] <= orders[x].leave
    BY <1>2 DEF BookWithinOrders, Active
  <2>1. book[x] \in Nat /\ f[x] \in Nat /\ orders[x].leave \in Nat
    BY <1>1, <1>4 DEF TypeOK, OrderRow
  <2> QED
    BY <1>1, <1>2, <1>4, <1>5, <2>1 DEF BookWithinOrders
<1> QED
  BY <1>1, <1>2, <1>6, <1>7 DEF IInv, OrderAccounting, IdsUnused, ReplayReadsActive

\* A command that is skipped, refused or lost changes no row and no book.
LEMMA NoOpIInv ==
    ASSUME IInv, NEW o \in OrderId,
           SubmitSkip(o) \/ SubmitDuplicate(o) \/ CancelSkip(o) \/ CommandLost(o)
    PROVE  IInv'
<1>1. /\ UNCHANGED <<wallet, orders, trades, book, placed, todo, matcher>>
      /\ aborts' \in Nat
  BY DEF SubmitSkip, SubmitDuplicate, CancelSkip, CommandLost, Handling, IInv, TypeOK
<1>2. \E type \in {"SUBMIT", "CANCEL"} : Handling(type, o)
  BY DEF SubmitSkip, SubmitDuplicate, CancelSkip, CommandLost
<1>3. TypeOK'
  <2>1. failed' \in BOOLEAN
    BY FailedType DEF Handle, IInv
  <2> QED
    BY <1>1, <1>2, <2>1, HandlingTypes DEF IInv, TypeOK
<1> QED
  BY <1>1, <1>3, FrameIInv

\* A cancel takes the order off the book, whether its transaction commits or not.
LEMMA CancelIInv ==
    ASSUME IInv, NEW o \in OrderId, CancelCommit(o) \/ CancelRollback(o)
    PROVE  IInv'
<1>1. /\ TypeOK /\ Active(o) /\ Handling("CANCEL", o)
      /\ trades' = trades /\ aborts' \in Nat
      /\ book' = [book EXCEPT ![o] = 0] /\ book' \in [OrderId -> Nat]
  <2>1. TypeOK
    BY DEF IInv
  <2>2. Active(o) /\ Handling("CANCEL", o) /\ trades' = trades
    BY DEF CancelCommit, CancelRollback
  <2>3. aborts' \in Nat
    BY <2>1 DEF CancelCommit, CancelRollback, TypeOK
  <2>4. book' = [book EXCEPT ![o] = 0]
    BY DEF CancelCommit, CancelRollback
  <2>5. book' \in [OrderId -> Nat]
    BY <2>1, <2>4 DEF TypeOK
  <2> QED
    BY <2>1, <2>2, <2>3, <2>4, <2>5
<1>2. orders[o] \in OrderRow /\ RowOK(orders[o])
  BY <1>1, ActiveRow DEF IInv
<1>3. \A x \in OrderId \ {o} : orders'[x] = orders[x]
  BY <1>1 DEF CancelCommit, CancelRollback, TypeOK
<1>4. /\ orders' \in [OrderId -> OrderRow] /\ RowOK(orders'[o])
      /\ orders'[o].status # "ABSENT"
  <2>1. CASE CancelCommit(o)
    <3> DEFINE r == orders[o]
               c == Update(r, r.filled, r.leave, "CANCELLED")
    <3>1. c \in OrderRow /\ RowOK(c) /\ c.status # "ABSENT"
      BY <1>2 DEF Update, OrderRow, RowOK
    <3>2. orders' = [orders EXCEPT ![o] = c]
      BY <2>1 DEF CancelCommit
    <3> HIDE DEF c
    <3> QED
      BY <1>1, <3>1, <3>2 DEF TypeOK
  <2>2. CASE CancelRollback(o)
    BY <1>1, <1>2, <2>2 DEF CancelRollback, TypeOK, Active
  <2> QED
    BY <2>1, <2>2
<1>5. wallet' \in [Users -> [Assets -> WalletRow]]
  <2>1. CASE CancelCommit(o)
    <3>1. wallet \in Table /\ orders[o].leave \in Nat
      BY <1>1 DEF TypeOK, Table, WalletRow, OrderRow
    <3>2. Release(wallet, o, orders[o].leave) \in Table
      BY <1>1, <3>1, ReleaseRow
    <3> QED
      BY <2>1, <3>2, CheckedTypes DEF CancelCommit
  <2>2. CASE CancelRollback(o)
    BY <1>1, <2>2 DEF CancelRollback, TypeOK
  <2> QED
    BY <2>1, <2>2
<1>6. TypeOK' /\ todo' = {} /\ placed' = placed
  <2>1. failed' \in BOOLEAN
    BY <1>1, FailedType DEF Handle
  <2> QED
    BY <1>1, <1>4, <1>5, <2>1, HandlingTypes DEF TypeOK
<1>7. OrderAccounting'
  BY <1>3, <1>4 DEF IInv, OrderAccounting, RowOK
<1>8. IdsUnused'
  BY <1>1, <1>3, <1>4, <1>6 DEF IInv, IdsUnused, Active
<1>9. BookWithinOrders'
  <2> SUFFICES ASSUME NEW x \in OrderId, book'[x] > 0
               PROVE  /\ orders'[x].status \in {"OPEN", "PARTIAL"}
                      /\ orders'[x].type = "LIMIT" /\ book'[x] <= orders'[x].leave
    BY DEF BookWithinOrders, Active
  <2>1. x # o /\ book'[x] = book[x]
    BY <1>1 DEF TypeOK
  <2> QED
    BY <1>3, <2>1 DEF IInv, BookWithinOrders, Active
<1>10. ReplayReadsActive'
  BY <1>6 DEF ReplayReadsActive
<1> QED
  BY <1>6, <1>7, <1>8, <1>9, <1>10 DEF IInv

-----------------------------------------------------------------------------
(* The life of the process.                                                *)

\* A row added by the boot replay rests with at most its leaveQty.
LEMMA ReplayAddIInv ==
    ASSUME IInv, NEW o \in OrderId, ReplayAdd(o)
    PROVE  IInv'
<1>1. TypeOK /\ OrderAccounting /\ BookWithinOrders
  BY DEF IInv
<1>2. /\ Active(o) /\ orders[o].type = "LIMIT" /\ todo' = todo \ {o}
      /\ UNCHANGED <<wallet, orders, placed, trades, matcher>>
  BY DEF ReplayAdd, IInv, ReplayReadsActive, database
<1>3. PICK f \in Fills(o, Depth) : book' = BookAfter(o, f)
  BY DEF ReplayAdd
<1>4. /\ f \in [OrderId -> Nat]
      /\ book' \in [OrderId -> Nat]
      /\ book'[o] = Residual(o, f)
      /\ \A x \in OrderId \ {o} : book'[x] = book[x] - f[x]
      /\ Residual(o, f) \in 0..Wanted(o)
  BY <1>1, <1>2, <1>3, FillFacts, BookAfterFacts
<1>5. Wanted(o) = orders[o].leave /\ orders[o].leave \in Nat
  BY <1>1, <1>2, ActiveRow DEF OrderRow
<1>6. TypeOK'
  BY <1>1, <1>2, <1>4 DEF ReplayAdd, TypeOK, database, kafka
<1>7. BookWithinOrders'
  <2> SUFFICES ASSUME NEW x \in OrderId, book'[x] > 0
               PROVE  Active(x) /\ orders[x].type = "LIMIT" /\ book'[x] <= orders[x].leave
    BY <1>2 DEF BookWithinOrders, Active
  <2>1. book[x] \in Nat /\ f[x] \in Nat /\ orders[x].leave \in Nat
    BY <1>1, <1>4 DEF TypeOK, OrderRow
  <2> QED
    BY <1>1, <1>2, <1>4, <1>5, <2>1 DEF BookWithinOrders
<1>8. OrderAccounting' /\ IdsUnused' /\ ReplayReadsActive'
  BY <1>1, <1>2 DEF IInv, OrderAccounting, IdsUnused, ReplayReadsActive, Active
<1> QED
  BY <1>6, <1>7, <1>8 DEF IInv

\* Boot, subscription, offset commits and crashes keep the invariant.
LEMMA ProcessIInv ==
    ASSUME IInv, ReplayRead \/ Subscribe \/ CommitOffset \/ Crash
    PROVE  IInv'
<1> USE DEF IInv, database, kafka, process
<1>1. CASE ReplayRead
  <2>1. TypeOK'
    BY <1>1 DEF ReplayRead, TypeOK
  <2> QED
    BY <1>1, <2>1 DEF ReplayRead, OrderAccounting, BookWithinOrders, IdsUnused,
                      ReplayReadsActive, Active
<1>2. CASE Subscribe
  <2>1. TypeOK'
    BY <1>2 DEF Subscribe, TypeOK
  <2> QED
    BY <1>2, <2>1 DEF Subscribe, OrderAccounting, BookWithinOrders, IdsUnused,
                      ReplayReadsActive, Active
<1>3. CASE CommitOffset
  <2>1. TypeOK'
    BY <1>3 DEF CommitOffset, TypeOK
  <2> QED
    BY <1>3, <2>1, FrameIInv DEF CommitOffset
<1>4. CASE Crash
  <2>1. TypeOK'
    BY <1>4 DEF Crash, TypeOK, EmptyBook
  <2> QED
    BY <1>4, <2>1 DEF Crash, OrderAccounting, BookWithinOrders, IdsUnused,
                      ReplayReadsActive, EmptyBook
<1> QED
  BY <1>1, <1>2, <1>3, <1>4

-----------------------------------------------------------------------------
(* Theorems.                                                               *)

\* The invariant is inductive.
LEMMA NextIInv == IInv /\ [Next]_vars => IInv'
<1> SUFFICES ASSUME IInv, [Next]_vars PROVE IInv'
  OBVIOUS
<1>1. CASE Api
  BY <1>1, SubmitIInv, CancelRequestIInv DEF Api
<1>2. CASE Relay
  BY <1>2, RelayIInv DEF Relay
<1>3. CASE Boot \/ CommitOffset \/ Crash
  BY <1>3, ReplayAddIInv, ProcessIInv DEF Boot
<1>4. ASSUME NEW o \in OrderId, Handle(o) PROVE IInv'
  BY <1>4, SubmitCommitIInv, SubmitRollbackIInv, NoOpIInv, CancelIInv DEF Handle
<1>5. CASE UNCHANGED vars
  <2>1. TypeOK'
    BY <1>5 DEF vars, database, kafka, process, IInv, TypeOK
  <2> QED
    BY <1>5, <2>1, FrameIInv DEF vars, database, process
<1> QED
  BY <1>1, <1>2, <1>3, <1>4, <1>5 DEF Next

\* The inductive invariant holds of every behaviour.
THEOREM Invariance == Spec => []IInv
<1> QED
  BY InitIInv, NextIInv, PTL DEF Spec

\* Every variable keeps its type; in particular no wallet balance and no
\* leaveQty ever goes negative.
THEOREM TypeCorrectness == Spec => []TypeOK
<1>1. IInv => TypeOK
  BY DEF IInv
<1> QED
  BY <1>1, Invariance, PTL

\* The quantities and the status of every Order row stay consistent through
\* any number of fills, sweeps, cancels, rollbacks and restarts.
THEOREM AccountingCorrectness == Spec => []OrderAccounting
<1>1. IInv => OrderAccounting
  BY DEF IInv
<1> QED
  BY <1>1, Invariance, PTL

\* The in-memory book never offers more than the database has left, although
\* a rollback does not restore it and a boot replay drops its trades.
THEOREM BookSafety == Spec => []BookWithinOrders
<1>1. IInv => BookWithinOrders
  BY DEF IInv
<1> QED
  BY <1>1, Invariance, PTL

\* No step writes a terminal row.
LEMMA TerminalStep ==
    ASSUME IInv, [Next]_vars, NEW o \in OrderId, Terminal(o)
    PROVE  orders'[o] = orders[o]
<1>1. ~Active(o) /\ orders[o].status # "ABSENT"
  BY DEF Terminal, Active
<1>2. ASSUME NEW r \in Menu, Submit(r) PROVE orders'[o] = orders[o]
  <2>1. o # placed + 1
    BY <1>1 DEF IInv, TypeOK, IdsUnused, OrderId
  <2> QED
    BY <1>2, <2>1 DEF Submit, IInv, TypeOK
<1>3. ASSUME NEW x \in OrderId, SubmitCommit(x) PROVE orders'[o] = orders[o]
  <2>1. o # x
    BY <1>1, <1>3 DEF SubmitCommit
  <2>2. PICK f \in Fills(x, Depth) :
          orders' = [y \in OrderId |-> IF y = x THEN TakerAfter(x, f)
                                       ELSE IF f[y] > 0 THEN MakerAfter(orders[y], f[y])
                                       ELSE orders[y]]
    BY <1>3 DEF SubmitCommit
  <2>3. ~(f[o] > 0)
    BY <1>1, FillFacts DEF IInv
  <2> QED
    BY <2>1, <2>2, <2>3
<1>4. ASSUME NEW x \in OrderId, CancelCommit(x) PROVE orders'[o] = orders[o]
  BY <1>1, <1>4 DEF CancelCommit, IInv, TypeOK
<1>5. CASE orders' = orders
  BY <1>5
<1> QED
  BY <1>2, <1>3, <1>4, <1>5
     DEF Next, Api, Relay, Boot, Handle, CancelRead, CancelPublish, RelayPublish,
         RelayPublishUnmarked, SubmitSkip, SubmitDuplicate, SubmitRollback, CancelSkip,
         CancelRollback, CommandLost, ReplayRead, ReplayAdd, Subscribe, CommitOffset, Crash, vars, database

\* A FILLED or CANCELLED order is never written again: not by a duplicate or
\* late command, and not as a maker, because a maker on the book is active.
THEOREM TerminalFinality == Spec => TerminalIsFinal
<1>1. IInv /\ [Next]_vars => [\A o \in OrderId : Terminal(o) => orders'[o] = orders[o]]_vars
  BY TerminalStep
<1> QED
  BY <1>1, Invariance, PTL DEF Spec, TerminalIsFinal

-----------------------------------------------------------------------------
(* The money: locks, fills and balances add up.  Only three actions write  *)
(* the tables the sums are over: an order is placed, a settlement commits, *)
(* a cancel commits.                                                       *)

\* The orders are finitely many.
LEMMA OrdersFinite == IsFiniteSet(OrderId)
BY FS_Interval, BoundsAssumption DEF OrderId

\* Every other step leaves the wallets, the orders and the trades alone.
LEMMA TableWriters ==
    ASSUME [Next]_vars
    PROVE  \/ \E r \in Menu : Submit(r)
           \/ \E o \in OrderId : SubmitCommit(o)
           \/ \E o \in OrderId : CancelCommit(o)
           \/ UNCHANGED <<wallet, orders, trades>>
<1>1. CASE UNCHANGED vars
  BY <1>1 DEF vars, database
<1>2. CASE Api
  BY <1>2 DEF Api, CancelRead, CancelPublish, database
<1>3. CASE Relay
  BY <1>3 DEF Relay, RelayPublish, RelayPublishUnmarked, database
<1>4. CASE Boot \/ CommitOffset \/ Crash
  BY <1>4 DEF Boot, ReplayRead, Subscribe, ReplayAdd, CommitOffset, Crash, database
<1>5. ASSUME NEW o \in OrderId, Handle(o)
      PROVE  SubmitCommit(o) \/ CancelCommit(o) \/ UNCHANGED <<wallet, orders, trades>>
  BY <1>5 DEF Handle, SubmitSkip, SubmitDuplicate, SubmitRollback, CancelSkip,
              CancelRollback, CommandLost
<1> QED
  BY <1>1, <1>2, <1>3, <1>4, <1>5 DEF Next

\* What a settlement that commits the fills f does to the tables.
Settles(o, f) ==
    /\ f \in [OrderId -> Nat]
    /\ \A m \in OrderId : f[m] > 0 =>
          /\ m # o /\ orders[m].side # orders[o].side
          /\ Active(m) /\ orders[m].type = "LIMIT" /\ f[m] <= orders[m].leave
    /\ Active(o)
    /\ SumFunction(f) \in Nat /\ Residual(o, f) \in Nat
    /\ Residual(o, f) = orders[o].leave - SumFunction(f)
    /\ wallet' = IF orders[o].type = "MARKET"
                 THEN Release(AfterTrades(o, f), o, Residual(o, f))
                 ELSE AfterTrades(o, f)
    /\ trades' = trades \cup TradeRows(o, f)
    /\ ~MatchIdTaken(o, f)
    /\ orders'[o] = TakerAfter(o, f)
    /\ \A x \in OrderId \ {o} :
          orders'[x] = IF f[x] > 0 THEN MakerAfter(orders[x], f[x]) ELSE orders[x]

\* SubmitCommit settles some fills of the engine.
LEMMA SubmitSettles ==
    ASSUME IInv, NEW o \in OrderId, SubmitCommit(o)
    PROVE  \E f : Settles(o, f)
<1>1. TypeOK /\ OrderAccounting /\ BookWithinOrders /\ Active(o)
  BY DEF IInv, SubmitCommit
<1>2. PICK f \in Fills(o, Depth) :
        /\ ~MatchIdTaken(o, f)
        /\ trades' = trades \cup TradeRows(o, f)
        /\ orders' = [x \in OrderId |-> IF x = o THEN TakerAfter(o, f)
                                        ELSE IF f[x] > 0 THEN MakerAfter(orders[x], f[x])
                                        ELSE orders[x]]
        /\ wallet' = IF orders[o].type = "MARKET"
                     THEN Release(AfterTrades(o, f), o, Residual(o, f))
                     ELSE AfterTrades(o, f)
  BY DEF SubmitCommit
<1>3. /\ f \in [OrderId -> Nat]
      /\ \A m \in OrderId : f[m] > 0 =>
            /\ m # o /\ orders[m].side # orders[o].side
            /\ Active(m) /\ orders[m].type = "LIMIT" /\ f[m] <= orders[m].leave
      /\ SumFunction(f) \in 0..Wanted(o)
  BY <1>1, FillFacts
<1>4. Wanted(o) \in Nat /\ Wanted(o) = orders[o].leave /\ Residual(o, f) \in 0..Wanted(o)
  BY <1>1, ActiveRow, BookAfterFacts
<1>5. SumFunction(f) \in Nat /\ Residual(o, f) \in Nat /\ Residual(o, f) = orders[o].leave - SumFunction(f)
  BY <1>3, <1>4 DEF Residual
<1>6. Settles(o, f)
  BY <1>1, <1>2, <1>3, <1>5 DEF Settles
<1> QED
  BY <1>6

-----------------------------------------------------------------------------
(* The sums of a settlement.                                               *)

\* What an order reserves is proportional to the quantity.
LEMMA ReserveLinear ==
    ASSUME TypeOK, NEW o \in OrderId
    PROVE  \E c \in Int : \A q \in Int : Reserve(orders[o], q) = c * q
<1> DEFINE r == orders[o]
           c == IF r.side = "ASK" THEN FeeBase
                ELSE IF r.type = "LIMIT" THEN r.price * FeeBase ELSE 0
<1>1. r.price \in Int /\ FeeBase \in Int
  BY AmountAssumption DEF TypeOK, OrderRow
<1>2. c \in Int
  BY <1>1
<1>3. ASSUME NEW q \in Int PROVE Reserve(r, q) = c * q
  <2>1. q * FeeBase = FeeBase * q
    BY <1>1
  <2>2. (r.price * q) * FeeBase = (r.price * FeeBase) * q
    BY <1>1
  <2> QED
    BY <2>1, <2>2 DEF Reserve, Gross
<1> QED
  BY <1>2, <1>3

\* A LIMIT maker spends in a trade what it reserved for the quantity.
LEMMA MakerSpendsReserve ==
    ASSUME NEW r, NEW q, r.type = "LIMIT"
    PROVE  Gross(Given(r.side, r.price, q)) = Reserve(r, q)
BY DEF Given, Reserve

MakerLocked(f, u, a) == [m \in OrderId |-> MakerChange(m, f[m], u, a).locked]
TakerLocked(o, f, u, a) == [m \in OrderId |-> TakerChange(o, m, f[m], u, a).locked]
MakerBalance(f, u, a) == [m \in OrderId |-> MakerChange(m, f[m], u, a).balance]
TakerBalance(o, f, u, a) == [m \in OrderId |-> TakerChange(o, m, f[m], u, a).balance]

\* The wallets after the trades, with the makers' and the taker's part apart.
LEMMA AfterTradesSums ==
    ASSUME TypeOK, NEW o \in OrderId, NEW f \in [OrderId -> Nat], NEW u \in Users, NEW a \in Assets
    PROVE  /\ AfterTrades(o, f)[u][a].locked = wallet[u][a].locked
                + (SumFunctionOnSet(MakerLocked(f, u, a), OrderId)
                     + SumFunctionOnSet(TakerLocked(o, f, u, a), OrderId))
           /\ AfterTrades(o, f)[u][a].balance = wallet[u][a].balance
                + (SumFunctionOnSet(MakerBalance(f, u, a), OrderId)
                     + SumFunctionOnSet(TakerBalance(o, f, u, a), OrderId))
<1> DEFINE b == [m \in OrderId |->
                MakerChange(m, f[m], u, a).balance + TakerChange(o, m, f[m], u, a).balance]
           l == [m \in OrderId |->
                MakerChange(m, f[m], u, a).locked + TakerChange(o, m, f[m], u, a).locked]
           ml == MakerLocked(f, u, a)
           tl == TakerLocked(o, f, u, a)
           mb == MakerBalance(f, u, a)
           tb == TakerBalance(o, f, u, a)
<1>1. \A m \in OrderId : /\ ml[m] \in Int /\ tl[m] \in Int /\ l[m] = ml[m] + tl[m]
                         /\ mb[m] \in Int /\ tb[m] \in Int /\ b[m] = mb[m] + tb[m]
  BY ChangeTypes DEF MakerLocked, TakerLocked, MakerBalance, TakerBalance
<1>2. DOMAIN b = OrderId /\ DOMAIN l = OrderId
  OBVIOUS
<1>3. /\ AfterTrades(o, f)[u][a].balance = wallet[u][a].balance + SumFunctionOnSet(b, OrderId)
      /\ AfterTrades(o, f)[u][a].locked = wallet[u][a].locked + SumFunctionOnSet(l, OrderId)
  BY <1>2 DEF AfterTrades, SumFunction
<1> HIDE DEF b, l, ml, tl, mb, tb
<1>4. SumFunctionOnSet(l, OrderId) = SumFunctionOnSet(ml, OrderId) + SumFunctionOnSet(tl, OrderId)
  BY <1>1, OrdersFinite, SumPlus
<1>5. SumFunctionOnSet(b, OrderId) = SumFunctionOnSet(mb, OrderId) + SumFunctionOnSet(tb, OrderId)
  BY <1>1, OrdersFinite, SumPlus
<1> QED
  BY <1>3, <1>4, <1>5 DEF ml, tl, mb, tb

-----------------------------------------------------------------------------
(* Locks.                                                                  *)

\* A maker's reservation shrinks by what its trade spends.
LEMMA MakerReserved ==
    ASSUME IInv, NEW o \in OrderId, NEW f, Settles(o, f), NEW u, NEW a, NEW x \in OrderId, x # o
    PROVE  Reserved(x, u, a)' = Reserved(x, u, a) + MakerChange(x, f[x], u, a).locked
<1>1. TypeOK /\ OrderAccounting /\ f[x] \in Nat /\ orders[x] \in OrderRow
  BY DEF IInv, TypeOK, Settles
<1>2. PICK c \in Int : \A q \in Int : Reserve(orders[x], q) = c * q
  BY <1>1, ReserveLinear
<1>3. CASE ~(f[x] > 0)
  <2>1. f[x] = 0 /\ orders'[x] = orders[x]
    BY <1>1, <1>3 DEF Settles
  <2>2. Gross(Given(orders[x].side, orders[x].price, 0)) = 0
    BY <1>1, AmountAssumption DEF Given, Gross, OrderRow
  <2>3. MakerChange(x, f[x], u, a).locked = 0
    BY <2>1, <2>2 DEF MakerChange, NoChange
  <2>4. Reserved(x, u, a) \in Int /\ Reserved(x, u, a)' = Reserved(x, u, a)
    BY <1>1, <2>1, AmountTypes DEF Reserved, Active, OrderRow
  <2> QED
    BY <2>3, <2>4
<1>4. CASE f[x] > 0
  <2>1. /\ orders'[x] = MakerAfter(orders[x], f[x])
        /\ Active(x) /\ orders[x].type = "LIMIT" /\ f[x] <= orders[x].leave
    BY <1>4 DEF Settles
  <2> DEFINE rest == orders[x].leave - f[x]
  <2>2. /\ orders'[x].user = orders[x].user /\ orders'[x].side = orders[x].side
        /\ orders'[x].type = orders[x].type /\ orders'[x].price = orders[x].price
        /\ orders'[x].leave = rest
        /\ orders'[x].status = IF rest <= 0 THEN "FILLED" ELSE "PARTIAL"
    BY <2>1 DEF MakerAfter, Update
  <2>3. orders[x].leave \in Nat /\ rest \in Nat
    BY <1>1, <2>1 DEF OrderRow
  <2>4. Reserve(orders'[x], rest) = Reserve(orders[x], rest)
    BY <2>2 DEF Reserve
  <2>5. /\ Reserve(orders[x], rest) = c * rest
        /\ Reserve(orders[x], orders[x].leave) = c * orders[x].leave
        /\ Reserve(orders[x], f[x]) = c * f[x]
    BY <1>1, <1>2, <2>3
  <2>6. c * rest = c * orders[x].leave - c * f[x] /\ (rest = 0 => c * rest = 0)
    BY <1>1, <2>3
  <2>7. MakerChange(x, f[x], u, a).locked =
            IF orders[x].user = u /\ ReserveAsset(orders[x].side) = a THEN -(c * f[x]) ELSE 0
    BY <2>1, <2>5, MakerSpendsReserve DEF MakerChange, NoChange
  <2>8. Reserved(x, u, a) =
            IF orders[x].user = u /\ ReserveAsset(orders[x].side) = a THEN c * orders[x].leave ELSE 0
    BY <2>1, <2>5 DEF Reserved
  <2>9. Reserved(x, u, a)' =
            IF orders[x].user = u /\ ReserveAsset(orders[x].side) = a THEN c * rest ELSE 0
    <3> HIDE DEF rest
    <3> QED BY <2>2, <2>3, <2>4, <2>5, <2>6 DEF Reserved, Active
  <2>10. c * orders[x].leave \in Int /\ c * f[x] \in Int /\ c * rest \in Int
    BY <1>1, <2>3
  <2> HIDE DEF rest
  <2>11. CASE orders[x].user = u /\ ReserveAsset(orders[x].side) = a
    BY <2>6, <2>7, <2>8, <2>9, <2>10, <2>11
  <2>12. CASE ~(orders[x].user = u /\ ReserveAsset(orders[x].side) = a)
    BY <2>7, <2>8, <2>9, <2>12
  <2> QED
    BY <2>11, <2>12
<1> QED
  BY <1>3, <1>4

\* A settlement that commits keeps every lock equal to the reservations behind
\* it: the makers' and the taker's shares, and the rest of a MARKET order.
LEMMA SettleLocked ==
    ASSUME IInv, NEW o \in OrderId, NEW f, Settles(o, f), LockedMatchesOpenOrders
    PROVE  LockedMatchesOpenOrders'
<1> SUFFICES ASSUME NEW u \in Users, NEW a \in Assets
             PROVE  wallet'[u][a].locked = SumFunction([x \in OrderId |-> Reserved(x, u, a)'])
  BY DEF LockedMatchesOpenOrders
<1> DEFINE R == [x \in OrderId |-> Reserved(x, u, a)]
           Rn == [x \in OrderId |-> Reserved(x, u, a)']
           Mk == MakerLocked(f, u, a)
           Tk == TakerLocked(o, f, u, a)
           RM == [x \in OrderId |-> R[x] + Mk[x]]
           sum(g) == SumFunctionOnSet(g, OrderId)
           r == orders[o]
           mine == r.user = u /\ ReserveAsset(r.side) = a
<1>1. TypeOK /\ OrderAccounting /\ f \in [OrderId -> Nat] /\ r \in OrderRow
  BY DEF IInv, TypeOK, Settles
<1>2. PICK c \in Int : \A q \in Int : Reserve(r, q) = c * q
  BY <1>1, ReserveLinear
<1>3. f[o] = 0
  BY <1>1 DEF Settles
<1>4. \A x \in OrderId : R[x] \in Int /\ Mk[x] \in Int /\ Tk[x] \in Int
  <2>1. \A x \in OrderId : Mk[x] \in Int /\ Tk[x] \in Int
    BY <1>1, ChangeTypes DEF MakerLocked, TakerLocked
  <2>2. ASSUME NEW x \in OrderId PROVE R[x] \in Int
    <3>1. orders[x].leave \in Nat
      BY <1>1 DEF TypeOK, OrderRow
    <3>2. Reserve(orders[x], orders[x].leave) \in Nat
      BY <1>1, <3>1, AmountTypes
    <3> QED
      BY <3>2 DEF Reserved
  <2> QED
    BY <2>1, <2>2
<1>5. Mk[o] = 0
  <2>1. Gross(Given(r.side, r.price, 0)) = 0
    BY <1>1, AmountAssumption DEF Given, Gross, OrderRow
  <2> QED
    BY <1>3, <2>1 DEF MakerLocked, MakerChange, NoChange
<1>6. \A x \in OrderId \ {o} : Rn[x] = RM[x]
  BY MakerReserved DEF MakerLocked
<1> DEFINE F == SumFunction(f)
<1>7. F \in Nat /\ r.leave \in Nat /\ Residual(o, f) = r.leave - F /\ Residual(o, f) \in Nat
      /\ F = sum(f)
  BY <1>1 DEF Settles, OrderRow, SumFunction
<1>8. sum(Tk) = IF mine THEN -(c * F) ELSE 0
  <2> DEFINE d == IF mine THEN -c ELSE 0
  <2>1. ASSUME NEW m \in OrderId PROVE f[m] \in Int /\ Tk[m] = d * f[m]
    <3>1. f[m] \in Int /\ Reserve(r, f[m]) = c * f[m]
      BY <1>1, <1>2
    <3>2. Tk[m] = IF mine THEN -(c * f[m]) ELSE 0
      BY <3>1 DEF TakerLocked, TakerChange, NoChange
    <3>3. -(c * f[m]) = (-c) * f[m] /\ 0 = 0 * f[m]
      BY <3>1
    <3> QED
      BY <3>1, <3>2, <3>3
  <2>2. d \in Int
    OBVIOUS
  <2>3. sum(Tk) = d * sum(f)
    <3> HIDE DEF d, Tk
    <3> QED BY <2>1, <2>2, OrdersFinite, SumScale
  <2>4. (-c) * F = -(c * F) /\ 0 * F = 0
    BY <1>7
  <2> HIDE DEF F
  <2> QED
    BY <1>7, <2>3, <2>4
<1>9. R[o] = IF mine THEN c * r.leave ELSE 0
  BY <1>2, <1>7 DEF Reserved, Settles
<1>10. Rn[o] = IF mine /\ r.type = "LIMIT" THEN c * (r.leave - F) ELSE 0
  <2> DEFINE t == orders'[o]
  <2>1. t = TakerAfter(o, f)
    BY DEF Settles
  <2>2. t.user = r.user /\ t.side = r.side /\ t.type = r.type /\ t.price = r.price
        /\ t.leave = Residual(o, f)
    BY <2>1 DEF TakerAfter, AfterMatch, AfterSweep, Update
  <2>3. Reserve(t, t.leave) = c * (r.leave - F)
    <3>1. Reserve(t, t.leave) = Reserve(r, t.leave)
      BY <2>2 DEF Reserve
    <3> QED BY <1>2, <1>7, <2>2, <3>1
  <2>4. c * 0 = 0
    BY <1>2
  <2>5. CASE r.type = "LIMIT"
    <3>1. t.status = IF Residual(o, f) = 0 THEN "FILLED"
                     ELSE IF Residual(o, f) < r.quantity THEN "PARTIAL" ELSE "OPEN"
      BY <2>1, <2>5 DEF TakerAfter, AfterMatch, Update
    <3> HIDE DEF F
    <3> QED BY <1>7, <2>2, <2>3, <2>4, <2>5, <3>1 DEF Reserved, Active
  <2>6. CASE r.type # "LIMIT"
    <3>1. t.status \in {"CANCELLED", "FILLED"}
      BY <2>1, <2>6 DEF TakerAfter, AfterSweep, Update
    <3> QED BY <2>6, <3>1 DEF Reserved, Active
  <2> QED BY <2>5, <2>6
<1>11. wallet'[u][a].locked = (wallet[u][a].locked + (sum(Mk) + sum(Tk)))
            - (IF mine /\ r.type = "MARKET" THEN c * (r.leave - F) ELSE 0)
  <2> DEFINE w == AfterTrades(o, f)
             X == wallet[u][a].locked + (sum(Mk) + sum(Tk))
  <2>1. w[u][a].locked = wallet[u][a].locked + (sum(Mk) + sum(Tk))
    BY <1>1, AfterTradesSums
  <2>2. w \in Table
    BY <1>1, AfterTradesTable
  <2>3. w[u][a].locked = X /\ X \in Int
    BY <2>1, <2>2 DEF Table
  <2> HIDE DEF w, X
  <2>4. CASE r.type # "MARKET"
    <3>1. wallet' = w
      BY <2>4 DEF Settles, w
    <3>2. wallet'[u][a].locked = X - 0
      BY <2>3, <3>1
    <3> QED
      BY <2>4, <3>2 DEF X
  <2>5. CASE r.type = "MARKET"
    <3>1. wallet' = Release(w, o, Residual(o, f))
      BY <2>5 DEF Settles, w
    <3>2. /\ Release(w, o, Residual(o, f))[r.user][ReserveAsset(r.side)].locked
               = w[r.user][ReserveAsset(r.side)].locked - Reserve(r, Residual(o, f))
          /\ u # r.user \/ a # ReserveAsset(r.side) => Release(w, o, Residual(o, f))[u][a] = w[u][a]
      BY <1>1, <1>7, <2>2, ReleaseRow
    <3>3. Reserve(r, Residual(o, f)) = c * (r.leave - F)
      BY <1>2, <1>7
    <3>4. c * (r.leave - F) \in Int
      BY <1>2, <1>7
    <3>5. wallet'[u][a].locked = X - (IF mine THEN c * (r.leave - F) ELSE 0)
      <4> HIDE DEF F
      <4> QED BY <2>3, <3>1, <3>2, <3>3, <3>4
    <3> QED
      BY <2>5, <3>5 DEF X
  <2> QED BY <2>4, <2>5
<1>12. wallet[u][a].locked = sum(R)
  BY DEF LockedMatchesOpenOrders, SumFunction
<1>13. SumFunction(Rn) = sum(Rn)
  BY DEF SumFunction
<1>14. c * r.leave \in Int /\ c * F \in Int /\ c * (r.leave - F) = c * r.leave - c * F
  BY <1>2, <1>7
<1>15. Rn[o] \in Int /\ RM[o] = R[o] /\ \A x \in OrderId : RM[x] \in Int /\ RM[x] = R[x] + Mk[x]
  BY <1>2, <1>4, <1>5, <1>7, <1>10
<1>16. \A x \in OrderId : Rn[x] \in Int
  BY <1>6, <1>15
<1> HIDE DEF R, Rn, Mk, Tk, RM, F
<1>17. sum(Rn) = sum(RM) + (Rn[o] - RM[o])
  BY <1>6, <1>15, <1>16, OrdersFinite, SumChange
<1>18. sum(RM) = sum(R) + sum(Mk)
  BY <1>4, <1>15, OrdersFinite, SumPlus
<1>19. sum(R) \in Int /\ sum(Mk) \in Int
  BY <1>4, OrdersFinite, SumType
<1>20. r.type = "LIMIT" \/ r.type = "MARKET"
  BY <1>1 DEF OrderRow, Types
<1>21. wallet'[u][a].locked = sum(Rn)
  BY <1>8, <1>9, <1>10, <1>11, <1>12, <1>14, <1>15, <1>17, <1>18, <1>19, <1>20
<1> QED
  BY <1>13, <1>21 DEF Rn

\* What a row reserves for a quantity is a natural number.
LEMMA RowReserveType ==
    ASSUME NEW r \in OrderRow, NEW q \in Nat
    PROVE  Reserve(r, q) \in Nat
<1>1. r.price \in Nat /\ FeeBase \in Nat
  BY AmountAssumption DEF OrderRow
<1>2. q * FeeBase \in Nat /\ r.price * q \in Nat
  BY <1>1
<1>3. (r.price * q) * FeeBase \in Nat
  BY <1>1, <1>2
<1> QED
  BY <1>2, <1>3 DEF Reserve, Gross

\* What an order holds is an integer.
LEMMA ReservedType ==
    ASSUME TypeOK, NEW x \in OrderId, NEW u, NEW a
    PROVE  Reserved(x, u, a) \in Int
<1>1. orders[x].leave \in Nat
  BY DEF TypeOK, OrderRow
<1>2. Reserve(orders[x], orders[x].leave) \in Nat
  BY <1>1, AmountTypes
<1> QED
  BY <1>2 DEF Reserved

\* A step that writes one order and moves the locks by what its reservation
\* changes keeps them equal.
LEMMA OneOrderLocked ==
    ASSUME TypeOK, TypeOK', LockedMatchesOpenOrders, NEW o \in OrderId,
           \A x \in OrderId \ {o} : orders'[x] = orders[x],
           \A u \in Users, a \in Assets :
              wallet'[u][a].locked = wallet[u][a].locked + (Reserved(o, u, a)' - Reserved(o, u, a))
    PROVE  LockedMatchesOpenOrders'
<1> SUFFICES ASSUME NEW u \in Users, NEW a \in Assets
             PROVE  wallet'[u][a].locked = SumFunction([x \in OrderId |-> Reserved(x, u, a)'])
  BY DEF LockedMatchesOpenOrders
<1> DEFINE R == [x \in OrderId |-> Reserved(x, u, a)]
           Rn == [x \in OrderId |-> Reserved(x, u, a)']
<1>1. \A x \in OrderId : R[x] \in Int
  BY ReservedType
<1>2. \A x \in OrderId : Rn[x] \in Int
  <2>1. ASSUME NEW x \in OrderId PROVE Reserve(orders'[x], orders'[x].leave) \in Int
    <3>1. orders'[x] \in OrderRow /\ orders'[x].leave \in Nat
      BY DEF TypeOK, OrderRow
    <3> QED BY <3>1, RowReserveType
  <2> QED
    BY <2>1 DEF Reserved
<1>3. \A x \in OrderId \ {o} : Rn[x] = R[x]
  BY DEF Reserved, Active
<1>4. wallet[u][a].locked = SumFunctionOnSet(R, OrderId)
  BY DEF LockedMatchesOpenOrders, SumFunction
<1>5. SumFunction(Rn) = SumFunctionOnSet(Rn, OrderId)
  BY DEF SumFunction
<1>6. wallet'[u][a].locked = wallet[u][a].locked + (Rn[o] - R[o])
  OBVIOUS
<1> HIDE DEF R, Rn
<1>7. SumFunctionOnSet(Rn, OrderId) = SumFunctionOnSet(R, OrderId) + (Rn[o] - R[o])
  BY <1>1, <1>2, <1>3, OrdersFinite, SumChange
<1> QED
  BY <1>4, <1>5, <1>6, <1>7 DEF Rn

\* What a step that places an order does to the tables.
LEMMA SubmitRow ==
    ASSUME IInv, NEW r \in Menu, Submit(r)
    PROVE  LET o == placed + 1
               amt == Reserve(r, r.quantity)
               b == ReserveAsset(r.side)
           IN  /\ o \in OrderId /\ orders[o].status = "ABSENT"
               /\ orders'[o] = [user |-> r.user, side |-> r.side, type |-> r.type,
                                price |-> r.price, quantity |-> r.quantity,
                                filled |-> 0, leave |-> r.quantity, status |-> "OPEN"]
               /\ \A x \in OrderId \ {o} : orders'[x] = orders[x]
               /\ trades' = trades
               /\ r.user \in Users /\ b \in Assets /\ amt \in Nat
               /\ wallet'[r.user][b].balance = wallet[r.user][b].balance - amt
               /\ wallet'[r.user][b].locked = wallet[r.user][b].locked + amt
               /\ \A u \in Users, a \in Assets : u # r.user \/ a # b => wallet'[u][a] = wallet[u][a]
<1> DEFINE o == placed + 1
           amt == Reserve(r, r.quantity)
           b == ReserveAsset(r.side)
           cell == [balance |-> wallet[r.user][b].balance - amt, locked |-> wallet[r.user][b].locked + amt]
           row == [user |-> r.user, side |-> r.side, type |-> r.type,
                   price |-> r.price, quantity |-> r.quantity,
                   filled |-> 0, leave |-> r.quantity, status |-> "OPEN"]
<1>1. o \in OrderId /\ orders[o].status = "ABSENT"
  BY BoundsAssumption DEF Submit, OrderId, IInv, TypeOK, IdsUnused
<1>2. r.user \in Users /\ r.quantity \in Nat /\ r.price \in Nat /\ b \in Assets
  BY RequestAssumption, BoundsAssumption DEF Request, ReserveAsset, Assets
<1>3. amt \in Nat
  <2>1. FeeBase \in Nat /\ r.price * r.quantity \in Nat
    BY <1>2, AmountAssumption
  <2>2. r.quantity * FeeBase \in Nat /\ (r.price * r.quantity) * FeeBase \in Nat
    BY <1>2, <2>1
  <2> QED
    BY <2>2 DEF Reserve, Gross
<1>4. wallet' = [wallet EXCEPT ![r.user][b] = cell] /\ orders' = [orders EXCEPT ![o] = row]
      /\ trades' = trades
  BY DEF Submit
<1> HIDE DEF b, amt
<1>5. wallet'[r.user][b] = cell
  BY <1>2, <1>4 DEF IInv, TypeOK
<1>6. \A u \in Users, a \in Assets : u # r.user \/ a # b => wallet'[u][a] = wallet[u][a]
  <2> HIDE DEF cell
  <2> QED BY <1>2, <1>4 DEF IInv, TypeOK
<1>7. orders'[o] = row /\ \A x \in OrderId \ {o} : orders'[x] = orders[x]
  <2> HIDE DEF row
  <2> QED BY <1>1, <1>4 DEF IInv, TypeOK
<1> QED
  BY <1>1, <1>2, <1>3, <1>4, <1>5, <1>6, <1>7 DEF b, amt

\* And one that commits a cancel.
LEMMA CancelRow ==
    ASSUME IInv, NEW o \in OrderId, CancelCommit(o)
    PROVE  LET r == orders[o]
               amt == Reserve(r, r.leave)
               b == ReserveAsset(r.side)
           IN  /\ Active(o)
               /\ orders'[o] = Update(r, r.filled, r.leave, "CANCELLED")
               /\ \A x \in OrderId \ {o} : orders'[x] = orders[x]
               /\ trades' = trades
               /\ r.user \in Users /\ b \in Assets /\ amt \in Nat
               /\ wallet'[r.user][b].balance = wallet[r.user][b].balance + amt
               /\ wallet'[r.user][b].locked = wallet[r.user][b].locked - amt
               /\ \A u \in Users, a \in Assets : u # r.user \/ a # b => wallet'[u][a] = wallet[u][a]
<1>1. TypeOK /\ wallet \in Table /\ orders[o].leave \in Nat
  BY DEF IInv, TypeOK, Table, WalletRow, OrderRow
<1>2. Reserve(orders[o], orders[o].leave) \in Nat
  BY <1>1, AmountTypes
<1>3. wallet' = Release(wallet, o, orders[o].leave) /\ trades' = trades /\ Active(o)
  BY DEF CancelCommit
<1> DEFINE c == Update(orders[o], orders[o].filled, orders[o].leave, "CANCELLED")
<1>4. orders' = [orders EXCEPT ![o] = c]
  BY DEF CancelCommit
<1>5. orders'[o] = c /\ \A x \in OrderId \ {o} : orders'[x] = orders[x]
  <2> HIDE DEF c
  <2> QED BY <1>1, <1>4 DEF TypeOK
<1> QED
  BY <1>1, <1>2, <1>3, <1>5, ReleaseRow

\* Placing an order locks what it reserves; a cancel releases what is left.
LEMMA PlaceAndCancelLocked ==
    ASSUME IInv, IInv', LockedMatchesOpenOrders,
           (\E r \in Menu : Submit(r)) \/ (\E o \in OrderId : CancelCommit(o))
    PROVE  LockedMatchesOpenOrders'
<1>1. TypeOK /\ TypeOK'
  BY DEF IInv
<1>2. \A u \in Users, a \in Assets : wallet[u][a].locked \in Int
  BY <1>1 DEF TypeOK, WalletRow
<1>3. ASSUME NEW r \in Menu, Submit(r) PROVE LockedMatchesOpenOrders'
  <2>0. PICK o \in OrderId : o = placed + 1
    BY <1>3, SubmitRow
  <2> DEFINE amt == Reserve(r, r.quantity)
             b == ReserveAsset(r.side)
  <2>1. /\ o \in OrderId /\ orders[o].status = "ABSENT"
        /\ orders'[o] = [user |-> r.user, side |-> r.side, type |-> r.type,
                         price |-> r.price, quantity |-> r.quantity,
                         filled |-> 0, leave |-> r.quantity, status |-> "OPEN"]
        /\ \A x \in OrderId \ {o} : orders'[x] = orders[x]
        /\ r.user \in Users /\ b \in Assets /\ amt \in Nat
        /\ wallet'[r.user][b].locked = wallet[r.user][b].locked + amt
        /\ \A u \in Users, a \in Assets : u # r.user \/ a # b => wallet'[u][a] = wallet[u][a]
    BY <1>3, <2>0, SubmitRow
  <2>2. ASSUME NEW u \in Users, NEW a \in Assets
        PROVE  /\ Reserved(o, u, a) = 0
               /\ Reserved(o, u, a)' = IF u = r.user /\ a = b THEN amt ELSE 0
    <3>1. Reserve(orders'[o], r.quantity) = amt
      BY <2>1 DEF Reserve
    <3> HIDE DEF amt
    <3> QED BY <2>1, <3>1 DEF Reserved, Active
  <2> HIDE DEF b, amt
  <2>3. \A u \in Users, a \in Assets :
          wallet'[u][a].locked = wallet[u][a].locked + (Reserved(o, u, a)' - Reserved(o, u, a))
    BY <1>2, <2>1, <2>2
  <2> QED
    BY <1>1, <2>1, <2>3, OneOrderLocked
<1>4. ASSUME NEW o \in OrderId, CancelCommit(o) PROVE LockedMatchesOpenOrders'
  <2> DEFINE r == orders[o]
             amt == Reserve(r, r.leave)
             b == ReserveAsset(r.side)
  <2>1. /\ Active(o) /\ orders'[o] = Update(r, r.filled, r.leave, "CANCELLED")
        /\ \A x \in OrderId \ {o} : orders'[x] = orders[x]
        /\ r.user \in Users /\ b \in Assets /\ amt \in Nat
        /\ wallet'[r.user][b].locked = wallet[r.user][b].locked - amt
        /\ \A u \in Users, a \in Assets : u # r.user \/ a # b => wallet'[u][a] = wallet[u][a]
    BY <1>4, CancelRow
  <2>2. ASSUME NEW u \in Users, NEW a \in Assets
        PROVE  /\ Reserved(o, u, a) = IF u = r.user /\ a = b THEN amt ELSE 0
               /\ Reserved(o, u, a)' = 0
    BY <2>1 DEF Reserved, Active, Update
  <2> HIDE DEF r, b, amt
  <2>3. \A u \in Users, a \in Assets :
          wallet'[u][a].locked = wallet[u][a].locked + (Reserved(o, u, a)' - Reserved(o, u, a))
    BY <1>2, <2>1, <2>2
  <2> QED
    BY <1>1, <2>1, <2>3, OneOrderLocked
<1> QED
  BY <1>3, <1>4

\* Before any order nothing is locked.
LEMMA InitLocked == Init => LockedMatchesOpenOrders
<1> SUFFICES ASSUME Init, NEW u \in Users, NEW a \in Assets
             PROVE  wallet[u][a].locked = SumFunction([x \in OrderId |-> Reserved(x, u, a)])
  BY DEF LockedMatchesOpenOrders
<1> DEFINE R == [x \in OrderId |-> Reserved(x, u, a)]
<1>1. \A x \in OrderId : R[x] = 0
  BY DEF Init, NoOrder, Reserved, Active
<1>2. SumFunction(R) = SumFunctionOnSet(R, OrderId)
  BY DEF SumFunction
<1>3. wallet[u][a].locked = 0
  BY DEF Init
<1> HIDE DEF R
<1>4. SumFunctionOnSet(R, OrderId) = 0
  BY <1>1, OrdersFinite, SumZero
<1> QED
  BY <1>2, <1>3, <1>4 DEF R

\* Every locked amount is, to the unit, the reservation of orders that are
\* still active (atomicLock, settleTrades, settleCancel, executeMarketOrder),
\* in every reachable state of any instance.
THEOREM LocksAreExact == Spec => []LockedMatchesOpenOrders
<1>1. LockedMatchesOpenOrders /\ IInv /\ IInv' /\ [Next]_vars => LockedMatchesOpenOrders'
  <2> SUFFICES ASSUME LockedMatchesOpenOrders, IInv, IInv', [Next]_vars
               PROVE  LockedMatchesOpenOrders'
    OBVIOUS
  <2>1. ASSUME NEW o \in OrderId, SubmitCommit(o) PROVE LockedMatchesOpenOrders'
    BY <2>1, SubmitSettles, SettleLocked
  <2>2. CASE UNCHANGED <<wallet, orders, trades>>
    BY <2>2 DEF LockedMatchesOpenOrders, Reserved, Active
  <2> QED
    BY <2>1, <2>2, TableWriters, PlaceAndCancelLocked
<1> QED
  BY <1>1, InitLocked, Invariance, PTL DEF Spec

-----------------------------------------------------------------------------
(* Trades.                                                                 *)

\* A step never changes whose order it is nor which side it is on, and a row
\* that exists goes on existing.
LEMMA RowsKeepSides ==
    ASSUME IInv, [Next]_vars, NEW x \in OrderId, orders[x].status # "ABSENT"
    PROVE  orders'[x].side = orders[x].side /\ orders'[x].status # "ABSENT"
<1>1. ASSUME NEW r \in Menu, Submit(r)
      PROVE  orders'[x] = orders[x]
  BY <1>1, SubmitRow
<1>2. ASSUME NEW o \in OrderId, CancelCommit(o)
      PROVE  orders'[x].side = orders[x].side /\ orders'[x].status # "ABSENT"
  <2>1. CASE x = o
    <3>1. orders'[o] = Update(orders[o], orders[o].filled, orders[o].leave, "CANCELLED")
      BY <1>2, CancelRow
    <3> QED BY <2>1, <3>1 DEF Update
  <2>2. CASE x # o
    BY <1>2, <2>2, CancelRow
  <2> QED BY <2>1, <2>2
<1>3. ASSUME NEW o \in OrderId, NEW f, Settles(o, f)
      PROVE  orders'[x].side = orders[x].side /\ orders'[x].status # "ABSENT"
  <2>1. CASE x = o
    BY <1>3, <2>1 DEF Settles, TakerAfter, AfterMatch, AfterSweep, Update
  <2>2. CASE x # o
    <3>1. orders'[x] = MakerAfter(orders[x], f[x]) \/ orders'[x] = orders[x]
      BY <1>3, <2>2 DEF Settles
    <3> QED BY <3>1 DEF MakerAfter, Update
  <2> QED BY <2>1, <2>2
<1> QED
  BY <1>1, <1>2, <1>3, TableWriters, SubmitSettles

\* The Trade rows of a settlement, by maker.
Row(o, f, m) == [taker |-> o, maker |-> m, price |-> orders[m].price, qty |-> f[m]]
Filled(f) == {x \in OrderId : f[x] > 0}

\* There are finitely many, none of them is in the table yet (matchId is
\* unique), and a sum over them is a sum over the makers.
LEMMA TradeRowSums ==
    ASSUME NEW o \in OrderId, NEW f, Settles(o, f)
    PROVE  /\ IsFiniteSet(TradeRows(o, f))
           /\ trades \cap TradeRows(o, f) = {}
           /\ \A t \in TradeRows(o, f) : \E m \in Filled(f) : t = Row(o, f, m)
           /\ \A G, g :
                (\A m \in OrderId : /\ g[m] \in Int
                                    /\ f[m] > 0 => G[Row(o, f, m)] = g[m]
                                    /\ f[m] = 0 => g[m] = 0)
                => SumFunctionOnSet(G, TradeRows(o, f)) = SumFunctionOnSet(g, OrderId)
<1> DEFINE S == Filled(f)
           h == [m \in S |-> Row(o, f, m)]
<1>1. f \in [OrderId -> Nat] /\ S \subseteq OrderId
  BY DEF Settles, Filled
<1>2. IsFiniteSet(S) /\ IsFiniteSet(OrderId \ S)
  BY <1>1, OrdersFinite, FS_Subset
<1>3. TradeRows(o, f) = {h[m] : m \in S}
  BY DEF TradeRows, Row, Filled
<1>4. \A m \in S : h[m] = Row(o, f, m)
  OBVIOUS
<1>5. \A m, n \in S : h[m] = h[n] => m = n
  BY <1>4 DEF Row
<1>6. IsFiniteSet(TradeRows(o, f))
  <2>1. h \in Surjection(S, TradeRows(o, f))
    BY <1>3 DEF Surjection
  <2> QED BY <1>2, <2>1, FS_Surjection
<1>7. trades \cap TradeRows(o, f) = {}
  <2>1. \A t \in TradeRows(o, f) : t.taker = o
    BY DEF TradeRows
  <2> QED BY <2>1 DEF Settles, MatchIdTaken
<1>8. ASSUME NEW G, NEW g,
             \A m \in OrderId : /\ g[m] \in Int
                                /\ f[m] > 0 => G[Row(o, f, m)] = g[m]
                                /\ f[m] = 0 => g[m] = 0
      PROVE  SumFunctionOnSet(G, TradeRows(o, f)) = SumFunctionOnSet(g, OrderId)
  <2>1. \A m \in S : g[m] \in Int /\ G[h[m]] = g[m]
    BY <1>1, <1>4, <1>8 DEF Filled
  <2>2. \A m \in OrderId \ S : g[m] = 0
    BY <1>1, <1>8 DEF Filled
  <2>3. S \cup (OrderId \ S) = OrderId /\ S \cap (OrderId \ S) = {}
    BY <1>1
  <2> HIDE DEF S, h
  <2>4. SumFunctionOnSet(G, {h[m] : m \in S}) = SumFunctionOnSet(g, S)
    BY <1>2, <1>5, <2>1, SumImage
  <2>5. SumFunctionOnSet(g, OrderId \ S) = 0
    BY <1>2, <2>2, SumZero
  <2>6. SumFunctionOnSet(g, S \cup (OrderId \ S))
          = SumFunctionOnSet(g, S) + SumFunctionOnSet(g, OrderId \ S)
    <3> DEFINE Z == OrderId \ S
    <3>1. \A m \in S \cup Z : g[m] \in Int
      BY <1>1, <1>8
    <3> QED BY <1>2, <2>3, <3>1, SumUnion
  <2>7. SumFunctionOnSet(g, S) \in Int
    BY <1>2, <2>1, SumType
  <2>8. SumFunctionOnSet(g, S \cup (OrderId \ S)) = SumFunctionOnSet(g, OrderId)
    BY <2>3
  <2> QED
    BY <1>3, <2>4, <2>5, <2>6, <2>7, <2>8
<1>9. \A t \in TradeRows(o, f) : \E m \in S : t = Row(o, f, m)
  BY <1>3, <1>4
<1> QED
  BY <1>6, <1>7, <1>8, <1>9

\* Trades stay between orders that exist.
LEMMA TradesOfPlacedStep ==
    ASSUME IInv, TradesOfPlacedOrders, [Next]_vars
    PROVE  TradesOfPlacedOrders'
<1>1. \A t \in trades : /\ t.maker \in OrderId /\ orders[t.maker].status # "ABSENT"
                        /\ t.taker \in OrderId /\ orders[t.taker].status # "ABSENT"
  BY DEF TradesOfPlacedOrders, IInv, TypeOK, Trade
<1>2. \A t \in trades : orders'[t.maker].status # "ABSENT" /\ orders'[t.taker].status # "ABSENT"
  BY <1>1, RowsKeepSides
<1>3. CASE trades' = trades
  BY <1>2, <1>3 DEF TradesOfPlacedOrders
<1>4. ASSUME NEW o \in OrderId, NEW f, Settles(o, f)
      PROVE  TradesOfPlacedOrders'
  <2>1. trades' = trades \cup TradeRows(o, f) /\ IsFiniteSet(trades')
    BY <1>4, TradeRowSums, FS_Union DEF Settles, TradesOfPlacedOrders
  <2>2. ASSUME NEW t \in TradeRows(o, f)
        PROVE  orders'[t.maker].status # "ABSENT" /\ orders'[t.taker].status # "ABSENT"
    <3>1. PICK m \in Filled(f) : t = Row(o, f, m)
      BY <1>4, TradeRowSums
    <3>2. t.maker = m /\ t.taker = o /\ m \in OrderId /\ Active(m) /\ Active(o)
      BY <1>4, <3>1 DEF Row, Filled, Settles
    <3>3. orders[m].status # "ABSENT" /\ orders[o].status # "ABSENT"
      BY <3>2 DEF Active
    <3> QED
      BY <3>2, <3>3, RowsKeepSides
  <2> QED
    BY <1>2, <2>1, <2>2 DEF TradesOfPlacedOrders
<1> QED
  BY <1>3, <1>4, TableWriters, SubmitSettles, SubmitRow, CancelRow

\* What the sum over the Trade table gains by a settlement.
LEMMA TradeTableGains ==
    ASSUME NEW o \in OrderId, NEW f, Settles(o, f), TradesOfPlacedOrders,
           NEW G, NEW H, NEW g,
           \A t \in trades : G[t] \in Int /\ H[t] = G[t],
           \A m \in OrderId : /\ g[m] \in Int
                              /\ f[m] > 0 => H[Row(o, f, m)] = g[m]
                              /\ f[m] = 0 => g[m] = 0
    PROVE  SumFunctionOnSet(H, trades') = SumFunctionOnSet(G, trades) + SumFunctionOnSet(g, OrderId)
<1> DEFINE TR == TradeRows(o, f)
<1>1. IsFiniteSet(TR) /\ trades \cap TR = {} /\ trades' = trades \cup TR /\ IsFiniteSet(trades)
  BY TradeRowSums DEF Settles, TradesOfPlacedOrders
<1>2. SumFunctionOnSet(H, TR) = SumFunctionOnSet(g, OrderId)
  BY TradeRowSums
<1>3. \A t \in TR : H[t] \in Int
  <2> SUFFICES ASSUME NEW t \in TR PROVE H[t] \in Int
    OBVIOUS
  <2>1. PICK m \in Filled(f) : t = Row(o, f, m)
    BY TradeRowSums
  <2> QED BY <2>1 DEF Filled
<1> HIDE DEF TR
<1>4. \A t \in trades \cup TR : H[t] \in Int
  BY <1>3
<1>5. SumFunctionOnSet(H, trades \cup TR) = SumFunctionOnSet(H, trades) + SumFunctionOnSet(H, TR)
  BY <1>1, <1>4, SumUnion
<1>6. SumFunctionOnSet(H, trades) = SumFunctionOnSet(G, trades)
  BY <1>1, SumAgree
<1> QED
  BY <1>1, <1>2, <1>5, <1>6

\* A settlement records in the Trade table what it adds to filledQty.
LEMMA SettleFills ==
    ASSUME IInv, NEW o \in OrderId, NEW f, Settles(o, f), TradesOfPlacedOrders, TradesExplainFills
    PROVE  TradesExplainFills'
<1> SUFFICES ASSUME NEW x \in OrderId
             PROVE  orders'[x].filled = SumFunction([t \in trades' |->
                        IF x \in {t.maker, t.taker} THEN t.qty ELSE 0])
  BY DEF TradesExplainFills
<1> DEFINE G == [t \in trades |-> IF x \in {t.maker, t.taker} THEN t.qty ELSE 0]
           H == [t \in trades' |-> IF x \in {t.maker, t.taker} THEN t.qty ELSE 0]
           g == [m \in OrderId |-> IF x \in {m, o} THEN f[m] ELSE 0]
<1>1. f \in [OrderId -> Nat] /\ f[o] = 0 /\ trades' = trades \cup TradeRows(o, f)
  BY DEF Settles
<1>2. \A t \in trades : G[t] \in Int /\ H[t] = G[t]
  BY <1>1 DEF IInv, TypeOK, Trade
<1>3. ASSUME NEW m \in OrderId
      PROVE  /\ g[m] \in Int
             /\ f[m] > 0 => H[Row(o, f, m)] = g[m]
             /\ f[m] = 0 => g[m] = 0
  <2>1. g[m] \in Int /\ (f[m] = 0 => g[m] = 0)
    BY <1>1
  <2>2. ASSUME f[m] > 0 PROVE H[Row(o, f, m)] = g[m]
    <3>1. Row(o, f, m) \in trades'
      BY <1>1, <2>2 DEF TradeRows, Row
    <3>2. Row(o, f, m).maker = m /\ Row(o, f, m).taker = o /\ Row(o, f, m).qty = f[m]
      BY DEF Row
    <3> QED BY <3>1, <3>2
  <2> QED BY <2>1, <2>2
<1>4. orders[x].filled = SumFunctionOnSet(G, trades) /\ SumFunction(H) = SumFunctionOnSet(H, trades')
  BY DEF TradesExplainFills, SumFunction
<1>5. orders'[x].filled = orders[x].filled + SumFunctionOnSet(g, OrderId)
  <2>1. CASE x = o
    <3>1. \A m \in OrderId : g[m] = f[m]
      BY <2>1
    <3>2. SumFunctionOnSet(g, OrderId) = SumFunctionOnSet(f, OrderId)
      <4> HIDE DEF g
      <4> QED BY <3>1, OrdersFinite, SumAgree
    <3>3. SumFunctionOnSet(f, OrderId) = SumFunction(f) /\ SumFunction(f) \in Nat
      BY <1>1 DEF SumFunction, Settles
    <3>4. orders'[o].filled = orders[o].quantity - Residual(o, f)
      BY DEF Settles, TakerAfter, AfterMatch, AfterSweep, Update
    <3>5. Residual(o, f) = orders[o].leave - SumFunction(f)
      BY DEF Settles
    <3>6. /\ orders[o].filled \in Nat /\ orders[o].leave \in Nat
          /\ orders[o].quantity = orders[o].filled + orders[o].leave
      BY DEF IInv, TypeOK, OrderRow, OrderAccounting
    <3> QED BY <2>1, <3>2, <3>3, <3>4, <3>5, <3>6
  <2>2. CASE x # o
    <3>1. g[x] = f[x] /\ g[x] \in Int /\ \A m \in OrderId \ {x} : g[m] = 0
      BY <1>1, <2>2
    <3>2. SumFunctionOnSet(g, OrderId) = f[x]
      <4> HIDE DEF g
      <4> QED BY <3>1, OrdersFinite, SumOnly
    <3>3. orders'[x].filled = orders[x].filled + f[x]
      <4>1. orders[x].filled \in Nat /\ f[x] \in Nat
        BY <1>1 DEF IInv, TypeOK, OrderRow
      <4>2. orders'[x] = IF f[x] > 0 THEN MakerAfter(orders[x], f[x]) ELSE orders[x]
        BY <2>2 DEF Settles
      <4> QED BY <4>1, <4>2 DEF MakerAfter, Update
    <3> QED BY <3>2, <3>3
  <2> QED BY <2>1, <2>2
<1> HIDE DEF G, H, g
<1>6. SumFunctionOnSet(H, trades') = SumFunctionOnSet(G, trades) + SumFunctionOnSet(g, OrderId)
  BY <1>2, <1>3, TradeTableGains
<1> QED
  BY <1>4, <1>5, <1>6 DEF H

\* Every other step leaves the fills and the trades alone.
LEMMA FillsStep ==
    ASSUME IInv, TradesOfPlacedOrders, TradesExplainFills, [Next]_vars
    PROVE  TradesExplainFills'
<1>1. ASSUME NEW o \in OrderId, SubmitCommit(o) PROVE TradesExplainFills'
  BY <1>1, SubmitSettles, SettleFills
<1>2. ASSUME trades' = trades, \A x \in OrderId : orders'[x].filled = orders[x].filled
      PROVE  TradesExplainFills'
  BY <1>2 DEF TradesExplainFills
<1>3. ASSUME NEW r \in Menu, Submit(r) PROVE TradesExplainFills'
  <2>1. PICK o \in OrderId : o = placed + 1
    BY <1>3, SubmitRow
  <2>2. orders[o].filled = 0
    <3>1. orders[o].status = "ABSENT" /\ orders[o].filled \in Nat
      BY <1>3, <2>1, SubmitRow DEF IInv, TypeOK, OrderRow
    <3>2. \A t \in trades : o \notin {t.maker, t.taker}
      BY <3>1 DEF TradesOfPlacedOrders
    <3> DEFINE G == [t \in trades |-> IF o \in {t.maker, t.taker} THEN t.qty ELSE 0]
    <3>3. orders[o].filled = SumFunctionOnSet(G, trades) /\ \A t \in trades : G[t] = 0
      BY <3>2 DEF TradesExplainFills, SumFunction
    <3>4. IsFiniteSet(trades)
      BY DEF TradesOfPlacedOrders
    <3> HIDE DEF G
    <3> QED BY <3>3, <3>4, SumZero
  <2>3. /\ trades' = trades
        /\ orders'[o] = [user |-> r.user, side |-> r.side, type |-> r.type,
                         price |-> r.price, quantity |-> r.quantity,
                         filled |-> 0, leave |-> r.quantity, status |-> "OPEN"]
        /\ \A x \in OrderId \ {o} : orders'[x] = orders[x]
    BY <1>3, <2>1, SubmitRow
  <2> QED
    BY <1>2, <2>2, <2>3
<1>4. ASSUME NEW o \in OrderId, CancelCommit(o) PROVE TradesExplainFills'
  <2>1. /\ trades' = trades /\ orders'[o] = Update(orders[o], orders[o].filled, orders[o].leave, "CANCELLED")
        /\ \A x \in OrderId \ {o} : orders'[x] = orders[x]
    BY <1>4, CancelRow
  <2>2. orders'[o].filled = orders[o].filled
    BY <2>1 DEF Update
  <2> QED
    BY <1>2, <2>1, <2>2
<1> QED
  BY <1>1, <1>2, <1>3, <1>4, TableWriters

\* filledQty of every order is what the Trade table says it traded, through
\* fills, sweeps, cancels, rolled-back settlements, duplicates and restarts.
THEOREM FillsAreExplained == Spec => []TradesExplainFills
<1>1. Init => TradesOfPlacedOrders /\ TradesExplainFills
  <2> SUFFICES ASSUME Init PROVE TradesOfPlacedOrders /\ TradesExplainFills
    OBVIOUS
  <2>1. trades = {} /\ \A o \in OrderId : orders[o].filled = 0
    BY DEF Init, NoOrder
  <2>2. TradesOfPlacedOrders
    BY <2>1, FS_EmptySet DEF TradesOfPlacedOrders
  <2>3. ASSUME NEW o \in OrderId
        PROVE  SumFunction([t \in trades |-> IF o \in {t.maker, t.taker} THEN t.qty ELSE 0]) = 0
    <3> DEFINE G == [t \in trades |-> IF o \in {t.maker, t.taker} THEN t.qty ELSE 0]
    <3>1. SumFunction(G) = SumFunctionOnSet(G, {})
      BY <2>1 DEF SumFunction
    <3>2. SumFunctionOnSet(G, {}) = 0
      BY SumEmpty
    <3> QED BY <3>1, <3>2
  <2> QED BY <2>1, <2>2, <2>3 DEF TradesExplainFills
<1>2. TradesOfPlacedOrders /\ TradesExplainFills /\ IInv /\ [Next]_vars
        => TradesOfPlacedOrders' /\ TradesExplainFills'
  BY TradesOfPlacedStep, FillsStep
<1> QED
  BY <1>1, <1>2, Invariance, PTL DEF Spec

-----------------------------------------------------------------------------
(* Conservation.                                                           *)

\* What a trade adds to balance and lock of a wallet row together.
MakerTotal(m, q, u, a) == MakerChange(m, q, u, a).balance + MakerChange(m, q, u, a).locked
TakerTotal(o, m, q, u, a) == TakerChange(o, m, q, u, a).balance + TakerChange(o, m, q, u, a).locked

\* Only the two parties' rows change; in each asset one gives what the other
\* gets, less the fee.
LEMMA TradeNet ==
    ASSUME TypeOK, NEW o \in OrderId, NEW m \in OrderId, NEW q \in Nat, NEW a \in Assets,
           q > 0 => orders[m].side # orders[o].side
    PROVE  /\ \A u : u # orders[m].user => MakerTotal(m, q, u, a) = 0
           /\ \A u : u # orders[o].user => TakerTotal(o, m, q, u, a) = 0
           /\ MakerTotal(m, q, orders[m].user, a) \in Int
           /\ TakerTotal(o, m, q, orders[o].user, a) \in Int
           /\ MakerTotal(m, q, orders[m].user, a) + TakerTotal(o, m, q, orders[o].user, a)
                = IF q = 0 THEN 0
                  ELSE -FeeKept([taker |-> o, maker |-> m, price |-> orders[m].price, qty |-> q], a)
<1> DEFINE p == orders[m].price
           M == MakerTotal(m, q, orders[m].user, a)
           T == TakerTotal(o, m, q, orders[o].user, a)
           gives(s) == Gross(Given(s, p, q))
           gets(s, bp) == Net(Received(s, p, q), bp)
<1>1. /\ p \in Nat /\ orders[m].side \in Sides /\ orders[o].side \in Sides
      /\ p * q \in Nat
  BY DEF TypeOK, OrderRow
<1>2. /\ \A u : u # orders[m].user => MakerTotal(m, q, u, a) = 0
      /\ \A u : u # orders[o].user => TakerTotal(o, m, q, u, a) = 0
  BY DEF MakerTotal, TakerTotal, MakerChange, TakerChange, NoChange
<1>3. M = IF a = ReserveAsset(orders[m].side) THEN -gives(orders[m].side)
          ELSE gets(orders[m].side, MakerFeeBp)
  <2>1. gives(orders[m].side) \in Nat /\ gets(orders[m].side, MakerFeeBp) \in Nat
    BY <1>1, AmountTypes
  <2> HIDE DEF p
  <2> QED BY <2>1 DEF MakerTotal, MakerChange, NoChange, p
<1>4. T = IF a = ReserveAsset(orders[o].side) THEN -gives(orders[o].side)
          ELSE gets(orders[o].side, TakerFeeBp)
  <2>1. gives(orders[o].side) \in Nat /\ gets(orders[o].side, TakerFeeBp) \in Nat
    BY <1>1, AmountTypes
  <2>2. Reserve(orders[o], q) \in Nat
    BY AmountTypes
  <2> HIDE DEF gives, gets
  <2>3. TakerChange(o, m, q, orders[o].user, a) =
            IF a = ReserveAsset(orders[o].side)
            THEN [balance |-> Reserve(orders[o], q) - gives(orders[o].side),
                  locked |-> -Reserve(orders[o], q)]
            ELSE [balance |-> gets(orders[o].side, TakerFeeBp), locked |-> 0]
    BY DEF TakerChange, gives, gets
  <2> QED BY <2>1, <2>2, <2>3 DEF TakerTotal
<1> DEFINE fb == FeeBase
<1>5. /\ fb \in Nat /\ MakerFeeBp \in Nat /\ TakerFeeBp \in Nat
  BY AmountAssumption
<1>6. ASSUME NEW x \in Nat, NEW bp \in Nat
      PROVE  /\ Gross(x) \in Int /\ Net(x, bp) \in Int /\ bp * x \in Int
             /\ Gross(x) = x * fb /\ Net(x, bp) = Gross(x) - bp * x
             /\ Net(x, bp) - Gross(x) = -(bp * x)
             /\ Gross(0) = 0 /\ Net(0, bp) = 0
  <2>1. x * (fb - bp) = x * fb - bp * x
    BY <1>5
  <2>2. x * fb \in Int /\ bp * x \in Int /\ 0 * fb = 0 /\ 0 * (fb - bp) = 0
    BY <1>5
  <2> QED BY <2>1, <2>2 DEF Gross, Net
<1>7. M \in Int /\ T \in Int
  <2>1. /\ gives(orders[m].side) \in Int /\ gets(orders[m].side, MakerFeeBp) \in Int
        /\ gives(orders[o].side) \in Int /\ gets(orders[o].side, TakerFeeBp) \in Int
    <3>1. \A s \in Sides : Given(s, p, q) \in Nat /\ Received(s, p, q) \in Nat
      BY <1>1, AmountTypes
    <3> QED BY <1>1, <1>5, <1>6, <3>1
  <2> HIDE DEF M, T, gives, gets
  <2> QED BY <1>3, <1>4, <2>1
<1>8. CASE q = 0
  <2>1. p * 0 = 0
    BY <1>1
  <2>2. \A s : Given(s, p, q) = 0 /\ Received(s, p, q) = 0
    BY <1>8, <2>1 DEF Given, Received
  <2>3. \A s : gives(s) = 0 /\ gets(s, MakerFeeBp) = 0 /\ gets(s, TakerFeeBp) = 0
    BY <1>5, <1>6, <2>2
  <2>4. M = 0 /\ T = 0
    <3> HIDE DEF M, T, gives, gets
    <3> QED BY <1>3, <1>4, <2>3
  <2> QED BY <1>2, <1>8, <2>4
<1>9. CASE q # 0
  <2> DEFINE t == [taker |-> o, maker |-> m, price |-> p, qty |-> q]
             x == IF a = "base" THEN q ELSE p * q
  <2>1. x \in Nat
    BY <1>1
  <2>2. FeeKept(t, a) = (IF ReserveAsset(orders[m].side) = a THEN 0 ELSE MakerFeeBp * x)
                      + (IF ReserveAsset(orders[o].side) = a THEN 0 ELSE TakerFeeBp * x)
    BY DEF FeeKept
  <2>3. \A s \in Sides : /\ a = ReserveAsset(s) => Given(s, p, q) = x
                         /\ a # ReserveAsset(s) => Received(s, p, q) = x
    BY DEF Sides, ReserveAsset, Given, Received, Assets
  <2>4. (a = ReserveAsset(orders[m].side)) <=> (a # ReserveAsset(orders[o].side))
    BY <1>1, <1>9 DEF Sides, ReserveAsset, Assets
  <2> HIDE DEF x, t, M, T
  <2>5. /\ Gross(x) \in Int
        /\ Net(x, MakerFeeBp) \in Int /\ MakerFeeBp * x \in Int
        /\ Net(x, MakerFeeBp) - Gross(x) = -(MakerFeeBp * x)
        /\ Net(x, TakerFeeBp) \in Int /\ TakerFeeBp * x \in Int
        /\ Net(x, TakerFeeBp) - Gross(x) = -(TakerFeeBp * x)
    BY <1>5, <1>6, <2>1
  <2>6. CASE a = ReserveAsset(orders[m].side)
    <3>1. M = -Gross(x) /\ T = Net(x, TakerFeeBp)
      BY <1>1, <1>3, <1>4, <2>3, <2>4, <2>6
    <3>2. FeeKept(t, a) = 0 + TakerFeeBp * x
      BY <2>2, <2>4, <2>6
    <3>3. M + T = -FeeKept(t, a)
      BY <2>5, <3>1, <3>2
    <3> QED BY <1>2, <1>7, <1>9, <3>3 DEF M, T, t
  <2>7. CASE a # ReserveAsset(orders[m].side)
    <3>1. M = Net(x, MakerFeeBp) /\ T = -Gross(x)
      BY <1>1, <1>3, <1>4, <2>3, <2>4, <2>7
    <3>2. FeeKept(t, a) = MakerFeeBp * x + 0
      BY <2>2, <2>4, <2>7
    <3>3. M + T = -FeeKept(t, a)
      BY <2>5, <3>1, <3>2
    <3> QED BY <1>2, <1>7, <1>9, <3>3 DEF M, T, t
  <2> QED BY <2>6, <2>7
<1> QED
  BY <1>8, <1>9

\* What a user holds of an asset, free and locked.
Held(u, a) == wallet[u][a].balance + wallet[u][a].locked

\* A settlement moves what users hold by the totals of its trades; releasing
\* the rest of a MARKET order moves nothing between users.
LEMMA SettleHeld ==
    ASSUME IInv, NEW o \in OrderId, NEW f, Settles(o, f), NEW u \in Users, NEW a \in Assets
    PROVE  LET d == [m \in OrderId |-> MakerTotal(m, f[m], u, a) + TakerTotal(o, m, f[m], u, a)]
           IN  /\ Held(u, a) \in Int
               /\ \A m \in OrderId : d[m] \in Int
               /\ Held(u, a)' = Held(u, a) + SumFunctionOnSet(d, OrderId)
<1> DEFINE d == [m \in OrderId |-> MakerTotal(m, f[m], u, a) + TakerTotal(o, m, f[m], u, a)]
           ml == MakerLocked(f, u, a)
           tl == TakerLocked(o, f, u, a)
           mb == MakerBalance(f, u, a)
           tb == TakerBalance(o, f, u, a)
           l == [m \in OrderId |-> ml[m] + tl[m]]
           b == [m \in OrderId |-> mb[m] + tb[m]]
           sum(g) == SumFunctionOnSet(g, OrderId)
           w == AfterTrades(o, f)
<1>1. TypeOK /\ f \in [OrderId -> Nat] /\ Residual(o, f) \in Nat
  BY DEF IInv, Settles
<1>2. \A m \in OrderId : ml[m] \in Int /\ tl[m] \in Int /\ mb[m] \in Int /\ tb[m] \in Int
  BY <1>1, ChangeTypes DEF MakerLocked, TakerLocked, MakerBalance, TakerBalance
<1>3. \A m \in OrderId : /\ d[m] = (mb[m] + ml[m]) + (tb[m] + tl[m])
                         /\ l[m] = ml[m] + tl[m] /\ b[m] = mb[m] + tb[m]
  BY DEF MakerLocked, TakerLocked, MakerBalance, TakerBalance, MakerTotal, TakerTotal
<1>4. w[u][a].locked = wallet[u][a].locked + (sum(ml) + sum(tl))
      /\ w[u][a].balance = wallet[u][a].balance + (sum(mb) + sum(tb))
  BY <1>1, AfterTradesSums
<1>5. w \in Table /\ wallet[u][a].locked \in Int /\ wallet[u][a].balance \in Int
  BY <1>1, AfterTradesTable DEF TypeOK, WalletRow
<1> HIDE DEF ml, tl, mb, tb, l, b, d
<1>6. \A m \in OrderId : l[m] \in Int /\ b[m] \in Int /\ d[m] \in Int /\ d[m] = b[m] + l[m]
  BY <1>2, <1>3
<1>7. sum(l) = sum(ml) + sum(tl) /\ sum(b) = sum(mb) + sum(tb)
  BY <1>2, <1>3, OrdersFinite, SumPlus
<1>8. sum(d) = sum(b) + sum(l)
  BY <1>6, OrdersFinite, SumPlus
<1>9. /\ sum(ml) \in Int /\ sum(tl) \in Int /\ sum(mb) \in Int /\ sum(tb) \in Int
  BY <1>2, OrdersFinite, SumType
<1>10. w[u][a].balance + w[u][a].locked = Held(u, a) + sum(d) /\ Held(u, a) \in Int
  BY <1>4, <1>5, <1>7, <1>8, <1>9 DEF Held
<1>11. Held(u, a)' = w[u][a].balance + w[u][a].locked
  <2>1. CASE orders[o].type # "MARKET"
    BY <2>1 DEF Settles, Held
  <2>2. CASE orders[o].type = "MARKET"
    <3> DEFINE amt == Reserve(orders[o], Residual(o, f))
               x == orders[o].user
               c == ReserveAsset(orders[o].side)
    <3>1. wallet' = Release(w, o, Residual(o, f))
      BY <2>2 DEF Settles
    <3>2. amt \in Nat
      BY <1>1, AmountTypes
    <3> HIDE DEF w
    <3>3. /\ wallet'[x][c].balance = w[x][c].balance + amt
          /\ wallet'[x][c].locked = w[x][c].locked - amt
          /\ u # x \/ a # c => wallet'[u][a] = w[u][a]
      BY <1>1, <1>5, <3>1, ReleaseRow
    <3>4. w[u][a].balance \in Int /\ w[u][a].locked \in Int
      BY <1>5 DEF Table
    <3> HIDE DEF amt, x, c
    <3>5. CASE u = x /\ a = c
      BY <3>2, <3>3, <3>4, <3>5 DEF Held
    <3>6. CASE u # x \/ a # c
      BY <3>3, <3>6 DEF Held
    <3> QED BY <3>5, <3>6
  <2> QED BY <2>1, <2>2
<1> QED
  BY <1>6, <1>10, <1>11 DEF d

\* A settlement keeps what users hold plus the fees of the recorded trades.
LEMMA SettleConserves ==
    ASSUME IInv, NEW o \in OrderId, NEW f, Settles(o, f), [Next]_vars,
           TradesOfPlacedOrders, NEW a \in Assets
    PROVE  SumFunction([u \in Users |-> Held(u, a)'])
             + SumFunction([t \in trades' |-> FeeKept(t, a)'])
           = SumFunction([u \in Users |-> Held(u, a)]) + SumFunction([t \in trades |-> FeeKept(t, a)])
<1> DEFINE W == [u \in Users |-> Held(u, a)]
           Wn == [u \in Users |-> Held(u, a)']
           D == [u \in Users |-> [m \in OrderId |->
                    MakerTotal(m, f[m], u, a) + TakerTotal(o, m, f[m], u, a)]]
           dW == [u \in Users |-> SumFunctionOnSet(D[u], OrderId)]
           col == [m \in OrderId |-> SumFunctionOnSet([u \in Users |-> D[u][m]], Users)]
           fee == [m \in OrderId |-> IF f[m] = 0 THEN 0 ELSE FeeKept(Row(o, f, m), a)]
           G == [t \in trades |-> FeeKept(t, a)]
           H == [t \in trades' |-> FeeKept(t, a)']
<1>1. TypeOK /\ f \in [OrderId -> Nat] /\ IsFiniteSet(Users)
      /\ \A m \in OrderId : f[m] > 0 => orders[m].side # orders[o].side
  BY RequestAssumption DEF IInv, Settles
<1>2. \A u \in Users : W[u] \in Int /\ dW[u] \in Int /\ Wn[u] = W[u] + dW[u]
  <2> SUFFICES ASSUME NEW u \in Users PROVE W[u] \in Int /\ dW[u] \in Int /\ Wn[u] = W[u] + dW[u]
    OBVIOUS
  <2> DEFINE d == [m \in OrderId |-> MakerTotal(m, f[m], u, a) + TakerTotal(o, m, f[m], u, a)]
  <2>1. /\ Held(u, a) \in Int
        /\ \A m \in OrderId : d[m] \in Int
        /\ Held(u, a)' = Held(u, a) + SumFunctionOnSet(d, OrderId)
    BY SettleHeld
  <2>2. D[u] = d
    OBVIOUS
  <2>3. SumFunctionOnSet(d, OrderId) \in Int
    <3> HIDE DEF d
    <3> QED BY <2>1, OrdersFinite, SumType
  <2> HIDE DEF d
  <2> QED BY <2>1, <2>2, <2>3
<1>3. \A u \in Users, m \in OrderId : D[u][m] \in Int
  BY SettleHeld
<1>4. ASSUME NEW m \in OrderId
      PROVE  fee[m] \in Int /\ col[m] = (-1) * fee[m]
  <2> DEFINE mt == [u \in Users |-> MakerTotal(m, f[m], u, a)]
             tt == [u \in Users |-> TakerTotal(o, m, f[m], u, a)]
             dm == [u \in Users |-> D[u][m]]
             um == orders[m].user
             uo == orders[o].user
  <2>1. um \in Users /\ uo \in Users /\ f[m] \in Nat
    BY <1>1 DEF TypeOK, OrderRow
  <2>2. /\ \A u : u # um => MakerTotal(m, f[m], u, a) = 0
        /\ \A u : u # uo => TakerTotal(o, m, f[m], u, a) = 0
        /\ MakerTotal(m, f[m], um, a) \in Int /\ TakerTotal(o, m, f[m], uo, a) \in Int
        /\ MakerTotal(m, f[m], um, a) + TakerTotal(o, m, f[m], uo, a)
             = IF f[m] = 0 THEN 0 ELSE -FeeKept(Row(o, f, m), a)
    BY <1>1, <2>1, TradeNet DEF Row
  <2>3. /\ \A u \in Users \ {um} : mt[u] = 0
        /\ \A u \in Users \ {uo} : tt[u] = 0
        /\ mt[um] \in Int /\ tt[uo] \in Int
        /\ mt[um] + tt[uo] = IF f[m] = 0 THEN 0 ELSE -FeeKept(Row(o, f, m), a)
    BY <2>1, <2>2
  <2>4. \A u \in Users : mt[u] \in Int /\ tt[u] \in Int /\ dm[u] = mt[u] + tt[u]
    <3>1. \A u \in Users : dm[u] = mt[u] + tt[u]
      OBVIOUS
    <3>2. \A u \in Users : mt[u] \in Int /\ tt[u] \in Int
      <4> HIDE DEF mt, tt, um, uo
      <4> QED BY <2>3
    <3> QED BY <3>1, <3>2
  <2>5. col[m] = SumFunctionOnSet(dm, Users)
    OBVIOUS
  <2>6. FeeKept(Row(o, f, m), a) \in Int
    <3>1. orders[m].price \in Nat /\ orders[m].price * f[m] \in Nat
      BY <1>1, <2>1 DEF TypeOK, OrderRow
    <3>2. /\ MakerFeeBp * f[m] \in Nat /\ TakerFeeBp * f[m] \in Nat
          /\ MakerFeeBp * (orders[m].price * f[m]) \in Nat
          /\ TakerFeeBp * (orders[m].price * f[m]) \in Nat
      BY <2>1, <3>1, AmountAssumption
    <3> QED BY <3>2 DEF FeeKept, Row
  <2> HIDE DEF mt, tt, dm, um, uo
  <2>7. SumFunctionOnSet(dm, Users) = SumFunctionOnSet(mt, Users) + SumFunctionOnSet(tt, Users)
    BY <1>1, <2>4, SumPlus
  <2>8. SumFunctionOnSet(mt, Users) = mt[um] /\ SumFunctionOnSet(tt, Users) = tt[uo]
    BY <1>1, <2>1, <2>3, SumOnly
  <2>9. col[m] = IF f[m] = 0 THEN 0 ELSE -FeeKept(Row(o, f, m), a)
    <3> HIDE DEF col
    <3> QED BY <2>3, <2>5, <2>7, <2>8
  <2>10. fee[m] = IF f[m] = 0 THEN 0 ELSE FeeKept(Row(o, f, m), a)
    OBVIOUS
  <2> HIDE DEF col, fee
  <2> QED BY <2>6, <2>9, <2>10
<1>5. SumFunction(W) = SumFunctionOnSet(W, Users) /\ SumFunction(Wn) = SumFunctionOnSet(Wn, Users)
      /\ SumFunction(G) = SumFunctionOnSet(G, trades) /\ SumFunction(H) = SumFunctionOnSet(H, trades')
  BY DEF SumFunction
<1>6. SumFunctionOnSet(dW, Users) = SumFunctionOnSet(col, OrderId)
  <2> HIDE DEF D
  <2> QED BY <1>1, <1>3, OrdersFinite, SumSwap
<1>7. \A t \in trades : G[t] \in Int /\ H[t] = G[t]
  <2> SUFFICES ASSUME NEW t \in trades PROVE G[t] \in Int /\ H[t] = G[t]
    OBVIOUS
  <2>1. t \in Trade /\ t \in trades'
    BY <1>1 DEF TypeOK, Settles
  <2>2. t.maker \in OrderId /\ t.taker \in OrderId /\ t.price \in Nat /\ t.qty \in Nat
    BY <2>1 DEF Trade
  <2>3. orders'[t.maker].side = orders[t.maker].side /\ orders'[t.taker].side = orders[t.taker].side
    BY <2>2, RowsKeepSides DEF TradesOfPlacedOrders
  <2>4. FeeKept(t, a)' = FeeKept(t, a)
    BY <2>3 DEF FeeKept
  <2>5. FeeKept(t, a) \in Int
    <3>1. t.price * t.qty \in Nat
      BY <2>2
    <3>2. /\ MakerFeeBp * t.qty \in Nat /\ TakerFeeBp * t.qty \in Nat
          /\ MakerFeeBp * (t.price * t.qty) \in Nat /\ TakerFeeBp * (t.price * t.qty) \in Nat
      BY <2>2, <3>1, AmountAssumption
    <3> QED BY <3>2 DEF FeeKept
  <2> QED BY <2>1, <2>4, <2>5
<1>8. ASSUME NEW m \in OrderId
      PROVE  /\ fee[m] \in Int
             /\ f[m] > 0 => H[Row(o, f, m)] = fee[m]
             /\ f[m] = 0 => fee[m] = 0
  <2>1. ASSUME f[m] > 0 PROVE H[Row(o, f, m)] = fee[m]
    <3>1. Row(o, f, m) \in trades'
      BY <2>1 DEF Settles, TradeRows, Row
    <3>2. orders[m].status # "ABSENT" /\ orders[o].status # "ABSENT"
      BY <2>1 DEF Settles, Active
    <3>3. orders'[m].side = orders[m].side /\ orders'[o].side = orders[o].side
      BY <3>2, RowsKeepSides
    <3>4. \A t : t.maker = m /\ t.taker = o => FeeKept(t, a)' = FeeKept(t, a)
      BY <3>3 DEF FeeKept
    <3>5. Row(o, f, m).maker = m /\ Row(o, f, m).taker = o
      BY DEF Row
    <3>6. PICK t : t = Row(o, f, m)
      OBVIOUS
    <3>7. H[t] = FeeKept(t, a)'
      BY <3>1, <3>6
    <3>8. fee[m] = FeeKept(Row(o, f, m), a)
      BY <1>1, <2>1
    <3> QED BY <3>4, <3>5, <3>6, <3>7, <3>8
  <2> QED BY <1>4, <2>1
<1> HIDE DEF W, Wn, D, dW, col, fee, G, H
<1>9. SumFunctionOnSet(Wn, Users) = SumFunctionOnSet(W, Users) + SumFunctionOnSet(dW, Users)
  BY <1>1, <1>2, SumPlus
<1>10. SumFunctionOnSet(col, OrderId) = (-1) * SumFunctionOnSet(fee, OrderId)
  BY <1>4, OrdersFinite, SumScale
<1>11. SumFunctionOnSet(H, trades') = SumFunctionOnSet(G, trades) + SumFunctionOnSet(fee, OrderId)
  BY <1>7, <1>8, TradeTableGains
<1>12. /\ SumFunctionOnSet(W, Users) \in Int /\ SumFunctionOnSet(fee, OrderId) \in Int
       /\ SumFunctionOnSet(G, trades) \in Int
  <2>1. IsFiniteSet(trades)
    BY DEF TradesOfPlacedOrders
  <2> QED BY <1>1, <1>2, <1>4, <1>7, <2>1, OrdersFinite, SumType
<1>13. SumFunction(Wn) + SumFunction(H) = SumFunction(W) + SumFunction(G)
  BY <1>5, <1>6, <1>9, <1>10, <1>11, <1>12
<1> QED
  BY <1>13 DEF W, Wn, G, H

\* Conservation in terms of what users hold.
LEMMA ConservationHeld ==
    /\ Conservation <=> \A a \in Assets :
          SumFunction([u \in Users |-> Held(u, a)]) + SumFunction([t \in trades |-> FeeKept(t, a)])
          = SumFunction([u \in Users |-> Deposit[u][a]])
    /\ Conservation' <=> \A a \in Assets :
          SumFunction([u \in Users |-> Held(u, a)']) + SumFunction([t \in trades' |-> FeeKept(t, a)'])
          = SumFunction([u \in Users |-> Deposit[u][a]])
BY DEF Conservation, Held

\* Placing and cancelling move amounts between the columns of one row.
LEMMA PlaceAndCancelHeld ==
    ASSUME IInv, (\E r \in Menu : Submit(r)) \/ (\E o \in OrderId : CancelCommit(o)),
           NEW u \in Users, NEW a \in Assets
    PROVE  Held(u, a)' = Held(u, a) /\ trades' = trades
<1>1. wallet[u][a].balance \in Int /\ wallet[u][a].locked \in Int
  BY DEF IInv, TypeOK, WalletRow
<1>2. ASSUME NEW r \in Menu, Submit(r) PROVE Held(u, a)' = Held(u, a) /\ trades' = trades
  <2> DEFINE amt == Reserve(r, r.quantity)
             b == ReserveAsset(r.side)
  <2>1. /\ trades' = trades /\ amt \in Nat
        /\ wallet'[r.user][b].balance = wallet[r.user][b].balance - amt
        /\ wallet'[r.user][b].locked = wallet[r.user][b].locked + amt
        /\ u # r.user \/ a # b => wallet'[u][a] = wallet[u][a]
    BY <1>2, SubmitRow
  <2> HIDE DEF amt, b
  <2>2. CASE u = r.user /\ a = b
    BY <1>1, <2>1, <2>2 DEF Held
  <2>3. CASE u # r.user \/ a # b
    BY <2>1, <2>3 DEF Held
  <2> QED BY <2>2, <2>3
<1>3. ASSUME NEW o \in OrderId, CancelCommit(o) PROVE Held(u, a)' = Held(u, a) /\ trades' = trades
  <2> DEFINE r == orders[o]
             amt == Reserve(r, r.leave)
             b == ReserveAsset(r.side)
  <2>1. /\ trades' = trades /\ amt \in Nat
        /\ wallet'[r.user][b].balance = wallet[r.user][b].balance + amt
        /\ wallet'[r.user][b].locked = wallet[r.user][b].locked - amt
        /\ u # r.user \/ a # b => wallet'[u][a] = wallet[u][a]
    BY <1>3, CancelRow
  <2> HIDE DEF amt, b, r
  <2>2. CASE u = r.user /\ a = b
    BY <1>1, <2>1, <2>2 DEF Held
  <2>3. CASE u # r.user \/ a # b
    BY <2>1, <2>3 DEF Held
  <2> QED BY <2>2, <2>3
<1> QED
  BY <1>2, <1>3

\* No step mints or burns an asset.
LEMMA ConservationStep ==
    ASSUME IInv, TradesOfPlacedOrders, Conservation, [Next]_vars
    PROVE  Conservation'
<1> SUFFICES ASSUME NEW a \in Assets
             PROVE  SumFunction([u \in Users |-> Held(u, a)']) + SumFunction([t \in trades' |-> FeeKept(t, a)'])
                    = SumFunction([u \in Users |-> Deposit[u][a]])
  BY ConservationHeld
<1>1. SumFunction([u \in Users |-> Held(u, a)]) + SumFunction([t \in trades |-> FeeKept(t, a)])
      = SumFunction([u \in Users |-> Deposit[u][a]])
  BY ConservationHeld
<1>2. ASSUME NEW o \in OrderId, SubmitCommit(o)
      PROVE  SumFunction([u \in Users |-> Held(u, a)']) + SumFunction([t \in trades' |-> FeeKept(t, a)'])
             = SumFunction([u \in Users |-> Deposit[u][a]])
  <2>1. PICK f : Settles(o, f)
    BY <1>2, SubmitSettles
  <2> QED BY <1>1, <2>1, SettleConserves
<1>3. ASSUME trades' = trades, \A u \in Users : Held(u, a)' = Held(u, a)
      PROVE  SumFunction([u \in Users |-> Held(u, a)']) + SumFunction([t \in trades' |-> FeeKept(t, a)'])
             = SumFunction([u \in Users |-> Deposit[u][a]])
  <2>1. ASSUME NEW t \in trades PROVE FeeKept(t, a)' = FeeKept(t, a)
    <3>1. t.maker \in OrderId /\ t.taker \in OrderId
      BY DEF IInv, TypeOK, Trade
    <3>2. orders'[t.maker].side = orders[t.maker].side /\ orders'[t.taker].side = orders[t.taker].side
      BY <3>1, RowsKeepSides DEF TradesOfPlacedOrders
    <3> QED BY <3>2 DEF FeeKept
  <2>2. [t \in trades' |-> FeeKept(t, a)'] = [t \in trades |-> FeeKept(t, a)]
    BY <1>3, <2>1
  <2>3. [u \in Users |-> Held(u, a)'] = [u \in Users |-> Held(u, a)]
    BY <1>3
  <2> QED BY <1>1, <2>2, <2>3
<1>4. CASE UNCHANGED <<wallet, orders, trades>>
  BY <1>3, <1>4 DEF Held
<1>5. CASE (\E r \in Menu : Submit(r)) \/ (\E o \in OrderId : CancelCommit(o))
  <2>1. \A u \in Users : Held(u, a)' = Held(u, a) /\ trades' = trades
    BY <1>5, PlaceAndCancelHeld
  <2>2. trades' = trades
    BY <2>1, RequestAssumption
  <2> QED BY <1>3, <2>1, <2>2
<1> QED
  BY <1>2, <1>4, <1>5, TableWriters

\* Initially users hold what was deposited and no trade has been made.
LEMMA InitConservation == Init => Conservation /\ TradesOfPlacedOrders
<1> SUFFICES ASSUME Init PROVE Conservation /\ TradesOfPlacedOrders
  OBVIOUS
<1>1. TradesOfPlacedOrders
  BY FS_EmptySet DEF Init, TradesOfPlacedOrders
<1>2. ASSUME NEW a \in Assets
      PROVE  SumFunction([u \in Users |-> Held(u, a)]) + SumFunction([t \in trades |-> FeeKept(t, a)])
             = SumFunction([u \in Users |-> Deposit[u][a]])
  <2> DEFINE W == [u \in Users |-> Held(u, a)]
             G == [t \in trades |-> FeeKept(t, a)]
             P == [u \in Users |-> Deposit[u][a]]
  <2>1. ASSUME NEW u \in Users PROVE Held(u, a) = Deposit[u][a] /\ P[u] \in Int
    <3>1. Deposit[u][a] \in Nat
      BY AmountAssumption
    <3>2. wallet[u][a] = [balance |-> Deposit[u][a], locked |-> 0]
      BY DEF Init
    <3> QED BY <3>1, <3>2 DEF Held
  <2>2. W = P
    BY <2>1
  <2>3. SumFunction(P) = SumFunctionOnSet(P, Users) /\ \A u \in Users : P[u] \in Int
    BY <2>1 DEF SumFunction
  <2>4. SumFunction(G) = SumFunctionOnSet(G, {})
    BY DEF SumFunction, Init
  <2> HIDE DEF W, G, P
  <2>5. SumFunctionOnSet(G, {}) = 0
    BY SumEmpty
  <2>6. SumFunctionOnSet(P, Users) \in Int
    BY <2>3, RequestAssumption, SumType
  <2>7. SumFunction(W) + SumFunction(G) = SumFunction(P)
    BY <2>2, <2>3, <2>4, <2>5, <2>6
  <2> QED BY <2>7 DEF W, G, P
<1> QED
  BY <1>1, <1>2, ConservationHeld

\* Balances, locks and the fees of the recorded trades add up to what was
\* deposited, per asset, in every reachable state of any instance: nothing the
\* settler, its rollbacks, its duplicates or its restarts do mints or burns.
THEOREM MoneyIsConserved == Spec => []Conservation
<1>1. Conservation /\ TradesOfPlacedOrders /\ IInv /\ [Next]_vars
        => Conservation' /\ TradesOfPlacedOrders'
  BY ConservationStep, TradesOfPlacedStep
<1> QED
  BY <1>1, InitConservation, Invariance, PTL DEF Spec

-----------------------------------------------------------------------------
(* The book is exact until something fails.                                *)

\* The parts of ExactInv that are about the outbox and the log only.
LogInv == SubmitRowPerOrder /\ ProcessedIsPublished

\* Only four actions write the outbox, the log or the order counter.
LEMMA LogWriters ==
    ASSUME [Next]_vars
    PROVE  \/ \E r \in Menu : Submit(r)
           \/ \E o \in OrderId : CancelPublish(o)
           \/ \E i \in DOMAIN outbox : RelayPublish(i) \/ RelayPublishUnmarked(i)
           \/ UNCHANGED <<placed, outbox, processed, log>>
<1>1. CASE UNCHANGED vars
  BY <1>1 DEF vars, database, kafka
<1>2. CASE Api
  BY <1>2 DEF Api, CancelRead, database, kafka
<1>3. CASE Relay
  BY <1>3 DEF Relay
<1>4. CASE Boot \/ CommitOffset \/ Crash
  BY <1>4 DEF Boot, ReplayRead, Subscribe, ReplayAdd, CommitOffset, Crash, database, kafka
<1>5. ASSUME NEW o \in OrderId, Handle(o)
      PROVE  UNCHANGED <<placed, outbox, processed, log>>
  BY <1>5 DEF Handle, SubmitSkip, SubmitDuplicate, SubmitCommit, SubmitRollback, CancelSkip,
              CancelCommit, CancelRollback, CommandLost, Handling, kafka
<1> QED
  BY <1>1, <1>2, <1>3, <1>4, <1>5 DEF Next

\* Every order keeps its SUBMIT row, and a row marked processed has been sent.
LEMMA LogStep ==
    ASSUME IInv, LogInv, [Next]_vars
    PROVE  LogInv'
<1>0. /\ outbox \in Seq(Command) /\ log \in Seq(Nat) /\ placed \in Nat
      /\ processed \subseteq DOMAIN outbox
  BY DEF IInv, TypeOK
<1>1. ASSUME NEW c \in Command, outbox' = Append(outbox, c)
      PROVE  /\ DOMAIN outbox' = DOMAIN outbox \cup {Len(outbox) + 1}
             /\ \A i \in DOMAIN outbox : outbox'[i] = outbox[i]
             /\ outbox'[Len(outbox) + 1] = c /\ Len(outbox) + 1 \notin DOMAIN outbox
  BY <1>0, <1>1
<1>2. ASSUME NEW r \in Menu, Submit(r) PROVE LogInv'
  <2> DEFINE c == [type |-> "SUBMIT", order |-> placed + 1]
  <2>1. /\ outbox' = Append(outbox, c) /\ placed' = placed + 1
        /\ UNCHANGED <<processed, log>> /\ placed + 1 \in OrderId
    BY <1>2, <1>0, BoundsAssumption DEF Submit, OrderId
  <2>2. c \in Command
    BY <2>1 DEF Command
  <2>3. SubmitRowPerOrder'
    <3> HIDE DEF c
    <3>1. /\ DOMAIN outbox' = DOMAIN outbox \cup {Len(outbox) + 1}
          /\ \A i \in DOMAIN outbox : outbox'[i] = outbox[i]
          /\ outbox'[Len(outbox) + 1] = c
      BY <1>1, <2>1, <2>2
    <3>2. ASSUME NEW o \in 1..placed'
          PROVE  \E i \in DOMAIN outbox' : outbox'[i] = [type |-> "SUBMIT", order |-> o]
      <4>1. CASE o = placed + 1
        BY <3>1, <4>1 DEF c
      <4>2. CASE o \in 1..placed
        <5>1. PICK i \in DOMAIN outbox : outbox[i] = [type |-> "SUBMIT", order |-> o]
          BY <4>2 DEF LogInv, SubmitRowPerOrder
        <5> QED
          BY <3>1, <5>1
      <4> QED
        BY <4>1, <4>2, <2>1, <1>0
    <3>3. ASSUME NEW i \in DOMAIN outbox', outbox'[i].type = "SUBMIT"
          PROVE  outbox'[i].order <= placed'
      <4>1. CASE i \in DOMAIN outbox
        <5>1. outbox[i] \in Command
          BY <1>0, <4>1
        <5>2. outbox[i].order \in Int
          BY <5>1 DEF Command, OrderId
        <5>3. outbox[i].type = "SUBMIT"
          BY <3>1, <3>3, <4>1
        <5>4. outbox[i].order <= placed
          BY <4>1, <5>3 DEF LogInv, SubmitRowPerOrder
        <5>5. outbox'[i] = outbox[i]
          BY <3>1, <4>1
        <5> QED
          BY <5>2, <5>4, <5>5, <2>1, <1>0
      <4>2. CASE i = Len(outbox) + 1
        BY <3>1, <4>2, <2>1, <1>0 DEF c
      <4> QED
        BY <3>1, <4>1, <4>2
    <3> QED
      BY <3>2, <3>3 DEF SubmitRowPerOrder
  <2>4. ProcessedIsPublished'
    BY <2>1 DEF LogInv, ProcessedIsPublished, Published
  <2> QED
    BY <2>3, <2>4 DEF LogInv
<1>3. ASSUME NEW x \in OrderId, CancelPublish(x) PROVE LogInv'
  <2> DEFINE c == [type |-> "CANCEL", order |-> x]
  <2>1. /\ outbox' = Append(outbox, c) /\ UNCHANGED <<placed, processed, log>> /\ c \in Command
    BY <1>3 DEF CancelPublish, database, Command
  <2>2. SubmitRowPerOrder'
    <3>1. /\ DOMAIN outbox' = DOMAIN outbox \cup {Len(outbox) + 1}
          /\ \A i \in DOMAIN outbox : outbox'[i] = outbox[i]
          /\ outbox'[Len(outbox) + 1] = c
      BY <1>1, <2>1
    <3> QED
      BY <3>1, <2>1 DEF LogInv, SubmitRowPerOrder
  <2>3. ProcessedIsPublished'
    BY <2>1 DEF LogInv, ProcessedIsPublished, Published
  <2> QED
    BY <2>2, <2>3 DEF LogInv
<1>4. ASSUME NEW i \in DOMAIN outbox, RelayPublish(i) \/ RelayPublishUnmarked(i) PROVE LogInv'
  <2>1. /\ log' = Append(log, i) /\ UNCHANGED <<placed, outbox>> /\ processed' \subseteq processed \cup {i}
    BY <1>4 DEF RelayPublish, RelayPublishUnmarked, database
  <2>2. i \in Nat
    BY <1>0
  <2>3. /\ DOMAIN log' = DOMAIN log \cup {Len(log) + 1}
        /\ \A k \in DOMAIN log : log'[k] = log[k]
        /\ log'[Len(log) + 1] = i
    BY <1>0, <2>1, <2>2
  <2>4. ProcessedIsPublished'
    BY <2>1, <2>3 DEF LogInv, ProcessedIsPublished, Published
  <2>5. SubmitRowPerOrder'
    BY <2>1 DEF LogInv, SubmitRowPerOrder
  <2> QED
    BY <2>4, <2>5 DEF LogInv
<1>5. CASE UNCHANGED <<placed, outbox, processed, log>>
  BY <1>5 DEF LogInv, SubmitRowPerOrder, ProcessedIsPublished, Published
<1> QED
  BY <1>2, <1>3, <1>4, <1>5, LogWriters

\* Rows and messages that arrive do not change what the matcher has handled.
LEMMA ArrivalConsumes ==
    ASSUME IInv, position <= Len(log) + 1, NEW o \in OrderId, UNCHANGED position,
           \/ log' = log /\ outbox' = outbox
           \/ log' = log /\ \E c \in Command : outbox' = Append(outbox, c)
           \/ outbox' = outbox /\ \E i \in DOMAIN outbox : log' = Append(log, i)
    PROVE  Consumed(o)' <=> Consumed(o)
<1>0. /\ outbox \in Seq(Command) /\ log \in Seq(Nat) /\ position \in Nat
      /\ \A k \in DOMAIN log : log[k] \in DOMAIN outbox
  BY DEF IInv, TypeOK
<1>1. CASE log' = log /\ outbox' = outbox
  BY <1>1 DEF Consumed
<1>2. CASE log' = log /\ \E c \in Command : outbox' = Append(outbox, c)
  <2>1. \A i \in DOMAIN outbox : outbox'[i] = outbox[i]
    BY <1>0, <1>2
  <2> QED
    BY <1>0, <1>2, <2>1 DEF Consumed
<1>3. CASE outbox' = outbox /\ \E i \in DOMAIN outbox : log' = Append(log, i)
  <2>1. PICK i \in DOMAIN outbox : log' = Append(log, i)
    BY <1>3
  <2>2. /\ DOMAIN log' = DOMAIN log \cup {Len(log) + 1}
        /\ \A k \in DOMAIN log : log'[k] = log[k]
    BY <1>0, <2>1
  <2>3. ~(Len(log) + 1 < position) /\ Len(log) \in Nat
    BY <1>0
  <2> QED
    BY <1>3, <2>2, <2>3 DEF Consumed
<1> QED
  BY <1>1, <1>2, <1>3

\* A handled SUBMIT marks its own order, a handled CANCEL none.
LEMMA HandlingConsumes ==
    ASSUME IInv, NEW type, NEW o \in OrderId, NEW x \in OrderId, Handling(type, o)
    PROVE  /\ position' <= Len(log') + 1
           /\ Consumed(x)' <=> (Consumed(x) \/ (type = "SUBMIT" /\ x = o))
<1>1. /\ log \in Seq(Nat) /\ position \in Nat /\ position \in DOMAIN log
      /\ outbox[log[position]] = [type |-> type, order |-> o]
      /\ position' = position + 1 /\ outbox' = outbox /\ log' = log
  BY DEF IInv, TypeOK, Handling, kafka
<1>2. \A k \in DOMAIN log : k < position + 1 <=> k < position \/ k = position
  BY <1>1
<1>3. outbox[log[position]] = [type |-> "SUBMIT", order |-> x] <=> type = "SUBMIT" /\ x = o
  BY <1>1
<1>4. position' <= Len(log') + 1
  BY <1>1
<1> QED
  BY <1>1, <1>2, <1>3, <1>4 DEF Consumed

\* A fault is final: a faultless step starts from a faultless state.
LEMMA FaultlessStep ==
    ASSUME IInv, [Next]_vars, Faultless'
    PROVE  Faultless
<1>0. crashes \in Nat
  BY DEF IInv, TypeOK
<1>1. CASE UNCHANGED <<failed, crashes>>
  BY <1>1 DEF Faultless
<1>2. CASE Crash
  BY <1>0, <1>2 DEF Crash, Faultless
<1>3. ASSUME NEW o \in OrderId, Handle(o) PROVE Faultless
  BY <1>3 DEF Handle, SubmitSkip, SubmitDuplicate, SubmitCommit, SubmitRollback, CancelSkip,
              CancelCommit, CancelRollback, CommandLost, Handling, Faultless
<1>4. CASE Api \/ Relay \/ Boot \/ CommitOffset
  BY <1>4, <1>1 DEF Api, Submit, CancelRead, CancelPublish, Relay, RelayPublish,
                    RelayPublishUnmarked, Boot, ReplayRead, Subscribe, ReplayAdd,
                    CommitOffset, process
<1>5. CASE UNCHANGED vars
  BY <1>5, <1>1 DEF vars, process
<1> QED
  BY <1>2, <1>3, <1>4, <1>5 DEF Next

\* A settlement that commits moves book and rows alike: the taker's residual
\* and the makers' remainders are what the database has left of them.
LEMMA SubmitCommitExact ==
    ASSUME IInv, BookExact, NEW o \in OrderId, SubmitCommit(o)
    PROVE  BookExact'
<1>1. TypeOK /\ OrderAccounting /\ BookWithinOrders /\ Active(o) /\ Handling("SUBMIT", o)
  BY DEF IInv, SubmitCommit
<1>2. PICK f \in Fills(o, Depth) :
        /\ book' = BookAfter(o, f)
        /\ orders' = [x \in OrderId |-> IF x = o THEN TakerAfter(o, f)
                                        ELSE IF f[x] > 0 THEN MakerAfter(orders[x], f[x])
                                        ELSE orders[x]]
  BY DEF SubmitCommit
<1>3. \A x \in OrderId : Consumed(x)' <=> (Consumed(x) \/ x = o)
  BY <1>1, HandlingConsumes
<1>4. matcher' = "running" /\ position' <= Len(log') + 1
  BY <1>1, HandlingConsumes DEF Handling
<1>5. /\ book'[o] = IF orders[o].type = "LIMIT" THEN Residual(o, f) ELSE 0
      /\ \A x \in OrderId \ {o} : book'[x] = book[x] - f[x]
      /\ Residual(o, f) \in Nat
  BY <1>1, <1>2, BookAfterFacts
<1>6. orders'[o] = TakerAfter(o, f)
  BY <1>2
<1>7. /\ orders'[o].type = orders[o].type
      /\ orders'[o].leave = Residual(o, f)
      /\ orders[o].type = "LIMIT" /\ Residual(o, f) > 0 => orders'[o].status \in {"OPEN", "PARTIAL"}
  BY <1>1, <1>6, TakerRow
<1>8. orders[o].type \in {"LIMIT", "MARKET"}
  BY <1>1 DEF TypeOK, OrderRow, Types
<1>9. orders[o].type = "MARKET" => orders'[o].status \notin {"OPEN", "PARTIAL"}
  BY <1>6 DEF TakerAfter, AfterSweep, Update
<1>10. ASSUME NEW x \in OrderId \ {o}, f[x] > 0
       PROVE  /\ orders'[x].type = "LIMIT" /\ orders'[x].leave = orders[x].leave - f[x]
              /\ orders[x].leave - f[x] > 0 => orders'[x].status = "PARTIAL"
              /\ book[x] = orders[x].leave /\ Consumed(x)
              /\ orders[x].leave - f[x] \in Nat
  <2>1. /\ f[x] \in Nat /\ f[x] <= book[x] /\ f[x] <= orders[x].leave
        /\ Active(x) /\ orders[x].type = "LIMIT"
    BY <1>1, <1>10, FillFacts
  <2>2. orders[x] \in OrderRow /\ RowOK(orders[x])
    BY <1>1 DEF TypeOK, OrderAccounting, RowOK
  <2>3. orders'[x] = MakerAfter(orders[x], f[x])
    BY <1>2, <1>10
  <2>4. book[x] \in Nat /\ orders[x].leave \in Nat
    BY <1>1, <2>2 DEF TypeOK, OrderRow
  <2>5. book[x] = orders[x].leave /\ Consumed(x)
    BY <1>10, <2>1, <2>4 DEF BookExact, OnBook
  <2> QED
    BY <1>10, <2>1, <2>2, <2>3, <2>4, <2>5, MakerRow
<1>11. ASSUME NEW x \in OrderId \ {o}, ~(f[x] > 0)
       PROVE  orders'[x] = orders[x] /\ book'[x] = book[x]
  <2>1. f[x] = 0 /\ book[x] \in Nat
    BY <1>1, <1>11, FillFacts DEF TypeOK
  <2> QED
    BY <1>2, <1>5, <1>11, <2>1
<1>12. ASSUME NEW x \in OrderId
       PROVE  /\ book'[x] = IF OnBook(x)' THEN orders'[x].leave ELSE 0
              /\ Active(x)' /\ orders'[x].type = "MARKET" => ~Consumed(x)'
  <2>1. CASE x = o
    BY <1>3, <1>5, <1>7, <1>8, <1>9, <2>1 DEF OnBook, Active
  <2>2. CASE x # o /\ f[x] > 0
    <3>1. book'[x] = orders[x].leave - f[x] /\ orders[x].leave - f[x] \in Nat
      BY <1>5, <1>10, <2>2
    <3>2. CASE orders[x].leave - f[x] > 0
      BY <1>3, <1>10, <2>2, <3>1, <3>2 DEF OnBook, Active
    <3>3. CASE orders[x].leave - f[x] = 0
      BY <1>3, <1>10, <2>2, <3>1, <3>3 DEF OnBook, Active
    <3> QED
      BY <3>1, <3>2, <3>3
  <2>3. CASE x # o /\ ~(f[x] > 0)
    <3>1. orders'[x] = orders[x] /\ book'[x] = book[x] /\ (Consumed(x)' <=> Consumed(x))
      BY <1>3, <1>11, <2>3
    <3> QED
      BY <3>1 DEF BookExact, OnBook, Active
  <2> QED
    BY <2>1, <2>2, <2>3
<1> QED
  BY <1>4, <1>12 DEF BookExact

\* A skipped or refused command changes nothing: its order is terminal, or it
\* rests on the book already.
LEMMA SkipExact ==
    ASSUME IInv, BookExact, NEW o \in OrderId, SubmitSkip(o) \/ SubmitDuplicate(o) \/ CancelSkip(o)
    PROVE  BookExact'
<1>1. PICK type \in {"SUBMIT", "CANCEL"} :
        /\ Handling(type, o) /\ orders' = orders /\ book' = book
        /\ type = "SUBMIT" => ~Active(o) \/ ~(book[o] = 0)
  BY DEF SubmitSkip, SubmitDuplicate, CancelSkip, AddAccepted
<1>2. ~Active(o) \/ Consumed(o) \/ type = "CANCEL"
  BY <1>1 DEF BookExact, OnBook
<1>3. \A x \in OrderId : Active(x) => (Consumed(x)' <=> Consumed(x))
  BY <1>1, <1>2, HandlingConsumes
<1>4. matcher' = "running" /\ position' <= Len(log') + 1
  BY <1>1, HandlingConsumes DEF Handling
<1>5. \A x \in OrderId : (Active(x)' <=> Active(x)) /\ (OnBook(x)' <=> OnBook(x))
  BY <1>1, <1>3 DEF Active, OnBook
<1> QED
  BY <1>1, <1>3, <1>4, <1>5 DEF BookExact

\* A cancel takes the order off the book, or finds that it is not there yet:
\* its SUBMIT will find a terminal row.
LEMMA CancelCommitExact ==
    ASSUME IInv, BookExact, NEW o \in OrderId, CancelCommit(o)
    PROVE  BookExact'
<1>1. Handling("CANCEL", o) /\ orders \in [OrderId -> OrderRow] /\ book \in [OrderId -> Nat]
  BY DEF CancelCommit, IInv, TypeOK
<1>2. \A x \in OrderId : Consumed(x)' <=> Consumed(x)
  BY <1>1, HandlingConsumes
<1>3. matcher' = "running" /\ position' <= Len(log') + 1
  BY <1>1, HandlingConsumes DEF Handling
<1>4. book'[o] = 0 /\ ~Active(o)'
  BY <1>1 DEF CancelCommit, Active, Update
<1>5. \A x \in OrderId \ {o} : book'[x] = book[x] /\ orders'[x] = orders[x]
  BY <1>1 DEF CancelCommit
<1>6. ASSUME NEW x \in OrderId
      PROVE  /\ book'[x] = IF OnBook(x)' THEN orders'[x].leave ELSE 0
             /\ Active(x)' /\ orders'[x].type = "MARKET" => ~Consumed(x)'
  <2>1. CASE x = o
    BY <1>4, <2>1 DEF OnBook
  <2>2. CASE x # o
    BY <1>2, <1>5, <2>2 DEF BookExact, OnBook, Active
  <2> QED
    BY <2>1, <2>2
<1> QED
  BY <1>3, <1>6 DEF BookExact

\* A new order is not on the book, and nothing of it has been handled.
LEMMA SubmitExact ==
    ASSUME IInv, LogInv, BookExact, NEW r \in Menu, Submit(r)
    PROVE  BookExact'
<1> DEFINE o == placed + 1
<1>1. /\ outbox' = Append(outbox, [type |-> "SUBMIT", order |-> o]) /\ o \in OrderId
      /\ UNCHANGED <<log, position, book, matcher>> /\ placed \in Nat
      /\ orders \in [OrderId -> OrderRow]
  BY BoundsAssumption DEF Submit, process, OrderId, IInv, TypeOK
<1>2. [type |-> "SUBMIT", order |-> o] \in Command
  BY <1>1 DEF Command
<1>3. \A x \in OrderId : Consumed(x)' <=> Consumed(x)
  BY <1>1, <1>2, ArrivalConsumes DEF BookExact
<1>4. ~Consumed(o)
  <2> SUFFICES ASSUME NEW k \in DOMAIN log, outbox[log[k]] = [type |-> "SUBMIT", order |-> o]
               PROVE  FALSE
    BY DEF Consumed
  <2>1. log[k] \in DOMAIN outbox
    BY DEF IInv, TypeOK
  <2>2. o <= placed
    BY <2>1 DEF LogInv, SubmitRowPerOrder
  <2> QED
    BY <1>1, <2>2
<1>5. \A x \in OrderId \ {o} : orders'[x] = orders[x]
  BY <1>1 DEF Submit
<1> HIDE DEF o
<1>6. ASSUME NEW x \in OrderId
      PROVE  /\ book'[x] = IF OnBook(x)' THEN orders'[x].leave ELSE 0
             /\ Active(x)' /\ orders'[x].type = "MARKET" => ~Consumed(x)'
  <2>1. CASE x = o
    BY <1>1, <1>3, <1>4, <2>1 DEF BookExact, OnBook
  <2>2. CASE x # o
    BY <1>1, <1>3, <1>5, <2>2 DEF BookExact, OnBook, Active
  <2> QED
    BY <2>1, <2>2
<1>7. matcher' = "running" /\ position' <= Len(log') + 1
  BY <1>1 DEF BookExact
<1> QED
  BY <1>6, <1>7 DEF BookExact

\* A step that leaves rows, book and offset alone and only lets rows and
\* messages arrive keeps the book exact.
LEMMA ArrivalExact ==
    ASSUME IInv, BookExact, UNCHANGED <<orders, book, matcher, position>>,
           \/ log' = log /\ outbox' = outbox
           \/ log' = log /\ \E c \in Command : outbox' = Append(outbox, c)
           \/ outbox' = outbox /\ \E i \in DOMAIN outbox : log' = Append(log, i)
    PROVE  BookExact'
<1>1. \A x \in OrderId : Consumed(x)' <=> Consumed(x)
  BY ArrivalConsumes DEF BookExact
<1>2. position' <= Len(log') + 1
  BY DEF BookExact, IInv, TypeOK
<1> QED
  BY <1>1, <1>2 DEF BookExact, OnBook, Active

\* A faultless step keeps the book exact.
LEMMA ExactStep ==
    ASSUME IInv, LogInv, BookExact, [Next]_vars, Faultless'
    PROVE  BookExact'
<1>1. ASSUME NEW r \in Menu, Submit(r) PROVE BookExact'
  BY <1>1, SubmitExact
<1>2. ASSUME NEW o \in OrderId, CancelRead(o) PROVE BookExact'
  BY <1>2, ArrivalExact DEF CancelRead, database, kafka, process
<1>3. ASSUME NEW o \in OrderId, CancelPublish(o) PROVE BookExact'
  <2>1. [type |-> "CANCEL", order |-> o] \in Command
    BY DEF Command
  <2> QED
    BY <1>3, <2>1, ArrivalExact DEF CancelPublish, database, process
<1>4. ASSUME NEW i \in DOMAIN outbox, RelayPublish(i) \/ RelayPublishUnmarked(i) PROVE BookExact'
  BY <1>4, ArrivalExact DEF RelayPublish, RelayPublishUnmarked, database, process
<1>5. CASE Boot
  BY <1>5 DEF Boot, ReplayRead, Subscribe, ReplayAdd, BookExact
<1>6. CASE CommitOffset
  BY <1>6, ArrivalExact DEF CommitOffset, database, kafka, process
<1>7. CASE Crash
  <2>1. crashes \in Nat
    BY DEF IInv, TypeOK
  <2> QED
    BY <1>7, <2>1 DEF Crash, Faultless
<1>8. ASSUME NEW o \in OrderId, Handle(o) PROVE BookExact'
  <2>1. ~(SubmitRollback(o) \/ CancelRollback(o) \/ CommandLost(o))
    BY DEF Faultless, SubmitRollback, CancelRollback, CommandLost
  <2> QED
    BY <1>8, <2>1, SkipExact, SubmitCommitExact, CancelCommitExact DEF Handle
<1>9. CASE UNCHANGED vars
  BY <1>9, ArrivalExact DEF vars, database, kafka, process
<1> QED
  BY <1>1, <1>2, <1>3, <1>4, <1>5, <1>6, <1>7, <1>8, <1>9 DEF Next, Api, Relay

\* Once everything is published and handled, every active order's SUBMIT has
\* been handled, so the exact book is the persisted truth.
LEMMA ExactIsTruth ==
    ASSUME IInv, LogInv, BookExact, CaughtUp
    PROVE  book = [o \in OrderId |-> IF Active(o) /\ orders[o].type = "LIMIT"
                                     THEN orders[o].leave ELSE 0]
<1>1. ASSUME NEW o \in OrderId, Active(o) PROVE Consumed(o)
  <2>1. o \in 1..placed
    BY <1>1 DEF IInv, TypeOK, IdsUnused, Active, OrderId
  <2>2. PICK i \in DOMAIN outbox : outbox[i] = [type |-> "SUBMIT", order |-> o]
    BY <2>1 DEF LogInv, SubmitRowPerOrder
  <2>3. PICK k \in DOMAIN log : log[k] = i
    BY <2>2 DEF CaughtUp, LogInv, ProcessedIsPublished, Published
  <2>4. k < position
    BY <2>3 DEF CaughtUp, IInv, TypeOK
  <2> QED
    BY <2>2, <2>3, <2>4 DEF Consumed
<1>2. ASSUME NEW o \in OrderId
      PROVE  book[o] = IF Active(o) /\ orders[o].type = "LIMIT" THEN orders[o].leave ELSE 0
  BY <1>1 DEF BookExact, OnBook
<1>3. book \in [OrderId -> Nat]
  BY DEF IInv, TypeOK
<1> QED
  BY <1>2, <1>3

\* The strengthened invariant holds in every reachable state.
THEOREM ExactInvariance == Spec => []ExactInv
<1>1. Init => ExactInv
  <2> SUFFICES ASSUME Init PROVE ExactInv
    OBVIOUS
  <2>1. SubmitRowPerOrder /\ ProcessedIsPublished
    BY DEF Init, SubmitRowPerOrder, ProcessedIsPublished
  <2>2. \A o \in OrderId : orders[o].status = "ABSENT" /\ book[o] = 0
    BY DEF Init, NoOrder, EmptyBook
  <2>3. Faultless => matcher = "running" /\ position <= Len(log) + 1
    BY DEF Init, Faultless
  <2> QED
    BY <2>1, <2>2, <2>3 DEF ExactInv, BookExact, OnBook, Active
<1>2. IInv /\ ExactInv /\ [Next]_vars => ExactInv'
  <2> SUFFICES ASSUME IInv, ExactInv, [Next]_vars PROVE ExactInv'
    OBVIOUS
  <2>1. LogInv'
    BY LogStep DEF ExactInv, LogInv
  <2>2. Faultless' => BookExact'
    BY FaultlessStep, ExactStep DEF ExactInv, LogInv
  <2> QED
    BY <2>1, <2>2 DEF ExactInv, LogInv
<1> QED
  BY <1>1, <1>2, Invariance, PTL DEF Spec

\* Until a command fails or the matcher crashes, a matcher that has caught up
\* holds exactly the active LIMIT orders with their leaveQty, for every arrival
\* order of the commands and any number of duplicates.
THEOREM BookIsExact == Spec => []BookExactUntilFault
<1>1. IInv /\ ExactInv => BookExactUntilFault
  BY ExactIsTruth DEF ExactInv, LogInv, BookExactUntilFault, BookMatchesPersistedTruth
<1> QED
  BY <1>1, Invariance, ExactInvariance, PTL
=============================================================================
