----------------------------- MODULE SumTheorems ----------------------------
(***************************************************************************)
(* Sums over finite sets: what SumFunctionOnSet of the module Functions    *)
(* returns, for every function and set.                                    *)
(*                                                                         *)
(* SumFunctionOnSet(f, S) applies a recursive function on the subsets of S *)
(* to S.  That there is one such function is shown first, then that the    *)
(* sum does not depend on the order of its summands.  Each induction over  *)
(* the finite subsets is an argument about a smallest counterexample.      *)
(***************************************************************************)
EXTENDS Integers, FiniteSets, Functions, FiniteSetTheorems, WellFoundedInduction, TLAPS

Pick(s) == CHOOSE x \in s : TRUE

\* The function a sums up f on the subsets of S.
Sums(f, S, a) ==
  a = [s \in SUBSET S |-> IF s = {} THEN 0 ELSE f[Pick(s)] + a[s \ {Pick(s)}]]

\* A set of finite subsets has a smallest one.
LEMMA SmallestSubset ==
  ASSUME NEW S, IsFiniteSet(S), NEW B, B \subseteq SUBSET S, B # {}
  PROVE  \E m \in B : \A s \in B : s \subseteq m => s = m
<1>1. IsWellFoundedOn(StrictSubsetOrdering(S), SUBSET S)
  BY FS_StrictSubsetOrderingWellFounded, FS_FiniteSubsetsOfFinite
<1>2. PICK m \in B : \A s \in B : ~(<<s, m>> \in StrictSubsetOrdering(S))
  BY <1>1, WFMin
<1>3. \A s \in B : s \subseteq m => s = m BY <1>2 DEF StrictSubsetOrdering
<1> QED BY <1>3

\* The element that is summed up first is one of the set.
LEMMA PickIn ==
  ASSUME NEW s, s # {}
  PROVE  Pick(s) \in s /\ s \ {Pick(s)} \subseteq s /\ s \ {Pick(s)} # s
BY DEF Pick

\* The function that sums up is unique.
LEMMA SumsUnique ==
  ASSUME NEW f, NEW S, IsFiniteSet(S), NEW a, NEW b, Sums(f, S, a), Sums(f, S, b)
  PROVE  a = b
<1> DEFINE B == {s \in SUBSET S : a[s] # b[s]}
<1>1. ASSUME B # {} PROVE FALSE
  <2>0. B \subseteq SUBSET S OBVIOUS
  <2>1. PICK m \in B : \A s \in B : s \subseteq m => s = m
    <3> HIDE DEF B
    <3> QED BY <1>1, <2>0, SmallestSubset
  <2>2. m # {} BY <2>1 DEF Sums
  <2>3. Pick(m) \in m /\ m \ {Pick(m)} \subseteq m /\ m \ {Pick(m)} # m BY <2>2, PickIn
  <2>4. m \ {Pick(m)} \notin B BY <2>1, <2>3
  <2>5. a[m \ {Pick(m)}] = b[m \ {Pick(m)}] BY <2>1, <2>3, <2>4
  <2>6. a[m] = b[m] BY <2>1, <2>2, <2>5 DEF Sums
  <2> QED BY <2>1, <2>6
<1>2. \A s \in SUBSET S : a[s] = b[s] BY <1>1
<1>3. /\ a = [s \in SUBSET S |-> a[s]]
      /\ b = [s \in SUBSET S |-> b[s]]
  BY DEF Sums
<1> QED BY <1>2, <1>3

\* It sums up the smaller subsets, too.
LEMMA SumsSmaller ==
  ASSUME NEW f, NEW S, NEW a, Sums(f, S, a), NEW T, T \subseteq S
  PROVE  Sums(f, T, [s \in SUBSET T |-> a[s]])
<1> DEFINE b == [s \in SUBSET T |-> a[s]]
<1>1. ASSUME NEW s \in SUBSET T
      PROVE  b[s] = IF s = {} THEN 0 ELSE f[Pick(s)] + b[s \ {Pick(s)}]
  <2>1. a[s] = IF s = {} THEN 0 ELSE f[Pick(s)] + a[s \ {Pick(s)}] BY DEF Sums
  <2>2. s \ {Pick(s)} \in SUBSET T OBVIOUS
  <2> QED BY <2>1, <2>2
<1> QED BY <1>1 DEF Sums

\* The sum, by the definition of Functions.
Value(f, S) == (CHOOSE a : Sums(f, S, a))[S]
LEMMA SumIsValue ==
  ASSUME NEW f, NEW S
  PROVE  SumFunctionOnSet(f, S) = Value(f, S)
BY DEF SumFunctionOnSet, FoldFunctionOnSet, MapThenFoldSet, Value, Sums, Pick

\* If there is such a function for S, it has the sums of all subsets.
LEMMA SumsAreValues ==
  ASSUME NEW f, NEW S, IsFiniteSet(S), NEW a, Sums(f, S, a)
  PROVE  \A T \in SUBSET S : a[T] = Value(f, T)
<1> TAKE T \in SUBSET S
<1> DEFINE b == [s \in SUBSET T |-> a[s]]
<1>1. Sums(f, T, b) BY SumsSmaller
<1>2. IsFiniteSet(T) BY FS_Subset
<1> HIDE DEF b
<1>3. Sums(f, T, CHOOSE c : Sums(f, T, c)) BY <1>1
<1>4. (CHOOSE c : Sums(f, T, c)) = b BY <1>1, <1>2, <1>3, SumsUnique
<1>5. Value(f, T) = b[T] BY <1>4 DEF Value
<1> QED BY <1>5 DEF b

\* There is one for every finite set.
LEMMA SumsExist ==
  ASSUME NEW f, NEW S, IsFiniteSet(S)
  PROVE  \E a : Sums(f, S, a)
<1> DEFINE B == {s \in SUBSET S : ~\E a : Sums(f, s, a)}
<1>1. ASSUME B # {} PROVE FALSE
  <2>0. B \subseteq SUBSET S OBVIOUS
  <2>1. PICK m \in B : \A s \in B : s \subseteq m => s = m
    <3> HIDE DEF B
    <3> QED BY <1>1, <2>0, SmallestSubset
  <2>2. m \in SUBSET S /\ ~\E a : Sums(f, m, a) BY <2>1
  <2>3. \A s \in SUBSET m : s # m => \E a : Sums(f, s, a) BY <2>1, <2>2
  <2>4. \A s \in SUBSET m : IsFiniteSet(s)
    <3>1. IsFiniteSet(m) BY <2>2, FS_Subset
    <3> QED BY <3>1, FS_Subset
  <2> HIDE DEF B
  <2> DEFINE V(s) == IF s = {} THEN 0 ELSE f[Pick(s)] + Value(f, s \ {Pick(s)})
  <2>5. ASSUME NEW s \in SUBSET m, s # m PROVE Value(f, s) = V(s)
    <3>1. PICK a : Sums(f, s, a) BY <2>3, <2>5
    <3>2. a[s] = IF s = {} THEN 0 ELSE f[Pick(s)] + a[s \ {Pick(s)}] BY <3>1 DEF Sums
    <3>3. IsFiniteSet(s) /\ s \ {Pick(s)} \subseteq s BY <2>4
    <3>4. a[s] = Value(f, s) /\ a[s \ {Pick(s)}] = Value(f, s \ {Pick(s)})
      BY <3>1, <3>3, SumsAreValues
    <3> QED BY <3>2, <3>4
  <2> DEFINE c == [s \in SUBSET m |-> V(s)]
  <2>6. ASSUME NEW s \in SUBSET m
        PROVE  c[s] = IF s = {} THEN 0 ELSE f[Pick(s)] + c[s \ {Pick(s)}]
    <3>1. CASE s = {} BY <3>1
    <3>2. CASE s # {}
      <4>1. Pick(s) \in s /\ s \ {Pick(s)} \subseteq s /\ s \ {Pick(s)} # s BY <3>2, PickIn
      <4>2. s \ {Pick(s)} \in SUBSET m /\ s \ {Pick(s)} # m BY <4>1
      <4>3. c[s \ {Pick(s)}] = V(s \ {Pick(s)}) BY <4>2
      <4>4. V(s \ {Pick(s)}) = Value(f, s \ {Pick(s)}) BY <4>2, <2>5
      <4>5. c[s] = V(s) OBVIOUS
      <4> HIDE DEF c
      <4> QED BY <3>2, <4>3, <4>4, <4>5
    <3> QED BY <3>1, <3>2
  <2>7. Sums(f, m, c)
    <3>1. c = [s \in SUBSET m |-> c[s]] OBVIOUS
    <3> HIDE DEF c
    <3> QED BY <3>1, <2>6 DEF Sums
  <2> QED BY <2>2, <2>7
<1> QED BY <1>1

\* The recursive equation of the sum.
LEMMA SumByPick ==
  ASSUME NEW f, NEW S, IsFiniteSet(S)
  PROVE  SumFunctionOnSet(f, S) =
           IF S = {} THEN 0 ELSE f[Pick(S)] + SumFunctionOnSet(f, S \ {Pick(S)})
<1>1. PICK a : Sums(f, S, a) BY SumsExist
<1>2. a[S] = IF S = {} THEN 0 ELSE f[Pick(S)] + a[S \ {Pick(S)}] BY <1>1 DEF Sums
<1>3. \A T \in SUBSET S : a[T] = Value(f, T) BY <1>1, SumsAreValues
<1>4. S \in SUBSET S /\ S \ {Pick(S)} \in SUBSET S OBVIOUS
<1>5. a[S] = Value(f, S) /\ a[S \ {Pick(S)}] = Value(f, S \ {Pick(S)}) BY <1>3, <1>4
<1> QED BY <1>2, <1>5, SumIsValue

-----------------------------------------------------------------------------

\* The empty sum.
LEMMA SumEmpty ==
  ASSUME NEW f
  PROVE  SumFunctionOnSet(f, {}) = 0
BY SumByPick, FS_EmptySet

\* A sum of integers is one, and any of them can be taken out.
LEMMA SumTakeOut ==
  ASSUME NEW f, NEW S, IsFiniteSet(S), \A x \in S : f[x] \in Int
  PROVE  /\ SumFunctionOnSet(f, S) \in Int
         /\ \A x \in S : SumFunctionOnSet(f, S) = f[x] + SumFunctionOnSet(f, S \ {x})
<1> DEFINE V(s) == SumFunctionOnSet(f, s)
           Good(s) == V(s) \in Int /\ \A x \in s : V(s) = f[x] + V(s \ {x})
           B == {s \in SUBSET S : ~Good(s)}
<1>1. ASSUME B # {} PROVE FALSE
  <2>0. B \subseteq SUBSET S OBVIOUS
  <2>1. PICK m \in B : \A s \in B : s \subseteq m => s = m
    <3> HIDE DEF B
    <3> QED BY <1>1, <2>0, SmallestSubset
  <2>2. m \in SUBSET S /\ ~Good(m) BY <2>1
  <2>3. \A s \in SUBSET m : s # m => Good(s) BY <2>1, <2>2
  <2>4. IsFiniteSet(m) BY <2>2, FS_Subset
  <2> HIDE DEF B
  <2>5. CASE m = {}
    <3>1. V(m) = 0 BY <2>5, SumEmpty
    <3> QED BY <3>1, <2>2, <2>5
  <2>6. CASE m # {}
    <3> DEFINE y == Pick(m)
    <3>1. y \in m /\ y \in S /\ m \ {y} \in SUBSET m /\ m \ {y} # m
      BY <2>2, <2>6, PickIn
    <3>2. V(m) = f[y] + V(m \ {y}) BY <2>4, <2>6, SumByPick
    <3>3. Good(m \ {y}) BY <2>3, <3>1
    <3>4. f[y] \in Int /\ V(m \ {y}) \in Int BY <3>1, <3>3
    <3> HIDE DEF V, y
    <3>5. V(m) \in Int BY <3>2, <3>4
    <3>6. ASSUME NEW x \in m PROVE V(m) = f[x] + V(m \ {x})
      <4>1. CASE x = y BY <4>1, <3>2
      <4>2. CASE x # y
        <5>1. x \in m \ {y} /\ y \in m \ {x} BY <3>1, <4>2
        <5>2. m \ {x} \in SUBSET m /\ m \ {x} # m OBVIOUS
        <5>3. Good(m \ {x}) BY <2>3, <5>2
        <5>4. V(m \ {y}) = f[x] + V((m \ {y}) \ {x}) BY <3>3, <5>1
        <5>5. V(m \ {x}) = f[y] + V((m \ {x}) \ {y}) BY <5>3, <5>1
        <5>6. (m \ {y}) \ {x} = (m \ {x}) \ {y} OBVIOUS
        <5>7. (m \ {y}) \ {x} \in SUBSET m /\ (m \ {y}) \ {x} # m OBVIOUS
        <5>8. V((m \ {y}) \ {x}) \in Int BY <2>3, <5>7
        <5>9. f[x] \in Int BY <2>2
        <5> DEFINE w == V((m \ {y}) \ {x})
        <5>10. V(m \ {y}) = f[x] + w /\ V(m \ {x}) = f[y] + w /\ w \in Int
          BY <5>4, <5>5, <5>6, <5>8
        <5> HIDE DEF w
        <5> QED BY <3>2, <3>4, <5>9, <5>10
      <4> QED BY <4>1, <4>2
    <3> QED BY <2>2, <3>5, <3>6
  <2> QED BY <2>5, <2>6
<1>2. S \notin B BY <1>1
<1> QED BY <1>2

\* An element is added to a sum.
LEMMA SumAdd ==
  ASSUME NEW f, NEW S, IsFiniteSet(S), \A x \in S : f[x] \in Int, NEW y, y \notin S, f[y] \in Int
  PROVE  SumFunctionOnSet(f, S \cup {y}) = SumFunctionOnSet(f, S) + f[y]
<1> DEFINE T == S \cup {y}
<1>1. IsFiniteSet(T) BY FS_AddElement
<1>2. (\A x \in T : f[x] \in Int) /\ y \in T /\ T \ {y} = S OBVIOUS
<1> HIDE DEF T
<1>3. SumFunctionOnSet(f, T) = f[y] + SumFunctionOnSet(f, S) BY <1>1, <1>2, SumTakeOut
<1>4. SumFunctionOnSet(f, S) \in Int BY SumTakeOut
<1> QED BY <1>3, <1>4 DEF T

\* Only the values on the set matter.
LEMMA SumSame ==
  ASSUME NEW f, NEW g, NEW S, IsFiniteSet(S), \A x \in S : f[x] = g[x]
  PROVE  SumFunctionOnSet(f, S) = SumFunctionOnSet(g, S)
<1> DEFINE V(s) == SumFunctionOnSet(f, s)  W(s) == SumFunctionOnSet(g, s)
           B == {s \in SUBSET S : V(s) # W(s)}
<1>1. ASSUME B # {} PROVE FALSE
  <2>0. B \subseteq SUBSET S OBVIOUS
  <2>1. PICK m \in B : \A s \in B : s \subseteq m => s = m
    <3> HIDE DEF B
    <3> QED BY <1>1, <2>0, SmallestSubset
  <2>2. m \in SUBSET S /\ V(m) # W(m) BY <2>1
  <2>3. \A s \in SUBSET m : s # m => V(s) = W(s) BY <2>1, <2>2
  <2>4. IsFiniteSet(m) BY <2>2, FS_Subset
  <2> HIDE DEF B
  <2>5. m # {} BY <2>2, SumEmpty
  <2> DEFINE y == Pick(m)
  <2>6. y \in m /\ y \in S /\ m \ {y} \in SUBSET m /\ m \ {y} # m BY <2>2, <2>5, PickIn
  <2>7. V(m) = f[y] + V(m \ {y}) /\ W(m) = g[y] + W(m \ {y}) BY <2>4, <2>5, SumByPick
  <2>8. V(m \ {y}) = W(m \ {y}) BY <2>3, <2>6
  <2>9. f[y] = g[y] BY <2>6
  <2> HIDE DEF V, W, y
  <2> QED BY <2>2, <2>7, <2>8, <2>9
<1>2. S \notin B BY <1>1
<1> QED BY <1>2

\* A sum of natural numbers is one.
LEMMA SumNat ==
  ASSUME NEW f, NEW S, IsFiniteSet(S), \A x \in S : f[x] \in Nat
  PROVE  SumFunctionOnSet(f, S) \in Nat
<1> DEFINE V(s) == SumFunctionOnSet(f, s)
           B == {s \in SUBSET S : V(s) \notin Nat}
<1>1. ASSUME B # {} PROVE FALSE
  <2>0. B \subseteq SUBSET S OBVIOUS
  <2>1. PICK m \in B : \A s \in B : s \subseteq m => s = m
    <3> HIDE DEF B
    <3> QED BY <1>1, <2>0, SmallestSubset
  <2>2. m \in SUBSET S /\ V(m) \notin Nat BY <2>1
  <2>3. \A s \in SUBSET m : s # m => V(s) \in Nat BY <2>1, <2>2
  <2>4. IsFiniteSet(m) BY <2>2, FS_Subset
  <2> HIDE DEF B
  <2>5. m # {} BY <2>2, SumEmpty
  <2> DEFINE y == Pick(m)
  <2>6. y \in m /\ y \in S /\ m \ {y} \in SUBSET m /\ m \ {y} # m BY <2>2, <2>5, PickIn
  <2>7. V(m) = f[y] + V(m \ {y}) BY <2>4, <2>5, SumByPick
  <2>8. V(m \ {y}) \in Nat BY <2>3, <2>6
  <2>9. f[y] \in Nat BY <2>6
  <2> HIDE DEF V, y
  <2> QED BY <2>2, <2>7, <2>8, <2>9
<1>2. S \notin B BY <1>1
<1> QED BY <1>2

\* One summand changes.
LEMMA SumUpdate ==
  ASSUME NEW f, NEW g, NEW S, IsFiniteSet(S), \A x \in S : f[x] \in Int, NEW y \in S,
         g[y] \in Int, \A x \in S : x # y => g[x] = f[x]
  PROVE  SumFunctionOnSet(g, S) = SumFunctionOnSet(f, S) - f[y] + g[y]
<1> DEFINE T == S \ {y}
<1>1. IsFiniteSet(T) BY FS_Subset
<1>2. /\ \A x \in S : g[x] \in Int
      /\ \A x \in T : f[x] \in Int
      /\ \A x \in T : f[x] = g[x]
  OBVIOUS
<1>3. SumFunctionOnSet(g, S) = g[y] + SumFunctionOnSet(g, T) BY <1>2, SumTakeOut
<1>4. SumFunctionOnSet(f, S) = f[y] + SumFunctionOnSet(f, T) BY <1>2, SumTakeOut
<1> HIDE DEF T
<1>5. SumFunctionOnSet(f, T) \in Int BY <1>1, <1>2, SumTakeOut
<1>6. SumFunctionOnSet(g, T) = SumFunctionOnSet(f, T) BY <1>1, <1>2, SumSame
<1>7. f[y] \in Int /\ g[y] \in Int OBVIOUS
<1> QED BY <1>3, <1>4, <1>5, <1>6, <1>7

\* Summands outside a subset that are 0 make no difference.
LEMMA SumSubset ==
  ASSUME NEW f, NEW g, NEW S, IsFiniteSet(S), NEW T, T \subseteq S,
         \A x \in T : f[x] \in Int /\ g[x] = f[x], \A x \in S \ T : g[x] = 0
  PROVE  SumFunctionOnSet(g, S) = SumFunctionOnSet(f, T)
<1> DEFINE R == S \ T
           V(s) == SumFunctionOnSet(g, T \cup s)
           B == {s \in SUBSET R : V(s) # SumFunctionOnSet(f, T)}
<1>0. IsFiniteSet(T) /\ IsFiniteSet(R) BY FS_Subset
<1>1. ASSUME B # {} PROVE FALSE
  <2>0. B \subseteq SUBSET R OBVIOUS
  <2>1. PICK m \in B : \A s \in B : s \subseteq m => s = m
    <3> HIDE DEF B, R
    <3> QED BY <1>0, <1>1, <2>0, SmallestSubset
  <2>2. m \in SUBSET R /\ V(m) # SumFunctionOnSet(f, T) BY <2>1
  <2>3. \A s \in SUBSET m : s # m => V(s) = SumFunctionOnSet(f, T) BY <2>1, <2>2
  <2> HIDE DEF B
  <2>4. CASE m = {}
    <3>1. T \cup m = T BY <2>4
    <3>2. \A x \in T : g[x] = f[x] OBVIOUS
    <3>3. SumFunctionOnSet(g, T) = SumFunctionOnSet(f, T) BY <1>0, <3>2, SumSame
    <3> QED BY <2>2, <3>1, <3>3
  <2>5. CASE m # {}
    <3>1. PICK y \in m : TRUE BY <2>5
    <3>2. y \in R /\ y \notin T /\ m \ {y} \in SUBSET m /\ m \ {y} # m BY <2>2, <3>1
    <3>3. (T \cup m) \ {y} = T \cup (m \ {y}) BY <3>2
    <3>4. IsFiniteSet(T \cup m) BY <2>2, FS_Subset
    <3>5. (\A x \in T \cup m : g[x] \in Int) /\ g[y] = 0 BY <2>2, <3>2
    <3> DEFINE U == T \cup m
    <3>6. y \in U BY <3>1
    <3> HIDE DEF U
    <3>7. /\ SumFunctionOnSet(g, U) = g[y] + SumFunctionOnSet(g, U \ {y})
          /\ SumFunctionOnSet(g, U) \in Int
      BY <3>4, <3>5, <3>6, SumTakeOut DEF U
    <3>8. IsFiniteSet(U \ {y}) /\ \A x \in U \ {y} : g[x] \in Int BY <3>4, <3>5, FS_Subset DEF U
    <3>9. SumFunctionOnSet(g, U \ {y}) \in Int BY <3>8, SumTakeOut
    <3>10. SumFunctionOnSet(g, U) = SumFunctionOnSet(g, U \ {y}) BY <3>5, <3>7, <3>9
    <3>11. V(m \ {y}) = SumFunctionOnSet(f, T) BY <2>3, <3>2
    <3> QED BY <2>2, <3>3, <3>10, <3>11 DEF U
  <2> QED BY <2>4, <2>5
<1>2. R \notin B BY <1>1
<1>3. T \cup R = S OBVIOUS
<1> QED BY <1>2, <1>3

\* A sum over two sets that have nothing in common.
LEMMA SumUnion ==
  ASSUME NEW f, NEW S, IsFiniteSet(S), NEW T, IsFiniteSet(T), S \cap T = {},
         \A x \in S \cup T : f[x] \in Int
  PROVE  SumFunctionOnSet(f, S \cup T) = SumFunctionOnSet(f, S) + SumFunctionOnSet(f, T)
<1> DEFINE U(s) == SumFunctionOnSet(f, S \cup s)
           V(s) == SumFunctionOnSet(f, s)
           B == {s \in SUBSET T : U(s) # V(S) + V(s)}
<1>0. V(S) \in Int BY SumTakeOut
<1>1. ASSUME B # {} PROVE FALSE
  <2>0. B \subseteq SUBSET T OBVIOUS
  <2>1. PICK m \in B : \A s \in B : s \subseteq m => s = m
    <3> HIDE DEF B
    <3> QED BY <1>1, <2>0, SmallestSubset
  <2>2. m \in SUBSET T /\ U(m) # V(S) + V(m) BY <2>1
  <2>3. \A s \in SUBSET m : s # m => U(s) = V(S) + V(s) BY <2>1, <2>2
  <2> HIDE DEF B
  <2>4. CASE m = {}
    <3>1. S \cup m = S BY <2>4
    <3>2. V(m) = 0 BY <2>4, SumEmpty
    <3>3. U(m) = V(S) BY <3>1
    <3> HIDE DEF U, V
    <3>4. U(m) = V(S) + V(m) BY <1>0, <3>2, <3>3
    <3> QED BY <2>2, <3>4
  <2>5. CASE m # {}
    <3>1. PICK y \in m : TRUE BY <2>5
    <3> DEFINE n == m \ {y}  p == S \cup n
    <3>2. y \in T /\ y \notin n /\ y \notin p /\ m = n \cup {y} /\ S \cup m = p \cup {y}
      BY <2>2, <3>1
    <3>3. IsFiniteSet(n) /\ IsFiniteSet(p)
      <4>1. IsFiniteSet(n) BY <2>2, FS_Subset
      <4> QED BY <4>1, FS_Union
    <3>4. (\A x \in n : f[x] \in Int) /\ (\A x \in p : f[x] \in Int) /\ f[y] \in Int
      BY <2>2, <3>2
    <3>5. U(n) = V(S) + V(n) BY <2>3, <3>1
    <3>6. U(n) = V(p) OBVIOUS
    <3> HIDE DEF n, p
    <3>7. V(n \cup {y}) = V(n) + f[y] BY <3>2, <3>3, <3>4, SumAdd
    <3>8. V(p \cup {y}) = V(p) + f[y] BY <3>2, <3>3, <3>4, SumAdd
    <3>9. V(n) \in Int BY <3>3, <3>4, SumTakeOut
    <3>10. PICK a, b, c \in Int : a = V(S) /\ b = V(n) /\ c = f[y] BY <1>0, <3>4, <3>9
    <3>11. V(m) = b + c BY <3>2, <3>7, <3>10
    <3>12. U(m) = (a + b) + c BY <3>2, <3>5, <3>6, <3>8, <3>10
    <3> HIDE DEF U, V
    <3>13. U(m) = V(S) + V(m) BY <3>10, <3>11, <3>12
    <3> QED BY <2>2, <3>13
  <2> QED BY <2>4, <2>5
<1>2. T \notin B BY <1>1
<1> QED BY <1>2
=============================================================================
