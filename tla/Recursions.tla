------------------------------ MODULE Recursions -------------------------------
(***************************************************************************)
(* Induction over the naturals for a set, and the existence of the         *)
(* function that a recursive definition over 0 .. n describes.  With these *)
(* the recursive functions of the models (the bytes charged to the files   *)
(* of an engine, a read of an external EPUB) are reasoned about step by    *)
(* step.                                                                   *)
(***************************************************************************)
EXTENDS Integers, WellFoundedInduction, TLAPS

-----------------------------------------------------------------------------
\* A nonempty set of naturals has a least element.
LEMMA LeastOfNats ==
  ASSUME NEW S, S \subseteq Nat, S # {}
  PROVE  \E x \in S : \A y \in S : x <= y
<1>1. PICK x \in S : \A y \in S : <<y, x>> \notin OpToRel(<, Nat)
  BY NatLessThanWellFounded, WFMin
<1>2. \A y \in S : ~(y < x)
  BY <1>1 DEF OpToRel
<1> QED
  BY <1>2

\* A set that holds 0 and the successor of each of its members holds every natural number.
LEMMA NatSet ==
  ASSUME NEW T, 0 \in T, \A n \in Nat : n \in T => n + 1 \in T
  PROVE  Nat \subseteq T
<1>1. SUFFICES ASSUME Nat \ T # {} PROVE FALSE
  OBVIOUS
<1>2. PICK x \in Nat \ T : \A y \in Nat \ T : x <= y
  BY <1>1, LeastOfNats
<1>3. x - 1 \in Nat /\ x - 1 \in T
  BY <1>2
<1> QED
  BY <1>2, <1>3

\* A nonempty bounded set of naturals has a greatest element.
LEMMA GreatestOfNats ==
  ASSUME NEW n \in Nat, NEW S, S \subseteq 0 .. n, S # {}
  PROVE  \E x \in S : \A y \in S : x >= y
<1> DEFINE D == {d \in Nat : n - d \in S}
<1>1. PICK z \in S : TRUE
  OBVIOUS
<1>2. n - z \in D
  BY <1>1
<1>3. PICK d \in D : \A e \in D : d <= e
  BY <1>2, LeastOfNats
<1>4. \A y \in S : n - y \in D
  OBVIOUS
<1> QED
  BY <1>3, <1>4

-----------------------------------------------------------------------------
\* F is a step from S to S for each of 1 .. n, and f the function that takes them from b on.
Steps(F, n, S) == \A k \in 1 .. n : F[k] \in [S -> S]
Takes(f, F, b, n, S) == f \in [0 .. n -> S] /\ f[0] = b /\ \A k \in 1 .. n : f[k] = F[k][f[k-1]]

\* A recursive definition over 0 .. n with a base in S and steps from S to S is met by a function.
LEMMA RecursionExists ==
  ASSUME NEW S, NEW b \in S, NEW n \in Nat, NEW F, Steps(F, n, S)
  PROVE  \E f : Takes(f, F, b, n, S)
<1> USE DEF Steps, Takes
<1> DEFINE Upto(m) == \E f : Takes(f, F, b, m, S)
           T == {m \in Nat : m <= n => Upto(m)}
<1>1. 0 \in T
  <2> DEFINE g == [k \in 0 .. 0 |-> b]
  <2>1. g \in [0 .. 0 -> S] /\ g[0] = b
    OBVIOUS
  <2>2. \A k \in 1 .. 0 : g[k] = F[k][g[k-1]]
    OBVIOUS
  <2>3. Upto(0)
    BY <2>1, <2>2
  <2> QED
    BY <2>3
<1>2. ASSUME NEW m \in Nat, m \in T PROVE m + 1 \in T
  <2>1. SUFFICES ASSUME m + 1 <= n PROVE Upto(m + 1)
    OBVIOUS
  <2>2. PICK f : Takes(f, F, b, m, S)
    BY <1>2, <2>1
  <2> DEFINE g == [k \in 0 .. m + 1 |-> IF k <= m THEN f[k] ELSE F[m+1][f[m]]]
  <2>3. F[m+1][f[m]] \in S
    BY <2>1, <2>2
  <2>4. g \in [0 .. m + 1 -> S]
    BY <2>2, <2>3
  <2>5. g[0] = b
    BY <2>2
  <2>6. \A k \in 1 .. m + 1 : g[k] = F[k][g[k-1]]
    <3>1. TAKE k \in 1 .. m + 1
    <3>2. CASE k <= m
      BY <2>2, <3>2
    <3>3. CASE k = m + 1
      BY <3>3
    <3> QED
      BY <3>2, <3>3
  <2> QED
    BY <2>4, <2>5, <2>6
<1>3. Nat \subseteq T
  <2> HIDE DEF T
  <2> QED
    BY <1>1, <1>2, NatSet
<1> QED
  BY <1>3

===============================================================================
