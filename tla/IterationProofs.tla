-------------------------- MODULE IterationProofs --------------------------
(***************************************************************************)
(* What a loop keeps.  The theorems of the library about induction have an *)
(* operator as a parameter; here they are said of sets and functions.      *)
(***************************************************************************)
EXTENDS Iteration, SequenceTheorems, WellFoundedInduction, TLAPS

LEMMA LeastOf ==
  ASSUME NEW T, T \subseteq Nat, T # {}
  PROVE  \E m \in T : \A k \in T : m <= k
<1>1. PICK m \in T : \A k \in T : ~(<<k, m>> \in OpToRel(<, Nat))
  BY NatLessThanWellFounded, WFMin
<1>2. ASSUME NEW k \in Nat, NEW l \in Nat, k < l
      PROVE  <<k, l>> \in OpToRel(<, Nat)
  BY <1>2 DEF OpToRel
<1>3. \A k \in T : ~(k < m)
  BY <1>1, <1>2
<1>. QED
  BY <1>3

LEMMA NatSetInduction ==
  ASSUME NEW T, 0 \in T, \A n \in Nat : n \in T => n + 1 \in T
  PROVE  Nat \subseteq T
<1>1. SUFFICES ASSUME Nat \ T # {} PROVE FALSE
  OBVIOUS
<1>2. PICK m \in Nat \ T : \A k \in Nat \ T : m <= k
  BY <1>1, LeastOf
<1>3. m # 0 /\ m - 1 \in T
  BY <1>2
<1>. QED
  BY <1>2, <1>3

\* The values that a loop goes through, each of its steps being a function.
Follows(f, x, n, G) == f[0] = x /\ \A i \in 1..n : f[i] = G[i][f[i - 1]]

LEMMA LoopExists ==
  ASSUME NEW S, NEW x \in S, NEW n \in Nat, NEW G \in [1..n -> [S -> S]]
  PROVE  \E f \in [0..n -> S] : Follows(f, x, n, G)
<1>. DEFINE Loop(f, k) == Follows(f, x, k, G)
            T == {k \in Nat : k <= n => \E f \in [0..n -> S] : Loop(f, k)}
<1>1. 0 \in T
  <2>1. PICK f : f = [i \in 0..n |-> x]
    OBVIOUS
  <2>2. f \in [0..n -> S] /\ Loop(f, 0)
    BY <2>1 DEF Follows
  <2>. QED
    BY <2>2
<1>2. ASSUME NEW k \in Nat, k \in T PROVE k + 1 \in T
  <2>1. SUFFICES ASSUME k + 1 <= n PROVE \E f \in [0..n -> S] : Loop(f, k + 1)
    OBVIOUS
  <2>2. PICK f \in [0..n -> S] : Loop(f, k)
    BY <1>2, <2>1
  <2>. DEFINE g == [f EXCEPT ![k + 1] = G[k + 1][f[k]]]
  <2>3. g \in [0..n -> S]
    BY <2>1
  <2>4. Loop(g, k + 1)
    BY <2>1, <2>2 DEF Follows
  <2>. QED
    BY <2>3, <2>4
<1>. HIDE DEF T
<1>3. n \in T
  BY <1>1, <1>2, NatSetInduction
<1>. QED
  BY <1>3 DEF T, Follows

\* The same, as far as the values are in the set the steps are defined on.
FollowsIn(f, x, n, G, S) == f[0] = x /\ \A i \in 1..n : f[i - 1] \in S => f[i] = G[i][f[i - 1]]

\* Such a loop stays where each of its steps does.
LEMMA LoopStays ==
  ASSUME NEW S, NEW x \in S, NEW n \in Nat, NEW G \in [1..n -> [S -> S]],
         NEW f, FollowsIn(f, x, n, G, S)
  PROVE  \A i \in 0..n : f[i] \in S
<1>. USE DEF FollowsIn
<1>. DEFINE T == {i \in Nat : i <= n => f[i] \in S}
<1>1. 0 \in T
  OBVIOUS
<1>2. ASSUME NEW i \in Nat, i \in T PROVE i + 1 \in T
  BY <1>2
<1>. HIDE DEF T
<1>3. Nat \subseteq T
  BY <1>1, <1>2, NatSetInduction
<1>. QED
  BY <1>3 DEF T
\* What is not changed from l on is in the end what it was at l.
LEMMA SameFrom ==
  ASSUME NEW n \in Nat, NEW l \in 0..n, NEW f, \A i \in (l + 1)..n : f[i] = f[i - 1]
  PROVE  f[n] = f[l]
<1>. DEFINE T == {i \in Nat : l + i <= n => f[l + i] = f[l]}
<1>1. 0 \in T
  OBVIOUS
<1>2. ASSUME NEW i \in Nat, i \in T PROVE i + 1 \in T
  <2>1. SUFFICES ASSUME l + (i + 1) <= n PROVE f[l + (i + 1)] = f[l]
    OBVIOUS
  <2>2. l + (i + 1) \in (l + 1)..n /\ (l + (i + 1)) - 1 = l + i
    BY <2>1
  <2>. QED
    BY <1>2, <2>1, <2>2
<1>. HIDE DEF T
<1>3. n - l \in T
  BY <1>1, <1>2, NatSetInduction
<1>. QED
  BY <1>3 DEF T

LEMMA LastIndex ==
  ASSUME NEW n \in Nat, NEW P, P \subseteq 1..n, P # {}
  PROVE  \E l \in P : \A i \in P : i <= l
<1>. DEFINE T == {m \in Nat : m <= n /\ n - m \in P}
<1>1. PICK i \in P : TRUE
  OBVIOUS
<1>2. n - i \in T
  BY <1>1
<1>. HIDE DEF T
<1>3. T \subseteq Nat
  BY DEF T
<1>4. PICK m \in T : \A k \in T : m <= k
  BY <1>2, <1>3, LeastOf
<1>5. n - m \in P /\ m \in Nat
  BY <1>4 DEF T
<1>6. ASSUME NEW j \in P PROVE j <= n - m
  <2>1. n - j \in T
    BY DEF T
  <2>. QED
    BY <1>4, <1>5, <2>1
<1>. QED
  BY <1>5, <1>6

\* A loop that goes on as f does wherever it is at f's value ends as f does.
LEMMA SameLoop ==
  ASSUME NEW n \in Nat, NEW f, NEW g, g[0] = f[0],
         \A i \in 1..n : g[i - 1] = f[i - 1] => g[i] = f[i]
  PROVE  g[n] = f[n]
<1>. DEFINE T == {i \in Nat : i <= n => g[i] = f[i]}
<1>1. 0 \in T
  OBVIOUS
<1>2. ASSUME NEW i \in Nat, i \in T PROVE i + 1 \in T
  <2>1. SUFFICES ASSUME i + 1 <= n PROVE g[i + 1] = f[i + 1]
    OBVIOUS
  <2>2. i + 1 \in 1..n /\ (i + 1) - 1 = i /\ g[i] = f[i]
    BY <1>2, <2>1
  <2>. QED
    BY <2>2
<1>. HIDE DEF T
<1>3. Nat \subseteq T
  BY <1>1, <1>2, NatSetInduction
<1>. QED
  BY <1>3 DEF T
=============================================================================
