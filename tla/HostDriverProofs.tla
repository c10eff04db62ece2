-------------------------- MODULE HostDriverProofs --------------------------
(***************************************************************************)
(* Proofs about HostDriver, for any number of config files, tests and      *)
(* variables, whatever they refer to.                                      *)
(***************************************************************************)
EXTENDS HostDriver, IterationProofs

Envs     == [Keys -> Values]
Original == [key : Keys \union {BadKey}, value : Seq(Pieces)]

-----------------------------------------------------------------------------
(* A variable that is set or put back.                                     *)

LEMMA GetenvTyped ==
  ASSUME NEW e \in Envs, NEW k
  PROVE  Getenv(e, k) \in Seq(Pieces)
<1>1. k \in Keys => e[k] \in Seq(Pieces) \/ e[k] = Unset
  BY DEF Envs, Values
<1>. QED
  BY <1>1, EmptySeq DEF Getenv

LEMMA SetenvSets ==
  ASSUME NEW e \in Envs, NEW x \in EnvVar
  PROVE  /\ Setenv(e, x) \in Envs
         /\ \A k \in Keys : k # x.key => Setenv(e, x)[k] = e[k]
         /\ x.key \in Keys /\ x.ref = NoRef => Setenv(e, x)[x.key] = x.lit
         /\ x.key \in Keys /\ x.ref \in Keys /\ e[x.ref] \in Seq(Pieces) => Setenv(e, x)[x.key] = e[x.ref] \o x.lit
<1>1. x.lit \in Seq(Pieces)
  BY DEF EnvVar
<1>2. ExpandEnv(e, x) \in Seq(Pieces)
  BY <1>1, GetenvTyped, ConcatProperties DEF ExpandEnv
<1>3. x.ref = NoRef => ExpandEnv(e, x) = x.lit
  <2>1. NoRef \notin Keys
    BY HostAssumption
  <2>2. x.ref = NoRef => Getenv(e, x.ref) = << >>
    BY <2>1 DEF Getenv
  <2>. QED
    BY <1>1, <2>2, ConcatEmptySeq DEF ExpandEnv
<1>4. ExpandEnv(e, x) \in Values
  BY <1>2 DEF Values
<1>5. x.ref \in Keys /\ e[x.ref] \in Seq(Pieces) => ExpandEnv(e, x) = e[x.ref] \o x.lit
  BY HostAssumption DEF ExpandEnv, Getenv
<1>. QED
  BY <1>3, <1>4, <1>5 DEF Setenv, Envs

\* What os.Unsetenv or os.Setenv makes of a value that was noted.
Restored(value) == IF value = << >> THEN Unset ELSE value

LEMMA ResetenvSets ==
  ASSUME NEW e \in Envs, NEW o \in Original
  PROVE  /\ Resetenv(e, o) \in Envs
         /\ \A k \in Keys : Resetenv(e, o)[k] = IF k = o.key THEN Restored(o.value) ELSE e[k]
<1>1. Restored(o.value) \in Values
  BY DEF Original, Values, Restored
<1>2. Resetenv(e, o) = IF o.key \in Keys THEN [e EXCEPT ![o.key] = Restored(o.value)] ELSE e
  BY DEF Resetenv, Restored
<1>. QED
  BY <1>1, <1>2 DEF Envs

-----------------------------------------------------------------------------
(* The loops.                                                              *)

LEMMA SetEnvSteps ==
  ASSUME NEW e \in Envs, NEW xs \in Seq(EnvVar)
  PROVE  \E f \in [0..Len(xs) -> Envs] :
           /\ f[0] = e /\ f[Len(xs)] = SetEnvVars(e, xs)
           /\ \A i \in 1..Len(xs) : f[i] = Setenv(f[i - 1], xs[i])
<1>. DEFINE n == Len(xs)
            Step(z, i) == Setenv(z, xs[i])
            F(f) == [i \in 0..n |-> IF i = 0 THEN e ELSE CHOOSE y \in {Step(z, i) : z \in {f[i - 1]}} : TRUE]
            after == CHOOSE f : f = F(f)
<1>1. SetEnvVars(e, xs) = after[n]
  BY DEF SetEnvVars, Iterate
<1>2. n \in Nat
  BY LenProperties
<1>3. \A y \in Envs, i \in 1..n : Step(y, i) \in Envs
  BY ElementOfSeq, SetenvSets
<1>4. \A y, i : Step(y, i) = Setenv(y, xs[i])
  OBVIOUS
<1>. HIDE DEF Step
<1>5. PICK G : G = [i \in 1..n |-> [y \in Envs |-> Step(y, i)]]
  OBVIOUS
<1>6. G \in [1..n -> [Envs -> Envs]] /\ \A y \in Envs, i \in 1..n : G[i][y] = Step(y, i)
  BY <1>3, <1>5
<1>. HIDE DEF n
<1>7. \A f, i : (CHOOSE y \in {Step(z, i) : z \in {f[i - 1]}} : TRUE) = Step(f[i - 1], i)
  OBVIOUS
<1>8. PICK f \in [0..n -> Envs] : Follows(f, e, n, G)
  BY <1>2, <1>6, LoopExists
<1>9. f[0] = e /\ \A i \in 1..n : f[i - 1] \in Envs /\ f[i] = Step(f[i - 1], i)
  BY <1>2, <1>6, <1>8 DEF Follows
<1>10. after = F(after)
  <2>1. \A i \in 0..n : f[i] = F(f)[i]
    BY <1>2, <1>7, <1>9
  <2>2. f = F(f)
    BY <1>8, <2>1
  <2>. QED
    BY <2>2
<1>. HIDE DEF after
<1>11. after[0] = e /\ \A i \in 1..n : after[i] = Step(after[i - 1], i)
  BY <1>2, <1>7, <1>10
<1>12. FollowsIn(after, e, n, G, Envs)
  BY <1>6, <1>11 DEF FollowsIn
<1>13. \A k \in 0..n : after[k] \in Envs
  BY <1>2, <1>6, <1>12, LoopStays
<1>14. DOMAIN after = 0..n
  BY <1>10
<1>15. after \in [0..n -> Envs]
  BY <1>10, <1>13, <1>14
<1>. QED
  BY <1>1, <1>4, <1>11, <1>15 DEF n

LEMMA ResetSteps ==
  ASSUME NEW e \in Envs, NEW os \in Seq(Original)
  PROVE  \E f \in [0..Len(os) -> Envs] :
           /\ f[0] = e /\ f[Len(os)] = ResetEnvVars(e, os)
           /\ \A i \in 1..Len(os) : f[i] = Resetenv(f[i - 1], os[i])
<1>. DEFINE n == Len(os)
            Step(z, i) == Resetenv(z, os[i])
            F(f) == [i \in 0..n |-> IF i = 0 THEN e ELSE CHOOSE y \in {Step(z, i) : z \in {f[i - 1]}} : TRUE]
            after == CHOOSE f : f = F(f)
<1>1. ResetEnvVars(e, os) = after[n]
  BY DEF ResetEnvVars, Iterate
<1>2. n \in Nat
  BY LenProperties
<1>3. \A y \in Envs, i \in 1..n : Step(y, i) \in Envs
  BY ElementOfSeq, ResetenvSets
<1>4. \A y, i : Step(y, i) = Resetenv(y, os[i])
  OBVIOUS
<1>. HIDE DEF Step
<1>5. PICK G : G = [i \in 1..n |-> [y \in Envs |-> Step(y, i)]]
  OBVIOUS
<1>6. G \in [1..n -> [Envs -> Envs]] /\ \A y \in Envs, i \in 1..n : G[i][y] = Step(y, i)
  BY <1>3, <1>5
<1>. HIDE DEF n
<1>7. \A f, i : (CHOOSE y \in {Step(z, i) : z \in {f[i - 1]}} : TRUE) = Step(f[i - 1], i)
  OBVIOUS
<1>8. PICK f \in [0..n -> Envs] : Follows(f, e, n, G)
  BY <1>2, <1>6, LoopExists
<1>9. f[0] = e /\ \A i \in 1..n : f[i - 1] \in Envs /\ f[i] = Step(f[i - 1], i)
  BY <1>2, <1>6, <1>8 DEF Follows
<1>10. after = F(after)
  <2>1. \A i \in 0..n : f[i] = F(f)[i]
    BY <1>2, <1>7, <1>9
  <2>2. f = F(f)
    BY <1>8, <2>1
  <2>. QED
    BY <2>2
<1>. HIDE DEF after
<1>11. after[0] = e /\ \A i \in 1..n : after[i] = Step(after[i - 1], i)
  BY <1>2, <1>7, <1>10
<1>12. FollowsIn(after, e, n, G, Envs)
  BY <1>6, <1>11 DEF FollowsIn
<1>13. \A k \in 0..n : after[k] \in Envs
  BY <1>2, <1>6, <1>12, LoopStays
<1>14. DOMAIN after = 0..n
  BY <1>10
<1>15. after \in [0..n -> Envs]
  BY <1>10, <1>13, <1>14
<1>. QED
  BY <1>1, <1>4, <1>11, <1>15 DEF n

-----------------------------------------------------------------------------
(* Lists of variables.                                                     *)

\* What LastOf chooses.
LEMMA LastOfIs ==
  ASSUME NEW xs \in Seq(EnvVar), NEW k \in KeysOf(xs)
  PROVE  \E l \in 1..Len(xs) :
           LastOf(xs, k) = xs[l] /\ xs[l].key = k /\ \A j \in (l + 1)..Len(xs) : xs[j].key # k
<1>1. Len(xs) \in Nat /\ DOMAIN xs = 1..Len(xs)
  BY LenProperties
<1>2. PICK P : P = {i \in 1..Len(xs) : xs[i].key = k}
  OBVIOUS
<1>3. P # {} /\ P \subseteq 1..Len(xs)
  BY <1>1, <1>2 DEF KeysOf
<1>4. PICK m \in P : \A i \in P : i <= m
  BY <1>1, <1>3, LastIndex
<1>5. m \in DOMAIN xs /\ xs[m].key = k /\ \A j \in (m + 1)..Len(xs) : xs[j].key # k
  BY <1>1, <1>2, <1>4
<1>6. PICK l : l = CHOOSE i \in DOMAIN xs : xs[i].key = k /\ \A j \in (i + 1)..Len(xs) : xs[j].key # k
  OBVIOUS
<1>7. l \in DOMAIN xs /\ xs[l].key = k /\ \A j \in (l + 1)..Len(xs) : xs[j].key # k
  BY <1>5, <1>6
<1>8. LastOf(xs, k) = xs[l]
  BY <1>6 DEF LastOf
<1>. QED
  BY <1>1, <1>7, <1>8

LEMMA KeysAreTyped ==
  ASSUME NEW xs \in Seq(EnvVar)
  PROVE  KeysOf(xs) \subseteq Keys \union {BadKey}
<1>1. \A i \in DOMAIN xs : xs[i] \in EnvVar
  BY LenProperties, ElementOfSeq
<1>. QED
  BY <1>1 DEF KeysOf, EnvVar

LEMMA KeysOfConcat ==
  ASSUME NEW xs \in Seq(EnvVar), NEW ys \in Seq(EnvVar)
  PROVE  /\ xs \o ys \in Seq(EnvVar) /\ KeysOf(xs \o ys) = KeysOf(xs) \union KeysOf(ys)
         /\ \A k \in KeysOf(ys) : LastOf(xs \o ys, k) = LastOf(ys, k)
         /\ \A k \in KeysOf(xs) \ KeysOf(ys) : LastOf(xs \o ys, k) = LastOf(xs, k)
<1>1. PICK both : both = xs \o ys
  OBVIOUS
<1>2. /\ both \in Seq(EnvVar) /\ Len(both) = Len(xs) + Len(ys) /\ Len(xs) \in Nat /\ Len(ys) \in Nat
      /\ DOMAIN xs = 1..Len(xs) /\ DOMAIN ys = 1..Len(ys) /\ DOMAIN both = 1..(Len(xs) + Len(ys))
      /\ \A i \in 1..(Len(xs) + Len(ys)) : both[i] = IF i <= Len(xs) THEN xs[i] ELSE ys[i - Len(xs)]
  BY <1>1, ConcatProperties, LenProperties
<1>3. \A i \in 1..Len(xs) : i \in DOMAIN both /\ both[i] = xs[i]
  BY <1>2
<1>4. \A i \in 1..Len(ys) : Len(xs) + i \in DOMAIN both /\ both[Len(xs) + i] = ys[i]
  BY <1>2
<1>5. KeysOf(both) = KeysOf(xs) \union KeysOf(ys)
  <2>1. KeysOf(xs) \subseteq KeysOf(both)
    BY <1>2, <1>3 DEF KeysOf
  <2>2. ASSUME NEW i \in DOMAIN ys PROVE ys[i].key \in KeysOf(both)
    <3>1. Len(xs) + i \in DOMAIN both /\ both[Len(xs) + i] = ys[i]
      BY <1>2, <1>4
    <3>. QED
      BY <3>1, Zenon DEF KeysOf
  <2>3. ASSUME NEW i \in DOMAIN both PROVE both[i].key \in KeysOf(xs) \union KeysOf(ys)
    <3>1. CASE i <= Len(xs)
      BY <1>2, <3>1 DEF KeysOf
    <3>2. CASE ~(i <= Len(xs))
      <4>1. both[i] = ys[i - Len(xs)] /\ i - Len(xs) \in DOMAIN ys
        BY <1>2, <3>2
      <4>. QED
        BY <4>1 DEF KeysOf
    <3>. QED
      BY <3>1, <3>2
  <2>4. KeysOf(both) \subseteq KeysOf(xs) \union KeysOf(ys)
    BY <2>3 DEF KeysOf
  <2>5. KeysOf(ys) \subseteq KeysOf(both)
    BY <2>2, Zenon DEF KeysOf
  <2>. QED
    BY <2>1, <2>4, <2>5
<1>6. ASSUME NEW k, NEW l \in 1..Len(both), both[l].key = k, \A j \in (l + 1)..Len(both) : both[j].key # k,
             NEW m \in 1..Len(both), both[m].key = k, \A j \in (m + 1)..Len(both) : both[j].key # k
      PROVE  l = m
  <2>1. ~(l < m)
    BY <1>2, <1>6
  <2>2. ~(m < l)
    BY <1>2, <1>6
  <2>. QED
    BY <1>2, <2>1, <2>2
<1>7. ASSUME NEW k \in KeysOf(ys) PROVE LastOf(both, k) = LastOf(ys, k)
  <2>1. PICK m \in 1..Len(ys) :
          LastOf(ys, k) = ys[m] /\ ys[m].key = k /\ \A j \in (m + 1)..Len(ys) : ys[j].key # k
    BY LastOfIs
  <2>2. /\ Len(xs) + m \in 1..Len(both) /\ both[Len(xs) + m] = ys[m]
        /\ \A j \in ((Len(xs) + m) + 1)..Len(both) : both[j].key # k
    <3>1. Len(xs) + m \in 1..Len(both) /\ both[Len(xs) + m] = ys[m]
      BY <1>2, <1>4
    <3>2. ASSUME NEW j \in ((Len(xs) + m) + 1)..Len(both) PROVE both[j].key # k
      <4>1. j - Len(xs) \in (m + 1)..Len(ys) /\ both[j] = ys[j - Len(xs)]
        BY <1>2
      <4>. QED
        BY <2>1, <4>1
    <3>. QED
      BY <3>1, <3>2
  <2>3. PICK l \in 1..Len(both) :
          LastOf(both, k) = both[l] /\ both[l].key = k /\ \A j \in (l + 1)..Len(both) : both[j].key # k
    <3>1. k \in KeysOf(both)
      BY <1>5
    <3>. QED
      BY <1>2, <3>1, LastOfIs
  <2>4. l = Len(xs) + m
    BY <1>6, <2>1, <2>2, <2>3
  <2>. QED
    BY <2>1, <2>2, <2>3, <2>4
<1>8. ASSUME NEW k \in KeysOf(xs) \ KeysOf(ys) PROVE LastOf(both, k) = LastOf(xs, k)
  <2>1. PICK m \in 1..Len(xs) :
          LastOf(xs, k) = xs[m] /\ xs[m].key = k /\ \A j \in (m + 1)..Len(xs) : xs[j].key # k
    BY LastOfIs
  <2>2. /\ m \in 1..Len(both) /\ both[m] = xs[m]
        /\ \A j \in (m + 1)..Len(both) : both[j].key # k
    <3>1. m \in 1..Len(both) /\ both[m] = xs[m]
      BY <1>2
    <3>2. ASSUME NEW j \in (m + 1)..Len(both) PROVE both[j].key # k
      <4>1. CASE j <= Len(xs)
        BY <1>2, <2>1, <4>1
      <4>2. CASE ~(j <= Len(xs))
        <5>1. j - Len(xs) \in DOMAIN ys /\ both[j] = ys[j - Len(xs)]
          BY <1>2, <4>2
        <5>2. ys[j - Len(xs)].key \in KeysOf(ys)
          BY <5>1 DEF KeysOf
        <5>. QED
          BY <5>1, <5>2
      <4>. QED
        BY <4>1, <4>2
    <3>. QED
      BY <3>1, <3>2
  <2>3. PICK l \in 1..Len(both) :
          LastOf(both, k) = both[l] /\ both[l].key = k /\ \A j \in (l + 1)..Len(both) : both[j].key # k
    <3>1. k \in KeysOf(both)
      BY <1>5
    <3>. QED
      BY <1>2, <3>1, LastOfIs
  <2>4. l = m
    BY <1>6, <2>1, <2>2, <2>3
  <2>. QED
    BY <2>1, <2>2, <2>3, <2>4
<1>. QED
  BY <1>1, <1>2, <1>5, <1>7, <1>8

\* SetEnv gets through all of its variables, if none is refused.
LEMMA AcceptedIs ==
  ASSUME NEW xs \in Seq(EnvVar)
  PROVE  /\ Accepted(xs) \in Seq(EnvVar) /\ KeysOf(Accepted(xs)) \subseteq KeysOf(xs)
         /\ Refused(xs) = {} => Accepted(xs) = xs
<1>1. Len(xs) \in Nat /\ DOMAIN xs = 1..Len(xs) /\ \A i \in 1..Len(xs) : xs[i] \in EnvVar
  BY LenProperties, ElementOfSeq
<1>. DEFINE Through(n) == (\A i \in 1..n : i \notin Refused(xs)) /\ (n = Len(xs) \/ n + 1 \in Refused(xs))
<1>2. PICK n : n = CHOOSE k \in 0..Len(xs) : Through(k)
  OBVIOUS
<1>3. \E k \in 0..Len(xs) : Through(k)
  <2>1. CASE Refused(xs) = {}
    <3>1. Through(Len(xs)) /\ Len(xs) \in 0..Len(xs)
      BY <1>1, <2>1
    <3>. QED
      BY <3>1
  <2>2. CASE Refused(xs) # {}
    <3>1. Refused(xs) \subseteq Nat /\ Refused(xs) \subseteq 1..Len(xs)
      BY <1>1 DEF Refused
    <3>2. PICK m \in Refused(xs) : \A k \in Refused(xs) : m <= k
      BY <2>2, <3>1, LeastOf
    <3>3. m - 1 \in 0..Len(xs) /\ (m - 1) + 1 = m /\ \A i \in 1..(m - 1) : i \notin Refused(xs)
      BY <1>1, <3>1, <3>2
    <3>4. Through(m - 1)
      BY <3>3
    <3>. QED
      BY <3>3, <3>4
  <2>. QED
    BY <2>1, <2>2
<1>. HIDE DEF Through
<1>4. n \in 0..Len(xs) /\ Through(n)
  BY <1>2, <1>3
<1>5. Accepted(xs) = SubSeq(xs, 1, n)
  BY <1>2 DEF Accepted, Through
<1>6. /\ SubSeq(xs, 1, n) \in Seq(EnvVar) /\ Len(SubSeq(xs, 1, n)) = n
      /\ \A i \in 1..n : SubSeq(xs, 1, n)[i] = xs[i]
  <2>1. n \in Int /\ \A i \in 1..n : xs[i] \in EnvVar
    BY <1>1, <1>4
  <2>. QED
    BY <1>4, <2>1, SubSeqProperties
<1>7. KeysOf(SubSeq(xs, 1, n)) \subseteq KeysOf(xs)
  <2>1. DOMAIN SubSeq(xs, 1, n) = 1..n
    BY <1>6, LenProperties
  <2>. QED
    BY <1>1, <1>4, <1>6, <2>1 DEF KeysOf
<1>8. Refused(xs) = {} => n = Len(xs)
  BY <1>4 DEF Through
<1>9. SubSeq(xs, 1, Len(xs)) = xs
  BY SubSeqFull
<1>. QED
  BY <1>5, <1>6, <1>7, <1>8, <1>9

-----------------------------------------------------------------------------
(* What the loops do to a variable.                                        *)

\* A variable that is not named stays, and one has the value that it was given

\* last.
LEMMA SetEnvVarsSets ==
  ASSUME NEW e \in Envs, NEW xs \in Seq(EnvVar)
  PROVE  /\ SetEnvVars(e, xs) \in Envs
         /\ \A k \in Keys \ KeysOf(xs) : SetEnvVars(e, xs)[k] = e[k]
         /\ \A k \in KeysOf(xs) \cap Keys :
              LastOf(xs, k).ref = NoRef => SetEnvVars(e, xs)[k] = LastOf(xs, k).lit
<1>1. PICK n : n = Len(xs)
  OBVIOUS
<1>2. n \in Nat /\ DOMAIN xs = 1..n /\ \A i \in 1..n : xs[i] \in EnvVar
  BY <1>1, LenProperties, ElementOfSeq
<1>3. PICK f \in [0..n -> Envs] :
        f[0] = e /\ f[n] = SetEnvVars(e, xs) /\ \A i \in 1..n : f[i] = Setenv(f[i - 1], xs[i])
  BY <1>1, SetEnvSteps
<1>4. \A i \in 1..n : f[i - 1] \in Envs
  BY <1>2, <1>3
<1>5. ASSUME NEW k \in Keys, NEW l \in 0..n, \A j \in (l + 1)..n : xs[j].key # k
      PROVE  f[n][k] = f[l][k]
  <2>1. PICK h : h = [i \in 0..n |-> f[i][k]]
    OBVIOUS
  <2>2. ASSUME NEW i \in (l + 1)..n PROVE h[i] = h[i - 1]
    <3>1. i \in 1..n /\ i \in 0..n /\ i - 1 \in 0..n
      BY <1>2, <1>5
    <3>2. f[i - 1] \in Envs /\ xs[i] \in EnvVar /\ f[i] = Setenv(f[i - 1], xs[i]) /\ xs[i].key # k
      BY <1>2, <1>3, <1>4, <1>5, <3>1
    <3>3. Setenv(f[i - 1], xs[i])[k] = f[i - 1][k]
      BY <1>5, <3>2, SetenvSets
    <3>4. f[i][k] = f[i - 1][k]
      BY <3>2, <3>3
    <3>. QED
      BY <2>1, <3>1, <3>4
  <2>3. h[n] = h[l]
    BY <1>2, <2>2, SameFrom
  <2>. QED
    BY <1>2, <2>1, <2>3
<1>6. ASSUME NEW k \in Keys \ KeysOf(xs) PROVE SetEnvVars(e, xs)[k] = e[k]
  <2>1. \A j \in (0 + 1)..n : xs[j].key # k
    BY <1>2, <1>6 DEF KeysOf
  <2>2. f[n][k] = f[0][k]
    BY <1>2, <1>5, <2>1
  <2>. QED
    BY <1>3, <2>2
<1>7. ASSUME NEW k \in KeysOf(xs) \cap Keys, LastOf(xs, k).ref = NoRef
      PROVE  SetEnvVars(e, xs)[k] = LastOf(xs, k).lit
  <2>1. PICK l \in 1..n : LastOf(xs, k) = xs[l] /\ xs[l].key = k /\ \A j \in (l + 1)..n : xs[j].key # k
    BY <1>1, LastOfIs
  <2>2. f[n][k] = f[l][k]
    BY <1>2, <1>5, <2>1
  <2>3. f[l][k] = xs[l].lit
    <3>1. f[l - 1] \in Envs /\ xs[l] \in EnvVar /\ f[l] = Setenv(f[l - 1], xs[l])
      BY <1>2, <1>3, <1>4
    <3>2. xs[l].key \in Keys /\ xs[l].ref = NoRef /\ xs[l].key = k
      BY <1>7, <2>1
    <3>3. Setenv(f[l - 1], xs[l])[xs[l].key] = xs[l].lit
      BY <3>1, <3>2, SetenvSets
    <3>. QED
      BY <3>1, <3>2, <3>3
  <2>. QED
    BY <1>3, <2>1, <2>2, <2>3
<1>8. SetEnvVars(e, xs) \in Envs
  BY <1>2, <1>3
<1>. QED
  BY <1>6, <1>7, <1>8

\* A variable that refers to one with the value v, if that is set to nothing but
\* v on the way, is set to v and its own literal.
LEMMA ReferenceIsSet ==
  ASSUME NEW e \in Envs, NEW xs \in Seq(EnvVar), NEW k \in KeysOf(xs) \cap Keys, NEW r \in Keys,
         r \notin Repeated(xs), r = LastOf(xs, k).ref, e[r] \in Seq(Pieces),
         r \in KeysOf(xs) => LastOf(xs, r).ref = NoRef /\ LastOf(xs, r).lit = e[r]
  PROVE  SetEnvVars(e, xs)[k] = e[r] \o LastOf(xs, k).lit
<1>. PICK v \in Seq(Pieces) : v = e[r]
  OBVIOUS
<1>1. PICK n : n = Len(xs)
  OBVIOUS
<1>2. n \in Nat /\ DOMAIN xs = 1..n /\ \A i \in 1..n : xs[i] \in EnvVar
  BY <1>1, LenProperties, ElementOfSeq
<1>3. PICK f \in [0..n -> Envs] :
        f[0] = e /\ f[n] = SetEnvVars(e, xs) /\ \A i \in 1..n : f[i] = Setenv(f[i - 1], xs[i])
  BY <1>1, SetEnvSteps
<1>4. \A i \in 1..n : f[i - 1] \in Envs
  BY <1>2, <1>3
<1>5. ASSUME NEW i \in 1..n, xs[i].key = r PROVE xs[i].ref = NoRef /\ xs[i].lit = v
  <2>1. r \in KeysOf(xs)
    BY <1>2, <1>5 DEF KeysOf
  <2>2. PICK l \in 1..n : LastOf(xs, r) = xs[l] /\ xs[l].key = r
    BY <1>1, <2>1, LastOfIs
  <2>3. i = l
    BY <1>2, <1>5, <2>2 DEF Repeated
  <2>. QED
    BY <2>1, <2>2, <2>3
<1>6. ASSUME NEW i \in 1..n, f[i - 1][r] = v PROVE f[i][r] = v
  <2>1. f[i - 1] \in Envs /\ xs[i] \in EnvVar /\ f[i] = Setenv(f[i - 1], xs[i])
    BY <1>2, <1>3, <1>4
  <2>2. CASE xs[i].key = r
    <3>1. Setenv(f[i - 1], xs[i])[xs[i].key] = xs[i].lit
      BY <1>5, <2>1, <2>2, SetenvSets
    <3>. QED
      BY <1>5, <2>1, <2>2, <3>1
  <2>3. CASE xs[i].key # r
    <3>1. Setenv(f[i - 1], xs[i])[r] = f[i - 1][r]
      BY <2>1, <2>3, SetenvSets
    <3>. QED
      BY <1>6, <2>1, <3>1
  <2>. QED
    BY <2>2, <2>3
<1>7. \A i \in 0..n : f[i][r] = v
  <2>. DEFINE T == {i \in Nat : i <= n => f[i][r] = v}
  <2>1. 0 \in T
    BY <1>3
  <2>2. ASSUME NEW i \in Nat, i \in T PROVE i + 1 \in T
    <3>1. SUFFICES ASSUME i + 1 <= n PROVE f[i + 1][r] = v
      OBVIOUS
    <3>2. i + 1 \in 1..n /\ (i + 1) - 1 = i /\ f[i][r] = v
      BY <1>2, <2>2, <3>1
    <3>. QED
      BY <1>6, <3>2
  <2>. HIDE DEF T
  <2>3. \A i \in Nat : i \in T
    BY <2>1, <2>2, NatSetInduction
  <2>. QED
    BY <1>2, <2>3 DEF T
<1>8. PICK l \in 1..n : LastOf(xs, k) = xs[l] /\ xs[l].key = k /\ \A j \in (l + 1)..n : xs[j].key # k
  BY <1>1, LastOfIs
<1>9. f[l][k] = v \o xs[l].lit
  <2>1. f[l - 1] \in Envs /\ xs[l] \in EnvVar /\ f[l] = Setenv(f[l - 1], xs[l]) /\ f[l - 1][r] = v
    BY <1>2, <1>3, <1>4, <1>7
  <2>2. xs[l].key \in Keys /\ xs[l].ref \in Keys /\ xs[l].ref = r /\ f[l - 1][xs[l].ref] \in Seq(Pieces)
    BY <1>8, <2>1
  <2>3. Setenv(f[l - 1], xs[l])[xs[l].key] = f[l - 1][xs[l].ref] \o xs[l].lit
    BY <2>1, <2>2, SetenvSets
  <2>. QED
    BY <1>8, <2>1, <2>2, <2>3
<1>10. f[n][k] = f[l][k]
  <2>1. PICK h : h = [i \in 0..n |-> f[i][k]]
    OBVIOUS
  <2>2. ASSUME NEW i \in (l + 1)..n PROVE h[i] = h[i - 1]
    <3>1. i \in 1..n /\ i \in 0..n /\ i - 1 \in 0..n
      BY <1>2
    <3>2. f[i - 1] \in Envs /\ xs[i] \in EnvVar /\ f[i] = Setenv(f[i - 1], xs[i]) /\ xs[i].key # k
      BY <1>2, <1>3, <1>4, <1>8, <3>1
    <3>3. k \in Keys /\ Setenv(f[i - 1], xs[i])[k] = f[i - 1][k]
      BY <3>2, SetenvSets
    <3>4. f[i][k] = f[i - 1][k]
      BY <3>2, <3>3
    <3>. QED
      BY <2>1, <3>1, <3>4
  <2>3. l \in 0..n
    BY <1>2
  <2>4. h[n] = h[l]
    BY <1>2, <2>2, <2>3, SameFrom, ZenonT(60)
  <2>. QED
    BY <1>2, <2>1, <2>3, <2>4
<1>. QED
  BY <1>3, <1>8, <1>9, <1>10

\* Whatever was noted for k, putting it back gives value.
Restores(os, k, value) == \A i \in DOMAIN os : os[i].key = k => Restored(os[i].value) = value

LEMMA ResetEnvVarsSets ==
  ASSUME NEW e \in Envs, NEW os \in Seq(Original)
  PROVE  /\ ResetEnvVars(e, os) \in Envs
         /\ \A k \in Keys \ KeysOf(os) : ResetEnvVars(e, os)[k] = e[k]
         /\ \A k \in KeysOf(os) \cap Keys : \A value :
              Restores(os, k, value) => ResetEnvVars(e, os)[k] = value
<1>1. PICK n : n = Len(os)
  OBVIOUS
<1>2. n \in Nat /\ DOMAIN os = 1..n /\ \A i \in 1..n : os[i] \in Original
  BY <1>1, LenProperties, ElementOfSeq
<1>3. PICK f \in [0..n -> Envs] :
        f[0] = e /\ f[n] = ResetEnvVars(e, os) /\ \A i \in 1..n : f[i] = Resetenv(f[i - 1], os[i])
  BY <1>1, ResetSteps
<1>4. \A i \in 1..n : f[i - 1] \in Envs
  BY <1>2, <1>3
<1>5. ASSUME NEW k \in Keys, NEW l \in 0..n, \A j \in (l + 1)..n : os[j].key # k
      PROVE  f[n][k] = f[l][k]
  <2>1. PICK h : h = [i \in 0..n |-> f[i][k]]
    OBVIOUS
  <2>2. ASSUME NEW i \in (l + 1)..n PROVE h[i] = h[i - 1]
    <3>1. i \in 1..n /\ i \in 0..n /\ i - 1 \in 0..n
      BY <1>2, <1>5
    <3>2. f[i - 1] \in Envs /\ os[i] \in Original /\ f[i] = Resetenv(f[i - 1], os[i]) /\ os[i].key # k
      BY <1>2, <1>3, <1>4, <1>5, <3>1
    <3>3. Resetenv(f[i - 1], os[i])[k] = f[i - 1][k]
      BY <1>5, <3>2, ResetenvSets
    <3>4. f[i][k] = f[i - 1][k]
      BY <3>2, <3>3
    <3>. QED
      BY <2>1, <3>1, <3>4
  <2>3. h[n] = h[l]
    BY <1>2, <2>2, SameFrom
  <2>. QED
    BY <1>2, <2>1, <2>3
<1>6. ASSUME NEW k \in Keys \ KeysOf(os) PROVE ResetEnvVars(e, os)[k] = e[k]
  <2>1. \A j \in (0 + 1)..n : os[j].key # k
    BY <1>2, <1>6 DEF KeysOf
  <2>2. f[n][k] = f[0][k]
    BY <1>2, <1>5, <2>1
  <2>. QED
    BY <1>3, <2>2
<1>7. ASSUME NEW k \in KeysOf(os) \cap Keys, NEW value, Restores(os, k, value)
      PROVE  ResetEnvVars(e, os)[k] = value
  <2>1. PICK P : P = {i \in 1..n : os[i].key = k}
    OBVIOUS
  <2>2. P # {} /\ P \subseteq 1..n
    BY <1>2, <2>1 DEF KeysOf
  <2>3. PICK l \in P : \A i \in P : i <= l
    BY <1>2, <2>2, LastIndex
  <2>4. l \in 1..n /\ os[l].key = k /\ \A j \in (l + 1)..n : os[j].key # k
    BY <1>2, <2>1, <2>3
  <2>5. f[n][k] = f[l][k]
    BY <1>2, <1>5, <2>4
  <2>6. f[l][k] = Restored(os[l].value)
    <3>1. f[l - 1] \in Envs /\ os[l] \in Original /\ f[l] = Resetenv(f[l - 1], os[l]) /\ os[l].key = k
      BY <1>2, <1>3, <1>4, <2>4
    <3>2. PICK e2 \in Envs, o \in Original : e2 = f[l - 1] /\ o = os[l]
      BY <3>1
    <3>3. Resetenv(e2, o)[k] = Restored(o.value)
      BY <1>7, <3>1, <3>2, ResetenvSets
    <3>. QED
      BY <3>1, <3>2, <3>3
  <2>7. Restored(os[l].value) = value
    BY <1>2, <1>7, <2>4 DEF Restores
  <2>. QED
    BY <1>3, <2>5, <2>6, <2>7
<1>8. ResetEnvVars(e, os) \in Envs
  BY <1>2, <1>3
<1>. QED
  BY <1>6, <1>7, <1>8

\* What is noted of a variable that is named once is its value before.
LEMMA OriginalsAre ==
  ASSUME NEW e \in Envs, NEW xs \in Seq(EnvVar)
  PROVE  /\ Originals(e, xs) \in Seq(Original)
         /\ KeysOf(Originals(e, xs)) = KeysOf(xs)
         /\ \A k \in Keys \ Repeated(xs) : Restores(Originals(e, xs), k, Restored(Getenv(e, k)))
<1>1. PICK n, os : n = Len(xs) /\ os = Originals(e, xs)
  OBVIOUS
<1>2. n \in Nat /\ DOMAIN xs = 1..n /\ \A i \in 1..n : xs[i] \in EnvVar
  BY <1>1, LenProperties, ElementOfSeq
<1>3. /\ DOMAIN os = 1..n
      /\ \A i \in 1..n :
           os[i] = [key |-> xs[i].key, value |-> Getenv(SetEnvVars(e, SubSeq(xs, 1, i - 1)), xs[i].key)]
  BY <1>1, <1>2 DEF Originals
<1>4. ASSUME NEW i \in 1..n
      PROVE  /\ SubSeq(xs, 1, i - 1) \in Seq(EnvVar)
             /\ KeysOf(SubSeq(xs, 1, i - 1)) = {xs[j].key : j \in 1..(i - 1)}
  <2>1. i - 1 \in Int /\ \A j \in 1..(i - 1) : xs[j] \in EnvVar
    BY <1>2
  <2>2. /\ SubSeq(xs, 1, i - 1) \in Seq(EnvVar) /\ Len(SubSeq(xs, 1, i - 1)) = i - 1
        /\ \A j \in 1..(i - 1) : SubSeq(xs, 1, i - 1)[j] = xs[j]
    BY <2>1, SubSeqProperties
  <2>3. DOMAIN SubSeq(xs, 1, i - 1) = 1..(i - 1)
    BY <2>2, LenProperties
  <2>. QED
    BY <2>2, <2>3 DEF KeysOf
<1>5. \A i \in 1..n : os[i] \in Original
  <2>1. ASSUME NEW i \in 1..n PROVE os[i] \in Original
    <3>1. SetEnvVars(e, SubSeq(xs, 1, i - 1)) \in Envs
      BY <1>4, SetEnvVarsSets
    <3>2. Getenv(SetEnvVars(e, SubSeq(xs, 1, i - 1)), xs[i].key) \in Seq(Pieces)
      BY <3>1, GetenvTyped
    <3>3. xs[i].key \in Keys \union {BadKey}
      BY <1>2 DEF EnvVar
    <3>. QED
      BY <1>3, <3>2, <3>3 DEF Original
  <2>. QED
    BY <2>1
<1>6. os \in Seq(Original)
  <2>1. os \in [1..n -> Original]
    BY <1>1, <1>3, <1>5, <1>2 DEF Originals
  <2>. QED
    BY <1>2, <2>1, SeqDef
<1>7. KeysOf(os) = KeysOf(xs)
  BY <1>2, <1>3 DEF KeysOf
<1>8. ASSUME NEW k \in Keys \ Repeated(xs), NEW i \in DOMAIN os, os[i].key = k
      PROVE  os[i].value = Getenv(e, k)
  <2>1. i \in 1..n /\ xs[i].key = k
    BY <1>3, <1>8
  <2>2. \A j \in 1..n : j # i => xs[j].key # k
    BY <1>2, <1>8, <2>1 DEF Repeated
  <2>3. k \notin KeysOf(SubSeq(xs, 1, i - 1))
    BY <1>2, <1>4, <2>1, <2>2
  <2>4. SetEnvVars(e, SubSeq(xs, 1, i - 1))[k] = e[k]
    <3>1. SubSeq(xs, 1, i - 1) \in Seq(EnvVar) /\ k \in Keys
      BY <1>4, <1>8, <2>1
    <3>. QED
      BY <2>3, <3>1, SetEnvVarsSets
  <2>. QED
    BY <1>3, <2>1, <2>4 DEF Getenv
<1>9. \A k \in Keys \ Repeated(xs) : Restores(os, k, Restored(Getenv(e, k)))
  BY <1>8 DEF Restores
<1>. QED
  BY <1>1, <1>6, <1>7, <1>9

\* A variable that is not set to nothing can be put back.
LEMMA RestoredGetenv ==
  ASSUME NEW e \in Envs, NEW k \in Keys, e[k] # << >>
  PROVE  Restored(Getenv(e, k)) = e[k]
BY DEF Restored, Getenv

-----------------------------------------------------------------------------
(* The invariant.                                                          *)

Types ==
  /\ run \in Runs /\ env \in Envs /\ atStart \in Envs
  /\ file \in DOMAIN run.files /\ num \in 0..Len(Tests)
  /\ pc \in {"next", "setEnv", "setup", "setupCommands", "run", "running", "fileTests", "fatal"}
  /\ left \in Nat /\ own \in Seq(Original) /\ undo \in Seq(Seq(Original))

\* A test is under way, and has no teardown yet.
SettingUp == pc \in {"setEnv", "setup", "setupCommands"}

\* At most one teardown of each test that was set up is still to come.
Counted ==
  /\ Len(undo) <= num /\ (SettingUp => Len(undo) < num)
  /\ SettingUp \/ pc \in {"run", "running"} => num \in DOMAIN Tests
  /\ pc = "setEnv" \/ (pc = "fileTests" /\ left > 0) => File.schema = "v2"
  /\ pc = "fileTests" => undo = << >>

\* What was noted is of the variables that were set.
Noted ==
  /\ pc = "setupCommands" => KeysOf(own) = KeysOf(SetupVars)
  /\ pc \in {"run", "running"} => undo # << >> /\ KeysOf(Vars) \subseteq KeysOf(undo[1])
  /\ pc = "running" => KeysOf(own) = KeysOf(Vars)

\* The last teardown that names k puts back what k was at the start.
LastRestores(k) ==
  \E j \in DOMAIN undo :
    /\ k \in KeysOf(undo[j]) /\ Restores(undo[j], k, atStart[k])
    /\ \A i \in DOMAIN undo : i > j => k \notin KeysOf(undo[i])

Unnamed(k) == \A j \in DOMAIN undo : k \notin KeysOf(undo[j])

\* What k was at the start is kept: by a teardown, by what the Setup under way
\* has noted, or in the environment itself.
Kept(k) ==
  \/ LastRestores(k)
  \/ Unnamed(k) /\ pc = "setupCommands" /\ k \in KeysOf(own) /\ Restores(own, k, atStart[k])
  \/ Unnamed(k) /\ (pc = "setupCommands" => k \notin KeysOf(own)) /\ env[k] = atStart[k]

StartIsKept == pc # "fatal" => \A k \in Keys \ Excused : Kept(k)

\* The variables of xs that refer to no other have their values.
SeenIn(e, xs) ==
  \A k \in KeysOf(xs) \ {BadKey} : LastOf(xs, k).ref = NoRef => e[k] = LastOf(xs, k).lit

\* The variables of ys that refer to one with a literal have both.
ReferIn(e, xs, ys) ==
  \A k \in KeysOf(ys) \ {BadKey} : \A r \in KeysOf(xs \o ys) \ ({BadKey} \union Repeated(ys)) :
    r = LastOf(ys, k).ref /\ LastOf(xs \o ys, r).ref = NoRef =>
      e[k] = LastOf(xs \o ys, r).lit \o LastOf(ys, k).lit

VarsAreSet ==
  /\ pc = "setup" /\ File.schema = "v2" => SeenIn(env, File.globals)
  /\ pc \in {"setupCommands", "run", "running"} => SeenIn(env, File.globals \o Vars)
  /\ pc = "running" => ReferIn(env, File.globals, Vars)

IInv == Types /\ Counted /\ Noted /\ StartIsKept /\ VarsAreSet

-----------------------------------------------------------------------------
(* The steps.                                                              *)

LEMMA RunTyped ==
  ASSUME Types
  PROVE  /\ run.files \in Seq(StructureTest) /\ Len(run.files) \in Nat /\ DOMAIN run.files = 1..Len(run.files)
         /\ File \in StructureTest /\ File.globals \in Seq(EnvVar) /\ File.fileTests \in Nat
         /\ File.schema \in {"v1", "v2"}
         /\ Tests \in Seq(CommandTest) /\ Len(Tests) \in Nat /\ DOMAIN Tests = 1..Len(Tests)
         /\ num \in DOMAIN Tests =>
              /\ Vars \in Seq(EnvVar) /\ Tests[num].setup \in Nat /\ SetupVars \in Seq(EnvVar)
              /\ KeysOf(Vars) \subseteq KeysOf(SetupVars)
<1>1. run.files \in Seq(StructureTest) /\ file \in DOMAIN run.files
  BY RunsAssumption DEF Types
<1>2. Len(run.files) \in Nat /\ DOMAIN run.files = 1..Len(run.files)
  BY <1>1, LenProperties
<1>3. File \in StructureTest
  BY <1>1, <1>2, ElementOfSeq DEF File
<1>4. File.globals \in Seq(EnvVar) /\ File.fileTests \in Nat /\ File.schema \in {"v1", "v2"} /\ Tests \in Seq(CommandTest)
  BY <1>3 DEF StructureTest, Tests
<1>5. Len(Tests) \in Nat /\ DOMAIN Tests = 1..Len(Tests)
  BY <1>4, LenProperties
<1>6. ASSUME num \in DOMAIN Tests
      PROVE  /\ Vars \in Seq(EnvVar) /\ Tests[num].setup \in Nat /\ SetupVars \in Seq(EnvVar)
             /\ KeysOf(Vars) \subseteq KeysOf(SetupVars)
  <2>1. Tests[num] \in CommandTest
    BY <1>4, <1>5, <1>6, ElementOfSeq
  <2>2. Vars \in Seq(EnvVar) /\ Tests[num].setup \in Nat
    BY <2>1 DEF CommandTest, Vars
  <2>3. /\ File.globals \o Vars \in Seq(EnvVar)
        /\ KeysOf(File.globals \o Vars) = KeysOf(File.globals) \union KeysOf(Vars)
    BY <1>4, <2>2, KeysOfConcat
  <2>. QED
    BY <2>2, <2>3 DEF SetupVars
<1>. QED
  BY <1>1, <1>2, <1>3, <1>4, <1>5, <1>6

LEMMA NotExcused ==
  ASSUME NEW k \in Keys \ Excused
  PROVE  /\ k \notin dropped /\ atStart[k] # << >>
         /\ File.schema = "v2" => k \notin KeysOf(File.globals)
         /\ num \in DOMAIN Tests => k \notin Repeated(SetupVars)
<1>1. num \in DOMAIN Tests => k \notin Repeated(SetupVars)
  BY DEF Excused, SetupVars, Vars
<1>2. k \notin dropped
  BY DEF Excused
<1>3. atStart[k] # << >>
  BY DEF Excused
<1>4. File.schema = "v2" => k \notin KeysOf(File.globals)
  BY DEF Excused
<1>. QED
  BY <1>1, <1>2, <1>3, <1>4

\* In a step within a file, no name is excused that was not before, but for

\* those that are dropped.
LEMMA SameFile ==
  ASSUME run' = run, file' = file
  PROVE  /\ File' = File /\ Tests' = Tests
         /\ num' = num => Vars' = Vars /\ SetupVars' = SetupVars
BY DEF File, Tests, Vars, SetupVars

LEMMA SectionKeeps ==
  ASSUME run' = run, file' = file, atStart' = atStart, dropped \subseteq dropped',
         StartIsKept, pc # "fatal",
         \A k \in Keys \ Excused : k \notin dropped' /\ Kept(k) => Kept(k)'
  PROVE  StartIsKept'
<1>1. ASSUME NEW k \in Keys, k \notin Excused' PROVE k \notin Excused /\ k \notin dropped'
  BY <1>1 DEF Excused, File, Tests
<1>. QED
  BY <1>1 DEF StartIsKept

\* A step that changes neither what is set nor what is noted.
LEMMA KeptIfSame ==
  ASSUME NEW k, Kept(k), UNCHANGED <<env, undo, atStart>>,
         pc # "setupCommands" /\ pc' # "setupCommands"
  PROVE  Kept(k)'
<1>1. LastRestores(k) => LastRestores(k)'
  BY DEF LastRestores
<1>2. Unnamed(k) => Unnamed(k)'
  BY DEF Unnamed
<1>. QED
  BY <1>1, <1>2 DEF Kept

LEMMA NextTestKeeps ==
  ASSUME IInv, NextTest
  PROVE  IInv'
<1>1. /\ pc = "next" /\ num < Len(Tests) /\ num' = num + 1
      /\ pc' = (IF File.schema = "v2" THEN "setEnv" ELSE "setup")
      /\ UNCHANGED <<run, env, file, left, own, undo, atStart, dropped>>
      /\ Types /\ Counted /\ Noted /\ StartIsKept /\ VarsAreSet
  BY DEF IInv, NextTest
<1>2. File' = File /\ Tests' = Tests
  BY <1>1, SameFile
<1>3. Len(Tests) \in Nat /\ DOMAIN Tests = 1..Len(Tests) /\ num \in 0..Len(Tests) /\ File.schema \in {"v1", "v2"}
  BY <1>1, RunTyped DEF Types
<1>4. Types'
  BY <1>1, <1>2, <1>3 DEF Types
<1>5. Len(undo) \in Nat
  BY <1>1, LenProperties DEF Types
<1>6. Counted'
  BY <1>1, <1>2, <1>3, <1>5 DEF Counted, SettingUp
<1>7. Noted'
  BY <1>1 DEF Noted
<1>8. StartIsKept'
  BY <1>1, KeptIfSame, SectionKeeps
<1>9. VarsAreSet'
  BY <1>1, <1>2 DEF VarsAreSet
<1>. QED
  BY <1>4, <1>6, <1>7, <1>8, <1>9 DEF IInv

LEMMA SetEnvKeeps ==
  ASSUME IInv, SetEnv
  PROVE  IInv'
<1>1. /\ pc \in {"setEnv", "fileTests"} /\ (pc = "fileTests" => left > 0)
      /\ env' = SetEnvVars(env, Accepted(File.globals))
      /\ \/ pc = "fileTests" /\ left' = left - 1 /\ pc' = pc
         \/ /\ pc = "setEnv" /\ left' = left
            /\ pc' = (IF Refused(File.globals) = {} THEN "setup" ELSE "next")
      /\ UNCHANGED <<run, file, num, own, undo, atStart, dropped>>
      /\ Types /\ Counted /\ Noted /\ StartIsKept /\ VarsAreSet
  BY DEF IInv, SetEnv
<1>2. File' = File /\ Tests' = Tests
  BY <1>1, SameFile
<1>3. /\ File.globals \in Seq(EnvVar) /\ File.schema = "v2" /\ env \in Envs /\ num \in 0..Len(Tests) /\ left \in Nat
  BY <1>1, RunTyped DEF Types, Counted
<1>4. PICK xs : xs = Accepted(File.globals)
  OBVIOUS
<1>5. /\ xs \in Seq(EnvVar) /\ KeysOf(xs) \subseteq KeysOf(File.globals)
      /\ Refused(File.globals) = {} => xs = File.globals
  BY <1>3, <1>4, AcceptedIs
<1>6. env' = SetEnvVars(env, xs)
  BY <1>1, <1>4
<1>7. /\ env' \in Envs /\ \A k \in Keys \ KeysOf(xs) : env'[k] = env[k]
      /\ \A k \in KeysOf(xs) \cap Keys : LastOf(xs, k).ref = NoRef => env'[k] = LastOf(xs, k).lit
  BY <1>3, <1>5, <1>6, SetEnvVarsSets
<1>8. Types'
  BY <1>1, <1>2, <1>3, <1>7 DEF Types
<1>9. Len(undo) \in Nat
  BY <1>1, LenProperties DEF Types
<1>10. Counted'
  BY <1>1, <1>2, <1>3, <1>9 DEF Counted, SettingUp
<1>11. Noted'
  BY <1>1 DEF Noted
<1>12. StartIsKept'
  <2>1. ASSUME NEW k \in Keys \ Excused, Kept(k) PROVE Kept(k)'
    <3>1. env'[k] = env[k]
      BY <1>3, <1>5, <1>7, <2>1, NotExcused
    <3>2. LastRestores(k) => LastRestores(k)'
      BY <1>1 DEF LastRestores
    <3>3. Unnamed(k) => Unnamed(k)'
      BY <1>1 DEF Unnamed
    <3>. QED
      BY <1>1, <2>1, <3>1, <3>2, <3>3 DEF Kept
  <2>. QED
    BY <1>1, <2>1, SectionKeeps
<1>13. VarsAreSet'
  <2>1. ASSUME pc' = "setup" PROVE SeenIn(env', File.globals)
    <3>1. xs = File.globals
      BY <1>1, <1>5, <2>1
    <3>2. KeysOf(xs) \ {BadKey} \subseteq Keys
      BY <1>5, KeysAreTyped
    <3>. QED
      BY <1>7, <3>1, <3>2 DEF SeenIn
  <2>. QED
    BY <1>1, <1>2, <2>1 DEF VarsAreSet
<1>. QED
  BY <1>8, <1>10, <1>11, <1>12, <1>13 DEF IInv

\* Variables that are set after others, or once more.
LEMMA SeenAfter ==
  ASSUME NEW e \in Envs, NEW xs \in Seq(EnvVar), NEW ys \in Seq(EnvVar),
         \A k \in (KeysOf(xs) \ KeysOf(ys)) \ {BadKey} :
           LastOf(xs, k).ref = NoRef => e[k] = LastOf(xs, k).lit
  PROVE  SeenIn(SetEnvVars(e, ys), xs \o ys)
<1>1. /\ KeysOf(xs \o ys) = KeysOf(xs) \union KeysOf(ys)
      /\ \A k \in KeysOf(ys) : LastOf(xs \o ys, k) = LastOf(ys, k)
      /\ \A k \in KeysOf(xs) \ KeysOf(ys) : LastOf(xs \o ys, k) = LastOf(xs, k)
  BY KeysOfConcat
<1>2. KeysOf(xs) \union KeysOf(ys) \subseteq Keys \union {BadKey}
  BY KeysAreTyped
<1>3. PICK u : u = SetEnvVars(e, ys)
  OBVIOUS
<1>4. /\ \A k \in Keys \ KeysOf(ys) : u[k] = e[k]
      /\ \A k \in KeysOf(ys) \cap Keys : LastOf(ys, k).ref = NoRef => u[k] = LastOf(ys, k).lit
  BY <1>3, SetEnvVarsSets
<1>5. ASSUME NEW k \in KeysOf(xs \o ys) \ {BadKey}, LastOf(xs \o ys, k).ref = NoRef
      PROVE  u[k] = LastOf(xs \o ys, k).lit
  <2>1. CASE k \in KeysOf(ys)
    BY <1>1, <1>2, <1>4, <1>5, <2>1
  <2>2. CASE k \notin KeysOf(ys)
    <3>1. k \in (KeysOf(xs) \ KeysOf(ys)) \ {BadKey} /\ k \in Keys
      BY <1>1, <1>2, <1>5, <2>2
    <3>. QED
      BY <1>1, <1>4, <1>5, <3>1
  <2>. QED
    BY <2>1, <2>2
<1>. QED
  BY <1>3, <1>5 DEF SeenIn

\* What they refer to is there by then, be it set before or after them.
LEMMA ReferAfter ==
  ASSUME NEW e \in Envs, NEW xs \in Seq(EnvVar), NEW ys \in Seq(EnvVar), SeenIn(e, xs \o ys)
  PROVE  ReferIn(SetEnvVars(e, ys), xs, ys)
<1>1. SUFFICES ASSUME NEW k \in KeysOf(ys) \ {BadKey},
                      NEW r \in KeysOf(xs \o ys) \ ({BadKey} \union Repeated(ys)),
                      r = LastOf(ys, k).ref, LastOf(xs \o ys, r).ref = NoRef
               PROVE  SetEnvVars(e, ys)[k] = LastOf(xs \o ys, r).lit \o LastOf(ys, k).lit
  BY Zenon DEF ReferIn
<1>2. xs \o ys \in Seq(EnvVar) /\ \A q \in KeysOf(ys) : LastOf(xs \o ys, q) = LastOf(ys, q)
  BY KeysOfConcat
<1>3. k \in KeysOf(ys) \cap Keys /\ r \in Keys \ Repeated(ys)
  BY <1>1, <1>2, KeysAreTyped
<1>4. PICK v : v = LastOf(xs \o ys, r).lit
  OBVIOUS
<1>5. v \in Seq(Pieces)
  <2>1. PICK all : all = xs \o ys
    OBVIOUS
  <2>2. all \in Seq(EnvVar) /\ r \in KeysOf(all)
    BY <1>1, <1>2, <2>1
  <2>3. PICK l \in 1..Len(all) : LastOf(all, r) = all[l]
    BY <2>2, LastOfIs
  <2>4. all[l] \in EnvVar
    BY <2>2, LenProperties, ElementOfSeq
  <2>. QED
    BY <1>4, <2>1, <2>3, <2>4 DEF EnvVar
<1>6. e[r] = v
  BY <1>1, <1>4 DEF SeenIn
<1>7. r \in KeysOf(ys) => LastOf(ys, r).ref = NoRef /\ LastOf(ys, r).lit = v
  BY <1>1, <1>2, <1>4
<1>8. SetEnvVars(e, ys)[k] = e[r] \o LastOf(ys, k).lit
  <2>1. r \in Keys /\ r \notin Repeated(ys) /\ r = LastOf(ys, k).ref /\ e[r] \in Seq(Pieces)
    BY <1>1, <1>3, <1>5, <1>6
  <2>2. r \in KeysOf(ys) => LastOf(ys, r).ref = NoRef /\ LastOf(ys, r).lit = e[r]
    BY <1>6, <1>7
  <2>. QED
    BY <1>3, <2>1, <2>2, ReferenceIsSet, ZenonT(60)
<1>. QED
  BY <1>4, <1>6, <1>8

LEMMA SetupKeeps ==
  ASSUME IInv, Setup
  PROVE  IInv'
<1>1. /\ pc = "setup" /\ pc' = "setupCommands"
      /\ env' = SetEnvVars(env, SetupVars) /\ own' = Originals(env, SetupVars)
      /\ left' = Tests[num].setup
      /\ UNCHANGED <<run, file, num, undo, atStart, dropped>>
      /\ Types /\ Counted /\ Noted /\ StartIsKept /\ VarsAreSet
  BY DEF IInv, Setup
<1>2. File' = File /\ Tests' = Tests /\ Vars' = Vars /\ SetupVars' = SetupVars
  BY <1>1, SameFile
<1>3. /\ File.globals \in Seq(EnvVar) /\ File.schema \in {"v1", "v2"} /\ env \in Envs
      /\ num \in DOMAIN Tests /\ Vars \in Seq(EnvVar) /\ Tests[num].setup \in Nat /\ SetupVars \in Seq(EnvVar)
      /\ num \in 0..Len(Tests)
  BY <1>1, RunTyped DEF Types, Counted, SettingUp
<1>4. PICK xs : xs = SetupVars
  OBVIOUS
<1>5. xs \in Seq(EnvVar) /\ env' = SetEnvVars(env, xs) /\ own' = Originals(env, xs)
  BY <1>1, <1>3, <1>4
<1>6. /\ env' \in Envs /\ \A k \in Keys \ KeysOf(xs) : env'[k] = env[k]
      /\ own' \in Seq(Original) /\ KeysOf(own') = KeysOf(xs)
      /\ \A k \in Keys \ Repeated(xs) : Restores(own', k, Restored(Getenv(env, k)))
  BY <1>3, <1>5, SetEnvVarsSets, OriginalsAre
<1>7. Types'
  BY <1>1, <1>2, <1>3, <1>6 DEF Types
<1>8. Counted'
  BY <1>1, <1>2, <1>3 DEF Counted, SettingUp
<1>9. Noted'
  <2>1. KeysOf(own)' = KeysOf(own')
    BY DEF KeysOf
  <2>2. KeysOf(SetupVars)' = KeysOf(SetupVars)
    BY <1>2 DEF KeysOf
  <2>. QED
    BY <1>1, <1>4, <1>6, <2>1, <2>2 DEF Noted
<1>10. StartIsKept'
  <2>1. ASSUME NEW k \in Keys \ Excused, Kept(k) PROVE Kept(k)'
    <3>1. LastRestores(k) => LastRestores(k)'
      BY <1>1 DEF LastRestores
    <3>2. Unnamed(k) => Unnamed(k)'
      BY <1>1 DEF Unnamed
    <3>3. CASE LastRestores(k)
      BY <3>1, <3>3 DEF Kept
    <3>4. CASE Unnamed(k) /\ env[k] = atStart[k]
      <4>1. CASE k \in KeysOf(xs)
        <5>1. k \notin Repeated(xs) /\ atStart[k] # << >>
          BY <1>3, <1>4, <2>1, NotExcused
        <5>2. Restores(own', k, Restored(Getenv(env, k)))
          BY <1>6, <2>1, <5>1
        <5>3. Restored(Getenv(env, k)) = atStart[k]
          BY <1>3, <2>1, <3>4, <5>1, RestoredGetenv
        <5>4. Restores(own, k, atStart[k])'
          BY <1>1, <5>2, <5>3 DEF Restores
        <5>5. KeysOf(own)' = KeysOf(own')
          BY DEF KeysOf
        <5>. QED
          BY <1>1, <1>6, <3>2, <3>4, <4>1, <5>4, <5>5 DEF Kept
      <4>2. CASE k \notin KeysOf(xs)
        <5>1. env'[k] = atStart'[k]
          BY <1>1, <1>6, <2>1, <3>4, <4>2
        <5>2. KeysOf(own)' = KeysOf(own')
          BY DEF KeysOf
        <5>. QED
          BY <1>6, <3>2, <3>4, <4>2, <5>1, <5>2 DEF Kept
      <4>. QED
        BY <4>1, <4>2
    <3>. QED
      BY <1>1, <2>1, <3>3, <3>4 DEF Kept
  <2>. QED
    BY <1>1, <2>1, SectionKeeps
<1>11. VarsAreSet'
  <2>1. SeenIn(env', File.globals \o Vars)
    <3>1. CASE File.schema = "v2"
      <4>1. SeenIn(env, File.globals) /\ xs = Vars
        BY <1>1, <1>4, <3>1 DEF VarsAreSet, SetupVars
      <4>. QED
        BY <1>3, <1>5, <4>1, SeenAfter DEF SeenIn
    <3>2. CASE File.schema # "v2"
      <4>1. xs = File.globals \o Vars
        BY <1>4, <3>2 DEF SetupVars
      <4>2. KeysOf(xs) \ {BadKey} \subseteq Keys
        BY <1>5, KeysAreTyped
      <4>3. \A k \in KeysOf(xs) \cap Keys : LastOf(xs, k).ref = NoRef => env'[k] = LastOf(xs, k).lit
        BY <1>3, <1>5, SetEnvVarsSets
      <4>. QED
        BY <4>1, <4>2, <4>3 DEF SeenIn
    <3>. QED
      BY <3>1, <3>2
  <2>. QED
    BY <1>1, <1>2, <2>1 DEF VarsAreSet
<1>. QED
  BY <1>7, <1>8, <1>9, <1>10, <1>11 DEF IInv

LEMMA SetupCommandKeeps ==
  ASSUME IInv, SetupCommand
  PROVE  IInv'
<1>1. /\ pc = "setupCommands" /\ left > 0 /\ left' = left - 1
      /\ UNCHANGED <<run, env, file, num, pc, own, undo, atStart, dropped>>
      /\ Types /\ Counted /\ Noted /\ StartIsKept /\ VarsAreSet
  BY DEF IInv, SetupCommand
<1>2. File' = File /\ Tests' = Tests /\ Vars' = Vars /\ SetupVars' = SetupVars
  BY <1>1, SameFile
<1>3. Types'
  BY <1>1, <1>2 DEF Types
<1>4. Counted'
  BY <1>1, <1>2 DEF Counted, SettingUp
<1>5. Noted'
  <2>1. KeysOf(own)' = KeysOf(own) /\ KeysOf(SetupVars)' = KeysOf(SetupVars)
    BY <1>1, <1>2 DEF KeysOf
  <2>. QED
    BY <1>1, <2>1 DEF Noted
<1>6. StartIsKept'
  <2>1. ASSUME NEW k \in Keys \ Excused, Kept(k) PROVE Kept(k)'
    BY <1>1, <2>1 DEF Kept, LastRestores, Unnamed
  <2>. QED
    BY <1>1, <2>1, SectionKeeps
<1>7. VarsAreSet'
  BY <1>1, <1>2 DEF VarsAreSet
<1>. QED
  BY <1>3, <1>4, <1>5, <1>6, <1>7 DEF IInv

LEMMA SetupCommandErrorKeeps ==
  ASSUME IInv, SetupCommandError
  PROVE  IInv'
<1>1. /\ pc = "setupCommands" /\ pc' = "next" /\ left' = 0 /\ own' = << >>
      /\ dropped' = dropped \union {own[i].key : i \in DOMAIN own}
      /\ UNCHANGED <<run, env, file, num, undo, atStart>>
      /\ Types /\ Counted /\ Noted /\ StartIsKept /\ VarsAreSet
  BY DEF IInv, SetupCommandError
<1>2. File' = File /\ Tests' = Tests
  BY <1>1, SameFile
<1>3. << >> \in Seq(Original) /\ Len(undo) \in Nat /\ num \in 0..Len(Tests)
  BY <1>1, EmptySeq, LenProperties DEF Types
<1>4. Types'
  BY <1>1, <1>2, <1>3 DEF Types
<1>5. Counted'
  BY <1>1, <1>2, <1>3 DEF Counted, SettingUp
<1>6. Noted'
  BY <1>1 DEF Noted
<1>7. StartIsKept'
  <2>1. ASSUME NEW k \in Keys \ Excused, k \notin dropped', Kept(k) PROVE Kept(k)'
    <3>1. k \notin KeysOf(own)
      BY <1>1, <2>1 DEF KeysOf
    <3>2. LastRestores(k) => LastRestores(k)'
      BY <1>1 DEF LastRestores
    <3>3. Unnamed(k) => Unnamed(k)'
      BY <1>1 DEF Unnamed
    <3>. QED
      BY <1>1, <2>1, <3>1, <3>2, <3>3 DEF Kept
  <2>. QED
    BY <1>1, <2>1, SectionKeeps
<1>8. VarsAreSet'
  BY <1>1 DEF VarsAreSet
<1>. QED
  BY <1>4, <1>5, <1>6, <1>7, <1>8 DEF IInv

LEMMA DeferTeardownKeeps ==
  ASSUME IInv, DeferTeardown
  PROVE  IInv'
<1>1. /\ pc = "setupCommands" /\ left = 0 /\ undo' = <<own>> \o undo /\ own' = << >> /\ pc' = "run"
      /\ UNCHANGED <<run, env, file, num, left, atStart, dropped>>
      /\ Types /\ Counted /\ Noted /\ StartIsKept /\ VarsAreSet
  BY DEF IInv, DeferTeardown
<1>2. File' = File /\ Tests' = Tests /\ Vars' = Vars /\ SetupVars' = SetupVars
  BY <1>1, SameFile
<1>3. /\ own \in Seq(Original) /\ undo \in Seq(Seq(Original)) /\ << >> \in Seq(Original)
      /\ num \in DOMAIN Tests /\ num \in 0..Len(Tests) /\ KeysOf(Vars) \subseteq KeysOf(SetupVars)
  BY <1>1, RunTyped, EmptySeq DEF Types, Counted, SettingUp
<1>4. /\ undo' \in Seq(Seq(Original)) /\ Len(undo) \in Nat /\ Len(undo') = Len(undo) + 1
      /\ DOMAIN undo = 1..Len(undo) /\ DOMAIN undo' = 1..(Len(undo) + 1)
      /\ undo'[1] = own /\ \A j \in 1..Len(undo) : undo'[j + 1] = undo[j]
  <2>1. PICK S : S = Seq(Original)
    OBVIOUS
  <2>2. own \in S /\ undo \in Seq(S)
    BY <1>3, <2>1
  <2>3. <<own>> \in Seq(S) /\ Len(<<own>>) = 1 /\ <<own>>[1] = own
    BY <2>2
  <2>4. /\ undo' \in Seq(S) /\ Len(undo') = 1 + Len(undo) /\ Len(undo) \in Nat
        /\ \A i \in 1..(1 + Len(undo)) : undo'[i] = IF i <= 1 THEN <<own>>[i] ELSE undo[i - 1]
    BY <1>1, <2>2, <2>3, ConcatProperties, LenProperties
  <2>5. DOMAIN undo = 1..Len(undo) /\ DOMAIN undo' = 1..Len(undo')
    BY <2>2, <2>4, LenProperties
  <2>6. undo'[1] = own /\ \A j \in 1..Len(undo) : undo'[j + 1] = undo[j]
    BY <2>3, <2>4
  <2>. QED
    BY <2>1, <2>4, <2>5, <2>6
<1>5. Types'
  BY <1>1, <1>2, <1>3, <1>4 DEF Types
<1>6. Counted'
  BY <1>1, <1>2, <1>3, <1>4 DEF Counted, SettingUp
<1>7. Noted'
  <2>1. KeysOf(undo[1])' = KeysOf(undo'[1]) /\ KeysOf(Vars)' = KeysOf(Vars)
    BY <1>2 DEF KeysOf
  <2>2. KeysOf(Vars) \subseteq KeysOf(undo'[1])
    BY <1>1, <1>3, <1>4 DEF Noted
  <2>3. undo' # << >>
    BY <1>4, EmptySeq
  <2>. QED
    BY <1>1, <2>1, <2>2, <2>3 DEF Noted
<1>8. StartIsKept'
  <2>1. ASSUME NEW k \in Keys \ Excused, Kept(k) PROVE Kept(k)'
    <3>1. CASE LastRestores(k)
      <4>1. PICK j \in DOMAIN undo :
              /\ k \in KeysOf(undo[j]) /\ Restores(undo[j], k, atStart[k])
              /\ \A i \in DOMAIN undo : i > j => k \notin KeysOf(undo[i])
        BY <3>1 DEF LastRestores
      <4>2. j + 1 \in DOMAIN undo' /\ undo'[j + 1] = undo[j]
        BY <1>4
      <4>3. ASSUME NEW i \in DOMAIN undo', i > j + 1 PROVE k \notin KeysOf(undo'[i])
        <5>1. i - 1 \in DOMAIN undo /\ i - 1 > j /\ undo'[(i - 1) + 1] = undo[i - 1] /\ (i - 1) + 1 = i
          BY <1>4, <4>1, <4>3
        <5>. QED
          BY <4>1, <5>1
      <4>4. LastRestores(k)'
        BY <1>1, <4>1, <4>2, <4>3 DEF LastRestores, Restores, KeysOf
      <4>. QED
        BY <4>4 DEF Kept
    <3>2. ASSUME Unnamed(k) PROVE \A i \in DOMAIN undo' : i > 1 => k \notin KeysOf(undo'[i])
      <4>1. ASSUME NEW i \in DOMAIN undo', i > 1 PROVE k \notin KeysOf(undo'[i])
        <5>1. i - 1 \in DOMAIN undo /\ undo'[(i - 1) + 1] = undo[i - 1] /\ (i - 1) + 1 = i
          BY <1>4, <4>1
        <5>. QED
          BY <3>2, <5>1 DEF Unnamed
      <4>. QED
        BY <4>1
    <3>3. CASE Unnamed(k) /\ k \in KeysOf(own) /\ Restores(own, k, atStart[k])
      <4>1. 1 \in DOMAIN undo' /\ k \in KeysOf(undo'[1]) /\ Restores(undo'[1], k, atStart'[k])
        BY <1>1, <1>4, <3>3
      <4>2. \A i \in DOMAIN undo' : i > 1 => k \notin KeysOf(undo'[i])
        BY <3>2, <3>3
      <4>3. LastRestores(k)'
        BY <4>1, <4>2 DEF LastRestores, Restores, KeysOf
      <4>. QED
        BY <4>3 DEF Kept
    <3>4. CASE Unnamed(k) /\ k \notin KeysOf(own) /\ env[k] = atStart[k]
      <4>1. \A i \in DOMAIN undo' : k \notin KeysOf(undo'[i])
        BY <1>4, <3>2, <3>4
      <4>2. Unnamed(k)'
        BY <4>1 DEF Unnamed, KeysOf
      <4>. QED
        BY <1>1, <3>4, <4>2 DEF Kept
    <3>. QED
      BY <1>1, <2>1, <3>1, <3>3, <3>4 DEF Kept
  <2>. QED
    BY <1>1, <2>1, SectionKeeps
<1>9. VarsAreSet'
  BY <1>1, <1>2 DEF VarsAreSet
<1>. QED
  BY <1>5, <1>6, <1>7, <1>8, <1>9 DEF IInv

LEMMA StartCommandKeeps ==
  ASSUME IInv, StartCommand
  PROVE  IInv'
<1>1. /\ pc = "run" /\ pc' = "running"
      /\ env' = SetEnvVars(env, Vars) /\ own' = Originals(env, Vars)
      /\ UNCHANGED <<run, file, num, left, undo, atStart, dropped>>
      /\ Types /\ Counted /\ Noted /\ StartIsKept /\ VarsAreSet
  BY DEF IInv, StartCommand
<1>2. File' = File /\ Tests' = Tests /\ Vars' = Vars
  BY <1>1, SameFile
<1>3. /\ File.globals \in Seq(EnvVar) /\ env \in Envs /\ num \in DOMAIN Tests
      /\ Vars \in Seq(EnvVar) /\ num \in 0..Len(Tests)
      /\ undo # << >> /\ KeysOf(Vars) \subseteq KeysOf(undo[1])
      /\ undo \in Seq(Seq(Original))
  BY <1>1, RunTyped DEF Types, Counted, Noted
<1>4. PICK xs : xs = Vars
  OBVIOUS
<1>5. xs \in Seq(EnvVar) /\ env' = SetEnvVars(env, xs) /\ own' = Originals(env, xs)
  BY <1>1, <1>3, <1>4
<1>6. /\ env' \in Envs /\ \A k \in Keys \ KeysOf(xs) : env'[k] = env[k]
      /\ own' \in Seq(Original) /\ KeysOf(own') = KeysOf(xs)
  BY <1>3, <1>5, SetEnvVarsSets, OriginalsAre
<1>7. Types'
  BY <1>1, <1>2, <1>3, <1>6 DEF Types
<1>8. Counted'
  BY <1>1, <1>2, <1>3 DEF Counted, SettingUp
<1>9. Noted'
  <2>1. KeysOf(own)' = KeysOf(own') /\ KeysOf(Vars)' = KeysOf(Vars)
    BY <1>2 DEF KeysOf
  <2>2. KeysOf(undo[1])' = KeysOf(undo[1])
    BY <1>1 DEF KeysOf
  <2>. QED
    BY <1>1, <1>3, <1>4, <1>6, <2>1, <2>2 DEF Noted
<1>10. StartIsKept'
  <2>1. ASSUME NEW k \in Keys \ Excused, Kept(k) PROVE Kept(k)'
    <3>1. LastRestores(k) => LastRestores(k)'
      BY <1>1 DEF LastRestores
    <3>2. ASSUME Unnamed(k) PROVE Unnamed(k)' /\ env'[k] = env[k]
      <4>1. 1 \in DOMAIN undo
        BY <1>3, LenProperties, EmptySeq
      <4>2. k \notin KeysOf(Vars)
        BY <1>3, <3>2, <4>1 DEF Unnamed
      <4>3. Unnamed(k)'
        BY <1>1, <3>2 DEF Unnamed
      <4>. QED
        BY <1>4, <1>6, <2>1, <4>2, <4>3
    <3>. QED
      BY <1>1, <2>1, <3>1, <3>2 DEF Kept
  <2>. QED
    BY <1>1, <2>1, SectionKeeps
<1>11. VarsAreSet'
  <2>1. SeenIn(env, File.globals \o xs)
    BY <1>1, <1>4 DEF VarsAreSet
  <2>2. ASSUME NEW k \in (KeysOf(File.globals) \ KeysOf(xs)) \ {BadKey}, LastOf(File.globals, k).ref = NoRef
        PROVE  env[k] = LastOf(File.globals, k).lit
    <3>1. k \in KeysOf(File.globals \o xs) \ {BadKey} /\ LastOf(File.globals \o xs, k) = LastOf(File.globals, k)
      BY <1>3, <1>5, KeysOfConcat
    <3>. QED
      BY <2>1, <2>2, <3>1 DEF SeenIn
  <2>3. SeenIn(env', File.globals \o xs)
    BY <1>3, <1>5, <2>2, SeenAfter
  <2>4. ReferIn(env', File.globals, xs)
    BY <1>3, <1>5, <2>1, ReferAfter
  <2>. QED
    BY <1>1, <1>2, <1>4, <2>3, <2>4 DEF VarsAreSet
<1>. QED
  BY <1>7, <1>8, <1>9, <1>10, <1>11 DEF IInv

LEMMA FinishCommandKeeps ==
  ASSUME IInv, FinishCommand
  PROVE  IInv'
<1>1. /\ pc = "running" /\ pc' = "next" /\ env' = ResetEnvVars(env, own) /\ own' = << >>
      /\ UNCHANGED <<run, file, num, left, undo, atStart, dropped>>
      /\ Types /\ Counted /\ Noted /\ StartIsKept /\ VarsAreSet
  BY DEF IInv, FinishCommand
<1>2. File' = File /\ Tests' = Tests
  BY <1>1, SameFile
<1>3. /\ env \in Envs /\ own \in Seq(Original) /\ << >> \in Seq(Original) /\ num \in 0..Len(Tests)
      /\ undo \in Seq(Seq(Original)) /\ undo # << >> /\ KeysOf(own) \subseteq KeysOf(undo[1])
  BY <1>1, EmptySeq DEF Types, Noted
<1>4. env' \in Envs /\ \A k \in Keys \ KeysOf(own) : env'[k] = env[k]
  BY <1>1, <1>3, ResetEnvVarsSets
<1>5. Types'
  BY <1>1, <1>2, <1>3, <1>4 DEF Types
<1>6. Counted'
  BY <1>1, <1>2, <1>3 DEF Counted, SettingUp
<1>7. Noted'
  BY <1>1 DEF Noted
<1>8. StartIsKept'
  <2>1. ASSUME NEW k \in Keys \ Excused, Kept(k) PROVE Kept(k)'
    <3>1. LastRestores(k) => LastRestores(k)'
      BY <1>1 DEF LastRestores
    <3>2. ASSUME Unnamed(k) PROVE Unnamed(k)' /\ env'[k] = env[k]
      <4>1. 1 \in DOMAIN undo
        BY <1>3, LenProperties, EmptySeq
      <4>2. k \notin KeysOf(own)
        BY <1>3, <3>2, <4>1 DEF Unnamed
      <4>3. Unnamed(k)'
        BY <1>1, <3>2 DEF Unnamed
      <4>. QED
        BY <1>4, <2>1, <4>2, <4>3
    <3>. QED
      BY <1>1, <2>1, <3>1, <3>2 DEF Kept
  <2>. QED
    BY <1>1, <2>1, SectionKeeps
<1>9. VarsAreSet'
  BY <1>1 DEF VarsAreSet
<1>. QED
  BY <1>5, <1>6, <1>7, <1>8, <1>9 DEF IInv

LEMMA TeardownKeeps ==
  ASSUME IInv, Teardown
  PROVE  IInv'
<1>1. /\ pc = "next" /\ undo # << >> /\ env' = ResetEnvVars(env, Head(undo)) /\ undo' = Tail(undo)
      /\ UNCHANGED <<run, file, num, pc, left, own, atStart, dropped>>
      /\ Types /\ Counted /\ Noted /\ StartIsKept /\ VarsAreSet
  BY DEF IInv, Teardown
<1>2. File' = File /\ Tests' = Tests
  BY <1>1, SameFile
<1>3. env \in Envs /\ undo \in Seq(Seq(Original)) /\ num \in 0..Len(Tests)
  BY <1>1 DEF Types
<1>4. /\ undo[1] \in Seq(Original) /\ Head(undo) = undo[1] /\ undo' \in Seq(Seq(Original))
      /\ Len(undo) \in Nat /\ Len(undo) > 0 /\ Len(undo') = Len(undo) - 1
      /\ DOMAIN undo = 1..Len(undo) /\ DOMAIN undo' = 1..(Len(undo) - 1)
      /\ \A i \in 1..(Len(undo) - 1) : undo'[i] = undo[i + 1]
  <2>1. PICK S : S = Seq(Original)
    OBVIOUS
  <2>2. undo \in Seq(S) /\ undo # << >>
    BY <1>1, <1>3, <2>1
  <2>3. /\ Head(undo) \in S /\ Tail(undo) \in Seq(S) /\ Len(Tail(undo)) = Len(undo) - 1
        /\ \A i \in 1..Len(Tail(undo)) : Tail(undo)[i] = undo[i + 1]
        /\ Head(undo) = undo[1]
    BY <2>2, HeadTailProperties
  <2>4. Len(undo) \in Nat /\ Len(undo) > 0 /\ DOMAIN undo = 1..Len(undo)
    BY <2>2, LenProperties, EmptySeq
  <2>5. DOMAIN undo' = 1..Len(undo')
    BY <1>1, <2>3, LenProperties
  <2>. QED
    BY <1>1, <2>1, <2>3, <2>4, <2>5
<1>5. PICK os : os = undo[1]
  OBVIOUS
<1>6. /\ env' \in Envs /\ \A k \in Keys \ KeysOf(os) : env'[k] = env[k]
      /\ \A k \in KeysOf(os) \cap Keys : \A value : Restores(os, k, value) => env'[k] = value
  <2>1. os \in Seq(Original) /\ env' = ResetEnvVars(env, os)
    BY <1>1, <1>4, <1>5
  <2>. QED
    BY <1>3, <2>1, ResetEnvVarsSets
<1>7. Types'
  BY <1>1, <1>2, <1>3, <1>4, <1>6 DEF Types
<1>8. Counted'
  BY <1>1, <1>2, <1>3, <1>4 DEF Counted, SettingUp
<1>9. Noted'
  BY <1>1 DEF Noted
<1>10. StartIsKept'
  <2>1. ASSUME NEW k \in Keys \ Excused, Kept(k) PROVE Kept(k)'
    <3>1. ASSUME \A i \in DOMAIN undo : i > 1 => k \notin KeysOf(undo[i]) PROVE Unnamed(k)'
      <4>1. ASSUME NEW i \in DOMAIN undo' PROVE k \notin KeysOf(undo'[i])
        <5>1. i + 1 \in DOMAIN undo /\ i + 1 > 1 /\ undo'[i] = undo[i + 1]
          BY <1>4
        <5>. QED
          BY <3>1, <5>1
      <4>. QED
        BY <4>1 DEF Unnamed, KeysOf
    <3>2. CASE LastRestores(k)
      <4>1. PICK j \in DOMAIN undo :
              /\ k \in KeysOf(undo[j]) /\ Restores(undo[j], k, atStart[k])
              /\ \A i \in DOMAIN undo : i > j => k \notin KeysOf(undo[i])
        BY <3>2 DEF LastRestores
      <4>2. CASE j = 1
        <5>1. env'[k] = atStart'[k]
          BY <1>1, <1>5, <1>6, <2>1, <4>1, <4>2
        <5>2. Unnamed(k)'
          BY <3>1, <4>1, <4>2
        <5>. QED
          BY <1>1, <5>1, <5>2 DEF Kept
      <4>3. CASE j # 1
        <5>1. j - 1 \in DOMAIN undo' /\ undo'[j - 1] = undo[j]
          BY <1>4, <4>3
        <5>2. ASSUME NEW i \in DOMAIN undo', i > j - 1 PROVE k \notin KeysOf(undo'[i])
          <6>1. i + 1 \in DOMAIN undo /\ i + 1 > j /\ undo'[i] = undo[i + 1]
            BY <1>4, <4>1, <5>2
          <6>. QED
            BY <4>1, <6>1
        <5>3. k \in KeysOf(undo'[j - 1]) /\ Restores(undo'[j - 1], k, atStart'[k])
          BY <1>1, <4>1, <5>1
        <5>4. LastRestores(k)'
          BY <5>1, <5>2, <5>3 DEF LastRestores, Restores, KeysOf
        <5>. QED
          BY <5>4 DEF Kept
      <4>. QED
        BY <4>2, <4>3
    <3>3. CASE Unnamed(k) /\ env[k] = atStart[k]
      <4>1. \A i \in DOMAIN undo : k \notin KeysOf(undo[i])
        BY <3>3 DEF Unnamed
      <4>2. 1 \in DOMAIN undo
        BY <1>4
      <4>3. env'[k] = atStart'[k]
        BY <1>1, <1>5, <1>6, <2>1, <3>3, <4>1, <4>2
      <4>4. Unnamed(k)'
        BY <3>1, <4>1
      <4>. QED
        BY <1>1, <4>3, <4>4 DEF Kept
    <3>. QED
      BY <1>1, <2>1, <3>2, <3>3 DEF Kept
  <2>. QED
    BY <1>1, <2>1, SectionKeeps
<1>11. VarsAreSet'
  BY <1>1 DEF VarsAreSet
<1>. QED
  BY <1>7, <1>8, <1>9, <1>10, <1>11 DEF IInv

LEMMA EndSectionKeeps ==
  ASSUME IInv, EndSection
  PROVE  IInv'
<1>1. /\ pc = "next" /\ num = Len(Tests) /\ undo = << >> /\ pc' = "fileTests"
      /\ left' = (IF File.schema = "v2" THEN File.fileTests ELSE 0)
      /\ UNCHANGED <<run, env, file, num, own, undo, atStart, dropped>>
      /\ Types /\ Counted /\ Noted /\ StartIsKept /\ VarsAreSet
  BY DEF IInv, EndSection
<1>2. File' = File /\ Tests' = Tests
  BY <1>1, SameFile
<1>3. File.fileTests \in Nat
  BY <1>1, RunTyped
<1>4. left' \in Nat /\ (left' > 0 => File.schema = "v2")
  BY <1>1, <1>3
<1>5. Types'
  BY <1>1, <1>2, <1>4 DEF Types
<1>6. Counted'
  <2>1. Len(undo) <= num
    BY <1>1 DEF Counted
  <2>. QED
    BY <1>1, <1>2, <1>4, <2>1 DEF Counted, SettingUp
<1>7. Noted'
  BY <1>1 DEF Noted
<1>8. StartIsKept'
  <2>1. ASSUME NEW k \in Keys \ Excused, Kept(k) PROVE Kept(k)'
    BY <1>1, <2>1, KeptIfSame
  <2>. QED
    BY <1>1, <2>1, SectionKeeps
<1>9. VarsAreSet'
  BY <1>1 DEF VarsAreSet
<1>. QED
  BY <1>5, <1>6, <1>7, <1>8, <1>9 DEF IInv

LEMMA NextFileKeeps ==
  ASSUME IInv, NextFile
  PROVE  IInv'
<1>1. /\ pc = "fileTests" /\ left = 0 /\ file < Len(run.files) /\ file' = file + 1 /\ num' = 0
      /\ pc' = "next" /\ atStart' = env /\ dropped' = {}
      /\ UNCHANGED <<run, env, left, own, undo>>
      /\ Types /\ Counted /\ undo = << >>
  BY DEF IInv, NextFile, Counted
<1>2. /\ run.files \in Seq(StructureTest) /\ Len(run.files) \in Nat /\ DOMAIN run.files = 1..Len(run.files)
      /\ env \in Envs
  BY <1>1, RunTyped DEF Types
<1>3. file' \in DOMAIN run.files
  BY <1>1, <1>2 DEF Types
<1>4. Len(Tests') \in Nat
  <2>1. run.files[file'] \in StructureTest
    BY <1>2, <1>3, ElementOfSeq
  <2>2. Tests' = run.files[file'].tests
    BY <1>1 DEF File, Tests
  <2>3. Tests' \in Seq(CommandTest)
    BY <2>1, <2>2 DEF StructureTest
  <2>. QED
    BY <2>3, LenProperties
<1>5. Types'
  BY <1>1, <1>2, <1>3, <1>4 DEF Types
<1>6. Len(undo) = 0 /\ DOMAIN undo = {}
  BY <1>1, EmptySeq
<1>7. Counted'
  BY <1>1, <1>6 DEF Counted, SettingUp
<1>8. Noted'
  BY <1>1 DEF Noted
<1>9. StartIsKept'
  <2>1. ASSUME NEW k \in Keys PROVE Kept(k)'
    <3>1. Unnamed(k)'
      BY <1>1, <1>6 DEF Unnamed
    <3>. QED
      BY <1>1, <3>1 DEF Kept
  <2>. QED
    BY <2>1 DEF StartIsKept
<1>10. VarsAreSet'
  BY <1>1 DEF VarsAreSet
<1>. QED
  BY <1>5, <1>7, <1>8, <1>9, <1>10 DEF IInv

LEMMA CannotStartKeeps ==
  ASSUME IInv, CannotStart
  PROVE  IInv'
<1>1. /\ pc' = "fatal" /\ UNCHANGED <<run, env, file, num, left, own, undo, atStart, dropped>>
      /\ Types /\ Counted
  BY DEF IInv, CannotStart
<1>2. File' = File /\ Tests' = Tests
  BY <1>1, SameFile
<1>3. Types'
  BY <1>1, <1>2 DEF Types
<1>4. Counted'
  BY <1>1, <1>2 DEF Counted, SettingUp
<1>5. Noted' /\ StartIsKept' /\ VarsAreSet'
  BY <1>1 DEF Noted, StartIsKept, VarsAreSet
<1>. QED
  BY <1>3, <1>4, <1>5 DEF IInv

LEMMA StoppedKeeps ==
  ASSUME IInv, UNCHANGED vars
  PROVE  IInv'
<1>1. UNCHANGED <<run, env, file, num, pc, left, own, undo, atStart, dropped>>
  BY DEF vars
<1>2. File' = File /\ Tests' = Tests /\ Vars' = Vars /\ SetupVars' = SetupVars
  BY <1>1, SameFile
<1>3. Types /\ Counted /\ Noted /\ StartIsKept /\ VarsAreSet
  BY DEF IInv
<1>4. Types'
  BY <1>1, <1>2, <1>3 DEF Types
<1>5. Counted'
  BY <1>1, <1>2, <1>3 DEF Counted, SettingUp
<1>6. Noted'
  <2>1. KeysOf(own)' = KeysOf(own) /\ KeysOf(Vars)' = KeysOf(Vars)
        /\ KeysOf(SetupVars)' = KeysOf(SetupVars) /\ KeysOf(undo[1])' = KeysOf(undo[1])
    BY <1>1, <1>2 DEF KeysOf
  <2>. QED
    BY <1>1, <1>3, <2>1 DEF Noted
<1>7. StartIsKept'
  <2>1. ASSUME NEW k, Kept(k) PROVE Kept(k)'
    BY <1>1, <2>1 DEF Kept, LastRestores, Unnamed, KeysOf, Restores
  <2>2. Excused' = Excused
    BY <1>1, <1>2 DEF Excused
  <2>. QED
    BY <1>1, <1>3, <2>1, <2>2 DEF StartIsKept
<1>8. VarsAreSet'
  BY <1>1, <1>2, <1>3 DEF VarsAreSet
<1>. QED
  BY <1>4, <1>5, <1>6, <1>7, <1>8 DEF IInv

LEMMA InitInv ==
  ASSUME Init
  PROVE  IInv
<1>1. /\ run \in Runs /\ env = run.env /\ file = 1 /\ num = 0 /\ pc = "next" /\ left = 0
      /\ own = << >> /\ undo = << >> /\ atStart = run.env /\ dropped = {}
  BY DEF Init
<1>2. run.env \in Envs /\ run.files \in Seq(StructureTest) /\ run.files # << >>
  BY <1>1, RunsAssumption DEF Envs
<1>3. Len(run.files) \in Nat /\ DOMAIN run.files = 1..Len(run.files) /\ Len(run.files) # 0
  BY <1>2, LenProperties, EmptySeq
<1>4. 1 \in DOMAIN run.files
  BY <1>3
<1>5. Len(Tests) \in Nat
  <2>1. run.files[1] \in StructureTest
    BY <1>2, <1>3, <1>4, ElementOfSeq
  <2>2. Tests \in Seq(CommandTest)
    BY <1>1, <2>1 DEF File, Tests, StructureTest
  <2>. QED
    BY <2>2, LenProperties
<1>6. << >> \in Seq(Original) /\ << >> \in Seq(Seq(Original)) /\ Len(undo) = 0 /\ DOMAIN undo = {}
  BY <1>1, EmptySeq
<1>7. Types
  BY <1>1, <1>2, <1>4, <1>5, <1>6 DEF Types
<1>8. Counted
  BY <1>1, <1>6 DEF Counted, SettingUp
<1>9. Noted /\ VarsAreSet
  BY <1>1 DEF Noted, VarsAreSet
<1>10. StartIsKept
  <2>1. ASSUME NEW k \in Keys PROVE Kept(k)
    BY <1>1, <1>6 DEF Kept, Unnamed
  <2>. QED
    BY <2>1 DEF StartIsKept
<1>. QED
  BY <1>7, <1>8, <1>9, <1>10 DEF IInv

LEMMA StepKeeps ==
  ASSUME IInv, [Next]_vars
  PROVE  IInv'
<1>1. CASE UNCHANGED vars
  BY <1>1, StoppedKeeps
<1>2. CASE Finished
  BY <1>2, StoppedKeeps DEF Finished
<1>. QED
  BY <1>1, <1>2, NextTestKeeps, SetEnvKeeps, SetupKeeps, SetupCommandKeeps, SetupCommandErrorKeeps,
     DeferTeardownKeeps, StartCommandKeeps, FinishCommandKeeps, TeardownKeeps, EndSectionKeeps,
     NextFileKeeps, CannotStartKeeps DEF Next

-----------------------------------------------------------------------------
(* What follows.                                                           *)

\* At every step: what a variable was when the command section began is in the
\* environment, or the last of the teardowns that name it puts it back, or the
\* Setup under way has noted it (SetEnvVars, ResetEnvVars and the deferred
\* Teardowns of RunCommandTests).
THEOREM Inductive == Spec => []IInv
<1>1. Init => IInv
  BY InitInv
<1>2. IInv /\ [Next]_vars => IInv'
  BY StepKeeps
<1>. QED
  BY <1>1, <1>2, PTL DEF Spec

\* Every variable has its type, and there are never more teardowns to come than
\* tests that were begun.
THEOREM TypeCorrect == Spec => []TypeOK
<1>1. IInv => TypeOK
  BY DEF IInv, Types, Counted, TypeOK, Envs
<1>. QED
  BY <1>1, Inductive, PTL

\* When the command tests of a file are over, every variable that the code can
\* put back is what it was before them, however many tests set it, in whatever
\* order their setups failed and whatever their values refer to.
THEOREM EnvironmentIsRestored == Spec => []SectionRestores
<1>1. ASSUME IInv PROVE SectionRestores
  <2>1. ASSUME pc = "fileTests", NEW k \in Keys \ Excused PROVE env[k] = atStart[k]
    <3>1. Kept(k)
      BY <1>1, <2>1 DEF IInv, StartIsKept
    <3>2. undo = << >>
      BY <1>1, <2>1 DEF IInv, Counted
    <3>3. ~LastRestores(k)
      BY <3>2, EmptySeq DEF LastRestores
    <3>. QED
      BY <2>1, <3>1, <3>3 DEF Kept
  <2>. QED
    BY <2>1 DEF SectionRestores
<1>. QED
  BY <1>1, Inductive, PTL

\* The command of a test finds the literals that its config gives it, those of
\* the test before the globals, in the variables themselves and in those of the
\* test that refer to them, whatever was set before it.
THEOREM LiteralsAreSeen == Spec => []CommandSeesItsLiterals
<1>1. ASSUME IInv, pc = "running"
      PROVE  CommandSeesItsLiterals
  <2>1. SeenIn(env, Asked) /\ ReferIn(env, File.globals, Vars)
    BY <1>1 DEF IInv, VarsAreSet, Asked
  <2>2. \A k \in Literals : env[k] = LastOf(Asked, k).lit
    BY <2>1 DEF SeenIn, Literals
  <2>3. ASSUME NEW k \in KeysOf(Vars) \ {BadKey}, NEW r, r = LastOf(Vars, k).ref, r \in Literals \ Repeated(Vars)
        PROVE  env[k] = LastOf(Asked, r).lit \o LastOf(Vars, k).lit
    <3>1. r \in KeysOf(Asked) \ ({BadKey} \union Repeated(Vars)) /\ LastOf(Asked, r).ref = NoRef
      BY <2>3 DEF Literals
    <3>. QED
      BY <2>1, <2>3, <3>1 DEF ReferIn, Asked
  <2>. QED
    BY <2>2, <2>3 DEF CommandSeesItsLiterals
<1>2. IInv => CommandSeesItsLiterals
  BY <1>1 DEF CommandSeesItsLiterals
<1>. QED
  BY <1>2, Inductive, PTL
=============================================================================
