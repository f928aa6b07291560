----------------------------- MODULE Induction -----------------------------
(***************************************************************************)
(* What the proofs about sequences and recursive functions rest on.         *)
(***************************************************************************)
EXTENDS Integers, SequencesExt, SequenceTheorems, WellFoundedInduction, TLAPS

(* Induction over the natural numbers, on a set in place of a predicate.    *)
LEMMA LeastElement ==
  ASSUME NEW T \in SUBSET Nat, T # {}
  PROVE  \E m \in T : \A k \in T : m <= k
<1> DEFINE R == OpToRel(<, Nat)
<1>1. IsWellFoundedOn(R, Nat)
  BY NatLessThanWellFounded
<1>2. PICK x \in T : \A y \in T : <<y, x>> \notin R
  <2> HIDE DEF R
  <2> QED BY <1>1, WFMin
<1>3. \A y \in T : y < x => <<y, x>> \in R
  BY DEF OpToRel
<1>4. \A y \in T : ~(y < x)
  <2> HIDE DEF R
  <2> QED BY <1>2, <1>3
<1> QED BY <1>4

LEMMA SetInduction ==
  ASSUME NEW T \in SUBSET Nat, 0 \in T, \A n \in T : n + 1 \in T
  PROVE  T = Nat
<1>1. SUFFICES ASSUME Nat \ T # {} PROVE FALSE
  OBVIOUS
<1>2. PICK m \in Nat \ T : \A k \in Nat \ T : m <= k
  BY <1>1, LeastElement
<1>3. m # 0 /\ m - 1 \in Nat
  BY <1>2
<1>4. m - 1 \in T
  BY <1>2, <1>3
<1> QED BY <1>2, <1>3, <1>4

(* What a recursive definition over 0 .. n defines exists.                  *)
Iterates(f, V, base, n, next) ==
  f \in [0 .. n -> V] /\ f[0] = base /\ \A k \in 1 .. n : f[k] = next[k][f[k - 1]]

LEMMA StepsExist ==
  ASSUME NEW V, NEW base \in V, NEW n \in Nat, NEW next \in [1 .. n -> [V -> V]]
  PROVE  \E f : Iterates(f, V, base, n, next)
<1> DEFINE Steps(f, m) == /\ f \in [0 .. m -> V] /\ f[0] = base
                          /\ \A k \in 1 .. m : f[k] = next[k][f[k - 1]]
           T == {m \in Nat : m <= n => \E f : Steps(f, m)}
<1>1. 0 \in T
  <2>1. Steps([k \in 0 .. 0 |-> base], 0)
    OBVIOUS
  <2> QED BY <2>1
<1>2. ASSUME NEW m \in T
      PROVE  m + 1 \in T
  <2> SUFFICES ASSUME m + 1 <= n
               PROVE  \E f : Steps(f, m + 1)
    <3> HIDE DEF Steps
    <3> QED OBVIOUS
  <2>1. m <= n /\ m \in Nat
    OBVIOUS
  <2>2. PICK f : Steps(f, m)
    BY <2>1
  <2> DEFINE g == [k \in 0 .. m + 1 |-> IF k = m + 1 THEN next[m + 1][f[m]] ELSE f[k]]
  <2>3. next[m + 1] \in [V -> V] /\ f[m] \in V
    BY <2>1, <2>2
  <2>4. next[m + 1][f[m]] \in V
    BY <2>3
  <2>5. g \in [0 .. m + 1 -> V] /\ g[0] = base
    BY <2>1, <2>2, <2>4
  <2>6. ASSUME NEW k \in 1 .. m + 1
        PROVE  g[k] = next[k][g[k - 1]]
    <3>1. k - 1 \in 0 .. m + 1 /\ k - 1 # m + 1
      BY <2>1
    <3>2. g[k - 1] = f[k - 1]
      BY <3>1
    <3>3. CASE k = m + 1
      <4>1. g[m + 1] = next[m + 1][f[m]]
        BY <2>1
      <4>2. k - 1 = m
        BY <2>1, <3>3
      <4> HIDE DEF g
      <4> QED BY <3>2, <3>3, <4>1, <4>2
    <3>4. CASE k # m + 1
      <4>1. k \in 1 .. m
        BY <2>1, <3>4
      <4> QED BY <2>1, <2>2, <3>2, <4>1
    <3> QED BY <3>3, <3>4
  <2> HIDE DEF g
  <2>7. Steps(g, m + 1)
    BY <2>5, <2>6
  <2> QED BY <2>7
<1>3. T = Nat
  <2> HIDE DEF T
  <2>1. T \subseteq Nat
    BY DEF T
  <2> QED BY <1>1, <1>2, <2>1, SetInduction
<1>4. n \in T
  BY <1>3
<1> QED BY <1>4 DEF Iterates

(* And it is the only one: a function that follows the same steps wherever  *)
(* they are defined is that one.                                            *)
LEMMA StepsAgree ==
  ASSUME NEW V, NEW base \in V, NEW n \in Nat, NEW next \in [1 .. n -> [V -> V]],
         NEW f, Iterates(f, V, base, n, next),
         NEW g, g[0] = base, \A k \in 1 .. n : g[k - 1] \in V => g[k] = next[k][g[k - 1]]
  PROVE  \A k \in 0 .. n : g[k] = f[k] /\ g[k] \in V
<1> DEFINE T == {m \in Nat : m <= n => g[m] = f[m] /\ g[m] \in V}
<1>1. 0 \in T
  BY DEF Iterates
<1>2. ASSUME NEW m \in T
      PROVE  m + 1 \in T
  <2> SUFFICES ASSUME m + 1 <= n
               PROVE  g[m + 1] = f[m + 1] /\ g[m + 1] \in V
    OBVIOUS
  <2>1. m <= n /\ m \in Nat /\ m + 1 \in 1 .. n /\ (m + 1) - 1 = m /\ m + 1 \in 0 .. n
    OBVIOUS
  <2>2. g[m] = f[m] /\ g[m] \in V
    BY <2>1
  <2>3. \A k \in 1 .. n : k = m + 1 => g[k] = f[k]
    BY <2>1, <2>2 DEF Iterates
  <2>4. f[m + 1] \in V
    BY <2>1 DEF Iterates
  <2> QED BY <2>1, <2>3, <2>4
<1>3. T = Nat
  <2>1. T \subseteq Nat
    OBVIOUS
  <2> HIDE DEF T
  <2> QED BY <1>1, <1>2, <2>1, SetInduction
<1> QED BY <1>3

(* The concatenations of the first, the first two, ... of the sequences.     *)
Concatenates(f, V, none, n, seqs) ==
  f \in [0 .. n -> V] /\ f[0] = none /\ \A k \in 1 .. n : f[k] = f[k - 1] \o seqs[k]

LEMMA ConcatStepsExist ==
  ASSUME NEW V, NEW none \in V, NEW n \in Nat, NEW seqs \in [1 .. n -> V],
         \A x \in V, y \in V : x \o y \in V
  PROVE  \E f : Concatenates(f, V, none, n, seqs)
<1>1. PICK next \in [1 .. n -> [V -> V]] :
        \A k \in 1 .. n, x \in V : next[k][x] = x \o seqs[k]
  <2> DEFINE all == [k \in 1 .. n |-> [x \in V |-> x \o seqs[k]]]
  <2>1. \A k \in 1 .. n, x \in V : all[k][x] = x \o seqs[k]
    OBVIOUS
  <2>2. \A k \in 1 .. n, x \in V : x \o seqs[k] \in V
    OBVIOUS
  <2>3. all \in [1 .. n -> [V -> V]]
    BY <2>2
  <2> QED BY <2>1, <2>3
<1>2. PICK f \in [0 .. n -> V] : f[0] = none /\ \A k \in 1 .. n : f[k] = next[k][f[k - 1]]
  <2>1. \E f : Iterates(f, V, none, n, next)
    BY StepsExist
  <2> QED BY <2>1 DEF Iterates
<1>3. \A k \in 1 .. n : k - 1 \in 0 .. n
  OBVIOUS
<1>4. \A k \in 1 .. n : f[k - 1] \in V
  BY <1>2, <1>3
<1>5. \A k \in 1 .. n : f[k] = f[k - 1] \o seqs[k]
  BY <1>1, <1>2, <1>4
<1> QED BY <1>2, <1>5 DEF Concatenates

(* FlattenSeq is the last of them.                                           *)
LEMMA FlattenSteps ==
  ASSUME NEW S, NEW seqs \in Seq(Seq(S)), Len(seqs) # 0
  PROVE  \E flat \in [1 .. Len(seqs) -> Seq(S)] :
           /\ flat[1] = seqs[1] /\ FlattenSeq(seqs) = flat[Len(seqs)]
           /\ \A k \in 1 .. Len(seqs) : k # 1 => flat[k] = flat[k - 1] \o seqs[k]
<1> DEFINE n == Len(seqs)
           V == Seq(S)
           Steps(f) == [i \in 1 .. n |-> IF i = 1 THEN seqs[i] ELSE f[i - 1] \o seqs[i]]
           flat == CHOOSE f : f = Steps(f)
<1>1. n \in Nat \ {0} /\ \A k \in 1 .. n : seqs[k] \in V
  OBVIOUS
<1>2. FlattenSeq(seqs) = flat[n]
  BY DEF FlattenSeq
<1>3. <<>> \in V
  OBVIOUS
<1>4. \A x \in V, y \in V : x \o y \in V /\ <<>> \o y = y
  OBVIOUS
<1> HIDE DEF V
<1>6. PICK f \in [0 .. n -> V] : f[0] = <<>> /\ \A k \in 1 .. n : f[k] = f[k - 1] \o seqs[k]
  <2>1. n \in Nat /\ seqs \in [1 .. n -> V]
    BY DEF V
  <2> HIDE DEF n
  <2>2. \E f : Concatenates(f, V, <<>>, n, seqs)
    BY <1>3, <1>4, <2>1, ConcatStepsExist
  <2> QED BY <2>2 DEF Concatenates
<1>7. \A k \in 1 .. n : k - 1 \in 0 .. n /\ k \in 0 .. n /\ (k # 1 => k - 1 \in 1 .. n)
  BY <1>1
<1>8. \A k \in 1 .. n : f[k - 1] \in V /\ f[k] = f[k - 1] \o seqs[k]
  BY <1>6, <1>7
<1> DEFINE g == [k \in 1 .. n |-> f[k]]
<1>9. g = Steps(g)
  <2>1. ASSUME NEW k \in 1 .. n
        PROVE  g[k] = IF k = 1 THEN seqs[k] ELSE g[k - 1] \o seqs[k]
    <3>1. g[k] = f[k - 1] \o seqs[k]
      BY <1>8
    <3>2. CASE k = 1
      <4>1. f[k - 1] = <<>>
        BY <1>6, <3>2
      <4> QED BY <1>1, <1>4, <3>1, <3>2, <4>1
    <3>3. CASE k # 1
      BY <1>7, <3>1, <3>3
    <3> QED BY <3>2, <3>3
  <2> QED BY <2>1
<1>10. flat = Steps(flat)
  BY <1>9
<1> HIDE DEF flat
<1>11. \A k \in 1 .. n : flat[k] = IF k = 1 THEN seqs[k] ELSE flat[k - 1] \o seqs[k]
  BY <1>10
<1>12. flat \in [1 .. n -> V]
  <2> DEFINE T == {k \in Nat : \A i \in 1 .. n : i <= k => flat[i] \in V}
  <2>1. 0 \in T
    OBVIOUS
  <2>2. ASSUME NEW k \in T
        PROVE  k + 1 \in T
    <3> SUFFICES ASSUME NEW i \in 1 .. n, i <= k + 1
                 PROVE  flat[i] \in V
      OBVIOUS
    <3>1. CASE i = 1
      BY <1>1, <1>11, <3>1
    <3>2. CASE i # 1
      <4>1. i - 1 \in 1 .. n /\ i - 1 <= k
        BY <1>1, <3>2
      <4>2. flat[i - 1] \in V /\ flat[i] = flat[i - 1] \o seqs[i]
        BY <1>11, <3>2, <4>1
      <4> QED BY <1>1, <1>4, <4>2
    <3> QED BY <3>1, <3>2
  <2>3. T = Nat
    <3>1. T \subseteq Nat
      OBVIOUS
    <3> HIDE DEF T
    <3> QED BY <2>1, <2>2, <3>1, SetInduction
  <2>4. n \in T /\ \A k \in 1 .. n : k <= n
    <3> HIDE DEF T
    <3> QED BY <1>1, <2>3
  <2>5. \A k \in 1 .. n : flat[k] \in V
    BY <2>4
  <2> QED BY <1>10, <2>5
<1>13. flat[1] = seqs[1]
  BY <1>1, <1>11
<1> QED BY <1>2, <1>11, <1>12, <1>13 DEF V

LEMMA FlattenTyped ==
  ASSUME NEW S, NEW seqs \in Seq(Seq(S))
  PROVE  FlattenSeq(seqs) \in Seq(S)
<1>1. CASE Len(seqs) = 0
  <2>1. FlattenSeq(seqs) = seqs /\ seqs = <<>>
    BY <1>1, EmptySeq DEF FlattenSeq
  <2> QED BY <2>1
<1>2. CASE Len(seqs) # 0
  <2>1. Len(seqs) \in 1 .. Len(seqs)
    BY <1>2, LenProperties
  <2>2. PICK flat \in [1 .. Len(seqs) -> Seq(S)] : FlattenSeq(seqs) = flat[Len(seqs)]
    BY <1>2, FlattenSteps
  <2> QED BY <2>1, <2>2
<1> QED BY <1>1, <1>2

(* The elements of a concatenation.                                          *)
LEMMA ConcatElements ==
  ASSUME NEW S, NEW s \in Seq(S), NEW t \in Seq(S)
  PROVE  /\ s \o t \in Seq(S) /\ Len(s \o t) = Len(s) + Len(t)
         /\ Len(s) \in Nat /\ Len(t) \in Nat
         /\ DOMAIN s = 1 .. Len(s) /\ DOMAIN t = 1 .. Len(t)
         /\ DOMAIN (s \o t) = 1 .. Len(s) + Len(t)
         /\ \A i \in 1 .. Len(s) : (s \o t)[i] = s[i]
         /\ \A i \in 1 .. Len(t) : (s \o t)[Len(s) + i] = t[i]
         /\ \A i \in 1 .. Len(s) + Len(t) :
              i \in 1 .. Len(s) \/ \E k \in 1 .. Len(t) : i = Len(s) + k
<1>1. /\ s \o t \in Seq(S) /\ Len(s \o t) = Len(s) + Len(t)
      /\ Len(s) \in Nat /\ Len(t) \in Nat
      /\ DOMAIN s = 1 .. Len(s) /\ DOMAIN t = 1 .. Len(t)
  BY ConcatProperties, LenProperties
<1>2. DOMAIN (s \o t) = 1 .. Len(s) + Len(t)
  BY <1>1, LenProperties
<1>3. \A i \in 1 .. Len(s) : (s \o t)[i] = s[i]
  BY ConcatProperties, <1>1
<1>4. ASSUME NEW i \in 1 .. Len(t)
      PROVE  (s \o t)[Len(s) + i] = t[i]
  <2>1. Len(s) + i \in 1 .. Len(s) + Len(t) /\ ~(Len(s) + i <= Len(s)) /\ Len(s) + i - Len(s) = i
    BY <1>1
  <2>2. (s \o t)[Len(s) + i] = t[Len(s) + i - Len(s)]
    BY <2>1, ConcatProperties
  <2> QED BY <2>1, <2>2
<1>5. ASSUME NEW i \in 1 .. Len(s) + Len(t), i \notin 1 .. Len(s)
      PROVE  \E k \in 1 .. Len(t) : i = Len(s) + k
  <2>1. i - Len(s) \in 1 .. Len(t) /\ i = Len(s) + (i - Len(s))
    BY <1>1, <1>5
  <2> QED BY <2>1
<1> QED BY <1>1, <1>2, <1>3, <1>4, <1>5

(* Every element of the concatenation is one of the sequences', and only its *)
(* own ends are the first of the first and the last of the last.             *)
ComesFrom(flat, i, seqs, n) ==
  \E j \in 1 .. n : \E k \in 1 .. Len(seqs[j]) :
    /\ flat[i] = seqs[j][k]
    /\ j = 1 /\ k = 1 => i = 1
    /\ j = n /\ k = Len(seqs[n]) => i = Len(flat)

LEMMA FlattenElements ==
  ASSUME NEW S, NEW seqs \in Seq(Seq(S)), NEW i \in 1 .. Len(FlattenSeq(seqs))
  PROVE  ComesFrom(FlattenSeq(seqs), i, seqs, Len(seqs))
<1> DEFINE n == Len(seqs)
<1>1. n \in Nat /\ \A j \in 1 .. n : seqs[j] \in Seq(S) /\ Len(seqs[j]) \in Nat
  <2>1. n \in Nat /\ \A j \in 1 .. n : seqs[j] \in Seq(S)
    BY LenProperties
  <2> QED BY <2>1, LenProperties
<1>2. n # 0
  <2>1. ASSUME n = 0
        PROVE  FALSE
    <3>1. FlattenSeq(seqs) = seqs
      BY <2>1 DEF FlattenSeq
    <3> QED BY <2>1, <3>1
  <2> QED BY <2>1
<1>3. PICK flat \in [1 .. n -> Seq(S)] :
        /\ flat[1] = seqs[1] /\ FlattenSeq(seqs) = flat[n]
        /\ \A k \in 1 .. n : k # 1 => flat[k] = flat[k - 1] \o seqs[k]
  BY <1>2, FlattenSteps
<1> HIDE DEF n
<1> DEFINE From(m) == \A x \in 1 .. Len(flat[m]) : ComesFrom(flat[m], x, seqs, m)
           T == {m \in Nat : \A l \in 1 .. n : l <= m => From(l)}
<1>4. From(1)
  <2> SUFFICES ASSUME NEW x \in 1 .. Len(seqs[1])
               PROVE  ComesFrom(seqs[1], x, seqs, 1)
    BY <1>3
  <2>1. 1 \in 1 .. 1
    OBVIOUS
  <2> QED BY <2>1 DEF ComesFrom
<1>5. ASSUME NEW m \in 1 .. n, m # 1, From(m - 1)
      PROVE  From(m)
  <2> DEFINE before == flat[m - 1]
             N == Len(before)
             M == Len(seqs[m])
  <2>1. m - 1 \in 1 .. n /\ m \in 1 .. m /\ m \in Int
    BY <1>1, <1>5
  <2>2. flat[m] = before \o seqs[m] /\ before \in Seq(S) /\ seqs[m] \in Seq(S)
    BY <1>1, <1>3, <1>5, <2>1
  <2>3. /\ Len(flat[m]) = N + M /\ N \in Nat /\ M \in Nat
        /\ \A x \in 1 .. N : flat[m][x] = before[x]
        /\ \A x \in 1 .. M : flat[m][N + x] = seqs[m][x]
        /\ \A x \in 1 .. N + M : x \in 1 .. N \/ \E k \in 1 .. M : x = N + k
    <3> HIDE DEF before
    <3> QED BY <2>2, ConcatElements
  <2>4. \A x \in 1 .. N : ComesFrom(before, x, seqs, m - 1)
    BY <1>5
  <2>5. M = Len(seqs[m])
    OBVIOUS
  <2> HIDE DEF before, N, M
  <2> SUFFICES ASSUME NEW x \in 1 .. N + M
               PROVE  ComesFrom(flat[m], x, seqs, m)
    BY <2>3
  <2>6. CASE x \in 1 .. N
    <3>1. PICK j \in 1 .. m - 1 : \E k \in 1 .. Len(seqs[j]) :
            before[x] = seqs[j][k] /\ (j = 1 /\ k = 1 => x = 1)
      BY <2>4, <2>6 DEF ComesFrom
    <3>2. PICK k \in 1 .. Len(seqs[j]) : before[x] = seqs[j][k] /\ (j = 1 /\ k = 1 => x = 1)
      BY <3>1
    <3>3. j \in 1 .. m /\ j # m /\ flat[m][x] = seqs[j][k]
      BY <2>1, <2>3, <2>6, <3>2
    <3> QED BY <3>2, <3>3 DEF ComesFrom
  <2>7. CASE \E k \in 1 .. M : x = N + k
    <3>1. PICK k \in 1 .. M : x = N + k
      BY <2>7
    <3>2. flat[m][x] = seqs[m][k] /\ k \in 1 .. Len(seqs[m])
      BY <2>3, <2>5, <3>1
    <3>3. k = Len(seqs[m]) => x = Len(flat[m])
      BY <2>3, <2>5, <3>1
    <3> QED BY <1>5, <2>1, <3>2, <3>3 DEF ComesFrom
  <2> QED BY <2>3, <2>6, <2>7
<1> HIDE DEF From
<1>6. 0 \in T
  OBVIOUS
<1>7. ASSUME NEW m \in T
      PROVE  m + 1 \in T
  <2> SUFFICES ASSUME NEW l \in 1 .. n, l <= m + 1
               PROVE  From(l)
    OBVIOUS
  <2>1. CASE l = 1
    BY <1>4, <2>1
  <2>2. CASE l # 1
    <3>1. l - 1 \in 1 .. n /\ l - 1 <= m
      BY <1>1, <2>2
    <3> QED BY <1>5, <2>2, <3>1
  <2> QED BY <2>1, <2>2
<1>8. T = Nat
  <2>1. T \subseteq Nat
    OBVIOUS
  <2> HIDE DEF T
  <2> QED BY <1>6, <1>7, <2>1, SetInduction
<1>9. From(n)
  <2>1. n \in T /\ n \in 1 .. n /\ n <= n
    <3> HIDE DEF T
    <3> QED BY <1>1, <1>2, <1>8
  <2> QED BY <2>1
<1> QED BY <1>3, <1>9 DEF From, n
=============================================================================
