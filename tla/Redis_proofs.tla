---------------------------- MODULE Redis_proofs ----------------------------
(***************************************************************************)
(* RoundTrip of Redis for every set of objects.  The argument:             *)
(*                                                                         *)
(*   - FlattenSeq: where each of the sequences it joins is found again     *)
(*     (FlatPlaces), and what it makes of a sequence with one in front     *)
(*     (FlatCons);                                                         *)
(*   - objectToArray is the function its recursion describes (ToArray),    *)
(*     as no value is deeper than MaxDepth;                                *)
(*   - the leaves of an object are the scalars in its fields and the       *)
(*     leaves of the objects in its fields (LeafHere, LeafBelow,           *)
(*     LeafCases), and the name of a leaf is what the prefixes make of     *)
(*     the keys on its path (PairHere, PairBelow);                         *)
(*   - so the pairs are those of the leaves, and behind the pair of a leaf *)
(*     are those of later leaves only (ObjectOfLeaves), which is what the  *)
(*     hash and hgetall keep (HSetRoundTrip).                              *)
(*                                                                         *)
(* The induction is over the depth of a value, and always that of UpTo: a  *)
(* set that has 0, and with each number the next, has all up to N.         *)
(***************************************************************************)
EXTENDS Redis, SequenceTheorems, WellFoundedInduction, TLAPS

(* Numbers have a least, which is all the induction there is below: a set  *)
(* that has 0, and with each number the next, has all of them.             *)
Less == {ss \in Nat \X Nat : ss[1] < ss[2]}

(* A set of numbers that is not empty has a least one.                     *)
LEMMA Least ==
  ASSUME NEW S \in SUBSET Nat, S # {}
  PROVE  \E i \in S : \A j \in S : i <= j
<1>1. IsWellFoundedOn(Less, Nat)
  BY NatLessThanWellFounded DEF OpToRel, Less
<1>2. \E i \in S : \A j \in S : <<j, i>> \notin Less
  BY <1>1, WFMin
<1>3. \A i, j \in S : <<j, i>> \notin Less => i <= j
  <2> SUFFICES ASSUME NEW i \in S, NEW j \in S, ~(i <= j) PROVE <<j, i>> \in Less
    OBVIOUS
  <2>1. i \in Nat /\ j \in Nat /\ j < i
    OBVIOUS
  <2> QED
    BY <2>1 DEF Less
<1> QED
  BY <1>2, <1>3, Zenon

(* A set that has 0, and with each number below N the next, has all up to  *)
(* N.                                                                      *)
LEMMA UpTo ==
  ASSUME NEW N \in Nat, NEW S, 0 \in S, \A n \in 0 .. N - 1 : n \in S => n + 1 \in S
  PROVE  \A n \in 0 .. N : n \in S
<1> DEFINE bad == {n \in 0 .. N : n \notin S}
<1> SUFFICES ASSUME bad # {} PROVE FALSE
  OBVIOUS
<1>1. PICK n \in bad : \A m \in bad : n <= m
  <2>1. bad \in SUBSET Nat
    OBVIOUS
  <2> QED
    BY <2>1, Least
<1>2. n \in 1 .. N
  BY <1>1
<1>3. n - 1 \in S
  BY <1>1, <1>2
<1> QED
  BY <1>1, <1>2, <1>3

(* A function on 0 .. N that is given by its first value and a step.       *)
Recurs(f, N, a, step) == f[0] = a /\ \A n \in 1 .. N : f[n] = step[<<n, f[n - 1]>>]

(* What is given by a first value and a step exists.                       *)
LEMMA Recursion ==
  ASSUME NEW N \in Nat, NEW X, NEW a \in X, NEW step \in [(1 .. N) \X X -> X]
  PROVE  \E f \in [0 .. N -> X] : Recurs(f, N, a, step)
<1> DEFINE S == {m \in 0 .. N : \E f \in [0 .. m -> X] : Recurs(f, m, a, step)}
<1>1. 0 \in S
  <2>1. [n \in 0 .. 0 |-> a] \in [0 .. 0 -> X] /\ Recurs([n \in 0 .. 0 |-> a], 0, a, step)
    BY DEF Recurs
  <2> QED
    BY <2>1
<1>2. ASSUME NEW m \in 0 .. N - 1, m \in S PROVE m + 1 \in S
  <2>1. PICK f \in [0 .. m -> X] : Recurs(f, m, a, step)
    BY <1>2
  <2> DEFINE g == [n \in 0 .. m + 1 |-> IF n = m + 1 THEN step[<<m + 1, f[m]>>] ELSE f[n]]
  <2>2. m + 1 \in 1 .. N /\ f[m] \in X /\ m \in 0 .. m
    OBVIOUS
  <2>3. step[<<m + 1, f[m]>>] \in X
    BY <2>2
  <2>4. g \in [0 .. m + 1 -> X]
    BY <2>3
  <2>5. g[0] = a
    BY <2>1 DEF Recurs
  <2>6. ASSUME NEW n \in 1 .. m + 1 PROVE g[n] = step[<<n, g[n - 1]>>]
    <3>1. n - 1 \in 0 .. m /\ g[n - 1] = f[n - 1] /\ n \in 0 .. m + 1
      OBVIOUS
    <3>2. CASE n = m + 1
      <4>1. n - 1 = m
        BY <3>2
      <4> QED BY <3>1, <3>2, <4>1
    <3>3. CASE n # m + 1
      <4>1. n \in 1 .. m
        BY <3>3
      <4> QED
        BY <2>1, <3>1, <4>1 DEF Recurs
    <3> QED
      BY <3>2, <3>3
  <2>7. Recurs(g, m + 1, a, step)
    BY <2>5, <2>6 DEF Recurs
  <2> QED
    BY <2>4, <2>7
<1> HIDE DEF S
<1>3. N \in S
  BY <1>1, <1>2, UpTo
<1> QED
  BY <1>3 DEF S

-----------------------------------------------------------------------------
(* The running concatenations of FlattenSeq.                               *)
Joins(F, seqs) ==
  F[0] = <<>> /\ \A n \in 0 .. Len(seqs) - 1 : F[n + 1] = F[n] \o seqs[n + 1]

(* FlattenSeq gives the last of its running concatenations.                *)
LEMMA Flattened ==
  ASSUME NEW T, NEW seqs \in Seq(Seq(T))
  PROVE  \E F \in [0 .. Len(seqs) -> Seq(T)] :
           Joins(F, seqs) /\ FlattenSeq(seqs) = F[Len(seqs)]
<1> DEFINE N == Len(seqs)
           step == [p \in (1 .. N) \X Seq(T) |-> p[2] \o seqs[p[1]]]
           flat(f) == [i \in 1 .. N |-> IF i = 1 THEN seqs[i] ELSE f[i - 1] \o seqs[i]]
           h == CHOOSE f : f = flat(f)
<1>0. N \in Nat /\ \A n \in 1 .. N : seqs[n] \in Seq(T)
  OBVIOUS
<1>1. PICK F \in [0 .. N -> Seq(T)] : Recurs(F, N, <<>>, step)
  <2>1. <<>> \in Seq(T) /\ step \in [(1 .. N) \X Seq(T) -> Seq(T)]
    BY <1>0
  <2> HIDE DEF step, N
  <2> QED
    BY <1>0, <2>1, Recursion
<1>2. F[0] = <<>> /\ \A n \in 0 .. N - 1 : F[n + 1] = F[n] \o seqs[n + 1]
  <2>1. ASSUME NEW n \in 0 .. N - 1 PROVE F[n + 1] = F[n] \o seqs[n + 1]
    <3>1. n + 1 \in 1 .. N /\ n + 1 - 1 = n
      BY <1>0
    <3>2. F[n + 1] = step[<<n + 1, F[n]>>]
      <4> HIDE DEF step
      <4> QED
        BY <1>1, <3>1 DEF Recurs
    <3>3. F[n] \in Seq(T)
      BY <1>0
    <3> QED
      BY <3>1, <3>2, <3>3
  <2> QED
    BY <1>1, <2>1 DEF Recurs
<1>3. Joins(F, seqs)
  BY <1>2 DEF Joins
<1>4. CASE N = 0
  BY <1>2, <1>3, <1>4 DEF FlattenSeq
<1>5. CASE N # 0
  <2>1. FlattenSeq(seqs) = h[N]
    BY <1>5 DEF FlattenSeq
  <2>0. 1 \in 1 .. N /\ F[1] = seqs[1]
    <3>1. 1 \in 1 .. N /\ 0 \in 0 .. N - 1
      BY <1>0, <1>5
    <3>2. F[1] = F[0] \o seqs[1]
      <4> DEFINE z == 0
      <4>1. z \in 0 .. N - 1 /\ z + 1 = 1
        BY <3>1
      <4> HIDE DEF z, N
      <4>2. F[z + 1] = F[z] \o seqs[z + 1]
        BY <1>2, <4>1, Zenon
      <4>3. F[1] = F[z] \o seqs[1]
        BY <4>1, <4>2, Zenon
      <4> QED
        BY <4>3 DEF z
    <3> QED
      BY <1>0, <1>2, <3>1, <3>2, ConcatEmptySeq
  <2> DEFINE g == [i \in 1 .. N |-> F[i]]
  <2>2. g = flat(g)
    <3>1. ASSUME NEW i \in 1 .. N
          PROVE  F[i] = IF i = 1 THEN seqs[i] ELSE g[i - 1] \o seqs[i]
      <4>1. CASE i = 1
        BY <2>0, <4>1
      <4>2. CASE i # 1
        <5>1. i - 1 \in 1 .. N /\ i - 1 \in 0 .. N - 1 /\ i - 1 + 1 = i
          BY <4>2
        <5> QED
          BY <1>2, <4>2, <5>1
      <4> QED
        BY <4>1, <4>2
    <3> QED
      BY <3>1
  <2>3. h = flat(h)
    <3> HIDE DEF flat, g
    <3> QED
      BY <2>2
  <2> HIDE DEF h
  <2>7. h[1] = seqs[1] /\ \A n \in 1 .. N - 1 : h[n + 1] = h[n] \o seqs[n + 1]
    <3>1. \A i \in 1 .. N : h[i] = IF i = 1 THEN seqs[i] ELSE h[i - 1] \o seqs[i]
      BY <2>3
    <3>2. ASSUME NEW n \in 1 .. N - 1 PROVE h[n + 1] = h[n] \o seqs[n + 1]
      <4>1. n + 1 \in 1 .. N /\ n + 1 # 1 /\ n + 1 - 1 = n
        BY <1>0
      <4> DEFINE m == n + 1
      <4>2. m \in 1 .. N /\ m # 1 /\ m - 1 = n
        BY <4>1
      <4> HIDE DEF m, N
      <4>3. h[m] = IF m = 1 THEN seqs[m] ELSE h[m - 1] \o seqs[m]
        BY <3>1, <4>2, Zenon
      <4>4. h[m] = h[n] \o seqs[m]
        BY <4>2, <4>3, Zenon
      <4> QED
        BY <4>4 DEF m
    <3> QED
      BY <2>0, <3>1, <3>2
  <2> HIDE DEF N
  <2> DEFINE S == {n \in 0 .. N : n # 0 => h[n] = F[n]}
  <2>4. ASSUME NEW n \in 0 .. N - 1, n \in S PROVE n + 1 \in S
    <3>1. CASE n = 0
      BY <1>0, <1>5, <2>0, <2>7, <3>1
    <3>2. CASE n # 0
      <4>1. n \in 1 .. N - 1 /\ n + 1 \in 0 .. N
        BY <1>0, <3>2
      <4>2. h[n] = F[n]
        BY <2>4, <3>2
      <4>3. h[n + 1] = h[n] \o seqs[n + 1]
        BY <2>7, <4>1
      <4>4. F[n + 1] = F[n] \o seqs[n + 1]
        BY <1>2
      <4> QED
        BY <4>1, <4>2, <4>3, <4>4
    <3> QED
      BY <3>1, <3>2
  <2>5. 0 \in S
    BY <1>0
  <2> HIDE DEF S
  <2>6. N \in S
    <3>1. \A n \in 0 .. N - 1 : n \in S => n + 1 \in S
      BY <2>4
    <3>2. \A n \in 0 .. N : n \in S
      BY <1>0, <3>1, <2>5, UpTo
    <3> QED
      BY <1>0, <3>2
  <2>8. h[N] = F[N]
    BY <1>5, <2>6 DEF S, N
  <2> QED
    BY <1>3, <2>1, <2>8 DEF N
<1> QED
  BY <1>4, <1>5

(* What \o makes of two sequences, position by position.                   *)
LEMMA Joined ==
  ASSUME NEW T, NEW s \in Seq(T), NEW t \in Seq(T)
  PROVE  /\ s \o t \in Seq(T) /\ Len(s \o t) = Len(s) + Len(t)
         /\ \A l \in 1 .. Len(s) : (s \o t)[l] = s[l]
         /\ \A k \in 1 .. Len(t) : (s \o t)[Len(s) + k] = t[k]
         /\ \A l \in 1 .. Len(s \o t) : l > Len(s) => l - Len(s) \in 1 .. Len(t)
  OBVIOUS

(* Where each sequence is found again in what FlattenSeq makes of them.    *)
Places(flat, seqs, off) ==
  /\ \A n \in DOMAIN seqs : \A k \in DOMAIN seqs[n] :
       off[n] + k \in DOMAIN flat /\ flat[off[n] + k] = seqs[n][k]
  /\ \A l \in DOMAIN flat : \E n \in DOMAIN seqs : \E k \in DOMAIN seqs[n] : l = off[n] + k
  /\ \A m, n \in DOMAIN seqs : m < n => off[m] + Len(seqs[m]) <= off[n]

(* What FlattenSeq makes has each element of each sequence, in their       *)
(* order, and nothing else.                                                *)
LEMMA FlatPlaces ==
  ASSUME NEW T, NEW seqs \in Seq(Seq(T))
  PROVE  /\ FlattenSeq(seqs) \in Seq(T)
         /\ \E off \in [DOMAIN seqs -> Nat] : Places(FlattenSeq(seqs), seqs, off)
<1> DEFINE N == Len(seqs)
<1>0. N \in Nat /\ DOMAIN seqs = 1 .. N /\ \A n \in 1 .. N : seqs[n] \in Seq(T)
  OBVIOUS
<1>1. PICK F \in [0 .. N -> Seq(T)] : Joins(F, seqs) /\ FlattenSeq(seqs) = F[N]
  BY Flattened
<1>2. F[0] = <<>> /\ \A n \in 0 .. N - 1 : F[n + 1] = F[n] \o seqs[n + 1]
  BY <1>1 DEF Joins
<1> HIDE DEF N
<1>3. \A n \in 0 .. N : F[n] \in Seq(T) /\ Len(F[n]) \in Nat /\ DOMAIN F[n] = 1 .. Len(F[n])
  BY <1>0, <1>1
<1> DEFINE off == [n \in 1 .. N |-> Len(F[n - 1])]
<1>4. \A n \in 0 .. N - 1 : n + 1 \in 1 .. N /\ off[n + 1] = Len(F[n])
  BY <1>0
<1>5. off \in [1 .. N -> Nat]
  <2>1. \A n \in 1 .. N : n - 1 \in 0 .. N
    BY <1>0
  <2> QED
    BY <1>3, <2>1
<1> HIDE DEF off
<1> DEFINE Within(n) == \A m \in 1 .. n : off[m] + Len(seqs[m]) <= Len(F[n])
           Found(n) == \A m \in 1 .. n : \A k \in 1 .. Len(seqs[m]) : F[n][off[m] + k] = seqs[m][k]
           All(n) == \A l \in 1 .. Len(F[n]) :
                       \E m \in 1 .. n : \E k \in 1 .. Len(seqs[m]) : l = off[m] + k
           S == {n \in 0 .. N : Within(n) /\ Found(n) /\ All(n)}
<1>6. 0 \in S
  BY <1>0, <1>2
<1>7. ASSUME NEW n \in 0 .. N - 1, n \in S PROVE n + 1 \in S
  <2> DEFINE s == F[n]
             t == seqs[n + 1]
  <2>1. n \in 0 .. N /\ n + 1 \in 0 .. N /\ n + 1 \in 1 .. N /\ s \in Seq(T) /\ t \in Seq(T)
    BY <1>0, <1>3
  <2>2. F[n + 1] = s \o t /\ off[n + 1] = Len(s)
    BY <1>2, <1>4
  <2>3. Within(n) /\ Found(n) /\ All(n)
    BY <1>7
  <2>4. \A m \in 1 .. n + 1 : m = n + 1 \/ m \in 1 .. n
    BY <1>0
  <2>5. \A m \in 1 .. N : Len(seqs[m]) \in Nat /\ off[m] \in Nat
    BY <1>0, <1>5
  <2>8. \A m \in 1 .. n : m \in 1 .. N
    BY <1>0
  <2>9. Len(s) \in Nat /\ Len(t) \in Nat
    BY <2>1
  <2> HIDE DEF s, t
  <2>6. Within(n + 1)
    <3> SUFFICES ASSUME NEW m \in 1 .. n + 1 PROVE off[m] + Len(seqs[m]) <= Len(s \o t)
      BY <2>2
    <3>1. CASE m = n + 1
      BY <2>1, <2>2, <2>9, <3>1, Joined DEF t
    <3>2. CASE m \in 1 .. n
      <4>1. off[m] + Len(seqs[m]) <= Len(s)
        BY <2>3, <3>2 DEF s
      <4> QED
        BY <2>1, <2>5, <2>8, <2>9, <3>2, <4>1, Joined
    <3> QED
      BY <2>4, <3>1, <3>2
  <2>7. Found(n + 1)
    <3> SUFFICES ASSUME NEW m \in 1 .. n + 1, NEW k \in 1 .. Len(seqs[m])
                 PROVE  (s \o t)[off[m] + k] = seqs[m][k]
      BY <2>2
    <3>1. CASE m = n + 1
      <4>1. seqs[m] = t /\ off[m] = Len(s) /\ k \in 1 .. Len(t)
        BY <2>2, <3>1 DEF t
      <4> QED
        BY <2>1, <4>1, Joined
    <3>2. CASE m \in 1 .. n
      <4>1. s[off[m] + k] = seqs[m][k] /\ off[m] + Len(seqs[m]) <= Len(s)
        BY <2>3, <3>2 DEF s
      <4>2. off[m] + k \in 1 .. Len(s)
        BY <2>5, <2>8, <2>9, <3>2, <4>1
      <4> QED
        BY <2>1, <4>1, <4>2, Joined
    <3> QED
      BY <2>4, <3>1, <3>2
  <2>10. All(n + 1)
    <3> SUFFICES ASSUME NEW l \in 1 .. Len(s \o t)
                 PROVE  \E m \in 1 .. n + 1 : \E k \in 1 .. Len(seqs[m]) : l = off[m] + k
      BY <2>2
    <3>1. CASE l \in 1 .. Len(s)
      <4>1. \E m \in 1 .. n : \E k \in 1 .. Len(seqs[m]) : l = off[m] + k
        BY <2>3, <3>1 DEF s
      <4> QED
        BY <4>1
    <3>2. CASE l \notin 1 .. Len(s)
      <4>1. l > Len(s) /\ l - Len(s) \in 1 .. Len(t)
        BY <2>1, <2>9, <3>2, Joined
      <4>2. l = off[n + 1] + (l - Len(s)) /\ n + 1 \in 1 .. n + 1
        BY <2>2, <2>9, <4>1
      <4> QED
        BY <4>1, <4>2 DEF t
    <3> QED
      BY <3>1, <3>2
  <2> QED
    BY <2>1, <2>6, <2>7, <2>10
<1> HIDE DEF S
<1>8. \A n \in 0 .. N : n \in S
  <2>1. \A n \in 0 .. N - 1 : n \in S => n + 1 \in S
    BY <1>7
  <2> QED
    BY <1>0, <1>6, <2>1, UpTo
<1>9. \A n \in 0 .. N : Within(n) /\ Found(n) /\ All(n)
  BY <1>8 DEF S
<1>10. N \in 0 .. N
  BY <1>0
<1>11. FlattenSeq(seqs) = F[N] /\ DOMAIN F[N] = 1 .. Len(F[N]) /\ F[N] \in Seq(T) /\ Len(F[N]) \in Nat
  BY <1>1, <1>3, <1>10 DEF N
<1>12. \A n \in 1 .. N : DOMAIN seqs[n] = 1 .. Len(seqs[n]) /\ Len(seqs[n]) \in Nat /\ off[n] \in Nat
  BY <1>0, <1>5
<1>13. Places(F[N], seqs, off)
  <2>1. ASSUME NEW n \in 1 .. N, NEW k \in 1 .. Len(seqs[n])
        PROVE  off[n] + k \in 1 .. Len(F[N]) /\ F[N][off[n] + k] = seqs[n][k]
    <3>1. off[n] + Len(seqs[n]) <= Len(F[N])
      BY <1>9, <1>10
    <3>2. F[N][off[n] + k] = seqs[n][k]
      BY <1>9, <1>10
    <3> QED
      BY <1>11, <1>12, <3>1, <3>2
  <2>2. ASSUME NEW l \in 1 .. Len(F[N])
        PROVE  \E n \in 1 .. N : \E k \in 1 .. Len(seqs[n]) : l = off[n] + k
    BY <1>9, <1>10
  <2>3. ASSUME NEW m \in 1 .. N, NEW n \in 1 .. N, m < n PROVE off[m] + Len(seqs[m]) <= off[n]
    <3> DEFINE p == n - 1
    <3>1. p \in 0 .. N - 1 /\ p \in 0 .. N /\ m \in 1 .. p /\ p + 1 = n
      BY <1>0, <2>3
    <3> HIDE DEF p
    <3>2. off[m] + Len(seqs[m]) <= Len(F[p])
      BY <1>9, <3>1
    <3>3. off[p + 1] = Len(F[p])
      BY <1>4, <3>1
    <3> QED
      BY <3>1, <3>2, <3>3
  <2> HIDE DEF Within, Found, All
  <2>4. \A n \in DOMAIN seqs : \A k \in DOMAIN seqs[n] :
          off[n] + k \in DOMAIN F[N] /\ F[N][off[n] + k] = seqs[n][k]
    BY <1>0, <1>11, <1>12, <2>1
  <2>5. \A l \in DOMAIN F[N] : \E n \in DOMAIN seqs : \E k \in DOMAIN seqs[n] : l = off[n] + k
    <3>1. DOMAIN F[N] = 1 .. Len(F[N]) /\ DOMAIN seqs = 1 .. N
      BY <1>0, <1>11
    <3>2. \A n \in 1 .. N : DOMAIN seqs[n] = 1 .. Len(seqs[n])
      BY <1>12
    <3> QED
      BY <2>2, <3>1, <3>2
  <2>6. \A m, n \in DOMAIN seqs : m < n => off[m] + Len(seqs[m]) <= off[n]
    BY <1>0, <2>3
  <2> QED
    BY <2>4, <2>5, <2>6 DEF Places
<1> QED
  BY <1>0, <1>5, <1>11, <1>13

(* Concatenation is associative.                                           *)
LEMMA Assoc ==
  ASSUME NEW T, NEW a \in Seq(T), NEW b \in Seq(T), NEW c \in Seq(T)
  PROVE  (a \o b) \o c = a \o (b \o c)
  OBVIOUS

(* A rest of a sequence stays what it is with an element put in front.     *)
LEMMA SubSeqAfter ==
  ASSUME NEW T, NEW x \in T, NEW s \in Seq(T), NEW n \in 1 .. Len(s)
  PROVE  SubSeq(<<x>> \o s, n + 1, Len(s) + 1) = SubSeq(s, n, Len(s))
<1> DEFINE r == <<x>> \o s
           m == n + 1
<1>1. r \in Seq(T) /\ Len(r) = Len(s) + 1 /\ Len(s) \in Nat /\ \A i \in 1 .. Len(s) : r[i + 1] = s[i]
  OBVIOUS
<1>2. m \in 1 .. Len(r) + 1 /\ Len(r) \in Nat /\ Len(r) - m + 1 = Len(s) - n + 1 /\ m <= Len(r)
  BY <1>1
<1>3. /\ SubSeq(s, n, Len(s)) \in Seq(T) /\ Len(SubSeq(s, n, Len(s))) = Len(s) - n + 1
      /\ \A i \in 1 .. Len(s) - n + 1 : SubSeq(s, n, Len(s))[i] = s[n + i - 1]
  BY <1>1, SubSeqProperties
<1> HIDE DEF r, m
<1>4. /\ SubSeq(r, m, Len(r)) \in Seq(T) /\ Len(SubSeq(r, m, Len(r))) = Len(r) - m + 1
      /\ \A i \in 1 .. Len(r) - m + 1 : SubSeq(r, m, Len(r))[i] = r[m + i - 1]
  BY <1>1, <1>2, SubSeqProperties
<1>5. ASSUME NEW i \in 1 .. Len(s) - n + 1 PROVE r[m + i - 1] = s[n + i - 1]
  <2>1. n + i - 1 \in 1 .. Len(s) /\ m + i - 1 = (n + i - 1) + 1
    BY <1>1 DEF m
  <2> QED
    BY <1>1, <2>1
<1>6. SubSeq(r, m, Len(r)) = SubSeq(s, n, Len(s))
  <2> DEFINE a == SubSeq(r, m, Len(r))
             b == SubSeq(s, n, Len(s))
  <2>1. a \in Seq(T) /\ b \in Seq(T) /\ Len(a) = Len(b)
    BY <1>2, <1>3, <1>4
  <2>2. \A i \in 1 .. Len(a) : a[i] = b[i]
    BY <1>2, <1>3, <1>4, <1>5
  <2> HIDE DEF a, b
  <2>3. a = b
    BY <2>1, <2>2, SeqEqual
  <2> QED
    BY <2>3 DEF a, b
<1> QED
  BY <1>1, <1>6 DEF r, m

(* FlattenSeq of a sequence of sequences with one more in front.           *)
LEMMA FlatCons ==
  ASSUME NEW T, NEW x \in Seq(T), NEW s \in Seq(Seq(T))
  PROVE  FlattenSeq(<<x>> \o s) = x \o FlattenSeq(s)
<1> DEFINE N == Len(s)
           r == <<x>> \o s
<1>1. /\ r \in Seq(Seq(T)) /\ Len(r) = N + 1 /\ N \in Nat
      /\ r[1] = x /\ \A n \in 1 .. N : r[n + 1] = s[n] /\ s[n] \in Seq(T)
  OBVIOUS
<1>2. PICK F \in [0 .. N -> Seq(T)] : Joins(F, s) /\ FlattenSeq(s) = F[N]
  BY Flattened
<1> HIDE DEF r
<1>3. PICK G \in [0 .. N + 1 -> Seq(T)] : Joins(G, r) /\ FlattenSeq(r) = G[N + 1]
  BY <1>1, Flattened
<1>4. F[0] = <<>> /\ \A n \in 0 .. N - 1 : F[n + 1] = F[n] \o s[n + 1]
  BY <1>2 DEF Joins
<1>5. G[0] = <<>> /\ \A n \in 0 .. N : G[n + 1] = G[n] \o r[n + 1]
  <2>1. Len(r) - 1 = N
    BY <1>1
  <2> QED
    BY <1>3, <2>1 DEF Joins
<1> HIDE DEF N
<1> DEFINE S == {n \in 0 .. N : G[n + 1] = x \o F[n]}
<1>6. 0 \in S
  <2> DEFINE z == 0
  <2>1. z \in 0 .. N /\ z + 1 = 1
    BY <1>1
  <2> HIDE DEF z
  <2>2. G[z + 1] = G[z] \o r[z + 1]
    BY <1>5, <2>1
  <2>3. G[1] = G[z] \o r[1]
    BY <2>1, <2>2, Zenon
  <2>4. G[1] = <<>> \o x
    BY <1>1, <1>5, <2>3 DEF z
  <2>5. <<>> \o x = x /\ x \o <<>> = x
    BY ConcatEmptySeq
  <2>6. G[z + 1] = x \o F[z]
    BY <1>4, <2>1, <2>4, <2>5 DEF z
  <2>7. z \in S
    BY <2>1, <2>6
  <2> QED
    BY <2>7 DEF z
<1>7. ASSUME NEW n \in 0 .. N - 1, n \in S PROVE n + 1 \in S
  <2>1. n + 1 \in 0 .. N /\ n + 1 \in 1 .. N /\ n \in 0 .. N
    BY <1>1
  <2> DEFINE m == n + 1
  <2>2. m \in 0 .. N /\ G[m] = x \o F[n] /\ F[m] = F[n] \o s[m] /\ r[m + 1] = s[m]
    BY <1>1, <1>4, <1>7, <2>1
  <2>3. F[n] \in Seq(T) /\ s[m] \in Seq(T)
    BY <1>1, <2>1
  <2> HIDE DEF m
  <2>4. G[m + 1] = G[m] \o r[m + 1]
    BY <1>5, <2>2
  <2>5. G[m + 1] = (x \o F[n]) \o s[m]
    BY <2>2, <2>4
  <2>6. G[m + 1] = x \o F[m]
    <3>1. (x \o F[n]) \o s[m] = x \o (F[n] \o s[m])
      <4>1. x \in Seq(T) /\ F[n] \in Seq(T)
        BY <2>3
      <4>2. s[m] \in Seq(T)
        BY <2>3
      <4> DEFINE p == F[n]
                 q == s[m]
      <4>3. x \in Seq(T) /\ p \in Seq(T) /\ q \in Seq(T)
        BY <4>1, <4>2
      <4> HIDE DEF p, q
      <4>4. (x \o p) \o q = x \o (p \o q)
        BY <4>3, Assoc
      <4> QED
        BY <4>4 DEF p, q
    <3> QED
      BY <2>2, <2>5, <3>1
  <2>7. m \in S
    BY <2>2, <2>6
  <2> QED
    BY <2>7 DEF m
<1> HIDE DEF S
<1>8. \A n \in 0 .. N : n \in S
  <2>1. \A n \in 0 .. N - 1 : n \in S => n + 1 \in S
    BY <1>7
  <2> QED
    BY <1>1, <1>6, <2>1, UpTo
<1>9. G[N + 1] = x \o F[N]
  BY <1>1, <1>8 DEF S
<1> QED
  BY <1>2, <1>3, <1>9 DEF r

(* FlattenSeq of one sequence.                                             *)
LEMMA FlatOne ==
  ASSUME NEW T, NEW x \in Seq(T) PROVE FlattenSeq(<<x>>) = x
<1>1. <<x>> \o <<>> = <<x>> /\ <<>> \in Seq(Seq(T))
  OBVIOUS
<1>2. FlattenSeq(<<>>) = <<>>
  BY DEF FlattenSeq
<1>3. x \o <<>> = x
  BY ConcatEmptySeq
<1> QED
  BY <1>1, <1>2, <1>3, FlatCons

-----------------------------------------------------------------------------
KeySeqs == Seq(Keys) \ {<<>>}

FirstKey(keys) ==
  CHOOSE n \in 1 .. Len(keys) : /\ keys[n] # Empty \/ n = Len(keys)
                                /\ \A m \in 1 .. n - 1 : keys[m] = Empty

(* The first key that counts exists.                                       *)
LEMMA FirstExists ==
  ASSUME NEW keys \in KeySeqs
  PROVE  /\ FirstKey(keys) \in 1 .. Len(keys)
         /\ keys[FirstKey(keys)] # Empty \/ FirstKey(keys) = Len(keys)
         /\ \A m \in 1 .. FirstKey(keys) - 1 : keys[m] = Empty
<1> DEFINE S == {n \in 1 .. Len(keys) : keys[n] # Empty \/ n = Len(keys)}
<1>1. Len(keys) \in S /\ S \in SUBSET Nat
  BY DEF KeySeqs
<1>2. PICK n \in S : \A m \in S : n <= m
  BY <1>1, Least
<1>3. \A m \in 1 .. n - 1 : keys[m] = Empty
  <2> SUFFICES ASSUME NEW m \in 1 .. n - 1, keys[m] # Empty PROVE FALSE
    OBVIOUS
  <2>1. m \in S
    BY <1>1, <1>2
  <2> QED
    BY <1>1, <1>2, <2>1
<1>4. n \in 1 .. Len(keys) /\ (keys[n] # Empty \/ n = Len(keys))
  BY <1>2
<1> QED
  BY <1>3, <1>4 DEF FirstKey

(* There is one first key that counts.                                     *)
LEMMA FirstOnly ==
  ASSUME NEW keys \in KeySeqs, NEW n \in 1 .. Len(keys), keys[n] # Empty \/ n = Len(keys),
         \A m \in 1 .. n - 1 : keys[m] = Empty
  PROVE  FirstKey(keys) = n
<1> DEFINE f == FirstKey(keys)
<1>1. /\ f \in 1 .. Len(keys) /\ (keys[f] # Empty \/ f = Len(keys))
      /\ \A m \in 1 .. f - 1 : keys[m] = Empty
  BY FirstExists
<1>2. Len(keys) \in Nat
  BY DEF KeySeqs
<1> HIDE DEF f
<1>3. ~(f < n) /\ ~(n < f)
  BY <1>1, <1>2
<1>4. f = n
  BY <1>1, <1>2, <1>3
<1> QED
  BY <1>4 DEF f

(* Name, with the key it begins at by its name here.                       *)
LEMMA NameIs ==
  ASSUME NEW keys \in KeySeqs
  PROVE  Name(keys) = FlattenSeq(SubSeq(keys, FirstKey(keys), Len(keys)))
  BY DEF Name, FirstKey

(* The name a single key makes.                                            *)
LEMMA NameOne ==
  ASSUME NEW key \in Keys PROVE Name(<<key>>) = key
<1>1. <<key>> \in KeySeqs /\ Len(<<key>>) = 1 /\ key \in Seq(STRING)
  BY RedisAssumption DEF KeySeqs
<1>2. FirstKey(<<key>>) = 1
  BY <1>1, FirstExists
<1>3. SubSeq(<<key>>, 1, 1) = <<key>>
  BY <1>1, SubSeqFull DEF KeySeqs
<1> QED
  BY <1>1, <1>2, <1>3, NameIs, FlatOne

(* An empty key in front of others adds nothing to the name; another key   *)
(* comes before all of them.                                               *)
LEMMA NameMore ==
  ASSUME NEW key \in Keys, NEW rest \in KeySeqs
  PROVE  Name(<<key>> \o rest) = IF key = Empty THEN Name(rest) ELSE key \o FlattenSeq(rest)
<1> DEFINE keys == <<key>> \o rest
<1>1. /\ keys \in KeySeqs /\ Len(keys) = Len(rest) + 1 /\ Len(rest) \in Nat /\ Len(rest) # 0
      /\ keys[1] = key /\ \A n \in 1 .. Len(rest) : keys[n + 1] = rest[n]
      /\ key \in Seq(STRING) /\ rest \in Seq(Seq(STRING))
      /\ \A n \in 1 .. Len(rest) : rest[n] \in Keys
  BY RedisAssumption DEF KeySeqs
<1>2. CASE key # Empty
  <2>1. FirstKey(keys) = 1
    <3>1. 1 \in 1 .. Len(keys) /\ \A m \in 1 .. 1 - 1 : keys[m] = Empty
      BY <1>1
    <3> HIDE DEF keys
    <3> QED
      BY <1>1, <1>2, <3>1, FirstOnly
  <2>2. SubSeq(keys, 1, Len(keys)) = keys
    <3> HIDE DEF keys
    <3> QED
      BY <1>1 DEF KeySeqs
  <2>3. Name(keys) = FlattenSeq(keys)
    BY <1>1, <2>1, <2>2, NameIs
  <2> QED
    BY <1>1, <1>2, <2>3, FlatCons
<1>3. CASE key = Empty
  <2> DEFINE f == FirstKey(rest)
  <2>1. /\ f \in 1 .. Len(rest) /\ (rest[f] # Empty \/ f = Len(rest))
        /\ \A m \in 1 .. f - 1 : rest[m] = Empty
    BY FirstExists
  <2> HIDE DEF f, keys
  <2>2. FirstKey(keys) = f + 1
    <3>1. f + 1 \in 1 .. Len(keys) /\ (keys[f + 1] # Empty \/ f + 1 = Len(keys))
      BY <1>1, <2>1
    <3>2. ASSUME NEW m \in 1 .. f PROVE keys[m] = Empty
      <4>1. CASE m = 1
        BY <1>1, <1>3, <4>1
      <4>2. CASE m # 1
        <5> DEFINE p == m - 1
        <5>1. p \in 1 .. f - 1 /\ p \in 1 .. Len(rest) /\ m = p + 1
          BY <1>1, <2>1, <4>2
        <5> HIDE DEF p
        <5> QED
          BY <1>1, <2>1, <5>1
      <4> QED
        BY <4>1, <4>2
    <3> DEFINE g == f + 1
    <3>3. /\ g \in 1 .. Len(keys) /\ (keys[g] # Empty \/ g = Len(keys))
          /\ g - 1 = f
      BY <2>1, <3>1
    <3> HIDE DEF g
    <3>4. \A m \in 1 .. g - 1 : keys[m] = Empty
      BY <3>2, <3>3
    <3>5. FirstKey(keys) = g
      BY <1>1, <3>3, <3>4, FirstOnly
    <3> QED
      BY <3>5 DEF g
  <2>3. SubSeq(keys, f + 1, Len(keys)) = SubSeq(rest, f, Len(rest))
    <3>1. rest \in Seq(Keys)
      BY DEF KeySeqs
    <3> QED
      BY <1>1, <2>1, <3>1, SubSeqAfter DEF keys
  <2>4. Name(keys) = Name(rest)
    BY <1>1, <2>2, <2>3, NameIs DEF f
  <2> QED
    BY <1>3, <2>4 DEF keys
<1> QED
  BY <1>2, <1>3

-----------------------------------------------------------------------------
(* What the assumption says of one value.                                  *)
LEMMA ValueFields ==
  ASSUME NEW value \in Values
  PROVE  /\ value.fields \in Seq(Keys \X Values)
         /\ Len(value.fields) \in 0 .. MaxFields /\ DOMAIN value.fields = 1 .. Len(value.fields)
         /\ Depth[value] \in 0 .. MaxDepth
         /\ \A n \in DOMAIN value.fields :
              /\ value.fields[n][1] \in Keys /\ value.fields[n][1] \in Seq(STRING)
              /\ value.fields[n][2] \in Values
              /\ Depth[value.fields[n][2]] < Depth[value]
         /\ ~IsObject(value) => value.scalar \in Kinds /\ value.fields = <<>>
<1>1. Depth[value] \in 0 .. MaxDepth
  BY RedisAssumption
<1>2. CASE value.scalar \in Kinds /\ value = Scalar(value.scalar)
  <2>1. value.fields = <<>>
    BY <1>2 DEF Scalar
  <2> QED
    BY <1>1, <1>2, <2>1, RedisAssumption
<1>3. CASE /\ value = Object(value.fields)
           /\ value.fields \in Seq(Keys \X Values) /\ Len(value.fields) <= MaxFields
           /\ \A n \in DOMAIN value.fields : Depth[value.fields[n][2]] < Depth[value]
  <2>1. IsObject(value)
    BY <1>3 DEF Object, IsObject
  <2>2. \A n \in DOMAIN value.fields : value.fields[n] \in Keys \X Values
    BY <1>3
  <2> QED
    BY <1>1, <1>3, <2>1, <2>2, RedisAssumption
<1> QED
  BY <1>2, <1>3, RedisAssumption

(* A key with a prefix is a sequence of parts.                             *)
LEMMA PrefixedType ==
  ASSUME NEW prefix \in Seq(STRING), NEW key \in Seq(STRING)
  PROVE  Prefixed(prefix, key) \in Seq(STRING)
<1>1. prefix \o key \in Seq(STRING)
  BY Joined, Zenon
<1> QED
  BY <1>1 DEF Prefixed

(* One round of objectToArray: what it makes of a value if f is what it    *)
(* makes of the values in that one.                                        *)
Calls == Values \X Seq(STRING)
Pair == Seq(STRING) \X {Stringify(kind) : kind \in Kinds}
Part(f, value, prefix, n) ==
  LET key == Prefixed(prefix, value.fields[n][1])
  IN  IF IsObject(value.fields[n][2]) THEN f[<<value.fields[n][2], key>>]
                                      ELSE <<<<key, Stringify(value.fields[n][2].scalar)>>>>
Parts(f, value, prefix) == [n \in DOMAIN value.fields |-> Part(f, value, prefix, n)]
Round(f) == [call \in Calls |-> FlattenSeq(Parts(f, call[1], call[2]))]

(* What objectToArray makes of each field is a sequence of pairs.          *)
LEMMA PartsType ==
  ASSUME NEW value \in Values, NEW prefix \in Seq(STRING), NEW f \in [Calls -> Seq(Pair)]
  PROVE  Parts(f, value, prefix) \in Seq(Seq(Pair))
<1>1. ASSUME NEW n \in 1 .. Len(value.fields) PROVE Part(f, value, prefix, n) \in Seq(Pair)
  <2> DEFINE w == value.fields[n][2]
             key == Prefixed(prefix, value.fields[n][1])
  <2>1. w \in Values /\ key \in Seq(STRING)
    BY ValueFields, PrefixedType
  <2>2. CASE IsObject(w)
    <3>1. <<w, key>> \in Calls
      BY <2>1 DEF Calls
    <3>2. f[<<w, key>>] \in Seq(Pair)
      BY <3>1
    <3> QED
      BY <2>2, <3>2 DEF Part
  <2>3. CASE ~IsObject(w)
    <3>1. w.scalar \in Kinds
      BY <2>1, <2>3, ValueFields
    <3>2. Stringify(w.scalar) \in {Stringify(kind) : kind \in Kinds}
      BY <3>1
    <3>3. <<<<key, Stringify(w.scalar)>>>> \in Seq(Pair)
      <4> HIDE DEF w, key
      <4> QED
        BY <2>1, <3>2 DEF Pair
    <3> QED
      BY <2>3, <3>3 DEF Part
  <2> QED
    BY <2>2, <2>3
<1>2. DOMAIN value.fields = 1 .. Len(value.fields) /\ Len(value.fields) \in Nat
  BY ValueFields, RedisAssumption
<1> QED
  BY <1>1, <1>2 DEF Parts

(* A round makes sequences of pairs of sequences of pairs.                 *)
LEMMA RoundType ==
  ASSUME NEW f \in [Calls -> Seq(Pair)] PROVE Round(f) \in [Calls -> Seq(Pair)]
<1> SUFFICES ASSUME NEW call \in Calls
             PROVE  FlattenSeq(Parts(f, call[1], call[2])) \in Seq(Pair)
  BY DEF Round
<1>1. call[1] \in Values /\ call[2] \in Seq(STRING)
  BY DEF Calls
<1> QED
  BY <1>1, PartsType, FlatPlaces

(* A round looks at the values inside a value only.                        *)
LEMMA RoundLocal ==
  ASSUME NEW f, NEW g, NEW value \in Values, NEW prefix \in Seq(STRING),
         \A w \in Values, key \in Seq(STRING) :
           Depth[w] < Depth[value] => f[<<w, key>>] = g[<<w, key>>]
  PROVE  Round(f)[<<value, prefix>>] = Round(g)[<<value, prefix>>]
<1>1. ASSUME NEW n \in DOMAIN value.fields PROVE Part(f, value, prefix, n) = Part(g, value, prefix, n)
  <2> DEFINE w == value.fields[n][2]
             key == Prefixed(prefix, value.fields[n][1])
  <2>1. w \in Values /\ key \in Seq(STRING) /\ Depth[w] < Depth[value]
    BY ValueFields, PrefixedType
  <2>2. f[<<w, key>>] = g[<<w, key>>]
    <3> HIDE DEF w, key
    <3> QED
      BY <2>1
  <2> QED
    BY <2>2 DEF Part
<1>2. Parts(f, value, prefix) = Parts(g, value, prefix)
  BY <1>1 DEF Parts
<1>3. <<value, prefix>> \in Calls
  BY DEF Calls
<1> QED
  BY <1>2, <1>3 DEF Round

(* After as many rounds as values are deep another one changes nothing.    *)
LEMMA RoundsMeet ==
  \E f \in [Calls -> Seq(Pair)] : f = Round(f)
<1> DEFINE X == [Calls -> Seq(Pair)]
           N == MaxDepth + 2
           first == [call \in Calls |-> <<>>]
           step == [p \in (1 .. N) \X X |-> Round(p[2])]
<1>1. first \in X /\ step \in [(1 .. N) \X X -> X] /\ N \in Nat /\ MaxDepth \in Nat
  BY RoundType, RedisAssumption
<1> HIDE DEF first
<1>2. PICK F \in [0 .. N -> X] : Recurs(F, N, first, step)
  <2> HIDE DEF X, N, step
  <2> QED
    BY <1>1, Recursion
<1>3. \A n \in 0 .. N - 1 : F[n + 1] = Round(F[n])
  <2> SUFFICES ASSUME NEW n \in 0 .. N - 1 PROVE F[n + 1] = Round(F[n])
    OBVIOUS
  <2>1. n + 1 \in 1 .. N /\ n + 1 - 1 = n /\ F[n] \in X
    BY <1>1
  <2>2. F[n + 1] = step[<<n + 1, F[n]>>]
    <3> HIDE DEF step, N
    <3> QED
      BY <1>2, <2>1 DEF Recurs
  <2> HIDE DEF X, N
  <2> QED
    BY <2>1, <2>2
<1> DEFINE Same(f, g, n) == \A w \in Values, key \in Seq(STRING) :
                              Depth[w] < n => f[<<w, key>>] = g[<<w, key>>]
           S == {n \in 0 .. MaxDepth + 1 : Same(F[n], F[n + 1], n)}
<1>4. 0 \in S
  BY <1>1, ValueFields
<1>5. ASSUME NEW n \in 0 .. MaxDepth + 1 - 1, n \in S PROVE n + 1 \in S
  <2>1. /\ n \in 0 .. N - 1 /\ n + 1 \in 0 .. N - 1 /\ n + 1 \in 0 .. MaxDepth + 1
        /\ Same(F[n], F[n + 1], n)
    BY <1>1, <1>5
  <2>2. ASSUME NEW w \in Values, NEW key \in Seq(STRING), Depth[w] < n + 1
        PROVE  Round(F[n])[<<w, key>>] = Round(F[n + 1])[<<w, key>>]
    <3>1. ASSUME NEW u \in Values, NEW k \in Seq(STRING), Depth[u] < Depth[w]
          PROVE  F[n][<<u, k>>] = F[n + 1][<<u, k>>]
      <4>1. Depth[u] < n
        BY <1>1, <2>2, <3>1, ValueFields
      <4> QED
        BY <2>1, <4>1
    <3> QED
      BY <3>1, RoundLocal
  <2>3. F[n + 1] = Round(F[n])
    BY <1>3, <2>1
  <2>4. F[n + 1 + 1] = Round(F[n + 1])
    <3> DEFINE m == n + 1
    <3> HIDE DEF m
    <3>1. F[m + 1] = Round(F[m])
      BY <1>3, <2>1 DEF m
    <3> QED
      BY <3>1 DEF m
  <2>5. Same(F[n + 1], F[n + 1 + 1], n + 1)
    BY <2>2, <2>3, <2>4
  <2> QED
    BY <2>1, <2>5
<1> HIDE DEF S
<1>6. \A n \in 0 .. MaxDepth + 1 : n \in S
  <2> DEFINE M == MaxDepth + 1
  <2>1. M \in Nat /\ \A n \in 0 .. M - 1 : n \in S => n + 1 \in S
    BY <1>1, <1>5
  <2> HIDE DEF M
  <2>2. \A n \in 0 .. M : n \in S
    BY <1>4, <2>1, UpTo
  <2> QED
    BY <2>2 DEF M
<1> DEFINE M == MaxDepth + 1
<1>7. M \in 0 .. N - 1 /\ M \in 0 .. MaxDepth + 1 /\ F[M] \in X /\ \A w \in Values : Depth[w] < M
  BY <1>1, ValueFields
<1> HIDE DEF M
<1>8. Same(F[M], F[M + 1], M) /\ F[M + 1] = Round(F[M])
  BY <1>3, <1>6, <1>7 DEF S
<1>9. F[M] = Round(F[M])
  <2>1. F[M] \in [Calls -> Seq(Pair)] /\ Round(F[M]) \in [Calls -> Seq(Pair)]
    BY <1>7, RoundType
  <2>2. ASSUME NEW call \in Calls PROVE F[M][call] = Round(F[M])[call]
    <3>1. call[1] \in Values /\ call[2] \in Seq(STRING) /\ call = <<call[1], call[2]>>
      BY DEF Calls
    <3>2. F[M][<<call[1], call[2]>>] = F[M + 1][<<call[1], call[2]>>]
      BY <1>7, <1>8, <3>1
    <3> QED
      BY <1>8, <3>1, <3>2
  <2> QED
    BY <2>1, <2>2
<1> QED
  BY <1>7, <1>9

(* ObjectToArray is what the rounds come to.                               *)
LEMMA ToArrayMeets ==
  ObjectToArray \in [Calls -> Seq(Pair)] /\ ObjectToArray = Round(ObjectToArray)
<1> DEFINE c == CHOOSE f : f = Round(f)
<1>1. ObjectToArray = c
  BY DEF ObjectToArray, Round, Parts, Part, Calls
<1>2. PICK g \in [Calls -> Seq(Pair)] : g = Round(g)
  BY RoundsMeet
<1>3. c = Round(c)
  BY <1>2
<1> HIDE DEF c
<1> DEFINE S == {n \in 0 .. MaxDepth + 1 : \A w \in Values, key \in Seq(STRING) :
                    Depth[w] < n => c[<<w, key>>] = g[<<w, key>>]}
<1>4. MaxDepth \in Nat /\ \A w \in Values : Depth[w] \in 0 .. MaxDepth
  BY RedisAssumption
<1>5. 0 \in S
  BY <1>4
<1>6. ASSUME NEW n \in 0 .. MaxDepth + 1 - 1, n \in S PROVE n + 1 \in S
  <2>1. ASSUME NEW w \in Values, NEW key \in Seq(STRING), Depth[w] < n + 1
        PROVE  c[<<w, key>>] = g[<<w, key>>]
    <3>1. ASSUME NEW u \in Values, NEW k \in Seq(STRING), Depth[u] < Depth[w]
          PROVE  c[<<u, k>>] = g[<<u, k>>]
      <4>1. Depth[u] < n
        BY <1>4, <2>1, <3>1
      <4> QED
        BY <1>6, <4>1
    <3>2. Round(c)[<<w, key>>] = Round(g)[<<w, key>>]
      BY <3>1, RoundLocal
    <3> QED
      BY <1>2, <1>3, <3>2
  <2>2. n + 1 \in 0 .. MaxDepth + 1
    BY <1>4
  <2> QED
    BY <2>1, <2>2
<1> HIDE DEF S
<1>7. \A n \in 0 .. MaxDepth + 1 : n \in S
  <2> DEFINE M == MaxDepth + 1
  <2>1. M \in Nat /\ \A n \in 0 .. M - 1 : n \in S => n + 1 \in S
    BY <1>4, <1>6
  <2> HIDE DEF M
  <2>2. \A n \in 0 .. M : n \in S
    BY <1>5, <2>1, UpTo
  <2> QED
    BY <2>2 DEF M
<1>8. ASSUME NEW w \in Values, NEW key \in Seq(STRING) PROVE c[<<w, key>>] = g[<<w, key>>]
  <2>1. MaxDepth + 1 \in S /\ Depth[w] < MaxDepth + 1
    BY <1>4, <1>7
  <2> QED
    BY <2>1 DEF S
<1>9. c = g
  <2>1. ASSUME NEW call \in Calls PROVE c[call] = g[call]
    <3>1. call[1] \in Values /\ call[2] \in Seq(STRING) /\ call = <<call[1], call[2]>>
      BY DEF Calls
    <3>2. c[<<call[1], call[2]>>] = g[<<call[1], call[2]>>]
      BY <1>8, <3>1
    <3> QED
      BY <3>1, <3>2
  <2>2. c = [call \in Calls |-> c[call]] /\ g = [call \in Calls |-> g[call]]
    <3>1. Round(c) = [call \in Calls |-> Round(c)[call]]
      BY DEF Round
    <3> QED
      BY <1>3, <3>1
  <2> QED
    BY <2>1, <2>2
<1> QED
  BY <1>1, <1>2, <1>9

(* What objectToArray makes of a value and what it makes of its fields.    *)
Pieces(value, prefix) == Parts(ObjectToArray, value, prefix)

(* ObjectToArray of a value is made of the pieces of its fields.           *)
LEMMA ToArray ==
  ASSUME NEW value \in Values, NEW prefix \in Seq(STRING)
  PROVE  /\ ObjectToArray[<<value, prefix>>] = FlattenSeq(Pieces(value, prefix))
         /\ Pieces(value, prefix) \in Seq(Seq(Pair))
         /\ DOMAIN Pieces(value, prefix) = DOMAIN value.fields
         /\ \A n \in DOMAIN value.fields :
              Pieces(value, prefix)[n] = Part(ObjectToArray, value, prefix, n)
<1>1. <<value, prefix>> \in Calls
  BY DEF Calls
<1>2. ObjectToArray[<<value, prefix>>] = FlattenSeq(Pieces(value, prefix))
  <2>1. Round(ObjectToArray)[<<value, prefix>>] = FlattenSeq(Parts(ObjectToArray, value, prefix))
    BY <1>1 DEF Round
  <2> QED
    BY <2>1, ToArrayMeets DEF Pieces
<1> QED
  BY <1>2, ToArrayMeets, PartsType DEF Pieces, Parts

-----------------------------------------------------------------------------
Paths == Seq(Nat)
Lost == Object(<<>>)
Child(value, i) == IF i \in DOMAIN value.fields THEN value.fields[i][2] ELSE Lost

(* Off the object there is nothing.                                        *)
LEMMA LostHasNone == Lost.fields = <<>> /\ IsObject(Lost) /\ \A i : Child(Lost, i) = Lost
<1>1. Lost.fields = <<>> /\ DOMAIN <<>> = {}
  BY DEF Lost, Object
<1> QED
  BY <1>1 DEF Child, Lost, Object, IsObject

(* What is in a field is a value, or lost.                                 *)
LEMMA ChildType ==
  ASSUME NEW value \in Values \cup {Lost}, NEW i PROVE Child(value, i) \in Values \cup {Lost}
<1>1. CASE value \in Values
  BY <1>1, ValueFields DEF Child
<1>2. CASE value = Lost
  BY <1>2, LostHasNone
<1> QED
  BY <1>1, <1>2

(* Along a path each value is the child of the one before.                 *)
LEMMA AlongIs ==
  ASSUME NEW value \in Values, NEW path \in Paths
  PROVE  /\ Along(value, path) \in [0 .. Len(path) -> Values \cup {Lost}]
         /\ Along(value, path)[0] = value
         /\ \A n \in 0 .. Len(path) - 1 :
              Along(value, path)[n + 1] = Child(Along(value, path)[n], path[n + 1])
<1> DEFINE N == Len(path)
           X == Values \cup {Lost}
           step == [p \in (1 .. N) \X X |-> Child(p[2], path[p[1]])]
           way(v) == [n \in 0 .. N |->
                        IF n = 0 THEN value
                        ELSE IF path[n] \in DOMAIN v[n - 1].fields THEN v[n - 1].fields[path[n]][2]
                             ELSE Object(<<>>)]
           a == CHOOSE v : v = way(v)
<1>0. N \in Nat
  BY DEF Paths
<1>1. Along(value, path) = a
  BY DEF Along
<1>2. PICK F \in [0 .. N -> X] : Recurs(F, N, value, step)
  <2>1. value \in X /\ step \in [(1 .. N) \X X -> X]
    BY ChildType
  <2> HIDE DEF step, N, X
  <2> QED
    BY <1>0, <2>1, Recursion
<1>3. \A n \in 1 .. N : F[n] = Child(F[n - 1], path[n])
  <2> SUFFICES ASSUME NEW n \in 1 .. N PROVE F[n] = Child(F[n - 1], path[n])
    OBVIOUS
  <2>1. F[n] = step[<<n, F[n - 1]>>]
    BY <1>2 DEF Recurs
  <2>2. F[n - 1] \in X
    BY <1>0
  <2> QED
    BY <2>1, <2>2
<1>4. F = way(F)
  <2>1. ASSUME NEW n \in 0 .. N
        PROVE  F[n] = IF n = 0 THEN value
                      ELSE IF path[n] \in DOMAIN F[n - 1].fields THEN F[n - 1].fields[path[n]][2]
                           ELSE Object(<<>>)
    <3>1. CASE n = 0
      BY <1>2, <3>1 DEF Recurs
    <3>2. CASE n # 0
      <4>1. n \in 1 .. N
        BY <1>0, <3>2
      <4> QED
        BY <1>3, <3>2, <4>1 DEF Child, Lost
    <3> QED
      BY <3>1, <3>2
  <2> HIDE DEF N
  <2> QED
    BY <2>1
<1>5. a = way(a)
  <2> HIDE DEF way
  <2> QED
    BY <1>4
<1> HIDE DEF a
<1>6. a[0] = value
  BY <1>0, <1>5
<1>7. \A n \in 1 .. N : a[n] = Child(a[n - 1], path[n])
  <2> SUFFICES ASSUME NEW n \in 1 .. N PROVE a[n] = Child(a[n - 1], path[n])
    OBVIOUS
  <2>1. n \in 0 .. N /\ n # 0
    BY <1>0
  <2> QED
    BY <1>5, <2>1 DEF Child, Lost
<1>8. \A n \in 0 .. N - 1 : a[n + 1] = Child(a[n], path[n + 1])
  <2> SUFFICES ASSUME NEW n \in 0 .. N - 1 PROVE a[n + 1] = Child(a[n], path[n + 1])
    OBVIOUS
  <2> DEFINE m == n + 1
  <2>1. m \in 1 .. N /\ m - 1 = n
    BY <1>0
  <2> HIDE DEF m, N
  <2>2. a[m] = Child(a[m - 1], path[m])
    BY <1>7, <2>1
  <2>3. a[m] = Child(a[n], path[m])
    BY <2>1, <2>2
  <2> QED
    BY <2>3 DEF m
<1> HIDE DEF way
<1> DEFINE S == {n \in 0 .. N : a[n] \in X}
<1>9. 0 \in S
  BY <1>0, <1>6
<1>10. ASSUME NEW n \in 0 .. N - 1, n \in S PROVE n + 1 \in S
  <2>1. n + 1 \in 0 .. N /\ a[n] \in X
    BY <1>0, <1>10
  <2>2. a[n + 1] = Child(a[n], path[n + 1])
    BY <1>8
  <2> QED
    BY <2>1, <2>2, ChildType
<1>11. \A n \in 0 .. N : n \in S
  <2> HIDE DEF S, N
  <2>1. \A n \in 0 .. N - 1 : n \in S => n + 1 \in S
    BY <1>10
  <2> QED
    BY <1>0, <1>9, <2>1, UpTo
<1>12. a \in [0 .. N -> X]
  <2>1. a = [n \in 0 .. N |-> a[n]]
    BY <1>5 DEF way
  <2>2. \A n \in 0 .. N : a[n] \in X
    BY <1>11
  <2> HIDE DEF S, X, N
  <2> QED
    BY <2>1, <2>2
<1> QED
  BY <1>1, <1>6, <1>8, <1>12

(* Along a path that begins with field i, from its second value on, are    *)
(* the values along the rest of it from what is in field i.                *)
LEMMA AlongTail ==
  ASSUME NEW value \in Values, NEW i \in DOMAIN value.fields, NEW q \in Paths
  PROVE  \A n \in 0 .. Len(q) :
           Along(value, <<i>> \o q)[n + 1] = Along(value.fields[i][2], q)[n]
<1> DEFINE N == Len(q)
           p == <<i>> \o q
           w == value.fields[i][2]
           A == Along(value, p)
           B == Along(w, q)
<1>1. /\ p \in Paths /\ Len(p) = N + 1 /\ N \in Nat /\ p[1] = i
      /\ \A n \in 0 .. N - 1 : p[n + 2] = q[n + 1]
  BY ValueFields DEF Paths
<1>2. w \in Values
  BY ValueFields
<1> HIDE DEF p, w
<1>3. A[0] = value /\ \A n \in 0 .. N : A[n + 1] = Child(A[n], p[n + 1])
  <2>1. A[0] = value /\ \A n \in 0 .. Len(p) - 1 : A[n + 1] = Child(A[n], p[n + 1])
    BY <1>1, AlongIs
  <2>2. Len(p) - 1 = N
    BY <1>1
  <2> QED
    BY <2>1, <2>2
<1>4. B[0] = w /\ \A n \in 0 .. N - 1 : B[n + 1] = Child(B[n], q[n + 1])
  BY <1>2, AlongIs
<1> HIDE DEF A, B, N
<1> DEFINE S == {n \in 0 .. N : A[n + 1] = B[n]}
<1>5. 0 \in S
  <2> DEFINE z == 0
  <2>1. z \in 0 .. N /\ z + 1 = 1
    BY <1>1
  <2> HIDE DEF z
  <2>2. A[z + 1] = Child(A[z], p[z + 1])
    BY <1>3, <2>1
  <2>3. A[z + 1] = Child(A[z], p[1])
    BY <2>1, <2>2
  <2>4. A[z + 1] = w
    BY <1>1, <1>3, <2>3 DEF z, Child, w
  <2>5. z \in S
    BY <1>4, <2>1, <2>4 DEF z
  <2> QED
    BY <2>5 DEF z
<1>6. ASSUME NEW n \in 0 .. N - 1, n \in S PROVE n + 1 \in S
  <2> DEFINE m == n + 1
  <2>1. m \in 0 .. N /\ A[m] = B[n] /\ B[m] = Child(B[n], q[m]) /\ n + 2 = m + 1 /\ p[n + 2] = q[n + 1]
    BY <1>1, <1>4, <1>6
  <2>2. p[m + 1] = q[m]
    BY <2>1
  <2> HIDE DEF m
  <2>3. A[m + 1] = Child(A[m], p[m + 1])
    BY <1>3, <2>1
  <2>4. m \in S
    BY <2>1, <2>2, <2>3
  <2> QED
    BY <2>4 DEF m
<1> HIDE DEF S
<1>7. \A n \in 0 .. N : n \in S
  <2>1. \A n \in 0 .. N - 1 : n \in S => n + 1 \in S
    BY <1>6
  <2> QED
    BY <1>1, <1>5, <2>1, UpTo
<1> QED
  BY <1>7 DEF S, A, B, N, p, w

Leaves(value) == {p \in Positions : IsLeaf(value, p)}

(* A function on 1 .. n is a sequence.                                     *)
LEMMA FunctionSeq ==
  ASSUME NEW n \in Nat, NEW T, NEW f \in [1 .. n -> T] PROVE f \in Seq(T) /\ DOMAIN f = 1 .. n
<1> DEFINE s == [i \in 1 .. n |-> f[i]]
<1>1. s \in Seq(T)
  OBVIOUS
<1>2. f = s
  OBVIOUS
<1> QED
  BY <1>1, <1>2

(* Positions are the sequences within the two bounds.                      *)
LEMMA PositionsAre ==
  \A p : p \in Positions <=> p \in Seq(1 .. MaxFields) /\ Len(p) \in 1 .. MaxDepth
<1>1. ASSUME NEW p \in Positions PROVE p \in Seq(1 .. MaxFields) /\ Len(p) \in 1 .. MaxDepth
  <2>1. PICK n \in 1 .. MaxDepth : p \in [1 .. n -> 1 .. MaxFields]
    BY DEF Positions
  <2>2. n \in Nat
    BY RedisAssumption
  <2>3. p \in Seq(1 .. MaxFields) /\ DOMAIN p = 1 .. n
    BY <2>1, <2>2, FunctionSeq
  <2>4. Len(p) = n
    BY <2>2, <2>3, LenProperties
  <2> QED
    BY <2>3, <2>4
<1>2. ASSUME NEW p \in Seq(1 .. MaxFields), Len(p) \in 1 .. MaxDepth PROVE p \in Positions
  <2>1. p \in [1 .. Len(p) -> 1 .. MaxFields]
    BY LenProperties
  <2> QED
    BY <1>2, <2>1 DEF Positions
<1> QED
  BY <1>1, <1>2

(* Positions are paths, and have one step at least.                        *)
LEMMA PositionsPaths ==
  ASSUME NEW p \in Positions PROVE p \in Paths /\ Len(p) \in Nat \ {0}
<1>1. p \in Seq(1 .. MaxFields) /\ Len(p) \in 1 .. MaxDepth
  BY PositionsAre
<1>2. 1 .. MaxFields \subseteq Nat
  BY RedisAssumption
<1> QED
  BY <1>1, <1>2, RedisAssumption DEF Paths

(* A path that has missed a field once finds nothing further on.           *)
LEMMA StaysLost ==
  ASSUME NEW value \in Values, NEW p \in Paths, NEW n \in 0 .. Len(p),
         Along(value, p)[n] = Lost
  PROVE  Along(value, p)[Len(p)] = Lost
<1> DEFINE N == Len(p)
           A == Along(value, p)
           S == {m \in 0 .. N : m >= n => A[m] = Lost}
<1>0. N \in Nat
  BY DEF Paths
<1>1. \A m \in 0 .. N - 1 : A[m + 1] = Child(A[m], p[m + 1])
  BY AlongIs
<1>2. A[n] = Lost /\ n \in 0 .. N
  OBVIOUS
<1> HIDE DEF A, N
<1>3. 0 \in S
  <2>1. 0 >= n => n = 0
    BY <1>0, <1>2
  <2> QED
    BY <1>0, <1>2, <2>1
<1>4. ASSUME NEW m \in 0 .. N - 1, m \in S PROVE m + 1 \in S
  <2>1. m + 1 \in 0 .. N /\ A[m + 1] = Child(A[m], p[m + 1])
    BY <1>0, <1>1
  <2>2. CASE m >= n
    BY <1>4, <2>1, <2>2, LostHasNone
  <2>3. CASE ~(m >= n)
    <3>1. m + 1 >= n => m + 1 = n
      BY <1>0, <1>2, <2>3
    <3> QED
      BY <1>2, <2>1, <3>1
  <2> QED
    BY <2>2, <2>3
<1> HIDE DEF S
<1>5. N \in S
  <2>1. \A m \in 0 .. N - 1 : m \in S => m + 1 \in S
    BY <1>4
  <2>2. \A m \in 0 .. N : m \in S
    BY <1>0, <1>3, <2>1, UpTo
  <2> QED
    BY <1>0, <2>2
<1>6. A[N] = Lost
  BY <1>0, <1>2, <1>5 DEF S
<1> QED
  BY <1>6 DEF A, N

(* All along the path to a leaf are values, each in the one before.        *)
LEMMA LeafWay ==
  ASSUME NEW value \in Values, NEW p \in Paths, IsLeaf(value, p)
  PROVE  /\ \A n \in 0 .. Len(p) :
              /\ Along(value, p)[n] \in Values
              /\ Depth[Along(value, p)[n]] + n <= Depth[value]
         /\ \A n \in 0 .. Len(p) - 1 : p[n + 1] \in DOMAIN Along(value, p)[n].fields
<1> DEFINE N == Len(p)
           A == Along(value, p)
<1>0. N \in Nat
  BY DEF Paths
<1>1. /\ A[0] = value /\ A \in [0 .. N -> Values \cup {Lost}]
      /\ \A n \in 0 .. N - 1 : A[n + 1] = Child(A[n], p[n + 1])
  BY AlongIs
<1>2. \A n \in 0 .. N : A[n] # Lost
  <2> SUFFICES ASSUME NEW n \in 0 .. N, A[n] = Lost PROVE FALSE
    OBVIOUS
  <2>1. A[N] = Lost
    BY StaysLost
  <2>2. ~IsObject(A[N])
    BY DEF IsLeaf
  <2> QED
    BY <2>1, <2>2, LostHasNone
<1> HIDE DEF A, N
<1>3. \A n \in 0 .. N : A[n] \in Values
  BY <1>1, <1>2
<1>4. ASSUME NEW n \in 0 .. N - 1 PROVE p[n + 1] \in DOMAIN A[n].fields
  <2>1. n + 1 \in 0 .. N /\ A[n + 1] = Child(A[n], p[n + 1])
    BY <1>0, <1>1
  <2> QED
    BY <1>2, <2>1 DEF Child
<1> DEFINE S == {n \in 0 .. N : Depth[A[n]] + n <= Depth[value]}
<1>5. 0 \in S
  <2>1. Depth[value] \in Nat
    BY ValueFields, RedisAssumption
  <2> QED
    BY <1>0, <1>1, <2>1
<1>6. ASSUME NEW n \in 0 .. N - 1, n \in S PROVE n + 1 \in S
  <2>1. n \in 0 .. N /\ n + 1 \in 0 .. N /\ A[n + 1] = Child(A[n], p[n + 1])
    BY <1>0, <1>1
  <2>2. A[n + 1] = A[n].fields[p[n + 1]][2] /\ A[n] \in Values
    BY <1>3, <1>4, <2>1 DEF Child
  <2>3. Depth[A[n + 1]] < Depth[A[n]] /\ A[n + 1] \in Values
    BY <1>4, <2>2, ValueFields
  <2>4. Depth[A[n + 1]] \in Nat /\ Depth[A[n]] \in Nat /\ Depth[value] \in Nat
    BY <2>2, <2>3, ValueFields, RedisAssumption
  <2>5. Depth[A[n]] + n <= Depth[value] /\ n \in Nat
    BY <1>0, <1>6
  <2>6. Depth[A[n + 1]] + (n + 1) <= Depth[value]
    BY <2>3, <2>4, <2>5
  <2> QED
    BY <2>1, <2>6
<1> HIDE DEF S
<1>7. \A n \in 0 .. N : n \in S
  <2>1. \A n \in 0 .. N - 1 : n \in S => n + 1 \in S
    BY <1>6
  <2> QED
    BY <1>0, <1>5, <2>1, UpTo
<1> QED
  BY <1>3, <1>4, <1>7 DEF S, A, N

(* What being a leaf comes to: the path begins at a field, and ends at a   *)
(* scalar no deeper than the object.                                       *)
LEMMA LeafIs ==
  ASSUME NEW value \in Values, NEW p \in Leaves(value)
  PROVE  /\ p \in Paths /\ Len(p) \in Nat \ {0} /\ IsLeaf(value, p)
         /\ Len(p) <= Depth[value]
         /\ p[1] \in DOMAIN value.fields
         /\ Along(value, p)[Len(p)].scalar \in Kinds
<1>1. p \in Paths /\ Len(p) \in Nat \ {0} /\ IsLeaf(value, p)
  BY PositionsPaths DEF Leaves
<1> DEFINE w == Along(value, p)[Len(p)]
<1>2. w \in Values /\ Depth[w] + Len(p) <= Depth[value]
  <2>1. Len(p) \in 0 .. Len(p)
    BY <1>1
  <2> QED
    BY <1>1, <2>1, LeafWay
<1>3. ~IsObject(w)
  BY <1>1 DEF IsLeaf
<1>4. p[1] \in DOMAIN value.fields
  <2> DEFINE z == 0
  <2>1. z \in 0 .. Len(p) - 1 /\ z + 1 = 1 /\ Along(value, p)[z] = value
    BY <1>1, AlongIs
  <2> HIDE DEF z
  <2>2. p[z + 1] \in DOMAIN Along(value, p)[z].fields
    BY <1>1, <2>1, LeafWay
  <2> QED
    BY <2>1, <2>2
<1> HIDE DEF w
<1>5. Depth[w] \in Nat /\ Depth[value] \in Nat /\ w.scalar \in Kinds
  BY <1>2, <1>3, ValueFields, RedisAssumption
<1>6. Len(p) <= Depth[value]
  BY <1>1, <1>2, <1>5
<1> QED
  BY <1>1, <1>4, <1>5, <1>6 DEF w

(* A path is one to a leaf if and only if its rest is, in the field it     *)
(* begins with.                                                            *)
LEMMA LeafInside ==
  ASSUME NEW value \in Values, NEW i \in DOMAIN value.fields, NEW q \in Paths
  PROVE  IsLeaf(value, <<i>> \o q) <=> IsLeaf(value.fields[i][2], q)
<1>1. Len(<<i>> \o q) = Len(q) + 1 /\ Len(q) \in 0 .. Len(q)
  BY ValueFields DEF Paths
<1>2. Along(value, <<i>> \o q)[Len(q) + 1] = Along(value.fields[i][2], q)[Len(q)]
  BY <1>1, AlongTail
<1> QED
  BY <1>1, <1>2 DEF IsLeaf

(* A scalar in a field is a leaf.                                          *)
LEMMA LeafHere ==
  ASSUME NEW value \in Values, NEW i \in DOMAIN value.fields, ~IsObject(value.fields[i][2])
  PROVE  /\ <<i>> \in Leaves(value)
         /\ Along(value, <<i>>)[1] = value.fields[i][2]
<1> DEFINE w == value.fields[i][2]
<1>1. w \in Values /\ i \in 1 .. MaxFields /\ Depth[w] < Depth[value]
  BY ValueFields, RedisAssumption
<1>2. 1 \in 1 .. MaxDepth
  BY <1>1, ValueFields, RedisAssumption
<1>3. <<>> \in Paths /\ <<i>> \o <<>> = <<i>> /\ Len(<<>>) = 0 /\ Len(<<i>>) = 1
  BY DEF Paths
<1>4. Along(w, <<>>)[0] = w
  BY <1>1, <1>3, AlongIs
<1>5. IsLeaf(w, <<>>)
  BY <1>3, <1>4 DEF IsLeaf
<1>6. IsLeaf(value, <<i>>)
  BY <1>3, <1>5, LeafInside
<1>7. <<i>> \in Positions
  <2>1. <<i>> \in Seq(1 .. MaxFields)
    BY <1>1
  <2> QED
    BY <1>2, <1>3, <2>1, PositionsAre
<1>8. Along(value, <<i>>)[1] = w
  <2> DEFINE z == 0
  <2>1. z \in 0 .. Len(<<>>) /\ z + 1 = 1
    OBVIOUS
  <2> HIDE DEF z
  <2>2. Along(value, <<i>> \o <<>>)[z + 1] = Along(w, <<>>)[z]
    BY <1>3, <2>1, AlongTail
  <2>3. Along(value, <<i>>)[1] = Along(w, <<>>)[z]
    BY <1>3, <2>1, <2>2
  <2> QED
    BY <1>4, <2>3 DEF z
<1> QED
  BY <1>6, <1>7, <1>8 DEF Leaves

(* A leaf of what is in a field is a leaf.                                 *)
LEMMA LeafBelow ==
  ASSUME NEW value \in Values, NEW i \in DOMAIN value.fields, NEW q \in Leaves(value.fields[i][2])
  PROVE  <<i>> \o q \in Leaves(value)
<1> DEFINE w == value.fields[i][2]
           p == <<i>> \o q
<1>1. w \in Values /\ i \in 1 .. MaxFields /\ Depth[w] < Depth[value]
  BY ValueFields, RedisAssumption
<1>2. q \in Paths /\ Len(q) \in Nat /\ IsLeaf(w, q) /\ Len(q) <= Depth[w]
  BY <1>1, LeafIs
<1>3. IsLeaf(value, p)
  BY <1>2, LeafInside
<1>4. q \in Seq(1 .. MaxFields)
  BY PositionsAre DEF Leaves
<1>5. p \in Seq(1 .. MaxFields) /\ Len(p) = Len(q) + 1
  BY <1>1, <1>4
<1>6. Depth[w] \in Nat /\ Depth[value] \in 0 .. MaxDepth /\ MaxDepth \in Nat
  BY <1>1, ValueFields, RedisAssumption
<1> HIDE DEF p, w
<1>7. Len(p) \in 1 .. MaxDepth
  BY <1>1, <1>2, <1>5, <1>6
<1>8. p \in Positions
  BY <1>5, <1>7, PositionsAre
<1> QED
  BY <1>3, <1>8 DEF Leaves, p

(* A leaf is a scalar in a field, or a leaf of the object in a field.      *)
LEMMA LeafCases ==
  ASSUME NEW value \in Values, NEW p \in Leaves(value)
  PROVE  \E i \in DOMAIN value.fields :
           \/ ~IsObject(value.fields[i][2]) /\ p = <<i>>
           \/ /\ IsObject(value.fields[i][2])
              /\ \E q \in Leaves(value.fields[i][2]) : p = <<i>> \o q
<1> DEFINE i == p[1]
           q == Tail(p)
           w == value.fields[i][2]
<1>1. i \in DOMAIN value.fields /\ p \in Paths /\ Len(p) \in Nat \ {0} /\ IsLeaf(value, p)
  BY LeafIs
<1>2. p = <<i>> \o q /\ q \in Paths /\ Len(p) = Len(q) + 1 /\ Len(q) \in Nat
  BY <1>1 DEF Paths
<1>3. p \in Seq(1 .. MaxFields) /\ Len(p) \in 1 .. MaxDepth
  BY PositionsAre DEF Leaves
<1>4. q \in Seq(1 .. MaxFields)
  BY <1>1, <1>3
<1>5. w \in Values
  BY <1>1, ValueFields
<1> HIDE DEF q, i, w
<1>6. IsLeaf(w, q)
  BY <1>1, <1>2, LeafInside DEF w
<1>7. CASE q = <<>>
  <2>1. Along(w, q)[0] = w
    BY <1>2, <1>5, AlongIs
  <2>2. ~IsObject(w)
    BY <1>6, <1>7, <2>1 DEF IsLeaf
  <2>3. p = <<i>>
    BY <1>2, <1>7
  <2> QED
    BY <1>1, <2>2, <2>3 DEF w
<1>8. CASE q # <<>>
  <2>1. Len(q) \in 1 .. MaxDepth
    <3>1. Len(q) # 0
      BY <1>4, <1>8
    <3> QED
      BY <1>2, <1>3, <3>1, RedisAssumption
  <2>2. q \in Positions
    BY <1>4, <2>1, PositionsAre
  <2>3. q \in Leaves(w)
    BY <1>6, <2>2 DEF Leaves
  <2>4. q[1] \in DOMAIN w.fields
    BY <1>5, <2>3, LeafIs
  <2>5. IsObject(w)
    <3>1. DOMAIN <<>> = {}
      OBVIOUS
    <3> QED
      BY <1>5, <2>4, <3>1, ValueFields
  <2> QED
    BY <1>1, <1>2, <2>3, <2>5 DEF w
<1> QED
  BY <1>7, <1>8

-----------------------------------------------------------------------------
(* The keys on the path to a leaf are keys.                                *)
LEMMA KeysType ==
  ASSUME NEW value \in Values, NEW p \in Leaves(value)
  PROVE  KeysAlong(value, p) \in KeySeqs /\ Len(KeysAlong(value, p)) = Len(p)
<1> DEFINE N == Len(p)
           A == Along(value, p)
           keys == [n \in 1 .. N |-> A[n - 1].fields[p[n]][1]]
<1>1. p \in Paths /\ N \in Nat \ {0} /\ IsLeaf(value, p)
  BY LeafIs
<1>2. /\ \A n \in 0 .. N : A[n] \in Values
      /\ \A n \in 0 .. N - 1 : p[n + 1] \in DOMAIN A[n].fields
  BY <1>1, LeafWay
<1> HIDE DEF A, N
<1>3. ASSUME NEW n \in 1 .. N PROVE A[n - 1].fields[p[n]][1] \in Keys
  <2> DEFINE m == n - 1
  <2>1. m \in 0 .. N /\ m \in 0 .. N - 1 /\ m + 1 = n
    BY <1>1
  <2> HIDE DEF m
  <2>2. A[m] \in Values /\ p[m + 1] \in DOMAIN A[m].fields
    BY <1>2, <2>1
  <2>3. p[n] \in DOMAIN A[m].fields
    BY <2>1, <2>2
  <2>4. A[m].fields[p[n]][1] \in Keys
    BY <2>2, <2>3, ValueFields
  <2> QED
    BY <2>4 DEF m
<1>4. keys \in [1 .. N -> Keys]
  BY <1>3
<1>5. keys \in Seq(Keys) /\ DOMAIN keys = 1 .. N
  <2> HIDE DEF keys
  <2> QED
    BY <1>1, <1>4, FunctionSeq
<1>6. KeysAlong(value, p) = keys
  BY DEF KeysAlong, keys, A, N
<1> HIDE DEF keys
<1>7. Len(keys) = N /\ keys # <<>>
  BY <1>1, <1>5
<1> QED
  BY <1>5, <1>6, <1>7 DEF KeySeqs, N

(* The keys on the path to a scalar in a field are the one of the field.   *)
LEMMA KeysHere ==
  ASSUME NEW value \in Values, NEW i \in DOMAIN value.fields, ~IsObject(value.fields[i][2])
  PROVE  KeysAlong(value, <<i>>) = <<value.fields[i][1]>>
<1> DEFINE keys == KeysAlong(value, <<i>>)
           z == 0
<1>1. <<i>> \in Leaves(value) /\ Len(<<i>>) = 1
  BY LeafHere
<1>2. keys \in Seq(Keys) /\ Len(keys) = 1
  BY <1>1, KeysType DEF KeySeqs
<1>3. <<i>> \in Paths /\ <<i>>[1] = i /\ z = 1 - 1
  BY ValueFields DEF Paths
<1>4. keys[1] = Along(value, <<i>>)[1 - 1].fields[i][1]
  BY <1>1, <1>3 DEF KeysAlong
<1>5. Along(value, <<i>>)[z] = value
  BY <1>3, AlongIs
<1>6. keys[1] = value.fields[i][1]
  BY <1>4, <1>5
<1> HIDE DEF keys
<1>7. keys = <<value.fields[i][1]>>
  BY <1>2, <1>6
<1> QED
  BY <1>7 DEF keys

(* The keys on a path are the one of the field it begins with and those on *)
(* the rest.                                                               *)
LEMMA KeysBelow ==
  ASSUME NEW value \in Values, NEW i \in DOMAIN value.fields, NEW q \in Leaves(value.fields[i][2])
  PROVE  KeysAlong(value, <<i>> \o q) = <<value.fields[i][1]>> \o KeysAlong(value.fields[i][2], q)
<1> DEFINE w == value.fields[i][2]
           key == value.fields[i][1]
           p == <<i>> \o q
           a == KeysAlong(value, p)
           b == KeysAlong(w, q)
           c == <<key>> \o b
           N == Len(q)
<1>1. w \in Values /\ key \in Keys /\ i \in Nat
  BY ValueFields
<1>2. q \in Paths /\ N \in Nat /\ p \in Leaves(value)
  BY <1>1, LeafIs, LeafBelow
<1>3. p \in Paths /\ Len(p) = N + 1 /\ p[1] = i /\ \A n \in 1 .. N : p[n + 1] = q[n]
  BY <1>1, <1>2 DEF Paths
<1>4. a \in Seq(Keys) /\ Len(a) = N + 1 /\ b \in Seq(Keys) /\ Len(b) = N
  BY <1>1, <1>2, <1>3, KeysType DEF KeySeqs
<1>5. Along(value, p)[0] = value /\ \A n \in 0 .. N : Along(value, p)[n + 1] = Along(w, q)[n]
  BY <1>2, <1>3, AlongIs, AlongTail
<1>6. \A n \in 1 .. N + 1 : a[n] = Along(value, p)[n - 1].fields[p[n]][1]
  BY <1>3 DEF KeysAlong
<1>7. \A n \in 1 .. N : b[n] = Along(w, q)[n - 1].fields[q[n]][1]
  BY DEF KeysAlong
<1> HIDE DEF a, b, p, w, key, N
<1>8. c \in Seq(Keys) /\ Len(c) = N + 1 /\ c[1] = key /\ \A n \in 1 .. N : c[n + 1] = b[n]
  BY <1>1, <1>4
<1>9. a[1] = key
  <2> DEFINE o == 1
  <2>1. o \in 1 .. N + 1 /\ o - 1 = 0
    BY <1>2
  <2> HIDE DEF o
  <2>2. a[o] = Along(value, p)[o - 1].fields[p[o]][1]
    BY <1>6, <2>1
  <2>3. a[o] = value.fields[p[o]][1]
    BY <1>5, <2>1, <2>2
  <2> QED
    BY <1>3, <2>3 DEF o, key
<1>10. ASSUME NEW n \in 1 .. N PROVE a[n + 1] = b[n]
  <2> DEFINE m == n + 1
             l == n - 1
  <2>1. m \in 1 .. N + 1 /\ m - 1 = n /\ p[m] = q[n] /\ l \in 0 .. N /\ l + 1 = n
    BY <1>2, <1>3
  <2> HIDE DEF m
  <2>2. a[m] = Along(value, p)[m - 1].fields[p[m]][1]
    BY <1>6, <2>1
  <2>3. a[m] = Along(value, p)[n].fields[q[n]][1]
    BY <2>1, <2>2
  <2>4. b[n] = Along(w, q)[l].fields[q[n]][1]
    BY <1>7
  <2> HIDE DEF l
  <2>5. Along(value, p)[l + 1] = Along(w, q)[l]
    BY <1>5, <2>1
  <2>6. Along(value, p)[n] = Along(w, q)[l]
    BY <2>1, <2>5
  <2>7. a[m] = b[n]
    BY <2>3, <2>4, <2>6
  <2> QED
    BY <2>7 DEF m
<1>11. ASSUME NEW n \in 1 .. N + 1 PROVE a[n] = c[n]
  <2>1. CASE n = 1
    BY <1>8, <1>9, <2>1
  <2>2. CASE n # 1
    <3> DEFINE l == n - 1
    <3>1. l \in 1 .. N /\ l + 1 = n
      BY <1>2, <2>2
    <3> HIDE DEF l
    <3>2. a[l + 1] = b[l] /\ c[l + 1] = b[l]
      BY <1>8, <1>10, <3>1
    <3> QED
      BY <3>1, <3>2
  <2> QED
    BY <2>1, <2>2
<1> HIDE DEF c
<1>12. a = c
  BY <1>4, <1>8, <1>11, SeqEqual
<1> QED
  BY <1>12 DEF a, b, c, p, w, key

-----------------------------------------------------------------------------
(* The name of a leaf inside a value that has a prefix.                    *)
NameFrom(prefix, keys) ==
  IF prefix \in {NoPrefix, Empty} THEN Name(keys) ELSE prefix \o FlattenSeq(keys)

(* objectToArray names a scalar as the reference does.                     *)
LEMMA NameFromOne ==
  ASSUME NEW prefix \in Seq(STRING), NEW key \in Keys
  PROVE  NameFrom(prefix, <<key>>) = Prefixed(prefix, key)
<1>1. key \in Seq(STRING)
  BY RedisAssumption
<1>2. FlattenSeq(<<key>>) = key
  BY <1>1, FlatOne
<1> QED
  BY <1>2, NameOne DEF NameFrom, Prefixed

(* objectToArray passes on, as the prefix, what the reference puts before  *)
(* the name of a leaf.                                                     *)
LEMMA NameFromMore ==
  ASSUME NEW prefix \in Seq(STRING), NEW key \in Keys, NEW rest \in KeySeqs
  PROVE  NameFrom(prefix, <<key>> \o rest) = NameFrom(Prefixed(prefix, key), rest)
<1>1. key \in Seq(STRING) /\ key # <<>> /\ rest \in Seq(Seq(STRING)) /\ FlattenSeq(rest) \in Seq(STRING)
  <2>1. key \in Seq(STRING) /\ key # <<>> /\ rest \in Seq(Seq(STRING))
    BY RedisAssumption DEF KeySeqs
  <2> QED
    BY <2>1, FlatPlaces
<1>2. CASE prefix \in {NoPrefix, Empty}
  <2>1. Prefixed(prefix, key) = key
    BY <1>2 DEF Prefixed
  <2>2. NameFrom(prefix, <<key>> \o rest) = IF key = Empty THEN Name(rest) ELSE key \o FlattenSeq(rest)
    BY <1>2, NameMore DEF NameFrom
  <2>3. NameFrom(key, rest) = IF key = Empty THEN Name(rest) ELSE key \o FlattenSeq(rest)
    BY <1>1 DEF NameFrom, NoPrefix
  <2> QED
    BY <2>1, <2>2, <2>3
<1>3. CASE prefix \notin {NoPrefix, Empty}
  <2>1. Prefixed(prefix, key) = prefix \o key
    BY <1>3 DEF Prefixed
  <2>2. prefix \o key \notin {NoPrefix, Empty}
    <3>1. Len(prefix \o key) = Len(prefix) + Len(key) /\ Len(key) \in Nat /\ Len(prefix) \in Nat
      BY <1>1
    <3>2. Len(prefix) # 0 /\ Len(key) # 0
      BY <1>1, <1>3 DEF NoPrefix
    <3>3. Len(NoPrefix) = 0 /\ Len(Empty) = 1
      BY DEF NoPrefix, Empty
    <3> QED
      BY <3>1, <3>2, <3>3
  <2>3. NameFrom(prefix, <<key>> \o rest) = prefix \o FlattenSeq(<<key>> \o rest)
    BY <1>3 DEF NameFrom
  <2>4. FlattenSeq(<<key>> \o rest) = key \o FlattenSeq(rest)
    BY <1>1, FlatCons
  <2>5. NameFrom(prefix \o key, rest) = (prefix \o key) \o FlattenSeq(rest)
    BY <2>2 DEF NameFrom
  <2>6. (prefix \o key) \o FlattenSeq(rest) = prefix \o (key \o FlattenSeq(rest))
    BY <1>1, Assoc
  <2> QED
    BY <2>1, <2>3, <2>4, <2>5, <2>6
<1> QED
  BY <1>2, <1>3

(* The pair objectToArray makes of a leaf.                                 *)
PairOf(prefix, value, p) ==
  <<NameFrom(prefix, KeysAlong(value, p)), Stringify(Along(value, p)[Len(p)].scalar)>>

(* The pair of a scalar in a field.                                        *)
LEMMA PairHere ==
  ASSUME NEW prefix \in Seq(STRING), NEW value \in Values, NEW i \in DOMAIN value.fields,
         ~IsObject(value.fields[i][2])
  PROVE  PairOf(prefix, value, <<i>>)
           = <<Prefixed(prefix, value.fields[i][1]), Stringify(value.fields[i][2].scalar)>>
<1>1. value.fields[i][1] \in Keys /\ Len(<<i>>) = 1
  BY ValueFields
<1>2. Along(value, <<i>>)[Len(<<i>>)] = value.fields[i][2]
  BY <1>1, LeafHere
<1>3. NameFrom(prefix, KeysAlong(value, <<i>>)) = Prefixed(prefix, value.fields[i][1])
  BY <1>1, KeysHere, NameFromOne
<1> QED
  BY <1>2, <1>3 DEF PairOf

(* The pair of a leaf further down is that of a leaf of the field with its *)
(* key as the prefix.                                                      *)
LEMMA PairBelow ==
  ASSUME NEW prefix \in Seq(STRING), NEW value \in Values, NEW i \in DOMAIN value.fields,
         NEW q \in Leaves(value.fields[i][2])
  PROVE  PairOf(prefix, value, <<i>> \o q)
           = PairOf(Prefixed(prefix, value.fields[i][1]), value.fields[i][2], q)
<1> DEFINE w == value.fields[i][2]
           key == value.fields[i][1]
<1>1. w \in Values /\ key \in Keys
  BY ValueFields
<1>2. q \in Paths /\ Len(q) \in 0 .. Len(q) /\ KeysAlong(w, q) \in KeySeqs
  BY <1>1, LeafIs, KeysType
<1>3. Len(<<i>> \o q) = Len(q) + 1
  BY <1>2, ValueFields DEF Paths
<1>4. Along(value, <<i>> \o q)[Len(<<i>> \o q)] = Along(w, q)[Len(q)]
  BY <1>2, <1>3, AlongTail
<1>5. NameFrom(prefix, KeysAlong(value, <<i>> \o q)) = NameFrom(Prefixed(prefix, key), KeysAlong(w, q))
  <2>1. KeysAlong(value, <<i>> \o q) = <<key>> \o KeysAlong(w, q)
    BY KeysBelow
  <2> QED
    BY <1>1, <1>2, <2>1, NameFromMore
<1> QED
  BY <1>4, <1>5 DEF PairOf

-----------------------------------------------------------------------------
(* What objectToArray makes of an object, in order: every pair is that of  *)
(* a leaf, and after the pair of a leaf come those of later leaves only.   *)
OfLeaves(array, prefix, value) ==
  /\ \A k \in DOMAIN array : \E p \in Leaves(value) : array[k] = PairOf(prefix, value, p)
  /\ \A p \in Leaves(value) :
       \E k \in DOMAIN array :
         /\ array[k] = PairOf(prefix, value, p)
         /\ \A l \in DOMAIN array : l > k =>
              \E q \in Leaves(value) : Later(q, p) /\ array[l] = PairOf(prefix, value, q)

(* A leaf of a later field comes later.                                    *)
LEMMA LaterHere ==
  ASSUME NEW p \in Paths, NEW q \in Paths, Len(p) # 0, Len(q) # 0, q[1] > p[1]
  PROVE  Later(q, p)
<1>1. 1 \in 1 .. Len(q) /\ 1 <= Len(p) /\ \A m \in 1 .. 1 - 1 : q[m] = p[m]
  BY DEF Paths
<1> QED
  BY <1>1 DEF Later

(* Of two leaves of one field the later one there comes later.             *)
LEMMA LaterBelow ==
  ASSUME NEW i \in Nat, NEW p \in Paths, NEW q \in Paths, Later(q, p)
  PROVE  Later(<<i>> \o q, <<i>> \o p)
<1>1. PICK n \in 1 .. Len(q) : n <= Len(p) /\ q[n] > p[n] /\ \A m \in 1 .. n - 1 : q[m] = p[m]
  BY DEF Later
<1> DEFINE a == <<i>> \o q
           b == <<i>> \o p
           k == n + 1
<1>2. /\ Len(a) = Len(q) + 1 /\ Len(b) = Len(p) + 1 /\ Len(q) \in Nat /\ Len(p) \in Nat
      /\ a[1] = i /\ b[1] = i
      /\ \A m \in 1 .. Len(q) : a[m + 1] = q[m]
      /\ \A m \in 1 .. Len(p) : b[m + 1] = p[m]
  BY DEF Paths
<1> HIDE DEF a, b
<1>3. k \in 1 .. Len(a) /\ k <= Len(b) /\ a[k] > b[k] /\ k - 1 = n
  BY <1>1, <1>2
<1> HIDE DEF k
<1>4. ASSUME NEW m \in 1 .. n PROVE a[m] = b[m]
  <2>1. CASE m = 1
    BY <1>2, <2>1
  <2>2. CASE m # 1
    <3> DEFINE l == m - 1
    <3>1. l \in 1 .. n - 1 /\ l \in 1 .. Len(q) /\ l \in 1 .. Len(p) /\ l + 1 = m
      BY <1>1, <1>2, <2>2
    <3> HIDE DEF l
    <3>2. a[l + 1] = q[l] /\ b[l + 1] = p[l] /\ q[l] = p[l]
      BY <1>1, <1>2, <3>1
    <3> QED
      BY <3>1, <3>2
  <2> QED
    BY <2>1, <2>2
<1>5. Later(a, b)
  BY <1>3, <1>4 DEF Later
<1> QED
  BY <1>5 DEF a, b

(* If it holds of the objects in a value, it holds of the value.           *)
LEMMA ArrayOfLeaves ==
  ASSUME NEW value \in Values, NEW prefix \in Seq(STRING),
         \A w \in Values, key \in Seq(STRING) :
           IsObject(w) /\ Depth[w] < Depth[value] => OfLeaves(ObjectToArray[<<w, key>>], key, w)
  PROVE  OfLeaves(ObjectToArray[<<value, prefix>>], prefix, value)
<1> DEFINE array == ObjectToArray[<<value, prefix>>]
           seqs == Pieces(value, prefix)
           fields == value.fields
           In(i) == fields[i][2]
           Key(i) == Prefixed(prefix, fields[i][1])
           Made(p) == PairOf(prefix, value, p)
<1>1. /\ array = FlattenSeq(seqs) /\ seqs \in Seq(Seq(Pair)) /\ DOMAIN seqs = DOMAIN fields
      /\ \A i \in DOMAIN fields : seqs[i] = Part(ObjectToArray, value, prefix, i)
  BY ToArray
<1>2. PICK off \in [DOMAIN seqs -> Nat] : Places(array, seqs, off)
  BY <1>1, FlatPlaces
<1>3. \A i \in DOMAIN fields :
        In(i) \in Values /\ Key(i) \in Seq(STRING) /\ Depth[In(i)] < Depth[value] /\ i \in Nat
  BY ValueFields, PrefixedType
<1>4. ASSUME NEW i \in DOMAIN fields, ~IsObject(In(i))
      PROVE  /\ DOMAIN seqs[i] = {1} /\ Len(seqs[i]) = 1 /\ seqs[i][1] = Made(<<i>>)
             /\ <<i>> \in Leaves(value)
  <2>1. seqs[i] = <<<<Key(i), Stringify(In(i).scalar)>>>>
    BY <1>1, <1>4 DEF Part
  <2>2. Made(<<i>>) = <<Key(i), Stringify(In(i).scalar)>>
    BY <1>4, PairHere
  <2> HIDE DEF Made, seqs
  <2> QED
    BY <1>4, <2>1, <2>2, LeafHere
<1>5. ASSUME NEW i \in DOMAIN fields, IsObject(In(i))
      PROVE  OfLeaves(seqs[i], Key(i), In(i))
  <2>1. seqs[i] = ObjectToArray[<<In(i), Key(i)>>]
    BY <1>1, <1>5 DEF Part
  <2>2. In(i) \in Values /\ Key(i) \in Seq(STRING) /\ Depth[In(i)] < Depth[value]
    BY <1>3
  <2> QED
    BY <1>5, <2>1, <2>2
<1>6. ASSUME NEW i \in DOMAIN fields, NEW q \in Leaves(In(i))
      PROVE  /\ <<i>> \o q \in Leaves(value) /\ Made(<<i>> \o q) = PairOf(Key(i), In(i), q)
             /\ (<<i>> \o q)[1] = i
  BY <1>3, LeafBelow, PairBelow
<1>7. /\ \A i \in DOMAIN fields : \A j \in DOMAIN seqs[i] :
           off[i] + j \in DOMAIN array /\ array[off[i] + j] = seqs[i][j]
      /\ \A l \in DOMAIN array : \E i \in DOMAIN fields : \E j \in DOMAIN seqs[i] : l = off[i] + j
      /\ \A i, m \in DOMAIN fields : i < m => off[i] + Len(seqs[i]) <= off[m]
  BY <1>1, <1>2 DEF Places
<1>8. \A i \in DOMAIN fields :
        /\ off[i] \in Nat /\ Len(seqs[i]) \in Nat
        /\ \A j \in DOMAIN seqs[i] : j \in Nat /\ 1 <= j /\ j <= Len(seqs[i])
  <2> SUFFICES ASSUME NEW i \in DOMAIN fields
               PROVE  /\ off[i] \in Nat /\ Len(seqs[i]) \in Nat
                      /\ \A j \in DOMAIN seqs[i] : j \in Nat /\ 1 <= j /\ j <= Len(seqs[i])
    OBVIOUS
  <2>1. seqs[i] \in Seq(Pair) /\ off[i] \in Nat
    BY <1>1, <1>2
  <2> HIDE DEF seqs
  <2> QED
    BY <2>1
<1> HIDE DEF array, seqs, fields, In, Key, Made
<1>9. ASSUME NEW i \in DOMAIN fields, NEW j \in DOMAIN seqs[i]
      PROVE  \E p \in Leaves(value) : p[1] = i /\ seqs[i][j] = Made(p)
  <2>1. CASE ~IsObject(In(i))
    <3>1. j = 1 /\ <<i>> \in Leaves(value) /\ seqs[i][1] = Made(<<i>>) /\ <<i>>[1] = i
      BY <1>4, <2>1
    <3> QED
      BY <3>1
  <2>2. CASE IsObject(In(i))
    <3>1. PICK q \in Leaves(In(i)) : seqs[i][j] = PairOf(Key(i), In(i), q)
      BY <1>5, <2>2 DEF OfLeaves
    <3> QED
      BY <1>6, <3>1
  <2> QED
    BY <2>1, <2>2
<1>10. ASSUME NEW k \in DOMAIN array PROVE \E p \in Leaves(value) : array[k] = Made(p)
  <2>1. PICK i \in DOMAIN fields : \E j \in DOMAIN seqs[i] : k = off[i] + j
    BY <1>7
  <2>2. PICK j \in DOMAIN seqs[i] : k = off[i] + j
    BY <2>1
  <2>3. array[k] = seqs[i][j]
    BY <1>7, <2>2
  <2> QED
    BY <1>9, <2>3
(* The pairs behind the one at off[i] + j are in a later field, or later   *)
(* in the same.                                                            *)
<1>11. ASSUME NEW i \in DOMAIN fields, NEW j \in DOMAIN seqs[i],
              NEW l \in DOMAIN array, l > off[i] + j
       PROVE  \/ \E m \in DOMAIN fields : m > i /\ \E h \in DOMAIN seqs[m] : array[l] = seqs[m][h]
              \/ \E h \in DOMAIN seqs[i] : h > j /\ array[l] = seqs[i][h]
  <2>1. PICK m \in DOMAIN fields : \E h \in DOMAIN seqs[m] : l = off[m] + h
    BY <1>7
  <2>2. PICK h \in DOMAIN seqs[m] : l = off[m] + h
    BY <2>1
  <2>3. array[l] = seqs[m][h]
    BY <1>7, <2>2
  <2>4. /\ off[i] \in Nat /\ off[m] \in Nat /\ j \in Nat /\ h \in Nat /\ 1 <= j
        /\ h <= Len(seqs[m]) /\ Len(seqs[m]) \in Nat /\ i \in Nat /\ m \in Nat
    BY <1>3, <1>8
  <2>5. CASE m < i
    <3>1. off[m] + Len(seqs[m]) <= off[i]
      BY <1>7, <2>5
    <3> QED
      BY <1>11, <2>2, <2>4, <3>1
  <2>6. CASE m = i
    <3>1. h > j
      BY <1>11, <2>2, <2>4, <2>6
    <3> QED
      BY <2>3, <2>6, <3>1
  <2>7. CASE m > i
    BY <2>3, <2>7
  <2> QED
    BY <2>4, <2>5, <2>6, <2>7
<1>12. ASSUME NEW p \in Leaves(value), NEW i \in DOMAIN fields, p[1] = i,
              NEW m \in DOMAIN fields, m > i, NEW h \in DOMAIN seqs[m]
       PROVE  \E q \in Leaves(value) : Later(q, p) /\ seqs[m][h] = Made(q)
  <2>1. PICK q \in Leaves(value) : q[1] = m /\ seqs[m][h] = Made(q)
    BY <1>9
  <2>2. Later(q, p)
    BY <1>12, <2>1, LeafIs, LaterHere
  <2> QED
    BY <2>1, <2>2
<1>13. ASSUME NEW p \in Leaves(value)
       PROVE  \E k \in DOMAIN array :
                /\ array[k] = Made(p)
                /\ \A l \in DOMAIN array : l > k =>
                     \E q \in Leaves(value) : Later(q, p) /\ array[l] = Made(q)
  <2>1. PICK i \in DOMAIN fields :
          \/ ~IsObject(In(i)) /\ p = <<i>>
          \/ IsObject(In(i)) /\ \E q \in Leaves(In(i)) : p = <<i>> \o q
    BY LeafCases DEF fields, In
  <2>2. CASE ~IsObject(In(i)) /\ p = <<i>>
    <3>1. DOMAIN seqs[i] = {1} /\ seqs[i][1] = Made(p) /\ p[1] = i
      BY <1>4, <2>2
    <3> DEFINE k == off[i] + 1
    <3>2. k \in DOMAIN array /\ array[k] = Made(p)
      BY <1>7, <3>1
    <3>3. ASSUME NEW l \in DOMAIN array, l > k
          PROVE  \E q \in Leaves(value) : Later(q, p) /\ array[l] = Made(q)
      <4>1. ~ \E h \in DOMAIN seqs[i] : h > 1
        BY <3>1
      <4>2. PICK m \in DOMAIN fields : m > i /\ \E h \in DOMAIN seqs[m] : array[l] = seqs[m][h]
        BY <1>11, <3>1, <3>3, <4>1
      <4> QED
        BY <1>12, <3>1, <4>2
    <3> HIDE DEF k
    <3> QED
      BY <3>2, <3>3
  <2>3. CASE IsObject(In(i)) /\ \E q \in Leaves(In(i)) : p = <<i>> \o q
    <3>1. PICK r \in Leaves(In(i)) : p = <<i>> \o r
      BY <2>3
    <3>2. p[1] = i /\ Made(p) = PairOf(Key(i), In(i), r)
      BY <1>6, <3>1
    <3>3. PICK j \in DOMAIN seqs[i] :
            /\ seqs[i][j] = PairOf(Key(i), In(i), r)
            /\ \A h \in DOMAIN seqs[i] : h > j =>
                 \E q \in Leaves(In(i)) : Later(q, r) /\ seqs[i][h] = PairOf(Key(i), In(i), q)
      BY <1>5, <2>3 DEF OfLeaves
    <3> DEFINE k == off[i] + j
    <3>4. k \in DOMAIN array /\ array[k] = Made(p)
      BY <1>7, <3>2, <3>3
    <3>5. ASSUME NEW l \in DOMAIN array, l > k
          PROVE  \E q \in Leaves(value) : Later(q, p) /\ array[l] = Made(q)
      <4>1. CASE \E m \in DOMAIN fields : m > i /\ \E h \in DOMAIN seqs[m] : array[l] = seqs[m][h]
        BY <1>12, <3>2, <4>1
      <4>2. CASE \E h \in DOMAIN seqs[i] : h > j /\ array[l] = seqs[i][h]
        <5>1. PICK q \in Leaves(In(i)) : Later(q, r) /\ array[l] = PairOf(Key(i), In(i), q)
          BY <3>3, <4>2
        <5>2. <<i>> \o q \in Leaves(value) /\ array[l] = Made(<<i>> \o q)
          BY <1>6, <5>1
        <5>3. Later(<<i>> \o q, p)
          BY <1>3, <3>1, <5>1, LeafIs, LaterBelow
        <5> QED
          BY <5>2, <5>3
      <4> QED
        BY <1>11, <3>5, <4>1, <4>2
    <3> HIDE DEF k
    <3> QED
      BY <3>4, <3>5
  <2> QED
    BY <2>1, <2>2, <2>3
<1> QED
  BY <1>10, <1>13 DEF OfLeaves, array, Made

(* Whatever the value, and whatever its prefix: each pair that             *)
(* objectToArray makes of it is that of one of its leaves, each leaf has   *)
(* its pair, and behind that pair come those of later leaves only.         *)
THEOREM ObjectOfLeaves ==
  ASSUME NEW value \in Values, NEW prefix \in Seq(STRING)
  PROVE  OfLeaves(ObjectToArray[<<value, prefix>>], prefix, value)
<1> DEFINE M == MaxDepth + 1
           S == {n \in 0 .. M : \A w \in Values, key \in Seq(STRING) :
                   Depth[w] < n => OfLeaves(ObjectToArray[<<w, key>>], key, w)}
<1>1. M \in Nat /\ \A w \in Values : Depth[w] \in Nat /\ Depth[w] < M
  BY RedisAssumption
<1> HIDE DEF M
<1>2. 0 \in S
  BY <1>1
<1>3. ASSUME NEW n \in 0 .. M - 1, n \in S PROVE n + 1 \in S
  <2>1. ASSUME NEW w \in Values, NEW key \in Seq(STRING), Depth[w] < n + 1
        PROVE  OfLeaves(ObjectToArray[<<w, key>>], key, w)
    <3>1. ASSUME NEW u \in Values, NEW k \in Seq(STRING), Depth[u] < Depth[w]
          PROVE  OfLeaves(ObjectToArray[<<u, k>>], k, u)
      <4>1. Depth[u] < n
        BY <1>1, <2>1, <3>1
      <4> QED
        BY <1>3, <4>1
    <3> QED
      BY <3>1, ArrayOfLeaves
  <2>2. n + 1 \in 0 .. M
    BY <1>1
  <2> QED
    BY <2>1, <2>2
<1> HIDE DEF S
<1>4. \A n \in 0 .. M : n \in S
  <2>1. \A n \in 0 .. M - 1 : n \in S => n + 1 \in S
    BY <1>3
  <2> QED
    BY <1>1, <1>2, <2>1, UpTo
<1>5. M \in S
  BY <1>1, <1>4
<1> QED
  BY <1>1, <1>5 DEF S

(* What comes back of a scalar that is written as JSON and parsed.         *)
LEMMA ScalarSurvives ==
  ASSUME NEW kind \in Kinds PROVE ParseJSON(Stringify(kind)) = Survives(kind)
<1>1. CASE kind = "text"
  BY <1>1 DEF Stringify, ParseJSON, Survives
<1>2. CASE kind = "number"
  BY <1>2 DEF Stringify, ParseJSON, Survives
<1>3. CASE kind = "NaN"
  BY <1>3 DEF Stringify, ParseJSON, Survives
<1>4. CASE kind = "undefined"
  BY <1>4 DEF Stringify, ParseJSON, Survives
<1> QED
  BY <1>1, <1>2, <1>3, <1>4 DEF Kinds

(* HSET: the last pair of a key is the one that stays.                     *)
LastStays(h, pairs) ==
  /\ DOMAIN SetFields(h, pairs) = DOMAIN h \cup {pairs[k][1] : k \in DOMAIN pairs}
  /\ \A key \in DOMAIN h \ {pairs[k][1] : k \in DOMAIN pairs} : SetFields(h, pairs)[key] = h[key]
  /\ \A k \in DOMAIN pairs :
       (\A l \in DOMAIN pairs : l > k => pairs[l][1] # pairs[k][1])
         => SetFields(h, pairs)[pairs[k][1]] = pairs[k][2]

(* SetFields keeps the last pair of each key, and the fields that no pair  *)
(* names.                                                                  *)
LEMMA FieldsSet ==
  ASSUME NEW h, NEW pairs \in Seq(Pair) PROVE LastStays(h, pairs)
<1> DEFINE changed == {pairs[k][1] : k \in DOMAIN pairs}
           LastOf(key) == CHOOSE k \in DOMAIN pairs :
                            /\ pairs[k][1] = key
                            /\ \A j \in DOMAIN pairs : pairs[j][1] = key => j <= k
           new == [key \in DOMAIN h \cup changed |->
                     IF key \in changed THEN pairs[LastOf(key)][2] ELSE h[key]]
<1>1. SetFields(h, pairs) = new
  BY DEF SetFields
<1>2. ASSUME NEW k \in DOMAIN pairs, \A l \in DOMAIN pairs : l > k => pairs[l][1] # pairs[k][1]
      PROVE  new[pairs[k][1]] = pairs[k][2]
  <2>1. DOMAIN pairs \subseteq Nat
    OBVIOUS
  <2>2. \A j \in DOMAIN pairs : pairs[j][1] = pairs[k][1] => j <= k
    BY <1>2, <2>1
  <2>3. \A j \in DOMAIN pairs :
          /\ pairs[j][1] = pairs[k][1]
          /\ \A i \in DOMAIN pairs : pairs[i][1] = pairs[k][1] => i <= j
          => j = k
    BY <2>1, <2>2
  <2>4. LastOf(pairs[k][1]) = k
    BY <2>2, <2>3
  <2>5. pairs[k][1] \in changed
    OBVIOUS
  <2> HIDE DEF LastOf, changed
  <2> QED
    BY <2>4, <2>5
<1> HIDE DEF LastOf
<1> QED
  BY <1>1, <1>2 DEF LastStays

(* An hset establishes the round trip, whatever the hash was.              *)
LEMMA HSetRoundTrip ==
  ASSUME NEW object \in Values, HSet(object) PROVE RoundTrip'
<1> DEFINE pairs == ObjectToArray[<<object, NoPrefix>>]
           leaves == Leaves(object)
           nameOf(p) == NameOf(object, p)
           names == {nameOf(p) : p \in leaves}
           scalar(p) == Along(object, p)[Len(p)].scalar
<1>1. NoPrefix \in Seq(STRING) /\ <<object, NoPrefix>> \in Calls
  <2>1. NoPrefix \in Seq(STRING)
    BY EmptySeq, Zenon DEF NoPrefix
  <2> QED
    BY <2>1 DEF Calls
<1>2. pairs \in Seq(Pair)
  BY <1>1, ToArrayMeets
<1>3. /\ before' = hash /\ written' = object
      /\ hash' = IF pairs = <<>> THEN hash ELSE SetFields(hash, pairs)
      /\ outcome' = IF pairs = <<>> THEN "rejected" ELSE "ok"
  BY DEF HSet
<1>4. \A p \in leaves : PairOf(NoPrefix, object, p) = <<nameOf(p), Stringify(scalar(p))>>
  BY DEF PairOf, NameFrom, NameOf
<1>5. OfLeaves(pairs, NoPrefix, object)
  BY <1>1, ObjectOfLeaves
<1> HIDE DEF pairs, leaves, nameOf, scalar
<1>16. LastStays(hash, pairs)
  BY <1>2, FieldsSet
<1>6. \A k \in DOMAIN pairs : \E p \in leaves : pairs[k] = <<nameOf(p), Stringify(scalar(p))>>
  BY <1>4, <1>5 DEF OfLeaves, leaves
<1>7. \A p \in leaves : \E k \in DOMAIN pairs :
        /\ pairs[k] = <<nameOf(p), Stringify(scalar(p))>>
        /\ \A l \in DOMAIN pairs : l > k =>
             \E q \in leaves : Later(q, p) /\ pairs[l] = <<nameOf(q), Stringify(scalar(q))>>
  <2> SUFFICES ASSUME NEW p \in leaves
               PROVE  \E k \in DOMAIN pairs :
                        /\ pairs[k] = <<nameOf(p), Stringify(scalar(p))>>
                        /\ \A l \in DOMAIN pairs : l > k =>
                             \E q \in leaves : Later(q, p) /\ pairs[l] = <<nameOf(q), Stringify(scalar(q))>>
    OBVIOUS
  <2>1. PICK k \in DOMAIN pairs :
          /\ pairs[k] = PairOf(NoPrefix, object, p)
          /\ \A l \in DOMAIN pairs : l > k =>
               \E q \in leaves : Later(q, p) /\ pairs[l] = PairOf(NoPrefix, object, q)
    BY <1>5 DEF OfLeaves, leaves
  <2> QED
    BY <1>4, <2>1
<1>8. {pairs[k][1] : k \in DOMAIN pairs} = names
  <2>1. \A k \in DOMAIN pairs : pairs[k][1] \in names
    BY <1>6
  <2>2. \A p \in leaves : \E k \in DOMAIN pairs : nameOf(p) = pairs[k][1]
    BY <1>7
  <2> QED
    BY <2>1, <2>2
<1>9. pairs = <<>> <=> leaves = {}
  <2>1. pairs = <<>> <=> DOMAIN pairs = {}
    BY <1>2
  <2> QED
    BY <1>6, <1>7, <2>1
<1>10. /\ DOMAIN hash' = DOMAIN hash \cup names
       /\ \A key \in DOMAIN hash \ names : hash'[key] = hash[key]
  <2>1. CASE pairs = <<>>
    BY <1>3, <1>9, <2>1
  <2>2. CASE pairs # <<>>
    BY <1>3, <1>8, <1>16, <2>2 DEF LastStays
  <2> QED
    BY <2>1, <2>2
<1>11. ASSUME NEW p \in leaves, \A q \in leaves : nameOf(q) = nameOf(p) => ~Later(q, p)
       PROVE  hash'[nameOf(p)] = Stringify(scalar(p)) /\ nameOf(p) \in DOMAIN hash'
  <2>1. PICK k \in DOMAIN pairs :
          /\ pairs[k] = <<nameOf(p), Stringify(scalar(p))>>
          /\ \A l \in DOMAIN pairs : l > k =>
               \E q \in leaves : Later(q, p) /\ pairs[l] = <<nameOf(q), Stringify(scalar(q))>>
    BY <1>7
  <2>2. pairs[k][1] = nameOf(p) /\ pairs[k][2] = Stringify(scalar(p))
    BY <2>1
  <2>3. ASSUME NEW l \in DOMAIN pairs, l > k PROVE pairs[l][1] # pairs[k][1]
    <3>1. PICK q \in leaves : Later(q, p) /\ pairs[l] = <<nameOf(q), Stringify(scalar(q))>>
      BY <2>1, <2>3
    <3>2. nameOf(q) # nameOf(p) /\ pairs[l][1] = nameOf(q)
      BY <1>11, <3>1
    <3> QED
      BY <2>2, <3>2
  <2>4. SetFields(hash, pairs)[pairs[k][1]] = pairs[k][2]
    BY <1>16, <2>3 DEF LastStays
  <2>5. hash' = SetFields(hash, pairs)
    BY <1>3, <1>9
  <2> QED
    BY <1>10, <2>2, <2>4, <2>5
<1>12. ASSUME NEW p \in leaves PROVE ParseJSON(Stringify(scalar(p))) = Survives(scalar(p))
  BY LeafIs, ScalarSurvives DEF leaves, scalar
<1>13. /\ DOMAIN HGetAll' = DOMAIN hash'
       /\ \A key \in DOMAIN hash' : HGetAll'[key] = ParseJSON(hash'[key])
  BY DEF HGetAll
<1>14. leaves = {p \in Positions : IsLeaf(written', p)}
  BY <1>3 DEF leaves, Leaves
<1>15. /\ (outcome' = "rejected") = (leaves = {})
       /\ DOMAIN HGetAll' = DOMAIN before' \cup names
       /\ \A key \in DOMAIN before' \ names : hash'[key] = before'[key]
       /\ \A p \in leaves :
            (\A q \in leaves : nameOf(q) = nameOf(p) => ~Later(q, p))
              => HGetAll'[nameOf(p)] = Survives(scalar(p))
  <2>1. (outcome' = "rejected") = (leaves = {})
    BY <1>3, <1>9
  <2>2. ASSUME NEW p \in leaves, \A q \in leaves : nameOf(q) = nameOf(p) => ~Later(q, p)
        PROVE  HGetAll'[nameOf(p)] = Survives(scalar(p))
    BY <1>11, <1>12, <1>13, <2>2
  <2> QED
    BY <1>3, <1>10, <1>13, <2>1, <2>2
<1> QED
  BY <1>3, <1>14, <1>15 DEF RoundTrip, nameOf, scalar

(* Whatever the objects: each leaf of the last one is in what hgetall      *)
(* gives back, under its name and as it survives, and so is whatever that  *)
(* object does not name of those before it.                                *)
THEOREM RoundTripHolds == Spec => []RoundTrip
<1>1. Init => RoundTrip
  BY DEF Init, RoundTrip
<1>2. RoundTrip /\ [Next]_vars => RoundTrip'
  <2> SUFFICES ASSUME RoundTrip, [Next]_vars PROVE RoundTrip'
    OBVIOUS
  <2>1. CASE Next
    <3>1. PICK object \in Documents \cup Updates : HSet(object)
      BY <2>1 DEF Next
    <3>2. object \in Values
      BY RedisAssumption
    <3> QED
      BY <3>1, <3>2, HSetRoundTrip
  <2>2. CASE UNCHANGED vars
    BY <2>2 DEF vars, RoundTrip, HGetAll
  <2> QED
    BY <2>1, <2>2
<1> QED
  BY <1>1, <1>2, PTL DEF Spec
=============================================================================
