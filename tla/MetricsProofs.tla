----------------------------- MODULE MetricsProofs -----------------------------
(***************************************************************************)
(* Proofs about Metrics, for any number of requests, events and scrapes,    *)
(* any buckets, durations and keys, and any clock.                          *)
(*                                                                          *)
(* A page shows what the registry held when the scrape cloned it, so the    *)
(* argument is about the registry: it is at every moment the exact account  *)
(* of the records made so far (Exact), each record extends the account by   *)
(* itself, and a prefix of the log does not change when the log grows.      *)
(***************************************************************************)
EXTENDS Metrics, FiniteSetTheorems, SequenceTheorems, NaturalsInduction,
        WellFoundedInduction, TLAPS

-----------------------------------------------------------------------------
(* Induction over the records, stated for a set of numbers.                 *)

\* What holds at 0 and is carried from each number below n to the next holds
\* up to n.
LEMMA UpTo ==
    ASSUME NEW n \in Nat, NEW S, 0 \in S,
           \A i \in 1 .. n : i - 1 \in S => i \in S
    PROVE  \A i \in 0 .. n : i \in S
<1> DEFINE R == OpToRel(<, Nat)
           T == {i \in 0 .. n : i \notin S}
<1>1. SUFFICES ASSUME T # {} PROVE FALSE
  OBVIOUS
<1>2. T \subseteq Nat
  OBVIOUS
<1>3. IsWellFoundedOn(R, Nat)
  BY NatLessThanWellFounded
<1>4. \A k, m \in Nat : k < m => <<k, m>> \in R
  BY DEF OpToRel
<1>5. \E m \in T : \A k \in T : <<k, m>> \notin R
  <2> HIDE DEF R, T
  <2> QED  BY <1>1, <1>2, <1>3, WFMin
<1> HIDE DEF R
<1>6. PICK m \in T : \A k \in T : <<k, m>> \notin R
  BY <1>5
<1>7. m \in 0 .. n /\ m \notin S /\ m # 0
  BY <1>6
<1>8. m - 1 \in 0 .. n /\ m \in 1 .. n /\ m - 1 \in Nat /\ m \in Nat
        /\ m - 1 < m
  BY <1>7
<1>9. m - 1 \notin T
  BY <1>4, <1>6, <1>8
<1> QED  BY <1>7, <1>8, <1>9

\* f is what n iterations over D compute, the i-th one by F[i].
Run(D, n, base, F, f) ==
    /\ f \in [0 .. n -> D]
    /\ f[0] = base
    /\ \A i \in 1 .. n : f[i] = F[i][f[i - 1]]

\* A loop of n iterations over D is a function of the iteration.
LEMMA LoopExists ==
    ASSUME NEW D, NEW n \in Nat, NEW base \in D, NEW F \in [1 .. n -> [D -> D]]
    PROVE  \E f : Run(D, n, base, F, f)
<1> DEFINE S == {k \in 0 .. n : \E f : Run(D, k, base, F, f)}
<1>1. 0 \in S
  <2> DEFINE f == [i \in 0 .. 0 |-> base]
  <2>1. Run(D, 0, base, F, f)
    BY DEF Run
  <2>2. \E g : Run(D, 0, base, F, g)
    <3> HIDE DEF f
    <3> QED  BY <2>1
  <2> QED  BY <2>2
<1>2. ASSUME NEW k \in 1 .. n, k - 1 \in S PROVE k \in S
  <2>1. PICK g : Run(D, k - 1, base, F, g)
    BY <1>2
  <2>2. k \in Nat /\ k - 1 \in Nat /\ k # 0
    OBVIOUS
  <2>3. g \in [0 .. k - 1 -> D] /\ g[k - 1] \in D
    BY <2>1, <2>2 DEF Run
  <2>4. F[k] \in [D -> D]
    OBVIOUS
  <2> DEFINE f == [i \in 0 .. k |-> IF i = k THEN F[k][g[k - 1]] ELSE g[i]]
  <2>5. f \in [0 .. k -> D]
    <3>1. ASSUME NEW i \in 0 .. k PROVE f[i] \in D
      <4>1. CASE i = k
        BY <4>1, <2>3, <2>4
      <4>2. CASE i # k
        <5>1. i \in 0 .. k - 1
          BY <4>2, <2>2
        <5> QED  BY <5>1, <4>2, <2>3
      <4> QED  BY <4>1, <4>2
    <3> QED  BY <3>1
  <2>6. f[0] = base
    BY <2>1, <2>2 DEF Run
  <2>7. ASSUME NEW i \in 1 .. k PROVE f[i] = F[i][f[i - 1]]
    <3>1. i - 1 \in 0 .. k /\ i - 1 # k /\ i \in 0 .. k
      BY <2>2
    <3>2. f[i - 1] = g[i - 1]
      BY <3>1
    <3>3. CASE i = k
      <4>1. f[i] = F[k][g[k - 1]]
        BY <3>1, <3>3
      <4> HIDE DEF f
      <4> QED  BY <4>1, <3>2, <3>3
    <3>4. CASE i # k
      <4>1. i \in 1 .. k - 1
        BY <3>4, <2>2
      <4>2. f[i] = g[i]
        BY <3>1, <3>4
      <4>3. g[i] = F[i][g[i - 1]]
        BY <2>1, <4>1 DEF Run
      <4> HIDE DEF f
      <4> QED  BY <4>2, <4>3, <3>2
    <3> QED  BY <3>3, <3>4
  <2>8. Run(D, k, base, F, f)
    <3> HIDE DEF f
    <3> QED  BY <2>5, <2>6, <2>7 DEF Run
  <2>9. \E h : Run(D, k, base, F, h)
    <3> HIDE DEF f
    <3> QED  BY <2>8
  <2> QED  BY <2>9
<1>3. \A i \in 0 .. n : i \in S
  <2> HIDE DEF S
  <2> QED  BY <1>1, <1>2, UpTo
<1>4. n \in 0 .. n
  OBVIOUS
<1> QED  BY <1>3, <1>4

-----------------------------------------------------------------------------
(* The records of a log and of a longer one.                                *)

\* A log: what was observed took some time.
IsLog(records) ==
    /\ \E S : records \in Seq(S)
    /\ \A i \in DOMAIN records :
          records[i].family \in {"http", "resolve"} => records[i].duration \in Nat

\* The added record comes last and the others stay.
LEMMA Appended ==
    ASSUME NEW r, NEW S, r \in Seq(S), NEW e
    PROVE  /\ DOMAIN r = 1 .. Len(r) /\ Len(r) \in Nat
           /\ DOMAIN Append(r, e) = 1 .. Len(r) + 1
           /\ Len(Append(r, e)) = Len(r) + 1
           /\ Append(r, e) \in Seq(S \cup {e})
           /\ Append(r, e)[Len(r) + 1] = e
           /\ \A i \in 1 .. Len(r) : Append(r, e)[i] = r[i]
<1>1. r \in Seq(S \cup {e})
  OBVIOUS
<1> QED  BY <1>1

\* A longer log is a log.
LEMMA LongerLog ==
    ASSUME NEW r, IsLog(r), NEW e,
           e.family \in {"http", "resolve"} => e.duration \in Nat
    PROVE  IsLog(Append(r, e))
<1>1. PICK S : r \in Seq(S)
  BY DEF IsLog
<1>2. \A i \in 1 .. Len(r) + 1 : i \in 1 .. Len(r) \/ i = Len(r) + 1
  BY <1>1
<1>3. Append(r, e) \in Seq(S \cup {e})
  BY <1>1, Appended
<1>4. ASSUME NEW i \in DOMAIN Append(r, e),
             Append(r, e)[i].family \in {"http", "resolve"}
      PROVE  Append(r, e)[i].duration \in Nat
  <2>1. i \in DOMAIN r \/ i = Len(r) + 1
    BY <1>1, <1>2, Appended
  <2>2. CASE i \in DOMAIN r
    BY <1>1, <1>4, <2>2, Appended DEF IsLog
  <2>3. CASE i = Len(r) + 1
    BY <1>1, <1>4, <2>3, Appended
  <2> QED  BY <2>1, <2>2, <2>3
<1> QED  BY <1>3, <1>4 DEF IsLog

\* Sets of record numbers are finite.
LEMMA FiniteOf ==
    ASSUME NEW r, IsLog(r), NEW T, T \subseteq DOMAIN r
    PROVE  IsFiniteSet(T) /\ Cardinality(T) \in Nat
<1>1. DOMAIN r = 1 .. Len(r) /\ Len(r) \in Nat
  BY DEF IsLog
<1>2. IsFiniteSet(DOMAIN r)
  BY <1>1, FS_Interval
<1>3. IsFiniteSet(T)
  BY <1>2, FS_Subset
<1> QED  BY <1>3, FS_CardinalityType

\* How many there are when one more is, or is not, among them.
LEMMA OneMore ==
    ASSUME NEW r, IsLog(r), NEW T, T \subseteq DOMAIN r
    PROVE  Cardinality(T \cup {Len(r) + 1}) = Cardinality(T) + 1
<1>1. DOMAIN r = 1 .. Len(r) /\ Len(r) \in Nat
  BY DEF IsLog
<1>2. Len(r) + 1 \notin T
  BY <1>1
<1>3. IsFiniteSet(T)
  BY FiniteOf
<1> QED  BY <1>2, <1>3, FS_AddElement

\* The records of a family after one more.
LEMMA OfAppended ==
    ASSUME NEW r, IsLog(r), NEW e, NEW family
    PROVE  /\ Of(r, family) \subseteq DOMAIN r
           /\ e.family = family =>
                Of(Append(r, e), family) = Of(r, family) \cup {Len(r) + 1}
           /\ e.family # family => Of(Append(r, e), family) = Of(r, family)
<1>1. PICK S : r \in Seq(S)
  BY DEF IsLog
<1>2. \A i : i \in 1 .. Len(r) + 1 <=> i \in 1 .. Len(r) \/ i = Len(r) + 1
  BY <1>1
<1>3. Len(r) + 1 \notin 1 .. Len(r)
  BY <1>1
<1> QED  BY <1>1, <1>2, <1>3, Appended DEF Of

\* The records of a key after one more.
MineGrows(r, e, family, key) ==
    /\ Mine(r, family, key) \subseteq DOMAIN r
    /\ e.family = family /\ e.key = key =>
          Mine(Append(r, e), family, key) =
            Mine(r, family, key) \cup {Len(r) + 1}
    /\ ~(e.family = family /\ e.key = key) =>
          Mine(Append(r, e), family, key) = Mine(r, family, key)

LEMMA MineAppended ==
    ASSUME NEW r, IsLog(r), NEW e, NEW family, NEW key
    PROVE  MineGrows(r, e, family, key)
<1>1. PICK S : r \in Seq(S)
  BY DEF IsLog
<1>2. DOMAIN r = 1 .. Len(r) /\ Len(r) + 1 \notin 1 .. Len(r)
  BY <1>1
<1>3. /\ Append(r, e)[Len(r) + 1] = e
      /\ \A i \in 1 .. Len(r) : Append(r, e)[i] = r[i]
  BY <1>1, Appended
<1>4. /\ Of(r, family) \subseteq 1 .. Len(r)
      /\ e.family = family =>
           Of(Append(r, e), family) = Of(r, family) \cup {Len(r) + 1}
      /\ e.family # family => Of(Append(r, e), family) = Of(r, family)
  BY <1>2, OfAppended
<1> QED  BY <1>2, <1>3, <1>4 DEF Mine, MineGrows

\* What the n-th record adds to the time spent on a key.
Gain(r, family, key, n) ==
    IF n \in Mine(r, family, key) THEN r[n].duration ELSE 0

\* f adds up the records one by one.
Adds(r, family, key, f) ==
    /\ f \in [0 .. Len(r) -> Nat]
    /\ f[0] = 0
    /\ \A n \in 1 .. Len(r) : f[n] = f[n - 1] + Gain(r, family, key, n)

Timed == {"http", "resolve"}

LEMMA GainIsTime ==
    ASSUME NEW r, IsLog(r), NEW family \in Timed, NEW key, NEW n
    PROVE  Gain(r, family, key, n) \in Nat
BY DEF Gain, Mine, Of, IsLog, Timed

\* Spent is the last of these sums.
LEMMA SpentAdds ==
    ASSUME NEW r, IsLog(r), NEW family \in Timed, NEW key
    PROVE  \E f : Adds(r, family, key, f) /\ Spent(r, family, key) = f[Len(r)]
<1> DEFINE n == Len(r)
           G(i) == Gain(r, family, key, i)
           Body(f) == [i \in 0 .. n |-> IF i = 0 THEN 0 ELSE f[i - 1] + G(i)]
           F == [i \in 1 .. n |-> [d \in Nat |-> d + G(i)]]
<1>1. n \in Nat
  BY DEF IsLog
<1>2. \A i : G(i) \in Nat
  BY GainIsTime
<1> HIDE DEF G
<1>3. F \in [1 .. n -> [Nat -> Nat]]
  BY <1>2
<1>4. PICK f : Run(Nat, n, 0, F, f)
  <2> HIDE DEF F, n
  <2> QED  BY <1>1, <1>3, LoopExists
<1>5. /\ f \in [0 .. n -> Nat] /\ f[0] = 0
      /\ \A i \in 1 .. n : f[i] = F[i][f[i - 1]]
  BY <1>4 DEF Run
<1>6. f = Body(f)
  <2>1. ASSUME NEW i \in 0 .. n PROVE f[i] = IF i = 0 THEN 0 ELSE f[i - 1] + G(i)
    <3>1. CASE i = 0
      BY <1>5, <3>1
    <3>2. CASE i # 0
      <4>1. i \in 1 .. n /\ i - 1 \in 0 .. n
        BY <1>1, <3>2
      <4>2. f[i - 1] \in Nat
        BY <1>5, <4>1
      <4> QED  BY <1>5, <4>1, <4>2, <3>2
    <3> QED  BY <3>1, <3>2
  <2> QED  BY <1>5, <2>1
<1>7. PICK g : g = Body(g) /\ Spent(r, family, key) = g[n]
  BY <1>6 DEF Spent, G, Gain
<1> DEFINE T == {i \in Nat : g[i] \in Nat}
<1>8. g[0] = 0 /\ \A i \in 1 .. n : g[i] = g[i - 1] + G(i)
  BY <1>1, <1>7
<1>9. 0 \in T
  BY <1>8
<1>10. ASSUME NEW i \in 1 .. n, i - 1 \in T PROVE i \in T
  <2>1. g[i - 1] \in Nat /\ G(i) \in Nat /\ g[i] = g[i - 1] + G(i)
    BY <1>2, <1>8, <1>10
  <2> QED  BY <2>1
<1>11. \A i \in 0 .. n : i \in T
  <2> HIDE DEF T, n
  <2> QED  BY <1>1, <1>9, <1>10, UpTo
<1>12. g \in [0 .. n -> Nat]
  BY <1>7, <1>11
<1>13. Adds(r, family, key, g)
  BY <1>8, <1>12 DEF Adds, G
<1> QED  BY <1>7, <1>13

\* One more record adds its own duration.
LEMMA SpentAppended ==
    ASSUME NEW r, IsLog(r), NEW e, NEW family \in Timed, NEW key,
           e.family \in Timed => e.duration \in Nat
    PROVE  /\ Spent(r, family, key) \in Nat
           /\ Spent(Append(r, e), family, key) =
                Spent(r, family, key) +
                  (IF e.family = family /\ e.key = key THEN e.duration ELSE 0)
<1> DEFINE q == Append(r, e)
           n == Len(r)
<1>1. PICK S : r \in Seq(S)
  BY DEF IsLog
<1>2. /\ n \in Nat /\ DOMAIN r = 1 .. n /\ Len(q) = n + 1
      /\ q[n + 1] = e /\ \A i \in 1 .. n : q[i] = r[i]
  BY <1>1, Appended
<1>3. IsLog(q)
  BY LongerLog DEF Timed
<1>4. PICK f : Adds(r, family, key, f) /\ Spent(r, family, key) = f[n]
  BY SpentAdds
<1>5. PICK g : Adds(q, family, key, g) /\ Spent(q, family, key) = g[n + 1]
  BY <1>2, <1>3, SpentAdds
<1>6. /\ Mine(r, family, key) \subseteq DOMAIN r
      /\ e.family = family /\ e.key = key =>
           Mine(q, family, key) = Mine(r, family, key) \cup {n + 1}
      /\ ~(e.family = family /\ e.key = key) =>
           Mine(q, family, key) = Mine(r, family, key)
  <2>1. MineGrows(r, e, family, key)
    BY MineAppended
  <2> QED  BY <2>1 DEF MineGrows
<1> HIDE DEF q, n
<1>7. \A i \in 1 .. n : Gain(q, family, key, i) = Gain(r, family, key, i)
  <2>1. ASSUME NEW i \in 1 .. n
        PROVE  i \in Mine(q, family, key) <=> i \in Mine(r, family, key)
    <3>1. i # n + 1
      BY <1>2
    <3> QED  BY <1>6, <3>1
  <2> QED  BY <1>2, <2>1 DEF Gain
<1>8. /\ f \in [0 .. n -> Nat] /\ f[0] = 0
      /\ \A i \in 1 .. n : f[i] = f[i - 1] + Gain(r, family, key, i)
  BY <1>4 DEF Adds, n
<1>9. /\ g[0] = 0 /\ g \in [0 .. n + 1 -> Nat]
      /\ \A i \in 1 .. n + 1 : g[i] = g[i - 1] + Gain(q, family, key, i)
  BY <1>2, <1>5 DEF Adds
<1>10. \A i \in 0 .. n : f[i] = g[i]
  <2> DEFINE T == {i \in Nat : f[i] = g[i]}
  <2>1. 0 \in T
    BY <1>8, <1>9
  <2>2. ASSUME NEW i \in 1 .. n, i - 1 \in T PROVE i \in T
    <3>1. i \in 1 .. n + 1
      BY <1>2
    <3>2. f[i - 1] = g[i - 1]
      BY <2>2
    <3>3. f[i] = g[i]
      BY <1>7, <1>8, <1>9, <3>1, <3>2
    <3> QED  BY <3>3
  <2>3. \A i \in 0 .. n : i \in T
    <3> HIDE DEF T
    <3> QED  BY <1>2, <2>1, <2>2, UpTo
  <2> QED  BY <2>3
<1>11. g[n + 1] = g[n] + Gain(q, family, key, n + 1)
  <2>1. n + 1 \in 1 .. n + 1 /\ (n + 1) - 1 = n
    BY <1>2
  <2> QED  BY <1>9, <2>1
<1>12. Gain(q, family, key, n + 1) =
         IF e.family = family /\ e.key = key THEN e.duration ELSE 0
  <2>1. n + 1 \notin Mine(r, family, key)
    BY <1>2, <1>6
  <2> QED  BY <1>2, <1>6, <2>1 DEF Gain
<1>13. f[n] = g[n] /\ f[n] \in Nat
  <2>1. n \in 0 .. n
    BY <1>2
  <2> QED  BY <1>8, <1>10, <2>1
<1> QED  BY <1>4, <1>5, <1>11, <1>12, <1>13 DEF q, n

\* Nothing is spent on a key without records.
LEMMA SpentNone ==
    ASSUME NEW r, IsLog(r), NEW family \in Timed, NEW key,
           Mine(r, family, key) = {}
    PROVE  Spent(r, family, key) = 0
<1> DEFINE n == Len(r)
<1>1. n \in Nat
  BY DEF IsLog
<1>2. PICK f : Adds(r, family, key, f) /\ Spent(r, family, key) = f[n]
  BY SpentAdds
<1>3. f[0] = 0 /\ \A i \in 1 .. n : f[i] = f[i - 1] + 0
  BY <1>2 DEF Adds, Gain
<1> DEFINE T == {i \in Nat : f[i] = 0}
<1> HIDE DEF n
<1>4. 0 \in T
  BY <1>3
<1>5. ASSUME NEW i \in 1 .. n, i - 1 \in T PROVE i \in T
  BY <1>1, <1>3, <1>5
<1>6. \A i \in 0 .. n : i \in T
  <2> HIDE DEF T
  <2> QED  BY <1>1, <1>4, <1>5, UpTo
<1>7. n \in 0 .. n
  BY <1>1
<1> QED  BY <1>2, <1>6, <1>7

-----------------------------------------------------------------------------
(* The registry as an account of the records.                               *)

\* The records of a key that bucket b holds.
Below(r, family, key, b) ==
    {i \in Mine(r, family, key) : r[i].duration <= Buckets[b]}

HistogramExact(h, r, family, key) ==
    /\ h.count = Cardinality(Mine(r, family, key))
    /\ h.sum = Spent(r, family, key)
    /\ \A b \in DOMAIN Buckets :
          h.buckets[b] = Cardinality(Below(r, family, key, b))
    /\ h.buckets = [b \in DOMAIN Buckets |-> h.buckets[b]]

\* A bucket after one more record.
BelowGrows(r, e, family, key, b) ==
    /\ Below(r, family, key, b) \subseteq DOMAIN r
    /\ e.family = family /\ e.key = key /\ e.duration <= Buckets[b] =>
          Below(Append(r, e), family, key, b) =
            Below(r, family, key, b) \cup {Len(r) + 1}
    /\ ~(e.family = family /\ e.key = key /\ e.duration <= Buckets[b]) =>
          Below(Append(r, e), family, key, b) = Below(r, family, key, b)

LEMMA BelowAppended ==
    ASSUME NEW r, IsLog(r), NEW e, NEW family, NEW key, NEW b
    PROVE  BelowGrows(r, e, family, key, b)
<1>1. PICK S : r \in Seq(S)
  BY DEF IsLog
<1>2. DOMAIN r = 1 .. Len(r) /\ Len(r) + 1 \notin 1 .. Len(r)
  BY <1>1
<1>3. /\ Append(r, e)[Len(r) + 1] = e
      /\ \A i \in 1 .. Len(r) : Append(r, e)[i] = r[i]
  BY <1>1, Appended
<1>4. MineGrows(r, e, family, key)
  BY MineAppended
<1>5. CASE e.family = family /\ e.key = key
  BY <1>2, <1>3, <1>4, <1>5 DEF Below, BelowGrows, MineGrows
<1>6. CASE ~(e.family = family /\ e.key = key)
  BY <1>2, <1>3, <1>4, <1>6 DEF Below, BelowGrows, MineGrows
<1> QED  BY <1>5, <1>6

\* An observation brings the histogram of its key up to date.
LEMMA HistogramObserved ==
    ASSUME NEW r, IsLog(r), NEW family \in Timed, NEW key, NEW duration \in Nat,
           NEW e, e.family = family, e.key = key, e.duration = duration,
           NEW h, HistogramExact(h, r, family, key)
    PROVE  HistogramExact(Observe(h, duration), Append(r, e), family, key)
<1> DEFINE q == Append(r, e)
           k == Observe(h, duration)
<1>1. MineGrows(r, e, family, key)
  BY MineAppended
<1>2. k.count = Cardinality(Mine(q, family, key))
  <2>1. /\ Mine(q, family, key) = Mine(r, family, key) \cup {Len(r) + 1}
        /\ Mine(r, family, key) \subseteq DOMAIN r
    BY <1>1 DEF MineGrows
  <2>2. Cardinality(Mine(q, family, key)) = Cardinality(Mine(r, family, key)) + 1
    BY <2>1, OneMore
  <2>3. k.count = h.count + 1
    BY DEF Observe
  <2> HIDE DEF q, k
  <2> QED  BY <2>2, <2>3 DEF HistogramExact
<1>3. k.sum = Spent(q, family, key)
  <2>1. Spent(q, family, key) = Spent(r, family, key) + duration
    BY SpentAppended
  <2>2. k.sum = h.sum + duration
    BY DEF Observe
  <2> HIDE DEF q, k
  <2> QED  BY <2>1, <2>2 DEF HistogramExact
<1>4. ASSUME NEW b \in DOMAIN Buckets
      PROVE  k.buckets[b] = Cardinality(Below(q, family, key, b))
  <2>1. BelowGrows(r, e, family, key, b)
    BY BelowAppended
  <2>2. k.buckets[b] = IF duration <= Buckets[b] THEN h.buckets[b] + 1
                       ELSE h.buckets[b]
    BY DEF Observe
  <2>3. h.buckets[b] = Cardinality(Below(r, family, key, b))
    BY DEF HistogramExact
  <2>4. CASE duration <= Buckets[b]
    <3>1. /\ Below(q, family, key, b) = Below(r, family, key, b) \cup {Len(r) + 1}
          /\ Below(r, family, key, b) \subseteq DOMAIN r
      BY <2>1, <2>4 DEF BelowGrows
    <3>2. Cardinality(Below(q, family, key, b)) =
            Cardinality(Below(r, family, key, b)) + 1
      BY <3>1, OneMore
    <3> HIDE DEF q, k
    <3> QED  BY <2>2, <2>3, <2>4, <3>2
  <2>5. CASE ~(duration <= Buckets[b])
    <3>1. Below(q, family, key, b) = Below(r, family, key, b)
      BY <2>1, <2>5 DEF BelowGrows
    <3> HIDE DEF q, k
    <3> QED  BY <2>2, <2>3, <2>5, <3>1
  <2> QED  BY <2>4, <2>5
<1>5. k.buckets = [b \in DOMAIN Buckets |-> k.buckets[b]]
  BY DEF Observe
<1>6. HistogramExact(k, q, family, key)
  <2> HIDE DEF k, q
  <2> QED  BY <1>2, <1>3, <1>4, <1>5 DEF HistogramExact
<1> QED  BY <1>6

\* The other histograms stay exact.
LEMMA HistogramKept ==
    ASSUME NEW r, IsLog(r), NEW family \in Timed, NEW key,
           NEW e, ~(e.family = family /\ e.key = key),
           e.family \in Timed => e.duration \in Nat,
           NEW h, HistogramExact(h, r, family, key)
    PROVE  HistogramExact(h, Append(r, e), family, key)
<1>1. Mine(Append(r, e), family, key) = Mine(r, family, key)
  BY MineAppended DEF MineGrows
<1>2. Spent(Append(r, e), family, key) = Spent(r, family, key)
  <2>1. /\ Spent(r, family, key) \in Nat
        /\ Spent(Append(r, e), family, key) = Spent(r, family, key) + 0
    BY SpentAppended
  <2> QED  BY <2>1
<1>3. \A b : Below(Append(r, e), family, key, b) = Below(r, family, key, b)
  BY BelowAppended DEF BelowGrows
<1> QED  BY <1>1, <1>2, <1>3 DEF HistogramExact

\* or_default: a key without records.
LEMMA HistogramFresh ==
    ASSUME NEW r, IsLog(r), NEW family \in Timed, NEW key,
           Mine(r, family, key) = {}
    PROVE  HistogramExact(NoHistogram, r, family, key)
<1>1. Spent(r, family, key) = 0
  BY SpentNone
<1>2. \A b : Below(r, family, key, b) = {}
  BY DEF Below
<1>3. Cardinality({}) = 0
  BY FS_EmptySet
<1> QED  BY <1>1, <1>2, <1>3 DEF HistogramExact, NoHistogram

Keys(r, family) == {r[i].key : i \in Of(r, family)}

FamilyExact(fam, r, family) ==
    /\ DOMAIN fam = Keys(r, family)
    /\ \A key \in Keys(r, family) : HistogramExact(fam[key], r, family, key)

\* A record of the family and its observation keep it exact.
LEMMA FamilyObserved ==
    ASSUME NEW r, IsLog(r), NEW family \in Timed, NEW e, e.family = family,
           e.duration \in Nat, NEW fam, FamilyExact(fam, r, family)
    PROVE  FamilyExact(ObserveKey(fam, e.key, e.duration), Append(r, e), family)
<1> DEFINE q == Append(r, e)
           new == ObserveKey(fam, e.key, e.duration)
           old == IF e.key \in DOMAIN fam THEN fam[e.key] ELSE NoHistogram
<1>1. PICK S : r \in Seq(S)
  BY DEF IsLog
<1>2. /\ Of(r, family) \subseteq DOMAIN r
      /\ Of(q, family) = Of(r, family) \cup {Len(r) + 1}
  BY OfAppended
<1>3. /\ DOMAIN r = 1 .. Len(r) /\ q[Len(r) + 1] = e
      /\ \A i \in 1 .. Len(r) : q[i] = r[i]
  BY <1>1, Appended
<1>4. Keys(q, family) = Keys(r, family) \cup {e.key}
  <2> HIDE DEF q
  <2> QED  BY <1>2, <1>3 DEF Keys
<1>5. DOMAIN new = Keys(q, family)
  BY <1>4 DEF ObserveKey, FamilyExact
<1>6. HistogramExact(old, r, family, e.key)
  <2>1. CASE e.key \in DOMAIN fam
    BY <2>1 DEF FamilyExact
  <2>2. CASE e.key \notin DOMAIN fam
    <3>1. Mine(r, family, e.key) = {}
      BY <2>2 DEF FamilyExact, Keys, Mine
    <3> QED  BY <2>2, <3>1, HistogramFresh
  <2> QED  BY <2>1, <2>2
<1>7. /\ new[e.key] = Observe(old, e.duration)
      /\ \A key \in Keys(r, family) \ {e.key} : new[key] = fam[key]
  BY DEF ObserveKey, FamilyExact
<1> HIDE DEF new, old
<1>8. HistogramExact(new[e.key], q, family, e.key)
  BY <1>6, <1>7, HistogramObserved
<1>9. ASSUME NEW key \in Keys(r, family) \ {e.key}
      PROVE  HistogramExact(new[key], q, family, key)
  <2>1. HistogramExact(fam[key], r, family, key)
    BY DEF FamilyExact
  <2>2. HistogramExact(fam[key], q, family, key)
    BY <2>1, HistogramKept
  <2> QED  BY <1>7, <2>2
<1> QED  BY <1>4, <1>5, <1>8, <1>9 DEF FamilyExact, new

\* A record of another family is none of its business.
LEMMA FamilyKept ==
    ASSUME NEW r, IsLog(r), NEW family \in Timed, NEW e, e.family # family,
           e.family \in Timed => e.duration \in Nat,
           NEW fam, FamilyExact(fam, r, family)
    PROVE  FamilyExact(fam, Append(r, e), family)
<1> DEFINE q == Append(r, e)
<1>1. PICK S : r \in Seq(S)
  BY DEF IsLog
<1>2. Of(r, family) \subseteq DOMAIN r /\ Of(q, family) = Of(r, family)
  BY OfAppended
<1>3. DOMAIN r = 1 .. Len(r) /\ \A i \in 1 .. Len(r) : q[i] = r[i]
  BY <1>1, Appended
<1> HIDE DEF q
<1>4. Keys(q, family) = Keys(r, family)
  BY <1>2, <1>3 DEF Keys
<1>5. ASSUME NEW key \in Keys(r, family)
      PROVE  HistogramExact(fam[key], q, family, key)
  <2>1. HistogramExact(fam[key], r, family, key)
    BY DEF FamilyExact
  <2> QED  BY <2>1, HistogramKept DEF q
<1>6. FamilyExact(fam, q, family)
  BY <1>4, <1>5 DEF FamilyExact
<1> QED  BY <1>6 DEF q

-----------------------------------------------------------------------------
(* The policy part of the registry.                                         *)

\* The cycles of the reload task that ended with outcome o, and the records
\* that date the policy: every one but a failure.
Cycles(r, o) == {i \in Of(r, "policy") : r[i].outcome = o}
Good(r) == {i \in Of(r, "policy") : r[i].outcome # "failure"}

IsLast(i, T) == i \in T /\ \A h \in T : h <= i

PolicyCounts(reloads, r) ==
    /\ reloads \in [Outcomes -> Nat]
    /\ \A o \in Outcomes : reloads[o] = Cardinality(Cycles(r, o))

\* The gauges show the last record and the last good one.
PolicyGauges(m, r) ==
    \E i \in Of(r, "policy"), j \in Good(r) :
        /\ IsLast(i, Of(r, "policy")) /\ IsLast(j, Good(r))
        /\ m.policy_active_keys = r[i].active
        /\ m.policy_last_success = r[j].at
        /\ r[i].active \in Nat /\ r[j].at \in Int

\* The sets of records that an added one may enlarge.
CyclesGrow(r, e, o) ==
    /\ Cycles(r, o) \subseteq DOMAIN r
    /\ e.family = "policy" /\ e.outcome = o =>
          Cycles(Append(r, e), o) = Cycles(r, o) \cup {Len(r) + 1}
    /\ ~(e.family = "policy" /\ e.outcome = o) =>
          Cycles(Append(r, e), o) = Cycles(r, o)

GoodGrows(r, e) ==
    /\ Good(r) \subseteq DOMAIN r
    /\ e.family = "policy" /\ e.outcome # "failure" =>
          Good(Append(r, e)) = Good(r) \cup {Len(r) + 1}
    /\ ~(e.family = "policy" /\ e.outcome # "failure") =>
          Good(Append(r, e)) = Good(r)

LEMMA PolicyAppended ==
    ASSUME NEW r, IsLog(r), NEW e
    PROVE  GoodGrows(r, e) /\ \A o : CyclesGrow(r, e, o)
<1> DEFINE E == Of(r, "policy")
           F == Of(Append(r, e), "policy")
<1>1. PICK S : r \in Seq(S)
  BY DEF IsLog
<1>2. DOMAIN r = 1 .. Len(r) /\ Len(r) + 1 \notin 1 .. Len(r)
  BY <1>1
<1>3. /\ Append(r, e)[Len(r) + 1] = e
      /\ \A i \in 1 .. Len(r) : Append(r, e)[i] = r[i]
  BY <1>1, Appended
<1>4. /\ E \subseteq 1 .. Len(r)
      /\ e.family = "policy" => F = E \cup {Len(r) + 1}
      /\ e.family # "policy" => F = E
  BY <1>2, OfAppended
<1>5. GoodGrows(r, e)
  BY <1>2, <1>3, <1>4 DEF Good, GoodGrows
<1>6. \A o : CyclesGrow(r, e, o)
  BY <1>2, <1>3, <1>4 DEF Cycles, CyclesGrow
<1> QED  BY <1>5, <1>6

\* A cycle counts itself.
LEMMA CountsRecorded ==
    ASSUME NEW r, IsLog(r), NEW e, e.family = "policy", e.outcome \in Outcomes,
           NEW old, PolicyCounts(old, r),
           NEW new, new = [old EXCEPT ![e.outcome] = @ + 1]
    PROVE  PolicyCounts(new, Append(r, e))
<1>1. new \in [Outcomes -> Nat]
  BY DEF PolicyCounts
<1>2. ASSUME NEW o \in Outcomes
      PROVE  new[o] = Cardinality(Cycles(Append(r, e), o))
  <2>1. CyclesGrow(r, e, o)
    BY PolicyAppended
  <2>2. old[o] = Cardinality(Cycles(r, o))
    BY DEF PolicyCounts
  <2>3. CASE e.outcome = o
    <3>1. new[o] = old[o] + 1
      BY <2>3 DEF PolicyCounts
    <3>2. /\ Cycles(Append(r, e), o) = Cycles(r, o) \cup {Len(r) + 1}
          /\ Cycles(r, o) \subseteq DOMAIN r
      BY <2>1, <2>3 DEF CyclesGrow
    <3>3. Cardinality(Cycles(Append(r, e), o)) = Cardinality(Cycles(r, o)) + 1
      BY <3>2, OneMore
    <3> QED  BY <2>2, <3>1, <3>3
  <2>4. CASE e.outcome # o
    <3>1. new[o] = old[o]
      BY <2>4 DEF PolicyCounts
    <3>2. Cycles(Append(r, e), o) = Cycles(r, o)
      BY <2>1, <2>4 DEF CyclesGrow
    <3> QED  BY <2>2, <3>1, <3>2
  <2> QED  BY <2>3, <2>4
<1> QED  BY <1>1, <1>2 DEF PolicyCounts

\* Any other record counts as no cycle.
LEMMA CountsKept ==
    ASSUME NEW r, IsLog(r), NEW e,
           ~(e.family = "policy" /\ e.outcome \in Outcomes),
           NEW reloads, PolicyCounts(reloads, r)
    PROVE  PolicyCounts(reloads, Append(r, e))
<1>1. ASSUME NEW o \in Outcomes
      PROVE  Cycles(Append(r, e), o) = Cycles(r, o)
  <2>1. CyclesGrow(r, e, o)
    BY PolicyAppended
  <2> QED  BY <2>1 DEF CyclesGrow
<1> QED  BY <1>1 DEF PolicyCounts

\* An added record is the last one of the sets it enters.
LEMMA LastAdded ==
    ASSUME NEW r, IsLog(r), NEW T, T \subseteq DOMAIN r
    PROVE  IsLast(Len(r) + 1, T \cup {Len(r) + 1})
<1>1. DOMAIN r = 1 .. Len(r) /\ Len(r) \in Nat
  BY DEF IsLog
<1> QED  BY <1>1 DEF IsLast

\* A policy record moves the gauges: to itself, and its date when it is good.
LEMMA GaugesRecorded ==
    ASSUME NEW r, IsLog(r), NEW e, e.family = "policy", e.at \in Int,
           e.active \in Nat, NEW m, NEW n, n.policy_active_keys = e.active,
           e.outcome = "failure" =>
              /\ PolicyGauges(m, r)
              /\ n.policy_last_success = m.policy_last_success,
           e.outcome # "failure" => n.policy_last_success = e.at
    PROVE  PolicyGauges(n, Append(r, e))
<1> DEFINE q == Append(r, e)
           k == Len(r) + 1
<1>1. PICK S : r \in Seq(S)
  BY DEF IsLog
<1>2. /\ DOMAIN r = 1 .. Len(r) /\ q[k] = e
      /\ \A i \in 1 .. Len(r) : q[i] = r[i]
  BY <1>1, Appended
<1>3. Of(r, "policy") \subseteq DOMAIN r /\ Of(q, "policy") = Of(r, "policy") \cup {k}
  BY OfAppended
<1>4. GoodGrows(r, e)
  BY PolicyAppended
<1>5. IsLast(k, Of(q, "policy")) /\ k \in Of(q, "policy")
  BY <1>3, LastAdded
<1>6. CASE e.outcome = "failure"
  <2>1. Good(q) = Good(r) /\ Good(r) \subseteq DOMAIN r
    BY <1>4, <1>6 DEF GoodGrows
  <2>2. PICK j \in Good(r) :
          /\ IsLast(j, Good(r)) /\ m.policy_last_success = r[j].at
          /\ r[j].at \in Int
    BY <1>6 DEF PolicyGauges
  <2>3. q[j] = r[j]
    BY <1>2, <2>1
  <2> HIDE DEF q, k
  <2>4. PolicyGauges(n, q)
    BY <1>2, <1>5, <1>6, <2>1, <2>2, <2>3 DEF PolicyGauges
  <2> QED  BY <2>4 DEF q
<1>7. CASE e.outcome # "failure"
  <2>1. Good(q) = Good(r) \cup {k} /\ Good(r) \subseteq DOMAIN r
    BY <1>4, <1>7 DEF GoodGrows
  <2>2. IsLast(k, Good(q)) /\ k \in Good(q)
    BY <2>1, LastAdded
  <2> HIDE DEF q, k
  <2>3. PolicyGauges(n, q)
    BY <1>2, <1>5, <1>7, <2>2 DEF PolicyGauges
  <2> QED  BY <2>3 DEF q
<1> QED  BY <1>6, <1>7

\* Any other record leaves them alone.
LEMMA GaugesKept ==
    ASSUME NEW r, IsLog(r), NEW e, e.family # "policy", NEW m, PolicyGauges(m, r),
           NEW n, n.policy_active_keys = m.policy_active_keys,
           n.policy_last_success = m.policy_last_success
    PROVE  PolicyGauges(n, Append(r, e))
<1> DEFINE q == Append(r, e)
<1>1. PICK S : r \in Seq(S)
  BY DEF IsLog
<1>2. DOMAIN r = 1 .. Len(r) /\ \A i \in 1 .. Len(r) : q[i] = r[i]
  BY <1>1, Appended
<1>3. Of(r, "policy") \subseteq DOMAIN r /\ Of(q, "policy") = Of(r, "policy")
  BY OfAppended
<1>4. GoodGrows(r, e)
  BY PolicyAppended
<1>5. Good(q) = Good(r) /\ Good(r) \subseteq DOMAIN r
  BY <1>4 DEF GoodGrows
<1>6. PICK i \in Of(r, "policy"), j \in Good(r) :
        /\ IsLast(i, Of(r, "policy")) /\ IsLast(j, Good(r))
        /\ m.policy_active_keys = r[i].active
        /\ m.policy_last_success = r[j].at
        /\ r[i].active \in Nat /\ r[j].at \in Int
  BY DEF PolicyGauges
<1>7. q[i] = r[i] /\ q[j] = r[j]
  BY <1>2, <1>3, <1>5
<1> HIDE DEF q
<1>8. PolicyGauges(n, q)
  BY <1>3, <1>5, <1>6, <1>7 DEF PolicyGauges
<1> QED  BY <1>8 DEF q

-----------------------------------------------------------------------------
(* The registry as a whole.                                                 *)

Fields == {"http_requests", "resolve_requests", "policy_reloads",
           "policy_active_keys", "policy_last_success"}

\* m is the account of the records r; the policy is seeded when it has a file.
Account(m, r, seeded) ==
    /\ FamilyExact(m.http_requests, r, "http")
    /\ FamilyExact(m.resolve_requests, r, "resolve")
    /\ PolicyCounts(m.policy_reloads, r)
    /\ seeded => PolicyGauges(m, r)
    /\ ~seeded => m.policy_last_success = None /\ Of(r, "policy") = {}

LEMMA AccountStarts ==
    ASSUME NEW m, m.http_requests = Empty, m.resolve_requests = Empty,
           m.policy_reloads = [o \in Outcomes |-> 0],
           m.policy_last_success = None
    PROVE  IsLog(<<>>) /\ Account(m, <<>>, FALSE)
<1>1. <<>> \in Seq({}) /\ DOMAIN <<>> = {}
  OBVIOUS
<1>2. IsLog(<<>>)
  BY <1>1 DEF IsLog
<1>3. \A family : Of(<<>>, family) = {}
  BY <1>1 DEF Of
<1>4. \A family : FamilyExact(Empty, <<>>, family)
  BY <1>3 DEF FamilyExact, Keys, Empty
<1>5. \A o : Cycles(<<>>, o) = {}
  BY <1>3 DEF Cycles
<1>6. Cardinality({}) = 0
  BY FS_EmptySet
<1>7. PolicyCounts(m.policy_reloads, <<>>)
  <2>1. m.policy_reloads \in [Outcomes -> Nat]
    <3> DEFINE zero == [o \in Outcomes |-> 0]
    <3>1. zero \in [Outcomes -> Nat]
      OBVIOUS
    <3>2. m.policy_reloads = zero
      OBVIOUS
    <3> HIDE DEF zero
    <3> QED  BY <3>1, <3>2
  <2>2. \A o \in Outcomes : m.policy_reloads[o] = Cardinality(Cycles(<<>>, o))
    BY <1>5, <1>6
  <2> QED  BY <2>1, <2>2 DEF PolicyCounts
<1> QED  BY <1>2, <1>3, <1>4, <1>7 DEF Account

LEMMA AccountHttp ==
    ASSUME NEW m, NEW r, NEW seeded, Account(m, r, seeded), IsLog(r),
           NEW e, e.family = "http", e.duration \in Nat, NEW n,
           n.http_requests = ObserveKey(m.http_requests, e.key, e.duration),
           n.resolve_requests = m.resolve_requests,
           n.policy_reloads = m.policy_reloads,
           n.policy_active_keys = m.policy_active_keys,
           n.policy_last_success = m.policy_last_success
    PROVE  Account(n, Append(r, e), seeded)
<1>1. FamilyExact(n.http_requests, Append(r, e), "http")
  BY FamilyObserved DEF Account, Timed
<1>2. FamilyExact(n.resolve_requests, Append(r, e), "resolve")
  BY FamilyKept DEF Account, Timed
<1>3. PolicyCounts(n.policy_reloads, Append(r, e))
  BY CountsKept DEF Account
<1>4. seeded => PolicyGauges(n, Append(r, e))
  BY GaugesKept DEF Account
<1>5. Of(Append(r, e), "policy") = Of(r, "policy")
  BY OfAppended
<1> QED  BY <1>1, <1>2, <1>3, <1>4, <1>5 DEF Account

LEMMA AccountResolve ==
    ASSUME NEW m, NEW r, NEW seeded, Account(m, r, seeded), IsLog(r),
           NEW e, e.family = "resolve", e.duration \in Nat, NEW n,
           n.resolve_requests = ObserveKey(m.resolve_requests, e.key, e.duration),
           n.http_requests = m.http_requests,
           n.policy_reloads = m.policy_reloads,
           n.policy_active_keys = m.policy_active_keys,
           n.policy_last_success = m.policy_last_success
    PROVE  Account(n, Append(r, e), seeded)
<1>1. FamilyExact(n.resolve_requests, Append(r, e), "resolve")
  BY FamilyObserved DEF Account, Timed
<1>2. FamilyExact(n.http_requests, Append(r, e), "http")
  BY FamilyKept DEF Account, Timed
<1>3. PolicyCounts(n.policy_reloads, Append(r, e))
  BY CountsKept DEF Account
<1>4. seeded => PolicyGauges(n, Append(r, e))
  BY GaugesKept DEF Account
<1>5. Of(Append(r, e), "policy") = Of(r, "policy")
  BY OfAppended
<1> QED  BY <1>1, <1>2, <1>3, <1>4, <1>5 DEF Account

\* A cycle of the reload task, or the seed of the gauges.
LEMMA AccountPolicy ==
    ASSUME NEW m, NEW r, NEW seeded, Account(m, r, seeded), IsLog(r),
           NEW e, e.family = "policy", e.at \in Int, e.active \in Nat,
           e.outcome = "failure" => seeded, NEW n,
           n.http_requests = m.http_requests,
           n.resolve_requests = m.resolve_requests,
           PolicyCounts(n.policy_reloads, Append(r, e)),
           n.policy_active_keys = e.active,
           n.policy_last_success =
              IF e.outcome = "failure" THEN m.policy_last_success ELSE e.at
    PROVE  Account(n, Append(r, e), TRUE)
<1>1. FamilyExact(n.resolve_requests, Append(r, e), "resolve")
  BY FamilyKept DEF Account, Timed
<1>2. FamilyExact(n.http_requests, Append(r, e), "http")
  BY FamilyKept DEF Account, Timed
<1>3. e.outcome = "failure" => PolicyGauges(m, r)
  BY DEF Account
<1>4. PolicyGauges(n, Append(r, e))
  BY <1>3, GaugesRecorded
<1> QED  BY <1>1, <1>2, <1>4 DEF Account

-----------------------------------------------------------------------------
(* Resolutions and the HTTP requests they belong to.                        *)

Posts(r) == {i \in Of(r, "http") : IsResolve(r[i].key)}

PostsGrow(r, e) ==
    /\ Posts(r) \subseteq DOMAIN r
    /\ e.family = "http" /\ IsResolve(e.key) =>
          Posts(Append(r, e)) = Posts(r) \cup {Len(r) + 1}
    /\ ~(e.family = "http" /\ IsResolve(e.key)) =>
          Posts(Append(r, e)) = Posts(r)

LEMMA PostsAppended ==
    ASSUME NEW r, IsLog(r), NEW e
    PROVE  PostsGrow(r, e)
<1>1. PICK S : r \in Seq(S)
  BY DEF IsLog
<1>2. DOMAIN r = 1 .. Len(r) /\ Len(r) + 1 \notin 1 .. Len(r)
  BY <1>1
<1>3. /\ Append(r, e)[Len(r) + 1] = e
      /\ \A i \in 1 .. Len(r) : Append(r, e)[i] = r[i]
  BY <1>1, Appended
<1>4. /\ Of(r, "http") \subseteq 1 .. Len(r)
      /\ e.family = "http" =>
           Of(Append(r, e), "http") = Of(r, "http") \cup {Len(r) + 1}
      /\ e.family # "http" => Of(Append(r, e), "http") = Of(r, "http")
  BY <1>2, OfAppended
<1> QED  BY <1>2, <1>3, <1>4 DEF Posts, PostsGrow

\* How many posts and resolutions there are after one more record.
Posted(r) == Cardinality(Posts(r))
Resolutions(r) == Cardinality(Of(r, "resolve"))

LEMMA CountsAppended ==
    ASSUME NEW r, IsLog(r), NEW e
    PROVE  /\ Posted(r) \in Nat /\ Resolutions(r) \in Nat
           /\ e.family = "http" /\ IsResolve(e.key) =>
                Posted(Append(r, e)) = Posted(r) + 1
           /\ ~(e.family = "http" /\ IsResolve(e.key)) =>
                Posted(Append(r, e)) = Posted(r)
           /\ e.family = "resolve" =>
                Resolutions(Append(r, e)) = Resolutions(r) + 1
           /\ e.family # "resolve" =>
                Resolutions(Append(r, e)) = Resolutions(r)
<1>1. PostsGrow(r, e)
  BY PostsAppended
<1>2. /\ Of(r, "resolve") \subseteq DOMAIN r
      /\ e.family = "resolve" =>
           Of(Append(r, e), "resolve") = Of(r, "resolve") \cup {Len(r) + 1}
      /\ e.family # "resolve" => Of(Append(r, e), "resolve") = Of(r, "resolve")
  BY OfAppended
<1>3. Posted(r) \in Nat /\ Resolutions(r) \in Nat
  BY <1>1, <1>2, FiniteOf DEF Posted, Resolutions, PostsGrow
<1>4. Cardinality(Posts(r) \cup {Len(r) + 1}) = Posted(r) + 1
  BY <1>1, OneMore DEF Posted, PostsGrow
<1>5. Cardinality(Of(r, "resolve") \cup {Len(r) + 1}) = Resolutions(r) + 1
  BY <1>2, OneMore DEF Resolutions
<1>6. /\ e.family = "http" /\ IsResolve(e.key) =>
            Posted(Append(r, e)) = Posted(r) + 1
      /\ ~(e.family = "http" /\ IsResolve(e.key)) =>
            Posted(Append(r, e)) = Posted(r)
  BY <1>1, <1>4 DEF Posted, PostsGrow
<1>7. /\ e.family = "resolve" => Resolutions(Append(r, e)) = Resolutions(r) + 1
      /\ e.family # "resolve" => Resolutions(Append(r, e)) = Resolutions(r)
  BY <1>2, <1>5 DEF Resolutions
<1> QED  BY <1>3, <1>6, <1>7

-----------------------------------------------------------------------------
(* What a scrape has seen.                                                  *)

\* The first n records.
Seen(r, n) == SubSeq(r, 1, n)

LEMMA SeenIsLog ==
    ASSUME NEW r, IsLog(r), NEW n \in 0 .. Len(r)
    PROVE  /\ IsLog(Seen(r, n)) /\ Len(Seen(r, n)) = n
           /\ DOMAIN Seen(r, n) = 1 .. n
           /\ \A i \in 1 .. n : Seen(r, n)[i] = r[i]
<1>1. PICK S : r \in Seq(S)
  BY DEF IsLog
<1>2. n \in Nat /\ Len(r) \in Nat /\ 1 .. n \subseteq 1 .. Len(r) /\ DOMAIN r = 1 .. Len(r)
  BY <1>1
<1>3. /\ Seen(r, n) \in Seq(S) /\ Len(Seen(r, n)) = n
      /\ DOMAIN Seen(r, n) = 1 .. n
      /\ \A i \in 1 .. n : Seen(r, n)[i] = r[i]
  BY <1>1, <1>2 DEF Seen
<1> QED  BY <1>2, <1>3 DEF IsLog

LEMMA SeenAll ==
    ASSUME NEW r, IsLog(r)
    PROVE  Seen(r, Len(r)) = r
<1>1. PICK S : r \in Seq(S)
  BY DEF IsLog
<1> QED  BY <1>1 DEF Seen

\* Later records do not change it.
LEMMA SeenStays ==
    ASSUME NEW r, IsLog(r), NEW e, NEW n \in 0 .. Len(r)
    PROVE  n \in 0 .. Len(Append(r, e)) /\ Seen(Append(r, e), n) = Seen(r, n)
<1>1. PICK S : r \in Seq(S)
  BY DEF IsLog
<1>2. /\ n \in Nat /\ Len(r) \in Nat /\ n <= Len(r) 
      /\ Len(Append(r, e)) = Len(r) + 1
      /\ Append(r, e) \in Seq(S \cup {e})
      /\ \A i \in 1 .. Len(r) : Append(r, e)[i] = r[i]
  BY <1>1, Appended
<1>3. Seen(Append(r, e), n) = [i \in 1 .. n |-> Append(r, e)[i]]
  BY <1>2 DEF Seen
<1>4. Seen(r, n) = [i \in 1 .. n |-> r[i]]
  BY <1>1, <1>2 DEF Seen
<1>5. \A i \in 1 .. n : i \in 1 .. Len(r)
  BY <1>2
<1> QED  BY <1>2, <1>3, <1>4, <1>5

\* One more is one record appended.
LEMMA SeenNext ==
    ASSUME NEW r, IsLog(r), NEW n \in 1 .. Len(r)
    PROVE  Seen(r, n) = Append(Seen(r, n - 1), r[n])
<1>1. PICK S : r \in Seq(S)
  BY DEF IsLog
<1>2. n \in Nat /\ Len(r) \in Nat /\ n \in 0 .. Len(r) /\ n - 1 \in 0 .. Len(r)
  BY <1>1
<1>3. PICK s : s = Seen(r, n - 1)
  OBVIOUS
<1>4. /\ s \in Seq(S) /\ Len(s) = n - 1 /\ \A i \in 1 .. n - 1 : s[i] = r[i]
  BY <1>1, <1>2, <1>3 DEF Seen
<1>5. /\ Append(s, r[n]) = [i \in 1 .. n |-> IF i = n THEN r[n] ELSE s[i]]
  BY <1>2, <1>4
<1>6. Seen(r, n) = [i \in 1 .. n |-> r[i]]
  BY <1>1, <1>2 DEF Seen
<1>7. \A i \in 1 .. n : i = n \/ i \in 1 .. n - 1
  BY <1>2
<1> QED  BY <1>3, <1>4, <1>5, <1>6, <1>7

-----------------------------------------------------------------------------
(* The registry is exact in every reachable state.                          *)

RegistryInv ==
    /\ wall \in WallClock /\ file \in BOOLEAN /\ started \in BOOLEAN
    /\ DOMAIN inner = Fields
    /\ IsLog(log)
    /\ Account(inner, log, started /\ file)

\* A step leaves the registry alone or adds a record and accounts for it.
LEMMA HttpStep ==
    ASSUME RegistryInv, NEW key, NEW duration \in Nat,
           RecordHttpRequest(key, duration)
    PROVE  /\ DOMAIN inner' = Fields /\ IsLog(log')
           /\ Account(inner', log', started /\ file)
           /\ log' = Append(log, [family |-> "http", key |-> key,
                                  duration |-> duration])
<1> DEFINE e == [family |-> "http", key |-> key, duration |-> duration]
<1>1. e.family = "http" /\ e.key = key /\ e.duration = duration
  OBVIOUS
<1>2. log' = Append(log, e)
  BY DEF RecordHttpRequest
<1>3. /\ DOMAIN inner' = Fields
      /\ inner'.http_requests = ObserveKey(inner.http_requests, e.key, e.duration)
      /\ inner'.resolve_requests = inner.resolve_requests
      /\ inner'.policy_reloads = inner.policy_reloads
      /\ inner'.policy_active_keys = inner.policy_active_keys
      /\ inner'.policy_last_success = inner.policy_last_success
  BY DEF RecordHttpRequest, RegistryInv, Fields
<1> HIDE DEF e
<1>4. IsLog(log')
  BY <1>1, <1>2, LongerLog DEF RegistryInv
<1>5. Account(inner', log', started /\ file)
  BY <1>1, <1>2, <1>3, AccountHttp DEF RegistryInv
<1> QED  BY <1>2, <1>3, <1>4, <1>5 DEF e

LEMMA ResolveStep ==
    ASSUME RegistryInv, NEW key, NEW duration \in Nat,
           RecordResolveRequest(key, duration)
    PROVE  /\ DOMAIN inner' = Fields /\ IsLog(log')
           /\ Account(inner', log', started /\ file)
           /\ log' = Append(log, [family |-> "resolve", key |-> key,
                                  duration |-> duration])
<1> DEFINE e == [family |-> "resolve", key |-> key, duration |-> duration]
<1>1. e.family = "resolve" /\ e.key = key /\ e.duration = duration
  OBVIOUS
<1>2. log' = Append(log, e)
  BY DEF RecordResolveRequest
<1>3. /\ DOMAIN inner' = Fields
      /\ inner'.resolve_requests =
            ObserveKey(inner.resolve_requests, e.key, e.duration)
      /\ inner'.http_requests = inner.http_requests
      /\ inner'.policy_reloads = inner.policy_reloads
      /\ inner'.policy_active_keys = inner.policy_active_keys
      /\ inner'.policy_last_success = inner.policy_last_success
  BY DEF RecordResolveRequest, RegistryInv, Fields
<1> HIDE DEF e
<1>4. IsLog(log')
  BY <1>1, <1>2, LongerLog DEF RegistryInv
<1>5. Account(inner', log', started /\ file)
  BY <1>1, <1>2, <1>3, AccountResolve DEF RegistryInv
<1> QED  BY <1>2, <1>3, <1>4, <1>5 DEF e

LEMMA ReloadStep ==
    ASSUME RegistryInv, NEW outcome \in Outcomes, NEW active \in Nat, started /\ file,
           RecordPolicyReload(outcome, active)
    PROVE  /\ DOMAIN inner' = Fields /\ IsLog(log')
           /\ Account(inner', log', TRUE)
           /\ log' = Append(log, [family |-> "policy", outcome |-> outcome,
                                  active |-> active, at |-> wall])
<1> DEFINE e == [family |-> "policy", outcome |-> outcome,
                 active |-> active, at |-> wall]
<1>1. /\ e.family = "policy" /\ e.outcome = outcome /\ e.active = active
      /\ e.at = wall
  OBVIOUS
<1>2. wall \in Int
  BY ClockAssumption DEF RegistryInv
<1>3. log' = Append(log, e)
  BY DEF RecordPolicyReload
<1>4. /\ DOMAIN inner' = Fields
      /\ inner'.resolve_requests = inner.resolve_requests
      /\ inner'.http_requests = inner.http_requests
      /\ inner'.policy_active_keys = active
      /\ inner'.policy_last_success =
            IF outcome = "failure" THEN inner.policy_last_success ELSE wall
      /\ inner'.policy_reloads = [inner.policy_reloads EXCEPT ![outcome] = @ + 1]
  BY DEF RecordPolicyReload, RegistryInv, Fields
<1> HIDE DEF e
<1>5. IsLog(log')
  BY <1>1, <1>3, LongerLog DEF RegistryInv
<1>6. PolicyCounts(inner'.policy_reloads, Append(log, e))
  <2>1. PolicyCounts(inner.policy_reloads, log)
    BY DEF RegistryInv, Account
  <2> QED  BY <1>1, <1>4, <2>1, CountsRecorded DEF RegistryInv
<1>7. Account(inner', log', TRUE)
  BY <1>1, <1>2, <1>3, <1>4, <1>6, AccountPolicy DEF RegistryInv
<1> QED  BY <1>3, <1>4, <1>5, <1>7 DEF e

LEMMA BaselineStep ==
    ASSUME RegistryInv, NEW active \in Nat, ~started, RecordPolicyBaseline(active)
    PROVE  /\ DOMAIN inner' = Fields /\ IsLog(log')
           /\ Account(inner', log', TRUE)
           /\ log' = Append(log, [family |-> "policy", outcome |-> "baseline",
                                  active |-> active, at |-> wall])
<1> DEFINE e == [family |-> "policy", outcome |-> "baseline",
                 active |-> active, at |-> wall]
<1>1. /\ e.family = "policy" /\ e.outcome = "baseline" /\ e.active = active
      /\ e.at = wall
  OBVIOUS
<1>2. wall \in Int
  BY ClockAssumption DEF RegistryInv
<1>3. log' = Append(log, e)
  BY DEF RecordPolicyBaseline
<1>4. inner.policy_last_success = None
  BY DEF RegistryInv, Account
<1>5. /\ DOMAIN inner' = Fields
      /\ inner'.resolve_requests = inner.resolve_requests
      /\ inner'.http_requests = inner.http_requests
      /\ inner'.policy_active_keys = active
      /\ inner'.policy_last_success = wall
      /\ inner'.policy_reloads = inner.policy_reloads
  BY <1>4 DEF RecordPolicyBaseline, RegistryInv, Fields
<1> HIDE DEF e
<1>6. IsLog(log')
  BY <1>1, <1>3, LongerLog DEF RegistryInv
<1>7. PolicyCounts(inner'.policy_reloads, Append(log, e))
  <2>1. PolicyCounts(inner.policy_reloads, log)
    BY DEF RegistryInv, Account
  <2> QED  BY <1>1, <1>5, <2>1, CountsKept DEF RegistryInv, Outcomes
<1>8. Account(inner', log', TRUE)
  BY <1>1, <1>2, <1>3, <1>5, <1>7, AccountPolicy DEF RegistryInv
<1> QED  BY <1>3, <1>5, <1>6, <1>8 DEF e

\* The log only ever grows, by one record at a time.
GoesOn(r, q) == q = r \/ \E e : q = Append(r, e)

\* What a step does to the registry.
RegistryStep ==
    /\ RegistryInv'
    /\ GoesOn(log, log')
    /\ file' = file

LEMMA RegistryPreserved ==
    ASSUME RegistryInv, [Next]_vars
    PROVE  RegistryStep
<1> USE DEF RegistryStep, GoesOn
<1>1. CASE Start
  <2>1. CASE file
    <3>1. RecordPolicyBaseline(1) /\ ~started
      BY <1>1, <2>1 DEF Start
    <3>2. /\ DOMAIN inner' = Fields /\ IsLog(log') /\ Account(inner', log', TRUE)
          /\ \E e : log' = Append(log, e)
      BY <3>1, BaselineStep
    <3>3. wall' = wall /\ file' = file /\ started' = TRUE
      BY <1>1 DEF Start
    <3>4. Account(inner', log', started' /\ file')
      BY <2>1, <3>2, <3>3 DEF Account
    <3> QED  BY <3>2, <3>3, <3>4 DEF RegistryInv
  <2>2. CASE ~file
    <3>1. /\ inner' = inner /\ log' = log /\ wall' = wall /\ file' = file
          /\ started' = TRUE
      BY <1>1, <2>2 DEF Start, registry
    <3>2. Account(inner', log', started' /\ file')
      BY <2>2, <3>1 DEF RegistryInv, Account
    <3> QED  BY <3>1, <3>2 DEF RegistryInv
  <2> QED  BY <2>1, <2>2 DEF RegistryInv
<1>2. CASE Reload
  <2>1. PICK outcome \in Outcomes, active \in {2, inner.policy_active_keys} :
          RecordPolicyReload(outcome, active)
    BY <1>2 DEF Reload, Outcomes
  <2>2. started /\ file /\ wall' = wall /\ file' = file /\ started' = started
    BY <1>2 DEF Reload
  <2>3. /\ DOMAIN inner' = Fields /\ IsLog(log') /\ Account(inner', log', TRUE)
        /\ \E e : log' = Append(log, e)
    <3>1. inner.policy_active_keys \in Nat
      BY <2>2 DEF RegistryInv, Account, PolicyGauges
    <3>2. active \in Nat
      BY <3>1
    <3> QED  BY <2>1, <2>2, <3>2, ReloadStep
  <2>4. Account(inner', log', started' /\ file')
    BY <2>2, <2>3 DEF Account
  <2> QED  BY <2>2, <2>3, <2>4 DEF RegistryInv
<1>3. ASSUME NEW q \in Req, ResolveHandler(q) PROVE RegistryStep
  <2>1. PICK key \in ResolveKeys, duration \in Durations :
          RecordResolveRequest(key, duration)
    BY <1>3 DEF ResolveHandler
  <2>2. wall' = wall /\ file' = file /\ started' = started
    BY <1>3 DEF ResolveHandler
  <2>3. duration \in Nat
    BY DurationsAssumption
  <2>4. /\ DOMAIN inner' = Fields /\ IsLog(log')
        /\ Account(inner', log', started /\ file)
        /\ \E e : log' = Append(log, e)
    BY <2>1, <2>3, ResolveStep
  <2> QED  BY <2>2, <2>4 DEF RegistryInv
<1>4. ASSUME NEW q \in Req, HttpMiddleware(q) \/ OtherRequest(q)
      PROVE  RegistryStep
  <2>1. /\ \E key, duration : duration \in Durations
                                /\ RecordHttpRequest(key, duration)
        /\ wall' = wall /\ file' = file /\ started' = started
    <3>1. CASE HttpMiddleware(q)
      BY <3>1 DEF HttpMiddleware
    <3>2. CASE OtherRequest(q)
      BY <3>2 DEF OtherRequest
    <3> QED  BY <1>4, <3>1, <3>2
  <2>2. PICK key, duration : /\ duration \in Durations
                             /\ RecordHttpRequest(key, duration)
    BY <2>1
  <2>3. duration \in Nat
    BY <2>2, DurationsAssumption
  <2>4. /\ DOMAIN inner' = Fields /\ IsLog(log')
        /\ Account(inner', log', started /\ file)
        /\ \E e : log' = Append(log, e)
    BY <2>2, <2>3, HttpStep
  <2> QED  BY <2>1, <2>4 DEF RegistryInv
<1>5. CASE UNCHANGED <<inner, log, file, started>> /\ wall' \in WallClock
  BY <1>5 DEF RegistryInv
<1>6. CASE RecordScrape
  <2>1. PICK duration \in Durations :
          RecordHttpRequest([method |-> "GET", route |-> "/metrics",
                             status |-> 200], duration)
    BY <1>6 DEF RecordScrape
  <2>2. wall' = wall /\ file' = file /\ started' = started
    BY <1>6 DEF RecordScrape
  <2>3. duration \in Nat
    BY DurationsAssumption
  <2>4. /\ DOMAIN inner' = Fields /\ IsLog(log')
        /\ Account(inner', log', started /\ file)
        /\ \E e : log' = Append(log, e)
    BY <2>1, <2>3, HttpStep
  <2> QED  BY <2>2, <2>4 DEF RegistryInv
<1>7. \/ Start \/ Reload \/ RecordScrape
      \/ \E q \in Req : ResolveHandler(q) \/ HttpMiddleware(q) \/ OtherRequest(q)
      \/ UNCHANGED <<inner, log, file, started>> /\ wall' \in WallClock
  BY DEF Next, vars, StepClock, CacheCount, RefreshSucceeds, WriteCount,
         WriteStamp, BeginScrape, LoadStamp, LoadCounts, TakeSnapshot, Render,
         registry, RegistryInv
<1> QED  BY <1>1, <1>2, <1>3, <1>4, <1>5, <1>6, <1>7

-----------------------------------------------------------------------------
(* Every HTTP record of a resolution has the resolution before it: the ones *)
(* still without are those of the requests between handler and middleware.  *)

Waiting == {q \in Req : pc[q] = "resolved"}

RequestInv ==
    /\ pc \in [Req -> {"idle", "resolved", "done"}]
    /\ IsFiniteSet(Waiting)
    /\ Posted(log) + Cardinality(Waiting) = Resolutions(log)

LEMMA RequestPreserved ==
    ASSUME RegistryInv, RequestInv, [Next]_vars
    PROVE  RequestInv'
<1>1. /\ IsLog(log) /\ Posted(log) \in Nat /\ Resolutions(log) \in Nat
      /\ Cardinality(Waiting) \in Nat
  BY CountsAppended, FS_CardinalityType DEF RegistryInv, RequestInv
<1>2. CASE pc' = pc /\ \/ log' = log
                       \/ \E e : /\ log' = Append(log, e) /\ e.family # "resolve"
                                 /\ ~(e.family = "http" /\ IsResolve(e.key))
  <2>1. Posted(log') = Posted(log) /\ Resolutions(log') = Resolutions(log)
    <3>1. CASE log' = log
      BY <3>1
    <3>2. CASE log' # log
      <4>1. PICK e : /\ log' = Append(log, e) /\ e.family # "resolve"
                     /\ ~(e.family = "http" /\ IsResolve(e.key))
        BY <1>2, <3>2
      <4> QED  BY <1>1, <4>1, CountsAppended
    <3> QED  BY <3>1, <3>2
  <2>2. Waiting' = Waiting
    BY <1>2 DEF Waiting
  <2> QED  BY <1>2, <2>1, <2>2 DEF RequestInv
<1>3. ASSUME NEW q \in Req, ResolveHandler(q) PROVE RequestInv'
  <2>1. PICK key \in ResolveKeys, duration \in Durations :
          RecordResolveRequest(key, duration)
    BY <1>3 DEF ResolveHandler
  <2> DEFINE e == [family |-> "resolve", key |-> key, duration |-> duration]
  <2>2. log' = Append(log, e) /\ e.family = "resolve"
    BY <2>1 DEF RecordResolveRequest
  <2> HIDE DEF e
  <2>3. Posted(log') = Posted(log) /\ Resolutions(log') = Resolutions(log) + 1
    BY <1>1, <2>2, CountsAppended
  <2>4. pc[q] = "idle" /\ pc' = [pc EXCEPT ![q] = "resolved"]
    BY <1>3 DEF ResolveHandler
  <2>5. pc' \in [Req -> {"idle", "resolved", "done"}]
    BY <2>4 DEF RequestInv
  <2>6. Waiting' = Waiting \cup {q} /\ q \notin Waiting
    BY <2>4 DEF Waiting, RequestInv
  <2>7. IsFiniteSet(Waiting') /\ Cardinality(Waiting') = Cardinality(Waiting) + 1
    BY <2>6, FS_AddElement DEF RequestInv
  <2>8. Posted(log) + Cardinality(Waiting) = Resolutions(log)
    BY DEF RequestInv
  <2>9. Posted(log') + Cardinality(Waiting') = Resolutions(log')
    BY <1>1, <2>3, <2>7, <2>8
  <2> QED  BY <2>5, <2>7, <2>9 DEF RequestInv
<1>4. ASSUME NEW q \in Req, HttpMiddleware(q) PROVE RequestInv'
  <2> DEFINE k == [method |-> "POST", route |-> "/v1/resolve",
                   status |-> resolved[q].status]
  <2>1. PICK duration \in Durations : RecordHttpRequest(k, duration)
    BY <1>4 DEF HttpMiddleware
  <2>2. IsResolve(k)
    BY DEF IsResolve
  <2> HIDE DEF k
  <2> DEFINE e == [family |-> "http", key |-> k, duration |-> duration]
  <2>3. log' = Append(log, e) /\ e.family = "http" /\ e.key = k
    BY <2>1 DEF RecordHttpRequest
  <2> HIDE DEF e
  <2>4. Posted(log') = Posted(log) + 1 /\ Resolutions(log') = Resolutions(log)
    BY <1>1, <2>2, <2>3, CountsAppended
  <2>5. pc[q] = "resolved" /\ pc' = [pc EXCEPT ![q] = "done"]
    BY <1>4 DEF HttpMiddleware
  <2>6. pc' \in [Req -> {"idle", "resolved", "done"}]
    BY <2>5 DEF RequestInv
  <2>7. Waiting' = Waiting \ {q} /\ q \in Waiting
    BY <2>5 DEF Waiting, RequestInv
  <2>8. IsFiniteSet(Waiting') /\ Cardinality(Waiting') = Cardinality(Waiting) - 1
    BY <2>7, FS_RemoveElement DEF RequestInv
  <2>9. Posted(log) + Cardinality(Waiting) = Resolutions(log)
    BY DEF RequestInv
  <2>10. Posted(log') + Cardinality(Waiting') = Resolutions(log')
    BY <1>1, <2>4, <2>8, <2>9
  <2> QED  BY <2>6, <2>8, <2>10 DEF RequestInv
<1>5. ASSUME NEW q \in Req, OtherRequest(q) PROVE RequestInv'
  <2>1. PICK key \in OtherKeys, duration \in Durations :
          RecordHttpRequest(key, duration)
    BY <1>5 DEF OtherRequest
  <2>2. ~IsResolve(key)
    BY KeysAssumption
  <2> DEFINE e == [family |-> "http", key |-> key, duration |-> duration]
  <2>3. log' = Append(log, e) /\ e.family = "http" /\ e.key = key
    BY <2>1 DEF RecordHttpRequest
  <2> HIDE DEF e
  <2>4. Posted(log') = Posted(log) /\ Resolutions(log') = Resolutions(log)
    BY <1>1, <2>2, <2>3, CountsAppended
  <2>5. pc[q] = "idle" /\ pc' = [pc EXCEPT ![q] = "done"]
    BY <1>5 DEF OtherRequest
  <2>6. pc' \in [Req -> {"idle", "resolved", "done"}]
    BY <2>5 DEF RequestInv
  <2>7. Waiting' = Waiting
    BY <2>5 DEF Waiting, RequestInv
  <2> QED  BY <2>4, <2>6, <2>7 DEF RequestInv
<1>6. CASE RecordScrape
  <2> DEFINE k == [method |-> "GET", route |-> "/metrics", status |-> 200]
  <2>1. PICK duration \in Durations : RecordHttpRequest(k, duration)
    BY <1>6 DEF RecordScrape
  <2>2. ~IsResolve(k)
    BY DEF IsResolve
  <2> HIDE DEF k
  <2>3. pc' = pc
    BY <1>6 DEF RecordScrape, requests
  <2> DEFINE e == [family |-> "http", key |-> k, duration |-> duration]
  <2>4. log' = Append(log, e) /\ e.family = "http" /\ e.key = k
    BY <2>1 DEF RecordHttpRequest
  <2> HIDE DEF e
  <2> QED  BY <1>2, <2>2, <2>3, <2>4
<1>7. CASE Reload \/ Start
  <2>1. pc' = pc
    BY <1>7 DEF Reload, Start, requests
  <2>2. \/ log' = log
        \/ \E outcome, active :
             log' = Append(log, [family |-> "policy", outcome |-> outcome,
                                 active |-> active, at |-> wall])
    <3>1. CASE Start
      <4>1. log' = log \/ RecordPolicyBaseline(1)
        BY <3>1 DEF Start, registry
      <4> QED  BY <4>1 DEF RecordPolicyBaseline
    <3>2. CASE Reload
      <4>1. \E outcome, active : RecordPolicyReload(outcome, active)
        BY <3>2 DEF Reload
      <4>2. PICK outcome, active : RecordPolicyReload(outcome, active)
        BY <4>1
      <4> QED  BY <4>2 DEF RecordPolicyReload
    <3> QED  BY <1>7, <3>1, <3>2
  <2>3. CASE log' = log
    BY <1>2, <2>1, <2>3
  <2>4. CASE log' # log
    <3>1. PICK outcome, active :
             log' = Append(log, [family |-> "policy", outcome |-> outcome,
                                 active |-> active, at |-> wall])
      BY <2>2, <2>4
    <3> DEFINE e == [family |-> "policy", outcome |-> outcome,
                     active |-> active, at |-> wall]
    <3>2. log' = Append(log, e) /\ e.family = "policy"
      BY <3>1
    <3> HIDE DEF e
    <3> QED  BY <1>2, <2>1, <3>2
  <2> QED  BY <2>3, <2>4
<1>8. \/ Start \/ Reload \/ RecordScrape
      \/ \E q \in Req : ResolveHandler(q) \/ HttpMiddleware(q) \/ OtherRequest(q)
      \/ log' = log /\ pc' = pc
  BY DEF Next, vars, StepClock, CacheCount, RefreshSucceeds, WriteCount,
         WriteStamp, BeginScrape, LoadStamp, LoadCounts, TakeSnapshot, Render,
         registry, requests
<1> QED  BY <1>2, <1>3, <1>4, <1>5, <1>6, <1>7, <1>8

-----------------------------------------------------------------------------
(* The snapshot and the page show a prefix of the log.                      *)

\* m is the account of the first n records of r.
Shows(m, n, r, seeded) ==
    /\ n \in 0 .. Len(r)
    /\ Account(m, Seen(r, n), seeded)
    /\ Posted(Seen(r, n)) <= Resolutions(Seen(r, n))

LEMMA ShowsStays ==
    ASSUME NEW m, NEW n, NEW r, NEW q, NEW seeded,
           IsLog(r), GoesOn(r, q), Shows(m, n, r, seeded)
    PROVE  Shows(m, n, q, seeded)
<1>1. CASE q = r
  BY <1>1
<1>2. CASE q # r
  <2>1. PICK e : q = Append(r, e)
    BY <1>2 DEF GoesOn
  <2>2. n \in 0 .. Len(r)
    BY DEF Shows
  <2>3. n \in 0 .. Len(q) /\ Seen(q, n) = Seen(r, n)
    BY <2>1, <2>2, SeenStays
  <2> QED  BY <2>3 DEF Shows
<1> QED  BY <1>1, <1>2

ScrapeInv ==
    /\ DOMAIN scrape = {"step", "pages"}
    /\ DOMAIN loaded = {"stamp", "counts"}
    /\ scrape.step # "idle" => started
    /\ scrape.step = "render" =>
          Loaded /\ Shows(snapshot.inner, snapshot.seen, log, file)

\* The policy family of a page rendered at a given time.
PolicyAt(m, at) ==
    LET last == m.policy_last_success IN
    IF last = None /\ \A o \in Outcomes : m.policy_reloads[o] = 0
    THEN None
    ELSE [reloads |-> m.policy_reloads,
          active_keys |-> m.policy_active_keys,
          timestamp |-> IF last = None \/ last < 0 THEN None ELSE last,
          age |-> IF last = None \/ at < last THEN None ELSE at - last]

\* The registry page p was rendered from.
Drawn(p, m, r, seeded) ==
    /\ Shows(m, p.seen, r, seeded)
    /\ p.http = RenderHttpMetrics(m.http_requests)
    /\ p.resolve = RenderResolveMetrics(m.resolve_requests)
    /\ p.policy = PolicyAt(m, p.renderedAt)
    /\ p.renderedAt \in Int

PageInv ==
    page # None =>
        /\ \E m : Drawn(page, m, log, file)
        /\ scrape.step = "render" => page.seen <= snapshot.seen

LEMMA ScrapePreserved ==
    ASSUME RegistryInv, RequestInv, ScrapeInv, [Next]_vars
    PROVE  ScrapeInv'
<1>1. IsLog(log) /\ GoesOn(log, log') /\ file' = file
  BY RegistryPreserved DEF RegistryStep, RegistryInv
<1>2. started => started'
  BY DEF Next, vars, Start, Reload, StepClock, ResolveHandler, HttpMiddleware,
         OtherRequest, CacheCount, RefreshSucceeds, WriteCount, WriteStamp,
         BeginScrape, LoadStamp, LoadCounts, TakeSnapshot, Render, RecordScrape
<1>3. CASE scrape' = scrape /\ loaded' = loaded /\ snapshot' = snapshot
  <2>1. scrape.step = "render" =>
          Shows(snapshot'.inner, snapshot'.seen, log', file')
    BY <1>1, <1>3, ShowsStays DEF ScrapeInv
  <2> QED  BY <1>2, <1>3, <2>1 DEF ScrapeInv, Loaded
<1>4. CASE BeginScrape
  BY <1>4 DEF BeginScrape, ScrapeInv
<1>5. CASE LoadStamp
  <2>1. /\ scrape' = scrape /\ scrape.step = "load" /\ started' = started
        /\ DOMAIN loaded' = DOMAIN loaded
    BY <1>5 DEF LoadStamp
  <2> QED  BY <2>1 DEF ScrapeInv
<1>6. CASE LoadCounts
  <2>1. /\ scrape' = scrape /\ scrape.step = "load" /\ started' = started
        /\ DOMAIN loaded' = DOMAIN loaded
    BY <1>6 DEF LoadCounts
  <2> QED  BY <2>1 DEF ScrapeInv
<1>7. CASE TakeSnapshot
  <2>1. /\ scrape.step = "load" /\ Loaded /\ loaded' = loaded
        /\ log' = log /\ file' = file /\ started' = started
        /\ scrape' = [scrape EXCEPT !.step = "render"]
        /\ snapshot' = [inner |-> inner, seen |-> Len(log)]
    BY <1>7 DEF TakeSnapshot, registry
  <2>2. started /\ snapshot'.inner = inner /\ snapshot'.seen = Len(log)
    BY <2>1 DEF ScrapeInv
  <2>3. Seen(log, Len(log)) = log /\ Len(log) \in 0 .. Len(log)
    BY <1>1, SeenAll DEF IsLog
  <2>4. Account(inner, log, file)
    BY <2>2 DEF RegistryInv, Account
  <2>5. Posted(log) <= Resolutions(log)
    <3>1. /\ Posted(log) \in Nat /\ Cardinality(Waiting) \in Nat
          /\ Posted(log) + Cardinality(Waiting) = Resolutions(log)
      BY <1>1, CountsAppended, FS_CardinalityType DEF RequestInv
    <3> QED  BY <3>1
  <2>6. Shows(snapshot'.inner, snapshot'.seen, log', file')
    BY <2>1, <2>2, <2>3, <2>4, <2>5 DEF Shows
  <2>7. DOMAIN scrape' = DOMAIN scrape
    BY <2>1
  <2> QED  BY <2>1, <2>2, <2>6, <2>7 DEF ScrapeInv, Loaded
<1>8. CASE Render
  <2>1. /\ scrape' = [scrape EXCEPT !.step = "respond", !.pages = scrape.pages + 1]
        /\ loaded' = NotLoaded /\ scrape.step = "render" /\ started' = started
    BY <1>8 DEF Render
  <2>2. DOMAIN scrape' = DOMAIN scrape /\ scrape'.step = "respond"
    BY <2>1 DEF ScrapeInv
  <2> QED  BY <2>1, <2>2 DEF ScrapeInv, NotLoaded
<1>9. CASE RecordScrape
  <2>1. DOMAIN scrape' = DOMAIN scrape /\ scrape'.step = "idle" /\ loaded' = loaded
    BY <1>9 DEF RecordScrape, ScrapeInv
  <2> QED  BY <2>1 DEF ScrapeInv
<1>10. \/ BeginScrape \/ LoadStamp \/ LoadCounts \/ TakeSnapshot \/ Render
       \/ RecordScrape
       \/ scrape' = scrape /\ loaded' = loaded /\ snapshot' = snapshot
  BY DEF Next, vars, Start, Reload, StepClock, ResolveHandler, HttpMiddleware,
         OtherRequest, CacheCount, RefreshSucceeds, WriteCount, WriteStamp,
         scraper
<1> QED  BY <1>3, <1>4, <1>5, <1>6, <1>7, <1>8, <1>9, <1>10

\* What Render does to the page.
LEMMA RenderStep ==
    ASSUME RegistryInv, ScrapeInv, Render
    PROVE  /\ Drawn(page', snapshot.inner, log', file')
           /\ page'.seen = snapshot.seen
           /\ page'.cache = RenderCacheMetrics(loaded)
           /\ scrape'.step = "respond" /\ loaded' = NotLoaded
           /\ log' = log /\ file' = file /\ Loaded
<1>1. /\ page'.http = RenderHttpMetrics(snapshot.inner.http_requests)
      /\ page'.resolve = RenderResolveMetrics(snapshot.inner.resolve_requests)
      /\ page'.policy = RenderPolicyMetrics(snapshot.inner)
      /\ page'.cache = RenderCacheMetrics(loaded)
      /\ page'.seen = snapshot.seen /\ page'.renderedAt = wall
  BY DEF Render
<1>2. /\ scrape' = [scrape EXCEPT !.step = "respond", !.pages = scrape.pages + 1]
      /\ scrape.step = "render" /\ loaded' = NotLoaded
      /\ log' = log /\ file' = file
  BY DEF Render, registry
<1>3. scrape'.step = "respond" /\ Loaded
  BY <1>2 DEF ScrapeInv
<1>4. RenderPolicyMetrics(snapshot.inner) = PolicyAt(snapshot.inner, wall)
  BY DEF RenderPolicyMetrics, PolicyAt
<1>5. wall \in Int
  BY ClockAssumption DEF RegistryInv
<1>6. Shows(snapshot.inner, snapshot.seen, log, file)
  BY <1>2 DEF ScrapeInv
<1> QED  BY <1>1, <1>2, <1>3, <1>4, <1>5, <1>6 DEF Drawn

LEMMA PagePreserved ==
    ASSUME RegistryInv, ScrapeInv, PageInv, [Next]_vars
    PROVE  PageInv'
<1>1. IsLog(log) /\ GoesOn(log, log') /\ file' = file
  BY RegistryPreserved DEF RegistryStep, RegistryInv
<1>2. CASE Render
  <2>1. Drawn(page', snapshot.inner, log', file') /\ scrape'.step = "respond"
    BY <1>2, RenderStep
  <2> QED  BY <2>1 DEF PageInv
<1>3. CASE page' = page
  <2>1. SUFFICES ASSUME page # None
                 PROVE  /\ \E m : Drawn(page, m, log', file')
                        /\ scrape'.step = "render" => page.seen <= snapshot'.seen
    BY <1>3 DEF PageInv
  <2>2. PICK m : Drawn(page, m, log, file)
    BY <2>1 DEF PageInv
  <2>3. Drawn(page, m, log', file')
    BY <1>1, <2>2, ShowsStays DEF Drawn
  <2>4. page.seen \in 0 .. Len(log) /\ Len(log) \in Nat
    BY <1>1, <2>2 DEF Drawn, Shows, IsLog
  <2>5. ASSUME scrape'.step = "render" PROVE page.seen <= snapshot'.seen
    <3>1. CASE TakeSnapshot
      <4>1. snapshot'.seen = Len(log)
        BY <3>1 DEF TakeSnapshot
      <4> QED  BY <2>4, <4>1
    <3>2. CASE scrape.step = "render" /\ snapshot' = snapshot
      BY <2>1, <3>2 DEF PageInv
    <3>3. CASE BeginScrape
      BY <2>5, <3>3 DEF BeginScrape, ScrapeInv
    <3>4. CASE RecordScrape
      BY <2>5, <3>4 DEF RecordScrape, ScrapeInv
    <3>5. CASE Render
      BY <2>5, <3>5, RenderStep
    <3>6. \/ TakeSnapshot \/ BeginScrape \/ RecordScrape \/ Render
          \/ scrape' = scrape /\ snapshot' = snapshot
      BY DEF Next, vars, Start, Reload, StepClock, ResolveHandler,
             HttpMiddleware, OtherRequest, CacheCount, RefreshSucceeds,
             WriteCount, WriteStamp, LoadStamp, LoadCounts, scraper
    <3> QED  BY <2>5, <3>1, <3>2, <3>3, <3>4, <3>5, <3>6
  <2> QED  BY <2>3, <2>5
<1>4. Render \/ page' = page
  BY DEF Next, vars, Start, Reload, StepClock, ResolveHandler, HttpMiddleware,
         OtherRequest, CacheCount, RefreshSucceeds, WriteCount, WriteStamp,
         BeginScrape, LoadStamp, LoadCounts, TakeSnapshot, RecordScrape, scraper
<1> QED  BY <1>2, <1>3, <1>4

-----------------------------------------------------------------------------
(* A page drawn from the account of some records is exact about them.       *)

\* The rendered buckets: the kept ones and "+Inf".
LEMMA BucketsShown ==
    ASSUME NEW h, NEW r, NEW family, NEW key, HistogramExact(h, r, family, key)
    PROVE  LET s == AppendHistogram(h) IN
           /\ s.count = h.count /\ s.sum = h.sum
           /\ DOMAIN s.buckets = 1 .. Len(Buckets) + 1
           /\ \A b \in DOMAIN Buckets : s.buckets[b] = h.buckets[b]
           /\ s.buckets[Len(Buckets) + 1] = h.count
           /\ DOMAIN Buckets = 1 .. Len(Buckets) /\ Len(Buckets) \in Nat
<1>1. DOMAIN Buckets = 1 .. Len(Buckets) /\ Len(Buckets) \in Nat
  BY BucketsAssumption
<1>2. PICK v : v = h.buckets
  OBVIOUS
<1>3. v = [b \in 1 .. Len(Buckets) |-> v[b]]
  BY <1>1, <1>2 DEF HistogramExact
<1> DEFINE T == {v[b] : b \in 1 .. Len(Buckets)}
<1>4. v \in [1 .. Len(Buckets) -> T]
  BY <1>3
<1> HIDE DEF T
<1>5. v \in Seq(T) /\ Len(v) = Len(Buckets)
  BY <1>1, <1>4
<1>6. PICK w : w = Append(v, h.count)
  OBVIOUS
<1>7. /\ DOMAIN w = 1 .. Len(Buckets) + 1
      /\ w[Len(Buckets) + 1] = h.count
      /\ \A b \in 1 .. Len(Buckets) : w[b] = v[b]
  BY <1>5, <1>6, Appended
<1> QED  BY <1>1, <1>2, <1>6, <1>7 DEF AppendHistogram

\* A rendered family.
Rendered(fam) == [key \in DOMAIN fam |-> AppendHistogram(fam[key])]

LEMMA SeriesShown ==
    ASSUME NEW fam, NEW r, NEW family, FamilyExact(fam, r, family)
    PROVE  SeriesExact(Rendered(fam), r, family)
<1> DEFINE s == Rendered(fam)
<1>1. DOMAIN s = Keys(r, family)
  BY DEF Rendered, FamilyExact
<1>2. ASSUME NEW key \in Keys(r, family)
      PROVE  /\ s[key].count = Cardinality(Mine(r, family, key))
             /\ s[key].sum = Spent(r, family, key)
             /\ \A b \in DOMAIN Buckets :
                   s[key].buckets[b] = Cardinality(Below(r, family, key, b))
             /\ s[key].buckets[Len(Buckets) + 1] = s[key].count
  <2>1. s[key] = AppendHistogram(fam[key]) /\ HistogramExact(fam[key], r, family, key)
    BY DEF Rendered, FamilyExact
  <2>2. PICK h : h = fam[key]
    OBVIOUS
  <2>3. PICK t : t = AppendHistogram(h)
    OBVIOUS
  <2>4. /\ t.count = h.count /\ t.sum = h.sum
        /\ \A b \in DOMAIN Buckets : t.buckets[b] = h.buckets[b]
        /\ t.buckets[Len(Buckets) + 1] = h.count
    BY <2>1, <2>2, <2>3, BucketsShown
  <2> HIDE DEF s
  <2> QED  BY <2>1, <2>2, <2>3, <2>4 DEF HistogramExact
<1> HIDE DEF s
<1>3. SeriesExact(s, r, family)
  BY <1>1, <1>2 DEF SeriesExact, Keys, Below
<1> QED  BY <1>3 DEF s

LEMMA PolicyShown ==
    ASSUME NEW m, NEW r, NEW at \in Int, PolicyCounts(m.policy_reloads, r),
           PolicyGauges(m, r)
    PROVE  /\ PolicyAt(m, at) # None
           /\ PolicyExact(PolicyAt(m, at), r, at)
<1>1. PICK i \in Of(r, "policy"), j \in Good(r) :
        /\ IsLast(i, Of(r, "policy")) /\ IsLast(j, Good(r))
        /\ m.policy_active_keys = r[i].active
        /\ m.policy_last_success = r[j].at
        /\ r[i].active \in Nat /\ r[j].at \in Int
  BY DEF PolicyGauges
<1>2. PICK last : last = r[j].at
  OBVIOUS
<1>3. m.policy_last_success = last /\ last \in Int /\ last # None
  BY <1>1, <1>2, NoneAssumption
<1>4. PICK p : p = PolicyAt(m, at)
  OBVIOUS
<1>5. p = [reloads |-> m.policy_reloads,
           active_keys |-> m.policy_active_keys,
           timestamp |-> IF last < 0 THEN None ELSE last,
           age |-> IF at < last THEN None ELSE at - last]
  BY <1>3, <1>4 DEF PolicyAt
<1>6. p \in PolicyFamilies
  <2>1. m.policy_reloads \in [Outcomes -> Nat] /\ m.policy_active_keys \in Nat
    BY <1>1 DEF PolicyCounts
  <2>2. (IF last < 0 THEN None ELSE last) \in Int \cup {None}
    BY <1>3
  <2>3. (IF at < last THEN None ELSE at - last) \in Int \cup {None}
    BY <1>3
  <2> QED  BY <1>5, <2>1, <2>2, <2>3 DEF PolicyFamilies
<1>7. p # None
  BY <1>6, NoneAssumption
<1>8. /\ p.reloads = m.policy_reloads /\ p.active_keys = r[i].active
      /\ last < 0 => p.timestamp = None
      /\ ~(last < 0) => p.timestamp = last
      /\ at < last => p.age = None
      /\ ~(at < last) => p.age = at - last
  BY <1>1, <1>5
<1>9. \A o \in Outcomes : p.reloads[o] =
         Cardinality({h \in Of(r, "policy") : r[h].outcome = o})
  BY <1>8 DEF PolicyCounts, Cycles
<1>10. ~(at < last) => at = last + p.age
  BY <1>3, <1>8
<1>11. PolicyExact(p, r, at)
  BY <1>1, <1>2, <1>8, <1>9, <1>10 DEF PolicyExact, IsLast, Good
<1> QED  BY <1>4, <1>7, <1>11

\* Without a file there is no policy family.
LEMMA PolicyHidden ==
    ASSUME NEW m, NEW r, NEW at, PolicyCounts(m.policy_reloads, r),
           m.policy_last_success = None, Of(r, "policy") = {}
    PROVE  PolicyAt(m, at) = None
<1>1. \A o : Cycles(r, o) = {}
  BY DEF Cycles
<1>2. \A o \in Outcomes : m.policy_reloads[o] = 0
  BY <1>1, FS_EmptySet DEF PolicyCounts
<1> QED  BY <1>2 DEF PolicyAt

LEMMA PageExact ==
    ASSUME RegistryInv, PageInv
    PROVE  PagesExact
<1> SUFFICES ASSUME page # None
             PROVE  LET seen == Seen(log, page.seen) IN
                    /\ SeriesExact(page.http, seen, "http")
                    /\ SeriesExact(page.resolve, seen, "resolve")
                    /\ Posted(seen) <= Resolutions(seen)
                    /\ page.policy = None <=> ~file
                    /\ file => PolicyExact(page.policy, seen, page.renderedAt)
  BY DEF PagesExact, Seen, Posted, Posts, Resolutions
<1>1. PICK m : Drawn(page, m, log, file)
  BY DEF PageInv
<1>2. PICK seen : seen = Seen(log, page.seen)
  OBVIOUS
<1>3. Account(m, seen, file) /\ Posted(seen) <= Resolutions(seen)
  BY <1>1, <1>2 DEF Drawn, Shows
<1>4. /\ page.http = Rendered(m.http_requests)
      /\ page.resolve = Rendered(m.resolve_requests)
      /\ page.policy = PolicyAt(m, page.renderedAt)
      /\ page.renderedAt \in Int
  BY <1>1 DEF Drawn, Rendered, RenderHttpMetrics, RenderResolveMetrics
<1>5. SeriesExact(page.http, seen, "http")
  BY <1>3, <1>4, SeriesShown DEF Account
<1>6. SeriesExact(page.resolve, seen, "resolve")
  BY <1>3, <1>4, SeriesShown DEF Account
<1>7. CASE file
  <2>1. page.policy # None /\ PolicyExact(page.policy, seen, page.renderedAt)
    BY <1>3, <1>4, <1>7, PolicyShown DEF Account
  <2> QED  BY <1>2, <1>3, <1>5, <1>6, <1>7, <2>1
<1>8. CASE ~file
  <2>1. page.policy = None
    BY <1>3, <1>4, <1>8, PolicyHidden DEF Account
  <2> QED  BY <1>2, <1>3, <1>5, <1>6, <1>8, <2>1
<1> QED  BY <1>7, <1>8

\* The registry, the requests and the page at every moment.
RecordsInv == RegistryInv /\ RequestInv /\ ScrapeInv /\ PageInv

LEMMA RecordsInvariant == Spec => []RecordsInv
<1>1. Init => RecordsInv
  <2> SUFFICES ASSUME Init PROVE RecordsInv
    OBVIOUS
  <2>1. /\ inner.http_requests = Empty /\ inner.resolve_requests = Empty
        /\ inner.policy_reloads = [o \in Outcomes |-> 0]
        /\ inner.policy_last_success = None
        /\ DOMAIN inner = Fields
    BY DEF Init, Fields
  <2>2. /\ log = <<>> /\ wall \in WallClock /\ file \in BOOLEAN
        /\ started = FALSE
    BY DEF Init
  <2>3. IsLog(<<>>) /\ Account(inner, <<>>, FALSE)
    BY <2>1, AccountStarts
  <2>4. RegistryInv
    BY <2>1, <2>2, <2>3 DEF RegistryInv, Account
  <2>5. RequestInv
    <3>1. Waiting = {} /\ pc \in [Req -> {"idle", "resolved", "done"}]
      BY DEF Init, Waiting
    <3>2. Of(<<>>, "resolve") = {} /\ Posts(<<>>) = {}
      BY DEF Of, Posts
    <3>3. IsFiniteSet({}) /\ Cardinality({}) = 0
      BY FS_EmptySet
    <3>4. Posted(log) = 0 /\ Cardinality(Waiting) = 0 /\ Resolutions(log) = 0
      BY <2>2, <3>1, <3>2, <3>3 DEF Posted, Resolutions
    <3> QED  BY <3>1, <3>3, <3>4 DEF RequestInv
  <2>6. ScrapeInv
    BY DEF Init, ScrapeInv, NotLoaded
  <2>7. PageInv
    BY DEF Init, PageInv
  <2> QED  BY <2>4, <2>5, <2>6, <2>7 DEF RecordsInv
<1>2. RecordsInv /\ [Next]_vars => RecordsInv'
  BY RegistryPreserved, RequestPreserved, ScrapePreserved, PagePreserved
  DEF RecordsInv, RegistryStep
<1> QED  BY <1>1, <1>2, PTL DEF Spec

\* Every page of /metrics is the exact account of the records made until one
\* moment of its scrape, whatever requests, reloads and clock steps overlap.
THEOREM PagesAreExact == Spec => []PagesExact
<1>1. RecordsInv => PagesExact
  BY PageExact DEF RecordsInv
<1> QED  BY <1>1, RecordsInvariant, PTL

-----------------------------------------------------------------------------
(* A longer prefix of the log counts no less.                               *)

\* The records of a prefix are among those of a longer one.
LEMMA PrefixGrows ==
    ASSUME NEW r, IsLog(r), NEW a \in 0 .. Len(r), NEW b \in 0 .. Len(r), a <= b,
           NEW family
    PROVE  /\ Of(Seen(r, a), family) \subseteq Of(Seen(r, b), family)
           /\ \A i \in Of(Seen(r, a), family) : Seen(r, a)[i] = Seen(r, b)[i]
<1>1. /\ DOMAIN Seen(r, a) = 1 .. a
      /\ \A i \in 1 .. a : Seen(r, a)[i] = r[i]
  BY SeenIsLog
<1>2. /\ DOMAIN Seen(r, b) = 1 .. b
      /\ \A i \in 1 .. b : Seen(r, b)[i] = r[i]
  BY SeenIsLog
<1>3. 1 .. a \subseteq 1 .. b
  <2>1. Len(r) \in Nat
    BY DEF IsLog
  <2> QED  BY <2>1
<1> QED  BY <1>1, <1>2, <1>3 DEF Of

LEMMA SpentGrows ==
    ASSUME NEW r, IsLog(r), NEW a \in 0 .. Len(r), NEW b \in 0 .. Len(r), a <= b,
           NEW family \in Timed, NEW key
    PROVE  Spent(Seen(r, a), family, key) <= Spent(Seen(r, b), family, key)
<1> DEFINE n == Len(r)
           S(i) == Spent(Seen(r, i), family, key)
           T == {i \in Nat : i <= n /\ a <= i => S(a) <= S(i)}
<1>1. n \in Nat /\ a \in Nat /\ b \in Nat
  BY DEF IsLog
<1>2. ASSUME NEW i \in 1 .. n
      PROVE  \E d \in Nat : S(i) = S(i - 1) + d
  <2>1. i - 1 \in 0 .. n /\ i \in 1 .. Len(r)
    BY <1>1
  <2>2. PICK s : s = Seen(r, i - 1)
    OBVIOUS
  <2>3. IsLog(s) /\ Seen(r, i) = Append(s, r[i])
    BY <2>1, <2>2, SeenIsLog, SeenNext
  <2>4. r[i].family \in Timed => r[i].duration \in Nat
    BY <2>1 DEF IsLog, Timed
  <2>5. Spent(Append(s, r[i]), family, key) = Spent(s, family, key) +
          (IF r[i].family = family /\ r[i].key = key THEN r[i].duration ELSE 0)
    BY <2>3, <2>4, SpentAppended
  <2> QED  BY <2>2, <2>3, <2>4, <2>5
<1>3. \A i \in 0 .. n : S(i) \in Nat
  <2>1. ASSUME NEW i \in 0 .. n PROVE S(i) \in Nat
    <3>1. IsLog(Seen(r, i))
      BY SeenIsLog
    <3>2. PICK e : e = [family |-> "policy"]
      OBVIOUS
    <3>3. e.family \notin Timed
      BY <3>2 DEF Timed
    <3> QED  BY <3>1, <3>3, SpentAppended
  <2> QED  BY <2>1
<1> HIDE DEF S, n
<1>4. 0 \in T
  <2>1. 0 \in 0 .. n
    BY <1>1
  <2>2. S(0) \in Nat
    BY <1>3, <2>1
  <2>3. a <= 0 => a = 0
    BY <1>1
  <2>4. a <= 0 => S(a) <= S(0)
    BY <2>2, <2>3
  <2> QED  BY <2>4
<1>5. ASSUME NEW i \in 1 .. n, i - 1 \in T PROVE i \in T
  <2>1. SUFFICES ASSUME a <= i PROVE S(a) <= S(i)
    BY <1>1
  <2>2. i \in 0 .. n /\ i - 1 \in 0 .. n /\ i - 1 <= n
    BY <1>1
  <2>3. S(i) \in Nat /\ S(i - 1) \in Nat
    BY <1>3, <2>2
  <2>4. CASE i = a
    BY <2>3, <2>4
  <2>5. CASE i # a
    <3>1. a <= i - 1 /\ a \in 0 .. n
      BY <1>1, <2>1, <2>2, <2>5
    <3>2. S(a) <= S(i - 1)
      BY <1>5, <2>2, <3>1
    <3>3. S(a) \in Nat
      BY <1>3, <3>1
    <3>4. PICK d \in Nat : S(i) = S(i - 1) + d
      BY <1>2
    <3> QED  BY <2>3, <3>2, <3>3, <3>4
  <2> QED  BY <2>4, <2>5
<1>6. \A i \in 0 .. n : i \in T
  <2> HIDE DEF T
  <2> QED  BY <1>1, <1>4, <1>5, UpTo
<1>7. b \in T /\ b <= n
  BY <1>1, <1>6 DEF n
<1> QED  BY <1>7 DEF S

\* What a longer prefix counts, in every set of its records.
CountsGrow(r, q, family) ==
    /\ Keys(r, family) \subseteq Keys(q, family)
    /\ \A key :
          /\ Cardinality(Mine(r, family, key)) <= Cardinality(Mine(q, family, key))
          /\ Spent(r, family, key) <= Spent(q, family, key)
          /\ \A b : Cardinality(Below(r, family, key, b))
                      <= Cardinality(Below(q, family, key, b))

LEMMA SubsetCount ==
    ASSUME NEW q, IsLog(q), NEW T, T \subseteq DOMAIN q, NEW S, S \subseteq T
    PROVE  Cardinality(S) <= Cardinality(T)
<1>1. IsFiniteSet(T)
  BY FiniteOf
<1> QED  BY <1>1, FS_Subset

LEMMA PrefixCounts ==
    ASSUME NEW r, IsLog(r), NEW a \in 0 .. Len(r), NEW b \in 0 .. Len(r), a <= b
    PROVE  /\ \A family \in Timed : CountsGrow(Seen(r, a), Seen(r, b), family)
           /\ \A o : Cardinality(Cycles(Seen(r, a), o))
                       <= Cardinality(Cycles(Seen(r, b), o))
<1>1. PICK s : s = Seen(r, a)
  OBVIOUS
<1>2. PICK q : q = Seen(r, b)
  OBVIOUS
<1>3. IsLog(q)
  BY <1>2, SeenIsLog
<1>4. \A family : /\ Of(s, family) \subseteq Of(q, family)
                  /\ \A i \in Of(s, family) : s[i] = q[i]
                  /\ Of(q, family) \subseteq DOMAIN q
  BY <1>1, <1>2, PrefixGrows DEF Of
<1>5. ASSUME NEW family \in Timed PROVE CountsGrow(s, q, family)
  <2>1. Keys(s, family) \subseteq Keys(q, family)
    BY <1>4 DEF Keys
  <2>2. ASSUME NEW key
        PROVE  /\ Cardinality(Mine(s, family, key)) <= Cardinality(Mine(q, family, key))
               /\ Spent(s, family, key) <= Spent(q, family, key)
    <3>1. /\ Mine(s, family, key) \subseteq Mine(q, family, key)
          /\ Mine(q, family, key) \subseteq DOMAIN q
      BY <1>4 DEF Mine
    <3>2. Spent(s, family, key) <= Spent(q, family, key)
      BY <1>1, <1>2, SpentGrows
    <3> QED  BY <1>3, <3>1, <3>2, SubsetCount
  <2>3. ASSUME NEW key, NEW c
        PROVE  Cardinality(Below(s, family, key, c))
                 <= Cardinality(Below(q, family, key, c))
    <3>1. /\ Below(s, family, key, c) \subseteq Below(q, family, key, c)
          /\ Below(q, family, key, c) \subseteq DOMAIN q
      BY <1>4 DEF Mine, Below
    <3> QED  BY <1>3, <3>1, SubsetCount
  <2> QED  BY <2>1, <2>2, <2>3 DEF CountsGrow
<1>6. ASSUME NEW o
      PROVE  Cardinality(Cycles(s, o)) <= Cardinality(Cycles(q, o))
  <2>1. Cycles(s, o) \subseteq Cycles(q, o) /\ Cycles(q, o) \subseteq DOMAIN q
    BY <1>4 DEF Cycles
  <2> QED  BY <1>3, <2>1, SubsetCount
<1> QED  BY <1>1, <1>2, <1>5, <1>6

\* A rendered family of a longer prefix.
LEMMA FamilyGrows ==
    ASSUME NEW r, NEW q, NEW family, CountsGrow(r, q, family),
           NEW f, FamilyExact(f, r, family), NEW g, FamilyExact(g, q, family)
    PROVE  Grows(Rendered(f), Rendered(g))
<1>1. /\ DOMAIN Rendered(f) = Keys(r, family)
      /\ DOMAIN Rendered(g) = Keys(q, family)
      /\ \A key \in Keys(r, family) : Rendered(f)[key] = AppendHistogram(f[key])
      /\ \A key \in Keys(q, family) : Rendered(g)[key] = AppendHistogram(g[key])
  BY DEF Rendered, FamilyExact
<1>2. ASSUME NEW key \in Keys(r, family)
      PROVE  /\ key \in Keys(q, family)
             /\ Rendered(f)[key].count <= Rendered(g)[key].count
             /\ Rendered(f)[key].sum <= Rendered(g)[key].sum
             /\ \A b \in DOMAIN Rendered(f)[key].buckets :
                   Rendered(f)[key].buckets[b] <= Rendered(g)[key].buckets[b]
  <2>1. key \in Keys(q, family)
    BY DEF CountsGrow
  <2>2. PICK h : h = f[key]
    OBVIOUS
  <2>3. PICK k : k = g[key]
    OBVIOUS
  <2>4. HistogramExact(h, r, family, key) /\ HistogramExact(k, q, family, key)
    BY <2>1, <2>2, <2>3 DEF FamilyExact
  <2>5. PICK x : x = Rendered(f)[key]
    OBVIOUS
  <2>6. PICK y : y = Rendered(g)[key]
    OBVIOUS
  <2>7. x = AppendHistogram(h) /\ y = AppendHistogram(k)
    BY <1>1, <2>1, <2>2, <2>3, <2>5, <2>6
  <2>8. /\ x.count = h.count /\ x.sum = h.sum
        /\ DOMAIN x.buckets = 1 .. Len(Buckets) + 1
        /\ \A b \in DOMAIN Buckets : x.buckets[b] = h.buckets[b]
        /\ x.buckets[Len(Buckets) + 1] = h.count
        /\ DOMAIN Buckets = 1 .. Len(Buckets) /\ Len(Buckets) \in Nat
    BY <2>4, <2>7, BucketsShown
  <2>9. /\ y.count = k.count /\ y.sum = k.sum
        /\ \A b \in DOMAIN Buckets : y.buckets[b] = k.buckets[b]
        /\ y.buckets[Len(Buckets) + 1] = k.count
    BY <2>4, <2>7, BucketsShown
  <2>10. /\ h.count <= k.count /\ h.sum <= k.sum
         /\ \A b \in DOMAIN Buckets : h.buckets[b] <= k.buckets[b]
    BY <2>4 DEF HistogramExact, CountsGrow
  <2>11. \A b \in DOMAIN x.buckets : b \in DOMAIN Buckets \/ b = Len(Buckets) + 1
    BY <2>8
  <2>12. \A b \in DOMAIN x.buckets : x.buckets[b] <= y.buckets[b]
    BY <2>8, <2>9, <2>10, <2>11
  <2> QED  BY <2>1, <2>5, <2>6, <2>8, <2>9, <2>10, <2>12
<1> QED  BY <1>1, <1>2 DEF Grows

-----------------------------------------------------------------------------
(* The cache counters, which no lock protects: a page shows no more than    *)
(* the next scrape has loaded, and that no more than the atomics hold.      *)

IsCounts(c) == c.hits \in Nat /\ c.successes \in Nat /\ c.failures \in Nat

AtMost(c, d) ==
    c.hits <= d.hits /\ c.successes <= d.successes /\ c.failures <= d.failures

Current == [hits |-> atomics.cache_hits,
            successes |-> atomics.refresh_successes,
            failures |-> atomics.refresh_failures]

CacheInv ==
    /\ DOMAIN atomics = {"cache_hits", "refresh_successes", "refresh_failures",
                         "last_success_unix_seconds"}
    /\ IsCounts(Current)
    /\ loaded.counts # None =>
          IsCounts(loaded.counts) /\ AtMost(loaded.counts, Current)
    /\ page # None => IsCounts(page.cache) /\ AtMost(page.cache, Current)
    /\ page # None /\ loaded.counts # None => AtMost(page.cache, loaded.counts)

LEMMA AtMostTransitive ==
    ASSUME NEW b, NEW c, NEW d, IsCounts(b), IsCounts(c), IsCounts(d),
           AtMost(b, c), AtMost(c, d)
    PROVE  AtMost(b, d)
BY DEF IsCounts, AtMost

LEMMA CachePreserved ==
    ASSUME RegistryInv, ScrapeInv, CacheInv, [Next]_vars
    PROVE  CacheInv'
<1>1. CASE loaded' = loaded /\ page' = page
  <2>1. /\ DOMAIN atomics' = DOMAIN atomics
        /\ IsCounts(Current') /\ AtMost(Current, Current')
    <3>1. IsCounts(Current)
      BY DEF CacheInv
    <3>2. CASE atomics' = atomics
      <4>1. Current' = Current
        BY <3>2 DEF Current
      <4> QED  BY <3>1, <3>2, <4>1 DEF IsCounts, AtMost
    <3>3. CASE CacheCount
      BY <3>1, <3>3 DEF CacheCount, CacheInv, IsCounts, AtMost, Current
    <3>4. CASE WriteCount
      BY <3>1, <3>4 DEF WriteCount, CacheInv, IsCounts, AtMost, Current
    <3>5. CASE WriteStamp
      BY <3>1, <3>5 DEF WriteStamp, CacheInv, IsCounts, AtMost, Current
    <3>6. CacheCount \/ WriteCount \/ WriteStamp \/ atomics' = atomics
      BY DEF Next, vars, Start, Reload, StepClock, ResolveHandler,
             HttpMiddleware, OtherRequest, RefreshSucceeds, BeginScrape,
             LoadStamp, LoadCounts, TakeSnapshot, Render, RecordScrape,
             cacheState
    <3> QED  BY <3>2, <3>3, <3>4, <3>5, <3>6
  <2>2. loaded.counts # None => AtMost(loaded.counts, Current')
    BY <2>1, AtMostTransitive DEF CacheInv
  <2>3. page # None => AtMost(page.cache, Current')
    BY <2>1, AtMostTransitive DEF CacheInv
  <2> QED  BY <1>1, <2>1, <2>2, <2>3 DEF CacheInv
<1>2. CASE LoadStamp
  <2>1. /\ loaded'.counts = loaded.counts /\ page' = page /\ atomics' = atomics
    BY <1>2 DEF LoadStamp, ScrapeInv, cacheState
  <2>2. Current' = Current
    BY <2>1 DEF Current
  <2> QED  BY <2>1, <2>2 DEF CacheInv
<1>3. CASE LoadCounts
  <2>1. /\ loaded'.counts = Current /\ page' = page /\ atomics' = atomics
    BY <1>3 DEF LoadCounts, ScrapeInv, cacheState, Current
  <2>2. Current' = Current
    BY <2>1 DEF Current
  <2>3. AtMost(Current, Current)
    BY DEF CacheInv, IsCounts, AtMost
  <2> QED  BY <2>1, <2>2, <2>3 DEF CacheInv
<1>4. CASE Render
  <2>1. page'.cache = RenderCacheMetrics(loaded) /\ loaded' = NotLoaded /\ Loaded
    BY <1>4, RenderStep
  <2>2. atomics' = atomics
    BY <1>4 DEF Render, cacheState
  <2>3. Current' = Current
    BY <2>2 DEF Current
  <2>4. /\ page'.cache.hits = loaded.counts.hits
        /\ page'.cache.successes = loaded.counts.successes
        /\ page'.cache.failures = loaded.counts.failures
    BY <2>1 DEF RenderCacheMetrics
  <2>5. IsCounts(loaded.counts) /\ AtMost(loaded.counts, Current)
    BY <2>1 DEF CacheInv, Loaded
  <2>6. IsCounts(page'.cache) /\ AtMost(page'.cache, Current)
    BY <2>4, <2>5 DEF IsCounts, AtMost
  <2>7. loaded'.counts = None
    BY <2>1 DEF NotLoaded
  <2> QED  BY <2>2, <2>3, <2>6, <2>7 DEF CacheInv
<1>5. LoadStamp \/ LoadCounts \/ Render \/ (loaded' = loaded /\ page' = page)
  BY DEF Next, vars, Start, Reload, StepClock, ResolveHandler, HttpMiddleware,
         OtherRequest, CacheCount, RefreshSucceeds, WriteCount, WriteStamp,
         BeginScrape, TakeSnapshot, RecordScrape, scraper
<1> QED  BY <1>1, <1>2, <1>3, <1>4, <1>5

\* What a scraper compares.
Larger ==
    /\ Grows(page.http, page'.http)
    /\ Grows(page.resolve, page'.resolve)
    /\ page.cache.hits <= page'.cache.hits
    /\ page.cache.successes <= page'.cache.successes
    /\ page.cache.failures <= page'.cache.failures
    /\ file => \A o \in Outcomes :
          page.policy.reloads[o] <= page'.policy.reloads[o]

LEMMA RenderGrows ==
    ASSUME RegistryInv, ScrapeInv, PageInv, CacheInv, Render, page # None
    PROVE  Larger
<1>1. PICK m : Drawn(page, m, log, file)
  BY DEF PageInv
<1>2. PICK n : n = snapshot.inner
  OBVIOUS
<1>3. /\ Drawn(page', n, log, file) /\ page'.seen = snapshot.seen
      /\ page'.cache = RenderCacheMetrics(loaded) /\ Loaded
  BY <1>2, RenderStep
<1>4. /\ page.seen \in 0 .. Len(log) /\ page'.seen \in 0 .. Len(log)
      /\ IsLog(log)
  BY <1>1, <1>3 DEF Drawn, Shows, RegistryInv
<1>5. page.seen <= page'.seen
  BY <1>3 DEF Render, PageInv
<1>6. PICK r : r = Seen(log, page.seen)
  OBVIOUS
<1>7. PICK q : q = Seen(log, page'.seen)
  OBVIOUS
<1>8. Account(m, r, file) /\ Account(n, q, file)
  BY <1>1, <1>3, <1>6, <1>7 DEF Drawn, Shows
<1>9. /\ \A family \in Timed : CountsGrow(r, q, family)
      /\ \A o : Cardinality(Cycles(r, o)) <= Cardinality(Cycles(q, o))
  BY <1>4, <1>5, <1>6, <1>7, PrefixCounts
<1>10. Grows(page.http, page'.http)
  <2>1. /\ page.http = Rendered(m.http_requests)
        /\ page'.http = Rendered(n.http_requests)
    BY <1>1, <1>3 DEF Drawn, Rendered, RenderHttpMetrics
  <2>2. CountsGrow(r, q, "http")
    BY <1>9 DEF Timed
  <2> QED  BY <1>8, <2>1, <2>2, FamilyGrows DEF Account
<1>11. Grows(page.resolve, page'.resolve)
  <2>1. /\ page.resolve = Rendered(m.resolve_requests)
        /\ page'.resolve = Rendered(n.resolve_requests)
    BY <1>1, <1>3 DEF Drawn, Rendered, RenderResolveMetrics
  <2>2. CountsGrow(r, q, "resolve")
    BY <1>9 DEF Timed
  <2> QED  BY <1>8, <2>1, <2>2, FamilyGrows DEF Account
<1>12. /\ page.cache.hits <= page'.cache.hits
       /\ page.cache.successes <= page'.cache.successes
       /\ page.cache.failures <= page'.cache.failures
  BY <1>3 DEF CacheInv, AtMost, Loaded, RenderCacheMetrics
<1>13. ASSUME file, NEW o \in Outcomes
       PROVE  page.policy.reloads[o] <= page'.policy.reloads[o]
  <2>1. /\ page.policy = PolicyAt(m, page.renderedAt)
        /\ page'.policy = PolicyAt(n, page'.renderedAt)
        /\ page.renderedAt \in Int /\ page'.renderedAt \in Int
    BY <1>1, <1>3 DEF Drawn
  <2>2. /\ PolicyExact(page.policy, r, page.renderedAt)
        /\ PolicyExact(page'.policy, q, page'.renderedAt)
    BY <1>8, <1>13, <2>1, PolicyShown DEF Account
  <2>3. /\ page.policy.reloads[o] = Cardinality(Cycles(r, o))
        /\ page'.policy.reloads[o] = Cardinality(Cycles(q, o))
    BY <2>2 DEF PolicyExact, Cycles
  <2> QED  BY <1>9, <2>3
<1> QED  BY <1>10, <1>11, <1>12, <1>13 DEF Larger

\* No counter of any family goes back from one page to the next, and no
\* series disappears.
THEOREM CountersNeverFall == Spec => CountersMonotone
<1>1. Init => CacheInv
  BY DEF Init, CacheInv, Current, IsCounts, NotLoaded
<1>2. RecordsInv /\ CacheInv /\ [Next]_vars => CacheInv'
  BY CachePreserved DEF RecordsInv
<1>3. RecordsInv /\ CacheInv /\ [Next]_vars =>
        [page # None /\ page' # page => Larger]_vars
  <2> SUFFICES ASSUME RecordsInv, CacheInv, [Next]_vars, page # None, page' # page
               PROVE  Larger
    OBVIOUS
  <2>1. Render
    BY DEF Next, vars, Start, Reload, StepClock, ResolveHandler, HttpMiddleware,
           OtherRequest, CacheCount, RefreshSucceeds, WriteCount, WriteStamp,
           BeginScrape, LoadStamp, LoadCounts, TakeSnapshot, RecordScrape,
           scraper
  <2> QED  BY <2>1, RenderGrows DEF RecordsInv
<1>4. Spec => [][page # None /\ page' # page => Larger]_vars
  BY <1>1, <1>2, <1>3, RecordsInvariant, PTL DEF Spec
<1> QED  BY <1>4 DEF CountersMonotone, Larger
=============================================================================
