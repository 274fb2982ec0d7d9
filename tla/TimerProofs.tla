----------------------------- MODULE TimerProofs -----------------------------
(***************************************************************************)
(* Proofs about the timer queue (Timers): timers are queued exactly while    *)
(* they can be cancelled; and if nothing is asked for half a word of jiffies *)
(* ahead, the deltas stay exact, the interrupt stays armed and no timer      *)
(* expires early, however late the interrupt is.  First sums along a queue,  *)
(* then what the changes of the queue do to them, then arithmetic modulo a   *)
(* word, then the steps.                                                     *)
(***************************************************************************)
EXTENDS Timers, QueueLemmas

-----------------------------------------------------------------------------
(* Sums along a queue.                                                     *)

\* f holds the running sums of the deltas d along the first m timers of q.
Sums(f, q, d, m) ==
  f = [n \in 0 .. m |-> IF n = 0 THEN 0 ELSE f[n - 1] + d[q[n]]]

\* There are such sums along any number of places.
LEMMA SumsExist ==
  ASSUME NEW q, NEW d, NEW m \in Nat
  PROVE  \E f : Sums(f, q, d, m)
<1> DEFINE Bad == {k \in Nat : ~ \E f : Sums(f, q, d, k)}
<1>1. SUFFICES ASSUME Bad # {} PROVE FALSE
  OBVIOUS
<1>2. PICK k \in Nat : k \in Bad /\ \A j \in Bad : k <= j
  BY <1>1, MinProperties
<1>3. CASE k = 0
  <2> DEFINE f == [n \in 0 .. 0 |-> 0]
  <2>1. Sums(f, q, d, 0)
    BY DEF Sums
  <2>2. QED
    BY <2>1, <1>2, <1>3
<1>4. CASE k # 0
  <2>1. k - 1 \in Nat /\ k - 1 \notin Bad
    BY <1>2, <1>4
  <2>2. PICK g : Sums(g, q, d, k - 1)
    BY <2>1
  <2> DEFINE f == [n \in 0 .. k |-> IF n = k THEN g[k - 1] + d[q[k]] ELSE g[n]]
  <2>3. \A n \in 0 .. k - 1 : g[n] = IF n = 0 THEN 0 ELSE g[n - 1] + d[q[n]]
    BY <2>1, <2>2 DEF Sums
  <2>4. ASSUME NEW n \in 0 .. k
        PROVE  f[n] = IF n = 0 THEN 0 ELSE f[n - 1] + d[q[n]]
    <3>1. CASE n = k
      BY <3>1, <1>4
    <3>2. CASE n # k
      <4>1. n \in 0 .. k - 1
        BY <3>2
      <4>2. f[n] = g[n] /\ (n # 0 => f[n - 1] = g[n - 1])
        BY <4>1
      <4>3. QED
        BY <4>1, <4>2, <2>3
    <3>3. QED
      BY <3>1, <3>2
  <2>5. Sums(f, q, d, k)
    BY <2>4 DEF Sums
  <2>6. QED
    BY <2>5, <1>2
<1>5. QED
  BY <1>3, <1>4

\* Each total is the one before it and the delta of its timer.
LEMMA TotalStep ==
  ASSUME NEW T, NEW q \in Seq(T), NEW d
  PROVE  /\ Total(q, d, 0) = 0
         /\ \A k \in 1 .. Len(q) : Total(q, d, k) = Total(q, d, k - 1) + d[q[k]]
<1>0. Len(q) \in Nat
  BY LenProperties
<1> DEFINE sum == CHOOSE f : Sums(f, q, d, Len(q))
<1>1. Sums(sum, q, d, Len(q))
  BY <1>0, SumsExist
<1>2. \A k : Total(q, d, k) = sum[k]
  BY DEF Total, Sums
<1> HIDE DEF sum
<1>3. \A n \in 0 .. Len(q) : sum[n] = IF n = 0 THEN 0 ELSE sum[n - 1] + d[q[n]]
  BY <1>1 DEF Sums
<1>4. QED
  BY <1>0, <1>2, <1>3

\* s adds up the deltas d along the first N places of q.
AddsUp(s, q, d, N) == s[0] = 0 /\ \A k \in 1 .. N : s[k] = s[k - 1] + d[q[k]]

\* Only the totals satisfy those equations.
LEMMA TotalIs ==
  ASSUME NEW T, NEW q \in Seq(T), NEW d, NEW f, AddsUp(f, q, d, Len(q))
  PROVE  \A k \in 0 .. Len(q) : Total(q, d, k) = f[k]
<1>0. Len(q) \in Nat
  BY LenProperties
<1>01. f[0] = 0 /\ \A k \in 1 .. Len(q) : f[k] = f[k - 1] + d[q[k]]
  BY DEF AddsUp
<1> DEFINE Bad == {k \in 0 .. Len(q) : Total(q, d, k) # f[k]}
<1>1. SUFFICES ASSUME Bad # {} PROVE FALSE
  OBVIOUS
<1>2. PICK k \in Bad : \A j \in Bad : k <= j
  <2>1. Bad \in SUBSET Nat
    BY <1>0
  <2>2. QED
    BY <2>1, <1>1, MinProperties
<1>3. k # 0
  BY <1>01, TotalStep
<1>4. k \in 1 .. Len(q) /\ k - 1 \in 0 .. Len(q) /\ k - 1 \notin Bad
  BY <1>0, <1>2, <1>3
<1>5. Total(q, d, k - 1) = f[k - 1]
  BY <1>4
<1>6. Total(q, d, k) = f[k]
  BY <1>01, <1>4, <1>5, TotalStep
<1>7. QED
  BY <1>6

\* Totals of natural deltas are natural and grow along the queue.
LEMMA TotalGrows ==
  ASSUME NEW T, NEW q \in Seq(T), NEW d \in [T -> Nat]
  PROVE  /\ \A k \in 0 .. Len(q) : Total(q, d, k) \in Nat
         /\ \A k \in 0 .. Len(q), j \in 0 .. Len(q) : j <= k => Total(q, d, j) <= Total(q, d, k)
<1>0. Len(q) \in Nat /\ \A k \in 1 .. Len(q) : d[q[k]] \in Nat
  BY LenProperties, ElementOfSeq
<1> DEFINE Good(k) == /\ Total(q, d, k) \in Nat
                      /\ \A j \in 0 .. Len(q) : j <= k => Total(q, d, j) <= Total(q, d, k)
           Bad == {k \in 0 .. Len(q) : ~ Good(k)}
<1>1. SUFFICES ASSUME Bad # {} PROVE FALSE
  OBVIOUS
<1>2. PICK k \in Bad : \A j \in Bad : k <= j
  <2>1. Bad \in SUBSET Nat
    BY <1>0
  <2>2. QED
    BY <2>1, <1>1, MinProperties
<1>3. CASE k = 0
  <2>1. \A j \in 0 .. Len(q) : j <= 0 => j = 0
    BY <1>0
  <2>2. Good(0)
    BY <2>1, TotalStep
  <2>3. QED
    BY <2>2, <1>2, <1>3
<1>4. CASE k # 0
  <2>1. k \in 1 .. Len(q) /\ k - 1 \in 0 .. Len(q) /\ k - 1 \notin Bad
    BY <1>0, <1>2, <1>4
  <2>2. Good(k - 1)
    BY <2>1
  <2>3. Total(q, d, k) = Total(q, d, k - 1) + d[q[k]] /\ d[q[k]] \in Nat
    BY <2>1, <1>0, TotalStep
  <2> DEFINE a == Total(q, d, k - 1)
             b == Total(q, d, k)
  <2>4. a \in Nat /\ b \in Nat /\ a <= b
    BY <2>2, <2>3
  <2>5. ASSUME NEW j \in 0 .. Len(q), j <= k PROVE Total(q, d, j) <= b
    <3>1. CASE j = k
      BY <3>1, <2>4
    <3>2. CASE j # k
      <4>1. j <= k - 1
        BY <3>2, <2>5, <2>1
      <4>2. Total(q, d, j) <= a
        BY <4>1, <2>2
      <4>3. j < k /\ j \in 0 .. Len(q) /\ j \notin Bad
        BY <4>1, <2>1, <1>2, <1>0
      <4>4. Total(q, d, j) \in Nat
        BY <4>3
      <4> HIDE DEF a, b
      <4>5. QED
        BY <4>2, <4>4, <2>4
    <3>3. QED
      BY <3>1, <3>2
  <2>6. Good(k)
    BY <2>4, <2>5
  <2>7. QED
    BY <2>6, <1>2
<1>5. QED
  BY <1>3, <1>4
-----------------------------------------------------------------------------
(* Timers linked into the queue, taken out of it and cut off its front: first  *)
(* as functions of the places 1 .. N, then as sequences.  q and d are the queue *)
(* and the deltas before, p and e those after, s the totals before.          *)

\* Every timer is on the queue q once.
Single(q) == \A i, j \in 1 .. Len(q) : q[i] = q[j] => i = j

\* Single is the library's IsInjective, in terms of places.
LEMMA SingleIsInjective ==
  ASSUME NEW T, NEW q \in Seq(T)
  PROVE  Single(q) <=> IsInjective(q)
BY LenProperties DEF Single, IsInjective

(* What is known of places is stated with these predicates, so that a proof  *)
(* can apply a lemma without unfolding its quantifiers.                     *)

\* q has different timers at its places; x is one of them.
Distinct(q, N) == \A i, j \in 1 .. N : q[i] = q[j] => i = j
Among(x, q, N) == \E k \in 1 .. N : q[k] = x

\* p is q with t behind b others; q without its i-th timer; q without the first n.
Spliced(p, q, b, t, N) ==
  \A k \in 1 .. N + 1 : p[k] = IF k <= b THEN q[k] ELSE IF k = b + 1 THEN t ELSE q[k - 1]
Skipped(p, q, i, N) == \A k \in 1 .. N - 1 : p[k] = IF k < i THEN q[k] ELSE q[k + 1]
Shifted(p, q, n, N) == \A k \in 1 .. N - n : p[k] = q[n + k]
Begins(g, q, n) == \A k \in 1 .. n : g[k] = q[k]

\* What the deltas e are to be for that.
GivesUp(e, d, q, b, t, N) ==
  \A k \in 1 .. N : e[q[k]] = IF k = b + 1 THEN d[q[k]] - e[t] ELSE d[q[k]]
Inherits(e, d, q, i, N) ==
  \A k \in 1 .. N : k # i => e[q[k]] = IF k = i + 1 THEN d[q[k]] + d[q[i]] ELSE d[q[k]]
Rebased(e, d, q, s, n, m, N) ==
  \A k \in n + 1 .. N : e[q[k]] = IF k = n + 1 THEN s[k] - m ELSE d[q[k]]

Natural(s, d, q, N) ==
  /\ \A k \in 0 .. N : s[k] \in Nat
  /\ \A k \in 1 .. N : s[k - 1] \in Nat /\ d[q[k]] \in Nat

\* A timer behind b others leaves all totals but its own as they were, if its
\* successor gives up as much as the new timer has.
LEMMA InsertedAdds ==
  ASSUME NEW N \in Nat, NEW b \in 0 .. N, NEW q, NEW p, NEW t, NEW d, NEW e, NEW s, NEW f,
         Spliced(p, q, b, t, N), AddsUp(s, q, d, N), Natural(s, d, q, N), e[t] \in Nat,
         GivesUp(e, d, q, b, t, N),
         \A k \in 0 .. N + 1 :
           f[k] = IF k <= b THEN s[k] ELSE IF k = b + 1 THEN s[b] + e[t] ELSE s[k - 1]
  PROVE  AddsUp(f, p, e, N + 1)
<1>0. /\ s[0] = 0 /\ \A k \in 1 .. N : s[k] = s[k - 1] + d[q[k]]
      /\ \A k \in 1 .. N : s[k - 1] \in Nat /\ d[q[k]] \in Nat
      /\ \A k \in 1 .. N + 1 : p[k] = IF k <= b THEN q[k] ELSE IF k = b + 1 THEN t ELSE q[k - 1]
      /\ \A k \in 1 .. N : e[q[k]] = IF k = b + 1 THEN d[q[k]] - e[t] ELSE d[q[k]]
  BY DEF AddsUp, Natural, Spliced, GivesUp
<1>1. f[0] = 0
  BY <1>0
<1>2. ASSUME NEW k \in 1 .. N + 1 PROVE f[k] = f[k - 1] + e[p[k]]
  <2>1. CASE k <= b
    BY <1>0, <2>1
  <2>2. CASE k = b + 1
    BY <1>0, <2>2
  <2>3. CASE k = b + 2
    BY <1>0, <2>3
  <2>4. CASE k > b + 2
    BY <1>0, <2>4
  <2>5. QED
    BY <2>1, <2>2, <2>3, <2>4
<1>3. QED
  BY <1>1, <1>2 DEF AddsUp

\* A timer taken out leaves the other totals, if its successor inherits what it had.
LEMMA RemovedAdds ==
  ASSUME NEW N \in Nat, NEW i \in 1 .. N, NEW q, NEW p, NEW d, NEW e, NEW s, NEW f,
         Skipped(p, q, i, N), AddsUp(s, q, d, N), Natural(s, d, q, N), Inherits(e, d, q, i, N),
         \A k \in 0 .. N - 1 : f[k] = IF k < i THEN s[k] ELSE s[k + 1]
  PROVE  AddsUp(f, p, e, N - 1)
<1>1. f[0] = 0
  BY DEF AddsUp
<1>2. ASSUME NEW k \in 1 .. N - 1 PROVE f[k] = f[k - 1] + e[p[k]]
  BY DEF AddsUp, Skipped, Natural, Inherits
<1>3. QED
  BY <1>1, <1>2 DEF AddsUp

\* n timers cut off the front leave the other totals smaller by m, if the first of
\* the others has its total less m.
LEMMA CutAdds ==
  ASSUME NEW N \in Nat, NEW n \in 0 .. N, NEW q, NEW p, NEW d, NEW e, NEW s, NEW f, NEW m \in Int,
         Shifted(p, q, n, N), AddsUp(s, q, d, N), Natural(s, d, q, N),
         Rebased(e, d, q, s, n, m, N),
         f[0] = 0, \A k \in 1 .. N - n : f[k] = s[n + k] - m
  PROVE  AddsUp(f, p, e, N - n)
<1>1. /\ \A k \in 1 .. N - n : p[k] = q[n + k]
      /\ \A k \in 0 .. N : s[k] \in Nat
      /\ \A k \in 1 .. N : d[q[k]] \in Nat
      /\ \A k \in n + 1 .. N : e[q[k]] = IF k = n + 1 THEN s[k] - m ELSE d[q[k]]
  BY DEF Shifted, Natural, Rebased
<1>2. ASSUME NEW k \in 1 .. N - n PROVE f[k] = f[k - 1] + e[p[k]]
  <2>1. n + k \in n + 1 .. N /\ n + k \in 1 .. N
    OBVIOUS
  <2>2. CASE k = 1
    BY <1>1, <2>1, <2>2
  <2>3. CASE k # 1
    <3>1. k - 1 \in 1 .. N - n /\ n + (k - 1) = n + k - 1 /\ n + k # n + 1
      BY <2>3
    <3>2. f[k - 1] = s[n + k - 1] - m /\ f[k] = s[n + k] - m /\ e[p[k]] = d[q[n + k]]
      BY <3>1, <2>1, <1>1
    <3>3. s[n + k] = s[n + k - 1] + d[q[n + k]] /\ n + k - 1 \in 0 .. N
      BY <2>1 DEF AddsUp
    <3>4. QED
      BY <3>2, <3>3, <2>1, <1>1
  <2>4. QED
    BY <2>2, <2>3
<1>3. QED
  BY <1>2 DEF AddsUp

\* The same timers are on the queue, and none twice.
LEMMA InsertedOnce ==
  ASSUME NEW N \in Nat, NEW b \in 0 .. N, NEW q, NEW p, NEW t,
         Distinct(q, N), ~Among(t, q, N), Spliced(p, q, b, t, N)
  PROVE  /\ Distinct(p, N + 1)
         /\ \A x : Among(x, p, N + 1) <=> Among(x, q, N) \/ x = t
<1> USE DEF Distinct, Among, Spliced
<1>1. ASSUME NEW i \in 1 .. N + 1, NEW j \in 1 .. N + 1, p[i] = p[j] PROVE i = j
  BY <1>1
<1>2. ASSUME NEW x, NEW k \in 1 .. N + 1, p[k] = x
      PROVE  (\E j \in 1 .. N : q[j] = x) \/ x = t
  BY <1>2
<1>3. p[b + 1] = t /\ b + 1 \in 1 .. N + 1
  OBVIOUS
<1>4. ASSUME NEW x, NEW k \in 1 .. N, q[k] = x
      PROVE  \E j \in 1 .. N + 1 : p[j] = x
  <2>1. CASE k <= b
    BY <1>4, <2>1
  <2>2. CASE k > b
    <3>1. k + 1 \in 1 .. N + 1 /\ p[k + 1] = x
      BY <1>4, <2>2
    <3>2. QED
      BY <3>1
  <2>3. QED
    BY <2>1, <2>2
<1>5. QED
  BY <1>1, <1>2, <1>3, <1>4

\* Without the i-th timer the others are still there, each once.
LEMMA RemovedOnce ==
  ASSUME NEW N \in Nat, NEW i \in 1 .. N, NEW q, NEW p,
         Distinct(q, N), Skipped(p, q, i, N)
  PROVE  /\ Distinct(p, N - 1)
         /\ \A x : Among(x, p, N - 1) <=> Among(x, q, N) /\ x # q[i]
<1> USE DEF Distinct, Among, Skipped
<1>1. ASSUME NEW j \in 1 .. N - 1, NEW k \in 1 .. N - 1, p[j] = p[k] PROVE j = k
  BY <1>1
<1>2. ASSUME NEW x, NEW k \in 1 .. N, q[k] = x, x # q[i]
      PROVE  \E j \in 1 .. N - 1 : p[j] = x
  <2>1. CASE k < i
    BY <1>2, <2>1
  <2>2. CASE k > i
    <3>1. k - 1 \in 1 .. N - 1 /\ p[k - 1] = x
      BY <1>2, <2>2
    <3>2. QED
      BY <3>1
  <2>3. QED
    BY <1>2, <2>1, <2>2
<1>3. ASSUME NEW x, NEW k \in 1 .. N - 1, p[k] = x
      PROVE  (\E j \in 1 .. N : q[j] = x) /\ x # q[i]
  BY <1>3
<1>4. QED
  BY <1>1, <1>2, <1>3

\* Without the first n timers the others are still there, each once.
LEMMA CutOnce ==
  ASSUME NEW N \in Nat, NEW n \in 0 .. N, NEW q, NEW p, NEW g,
         Distinct(q, N), Shifted(p, q, n, N), Begins(g, q, n)
  PROVE  /\ Distinct(p, N - n)
         /\ \A x : Among(x, p, N - n) <=> Among(x, q, N) /\ ~Among(x, g, n)
<1> USE DEF Distinct, Among, Shifted, Begins
<1>1. ASSUME NEW j \in 1 .. N - n, NEW k \in 1 .. N - n, p[j] = p[k] PROVE j = k
  <2>1. n + j \in 1 .. N /\ n + k \in 1 .. N /\ q[n + j] = q[n + k]
    BY <1>1
  <2>2. n + j = n + k
    BY <2>1
  <2>3. QED
    BY <2>2
<1>2. ASSUME NEW x, NEW k \in 1 .. N, q[k] = x, ~(\E j \in 1 .. n : g[j] = x)
      PROVE  \E j \in 1 .. N - n : p[j] = x
  <2>1. ~(k \in 1 .. n)
    BY <1>2
  <2>2. k - n \in 1 .. N - n /\ n + (k - n) = k
    BY <2>1
  <2>3. QED
    BY <2>2, <1>2
<1>3. ASSUME NEW x, NEW k \in 1 .. N - n, p[k] = x
      PROVE  (\E j \in 1 .. N : q[j] = x) /\ ~(\E j \in 1 .. n : g[j] = x)
  <2>1. n + k \in 1 .. N /\ q[n + k] = x
    BY <1>3
  <2>2. ASSUME NEW j \in 1 .. n, g[j] = x PROVE FALSE
    <3>1. j \in 1 .. N /\ q[j] = q[n + k] /\ j # n + k
      BY <2>1, <2>2
    <3>2. QED
      BY <3>1, <2>1
  <2>3. QED
    BY <2>1, <2>2
<1>4. QED
  BY <1>1, <1>2, <1>3

\* Places in a sequence that is linked together from two.
LEMMA ConcatPlaces ==
  ASSUME NEW T, NEW x \in Seq(T), NEW y \in Seq(T)
  PROVE  /\ x \o y \in Seq(T) /\ Len(x \o y) = Len(x) + Len(y)
         /\ \A k \in 1 .. Len(x) + Len(y) :
              (x \o y)[k] = IF k <= Len(x) THEN x[k] ELSE y[k - Len(x)]
BY ConcatProperties

\* The places of a queue without its first n timers.
LEMMA BackPlaces ==
  ASSUME NEW T, NEW q \in Seq(T), NEW n \in 0 .. Len(q)
  PROVE  /\ SubSeq(q, n + 1, Len(q)) \in Seq(T) /\ Len(SubSeq(q, n + 1, Len(q))) = Len(q) - n
         /\ \A k \in 1 .. Len(q) - n : SubSeq(q, n + 1, Len(q))[k] = q[n + k]
BY LenProperties, SubSeqProperties, ElementOfSeq

\* The places of the first i timers of a queue.
LEMMA FrontPlaces ==
  ASSUME NEW T, NEW q \in Seq(T), NEW i \in 0 .. Len(q)
  PROVE  /\ SubSeq(q, 1, i) \in Seq(T) /\ Len(SubSeq(q, 1, i)) = i
         /\ \A k \in 1 .. i : SubSeq(q, 1, i)[k] = q[k]
BY LenProperties, SubSeqProperties, ElementOfSeq

\* What InsertAt puts together.
LEMMA InsertAtIs ==
  ASSUME NEW q, NEW i, NEW t
  PROVE  InsertAt(q, i, t) = (SubSeq(q, 1, i - 1) \o <<t>>) \o SubSeq(q, i, Len(q))
BY DEF InsertAt

\* InsertAt puts a timer behind b others.
LEMMA SpliceSeq ==
  ASSUME NEW T, NEW q \in Seq(T), NEW b \in 0 .. Len(q), NEW t \in T
  PROVE  /\ InsertAt(q, b + 1, t) \in Seq(T)
         /\ Len(InsertAt(q, b + 1, t)) = Len(q) + 1
         /\ Spliced(InsertAt(q, b + 1, t), q, b, t, Len(q))
<1> DEFINE x == SubSeq(q, 1, b)
           y == <<t>>
           z == SubSeq(q, b + 1, Len(q))
           w == x \o y
           u == w \o z
           N == Len(q)
<1>0. N \in Nat
  BY LenProperties
<1>1. InsertAt(q, b + 1, t) = u
  <2>1. (b + 1) - 1 = b
    BY <1>0
  <2>2. InsertAt(q, b + 1, t) = (SubSeq(q, 1, (b + 1) - 1) \o <<t>>) \o SubSeq(q, b + 1, Len(q))
    BY InsertAtIs, Zenon
  <2>3. QED
    BY <2>1, <2>2, Zenon
<1>2. x \in Seq(T) /\ Len(x) = b /\ \A k \in 1 .. b : x[k] = q[k]
  BY FrontPlaces
<1>3. y \in Seq(T) /\ Len(y) = 1 /\ y[1] = t
  OBVIOUS
<1>4. z \in Seq(T) /\ Len(z) = N - b /\ \A k \in 1 .. N - b : z[k] = q[b + k]
  BY BackPlaces
<1> HIDE DEF x, y, z
<1>5. /\ w \in Seq(T) /\ Len(w) = b + 1
      /\ \A k \in 1 .. b + 1 : w[k] = IF k <= b THEN x[k] ELSE y[k - b]
  <2>1. /\ x \o y \in Seq(T) /\ Len(x \o y) = Len(x) + Len(y)
        /\ \A k \in 1 .. Len(x) + Len(y) :
             (x \o y)[k] = IF k <= Len(x) THEN x[k] ELSE y[k - Len(x)]
    BY <1>2, <1>3, ConcatPlaces
  <2>2. QED
    BY <1>2, <1>3, <2>1, Zenon
<1> HIDE DEF w, N
<1>6. /\ u \in Seq(T) /\ Len(u) = (b + 1) + (N - b)
      /\ \A k \in 1 .. (b + 1) + (N - b) : u[k] = IF k <= b + 1 THEN w[k] ELSE z[k - (b + 1)]
  <2>1. /\ w \o z \in Seq(T) /\ Len(w \o z) = Len(w) + Len(z)
        /\ \A k \in 1 .. Len(w) + Len(z) :
             (w \o z)[k] = IF k <= Len(w) THEN w[k] ELSE z[k - Len(w)]
    BY <1>4, <1>5, ConcatPlaces
  <2>2. QED
    BY <1>4, <1>5, <2>1, Zenon
<1> HIDE DEF u
<1>7. b \in 0 .. N
  BY DEF N
<1>8. ASSUME NEW k \in 1 .. N + 1
      PROVE  u[k] = IF k <= b THEN q[k] ELSE IF k = b + 1 THEN t ELSE q[k - 1]
  <2>1. k \in 1 .. (b + 1) + (N - b)
    BY <1>0, <1>7
  <2>2. CASE k <= b
    BY <2>1, <2>2, <1>2, <1>5, <1>6, <1>7
  <2>3. CASE k = b + 1
    BY <2>1, <2>3, <1>3, <1>5, <1>6, <1>7
  <2>4. CASE k > b + 1
    <3>1. k - (b + 1) \in 1 .. N - b /\ b + (k - (b + 1)) = k - 1
      BY <2>4, <1>0, <1>7
    <3>2. u[k] = z[k - (b + 1)] /\ z[k - (b + 1)] = q[b + (k - (b + 1))]
      BY <2>1, <2>4, <3>1, <1>4, <1>6, <1>7
    <3>3. QED
      BY <3>1, <3>2, <2>4, <1>7
  <2>5. QED
    BY <2>2, <2>3, <2>4, <1>0, <1>7
<1>9. Len(u) = N + 1
  BY <1>0, <1>6, <1>7
<1>10. Spliced(u, q, b, t, N)
  BY <1>8 DEF Spliced
<1>11. QED
  BY <1>1, <1>6, <1>9, <1>10 DEF N

\* RemoveAt leaves the timers before its place where they were.
LEMMA RemovedPlaces ==
  ASSUME NEW T, NEW q \in Seq(T), NEW i \in 1 .. Len(q)
  PROVE  /\ RemoveAt(q, i) \in Seq(T)
         /\ Len(RemoveAt(q, i)) = Len(q) - 1
         /\ \A k \in 1 .. Len(q) - 1 : RemoveAt(q, i)[k] = IF k < i THEN q[k] ELSE q[k + 1]
<1> DEFINE x == SubSeq(q, 1, i - 1)
           z == SubSeq(q, i + 1, Len(q))
           u == x \o z
           N == Len(q)
<1>0. N \in Nat /\ i \in 1 .. N
  BY LenProperties
<1>1. RemoveAt(q, i) = u
  BY Zenon DEF RemoveAt
<1>2. x \in Seq(T) /\ Len(x) = i - 1 /\ \A k \in 1 .. i - 1 : x[k] = q[k]
  BY <1>0, FrontPlaces
<1>3. z \in Seq(T) /\ Len(z) = N - i /\ \A k \in 1 .. N - i : z[k] = q[i + k]
  BY <1>0, BackPlaces
<1> HIDE DEF x, z, N
<1>4. /\ u \in Seq(T) /\ Len(u) = (i - 1) + (N - i)
      /\ \A k \in 1 .. (i - 1) + (N - i) : u[k] = IF k <= i - 1 THEN x[k] ELSE z[k - (i - 1)]
  <2>1. /\ x \o z \in Seq(T) /\ Len(x \o z) = Len(x) + Len(z)
        /\ \A k \in 1 .. Len(x) + Len(z) :
             (x \o z)[k] = IF k <= Len(x) THEN x[k] ELSE z[k - Len(x)]
    BY <1>2, <1>3, ConcatPlaces
  <2>2. QED
    BY <1>2, <1>3, <2>1, Zenon
<1> HIDE DEF u
<1>5. ASSUME NEW k \in 1 .. N - 1
      PROVE  u[k] = IF k < i THEN q[k] ELSE q[k + 1]
  <2>1. CASE k < i
    <3>1. k \in 1 .. i - 1 /\ k \in 1 .. (i - 1) + (N - i) /\ k <= i - 1
      BY <2>1, <1>0
    <3>2. u[k] = x[k] /\ x[k] = q[k]
      BY <3>1, <1>2, <1>4
    <3>3. QED
      BY <3>2, <2>1
  <2>2. CASE ~(k < i)
    <3>1. /\ k - (i - 1) \in 1 .. N - i /\ k \in 1 .. (i - 1) + (N - i) /\ ~(k <= i - 1)
          /\ i + (k - (i - 1)) = k + 1
      BY <2>2, <1>0
    <3>2. u[k] = z[k - (i - 1)] /\ z[k - (i - 1)] = q[i + (k - (i - 1))]
      BY <3>1, <1>3, <1>4
    <3>3. QED
      BY <3>1, <3>2, <2>2
  <2>3. QED
    BY <2>1, <2>2
<1>6. Len(u) = N - 1
  BY <1>0, <1>4
<1>7. QED
  BY <1>1, <1>4, <1>5, <1>6 DEF N

\* The totals along q, as a function of the place.
Along(q, d) == [k \in 0 .. Len(q) |-> Total(q, d, k)]

\* The totals of a queue add up its deltas.
LEMMA AlongAdds ==
  ASSUME NEW T, NEW q \in Seq(T), NEW d \in [T -> Nat], NEW N, N = Len(q)
  PROVE  AddsUp(Along(q, d), q, d, N) /\ Natural(Along(q, d), d, q, N)
<1>0. Len(q) \in Nat
  BY LenProperties
<1>1. \A k \in 0 .. Len(q) : Along(q, d)[k] = Total(q, d, k) /\ Along(q, d)[k] \in Nat
  BY TotalGrows DEF Along
<1>2. \A k \in 1 .. Len(q) : k \in 0 .. Len(q) /\ k - 1 \in 0 .. Len(q) /\ d[q[k]] \in Nat
  BY <1>0, ElementOfSeq
<1>3. 0 \in 0 .. Len(q)
  BY <1>0
<1>4. AddsUp(Along(q, d), q, d, Len(q))
  BY <1>1, <1>2, <1>3, TotalStep DEF AddsUp
<1>5. Natural(Along(q, d), d, q, Len(q))
  BY <1>1, <1>2 DEF Natural
<1>6. QED
  BY <1>4, <1>5

\* RemoveAt takes out one timer.
LEMMA SkipSeq ==
  ASSUME NEW T, NEW q \in Seq(T), NEW i \in 1 .. Len(q)
  PROVE  /\ RemoveAt(q, i) \in Seq(T) /\ Len(RemoveAt(q, i)) = Len(q) - 1
         /\ Skipped(RemoveAt(q, i), q, i, Len(q))
BY RemovedPlaces, Zenon DEF Skipped

\* SubSeq leaves out the first n timers.
LEMMA ShiftSeq ==
  ASSUME NEW T, NEW q \in Seq(T), NEW n \in 0 .. Len(q)
  PROVE  /\ SubSeq(q, n + 1, Len(q)) \in Seq(T) /\ Len(SubSeq(q, n + 1, Len(q))) = Len(q) - n
         /\ Shifted(SubSeq(q, n + 1, Len(q)), q, n, Len(q))
BY BackPlaces, Zenon DEF Shifted

\* The totals after such a change.
TotalsSpliced(p, e, q, d, b, t, N) ==
  \A k \in 0 .. N + 1 :
    Total(p, e, k) = IF k <= b THEN Total(q, d, k)
                     ELSE IF k = b + 1 THEN Total(q, d, b) + e[t] ELSE Total(q, d, k - 1)
TotalsSkipped(p, e, q, d, i, N) ==
  \A k \in 1 .. N - 1 : Total(p, e, k) = IF k < i THEN Total(q, d, k) ELSE Total(q, d, k + 1)
TotalsShifted(p, e, q, d, n, m, N) ==
  \A k \in 1 .. N - n : Total(p, e, k) = Total(q, d, n + k) - m

\* The changes in one word each: p is q with t put behind b others, or without its
\* first n timers, which are g.
Puts(p, q, b, t) == p = InsertAt(q, b + 1, t)
Keeps(p, q, n)   == p = SubSeq(q, n + 1, Len(q))
Takes(g, q, n)   == g = SubSeq(q, 1, n)
Longer(p, q)     == Len(p) = Len(q) + 1
Shorter(p, q, n) == Len(p) = Len(q) - n

\* A queue that a timer is put on is longer by one.
LEMMA PutLonger ==
  ASSUME NEW T, NEW q \in Seq(T), NEW b \in 0 .. Len(q), NEW t \in T,
         NEW p, Puts(p, q, b, t)
  PROVE  Longer(p, q)
BY SpliceSeq DEF Puts, Longer

\* A queue that loses its first n timers is shorter by n.
LEMMA KeptShorter ==
  ASSUME NEW T, NEW q \in Seq(T), NEW n \in 0 .. Len(q), NEW p, Keeps(p, q, n)
  PROVE  Shorter(p, q, n)
BY ShiftSeq DEF Keeps, Shorter

\* A timer t linked behind b others: who is on the queue.
LEMMA InsertedMembers ==
  ASSUME NEW T, NEW q \in Seq(T), NEW N, N = Len(q), NEW b \in 0 .. N,
         NEW t \in T, Single(q), ~Contains(q, t), NEW p, Puts(p, q, b, t)
  PROVE  /\ p \in Seq(T) /\ Len(p) = N + 1 /\ Spliced(p, q, b, t, N)
         /\ Single(p)
         /\ \A x : Contains(p, x) <=> Contains(q, x) \/ x = t
<1>0. N \in Nat
  BY LenProperties
<1>1. p \in Seq(T) /\ Len(p) = N + 1 /\ Spliced(p, q, b, t, N)
  <2>1. /\ InsertAt(q, b + 1, t) \in Seq(T) /\ Len(InsertAt(q, b + 1, t)) = Len(q) + 1
        /\ Spliced(InsertAt(q, b + 1, t), q, b, t, Len(q))
    BY SpliceSeq
  <2>2. QED
    BY <2>1, Zenon DEF Puts
<1>5. Distinct(q, N) /\ ~Among(t, q, N)
  BY DEF Single, Contains, Distinct, Among
<1>10. Distinct(p, N + 1) /\ \A x : Among(x, p, N + 1) <=> Among(x, q, N) \/ x = t
  BY <1>0, <1>1, <1>5, InsertedOnce
<1>11. Single(p) /\ \A x : Contains(p, x) <=> Contains(q, x) \/ x = t
  BY <1>1, <1>10, Zenon DEF Single, Contains, Distinct, Among
<1>12. QED
  BY <1>1, <1>11

\* And the totals.
LEMMA Inserted ==
  ASSUME NEW T, NEW q \in Seq(T), NEW d \in [T -> Nat], NEW N, N = Len(q), NEW b \in 0 .. N,
         NEW t \in T,
         NEW e \in [T -> Nat], GivesUp(e, d, q, b, t, N),
         NEW p, Puts(p, q, b, t)
  PROVE  /\ p \in Seq(T) /\ Len(p) = N + 1 /\ Spliced(p, q, b, t, N)
         /\ TotalsSpliced(p, e, q, d, b, t, N)
<1> DEFINE s == Along(q, d)
           f == [k \in 0 .. N + 1 |->
                   IF k <= b THEN s[k] ELSE IF k = b + 1 THEN s[b] + e[t] ELSE s[k - 1]]
<1>0. N \in Nat
  BY LenProperties
<1>1. p \in Seq(T) /\ Len(p) = N + 1 /\ Spliced(p, q, b, t, N)
  <2>1. /\ InsertAt(q, b + 1, t) \in Seq(T) /\ Len(InsertAt(q, b + 1, t)) = Len(q) + 1
        /\ Spliced(InsertAt(q, b + 1, t), q, b, t, Len(q))
    BY SpliceSeq
  <2>2. QED
    BY <2>1, Zenon DEF Puts
<1>2. AddsUp(s, q, d, N) /\ Natural(s, d, q, N)
  BY AlongAdds
<1>3. e[t] \in Nat
  OBVIOUS
<1>4. \A k \in 0 .. N : s[k] = Total(q, d, k)
  BY DEF Along
<1> HIDE DEF s
<1>6. \A k \in 0 .. N + 1 :
        f[k] = IF k <= b THEN s[k] ELSE IF k = b + 1 THEN s[b] + e[t] ELSE s[k - 1]
  OBVIOUS
<1> HIDE DEF f
<1>7. AddsUp(f, p, e, N + 1)
  BY <1>0, <1>1, <1>2, <1>3, <1>6, InsertedAdds
<1>8. \A k \in 0 .. N + 1 : Total(p, e, k) = f[k]
  <2>1. AddsUp(f, p, e, Len(p))
    BY <1>1, <1>7, Zenon
  <2>2. \A k \in 0 .. Len(p) : Total(p, e, k) = f[k]
    BY <1>1, <2>1, TotalIs
  <2>3. QED
    BY <1>1, <2>2, Zenon
<1>9. ASSUME NEW k \in 0 .. N + 1
      PROVE  Total(p, e, k) = IF k <= b THEN Total(q, d, k)
                         ELSE IF k = b + 1 THEN Total(q, d, b) + e[t]
                         ELSE Total(q, d, k - 1)
  <2>1. Total(p, e, k) = IF k <= b THEN s[k] ELSE IF k = b + 1 THEN s[b] + e[t] ELSE s[k - 1]
    BY <1>6, <1>8
  <2>2. CASE k <= b
    BY <1>0, <1>4, <2>1, <2>2
  <2>3. CASE k = b + 1
    BY <1>0, <1>4, <2>1, <2>3
  <2>4. CASE k > b + 1
    <3>1. k - 1 \in 0 .. N /\ ~(k <= b) /\ k # b + 1
      BY <1>0, <2>4
    <3>2. s[k - 1] = Total(q, d, k - 1)
      BY <3>1, <1>4
    <3>3. QED
      BY <3>1, <3>2, <2>1
  <2>5. QED
    BY <1>0, <2>2, <2>3, <2>4
<1>12. TotalsSpliced(p, e, q, d, b, t, N)
  BY <1>9 DEF TotalsSpliced
<1>13. QED
  BY <1>1, <1>12

\* The i-th timer taken out: who is on the queue.
LEMMA RemovedMembers ==
  ASSUME NEW T, NEW q \in Seq(T), NEW N, N = Len(q), NEW i \in 1 .. N,
         Single(q), NEW p, p = RemoveAt(q, i)
  PROVE  /\ p \in Seq(T) /\ Len(p) = N - 1 /\ Skipped(p, q, i, N)
         /\ Single(p)
         /\ \A x : Contains(p, x) <=> Contains(q, x) /\ x # q[i]
<1>0. N \in Nat
  BY LenProperties
<1>1. p \in Seq(T) /\ Len(p) = N - 1 /\ Skipped(p, q, i, N)
  <2>1. /\ RemoveAt(q, i) \in Seq(T) /\ Len(RemoveAt(q, i)) = Len(q) - 1
        /\ Skipped(RemoveAt(q, i), q, i, Len(q))
    BY SkipSeq
  <2>2. QED
    BY <2>1, Zenon
<1>5. Distinct(q, N)
  BY DEF Single, Distinct
<1>10. Distinct(p, N - 1) /\ \A x : Among(x, p, N - 1) <=> Among(x, q, N) /\ x # q[i]
  BY <1>0, <1>1, <1>5, RemovedOnce
<1>11. Single(p) /\ \A x : Contains(p, x) <=> Contains(q, x) /\ x # q[i]
  BY <1>1, <1>10, Zenon DEF Single, Contains, Distinct, Among
<1>12. QED
  BY <1>1, <1>11

\* And the totals.
LEMMA Removed ==
  ASSUME NEW T, NEW q \in Seq(T), NEW d \in [T -> Nat], NEW N, N = Len(q), NEW i \in 1 .. N,
         NEW e, Inherits(e, d, q, i, N), NEW p, p = RemoveAt(q, i)
  PROVE  /\ p \in Seq(T) /\ Len(p) = N - 1 /\ Skipped(p, q, i, N)
         /\ TotalsSkipped(p, e, q, d, i, N)
<1> DEFINE s == Along(q, d)
           f == [k \in 0 .. N - 1 |-> IF k < i THEN s[k] ELSE s[k + 1]]
<1>0. N \in Nat
  BY LenProperties
<1>1. p \in Seq(T) /\ Len(p) = N - 1 /\ Skipped(p, q, i, N)
  <2>1. /\ RemoveAt(q, i) \in Seq(T) /\ Len(RemoveAt(q, i)) = Len(q) - 1
        /\ Skipped(RemoveAt(q, i), q, i, Len(q))
    BY SkipSeq
  <2>2. QED
    BY <2>1, Zenon
<1>2. AddsUp(s, q, d, N) /\ Natural(s, d, q, N)
  BY AlongAdds
<1>4. \A k \in 0 .. N : s[k] = Total(q, d, k)
  BY DEF Along
<1> HIDE DEF s
<1>6. \A k \in 0 .. N - 1 : f[k] = IF k < i THEN s[k] ELSE s[k + 1]
  OBVIOUS
<1> HIDE DEF f
<1>7. AddsUp(f, p, e, N - 1)
  BY <1>0, <1>1, <1>2, <1>6, RemovedAdds
<1>8. \A k \in 0 .. N - 1 : Total(p, e, k) = f[k]
  <2>1. AddsUp(f, p, e, Len(p))
    BY <1>1, <1>7, Zenon
  <2>2. \A k \in 0 .. Len(p) : Total(p, e, k) = f[k]
    BY <1>1, <2>1, TotalIs
  <2>3. QED
    BY <1>1, <2>2, Zenon
<1>9. ASSUME NEW k \in 1 .. N - 1
      PROVE  Total(p, e, k) = IF k < i THEN Total(q, d, k) ELSE Total(q, d, k + 1)
  <2>1. Total(p, e, k) = IF k < i THEN s[k] ELSE s[k + 1]
    <3>1. k \in 0 .. N - 1
      BY <1>0
    <3>2. Total(p, e, k) = f[k] /\ f[k] = IF k < i THEN s[k] ELSE s[k + 1]
      BY <3>1, <1>6, <1>8, Zenon
    <3>3. QED
      BY <3>2, Zenon
  <2>2. QED
    BY <1>0, <1>4, <2>1
<1>12. TotalsSkipped(p, e, q, d, i, N)
  BY <1>9 DEF TotalsSkipped
<1>13. QED
  BY <1>1, <1>12

\* The first n timers cut off: who is on the queue, and who is not.
LEMMA CutMembers ==
  ASSUME NEW T, NEW q \in Seq(T), NEW N, N = Len(q), NEW n \in 0 .. N,
         Single(q), NEW p, Keeps(p, q, n), NEW g, Takes(g, q, n)
  PROVE  /\ p \in Seq(T) /\ Len(p) = N - n /\ Shifted(p, q, n, N)
         /\ g \in Seq(T) /\ Len(g) = n /\ Begins(g, q, n)
         /\ Single(p)
         /\ \A x : Contains(p, x) <=> Contains(q, x) /\ ~Contains(g, x)
<1>0. N \in Nat
  BY LenProperties
<1>1. p \in Seq(T) /\ Len(p) = N - n /\ Shifted(p, q, n, N)
  <2>1. /\ SubSeq(q, n + 1, Len(q)) \in Seq(T) /\ Len(SubSeq(q, n + 1, Len(q))) = Len(q) - n
        /\ Shifted(SubSeq(q, n + 1, Len(q)), q, n, Len(q))
    BY ShiftSeq
  <2>2. QED
    BY <2>1, Zenon DEF Keeps
<1>5. Distinct(q, N)
  BY DEF Single, Distinct
<1>51. g \in Seq(T) /\ Len(g) = n /\ Begins(g, q, n)
  BY FrontPlaces DEF Begins, Takes
<1>10. Distinct(p, N - n) /\ \A x : Among(x, p, N - n) <=> Among(x, q, N) /\ ~Among(x, g, n)
  BY <1>0, <1>1, <1>5, <1>51, CutOnce
<1>11. Single(p) /\ \A x : Contains(p, x) <=> Contains(q, x) /\ ~Contains(g, x)
  <2>1. Single(p)
    BY <1>1, <1>10, Zenon DEF Single, Distinct
  <2>2. \A x : Contains(p, x) <=> Among(x, p, N - n)
    BY <1>1, Zenon DEF Contains, Among
  <2>3. \A x : Contains(g, x) <=> Among(x, g, n)
    BY <1>51, Zenon DEF Contains, Among
  <2>4. \A x : Contains(q, x) <=> Among(x, q, N)
    BY Zenon DEF Contains, Among
  <2>5. QED
    BY <2>1, <2>2, <2>3, <2>4, <1>10, Zenon
<1>12. QED
  BY <1>1, <1>51, <1>11

\* And the totals.
LEMMA Cut ==
  ASSUME NEW T, NEW q \in Seq(T), NEW d \in [T -> Nat], NEW N, N = Len(q), NEW n \in 0 .. N,
         NEW e, NEW m \in Int, Rebased(e, d, q, Along(q, d), n, m, N),
         NEW p, Keeps(p, q, n)
  PROVE  /\ p \in Seq(T) /\ Len(p) = N - n /\ Shifted(p, q, n, N)
         /\ TotalsShifted(p, e, q, d, n, m, N)
<1> DEFINE s == Along(q, d)
           f == [k \in 0 .. N - n |-> IF k = 0 THEN 0 ELSE s[n + k] - m]
<1>0. N \in Nat
  BY LenProperties
<1>1. p \in Seq(T) /\ Len(p) = N - n /\ Shifted(p, q, n, N)
  <2>1. /\ SubSeq(q, n + 1, Len(q)) \in Seq(T) /\ Len(SubSeq(q, n + 1, Len(q))) = Len(q) - n
        /\ Shifted(SubSeq(q, n + 1, Len(q)), q, n, Len(q))
    BY ShiftSeq
  <2>2. QED
    BY <2>1, Zenon DEF Keeps
<1>2. AddsUp(s, q, d, N) /\ Natural(s, d, q, N)
  BY AlongAdds
<1>3. Rebased(e, d, q, s, n, m, N)
  OBVIOUS
<1>4. \A k \in 0 .. N : s[k] = Total(q, d, k)
  BY DEF Along
<1> HIDE DEF s
<1>6. f[0] = 0 /\ \A k \in 1 .. N - n : f[k] = s[n + k] - m
  BY <1>0
<1> HIDE DEF f
<1>7. AddsUp(f, p, e, N - n)
  BY <1>0, <1>1, <1>2, <1>3, <1>6, CutAdds
<1>8. \A k \in 0 .. N - n : Total(p, e, k) = f[k]
  <2>1. AddsUp(f, p, e, Len(p))
    BY <1>1, <1>7, Zenon
  <2>2. \A k \in 0 .. Len(p) : Total(p, e, k) = f[k]
    BY <1>1, <2>1, TotalIs
  <2>3. QED
    BY <1>1, <2>2, Zenon
<1>9. ASSUME NEW k \in 1 .. N - n PROVE Total(p, e, k) = Total(q, d, n + k) - m
  <2>1. k \in 0 .. N - n /\ n + k \in 0 .. N
    BY <1>0
  <2>2. Total(p, e, k) = s[n + k] - m
    BY <2>1, <1>6, <1>8
  <2>3. QED
    BY <2>1, <2>2, <1>4
<1>12. TotalsShifted(p, e, q, d, n, m, N)
  BY <1>9 DEF TotalsShifted
<1>13. QED
  BY <1>1, <1>12
-----------------------------------------------------------------------------
(* Arithmetic of the count.                                                *)

\* Quarter == Word \div 4, of which everything else is a multiple.
Quarter == Word \div 4

\* What the assumption on Word comes to.
LEMMA WordFacts ==
  /\ Word \in Nat \ {0} /\ Quarter \in Nat /\ Quarter >= 2
  /\ Word = 4 * Quarter /\ Word \div 2 = 2 * Quarter
  /\ Word * Word \in Nat \ {0} /\ Word * Word >= 8 * Word
<1>1. Word \in Nat \ {0} /\ Quarter \in Nat /\ Word = 4 * Quarter /\ Word >= 8
  BY TimersAssumption DEF Quarter
<1>2. Quarter >= 2 /\ Word \div 2 = 2 * Quarter
  BY <1>1
<1>3. Word * Word \in Nat /\ Word * Word >= 8 * Word
  BY <1>1
<1>4. Word * Word # 0
  BY <1>1, <1>3
<1>5. QED
  BY <1>1, <1>2, <1>3, <1>4

\* (int32_t) recovers a difference of less than half a word.
LEMMA SignedIs ==
  ASSUME NEW x \in Int, NEW y \in Int, -(2 * Quarter) <= y, y < 2 * Quarter, x % Word = y % Word
  PROVE  Signed(x) = y
<1>1. CASE y >= 0
  <2>1. y \in 0 .. Word - 1
    BY <1>1, WordFacts
  <2>2. y % Word = y
    BY <2>1, WordFacts, ModSmall
  <2>3. QED
    BY <2>2, WordFacts DEF Signed
<1>2. CASE y < 0
  <2>1. -Word <= y
    BY WordFacts
  <2>2. y % Word = y + Word
    BY <1>2, <2>1, WordFacts, ModNegative
  <2>3. y + Word >= 2 * Quarter
    BY WordFacts
  <2>4. QED
    BY <2>2, <2>3, WordFacts DEF Signed
<1>3. QED
  BY <1>1, <1>2

\* (int32_t) keeps a difference modulo the word, and is less than half a word.
LEMMA SignedRange ==
  ASSUME NEW x \in Int
  PROVE  /\ Signed(x) \in Int /\ -(2 * Quarter) <= Signed(x) /\ Signed(x) < 2 * Quarter
         /\ Signed(x) % Word = x % Word
<1> DEFINE r == x % Word
<1>1. r \in 0 .. Word - 1 /\ x \in Int
  BY WordFacts, ModRange
<1>2. Signed(x) = IF r >= 2 * Quarter THEN r - Word ELSE r
  BY WordFacts DEF Signed
<1>3. r % Word = r
  BY <1>1, WordFacts, ModSmall
<1> HIDE DEF r
<1>4. CASE r >= 2 * Quarter
  <2>1. r - Word \in Int /\ -Word <= r - Word /\ r - Word < 0
    BY <1>1, WordFacts
  <2>2. (r - Word) % Word = (r - Word) + Word
    BY <2>1, WordFacts, ModNegative
  <2>3. (r - Word) + Word = r
    BY <1>1, WordFacts
  <2>4. QED
    BY <2>1, <2>2, <2>3, <1>1, <1>2, <1>4, WordFacts DEF r
<1>5. CASE ~(r >= 2 * Quarter)
  BY <1>1, <1>2, <1>3, <1>5, WordFacts DEF r
<1>6. QED
  BY <1>4, <1>5

\* Sums and differences of numbers that are the same modulo the word.
LEMMA SameSum ==
  ASSUME NEW a \in Int, NEW b \in Int, NEW c \in Int, NEW d \in Int,
         a % Word = b % Word, c % Word = d % Word
  PROVE  (a + c) % Word = (b + d) % Word
<1>1. Word \in Nat \ {0}
  BY WordFacts
<1>2. ((a % Word) + c) % Word = (a + c) % Word /\ ((b % Word) + c) % Word = (b + c) % Word
  BY <1>1, ModPlus
<1>3. ((c % Word) + b) % Word = (c + b) % Word /\ ((d % Word) + b) % Word = (d + b) % Word
  BY <1>1, ModPlus
<1>4. c + b = b + c /\ d + b = b + d
  OBVIOUS
<1>5. QED
  BY <1>2, <1>3, <1>4

LEMMA SameDifference ==
  ASSUME NEW a \in Int, NEW b \in Int, NEW c \in Int, NEW d \in Int,
         a % Word = b % Word, c % Word = d % Word
  PROVE  (a - c) % Word = (b - d) % Word
<1>1. Word \in Nat \ {0}
  BY WordFacts
<1>2. (a - (c % Word)) % Word = (a - c) % Word /\ (a - (d % Word)) % Word = (a - d) % Word
  BY <1>1, ModMinus
<1>3. ((a % Word) + (-d)) % Word = (a + (-d)) % Word /\ ((b % Word) + (-d)) % Word = (b + (-d)) % Word
  <2> DEFINE m == -d
  <2>1. m \in Int
    OBVIOUS
  <2> HIDE DEF m
  <2>2. ((a % Word) + m) % Word = (a + m) % Word /\ ((b % Word) + m) % Word = (b + m) % Word
    BY <2>1, <1>1, ModPlus
  <2>3. QED
    BY <2>2 DEF m
<1>4. a + (-d) = a - d /\ b + (-d) = b - d
  OBVIOUS
<1>5. QED
  BY <1>2, <1>3, <1>4

\* A remainder is the same as the number modulo the word.
LEMMA SameRest ==
  ASSUME NEW a \in Int
  PROVE  (a % Word) % Word = a % Word /\ a % Word \in 0 .. Word - 1 /\ a % Word \in Int
<1> DEFINE r == a % Word
<1>1. r \in 0 .. Word - 1 /\ r \in Int
  BY WordFacts, ModRange
<1> HIDE DEF r
<1>2. r % Word = r
  BY <1>1, WordFacts, ModSmall
<1>3. QED
  BY <1>1, <1>2 DEF r

\* So is one taken modulo twice the width, and one a lap further.
LEMMA SameWide ==
  ASSUME NEW a \in Int
  PROVE  Wide(a) % Word = a % Word /\ (a + Word) % Word = a % Word
<1>1. Word \in Nat \ {0} /\ Word * Word \in Nat \ {0} /\ Word \in Int
  BY WordFacts
<1>2. (Word * Word) % Word = 0 /\ Word % Word = 0
  <2>1. 0 \in 0 .. Word - 1 /\ Word * Word = Word * Word + 0 /\ Word = Word * 1 + 0
    BY <1>1
  <2>2. QED
    BY <2>1, <1>1, ModIs
<1>3. Wide(a) % Word = a % Word
  <2> DEFINE n == Word * Word
  <2>1. n \in Nat \ {0} /\ n % Word = 0
    BY <1>1, <1>2
  <2> HIDE DEF n
  <2>2. (a % n) % Word = a % Word
    BY <2>1, <1>1, ModOfMod
  <2>3. QED
    BY <2>2 DEF Wide, n
<1>4. (a + Word) % Word = a % Word
  <2>1. ((Word % Word) + a) % Word = (Word + a) % Word
    BY <1>1, ModPlus, Zenon
  <2>2. 0 + a = a /\ Word + a = a + Word
    BY <1>1
  <2>3. QED
    BY <2>1, <2>2, <1>2
<1>5. QED
  BY <1>3, <1>4

\* a and b are the same modulo the word.
Same(a, b) == a % Word = b % Word

LEMMA SameRules ==
  /\ \A a : Same(a, a)
  /\ \A a, b : Same(a, b) => Same(b, a)
  /\ \A a, b, c : Same(a, b) /\ Same(b, c) => Same(a, c)
BY DEF Same

LEMMA SameShift ==
  ASSUME NEW a \in Int, NEW b \in Int, NEW c \in Int, Same(a, b)
  PROVE  Same(a + c, b + c) /\ Same(a - c, b - c) /\ Same(c - a, c - b)
<1>1. a % Word = b % Word /\ c % Word = c % Word
  BY DEF Same
<1>2. (a + c) % Word = (b + c) % Word
  BY <1>1, SameSum
<1>3. (a - c) % Word = (b - c) % Word
  BY <1>1, SameDifference
<1>4. (c - a) % Word = (c - b) % Word
  BY <1>1, SameDifference
<1>5. QED
  BY <1>2, <1>3, <1>4 DEF Same

LEMMA SameBoth ==
  ASSUME NEW a \in Int, NEW b \in Int, NEW c \in Int, NEW d \in Int, Same(a, b), Same(c, d)
  PROVE  Same(a + c, b + d) /\ Same(a - c, b - d)
BY SameSum, SameDifference DEF Same

LEMMA SameLess ==
  ASSUME NEW a \in Int
  PROVE  Same(a % Word, a) /\ Same(Wide(a), a) /\ Same(a + Word, a)
BY SameRest, SameWide DEF Same

\* d and e are the same modulo the word, timer by timer; so are their totals, then.
Alike(d, e) == \A t \in Timer : d[t] % Word = e[t] % Word

LEMMA AlikeTotals ==
  ASSUME NEW q \in Seq(Timer), NEW d \in [Timer -> Int], NEW e \in [Timer -> Int], Alike(d, e)
  PROVE  \A k \in 0 .. Len(q) : /\ Total(q, d, k) \in Int /\ Total(q, e, k) \in Int
                                /\ Same(Total(q, d, k), Total(q, e, k))
<1>0. Len(q) \in Nat /\ \A k \in 1 .. Len(q) : q[k] \in Timer
  BY LenProperties, ElementOfSeq
<1> DEFINE Good(k) == /\ Total(q, d, k) \in Int /\ Total(q, e, k) \in Int
                      /\ Same(Total(q, d, k), Total(q, e, k))
           Bad == {k \in 0 .. Len(q) : ~ Good(k)}
<1>1. SUFFICES ASSUME Bad # {} PROVE FALSE
  OBVIOUS
<1>2. PICK k \in Bad : \A j \in Bad : k <= j
  <2>1. Bad \in SUBSET Nat
    BY <1>0
  <2>2. QED
    BY <2>1, <1>1, MinProperties
<1>3. k # 0
  <2>1. Total(q, d, 0) = 0 /\ Total(q, e, 0) = 0
    BY TotalStep
  <2>2. Good(0)
    BY <2>1 DEF Same
  <2>3. QED
    BY <2>2, <1>2
<1>4. k \in 1 .. Len(q) /\ k - 1 \in 0 .. Len(q) /\ k - 1 \notin Bad
  BY <1>0, <1>2, <1>3
<1>5. Good(k - 1)
  BY <1>4
<1>6. d[q[k]] \in Int /\ e[q[k]] \in Int /\ Same(d[q[k]], e[q[k]])
  BY <1>0, <1>4 DEF Alike, Same
<1>7. /\ Total(q, d, k) = Total(q, d, k - 1) + d[q[k]]
      /\ Total(q, e, k) = Total(q, e, k - 1) + e[q[k]]
  BY <1>4, TotalStep
<1> DEFINE x == Total(q, d, k - 1)
           y == Total(q, e, k - 1)
           u == d[q[k]]
           v == e[q[k]]
<1>8. x \in Int /\ y \in Int /\ Same(x, y)
  BY <1>5
<1>9. Good(k)
  <2>1. Total(q, d, k) = x + u /\ Total(q, e, k) = y + v
    BY <1>7
  <2>2. u \in Int /\ v \in Int /\ Same(u, v)
    BY <1>6
  <2> HIDE DEF x, y, u, v
  <2>3. Same(x + u, y + v) /\ x + u \in Int /\ y + v \in Int
    BY <2>2, <1>8, SameBoth
  <2>4. QED
    BY <2>1, <2>3
<1>10. QED
  BY <1>9, <1>2

\* The clock at which the compare register r matches next.
MatchAt(c, r) == c + 1 + ((r - (c % Word) - 1) % Word)

\* The ticks from the count c to a count z ahead of it.
LEMMA ModGap ==
  ASSUME NEW n \in Nat \ {0}, NEW c \in Int, NEW z \in Int
  PROVE  (((c + z) % n) - (c % n) - 1) % n = (z - 1) % n
<1> DEFINE m == c + z
           k == -(c % n) - 1
           j == m - 1
<1>1. m \in Int /\ k \in Int /\ j \in Int /\ (c % n) \in Int /\ (m % n) \in Int
  OBVIOUS
<1>2. ((m % n) + k) % n = (m + k) % n
  <2> HIDE DEF m, k
  <2>1. QED
    BY <1>1, ModPlus
<1>3. (j - (c % n)) % n = (j - c) % n
  <2> HIDE DEF j
  <2>1. QED
    BY <1>1, ModMinus
<1>4. (m % n) - (c % n) - 1 = (m % n) + k /\ m + k = j - (c % n) /\ j - c = z - 1
  BY <1>1
<1>5. QED
  BY <1>2, <1>3, <1>4

\* A compare register g ticks ahead matches in g ticks.
LEMMA MatchIs ==
  ASSUME NEW c \in Nat, NEW g \in 1 .. Word, NEW r, r = (c + g) % Word
  PROVE  MatchAt(c, r) = c + g
<1>1. c \in Int /\ g \in Int /\ g - 1 \in 0 .. Word - 1 /\ Word \in Nat \ {0}
  BY WordFacts
<1>2. (g - 1) % Word = g - 1
  BY <1>1, ModSmall
<1>3. (((c + g) % Word) - (c % Word) - 1) % Word = (g - 1) % Word
  BY <1>1, ModGap, Zenon
<1>4. (r - (c % Word) - 1) % Word = g - 1
  BY <1>2, <1>3, Zenon
<1>5. c + 1 + (g - 1) = c + g
  BY <1>1
<1>6. QED
  BY <1>4, <1>5 DEF MatchAt

\* While the count goes by, the match stays where it is until it is met.
LEMMA Await ==
  ASSUME NEW c \in Nat, NEW r \in 0 .. Word - 1
  PROVE  IF (c + 1) % Word = r THEN MatchAt(c, r) = c + 1
         ELSE MatchAt(c + 1, r) = MatchAt(c, r)
<1> DEFINE w == c % Word
           v == (c + 1) % Word
           u == r - (c + 1)
           z == u % Word
<1>0. c \in Int /\ c + 1 \in Int /\ r \in Int /\ Word \in Nat \ {0} /\ Quarter \in Nat /\ Quarter >= 2 /\ Word = 4 * Quarter
  BY WordFacts
<1>1. w \in Int /\ v \in Int /\ u \in Int /\ z \in 0 .. Word - 1
  BY <1>0
<1>2. (r - w - 1) % Word = z
  <2> DEFINE j == r - 1
  <2>1. j \in Int
    BY <1>0
  <2>2. (j - w) % Word = (j - c) % Word
    <3> HIDE DEF j
    <3>1. QED
      BY <2>1, <1>0, ModMinus
  <2>3. j - w = r - w - 1 /\ j - c = u
    BY <1>0, <1>1
  <2>4. QED
    BY <2>2, <2>3
<1>3. (r - v - 1) % Word = (u - 1) % Word
  <2> DEFINE j == r - 1
             e == c + 1
  <2>1. j \in Int /\ e \in Int
    BY <1>0
  <2>2. (j - (e % Word)) % Word = (j - e) % Word
    <3> HIDE DEF j, e
    <3>1. QED
      BY <2>1, <1>0, ModMinus
  <2>3. j - v = r - v - 1 /\ j - e = u - 1
    BY <1>0, <1>1
  <2>4. QED
    BY <2>2, <2>3
<1>4. (u - 1) % Word = (z - 1) % Word
  <2>1. ((u % Word) + (-1)) % Word = (u + (-1)) % Word
    <3> HIDE DEF u
    <3>1. QED
      <4>1. -1 \in Int
        OBVIOUS
      <4>2. QED
        BY <4>1, <1>0, <1>1, ModPlus, Zenon
  <2>2. (u % Word) + (-1) = z - 1 /\ u + (-1) = u - 1
    BY <1>1
  <2>3. QED
    BY <2>1, <2>2
<1>5. r = v <=> z = 0
  <2>1. (r - v) % Word = z
    <3> DEFINE e == c + 1
    <3>1. (r - (e % Word)) % Word = (r - e) % Word
      <4>1. e \in Int
        BY <1>0
      <4> HIDE DEF e
      <4>2. QED
        BY <4>1, <1>0, ModMinus
    <3>2. QED
      BY <3>1
  <2>2. v \in 0 .. Word - 1
    BY <1>0
  <2>3. CASE r - v >= 0
    <3>1. r - v \in 0 .. Word - 1
      BY <2>2, <2>3, <1>0
    <3>2. (r - v) % Word = r - v
      BY <3>1, <1>0, ModSmall
    <3>3. QED
      BY <3>2, <2>1, <2>2, <1>0
  <2>4. CASE r - v < 0
    <3>1. r - v \in Int /\ -Word <= r - v
      BY <2>2, <1>0
    <3>2. (r - v) % Word = (r - v) + Word
      BY <3>1, <2>4, <1>0, ModNegative
    <3>3. QED
      BY <3>2, <2>1, <2>2, <2>4, <1>0
  <2>5. QED
    BY <2>2, <2>3, <2>4, <1>0
<1> HIDE DEF w, v, u, z
<1>6. MatchAt(c, r) = c + 1 + z
  BY <1>2 DEF MatchAt, w
<1>7. MatchAt(c + 1, r) = c + 1 + 1 + ((z - 1) % Word)
  BY <1>3, <1>4 DEF MatchAt, v
<1>8. CASE z = 0
  BY <1>8, <1>0, <1>5, <1>6 DEF v
<1>9. CASE z # 0
  <2>1. z - 1 \in 0 .. Word - 1
    BY <1>1, <1>9, <1>0
  <2>2. (z - 1) % Word = z - 1
    BY <2>1, <1>0, ModSmall
  <2>3. QED
    BY <2>2, <1>0, <1>1, <1>5, <1>6, <1>7, <1>9 DEF v
<1>10. QED
  BY <1>8, <1>9
-----------------------------------------------------------------------------
(* The mailbox: appended to, taken from, and given several timers at once.  *)

\* A timer appended to the mailbox.
LEMMA AppendedMembers ==
  ASSUME NEW T, NEW q \in Seq(T), NEW t \in T, Single(q), ~Contains(q, t)
  PROVE  /\ Append(q, t) \in Seq(T)
         /\ Single(Append(q, t))
         /\ \A x : Contains(Append(q, t), x) <=> Contains(q, x) \/ x = t
<1> DEFINE p == Append(q, t)
           N == Len(q)
<1>0. N \in Nat
  BY LenProperties
<1>1. p \in Seq(T) /\ Len(p) = N + 1 /\ p[N + 1] = t /\ \A k \in 1 .. N : p[k] = q[k]
  BY AppendProperties
<1> HIDE DEF p
<1>2. Spliced(p, q, N, t, N)
  <2> HIDE DEF N
  <2>1. QED
    BY <1>0, <1>1 DEF Spliced
<1>3. Distinct(q, N) /\ ~Among(t, q, N)
  BY DEF Single, Contains, Distinct, Among
<1> HIDE DEF N
<1>4. Distinct(p, N + 1) /\ \A x : Among(x, p, N + 1) <=> Among(x, q, N) \/ x = t
  <2>1. N \in 0 .. N
    BY <1>0
  <2>2. QED
    BY <2>1, <1>0, <1>2, <1>3, InsertedOnce
<1>5. Single(p) /\ \A x : Contains(p, x) <=> Contains(q, x) \/ x = t
  BY <1>1, <1>4, Zenon DEF Single, Contains, Distinct, Among, N
<1>6. QED
  BY <1>1, <1>5 DEF p

\* A timer taken from the front of the mailbox.
LEMMA TailMembers ==
  ASSUME NEW T, NEW q \in Seq(T), q # <<>>, Single(q)
  PROVE  /\ Tail(q) \in Seq(T) /\ Head(q) \in T
         /\ Single(Tail(q))
         /\ \A x : Contains(Tail(q), x) <=> Contains(q, x) /\ x # Head(q)
<1> DEFINE p == Tail(q)
           N == Len(q)
<1>0. N \in Nat /\ N # 0
  BY EmptySeq, LenProperties
<1>1. /\ p \in Seq(T) /\ Len(p) = N - 1 /\ \A k \in 1 .. N - 1 : p[k] = q[k + 1]
      /\ Head(q) = q[1] /\ Head(q) \in T
  BY HeadTailProperties
<1> HIDE DEF p
<1>2. Skipped(p, q, 1, N)
  <2> HIDE DEF N
  <2>1. QED
    BY <1>0, <1>1 DEF Skipped
<1>3. Distinct(q, N)
  BY DEF Single, Distinct
<1> HIDE DEF N
<1>4. Distinct(p, N - 1) /\ \A x : Among(x, p, N - 1) <=> Among(x, q, N) /\ x # q[1]
  <2>1. 1 \in 1 .. N
    BY <1>0
  <2>2. QED
    BY <2>1, <1>0, <1>2, <1>3, RemovedOnce
<1>5. Single(p) /\ \A x : Contains(p, x) <=> Contains(q, x) /\ x # q[1]
  BY <1>1, <1>4, Zenon DEF Single, Contains, Distinct, Among, N
<1>6. QED
  BY <1>1, <1>5 DEF p

\* Several timers appended to the mailbox.
LEMMA JoinedMembers ==
  ASSUME NEW T, NEW a \in Seq(T), NEW c \in Seq(T), Single(a), Single(c),
         \A x : ~(Contains(a, x) /\ Contains(c, x))
  PROVE  /\ a \o c \in Seq(T)
         /\ Single(a \o c)
         /\ \A x : Contains(a \o c, x) <=> Contains(a, x) \/ Contains(c, x)
<1> DEFINE p == a \o c
           M == Len(a)
           N == Len(c)
<1>0. M \in Nat /\ N \in Nat
  BY LenProperties
<1>1. /\ p \in Seq(T) /\ Len(p) = M + N
      /\ \A k \in 1 .. M + N : p[k] = IF k <= M THEN a[k] ELSE c[k - M]
  BY ConcatPlaces
<1>2. /\ \A i, j \in 1 .. M : a[i] = a[j] => i = j
      /\ \A i, j \in 1 .. N : c[i] = c[j] => i = j
      /\ \A i \in 1 .. M, j \in 1 .. N : a[i] # c[j]
  BY DEF Single, Contains
<1> HIDE DEF p
<1>3. ASSUME NEW k \in 1 .. M + N
      PROVE  \/ k \in 1 .. M /\ p[k] = a[k]
             \/ k - M \in 1 .. N /\ p[k] = c[k - M]
  <2> HIDE DEF M, N
  <2>1. QED
    BY <1>0, <1>1
<1>4. /\ \A k \in 1 .. M : k \in 1 .. M + N /\ p[k] = a[k]
      /\ \A k \in 1 .. N : M + k \in 1 .. M + N /\ p[M + k] = c[k]
  <2> HIDE DEF M, N
  <2>1. \A k \in 1 .. M : k \in 1 .. M + N /\ p[k] = a[k]
    BY <1>0, <1>1
  <2>2. ASSUME NEW k \in 1 .. N PROVE M + k \in 1 .. M + N /\ p[M + k] = c[k]
    <3>1. M + k \in 1 .. M + N /\ ~(M + k <= M) /\ (M + k) - M = k
      BY <1>0
    <3>2. QED
      BY <3>1, <1>1
  <2>3. QED
    BY <2>1, <2>2
<1>5. ASSUME NEW i \in 1 .. M + N, NEW j \in 1 .. M + N, p[i] = p[j] PROVE i = j
  <2> HIDE DEF M, N
  <2>1. CASE i \in 1 .. M /\ p[i] = a[i] /\ j \in 1 .. M /\ p[j] = a[j]
    BY <2>1, <1>2, <1>5
  <2>2. CASE i - M \in 1 .. N /\ p[i] = c[i - M] /\ j - M \in 1 .. N /\ p[j] = c[j - M]
    <3>1. i - M = j - M
      BY <2>2, <1>2, <1>5
    <3>2. QED
      BY <3>1, <1>0
  <2>3. CASE i \in 1 .. M /\ p[i] = a[i] /\ j - M \in 1 .. N /\ p[j] = c[j - M]
    BY <2>3, <1>2, <1>5
  <2>4. CASE i - M \in 1 .. N /\ p[i] = c[i - M] /\ j \in 1 .. M /\ p[j] = a[j]
    BY <2>4, <1>2, <1>5
  <2>5. QED
    BY <1>3, <2>1, <2>2, <2>3, <2>4, Zenon
<1>6. Single(p)
  BY <1>1, <1>5, Zenon DEF Single
<1>7. ASSUME NEW x PROVE Contains(p, x) <=> Contains(a, x) \/ Contains(c, x)
  <2>1. ASSUME Contains(p, x) PROVE Contains(a, x) \/ Contains(c, x)
    <3>1. PICK k \in 1 .. M + N : p[k] = x
      BY <2>1, <1>1, Zenon DEF Contains
    <3>2. QED
      BY <3>1, <1>3, Zenon DEF Contains
  <2>2. ASSUME Contains(a, x) PROVE Contains(p, x)
    BY <2>2, <1>1, <1>4, Zenon DEF Contains
  <2>3. ASSUME Contains(c, x) PROVE Contains(p, x)
    BY <2>3, <1>1, <1>4, Zenon DEF Contains
  <2>4. QED
    BY <2>1, <2>2, <2>3
<1>8. QED
  BY <1>1, <1>6, <1>7 DEF p
-----------------------------------------------------------------------------
(* The places the operations choose.                                       *)

\* A timer goes behind those due before it, and before the one due no earlier.
LEMMA BeforePlace ==
  ASSUME NEW dj \in Int, timers \in Seq(Timer), deltaJiffy \in [Timer -> Nat]
  PROVE  /\ Before(dj) \in 0 .. Len(timers)
         /\ Before(dj) = Len(timers) \/ UpTo(Before(dj) + 1) >= dj
         /\ Before(dj) # 0 => UpTo(Before(dj)) < dj
<1> DEFINE K(k) == /\ k = Len(timers) \/ UpTo(k + 1) >= dj
                   /\ \A j \in 0 .. k - 1 : UpTo(j + 1) < dj
           I == {k \in 0 .. Len(timers) : k = Len(timers) \/ UpTo(k + 1) >= dj}
<1>0. Len(timers) \in Nat
  BY LenProperties
<1>1. Len(timers) \in I /\ I \in SUBSET Nat
  BY <1>0
<1>2. PICK m \in I : \A j \in I : m <= j
  BY <1>1, MinProperties
<1>3. ASSUME NEW j \in 0 .. m - 1 PROVE UpTo(j + 1) < dj
  <2>1. j \in 0 .. Len(timers) /\ j \notin I
    BY <1>0, <1>2
  <2>2. UpTo(j + 1) \in Int
    <3>1. j + 1 \in 0 .. Len(timers)
      BY <1>0, <1>2
    <3>2. QED
      BY <3>1, TotalGrows DEF UpTo
  <2>3. QED
    BY <2>1, <2>2
<1>4. m \in 0 .. Len(timers) /\ K(m)
  BY <1>2, <1>3
<1>5. Before(dj) \in 0 .. Len(timers) /\ K(Before(dj))
  BY <1>4 DEF Before
<1> DEFINE b == Before(dj)
<1>6. b # 0 => b - 1 \in 0 .. b - 1 /\ (b - 1) + 1 = b
  BY <1>0, <1>5
<1>7. QED
  BY <1>5, <1>6

\* The timers the interrupt completes are those due, from the front.
LEMMA DonePlace ==
  ASSUME timers \in Seq(Timer)
  PROVE  /\ Done \in 0 .. Len(timers)
         /\ Done = Len(timers) \/ ~Due(Done + 1)
         /\ \A j \in 1 .. Done : Due(j)
<1> DEFINE K(k) == /\ k = Len(timers) \/ ~Due(k + 1)
                   /\ \A j \in 1 .. k : Due(j)
           I == {k \in 0 .. Len(timers) : k = Len(timers) \/ ~Due(k + 1)}
<1>0. Len(timers) \in Nat
  BY LenProperties
<1>1. Len(timers) \in I /\ I \in SUBSET Nat
  BY <1>0
<1>2. PICK m \in I : \A j \in I : m <= j
  BY <1>1, MinProperties
<1>3. ASSUME NEW j \in 1 .. m PROVE Due(j)
  <2>1. j - 1 \in 0 .. Len(timers) /\ ~(m <= j - 1) /\ (j - 1) + 1 = j
    BY <1>0, <1>2
  <2>2. j - 1 \notin I
    BY <2>1, <1>2
  <2>3. QED
    BY <2>1, <2>2
<1>4. m \in 0 .. Len(timers) /\ K(m)
  BY <1>2, <1>3
<1>5. Done \in 0 .. Len(timers) /\ K(Done)
  BY <1>4 DEF Done
<1>6. QED
  BY <1>5

\* DQ_remove takes a timer from the place it is at.
LEMMA FoundPlace ==
  ASSUME NEW t, Contains(timers, t), timers \in Seq(Timer),
         NEW i, i = SelectInSeq(timers, LAMBDA s : s = t)
  PROVE  i \in 1 .. Len(timers) /\ timers[i] = t
<1> DEFINE I == {k \in 1 .. Len(timers) : timers[k] = t}
<1>0. Len(timers) \in Nat
  BY LenProperties
<1>1. I # {} /\ I \in SUBSET Nat
  BY <1>0 DEF Contains
<1>2. Min(I) \in I
  BY <1>1, MinProperties
<1>3. SelectInSeq(timers, LAMBDA s : s = t) = Min(I)
  BY <1>1 DEF SelectInSeq
<1>4. QED
  BY <1>2, <1>3
-----------------------------------------------------------------------------
(* The deltas after each operation.                                        *)

Deltas == 0 .. Word * Word - 1

\* (uint64_t) is a delta.
LEMMA WideRange ==
  ASSUME NEW x \in Int
  PROVE  Wide(x) \in Deltas
BY WordFacts, ModRange DEF Wide, Deltas

\* Deltas are natural numbers.
LEMMA DeltasNat ==
  ASSUME NEW T, NEW d \in [T -> Deltas]
  PROVE  d \in [T -> Nat]
BY DEF Deltas

\* The deltas e once a timer t is set to expire dj jiffies after the last interrupt,
\* held back by less than tolj.
Sets(e, t, dj, tolj) ==
  e = LET delta == dj - UpTo(Before(dj))
          succ  == timers[Before(dj) + 1]
          rest  == deltaJiffy[succ] - delta
          merge == rest < tolj
      IN  IF Before(dj) = Len(timers) THEN [deltaJiffy EXCEPT ![t] = delta]
          ELSE [deltaJiffy EXCEPT ![t] = IF merge THEN delta + rest ELSE delta,
                                  ![succ] = IF merge THEN 0 ELSE rest]

\* Timers behind the new one lose what it takes, and no delta wraps.
LEMMA SetDeltas ==
  ASSUME timers \in Seq(Timer), Single(timers), deltaJiffy \in [Timer -> Deltas],
         NEW t \in Timer, ~Contains(timers, t), NEW dj \in Deltas, NEW tolj \in Nat,
         NEW e, Sets(e, t, dj, tolj)
  PROVE  /\ Before(dj) \in 0 .. Len(timers)
         /\ e \in [Timer -> Deltas]
         /\ GivesUp(e, deltaJiffy, timers, Before(dj), t, Len(timers))
         /\ e[t] \in dj - UpTo(Before(dj)) ..
                     dj - UpTo(Before(dj)) + (IF tolj = 0 THEN 0 ELSE tolj - 1)
<1> SUFFICES ASSUME NEW b, b = Before(dj),
                    NEW delta, delta = dj - UpTo(b),
                    NEW succ, succ = timers[b + 1],
                    NEW rest, rest = deltaJiffy[succ] - delta,
                    e = IF b = Len(timers) THEN [deltaJiffy EXCEPT ![t] = delta]
                        ELSE [deltaJiffy EXCEPT ![t] = IF rest < tolj THEN delta + rest
                                                       ELSE delta,
                                                ![succ] = IF rest < tolj THEN 0 ELSE rest]
             PROVE  /\ b \in 0 .. Len(timers)
                    /\ e \in [Timer -> Deltas]
                    /\ GivesUp(e, deltaJiffy, timers, b, t, Len(timers))
                    /\ e[t] \in delta .. delta + (IF tolj = 0 THEN 0 ELSE tolj - 1)
  BY DEF Sets
<1> DEFINE N == Len(timers)
<1>0. N \in Nat /\ Word * Word \in Nat /\ Word * Word >= 1 /\ Deltas = 0 .. Word * Word - 1
  BY LenProperties, WordFacts DEF Deltas
<1>1. dj \in Nat /\ dj \in Int
  BY <1>0
<1>3. deltaJiffy \in [Timer -> Nat]
  BY DeltasNat
<1>2. /\ b \in 0 .. N
      /\ b = N \/ UpTo(b + 1) >= dj
      /\ b # 0 => UpTo(b) < dj
  BY <1>1, <1>3, BeforePlace
<1>4. UpTo(b) \in Nat /\ UpTo(0) = 0
  BY <1>2, <1>3, TotalGrows, TotalStep DEF UpTo
<1>5. delta \in 0 .. dj
  BY <1>1, <1>2, <1>4
<1>6. delta \in Deltas
  BY <1>0, <1>5
<1>7. ASSUME NEW i \in 1 .. N, NEW j \in 1 .. N, timers[i] = timers[j] PROVE i = j
  BY <1>7 DEF Single
<1>8. \A k \in 1 .. N : timers[k] \in Timer /\ timers[k] # t
  BY ElementOfSeq DEF Contains
<1>9. CASE b = N
  <2>1. e = [deltaJiffy EXCEPT ![t] = delta]
    BY <1>9
  <2>2. e \in [Timer -> Deltas] /\ e[t] = delta
    BY <2>1, <1>6
  <2>3. \A k \in 1 .. N : e[timers[k]] = deltaJiffy[timers[k]] /\ k # b + 1
    BY <2>1, <1>0, <1>8, <1>9
  <2>4. GivesUp(e, deltaJiffy, timers, b, t, N)
    BY <2>3 DEF GivesUp
  <2>5. QED
    BY <2>2, <2>4, <1>1, <1>2, <1>5
<1>10. CASE b # N
  <2>1. b + 1 \in 1 .. N /\ (b + 1) - 1 = b
    BY <1>0, <1>2, <1>10
  <2>2. succ \in Timer /\ succ # t
    BY <2>1, <1>8
  <2>3. UpTo(b + 1) = UpTo(b) + deltaJiffy[succ]
    BY <2>1, TotalStep DEF UpTo
  <2>4. deltaJiffy[succ] \in Nat /\ deltaJiffy[succ] \in Deltas
    BY <2>2, <1>3
  <2>5. rest \in 0 .. deltaJiffy[succ] /\ delta + rest = deltaJiffy[succ]
    <3> DEFINE x == deltaJiffy[succ]
               y == UpTo(b)
               z == UpTo(b + 1)
    <3>1. x \in Nat /\ y \in Nat /\ z = y + x /\ z >= dj /\ delta = dj - y /\ rest = x - delta
      BY <2>3, <2>4, <1>2, <1>4, <1>10
    <3>2. delta \in 0 .. dj
      BY <1>5
    <3> HIDE DEF x, y, z
    <3>3. rest \in 0 .. x /\ delta + rest = x
      BY <3>1, <3>2, <1>1
    <3>4. QED
      BY <3>3 DEF x
  <2>6. rest \in Deltas /\ 0 \in Deltas
    BY <2>4, <2>5, <1>0
  <2> DEFINE x == IF rest < tolj THEN delta + rest ELSE delta
             y == IF rest < tolj THEN 0 ELSE rest
  <2>70. delta \in Nat /\ rest \in Nat
    BY <2>5, <1>5
  <2>7. /\ x \in Deltas /\ y \in Deltas /\ y = deltaJiffy[succ] - x
        /\ x \in delta .. delta + (IF tolj = 0 THEN 0 ELSE tolj - 1)
    <3>1. CASE rest < tolj
      <4>1. x = delta + rest /\ y = 0 /\ x = deltaJiffy[succ]
        BY <3>1, <2>5
      <4>2. x \in delta .. delta + (tolj - 1) /\ tolj # 0
        BY <4>1, <3>1, <2>70
      <4>3. QED
        BY <4>1, <4>2, <2>4, <2>6
    <3>2. CASE ~(rest < tolj)
      <4>1. x = delta /\ y = rest
        BY <3>2
      <4>2. y = deltaJiffy[succ] - x
        BY <4>1
      <4>3. x \in delta .. delta + (IF tolj = 0 THEN 0 ELSE tolj - 1)
        BY <4>1, <2>70
      <4>4. QED
        BY <4>1, <4>2, <4>3, <2>6, <1>6
    <3>3. QED
      BY <3>1, <3>2
  <2>8. e = [deltaJiffy EXCEPT ![t] = x, ![succ] = y]
    BY <1>10
  <2> HIDE DEF x, y
  <2>9. e \in [Timer -> Deltas] /\ e[t] = x /\ e[succ] = y
    BY <2>2, <2>7, <2>8
  <2>10. ASSUME NEW k \in 1 .. N
         PROVE  e[timers[k]] = IF k = b + 1 THEN deltaJiffy[timers[k]] - e[t]
                               ELSE deltaJiffy[timers[k]]
    <3>1. CASE k = b + 1
      BY <3>1, <2>7, <2>9
    <3>2. CASE k # b + 1
      <4>1. timers[k] # succ /\ timers[k] # t /\ timers[k] \in Timer
        BY <3>2, <2>1, <1>7, <1>8
      <4>2. QED
        BY <4>1, <3>2, <2>8
    <3>3. QED
      BY <3>1, <3>2
  <2>11. GivesUp(e, deltaJiffy, timers, b, t, N)
    BY <2>10 DEF GivesUp
  <2>12. QED
    BY <2>7, <2>9, <2>11, <1>2
<1>11. QED
  BY <1>9, <1>10
\* The deltas once the i-th timer is out: modulo the word, the successor has its own
\* and what the timer had.
LEMMA UnhookedDeltas ==
  ASSUME timers \in Seq(Timer), Single(timers), deltaJiffy \in [Timer -> Deltas],
         NEW i \in 1 .. Len(timers)
  PROVE  /\ Unhooked(i) \in [Timer -> Deltas]
         /\ \E e \in [Timer -> Nat] :
              Alike(e, Unhooked(i)) /\ Inherits(e, deltaJiffy, timers, i, Len(timers))
<1> DEFINE N == Len(timers)
           u == timers[i]
           v == timers[i + 1]
           f == Unhooked(i)
<1>0. N \in Nat /\ Word * Word \in Nat \ {0} /\ Deltas = 0 .. Word * Word - 1 /\ 0 \in Deltas
  BY LenProperties, WordFacts DEF Deltas
<1>1. deltaJiffy \in [Timer -> Nat]
  BY DeltasNat
<1>2. \A k \in 1 .. N : timers[k] \in Timer /\ deltaJiffy[timers[k]] \in Nat
  BY <1>1, ElementOfSeq
<1>3. \A j \in 1 .. N, k \in 1 .. N : timers[j] = timers[k] => j = k
  BY DEF Single
<1>4. CASE i = N
  <2>1. f = [deltaJiffy EXCEPT ![u] = 0]
    BY <1>4 DEF Unhooked
  <2>2. \A k \in 1 .. N : k # i => f[timers[k]] = deltaJiffy[timers[k]] /\ k # i + 1
    BY <2>1, <1>0, <1>2, <1>3, <1>4
  <2>3. Inherits(f, deltaJiffy, timers, i, N)
    BY <2>2 DEF Inherits
  <2>4. f \in [Timer -> Deltas] /\ f \in [Timer -> Nat] /\ Alike(f, f)
    BY <2>1, <1>0, <1>1, <1>2 DEF Alike
  <2>5. QED
    BY <2>3, <2>4
<1>5. CASE i # N
  <2>1. i + 1 \in 1 .. N /\ i \in 1 .. N
    BY <1>0, <1>5
  <2>2. u \in Timer /\ v \in Timer /\ u # v /\ deltaJiffy[u] \in Nat /\ deltaJiffy[v] \in Nat
    BY <2>1, <1>2, <1>3
  <2> DEFINE x == deltaJiffy[v] + deltaJiffy[u]
             w == Wide(x)
             e == [deltaJiffy EXCEPT ![u] = 0, ![v] = x]
  <2>3. f = [deltaJiffy EXCEPT ![u] = 0, ![v] = w]
    BY <1>5, <2>2 DEF Unhooked
  <2>4. x \in Nat /\ x \in Int /\ w \in Deltas /\ w % Word = x % Word
    <3>1. x \in Nat /\ x \in Int
      BY <2>2
    <3> HIDE DEF x
    <3>2. QED
      BY <3>1, WideRange, SameWide
  <2> HIDE DEF x, w
  <2>5. f \in [Timer -> Deltas] /\ e \in [Timer -> Nat] /\ e[v] = x
    BY <2>2, <2>3, <2>4, <1>0, <1>1
  <2>6. Alike(e, f)
    <3>1. ASSUME NEW t \in Timer PROVE e[t] % Word = f[t] % Word
      <4>1. CASE t = v
        BY <4>1, <2>2, <2>3, <2>4
      <4>2. CASE t # v
        BY <4>2, <2>2, <2>3
      <4>3. QED
        BY <4>1, <4>2
    <3>2. QED
      BY <3>1 DEF Alike
  <2>7. ASSUME NEW k \in 1 .. N, k # i
        PROVE  e[timers[k]] = IF k = i + 1 THEN deltaJiffy[timers[k]] + deltaJiffy[timers[i]]
                              ELSE deltaJiffy[timers[k]]
    <3>1. CASE k = i + 1
      BY <3>1, <2>5 DEF x
    <3>2. CASE k # i + 1
      <4>1. timers[k] # u /\ timers[k] # v /\ timers[k] \in Timer
        BY <3>2, <2>1, <2>7, <1>2, <1>3
      <4>2. QED
        BY <4>1, <3>2
    <3>3. QED
      BY <3>1, <3>2
  <2> HIDE DEF e
  <2>8. Inherits(e, deltaJiffy, timers, i, N)
    BY <2>7 DEF Inherits
  <2>9. QED
    BY <2>5, <2>6, <2>8
<1>6. QED
  BY <1>4, <1>5

\* The deltas e once the timers of gone are completed and the first of left is z
\* jiffies away.
Completes(e, gone, left, z) ==
  e = [t \in Timer |-> IF Contains(gone, t) THEN 0
                       ELSE IF left # <<>> /\ t = left[1] THEN Wide(z) ELSE deltaJiffy[t]]

\* Modulo the word they are as they should be once the first n timers are completed
\* and the next is rebased on m.
LEMMA IsrDeltas ==
  ASSUME timers \in Seq(Timer), Single(timers), deltaJiffy \in [Timer -> Deltas],
         NEW n \in 0 .. Len(timers), NEW m \in Int, NEW z \in Int,
         n # Len(timers) => z = UpTo(n + 1) - m,
         NEW gone, Takes(gone, timers, n), NEW left, Keeps(left, timers, n),
         NEW f, Completes(f, gone, left, z)
  PROVE  /\ f \in [Timer -> Deltas]
         /\ \E e \in [Timer -> Int] :
              /\ Alike(e, f)
              /\ Rebased(e, deltaJiffy, timers, Along(timers, deltaJiffy), n, m, Len(timers))
<1> DEFINE N == Len(timers)
           e == [t \in Timer |-> IF Contains(gone, t) THEN 0
                                 ELSE IF left # <<>> /\ t = left[1] THEN z ELSE deltaJiffy[t]]
<1>0. N \in Nat /\ Word * Word \in Nat \ {0} /\ Deltas = 0 .. Word * Word - 1 /\ 0 \in Deltas
      /\ deltaJiffy \in [Timer -> Nat]
  BY LenProperties, WordFacts, DeltasNat DEF Deltas
<1>1. Wide(z) \in Deltas /\ Wide(z) % Word = z % Word
  BY WideRange, SameWide
<1>2. f \in [Timer -> Deltas] /\ e \in [Timer -> Int]
  BY <1>0, <1>1 DEF Completes
<1>3. /\ left \in Seq(Timer) /\ Len(left) = N - n /\ \A k \in 1 .. N - n : left[k] = timers[n + k]
      /\ gone \in Seq(Timer) /\ Len(gone) = n /\ \A k \in 1 .. n : gone[k] = timers[k]
  BY BackPlaces, FrontPlaces DEF Keeps, Takes
<1>4. \A j \in 1 .. N, k \in 1 .. N : timers[j] = timers[k] => j = k
  BY DEF Single
<1>5. \A k \in 1 .. N : timers[k] \in Timer
  BY ElementOfSeq
<1>6. ASSUME NEW k \in n + 1 .. N
      PROVE  e[timers[k]] = IF k = n + 1 THEN Along(timers, deltaJiffy)[k] - m
                            ELSE deltaJiffy[timers[k]]
  <2>1. /\ k \in 1 .. N /\ n + 1 \in 1 .. N /\ n + 1 \in 0 .. N /\ 1 \in 1 .. N - n
        /\ Len(left) # 0 /\ n # N
    <3>1. k \in n + 1 .. N /\ n \in 0 .. N /\ N \in Nat /\ Len(left) = N - n
      BY <1>0, <1>3
    <3> HIDE DEF N
    <3>2. n < N
      BY <3>1
    <3>3. QED
      BY <3>1, <3>2
  <2>2. left[1] = timers[n + 1] /\ left # <<>>
    BY <2>1, <1>3, EmptySeq
  <2>3. ~Contains(gone, timers[k])
    <3>1. \A j \in 1 .. n : j \in 1 .. N /\ j # k
      BY <1>0
    <3>2. QED
      BY <3>1, <2>1, <1>3, <1>4 DEF Contains
  <2>4. e[timers[k]] = IF timers[k] = left[1] THEN z ELSE deltaJiffy[timers[k]]
    BY <2>1, <2>2, <2>3, <1>5
  <2>5. timers[k] = left[1] <=> k = n + 1
    BY <2>1, <2>2, <1>4
  <2>6. Along(timers, deltaJiffy)[n + 1] = UpTo(n + 1)
    BY <2>1 DEF Along, UpTo
  <2>7. z = UpTo(n + 1) - m
    BY <2>1
  <2>8. QED
    BY <2>4, <2>5, <2>6, <2>7
<1>7. Alike(e, f)
  BY <1>1 DEF Alike, Completes
<1> HIDE DEF e
<1>8. Rebased(e, deltaJiffy, timers, Along(timers, deltaJiffy), n, m, N)
  BY <1>6, Zenon DEF Rebased
<1>9. QED
  BY <1>2, <1>7, <1>8
-----------------------------------------------------------------------------
(* What a step leaves on the queue and in the mailbox.                      *)

\* ActiveIffQueued, with the membership of sequences in the form of QueueLemmas.
LEMMA QueueFacts ==
  ASSUME ActiveIffQueued
  PROVE  /\ timers \in Seq(Timer) /\ Single(timers) /\ deltaJiffy \in [Timer -> Deltas]
         /\ mailbox \in Seq(Timer) /\ Single(mailbox)
         /\ clock \in Nat /\ clock \in Int /\ lastTimer \in 0 .. Word - 1 /\ lastTimer \in Int
         /\ Count \in 0 .. Word - 1 /\ Count \in Int
         /\ \A t : Contains(timers, t) => t \in Timer
         /\ \A t : Contains(mailbox, t) => t \in Timer
<1>1. clock \in Nat /\ lastTimer \in 0 .. Word - 1
  BY DEF ActiveIffQueued, TypeOK
<1>2. Count \in 0 .. Word - 1
  BY <1>1, WordFacts, ModRange DEF Count
<1>3. timers \in Seq(Timer) /\ mailbox \in Seq(Timer) /\ deltaJiffy \in [Timer -> Deltas]
  BY DEF ActiveIffQueued, TypeOK, Deltas
<1>4. Single(timers) /\ Single(mailbox)
  BY <1>3, SingleIsInjective DEF ActiveIffQueued
<1>5. \A t : (Contains(timers, t) => t \in Timer) /\ (Contains(mailbox, t) => t \in Timer)
  BY <1>3, ElementOfSeq DEF Contains
<1>6. QED
  BY <1>1, <1>2, <1>3, <1>4, <1>5, WordFacts

\* While TMR_set puts a time off, it asks for a count that far from its reading.
Deferred == arming # "done" /\ add > 0 => abstime = (clock - slip + add) % Word

\* The inductive form of ActiveIffQueued.
Queueing == ActiveIffQueued /\ Deferred

\* What TypeOK says of TMR_set.
LEMMA SettingFacts ==
  ASSUME ActiveIffQueued
  PROVE  /\ arming \in {"write", "check", "done"} /\ abstime \in 0 .. Word - 1 /\ abstime \in Int
         /\ add \in Nat /\ add <= ClockSpeed + 2 * MaxSlip
         /\ slip \in Nat /\ slip <= MaxSlip
         /\ ClockSpeed \in Nat \ {0} /\ MaxSlip \in Nat /\ ClockSpeed + 2 * MaxSlip < Quarter
BY TimersAssumption, WordFacts DEF ActiveIffQueued, TypeOK, Quarter

\* SetCompare asks for a count, not put off.
LEMMA SetCompareTypes ==
  ASSUME ActiveIffQueued, NEW busy, NEW at \in 0 .. Word - 1, SetCompare(busy, Expiry(at))
  PROVE  /\ arming' \in {"write", "check", "done"} /\ abstime' \in 0 .. Word - 1
         /\ add' = 0 /\ add' \in 0 .. ClockSpeed + 2 * MaxSlip
         /\ slip' = 0 /\ slip' \in 0 .. MaxSlip
<1>1. Count \in Int /\ Word \in Nat \ {0} /\ Quarter \in Nat
  BY QueueFacts, WordFacts
<1>2. ((Count + Word \div 4) % Word) \in 0 .. Word - 1
  BY <1>1 DEF Quarter
<1>3. Expiry(at) \in 0 .. Word - 1
  BY <1>2 DEF Expiry
<1>4. QED
  BY <1>1, <1>3, SettingFacts DEF SetCompare

\* The clock leaves the queue and the mailbox alone, and TMR_set its reading.
LEMMA TickKeepsQueue ==
  ASSUME Queueing, Tick
  PROVE  Queueing'
<1>0. ActiveIffQueued /\ Deferred
  BY DEF Queueing
<1>1. UNCHANGED <<lastTimer, timers, deltaJiffy, active, mailbox, timerExpire, compare,
                  arming, abstime, add, earliest, latest>>
  BY DEF Tick
<1>2. /\ clock \in Nat /\ slip \in Nat /\ clock' = clock + 1
      /\ slip' = (IF arming = "done" THEN slip ELSE slip + 1)
  BY <1>0, QueueFacts, SettingFacts DEF Tick
<1>3. clock' \in 0 .. MaxClock /\ pending' \in -1 .. MaxLatency /\ slip' \in 0 .. MaxSlip
  BY <1>0, TimersAssumption DEF Tick, ActiveIffQueued, TypeOK
<1>4. TypeOK'
  BY <1>0, <1>1, <1>3 DEF ActiveIffQueued, TypeOK
<1>5. ActiveIffQueued'
  BY <1>0, <1>1, <1>4 DEF ActiveIffQueued
<1>6. arming # "done" => clock' - slip' = clock - slip
  BY <1>2
<1>7. Deferred'
  BY <1>0, <1>1, <1>6 DEF Deferred
<1>8. QED
  BY <1>5, <1>7 DEF Queueing

\* Writing the register changes none of it.
LEMMA WriteKeepsQueue ==
  ASSUME Queueing, WriteCompare
  PROVE  Queueing'
<1>1. /\ UNCHANGED <<clock, lastTimer, timers, deltaJiffy, active, mailbox, timerExpire,
                     abstime, add, slip, earliest, latest>>
      /\ arming = "write" /\ arming' = "check" /\ compare' = abstime /\ pending' = -1
  BY DEF WriteCompare
<1>2. TypeOK'
  BY <1>1, TimersAssumption DEF Queueing, ActiveIffQueued, TypeOK
<1>3. ActiveIffQueued'
  BY <1>1, <1>2 DEF Queueing, ActiveIffQueued
<1>4. QED
  BY <1>1, <1>3 DEF Queueing, Deferred

\* A time that has been put off is missed by what has gone by since less that.
LEMMA MissedBy ==
  ASSUME Queueing, arming = "check", add > 0
  PROVE  Signed(Count - abstime) = slip - add /\ abstime = (clock - slip + add) % Word
<1>1. ActiveIffQueued /\ abstime = (clock - slip + add) % Word
  BY DEF Queueing, Deferred
<1>2. /\ clock \in Int /\ slip \in Nat /\ add \in Nat /\ abstime \in Int /\ Count \in Int
      /\ slip < Quarter /\ add < Quarter
  <2>1. clock \in Int /\ Count \in Int /\ Quarter \in Nat
    BY <1>1, QueueFacts, WordFacts
  <2>2. /\ slip \in Nat /\ slip <= MaxSlip /\ add \in Nat /\ add <= ClockSpeed + 2 * MaxSlip
        /\ abstime \in Int
        /\ ClockSpeed \in Nat /\ MaxSlip \in Nat /\ ClockSpeed + 2 * MaxSlip < Quarter
    BY <1>1, SettingFacts
  <2>3. QED
    BY <2>1, <2>2
<1> DEFINE x == clock - slip + add
<1>3. x \in Int /\ clock - x = slip - add
  BY <1>2
<1> HIDE DEF x
<1>4. Count % Word = clock % Word /\ abstime % Word = x % Word
  BY <1>1, <1>2, <1>3, SameRest DEF Count, x
<1>5. (Count - abstime) % Word = (slip - add) % Word
  <2>1. (Count - abstime) % Word = (clock - x) % Word
    BY <1>2, <1>3, <1>4, SameDifference
  <2>2. QED
    BY <2>1, <1>3
<1>6. Signed(Count - abstime) = slip - add
  BY <1>2, <1>5, SignedIs, WordFacts
<1>7. QED
  BY <1>1, <1>6

\* A time missed is put off, no further than a tick late can make it.
LEMMA CheckKeepsQueue ==
  ASSUME Queueing, CheckCompare
  PROVE  Queueing'
<1>0. ActiveIffQueued /\ Deferred
  BY DEF Queueing
<1>1. /\ UNCHANGED <<clock, lastTimer, timers, deltaJiffy, active, mailbox, timerExpire,
                     compare, pending, earliest, latest>>
      /\ arming = "check"
      /\ \/ /\ Signed(Count - abstime) >= 0
            /\ add' = IF add = 0 THEN ClockSpeed ELSE 2 * add
            /\ abstime' = (Count + add') % Word
            /\ arming' = "write" /\ slip' = 0
         \/ arming' = "done" /\ abstime' = 0 /\ slip' = 0 /\ add' = add
  BY DEF CheckCompare
<1>2. /\ clock \in Int /\ slip \in Nat /\ add \in Nat /\ slip <= MaxSlip /\ Count \in Int
      /\ ClockSpeed \in Nat /\ MaxSlip \in Nat /\ add <= ClockSpeed + 2 * MaxSlip
  BY <1>0, QueueFacts, SettingFacts
<1>3. CASE arming' = "done" /\ abstime' = 0 /\ slip' = 0 /\ add' = add
  <2>1. abstime' \in 0 .. Word - 1 /\ slip' \in 0 .. MaxSlip
    BY <1>2, <1>3, WordFacts
  <2>2. TypeOK'
    BY <2>1, <1>0, <1>1, <1>3 DEF ActiveIffQueued, TypeOK
  <2>3. ActiveIffQueued'
    BY <2>2, <1>0, <1>1 DEF ActiveIffQueued
  <2>4. QED
    BY <2>3, <1>3 DEF Queueing, Deferred
<1>4. CASE /\ Signed(Count - abstime) >= 0
           /\ add' = IF add = 0 THEN ClockSpeed ELSE 2 * add
           /\ abstime' = (Count + add') % Word
           /\ arming' = "write" /\ slip' = 0
  <2>1. add' \in Nat /\ add' <= ClockSpeed + 2 * MaxSlip
    <3>1. CASE add = 0
      BY <3>1, <1>2, <1>4
    <3>2. CASE add # 0
      <4>1. Signed(Count - abstime) = slip - add
        BY <3>2, <1>1, <1>2, MissedBy
      <4>2. add <= MaxSlip /\ add' = 2 * add
        BY <4>1, <3>2, <1>2, <1>4
      <4>3. QED
        BY <4>2, <1>2
    <3>3. QED
      BY <3>1, <3>2
  <2>2. Count + add' \in Int
    BY <2>1, <1>2
  <2>3. abstime' \in 0 .. Word - 1
    BY <2>2, <1>4, SameRest
  <2>4. add' \in 0 .. ClockSpeed + 2 * MaxSlip /\ slip' \in 0 .. MaxSlip
    BY <2>1, <1>2, <1>4
  <2>5. TypeOK'
    BY <2>3, <2>4, <1>0, <1>1, <1>4 DEF ActiveIffQueued, TypeOK
  <2>6. ActiveIffQueued'
    BY <2>5, <1>0, <1>1 DEF ActiveIffQueued
  <2>7. abstime' = (clock - 0 + add') % Word
    <3>1. (Count + add') % Word = (clock + add') % Word
      <4>1. ((clock % Word) + add') % Word = (clock + add') % Word
        <5>1. add' \in Int /\ Word \in Nat \ {0}
          BY <2>1, WordFacts
        <5>2. QED
          BY <5>1, <1>2, ModPlus
      <4>2. QED
        BY <4>1 DEF Count
    <3>2. clock - 0 + add' = clock + add'
      BY <2>1, <1>2
    <3>3. QED
      BY <3>1, <3>2, <1>4
  <2>8. Deferred'
    BY <2>7, <1>1, <1>4 DEF Deferred
  <2>9. QED
    BY <2>6, <2>8 DEF Queueing
<1>5. QED
  BY <1>1, <1>3, <1>4

\* What is not put off, or is done, was put off as it should be.
LEMMA DeferredStays ==
  ASSUME add' = 0 \/ arming' = "done"
  PROVE  Deferred'
<1>1. ~(0 > 0)
  OBVIOUS
<1>2. QED
  BY <1>1, Zenon DEF Deferred

\* A timer that is set goes on the queue and is on it alone.
LEMMA SetKeepsQueue ==
  ASSUME ActiveIffQueued, NEW t \in Timer, NEW delay \in Delays, NEW tol \in Tolerances,
         Idle(t), SetSoftTimer(t, delay, tol)
  PROVE  Queueing'
<1> DEFINE delayj == (delay * ClockSpeed) % Word
           tolj == Wide(Signed(tol * ClockSpeed))
           dj == Wide(Wide(Count - lastTimer) + delayj)
           b == Before(dj)
<1>0. /\ timers \in Seq(Timer) /\ Single(timers) /\ deltaJiffy \in [Timer -> Deltas]
      /\ Count \in Int /\ lastTimer \in Int /\ clock \in Nat
  BY QueueFacts
<1>1. ~active[t] /\ ~Contains(mailbox, t) /\ ~Contains(timers, t)
  BY DEF Idle, ActiveIffQueued
<1>2. /\ delay * ClockSpeed \in Nat /\ (tol = 0 \/ tol * ClockSpeed - 1 \in Nat) /\ delayj \in 0 .. Word - 1 /\ tolj \in Nat /\ dj \in Deltas
  <2>1. delay \in Nat /\ tol \in Nat /\ ClockSpeed \in Nat
    BY TimersAssumption
  <2>2. delay * ClockSpeed \in Nat /\ tol * ClockSpeed \in Nat /\ (tol = 0 \/ tol * ClockSpeed - 1 \in Nat)
    <3>1. delay * ClockSpeed \in Nat /\ tol * ClockSpeed \in Nat
      BY <2>1
    <3>2. CASE tol # 0
      <4>1. ClockSpeed \in Nat \ {0} /\ tol \in Int /\ tol >= 1
        BY <3>2, <2>1, TimersAssumption
      <4>2. ClockSpeed * tol >= ClockSpeed /\ ClockSpeed * tol = tol * ClockSpeed
        BY <4>1, AtLeastOne
      <4>3. tol * ClockSpeed >= 1
        BY <4>1, <4>2
      <4>4. QED
        BY <3>1, <4>3
    <3>3. QED
      BY <3>1, <3>2
  <2>7. tolj \in Nat
    <3>1. Signed(tol * ClockSpeed) \in Int
      BY <2>2, SignedRange
    <3>2. QED
      BY <3>1, WideRange, WordFacts DEF Deltas
  <2>3. delayj \in 0 .. Word - 1
    <3> DEFINE m == delay * ClockSpeed
    <3>1. m \in Int
      BY <2>2
    <3> HIDE DEF m
    <3>2. m % Word \in 0 .. Word - 1
      BY <3>1, WordFacts, ModRange
    <3>3. QED
      BY <3>2 DEF m
  <2>4. Wide(Count - lastTimer) \in Int
    BY <1>0, WideRange DEF Deltas
  <2>5. dj \in Deltas
    <3>1. Wide(Count - lastTimer) + delayj \in Int
      BY <2>3, <2>4
    <3>2. QED
      BY <3>1, WideRange
  <2>6. QED
    BY <2>2, <2>3, <2>5, <2>7
<1>3. b \in 0 .. Len(timers) /\ deltaJiffy' \in [Timer -> Deltas]
  <2>1. Sets(deltaJiffy', t, dj, tolj)
    BY DEF Sets, SetSoftTimer
  <2>2. tolj \in Nat /\ dj \in Deltas
    BY <1>2
  <2> HIDE DEF dj, tolj
  <2>3. QED
    BY <2>1, <2>2, <1>0, <1>1, SetDeltas
<1>4. /\ timers' \in Seq(Timer) /\ Single(timers')
      /\ \A x : Contains(timers', x) <=> Contains(timers, x) \/ x = t
  <2> DEFINE N == Len(timers)
  <2>1. N \in Nat /\ b \in Nat /\ N = Len(timers) /\ b \in 0 .. N /\ Puts(timers', timers, b, t)
    BY <1>0, <1>3, LenProperties DEF Puts, SetSoftTimer
  <2> HIDE DEF N, b
  <2>2. QED
    BY <2>1, <1>0, <1>1, InsertedMembers
<1>5. /\ timerExpire' \in 0 .. Word - 1
      /\ arming' \in {"write", "check", "done"} /\ abstime' \in 0 .. Word - 1
      /\ add' \in 0 .. ClockSpeed + 2 * MaxSlip /\ slip' \in 0 .. MaxSlip
      /\ add' = 0 \/ arming' = "done"
  <2>1. CASE b = 0
    <3>1. timerExpire' = (Count + delayj) % Word /\ SetCompare(pending >= 0, Expiry(timerExpire'))
      BY <2>1 DEF SetSoftTimer
    <3>2. timerExpire' \in 0 .. Word - 1
      <4>1. Count + delayj \in Int
        BY <1>0, <1>2
      <4>2. QED
        BY <3>1, <4>1, WordFacts, ModRange
    <3>3. QED
      BY <3>1, <3>2, SetCompareTypes
  <2>2. CASE b # 0
    <3>1. UNCHANGED <<timerExpire, setting>> /\ arming = "done"
      BY <2>2 DEF SetSoftTimer
    <3>2. QED
      BY <3>1 DEF setting, ActiveIffQueued, TypeOK
  <2>3. QED
    BY <2>1, <2>2
<1>6. earliest' \in [Timer -> Nat] /\ latest' \in [Timer -> Nat]
  <2> DEFINE m == delay * ClockSpeed
             n == IF tol = 0 THEN 0 ELSE tol * ClockSpeed - 1
  <2>1. earliest' = [earliest EXCEPT ![t] = clock + m] /\ latest' = [latest EXCEPT ![t] = clock + m + n]
    BY DEF SetSoftTimer
  <2>2. m \in Nat /\ n \in Nat /\ clock \in Nat
    BY <1>0, <1>2
  <2> HIDE DEF m, n
  <2>3. clock + m \in Nat /\ clock + m + n \in Nat
    BY <2>2
  <2>4. QED
    BY <2>1, <2>3 DEF ActiveIffQueued, TypeOK
<1>7. UNCHANGED <<clock, lastTimer, mailbox, compare, pending>>
      /\ active' = [active EXCEPT ![t] = TRUE]
  BY DEF SetSoftTimer
<1>8. TypeOK'
  BY <1>3, <1>4, <1>5, <1>6, <1>7 DEF ActiveIffQueued, TypeOK, Deltas
<1>9. /\ \A x \in Timer : active'[x] <=> Contains(timers', x)
      /\ \A x \in Timer : ~(Contains(timers', x) /\ Contains(mailbox', x))
  BY <1>1, <1>4, <1>7, Zenon DEF ActiveIffQueued, TypeOK
<1>10. IsInjective(timers') /\ IsInjective(mailbox')
  BY <1>4, <1>7, SingleIsInjective DEF ActiveIffQueued
<1>11. ActiveIffQueued'
  BY <1>8, <1>9, <1>10 DEF ActiveIffQueued
<1>12. QED
  BY <1>5, <1>11, DeferredStays DEF Queueing

\* A timer with no delay goes into the mailbox and is there alone.
LEMMA ImmediateKeepsQueue ==
  ASSUME ActiveIffQueued, NEW t \in Timer, Idle(t), SetImmediate(t)
  PROVE  Queueing'
<1>0. mailbox \in Seq(Timer) /\ Single(mailbox) /\ clock \in Nat
  BY QueueFacts
<1>1. /\ ~active[t] /\ ~Contains(mailbox, t) /\ mailbox' = Append(mailbox, t)
      /\ earliest' = [earliest EXCEPT ![t] = clock] /\ latest' = [latest EXCEPT ![t] = clock]
      /\ UNCHANGED <<clock, lastTimer, timers, deltaJiffy, active, timerExpire, compare, pending,
                     setting>>
      /\ arming = "done"
  BY DEF SetImmediate, Idle
<1>2. /\ mailbox' \in Seq(Timer) /\ Single(mailbox')
      /\ \A x : Contains(mailbox', x) <=> Contains(mailbox, x) \/ x = t
  BY <1>0, <1>1, AppendedMembers
<1>3. TypeOK'
  BY <1>0, <1>1, <1>2 DEF setting, ActiveIffQueued, TypeOK
<1>4. \A x \in Timer : ~(Contains(timers', x) /\ Contains(mailbox', x))
  BY <1>1, <1>2, Zenon DEF ActiveIffQueued
<1>5. IsInjective(mailbox')
  BY <1>2, SingleIsInjective
<1>6. ActiveIffQueued'
  BY <1>1, <1>3, <1>4, <1>5 DEF ActiveIffQueued
<1>7. QED
  BY <1>1, <1>6, DeferredStays DEF Queueing, setting

\* A cancelled timer leaves the queue.
LEMMA CancelKeepsQueue ==
  ASSUME ActiveIffQueued, NEW t \in Timer, CancelTimer(t)
  PROVE  Queueing'
<1> DEFINE i == SelectInSeq(timers, LAMBDA s : s = t)
           left == RemoveAt(timers, i)
<1>0. timers \in Seq(Timer) /\ Single(timers) /\ deltaJiffy \in [Timer -> Deltas] /\ lastTimer \in Int
  BY QueueFacts
<1>1. active[t] /\ Contains(timers, t)
  BY DEF CancelTimer, ActiveIffQueued
<1>2. i \in 1 .. Len(timers) /\ timers[i] = t
  BY <1>0, <1>1, FoundPlace
<1>3. /\ timers' = left /\ deltaJiffy' = Unhooked(i) /\ active' = [active EXCEPT ![t] = FALSE]
      /\ IF left = <<>> THEN UNCHANGED <<timerExpire, setting>>
         ELSE /\ timerExpire' = (lastTimer + deltaJiffy'[left[1]]) % Word
              /\ SetCompare(pending >= 0, Expiry(timerExpire'))
      /\ arming = "done" /\ Forget(t) /\ UNCHANGED <<clock, lastTimer, mailbox, compare, pending>>
  BY DEF CancelTimer
<1> HIDE DEF i
<1>4. /\ timers' \in Seq(Timer) /\ Single(timers')
      /\ \A x : Contains(timers', x) <=> Contains(timers, x) /\ x # t
  <2> DEFINE N == Len(timers)
  <2>1. N = Len(timers) /\ i \in 1 .. N /\ left = RemoveAt(timers, i)
    BY <1>2
  <2> HIDE DEF N, left
  <2>2. /\ left \in Seq(Timer) /\ Single(left)
        /\ \A x : Contains(left, x) <=> Contains(timers, x) /\ x # timers[i]
    BY <2>1, <1>0, RemovedMembers
  <2>3. QED
    BY <2>2, <1>2, <1>3
<1>5. deltaJiffy' \in [Timer -> Deltas]
  BY <1>0, <1>2, <1>3, UnhookedDeltas
<1>6. /\ timerExpire' \in 0 .. Word - 1
      /\ arming' \in {"write", "check", "done"} /\ abstime' \in 0 .. Word - 1
      /\ add' \in 0 .. ClockSpeed + 2 * MaxSlip /\ slip' \in 0 .. MaxSlip
      /\ add' = 0 \/ arming' = "done"
  <2>1. CASE left = <<>>
    BY <2>1, <1>3 DEF setting, ActiveIffQueued, TypeOK
  <2>2. CASE left # <<>>
    <3>1. left[1] \in Timer
      <4>1. Len(left) \in Nat /\ Len(left) # 0
        BY <2>2, <1>3, <1>4, EmptySeq, LenProperties
      <4>2. 1 \in 1 .. Len(left)
        BY <4>1
      <4>3. QED
        BY <4>2, <1>3, <1>4, ElementOfSeq
    <3>2. lastTimer + deltaJiffy'[left[1]] \in Int
      BY <3>1, <1>0, <1>5 DEF Deltas
    <3>3. timerExpire' \in 0 .. Word - 1
      BY <3>2, <2>2, <1>3, WordFacts, ModRange
    <3>4. QED
      BY <3>3, <2>2, <1>3, SetCompareTypes
  <2>3. QED
    BY <2>1, <2>2
<1>7. earliest' \in [Timer -> Nat] /\ latest' \in [Timer -> Nat]
  BY <1>3 DEF Forget, ActiveIffQueued, TypeOK
<1>8. TypeOK'
  BY <1>3, <1>4, <1>5, <1>6, <1>7 DEF ActiveIffQueued, TypeOK, Deltas
<1>9. /\ \A x \in Timer : active'[x] <=> Contains(timers', x)
      /\ \A x \in Timer : ~(Contains(timers', x) /\ Contains(mailbox', x))
  BY <1>3, <1>4, Zenon DEF ActiveIffQueued, TypeOK
<1>10. IsInjective(timers') /\ IsInjective(mailbox')
  BY <1>3, <1>4, SingleIsInjective DEF ActiveIffQueued
<1>11. ActiveIffQueued'
  BY <1>8, <1>9, <1>10 DEF ActiveIffQueued
<1>12. QED
  BY <1>6, <1>11, DeferredStays DEF Queueing

\* The timers the interrupt completes leave the queue for the mailbox.
LEMMA IsrKeepsQueue ==
  ASSUME ActiveIffQueued, TimerISR
  PROVE  Queueing'
<1> DEFINE gone == SubSeq(timers, 1, Done)
           left == SubSeq(timers, Done + 1, Len(timers))
           z == At(Done + 1) - Now
<1>0. /\ timers \in Seq(Timer) /\ Single(timers) /\ deltaJiffy \in [Timer -> Deltas]
      /\ mailbox \in Seq(Timer) /\ Single(mailbox)
      /\ Count \in Int /\ Count \in 0 .. Word - 1 /\ lastTimer \in Int /\ clock \in Nat
  BY QueueFacts
<1>1. /\ timers' = left /\ pending' = -1 /\ lastTimer' = Count
      /\ mailbox' = mailbox \o gone
      /\ active' = [t \in Timer |-> active[t] /\ ~Contains(gone, t)]
      /\ timerExpire' = (IF left = <<>> THEN Now + Word \div 4 ELSE At(Done + 1)) % Word
      /\ deltaJiffy' = [t \in Timer |-> IF Contains(gone, t) THEN 0
                                        ELSE IF left # <<>> /\ t = left[1] THEN Wide(z)
                                        ELSE deltaJiffy[t]]
      /\ SetCompare(FALSE, Expiry(timerExpire'))
      /\ UNCHANGED <<clock, compare, earliest, latest>>
  BY DEF TimerISR, Completed
<1>2. Done \in 0 .. Len(timers)
  BY <1>0, DonePlace
<1>3. /\ left \in Seq(Timer) /\ gone \in Seq(Timer) /\ Single(left) /\ Len(gone) = Done
      /\ Begins(gone, timers, Done)
      /\ \A x : Contains(left, x) <=> Contains(timers, x) /\ ~Contains(gone, x)
  <2> DEFINE N == Len(timers)
             n == Done
  <2>1. N \in Nat /\ n \in Nat /\ N = Len(timers) /\ n \in 0 .. N /\ Keeps(left, timers, n)
        /\ Takes(gone, timers, n)
    BY <1>0, <1>2, LenProperties DEF Keeps, Takes
  <2> HIDE DEF N, n, left, gone
  <2>2. /\ left \in Seq(Timer)
        /\ gone \in Seq(Timer) /\ Len(gone) = n /\ Begins(gone, timers, n)
        /\ Single(left)
        /\ \A x : Contains(left, x) <=> Contains(timers, x) /\ ~Contains(gone, x)
    BY <2>1, <1>0, CutMembers
  <2>3. QED
    BY <2>2 DEF N, n
<1>4. Single(gone) /\ \A x : Contains(gone, x) => Contains(timers, x)
  <2>1. \A k \in 1 .. Done : k \in 1 .. Len(timers) /\ gone[k] = timers[k]
    BY <1>0, <1>2, <1>3, LenProperties DEF Begins
  <2>2. Single(gone)
    BY <2>1, <1>0, <1>3 DEF Single
  <2>3. QED
    BY <2>1, <2>2, <1>3, Zenon DEF Contains
<1>5. Now \in Int /\ (left # <<>> => z \in Int /\ At(Done + 1) \in Int)
  <2>1. Now \in Int
    BY <1>0, WordFacts DEF Now
  <2>2. ASSUME left # <<>> PROVE At(Done + 1) \in Int
    <3>1. Done # Len(timers)
      <4>1. Len(left) = Len(timers) - Done
        BY <1>0, <1>2, CutMembers
      <4>2. Len(timers) \in Nat
        BY <1>0, LenProperties
      <4>3. Len(left) # 0
        BY <2>2, <1>3, EmptySeq
      <4>4. QED
        BY <4>1, <4>2, <4>3
    <3>2. Done + 1 \in 0 .. Len(timers)
      BY <3>1, <1>0, <1>2, LenProperties
    <3>3. UpTo(Done + 1) \in Nat
      BY <3>2, <1>0, DeltasNat, TotalGrows DEF UpTo
    <3>4. QED
      BY <3>3, <1>0 DEF At
  <2>3. QED
    BY <2>1, <2>2
<1> HIDE DEF gone, left, z
<1>6. deltaJiffy' \in [Timer -> Deltas]
  <2>1. ASSUME NEW t \in Timer PROVE deltaJiffy'[t] \in Deltas
    <3>1. 0 \in Deltas
      BY WordFacts DEF Deltas
    <3>2. left # <<>> => Wide(z) \in Deltas
      BY <1>5, WideRange
    <3>3. QED
      BY <3>1, <3>2, <1>0, <1>1
  <2>2. QED
    BY <2>1, <1>1
<1>7. /\ timerExpire' \in 0 .. Word - 1
      /\ arming' \in {"write", "check", "done"} /\ abstime' \in 0 .. Word - 1
      /\ add' \in 0 .. ClockSpeed + 2 * MaxSlip /\ slip' \in 0 .. MaxSlip /\ add' = 0
  <2>1. (IF left = <<>> THEN Now + Word \div 4 ELSE At(Done + 1)) \in Int
    BY <1>5, WordFacts DEF Quarter
  <2>2. timerExpire' \in 0 .. Word - 1
    BY <2>1, <1>1, WordFacts, ModRange
  <2>3. QED
    BY <2>2, <1>1, SetCompareTypes
<1>8. /\ mailbox' \in Seq(Timer) /\ Single(mailbox')
      /\ \A x : Contains(mailbox', x) <=> Contains(mailbox, x) \/ Contains(gone, x)
  <2>1. \A x : ~(Contains(mailbox, x) /\ Contains(gone, x))
    BY <1>4, QueueFacts, Zenon DEF ActiveIffQueued
  <2>2. QED
    BY <2>1, <1>0, <1>1, <1>3, <1>4, JoinedMembers
<1>9. TypeOK'
  BY <1>0, <1>1, <1>3, <1>6, <1>7, <1>8, TimersAssumption DEF ActiveIffQueued, TypeOK, Deltas
<1>10. /\ \A x \in Timer : active'[x] <=> Contains(timers', x)
       /\ \A x \in Timer : ~(Contains(timers', x) /\ Contains(mailbox', x))
  BY <1>1, <1>3, <1>4, <1>8, Zenon DEF ActiveIffQueued, TypeOK
<1>11. IsInjective(timers') /\ IsInjective(mailbox')
  BY <1>1, <1>3, <1>8, SingleIsInjective
<1>12. ActiveIffQueued'
  BY <1>9, <1>10, <1>11 DEF ActiveIffQueued
<1>13. QED
  BY <1>7, <1>12, DeferredStays DEF Queueing

\* The timer task takes a timer out of the mailbox.
LEMMA TaskKeepsQueue ==
  ASSUME ActiveIffQueued, TimerTask
  PROVE  Queueing'
<1>0. mailbox \in Seq(Timer) /\ Single(mailbox)
  BY QueueFacts
<1>1. /\ mailbox # <<>> /\ mailbox' = Tail(mailbox) /\ Forget(Head(mailbox))
      /\ UNCHANGED <<clock, lastTimer, timers, deltaJiffy, active, timerExpire, compare, pending,
                     setting>>
      /\ arming = "done"
  BY DEF TimerTask
<1>2. /\ mailbox' \in Seq(Timer) /\ Single(mailbox')
      /\ \A x : Contains(mailbox', x) <=> Contains(mailbox, x) /\ x # Head(mailbox)
  BY <1>0, <1>1, TailMembers
<1>3. earliest' \in [Timer -> Nat] /\ latest' \in [Timer -> Nat]
  BY <1>1 DEF Forget, ActiveIffQueued, TypeOK
<1>4. TypeOK'
  BY <1>1, <1>2, <1>3 DEF setting, ActiveIffQueued, TypeOK
<1>5. \A x \in Timer : ~(Contains(timers', x) /\ Contains(mailbox', x))
  BY <1>1, <1>2, Zenon DEF ActiveIffQueued
<1>6. IsInjective(mailbox')
  BY <1>2, SingleIsInjective
<1>7. ActiveIffQueued'
  BY <1>1, <1>4, <1>5, <1>6 DEF ActiveIffQueued
<1>8. QED
  BY <1>1, <1>7, DeferredStays DEF Queueing, setting

\* Queueing is inductive.
LEMMA StepKeepsQueue ==
  ASSUME Queueing, [Next]_vars
  PROVE  Queueing'
<1>0. ActiveIffQueued
  BY DEF Queueing
<1>1. CASE Tick
  BY <1>1, TickKeepsQueue
<1>2. CASE WriteCompare
  BY <1>2, WriteKeepsQueue
<1>3. CASE CheckCompare
  BY <1>3, CheckKeepsQueue
<1>4. ASSUME NEW t \in Timer, NEW d \in Delays, NEW tol \in Tolerances,
             Idle(t), SetSoftTimer(t, d, tol)
      PROVE  Queueing'
  BY <1>0, <1>4, SetKeepsQueue
<1>5. ASSUME NEW t \in Timer, Idle(t), SetImmediate(t) PROVE Queueing'
  BY <1>0, <1>5, ImmediateKeepsQueue
<1>6. ASSUME NEW t \in Timer, CancelTimer(t) PROVE Queueing'
  BY <1>0, <1>6, CancelKeepsQueue
<1>7. CASE TimerISR
  BY <1>0, <1>7, IsrKeepsQueue
<1>8. CASE TimerTask
  BY <1>0, <1>8, TaskKeepsQueue
<1>9. CASE UNCHANGED vars
  BY <1>9 DEF vars, Queueing, Deferred, ActiveIffQueued, TypeOK
<1>10. QED
  BY <1>1, <1>2, <1>3, <1>4, <1>5, <1>6, <1>7, <1>8, <1>9, Zenon DEF Next

\* Queueing holds at the start.
LEMMA InitQueue ==
  ASSUME Init
  PROVE  Queueing
<1>1. /\ timers = <<>> /\ mailbox = <<>> /\ <<>> \in Seq(Timer) /\ Len(<<>>) = 0
      /\ active = [t \in Timer |-> FALSE] /\ deltaJiffy = [t \in Timer |-> 0]
  BY DEF Init
<1>2. \A x : ~Contains(<<>>, x)
  BY DEF Contains
<1>3. Count \in Int /\ Count \in 0 .. Word - 1
  BY TimersAssumption, WordFacts, ModRange DEF Init, Count
<1>4. timerExpire \in 0 .. Word - 1
  <2>1. Count + Word \div 4 \in Int
    BY <1>3, WordFacts DEF Quarter
  <2>2. QED
    BY <2>1, WordFacts, ModRange DEF Init
<1>5. deltaJiffy \in [Timer -> Deltas]
  BY <1>1, WordFacts DEF Deltas
<1>6. TypeOK
  BY <1>1, <1>3, <1>4, <1>5, TimersAssumption DEF Init, TypeOK, Deltas
<1>7. IsInjective(<<>>)
  <2>1. Single(<<>>)
    BY <1>1 DEF Single
  <2>2. QED
    BY <2>1, <1>1, SingleIsInjective, Zenon
<1>8. ActiveIffQueued
  BY <1>1, <1>2, <1>6, <1>7 DEF ActiveIffQueued
<1>9. QED
  BY <1>8 DEF Queueing, Deferred, Init

\* ActiveIffQueued: a timer object is on the timer queue exactly while it can be
\* cancelled (KRN_setSoftTimer, KRN_cancelTimer, _KRN_timerISR), at one place, and
\* never also in the timer task's mailbox.
THEOREM QueuedWhileActive == Spec => []ActiveIffQueued
<1>1. Init => Queueing
  BY InitQueue
<1>2. Queueing /\ [Next]_vars => Queueing'
  BY StepKeepsQueue
<1>3. Queueing => ActiveIffQueued
  BY DEF Queueing
<1>4. QED
  BY <1>1, <1>2, <1>3, PTL DEF Spec
-----------------------------------------------------------------------------
(* The expiry times.                                                       *)

\* Nothing is asked for that is half a word of jiffies away, its tolerance included.
Modest ==
  \A d \in Delays, tol \in Tolerances : d * ClockSpeed + tol * ClockSpeed < Word \div 2

\* No queued timer is to be held back to half a word from now or beyond.
InReach == \A k \in 1 .. Len(timers) : latest[timers[k]] < clock + 2 * Quarter

\* y ticks after TMR_set read the count is what it asks for, l ticks the first timer.
Ahead(y, l) ==
  /\ y <= l
  /\ abstime = (clock - slip + y) % Word
  /\ At(1) % Word = (clock - slip + l) % Word

\* TMR_set asks for the count of the first timer, or for one not after it.
Asked ==
  arming # "done" /\ add = 0 /\ timers # <<>> =>
    \/ abstime = At(1) % Word
    \/ \E y \in 0 .. 2 * Quarter - 1, l \in 0 .. 2 * Quarter - 1 : Ahead(y, l)

Timing ==
  /\ Queueing
  /\ DeltasExact
  /\ InReach
  /\ arming = "check" => compare = abstime
  /\ Asked
  /\ InterruptArmed

\* What the invariant says of the clock and of each timer.
LEMMA TimingFacts ==
  ASSUME Queueing
  PROVE  /\ ActiveIffQueued /\ clock \in Nat /\ clock \in Int /\ lastTimer \in Int
         /\ Count \in Int /\ Same(Count, clock)
         /\ Now \in Int /\ Same(Now, clock)
         /\ timers \in Seq(Timer) /\ Len(timers) \in Nat /\ Single(timers)
         /\ deltaJiffy \in [Timer -> Deltas] /\ deltaJiffy \in [Timer -> Nat]
         /\ earliest \in [Timer -> Nat] /\ latest \in [Timer -> Nat]
         /\ pending \in Int /\ compare \in 0 .. Word - 1
         /\ \A k \in 1 .. Len(timers) :
              UpTo(k) \in Nat /\ At(k) \in Int /\ timers[k] \in Timer
<1>1. /\ ActiveIffQueued /\ clock \in Nat /\ clock \in Int /\ lastTimer \in Int /\ Count \in Int
      /\ timers \in Seq(Timer) /\ Single(timers) /\ deltaJiffy \in [Timer -> Deltas]
  BY QueueFacts DEF Queueing
<1>2. Same(Count, clock)
  BY <1>1, SameLess DEF Count
<1>3. Now \in Int /\ Same(Now, clock)
  <2>1. Same(Count + Word, Count) /\ Word \in Int
    BY <1>1, WordFacts, SameLess
  <2>2. Same(Count + Word, clock)
    BY <2>1, <1>2, SameRules
  <2>3. QED
    BY <2>1, <2>2, <1>1, <1>2 DEF Now
<1>4. Len(timers) \in Nat /\ deltaJiffy \in [Timer -> Nat]
  BY <1>1, DeltasNat, LenProperties
<1>5. /\ earliest \in [Timer -> Nat] /\ latest \in [Timer -> Nat]
      /\ pending \in Int /\ compare \in 0 .. Word - 1
  BY <1>1 DEF ActiveIffQueued, TypeOK
<1>6. ASSUME NEW k \in 1 .. Len(timers)
      PROVE  UpTo(k) \in Nat /\ At(k) \in Int /\ timers[k] \in Timer
  <2>1. k \in 0 .. Len(timers)
    BY <1>4
  <2>2. UpTo(k) \in Nat
    BY <2>1, <1>1, <1>4, TotalGrows DEF UpTo
  <2>3. QED
    BY <2>2, <1>1, ElementOfSeq DEF At
<1>7. QED
  BY <1>1, <1>2, <1>3, <1>4, <1>5, <1>6

\* A queue that is not empty has a first timer.
LEMMA FirstTimer ==
  ASSUME Queueing, timers # <<>>
  PROVE  1 \in 1 .. Len(timers) /\ At(1) \in Int
<1>1. timers \in Seq(Timer) /\ Len(timers) \in Nat
  BY TimingFacts
<1>2. Len(timers) # 0
  BY <1>1, EmptySeq
<1>3. 1 \in 1 .. Len(timers)
  BY <1>1, <1>2
<1>4. QED
  BY <1>3, TimingFacts

\* What a timer's count at becomes, the same modulo the word, keeps it exact.
LEMMA ExactStays ==
  ASSUME NEW at \in Int, NEW to \in Int, Same(to, at), NEW e \in Nat, NEW l \in Nat,
         (at - e) % Word <= l - e
  PROVE  (to - e) % Word <= l - e
<1>1. e \in Int
  OBVIOUS
<1>2. Same(to - e, at - e)
  BY <1>1, SameShift, Zenon
<1>3. QED
  BY <1>2 DEF Same

\* _KRN_setExpiry asks for the time it is given, or for a quarter word from now if that
\* is sooner.
LEMMA ExpiryAsks ==
  ASSUME Queueing, NEW a \in Int, NEW ex, ex = Expiry(a % Word)
  PROVE  \/ ex = a % Word
         \/ ex = (clock + Quarter) % Word /\ Signed(a - clock) >= Quarter
<1>1. clock \in Int /\ Count \in Int /\ Same(Count, clock) /\ Quarter \in Int
  BY TimingFacts, WordFacts
<1> DEFINE at == a % Word
<1>2. at \in Int /\ Same(at, a)
  BY SameRest, SameLess
<1>3. at - Count \in Int /\ a - clock \in Int /\ Same(at - Count, a - clock)
  <2> HIDE DEF at
  <2>1. at - Count \in Int /\ a - clock \in Int
    BY <1>1, <1>2
  <2>2. Same(at - Count, a - clock)
    BY <1>1, <1>2, SameBoth, Zenon
  <2>3. QED
    BY <2>1, <2>2
<1>4. Same(Count + Quarter, clock + Quarter)
  BY <1>1, SameShift, Zenon
<1> HIDE DEF at
<1>5. Signed(at - Count) = Signed(a - clock)
  BY <1>3 DEF Signed, Same
<1>6. Signed(a - clock) \in Int
  BY <1>3, SignedRange
<1>7. ex = IF Signed(at - Count) < Quarter THEN at ELSE (Count + Quarter) % Word
  BY DEF Expiry, Quarter, at
<1>8. (Count + Quarter) % Word = (clock + Quarter) % Word
  BY <1>4 DEF Same
<1>9. CASE Signed(a - clock) < Quarter
  BY <1>5, <1>7, <1>9 DEF at
<1>10. CASE ~(Signed(a - clock) < Quarter)
  BY <1>1, <1>5, <1>6, <1>7, <1>8, <1>10
<1>11. QED
  BY <1>9, <1>10

\* The clock goes on.
LEMMA TickKeepsTiming ==
  ASSUME Timing, Tick
  PROVE  Timing'
<1>0. Queueing
  BY DEF Timing
<1>1. /\ UNCHANGED <<lastTimer, timers, deltaJiffy, active, mailbox, timerExpire, compare,
                     arming, abstime, add, earliest, latest>>
      /\ clock' = clock + 1
      /\ pending' = IF pending >= 0 THEN pending + 1
                    ELSE IF (clock + 1) % Word = compare THEN 0 ELSE -1
      /\ slip' = IF arming = "done" THEN slip ELSE slip + 1
  BY DEF Tick
<1>2. /\ clock \in Nat /\ clock \in Int /\ compare \in 0 .. Word - 1 /\ pending \in Int /\ Quarter \in Nat
      /\ latest \in [Timer -> Nat] /\ timers \in Seq(Timer) /\ slip \in Nat /\ add \in Nat
  BY <1>0, TimingFacts, SettingFacts, WordFacts
<1>3. Queueing'
  BY <1>0, TickKeepsQueue
<1>4. At(1)' = At(1) /\ DeltasExact'
  BY <1>1 DEF Timing, At, UpTo, DeltasExact
<1>5. InReach'
  <2>1. \A k \in 1 .. Len(timers) : latest[timers[k]] \in Nat /\ latest[timers[k]] < clock + 2 * Quarter
    BY <1>2, ElementOfSeq DEF Timing, InReach
  <2>2. QED
    BY <2>1, <1>1, <1>2 DEF InReach
<1>6. Asked'
  <2>1. arming # "done" => clock' - slip' = clock - slip
    BY <1>1, <1>2
  <2>2. ASSUME NEW y, NEW l, arming # "done", Ahead(y, l) PROVE Ahead(y, l)'
    BY <2>1, <2>2, <1>1, <1>4 DEF Ahead
  <2>3. QED
    BY <2>2, <1>1, <1>4 DEF Timing, Asked
<1>7. (arming = "check" => compare = abstime)'
  BY <1>1 DEF Timing
<1>8. InterruptArmed'
  <2>1. SUFFICES ASSUME timers # <<>>, arming = "done", ~(pending' >= 0)
                 PROVE  ToMatch' <= (IF Left' > 0 THEN Left' ELSE 0) + add
    BY <1>1 DEF InterruptArmed
  <2>2. ~(pending >= 0) /\ (clock + 1) % Word # compare
    BY <2>1, <1>1, <1>2
  <2>3. ToMatch <= (IF Left > 0 THEN Left ELSE 0) + add
    BY <2>1, <2>2 DEF Timing, InterruptArmed
  <2>4. ToMatch' = ToMatch - 1 /\ ToMatch \in Int
    <3>1. MatchAt(clock + 1, compare) = MatchAt(clock, compare)
      BY <2>2, <1>2, Await
    <3>2. /\ ToMatch = ((compare - (clock % Word) - 1) % Word) + 1
          /\ ToMatch' = ((compare - ((clock + 1) % Word) - 1) % Word) + 1
      BY <1>1 DEF ToMatch, Count
    <3>3. /\ (compare - (clock % Word) - 1) % Word \in Int
          /\ (compare - ((clock + 1) % Word) - 1) % Word \in Int
      BY <1>2, WordFacts
    <3>4. QED
      BY <3>1, <3>2, <3>3, <1>2 DEF MatchAt
  <2>5. Left \in Int /\ Left' \in Int /\ (Left > 0 => Left' >= Left - 1)
    <3>1. /\ At(1) \in Int /\ Count \in Int /\ Count' \in Int
          /\ Same(Count, clock) /\ Same(Count', clock + 1)
      <4>1. At(1) \in Int
        BY <2>1, <1>0, FirstTimer
      <4>2. Count \in Int /\ Same(Count, clock)
        BY <1>0, TimingFacts
      <4>3. clock + 1 \in Int /\ Count' = (clock + 1) % Word
        BY <1>1, <1>2 DEF Count
      <4>4. Count' \in Int /\ Same(Count', clock + 1)
        BY <4>3, SameRest, SameLess
      <4>5. QED
        BY <4>1, <4>2, <4>4
    <3> DEFINE u == Count - At(1)
               v == Count' - At(1)
    <3>2. u \in Int /\ v \in Int /\ Same(v, u + 1)
      <4> DEFINE a == At(1)
                 w == clock + 1
                 c == Count + 1
      <4>1. a \in Int /\ w \in Int /\ c \in Int /\ 1 \in Int
        BY <3>1, <1>2
      <4>2. Same(c, w)
        BY <4>1, <3>1, <1>2, SameShift, Zenon
      <4>3. Same(Count', c)
        BY <4>2, <3>1, SameRules
      <4>4. u + 1 = c - a /\ u \in Int /\ v \in Int
        BY <3>1
      <4>5. Same(Count' - a, c - a)
        <5> HIDE DEF a, c
        <5>1. QED
          BY <4>1, <4>3, <3>1, SameShift, Zenon
      <4>6. QED
        BY <4>4, <4>5
    <3>3. Left = -Signed(u) /\ Left' = -Signed(v)
      BY <1>4 DEF Left
    <3> HIDE DEF u, v
    <3> DEFINE r == Signed(u)
    <3>4. /\ r \in Int /\ -(2 * Quarter) <= r /\ r < 2 * Quarter /\ Same(r, u)
          /\ Signed(v) \in Int
      BY <3>2, SignedRange DEF Same
    <3> HIDE DEF r
    <3>5. ASSUME r < 0 PROVE Signed(v) = r + 1
      <4>1. r + 1 \in Int /\ -(2 * Quarter) <= r + 1 /\ r + 1 < 2 * Quarter
        BY <3>4, <3>5, WordFacts
      <4>2. Same(u + 1, r + 1)
        <5> DEFINE one == 1
        <5>1. one \in Int /\ Same(u, r)
          BY <3>4 DEF Same
        <5> HIDE DEF one
        <5>2. Same(u + one, r + one)
          BY <5>1, <3>2, <3>4, SameShift, Zenon
        <5>3. QED
          BY <5>2 DEF one
      <4>3. Same(v, r + 1)
        BY <4>2, <3>2, SameRules
      <4>4. QED
        BY <4>1, <4>3, <3>2, SignedIs DEF Same
    <3>6. Left = -r
      BY <3>3 DEF r
    <3>7. Left > 0 => Left' = Left - 1
      BY <3>3, <3>4, <3>5, <3>6
    <3>8. QED
      BY <3>3, <3>4, <3>6, <3>7
  <2>6. add \in Nat
    BY <1>2
  <2> DEFINE m == ToMatch
             l == Left
             n == ToMatch'
             k == Left'
  <2>7. m \in Int /\ l \in Int /\ m <= (IF l > 0 THEN l ELSE 0) + add
    BY <2>3, <2>4, <2>5
  <2>8. n = m - 1 /\ k \in Int /\ (l > 0 => k >= l - 1)
    BY <2>4, <2>5
  <2>9. SUFFICES n <= (IF k > 0 THEN k ELSE 0) + add
    OBVIOUS
  <2> HIDE DEF m, l, n, k
  <2>10. CASE l > 0
    BY <2>6, <2>7, <2>8, <2>10
  <2>11. CASE ~(l > 0)
    BY <2>6, <2>7, <2>8, <2>11
  <2>12. QED
    BY <2>10, <2>11
<1>9. QED
  BY <1>3, <1>4, <1>5, <1>6, <1>7, <1>8 DEF Timing

\* The register is written as asked.
LEMMA WriteKeepsTiming ==
  ASSUME Timing, WriteCompare
  PROVE  Timing'
<1>1. /\ UNCHANGED <<clock, lastTimer, timers, deltaJiffy, abstime, add, slip, earliest, latest>>
      /\ arming = "write" /\ arming' = "check" /\ compare' = abstime
  BY DEF WriteCompare
<1>2. Queueing'
  BY WriteKeepsQueue DEF Timing
<1>3. At(1)' = At(1) /\ DeltasExact' /\ InReach'
  BY <1>1 DEF Timing, At, UpTo, DeltasExact, InReach
<1>4. Asked'
  <2>1. \A y, l : Ahead(y, l)' = Ahead(y, l)
    BY <1>1, <1>3 DEF Ahead
  <2>2. QED
    BY <2>1, <1>1, <1>3 DEF Timing, Asked
<1>5. InterruptArmed'
  BY <1>1 DEF InterruptArmed
<1>6. QED
  BY <1>1, <1>2, <1>3, <1>4, <1>5 DEF Timing

\* A time asked for, g ticks ahead, is met in g ticks.
LEMMA MetIn ==
  ASSUME Queueing, NEW g \in 1 .. Word, compare = (clock + g) % Word
  PROVE  ToMatch = g
<1>1. clock \in Nat /\ compare \in Int
  BY TimingFacts
<1>2. MatchAt(clock, compare) = clock + g
  BY <1>1, MatchIs
<1>3. (compare - (clock % Word) - 1) % Word \in Int
  BY <1>1, WordFacts
<1>4. QED
  BY <1>1, <1>2, <1>3 DEF MatchAt, ToMatch, Count

\* A time that TMR_set finds still ahead is met before the first timer is due.
LEMMA CheckedIsMet ==
  ASSUME Timing, arming = "check", timers # <<>>, Signed(Count - abstime) < 0
  PROVE  ToMatch <= (IF Left > 0 THEN Left ELSE 0) + add
<1>0. Queueing /\ compare = abstime
  BY DEF Timing
<1>1. /\ clock \in Nat /\ clock \in Int /\ Count \in Int /\ Same(Count, clock)
      /\ At(1) \in Int /\ abstime \in Int
  BY <1>0, TimingFacts, SettingFacts, FirstTimer DEF Queueing
<1>2. /\ slip \in Nat /\ slip <= MaxSlip /\ add \in Nat /\ add <= ClockSpeed + 2 * MaxSlip
      /\ ClockSpeed \in Nat /\ MaxSlip \in Nat /\ ClockSpeed + 2 * MaxSlip < Quarter
      /\ Quarter \in Nat /\ Word = 4 * Quarter
  BY <1>0, TimingFacts, SettingFacts, WordFacts
<1>3. Left \in Int
  <2>1. Count - At(1) \in Int
    BY <1>1
  <2>2. QED
    BY <2>1, SignedRange DEF Left
<1>4. CASE add > 0
  <2>1. Signed(Count - abstime) = slip - add /\ abstime = (clock - slip + add) % Word
    BY <1>0, <1>4, MissedBy
  <2> DEFINE g == add - slip
  <2>2. g \in 1 .. Word /\ clock - slip + add = clock + g
    BY <2>1, <1>1, <1>2
  <2> HIDE DEF g
  <2>3. ToMatch = g
    BY <2>1, <2>2, <1>0, MetIn
  <2>4. QED
    BY <2>3, <1>2, <1>3 DEF g
<1>5. CASE add = 0 /\ abstime = At(1) % Word
  <2> DEFINE a == At(1)
             s == Signed(Count - a)
  <2>1. a \in Int /\ Same(abstime, a) /\ Count - a \in Int
    BY <1>1, <1>5, SameLess
  <2> HIDE DEF a
  <2>2. Same(Count - abstime, Count - a)
    BY <2>1, <1>1, SameShift, Zenon
  <2>3. s < 0 /\ Left = -s
    BY <2>2 DEF Signed, Left, Same, a
  <2>4. s \in Int /\ -(2 * Quarter) <= s /\ Same(s, Count - a)
    BY <2>1, SignedRange DEF Same
  <2> HIDE DEF s
  <2> DEFINE g == -s
             j == clock - (Count - a)
  <2>5. g \in Int /\ clock + g = clock - s /\ Count - s \in Int /\ j \in Int
    BY <2>1, <2>4, <1>1
  <2>6. Same(clock - s, j)
    BY <2>1, <2>4, <1>1, SameShift, Zenon
  <2>7. Same(j, a)
    <3>0. clock - Count \in Int /\ Count - Count \in Int /\ Same(clock, Count)
      BY <1>1 DEF Same
    <3>1. Same(clock - Count, Count - Count)
      BY <3>0, <1>1, SameShift, Zenon
    <3>2. Same((clock - Count) + a, (Count - Count) + a)
      BY <3>0, <3>1, <2>1, SameShift, Zenon
    <3>3. (clock - Count) + a = j /\ (Count - Count) + a = a
      BY <2>1, <1>1
    <3>4. QED
      BY <3>2, <3>3
  <2>8. g \in 1 .. Word
    BY <2>3, <2>4, <1>2
  <2>9. compare = (clock + g) % Word
    <3>1. compare = a % Word /\ Same(clock - s, a)
      BY <2>6, <2>7, <1>0, <1>5, SameRules DEF a
    <3>2. QED
      BY <3>1, <2>5 DEF Same
  <2> HIDE DEF g
  <2>10. ToMatch = g
    BY <2>8, <2>9, <1>0, MetIn
  <2>11. QED
    BY <2>3, <2>4, <2>8, <2>10, <1>5 DEF g
<1>6. ASSUME add = 0, NEW y \in 0 .. 2 * Quarter - 1, NEW l \in 0 .. 2 * Quarter - 1, Ahead(y, l)
      PROVE  ToMatch <= (IF Left > 0 THEN Left ELSE 0) + add
  <2> DEFINE x == clock - slip + y
             z == clock - slip + l
  <2>1. /\ y <= l /\ abstime = x % Word /\ At(1) % Word = z % Word /\ x \in Int /\ z \in Int
        /\ clock - x = slip - y /\ clock - z = slip - l
    BY <1>1, <1>2, <1>6 DEF Ahead
  <2> HIDE DEF x, z
  <2>2. Signed(Count - abstime) = slip - y
    <3>1. Same(abstime, x) /\ Count - abstime \in Int /\ slip - y \in Int
      BY <2>1, <1>1, <1>2, SameLess
    <3>2. Same(Count - abstime, slip - y)
      BY <3>1, <2>1, <1>1, SameBoth, Zenon
    <3>3. -(2 * Quarter) <= slip - y /\ slip - y < 2 * Quarter
      BY <1>2
    <3>4. QED
      BY <3>1, <3>2, <3>3, SignedIs DEF Same
  <2>3. Left = l - slip
    <3> DEFINE a == At(1)
    <3>1. Same(a, z) /\ a \in Int
      BY <2>1, <1>1 DEF Same
    <3> HIDE DEF a
    <3>2. Same(Count - a, slip - l)
      BY <3>1, <2>1, <1>1, SameBoth, Zenon
    <3>3. /\ -(2 * Quarter) <= slip - l /\ slip - l < 2 * Quarter
          /\ Count - a \in Int /\ slip - l \in Int
      BY <3>1, <1>1, <1>2
    <3>4. Signed(Count - a) = slip - l
      BY <3>2, <3>3, SignedIs DEF Same
    <3>5. Left = -Signed(Count - a)
      BY DEF Left, a
    <3>6. QED
      BY <3>4, <3>5, <1>2
  <2> DEFINE g == y - slip
  <2>4. g \in 1 .. Word /\ x = clock + g
    BY <2>1, <2>2, <1>1, <1>2
  <2> HIDE DEF g
  <2>5. ToMatch = g
    BY <2>1, <2>4, <1>0, MetIn
  <2>6. QED
    BY <2>1, <2>3, <2>5, <1>2, <1>6 DEF g
<1>7. QED
  <2>1. CASE add = 0
    <3>1. \/ abstime = At(1) % Word
          \/ \E y \in 0 .. 2 * Quarter - 1, l \in 0 .. 2 * Quarter - 1 : Ahead(y, l)
      BY <2>1 DEF Timing, Asked
    <3>2. QED
      BY <3>1, <2>1, <1>5, <1>6
  <2>2. QED
    BY <2>1, <1>2, <1>4

\* TMR_set is done only when the interrupt will come.
LEMMA CheckKeepsTiming ==
  ASSUME Timing, CheckCompare
  PROVE  Timing'
<1>1. /\ UNCHANGED <<clock, lastTimer, timers, deltaJiffy, compare, pending, earliest, latest>>
      /\ arming = "check"
      /\ \/ arming' = "write" /\ add' = IF add = 0 THEN ClockSpeed ELSE 2 * add
         \/ /\ pending >= 0 \/ ~(Signed(Count - abstime) >= 0)
            /\ arming' = "done" /\ add' = add
  <2>1. /\ UNCHANGED <<clock, lastTimer, timers, deltaJiffy, compare, pending, earliest, latest>>
        /\ arming = "check"
    BY DEF CheckCompare
  <2>2. PICK clear \in {pending < 0} \cup (IF add > 0 THEN {TRUE} ELSE {}) :
          IF clear /\ Signed(Count - abstime) >= 0
            THEN arming' = "write" /\ add' = IF add = 0 THEN ClockSpeed ELSE 2 * add
            ELSE arming' = "done" /\ add' = add
    BY DEF CheckCompare
  <2>3. pending \in Int
    BY TimingFacts DEF Timing
  <2>4. CASE Signed(Count - abstime) >= 0 /\ clear
    BY <2>1, <2>2, <2>4
  <2>5. CASE ~(Signed(Count - abstime) >= 0)
    BY <2>1, <2>2, <2>5
  <2>6. CASE ~clear
    <3>1. ~(pending < 0)
      BY <2>2, <2>6
    <3>2. arming' = "done" /\ add' = add
      BY <2>2, <2>6
    <3>3. QED
      BY <3>1, <3>2, <2>1, <2>3
  <2>7. QED
    BY <2>4, <2>5, <2>6
<1>2. Queueing /\ Queueing'
  BY CheckKeepsQueue DEF Timing
<1>3. At(1)' = At(1) /\ DeltasExact' /\ InReach' /\ ToMatch' = ToMatch /\ Left' = Left
  BY <1>1 DEF Timing, At, UpTo, DeltasExact, InReach, ToMatch, Left, Count
<1>4. (arming = "check" => compare = abstime)'
  BY <1>1
<1>5. Asked'
  <2>1. add \in Nat /\ ClockSpeed \in Nat \ {0}
    BY <1>2, SettingFacts DEF Queueing
  <2>2. arming' # "done" => add' # 0
    BY <2>1, <1>1
  <2>3. QED
    BY <2>2 DEF Asked
<1>6. InterruptArmed'
  <2>1. SUFFICES ASSUME timers # <<>>, arming' = "done", ~(pending >= 0)
                 PROVE  ToMatch <= (IF Left > 0 THEN Left ELSE 0) + add
    BY <1>1, <1>3 DEF InterruptArmed
  <2>2. Signed(Count - abstime) \in Int /\ ~(Signed(Count - abstime) >= 0)
    <3>1. Count - abstime \in Int
      BY <1>2, TimingFacts, SettingFacts
    <3>2. QED
      BY <3>1, <2>1, <1>1, SignedRange
  <2>3. QED
    BY <2>1, <2>2, <1>1, CheckedIsMet
<1>7. QED
  BY <1>2, <1>3, <1>4, <1>5, <1>6 DEF Timing

\* What is asked for is less than half a word, so none of it is lost.
LEMMA AskedFor ==
  ASSUME Modest, NEW delay \in Delays, NEW tol \in Tolerances,
         NEW d, d = delay * ClockSpeed, NEW tolj, tolj = tol * ClockSpeed,
         NEW slack, slack = IF tol = 0 THEN 0 ELSE tolj - 1
  PROVE  /\ d \in Nat /\ d % Word = d /\ tolj \in Nat /\ Wide(Signed(tolj)) = tolj
         /\ slack \in Nat /\ d + slack < 2 * Quarter
         /\ slack = IF tolj = 0 THEN 0 ELSE tolj - 1
<1>1. /\ d \in Nat /\ tolj \in Nat /\ tol \in Nat
      /\ tol # 0 => tolj >= 1
  <2>1. delay \in Nat /\ tol \in Nat /\ ClockSpeed \in Nat /\ ClockSpeed \in Nat \ {0}
    BY TimersAssumption
  <2>2. d \in Nat /\ tolj \in Nat
    BY <2>1
  <2>3. CASE tol # 0
    <3>1. tol \in Int /\ tol >= 1
      BY <2>1, <2>3
    <3>2. ClockSpeed * tol >= ClockSpeed /\ ClockSpeed * tol = tol * ClockSpeed
      BY <3>1, <2>1, AtLeastOne
    <3>3. tolj >= 1
      BY <3>2, <2>1
    <3>4. QED
      BY <3>3, <2>1, <2>2
  <2>4. QED
    BY <2>1, <2>2, <2>3
<1>2. d + tolj < 2 * Quarter
  BY WordFacts DEF Modest
<1>3. d \in 0 .. Word - 1 /\ -(2 * Quarter) <= tolj /\ tolj < 2 * Quarter /\ tolj \in Deltas
  BY <1>1, <1>2, WordFacts DEF Deltas
<1>4. d % Word = d
  BY <1>3, WordFacts, ModSmall
<1>5. Signed(tolj) = tolj
  BY <1>1, <1>3, SignedIs
<1>6. Wide(tolj) = tolj
  BY <1>3, WordFacts, ModSmall DEF Wide, Deltas
<1>7. tol = 0 => tolj = 0
  BY <1>1, TimersAssumption
<1>8. slack \in Nat /\ d + slack < 2 * Quarter /\ slack = IF tolj = 0 THEN 0 ELSE tolj - 1
  BY <1>1, <1>2, <1>7, WordFacts
<1>9. QED
  BY <1>1, <1>4, <1>5, <1>6, <1>8

\* TMR_set is called for a count a that the first timer has, or is x jiffies behind:
\* it asks for one that is not after the first timer's.
LEMMA SettingAsks ==
  ASSUME Queueing, NEW busy \in BOOLEAN, NEW a \in Int, NEW x \in Nat,
         SetCompare(busy, Expiry(a % Word)), UNCHANGED clock,
         timers' # <<>> => Same(At(1)', a + x),
         x = 0 \/ (Signed(a - clock) >= 0 /\ Signed(a - clock) + x < 2 * Quarter)
  PROVE  Asked' /\ (arming' = "done" => busy) /\ arming' # "check"
<1> DEFINE s == Signed(a - clock)
<1>1. /\ arming' = (IF busy THEN "done" ELSE "write")
      /\ abstime' = (IF busy THEN 0 ELSE Expiry(a % Word)) /\ add' = 0 /\ slip' = 0
  BY DEF SetCompare
<1>2. clock \in Int /\ Quarter \in Nat /\ Quarter >= 2
  BY TimingFacts, WordFacts
<1>3. /\ s \in Int /\ -(2 * Quarter) <= s /\ s < 2 * Quarter /\ Same(s, a - clock)
  <2>1. a - clock \in Int
    BY <1>2
  <2>2. QED
    BY <2>1, SignedRange DEF Same
<1>4. \/ Expiry(a % Word) = a % Word
      \/ Expiry(a % Word) = (clock + Quarter) % Word /\ s >= Quarter
  BY ExpiryAsks
<1>5. x = 0 \/ (s >= 0 /\ s + x < 2 * Quarter)
  OBVIOUS
<1> HIDE DEF s
<1>6. Same(clock + s, a)
  <2> DEFINE u == a - clock
  <2>1. u \in Int /\ clock + s = s + clock /\ u + clock = a
    BY <1>2, <1>3
  <2> HIDE DEF u
  <2>2. Same(s + clock, u + clock)
    BY <2>1, <1>2, <1>3, SameShift, Zenon DEF u
  <2>3. QED
    BY <2>1, <2>2
<1>7. ASSUME arming' # "done", timers' # <<>>
      PROVE  \/ abstime' = At(1)' % Word
             \/ \E y \in 0 .. 2 * Quarter - 1, l \in 0 .. 2 * Quarter - 1 : Ahead(y, l)'
  <2>0. Same(At(1)', a + x) /\ abstime' = Expiry(a % Word)
    BY <1>1, <1>7
  <2> DEFINE l == s + x
             first == At(1)'
  <2>1. l \in Int /\ clock' - slip' + l = clock + s + x
    BY <1>1, <1>2, <1>3
  <2>2. Same(first, clock' - slip' + l)
    <3>1. clock + s \in Int /\ x \in Int
      BY <1>2, <1>3
    <3> DEFINE v == clock + s
    <3> HIDE DEF v, first
    <3>2. Same(v + x, a + x)
      BY <3>1, <1>6, SameShift, Zenon DEF v
    <3>3. QED
      BY <3>2, <2>0, <2>1, SameRules, Zenon DEF v, first
  <2>3. first % Word = (clock' - slip' + l) % Word
    BY <2>2 DEF Same
  <2>4. CASE Expiry(a % Word) = a % Word /\ x = 0
    <3>1. a + x = a
      BY <2>4
    <3>2. Same(At(1)', a)
      BY <3>1, <2>0
    <3>3. QED
      BY <3>2, <2>0, <2>4 DEF Same
  <2>5. CASE Expiry(a % Word) = a % Word /\ x # 0
    <3>1. s \in 0 .. 2 * Quarter - 1 /\ l \in 0 .. 2 * Quarter - 1 /\ s <= l
      BY <2>5, <1>2, <1>3, <1>5
    <3>2. abstime' = (clock' - slip' + s) % Word
      <4>1. clock' - slip' + s = clock + s
        BY <1>1, <1>2, <1>3
      <4>2. QED
        BY <4>1, <2>0, <2>5, <1>6 DEF Same
    <3>3. PICK y \in 0 .. 2 * Quarter - 1, z \in 0 .. 2 * Quarter - 1 : y = s /\ z = l
      BY <3>1
    <3>4. Ahead(y, z)'
      BY <3>1, <3>2, <3>3, <2>3 DEF Ahead
    <3>5. QED
      BY <3>4
  <2>6. CASE Expiry(a % Word) = (clock + Quarter) % Word /\ s >= Quarter
    <3>1. Quarter \in 0 .. 2 * Quarter - 1 /\ l \in 0 .. 2 * Quarter - 1 /\ Quarter <= l
      BY <2>6, <1>2, <1>3, <1>5
    <3>2. abstime' = (clock' - slip' + Quarter) % Word
      <4>1. clock' - slip' + Quarter = clock + Quarter
        BY <1>1, <1>2
      <4>2. QED
        BY <4>1, <2>0, <2>6
    <3>3. PICK z \in 0 .. 2 * Quarter - 1 : z = l
      BY <3>1
    <3>4. Ahead(Quarter, z)'
      BY <3>1, <3>2, <3>3, <2>3 DEF Ahead
    <3>5. QED
      BY <3>1, <3>4
  <2>7. QED
    BY <2>4, <2>5, <2>6, <1>4
<1>8. Asked'
  BY <1>7 DEF Asked
<1>9. QED
  BY <1>1, <1>8

\* A timer that is set is due when it was asked to be, and the others as before.
LEMMA SetKeepsTiming ==
  ASSUME Modest, Timing,
         NEW t \in Timer, NEW delay \in Delays, NEW tol \in Tolerances,
         Idle(t), SetSoftTimer(t, delay, tol)
  PROVE  Timing'
<1> DEFINE d == delay * ClockSpeed
           tolj == tol * ClockSpeed
           slack == IF tol = 0 THEN 0 ELSE tolj - 1
           dj == Wide(Wide(Count - lastTimer) + d)
           b == Before(dj)
           N == Len(timers)
           e == deltaJiffy'
           p == timers'
<1>0. Queueing
  BY DEF Timing
<1>1. /\ timers \in Seq(Timer) /\ Single(timers) /\ deltaJiffy \in [Timer -> Deltas]
      /\ deltaJiffy \in [Timer -> Nat] /\ N \in Nat
      /\ clock \in Nat /\ clock \in Int /\ Count \in Int /\ Same(Count, clock) /\ lastTimer \in Int
      /\ earliest \in [Timer -> Nat] /\ latest \in [Timer -> Nat]
  BY <1>0, TimingFacts
<1>2. /\ d \in Nat /\ d % Word = d /\ tolj \in Nat /\ Wide(Signed(tolj)) = tolj
      /\ slack \in Nat /\ d + slack < 2 * Quarter
      /\ slack = IF tolj = 0 THEN 0 ELSE tolj - 1
  BY AskedFor
<1>3. /\ p = InsertAt(timers, b + 1, t) /\ Sets(e, t, dj, tolj)
      /\ IF b = 0 THEN /\ timerExpire' = (Count + d) % Word
                       /\ SetCompare(pending >= 0, Expiry(timerExpire'))
         ELSE UNCHANGED <<timerExpire, setting>>
      /\ earliest' = [earliest EXCEPT ![t] = clock + d]
      /\ latest' = [latest EXCEPT ![t] = clock + d + slack]
      /\ arming = "done"
      /\ UNCHANGED <<clock, lastTimer, compare, pending>>
  BY <1>2 DEF SetSoftTimer, Sets
<1> HIDE DEF d, tolj, slack
<1>4. dj \in Deltas /\ dj \in Int /\ Same(dj, (Count - lastTimer) + d)
  <2> DEFINE c == Count - lastTimer
             w == Wide(c) + d
  <2>1. c \in Int /\ d \in Int
    BY <1>1, <1>2
  <2>2. Wide(c) \in Int /\ w \in Int /\ Same(Wide(c), c)
    <3> HIDE DEF c
    <3>1. Wide(c) \in Deltas /\ Same(Wide(c), c)
      BY <2>1, WideRange, SameLess
    <3>2. QED
      BY <3>1, <2>1, WordFacts DEF Deltas
  <2>3. Same(w, c + d)
    <3> HIDE DEF c
    <3>1. QED
      BY <2>1, <2>2, SameShift, Zenon
  <2>4. Wide(w) \in Deltas /\ Same(Wide(w), w) /\ Wide(w) \in Int
    <3> HIDE DEF w
    <3>1. Wide(w) \in Deltas /\ Same(Wide(w), w)
      BY <2>2, WideRange, SameLess
    <3>2. QED
      BY <3>1, WordFacts DEF Deltas
  <2>5. QED
    BY <2>3, <2>4, SameRules
<1> HIDE DEF dj, b, e, p
<1>5. ~Contains(timers, t)
  BY <1>0 DEF Queueing, Idle, ActiveIffQueued
<1>6. /\ b \in 0 .. N /\ e \in [Timer -> Deltas]
      /\ GivesUp(e, deltaJiffy, timers, b, t, N)
      /\ e[t] \in dj - UpTo(b) .. dj - UpTo(b) + slack
  BY <1>1, <1>2, <1>3, <1>4, <1>5, SetDeltas DEF b
<1>7. e \in [Timer -> Nat] /\ UpTo(b) \in Nat
  BY <1>1, <1>6, DeltasNat, TotalGrows DEF UpTo
<1>8. /\ p \in Seq(Timer) /\ Len(p) = N + 1 /\ Spliced(p, timers, b, t, N)
      /\ TotalsSpliced(p, e, timers, deltaJiffy, b, t, N)
  <2>1. N = Len(timers) /\ Puts(p, timers, b, t)
    BY <1>3 DEF Puts
  <2>2. b \in 0 .. Len(timers)
    BY <1>6
  <2> HIDE DEF N
  <2>3. Longer(p, timers)
    BY <2>1, <2>2, <1>1, PutLonger
  <2>4. p \in Seq(Timer) /\ Spliced(p, timers, b, t, N)
        /\ TotalsSpliced(p, e, timers, deltaJiffy, b, t, N)
    BY <2>1, <1>1, <1>6, <1>7, Inserted
  <2>5. QED
    BY <2>1, <2>3, <2>4 DEF Longer
<1>9. ASSUME NEW k \in 1 .. N + 1
      PROVE  /\ UpTo(k)' = IF k <= b THEN UpTo(k) ELSE IF k = b + 1 THEN UpTo(b) + e[t]
                           ELSE UpTo(k - 1)
             /\ p[k] = IF k <= b THEN timers[k] ELSE IF k = b + 1 THEN t ELSE timers[k - 1]
             /\ At(k)' = lastTimer + UpTo(k)'
  <2>1. k \in 0 .. N + 1
    BY <1>1
  <2>2. UpTo(k)' = Total(p, e, k)
    BY DEF UpTo, e, p
  <2>3. /\ Total(p, e, k) = IF k <= b THEN Total(timers, deltaJiffy, k)
                            ELSE IF k = b + 1 THEN Total(timers, deltaJiffy, b) + e[t]
                            ELSE Total(timers, deltaJiffy, k - 1)
        /\ p[k] = IF k <= b THEN timers[k] ELSE IF k = b + 1 THEN t ELSE timers[k - 1]
    BY <2>1, <1>8, Zenon DEF TotalsSpliced, Spliced
  <2>4. /\ UpTo(k)' = IF k <= b THEN UpTo(k) ELSE IF k = b + 1 THEN UpTo(b) + e[t]
                      ELSE UpTo(k - 1)
        /\ p[k] = IF k <= b THEN timers[k] ELSE IF k = b + 1 THEN t ELSE timers[k - 1]
    BY <2>2, <2>3, Zenon DEF UpTo
  <2>5. At(k)' = lastTimer + UpTo(k)'
    BY <1>3 DEF At
  <2>6. QED
    BY <2>4, <2>5
<1>10. ASSUME NEW k \in 1 .. N + 1, k = b + 1
       PROVE  \E x \in 0 .. slack : At(k)' \in Int /\ Same(At(k)', clock + d + x)
  <2> DEFINE u == UpTo(b)
             v == e[t]
             x == (u + v) - dj
             r == lastTimer + dj
             first == At(k)'
  <2>1. u \in Nat /\ v \in Int
    BY <1>7
  <2>2. first = lastTimer + (u + v)
    <3>1. ~(k <= b)
      BY <1>6, <1>10
    <3>2. QED
      BY <3>1, <1>9, <1>10
  <2>3. v \in dj - u .. dj - u + slack
    BY <1>6
  <2> HIDE DEF u, v, first
  <2>4. /\ x \in 0 .. slack /\ x \in Int /\ first = r + x /\ first \in Int /\ r \in Int
    BY <2>1, <2>2, <2>3, <1>1, <1>2, <1>4
  <2> HIDE DEF x
  <2>5. Same(r, Count + d)
    <3> DEFINE c == (Count - lastTimer) + d
    <3>1. c \in Int /\ lastTimer + dj = dj + lastTimer /\ c + lastTimer = Count + d
      BY <1>1, <1>2, <1>4
    <3> HIDE DEF c
    <3>2. Same(dj + lastTimer, c + lastTimer)
      BY <3>1, <1>1, <1>4, SameShift, Zenon DEF c
    <3>3. QED
      BY <3>1, <3>2
  <2>6. Same(Count + d, clock + d)
    <3>1. d \in Int
      BY <1>2
    <3>2. QED
      BY <3>1, <1>1, SameShift, Zenon
  <2>7. Same(r, clock + d) /\ clock + d \in Int
    BY <2>5, <2>6, <1>1, <1>2, SameRules
  <2>8. Same(r + x, clock + d + x)
    <3> DEFINE a == clock + d
    <3>1. a \in Int /\ Same(r, a)
      BY <2>7
    <3> HIDE DEF a, r
    <3>2. r \in Int
      BY <2>4 DEF r
    <3>3. Same(r + x, a + x)
      BY <3>1, <3>2, <2>4, SameShift, Zenon
    <3>4. QED
      BY <3>3 DEF a
  <2>9. QED
    BY <2>4, <2>8 DEF first
<1>11. ASSUME NEW k \in 1 .. N + 1
       PROVE  \/ k = b + 1 /\ p[k] = t
              \/ \E j \in 1 .. N : p[k] = timers[j] /\ At(k)' = At(j)
  <2>1. CASE k <= b
    <3>1. k \in 1 .. N
      BY <2>1, <1>1, <1>6
    <3>2. p[k] = timers[k] /\ At(k)' = At(k)
      BY <2>1, <1>9 DEF At
    <3>3. QED
      BY <3>1, <3>2
  <2>2. CASE k = b + 1
    <3>1. ~(k <= b)
      BY <2>2, <1>6
    <3>2. QED
      BY <3>1, <2>2, <1>9
  <2>3. CASE k > b + 1
    <3>1. k - 1 \in 1 .. N /\ ~(k <= b) /\ k # b + 1
      BY <2>3, <1>1, <1>6
    <3>2. p[k] = timers[k - 1] /\ At(k)' = At(k - 1)
      BY <3>1, <1>9 DEF At
    <3>3. QED
      BY <3>1, <3>2
  <2>4. QED
    BY <2>1, <2>2, <2>3, <1>6
<1>12. ASSUME NEW k \in 1 .. N + 1
       PROVE  /\ (At(k)' - earliest'[p[k]]) % Word <= latest'[p[k]] - earliest'[p[k]]
              /\ latest'[p[k]] < clock + 2 * Quarter
  <2>1. CASE k = b + 1 /\ p[k] = t
    <3>1. earliest'[t] = clock + d /\ latest'[t] = clock + d + slack
      BY <1>1, <1>3
    <3>2. PICK x \in 0 .. slack : At(k)' \in Int /\ Same(At(k)', clock + d + x)
      BY <2>1, <1>10
    <3> DEFINE a == clock + d
               y == At(k)'
    <3>3. a \in Int /\ a + x \in Int /\ y \in Int /\ Same(y, a + x) /\ (a + x) - a = x
      BY <3>2, <1>1, <1>2
    <3> HIDE DEF a, y
    <3>4. Same(y - a, (a + x) - a)
      BY <3>3, SameShift, Zenon
    <3>5. x % Word = x
      <4>1. x \in 0 .. Word - 1
        BY <1>2, WordFacts
      <4>2. QED
        BY <4>1, WordFacts, ModSmall
    <3>6. (y - a) % Word = x
      BY <3>3, <3>4, <3>5 DEF Same
    <3>7. latest'[t] - earliest'[t] = slack /\ latest'[t] < clock + 2 * Quarter
      <4>1. (clock + d + slack) - (clock + d) = slack /\ clock + d + slack < clock + 2 * Quarter
        BY <1>1, <1>2, WordFacts
      <4>2. QED
        BY <4>1, <3>1
    <3>8. x <= slack
      BY <1>2
    <3>9. QED
      BY <3>1, <3>6, <3>7, <3>8, <2>1 DEF a, y
  <2>2. ASSUME NEW j \in 1 .. N, p[k] = timers[j], At(k)' = At(j)
        PROVE  /\ (At(k)' - earliest'[p[k]]) % Word <= latest'[p[k]] - earliest'[p[k]]
               /\ latest'[p[k]] < clock + 2 * Quarter
    <3>1. timers[j] # t /\ timers[j] \in Timer
      BY <1>1, <1>5, ElementOfSeq DEF Contains
    <3>2. earliest'[timers[j]] = earliest[timers[j]] /\ latest'[timers[j]] = latest[timers[j]]
      BY <3>1, <1>1, <1>3
    <3>3. /\ (At(j) - earliest[timers[j]]) % Word <= latest[timers[j]] - earliest[timers[j]]
          /\ latest[timers[j]] < clock + 2 * Quarter
      BY DEF Timing, DeltasExact, InReach
    <3>4. QED
      BY <3>2, <3>3, <2>2
  <2>3. QED
    BY <2>1, <2>2, <1>11
<1>13. DeltasExact' /\ InReach'
  <2>1. Len(timers') = N + 1 /\ clock' = clock
    BY <1>3, <1>8 DEF p
  <2>2. QED
    BY <2>1, <1>12, Zenon DEF DeltasExact, InReach, p
<1>14. Asked' /\ InterruptArmed' /\ arming' # "check"
  <2>1. CASE b = 0
    <3>1. PICK x \in 0 .. slack : Same(At(1)', clock + d + x)
      <4>1. 1 \in 1 .. N + 1 /\ 1 = b + 1
        BY <2>1, <1>1
      <4>2. QED
        BY <4>1, <1>10
    <3> DEFINE a == clock + d
    <3>2. a \in Int /\ x \in Nat
      BY <2>1, <1>1, <1>2
    <3>3. Same(At(1)', a + x)
      BY <3>1
    <3>4. Signed(a - clock) = d
      <4>1. a - clock = d /\ d \in Int /\ -(2 * Quarter) <= d /\ d < 2 * Quarter
        BY <1>1, <1>2, WordFacts
      <4>2. QED
        BY <4>1, SignedIs
    <3>5. timerExpire' = a % Word
      <4>1. Same(Count + d, a)
        <5>1. d \in Int
          BY <1>2
        <5>2. QED
          BY <5>1, <1>1, SameShift, Zenon
      <4>2. QED
        BY <4>1, <2>1, <1>3 DEF Same
    <3>6. d >= 0 /\ d + x < 2 * Quarter
      BY <1>2, WordFacts
    <3> HIDE DEF a
    <3>7. SetCompare(pending >= 0, Expiry(a % Word)) /\ UNCHANGED clock
      BY <3>5, <2>1, <1>3
    <3>8. Asked' /\ (arming' = "done" => pending >= 0) /\ arming' # "check"
      <4>1. (pending >= 0) \in BOOLEAN
        OBVIOUS
      <4>2. Signed(a - clock) >= 0 /\ Signed(a - clock) + x < 2 * Quarter
        BY <3>4, <3>6
      <4>3. QED
        BY <4>1, <4>2, <3>2, <3>3, <3>7, <1>0, SettingAsks
    <3>9. QED
      BY <3>8, <1>3 DEF InterruptArmed
  <2>2. CASE b # 0
    <3>1. 1 <= b /\ N # 0 /\ 1 \in 1 .. N + 1
      BY <2>2, <1>1, <1>6
    <3>2. UpTo(1)' = UpTo(1) /\ timers # <<>>
      BY <3>1, <1>1, <1>9, EmptySeq
    <3>3. At(1)' = At(1) /\ UNCHANGED <<clock, compare, pending, arming, add>>
      BY <3>1, <3>2, <2>2, <1>3, <1>9 DEF At, setting
    <3>4. arming' = "done" /\ ToMatch' = ToMatch /\ Left' = Left
      BY <3>3, <1>3 DEF ToMatch, Left, Count
    <3>5. QED
      BY <3>2, <3>3, <3>4, <1>3 DEF Timing, Asked, InterruptArmed
  <2>3. QED
    BY <2>1, <2>2
<1>15. Queueing'
  BY <1>0, SetKeepsQueue DEF Queueing
<1>16. QED
  BY <1>13, <1>14, <1>15 DEF Timing

\* A cancelled timer leaves the others due when they were.
LEMMA CancelKeepsTiming ==
  ASSUME Timing, NEW t \in Timer, CancelTimer(t)
  PROVE  Timing'
<1> DEFINE i == SelectInSeq(timers, LAMBDA s : s = t)
           N == Len(timers)
           e == deltaJiffy'
           p == timers'
<1>0. Queueing
  BY DEF Timing
<1>1. /\ timers \in Seq(Timer) /\ Single(timers) /\ deltaJiffy \in [Timer -> Deltas]
      /\ deltaJiffy \in [Timer -> Nat] /\ N \in Nat
      /\ clock \in Nat /\ lastTimer \in Int
      /\ earliest \in [Timer -> Nat] /\ latest \in [Timer -> Nat]
  BY <1>0, TimingFacts
<1>2. active[t] /\ Contains(timers, t)
  BY <1>0 DEF CancelTimer, Queueing, ActiveIffQueued
<1>3. i \in 1 .. N /\ timers[i] = t
  BY <1>1, <1>2, FoundPlace
<1>4. /\ p = RemoveAt(timers, i) /\ e = Unhooked(i)
      /\ IF p = <<>> THEN UNCHANGED <<timerExpire, setting>>
         ELSE /\ timerExpire' = (lastTimer + e[p[1]]) % Word
              /\ SetCompare(pending >= 0, Expiry(timerExpire'))
      /\ earliest' = [earliest EXCEPT ![t] = 0] /\ latest' = [latest EXCEPT ![t] = 0]
      /\ arming = "done"
      /\ UNCHANGED <<clock, lastTimer, mailbox, compare, pending>>
  BY DEF CancelTimer, Forget
<1> HIDE DEF i, e, p
<1>5. e \in [Timer -> Deltas]
  BY <1>1, <1>3, <1>4, UnhookedDeltas
<1>6. PICK f \in [Timer -> Nat] : Alike(f, e) /\ Inherits(f, deltaJiffy, timers, i, N)
  BY <1>1, <1>3, <1>4, UnhookedDeltas
<1>7. p \in Seq(Timer) /\ Len(p) = N - 1 /\ Skipped(p, timers, i, N)
      /\ TotalsSkipped(p, f, timers, deltaJiffy, i, N)
  <2>1. N = Len(timers)
    OBVIOUS
  <2>2. Len(p) = N - 1
    BY <1>1, <1>3, <1>4, SkipSeq
  <2> HIDE DEF N
  <2>3. p \in Seq(Timer) /\ Skipped(p, timers, i, N) /\ TotalsSkipped(p, f, timers, deltaJiffy, i, N)
    BY <2>1, <1>1, <1>3, <1>4, <1>6, Removed
  <2>4. QED
    BY <2>2, <2>3
<1>8. ASSUME NEW k \in 1 .. N - 1
      PROVE  /\ Total(p, e, k) \in Int /\ Total(p, f, k) \in Int
             /\ Same(Total(p, e, k), Total(p, f, k))
  <2>1. k \in 0 .. Len(p)
    BY <1>7, <1>1
  <2>2. e \in [Timer -> Int] /\ f \in [Timer -> Int]
    BY <1>5, <1>6, WordFacts DEF Deltas
  <2>3. QED
    BY <2>1, <2>2, <1>6, <1>7, AlikeTotals, SameRules
<1>9. ASSUME NEW k \in 1 .. N - 1
      PROVE  \E j \in 1 .. N : /\ j # i /\ p[k] = timers[j]
                               /\ At(k)' \in Int /\ Same(At(k)', At(j))
  <2>0. N \in Nat
    BY <1>1
  <2>1. At(k)' = lastTimer + Total(p, e, k)
    BY <1>4 DEF At, UpTo, e, p
  <2>2. /\ Total(p, f, k) = IF k < i THEN Total(timers, deltaJiffy, k)
                            ELSE Total(timers, deltaJiffy, k + 1)
        /\ p[k] = IF k < i THEN timers[k] ELSE timers[k + 1]
    BY <1>7, Zenon DEF TotalsSkipped, Skipped
  <2>3. PICK j \in 1 .. N : j # i /\ p[k] = timers[j] /\ Total(p, f, k) = UpTo(j)
    <3>1. CASE k < i
      <4>1. k \in 1 .. N /\ k # i
        BY <3>1, <2>0
      <4>2. QED
        BY <4>1, <3>1, <2>2 DEF UpTo
    <3>2. CASE ~(k < i)
      <4>1. k + 1 \in 1 .. N /\ k + 1 # i
        BY <3>2, <1>1, <1>3
      <4>2. QED
        BY <4>1, <3>2, <2>2 DEF UpTo
    <3>3. QED
      BY <3>1, <3>2
  <2> DEFINE u == Total(p, e, k)
             v == Total(p, f, k)
  <2>4. u \in Int /\ v \in Int /\ Same(u, v)
    BY <1>8
  <2>5. At(k)' = lastTimer + u /\ At(j) = lastTimer + v
    BY <2>1, <2>3 DEF At
  <2> HIDE DEF u, v
  <2>6. lastTimer + u = u + lastTimer /\ v + lastTimer = lastTimer + v /\ u + lastTimer \in Int
    BY <2>4, <1>1
  <2>7. Same(u + lastTimer, v + lastTimer)
    BY <2>4, <1>1, SameShift, Zenon
  <2>8. QED
    BY <2>3, <2>5, <2>6, <2>7
<1>10. ASSUME NEW k \in 1 .. N - 1
       PROVE  /\ (At(k)' - earliest'[p[k]]) % Word <= latest'[p[k]] - earliest'[p[k]]
              /\ latest'[p[k]] < clock + 2 * Quarter
  <2>1. PICK j \in 1 .. N : j # i /\ p[k] = timers[j] /\ At(k)' \in Int /\ Same(At(k)', At(j))
    BY <1>9
  <2>2. timers[j] # t /\ timers[j] \in Timer /\ At(j) \in Int
    BY <2>1, <1>0, <1>1, <1>3, TimingFacts DEF Single
  <2>3. /\ earliest'[timers[j]] = earliest[timers[j]] /\ latest'[timers[j]] = latest[timers[j]]
        /\ earliest[timers[j]] \in Nat /\ latest[timers[j]] \in Nat
    BY <2>2, <1>1, <1>4
  <2>4. /\ (At(j) - earliest[timers[j]]) % Word <= latest[timers[j]] - earliest[timers[j]]
        /\ latest[timers[j]] < clock + 2 * Quarter
    BY DEF Timing, DeltasExact, InReach
  <2> DEFINE x == At(k)'
             y == At(j)
             c == earliest[timers[j]]
             l == latest[timers[j]]
  <2>5. x \in Int /\ y \in Int /\ Same(x, y) /\ c \in Nat /\ l \in Nat /\ (y - c) % Word <= l - c
    BY <2>1, <2>2, <2>3, <2>4
  <2> HIDE DEF x, y, c, l
  <2>6. (x - c) % Word <= l - c
    BY <2>5, ExactStays
  <2>7. QED
    BY <2>1, <2>3, <2>4, <2>6 DEF x, c, l
<1>11. DeltasExact' /\ InReach'
  <2>1. Len(timers') = N - 1 /\ clock' = clock
    BY <1>4, <1>7 DEF p
  <2>2. QED
    BY <2>1, <1>10, Zenon DEF DeltasExact, InReach, p
<1>12. Asked' /\ InterruptArmed' /\ arming' # "check"
  <2>1. CASE p = <<>>
    BY <2>1, <1>4 DEF Asked, InterruptArmed, p, setting
  <2>2. CASE p # <<>>
    <3>1. 1 \in 1 .. N - 1 /\ 1 \in 1 .. Len(p)
      <4>1. Len(p) # 0
        BY <2>2, <1>7, EmptySeq
      <4>2. QED
        BY <4>1, <1>1, <1>7
    <3>2. e[p[1]] = Total(p, e, 1)
      <4>1. Total(p, e, 1) = Total(p, e, 1 - 1) + e[p[1]] /\ Total(p, e, 0) = 0
        BY <3>1, <1>7, TotalStep
      <4>2. e[p[1]] \in Int
        <5>1. p[1] \in Timer
          BY <3>1, <1>7, ElementOfSeq
        <5>2. QED
          BY <5>1, <1>5, WordFacts DEF Deltas
      <4>3. QED
        BY <4>1, <4>2
    <3>3. PICK a \in Int : a = lastTimer + e[p[1]]
      BY <3>1, <3>2, <1>1, <1>8
    <3>4. At(1)' = a
      BY <3>2, <3>3, <1>4 DEF At, UpTo, e, p
    <3>5. SetCompare(pending >= 0, Expiry(a % Word)) /\ UNCHANGED clock
      BY <3>3, <2>2, <1>4
    <3>6. Asked' /\ (arming' = "done" => pending >= 0) /\ arming' # "check"
      <4>1. (pending >= 0) \in BOOLEAN /\ 0 \in Nat /\ a + 0 = a
        OBVIOUS
      <4>2. Same(At(1)', a + 0)
        BY <4>1, <3>4 DEF Same
      <4>3. QED
        BY <4>1, <4>2, <3>5, <1>0, SettingAsks
    <3>7. QED
      BY <3>6, <1>4 DEF InterruptArmed
  <2>3. QED
    BY <2>1, <2>2
<1>13. Queueing'
  BY <1>0, CancelKeepsQueue DEF Queueing
<1>14. QED
  BY <1>11, <1>12, <1>13 DEF Timing

\* Timers that come and go elsewhere leave the queue alone.
LEMMA OthersKeepTiming ==
  ASSUME Timing, Queueing', NEW t, ~Contains(timers, t), arming = "done",
         earliest' = [earliest EXCEPT ![t] = earliest'[t]],
         latest' = [latest EXCEPT ![t] = latest'[t]],
         UNCHANGED <<clock, lastTimer, timers, deltaJiffy, compare, pending, setting>>
  PROVE  Timing'
<1>0. Queueing
  BY DEF Timing
<1>1. \A k \in 1 .. Len(timers) : timers[k] # t /\ timers[k] \in Timer
  BY <1>0, TimingFacts DEF Contains
<1>2. earliest \in [Timer -> Nat] /\ latest \in [Timer -> Nat]
  BY <1>0, TimingFacts
<1>3. \A k \in 1 .. Len(timers) :
        earliest'[timers[k]] = earliest[timers[k]] /\ latest'[timers[k]] = latest[timers[k]]
  BY <1>1, <1>2
<1>4. \A k : At(k)' = At(k)
  BY DEF At, UpTo
<1>5. DeltasExact'
  <2>1. \A k \in 1 .. Len(timers) :
          (At(k)' - earliest'[timers[k]]) % Word <= latest'[timers[k]] - earliest'[timers[k]]
    BY <1>3, <1>4 DEF Timing, DeltasExact
  <2>2. QED
    BY <2>1 DEF DeltasExact
<1>6. InReach'
  BY <1>3 DEF Timing, InReach
<1>7. arming' = "done" /\ ToMatch' = ToMatch /\ Left' = Left /\ add' = add
  BY <1>4 DEF setting, ToMatch, Left, Count
<1>8. Asked' /\ InterruptArmed' /\ arming' # "check"
  BY <1>7 DEF Timing, Asked, InterruptArmed
<1>9. QED
  BY <1>5, <1>6, <1>8 DEF Timing

\* A timer that the interrupt finds due is one whose delay has gone by, though the
\* count may have wrapped since.
LEMMA DueIsPast ==
  ASSUME Timing, NEW k \in 1 .. Len(timers), Due(k)
  PROVE  clock > earliest[timers[k]]
<1> DEFINE c == earliest[timers[k]]
           l == latest[timers[k]]
           a == At(k)
<1>1. /\ clock \in Nat /\ clock \in Int /\ Now \in Int /\ Same(Now, clock) /\ a \in Int
      /\ c \in Nat /\ c \in Int /\ l \in Nat
  <2>1. Queueing
    BY DEF Timing
  <2>2. /\ timers[k] \in Timer /\ earliest \in [Timer -> Nat] /\ latest \in [Timer -> Nat]
        /\ clock \in Nat /\ clock \in Int /\ Now \in Int /\ Same(Now, clock) /\ a \in Int
    BY <2>1, TimingFacts
  <2>3. QED
    BY <2>2
<1>2. (a - c) % Word <= l - c /\ l < clock + 2 * Quarter
  BY DEF Timing, DeltasExact, InReach
<1>3. Signed(Now - a) > 0
  BY DEF Due
<1>4. SUFFICES ASSUME clock <= c PROVE FALSE
  BY <1>1
<1> HIDE DEF c, l, a
<1> DEFINE x == (a - c) % Word
           y == clock - (c + x)
<1>5. x \in Nat /\ x \in Int /\ Same(x, a - c)
  <2> DEFINE u == a - c
  <2>1. u \in Int
    BY <1>1
  <2> HIDE DEF u
  <2>2. u % Word \in 0 .. Word - 1 /\ Same(u % Word, u)
    BY <2>1, SameRest, SameLess
  <2>3. QED
    BY <2>2, WordFacts DEF u
<1>6. x <= l - c
  BY <1>2
<1> HIDE DEF x
<1>7. y \in Int /\ -(2 * Quarter) <= y /\ y <= 0 /\ y < 2 * Quarter /\ c + x \in Int
  BY <1>1, <1>2, <1>4, <1>5, <1>6, WordFacts
<1>8. Same(c + x, a)
  <2> DEFINE u == a - c
  <2>1. u \in Int /\ u + c = a /\ x + c = c + x
    BY <1>1, <1>5
  <2> HIDE DEF u
  <2>2. Same(x + c, u + c)
    BY <2>1, <1>1, <1>5, SameShift, Zenon DEF u
  <2>3. QED
    BY <2>1, <2>2
<1>9. Same(Now - a, y) /\ Now - a \in Int
  <2>1. Same(a, c + x) /\ Now - a \in Int
    BY <1>1, <1>8 DEF Same
  <2>2. Same(Now - a, clock - (c + x))
    BY <2>1, <1>1, <1>7, SameBoth, Zenon
  <2>3. QED
    BY <2>1, <2>2
<1> HIDE DEF y
<1>10. Signed(Now - a) = y
  BY <1>7, <1>9, SignedIs DEF Same
<1>11. QED
  BY <1>3, <1>7, <1>10

\* The interrupt leaves the timers it does not complete due when they were.
LEMMA IsrKeepsTiming ==
  ASSUME Timing, TimerISR
  PROVE  Timing'
<1> DEFINE N == Len(timers)
           n == Done
           m == Now - lastTimer
           e == deltaJiffy'
           p == timers'
           g == SubSeq(timers, 1, Done)
           z == At(Done + 1) - Now
<1>0. Queueing
  BY DEF Timing
<1>1. /\ timers \in Seq(Timer) /\ Single(timers) /\ deltaJiffy \in [Timer -> Deltas]
      /\ deltaJiffy \in [Timer -> Nat] /\ N \in Nat
      /\ clock \in Int /\ Count \in Int /\ Same(Count, clock) /\ lastTimer \in Int
      /\ Now \in Int /\ Same(Now, clock) /\ m \in Int
      /\ earliest \in [Timer -> Nat] /\ latest \in [Timer -> Nat]
  <2>1. Now \in Int /\ lastTimer \in Int
    BY <1>0, TimingFacts
  <2>2. m \in Int
    BY <2>1
  <2>3. QED
    BY <2>1, <2>2, <1>0, TimingFacts
<1>2. /\ p = SubSeq(timers, Done + 1, Len(timers))
      /\ lastTimer' = Count
      /\ timerExpire' = (IF p = <<>> THEN Now + Word \div 4 ELSE At(Done + 1)) % Word
      /\ e = [t \in Timer |-> IF Contains(g, t) THEN 0
                              ELSE IF p # <<>> /\ t = p[1] THEN Wide(z) ELSE deltaJiffy[t]]
      /\ SetCompare(FALSE, Expiry(timerExpire'))
      /\ UNCHANGED <<clock, earliest, latest>>
  BY DEF TimerISR
<1>3. n \in 0 .. N
  BY <1>1, DonePlace
<1> HIDE DEF e, p, m
<1>4. n # N => z = UpTo(n + 1) - m /\ z \in Int /\ n + 1 \in 1 .. N
  <2>1. SUFFICES ASSUME n # N PROVE z = UpTo(n + 1) - m /\ z \in Int /\ n + 1 \in 1 .. N
    OBVIOUS
  <2>2. n + 1 \in 1 .. N
    <3>1. n \in 0 .. N /\ n # N /\ N \in Nat
      BY <2>1, <1>1, <1>3
    <3> HIDE DEF n, N
    <3>2. QED
      BY <3>1
  <2> DEFINE u == UpTo(n + 1)
  <2>3. u \in Nat
    BY <2>2, <1>0, TimingFacts
  <2>4. z = (lastTimer + u) - Now /\ m = Now - lastTimer
    BY DEF At, m
  <2> HIDE DEF u, z
  <2>5. z = u - m /\ z \in Int
    BY <2>3, <2>4, <1>1
  <2>6. QED
    BY <2>2, <2>5 DEF u
<1>5. PICK i \in Int : n # N => i = z
  BY <1>4
<1>6. Completes(e, g, p, i) /\ Takes(g, timers, n) /\ Keeps(p, timers, n)
  <2>1. Takes(g, timers, n) /\ Keeps(p, timers, n)
    BY <1>2 DEF Takes, Keeps
  <2>2. CASE n = N
    <3>1. p = <<>>
      <4>1. p = SubSeq(timers, N + 1, N) /\ N + 1 > N
        BY <2>2, <1>1, <1>2
      <4>2. Len(p) = 0 /\ p \in Seq(Timer)
        <5>1. Shorter(p, timers, n) /\ p \in Seq(Timer)
          BY <2>1, <1>1, <1>3, KeptShorter, BackPlaces DEF Keeps
        <5>2. QED
          BY <5>1, <2>2, <1>1 DEF Shorter
      <4>3. QED
        BY <4>2, EmptySeq
    <3>2. QED
      BY <3>1, <2>1, <1>2 DEF Completes
  <2>3. CASE n # N
    BY <2>1, <2>3, <1>2, <1>5 DEF Completes
  <2>4. QED
    BY <2>2, <2>3
<1>7. /\ e \in [Timer -> Deltas]
      /\ \E f \in [Timer -> Int] :
           Alike(f, e) /\ Rebased(f, deltaJiffy, timers, Along(timers, deltaJiffy), n, m, N)
  <2>1. n # N => i = UpTo(n + 1) - m
    BY <1>4, <1>5
  <2>2. m \in Int /\ n \in 0 .. Len(timers)
    BY <1>1, <1>3
  <2> HIDE DEF g, n
  <2>3. QED
    BY <2>1, <2>2, <1>1, <1>6, IsrDeltas
<1>8. PICK f \in [Timer -> Int] :
        Alike(f, e) /\ Rebased(f, deltaJiffy, timers, Along(timers, deltaJiffy), n, m, N)
  BY <1>7
<1>9. p \in Seq(Timer) /\ Len(p) = N - n /\ Shifted(p, timers, n, N)
      /\ TotalsShifted(p, f, timers, deltaJiffy, n, m, N)
  <2>1. N = Len(timers) /\ Keeps(p, timers, n) /\ m \in Int
    BY <1>1, <1>6
  <2>2. Len(p) = N - n
    BY <2>1, <1>1, <1>3, KeptShorter DEF Shorter
  <2> HIDE DEF N, n
  <2>3. p \in Seq(Timer) /\ Shifted(p, timers, n, N) /\ TotalsShifted(p, f, timers, deltaJiffy, n, m, N)
    BY <2>1, <1>1, <1>3, <1>8, Cut
  <2>4. QED
    BY <2>2, <2>3, Zenon
<1> HIDE DEF g, z
<1>10. ASSUME NEW k \in 1 .. N - n
       PROVE  /\ n + k \in 1 .. N /\ n # N /\ p[k] = timers[n + k]
              /\ At(k)' \in Int /\ Same(At(k)', At(n + k))
  <2>1. n + k \in 1 .. N /\ n # N /\ k \in 0 .. N - n
    <3>1. n \in 0 .. N /\ N \in Nat
      BY <1>1, <1>3
    <3> HIDE DEF n, N
    <3>2. QED
      BY <3>1
  <2>2. At(k)' = Count + Total(p, e, k)
    BY <1>2 DEF At, UpTo, e, p
  <2>3. Total(p, f, k) = UpTo(n + k) - m /\ p[k] = timers[n + k]
    BY <1>9, Zenon DEF TotalsShifted, Shifted, UpTo
  <2> DEFINE u == Total(p, e, k)
             v == Total(p, f, k)
             w == UpTo(n + k)
             a == At(k)'
  <2>4. u \in Int /\ v \in Int /\ Same(v, u)
    <3>1. k \in 0 .. Len(p)
      BY <2>1, <1>9
    <3>2. e \in [Timer -> Int]
      BY <1>7, WordFacts DEF Deltas
    <3>3. QED
      BY <3>1, <3>2, <1>8, <1>9, AlikeTotals
  <2>5. w \in Nat /\ v = w - m /\ a = Count + u /\ At(n + k) = lastTimer + w
    BY <2>1, <2>2, <2>3, <1>0, TimingFacts DEF At
  <2> HIDE DEF u, v, w, a
  <2>6. Same(Count + u, Now + v)
    <3>1. Same(Count, Now) /\ Same(u, v)
      BY <2>4, <1>1 DEF Same
    <3>2. QED
      BY <3>1, <2>4, <1>1, SameBoth, Zenon
  <2>7. Now + v = lastTimer + w /\ a \in Int
    BY <2>4, <2>5, <1>1 DEF m
  <2>8. QED
    BY <2>1, <2>3, <2>5, <2>6, <2>7 DEF a
<1>11. ASSUME NEW k \in 1 .. N - n
       PROVE  /\ (At(k)' - earliest'[p[k]]) % Word <= latest'[p[k]] - earliest'[p[k]]
              /\ latest'[p[k]] < clock + 2 * Quarter
  <2>1. PICK j \in 1 .. N : p[k] = timers[j] /\ At(k)' \in Int /\ Same(At(k)', At(j))
    BY <1>10
  <2>2. /\ timers[j] \in Timer /\ At(j) \in Int
        /\ earliest[timers[j]] \in Nat /\ latest[timers[j]] \in Nat
    <3>1. timers[j] \in Timer /\ At(j) \in Int
      BY <1>0, TimingFacts
    <3>2. QED
      BY <3>1, <1>1
  <2>3. /\ (At(j) - earliest[timers[j]]) % Word <= latest[timers[j]] - earliest[timers[j]]
        /\ latest[timers[j]] < clock + 2 * Quarter
    BY DEF Timing, DeltasExact, InReach
  <2> DEFINE x == At(k)'
             y == At(j)
             c == earliest[timers[j]]
             l == latest[timers[j]]
  <2>4. x \in Int /\ y \in Int /\ Same(x, y) /\ c \in Nat /\ l \in Nat /\ (y - c) % Word <= l - c
    BY <2>1, <2>2, <2>3
  <2> HIDE DEF x, y, c, l
  <2>5. (x - c) % Word <= l - c
    BY <2>4, ExactStays
  <2>6. QED
    BY <2>1, <2>3, <2>5, <1>2 DEF x, c, l
<1>12. DeltasExact' /\ InReach'
  <2>1. Len(timers') = N - n /\ clock' = clock
    BY <1>2, <1>9, Zenon DEF p
  <2>2. QED
    BY <2>1, <1>11, Zenon DEF DeltasExact, InReach, p
<1>13. Asked' /\ arming' # "done" /\ arming' # "check"
  <2>1. arming' = "write"
    BY <1>2 DEF SetCompare
  <2>2. PICK a \in Int : a = IF p = <<>> THEN Now + Word \div 4 ELSE At(Done + 1)
    <3>1. CASE p = <<>>
      <4>1. Now + Word \div 4 \in Int
        BY <1>1, WordFacts DEF Quarter
      <4>2. QED
        BY <4>1, <3>1
    <3>2. CASE p # <<>>
      <4>1. n # N
        <5>1. Len(p) # 0 /\ Len(p) = N - n /\ N \in Nat
          BY <3>2, <1>1, <1>9, EmptySeq
        <5> HIDE DEF n, N
        <5>2. QED
          BY <5>1
      <4>2. At(Done + 1) \in Int
        BY <4>1, <1>0, <1>4, TimingFacts
      <4>3. QED
        BY <4>2, <3>2
    <3>3. QED
      BY <3>1, <3>2
  <2>3. timers' # <<>> => Same(At(1)', a + 0)
    <3>1. SUFFICES ASSUME p # <<>> PROVE Same(At(1)', a)
      BY <2>2 DEF p
    <3>2. 1 \in 1 .. N - n
      <4>1. Len(p) # 0 /\ Len(p) \in Nat
        BY <3>1, <1>9, EmptySeq, LenProperties
      <4>2. n \in 0 .. N /\ N \in Nat /\ Len(p) = N - n
        BY <1>1, <1>3, <1>9
      <4> HIDE DEF n, N
      <4>3. QED
        BY <4>1, <4>2
    <3>3. QED
      BY <3>1, <3>2, <2>2, <1>10
  <2>4. SetCompare(FALSE, Expiry(a % Word)) /\ UNCHANGED clock
    BY <2>2, <1>2
  <2>5. Asked'
    <3>1. 0 \in Nat /\ FALSE \in BOOLEAN
      OBVIOUS
    <3>2. QED
      BY <3>1, <2>3, <2>4, <1>0, SettingAsks
  <2>6. QED
    BY <2>1, <2>5
<1>14. Queueing'
  BY <1>0, IsrKeepsQueue DEF Queueing
<1>15. QED
  BY <1>12, <1>13, <1>14 DEF Timing, InterruptArmed

\* Timing holds at the start.
LEMMA InitTiming ==
  ASSUME Init
  PROVE  Timing
<1>1. timers = <<>> /\ Len(<<>>) = 0 /\ arming = "done"
  BY DEF Init
<1>2. DeltasExact /\ InReach /\ Asked /\ InterruptArmed
  BY <1>1 DEF DeltasExact, InReach, Asked, InterruptArmed
<1>3. QED
  BY <1>1, <1>2, InitQueue DEF Timing

\* Timing is inductive.
LEMMA StepKeepsTiming ==
  ASSUME Modest, Timing, [Next]_vars
  PROVE  Timing'
<1>0. Queueing /\ Queueing' /\ ActiveIffQueued
  BY StepKeepsQueue DEF Timing, Queueing
<1>1. CASE Tick
  BY <1>1, TickKeepsTiming
<1>2. CASE WriteCompare
  BY <1>2, WriteKeepsTiming
<1>3. CASE CheckCompare
  BY <1>3, CheckKeepsTiming
<1>4. ASSUME NEW t \in Timer, NEW d \in Delays, NEW tol \in Tolerances,
             Idle(t), SetSoftTimer(t, d, tol)
      PROVE  Timing'
  BY <1>4, SetKeepsTiming
<1>5. ASSUME NEW t \in Timer, Idle(t), SetImmediate(t) PROVE Timing'
  <2>1. ~Contains(timers, t) /\ arming = "done"
    BY <1>0, <1>5 DEF SetImmediate, Idle, ActiveIffQueued
  <2>2. /\ earliest' = [earliest EXCEPT ![t] = clock] /\ latest' = [latest EXCEPT ![t] = clock]
        /\ UNCHANGED <<clock, lastTimer, timers, deltaJiffy, compare, pending, setting>>
    BY <1>5 DEF SetImmediate
  <2>3. earliest \in [Timer -> Nat] /\ latest \in [Timer -> Nat]
    BY <1>0, TimingFacts
  <2>4. earliest'[t] = clock /\ latest'[t] = clock
    BY <2>2, <2>3
  <2>5. QED
    BY <2>1, <2>2, <2>4, <1>0, OthersKeepTiming
<1>6. ASSUME NEW t \in Timer, CancelTimer(t) PROVE Timing'
  BY <1>6, CancelKeepsTiming
<1>7. CASE TimerISR
  BY <1>7, IsrKeepsTiming
<1>8. CASE TimerTask
  <2> DEFINE t == Head(mailbox)
  <2>1. mailbox \in Seq(Timer) /\ mailbox # <<>> /\ arming = "done"
    BY <1>0, <1>8, QueueFacts DEF TimerTask
  <2>2. t \in Timer /\ Contains(mailbox, t)
    <3>1. Len(mailbox) \in Nat /\ Len(mailbox) # 0 /\ t = mailbox[1]
      BY <2>1, EmptySeq, LenProperties, HeadTailProperties
    <3>2. 1 \in 1 .. Len(mailbox)
      BY <3>1
    <3>3. QED
      BY <3>1, <3>2, <2>1, ElementOfSeq DEF Contains
  <2>3. ~Contains(timers, t)
    BY <2>2, <1>0 DEF ActiveIffQueued
  <2>4. /\ earliest' = [earliest EXCEPT ![t] = 0] /\ latest' = [latest EXCEPT ![t] = 0]
        /\ UNCHANGED <<clock, lastTimer, timers, deltaJiffy, compare, pending, setting>>
    BY <1>8 DEF TimerTask, Forget
  <2>5. earliest \in [Timer -> Nat] /\ latest \in [Timer -> Nat]
    BY <1>0, TimingFacts
  <2> HIDE DEF t
  <2>6. earliest'[t] = 0 /\ latest'[t] = 0
    BY <2>2, <2>4, <2>5
  <2>7. QED
    BY <2>1, <2>3, <2>4, <2>6, <1>0, OthersKeepTiming
<1>9. CASE UNCHANGED vars
  <2>1. /\ UNCHANGED <<DeltasExact, InReach, Asked, ToMatch, Left>>
        /\ UNCHANGED <<timers, compare, pending, arming, abstime, add>>
    BY <1>9 DEF vars, At, UpTo, DeltasExact, InReach, Asked, Ahead, ToMatch, Left, Count
  <2>2. QED
    BY <2>1, <1>0 DEF Timing, InterruptArmed
<1>10. QED
  BY <1>1, <1>2, <1>3, <1>4, <1>5, <1>6, <1>7, <1>8, <1>9, Zenon DEF Next

\* Only the interrupt hands an active timer to the timer task.
LEMMA HandedOverWhenDue ==
  ASSUME Timing, [Next]_vars, NEW t \in Timer, active[t], Contains(mailbox', t)
  PROVE  clock > earliest[t]
<1>0. ActiveIffQueued
  BY DEF Timing, Queueing
<1>1. ~Contains(mailbox, t)
  BY <1>0 DEF ActiveIffQueued
<1>2. mailbox \in Seq(Timer) /\ Single(mailbox) /\ timers \in Seq(Timer)
  BY <1>0, QueueFacts
<1>3. CASE TimerISR
  <2> DEFINE g == SubSeq(timers, 1, Done)
  <2>1. mailbox' = mailbox \o g
    BY <1>3 DEF TimerISR, Completed
  <2>2. /\ Done \in 0 .. Len(timers) /\ Len(timers) \in Nat /\ \A j \in 1 .. Done : Due(j)
        /\ g \in Seq(Timer) /\ Len(g) = Done /\ \A k \in 1 .. Done : g[k] = timers[k]
    BY <1>2, DonePlace, FrontPlaces, LenProperties
  <2>3. \E k \in 1 .. Done : g[k] = t
    <3> DEFINE M == Len(mailbox)
               n == Done
    <3>1. /\ M \in Nat /\ n \in Nat
          /\ Len(mailbox') = M + n
          /\ \A k \in 1 .. M + n : mailbox'[k] = IF k <= M THEN mailbox[k] ELSE g[k - M]
      BY <1>2, <2>1, <2>2, ConcatPlaces, LenProperties
    <3>2. PICK k \in 1 .. M + n : mailbox'[k] = t
      BY <3>1 DEF Contains
    <3>3. \A j \in 1 .. M : mailbox[j] # t
      BY <1>1 DEF Contains
    <3> HIDE DEF M, n, g
    <3>4. k - M \in 1 .. n /\ g[k - M] = t
      BY <3>1, <3>2, <3>3
    <3>5. QED
      BY <3>4 DEF n
  <2>4. PICK k \in 1 .. Done : g[k] = t
    BY <2>3
  <2>5. k \in 1 .. Len(timers) /\ timers[k] = t /\ Due(k)
    BY <2>2, <2>4
  <2>6. QED
    BY <2>5, DueIsPast
<1>4. CASE TimerTask
  <2>1. mailbox # <<>> /\ mailbox' = Tail(mailbox)
    BY <1>4 DEF TimerTask
  <2>2. Contains(mailbox, t)
    BY <2>1, <1>2, TailMembers
  <2>3. QED
    BY <2>2, <1>1
<1>5. ASSUME NEW s \in Timer, Idle(s), SetImmediate(s) PROVE FALSE
  <2>1. ~active[s] /\ ~Contains(mailbox, s) /\ mailbox' = Append(mailbox, s)
    BY <1>5 DEF SetImmediate, Idle
  <2>2. Contains(mailbox, t) \/ t = s
    BY <2>1, <1>2, AppendedMembers
  <2>3. QED
    BY <2>1, <2>2, <1>1
<1>6. CASE mailbox' = mailbox
  BY <1>1, <1>6
<1>7. QED
  BY <1>3, <1>4, <1>5, <1>6, Zenon
     DEF Next, Tick, WriteCompare, CheckCompare, SetSoftTimer, CancelTimer, vars

\* The invariant behind the three theorems below.
THEOREM KeepsTiming ==
  ASSUME Modest
  PROVE  Spec => []Timing
<1>1. Init => Timing
  BY InitTiming
<1>2. Timing /\ [Next]_vars => Timing'
  BY StepKeepsTiming
<1>3. QED
  BY <1>1, <1>2, PTL DEF Spec

\* DeltasExact: whatever is inserted, cancelled, merged and rebased on the queue, and
\* however late the interrupt is, the deltas keep every timer at its own count, held
\* back by less than its tolerance.
THEOREM ExactDeltas ==
  ASSUME Modest
  PROVE  Spec => []DeltasExact
<1>1. Timing => DeltasExact
  BY DEF Timing
<1>2. QED
  BY <1>1, KeepsTiming, PTL

\* InterruptArmed: once TMR_set is done the interrupt for the first timer is pending, or
\* the compare register will match by the time that timer is due, or was put off to.
THEOREM FirstArmed ==
  ASSUME Modest
  PROVE  Spec => []InterruptArmed
<1>1. Timing => InterruptArmed
  BY DEF Timing
<1>2. QED
  BY <1>1, KeepsTiming, PTL

\* NeverEarly: a timer that can still be cancelled reaches the timer task only once its
\* delay has gone by.
THEOREM NeverTooEarly ==
  ASSUME Modest
  PROVE  Spec => NeverEarly
<1>1. Timing /\ [Next]_vars
        => [\A t \in Timer : active[t] /\ Contains(mailbox', t) => clock > earliest[t]]_vars
  BY HandedOverWhenDue
<1>2. QED
  BY <1>1, KeepsTiming, PTL DEF Spec, NeverEarly
=============================================================================
