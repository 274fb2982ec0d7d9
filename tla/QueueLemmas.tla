---------------------------- MODULE QueueLemmas ----------------------------
(* What the operations on the links of src/dqueues/dq.c do to a table of       *)
(* queues of any size: which items are on which queue afterwards, and that no  *)
(* item comes to be linked twice.  Then remainders, by which counts and the    *)
(* places of a ring are found, and what is between two places of a ring.       *)
EXTENDS Integers, Queues, SequenceTheorems, WellFoundedInduction, TLAPS

\* The least of a nonempty set of numbers is one of them and below the others.
LEMMA MinProperties ==
  ASSUME NEW I \in SUBSET Nat, I # {}
  PROVE  Min(I) \in I /\ \A j \in I : Min(I) <= j
<1> DEFINE Less == {p \in Nat \X Nat : p[1] < p[2]}
<1>1. IsWellFoundedOn(Less, Nat)
  BY NatLessThanWellFounded DEF OpToRel
<1>2. PICK i \in I : \A j \in I : <<j, i>> \notin Less
  <2> HIDE DEF Less
  <2> QED BY <1>1, WFMin
<1>3. \A j \in I : i <= j
  <2>1. SUFFICES ASSUME NEW j \in I, j < i PROVE FALSE
    OBVIOUS
  <2>2. <<j, i>> \in Nat \X Nat /\ <<j, i>>[1] < <<j, i>>[2]
    BY <2>1
  <2>3. <<j, i>> \in Less
    BY <2>2, Zenon
  <2>4. QED
    BY <2>3, <1>2
<1>4. QED
  BY <1>3 DEF Min

\* Taking an item that is there out of a sequence (DQ_remove) closes the gap at
\* its place and leaves the order of the others alone.
LEMMA RemoveFirstProperties ==
  ASSUME NEW S, NEW s \in Seq(S), NEW e, Contains(s, e)
  PROVE  \E i \in 1 .. Len(s) :
           /\ s[i] = e
           /\ RemoveFirst(s, e) \in Seq(S)
           /\ Len(RemoveFirst(s, e)) = Len(s) - 1
           /\ \A j \in 1 .. Len(s) - 1 :
                RemoveFirst(s, e)[j] = IF j < i THEN s[j] ELSE s[j + 1]
<1> DEFINE I == {i \in 1 .. Len(s) : s[i] = e}
           i == Min(I)
<1>1. I # {} /\ I \in SUBSET Nat
  BY DEF Contains
<1>2. i \in I
  BY <1>1, MinProperties
<1>3. SelectInSeq(s, LAMBDA v : v = e) = i
  BY <1>1 DEF SelectInSeq
<1>4. RemoveFirst(s, e) = SubSeq(s, 1, i - 1) \o SubSeq(s, i + 1, Len(s))
  BY <1>2, <1>3 DEF RemoveFirst, RemoveAt
<1> DEFINE a == SubSeq(s, 1, i - 1)
           b == SubSeq(s, i + 1, Len(s))
<1>5. i \in 1 .. Len(s) /\ s[i] = e
  BY <1>2
<1> HIDE DEF i
<1>6. /\ a \in Seq(S) /\ Len(a) = i - 1
      /\ \A j \in 1 .. i - 1 : a[j] = s[j]
  BY <1>5, SubSeqProperties, ElementOfSeq
<1>7. /\ b \in Seq(S) /\ Len(b) = Len(s) - i
      /\ \A j \in 1 .. Len(s) - i : b[j] = s[i + j]
  BY <1>5, SubSeqProperties, ElementOfSeq
<1>8. RemoveFirst(s, e) = a \o b
  BY <1>4
<1> HIDE DEF a, b
<1>9. \A j \in 1 .. Len(s) - 1 : (a \o b)[j] = IF j < i THEN s[j] ELSE s[j + 1]
  <2> TAKE j \in 1 .. Len(s) - 1
  <2>1. CASE j < i
    BY <2>1, <1>5, <1>6, <1>7, ConcatProperties
  <2>2. CASE j >= i
    <3>1. j - (i - 1) \in 1 .. Len(s) - i
      BY <2>2, <1>5
    <3>2. (a \o b)[j] = b[j - (i - 1)]
      BY <2>2, <1>5, <1>6, <1>7, ConcatProperties
    <3>3. b[j - (i - 1)] = s[i + (j - (i - 1))]
      BY <3>1, <1>7
    <3>4. i + (j - (i - 1)) = j + 1 /\ ~(j < i)
      BY <2>2, <1>5
    <3>5. QED
      BY <3>2, <3>3, <3>4
  <2>3. j < i \/ j >= i
    BY <1>5
  <2>4. QED
    BY <2>1, <2>2, <2>3, Zenon
<1>10. QED
  BY SMTT(30), <1>5, <1>6, <1>7, <1>8, <1>9, ConcatProperties

-----------------------------------------------------------------------------
(* Tables of queues.  The lemmas are stated with these predicates so that a   *)
(* proof can apply one without unfolding its quantifiers.                     *)

Table(f, Q, S) == f \in [Q -> Seq(S)] /\ Once(f, Q)

\* x is on none of the queues.
Off(f, Q, x) == \A q \in Q : ~Contains(f[q], x)

\* g is f with x added to queue p; g is f with x gone.
Adds(g, f, Q, p, x) ==
  \A q \in Q : \A y : Contains(g[q], y) <=> (Contains(f[q], y) \/ (q = p /\ y = x))
Drops(g, f, Q, x) ==
  \A q \in Q : \A y : Contains(g[q], y) <=> (Contains(f[q], y) /\ y # x)

\* DQ_remove takes an item off whichever queue it is on and moves no other.
LEMMA UnlinkedElements ==
  ASSUME NEW Q, NEW S, NEW f \in [Q -> Seq(S)], Once(f, Q), NEW x
  PROVE  /\ Unlinked(f, x) \in [Q -> Seq(S)]
         /\ Once(Unlinked(f, x), Q)
         /\ \A q \in Q : \A y : Contains(Unlinked(f, x)[q], y) <=> Contains(f[q], y) /\ y # x
<1> DEFINE g == Unlinked(f, x)
<1>0. g = [q \in Q |-> RemoveFirst(f[q], x)]
  BY DEF Unlinked
<1> HIDE DEF g
<1> USE <1>0
<1>1. ASSUME NEW q \in Q, ~Contains(f[q], x)
      PROVE  g[q] = f[q]
  BY <1>1 DEF RemoveFirst, Contains
<1>2. ASSUME NEW q \in Q, Contains(f[q], x)
      PROVE  \E i \in 1 .. Len(f[q]) :
               /\ f[q][i] = x
               /\ g[q] \in Seq(S)
               /\ Len(g[q]) = Len(f[q]) - 1
               /\ \A j \in 1 .. Len(f[q]) - 1 :
                    g[q][j] = IF j < i THEN f[q][j] ELSE f[q][j + 1]
  <2>1. g[q] = RemoveFirst(f[q], x) /\ f[q] \in Seq(S)
    OBVIOUS
  <2>2. \E i \in 1 .. Len(f[q]) :
           /\ f[q][i] = x
           /\ RemoveFirst(f[q], x) \in Seq(S)
           /\ Len(RemoveFirst(f[q], x)) = Len(f[q]) - 1
           /\ \A j \in 1 .. Len(f[q]) - 1 :
                RemoveFirst(f[q], x)[j] = IF j < i THEN f[q][j] ELSE f[q][j + 1]
    BY <1>2, <2>1, RemoveFirstProperties, SMTT(60)
  <2>3. QED
    BY <2>1, <2>2, Zenon
<1>3. g \in [Q -> Seq(S)]
  BY <1>1, <1>2
<1>4. ASSUME NEW q \in Q, NEW j \in 1 .. Len(g[q])
      PROVE  \E k \in 1 .. Len(f[q]) :
               /\ g[q][j] = f[q][k] /\ f[q][k] # x
               /\ k = j \/ k = j + 1
               /\ \A i \in 1 .. Len(f[q]) : f[q][i] = x => (k = j <=> j < i)
  <2>1. CASE ~Contains(f[q], x)
    BY <2>1, <1>1 DEF Contains
  <2>2. CASE Contains(f[q], x)
    <3>1. PICK i \in 1 .. Len(f[q]) :
               /\ f[q][i] = x
               /\ Len(g[q]) = Len(f[q]) - 1
               /\ \A n \in 1 .. Len(f[q]) - 1 :
                    g[q][n] = IF n < i THEN f[q][n] ELSE f[q][n + 1]
      BY <2>2, <1>2
    <3>2. \A n \in 1 .. Len(f[q]) : f[q][n] = x => n = i
      BY <3>1 DEF Once
    <3>3. CASE j < i
      BY <3>1, <3>2, <3>3
    <3>4. CASE ~(j < i)
      <4>1. j + 1 \in 1 .. Len(f[q]) /\ g[q][j] = f[q][j + 1]
        BY <3>1, <3>4
      <4>2. f[q][j + 1] # x
        BY <3>2, <3>4, <4>1
      <4>3. \A n \in 1 .. Len(f[q]) : f[q][n] = x => (j + 1 = j <=> j < n)
        BY <3>2, <3>4
      <4>4. QED
        BY <4>1, <4>2, <4>3
    <3>5. QED
      BY <3>3, <3>4
  <2>3. QED
    BY <2>1, <2>2
<1>5. Once(g, Q)
  <2>1. SUFFICES ASSUME NEW q \in Q, NEW r \in Q, NEW i \in 1 .. Len(g[q]),
                        NEW j \in 1 .. Len(g[r]), g[q][i] = g[r][j]
                 PROVE  q = r /\ i = j
    BY DEF Once
  <2>2. PICK m \in 1 .. Len(f[q]) :
               /\ g[q][i] = f[q][m] /\ f[q][m] # x
               /\ m = i \/ m = i + 1
               /\ \A n \in 1 .. Len(f[q]) : f[q][n] = x => (m = i <=> i < n)
    BY <1>4
  <2>3. PICK k \in 1 .. Len(f[r]) :
               /\ g[r][j] = f[r][k] /\ f[r][k] # x
               /\ k = j \/ k = j + 1
               /\ \A n \in 1 .. Len(f[r]) : f[r][n] = x => (k = j <=> j < n)
    BY <1>4
  <2>4. q = r /\ m = k
    BY SMTT(30), <2>1, <2>2, <2>3 DEF Once
  <2>5. CASE Contains(f[q], x)
    BY <2>2, <2>3, <2>4, <2>5 DEF Contains
  <2>6. CASE ~Contains(f[q], x)
    <3>1. g[q] = f[q]
      BY <2>6, <1>1
    <3>2. QED
      BY <3>1, <2>1, <2>4 DEF Once
  <2>7. QED
    BY <2>5, <2>6
<1>6. ASSUME NEW q \in Q, NEW y
      PROVE  Contains(g[q], y) <=> Contains(f[q], y) /\ y # x
  <2>1. Contains(g[q], y) => Contains(f[q], y) /\ y # x
    BY <1>4 DEF Contains
  <2>2. ASSUME Contains(f[q], y), y # x, Contains(f[q], x)
        PROVE  Contains(g[q], y)
    <3>1. PICK i \in 1 .. Len(f[q]) :
               /\ f[q][i] = x
               /\ Len(g[q]) = Len(f[q]) - 1
               /\ \A n \in 1 .. Len(f[q]) - 1 :
                    g[q][n] = IF n < i THEN f[q][n] ELSE f[q][n + 1]
      BY <2>2, <1>2
    <3>2. PICK k \in 1 .. Len(f[q]) : f[q][k] = y
      BY <2>2 DEF Contains
    <3>3. CASE k < i
      <4>1. k \in 1 .. Len(g[q]) /\ g[q][k] = y
        BY <3>1, <3>2, <3>3
      <4>2. QED
        BY <4>1 DEF Contains
    <3>4. CASE k > i
      <4>1. k - 1 \in 1 .. Len(g[q]) /\ g[q][k - 1] = y
        BY <3>1, <3>2, <3>4
      <4>2. QED
        BY <4>1 DEF Contains
    <3>5. k # i
      BY <3>1, <3>2, <2>2
    <3>6. QED
      BY <3>3, <3>4, <3>5
  <2>3. QED
    BY <2>1, <2>2, <1>1
<1>7. QED
  BY <1>3, <1>5, <1>6 DEF g

\* DQ_addTail of an item that is on no queue puts it on that queue alone.
LEMMA AddTailElements ==
  ASSUME NEW Q, NEW S, NEW f \in [Q -> Seq(S)], Once(f, Q), NEW x \in S,
         NEW p \in Q, \A q \in Q : ~Contains(f[q], x)
  PROVE  /\ AddTail(f, p, x) \in [Q -> Seq(S)]
         /\ Once(AddTail(f, p, x), Q)
         /\ Adds(AddTail(f, p, x), f, Q, p, x)
<1> DEFINE g == AddTail(f, p, x)
<1>0. g = [f EXCEPT ![p] = Append(@, x)]
  BY DEF AddTail
<1> HIDE DEF g
<1> USE <1>0
<1>1. g \in [Q -> Seq(S)]
  OBVIOUS
<1>2. \A q \in Q : q # p => g[q] = f[q]
  OBVIOUS
<1>3. /\ Len(g[p]) = Len(f[p]) + 1
      /\ \A i \in 1 .. Len(f[p]) : g[p][i] = f[p][i]
      /\ g[p][Len(f[p]) + 1] = x
  OBVIOUS
<1>4. Once(g, Q)
  <2>1. SUFFICES ASSUME NEW q \in Q, NEW r \in Q, NEW i \in 1 .. Len(g[q]),
                        NEW j \in 1 .. Len(g[r]), g[q][i] = g[r][j]
                 PROVE  q = r /\ i = j
    BY DEF Once
  <2>2. ASSUME NEW u \in Q, NEW k \in 1 .. Len(g[u])
        PROVE  \/ g[u][k] = x /\ u = p /\ k = Len(f[p]) + 1
               \/ g[u][k] # x /\ k \in 1 .. Len(f[u]) /\ g[u][k] = f[u][k]
    <3>1. CASE u = p /\ k = Len(f[p]) + 1
      BY <3>1, <1>3
    <3>2. CASE u = p /\ k # Len(f[p]) + 1
      <4>1. k \in 1 .. Len(f[p])
        BY <3>2, <1>3
      <4>2. QED
        BY <3>2, <4>1, <1>3 DEF Contains
    <3>3. CASE u # p
      BY <3>3, <1>2 DEF Contains
    <3>4. QED
      BY <3>1, <3>2, <3>3
  <2>3. QED
    BY <2>1, <2>2 DEF Once
<1>5. ASSUME NEW q \in Q, NEW y
      PROVE  Contains(g[q], y) <=> Contains(f[q], y) \/ (q = p /\ y = x)
  <2>1. CASE q = p
    <3>1. ASSUME Contains(g[p], y) PROVE Contains(f[p], y) \/ y = x
      <4>1. PICK i \in 1 .. Len(g[p]) : g[p][i] = y
        BY <3>1 DEF Contains
      <4>2. i \in 1 .. Len(f[p]) \/ i = Len(f[p]) + 1
        BY <1>3
      <4>3. QED
        BY <4>1, <4>2, <1>3 DEF Contains
    <3>2. ASSUME Contains(f[p], y) \/ y = x PROVE Contains(g[p], y)
      <4>1. CASE Contains(f[p], y)
        BY <4>1, <1>3 DEF Contains
      <4>2. CASE y = x
        <5>1. Len(f[p]) + 1 \in 1 .. Len(g[p])
          BY <1>3
        <5>2. QED
          BY <4>2, <5>1, <1>3 DEF Contains
      <4>3. QED
        BY <3>2, <4>1, <4>2
    <3>3. QED
      BY <2>1, <3>1, <3>2
  <2>2. CASE q # p
    BY <2>2, <1>2
  <2>3. QED
    BY <2>1, <2>2
<1>6. Adds(g, f, Q, p, x)
  BY <1>5 DEF Adds
<1>7. QED
  BY <1>1, <1>4, <1>6 DEF g

\* DQ_addHead of an item that is on no queue puts it on that queue alone, first.
LEMMA AddHeadElements ==
  ASSUME NEW Q, NEW S, NEW f \in [Q -> Seq(S)], Once(f, Q), NEW x \in S,
         NEW p \in Q, \A q \in Q : ~Contains(f[q], x)
  PROVE  /\ AddHead(f, p, x) \in [Q -> Seq(S)]
         /\ Once(AddHead(f, p, x), Q)
         /\ Adds(AddHead(f, p, x), f, Q, p, x)
         /\ Head(AddHead(f, p, x)[p]) = x
<1> DEFINE g == AddHead(f, p, x)
<1>0. g = [f EXCEPT ![p] = <<x>> \o @]
  BY DEF AddHead
<1> HIDE DEF g
<1> USE <1>0
<1>1. g \in [Q -> Seq(S)]
  OBVIOUS
<1>2. \A q \in Q : q # p => g[q] = f[q]
  OBVIOUS
<1>3. /\ Len(g[p]) = Len(f[p]) + 1
      /\ \A i \in 1 .. Len(f[p]) : g[p][i + 1] = f[p][i]
      /\ g[p][1] = x
  <2>1. g[p] = <<x>> \o f[p] /\ f[p] \in Seq(S) /\ <<x>> \in Seq(S) /\ Len(<<x>>) = 1
    OBVIOUS
  <2>2. QED
    BY <2>1, ConcatProperties
<1>4. Once(g, Q)
  <2>1. SUFFICES ASSUME NEW q \in Q, NEW r \in Q, NEW i \in 1 .. Len(g[q]),
                        NEW j \in 1 .. Len(g[r]), g[q][i] = g[r][j]
                 PROVE  q = r /\ i = j
    BY DEF Once
  <2>2. ASSUME NEW u \in Q, NEW k \in 1 .. Len(g[u])
        PROVE  \/ g[u][k] = x /\ u = p /\ k = 1
               \/ /\ g[u][k] # x /\ u = p
                  /\ k - 1 \in 1 .. Len(f[u]) /\ g[u][k] = f[u][k - 1]
               \/ /\ g[u][k] # x /\ u # p
                  /\ k \in 1 .. Len(f[u]) /\ g[u][k] = f[u][k]
    <3>1. CASE u = p /\ k = 1
      BY <3>1, <1>3
    <3>2. CASE u = p /\ k # 1
      <4>1. k - 1 \in 1 .. Len(f[p]) /\ (k - 1) + 1 = k
        BY <3>2, <1>3
      <4>2. g[p][k] = f[p][k - 1]
        BY <4>1, <1>3
      <4>3. QED
        BY <3>2, <4>1, <4>2 DEF Contains
    <3>3. CASE u # p
      BY <3>3, <1>2 DEF Contains
    <3>4. QED
      BY <3>1, <3>2, <3>3
  <2>3. CASE g[q][i] = x
    <3>1. q = p /\ i = 1 /\ r = p /\ j = 1
      BY <2>1, <2>2, <2>3
    <3>2. QED
      BY <3>1
  <2>4. CASE g[q][i] # x /\ q # p
    <3>1. CASE r = p
      <4>1. j - 1 \in 1 .. Len(f[r]) /\ f[q][i] = f[r][j - 1] /\ i \in 1 .. Len(f[q])
        BY <2>1, <2>2, <2>4, <3>1
      <4>2. QED
        BY <4>1, <2>4, <3>1 DEF Once
    <3>2. CASE r # p
      BY <2>1, <2>2, <2>4, <3>2 DEF Once
    <3>3. QED
      BY <3>1, <3>2
  <2>5. CASE g[q][i] # x /\ q = p
    <3>1. i - 1 \in 1 .. Len(f[p]) /\ g[q][i] = f[p][i - 1]
      BY <2>2, <2>5
    <3>2. CASE r = p
      <4>1. j - 1 \in 1 .. Len(f[p]) /\ g[r][j] = f[p][j - 1]
        BY <2>1, <2>2, <2>5, <3>2
      <4>2. f[p][i - 1] = f[p][j - 1]
        BY <2>1, <3>1, <4>1
      <4>3. \A m, n \in 1 .. Len(f[p]) : f[p][m] = f[p][n] => m = n
        BY DEF Once
      <4>4. i - 1 = j - 1
        BY <3>1, <4>1, <4>2, <4>3
      <4>5. QED
        BY <4>4, <2>5, <3>2
    <3>3. CASE r # p
      <4>1. j \in 1 .. Len(f[r]) /\ g[r][j] = f[r][j]
        BY <2>1, <2>2, <2>5, <3>3
      <4>2. QED
        BY <2>1, <3>1, <3>3, <4>1 DEF Once
    <3>4. QED
      BY <3>2, <3>3
  <2>6. QED
    BY <2>3, <2>4, <2>5
<1>5. ASSUME NEW q \in Q, NEW y
      PROVE  Contains(g[q], y) <=> Contains(f[q], y) \/ (q = p /\ y = x)
  <2>1. CASE q = p
    <3>1. ASSUME Contains(g[p], y) PROVE Contains(f[p], y) \/ y = x
      <4>1. PICK i \in 1 .. Len(g[p]) : g[p][i] = y
        BY <3>1 DEF Contains
      <4>2. CASE i = 1
        BY <4>1, <4>2, <1>3
      <4>3. CASE i # 1
        <5>1. i - 1 \in 1 .. Len(f[p]) /\ (i - 1) + 1 = i
          BY <4>3, <1>3
        <5>2. f[p][i - 1] = y
          BY <5>1, <4>1, <1>3
        <5>3. QED
          BY <5>1, <5>2 DEF Contains
      <4>4. QED
        BY <4>2, <4>3
    <3>2. ASSUME Contains(f[p], y) PROVE Contains(g[p], y)
      <4>1. PICK i \in 1 .. Len(f[p]) : f[p][i] = y
        BY <3>2 DEF Contains
      <4>2. i + 1 \in 1 .. Len(g[p]) /\ g[p][i + 1] = y
        BY <4>1, <1>3
      <4>3. QED
        BY <4>2 DEF Contains
    <3>3. Contains(g[p], x)
      <4>1. 1 \in 1 .. Len(g[p])
        BY <1>3
      <4>2. QED
        BY <4>1, <1>3 DEF Contains
    <3>4. QED
      BY <2>1, <3>1, <3>2, <3>3
  <2>2. CASE q # p
    BY <2>2, <1>2
  <2>3. QED
    BY <2>1, <2>2
<1>6. Adds(g, f, Q, p, x)
  BY <1>5 DEF Adds
<1>7. QED
  BY <1>1, <1>3, <1>4, <1>6 DEF g

\* DQ_removeHead takes the first item off the one queue it is on.
LEMMA RemoveHeadElements ==
  ASSUME NEW Q, NEW S, NEW f \in [Q -> Seq(S)], Once(f, Q),
         NEW p \in Q, f[p] # <<>>
  PROVE  /\ RemoveHead(f, p) \in [Q -> Seq(S)]
         /\ Once(RemoveHead(f, p), Q)
         /\ Head(f[p]) \in S
         /\ Contains(f[p], Head(f[p]))
         /\ \A q \in Q : \A y :
              Contains(RemoveHead(f, p)[q], y) <=> Contains(f[q], y) /\ y # Head(f[p])
<1> DEFINE g == RemoveHead(f, p)
<1>0. g = [f EXCEPT ![p] = Tail(@)]
  BY DEF RemoveHead
<1> HIDE DEF g
<1> USE <1>0
<1>1. g \in [Q -> Seq(S)] /\ Head(f[p]) \in S /\ Head(f[p]) = f[p][1] /\ Len(f[p]) >= 1
  BY HeadTailProperties
<1>2. \A q \in Q : q # p => g[q] = f[q]
  OBVIOUS
<1>3. /\ Len(g[p]) = Len(f[p]) - 1
      /\ \A i \in 1 .. Len(g[p]) : g[p][i] = f[p][i + 1]
  OBVIOUS
<1>4. ASSUME NEW u \in Q, NEW k \in 1 .. Len(g[u])
      PROVE  /\ g[u][k] # f[p][1]
             /\ u = p => k + 1 \in 1 .. Len(f[u]) /\ g[u][k] = f[u][k + 1]
             /\ u # p => k \in 1 .. Len(f[u]) /\ g[u][k] = f[u][k]
  <2>1. CASE u = p
    <3>1. k + 1 \in 1 .. Len(f[u]) /\ g[u][k] = f[u][k + 1]
      BY <2>1, <1>3
    <3>2. 1 \in 1 .. Len(f[p]) /\ k + 1 # 1
      BY <1>1
    <3>3. QED
      BY <2>1, <3>1, <3>2 DEF Once
  <2>2. CASE u # p
    BY <2>2, <1>1, <1>2 DEF Once
  <2>3. QED
    BY <2>1, <2>2
<1>5. Once(g, Q)
  <2>1. SUFFICES ASSUME NEW q \in Q, NEW r \in Q, NEW i \in 1 .. Len(g[q]),
                        NEW j \in 1 .. Len(g[r]), g[q][i] = g[r][j]
                 PROVE  q = r /\ i = j
    BY DEF Once
  <2>2. QED
    BY <2>1, <1>4 DEF Once
<1>6. Contains(f[p], Head(f[p]))
  <2>1. 1 \in 1 .. Len(f[p])
    BY <1>1
  <2>2. QED
    BY <2>1, <1>1 DEF Contains
<1>7. ASSUME NEW q \in Q, NEW y
      PROVE  Contains(g[q], y) <=> Contains(f[q], y) /\ y # Head(f[p])
  <2>1. ASSUME Contains(g[q], y) PROVE Contains(f[q], y) /\ y # f[p][1]
    <3>1. PICK i \in 1 .. Len(g[q]) : g[q][i] = y
      BY <2>1 DEF Contains
    <3>2. CASE q = p
      <4>1. g[q][i] # f[p][1] /\ i + 1 \in 1 .. Len(f[q]) /\ g[q][i] = f[q][i + 1]
        BY <3>1, <3>2, <1>4
      <4>2. QED
        BY <3>1, <4>1 DEF Contains
    <3>3. CASE q # p
      BY <3>1, <3>3, <1>4 DEF Contains
    <3>4. QED
      BY <3>2, <3>3
  <2>2. ASSUME Contains(f[q], y), y # f[p][1] PROVE Contains(g[q], y)
    <3>1. PICK i \in 1 .. Len(f[q]) : f[q][i] = y
      BY <2>2 DEF Contains
    <3>2. CASE q = p
      <4>1. i - 1 \in 1 .. Len(g[p]) /\ (i - 1) + 1 = i
        BY <3>1, <3>2, <2>2, <1>3
      <4>2. g[p][i - 1] = y
        BY <4>1, <3>1, <3>2, <1>3
      <4>3. QED
        BY <3>2, <4>1, <4>2 DEF Contains
    <3>3. CASE q # p
      BY <3>3, <2>2, <1>2
    <3>4. QED
      BY <3>2, <3>3
  <2>3. QED
    BY <2>1, <2>2, <1>1
<1>8. QED
  BY <1>1, <1>5, <1>6, <1>7 DEF g

\* DQ_remove keeps a table of queues well linked; the item is on none of them.
THEOREM UnlinkedTable ==
  ASSUME NEW Q, NEW S, NEW f, Table(f, Q, S), NEW x
  PROVE  Table(Unlinked(f, x), Q, S) /\ Drops(Unlinked(f, x), f, Q, x)
<1>1. f \in [Q -> Seq(S)] /\ Once(f, Q)
  BY DEF Table
<1>2. Unlinked(f, x) \in [Q -> Seq(S)] /\ Once(Unlinked(f, x), Q)
  BY <1>1, UnlinkedElements
<1>3. ASSUME NEW q \in Q, NEW y
      PROVE  Contains(Unlinked(f, x)[q], y) <=> (Contains(f[q], y) /\ y # x)
  BY <1>1, UnlinkedElements
<1>4. QED
  BY <1>2, <1>3 DEF Table, Drops

\* DQ_addTail keeps a table well linked if the item was on none of its queues.
THEOREM AddTailTable ==
  ASSUME NEW Q, NEW S, NEW f, Table(f, Q, S), NEW x \in S, NEW p \in Q, Off(f, Q, x)
  PROVE  Table(AddTail(f, p, x), Q, S) /\ Adds(AddTail(f, p, x), f, Q, p, x)
<1>1. f \in [Q -> Seq(S)] /\ Once(f, Q) /\ \A q \in Q : ~Contains(f[q], x)
  BY DEF Table, Off
<1>2. AddTail(f, p, x) \in [Q -> Seq(S)] /\ Once(AddTail(f, p, x), Q)
  BY <1>1, AddTailElements
<1>3. Adds(AddTail(f, p, x), f, Q, p, x)
  BY <1>1, AddTailElements
<1>4. QED
  BY <1>2, <1>3 DEF Table

\* DQ_addHead keeps a table well linked if the item was on none of its queues,
\* and the item is then the first of its queue.
THEOREM AddHeadTable ==
  ASSUME NEW Q, NEW S, NEW f, Table(f, Q, S), NEW x \in S, NEW p \in Q, Off(f, Q, x)
  PROVE  /\ Table(AddHead(f, p, x), Q, S) /\ Adds(AddHead(f, p, x), f, Q, p, x)
         /\ Head(AddHead(f, p, x)[p]) = x
<1>1. f \in [Q -> Seq(S)] /\ Once(f, Q) /\ \A q \in Q : ~Contains(f[q], x)
  BY DEF Table, Off
<1>2. /\ AddHead(f, p, x) \in [Q -> Seq(S)] /\ Once(AddHead(f, p, x), Q)
      /\ Head(AddHead(f, p, x)[p]) = x
  BY <1>1, AddHeadElements
<1>3. Adds(AddHead(f, p, x), f, Q, p, x)
  BY <1>1, AddHeadElements
<1>4. QED
  BY <1>2, <1>3 DEF Table

\* DQ_removeHead keeps a table well linked, and what it returns was linked and is
\* on no queue any more.
THEOREM RemoveHeadTable ==
  ASSUME NEW Q, NEW S, NEW f, Table(f, Q, S), NEW p \in Q, f[p] # <<>>
  PROVE  /\ Table(RemoveHead(f, p), Q, S) /\ Drops(RemoveHead(f, p), f, Q, Head(f[p]))
         /\ Head(f[p]) \in S /\ Contains(f[p], Head(f[p]))
<1>1. f \in [Q -> Seq(S)] /\ Once(f, Q)
  BY DEF Table
<1>2. /\ RemoveHead(f, p) \in [Q -> Seq(S)] /\ Once(RemoveHead(f, p), Q)
      /\ Head(f[p]) \in S /\ Contains(f[p], Head(f[p]))
  BY <1>1, RemoveHeadElements
<1>3. ASSUME NEW q \in Q, NEW y
      PROVE  Contains(RemoveHead(f, p)[q], y) <=> (Contains(f[q], y) /\ y # Head(f[p]))
  BY <1>1, RemoveHeadElements
<1>4. QED
  BY <1>2, <1>3 DEF Table, Drops

\* A queue is empty if and only if no element is on it.
THEOREM TableMembers ==
  ASSUME NEW Q, NEW S, NEW f, Table(f, Q, S), NEW q \in Q
  PROVE  /\ f[q] # <<>> <=> \E x \in S : Contains(f[q], x)
         /\ \A x : Contains(f[q], x) => x \in S
BY EmptySeq DEF Table, Contains

\* An element that is on two queues of a table shows that they are one.
THEOREM TableOneQueue ==
  ASSUME NEW Q, NEW S, NEW f, Table(f, Q, S), NEW q \in Q, NEW r \in Q, NEW x,
         Contains(f[q], x), Contains(f[r], x)
  PROVE  q = r
BY DEF Table, Once, Contains
-----------------------------------------------------------------------------
\* A walk of Sifted, along m places of s.
IsWalk(w, s, S, m) ==
  w = [n \in 0 .. m |->
         IF n = 0 THEN <<>>
         ELSE IF s[n] \in S THEN Append(w[n - 1], s[n]) ELSE w[n - 1]]

\* There is such a walk along any number of places.
LEMMA WalkExists ==
  ASSUME NEW s, NEW S, NEW m \in Nat
  PROVE  \E w : IsWalk(w, s, S, m)
<1> DEFINE Bad == {k \in Nat : ~ \E w : IsWalk(w, s, S, k)}
<1>1. SUFFICES ASSUME Bad # {} PROVE FALSE
  OBVIOUS
<1>2. PICK k \in Nat : k = Min(Bad) /\ k \in Bad /\ \A j \in Bad : k <= j
  BY <1>1, MinProperties
<1>3. CASE k = 0
  <2> DEFINE w == [n \in 0 .. 0 |-> <<>>]
  <2>1. IsWalk(w, s, S, 0)
    BY DEF IsWalk
  <2>2. QED
    BY <2>1, <1>2, <1>3
<1>4. CASE k # 0
  <2>1. k - 1 \in Nat /\ k - 1 \notin Bad
    BY <1>2, <1>4
  <2>2. PICK v : IsWalk(v, s, S, k - 1)
    BY <2>1
  <2> DEFINE next == IF s[k] \in S THEN Append(v[k - 1], s[k]) ELSE v[k - 1]
             w == [n \in 0 .. k |-> IF n = k THEN next ELSE v[n]]
  <2>3. \A n \in 0 .. k - 1 : v[n] =
          IF n = 0 THEN <<>>
          ELSE IF s[n] \in S THEN Append(v[n - 1], s[n]) ELSE v[n - 1]
    BY <2>1, <2>2 DEF IsWalk
  <2>4. ASSUME NEW n \in 0 .. k
        PROVE  w[n] = IF n = 0 THEN <<>>
                      ELSE IF s[n] \in S THEN Append(w[n - 1], s[n]) ELSE w[n - 1]
    <3>1. CASE n = k
      BY <3>1, <1>4
    <3>2. CASE n # k
      <4>1. n \in 0 .. k - 1
        BY <3>2
      <4>2. w[n] = v[n] /\ (n # 0 => w[n - 1] = v[n - 1])
        BY <4>1
      <4>3. QED
        BY <4>1, <4>2, <2>3
    <3>3. QED
      BY <3>1, <3>2
  <2>5. IsWalk(w, s, S, k)
    BY <2>4 DEF IsWalk
  <2>6. QED
    BY <2>5, <1>2
<1>5. QED
  BY <1>3, <1>4

\* Sifted is what such a walk along the whole queue ends with.
LEMMA SiftedIsWalk ==
  ASSUME NEW T, NEW s \in Seq(T), NEW S
  PROVE  \E w : IsWalk(w, s, S, Len(s)) /\ Sifted(s, S) = w[Len(s)]
<1>1. \E w : IsWalk(w, s, S, Len(s))
  BY WalkExists, LenProperties
<1> DEFINE walk == CHOOSE w : IsWalk(w, s, S, Len(s))
<1>2. IsWalk(walk, s, S, Len(s))
  BY <1>1
<1>3. Sifted(s, S) = walk[Len(s)]
  BY DEF Sifted, IsWalk
<1>4. QED
  BY <1>2, <1>3

\* No item is twice in a sequence.
Apart(s) == \A i, j \in 1 .. Len(s) : s[i] = s[j] => i = j

\* A removal of all items but those of S leaves those of S, and nothing else; and
\* items that were linked once still are.
LEMMA SiftedElements ==
  ASSUME NEW T, NEW s \in Seq(T), NEW S
  PROVE  /\ Sifted(s, S) \in Seq(T)
         /\ \A y : Contains(Sifted(s, S), y) <=> Contains(s, y) /\ y \in S
         /\ Apart(s) => Apart(Sifted(s, S))
<1>1. PICK w : IsWalk(w, s, S, Len(s)) /\ Sifted(s, S) = w[Len(s)]
  BY SiftedIsWalk
<1> DEFINE Good(k) ==
             /\ w[k] \in Seq(T)
             /\ \A i \in 1 .. Len(w[k]) : w[k][i] \in S /\ \E j \in 1 .. k : s[j] = w[k][i]
             /\ \A j \in 1 .. k : s[j] \in S => \E i \in 1 .. Len(w[k]) : w[k][i] = s[j]
             /\ Apart(s) => Apart(w[k])
           Bad == {k \in 0 .. Len(s) : ~ Good(k)}
<1>2. \A n \in 0 .. Len(s) : w[n] =
        IF n = 0 THEN <<>>
        ELSE IF s[n] \in S THEN Append(w[n - 1], s[n]) ELSE w[n - 1]
  BY <1>1 DEF IsWalk
<1>3. ASSUME Bad # {} PROVE FALSE
  <2>1. PICK k \in 0 .. Len(s) : k \in Bad /\ \A j \in Bad : k <= j
    <3>1. Bad \in SUBSET Nat
      OBVIOUS
    <3>2. QED
      BY <1>3, <3>1, MinProperties
  <2>2. CASE k = 0
    <3>1. w[0] = <<>>
      BY <1>2
    <3>2. <<>> \in Seq(T) /\ Len(<<>>) = 0 /\ Apart(<<>>)
      BY DEF Apart
    <3>3. Good(0)
      BY <3>1, <3>2
    <3>4. QED
      BY <2>1, <2>2, <3>3
  <2>3. CASE k # 0
    <3>1. k - 1 \in 0 .. Len(s) /\ Good(k - 1) /\ k \in 1 .. Len(s) /\ s[k] \in T
      BY <2>1, <2>3, ElementOfSeq
    <3> DEFINE u == w[k - 1]
    <3>2. /\ u \in Seq(T)
          /\ \A i \in 1 .. Len(u) : u[i] \in S /\ \E j \in 1 .. k - 1 : s[j] = u[i]
          /\ \A j \in 1 .. k - 1 : s[j] \in S => \E i \in 1 .. Len(u) : u[i] = s[j]
          /\ Apart(s) => Apart(u)
      BY <3>1
    <3>3. w[k] = IF s[k] \in S THEN Append(u, s[k]) ELSE u
      BY <3>1, <2>3, <1>2
    <3> HIDE DEF u
    <3>4. CASE s[k] \in S
      <4>1. /\ w[k] \in Seq(T) /\ Len(w[k]) = Len(u) + 1
            /\ \A i \in 1 .. Len(u) : w[k][i] = u[i]
            /\ w[k][Len(u) + 1] = s[k]
        BY <3>1, <3>2, <3>3, <3>4, AppendProperties
      <4>2. ASSUME NEW i \in 1 .. Len(w[k])
            PROVE  w[k][i] \in S /\ \E j \in 1 .. k : s[j] = w[k][i]
        <5>1. CASE i = Len(u) + 1
          <6>1. w[k][i] = s[k] /\ k \in 1 .. k
            BY <5>1, <4>1, <3>1
          <6>2. QED
            BY <6>1, <3>4
        <5>2. CASE i \in 1 .. Len(u)
          <6>1. w[k][i] = u[i]
            BY <5>2, <4>1
          <6>2. u[i] \in S /\ \E j \in 1 .. k - 1 : s[j] = u[i]
            BY <5>2, <3>2
          <6>3. QED
            BY <6>1, <6>2, <3>1
        <5>3. QED
          BY <5>1, <5>2, <4>1, <3>2, LenProperties
      <4>3. ASSUME NEW j \in 1 .. k, s[j] \in S
            PROVE  \E i \in 1 .. Len(w[k]) : w[k][i] = s[j]
        <5>1. Len(u) \in Nat
          BY <3>2, LenProperties
        <5>2. CASE j = k
          BY <5>1, <5>2, <4>1
        <5>3. CASE j \in 1 .. k - 1
          <6>1. PICK i \in 1 .. Len(u) : u[i] = s[j]
            BY <5>3, <4>3, <3>2
          <6>2. QED
            BY <6>1, <5>1, <4>1
        <5>4. QED
          BY <5>2, <5>3
      <4>4. ASSUME Apart(s) PROVE Apart(w[k])
        <5>1. Len(u) \in Nat /\ Len(s) \in Nat
          BY <3>2, LenProperties
        <5>2. \A i \in 1 .. Len(u) : u[i] # s[k]
          BY <4>4, <3>1, <3>2, <5>1 DEF Apart
        <5>3. \A i, j \in 1 .. Len(u) : u[i] = u[j] => i = j
          BY <4>4, <3>2 DEF Apart
        <5>4. SUFFICES ASSUME NEW i \in 1 .. Len(w[k]), NEW j \in 1 .. Len(w[k]),
                              w[k][i] = w[k][j]
                       PROVE  i = j
          BY DEF Apart
        <5>5. \A l \in 1 .. Len(w[k]) :
                w[k][l] = IF l = Len(u) + 1 THEN s[k] ELSE u[l]
          BY <5>1, <4>1
        <5>6. CASE i # Len(u) + 1 /\ j # Len(u) + 1
          BY <5>1, <5>3, <5>4, <5>5, <5>6, <4>1
        <5>7. CASE i = Len(u) + 1 \/ j = Len(u) + 1
          BY <5>1, <5>2, <5>4, <5>5, <5>7, <4>1
        <5>8. QED
          BY <5>6, <5>7
      <4>5. Good(k)
        BY <4>1, <4>2, <4>3, <4>4
      <4>6. QED
        BY <4>5, <2>1
    <3>5. CASE s[k] \notin S
      <4>1. w[k] = u
        BY <3>3, <3>5
      <4>2. Good(k)
        <5>1. \A i \in 1 .. Len(u) : u[i] \in S /\ \E j \in 1 .. k : s[j] = u[i]
          BY <3>2, <3>1
        <5>2. \A j \in 1 .. k : s[j] \in S => \E i \in 1 .. Len(u) : u[i] = s[j]
          BY <3>2, <3>1, <3>5
        <5>3. Apart(s) => Apart(w[k])
          BY <4>1, <3>2
        <5>4. QED
          BY <4>1, <3>2, <5>1, <5>2, <5>3
      <4>3. QED
        BY <4>2, <2>1
    <3>6. QED
      BY <3>4, <3>5
  <2>4. QED
    BY <2>2, <2>3
<1>4. Good(Len(s))
  BY <1>3, LenProperties
<1>5. QED
  BY <1>1, <1>4 DEF Contains

\* Sifting one queue keeps a table well linked and leaves the others alone.
THEOREM SiftedTable ==
  ASSUME NEW Q, NEW S, NEW f, Table(f, Q, S), NEW p \in Q, NEW X
  PROVE  LET g == [f EXCEPT ![p] = Sifted(f[p], X)]
         IN  /\ Table(g, Q, S)
             /\ \A q \in Q : \A y :
                  Contains(g[q], y) <=> Contains(f[q], y) /\ (q # p \/ y \in X)
<1> DEFINE g == [f EXCEPT ![p] = Sifted(f[p], X)]
<1>1. f \in [Q -> Seq(S)] /\ Once(f, Q) /\ f[p] \in Seq(S)
  BY DEF Table
<1>2. Apart(f[p])
  BY <1>1 DEF Once, Apart
<1>3. /\ Sifted(f[p], X) \in Seq(S)
      /\ \A y : Contains(Sifted(f[p], X), y) <=> Contains(f[p], y) /\ y \in X
      /\ Apart(Sifted(f[p], X))
  BY <1>1, <1>2, SiftedElements
<1>4. g \in [Q -> Seq(S)] /\ \A q \in Q : g[q] = IF q = p THEN Sifted(f[p], X) ELSE f[q]
  BY <1>1, <1>3
<1> HIDE DEF g
<1>5. \A q \in Q : \A y :
        Contains(g[q], y) <=> Contains(f[q], y) /\ (q # p \/ y \in X)
  BY <1>3, <1>4
<1>6. ASSUME NEW q \in Q, NEW r \in Q, NEW i \in 1 .. Len(g[q]), NEW j \in 1 .. Len(g[r]),
             g[q][i] = g[r][j]
      PROVE  q = r /\ i = j
  <2>1. Contains(g[q], g[q][i]) /\ Contains(g[r], g[q][i])
    BY <1>6 DEF Contains
  <2>2. Contains(f[q], g[q][i]) /\ Contains(f[r], g[q][i])
    BY <2>1, <1>5
  <2>3. q = r
    BY <2>2, <1>1 DEF Once, Contains
  <2>4. CASE q = p
    BY <2>3, <2>4, <1>3, <1>4, <1>6 DEF Apart
  <2>5. CASE q # p
    BY <2>3, <2>5, <1>1, <1>4, <1>6 DEF Once
  <2>6. QED
    BY <2>3, <2>4, <2>5
<1>7. Table(g, Q, S)
  BY <1>4, <1>6 DEF Table, Once
<1>8. QED
  BY <1>5, <1>7 DEF g
-----------------------------------------------------------------------------
(* Sequences that hold nothing twice.                                        *)

\* The members of a sequence, by place.
LEMMA MembersOf ==
  ASSUME NEW S, NEW s \in Seq(S)
  PROVE  /\ \A x : x \in ToSet(s) <=> \E i \in 1 .. Len(s) : s[i] = x
         /\ ToSet(s) \subseteq S
<1>1. DOMAIN s = 1 .. Len(s)
  BY LenProperties
<1>2. \A i \in 1 .. Len(s) : s[i] \in S
  BY ElementOfSeq
<1>3. QED
  BY <1>1, <1>2 DEF ToSet

\* Appending what is not there.
LEMMA AppendApart ==
  ASSUME NEW S, NEW s \in Seq(S), NEW x \in S, Apart(s), x \notin ToSet(s)
  PROVE  /\ Apart(Append(s, x))
         /\ \A y : y \in ToSet(Append(s, x)) <=> y \in ToSet(s) \/ y = x
<1> DEFINE t == Append(s, x)
<1>1. /\ t \in Seq(S) /\ Len(t) = Len(s) + 1 /\ t[Len(s) + 1] = x
      /\ \A i \in 1 .. Len(s) : t[i] = s[i]
  BY AppendProperties
<1>2. Len(s) \in Nat
  BY LenProperties
<1> HIDE DEF t
<1>3. /\ \A y : y \in ToSet(t) <=> \E i \in 1 .. Len(t) : t[i] = y
      /\ \A y : y \in ToSet(s) <=> \E i \in 1 .. Len(s) : s[i] = y
  BY <1>1, MembersOf
<1>4. ASSUME NEW i \in 1 .. Len(t), NEW j \in 1 .. Len(t), t[i] = t[j]
      PROVE  i = j
  <2>1. CASE i \in 1 .. Len(s) /\ j \in 1 .. Len(s)
    BY <2>1, <1>1, <1>4 DEF Apart
  <2>2. CASE i = Len(s) + 1 \/ j = Len(s) + 1
    BY <2>2, <1>1, <1>2, <1>3, <1>4
  <2>3. QED
    BY <2>1, <2>2, <1>1, <1>2
<1>5. Apart(t)
  BY <1>4 DEF Apart
<1>6. ASSUME NEW y
      PROVE  y \in ToSet(t) <=> y \in ToSet(s) \/ y = x
  <2>1. ASSUME y \in ToSet(t) PROVE y \in ToSet(s) \/ y = x
    BY <2>1, <1>1, <1>2, <1>3
  <2>2. ASSUME y \in ToSet(s) PROVE y \in ToSet(t)
    BY <2>2, <1>1, <1>2, <1>3
  <2>3. ASSUME y = x PROVE y \in ToSet(t)
    BY <2>3, <1>1, <1>2, <1>3
  <2>4. QED
    BY <2>1, <2>2, <2>3
<1>7. QED
  BY <1>5, <1>6 DEF t

\* Taking the first.
LEMMA TailApart ==
  ASSUME NEW S, NEW s \in Seq(S), s # <<>>, Apart(s)
  PROVE  /\ Apart(Tail(s)) /\ Head(s) \in ToSet(s)
         /\ \A y : y \in ToSet(Tail(s)) <=> y \in ToSet(s) /\ y # Head(s)
<1> DEFINE t == Tail(s)
<1>1. /\ t \in Seq(S) /\ Len(t) = Len(s) - 1 /\ Head(s) = s[1]
      /\ \A i \in 1 .. Len(t) : t[i] = s[i + 1]
  BY HeadTailProperties
<1>2. Len(s) \in Nat \ {0}
  BY EmptySeq
<1> HIDE DEF t
<1>3. /\ \A y : y \in ToSet(t) <=> \E i \in 1 .. Len(t) : t[i] = y
      /\ \A y : y \in ToSet(s) <=> \E i \in 1 .. Len(s) : s[i] = y
  BY <1>1, MembersOf
<1>4. ASSUME NEW i \in 1 .. Len(t), NEW j \in 1 .. Len(t), t[i] = t[j]
      PROVE  i = j
  <2>1. i + 1 \in 1 .. Len(s) /\ j + 1 \in 1 .. Len(s) /\ s[i + 1] = s[j + 1]
    BY <1>1, <1>2, <1>4
  <2>2. i + 1 = j + 1
    BY <2>1 DEF Apart
  <2>3. QED
    BY <2>2
<1>5. Apart(t)
  BY <1>4 DEF Apart
<1>6. ASSUME NEW y
      PROVE  y \in ToSet(t) <=> y \in ToSet(s) /\ y # Head(s)
  <2>1. ASSUME y \in ToSet(t) PROVE y \in ToSet(s) /\ y # Head(s)
    <3>1. PICK i \in 1 .. Len(t) : t[i] = y
      BY <2>1, <1>3
    <3>2. i + 1 \in 1 .. Len(s) /\ s[i + 1] = y /\ i + 1 # 1 /\ 1 \in 1 .. Len(s)
      BY <3>1, <1>1, <1>2
    <3>3. s[i + 1] # s[1]
      BY <3>2 DEF Apart
    <3>4. QED
      BY <3>2, <3>3, <1>1, <1>3
  <2>2. ASSUME y \in ToSet(s), y # Head(s) PROVE y \in ToSet(t)
    <3>1. PICK i \in 1 .. Len(s) : s[i] = y
      BY <2>2, <1>3
    <3>2. i # 1
      BY <3>1, <2>2, <1>1
    <3>3. i - 1 \in 1 .. Len(t) /\ t[i - 1] = s[i - 1 + 1]
      BY <3>1, <3>2, <1>1, <1>2
    <3>4. i - 1 + 1 = i
      OBVIOUS
    <3>5. QED
      BY <3>1, <3>3, <3>4, <1>3
  <2>3. QED
    BY <2>1, <2>2
<1>7. QED
  BY <1>1, <1>2, <1>3, <1>5, <1>6 DEF t

\* One sequence after another of which it has nothing.
LEMMA ConcatApart ==
  ASSUME NEW S, NEW s \in Seq(S), NEW t \in Seq(S), Apart(s), Apart(t),
         \A x \in ToSet(s) : x \notin ToSet(t)
  PROVE  /\ Apart(s \o t)
         /\ \A y : y \in ToSet(s \o t) <=> y \in ToSet(s) \/ y \in ToSet(t)
<1> DEFINE u == s \o t
<1>1. /\ u \in Seq(S) /\ Len(u) = Len(s) + Len(t)
      /\ \A i \in 1 .. Len(s) + Len(t) : u[i] = IF i <= Len(s) THEN s[i] ELSE t[i - Len(s)]
  BY ConcatProperties
<1>2. Len(s) \in Nat /\ Len(t) \in Nat
  BY LenProperties
<1> HIDE DEF u
<1>3. /\ \A y : y \in ToSet(u) <=> \E i \in 1 .. Len(u) : u[i] = y
      /\ \A y : y \in ToSet(s) <=> \E i \in 1 .. Len(s) : s[i] = y
      /\ \A y : y \in ToSet(t) <=> \E i \in 1 .. Len(t) : t[i] = y
  BY <1>1, MembersOf
<1>4. ASSUME NEW i \in 1 .. Len(u), NEW j \in 1 .. Len(u), u[i] = u[j], i < j
      PROVE  FALSE
  <2>1. CASE j <= Len(s)
    BY <2>1, <1>1, <1>2, <1>4 DEF Apart
  <2>2. CASE i > Len(s)
    <3>1. i - Len(s) \in 1 .. Len(t) /\ j - Len(s) \in 1 .. Len(t)
      BY <2>2, <1>1, <1>2, <1>4
    <3>2. t[i - Len(s)] = t[j - Len(s)]
      BY <2>2, <1>1, <1>2, <1>4
    <3>3. i - Len(s) = j - Len(s)
      BY <3>1, <3>2 DEF Apart
    <3>4. QED
      BY <3>3, <1>2, <1>4
  <2>3. CASE i <= Len(s) /\ j > Len(s)
    <3>1. i \in 1 .. Len(s) /\ j - Len(s) \in 1 .. Len(t) /\ s[i] = t[j - Len(s)]
      BY <2>3, <1>1, <1>2, <1>4
    <3>2. s[i] \in ToSet(s) /\ s[i] \in ToSet(t)
      BY <3>1, <1>3
    <3>3. QED
      BY <3>2
  <2>4. QED
    BY <2>1, <2>2, <2>3, <1>2
<1>5. Apart(u)
  <2>1. Len(u) \in Nat
    BY <1>1, <1>2
  <2>2. QED
    BY <2>1, <1>4 DEF Apart
<1>6. ASSUME NEW y
      PROVE  y \in ToSet(u) <=> y \in ToSet(s) \/ y \in ToSet(t)
  <2>1. ASSUME y \in ToSet(u) PROVE y \in ToSet(s) \/ y \in ToSet(t)
    <3>1. PICK i \in 1 .. Len(u) : u[i] = y
      BY <2>1, <1>3
    <3>2. CASE i <= Len(s)
      BY <3>1, <3>2, <1>1, <1>2, <1>3
    <3>3. CASE i > Len(s)
      <4>1. i - Len(s) \in 1 .. Len(t) /\ t[i - Len(s)] = y
        BY <3>1, <3>3, <1>1, <1>2
      <4>2. QED
        BY <4>1, <1>3
    <3>4. QED
      BY <3>2, <3>3, <1>2
  <2>2. ASSUME y \in ToSet(s) PROVE y \in ToSet(u)
    BY <2>2, <1>1, <1>2, <1>3
  <2>3. ASSUME y \in ToSet(t) PROVE y \in ToSet(u)
    <3>1. PICK i \in 1 .. Len(t) : t[i] = y
      BY <2>3, <1>3
    <3>2. i + Len(s) \in 1 .. Len(u) /\ ~(i + Len(s) <= Len(s)) /\ i + Len(s) - Len(s) = i
      BY <1>1, <1>2
    <3>3. u[i + Len(s)] = t[i]
      BY <3>2, <1>1
    <3>4. QED
      BY <3>1, <3>2, <3>3, <1>3
  <2>4. QED
    BY <2>1, <2>2, <2>3
<1>7. QED
  BY <1>5, <1>6 DEF u

\* The first n of a sequence and the others.
LEMMA SplitApart ==
  ASSUME NEW S, NEW s \in Seq(S), NEW n \in 0 .. Len(s), Apart(s)
  PROVE  LET a == SubSeq(s, 1, n)
             b == SubSeq(s, n + 1, Len(s))
         IN  /\ a \in Seq(S) /\ Len(a) = n /\ Apart(a)
             /\ b \in Seq(S) /\ Len(b) = Len(s) - n /\ Apart(b)
             /\ \A y : y \in ToSet(s) <=> y \in ToSet(a) \/ y \in ToSet(b)
             /\ \A y \in ToSet(a) : y \notin ToSet(b)
<1> DEFINE a == SubSeq(s, 1, n)
           b == SubSeq(s, n + 1, Len(s))
           l == Len(s)
<1>1. l \in Nat /\ n \in Nat /\ n <= l
  BY LenProperties
<1>2. a \in Seq(S) /\ Len(a) = n /\ \A i \in 1 .. n : a[i] = s[i]
  BY <1>1, SubSeqProperties, ElementOfSeq
<1>3. b \in Seq(S) /\ Len(b) = l - n /\ \A i \in 1 .. l - n : b[i] = s[n + i]
  BY <1>1, SubSeqProperties, ElementOfSeq
<1>4. \A i, j \in 1 .. l : s[i] = s[j] => i = j
  BY DEF Apart
<1>5. \A y : y \in ToSet(s) <=> \E i \in 1 .. l : s[i] = y
  BY MembersOf
<1> HIDE DEF a, b, l
<1>6. /\ \A y : y \in ToSet(a) <=> \E i \in 1 .. n : a[i] = y
      /\ \A y : y \in ToSet(b) <=> \E i \in 1 .. l - n : b[i] = y
  <2>1. \A y : y \in ToSet(a) <=> \E i \in 1 .. Len(a) : a[i] = y
    BY <1>2, MembersOf
  <2>2. \A y : y \in ToSet(b) <=> \E i \in 1 .. Len(b) : b[i] = y
    BY <1>3, MembersOf
  <2>3. QED
    BY <2>1, <2>2, <1>2, <1>3
<1>7. Apart(a)
  BY <1>1, <1>2, <1>4 DEF Apart
<1>8. Apart(b)
  <2>1. ASSUME NEW i \in 1 .. l - n, NEW j \in 1 .. l - n, b[i] = b[j]
        PROVE  i = j
    <3>1. n + i \in 1 .. l /\ n + j \in 1 .. l /\ s[n + i] = s[n + j]
      BY <1>1, <1>3, <2>1
    <3>2. n + i = n + j
      BY <3>1, <1>4
    <3>3. QED
      BY <3>2, <1>1
  <2>2. QED
    BY <2>1, <1>3 DEF Apart
<1>9. ASSUME NEW y, y \in ToSet(s)
      PROVE  y \in ToSet(a) \/ y \in ToSet(b)
  <2>1. PICK i \in 1 .. l : s[i] = y
    BY <1>5, <1>9
  <2>2. CASE i <= n
    BY <2>1, <2>2, <1>1, <1>2, <1>6
  <2>3. CASE i > n
    <3>1. i - n \in 1 .. l - n /\ n + (i - n) = i
      BY <2>3, <1>1
    <3>2. b[i - n] = y
      BY <3>1, <2>1, <1>3
    <3>3. QED
      BY <3>1, <3>2, <1>6
  <2>4. QED
    BY <2>2, <2>3, <1>1
<1>10. ASSUME NEW y, y \in ToSet(a) \/ y \in ToSet(b)
       PROVE  y \in ToSet(s)
  <2>1. CASE y \in ToSet(a)
    <3>1. PICK i \in 1 .. n : a[i] = y
      BY <2>1, <1>6
    <3>2. i \in 1 .. l /\ s[i] = y
      BY <3>1, <1>1, <1>2
    <3>3. QED
      BY <3>2, <1>5
  <2>2. CASE y \in ToSet(b)
    <3>1. PICK i \in 1 .. l - n : b[i] = y
      BY <2>2, <1>6
    <3>2. n + i \in 1 .. l /\ s[n + i] = y
      BY <3>1, <1>1, <1>3
    <3>3. QED
      BY <3>2, <1>5
  <2>3. QED
    BY <1>10, <2>1, <2>2
<1>11. ASSUME NEW y, y \in ToSet(a), y \in ToSet(b)
       PROVE  FALSE
  <2>1. PICK i \in 1 .. n : a[i] = y
    BY <1>11, <1>6
  <2>2. PICK j \in 1 .. l - n : b[j] = y
    BY <1>11, <1>6
  <2>3. i \in 1 .. l /\ n + j \in 1 .. l /\ s[i] = y /\ s[n + j] = y /\ i # n + j
    BY <2>1, <2>2, <1>1, <1>2, <1>3
  <2>4. QED
    BY <2>3, <1>4
<1>12. QED
  BY <1>2, <1>3, <1>7, <1>8, <1>9, <1>10, <1>11 DEF a, b, l

\* Each queue holds nothing twice, and no two have anything in common.
EachApart(f, Q) ==
  /\ \A q \in Q : Apart(f[q])
  /\ \A q, r \in Q : \A y : Contains(f[q], y) /\ Contains(f[r], y) => q = r

\* That is what it means for a table of queues to be well linked.
LEMMA TableApart ==
  ASSUME NEW Q, NEW S, NEW f \in [Q -> Seq(S)]
  PROVE  /\ Table(f, Q, S) <=> EachApart(f, Q)
         /\ \A q \in Q : \A y : Contains(f[q], y) <=> y \in ToSet(f[q])
<1>1. ASSUME Table(f, Q, S), NEW q \in Q PROVE Apart(f[q])
  BY <1>1 DEF Table, Once, Apart
<1>2. ASSUME Table(f, Q, S), NEW q \in Q, NEW r \in Q, NEW y, Contains(f[q], y), Contains(f[r], y)
      PROVE  q = r
  BY <1>2, TableOneQueue
<1>3. ASSUME EachApart(f, Q)
      PROVE  Table(f, Q, S)
  <2>1. ASSUME NEW q \in Q, NEW r \in Q, NEW i \in 1 .. Len(f[q]), NEW j \in 1 .. Len(f[r]),
               f[q][i] = f[r][j]
        PROVE  q = r /\ i = j
    <3>1. Contains(f[q], f[q][i]) /\ Contains(f[r], f[q][i])
      BY <2>1 DEF Contains
    <3>2. q = r
      BY <3>1, <1>3 DEF EachApart
    <3>3. i = j
      BY <3>2, <2>1, <1>3 DEF Apart, EachApart
    <3>4. QED
      BY <3>2, <3>3
  <2>2. QED
    BY <2>1 DEF Table, Once
<1>4. ASSUME NEW q \in Q, NEW y
      PROVE  Contains(f[q], y) <=> y \in ToSet(f[q])
  <2>1. f[q] \in Seq(S)
    OBVIOUS
  <2>2. QED
    BY <2>1, MembersOf DEF Contains
<1>5. Table(f, Q, S) => EachApart(f, Q)
  BY <1>1, <1>2 DEF EachApart
<1>6. QED
  BY <1>3, <1>4, <1>5

\* g is f with the items of A on queue r instead.
Moves(g, f, Q, r, A) ==
  \A q \in Q : \A y : Contains(g[q], y) <=> IF y \in A THEN q = r ELSE Contains(f[q], y)

MovesFirst(g, f, Q, p, r, n, a) ==
  /\ g[p] = SubSeq(f[p], n + 1, Len(f[p])) /\ g[r] = f[r] \o a
  /\ \A q \in Q \ {p, r} : g[q] = f[q]

Moved(g, f, Q, S, p, r, n, a) ==
  /\ Table(g, Q, S) /\ Moves(g, f, Q, r, ToSet(a))
  /\ ToSet(a) \subseteq S /\ \A y \in ToSet(a) : Contains(f[p], y)
  /\ Len(g[p]) = Len(f[p]) - n /\ Len(g[r]) = Len(f[r]) + n

\* The first n of one queue are moved to the end of another (QIO_start, DQ_move).
LEMMA MoveTable ==
  ASSUME NEW Q, NEW S, NEW f, Table(f, Q, S), NEW p \in Q, NEW r \in Q, p # r,
         NEW n \in 0 .. Len(f[p]), NEW a, a = SubSeq(f[p], 1, n), NEW g \in [Q -> Seq(S)], MovesFirst(g, f, Q, p, r, n, a)
  PROVE  Moved(g, f, Q, S, p, r, n, a)
<1>1. f \in [Q -> Seq(S)] /\ f[p] \in Seq(S) /\ f[r] \in Seq(S)
  BY DEF Table
<1>2. /\ \A q \in Q : Apart(f[q])
      /\ \A q, t \in Q : \A y : Contains(f[q], y) /\ Contains(f[t], y) => q = t
      /\ \A q \in Q : \A y : Contains(f[q], y) <=> y \in ToSet(f[q])
  <2>1. EachApart(f, Q) /\ \A q \in Q : \A y : Contains(f[q], y) <=> y \in ToSet(f[q])
    BY <1>1, TableApart
  <2>2. QED
    BY <2>1 DEF EachApart
<1> DEFINE b == SubSeq(f[p], n + 1, Len(f[p]))
           c == f[r] \o a
<1>3. /\ a \in Seq(S) /\ Len(a) = n /\ Apart(a)
      /\ b \in Seq(S) /\ Len(b) = Len(f[p]) - n /\ Apart(b)
      /\ \A y : y \in ToSet(f[p]) <=> y \in ToSet(a) \/ y \in ToSet(b)
      /\ \A y \in ToSet(a) : y \notin ToSet(b)
  BY <1>1, <1>2, SplitApart
<1>4. \A x \in ToSet(f[r]) : x \notin ToSet(a)
  BY <1>2, <1>3
<1>5. /\ c \in Seq(S) /\ Len(c) = Len(f[r]) + n /\ Apart(c)
      /\ \A y : y \in ToSet(c) <=> y \in ToSet(f[r]) \/ y \in ToSet(a)
  <2>1. f[r] \in Seq(S) /\ a \in Seq(S) /\ Apart(f[r]) /\ Apart(a) /\ Len(a) = n
    BY <1>1, <1>2, <1>3
  <2>2. c \in Seq(S) /\ Len(c) = Len(f[r]) + Len(a)
    BY <2>1, ConcatProperties
  <2>3. Apart(c) /\ \A y : y \in ToSet(c) <=> y \in ToSet(f[r]) \/ y \in ToSet(a)
    BY ONLY <2>1, <1>4, ConcatApart
  <2>4. QED
    BY <2>1, <2>2, <2>3
<1>6. /\ g \in [Q -> Seq(S)] /\ g[p] = b /\ g[r] = c
      /\ \A q \in Q \ {p, r} : g[q] = f[q]
  BY DEF MovesFirst
<1> HIDE DEF b, c
<1>7. \A q \in Q : \A y : Contains(g[q], y) <=> y \in ToSet(g[q])
  <2>1. \A q \in Q : g[q] \in Seq(S)
    BY <1>6
  <2>2. QED
    BY <2>1, MembersOf DEF Contains
<1>8. ASSUME NEW q \in Q, NEW y
      PROVE  Contains(g[q], y) <=> IF y \in ToSet(a) THEN q = r ELSE Contains(f[q], y)
  <2>1. CASE q = p
    BY <2>1, <1>2, <1>3, <1>6, <1>7
  <2>2. CASE q = r
    BY <2>2, <1>2, <1>5, <1>6, <1>7
  <2>3. CASE q \notin {p, r}
    <3>1. Contains(g[q], y) <=> Contains(f[q], y)
      BY <2>3, <1>6
    <3>2. y \in ToSet(a) => ~Contains(f[q], y)
      BY <2>3, <1>2, <1>3
    <3>3. QED
      BY <2>3, <3>1, <3>2
  <2>4. QED
    BY <2>1, <2>2, <2>3
<1>9. Table(g, Q, S)
  <2>1. \A q \in Q : Apart(g[q])
    BY <1>2, <1>3, <1>5, <1>6
  <2>2. ASSUME NEW q \in Q, NEW t \in Q, NEW y, Contains(g[q], y), Contains(g[t], y)
        PROVE  q = t
    BY <2>2, <1>2, <1>8
  <2>3. QED
    <3>1. g \in [Q -> Seq(S)]
      BY <1>6
    <3>2. EachApart(g, Q)
      BY <2>1, <2>2 DEF EachApart
    <3>3. QED
      BY <3>1, <3>2, TableApart
<1>10. ToSet(a) \subseteq S
  BY <1>3, MembersOf
<1>11. \A y \in ToSet(a) : Contains(f[p], y)
  BY <1>2, <1>3
<1>12. QED
  BY <1>3, <1>5, <1>6, <1>8, <1>9, <1>10, <1>11 DEF Moves, Moved

\* The same, backwards.
Backwards(s) == [n \in 1 .. Len(s) |-> s[Len(s) + 1 - n]]

LEMMA BackwardsApart ==
  ASSUME NEW S, NEW s \in Seq(S), Apart(s)
  PROVE  /\ Backwards(s) \in Seq(S) /\ Len(Backwards(s)) = Len(s)
         /\ Apart(Backwards(s)) /\ ToSet(Backwards(s)) = ToSet(s)
<1> DEFINE l == Len(s)
           t == Backwards(s)
<1>1. l \in Nat /\ \A i \in 1 .. l : s[i] \in S
  BY LenProperties, ElementOfSeq
<1>2. \A i \in 1 .. l : l + 1 - i \in 1 .. l /\ t[i] = s[l + 1 - i]
  BY <1>1 DEF Backwards
<1>3. t \in Seq(S) /\ Len(t) = l
  <2> DEFINE u == [n \in 1 .. l |-> s[l + 1 - n]]
  <2>1. u \in [1 .. l -> S]
    BY <1>1, <1>2
  <2> HIDE DEF u, l
  <2>2. u \in Seq(S) /\ Len(u) = l
    BY <2>1, <1>1
  <2>3. QED
    BY <2>2 DEF u, l, Backwards
<1> HIDE DEF t
<1>4. /\ \A y : y \in ToSet(t) <=> \E i \in 1 .. l : t[i] = y
      /\ \A y : y \in ToSet(s) <=> \E i \in 1 .. l : s[i] = y
  BY <1>3, MembersOf
<1> HIDE DEF l
<1>5. ASSUME NEW i \in 1 .. l, NEW j \in 1 .. l, t[i] = t[j]
      PROVE  i = j
  <2>1. l + 1 - i = l + 1 - j
    BY <1>2, <1>5 DEF Apart, l
  <2>2. QED
    BY <2>1, <1>1
<1>6. Apart(t)
  BY <1>3, <1>5 DEF Apart
<1>7. ASSUME NEW y
      PROVE  y \in ToSet(t) <=> y \in ToSet(s)
  <2>1. ASSUME y \in ToSet(t) PROVE y \in ToSet(s)
    BY <2>1, <1>2, <1>4
  <2>2. ASSUME y \in ToSet(s) PROVE y \in ToSet(t)
    <3>1. PICK i \in 1 .. l : s[i] = y
      BY <2>2, <1>4
    <3>2. l + 1 - i \in 1 .. l /\ l + 1 - (l + 1 - i) = i
      BY <1>1
    <3>3. t[l + 1 - i] = s[l + 1 - (l + 1 - i)]
      BY <3>2, <1>2
    <3>4. QED
      BY <3>1, <3>2, <3>3, <1>4
  <2>3. QED
    BY <2>1, <2>2
<1>8. ToSet(t) = ToSet(s)
  BY <1>7
<1>9. QED
  BY <1>3, <1>6, <1>8 DEF t, l
-----------------------------------------------------------------------------
(* Remainders.                                                             *)

\* Quotient and remainder.
LEMMA ModRange ==
  ASSUME NEW n \in Nat \ {0}, NEW x \in Int
  PROVE  x % n \in 0 .. n - 1 /\ x = n * (x \div n) + (x % n) /\ x \div n \in Int
<1>1. x % n \in 0 .. n - 1
  OBVIOUS
<1>2. x \div n \in Int
  OBVIOUS
<1>3. x = n * (x \div n) + (x % n)
  BY Z3
<1>4. QED
  BY <1>1, <1>2, <1>3

\* A positive multiple of n is at least n.
LEMMA AtLeastOne ==
  ASSUME NEW n \in Nat \ {0}, NEW d \in Int, d >= 1
  PROVE  n * d >= n
OBVIOUS

\* A number has one remainder.
LEMMA OneRemainder ==
  ASSUME NEW n \in Nat \ {0}, NEW q \in Int, NEW p \in Int,
         NEW r \in 0 .. n - 1, NEW s \in 0 .. n - 1, n * q + r = n * p + s
  PROVE  r = s
<1>1. n * (q - p) = s - r /\ n * (p - q) = r - s
  OBVIOUS
<1>2. ~ (q - p >= 1) /\ ~ (p - q >= 1)
  BY <1>1, AtLeastOne
<1>3. q = p
  BY <1>2
<1>4. QED
  BY <1>1, <1>3

\* A remainder is known by its equation.
LEMMA ModIs ==
  ASSUME NEW n \in Nat \ {0}, NEW x \in Int, NEW q \in Int, NEW r \in 0 .. n - 1, x = n * q + r
  PROVE  x % n = r
BY ModRange, OneRemainder

\* Numbers below n are their own remainders.
LEMMA ModSmall ==
  ASSUME NEW n \in Nat \ {0}, NEW x \in 0 .. n - 1
  PROVE  x % n = x
<1>1. x \in Int /\ x = n * 0 + x
  OBVIOUS
<1>2. QED
  BY <1>1, ModIs

\* Numbers just below zero have theirs just below n.
LEMMA ModNegative ==
  ASSUME NEW n \in Nat \ {0}, NEW x \in Int, -n <= x, x < 0
  PROVE  x % n = x + n
<1>1. x + n \in 0 .. n - 1 /\ x = n * (-1) + (x + n)
  OBVIOUS
<1>2. QED
  BY <1>1, ModIs

\* A remainder can stand for its number in a sum ...
LEMMA ModPlus ==
  ASSUME NEW n \in Nat \ {0}, NEW x \in Int, NEW y \in Int
  PROVE  ((x % n) + y) % n = (x + y) % n
<1> DEFINE a == x \div n
           r == x % n
           b == (r + y) \div n
           s == (r + y) % n
<1>1. r \in Int /\ x = n * a + r /\ a \in Int
  BY ModRange
<1>2. s \in 0 .. n - 1 /\ r + y = n * b + s /\ b \in Int
  BY <1>1, ModRange
<1> HIDE DEF a, r, b, s
<1>3. x + y = n * (a + b) + s /\ a + b \in Int /\ x + y \in Int
  BY <1>1, <1>2
<1>4. (x + y) % n = s
  <2> DEFINE c == a + b
             z == x + y
  <2>1. z = n * c + s /\ c \in Int /\ z \in Int
    BY <1>3
  <2> HIDE DEF c, z
  <2>2. z % n = s
    BY <1>2, <2>1, ModIs
  <2>3. QED
    BY <2>2 DEF z
<1>5. QED
  BY <1>4 DEF s, r

\* ... and in a difference.
LEMMA ModMinus ==
  ASSUME NEW n \in Nat \ {0}, NEW x \in Int, NEW y \in Int
  PROVE  (y - (x % n)) % n = (y - x) % n
<1> DEFINE a == x \div n
           r == x % n
           b == (y - x) \div n
           s == (y - x) % n
<1>1. r \in Int /\ x = n * a + r /\ a \in Int
  BY ModRange
<1>2. s \in 0 .. n - 1 /\ y - x = n * b + s /\ b \in Int
  <2> DEFINE z == y - x
  <2>1. z \in Int
    OBVIOUS
  <2> HIDE DEF z
  <2>2. z % n \in 0 .. n - 1 /\ z = n * (z \div n) + (z % n) /\ z \div n \in Int
    BY <2>1, ModRange
  <2>3. QED
    BY <2>2 DEF z
<1> HIDE DEF a, r, b, s
<1>3. y - r = n * (a + b) + s /\ a + b \in Int /\ y - r \in Int
  BY <1>1, <1>2
<1>4. (y - r) % n = s
  <2> DEFINE c == a + b
             z == y - r
  <2>1. z = n * c + s /\ c \in Int /\ z \in Int
    BY <1>3
  <2> HIDE DEF c, z
  <2>2. z % n = s
    BY <1>2, <2>1, ModIs
  <2>3. QED
    BY <2>2 DEF z
<1>5. QED
  BY <1>4 DEF s, r

\* The remainder by a divisor of n can be taken of the remainder by n.
LEMMA ModOfMod ==
  ASSUME NEW m \in Nat \ {0}, NEW n \in Nat \ {0}, n % m = 0, NEW x \in Int
  PROVE  (x % n) % m = x % m
<1> DEFINE c == n \div m
           q == x \div n
           r == x % n
           p == r \div m
           s == r % m
<1>1. n = m * c /\ c \in Int
  BY ModRange
<1>2. x = n * q + r /\ q \in Int /\ r \in Int
  BY ModRange
<1>3. r = m * p + s /\ p \in Int /\ s \in 0 .. m - 1
  BY <1>2, ModRange
<1> HIDE DEF c, q, r, p, s
<1>4. x = m * (c * q + p) + s /\ c * q + p \in Int
  <2>1. n * q = m * (c * q)
    BY <1>1, <1>2
  <2>2. c * q \in Int
    BY <1>1, <1>2
  <2>3. x = m * (c * q) + (m * p + s)
    BY <2>1, <1>2, <1>3
  <2> DEFINE y == c * q
  <2> HIDE DEF y
  <2>4. m * y + (m * p + s) = m * (y + p) + s
    BY <2>2, <1>3 DEF y
  <2>5. QED
    BY <2>2, <2>3, <2>4, <1>3 DEF y
<1>5. x % m = s
  BY <1>3, <1>4, ModIs
<1>6. QED
  BY <1>5 DEF s, r

\* Numbers less than n apart have different remainders.
LEMMA ModApart ==
  ASSUME NEW n \in Nat \ {0}, NEW x \in Int, NEW y \in Int, x < y, y - x < n
  PROVE  x % n # y % n
<1> DEFINE p == x \div n
           q == y \div n
           r == x % n
           s == y % n
<1>1. x = n * p + r /\ y = n * q + s /\ p \in Int /\ q \in Int /\ r \in Int /\ s \in Int
  BY ModRange
<1> HIDE DEF p, q, r, s
<1>2. SUFFICES ASSUME r = s PROVE FALSE
  BY DEF r, s
<1>3. n * (q - p) = y - x
  BY <1>1, <1>2
<1>4. ~ (q - p >= 1)
  BY <1>1, <1>3, AtLeastOne
<1>5. q - p <= 0
  BY <1>1, <1>4
<1>6. n * (q - p) <= 0
  BY <1>1, <1>5
<1>7. QED
  BY <1>3, <1>6
-----------------------------------------------------------------------------
(* Rings: m places, counted by indices modulo n, a multiple of m.             *)

\* How far index b is behind index a.
Lag(a, b, n) == (a - b) % n

\* The rings of m places for items of T.
RingOf(T, m) == [0 .. m - 1 -> T]

\* What index i points at.
Slot(ring, i, m, n) == ring[(i % n) % m]

\* The l items from index b on.
Segment(ring, b, l, m, n) == [k \in 1 .. l |-> Slot(ring, b + k - 1, m, n)]

\* The lag in cases.
LEMMA LagIs ==
  ASSUME NEW n \in Nat \ {0}, NEW a \in 0 .. n - 1, NEW b \in 0 .. n - 1
  PROVE  /\ Lag(a, b, n) \in 0 .. n - 1
         /\ Lag(a, b, n) = IF a >= b THEN a - b ELSE a - b + n
<1> DEFINE x == a - b
<1>1. x \in Int /\ -n <= x /\ x < n
  OBVIOUS
<1> HIDE DEF x
<1>2. CASE x >= 0
  <2>1. x % n = x
    BY <1>1, <1>2, ModSmall
  <2>2. QED
    BY <2>1, <1>2 DEF x, Lag
<1>3. CASE x < 0
  <2>1. x % n = x + n
    BY <1>1, <1>3, ModNegative
  <2>2. QED
    BY <2>1, <1>3 DEF x, Lag
<1>4. QED
  BY <1>1, <1>2, <1>3

\* An index is counted up.
LEMMA NextIndex ==
  ASSUME NEW n \in Nat \ {0}, NEW a \in 0 .. n - 1
  PROVE  /\ (a + 1) % n \in 0 .. n - 1
         /\ (a + 1) % n = IF a + 1 = n THEN 0 ELSE a + 1
<1>1. CASE a + 1 = n
  <2>1. a + 1 \in Int /\ a + 1 = n * 1 + 0 /\ 0 \in 0 .. n - 1
    BY <1>1
  <2>2. (a + 1) % n = 0
    BY <2>1, ModIs
  <2>3. QED
    BY <2>2, <1>1
<1>2. CASE a + 1 # n
  BY <1>2, ModSmall
<1>3. QED
  BY <1>1, <1>2

\* The lag when the one or the other index is counted up.
LEMMA LagNext ==
  ASSUME NEW n \in Nat \ {0}, NEW a \in 0 .. n - 1, NEW b \in 0 .. n - 1
  PROVE  /\ Lag(a, b, n) + 1 < n => Lag((a + 1) % n, b, n) = Lag(a, b, n) + 1
         /\ a # b => Lag(a, (b + 1) % n, n) = Lag(a, b, n) - 1
         /\ a = b <=> Lag(a, b, n) = 0
<1> DEFINE u == (a + 1) % n
           v == (b + 1) % n
<1>1. u \in 0 .. n - 1 /\ u = IF a + 1 = n THEN 0 ELSE a + 1
  BY NextIndex
<1>2. v \in 0 .. n - 1 /\ v = IF b + 1 = n THEN 0 ELSE b + 1
  BY NextIndex
<1> HIDE DEF u, v
<1>3. Lag(a, b, n) = IF a >= b THEN a - b ELSE a - b + n
  BY LagIs
<1>4. Lag(u, b, n) = IF u >= b THEN u - b ELSE u - b + n
  BY <1>1, LagIs
<1>5. Lag(a, v, n) = IF a >= v THEN a - v ELSE a - v + n
  BY <1>2, LagIs
<1>6. Lag(a, b, n) + 1 < n => Lag(u, b, n) = Lag(a, b, n) + 1
  BY <1>1, <1>3, <1>4
<1>7. a # b => Lag(a, v, n) = Lag(a, b, n) - 1
  BY <1>2, <1>3, <1>5
<1>8. a = b <=> Lag(a, b, n) = 0
  BY <1>3
<1>9. QED
  BY <1>6, <1>7, <1>8 DEF u, v

\* A segment is a sequence of what the ring holds.
LEMMA SegmentIsSeq ==
  ASSUME NEW T, NEW m \in Nat \ {0}, NEW n \in Nat \ {0}, NEW ring \in RingOf(T, m),
         NEW b \in Int, NEW l \in Nat
  PROVE  /\ Segment(ring, b, l, m, n) \in Seq(T)
         /\ Len(Segment(ring, b, l, m, n)) = l
         /\ \A k \in 1 .. l : Segment(ring, b, l, m, n)[k] = Slot(ring, b + k - 1, m, n)
<1>1. ASSUME NEW k \in 1 .. l
      PROVE  Slot(ring, b + k - 1, m, n) \in T
  <2> DEFINE x == (b + k - 1) % n
  <2>1. x \in Int
    BY ModRange
  <2> HIDE DEF x
  <2>2. x % m \in 0 .. m - 1
    BY <2>1, ModRange
  <2>3. QED
    BY <2>2 DEF x, Slot, RingOf
<1>2. Segment(ring, b, l, m, n) \in [1 .. l -> T]
  BY <1>1 DEF Segment
<1>3. \A k \in 1 .. l : Segment(ring, b, l, m, n)[k] = Slot(ring, b + k - 1, m, n)
  BY DEF Segment
<1> DEFINE s == Segment(ring, b, l, m, n)
<1> HIDE DEF s
<1>4. s \in Seq(T) /\ Len(s) = l
  <2>1. s \in [1 .. l -> T]
    BY <1>2 DEF s
  <2>2. QED
    BY <2>1
<1>5. QED
  BY <1>3, <1>4 DEF s

\* The place after a segment that reaches up to index a is that of a.
LEMMA SegmentEnds ==
  ASSUME NEW n \in Nat \ {0}, NEW a \in 0 .. n - 1, NEW b \in 0 .. n - 1
  PROVE  (b + Lag(a, b, n)) % n = a
<1> DEFINE x == b + Lag(a, b, n)
<1>1. /\ Lag(a, b, n) \in 0 .. n - 1
      /\ Lag(a, b, n) = IF a >= b THEN a - b ELSE a - b + n
  BY LagIs
<1>2. (x = a \/ x = a + n) /\ x \in Int
  BY <1>1
<1> HIDE DEF x
<1>3. CASE x = a
  BY <1>3, ModSmall DEF x
<1>4. CASE x = a + n
  <2>1. x = n * 1 + a
    BY <1>4
  <2>2. x % n = a
    BY <1>2, <2>1, ModIs
  <2>3. QED
    BY <2>2 DEF x
<1>5. QED
  BY <1>2, <1>3, <1>4 DEF x

\* What is put where index a points, and counted, is at the end of the segment.
LEMMA SegmentGrows ==
  ASSUME NEW T, NEW m \in Nat \ {0}, NEW n \in Nat \ {0}, NEW ring \in RingOf(T, m),
         NEW a \in 0 .. n - 1, NEW b \in 0 .. n - 1, NEW l \in Nat, l = Lag(a, b, n)
  PROVE  Segment(ring, b, l + 1, m, n) = Append(Segment(ring, b, l, m, n), ring[a % m])
<1> DEFINE s == Segment(ring, b, l, m, n)
           t == Segment(ring, b, l + 1, m, n)
<1>1. l \in Nat /\ l + 1 \in Nat /\ b \in Int
  <2>1. Lag(a, b, n) \in 0 .. n - 1
    BY LagIs
  <2>2. QED
    BY <2>1
<1>2. s \in Seq(T) /\ Len(s) = l /\ \A k \in 1 .. l : s[k] = Slot(ring, b + k - 1, m, n)
  BY <1>1, SegmentIsSeq
<1>3. t \in Seq(T) /\ Len(t) = l + 1 /\ \A k \in 1 .. l + 1 : t[k] = Slot(ring, b + k - 1, m, n)
  BY <1>1, SegmentIsSeq
<1>4. ring[a % m] \in T
  <2>1. a \in Int
    OBVIOUS
  <2>2. a % m \in 0 .. m - 1
    BY <2>1, ModRange
  <2>3. QED
    BY <2>2 DEF RingOf
<1>5. /\ Append(s, ring[a % m]) \in Seq(T) /\ Len(Append(s, ring[a % m])) = l + 1
      /\ Append(s, ring[a % m])[l + 1] = ring[a % m]
      /\ \A k \in 1 .. l : Append(s, ring[a % m])[k] = s[k]
  BY <1>2, <1>4, AppendProperties
<1>6. t[l + 1] = ring[a % m]
  <2>1. t[l + 1] = Slot(ring, b + (l + 1) - 1, m, n)
    BY <1>1, <1>3
  <2>2. b + (l + 1) - 1 = b + l
    BY <1>1
  <2>3. (b + l) % n = a
    BY SegmentEnds
  <2>4. QED
    BY <2>1, <2>2, <2>3 DEF Slot
<1> HIDE DEF s, t
<1>7. \A k \in 1 .. l + 1 : t[k] = Append(s, ring[a % m])[k]
  BY <1>1, <1>2, <1>3, <1>5, <1>6
<1>8. t = Append(s, ring[a % m])
  BY <1>3, <1>5, <1>7, SeqEqual
<1>9. QED
  BY <1>8 DEF s, t

\* A segment without its first item begins at the next index.
LEMMA SegmentShrinks ==
  ASSUME NEW T, NEW m \in Nat \ {0}, NEW n \in Nat \ {0}, NEW ring \in RingOf(T, m),
         NEW b \in 0 .. n - 1, NEW l \in Nat, l # 0
  PROVE  /\ Segment(ring, b, l, m, n) # <<>>
         /\ Segment(ring, (b + 1) % n, l - 1, m, n) = Tail(Segment(ring, b, l, m, n))
<1> DEFINE s == Segment(ring, b, l, m, n)
           c == (b + 1) % n
           t == Segment(ring, c, l - 1, m, n)
<1>1. c \in Int /\ l - 1 \in Nat
  BY NextIndex
<1>2. s \in Seq(T) /\ Len(s) = l /\ \A k \in 1 .. l : s[k] = Slot(ring, b + k - 1, m, n)
  <2>1. l \in Nat /\ b \in Int
    OBVIOUS
  <2>2. QED
    BY <2>1, SegmentIsSeq
<1>3. t \in Seq(T) /\ Len(t) = l - 1 /\ \A k \in 1 .. l - 1 : t[k] = Slot(ring, c + k - 1, m, n)
  <2> HIDE DEF c
  <2>1. QED
    BY <1>1, SegmentIsSeq
<1>4. s # <<>>
  BY <1>2, EmptySeq
<1>5. Tail(s) \in Seq(T) /\ Len(Tail(s)) = l - 1 /\ \A k \in 1 .. l - 1 : Tail(s)[k] = s[k + 1]
  BY <1>2, <1>4, HeadTailProperties
<1>6. ASSUME NEW k \in 1 .. l - 1
      PROVE  t[k] = Tail(s)[k]
  <2> DEFINE x == b + 1
             y == k - 1
  <2>1. x \in Int /\ y \in Int /\ c + k - 1 = c + y /\ b + (k + 1) - 1 = x + y
    BY <1>1
  <2>2. (c + y) % n = (x + y) % n
    <3> HIDE DEF x, y
    <3>1. ((x % n) + y) % n = (x + y) % n
      BY <2>1, ModPlus
    <3>2. QED
      BY <3>1 DEF x
  <2>3. t[k] = Slot(ring, c + k - 1, m, n)
    BY <1>3
  <2>4. s[k + 1] = Slot(ring, b + (k + 1) - 1, m, n)
    BY <1>2
  <2>5. t[k] = s[k + 1]
    BY <2>1, <2>2, <2>3, <2>4 DEF Slot
  <2>6. QED
    BY <2>5, <1>5
<1> HIDE DEF s, t
<1>7. t = Tail(s)
  BY <1>3, <1>5, <1>6, SeqEqual
<1>8. QED
  BY <1>4, <1>7 DEF s, t, c

\* The first item of a segment is what its index points at.
LEMMA SegmentBegins ==
  ASSUME NEW T, NEW m \in Nat \ {0}, NEW n \in Nat \ {0}, NEW ring \in RingOf(T, m),
         NEW b \in 0 .. n - 1, NEW l \in Nat, l # 0, NEW i, i = b % m
  PROVE  Head(Segment(ring, b, l, m, n)) = ring[i]
<1> DEFINE s == Segment(ring, b, l, m, n)
<1>1. s \in Seq(T) /\ Len(s) = l /\ \A k \in 1 .. l : s[k] = Slot(ring, b + k - 1, m, n)
  <2>1. b \in Int
    OBVIOUS
  <2>2. QED
    BY <2>1, SegmentIsSeq
<1> HIDE DEF s
<1>2. Head(s) = s[1]
  BY <1>1, EmptySeq, HeadTailProperties
<1>3. s[1] = Slot(ring, b + 1 - 1, m, n)
  BY <1>1
<1>4. b + 1 - 1 = b /\ b % n = b
  BY ModSmall
<1>5. QED
  BY <1>2, <1>3, <1>4 DEF s, Slot

\* What is put where index a points leaves a segment of less than the ring alone.
LEMMA SegmentKept ==
  ASSUME NEW T, NEW m \in Nat \ {0}, NEW n \in Nat \ {0}, n % m = 0,
         NEW ring \in RingOf(T, m), NEW a \in 0 .. n - 1, NEW b \in 0 .. n - 1,
         NEW l, l = Lag(a, b, n), l < m, NEW x \in T
  PROVE  Segment([ring EXCEPT ![a % m] = x], b, l, m, n) = Segment(ring, b, l, m, n)
<1> DEFINE e == [ring EXCEPT ![a % m] = x]
<1>1. l \in Nat /\ b \in Int /\ a \in Int
  <2>1. Lag(a, b, n) \in 0 .. n - 1
    BY LagIs
  <2>2. QED
    BY <2>1
<1>2. ASSUME NEW k \in 1 .. l
      PROVE  Slot(e, b + k - 1, m, n) = Slot(ring, b + k - 1, m, n)
  <2> DEFINE p == b + k - 1
             q == b + l
  <2>1. p \in Int /\ q \in Int /\ p < q /\ q - p < m
    BY <1>1
  <2>2. q % n = a
    BY SegmentEnds
  <2> HIDE DEF p, q
  <2>3. (p % n) % m = p % m /\ (q % n) % m = q % m
    BY <2>1, ModOfMod
  <2>4. p % m # q % m
    BY <2>1, ModApart
  <2>5. (p % n) % m # a % m
    BY <2>2, <2>3, <2>4
  <2>6. p % m \in 0 .. m - 1
    BY <2>1, ModRange
  <2>7. e[(p % n) % m] = ring[(p % n) % m]
    BY <2>3, <2>5, <2>6 DEF RingOf
  <2>8. QED
    BY <2>7 DEF p, Slot
<1>3. QED
  BY <1>2 DEF Segment
=============================================================================
