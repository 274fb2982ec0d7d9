------------------------- MODULE ImportExportProofs -------------------------
(* A semaphore that tasks of other hardware threads use, with any threads,     *)
(* tasks, amounts and sequence numbers, where it is used as SafeUse says: no   *)
(* unit is lost or made, no sleeper is forgotten, and all threads see one      *)
(* counting semaphore.                                                         *)
EXTENDS ImportExport, QueueLemmas, FiniteSetTheorems

-----------------------------------------------------------------------------
(* Sums of numbers, and what they are after a step.                           *)

\* A sum of numbers f[x] as a set with as many elements: f[x] for each x.
Bundle(f, S) == {p \in S \X Nat : p[2] \in 1 .. f[p[1]]}
Numbers(f, S) == \A x \in S : f[x] \in Nat

\* A bundle of finitely many numbers is finite.
LEMMA BundleFinite ==
  ASSUME NEW S, IsFiniteSet(S), NEW f, Numbers(f, S)
  PROVE  IsFiniteSet(Bundle(f, S))
<1> DEFINE g == [x \in S |-> {x} \X (1 .. f[x])]
           T == {g[x] : x \in S}
<1>1. g \in Surjection(S, T)
  BY DEF Surjection
<1>2. \A B \in T : IsFiniteSet(B)
  <2>1. ASSUME NEW x \in S PROVE IsFiniteSet(g[x])
    <3>0. 1 \in Int /\ f[x] \in Int
      BY DEF Numbers
    <3>1. IsFiniteSet({x}) /\ IsFiniteSet(1 .. f[x])
      BY ONLY <3>0, FS_Singleton, FS_Interval
    <3>2. IsFiniteSet({x} \X (1 .. f[x]))
      BY ONLY <3>1, FS_Product
    <3>3. QED
      BY <3>2
  <2>2. QED
    BY <2>1
<1>3. Bundle(f, S) = UNION T
  <2>1. ASSUME NEW p \in Bundle(f, S) PROVE p \in UNION T
    <3>1. p[1] \in S /\ p \in {p[1]} \X (1 .. f[p[1]])
      BY DEF Bundle
    <3>2. p \in g[p[1]] /\ g[p[1]] \in T
      BY <3>1
    <3>3. QED
      BY <3>2
  <2>2. ASSUME NEW x \in S, NEW p \in g[x] PROVE p \in Bundle(f, S)
    BY DEF Bundle, Numbers
  <2>3. QED
    BY <2>1, <2>2
<1> HIDE DEF g, T
<1>4. IsFiniteSet(T)
  BY <1>1, FS_Surjection
<1>5. QED
  BY <1>2, <1>3, <1>4, FS_UNION

\* One more number adds to the count.
LEMMA BundleGrows ==
  ASSUME NEW S, NEW f, NEW x, x \notin S, Numbers(f, S \cup {x}),
         IsFiniteSet(Bundle(f, S))
  PROVE  /\ IsFiniteSet(Bundle(f, S \cup {x}))
         /\ Cardinality(Bundle(f, S \cup {x})) = Cardinality(Bundle(f, S)) + f[x]
<1> DEFINE B == Bundle(f, S)
           N == {x} \X (1 .. f[x])
<1>1. f[x] \in Nat
  BY DEF Numbers
<1>2. IsFiniteSet(N) /\ Cardinality(N) = f[x]
  <2>1. IsFiniteSet({x}) /\ Cardinality({x}) = 1
    BY FS_Singleton
  <2>2. IsFiniteSet(1 .. f[x]) /\ Cardinality(1 .. f[x]) = f[x]
    BY <1>1, FS_Interval
  <2>3. IsFiniteSet(N) /\ Cardinality(N) = Cardinality({x}) * Cardinality(1 .. f[x])
    BY ONLY <2>1, <2>2, FS_Product
  <2>4. QED
    BY <1>1, <2>1, <2>2, <2>3
<1>3. Bundle(f, S \cup {x}) = B \cup N
  <2>1. ASSUME NEW p \in Bundle(f, S \cup {x}) PROVE p \in B \cup N
    BY <1>1 DEF Bundle
  <2>2. ASSUME NEW p \in B \cup N PROVE p \in Bundle(f, S \cup {x})
    BY <1>1 DEF Bundle
  <2>3. QED
    BY <2>1, <2>2
<1>4. B \cap N = {}
  BY DEF Bundle
<1> HIDE DEF B, N
<1>5. IsFiniteSet(B \cup N)
      /\ Cardinality(B \cup N) = Cardinality(B) + Cardinality(N) - Cardinality(B \cap N)
  BY <1>2, FS_Union DEF B
<1>6. Cardinality(B \cap N) = 0 /\ Cardinality(B) \in Nat
  BY <1>4, FS_EmptySet, FS_CardinalityType DEF B
<1>7. IsFiniteSet(B \cup N) /\ Cardinality(B \cup N) = Cardinality(B) + f[x]
  BY ONLY <1>1, <1>2, <1>5, <1>6
<1>8. QED
  BY <1>3, <1>7, Zenon DEF B

AddsUp(sum, f, S) ==
  /\ sum[{}] = 0
  /\ \A s \in SUBSET S : s # {} =>
       \E x \in s : sum[s \ {x}] \in Nat => sum[s] = f[x] + sum[s \ {x}]

\* What adds the numbers up one by one, in whatever order, counts them.
LEMMA AddingIsCounting ==
  ASSUME NEW S, IsFiniteSet(S), NEW f, Numbers(f, S), NEW sum, AddsUp(sum, f, S)
  PROVE  \A s \in SUBSET S : sum[s] = Cardinality(Bundle(f, s))
<1> DEFINE Counts(s) == sum[s] = Cardinality(Bundle(f, s))
           Bad == {Cardinality(s) : s \in {r \in SUBSET S : ~Counts(r)}}
<1>1. ASSUME Bad # {} PROVE FALSE
  <2>1. \A s \in SUBSET S : IsFiniteSet(s) /\ Cardinality(s) \in Nat
    BY FS_Subset, FS_CardinalityType
  <2>2. Bad \in SUBSET Nat
    BY <2>1
  <2>3. PICK s \in SUBSET S : ~Counts(s) /\ \A n \in Bad : Cardinality(s) <= n
    <3>1. Min(Bad) \in Bad /\ \A n \in Bad : Min(Bad) <= n
      <4> HIDE DEF Bad
      <4> QED BY ONLY <1>1, <2>2, MinProperties
    <3> DEFINE n == Min(Bad)
    <3>2. n \in Bad /\ \A j \in Bad : n <= j
      BY <3>1
    <3> HIDE DEF n
    <3>3. PICK s \in SUBSET S : ~Counts(s) /\ n = Cardinality(s)
      BY <3>2
    <3>4. QED
      BY <3>2, <3>3
  <2>4. s # {}
    <3>1. Bundle(f, {}) = {}
      BY DEF Bundle
    <3>2. QED
      BY <3>1, <2>3, FS_EmptySet DEF AddsUp
  <2>5. PICK x \in s : sum[s \ {x}] \in Nat => sum[s] = f[x] + sum[s \ {x}]
    BY <2>4 DEF AddsUp
  <2> DEFINE r == s \ {x}
  <2>6. r \in SUBSET S /\ Cardinality(r) = Cardinality(s) - 1
    BY <2>1, FS_RemoveElement
  <2>7. Counts(r)
    <3>1. Cardinality(s) \in Nat /\ ~(Cardinality(s) <= Cardinality(r))
      BY <2>1, <2>6
    <3>2. Cardinality(r) \notin Bad
      <4> HIDE DEF Bad
      <4> QED BY ONLY <2>3, <3>1
    <3>3. QED
      BY <3>2, <2>6
  <2>8. x \notin r /\ s = r \cup {x} /\ Numbers(f, r \cup {x})
    BY DEF Numbers
  <2> HIDE DEF r
  <2>9. /\ IsFiniteSet(Bundle(f, s))
        /\ Cardinality(Bundle(f, s)) = Cardinality(Bundle(f, r)) + f[x]
    <3>1. IsFiniteSet(Bundle(f, r))
      BY <2>1, <2>6, <2>8, BundleFinite DEF Numbers
    <3>2. /\ IsFiniteSet(Bundle(f, r \cup {x}))
          /\ Cardinality(Bundle(f, r \cup {x})) = Cardinality(Bundle(f, r)) + f[x]
      BY ONLY <3>1, <2>8, BundleGrows
    <3>3. QED
      BY <3>2, <2>8, Zenon
  <2>10. f[x] \in Nat /\ Cardinality(Bundle(f, r)) \in Nat
    <3>1. IsFiniteSet(Bundle(f, r))
      BY <2>1, <2>6, <2>8, BundleFinite DEF Numbers
    <3>2. QED
      BY <3>1, FS_CardinalityType DEF Numbers
  <2>11. Counts(s)
    BY <2>5, <2>7, <2>9, <2>10 DEF r
  <2>12. QED
    BY <2>3, <2>11
<1>2. QED
  BY <1>1

LEMMA SumIsCount ==
  ASSUME NEW S, IsFiniteSet(S), NEW f, Numbers(f, S)
  PROVE  Sum(f, S) = Cardinality(Bundle(f, S)) /\ IsFiniteSet(Bundle(f, S))
<1> DEFINE ch(s) == CHOOSE x \in s : TRUE
           F(g) == [s \in SUBSET S |-> IF s = {} THEN 0 ELSE f[ch(s)] + g[s \ {ch(s)}]]
           w == [s \in SUBSET S |-> Cardinality(Bundle(f, s))]
           iter == CHOOSE g : g = F(g)
<1>1. Sum(f, S) = iter[S]
  BY DEF Sum, MapThenSumSet, MapThenFoldSet
<1> HIDE DEF ch
<1>2. \A s \in SUBSET S : s # {} => ch(s) \in s
  BY DEF ch
<1>3. w = F(w)
  <2>1. ASSUME NEW s \in SUBSET S
        PROVE  w[s] = IF s = {} THEN 0 ELSE f[ch(s)] + w[s \ {ch(s)}]
    <3>1. CASE s = {}
      <4>1. Bundle(f, {}) = {}
        BY DEF Bundle
      <4>2. QED
        BY <3>1, <4>1, FS_EmptySet
    <3>2. CASE s # {}
      <4> DEFINE x == ch(s)
                 r == s \ {x}
      <4>1. x \in s /\ r \in SUBSET S
        BY <3>2, <1>2
      <4>2. x \notin r /\ s = r \cup {x} /\ Numbers(f, r \cup {x}) /\ Numbers(f, r)
        BY <4>1 DEF Numbers
      <4>3. w[s] = Cardinality(Bundle(f, s)) /\ w[r] = Cardinality(Bundle(f, r))
        BY <4>1
      <4> HIDE DEF r, x, w
      <4>4. IsFiniteSet(Bundle(f, r))
        BY <4>1, <4>2, FS_Subset, BundleFinite
      <4>5. Cardinality(Bundle(f, r \cup {x})) = Cardinality(Bundle(f, r)) + f[x]
        BY ONLY <4>2, <4>4, BundleGrows
      <4>6. f[x] \in Nat /\ Cardinality(Bundle(f, r)) \in Nat
        BY <4>1, <4>4, FS_CardinalityType DEF Numbers
      <4>7. w[s] = f[x] + w[r]
        BY <4>2, <4>3, <4>5, <4>6
      <4>8. QED
        BY <3>2, <4>7 DEF r, x
    <3>3. QED
      BY <3>1, <3>2
  <2> HIDE DEF ch
  <2>2. QED
    BY <2>1
<1> HIDE DEF w
<1>4. iter = F(iter)
  <2> HIDE DEF F
  <2>1. QED
    BY <1>3
<1>5. iter[{}] = 0
  <2> HIDE DEF iter
  <2>1. {} \in SUBSET S
    OBVIOUS
  <2>2. QED
    BY <1>4, <2>1
<1>6. \A s \in SUBSET S : s # {} =>
        \E x \in s : iter[s \ {x}] \in Nat => iter[s] = f[x] + iter[s \ {x}]
  <2> HIDE DEF iter
  <2>1. ASSUME NEW s \in SUBSET S, s # {}
        PROVE  iter[s] = f[ch(s)] + iter[s \ {ch(s)}]
    BY <1>4, <2>1
  <2>2. QED
    BY <2>1, <1>2
<1> HIDE DEF iter
<1>7. \A s \in SUBSET S : iter[s] = Cardinality(Bundle(f, s))
  <2>1. AddsUp(iter, f, S)
    BY ONLY <1>5, <1>6 DEF AddsUp
  <2>2. QED
    BY <2>1, AddingIsCounting
<1>8. QED
  BY <1>1, <1>7, BundleFinite

LEMMA SumProperties ==
  ASSUME NEW S, IsFiniteSet(S), NEW f, Numbers(f, S)
  PROVE  /\ Sum(f, S) \in Nat
         /\ S = {} => Sum(f, S) = 0
<1>1. Sum(f, S) = Cardinality(Bundle(f, S)) /\ IsFiniteSet(Bundle(f, S))
  BY SumIsCount
<1>2. S = {} => Bundle(f, S) = {}
  BY DEF Bundle
<1>3. QED
  BY <1>1, <1>2, FS_EmptySet, FS_CardinalityType

\* A sum depends on the numbers that are added, and on nothing else.
LEMMA SumSame ==
  ASSUME NEW S, IsFiniteSet(S), NEW f, Numbers(f, S), NEW g, \A x \in S : g[x] = f[x]
  PROVE  Sum(g, S) = Sum(f, S)
<1>1. Bundle(g, S) = Bundle(f, S)
  BY DEF Bundle
<1>2. Numbers(g, S)
  BY DEF Numbers
<1>3. Sum(f, S) = Cardinality(Bundle(f, S)) /\ Sum(g, S) = Cardinality(Bundle(g, S))
  BY <1>2, SumIsCount
<1>4. QED
  BY <1>1, <1>3

LEMMA SumAdd ==
  ASSUME NEW S, IsFiniteSet(S), NEW f, NEW x, x \notin S, Numbers(f, S \cup {x})
  PROVE  Sum(f, S \cup {x}) = Sum(f, S) + f[x]
<1> DEFINE T == S \cup {x}
<1>1. IsFiniteSet(T) /\ Numbers(f, S)
  BY FS_AddElement DEF Numbers
<1>2. Sum(f, S) = Cardinality(Bundle(f, S)) /\ IsFiniteSet(Bundle(f, S))
  BY <1>1, SumIsCount
<1>3. Cardinality(Bundle(f, T)) = Cardinality(Bundle(f, S)) + f[x]
  BY <1>2, BundleGrows
<1>4. Sum(f, T) = Cardinality(Bundle(f, T))
  <2> HIDE DEF T
  <2>1. Numbers(f, T)
    BY DEF T
  <2>2. QED
    BY ONLY <1>1, <2>1, SumIsCount
<1>5. QED
  BY <1>2, <1>3, <1>4

\* One of the numbers changes.
LEMMA SumChange ==
  ASSUME NEW S, IsFiniteSet(S), NEW f, Numbers(f, S), NEW g, NEW x \in S, g[x] \in Nat,
         \A y \in S : y # x => g[y] = f[y]
  PROVE  Sum(g, S) = Sum(f, S) - f[x] + g[x]
<1> DEFINE R == S \ {x}
<1>1. /\ IsFiniteSet(R) /\ x \notin R /\ S = R \cup {x}
      /\ Numbers(f, R) /\ \A y \in R : g[y] = f[y]
  BY FS_RemoveElement DEF Numbers
<1>2. Numbers(f, R \cup {x}) /\ Numbers(g, R \cup {x})
  BY <1>1 DEF Numbers
<1> HIDE DEF R
<1>3. Sum(f, R \cup {x}) = Sum(f, R) + f[x] /\ Sum(g, R \cup {x}) = Sum(g, R) + g[x]
  BY ONLY <1>1, <1>2, SumAdd
<1>4. Sum(g, R) = Sum(f, R) /\ Sum(f, R) \in Nat
  BY ONLY <1>1, SumSame, SumProperties
<1>5. f[x] \in Nat
  BY DEF Numbers
<1>6. Sum(f, S) = Sum(f, R) + f[x] /\ Sum(g, S) = Sum(g, R) + g[x]
  BY ONLY <1>1, <1>3
<1>7. QED
  BY <1>4, <1>5, <1>6

LEMMA SumBounds ==
  ASSUME NEW S, IsFiniteSet(S), NEW f, Numbers(f, S), NEW x \in S
  PROVE  f[x] <= Sum(f, S)
<1> DEFINE g == [y \in S |-> IF y = x THEN 0 ELSE f[y]]
<1>1. /\ Numbers(g, S) /\ g[x] = 0 /\ g[x] \in Nat /\ f[x] \in Nat
      /\ \A y \in S : y # x => g[y] = f[y]
  BY DEF Numbers
<1> HIDE DEF g
<1>2. Sum(g, S) = Sum(f, S) - f[x] + g[x] /\ Sum(g, S) \in Nat /\ Sum(f, S) \in Nat
  BY <1>1, SumChange, SumProperties
<1>3. QED
  BY <1>1, <1>2

\* The units of the requests to set in a queue of requests.
SetUnits(m) == IF m.cmd = "set" THEN m.n ELSE 0
Units(s) == [i \in 1 .. Len(s) |-> SetUnits(s[i])]
Coming(s) == FoldLeft(LAMBDA r, m : IF m.cmd = "set" THEN r + m.n ELSE r, 0, s)

UnitRequests(s) == \A i \in 1 .. Len(s) : s[i].n \in Nat

LEMMA MaxProperties ==
  ASSUME NEW n \in Nat, NEW I \in SUBSET (1 .. n), I # {}
  PROVE  Max(I) \in I
<1> DEFINE J == {n - i : i \in I}
<1>1. J \in SUBSET Nat /\ J # {}
  <2>1. \A i \in I : n - i \in Nat
    OBVIOUS
  <2>2. QED
    BY <2>1
<1>2. Min(J) \in J /\ \A j \in J : Min(J) <= j
  <2> HIDE DEF J
  <2> QED BY <1>1, MinProperties
<1> DEFINE m == Min(J)
<1>3. m \in J /\ \A j \in J : m <= j
  BY <1>2
<1> HIDE DEF m
<1>4. PICK i \in I : m = n - i
  BY <1>3
<1>5. ASSUME NEW j \in I PROVE i >= j
  <2>1. n - j \in J /\ i \in Int /\ j \in Int
    OBVIOUS
  <2>2. m <= n - j
    BY <1>3, <2>1
  <2>3. QED
    BY <1>4, <2>1, <2>2
<1>6. QED
  BY <1>5 DEF Max

LEMMA ComingIsSum ==
  ASSUME NEW S, NEW s \in Seq(S), UnitRequests(s)
  PROVE  /\ Coming(s) = Sum(Units(s), 1 .. Len(s))
         /\ IsFiniteSet(1 .. Len(s)) /\ Numbers(Units(s), 1 .. Len(s))
<1> DEFINE I == 1 .. Len(s)
           u == Units(s)
           F(g) == [r \in SUBSET I |-> IF r = {} THEN 0
                      ELSE IF s[Max(r)].cmd = "set"
                             THEN g[r \ {Max(r)}] + s[Max(r)].n ELSE g[r \ {Max(r)}]]
           w == [r \in SUBSET I |-> Sum(u, r)]
           iter == CHOOSE g : g = F(g)
<1>1. DOMAIN s = I /\ Len(s) \in Nat
  BY LenProperties
<1>2. Coming(s) = iter[I]
  BY <1>1 DEF Coming, FoldLeft, MapThenFoldSet
<1>3. IsFiniteSet(I) /\ Numbers(u, I)
  BY <1>1, FS_Interval DEF Numbers, Units, UnitRequests, SetUnits
<1>4. \A r \in SUBSET I : r # {} => Max(r) \in r
  BY <1>1, MaxProperties
<1>5. \A r \in SUBSET I : IsFiniteSet(r) /\ Numbers(u, r) /\ Sum(u, r) \in Nat
  <2>1. ASSUME NEW r \in SUBSET I PROVE IsFiniteSet(r) /\ Numbers(u, r)
    BY <1>3, FS_Subset DEF Numbers
  <2> HIDE DEF u
  <2>2. QED
    BY <2>1, SumProperties
<1>6. \A i \in I : u[i] = IF s[i].cmd = "set" THEN s[i].n ELSE 0
  BY DEF Units, SetUnits
<1>7. \A i \in I : s[i].n \in Nat
  BY DEF UnitRequests
<1> HIDE DEF u
<1>8. w = F(w)
  <2>1. ASSUME NEW r \in SUBSET I
        PROVE  w[r] = IF r = {} THEN 0
                      ELSE IF s[Max(r)].cmd = "set"
                             THEN w[r \ {Max(r)}] + s[Max(r)].n ELSE w[r \ {Max(r)}]
    <3>1. CASE r = {}
      <4>1. Sum(u, r) = 0
        BY <3>1, <1>5, SumProperties
      <4>2. QED
        BY <3>1, <4>1
    <3>2. CASE r # {}
      <4> DEFINE x == Max(r)
                 q == r \ {x}
      <4>1. x \in r /\ q \in SUBSET I /\ x \in I
        BY <3>2, <1>4
      <4>2. w[r] = Sum(u, r) /\ w[q] = Sum(u, q)
        BY <4>1
      <4>3. x \notin q /\ r = q \cup {x}
        BY <4>1
      <4> HIDE DEF q, x, w
      <4>4. IsFiniteSet(q) /\ Numbers(u, q \cup {x}) /\ Sum(u, q) \in Nat
        BY <4>1, <4>3, <1>5
      <4>5. Sum(u, q \cup {x}) = Sum(u, q) + u[x]
        BY ONLY <4>3, <4>4, SumAdd
      <4>6. w[r] = IF s[x].cmd = "set" THEN w[q] + s[x].n ELSE w[q]
        BY <4>1, <4>2, <4>3, <4>4, <4>5, <1>6, <1>7
      <4>7. QED
        BY <3>2, <4>6 DEF q, x
    <3>3. QED
      BY <3>1, <3>2
  <2>2. QED
    BY <2>1
<1> HIDE DEF w
<1>9. iter = F(iter)
  <2> HIDE DEF F
  <2>1. QED
    BY <1>8
<1> HIDE DEF iter
<1>10. iter[{}] = 0
  <2>1. {} \in SUBSET I
    OBVIOUS
  <2>2. QED
    BY <1>9, <2>1
<1>11. \A r \in SUBSET I : r # {} =>
         \E x \in r : iter[r \ {x}] \in Nat => iter[r] = u[x] + iter[r \ {x}]
  <2>1. ASSUME NEW r \in SUBSET I, r # {}
        PROVE  \E x \in r : iter[r \ {x}] \in Nat => iter[r] = u[x] + iter[r \ {x}]
    <3> DEFINE x == Max(r)
    <3>1. x \in r /\ x \in I
      BY <2>1, <1>4
    <3>2. iter[r] = IF s[x].cmd = "set" THEN iter[r \ {x}] + s[x].n ELSE iter[r \ {x}]
      BY <2>1, <1>9
    <3> HIDE DEF x
    <3>3. iter[r \ {x}] \in Nat => iter[r] = u[x] + iter[r \ {x}]
      BY <3>1, <3>2, <1>6, <1>7
    <3>4. QED
      BY <3>1, <3>3
  <2>2. QED
    BY <2>1
<1> HIDE DEF F
<1>12. \A r \in SUBSET I : iter[r] = Cardinality(Bundle(u, r))
  <2>1. AddsUp(iter, u, I)
    BY ONLY <1>10, <1>11 DEF AddsUp
  <2> HIDE DEF I
  <2>2. QED
    BY ONLY <1>3, <2>1, AddingIsCounting
<1>13. Sum(u, I) = Cardinality(Bundle(u, I))
  BY <1>3, SumIsCount
<1>14. Coming(s) = Sum(u, I)
  BY <1>2, <1>12, <1>13
<1>15. QED
  BY <1>3, <1>14 DEF u

\* The units of what is added at the end of a queue, or handled at its front.
LEMMA ComingAppend ==
  ASSUME NEW S, NEW s \in Seq(S), UnitRequests(s), NEW m \in S, m.n \in Nat
  PROVE  /\ UnitRequests(Append(s, m))
         /\ Coming(s) \in Nat
         /\ Coming(Append(s, m)) = Coming(s) + SetUnits(m)
<1> DEFINE t == Append(s, m)
           n == Len(s)
<1>1. /\ n \in Nat /\ t \in Seq(S) /\ Len(t) = n + 1 /\ t[n + 1] = m
      /\ \A i \in 1 .. n : t[i] = s[i]
  BY AppendProperties
<1> HIDE DEF t
<1>2. UnitRequests(t)
  BY <1>1 DEF UnitRequests
<1>3. /\ Coming(s) = Sum(Units(s), 1 .. n)
      /\ IsFiniteSet(1 .. n) /\ Numbers(Units(s), 1 .. n)
  BY ComingIsSum
<1>4. /\ Coming(t) = Sum(Units(t), 1 .. n + 1)
      /\ Numbers(Units(t), 1 .. n + 1)
  BY <1>1, <1>2, ComingIsSum
<1>5. 1 .. n + 1 = (1 .. n) \cup {n + 1} /\ n + 1 \notin 1 .. n
  BY <1>1
<1>6. \A i \in 1 .. n : Units(t)[i] = Units(s)[i]
  BY <1>1 DEF Units
<1>7. Units(t)[n + 1] = SetUnits(m)
  BY <1>1 DEF Units
<1>8. Sum(Units(t), 1 .. n) = Sum(Units(s), 1 .. n) /\ Sum(Units(s), 1 .. n) \in Nat
  <2> HIDE DEF n
  <2> QED BY ONLY <1>3, <1>6, SumSame, SumProperties
<1>9. Sum(Units(t), (1 .. n) \cup {n + 1}) = Sum(Units(t), 1 .. n) + Units(t)[n + 1]
  <2> DEFINE e == n + 1
             I == 1 .. n
             w == Units(t)
  <2>1. Numbers(w, I \cup {e}) /\ IsFiniteSet(I) /\ e \notin I
    BY <1>3, <1>4, <1>5
  <2>2. Sum(w, I \cup {e}) = Sum(w, I) + w[e]
    <3> HIDE DEF e, I, w
    <3> QED BY ONLY <2>1, SumAdd
  <2>3. QED
    BY <2>2
<1>10. QED
  BY <1>2, <1>3, <1>4, <1>5, <1>7, <1>8, <1>9 DEF t

LEMMA ComingTail ==
  ASSUME NEW S, NEW s \in Seq(S), UnitRequests(s), s # <<>>
  PROVE  /\ UnitRequests(Tail(s))
         /\ Coming(s) \in Nat
         /\ Coming(Tail(s)) = Coming(s) - SetUnits(Head(s))
<1> DEFINE t == Tail(s)
           n == Len(t)
           R == 2 .. n + 1
           u == Units(s)
           v == Units(t)
<1>1. /\ n \in Nat /\ t \in Seq(S) /\ Len(s) = n + 1 /\ Head(s) = s[1]
      /\ \A i \in 1 .. n : t[i] = s[i + 1]
  BY HeadTailProperties
<1> HIDE DEF t
<1>2. UnitRequests(t)
  BY <1>1 DEF UnitRequests
<1>3. Coming(t) = Sum(v, 1 .. n) /\ IsFiniteSet(1 .. n) /\ Numbers(v, 1 .. n)
  BY <1>1, <1>2, ComingIsSum
<1>4. Coming(s) = Sum(u, 1 .. n + 1) /\ Numbers(u, 1 .. n + 1) /\ IsFiniteSet(1 .. n + 1)
  BY <1>1, ComingIsSum
<1>5. 1 .. n + 1 = R \cup {1} /\ 1 \notin R /\ R \subseteq 1 .. n + 1
  BY <1>1
<1>6. \A i \in 1 .. n : v[i] = u[i + 1]
  BY <1>1 DEF Units
<1>7. u[1] = SetUnits(Head(s))
  BY <1>1 DEF Units
<1>8. IsFiniteSet(R) /\ Numbers(u, R)
  BY <1>4, <1>5, FS_Subset DEF Numbers
<1> HIDE DEF u, v
<1>9. Cardinality(Bundle(v, 1 .. n)) = Cardinality(Bundle(u, R))
  <2> DEFINE f == [p \in Bundle(v, 1 .. n) |-> <<p[1] + 1, p[2]>>]
  <2>1. \A p \in Bundle(v, 1 .. n) : f[p] \in Bundle(u, R)
    BY <1>1, <1>6 DEF Bundle
  <2>2. \A p, q \in Bundle(v, 1 .. n) : f[p] = f[q] => p = q
    BY <1>1 DEF Bundle
  <2>3. ASSUME NEW q \in Bundle(u, R) PROVE \E p \in Bundle(v, 1 .. n) : f[p] = q
    <3> DEFINE p == <<q[1] - 1, q[2]>>
    <3>1. p \in Bundle(v, 1 .. n) /\ <<p[1] + 1, p[2]>> = q
      BY <1>1, <1>6 DEF Bundle
    <3>2. QED
      BY <3>1
  <2>4. f \in Bijection(Bundle(v, 1 .. n), Bundle(u, R))
    <3> HIDE DEF f
    <3>1. f \in [Bundle(v, 1 .. n) -> Bundle(u, R)]
      BY <2>1 DEF f
    <3>2. QED
      BY <3>1, <2>2, <2>3 DEF Bijection, Injection, Surjection, IsInjective
  <2>5. IsFiniteSet(Bundle(v, 1 .. n))
    BY <1>3, BundleFinite
  <2> HIDE DEF f
  <2>6. QED
    BY <2>4, <2>5, FS_Bijection DEF ExistsBijection
<1>10. Sum(v, 1 .. n) = Sum(u, R) /\ Sum(u, R) \in Nat
  <2> HIDE DEF n, R
  <2>1. Sum(v, 1 .. n) = Cardinality(Bundle(v, 1 .. n)) /\ Sum(u, R) = Cardinality(Bundle(u, R))
    BY ONLY <1>3, <1>8, SumIsCount
  <2>2. QED
    BY <2>1, <1>8, <1>9, SumProperties
<1>11. Sum(u, R \cup {1}) = Sum(u, R) + u[1]
  <2> DEFINE e == 1
  <2>1. Numbers(u, R \cup {e}) /\ e \notin R
    BY <1>4, <1>5
  <2>2. Sum(u, R \cup {e}) = Sum(u, R) + u[e]
    <3> HIDE DEF R, e
    <3> QED BY ONLY <1>8, <2>1, SumAdd
  <2>3. QED
    BY <2>2
<1>12. u[1] \in Nat
  BY <1>1, <1>4 DEF Numbers
<1>13. Coming(s) = Coming(t) + u[1]
  BY <1>3, <1>4, <1>5, <1>10, <1>11
<1>14. Coming(t) \in Nat
  BY <1>3, <1>10
<1>15. Coming(s) \in Nat /\ Coming(t) = Coming(s) - SetUnits(Head(s))
  BY <1>7, <1>12, <1>13, <1>14
<1>16. QED
  BY <1>2, <1>15 DEF t

-----------------------------------------------------------------------------
(* How the semaphore has to be used: one task of each client thread, which has *)
(* all the time there is or none; numbers enough for the requests there can    *)
(* be; and copies that do not begin with the number of a probe that is late.   *)

SafeUse ==
  /\ \A t, u \in Task : Home[t] = Home[u] /\ Home[t] \in Client => t = u
  /\ \A t \in Task : Home[t] \in Client => "ticks" \notin Timeouts[t]
  /\ Initial < Wrap
  /\ \A s \in Starts : s.exported \/ s.first # 0

-----------------------------------------------------------------------------
(* The requests of a client that it has no answer to, in the order in which    *)
(* they were sent: the answers that are coming, then the requests on the way.  *)

AckOf(m, ok) == [type |-> "ack", to |-> m, ok |-> ok]
Notification == [type |-> "notify"]

Asked(U, D, m) == Contains(U, m) \/ \E ok \in BOOLEAN : Contains(D, AckOf(m, ok))

\* How many requests were counted after the one with number s, where a is the
\* number of the next.
Age(a, s) == IF s < a THEN a - 1 - s ELSE a - 1 - s + Wrap

\* Request m was sent before n: a probe comes first, a test last.
Before(a, m, n) ==
  \/ m.cmd = "set" /\ n.cmd # "import" /\ Age(a, m.seq) > Age(a, n.seq)
  \/ m.cmd = "import" /\ n.cmd = "test"

InOrder(a, U, D) ==
  /\ \A i, j \in 1 .. Len(U) : i < j => Before(a, U[i], U[j])
  /\ \A i, j \in 1 .. Len(D) :
       i < j /\ D[i].type = "ack" /\ D[j].type = "ack" => Before(a, D[i].to, D[j].to)
  /\ \A i \in 1 .. Len(D), j \in 1 .. Len(U) : D[i].type = "ack" => Before(a, D[i].to, U[j])

\* A NOTIFY comes last to a client that has imported the object; before, nothing
\* but the refusal of a probe comes before it.
Turn(done, x, y) ==
  IF done THEN x # Notification ELSE y = Notification => x.type = "ack" /\ ~x.ok
InTurn(done, D) == \A i, j \in 1 .. Len(D) : i < j => Turn(done, D[i], D[j])

LEMMA ResponseCases ==
  ASSUME NEW r \in Response
  PROVE  \/ r.type = "notify" /\ r = Notification
         \/ /\ r.type = "ack" /\ r.to \in Request /\ r.ok \in BOOLEAN
            /\ r = AckOf(r.to, r.ok)
BY DEF Response, AckOf, Notification

LEMMA Responses ==
  /\ Notification \in Response /\ Notification.type = "notify"
  /\ \A m \in Request, ok \in BOOLEAN :
       /\ AckOf(m, ok) \in Response /\ AckOf(m, ok).type = "ack"
       /\ AckOf(m, ok).to = m /\ AckOf(m, ok).ok = ok /\ AckOf(m, ok) # Notification
BY DEF Response, AckOf, Notification

LEMMA AckOfIs ==
  \A x, m \in Request, o, ok \in BOOLEAN : AckOf(x, o) = AckOf(m, ok) => x = m /\ (o <=> ok)
<1>1. ASSUME NEW x \in Request, NEW m \in Request, NEW o \in BOOLEAN, NEW ok \in BOOLEAN,
             AckOf(x, o) = AckOf(m, ok)
      PROVE  x = m /\ o = ok
  BY <1>1, Responses
<1>2. QED
  BY <1>1

LEMMA RequestFields ==
  ASSUME NEW m \in Request
  PROVE  /\ m.cmd \in {"import", "test", "set"} /\ m.seq \in 0 .. Wrap - 1
         /\ m.wait \in BOOLEAN /\ m.n \in Amount \cup {0}
         /\ m.seq \in Int /\ m.n \in Nat /\ Wrap \in Nat
<1>1. /\ m.cmd \in {"import", "test", "set"} /\ m.seq \in 0 .. Wrap - 1
      /\ m.wait \in BOOLEAN /\ m.n \in Amount \cup {0}
  BY DEF Request
<1>2. Wrap \in Nat /\ Amount \subseteq Nat
  BY ImportExportAssumption
<1>3. m.n \in Nat
  <2>1. 0 \in Nat
    OBVIOUS
  <2>2. QED
    BY <1>1, <1>2, <2>1, Zenon
<1>4. m.seq \in Int
  BY <1>1, <1>2
<1>5. QED
  BY <1>1, <1>2, <1>3, <1>4

LEMMA ContainsAppend ==
  ASSUME NEW S, NEW s \in Seq(S), NEW x \in S
  PROVE  \A y : Contains(Append(s, x), y) <=> Contains(s, y) \/ y = x
<1> DEFINE t == Append(s, x)
<1>1. /\ Len(s) \in Nat /\ Len(t) = Len(s) + 1 /\ t[Len(s) + 1] = x
      /\ \A i \in 1 .. Len(s) : t[i] = s[i]
  BY AppendProperties
<1> HIDE DEF t
<1>2. ASSUME NEW y PROVE Contains(t, y) <=> Contains(s, y) \/ y = x
  <2>1. ASSUME NEW i \in 1 .. Len(t), t[i] = y PROVE Contains(s, y) \/ y = x
    <3>1. i = Len(s) + 1 \/ i \in 1 .. Len(s)
      BY <1>1
    <3>2. QED
      BY <1>1, <2>1, <3>1 DEF Contains
  <2>2. ASSUME Contains(s, y) PROVE Contains(t, y)
    BY <1>1, <2>2 DEF Contains
  <2>3. Contains(t, x)
    <3>1. Len(s) + 1 \in 1 .. Len(t)
      BY <1>1
    <3>2. QED
      BY <1>1, <3>1 DEF Contains
  <2>4. QED
    BY <2>1, <2>2, <2>3 DEF Contains
<1>3. QED
  BY <1>2 DEF t

LEMMA ContainsTail ==
  ASSUME NEW S, NEW s \in Seq(S), s # <<>>
  PROVE  /\ Head(s) \in S /\ Tail(s) \in Seq(S) /\ Contains(s, Head(s))
         /\ \A y : Contains(s, y) <=> y = Head(s) \/ Contains(Tail(s), y)
<1> DEFINE t == Tail(s)
<1>1. /\ t \in Seq(S) /\ Len(s) \in Nat /\ Len(t) = Len(s) - 1 /\ Head(s) = s[1] /\ Len(s) # 0
      /\ \A i \in 1 .. Len(t) : t[i] = s[i + 1]
  BY HeadTailProperties, EmptySeq, LenProperties
<1> HIDE DEF t
<1>2. 1 \in 1 .. Len(s) /\ s[1] \in S
  BY <1>1, ElementOfSeq
<1>3. ASSUME NEW y PROVE Contains(s, y) <=> y = Head(s) \/ Contains(t, y)
  <2>1. ASSUME NEW i \in 1 .. Len(s), s[i] = y, i # 1 PROVE Contains(t, y)
    <3>1. i - 1 \in 1 .. Len(t) /\ (i - 1) + 1 = i
      BY <1>1, <2>1
    <3>2. t[i - 1] = y
      BY <1>1, <2>1, <3>1
    <3>3. QED
      BY <3>1, <3>2 DEF Contains
  <2>2. ASSUME NEW i \in 1 .. Len(t), t[i] = y PROVE Contains(s, y)
    <3>1. i + 1 \in 1 .. Len(s) /\ s[i + 1] = y
      BY <1>1, <2>2
    <3>2. QED
      BY <3>1 DEF Contains
  <2>3. Contains(s, s[1])
    BY <1>2 DEF Contains
  <2>4. QED
    BY <1>1, <2>1, <2>2, <2>3 DEF Contains
<1>4. QED
  BY <1>1, <1>2, <1>3 DEF t, Contains

\* A request is sent; it is answered; an answer arrives; a NOTIFY comes or arrives.
LEMMA AskedSent ==
  ASSUME NEW U \in Seq(Request), NEW D, NEW m \in Request
  PROVE  \A x : Asked(Append(U, m), D, x) <=> Asked(U, D, x) \/ x = m
BY ContainsAppend DEF Asked

LEMMA AskedAnswered ==
  ASSUME NEW U \in Seq(Request), NEW D \in Seq(Response), U # <<>>, NEW ok \in BOOLEAN
  PROVE  \A x \in Request :
           Asked(Tail(U), Append(D, AckOf(Head(U), ok)), x) <=> Asked(U, D, x)
<1> DEFINE m == Head(U)
           E == Append(D, AckOf(m, ok))
<1>1. m \in Request /\ \A x : Contains(U, x) <=> x = m \/ Contains(Tail(U), x)
  BY ContainsTail
<1>2. AckOf(m, ok) \in Response
  BY <1>1, Responses
<1>3. \A y : Contains(E, y) <=> Contains(D, y) \/ y = AckOf(m, ok)
  BY <1>2, ContainsAppend
<1> HIDE DEF m, E
<1>4. \A x \in Request, o \in BOOLEAN : AckOf(x, o) = AckOf(m, ok) => x = m
  BY <1>1, Responses
<1>5. ASSUME NEW x \in Request PROVE Asked(Tail(U), E, x) <=> Asked(U, D, x)
  BY <1>1, <1>3, <1>4 DEF Asked
<1>6. QED
  BY <1>5 DEF E, m

LEMMA AskedNotified ==
  ASSUME NEW U, NEW D \in Seq(Response)
  PROVE  \A x \in Request : Asked(U, Append(D, Notification), x) <=> Asked(U, D, x)
<1>1. \A y : Contains(Append(D, Notification), y) <=> Contains(D, y) \/ y = Notification
  BY Responses, ContainsAppend
<1>2. QED
  BY <1>1, Responses DEF Asked

LEMMA AskedTold ==
  ASSUME NEW U, NEW D \in Seq(Response), D # <<>>
  PROVE  /\ Head(D) \in Response /\ Tail(D) \in Seq(Response)
         /\ Head(D).type = "notify" =>
              \A x \in Request : Asked(U, Tail(D), x) <=> Asked(U, D, x)
         /\ Head(D).type = "ack" =>
              \A x \in Request : Asked(U, D, x) <=> x = Head(D).to \/ Asked(U, Tail(D), x)
<1> DEFINE r == Head(D)
<1>1. /\ r \in Response /\ Tail(D) \in Seq(Response)
      /\ \A y : Contains(D, y) <=> y = r \/ Contains(Tail(D), y)
  BY ContainsTail
<1> HIDE DEF r
<1>2. ASSUME r.type = "notify", NEW x \in Request
      PROVE  Asked(U, Tail(D), x) <=> Asked(U, D, x)
  <2>1. \A ok \in BOOLEAN : AckOf(x, ok) # r
    BY <1>2, Responses
  <2>2. QED
    BY <1>1, <2>1 DEF Asked
<1>3. ASSUME r.type = "ack", NEW x \in Request
      PROVE  Asked(U, D, x) <=> x = r.to \/ Asked(U, Tail(D), x)
  <2>1. r.to \in Request /\ r.ok \in BOOLEAN /\ r = AckOf(r.to, r.ok)
    BY <1>1, <1>3, ResponseCases, Responses
  <2>2. \A ok \in BOOLEAN : AckOf(x, ok) = r => x = r.to
    BY <2>1, Responses
  <2>3. QED
    BY <1>1, <2>1, <2>2 DEF Asked
<1>4. QED
  BY <1>1, <1>2, <1>3 DEF r

\* Everything that is asked is somewhere.
LEMMA AskedAt ==
  ASSUME NEW U \in Seq(Request), NEW D \in Seq(Response)
  PROVE  /\ \A j \in 1 .. Len(U) : U[j] \in Request /\ Asked(U, D, U[j])
         /\ \A i \in 1 .. Len(D) :
              D[i].type = "ack" => D[i].to \in Request /\ Asked(U, D, D[i].to)
<1>1. ASSUME NEW j \in 1 .. Len(U) PROVE U[j] \in Request /\ Asked(U, D, U[j])
  BY ElementOfSeq DEF Asked, Contains
<1>2. ASSUME NEW i \in 1 .. Len(D), D[i].type = "ack"
      PROVE  D[i].to \in Request /\ Asked(U, D, D[i].to)
  <2>1. D[i] \in Response
    BY ElementOfSeq
  <2>2. D[i].to \in Request /\ D[i].ok \in BOOLEAN /\ D[i] = AckOf(D[i].to, D[i].ok)
    BY <1>2, <2>1, ResponseCases, Responses
  <2>3. Contains(D, D[i])
    BY DEF Contains
  <2>4. QED
    BY <2>2, <2>3 DEF Asked
<1>3. QED
  BY <1>1, <1>2

-----------------------------------------------------------------------------
(* The order of the requests after each of these.                             *)

LEMMA OrderSent ==
  ASSUME NEW a, NEW b, NEW U \in Seq(Request), NEW D \in Seq(Response), InOrder(a, U, D),
         NEW m \in Request,
         \A x \in Request : Asked(U, D, x) => Before(b, x, m),
         \A x, y \in Request : Asked(U, D, x) /\ Asked(U, D, y) /\ Before(a, x, y) => Before(b, x, y)
  PROVE  InOrder(b, Append(U, m), D)
<1> DEFINE V == Append(U, m)
<1>1. /\ Len(U) \in Nat /\ Len(V) = Len(U) + 1 /\ V[Len(U) + 1] = m
      /\ \A i \in 1 .. Len(U) : V[i] = U[i]
  BY AppendProperties
<1>2. /\ \A j \in 1 .. Len(U) : U[j] \in Request /\ Asked(U, D, U[j])
      /\ \A i \in 1 .. Len(D) :
           D[i].type = "ack" => D[i].to \in Request /\ Asked(U, D, D[i].to)
  BY AskedAt
<1> HIDE DEF V
<1>3. \A j \in 1 .. Len(V) : j = Len(U) + 1 \/ j \in 1 .. Len(U)
  BY <1>1
<1>4. ASSUME NEW i \in 1 .. Len(V), NEW j \in 1 .. Len(V), i < j PROVE Before(b, V[i], V[j])
  <2>1. i \in 1 .. Len(U)
    BY <1>1, <1>4
  <2>2. CASE j \in 1 .. Len(U)
    BY <1>1, <1>2, <1>4, <2>1, <2>2 DEF InOrder
  <2>3. CASE j = Len(U) + 1
    BY <1>1, <1>2, <2>1, <2>3
  <2>4. QED
    BY <1>3, <2>2, <2>3
<1>5. ASSUME NEW i \in 1 .. Len(D), NEW j \in 1 .. Len(D), i < j,
             D[i].type = "ack", D[j].type = "ack"
      PROVE  Before(b, D[i].to, D[j].to)
  BY <1>2, <1>5 DEF InOrder
<1>6. ASSUME NEW i \in 1 .. Len(D), NEW j \in 1 .. Len(V), D[i].type = "ack"
      PROVE  Before(b, D[i].to, V[j])
  <2>1. CASE j \in 1 .. Len(U)
    BY <1>1, <1>2, <1>6, <2>1 DEF InOrder
  <2>2. CASE j = Len(U) + 1
    BY <1>1, <1>2, <1>6, <2>2
  <2>3. QED
    BY <1>3, <2>1, <2>2
<1>7. InOrder(b, V, D)
  BY <1>4, <1>5, <1>6 DEF InOrder
<1>8. QED
  BY <1>7 DEF V

LEMMA OrderAnswered ==
  ASSUME NEW a, NEW U \in Seq(Request), NEW D \in Seq(Response), InOrder(a, U, D), U # <<>>,
         NEW ok \in BOOLEAN
  PROVE  InOrder(a, Tail(U), Append(D, AckOf(Head(U), ok)))
<1> DEFINE V == Tail(U)
           E == Append(D, AckOf(Head(U), ok))
<1>1. /\ V \in Seq(Request) /\ Len(U) \in Nat /\ Len(V) = Len(U) - 1 /\ Len(U) # 0
      /\ Head(U) = U[1]
      /\ \A i \in 1 .. Len(V) : V[i] = U[i + 1]
  BY HeadTailProperties, EmptySeq, LenProperties
<1>2. 1 \in 1 .. Len(U) /\ U[1] \in Request /\ Head(U) \in Request
  BY <1>1, ElementOfSeq
<1>3. AckOf(Head(U), ok) \in Response /\ AckOf(Head(U), ok).to = U[1]
  BY <1>1, <1>2, Responses
<1>4. /\ Len(D) \in Nat /\ Len(E) = Len(D) + 1 /\ E[Len(D) + 1].to = U[1]
      /\ \A i \in 1 .. Len(D) : E[i] = D[i]
  BY <1>3, AppendProperties
<1> HIDE DEF V, E
<1>5. \A j \in 1 .. Len(E) : j = Len(D) + 1 \/ j \in 1 .. Len(D)
  BY <1>4
<1>6. \A j \in 1 .. Len(V) : j + 1 \in 1 .. Len(U) /\ 1 < j + 1 /\ V[j] = U[j + 1]
  BY <1>1
<1>7. ASSUME NEW i \in 1 .. Len(V), NEW j \in 1 .. Len(V), i < j PROVE Before(a, V[i], V[j])
  <2>1. i + 1 < j + 1
    BY <1>1, <1>7
  <2>2. QED
    BY <1>6, <2>1 DEF InOrder
<1>8. ASSUME NEW i \in 1 .. Len(E), NEW j \in 1 .. Len(E), i < j,
             E[i].type = "ack", E[j].type = "ack"
      PROVE  Before(a, E[i].to, E[j].to)
  <2>1. i \in 1 .. Len(D)
    BY <1>4, <1>8
  <2>2. CASE j \in 1 .. Len(D)
    BY <1>4, <1>8, <2>1, <2>2 DEF InOrder
  <2>3. CASE j = Len(D) + 1
    BY <1>2, <1>4, <1>8, <2>1, <2>3 DEF InOrder
  <2>4. QED
    BY <1>5, <2>2, <2>3
<1>9. ASSUME NEW i \in 1 .. Len(E), NEW j \in 1 .. Len(V), E[i].type = "ack"
      PROVE  Before(a, E[i].to, V[j])
  <2>1. CASE i \in 1 .. Len(D)
    BY <1>4, <1>6, <1>9, <2>1 DEF InOrder
  <2>2. CASE i = Len(D) + 1
    BY <1>2, <1>4, <1>6, <2>2 DEF InOrder
  <2>3. QED
    BY <1>5, <2>1, <2>2
<1>10. InOrder(a, V, E)
  BY <1>7, <1>8, <1>9 DEF InOrder
<1>11. QED
  BY <1>10 DEF V, E

LEMMA OrderNotified ==
  ASSUME NEW a, NEW U, NEW D \in Seq(Response), InOrder(a, U, D)
  PROVE  InOrder(a, U, Append(D, Notification))
<1> DEFINE E == Append(D, Notification)
<1>1. /\ Len(D) \in Nat /\ Len(E) = Len(D) + 1 /\ E[Len(D) + 1].type = "notify"
      /\ \A i \in 1 .. Len(D) : E[i] = D[i]
  BY Responses, AppendProperties
<1> HIDE DEF E
<1>2. \A j \in 1 .. Len(E) : E[j].type = "ack" => j \in 1 .. Len(D) /\ E[j] = D[j]
  <2>1. \A j \in 1 .. Len(E) : j = Len(D) + 1 \/ j \in 1 .. Len(D)
    BY <1>1
  <2>2. QED
    BY <1>1, <2>1
<1>3. InOrder(a, U, E)
  BY <1>2 DEF InOrder
<1>4. QED
  BY <1>3 DEF E

\* What arrives at a client was sent before all that is still asked.
LEMMA OrderTold ==
  ASSUME NEW a, NEW U \in Seq(Request), NEW D \in Seq(Response), InOrder(a, U, D), D # <<>>
  PROVE  /\ InOrder(a, U, Tail(D))
         /\ Head(D).type = "ack" =>
              \A x \in Request : Asked(U, Tail(D), x) => Before(a, Head(D).to, x)
<1> DEFINE E == Tail(D)
<1>1. /\ E \in Seq(Response) /\ Len(D) \in Nat /\ Len(E) = Len(D) - 1 /\ Len(D) # 0
      /\ Head(D) = D[1]
      /\ \A i \in 1 .. Len(E) : E[i] = D[i + 1]
  BY HeadTailProperties, EmptySeq, LenProperties
<1> HIDE DEF E
<1>2. 1 \in 1 .. Len(D) /\ \A j \in 1 .. Len(E) : j + 1 \in 1 .. Len(D) /\ 1 < j + 1 /\ E[j] = D[j + 1]
  BY <1>1
<1>3. InOrder(a, U, E)
  <2>1. ASSUME NEW i \in 1 .. Len(E), NEW j \in 1 .. Len(E), i < j,
               E[i].type = "ack", E[j].type = "ack"
        PROVE  Before(a, E[i].to, E[j].to)
    <3>1. i + 1 < j + 1
      BY <1>1, <2>1
    <3>2. QED
      BY <1>2, <2>1, <3>1 DEF InOrder
  <2>2. ASSUME NEW i \in 1 .. Len(E), NEW j \in 1 .. Len(U), E[i].type = "ack"
        PROVE  Before(a, E[i].to, U[j])
    BY <1>2, <2>2 DEF InOrder
  <2>3. QED
    BY <2>1, <2>2 DEF InOrder
<1>4. ASSUME Head(D).type = "ack", NEW x \in Request, Asked(U, E, x)
      PROVE  Before(a, Head(D).to, x)
  <2>1. CASE Contains(U, x)
    BY <1>1, <1>2, <1>4, <2>1 DEF InOrder, Contains
  <2>2. ASSUME NEW ok \in BOOLEAN, Contains(E, AckOf(x, ok))
        PROVE  Before(a, Head(D).to, x)
    <3>1. PICK j \in 1 .. Len(E) : E[j] = AckOf(x, ok)
      BY <2>2 DEF Contains
    <3>2. D[j + 1].type = "ack" /\ D[j + 1].to = x
      BY <1>2, <3>1, Responses
    <3>3. QED
      BY <1>1, <1>2, <1>4, <3>2 DEF InOrder
  <2>3. QED
    BY <1>4, <2>1, <2>2 DEF Asked
<1>5. QED
  BY <1>3, <1>4 DEF E

LEMMA TurnAppend ==
  ASSUME NEW done, NEW D \in Seq(Response), InTurn(done, D), NEW r \in Response,
         \A x \in Response : Contains(D, x) => Turn(done, x, r)
  PROVE  InTurn(done, Append(D, r))
<1> DEFINE E == Append(D, r)
<1>1. /\ Len(D) \in Nat /\ Len(E) = Len(D) + 1 /\ E[Len(D) + 1] = r
      /\ \A i \in 1 .. Len(D) : E[i] = D[i]
  BY AppendProperties
<1> HIDE DEF E
<1>2. ASSUME NEW i \in 1 .. Len(E), NEW j \in 1 .. Len(E), i < j PROVE Turn(done, E[i], E[j])
  <2>1. i \in 1 .. Len(D) /\ D[i] \in Response /\ Contains(D, D[i])
    BY <1>1, <1>2, ElementOfSeq DEF Contains
  <2>2. j = Len(D) + 1 \/ j \in 1 .. Len(D)
    BY <1>1
  <2>3. QED
    BY <1>1, <1>2, <2>1, <2>2 DEF InTurn
<1>3. QED
  BY <1>2 DEF E, InTurn

LEMMA TurnTail ==
  ASSUME NEW done, NEW D \in Seq(Response), InTurn(done, D), D # <<>>
  PROVE  /\ InTurn(done, Tail(D))
         /\ \A x : Contains(Tail(D), x) => Turn(done, Head(D), x)
<1> DEFINE E == Tail(D)
<1>1. /\ E \in Seq(Response) /\ Len(D) \in Nat /\ Len(E) = Len(D) - 1 /\ Len(D) # 0
      /\ Head(D) = D[1]
      /\ \A i \in 1 .. Len(E) : E[i] = D[i + 1]
  BY HeadTailProperties, EmptySeq, LenProperties
<1> HIDE DEF E
<1>2. 1 \in 1 .. Len(D) /\ \A j \in 1 .. Len(E) : j + 1 \in 1 .. Len(D) /\ 1 < j + 1 /\ E[j] = D[j + 1]
  BY <1>1
<1>3. ASSUME NEW i \in 1 .. Len(E), NEW j \in 1 .. Len(E), i < j PROVE Turn(done, E[i], E[j])
  <2>1. i + 1 < j + 1
    BY <1>1, <1>3
  <2>2. QED
    BY <1>2, <2>1 DEF InTurn
<1>4. ASSUME NEW x, Contains(E, x) PROVE Turn(done, Head(D), x)
  BY <1>1, <1>2, <1>4 DEF InTurn, Contains
<1>5. QED
  BY <1>3, <1>4 DEF E, InTurn

\* A queue without a NOTIFY is in turn for a client that has imported the object.
LEMMA TurnDone ==
  ASSUME NEW D \in Seq(Response), ~Contains(D, Notification)
  PROVE  InTurn(TRUE, D)
BY DEF InTurn, Turn, Contains

-----------------------------------------------------------------------------
(* The ages of requests.                                                      *)

Number == 0 .. Wrap - 1

LEMMA AgeProperties ==
  ASSUME NEW a \in Number, NEW s \in Number
  PROVE  /\ Age(a, s) \in Number
         /\ Age(a, s) = 0 <=> s = IF a = 0 THEN Wrap - 1 ELSE a - 1
<1>1. Wrap \in Nat \ {0}
  BY ImportExportAssumption
<1>2. QED
  BY <1>1 DEF Age, Number

LEMMA AgeNext ==
  ASSUME NEW a \in Number, NEW s \in Number, NEW b, b = (a + 1) % Wrap
  PROVE  /\ b \in Number /\ Age(b, a) = 0
         /\ Age(a, s) + 1 < Wrap => Age(b, s) = Age(a, s) + 1
<1>1. Wrap \in Nat \ {0}
  BY ImportExportAssumption
<1>2. b \in Number /\ b = IF a + 1 = Wrap THEN 0 ELSE a + 1
  BY <1>1, NextIndex DEF Number
<1>3. QED
  BY <1>1, <1>2 DEF Age, Number

\* The number of the latest request tells it from the others.
LEMMA AgeZero ==
  ASSUME NEW a \in Number, NEW s \in Number, NEW r \in Number, Age(a, s) = 0, Age(a, r) = 0
  PROVE  s = r
BY AgeProperties

-----------------------------------------------------------------------------
(* The inductive invariant: what one client's task, its requests and the       *)
(* NOTIFYs to its thread have to do with each other.                           *)

Out(c, m) == Asked(up[c], down[c], m)
Comes(c) == Contains(down[c], Notification)

\* All units of a set, and the requests after it, are units its task had at once.
SetFits(t, m) ==
  /\ m.n \in Amount /\ ~m.wait
  /\ Age(counter[Home[t]], m.seq) + m.n + held[t]
       <= IF pc[t] = "test" THEN Initial + 1 ELSE Initial

TestFits(t, m) ==
  /\ pc[t] = "test" /\ Asleep(t) /\ p2[t] = m.seq /\ m.n = want[t]
  /\ m.wait <=> limit[t] # "zero"

\* A late answer to a probe is not taken for one to a test.
ProbeFits(t, m) ==
  /\ m.seq = 0 /\ m.wait /\ held[t] = 0
  /\ \/ pc[t] = "import" /\ Asleep(t)
     \/ pc[t] = "test" /\ p2[t] # 0
     \/ pc[t] # "test" /\ counter[Home[t]] # 0

Fits(t, m) ==
  /\ import[Home[t]] # "no"
  /\ m.cmd # "import" => import[Home[t]] = "done"
  /\ m.cmd = "set" => SetFits(t, m)
  /\ m.cmd = "test" => TestFits(t, m)
  /\ m.cmd = "import" => ProbeFits(t, m)

RequestInv(t) ==
  /\ \A m \in Request : Out(Home[t], m) => Fits(t, m)
  /\ InOrder(counter[Home[t]], up[Home[t]], down[Home[t]])

\* The request a task is linked for: a set if it went on, and else its call's.
LinkedFor(t, m) == m.cmd = (IF pc[t] = "user" THEN "set" ELSE pc[t]) /\ m.seq = p2[t]

CallInv(t) ==
  LET c == Home[t]
  IN  /\ Asleep(t) /\ p2[t] # Parked =>
           /\ \E m \in Request : Out(c, m) /\ LinkedFor(t, m)
           /\ IF pc[t] = "import" THEN p2[t] = 0 ELSE Age(counter[c], p2[t]) = 0
      /\ Asleep(t) /\ p2[t] = Parked =>
           /\ pc[t] # "user" /\ (pc[t] = "test" => limit[t] # "zero")
           /\ \A m \in Request : ~Out(c, m)
      /\ ~Asleep(t) /\ pc[t] = "test" =>
           p2[t] \in {0, 1} /\ \A m \in Request : ~Out(c, m)
      /\ pc[t] = "import" <=> import[c] = "probing"
      /\ import[c] = "no" => ~Asleep(t)
      /\ import[c] # "done" => held[t] = 0
      /\ limit[t] # "ticks"
      /\ pc[t] = "test" => import[c] = "done" /\ (timedOut[t] <=> limit[t] = "zero")

\* A task that waits for a NOTIFY: it has been refused, or the refusal is coming.
RefusalComes(t) ==
  \E m \in Request : m.cmd = "test" /\ Contains(down[Home[t]], AckOf(m, FALSE))
Waits(t) ==
  /\ pc[t] = "test" /\ Asleep(t) /\ limit[t] # "zero"
  /\ p2[t] = Parked \/ RefusalComes(t)

ProbeInv(t) ==
  LET c == Home[t]
  IN  \A m \in Request, ok \in BOOLEAN :
        m.cmd = "import" /\ Contains(down[c], AckOf(m, ok)) =>
          IF ok THEN exported ELSE pc[t] = "import" /\ Asleep(t) => Comes(c) \/ ~exported

NotifyInv(t) ==
  LET c == Home[t]
  IN  /\ import[c] = "done" \/ Comes(c) => exported
      /\ import[c] # "done" => counter[c] # 0 \/ (exported /\ ~Comes(c))
      /\ InTurn(import[c] = "done", down[c])
      /\ c \in notifyMask => Waits(t) /\ ~Comes(c)
      /\ import[c] = "done" /\ Comes(c) => Waits(t)
      /\ Waits(t) => Comes(c) \/ c \in notifyMask
      /\ pc[t] = "import" =>
           IF ~Asleep(t) THEN exported /\ ~Comes(c)
           ELSE p2[t] = Parked => Comes(c) \/ ~exported

ClientInv(t) == RequestInv(t) /\ CallInv(t) /\ ProbeInv(t) /\ NotifyInv(t)

\* A task of the server that sleeps wants more than there is.
LocalInv(t) == pc[t] # "import" /\ (Asleep(t) => pc[t] = "test" /\ value < want[t])

\* A task is linked on the queue of its own thread, and on no other.
Links == \A h \in Thread, t \in Task : Contains(waitq[h], t) => Home[t] = h
WaitqInv == Table(waitq, Thread, Task) /\ Links

\* Requests come from threads that have a task.
Senders == \A c \in Client, m \in Request : Out(c, m) => \E t \in Task : Home[t] = c

TaskInv(t) == IF Home[t] \in Client THEN ClientInv(t) ELSE LocalInv(t)

IInv == TypeOK /\ WaitqInv /\ Senders /\ (\A t \in Task : TaskInv(t)) /\ UnitsKept

-----------------------------------------------------------------------------
(* The queues of tasks.                                                       *)

\* Task t goes to sleep or is woken, and no other.
OnlyMoves(t, asleep) ==
  /\ WaitqInv'
  /\ Asleep(t)' <=> asleep
  /\ \A u \in Task : u # t => (Asleep(u)' <=> Asleep(u))

LEMMA Homes ==
  /\ \A t \in Task : Home[t] \in Thread /\ (Home[t] \notin Client <=> Home[t] = Server)
  /\ Server \in Thread /\ Client \subseteq Thread /\ Server \notin Client
BY ImportExportAssumption DEF Thread

LEMMA AwakeIsOff ==
  ASSUME WaitqInv, NEW t \in Task, ~Asleep(t)
  PROVE  Off(waitq, Thread, t)
BY DEF WaitqInv, Links, Off, Asleep

\* A queue with the task at its tail, and on no other.
LEMMA QueuedQueues ==
  ASSUME WaitqInv, NEW t \in Task, NEW f, Table(f, Thread, Task), Off(f, Thread, t),
         \A q \in Thread : \A y : y # t => (Contains(f[q], y) <=> Contains(waitq[q], y)),
         waitq' = AddTail(f, Home[t], t)
  PROVE  OnlyMoves(t, TRUE)
<1> DEFINE g == AddTail(f, Home[t], t)
<1>1. Table(g, Thread, Task) /\ Adds(g, f, Thread, Home[t], t)
  BY AddTailTable, Homes
<1>2. waitq' = g
  OBVIOUS
<1> HIDE DEF g
<1>3. ASSUME NEW q \in Thread, NEW y
      PROVE  Contains(g[q], y) <=> IF y = t THEN q = Home[t] ELSE Contains(waitq[q], y)
  BY <1>1 DEF Adds, Off
<1>4. Links'
  BY <1>2, <1>3 DEF WaitqInv, Links
<1>5. Asleep(t)' /\ \A u \in Task : u # t => (Asleep(u)' <=> Asleep(u))
  BY <1>2, <1>3, Homes DEF Asleep
<1>6. QED
  BY <1>1, <1>2, <1>4, <1>5 DEF OnlyMoves, WaitqInv

LEMMA RelinkedQueues ==
  ASSUME WaitqInv, NEW t \in Task, waitq' = AddTail(Unlinked(waitq, t), Home[t], t)
  PROVE  OnlyMoves(t, TRUE)
<1> DEFINE f == Unlinked(waitq, t)
<1>1. Table(f, Thread, Task) /\ Drops(f, waitq, Thread, t)
  BY UnlinkedTable DEF WaitqInv
<1>2. waitq' = AddTail(f, Home[t], t)
  OBVIOUS
<1> HIDE DEF f
<1>3. /\ Off(f, Thread, t)
      /\ \A q \in Thread : \A y : y # t => (Contains(f[q], y) <=> Contains(waitq[q], y))
  BY <1>1 DEF Drops, Off
<1>4. QED
  BY <1>1, <1>2, <1>3, QueuedQueues

LEMMA LinkedQueues ==
  ASSUME WaitqInv, NEW t \in Task, ~Asleep(t), waitq' = AddTail(waitq, Home[t], t)
  PROVE  OnlyMoves(t, TRUE)
BY AwakeIsOff, QueuedQueues DEF WaitqInv

LEMMA UnlinkedQueues ==
  ASSUME WaitqInv, NEW t \in Task, waitq' = Unlinked(waitq, t)
  PROVE  OnlyMoves(t, FALSE)
<1> DEFINE f == Unlinked(waitq, t)
<1>1. Table(f, Thread, Task) /\ Drops(f, waitq, Thread, t)
  BY UnlinkedTable DEF WaitqInv
<1>2. waitq' = f
  OBVIOUS
<1> HIDE DEF f
<1>3. \A q \in Thread : \A y : Contains(waitq'[q], y) <=> Contains(waitq[q], y) /\ y # t
  BY <1>1, <1>2 DEF Drops
<1>4. Links'
  BY <1>3 DEF WaitqInv, Links
<1>5. ~Asleep(t)' /\ \A u \in Task : u # t => (Asleep(u)' <=> Asleep(u))
  BY <1>3, Homes DEF Asleep
<1>6. QED
  BY <1>1, <1>2, <1>4, <1>5 DEF OnlyMoves, WaitqInv

LEMMA SameQueues ==
  ASSUME WaitqInv, UNCHANGED waitq
  PROVE  WaitqInv' /\ \A u \in Task : Asleep(u)' <=> Asleep(u)
BY DEF WaitqInv, Links, Asleep

\* All tasks of a client are woken.
LEMMA EmptiedQueues ==
  ASSUME WaitqInv, NEW c \in Client, waitq' = [waitq EXCEPT ![c] = <<>>]
  PROVE  WaitqInv' /\ \A u \in Task : Asleep(u)' <=> Asleep(u) /\ Home[u] # c
<1>1. waitq \in [Thread -> Seq(Task)] /\ Once(waitq, Thread) /\ c \in Thread
  BY Homes DEF WaitqInv, Table
<1>2. waitq' \in [Thread -> Seq(Task)] /\ waitq'[c] = <<>>
  BY <1>1
<1>3. \A q \in Thread \ {c} : waitq'[q] = waitq[q]
  BY <1>1
<1>4. Once(waitq', Thread)
  BY <1>1, <1>2, <1>3 DEF Once
<1>5. \A y : ~Contains(waitq'[c], y)
  BY <1>2 DEF Contains
<1>6. Links'
  BY <1>3, <1>5 DEF WaitqInv, Links
<1>7. \A u \in Task : Asleep(u)' <=> Asleep(u) /\ Home[u] # c
  BY <1>3, <1>5, Homes DEF Asleep
<1>8. QED
  BY <1>2, <1>4, <1>6, <1>7 DEF WaitqInv, Table

\* The server's tasks that are not in X are woken.
LEMMA SiftedQueues ==
  ASSUME WaitqInv, NEW X, waitq' = [waitq EXCEPT ![Server] = Sifted(waitq[Server], X)]
  PROVE  /\ WaitqInv'
         /\ \A u \in Task : Asleep(u)' <=> Asleep(u) /\ (Home[u] # Server \/ u \in X)
<1> DEFINE g == [waitq EXCEPT ![Server] = Sifted(waitq[Server], X)]
<1>1. /\ Table(g, Thread, Task)
      /\ \A q \in Thread : \A y :
           Contains(g[q], y) <=> Contains(waitq[q], y) /\ (q # Server \/ y \in X)
  BY SiftedTable, Homes DEF WaitqInv
<1>2. waitq' = g
  OBVIOUS
<1> HIDE DEF g
<1>3. Links'
  BY <1>1, <1>2 DEF WaitqInv, Links
<1>4. \A u \in Task : Asleep(u)' <=> Asleep(u) /\ (Home[u] # Server \/ u \in X)
  BY <1>1, <1>2, Homes DEF Asleep
<1>5. QED
  BY <1>1, <1>2, <1>3, <1>4 DEF WaitqInv

\* An ACK finds the task of a client if it sleeps on the request answered.
Found(c, s) == SelectInSeq(waitq[c], LAMBDA u : p2[u] = s)

LEMMA AckFinds ==
  ASSUME WaitqInv, SafeUse, NEW t \in Task, Home[t] \in Client, NEW s
  PROVE  LET i == Found(Home[t], s)
         IN  IF Asleep(t) /\ p2[t] = s THEN i # 0 /\ waitq[Home[t]][i] = t ELSE i = 0
<1> DEFINE q == waitq[Home[t]]
           I == {i \in 1 .. Len(q) : p2[q[i]] = s}
<1>1. q \in Seq(Task)
  BY Homes DEF WaitqInv, Table
<1>2. \A i \in 1 .. Len(q) : q[i] = t
  <2>1. ASSUME NEW i \in 1 .. Len(q) PROVE q[i] = t
    <3>1. q[i] \in Task /\ Contains(q, q[i])
      BY <1>1, ElementOfSeq DEF Contains
    <3>2. Home[q[i]] = Home[t]
      BY <3>1, Homes DEF WaitqInv, Links
    <3>3. QED
      BY <3>1, <3>2 DEF SafeUse
  <2>2. QED
    BY <2>1
<1>3. Found(Home[t], s) = IF I # {} THEN Min(I) ELSE 0
  BY DEF Found, SelectInSeq
<1>4. I \in SUBSET Nat
  OBVIOUS
<1>5. CASE Asleep(t) /\ p2[t] = s
  <2>1. I # {}
    BY <1>2, <1>5 DEF Asleep, Contains
  <2> DEFINE n == Min(I)
  <2>2. n \in I
    BY <1>4, <2>1, MinProperties
  <2>3. Found(Home[t], s) = n
    BY <1>3, <2>1
  <2> HIDE DEF n
  <2>4. n # 0 /\ q[n] = t
    BY <1>2, <2>2
  <2>5. QED
    BY <1>5, <2>3, <2>4
<1>6. CASE ~(Asleep(t) /\ p2[t] = s)
  <2>1. I = {}
    BY <1>2, <1>6 DEF Asleep, Contains
  <2>2. QED
    BY <1>3, <1>6, <2>1
<1>7. QED
  BY <1>5, <1>6

-----------------------------------------------------------------------------
(* Steps that do not concern a client.                                        *)

Same(t) ==
  LET c == Home[t]
  IN  /\ counter'[c] = counter[c] /\ import'[c] = import[c]
      /\ up'[c] = up[c] /\ down'[c] = down[c]
      /\ pc'[t] = pc[t] /\ want'[t] = want[t] /\ limit'[t] = limit[t]
      /\ timedOut'[t] = timedOut[t] /\ p2'[t] = p2[t] /\ held'[t] = held[t]
      /\ Asleep(t)' <=> Asleep(t)

LEMMA SameKeepsRequests ==
  ASSUME NEW t \in Task, RequestInv(t), CallInv(t), Same(t)
  PROVE  RequestInv(t)' /\ CallInv(t)'
<1>1. \A m : Out(Home[t], m)' <=> Out(Home[t], m)
  BY DEF Out, Same
<1>2. RequestInv(t)'
  BY <1>1 DEF RequestInv, Fits, SetFits, TestFits, ProbeFits, Same
<1>3. CallInv(t)'
  BY <1>1 DEF CallInv, LinkedFor, Same
<1>4. QED
  BY <1>2, <1>3

LEMMA SameKeepsClient ==
  ASSUME NEW t \in Task, ClientInv(t), Same(t), UNCHANGED exported,
         (Home[t] \in notifyMask)' <=> Home[t] \in notifyMask
  PROVE  ClientInv(t)'
<1>1. RequestInv(t)' /\ CallInv(t)'
  BY SameKeepsRequests DEF ClientInv
<1>2. (Comes(Home[t])' <=> Comes(Home[t])) /\ (Waits(t)' <=> Waits(t))
  BY DEF Same, Comes, Waits, RefusalComes
<1>3. ProbeInv(t)'
  BY <1>2 DEF ClientInv, ProbeInv, Same
<1>4. NotifyInv(t)'
  BY <1>2 DEF ClientInv, NotifyInv, Same
<1>5. QED
  BY <1>1, <1>3, <1>4 DEF ClientInv

LEMMA SameIsOnTheWay ==
  ASSUME NEW t \in Task, Same(t)
  PROVE  OnTheWay(t)' <=> OnTheWay(t)
BY DEF OnTheWay, Ending, Same

-----------------------------------------------------------------------------
(* The units after a step.                                                    *)

\* Adding up some of the numbers is adding nothing for the others.
Only(f, R, S) == [x \in S |-> IF x \in R THEN f[x] ELSE 0]

LEMMA SumOnly ==
  ASSUME NEW S, IsFiniteSet(S), NEW R \in SUBSET S, NEW f, Numbers(f, S)
  PROVE  Sum(f, R) = Sum(Only(f, R, S), S) /\ Numbers(Only(f, R, S), S)
<1> DEFINE g == Only(f, R, S)
<1>1. IsFiniteSet(R) /\ Numbers(f, R) /\ Numbers(g, S)
  BY FS_Subset DEF Numbers, Only
<1>2. Bundle(f, R) = Bundle(g, S)
  BY DEF Bundle, Only
<1> HIDE DEF g
<1>3. Sum(f, R) = Cardinality(Bundle(f, R)) /\ Sum(g, S) = Cardinality(Bundle(g, S))
  BY ONLY <1>1, IsFiniteSet(S), SumIsCount
<1>4. QED
  BY <1>1, <1>2, <1>3 DEF g

LEMMA ComingIsNumber ==
  ASSUME NEW U \in Seq(Request)
  PROVE  UnitRequests(U) /\ Coming(U) \in Nat
<1>1. UnitRequests(U)
  BY ElementOfSeq, RequestFields DEF UnitRequests
<1>2. Coming(U) = Sum(Units(U), 1 .. Len(U)) /\ Sum(Units(U), 1 .. Len(U)) \in Nat
  BY <1>1, ComingIsSum, SumProperties
<1>3. QED
  BY <1>1, <1>2

\* What a task has, what is on the way to it, and what it is giving back.
Mine(t, h, w, U) == h[t] + w[t] + IF Home[t] \in Client THEN Coming(U[Home[t]]) ELSE 0
Total(v, h, w, U) ==
  v + Sum(h, Task) + Sum(w, Task) + Sum([c \in Client |-> Coming(U[c])], Client)

LEMMA PartOfSum ==
  ASSUME NEW v \in Nat, NEW x \in Nat, NEW y \in Nat, NEW z \in Nat
  PROVE  /\ v + x + y + z \in Nat /\ v <= v + x + y + z
         /\ \A p, q \in Nat : p <= x /\ q <= y => v + p + q <= v + x + y + z
         /\ \A p \in Nat : p <= z => v + p <= v + x + y + z
OBVIOUS

LEMMA TotalIsNumber ==
  ASSUME NEW v \in Nat, NEW h, Numbers(h, Task), NEW w, Numbers(w, Task),
         NEW U \in [Client -> Seq(Request)]
  PROVE  /\ Total(v, h, w, U) \in Nat
         /\ v <= Total(v, h, w, U)
         /\ \A t \in Task : v + h[t] + w[t] <= Total(v, h, w, U)
         /\ \A c \in Client : v + Coming(U[c]) <= Total(v, h, w, U)
<1> DEFINE s == [c \in Client |-> Coming(U[c])]
<1>1. IsFiniteSet(Task) /\ IsFiniteSet(Client)
  BY ImportExportAssumption
<1>2. Numbers(s, Client)
  BY ComingIsNumber DEF Numbers
<1>3. Total(v, h, w, U) = v + Sum(h, Task) + Sum(w, Task) + Sum(s, Client)
  BY DEF Total
<1>4. \A c \in Client : Coming(U[c]) = s[c] /\ s[c] \in Nat
  BY <1>2 DEF Numbers
<1> HIDE DEF s
<1>5. Sum(h, Task) \in Nat /\ Sum(w, Task) \in Nat /\ Sum(s, Client) \in Nat
  BY <1>1, <1>2, SumProperties
<1>6. ASSUME NEW t \in Task PROVE v + h[t] + w[t] <= Total(v, h, w, U)
  <2>1. h[t] <= Sum(h, Task) /\ w[t] <= Sum(w, Task)
    BY <1>1, SumBounds
  <2>2. h[t] \in Nat /\ w[t] \in Nat
    BY DEF Numbers
  <2>3. QED
    BY ONLY v \in Nat, <1>3, <1>5, <2>1, <2>2, PartOfSum
<1>7. ASSUME NEW c \in Client PROVE v + Coming(U[c]) <= Total(v, h, w, U)
  <2>1. s[c] <= Sum(s, Client)
    BY <1>1, <1>2, SumBounds
  <2>2. QED
    BY ONLY v \in Nat, c \in Client, <1>3, <1>4, <1>5, <2>1, PartOfSum
<1>8. QED
  BY <1>3, <1>5, <1>6, <1>7

\* Units move between the value and what one task has.
UnitsShift(t, v, h, w, U, v2, h2, w2, U2) ==
  /\ v2 + Mine(t, h2, w2, U2) = v + Mine(t, h, w, U)
  /\ \A u \in Task : u # t => h2[u] = h[u] /\ w2[u] = w[u]
  /\ \A c \in Client : c # Home[t] => Coming(U2[c]) = Coming(U[c])

LEMMA TotalKept ==
  ASSUME NEW v \in Nat, NEW h, Numbers(h, Task), NEW w, Numbers(w, Task),
         NEW U \in [Client -> Seq(Request)],
         NEW v2 \in Nat, NEW h2, Numbers(h2, Task), NEW w2, Numbers(w2, Task),
         NEW U2 \in [Client -> Seq(Request)],
         NEW t \in Task, UnitsShift(t, v, h, w, U, v2, h2, w2, U2)
  PROVE  Total(v2, h2, w2, U2) = Total(v, h, w, U)
<1> USE DEF UnitsShift
<1> DEFINE s == [c \in Client |-> Coming(U[c])]
           r == [c \in Client |-> Coming(U2[c])]
<1>1. IsFiniteSet(Task) /\ IsFiniteSet(Client)
  BY ImportExportAssumption
<1>2. Numbers(s, Client) /\ Numbers(r, Client)
  BY ComingIsNumber DEF Numbers
<1>3. /\ Total(v, h, w, U) = v + Sum(h, Task) + Sum(w, Task) + Sum(s, Client)
      /\ Total(v2, h2, w2, U2) = v2 + Sum(h2, Task) + Sum(w2, Task) + Sum(r, Client)
  BY DEF Total
<1>4. \A c \in Client : c # Home[t] => r[c] = s[c]
  OBVIOUS
<1>5. \A c \in Client : Coming(U2[c]) = r[c] /\ Coming(U[c]) = s[c]
  OBVIOUS
<1> HIDE DEF s, r
<1>6. h[t] \in Nat /\ h2[t] \in Nat /\ w[t] \in Nat /\ w2[t] \in Nat
  BY DEF Numbers
<1>7. Sum(h2, Task) = Sum(h, Task) - h[t] + h2[t] /\ Sum(h, Task) \in Nat
  BY ONLY <1>1, <1>6, Numbers(h, Task), t \in Task,
          \A u \in Task : u # t => h2[u] = h[u] /\ w2[u] = w[u], SumChange, SumProperties
<1>8. Sum(w2, Task) = Sum(w, Task) - w[t] + w2[t] /\ Sum(w, Task) \in Nat
  BY ONLY <1>1, <1>6, Numbers(w, Task), t \in Task,
          \A u \in Task : u # t => h2[u] = h[u] /\ w2[u] = w[u], SumChange, SumProperties
<1>9. Sum(s, Client) \in Nat
  BY <1>1, <1>2, SumProperties
<1> DEFINE x == Sum(h, Task)
           y == Sum(w, Task)
           z == Sum(s, Client)
           p == h[t]
           q == w[t]
           i == h2[t]
           j == w2[t]
<1>10. /\ x \in Nat /\ y \in Nat /\ z \in Nat
       /\ p \in Nat /\ q \in Nat /\ i \in Nat /\ j \in Nat
  BY <1>6, <1>7, <1>8, <1>9
<1>11. /\ Total(v, h, w, U) = v + x + y + z
       /\ Total(v2, h2, w2, U2) = v2 + (x - p + i) + (y - q + j) + Sum(r, Client)
  BY <1>3, <1>7, <1>8
<1>12. /\ Mine(t, h, w, U) = p + q + IF Home[t] \in Client THEN s[Home[t]] ELSE 0
       /\ Mine(t, h2, w2, U2) = i + j + IF Home[t] \in Client THEN r[Home[t]] ELSE 0
  BY <1>5 DEF Mine
<1>13. CASE Home[t] \in Client
  <2> DEFINE c == Home[t]
             k == s[c]
             l == r[c]
  <2>1. c \in Client /\ k \in Nat /\ l \in Nat
    BY <1>2, <1>13 DEF Numbers
  <2>2. \A e \in Client : e # c => r[e] = s[e]
    BY <1>4
  <2>3. v2 + (i + j + l) = v + (p + q + k)
    BY <1>12, <1>13
  <2>4. Sum(r, Client) = z - k + l
    <3> HIDE DEF c
    <3> QED BY ONLY <1>1, <1>2, <2>1, <2>2, SumChange
  <2>5. Total(v2, h2, w2, U2) = v2 + (x - p + i) + (y - q + j) + (z - k + l)
    BY <1>11, <2>4
  <2> HIDE DEF x, y, z, p, q, i, j, k, l
  <2>6. v2 + (x - p + i) + (y - q + j) + (z - k + l) = v + x + y + z
    BY ONLY v \in Nat, v2 \in Nat, <1>10, <2>1, <2>3
  <2>7. QED
    BY ONLY <1>11, <2>5, <2>6
<1>14. CASE Home[t] \notin Client
  <2>1. \A e \in Client : r[e] = s[e]
    BY <1>4, <1>14
  <2>2. Sum(r, Client) = z
    BY ONLY <1>1, <1>2, <2>1, SumSame
  <2>3. v2 + (i + j + 0) = v + (p + q + 0)
    BY <1>12, <1>14
  <2>4. Total(v2, h2, w2, U2) = v2 + (x - p + i) + (y - q + j) + z
    BY <1>11, <2>2
  <2> HIDE DEF x, y, z, p, q, i, j
  <2>5. v2 + (x - p + i) + (y - q + j) + z = v + x + y + z
    BY ONLY v \in Nat, v2 \in Nat, <1>10, <2>3
  <2>6. QED
    BY ONLY <1>11, <2>4, <2>5
<1>15. QED
  BY <1>13, <1>14

\* The units that are on the way to each task.
Way == Only(want, {t \in Task : OnTheWay(t)}, Task)

LEMMA TotalIs ==
  ASSUME NEW wants \in [Task -> Amount], NEW h \in [Task -> Nat],
         NEW U \in [Client -> Seq(Request)], NEW v, NEW R \in SUBSET Task
  PROVE  /\ v + Sum(h, Task) + Sum(wants, R) + Sum([c \in Client |-> Coming(U[c])], Client)
              = Total(v, h, Only(wants, R, Task), U)
         /\ Numbers(h, Task) /\ Numbers(Only(wants, R, Task), Task)
<1>1. IsFiniteSet(Task) /\ \A t \in Task : wants[t] \in Amount /\ Amount \subseteq Nat
  BY ImportExportAssumption
<1>2. Numbers(wants, Task) /\ Numbers(h, Task)
  BY <1>1 DEF Numbers
<1>3. Sum(wants, R) = Sum(Only(wants, R, Task), Task) /\ Numbers(Only(wants, R, Task), Task)
  BY ONLY <1>1, <1>2, R \in SUBSET Task, SumOnly
<1>4. QED
  BY <1>2, <1>3 DEF Total

LEMMA UnitsKeptIs ==
  TypeOK =>
    /\ UnitsKept <=> Initial = Total(value, held, Way, up)
    /\ Numbers(held, Task) /\ Numbers(Way, Task)
    /\ up \in [Client -> Seq(Request)] /\ value \in Nat
<1> SUFFICES ASSUME TypeOK
             PROVE  /\ UnitsKept <=> Initial = Total(value, held, Way, up)
                    /\ Numbers(held, Task) /\ Numbers(Way, Task)
                    /\ up \in [Client -> Seq(Request)] /\ value \in Nat
  OBVIOUS
<1> DEFINE R == {t \in Task : OnTheWay(t)}
<1>1. /\ want \in [Task -> Amount] /\ held \in [Task -> Nat] /\ R \in SUBSET Task
      /\ up \in [Client -> Seq(Request)] /\ value \in Nat
  BY DEF TypeOK
<1>2. UnitsKept <=> Initial = value + Sum(held, Task) + Sum(want, R)
                              + Sum([c \in Client |-> Coming(up[c])], Client)
  BY DEF UnitsKept, Coming
<1>3. Way = Only(want, R, Task)
  BY DEF Way
<1> HIDE DEF R
<1>4. /\ value + Sum(held, Task) + Sum(want, R) + Sum([c \in Client |-> Coming(up[c])], Client)
           = Total(value, held, Only(want, R, Task), up)
      /\ Numbers(held, Task) /\ Numbers(Only(want, R, Task), Task)
  BY ONLY <1>1, TotalIs
<1>5. QED
  BY <1>1, <1>2, <1>3, <1>4

LEMMA UnitsKeptNext ==
  ASSUME TypeOK'
  PROVE  /\ UnitsKept' <=> Initial = Total(value', held', Way', up')
         /\ Numbers(held', Task) /\ Numbers(Way', Task)
         /\ up' \in [Client -> Seq(Request)] /\ value' \in Nat
<1>1. (TypeOK =>
         /\ UnitsKept <=> Initial = Total(value, held, Way, up)
         /\ Numbers(held, Task) /\ Numbers(Way, Task)
         /\ up \in [Client -> Seq(Request)] /\ value \in Nat)'
  BY UnitsKeptIs, PTL
<1>2. QED
  BY <1>1

\* Nobody has more than there is.
LEMMA UnitsBound ==
  ASSUME TypeOK, UnitsKept
  PROVE  /\ value <= Initial
         /\ \A t \in Task : value + held[t] + Way[t] <= Initial
         /\ \A c \in Client : value + Coming(up[c]) <= Initial
<1>1. /\ Initial = Total(value, held, Way, up)
      /\ Numbers(held, Task) /\ Numbers(Way, Task)
      /\ up \in [Client -> Seq(Request)] /\ value \in Nat
  BY UnitsKeptIs
<1>2. QED
  BY ONLY <1>1, TotalIsNumber

LEMMA UnitsMoved ==
  ASSUME TypeOK, TypeOK', UnitsKept, NEW t \in Task,
         value' + Mine(t, held', Way', up') = value + Mine(t, held, Way, up),
         \A u \in Task : u # t => /\ held'[u] = held[u] /\ want'[u] = want[u]
                                  /\ OnTheWay(u)' <=> OnTheWay(u),
         \A c \in Client : c # Home[t] => Coming(up'[c]) = Coming(up[c])
  PROVE  UnitsKept'
<1>1. /\ Initial = Total(value, held, Way, up)
      /\ Numbers(held, Task) /\ Numbers(Way, Task)
      /\ up \in [Client -> Seq(Request)] /\ value \in Nat
  BY UnitsKeptIs
<1>2. /\ UnitsKept' <=> Initial = Total(value', held', Way', up')
      /\ Numbers(held', Task) /\ Numbers(Way', Task)
      /\ up' \in [Client -> Seq(Request)] /\ value' \in Nat
  BY UnitsKeptNext
<1>3. \A u \in Task : u # t => held'[u] = held[u] /\ Way'[u] = Way[u]
  BY DEF Way, Only
<1> DEFINE h == held'
           w == Way'
           U == up'
           v == value'
<1>4. /\ Numbers(h, Task) /\ Numbers(w, Task) /\ U \in [Client -> Seq(Request)] /\ v \in Nat
      /\ UnitsShift(t, value, held, Way, up, v, h, w, U)
  BY <1>2, <1>3 DEF UnitsShift
<1>5. UnitsKept' <=> Initial = Total(v, h, w, U)
  BY <1>2
<1> HIDE DEF h, w, U, v
<1>6. Total(v, h, w, U) = Total(value, held, Way, up)
  <2> DEFINE i == held
             x == Way
             V == up
             j == value
  <2>1. /\ Numbers(i, Task) /\ Numbers(x, Task) /\ V \in [Client -> Seq(Request)] /\ j \in Nat
        /\ UnitsShift(t, j, i, x, V, v, h, w, U)
    BY <1>1, <1>4
  <2> HIDE DEF i, x, V, j
  <2>2. Total(v, h, w, U) = Total(j, i, x, V)
    BY ONLY <1>4, <2>1, t \in Task, TotalKept
  <2>3. QED
    BY <2>2 DEF i, x, V, j
<1>7. QED
  BY <1>1, <1>5, <1>6

LEMMA UnitsStay ==
  ASSUME TypeOK, TypeOK', UnitsKept, UNCHANGED <<value, held>>,
         \A u \in Task : OnTheWay(u)' <=> OnTheWay(u),
         \A u \in Task : OnTheWay(u) => want'[u] = want[u],
         \A c \in Client : Coming(up'[c]) = Coming(up[c])
  PROVE  UnitsKept'
<1>1. Way' = Way
  BY DEF Way, Only
<1>2. [c \in Client |-> Coming(up'[c])] = [c \in Client |-> Coming(up[c])]
  OBVIOUS
<1>3. Total(value', held', Way', up') = Total(value, held, Way, up)
  BY <1>1, <1>2 DEF Total
<1>4. QED
  BY <1>3, UnitsKeptIs, UnitsKeptNext

-----------------------------------------------------------------------------
(* Steps that concern one task and its thread, and no other.                  *)

Elsewhere(t) ==
  /\ UNCHANGED exported /\ value' <= value
  /\ \A u \in Task \ {t} :
       /\ pc'[u] = pc[u] /\ want'[u] = want[u] /\ limit'[u] = limit[u]
       /\ timedOut'[u] = timedOut[u] /\ p2'[u] = p2[u] /\ held'[u] = held[u]
       /\ Asleep(u)' <=> Asleep(u)
  /\ \A c \in Client \ {Home[t]} :
       /\ counter'[c] = counter[c] /\ import'[c] = import[c]
       /\ up'[c] = up[c] /\ down'[c] = down[c]
       /\ c \in notifyMask' <=> c \in notifyMask

LEMMA ElsewhereIsSame ==
  ASSUME SafeUse, NEW t \in Task, Elsewhere(t), NEW u \in Task, u # t, Home[u] \in Client
  PROVE  Same(u)
<1>1. Home[u] # Home[t]
  BY DEF SafeUse
<1>2. QED
  BY <1>1 DEF Elsewhere, Same

LEMMA AmountIsNumber == Amount \subseteq Nat /\ \A n \in Amount : n \in Nat /\ n # 0
BY ImportExportAssumption

LEMMA ElsewhereKept ==
  ASSUME IInv, SafeUse, NEW t \in Task, Elsewhere(t), WaitqInv', TypeOK', TaskInv(t)',
         value' + Mine(t, held', Way', up') = value + Mine(t, held, Way, up)
  PROVE  IInv'
<1>1. TypeOK /\ UnitsKept /\ Senders /\ \A u \in Task : TaskInv(u)
  BY DEF IInv
<1>2. ASSUME NEW u \in Task, u # t PROVE TaskInv(u)' /\ (OnTheWay(u)' <=> OnTheWay(u))
  <2>1. CASE Home[u] \in Client
    <3>1. Same(u) /\ Home[u] # Home[t]
      BY <1>2, <2>1, ElsewhereIsSame DEF SafeUse
    <3>2. ClientInv(u)
      BY <1>1, <2>1 DEF TaskInv
    <3>3. UNCHANGED exported /\ (Home[u] \in notifyMask' <=> Home[u] \in notifyMask)
      BY <2>1, <3>1 DEF Elsewhere
    <3>4. ClientInv(u)'
      BY <3>1, <3>2, <3>3, SameKeepsClient
    <3>5. QED
      BY <2>1, <3>1, <3>4, SameIsOnTheWay DEF TaskInv
  <2>2. CASE Home[u] \notin Client
    <3>1. LocalInv(u)
      BY <1>1, <2>2 DEF TaskInv
    <3>2. /\ pc'[u] = pc[u] /\ want'[u] = want[u] /\ (Asleep(u)' <=> Asleep(u))
          /\ value' <= value
      BY <1>2 DEF Elsewhere
    <3>3. value \in Int /\ value' \in Int /\ want[u] \in Int
      <4>1. want[u] \in Amount /\ value \in Nat /\ value' \in Nat
        BY <1>1 DEF TypeOK
      <4>2. want[u] \in Nat
        BY <4>1, AmountIsNumber, Zenon
      <4>3. QED
        BY <4>1, <4>2
    <3>4. LocalInv(u)'
      BY <3>1, <3>2, <3>3 DEF LocalInv
    <3>5. QED
      BY <2>2, <3>4 DEF TaskInv, OnTheWay
  <2>3. QED
    BY <2>1, <2>2
<1>3. Senders'
  <2>1. ASSUME NEW c \in Client, NEW m \in Request, Out(c, m)'
        PROVE  \E u \in Task : Home[u] = c
    <3>1. CASE c = Home[t]
      BY <3>1
    <3>2. CASE c # Home[t]
      BY <1>1, <2>1, <3>2 DEF Elsewhere, Out, Senders
    <3>3. QED
      BY <3>1, <3>2
  <2>2. QED
    BY <2>1 DEF Senders
<1>4. UnitsKept'
  <2>1. \A u \in Task : u # t => /\ held'[u] = held[u] /\ want'[u] = want[u]
                                 /\ OnTheWay(u)' <=> OnTheWay(u)
    BY <1>2 DEF Elsewhere
  <2>2. \A c \in Client : c # Home[t] => Coming(up'[c]) = Coming(up[c])
    BY DEF Elsewhere
  <2>3. QED
    BY <1>1, <2>1, <2>2, UnitsMoved
<1>5. QED
  BY <1>2, <1>3, <1>4 DEF IInv

-----------------------------------------------------------------------------
(* Types.                                                                     *)

LEMMA SendTypes ==
  ASSUME TypeOK, NEW t \in Task, Home[t] \in Client, NEW cmd \in {"import", "test", "set"},
         NEW wait \in BOOLEAN, NEW n \in Amount \cup {0}, NEW seq \in Number
  PROVE  /\ [cmd |-> cmd, seq |-> seq, wait |-> wait, n |-> n] \in Request
         /\ WaitOnSequence(t, cmd, seq, wait, n) =>
              p2' \in [Task -> 0 .. Wrap] /\ up' \in [Client -> Seq(Request)]
<1> DEFINE m == [cmd |-> cmd, seq |-> seq, wait |-> wait, n |-> n]
<1>1. m \in Request
  BY DEF Request, Number
<1>2. seq \in 0 .. Wrap
  BY ImportExportAssumption DEF Number
<1>3. up \in [Client -> Seq(Request)] /\ p2 \in [Task -> 0 .. Wrap]
  BY DEF TypeOK
<1> HIDE DEF m
<1>4. Append(up[Home[t]], m) \in Seq(Request)
  BY <1>1, <1>3, AppendProperties
<1>5. ASSUME WaitOnSequence(t, cmd, seq, wait, n)
      PROVE  p2' \in [Task -> 0 .. Wrap] /\ up' \in [Client -> Seq(Request)]
  <2>1. p2' = [p2 EXCEPT ![t] = seq] /\ up' = [up EXCEPT ![Home[t]] = Append(@, m)]
    BY <1>5 DEF WaitOnSequence, m
  <2>2. QED
    BY <1>2, <1>3, <1>4, <2>1
<1>6. QED
  BY <1>1, <1>5 DEF m

LEMMA CountTypes ==
  ASSUME TypeOK, NEW t \in Task, Home[t] \in Client, NEW cmd \in {"import", "test", "set"},
         NEW wait \in BOOLEAN, NEW n \in Amount \cup {0}, WaitOnCount(t, cmd, wait, n)
  PROVE  /\ counter' \in [Client -> 0 .. Wrap - 1]
         /\ p2' \in [Task -> 0 .. Wrap] /\ up' \in [Client -> Seq(Request)]
<1>1. counter \in [Client -> Number]
  BY DEF TypeOK, Number
<1>2. counter[Home[t]] \in Number /\ (counter[Home[t]] + 1) % Wrap \in Number
  BY <1>1, AgeNext
<1>3. counter' = [counter EXCEPT ![Home[t]] = (counter[Home[t]] + 1) % Wrap]
  BY DEF WaitOnCount
<1>4. counter' \in [Client -> Number]
  BY <1>1, <1>2, <1>3
<1>5. QED
  BY <1>2, <1>4, SendTypes DEF WaitOnCount, Number

LEMMA NotifiedTypes ==
  ASSUME TypeOK, NEW C
  PROVE  Notified(C) \in [Client -> Seq(Response)]
<1>1. down \in [Client -> Seq(Response)]
  BY DEF TypeOK
<1>2. \A c \in Client : Append(down[c], Notification) \in Seq(Response)
  BY <1>1, Responses, AppendProperties
<1>3. QED
  BY <1>1, <1>2 DEF Notified, Notification

LEMMA AnsweredTypes ==
  ASSUME NEW R \in [Client -> Seq(Response)], NEW c \in Client, NEW m \in Request,
         NEW ok \in BOOLEAN
  PROVE  Answered(R, c, m, ok) \in [Client -> Seq(Response)]
<1>1. Append(R[c], AckOf(m, ok)) \in Seq(Response)
  BY Responses, AppendProperties
<1>2. Answered(R, c, m, ok) = [R EXCEPT ![c] = Append(R[c], AckOf(m, ok))]
  BY DEF Answered, AckOf
<1>3. QED
  BY <1>1, <1>2

-----------------------------------------------------------------------------
(* Requests.                                                                  *)

\* What a task is linked with when it has sent a request.
LEMMA Sent ==
  ASSUME TypeOK, WaitqInv, NEW t \in Task, Home[t] \in Client, NEW cmd \in {"test", "set"},
         NEW wait \in BOOLEAN, NEW n \in Amount, WaitOnCount(t, cmd, wait, n)
  PROVE  LET c == Home[t]
             a == counter[c]
             m == [cmd |-> cmd, seq |-> a, wait |-> wait, n |-> n]
         IN  /\ OnlyMoves(t, TRUE)
             /\ m \in Request /\ up'[c] = Append(up[c], m)
             /\ a \in Number /\ a \in Int /\ counter'[c] = (a + 1) % Wrap
             /\ p2'[t] = a /\ a # Parked
             /\ \A u \in Task \ {t} : p2'[u] = p2[u]
             /\ \A h \in Client \ {c} : counter'[h] = counter[h] /\ up'[h] = up[h]
<1> DEFINE c == Home[t]
           a == counter[c]
           m == [cmd |-> cmd, seq |-> a, wait |-> wait, n |-> n]
<1>1. OnlyMoves(t, TRUE)
  BY RelinkedQueues DEF WaitOnCount, WaitOnSequence
<1>2. a \in Number /\ a \in Int /\ a # Parked
  BY ImportExportAssumption DEF TypeOK, Number, Parked
<1>3. m \in Request
  BY <1>2, SendTypes
<1>4. p2' = [p2 EXCEPT ![t] = a] /\ up' = [up EXCEPT ![c] = Append(@, m)]
  BY DEF WaitOnCount, WaitOnSequence
<1>5. counter' = [counter EXCEPT ![c] = (a + 1) % Wrap]
  BY DEF WaitOnCount
<1>6. /\ p2 \in [Task -> 0 .. Wrap] /\ counter \in [Client -> 0 .. Wrap - 1]
      /\ up \in [Client -> Seq(Request)]
  BY DEF TypeOK
<1> HIDE DEF m
<1>7. /\ up'[c] = Append(up[c], m) /\ counter'[c] = (a + 1) % Wrap /\ p2'[t] = a
      /\ \A u \in Task \ {t} : p2'[u] = p2[u]
      /\ \A h \in Client \ {c} : counter'[h] = counter[h] /\ up'[h] = up[h]
  BY ONLY <1>4, <1>5, <1>6, t \in Task, Home[t] \in Client
<1>8. QED
  BY <1>1, <1>2, <1>3, <1>7 DEF m

\* A request counted later makes those before it older by one, and the new one is
\* the last.
LEMMA SentAges ==
  ASSUME Initial < Wrap, NEW a \in Number, NEW b, b = (a + 1) % Wrap,
         NEW U \in Seq(Request), NEW D \in Seq(Response), InOrder(a, U, D),
         NEW m \in Request, m.seq = a, m.cmd \in {"test", "set"},
         \A x \in Request : Asked(U, D, x) =>
           /\ x.cmd # "test"
           /\ x.cmd = "set" => Age(a, x.seq) < Initial
           /\ x.cmd = "import" => m.cmd = "test"
  PROVE  /\ InOrder(b, Append(U, m), D)
         /\ \A x \in Request : Asked(U, D, x) /\ x.cmd = "set" =>
              Age(b, x.seq) = Age(a, x.seq) + 1 /\ Age(a, x.seq) \in Nat
         /\ Age(b, a) = 0
<1>1. Wrap \in Nat /\ Initial \in Nat
  BY ImportExportAssumption
<1>2. Age(b, a) = 0
  BY AgeNext
<1>3. ASSUME NEW x \in Request, Asked(U, D, x), x.cmd = "set"
      PROVE  Age(b, x.seq) = Age(a, x.seq) + 1 /\ Age(a, x.seq) \in Nat
  <2>1. x.seq \in Number
    BY RequestFields DEF Number
  <2>2. Age(a, x.seq) \in Number /\ Age(a, x.seq) < Initial
    BY <1>3, <2>1, AgeProperties
  <2>3. Age(a, x.seq) \in Nat /\ Age(a, x.seq) + 1 < Wrap
    BY <1>1, <2>2 DEF Number
  <2>4. QED
    BY <2>1, <2>3, AgeNext
<1>4. ASSUME NEW x \in Request, Asked(U, D, x) PROVE Before(b, x, m)
  <2>1. CASE x.cmd = "set"
    <3>1. Age(b, x.seq) = Age(a, x.seq) + 1 /\ Age(a, x.seq) \in Nat
      BY <1>3, <1>4, <2>1
    <3>2. Age(b, x.seq) > Age(b, m.seq)
      BY <1>2, <3>1
    <3>3. QED
      BY <2>1, <3>2 DEF Before
  <2>2. CASE x.cmd = "import"
    BY <1>4, <2>2 DEF Before
  <2>3. QED
    BY <1>4, <2>1, <2>2, RequestFields
<1>5. ASSUME NEW x \in Request, NEW y \in Request, Asked(U, D, x), Asked(U, D, y), Before(a, x, y)
      PROVE  Before(b, x, y)
  <2>1. CASE x.cmd = "import"
    BY <1>5, <2>1 DEF Before
  <2>2. CASE x.cmd # "import"
    <3>1. x.cmd = "set" /\ y.cmd = "set" /\ Age(a, x.seq) > Age(a, y.seq)
      BY <1>5, <2>2, RequestFields DEF Before
    <3>2. /\ Age(b, x.seq) = Age(a, x.seq) + 1 /\ Age(a, x.seq) \in Nat
          /\ Age(b, y.seq) = Age(a, y.seq) + 1 /\ Age(a, y.seq) \in Nat
      BY <1>3, <1>5, <3>1
    <3>3. Age(b, x.seq) > Age(b, y.seq)
      BY <3>1, <3>2
    <3>4. QED
      BY <3>1, <3>3 DEF Before
  <2>3. QED
    BY <2>1, <2>2
<1>6. InOrder(b, Append(U, m), D)
  BY <1>4, <1>5, OrderSent
<1>7. QED
  BY <1>2, <1>3, <1>6

\* What the invariant says of one task and its thread.
LEMMA TaskFacts ==
  ASSUME IInv, NEW t \in Task, Home[t] \in Client
  PROVE  /\ TypeOK /\ WaitqInv /\ UnitsKept
         /\ RequestInv(t) /\ CallInv(t) /\ ProbeInv(t) /\ NotifyInv(t)
         /\ up[Home[t]] \in Seq(Request) /\ down[Home[t]] \in Seq(Response)
         /\ counter[Home[t]] \in Number /\ held[t] \in Nat /\ want[t] \in Amount
         /\ value \in Nat /\ limit[t] \in {"zero", "ticks", "forever"}
<1>1. TypeOK /\ WaitqInv /\ UnitsKept /\ TaskInv(t)
  BY DEF IInv
<1>2. RequestInv(t) /\ CallInv(t) /\ ProbeInv(t) /\ NotifyInv(t)
  BY <1>1 DEF TaskInv, ClientInv
<1>3. /\ up[Home[t]] \in Seq(Request) /\ down[Home[t]] \in Seq(Response)
      /\ counter[Home[t]] \in Number /\ held[t] \in Nat /\ want[t] \in Amount
      /\ value \in Nat /\ limit[t] \in {"zero", "ticks", "forever"}
  BY <1>1 DEF TypeOK, Number
<1>4. QED
  BY <1>1, <1>2, <1>3

\* What a task has asked for when it sends another request to test.
Clear(t) ==
  \A m \in Request : Out(Home[t], m) =>
    /\ m.cmd # "test"
    /\ m.cmd = "set" => /\ m.n \in Amount /\ ~m.wait
                        /\ Age(counter[Home[t]], m.seq) + m.n + held[t] <= Initial
    /\ m.cmd = "import" => /\ m.seq = 0 /\ m.wait /\ held[t] = 0
                           /\ counter[Home[t]] # 0

SendsTest(t, n, wait) ==
  /\ WaitOnCount(t, "test", wait, n)
  /\ UNCHANGED <<value, notifyMask, exported, import, held, down>>
  /\ pc'[t] = "test" /\ want'[t] = n /\ limit'[t] # "ticks"
  /\ wait <=> limit'[t] # "zero"
  /\ timedOut'[t] <=> limit'[t] = "zero"
  /\ \A u \in Task \ {t} : /\ pc'[u] = pc[u] /\ want'[u] = want[u]
                           /\ limit'[u] = limit[u] /\ timedOut'[u] = timedOut[u]
  /\ pc' \in [Task -> {"user", "import", "test"}] /\ want' \in [Task -> Amount]
  /\ limit' \in [Task -> {"zero", "ticks", "forever"}] /\ timedOut' \in [Task -> BOOLEAN]

LEMMA TestSent ==
  ASSUME IInv, SafeUse, NEW t \in Task, Home[t] \in Client, import[Home[t]] = "done",
         NEW n \in Amount, NEW wait \in BOOLEAN, SendsTest(t, n, wait),
         Clear(t), ~Waits(t), ~OnTheWay(t)
  PROVE  IInv'
<1> DEFINE c == Home[t]
           a == counter[c]
           b == (a + 1) % Wrap
           m == [cmd |-> "test", seq |-> a, wait |-> wait, n |-> n]
<1>1. /\ TypeOK /\ WaitqInv
      /\ RequestInv(t) /\ CallInv(t) /\ ProbeInv(t) /\ NotifyInv(t)
      /\ up[c] \in Seq(Request) /\ down[c] \in Seq(Response) /\ a \in Number
      /\ held[t] \in Nat
  BY TaskFacts
<1>2. WaitOnCount(t, "test", wait, n)
  BY DEF SendsTest
<1>3. /\ OnlyMoves(t, TRUE)
      /\ m \in Request /\ up'[c] = Append(up[c], m)
      /\ a \in Int /\ counter'[c] = b
      /\ p2'[t] = a /\ a # Parked
      /\ \A u \in Task \ {t} : p2'[u] = p2[u]
      /\ \A h \in Client \ {c} : counter'[h] = counter[h] /\ up'[h] = up[h]
  BY <1>1, <1>2, Sent
<1>4. TypeOK'
  <2>1. waitq' \in [Thread -> Seq(Task)]
    BY <1>3 DEF OnlyMoves, WaitqInv, Table
  <2>2. /\ counter' \in [Client -> 0 .. Wrap - 1]
        /\ p2' \in [Task -> 0 .. Wrap] /\ up' \in [Client -> Seq(Request)]
    BY <1>1, <1>2, CountTypes
  <2>3. QED
    BY <1>1, <2>1, <2>2 DEF TypeOK, SendsTest
<1> DEFINE V == up'[c]
           D == down[c]
<1>5. \A x \in Request : Asked(V, D, x) <=> Asked(up[c], D, x) \/ x = m
  BY <1>1, <1>3, AskedSent
<1>6. down'[c] = D /\ \A x \in Request : Out(c, x)' <=> Out(c, x) \/ x = m
  <2>1. down'[c] = D
    BY DEF SendsTest
  <2>2. ASSUME NEW x \in Request PROVE Out(c, x)' <=> Out(c, x) \/ x = m
    BY <1>5, <2>1 DEF Out
  <2>3. QED
    BY <2>1, <2>2
<1>7. m.cmd = "test" /\ m.seq = a /\ m.wait = wait /\ m.n = n
  OBVIOUS
<1> HIDE DEF m, b
<1>8. /\ InOrder(b, V, D)
      /\ \A x \in Request : Asked(up[c], D, x) /\ x.cmd = "set" =>
           Age(b, x.seq) = Age(a, x.seq) + 1 /\ Age(a, x.seq) \in Nat
      /\ Age(b, a) = 0
  <2>1. ASSUME NEW x \in Request, Asked(up[c], D, x)
        PROVE  x.cmd # "test" /\ (x.cmd = "set" => Age(a, x.seq) < Initial)
    <3>1. /\ x.cmd # "test"
          /\ x.cmd = "set" => x.n \in Amount /\ Age(a, x.seq) + x.n + held[t] <= Initial
      BY <2>1 DEF Clear, Out
    <3>2. Age(a, x.seq) \in Int /\ Initial \in Int
      <4>1. Age(a, x.seq) \in Number
        BY <1>1, RequestFields, AgeProperties DEF Number
      <4>2. QED
        BY <4>1, ImportExportAssumption DEF Number
    <3>3. x.cmd = "set" => x.n \in Nat /\ x.n # 0
      BY <3>1, AmountIsNumber, Zenon
    <3>4. QED
      BY <1>1, <3>1, <3>2, <3>3
  <2>2. InOrder(a, up[c], D)
    BY <1>1 DEF RequestInv
  <2>3. Initial < Wrap
    BY DEF SafeUse
  <2>4. QED
    BY ONLY <1>1, <1>3, <1>7, <2>1, <2>2, <2>3, SentAges DEF b
<1>9. RequestInv(t)'
  <2>1. ASSUME NEW x \in Request, Out(c, x)' PROVE Fits(t, x)'
    <3>1. CASE x = m
      BY <1>3, <1>7, <3>1 DEF Fits, TestFits, OnlyMoves, SendsTest
    <3>2. CASE x.cmd = "set" /\ Out(c, x)
      <4>1. /\ x.n \in Amount /\ ~x.wait /\ Age(a, x.seq) + x.n + held[t] <= Initial
            /\ Age(b, x.seq) = Age(a, x.seq) + 1 /\ Age(a, x.seq) \in Nat
        BY <1>8, <3>2 DEF Clear, Out
      <4>2. x.n \in Nat /\ Initial \in Nat
        BY RequestFields, ImportExportAssumption
      <4>3. Age(b, x.seq) + x.n + held[t] <= Initial + 1
        BY <1>1, <4>1, <4>2
      <4>4. QED
        BY <1>3, <3>2, <4>1, <4>3 DEF Fits, SetFits, SendsTest
    <3>3. CASE x.cmd = "import" /\ Out(c, x)
      BY <1>3, <3>3 DEF Fits, ProbeFits, SendsTest, Clear
    <3>4. QED
      BY <1>6, <2>1, <3>1, <3>2, <3>3, RequestFields DEF Clear
  <2>2. InOrder(counter'[c], up'[c], down'[c])
    BY <1>3, <1>6, <1>8
  <2>3. QED
    BY <2>1, <2>2 DEF RequestInv
<1>10. CallInv(t)'
  BY <1>3, <1>6, <1>7, <1>8 DEF CallInv, LinkedFor, OnlyMoves, SendsTest
<1>11. ProbeInv(t)'
  BY <1>1, <1>6 DEF ProbeInv, SendsTest
<1>12. ~Waits(t)'
  <2>1. ~RefusalComes(t)'
    <3>1. \A x \in Request, ok \in BOOLEAN : Contains(D, AckOf(x, ok)) => x.cmd # "test"
      BY DEF Clear, Out, Asked
    <3>2. QED
      BY <1>6, <3>1 DEF RefusalComes
  <2>2. QED
    BY <1>3, <2>1 DEF Waits
<1>13. NotifyInv(t)'
  <2>1. Comes(c)' <=> Comes(c)
    BY <1>6 DEF Comes
  <2>2. QED
    BY <1>1, <1>6, <1>12, <2>1 DEF NotifyInv, SendsTest
<1>14. Elsewhere(t)
  <2>1. value' <= value /\ UNCHANGED exported
    BY <1>1 DEF SendsTest, TypeOK
  <2>2. QED
    BY <1>3, <2>1 DEF Elsewhere, SendsTest, OnlyMoves
<1>15. value' + Mine(t, held', Way', up') = value + Mine(t, held, Way, up)
  <2>1. ~OnTheWay(t)'
    <3>1. ASSUME Ending(t, TRUE)' PROVE FALSE
      <4>1. PICK i \in 1 .. Len(D) : D[i].type = "ack" /\ D[i].to.cmd = "test"
        BY <1>6, <3>1 DEF Ending
      <4>2. D[i].to \in Request /\ Out(c, D[i].to)
        BY <1>1, <4>1, AskedAt DEF Out
      <4>3. QED
        BY <4>1, <4>2 DEF Clear
    <3>2. QED
      BY <1>3, <3>1 DEF OnTheWay, OnlyMoves
  <2>2. Way[t] = 0 /\ Way'[t] = 0
    BY <2>1 DEF Way, Only
  <2>3. Coming(V) = Coming(up[c]) + SetUnits(m) /\ Coming(up[c]) \in Nat
    <3>1. UnitRequests(up[c]) /\ m.n \in Nat
      BY <1>1, <1>3, ComingIsNumber, RequestFields
    <3>2. QED
      BY ONLY <1>1, <1>3, <3>1, ComingAppend
  <2>4. SetUnits(m) = 0
    BY <1>7 DEF SetUnits
  <2>5. QED
    BY <1>1, <2>2, <2>3, <2>4 DEF Mine, SendsTest
<1>16. QED
  BY <1>3, <1>4, <1>9, <1>10, <1>11, <1>13, <1>14, <1>15, ElsewhereKept
     DEF TaskInv, ClientInv, OnlyMoves

LEMMA RequestTestKeeps ==
  ASSUME IInv, SafeUse, NEW t \in Task, NEW n \in Amount, NEW timeout \in Timeouts[t],
         RequestTest(t, n, timeout)
  PROVE  IInv'
<1> DEFINE c == Home[t]
<1>1. c \in Client /\ import[c] = "done" /\ pc[t] = "user"
  BY DEF RequestTest, Test
<1>2. /\ TypeOK /\ RequestInv(t) /\ CallInv(t) /\ NotifyInv(t) /\ held[t] \in Nat
      /\ counter[c] \in Number
  BY <1>1, TaskFacts
<1>3. timeout \in {"zero", "forever"}
  BY <1>1, ImportExportAssumption DEF SafeUse
<1>4. SendsTest(t, n, timeout # "zero")
  BY <1>2, <1>3 DEF RequestTest, Test, SendsTest, TypeOK, server
<1>5. Clear(t)
  <2>1. ASSUME NEW m \in Request, Out(c, m)
        PROVE  /\ m.cmd # "test"
               /\ m.cmd = "set" => SetFits(t, m)
               /\ m.cmd = "import" => ProbeFits(t, m)
    BY <1>1, <1>2, <2>1 DEF RequestInv, Fits, TestFits
  <2>2. QED
    BY <1>1, <2>1 DEF Clear, SetFits, ProbeFits
<1>6. ~Waits(t) /\ ~OnTheWay(t)
  BY <1>1 DEF Waits, OnTheWay
<1>7. QED
  BY <1>1, <1>4, <1>5, <1>6, TestSent

LEMMA RequestAgainKeeps ==
  ASSUME IInv, SafeUse, NEW t \in Task, RequestAgain(t)
  PROVE  IInv'
<1> DEFINE c == Home[t]
<1>1. c \in Client /\ pc[t] = "test" /\ ~Asleep(t) /\ p2[t] # 1 /\ ~timedOut[t]
  BY DEF RequestAgain, Woken
<1>2. TypeOK /\ CallInv(t) /\ want[t] \in Amount
  BY <1>1, TaskFacts
<1>3. /\ import[c] = "done" /\ limit[t] \notin {"zero", "ticks"}
      /\ \A m \in Request : ~Out(c, m)
  BY <1>1, <1>2 DEF CallInv
<1>4. SendsTest(t, want[t], TRUE)
  <2>1. WaitOnCount(t, "test", TRUE, want[t]) /\ UNCHANGED <<server, import, pc, call, held, down>>
    BY DEF RequestAgain
  <2>2. QED
    BY <1>1, <1>2, <1>3, <2>1 DEF SendsTest, TypeOK, server, call
<1>5. Clear(t)
  BY <1>3 DEF Clear
<1>6. ~Waits(t) /\ ~OnTheWay(t)
  BY <1>1 DEF Waits, OnTheWay
<1>7. QED
  BY <1>1, <1>2, <1>3, <1>4, <1>5, <1>6, TestSent

LEMMA RequestSetKeeps ==
  ASSUME IInv, SafeUse, NEW t \in Task, NEW n \in Amount, RequestSet(t, n)
  PROVE  IInv'
<1> DEFINE c == Home[t]
           a == counter[c]
           b == (a + 1) % Wrap
           m == [cmd |-> "set", seq |-> a, wait |-> FALSE, n |-> n]
           V == up'[c]
           D == down[c]
<1>1. /\ c \in Client /\ import[c] = "done" /\ pc[t] = "user" /\ n <= held[t]
      /\ WaitOnCount(t, "set", FALSE, n) /\ held' = [held EXCEPT ![t] = @ - n]
      /\ UNCHANGED <<value, notifyMask, exported, import, pc, want, limit, timedOut, down>>
  BY DEF RequestSet, server, call
<1>2. /\ TypeOK /\ WaitqInv /\ UnitsKept
      /\ RequestInv(t) /\ CallInv(t) /\ ProbeInv(t) /\ NotifyInv(t)
      /\ up[c] \in Seq(Request) /\ D \in Seq(Response) /\ a \in Number
      /\ held[t] \in Nat
  BY <1>1, TaskFacts
<1>3. /\ OnlyMoves(t, TRUE)
      /\ m \in Request /\ up'[c] = Append(up[c], m)
      /\ a \in Int /\ counter'[c] = b
      /\ p2'[t] = a /\ a # Parked
      /\ \A u \in Task \ {t} : p2'[u] = p2[u]
      /\ \A h \in Client \ {c} : counter'[h] = counter[h] /\ up'[h] = up[h]
  BY <1>1, <1>2, Sent
<1>4. n \in Nat /\ n # 0 /\ Initial \in Nat
  BY AmountIsNumber, ImportExportAssumption
<1>5. held'[t] = held[t] - n /\ held'[t] \in Nat /\ held' \in [Task -> Nat]
  BY <1>1, <1>2, <1>4 DEF TypeOK
<1>6. TypeOK'
  <2>1. waitq' \in [Thread -> Seq(Task)]
    BY <1>3 DEF OnlyMoves, WaitqInv, Table
  <2>2. /\ counter' \in [Client -> 0 .. Wrap - 1]
        /\ p2' \in [Task -> 0 .. Wrap] /\ up' \in [Client -> Seq(Request)]
    BY <1>1, <1>2, CountTypes
  <2>3. QED
    BY <1>1, <1>2, <1>5, <2>1, <2>2 DEF TypeOK
<1>7. down'[c] = D /\ \A x \in Request : Out(c, x)' <=> Out(c, x) \/ x = m
  <2>1. \A x \in Request : Asked(V, D, x) <=> Asked(up[c], D, x) \/ x = m
    <3>1. /\ up[c] \in Seq(Request) /\ m \in Request
          /\ \A x : Asked(Append(up[c], m), D, x) <=> Asked(up[c], D, x) \/ x = m
      <4> HIDE DEF m
      <4> QED BY <1>2, <1>3, AskedSent
    <3> HIDE DEF m
    <3>2. QED
      BY <1>3, <3>1
  <2>2. down'[c] = D
    BY <1>1
  <2>3. ASSUME NEW x \in Request PROVE Out(c, x)' <=> Out(c, x) \/ x = m
    BY <2>1, <2>2 DEF Out
  <2>4. QED
    BY <2>2, <2>3
<1>8. m.cmd = "set" /\ m.seq = a /\ m.wait = FALSE /\ m.n = n
  OBVIOUS
<1> HIDE DEF m, b
<1>9. ASSUME NEW x \in Request, Asked(up[c], D, x)
      PROVE  /\ x.cmd = "set" /\ x.n \in Amount /\ x.n \in Nat /\ x.n # 0 /\ ~x.wait
             /\ Age(a, x.seq) \in Int /\ Age(a, x.seq) + x.n + held[t] <= Initial
  <2>1. Fits(t, x)
    BY <1>2, <1>9 DEF RequestInv, Out
  <2>2. x.cmd # "test" /\ x.cmd # "import"
    BY <1>1, <1>2, <1>4, <2>1 DEF Fits, TestFits, ProbeFits
  <2>3. x.cmd = "set"
    BY <2>2, RequestFields
  <2>4. x.n \in Amount /\ ~x.wait /\ Age(a, x.seq) + x.n + held[t] <= Initial
    BY <1>1, <2>1, <2>3 DEF Fits, SetFits
  <2>5. x.n \in Nat /\ x.n # 0
    BY <2>4, AmountIsNumber, Zenon
  <2>6. Age(a, x.seq) \in Number
    BY <1>2, RequestFields, AgeProperties DEF Number
  <2>7. Age(a, x.seq) \in Int
    BY <2>6, ImportExportAssumption DEF Number
  <2>8. QED
    BY <2>3, <2>4, <2>5, <2>7
<1>10. /\ InOrder(b, V, D)
       /\ \A x \in Request : Asked(up[c], D, x) /\ x.cmd = "set" =>
            Age(b, x.seq) = Age(a, x.seq) + 1 /\ Age(a, x.seq) \in Nat
       /\ Age(b, a) = 0
  <2>1. ASSUME NEW x \in Request, Asked(up[c], D, x)
        PROVE  x.cmd = "set" /\ Age(a, x.seq) < Initial
    <3> DEFINE i == Age(a, x.seq)
               j == x.n
    <3>1. x.cmd = "set" /\ j \in Nat /\ j # 0 /\ i \in Int /\ i + j + held[t] <= Initial
      BY <1>9, <2>1
    <3> HIDE DEF i, j
    <3>2. i < Initial
      BY <1>2, <1>4, <3>1
    <3>3. QED
      BY <3>1, <3>2 DEF i
  <2>2. InOrder(a, up[c], D)
    BY <1>2 DEF RequestInv
  <2>3. Initial < Wrap
    BY DEF SafeUse
  <2>4. QED
    BY ONLY <1>2, <1>3, <1>8, <2>1, <2>2, <2>3, SentAges DEF b
<1>11. RequestInv(t)'
  <2>1. ASSUME NEW x \in Request, Out(c, x)' PROVE Fits(t, x)'
    <3>1. CASE x = m
      <4>1. held[t] <= Initial
        <5>1. value + held[t] + Way[t] <= Initial
          BY <1>2, UnitsBound
        <5>2. value \in Nat /\ Way[t] \in Nat
          BY <1>2, UnitsKeptIs DEF Numbers
        <5>3. QED
          BY <1>2, <1>4, <5>1, <5>2
      <4>2. Age(b, a) + n + held'[t] <= Initial
        BY <1>2, <1>4, <1>5, <1>10, <4>1
      <4>3. QED
        BY <1>1, <1>3, <1>8, <3>1, <4>2 DEF Fits, SetFits
    <3>2. CASE Out(c, x)
      <4>1. /\ x.cmd = "set" /\ x.n \in Amount /\ ~x.wait
            /\ Age(a, x.seq) + x.n + held[t] <= Initial
            /\ Age(b, x.seq) = Age(a, x.seq) + 1 /\ Age(a, x.seq) \in Nat
            /\ x.n \in Nat
        BY <1>9, <1>10, <3>2 DEF Out
      <4>2. Age(b, x.seq) + x.n + held'[t] <= Initial
        BY <1>2, <1>4, <1>5, <4>1
      <4>3. QED
        BY <1>1, <1>3, <4>1, <4>2 DEF Fits, SetFits
    <3>3. QED
      BY <1>7, <2>1, <3>1, <3>2
  <2>2. InOrder(counter'[c], up'[c], down'[c])
    BY <1>3, <1>7, <1>10
  <2>3. QED
    BY <2>1, <2>2 DEF RequestInv
<1>12. CallInv(t)'
  BY <1>1, <1>2, <1>3, <1>7, <1>8, <1>10 DEF CallInv, LinkedFor, OnlyMoves
<1>13. ProbeInv(t)'
  BY <1>1, <1>2 DEF ProbeInv
<1>14. NotifyInv(t)'
  <2>1. (Comes(c)' <=> Comes(c)) /\ ~Waits(t) /\ ~Waits(t)'
    BY <1>1 DEF Comes, Waits
  <2>2. QED
    BY <1>1, <1>2, <2>1 DEF NotifyInv
<1>15. Elsewhere(t)
  <2>1. value' <= value /\ UNCHANGED exported
    BY <1>1, <1>2 DEF TypeOK
  <2>2. \A u \in Task \ {t} : held'[u] = held[u]
    BY <1>1, <1>2 DEF TypeOK
  <2>3. QED
    BY <1>1, <1>3, <2>1, <2>2 DEF Elsewhere, OnlyMoves
<1>16. value' + Mine(t, held', Way', up') = value + Mine(t, held, Way, up)
  <2>1. Way[t] = 0 /\ Way'[t] = 0
    BY <1>1 DEF Way, Only, OnTheWay
  <2>2. Coming(V) = Coming(up[c]) + SetUnits(m) /\ Coming(up[c]) \in Nat
    <3>1. UnitRequests(up[c]) /\ m.n \in Nat
      BY <1>2, <1>4, <1>8, ComingIsNumber
    <3>2. QED
      BY ONLY <1>2, <1>3, <3>1, ComingAppend
  <2>3. SetUnits(m) = n
    BY <1>8 DEF SetUnits
  <2>4. Mine(t, held', Way', up') = Mine(t, held, Way, up)
    BY <1>1, <1>2, <1>4, <1>5, <2>1, <2>2, <2>3 DEF Mine
  <2>5. QED
    BY <1>1, <2>4
<1>17. QED
  BY <1>1, <1>3, <1>6, <1>11, <1>12, <1>13, <1>14, <1>15, <1>16, ElsewhereKept
     DEF TaskInv, ClientInv, OnlyMoves

LEMMA ImportKeeps ==
  ASSUME IInv, SafeUse, NEW t \in Task, Import(t)
  PROVE  IInv'
<1> DEFINE c == Home[t]
           m == [cmd |-> "import", seq |-> 0, wait |-> TRUE, n |-> 0]
           V == up'[c]
           D == down[c]
<1>1. /\ c \in Client /\ import[c] = "no" /\ pc[t] = "user"
      /\ WaitOnSequence(t, "import", 0, TRUE, 0)
      /\ import' = [import EXCEPT ![c] = "probing"] /\ pc' = [pc EXCEPT ![t] = "import"]
      /\ UNCHANGED <<value, notifyMask, exported, counter, want, limit, timedOut, held, down>>
  BY DEF Import, server, call
<1>2. /\ TypeOK /\ WaitqInv
      /\ RequestInv(t) /\ CallInv(t) /\ ProbeInv(t) /\ NotifyInv(t)
      /\ up[c] \in Seq(Request) /\ D \in Seq(Response) /\ counter[c] \in Number
      /\ held[t] \in Nat
  BY <1>1, TaskFacts
<1>3. 0 \in Number /\ 0 # Parked /\ Wrap \in Nat
  BY ImportExportAssumption DEF Number, Parked
<1>4. /\ m \in Request
      /\ p2' \in [Task -> 0 .. Wrap] /\ up' \in [Client -> Seq(Request)]
  BY <1>1, <1>2, <1>3, SendTypes
<1>5. OnlyMoves(t, TRUE)
  BY <1>1, <1>2, RelinkedQueues DEF WaitOnSequence
<1>6. /\ up'[c] = Append(up[c], m) /\ p2'[t] = 0
      /\ \A u \in Task \ {t} : p2'[u] = p2[u] /\ pc'[u] = pc[u]
      /\ \A h \in Client \ {c} : up'[h] = up[h] /\ import'[h] = import[h]
      /\ pc'[t] = "import" /\ import'[c] = "probing"
  BY <1>1, <1>2 DEF WaitOnSequence, TypeOK
<1>7. m.cmd = "import" /\ m.seq = 0 /\ m.wait = TRUE /\ m.n = 0
  OBVIOUS
<1>8. TypeOK'
  <2>1. waitq' \in [Thread -> Seq(Task)]
    BY <1>5 DEF OnlyMoves, WaitqInv, Table
  <2>2. QED
    BY <1>1, <1>2, <1>4, <2>1 DEF TypeOK
<1> HIDE DEF m
<1>9. \A x \in Request : ~Out(c, x)
  BY <1>1, <1>2 DEF RequestInv, Fits
<1>10. down'[c] = D /\ \A x \in Request : Out(c, x)' <=> x = m
  <2>1. \A x \in Request : Asked(V, D, x) <=> Asked(up[c], D, x) \/ x = m
    BY <1>2, <1>4, <1>6, AskedSent
  <2>2. down'[c] = D
    BY <1>1
  <2>3. ASSUME NEW x \in Request PROVE Out(c, x)' <=> x = m
    BY <1>9, <2>1, <2>2 DEF Out
  <2>4. QED
    BY <2>2, <2>3
<1>11. RequestInv(t)'
  <2>1. held[t] = 0
    BY <1>1, <1>2 DEF CallInv
  <2>2. ASSUME NEW x \in Request, Out(c, x)' PROVE Fits(t, x)'
    <3>1. x = m
      BY <1>10, <2>2
    <3>2. QED
      BY <1>1, <1>5, <1>6, <1>7, <2>1, <3>1 DEF Fits, ProbeFits, OnlyMoves
  <2>3. InOrder(counter[c], V, D)
    <3>1. InOrder(counter[c], up[c], D)
      BY <1>2 DEF RequestInv
    <3>2. \A x \in Request : ~Asked(up[c], D, x)
      BY <1>9 DEF Out
    <3>3. QED
      BY <1>2, <1>4, <1>6, <3>1, <3>2, OrderSent
  <2>4. QED
    BY <1>1, <2>2, <2>3 DEF RequestInv
<1>12. CallInv(t)'
  BY <1>1, <1>2, <1>3, <1>4, <1>5, <1>6, <1>7, <1>10 DEF CallInv, LinkedFor, OnlyMoves
<1>13. ProbeInv(t)'
  BY <1>1, <1>9 DEF ProbeInv, Out, Asked
<1>14. NotifyInv(t)'
  <2>1. (Comes(c)' <=> Comes(c)) /\ ~Waits(t) /\ ~Waits(t)'
    BY <1>1, <1>6 DEF Comes, Waits
  <2>2. QED
    BY <1>1, <1>2, <1>3, <1>5, <1>6, <2>1 DEF NotifyInv, OnlyMoves
<1>15. Elsewhere(t)
  <2>1. value' <= value /\ UNCHANGED exported
    BY <1>1, <1>2 DEF TypeOK
  <2>2. QED
    BY <1>1, <1>5, <1>6, <2>1 DEF Elsewhere, OnlyMoves
<1>16. value' + Mine(t, held', Way', up') = value + Mine(t, held, Way, up)
  <2>1. Way[t] = 0 /\ Way'[t] = 0
    BY <1>1, <1>6 DEF Way, Only, OnTheWay
  <2>2. Coming(V) = Coming(up[c]) + SetUnits(m) /\ Coming(up[c]) \in Nat
    <3>1. UnitRequests(up[c]) /\ m.n \in Nat
      BY <1>2, <1>7, ComingIsNumber
    <3>2. QED
      BY ONLY <1>2, <1>4, <1>6, <3>1, ComingAppend
  <2>3. SetUnits(m) = 0
    BY <1>7 DEF SetUnits
  <2>4. Mine(t, held', Way', up') = Mine(t, held, Way, up)
    BY <1>1, <2>1, <2>2, <2>3 DEF Mine
  <2>5. QED
    BY <1>1, <2>4
<1>17. QED
  BY <1>1, <1>5, <1>8, <1>11, <1>12, <1>13, <1>14, <1>15, <1>16, ElsewhereKept
     DEF TaskInv, ClientInv, OnlyMoves

LEMMA ImportedKeeps ==
  ASSUME IInv, SafeUse, NEW t \in Task, Home[t] \in Client, Imported(t)
  PROVE  IInv'
<1> DEFINE c == Home[t]
<1>1. /\ pc[t] = "import" /\ ~Asleep(t)
      /\ import' = [import EXCEPT ![c] = "done"] /\ pc' = [pc EXCEPT ![t] = "user"]
      /\ UNCHANGED <<value, notifyMask, exported, counter, waitq, want, limit, timedOut, p2,
                     held, up, down>>
  BY DEF Imported, server, call
<1>2. /\ TypeOK /\ WaitqInv
      /\ RequestInv(t) /\ CallInv(t) /\ ProbeInv(t) /\ NotifyInv(t)
      /\ down[c] \in Seq(Response)
  BY TaskFacts
<1>3. TypeOK'
  BY <1>1, <1>2 DEF TypeOK
<1>4. WaitqInv' /\ \A u \in Task : Asleep(u)' <=> Asleep(u)
  BY <1>1, <1>2, SameQueues
<1>5. /\ pc'[t] = "user" /\ import'[c] = "done"
      /\ \A u \in Task \ {t} : pc'[u] = pc[u]
      /\ \A h \in Client \ {c} : import'[h] = import[h]
  BY <1>1, <1>2 DEF TypeOK
<1>6. import[c] = "probing"
  BY <1>1, <1>2 DEF CallInv
<1>7. \A x \in Request : Out(c, x)' <=> Out(c, x)
  BY <1>1 DEF Out
<1>8. RequestInv(t)'
  <2>1. ASSUME NEW x \in Request, Out(c, x)' PROVE Fits(t, x)'
    <3>1. Fits(t, x)
      BY <1>2, <1>7, <2>1 DEF RequestInv
    <3>2. x.cmd = "import" /\ ProbeFits(t, x)
      BY <1>6, <3>1 DEF Fits
    <3>3. ProbeFits(t, x)'
      BY <1>1, <1>5, <3>2 DEF ProbeFits
    <3>4. QED
      BY <1>5, <3>2, <3>3 DEF Fits
  <2>2. InOrder(counter'[c], up'[c], down'[c])
    BY <1>1, <1>2 DEF RequestInv
  <2>3. QED
    BY <2>1, <2>2 DEF RequestInv
<1>9. CallInv(t)'
  BY <1>1, <1>2, <1>4, <1>5 DEF CallInv
<1>10. ProbeInv(t)'
  BY <1>1, <1>2, <1>5 DEF ProbeInv
<1>11. NotifyInv(t)'
  <2>1. (Comes(c)' <=> Comes(c)) /\ ~Waits(t) /\ ~Waits(t)'
    BY <1>1, <1>5 DEF Comes, Waits
  <2>2. exported /\ ~Comes(c)
    BY <1>1, <1>2 DEF NotifyInv
  <2>3. InTurn(TRUE, down[c])
    BY <1>2, <2>2, TurnDone DEF Comes
  <2>4. QED
    BY <1>1, <1>2, <1>5, <2>1, <2>2, <2>3 DEF NotifyInv
<1>12. Elsewhere(t)
  <2>1. value' <= value
    BY <1>1, <1>2 DEF TypeOK
  <2>2. QED
    BY <1>1, <1>4, <1>5, <2>1 DEF Elsewhere
<1>13. value' + Mine(t, held', Way', up') = value + Mine(t, held, Way, up)
  <2>1. Way[t] = 0 /\ Way'[t] = 0
    BY <1>1, <1>5 DEF Way, Only, OnTheWay
  <2>2. QED
    BY <1>1, <2>1 DEF Mine
<1>14. QED
  BY <1>3, <1>4, <1>8, <1>9, <1>10, <1>11, <1>12, <1>13, ElsewhereKept DEF TaskInv, ClientInv

LEMMA GrantedKeeps ==
  ASSUME IInv, SafeUse, NEW t \in Task, Granted(t) \/ Refused(t)
  PROVE  IInv'
<1> DEFINE c == Home[t]
           n == IF p2[t] = 1 THEN want[t] ELSE 0
<1>1. /\ c \in Client /\ pc[t] = "test" /\ ~Asleep(t)
      /\ pc' = [pc EXCEPT ![t] = "user"] /\ held' = [held EXCEPT ![t] = @ + n]
      /\ UNCHANGED <<value, notifyMask, exported, counter, import, waitq, want, limit,
                     timedOut, p2, up, down>>
  BY DEF Granted, Refused, Woken, Return, call
<1>2. /\ TypeOK /\ WaitqInv
      /\ RequestInv(t) /\ CallInv(t) /\ ProbeInv(t) /\ NotifyInv(t)
      /\ want[t] \in Amount /\ held[t] \in Nat
  BY <1>1, TaskFacts
<1>3. n \in Nat
  <2>1. want[t] \in Nat /\ 0 \in Nat
    BY <1>2, AmountIsNumber
  <2>2. QED
    BY <2>1
<1>4. /\ pc'[t] = "user" /\ held'[t] = held[t] + n /\ held'[t] \in Nat
      /\ \A u \in Task \ {t} : pc'[u] = pc[u] /\ held'[u] = held[u]
      /\ held' \in [Task -> Nat]
  <2> HIDE DEF n
  <2> QED BY <1>1, <1>2, <1>3 DEF TypeOK
<1>5. TypeOK'
  BY <1>1, <1>2, <1>4 DEF TypeOK
<1>6. WaitqInv' /\ \A u \in Task : Asleep(u)' <=> Asleep(u)
  BY <1>1, <1>2, SameQueues
<1>7. \A x \in Request : ~Out(c, x) /\ ~Out(c, x)'
  BY <1>1, <1>2 DEF CallInv, Out
<1>8. RequestInv(t)'
  <2>1. InOrder(counter'[c], up'[c], down'[c])
    BY <1>1, <1>2 DEF RequestInv
  <2>2. QED
    BY <1>7, <2>1 DEF RequestInv
<1>9. CallInv(t)'
  BY <1>1, <1>2, <1>4, <1>6 DEF CallInv
<1>10. ProbeInv(t)'
  BY <1>7 DEF ProbeInv, Out, Asked
<1>11. NotifyInv(t)'
  <2>1. (Comes(c)' <=> Comes(c)) /\ ~Waits(t) /\ ~Waits(t)'
    BY <1>1, <1>4 DEF Comes, Waits
  <2>2. QED
    BY <1>1, <1>2, <1>4, <2>1 DEF NotifyInv
<1>12. Elsewhere(t)
  <2>1. value' <= value
    BY <1>1, <1>2 DEF TypeOK
  <2>2. QED
    BY <1>1, <1>4, <1>6, <2>1 DEF Elsewhere
<1>13. value' + Mine(t, held', Way', up') = value + Mine(t, held, Way, up)
  <2>1. Way[t] = n /\ Way'[t] = 0
    BY <1>1, <1>4 DEF Way, Only, OnTheWay
  <2>2. up[c] \in Seq(Request) /\ Coming(up[c]) \in Nat
    BY <1>1, TaskFacts, ComingIsNumber
  <2> HIDE DEF n
  <2>3. QED
    BY <1>1, <1>2, <1>3, <1>4, <2>1, <2>2 DEF Mine
<1>14. QED
  BY <1>1, <1>5, <1>6, <1>8, <1>9, <1>10, <1>11, <1>12, <1>13, ElsewhereKept
     DEF TaskInv, ClientInv

-----------------------------------------------------------------------------
(* Answers and notifications that arrive at a client.                         *)

\* A client with a task or without.
LEMMA WithoutTask ==
  ASSUME IInv, NEW c \in Client, \A t \in Task : Home[t] # c
  PROVE  /\ waitq[c] = <<>>
         /\ \A m \in Request : ~Out(c, m)
         /\ down[c] # <<>> => Head(down[c]).type = "notify"
<1>1. WaitqInv /\ Senders /\ TypeOK
  BY DEF IInv
<1>2. \A m \in Request : ~Out(c, m)
  BY <1>1 DEF Senders
<1>3. waitq[c] = <<>>
  <2>1. c \in Thread /\ waitq[c] \in Seq(Task)
    BY <1>1, Homes DEF WaitqInv, Table
  <2>2. ASSUME waitq[c] # <<>> PROVE FALSE
    <3>1. Head(waitq[c]) \in Task /\ Contains(waitq[c], Head(waitq[c]))
      BY <2>1, <2>2, ContainsTail
    <3>2. QED
      BY <1>1, <2>1, <3>1 DEF WaitqInv, Links
  <2>3. QED
    BY <2>2
<1>4. ASSUME down[c] # <<>> PROVE Head(down[c]).type = "notify"
  <2>1. down[c] \in Seq(Response)
    BY <1>1 DEF TypeOK
  <2>2. Head(down[c]) \in Response /\ Contains(down[c], Head(down[c]))
    BY <1>4, <2>1, ContainsTail
  <2>3. ASSUME Head(down[c]).type = "ack" PROVE FALSE
    <3>1. /\ Head(down[c]).to \in Request /\ Head(down[c]).ok \in BOOLEAN
          /\ Head(down[c]) = AckOf(Head(down[c]).to, Head(down[c]).ok)
      BY <2>2, <2>3, ResponseCases, Responses
    <3>2. QED
      BY <1>2, <2>2, <3>1 DEF Out, Asked
  <2>4. QED
    BY <2>2, <2>3, ResponseCases
<1>5. QED
  BY <1>2, <1>3, <1>4

\* Nothing happens when a message arrives at a client without a task.
LEMMA NobodyTold ==
  ASSUME IInv, NEW c \in Client, \A t \in Task : Home[t] # c, ClientReceives(c)
  PROVE  IInv'
<1>1. /\ waitq[c] = <<>> /\ \A m \in Request : ~Out(c, m)
      /\ down[c] # <<>> => Head(down[c]).type = "notify"
  BY WithoutTask
<1>2. /\ TypeOK /\ WaitqInv /\ Senders /\ UnitsKept /\ \A t \in Task : TaskInv(t)
      /\ waitq \in [Thread -> Seq(Task)] /\ p2 \in [Task -> 0 .. Wrap]
      /\ down \in [Client -> Seq(Response)]
  BY DEF IInv, TypeOK
<1>3. /\ Notify(c) /\ down' = [down EXCEPT ![c] = Tail(@)]
      /\ UNCHANGED <<value, notifyMask, exported, counter, import, pc, want, limit, timedOut,
                     held, up>>
  BY <1>1 DEF ClientReceives, Ack, server, call
<1>4. waitq' = waitq /\ p2' = p2
  <2>1. CASE import[c] = "no"
    BY <1>3, <2>1 DEF Notify
  <2>2. CASE import[c] # "no"
    <3>1. \A t : ~Contains(waitq[c], t)
      BY <1>1 DEF Contains
    <3>2. waitq' = [waitq EXCEPT ![c] = <<>>] /\ p2' = [t \in Task |-> p2[t]]
      BY <1>3, <2>2, <3>1 DEF Notify
    <3>3. QED
      BY <1>1, <1>2, <3>2
  <2>3. QED
    BY <2>1, <2>2
<1>5. down[c] # <<>> /\ down[c] \in Seq(Response) /\ Tail(down[c]) \in Seq(Response)
  BY <1>2, <1>3, ContainsTail DEF Notify
<1>6. TypeOK'
  BY <1>2, <1>3, <1>4, <1>5 DEF TypeOK
<1>7. WaitqInv' /\ \A u \in Task : Asleep(u)' <=> Asleep(u)
  BY <1>2, <1>4, SameQueues
<1>8. ASSUME NEW h \in Client, h # c PROVE down'[h] = down[h]
  BY <1>2, <1>3, <1>8
<1>9. ASSUME NEW u \in Task PROVE TaskInv(u)' /\ (OnTheWay(u)' <=> OnTheWay(u))
  <2>1. TaskInv(u)
    BY <1>2
  <2>2. CASE Home[u] \in Client
    <3>1. Same(u)
      BY <1>3, <1>4, <1>7, <1>8, <2>2 DEF Same
    <3>2. QED
      BY <1>3, <2>1, <2>2, <3>1, SameKeepsClient, SameIsOnTheWay DEF TaskInv
  <2>3. CASE Home[u] \notin Client
    BY <1>3, <1>7, <2>1, <2>3 DEF TaskInv, LocalInv, OnTheWay
  <2>4. QED
    BY <2>2, <2>3
<1>10. Senders'
  <2>1. down'[c] = Tail(down[c])
    BY <1>2, <1>3
  <2>2. \A m \in Request : Asked(up[c], Tail(down[c]), m) => Asked(up[c], down[c], m)
    <3>1. \A y : Contains(Tail(down[c]), y) => Contains(down[c], y)
      BY <1>5, ContainsTail
    <3>2. QED
      BY <3>1 DEF Asked
  <2>3. \A h \in Client, m \in Request : Out(h, m)' => Out(h, m)
    BY <1>3, <1>8, <2>1, <2>2 DEF Out
  <2>4. QED
    BY <1>2, <2>3 DEF Senders
<1>11. UnitsKept'
  BY <1>2, <1>3, <1>6, <1>9, UnitsStay
<1>12. QED
  BY <1>6, <1>7, <1>9, <1>10, <1>11 DEF IInv

\* The answer to request m is the first message to a client.
Arrives(c, m, ok, E) ==
  /\ m \in Request /\ ok \in BOOLEAN /\ E \in Seq(Response) /\ down'[c] = E
  /\ \A y : Contains(down[c], y) <=> y = AckOf(m, ok) \/ Contains(E, y)
  /\ \A x \in Request : Out(c, x) <=> x = m \/ Out(c, x)'
  /\ \A x \in Request : Out(c, x)' => Before(counter[c], m, x)
  /\ InOrder(counter[c], up[c], E)
  /\ InTurn(import[c] = "done", E)
  /\ \A y : Contains(E, y) => Turn(import[c] = "done", AckOf(m, ok), y)
  /\ Comes(c)' <=> Comes(c)

LEMMA AckArrives ==
  ASSUME IInv, NEW t \in Task, Home[t] \in Client, down[Home[t]] # <<>>,
         Head(down[Home[t]]).type = "ack", UNCHANGED up,
         down' = [down EXCEPT ![Home[t]] = Tail(@)]
  PROVE  LET r == Head(down[Home[t]])
         IN  /\ Arrives(Home[t], r.to, r.ok, Tail(down[Home[t]]))
             /\ r \in Response /\ r = AckOf(r.to, r.ok)
<1> DEFINE c == Home[t]
           D == down[c]
           r == Head(D)
           E == Tail(D)
<1>1. /\ TypeOK /\ RequestInv(t) /\ NotifyInv(t) /\ D \in Seq(Response) /\ up[c] \in Seq(Request)
  BY TaskFacts
<1>2. down'[c] = E
  BY <1>1 DEF TypeOK
<1>3. /\ r \in Response /\ E \in Seq(Response)
      /\ \A x \in Request : Asked(up[c], D, x) <=> x = r.to \/ Asked(up[c], E, x)
  BY <1>1, AskedTold
<1>4. r.to \in Request /\ r.ok \in BOOLEAN /\ r = AckOf(r.to, r.ok) /\ r # Notification
  BY <1>3, ResponseCases, Responses
<1>5. InOrder(counter[c], up[c], D) /\ InTurn(import[c] = "done", D)
  BY <1>1 DEF RequestInv, NotifyInv
<1>6. /\ InOrder(counter[c], up[c], E)
      /\ \A x \in Request : Asked(up[c], E, x) => Before(counter[c], r.to, x)
  BY <1>1, <1>5, OrderTold
<1>7. /\ InTurn(import[c] = "done", E)
      /\ \A y : Contains(E, y) => Turn(import[c] = "done", r, y)
  BY <1>1, <1>5, TurnTail
<1>8. \A y : Contains(D, y) <=> y = r \/ Contains(E, y)
  BY <1>1, ContainsTail
<1> HIDE DEF E, r
<1>9. \A x \in Request : (Out(c, x) <=> x = r.to \/ Out(c, x)')
                         /\ (Out(c, x)' => Before(counter[c], r.to, x))
  BY <1>2, <1>3, <1>6 DEF Out
<1>10. Comes(c)' <=> Comes(c)
  BY <1>2, <1>4, <1>8 DEF Comes
<1>11. Arrives(c, r.to, r.ok, E)
  BY <1>2, <1>3, <1>4, <1>6, <1>7, <1>8, <1>9, <1>10 DEF Arrives
<1>12. QED
  BY <1>3, <1>4, <1>11 DEF E, r

\* The answers that end a call.
Granting(D, s) ==
  \E x \in Request : Contains(D, AckOf(x, TRUE)) /\ x.cmd = "test" /\ x.seq = s
GrantAt(D, s) ==
  \E i \in 1 .. Len(D) : /\ D[i].type = "ack" /\ D[i].ok = TRUE
                         /\ D[i].to.cmd = "test" /\ D[i].to.seq = s

LEMMA EndingOf ==
  ASSUME NEW D \in Seq(Response), NEW s
  PROVE  GrantAt(D, s) <=> Granting(D, s)
<1>1. ASSUME NEW i \in 1 .. Len(D), D[i].type = "ack", D[i].ok = TRUE,
             D[i].to.cmd = "test", D[i].to.seq = s
      PROVE  \E x \in Request : Contains(D, AckOf(x, TRUE)) /\ x.cmd = "test" /\ x.seq = s
  <2>1. D[i] \in Response /\ Contains(D, D[i])
    BY ElementOfSeq DEF Contains
  <2>2. D[i].to \in Request /\ D[i] = AckOf(D[i].to, TRUE)
    BY <1>1, <2>1, ResponseCases, Responses
  <2>3. QED
    BY <1>1, <2>1, <2>2
<1>2. ASSUME NEW x \in Request, Contains(D, AckOf(x, TRUE)), x.cmd = "test", x.seq = s
      PROVE  GrantAt(D, s)
  <2>1. PICK i \in 1 .. Len(D) : D[i] = AckOf(x, TRUE)
    BY <1>2 DEF Contains
  <2>2. QED
    BY <1>2, <2>1, Responses DEF GrantAt
<1>3. QED
  BY <1>1, <1>2 DEF Granting, GrantAt

LEMMA EndingIs ==
  ASSUME NEW t \in Task, down[Home[t]] \in Seq(Response)
  PROVE  Ending(t, TRUE) <=> Granting(down[Home[t]], p2[t])
<1> DEFINE D == down[Home[t]]
           s == p2[t]
<1>1. Ending(t, TRUE) <=> GrantAt(D, s)
  BY DEF Ending, GrantAt
<1> HIDE DEF s
<1>2. GrantAt(D, s) <=> Granting(D, s)
  BY EndingOf
<1>3. QED
  BY <1>1, <1>2 DEF s

LEMMA EndingNext ==
  ASSUME NEW t \in Task, down'[Home[t]] \in Seq(Response)
  PROVE  Ending(t, TRUE)' <=> Granting(down'[Home[t]], p2'[t])
<1> DEFINE D == down'[Home[t]]
           s == p2'[t]
<1>1. Ending(t, TRUE)' <=> GrantAt(D, s)
  BY DEF Ending, GrantAt
<1>2. D \in Seq(Response)
  OBVIOUS
<1> HIDE DEF D, s
<1>3. GrantAt(D, s) <=> Granting(D, s)
  BY <1>2, EndingOf
<1>4. QED
  BY <1>1, <1>3 DEF D, s

\* An answer nobody sleeps for.
LEMMA AckMisses ==
  ASSUME IInv, SafeUse, NEW t \in Task, Home[t] \in Client, NEW m, NEW ok, NEW E,
         Arrives(Home[t], m, ok, E), ~(Asleep(t) /\ p2[t] = m.seq),
         down' = [down EXCEPT ![Home[t]] = Tail(@)],
         UNCHANGED <<value, notifyMask, exported, counter, import, waitq, pc, want, limit,
                     timedOut, p2, held, up>>
  PROVE  IInv'
<1> DEFINE c == Home[t]
<1>1. /\ TypeOK /\ WaitqInv
      /\ RequestInv(t) /\ CallInv(t) /\ ProbeInv(t) /\ NotifyInv(t)
      /\ down[c] \in Seq(Response) /\ want[t] \in Amount
  BY TaskFacts
<1>2. /\ m \in Request /\ ok \in BOOLEAN /\ E \in Seq(Response) /\ down'[c] = E
      /\ \A y : Contains(down[c], y) <=> y = AckOf(m, ok) \/ Contains(E, y)
      /\ \A x \in Request : Out(c, x) <=> x = m \/ Out(c, x)'
      /\ InOrder(counter[c], up[c], E) /\ InTurn(import[c] = "done", E)
      /\ Comes(c)' <=> Comes(c)
  BY DEF Arrives
<1>3. TypeOK'
  <2>1. \A h \in Client \ {c} : down'[h] = down[h]
    BY <1>1 DEF TypeOK
  <2>2. down' \in [Client -> Seq(Response)]
    BY <1>1, <1>2, <2>1 DEF TypeOK
  <2>3. QED
    BY <1>1, <2>2 DEF TypeOK
<1>4. WaitqInv' /\ \A u \in Task : Asleep(u)' <=> Asleep(u)
  BY <1>1, SameQueues
<1>5. m.cmd # "test"
  <2>1. Fits(t, m)
    BY <1>1, <1>2 DEF RequestInv
  <2>2. QED
    BY <2>1 DEF Fits, TestFits
<1>6. RequestInv(t)'
  <2>1. ASSUME NEW x \in Request, Out(c, x)' PROVE Fits(t, x)'
    <3>1. Fits(t, x)
      BY <1>1, <1>2, <2>1 DEF RequestInv
    <3>2. QED
      BY <1>4, <3>1 DEF Fits, SetFits, TestFits, ProbeFits
  <2>2. InOrder(counter'[c], up'[c], down'[c])
    BY <1>2
  <2>3. QED
    BY <2>1, <2>2 DEF RequestInv
<1>7. CallInv(t)'
  <2>1. ASSUME Asleep(t), p2[t] # Parked
        PROVE  \E x \in Request : Out(c, x)' /\ LinkedFor(t, x)
    <3>1. PICK x \in Request : Out(c, x) /\ LinkedFor(t, x)
      BY <1>1, <2>1 DEF CallInv
    <3>2. x # m
      BY <2>1, <3>1 DEF LinkedFor
    <3>3. QED
      BY <1>2, <3>1, <3>2
  <2>2. (\A x \in Request : ~Out(c, x)) => \A x \in Request : ~Out(c, x)'
    BY <1>2
  <2>3. \A x \in Request : LinkedFor(t, x)' <=> LinkedFor(t, x)
    BY DEF LinkedFor
  <2>4. QED
    BY <1>1, <1>4, <2>1, <2>2, <2>3 DEF CallInv
<1>8. ProbeInv(t)'
  BY <1>1, <1>2, <1>4 DEF ProbeInv
<1>9. NotifyInv(t)'
  <2>1. RefusalComes(t)' <=> RefusalComes(t)
    <3>1. \A x \in Request : x.cmd = "test" => AckOf(x, FALSE) # AckOf(m, ok)
      BY <1>2, <1>5, AckOfIs
    <3>2. QED
      BY <1>2, <3>1 DEF RefusalComes
  <2>2. Waits(t)' <=> Waits(t)
    BY <1>4, <2>1 DEF Waits
  <2>3. QED
    BY <1>1, <1>2, <1>4, <2>2 DEF NotifyInv
<1>10. Elsewhere(t)
  <2>1. value' <= value /\ \A h \in Client \ {c} : down'[h] = down[h]
    BY <1>1 DEF TypeOK
  <2>2. QED
    BY <1>4, <2>1 DEF Elsewhere
<1>11. value' + Mine(t, held', Way', up') = value + Mine(t, held, Way, up)
  <2>1. Ending(t, TRUE)' <=> Ending(t, TRUE)
    <3>1. Ending(t, TRUE) <=> Granting(down[c], p2[t])
      BY <1>1, EndingIs
    <3>2. down'[c] \in Seq(Response)
      BY <1>2
    <3>3. Ending(t, TRUE)' <=> Granting(E, p2[t])
      BY <1>2, <3>2, EndingNext
    <3>4. \A x \in Request : x.cmd = "test" => AckOf(x, TRUE) # AckOf(m, ok)
      BY <1>2, <1>5, AckOfIs
    <3>5. QED
      BY <1>2, <3>1, <3>3, <3>4 DEF Granting
  <2>2. OnTheWay(t)' <=> OnTheWay(t)
    BY <1>4, <2>1 DEF OnTheWay
  <2>3. Way'[t] = Way[t]
    BY <2>2 DEF Way, Only
  <2>4. QED
    BY <2>3 DEF Mine
<1>12. QED
  BY <1>3, <1>4, <1>6, <1>7, <1>8, <1>9, <1>10, <1>11, ElsewhereKept DEF TaskInv, ClientInv

\* The answer a task sleeps for is the last message about its requests.
LEMMA AckIsLast ==
  ASSUME IInv, NEW t \in Task, Home[t] \in Client, NEW m, NEW ok, NEW E,
         Arrives(Home[t], m, ok, E), Asleep(t), p2[t] = m.seq
  PROVE  /\ p2[t] # Parked /\ LinkedFor(t, m) /\ Fits(t, m)
         /\ \A x \in Request : ~Out(Home[t], x)'
<1> DEFINE c == Home[t]
           a == counter[c]
<1>1. TypeOK /\ RequestInv(t) /\ CallInv(t) /\ a \in Number
  BY TaskFacts
<1>2. /\ m \in Request
      /\ \A x \in Request : Out(c, x) <=> x = m \/ Out(c, x)'
      /\ \A x \in Request : Out(c, x)' => Before(a, m, x)
  BY DEF Arrives
<1>3. m.seq \in Number /\ m.seq \in Int /\ m.seq # Parked
  BY <1>2, RequestFields DEF Number, Parked
<1>4. \A x \in Request : Out(c, x) => Fits(t, x)
  BY <1>1 DEF RequestInv
<1>5. PICK n \in Request : Out(c, n) /\ LinkedFor(t, n)
  BY <1>1, <1>3 DEF CallInv
<1>6. \A x \in Request : Age(a, x.seq) \in Int /\ Age(a, x.seq) >= 0
  <2>1. ASSUME NEW x \in Request PROVE Age(a, x.seq) \in Number
    BY <1>1, RequestFields, AgeProperties DEF Number
  <2>2. QED
    BY <2>1, ImportExportAssumption DEF Number
<1>7. n = m
  <2>1. SUFFICES ASSUME n # m PROVE FALSE
    OBVIOUS
  <2>2. Before(a, m, n) /\ n.seq = m.seq
    BY <1>2, <1>5, <2>1 DEF LinkedFor
  <2>3. ~(Age(a, m.seq) > Age(a, n.seq))
    BY <1>2, <1>6, <2>2
  <2>4. m.cmd = "import" /\ n.cmd = "test"
    BY <2>2, <2>3 DEF Before
  <2>5. ProbeFits(t, m) /\ TestFits(t, n)
    BY <1>2, <1>4, <1>5, <2>4 DEF Fits
  <2>6. QED
    BY <2>5 DEF ProbeFits, TestFits
<1>8. ASSUME NEW x \in Request, Out(c, x)' PROVE FALSE
  <2>1. Before(a, m, x)
    BY <1>2, <1>8
  <2>2. CASE pc[t] = "import"
    <3>1. x.cmd = "test"
      BY <1>5, <1>7, <2>1, <2>2 DEF LinkedFor, Before
    <3>2. TestFits(t, x)
      BY <1>2, <1>4, <1>8, <3>1 DEF Fits
    <3>3. QED
      BY <2>2, <3>2 DEF TestFits
  <2>3. CASE pc[t] # "import"
    <3>1. Age(a, m.seq) = 0
      BY <1>1, <1>3, <2>3 DEF CallInv
    <3>2. m.cmd # "import"
      BY <1>5, <1>7, <2>3 DEF LinkedFor
    <3>3. QED
      BY <1>6, <2>1, <3>1, <3>2 DEF Before
  <2>4. QED
    BY <2>2, <2>3
<1>9. QED
  BY <1>2, <1>3, <1>4, <1>5, <1>7, <1>8

LEMMA AckHits ==
  ASSUME IInv, SafeUse, NEW t \in Task, Home[t] \in Client, NEW m, NEW ok, NEW E,
         Arrives(Home[t], m, ok, E), Asleep(t), p2[t] = m.seq,
         down' = [down EXCEPT ![Home[t]] = Tail(@)],
         IF ok \/ ~m.wait
           THEN waitq' = Unlinked(waitq, t) /\ p2' = [p2 EXCEPT ![t] = IF ok THEN 1 ELSE 0]
           ELSE p2' = [p2 EXCEPT ![t] = Parked] /\ UNCHANGED waitq,
         UNCHANGED <<value, notifyMask, exported, counter, import, pc, want, limit,
                     timedOut, held, up>>
  PROVE  IInv'
<1> DEFINE c == Home[t]
           parks == ~(ok \/ ~m.wait)
<1>1. /\ TypeOK /\ WaitqInv
      /\ RequestInv(t) /\ CallInv(t) /\ ProbeInv(t) /\ NotifyInv(t)
      /\ down[c] \in Seq(Response) /\ want[t] \in Amount
  BY TaskFacts
<1>2. /\ m \in Request /\ ok \in BOOLEAN /\ E \in Seq(Response) /\ down'[c] = E
      /\ \A y : Contains(down[c], y) <=> y = AckOf(m, ok) \/ Contains(E, y)
      /\ InOrder(counter[c], up[c], E) /\ InTurn(import[c] = "done", E)
      /\ \A y : Contains(E, y) => Turn(import[c] = "done", AckOf(m, ok), y)
      /\ Comes(c)' <=> Comes(c)
  BY DEF Arrives
<1>3. /\ p2[t] # Parked /\ LinkedFor(t, m) /\ Fits(t, m)
      /\ \A x \in Request : ~Out(c, x)'
  BY AckIsLast
<1>4. \A x \in Request, o \in BOOLEAN : ~Contains(E, AckOf(x, o))
  BY <1>2, <1>3 DEF Out, Asked
<1>5. m.wait \in BOOLEAN /\ Wrap \in Nat \ {0, 1}
  BY <1>2, RequestFields, ImportExportAssumption
<1>6. /\ WaitqInv' /\ (Asleep(t)' <=> parks)
      /\ \A u \in Task \ {t} : Asleep(u)' <=> Asleep(u)
  <2>1. CASE parks
    BY <1>1, <2>1, SameQueues
  <2>2. CASE ~parks
    BY <1>1, <2>2, UnlinkedQueues DEF OnlyMoves
  <2>3. QED
    BY <2>1, <2>2
<1>7. /\ p2'[t] = IF parks THEN Parked ELSE IF ok THEN 1 ELSE 0
      /\ p2' \in [Task -> 0 .. Wrap]
      /\ \A u \in Task \ {t} : p2'[u] = p2[u]
  <2>1. p2 \in [Task -> 0 .. Wrap] /\ 0 \in 0 .. Wrap /\ 1 \in 0 .. Wrap /\ Parked \in 0 .. Wrap
    BY <1>1, <1>5 DEF TypeOK, Parked
  <2>2. CASE parks
    BY <2>1, <2>2
  <2>3. CASE ~parks
    BY <2>1, <2>3
  <2>4. QED
    BY <2>2, <2>3
<1>8. TypeOK'
  <2>1. \A h \in Client \ {c} : down'[h] = down[h]
    BY <1>1 DEF TypeOK
  <2>2. down' \in [Client -> Seq(Response)]
    BY <1>1, <1>2, <2>1 DEF TypeOK
  <2>3. waitq' \in [Thread -> Seq(Task)]
    BY <1>6 DEF WaitqInv, Table
  <2>4. QED
    BY <1>1, <1>7, <2>2, <2>3 DEF TypeOK
<1>9. 1 # Parked /\ 0 # Parked
  BY <1>5 DEF Parked
<1> HIDE DEF parks
<1>10. RequestInv(t)'
  BY <1>2, <1>3 DEF RequestInv
<1>11. parks => pc[t] # "user" /\ (pc[t] = "test" => limit[t] # "zero")
  BY <1>2, <1>3 DEF parks, LinkedFor, Fits, SetFits, TestFits
<1>12. CallInv(t)'
  BY <1>1, <1>3, <1>6, <1>7, <1>9, <1>11 DEF CallInv
<1>13. ProbeInv(t)'
  BY <1>2, <1>4 DEF ProbeInv
<1>14. NotifyInv(t)'
  <2>1. ~RefusalComes(t)' /\ (RefusalComes(t) <=> m.cmd = "test" /\ ~ok)
    <3>1. ~RefusalComes(t)'
      BY <1>2, <1>4 DEF RefusalComes
    <3>2. ASSUME RefusalComes(t) PROVE m.cmd = "test" /\ ~ok
      <4>1. PICK x \in Request : x.cmd = "test" /\ Contains(down[c], AckOf(x, FALSE))
        BY <3>2 DEF RefusalComes
      <4>2. AckOf(x, FALSE) = AckOf(m, ok)
        BY <1>2, <1>4, <4>1
      <4>3. QED
        BY <1>2, <4>1, <4>2, AckOfIs
    <3>3. ASSUME m.cmd = "test", ~ok PROVE RefusalComes(t)
      <4>1. Contains(down[c], AckOf(m, FALSE))
        BY <1>2, <3>3
      <4>2. QED
        BY <1>2, <3>3, <4>1 DEF RefusalComes
    <3>4. QED
      BY <3>1, <3>2, <3>3
  <2>2. (pc[t] = "test" <=> m.cmd = "test") /\ (m.cmd = "test" => (m.wait <=> limit[t] # "zero"))
    BY <1>3 DEF LinkedFor, Fits, TestFits
  <2>3. Waits(t) <=> m.cmd = "test" /\ ~ok /\ m.wait
    BY <1>3, <2>1, <2>2 DEF Waits
  <2>4. Waits(t)' <=> m.cmd = "test" /\ ~ok /\ m.wait
    BY <1>6, <1>7, <1>9, <2>1, <2>2 DEF Waits, parks
  <2>5. ASSUME pc[t] = "import"
        PROVE  IF ~Asleep(t)' THEN exported /\ ~Comes(c) ELSE Comes(c) \/ ~exported
    <3>1. m.cmd = "import" /\ m.wait /\ import[c] # "done"
      BY <1>1, <1>3, <2>5 DEF LinkedFor, Fits, ProbeFits, CallInv
    <3>2. Contains(down[c], AckOf(m, ok))
      BY <1>2
    <3>3. IF ok THEN exported ELSE Comes(c) \/ ~exported
      BY <1>1, <1>2, <2>5, <3>1, <3>2 DEF ProbeInv
    <3>4. ASSUME ok, Comes(c) PROVE FALSE
      <4>1. Contains(E, Notification)
        BY <1>2, <3>4 DEF Comes
      <4>2. Turn(FALSE, AckOf(m, ok), Notification)
        BY <1>2, <3>1, <4>1
      <4>3. QED
        BY <1>2, <3>4, <4>2, Responses DEF Turn
    <3>5. QED
      BY <1>6, <3>1, <3>3, <3>4 DEF parks
  <2>6. QED
    BY <1>1, <1>2, <2>3, <2>4, <2>5 DEF NotifyInv
<1>15. Elsewhere(t)
  <2>1. value' <= value /\ \A h \in Client \ {c} : down'[h] = down[h]
    BY <1>1 DEF TypeOK
  <2>2. QED
    BY <1>6, <1>7, <2>1 DEF Elsewhere
<1>16. value' + Mine(t, held', Way', up') = value + Mine(t, held, Way, up)
  <2>1. Ending(t, TRUE) <=> m.cmd = "test" /\ ok
    <3>1. Ending(t, TRUE) <=> Granting(down[c], p2[t])
      BY <1>1, EndingIs
    <3>2. ASSUME NEW x \in Request, Contains(down[c], AckOf(x, TRUE)), x.cmd = "test"
          PROVE  m.cmd = "test" /\ ok
      <4>1. AckOf(x, TRUE) = AckOf(m, ok)
        BY <1>2, <1>4, <3>2
      <4>2. QED
        BY <1>2, <3>2, <4>1, AckOfIs
    <3>3. ASSUME m.cmd = "test", ok PROVE Granting(down[c], p2[t])
      <4>1. Contains(down[c], AckOf(m, TRUE))
        BY <1>2, <3>3
      <4>2. QED
        BY <1>2, <3>3, <4>1 DEF Granting
    <3>4. QED
      BY <3>1, <3>2, <3>3 DEF Granting
  <2>2. ~Ending(t, TRUE)'
    <3>1. down'[c] \in Seq(Response)
      BY <1>2
    <3>2. Ending(t, TRUE)' <=> Granting(E, p2'[t])
      BY <1>2, <3>1, EndingNext
    <3>3. QED
      BY <1>4, <3>2 DEF Granting
  <2>3. pc[t] = "test" <=> m.cmd = "test"
    BY <1>3 DEF LinkedFor, Fits, TestFits
  <2>4. OnTheWay(t)' <=> OnTheWay(t)
    <3>1. p2'[t] = 1 <=> ok
      BY <1>7, <1>9 DEF parks
    <3>2. QED
      BY <1>6, <2>1, <2>2, <2>3, <3>1 DEF OnTheWay, parks
  <2>5. Way'[t] = Way[t]
    BY <2>4 DEF Way, Only
  <2>6. QED
    BY <2>5 DEF Mine
<1>17. QED
  BY <1>6, <1>8, <1>10, <1>12, <1>13, <1>14, <1>15, <1>16, ElsewhereKept DEF TaskInv, ClientInv

\* A NOTIFY wakes the task of a client, which has been refused if it tests.
LEMMA NotifyKeeps ==
  ASSUME IInv, SafeUse, NEW t \in Task, Home[t] \in Client,
         ClientReceives(Home[t]), Notify(Home[t])
  PROVE  IInv'
<1> DEFINE c == Home[t]
           D == down[c]
           E == Tail(D)
           done == import[c] = "done"
<1>1. /\ TypeOK /\ WaitqInv
      /\ RequestInv(t) /\ CallInv(t) /\ ProbeInv(t) /\ NotifyInv(t)
      /\ D \in Seq(Response) /\ up[c] \in Seq(Request) /\ want[t] \in Amount
  BY TaskFacts
<1>2. /\ D # <<>> /\ Head(D).type = "notify" /\ down' = [down EXCEPT ![c] = Tail(@)]
      /\ IF import[c] = "no" THEN UNCHANGED <<waitq, p2>>
         ELSE /\ waitq' = [waitq EXCEPT ![c] = <<>>]
              /\ p2' = [u \in Task |-> IF Contains(waitq[c], u) THEN 0 ELSE p2[u]]
      /\ UNCHANGED <<value, notifyMask, exported, counter, import, pc, want, limit,
                     timedOut, held, up>>
  BY DEF ClientReceives, Notify, server, call
<1>3. /\ E \in Seq(Response) /\ down'[c] = E
      /\ \A h \in Client \ {c} : down'[h] = down[h]
      /\ down' \in [Client -> Seq(Response)]
  <2>1. down \in [Client -> Seq(Response)]
    BY <1>1 DEF TypeOK
  <2>2. E \in Seq(Response)
    BY <1>1, <1>2, ContainsTail
  <2>3. QED
    BY <1>2, <2>1, <2>2
<1>4. /\ Head(D) = Notification
      /\ \A y : Contains(D, y) <=> y = Notification \/ Contains(E, y)
      /\ \A x \in Request : Asked(up[c], E, x) <=> Asked(up[c], D, x)
  <2>1. Head(D) = Notification
    BY <1>1, <1>2, AskedTold, ResponseCases
  <2>2. QED
    BY <1>1, <1>2, <2>1, AskedTold, ContainsTail
<1>5. /\ InTurn(done, E) /\ \A y : Contains(E, y) => Turn(done, Notification, y)
      /\ InOrder(counter[c], up[c], E)
  <2>1. InTurn(done, D) /\ InOrder(counter[c], up[c], D)
    BY <1>1 DEF NotifyInv, RequestInv
  <2>2. InTurn(done, E) /\ \A y : Contains(E, y) => Turn(done, Head(D), y)
    BY <1>1, <1>2, <2>1, TurnTail
  <2>3. InOrder(counter[c], up[c], E)
    BY <1>1, <1>2, <2>1, OrderTold
  <2>4. QED
    BY <1>4, <2>2, <2>3
<1>6. Comes(c)
  BY <1>4 DEF Comes
<1> HIDE DEF E
<1>7. \A x \in Request : Out(c, x)' <=> Out(c, x)
  BY <1>2, <1>3, <1>4 DEF Out
<1>8. /\ WaitqInv' /\ (import[c] = "no" => (Asleep(t)' <=> Asleep(t)))
      /\ (import[c] # "no" => ~Asleep(t)')
      /\ \A u \in Task \ {t} : Asleep(u)' <=> Asleep(u)
  <2>1. CASE import[c] = "no"
    BY <1>1, <1>2, <2>1, SameQueues
  <2>2. CASE import[c] # "no"
    <3>1. WaitqInv' /\ \A u \in Task : Asleep(u)' <=> Asleep(u) /\ Home[u] # c
      BY <1>1, <1>2, <2>2, EmptiedQueues
    <3>2. QED
      BY <2>2, <3>1 DEF SafeUse
  <2>3. QED
    BY <2>1, <2>2
<1>9. /\ p2' \in [Task -> 0 .. Wrap] /\ \A u \in Task \ {t} : p2'[u] = p2[u]
      /\ p2'[t] = IF import[c] # "no" /\ Asleep(t) THEN 0 ELSE p2[t]
  <2>1. p2 \in [Task -> 0 .. Wrap] /\ 0 \in 0 .. Wrap
    BY <1>1, ImportExportAssumption DEF TypeOK
  <2>2. ASSUME NEW u \in Task \ {t} PROVE ~Contains(waitq[c], u)
    <3>1. Home[u] # c /\ c \in Thread
      BY Homes DEF SafeUse
    <3>2. QED
      BY <1>1, <3>1 DEF WaitqInv, Links
  <2>3. CASE import[c] = "no"
    BY <1>2, <2>1, <2>3
  <2>4. CASE import[c] # "no"
    BY <1>2, <2>1, <2>2, <2>4 DEF Asleep
  <2>5. QED
    BY <2>3, <2>4
<1>10. TypeOK'
  <2>1. waitq' \in [Thread -> Seq(Task)]
    BY <1>8 DEF WaitqInv, Table
  <2>2. QED
    BY <1>1, <1>2, <1>3, <1>9, <2>1 DEF TypeOK
<1>11. Elsewhere(t)
  <2>1. value' <= value
    BY <1>1, <1>2 DEF TypeOK
  <2>2. QED
    BY <1>2, <1>3, <1>8, <1>9, <2>1 DEF Elsewhere
<1>12. ASSUME import[c] = "done"
       PROVE  /\ pc[t] = "test" /\ Asleep(t) /\ p2[t] = Parked /\ ~Contains(E, Notification)
              /\ c \notin notifyMask /\ exported /\ (timedOut[t] <=> limit[t] = "zero")
              /\ \A x \in Request : ~Out(c, x)
  <2>1. \A y : ~Contains(E, y)
    BY <1>5, <1>12 DEF Turn
  <2>2. Waits(t) /\ exported /\ c \notin notifyMask
    BY <1>1, <1>6, <1>12 DEF NotifyInv
  <2>3. ~RefusalComes(t)
    BY <1>4, <2>1, Responses DEF RefusalComes
  <2>4. QED
    BY <1>1, <2>1, <2>2, <2>3 DEF Waits, CallInv
<1>13. ASSUME import[c] # "done"
       PROVE  /\ counter[c] # 0 /\ exported /\ ~Contains(E, Notification)
              /\ pc[t] # "test" /\ c \notin notifyMask /\ held[t] = 0
              /\ import[c] = "no" => pc[t] = "user" /\ ~Asleep(t)
              /\ \A x \in Request : Out(c, x) => x.cmd = "import" /\ ProbeFits(t, x)
  <2>1. counter[c] # 0 /\ exported
    BY <1>1, <1>6, <1>13 DEF NotifyInv
  <2>2. ~Contains(E, Notification)
    <3>1. ~Turn(FALSE, Notification, Notification)
      BY Responses DEF Turn
    <3>2. QED
      BY <1>5, <1>13, <3>1
  <2>3. pc[t] # "test" /\ held[t] = 0
    BY <1>1, <1>13 DEF CallInv
  <2>4. c \notin notifyMask
    BY <1>1, <2>3 DEF NotifyInv, Waits
  <2>5. import[c] = "no" => pc[t] = "user" /\ ~Asleep(t)
    BY <1>1, <2>3 DEF CallInv, TypeOK
  <2>6. \A x \in Request : Out(c, x) => x.cmd = "import" /\ ProbeFits(t, x)
    BY <1>1, <1>13 DEF RequestInv, Fits
  <2>7. QED
    BY <2>1, <2>2, <2>3, <2>4, <2>5, <2>6
<1>14. RequestInv(t)'
  <2>1. ASSUME NEW x \in Request, Out(c, x)' PROVE Fits(t, x)'
    <3>1. import[c] # "done" /\ x.cmd = "import" /\ ProbeFits(t, x) /\ Out(c, x)
      BY <1>7, <1>12, <1>13, <2>1
    <3>2. import[c] # "no"
      BY <1>1, <3>1 DEF RequestInv, Fits
    <3>3. QED
      BY <1>2, <1>13, <3>1, <3>2 DEF Fits, ProbeFits
  <2>2. InOrder(counter'[c], up'[c], down'[c])
    BY <1>2, <1>3, <1>5
  <2>3. QED
    BY <2>1, <2>2 DEF RequestInv
<1>15. CallInv(t)'
  <2>1. CASE import[c] = "done"
    BY <1>1, <1>2, <1>7, <1>8, <1>9, <1>12, <2>1 DEF CallInv
  <2>2. CASE import[c] # "done"
    BY <1>1, <1>2, <1>7, <1>8, <1>9, <1>13, <2>2 DEF CallInv
  <2>3. QED
    BY <2>1, <2>2
<1>16. ~Asleep(t)'
  BY <1>8, <1>13
<1>17. ProbeInv(t)'
  BY <1>1, <1>2, <1>3, <1>4, <1>16 DEF ProbeInv
<1>18. NotifyInv(t)'
  <2>1. ~Comes(c)' /\ ~Waits(t)'
    BY <1>3, <1>12, <1>13, <1>16 DEF Comes, Waits
  <2>2. exported /\ c \notin notifyMask
    BY <1>12, <1>13
  <2>3. QED
    BY <1>1, <1>2, <1>3, <1>5, <1>12, <1>13, <1>16, <2>1, <2>2 DEF NotifyInv
<1>19. value' + Mine(t, held', Way', up') = value + Mine(t, held, Way, up)
  <2>1. ~OnTheWay(t) /\ ~OnTheWay(t)'
    <3>1. CASE pc[t] # "test"
      BY <1>2, <3>1 DEF OnTheWay
    <3>2. CASE pc[t] = "test"
      <4>1. import[c] = "done"
        BY <1>13, <3>2
      <4>2. ~Granting(D, p2[t])
        BY <1>12, <4>1 DEF Granting, Out, Asked
      <4>3. ~Ending(t, TRUE)
        BY <1>1, <4>2, EndingIs
      <4>4. p2'[t] = 0 /\ Asleep(t)
        BY <1>9, <1>12, <4>1
      <4>5. QED
        <5>1. ~OnTheWay(t)
          BY <4>3, <4>4 DEF OnTheWay
        <5>2. ~OnTheWay(t)'
          BY <1>16, <4>4 DEF OnTheWay
        <5>3. QED
          BY <5>1, <5>2
    <3>3. QED
      BY <3>1, <3>2
  <2>2. Way'[t] = Way[t]
    BY <2>1 DEF Way, Only
  <2>3. QED
    BY <1>2, <2>2 DEF Mine
<1>20. QED
  BY <1>8, <1>10, <1>11, <1>14, <1>15, <1>17, <1>18, <1>19, ElsewhereKept DEF TaskInv, ClientInv

LEMMA ClientReceivesKeeps ==
  ASSUME IInv, SafeUse, NEW c \in Client, ClientReceives(c)
  PROVE  IInv'
<1>1. CASE \A t \in Task : Home[t] # c
  BY <1>1, NobodyTold
<1>2. ASSUME NEW t \in Task, Home[t] = c PROVE IInv'
  <2>1. CASE Notify(c)
    BY <1>2, <2>1, NotifyKeeps
  <2>2. CASE Ack(c)
    <3> DEFINE r == Head(down[c])
               i == SelectInSeq(waitq[c], LAMBDA u : p2[u] = r.to.seq)
    <3>1. /\ down[c] # <<>> /\ r.type = "ack" /\ down' = [down EXCEPT ![c] = Tail(@)]
          /\ UNCHANGED <<value, notifyMask, exported, counter, import, pc, want, limit,
                         timedOut, held, up>>
          /\ IF i = 0 THEN UNCHANGED <<waitq, p2>>
             ELSE IF r.ok \/ ~r.to.wait
               THEN /\ waitq' = Unlinked(waitq, waitq[c][i])
                    /\ p2' = [p2 EXCEPT ![waitq[c][i]] = IF r.ok THEN 1 ELSE 0]
             ELSE p2' = [p2 EXCEPT ![waitq[c][i]] = Parked] /\ UNCHANGED waitq
      BY <2>2 DEF ClientReceives, Ack, server, call
    <3>2. IF Asleep(t) /\ p2[t] = r.to.seq THEN i # 0 /\ waitq[c][i] = t ELSE i = 0
      <4>1. i = Found(c, r.to.seq)
        BY DEF Found
      <4> HIDE DEF i, r
      <4>2. QED
        BY <1>2, <4>1, AckFinds DEF IInv
    <3>3. Arrives(c, r.to, r.ok, Tail(down[c]))
      BY <1>2, <3>1, AckArrives
    <3> HIDE DEF i
    <3>4. CASE Asleep(t) /\ p2[t] = r.to.seq
      <4>1. IF r.ok \/ ~r.to.wait
              THEN /\ waitq' = Unlinked(waitq, t)
                   /\ p2' = [p2 EXCEPT ![t] = IF r.ok THEN 1 ELSE 0]
              ELSE p2' = [p2 EXCEPT ![t] = Parked] /\ UNCHANGED waitq
        BY <3>1, <3>2, <3>4
      <4> HIDE DEF r
      <4>2. QED
        BY <1>2, <3>1, <3>3, <3>4, <4>1, AckHits
    <3>5. CASE ~(Asleep(t) /\ p2[t] = r.to.seq)
      <4>1. UNCHANGED <<waitq, p2>>
        BY <3>1, <3>2, <3>5
      <4> HIDE DEF r
      <4>2. QED
        BY <1>2, <3>1, <3>3, <3>5, <4>1, AckMisses
    <3>6. QED
      BY <3>4, <3>5
  <2>3. QED
    BY <2>1, <2>2 DEF ClientReceives
<1>3. QED
  BY <1>1, <1>2

-----------------------------------------------------------------------------
(* Requests that are handled by the server.                                   *)

\* Request m is the first of a client's.
IsNext(c, m) == up[c] # <<>> /\ m = Head(up[c])

\* A client has had no NOTIFY of late when the server handles its request, and the
\* answers that are coming are to other requests.
LEMMA NextFacts ==
  ASSUME IInv, NEW t \in Task, Home[t] \in Client, NEW m, IsNext(Home[t], m)
  PROVE  /\ m \in Request /\ Out(Home[t], m) /\ Fits(t, m)
         /\ \A x \in Request, o \in BOOLEAN :
              Contains(down[Home[t]], AckOf(x, o)) => Before(counter[Home[t]], x, m)
         /\ m.cmd # "set" => ~RefusalComes(t)
         /\ m.cmd # "import" => ~Waits(t)
         /\ import[Home[t]] = "done" => ~Comes(Home[t])
         /\ m.cmd # "import" => Home[t] \notin notifyMask
<1> DEFINE c == Home[t]
           U == up[c]
           D == down[c]
<1>1. /\ TypeOK /\ RequestInv(t) /\ CallInv(t) /\ NotifyInv(t)
      /\ U \in Seq(Request) /\ D \in Seq(Response)
  BY TaskFacts
<1>2. U # <<>> /\ m = Head(U) /\ 1 \in 1 .. Len(U) /\ U[1] = m
  <2>1. U # <<>> /\ m = Head(U)
    BY DEF IsNext
  <2>2. QED
    BY <1>1, <2>1, HeadTailProperties, EmptySeq
<1>3. m \in Request /\ Asked(U, D, m)
  BY <1>1, <1>2, AskedAt
<1>4. Fits(t, m)
  BY <1>1, <1>3 DEF RequestInv, Out
<1>5. ASSUME NEW x \in Request, NEW o \in BOOLEAN, Contains(D, AckOf(x, o))
      PROVE  Before(counter[c], x, m)
  <2>1. PICK i \in 1 .. Len(D) : D[i] = AckOf(x, o)
    BY <1>5 DEF Contains
  <2>2. D[i].type = "ack" /\ D[i].to = x
    BY <2>1, Responses
  <2>3. InOrder(counter[c], U, D)
    BY <1>1 DEF RequestInv
  <2> HIDE DEF U, D
  <2>4. QED
    BY <1>2, <2>2, <2>3 DEF InOrder
<1>6. ~RefusalComes(t)
  BY <1>5 DEF RefusalComes, Before
<1>7. ~Waits(t)
  BY <1>1, <1>3, <1>6 DEF Waits, CallInv, Out
<1>8. import[c] = "done" => ~Comes(c)
  BY <1>1, <1>7 DEF NotifyInv
<1>9. c \notin notifyMask
  BY <1>1, <1>7 DEF NotifyInv
<1>10. QED
  BY <1>3, <1>4, <1>5, <1>6, <1>7, <1>8, <1>9 DEF Out

\* The server answers request m of task t.
Answers(t, m, ok) ==
  LET c == Home[t]
  IN  /\ IsNext(c, m) /\ ok \in BOOLEAN
      /\ up'[c] = Tail(up[c]) /\ down'[c] = Append(down[c], AckOf(m, ok))
      /\ UNCHANGED <<exported, counter, import, pc, want, limit, timedOut, p2, held>>
      /\ Asleep(t)' <=> Asleep(t)
      /\ m.cmd = "import" => (ok <=> exported)
      /\ c \in notifyMask' <=> IF m.cmd = "test" THEN ~ok /\ m.wait ELSE c \in notifyMask

LEMMA AnswerKeeps ==
  ASSUME IInv, NEW t \in Task, Home[t] \in Client, NEW m, NEW ok, Answers(t, m, ok)
  PROVE  /\ ClientInv(t)'
         /\ IF m.cmd = "test" THEN ~OnTheWay(t) /\ (OnTheWay(t)' <=> ok) /\ m.n = want[t]
            ELSE OnTheWay(t)' <=> OnTheWay(t)
         /\ Coming(up'[Home[t]]) = Coming(up[Home[t]]) - SetUnits(m)
         /\ Coming(up[Home[t]]) \in Nat
<1> DEFINE c == Home[t]
           U == up[c]
           D == down[c]
           A == AckOf(m, ok)
           E == Append(D, A)
<1>1. /\ TypeOK /\ RequestInv(t) /\ CallInv(t) /\ ProbeInv(t) /\ NotifyInv(t)
      /\ U \in Seq(Request) /\ D \in Seq(Response)
  BY TaskFacts
<1>2. /\ IsNext(c, m) /\ ok \in BOOLEAN /\ up'[c] = Tail(U) /\ down'[c] = E
      /\ UNCHANGED <<exported, counter, import, pc, want, limit, timedOut, p2, held>>
      /\ Asleep(t)' <=> Asleep(t)
      /\ m.cmd = "import" => (ok <=> exported)
      /\ c \in notifyMask' <=> IF m.cmd = "test" THEN ~ok /\ m.wait ELSE c \in notifyMask
  BY DEF Answers
<1>3. /\ m \in Request /\ Out(c, m) /\ Fits(t, m)
      /\ \A x \in Request, o \in BOOLEAN : Contains(D, AckOf(x, o)) => Before(counter[c], x, m)
      /\ import[c] = "done" => ~Comes(c)
      /\ m.cmd # "import" => ~Waits(t) /\ c \notin notifyMask
  BY <1>2, NextFacts
<1>4. U # <<>> /\ m = Head(U)
  BY <1>2 DEF IsNext
<1>5. A \in Response /\ A # Notification /\ A.type = "ack" /\ A.ok = ok
  BY <1>2, <1>3, Responses
<1>6. E \in Seq(Response) /\ \A y : Contains(E, y) <=> Contains(D, y) \/ y = A
  BY <1>1, <1>5, ContainsAppend, AppendProperties
<1>7. \A x \in Request : Out(c, x)' <=> Out(c, x)
  <2>1. \A x \in Request : Asked(Tail(U), Append(D, AckOf(Head(U), ok)), x) <=> Asked(U, D, x)
    BY <1>1, <1>2, <1>4, AskedAnswered
  <2>2. QED
    BY <1>2, <1>4, <2>1 DEF Out
<1>8. InOrder(counter[c], up'[c], down'[c])
  <2>1. InOrder(counter[c], U, D)
    BY <1>1 DEF RequestInv
  <2>2. InOrder(counter[c], Tail(U), Append(D, AckOf(Head(U), ok)))
    BY <1>1, <1>2, <1>4, <2>1, OrderAnswered
  <2>3. QED
    BY <1>2, <1>4, <2>2
<1>9. InTurn(import[c] = "done", E)
  <2>1. InTurn(import[c] = "done", D)
    BY <1>1 DEF NotifyInv
  <2>2. \A x \in Response : Contains(D, x) => Turn(import[c] = "done", x, A)
    BY <1>3, <1>5 DEF Turn, Comes
  <2>3. QED
    BY <1>1, <1>5, <2>1, <2>2, TurnAppend
<1>10. Comes(c)' <=> Comes(c)
  BY <1>2, <1>5, <1>6 DEF Comes
<1> HIDE DEF E, A
<1>11. \A x \in Request, o \in BOOLEAN :
         Contains(E, AckOf(x, o)) <=> Contains(D, AckOf(x, o)) \/ (x = m /\ (o <=> ok))
  <2>1. \A x \in Request, o \in BOOLEAN : AckOf(x, o) = A <=> x = m /\ (o <=> ok)
    BY <1>2, <1>3, AckOfIs DEF A
  <2>2. QED
    BY <1>6, <2>1
<1>12. RequestInv(t)'
  <2>1. ASSUME NEW x \in Request, Out(c, x)' PROVE Fits(t, x)'
    <3>1. Fits(t, x)
      BY <1>1, <1>7, <2>1 DEF RequestInv
    <3>2. QED
      BY <1>2, <3>1 DEF Fits, SetFits, TestFits, ProbeFits
  <2>2. QED
    BY <1>2, <1>8, <2>1 DEF RequestInv
<1>13. CallInv(t)'
  <2>1. \A x \in Request : LinkedFor(t, x)' <=> LinkedFor(t, x)
    BY <1>2 DEF LinkedFor
  <2>2. QED
    BY <1>1, <1>2, <1>7, <2>1 DEF CallInv
<1>14. ProbeInv(t)'
  BY <1>1, <1>2, <1>10, <1>11 DEF ProbeInv
<1>15. RefusalComes(t)' <=> RefusalComes(t) \/ (m.cmd = "test" /\ ~ok)
  BY <1>2, <1>3, <1>11 DEF RefusalComes
<1>16. ASSUME m.cmd = "test"
       PROVE  /\ pc[t] = "test" /\ Asleep(t) /\ m.n = want[t] /\ (m.wait <=> limit[t] # "zero")
              /\ import[c] = "done" /\ ~Granting(D, p2[t]) /\ (Granting(E, p2[t]) <=> ok)
  <2>1. TestFits(t, m) /\ import[c] = "done"
    BY <1>3, <1>16 DEF Fits
  <2>2. ~Granting(D, p2[t])
    BY <1>3, <1>16 DEF Granting, Before
  <2>3. Granting(E, p2[t]) <=> ok
    <3>1. p2[t] = m.seq
      BY <2>1 DEF TestFits
    <3>2. QED
      BY <1>2, <1>3, <1>11, <1>16, <2>2, <3>1 DEF Granting
  <2>4. QED
    BY <2>1, <2>2, <2>3 DEF TestFits
<1>17. ASSUME m.cmd # "test"
       PROVE  Granting(E, p2[t]) <=> Granting(D, p2[t])
  BY <1>11, <1>17 DEF Granting
<1>18. Waits(t)' <=> IF m.cmd = "test" THEN ~ok /\ m.wait ELSE Waits(t)
  <2>1. CASE m.cmd = "test"
    <3>1. ~Waits(t)
      BY <1>3, <2>1
    <3>2. QED
      BY <1>2, <1>15, <1>16, <2>1, <3>1 DEF Waits
  <2>2. CASE m.cmd # "test"
    BY <1>2, <1>15, <2>2 DEF Waits
  <2>3. QED
    BY <2>1, <2>2
<1>19. NotifyInv(t)'
  <2>1. CASE m.cmd = "test"
    <3>1. ~Comes(c) /\ import[c] = "done" /\ pc[t] = "test"
      BY <1>3, <1>16, <2>1
    <3>2. QED
      BY <1>1, <1>2, <1>9, <1>10, <1>18, <2>1, <3>1 DEF NotifyInv
  <2>2. CASE m.cmd # "test"
    BY <1>1, <1>2, <1>9, <1>10, <1>18, <2>2 DEF NotifyInv
  <2>3. QED
    BY <2>1, <2>2
<1>20. (Ending(t, TRUE) <=> Granting(D, p2[t])) /\ (Ending(t, TRUE)' <=> Granting(E, p2[t]))
  <2>1. down'[c] \in Seq(Response)
    BY <1>2, <1>6
  <2>2. Ending(t, TRUE)' <=> Granting(down'[c], p2'[t])
    BY <2>1, EndingNext
  <2>3. QED
    BY <1>1, <1>2, <2>2, EndingIs
<1>21. IF m.cmd = "test" THEN ~OnTheWay(t) /\ (OnTheWay(t)' <=> ok) /\ m.n = want[t]
       ELSE OnTheWay(t)' <=> OnTheWay(t)
  <2>1. CASE m.cmd = "test"
    BY <1>2, <1>16, <1>20, <2>1 DEF OnTheWay
  <2>2. CASE m.cmd # "test"
    BY <1>2, <1>17, <1>20, <2>2 DEF OnTheWay
  <2>3. QED
    BY <2>1, <2>2
<1>22. Coming(up'[c]) = Coming(U) - SetUnits(m) /\ Coming(U) \in Nat
  <2>1. UnitRequests(U)
    BY <1>1, ComingIsNumber
  <2>2. QED
    BY <1>1, <1>2, <1>4, <2>1, ComingTail
<1>23. ClientInv(t)'
  BY <1>12, <1>13, <1>14, <1>19 DEF ClientInv
<1>24. QED
  BY <1>21, <1>22, <1>23

\* What stays when the server handles a request to test or a probe.
LEMMA HandledKeeps ==
  ASSUME IInv, SafeUse, NEW t \in Task, Home[t] \in Client, NEW m, NEW ok,
         Answers(t, m, ok), m.cmd # "set",
         value' \in Nat, value' = IF m.cmd = "test" /\ ok THEN value - m.n ELSE value,
         notifyMask' \subseteq Client,
         \A h \in Client \ {Home[t]} : h \in notifyMask' <=> h \in notifyMask,
         up' = [up EXCEPT ![Home[t]] = Tail(@)],
         down' = [down EXCEPT ![Home[t]] = Append(@, AckOf(m, ok))],
         UNCHANGED waitq
  PROVE  IInv'
<1> DEFINE c == Home[t]
<1>1. TypeOK /\ WaitqInv /\ want[t] \in Amount /\ held[t] \in Nat /\ value \in Nat
  BY TaskFacts
<1>2. /\ IsNext(c, m) /\ ok \in BOOLEAN
      /\ UNCHANGED <<exported, counter, import, pc, want, limit, timedOut, p2, held>>
  BY DEF Answers
<1>3. /\ up[c] # <<>> /\ up[c] \in Seq(Request) /\ down[c] \in Seq(Response)
      /\ m \in Request
  BY <1>2, NextFacts, TaskFacts DEF IsNext
<1>4. TypeOK'
  <2>1. Tail(up[c]) \in Seq(Request)
    BY <1>3, ContainsTail
  <2>2. Append(down[c], AckOf(m, ok)) \in Seq(Response)
    <3>1. AckOf(m, ok) \in Response
      BY <1>2, <1>3, Responses
    <3> HIDE DEF c
    <3>2. QED
      BY <1>3, <3>1, AppendProperties
  <2>3. up' \in [Client -> Seq(Request)] /\ down' \in [Client -> Seq(Response)]
    BY <1>1, <2>1, <2>2 DEF TypeOK
  <2>4. QED
    BY <1>1, <1>2, <2>3 DEF TypeOK
<1>5. WaitqInv' /\ \A u \in Task : Asleep(u)' <=> Asleep(u)
  BY <1>1, SameQueues
<1>6. m.n \in Nat
  BY <1>3, RequestFields
<1>7. Elsewhere(t)
  <2>1. value' <= value
    BY <1>1, <1>6
  <2>2. \A h \in Client \ {c} : up'[h] = up[h] /\ down'[h] = down[h]
    BY <1>1 DEF TypeOK
  <2>3. QED
    BY <1>2, <1>5, <2>1, <2>2 DEF Elsewhere
<1>8. /\ ClientInv(t)'
      /\ IF m.cmd = "test" THEN ~OnTheWay(t) /\ (OnTheWay(t)' <=> ok) /\ m.n = want[t]
         ELSE OnTheWay(t)' <=> OnTheWay(t)
      /\ Coming(up'[c]) = Coming(up[c]) - SetUnits(m) /\ Coming(up[c]) \in Nat
  BY AnswerKeeps
<1>9. value' + Mine(t, held', Way', up') = value + Mine(t, held, Way, up)
  <2>1. Coming(up'[c]) = Coming(up[c])
    BY <1>8 DEF SetUnits
  <2>2. Way[t] = (IF OnTheWay(t) THEN want[t] ELSE 0)
        /\ Way'[t] = (IF OnTheWay(t)' THEN want[t] ELSE 0)
    BY <1>2 DEF Way, Only
  <2> DEFINE w == Way[t]
             x == Way'[t]
             y == Coming(up[c])
  <2>3. value' + x = value + w /\ x \in Nat /\ w \in Nat
    <3>1. want[t] \in Nat
      BY <1>1, AmountIsNumber
    <3>2. CASE m.cmd = "test"
      BY <1>1, <1>8, <2>2, <3>1, <3>2
    <3>3. CASE m.cmd # "test"
      BY <1>1, <1>8, <2>2, <3>1, <3>3
    <3>4. QED
      BY <3>2, <3>3
  <2>4. Mine(t, held', Way', up') = held[t] + x + y /\ Mine(t, held, Way, up) = held[t] + w + y
    BY <1>2, <2>1 DEF Mine
  <2>5. y \in Nat
    BY <1>8
  <2>6. value' \in Nat /\ value \in Nat /\ held[t] \in Nat
    BY <1>1
  <2> DEFINE h == held[t]
             v == value
             v2 == value'
  <2>7. v2 \in Nat /\ v \in Nat /\ h \in Nat /\ v2 + x = v + w
    BY <2>3, <2>6
  <2> HIDE DEF h, v, v2, w, x, y
  <2>8. v2 + (h + x + y) = v + (h + w + y)
    BY ONLY <2>3, <2>5, <2>7
  <2>9. QED
    BY <2>4, <2>8 DEF h, v, v2
<1>10. QED
  BY <1>4, <1>5, <1>7, <1>8, <1>9, ElsewhereKept DEF TaskInv

\* The server decides a test, or answers a probe.
LEMMA TestOrProbeKeeps ==
  ASSUME IInv, SafeUse, NEW t \in Task, Home[t] \in Client, ServerReceives(Home[t]),
         Head(up[Home[t]]).cmd # "set"
  PROVE  IInv'
<1> DEFINE c == Home[t]
           m == Head(up[c])
           D == down[c]
<1>1. /\ TypeOK /\ WaitqInv /\ value \in Nat /\ up[c] \in Seq(Request) /\ D \in Seq(Response)
  BY TaskFacts
<1>2. /\ up[c] # <<>> /\ up' = [up EXCEPT ![c] = Tail(@)]
      /\ \/ m.cmd = "test" /\ SemTest(c, m)
         \/ m.cmd = "import" /\ ImportProbe(c, m)
      /\ UNCHANGED <<counter, import, pc, want, limit, timedOut, p2, held>>
  BY DEF ServerReceives, call
<1>3. m \in Request /\ m.n \in Nat /\ m.wait \in BOOLEAN
  BY <1>1, <1>2, ContainsTail, RequestFields
<1>4. IsNext(c, m)
  BY <1>2 DEF IsNext
<1>5. m.cmd = "test" => c \notin notifyMask
  BY <1>4, NextFacts
<1>6. notifyMask \subseteq Client /\ exported \in BOOLEAN
  BY <1>1 DEF TypeOK
<1>7. \E ok \in BOOLEAN :
        /\ value' \in Nat /\ value' = IF m.cmd = "test" /\ ok THEN value - m.n ELSE value
        /\ m.cmd = "import" => (ok <=> exported)
        /\ c \in notifyMask' <=> IF m.cmd = "test" THEN ~ok /\ m.wait ELSE c \in notifyMask
        /\ notifyMask' \subseteq Client
        /\ \A h \in Client \ {c} : h \in notifyMask' <=> h \in notifyMask
        /\ down' = [down EXCEPT ![c] = Append(@, AckOf(m, ok))]
        /\ UNCHANGED <<exported, waitq>>
  <2> DEFINE ok == IF m.cmd = "test" THEN value >= m.n ELSE exported
  <2>1. ok \in BOOLEAN
    <3>1. exported \in BOOLEAN /\ (value >= m.n) \in BOOLEAN
      BY <1>6
    <3>2. QED
      BY ONLY <3>1, Zenon
  <2>2. CASE m.cmd = "test"
    <3>1. SemTest(c, m)
      BY <1>2, <2>2
    <3>2. CASE value >= m.n
      <4>1. /\ value' = value - m.n /\ UNCHANGED <<notifyMask, exported, waitq>>
            /\ down' = [down EXCEPT ![c] = Append(@, AckOf(m, TRUE))]
        BY <3>1, <3>2 DEF SemTest, Answered, AckOf
      <4>2. value - m.n \in Nat
        BY <1>1, <1>3, <3>2
      <4> HIDE DEF m
      <4>3. QED
        BY <1>5, <1>6, <2>2, <4>1, <4>2
    <3>3. CASE ~(value >= m.n)
      <4>1. /\ UNCHANGED <<value, exported, waitq>>
            /\ notifyMask' = IF m.wait THEN notifyMask \cup {c} ELSE notifyMask
            /\ down' = [down EXCEPT ![c] = Append(@, AckOf(m, FALSE))]
        BY <3>1, <3>3 DEF SemTest, Answered, AckOf
      <4> HIDE DEF m
      <4>2. QED
        BY <1>1, <1>3, <1>5, <1>6, <2>2, <4>1
    <3>4. QED
      BY <3>2, <3>3
  <2>3. CASE m.cmd = "import"
    <3>1. /\ UNCHANGED <<value, notifyMask, exported, waitq>>
          /\ down' = [down EXCEPT ![c] = Append(@, AckOf(m, exported))]
      BY <1>2, <2>3 DEF ImportProbe, Answered, AckOf, server
    <3> HIDE DEF m
    <3>2. QED
      BY <1>1, <1>6, <2>3, <3>1
  <2>4. QED
    BY <1>2, <2>2, <2>3
<1>8. PICK ok \in BOOLEAN :
        /\ value' \in Nat /\ value' = IF m.cmd = "test" /\ ok THEN value - m.n ELSE value
        /\ m.cmd = "import" => (ok <=> exported)
        /\ c \in notifyMask' <=> IF m.cmd = "test" THEN ~ok /\ m.wait ELSE c \in notifyMask
        /\ notifyMask' \subseteq Client
        /\ \A h \in Client \ {c} : h \in notifyMask' <=> h \in notifyMask
        /\ down' = [down EXCEPT ![c] = Append(@, AckOf(m, ok))]
        /\ UNCHANGED <<exported, waitq>>
  BY <1>7
<1>9. up'[c] = Tail(up[c]) /\ down'[c] = Append(D, AckOf(m, ok))
  BY <1>1, <1>2, <1>8 DEF TypeOK
<1>10. Asleep(t)' <=> Asleep(t)
  BY <1>8 DEF Asleep
<1>11. m.cmd # "set"
  OBVIOUS
<1> HIDE DEF m
<1>12. Answers(t, m, ok)
  BY <1>2, <1>4, <1>8, <1>9, <1>10 DEF Answers
<1>13. QED
  BY <1>2, <1>8, <1>11, <1>12, HandledKeeps

-----------------------------------------------------------------------------
(* Notifications that the server sends.                                       *)

Told(t) ==
  LET c == Home[t]
  IN  /\ counter'[c] = counter[c] /\ import'[c] = import[c] /\ up'[c] = up[c]
      /\ down'[c] = Append(down[c], Notification)
      /\ pc'[t] = pc[t] /\ want'[t] = want[t] /\ limit'[t] = limit[t]
      /\ timedOut'[t] = timedOut[t] /\ p2'[t] = p2[t] /\ held'[t] = held[t]
      /\ Asleep(t)' <=> Asleep(t)
      /\ \/ c \in notifyMask /\ c \notin notifyMask' /\ UNCHANGED exported
         \/ ~exported /\ exported' /\ UNCHANGED notifyMask

\* A client is notified, which waits for it, or because the semaphore is exported.
LEMMA ToldKeeps ==
  ASSUME IInv, NEW t \in Task, Home[t] \in Client, Told(t)
  PROVE  ClientInv(t)' /\ (OnTheWay(t)' <=> OnTheWay(t))
<1> DEFINE c == Home[t]
           U == up[c]
           D == down[c]
           E == Append(D, Notification)
           done == import[c] = "done"
<1>1. /\ TypeOK /\ RequestInv(t) /\ CallInv(t) /\ ProbeInv(t) /\ NotifyInv(t)
      /\ U \in Seq(Request) /\ D \in Seq(Response)
  BY TaskFacts
<1>2. /\ counter'[c] = counter[c] /\ import'[c] = import[c] /\ up'[c] = U /\ down'[c] = E
      /\ pc'[t] = pc[t] /\ want'[t] = want[t] /\ limit'[t] = limit[t]
      /\ timedOut'[t] = timedOut[t] /\ p2'[t] = p2[t] /\ held'[t] = held[t]
      /\ Asleep(t)' <=> Asleep(t)
      /\ \/ c \in notifyMask /\ c \notin notifyMask' /\ UNCHANGED exported
         \/ ~exported /\ exported' /\ UNCHANGED notifyMask
  BY DEF Told
<1>3. E \in Seq(Response) /\ \A y : Contains(E, y) <=> Contains(D, y) \/ y = Notification
  BY <1>1, Responses, ContainsAppend, AppendProperties
<1>4. \A x \in Request : Out(c, x)' <=> Out(c, x)
  BY <1>1, <1>2, AskedNotified DEF Out
<1>5. InOrder(counter[c], U, E)
  BY <1>1, OrderNotified DEF RequestInv
<1>6. \A x \in Request, o \in BOOLEAN : Contains(E, AckOf(x, o)) <=> Contains(D, AckOf(x, o))
  BY <1>3, Responses
<1>7. Comes(c)'
  BY <1>2, <1>3 DEF Comes
<1> HIDE DEF E
<1>8. RequestInv(t)'
  <2>1. ASSUME NEW x \in Request, Out(c, x)' PROVE Fits(t, x)'
    <3>1. Fits(t, x)
      BY <1>1, <1>4, <2>1 DEF RequestInv
    <3>2. QED
      BY <1>2, <3>1 DEF Fits, SetFits, TestFits, ProbeFits
  <2>2. QED
    BY <1>2, <1>5, <2>1 DEF RequestInv
<1>9. CallInv(t)'
  <2>1. \A x \in Request : LinkedFor(t, x)' <=> LinkedFor(t, x)
    BY <1>2 DEF LinkedFor
  <2>2. QED
    BY <1>1, <1>2, <1>4, <2>1 DEF CallInv
<1>10. ProbeInv(t)'
  BY <1>1, <1>2, <1>6, <1>7 DEF ProbeInv
<1>11. Waits(t)' <=> Waits(t)
  <2>1. RefusalComes(t)' <=> RefusalComes(t)
    BY <1>2, <1>6 DEF RefusalComes
  <2>2. QED
    BY <1>2, <2>1 DEF Waits
<1>12. (Ending(t, TRUE)' <=> Ending(t, TRUE)) /\ (OnTheWay(t)' <=> OnTheWay(t))
  <2>1. Granting(E, p2[t]) <=> Granting(D, p2[t])
    BY <1>6 DEF Granting
  <2>2. down'[c] \in Seq(Response)
    BY <1>2, <1>3
  <2>3. Ending(t, TRUE)' <=> Granting(down'[c], p2'[t])
    BY <2>2, EndingNext
  <2>4. Ending(t, TRUE)' <=> Ending(t, TRUE)
    BY <1>1, <1>2, <2>1, <2>3, EndingIs
  <2>5. QED
    BY <1>2, <2>4 DEF OnTheWay
<1>13. CASE c \in notifyMask
  <2>1. Waits(t) /\ ~Comes(c)
    BY <1>1, <1>13 DEF NotifyInv
  <2>2. done /\ pc[t] = "test"
    BY <1>1, <2>1 DEF Waits, CallInv
  <2>3. c \notin notifyMask' /\ exported'
    BY <1>1, <1>2, <1>13, <2>2 DEF NotifyInv
  <2>4. InTurn(TRUE, E)
    <3>1. \A x \in Response : Contains(D, x) => Turn(TRUE, x, Notification)
      BY <2>1 DEF Turn, Comes
    <3>2. InTurn(TRUE, D)
      BY <1>1, <2>2 DEF NotifyInv
    <3>3. QED
      BY <1>1, <3>1, <3>2, Responses, TurnAppend DEF E
  <2>5. NotifyInv(t)'
    BY <1>2, <1>7, <1>11, <2>1, <2>2, <2>3, <2>4 DEF NotifyInv
  <2>6. QED
    BY <1>8, <1>9, <1>10, <1>12, <2>5 DEF ClientInv
<1>14. CASE c \notin notifyMask
  <2>1. ~exported /\ exported' /\ c \notin notifyMask'
    BY <1>2, <1>14
  <2>2. ~done /\ ~Comes(c) /\ counter[c] # 0
    BY <1>1, <2>1 DEF NotifyInv
  <2>3. pc[t] # "test" /\ ~Waits(t)
    BY <1>1, <2>2 DEF CallInv, Waits
  <2>4. pc[t] = "import" => Asleep(t)
    BY <1>1, <2>1 DEF NotifyInv
  <2>5. InTurn(FALSE, E)
    <3>1. ASSUME NEW x \in Response, Contains(D, x) PROVE x.type = "ack" /\ ~x.ok
      <4>1. x # Notification
        BY <2>2, <3>1 DEF Comes
      <4>2. x.type = "ack" /\ x.to \in Request /\ x.ok \in BOOLEAN /\ x = AckOf(x.to, x.ok)
        BY <4>1, ResponseCases
      <4>3. Out(c, x.to)
        BY <3>1, <4>2 DEF Out, Asked
      <4>4. x.to.cmd = "import"
        BY <1>1, <2>2, <4>2, <4>3 DEF RequestInv, Fits
      <4>5. x.ok => exported
        BY <1>1, <3>1, <4>2, <4>4 DEF ProbeInv
      <4>6. QED
        BY <2>1, <4>2, <4>5
    <3>2. InTurn(FALSE, D)
      BY <1>1, <2>2 DEF NotifyInv
    <3>3. \A x \in Response : Contains(D, x) => Turn(FALSE, x, Notification)
      BY <3>1 DEF Turn
    <3>4. QED
      BY <1>1, <3>2, <3>3, Responses, TurnAppend DEF E
  <2>6. NotifyInv(t)'
    BY <1>2, <1>7, <1>11, <2>1, <2>2, <2>3, <2>4, <2>5 DEF NotifyInv
  <2>7. QED
    BY <1>8, <1>9, <1>10, <1>12, <2>6 DEF ClientInv
<1>15. QED
  BY <1>13, <1>14

\* Every task's part of the invariant when units are set, but for the task that sets
\* them.
LEMMA SetSpares ==
  ASSUME IInv, NEW n \in Nat, SetSemaphore(n),
         UNCHANGED <<counter, import, pc, want, limit, timedOut, p2>>
  PROVE  /\ WaitqInv' /\ value' \in Nat /\ value' = value + n
         /\ \A t \in Task : Home[t] \in Client => (Asleep(t)' <=> Asleep(t))
         /\ \A t \in Task : Home[t] \notin Client => LocalInv(t)' /\ ~OnTheWay(t) /\ ~OnTheWay(t)'
         /\ \A t \in Task :
              /\ Home[t] \in Client /\ held'[t] = held[t] /\ up'[Home[t]] = up[Home[t]]
              /\ down'[Home[t]] = Notified(notifyMask)[Home[t]]
              => ClientInv(t)' /\ (OnTheWay(t)' <=> OnTheWay(t))
<1> DEFINE X == {t \in Task : want[t] > value + n}
<1>1. TypeOK /\ WaitqInv /\ \A t \in Task : TaskInv(t)
  BY DEF IInv
<1>2. /\ value' = value + n /\ notifyMask' = {} /\ UNCHANGED exported
      /\ waitq' = [waitq EXCEPT ![Server] = Sifted(waitq[Server], X)]
  BY DEF SetSemaphore
<1>3. value \in Nat /\ value' \in Nat
  BY <1>1, <1>2 DEF TypeOK
<1>4. /\ WaitqInv'
      /\ \A u \in Task : Asleep(u)' <=> Asleep(u) /\ (Home[u] # Server \/ u \in X)
  <2> HIDE DEF X
  <2>1. QED
    BY <1>1, <1>2, SiftedQueues
<1>5. \A t \in Task : Home[t] \in Client => (Asleep(t)' <=> Asleep(t))
  BY <1>4, Homes
<1>6. ASSUME NEW t \in Task, Home[t] \notin Client
      PROVE  LocalInv(t)' /\ ~OnTheWay(t) /\ ~OnTheWay(t)'
  <2>1. LocalInv(t)
    BY <1>1, <1>6 DEF TaskInv
  <2>2. Asleep(t)' => Asleep(t) /\ want[t] > value + n
    BY <1>4, <1>6, Homes
  <2>3. want[t] \in Int
    <3>1. want[t] \in Amount
      BY <1>1 DEF TypeOK
    <3>2. want[t] \in Nat
      BY <3>1, AmountIsNumber, Zenon
    <3>3. QED
      BY <3>2
  <2>4. LocalInv(t)'
    BY <1>2, <1>3, <2>1, <2>2, <2>3 DEF LocalInv
  <2>5. QED
    BY <1>6, <2>4 DEF OnTheWay
<1>7. ASSUME NEW t \in Task, Home[t] \in Client, held'[t] = held[t], up'[Home[t]] = up[Home[t]],
             down'[Home[t]] = Notified(notifyMask)[Home[t]]
      PROVE  ClientInv(t)' /\ (OnTheWay(t)' <=> OnTheWay(t))
  <2> DEFINE c == Home[t]
  <2>1. down'[c] = IF c \in notifyMask THEN Append(down[c], Notification) ELSE down[c]
    BY <1>7 DEF Notified, Notification
  <2>2. CASE c \in notifyMask
    <3>1. Told(t)
      BY <1>2, <1>5, <1>7, <2>1, <2>2 DEF Told
    <3>2. QED
      BY <1>7, <3>1, ToldKeeps
  <2>3. CASE c \notin notifyMask
    <3>1. Same(t)
      BY <1>5, <1>7, <2>1, <2>3 DEF Same
    <3>2. UNCHANGED exported /\ ((Home[t] \in notifyMask)' <=> Home[t] \in notifyMask)
      BY <1>2, <2>3
    <3>3. ClientInv(t)
      BY <1>1, <1>7 DEF TaskInv
    <3>4. QED
      BY <3>1, <3>2, <3>3, SameKeepsClient, SameIsOnTheWay
  <2>4. QED
    BY <2>2, <2>3
<1>8. QED
  BY <1>2, <1>3, <1>4, <1>5, <1>6, <1>7

\* A NOTIFY is not the answer to a request.
LEMMA NotifiedAsks ==
  ASSUME TypeOK, NEW c \in Client, up'[c] = up[c], NEW C, down'[c] = Notified(C)[c]
  PROVE  \A m \in Request : Out(c, m)' <=> Out(c, m)
<1>1. down[c] \in Seq(Response)
  BY DEF TypeOK
<1>2. down'[c] = IF c \in C THEN Append(down[c], Notification) ELSE down[c]
  BY DEF Notified, Notification
<1>3. QED
  BY <1>1, <1>2, AskedNotified DEF Out

\* The server handles a request to set.
LEMMA SetRequestKeeps ==
  ASSUME IInv, SafeUse, NEW t \in Task, Home[t] \in Client, ServerReceives(Home[t]),
         Head(up[Home[t]]).cmd = "set"
  PROVE  IInv'
<1> DEFINE c == Home[t]
           m == Head(up[c])
           n == m.n
           R == Notified(notifyMask)
<1>1. /\ TypeOK /\ WaitqInv /\ UnitsKept /\ Senders /\ \A u \in Task : TaskInv(u)
      /\ value \in Nat /\ held[t] \in Nat /\ want[t] \in Amount
      /\ up[c] \in Seq(Request) /\ down[c] \in Seq(Response)
  BY TaskFacts DEF IInv
<1>2. /\ up[c] # <<>> /\ up' = [up EXCEPT ![c] = Tail(@)]
      /\ SetSemaphore(n) /\ down' = Answered(R, c, m, TRUE)
      /\ UNCHANGED <<counter, import, pc, want, limit, timedOut, p2, held>>
  BY DEF ServerReceives, SemSet, call
<1>3. m \in Request /\ Tail(up[c]) \in Seq(Request) /\ n \in Nat
  BY <1>1, <1>2, ContainsTail, RequestFields
<1>4. IsNext(c, m)
  BY <1>2 DEF IsNext
<1>5. c \notin notifyMask
  BY <1>4, NextFacts
<1>6. R \in [Client -> Seq(Response)] /\ R[c] = down[c]
  BY <1>1, <1>5, NotifiedTypes DEF Notified
<1> HIDE DEF R, m, n
<1>7. /\ down' \in [Client -> Seq(Response)]
      /\ down'[c] = Append(down[c], AckOf(m, TRUE))
      /\ \A h \in Client \ {c} : down'[h] = R[h]
  <2>1. down' \in [Client -> Seq(Response)]
    BY <1>2, <1>3, <1>6, AnsweredTypes
  <2>2. down' = [R EXCEPT ![c] = Append(R[c], AckOf(m, TRUE))]
    BY <1>2 DEF Answered, AckOf
  <2>3. QED
    BY <1>6, <2>1, <2>2
<1>8. /\ up' \in [Client -> Seq(Request)] /\ up'[c] = Tail(up[c])
      /\ \A h \in Client \ {c} : up'[h] = up[h]
  <2>1. up \in [Client -> Seq(Request)]
    BY <1>1 DEF TypeOK
  <2>2. QED
    BY <1>2, <1>3, <2>1
<1>9. /\ WaitqInv' /\ value' \in Nat /\ value' = value + n
      /\ \A u \in Task : Home[u] \in Client => (Asleep(u)' <=> Asleep(u))
      /\ \A u \in Task : Home[u] \notin Client => LocalInv(u)' /\ ~OnTheWay(u) /\ ~OnTheWay(u)'
      /\ \A u \in Task :
           /\ Home[u] \in Client /\ held'[u] = held[u] /\ up'[Home[u]] = up[Home[u]]
           /\ down'[Home[u]] = Notified(notifyMask)[Home[u]]
           => ClientInv(u)' /\ (OnTheWay(u)' <=> OnTheWay(u))
  BY <1>2, <1>3, SetSpares
<1>10. UNCHANGED exported /\ notifyMask' = {}
  BY <1>2 DEF SetSemaphore
<1>11. TypeOK'
  <2>1. waitq' \in [Thread -> Seq(Task)]
    BY <1>9 DEF WaitqInv, Table
  <2>2. QED
    BY <1>1, <1>2, <1>7, <1>8, <1>9, <1>10, <2>1 DEF TypeOK
<1>12. m.cmd = "set"
  BY DEF m
<1>13. Answers(t, m, TRUE)
  BY <1>2, <1>4, <1>5, <1>7, <1>8, <1>9, <1>10, <1>12 DEF Answers
<1>14. /\ ClientInv(t)' /\ (OnTheWay(t)' <=> OnTheWay(t))
       /\ Coming(up'[c]) = Coming(up[c]) - n /\ Coming(up[c]) \in Nat
  <2>1. SetUnits(m) = n
    BY <1>12 DEF SetUnits, n
  <2>2. QED
    BY <1>12, <1>13, <2>1, AnswerKeeps
<1>15. ASSUME NEW u \in Task, u # t
       PROVE  TaskInv(u)' /\ (OnTheWay(u)' <=> OnTheWay(u))
  <2>1. CASE Home[u] \in Client
    <3>1. Home[u] # c
      BY <1>15, <2>1 DEF SafeUse
    <3>2. up'[Home[u]] = up[Home[u]] /\ down'[Home[u]] = Notified(notifyMask)[Home[u]]
      BY <1>7, <1>8, <2>1, <3>1 DEF R
    <3>3. QED
      BY <1>2, <1>9, <2>1, <3>2 DEF TaskInv
  <2>2. CASE Home[u] \notin Client
    BY <1>9, <2>2 DEF TaskInv
  <2>3. QED
    BY <2>1, <2>2
<1>16. Senders'
  <2>1. ASSUME NEW h \in Client, NEW x \in Request, Out(h, x)'
        PROVE  \E u \in Task : Home[u] = h
    <3>1. CASE h = c
      BY <3>1
    <3>2. CASE h # c
      <4>1. up'[h] = up[h] /\ down'[h] = Notified(notifyMask)[h]
        BY <1>7, <1>8, <3>2 DEF R
      <4>2. Out(h, x)
        BY <1>1, <2>1, <4>1, NotifiedAsks
      <4>3. QED
        BY <1>1, <4>2 DEF Senders
    <3>3. QED
      BY <3>1, <3>2
  <2>2. QED
    BY <2>1 DEF Senders
<1>17. UnitsKept'
  <2>1. value' + Mine(t, held', Way', up') = value + Mine(t, held, Way, up)
    <3> DEFINE w == Way[t]
               y == Coming(up[c])
               h == held[t]
               v == value
    <3>1. Way'[t] = w /\ w \in Nat
      <4>1. want[t] \in Nat
        BY <1>1, AmountIsNumber
      <4>2. QED
        BY <1>2, <1>14, <4>1 DEF Way, Only
    <3>2. Mine(t, held', Way', up') = h + w + (y - n) /\ Mine(t, held, Way, up) = h + w + y
      BY <1>2, <1>14, <3>1 DEF Mine
    <3>3. y \in Nat /\ h \in Nat /\ v \in Nat /\ n \in Nat /\ value' = v + n
      BY <1>1, <1>3, <1>9, <1>14
    <3> HIDE DEF w, y, h, v
    <3>4. (v + n) + (h + w + (y - n)) = v + (h + w + y)
      BY ONLY <3>1, <3>3
    <3>5. QED
      BY <3>2, <3>3, <3>4 DEF v
  <2>2. \A h \in Client : h # c => Coming(up'[h]) = Coming(up[h])
    BY <1>8
  <2>3. \A u \in Task : u # t => /\ held'[u] = held[u] /\ want'[u] = want[u]
                                 /\ OnTheWay(u)' <=> OnTheWay(u)
    BY <1>2, <1>15
  <2>4. QED
    BY <1>1, <1>11, <2>1, <2>2, <2>3, UnitsMoved
<1>18. \A u \in Task : TaskInv(u)'
  BY <1>14, <1>15 DEF TaskInv
<1>19. QED
  BY <1>9, <1>11, <1>16, <1>17, <1>18 DEF IInv

LEMMA ServerReceivesKeeps ==
  ASSUME IInv, SafeUse, NEW c \in Client, ServerReceives(c)
  PROVE  IInv'
<1>1. PICK t \in Task : Home[t] = c
  <2>1. up[c] # <<>> /\ up[c] \in Seq(Request) /\ down[c] \in Seq(Response) /\ Senders
    BY DEF ServerReceives, IInv, TypeOK
  <2>2. 1 \in 1 .. Len(up[c])
    BY <2>1, EmptySeq
  <2>3. Out(c, up[c][1]) /\ up[c][1] \in Request
    BY <2>1, <2>2, AskedAt DEF Out
  <2>4. QED
    BY <2>1, <2>3 DEF Senders
<1>2. CASE Head(up[c]).cmd = "set"
  BY <1>1, <1>2, SetRequestKeeps
<1>3. CASE Head(up[c]).cmd # "set"
  BY <1>1, <1>3, TestOrProbeKeeps
<1>4. QED
  BY <1>2, <1>3

\* KRN_export: every client is notified.
LEMMA ExportKeeps ==
  ASSUME IInv, Export
  PROVE  IInv'
<1>1. /\ TypeOK /\ WaitqInv /\ UnitsKept /\ Senders /\ \A u \in Task : TaskInv(u)
  BY DEF IInv
<1>2. /\ ~exported /\ exported' = TRUE /\ down' = Notified(Client)
      /\ UNCHANGED <<value, notifyMask, counter, import, waitq, pc, want, limit, timedOut,
                     p2, held, up>>
  BY DEF Export, call
<1>3. down' \in [Client -> Seq(Response)] /\ \A c \in Client : down'[c] = Notified(Client)[c]
  BY <1>1, <1>2, NotifiedTypes
<1>4. TypeOK'
  BY <1>1, <1>2, <1>3 DEF TypeOK
<1>5. WaitqInv' /\ \A u \in Task : Asleep(u)' <=> Asleep(u)
  BY <1>1, <1>2, SameQueues
<1>6. ASSUME NEW u \in Task PROVE TaskInv(u)' /\ (OnTheWay(u)' <=> OnTheWay(u))
  <2>1. CASE Home[u] \in Client
    <3>1. down'[Home[u]] = Append(down[Home[u]], Notification)
      BY <1>3, <2>1 DEF Notified, Notification
    <3>2. Told(u)
      BY <1>2, <1>5, <3>1 DEF Told
    <3>3. QED
      BY <2>1, <3>2, ToldKeeps DEF TaskInv
  <2>2. CASE Home[u] \notin Client
    BY <1>1, <1>2, <1>5, <2>2 DEF TaskInv, LocalInv, OnTheWay
  <2>3. QED
    BY <2>1, <2>2
<1>7. Senders'
  <2>1. ASSUME NEW c \in Client, NEW m \in Request, Out(c, m)'
        PROVE  \E u \in Task : Home[u] = c
    <3>1. Out(c, m)
      BY <1>1, <1>2, <1>3, <2>1, NotifiedAsks
    <3>2. QED
      BY <1>1, <3>1 DEF Senders
  <2>2. QED
    BY <2>1 DEF Senders
<1>8. UnitsKept'
  BY <1>1, <1>2, <1>4, <1>6, UnitsStay
<1>9. QED
  BY <1>4, <1>5, <1>6, <1>7, <1>8 DEF IInv

-----------------------------------------------------------------------------
(* The server's own tasks.                                                    *)

LEMMA LocalFacts ==
  ASSUME IInv, NEW t \in Task, Home[t] \notin Client
  PROVE  /\ TypeOK /\ WaitqInv /\ LocalInv(t) /\ Home[t] = Server
         /\ value \in Nat /\ held[t] \in Nat /\ want[t] \in Nat
<1>1. TypeOK /\ WaitqInv /\ LocalInv(t) /\ want[t] \in Amount
  BY DEF IInv, TaskInv, TypeOK
<1>2. want[t] \in Nat
  BY <1>1, AmountIsNumber, Zenon
<1>3. QED
  BY <1>1, <1>2, Homes DEF TypeOK

LEMMA LocalKept ==
  ASSUME IInv, SafeUse, NEW t \in Task, Home[t] \notin Client, Elsewhere(t), WaitqInv', TypeOK',
         LocalInv(t)', value' + held'[t] = value + held[t]
  PROVE  IInv'
<1>1. Way[t] = 0 /\ Way'[t] = 0
  BY DEF Way, Only, OnTheWay
<1>2. Mine(t, held', Way', up') = held'[t] + 0 + 0 /\ Mine(t, held, Way, up) = held[t] + 0 + 0
  BY <1>1 DEF Mine
<1>3. held[t] \in Int /\ held'[t] \in Int /\ value \in Int /\ value' \in Int
  BY DEF IInv, TypeOK
<1>4. value' + Mine(t, held', Way', up') = value + Mine(t, held, Way, up)
  BY <1>2, <1>3
<1>5. TaskInv(t)'
  BY DEF TaskInv
<1>6. QED
  BY <1>4, <1>5, ElsewhereKept

LEMMA LocalTestKeeps ==
  ASSUME IInv, SafeUse, NEW t \in Task, NEW n \in Amount, NEW timeout \in Timeouts[t],
         LocalTest(t, n, timeout)
  PROVE  IInv'
<1>1. /\ pc[t] = "user" /\ pc' = [pc EXCEPT ![t] = "test"] /\ want' = [want EXCEPT ![t] = n]
      /\ limit' = [limit EXCEPT ![t] = timeout]
      /\ timedOut' = [timedOut EXCEPT ![t] = timeout = "zero"]
      /\ Home[t] \notin Client
      /\ UNCHANGED <<value, notifyMask, exported, counter, import, waitq, p2, held, up, down>>
  BY Homes DEF LocalTest, Test, server
<1>2. TypeOK /\ WaitqInv /\ LocalInv(t) /\ value \in Nat
  BY <1>1, LocalFacts
<1>3. WaitqInv' /\ \A u \in Task : Asleep(u)' <=> Asleep(u)
  BY <1>1, <1>2, SameQueues
<1>4. TypeOK'
  <2>1. timeout \in {"zero", "ticks", "forever"}
    BY ImportExportAssumption
  <2>2. (timeout = "zero") \in BOOLEAN
    OBVIOUS
  <2>3. /\ pc' \in [Task -> {"user", "import", "test"}] /\ want' \in [Task -> Amount]
        /\ limit' \in [Task -> {"zero", "ticks", "forever"}]
    BY <1>1, <1>2, <2>1 DEF TypeOK
  <2>4. timedOut' \in [Task -> BOOLEAN]
    <3> DEFINE b == timeout = "zero"
    <3>1. b \in BOOLEAN /\ timedOut' = [timedOut EXCEPT ![t] = b]
      BY <1>1, <2>2
    <3> HIDE DEF b
    <3>2. QED
      BY <1>2, <3>1 DEF TypeOK
  <2>5. QED
    BY <1>1, <1>2, <2>3, <2>4 DEF TypeOK
<1>5. LocalInv(t)'
  BY <1>1, <1>2, <1>3, <1>4 DEF LocalInv, TypeOK
<1>6. Elsewhere(t)
  BY <1>1, <1>2, <1>3 DEF Elsewhere, TypeOK
<1>7. QED
  BY <1>1, <1>3, <1>4, <1>5, <1>6, LocalKept

LEMMA LocalSectionKeeps ==
  ASSUME IInv, SafeUse, NEW t \in Task, LocalSection(t)
  PROVE  IInv'
<1>1. pc[t] = "test" /\ Home[t] \notin Client /\ ~Asleep(t)
  BY Homes DEF LocalSection
<1>2. /\ TypeOK /\ WaitqInv /\ LocalInv(t) /\ Home[t] = Server
      /\ value \in Nat /\ held[t] \in Nat /\ want[t] \in Nat
  BY <1>1, LocalFacts
<1>3. ASSUME NEW units \in Nat, value' = value - units, units <= value,
             Return(t, units), UNCHANGED waitq
      PROVE  IInv'
  <2>1. /\ pc' = [pc EXCEPT ![t] = "user"] /\ held' = [held EXCEPT ![t] = @ + units]
        /\ UNCHANGED <<counter, import, want, limit, timedOut, p2, up, down, notifyMask, exported>>
    BY <1>3 DEF Return, call
  <2>2. WaitqInv' /\ \A u \in Task : Asleep(u)' <=> Asleep(u)
    BY <1>2, <1>3, SameQueues
  <2>3. value' \in Nat /\ held[t] + units \in Nat /\ value' <= value
    BY <1>2, <1>3
  <2>4. TypeOK'
    BY <1>2, <1>3, <2>1, <2>3 DEF TypeOK
  <2>5. LocalInv(t)'
    BY <1>1, <1>2, <2>1, <2>2 DEF LocalInv, TypeOK
  <2>6. Elsewhere(t)
    BY <1>2, <2>1, <2>2, <2>3 DEF Elsewhere, TypeOK
  <2>7. value' + held'[t] = value + held[t]
    <3>1. held'[t] = held[t] + units
      BY <1>2, <2>1 DEF TypeOK
    <3>2. QED
      BY <1>2, <1>3, <3>1
  <2>8. QED
    BY <1>1, <2>2, <2>4, <2>5, <2>6, <2>7, LocalKept
<1>4. CASE value >= want[t] /\ value' = value - want[t] /\ Return(t, want[t]) /\ UNCHANGED waitq
  BY <1>2, <1>3, <1>4
<1>5. CASE Return(t, 0) /\ UNCHANGED <<value, waitq>>
  BY <1>2, <1>3, <1>5
<1>6. CASE /\ value < want[t] /\ waitq' = AddTail(waitq, Server, t)
           /\ UNCHANGED <<server, counter, import, pc, call, p2, held, up, down>>
  <2>1. UNCHANGED <<value, notifyMask, exported, counter, import, pc, want, limit, timedOut,
                    p2, held, up, down>>
    BY <1>6 DEF server, call
  <2>2. OnlyMoves(t, TRUE)
    BY <1>1, <1>2, <1>6, LinkedQueues
  <2>3. TypeOK'
    <3>1. waitq' \in [Thread -> Seq(Task)]
      BY <2>2 DEF OnlyMoves, WaitqInv, Table
    <3>2. QED
      BY <1>2, <2>1, <3>1 DEF TypeOK
  <2>4. LocalInv(t)'
    BY <1>1, <1>6, <2>1 DEF LocalInv
  <2>5. Elsewhere(t)
    BY <1>2, <2>1, <2>2 DEF Elsewhere, OnlyMoves
  <2>6. QED
    BY <1>1, <2>1, <2>2, <2>3, <2>4, <2>5, LocalKept DEF OnlyMoves
<1>7. QED
  BY <1>4, <1>5, <1>6 DEF LocalSection

\* The timer of a task of the server; the clients' tests have none.
LEMMA TimeoutKeeps ==
  ASSUME IInv, SafeUse, NEW t \in Task, Timeout(t)
  PROVE  IInv'
<1>1. /\ pc[t] = "test" /\ limit[t] = "ticks" /\ timedOut' = [timedOut EXCEPT ![t] = TRUE]
      /\ waitq' = Unlinked(waitq, t)
      /\ UNCHANGED <<value, notifyMask, exported, counter, import, pc, want, limit, p2, held,
                     up, down>>
  BY DEF Timeout, server
<1>2. Home[t] \notin Client
  <2>1. SUFFICES ASSUME Home[t] \in Client PROVE FALSE
    OBVIOUS
  <2>2. CallInv(t)
    BY <2>1, TaskFacts
  <2>3. QED
    BY <1>1, <2>2 DEF CallInv
<1>3. TypeOK /\ WaitqInv /\ LocalInv(t) /\ value \in Nat
  BY <1>2, LocalFacts
<1>4. OnlyMoves(t, FALSE)
  BY <1>1, <1>3, UnlinkedQueues
<1>5. TypeOK'
  <2>1. waitq' \in [Thread -> Seq(Task)]
    BY <1>4 DEF OnlyMoves, WaitqInv, Table
  <2>2. QED
    BY <1>1, <1>3, <2>1 DEF TypeOK
<1>6. LocalInv(t)'
  BY <1>1, <1>3, <1>4 DEF LocalInv, OnlyMoves
<1>7. Elsewhere(t)
  BY <1>1, <1>3, <1>4 DEF Elsewhere, OnlyMoves, TypeOK
<1>8. QED
  BY <1>1, <1>2, <1>4, <1>5, <1>6, <1>7, LocalKept DEF OnlyMoves

LEMMA LocalSetKeeps ==
  ASSUME IInv, SafeUse, NEW t \in Task, NEW n \in Amount, LocalSet(t, n)
  PROVE  IInv'
<1> DEFINE R == Notified(notifyMask)
<1>1. /\ pc[t] = "user" /\ Home[t] \notin Client /\ n <= held[t] /\ SetSemaphore(n)
      /\ down' = R /\ held' = [held EXCEPT ![t] = @ - n]
      /\ UNCHANGED <<counter, import, pc, want, limit, timedOut, p2, up>>
  BY Homes DEF LocalSet, call
<1>2. /\ TypeOK /\ WaitqInv /\ UnitsKept /\ Senders /\ value \in Nat /\ held[t] \in Nat
      /\ n \in Nat
  BY <1>1, LocalFacts, AmountIsNumber DEF IInv
<1>3. R \in [Client -> Seq(Response)]
  BY <1>2, NotifiedTypes
<1>4. /\ WaitqInv' /\ value' \in Nat /\ value' = value + n
      /\ \A u \in Task : Home[u] \notin Client => LocalInv(u)' /\ ~OnTheWay(u) /\ ~OnTheWay(u)'
      /\ \A u \in Task :
           /\ Home[u] \in Client /\ held'[u] = held[u] /\ up'[Home[u]] = up[Home[u]]
           /\ down'[Home[u]] = R[Home[u]]
           => ClientInv(u)' /\ (OnTheWay(u)' <=> OnTheWay(u))
  BY <1>1, <1>2, SetSpares
<1> HIDE DEF R
<1>5. /\ held' \in [Task -> Nat] /\ held'[t] = held[t] - n
      /\ \A u \in Task \ {t} : held'[u] = held[u]
  <2>1. held[t] - n \in Nat /\ held \in [Task -> Nat]
    BY <1>1, <1>2 DEF TypeOK
  <2>2. QED
    BY <1>1, <2>1
<1>6. TypeOK'
  <2>1. waitq' \in [Thread -> Seq(Task)] /\ UNCHANGED exported /\ notifyMask' = {}
    BY <1>1, <1>4 DEF WaitqInv, Table, SetSemaphore
  <2>2. QED
    BY <1>1, <1>2, <1>3, <1>4, <1>5, <2>1 DEF TypeOK
<1>7. ASSUME NEW u \in Task PROVE TaskInv(u)' /\ (OnTheWay(u)' <=> OnTheWay(u))
  <2>1. CASE Home[u] \in Client
    BY <1>1, <1>4, <1>5, <2>1 DEF TaskInv
  <2>2. CASE Home[u] \notin Client
    BY <1>4, <2>2 DEF TaskInv
  <2>3. QED
    BY <2>1, <2>2
<1>8. Senders'
  <2>1. ASSUME NEW c \in Client, NEW m \in Request, Out(c, m)'
        PROVE  \E u \in Task : Home[u] = c
    <3>1. Out(c, m)
      BY <1>1, <1>2, <2>1, NotifiedAsks DEF R
    <3>2. QED
      BY <1>2, <3>1 DEF Senders
  <2>2. QED
    BY <2>1 DEF Senders
<1>9. UnitsKept'
  <2>1. Way[t] = 0 /\ Way'[t] = 0
    BY <1>1 DEF Way, Only, OnTheWay
  <2>2. /\ Mine(t, held', Way', up') = held[t] - n + 0 + 0
        /\ Mine(t, held, Way, up) = held[t] + 0 + 0
    BY <1>1, <1>5, <2>1 DEF Mine
  <2>3. value' + Mine(t, held', Way', up') = value + Mine(t, held, Way, up)
    BY <1>2, <1>4, <2>2
  <2>4. QED
    BY <1>1, <1>2, <1>5, <1>6, <1>7, <2>3, UnitsMoved
<1>10. QED
  BY <1>4, <1>6, <1>7, <1>8, <1>9 DEF IInv

-----------------------------------------------------------------------------
(* The invariant.                                                             *)

LEMMA SumOfZeros ==
  ASSUME NEW S, IsFiniteSet(S), NEW f, \A x \in S : f[x] = 0
  PROVE  Sum(f, S) = 0 /\ Numbers(f, S)
<1>1. Numbers(f, S)
  BY DEF Numbers
<1>2. Bundle(f, S) = {}
  BY DEF Bundle
<1>3. Sum(f, S) = Cardinality(Bundle(f, S))
  BY <1>1, SumIsCount
<1>4. QED
  BY <1>1, <1>2, <1>3, FS_EmptySet

LEMMA InitKeeps ==
  ASSUME SafeUse, Init
  PROVE  IInv
<1>1. PICK s \in Starts : exported = s.exported /\ counter = [c \in Client |-> s.first]
  BY DEF Init
<1>2. /\ value = Initial /\ notifyMask = {} /\ import = [c \in Client |-> "no"]
      /\ waitq = [h \in Thread |-> <<>>] /\ pc = [t \in Task |-> "user"]
      /\ want = [t \in Task |-> Min(Amount)] /\ limit = [t \in Task |-> "forever"]
      /\ timedOut = [t \in Task |-> FALSE]
      /\ p2 = [t \in Task |-> 0] /\ held = [t \in Task |-> 0]
      /\ up = [c \in Client |-> <<>>] /\ down = [c \in Client |-> <<>>]
  BY DEF Init
<1>3. s.exported \in BOOLEAN /\ s.first \in Number /\ (s.exported \/ s.first # 0)
  BY ImportExportAssumption DEF SafeUse, Number
<1>4. Min(Amount) \in Amount
  BY AmountIsNumber, ImportExportAssumption, MinProperties
<1>5. TypeOK
  <2>1. Initial \in Nat /\ 0 \in 0 .. Wrap
    BY ImportExportAssumption
  <2>2. exported \in BOOLEAN
    BY <1>1, <1>3, Zenon
  <2>3. counter \in [Client -> 0 .. Wrap - 1]
    BY <1>1, <1>3 DEF Number
  <2>4. want \in [Task -> Amount]
    BY <1>2, <1>4
  <2>5. /\ waitq \in [Thread -> Seq(Task)] /\ up \in [Client -> Seq(Request)]
        /\ down \in [Client -> Seq(Response)]
    BY <1>2, EmptySeq
  <2>6. timedOut \in [Task -> BOOLEAN]
    BY <1>2
  <2>7. QED
    BY <1>2, <2>1, <2>2, <2>3, <2>4, <2>5, <2>6 DEF TypeOK
<1>6. /\ \A h \in Thread : \A y : ~Contains(waitq[h], y)
      /\ \A c \in Client : \A y : ~Contains(up[c], y) /\ ~Contains(down[c], y)
  BY <1>2, EmptySeq DEF Contains
<1>7. WaitqInv
  BY <1>2, <1>5, <1>6, EmptySeq DEF WaitqInv, Table, Links, Once, TypeOK
<1>8. \A c \in Client : \A m : ~Out(c, m)
  BY <1>6 DEF Out, Asked
<1>9. Senders
  BY <1>8 DEF Senders
<1>10. \A t \in Task : ~Asleep(t)
  BY <1>6, Homes DEF Asleep
<1>11. ASSUME NEW t \in Task PROVE TaskInv(t)
  <2>1. CASE Home[t] \in Client
    <3> DEFINE c == Home[t]
    <3>1. up[c] = <<>> /\ down[c] = <<>> /\ Len(up[c]) = 0 /\ Len(down[c]) = 0
      BY <1>2, <2>1, EmptySeq
    <3>2. RequestInv(t)
      BY <1>8, <2>1, <3>1 DEF RequestInv, InOrder
    <3>3. CallInv(t)
      BY <1>2, <1>10, <2>1 DEF CallInv
    <3>4. ProbeInv(t)
      BY <1>6, <2>1 DEF ProbeInv
    <3>5. NotifyInv(t)
      BY <1>1, <1>2, <1>3, <1>6, <1>10, <2>1, <3>1 DEF NotifyInv, InTurn, Comes, Waits
    <3>6. QED
      BY <2>1, <3>2, <3>3, <3>4, <3>5 DEF TaskInv, ClientInv
  <2>2. CASE Home[t] \notin Client
    BY <1>2, <1>10, <2>2 DEF TaskInv, LocalInv
  <2>3. QED
    BY <2>1, <2>2
<1>12. UnitsKept
  <2>1. IsFiniteSet(Task) /\ IsFiniteSet(Client) /\ Initial \in Nat
    BY ImportExportAssumption
  <2>2. Sum(held, Task) = 0 /\ Sum(Way, Task) = 0
    <3>1. \A t \in Task : held[t] = 0 /\ Way[t] = 0
      BY <1>2 DEF Way, Only, OnTheWay
    <3>2. QED
      BY <2>1, <3>1, SumOfZeros
  <2>3. Sum([c \in Client |-> Coming(up[c])], Client) = 0
    <3> DEFINE g == [c \in Client |-> Coming(up[c])]
    <3>1. Coming(<<>>) = 0
      <4> DEFINE e == <<>>
      <4>1. e \in Seq(Request) /\ Len(e) = 0 /\ UnitRequests(e)
        BY EmptySeq DEF UnitRequests
      <4>2. 1 .. Len(e) = {}
        BY <4>1
      <4> HIDE DEF e
      <4>3. /\ Coming(e) = Sum(Units(e), 1 .. Len(e))
            /\ IsFiniteSet(1 .. Len(e)) /\ Numbers(Units(e), 1 .. Len(e))
        BY <4>1, ComingIsSum
      <4>4. Coming(e) = 0
        BY <4>2, <4>3, SumProperties
      <4>5. QED
        BY <4>4 DEF e
    <3>2. \A c \in Client : g[c] = 0
      BY <1>2, <3>1
    <3> HIDE DEF g
    <3>3. Sum(g, Client) = 0
      BY <2>1, <3>2, SumOfZeros
    <3>4. QED
      BY <3>3 DEF g
  <2>4. Initial = Total(value, held, Way, up)
    BY <1>2, <2>1, <2>2, <2>3 DEF Total
  <2>5. QED
    BY <1>5, <2>4, UnitsKeptIs
<1>13. QED
  BY <1>5, <1>7, <1>9, <1>11, <1>12 DEF IInv

LEMMA ContinueKeeps ==
  ASSUME IInv, SafeUse, NEW t \in Task, Continue(t)
  PROVE  IInv'
<1>1. CASE Imported(t)
  <2>1. Home[t] \in Client
    <3>1. SUFFICES ASSUME Home[t] \notin Client PROVE FALSE
      OBVIOUS
    <3>2. LocalInv(t)
      BY <3>1, LocalFacts
    <3>3. QED
      BY <1>1, <3>2 DEF Imported, LocalInv
  <2>2. QED
    BY <1>1, <2>1, ImportedKeeps
<1>2. CASE Granted(t) \/ Refused(t)
  BY <1>2, GrantedKeeps
<1>3. CASE RequestAgain(t)
  BY <1>3, RequestAgainKeeps
<1>4. CASE LocalSection(t)
  BY <1>4, LocalSectionKeeps
<1>5. QED
  BY <1>1, <1>2, <1>3, <1>4 DEF Continue

LEMMA IdleKeeps ==
  IInv /\ UNCHANGED vars => IInv'
<1> SUFFICES ASSUME IInv, UNCHANGED vars PROVE IInv'
  OBVIOUS
<1>1. /\ TypeOK /\ WaitqInv /\ UnitsKept /\ Senders /\ \A u \in Task : TaskInv(u)
  BY DEF IInv
<1>2. UNCHANGED <<value, notifyMask, exported, counter, import, waitq, pc, want, limit,
                  timedOut, p2, held, up, down>>
  BY DEF vars, server, call
<1>3. TypeOK'
  BY <1>1, <1>2 DEF TypeOK
<1>4. WaitqInv' /\ \A u \in Task : Asleep(u)' <=> Asleep(u)
  BY <1>1, <1>2, SameQueues
<1>5. ASSUME NEW u \in Task PROVE TaskInv(u)' /\ (OnTheWay(u)' <=> OnTheWay(u))
  <2>1. Same(u)
    BY <1>2, <1>4 DEF Same
  <2>2. CASE Home[u] \in Client
    BY <1>1, <1>2, <2>1, <2>2, SameKeepsClient, SameIsOnTheWay DEF TaskInv
  <2>3. CASE Home[u] \notin Client
    BY <1>1, <1>2, <1>4, <2>1, <2>3, SameIsOnTheWay DEF TaskInv, LocalInv
  <2>4. QED
    BY <2>2, <2>3
<1>6. Senders'
  BY <1>1, <1>2 DEF Senders, Out
<1>7. UnitsKept'
  BY <1>1, <1>2, <1>3, <1>5, UnitsStay
<1>8. QED
  BY <1>3, <1>4, <1>5, <1>6, <1>7 DEF IInv

LEMMA NextKeeps ==
  ASSUME SafeUse
  PROVE  IInv /\ [Next]_vars => IInv'
<1> SUFFICES ASSUME IInv, [Next]_vars PROVE IInv'
  OBVIOUS
<1>1. CASE UNCHANGED vars
  BY <1>1, IdleKeeps
<1>2. ASSUME NEW t \in Task, Import(t) PROVE IInv'
  BY <1>2, ImportKeeps
<1>3. ASSUME NEW t \in Task, Continue(t) PROVE IInv'
  BY <1>3, ContinueKeeps
<1>4. ASSUME NEW t \in Task, Timeout(t) PROVE IInv'
  BY <1>4, TimeoutKeeps
<1>5. ASSUME NEW t \in Task, NEW n \in Amount, NEW timeout \in Timeouts[t],
             RequestTest(t, n, timeout) \/ LocalTest(t, n, timeout)
      PROVE  IInv'
  BY <1>5, RequestTestKeeps, LocalTestKeeps
<1>6. ASSUME NEW t \in Task, NEW n \in Amount, RequestSet(t, n) \/ LocalSet(t, n) PROVE IInv'
  BY <1>6, RequestSetKeeps, LocalSetKeeps
<1>7. ASSUME NEW c \in Client, ClientReceives(c) \/ ServerReceives(c) PROVE IInv'
  BY <1>7, ClientReceivesKeeps, ServerReceivesKeeps
<1>8. CASE Export
  BY <1>8, ExportKeeps
<1>9. QED
  BY <1>1, <1>2, <1>3, <1>4, <1>5, <1>6, <1>7, <1>8 DEF Next

\* Used as SafeUse says, an imported or exported semaphore keeps its invariant,
\* whatever the threads, their tasks and the order in which messages are handled.
THEOREM ImportExportInvariant ==
  ASSUME SafeUse
  PROVE  Spec => []IInv
<1>1. Init => IInv
  BY InitKeeps
<1>2. IInv /\ [Next]_vars => IInv'
  BY NextKeeps
<1>3. QED
  BY <1>1, <1>2, PTL DEF Spec

\* However the requests of the threads, their answers and the notifications pass
\* each other, no unit is lost or made: what the server has left, what tasks hold, what
\* has been granted to them but has not arrived and what they are giving back is all
\* there was (_KRN_IPM_semTest, _KRN_IPM_semSet, _KRN_IPM_ack and the calls of sem.c).
THEOREM ConservedAlways ==
  ASSUME SafeUse
  PROVE  Spec => []Conserved
<1>1. IInv => Conserved
  BY DEF IInv, Conserved, WaitqInv, Table
<1>2. Spec => []IInv
  BY ImportExportInvariant
<1>3. QED
  BY <1>1, <1>2, PTL

\* Nothing that sleeps in KRN_import or KRN_testSemaphore is forgotten: its request or the
\* answer is on the way, or the server knows that its thread has to be notified, or has
\* notified it; and a task of the server sleeps only while it wants more than there is.
THEOREM NoneForgottenAlways ==
  ASSUME SafeUse
  PROVE  Spec => []NoneForgotten
<1>1. IInv => NoneForgotten
  <2> SUFFICES ASSUME IInv, NEW t \in Task, pc[t] # "user", Asleep(t)
               PROVE  IF Home[t] = Server THEN value < want[t]
                      ELSE IF p2[t] # Parked THEN Pending(t, pc[t])
                      ELSE \/ NotifyComes(Home[t])
                           \/ pc[t] = "test" /\ Home[t] \in notifyMask
                           \/ pc[t] = "import" /\ ~exported
    BY DEF NoneForgotten
  <2>1. CASE Home[t] = Server
    <3>1. LocalInv(t)
      BY <2>1, Homes, LocalFacts
    <3>2. QED
      BY <2>1, <3>1 DEF LocalInv
  <2>2. CASE Home[t] # Server /\ p2[t] # Parked
    <3> DEFINE c == Home[t]
    <3>1. CallInv(t)
      BY <2>2, Homes, TaskFacts
    <3>2. PICK m \in Request : Out(c, m) /\ LinkedFor(t, m)
      BY <2>2, <3>1 DEF CallInv
    <3>3. m.cmd = pc[t] /\ m.seq = p2[t]
      BY <3>2 DEF LinkedFor
    <3>4. ASSUME Contains(up[c], m) PROVE Pending(t, pc[t])
      <4>1. PICK i \in 1 .. Len(up[c]) : up[c][i] = m
        BY <3>4 DEF Contains
      <4>2. up[c][i].cmd = pc[t] /\ up[c][i].seq = p2[t]
        BY <3>3, <4>1
      <4>3. QED
        BY <4>2, Zenon DEF Pending
    <3>5. ASSUME NEW ok \in BOOLEAN, Contains(down[c], AckOf(m, ok)) PROVE Pending(t, pc[t])
      <4>1. PICK i \in 1 .. Len(down[c]) : down[c][i] = AckOf(m, ok)
        BY <3>5 DEF Contains
      <4>2. down[c][i].type = "ack" /\ down[c][i].to = m
        BY <4>1, Responses
      <4>3. QED
        BY <3>3, <4>2 DEF Pending
    <3>6. QED
      BY <2>2, <3>2, <3>4, <3>5 DEF Out, Asked
  <2>3. CASE Home[t] # Server /\ p2[t] = Parked
    <3> DEFINE c == Home[t]
    <3>1. CallInv(t) /\ NotifyInv(t) /\ TypeOK
      BY <2>3, Homes, TaskFacts
    <3>2. Comes(c) => NotifyComes(c)
      BY Responses DEF Comes, NotifyComes, Contains
    <3>3. CASE pc[t] = "test"
      <4>1. Waits(t)
        BY <2>3, <3>1, <3>3 DEF CallInv, Waits
      <4>2. QED
        BY <2>3, <3>1, <3>2, <3>3, <4>1 DEF NotifyInv
    <3>4. CASE pc[t] = "import"
      BY <2>3, <3>1, <3>2, <3>4 DEF NotifyInv
    <3>5. QED
      BY <3>1, <3>3, <3>4 DEF TypeOK
  <2>4. QED
    BY <2>1, <2>2, <2>3
<1>2. Spec => []IInv
  BY ImportExportInvariant
<1>3. QED
  BY <1>1, <1>2, PTL

-----------------------------------------------------------------------------
(* One counting semaphore for all threads: every step is one of Counting, or no *)
(* step of it.                                                                *)

\* A task has a request that is not decided.
Asks(t) ==
  pc[t] = "test" /\ ~(Home[t] \in Client /\
    (OnTheWay(t) \/ IF Asleep(t) THEN Ending(t, FALSE) ELSE timedOut[t]))

\* The answers that end a call which does not wait.
Refusing(D, s) ==
  \E x \in Request : Contains(D, AckOf(x, FALSE)) /\ x.cmd = "test" /\ x.seq = s /\ ~x.wait
RefusalAt(D, s) ==
  \E i \in 1 .. Len(D) : /\ D[i].type = "ack" /\ D[i].ok = FALSE /\ ~D[i].to.wait
                         /\ D[i].to.cmd = "test" /\ D[i].to.seq = s

LEMMA RefusingIs ==
  ASSUME NEW D \in Seq(Response), NEW s
  PROVE  RefusalAt(D, s) <=> Refusing(D, s)
<1>1. ASSUME NEW i \in 1 .. Len(D), D[i].type = "ack", D[i].ok = FALSE, ~D[i].to.wait,
             D[i].to.cmd = "test", D[i].to.seq = s
      PROVE  Refusing(D, s)
  <2>1. D[i] \in Response /\ Contains(D, D[i])
    BY ElementOfSeq DEF Contains
  <2>2. D[i].to \in Request /\ D[i] = AckOf(D[i].to, FALSE)
    BY <1>1, <2>1, ResponseCases, Responses
  <2>3. QED
    BY <1>1, <2>1, <2>2 DEF Refusing
<1>2. ASSUME NEW x \in Request, Contains(D, AckOf(x, FALSE)), x.cmd = "test", x.seq = s, ~x.wait
      PROVE  RefusalAt(D, s)
  <2>1. PICK i \in 1 .. Len(D) : D[i] = AckOf(x, FALSE)
    BY <1>2 DEF Contains
  <2>2. QED
    BY <1>2, <2>1, Responses DEF RefusalAt
<1>3. QED
  BY <1>1, <1>2 DEF Refusing, RefusalAt

\* Whether a client's task asks, by the answers to it.
AsksBy(asleep, D, s, out) ==
  IF asleep THEN ~Granting(D, s) /\ ~Refusing(D, s) ELSE s # 1 /\ ~out

LEMMA AsksIs ==
  TypeOK => \A t \in Task :
    Asks(t) <=>
      /\ pc[t] = "test"
      /\ Home[t] \in Client => AsksBy(Asleep(t), down[Home[t]], p2[t], timedOut[t])
<1> SUFFICES ASSUME TypeOK, NEW t \in Task
             PROVE  Asks(t) <=>
                      /\ pc[t] = "test"
                      /\ Home[t] \in Client =>
                           AsksBy(Asleep(t), down[Home[t]], p2[t], timedOut[t])
  OBVIOUS
<1>1. CASE Home[t] \in Client
  <2> DEFINE D == down[Home[t]]
             s == p2[t]
  <2>1. D \in Seq(Response)
    BY <1>1 DEF TypeOK
  <2>2. Ending(t, TRUE) <=> Granting(D, s)
    BY <2>1, EndingIs
  <2>3. Ending(t, FALSE) <=> RefusalAt(D, s)
    BY DEF Ending, RefusalAt
  <2> HIDE DEF D, s
  <2>4. RefusalAt(D, s) <=> Refusing(D, s)
    BY <2>1, RefusingIs
  <2>5. Ending(t, FALSE) <=> Refusing(D, s)
    BY <2>3, <2>4
  <2>6. QED
    BY <1>1, <2>2, <2>5 DEF Asks, AsksBy, OnTheWay, D, s
<1>2. CASE Home[t] \notin Client
  BY <1>2 DEF Asks
<1>3. QED
  BY <1>1, <1>2

LEMMA AsksNext ==
  TypeOK' => \A t \in Task :
    Asks(t)' <=>
      /\ pc'[t] = "test"
      /\ Home[t] \in Client => AsksBy(Asleep(t)', down'[Home[t]], p2'[t], timedOut'[t])
<1>1. (TypeOK => \A t \in Task :
         Asks(t) <=>
           /\ pc[t] = "test"
           /\ Home[t] \in Client => AsksBy(Asleep(t), down[Home[t]], p2[t], timedOut[t]))'
  BY AsksIs, PTL
<1>2. QED
  BY <1>1

\* The steps of Counting.
AsksStay == \A u \in Task : Asks(u)' <=> Asks(u)
OthersStay(t) == \A u \in Task \ {t} : Asks(u)' <=> Asks(u)

LEMMA AskingIs ==
  /\ Asking = {t \in Task : Asks(t)} /\ Asking' = {t \in Task : Asks(t)'}
BY DEF Asking, Asks

LEMMA PromiseIdles ==
  ASSUME AsksStay, UNCHANGED <<value, want, limit, timedOut>>
  PROVE  UNCHANGED Promise!vars
<1>1. Asking' = Asking
  BY AskingIs DEF AsksStay
<1>2. QED
  BY <1>1 DEF Promise!vars

LEMMA PromiseAsks ==
  ASSUME NEW t \in Task, NEW n \in Amount, NEW timeout \in {"zero", "ticks", "forever"},
         TypeOK, ~Asks(t), Asks(t)', OthersStay(t), UNCHANGED value,
         want' = [want EXCEPT ![t] = n], limit' = [limit EXCEPT ![t] = timeout],
         timedOut' = [timedOut EXCEPT ![t] = timeout = "zero"]
  PROVE  Promise!Ask(t, n, timeout)
<1>1. t \notin Asking /\ Asking' = Asking \cup {t}
  BY AskingIs DEF OthersStay
<1>2. /\ limit'[t] = timeout /\ (timedOut'[t] <=> timeout = "zero")
      /\ \A u \in Task \ {t} : limit'[u] = limit[u] /\ (timedOut'[u] <=> timedOut[u])
  BY DEF TypeOK
<1>3. {u \in Asking : timedOut[u] /\ limit[u] = "ticks"}' =
      {u \in Asking : timedOut[u] /\ limit[u] = "ticks"} \ {t}
  <2>1. Asking \subseteq Task
    BY AskingIs
  <2>2. \A u : u \in {v \in Asking : timedOut[v] /\ limit[v] = "ticks"}' <=>
               u \in {v \in Asking : timedOut[v] /\ limit[v] = "ticks"} \ {t}
    BY <1>1, <1>2, <2>1
  <2>3. QED
    BY <2>2, Zenon
<1>4. QED
  BY <1>1, <1>3 DEF Promise!Ask

LEMMA PromiseEnds ==
  ASSUME NEW t \in Task, Asks(t), ~Asks(t)', OthersStay(t), UNCHANGED <<limit, timedOut>>
  PROVE  /\ t \in Asking /\ Asking' = Asking \ {t}
         /\ {u \in Asking : timedOut[u] /\ limit[u] = "ticks"}' =
            {u \in Asking : timedOut[u] /\ limit[u] = "ticks"} \ {t}
<1>1. t \in Asking /\ Asking' = Asking \ {t}
  BY AskingIs DEF OthersStay
<1>2. QED
  BY <1>1

LEMMA PromiseGrants ==
  ASSUME NEW t \in Task, Asks(t), ~Asks(t)', OthersStay(t), UNCHANGED <<want, limit, timedOut>>,
         want[t] <= value, value' = value - want[t]
  PROVE  Promise!Grant(t)
<1>1. \A u \in Asking : ~([v \in Task |-> 0][u] > [v \in Task |-> 0][t])
  BY AskingIs
<1>2. QED
  BY <1>1, PromiseEnds DEF Promise!Grant

LEMMA PromiseRefuses ==
  ASSUME NEW t \in Task, Asks(t), ~Asks(t)', OthersStay(t),
         UNCHANGED <<value, want, limit, timedOut>>,
         want[t] > value, limit[t] = "zero" \/ (limit[t] = "ticks" /\ timedOut[t])
  PROVE  Promise!Refuse(t)
<1>1. /\ t \in Asking /\ Asking' = Asking \ {t}
      /\ {u \in Asking : timedOut[u] /\ limit[u] = "ticks"}' =
         {u \in Asking : timedOut[u] /\ limit[u] = "ticks"} \ {t}
  BY PromiseEnds
<1>2. limit[t] = "zero" \/ t \in {u \in Asking : timedOut[u] /\ limit[u] = "ticks"}
  BY <1>1
<1>3. QED
  BY <1>1, <1>2 DEF Promise!Refuse

LEMMA PromiseExpires ==
  ASSUME NEW t \in Task, TypeOK, Asks(t), AsksStay, UNCHANGED <<value, want, limit>>,
         limit[t] = "ticks", timedOut' = [timedOut EXCEPT ![t] = TRUE]
  PROVE  Promise!Expire(t)
<1>1. t \in Asking /\ Asking' = Asking /\ Asking \subseteq Task
  BY AskingIs DEF AsksStay
<1>2. timedOut'[t] = TRUE /\ \A u \in Task \ {t} : timedOut'[u] = timedOut[u]
  BY DEF TypeOK
<1>3. {u \in Asking : timedOut[u] /\ limit[u] = "ticks"}' =
      {u \in Asking : timedOut[u] /\ limit[u] = "ticks"} \cup {t}
  BY <1>1, <1>2
<1>4. QED
  BY <1>1, <1>3 DEF Promise!Expire

LEMMA PromiseGives ==
  ASSUME NEW n \in Amount, AsksStay, UNCHANGED <<want, limit, timedOut>>,
         value \in Nat, value' = value + n, value' <= Initial
  PROVE  Promise!Give(n)
<1>1. value' = (value + n) % (Initial + 1)
  <2> DEFINE v == value + n
             k == Initial + 1
  <2>1. k \in Nat \ {0} /\ v \in 0 .. k - 1
    BY AmountIsNumber, ImportExportAssumption
  <2> HIDE DEF v, k
  <2>2. v % k = v
    BY <2>1, ModSmall
  <2>3. QED
    BY <2>2 DEF v, k
<1>2. Asking' = Asking
  BY AskingIs DEF AsksStay
<1>3. QED
  BY <1>1, <1>2 DEF Promise!Give

-----------------------------------------------------------------------------
(* The steps of tasks, as steps of Counting.                                  *)

\* A step that does not concern the other tasks.
Beside(t) ==
  \A u \in Task \ {t} :
    /\ pc'[u] = pc[u]
    /\ Home[u] \in Client =>
         /\ p2'[u] = p2[u] /\ timedOut'[u] = timedOut[u] /\ down'[Home[u]] = down[Home[u]]
         /\ Asleep(u)' <=> Asleep(u)

LEMMA BesideStays ==
  ASSUME NEW t \in Task, Beside(t)
  PROVE  OthersStay(t)
<1>1. ASSUME NEW u \in Task \ {t} PROVE Asks(u)' <=> Asks(u)
  <2>1. CASE Home[u] \in Client
    <3>1. /\ pc'[u] = pc[u] /\ p2'[u] = p2[u] /\ timedOut'[u] = timedOut[u]
          /\ down'[Home[u]] = down[Home[u]] /\ (Asleep(u)' <=> Asleep(u))
      BY <1>1, <2>1 DEF Beside
    <3>2. QED
      BY <3>1 DEF Asks, OnTheWay, Ending
  <2>2. CASE Home[u] \notin Client
    BY <1>1, <2>2 DEF Asks, Beside
  <2>3. QED
    BY <2>1, <2>2
<1>2. QED
  BY <1>1 DEF OthersStay

LEMMA StayAll ==
  ASSUME NEW t \in Task, OthersStay(t), Asks(t)' <=> Asks(t)
  PROVE  AsksStay
BY DEF OthersStay, AsksStay

LEMMA NotInTest ==
  ASSUME NEW t \in Task, pc[t] # "test", pc'[t] # "test"
  PROVE  ~Asks(t) /\ ~Asks(t)'
BY DEF Asks

\* No answer to a test is on the way when none is asked for.
LEMMA NoTestAnswers ==
  ASSUME NEW c, \A m \in Request : Out(c, m) => m.cmd # "test", NEW s
  PROVE  ~Granting(down[c], s) /\ ~Refusing(down[c], s)
BY DEF Granting, Refusing, Out, Asked

\* Calls and returns that decide nothing.
LEMMA ImportIdles ==
  ASSUME IInv, NEW t \in Task, Import(t) \/ Imported(t)
  PROVE  UNCHANGED Promise!vars
<1>1. TypeOK /\ WaitqInv
  BY DEF IInv
<1>2. /\ UNCHANGED <<value, want, limit, timedOut, down>>
      /\ pc[t] # "test" /\ pc'[t] # "test" /\ \A u \in Task \ {t} : pc'[u] = pc[u]
  BY <1>1 DEF Import, Imported, TypeOK, server, call
<1>3. \A u \in Task \ {t} : p2'[u] = p2[u] /\ (Asleep(u)' <=> Asleep(u))
  <2>1. CASE Import(t)
    <3>1. waitq' = AddTail(Unlinked(waitq, t), Home[t], t) /\ p2' = [p2 EXCEPT ![t] = 0]
      BY <2>1 DEF Import, WaitOnSequence
    <3>2. OnlyMoves(t, TRUE)
      BY <1>1, <3>1, RelinkedQueues
    <3>3. QED
      BY <1>1, <3>1, <3>2 DEF OnlyMoves, TypeOK
  <2>2. CASE Imported(t)
    BY <2>2 DEF Imported, Asleep
  <2>3. QED
    BY <2>1, <2>2
<1>4. Beside(t)
  BY <1>2, <1>3 DEF Beside
<1>5. AsksStay
  BY <1>2, <1>4, BesideStays, StayAll, NotInTest
<1>6. QED
  BY <1>2, <1>5, PromiseIdles

LEMMA RequestSetIdles ==
  ASSUME IInv, NEW t \in Task, NEW n \in Amount, RequestSet(t, n)
  PROVE  UNCHANGED Promise!vars
<1>1. TypeOK /\ WaitqInv
  BY DEF IInv
<1>2. /\ UNCHANGED <<value, want, limit, timedOut, down, pc>>
      /\ pc[t] = "user" /\ Home[t] \in Client /\ WaitOnCount(t, "set", FALSE, n)
  BY DEF RequestSet, server, call
<1>3. \A u \in Task \ {t} : p2'[u] = p2[u] /\ (Asleep(u)' <=> Asleep(u))
  BY <1>1, <1>2, Sent DEF OnlyMoves
<1>4. Beside(t)
  BY <1>2, <1>3 DEF Beside
<1>5. AsksStay
  BY <1>2, <1>4, BesideStays, StayAll, NotInTest
<1>6. QED
  BY <1>2, <1>5, PromiseIdles

\* A client's test is asked for when its first request is sent.
LEMMA RequestTestAsks ==
  ASSUME IInv, SafeUse, NEW t \in Task, NEW n \in Amount, NEW timeout \in Timeouts[t],
         RequestTest(t, n, timeout)
  PROVE  Promise!Ask(t, n, timeout)
<1>1. /\ pc[t] = "user" /\ pc' = [pc EXCEPT ![t] = "test"] /\ want' = [want EXCEPT ![t] = n]
      /\ limit' = [limit EXCEPT ![t] = timeout]
      /\ timedOut' = [timedOut EXCEPT ![t] = timeout = "zero"]
      /\ Home[t] \in Client /\ WaitOnCount(t, "test", timeout # "zero", n)
      /\ UNCHANGED <<value, down>>
  BY DEF RequestTest, Test, server
<1>2. TypeOK /\ WaitqInv /\ RequestInv(t)
  BY <1>1, TaskFacts
<1>3. TypeOK'
  BY RequestTestKeeps DEF IInv
<1>4. Asleep(t)' /\ \A u \in Task \ {t} : p2'[u] = p2[u] /\ (Asleep(u)' <=> Asleep(u))
  <2>1. (timeout # "zero") \in BOOLEAN
    OBVIOUS
  <2> DEFINE b == timeout # "zero"
  <2>2. b \in BOOLEAN /\ WaitOnCount(t, "test", b, n)
    BY <1>1, <2>1
  <2> HIDE DEF b
  <2>3. QED
    BY <1>1, <1>2, <2>2, Sent DEF OnlyMoves
<1>5. Asks(t)'
  <2>1. \A m \in Request : Out(Home[t], m) => m.cmd # "test"
    BY <1>1, <1>2 DEF RequestInv, Fits, TestFits
  <2>2. AsksBy(Asleep(t)', down'[Home[t]], p2'[t], timedOut'[t])
    BY <1>1, <1>4, <2>1, NoTestAnswers DEF AsksBy
  <2>3. pc'[t] = "test"
    BY <1>1, <1>2 DEF TypeOK
  <2>4. QED
    BY <1>3, <2>2, <2>3, AsksNext
<1>6. Beside(t)
  BY <1>1, <1>2, <1>4 DEF Beside, TypeOK
<1>7. ~Asks(t)
  BY <1>1 DEF Asks
<1>8. timeout \in {"zero", "ticks", "forever"}
  BY ImportExportAssumption
<1>9. OthersStay(t)
  BY <1>6, BesideStays
<1>10. QED
  BY <1>1, <1>2, <1>5, <1>7, <1>8, <1>9, PromiseAsks

\* It goes on being asked for when another request is sent.
LEMMA RequestAgainIdles ==
  ASSUME IInv, SafeUse, NEW t \in Task, RequestAgain(t)
  PROVE  UNCHANGED Promise!vars
<1>1. /\ pc[t] = "test" /\ Home[t] \in Client /\ ~Asleep(t) /\ p2[t] # 1 /\ ~timedOut[t]
      /\ WaitOnCount(t, "test", TRUE, want[t])
      /\ UNCHANGED <<value, pc, want, limit, timedOut, down>>
  BY DEF RequestAgain, Woken, server, call
<1>2. TypeOK /\ WaitqInv /\ CallInv(t) /\ want[t] \in Amount
  BY <1>1, TaskFacts
<1>3. TypeOK'
  BY RequestAgainKeeps DEF IInv
<1>4. Asleep(t)' /\ \A u \in Task \ {t} : p2'[u] = p2[u] /\ (Asleep(u)' <=> Asleep(u))
  BY <1>1, <1>2, Sent DEF OnlyMoves
<1>5. Asks(t)'
  <2>1. \A m \in Request : ~Out(Home[t], m)
    BY <1>1, <1>2 DEF CallInv
  <2>2. AsksBy(Asleep(t)', down'[Home[t]], p2'[t], timedOut'[t])
    BY <1>1, <1>4, <2>1, NoTestAnswers DEF AsksBy
  <2>3. QED
    BY <1>1, <1>3, <2>2, AsksNext
<1>6. Asks(t)
  BY <1>1, <1>2, AsksIs DEF AsksBy
<1>7. Beside(t)
  BY <1>1, <1>4 DEF Beside
<1>8. AsksStay
  BY <1>5, <1>6, <1>7, BesideStays, StayAll
<1>9. QED
  BY <1>1, <1>8, PromiseIdles

\* What a client's task is told has been decided before.
LEMMA ReturnIdles ==
  ASSUME IInv, NEW t \in Task, Granted(t) \/ Refused(t)
  PROVE  UNCHANGED Promise!vars
<1>1. /\ pc[t] = "test" /\ Home[t] \in Client /\ ~Asleep(t) /\ (p2[t] = 1 \/ timedOut[t])
      /\ pc' = [pc EXCEPT ![t] = "user"]
      /\ UNCHANGED <<value, waitq, want, limit, timedOut, p2, down>>
  BY DEF Granted, Refused, Woken, Return, call
<1>2. TypeOK
  BY DEF IInv
<1>3. ~Asks(t)
  BY <1>1, <1>2, AsksIs DEF AsksBy
<1>4. ~Asks(t)'
  BY <1>1, <1>2 DEF Asks, TypeOK
<1>5. Beside(t)
  BY <1>1, <1>2 DEF Beside, TypeOK, Asleep
<1>6. AsksStay
  BY <1>3, <1>4, <1>5, BesideStays, StayAll
<1>7. QED
  BY <1>1, <1>6, PromiseIdles

LEMMA TimeoutExpires ==
  ASSUME IInv, SafeUse, NEW t \in Task, Timeout(t)
  PROVE  Promise!Expire(t)
<1>1. /\ pc[t] = "test" /\ limit[t] = "ticks" /\ timedOut' = [timedOut EXCEPT ![t] = TRUE]
      /\ waitq' = Unlinked(waitq, t)
      /\ UNCHANGED <<value, pc, want, limit, p2, down>>
  BY DEF Timeout, server
<1>2. TypeOK /\ WaitqInv
  BY DEF IInv
<1>3. Home[t] \notin Client
  <2>1. SUFFICES ASSUME Home[t] \in Client PROVE FALSE
    OBVIOUS
  <2>2. CallInv(t)
    BY <2>1, TaskFacts
  <2>3. QED
    BY <1>1, <2>2 DEF CallInv
<1>4. OnlyMoves(t, FALSE)
  BY <1>1, <1>2, UnlinkedQueues
<1>5. Beside(t)
  BY <1>1, <1>2, <1>4 DEF Beside, OnlyMoves, TypeOK
<1>6. Asks(t) /\ (Asks(t)' <=> Asks(t))
  BY <1>1, <1>3 DEF Asks
<1>7. AsksStay
  BY <1>5, <1>6, BesideStays, StayAll
<1>8. QED
  BY <1>1, <1>2, <1>6, <1>7, PromiseExpires

LEMMA LocalTestAsks ==
  ASSUME IInv, NEW t \in Task, NEW n \in Amount, NEW timeout \in Timeouts[t],
         LocalTest(t, n, timeout)
  PROVE  Promise!Ask(t, n, timeout)
<1>1. /\ pc[t] = "user" /\ pc' = [pc EXCEPT ![t] = "test"] /\ want' = [want EXCEPT ![t] = n]
      /\ limit' = [limit EXCEPT ![t] = timeout]
      /\ timedOut' = [timedOut EXCEPT ![t] = timeout = "zero"]
      /\ Home[t] \notin Client
      /\ UNCHANGED <<value, waitq, p2, down>>
  BY Homes DEF LocalTest, Test, server
<1>2. TypeOK
  BY DEF IInv
<1>3. Beside(t)
  BY <1>1, <1>2 DEF Beside, TypeOK, Asleep
<1>4. ~Asks(t) /\ Asks(t)'
  BY <1>1, <1>2 DEF Asks, TypeOK
<1>5. timeout \in {"zero", "ticks", "forever"}
  BY ImportExportAssumption
<1>6. OthersStay(t)
  BY <1>3, BesideStays
<1>7. QED
  BY <1>1, <1>2, <1>4, <1>5, <1>6, PromiseAsks

\* A task whose time has run out had a limit.
Timed == \A t \in Task : timedOut[t] => limit[t] # "forever"

LEMMA TimedKeeps ==
  ASSUME TypeOK, Timed, [Next]_vars
  PROVE  Timed'
<1>1. ASSUME UNCHANGED <<limit, timedOut>> PROVE Timed'
  BY <1>1 DEF Timed
<1>2. ASSUME NEW t \in Task, NEW n, NEW timeout, Test(t, n, timeout) PROVE Timed'
  <2>1. /\ limit' = [limit EXCEPT ![t] = timeout]
        /\ timedOut' = [timedOut EXCEPT ![t] = timeout = "zero"]
    BY <1>2 DEF Test
  <2>2. limit'[t] = timeout /\ (timedOut'[t] <=> timeout = "zero")
    BY <2>1 DEF TypeOK
  <2>3. \A u \in Task \ {t} : limit'[u] = limit[u] /\ timedOut'[u] = timedOut[u]
    BY <2>1 DEF TypeOK
  <2>4. QED
    BY <2>2, <2>3 DEF Timed
<1>3. ASSUME NEW t \in Task, Timeout(t) PROVE Timed'
  <2>1. limit[t] = "ticks" /\ limit' = limit /\ timedOut' = [timedOut EXCEPT ![t] = TRUE]
    BY <1>3 DEF Timeout
  <2>2. \A u \in Task \ {t} : timedOut'[u] = timedOut[u]
    BY <2>1 DEF TypeOK
  <2>3. QED
    BY <2>1, <2>2 DEF Timed
<1>4. ASSUME NEW t \in Task, Import(t) \/ Continue(t) PROVE Timed'
  BY <1>1, <1>4 DEF Import, Continue, Imported, Granted, Refused, RequestAgain, LocalSection,
                    Return, call
<1>5. ASSUME NEW t \in Task, NEW n \in Amount, RequestSet(t, n) \/ LocalSet(t, n) PROVE Timed'
  BY <1>1, <1>5 DEF RequestSet, LocalSet, call
<1>6. ASSUME NEW c \in Client, ClientReceives(c) \/ ServerReceives(c) PROVE Timed'
  BY <1>1, <1>6 DEF ClientReceives, ServerReceives, call
<1>7. CASE Export
  BY <1>1, <1>7 DEF Export, call
<1>8. CASE UNCHANGED vars
  BY <1>1, <1>8 DEF vars, call
<1>9. QED
  BY <1>2, <1>3, <1>4, <1>5, <1>6, <1>7, <1>8 DEF Next, RequestTest, LocalTest

\* The server decides about its own tasks when they run.
LEMMA LocalSectionDecides ==
  ASSUME IInv, Timed, NEW t \in Task, LocalSection(t)
  PROVE  Promise!Next \/ UNCHANGED Promise!vars
<1>1. pc[t] = "test" /\ Home[t] \notin Client /\ ~Asleep(t)
  BY Homes DEF LocalSection
<1>2. /\ TypeOK /\ WaitqInv /\ Home[t] = Server
      /\ value \in Nat /\ want[t] \in Nat
  BY <1>1, LocalFacts
<1>3. Asks(t)
  BY <1>1 DEF Asks
<1>4. ASSUME NEW units, Return(t, units), UNCHANGED waitq
      PROVE  ~Asks(t)' /\ OthersStay(t) /\ UNCHANGED <<want, limit, timedOut>>
  <2>1. pc' = [pc EXCEPT ![t] = "user"] /\ UNCHANGED <<want, limit, timedOut, p2, down>>
    BY <1>4 DEF Return, call
  <2>2. Beside(t)
    BY <1>2, <1>4, <2>1 DEF Beside, TypeOK, Asleep
  <2>3. ~Asks(t)'
    BY <1>2, <2>1 DEF Asks, TypeOK
  <2>4. QED
    BY <2>1, <2>2, <2>3, BesideStays
<1>5. CASE value >= want[t] /\ value' = value - want[t] /\ Return(t, want[t]) /\ UNCHANGED waitq
  <2>1. ~Asks(t)' /\ OthersStay(t) /\ UNCHANGED <<want, limit, timedOut>>
    BY <1>4, <1>5
  <2>2. want[t] <= value
    BY <1>2, <1>5
  <2>3. Promise!Grant(t)
    BY <1>3, <1>5, <2>1, <2>2, PromiseGrants
  <2>4. QED
    BY <2>3 DEF Promise!Next
<1>6. CASE value < want[t] /\ timedOut[t] /\ Return(t, 0) /\ UNCHANGED <<value, waitq>>
  <2>1. ~Asks(t)' /\ OthersStay(t) /\ UNCHANGED <<want, limit, timedOut>>
    BY <1>4, <1>6
  <2>2. limit[t] = "zero" \/ (limit[t] = "ticks" /\ timedOut[t])
    BY <1>2, <1>6 DEF Timed, TypeOK
  <2>3. want[t] > value
    BY <1>2, <1>6
  <2>4. Promise!Refuse(t)
    BY <1>3, <1>6, <2>1, <2>2, <2>3, PromiseRefuses
  <2>5. QED
    BY <2>4 DEF Promise!Next
<1>7. CASE /\ waitq' = AddTail(waitq, Server, t)
           /\ UNCHANGED <<server, counter, import, pc, call, p2, held, up, down>>
  <2>1. OnlyMoves(t, TRUE)
    BY <1>1, <1>2, <1>7, LinkedQueues
  <2>2. UNCHANGED <<value, want, limit, timedOut, pc, p2, down>>
    BY <1>7 DEF server, call
  <2>3. Beside(t)
    BY <2>1, <2>2 DEF Beside, OnlyMoves
  <2>4. Asks(t)'
    BY <1>1, <2>2 DEF Asks
  <2>5. AsksStay
    BY <1>3, <2>3, <2>4, BesideStays, StayAll
  <2>6. QED
    BY <2>2, <2>5, PromiseIdles
<1>8. QED
  BY <1>5, <1>6, <1>7 DEF LocalSection

-----------------------------------------------------------------------------
(* The messages, as steps of Counting.                                        *)

\* Answers and notifications that arrive decide nothing.
LEMMA AckIdles ==
  ASSUME IInv, SafeUse, NEW t \in Task, Home[t] \in Client, NEW m, NEW ok, NEW E,
         Arrives(Home[t], m, ok, E), TypeOK', Beside(t),
         UNCHANGED <<value, want, limit, timedOut, pc>>,
         IF Asleep(t) /\ p2[t] = m.seq
           THEN IF ok \/ ~m.wait THEN ~Asleep(t)' /\ p2'[t] = IF ok THEN 1 ELSE 0
                ELSE Asleep(t)' /\ p2'[t] = Parked
           ELSE (Asleep(t)' <=> Asleep(t)) /\ p2'[t] = p2[t]
  PROVE  UNCHANGED Promise!vars
<1> DEFINE c == Home[t]
           D == down[c]
<1>1. /\ TypeOK /\ RequestInv(t) /\ CallInv(t)
  BY TaskFacts
<1>2. /\ m \in Request /\ ok \in BOOLEAN /\ down'[c] = E
      /\ \A y : Contains(D, y) <=> y = AckOf(m, ok) \/ Contains(E, y)
      /\ \A x \in Request : Out(c, x) <=> x = m \/ Out(c, x)'
  BY DEF Arrives
<1>3. \A x \in Request, o \in BOOLEAN :
        Contains(D, AckOf(x, o)) <=> (x = m /\ (o <=> ok)) \/ Contains(E, AckOf(x, o))
  BY <1>2, AckOfIs
<1>4. Fits(t, m)
  BY <1>1, <1>2 DEF RequestInv
<1>5. /\ Asks(t) <=> pc[t] = "test" /\ AsksBy(Asleep(t), D, p2[t], timedOut[t])
      /\ Asks(t)' <=> pc[t] = "test" /\ AsksBy(Asleep(t)', E, p2'[t], timedOut[t])
  BY <1>1, <1>2, AsksIs, AsksNext
<1>6. CASE ~(Asleep(t) /\ p2[t] = m.seq)
  <2>1. m.cmd # "test"
    BY <1>4, <1>6 DEF Fits, TestFits
  <2>2. \A s : (Granting(D, s) <=> Granting(E, s)) /\ (Refusing(D, s) <=> Refusing(E, s))
    BY <1>3, <2>1 DEF Granting, Refusing
  <2>3. Asks(t)' <=> Asks(t)
    BY <1>5, <1>6, <2>2 DEF AsksBy
  <2>4. QED
    BY <2>3, BesideStays, StayAll, PromiseIdles
<1>7. CASE Asleep(t) /\ p2[t] = m.seq
  <2>1. LinkedFor(t, m) /\ \A x \in Request : ~Out(c, x)'
    BY <1>7, AckIsLast
  <2>2. \A x \in Request, o \in BOOLEAN : ~Contains(E, AckOf(x, o))
    BY <1>2, <2>1 DEF Out, Asked
  <2>3. ASSUME pc[t] = "test" PROVE Asks(t)' <=> Asks(t)
    <3>1. m.cmd = "test" /\ (m.wait <=> limit[t] # "zero") /\ (timedOut[t] <=> limit[t] = "zero")
      BY <1>1, <1>4, <2>1, <2>3 DEF LinkedFor, Fits, TestFits, CallInv
    <3>2. Granting(D, p2[t]) <=> ok
      BY <1>2, <1>3, <1>7, <2>2, <3>1 DEF Granting
    <3>3. Refusing(D, p2[t]) <=> ~ok /\ ~m.wait
      BY <1>2, <1>3, <1>7, <2>2, <3>1 DEF Refusing
    <3>4. \A s : ~Granting(E, s) /\ ~Refusing(E, s)
      BY <2>2 DEF Granting, Refusing
    <3>5. CASE ok
      BY <1>5, <1>7, <2>3, <3>2, <3>5 DEF AsksBy
    <3>6. CASE ~ok /\ ~m.wait
      BY <1>5, <1>7, <2>3, <3>1, <3>3, <3>6 DEF AsksBy
    <3>7. CASE ~ok /\ m.wait
      BY <1>5, <1>7, <2>3, <3>2, <3>3, <3>4, <3>7 DEF AsksBy
    <3>8. QED
      BY <3>5, <3>6, <3>7
  <2>4. Asks(t)' <=> Asks(t)
    BY <1>5, <2>3
  <2>5. QED
    BY <2>4, BesideStays, StayAll, PromiseIdles
<1>8. QED
  BY <1>6, <1>7

LEMMA NobodyIdles ==
  ASSUME IInv, NEW c \in Client, \A t \in Task : Home[t] # c, ClientReceives(c)
  PROVE  UNCHANGED Promise!vars
<1>1. TypeOK /\ WaitqInv
  BY DEF IInv
<1>2. /\ Notify(c) /\ down' = [down EXCEPT ![c] = Tail(@)]
      /\ UNCHANGED <<value, pc, want, limit, timedOut>>
  <2>1. ~Ack(c)
    BY WithoutTask DEF Ack
  <2>2. QED
    BY <2>1 DEF ClientReceives, server, call
<1>3. \A u \in Task : p2'[u] = p2[u] /\ (Asleep(u)' <=> Asleep(u))
  <2>1. CASE import[c] = "no"
    BY <1>2, <2>1 DEF Notify, Asleep
  <2>2. CASE import[c] # "no"
    <3>1. /\ waitq' = [waitq EXCEPT ![c] = <<>>]
          /\ p2' = [u \in Task |-> IF Contains(waitq[c], u) THEN 0 ELSE p2[u]]
      BY <1>2, <2>2 DEF Notify
    <3>2. \A u \in Task : ~Contains(waitq[c], u)
      BY WithoutTask, EmptySeq DEF Contains
    <3>3. \A u \in Task : Asleep(u)' <=> Asleep(u) /\ Home[u] # c
      BY <1>1, <3>1, EmptiedQueues
    <3>4. QED
      BY <3>1, <3>2, <3>3
  <2>3. QED
    BY <2>1, <2>2
<1>4. \A u \in Task : Home[u] \in Client => down'[Home[u]] = down[Home[u]]
  BY <1>1, <1>2 DEF TypeOK
<1>5. ASSUME NEW u \in Task PROVE Asks(u)' <=> Asks(u)
  <2>1. CASE Home[u] \in Client
    BY <1>2, <1>3, <1>4, <2>1 DEF Asks, OnTheWay, Ending
  <2>2. CASE Home[u] \notin Client
    BY <1>2, <2>2 DEF Asks
  <2>3. QED
    BY <2>1, <2>2
<1>6. QED
  BY <1>2, <1>5, PromiseIdles DEF AsksStay

LEMMA NotifyIdles ==
  ASSUME IInv, SafeUse, NEW t \in Task, Home[t] \in Client,
         ClientReceives(Home[t]), Notify(Home[t])
  PROVE  UNCHANGED Promise!vars
<1> DEFINE c == Home[t]
           D == down[c]
           E == Tail(D)
<1>1. /\ TypeOK /\ WaitqInv /\ CallInv(t) /\ NotifyInv(t) /\ D \in Seq(Response)
  BY TaskFacts
<1>2. /\ D # <<>> /\ Head(D).type = "notify" /\ down' = [down EXCEPT ![c] = Tail(@)]
      /\ IF import[c] = "no" THEN UNCHANGED <<waitq, p2>>
         ELSE /\ waitq' = [waitq EXCEPT ![c] = <<>>]
              /\ p2' = [u \in Task |-> IF Contains(waitq[c], u) THEN 0 ELSE p2[u]]
      /\ UNCHANGED <<value, import, pc, want, limit, timedOut>>
  BY DEF ClientReceives, Notify, server, call
<1>3. TypeOK'
  BY NotifyKeeps DEF IInv
<1>4. \A u \in Task \ {t} : Home[u] # c /\ ~Contains(waitq[c], u)
  <2>1. \A u \in Task \ {t} : Home[u] # c
    BY DEF SafeUse
  <2>2. QED
    BY <1>1, <2>1, Homes DEF WaitqInv, Links
<1>5. \A u \in Task \ {t} : p2'[u] = p2[u] /\ (Asleep(u)' <=> Asleep(u))
  <2>1. CASE import[c] = "no"
    BY <1>2, <2>1 DEF Asleep
  <2>2. CASE import[c] # "no"
    <3>1. \A u \in Task : Asleep(u)' <=> Asleep(u) /\ Home[u] # c
      BY <1>1, <1>2, <2>2, EmptiedQueues
    <3>2. QED
      BY <1>2, <1>4, <2>2, <3>1
  <2>3. QED
    BY <2>1, <2>2
<1>6. Beside(t)
  <2>1. \A u \in Task \ {t} : Home[u] \in Client => down'[Home[u]] = down[Home[u]]
    BY <1>1, <1>2, <1>4 DEF TypeOK
  <2>2. QED
    BY <1>2, <1>5, <2>1 DEF Beside
<1>7. ASSUME pc[t] = "test" PROVE Asks(t) /\ Asks(t)'
  <2>1. import[c] = "done" /\ (timedOut[t] <=> limit[t] = "zero")
    BY <1>1, <1>7 DEF CallInv
  <2>2. Head(D) = Notification
    BY <1>1, <1>2, AskedTold, ResponseCases
  <2>3. /\ Comes(c) /\ \A y : Contains(D, y) <=> y = Head(D) \/ Contains(E, y)
    BY <1>1, <1>2, <2>2, ContainsTail DEF Comes
  <2>4. \A y : ~Contains(E, y)
    <3>1. InTurn(TRUE, D)
      BY <1>1, <2>1 DEF NotifyInv
    <3>2. \A y : Contains(E, y) => Turn(TRUE, Head(D), y)
      BY <1>1, <1>2, <3>1, TurnTail
    <3>3. QED
      BY <2>2, <3>2 DEF Turn
  <2>5. \A x \in Request, o \in BOOLEAN : ~Contains(D, AckOf(x, o))
    BY <2>2, <2>3, <2>4, Responses
  <2>6. Waits(t)
    BY <1>1, <2>1, <2>3 DEF NotifyInv
  <2>7. Asleep(t) /\ limit[t] # "zero" /\ \A s : ~Granting(D, s) /\ ~Refusing(D, s)
    BY <2>5, <2>6 DEF Waits, Granting, Refusing
  <2>8. Asks(t)
    BY <1>1, <1>7, <2>7, AsksIs DEF AsksBy
  <2>9. ~Asleep(t)'
    BY <1>1, <1>2, <2>1, EmptiedQueues
  <2>10. p2'[t] = 0
    BY <1>2, <2>1, <2>7 DEF Asleep
  <2>11. AsksBy(Asleep(t)', down'[c], p2'[t], timedOut'[t])
    BY <1>2, <2>1, <2>7, <2>9, <2>10 DEF AsksBy
  <2>12. Asks(t)'
    BY <1>2, <1>3, <1>7, <2>11, AsksNext
  <2>13. QED
    BY <2>8, <2>12
<1>8. Asks(t)' <=> Asks(t)
  <2>1. pc[t] # "test" => ~Asks(t) /\ ~Asks(t)'
    BY <1>2 DEF Asks
  <2>2. QED
    BY <1>7, <2>1
<1>9. AsksStay
  BY <1>6, <1>8, BesideStays, StayAll
<1>10. QED
  BY <1>2, <1>9, PromiseIdles

LEMMA ClientReceivesIdles ==
  ASSUME IInv, SafeUse, NEW c \in Client, ClientReceives(c)
  PROVE  UNCHANGED Promise!vars
<1>1. CASE \A t \in Task : Home[t] # c
  BY <1>1, NobodyIdles
<1>2. ASSUME NEW t \in Task, Home[t] = c PROVE UNCHANGED Promise!vars
  <2>1. CASE Notify(c)
    BY <1>2, <2>1, NotifyIdles
  <2>2. CASE Ack(c)
    <3> DEFINE r == Head(down[c])
               m == r.to
               ok == r.ok
               i == SelectInSeq(waitq[c], LAMBDA u : p2[u] = r.to.seq)
    <3>1. /\ down[c] # <<>> /\ r.type = "ack" /\ down' = [down EXCEPT ![c] = Tail(@)]
          /\ UNCHANGED <<value, pc, want, limit, timedOut, up>>
          /\ IF i = 0 THEN UNCHANGED <<waitq, p2>>
             ELSE IF r.ok \/ ~r.to.wait
               THEN /\ waitq' = Unlinked(waitq, waitq[c][i])
                    /\ p2' = [p2 EXCEPT ![waitq[c][i]] = IF r.ok THEN 1 ELSE 0]
             ELSE p2' = [p2 EXCEPT ![waitq[c][i]] = Parked] /\ UNCHANGED waitq
      BY <2>2 DEF ClientReceives, Ack, server, call
    <3>2. IF Asleep(t) /\ p2[t] = r.to.seq THEN i # 0 /\ waitq[c][i] = t ELSE i = 0
      <4>1. i = Found(c, r.to.seq)
        BY DEF Found
      <4> HIDE DEF i, r
      <4>2. QED
        BY <1>2, <4>1, AckFinds DEF IInv
    <3>3. Arrives(c, m, ok, Tail(down[c]))
      BY <1>2, <3>1, AckArrives
    <3>4. TypeOK /\ WaitqInv /\ TypeOK'
      BY ClientReceivesKeeps DEF IInv
    <3> HIDE DEF i
    <3>5. CASE Asleep(t) /\ p2[t] = r.to.seq
      <4>1. IF ok \/ ~m.wait
              THEN /\ waitq' = Unlinked(waitq, t)
                   /\ p2' = [p2 EXCEPT ![t] = IF ok THEN 1 ELSE 0]
              ELSE p2' = [p2 EXCEPT ![t] = Parked] /\ UNCHANGED waitq
        BY <3>1, <3>2, <3>5
      <4> HIDE DEF m, ok
      <4>2. \A u \in Task \ {t} : p2'[u] = p2[u] /\ (Asleep(u)' <=> Asleep(u))
        <5>1. CASE ok \/ ~m.wait
          BY <3>4, <4>1, <5>1, UnlinkedQueues DEF OnlyMoves, TypeOK
        <5>2. CASE ~(ok \/ ~m.wait)
          BY <3>4, <4>1, <5>2 DEF Asleep, TypeOK
        <5>3. QED
          BY <5>1, <5>2
      <4>3. IF ok \/ ~m.wait THEN ~Asleep(t)' /\ p2'[t] = IF ok THEN 1 ELSE 0
            ELSE Asleep(t)' /\ p2'[t] = Parked
        <5>1. CASE ok \/ ~m.wait
          <6>1. ~Asleep(t)'
            BY <3>4, <4>1, <5>1, UnlinkedQueues DEF OnlyMoves
          <6>2. QED
            BY <3>4, <4>1, <5>1, <6>1 DEF TypeOK
        <5>2. CASE ~(ok \/ ~m.wait)
          BY <3>4, <3>5, <4>1, <5>2 DEF Asleep, TypeOK
        <5>3. QED
          BY <5>1, <5>2
      <4>4. Beside(t)
        <5>1. \A u \in Task \ {t} : Home[u] \in Client => down'[Home[u]] = down[Home[u]]
          BY <1>2, <3>1, <3>4 DEF TypeOK, SafeUse
        <5>2. QED
          BY <3>1, <4>2, <5>1 DEF Beside
      <4>5. Asleep(t) /\ p2[t] = m.seq
        BY <3>5 DEF m
      <4> HIDE DEF r
      <4>6. QED
        BY <1>2, <3>1, <3>3, <3>4, <4>3, <4>4, <4>5, AckIdles
    <3>6. CASE ~(Asleep(t) /\ p2[t] = r.to.seq)
      <4>1. UNCHANGED <<waitq, p2>>
        BY <3>1, <3>2, <3>6
      <4>2. \A u \in Task : p2'[u] = p2[u] /\ (Asleep(u)' <=> Asleep(u))
        BY <4>1 DEF Asleep
      <4>3. Beside(t)
        <5>1. \A u \in Task \ {t} : Home[u] \in Client => down'[Home[u]] = down[Home[u]]
          BY <1>2, <3>1, <3>4 DEF TypeOK, SafeUse
        <5>2. QED
          BY <3>1, <4>2, <5>1 DEF Beside
      <4>4. ~(Asleep(t) /\ p2[t] = m.seq)
        BY <3>6
      <4> HIDE DEF r, m, ok
      <4>5. QED
        BY <1>2, <3>1, <3>3, <3>4, <4>2, <4>3, <4>4, AckIdles
    <3>7. QED
      BY <3>5, <3>6
  <2>3. QED
    BY <2>1, <2>2 DEF ClientReceives
<1>3. QED
  BY <1>1, <1>2

\* A client is sent something else than the answer to a test.
SentOther(t, r) ==
  /\ pc'[t] = pc[t] /\ p2'[t] = p2[t] /\ timedOut'[t] = timedOut[t] /\ (Asleep(t)' <=> Asleep(t))
  /\ r \in Response /\ down'[Home[t]] = Append(down[Home[t]], r)
  /\ \A x \in Request, o \in BOOLEAN : x.cmd = "test" => AckOf(x, o) # r

LEMMA SentOtherStays ==
  ASSUME TypeOK, TypeOK', NEW t \in Task, Home[t] \in Client, NEW r, SentOther(t, r)
  PROVE  Asks(t)' <=> Asks(t)
<1> DEFINE D == down[Home[t]]
           E == Append(D, r)
<1>1. D \in Seq(Response) /\ r \in Response
  BY DEF TypeOK, SentOther
<1>2. \A y : Contains(E, y) <=> Contains(D, y) \/ y = r
  BY <1>1, ContainsAppend
<1>3. down'[Home[t]] = E
  BY DEF SentOther
<1> HIDE DEF D, E
<1>4. \A x \in Request, o \in BOOLEAN : x.cmd = "test" => AckOf(x, o) # r
  BY DEF SentOther
<1>5. \A s : (Granting(E, s) <=> Granting(D, s)) /\ (Refusing(E, s) <=> Refusing(D, s))
  BY <1>2, <1>4 DEF Granting, Refusing
<1>6. /\ Asks(t) <=> pc[t] = "test" /\ AsksBy(Asleep(t), D, p2[t], timedOut[t])
      /\ Asks(t)' <=> pc'[t] = "test" /\ AsksBy(Asleep(t)', E, p2'[t], timedOut'[t])
  BY <1>3, AsksIs, AsksNext DEF D
<1>7. /\ pc'[t] = pc[t] /\ p2'[t] = p2[t] /\ timedOut'[t] = timedOut[t]
      /\ Asleep(t)' <=> Asleep(t)
  BY DEF SentOther
<1>8. AsksBy(Asleep(t)', E, p2'[t], timedOut'[t]) <=> AsksBy(Asleep(t), D, p2[t], timedOut[t])
  BY <1>5, <1>7 DEF AsksBy
<1>9. QED
  BY <1>6, <1>7, <1>8

LEMMA NotifiedStays ==
  ASSUME TypeOK, TypeOK', NEW t \in Task, Home[t] \in Client, NEW C,
         pc'[t] = pc[t], p2'[t] = p2[t], timedOut'[t] = timedOut[t], Asleep(t)' <=> Asleep(t),
         down'[Home[t]] = Notified(C)[Home[t]]
  PROVE  Asks(t)' <=> Asks(t)
<1>1. down'[Home[t]] = IF Home[t] \in C THEN Append(down[Home[t]], Notification)
                       ELSE down[Home[t]]
  BY DEF Notified, Notification
<1>2. CASE Home[t] \in C
  <2>1. SentOther(t, Notification)
    BY <1>1, <1>2, Responses DEF SentOther
  <2>2. QED
    BY <2>1, SentOtherStays
<1>3. CASE Home[t] \notin C
  BY <1>1, <1>3 DEF Asks, OnTheWay, Ending
<1>4. QED
  BY <1>2, <1>3

LEMMA ExportIdles ==
  ASSUME IInv, Export
  PROVE  UNCHANGED Promise!vars
<1>1. /\ down' = Notified(Client)
      /\ UNCHANGED <<value, waitq, pc, want, limit, timedOut, p2>>
  BY DEF Export, call
<1>2. TypeOK /\ TypeOK'
  BY ExportKeeps DEF IInv
<1>3. ASSUME NEW u \in Task PROVE Asks(u)' <=> Asks(u)
  <2>1. CASE Home[u] \in Client
    BY <1>1, <1>2, <2>1, NotifiedStays DEF Asleep
  <2>2. CASE Home[u] \notin Client
    BY <1>1, <2>2 DEF Asks
  <2>3. QED
    BY <2>1, <2>2
<1>4. QED
  BY <1>1, <1>3, PromiseIdles DEF AsksStay

LEMMA ValueBound == TypeOK /\ UnitsKept => value <= Initial
BY UnitsBound

\* Units that a task of the server gives back.
LEMMA LocalSetGives ==
  ASSUME IInv, SafeUse, NEW t \in Task, NEW n \in Amount, LocalSet(t, n)
  PROVE  Promise!Give(n)
<1>1. /\ SetSemaphore(n) /\ down' = Notified(notifyMask)
      /\ UNCHANGED <<counter, import, pc, want, limit, timedOut, p2>>
  BY DEF LocalSet, call
<1>2. IInv'
  BY LocalSetKeeps
<1>3. TypeOK /\ TypeOK' /\ UnitsKept' /\ value \in Nat
  BY <1>2 DEF IInv, TypeOK
<1>4. /\ value' = value + n
      /\ \A u \in Task : Home[u] \in Client => (Asleep(u)' <=> Asleep(u))
  BY <1>1, SetSpares, AmountIsNumber
<1>5. value' <= Initial
  <2>1. (TypeOK /\ UnitsKept => value <= Initial)'
    BY ValueBound, PTL
  <2>2. QED
    BY <1>3, <2>1
<1>6. ASSUME NEW u \in Task PROVE Asks(u)' <=> Asks(u)
  <2>1. CASE Home[u] \in Client
    BY <1>1, <1>3, <1>4, <2>1, NotifiedStays
  <2>2. CASE Home[u] \notin Client
    BY <1>1, <2>2 DEF Asks
  <2>3. QED
    BY <2>1, <2>2
<1>7. QED
  BY <1>1, <1>3, <1>4, <1>5, <1>6, PromiseGives DEF AsksStay

\* Requests are decided when the server handles them.
LEMMA TestDecides ==
  ASSUME IInv, SafeUse, NEW c \in Client, NEW t \in Task, Home[t] = c,
         ServerReceives(c), Head(up[c]).cmd = "test"
  PROVE  Promise!Next \/ UNCHANGED Promise!vars
<1> DEFINE m == Head(up[c])
           D == down[c]
<1>1. /\ TypeOK /\ CallInv(t) /\ value \in Nat /\ up[c] \in Seq(Request)
      /\ D \in Seq(Response)
  BY TaskFacts
<1>2. TypeOK'
  BY ServerReceivesKeeps DEF IInv
<1>3. /\ up[c] # <<>> /\ SemTest(c, m)
      /\ UNCHANGED <<pc, want, limit, timedOut, p2>>
  BY DEF ServerReceives, call
<1>4. m \in Request /\ m.n \in Nat /\ m.wait \in BOOLEAN
  BY <1>1, <1>3, ContainsTail, RequestFields
<1>5. m.cmd = "test"
  OBVIOUS
<1>6. IsNext(c, m)
  BY <1>3 DEF IsNext
<1> HIDE DEF m
<1>7. /\ TestFits(t, m)
      /\ \A x \in Request, o \in BOOLEAN : Contains(D, AckOf(x, o)) => x.cmd # "test"
  BY <1>5, <1>6, NextFacts DEF Fits, Before
<1>8. /\ pc[t] = "test" /\ Asleep(t) /\ p2[t] = m.seq /\ m.n = want[t]
      /\ m.wait <=> limit[t] # "zero"
  BY <1>7 DEF TestFits
<1>9. Asks(t)
  <2>1. ~Granting(D, p2[t]) /\ ~Refusing(D, p2[t])
    BY <1>7 DEF Granting, Refusing
  <2>2. QED
    BY <1>1, <1>8, <2>1, AsksIs DEF AsksBy
<1>10. UNCHANGED waitq /\ \A u \in Task : Asleep(u)' <=> Asleep(u)
  BY <1>3 DEF SemTest, Asleep
<1>11. ASSUME NEW ok \in BOOLEAN, down' = [down EXCEPT ![c] = Append(@, AckOf(m, ok))]
       PROVE  OthersStay(t) /\ (Asks(t)' <=> ~ok /\ m.wait)
  <2>1. down'[c] = Append(D, AckOf(m, ok)) /\ \A h \in Client \ {c} : down'[h] = down[h]
    BY <1>1, <1>11 DEF TypeOK
  <2>2. Beside(t)
    <3>1. \A u \in Task \ {t} : Home[u] # c
      BY DEF SafeUse
    <3>2. QED
      BY <1>3, <1>10, <2>1, <3>1 DEF Beside
  <2> DEFINE E == Append(D, AckOf(m, ok))
  <2>3. \A y : Contains(E, y) <=> Contains(D, y) \/ y = AckOf(m, ok)
    BY <1>1, <1>4, Responses, ContainsAppend
  <2> HIDE DEF E
  <2>4. \A x \in Request, o \in BOOLEAN :
          x.cmd = "test" => (Contains(E, AckOf(x, o)) <=> x = m /\ (o <=> ok))
    BY <1>4, <1>7, <2>3, AckOfIs
  <2>5. (Granting(E, p2[t]) <=> ok) /\ (Refusing(E, p2[t]) <=> ~ok /\ ~m.wait)
    BY <1>4, <1>5, <1>8, <2>4 DEF Granting, Refusing
  <2>6. Asks(t)' <=> pc'[t] = "test" /\ AsksBy(Asleep(t)', E, p2'[t], timedOut'[t])
    BY <1>2, <2>1, AsksNext DEF E
  <2>7. Asks(t)' <=> ~ok /\ m.wait
    BY <1>3, <1>4, <1>8, <1>10, <2>5, <2>6 DEF AsksBy
  <2>8. QED
    BY <2>2, <2>7, BesideStays
<1>12. CASE value >= m.n
  <2>1. value' = value - m.n /\ down' = [down EXCEPT ![c] = Append(@, AckOf(m, TRUE))]
    BY <1>3, <1>12 DEF SemTest, Answered, AckOf
  <2>2. OthersStay(t) /\ ~Asks(t)'
    BY <1>11, <2>1
  <2>3. want[t] <= value /\ value' = value - want[t]
    BY <1>1, <1>4, <1>8, <1>12, <2>1
  <2>4. Promise!Grant(t)
    BY <1>3, <1>9, <2>2, <2>3, PromiseGrants
  <2>5. QED
    BY <2>4 DEF Promise!Next
<1>13. CASE ~(value >= m.n)
  <2>1. value' = value /\ down' = [down EXCEPT ![c] = Append(@, AckOf(m, FALSE))]
    BY <1>3, <1>13 DEF SemTest, Answered, AckOf
  <2>2. OthersStay(t) /\ (Asks(t)' <=> m.wait)
    BY <1>11, <2>1
  <2>3. CASE m.wait
    <3>1. AsksStay
      BY <1>9, <2>2, <2>3, StayAll
    <3>2. QED
      BY <1>3, <2>1, <3>1, PromiseIdles
  <2>4. CASE ~m.wait
    <3>1. limit[t] = "zero" /\ want[t] > value
      BY <1>1, <1>4, <1>8, <1>13, <2>4
    <3>2. Promise!Refuse(t)
      BY <1>3, <1>9, <2>1, <2>2, <2>4, <3>1, PromiseRefuses
    <3>3. QED
      BY <3>2 DEF Promise!Next
  <2>5. QED
    BY <2>3, <2>4
<1>14. QED
  BY <1>12, <1>13

LEMMA ProbeIdles ==
  ASSUME IInv, SafeUse, NEW c \in Client, NEW t \in Task, Home[t] = c,
         ServerReceives(c), Head(up[c]).cmd = "import"
  PROVE  UNCHANGED Promise!vars
<1> DEFINE m == Head(up[c])
<1>1. /\ TypeOK /\ up[c] \in Seq(Request) /\ down[c] \in Seq(Response)
  BY TaskFacts
<1>2. TypeOK'
  BY ServerReceivesKeeps DEF IInv
<1>3. /\ up[c] # <<>> /\ down' = [down EXCEPT ![c] = Append(@, AckOf(m, exported))]
      /\ UNCHANGED <<value, waitq, pc, want, limit, timedOut, p2>>
  BY DEF ServerReceives, ImportProbe, Answered, AckOf, call, server
<1>4. m \in Request
  BY <1>1, <1>3, ContainsTail
<1>5. m.cmd = "import" /\ exported \in BOOLEAN
  BY <1>1 DEF TypeOK
<1> HIDE DEF m
<1>6. /\ down'[c] = Append(down[c], AckOf(m, exported))
      /\ \A h \in Client \ {c} : down'[h] = down[h]
  BY <1>1, <1>3 DEF TypeOK
<1>7. SentOther(t, AckOf(m, exported))
  <2>1. AckOf(m, exported) \in Response
    BY <1>4, <1>5, Responses
  <2>2. \A x \in Request, o \in BOOLEAN : x.cmd = "test" => AckOf(x, o) # AckOf(m, exported)
    BY <1>4, <1>5, AckOfIs
  <2>3. QED
    BY <1>3, <1>6, <2>1, <2>2 DEF SentOther, Asleep
<1>8. Asks(t)' <=> Asks(t)
  BY <1>1, <1>2, <1>7, SentOtherStays
<1>9. Beside(t)
  <2>1. \A u \in Task \ {t} : Home[u] # c
    BY DEF SafeUse
  <2>2. QED
    BY <1>3, <1>6, <2>1 DEF Beside, Asleep
<1>10. QED
  BY <1>3, <1>8, <1>9, BesideStays, StayAll, PromiseIdles

LEMMA SetRequestGives ==
  ASSUME IInv, SafeUse, NEW c \in Client, NEW t \in Task, Home[t] = c,
         ServerReceives(c), Head(up[c]).cmd = "set"
  PROVE  Promise!Next
<1> DEFINE m == Head(up[c])
           n == m.n
           R == Notified(notifyMask)
<1>1. /\ TypeOK /\ up[c] \in Seq(Request) /\ down[c] \in Seq(Response) /\ value \in Nat
  BY TaskFacts
<1>2. IInv'
  BY ServerReceivesKeeps
<1>3. /\ up[c] # <<>> /\ SetSemaphore(n) /\ down' = Answered(R, c, m, TRUE)
      /\ UNCHANGED <<counter, import, pc, want, limit, timedOut, p2>>
  BY DEF ServerReceives, SemSet, call
<1>4. m \in Request
  BY <1>1, <1>3, ContainsTail
<1>5. m.cmd = "set" /\ IsNext(c, m)
  BY <1>3 DEF IsNext
<1> HIDE DEF m
<1>6. n \in Amount /\ c \notin notifyMask
  BY <1>5, NextFacts DEF Fits, SetFits
<1>7. R \in [Client -> Seq(Response)] /\ R[c] = down[c]
  BY <1>1, <1>6, NotifiedTypes DEF Notified
<1> HIDE DEF R, n
<1>8. /\ down'[c] = Append(down[c], AckOf(m, TRUE))
      /\ \A h \in Client \ {c} : down'[h] = R[h]
  <2>1. down' = [R EXCEPT ![c] = Append(R[c], AckOf(m, TRUE))]
    BY <1>3 DEF Answered, AckOf
  <2>2. QED
    BY <1>7, <2>1
<1>9. /\ value' = value + n
      /\ \A u \in Task : Home[u] \in Client => (Asleep(u)' <=> Asleep(u))
  BY <1>3, <1>6, SetSpares, AmountIsNumber
<1>10. TypeOK' /\ UnitsKept'
  BY <1>2 DEF IInv
<1>11. value' <= Initial
  <2>1. (TypeOK /\ UnitsKept => value <= Initial)'
    BY ValueBound, PTL
  <2>2. QED
    BY <1>10, <2>1
<1>12. ASSUME NEW u \in Task PROVE Asks(u)' <=> Asks(u)
  <2>1. CASE u = t
    <3>1. SentOther(t, AckOf(m, TRUE))
      <4>1. AckOf(m, TRUE) \in Response
        BY <1>4, Responses
      <4>2. \A x \in Request, o \in BOOLEAN : x.cmd = "test" => AckOf(x, o) # AckOf(m, TRUE)
        BY <1>4, <1>5, AckOfIs
      <4>3. QED
        BY <1>3, <1>8, <1>9, <4>1, <4>2 DEF SentOther
    <3>2. QED
      BY <1>1, <1>10, <2>1, <3>1, SentOtherStays
  <2>2. CASE u # t /\ Home[u] \in Client
    <3>1. Home[u] # c
      BY <2>2 DEF SafeUse
    <3>2. down'[Home[u]] = Notified(notifyMask)[Home[u]]
      BY <1>8, <2>2, <3>1 DEF R
    <3>3. QED
      BY <1>1, <1>3, <1>9, <1>10, <2>2, <3>2, NotifiedStays
  <2>3. CASE Home[u] \notin Client
    BY <1>3, <2>3 DEF Asks
  <2>4. QED
    BY <2>1, <2>2, <2>3
<1>13. Promise!Give(n)
  BY <1>1, <1>3, <1>6, <1>9, <1>11, <1>12, PromiseGives DEF AsksStay
<1>14. QED
  BY <1>6, <1>13 DEF Promise!Next

LEMMA ServerReceivesDecides ==
  ASSUME IInv, SafeUse, NEW c \in Client, ServerReceives(c)
  PROVE  Promise!Next \/ UNCHANGED Promise!vars
<1>1. PICK t \in Task : Home[t] = c
  <2>1. up[c] # <<>> /\ up[c] \in Seq(Request) /\ down[c] \in Seq(Response) /\ Senders
    BY DEF ServerReceives, IInv, TypeOK
  <2>2. 1 \in 1 .. Len(up[c])
    BY <2>1, EmptySeq
  <2>3. Out(c, up[c][1]) /\ up[c][1] \in Request
    BY <2>1, <2>2, AskedAt DEF Out
  <2>4. QED
    BY <2>1, <2>3 DEF Senders
<1>2. QED
  BY <1>1, TestDecides, ProbeIdles, SetRequestGives DEF ServerReceives

\* A promised step, or none.
LEMMA StepKeepsPromise ==
  ASSUME IInv, Timed, SafeUse, [Next]_vars
  PROVE  [Promise!Next]_(Promise!vars)
<1>1. CASE UNCHANGED vars
  <2>1. UNCHANGED <<value, waitq, pc, want, limit, timedOut, p2, down>>
    BY <1>1 DEF vars, server, call
  <2>2. \A u \in Task : Asks(u)' <=> Asks(u)
    BY <2>1 DEF Asks, OnTheWay, Ending, Asleep
  <2>3. QED
    BY <2>1, <2>2, PromiseIdles DEF AsksStay
<1>2. ASSUME NEW t \in Task, Import(t) \/ Continue(t)
      PROVE  Promise!Next \/ UNCHANGED Promise!vars
  BY <1>2, ImportIdles, ReturnIdles, RequestAgainIdles, LocalSectionDecides DEF Continue
<1>3. ASSUME NEW t \in Task, Timeout(t) PROVE Promise!Next
  BY <1>3, TimeoutExpires DEF Promise!Next
<1>4. ASSUME NEW t \in Task, NEW n \in Amount, NEW timeout \in Timeouts[t],
             RequestTest(t, n, timeout) \/ LocalTest(t, n, timeout)
      PROVE  Promise!Next
  <2>1. timeout \in {"zero", "ticks", "forever"}
    BY ImportExportAssumption
  <2>2. Promise!Ask(t, n, timeout)
    BY <1>4, RequestTestAsks, LocalTestAsks
  <2>3. QED
    BY <2>1, <2>2 DEF Promise!Next
<1>5. ASSUME NEW t \in Task, NEW n \in Amount, RequestSet(t, n)
      PROVE  UNCHANGED Promise!vars
  BY <1>5, RequestSetIdles
<1>6. ASSUME NEW t \in Task, NEW n \in Amount, LocalSet(t, n) PROVE Promise!Next
  BY <1>6, LocalSetGives DEF Promise!Next
<1>7. ASSUME NEW c \in Client, ClientReceives(c) PROVE UNCHANGED Promise!vars
  BY <1>7, ClientReceivesIdles
<1>8. ASSUME NEW c \in Client, ServerReceives(c)
      PROVE  Promise!Next \/ UNCHANGED Promise!vars
  BY <1>8, ServerReceivesDecides
<1>9. CASE Export
  BY <1>9, ExportIdles
<1>10. QED
  BY <1>1, <1>2, <1>3, <1>4, <1>5, <1>6, <1>7, <1>8, <1>9 DEF Next

\* The tasks of all threads see one counting semaphore, that of Counting: a test is
\* granted when the value covers it and refused only when it does not and its caller does
\* not wait (any longer), and what is set is there for all, although a decision, its message
\* and the wakening of the task lie apart.
THEOREM ImportExportKeepsPromise ==
  ASSUME SafeUse
  PROVE  Spec => KeepsPromise
<1>1. Init => Timed /\ Promise!Init
  <2> SUFFICES ASSUME Init PROVE Timed /\ Promise!Init
    OBVIOUS
  <2>1. TypeOK
    BY InitKeeps DEF IInv
  <2>2. pc = [t \in Task |-> "user"] /\ timedOut = [t \in Task |-> FALSE] /\ value = Initial
    BY DEF Init
  <2>3. Asking = {}
    BY <2>2 DEF Asking
  <2>4. QED
    BY <2>1, <2>2, <2>3 DEF Timed, Promise!Init, TypeOK
<1>2. IInv /\ Timed /\ [Next]_vars => Timed' /\ [Promise!Next]_(Promise!vars)
  <2> SUFFICES ASSUME IInv, Timed, [Next]_vars PROVE Timed' /\ [Promise!Next]_(Promise!vars)
    OBVIOUS
  <2>1. Timed'
    BY TimedKeeps DEF IInv
  <2>2. QED
    BY <2>1, StepKeepsPromise
<1>3. Spec => []IInv
  BY ImportExportInvariant
<1>4. QED
  BY <1>1, <1>2, <1>3, PTL DEF Spec, KeepsPromise, Promise!Spec
=============================================================================
