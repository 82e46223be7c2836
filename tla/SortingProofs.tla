---------------------------- MODULE SortingProofs ----------------------------
(***************************************************************************)
(* What sorting, filtering, looping and adding up do, for every finite set    *)
(* and every list.  Where a proof would be an induction, the smallest set, or *)
(* number, without the claimed property is shown not to exist.                *)
(***************************************************************************)
EXTENDS Sorting, FiniteSetsExt, FiniteSetTheorems, WellFoundedInduction, TLAPS

-----------------------------------------------------------------------------
(* Finite sets.                                                               *)

\* m is in B, and nothing below it is.
Smallest(m, B) == m \in B /\ \A u \in B : u \subseteq m => u = m

SubsetsOf(B, S) == \A T \in B : T \subseteq S

\* Among subsets of a finite set there is one that has none below it.
LEMMA SmallestSubset ==
  ASSUME NEW S, IsFiniteSet(S), NEW B, B # {}, SubsetsOf(B, S)
  PROVE  \E m : Smallest(m, B)
<1>0. B \in SUBSET (SUBSET S)
  BY DEF SubsetsOf
<1>1. IsWellFoundedOn(StrictSubsetOrdering(S), SUBSET S)
  BY FS_StrictSubsetOrderingWellFounded, FS_FiniteSubsetsOfFinite
<1>2. \E m \in B : \A u \in B : ~(<<u, m>> \in StrictSubsetOrdering(S))
  BY <1>0, <1>1, WFMin, Zenon
<1>3. ASSUME NEW m \in B, NEW u \in B, ~(<<u, m>> \in StrictSubsetOrdering(S)), u \subseteq m
      PROVE  u = m
  <2>1. u \in SUBSET S /\ m \in SUBSET S
    BY <1>0
  <2>2. <<u, m>> \in (SUBSET S) \X (SUBSET S) /\ <<u, m>>[1] = u /\ <<u, m>>[2] = m
    BY <2>1
  <2>3. SUFFICES ASSUME u # m PROVE <<u, m>> \in StrictSubsetOrdering(S)
    BY <1>3
  <2>4. <<u, m>>[1] \subseteq <<u, m>>[2] /\ <<u, m>>[1] # <<u, m>>[2]
    BY <1>3, <2>2, <2>3
  <2>5. \A y \in (SUBSET S) \X (SUBSET S) :
          y[1] \subseteq y[2] /\ y[1] # y[2] => y \in StrictSubsetOrdering(S)
    BY Zenon DEF StrictSubsetOrdering
  <2> DEFINE y == <<u, m>>
  <2>6. y \in (SUBSET S) \X (SUBSET S) /\ y[1] \subseteq y[2] /\ y[1] # y[2]
    BY <2>2, <2>4
  <2>7. y \in StrictSubsetOrdering(S)
    <3> HIDE DEF y
    <3> QED BY <2>5, <2>6, Zenon
  <2> QED BY <2>7
<1>4. PICK m \in B : \A u \in B : ~(<<u, m>> \in StrictSubsetOrdering(S))
  BY <1>2
<1>5. Smallest(m, B)
  BY <1>3, <1>4 DEF Smallest
<1> QED BY <1>5

\* A finite set of integers has a largest member.
LEMMA MaxIsMax ==
  ASSUME NEW S \in SUBSET Int, IsFiniteSet(S), S # {}
  PROVE  Max(S) \in S /\ \A x \in S : x <= Max(S)
<1> DEFINE Bad == {T \in SUBSET S : T # {} /\ ~ \E m \in T : \A x \in T : x <= m}
<1>1. CASE Bad = {}
  <2>1. \E m \in S : \A x \in S : x <= m
    <3>1. S \in SUBSET S /\ S \notin Bad
      BY <1>1
    <3> QED BY <3>1
  <2> QED BY <2>1 DEF Max
<1>2. CASE Bad # {}
  <2>1. PICK T : Smallest(T, Bad)
    <3>1. SubsetsOf(Bad, S)
      BY DEF SubsetsOf
    <3> HIDE DEF Bad
    <3> QED BY <1>2, <3>1, SmallestSubset
  <2>2. T \in SUBSET S /\ T # {} /\ ~ \E m \in T : \A x \in T : x <= m
    BY <2>1 DEF Smallest
  <2>3. PICK x \in T : TRUE
    BY <2>2
  <2>4. T \ {x} \notin Bad
    <3>1. T \in Bad /\ T \ {x} \subseteq T /\ T \ {x} # T
      BY <2>1, <2>3 DEF Smallest
    <3> HIDE DEF Bad
    <3> QED BY <2>1, <3>1 DEF Smallest
  <2>5. CASE T \ {x} = {}
    <3>1. \A y \in T : y = x
      BY <2>5
    <3> QED BY <2>2, <2>3, <3>1
  <2>6. CASE T \ {x} # {}
    <3>1. PICK m \in T \ {x} : \A y \in T \ {x} : y <= m
      BY <2>2, <2>4, <2>6
    <3>2. m \in Int /\ x \in Int
      BY <2>2, <2>3, <3>1
    <3>3. CASE x <= m
      BY <2>2, <3>1, <3>3
    <3>4. CASE m < x
      <4>1. \A y \in T : y \in Int /\ (y # x => y <= m)
        BY <2>2, <3>1
      <4>2. \A y \in T : y <= x
        BY <3>2, <3>4, <4>1
      <4> QED BY <2>2, <2>3, <4>2
    <3> QED BY <3>2, <3>3, <3>4
  <2> QED BY <2>5, <2>6
<1> QED BY <1>1, <1>2

\* A set of natural numbers has a smallest member.
LEMMA MinIsMin ==
  ASSUME NEW S \in SUBSET Nat, S # {}
  PROVE  Min(S) \in S /\ \A x \in S : Min(S) <= x
<1>1. \E m \in S : \A x \in S : ~(<<x, m>> \in OpToRel(<, Nat))
  BY WFMin, NatLessThanWellFounded, Zenon
<1>2. \A x, m \in S : ~(<<x, m>> \in OpToRel(<, Nat)) => ~(x < m)
  BY Zenon DEF OpToRel
<1>3. \E m \in S : \A x \in S : m <= x
  <2>1. \A x, m \in S : ~(x < m) => m <= x
    OBVIOUS
  <2> QED BY <1>1, <1>2, <2>1
<1> QED BY <1>3 DEF Min

-----------------------------------------------------------------------------
(* Sorting.                                                                   *)

\* before is a strict total order of S.
Orders(before, S) ==
  /\ \A c \in S : <<c, c>> \notin before
  /\ \A c, d, e \in S : <<c, d>> \in before /\ <<d, e>> \in before => <<c, e>> \in before
  /\ \A c, d \in S : c = d \/ <<c, d>> \in before \/ <<d, c>> \in before

\* Every element has a place of its own, behind exactly those before it.
LEMMA Places ==
  ASSUME NEW S, IsFiniteSet(S), NEW before, Orders(before, S)
  PROVE  \E p \in [S -> 1 .. Cardinality(S)] :
           /\ \A c \in S : Cardinality({d \in S : <<d, c>> \in before}) = p[c] - 1
           /\ \A c, d \in S : p[c] < p[d] <=> <<c, d>> \in before
           /\ \A c, d \in S : p[c] = p[d] => c = d
           /\ \A k \in 1 .. Cardinality(S) : \E c \in S : p[c] = k
<1> DEFINE B(c) == {d \in S : <<d, c>> \in before}
           n == Cardinality(S)
           p == [c \in S |-> Cardinality(B(c)) + 1]
<1>1. n \in Nat
  BY FS_CardinalityType
<1>2. ASSUME NEW c \in S
      PROVE  IsFiniteSet(B(c)) /\ Cardinality(B(c)) \in Nat /\ Cardinality(B(c)) < n
  <2>1. B(c) \in SUBSET S /\ c \notin B(c)
    BY DEF Orders
  <2>2. IsFiniteSet(B(c)) /\ Cardinality(B(c)) <= n /\ (n = Cardinality(B(c)) => S = B(c))
    BY <2>1, FS_Subset
  <2>3. Cardinality(B(c)) \in Nat
    BY <2>2, FS_CardinalityType
  <2>4. Cardinality(B(c)) # n
    BY <2>1, <2>2
  <2> HIDE DEF B, n
  <2> QED BY <1>1, <2>2, <2>3, <2>4
<1>3. ASSUME NEW c \in S, NEW d \in S, <<c, d>> \in before
      PROVE  Cardinality(B(c)) < Cardinality(B(d))
  <2>1. B(c) \in SUBSET B(d) /\ c \in B(d) /\ c \notin B(c)
    BY <1>3 DEF Orders
  <2>2. /\ Cardinality(B(c)) <= Cardinality(B(d))
        /\ Cardinality(B(d)) = Cardinality(B(c)) => B(d) = B(c)
    BY <1>2, <2>1, FS_Subset
  <2>3. Cardinality(B(c)) # Cardinality(B(d))
    BY <2>1, <2>2
  <2>4. Cardinality(B(c)) \in Nat /\ Cardinality(B(d)) \in Nat
    BY <1>2
  <2> HIDE DEF B, n
  <2> QED BY <2>2, <2>3, <2>4
<1>4. p \in [S -> 1 .. n]
  <2>1. ASSUME NEW c \in S PROVE Cardinality(B(c)) + 1 \in 1 .. n
    <3> HIDE DEF B, n
    <3> QED BY <1>1, <1>2
  <2> QED BY <2>1
<1>5. \A c \in S : Cardinality(B(c)) = p[c] - 1
  <2> SUFFICES ASSUME NEW c \in S PROVE Cardinality(B(c)) = p[c] - 1
    OBVIOUS
  <2>1. p[c] = Cardinality(B(c)) + 1
    OBVIOUS
  <2> HIDE DEF B, p
  <2> QED BY <1>2, <2>1
<1>6. \A c, d \in S : <<c, d>> \in before => p[c] < p[d]
  <2> SUFFICES ASSUME NEW c \in S, NEW d \in S, <<c, d>> \in before PROVE p[c] < p[d]
    OBVIOUS
  <2>1. p[c] = Cardinality(B(c)) + 1 /\ p[d] = Cardinality(B(d)) + 1
    OBVIOUS
  <2>2. Cardinality(B(c)) < Cardinality(B(d))
    BY <1>3
  <2> HIDE DEF B, p
  <2> QED BY <1>2, <2>1, <2>2
<1> HIDE DEF p
<1>7. \A c, d \in S : p[c] < p[d] => <<c, d>> \in before
  <2> SUFFICES ASSUME NEW c \in S, NEW d \in S, p[c] < p[d] PROVE <<c, d>> \in before
    OBVIOUS
  <2>1. p[c] \in Int /\ p[d] \in Int
    BY <1>4
  <2>2. c # d /\ ~(<<d, c>> \in before)
    BY <1>6, <2>1
  <2> QED BY <2>2 DEF Orders
<1>8. \A c, d \in S : p[c] = p[d] => c = d
  <2> SUFFICES ASSUME NEW c \in S, NEW d \in S, p[c] = p[d] PROVE c = d
    OBVIOUS
  <2>1. p[c] \in Int /\ p[d] \in Int
    BY <1>4
  <2>2. ~(<<c, d>> \in before) /\ ~(<<d, c>> \in before)
    BY <1>6, <2>1
  <2> QED BY <2>2 DEF Orders
<1>9. \A k \in 1 .. n : \E c \in S : p[c] = k
  <2>1. IsFiniteSet(1 .. n) /\ Cardinality(1 .. n) = n
    BY <1>1, FS_Interval
  <2>2. p \in Injection(S, 1 .. n)
    BY <1>4, <1>8 DEF Injection, IsInjective
  <2>3. p \in Surjection(S, 1 .. n)
    BY <2>1, <2>2, FS_Injection
  <2> QED BY <2>3 DEF Surjection
<1> QED BY <1>4, <1>5, <1>6, <1>7, <1>8, <1>9

\* Sorting answers every element once, each before those it is before.
LEMMA SortedIsSorted ==
  ASSUME NEW S, IsFiniteSet(S), NEW before, Orders(before, S)
  PROVE  /\ Sorted(S, before) \in Seq(S)
         /\ Distinct(Sorted(S, before))
         /\ Range(Sorted(S, before)) = S
         /\ \A c, d \in S :
              Index(Sorted(S, before), c) < Index(Sorted(S, before), d) <=> <<c, d>> \in before
<1> DEFINE s == Sorted(S, before)
           n == Cardinality(S)
<1>1. n \in Nat
  BY FS_CardinalityType
<1>2. PICK p \in [S -> 1 .. n] :
        /\ \A c \in S : Cardinality({d \in S : <<d, c>> \in before}) = p[c] - 1
        /\ \A c, d \in S : p[c] < p[d] <=> <<c, d>> \in before
        /\ \A c, d \in S : p[c] = p[d] => c = d
        /\ \A k \in 1 .. n : \E c \in S : p[c] = k
  BY Places
<1>3. ASSUME NEW k \in 1 .. n
      PROVE  (CHOOSE c \in S : Cardinality({d \in S : <<d, c>> \in before}) = k - 1) \in S
             /\ p[CHOOSE c \in S : Cardinality({d \in S : <<d, c>> \in before}) = k - 1] = k
  <2> DEFINE R(c) == Cardinality({d \in S : <<d, c>> \in before})
             x == CHOOSE c \in S : R(c) = k - 1
  <2>1. \E c \in S : R(c) = k - 1
    BY <1>2
  <2>2. x \in S /\ R(x) = k - 1
    BY <2>1
  <2>3. R(x) = p[x] - 1
    BY <1>2, <2>2
  <2>4. p[x] \in Int /\ k \in Int
    BY <1>2, <2>2
  <2>5. x \in S /\ p[x] = k
    <3> HIDE DEF R, x
    <3> QED BY <2>2, <2>3, <2>4
  <2> QED BY <2>5
<1>4. DOMAIN s = 1 .. n /\ \A k \in 1 .. n : s[k] \in S /\ p[s[k]] = k
  BY <1>3 DEF Sorted
<1>5. s = [k \in 1 .. n |-> s[k]]
  <2> DEFINE F(k) == CHOOSE c \in S : Cardinality({d \in S : <<d, c>> \in before}) = k - 1
  <2>1. s = [k \in 1 .. n |-> F(k)]
    BY DEF Sorted
  <2> HIDE DEF s, n, F
  <2> QED BY <2>1
<1> HIDE DEF s
<1>6. s \in [1 .. n -> S]
  BY <1>4, <1>5
<1>7. s \in Seq(S)
  BY <1>1, <1>6
<1>8. Distinct(s)
  BY <1>4 DEF Distinct
<1>9. ASSUME NEW c \in S
      PROVE  p[c] \in DOMAIN s /\ s[p[c]] = c
  <2>1. p[c] \in 1 .. n
    BY <1>2
  <2> QED BY <1>2, <1>4, <2>1
<1>10. Range(s) = S
  BY <1>4, <1>9 DEF Range
<1>11. ASSUME NEW c \in S
       PROVE  Index(s, c) = p[c]
  <2>1. \A i \in DOMAIN s : s[i] = c <=> i = p[c]
    BY <1>4, <1>9
  <2> QED BY <1>9, <2>1 DEF Index
<1>12. ASSUME NEW c \in S, NEW d \in S
       PROVE  Index(s, c) < Index(s, d) <=> <<c, d>> \in before
  <2>1. p[c] < p[d] <=> <<c, d>> \in before
    BY <1>2
  <2>2. Index(s, c) = p[c] /\ Index(s, d) = p[d]
    BY <1>11
  <2> QED BY <2>1, <2>2
<1> QED BY <1>7, <1>8, <1>10, <1>12 DEF s

\* The elements of S before c.
Ahead(S, before, c) == {d \in S : <<d, c>> \in before}

\* The place of an element is the number of those before it.
LEMMA SortedPlaces ==
  ASSUME NEW S, IsFiniteSet(S), NEW before, Orders(before, S)
  PROVE  /\ DOMAIN Sorted(S, before) = 1 .. Cardinality(S)
         /\ \A k \in 1 .. Cardinality(S) : \A c \in S :
              Sorted(S, before)[k] = c <=> Cardinality(Ahead(S, before, c)) = k - 1
<1> DEFINE s == Sorted(S, before)
           R(c) == Cardinality({d \in S : <<d, c>> \in before})
           n == Cardinality(S)
<1>0. DOMAIN s = 1 .. n
  BY DEF Sorted
<1>1. PICK p \in [S -> 1 .. n] :
        /\ \A c \in S : R(c) = p[c] - 1
        /\ \A c, d \in S : p[c] = p[d] => c = d
        /\ \A k \in 1 .. n : \E c \in S : p[c] = k
  BY Places
<1>2. n \in Nat
  BY FS_CardinalityType
<1>3. ASSUME NEW k \in 1 .. n
      PROVE  s[k] \in S /\ R(s[k]) = k - 1
  <2>1. s[k] = CHOOSE c \in S : R(c) = k - 1
    BY DEF Sorted
  <2>2. \E c \in S : R(c) = k - 1
    BY <1>1
  <2> HIDE DEF s, R
  <2> QED BY <2>1, <2>2
<1>4. ASSUME NEW k \in 1 .. n, NEW c \in S
      PROVE  s[k] = c <=> R(c) = k - 1
  <2>1. s[k] \in S /\ p[s[k]] - 1 = k - 1 /\ R(c) = p[c] - 1
    BY <1>1, <1>3
  <2>2. p[s[k]] \in Nat /\ p[c] \in Nat /\ k \in Nat
    BY <1>1, <1>2, <2>1
  <2> HIDE DEF s, R, n
  <2>3. p[s[k]] = k
    BY <2>1, <2>2
  <2> QED BY <1>1, <1>3, <2>1, <2>2, <2>3
<1> QED BY <1>0, <1>4 DEF Ahead

\* The first of the sorted elements has none before it.
LEMMA SortedFirst ==
  ASSUME NEW S, IsFiniteSet(S), NEW before, Orders(before, S)
  PROVE  /\ S = {} <=> Sorted(S, before) = <<>>
         /\ S # {} => /\ Sorted(S, before)[1] \in S
                      /\ \A c \in S : <<c, Sorted(S, before)[1]>> \notin before
<1> DEFINE s == Sorted(S, before)
<1>1. /\ s \in Seq(S) /\ Distinct(s) /\ Range(s) = S
      /\ \A c, d \in S : Index(s, c) < Index(s, d) <=> <<c, d>> \in before
  BY SortedIsSorted
<1> HIDE DEF s
<1>2. DOMAIN s = 1 .. Len(s) /\ Len(s) \in Nat /\ \A i \in DOMAIN s : s[i] \in S
  BY <1>1
<1>3. S = {} <=> s = <<>>
  <2>1. s = <<>> => Range(s) = {}
    BY DEF Range
  <2>2. S = {} => Len(s) = 0
    BY <1>2
  <2> QED BY <1>1, <2>1, <2>2
<1>4. ASSUME S # {}
      PROVE  s[1] \in S /\ \A c \in S : <<c, s[1]>> \notin before
  <2>1. 1 \in DOMAIN s
    BY <1>1, <1>2, <1>3, <1>4
  <2>2. Index(s, s[1]) = 1
    <3>1. \A i \in DOMAIN s : s[i] = s[1] <=> i = 1
      BY <1>1, <2>1 DEF Distinct
    <3> QED BY <2>1, <3>1 DEF Index
  <2>3. ASSUME NEW c \in S PROVE Index(s, c) \in DOMAIN s
    <3>1. \E i \in DOMAIN s : s[i] = c
      BY <1>1 DEF Range
    <3> QED BY <3>1 DEF Index
  <2>4. \A c \in S : ~(Index(s, c) < Index(s, s[1]))
    BY <1>2, <2>2, <2>3
  <2> QED BY <1>1, <1>2, <2>1, <2>4
<1> QED BY <1>3, <1>4 DEF s

\* Numbers are ordered by size.
LEMMA InOrderIs ==
  ASSUME NEW P \in SUBSET Nat, IsFiniteSet(P)
  PROVE  /\ Orders({p \in Pairs(P) : p[1] < p[2]}, P)
         /\ InOrder(P) \in [1 .. Cardinality(P) -> P]
         /\ Range(InOrder(P)) = P
         /\ \A i, j \in 1 .. Cardinality(P) : i < j => InOrder(P)[i] < InOrder(P)[j]
<1> DEFINE b == {p \in Pairs(P) : p[1] < p[2]}
           s == InOrder(P)
<1>1. \A c, d \in P : <<c, d>> \in b <=> c < d
  BY DEF Pairs
<1>2. Orders(b, P)
  <2> HIDE DEF b
  <2> QED BY <1>1 DEF Orders
<1>3. s = Sorted(P, b)
  BY DEF InOrder
<1> HIDE DEF b, s
<1>4. /\ s \in Seq(P) /\ Distinct(s) /\ Range(s) = P /\ DOMAIN s = 1 .. Cardinality(P)
      /\ \A c, d \in P : Index(s, c) < Index(s, d) <=> c < d
  BY <1>1, <1>2, <1>3, SortedIsSorted, SortedPlaces
<1>5. \A i \in DOMAIN s : Index(s, s[i]) = i
  <2> SUFFICES ASSUME NEW i \in DOMAIN s PROVE Index(s, s[i]) = i
    OBVIOUS
  <2>1. \A j \in DOMAIN s : s[j] = s[i] <=> j = i
    BY <1>4 DEF Distinct
  <2> QED BY <2>1 DEF Index
<1>6. \A i \in DOMAIN s : s[i] \in P
  BY <1>4 DEF Range
<1>7. s \in [1 .. Cardinality(P) -> P]
  BY <1>4, <1>6
<1>8. \A i, j \in 1 .. Cardinality(P) : i < j => s[i] < s[j]
  BY <1>4, <1>5, <1>6
<1> QED BY <1>2, <1>4, <1>7, <1>8 DEF b, s

Below(P, x) == {d \in P : d < x}

\* A number has its place by the number of those below it.
LEMMA InOrderPlaces ==
  ASSUME NEW P \in SUBSET Nat, IsFiniteSet(P)
  PROVE  \A k \in 1 .. Cardinality(P) : \A x \in P :
           InOrder(P)[k] = x <=> Cardinality(Below(P, x)) = k - 1
<1> DEFINE b == {p \in Pairs(P) : p[1] < p[2]}
<1>1. \A c, d \in P : <<c, d>> \in b <=> c < d
  BY DEF Pairs
<1>2. Orders(b, P)
  BY InOrderIs
<1>3. InOrder(P) = Sorted(P, b)
  BY DEF InOrder
<1> HIDE DEF b
<1>4. \A k \in 1 .. Cardinality(P) : \A x \in P :
        Sorted(P, b)[k] = x <=> Cardinality(Ahead(P, b, x)) = k - 1
  BY <1>2, SortedPlaces
<1>5. \A x \in P : Ahead(P, b, x) = Below(P, x)
  BY <1>1 DEF Ahead, Below
<1> QED BY <1>3, <1>4, <1>5

\* A number above all others is the last.
LEMMA InOrderGrows ==
  ASSUME NEW P \in SUBSET Nat, IsFiniteSet(P), NEW n \in Nat, \A p \in P : p < n
  PROVE  /\ Cardinality(P \cup {n}) = Cardinality(P) + 1
         /\ InOrder(P \cup {n}) = [k \in 1 .. Cardinality(P) + 1 |->
              IF k = Cardinality(P) + 1 THEN n ELSE InOrder(P)[k]]
<1> DEFINE Q == P \cup {n}
           m == Cardinality(P)
<1>1. n \notin P /\ IsFiniteSet(Q) /\ Cardinality(Q) = m + 1 /\ m \in Nat /\ Q \in SUBSET Nat
  BY FS_AddElement, FS_CardinalityType
<1>2. \A x \in P : Below(Q, x) = Below(P, x)
  <2>1. \A x \in P : x \in Nat /\ x < n
    OBVIOUS
  <2> QED BY <2>1 DEF Below
<1>3. Below(Q, n) = P
  <2>1. ~(n < n) /\ \A x \in P : x < n
    OBVIOUS
  <2>2. \A x : x \in Q <=> x \in P \/ x = n
    OBVIOUS
  <2> HIDE DEF Q
  <2>3. \A x : x \in Below(Q, n) <=> x \in Q /\ x < n
    BY DEF Below
  <2>4. \A x : x \in Below(Q, n) <=> x \in P
    BY <2>1, <2>2, <2>3, Zenon
  <2> QED BY <2>4
<1> HIDE DEF Q
<1>4. InOrder(P) \in [1 .. Cardinality(P) -> P] /\ InOrder(Q) \in [1 .. Cardinality(Q) -> Q]
  BY <1>1, InOrderIs
<1>5. \A k \in 1 .. Cardinality(P) : \A x \in P :
        InOrder(P)[k] = x <=> Cardinality(Below(P, x)) = k - 1
  BY InOrderPlaces
<1>6. \A k \in 1 .. Cardinality(Q) : \A x \in Q :
        InOrder(Q)[k] = x <=> Cardinality(Below(Q, x)) = k - 1
  BY <1>1, InOrderPlaces
<1>7. m = Cardinality(P) /\ n \in Q /\ P \subseteq Q
  BY DEF Q
<1> HIDE DEF m
<1>8. InOrder(Q)[m + 1] = n
  <2>1. n \in Q /\ m + 1 \in 1 .. m + 1 /\ Cardinality(P) = (m + 1) - 1
    BY <1>1, <1>7
  <2> QED BY <1>1, <1>3, <1>6, <2>1
<1>9. ASSUME NEW k \in 1 .. m
      PROVE  InOrder(Q)[k] = InOrder(P)[k]
  <2>1. InOrder(P)[k] \in P /\ k \in 1 .. m + 1
    BY <1>1, <1>4, <1>7
  <2>2. Cardinality(Below(P, InOrder(P)[k])) = k - 1
    BY <1>5, <1>7, <2>1
  <2> QED BY <1>1, <1>2, <1>6, <1>7, <2>1, <2>2
<1>10. \A k \in 1 .. m + 1 : InOrder(Q)[k] = IF k = m + 1 THEN n ELSE InOrder(P)[k]
  <2>1. \A k \in 1 .. m + 1 : k = m + 1 \/ k \in 1 .. m
    BY <1>1
  <2> QED BY <1>8, <1>9, <2>1
<1>11. DOMAIN InOrder(Q) = 1 .. m + 1
  BY <1>1, <1>4
<1>12. InOrder(Q) = [k \in 1 .. m + 1 |-> IF k = m + 1 THEN n ELSE InOrder(P)[k]]
  BY <1>1, <1>4, <1>10, <1>11
<1> QED BY <1>1, <1>12 DEF Q, m

\* No numbers at all.
LEMMA InOrderOfNone == InOrder({}) = <<>> /\ Cardinality({}) = 0
<1>1. Cardinality({}) = 0
  BY FS_EmptySet
<1>2. InOrder({}) \in [1 .. 0 -> {}]
  BY <1>1, InOrderIs, FS_EmptySet
<1> QED BY <1>1, <1>2

\* What is kept of l: what it has at the places, in their order.
Keeps(kept, l, P) ==
  /\ IsSequence(kept) /\ Cardinality(P) \in Nat
  /\ DOMAIN kept = 1 .. Cardinality(P) /\ Len(kept) = Cardinality(P)
  /\ \A k \in 1 .. Cardinality(P) : InOrder(P)[k] \in P /\ kept[k] = l[InOrder(P)[k]]
  /\ \A i \in P : \E k \in 1 .. Cardinality(P) : InOrder(P)[k] = i
  /\ kept = <<>> <=> P = {}

\* That is what filtering keeps.
LEMMA KeptIs ==
  ASSUME NEW l, NEW P \in SUBSET Nat, IsFiniteSet(P)
  PROVE  Keeps(Kept(l, P), l, P)
<1> DEFINE n == Cardinality(P)
           q == InOrder(P)
           s == Kept(l, P)
<1>1. n \in Nat /\ (n = 0 <=> P = {})
  BY FS_CardinalityType, FS_EmptySet
<1>2. q \in [1 .. n -> P] /\ Range(q) = P
  BY InOrderIs
<1>3. s = [k \in 1 .. n |-> l[q[k]]]
  BY DEF Kept
<1> HIDE DEF q, s, n
<1>4. \A i \in P : \E k \in 1 .. n : q[k] = i
  BY <1>2 DEF Range
<1>5. \A k \in 1 .. n : q[k] \in P /\ s[k] = l[q[k]]
  BY <1>2, <1>3
<1>6. s \in [1 .. n -> Range(s)] /\ DOMAIN s = 1 .. n
  BY <1>3 DEF Range
<1>7. IsSequence(s) /\ Len(s) = n
  BY <1>1, <1>6 DEF IsSequence
<1>8. s = <<>> <=> P = {}
  BY <1>1, <1>7 DEF IsSequence
<1> QED BY <1>1, <1>4, <1>5, <1>6, <1>7, <1>8 DEF Keeps, q, s, n

-----------------------------------------------------------------------------
(* Loops.                                                                    *)

\* What the loop has after each of its steps.
IsLoop(f, n, takes) ==
  f = [k \in 0 .. n |-> IF k = 0 THEN 0 ELSE IF <<k, f[k - 1]>> \in takes THEN k ELSE f[k - 1]]

\* The loop has something at each step, and LastTaken is what it has at its end.
LEMMA LoopExists ==
  ASSUME NEW n \in Nat, NEW takes
  PROVE  \E f : IsLoop(f, n, takes) /\ f[n] = LastTaken(n, takes)
<1> DEFINE Has(m) == \E f : IsLoop(f, m, takes)
           Bad == {m \in Nat : ~Has(m)}
<1>1. CASE Bad # {}
  <2> DEFINE m == Min(Bad)
  <2>1. m \in Bad /\ \A x \in Bad : m <= x
    BY <1>1, MinIsMin
  <2>2. m \in Nat /\ ~Has(m)
    BY <2>1
  <2> HIDE DEF m
  <2>3. m # 0
    <3> DEFINE f == [k \in 0 .. 0 |-> 0]
    <3>1. \A k \in 0 .. 0 : k = 0
      OBVIOUS
    <3>2. f = [k \in 0 .. 0 |-> IF k = 0 THEN 0
                                ELSE IF <<k, f[k - 1]>> \in takes THEN k ELSE f[k - 1]]
      BY <3>1
    <3>3. Has(0)
      <4> HIDE DEF f
      <4> QED BY <3>2 DEF IsLoop
    <3> QED BY <2>2, <3>3
  <2>4. m - 1 \in Nat /\ Has(m - 1)
    <3>1. m - 1 \in Nat /\ ~(m <= m - 1)
      BY <2>2, <2>3
    <3>2. m - 1 \notin Bad
      <4> HIDE DEF Bad
      <4> QED BY <2>1, <3>1
    <3> HIDE DEF Has
    <3> QED BY <3>1, <3>2
  <2>5. PICK f : IsLoop(f, m - 1, takes)
    BY <2>4
  <2> DEFINE g == [k \in 0 .. m |-> IF k = m THEN IF <<m, f[m - 1]>> \in takes THEN m ELSE f[m - 1]
                                    ELSE f[k]]
  <2>6. \A k \in 0 .. m - 1 :
          f[k] = IF k = 0 THEN 0 ELSE IF <<k, f[k - 1]>> \in takes THEN k ELSE f[k - 1]
    BY <2>5, Zenon DEF IsLoop
  <2>7. ASSUME NEW k \in 0 .. m
        PROVE  g[k] = IF k = 0 THEN 0 ELSE IF <<k, g[k - 1]>> \in takes THEN k ELSE g[k - 1]
    <3>1. CASE k = m
      <4>1. g[m] = (IF <<m, f[m - 1]>> \in takes THEN m ELSE f[m - 1])
        BY <2>2
      <4>2. m - 1 \in 0 .. m /\ m - 1 # m
        BY <2>2, <2>4
      <4>3. g[m - 1] = f[m - 1]
        BY <4>2
      <4> HIDE DEF g
      <4> QED BY <2>3, <3>1, <4>1, <4>3
    <3>2. CASE k # m /\ k = 0
      <4>1. g[0] = f[0] /\ 0 \in 0 .. m - 1
        BY <2>4, <3>2
      <4> HIDE DEF g
      <4> QED BY <2>6, <3>2, <4>1
    <3>3. CASE k # m /\ k # 0
      <4>1. k \in 0 .. m - 1 /\ k - 1 \in 0 .. m /\ k - 1 # m
        BY <2>2, <3>3
      <4>2. g[k] = f[k] /\ g[k - 1] = f[k - 1]
        BY <3>3, <4>1
      <4> HIDE DEF g
      <4> QED BY <2>6, <3>3, <4>1, <4>2
    <3> QED BY <3>1, <3>2, <3>3
  <2>8. DOMAIN g = 0 .. m /\ g = [k \in 0 .. m |-> g[k]]
    OBVIOUS
  <2>9. IsLoop(g, m, takes)
    <3> HIDE DEF g
    <3> QED BY <2>7, <2>8 DEF IsLoop
  <2> HIDE DEF g
  <2> QED BY <2>2, <2>9
<1>2. CASE Bad = {}
  <2>1. Has(n)
    <3>1. n \notin Bad
      BY <1>2
    <3> QED BY <3>1
  <2> DEFINE f == CHOOSE f : IsLoop(f, n, takes)
  <2>2. IsLoop(f, n, takes)
    BY <2>1
  <2>3. LastTaken(n, takes) = f[n]
    BY DEF LastTaken, IsLoop
  <2> HIDE DEF f
  <2> QED BY <2>2, <2>3
<1> QED BY <1>1, <1>2

\* What the loop takes can be compared: places of S, never a place with itself, and by
\* an order in which what is not better than something is no obstacle to it.
Compares(takes, S, n) ==
  /\ S \subseteq 1 .. n
  /\ \A i \in 1 .. n : <<i, 0>> \in takes <=> i \in S
  /\ \A i \in 1 .. n, j \in S : <<i, j>> \in takes => i \in S
  /\ \A i \in S : <<i, i>> \notin takes
  /\ \A i, j, k \in S : <<i, j>> \in takes /\ <<j, k>> \in takes => <<i, k>> \in takes
  /\ \A i, j, k \in S : <<i, k>> \in takes => <<i, j>> \in takes \/ <<j, k>> \in takes

\* What the loop ends with: the first of those that none of S is better than.
LEMMA LastTakenIs ==
  ASSUME NEW n \in Nat, NEW takes, NEW S, Compares(takes, S, n)
  PROVE  LET w == LastTaken(n, takes)
         IN /\ w = 0 <=> S = {}
            /\ w # 0 => /\ w \in S
                        /\ \A i \in S : <<i, w>> \notin takes
                        /\ \A i \in S : i < w => <<w, i>> \in takes
<1>1. PICK f : IsLoop(f, n, takes) /\ f[n] = LastTaken(n, takes)
  BY LoopExists
<1>2. \A k \in 0 .. n :
        f[k] = IF k = 0 THEN 0 ELSE IF <<k, f[k - 1]>> \in takes THEN k ELSE f[k - 1]
  BY <1>1, Zenon DEF IsLoop
<1> DEFINE Good(k) ==
      /\ f[k] = 0 => \A i \in S : ~(i <= k)
      /\ f[k] # 0 => /\ f[k] \in S /\ f[k] <= k
                     /\ \A i \in S : i <= k => <<i, f[k]>> \notin takes
                     /\ \A i \in S : i < f[k] => <<f[k], i>> \in takes
           Bad == {k \in 0 .. n : ~Good(k)}
<1>0. S \subseteq 1 .. n /\ S \subseteq Nat
  BY DEF Compares
<1>3. CASE Bad # {}
  <2> DEFINE k == Min(Bad)
  <2>1. k \in Bad /\ \A x \in Bad : k <= x
    <3>1. Bad \in SUBSET Nat
      OBVIOUS
    <3> HIDE DEF Bad
    <3> QED BY <1>3, <3>1, MinIsMin
  <2>2. k \in 0 .. n /\ ~Good(k)
    BY <2>1
  <2> HIDE DEF k
  <2>3. k # 0
    <3>1. f[0] = 0
      <4>1. 0 \in 0 .. n
        OBVIOUS
      <4> QED BY <1>2, <4>1
    <3>2. \A i \in S : ~(i <= 0)
      BY <1>0
    <3> QED BY <2>2, <3>1, <3>2
  <2>4. k - 1 \in 0 .. n /\ Good(k - 1)
    <3>1. k - 1 \in 0 .. n /\ ~(k <= k - 1)
      BY <2>2, <2>3
    <3>2. k - 1 \notin Bad
      <4> HIDE DEF Bad
      <4> QED BY <2>1, <3>1
    <3> HIDE DEF Good
    <3> QED BY <3>1, <3>2
  <2> DEFINE v == f[k - 1]
  <2>5. /\ v = 0 => \A i \in S : ~(i <= k - 1)
        /\ v # 0 => /\ v \in S /\ v <= k - 1
                    /\ \A i \in S : i <= k - 1 => <<i, v>> \notin takes
                    /\ \A i \in S : i < v => <<v, i>> \in takes
    BY <2>4
  <2>6. f[k] = IF <<k, v>> \in takes THEN k ELSE v
    BY <1>2, <2>2, <2>3
  <2> HIDE DEF v
  <2>7. /\ k \in 1 .. n
        /\ \A i \in S : i \in Nat /\ (i <= k => i = k \/ i <= k - 1) /\ (i < k => i <= k - 1)
    BY <1>0, <2>2, <2>3
  <2>8. CASE <<k, v>> \in takes
    <3>1. f[k] = k /\ k # 0 /\ k <= k
      BY <2>3, <2>6, <2>7, <2>8
    <3>2. k \in S
      BY <2>5, <2>7, <2>8 DEF Compares
    <3>3. ASSUME NEW i \in S, i <= k PROVE <<i, k>> \notin takes
      <4>1. CASE i = k
        BY <3>2, <4>1 DEF Compares
      <4>2. CASE i # k
        <5>1. i <= k - 1
          BY <2>7, <3>3, <4>2
        <5>2. v \in S /\ <<i, v>> \notin takes
          BY <2>5, <3>3, <5>1
        <5> QED BY <2>8, <3>2, <3>3, <5>2 DEF Compares
      <4> QED BY <4>1, <4>2
    <3>4. ASSUME NEW i \in S, i < k PROVE <<k, i>> \in takes
      <4>1. i <= k - 1
        BY <2>7, <3>4
      <4>2. v \in S /\ <<i, v>> \notin takes
        BY <2>5, <3>4, <4>1
      <4> QED BY <2>8, <3>2, <3>4, <4>2 DEF Compares
    <3>5. Good(k)
      BY <3>1, <3>2, <3>3, <3>4
    <3> QED BY <2>2, <3>5
  <2>9. CASE <<k, v>> \notin takes
    <3>1. f[k] = v
      BY <2>6, <2>9
    <3>2. ASSUME v = 0 PROVE \A i \in S : ~(i <= k)
      <4>1. k \notin S
        BY <2>7, <2>9, <3>2 DEF Compares
      <4> QED BY <2>5, <2>7, <3>2, <4>1
    <3>3. ASSUME v # 0 PROVE v <= k /\ \A i \in S : i <= k => <<i, v>> \notin takes
      <4>1. v \in Nat /\ v <= k - 1
        BY <2>5, <2>7, <3>3
      <4>2. v <= k
        BY <2>7, <4>1
      <4> QED BY <2>5, <2>7, <2>9, <3>3, <4>2
    <3>4. Good(k)
      BY <2>5, <3>1, <3>2, <3>3
    <3> QED BY <2>2, <3>4
  <2> QED BY <2>8, <2>9
<1>4. CASE Bad = {}
  <2>1. Good(n)
    <3>1. n \in 0 .. n /\ n \notin Bad
      BY <1>4
    <3> HIDE DEF Good
    <3> QED BY <3>1
  <2>2. \A i \in S : i <= n
    BY <1>0
  <2>3. 0 \notin S
    BY <1>0
  <2> QED BY <1>1, <2>1, <2>2, <2>3
<1> QED BY <1>3, <1>4

-----------------------------------------------------------------------------
(* Sums.                                                                      *)

Some(s) == CHOOSE x \in s : TRUE

\* f adds up the values of v, over the subsets of T.
IsSum(f, T, v) ==
  f = [s \in SUBSET T |-> IF s = {} THEN 0 ELSE v[Some(s)] + f[s \ {Some(s)}]]

Sum(T, v) == CHOOSE f : IsSum(f, T, v)

\* The library's sum is such a sum.
LEMMA SumFunctionIsSum ==
  ASSUME NEW v, NEW T
  PROVE  SumFunctionOnSet(v, T) = Sum(T, v)[T]
BY DEF SumFunctionOnSet, FoldFunctionOnSet, MapThenFoldSet, Sum, IsSum, Some

\* A chosen member, and the rest.
LEMMA SomeIsIn ==
  ASSUME NEW s, s # {}
  PROVE  Some(s) \in s /\ s \ {Some(s)} \subseteq s /\ s \ {Some(s)} # s
<1>1. Some(s) \in s
  BY DEF Some
<1> QED BY <1>1

\* What a sum does at one subset.
LEMMA SumAt ==
  ASSUME NEW f, NEW T, NEW v, IsSum(f, T, v), NEW s \in SUBSET T
  PROVE  f[s] = IF s = {} THEN 0 ELSE v[Some(s)] + f[s \ {Some(s)}]
BY Zenon DEF IsSum

\* Two sums agree where their reports do.
LEMMA SumsAgree ==
  ASSUME NEW f, NEW T, NEW v, IsSum(f, T, v),
         NEW g, NEW U, NEW w, IsSum(g, U, w),
         NEW s \in SUBSET T, s \in SUBSET U, IsFiniteSet(s),
         \A x \in s : v[x] = w[x]
  PROVE  f[s] = g[s]
<1> DEFINE Bad == {t \in SUBSET s : f[t] # g[t]}
<1>1. CASE Bad = {}
  <2>1. s \in SUBSET s /\ s \notin Bad
    BY <1>1
  <2> QED BY <2>1
<1>2. CASE Bad # {}
  <2>1. PICK t : Smallest(t, Bad)
    <3>1. SubsetsOf(Bad, s)
      BY DEF SubsetsOf
    <3> HIDE DEF Bad
    <3> QED BY <1>2, <3>1, SmallestSubset
  <2>2. t \in SUBSET s /\ f[t] # g[t]
    BY <2>1 DEF Smallest
  <2>3. /\ f[t] = IF t = {} THEN 0 ELSE v[Some(t)] + f[t \ {Some(t)}]
        /\ g[t] = IF t = {} THEN 0 ELSE w[Some(t)] + g[t \ {Some(t)}]
    <3>1. t \in SUBSET T /\ t \in SUBSET U
      BY <2>2
    <3> QED BY <3>1, SumAt
  <2>4. t # {}
    BY <2>2, <2>3
  <2>5. Some(t) \in t /\ t \ {Some(t)} \subseteq t /\ t \ {Some(t)} # t
    BY <2>4, SomeIsIn
  <2>6. t \ {Some(t)} \in SUBSET s
    BY <2>2, <2>5
  <2>7. t \ {Some(t)} \notin Bad
    <3> HIDE DEF Bad
    <3> QED BY <2>1, <2>5 DEF Smallest
  <2>8. f[t \ {Some(t)}] = g[t \ {Some(t)}]
    BY <2>6, <2>7
  <2>9. v[Some(t)] = w[Some(t)]
    BY <2>2, <2>5
  <2> QED BY <2>2, <2>3, <2>4, <2>8, <2>9
<1> QED BY <1>1, <1>2

\* Over a finite set there is a sum, and it is a natural number.
LEMMA SumExists ==
  ASSUME NEW T, IsFiniteSet(T), NEW v, \A x \in T : v[x] \in Nat
  PROVE  \E f \in [SUBSET T -> Nat] : IsSum(f, T, v)
<1> DEFINE Has(s) == \E f \in [SUBSET s -> Nat] : IsSum(f, s, v)
           Bad == {s \in SUBSET T : ~Has(s)}
<1>1. CASE Bad = {}
  <2>1. T \in SUBSET T /\ T \notin Bad
    BY <1>1
  <2> QED BY <2>1
<1>2. CASE Bad # {}
  <2>1. PICK s : Smallest(s, Bad)
    <3>1. SubsetsOf(Bad, T)
      BY DEF SubsetsOf
    <3> HIDE DEF Bad
    <3> QED BY <1>2, <3>1, SmallestSubset
  <2>2. s \in SUBSET T /\ ~Has(s)
    BY <2>1 DEF Smallest
  <2>3. ASSUME NEW u \in SUBSET s, u # s
        PROVE  Has(u)
    <3>1. u \in SUBSET T /\ u \notin Bad
      <4>1. u \subseteq s /\ u # s
        BY <2>3
      <4> HIDE DEF Bad
      <4> QED BY <2>1, <2>2, <4>1 DEF Smallest
    <3>2. \A z \in SUBSET T : z \notin Bad => Has(z)
      <4> HIDE DEF Has
      <4> QED OBVIOUS
    <3> HIDE DEF Bad, Has
    <3> QED BY <3>1, <3>2
  <2> DEFINE F(u) == CHOOSE f \in [SUBSET u -> Nat] : IsSum(f, u, v)
             rest(u) == u \ {Some(u)}
             g == [u \in SUBSET s |-> IF u = {} THEN 0 ELSE v[Some(u)] + F(rest(u))[rest(u)]]
  <2>4. ASSUME NEW u \in SUBSET s, u # s
        PROVE  F(u) \in [SUBSET u -> Nat] /\ IsSum(F(u), u, v)
    <3>1. Has(u)
      BY <2>3, <2>4
    <3> QED BY <3>1
  <2>5. ASSUME NEW u \in SUBSET s, u # {}
        PROVE  Some(u) \in u /\ Some(u) \in T /\ rest(u) \in SUBSET s /\ rest(u) # s
    <3>1. Some(u) \in u /\ rest(u) \subseteq u /\ rest(u) # u
      BY <2>5, SomeIsIn
    <3> HIDE DEF rest
    <3>2. rest(u) # s
      BY <3>1
    <3> QED BY <2>2, <3>1, <3>2
  <2>6. ASSUME NEW u \in SUBSET s
        PROVE  g[u] \in Nat /\ (u # s => g[u] = F(u)[u])
    <3>1. CASE u = {}
      <4>1. g[u] = 0
        BY <3>1
      <4>2. ASSUME u # s PROVE F(u)[u] = 0
        <5>1. IsSum(F(u), u, v) /\ u \in SUBSET u
          BY <2>4, <4>2
        <5> HIDE DEF F
        <5> QED BY <3>1, <5>1, SumAt
      <4> QED BY <4>1, <4>2
    <3>2. CASE u # {}
      <4>1. g[u] = v[Some(u)] + F(rest(u))[rest(u)]
        BY <3>2
      <4>2. Some(u) \in u /\ Some(u) \in T /\ rest(u) \in SUBSET s /\ rest(u) # s /\ rest(u) \in SUBSET u
        BY <2>5, <3>2
      <4>3. F(rest(u)) \in [SUBSET rest(u) -> Nat] /\ IsSum(F(rest(u)), rest(u), v)
        <5> HIDE DEF F, rest
        <5> QED BY <2>4, <4>2
      <4>4. F(rest(u))[rest(u)] \in Nat
        <5> HIDE DEF F, rest
        <5>1. rest(u) \in SUBSET rest(u)
          OBVIOUS
        <5> QED BY <4>3, <5>1
      <4>5. ASSUME u # s PROVE F(u)[u] = v[Some(u)] + F(rest(u))[rest(u)]
        <5>1. IsSum(F(u), u, v) /\ u \in SUBSET u
          BY <2>4, <4>5
        <5>2. F(u)[u] = v[Some(u)] + F(u)[rest(u)]
          <6> HIDE DEF F
          <6> QED BY <3>2, <5>1, SumAt
        <5>3. F(u)[rest(u)] = F(rest(u))[rest(u)]
          <6>1. IsFiniteSet(rest(u))
            <7>1. rest(u) \in SUBSET T
              BY <2>2, <4>2
            <7> HIDE DEF rest
            <7> QED BY <7>1, FS_Subset
          <6>2. rest(u) \in SUBSET rest(u) /\ rest(u) \in SUBSET u
            BY <4>2
          <6> HIDE DEF F, rest
          <6> QED BY <4>3, <5>1, <6>1, <6>2, SumsAgree
        <5> QED BY <5>2, <5>3
      <4>6. v[Some(u)] \in Nat
        BY <4>2
      <4>7. v[Some(u)] + F(rest(u))[rest(u)] \in Nat
        <5> HIDE DEF F, rest
        <5> QED BY <4>4, <4>6
      <4> HIDE DEF F, rest, g
      <4> QED BY <4>1, <4>5, <4>7
    <3> QED BY <3>1, <3>2
  <2>7. g \in [SUBSET s -> Nat]
    <3>1. \A u \in SUBSET s : g[u] \in Nat
      BY <2>6
    <3> QED BY <3>1
  <2>8. \A u \in SUBSET s :
          g[u] = IF u = {} THEN 0 ELSE v[Some(u)] + g[u \ {Some(u)}]
    <3> SUFFICES ASSUME NEW u \in SUBSET s
                 PROVE  g[u] = IF u = {} THEN 0 ELSE v[Some(u)] + g[rest(u)]
      OBVIOUS
    <3>0. CASE u = {}
      BY <3>0
    <3> SUFFICES ASSUME u # {} PROVE g[u] = v[Some(u)] + g[rest(u)]
      BY <3>0
    <3>1. rest(u) \in SUBSET s /\ rest(u) # s
      BY <2>5
    <3>2. g[u] = v[Some(u)] + F(rest(u))[rest(u)]
      <4> HIDE DEF F, rest
      <4> QED OBVIOUS
    <3> HIDE DEF F, rest, g
    <3> QED BY <2>6, <3>1, <3>2
  <2>9. IsSum(g, s, v)
    <3> HIDE DEF g
    <3> QED BY <2>7, <2>8 DEF IsSum
  <2> QED
    <3> HIDE DEF g
    <3> QED BY <2>2, <2>7, <2>9
<1> QED BY <1>1, <1>2

\* f has the sums of v over every subset of T.
Sums(f, T, v) ==
  /\ f \in [SUBSET T -> Nat]
  /\ IsSum(f, T, v)
  /\ \A S \in SUBSET T : f[S] = SumFunctionOnSet(v, S)

\* The sums of natural numbers are natural numbers.
LEMMA SumsExist ==
  ASSUME NEW T, IsFiniteSet(T), NEW v, \A x \in T : v[x] \in Nat
  PROVE  \E f : Sums(f, T, v)
<1>1. PICK f \in [SUBSET T -> Nat] : IsSum(f, T, v)
  BY SumExists
<1>2. ASSUME NEW S \in SUBSET T
      PROVE  f[S] = SumFunctionOnSet(v, S)
  <2>1. IsFiniteSet(S) /\ \A x \in S : v[x] \in Nat
    BY FS_Subset
  <2>2. PICK g \in [SUBSET S -> Nat] : IsSum(g, S, v)
    BY <2>1, SumExists
  <2>3. IsSum(Sum(S, v), S, v)
    BY <2>2 DEF Sum
  <2>4. S \in SUBSET S
    OBVIOUS
  <2>5. Sum(S, v)[S] = f[S]
    BY <1>1, <2>1, <2>3, <2>4, SumsAgree
  <2> QED BY <2>5, SumFunctionIsSum
<1> QED BY <1>1, <1>2 DEF Sums

\* A sum of natural numbers is one.
LEMMA SumType ==
  ASSUME NEW T, IsFiniteSet(T), NEW v, \A x \in T : v[x] \in Nat
  PROVE  SumFunctionOnSet(v, T) \in Nat
<1>1. PICK f : Sums(f, T, v)
  BY SumsExist
<1>2. T \in SUBSET T
  OBVIOUS
<1> QED BY <1>1, <1>2 DEF Sums

\* Equal values have equal sums.
LEMMA SumSame ==
  ASSUME NEW T, IsFiniteSet(T), NEW v, NEW w,
         \A x \in T : v[x] \in Nat,
         \A x \in T : v[x] = w[x]
  PROVE  SumFunctionOnSet(v, T) = SumFunctionOnSet(w, T)
<1>1. PICK f : Sums(f, T, v)
  BY SumsExist
<1>2. \A x \in T : w[x] \in Nat
  OBVIOUS
<1>3. PICK g : Sums(g, T, w)
  BY <1>2, SumsExist
<1>4. T \in SUBSET T
  OBVIOUS
<1>5. f[T] = g[T]
  BY <1>1, <1>3, <1>4, SumsAgree DEF Sums
<1> QED BY <1>1, <1>3, <1>4, <1>5 DEF Sums

\* A sum is any one of its values and the sum of the others.
LEMMA SumOfRest ==
  ASSUME NEW T, IsFiniteSet(T), NEW v, \A x \in T : v[x] \in Nat, NEW y \in T
  PROVE  SumFunctionOnSet(v, T) = v[y] + SumFunctionOnSet(v, T \ {y})
<1>1. PICK f : Sums(f, T, v)
  BY SumsExist
<1> DEFINE Bad == {t \in SUBSET T : \E x \in t : f[t] # v[x] + f[t \ {x}]}
<1>2. CASE Bad = {}
  <2>1. T \in SUBSET T /\ T \notin Bad
    BY <1>2
  <2>2. f[T] = v[y] + f[T \ {y}]
    BY <2>1
  <2>3. T \ {y} \in SUBSET T
    OBVIOUS
  <2> QED BY <1>1, <2>1, <2>2, <2>3 DEF Sums
<1>3. CASE Bad # {}
  <2>1. PICK t : Smallest(t, Bad)
    <3>1. SubsetsOf(Bad, T)
      BY DEF SubsetsOf
    <3> HIDE DEF Bad
    <3> QED BY <1>3, <3>1, SmallestSubset
  <2>2. t \in SUBSET T
    BY <2>1 DEF Smallest
  <2>3. PICK x \in t : f[t] # v[x] + f[t \ {x}]
    BY <2>1 DEF Smallest
  <2> DEFINE z == Some(t)
  <2>4. z \in t
    BY <2>3, SomeIsIn
  <2>5. f[t] = v[z] + f[t \ {z}]
    BY <1>1, <2>2, <2>3, SumAt DEF Sums
  <2> HIDE DEF z
  <2>6. x # z
    BY <2>3, <2>5
  <2>7. ASSUME NEW a \in t, NEW b \in t, a # b
        PROVE  f[t \ {a}] = v[b] + f[t \ {a, b}]
    <3>1. t \ {a} \in SUBSET T /\ t \ {a} \subseteq t /\ t \ {a} # t /\ b \in t \ {a}
      BY <2>2, <2>7
    <3>2. t \ {a} \notin Bad
      <4> HIDE DEF Bad
      <4> QED BY <2>1, <3>1 DEF Smallest
    <3>3. f[t \ {a}] = v[b] + f[(t \ {a}) \ {b}]
      BY <3>1, <3>2
    <3>4. (t \ {a}) \ {b} = t \ {a, b}
      OBVIOUS
    <3> QED BY <3>3, <3>4
  <2>8. t \ {x, z} = t \ {z, x}
    OBVIOUS
  <2>9. f[t \ {z}] = v[x] + f[t \ {z, x}] /\ f[t \ {x}] = v[z] + f[t \ {z, x}]
    BY <2>4, <2>6, <2>7, <2>8
  <2>10. v[x] \in Nat /\ v[z] \in Nat /\ f[t \ {z, x}] \in Nat
    <3>1. t \ {z, x} \in SUBSET T
      BY <2>2
    <3> QED BY <1>1, <2>2, <2>4, <3>1 DEF Sums
  <2> HIDE DEF Bad
  <2> QED BY <2>3, <2>5, <2>9, <2>10
<1> QED BY <1>2, <1>3

\* A part has at most the sum of the whole.
LEMMA SumGrows ==
  ASSUME NEW T, IsFiniteSet(T), NEW v, \A x \in T : v[x] \in Nat, NEW S \in SUBSET T
  PROVE  SumFunctionOnSet(v, S) <= SumFunctionOnSet(v, T)
<1> DEFINE Bad == {t \in SUBSET T :
                    S \subseteq t /\ ~(SumFunctionOnSet(v, S) <= SumFunctionOnSet(v, t))}
<1>1. CASE Bad = {}
  <2>1. T \in SUBSET T /\ T \notin Bad
    BY <1>1
  <2> QED BY <2>1
<1>2. CASE Bad # {}
  <2>1. PICK t : Smallest(t, Bad)
    <3>1. SubsetsOf(Bad, T)
      BY DEF SubsetsOf
    <3> HIDE DEF Bad
    <3> QED BY <1>2, <3>1, SmallestSubset
  <2>2. /\ t \in SUBSET T /\ S \subseteq t
        /\ ~(SumFunctionOnSet(v, S) <= SumFunctionOnSet(v, t))
    BY <2>1 DEF Smallest
  <2>3. \A U \in SUBSET T : SumFunctionOnSet(v, U) \in Nat
    <3> SUFFICES ASSUME NEW U \in SUBSET T PROVE SumFunctionOnSet(v, U) \in Nat
      OBVIOUS
    <3>1. IsFiniteSet(U) /\ \A x \in U : v[x] \in Nat
      BY FS_Subset
    <3> QED BY <3>1, SumType
  <2>4. t # S
    BY <2>2, <2>3
  <2>5. PICK x \in t : x \notin S
    BY <2>2, <2>4
  <2> DEFINE u == t \ {x}
  <2>6. u \in SUBSET T /\ S \subseteq u /\ u \subseteq t /\ u # t
    BY <2>2, <2>5
  <2>7. SumFunctionOnSet(v, t) = v[x] + SumFunctionOnSet(v, u)
    <3>1. IsFiniteSet(t) /\ \A y \in t : v[y] \in Nat
      BY <2>2, FS_Subset
    <3> QED BY <2>5, <3>1, SumOfRest
  <2> HIDE DEF u
  <2>8. u \notin Bad
    <3> HIDE DEF Bad
    <3> QED BY <2>1, <2>6 DEF Smallest
  <2>9. SumFunctionOnSet(v, S) <= SumFunctionOnSet(v, u)
    BY <2>6, <2>8
  <2>10. v[x] \in Nat
    BY <2>2, <2>5
  <2> HIDE DEF Bad
  <2> QED BY <2>2, <2>3, <2>6, <2>7, <2>9, <2>10
<1> QED BY <1>1, <1>2
=============================================================================
