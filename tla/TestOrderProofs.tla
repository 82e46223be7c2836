--------------------------- MODULE TestOrderProofs ---------------------------
(***************************************************************************)
(* Proofs about TestOrder.  Two facts carry them: sorting by a strict total   *)
(* order puts every element behind exactly those before it (SortedIsSorted),  *)
(* and both comparators are such orders, the averages of the reports compared *)
(* crosswise included (SourceBeforeOrders, HistoryOrders).                    *)
(***************************************************************************)
EXTENDS TestOrder, SortingProofs

-----------------------------------------------------------------------------
(* The order by history.                                                      *)

\* Products of natural numbers.
LEMMA Times ==
  /\ \A x, y \in Nat : x * y \in Nat /\ x * y = y * x
  /\ \A x, y, z \in Nat : (x * y) * z = (x * z) * y
  /\ \A x, y, z \in Nat : x >= y => x * z >= y * z
  /\ \A x, y, z \in Nat : z > 0 /\ x > y => x * z > y * z
  /\ \A x, y, z \in Nat : z > 0 /\ x * z > y * z => x > y
  /\ \A x, y, z \in Nat : z > 0 /\ x * z = y * z => x = y
<1>1. \A x, y \in Nat : x * y \in Nat /\ x * y = y * x
  OBVIOUS
<1>2. \A x, y, z \in Nat : (x * y) * z = (x * z) * y
  OBVIOUS
<1>3. \A x, y, z \in Nat : x >= y => x * z >= y * z
  OBVIOUS
<1>4. \A x, y, z \in Nat : z > 0 /\ x > y => x * z > y * z
  OBVIOUS
<1>5. \A x, y, z \in Nat : z > 0 /\ x * z > y * z => x > y
  <2> SUFFICES ASSUME NEW x \in Nat, NEW y \in Nat, NEW z \in Nat, z > 0, x * z > y * z, ~(x > y)
               PROVE  FALSE
    OBVIOUS
  <2>1. y >= x
    OBVIOUS
  <2>2. y * z >= x * z
    BY <1>3, <2>1
  <2>3. x * z \in Nat /\ y * z \in Nat
    BY <1>1
  <2> QED BY <2>2, <2>3
<1>6. \A x, y, z \in Nat : z > 0 /\ x * z = y * z => x = y
  <2> SUFFICES ASSUME NEW x \in Nat, NEW y \in Nat, NEW z \in Nat, z > 0, x * z = y * z, x # y
               PROVE  FALSE
    OBVIOUS
  <2>1. x > y \/ y > x
    OBVIOUS
  <2>2. x * z > y * z \/ y * z > x * z
    BY <1>4, <2>1
  <2>3. x * z \in Nat /\ y * z \in Nat
    BY <1>1
  <2> QED BY <2>2, <2>3
<1> QED BY <1>1, <1>2, <1>3, <1>4, <1>5, <1>6

\* Averages compared crosswise are averages compared.
LEMMA Averages ==
  ASSUME NEW s1 \in Nat, NEW s2 \in Nat, NEW s3 \in Nat,
         NEW n1 \in Nat, NEW n2 \in Nat, NEW n3 \in Nat, n1 > 0, n2 > 0, n3 > 0
  PROVE  /\ s1 * n2 > s2 * n1 /\ s2 * n3 >= s3 * n2 => s1 * n3 > s3 * n1
         /\ s1 * n2 >= s2 * n1 /\ s2 * n3 > s3 * n2 => s1 * n3 > s3 * n1
         /\ s1 * n2 = s2 * n1 /\ s2 * n3 = s3 * n2 => s1 * n3 = s3 * n1
<1>1. /\ s1 * n2 \in Nat /\ s2 * n1 \in Nat /\ s2 * n3 \in Nat /\ s3 * n2 \in Nat
      /\ s1 * n3 \in Nat /\ s3 * n1 \in Nat
  BY Times
<1> DEFINE A == (s1 * n2) * n3
           B == (s2 * n1) * n3
           C == (s3 * n2) * n1
<1>2. /\ A = (s1 * n3) * n2 /\ C = (s3 * n1) * n2 /\ B = (s2 * n3) * n1
      /\ A \in Nat /\ B \in Nat /\ C \in Nat
  BY <1>1, Times
<1>3. /\ s1 * n2 > s2 * n1 => A > B
      /\ s1 * n2 >= s2 * n1 => A >= B
      /\ s1 * n2 = s2 * n1 => A = B
  BY <1>1, Times
<1>4. /\ s2 * n3 > s3 * n2 => B > C
      /\ s2 * n3 >= s3 * n2 => B >= C
      /\ s2 * n3 = s3 * n2 => B = C
  BY <1>1, <1>2, Times
<1>5. /\ A > C => s1 * n3 > s3 * n1
      /\ A = C => s1 * n3 = s3 * n1
  BY <1>1, <1>2, Times
<1> HIDE DEF A, B, C
<1>6. /\ A > B /\ B >= C => A > C
      /\ A >= B /\ B > C => A > C
  BY <1>2
<1> QED BY <1>3, <1>4, <1>5, <1>6

\* What the history says of c can be compared.
Known(c) ==
  /\ Bucket(c) \in {0, 1, 2}
  /\ Bucket(c) = 0 =>
       /\ Saved(c) \in Nat
       /\ Cardinality(Tests(c, TRUE)) \in Nat /\ Cardinality(Tests(c, TRUE)) > 0
       /\ LastSuccess(c) \in Nat

\* Two codes are before one another, or tied.
LEMMA HistoryDecides ==
  ASSUME NEW c, NEW d, Known(c), Known(d)
  PROVE  /\ HistoryTied(c, c) /\ ~HistoryBefore(c, c)
         /\ HistoryBefore(c, d) \/ HistoryBefore(d, c) \/ HistoryTied(c, d)
         /\ HistoryTied(c, d) => HistoryTied(d, c)
         /\ HistoryBefore(c, d) => ~HistoryTied(c, d) /\ ~HistoryTied(d, c) /\ ~HistoryBefore(d, c)
<1> DEFINE x == AverageOver(c, d)
           y == AverageOver(d, c)
           z == AverageOver(c, c)
<1>1. Bucket(c) = 0 /\ Bucket(d) = 0 => x \in Nat /\ y \in Nat
  BY Times DEF Known, AverageOver
<1>2. Bucket(c) = 0 => z \in Nat
  BY Times DEF Known, AverageOver
<1>3. Bucket(c) \in {0, 1, 2} /\ Bucket(d) \in {0, 1, 2}
      /\ (Bucket(c) = 0 => LastSuccess(c) \in Nat) /\ (Bucket(d) = 0 => LastSuccess(d) \in Nat)
  BY DEF Known
<1>4. /\ HistoryBefore(c, d) <=>
           \/ Bucket(c) < Bucket(d)
           \/ /\ Bucket(c) = 0 /\ Bucket(d) = 0
              /\ x > y \/ (x = y /\ LastSuccess(c) > LastSuccess(d))
      /\ HistoryBefore(d, c) <=>
           \/ Bucket(d) < Bucket(c)
           \/ /\ Bucket(c) = 0 /\ Bucket(d) = 0
              /\ y > x \/ (x = y /\ LastSuccess(d) > LastSuccess(c))
      /\ HistoryTied(c, d) <=>
           Bucket(c) = Bucket(d) /\ (Bucket(c) = 0 => x = y /\ LastSuccess(c) = LastSuccess(d))
      /\ HistoryTied(d, c) <=>
           Bucket(c) = Bucket(d) /\ (Bucket(d) = 0 => x = y /\ LastSuccess(c) = LastSuccess(d))
      /\ HistoryTied(c, c)
      /\ HistoryBefore(c, c) =>
           \/ Bucket(c) = 0 /\ (z > z \/ LastSuccess(c) > LastSuccess(c))
           \/ Bucket(c) < Bucket(c)
  BY DEF HistoryBefore, HistoryTied
<1> HIDE DEF x, y, z
<1> QED BY <1>1, <1>2, <1>3, <1>4

\* The order by history is an order with ties.
LEMMA HistoryChains ==
  ASSUME NEW c, NEW d, NEW e, Known(c), Known(d), Known(e)
  PROVE  /\ HistoryBefore(c, d) /\ HistoryBefore(d, e) => HistoryBefore(c, e)
         /\ HistoryBefore(c, d) /\ HistoryTied(d, e) => HistoryBefore(c, e)
         /\ HistoryTied(c, d) /\ HistoryBefore(d, e) => HistoryBefore(c, e)
         /\ HistoryTied(c, d) /\ HistoryTied(d, e) => HistoryTied(c, e)
<1>1. CASE Bucket(c) = 0 /\ Bucket(d) = 0 /\ Bucket(e) = 0
  <2> DEFINE cd == AverageOver(c, d)  dc == AverageOver(d, c)
             de == AverageOver(d, e)  ed == AverageOver(e, d)
             ce == AverageOver(c, e)  ec == AverageOver(e, c)
  <2>1. /\ cd \in Nat /\ dc \in Nat /\ de \in Nat /\ ed \in Nat /\ ce \in Nat /\ ec \in Nat
        /\ LastSuccess(c) \in Nat /\ LastSuccess(d) \in Nat /\ LastSuccess(e) \in Nat
    BY <1>1, Times DEF Known, AverageOver
  <2>2. /\ cd > dc /\ de >= ed => ce > ec
        /\ cd >= dc /\ de > ed => ce > ec
        /\ cd = dc /\ de = ed => ce = ec
    <3> DEFINE sc == Saved(c)  sd == Saved(d)  se == Saved(e)
               nc == Cardinality(Tests(c, TRUE))
               nd == Cardinality(Tests(d, TRUE))
               ne == Cardinality(Tests(e, TRUE))
    <3>1. /\ sc \in Nat /\ sd \in Nat /\ se \in Nat /\ nc \in Nat /\ nd \in Nat /\ ne \in Nat
          /\ nc > 0 /\ nd > 0 /\ ne > 0
      BY <1>1 DEF Known
    <3>2. /\ cd = sc * nd /\ dc = sd * nc /\ de = sd * ne /\ ed = se * nd
          /\ ce = sc * ne /\ ec = se * nc
      BY DEF AverageOver
    <3> HIDE DEF sc, sd, se, nc, nd, ne, cd, dc, de, ed, ce, ec
    <3>3. /\ sc * nd > sd * nc /\ sd * ne >= se * nd => sc * ne > se * nc
          /\ sc * nd >= sd * nc /\ sd * ne > se * nd => sc * ne > se * nc
          /\ sc * nd = sd * nc /\ sd * ne = se * nd => sc * ne = se * nc
      BY <3>1, Averages
    <3> QED BY <3>2, <3>3
  <2>3. /\ HistoryBefore(c, d) <=> cd > dc \/ (cd = dc /\ LastSuccess(c) > LastSuccess(d))
        /\ HistoryBefore(d, e) <=> de > ed \/ (de = ed /\ LastSuccess(d) > LastSuccess(e))
        /\ HistoryBefore(c, e) <=> ce > ec \/ (ce = ec /\ LastSuccess(c) > LastSuccess(e))
        /\ HistoryTied(c, d) <=> cd = dc /\ LastSuccess(c) = LastSuccess(d)
        /\ HistoryTied(d, e) <=> de = ed /\ LastSuccess(d) = LastSuccess(e)
        /\ HistoryTied(c, e) <=> ce = ec /\ LastSuccess(c) = LastSuccess(e)
    BY <1>1 DEF HistoryBefore, HistoryTied
  <2> HIDE DEF cd, dc, de, ed, ce, ec
  <2>4. (de = ed => de >= ed) /\ (cd = dc => cd >= dc) /\ (de > ed => de >= ed) /\ (cd > dc => cd >= dc)
    BY <2>1
  <2> QED BY <2>1, <2>2, <2>3, <2>4
<1>2. CASE ~(Bucket(c) = 0 /\ Bucket(d) = 0 /\ Bucket(e) = 0)
  <2>1. /\ HistoryBefore(c, d) => Bucket(c) <= Bucket(d) /\ (Bucket(c) = Bucket(d) => Bucket(c) = 0)
        /\ HistoryBefore(d, e) => Bucket(d) <= Bucket(e) /\ (Bucket(d) = Bucket(e) => Bucket(d) = 0)
        /\ HistoryTied(c, d) => Bucket(c) = Bucket(d)
        /\ HistoryTied(d, e) => Bucket(d) = Bucket(e)
    BY DEF HistoryBefore, HistoryTied, Known
  <2>2. Bucket(c) < Bucket(e) => HistoryBefore(c, e)
    BY DEF HistoryBefore
  <2>3. Bucket(c) = Bucket(e) /\ Bucket(c) # 0 => HistoryTied(c, e)
    BY DEF HistoryTied
  <2>4. Bucket(c) \in {0, 1, 2} /\ Bucket(d) \in {0, 1, 2} /\ Bucket(e) \in {0, 1, 2}
    BY DEF Known
  <2> QED BY <1>2, <2>1, <2>2, <2>3, <2>4
<1> QED BY <1>1, <1>2

\* A typed history of finitely many reports.
HistoryOK == history \in Seq(Results)

\* A code has finitely many reports, and they are typed.
LEMMA TestsFinite ==
  ASSUME HistoryOK, NEW c, NEW ok
  PROVE  /\ IsFiniteSet(Tests(c, ok))
         /\ Tests(c, ok) \subseteq DOMAIN history
         /\ \A i \in Tests(c, ok) : history[i].saved \in Nat /\ history[i].at \in Nat
<1>1. DOMAIN history = 1 .. Len(history) /\ Len(history) \in Nat
  BY DEF HistoryOK
<1>2. IsFiniteSet(DOMAIN history)
  BY <1>1, FS_Interval
<1>3. Tests(c, ok) \subseteq DOMAIN history
  BY DEF Tests
<1>4. \A i \in DOMAIN history : history[i] \in Results
  BY DEF HistoryOK
<1>5. \A i \in Tests(c, ok) : history[i].saved \in Nat /\ history[i].at \in Nat
  BY <1>3, <1>4 DEF Results
<1> QED BY <1>2, <1>3, <1>5, FS_Subset

\* Every code can be compared.
LEMMA AllKnown ==
  ASSUME HistoryOK, NEW c
  PROVE  Known(c)
<1> DEFINE T == Tests(c, TRUE)
<1>1. IsFiniteSet(T) /\ \A i \in T : history[i].saved \in Nat /\ history[i].at \in Nat
  BY TestsFinite
<1>2. Bucket(c) \in {0, 1, 2} /\ (Bucket(c) = 0 => T # {})
  <2> DEFINE F == Tests(c, FALSE)
  <2>1. Bucket(c) = IF T # {} THEN 0 ELSE IF F = {} THEN 1 ELSE 2
    BY DEF Bucket
  <2> HIDE DEF T, F
  <2> QED BY <2>1
<1>3. Saved(c) \in Nat
  <2> DEFINE v == [i \in T |-> history[i].saved]
  <2>1. Saved(c) = SumFunctionOnSet(v, T)
    BY DEF Saved, SumFunction
  <2>2. \A i \in T : v[i] \in Nat
    BY <1>1
  <2> HIDE DEF T, v
  <2> QED BY <1>1, <2>1, <2>2, SumType
<1>4. ASSUME T # {}
      PROVE  Cardinality(T) \in Nat /\ Cardinality(T) > 0
  <2> HIDE DEF T
  <2>1. Cardinality(T) \in Nat /\ Cardinality(T) # 0
    BY <1>1, <1>4, FS_CardinalityType, FS_EmptySet
  <2> QED BY <2>1
<1>5. ASSUME T # {}
      PROVE  LastSuccess(c) \in Nat
  <2> DEFINE D == {history[i].at : i \in T}
  <2>1. D \subseteq Nat /\ D # {}
    BY <1>1, <1>5
  <2>2. IsFiniteSet(D)
    <3> DEFINE At(i) == history[i].at
               f == [i \in T |-> At(i)]
    <3>1. f \in Surjection(T, D)
      <4>1. D = {At(i) : i \in T}
        OBVIOUS
      <4> HIDE DEF T, D, At
      <4> QED BY <4>1 DEF Surjection
    <3> HIDE DEF T, D
    <3> QED BY <1>1, <3>1, FS_Surjection
  <2>3. Max(D) \in D
    <3> HIDE DEF D
    <3>1. D \in SUBSET Int
      BY <2>1
    <3> QED BY <2>1, <2>2, <3>1, MaxIsMax
  <2> QED BY <2>1, <2>3 DEF LastSuccess
<1> HIDE DEF T
<1> QED BY <1>2, <1>3, <1>4, <1>5 DEF Known, T

-----------------------------------------------------------------------------
(* The order by sources, and what the two sorts answer.                       *)

ClaimsOK ==
  /\ DOMAIN claims = Codes
  /\ \A c \in Codes : IsFiniteSet(claims[c])
  /\ \A c \in Codes : \A x \in claims[c] :
       x.source \in Sources /\ x.found \in Days /\ x.expires \in Nat \cup {Never}
  /\ now \in Days

\* A list of codes, each once.
Plain(l) == l \in Seq(Codes) /\ Distinct(l)

\* A list has finitely many codes, and each has one place.
LEMMA PlainLists ==
  ASSUME NEW l, Plain(l)
  PROVE  /\ IsFiniteSet(Range(l)) /\ Range(l) \subseteq Codes
         /\ \A c \in Range(l) : Index(l, c) \in Nat /\ Index(l, c) \in DOMAIN l /\ l[Index(l, c)] = c
         /\ \A c, d \in Range(l) : Index(l, c) = Index(l, d) => c = d
<1>1. DOMAIN l = 1 .. Len(l) /\ Len(l) \in Nat /\ \A i \in DOMAIN l : l[i] \in Codes
  BY DEF Plain
<1>2. IsFiniteSet(Range(l))
  <2> DEFINE f == [i \in DOMAIN l |-> l[i]]
  <2>1. f \in Surjection(DOMAIN l, Range(l))
    BY DEF Surjection, Range
  <2>2. IsFiniteSet(DOMAIN l)
    BY <1>1, FS_Interval
  <2> QED BY <2>1, <2>2, FS_Surjection
<1>3. Range(l) \subseteq Codes
  BY <1>1 DEF Range
<1>4. \A c \in Range(l) : Index(l, c) \in DOMAIN l /\ l[Index(l, c)] = c
  BY DEF Range, Index
<1>5. \A c \in Range(l) : Index(l, c) \in Nat
  BY <1>1, <1>4
<1>6. ASSUME NEW c \in Range(l), NEW d \in Range(l), Index(l, c) = Index(l, d)
      PROVE  c = d
  BY <1>4, <1>6
<1> QED BY <1>2, <1>3, <1>4, <1>5, <1>6

\* The attributes of a code's claims.
LEMMA FoundDates ==
  ASSUME ClaimsOK, NEW c \in Codes, claims[c] # {}
  PROVE  LET D == {x.found : x \in claims[c]}
         IN IsFiniteSet(D) /\ D \in SUBSET Int /\ D # {} /\ Max(D) \in Int
            /\ Max(D) \in D /\ \A y \in D : y <= Max(D)
<1> DEFINE C == claims[c]
           D == {x.found : x \in C}
<1>1. IsFiniteSet(C) /\ C # {} /\ \A x \in C : x.found \in Days
  BY DEF ClaimsOK
<1>2. Days \subseteq Nat
  BY OrderAssumption
<1> HIDE DEF C
<1>3. IsFiniteSet(D)
  <2> DEFINE f == [x \in C |-> x.found]
  <2>1. f \in Surjection(C, D)
    BY DEF Surjection
  <2> HIDE DEF D
  <2> QED BY <1>1, <2>1, FS_Surjection
<1>4. D \subseteq Nat /\ D # {}
  BY <1>1, <1>2
<1>5. D \in SUBSET Int /\ \A y \in D : y \in Int
  <2> HIDE DEF D
  <2> QED BY <1>4
<1>6. Max(D) \in D /\ \A y \in D : y <= Max(D)
  <2> HIDE DEF D
  <2> QED BY <1>3, <1>4, <1>5, MaxIsMax
<1>7. Max(D) \in Int
  <2> HIDE DEF D
  <2> QED BY <1>5, <1>6
<1>8. IsFiniteSet(D) /\ D \in SUBSET Int /\ D # {} /\ Max(D) \in Int
            /\ Max(D) \in D /\ \A y \in D : y <= Max(D)
  <2> HIDE DEF D
  <2> QED BY <1>3, <1>4, <1>5, <1>6, <1>7
<1> QED BY <1>8 DEF C

\* A code's best source.
LEMMA WeightsOfClaims ==
  ASSUME ClaimsOK, NEW c \in Codes, claims[c] # {}
  PROVE  LET D == {Weight[x.source] : x \in claims[c]}
         IN IsFiniteSet(D) /\ D \in SUBSET Int /\ D # {} /\ Max(D) \in Int
            /\ Max(D) \in D /\ \A y \in D : y <= Max(D)
<1> DEFINE C == claims[c]
           D == {Weight[x.source] : x \in C}
<1>1. IsFiniteSet(C) /\ C # {} /\ \A x \in C : x.source \in Sources
  BY DEF ClaimsOK
<1>2. Weight \in [Sources -> Nat]
  BY OrderAssumption
<1> HIDE DEF C
<1>3. IsFiniteSet(D)
  <2> DEFINE f == [x \in C |-> Weight[x.source]]
  <2>1. f \in Surjection(C, D)
    BY DEF Surjection
  <2> HIDE DEF D
  <2> QED BY <1>1, <2>1, FS_Surjection
<1>4. D \subseteq Nat /\ D # {}
  BY <1>1, <1>2
<1>5. D \in SUBSET Int /\ \A y \in D : y \in Int
  <2> HIDE DEF D
  <2> QED BY <1>4
<1>6. Max(D) \in D /\ \A y \in D : y <= Max(D)
  <2> HIDE DEF D
  <2> QED BY <1>3, <1>4, <1>5, MaxIsMax
<1>7. Max(D) \in Int
  <2> HIDE DEF D
  <2> QED BY <1>5, <1>6
<1>8. IsFiniteSet(D) /\ D \in SUBSET Int /\ D # {} /\ Max(D) \in Int
            /\ Max(D) \in D /\ \A y \in D : y <= Max(D)
  <2> HIDE DEF D
  <2> QED BY <1>3, <1>4, <1>5, <1>6, <1>7
<1> QED BY <1>8 DEF C

\* The number of a code's sources.
LEMMA SourcesOfClaims ==
  ASSUME NEW C, IsFiniteSet(C), C # {}
  PROVE  LET D == {x.source : x \in C}
         IN IsFiniteSet(D) /\ Cardinality(D) \in Nat /\ Cardinality(D) >= 1
<1> DEFINE D == {x.source : x \in C}
<1>1. IsFiniteSet(D)
  <2> DEFINE f == [x \in C |-> x.source]
  <2>1. f \in Surjection(C, D)
    BY DEF Surjection
  <2> HIDE DEF D
  <2> QED BY <2>1, FS_Surjection
<1>2. D # {}
  OBVIOUS
<1> HIDE DEF D
<1>3. Cardinality(D) \in Nat /\ Cardinality(D) # 0
  BY <1>1, <1>2, FS_CardinalityType, FS_EmptySet
<1>4. IsFiniteSet(D) /\ Cardinality(D) \in Nat /\ Cardinality(D) >= 1
  BY <1>1, <1>3
<1> QED BY <1>4 DEF D

\* The smaller of two numbers.
LEMMA MinOfTwo ==
  ASSUME NEW m \in Nat, NEW n \in Nat
  PROVE  Min({m, n}) = IF m <= n THEN m ELSE n
<1> DEFINE S == {m, n}
<1>1. S \in SUBSET Nat /\ S # {}
  OBVIOUS
<1>2. Min(S) \in S /\ \A x \in S : Min(S) <= x
  <2> HIDE DEF S
  <2> QED BY <1>1, MinIsMin
<1>3. (Min(S) = m \/ Min(S) = n) /\ Min(S) <= m /\ Min(S) <= n
  <2>1. m \in S /\ n \in S /\ \A x \in S : x = m \/ x = n
    OBVIOUS
  <2> HIDE DEF S
  <2> QED BY <1>2, <2>1
<1> HIDE DEF S
<1>4. Min(S) = IF m <= n THEN m ELSE n
  BY <1>3
<1> QED BY <1>4 DEF S

\* The bonus and the freshness, with their parts named.
LEMMA Bonus ==
  ASSUME ClaimsOK, NEW c \in Codes, claims[c] # {}
  PROVE  LET k == Cardinality({x.source : x \in claims[c]})
         IN k \in Nat /\ k >= 1 /\ MultiSourceBonus(c) = IF 5 * (k - 1) <= 15 THEN 5 * (k - 1) ELSE 15
<1> DEFINE k == Cardinality({x.source : x \in claims[c]})
<1>1. IsFiniteSet(claims[c])
  BY DEF ClaimsOK
<1>2. k \in Nat /\ k >= 1
  BY <1>1, SourcesOfClaims
<1>3. MultiSourceBonus(c) = Min({5 * (k - 1), 15})
  BY DEF MultiSourceBonus
<1> HIDE DEF k
<1>4. 5 * (k - 1) \in Nat /\ 15 \in Nat
  BY <1>2
<1>5. k \in Nat /\ k >= 1 /\ MultiSourceBonus(c) = IF 5 * (k - 1) <= 15 THEN 5 * (k - 1) ELSE 15
  BY <1>2, <1>3, <1>4, MinOfTwo
<1> QED BY <1>5 DEF k

\* Scores are numbers.
LEMMA ScoreType ==
  ASSUME ClaimsOK, NEW c \in Codes
  PROVE  Score(c) \in Int
<1>1. CASE claims[c] = {}
  BY <1>1 DEF Score
<1>2. CASE claims[c] # {}
  <2> DEFINE w == Max({Weight[x.source] : x \in claims[c]})
             m == Max({x.found : x \in claims[c]})
             b == MultiSourceBonus(c)
             f == Freshness(c)
  <2>1. w \in Int
    BY <1>2, WeightsOfClaims
  <2>2. m \in Int
    BY <1>2, FoundDates
  <2>3. b \in Int
    <3> DEFINE k == Cardinality({x.source : x \in claims[c]})
    <3>1. k \in Nat /\ b = IF 5 * (k - 1) <= 15 THEN 5 * (k - 1) ELSE 15
      BY <1>2, Bonus
    <3> HIDE DEF k, b
    <3> QED BY <3>1
  <2>4. f \in Int
    <3>1. f = IF now - m >= FreshnessMax THEN 0 ELSE FreshnessMax - (now - m)
      BY DEF Freshness
    <3>2. now \in Nat /\ FreshnessMax \in Nat
      BY OrderAssumption DEF ClaimsOK
    <3> HIDE DEF f, m
    <3> QED BY <2>2, <3>1, <3>2
  <2>5. Score(c) = w + b + f
    BY <1>2 DEF Score
  <2> HIDE DEF w, b, f
  <2> QED BY <2>1, <2>3, <2>4, <2>5
<1> QED BY <1>1, <1>2

\* Expiry, score and place order a list strictly.
LEMMA SourceBeforeOrders ==
  ASSUME ClaimsOK, NEW l, Plain(l)
  PROVE  Orders({p \in Pairs(Range(l)) : SourceBefore(l, p[1], p[2])}, Range(l))
<1> DEFINE S == Range(l)
           R == {p \in Pairs(S) : SourceBefore(l, p[1], p[2])}
<1>1. ASSUME NEW c \in S
      PROVE  Score(c) \in Int /\ Index(l, c) \in Int /\ Expired(c) \in BOOLEAN
  <2>1. c \in Codes /\ Index(l, c) \in Nat
    BY PlainLists
  <2>2. Expired(c) \in BOOLEAN
    BY DEF Expired
  <2> HIDE DEF S
  <2> QED BY <2>1, <2>2, ScoreType
<1>2. \A c, d \in S : Index(l, c) = Index(l, d) => c = d
  BY PlainLists
<1>3. \A c, d \in S : <<c, d>> \in R <=> SourceBefore(l, c, d)
  <2> HIDE DEF S
  <2> QED BY DEF Pairs
<1> HIDE DEF S, R
<1>4. ASSUME NEW c \in S PROVE <<c, c>> \notin R
  BY <1>1, <1>3 DEF SourceBefore
<1>5. ASSUME NEW c \in S, NEW d \in S, NEW e \in S, <<c, d>> \in R, <<d, e>> \in R
      PROVE  <<c, e>> \in R
  <2>1. SourceBefore(l, c, d) /\ SourceBefore(l, d, e)
    BY <1>3, <1>5
  <2>2. SourceBefore(l, c, e)
    BY <1>1, <2>1 DEF SourceBefore
  <2> QED BY <1>3, <2>2
<1>6. ASSUME NEW c \in S, NEW d \in S PROVE c = d \/ <<c, d>> \in R \/ <<d, c>> \in R
  <2>1. Index(l, c) = Index(l, d) => c = d
    BY <1>2
  <2>2. c = d \/ SourceBefore(l, c, d) \/ SourceBefore(l, d, c)
    BY <1>1, <2>1 DEF SourceBefore
  <2> QED BY <1>3, <2>2
<1>7. Orders(R, S)
  BY <1>4, <1>5, <1>6 DEF Orders
<1> QED BY <1>7 DEF R, S

\* History, and the place where it ties, order a list strictly.
LEMMA HistoryOrders ==
  ASSUME HistoryOK, NEW l, Plain(l)
  PROVE  Orders({p \in Pairs(Range(l)) :
                   \/ HistoryBefore(p[1], p[2])
                   \/ HistoryTied(p[1], p[2]) /\ Index(l, p[1]) < Index(l, p[2])}, Range(l))
<1> DEFINE S == Range(l)
           R == {p \in Pairs(S) :
                   \/ HistoryBefore(p[1], p[2])
                   \/ HistoryTied(p[1], p[2]) /\ Index(l, p[1]) < Index(l, p[2])}
<1>1. \A c \in S : Index(l, c) \in Int
  BY PlainLists
<1>2. \A c, d \in S : Index(l, c) = Index(l, d) => c = d
  BY PlainLists
<1>3. \A c, d \in S : <<c, d>> \in R <=>
        \/ HistoryBefore(c, d)
        \/ HistoryTied(c, d) /\ Index(l, c) < Index(l, d)
  <2> HIDE DEF S
  <2> QED BY DEF Pairs
<1> HIDE DEF S, R
<1>4. ASSUME NEW c \in S PROVE <<c, c>> \notin R
  BY <1>1, <1>3, AllKnown, HistoryDecides
<1>5. ASSUME NEW c \in S, NEW d \in S, NEW e \in S, <<c, d>> \in R, <<d, e>> \in R
      PROVE  <<c, e>> \in R
  <2>1. \/ HistoryBefore(c, d)
        \/ HistoryTied(c, d) /\ Index(l, c) < Index(l, d)
    BY <1>3, <1>5
  <2>2. \/ HistoryBefore(d, e)
        \/ HistoryTied(d, e) /\ Index(l, d) < Index(l, e)
    BY <1>3, <1>5
  <2>3. /\ HistoryBefore(c, d) /\ HistoryBefore(d, e) => HistoryBefore(c, e)
        /\ HistoryBefore(c, d) /\ HistoryTied(d, e) => HistoryBefore(c, e)
        /\ HistoryTied(c, d) /\ HistoryBefore(d, e) => HistoryBefore(c, e)
        /\ HistoryTied(c, d) /\ HistoryTied(d, e) => HistoryTied(c, e)
    BY AllKnown, HistoryChains
  <2>4. Index(l, c) < Index(l, d) /\ Index(l, d) < Index(l, e) => Index(l, c) < Index(l, e)
    BY <1>1
  <2>5. \/ HistoryBefore(c, e)
        \/ HistoryTied(c, e) /\ Index(l, c) < Index(l, e)
    BY <2>1, <2>2, <2>3, <2>4
  <2> QED BY <1>3, <2>5
<1>6. ASSUME NEW c \in S, NEW d \in S PROVE c = d \/ <<c, d>> \in R \/ <<d, c>> \in R
  <2>1. HistoryBefore(c, d) \/ HistoryBefore(d, c) \/ (HistoryTied(c, d) /\ HistoryTied(d, c))
    BY AllKnown, HistoryDecides
  <2>2. c = d \/ Index(l, c) < Index(l, d) \/ Index(l, d) < Index(l, c)
    BY <1>1, <1>2
  <2> QED BY <1>3, <2>1, <2>2
<1>7. Orders(R, S)
  BY <1>4, <1>5, <1>6 DEF Orders
<1> QED BY <1>7 DEF R, S

\* What candidate-order.ts answers.
LEMMA SourceOrderedIs ==
  ASSUME ClaimsOK, NEW l, Plain(l)
  PROVE  /\ Plain(SourceOrdered(l)) /\ Range(SourceOrdered(l)) = Range(l)
         /\ \A c, d \in Range(l) :
              Index(SourceOrdered(l), c) < Index(SourceOrdered(l), d) <=> SourceBefore(l, c, d)
<1> DEFINE S == Range(l)
           R == {p \in Pairs(S) : SourceBefore(l, p[1], p[2])}
           s == Sorted(S, R)
<1>1. IsFiniteSet(S) /\ S \subseteq Codes /\ Orders(R, S)
  BY PlainLists, SourceBeforeOrders
<1>2. s = SourceOrdered(l)
  BY DEF SourceOrdered
<1>3. \A c, d \in S : <<c, d>> \in R <=> SourceBefore(l, c, d)
  <2> HIDE DEF S
  <2> QED BY DEF Pairs
<1>4. /\ s \in Seq(S) /\ Distinct(s) /\ Range(s) = S
      /\ \A c, d \in S : Index(s, c) < Index(s, d) <=> <<c, d>> \in R
  <2> HIDE DEF S, R
  <2> QED BY <1>1, SortedIsSorted
<1> HIDE DEF s, R
<1>5. Plain(s)
  <2> HIDE DEF S
  <2> QED BY <1>1, <1>4 DEF Plain
<1> QED BY <1>2, <1>3, <1>4, <1>5

\* What ranking.ts answers.
LEMMA RankedIs ==
  ASSUME HistoryOK, NEW l, Plain(l)
  PROVE  /\ Plain(Ranked(l)) /\ Range(Ranked(l)) = Range(l)
         /\ \A c, d \in Range(l) :
              Index(Ranked(l), c) < Index(Ranked(l), d) <=>
                \/ HistoryBefore(c, d)
                \/ HistoryTied(c, d) /\ Index(l, c) < Index(l, d)
<1> DEFINE S == Range(l)
           R == {p \in Pairs(S) :
                   \/ HistoryBefore(p[1], p[2])
                   \/ HistoryTied(p[1], p[2]) /\ Index(l, p[1]) < Index(l, p[2])}
           s == Sorted(S, R)
<1>1. IsFiniteSet(S) /\ S \subseteq Codes /\ Orders(R, S)
  BY PlainLists, HistoryOrders
<1>2. s = Ranked(l)
  BY DEF Ranked
<1>3. \A c, d \in S : <<c, d>> \in R <=>
        \/ HistoryBefore(c, d)
        \/ HistoryTied(c, d) /\ Index(l, c) < Index(l, d)
  <2> HIDE DEF S
  <2> QED BY DEF Pairs
<1>4. /\ s \in Seq(S) /\ Distinct(s) /\ Range(s) = S
      /\ \A c, d \in S : Index(s, c) < Index(s, d) <=> <<c, d>> \in R
  <2> HIDE DEF S, R
  <2> QED BY <1>1, SortedIsSorted
<1> HIDE DEF s, R
<1>5. Plain(s)
  <2> HIDE DEF S
  <2> QED BY <1>1, <1>4 DEF Plain
<1> QED BY <1>2, <1>3, <1>4, <1>5

\* An import keeps what is there, once, and adds the rest.
LEMMA ExtendedIs ==
  ASSUME NEW l, Plain(l), NEW new, Plain(new)
  PROVE  Plain(Extended(l, new)) /\ Range(Extended(l, new)) = Range(l) \cup Range(new)
<1> DEFINE A == Range(l)
           N == Range(new)
           S == A \cup N
           R == {p \in Pairs(S) :
                   IF p[1] \in A THEN p[2] \in A => Index(l, p[1]) < Index(l, p[2])
                   ELSE p[2] \notin A /\ Index(new, p[1]) < Index(new, p[2])}
           s == Sorted(S, R)
<1>1. /\ IsFiniteSet(A) /\ A \subseteq Codes /\ IsFiniteSet(N) /\ N \subseteq Codes
      /\ \A c \in A : Index(l, c) \in Int
      /\ \A c \in N : Index(new, c) \in Int
  BY PlainLists
<1>2. /\ \A c, d \in A : Index(l, c) = Index(l, d) => c = d
      /\ \A c, d \in N : Index(new, c) = Index(new, d) => c = d
  BY PlainLists
<1>3. s = Extended(l, new)
  BY DEF Extended
<1> HIDE DEF A, N
<1>4. IsFiniteSet(S) /\ S \subseteq Codes
  BY <1>1, FS_Union
<1>5. \A c, d \in S : <<c, d>> \in R <=>
        IF c \in A THEN d \in A => Index(l, c) < Index(l, d)
        ELSE d \notin A /\ Index(new, c) < Index(new, d)
  <2> HIDE DEF S
  <2> QED BY DEF Pairs
<1>6. \A c \in S : c \notin A => c \in N
  OBVIOUS
<1> HIDE DEF S, R, s
<1>7. Orders(R, S)
  <2>1. ASSUME NEW c \in S PROVE <<c, c>> \notin R
    BY <1>1, <1>5, <1>6
  <2>2. ASSUME NEW c \in S, NEW d \in S, NEW e \in S, <<c, d>> \in R, <<d, e>> \in R
        PROVE  <<c, e>> \in R
    BY <1>1, <1>5, <1>6, <2>2
  <2>3. ASSUME NEW c \in S, NEW d \in S PROVE c = d \/ <<c, d>> \in R \/ <<d, c>> \in R
    BY <1>1, <1>2, <1>5, <1>6
  <2> QED BY <2>1, <2>2, <2>3 DEF Orders
<1>8. s \in Seq(S) /\ Distinct(s) /\ Range(s) = S
  BY <1>4, <1>7, SortedIsSorted DEF s
<1>9. Plain(s)
  BY <1>4, <1>8 DEF Plain
<1> QED BY <1>3, <1>8, <1>9 DEF S, A, N

-----------------------------------------------------------------------------
(* The inductive invariant.                                                   *)

\* What TypeOK says of the list and its claims.
Claiming(l, cl) ==
  /\ Plain(l)
  /\ DOMAIN cl = Codes
  /\ \A c \in Codes :
       /\ IsFiniteSet(cl[c])
       /\ cl[c] # {} <=> c \in Range(l)
       /\ \A x \in cl[c] : x.source \in Sources /\ x.found \in Days /\ x.expires \in Nat \cup {Never}
       /\ \A x, y \in cl[c] : x.source = y.source => x = y

\* The order so far is of the codes that were listed when the lookup began.
OrderOK == lookup # "idle" => Plain(order) /\ Range(order) = asked

IInv ==
  /\ Claiming(list, claims)
  /\ HistoryOK
  /\ now \in Days
  /\ lookup \in {"idle", "listed", "ordered", "answered"}
  /\ OrderOK
  /\ writes \in 0 .. MaxWrites

\* Callers send lists without repetitions.
LEMMA ListsArePlain ==
  /\ \A l \in Lists : Plain(l)
  /\ Plain(SeedList)
  /\ \A o \in Offers : Plain(o.codes) /\ o.expires \in [Range(o.codes) -> Nat \cup {Never}]
BY OrderAssumption DEF Plain

\* One more claim, or none.
LEMMA ClaimedIs ==
  ASSUME Claiming(list, claims), now \in Days, NEW c \in Codes, NEW source \in Sources,
         NEW expires \in Nat \cup {Never}
  PROVE  LET C == Claimed(c, source, expires)
         IN /\ IsFiniteSet(C) /\ C # {}
            /\ \A x \in C : x.source \in Sources /\ x.found \in Days /\ x.expires \in Nat \cup {Never}
            /\ \A x, y \in C : x.source = y.source => x = y
<1> DEFINE C == claims[c]
           r == [source |-> source, found |-> now, expires |-> expires]
<1>1. /\ IsFiniteSet(C)
      /\ \A x \in C : x.source \in Sources /\ x.found \in Days /\ x.expires \in Nat \cup {Never}
      /\ \A x, y \in C : x.source = y.source => x = y
  BY DEF Claiming
<1>2. r.source = source /\ r.found = now /\ r.expires = expires
  OBVIOUS
<1>3. Claimed(c, source, expires) =
        IF \E x \in C : x.source = source THEN C ELSE C \cup {r}
  BY DEF Claimed
<1> HIDE DEF C, r
<1>4. IsFiniteSet(C \cup {r})
  BY <1>1, FS_AddElement
<1>5. CASE \E x \in C : x.source = source
  BY <1>1, <1>3, <1>5
<1>6. CASE ~ \E x \in C : x.source = source
  BY <1>1, <1>2, <1>3, <1>4, <1>6
<1> QED BY <1>5, <1>6

\* Replacing a list keeps it claimed.
LEMMA ReplaceIs ==
  ASSUME Claiming(list, claims), now \in Days, NEW new, Plain(new), NEW source \in Sources,
         Replace(new, source)
  PROVE  Claiming(list, claims)'
<1>1. list' = new /\ claims' = [c \in Codes |-> IF c \in Range(new) THEN Claimed(c, source, Never) ELSE {}]
  BY DEF Replace
<1>2. IsFiniteSet({})
  BY FS_EmptySet
<1>3. ASSUME NEW c \in Codes
      PROVE  LET C == claims'[c]
             IN /\ IsFiniteSet(C)
                /\ C # {} <=> c \in Range(new)
                /\ \A x \in C : x.source \in Sources /\ x.found \in Days /\ x.expires \in Nat \cup {Never}
                /\ \A x, y \in C : x.source = y.source => x = y
  <2> DEFINE C == Claimed(c, source, Never)
  <2>1. claims'[c] = IF c \in Range(new) THEN C ELSE {}
    BY <1>1
  <2>2. /\ IsFiniteSet(C) /\ C # {}
        /\ \A x \in C : x.source \in Sources /\ x.found \in Days /\ x.expires \in Nat \cup {Never}
        /\ \A x, y \in C : x.source = y.source => x = y
    BY ClaimedIs
  <2> HIDE DEF C
  <2> QED BY <1>2, <2>1, <2>2
<1>4. DOMAIN claims' = Codes
  BY <1>1
<1> QED BY <1>1, <1>3, <1>4 DEF Claiming

\* Adding to a list keeps it claimed.
LEMMA AddIs ==
  ASSUME Claiming(list, claims), now \in Days, NEW new, Plain(new), NEW source \in Sources,
         NEW expires, \A c \in Range(new) : expires[c] \in Nat \cup {Never},
         Add(new, source, expires)
  PROVE  Claiming(list, claims)'
<1>1. /\ list' = Extended(list, new)
      /\ claims' = [c \in Codes |-> IF c \in Range(new) THEN Claimed(c, source, expires[c])
                                    ELSE claims[c]]
  BY DEF Add
<1>2. Plain(list') /\ Range(list') = Range(list) \cup Range(new)
  BY <1>1, ExtendedIs DEF Claiming
<1>3. ASSUME NEW c \in Codes
      PROVE  LET C == claims'[c]
             IN /\ IsFiniteSet(C)
                /\ C # {} <=> c \in Range(list')
                /\ \A x \in C : x.source \in Sources /\ x.found \in Days /\ x.expires \in Nat \cup {Never}
                /\ \A x, y \in C : x.source = y.source => x = y
  <2> DEFINE C == Claimed(c, source, expires[c])
  <2>1. claims'[c] = IF c \in Range(new) THEN C ELSE claims[c]
    BY <1>1
  <2>2. CASE c \in Range(new)
    <3>1. /\ IsFiniteSet(C) /\ C # {}
          /\ \A x \in C : x.source \in Sources /\ x.found \in Days /\ x.expires \in Nat \cup {Never}
          /\ \A x, y \in C : x.source = y.source => x = y
      BY <2>2, ClaimedIs
    <3> HIDE DEF C
    <3> QED BY <1>2, <2>1, <2>2, <3>1
  <2>3. CASE c \notin Range(new)
    <3>1. claims'[c] = claims[c] /\ (c \in Range(list') <=> c \in Range(list))
      BY <1>2, <2>1, <2>3
    <3> QED BY <3>1 DEF Claiming
  <2> QED BY <2>2, <2>3
<1>4. DOMAIN claims' = Codes
  BY <1>1
<1> QED BY <1>2, <1>3, <1>4 DEF Claiming

\* The empty list.
LEMMA NothingIsPlain == Plain(<<>>) /\ Range(<<>>) = {}
BY DEF Plain, Distinct, Range

\* The first start.
LEMMA InitIs == Init => IInv
<1> SUFFICES ASSUME Init PROVE IInv
  OBVIOUS
<1>1. Plain(SeedList)
  BY ListsArePlain
<1>2. 0 \in Days /\ MaxWrites \in Nat
  BY OrderAssumption
<1> DEFINE r == [source |-> "seed", found |-> 0, expires |-> Never]
<1>3. r.source = "seed" /\ r.found = 0 /\ r.expires = Never
  OBVIOUS
<1>4. \A c \in Codes : claims[c] = IF c \in Range(SeedList) THEN {r} ELSE {}
  BY DEF Init
<1> HIDE DEF r
<1>5. IsFiniteSet({}) /\ IsFiniteSet({r})
  BY FS_EmptySet, FS_Singleton
<1>6. "seed" \in Sources
  BY DEF Sources
<1>7. Claiming(list, claims)
  BY <1>1, <1>2, <1>3, <1>4, <1>5, <1>6 DEF Init, Claiming
<1>8. HistoryOK
  BY DEF Init, HistoryOK
<1> QED BY <1>2, <1>7, <1>8 DEF Init, IInv, OrderOK

\* A write that leaves the lookup alone.
LEMMA WriteElsewhere ==
  ASSUME IInv, Counted, UNCHANGED Elsewhere
  PROVE  now' = now /\ now' \in Days /\ lookup' = lookup /\ OrderOK' /\ writes' \in 0 .. MaxWrites
         /\ lookup' \in {"idle", "listed", "ordered", "answered"}
<1>1. now' = now /\ lookup' = lookup /\ order' = order /\ asked' = asked
  BY DEF Elsewhere
<1>2. OrderOK'
  BY <1>1 DEF IInv, OrderOK
<1>3. writes' \in 0 .. MaxWrites
  BY OrderAssumption DEF IInv, Counted
<1> QED BY <1>1, <1>2, <1>3 DEF IInv

\* A report.
LEMMA ReportIs ==
  ASSUME IInv, NEW c \in Codes, NEW ok \in BOOLEAN, NEW saved \in Nat, Report(c, ok, saved)
  PROVE  IInv'
<1> DEFINE r == [code |-> c, ok |-> ok, saved |-> saved, at |-> now]
<1>1. now \in Nat
  BY OrderAssumption DEF IInv
<1>2. r \in Results
  BY <1>1 DEF Results
<1>3. history' = Append(history, r) /\ list' = list /\ claims' = claims /\ Counted /\ UNCHANGED Elsewhere
  BY DEF Report
<1> HIDE DEF r
<1>4. HistoryOK'
  BY <1>2, <1>3 DEF IInv, HistoryOK
<1>5. Claiming(list, claims)'
  BY <1>3 DEF IInv
<1> QED BY <1>3, <1>4, <1>5, WriteElsewhere DEF IInv

\* Every step keeps the invariant.
LEMMA StepIs == IInv /\ [Next]_vars => IInv'
<1> SUFFICES ASSUME IInv, [Next]_vars PROVE IInv'
  OBVIOUS
<1>0. /\ Claiming(list, claims) /\ HistoryOK /\ now \in Days /\ OrderOK
      /\ writes \in 0 .. MaxWrites /\ lookup \in {"idle", "listed", "ordered", "answered"}
  BY DEF IInv
<1>a. ClaimsOK
  BY <1>0 DEF ClaimsOK, Claiming
<1>b. "admin" \in Sources /\ "import" \in Sources /\ "seed" \in Sources /\ Providers \subseteq Sources
  BY DEF Sources
<1>1. CASE SaveCoupons
  <2>1. PICK l \in Lists : Counted /\ Replace(l, "admin") /\ UNCHANGED Elsewhere
    BY <1>1 DEF SaveCoupons
  <2>2. Claiming(list, claims)' /\ history' = history
    BY <1>0, <1>b, <2>1, ListsArePlain, ReplaceIs DEF Replace
  <2>3. HistoryOK'
    BY <1>0, <2>2 DEF HistoryOK
  <2> QED BY <2>1, <2>2, <2>3, WriteElsewhere DEF IInv
<1>2. CASE ImportCoupons
  <2>1. PICK l \in Lists : Counted /\ Replace(l, "import") /\ UNCHANGED Elsewhere
    BY <1>2 DEF ImportCoupons
  <2>2. Claiming(list, claims)' /\ history' = history
    BY <1>0, <1>b, <2>1, ListsArePlain, ReplaceIs DEF Replace
  <2>3. HistoryOK'
    BY <1>0, <2>2 DEF HistoryOK
  <2> QED BY <2>1, <2>2, <2>3, WriteElsewhere DEF IInv
<1>3. CASE ProviderImport
  <2>1. PICK s \in Providers, o \in Offers :
          Counted /\ Add(o.codes, s, o.expires) /\ UNCHANGED Elsewhere
    BY <1>3 DEF ProviderImport
  <2>2. Plain(o.codes) /\ \A c \in Range(o.codes) : o.expires[c] \in Nat \cup {Never}
    BY ListsArePlain
  <2>3. Claiming(list, claims)' /\ history' = history
    BY <1>0, <1>b, <2>1, <2>2, AddIs DEF Add
  <2>4. HistoryOK'
    BY <1>0, <2>3 DEF HistoryOK
  <2> QED BY <2>1, <2>3, <2>4, WriteElsewhere DEF IInv
<1>4. CASE Seed
  <2> DEFINE x == [c \in Codes |-> Never]
  <2>1. Counted /\ Add(SeedList, "seed", x) /\ UNCHANGED Elsewhere
    BY <1>4 DEF Seed
  <2>2. Plain(SeedList) /\ \A c \in Range(SeedList) : x[c] \in Nat \cup {Never}
    <3>1. Plain(SeedList) /\ Range(SeedList) \subseteq Codes
      BY ListsArePlain, PlainLists
    <3> QED BY <3>1
  <2> HIDE DEF x
  <2>3. Claiming(list, claims)' /\ history' = history
    BY <1>0, <1>b, <2>1, <2>2, AddIs DEF Add
  <2>4. HistoryOK'
    BY <1>0, <2>3 DEF HistoryOK
  <2> QED BY <2>1, <2>3, <2>4, WriteElsewhere DEF IInv
<1>5. CASE DeleteStore
  <2>1. /\ Counted /\ UNCHANGED Elsewhere
        /\ list' = <<>> /\ claims' = [c \in Codes |-> {}] /\ history' = <<>>
    BY <1>5 DEF DeleteStore
  <2>2. Claiming(list, claims)'
    BY <2>1, NothingIsPlain, FS_EmptySet DEF Claiming
  <2>3. HistoryOK'
    BY <2>1 DEF HistoryOK
  <2> QED BY <2>1, <2>2, <2>3, WriteElsewhere DEF IInv
<1>6. ASSUME NEW c \in Codes, Fail(c) \/ Succeed(c) PROVE IInv'
  <2>1. CASE Fail(c)
    BY <2>1, ReportIs DEF Fail
  <2>2. CASE Succeed(c)
    <3>1. PICK s \in Savings : Report(c, TRUE, s)
      BY <2>2 DEF Succeed
    <3>2. s \in Nat
      BY OrderAssumption
    <3> QED BY <3>1, <3>2, ReportIs
  <2> QED BY <1>6, <2>1, <2>2
<1>7. CASE DeleteResults
  <2>1. Counted /\ UNCHANGED Elsewhere /\ list' = list /\ claims' = claims /\ history' = <<>>
    BY <1>7 DEF DeleteResults
  <2>2. HistoryOK' /\ Claiming(list, claims)'
    BY <1>0, <2>1 DEF HistoryOK
  <2> QED BY <2>1, <2>2, WriteElsewhere DEF IInv
<1>8. CASE ImportResults
  <2>1. PICK h \in Histories :
          Counted /\ UNCHANGED Elsewhere /\ list' = list /\ claims' = claims /\ history' = h
    BY <1>8 DEF ImportResults
  <2>2. HistoryOK' /\ Claiming(list, claims)'
    BY <1>0, <2>1, ResultsAssumption DEF HistoryOK
  <2> QED BY <2>1, <2>2, WriteElsewhere DEF IInv
<1>9. CASE Tomorrow
  <2>1. \E d \in Days : d > now /\ now' = Min({e \in Days : e > now})
    BY <1>9 DEF Tomorrow
  <2>2. /\ list' = list /\ claims' = claims /\ history' = history
        /\ lookup' = lookup /\ order' = order /\ asked' = asked /\ writes' = writes
    BY <1>9 DEF Tomorrow, tables
  <2>3. now' \in Days
    <3> DEFINE E == {e \in Days : e > now}
    <3>1. E \in SUBSET Nat /\ E # {} /\ now' = Min(E)
      BY <2>1, OrderAssumption
    <3>2. Min(E) \in E
      <4> HIDE DEF E
      <4> QED BY <3>1, MinIsMin
    <3> QED BY <3>1, <3>2
  <2> QED BY <1>0, <2>2, <2>3 DEF IInv, HistoryOK, OrderOK
<1>10. CASE ReadList
  <2>1. /\ lookup' = "listed" /\ order' = list /\ asked' = Range(list)
        /\ list' = list /\ claims' = claims /\ history' = history /\ now' = now /\ writes' = writes
    BY <1>10 DEF ReadList, tables
  <2> QED BY <1>0, <2>1 DEF IInv, HistoryOK, OrderOK, Claiming
<1>11. CASE OrderBySource
  <2>1. /\ lookup = "listed" /\ lookup' = "ordered" /\ order' = SourceOrdered(order) /\ asked' = asked
        /\ list' = list /\ claims' = claims /\ history' = history /\ now' = now /\ writes' = writes
    BY <1>11 DEF OrderBySource, tables
  <2>2. Plain(order') /\ Range(order') = asked'
    BY <1>0, <1>a, <2>1, SourceOrderedIs DEF OrderOK
  <2> QED BY <1>0, <2>1, <2>2 DEF IInv, HistoryOK, OrderOK
<1>12. CASE RankByHistory
  <2>1. /\ lookup = "ordered" /\ lookup' = "answered" /\ order' = Ranked(order) /\ asked' = asked
        /\ list' = list /\ claims' = claims /\ history' = history /\ now' = now /\ writes' = writes
    BY <1>12 DEF RankByHistory, tables
  <2>2. Plain(order') /\ Range(order') = asked'
    BY <1>0, <2>1, RankedIs DEF OrderOK
  <2> QED BY <1>0, <2>1, <2>2 DEF IInv, HistoryOK, OrderOK
<1>13. CASE Done
  <2>1. /\ lookup' = "idle"
        /\ list' = list /\ claims' = claims /\ history' = history /\ now' = now /\ writes' = writes
    BY <1>13 DEF Done, tables
  <2> QED BY <1>0, <2>1 DEF IInv, HistoryOK, OrderOK
<1>14. CASE UNCHANGED vars
  BY <1>0, <1>14 DEF IInv, HistoryOK, OrderOK, vars
<1> QED
  BY <1>1, <1>2, <1>3, <1>4, <1>5, <1>6, <1>7, <1>8, <1>9, <1>10, <1>11, <1>12, <1>13, <1>14 DEF Next

\* What the proofs of the properties start from.
LEMMA Always == Spec => []IInv
<1> QED BY InitIs, StepIs, PTL DEF Spec

\* Every state has its kinds: the list holds codes, each once, every listed code has a
\* claim and only a listed one, and a source claims a code once (coupon_codes and
\* coupon_code_sources under every writer).
THEOREM TypeCorrect == Spec => []TypeOK
<1>1. IInv => TypeOK
  <2> SUFFICES ASSUME IInv PROVE TypeOK
    OBVIOUS
  <2>1. \A i \in DOMAIN history : history[i].code \in Codes /\ history[i].ok \in BOOLEAN
    <3>1. \A i \in DOMAIN history : history[i] \in Results
      BY DEF IInv, HistoryOK
    <3> QED BY <3>1 DEF Results
  <2>2. list \in Seq(Codes) /\ Distinct(list) /\ DOMAIN claims = Codes
    BY DEF IInv, Claiming, Plain
  <2>3. \A c \in Codes :
          /\ claims[c] # {} <=> c \in Listed
          /\ \A x \in claims[c] :
               x.source \in Sources /\ x.found \in Days /\ x.expires \in Nat \cup {Never}
          /\ \A x, y \in claims[c] : x.source = y.source => x = y
    BY DEF IInv, Claiming, Listed
  <2>4. /\ now \in Days /\ writes \in 0 .. MaxWrites
        /\ lookup \in {"idle", "listed", "ordered", "answered"}
    BY DEF IInv
  <2> QED BY <2>1, <2>2, <2>3, <2>4 DEF TypeOK
<1> QED BY <1>1, Always, PTL

\* GET /coupons answers each code that was listed when it began, once, whatever other
\* processes commit between its three reads.
THEOREM EveryLookupComplete == Spec => []AnswersTheList
<1>1. IInv => AnswersTheList
  BY DEF IInv, OrderOK, AnswersTheList, Plain
<1> QED BY <1>1, Always, PTL

\* Sorting by source and then by history is one order: candidate-order.ts and ranking.ts
\* agree on every list, all claims and every history.
THEOREM OneOrder == Spec => []TwoSortsAreOne
<1>1. ASSUME IInv PROVE TwoSortsAreOne
  <2> DEFINE s == SourceOrdered(list)
  <2>1. ClaimsOK /\ HistoryOK /\ Plain(list)
    BY <1>1 DEF IInv, ClaimsOK, Claiming
  <2>2. /\ Plain(s) /\ Range(s) = Range(list)
        /\ \A c, d \in Range(list) : Index(s, c) < Index(s, d) <=> SourceBefore(list, c, d)
    BY <2>1, SourceOrderedIs
  <2>3. Answer = Ranked(s)
    BY DEF Answer
  <2> HIDE DEF s
  <2>4. \A c, d \in Range(s) : Index(Ranked(s), c) < Index(Ranked(s), d) <=>
           \/ HistoryBefore(c, d)
           \/ HistoryTied(c, d) /\ Index(s, c) < Index(s, d)
    BY <2>1, <2>2, RankedIs
  <2>5. \A c, d \in Listed : Index(Answer, c) < Index(Answer, d) <=> Precedes(c, d)
    BY <2>2, <2>3, <2>4 DEF Listed, Precedes
  <2> QED BY <2>5 DEF TwoSortsAreOne
<1>2. IInv => TwoSortsAreOne
  BY <1>1
<1> QED BY <1>2, Always, PTL

-----------------------------------------------------------------------------
(* What a step does to the order.                                             *)

\* A step leaves what the history says of c.
HistoryKept(c) ==
  /\ Tests(c, TRUE)' = Tests(c, TRUE)
  /\ Bucket(c)' = Bucket(c)
  /\ Saved(c)' = Saved(c)
  /\ LastSuccess(c)' = LastSuccess(c)

\* Codes whose history is kept compare as before.
LEMMA KeptHistory ==
  ASSUME NEW c, NEW d, HistoryKept(c), HistoryKept(d)
  PROVE  /\ HistoryBefore(c, d)' <=> HistoryBefore(c, d)
         /\ HistoryTied(c, d)' <=> HistoryTied(c, d)
<1>1. AverageOver(c, d)' = AverageOver(c, d) /\ AverageOver(d, c)' = AverageOver(d, c)
  BY DEF HistoryKept, AverageOver
<1> QED BY <1>1 DEF HistoryKept, HistoryBefore, HistoryTied

\* Without a write to the history, what it says stays.
LEMMA SameHistory ==
  ASSUME history' = history, NEW c
  PROVE  HistoryKept(c)
<1>1. Tests(c, TRUE)' = Tests(c, TRUE) /\ Tests(c, FALSE)' = Tests(c, FALSE)
  BY DEF Tests
<1>2. Saved(c)' = Saved(c)
  BY <1>1 DEF Saved
<1>3. LastSuccess(c)' = LastSuccess(c)
  BY <1>1, Zenon DEF LastSuccess
<1>4. Bucket(c)' = Bucket(c)
  BY <1>1 DEF Bucket
<1> QED BY <1>1, <1>2, <1>3, <1>4 DEF HistoryKept

\* Without a write to the claims, and within a day, scores stay.
LEMMA SameSources ==
  ASSUME UNCHANGED <<claims, now>>, NEW c
  PROVE  /\ Expired(c)' = Expired(c)
         /\ Score(c)' = Score(c)
<1>1. Expired(c)' = Expired(c)
  BY DEF Expired
<1>2. MultiSourceBonus(c)' = MultiSourceBonus(c) /\ Freshness(c)' = Freshness(c)
  BY DEF MultiSourceBonus, Freshness
<1>3. Score(c)' = Score(c)
  BY <1>2 DEF Score
<1> QED BY <1>1, <1>3

\* Where a code's successes stay the same, so do their sum and their last date.
LEMMA KeptSuccesses ==
  ASSUME HistoryOK, NEW c, Tests(c, TRUE)' = Tests(c, TRUE),
         \A i \in Tests(c, TRUE) : history'[i] = history[i]
  PROVE  Saved(c)' = Saved(c) /\ LastSuccess(c)' = LastSuccess(c)
<1> DEFINE T == Tests(c, TRUE)
<1>1. Saved(c)' = SumFunction([i \in T |-> history'[i].saved])
  BY DEF Saved
<1>2. [i \in T |-> history'[i].saved] = [i \in T |-> history[i].saved]
  OBVIOUS
<1>4. Saved(c)' = Saved(c)
  BY <1>1, <1>2 DEF Saved
<1>5. {history'[i].at : i \in T} = {history[i].at : i \in T}
  OBVIOUS
<1>6. LastSuccess(c)' = Max({history'[i].at : i \in T})
  BY DEF LastSuccess
<1> QED BY <1>4, <1>5, <1>6 DEF LastSuccess

\* A report is of its own code.
LEMMA ReportAdds ==
  ASSUME HistoryOK, NEW r, history' = Append(history, r), NEW c, NEW ok \in BOOLEAN,
         r.code # c \/ r.ok # ok
  PROVE  /\ Tests(c, ok)' = Tests(c, ok)
         /\ \A i \in Tests(c, ok) : history'[i] = history[i]
<1> DEFINE n == Len(history)
<1>1. n \in Nat /\ DOMAIN history = 1 .. n
  BY DEF HistoryOK
<1>2. /\ DOMAIN history' = 1 .. (n + 1)
      /\ \A i \in 1 .. n : history'[i] = history[i]
      /\ history'[n + 1] = r
  BY DEF HistoryOK
<1> HIDE DEF n
<1>3. \A i \in 1 .. (n + 1) : i \in 1 .. n \/ i = n + 1
  BY <1>1
<1>4. 1 .. n \subseteq 1 .. (n + 1)
  BY <1>1
<1>5. \A i : i \in Tests(c, ok)' <=>
        i \in 1 .. (n + 1) /\ history'[i].code = c /\ history'[i].ok = ok
  BY <1>2 DEF Tests
<1>6. \A i : i \in Tests(c, ok) <=>
        i \in 1 .. n /\ history[i].code = c /\ history[i].ok = ok
  BY <1>1 DEF Tests
<1>7. \A i : i \in Tests(c, ok)' <=> i \in Tests(c, ok)
  BY <1>2, <1>3, <1>4, <1>5, <1>6
<1> QED BY <1>2, <1>6, <1>7

\* A report leaves what the history says of other codes.
LEMMA ReportLeavesOthers ==
  ASSUME HistoryOK, NEW c, NEW ok, NEW saved, Report(c, ok, saved), NEW d, d # c
  PROVE  HistoryKept(d)
<1> DEFINE r == [code |-> c, ok |-> ok, saved |-> saved, at |-> now]
<1>1. history' = Append(history, r) /\ r.code = c
  BY DEF Report
<1> HIDE DEF r
<1>2. /\ Tests(d, TRUE)' = Tests(d, TRUE)
      /\ \A i \in Tests(d, TRUE) : history'[i] = history[i]
  BY <1>1, ReportAdds
<1>3. Tests(d, FALSE)' = Tests(d, FALSE)
  BY <1>1, ReportAdds
<1>4. Bucket(d)' = Bucket(d)
  BY <1>2, <1>3 DEF Bucket
<1> QED BY <1>2, <1>4, KeptSuccesses DEF HistoryKept

\* A failure leaves what the history says of a tested code.
LEMMA FailLeavesTested ==
  ASSUME HistoryOK, NEW c, Fail(c), Tests(c, TRUE) \cup Tests(c, FALSE) # {}
  PROVE  HistoryKept(c)
<1> DEFINE r == [code |-> c, ok |-> FALSE, saved |-> 0, at |-> now]
           T == Tests(c, TRUE)
           F == Tests(c, FALSE)
<1>1. history' = Append(history, r) /\ r.code = c /\ r.ok = FALSE
  BY DEF Fail, Report
<1> HIDE DEF r
<1>2. T' = T /\ \A i \in T : history'[i] = history[i]
  BY <1>1, ReportAdds
<1>3. F \subseteq F'
  <2> DEFINE n == Len(history)
  <2>1. n \in Nat /\ DOMAIN history = 1 .. n
    BY DEF HistoryOK
  <2>2. DOMAIN history' = 1 .. (n + 1) /\ \A i \in 1 .. n : history'[i] = history[i]
    BY <1>1 DEF HistoryOK
  <2> HIDE DEF n
  <2>3. 1 .. n \subseteq 1 .. (n + 1)
    BY <2>1
  <2> QED BY <2>1, <2>2, <2>3 DEF Tests
<1>4. /\ Bucket(c) = IF T # {} THEN 0 ELSE IF F = {} THEN 1 ELSE 2
      /\ Bucket(c)' = IF T' # {} THEN 0 ELSE IF F' = {} THEN 1 ELSE 2
  BY DEF Bucket
<1>5. Bucket(c)' = Bucket(c)
  <2>1. T # {} \/ F # {}
    OBVIOUS
  <2> HIDE DEF T, F
  <2> QED BY <1>2, <1>3, <1>4, <2>1
<1> QED BY <1>2, <1>5, KeptSuccesses DEF HistoryKept

\* Codes whose history and claims are kept stay in order.
LEMMA KeptOrder ==
  ASSUME UNCHANGED <<list, claims, now>>, NEW d, NEW e, HistoryKept(d), HistoryKept(e), Precedes(d, e)
  PROVE  Precedes(d, e)'
<1>1. SourceBefore(list, d, e)' <=> SourceBefore(list, d, e)
  <2>1. Index(list, d)' = Index(list, d) /\ Index(list, e)' = Index(list, e)
    BY DEF Index
  <2> QED BY <2>1, SameSources DEF SourceBefore
<1> QED BY <1>1, KeptHistory DEF Precedes

\* POST /results turns no two other codes around, and one more failure of a tested code
\* turns nothing around.
THEOREM ReportsKeepOthers == Spec => OthersKeepOrder
<1> DEFINE A ==
      \A c \in Codes :
        /\ Fail(c) \/ Succeed(c) =>
             \A d, e \in Listed \ {c} : Precedes(d, e) => Precedes(d, e)'
        /\ Fail(c) /\ Tests(c, TRUE) \cup Tests(c, FALSE) # {} =>
             \A d, e \in Listed : Precedes(d, e) => Precedes(d, e)'
<1>1. ASSUME IInv PROVE A
  <2>0. HistoryOK
    BY <1>1 DEF IInv
  <2>1. ASSUME NEW c \in Codes, Fail(c) \/ Succeed(c), NEW d, NEW e, d # c, e # c, Precedes(d, e)
        PROVE  Precedes(d, e)'
    <3>1. \E ok, saved : Report(c, ok, saved)
      BY <2>1 DEF Fail, Succeed
    <3>2. HistoryKept(d) /\ HistoryKept(e)
      BY <2>0, <2>1, <3>1, ReportLeavesOthers
    <3>3. UNCHANGED <<list, claims, now>>
      BY <3>1 DEF Report, Elsewhere
    <3> QED BY <2>1, <3>2, <3>3, KeptOrder
  <2>2. ASSUME NEW c \in Codes, Fail(c), Tests(c, TRUE) \cup Tests(c, FALSE) # {},
               NEW d, NEW e, Precedes(d, e)
        PROVE  Precedes(d, e)'
    <3>1. Report(c, FALSE, 0)
      BY <2>2 DEF Fail
    <3>2. \A x : HistoryKept(x)
      <4>1. ASSUME NEW x, x # c PROVE HistoryKept(x)
        BY <2>0, <3>1, <4>1, ReportLeavesOthers
      <4>2. HistoryKept(c)
        BY <2>0, <2>2, FailLeavesTested
      <4> QED BY <4>1, <4>2
    <3>3. UNCHANGED <<list, claims, now>>
      BY <3>1 DEF Report, Elsewhere
    <3> QED BY <2>2, <3>2, <3>3, KeptOrder
  <2> QED BY <2>1, <2>2
<1>2. IInv => [A]_vars
  BY <1>1
<1> QED BY <1>2, Always, PTL DEF OthersKeepOrder

-----------------------------------------------------------------------------
(* Scores.                                                                    *)

Weights(C) == {Weight[x.source] : x \in C}
Founds(C) == {x.found : x \in C}
Names(C) == {x.source : x \in C}

BonusOf(k) == IF 5 * (k - 1) <= 15 THEN 5 * (k - 1) ELSE 15
Fresh(m, t) == IF t - m >= FreshnessMax THEN 0 ELSE FreshnessMax - (t - m)

\* The parts of a code's score.
Measured(c) ==
  /\ IsFiniteSet(Names(claims[c])) /\ Cardinality(Names(claims[c])) \in Nat
  /\ Cardinality(Names(claims[c])) >= 1
  /\ Max(Weights(claims[c])) \in Int /\ Max(Weights(claims[c])) \in Weights(claims[c])
  /\ \A y \in Weights(claims[c]) : y <= Max(Weights(claims[c]))
  /\ Max(Founds(claims[c])) \in Int /\ Max(Founds(claims[c])) \in Founds(claims[c])
  /\ \A y \in Founds(claims[c]) : y <= Max(Founds(claims[c]))
  /\ Score(c) = Max(Weights(claims[c])) + BonusOf(Cardinality(Names(claims[c])))
                + Fresh(Max(Founds(claims[c])), now)
  /\ now \in Int /\ FreshnessMax \in Int

\* Listed codes have claims to score.
LEMMA ListedIsMeasured == IInv => \A c \in Listed : Measured(c)
<1> SUFFICES ASSUME IInv, NEW c \in Listed PROVE Measured(c)
  OBVIOUS
<1>1. ClaimsOK /\ c \in Codes /\ claims[c] # {}
  <2>1. Listed \subseteq Codes
    BY PlainLists DEF IInv, Claiming, Listed
  <2> QED BY <2>1 DEF IInv, ClaimsOK, Claiming, Listed
<1>2. IsFiniteSet(claims[c])
  BY <1>1 DEF ClaimsOK
<1>3. /\ IsFiniteSet(Names(claims[c])) /\ Cardinality(Names(claims[c])) \in Nat
      /\ Cardinality(Names(claims[c])) >= 1
  BY <1>1, <1>2, SourcesOfClaims DEF Names
<1>4. /\ Max(Weights(claims[c])) \in Int /\ Max(Weights(claims[c])) \in Weights(claims[c])
      /\ \A y \in Weights(claims[c]) : y <= Max(Weights(claims[c]))
  BY <1>1, WeightsOfClaims DEF Weights
<1>5. /\ Max(Founds(claims[c])) \in Int /\ Max(Founds(claims[c])) \in Founds(claims[c])
      /\ \A y \in Founds(claims[c]) : y <= Max(Founds(claims[c]))
  BY <1>1, FoundDates DEF Founds
<1>6. MultiSourceBonus(c) = BonusOf(Cardinality(Names(claims[c])))
  BY <1>1, Bonus DEF BonusOf, Names
<1>7. Freshness(c) = Fresh(Max(Founds(claims[c])), now)
  BY DEF Freshness, Fresh, Founds
<1>8. Score(c) = Max(Weights(claims[c])) + MultiSourceBonus(c) + Freshness(c)
  BY <1>1 DEF Score, Weights
<1>9. now \in Int /\ FreshnessMax \in Int
  BY OrderAssumption DEF IInv
<1> QED BY <1>3, <1>4, <1>5, <1>6, <1>7, <1>8, <1>9 DEF Measured

\* The same of the next state.
LEMMA ListedIsMeasuredNext == IInv' => (\A c \in Listed : Measured(c))'
BY ListedIsMeasured, PTL

\* Freshness is a number.
LEMMA FreshIsInt ==
  ASSUME NEW m \in Int, NEW t \in Int
  PROVE  Fresh(m, t) \in Int /\ FreshnessMax \in Int
BY OrderAssumption DEF Fresh

\* A later date is fresher.
LEMMA FreshGrows ==
  ASSUME NEW m \in Int, NEW n \in Int, NEW t \in Int, m <= n
  PROVE  Fresh(m, t) <= Fresh(n, t)
<1>1. FreshnessMax \in Int
  BY OrderAssumption
<1> QED BY <1>1 DEF Fresh

\* A later date loses no less as time passes.
LEMMA FreshFades ==
  ASSUME NEW m \in Int, NEW n \in Int, NEW t \in Int, NEW u \in Int, m <= n, t <= u
  PROVE  Fresh(m, t) + Fresh(n, u) <= Fresh(n, t) + Fresh(m, u)
<1>1. FreshnessMax \in Int
  BY OrderAssumption
<1> QED BY <1>1 DEF Fresh

\* More sources, no less bonus.
LEMMA BonusGrows ==
  ASSUME NEW k \in Nat, NEW l \in Nat, k <= l
  PROVE  BonusOf(k) \in Int /\ BonusOf(l) \in Int /\ BonusOf(k) <= BonusOf(l)
BY DEF BonusOf

-----------------------------------------------------------------------------
(* A further source.                                                          *)

\* More claims, no less score.
LEMMA MoreClaimsScoreMore ==
  ASSUME NEW c, Measured(c), Measured(c)', claims[c] \subseteq claims'[c], now' = now
  PROVE  Score(c) <= Score(c)' /\ Score(c) \in Int /\ Score(c)' \in Int
<1> DEFINE C == claims[c]
           D == claims'[c]
<1>1. Weights(C) \subseteq Weights(D) /\ Founds(C) \subseteq Founds(D) /\ Names(C) \subseteq Names(D)
  BY DEF Weights, Founds, Names
<1>2. /\ Max(Weights(C)) \in Int /\ Max(Weights(D)) \in Int
      /\ Max(Weights(C)) <= Max(Weights(D))
  BY <1>1 DEF Measured
<1>3. /\ Max(Founds(C)) \in Int /\ Max(Founds(D)) \in Int
      /\ Max(Founds(C)) <= Max(Founds(D))
  BY <1>1 DEF Measured
<1>4. /\ Cardinality(Names(C)) \in Nat /\ Cardinality(Names(D)) \in Nat
      /\ Cardinality(Names(C)) <= Cardinality(Names(D))
  <2>1. IsFiniteSet(Names(D)) /\ Cardinality(Names(C)) \in Nat /\ Cardinality(Names(D)) \in Nat
    BY DEF Measured
  <2> QED BY <1>1, <2>1, FS_Subset
<1>5. now \in Int
  BY DEF Measured
<1> DEFINE f == Fresh(Max(Founds(C)), now)
           g == Fresh(Max(Founds(D)), now)
           a == BonusOf(Cardinality(Names(C)))
           b == BonusOf(Cardinality(Names(D)))
           v == Max(Weights(C))
           w == Max(Weights(D))
<1>6. f \in Int /\ g \in Int /\ f <= g
  BY <1>3, <1>5, FreshIsInt, FreshGrows
<1>7. a \in Int /\ b \in Int /\ a <= b
  BY <1>4, BonusGrows
<1>8. Score(c) = v + a + f /\ Score(c)' = w + b + g
  BY DEF Measured
<1>9. v \in Int /\ w \in Int /\ v <= w
  BY <1>2
<1> HIDE DEF f, g, a, b, v, w
<1> QED BY <1>6, <1>7, <1>8, <1>9

\* One more claim never makes a code expire.
LEMMA MoreClaimsExpireLess ==
  ASSUME NEW c, claims[c] # {}, claims[c] \subseteq claims'[c], now' = now, Expired(c)'
  PROVE  Expired(c)
BY DEF Expired

\* One more source of a code never puts it behind another code.
THEOREM SourcesPromote == Spec => NewSourceNeverDemotes
<1> DEFINE A ==
      \A c, d \in Listed \cap Range(list') :
         /\ history' = history /\ now' = now
         /\ claims[c] \subseteq claims'[c] /\ claims'[d] = claims[d]
         /\ Index(list, c) < Index(list, d) <=> Index(list', c) < Index(list', d)
         /\ Precedes(c, d)
         => Precedes(c, d)'
<1>1. ASSUME IInv, IInv' PROVE A
  <2> SUFFICES ASSUME NEW c \in Listed \cap Range(list'), NEW d \in Listed \cap Range(list'),
                      history' = history, now' = now,
                      claims[c] \subseteq claims'[c], claims'[d] = claims[d],
                      Index(list, c) < Index(list, d) <=> Index(list', c) < Index(list', d),
                      Precedes(c, d)
               PROVE  Precedes(c, d)'
    OBVIOUS
  <2>1. HistoryBefore(c, d)' = HistoryBefore(c, d) /\ HistoryTied(c, d)' = HistoryTied(c, d)
    BY SameHistory, KeptHistory DEF HistoryBefore, HistoryTied
  <2>2. Measured(c) /\ Measured(d) /\ Measured(c)' /\ Measured(d)'
    BY <1>1, ListedIsMeasured, ListedIsMeasuredNext DEF Listed
  <2>3. claims[c] # {}
    <3>1. c \in Codes
      BY <1>1, PlainLists DEF IInv, Claiming, Listed
    <3> QED BY <1>1, <3>1 DEF IInv, Claiming, Listed
  <2>4. Score(c) <= Score(c)' /\ Score(c) \in Int /\ Score(c)' \in Int
    BY <2>2, MoreClaimsScoreMore
  <2>5. Score(d)' = Score(d) /\ Score(d) \in Int
    <3>1. Score(d)' = Score(d)
      BY <2>2 DEF Measured
    <3>2. Score(d) \in Int
      BY <2>2, MoreClaimsScoreMore
    <3> QED BY <3>1, <3>2
  <2>6. Expired(c)' => Expired(c)
    BY <2>3, MoreClaimsExpireLess
  <2>7. Expired(d)' = Expired(d)
    BY DEF Expired
  <2>8. Expired(c) \in BOOLEAN /\ Expired(d) \in BOOLEAN /\ Expired(c)' \in BOOLEAN
    BY DEF Expired
  <2>9. CASE HistoryBefore(c, d)
    BY <2>1, <2>9 DEF Precedes
  <2>10. CASE HistoryTied(c, d) /\ SourceBefore(list, c, d)
    <3>1. SourceBefore(list, c, d)'
      <4> DEFINE i == Index(list, c)   j == Index(list, d)
                 k == Index(list', c)  l == Index(list', d)
                 s == Score(c)  t == Score(d)  u == Score(c)'
                 x == Expired(c)  y == Expired(d)  z == Expired(c)'
      <4>1. IF x # y THEN y ELSE s > t \/ (s = t /\ i < j)
        BY <2>10 DEF SourceBefore
      <4>2. SourceBefore(list, c, d)' <=>
              IF z # y THEN y ELSE u > t \/ (u = t /\ k < l)
        BY <2>5, <2>7 DEF SourceBefore
      <4>3. (i < j <=> k < l) /\ (z => x) /\ x \in BOOLEAN /\ y \in BOOLEAN /\ z \in BOOLEAN
        BY <2>6, <2>8
      <4>4. s \in Int /\ t \in Int /\ u \in Int /\ s <= u
        BY <2>4, <2>5
      <4> HIDE DEF i, j, k, l, s, t, u, x, y, z
      <4>5. (s > t => u > t) /\ (s = t => u > t \/ u = t)
        BY <4>4
      <4> QED BY <4>1, <4>2, <4>3, <4>5
    <3> QED BY <2>1, <2>10, <3>1 DEF Precedes
  <2> QED BY <2>9, <2>10 DEF Precedes
<1>2. IInv /\ IInv' => [A]_vars
  BY <1>1
<1> QED BY <1>2, Always, PTL DEF NewSourceNeverDemotes

-----------------------------------------------------------------------------
(* A further day.                                                             *)

\* A day passes, and nothing else.
LEMMA NextDay ==
  ASSUME IInv, Tomorrow
  PROVE  now \in Int /\ now' \in Int /\ now <= now' /\ UNCHANGED <<list, claims, history>>
<1>1. \E d \in Days : d > now /\ now' = Min({e \in Days : e > now})
  BY DEF Tomorrow
<1> DEFINE E == {e \in Days : e > now}
<1>2. E \in SUBSET Nat /\ E # {} /\ now' = Min(E) /\ now \in Nat
  BY <1>1, OrderAssumption DEF IInv
<1>3. Min(E) \in E
  <2> HIDE DEF E
  <2> QED BY <1>2, MinIsMin
<1>4. now' \in Nat /\ now' > now
  BY <1>2, <1>3
<1> QED BY <1>2, <1>4 DEF Tomorrow, tables

\* A day that passes lets a code overtake only an expiring one, or one whose lead was
\* that it was found later.
THEOREM DaysOnlyFade == Spec => TimeOnlyFades
<1> DEFINE A ==
      Tomorrow =>
       \A c, d \in Listed :
         Precedes(c, d) /\ Precedes(d, c)' =>
           \/ ~Expired(c) /\ Expired(c)'
           \/ Max({x.found : x \in claims[c]}) > Max({x.found : x \in claims[d]})
<1>1. ASSUME IInv, IInv' PROVE A
  <2> SUFFICES ASSUME Tomorrow, NEW c \in Listed, NEW d \in Listed,
                      Precedes(c, d), Precedes(d, c)', Expired(c) \/ ~Expired(c)'
               PROVE  Max(Founds(claims[c])) > Max(Founds(claims[d]))
    BY DEF Founds
  <2>1. now \in Int /\ now' \in Int /\ now <= now' /\ UNCHANGED <<list, claims, history>>
    BY <1>1, NextDay
  <2>2. /\ HistoryBefore(c, d)' <=> HistoryBefore(c, d)
        /\ HistoryBefore(d, c)' <=> HistoryBefore(d, c)
        /\ HistoryTied(c, d)' <=> HistoryTied(c, d)
        /\ HistoryTied(d, c)' <=> HistoryTied(d, c)
    BY <2>1, SameHistory, KeptHistory
  <2>3. Known(c) /\ Known(d)
    BY <1>1, AllKnown DEF IInv
  <2>4. /\ HistoryBefore(c, d) => ~HistoryTied(d, c) /\ ~HistoryBefore(d, c)
        /\ HistoryBefore(d, c) => ~HistoryTied(c, d)
    BY <2>3, HistoryDecides
  <2>5. SourceBefore(list, c, d) /\ SourceBefore(list, d, c)'
    BY <2>2, <2>4 DEF Precedes
  <2>6. Measured(c) /\ Measured(d) /\ Measured(c)' /\ Measured(d)'
    <3>1. Listed' = Listed
      BY <2>1 DEF Listed, Range
    <3> QED BY <1>1, <3>1, ListedIsMeasured, ListedIsMeasuredNext
  <2>7. /\ Expired(c) => Expired(c)'
        /\ Expired(d) => Expired(d)'
    <3>1. ASSUME NEW x \in Listed, Expired(x) PROVE Expired(x)'
      <4>1. \A y \in claims[x] : y.expires # Never => y.expires \in Int
        <5>1. x \in Codes
          BY <1>1, PlainLists DEF IInv, Claiming, Listed
        <5> QED BY <1>1, <5>1 DEF IInv, Claiming
      <4> QED BY <2>1, <3>1, <4>1 DEF Expired
    <3> QED BY <3>1
  <2>8. /\ Expired(c) \in BOOLEAN /\ Expired(d) \in BOOLEAN
        /\ Expired(c)' \in BOOLEAN /\ Expired(d)' \in BOOLEAN
    BY DEF Expired
  <2> DEFINE m == Max(Founds(claims[c]))
             n == Max(Founds(claims[d]))
             p == Max(Weights(claims[c])) + BonusOf(Cardinality(Names(claims[c])))
             q == Max(Weights(claims[d])) + BonusOf(Cardinality(Names(claims[d])))
             i == Index(list, c)
             j == Index(list, d)
  <2>9. m \in Int /\ n \in Int /\ p \in Int /\ q \in Int
    <3>1. /\ Max(Weights(claims[c])) \in Int /\ Max(Weights(claims[d])) \in Int /\ m \in Int /\ n \in Int
          /\ Cardinality(Names(claims[c])) \in Nat /\ Cardinality(Names(claims[d])) \in Nat
      BY <2>6 DEF Measured
    <3>2. BonusOf(Cardinality(Names(claims[c]))) \in Int /\ BonusOf(Cardinality(Names(claims[d]))) \in Int
      BY <3>1, BonusGrows
    <3> QED BY <3>1, <3>2
  <2>10. /\ Score(c) = p + Fresh(m, now) /\ Score(d) = q + Fresh(n, now)
         /\ Score(c)' = p + Fresh(m, now') /\ Score(d)' = q + Fresh(n, now')
    BY <2>1, <2>6 DEF Measured
  <2>11. i \in Int /\ j \in Int
    BY <1>1, PlainLists DEF IInv, Claiming, Listed
  <2>12. Score(c) > Score(d) \/ (Score(c) = Score(d) /\ i < j)
    <3>1. ~(Expired(c) # Expired(d))
      <4>1. ASSUME Expired(c) # Expired(d) PROVE FALSE
        <5>1. Expired(d) /\ ~Expired(c)
          BY <2>5, <2>8, <4>1 DEF SourceBefore
        <5>2. Expired(d)' /\ ~Expired(c)'
          BY <2>7, <5>1
        <5> QED BY <2>5, <5>2 DEF SourceBefore
      <4> QED BY <4>1
    <3> QED BY <2>5, <3>1 DEF SourceBefore
  <2>13. Score(d)' > Score(c)' \/ (Score(d)' = Score(c)' /\ j < i)
    <3>1. ~(Expired(c)' # Expired(d)')
      <4>1. ASSUME Expired(c)' # Expired(d)' PROVE FALSE
        <5>1. Expired(c)' /\ ~Expired(d)'
          BY <2>5, <2>8, <4>1 DEF SourceBefore
        <5>2. Expired(c) /\ ~Expired(d)
          BY <2>7, <5>1
        <5> QED BY <2>5, <5>2 DEF SourceBefore
      <4> QED BY <4>1
    <3>2. Index(list, c)' = i /\ Index(list, d)' = j
      BY <2>1 DEF Index
    <3> QED BY <2>5, <3>1, <3>2 DEF SourceBefore
  <2>14. ASSUME m <= n PROVE FALSE
    <3> DEFINE f == Fresh(m, now)   g == Fresh(n, now)
               f2 == Fresh(m, now')  g2 == Fresh(n, now')
    <3> HIDE DEF m, n, p, q, i, j
    <3>1. f \in Int /\ g \in Int /\ f2 \in Int /\ g2 \in Int
      BY <2>1, <2>9, FreshIsInt
    <3>2. f + g2 <= g + f2
      BY <2>1, <2>9, <2>14, FreshFades
    <3>3. p + f > q + g \/ (p + f = q + g /\ i < j)
      BY <2>10, <2>12
    <3>4. q + g2 > p + f2 \/ (q + g2 = p + f2 /\ j < i)
      BY <2>10, <2>13
    <3> HIDE DEF f, g, f2, g2
    <3> QED BY <2>9, <2>11, <3>1, <3>2, <3>3, <3>4
  <2>15. m > n
    <3> HIDE DEF m, n
    <3> QED BY <2>9, <2>14
  <2> QED BY <2>15
<1>2. IInv /\ IInv' => [A]_vars
  BY <1>1
<1> QED BY <1>2, Always, PTL DEF TimeOnlyFades
=============================================================================
