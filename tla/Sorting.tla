------------------------------- MODULE Sorting -------------------------------
(***************************************************************************)
(* Lists as the code goes through them: sorting by a comparator, filtering,   *)
(* and the loop that keeps the best so far.  An order is a set of pairs.      *)
(***************************************************************************)
EXTENDS Naturals, Sequences, FiniteSets, Functions

IsSequence(l) == l \in Seq(Range(l))

Distinct(l) == \A i, j \in DOMAIN l : l[i] = l[j] => i = j

\* indexOf.
Index(l, c) == CHOOSE i \in DOMAIN l : l[i] = c

Pairs(S) == S \X S

\* Array.prototype.sort: the elements of S in the order that the pairs of before state.
Sorted(S, before) ==
  [k \in 1 .. Cardinality(S) |-> CHOOSE c \in S :
     Cardinality({d \in S : <<d, c>> \in before}) = k - 1]

InOrder(places) == Sorted(places, {p \in Pairs(places) : p[1] < p[2]})

\* Array.prototype.filter: what l has at some of its places.
Kept(l, places) == [k \in 1 .. Cardinality(places) |-> l[InOrder(places)[k]]]

\* A loop over 1 .. n that begins with 0 and takes k when <<k, what it has>> is in takes.
LastTaken(n, takes) ==
  LET has[k \in 0 .. n] ==
        IF k = 0 THEN 0 ELSE IF <<k, has[k - 1]>> \in takes THEN k ELSE has[k - 1]
  IN has[n]
=============================================================================
