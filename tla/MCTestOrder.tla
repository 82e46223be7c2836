----------------------------- MODULE MCTestOrder -----------------------------
(* Small instances of TestOrder: three codes, one provider. *)
EXTENDS TestOrder

CONSTANTS a, b, c

MCCodes == {a, b, c}
MCWeight == [s \in Sources |->
  IF s = "admin" THEN 30 ELSE IF s = "import" THEN 20 ELSE IF s = "seed" THEN 10 ELSE 15]

MCSeedList == <<a, b>>
MCLists == {<<b, a, c>>, <<c, b>>}
MCOffers == {[codes |-> <<c, a>>, expires |-> [x \in {a, c} |-> IF x = c THEN 5 ELSE Never]],
             [codes |-> <<b>>, expires |-> [x \in {b} |-> 0]]}
MCHistories == {<<[code |-> a, ok |-> TRUE, saved |-> 1, at |-> 0],
                  [code |-> b, ok |-> TRUE, saved |-> 1, at |-> 0]>>}
=============================================================================
