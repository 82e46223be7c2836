--------------------------- MODULE MCSourceRefresh ---------------------------
(* Small instances of SourceRefresh: two stores, two codes.                  *)
EXTENDS SourceRefresh, TLC

CONSTANTS shop, mall, save, bogus, q1, q2

MCDomains == {shop, mall}
MCOrder   == <<mall, shop>>

Lists(d, c) == [domain |-> d, code |-> c]

\* The provider may list a code of another store, and may list nothing for mall.
MCAnswers == [d \in MCDomains |->
  IF d = shop THEN {{Lists(shop, save), Lists(mall, bogus)}, {Lists(shop, save)}}
  ELSE {{}, {Lists(mall, save)}}]

\* The provider has begun to list bogus for both, and always does; a store starts
\* with save alone.
NewlyListed == [d \in MCDomains |->
  IF d = shop THEN {{Lists(d, save), Lists(d, bogus)}, {Lists(d, bogus)}}
  ELSE {{Lists(d, save), Lists(d, bogus), Lists(shop, save)}}]

MCEdits == {{}, {bogus}}

ShopOnly == [d \in MCDomains |-> IF d = shop THEN {save} ELSE {}]
BothOf   == [d \in MCDomains |-> {save}]
OneStart == {ShopOnly}
AnyStart == {ShopOnly, BothOf}
BothStart == {BothOf}

Alike == Permutations({q1, q2})
=============================================================================
