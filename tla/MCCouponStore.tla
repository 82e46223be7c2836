---------------------------- MODULE MCCouponStore ----------------------------
(* Small instances of CouponStore: one shop under three spellings, two codes. *)
EXTENDS CouponStore

CONSTANTS shop, padded, www,  \* "shop.com", " shop.com", "www.shop.com"
          a, b, aPadded,      \* "A", "B", " A"
          hit, miss           \* two results

MCDomains == {shop, padded, www}
MCTexts   == {a, b, aPadded}

MCTrim(s) == IF s = padded THEN shop ELSE IF s = aPadded THEN a ELSE s
MCLookup(d) == shop

MCLists     == {<<>>, <<a>>, <<b, aPadded, a>>}
MCHistories == {<<hit, miss>>}

MCSeed        == [d \in {shop} |-> <<a, b>>]
MCSeedHistory == [d \in {www} |-> <<miss>>]
=============================================================================
