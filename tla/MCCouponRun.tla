----------------------------- MODULE MCCouponRun -----------------------------
(* Small instances of CouponRun: three codes, one refused everywhere.        *)
EXTENDS CouponRun

CONSTANTS r1, r2, save1, save10, bogus

MCCodes == {save1, save10, bogus}

\* SAVE10 contains the text of SAVE1.
MCContains == [c \in MCCodes |-> IF c = save10 THEN {save1, save10} ELSE {c}]

Valid == {save1, save10}

MCPrice == [S \in SUBSET MCCodes |->
  9 - (IF save1 \in S THEN 2 ELSE 0) - (IF save10 \in S THEN 4 ELSE 0)]

\* Merchants that replace the discount, stack discounts, or keep the first.
Replaces  == [S \in SUBSET MCCodes |-> [c \in MCCodes |->
                IF c \in Valid THEN {c} ELSE S]]
Stacks    == [S \in SUBSET MCCodes |-> [c \in MCCodes |->
                IF c \in Valid THEN S \cup {c} ELSE S]]
KeepsOne  == [S \in SUBSET MCCodes |-> [c \in MCCodes |->
                IF c \in Valid /\ S = {} THEN {c} ELSE S]]

\* How a page shows discounts, and whether it leaves its input filled.
Tag(t, k) == [tags |-> t, keepsInput |-> k]

SitesOf(redeems, prompts, busies, clears, removables, collapses, blanks,
        banners, tags) ==
  { [price |-> MCPrice, redeem |-> f, prompt |-> p, showsBusy |-> y,
     clearsError |-> e, removable |-> v, collapses |-> k, blanks |-> n,
     banner |-> w, tags |-> t.tags, keepsInput |-> t.keepsInput] :
      f \in redeems, p \in prompts, y \in busies, e \in clears,
      v \in removables, k \in collapses, n \in blanks, w \in banners,
      t \in tags }

\* Pages that keep no promise: slow, folding, blanking, with stale errors, with
\* and without a busy marker, remove buttons, or a banner that names a code; with
\* tags that are read, mistaken for the input's text, or not seen.
AnySites ==
  SitesOf({Replaces}, {FALSE}, {TRUE}, {FALSE}, {TRUE}, {TRUE}, {TRUE}, {{}},
          {Tag("worded", TRUE), Tag("bare", TRUE)})
  \cup
  SitesOf({KeepsOne}, {FALSE}, {FALSE}, {FALSE}, {FALSE}, {TRUE}, {TRUE}, {{save10}},
          {Tag("plain", FALSE)})

\* A page the script can work with.
CleanSites == SitesOf({Replaces, Stacks, KeepsOne}, {TRUE}, {TRUE, FALSE},
                      {TRUE}, {TRUE}, {FALSE}, {TRUE, FALSE}, {{}},
                      {Tag("worded", TRUE), Tag("bare", FALSE)})

\* The plainest of these.
PlainSites == SitesOf({Replaces}, {TRUE}, {FALSE}, {TRUE}, {TRUE}, {FALSE}, {FALSE},
                      {{}}, {Tag("worded", FALSE)})

AllSites     == AnySites \cup CleanSites

NoDiscount   == {{}}
AnyDiscount  == {{}, {save1}}
Lists3       == {<<>>, <<bogus>>, <<save1, save10>>, <<bogus, save1, save10>>,
                 <<save10, bogus, save1>>}
Lists1       == {<<save1, bogus>>}

\* What CouponRunProofs asks of merchants holds of those tried here.
ASSUME MerchantsOfTheTheorems == OneCodeEach /\ NeverDearer
=============================================================================
