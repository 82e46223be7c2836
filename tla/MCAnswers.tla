------------------------------ MODULE MCAnswers ------------------------------
(* Bounded questions for Answers: every combination of a few values of each   *)
(* field, where its cases differ.                                            *)
EXTENDS Answers, TLC

UpTo(n, S) == UNION {[1 .. k -> S] : k \in 0 .. n}

-----------------------------------------------------------------------------
(* Carts of up to two items, lists of up to two coupons.                     *)

MCCategories == {"shoes", "books"}

MCItems ==
  {[category |-> c, price |-> p, quantity |-> q, onSale |-> s] :
     <<c, p, q, s>> \in {<<"shoes", 4, 1, FALSE>>, <<"shoes", 3, 2, TRUE>>,
                         <<"books", 1, 1, FALSE>>, <<"books", 5, 1, TRUE>>}}

MCCarts == [items: UpTo(2, MCItems), shipping: {0, 3}]

Coupon(type, value, min, max, categories, excludes) ==
  [type |-> type, value |-> value, minSpend |-> min, maxDiscount |-> max,
   categories |-> categories, excludeSaleItems |-> excludes]

MCCoupons ==
  {Coupon("percentage", v, min, max, cats, FALSE) :
     v \in {1, 3}, min \in {NoLimit, 7}, max \in {NoLimit, 2}, cats \in {{}, {"shoes"}}}
  \cup {Coupon("percentage", 1, NoLimit, NoLimit, {}, TRUE),
        Coupon("fixed", 9, 6, NoLimit, {}, TRUE)}
  \cup {Coupon("fixed", v, min, NoLimit, {}, FALSE) : v \in {2, 9}, min \in {NoLimit, 7}}
  \cup {Coupon("free_shipping", 0, min, max, {}, FALSE) :
          min \in {NoLimit, 7}, max \in {NoLimit, 2}}

\* Any one coupon, and any two that have no cap or no minimum spend.
MCCouponLists ==
  UpTo(1, MCCoupons)
  \cup [1 .. 2 -> {c \in MCCoupons : c.categories = {} /\ NoLimit \in {c.maxDiscount, c.minSpend}}]

-----------------------------------------------------------------------------
(* Rows: one of each part, and bodies of one, two or three rows.             *)

MCHosts  == {"shop", "mall"}
MCHostIn == [u \in {"http:shop", "http:localhost"} |->
               IF u = "http:shop" THEN "shop" ELSE NoHost]
MCCodeTypes == [awin |-> {"code"}, impact |-> {"code", "coupon"}]

Padded(word) == [Text(word) EXCEPT !.pad = TRUE]
Upper(word)  == [Text(word) EXCEPT !.upper = TRUE]

With(name, v) == [n \in {name} |-> v]
No            == [n \in {} |-> Absent]

Rowed(parts) == {d @@ t @@ c @@ l : d \in parts.domain, t \in parts.type,
                                    c \in parts.code, l \in parts.label}

AwinParts ==
  [domain |-> {With("domain", Text("shop")), With("domain", Padded("shop")),
               With("domain", Null) @@ With("merchantUrl", Text("http:shop")),
               With("merchantUrl", Text("http:localhost")) @@ With("url", Upper("mall")),
               With("domain", Text("junk")), No},
   type |-> {With("promotionType", Text("code")), With("promotionType", Upper("code")),
             With("promotionType", Text(Blank)) @@ With("type", Text("code")),
             With("promotionType", Other) @@ With("type", Text("code")),
             With("type", Padded("code")), No},
   code |-> {With("code", Text("save")), With("code", Padded("save")),
             With("code", Upper("save")), With("voucherCode", Text("save")),
             With("code", Null) @@ With("voucherCode", Text("save")),
             With("code", Text("long")), No},
   label |-> {No, With("title", Padded("nice")), With("title", Null) @@ With("description", Text("nice")),
              With("description", Other), With("endDate", Text("junk")),
              With("validTo", Text("2026"))}]

ImpactParts ==
  [domain |-> {With("Domain", Text("shop")), With("AdvertiserUrl", Text("http:shop")),
               With("domain", Other) @@ With("url", Text("mall")), No},
   type |-> {With("PromotionType", Text(Blank)) @@ With("Type", Text("coupon")),
             With("PromotionType", Padded(Blank)) @@ With("Type", Text("coupon")),
             With("offerType", Upper("code")), No},
   code |-> {With("PromoCode", Padded("save")), With("CouponCode", Text("save")),
             With("Code", Text(Blank)) @@ With("couponCode", Text("save")), No},
   label |-> {No, With("Name", Other), With("ExpiresAt", Padded("2026"))}]

FixtureParts ==
  [domain |-> {With("domain", Text("shop")), With("domain", Upper("shop")), With("domain", Null)},
   type |-> {No, With("confidence", Tenths(10)), With("confidence", Tenths(11)),
             With("confidence", Text(Blank)), With("confidence", Padded(Blank)),
             With("confidence", Null)},
   code |-> {With("code", Text("save")), With("code", Padded("save"))},
   label |-> {No, With("label", Text("long")), With("sourceUrl", Text("http:shop")),
              With("sourceUrl", Text("junk")), With("expiresAt", Padded(Blank))}]

\* Rows that differ in what makes two candidates one.
AwinClose ==
  {With("domain", d) @@ With("type", Text("code")) @@ With("code", c) @@ With("title", l) :
     d \in {Text("shop"), Padded("shop")}, c \in {Text("save"), Padded("save"), Upper("save")},
     l \in {Text("nice"), Other}} \cup {NotARow, With("type", Text("other"))}

Single(field, rows) == {With(field, <<r>>) : r \in rows}

MCBodies ==
  [awin |-> Single("offers", Rowed(AwinParts))
            \cup {With("offers", rows) : rows \in UpTo(3, AwinClose)}
            \cup {NotARow, With("offers", Other), With("items", <<>>)},
   impact |-> Single("Promotions", Rowed(ImpactParts))
              \cup {With("Promotions", Other) @@ With("promotions", <<r>>) : r \in Rowed(ImpactParts)}
              \cup {NotARow, No},
   json |-> Single("items", Rowed(FixtureParts)) \cup {With("items", <<>>), No}
            \cup {With("items", rows) : rows \in [1 .. 2 -> {r \in Rowed(FixtureParts) :
                     Field(r, "label") = Absent /\ Field(r, "sourceUrl") = Absent}]},
   html |-> Single("items", Rowed(FixtureParts)) \cup {With("items", <<>>)}]

-----------------------------------------------------------------------------
(* Environments: every value of the variables that one reader combines.      *)

Set(word) == [word |-> word, pad |-> FALSE]
Spaced(word) == [word |-> word, pad |-> TRUE]
MCValueOf == "0" :> 0 @@ "1" :> 1 @@ "2" :> 2 @@ "3" :> 3 @@ "5" :> 5 @@ "7" :> 7

Flags == {Unset, Set("true"), Spaced("true"), Set("on")}
Keys  == {Unset, Spaced(NoWord), Set("key")}

MCEnvironments ==
  [SOURCE_PROVIDER_ENABLED: Flags, SOURCE_PROVIDER: {Unset, Spaced("awin"), Set("impact")},
   AWIN_API_KEY: Keys, IMPACT_ENABLED: {Unset, Set("true")}, IMPACT_API_KEY: Keys,
   IMPACT_ACCOUNT_SID: Keys, SCHEDULED_REFRESH_ENABLED: {Set("true")},
   SCHEDULED_REFRESH_INTERVAL_MS: {Set("5")}]
  \cup
  [SOURCE_PROVIDER_ENABLED: {Set("true")}, SOURCE_PROVIDER: {Set("awin")},
   AWIN_API_KEY: Keys, IMPACT_ENABLED: {Set("true")}, IMPACT_API_KEY: {Set("key")},
   IMPACT_ACCOUNT_SID: {Set("key")}, SCHEDULED_REFRESH_ENABLED: Flags,
   SCHEDULED_REFRESH_INTERVAL_MS:
     {Unset, Set(NoWord), Set("on")} \cup {Set(w) : w \in DOMAIN ValueOf}]

-----------------------------------------------------------------------------
(* Profiles: the one of localhost, with up to two others.                    *)

Selectors(v) == [k \in SelectorKeys |-> IF k = "total" THEN v ELSE Missing]

Profile(id, domain, codes, total) ==
  [id |-> id, domain |-> domain, candidateCodes |-> codes, selectors |-> Selectors(total)]

Local == Profile("local", Host("localhost"), <<"save">>, Missing)

Spellings == {[Host("shop") EXCEPT !.www = w, !.upper = u] : w, u \in BOOLEAN}

OneProfile ==
  {Profile(id, domain, codes, total) :
     id \in {Missing, "store", "Store!"}, domain \in Spellings \cup {Missing, Host("token")},
     codes \in {<<>>, <<"save">>, <<"save", Blanks>>}, total \in {Missing, Blanks, "token"}}

MCProfileLists ==
  {<<>>} \cup {<<Local>>} \cup {<<p, Local>> : p \in OneProfile}
  \cup {<<p, Local, Profile("other", d, <<"save">>, Missing)>> :
          p \in OneProfile, d \in Spellings \cup {Host("localhost"), Host("mall")}}

Scan(input, button, total) == [input |-> input, button |-> button, total |-> total]

MCExpectations ==
  [alt |-> "ready", missing_input |-> "coupon_input_missing",
   missing_button |-> "apply_button_missing", missing_total |-> "total_missing"]

MCFixtureSources ==
  {[alt |-> Scan(TRUE, TRUE, TRUE), missing_input |-> Scan(FALSE, b, TRUE),
    missing_button |-> s, missing_total |-> Scan(TRUE, TRUE, FALSE)] :
     b \in BOOLEAN, s \in {Scan(TRUE, FALSE, TRUE), Scan(TRUE, TRUE, TRUE), NoProfile}}

-----------------------------------------------------------------------------
(* Claims of three sources for two codes, and caches of two keys.            *)

MCTypeOf == [awin |-> "api", impact |-> "api", seed |-> "seed"]
MCTypePriority == [api |-> 3, seed |-> 2]

MCClaims == [code: {"save", "take"}, source: DOMAIN MCTypeOf,
             confidence: {Nothing, 1, MaxConfidence + 1}, date: {0, 1}]

\* UNIQUE(store_id, code, source_id)
MCClaimLists ==
  {claims \in UpTo(2, MCClaims) :
     \A i, j \in DOMAIN claims :
       i # j => <<claims[i].code, claims[i].source>> # <<claims[j].code, claims[j].source>>}
  \cup {claims \in [1 .. 3 -> [code: {"save"}, source: DOMAIN MCTypeOf,
                               confidence: {Nothing, 1}, date: {0, 1}]] :
          \A i, j \in 1 .. 3 : i # j => claims[i].source # claims[j].source}

MCCodeLists == {<<>>, <<"take">>, <<"save", "take">>, <<"take", "save", "more">>}

MCCaches == UNION {[keys -> [expires: 0 .. 3, candidates: {Nothing, 0, 2}]] :
                     keys \in SUBSET {"merchant:shop", "other", "third"}}
=============================================================================
