------------------------------- MODULE Answers -------------------------------
(***************************************************************************)
(* The calculations of Salvare that keep no state, asked one question after   *)
(* another: the arithmetic of the demo (CouponEngine), the mapping of a       *)
(* provider's rows (OfferRows), the readers of the settings                  *)
(* (ProviderSettings), the vetting of profiles (ProfileChecks), and the       *)
(* views of provenance and caches (SourceViews).                             *)
(*                                                                          *)
(* The state is the question that is being answered; each kind of question    *)
(* is an action, for an entry point that somebody calls with it.             *)
(***************************************************************************)
EXTENDS CouponEngine, OfferRows, ProviderSettings, ProfileChecks, SourceViews

CONSTANTS
  Carts, CouponLists, Categories,    \* what the demo may be asked about
  Bodies,                            \* Bodies[p]: what p may answer
  Environments, Ids,                 \* settings, and ids a caller may name
  ProfileLists, FixtureSources, FixtureExpectations,
  CodeLists, ClaimLists,             \* a store's codes, and the claims for them
  Caches, Now                        \* the cache rows of a source, and the time

ASSUME EngineAsked ==
  /\ \A cart \in Carts : IsCart(cart)
  /\ \A coupons \in CouponLists : IsSequence(coupons) /\ \A i \in DOMAIN coupons : IsCoupon(coupons[i])

ASSUME RowsAsked == \A p \in DOMAIN Bodies : p \in Adapters /\ \A body \in Bodies[p] : IsAnswer(body)

ASSUME ProfilesAsked == \A profiles \in ProfileLists : IsProfileList(profiles)

ASSUME ViewsAsked ==
  /\ \A codes \in CodeLists : IsSequence(codes)
  /\ \A claims \in ClaimLists : IsClaimList(claims)
  /\ \A cache \in Caches : IsCache(cache)
  /\ Now \in Nat

VARIABLE question

NoQuestion == [kind |-> "none", about |-> <<>>]

Ask(kind, about) ==
  question = NoQuestion /\ question' = [kind |-> kind, about |-> about]

Answered == question # NoQuestion /\ question' = NoQuestion

\* handleFindBest of the demo page.
AskEngine == \E cart \in Carts, coupons \in CouponLists : Ask("engine", <<cart, coupons>>)

\* An answer of a provider, or a fixture.
AskRows == \E p \in DOMAIN Bodies : \E body \in Bodies[p] : Ask("rows", <<p, body>>)

\* A call that names a provider.
AskSettings == \E env \in Environments, id \in Ids : Ask("settings", <<env, id>>)

\* npm run profiles:verify.
AskProfiles ==
  \E profiles \in ProfileLists, sources \in FixtureSources : Ask("profiles", <<profiles, sources>>)

\* GET /coupons and GET /admin/source-summary.
AskViews == \E codes \in CodeLists, claims \in ClaimLists : Ask("views", <<codes, claims>>)

\* GET /admin/source-status.
AskStatus == \E cache \in Caches : Ask("status", <<cache, Now>>)

Init == question = NoQuestion

Next ==
  AskEngine \/ AskRows \/ AskSettings \/ AskProfiles \/ AskViews \/ AskStatus \/ Answered

Spec == Init /\ [][Next]_question

-----------------------------------------------------------------------------
Asked(kind) == question.kind = kind

\* The demo's page and findBestCoupon, which the page does not use, choose the same
\* coupon for every cart and list (App.tsx:90-97, couponEngine.ts:132-145).
TwoBestsAgree ==
  Asked("engine") => BestCouponsAgree(question.about[1], question.about[2])

\* A coupon that the page suggests to spend for is one that pays, as much as the page
\* says (couponEngine.ts:155-200).
SuggestionsPay ==
  Asked("engine") => SuggestedCouponsPay(question.about[1], question.about[2], Categories)

\* The candidates read from an answer are what the cache gives back for it
\* (source-provider-pipeline.ts:150-209).
CacheGivesBack ==
  Asked("rows") => StoredCandidatesReadBack(question.about[1], question.about[2])

\* The candidates are the usable offers, and every other row is accounted for
\* (source-adapters.ts:205-267, source-provider-pipeline.ts:472-500).
CandidatesAreTheOffers ==
  Asked("rows") => UsableOffersBecomeCandidates(question.about[1], question.about[2])

\* Everyone who reads the settings comes to the same answer
\* (source-provider-config.ts, source-provider-registry.ts, scheduled-refresh.ts).
OneMindOnSettings == Asked("settings") => SettingsAgree(question.about[1], question.about[2])

\* Profiles that pass the tool serve their shops (extension/profileVerify.ts:220-303).
VettedProfilesServe ==
  Asked("profiles") =>
    VerifiedProfilesServe(question.about[1], question.about[2], FixtureExpectations)

\* What is shown of the sources is one story (coupons.ts:36-86, db-source-summary.ts,
\* db-source-status.ts, db-source-cache.ts:472-486).
OneStoryOfSources ==
  /\ Asked("views") => ViewsAgree(question.about[1], question.about[2])
  /\ Asked("status") => StatusMatchesGate(question.about[1], question.about[2])
=============================================================================
