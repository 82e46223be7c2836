----------------------------- MODULE AnswersProofs -----------------------------
(***************************************************************************)
(* The answers are the ones they should be, for everything that may be asked: *)
(* the readers of the settings agree, profiles that the tool passes serve,    *)
(* what is shown of the sources is one story, the arithmetic of the demo      *)
(* chooses and suggests rightly, and the rows of an answer become the right   *)
(* candidates and come back from the cache.                                  *)
(***************************************************************************)
EXTENDS Answers, SortingProofs

\* A question is one of those that the constants list.
MayBeAsked ==
  /\ Asked("engine") => question.about[1] \in Carts /\ question.about[2] \in CouponLists
  /\ Asked("rows") => question.about[1] \in DOMAIN Bodies /\ question.about[2] \in Bodies[question.about[1]]
  /\ Asked("profiles") => question.about[1] \in ProfileLists
  /\ Asked("views") => question.about[1] \in CodeLists /\ question.about[2] \in ClaimLists
  /\ Asked("status") => question.about[1] \in Caches /\ question.about[2] = Now

\* No other question comes up.
LEMMA OnlyWhatMayBeAsked == Spec => []MayBeAsked
<1>1. Init => MayBeAsked
  BY DEF Init, NoQuestion, MayBeAsked, Asked
<1>2. MayBeAsked /\ [Next]_question => MayBeAsked'
  <2> SUFFICES ASSUME MayBeAsked, [Next]_question PROVE MayBeAsked'
    OBVIOUS
  <2>1. CASE AskEngine
    BY <2>1 DEF AskEngine, Ask, MayBeAsked, Asked
  <2>2. CASE AskRows
    BY <2>2 DEF AskRows, Ask, MayBeAsked, Asked
  <2>3. CASE AskSettings
    BY <2>3 DEF AskSettings, Ask, MayBeAsked, Asked
  <2>4. CASE AskProfiles
    BY <2>4 DEF AskProfiles, Ask, MayBeAsked, Asked
  <2>5. CASE AskViews
    BY <2>5 DEF AskViews, Ask, MayBeAsked, Asked
  <2>6. CASE AskStatus
    BY <2>6 DEF AskStatus, Ask, MayBeAsked, Asked
  <2>7. CASE Answered
    BY <2>7 DEF Answered, NoQuestion, MayBeAsked, Asked
  <2>8. CASE UNCHANGED question
    BY <2>8 DEF MayBeAsked, Asked
  <2> QED BY <2>1, <2>2, <2>3, <2>4, <2>5, <2>6, <2>7, <2>8 DEF Next
<1> QED BY <1>1, <1>2, PTL DEF Spec
-----------------------------------------------------------------------------
(* The settings.                                                              *)

\* A configuration is enabled just when it passes the gate of its provider.
LEMMA EnabledPassesTheGate ==
  ASSUME NEW p \in Providers, NEW env
  PROVE  LET config == ReadConfig(p, env)
         IN /\ config.enabled \in BOOLEAN
            /\ config.enabled <=> Gate(p, config) = "open"
<1>1. CASE p = "awin"
  BY <1>1 DEF ReadConfig, ReadAwinConfig, Gate, Off, On
<1>2. CASE p = "impact"
  BY <1>2 DEF ReadConfig, ReadImpactConfig, Gate, Off, On
<1> QED BY <1>1, <1>2 DEF Providers

\* Only Awin is offered, and for both purposes.
LEMMA AwinIsOffered ==
  ASSUME NEW id
  PROVE  /\ id \in DOMAIN SourceProviders <=> id = "awin"
         /\ id = "awin" => /\ SourceProviders[id].enabled
                           /\ SourceProviders[id].previewEnabled
                           /\ SourceProviders[id].importEnabled
         /\ \A purpose \in {"preview", "import"} :
              /\ ResolveProvider(id, purpose) = "ok" <=> id = "awin"
              /\ ResolveProvider(id, purpose) # "open"
<1>1. Activation["awin"].userExposed /\ ~Activation["impact"].userExposed
  BY DEF Activation
<1>2. DOMAIN SourceProviders = {"awin"}
  BY <1>1 DEF SourceProviders, Providers
<1>3. /\ SourceProviders["awin"].enabled
      /\ SourceProviders["awin"].previewEnabled
      /\ SourceProviders["awin"].importEnabled
  BY <1>1 DEF SourceProviders, Providers, Activation
<1>4. \A purpose \in {"preview", "import"} :
         /\ ResolveProvider(id, purpose) = "ok" <=> id = "awin"
         /\ ResolveProvider(id, purpose) # "open"
  BY DEF ResolveProvider, ClassifyActivation, Providers, Activation
<1> QED BY <1>2, <1>3, <1>4

\* An interval of the scheduler that the timer can count is kept.
LEMMA CountableIntervalIsKept ==
  ASSUME NEW delay \in TTL .. MaxDelay
  PROVE  Period(delay) >= TTL
BY SettingsAssumption DEF Period

\* Whatever the variables hold, and whatever id is named: the status page, the routes,
\* the list of providers, the CLI's runner and the scheduler agree on what may be
\* fetched (source-provider-config.ts, source-provider-registry.ts:255-266,
\* scheduled-refresh.ts:58-87).
THEOREM ReadersAgree == ASSUME NEW env, NEW id PROVE SettingsAgree(env, id)
<1> DEFINE status == StatusFor(id, env)
           offered == id \in DOMAIN SourceProviders /\ SourceProviders[id].enabled
<1>1. id \in Providers => (status.configured <=> Gate(id, ReadConfig(id, env)) = "open")
  BY EnabledPassesTheGate DEF StatusFor, ProviderStatusFromConfig
<1>2. status.configured => status.featureEnabled
  BY DEF StatusFor, ProviderStatusFromConfig
<1>3. /\ offered /\ SourceProviders[id].previewEnabled <=> ResolveProvider(id, "preview") = "ok"
      /\ offered /\ SourceProviders[id].importEnabled <=> ResolveProvider(id, "import") = "ok"
  BY AwinIsOffered
<1>4. RouteCall(id, "import", env) = "open" =>
        RouteCall(id, "preview", env) = "open" /\ status.configured
  BY <1>1, AwinIsOffered DEF RouteCall, Providers
<1>5. RefreshCall(id, env) = "open" <=> RouteCall(id, "import", env) = "open"
  <2>1. RefreshCall(id, env) =
          IF id # "awin" THEN "unknown_provider"
          ELSE IF ~ReadAwinConfig(env).enabled THEN ReadAwinConfig(env).reason
          ELSE Gate("awin", ReadAwinConfig(env))
    BY DEF RefreshCall, Activation, Providers
  <2>2. ReadAwinConfig(env).reason # "open"
    BY DEF ReadAwinConfig, Off, On
  <2>3. ReadConfig("awin", env) = ReadAwinConfig(env)
    BY DEF ReadConfig
  <2>4. RouteCall(id, "import", env) = "open" <=>
          id = "awin" /\ Gate(id, ReadConfig(id, env)) = "open"
    BY AwinIsOffered DEF RouteCall
  <2> QED BY <2>1, <2>2, <2>3, <2>4, EnabledPassesTheGate DEF Providers
<1>6. id \in Scheduled(env) => RefreshCall(id, env) = "open"
  <2>1. SUFFICES ASSUME id \in Scheduled(env) PROVE RefreshCall(id, env) = "open"
    OBVIOUS
  <2>2. id = "awin" /\ id \in Providers /\ ReadConfig(id, env).enabled
    BY <2>1 DEF Scheduled, Providers
  <2>3. RouteCall(id, "import", env) = "open"
    BY <2>2, AwinIsOffered, EnabledPassesTheGate DEF RouteCall
  <2> QED BY <2>3, <1>5
<1>7. ScheduledInterval(env) \in TTL .. MaxDelay => Period(ScheduledInterval(env)) >= TTL
  BY CountableIntervalIsKept
<1> QED BY <1>1, <1>2, <1>3, <1>4, <1>5, <1>6, <1>7 DEF SettingsAgree

\* Everyone who reads the settings comes to the same answer, for whatever environments
\* and ids may be asked about (source-provider-config.ts, scheduled-refresh.ts).
THEOREM SettingsAreOne == Spec => []OneMindOnSettings
<1>1. Init => OneMindOnSettings
  BY ReadersAgree DEF OneMindOnSettings
<1>2. OneMindOnSettings /\ [Next]_question => OneMindOnSettings'
  BY ReadersAgree DEF OneMindOnSettings
<1> QED BY <1>1, <1>2, PTL DEF Spec
-----------------------------------------------------------------------------
(* Profiles.                                                                  *)

\* What a passing check says of a list of profiles.
Vetted(profiles) ==
  /\ \A i \in DOMAIN profiles : IsNonEmptyString(profiles[i].domain) /\ profiles[i].candidateCodes # <<>>
  /\ Unique(DomainsOf(profiles))
  /\ LocalhostServes(profiles)

\* No check fails: what was checked holds.
LEMMA PassedIsVetted ==
  ASSUME NEW profiles, VerifyProfiles(profiles) = {}
  PROVE  Vetted(profiles)
<1>1. ASSUME NEW i \in DOMAIN profiles
      PROVE  IsNonEmptyString(profiles[i].domain) /\ profiles[i].candidateCodes # <<>>
  <2>1. VerifyOneProfile(profiles[i]) = {}
    BY DEF VerifyProfiles
  <2> DEFINE p == profiles[i]
             checks == [id_present |-> IsNonEmptyString(p.id),
              id_format |-> IsNonEmptyString(p.id) => p.id \in GoodIds,
              domain_present |-> IsNonEmptyString(p.domain),
              candidate_codes_present |-> p.candidateCodes # <<>>,
              candidate_codes_non_empty |->
                \A n \in DOMAIN p.candidateCodes : IsNonEmptyString(p.candidateCodes[n]),
              selector_non_empty |->
                \A s \in {p.selectors[k] : k \in SelectorKeys} \ {Missing} : IsNonEmptyString(s),
              no_forbidden_substrings |->
                ({p.id} \cup (IF IsNonEmptyString(p.domain) THEN {p.domain.name} ELSE {})
                   \cup ({p.selectors[k] : k \in SelectorKeys} \ {Missing})) \cap Tainted = {}]
  <2>2. Failing(checks) = {}
    BY <2>1 DEF VerifyOneProfile
  <2>3. checks["domain_present"] /\ checks["candidate_codes_present"]
    <3>1. "domain_present" \in DOMAIN checks /\ "candidate_codes_present" \in DOMAIN checks
      OBVIOUS
    <3> HIDE DEF checks
    <3> QED BY <2>2, <3>1 DEF Failing
  <2> QED BY <2>3
<1>2. Unique(DomainsOf(profiles)) /\ LocalhostServes(profiles)
  <2> DEFINE checks == [profiles_non_empty |-> profiles # <<>>,
                ids_unique |-> Unique(IdsOf(profiles)),
                domains_unique |-> Unique(DomainsOf(profiles)),
                localhost |-> LocalhostServes(profiles)]
  <2>1. Failing(checks) = {}
    <3> DEFINE each == UNION {VerifyOneProfile(profiles[i]) : i \in DOMAIN profiles}
               failing == Failing(checks)
    <3>1. VerifyProfiles(profiles) = failing \cup each
      BY Zenon DEF VerifyProfiles
    <3>2. failing \cup each = {}
      BY <3>1
    <3> HIDE DEF each, failing
    <3>3. failing = {}
      BY <3>2
    <3> QED BY <3>3 DEF failing
  <2>2. checks["domains_unique"] /\ checks["localhost"]
    <3>1. "domains_unique" \in DOMAIN checks /\ "localhost" \in DOMAIN checks
      OBVIOUS
    <3> HIDE DEF checks
    <3> QED BY <2>1, <3>1 DEF Failing
  <2> QED BY <2>2
<1> QED BY <1>1, <1>2 DEF Vetted

\* find answers one of the places that fit, if there is one.
LEMMA FindFinds ==
  ASSUME NEW profiles, IsProfileList(profiles), NEW places \in SUBSET DOMAIN profiles, places # {}
  PROVE  \E i \in places : Find(profiles, places) = profiles[i] /\ profiles[i] # NoProfile
<1>1. DOMAIN profiles \subseteq Nat
  BY DEF IsProfileList, IsSequence
<1>2. Min(places) \in places
  BY <1>1, MinIsMin
<1> QED BY <1>2 DEF Find, IsProfileList

\* Once a profile is found and has codes, what the support check says depends on the
\* page alone.
LEMMA SupportIsOfThePage ==
  ASSUME NEW n \in Nat, n > 0, NEW scan
  PROVE  DeriveSupportReason(TRUE, n, scan) = DeriveSupportReason(TRUE, 1, scan)
BY DEF DeriveSupportReason

\* A host, and the same one spelled in another way.
Spelt(n, w, u)        == [name |-> n, www |-> w, upper |-> u]
Respelt(host, w, u) == [host EXCEPT !.www = w, !.upper = u]

\* The spelling is all that changes.
LEMMA SpeltAnew ==
  ASSUME NEW n, NEW w, NEW u, NEW v, NEW o
  PROVE  Respelt(Spelt(n, w, u), v, o) = Spelt(n, v, o)
<1> DEFINE changed == Respelt(Spelt(n, w, u), v, o)
           anew == Spelt(n, v, o)
<1>1. DOMAIN changed = {"name", "www", "upper"} /\ DOMAIN anew = {"name", "www", "upper"}
  BY DEF Respelt, Spelt
<1>2. changed["name"] = anew["name"] /\ changed["www"] = anew["www"] /\ changed["upper"] = anew["upper"]
  BY DEF Respelt, Spelt
<1>3. changed = [f \in DOMAIN changed |-> changed[f]] /\ anew = [f \in DOMAIN anew |-> anew[f]]
  BY Zenon DEF Respelt, Spelt
<1> HIDE DEF changed, anew
<1>4. changed = anew
  BY <1>1, <1>2, <1>3
<1> QED BY <1>4 DEF changed, anew

\* A host is looked up by its name, however it is spelled.
LEMMA Spelled ==
  ASSUME NEW d, IsHost(d)
  PROVE  /\ NormalizeLookupDomain(d) = Host(d.name)
         /\ \A w, u \in BOOLEAN :
              NormalizeLookupDomain([d EXCEPT !.www = w, !.upper = u]) = Host(d.name)
<1>1. PICK n, w0, u0 : d = Spelt(n, w0, u0) /\ d.name = n
  BY Zenon DEF IsHost, Spelt
<1>2. ASSUME NEW w, NEW u
      PROVE  NormalizeLookupDomain(Spelt(n, w, u)) = Host(n)
  <2> DEFINE off == FALSE  host == Spelt(n, w, u)
  <2>1. NormalizeLookupDomain(host) = Respelt(host, off, off)
    BY Zenon DEF NormalizeLookupDomain, Respelt
  <2>2. Respelt(host, off, off) = Spelt(n, off, off)
    <3> HIDE DEF off
    <3> QED BY SpeltAnew
  <2> QED BY <2>1, <2>2, Zenon DEF Host, Spelt
<1>3. \A w, u \in BOOLEAN : Respelt(d, w, u) = Spelt(n, w, u)
  BY <1>1, SpeltAnew
<1>4. \A w, u \in BOOLEAN : NormalizeLookupDomain(Respelt(d, w, u)) = Host(n)
  BY <1>2, <1>3
<1>5. NormalizeLookupDomain(d) = Host(n)
  BY <1>1, <1>2
<1> QED BY <1>1, <1>4, <1>5, Zenon DEF Respelt

\* Profiles that the tool passes serve their shops.
LEMMA PassedServe ==
  ASSUME NEW profiles, IsProfileList(profiles), NEW sources, NEW expected
  PROVE  VerifiedProfilesServe(profiles, sources, expected)
<1> DEFINE canonical == \A i \in DOMAIN profiles :
                          NormalizeLookupDomain(profiles[i].domain) = Host(profiles[i].domain.name)
                          /\ profiles[i].domain = Host(profiles[i].domain.name)
           Fits(host) == {i \in DOMAIN profiles :
              NormalizeLookupDomain(profiles[i].domain) = NormalizeLookupDomain(host)}
<1> SUFFICES ASSUME VerifyProfiles(profiles) = {}
             PROVE
       /\ GetStoreProfileForDomain(profiles, Host("localhost")) # NoProfile
       /\ \A i \in DOMAIN profiles, www, upper \in BOOLEAN :
            LET visited == [profiles[i].domain EXCEPT !.www = www, !.upper = upper]
                codes == GetMockCandidateCodes(profiles, visited)
                Says(scan) == DeriveSupportReason(
                  GetStoreProfileForDomain(profiles, visited) # NoProfile, Len(codes), scan)
            IN /\ canonical => GetStoreProfileForDomain(profiles, visited) = profiles[i]
               /\ VerifyFixtureCompatibility(sources, expected) = {} =>
                    \A f \in DOMAIN expected : Says(sources[f]) = expected[f]
  BY DEF VerifiedProfilesServe
<1>1. Vetted(profiles)
  BY PassedIsVetted
<1>2. /\ DOMAIN profiles \subseteq Nat
      /\ \A i \in DOMAIN profiles :
           IsHost(profiles[i].domain) /\ profiles[i].candidateCodes # <<>>
           /\ IsSequence(profiles[i].candidateCodes)
  BY <1>1 DEF Vetted, IsProfileList, IsSequence
<1>3. GetStoreProfileForDomain(profiles, Host("localhost")) # NoProfile
  <2> DEFINE local == {i \in DOMAIN profiles : profiles[i].domain = Host("localhost")}
  <2>1. local # {}
    BY <1>1 DEF Vetted, LocalhostServes, Find
  <2>2. local \subseteq Fits(Host("localhost"))
    OBVIOUS
  <2>3. PICK i \in Fits(Host("localhost")) :
          Find(profiles, Fits(Host("localhost"))) = profiles[i] /\ profiles[i] # NoProfile
    <3>1. Fits(Host("localhost")) \in SUBSET DOMAIN profiles /\ Fits(Host("localhost")) # {}
      BY <2>1, <2>2
    <3> HIDE DEF Fits
    <3> QED BY <3>1, FindFinds
  <2> QED BY <2>3 DEF GetStoreProfileForDomain
<1>4. ASSUME NEW i \in DOMAIN profiles, NEW www \in BOOLEAN, NEW upper \in BOOLEAN
      PROVE
            LET visited == [profiles[i].domain EXCEPT !.www = www, !.upper = upper]
                codes == GetMockCandidateCodes(profiles, visited)
                Says(scan) == DeriveSupportReason(
                  GetStoreProfileForDomain(profiles, visited) # NoProfile, Len(codes), scan)
            IN /\ canonical => GetStoreProfileForDomain(profiles, visited) = profiles[i]
               /\ VerifyFixtureCompatibility(sources, expected) = {} =>
                    \A f \in DOMAIN expected : Says(sources[f]) = expected[f]
  <2> DEFINE d == profiles[i].domain
             visited == [d EXCEPT !.www = www, !.upper = upper]
             found == GetStoreProfileForDomain(profiles, visited)
             codes == GetMockCandidateCodes(profiles, visited)
  <2>2. \A j \in DOMAIN profiles :
          NormalizeLookupDomain(profiles[j].domain) = Host(profiles[j].domain.name)
    BY <1>2, Spelled
  <2>3. NormalizeLookupDomain(visited) = Host(d.name)
    BY <1>2, Spelled
  <2>4. i \in Fits(visited)
    BY <2>2, <2>3
  <2> HIDE DEF visited
  <2>5. PICK j \in Fits(visited) : found = profiles[j] /\ profiles[j] # NoProfile
    <3>1. Fits(visited) \in SUBSET DOMAIN profiles /\ Fits(visited) # {}
      BY <2>4
    <3>2. found = Find(profiles, Fits(visited))
      BY DEF GetStoreProfileForDomain
    <3> HIDE DEF Fits, found
    <3> QED BY <3>1, <3>2, FindFinds
  <2>6. ASSUME canonical PROVE found = profiles[i]
    <3>1. profiles[j].domain = profiles[i].domain
      BY <2>2, <2>3, <2>5, <2>6 DEF Host
    <3>2. j = i
      <4>1. DomainsOf(profiles) = [k \in DOMAIN profiles |-> profiles[k].domain]
        BY DEF DomainsOf
      <4>2. IsNonEmptyString(profiles[j].domain)
        BY <1>1, <2>5 DEF Vetted
      <4> QED BY <1>1, <2>5, <3>1, <4>1, <4>2 DEF Vetted, Unique
    <3> QED BY <2>5, <3>2
  <2>7. found # NoProfile /\ Len(codes) \in Nat /\ Len(codes) > 0
    <3>1. codes = profiles[j].candidateCodes
      BY <2>5 DEF GetMockCandidateCodes
    <3>2. codes # <<>> /\ IsSequence(codes)
      BY <1>2, <2>5, <3>1
    <3> HIDE DEF codes, found
    <3> QED BY <2>5, <3>2 DEF IsSequence
  <2>8. ASSUME VerifyFixtureCompatibility(sources, expected) = {}, NEW f \in DOMAIN expected
        PROVE  DeriveSupportReason(found # NoProfile, Len(codes), sources[f]) = expected[f]
    <3>1. DeriveSupportReason(TRUE, 1, sources[f]) = expected[f]
      BY <2>8 DEF VerifyFixtureCompatibility
    <3> DEFINE n == Len(codes)  matched == found # NoProfile
    <3>2. matched = TRUE /\ n \in Nat /\ n > 0
      BY <2>7
    <3> HIDE DEF n, matched
    <3>3. DeriveSupportReason(TRUE, n, sources[f]) = expected[f]
      BY <3>1, <3>2, SupportIsOfThePage
    <3>4. DeriveSupportReason(matched, n, sources[f]) = expected[f]
      BY <3>2, <3>3, Zenon
    <3> QED BY <3>4 DEF n, matched
  <2> QED BY <2>6, <2>8 DEF visited
<1> QED BY <1>3, <1>4

\* What the tool passes serves the shops: for all the lists that it may be given,
\* whatever the fixtures (extension/profileVerify.ts:220-303).
THEOREM VettedServe == Spec => []VettedProfilesServe
<1>1. MayBeAsked => VettedProfilesServe
  BY ProfilesAsked, PassedServe DEF MayBeAsked, VettedProfilesServe
<1> QED BY <1>1, OnlyWhatMayBeAsked, PTL
-----------------------------------------------------------------------------
(* Views of the sources.                                                      *)

\* The comparison of claims that pickBestClaim goes by.
Improving(claims) ==
  {p \in Pairs(0 .. Len(claims)) : p[1] > 0 /\ (p[2] > 0 => Beats(claims[p[1]], claims[p[2]]))}

\* It puts claims in an order.
LEMMA ImprovingCompares ==
  ASSUME NEW claims, IsClaimList(claims)
  PROVE  /\ Len(claims) \in Nat /\ DOMAIN claims = 1 .. Len(claims)
         /\ Compares(Improving(claims), 1 .. Len(claims), Len(claims))
         /\ \A i, j \in 1 .. Len(claims) :
              <<i, j>> \in Improving(claims) <=> Beats(claims[i], claims[j])
<1> DEFINE n == Len(claims)
           C == [i \in 1 .. n |-> Confidence(claims[i])]
           D == [i \in 1 .. n |-> claims[i].date]
           P == [i \in 1 .. n |-> Priority(claims[i])]
<1>1. n \in Nat /\ DOMAIN claims = 1 .. n
  BY DEF IsClaimList, IsSequence
<1>2. \A i \in 1 .. n : C[i] \in Nat /\ D[i] \in Nat /\ P[i] \in Nat
  <2> TAKE i \in 1 .. n
  <2>1. claims[i].source \in DOMAIN TypeOf /\ claims[i].date \in Nat
    BY <1>1 DEF IsClaimList
  <2>2. Priority(claims[i]) \in Nat
    BY <2>1, ViewsAssumption DEF Priority
  <2>3. Confidence(claims[i]) \in Nat
    BY ViewsAssumption DEF Confidence, SafeConfidence
  <2> QED BY <2>1, <2>2, <2>3
<1>3. \A i, j \in 1 .. n :
        Beats(claims[i], claims[j]) <=>
          \/ C[i] > C[j]
          \/ C[i] = C[j] /\ (D[i] > D[j] \/ (D[i] = D[j] /\ P[i] > P[j]))
  BY DEF Beats
<1>4. \A i, j \in 1 .. n : <<i, j>> \in Improving(claims) <=> Beats(claims[i], claims[j])
  BY <1>1 DEF Improving, Pairs
<1>5. \A i \in 1 .. n : <<i, 0>> \in Improving(claims)
  BY <1>1 DEF Improving, Pairs
<1> DEFINE takes == Improving(claims)
           S == 1 .. n
           Beat(i, j) == \/ C[i] > C[j]
                         \/ C[i] = C[j] /\ (D[i] > D[j] \/ (D[i] = D[j] /\ P[i] > P[j]))
<1>6. \A i, j \in S : <<i, j>> \in takes <=> Beat(i, j)
  <2> HIDE DEF C, D, P, n
  <2> QED BY <1>3, <1>4
<1>7. /\ \A i \in S : ~Beat(i, i)
      /\ \A i, j, k \in S : Beat(i, j) /\ Beat(j, k) => Beat(i, k)
      /\ \A i, j, k \in S : Beat(i, k) => Beat(i, j) \/ Beat(j, k)
  <2> HIDE DEF C, D, P, n
  <2> QED BY <1>2
<1>8. Compares(takes, S, n)
  <2>1. S = 1 .. n
    OBVIOUS
  <2> HIDE DEF Beat, takes, S, n
  <2> QED BY <1>5, <1>6, <1>7, <2>1 DEF Compares, takes, S
<1> QED BY <1>1, <1>4, <1>8

\* The best claim is one of the claims, none of which beats it, and the first of its equals.
BestAt(claims, j) ==
  /\ j \in DOMAIN claims /\ PickBestClaim(claims) = claims[j]
  /\ \A n \in DOMAIN claims : ~Beats(claims[n], claims[j])
  /\ \A n \in 1 .. j - 1 : Beats(claims[j], claims[n])

LEMMA BestClaimIs ==
  ASSUME NEW claims, IsClaimList(claims), claims # <<>>
  PROVE  \E j : BestAt(claims, j)
<1> DEFINE n == Len(claims)
           w == LastTaken(n, Improving(claims))
<1>1. /\ n \in Nat /\ DOMAIN claims = 1 .. n
      /\ Compares(Improving(claims), 1 .. n, n)
      /\ \A i, j \in 1 .. n : <<i, j>> \in Improving(claims) <=> Beats(claims[i], claims[j])
  BY ImprovingCompares
<1>2. 1 .. n # {}
  BY <1>1 DEF IsClaimList, IsSequence
<1>3. PickBestClaim(claims) = claims[w]
  BY Zenon DEF PickBestClaim, Improving
<1> HIDE DEF n
<1>4. /\ w = 0 <=> 1 .. n = {}
      /\ w # 0 => /\ w \in 1 .. n
                  /\ \A i \in 1 .. n : <<i, w>> \notin Improving(claims)
                  /\ \A i \in 1 .. n : i < w => <<w, i>> \in Improving(claims)
  <2> DEFINE takes == Improving(claims)
             S == 1 .. n
  <2>1. n \in Nat /\ Compares(takes, S, n)
    BY <1>1
  <2> HIDE DEF takes, S
  <2>2. LET v == LastTaken(n, takes)
        IN /\ v = 0 <=> S = {}
           /\ v # 0 => /\ v \in S
                       /\ \A i \in S : <<i, v>> \notin takes
                       /\ \A i \in S : i < v => <<v, i>> \in takes
    BY <2>1, LastTakenIs
  <2> QED BY <2>2 DEF takes, S
<1> HIDE DEF w
<1>5. BestAt(claims, w)
  <2>1. w \in 1 .. n
    BY <1>2, <1>4
  <2>2. \A i \in 1 .. n : ~Beats(claims[i], claims[w])
    BY <1>1, <1>4, <2>1
  <2>3. \A i \in 1 .. w - 1 : Beats(claims[w], claims[i])
    <3> SUFFICES ASSUME NEW i \in 1 .. w - 1 PROVE Beats(claims[w], claims[i])
      OBVIOUS
    <3>1. i \in 1 .. n /\ i < w
      BY <1>1, <2>1
    <3> QED BY <1>1, <1>4, <2>1, <3>1
  <2> QED BY <1>1, <1>3, <2>1, <2>2, <2>3 DEF BestAt
<1> QED BY <1>5

\* The claims for a code, of the claims of a store, are claims.
LEMMA ClaimsOfAreClaims ==
  ASSUME NEW claims, IsClaimList(claims), NEW code
  PROVE  /\ IsClaimList(ClaimsOf(claims, code))
         /\ Range(ClaimsOf(claims, code)) = {} <=> ClaimsOf(claims, code) = <<>>
<1> DEFINE P == {i \in DOMAIN claims : claims[i].code = code}
           l == Kept(claims, P)
<1>1. P \in SUBSET Nat /\ IsFiniteSet(P)
  <2>1. DOMAIN claims = 1 .. Len(claims) /\ Len(claims) \in Nat
    BY DEF IsClaimList, IsSequence
  <2>2. IsFiniteSet(1 .. Len(claims))
    BY <2>1, FS_Interval
  <2>3. P \in SUBSET (1 .. Len(claims))
    BY <2>1
  <2>4. P \in SUBSET Nat
    BY <2>1
  <2> HIDE DEF P
  <2>5. IsFiniteSet(P)
    BY <2>2, <2>3, FS_Subset
  <2> QED BY <2>4, <2>5
<1>2. P \subseteq DOMAIN claims
  OBVIOUS
<1>3. ClaimsOf(claims, code) = l
  BY Zenon DEF ClaimsOf
<1> HIDE DEF P
<1>4. Keeps(l, claims, P)
  BY <1>1, KeptIs
<1> HIDE DEF l
<1>5. IsClaimList(l)
  <2>1. \A k \in DOMAIN l : \E i \in DOMAIN claims : l[k] = claims[i]
    BY <1>2, <1>4 DEF Keeps
  <2> QED BY <1>4, <2>1 DEF IsClaimList, Keeps
<1>6. Range(l) = {} <=> l = <<>>
  <2>1. l \in Seq(Range(l))
    BY <1>4 DEF Keeps, IsSequence
  <2>2. Range(l) = {} <=> DOMAIN l = {}
    BY DEF Range
  <2> QED BY <2>1, <2>2
<1> QED BY <1>3, <1>5, <1>6

\* What a list of codes keeps: those with claims, each an entry of the best of them.
ClaimedAt(codes, claims) == {i \in DOMAIN codes : ClaimsOf(claims, codes[i]) # <<>>}

\* An entry shows a claim.
Shown(e, c) ==
  /\ e.sourceType = TypeOf[c.source]
  /\ e.confidence = SafeConfidence(c.confidence)
  /\ e.discoveredAt = IF c.date = 0 THEN Nothing ELSE c.date

\* The entries are one for each place that is claimed, each showing its best claim.
LEMMA EntriesAre ==
  ASSUME NEW codes, IsSequence(codes), NEW claims, IsClaimList(claims)
  PROVE  LET entries == BuildSafeProvenance(codes, claims)
         IN /\ \A k \in DOMAIN entries : \E i \in ClaimedAt(codes, claims) :
                 /\ entries[k].code = codes[i]
                 /\ Shown(entries[k], PickBestClaim(ClaimsOf(claims, codes[i])))
            /\ \A i \in ClaimedAt(codes, claims) : \E k \in DOMAIN entries : entries[k].code = codes[i]
<1> DEFINE P == ClaimedAt(codes, claims)
           q == InOrder(P)
           claimed == Kept(codes, P)
           entries == BuildSafeProvenance(codes, claims)
           Entry(code) ==
             [code |-> code, sourceType |-> TypeOf[PickBestClaim(ClaimsOf(claims, code)).source],
              discoveredAt |-> IF PickBestClaim(ClaimsOf(claims, code)).date = 0 THEN Nothing
                               ELSE PickBestClaim(ClaimsOf(claims, code)).date,
              confidence |-> SafeConfidence(PickBestClaim(ClaimsOf(claims, code)).confidence)]
<1>1. P \in SUBSET Nat /\ IsFiniteSet(P)
  <2>1. DOMAIN codes = 1 .. Len(codes) /\ Len(codes) \in Nat
    BY DEF IsSequence
  <2>2. IsFiniteSet(1 .. Len(codes))
    BY <2>1, FS_Interval
  <2>3. P \in SUBSET (1 .. Len(codes))
    BY <2>1 DEF ClaimedAt
  <2>4. P \in SUBSET Nat
    BY <2>1 DEF ClaimedAt
  <2> HIDE DEF P
  <2>5. IsFiniteSet(P)
    BY <2>2, <2>3, FS_Subset
  <2> QED BY <2>4, <2>5
<1>2. entries = [k \in DOMAIN claimed |-> Entry(claimed[k])]
  BY Zenon DEF BuildSafeProvenance, ClaimedAt
<1>3. ASSUME NEW code
      PROVE  /\ Entry(code).code = code
             /\ Shown(Entry(code), PickBestClaim(ClaimsOf(claims, code)))
  BY DEF Shown
<1> HIDE DEF P, Entry, entries
<1>4. Keeps(claimed, codes, P)
  BY <1>1, KeptIs
<1>5. /\ DOMAIN claimed = DOMAIN entries
      /\ \A k \in DOMAIN entries : q[k] \in P /\ claimed[k] = codes[q[k]]
      /\ \A i \in P : \E k \in DOMAIN entries : q[k] = i
  BY <1>2, <1>4 DEF Keeps
<1>6. \A k \in DOMAIN entries : entries[k] = Entry(codes[q[k]])
  BY <1>2, <1>5
<1> QED BY <1>3, <1>5, <1>6 DEF P, entries

\* The summary shows the beginning of the list.
Bounded(codes) == [i \in 1 .. Min({Len(codes), CodeCap}) |-> codes[i]]

LEMMA BoundedIsTheBeginning ==
  ASSUME NEW codes, IsSequence(codes)
  PROVE  /\ DOMAIN Bounded(codes) \subseteq DOMAIN codes
         /\ \A i \in DOMAIN Bounded(codes) : Bounded(codes)[i] = codes[i]
<1> DEFINE n == Len(codes)
           ends == {n, CodeCap}
           m == Min(ends)
<1>1. n \in Nat /\ DOMAIN codes = 1 .. n
  BY DEF IsSequence
<1>2. ends \in SUBSET Nat /\ ends # {} /\ n \in ends
  BY <1>1, ViewsAssumption
<1>3. m \in ends /\ m <= n
  <2> HIDE DEF ends
  <2> QED BY <1>2, MinIsMin
<1>4. m \in Nat /\ m <= n
  BY <1>2, <1>3
<1>5. Bounded(codes) = [i \in 1 .. m |-> codes[i]]
  BY Zenon DEF Bounded
<1> HIDE DEF m, n
<1> QED BY <1>1, <1>4, <1>5

\* What the summary says of its codes and sources.
LEMMA SummaryIs ==
  ASSUME NEW codes, NEW claims
  PROVE  LET summary == GetSourceSummary(codes, claims)
             bounded == Bounded(codes)
             Claims(i) == Range(ClaimsOf(claims, bounded[i]))
             Sources(i) == {c.source : c \in Claims(i)}
         IN /\ DOMAIN summary.codes = DOMAIN bounded
            /\ \A i \in DOMAIN bounded :
                 summary.codes[i].code = bounded[i] /\ summary.codes[i].sources = Claims(i)
            /\ summary.sourceCount = Cardinality(UNION {Sources(i) : i \in DOMAIN bounded})
            /\ summary.sourceSummary = [s \in UNION {Sources(i) : i \in DOMAIN bounded} |->
                 Cardinality({i \in DOMAIN bounded : s \in Sources(i)})]
BY DEF GetSourceSummary, Bounded

\* The extension keeps an entry as it was sent.
LEMMA SanitizingKeeps ==
  ASSUME NEW codes, IsSequence(codes), NEW claims, IsClaimList(claims)
  PROVE  SanitizeProvenance(BuildSafeProvenance(codes, claims)) = BuildSafeProvenance(codes, claims)
<1> DEFINE entries == BuildSafeProvenance(codes, claims)
           Clean(e) == [e EXCEPT !.discoveredAt = IF @ = 0 THEN Nothing ELSE @,
                               !.confidence = SafeConfidence(@)]
<1>1. SafeConfidence(Nothing) = Nothing /\ \A v : SafeConfidence(SafeConfidence(v)) = SafeConfidence(v)
  BY ViewsAssumption DEF SafeConfidence
<1>2. ASSUME NEW code, NEW type, NEW at, NEW v
      PROVE  LET e == [code |-> code, sourceType |-> type,
                       discoveredAt |-> IF at = 0 THEN Nothing ELSE at,
                       confidence |-> SafeConfidence(v)]
             IN Clean(e) = e
  <2> DEFINE e == [code |-> code, sourceType |-> type,
                   discoveredAt |-> IF at = 0 THEN Nothing ELSE at,
                   confidence |-> SafeConfidence(v)]
             fields == {"code", "sourceType", "discoveredAt", "confidence"}
  <2>1. DOMAIN e = fields /\ DOMAIN Clean(e) = fields
    OBVIOUS
  <2>2. Clean(e)["code"] = e["code"] /\ Clean(e)["sourceType"] = e["sourceType"]
    OBVIOUS
  <2>3. Clean(e)["confidence"] = e["confidence"]
    BY <1>1
  <2>4. Clean(e)["discoveredAt"] = e["discoveredAt"]
    BY ViewsAssumption
  <2>5. e = [f \in DOMAIN e |-> e[f]] /\ Clean(e) = [f \in DOMAIN Clean(e) |-> Clean(e)[f]]
    BY Zenon
  <2> DEFINE r == Clean(e)
  <2>6. DOMAIN e = DOMAIN r /\ \A f \in DOMAIN e : r[f] = e[f]
    <3> HIDE DEF e, Clean
    <3> QED BY <2>1, <2>2, <2>3, <2>4
  <2> HIDE DEF e, r
  <2>7. r = e
    BY <2>5, <2>6 DEF r
  <2> QED BY <2>7 DEF e, r
<1>3. PICK code, type, at, v, n :
        entries = [k \in n |->
          [code |-> code[k], sourceType |-> type[k],
           discoveredAt |-> IF at[k] = 0 THEN Nothing ELSE at[k],
           confidence |-> SafeConfidence(v[k])]]
  <2> DEFINE claimed == Kept(codes, ClaimedAt(codes, claims))
             best == [k \in DOMAIN claimed |-> PickBestClaim(ClaimsOf(claims, claimed[k]))]
             type == [k \in DOMAIN claimed |-> TypeOf[best[k].source]]
             at == [k \in DOMAIN claimed |-> best[k].date]
             v == [k \in DOMAIN claimed |-> best[k].confidence]
  <2>1. entries = [k \in DOMAIN claimed |->
          [code |-> claimed[k], sourceType |-> type[k],
           discoveredAt |-> IF at[k] = 0 THEN Nothing ELSE at[k],
           confidence |-> SafeConfidence(v[k])]]
    BY DEF BuildSafeProvenance, ClaimedAt
  <2> HIDE DEF claimed, best, type, at, v, entries
  <2> QED BY <2>1
<1>4. SanitizeProvenance(entries) = [k \in DOMAIN entries |-> Clean(entries[k])]
  BY Zenon DEF SanitizeProvenance
<1>5. \A k \in DOMAIN entries : Clean(entries[k]) = entries[k]
  <2> SUFFICES ASSUME NEW k \in n PROVE Clean(entries[k]) = entries[k]
    BY <1>3
  <2>1. entries[k] = [code |-> code[k], sourceType |-> type[k],
                      discoveredAt |-> IF at[k] = 0 THEN Nothing ELSE at[k],
                      confidence |-> SafeConfidence(v[k])]
    BY <1>3
  <2> HIDE DEF entries, Clean
  <2> QED BY <1>2, <2>1
<1>6. entries = [k \in DOMAIN entries |-> entries[k]]
  BY <1>3
<1> HIDE DEF entries, Clean
<1>7. SanitizeProvenance(entries) = entries
  BY <1>4, <1>5, <1>6
<1> QED BY <1>7 DEF entries

\* A code that is shown has the entry of its best claim, if it has claims.
LEMMA EntryAgrees ==
  ASSUME NEW codes, IsSequence(codes), NEW claims, IsClaimList(claims), NEW i \in DOMAIN codes
  PROVE  LET entries == BuildSafeProvenance(codes, claims)
             listed == ClaimsOf(claims, codes[i])
             EntryOf == {e \in Range(entries) : e.code = codes[i]}
         IN /\ EntryOf = {} <=> Range(listed) = {}
            /\ \A e \in EntryOf : \E j : BestAt(listed, j) /\ Shown(e, listed[j])
<1> DEFINE entries == BuildSafeProvenance(codes, claims)
           listed == ClaimsOf(claims, codes[i])
           EntryOf == {e \in Range(entries) : e.code = codes[i]}
           P == ClaimedAt(codes, claims)
<1>1. /\ \A k \in DOMAIN entries : \E n \in P :
           /\ entries[k].code = codes[n]
           /\ Shown(entries[k], PickBestClaim(ClaimsOf(claims, codes[n])))
      /\ \A n \in P : \E k \in DOMAIN entries : entries[k].code = codes[n]
  BY EntriesAre
<1>2. IsClaimList(listed) /\ (Range(listed) = {} <=> listed = <<>>)
  BY ClaimsOfAreClaims
<1>3. /\ i \in P <=> listed # <<>>
      /\ \A n \in P : ClaimsOf(claims, codes[n]) # <<>>
  BY DEF ClaimedAt
<1> HIDE DEF entries, P
<1>4. \A e \in EntryOf : listed # <<>> /\ Shown(e, PickBestClaim(listed))
  BY <1>1, <1>3 DEF Range
<1>5. listed # <<>> => EntryOf # {}
  BY <1>1, <1>3 DEF Range
<1>6. listed # <<>> => \E j : BestAt(listed, j)
  BY <1>2, BestClaimIs
<1>7. \A e \in EntryOf : \E j : BestAt(listed, j) /\ Shown(e, listed[j])
  <2> HIDE DEF listed, EntryOf
  <2> QED BY <1>4, <1>6 DEF BestAt
<1> QED BY <1>2, <1>4, <1>5, <1>7 DEF entries

\* The views of a store agree.
LEMMA TheViewsAgree ==
  ASSUME NEW codes, IsSequence(codes), NEW claims, IsClaimList(claims)
  PROVE  ViewsAgree(codes, claims)
<1> DEFINE summary == GetSourceSummary(codes, claims)
           entries == BuildSafeProvenance(codes, claims)
           bounded == Bounded(codes)
           Claims(i) == Range(ClaimsOf(claims, bounded[i]))
           Sources(i) == {c.source : c \in Claims(i)}
           EntryOf(code) == {e \in Range(entries) : e.code = code}
           Shows(e, c) == /\ e.sourceType = TypeOf[c.source]
                          /\ e.confidence = SafeConfidence(c.confidence)
                          /\ e.discoveredAt = IF c.date = 0 THEN Nothing ELSE c.date
<1>1. /\ DOMAIN summary.codes = DOMAIN bounded
      /\ \A i \in DOMAIN bounded :
           summary.codes[i].code = bounded[i] /\ summary.codes[i].sources = Claims(i)
      /\ summary.sourceCount = Cardinality(UNION {Sources(i) : i \in DOMAIN bounded})
      /\ summary.sourceSummary = [s \in UNION {Sources(i) : i \in DOMAIN bounded} |->
           Cardinality({i \in DOMAIN bounded : s \in Sources(i)})]
  BY SummaryIs
<1>2. /\ DOMAIN bounded \subseteq DOMAIN codes
      /\ \A i \in DOMAIN bounded : bounded[i] = codes[i]
  BY BoundedIsTheBeginning
<1> HIDE DEF summary
<1>3. ASSUME NEW i \in DOMAIN summary.codes
      PROVE  LET row == summary.codes[i]
                 listed == ClaimsOf(claims, row.code)
             IN /\ EntryOf(row.code) = {} <=> row.sources = {}
                /\ \A e \in EntryOf(row.code) :
                     \E j \in DOMAIN listed :
                       /\ Shows(e, listed[j])
                       /\ \A n \in DOMAIN listed : ~Beats(listed[n], listed[j])
                       /\ PickBestClaim(listed) = listed[j]
                       /\ \A n \in 1 .. j - 1 : Beats(listed[j], listed[n])
  <2>1. /\ i \in DOMAIN codes
        /\ summary.codes[i].code = codes[i]
        /\ summary.codes[i].sources = Range(ClaimsOf(claims, codes[i]))
    <3> HIDE DEF bounded
    <3> QED BY <1>1, <1>2
  <2> DEFINE code == codes[i]
             listed == ClaimsOf(claims, code)
  <2>2. /\ EntryOf(code) = {} <=> Range(listed) = {}
        /\ \A e \in EntryOf(code) : \E j : BestAt(listed, j) /\ Shown(e, listed[j])
    BY <2>1, EntryAgrees
  <2> HIDE DEF entries, code
  <2>3. /\ EntryOf(code) = {} <=> Range(listed) = {}
        /\ \A e \in EntryOf(code) :
             \E j \in DOMAIN listed :
               /\ Shows(e, listed[j])
               /\ \A n \in DOMAIN listed : ~Beats(listed[n], listed[j])
               /\ PickBestClaim(listed) = listed[j]
               /\ \A n \in 1 .. j - 1 : Beats(listed[j], listed[n])
    BY <2>2 DEF BestAt, Shown
  <2> QED BY <2>1, <2>3 DEF code
<1>4. summary.sourceCount = Cardinality({c.source : c \in
        UNION {summary.codes[i].sources : i \in DOMAIN summary.codes}})
  <2>1. {c.source : c \in UNION {summary.codes[i].sources : i \in DOMAIN summary.codes}}
          = UNION {Sources(i) : i \in DOMAIN bounded}
    <3> HIDE DEF bounded
    <3> QED BY <1>1
  <2> QED BY <1>1, <2>1
<1>5. ASSUME NEW s \in DOMAIN summary.sourceSummary
      PROVE  summary.sourceSummary[s] =
               Cardinality({i \in DOMAIN summary.codes :
                              \E c \in summary.codes[i].sources : c.source = s})
  <2>1. {i \in DOMAIN summary.codes : \E c \in summary.codes[i].sources : c.source = s}
          = {i \in DOMAIN bounded : s \in Sources(i)}
    <3> HIDE DEF bounded
    <3> QED BY <1>1
  <2>2. summary.sourceSummary[s] = Cardinality({i \in DOMAIN bounded : s \in Sources(i)})
    <3> HIDE DEF bounded
    <3> QED BY <1>1
  <2> QED BY <2>1, <2>2
<1>6. SanitizeProvenance(entries) = entries
  BY SanitizingKeeps
<1> HIDE DEF entries
<1> QED BY <1>3, <1>4, <1>5, <1>6, Zenon DEF ViewsAgree, summary, entries

\* The status page agrees with the gate of the scheduler.
LEMMA TheStatusMatches ==
  ASSUME NEW cache, IsCache(cache), NEW now \in Nat
  PROVE  StatusMatchesGate(cache, now)
<1> DEFINE K == DOMAIN cache
           F == Fresh(cache, now)
           S == {k \in K : cache[k].expires <= now}
           E == [k \in K |-> cache[k].expires]
           times == {cache[k].expires : k \in F}
           status == GetSourceStatus(cache, now)
<1>1. IsFiniteSet(K) /\ \A k \in K : E[k] \in Nat /\ E[k] = cache[k].expires
  BY DEF IsCache
<1>2. /\ F = {k \in K : E[k] > now}
      /\ S = {k \in K : E[k] <= now}
      /\ times = {E[k] : k \in F}
  BY DEF Fresh
<1>3. /\ status.cacheEntries = Cardinality(K)
      /\ status.freshCacheEntries = Cardinality(F)
      /\ status.staleCacheEntries = Cardinality(S)
      /\ status.nextAllowedFetchAt = IF F = {} THEN Nothing ELSE Max(times)
  BY DEF GetSourceStatus
<1>4. \A k \in K : RetryAfter(cache, k, now) = IF E[k] > now THEN E[k] - now ELSE 0
  BY DEF RetryAfter
<1> HIDE DEF K, F, S, E, times, status
<1>5. Cardinality(F) + Cardinality(S) = Cardinality(K)
  <2>1. F \in SUBSET K /\ S \in SUBSET K /\ F \cup S = K /\ F \cap S = {}
    BY <1>1, <1>2
  <2>2. IsFiniteSet(F) /\ IsFiniteSet(S)
    BY <1>1, <2>1, FS_Subset
  <2> DEFINE both == F \cup S  none == F \cap S
  <2>3. Cardinality(both) = Cardinality(F) + Cardinality(S) - Cardinality(none)
    BY <2>2, FS_Union
  <2>4. Cardinality({}) = 0 /\ Cardinality(F) \in Nat /\ Cardinality(S) \in Nat
    BY <2>2, FS_CardinalityType, FS_EmptySet
  <2>5. both = K /\ none = {}
    BY <2>1
  <2> HIDE DEF both, none
  <2> QED BY <2>3, <2>4, <2>5
<1>6. F # {} => Max(times) \in times /\ \A t \in times : t <= Max(times)
  <2> SUFFICES ASSUME F # {} PROVE Max(times) \in times /\ \A t \in times : t <= Max(times)
    OBVIOUS
  <2>1. times \in SUBSET Int /\ times # {}
    BY <1>1, <1>2
  <2>2. IsFiniteSet(times)
    <3>1. F \in SUBSET K
      BY <1>2
    <3>2. IsFiniteSet(F)
      BY <1>1, <3>1, FS_Subset
    <3> DEFINE f == [k \in F |-> E[k]]
    <3>3. f \in Surjection(F, times)
      BY <1>2 DEF Surjection
    <3> HIDE DEF f
    <3> QED BY <3>2, <3>3, FS_Surjection
  <2> QED BY <2>1, <2>2, MaxIsMax
<1>7. \A k \in K : RetryAfter(cache, k, now) # 0 <=> k \in F
  BY <1>1, <1>2, <1>4
<1>8. F # {} => Max(times) # Nothing
  <2> SUFFICES ASSUME F # {} PROVE Max(times) # Nothing
    OBVIOUS
  <2>1. Max(times) \in times
    BY <1>6
  <2>2. Max(times) \in Nat
    BY <1>1, <1>2, <2>1
  <2> QED BY <2>2, ViewsAssumption
<1>9. ASSUME F # {}, NEW k \in K PROVE RetryAfter(cache, k, now) <= Max(times) - now
  <2>1. Max(times) \in Nat /\ Max(times) > now
    BY <1>1, <1>2, <1>6, <1>9
  <2>2. CASE k \in F
    <3>1. E[k] \in times /\ E[k] > now /\ E[k] \in Nat
      BY <1>1, <1>2, <2>2
    <3>2. E[k] <= Max(times)
      BY <1>6, <1>9, <3>1
    <3>3. RetryAfter(cache, k, now) = E[k] - now
      BY <1>4, <3>1
    <3> QED BY <2>1, <3>1, <3>2, <3>3
  <2>3. CASE k \notin F
    BY <1>1, <1>2, <1>4, <2>1, <2>3
  <2> QED BY <2>2, <2>3
<1>10. /\ status.freshCacheEntries + status.staleCacheEntries = status.cacheEntries
       /\ status.nextAllowedFetchAt = Nothing <=> \A k \in K : RetryAfter(cache, k, now) = 0
       /\ status.nextAllowedFetchAt # Nothing =>
            \A k \in K : RetryAfter(cache, k, now) <= status.nextAllowedFetchAt - now
  <2>1. \A k \in F : k \in K
    BY <1>2
  <2>2. status.nextAllowedFetchAt = Nothing <=> F = {}
    BY <1>3, <1>8
  <2>3. F = {} <=> \A k \in K : RetryAfter(cache, k, now) = 0
    BY <1>7, <2>1
  <2>4. F # {} => \A k \in K : RetryAfter(cache, k, now) <= status.nextAllowedFetchAt - now
    BY <1>3, <1>9
  <2> QED BY <1>3, <1>5, <2>2, <2>3, <2>4
<1> QED BY <1>10 DEF StatusMatchesGate, status, K

\* What is shown of the sources is one story, whatever claims a store's codes have and
\* whatever the caches hold (coupons.ts:36-86, db-source-summary.ts, db-source-status.ts,
\* db-source-cache.ts:472-486).
THEOREM OneStory == Spec => []OneStoryOfSources
<1>1. MayBeAsked => OneStoryOfSources
  BY ViewsAsked, TheViewsAgree, TheStatusMatches DEF MayBeAsked, OneStoryOfSources
<1> QED BY <1>1, OnlyWhatMayBeAsked, PTL
-----------------------------------------------------------------------------
(* The demo.                                                                  *)

\* What is capped is no more than it was, nor than the cap.
LEMMA CappedIs ==
  ASSUME NEW m \in Nat, NEW limit \in Nat \cup {NoLimit}
  PROVE  Capped(m, limit) \in Nat /\ Capped(m, limit) <= m
BY EngineAssumption DEF Capped, Smaller

\* A percentage of an amount is no more than the amount.
LEMMA PartOf ==
  ASSUME NEW m \in Nat, NEW v \in Nat, v <= 4
  PROVE  (m * v) \div 4 \in Nat /\ (m * v) \div 4 <= m
<1>1. v \in {0, 1, 2, 3, 4}
  OBVIOUS
<1> QED BY <1>1

\* What the items at some places add up to, and what it is without the others.
LEMMA TotalIs ==
  ASSUME NEW cart, IsCart(cart), NEW places \in SUBSET DOMAIN cart.items
  PROVE  /\ IsFiniteSet(places)
         /\ TotalOf(cart.items, places) \in Nat
         /\ TotalOf(cart.items, places) <= TotalOf(cart.items, DOMAIN cart.items)
<1> DEFINE T == DOMAIN cart.items
           v == [i \in T |-> ItemTotal(cart.items[i])]
           w == [i \in places |-> ItemTotal(cart.items[i])]
<1>1. IsFiniteSet(T) /\ IsFiniteSet(places)
  <2>1. T = 1 .. Len(cart.items) /\ Len(cart.items) \in Nat
    BY DEF IsCart, IsSequence
  <2>2. IsFiniteSet(T)
    BY <2>1, FS_Interval
  <2> QED BY <2>2, FS_Subset
<1>2. \A i \in T : v[i] \in Nat
  BY DEF IsCart, ItemTotal
<1>3. \A i \in places : w[i] \in Nat /\ w[i] = v[i]
  BY <1>2
<1>4. /\ TotalOf(cart.items, T) = SumFunctionOnSet(v, T)
      /\ TotalOf(cart.items, places) = SumFunctionOnSet(w, places)
  BY DEF TotalOf, SumFunction
<1> HIDE DEF T, v, w
<1>5. SumFunctionOnSet(w, places) = SumFunctionOnSet(v, places)
  BY <1>1, <1>3, SumSame
<1>6. SumFunctionOnSet(v, places) <= SumFunctionOnSet(v, T)
  <2>1. places \in SUBSET T
    BY DEF T
  <2> QED BY <1>1, <1>2, <2>1, SumGrows
<1>7. SumFunctionOnSet(w, places) \in Nat
  BY <1>1, <1>3, SumType
<1> QED BY <1>1, <1>4, <1>5, <1>6, <1>7 DEF T

\* What a coupon is judged to take off is part of the total.
LEMMA JudgedIs ==
  ASSUME NEW cart, IsCart(cart), NEW coupon, IsCoupon(coupon)
  PROVE  LET e == EvaluateCoupon(cart, coupon)
         IN /\ CartTotal(cart) \in Nat /\ e.savings \in Nat /\ e.finalPrice \in Nat
            /\ e.finalPrice + e.savings = CartTotal(cart)
            /\ e.eligible <=> IsEligible(cart, coupon)
            /\ e.savings = IF e.eligible THEN Savings(cart, coupon) ELSE 0
            /\ EligibleSubtotal(cart, coupon) \in Nat
<1> DEFINE total == CartTotal(cart)
           sub == EligibleSubtotal(cart, coupon)
           all == TotalOf(cart.items, DOMAIN cart.items)
           saved == Savings(cart, coupon)
           covered == {i \in DOMAIN cart.items : IsCovered(cart.items[i], coupon)}
           eligible == IsEligible(cart, coupon)
<1>1. sub \in Nat /\ sub <= all /\ all \in Nat
  <2>1. covered \in SUBSET DOMAIN cart.items /\ sub = TotalOf(cart.items, covered)
    BY DEF EligibleSubtotal
  <2> HIDE DEF covered
  <2> QED BY <2>1, TotalIs
<1>2. total = all + cart.shipping /\ cart.shipping \in Nat
  BY DEF CartTotal, IsCart
<1>3. saved \in Nat /\ saved <= total
  <2>1. CASE coupon.type = "percentage"
    <3> DEFINE part == (sub * coupon.value) \div 4
    <3>1. part \in Nat /\ part <= sub
      BY <1>1, <2>1, PartOf DEF IsCoupon
    <3>2. saved = Capped(part, coupon.maxDiscount)
      BY <2>1 DEF Savings
    <3> HIDE DEF part
    <3>3. saved \in Nat /\ saved <= part
      BY <3>1, <3>2, CappedIs DEF IsCoupon
    <3> HIDE DEF saved, sub, total, all
    <3> QED BY <1>1, <1>2, <3>1, <3>3
  <2>2. CASE coupon.type = "fixed"
    <3> DEFINE part == Smaller(coupon.value, sub)
    <3>1. part \in Nat /\ part <= sub
      BY <1>1 DEF IsCoupon, Smaller
    <3>2. saved = Capped(part, coupon.maxDiscount)
      BY <2>2 DEF Savings
    <3> HIDE DEF part
    <3>3. saved \in Nat /\ saved <= part
      BY <3>1, <3>2, CappedIs DEF IsCoupon
    <3> HIDE DEF saved, sub, total, all
    <3> QED BY <1>1, <1>2, <3>1, <3>3
  <2>3. CASE coupon.type = "free_shipping"
    <3>1. saved = cart.shipping
      BY <2>3 DEF Savings
    <3> HIDE DEF saved, sub, total, all
    <3> QED BY <1>1, <1>2, <3>1
  <2> QED BY <2>1, <2>2, <2>3 DEF IsCoupon
<1> DEFINE off == IF eligible THEN saved ELSE 0
           e == EvaluateCoupon(cart, coupon)
<1>4. e = [eligible |-> eligible, savings |-> off, finalPrice |-> IF off > total THEN 0 ELSE total - off]
  BY Zenon DEF EvaluateCoupon
<1>5. e.savings = off /\ e.finalPrice = IF off > total THEN 0 ELSE total - off
  <2> HIDE DEF off, total, e, eligible
  <2> QED BY <1>4
<1>6. e.eligible <=> eligible
  <2> HIDE DEF off, total, e, eligible
  <2> QED BY <1>4
<1> HIDE DEF saved, total, sub, all, eligible, e
<1>7. total \in Nat /\ off \in Nat /\ off <= total
  BY <1>1, <1>2, <1>3
<1>8. e.finalPrice \in Nat /\ e.finalPrice + e.savings = total
  BY <1>5, <1>7
<1> QED BY <1>1, <1>5, <1>6, <1>7, <1>8 DEF saved, total, sub, eligible, e

IsCouponList(coupons) ==
  IsSequence(coupons) /\ \A i \in DOMAIN coupons : IsCoupon(coupons[i])

\* The coupons that apply, and the orders that the page and findBestCoupon go by.
Applying(cart, coupons) ==
  {i \in DOMAIN coupons : EvaluateCoupon(cart, coupons[i]).eligible}

SavesMore(cart, coupons) ==
  {p \in Pairs(DOMAIN coupons) :
     \/ EvaluateCoupon(cart, coupons[p[1]]).savings > EvaluateCoupon(cart, coupons[p[2]]).savings
     \/ /\ EvaluateCoupon(cart, coupons[p[1]]).savings = EvaluateCoupon(cart, coupons[p[2]]).savings
        /\ p[1] < p[2]}

EndsCheaper(cart, coupons) ==
  {p \in Pairs(0 .. Len(coupons)) :
     /\ p[1] > 0 /\ EvaluateCoupon(cart, coupons[p[1]]).eligible
     /\ p[2] > 0 => EvaluateCoupon(cart, coupons[p[1]]).finalPrice
                      < EvaluateCoupon(cart, coupons[p[2]]).finalPrice}

\* They are what the two calculations use.
LEMMA BothBests ==
  ASSUME NEW cart, NEW coupons, IsSequence(coupons)
  PROVE  /\ FindBest(cart, coupons) = Sorted(Applying(cart, coupons), SavesMore(cart, coupons))
         /\ FindBestCoupon(cart, coupons) = LastTaken(Len(coupons), EndsCheaper(cart, coupons))
<1> DEFINE n == Len(coupons)
           result == [i \in DOMAIN coupons |-> EvaluateCoupon(cart, coupons[i])]
<1>1. n \in Nat /\ DOMAIN coupons = 1 .. n
  BY DEF IsSequence
<1>2. {i \in DOMAIN coupons : result[i].eligible} = Applying(cart, coupons)
  BY DEF Applying
<1>3. {p \in Pairs(DOMAIN coupons) :
         \/ result[p[1]].savings > result[p[2]].savings
         \/ result[p[1]].savings = result[p[2]].savings /\ p[1] < p[2]} = SavesMore(cart, coupons)
  BY DEF SavesMore, Pairs
<1>4. {p \in Pairs(0 .. n) :
       /\ p[1] > 0 /\ result[p[1]].eligible
       /\ p[2] > 0 => result[p[1]].finalPrice < result[p[2]].finalPrice} = EndsCheaper(cart, coupons)
  BY <1>1 DEF EndsCheaper, Pairs
<1> QED BY <1>2, <1>3, <1>4 DEF FindBest, FindBestCoupon

\* Both orders, told by what each coupon saves of the same total.
LEMMA TheOrders ==
  ASSUME NEW cart, IsCart(cart), NEW coupons, IsCouponList(coupons)
  PROVE  LET n == Len(coupons)
             E == Applying(cart, coupons)
             before == SavesMore(cart, coupons)
             takes == EndsCheaper(cart, coupons)
             S(i) == EvaluateCoupon(cart, coupons[i]).savings
         IN /\ n \in Nat /\ DOMAIN coupons = 1 .. n /\ E \subseteq 1 .. n /\ IsFiniteSet(E)
            /\ Orders(before, E) /\ Compares(takes, E, n)
            /\ \A i, j \in E : /\ <<i, j>> \in before <=> S(i) > S(j) \/ (S(i) = S(j) /\ i < j)
                               /\ <<i, j>> \in takes <=> S(i) > S(j)
            /\ \A i \in 1 .. n : S(i) \in Nat
<1> DEFINE n == Len(coupons)
           D == DOMAIN coupons
           E == Applying(cart, coupons)
           before == SavesMore(cart, coupons)
           takes == EndsCheaper(cart, coupons)
           S(i) == EvaluateCoupon(cart, coupons[i]).savings
           F(i) == EvaluateCoupon(cart, coupons[i]).finalPrice
           total == CartTotal(cart)
<1>1. n \in Nat /\ D = 1 .. n
  BY DEF IsCouponList, IsSequence
<1>2. \A i \in D : S(i) \in Nat /\ F(i) \in Nat /\ F(i) + S(i) = total /\ total \in Nat
  BY JudgedIs DEF IsCouponList
<1>3. E \subseteq D
  BY DEF Applying
<1>4. IsFiniteSet(E)
  <2>1. IsFiniteSet(1 .. n)
    BY <1>1, FS_Interval
  <2>2. E \in SUBSET (1 .. n)
    BY <1>1, <1>3
  <2> HIDE DEF E
  <2> QED BY <2>1, <2>2, FS_Subset
<1>5. \A i, j \in D : <<i, j>> \in before <=> S(i) > S(j) \/ (S(i) = S(j) /\ i < j)
  BY DEF SavesMore, Pairs
<1>6. /\ \A i, j \in 1 .. n : <<i, j>> \in takes <=> i \in E /\ F(i) < F(j)
      /\ \A i \in 1 .. n : <<i, 0>> \in takes <=> i \in E
  BY <1>1 DEF EndsCheaper, Pairs, Applying
<1> HIDE DEF E, S, F, before, takes, n, D, total
<1>7. \A i, j \in 1 .. n : <<i, j>> \in takes <=> i \in E /\ S(i) > S(j)
  <2> SUFFICES ASSUME NEW i \in 1 .. n, NEW j \in 1 .. n PROVE F(i) < F(j) <=> S(i) > S(j)
    BY <1>6
  <2> QED BY <1>1, <1>2
<1>8. Orders(before, E)
  <2>1. \A i \in E : i \in Nat /\ S(i) \in Nat
    BY <1>1, <1>2, <1>3
  <2>2. \A i, j \in E : <<i, j>> \in before <=> S(i) > S(j) \/ (S(i) = S(j) /\ i < j)
    BY <1>3, <1>5
  <2> QED BY <2>1, <2>2 DEF Orders
<1>9. Compares(takes, E, n)
  <2>1. \A i \in 1 .. n : S(i) \in Nat
    BY <1>1, <1>2
  <2>2. E \subseteq 1 .. n
    BY <1>1, <1>3
  <2> QED BY <1>6, <1>7, <2>1, <2>2 DEF Compares
<1>10. \A i, j \in E : /\ <<i, j>> \in before <=> S(i) > S(j) \/ (S(i) = S(j) /\ i < j)
                       /\ <<i, j>> \in takes <=> S(i) > S(j)
  BY <1>1, <1>3, <1>5, <1>7
<1>11. E \subseteq 1 .. n /\ \A i \in 1 .. n : S(i) \in Nat
  BY <1>1, <1>2, <1>3
<1> QED BY <1>1, <1>4, <1>8, <1>9, <1>10, <1>11 DEF E, S, before, takes, n, D

\* The place that both calculations end with: that of a coupon that saves most.
LEMMA OneBest ==
  ASSUME NEW cart, IsCart(cart), NEW coupons, IsCouponList(coupons)
  PROVE  LET list == FindBest(cart, coupons)
             best == FindBestCoupon(cart, coupons)
             E == Applying(cart, coupons)
             S(i) == EvaluateCoupon(cart, coupons[i]).savings
         IN /\ best = IF list = <<>> THEN 0 ELSE list[1]
            /\ list = <<>> <=> E = {}
            /\ E # {} => best \in E /\ best # 0 /\ \A i \in E : S(i) <= S(best)
<1> DEFINE n == Len(coupons)
           E == Applying(cart, coupons)
           before == SavesMore(cart, coupons)
           takes == EndsCheaper(cart, coupons)
           S(i) == EvaluateCoupon(cart, coupons[i]).savings
           list == Sorted(E, before)
           best == LastTaken(n, takes)
<1>1. /\ n \in Nat /\ E \subseteq 1 .. n /\ IsFiniteSet(E)
      /\ Orders(before, E) /\ Compares(takes, E, n)
      /\ \A i, j \in E : /\ <<i, j>> \in before <=> S(i) > S(j) \/ (S(i) = S(j) /\ i < j)
                         /\ <<i, j>> \in takes <=> S(i) > S(j)
      /\ \A i \in 1 .. n : S(i) \in Nat
  BY TheOrders
<1>2. FindBest(cart, coupons) = list /\ FindBestCoupon(cart, coupons) = best
  BY BothBests DEF IsCouponList
<1> HIDE DEF n, E, before, takes, S
<1>3. /\ E = {} <=> list = <<>>
      /\ E # {} => list[1] \in E /\ \A c \in E : <<c, list[1]>> \notin before
  BY <1>1, SortedFirst
<1>4. /\ best = 0 <=> E = {}
      /\ best # 0 => /\ best \in E
                     /\ \A i \in E : <<i, best>> \notin takes
                     /\ \A i \in E : i < best => <<best, i>> \in takes
  BY <1>1, LastTakenIs
<1> HIDE DEF list, best
<1>5. ASSUME E # {}
      PROVE  best = list[1] /\ best \in E /\ best # 0 /\ \A i \in E : S(i) <= S(best)
  <2>1. best \in E /\ best # 0 /\ list[1] \in E
    BY <1>3, <1>4, <1>5
  <2> DEFINE first == list[1]
  <2>2. first \in E /\ best \in Nat /\ first \in Nat /\ S(first) \in Nat /\ S(best) \in Nat
    <3>1. first \in E /\ first \in 1 .. n /\ best \in 1 .. n
      BY <1>1, <2>1
    <3>2. \A i \in 1 .. n : i \in Nat /\ S(i) \in Nat
      BY <1>1
    <3> HIDE DEF first
    <3> QED BY <3>1, <3>2
  <2>3. /\ ~(S(first) > S(best))
        /\ first < best => S(best) > S(first)
    BY <1>1, <1>4, <2>1
  <2>4. ~(S(best) > S(first)) /\ ~(S(best) = S(first) /\ best < first)
    BY <1>1, <1>3, <1>5, <2>1
  <2> HIDE DEF first
  <2>5. best = first
    BY <2>2, <2>3, <2>4
  <2>6. \A i \in E : S(i) <= S(best)
    <3> SUFFICES ASSUME NEW i \in E PROVE S(i) <= S(best)
      OBVIOUS
    <3>1. ~(S(i) > S(best)) /\ S(i) \in Nat
      BY <1>1, <1>4, <2>1
    <3> QED BY <2>2, <3>1
  <2> QED BY <2>1, <2>5, <2>6 DEF first
<1> QED BY <1>2, <1>3, <1>4, <1>5 DEF E, S

\* The demo's page and findBestCoupon agree.
LEMMA TheBestsAgree ==
  ASSUME NEW cart, IsCart(cart), NEW coupons, IsCouponList(coupons)
  PROVE  BestCouponsAgree(cart, coupons)
<1> DEFINE list == FindBest(cart, coupons)
           best == FindBestCoupon(cart, coupons)
           E == Applying(cart, coupons)
           e(i) == EvaluateCoupon(cart, coupons[i])
           total == CartTotal(cart)
<1>1. /\ best = IF list = <<>> THEN 0 ELSE list[1]
      /\ E # {} => best \in E /\ best # 0 /\ \A i \in E : e(i).savings <= e(best).savings
  BY OneBest
<1>2. \A i \in DOMAIN coupons :
        /\ e(i).savings \in Nat /\ e(i).finalPrice \in Nat /\ total \in Nat
        /\ e(i).finalPrice + e(i).savings = total
  BY JudgedIs DEF IsCouponList
<1>3. E \subseteq DOMAIN coupons /\ \A i \in DOMAIN coupons : e(i).eligible <=> i \in E
  BY DEF Applying
<1> HIDE DEF e, E, best, list, total
<1>4. ASSUME NEW i \in DOMAIN coupons, e(i).eligible
      PROVE  best # 0 /\ e(best).finalPrice <= e(i).finalPrice /\ e(i).finalPrice + e(i).savings = total
  <2>1. i \in E /\ best \in DOMAIN coupons /\ best # 0 /\ e(i).savings <= e(best).savings
    BY <1>1, <1>3, <1>4
  <2> QED BY <1>2, <2>1
<1> QED BY <1>1, <1>4 DEF BestCouponsAgree, e, best, list, total

\* The two calculations of the best coupon agree, for every cart and list of coupons
\* (App.tsx:90-97, couponEngine.ts:132-145).
THEOREM BestsAgree == Spec => []TwoBestsAgree
<1>1. MayBeAsked => TwoBestsAgree
  BY EngineAsked, TheBestsAgree DEF MayBeAsked, TwoBestsAgree, IsCouponList
<1> QED BY <1>1, OnlyWhatMayBeAsked, PTL

\* A sequence of anything is one of what it has.
LEMMA SeqIsSequence == ASSUME NEW V, NEW l \in Seq(V) PROVE IsSequence(l)
<1>1. l \in [1 .. Len(l) -> V] /\ Len(l) \in Nat
  OBVIOUS
<1>2. l \in [1 .. Len(l) -> Range(l)]
  BY <1>1 DEF Range
<1> QED BY <1>1, <1>2 DEF IsSequence

\* A cart with an item more.
LEMMA WithItem ==
  ASSUME NEW cart, IsCart(cart), NEW item, item.price \in Nat, item.quantity \in Nat
  PROVE  LET after == [cart EXCEPT !.items = Append(@, item)]
             n == Len(cart.items)
         IN /\ IsCart(after) /\ after.shipping = cart.shipping
            /\ n \in Nat /\ DOMAIN cart.items = 1 .. n /\ DOMAIN after.items = 1 .. n + 1
            /\ \A i \in 1 .. n : after.items[i] = cart.items[i]
            /\ after.items[n + 1] = item
<1> DEFINE items == cart.items
           shipping == cart.shipping
           n == Len(items)
           more == Append(items, item)
           after == [cart EXCEPT !.items = Append(@, item)]
           anew == [items |-> more, shipping |-> shipping]
<1>1. n \in Nat /\ DOMAIN items = 1 .. n /\ items \in Seq(Range(items)) /\ shipping \in Nat
  BY DEF IsCart, IsSequence
<1>2. DOMAIN after = {"items", "shipping"} /\ after["items"] = more /\ after["shipping"] = shipping
  <2>1. DOMAIN cart = {"items", "shipping"}
    <3>1. cart = [items |-> items, shipping |-> shipping]
      BY Zenon DEF IsCart
    <3> HIDE DEF items, shipping
    <3> QED BY <3>1
  <2> QED BY <2>1
<1>3. /\ IsSequence(more) /\ DOMAIN more = 1 .. n + 1 /\ Len(more) = n + 1
      /\ \A i \in 1 .. n : more[i] = items[i]
      /\ more[n + 1] = item
  <2> DEFINE R == Range(items)
             V == R \cup {item}
  <2>1. items \in Seq(V) /\ item \in V
    BY <1>1
  <2> HIDE DEF items, R, V
  <2>2. more \in Seq(V)
    BY <2>1
  <2>3. IsSequence(more)
    BY <2>2, SeqIsSequence
  <2> QED BY <1>1, <2>1, <2>3
<1>4. after = [f \in DOMAIN after |-> after[f]] /\ anew = [f \in DOMAIN anew |-> anew[f]]
  BY Zenon
<1>5. DOMAIN anew = {"items", "shipping"} /\ anew["items"] = more /\ anew["shipping"] = shipping
  OBVIOUS
<1> HIDE DEF items, shipping, n, more, anew, after
<1>6. after = anew
  BY <1>2, <1>4, <1>5
<1>7. after.items = more /\ after.shipping = shipping
  BY <1>2
<1>8. IsCart(after)
  <2>1. after = [items |-> after.items, shipping |-> after.shipping]
    BY <1>6, <1>7 DEF anew
  <2>2. \A i \in 1 .. n + 1 : more[i].price \in Nat /\ more[i].quantity \in Nat
    <3>1. \A i \in 1 .. n : items[i].price \in Nat /\ items[i].quantity \in Nat
      BY <1>1 DEF IsCart, items
    <3> QED BY <1>1, <1>3, <3>1
  <2> QED BY <1>1, <1>3, <1>7, <2>1, <2>2, Zenon DEF IsCart
<1> QED BY <1>1, <1>3, <1>7, <1>8 DEF after, items, shipping, n, more

\* One more item that a coupon covers adds its price to what the coupon applies to.
LEMMA ToppedUpIs ==
  ASSUME NEW cart, IsCart(cart), NEW coupon, NEW category, Gap(cart, coupon) \in Nat,
         IsCovered([category |-> category, onSale |-> FALSE], coupon)
  PROVE  LET after == ToppedUp(cart, coupon, category)
         IN /\ IsCart(after) /\ after.shipping = cart.shipping
            /\ EligibleSubtotal(after, coupon) = EligibleSubtotal(cart, coupon) + Gap(cart, coupon)
<1> DEFINE n == Len(cart.items)
           gap == Gap(cart, coupon)
           item == [category |-> category, price |-> gap, quantity |-> 1, onSale |-> FALSE]
           after == ToppedUp(cart, coupon, category)
           P == {i \in DOMAIN cart.items : IsCovered(cart.items[i], coupon)}
           Q == {i \in DOMAIN after.items : IsCovered(after.items[i], coupon)}
           v == [i \in P |-> ItemTotal(cart.items[i])]
           w == [i \in Q |-> ItemTotal(after.items[i])]
<1>1. item.price = gap /\ item.quantity = 1 /\ IsCovered(item, coupon) /\ gap \in Nat
  BY DEF IsCovered
<1>2. ItemTotal(item) = gap
  BY <1>1 DEF ItemTotal
<1>3. after = [cart EXCEPT !.items = Append(@, item)]
  BY Zenon DEF ToppedUp
<1> HIDE DEF item, after, gap
<1>4. /\ IsCart(after) /\ after.shipping = cart.shipping
      /\ n \in Nat /\ DOMAIN cart.items = 1 .. n /\ DOMAIN after.items = 1 .. n + 1
      /\ \A i \in 1 .. n : after.items[i] = cart.items[i]
      /\ after.items[n + 1] = item
  BY <1>1, <1>3, WithItem
<1>5. Q = P \cup {n + 1} /\ n + 1 \notin P /\ Q \ {n + 1} = P /\ P \in SUBSET DOMAIN cart.items
      /\ n + 1 \in Q
  BY <1>1, <1>4
<1>6. \A i \in P : v[i] = w[i]
  BY <1>4, <1>5
<1>7. w[n + 1] = gap
  BY <1>2, <1>4, <1>5
<1>8. /\ EligibleSubtotal(cart, coupon) = SumFunctionOnSet(v, P)
      /\ EligibleSubtotal(after, coupon) = SumFunctionOnSet(w, Q)
  BY DEF EligibleSubtotal, TotalOf, SumFunction
<1>9. \A i \in Q : w[i] \in Nat
  <2>1. \A i \in DOMAIN after.items : ItemTotal(after.items[i]) \in Nat
    BY <1>4 DEF IsCart, ItemTotal
  <2> QED BY <2>1
<1>10. IsFiniteSet(P) /\ IsFiniteSet(Q)
  <2>1. IsFiniteSet(1 .. n) /\ IsFiniteSet(1 .. n + 1)
    BY <1>4, FS_Interval
  <2>2. P \in SUBSET (1 .. n) /\ Q \in SUBSET (1 .. n + 1)
    BY <1>4
  <2> HIDE DEF P, Q
  <2> QED BY <2>1, <2>2, FS_Subset
<1> HIDE DEF P, Q, v, w
<1>11. SumFunctionOnSet(w, Q) = w[n + 1] + SumFunctionOnSet(w, P)
  BY <1>5, <1>9, <1>10, SumOfRest
<1>12. SumFunctionOnSet(v, P) = SumFunctionOnSet(w, P)
  BY <1>5, <1>6, <1>9, <1>10, SumSame
<1>13. SumFunctionOnSet(w, P) \in Nat
  BY <1>5, <1>9, <1>10, SumType
<1>14. EligibleSubtotal(after, coupon) = EligibleSubtotal(cart, coupon) + gap
  BY <1>1, <1>7, <1>8, <1>11, <1>12, <1>13
<1> QED BY <1>4, <1>14 DEF after, gap

\* What a coupon within reach promises, and what it would apply to.
LEMMA PromisedIs ==
  ASSUME NEW cart, IsCart(cart), NEW coupon, IsCoupon(coupon), IsWithinReach(cart, coupon)
  PROVE  /\ SimulatedSavings(cart, coupon) \in Nat /\ coupon.minSpend \in Nat
         /\ EligibleSubtotal(cart, coupon) \in Nat /\ EligibleSubtotal(cart, coupon) < coupon.minSpend
         /\ Gap(cart, coupon) \in Nat
         /\ EligibleSubtotal(cart, coupon) + Gap(cart, coupon) = coupon.minSpend
         /\ coupon.type = "free_shipping" => SimulatedSavings(cart, coupon) <= cart.shipping
<1> DEFINE sub == EligibleSubtotal(cart, coupon)
           min == coupon.minSpend
           part == (min * coupon.value) \div 4
           promised == SimulatedSavings(cart, coupon)
<1>1. sub \in Nat /\ min \in Nat /\ sub < min
  <2>1. sub \in Nat
    BY JudgedIs
  <2> QED BY <2>1 DEF IsWithinReach, IsCoupon
<1>2. Gap(cart, coupon) = min - sub
  BY DEF Gap
<1>3. promised \in Nat /\ (coupon.type = "free_shipping" => promised <= cart.shipping)
  <2>1. CASE coupon.type = "percentage"
    <3>1. part \in Nat
      BY <1>1, <2>1, PartOf DEF IsCoupon
    <3>2. promised = Capped(part, coupon.maxDiscount)
      BY <2>1 DEF SimulatedSavings
    <3> HIDE DEF part
    <3>3. promised \in Nat
      BY <3>1, <3>2, CappedIs DEF IsCoupon
    <3> QED BY <2>1, <3>3
  <2>2. CASE coupon.type = "fixed"
    <3>1. promised = Capped(coupon.value, coupon.maxDiscount)
      BY <2>2 DEF SimulatedSavings
    <3>2. promised \in Nat
      BY <3>1, CappedIs DEF IsCoupon
    <3> QED BY <2>2, <3>2
  <2>3. CASE coupon.type = "free_shipping"
    <3>1. promised = Capped(cart.shipping, coupon.maxDiscount)
      BY <2>3 DEF SimulatedSavings
    <3>2. promised \in Nat /\ promised <= cart.shipping
      BY <3>1, CappedIs DEF IsCoupon, IsCart
    <3> QED BY <3>2
  <2> QED BY <2>1, <2>2, <2>3 DEF IsCoupon
<1> HIDE DEF sub, min, promised
<1>4. Gap(cart, coupon) \in Nat /\ sub + Gap(cart, coupon) = min
  BY <1>1, <1>2
<1> QED BY <1>1, <1>3, <1>4 DEF sub, min, promised

\* A coupon within reach does not apply yet, or ships for nothing.
LEMMA NotYet ==
  ASSUME NEW cart, IsCart(cart), NEW coupon, IsCoupon(coupon), IsWithinReach(cart, coupon),
         IsEligible(cart, coupon)
  PROVE  coupon.type = "free_shipping" /\ Savings(cart, coupon) = cart.shipping
<1> DEFINE sub == EligibleSubtotal(cart, coupon)
           min == coupon.minSpend
<1>1. sub \in Nat /\ min \in Nat /\ sub < min
  BY PromisedIs
<1>2. coupon.type # "free_shipping" => min = NoLimit \/ sub >= min
  BY DEF IsEligible
<1>3. coupon.type = "free_shipping"
  BY <1>1, <1>2, EngineAssumption
<1> QED BY <1>3 DEF Savings

\* After the addition the coupon applies, and saves what was promised.
LEMMA PaysAfterwards ==
  ASSUME NEW cart, IsCart(cart), NEW coupon, IsCoupon(coupon), IsWithinReach(cart, coupon),
         coupon.type # "free_shipping", NEW category,
         IsCovered([category |-> category, onSale |-> FALSE], coupon),
         ~(coupon.type = "fixed" /\ coupon.value > coupon.minSpend)
  PROVE  LET after == EvaluateCoupon(ToppedUp(cart, coupon, category), coupon)
         IN after.eligible /\ after.savings = SimulatedSavings(cart, coupon)
<1> DEFINE sub == EligibleSubtotal(cart, coupon)
           min == coupon.minSpend
           more == ToppedUp(cart, coupon, category)
           e == EvaluateCoupon(more, coupon)
<1>1. sub \in Nat /\ min \in Nat /\ sub < min /\ sub + Gap(cart, coupon) = min
      /\ Gap(cart, coupon) \in Nat
  BY PromisedIs
<1>2. IsCart(more) /\ EligibleSubtotal(more, coupon) = sub + Gap(cart, coupon)
  BY <1>1, ToppedUpIs
<1> HIDE DEF sub, min, more
<1>3. EligibleSubtotal(more, coupon) = min /\ min > 0
  BY <1>1, <1>2
<1>4. IsEligible(more, coupon)
  BY <1>1, <1>3 DEF IsEligible, min
<1>5. Savings(more, coupon) = SimulatedSavings(cart, coupon)
  <2>1. CASE coupon.type = "percentage"
    BY <1>3, <2>1 DEF Savings, SimulatedSavings, min
  <2>2. CASE coupon.type = "fixed"
    <3>1. Smaller(coupon.value, min) = coupon.value
      BY <1>1, <2>2 DEF Smaller, IsCoupon, min
    <3> QED BY <1>3, <2>2, <3>1 DEF Savings, SimulatedSavings
  <2> QED BY <2>1, <2>2 DEF IsCoupon
<1>6. (e.eligible <=> IsEligible(more, coupon))
      /\ e.savings = IF e.eligible THEN Savings(more, coupon) ELSE 0
  BY <1>2, JudgedIs
<1> QED BY <1>4, <1>5, <1>6 DEF more

\* The suggestions are the suggested coupons.
LEMMA TipsAreSuggested ==
  ASSUME NEW cart, IsCart(cart), NEW coupons, IsCouponList(coupons), NEW benchmark \in Nat
  PROVE  LET tips == GetUpsellSuggestions(cart, coupons, benchmark)
         IN \A k \in DOMAIN tips : tips[k] \in Suggested(cart, coupons, benchmark)
<1> DEFINE n == Len(coupons)
           G == Suggested(cart, coupons, benchmark)
           simulated == [i \in DOMAIN coupons |-> SimulatedSavings(cart, coupons[i])]
           before == {p \in Pairs(DOMAIN coupons) :
             simulated[p[1]] > simulated[p[2]] \/ (simulated[p[1]] = simulated[p[2]] /\ p[1] < p[2])}
           tips == Sorted(G, before)
<1>1. GetUpsellSuggestions(cart, coupons, benchmark) = tips
  BY DEF GetUpsellSuggestions
<1>2. n \in Nat /\ DOMAIN coupons = 1 .. n
  BY DEF IsCouponList, IsSequence
<1>3. G \subseteq 1 .. n /\ \A i \in G : simulated[i] \in Nat
  <2>1. G \subseteq 1 .. n
    BY <1>2 DEF Suggested
  <2>2. \A i \in G : IsWithinReach(cart, coupons[i]) /\ IsCoupon(coupons[i])
    BY <1>2 DEF Suggested, IsCouponList
  <2>3. \A i \in G : SimulatedSavings(cart, coupons[i]) \in Nat
    BY <2>2, PromisedIs
  <2> QED BY <1>2, <2>1, <2>3
<1>4. IsFiniteSet(G)
  <2>1. IsFiniteSet(1 .. n) /\ G \in SUBSET (1 .. n)
    BY <1>2, <1>3, FS_Interval
  <2> HIDE DEF G
  <2> QED BY <2>1, FS_Subset
<1>5. \A i, j \in 1 .. n : <<i, j>> \in before <=>
        simulated[i] > simulated[j] \/ (simulated[i] = simulated[j] /\ i < j)
  BY <1>2 DEF Pairs
<1> HIDE DEF G, simulated, before
<1>6. Orders(before, G)
  <2>1. \A i \in G : i \in 1 .. n /\ i \in Nat /\ simulated[i] \in Nat
    BY <1>2, <1>3
  <2> QED BY <1>5, <2>1 DEF Orders
<1>7. tips \in Seq(G)
  BY <1>4, <1>6, SortedIsSorted
<1> HIDE DEF tips
<1>8. \A k \in DOMAIN tips : tips[k] \in G
  BY <1>7
<1> QED BY <1>1, <1>8 DEF G

\* The coupons that the page suggests pay.
LEMMA TheSuggestionsPay ==
  ASSUME NEW cart, IsCart(cart), NEW coupons, IsCouponList(coupons), NEW categories
  PROVE  SuggestedCouponsPay(cart, coupons, categories)
<1> DEFINE list == FindBest(cart, coupons)
           now == IF list = <<>> THEN 0 ELSE EvaluateCoupon(cart, coupons[list[1]]).savings
           tips == GetUpsellSuggestions(cart, coupons, now)
           E == Applying(cart, coupons)
           S(i) == EvaluateCoupon(cart, coupons[i]).savings
<1>1. now \in Nat /\ \A i \in E : S(i) <= now
  <2> DEFINE best == FindBestCoupon(cart, coupons)
  <2>1. /\ best = IF list = <<>> THEN 0 ELSE list[1]
        /\ list = <<>> <=> E = {}
        /\ E # {} => best \in E /\ best # 0 /\ \A i \in E : S(i) <= S(best)
    BY OneBest
  <2>2. \A i \in E : S(i) \in Nat
    BY JudgedIs DEF Applying, IsCouponList
  <2>3. now = IF E = {} THEN 0 ELSE S(best)
    BY <2>1
  <2> HIDE DEF now, S, E, best, list
  <2> QED BY <2>1, <2>2, <2>3
<1> HIDE DEF now
<1>2. \A k \in DOMAIN tips : tips[k] \in Suggested(cart, coupons, now)
  BY <1>1, TipsAreSuggested
<1>3. ASSUME NEW k \in DOMAIN tips
      PROVE  LET c == coupons[tips[k]]
                 promised == SimulatedSavings(cart, c)
             IN /\ ~IsEligible(cart, c)
                /\ \A category \in categories :
                     LET after == EvaluateCoupon(ToppedUp(cart, c, category), c)
                     IN /\ IsCovered([category |-> category, onSale |-> FALSE], c)
                        /\ ~(c.type = "fixed" /\ c.value > c.minSpend)
                        => after.eligible /\ after.savings = promised /\ promised > now
  <2> DEFINE i == tips[k]
             c == coupons[i]
             promised == SimulatedSavings(cart, c)
  <2>1. i \in DOMAIN coupons /\ IsCoupon(c) /\ IsWithinReach(cart, c) /\ promised > now
    BY <1>2 DEF Suggested, IsCouponList
  <2> HIDE DEF i
  <2>2. promised \in Nat /\ (c.type = "free_shipping" => promised <= cart.shipping)
    BY <2>1, PromisedIs
  <2>3. ~IsEligible(cart, c)
    <3> SUFFICES ASSUME IsEligible(cart, c) PROVE FALSE
      OBVIOUS
    <3>1. c.type = "free_shipping" /\ Savings(cart, c) = cart.shipping
      BY <2>1, NotYet
    <3>2. i \in E /\ S(i) = cart.shipping
      <4>1. (EvaluateCoupon(cart, c).eligible <=> IsEligible(cart, c))
            /\ EvaluateCoupon(cart, c).savings
                 = IF EvaluateCoupon(cart, c).eligible THEN Savings(cart, c) ELSE 0
        BY <2>1, JudgedIs
      <4> QED BY <2>1, <3>1, <4>1 DEF Applying
    <3>3. cart.shipping <= now /\ cart.shipping \in Nat
      BY <1>1, <3>2 DEF IsCart
    <3> HIDE DEF promised
    <3> QED BY <1>1, <2>1, <2>2, <3>1, <3>3
  <2>4. c.type # "free_shipping"
    <3> SUFFICES ASSUME c.type = "free_shipping" PROVE FALSE
      OBVIOUS
    <3>1. cart.shipping > 0
      <4> HIDE DEF promised
      <4> QED BY <1>1, <2>1, <2>2 DEF IsCart
    <3> QED BY <2>3, <3>1 DEF IsEligible
  <2>5. ASSUME NEW category \in categories,
               IsCovered([category |-> category, onSale |-> FALSE], c),
               ~(c.type = "fixed" /\ c.value > c.minSpend)
        PROVE  LET after == EvaluateCoupon(ToppedUp(cart, c, category), c)
               IN after.eligible /\ after.savings = promised
    BY <2>1, <2>4, <2>5, PaysAfterwards
  <2> QED BY <2>1, <2>3, <2>5 DEF i
<1> HIDE DEF tips
<1> QED BY <1>3, Zenon DEF SuggestedCouponsPay, tips, now

\* The suggestions of the demo keep what they say, for every cart and list of coupons
\* (couponEngine.ts:155-200).
THEOREM TipsPay == Spec => []SuggestionsPay
<1>1. MayBeAsked => SuggestionsPay
  BY EngineAsked, TheSuggestionsPay DEF MayBeAsked, SuggestionsPay, IsCouponList
<1> QED BY <1>1, OnlyWhatMayBeAsked, PTL
-----------------------------------------------------------------------------
(* The checks of a row.                                                       *)

\* What buildCandidate asks of a row.
Usable(raw) ==
  /\ raw.domain # Absent /\ raw.code # Absent
  /\ ValidateDomain(raw.domain) # NoHost
  /\ IsCode(raw.code)
  /\ IsOptional(raw.label, LabelWords)
  /\ IsOptional(raw.expiresAt, DateWords)
  /\ IsOptional(raw.sourceUrl, UrlWords)
  /\ IsConfidence(raw.confidence)

\* No check refuses a row just when each of them lets it through.
LEMMA NotRefused ==
  ASSUME NEW raw
  PROVE  FirstRefusal(raw) = "none" <=> Usable(raw)
<1> DEFINE checks == <<
        [reason |-> "missing_field", fails |-> Absent \in {raw.domain, raw.code}],
        [reason |-> "invalid_domain", fails |-> ValidateDomain(raw.domain) = NoHost],
        [reason |-> "invalid_code", fails |-> ~IsCode(raw.code)],
        [reason |-> "invalid_label", fails |-> ~IsOptional(raw.label, LabelWords)],
        [reason |-> "invalid_expires_at", fails |-> ~IsOptional(raw.expiresAt, DateWords)],
        [reason |-> "invalid_source_url", fails |-> ~IsOptional(raw.sourceUrl, UrlWords)],
        [reason |-> "invalid_confidence", fails |-> ~IsConfidence(raw.confidence)]>>
           failed == {i \in DOMAIN checks : checks[i].fails}
<1>1. DOMAIN checks = 1 .. 7 /\ \A i \in 1 .. 7 : checks[i].reason # "none"
  OBVIOUS
<1>2. /\ checks[1].fails <=> Absent \in {raw.domain, raw.code}
      /\ checks[2].fails <=> ValidateDomain(raw.domain) = NoHost
      /\ checks[3].fails <=> ~IsCode(raw.code)
      /\ checks[4].fails <=> ~IsOptional(raw.label, LabelWords)
      /\ checks[5].fails <=> ~IsOptional(raw.expiresAt, DateWords)
      /\ checks[6].fails <=> ~IsOptional(raw.sourceUrl, UrlWords)
      /\ checks[7].fails <=> ~IsConfidence(raw.confidence)
  OBVIOUS
<1>3. FirstRefusal(raw) = IF failed = {} THEN "none" ELSE checks[Min(failed)].reason
  BY Zenon DEF FirstRefusal
<1> HIDE DEF checks
<1>4. failed = {} <=> Usable(raw)
  <2>1. failed = {} <=> \A i \in 1 .. 7 : ~checks[i].fails
    BY <1>1
  <2>2. (\A i \in 1 .. 7 : ~checks[i].fails) <=>
          ~(checks[1].fails \/ checks[2].fails \/ checks[3].fails \/ checks[4].fails
            \/ checks[5].fails \/ checks[6].fails \/ checks[7].fails)
    <3>1. \A i \in 1 .. 7 : i = 1 \/ i = 2 \/ i = 3 \/ i = 4 \/ i = 5 \/ i = 6 \/ i = 7
      OBVIOUS
    <3>2. 1 \in 1 .. 7 /\ 2 \in 1 .. 7 /\ 3 \in 1 .. 7 /\ 4 \in 1 .. 7 /\ 5 \in 1 .. 7
          /\ 6 \in 1 .. 7 /\ 7 \in 1 .. 7
      OBVIOUS
    <3> QED BY <3>1, <3>2, Zenon
  <2> QED BY <1>2, <2>1, <2>2 DEF Usable
<1>5. failed # {} => Min(failed) \in 1 .. 7
  <2>1. failed \in SUBSET Nat /\ failed \subseteq 1 .. 7
    BY <1>1
  <2> HIDE DEF failed
  <2> QED BY <2>1, MinIsMin
<1> HIDE DEF failed
<1> QED BY <1>1, <1>3, <1>4, <1>5

\* What OptionalValue takes from a field is nothing or an allowed word.
LEMMA OptionalAgain ==
  ASSUME NEW v, NEW allowed, IsOptional(v, allowed)
  PROVE  /\ OptionalValue(v) \in Texts \cup {Absent}
         /\ IsOptional(OptionalValue(v), allowed)
         /\ OptionalValue(OptionalValue(v)) = OptionalValue(v)
<1>1. ~IsText(Absent)
  BY RowsAssumption DEF IsText
<1>2. CASE ~(IsText(v) /\ v.word # Blank)
  <2>1. OptionalValue(v) = Absent
    BY <1>2 DEF OptionalValue
  <2>2. OptionalValue(Absent) = Absent /\ IsOptional(Absent, allowed)
    BY <1>1 DEF OptionalValue, IsOptional
  <2> QED BY <2>1, <2>2
<1>3. CASE IsText(v) /\ v.word # Blank
  <2>1. OptionalValue(v) = Trim(v)
    BY <1>3 DEF OptionalValue
  <2>2. Trim(v) \in Texts /\ Trim(v).word = v.word /\ Trim(Trim(v)) = Trim(v)
    BY <1>3 DEF IsText, Texts, Trim
  <2>3. v.word \in allowed \cup {Blank}
    BY <1>3, RowsAssumption DEF IsOptional, IsText
  <2> QED BY <1>3, <2>1, <2>2, <2>3 DEF OptionalValue, IsOptional, IsText
<1> QED BY <1>2, <1>3

\* A candidate passes the checks again, and comes out as it was.
LEMMA CandidateAgain ==
  ASSUME NEW raw, NEW p \in Adapters, FirstRefusal(raw) = "none"
  PROVE  /\ Candidate(raw, p) \in Candidates
         /\ Candidate(raw, p) # NotARow
         /\ Candidate(raw, p).sourceId = p
         /\ FirstRefusal(Candidate(raw, p)) = "none"
         /\ Candidate(Candidate(raw, p), p) = Candidate(raw, p)
<1> DEFINE c == Candidate(raw, p)
<1>1. Usable(raw)
  BY NotRefused
<1>2. /\ c.domain = Text(ValidateDomain(raw.domain)) /\ c.code = Trim(raw.code)
      /\ c.label = OptionalValue(raw.label) /\ c.expiresAt = OptionalValue(raw.expiresAt)
      /\ c.sourceUrl = OptionalValue(raw.sourceUrl) /\ c.sourceId = p
      /\ c.confidence = IF raw.confidence = Null THEN Absent ELSE raw.confidence
  BY DEF Candidate
<1>3. DOMAIN c = {"domain", "code", "sourceId", "label", "expiresAt", "sourceUrl", "confidence"}
      /\ c = [f \in DOMAIN c |-> c[f]]
  BY DEF Candidate
<1>3a. c = [domain |-> c.domain, code |-> c.code, sourceId |-> c.sourceId, label |-> c.label,
            expiresAt |-> c.expiresAt, sourceUrl |-> c.sourceUrl, confidence |-> c.confidence]
  BY DEF Candidate
<1>3b. Candidate(c, p) =
         [domain |-> Text(ValidateDomain(c.domain)), code |-> Trim(c.code), sourceId |-> p,
          label |-> OptionalValue(c.label), expiresAt |-> OptionalValue(c.expiresAt),
          sourceUrl |-> OptionalValue(c.sourceUrl),
          confidence |-> IF c.confidence = Null THEN Absent ELSE c.confidence]
  BY Zenon DEF Candidate
<1> HIDE DEF c
<1>4. c.domain \in Texts /\ ValidateDomain(c.domain) # NoHost
      /\ Text(ValidateDomain(c.domain)) = c.domain
  <2>1. IsText(raw.domain) /\ ValidateDomain(raw.domain) = raw.domain.word /\ raw.domain.word \in Hosts
    BY <1>1 DEF Usable, ValidateDomain
  <2>2. \A w \in Hosts : Text(w) \in Texts /\ Text(w).word = w
    BY RowsAssumption DEF Text, Texts
  <2>3. \A w \in Hosts : ValidateDomain(Text(w)) = w
    BY <2>2 DEF ValidateDomain, IsText
  <2>4. \A w \in Hosts : w # NoHost
    BY RowsAssumption
  <2> QED BY <1>2, <2>1, <2>2, <2>3, <2>4
<1>5. c.code \in Texts /\ IsCode(c.code) /\ Trim(c.code) = c.code
  <2>1. raw.code \in Texts /\ raw.code.word \in CodeWords
    BY <1>1 DEF Usable, IsCode, IsText
  <2>2. Trim(raw.code) \in Texts /\ Trim(raw.code).word = raw.code.word
        /\ Trim(Trim(raw.code)) = Trim(raw.code)
    BY <2>1 DEF Texts, Trim
  <2> QED BY <1>2, <2>1, <2>2 DEF IsCode, IsText
<1>6. /\ c.label \in Texts \cup {Absent} /\ IsOptional(c.label, LabelWords)
      /\ OptionalValue(c.label) = c.label
      /\ c.expiresAt \in Texts \cup {Absent} /\ IsOptional(c.expiresAt, DateWords)
      /\ OptionalValue(c.expiresAt) = c.expiresAt
      /\ c.sourceUrl \in Texts \cup {Absent} /\ IsOptional(c.sourceUrl, UrlWords)
      /\ OptionalValue(c.sourceUrl) = c.sourceUrl
  BY <1>1, <1>2, OptionalAgain, Zenon DEF Usable
<1>7. /\ c.confidence \in {Tenths(n) : n \in 0 .. 10} \cup {Absent} /\ IsConfidence(c.confidence)
      /\ (IF c.confidence = Null THEN Absent ELSE c.confidence) = c.confidence
  BY <1>1, <1>2 DEF Usable, IsConfidence
<1>8. c \in Candidates
  BY <1>2, <1>3a, <1>4, <1>5, <1>6, <1>7 DEF Candidates
<1>9. Usable(c)
  <2>1. c.domain # Absent /\ c.code # Absent
    BY <1>4, <1>5, RowsAssumption
  <2> QED BY <1>4, <1>5, <1>6, <1>7, <2>1 DEF Usable
<1>10. Candidate(c, p) = c
  BY <1>2, <1>3a, <1>3b, <1>4, <1>5, <1>6, <1>7
<1> QED BY <1>2, <1>8, <1>9, <1>10, NotRefused, RowsAssumption DEF c

-----------------------------------------------------------------------------
(* The loop over the rows of an answer.                                       *)

IsReading(f, p, rows, n) ==
  f = [k \in 0 .. n |-> IF k = 0 THEN NothingRead ELSE ReadRow(p, rows[k], f[k - 1])]

\* The loop has a state after each row.
LEMMA ReadingExists ==
  ASSUME NEW p, NEW rows, NEW n \in Nat
  PROVE  \E f : IsReading(f, p, rows, n)
<1> DEFINE Has(m) == \E f : IsReading(f, p, rows, m)
           Bad == {m \in Nat : ~Has(m)}
<1>1. CASE Bad # {}
  <2> DEFINE m == Min(Bad)
  <2>1. m \in Bad /\ \A x \in Bad : m <= x
    BY <1>1, MinIsMin
  <2>2. m \in Nat /\ ~Has(m)
    BY <2>1
  <2> HIDE DEF m
  <2>3. m # 0
    <3> DEFINE f == [k \in 0 .. 0 |-> NothingRead]
    <3>1. \A k \in 0 .. 0 : k = 0
      OBVIOUS
    <3>2. f = [k \in 0 .. 0 |-> IF k = 0 THEN NothingRead ELSE ReadRow(p, rows[k], f[k - 1])]
      BY <3>1
    <3>3. Has(0)
      <4> HIDE DEF f
      <4> QED BY <3>2 DEF IsReading
    <3> QED BY <2>2, <3>3
  <2>4. m - 1 \in Nat /\ Has(m - 1)
    <3>1. m - 1 \in Nat /\ ~(m <= m - 1)
      BY <2>2, <2>3
    <3>2. m - 1 \notin Bad
      <4> HIDE DEF Bad
      <4> QED BY <2>1, <3>1
    <3> HIDE DEF Has
    <3> QED BY <3>1, <3>2
  <2>5. PICK f : IsReading(f, p, rows, m - 1)
    BY <2>4
  <2> DEFINE g == [k \in 0 .. m |-> IF k = m THEN ReadRow(p, rows[m], f[m - 1]) ELSE f[k]]
  <2>6. \A k \in 0 .. m - 1 :
          f[k] = IF k = 0 THEN NothingRead ELSE ReadRow(p, rows[k], f[k - 1])
    BY <2>5, Zenon DEF IsReading
  <2>7. ASSUME NEW k \in 0 .. m
        PROVE  g[k] = IF k = 0 THEN NothingRead ELSE ReadRow(p, rows[k], g[k - 1])
    <3>1. CASE k = m
      <4>1. g[m] = ReadRow(p, rows[m], f[m - 1])
        BY <2>2
      <4>2. m - 1 \in 0 .. m /\ m - 1 # m
        BY <2>2, <2>4
      <4>3. g[m - 1] = f[m - 1]
        BY <4>2
      <4> HIDE DEF g
      <4> QED BY <2>3, <3>1, <4>1, <4>3
    <3>2. CASE k # m /\ k = 0
      <4>1. g[0] = f[0] /\ 0 \in 0 .. m - 1
        BY <2>4, <3>2
      <4> HIDE DEF g
      <4> QED BY <2>6, <3>2, <4>1
    <3>3. CASE k # m /\ k # 0
      <4>1. k \in 0 .. m - 1 /\ k - 1 \in 0 .. m /\ k - 1 # m
        BY <2>2, <3>3
      <4>2. g[k] = f[k] /\ g[k - 1] = f[k - 1]
        BY <3>3, <4>1
      <4> HIDE DEF g
      <4> QED BY <2>6, <3>3, <4>1, <4>2
    <3> QED BY <3>1, <3>2, <3>3
  <2>8. DOMAIN g = 0 .. m /\ g = [k \in 0 .. m |-> g[k]]
    OBVIOUS
  <2>9. IsReading(g, p, rows, m)
    <3> HIDE DEF g
    <3> QED BY <2>7, <2>8 DEF IsReading
  <2> HIDE DEF g
  <2> QED BY <2>2, <2>9
<1>2. CASE Bad = {}
  <2>1. n \notin Bad
    BY <1>2
  <2> QED BY <2>1
<1> QED BY <1>1, <1>2

\* What is read is the last of those states.
LEMMA ReadingEnds ==
  ASSUME NEW p, NEW rows, Len(rows) \in Nat
  PROVE  \E f : IsReading(f, p, rows, Len(rows)) /\ ReadRows(p, rows) = f[Len(rows)]
<1> DEFINE f == CHOOSE f : IsReading(f, p, rows, Len(rows))
<1>1. IsReading(f, p, rows, Len(rows))
  BY ReadingExists, Zenon
<1>2. ReadRows(p, rows) = f[Len(rows)]
  BY DEF ReadRows, IsReading
<1> HIDE DEF f
<1> QED BY <1>1, <1>2

ReadSoFar(d, c, e, s) == [done |-> d, candidates |-> c, errors |-> e, seen |-> s]

\* The same with one more row, which is refused.
OneRefused(d, c, e, s, reason) ==
  ReadSoFar(d + 1, c, Append(e, [index |-> d, reason |-> reason]), s)

RowRead(d, c, e, s, m, made, next) ==
  /\ m.kind \in {"skip", "error", "row"}
  /\ m.kind = "skip" => next = ReadSoFar(d + 1, c, e, s)
  /\ m.kind = "error" => next = OneRefused(d, c, e, s, m.reason)
  /\ m.kind = "row" /\ FirstRefusal(m.row) # "none" =>
       next = OneRefused(d, c, e, s, FirstRefusal(m.row))
  /\ m.kind = "row" /\ FirstRefusal(m.row) = "none" /\ Key(made) \in s =>
       next = OneRefused(d, c, e, s, "duplicate")
  /\ m.kind = "row" /\ FirstRefusal(m.row) = "none" /\ Key(made) \notin s =>
       next = ReadSoFar(d + 1, Append(c, made), e, s \cup {Key(made)})

\* What becomes of a row: whether it is kept depends on the keys seen.
LEMMA ReadRowIs ==
  ASSUME NEW p \in Adapters, NEW row, NEW d, NEW c, NEW e, NEW s
  PROVE  RowRead(d, c, e, s, MapRow(p, row), Candidate(MapRow(p, row).row, p),
                 ReadRow(p, row, ReadSoFar(d, c, e, s)))
<1> DEFINE acc == ReadSoFar(d, c, e, s)
           m == MapRow(p, row)
           made == Candidate(m.row, p)
           Error(reason) == OneRefused(d, c, e, s, reason)
           next == ReadRow(p, row, acc)
<1>0. acc.done = d /\ acc.candidates = c /\ acc.errors = e /\ acc.seen = s
  BY DEF ReadSoFar
<1>1. ASSUME NEW reason
      PROVE  [Refused(acc, reason) EXCEPT !.done = @ + 1] = Error(reason)
  <2> DEFINE x == Append(e, [index |-> d, reason |-> reason])
  <2>1. Refused(acc, reason) = [acc EXCEPT !.errors = x]
    BY <1>0, Zenon DEF Refused
  <2> HIDE DEF x
  <2>2. Refused(acc, reason) = ReadSoFar(d, c, x, s)
    BY <2>1 DEF ReadSoFar
  <2>3. ReadSoFar(d, c, x, s).done = d
    BY DEF ReadSoFar
  <2>4. [ReadSoFar(d, c, x, s) EXCEPT !.done = d + 1] = ReadSoFar(d + 1, c, x, s)
    <3> DEFINE n == d + 1
    <3> HIDE DEF n
    <3>1. [ReadSoFar(d, c, x, s) EXCEPT !.done = n] = ReadSoFar(n, c, x, s)
      BY DEF ReadSoFar
    <3> QED BY <3>1 DEF n
  <2> QED BY <2>2, <2>3, <2>4, Zenon DEF x, OneRefused
<1>2. [acc EXCEPT !.done = @ + 1] = ReadSoFar(d + 1, c, e, s)
  <2>1. [acc EXCEPT !.done = @ + 1] = [acc EXCEPT !.done = d + 1]
    BY <1>0, Zenon
  <2> DEFINE n == d + 1
  <2> HIDE DEF n
  <2>2. [acc EXCEPT !.done = n] = ReadSoFar(n, c, e, s)
    BY DEF ReadSoFar
  <2> QED BY <2>1, <2>2 DEF n
<1>3. [[acc EXCEPT !.candidates = Append(@, made), !.seen = @ \cup {Key(made)}] EXCEPT !.done = @ + 1]
        = ReadSoFar(d + 1, Append(c, made), e, s \cup {Key(made)})
  <2> DEFINE x == Append(c, made)
             y == s \cup {Key(made)}
             n == d + 1
  <2>1. [acc EXCEPT !.candidates = Append(@, made), !.seen = @ \cup {Key(made)}]
          = [acc EXCEPT !.candidates = x, !.seen = y]
    BY <1>0, Zenon
  <2> HIDE DEF x, y
  <2>2. [acc EXCEPT !.candidates = x, !.seen = y] = ReadSoFar(d, x, e, y)
    <3> DEFINE new == [acc EXCEPT !.candidates = x, !.seen = y]
               old == ReadSoFar(d, x, e, y)
    <3>1. DOMAIN acc = {"done", "candidates", "errors", "seen"}
          /\ DOMAIN old = {"done", "candidates", "errors", "seen"}
          /\ old.done = d /\ old.candidates = x /\ old.errors = e /\ old.seen = y
      BY DEF ReadSoFar
    <3>2. old = [f \in DOMAIN old |-> old[f]]
      BY DEF ReadSoFar
    <3> HIDE DEF acc, old
    <3>3. new = [f \in DOMAIN new |-> new[f]] /\ DOMAIN new = DOMAIN acc
      BY Zenon
    <3>4. new.done = d /\ new.candidates = x /\ new.errors = e /\ new.seen = y
      BY <1>0, <3>1
    <3> HIDE DEF new
    <3>5. \A f \in DOMAIN new : new[f] = old[f]
      BY <3>1, <3>3, <3>4
    <3>6. new = old
      BY <3>1, <3>2, <3>3, <3>5
    <3> QED BY <3>6 DEF new, old, acc
  <2>3. ReadSoFar(d, x, e, y).done = d
    BY DEF ReadSoFar
  <2>4. [ReadSoFar(d, x, e, y) EXCEPT !.done = @ + 1] = [ReadSoFar(d, x, e, y) EXCEPT !.done = n]
    BY <2>3, Zenon
  <2> HIDE DEF n
  <2>5. [ReadSoFar(d, x, e, y) EXCEPT !.done = n] = ReadSoFar(n, x, e, y)
    BY DEF ReadSoFar
  <2>6. [[acc EXCEPT !.candidates = x, !.seen = y] EXCEPT !.done = @ + 1] = ReadSoFar(n, x, e, y)
    BY <2>2, <2>4, <2>5, Zenon
  <2> QED BY <2>1, <2>6, Zenon DEF x, y, n
<1>4. m.kind \in {"skip", "error", "row"}
  <2>1. \A reason, raw : Skip.kind = "skip" /\ ErrorRow(reason).kind = "error" /\ RawRow(raw).kind = "row"
    BY DEF Skip, ErrorRow, RawRow
  <2>2. MapOffer(p, row).kind \in {"skip", "error", "row"}
    BY <2>1 DEF MapOffer
  <2>3. \A r : PickAllowedRow(r).kind \in {"skip", "error", "row"}
    BY <2>1 DEF PickAllowedRow
  <2>4. ParseHtmlRow(row).kind \in {"skip", "error", "row"}
    BY <2>3 DEF ParseHtmlRow
  <2> QED BY <2>2, <2>3, <2>4 DEF MapRow, Adapters
<1>5. acc.seen = s
  BY <1>0
<1> HIDE DEF acc, m, made, Error
<1>6. ReadRow(p, row, acc) =
        [(CASE m.kind = "skip" -> acc
            [] m.kind = "error" -> Refused(acc, m.reason)
            [] m.kind = "row" -> BuildCandidate(m.row, p, acc)) EXCEPT !.done = @ + 1]
  BY Zenon DEF ReadRow, m
<1> HIDE DEF next
<1> SUFFICES RowRead(d, c, e, s, m, made, next)
  BY DEF m, made, next, acc
<1>7. CASE m.kind = "skip"
  <2>1. next = ReadSoFar(d + 1, c, e, s)
    BY <1>2, <1>6, <1>7 DEF next
  <2> QED BY <1>4, <1>7, <2>1 DEF RowRead
<1>8. CASE m.kind = "error"
  <2>1. next = [Refused(acc, m.reason) EXCEPT !.done = @ + 1]
    BY <1>6, <1>8 DEF next
  <2>2. next = Error(m.reason)
    BY <1>1, <2>1
  <2> QED BY <1>4, <1>8, <2>2 DEF RowRead, Error
<1>9. CASE m.kind = "row"
  <2>1. next = [BuildCandidate(m.row, p, acc) EXCEPT !.done = @ + 1]
    BY <1>6, <1>9 DEF next
  <2>2. CASE FirstRefusal(m.row) # "none"
    <3>1. BuildCandidate(m.row, p, acc) = Refused(acc, FirstRefusal(m.row))
      BY <2>2 DEF BuildCandidate
    <3>2. next = Error(FirstRefusal(m.row))
      BY <1>1, <2>1, <3>1
    <3> QED BY <1>4, <1>9, <2>2, <3>2 DEF RowRead, Error
  <2>3. CASE FirstRefusal(m.row) = "none" /\ Key(made) \in s
    <3>1. BuildCandidate(m.row, p, acc) = Refused(acc, "duplicate")
      BY <1>5, <2>3 DEF BuildCandidate, made
    <3>2. next = Error("duplicate")
      BY <1>1, <2>1, <3>1
    <3> QED BY <1>4, <1>9, <2>3, <3>2 DEF RowRead, Error
  <2>4. CASE FirstRefusal(m.row) = "none" /\ Key(made) \notin s
    <3>1. BuildCandidate(m.row, p, acc) =
            [acc EXCEPT !.candidates = Append(@, made), !.seen = @ \cup {Key(made)}]
      BY <1>5, <2>4 DEF BuildCandidate, made
    <3>2. next = ReadSoFar(d + 1, Append(c, made), e, s \cup {Key(made)})
      BY <1>3, <2>1, <3>1
    <3> QED BY <1>4, <1>9, <2>4, <3>2 DEF RowRead, Error
  <2> QED BY <2>2, <2>3, <2>4
<1> QED BY <1>4, <1>7, <1>8, <1>9

UsableAt(p, rows) ==
  {i \in DOMAIN rows :
     MapRow(p, rows[i]).kind = "row" /\ FirstRefusal(MapRow(p, rows[i]).row) = "none"}

MadeAt(p, rows, i) == Candidate(MapRow(p, rows[i]).row, p)
KeyAt(p, rows, i) == Key(MadeAt(p, rows, i))

FirstAt(p, rows) ==
  {i \in UsableAt(p, rows) :
     ~\E j \in UsableAt(p, rows) : j < i /\ KeyAt(p, rows, j) = KeyAt(p, rows, i)}

RefusedAt(p, rows) ==
  {i \in DOMAIN rows \ FirstAt(p, rows) : MapRow(p, rows[i]).kind # "skip"}

Until(S, k) == {i \in S : i <= k}

KeysAt(p, rows, places) == {KeyAt(p, rows, i) : i \in places}

\* The candidates of some places, in their order.
MadeOf(p, rows, places) ==
  [n \in 1 .. Cardinality(places) |-> MadeAt(p, rows, InOrder(places)[n])]

\* The errors name some places, in their order.
Names(errors, places) ==
  /\ errors = [n \in 1 .. Cardinality(places) |-> errors[n]]
  /\ \A n \in 1 .. Cardinality(places) : errors[n].index + 1 = InOrder(places)[n]

\* What is known after k rows.
Through(p, rows, k, acc) ==
  LET first == Until(FirstAt(p, rows), k)
  IN /\ acc = ReadSoFar(k, acc.candidates, acc.errors, acc.seen)
     /\ acc.candidates = MadeOf(p, rows, first)
     /\ acc.seen = KeysAt(p, rows, first)
     /\ Names(acc.errors, Until(RefusedAt(p, rows), k))

\* Appending to a sequence that is given by its places.
LEMMA Appended ==
  ASSUME NEW m \in Nat, NEW l, l = [n \in 1 .. m |-> l[n]], NEW x
  PROVE  Append(l, x) = [n \in 1 .. m + 1 |-> IF n = m + 1 THEN x ELSE l[n]]
<1> DEFINE V == {l[n] : n \in 1 .. m} \cup {x}
<1>1. l \in [1 .. m -> V]
  OBVIOUS
<1>2. l \in Seq(V) /\ Len(l) = m /\ x \in V
  BY <1>1
<1> HIDE DEF V
<1> QED BY <1>2

GoesOn(S, k) ==
  /\ Until(S, k) \in SUBSET Nat /\ IsFiniteSet(Until(S, k))
  /\ \A i \in Until(S, k) : i < k + 1
  /\ k + 1 \in S => Until(S, k + 1) = Until(S, k) \cup {k + 1}
  /\ k + 1 \notin S => Until(S, k + 1) = Until(S, k)

\* The places until the next row, until none, and until the last.
LEMMA UntilNext ==
  ASSUME NEW N \in Nat, NEW S \in SUBSET (1 .. N), NEW k \in Nat
  PROVE  GoesOn(S, k) /\ Until(S, 0) = {} /\ Until(S, N) = S
<1>1. \A i \in S : i \in Nat /\ i >= 1 /\ i <= N
  OBVIOUS
<1>2. \A x : /\ x \in Until(S, k) <=> x \in S /\ x <= k
             /\ x \in Until(S, k + 1) <=> x \in S /\ x <= k + 1
             /\ x \in Until(S, 0) <=> x \in S /\ x <= 0
             /\ x \in Until(S, N) <=> x \in S /\ x <= N
  BY DEF Until
<1>3. IsFiniteSet(Until(S, k))
  <2>1. Until(S, k) \in SUBSET (1 .. N)
    BY <1>2
  <2>2. 1 \in Int /\ N \in Int
    OBVIOUS
  <2>3. IsFiniteSet(1 .. N)
    BY <2>2, FS_Interval
  <2> QED BY <2>1, <2>3, FS_Subset
<1>4. Until(S, k) \in SUBSET Nat /\ \A i \in Until(S, k) : i < k + 1
  <2>1. \A i : i \in Until(S, k) => i \in S /\ i <= k
    BY <1>2
  <2>2. \A i \in Until(S, k) : i \in Nat /\ i <= k
    BY <1>1, <2>1
  <2> QED BY <2>2
<1>5. ASSUME k + 1 \in S PROVE Until(S, k + 1) = Until(S, k) \cup {k + 1}
  <2>1. \A x \in S : x <= k + 1 <=> x <= k \/ x = k + 1
    BY <1>1
  <2>2. k + 1 <= k + 1
    OBVIOUS
  <2>3. \A x : x \in Until(S, k + 1) <=> x \in Until(S, k) \/ x = k + 1
    BY <1>2, <1>5, <2>1, <2>2, Zenon
  <2> QED BY <2>3
<1>6. ASSUME k + 1 \notin S PROVE Until(S, k + 1) = Until(S, k)
  <2>1. \A x \in S : x <= k + 1 <=> x <= k \/ x = k + 1
    BY <1>1
  <2>2. \A x : x \in Until(S, k + 1) <=> x \in Until(S, k)
    BY <1>2, <1>6, <2>1, Zenon
  <2> QED BY <2>2
<1>7. Until(S, 0) = {}
  <2>1. \A x \in S : ~(x <= 0)
    BY <1>1
  <2> QED BY <1>2, <2>1
<1>8. Until(S, N) = S
  BY <1>1, <1>2
<1> QED BY <1>3, <1>4, <1>5, <1>6, <1>7, <1>8 DEF GoesOn

\* One more candidate.
LEMMA MadeNext ==
  ASSUME NEW p, NEW rows, NEW P \in SUBSET Nat, IsFiniteSet(P), NEW n \in Nat, \A i \in P : i < n
  PROVE  MadeOf(p, rows, P \cup {n}) = Append(MadeOf(p, rows, P), MadeAt(p, rows, n))
<1> DEFINE m == Cardinality(P)
           l == MadeOf(p, rows, P)
           x == MadeAt(p, rows, n)
<1>1. m \in Nat /\ Cardinality(P \cup {n}) = m + 1
      /\ InOrder(P \cup {n}) = [k \in 1 .. m + 1 |-> IF k = m + 1 THEN n ELSE InOrder(P)[k]]
  BY InOrderGrows, FS_CardinalityType
<1>2. l = [k \in 1 .. m |-> l[k]] /\ \A k \in 1 .. m : l[k] = MadeAt(p, rows, InOrder(P)[k])
  BY DEF MadeOf
<1>3. Append(l, x) = [k \in 1 .. m + 1 |-> IF k = m + 1 THEN x ELSE l[k]]
  <2> HIDE DEF l, x, m
  <2> QED BY <1>1, <1>2, Appended
<1>4. MadeOf(p, rows, P \cup {n}) = [k \in 1 .. m + 1 |-> MadeAt(p, rows, InOrder(P \cup {n})[k])]
  BY <1>1, Zenon DEF MadeOf
<1> HIDE DEF l, m
<1>5. \A k \in 1 .. m + 1 :
        MadeAt(p, rows, InOrder(P \cup {n})[k]) = IF k = m + 1 THEN x ELSE l[k]
  <2>1. \A k \in 1 .. m + 1 : k = m + 1 \/ k \in 1 .. m
    BY <1>1
  <2> QED BY <1>1, <1>2, <2>1
<1> QED BY <1>3, <1>4, <1>5, Zenon DEF l

\* One more error.
LEMMA NamesNext ==
  ASSUME NEW P \in SUBSET Nat, IsFiniteSet(P), NEW k \in Nat, \A i \in P : i < k + 1,
         NEW errors, Names(errors, P), NEW reason
  PROVE  Names(Append(errors, [index |-> k, reason |-> reason]), P \cup {k + 1})
<1> DEFINE m == Cardinality(P)
           x == [index |-> k, reason |-> reason]
           l == Append(errors, x)
<1>1. m \in Nat /\ Cardinality(P \cup {k + 1}) = m + 1
      /\ InOrder(P \cup {k + 1}) = [n \in 1 .. m + 1 |-> IF n = m + 1 THEN k + 1 ELSE InOrder(P)[n]]
  BY InOrderGrows, FS_CardinalityType
<1>2. errors = [n \in 1 .. m |-> errors[n]] /\ \A n \in 1 .. m : errors[n].index + 1 = InOrder(P)[n]
  BY DEF Names
<1>3. x.index = k
  OBVIOUS
<1> HIDE DEF x, m
<1>4. l = [n \in 1 .. m + 1 |-> IF n = m + 1 THEN x ELSE errors[n]]
  BY <1>1, <1>2, Appended
<1> HIDE DEF l
<1>5. \A n \in 1 .. m + 1 : l[n] = IF n = m + 1 THEN x ELSE errors[n]
  BY <1>4
<1>6. l = [n \in 1 .. m + 1 |-> l[n]]
  BY <1>4
<1>7. ASSUME NEW n \in 1 .. m + 1 PROVE l[n].index + 1 = InOrder(P \cup {k + 1})[n]
  <2>1. InOrder(P \cup {k + 1})[n] = IF n = m + 1 THEN k + 1 ELSE InOrder(P)[n]
    BY <1>1
  <2>2. CASE n = m + 1
    BY <1>3, <1>5, <2>1, <2>2
  <2>3. CASE n # m + 1
    <3>1. n \in 1 .. m
      BY <1>1, <2>3
    <3> QED BY <1>2, <1>5, <2>1, <2>3, <3>1
  <2> QED BY <2>2, <2>3
<1> QED BY <1>1, <1>6, <1>7, Zenon DEF Names, l, x

\* A usable row is the first of its key, or there is one before it.
LEMMA FirstOfItsKey ==
  ASSUME NEW p, NEW rows, NEW N \in Nat, DOMAIN rows = 1 .. N, NEW j \in UsableAt(p, rows)
  PROVE  \E i \in FirstAt(p, rows) : i <= j /\ KeyAt(p, rows, i) = KeyAt(p, rows, j)
<1> DEFINE Same == {i \in UsableAt(p, rows) : KeyAt(p, rows, i) = KeyAt(p, rows, j)}
           i == Min(Same)
<1>1. Same \in SUBSET Nat /\ j \in Same
  BY DEF UsableAt
<1>2. i \in Same /\ \A x \in Same : i <= x
  <2> HIDE DEF Same
  <2> QED BY <1>1, MinIsMin
<1> HIDE DEF i
<1>3. \A x \in UsableAt(p, rows) : KeyAt(p, rows, x) = KeyAt(p, rows, i) => x \in Same
  BY <1>2
<1>4. \A x \in Same : ~(x < i)
  <2> HIDE DEF Same
  <2>1. \A x \in Same : x \in Nat /\ i \in Nat
    BY <1>1, <1>2
  <2> QED BY <1>2, <2>1
<1>5. i \in UsableAt(p, rows) /\ KeyAt(p, rows, i) = KeyAt(p, rows, j) /\ i <= j
  BY <1>1, <1>2
<1> HIDE DEF Same
<1>6. i \in FirstAt(p, rows)
  BY <1>3, <1>4, <1>5, Zenon DEF FirstAt
<1> QED BY <1>5, <1>6

\* What Through says of a state, field by field.
LEMMA ThroughIs ==
  ASSUME NEW p, NEW rows, NEW k, NEW c, NEW e, NEW s,
         c = MadeOf(p, rows, Until(FirstAt(p, rows), k)),
         s = KeysAt(p, rows, Until(FirstAt(p, rows), k)),
         Names(e, Until(RefusedAt(p, rows), k))
  PROVE  Through(p, rows, k, ReadSoFar(k, c, e, s))
<1>1. ReadSoFar(k, c, e, s).candidates = c /\ ReadSoFar(k, c, e, s).errors = e
      /\ ReadSoFar(k, c, e, s).seen = s
  BY DEF ReadSoFar
<1> QED BY <1>1, Zenon DEF Through

\* A row is read as it should be, if those before it were.
LEMMA ReadsOn ==
  ASSUME NEW p \in Adapters, NEW rows, NEW N \in Nat, DOMAIN rows = 1 .. N, NEW k \in Nat, k < N,
         NEW acc, Through(p, rows, k, acc)
  PROVE  Through(p, rows, k + 1, ReadRow(p, rows[k + 1], acc))
<1> DEFINE first == FirstAt(p, rows)
           refused == RefusedAt(p, rows)
           c == acc.candidates
           e == acc.errors
           s == acc.seen
           row == rows[k + 1]
           m == MapRow(p, row)
           made == Candidate(m.row, p)
           Error(reason) == OneRefused(k, c, e, s, reason)
           next == ReadRow(p, row, acc)
<1>1. first \in SUBSET (1 .. N) /\ refused \in SUBSET (1 .. N) /\ k + 1 \in DOMAIN rows
  BY DEF FirstAt, RefusedAt, UsableAt
<1>2. /\ k + 1 \in UsableAt(p, rows) <=> m.kind = "row" /\ FirstRefusal(m.row) = "none"
      /\ k + 1 \in refused <=> k + 1 \notin first /\ m.kind # "skip"
      /\ k + 1 \in first => k + 1 \in UsableAt(p, rows)
      /\ made = MadeAt(p, rows, k + 1) /\ Key(made) = KeyAt(p, rows, k + 1)
  BY <1>1 DEF FirstAt, RefusedAt, UsableAt, MadeAt, KeyAt
<1>3. /\ acc = ReadSoFar(k, c, e, s)
      /\ c = MadeOf(p, rows, Until(first, k)) /\ s = KeysAt(p, rows, Until(first, k))
      /\ Names(e, Until(refused, k))
  BY Zenon DEF Through
<1>4. RowRead(k, c, e, s, m, made, next)
  <2>1. RowRead(k, c, e, s, m, made, ReadRow(p, row, ReadSoFar(k, c, e, s)))
    BY ReadRowIs, Zenon
  <2> HIDE DEF c, e, s, m, made, row
  <2> QED BY <1>3, <2>1, Zenon
<1> HIDE DEF first, refused, c, e, s, row, m, made, next
<1>5. GoesOn(first, k) /\ GoesOn(refused, k)
  BY <1>1, UntilNext
<1>7. ASSUME NEW reason, k + 1 \notin first, m.kind # "skip"
      PROVE  Through(p, rows, k + 1, Error(reason))
  <2>1. k + 1 \in refused
    BY <1>2, <1>7
  <2> DEFINE x == [index |-> k, reason |-> reason]
  <2>2. Names(Append(e, x), Until(refused, k) \cup {k + 1})
    BY <1>3, <1>5, NamesNext DEF GoesOn
  <2> HIDE DEF x
  <2>3. c = MadeOf(p, rows, Until(first, k + 1)) /\ s = KeysAt(p, rows, Until(first, k + 1))
        /\ Names(Append(e, x), Until(refused, k + 1))
    BY <1>3, <1>5, <1>7, <2>1, <2>2, Zenon DEF GoesOn
  <2>4. Through(p, rows, k + 1, ReadSoFar(k + 1, c, Append(e, x), s))
    BY <2>3, ThroughIs, Zenon DEF first, refused
  <2> QED BY <2>4 DEF x, OneRefused
<1> SUFFICES Through(p, rows, k + 1, next)
  BY DEF next, row
<1>8. CASE m.kind = "skip"
  <2>1. k + 1 \notin first /\ k + 1 \notin refused
    BY <1>2, <1>8
  <2>2. c = MadeOf(p, rows, Until(first, k + 1)) /\ s = KeysAt(p, rows, Until(first, k + 1))
        /\ Names(e, Until(refused, k + 1))
    BY <1>3, <1>5, <2>1, Zenon DEF GoesOn
  <2>3. Through(p, rows, k + 1, ReadSoFar(k + 1, c, e, s))
    BY <2>2, ThroughIs, Zenon DEF first, refused
  <2> QED BY <1>4, <1>8, <2>3 DEF RowRead
<1>9. CASE m.kind = "error"
  <2>1. Through(p, rows, k + 1, Error(m.reason))
    BY <1>2, <1>7, <1>9
  <2> QED BY <1>4, <1>9, <2>1 DEF RowRead
<1>10. CASE m.kind = "row" /\ FirstRefusal(m.row) # "none"
  <2>1. Through(p, rows, k + 1, Error(FirstRefusal(m.row)))
    BY <1>2, <1>7, <1>10
  <2> QED BY <1>4, <1>10, <2>1 DEF RowRead
<1>11. CASE m.kind = "row" /\ FirstRefusal(m.row) = "none" /\ Key(made) \in s
  <2>1. PICK i \in Until(first, k) : KeyAt(p, rows, i) = KeyAt(p, rows, k + 1)
    BY <1>2, <1>3, <1>11, Zenon DEF KeysAt
  <2>2. i < k + 1 /\ i \in UsableAt(p, rows)
    BY <1>5, <2>1 DEF GoesOn, Until, first, FirstAt
  <2>3. k + 1 \notin first
    BY <2>1, <2>2, Zenon DEF first, FirstAt
  <2>4. Through(p, rows, k + 1, Error("duplicate"))
    BY <1>7, <1>11, <2>3
  <2> QED BY <1>4, <1>11, <2>4 DEF RowRead
<1>12. CASE m.kind = "row" /\ FirstRefusal(m.row) = "none" /\ Key(made) \notin s
  <2>1. k + 1 \in first
    <3>1. k + 1 \in UsableAt(p, rows)
      BY <1>2, <1>12
    <3>2. PICK i \in first : i <= k + 1 /\ KeyAt(p, rows, i) = KeyAt(p, rows, k + 1)
      BY <3>1, FirstOfItsKey, Zenon DEF first
    <3>3. i \notin Until(first, k)
      BY <1>2, <1>3, <1>12, <3>2, Zenon DEF KeysAt
    <3>4. ~(i <= k) /\ i \in Nat
      BY <1>1, <3>2, <3>3 DEF Until
    <3>5. i = k + 1
      BY <3>2, <3>4
    <3> QED BY <3>2, <3>5
  <2>2. k + 1 \notin refused
    BY <1>2, <2>1
  <2>3. Append(c, made) = MadeOf(p, rows, Until(first, k + 1))
    <3>1. MadeOf(p, rows, Until(first, k) \cup {k + 1}) =
            Append(MadeOf(p, rows, Until(first, k)), MadeAt(p, rows, k + 1))
      <4> DEFINE n == k + 1
      <4>1. n \in Nat
        OBVIOUS
      <4>2. /\ Until(first, k) \in SUBSET Nat /\ IsFiniteSet(Until(first, k))
            /\ \A i \in Until(first, k) : i < n
        BY <1>5 DEF GoesOn
      <4> HIDE DEF n
      <4>3. MadeOf(p, rows, Until(first, k) \cup {n}) =
              Append(MadeOf(p, rows, Until(first, k)), MadeAt(p, rows, n))
        BY <4>1, <4>2, MadeNext
      <4> QED BY <4>3 DEF n
    <3> QED BY <1>2, <1>3, <1>5, <2>1, <3>1 DEF GoesOn
  <2>4. s \cup {Key(made)} = KeysAt(p, rows, Until(first, k + 1))
    <3>1. KeysAt(p, rows, Until(first, k) \cup {k + 1}) =
            KeysAt(p, rows, Until(first, k)) \cup {KeyAt(p, rows, k + 1)}
      BY Zenon DEF KeysAt
    <3> QED BY <1>2, <1>3, <1>5, <2>1, <3>1 DEF GoesOn
  <2>5. Names(e, Until(refused, k + 1))
    BY <1>3, <1>5, <2>2 DEF GoesOn
  <2>6. Through(p, rows, k + 1, ReadSoFar(k + 1, Append(c, made), e, s \cup {Key(made)}))
    BY <2>3, <2>4, <2>5, ThroughIs, Zenon DEF first, refused
  <2> QED BY <1>4, <1>12, <2>6 DEF RowRead
<1>13. m.kind \in {"skip", "error", "row"}
  BY <1>4, Zenon DEF RowRead
<1> QED BY <1>8, <1>9, <1>10, <1>11, <1>12, <1>13

\* All rows are read as they should be.
LEMMA ReadThrough ==
  ASSUME NEW p \in Adapters, NEW rows, IsSequence(rows)
  PROVE  Through(p, rows, Len(rows), ReadRows(p, rows))
<1> DEFINE N == Len(rows)
<1>1. N \in Nat /\ DOMAIN rows = 1 .. N
  BY DEF IsSequence
<1>2. FirstAt(p, rows) \in SUBSET (1 .. N) /\ RefusedAt(p, rows) \in SUBSET (1 .. N)
  BY <1>1 DEF FirstAt, RefusedAt, UsableAt
<1>3. PICK f : IsReading(f, p, rows, N) /\ ReadRows(p, rows) = f[N]
  BY <1>1, ReadingEnds
<1> HIDE DEF N
<1>4. \A k \in 0 .. N : f[k] = IF k = 0 THEN NothingRead ELSE ReadRow(p, rows[k], f[k - 1])
  BY <1>3, Zenon DEF IsReading
<1>5. Through(p, rows, 0, NothingRead)
  <2>1. Until(FirstAt(p, rows), 0) = {} /\ Until(RefusedAt(p, rows), 0) = {}
    <3>1. 0 \in Nat
      OBVIOUS
    <3> QED BY <1>1, <1>2, <3>1, UntilNext
  <2>2. Cardinality({}) = 0
    BY InOrderOfNone
  <2>3. MadeOf(p, rows, {}) = <<>>
    BY <2>2 DEF MadeOf
  <2>4. KeysAt(p, rows, {}) = {}
    BY DEF KeysAt
  <2>5. Names(<<>>, {})
    BY <2>2 DEF Names
  <2>6. Through(p, rows, 0, ReadSoFar(0, <<>>, <<>>, {}))
    <3> DEFINE c == <<>>
               s == {}
    <3>1. c = MadeOf(p, rows, Until(FirstAt(p, rows), 0))
          /\ s = KeysAt(p, rows, Until(FirstAt(p, rows), 0))
          /\ Names(c, Until(RefusedAt(p, rows), 0))
      BY <2>1, <2>3, <2>4, <2>5
    <3> HIDE DEF c, s
    <3>2. Through(p, rows, 0, ReadSoFar(0, c, c, s))
      BY <3>1, ThroughIs, Zenon
    <3> QED BY <3>2 DEF c, s
  <2> QED BY <2>6 DEF NothingRead, ReadSoFar
<1> DEFINE Bad == {k \in 0 .. N : ~Through(p, rows, k, f[k])}
<1>6. CASE Bad = {}
  <2>1. N \in 0 .. N /\ N \notin Bad
    BY <1>1, <1>6
  <2> QED BY <1>3, <2>1 DEF N
<1>7. CASE Bad # {}
  <2> DEFINE k == Min(Bad)
  <2>1. k \in Bad /\ \A x \in Bad : k <= x
    <3>1. Bad \in SUBSET Nat
      OBVIOUS
    <3> HIDE DEF Bad
    <3> QED BY <1>7, <3>1, MinIsMin
  <2>2. k \in 0 .. N /\ ~Through(p, rows, k, f[k])
    BY <2>1
  <2> HIDE DEF k
  <2>3. k # 0
    <3>1. f[0] = NothingRead
      BY <1>1, <1>4
    <3> QED BY <1>5, <2>2, <3>1
  <2>4. k - 1 \in Nat /\ k - 1 \in 0 .. N /\ k - 1 < N /\ (k - 1) + 1 = k /\ ~(k <= k - 1)
    BY <1>1, <2>2, <2>3
  <2>5. k - 1 \notin Bad
    <3> HIDE DEF Bad
    <3> QED BY <2>1, <2>4
  <2>6. Through(p, rows, k - 1, f[k - 1])
    BY <2>4, <2>5
  <2> DEFINE j == k - 1
  <2>7. Through(p, rows, j + 1, ReadRow(p, rows[j + 1], f[j]))
    <3> HIDE DEF j, Bad
    <3>1. j \in Nat /\ j < N /\ Through(p, rows, j, f[j])
      BY <2>4, <2>6 DEF j
    <3> QED BY <1>1, <3>1, ReadsOn
  <2>8. Through(p, rows, k, ReadRow(p, rows[k], f[k - 1]))
    BY <2>4, <2>7
  <2> QED BY <1>4, <2>2, <2>3, <2>8
<1> QED BY <1>6, <1>7

\* The rows of an answer are a list, if there are any.
LEMMA EnvelopeIs ==
  ASSUME NEW p \in Adapters, NEW body, IsAnswer(body), Envelope(p, body) # Absent
  PROVE  IsSequence(Envelope(p, body))
<1> DEFINE names == EnvelopeFields[p]
           good == {n \in DOMAIN body : body[n] # Other}
           places == {i \in DOMAIN names : names[i] \in good}
<1>1. body # NotARow /\ Envelope(p, body) = FirstField(body, names, good)
  BY Zenon DEF Envelope
<1>2. places # {} /\ FirstField(body, names, good) = body[names[Min(places)]]
  BY <1>1 DEF FirstField
<1>3. places \in SUBSET Nat
  <2>1. DOMAIN names \in SUBSET Nat
    BY DEF EnvelopeFields, Adapters
  <2> QED BY <2>1
<1>4. Min(places) \in places
  <2> HIDE DEF places
  <2> QED BY <1>2, <1>3, MinIsMin
<1>5. names[Min(places)] \in DOMAIN body /\ body[names[Min(places)]] # Other
  BY <1>4
<1> QED BY <1>1, <1>2, <1>5, Zenon DEF IsAnswer

\* The candidates are the usable offers, for every answer.
LEMMA OffersBecomeCandidates ==
  ASSUME NEW p \in Adapters, NEW body, IsAnswer(body)
  PROVE  UsableOffersBecomeCandidates(p, body)
<1> DEFINE rows == Envelope(p, body)
           read == ReadRows(p, rows)
           first == FirstAt(p, rows)
           refused == RefusedAt(p, rows)
<1>1. SUFFICES ASSUME rows # Absent
      PROVE  /\ read.candidates = MadeOf(p, rows, first)
             /\ [n \in DOMAIN read.errors |-> read.errors[n].index + 1] = InOrder(refused)
  BY Zenon DEF UsableOffersBecomeCandidates, FirstAt, RefusedAt, UsableAt, MadeOf, MadeAt, KeyAt
<1>2. IsSequence(rows)
  BY <1>1, EnvelopeIs
<1>3. Through(p, rows, Len(rows), read)
  BY <1>2, ReadThrough
<1>4. /\ first \in SUBSET (1 .. Len(rows)) /\ refused \in SUBSET (1 .. Len(rows)) /\ Len(rows) \in Nat
      /\ Until(first, Len(rows)) = first /\ Until(refused, Len(rows)) = refused
      /\ GoesOn(refused, Len(rows))
  <2>1. Len(rows) \in Nat /\ DOMAIN rows = 1 .. Len(rows)
    BY <1>2 DEF IsSequence
  <2>2. first \in SUBSET (1 .. Len(rows)) /\ refused \in SUBSET (1 .. Len(rows))
    BY <2>1 DEF FirstAt, RefusedAt, UsableAt
  <2> HIDE DEF first, refused, rows
  <2> QED BY <2>1, <2>2, UntilNext
<1> HIDE DEF rows, read
<1>5. read.candidates = MadeOf(p, rows, first) /\ Names(read.errors, refused)
  BY <1>3, <1>4, Zenon DEF Through
<1>6. InOrder(refused) \in [1 .. Cardinality(refused) -> refused]
  <2>1. refused \in SUBSET Nat /\ IsFiniteSet(refused)
    BY <1>4, Zenon DEF GoesOn
  <2> HIDE DEF refused
  <2> QED BY <2>1, InOrderIs
<1> HIDE DEF first, refused
<1>7. [n \in DOMAIN read.errors |-> read.errors[n].index + 1] = InOrder(refused)
  BY <1>5, <1>6 DEF Names
<1> QED BY <1>5, <1>7

\* A list of candidates, each as a check leaves it, with a key of its own, is read back.
LEMMA CandidatesComeBack ==
  ASSUME NEW p, NEW N \in Nat, NEW l, l = [i \in 1 .. N |-> l[i]],
         \A i \in 1 .. N : /\ l[i] # NotARow /\ l[i].sourceId = p
                           /\ FirstRefusal(l[i]) = "none" /\ Candidate(l[i], p) = l[i],
         \A i, j \in 1 .. N : i # j => Key(l[i]) # Key(l[j])
  PROVE  ParseCachedCandidates(p, l) = l
<1>1. DOMAIN l = 1 .. N
  BY Zenon
<1>2. /\ \A i \in DOMAIN l : l[i] # NotARow /\ l[i].sourceId = p /\ FirstRefusal(l[i]) = "none"
      /\ \A i, j \in DOMAIN l : i # j => Key(Candidate(l[i], p)) # Key(Candidate(l[j], p))
  BY <1>1
<1>3. [i \in DOMAIN l |-> Candidate(l[i], p)] = l
  BY <1>1, Zenon
<1> QED BY <1>2, <1>3, Zenon DEF ParseCachedCandidates

\* What was read from an answer is what its cache gives back, for every answer.
LEMMA CandidatesReadBack ==
  ASSUME NEW p \in Adapters, NEW body, IsAnswer(body)
  PROVE  StoredCandidatesReadBack(p, body)
<1> DEFINE rows == Envelope(p, body)
           first == FirstAt(p, rows)
           l == ReadRows(p, rows).candidates
           N == Cardinality(first)
           q == InOrder(first)
<1>1. SUFFICES ASSUME rows # Absent PROVE ParseCachedCandidates(p, l) = l
  BY Zenon DEF StoredCandidatesReadBack
<1>2. IsSequence(rows)
  BY <1>1, EnvelopeIs
<1>3. Through(p, rows, Len(rows), ReadRows(p, rows))
  BY <1>2, ReadThrough
<1>4. first \in SUBSET (1 .. Len(rows)) /\ Until(first, Len(rows)) = first /\ GoesOn(first, Len(rows))
  <2>1. Len(rows) \in Nat /\ DOMAIN rows = 1 .. Len(rows)
    BY <1>2 DEF IsSequence
  <2>2. first \in SUBSET (1 .. Len(rows))
    BY <2>1 DEF FirstAt, UsableAt
  <2> HIDE DEF first, rows
  <2> QED BY <2>1, <2>2, UntilNext
<1>5. first \in SUBSET Nat /\ IsFiniteSet(first) /\ N \in Nat
  BY <1>4, FS_CardinalityType, Zenon DEF GoesOn
<1>6. /\ q \in [1 .. N -> first]
      /\ \A i, j \in 1 .. N : i < j => q[i] < q[j]
  <2> HIDE DEF first
  <2> QED BY <1>5, InOrderIs
<1>7. l = MadeOf(p, rows, first)
  BY <1>3, <1>4, Zenon DEF Through
<1>8. l = [i \in 1 .. N |-> MadeAt(p, rows, q[i])]
  BY <1>7, Zenon DEF MadeOf
<1>9. ASSUME NEW x \in first
      PROVE  /\ MadeAt(p, rows, x) # NotARow /\ MadeAt(p, rows, x).sourceId = p
             /\ FirstRefusal(MadeAt(p, rows, x)) = "none"
             /\ Candidate(MadeAt(p, rows, x), p) = MadeAt(p, rows, x)
  <2>1. FirstRefusal(MapRow(p, rows[x]).row) = "none"
    BY DEF FirstAt, UsableAt
  <2> QED BY <2>1, CandidateAgain, Zenon DEF MadeAt
<1>10. ASSUME NEW x \in first, NEW y \in first, x < y
       PROVE  Key(MadeAt(p, rows, x)) # Key(MadeAt(p, rows, y))
  BY <1>10, Zenon DEF FirstAt, KeyAt
<1> HIDE DEF l, rows, first, N, q
<1>11. \A i \in 1 .. N : q[i] \in first /\ l[i] = MadeAt(p, rows, q[i])
  BY <1>6, <1>8
<1>12. l = [i \in 1 .. N |-> l[i]]
  BY <1>8
<1>13. \A i \in 1 .. N : /\ l[i] # NotARow /\ l[i].sourceId = p
                         /\ FirstRefusal(l[i]) = "none" /\ Candidate(l[i], p) = l[i]
  BY <1>9, <1>11, Zenon
<1>14. ASSUME NEW i \in 1 .. N, NEW j \in 1 .. N, i # j
       PROVE  Key(l[i]) # Key(l[j])
  <2>1. i < j \/ j < i
    BY <1>14
  <2>2. CASE i < j
    BY <1>6, <1>10, <1>11, <2>2
  <2>3. CASE j < i
    <3>1. Key(l[j]) # Key(l[i])
      BY <1>6, <1>10, <1>11, <2>3
    <3> QED BY <3>1
  <2> QED BY <2>1, <2>2, <2>3
<1> QED BY <1>5, <1>12, <1>13, <1>14, CandidatesComeBack

\* The candidates read from an answer are the usable offers in it, and every other row is
\* accounted for, for every answer (source-adapters.ts:205-267,
\* source-provider-pipeline.ts:472-500).
THEOREM OffersAreCandidates == Spec => []CandidatesAreTheOffers
<1>1. MayBeAsked => CandidatesAreTheOffers
  BY RowsAsked, OffersBecomeCandidates DEF MayBeAsked, CandidatesAreTheOffers
<1> QED BY <1>1, OnlyWhatMayBeAsked, PTL

\* The cache gives back what was read, for every answer
\* (source-provider-pipeline.ts:150-209).
THEOREM CacheIsFaithful == Spec => []CacheGivesBack
<1>1. MayBeAsked => CacheGivesBack
  BY RowsAsked, CandidatesReadBack DEF MayBeAsked, CacheGivesBack
<1> QED BY <1>1, OnlyWhatMayBeAsked, PTL
=============================================================================
