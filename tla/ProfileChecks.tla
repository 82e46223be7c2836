----------------------------- MODULE ProfileChecks -----------------------------
(***************************************************************************)
(* The store profiles of the extension (extension/storeProfiles.ts), how the  *)
(* page's host finds one (extension/domainNormalize.ts), what a support check *)
(* then says (extension/profileDiagnostics.ts), and the tool that vets a set  *)
(* of profiles before they are shipped (extension/profileVerify.ts).          *)
(*                                                                          *)
(* A host is a name, with a "www." in front of it or not, in upper case or    *)
(* not.  A text field of a profile is Missing, Blanks or something.           *)
(***************************************************************************)
EXTENDS Sorting, FiniteSetsExt

CONSTANTS
  Missing, Blanks,   \* a field that is not there; a text of blanks
  NoProfile,
  GoodIds,          \* the ids that ID_PATTERN matches
  Tainted           \* the texts with a forbidden substring

ASSUME ProfilesAssumption ==
  /\ Missing # Blanks
  /\ {Missing, Blanks} \cap GoodIds = {}

IsNonEmptyString(v) == v \notin {Missing, Blanks}

-----------------------------------------------------------------------------
(* Looking a profile up.                                                    *)

Host(name) == [name |-> name, www |-> FALSE, upper |-> FALSE]

IsHost(d) ==
  d = [name |-> d.name, www |-> d.www, upper |-> d.upper] /\ {d.www, d.upper} \subseteq BOOLEAN

\* What may be checked: lists of objects, whose fields may be missing or blank.
IsProfileList(profiles) ==
  /\ IsSequence(profiles)
  /\ \A i \in DOMAIN profiles :
       /\ profiles[i] # NoProfile
       /\ IsNonEmptyString(profiles[i].domain) => IsHost(profiles[i].domain)
       /\ IsSequence(profiles[i].candidateCodes)

NormalizeLookupDomain(host) == [host EXCEPT !.www = FALSE, !.upper = FALSE]

\* Array.prototype.find, of the places that fit.
Find(profiles, places) == IF places = {} THEN NoProfile ELSE profiles[Min(places)]

\* getStoreProfileForDomain: the first profile whose domain normalises to the same.
GetStoreProfileForDomain(profiles, host) ==
  Find(profiles, {i \in DOMAIN profiles :
    NormalizeLookupDomain(profiles[i].domain) = NormalizeLookupDomain(host)})

\* deriveSupportReason.
DeriveSupportReason(matched, codes, scan) ==
  CASE ~matched -> "hostname_unrecognized"
    [] matched /\ codes = 0 -> "no_candidate_codes"
    [] matched /\ codes > 0 ->
         CASE ~scan.input -> "coupon_input_missing"
           [] scan.input /\ ~scan.button -> "apply_button_missing"
           [] scan.input /\ scan.button /\ ~scan.total -> "total_missing"
           [] scan.input /\ scan.button /\ scan.total -> "ready"

\* getMockCandidateCodes, the list of a run when the server does not answer.
GetMockCandidateCodes(profiles, host) ==
  LET profile == GetStoreProfileForDomain(profiles, host)
  IN IF profile = NoProfile THEN <<>> ELSE profile.candidateCodes

-----------------------------------------------------------------------------
(* Vetting profiles: each operator is the set of the checks that fail.      *)

Failing(checks) == {c \in DOMAIN checks : ~checks[c]}

SelectorKeys == {"couponInput", "applyButton", "subtotal", "total"}

VerifyOneProfile(profile) ==
  LET codes == profile.candidateCodes
      selectors == {profile.selectors[k] : k \in SelectorKeys} \ {Missing}
      domain == IF IsNonEmptyString(profile.domain) THEN {profile.domain.name} ELSE {}
  IN Failing([id_present |-> IsNonEmptyString(profile.id),
              id_format |-> IsNonEmptyString(profile.id) => profile.id \in GoodIds,
              domain_present |-> IsNonEmptyString(profile.domain),
              candidate_codes_present |-> codes # <<>>,
              candidate_codes_non_empty |-> \A i \in DOMAIN codes : IsNonEmptyString(codes[i]),
              selector_non_empty |-> \A s \in selectors : IsNonEmptyString(s),
              no_forbidden_substrings |->
                ({profile.id} \cup domain \cup selectors) \cap Tainted = {}])

\* No two of the texts, compared as they are, are the same.
Unique(texts) ==
  \A i, j \in DOMAIN texts : i # j /\ IsNonEmptyString(texts[i]) => texts[i] # texts[j]

IdsOf(profiles)     == [i \in DOMAIN profiles |-> profiles[i].id]
DomainsOf(profiles) == [i \in DOMAIN profiles |-> profiles[i].domain]

\* localhost_profile_present and localhost_profile_valid, of the first such profile.
LocalhostServes(profiles) ==
  LET local == Find(profiles, {i \in DOMAIN profiles : profiles[i].domain = Host("localhost")})
  IN /\ local # NoProfile
     /\ IsNonEmptyString(local.id) /\ local.candidateCodes # <<>>
     /\ \A i \in DOMAIN local.candidateCodes : IsNonEmptyString(local.candidateCodes[i])

\* Faulty variant: profiles may share a domain.
VerifyEachProfile(profiles) ==
  Failing([profiles_non_empty |-> profiles # <<>>,
           ids_unique |-> Unique(IdsOf(profiles)),
           localhost |-> LocalhostServes(profiles)])
  \cup UNION {VerifyOneProfile(profiles[i]) : i \in DOMAIN profiles}

VerifyProfiles(profiles) ==
  Failing([profiles_non_empty |-> profiles # <<>>,
           ids_unique |-> Unique(IdsOf(profiles)),
           domains_unique |-> Unique(DomainsOf(profiles)),
           localhost |-> LocalhostServes(profiles)])
  \cup UNION {VerifyOneProfile(profiles[i]) : i \in DOMAIN profiles}

\* verifyFixtureCompatibility: the fixtures that are missing, do not load, or are not
\* judged as expected.  A source is NoProfile when it is not there.
VerifyFixtureCompatibility(sources, expected) ==
  {f \in DOMAIN expected :
     sources[f] = NoProfile \/ DeriveSupportReason(TRUE, 1, sources[f]) # expected[f]}

-----------------------------------------------------------------------------
\* Profiles that the tool passes serve their shops: whatever spelling of the domain a
\* visitor uses, the profile is found by it, with a list to test when the server is
\* down, so that the support check never says that the shop is not known or has no
\* codes; and on a page like a fixture that passed it says what was expected.  A domain
\* that is written with "www." or in upper case is the exception: it may be hidden
\* behind another profile for the same shop, since the tool compares them as written
\* (profileVerify.ts:247-269).
VerifiedProfilesServe(profiles, sources, expected) ==
  LET canonical == \A i \in DOMAIN profiles :
                     NormalizeLookupDomain(profiles[i].domain) = Host(profiles[i].domain.name)
                     /\ profiles[i].domain = Host(profiles[i].domain.name)
  IN VerifyProfiles(profiles) = {} =>
       /\ GetStoreProfileForDomain(profiles, Host("localhost")) # NoProfile
       /\ \A i \in DOMAIN profiles, www, upper \in BOOLEAN :
            LET visited == [profiles[i].domain EXCEPT !.www = www, !.upper = upper]
                codes == GetMockCandidateCodes(profiles, visited)
                Says(scan) == DeriveSupportReason(
                  GetStoreProfileForDomain(profiles, visited) # NoProfile, Len(codes), scan)
            IN /\ canonical => GetStoreProfileForDomain(profiles, visited) = profiles[i]
               /\ VerifyFixtureCompatibility(sources, expected) = {} =>
                    \A f \in DOMAIN expected : Says(sources[f]) = expected[f]
=============================================================================
