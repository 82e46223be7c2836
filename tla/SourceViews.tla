------------------------------ MODULE SourceViews ------------------------------
(***************************************************************************)
(* What is shown of the sources behind a store's codes: the provenance that   *)
(* GET /coupons adds (db-coupon-provenance.ts, coupons.ts), the extension's    *)
(* reading of it (extension/couponProvider.ts), the admin's summary of a       *)
(* store (db-source-summary.ts) and of the sources' caches                    *)
(* (db-source-status.ts).                                                    *)
(*                                                                          *)
(* A claim is a row of coupon_code_sources.  Dates are counted, 0 being an     *)
(* empty one; confidences are whole.                                          *)
(***************************************************************************)
EXTENDS Sorting, FiniteSetsExt

CONSTANTS
  Nothing,
  TypeOf,         \* TypeOf[s]: the type of source s
  TypePriority,   \* SOURCE_TYPE_PRIORITY, 0 for a type it lacks
  MaxConfidence,  \* 100
  CodeCap         \* SOURCE_SUMMARY_CODE_CAP

ASSUME ViewsAssumption ==
  /\ \A s \in DOMAIN TypeOf : TypeOf[s] \in DOMAIN TypePriority /\ TypePriority[TypeOf[s]] \in Nat
  /\ MaxConfidence \in Nat /\ CodeCap \in Nat
  /\ Nothing \notin Nat

IsClaimList(claims) ==
  /\ IsSequence(claims)
  /\ \A i \in DOMAIN claims : claims[i].source \in DOMAIN TypeOf /\ claims[i].date \in Nat

ClaimsOf(claims, code) == Kept(claims, {i \in DOMAIN claims : claims[i].code = code})

-----------------------------------------------------------------------------
(* GET /coupons.                                                            *)

\* safeConfidence: Nothing when it is none, or out of range.
SafeConfidence(v) == IF v \in 0 .. MaxConfidence THEN v ELSE Nothing

\* The places of a claim in the three orders that pickBestClaim compares.
Confidence(c) == IF SafeConfidence(c.confidence) = Nothing THEN 0 ELSE 1 + c.confidence
Priority(c)   == TypePriority[TypeOf[c.source]]

Beats(c, best) ==
  \/ Confidence(c) > Confidence(best)
  \/ /\ Confidence(c) = Confidence(best)
     /\ c.date > best.date \/ (c.date = best.date /\ Priority(c) > Priority(best))

\* Faulty variant: a claim that is as good as the best so far replaces it.
PickLastOfBest(claims) ==
  claims[LastTaken(Len(claims), {p \in Pairs(0 .. Len(claims)) :
    p[1] > 0 /\ (p[2] > 0 => ~Beats(claims[p[2]], claims[p[1]]))})]

PickBestClaim(claims) ==
  claims[LastTaken(Len(claims), {p \in Pairs(0 .. Len(claims)) :
    p[1] > 0 /\ (p[2] > 0 => Beats(claims[p[1]], claims[p[2]]))})]

\* buildSafeProvenance: an entry for each code that has a claim, in the list's order.
BuildSafeProvenance(codes, claims) ==
  LET claimed == Kept(codes, {i \in DOMAIN codes : ClaimsOf(claims, codes[i]) # <<>>})
  IN [i \in DOMAIN claimed |->
        LET best == PickBestClaim(ClaimsOf(claims, claimed[i]))
        IN [code |-> claimed[i], sourceType |-> TypeOf[best.source],
            discoveredAt |-> IF best.date = 0 THEN Nothing ELSE best.date,
            confidence |-> SafeConfidence(best.confidence)]]

\* sanitizeProvenance of the extension, of entries that have code and type.
SanitizeProvenance(entries) ==
  [i \in DOMAIN entries |->
     [entries[i] EXCEPT !.discoveredAt = IF @ = 0 THEN Nothing ELSE @,
                        !.confidence = SafeConfidence(@)]]

-----------------------------------------------------------------------------
(* GET /admin/source-summary.                                               *)

GetSourceSummary(codes, claims) ==
  LET bounded == [i \in 1 .. Min({Len(codes), CodeCap}) |-> codes[i]]
      Sources(i) == {c.source : c \in Range(ClaimsOf(claims, bounded[i]))}
      counted == UNION {Sources(i) : i \in DOMAIN bounded}
  IN [codes |-> [i \in DOMAIN bounded |->
                   [code |-> bounded[i], sources |-> Range(ClaimsOf(claims, bounded[i]))]],
      codeCount |-> Len(bounded), truncated |-> Len(codes) > CodeCap,
      sourceCount |-> Cardinality(counted),
      sourceSummary |->
        [s \in counted |-> Cardinality({i \in DOMAIN bounded : s \in Sources(i)})]]

-----------------------------------------------------------------------------
(* GET /admin/source-status, of the cache rows of one source, by their keys:  *)
(* when they expire and how many candidates they keep (Nothing for none kept).   *)

IsCache(cache) == IsFiniteSet(DOMAIN cache) /\ \A k \in DOMAIN cache : cache[k].expires \in Nat

\* Faulty variant: a row counts as fresh in its last moment.
FreshAt(cache, now) == {k \in DOMAIN cache : cache[k].expires >= now}

Fresh(cache, now) == {k \in DOMAIN cache : cache[k].expires > now}

GetSourceStatus(cache, now) ==
  LET kept == {k \in DOMAIN cache : cache[k].candidates # Nothing}
  IN [cacheEntries |-> Cardinality(DOMAIN cache),
      freshCacheEntries |-> Cardinality(Fresh(cache, now)),
      staleCacheEntries |-> Cardinality({k \in DOMAIN cache : cache[k].expires <= now}),
      cachedCandidateCount |->
        SumFunction([k \in kept |-> cache[k].candidates]),
      nextAllowedFetchAt |->
        IF Fresh(cache, now) = {} THEN Nothing
        ELSE Max({cache[k].expires : k \in Fresh(cache, now)})]

\* canFetchSourceNow as far as the cache decides: how long k is refused.
RetryAfter(cache, k, now) == IF cache[k].expires > now THEN cache[k].expires - now ELSE 0

-----------------------------------------------------------------------------
(* Reference definitions.                                                    *)

\* The views of a store's provenance agree: a code that the summary shows has an entry
\* in GET /coupons just when the summary lists a claim for it, the entry is one of those
\* claims, none of which beats it and the earliest of its equals, and the extension
\* keeps it as it was sent; and the counts of the sources are those of the list shown.
ViewsAgree(codes, claims) ==
  LET summary == GetSourceSummary(codes, claims)
      entries == BuildSafeProvenance(codes, claims)
      EntryOf(code) == {e \in Range(entries) : e.code = code}
      Shows(e, c) == /\ e.sourceType = TypeOf[c.source]
                     /\ e.confidence = SafeConfidence(c.confidence)
                     /\ e.discoveredAt = IF c.date = 0 THEN Nothing ELSE c.date
  IN /\ \A i \in DOMAIN summary.codes :
          LET row == summary.codes[i]
              listed == ClaimsOf(claims, row.code)
          IN /\ EntryOf(row.code) = {} <=> row.sources = {}
             /\ \A e \in EntryOf(row.code) :
                  \E j \in DOMAIN listed :
                    /\ Shows(e, listed[j])
                    /\ \A n \in DOMAIN listed : ~Beats(listed[n], listed[j])
                    /\ PickBestClaim(listed) = listed[j]
                    /\ \A n \in 1 .. j - 1 : Beats(listed[j], listed[n])
     /\ SanitizeProvenance(entries) = entries
     /\ summary.sourceCount = Cardinality({c.source : c \in
          UNION {summary.codes[i].sources : i \in DOMAIN summary.codes}})
     /\ \A s \in DOMAIN summary.sourceSummary :
          summary.sourceSummary[s] =
            Cardinality({i \in DOMAIN summary.codes :
                           \E c \in summary.codes[i].sources : c.source = s})

\* The status page and the gate of the scheduler agree on the cache: every row is fresh
\* or stale; the gate refuses some key for its cache just when the page names a time for
\* the next fetch, and refuses none beyond that time.
StatusMatchesGate(cache, now) ==
  LET status == GetSourceStatus(cache, now)
  IN /\ status.freshCacheEntries + status.staleCacheEntries = status.cacheEntries
     /\ status.nextAllowedFetchAt = Nothing <=> \A k \in DOMAIN cache : RetryAfter(cache, k, now) = 0
     /\ status.nextAllowedFetchAt # Nothing =>
          \A k \in DOMAIN cache : RetryAfter(cache, k, now) <= status.nextAllowedFetchAt - now
=============================================================================
