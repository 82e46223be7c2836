------------------------------ MODULE OfferRows ------------------------------
(***************************************************************************)
(* From a provider's answer to candidates: the row mappings of Awin and      *)
(* impact.com (source-provider-awin.ts, source-provider-impact.ts), the two   *)
(* fixture adapters and the checks all of them share (source-adapters.ts),    *)
(* and the re-reading of the candidates that the cache kept                   *)
(* (source-provider-pipeline.ts).                                            *)
(*                                                                          *)
(* A text is a word, whether blanks surround it and whether it is in upper    *)
(* case; what a word may be used for is a matter of the sets below.           *)
(***************************************************************************)
EXTENDS Sorting, FiniteSetsExt

CONSTANTS
  Absent, Null, Other,   \* undefined, null, a value that is not a text
  NotARow,               \* a row that is no object
  Words,                 \* every word
  Blank,                 \* the empty word
  Hosts,                 \* the words that validateDomain takes
  HostIn,                \* HostIn[u]: the host of the URL u, or NoHost
  NoHost,
  CodeWords,             \* the words of 1 to 64 printable characters
  LabelWords, DateWords, UrlWords,   \* good labels, dates, source URLs
  CodeTypes              \* CodeTypes[p]: the promotion types that carry a code

Texts == [word : Words, pad : BOOLEAN, upper : BOOLEAN]
Text(word) == [word |-> word, pad |-> FALSE, upper |-> FALSE]

\* A confidence in tenths; 11 stands for every number out of range.
Tenths(n) == [tenths |-> n]

Values == Texts \cup {Tenths(n) : n \in 0 .. 11} \cup {Null, Other}

Adapters == {"awin", "impact", "json", "html"}

\* SourceAdapterCandidate.
Candidates ==
  LET optional == Texts \cup {Absent}
  IN [domain : Texts, code : Texts, sourceId : Adapters, label : optional, expiresAt : optional,
      sourceUrl : optional, confidence : {Tenths(n) : n \in 0 .. 10} \cup {Absent}]

ASSUME RowsAssumption ==
  /\ Hosts \cup CodeWords \cup {Blank} \subseteq Words
  /\ Blank \notin CodeWords \cup Hosts \cup DOMAIN HostIn
  /\ \A u \in DOMAIN HostIn : HostIn[u] \in Hosts \cup {NoHost}
  /\ NoHost \notin Hosts
  /\ \A v \in {Absent, Null, Other} : v \notin Texts
  /\ NotARow \notin Candidates

IsText(v) == v \in Texts
Trim(v) == [v EXCEPT !.pad = FALSE]

-----------------------------------------------------------------------------
(* The checks of source-adapters.ts.                                        *)

\* validateDomain trims and lowers: what is left is the word.
ValidateDomain(v) == IF IsText(v) /\ v.word \in Hosts THEN v.word ELSE NoHost

IsCode(v) == IsText(v) /\ v.word \in CodeWords

\* validateLabel, validateExpiresAt, validateSourceUrl: nothing, blanks, or one
\* of the allowed words.
IsOptional(v, allowed) ==
  v \in {Absent, Null} \/ (IsText(v) /\ v.word \in allowed \cup {Blank})

OptionalValue(v) ==
  IF IsText(v) /\ v.word # Blank THEN Trim(v) ELSE Absent

\* validateConfidence: nothing, or a number from 0 to 1.
IsConfidence(v) == v \in {Absent, Null} \cup {Tenths(n) : n \in 0 .. 10}

\* The first check of buildCandidate that a row fails, or "none".
FirstRefusal(raw) ==
  LET checks == <<
        [reason |-> "missing_field", fails |-> Absent \in {raw.domain, raw.code}],
        [reason |-> "invalid_domain", fails |-> ValidateDomain(raw.domain) = NoHost],
        [reason |-> "invalid_code", fails |-> ~IsCode(raw.code)],
        [reason |-> "invalid_label", fails |-> ~IsOptional(raw.label, LabelWords)],
        [reason |-> "invalid_expires_at", fails |-> ~IsOptional(raw.expiresAt, DateWords)],
        [reason |-> "invalid_source_url", fails |-> ~IsOptional(raw.sourceUrl, UrlWords)],
        [reason |-> "invalid_confidence", fails |-> ~IsConfidence(raw.confidence)]>>
      failed == {i \in DOMAIN checks : checks[i].fails}
  IN IF failed = {} THEN "none" ELSE checks[Min(failed)].reason

Candidate(raw, sourceId) ==
  [domain |-> Text(ValidateDomain(raw.domain)), code |-> Trim(raw.code), sourceId |-> sourceId,
   label |-> OptionalValue(raw.label), expiresAt |-> OptionalValue(raw.expiresAt),
   sourceUrl |-> OptionalValue(raw.sourceUrl),
   confidence |-> IF raw.confidence = Null THEN Absent ELSE raw.confidence]

Key(candidate) == <<candidate.domain, candidate.code>>

\* What a pass over the rows has: done counts the rows.
NothingRead == [done |-> 0, candidates |-> <<>>, errors |-> <<>>, seen |-> {}]

Refused(acc, reason) ==
  [acc EXCEPT !.errors = Append(@, [index |-> acc.done, reason |-> reason])]

\* Faulty variant: the key counts as seen before the row's other fields are checked.
BuildCandidateSeenFirst(raw, sourceId, acc) ==
  IF FirstRefusal(raw) \in {"missing_field", "invalid_domain", "invalid_code"}
  THEN Refused(acc, FirstRefusal(raw))
  ELSE LET c == Candidate(raw, sourceId)
           marked == [acc EXCEPT !.seen = @ \cup {Key(c)}]
       IN IF Key(c) \in acc.seen THEN Refused(acc, "duplicate")
          ELSE IF FirstRefusal(raw) # "none" THEN Refused(marked, FirstRefusal(raw))
          ELSE [marked EXCEPT !.candidates = Append(@, c)]

\* Faulty variant: the key is taken before the code is trimmed.
BuildCandidateKeyedRaw(raw, sourceId, acc) ==
  LET key == <<raw.domain, raw.code>>
  IN IF FirstRefusal(raw) # "none" THEN Refused(acc, FirstRefusal(raw))
     ELSE IF key \in acc.seen THEN Refused(acc, "duplicate")
     ELSE [acc EXCEPT !.candidates = Append(@, Candidate(raw, sourceId)), !.seen = @ \cup {key}]

BuildCandidate(raw, sourceId, acc) ==
  IF FirstRefusal(raw) # "none" THEN Refused(acc, FirstRefusal(raw))
  ELSE LET c == Candidate(raw, sourceId)
       IN IF Key(c) \in acc.seen THEN Refused(acc, "duplicate")
          ELSE [acc EXCEPT !.candidates = Append(@, c), !.seen = @ \cup {Key(c)}]

-----------------------------------------------------------------------------
(* The providers' rows: functions from field names to values.               *)

Fields ==
  [awin |->
     [domain |-> <<"domain", "merchantUrl", "url">>,
      type |-> <<"promotionType", "type">>, code |-> <<"code", "voucherCode">>,
      label |-> <<"title", "description">>, expiresAt |-> <<"endDate", "validTo">>],
   impact |->
     [domain |-> <<"Domain", "domain", "AdvertiserUrl", "advertiserUrl",
                   "MerchantUrl", "merchantUrl", "Url", "url">>,
      type |-> <<"PromotionType", "promotionType", "Type", "type", "OfferType", "offerType">>,
      code |-> <<"PromoCode", "promoCode", "Code", "code", "CouponCode", "couponCode">>,
      label |-> <<"Name", "name", "Description", "description", "Title", "title">>,
      expiresAt |-> <<"EndDate", "endDate", "EndsAt", "endsAt", "ExpiresAt", "expiresAt",
                      "ValidTo", "validTo">>]]

\* Value of a field; a row leaves out the fields it lacks.
Field(row, name) == IF name \in DOMAIN row THEN row[name] ELSE Absent

\* The first of the named fields that is good.
FirstField(row, names, good) ==
  LET places == {i \in DOMAIN names : names[i] \in good}
  IN IF places = {} THEN Absent ELSE row[names[Min(places)]]

\* pickCode, pickLabel, pickExpiresAt: the first field that is there, whatever it holds.
Pick(row, names) == FirstField(row, names, DOMAIN row)

\* safeDomain: a host name, or the host of a URL.
SafeDomain(v) ==
  IF ValidateDomain(v) # NoHost THEN ValidateDomain(v)
  ELSE IF IsText(v) /\ v.word \in DOMAIN HostIn THEN HostIn[v.word] ELSE NoHost

PickDomain(p, row) ==
  SafeDomain(FirstField(row, Fields[p].domain, {n \in DOMAIN row : SafeDomain(row[n]) # NoHost}))

\* pickPromotionType: the first text, which for impact.com is not the empty one.
PickPromotionType(p, row) ==
  FirstField(row, Fields[p].type,
             {n \in DOMAIN row : IsText(row[n]) /\ (p = "impact" => row[n] # Text(Blank))})

IsCodeOffer(p, row) ==
  LET type == PickPromotionType(p, row)
  IN IsText(type) /\ ~type.pad /\ type.word \in CodeTypes[p]

Skip == [kind |-> "skip"]
ErrorRow(reason) == [kind |-> "error", reason |-> reason]
RawRow(raw) == [kind |-> "row", row |-> raw]

\* mapAwinRow, mapImpactRow.
MapOffer(p, row) ==
  IF row = NotARow THEN ErrorRow("malformed_row")
  ELSE IF ~IsCodeOffer(p, row) THEN Skip
  ELSE IF PickDomain(p, row) = NoHost THEN ErrorRow("invalid_domain")
  ELSE RawRow([domain |-> Text(PickDomain(p, row)),
               code |-> Pick(row, Fields[p].code),
               label |-> Pick(row, Fields[p].label),
               expiresAt |-> Pick(row, Fields[p].expiresAt),
               sourceUrl |-> Absent, confidence |-> Absent])

\* pickAllowedRow, of a row of a fixture.
PickAllowedRow(row) ==
  IF row = NotARow THEN ErrorRow("malformed_row")
  ELSE RawRow([n \in {"domain", "code", "label", "expiresAt", "sourceUrl", "confidence"} |->
                 Field(row, n)])

\* parseHtmlRow: the attributes of an element; Number() of blanks is 0.
ParseHtmlRow(row) ==
  LET confidence == Field(row, "confidence")
  IN IF IsText(confidence) /\ confidence.word = Blank
     THEN PickAllowedRow([row EXCEPT !["confidence"] = Tenths(0)])
     ELSE PickAllowedRow(row)

MapRow(p, row) ==
  CASE p \in {"awin", "impact"} -> MapOffer(p, row)
    [] p = "json" -> PickAllowedRow(row)
    [] p = "html" -> ParseHtmlRow(row)

-----------------------------------------------------------------------------
(* An answer: some of its fields hold lists of rows.                        *)

EnvelopeFields ==
  [awin |-> <<"offers">>, impact |-> <<"Promotions", "promotions">>,
   json |-> <<"items">>, html |-> <<"items">>]

\* What a provider may answer: fields that hold lists of rows, or something else.
IsRow(row) == row = NotARow \/ \A n \in DOMAIN row : row[n] \in Values
IsAnswer(body) ==
  \/ body = NotARow
  \/ \A n \in DOMAIN body :
       body[n] = Other \/ (IsSequence(body[n]) /\ \A i \in DOMAIN body[n] : IsRow(body[n][i]))

\* extractAwinEnvelope, extractPromotionsArray: the first field that is a list;
\* Absent is parse_error.  A page without any element is unreadable too.
Envelope(p, body) ==
  LET rows == IF body = NotARow THEN Absent
              ELSE FirstField(body, EnvelopeFields[p], {n \in DOMAIN body : body[n] # Other})
  IN IF p = "html" /\ rows = <<>> THEN Absent ELSE rows

\* One row of an answer, after those before it.
ReadRow(p, row, acc) ==
  LET m == MapRow(p, row)
      read == CASE m.kind = "skip" -> acc
                [] m.kind = "error" -> Refused(acc, m.reason)
                [] m.kind = "row" -> BuildCandidate(m.row, p, acc)
  IN [read EXCEPT !.done = @ + 1]

\* The loop over the rows.
ReadRows(p, rows) ==
  LET after[k \in 0 .. Len(rows)] ==
        IF k = 0 THEN NothingRead ELSE ReadRow(p, rows[k], after[k - 1])
  IN after[Len(rows)]

\* parseCachedCandidates: one bad row, of another source or seen before, spoils all.
ParseCachedCandidates(p, stored) ==
  LET Good(row) == row # NotARow /\ row.sourceId = p /\ FirstRefusal(row) = "none"
      Read(row) == Candidate(row, p)
  IN IF /\ \A i \in DOMAIN stored : Good(stored[i])
        /\ \A i, j \in DOMAIN stored :
             i # j => Key(Read(stored[i])) # Key(Read(stored[j]))
     THEN [i \in DOMAIN stored |-> Read(stored[i])] ELSE Null

-----------------------------------------------------------------------------
(* Reference definitions.                                                    *)

\* The cache gives back what was read: every answer whose candidates are stored is
\* a hit afterwards, with the same candidates.
StoredCandidatesReadBack(p, body) ==
  LET rows == Envelope(p, body)
      read == ReadRows(p, rows).candidates
  IN rows # Absent => ParseCachedCandidates(p, read) = read

\* The candidates are the usable offers of the answer, one for each domain and code,
\* the first of each, in their order; of the other rows each was refused once, with its
\* place, or is no code offer at all.
UsableOffersBecomeCandidates(p, body) ==
  LET rows == Envelope(p, body)
      kind(i) == MapRow(p, rows[i]).kind
      usable == {i \in DOMAIN rows :
                   kind(i) = "row" /\ FirstRefusal(MapRow(p, rows[i]).row) = "none"}
      Made(i) == Candidate(MapRow(p, rows[i]).row, p)
      first == {i \in usable :
                  ~\E j \in usable : j < i /\ Key(Made(j)) = Key(Made(i))}
      refused == {i \in DOMAIN rows \ first : kind(i) # "skip"}
      read == ReadRows(p, rows)
  IN rows # Absent =>
       /\ read.candidates = [n \in 1 .. Cardinality(first) |-> Made(InOrder(first)[n])]
       /\ [n \in DOMAIN read.errors |-> read.errors[n].index + 1] = InOrder(refused)
=============================================================================
