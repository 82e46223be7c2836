------------------------------ MODULE TestOrder ------------------------------
(***************************************************************************)
(* The order in which the codes of a store are tested: GET /coupons           *)
(* (index.ts), which sorts the list by its sources (candidate-order.ts) and   *)
(* the outcome by the history (ranking.ts), while lists, claims, reports and  *)
(* the clock move.  The order rests on three reads of the database without a  *)
(* transaction; the server does nothing else meanwhile, the CLIs may.  A      *)
(* fourth read (index.ts:236-239) is for what the answer says of the codes.   *)
(*                                                                          *)
(* One store.  Times are days.  No writer records a confidence, so it scores  *)
(* 0 (db-source-import.ts:130-137, db-coupons.ts:89-94).                      *)
(***************************************************************************)
EXTENDS Sorting, FiniteSetsExt

CONSTANTS
  Codes,
  Providers,  \* the providers' source ids
  Weight,     \* SOURCE_TYPE_SCORE of each source's type
  Savings,    \* what a report may say a code saved, in cents
  Lists,      \* the code lists that callers send
  Offers,     \* what a provider may offer: codes, and their expiry dates
  Histories,  \* the result files that may be imported
  SeedList,   \* the store's list in coupons.seed.json
  Never,      \* the date of what has no date
  FreshnessMax,  \* FRESHNESS_MAX and FRESHNESS_DECAY_DAYS, which are equal
  Days, MaxWrites  \* bounds: the dates, and the writes

Sources == Providers \cup {"admin", "import", "seed"}

ASSUME OrderAssumption ==
  /\ Weight \in [Sources -> Nat] /\ Savings \subseteq Nat /\ FreshnessMax \in Nat
  /\ \A l \in Lists \cup {SeedList} \cup {o.codes : o \in Offers} : l \in Seq(Codes) /\ Distinct(l)
  /\ \A o \in Offers : o.expires \in [Range(o.codes) -> Nat \cup {Never}]
  /\ Never \notin Nat /\ Days \subseteq Nat /\ 0 \in Days /\ MaxWrites \in Nat

\* A report: its code, whether the code worked, what it saved, its date.
Results == [code : Codes, ok : BOOLEAN, saved : Nat, at : Nat]

ASSUME ResultsAssumption == Histories \subseteq Seq(Results)

VARIABLES
  list,     \* coupon_codes, in insertion order
  claims,   \* coupon_code_sources, by code
  history,  \* coupon_results
  now,      \* today
  lookup,   \* how far GET /coupons has come
  order,    \* its codes so far
  asked,    \* history: the codes that were listed when it began
  writes    \* the writes so far

vars == <<list, claims, history, now, lookup, order, asked, writes>>
tables == <<list, claims, history>>

-----------------------------------------------------------------------------
(* The order by sources.                                                      *)

\* Faulty: one past date is enough.
ExpiredSomewhere(c) == \E x \in claims[c] : x.expires # Never /\ x.expires < now

\* Every claim has a date, and it is past.
Expired(c) ==
  /\ claims[c] # {}
  /\ \A x \in claims[c] : x.expires # Never /\ x.expires < now

\* Faulty: the oldest claim counts.
OldestFreshness(c) ==
  LET age == now - Min({x.found : x \in claims[c]})
  IN IF age >= FreshnessMax THEN 0 ELSE FreshnessMax - age

Freshness(c) ==
  LET age == now - Max({x.found : x \in claims[c]})
  IN IF age >= FreshnessMax THEN 0 ELSE FreshnessMax - age

\* 5 for each further source, at most 15.
MultiSourceBonus(c) == Min({5 * (Cardinality({x.source : x \in claims[c]}) - 1), 15})

Score(c) ==
  IF claims[c] = {} THEN 0
  ELSE Max({Weight[x.source] : x \in claims[c]}) + MultiSourceBonus(c) + Freshness(c)

SourceBefore(l, c, d) ==
  IF Expired(c) # Expired(d) THEN Expired(d)
  ELSE LET sc == Score(c)  sd == Score(d)
       IN sc > sd \/ (sc = sd /\ Index(l, c) < Index(l, d))

SourceOrdered(l) ==
  Sorted(Range(l), {p \in Pairs(Range(l)) : SourceBefore(l, p[1], p[2])})

-----------------------------------------------------------------------------
(* The order by history.                                                      *)

Tests(c, ok) == {i \in DOMAIN history : history[i].code = c /\ history[i].ok = ok}

\* Faulty: whoever reported last.
LastOutcome(c) ==
  LET all == {i \in DOMAIN history : history[i].code = c}
  IN IF all = {} THEN 1 ELSE IF history[Max(all)].ok THEN 0 ELSE 2

\* BUCKET_ORDER: any success, no history, only failures.
Bucket(c) ==
  IF Tests(c, TRUE) # {} THEN 0 ELSE IF Tests(c, FALSE) = {} THEN 1 ELSE 2

Saved(c) == SumFunction([i \in Tests(c, TRUE) |-> history[i].saved])

\* The averages of c and d, crosswise multiplied.
AverageOver(c, d) == Saved(c) * Cardinality(Tests(d, TRUE))

LastSuccess(c) == Max({history[i].at : i \in Tests(c, TRUE)})

HistoryBefore(c, d) ==
  \/ Bucket(c) < Bucket(d)
  \/ /\ Bucket(c) = 0 /\ Bucket(d) = 0
     /\ \/ AverageOver(c, d) > AverageOver(d, c)
        \/ AverageOver(c, d) = AverageOver(d, c) /\ LastSuccess(c) > LastSuccess(d)

HistoryTied(c, d) ==
  /\ Bucket(c) = Bucket(d)
  /\ Bucket(c) = 0 => AverageOver(c, d) = AverageOver(d, c) /\ LastSuccess(c) = LastSuccess(d)

\* Faulty: history decides by bucket only, and then the sources.
RankedByBucket(l) ==
  Sorted(Range(l), {p \in Pairs(Range(l)) :
    \/ Bucket(p[1]) < Bucket(p[2])
    \/ Bucket(p[1]) = Bucket(p[2]) /\ SourceBefore(l, p[1], p[2])})

Ranked(l) ==
  Sorted(Range(l), {p \in Pairs(Range(l)) :
    \/ HistoryBefore(p[1], p[2])
    \/ HistoryTied(p[1], p[2]) /\ Index(l, p[1]) < Index(l, p[2])})

\* What GET /coupons answers when nothing comes between its reads.
Answer == Ranked(SourceOrdered(list))

-----------------------------------------------------------------------------
(* The writers.                                                               *)

\* Faulty: INSERT OR REPLACE, without a key.
ClaimedAgain(c, source, expires) ==
  claims[c] \cup {[source |-> source, found |-> now, expires |-> expires]}

\* INSERT OR IGNORE: a source's first claim of a code stays as it was made.
Claimed(c, source, expires) ==
  IF \E x \in claims[c] : x.source = source THEN claims[c]
  ELSE claims[c] \cup {[source |-> source, found |-> now, expires |-> expires]}

Counted == writes < MaxWrites /\ writes' = writes + 1

Replace(new, source) ==
  /\ list' = new
  /\ claims' = [c \in Codes |-> IF c \in Range(new) THEN Claimed(c, source, Never) ELSE {}]
  /\ UNCHANGED history

\* The codes of l, and behind them those that only new names.
Extended(l, new) ==
  Sorted(Range(l) \cup Range(new), {p \in Pairs(Range(l) \cup Range(new)) :
    IF p[1] \in Range(l) THEN p[2] \in Range(l) => Index(l, p[1]) < Index(l, p[2])
    ELSE p[2] \notin Range(l) /\ Index(new, p[1]) < Index(new, p[2])})

\* A code that is not there is inserted, and each gets its claim.
Add(new, source, expires) ==
  /\ list' = Extended(list, new)
  /\ claims' = [c \in Codes |-> IF c \in Range(new) THEN Claimed(c, source, expires[c])
                                ELSE claims[c]]
  /\ UNCHANGED history

\* The server answers one request at a time.
ServerIsFree == lookup \in {"idle", "answered"}

Elsewhere == <<now, lookup, order, asked>>

SaveCoupons == \E l \in Lists :
  ServerIsFree /\ Counted /\ Replace(l, "admin") /\ UNCHANGED Elsewhere

ImportCoupons == \E l \in Lists :
  Counted /\ Replace(l, "import") /\ UNCHANGED Elsewhere

ProviderImport == \E s \in Providers, o \in Offers :
  Counted /\ Add(o.codes, s, o.expires) /\ UNCHANGED Elsewhere

\* db:bootstrap.
Seed == Counted /\ Add(SeedList, "seed", [c \in Codes |-> Never]) /\ UNCHANGED Elsewhere

DeleteStore ==
  /\ ServerIsFree /\ Counted
  /\ list' = <<>> /\ claims' = [c \in Codes |-> {}] /\ history' = <<>>
  /\ UNCHANGED Elsewhere

\* POST /results: the server dates the report.
Report(c, ok, saved) ==
  /\ ServerIsFree /\ Counted
  /\ history' = Append(history, [code |-> c, ok |-> ok, saved |-> saved, at |-> now])
  /\ UNCHANGED <<list, claims, Elsewhere>>

Fail(c) == Report(c, FALSE, 0)
Succeed(c) == \E s \in Savings : Report(c, TRUE, s)

DeleteResults ==
  /\ ServerIsFree /\ Counted
  /\ history' = <<>>
  /\ UNCHANGED <<list, claims, Elsewhere>>

ImportResults == \E h \in Histories :
  Counted /\ history' = h /\ UNCHANGED <<list, claims, Elsewhere>>

Tomorrow ==
  /\ \E d \in Days : d > now /\ now' = Min({e \in Days : e > now})
  /\ UNCHANGED <<tables, lookup, order, asked, writes>>

-----------------------------------------------------------------------------
(* GET /coupons.                                                              *)

ReadList ==
  /\ lookup = "idle"
  /\ lookup' = "listed" /\ order' = list /\ asked' = Range(list)
  /\ UNCHANGED <<tables, now, writes>>

\* Faulty: the list is read again.
OrderAgain ==
  /\ lookup = "listed"
  /\ lookup' = "ordered" /\ order' = SourceOrdered(list)
  /\ UNCHANGED <<tables, now, asked, writes>>

OrderBySource ==
  /\ lookup = "listed"
  /\ lookup' = "ordered" /\ order' = SourceOrdered(order)
  /\ UNCHANGED <<tables, now, asked, writes>>

RankByHistory ==
  /\ lookup = "ordered"
  /\ lookup' = "answered" /\ order' = Ranked(order)
  /\ UNCHANGED <<tables, now, asked, writes>>

Done ==
  /\ lookup = "answered"
  /\ lookup' = "idle" /\ order' = <<>> /\ asked' = {}
  /\ UNCHANGED <<tables, now, writes>>

\* A store as the first start leaves it.
Init ==
  /\ list = SeedList
  /\ claims = [c \in Codes |-> IF c \in Range(SeedList)
       THEN {[source |-> "seed", found |-> 0, expires |-> Never]} ELSE {}]
  /\ history = <<>>
  /\ now = 0
  /\ lookup = "idle" /\ order = <<>> /\ asked = {}
  /\ writes = 0

Next ==
  \/ SaveCoupons \/ ImportCoupons \/ ProviderImport \/ Seed \/ DeleteStore
  \/ \E c \in Codes : Fail(c) \/ Succeed(c)
  \/ DeleteResults \/ ImportResults
  \/ Tomorrow
  \/ ReadList \/ OrderBySource \/ RankByHistory \/ Done

Spec == Init /\ [][Next]_vars

-----------------------------------------------------------------------------
\* c is tested before d, when both are listed.
Precedes(c, d) == HistoryBefore(c, d) \/ (HistoryTied(c, d) /\ SourceBefore(list, c, d))

Listed == Range(list)

\* The kinds of the state; a listed code has a claim, and only a listed code has one.
TypeOK ==
  /\ list \in Seq(Codes) /\ Distinct(list)
  /\ DOMAIN claims = Codes
  /\ \A c \in Codes :
       /\ claims[c] # {} <=> c \in Listed
       /\ \A x \in claims[c] :
            x.source \in Sources /\ x.found \in Days /\ x.expires \in Nat \cup {Never}
       /\ \A x, y \in claims[c] : x.source = y.source => x = y
  /\ \A i \in DOMAIN history : history[i].code \in Codes /\ history[i].ok \in BOOLEAN
  /\ now \in Days
  /\ lookup \in {"idle", "listed", "ordered", "answered"}
  /\ writes \in 0 .. MaxWrites

\* The answer names each code that was listed when the lookup began, once, whatever
\* other processes commit between its reads: ranking "never adds or removes"
\* (docs/SERVER.md:873, docs/SOURCE_POLICY.md:92).
AnswersTheList ==
  lookup = "answered" => Distinct(order) /\ Range(order) = asked

\* Sorting by source and then by history is one order: history first, then expiry and
\* score, then age in the list; the second sort forgets nothing of the first
\* (docs/SERVER.md:875, ranking.ts:84).
TwoSortsAreOne ==
  LET answer == Answer
  IN \A c, d \in Listed : Index(answer, c) < Index(answer, d) <=> Precedes(c, d)

\* A report of one code never turns two others around, and one more failure of a code
\* that has been tested turns nothing around.
OthersKeepOrder ==
  [][\A c \in Codes :
       /\ Fail(c) \/ Succeed(c) =>
            \A d, e \in Listed \ {c} : Precedes(d, e) => Precedes(d, e)'
       /\ Fail(c) /\ Tests(c, TRUE) \cup Tests(c, FALSE) # {} =>
            \A d, e \in Listed : Precedes(d, e) => Precedes(d, e)']_vars

\* That one more source names a code never puts it behind a code that no source was
\* added to, whatever date the source gives (candidate-order.ts:98-105).
NewSourceNeverDemotes ==
  [][\A c, d \in Listed \cap Range(list') :
       /\ history' = history /\ now' = now
       /\ claims[c] \subseteq claims'[c] /\ claims'[d] = claims[d]
       /\ Index(list, c) < Index(list, d) <=> Index(list', c) < Index(list', d)
       /\ Precedes(c, d)
       => Precedes(c, d)']_vars

\* The passing of a day puts a code before another only because that one has expired,
\* or was found more recently and its lead has faded.
TimeOnlyFades ==
  [][Tomorrow =>
       \A c, d \in Listed :
         Precedes(c, d) /\ Precedes(d, c)' =>
           \/ ~Expired(c) /\ Expired(c)'
           \/ Max({x.found : x \in claims[c]}) > Max({x.found : x \in claims[d]})]_vars
=============================================================================
