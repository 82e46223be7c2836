---------------------------- MODULE SourceRefresh ----------------------------
(***************************************************************************)
(* Candidate refreshing on the server: the provider pipeline with its cache *)
(* and fetch log (source-provider-pipeline.ts, db-source-cache.ts), the      *)
(* import it feeds (db-source-import.ts), and the three that call it: the    *)
(* scheduler (scheduled-refresh.ts), the admin routes and the CLI.           *)
(*                                                                          *)
(* Node runs a handler alone from one await to the next, so an action is     *)
(* such a stretch.  A flow is one call of the pipeline.  Time is relative:   *)
(* the model keeps what is left of a cache row's life and how long ago the   *)
(* last attempt was, not dates.  The provider is configured and enabled in   *)
(* the environment throughout.                                              *)
(***************************************************************************)
EXTENDS Naturals, Sequences, FiniteSets

CONSTANTS
  Domains, Codes,
  DomainOrder,   \* the domains in ascending order
  Queries,       \* cache keys a preview may ask for, besides merchant:<domain>
  Requests,      \* the manual calls of the model, one each
  Scheduler,     \* the flow of the scheduler's tick
  Answers,       \* Answers[d]: the row sets the provider may answer for d
  Interval,      \* time between ticks, and the least between attempts
  TTL, Timeout,  \* time a cache row lives, and a fetch may take
  Horizon,       \* bound: ages are counted up to it
  MaxRows,       \* rows beyond which candidates_json is not kept
  Faults,        \* the database calls that may throw in this model
  Starts,        \* the provenance the store may start with
  Edits,         \* the lists an administrator may save
  MaxEdits, MaxCrashes,   \* bounds
  NoEntry, NoJob

Flows == Requests \cup {Scheduler}
Row   == [domain: Domains, code: Codes]

\* merchant:<d> is written as d; a preview may name any key.
Keys == Domains \cup Queries

ASSUME RefreshAssumption ==
  /\ Scheduler \notin Requests
  /\ Answers \in [Domains -> SUBSET SUBSET Row]
  /\ TTL \in Nat \ {0} /\ Timeout \in Nat /\ MaxRows \in Nat
  /\ Interval \in Nat /\ TTL <= Interval  \* the interval is clamped up to the TTL
  /\ Horizon \in Nat /\ Interval <= Horizon
  /\ MaxEdits \in Nat /\ MaxCrashes \in Nat
  /\ Faults \subseteq {"gate", "log", "cache", "import", "audit"}
  /\ Edits \subseteq SUBSET Codes
  /\ Starts \subseteq [Domains -> SUBSET Codes]

ASSUME OrderAssumption ==
  /\ DomainOrder \in Seq(Domains)
  /\ \A d \in Domains : \E i \in DOMAIN DomainOrder : DomainOrder[i] = d

Entry == [left: 1 .. TTL, status: {"ok", "empty"}, rows: SUBSET Row, kept: BOOLEAN]
Job   == [kind: {"preview", "import", "cli", "tick"}, domain: Domains, key: Keys,
          stage: {"fetching", "hash", "import"}, rows: SUBSET Row,
          waited: 0 .. Timeout]

ASSUME AbsenceAssumption == NoEntry \notin Entry /\ NoJob \notin Job

VARIABLES
  codes, prov,  \* the store: codes, and those with the provider's provenance
  source,       \* the provider's coupon_sources row
  cache,        \* cache[k]: the source_cache row of k, while it has not expired
  age,          \* age[k]: time since k's latest source_fetch_log row
  history,      \* history[r]: the import_history row of r
  job,          \* job[f]: the call f is in
  made,         \* the requests made so far
  up,           \* the server runs
  running,      \* the tick guard of startScheduledRefresh
  todo,         \* the domains the tick has not done with
  timer,        \* until the interval fires
  edits, crashes,
  asked         \* history variable: time since the scheduler last asked for d

store == <<codes, prov>>
tick  == <<running, todo, timer>>
vars  == <<store, source, cache, age, history, job, made, up, tick, edits,
           crashes, asked>>

TypeOK ==
  /\ codes \in [Domains -> SUBSET Codes] /\ prov \in [Domains -> SUBSET Codes]
  /\ source \in {"absent", "disabled", "enabled"}
  /\ cache \in [Keys -> Entry \cup {NoEntry}]
  /\ age \in [Keys -> 0 .. Horizon]
  /\ history \in [Requests -> {"none", "ok", "empty", "error"}]
  /\ job \in [Flows -> Job \cup {NoJob}]
  /\ made \subseteq Requests /\ up \in BOOLEAN /\ running \in BOOLEAN
  /\ todo \in SUBSET Domains /\ timer \in 0 .. Interval
  /\ edits \in 0 .. MaxEdits /\ crashes \in 0 .. MaxCrashes
  /\ asked \in [Domains -> 0 .. Interval]

-----------------------------------------------------------------------------
(* The pipeline.                                                            *)

Busy(f) == job[f] # NoJob

At(f, stage) == Busy(f) /\ job[f].stage = stage

\* The tick's loop is between two awaits: nothing else of the server runs.
MidTick == running /\ todo # {} /\ ~Busy(Scheduler)

Free(f) == ~MidTick \/ job[f].kind = "cli"

\* recordSourceFetchAttempt; a throw is swallowed by every caller.
LogAttempt(k) ==
  \/ age' = [age EXCEPT ![k] = 0]
  \/ "log" \in Faults /\ UNCHANGED age

\* getSourceCacheEntry and parseCachedCandidates: an unexpired, usable row.
Hit(k) == cache[k] # NoEntry /\ cache[k].status = "ok" /\ cache[k].kept

\* runProviderPipeline up to its first await: a hit ends a preview at once.
Call(f, kind, d, k) ==
  /\ source' = "enabled"
  /\ \/ /\ Hit(k)
        /\ LogAttempt(k)
        /\ job' = [job EXCEPT ![f] =
             IF kind = "preview" THEN NoJob
             ELSE [kind |-> kind, domain |-> d, key |-> k, stage |-> "import",
                   rows |-> cache[k].rows, waited |-> 0]]
     \/ /\ ~Hit(k)
        /\ UNCHANGED age
        /\ job' = [job EXCEPT ![f] =
             [kind |-> kind, domain |-> d, key |-> k, stage |-> "fetching",
              rows |-> {}, waited |-> 0]]

\* The tick has done with d.
TickEnds(d) == todo' = todo \ {d} /\ running' = (todo \ {d} # {})

\* Faulty variant: the guard is not lowered when the tick ends.
TickRuns(d) == todo' = todo \ {d} /\ UNCHANGED running

EndRunning(f) ==
  /\ job' = [job EXCEPT ![f] = NoJob]
  /\ IF f = Scheduler THEN TickRuns(job[f].domain) ELSE UNCHANGED <<todo, running>>

\* The call of f is over; the tick turns to its next domain, or ends.
End(f) ==
  /\ job' = [job EXCEPT ![f] = NoJob]
  /\ IF f = Scheduler THEN TickEnds(job[f].domain) ELSE UNCHANGED <<todo, running>>

\* recordProviderImportAttempt, by the route alone: the row is written, or the
\* write throws, or the server dies before it.
Record(f, outcome) ==
  \/ history' = IF job[f].kind = "import"
                THEN [history EXCEPT ![f] = outcome] ELSE history
  \/ "audit" \in Faults /\ UNCHANGED history

\* A 2xx answer that parses: rows, logged before the body is hashed.
Answer(f) ==
  /\ At(f, "fetching") /\ Free(f)
  /\ \E rows \in Answers[job[f].domain] :
       job' = [job EXCEPT ![f].stage = "hash", ![f].rows = rows, ![f].waited = 0]
  /\ LogAttempt(job[f].key)
  /\ UNCHANGED <<store, source, cache, history, made, up, tick, edits, crashes, asked>>

\* A timeout, a refused connection, a 4xx or 5xx, a body that does not parse.
Fail(f) ==
  /\ At(f, "fetching") /\ Free(f)
  /\ LogAttempt(job[f].key)
  /\ Record(f, "error")
  /\ End(f)
  /\ UNCHANGED <<store, source, cache, made, up, timer, edits, crashes, asked>>

\* upsertSourceCacheEntry after the hash; too large a list is not kept.
NewEntry(rows) ==
  LET kept == Cardinality(rows) <= MaxRows
  IN [left |-> TTL, status |-> IF rows = {} THEN "empty" ELSE "ok",
      rows |-> IF kept THEN rows ELSE {}, kept |-> kept]

Store(f) ==
  /\ At(f, "hash") /\ Free(f)
  /\ \/ cache' = [cache EXCEPT ![job[f].key] = NewEntry(job[f].rows)]
     \/ "cache" \in Faults /\ UNCHANGED cache
  /\ IF job[f].kind = "preview" THEN End(f)
     ELSE job' = [job EXCEPT ![f].stage = "import"] /\ UNCHANGED <<todo, running>>
  /\ UNCHANGED <<store, source, age, history, made, up, timer, edits, crashes, asked>>

\* Faulty variant: an import trusts that the rows are about its domain.
EveryRow(rows, d) == {r.code : r \in rows}

\* The second-pass filter of an import.
Own(rows, d) == {r.code : r \in {q \in rows : q.domain = d}}

\* importProviderCandidates, one transaction, then the audit row, which may be
\* missing: no await lies between the two.
Import(f) ==
  LET d == job[f].domain
      S == Own(job[f].rows, d)
  IN /\ At(f, "import") /\ Free(f)
     /\ codes' = [codes EXCEPT ![d] = @ \cup S]
     /\ prov' = [prov EXCEPT ![d] = @ \cup S]
     /\ source' = "enabled"
     /\ Record(f, IF S \subseteq codes[d] THEN "empty" ELSE "ok")
     /\ End(f)
     /\ UNCHANGED <<cache, age, made, up, timer, edits, crashes, asked>>

\* The transaction throws and is rolled back: import_failed, or a 500 without
\* an audit row.
ImportThrows(f) ==
  /\ At(f, "import") /\ Free(f) /\ "import" \in Faults
  /\ End(f)
  /\ UNCHANGED <<store, source, cache, age, history, made, up, timer, edits,
                 crashes, asked>>

-----------------------------------------------------------------------------
(* Who calls it.                                                            *)

Request(r, kind, d, k) ==
  /\ r \notin made
  /\ Call(r, kind, d, k)
  /\ made' = made \cup {r}
  /\ UNCHANGED <<store, cache, history, up, tick, edits, crashes, asked>>

ServerAnswers == up /\ ~MidTick

\* POST /admin/source-preview, under any key.
SourcePreview(r, d, k) == ServerAnswers /\ Request(r, "preview", d, k)

\* POST /admin/source-import.
SourceImport(r, d) == ServerAnswers /\ Request(r, "import", d, d)

\* source:refresh --import, a process of its own.
RunSourceRefresh(r, d) == Request(r, "cli", d, d)

\* Faulty variant: the stores whose cache the provider has filled.
CachedDomains == {d \in Domains : cache[d] # NoEntry}

\* listProviderProvenanceDomains
TrackedDomains == {d \in Domains : prov[d] # {}}

\* onTick: nothing while the previous tick runs.
Fire ==
  /\ up /\ timer = 0 /\ ~MidTick
  /\ timer' = Interval
  /\ IF running THEN UNCHANGED <<running, todo>>
     ELSE todo' = TrackedDomains /\ running' = (TrackedDomains # {})
  /\ UNCHANGED <<store, source, cache, age, history, job, made, up, edits, crashes,
                 asked>>

\* canFetchSourceNow
MayFetch(d) == source # "absent" /\ cache[d] = NoEntry /\ age[d] >= Interval

Position(d) == CHOOSE i \in DOMAIN DomainOrder : DomainOrder[i] = d

\* It is d's turn.
Turn(d) == MidTick /\ d \in todo /\ \A e \in todo : Position(d) <= Position(e)

\* Faulty variant: a domain that may not be fetched ends the tick.
VisitOrStop(d) ==
  /\ Turn(d)
  /\ IF MayFetch(d)
     THEN /\ Call(Scheduler, "tick", d, d)
          /\ asked' = [asked EXCEPT ![d] = 0]
          /\ UNCHANGED <<todo, running>>
     ELSE /\ todo' = {} /\ running' = FALSE
          /\ UNCHANGED <<source, age, job, asked>>
  /\ UNCHANGED <<store, cache, history, made, up, timer, edits, crashes>>

\* The loop of runScheduledRefreshTick, up to the fetch.
Visit(d) ==
  /\ Turn(d)
  /\ IF MayFetch(d)
     THEN /\ Call(Scheduler, "tick", d, d)
          /\ asked' = [asked EXCEPT ![d] = 0]
          /\ UNCHANGED <<todo, running>>
     ELSE /\ TickEnds(d)
          /\ UNCHANGED <<source, age, job, asked>>
  /\ UNCHANGED <<store, cache, history, made, up, timer, edits, crashes>>

\* canFetchSourceNow throws: it is outside the loop's inner try.
GateThrows ==
  /\ MidTick /\ "gate" \in Faults
  /\ todo' = {} /\ running' = FALSE
  /\ UNCHANGED <<store, source, cache, age, history, job, made, up, timer, edits,
                 crashes, asked>>

\* An administrator saves a list (provenance is pruned to it), or deletes it.
Edit(d, S) ==
  /\ up /\ ~MidTick /\ edits < MaxEdits
  /\ edits' = edits + 1
  /\ codes' = [codes EXCEPT ![d] = S]
  /\ prov' = [prov EXCEPT ![d] = @ \cap S]
  /\ UNCHANGED <<source, cache, age, history, job, made, up, tick, crashes, asked>>

\* An operator clears coupon_sources.enabled in the database.
Disable ==
  /\ source = "enabled" /\ edits < MaxEdits
  /\ edits' = edits + 1 /\ source' = "disabled"
  /\ UNCHANGED <<store, cache, age, history, job, made, up, tick, crashes, asked>>

\* The process dies, or shuts down without waiting for the tick; what the
\* database holds stays, and a CLI call goes on.
Crash ==
  /\ up /\ crashes < MaxCrashes
  /\ crashes' = crashes + 1 /\ up' = FALSE
  /\ job' = [f \in Flows |-> IF Busy(f) /\ job[f].kind = "cli" THEN job[f] ELSE NoJob]
  /\ running' = FALSE /\ todo' = {} /\ timer' = 0
  /\ UNCHANGED <<store, source, cache, age, history, made, edits, asked>>

\* Faulty variant: a first tick at boot.
RestartAtOnce ==
  /\ ~up
  /\ up' = TRUE /\ timer' = 0
  /\ UNCHANGED <<store, source, cache, age, history, job, made, running, todo,
                 edits, crashes, asked>>

\* main: no first tick before an interval has gone by.
Restart ==
  /\ ~up
  /\ up' = TRUE /\ timer' = Interval
  /\ UNCHANGED <<store, source, cache, age, history, job, made, running, todo,
                 edits, crashes, asked>>

-----------------------------------------------------------------------------
(* Time.                                                                    *)

\* Faulty variant: the abort signal is not passed to fetch.
NeverDue(f) == Busy(f) /\ job[f].stage # "fetching"

\* f must move before time does.
Due(f) == Busy(f) /\ (job[f].stage # "fetching" \/ job[f].waited = Timeout)

Capped(n, bound) == IF n < bound THEN n + 1 ELSE bound

Pass ==
  /\ ~MidTick /\ ~(up /\ timer = 0) /\ \A f \in Flows : ~Due(f)
  /\ timer' = IF up THEN timer - 1 ELSE timer
  /\ age' = [k \in Keys |-> Capped(age[k], Horizon)]
  /\ asked' = [d \in Domains |-> Capped(asked[d], Interval)]
  /\ cache' = [k \in Keys |->
       IF cache[k] = NoEntry \/ cache[k].left = 1 THEN NoEntry
       ELSE [cache[k] EXCEPT !.left = @ - 1]]
  /\ job' = [f \in Flows |->
       IF Busy(f) THEN [job[f] EXCEPT !.waited = @ + 1] ELSE NoJob]
  /\ UNCHANGED <<store, source, history, made, up, running, todo, edits, crashes>>

Flow(f) == Answer(f) \/ Fail(f) \/ Store(f) \/ Import(f) \/ ImportThrows(f)

Next ==
  \/ \E f \in Flows : Flow(f)
  \/ \E r \in Requests, d \in Domains :
       \/ \E k \in Keys : SourcePreview(r, d, k)
       \/ SourceImport(r, d) \/ RunSourceRefresh(r, d)
  \/ Fire \/ GateThrows
  \/ \E d \in Domains : Visit(d)
  \/ \E d \in Domains, S \in Edits : Edit(d, S)
  \/ Disable \/ Crash \/ Restart \/ Pass

\* The codes listed for d, under d's own name, in any answer.
Offered == [d \in Domains |->
  {c \in Codes : \E e \in Domains : \E rows \in Answers[e] :
     [domain |-> d, code |-> c] \in rows}]

Init ==
  /\ prov \in Starts /\ codes = prov
  /\ \A d \in Domains : prov[d] \subseteq Offered[d]
  /\ source \in {"absent", "enabled"}
  /\ source = "absent" => \A d \in Domains : prov[d] = {}
  /\ cache = [k \in Keys |-> NoEntry] /\ age = [k \in Keys |-> Interval]
  /\ history = [r \in Requests |-> "none"]
  /\ job = [f \in Flows |-> NoJob]
  /\ made = {} /\ up = TRUE /\ running = FALSE /\ todo = {} /\ timer = Interval
  /\ edits = 0 /\ crashes = 0
  /\ asked = [d \in Domains |-> Interval]

\* The tick asks the provider for d; it answers; the import of d commits.
Asks(d) == MayFetch(d) /\ Visit(d)
IsAnswered(d) ==
  Busy(Scheduler) /\ job[Scheduler].domain = d /\ Answer(Scheduler)
Imports(d) ==
  Busy(Scheduler) /\ job[Scheduler].domain = d /\ Import(Scheduler)

\* Timers fire, a fetch is answered or aborted, a process goes on, a server that
\* stopped is started again; and no fault meets the same store for ever: if the
\* tick gets to a step for d again and again, the step succeeds some time.
Fairness ==
  /\ WF_vars(Pass) /\ WF_vars(Fire) /\ WF_vars(\E d \in Domains : Visit(d)) /\ WF_vars(Restart)
  /\ \A f \in Flows : WF_vars(Flow(f))
  /\ \A d \in Domains :
       SF_vars(Asks(d)) /\ SF_vars(IsAnswered(d)) /\ SF_vars(Imports(d))

Spec == Init /\ [][Next]_vars /\ Fairness

-----------------------------------------------------------------------------
(* Properties.                                                              *)

\* Whoever imports, and whatever a cache row or an answer holds, a store only
\* gains codes listed under its own name, and loses none but to an edit.
Pool == INSTANCE CandidatePool
ImplementsPool == Pool!Spec

\* The scheduler never asks the provider for the same store twice within an
\* interval, across slow answers, failures, manual calls and restarts (the gate
\* sees only what was logged, and a call cut short by a crash never is).
SchedulerSpacing ==
  [][~Busy(Scheduler) /\ Busy(Scheduler)' =>
       asked[job'[Scheduler].domain] = Interval]_vars

Working(d) ==
  \/ d \in todo
  \/ \E f \in Flows : Busy(f) /\ job[f].kind # "preview" /\ job[f].domain = d

\* A store whose provider codes an administrator took away is left alone: work
\* for it starts again only by an import someone asks for.
StaysForgotten ==
  [][\A d \in Domains : prov[d] = {} /\ ~Working(d) =>
       \/ prov'[d] = {} /\ ~Working(d)'
       \/ made' # made]_vars

Larger(m, n) == IF m < n THEN n ELSE m

\* While the server stays up, no tracked store goes longer without an attempt than
\* it takes to wait for a tick, for the fetches of that tick, and for whichever
\* kept the store out of the tick before it: the interval since its last attempt,
\* or the fetches of a tick it was not yet tracked for.  The loop cannot stop,
\* however its fetches end and whatever manual calls interleave.
KeepsWarm ==
  \A d \in Domains : prov[d] # {} /\ crashes = 0 =>
    age[d] <= Interval + Cardinality(Domains) * Timeout
              + Larger(Interval, (Cardinality(Domains) - 1) * Timeout)

Steady(d) == {c \in Codes : \A rows \in Answers[d] : c \in Own(rows, d)}

\* A code the provider always lists for a tracked store gets into the store,
\* also when a crash or a failed import left its rows only in the cache, and
\* when previews keep the cache fresh for a while.
EventuallyImported ==
  \A d \in Domains : (prov[d] # {}) ~> (prov[d] = {} \/ Steady(d) \subseteq codes[d])

\* No fetch starts once the source is switched off in the database ("Setting
\* enabled = 0 in the DB or unsetting the env var must both stop fetches",
\* docs/SOURCE_PROVIDER_RESEARCH.md).
KillSwitchHolds ==
  [][source = "disabled" =>
       \A f \in Flows : Busy(f)' /\ job'[f].stage = "fetching" => Busy(f)]_vars
=============================================================================
