# Salvare in TLA+

Salvare is a browser extension that tries coupon codes on a live checkout and
keeps the one with the lowest verified total, and a small Node server that holds
the candidate codes, their provenance and the history of what was tried. These
modules model what the two do over time: the states they keep, the steps they
take between two awaits, and what the rest of the world (the merchant's page, the
provider of codes, a user, an administrator, a crash) does meanwhile. The parts
that keep no state are operators, and asked about every input within bounds.

Contents: the system; the modules, and how they correspond to the code; the runs,
their bounds and what they show; the proofs; what is not modelled; the plan.

## The system

| Component | State it keeps | Operations | What is hard about it | What makes it correct |
|---|---|---|---|---|
| Coupon run (`extension/contentScript.ts`) | locals of `findBestWorkingCoupon`: baseline, results, report promises; the page is shared with the merchant | test each code (remove, clear, apply, poll, wait, rescan), report, pick, re-apply, answer | every wait is a poll with a deadline over a page that changes on its own; totals move after tags; old errors stay; runs do not know of each other | the winner is the lowest verified total; reports are true; the run ends; the shopper is left with what the answer says |
| Result reporter (`extension/resultReporter.ts`) | one attempt in flight per report | POST, abort at 750 ms, one retry | an abort does not unsend: stored but aborted, stored late, stored twice | a confirmed report is stored; none is stored more than twice; each settles |
| Popup and listener (`extension/popup.ts`, `popupRender.ts`, `popupMessages.ts`, `contentScript.ts`) | `activeRunId`, the status line, the button; broadcasts and callbacks in flight | open, close, support check, click, progress, answer | popups die while their run goes on, the script dies while its popup waits, messages of earlier runs | only the last click is shown, in order; a quiet winner is a stored one; the button comes back |
| Candidate provider (`extension/couponProvider.ts`) | none | GET /coupons, else the profile's list | 750 ms abort | an empty list from the server is an answer, a failure is not |
| Profiles and their checks (`extension/storeProfiles.ts`, `domainNormalize.ts`, `profileDiagnostics.ts`, `profileVerify.ts`) | none | look a host up, derive a support reason, vet a set of profiles | two ways of comparing domains | a vetted set serves every shop in it |
| Provider pipeline (`server/source-provider-pipeline.ts`, `db-source-cache.ts`) | `source_cache`, `source_fetch_log`, `coupon_sources` | cache read, fetch, log, cache write | two awaits (fetch, hash) between reads and writes; four callers | rows reach only the store they name; the log tells the truth to the gate |
| Provider adapters (`server/source-adapters.ts`, `source-provider-awin.ts`, `source-provider-impact.ts`) | none | map rows, check them, drop doubles; read the cache back | many optional fields under many names, two sets of checks | the candidates are the usable offers; the cache gives them back |
| Settings and registry (`server/source-provider-config.ts`, `source-provider-registry.ts`) | none; read anew for every call | status, list, preview, import, CLI, scheduler | six readers with conditions of their own | all readers agree |
| Provider import (`server/db-source-import.ts`) | `stores`, `coupon_codes`, `coupon_code_sources`, `import_history` | filter, one transaction, audit row | an administrator edits the list meanwhile | it only adds |
| Scheduler (`server/scheduled-refresh.ts`) | `running`, the list of the tick, the interval | fire, gate, refresh, next | a tick longer than the interval, failures of any call, shutdown | it keeps its distance, and never stops |
| Coupon store (`server/db-coupons.ts`, `db-import.ts`, `db-bootstrap.ts`, `db-results.ts`, `db-maintenance.ts`) | stores, codes, provenance, results | save, delete, import, seed, reset, append, export | cascades, replace against add, spelling of domains and codes | codes and provenance agree; an import restores what was exported |
| Ordering (`server/ranking.ts`, `candidate-order.ts`, `coupons.ts`) | none | order by source, rank by history | averages, ties, dates of several claims, reads without a transaction | each listed code once, history over source, no source demotes |
| Views of sources (`server/db-coupon-provenance.ts`, `coupons.ts`, `db-source-summary.ts`, `db-source-status.ts`) | none | pick a claim, count, summarise | several claims of a code, expiries at the boundary | popup, summary, status page and gate tell one story |
| Demo (`src/engine/couponEngine.ts`, `src/App.tsx`) | the page's hooks | evaluate, best, suggest | caps, floors, minimum spends | the two choosers agree; a suggestion pays |
| HTTP plumbing, admin page, smoke tests, bundles | none of their own | | | |

A click in the popup sends the content script of the tab a message with a run id. The
script asks the server for candidates (GET /coupons), announces each code to whatever
popup is open, posts one result per tested code (POST /results), and answers. The server
ranks by those results the next time it is asked. The scheduler, the admin routes and the
CLI call the same pipeline and the same import, and share its tables with nothing but
SQLite's transactions between them. The CLI is a process of its own.

## Modules

| Module | What it is |
|---|---|
| `CouponRun` | one coupon run (or several) against a checkout page |
| `CouponRunProofs` | its inductive invariants and theorems: on every page; and, on merchants it can read, what its reports and its last state say |
| `MCCouponRun` | its instances: three codes, families of merchants |
| `ReportDelivery` | the abstract promise of reporting: what a caller may conclude from "saved" and "lost" |
| `ResultReporter` | attempts, timer, requests under way, and the server that stores them |
| `ResultReporterProofs` | its inductive invariant, its refinement of `ReportDelivery`, and theorems |
| `MCResultReporter` | its instance: three reports, two attempts |
| `PopupSession` | popups, the listener of the content script, a tab that is navigated; runs report through `ReportDelivery` |
| `PopupSessionProofs` | its inductive invariants and theorems: the answer; the story of the status line |
| `MCPopupSession` | its instance: two popups, four pages |
| `CandidatePool` | the abstract promise of candidate refreshing: imports add what the provider offers for that store, only administrators take away |
| `SourceRefresh` | pipeline, cache, log, gate, import, scheduler, admin routes, CLI |
| `SourceRefreshProofs` | its inductive invariants, its refinement of the pool, and theorems |
| `MCSourceRefresh` | its instances: two stores, two codes |
| `CouponStore` | the tables of stores, codes, provenance and results, with every writer, the start of the server and the maintenance CLIs |
| `CouponStoreProofs` | its inductive invariant and theorems |
| `MCCouponStore` | its instances: one shop in three spellings, two codes |
| `Sorting` | lists as the code goes through them: sorted, filtered, searched for the best so far |
| `SortingProofs` | what these operators, finite sums, and the least and greatest of a set are |
| `TestOrder` | the order of `GET /coupons`, and what moves it |
| `TestOrderProofs` | its inductive invariant, that its comparators are orders, and theorems |
| `MCTestOrder` | its instances: three codes, four sources |
| `CouponEngine` | the demo's arithmetic |
| `OfferRows` | from a provider's answer to candidates, and back from the cache |
| `ProviderSettings` | the settings and everyone who reads them |
| `ProfileChecks` | profiles, their lookup, and the tool that vets them |
| `SourceViews` | what is shown of the sources behind codes |
| `Answers` | the five modules above as one specification: a question, its answer |
| `AnswersProofs` | that every answer is as it should be |
| `MCAnswers` | the questions |

Three modules stand on one another: `CouponRun` is the run that `PopupSession` shows as
announce, judge, collect; a report that `PopupSession` fires is one of `ReportDelivery`,
and `ResultReporter` implements that, late rows and double rows included.
`SourceRefresh` and `CouponStore` overlap in the provider import and in the
administrator's edit: the first keeps the interleaving of its awaits and sees a store
as a set of codes, the second keeps lists, claims and results and sees the import as
one transaction. `TestOrder` takes the same transactions for one store, with the dates
that the other two leave out.

### CouponRun

The content script runs alone between two awaits, so an action is one stretch of
it, and the page moves between actions. `run[r].pc` names the await a run is at.

| Await or stretch in `findBestWorkingCoupon` | Action |
|---|---|
| candidates arrive, baseline scan, first `expandCouponSection` | `Start` |
| `waitForCheckoutIdle`, wherever it is called (`next` says where to go on) | `WaitIdle` |
| loop head, `expandCouponSection` if the input is gone | `NextCode` |
| `removeAppliedDiscounts` (in the loop, and before the winner) | `Remove` |
| scan before clearing; `waitForTotalChange` from that total | `Compare`, `Restore` |
| `applyCouponCode` and the first poll of `waitForDiscountResult` | `Apply` |
| later polls, or its deadline | `Result` |
| `waitForTotalChange` from the baseline | `AwaitTotal` |
| rescan, decide, fire the report, keep the result | `Judge` |
| a report settles | `ReportSettles` |
| the list is through | `EndLoop` |
| unfold and clear for the winner; submit it; `allSettled` and the answer | `Reopen`, `Reapply`, `Collect` |

The page is not Salvare's. A `site` record says how the merchant prices carts,
what a submitted code does to the discounts in force, and how the page behaves;
`AnswerApply`, `AnswerRemove` and `Repaint` are its steps, and TLC tries every site
of a set. A site is *prompt* when each of its reactions comes within the script's
limits: then a bounded wait ends when its condition holds or when nothing more
will come. On other sites any wait may end at its deadline at any time.

Abstracted: which elements are found and clicked, and how text becomes a total.
`applyCouponCode` presses Enter, clicks and submits; a page is taken to handle that
as one submission.

A code counts as applied when some text of the page, near a word like discount, contains
it, and texts that are just what the coupon input holds are passed over. So a site also
says how it shows an applied discount (`tags`: in a text that says more than the code, in
one of just the code, or with no such word about), and whether an answer may leave the
code in the form (`keepsInput`); `page.input` is what the form holds, and the script
empties it before each code and before the winner (`Emptied`).
Unfolding the form (`ExpandThen`, `Reopen`) may find nothing to click, or click in vain.

Some properties are about pages that can be read (`Readable`): prompt, with the old error
gone when a code is submitted, with remove buttons, a form that stays open, no coupon code
in the page's own text, and tags that are seen whatever the input holds, or an input that
is emptied. On other pages the script can be misled, and nothing is claimed but that it
answers, warns, and names the lowest of the totals it recorded.

### ResultReporter and ReportDelivery

| Code | Action |
|---|---|
| `reportCouponResult` is called; the fetch of its first `attemptReport` | `Fire` |
| `response.ok` | `Saved` |
| an answer that is not, a failure, the abort of the timer; the next attempt, or `onOutcome(false)` | `AttemptFails` |
| the page is left | `Abandon` |
| the handler of POST /results stores a row, or does not (outside `src/extension`) | `ServerStores`, `ServerRefuses` |

A request is where it is (`request[r][n]`) whether or not somebody waits for it: an
aborted one that was still on its way stays on its way. `ReportDelivery` forgets
attempts and requests and keeps what a caller was told and which attempts left a row;
`Delivery` is the mapping, under which a report of a page that was left is for ever
pending.

### PopupSession

One popup for each time it is opened; a run for each click, as `generateRunId` has it.

| Code | Action |
|---|---|
| the popup's page is loaded; it is closed | `OpenPopup`, `ClosePopup` |
| `runSupportCheck`: an answer of `getCheckoutSupportStatus`; any failure | `SupportAnswers`, `SupportFails` |
| the click handler up to `tabs.query`; its failures; `sendMessage` | `Click`, `ClickFails`, `ClickSends` |
| the listener for progress | `ProgressArrives` |
| the callback of `sendMessage`, with or without `lastError` | `Callback` |
| the script's listener: candidates, and the two early answers | `Begin` |
| head of the loop with `emitCouponProgress`; its end with the report; after it | `Announce`, `Judge`, `EndLoop` |
| `allSettled` and the answer | `Collect` |
| the tab shows another page, the script is gone | `Navigate` |
| `reportCouponResult` settles; the server stores a row | `ReportSettles`, `ServerStores` |

The texts of the popup are kinds of lines; a line of progress or an answer keeps the run it
is about. A popup that is closed loses what it held, since a new one starts as the code's
globals do. How a code wins is left open here (`better`), so all that is shown of the
popup holds whatever the run does.

### SourceRefresh

Node runs a handler alone between awaits; SQLite calls are synchronous. A flow is
one call of the pipeline: one of `Requests`, or the scheduler's. `job[f].stage` is
the await it is at: the fetch, the hash of the body, or (`"import"`) the return of
the pipeline's promise.

| Code | Action |
|---|---|
| `POST /admin/source-preview`, `POST /admin/source-import`, `source:refresh --import` up to the first await | `SourcePreview`, `SourceImport`, `RunSourceRefresh` |
| `onTick` of `startScheduledRefresh` | `Fire` |
| one turn of `runScheduledRefreshTick`: gate, then the pipeline up to the fetch | `Visit` |
| the gate throws | `GateThrows` |
| the fetch answers; rows are built and the attempt logged | `Answer` |
| the fetch fails, times out, or its answer does not parse | `Fail` |
| the cache row is written | `Store` |
| filter, `importProviderCandidates`, audit row | `Import`, `ImportThrows` |
| `upsertCouponCodes`, `deleteCouponDomain` | `Edit` |
| an operator writes `coupon_sources.enabled` | `Disable` |
| the process dies or shuts down; `main` | `Crash`, `Restart` |
| time | `Pass` |

Time is discrete and relative: a cache row has what is left of its TTL, a key has
the age of its last log row, up to `Horizon`. Time does not pass while a stretch
of code is due. `Crash` also stands for a shutdown, which does not wait for a tick.
The set of domains in flight (`inFlight`) is not modelled: under the `running` guard
it is always empty when the loop tests it. Throws of the gate, the cache write, the import
and the log are faults that a configuration may switch on (`Faults`); that of the log
is in none of the runs. A missing audit row is one more: the import and its row are
written without an await between them, so nothing of the server comes between, but the
second write may throw, or a crash fall before it. Not modelled: throws of
`ensureCouponSource`, of the cache read and of the list of domains, each of which
the code swallows and goes on as without it; a CLI call interrupted by itself; and the
preview mode of the CLI, which keeps nothing but the cache row of the domain's own key and
its log row, both of which a preview of the server may write too.

`asked` is a history variable.

### CouponStore

A writer is one SQLite transaction, so it is a function from tables to tables, and the
action is a call of it; a crash falls between two actions. Rows hang on a store by its
id, which is given once per domain and goes with it by `ON DELETE CASCADE`, so the
tables are functions of the domain. A list is a function from codes to places, as
`ORDER BY id` reads it; a list in a file is a sequence. Spellings of domains and codes
are kept apart: `Trim` and `Lookup` (`normalizeLookupDomain`) map one to another, since
the admin route trims a domain, `/results` normalises it, and an import does neither.

| Code | Writer | Action |
|---|---|---|
| `upsertCouponCodes`; POST /admin/coupons | `UpsertCouponCodes` | `SaveCoupons` |
| `deleteCouponDomain`; DELETE /admin/coupons | `DeleteCouponDomain` | `DeleteCoupons` |
| `appendResultRecord`, `deleteResultsForDomain`; /results | the same names | `PostResult`, `DeleteResults` |
| `importCouponsExport`, `importResultsExport`; the apply routes, `db:import` | the same names | `ApplyCoupons`, `ApplyResults` |
| `importProviderCandidates` | the same name | `ProviderImport` |
| `buildExportPayloads`; the export routes, `db:export` | `CouponsPayload`, `ResultsPayload` | `ExportCoupons`, `ExportResults` |
| `main`: `bootstrapIfEmpty`, `bootstrapResultsIfEmpty` | the same names | `BootCoupons`, `BootResults`, `Stop` |
| `resetDatabase`, `bootstrapFromJson` (`importSeed`, `importResults`) | `ImportSeed`, `ImportResults` | `Reset`, `CliSeeds`, `CliHistory`, `CliDies` |

`db:import` commits its two files one after the other, and `db:export` reads the tables
twice: each half is an action of its own, so everything may come between the halves.
`gone` is a history variable. Assumed: the committed seed has no stray blanks; reset is
run while the server is down (docs/SERVER.md:754).

### TestOrder

One store, times in days. `SourceOrdered` is `orderCandidatesBySource`, `Ranked` is
`rankCandidateCodes`; averages are compared crosswise, which is what comparing the two
quotients does. The handler of `GET /coupons` is synchronous but not a transaction:
`ReadList`, `OrderBySource` and `RankByHistory` are the three reads the order rests on; a
fourth fetches the provenance shown with the codes (`SourceViews`). Between them the
server can do nothing, and the actions that a CLI can also take (`ImportCoupons`,
`ImportResults`, `ProviderImport`, `Seed`) still may. `Precedes` is the one order that
the two sorts amount to; `TwoSortsAreOne` says so, and the other properties use it.
`Sorted` says what a stable sort answers: at place `k` the element that `k - 1` others
come before. `Extended`, the insertion of the codes that are not there yet, is such an
order too. Averages are exact, and dates are compared as the numbers they stand for: a
history with dates that are no ISO dates, or sums beyond a double's integers, is not in
the model.

### Answers

The state is the question asked: an action for each entry point (`AskEngine`,
`AskRows`, `AskSettings`, `AskProfiles`, `AskViews`, `AskStatus`), and `Answered`, which
clears it. A property says of each question what the answer of one part of the code has
to do with that of another, computed independently.

| Module | Code | How data is abstracted |
|---|---|---|
| `CouponEngine` | `findBestCoupon`, `evaluateCoupon`, `getUpsellSuggestions`; `handleFindBest` of the page | cents; a percentage is a number of quarters (`* value \div 4`), which a double holds exactly |
| `OfferRows` | both row mappings, `buildCandidate` and the checks, both fixture adapters, `parseCachedCandidates` | a text is a word, with blanks around it or not, in upper case or not; sets say which words are hosts, codes, labels, dates, URLs |
| `ProviderSettings` | `readAwinConfig`, `readImpactConfig`, the registry's activations and purposes, routes, status, list, CLI, interval, the gate in the pipeline | an environment is a function from names to texts; numbers have a largest safe one and a longest delay |
| `ProfileChecks` | `getStoreProfileForDomain`, `deriveSupportReason`, `verifyProfiles`, `verifyFixtureCompatibility` | a host is a name, with `www.` or not, in upper case or not |
| `SourceViews` | `pickBestClaim`, `buildSafeProvenance`, `sanitizeProvenance`, `getSourceSummary`, `getSourceStatus`, `canFetchSourceNow` | dates are numbers, 0 the empty one; confidences are whole |

## Runs

| Run | Question | Bounds |
|---|---|---|
| `run` | Does a run answer, and truthfully? On a page that behaves, does the shopper end with the best code? | one run, lists of up to 3 codes, merchants that replace, stack or keep discounts, prompt and not, with and without busy marker, stale errors, folding forms, banners and vanishing totals; a discount at the start or none |
| `discounted` | (violation) May a run leave the shopper worse off? | the pages that behave, a discount at the start or none |
| `twice` | (violation) Does an answer hold when a second run is under way? | two runs, one page that keeps every promise |
| `reports` | What may become of reports whose requests are refused, lost, aborted, or late? | three reports, two attempts |
| `popup` | Does a popup show its last click, truthfully, and come back? | two popups with one click each, one navigation, four kinds of pages, lists of none, one or two codes, two codes tested in all, one attempt each |
| `overlap` | What do scheduler, manual calls, edits and a crash do to each other? | two stores, two manual calls, one edit, one crash, interval and TTL 2, timeout 1; throws of cache writes, imports and audit rows |
| `live` | Does a newly listed code get in at last? | two tracked stores, one manual call, one crash; throws of gate, cache write and import |
| `switch` | (violation) Does `enabled = 0` stop fetches? | one operator's write |
| `store` | Do the tables stay consistent, restorable and repeatable under every writer? | three writes of any kind, with any starts, stops, exports and dying CLIs; one shop as "shop", " shop" and "www.shop", two codes, one of them also with a blank; one reported result per domain |
| `restart` | (violation) Do an administrator's deletions survive a restart? | as `store` |
| `order` | How does the test order answer to reports, claims, other processes and time? | three codes, four sources, three writes, three dates in and out of the freshness window |
| `answers` | Do independent parts of the code give answers that fit together? | the 36 000 questions of `MCAnswers`, see below |

Three codes are enough for a winner, a worse winner and a refused code, and for one
code to be part of another's text (SAVE1, SAVE10); lists of three reach every order
of those that matters. Finished runs, settled reports and popups that have had their
clicks stop, so the configurations of the extension switch deadlock checking off; the
server's and `answers` do not.

Reports share nothing but the page that may be left: two tell one's fate from
another's, and three are affordable; two attempts are what the code makes. In `popup` one popup's run goes on when
the popup is closed, and the second popup hears it, starts another, and is told of a
dead script; that takes two popups and one navigation, and lists of two codes for progress to
go back. There a report settles by one attempt: the attempts are a matter of
`reports`, and `PopupSession` knows only what `ReportDelivery` says.

Two stores are enough for one store's rows to be offered
under the other's name, for a preview to fill the other's cache row, and for a
failure at the first domain of a tick to touch the second. Two manual calls are
enough for both to be in flight with the scheduler's. The interval must be at least
the TTL (the code clamps it) and larger than the timeout; 2 and 1 are the least
values where a log row is younger than the tick that follows it, which is what
halves the real cadence.

Three writes are enough for a store to be made, deleted or replaced, and made again, by
different writers, with a reset, a bootstrap or an import of an old export as any of
them; starts and exports are not counted, so each fits in anywhere. A database with codes
and no results, one with results and no codes, and an empty one all occur at a start. In
`order` the store starts as seeded; three writes are enough for two averages to be tied
or turned around, for a code to be claimed by one source more, and for the list to be
replaced in the middle of a lookup. The bonus reaches its cap of 15 and is never cut off.

`answers` combines a value per case of each field: carts of two items and lists of two
coupons of every type, with and without minimum, cap, categories and sale exclusion;
rows with each spelling, absence and wrong type of each field, alone and as bodies of up
to three rows that nearly coincide; every combination of the variables that one reader
reads; the profile of localhost with up to two others; three claims of one code; caches
of three keys before, at and after their expiry.

What the passing runs show, beyond the invariants of the winner and of the store:
the scheduler asks for a tracked store every *two* intervals, not every one (the
bound of `KeepsWarm` cannot be lowered), because an attempt is logged after its
fetch and is then younger than the interval at the next tick; a store whose provider
codes an administrator removed is not refreshed again (`StaysForgotten`), except by
a tick or an import already at work on it; a crash between cache write and import
delays the codes by a TTL and loses nothing (`EventuallyImported`); a report that was
confirmed at its first attempt is in the history once, and any other may be there twice or,
lost to the caller, once (`SavedAtOnceIsOneRow`, `DeliversReports`); the support check's
answer is the only message that can write over a run's status (`StatusFollowsRun`
names it).

What the violations show: `discounted`, a shopper with a discount of their own loses
it, since each test starts by removing discounts and nothing restores them;
`twice`, the listener has no guard, so a second run on a page can take the first one's
winner off again, and once both are over and the page has settled, an answer names a
winner that is not in force; `switch`, no code reads
`coupon_sources.enabled` before a fetch, and each pipeline call sets it to 1; `restart`,
the start seeds whenever no store is left and imports the JSON history whenever no result
is left, so what an administrator deleted returns.

### Also met

Worth a maintainer's eye, and not checked by a run, since it is one line of the code, or
nothing in the repository says otherwise:

- Runs and popups. A run without a winner returns before its reports settle, and its
  losses are shown by nobody (contentScript.ts:855; README.md:39 speaks of every lost
  report). A page that keeps an old error text makes the next good code a failure; a form
  that folds after the script looked makes a code count as failed that was never
  submitted. A late answer of the support check writes over progress (popup.ts:78).
- Refresh. docs/SERVER.md:628 promises exactly one audit row for each real import attempt;
  an import that throws, or a crash or a failing write after it, leaves none
  (admin-source-import-routes.ts:238-248). A throw of `canFetchSourceNow` ends the tick (scheduled-refresh.ts:195;
  docs/SERVER.md:699 calls it error-isolated), and a row that does not parse throws every
  time. An interval above 2^31 - 1 ms is more than `setInterval` can count and fires
  every millisecond (scheduled-refresh.ts:58-87); the gate still spaces the fetches.
  `nextAllowedFetchAt` is the latest expiry over all keys of a source, while the gate is
  per key. Domains of 248 to 253 characters pass `validateDomain`, but with the
  `merchant:` prefix exceed the limit of a cache key, which throws.
- Settings. The status page reports `featureEnabled` false for a provider whose flag is on
  but whose account is missing or whose name is not set (db-source-status.ts:34). The CLI asks
  only for `importEnabled`. The fixture adapters are used by tests only.
- Rows. A null or blank `code` in an Awin row hides its `voucherCode`; an empty
  `promotionType` hides `type` in Awin's mapping and not in impact's. A host taken from
  `merchantUrl` keeps its `www.`, so such rows are refused at an import for the bare
  domain.
- Store. A list saved under `www.` or in upper case, or imported under a key with blanks,
  is kept and no lookup finds it, and the one with blanks cannot be deleted, since the
  delete trims; stores made after an export, and histories that are not in it, stay when
  it is imported (the documents say so).
- Order. A claim is never rewritten (db-sources.ts:298), so an offer that its provider
  renews stays expired; one success keeps a code before all untested ones for good; the
  stats table leaves the order by sources out (stats.ts:34; docs/SERVER.md:960).
- Demo. A fixed coupon worth more than its minimum spend is suggested at its face value
  (couponEngine.ts:174); the property allows for it.
- Profiles. `profiles:verify` compares domains as written, and the lookup normalised
  ones: two profiles that pass may hide each other.

### Fairness

`CouponRun`: each run and each report is weakly fair (timers fire, fetches settle or
are aborted); the page is weakly fair only on prompt sites. `ResultReporter`: the client
is weakly fair, since a fetch answers, fails, or is aborted by its timer; the server is not.
`PopupSession`: messages, callbacks, the script and the settling of reports are weakly
fair (the last two are what `Terminates` and `ReportsSettle` show); users and the server
owe nothing. `SourceRefresh`: timers,
ticks, flows and a restart are weakly fair (a fetch is aborted at its timeout); for
each store, the three steps that may fail (the gate, the answer, the import) are
strongly fair, so no fault meets one store for ever. Only `live` needs that. Nothing
is assumed of administrators, edits, crashes or faults. `CouponStore`, `TestOrder` and
`Answers` state no liveness and assume no fairness.

## Proofs

`CouponRunProofs` proves, for every set of codes, lists and merchants and any number
of runs on one page, from `RunAssumption` alone:

- `TypeCorrect`: `Spec => []TypeOK`;
- `WinnerCorrect`: `Spec => []WinnerIsLowestVerified`;
- `WarningsCorrect`: `Spec => []WarnsOfLostReports`.

`WinnerIsLowestVerified` speaks of the answer only; the invariant behind it,
`IInv`, holds of every run at every step. It says that the position in the list and
the label fit (`ControlInv`: a code is being tested only while there is one, the
winner's steps are reached only with a winner) and that `lowest` is at any time the
first of the least successes among the reports so far (`WinnerInv`). Most steps leave
what `WinnerInv` reads alone (`WinnerInvSame`); `Judge` is the one that counts, and
there the case is split on whether the code improved (`FailureKeepsLowest`,
`LowerKeepsLowest`).

Its second part proves the two properties that speak of the page, which the run
cannot see, for any number of runs of which one is at work, and for any codes, lists
and merchants that redeem codes one at a time (`OneCodeEach`: on a bare cart a code is
redeemed as itself or refused, and a shopper arrives with one discount at most):

- `ReportsTruthful`: `Spec => []ReportsTellTheTruth`;
- `ShopperHasTheBest`: `Spec => []ShopperKeepsTheBest`, if besides no code raises the
  total of a bare cart (`NeverDearer`).

Both hypotheses are needed and the instance satisfies them (`MerchantsOfTheTheorems` in
`MCCouponRun`). If a code is redeemed as two discounts, or a cart comes with two, the
clicks that remove them repaint the page one after the other; the script stops waiting
at the first change of the total and submits the next code beside the discount that is
left. The invariant (`TInv`) is a picture of the page for every await of the run:
`Between` two codes the page shows the last verified code or a bare cart, `Removing` it
may still show the old total, `Restoring` it waits for any other, `Cleared` means that
only the baseline can be on screen when a code is submitted, `Submitted` and `Judged`
lead from there to the total of that code alone. `PageFor` says which picture belongs to
which label, `Steady` what the page keeps whoever acts, `Ordered` that the k-th report
is of the k-th code. One lemma per action moves the run from picture to picture, and one
more per step of the page shows that a picture survives it.

`ResultReporterProofs` proves, for any reports and any number of attempts, from
`ReporterAssumption` (there is at least one attempt):

- `TypeCorrect`: `Spec => []TypeOK`;
- `ConfirmedOnce`: `Spec => []SavedAtOnceIsOneRow`;
- `Implements`: `Spec => DeliversReports`, the refinement of `ReportDelivery`.

A confirmation is only as good as the answer it came from, so the invariant says that an
answer on its way back is that of a stored row (`AnswersAreTrue`) and that a report
nobody made has no request (`FiredIsSent`). `ConfirmedOnce` adds that attempts are sent
in their order (`SentInOrder`): the second does not exist while the first is awaited.

`PopupSessionProofs` proves, for any number of popups, clicks and navigations, any pages and lists, from `SessionAssumption`:

- `TypeCorrect`: `Spec => []TypeOK`;
- `QuietIsRight`: `Spec => []QuietMeansStored`;
- `StatusTellsOneStory`: `Spec => StatusFollowsRun`.

For the first two `IInv` says what the awaits of a click imply of button and run
(`ClickInv`), that an answer shown is covered by the history (`AnswerInv`), that an
answer on its way is (`RunInv`), and that a saved report is stored (`SavedInv`, which is
where `ReportDelivery` comes in). For the story of the status, `MailInv` says that
broadcasts wait in the order they were made, each of a run that is at least that far, and
`StoryInv` that what is shown of a run is behind all of its broadcasts still on their way.

`CouponStoreProofs` proves, for any spellings, lists, files, seed and bounds, from
`StoreAssumption` (trimming yields a trimmed code, the seed is trimmed, files are lists
keyed by domains):

- `ProvenanceAgrees`: `Spec => []CodesAreClaimed`;
- `VerifyAlwaysPasses`: `Spec => []VerifyPasses`;
- `AlwaysApart`: `Spec => ListsAndHistoryApart`;
- `StartsKeepRows`: `Spec => BootKeepsRows`;
- `ImportsRepeatHarmlessly`: `Spec => []AgainIsNothing`;
- `TypeCorrect`: `Spec => []TypeOK`;
- `ExportsComeBack`: `Spec => []RestoreGivesBack`.

Neither of the first two is inductive by itself: an upsert of a store whose orphaned rows were
still there would break the agreement, and a claim of an unlisted code would survive a
provider import. `IInv` takes both together (`Sound`), the shape of the tables, and that
stores and exported files are keyed by known spellings. Each writer has a lemma that it
keeps `Sound`; two of them carry the argument, `ReplaceIsSound` (pruning and claiming
leave exactly the new list) and `AddIsSound` (which needs the codes to come trimmed: from
the caller for a provider, from the assumption for the seed). The two action properties
follow from what each writer leaves alone. The last theorem needs no invariant: twice is
once for whatever tables there are (`ExtendTwice`, `AddTwice`, `ReplaceTwice`,
`HistoryTwice`).

That a list is in one order is about cardinalities, since a code's place is counted from
the codes before it: `ExtendIsPlaced` shows that extending an order leaves one (the sets
counted for two new codes are nested and differ), `EveryPlaceIsTaken` that no place is
empty (an injection into as many places is onto), hence that an export is a sequence
without repetitions (`ExportedIsDistinct`), and `DistinctComesBack` that such a sequence
is what the tables show after it is imported. `TypeInv` carries this, and what the export
files hold, over all writers.

`SourceRefreshProofs` proves, for any stores, codes, answers, callers, faults and any
interval, TTL and timeout, from `RefreshAssumption` (the interval is at least the TTL and
ages are counted that far; the scheduler is no other caller) and `AbsenceAssumption` (no
entry and no job are neither):

- `TypeCorrect`: `Spec => []TypeOK`;
- `RefreshIsAPool`: `Spec => ImplementsPool`, the refinement of `CandidatePool`;
- `ProvenanceStaysTrue`: `Spec => []Pool!ProvenanceIsTrue`, proved of the pool and
  carried over;
- `ForgottenStaysForgotten`: `Spec => StaysForgotten`;
- `SchedulerIsSpaced`: `Spec => SchedulerSpacing`, if a log write never throws;
- `StoresKeptWarm`: `Spec => []KeepsWarm`, if neither a log write nor the gate's query
  throws, from `OrderAssumption` too (the order of the stores lists each of them).

`Inv` adds to the types that the tick, its guard and its list agree (`Ticking`: without
it a crash could leave the scheduler a call, and a preview could import) and that the
rows in flight and in the cache are offered (`TrueRows`: an import takes its rows from
either). The interval between requests needs one invariant more: `Spaced` says, for each
store, why the scheduler cannot ask yet: the log shows the last request, or it is still
out, or the server is down, or has not been up for long enough. A crash before the
attempt is logged is where the last two are needed, and a log write that throws is what
the theorem must exclude.

How long a store goes without an attempt is a matter of where the tick is. `Fresh` bounds
the age of a store the tick has yet to do by what the fetches up to its turn may take, of
one it is done with by what the rest of the tick may take, and, between ticks, by the time
till the timer fires; `Wait` is what the store now being fetched has used of its share.
The proof shows where the bound comes from: a store is passed over because it was tried
less than an interval ago (`RefusedRecently`, which needs that a cache row is never older
than its attempt), or because it was not tracked when the tick began, and then the whole
rest of that tick goes by first. The second case is why the bound has `(N - 1) * Timeout`
beside the interval: with two intervals instead, which suffice when a tick is shorter than
an interval, a store imported during a long tick would exceed it.

`AnswersProofs` proves every property of `Answers`, for any questions:

- `SettingsAreOne`: `Spec => []OneMindOnSettings`;
- `VettedServe`: `Spec => []VettedProfilesServe`;
- `OneStory`: `Spec => []OneStoryOfSources`;
- `BestsAgree`: `Spec => []TwoBestsAgree`;
- `TipsPay`: `Spec => []SuggestionsPay`;
- `OffersAreCandidates`: `Spec => []CandidatesAreTheOffers`;
- `CacheIsFaithful`: `Spec => []CacheGivesBack`.

The invariant (`MayBeAsked`) is that a question is one of those the constants list; the
rest is about the calculations. What may be asked is assumed to be of the code's types,
and no more: carts with natural prices and quantities, coupons of the three types with
percentages up to 100 (`EngineAsked`; types.ts:25 has them as fractions, and nothing
checks that they are; one above 100 would save more than the items cost), answers whose
rows are objects with JSON values or no objects (`RowsAsked`), profiles whose domains are
hosts, if they have any (`ProfilesAsked`), claims of known sources and cache rows with
dates (`ViewsAsked`). Confidences, ids and codes are anything. The models' own assumptions say what their parameters stand for:
a blank text is no host, code or URL and hosts found in URLs are hosts
(`RowsAssumption`), source types have priorities (`ViewsAssumption`), "no limit" is no
amount (`EngineAssumption`), a setting is a number or a name, a TTL is positive
(`SettingsAssumption`), a missing id is no good id (`ProfilesAssumption`).

- Settings: `ReadersAgree` says it for every environment and id. It is a case distinction
  over the registry, one activation at a time.
- Profiles: `PassedIsVetted` reads off what a list that passes satisfies; then the first
  profile that a lookup finds is the only one there is (`FindFinds`, `PassedServe`).
- Views: `pickBestClaim` is a loop that keeps the best so far; as "beats" is a strict
  weak order (`ImprovingCompares`), the loop ends with the earliest of the claims that
  none beats (`BestClaimIs`).
- Demo: the page sorts and takes the first, `findBestCoupon` loops and keeps the better;
  `TheOrders` and `OneBest` show that both end with the earliest of those that save most. For the
  suggestions, `ToppedUpIs` says what the addition does to subtotal and total, and
  `PaysAfterwards` that the coupon then saves what was promised.
- Rows: the loop over an answer has the invariant `Through`. After k rows the
  candidates are those of the first usable rows of their keys, in order, the keys seen are
  theirs, and the errors name the refused rows; `ReadRowIs` is its step, `ReadsOn` the
  induction, `ReadThrough` its end. For the cache, `CandidateAgain` shows that a
  candidate passes the checks once more and comes out unchanged, and no two have one key, so
  the second pass refuses none.

`TestOrderProofs` proves every property of `TestOrder`, for any codes, providers, weights,
lists, offers, histories and dates, from `OrderAssumption` (weights and savings are natural
numbers, lists hold codes, each once, and offers are dated or not) and
`ResultsAssumption` (an imported history holds what `parseResultsExport` lets through):

- `TypeCorrect`: `Spec => []TypeOK`;
- `EveryLookupComplete`: `Spec => []AnswersTheList`;
- `OneOrder`: `Spec => []TwoSortsAreOne`;
- `ReportsKeepOthers`: `Spec => OthersKeepOrder`;
- `SourcesPromote`: `Spec => NewSourceNeverDemotes`;
- `DaysOnlyFade`: `Spec => TimeOnlyFades`.

`IInv` adds to `TypeOK` that a code has finitely many claims, that the history is typed, and
that from the first read of a lookup to its answer the order holds the codes asked for,
each once (`OrderOK`); the claims of those codes may be gone by then, so scores are defined
for codes without claims too. The rest is about the sorts, whatever the state, and rests on `SortingProofs`:

- `SourceBeforeOrders` and `HistoryOrders`: both comparators are strict total orders. For
  the second, `Averages` shows that averages compared crosswise chain, for which the totals
  must be natural numbers and the counts positive; a total is a sum over a set of reports.
- The action properties follow step by step: a report leaves the reports of other codes
  and their sum (`ReportLeavesOthers`), a failure leaves a tested code's bucket
  (`FailLeavesTested`), one more claim lowers no part of a score (`MoreClaimsScoreMore`)
  and makes nothing expire (`MoreClaimsExpireLess`), and of two dates the later one loses
  no less freshness over a day (`FreshFades`), so a lead that fades was a later date's.

`SortingProofs` has what these two rest on, whatever the lists:

- `SortedIsSorted`: sorted by a strict total order, a finite set is a sequence of its
  elements, each once, and one place comes before another just when its element does.
  `Places` is the reason: the elements before one are a proper subset of those before the
  next, so their numbers differ, and as many different places as elements are all places.
- `KeptIs` and the lemmas of `InOrder`: a filtered list has the elements kept, in their order.
- `LastTakenIs`: a loop that keeps what is better than what it has ends with the first of
  those that nothing is better than (`Compares` says what kind of "better" that takes).
  The function that defines the loop exists by `LoopExists`.
- `SumExists` and `SumsAgree`: a finite set has a sum over it and only one. The library's
  induction theorems take an operator and cannot be used, so this and all other inductions over
  data look at a smallest set (`SmallestSubset`) or a least number (`MinIsMin`) where it
  were not so.

Only model-checked: liveness under fairness, which is out of the prover's reach
(`Terminates`, `ReportsSettle`, `ButtonComesBack`, `EventuallyImported`), and the four
violations. Every invariant and every action property of a passing run is a theorem.

## Not modelled

DOM search and money parsing, rendering and layout; HTTP routing, access checks and
body validation; the validation of files; the import history, the last-fetch columns, the
stats table and the search routes, which select and show; the argument parsing of the
CLIs and `db:backup`, which copies a file; the warnings of the profile tool; the bundles
`contentScript.js` and `popup.js`, which are built from the modelled sources; the admin page and the smoke
tests. They are text processing, or generated, or keep no state that another part reads.
`PROJECT.json` lists each with its reason, the hazards of the code at their lines, and the
line ranges every definition stands for.

## Plan

Done: the extension (`CouponRun`, `ResultReporter`, `PopupSession`), the server
(`SourceRefresh`, `CouponStore`, `TestOrder`), the calculations (`Answers`), their runs,
and the proofs above. Left:

1. The composition of `ResultReporter` with `TestOrder`: what a report stored twice can do
   to the next run's order.
