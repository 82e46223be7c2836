----------------------------- MODULE CouponStore -----------------------------
(***************************************************************************)
(* The server's tables of stores, coupon codes, provenance and results       *)
(* (db.ts), with everything that writes them: the admin routes, reports, the  *)
(* JSON imports, the provider import, the start of the server and the         *)
(* maintenance CLIs (db-coupons.ts, db-results.ts, db-import.ts,              *)
(* db-bootstrap.ts, db-maintenance.ts, db-sources.ts).                        *)
(*                                                                          *)
(* Each writer is one SQLite transaction, so it is a function of the tables   *)
(* and an action by itself; a crash falls between two of them.  The rows of   *)
(* a store are keyed by its domain, which is unique and never rewritten; ON   *)
(* DELETE CASCADE takes them with it.  What a report says is opaque.          *)
(***************************************************************************)
EXTENDS Naturals, Sequences, FiniteSets

CONSTANTS
  Domains,    \* spellings of domains
  Texts,      \* spellings of codes
  Reports,    \* what a result row may say
  Trim(_),    \* String.prototype.trim, of domains and of codes
  Lookup(_),  \* normalizeLookupDomain
  Lists,      \* the code lists a caller may send
  Histories,  \* the result lists a caller may send
  Seed,       \* coupons.seed.json
  SeedHistory,  \* coupon-results.json, grouped by domain
  MaxResults, MaxWrites  \* bounds

Codes   == {c \in Texts : Trim(c) = c}
Sources == {"seed", "admin", "import", "provider"}
Nothing == [d \in {} |-> <<>>]

\* A JSON file: a list for each domain it names.
IsFile(f, lists) == DOMAIN f \subseteq Domains /\ f \in [DOMAIN f -> lists]

ASSUME StoreAssumption ==
  /\ \A d \in Domains : Trim(d) \in Domains /\ Lookup(d) \in Domains
  /\ \A c \in Texts : Trim(c) \in Codes
  /\ Lists \subseteq Seq(Texts)
  /\ Histories \subseteq Seq(Reports)
  /\ IsFile(Seed, Seq(Codes))   \* the committed seed has no stray spaces
  /\ IsFile(SeedHistory, Seq(Reports))
  /\ MaxResults \in Nat /\ MaxWrites \in Nat

VARIABLES
  db,      \* the database file
  server,  \* the server process: down, between its two bootstraps, or up
  cli,     \* how far db:reset or db:bootstrap has come
  exports, \* the last exported files
  gone,    \* history: the domains an administrator has deleted since they were last named
  writes   \* the writes so far

vars == <<db, server, cli, exports, gone, writes>>

-----------------------------------------------------------------------------
(* Lists of codes.  A list in the database is a function from the codes to    *)
(* their places, as ORDER BY id shows them; a list in a file is a sequence.   *)

\* Faulty: the list is stored as it was sent.
AsSent(list) == list

Trimmed(list) == [i \in DOMAIN list |-> Trim(list[i])]

Named(list) == {list[i] : i \in DOMAIN list}

First(list, c) == CHOOSE i \in DOMAIN list :
  list[i] = c /\ \A j \in DOMAIN list : list[j] = c => i <= j

\* The codes that list adds to placed, behind those it has and in list's order.
Extend(placed, list) ==
  LET upTo(c) == {list[i] : i \in 1 .. First(list, c)}
  IN [c \in DOMAIN placed \cup Named(list) |->
        IF c \in DOMAIN placed THEN placed[c]
        ELSE Cardinality(DOMAIN placed) + Cardinality(upTo(c) \ DOMAIN placed)]

InOrder(placed) ==
  [k \in 1 .. Cardinality(DOMAIN placed) |-> CHOOSE c \in DOMAIN placed : placed[c] = k]

Listed(b, d) == DOMAIN b.codes[d]

\* The codes that claims name.
Claimed(claims) == {x[1] : x \in claims}

-----------------------------------------------------------------------------
(* The writers, each from tables to tables.                                   *)

Empty == [stores  |-> {},
          codes   |-> [d \in Domains |-> Nothing],
          claims  |-> [d \in Domains |-> {}],
          results |-> [d \in Domains |-> <<>>]]

\* Faulty: INSERT OR REPLACE, which deletes the old row and, by cascade, its rows.
ReplaceStores(b, ds) ==
  [stores  |-> b.stores \cup ds,
   codes   |-> [d \in Domains |-> IF d \in ds THEN Nothing ELSE b.codes[d]],
   claims  |-> [d \in Domains |-> IF d \in ds THEN {} ELSE b.claims[d]],
   results |-> [d \in Domains |-> IF d \in ds THEN <<>> ELSE b.results[d]]]

\* Inserts the store or touches its updated_at; its rows stay.
UpsertStores(b, ds) ==
  [stores |-> b.stores \cup ds, codes |-> b.codes, claims |-> b.claims, results |-> b.results]

\* Faulty: the claims of removed codes stay.
PruneNothing(claims, keep) == claims

\* Drops the claims of a store for codes that keep does not name.
Prune(claims, keep) == {x \in claims : x[1] \in keep}

\* The replacing import: each named store gets the file's list, and no claim of
\* a code that is no longer in it.
ReplaceCodes(b, file, source) ==
  LET u == UpsertStores(b, DOMAIN file)
      sent(d) == Trimmed(file[d])
  IN [stores  |-> u.stores,
      codes   |-> [d \in Domains |->
        IF d \in DOMAIN file THEN Extend(Nothing, sent(d)) ELSE u.codes[d]],
      claims  |-> [d \in Domains |->
        IF d \in DOMAIN file
        THEN Prune(u.claims[d], Named(sent(d))) \cup (Named(sent(d)) \X {source})
        ELSE u.claims[d]],
      results |-> u.results]

\* The adding import: what is there stays, and the rest goes behind it.  Claims
\* are trimmed when they are recorded.
AddCodes(b, file, source) ==
  LET u == UpsertStores(b, DOMAIN file)
  IN [stores  |-> u.stores,
      codes   |-> [d \in Domains |->
        IF d \in DOMAIN file THEN Extend(u.codes[d], file[d]) ELSE u.codes[d]],
      claims  |-> [d \in Domains |->
        IF d \in DOMAIN file
        THEN u.claims[d] \cup (Named(Trimmed(file[d])) \X {source})
        ELSE u.claims[d]],
      results |-> u.results]

UpsertCouponCodes(b, d, list) == ReplaceCodes(b, [x \in {Trim(d)} |-> list], "admin")

\* Faulty: the import of a file adds to the lists.
MergeCouponsExport(b, file) ==
  AddCodes(b, [d \in DOMAIN file |-> Trimmed(file[d])], "import")

ImportCouponsExport(b, file) == ReplaceCodes(b, file, "import")

ImportProviderCandidates(b, d, list) ==
  AddCodes(b, [x \in {Trim(d)} |-> Trimmed(list)], "provider")

ImportSeed(b, file) == AddCodes(b, file, "seed")

\* Faulty: foreign keys are off, so the store's row goes alone.
DeleteAlone(b, d) == [b EXCEPT !.stores = @ \ {Trim(d)}]

DeleteCouponDomain(b, d) ==
  [stores  |-> b.stores \ {Trim(d)},
   codes   |-> [b.codes EXCEPT ![Trim(d)] = Nothing],
   claims  |-> [b.claims EXCEPT ![Trim(d)] = {}],
   results |-> [b.results EXCEPT ![Trim(d)] = <<>>]]

\* The tables b with the histories h.
WithResults(b, h) ==
  [stores |-> b.stores, codes |-> b.codes, claims |-> b.claims, results |-> h]

AppendResultRecord(b, d, r) ==
  WithResults(UpsertStores(b, {Lookup(d)}),
              [UpsertStores(b, {Lookup(d)}).results EXCEPT ![Lookup(d)] = Append(@, r)])

DeleteResultsForDomain(b, d) == WithResults(b, [b.results EXCEPT ![Lookup(d)] = <<>>])

\* Faulty: the history is not cleared first.
AppendResultsExport(b, file) ==
  WithResults(UpsertStores(b, DOMAIN file),
    [d \in Domains |-> IF d \in DOMAIN file THEN b.results[d] \o file[d] ELSE b.results[d]])

\* Replaces the history of each domain the file names.
ImportResultsExport(b, file) ==
  LET u == UpsertStores(b, DOMAIN file)
  IN WithResults(u, [d \in Domains |-> IF d \in DOMAIN file THEN file[d] ELSE u.results[d]])

\* db:bootstrap's import: clears the whole history first.
ImportResults(b, file) ==
  ImportResultsExport(WithResults(b, [d \in Domains |-> <<>>]), file)

NoResults(b) == \A d \in Domains : b.results[d] = <<>>

BootstrapIfEmpty(b) == IF b.stores = {} THEN ImportSeed(b, Seed) ELSE b

\* Faulty: the start uses db:bootstrap's import.
BootstrapResultsAlways(b) == ImportResults(b, SeedHistory)

BootstrapResultsIfEmpty(b) ==
  IF NoResults(b) THEN ImportResultsExport(b, SeedHistory) ELSE b

\* What an export writes: every store has a list, and those with results a history.
CouponsPayload(b) == [d \in b.stores |-> InOrder(b.codes[d])]
ResultsPayload(b) == [d \in {e \in b.stores : b.results[e] # <<>>} |-> b.results[d]]

\* db:verify: no row is without its store.
Verify(b) ==
  \A d \in Domains \ b.stores :
    Listed(b, d) = {} /\ b.claims[d] = {} /\ b.results[d] = <<>>

-----------------------------------------------------------------------------
(* The calls.                                                                 *)

Init ==
  /\ db = Empty
  /\ server = "down"
  /\ cli = "idle"
  /\ exports = [coupons |-> Nothing, results |-> Nothing]
  /\ gone = {}
  /\ writes = 0

\* A transaction that leaves the tables as b and concerns the stores ds.
Write(b, ds) ==
  /\ writes < MaxWrites
  /\ db' = b
  /\ gone' = gone \ ds
  /\ writes' = writes + 1
  /\ UNCHANGED <<server, cli, exports>>

\* POST /admin/coupons.
SaveCoupons == \E d \in Domains, list \in Lists :
  server = "up" /\ Write(UpsertCouponCodes(db, d, list), {Trim(d)})

\* DELETE /admin/coupons; a domain that is not stored is answered with 404.
DeleteCoupons == \E d \in Domains :
  /\ server = "up" /\ Trim(d) \in db.stores
  /\ writes < MaxWrites
  /\ db' = DeleteCouponDomain(db, d)
  /\ gone' = gone \cup {Trim(d)}
  /\ writes' = writes + 1
  /\ UNCHANGED <<server, cli, exports>>

\* POST /results.
PostResult == \E d \in Domains, r \in Reports :
  /\ server = "up" /\ Len(db.results[Lookup(d)]) < MaxResults
  /\ Write(AppendResultRecord(db, d, r), {Lookup(d)})

\* DELETE /results.
DeleteResults == \E d \in Domains :
  server = "up" /\ Write(DeleteResultsForDomain(db, d), {})

\* POST /admin/import/apply/coupons, and db:import --coupons: a file written by
\* hand, or one exported before.
ApplyCoupons ==
  \E file \in {exports.coupons} \cup UNION {[{d} -> Lists] : d \in Domains} :
    Write(ImportCouponsExport(db, file), DOMAIN file)

\* The same of results.
ApplyResults ==
  \E file \in {exports.results} \cup UNION {[{d} -> Histories \ {<<>>}] : d \in Domains} :
    Write(ImportResultsExport(db, file), DOMAIN file)

\* A provider import, from an admin route, the scheduler or the CLI.
ProviderImport == \E d \in Domains, list \in Lists :
  Write(ImportProviderCandidates(db, d, list), {Trim(d)})

\* GET /admin/export/coupons, or the first file of db:export; then the other.
ExportCoupons ==
  /\ exports' = [exports EXCEPT !.coupons = CouponsPayload(db)]
  /\ UNCHANGED <<db, server, cli, gone, writes>>

ExportResults ==
  /\ exports' = [exports EXCEPT !.results = ResultsPayload(db)]
  /\ UNCHANGED <<db, server, cli, gone, writes>>

\* main: two transactions, then the server listens.
BootCoupons ==
  /\ server = "down"
  /\ db' = BootstrapIfEmpty(db)
  /\ server' = "booting"
  /\ UNCHANGED <<cli, exports, gone, writes>>

BootResults ==
  /\ server = "booting"
  /\ db' = BootstrapResultsIfEmpty(db)
  /\ server' = "up"
  /\ UNCHANGED <<cli, exports, gone, writes>>

\* A shutdown, or a crash.
Stop ==
  /\ server # "down"
  /\ server' = "down"
  /\ UNCHANGED <<db, cli, exports, gone, writes>>

\* db:reset removes the file, then seeds like db:bootstrap.  The server is to be
\* stopped for it (docs/SERVER.md:754).
Reset ==
  /\ server = "down" /\ cli = "idle" /\ writes < MaxWrites
  /\ db' = Empty /\ gone' = {}
  /\ cli' = "wiped"
  /\ writes' = writes + 1
  /\ UNCHANGED <<server, exports>>

\* db:bootstrap starts here.
CliSeeds ==
  /\ cli \in {"idle", "wiped"} /\ writes < MaxWrites
  /\ db' = ImportSeed(db, Seed) /\ gone' = gone \ DOMAIN Seed
  /\ cli' = "seeded"
  /\ writes' = writes + 1
  /\ UNCHANGED <<server, exports>>

CliHistory ==
  /\ cli = "seeded"
  /\ db' = ImportResults(db, SeedHistory) /\ gone' = gone \ DOMAIN SeedHistory
  /\ cli' = "idle"
  /\ UNCHANGED <<server, exports, writes>>

CliDies ==
  /\ cli # "idle"
  /\ cli' = "idle"
  /\ UNCHANGED <<db, server, exports, gone, writes>>

Next ==
  \/ SaveCoupons \/ DeleteCoupons \/ PostResult \/ DeleteResults
  \/ ApplyCoupons \/ ApplyResults \/ ProviderImport
  \/ ExportCoupons \/ ExportResults
  \/ BootCoupons \/ BootResults \/ Stop
  \/ Reset \/ CliSeeds \/ CliHistory \/ CliDies

Spec == Init /\ [][Next]_vars

-----------------------------------------------------------------------------
\* Places are 1 .. n.
ListInOrder(placed) ==
  /\ DOMAIN placed \subseteq Codes
  /\ placed \in [DOMAIN placed -> 1 .. Cardinality(DOMAIN placed)]
  /\ \A c, e \in DOMAIN placed : placed[c] = placed[e] => c = e

\* The kinds of the state, and a list is in one order without gaps or ties.
TypeOK ==
  /\ db.stores \subseteq Domains
  /\ DOMAIN db.codes = Domains /\ \A d \in Domains : ListInOrder(db.codes[d])
  /\ db.claims \in [Domains -> SUBSET (Codes \X Sources)]
  /\ db.results \in [Domains -> Seq(Reports)]
  /\ server \in {"down", "booting", "up"}
  /\ cli \in {"idle", "wiped", "seeded"}
  /\ IsFile(exports.coupons, Seq(Codes)) /\ IsFile(exports.results, Seq(Reports))
  /\ gone \subseteq Domains
  /\ writes \in 0 .. MaxWrites

\* Every listed code has a recorded source, and no source is recorded for a code
\* that is not listed: provenance does not outlive its code (db-sources.ts:365-373)
\* nor does any of the four ways to list a code forget it.
CodesAreClaimed ==
  \A d \in Domains : Listed(db, d) = Claimed(db.claims[d])

\* The integrity check of db:verify never fails: no deletion, reset or replace
\* leaves rows behind for a store of the same name to inherit.
VerifyPasses == Verify(db)

\* Lists and history are apart: no transaction that changes the codes of a store
\* or their claims changes its history too, and the other way round, unless the
\* store itself comes or goes (docs/DATABASE_PLAN.md:129; an upsert of the store's
\* row must not cascade).
ListsAndHistoryApart ==
  [][\A d \in db.stores \cap db'.stores :
       \/ db'.codes[d] = db.codes[d] /\ db'.claims[d] = db.claims[d]
       \/ db'.results[d] = db.results[d]]_vars

\* Starting the server never changes a list or a history that is there, however
\* the last start, reset or bootstrap was cut short (db-coupons.ts:117-122,
\* db-results.ts:126-133).
BootKeepsRows ==
  [][server' # server =>
       \A d \in db.stores :
         /\ d \in db'.stores
         /\ db'.codes[d] = db.codes[d] /\ db'.claims[d] = db.claims[d]
         /\ db.results[d] \in {<<>>, db'.results[d]}]_vars

\* Importing what was exported gives the exported lists and histories back, in
\* their order, whatever was written since, and leaves every other store's alone
\* (docs/SERVER.md:775, 328-329).
RestoreGivesBack ==
  LET back == ImportResultsExport(ImportCouponsExport(db, exports.coupons), exports.results)
  IN /\ DOMAIN exports.coupons \cup DOMAIN exports.results \cup db.stores = back.stores
     /\ \A d \in back.stores :
          /\ InOrder(back.codes[d]) =
               IF d \in DOMAIN exports.coupons THEN exports.coupons[d] ELSE InOrder(db.codes[d])
          /\ back.results[d] =
               IF d \in DOMAIN exports.results THEN exports.results[d] ELSE db.results[d]

\* Doing an import again changes nothing (docs/SERVER.md:357, 788; the provider's
\* import, db-source-import.ts:5-8; the seed's, docs/DATABASE_PLAN.md:149).
AgainIsNothing ==
  LET Same(F(_)) == F(F(db)) = F(db)
  IN /\ \A d \in Domains, list \in Lists :
          /\ Same(LAMBDA b : ImportCouponsExport(b, [x \in {d} |-> list]))
          /\ Same(LAMBDA b : ImportProviderCandidates(b, d, list))
     /\ \A d \in Domains, list \in Histories :
          Same(LAMBDA b : ImportResultsExport(b, [x \in {d} |-> list]))
     /\ Same(LAMBDA b : ImportSeed(b, Seed))

\* What docs/SEED_DATA.md:23 and docs/SERVER.md:728 say of administrators' edits:
\* they survive restarts.  A domain they deleted does not come back with one.
DeletionSurvivesRestart ==
  [][server' # server => db'.stores \cap gone = {}]_vars
=============================================================================
