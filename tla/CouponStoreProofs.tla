-------------------------- MODULE CouponStoreProofs --------------------------
(***************************************************************************)
(* For any spellings, lists, files and bounds: provenance agrees with the     *)
(* lists, db:verify passes, lists and history are apart, and a start keeps    *)
(* the rows that are there; each list is in one order without gaps or ties,    *)
(* and importing an export gives back what was exported.                      *)
(***************************************************************************)
EXTENDS CouponStore, FiniteSetTheorems, SequenceTheorems, TLAPS

\* Four tables, keyed by domain.
Shaped(b) ==
  /\ b = [stores |-> b.stores, codes |-> b.codes, claims |-> b.claims, results |-> b.results]
  /\ b.codes = [d \in Domains |-> b.codes[d]]
  /\ b.claims = [d \in Domains |-> b.claims[d]]
  /\ b.results = [d \in Domains |-> b.results[d]]

Agree(b) == \A d \in Domains : Listed(b, d) = Claimed(b.claims[d])

Sound(b) == Shaped(b) /\ Agree(b) /\ Verify(b)

\* The codes claimed, after each code of names is claimed by source, and after the
\* claims of others are pruned.
LEMMA ClaimsAdded ==
  ASSUME NEW old, NEW names, NEW source
  PROVE  Claimed(old \cup (names \X {source})) = Claimed(old) \cup names
  <1>1. \A c \in names : <<c, source>> \in names \X {source} /\ <<c, source>>[1] = c
    OBVIOUS
  <1>2. \A x \in names \X {source} : x[1] \in names
    OBVIOUS
  <1>. QED
    BY <1>1, <1>2 DEF Claimed

LEMMA ClaimsPruned ==
  ASSUME NEW old, NEW names
  PROVE  Claimed(Prune(old, names)) \subseteq names
  BY DEF Prune, Claimed

LEMMA NothingClaimed == Claimed({}) = {}
  BY DEF Claimed

LEMMA ExtendNames ==
  ASSUME NEW placed, NEW list
  PROVE  DOMAIN Extend(placed, list) = DOMAIN placed \cup Named(list)
  BY DEF Extend

LEMMA NothingIsEmpty == DOMAIN Nothing = {}
  BY DEF Nothing

LEMMA EmptyIsSound == Sound(Empty)
  BY NothingIsEmpty, NothingClaimed DEF Sound, Shaped, Agree, Verify, Listed, Empty

LEMMA ReplaceIsSound ==
  ASSUME NEW b, NEW file, NEW source, Sound(b)
  PROVE  Sound(ReplaceCodes(b, file, source))
  <1> DEFINE r == ReplaceCodes(b, file, source)
             co == [d \in Domains |-> IF d \in DOMAIN file
                                      THEN Extend(Nothing, Trimmed(file[d])) ELSE b.codes[d]]
             cl == [d \in Domains |-> IF d \in DOMAIN file
                                      THEN Prune(b.claims[d], Named(Trimmed(file[d])))
                                             \cup (Named(Trimmed(file[d])) \X {source})
                                      ELSE b.claims[d]]
  <1>1. r = [stores |-> b.stores \cup DOMAIN file, codes |-> co, claims |-> cl,
             results |-> b.results]
    BY DEF ReplaceCodes, UpsertStores
  <1> HIDE DEF r
  <1>2. Shaped(r)
    BY <1>1 DEF Sound, Shaped
  <1>3. Agree(r)
    <2> SUFFICES ASSUME NEW d \in Domains
                 PROVE  Listed(r, d) = Claimed(r.claims[d])
      BY DEF Agree
    <2>1. CASE d \in DOMAIN file
      <3> DEFINE names == Named(Trimmed(file[d]))
      <3>1. Listed(r, d) = names
        BY <1>1, <2>1, ExtendNames, NothingIsEmpty DEF Listed
      <3>2. r.claims[d] = Prune(b.claims[d], names) \cup (names \X {source})
        BY <1>1, <2>1
      <3> HIDE DEF names
      <3>3. Claimed(Prune(b.claims[d], names) \cup (names \X {source}))
              = Claimed(Prune(b.claims[d], names)) \cup names
        BY ClaimsAdded, Zenon
      <3>4. Claimed(Prune(b.claims[d], names)) \subseteq names
        BY ClaimsPruned
      <3>. QED
        BY <3>1, <3>2, <3>3, <3>4
    <2>2. CASE d \notin DOMAIN file
      BY <1>1, <2>2 DEF Listed, Sound, Agree
    <2>. QED
      BY <2>1, <2>2
  <1>4. Verify(r)
    <2> SUFFICES ASSUME NEW d \in Domains, d \notin r.stores
                 PROVE  Listed(r, d) = {} /\ r.claims[d] = {} /\ r.results[d] = <<>>
      BY DEF Verify
    <2>1. d \notin DOMAIN file /\ d \notin b.stores
      BY <1>1
    <2>2. r.codes[d] = b.codes[d] /\ r.claims[d] = b.claims[d] /\ r.results = b.results
      BY <1>1, <2>1
    <2>3. Listed(b, d) = {} /\ b.claims[d] = {} /\ b.results[d] = <<>>
      BY <2>1 DEF Sound, Verify
    <2>. QED
      BY <2>2, <2>3 DEF Listed
  <1>. QED
    BY <1>2, <1>3, <1>4 DEF Sound, r

\* Adding keeps the tables sound when the codes come trimmed.
LEMMA AddIsSound ==
  ASSUME NEW b, NEW file, NEW source, Sound(b),
         \A d \in DOMAIN file : Named(Trimmed(file[d])) = Named(file[d])
  PROVE  Sound(AddCodes(b, file, source))
  <1> DEFINE r == AddCodes(b, file, source)
             co == [d \in Domains |-> IF d \in DOMAIN file
                                      THEN Extend(b.codes[d], file[d]) ELSE b.codes[d]]
             cl == [d \in Domains |-> IF d \in DOMAIN file
                                      THEN b.claims[d]
                                             \cup (Named(Trimmed(file[d])) \X {source})
                                      ELSE b.claims[d]]
  <1>1. r = [stores |-> b.stores \cup DOMAIN file, codes |-> co, claims |-> cl,
             results |-> b.results]
    BY DEF AddCodes, UpsertStores
  <1> HIDE DEF r
  <1>2. Shaped(r)
    BY <1>1 DEF Sound, Shaped
  <1>3. Agree(r)
    <2> SUFFICES ASSUME NEW d \in Domains
                 PROVE  Listed(r, d) = Claimed(r.claims[d])
      BY DEF Agree
    <2>1. CASE d \in DOMAIN file
      <3> DEFINE names == Named(Trimmed(file[d]))
      <3>1. Listed(r, d) = Listed(b, d) \cup names
        BY <1>1, <2>1, ExtendNames DEF Listed
      <3>2. r.claims[d] = b.claims[d] \cup (names \X {source})
        BY <1>1, <2>1
      <3>3. Listed(b, d) = Claimed(b.claims[d])
        BY DEF Sound, Agree
      <3> HIDE DEF names
      <3>4. Claimed(b.claims[d] \cup (names \X {source})) = Claimed(b.claims[d]) \cup names
        BY ClaimsAdded, Zenon
      <3>. QED
        BY <3>1, <3>2, <3>3, <3>4
    <2>2. CASE d \notin DOMAIN file
      BY <1>1, <2>2 DEF Listed, Sound, Agree
    <2>. QED
      BY <2>1, <2>2
  <1>4. Verify(r)
    <2> SUFFICES ASSUME NEW d \in Domains, d \notin r.stores
                 PROVE  Listed(r, d) = {} /\ r.claims[d] = {} /\ r.results[d] = <<>>
      BY DEF Verify
    <2>1. d \notin DOMAIN file /\ d \notin b.stores
      BY <1>1
    <2>2. r.codes[d] = b.codes[d] /\ r.claims[d] = b.claims[d] /\ r.results = b.results
      BY <1>1, <2>1
    <2>3. Listed(b, d) = {} /\ b.claims[d] = {} /\ b.results[d] = <<>>
      BY <2>1 DEF Sound, Verify
    <2>. QED
      BY <2>2, <2>3 DEF Listed
  <1>. QED
    BY <1>2, <1>3, <1>4 DEF Sound, r

LEMMA DeleteIsSound ==
  ASSUME NEW b, NEW d \in Domains, Sound(b)
  PROVE  Sound(DeleteCouponDomain(b, d))
  <1> DEFINE r == DeleteCouponDomain(b, d)
             t == Trim(d)
  <1>1. r = [stores |-> b.stores \ {t}, codes |-> [b.codes EXCEPT ![t] = Nothing],
             claims |-> [b.claims EXCEPT ![t] = {}],
             results |-> [b.results EXCEPT ![t] = <<>>]]
    BY DEF DeleteCouponDomain
  <1>2. t \in Domains
    BY StoreAssumption
  <1> HIDE DEF r, t
  <1>3. Shaped(r)
    BY <1>1 DEF Sound, Shaped
  <1>4. \A e \in Domains : e # t =>
          r.codes[e] = b.codes[e] /\ r.claims[e] = b.claims[e] /\ r.results[e] = b.results[e]
    BY <1>1 DEF Sound, Shaped
  <1>5. Listed(r, t) = {} /\ r.claims[t] = {} /\ r.results[t] = <<>>
    BY <1>1, <1>2, NothingIsEmpty DEF Sound, Shaped, Listed
  <1>6. Agree(r)
    <2> SUFFICES ASSUME NEW e \in Domains
                 PROVE  Listed(r, e) = Claimed(r.claims[e])
      BY DEF Agree
    <2>1. CASE e = t
      BY <2>1, <1>5, NothingClaimed
    <2>2. CASE e # t
      BY <2>2, <1>4 DEF Sound, Agree, Listed
    <2>. QED
      BY <2>1, <2>2
  <1>7. Verify(r)
    <2> SUFFICES ASSUME NEW e \in Domains, e \notin r.stores
                 PROVE  Listed(r, e) = {} /\ r.claims[e] = {} /\ r.results[e] = <<>>
      BY DEF Verify
    <2>1. CASE e = t
      BY <2>1, <1>5
    <2>2. CASE e # t
      <3>1. e \notin b.stores
        BY <2>2, <1>1
      <3>. QED
        BY <3>1, <2>2, <1>4 DEF Sound, Verify, Listed
    <2>. QED
      BY <2>1, <2>2
  <1>. QED
    BY <1>3, <1>6, <1>7 DEF Sound, r

\* Histories may change as long as only stored domains have one.
LEMMA WithResultsIsSound ==
  ASSUME NEW b, NEW ds, NEW h, Sound(b),
         h = [d \in Domains |-> h[d]],
         \A d \in Domains : d \notin b.stores \cup ds => h[d] = <<>>
  PROVE  Sound(WithResults(UpsertStores(b, ds), h))
  <1> DEFINE r == WithResults(UpsertStores(b, ds), h)
  <1>1. r = [stores |-> b.stores \cup ds, codes |-> b.codes, claims |-> b.claims, results |-> h]
    BY DEF WithResults, UpsertStores
  <1> HIDE DEF r
  <1>2. Shaped(r)
    BY <1>1 DEF Sound, Shaped
  <1>3. Agree(r)
    BY <1>1 DEF Sound, Agree, Listed
  <1>4. Verify(r)
    BY <1>1 DEF Sound, Verify, Listed
  <1>. QED
    BY <1>2, <1>3, <1>4 DEF Sound, r

LEMMA AppendIsSound ==
  ASSUME NEW b, NEW d \in Domains, NEW m, Sound(b)
  PROVE  Sound(AppendResultRecord(b, d, m))
  <1> DEFINE t == Lookup(d)
             h == [UpsertStores(b, {t}).results EXCEPT ![t] = Append(@, m)]
  <1>1. h = [b.results EXCEPT ![t] = Append(@, m)]
    BY DEF UpsertStores
  <1>2. AppendResultRecord(b, d, m) = WithResults(UpsertStores(b, {t}), h)
    BY DEF AppendResultRecord
  <1> HIDE DEF t, h
  <1>3. h = [e \in Domains |-> h[e]]
    BY <1>1 DEF Sound, Shaped
  <1>4. \A e \in Domains : e \notin b.stores \cup {t} => h[e] = <<>>
    BY <1>1 DEF Sound, Shaped, Verify
  <1>. QED
    BY <1>2, <1>3, <1>4, WithResultsIsSound

LEMMA ClearedIsSound ==
  ASSUME NEW b, NEW h, Sound(b), h = [d \in Domains |-> h[d]],
         \A d \in Domains : h[d] \in {b.results[d], <<>>}
  PROVE  Sound(WithResults(b, h))
  <1>1. UpsertStores(b, {}) = b
    BY DEF UpsertStores, Sound, Shaped
  <1>2. \A d \in Domains : d \notin b.stores \cup {} => h[d] = <<>>
    BY DEF Sound, Verify
  <1>. QED
    BY <1>1, <1>2, WithResultsIsSound

LEMMA DeleteResultsIsSound ==
  ASSUME NEW b, NEW d \in Domains, Sound(b)
  PROVE  Sound(DeleteResultsForDomain(b, d))
  <1> DEFINE h == [b.results EXCEPT ![Lookup(d)] = <<>>]
  <1>1. h = [e \in Domains |-> h[e]] /\ \A e \in Domains : h[e] \in {b.results[e], <<>>}
    BY DEF Sound, Shaped
  <1> HIDE DEF h
  <1>2. Sound(WithResults(b, h))
    BY <1>1, ClearedIsSound
  <1>. QED
    BY <1>2 DEF DeleteResultsForDomain, h

LEMMA ImportResultsExportIsSound ==
  ASSUME NEW b, NEW file, Sound(b)
  PROVE  Sound(ImportResultsExport(b, file))
  <1> DEFINE ds == DOMAIN file
             h == [d \in Domains |->
                     IF d \in ds THEN file[d] ELSE UpsertStores(b, ds).results[d]]
  <1>1. ImportResultsExport(b, file) = WithResults(UpsertStores(b, ds), h)
    BY DEF ImportResultsExport
  <1>2. UpsertStores(b, ds).results = b.results
    BY DEF UpsertStores
  <1>3. h = [d \in Domains |-> h[d]]
    OBVIOUS
  <1>4. \A d \in Domains : d \notin b.stores \cup ds => h[d] = <<>>
    BY <1>2 DEF Sound, Verify
  <1> HIDE DEF ds, h
  <1>. QED
    BY <1>1, <1>3, <1>4, WithResultsIsSound

LEMMA ImportResultsIsSound ==
  ASSUME NEW b, NEW file, Sound(b)
  PROVE  Sound(ImportResults(b, file))
  <1> DEFINE none == [d \in Domains |-> <<>>]
  <1>1. none = [d \in Domains |-> none[d]] /\ \A d \in Domains : none[d] \in {b.results[d], <<>>}
    OBVIOUS
  <1> HIDE DEF none
  <1>2. Sound(WithResults(b, none))
    BY <1>1, ClearedIsSound
  <1>. QED
    BY <1>2, ImportResultsExportIsSound DEF ImportResults, none

\* Trimming a list that is trimmed changes none of its codes.
LEMMA TrimmedAgain ==
  ASSUME NEW list \in Seq(Codes)
  PROVE  Named(Trimmed(list)) = Named(list)
  <1>1. \A i \in DOMAIN list : Trim(list[i]) = list[i]
    BY DEF Codes
  <1>. QED
    BY <1>1 DEF Named, Trimmed

LEMMA TrimmedIsCodes ==
  ASSUME NEW list \in Seq(Texts)
  PROVE  Trimmed(list) \in Seq(Codes)
  BY StoreAssumption DEF Trimmed

LEMMA ProviderIsSound ==
  ASSUME NEW b, NEW d, NEW list \in Lists, Sound(b)
  PROVE  Sound(ImportProviderCandidates(b, d, list))
  <1> DEFINE sent == Trimmed(list)
             file == [x \in {Trim(d)} |-> sent]
  <1>1. sent \in Seq(Codes)
    BY StoreAssumption, TrimmedIsCodes
  <1>2. Named(Trimmed(sent)) = Named(sent)
    BY <1>1, TrimmedAgain
  <1> HIDE DEF sent
  <1>3. \A x \in DOMAIN file : Named(Trimmed(file[x])) = Named(file[x])
    BY <1>2
  <1> HIDE DEF file
  <1>4. Sound(AddCodes(b, file, "provider"))
    BY <1>3, AddIsSound
  <1>. QED
    BY <1>4 DEF ImportProviderCandidates, file, sent

LEMMA SeedIsSound ==
  ASSUME NEW b, Sound(b)
  PROVE  Sound(ImportSeed(b, Seed))
  <1>1. \A d \in DOMAIN Seed : Named(Trimmed(Seed[d])) = Named(Seed[d])
    <2> SUFFICES ASSUME NEW d \in DOMAIN Seed PROVE Seed[d] \in Seq(Codes)
      BY TrimmedAgain
    <2>. QED
      BY StoreAssumption DEF IsFile
  <1>2. Sound(AddCodes(b, Seed, "seed"))
    BY <1>1, AddIsSound
  <1>. QED
    BY <1>2 DEF ImportSeed

-----------------------------------------------------------------------------
\* Stores and exported files are keyed by known spellings.
Known ==
  /\ db.stores \subseteq Domains
  /\ DOMAIN exports.coupons \subseteq Domains /\ DOMAIN exports.results \subseteq Domains

IInv == Sound(db) /\ Known

\* A file that the import routes may be given names known domains.
LEMMA FilesAreKnown ==
  ASSUME NEW exported, DOMAIN exported \subseteq Domains, NEW lists,
         NEW file \in {exported} \cup UNION {[{d} -> lists] : d \in Domains}
  PROVE  DOMAIN file \subseteq Domains
  <1>1. CASE file = exported
    BY <1>1
  <1>2. CASE file \in UNION {[{d} -> lists] : d \in Domains}
    <2>1. PICK d \in Domains : file \in [{d} -> lists]
      BY <1>2
    <2>. QED
      BY <2>1
  <1>. QED
    BY <1>1, <1>2

LEMMA InitIsSound == Init => IInv
  BY EmptyIsSound DEF Init, IInv, Known, Empty, Nothing

\* It is enough that the tables stay sound, for a step that exports nothing.
LEMMA TablesSuffice ==
  ASSUME IInv, Sound(db'), db'.stores \subseteq Domains, UNCHANGED exports
  PROVE  IInv'
  BY DEF IInv, Known, Sound, Shaped, Agree, Verify, Listed, Claimed

LEMMA WriteKeeps ==
  ASSUME NEW b, NEW ds, IInv, Write(b, ds), Sound(b), b.stores \subseteq Domains
  PROVE  IInv'
  BY TablesSuffice DEF Write

LEMMA StepIsSound == IInv /\ [Next]_vars => IInv'
  <1> SUFFICES ASSUME IInv, [Next]_vars
               PROVE  IInv'
    OBVIOUS
  <1>0. Sound(db) /\ db.stores \subseteq Domains
        /\ DOMAIN exports.coupons \subseteq Domains /\ DOMAIN exports.results \subseteq Domains
    BY DEF IInv, Known
  <1>1. CASE SaveCoupons
    <2>1. PICK d \in Domains, list \in Lists :
            Write(UpsertCouponCodes(db, d, list), {Trim(d)})
      BY <1>1 DEF SaveCoupons
    <2>2. Sound(UpsertCouponCodes(db, d, list))
      BY <1>0, ReplaceIsSound DEF UpsertCouponCodes
    <2>3. UpsertCouponCodes(db, d, list).stores \subseteq Domains
      BY <1>0, StoreAssumption DEF UpsertCouponCodes, ReplaceCodes, UpsertStores
    <2>. QED
      BY <2>1, <2>2, <2>3, WriteKeeps
  <1>2. CASE DeleteCoupons
    <2>1. PICK d \in Domains : db' = DeleteCouponDomain(db, d) /\ UNCHANGED exports
      BY <1>2 DEF DeleteCoupons
    <2>2. Sound(db') /\ db'.stores \subseteq Domains
      BY <1>0, <2>1, DeleteIsSound DEF DeleteCouponDomain
    <2>. QED
      BY <2>1, <2>2, TablesSuffice
  <1>3. CASE PostResult
    <2>1. PICK d \in Domains, r \in Reports : Write(AppendResultRecord(db, d, r), {Lookup(d)})
      BY <1>3 DEF PostResult
    <2>2. Sound(AppendResultRecord(db, d, r))
      BY <1>0, AppendIsSound
    <2>3. AppendResultRecord(db, d, r).stores \subseteq Domains
      BY <1>0, StoreAssumption DEF AppendResultRecord, WithResults, UpsertStores
    <2>. QED
      BY <2>1, <2>2, <2>3, WriteKeeps
  <1>4. CASE DeleteResults
    <2>1. PICK d \in Domains : Write(DeleteResultsForDomain(db, d), {})
      BY <1>4 DEF DeleteResults
    <2>2. Sound(DeleteResultsForDomain(db, d))
      BY <1>0, DeleteResultsIsSound
    <2>3. DeleteResultsForDomain(db, d).stores \subseteq Domains
      BY <1>0 DEF DeleteResultsForDomain, WithResults
    <2>. QED
      BY <2>1, <2>2, <2>3, WriteKeeps
  <1>5. CASE ApplyCoupons
    <2>1. PICK file \in {exports.coupons} \cup UNION {[{d} -> Lists] : d \in Domains} :
            Write(ImportCouponsExport(db, file), DOMAIN file)
      BY <1>5 DEF ApplyCoupons
    <2>2. Sound(ImportCouponsExport(db, file))
      BY <1>0, ReplaceIsSound DEF ImportCouponsExport
    <2>3. DOMAIN file \subseteq Domains
      BY <1>0, FilesAreKnown
    <2>4. ImportCouponsExport(db, file).stores \subseteq Domains
      BY <1>0, <2>3 DEF ImportCouponsExport, ReplaceCodes, UpsertStores
    <2>. QED
      BY <2>1, <2>2, <2>4, WriteKeeps
  <1>6. CASE ApplyResults
    <2>1. PICK file \in {exports.results} \cup
                         UNION {[{d} -> Histories \ {<<>>}] : d \in Domains} :
            Write(ImportResultsExport(db, file), DOMAIN file)
      BY <1>6 DEF ApplyResults
    <2>2. Sound(ImportResultsExport(db, file))
      BY <1>0, ImportResultsExportIsSound
    <2>3. DOMAIN file \subseteq Domains
      BY <1>0, FilesAreKnown
    <2>4. ImportResultsExport(db, file).stores \subseteq Domains
      BY <1>0, <2>3 DEF ImportResultsExport, WithResults, UpsertStores
    <2>. QED
      BY <2>1, <2>2, <2>4, WriteKeeps
  <1>7. CASE ProviderImport
    <2>1. PICK d \in Domains, list \in Lists :
            Write(ImportProviderCandidates(db, d, list), {Trim(d)})
      BY <1>7 DEF ProviderImport
    <2>2. Sound(ImportProviderCandidates(db, d, list))
      BY <1>0, ProviderIsSound
    <2>3. ImportProviderCandidates(db, d, list).stores \subseteq Domains
      BY <1>0, StoreAssumption DEF ImportProviderCandidates, AddCodes, UpsertStores
    <2>. QED
      BY <2>1, <2>2, <2>3, WriteKeeps
  <1>8. CASE ExportCoupons
    <2>1. db' = db /\ exports' = [exports EXCEPT !.coupons = CouponsPayload(db)]
      BY <1>8 DEF ExportCoupons
    <2>2. DOMAIN CouponsPayload(db) \subseteq Domains
      BY <1>0 DEF CouponsPayload
    <2>. QED
      BY <1>0, <2>1, <2>2 DEF IInv, Known
  <1>9. CASE ExportResults
    <2>1. db' = db /\ exports' = [exports EXCEPT !.results = ResultsPayload(db)]
      BY <1>9 DEF ExportResults
    <2>2. DOMAIN ResultsPayload(db) \subseteq Domains
      BY <1>0 DEF ResultsPayload
    <2>. QED
      BY <1>0, <2>1, <2>2 DEF IInv, Known
  <1>10. CASE BootCoupons
    <2>1. db' = BootstrapIfEmpty(db) /\ UNCHANGED exports
      BY <1>10 DEF BootCoupons
    <2>2. Sound(ImportSeed(db, Seed)) /\ ImportSeed(db, Seed).stores \subseteq Domains
      BY <1>0, SeedIsSound, StoreAssumption DEF ImportSeed, AddCodes, UpsertStores, IsFile
    <2>. QED
      BY <1>0, <2>1, <2>2, TablesSuffice DEF BootstrapIfEmpty
  <1>11. CASE BootResults
    <2>1. db' = BootstrapResultsIfEmpty(db) /\ UNCHANGED exports
      BY <1>11 DEF BootResults
    <2>2. Sound(ImportResultsExport(db, SeedHistory))
      BY <1>0, ImportResultsExportIsSound
    <2>3. ImportResultsExport(db, SeedHistory).stores \subseteq Domains
      BY <1>0, StoreAssumption DEF ImportResultsExport, WithResults, UpsertStores, IsFile
    <2>. QED
      BY <1>0, <2>1, <2>2, <2>3, TablesSuffice DEF BootstrapResultsIfEmpty
  <1>12. CASE Stop \/ CliDies
    BY <1>0, <1>12, TablesSuffice DEF Stop, CliDies
  <1>13. CASE Reset
    BY <1>13, EmptyIsSound, TablesSuffice DEF Reset, Empty
  <1>14. CASE CliSeeds
    <2>1. db' = ImportSeed(db, Seed) /\ UNCHANGED exports
      BY <1>14 DEF CliSeeds
    <2>2. Sound(ImportSeed(db, Seed)) /\ ImportSeed(db, Seed).stores \subseteq Domains
      BY <1>0, SeedIsSound, StoreAssumption DEF ImportSeed, AddCodes, UpsertStores, IsFile
    <2>. QED
      BY <2>1, <2>2, TablesSuffice
  <1>15. CASE CliHistory
    <2>1. db' = ImportResults(db, SeedHistory) /\ UNCHANGED exports
      BY <1>15 DEF CliHistory
    <2>2. Sound(ImportResults(db, SeedHistory))
      BY <1>0, ImportResultsIsSound
    <2>3. ImportResults(db, SeedHistory).stores \subseteq Domains
      BY <1>0, StoreAssumption
      DEF ImportResults, ImportResultsExport, WithResults, UpsertStores, IsFile
    <2>. QED
      BY <2>1, <2>2, <2>3, TablesSuffice
  <1>16. CASE UNCHANGED vars
    BY <1>0, <1>16, TablesSuffice DEF vars
  <1>. QED
    BY <1>1, <1>2, <1>3, <1>4, <1>5, <1>6, <1>7, <1>8, <1>9, <1>10, <1>11, <1>12, <1>13, <1>14,
       <1>15, <1>16 DEF Next

THEOREM SoundAlways == Spec => []IInv
  BY InitIsSound, StepIsSound, PTL DEF Spec

\* Provenance agrees with the lists: what CodesAreClaimed says, for any spellings and
\* files (db-sources.ts:365-397, and each of the four ways to list a code).
THEOREM ProvenanceAgrees == Spec => []CodesAreClaimed
  <1>1. IInv => CodesAreClaimed
    BY DEF IInv, Sound, Agree, CodesAreClaimed
  <1>. QED
    BY <1>1, SoundAlways, PTL

\* db:verify passes after any sequence of writes, crashes and resets.
THEOREM VerifyAlwaysPasses == Spec => []VerifyPasses
  <1>1. IInv => VerifyPasses
    BY DEF IInv, Sound, VerifyPasses
  <1>. QED
    BY <1>1, SoundAlways, PTL

-----------------------------------------------------------------------------
(* What each writer leaves alone.                                             *)

LEMMA ListWritersKeepHistory ==
  ASSUME NEW b, NEW d, NEW list, NEW file
  PROVE  /\ UpsertCouponCodes(b, d, list).results = b.results
         /\ ImportProviderCandidates(b, d, list).results = b.results
         /\ ImportCouponsExport(b, file).results = b.results
         /\ ImportSeed(b, file).results = b.results
  BY DEF UpsertCouponCodes, ImportProviderCandidates, ImportCouponsExport, ImportSeed,
         ReplaceCodes, AddCodes, UpsertStores

LEMMA HistoryWritersKeepLists ==
  ASSUME NEW b, NEW d, NEW m, NEW file
  PROVE  /\ AppendResultRecord(b, d, m).codes = b.codes
         /\ AppendResultRecord(b, d, m).claims = b.claims
         /\ DeleteResultsForDomain(b, d).codes = b.codes
         /\ DeleteResultsForDomain(b, d).claims = b.claims
         /\ ImportResultsExport(b, file).codes = b.codes
         /\ ImportResultsExport(b, file).claims = b.claims
         /\ ImportResults(b, file).codes = b.codes
         /\ ImportResults(b, file).claims = b.claims
  BY DEF AppendResultRecord, DeleteResultsForDomain, ImportResultsExport, ImportResults,
         WithResults, UpsertStores

\* No step changes a kept store's list or claims together with its history.
LEMMA StepIsApart ==
  ASSUME IInv, [Next]_vars, NEW d \in db.stores \cap db'.stores
  PROVE  \/ db'.codes[d] = db.codes[d] /\ db'.claims[d] = db.claims[d]
         \/ db'.results[d] = db.results[d]
  <1>0. d \in Domains /\ Shaped(db)
    BY DEF IInv, Known, Sound
  <1>1. CASE SaveCoupons \/ ApplyCoupons \/ ProviderImport
    BY <1>1, ListWritersKeepHistory
    DEF SaveCoupons, ApplyCoupons, ProviderImport, Write
  <1>2. CASE DeleteCoupons
    <2>1. PICK e \in Domains : db' = DeleteCouponDomain(db, e)
      BY <1>2 DEF DeleteCoupons
    <2>2. d # Trim(e)
      BY <2>1 DEF DeleteCouponDomain
    <2>. QED
      BY <1>0, <2>1, <2>2 DEF DeleteCouponDomain, Shaped
  <1>3. CASE PostResult \/ DeleteResults \/ ApplyResults
    <2>1. CASE PostResult
      <3>1. PICK e \in Domains, m \in Reports : db' = AppendResultRecord(db, e, m)
        BY <2>1 DEF PostResult, Write
      <3>. QED
        BY <3>1, HistoryWritersKeepLists
    <2>2. CASE DeleteResults \/ ApplyResults
      BY <2>2, HistoryWritersKeepLists DEF DeleteResults, ApplyResults, Write
    <2>. QED
      BY <1>3, <2>1, <2>2
  <1>4. CASE ExportCoupons \/ ExportResults \/ Stop \/ CliDies \/ UNCHANGED vars
    BY <1>4 DEF ExportCoupons, ExportResults, Stop, CliDies, vars
  <1>5. CASE BootCoupons
    BY <1>5, ListWritersKeepHistory DEF BootCoupons, BootstrapIfEmpty
  <1>6. CASE BootResults
    BY <1>6, HistoryWritersKeepLists DEF BootResults, BootstrapResultsIfEmpty
  <1>7. CASE Reset
    BY <1>7 DEF Reset, Empty
  <1>8. CASE CliSeeds
    BY <1>8, ListWritersKeepHistory DEF CliSeeds
  <1>9. CASE CliHistory
    BY <1>9, HistoryWritersKeepLists DEF CliHistory
  <1>. QED
    BY <1>1, <1>2, <1>3, <1>4, <1>5, <1>6, <1>7, <1>8, <1>9 DEF Next

\* Lists and history are apart for any spellings, files and interleaving of writers
\* (docs/DATABASE_PLAN.md:129).
THEOREM AlwaysApart == Spec => ListsAndHistoryApart
  <1>1. IInv /\ [Next]_vars =>
          [\A d \in db.stores \cap db'.stores :
             \/ db'.codes[d] = db.codes[d] /\ db'.claims[d] = db.claims[d]
             \/ db'.results[d] = db.results[d]]_vars
    BY StepIsApart
  <1>. QED
    BY <1>1, SoundAlways, PTL DEF Spec, ListsAndHistoryApart

\* A start, or a stop, keeps each stored row.
LEMMA StartKeepsRows ==
  ASSUME IInv, [Next]_vars, server' # server, NEW d \in db.stores
  PROVE  /\ d \in db'.stores
         /\ db'.codes[d] = db.codes[d] /\ db'.claims[d] = db.claims[d]
         /\ db.results[d] \in {<<>>, db'.results[d]}
  <1>0. d \in Domains
    BY DEF IInv, Known
  <1>1. BootCoupons \/ BootResults \/ Stop
    BY DEF Next, SaveCoupons, DeleteCoupons, PostResult, DeleteResults, ApplyCoupons,
           ApplyResults, ProviderImport, ExportCoupons, ExportResults, Reset, CliSeeds,
           CliHistory, CliDies, Write, vars
  <1>2. CASE BootCoupons
    BY <1>2 DEF BootCoupons, BootstrapIfEmpty
  <1>3. CASE BootResults /\ NoResults(db)
    BY <1>0, <1>3, HistoryWritersKeepLists
    DEF BootResults, BootstrapResultsIfEmpty, ImportResultsExport, NoResults, WithResults,
        UpsertStores
  <1>4. CASE BootResults /\ ~NoResults(db)
    BY <1>4 DEF BootResults, BootstrapResultsIfEmpty
  <1>5. CASE Stop
    BY <1>5 DEF Stop
  <1>. QED
    BY <1>1, <1>2, <1>3, <1>4, <1>5

\* Starting the server never changes a list or a history that is there, however the
\* last start, reset or bootstrap was cut short.
THEOREM StartsKeepRows == Spec => BootKeepsRows
  <1>1. IInv /\ [Next]_vars =>
          [server' # server =>
             \A d \in db.stores :
               /\ d \in db'.stores
               /\ db'.codes[d] = db.codes[d] /\ db'.claims[d] = db.claims[d]
               /\ db.results[d] \in {<<>>, db'.results[d]}]_vars
    BY StartKeepsRows
  <1>. QED
    BY <1>1, SoundAlways, PTL DEF Spec, BootKeepsRows

-----------------------------------------------------------------------------
(* Imports, done again.                                                     *)

LEMMA ExtendTwice ==
  ASSUME NEW placed, NEW list
  PROVE  Extend(Extend(placed, list), list) = Extend(placed, list)
  <1> DEFINE once == Extend(placed, list)
  <1>1. DOMAIN once = DOMAIN placed \cup Named(list)
    BY ExtendNames
  <1>2. once = [c \in DOMAIN once |-> once[c]]
    BY DEF Extend
  <1> HIDE DEF once
  <1>3. DOMAIN once \cup Named(list) = DOMAIN once
    BY <1>1
  <1>4. Extend(once, list) = [c \in DOMAIN once |-> once[c]]
    BY <1>3 DEF Extend
  <1>. QED
    BY <1>2, <1>4 DEF once

LEMMA AddTwice ==
  ASSUME NEW b, NEW file, NEW source
  PROVE  AddCodes(AddCodes(b, file, source), file, source) = AddCodes(b, file, source)
  <1> DEFINE codes(x) == [d \in Domains |-> IF d \in DOMAIN file THEN Extend(x.codes[d], file[d])
                                          ELSE x.codes[d]]
             claims(x) == [d \in Domains |-> IF d \in DOMAIN file
                             THEN x.claims[d] \cup (Named(Trimmed(file[d])) \X {source})
                             ELSE x.claims[d]]
             once == AddCodes(b, file, source)
  <1>1. \A x : AddCodes(x, file, source) =
               [stores |-> x.stores \cup DOMAIN file, codes |-> codes(x),
                claims |-> claims(x), results |-> x.results]
    BY DEF AddCodes, UpsertStores
  <1>2. once = [stores |-> b.stores \cup DOMAIN file, codes |-> codes(b),
                claims |-> claims(b), results |-> b.results]
    BY <1>1
  <1>3. /\ once.stores = b.stores \cup DOMAIN file /\ once.results = b.results
        /\ once.codes = codes(b) /\ once.claims = claims(b)
    BY <1>2
  <1>4. codes(once) = codes(b)
    BY <1>3, ExtendTwice
  <1>5. claims(once) = claims(b)
    BY <1>3
  <1>6. AddCodes(once, file, source) =
          [stores |-> once.stores \cup DOMAIN file, codes |-> codes(once),
           claims |-> claims(once), results |-> once.results]
    BY <1>1
  <1> HIDE DEF once, codes, claims
  <1>7. once.stores \cup DOMAIN file = b.stores \cup DOMAIN file
    BY <1>3
  <1>8. AddCodes(once, file, source) = once
    BY <1>2, <1>3, <1>4, <1>5, <1>6, <1>7
  <1>. QED
    BY <1>8 DEF once

LEMMA ReplaceTwice ==
  ASSUME NEW b, NEW file, NEW source
  PROVE  ReplaceCodes(ReplaceCodes(b, file, source), file, source)
           = ReplaceCodes(b, file, source)
  <1> DEFINE names(d) == Named(Trimmed(file[d]))
             codes(x) == [d \in Domains |-> IF d \in DOMAIN file
                                          THEN Extend(Nothing, Trimmed(file[d]))
                                          ELSE x.codes[d]]
             claims(x) == [d \in Domains |-> IF d \in DOMAIN file
                             THEN Prune(x.claims[d], names(d)) \cup (names(d) \X {source})
                             ELSE x.claims[d]]
             once == ReplaceCodes(b, file, source)
  <1>1. \A x : ReplaceCodes(x, file, source) =
               [stores |-> x.stores \cup DOMAIN file, codes |-> codes(x),
                claims |-> claims(x), results |-> x.results]
    BY DEF ReplaceCodes, UpsertStores
  <1>2. once = [stores |-> b.stores \cup DOMAIN file, codes |-> codes(b),
                claims |-> claims(b), results |-> b.results]
    BY <1>1
  <1>3. /\ once.stores = b.stores \cup DOMAIN file /\ once.results = b.results
        /\ once.codes = codes(b) /\ once.claims = claims(b)
    BY <1>2
  <1>4. codes(once) = codes(b)
    BY <1>3
  <1>5. claims(once) = claims(b)
    <2>1. ASSUME NEW old, NEW keep
          PROVE  Prune(Prune(old, keep) \cup (keep \X {source}), keep)
                   = Prune(old, keep) \cup (keep \X {source})
      BY DEF Prune
    <2> HIDE DEF names
    <2>2. \A d \in Domains : d \in DOMAIN file =>
            Prune(claims(b)[d], names(d)) \cup (names(d) \X {source}) = claims(b)[d]
      BY <2>1
    <2>. QED
      BY <1>3, <2>2
  <1>6. ReplaceCodes(once, file, source) =
          [stores |-> once.stores \cup DOMAIN file, codes |-> codes(once),
           claims |-> claims(once), results |-> once.results]
    BY <1>1
  <1> HIDE DEF once, codes, claims
  <1>7. once.stores \cup DOMAIN file = b.stores \cup DOMAIN file
    BY <1>3
  <1>8. ReplaceCodes(once, file, source) = once
    BY <1>2, <1>3, <1>4, <1>5, <1>6, <1>7
  <1>. QED
    BY <1>8 DEF once

LEMMA HistoryTwice ==
  ASSUME NEW b, NEW file
  PROVE  ImportResultsExport(ImportResultsExport(b, file), file) = ImportResultsExport(b, file)
  <1> DEFINE results(x) == [d \in Domains |-> IF d \in DOMAIN file THEN file[d] ELSE x.results[d]]
             once == ImportResultsExport(b, file)
  <1>1. \A x : ImportResultsExport(x, file) =
               [stores |-> x.stores \cup DOMAIN file, codes |-> x.codes,
                claims |-> x.claims, results |-> results(x)]
    BY DEF ImportResultsExport, WithResults, UpsertStores
  <1>2. once = [stores |-> b.stores \cup DOMAIN file, codes |-> b.codes,
                claims |-> b.claims, results |-> results(b)]
    BY <1>1
  <1> HIDE DEF once
  <1>3. /\ once.stores = b.stores \cup DOMAIN file /\ once.results = results(b)
        /\ once.codes = b.codes /\ once.claims = b.claims
    BY <1>2
  <1>4. results(once) = results(b) /\ once.stores \cup DOMAIN file = b.stores \cup DOMAIN file
    BY <1>3
  <1>5. ImportResultsExport(once, file) =
          [stores |-> once.stores \cup DOMAIN file, codes |-> once.codes,
           claims |-> once.claims, results |-> results(once)]
    BY <1>1
  <1> HIDE DEF results
  <1>6. ImportResultsExport(once, file) = once
    BY <1>2, <1>3, <1>4, <1>5
  <1>. QED
    BY <1>6 DEF once

\* For any lists, files and histories, whatever the tables hold: an import that is done
\* twice, by a retried request, a nervous operator or a second start, is done once.
THEOREM ImportsRepeatHarmlessly == Spec => []AgainIsNothing
  <1>1. \A d \in Domains, list \in Lists :
          /\ ImportCouponsExport(ImportCouponsExport(db, [x \in {d} |-> list]), [x \in {d} |-> list])
               = ImportCouponsExport(db, [x \in {d} |-> list])
          /\ ImportProviderCandidates(ImportProviderCandidates(db, d, list), d, list)
               = ImportProviderCandidates(db, d, list)
    BY AddTwice, ReplaceTwice DEF ImportCouponsExport, ImportProviderCandidates
  <1>2. \A d \in Domains, list \in Histories :
          ImportResultsExport(ImportResultsExport(db, [x \in {d} |-> list]), [x \in {d} |-> list])
            = ImportResultsExport(db, [x \in {d} |-> list])
    BY HistoryTwice
  <1>3. ImportSeed(ImportSeed(db, Seed), Seed) = ImportSeed(db, Seed)
    BY AddTwice DEF ImportSeed
  <1>4. AgainIsNothing
    BY <1>1, <1>2, <1>3 DEF AgainIsNothing
  <1>. QED
    BY <1>4, PTL

-----------------------------------------------------------------------------
(* The places in a list.                                                    *)

\* A list as the tables keep it: finitely many codes, at the places 1 .. n.
Placed(p) == ListInOrder(p) /\ IsFiniteSet(DOMAIN p)

\* A list that names no code twice.
Distinct(list) ==
  list \in Seq(Codes) /\ \A i, j \in DOMAIN list : list[i] = list[j] => i = j

LEMMA NamedIsFinite ==
  ASSUME NEW S, NEW list \in Seq(S)
  PROVE  IsFiniteSet(Named(list)) /\ Named(list) \subseteq S
<1>1. list \in Surjection(1 .. Len(list), Named(list))
  BY DEF Surjection, Named
<1>2. IsFiniteSet(1 .. Len(list))
  BY FS_Interval
<1>3. IsFiniteSet(Named(list))
  BY <1>1, <1>2, FS_Surjection, Zenon
<1> QED BY <1>3 DEF Named

\* First finds the first place of a code that is named.
LEMMA FirstIsFirst ==
  ASSUME NEW S, NEW list \in Seq(S), NEW c \in Named(list)
  PROVE  /\ First(list, c) \in DOMAIN list /\ list[First(list, c)] = c
         /\ \A j \in DOMAIN list : list[j] = c => First(list, c) <= j
<1> DEFINE at == {i \in DOMAIN list : list[i] = c}
<1>1. at # {} /\ at \subseteq Nat
  BY DEF Named
<1>2. PICK i \in at : \A j \in at : <<j, i>> \notin OpToRel(<, Nat)
  <2>1. \E i \in at : \A j \in at : ~(<<j, i>> \in OpToRel(<, Nat))
    BY <1>1, WFMin, NatLessThanWellFounded, Zenon
  <2> QED BY <2>1
<1>3. \A j \in at : i <= j
  <2>1. \A j \in at : ~(j < i)
    BY <1>1, <1>2, Zenon DEF OpToRel
  <2> QED BY <1>1, <2>1
<1>4. \E k \in DOMAIN list : list[k] = c /\ \A j \in DOMAIN list : list[j] = c => k <= j
  BY <1>2, <1>3
<1> QED BY <1>4 DEF First

\* Extending a list in order leaves it in order.
LEMMA ExtendIsPlaced ==
  ASSUME NEW p, Placed(p), NEW list \in Seq(Codes)
  PROVE  Placed(Extend(p, list))
<1> DEFINE D == DOMAIN p
           N == Named(list)
           fresh(c) == {list[i] : i \in 1 .. First(list, c)} \ D
           n == Cardinality(D)
           q == Extend(p, list)
<1>1. IsFiniteSet(N) /\ N \subseteq Codes /\ IsFiniteSet(D) /\ D \subseteq Codes /\ n \in Nat
  BY NamedIsFinite, FS_CardinalityType DEF Placed, ListInOrder
<1>2. /\ DOMAIN q = D \cup N
      /\ \A c \in D : q[c] = p[c]
      /\ \A c \in N \ D : q[c] = n + Cardinality(fresh(c))
      /\ q = [c \in D \cup N |-> q[c]]
  BY DEF Extend
<1>3. /\ IsFiniteSet(D \cup N) /\ IsFiniteSet(N \ D)
      /\ Cardinality(D \cup N) = n + Cardinality(N \ D)
      /\ Cardinality(N \ D) \in Nat
  <2>1. IsFiniteSet(N \ D) /\ D \cup N = D \cup (N \ D) /\ D \cap (N \ D) = {}
    BY <1>1, FS_Difference
  <2>2. Cardinality(D \cup (N \ D)) = n + Cardinality(N \ D) - Cardinality(D \cap (N \ D))
    BY <1>1, <2>1, FS_Union
  <2>3. Cardinality(D \cap (N \ D)) = 0
    BY <2>1, FS_EmptySet
  <2>4. IsFiniteSet(D \cup N) /\ Cardinality(N \ D) \in Nat
    BY <1>1, <2>1, FS_Union, FS_CardinalityType
  <2>5. Cardinality(D \cup N) = n + Cardinality(N \ D)
    <3>1. Cardinality(D \cup N) = n + Cardinality(N \ D) - 0
      BY <2>1, <2>2, <2>3
    <3> HIDE DEF D, N, n
    <3> QED BY <1>1, <2>4, <3>1
  <2> QED BY <2>1, <2>4, <2>5
<1>4. ASSUME NEW c \in N \ D
      PROVE  /\ c \in fresh(c) /\ fresh(c) \subseteq N \ D
             /\ Cardinality(fresh(c)) \in 1 .. Cardinality(N \ D)
  <2>1. First(list, c) \in DOMAIN list /\ list[First(list, c)] = c
    BY FirstIsFirst
  <2>2. c \in fresh(c)
    BY <2>1
  <2>3. fresh(c) \subseteq N \ D
    BY <2>1 DEF Named
  <2>4. IsFiniteSet(fresh(c)) /\ Cardinality(fresh(c)) <= Cardinality(N \ D)
    BY <1>3, <2>3, FS_Subset
  <2>5. Cardinality(fresh(c)) \in Nat /\ Cardinality(fresh(c)) # 0
    BY <2>2, <2>4, FS_EmptySet, FS_CardinalityType
  <2> QED BY <1>3, <2>2, <2>3, <2>4, <2>5
<1>5. ASSUME NEW c \in N \ D, NEW e \in N \ D, First(list, c) < First(list, e)
      PROVE  Cardinality(fresh(c)) # Cardinality(fresh(e))
  <2>1. /\ First(list, c) \in DOMAIN list /\ First(list, e) \in DOMAIN list
        /\ \A j \in DOMAIN list : list[j] = e => First(list, e) <= j
    BY FirstIsFirst
  <2>2. fresh(c) \subseteq fresh(e)
    BY <1>5, <2>1
  <2>3. e \notin fresh(c)
    BY <1>5, <2>1
  <2>4. e \in fresh(e) /\ IsFiniteSet(fresh(e))
    BY <1>3, <1>4, FS_Subset
  <2> HIDE DEF fresh
  <2> QED BY <2>2, <2>3, <2>4, FS_Subset
<1>6. ASSUME NEW c \in N \ D, NEW e \in N \ D, Cardinality(fresh(c)) = Cardinality(fresh(e))
      PROVE  c = e
  <2>1. /\ First(list, c) \in DOMAIN list /\ list[First(list, c)] = c
        /\ First(list, e) \in DOMAIN list /\ list[First(list, e)] = e
    BY FirstIsFirst
  <2>2. ~(First(list, c) < First(list, e)) /\ ~(First(list, e) < First(list, c))
    BY <1>5, <1>6
  <2>3. First(list, c) = First(list, e)
    BY <2>1, <2>2
  <2> QED BY <2>1, <2>3
<1>7. \A c \in D : p[c] \in 1 .. n /\ \A e \in D : p[c] = p[e] => c = e
  BY DEF Placed, ListInOrder
<1> HIDE DEF q, fresh
<1>8. \A c \in DOMAIN q : q[c] \in 1 .. Cardinality(DOMAIN q)
  <2> SUFFICES ASSUME NEW c \in DOMAIN q
               PROVE  q[c] \in 1 .. Cardinality(DOMAIN q)
    OBVIOUS
  <2>1. CASE c \in D
    BY <1>1, <1>2, <1>3, <1>7, <2>1
  <2>2. CASE c \in N \ D
    <3>1. q[c] = n + Cardinality(fresh(c)) /\ Cardinality(DOMAIN q) = n + Cardinality(N \ D)
      BY <1>2, <1>3, <2>2
    <3>2. Cardinality(fresh(c)) \in 1 .. Cardinality(N \ D)
      BY <1>4, <2>2
    <3> HIDE DEF n, N, D
    <3> QED BY <1>1, <1>3, <3>1, <3>2
  <2> QED BY <1>2, <2>1, <2>2
<1>9. \A c, e \in DOMAIN q : q[c] = q[e] => c = e
  <2> SUFFICES ASSUME NEW c \in DOMAIN q, NEW e \in DOMAIN q, q[c] = q[e]
               PROVE  c = e
    OBVIOUS
  <2>1. CASE c \in D /\ e \in D
    BY <1>2, <1>7, <2>1
  <2>2. CASE c \in N \ D /\ e \in N \ D
    BY <1>1, <1>2, <1>3, <1>4, <1>6, <2>2
  <2>3. CASE c \in D /\ e \in N \ D
    BY <1>1, <1>2, <1>3, <1>4, <1>7, <2>3
  <2>4. CASE e \in D /\ c \in N \ D
    BY <1>1, <1>2, <1>3, <1>4, <1>7, <2>4
  <2> QED BY <1>2, <2>1, <2>2, <2>3, <2>4
<1> QED BY <1>1, <1>2, <1>3, <1>8, <1>9 DEF Placed, ListInOrder, q

\* Each place has its code.
LEMMA EveryPlaceIsTaken ==
  ASSUME NEW p, Placed(p), NEW k \in 1 .. Cardinality(DOMAIN p)
  PROVE  \E c \in DOMAIN p : p[c] = k
<1> DEFINE n == Cardinality(DOMAIN p)
<1>1. n \in Nat /\ IsFiniteSet(DOMAIN p)
  BY FS_CardinalityType DEF Placed
<1>2. IsFiniteSet(1 .. n) /\ Cardinality(1 .. n) = n
  BY <1>1, FS_Interval
<1>3. p \in Injection(DOMAIN p, 1 .. n)
  <2>1. p \in [DOMAIN p -> 1 .. n] /\ \A c, e \in DOMAIN p : p[c] = p[e] => c = e
    BY DEF Placed, ListInOrder
  <2> QED BY <2>1 DEF Injection, IsInjective
<1>4. p \in Surjection(DOMAIN p, 1 .. n)
  BY <1>2, <1>3, FS_Injection
<1> QED BY <1>4 DEF Surjection

\* A list is exported as a sequence of its codes, each once.
LEMMA ExportedIsDistinct ==
  ASSUME NEW p, Placed(p)
  PROVE  Distinct(InOrder(p))
<1> DEFINE n == Cardinality(DOMAIN p)
           s == InOrder(p)
<1>1. n \in Nat
  BY FS_CardinalityType DEF Placed
<1>2. \A k \in 1 .. n : s[k] \in DOMAIN p /\ p[s[k]] = k
  BY EveryPlaceIsTaken DEF InOrder
<1>3. s = [k \in 1 .. n |-> s[k]]
  BY DEF InOrder
<1> HIDE DEF s
<1>4. DOMAIN p \subseteq Codes
  BY DEF Placed, ListInOrder
<1>5. s \in [1 .. n -> Codes]
  BY <1>2, <1>3, <1>4
<1>6. s \in Seq(Codes)
  BY <1>1, <1>5
<1> QED BY <1>2, <1>5, <1>6 DEF Distinct, s

\* A list without repetitions comes back from the tables as it was sent.
LEMMA DistinctComesBack ==
  ASSUME NEW list, Distinct(list)
  PROVE  InOrder(Extend(Nothing, Trimmed(list))) = list
<1> DEFINE p == Extend(Nothing, list)
           n == Len(list)
<1>1. list \in Seq(Codes) /\ n \in Nat /\ DOMAIN list = 1 .. n
  BY DEF Distinct
<1>2. Trimmed(list) = list
  <2>1. \A i \in 1 .. n : Trim(list[i]) = list[i]
    BY <1>1 DEF Codes
  <2> QED BY <1>1, <2>1 DEF Trimmed
<1>3. DOMAIN p = Named(list)
  BY ExtendNames, NothingIsEmpty
<1>4. ASSUME NEW k \in 1 .. n
      PROVE  First(list, list[k]) = k
  <2>1. list[k] \in Named(list)
    BY <1>1 DEF Named
  <2>2. First(list, list[k]) \in DOMAIN list /\ list[First(list, list[k])] = list[k]
    BY <1>1, <2>1, FirstIsFirst
  <2> QED BY <1>1, <2>2 DEF Distinct
<1>5. ASSUME NEW k \in 0 .. n
      PROVE  IsFiniteSet({list[i] : i \in 1 .. k}) /\ Cardinality({list[i] : i \in 1 .. k}) = k
  <2> DEFINE S == {list[i] : i \in 1 .. k}
             f == [i \in 1 .. k |-> list[i]]
  <2>1. f \in Bijection(1 .. k, S)
    <3>1. f \in [1 .. k -> S] /\ \A x \in S : \E i \in 1 .. k : f[i] = x
      BY <1>1
    <3>2. \A i, j \in 1 .. k : f[i] = f[j] => i = j
      BY <1>1 DEF Distinct
    <3> HIDE DEF S, f
    <3> QED BY <3>1, <3>2 DEF Bijection, Injection, IsInjective, Surjection
  <2>2. IsFiniteSet(1 .. k) /\ Cardinality(1 .. k) = k
    BY FS_Interval
  <2> HIDE DEF S, f
  <2>3. IsFiniteSet(S) /\ Cardinality(S) = Cardinality(1 .. k)
    BY <2>1, <2>2, FS_Bijection, Zenon DEF ExistsBijection
  <2> QED BY <2>2, <2>3 DEF S
<1>6. ASSUME NEW k \in 1 .. n
      PROVE  list[k] \in DOMAIN p /\ p[list[k]] = k
  <2>1. list[k] \in Named(list)
    BY <1>1 DEF Named
  <2>2. p[list[k]] = Cardinality(DOMAIN Nothing)
                       + Cardinality({list[i] : i \in 1 .. First(list, list[k])} \ DOMAIN Nothing)
    BY <2>1, NothingIsEmpty DEF Extend
  <2>3. p[list[k]] = Cardinality({}) + Cardinality({list[i] : i \in 1 .. k})
    BY <1>4, <2>2, NothingIsEmpty
  <2>4. Cardinality({list[i] : i \in 1 .. k}) = k
    <3>1. k \in 0 .. n
      BY <1>1
    <3> QED BY <1>5, <3>1, Zenon
  <2>5. p[list[k]] = 0 + k
    BY <2>3, <2>4, FS_EmptySet
  <2> QED BY <1>1, <1>3, <2>1, <2>5
<1>7. Cardinality(DOMAIN p) = n
  <2>1. Named(list) = {list[i] : i \in 1 .. n}
    BY <1>1 DEF Named
  <2> QED BY <1>1, <1>3, <1>5, <2>1
<1> HIDE DEF p
<1>8. ASSUME NEW k \in 1 .. n
      PROVE  (CHOOSE c \in DOMAIN p : p[c] = k) = list[k]
  <2>1. \A c \in DOMAIN p : p[c] = k => c = list[k]
    <3> SUFFICES ASSUME NEW c \in DOMAIN p, p[c] = k PROVE c = list[k]
      OBVIOUS
    <3>1. PICK j \in 1 .. n : c = list[j]
      BY <1>1, <1>3 DEF Named
    <3> QED BY <1>6, <3>1
  <2>2. list[k] \in DOMAIN p /\ p[list[k]] = k
    BY <1>6
  <2> QED BY <2>1, <2>2
<1>9. InOrder(p) = [k \in 1 .. n |-> list[k]]
  BY <1>7, <1>8 DEF InOrder
<1> QED BY <1>1, <1>2, <1>9 DEF p

-----------------------------------------------------------------------------
(* The kinds of the state.                                                  *)

Typed(b) ==
  /\ b.stores \subseteq Domains
  /\ \A d \in Domains : /\ Placed(b.codes[d])
                         /\ b.claims[d] \subseteq Codes \X Sources
                         /\ b.results[d] \in Seq(Reports)

\* What the export wrote: no code twice, and histories.
ExportsTyped ==
  /\ exports = [coupons |-> exports.coupons, results |-> exports.results]
  /\ IsFile(exports.coupons, Seq(Codes))
  /\ \A d \in DOMAIN exports.coupons : Distinct(exports.coupons[d])
  /\ IsFile(exports.results, Seq(Reports))

\* Where the server and the CLI are.
Placeholders ==
  /\ server \in {"down", "booting", "up"}
  /\ cli \in {"idle", "wiped", "seeded"}
  /\ gone \subseteq Domains
  /\ writes \in 0 .. MaxWrites

TypeInv == IInv /\ Typed(db) /\ ExportsTyped /\ Placeholders

LEMMA NothingIsPlaced == Placed(Nothing)
<1>1. DOMAIN Nothing = {} /\ Cardinality({}) = 0 /\ IsFiniteSet({})
  BY NothingIsEmpty, FS_EmptySet
<1>2. Nothing \in [{} -> 1 .. 0]
  BY DEF Nothing
<1> QED BY <1>1, <1>2 DEF Placed, ListInOrder

LEMMA EmptyIsTyped == Typed(Empty)
  BY NothingIsPlaced DEF Typed, Empty

LEMMA ClaimsFit ==
  ASSUME NEW old, old \subseteq Codes \X Sources, NEW names, names \subseteq Codes,
         NEW source \in Sources
  PROVE  /\ old \cup (names \X {source}) \subseteq Codes \X Sources
         /\ Prune(old, names) \cup (names \X {source}) \subseteq Codes \X Sources
<1>1. names \X {source} \subseteq Codes \X Sources
  OBVIOUS
<1>2. Prune(old, names) \subseteq old
  BY DEF Prune
<1> QED BY <1>1, <1>2

LEMMA ReplaceIsTyped ==
  ASSUME NEW b, NEW file, NEW source \in Sources, Typed(b), IsFile(file, Seq(Texts))
  PROVE  Typed(ReplaceCodes(b, file, source))
<1> DEFINE r == ReplaceCodes(b, file, source)
<1>1. /\ r.stores = b.stores \cup DOMAIN file
      /\ r.results = b.results
      /\ \A d \in Domains :
           r.codes[d] = IF d \in DOMAIN file THEN Extend(Nothing, Trimmed(file[d])) ELSE b.codes[d]
      /\ \A d \in Domains :
           r.claims[d] = IF d \in DOMAIN file
                         THEN Prune(b.claims[d], Named(Trimmed(file[d])))
                                \cup (Named(Trimmed(file[d])) \X {source})
                         ELSE b.claims[d]
  BY DEF ReplaceCodes, UpsertStores
<1> HIDE DEF r
<1>2. \A d \in DOMAIN file : Trimmed(file[d]) \in Seq(Codes)
  BY TrimmedIsCodes DEF IsFile
<1>3. r.stores \subseteq Domains
  BY <1>1 DEF Typed, IsFile
<1>4. ASSUME NEW d \in Domains
      PROVE  /\ Placed(r.codes[d])
             /\ r.claims[d] \subseteq Codes \X Sources
             /\ r.results[d] \in Seq(Reports)
  <2>1. r.results[d] \in Seq(Reports)
    BY <1>1 DEF Typed
  <2>2. CASE d \in DOMAIN file
    <3>1. Placed(r.codes[d])
      BY <1>1, <1>2, <2>2, NothingIsPlaced, ExtendIsPlaced
    <3>2. Named(Trimmed(file[d])) \subseteq Codes
      BY <1>2, <2>2, NamedIsFinite
    <3>3. r.claims[d] \subseteq Codes \X Sources
      <4>1. b.claims[d] \subseteq Codes \X Sources
        BY DEF Typed
      <4>2. Prune(b.claims[d], Named(Trimmed(file[d]))) \cup (Named(Trimmed(file[d])) \X {source})
              \subseteq Codes \X Sources
        BY <3>2, <4>1, ClaimsFit
      <4> QED BY <1>1, <2>2, <4>2
    <3> QED BY <2>1, <3>1, <3>3
  <2>3. CASE d \notin DOMAIN file
    BY <1>1, <2>1, <2>3 DEF Typed
  <2> QED BY <2>2, <2>3
<1> QED BY <1>3, <1>4 DEF Typed, r

LEMMA AddIsTyped ==
  ASSUME NEW b, NEW file, NEW source \in Sources, Typed(b), IsFile(file, Seq(Codes))
  PROVE  Typed(AddCodes(b, file, source))
<1> DEFINE r == AddCodes(b, file, source)
<1>1. /\ r.stores = b.stores \cup DOMAIN file
      /\ r.results = b.results
      /\ \A d \in Domains :
           r.codes[d] = IF d \in DOMAIN file THEN Extend(b.codes[d], file[d]) ELSE b.codes[d]
      /\ \A d \in Domains :
           r.claims[d] = IF d \in DOMAIN file
                         THEN b.claims[d] \cup (Named(Trimmed(file[d])) \X {source})
                         ELSE b.claims[d]
  BY DEF AddCodes, UpsertStores
<1> HIDE DEF r
<1>2. \A d \in DOMAIN file : file[d] \in Seq(Codes)
  BY DEF IsFile
<1>3. r.stores \subseteq Domains
  BY <1>1 DEF Typed, IsFile
<1>4. ASSUME NEW d \in Domains
      PROVE  /\ Placed(r.codes[d])
             /\ r.claims[d] \subseteq Codes \X Sources
             /\ r.results[d] \in Seq(Reports)
  <2>1. r.results[d] \in Seq(Reports)
    BY <1>1 DEF Typed
  <2>2. CASE d \in DOMAIN file
    <3>1. Placed(r.codes[d])
      BY <1>1, <1>2, <2>2, ExtendIsPlaced DEF Typed
    <3>2. Named(Trimmed(file[d])) \subseteq Codes
      BY <1>2, <2>2, NamedIsFinite, TrimmedAgain
    <3>3. r.claims[d] \subseteq Codes \X Sources
      <4>1. b.claims[d] \subseteq Codes \X Sources
        BY DEF Typed
      <4>2. b.claims[d] \cup (Named(Trimmed(file[d])) \X {source}) \subseteq Codes \X Sources
        BY <3>2, <4>1, ClaimsFit
      <4> QED BY <1>1, <2>2, <4>2
    <3> QED BY <2>1, <3>1, <3>3
  <2>3. CASE d \notin DOMAIN file
    BY <1>1, <2>1, <2>3 DEF Typed
  <2> QED BY <2>2, <2>3
<1> QED BY <1>3, <1>4 DEF Typed, r

LEMMA DeleteIsTyped ==
  ASSUME NEW b, NEW d \in Domains, Shaped(b), Typed(b)
  PROVE  Typed(DeleteCouponDomain(b, d))
<1> DEFINE r == DeleteCouponDomain(b, d)
<1>1. /\ r.stores = b.stores \ {Trim(d)}
      /\ r.codes = [b.codes EXCEPT ![Trim(d)] = Nothing]
      /\ r.claims = [b.claims EXCEPT ![Trim(d)] = {}]
      /\ r.results = [b.results EXCEPT ![Trim(d)] = <<>>]
  BY DEF DeleteCouponDomain
<1> HIDE DEF r
<1>2. \A e \in Domains :
        /\ r.codes[e] \in {b.codes[e], Nothing}
        /\ r.claims[e] \in {b.claims[e], {}}
        /\ r.results[e] \in {b.results[e], <<>>}
  BY <1>1 DEF Shaped
<1>3. <<>> \in Seq(Reports)
  BY EmptySeq
<1> QED BY <1>1, <1>2, <1>3, NothingIsPlaced DEF Typed, r

LEMMA WithResultsIsTyped ==
  ASSUME NEW b, NEW ds, NEW h, Typed(b), ds \subseteq Domains,
         \A d \in Domains : h[d] \in Seq(Reports)
  PROVE  Typed(WithResults(UpsertStores(b, ds), h)) /\ Typed(WithResults(b, h))
  BY DEF WithResults, UpsertStores, Typed

LEMMA HistoryIsTyped ==
  ASSUME NEW b, NEW file, Typed(b), IsFile(file, Seq(Reports))
  PROVE  Typed(ImportResultsExport(b, file))
<1> DEFINE h == [d \in Domains |->
                   IF d \in DOMAIN file THEN file[d] ELSE UpsertStores(b, DOMAIN file).results[d]]
<1>1. \A d \in Domains : h[d] \in Seq(Reports)
  BY DEF UpsertStores, IsFile, Typed
<1>2. DOMAIN file \subseteq Domains
  BY DEF IsFile
<1> HIDE DEF h
<1>3. Typed(WithResults(UpsertStores(b, DOMAIN file), h))
  BY <1>1, <1>2, WithResultsIsTyped
<1> QED BY <1>3 DEF ImportResultsExport, h

LEMMA ClearedHistoryIsTyped ==
  ASSUME NEW b, NEW file, Typed(b), IsFile(file, Seq(Reports))
  PROVE  Typed(ImportResults(b, file))
<1> DEFINE none == [d \in Domains |-> <<>>]
<1>1. \A d \in Domains : none[d] \in Seq(Reports)
  BY EmptySeq
<1> HIDE DEF none
<1>2. Typed(WithResults(b, none))
  BY <1>1, WithResultsIsTyped
<1> QED BY <1>2, HistoryIsTyped DEF ImportResults, none

\* A file that an import route may be given.
LEMMA FilesAreTyped ==
  ASSUME NEW exported, NEW kept, NEW lists, NEW file,
         IsFile(exported, kept), lists \subseteq kept,
         file = exported \/ \E d \in Domains : file \in [{d} -> lists]
  PROVE  IsFile(file, kept)
<1>1. CASE file = exported
  BY <1>1
<1>2. ASSUME NEW d \in Domains, file \in [{d} -> lists]
      PROVE  IsFile(file, kept)
  BY <1>2 DEF IsFile
<1> QED BY <1>1, <1>2

\* A file of one store.
LEMMA OneStoreIsTyped ==
  ASSUME NEW d \in Domains, NEW lists, NEW list \in lists
  PROVE  IsFile([x \in {d} |-> list], lists)
  BY DEF IsFile

LEMMA InitIsTyped == Init => TypeInv
<1> SUFFICES ASSUME Init PROVE TypeInv
  OBVIOUS
<1>1. IInv /\ Typed(db)
  BY InitIsSound, EmptyIsTyped DEF Init
<1>2. DOMAIN Nothing = {} /\ Nothing \in [DOMAIN Nothing -> Seq(Codes)]
      /\ Nothing \in [DOMAIN Nothing -> Seq(Reports)]
  BY NothingIsEmpty DEF Nothing
<1>3. ExportsTyped
  BY <1>2 DEF Init, ExportsTyped, IsFile
<1>4. Placeholders
  BY StoreAssumption DEF Init, Placeholders
<1> QED BY <1>1, <1>3, <1>4 DEF TypeInv

\* A transaction of an administrator, a visitor or an importer.
LEMMA WriteIsTyped ==
  ASSUME NEW b, NEW ds, ExportsTyped, Placeholders, Write(b, ds), Typed(b)
  PROVE  Typed(db') /\ ExportsTyped' /\ Placeholders'
  BY StoreAssumption DEF Write, ExportsTyped, Placeholders

LEMMA SeedIsTyped ==
  ASSUME NEW b, Typed(b)
  PROVE  Typed(ImportSeed(b, Seed))
  BY StoreAssumption, AddIsTyped DEF ImportSeed, Sources

LEMMA StepIsTyped == TypeInv /\ [Next]_vars => TypeInv'
<1> SUFFICES ASSUME TypeInv, [Next]_vars
             PROVE  Typed(db') /\ ExportsTyped' /\ Placeholders'
  BY StepIsSound DEF TypeInv, Typed, Placed, ListInOrder
<1>0. Typed(db) /\ Shaped(db) /\ ExportsTyped /\ Placeholders
  BY DEF TypeInv, IInv, Sound
<1>1. CASE SaveCoupons
  <2>1. PICK d \in Domains, list \in Lists :
          Write(UpsertCouponCodes(db, d, list), {Trim(d)})
    BY <1>1 DEF SaveCoupons
  <2>2. IsFile([x \in {Trim(d)} |-> list], Seq(Texts))
    BY StoreAssumption, OneStoreIsTyped
  <2>3. Typed(UpsertCouponCodes(db, d, list))
    BY <1>0, <2>2, ReplaceIsTyped DEF UpsertCouponCodes, Sources
  <2> QED BY <1>0, <2>1, <2>3, WriteIsTyped
<1>2. CASE DeleteCoupons
  <2>1. PICK d \in Domains :
          /\ db' = DeleteCouponDomain(db, d) /\ gone' = gone \cup {Trim(d)}
          /\ writes < MaxWrites /\ writes' = writes + 1
          /\ UNCHANGED <<server, cli, exports>>
    BY <1>2 DEF DeleteCoupons
  <2>2. Typed(db')
    BY <1>0, <2>1, DeleteIsTyped
  <2>3. ExportsTyped'
    BY <1>0, <2>1 DEF ExportsTyped
  <2>4. Placeholders'
    BY <1>0, <2>1, StoreAssumption DEF Placeholders
  <2> QED BY <2>2, <2>3, <2>4
<1>3. CASE PostResult
  <2>1. PICK d \in Domains, m \in Reports : Write(AppendResultRecord(db, d, m), {Lookup(d)})
    BY <1>3 DEF PostResult
  <2> DEFINE h == [UpsertStores(db, {Lookup(d)}).results EXCEPT ![Lookup(d)] = Append(@, m)]
  <2>2. \A e \in Domains : h[e] \in Seq(Reports)
    <3>1. h = [db.results EXCEPT ![Lookup(d)] = Append(db.results[Lookup(d)], m)]
      BY DEF UpsertStores
    <3>2. Append(db.results[Lookup(d)], m) \in Seq(Reports)
      BY <1>0, StoreAssumption DEF Typed
    <3> QED BY <1>0, <3>1, <3>2 DEF Typed, Shaped
  <2> HIDE DEF h
  <2>3. Typed(WithResults(UpsertStores(db, {Lookup(d)}), h))
    BY <1>0, <2>2, StoreAssumption, WithResultsIsTyped
  <2>4. Typed(AppendResultRecord(db, d, m))
    BY <2>3 DEF AppendResultRecord, h
  <2> QED BY <1>0, <2>1, <2>4, WriteIsTyped
<1>4. CASE DeleteResults
  <2>1. PICK d \in Domains : Write(DeleteResultsForDomain(db, d), {})
    BY <1>4 DEF DeleteResults
  <2> DEFINE h == [db.results EXCEPT ![Lookup(d)] = <<>>]
  <2>2. \A e \in Domains : h[e] \in Seq(Reports)
    BY <1>0, EmptySeq DEF Typed, Shaped
  <2> HIDE DEF h
  <2>3. Typed(WithResults(db, h))
    BY <1>0, <2>2, WithResultsIsTyped
  <2>4. Typed(DeleteResultsForDomain(db, d))
    BY <2>3 DEF DeleteResultsForDomain, h
  <2> QED BY <1>0, <2>1, <2>4, WriteIsTyped
<1>5. CASE ApplyCoupons
  <2>1. PICK file \in {exports.coupons} \cup UNION {[{d} -> Lists] : d \in Domains} :
          Write(ImportCouponsExport(db, file), DOMAIN file)
    BY <1>5 DEF ApplyCoupons
  <2>2. IsFile(exports.coupons, Seq(Texts))
    <3>1. Codes \subseteq Texts
      BY DEF Codes
    <3>2. Seq(Codes) \subseteq Seq(Texts)
      BY <3>1, SeqMonotonic
    <3> QED BY <1>0, <3>2 DEF ExportsTyped, IsFile
  <2>3. IsFile(file, Seq(Texts))
    <3>1. Lists \subseteq Seq(Texts)
      BY StoreAssumption
    <3>2. file = exports.coupons \/ \E d \in Domains : file \in [{d} -> Lists]
      OBVIOUS
    <3> QED BY <2>2, <3>1, <3>2, FilesAreTyped
  <2>4. Typed(ImportCouponsExport(db, file))
    BY <1>0, <2>3, ReplaceIsTyped DEF ImportCouponsExport, Sources
  <2> QED BY <1>0, <2>1, <2>4, WriteIsTyped
<1>6. CASE ApplyResults
  <2>1. PICK file \in {exports.results} \cup UNION {[{d} -> Histories \ {<<>>}] : d \in Domains} :
          Write(ImportResultsExport(db, file), DOMAIN file)
    BY <1>6 DEF ApplyResults
  <2>2. IsFile(exports.results, Seq(Reports)) /\ Histories \ {<<>>} \subseteq Seq(Reports)
    BY <1>0, StoreAssumption DEF ExportsTyped
  <2>3. IsFile(file, Seq(Reports))
    <3>1. file = exports.results \/ \E d \in Domains : file \in [{d} -> Histories \ {<<>>}]
      OBVIOUS
    <3> QED BY <2>2, <3>1, FilesAreTyped
  <2>4. Typed(ImportResultsExport(db, file))
    BY <1>0, <2>3, HistoryIsTyped
  <2> QED BY <1>0, <2>1, <2>4, WriteIsTyped
<1>7. CASE ProviderImport
  <2>1. PICK d \in Domains, list \in Lists :
          Write(ImportProviderCandidates(db, d, list), {Trim(d)})
    BY <1>7 DEF ProviderImport
  <2>2. Trimmed(list) \in Seq(Codes)
    BY StoreAssumption, TrimmedIsCodes
  <2>3. IsFile([x \in {Trim(d)} |-> Trimmed(list)], Seq(Codes))
    BY <2>2, StoreAssumption, OneStoreIsTyped
  <2>4. Typed(ImportProviderCandidates(db, d, list))
    BY <1>0, <2>3, AddIsTyped DEF ImportProviderCandidates, Sources
  <2> QED BY <1>0, <2>1, <2>4, WriteIsTyped
<1>8. CASE ExportCoupons
  <2>1. /\ exports' = [exports EXCEPT !.coupons = CouponsPayload(db)]
        /\ UNCHANGED <<db, server, cli, gone, writes>>
    BY <1>8 DEF ExportCoupons
  <2>2. /\ exports'.coupons = [d \in db.stores |-> InOrder(db.codes[d])]
        /\ exports'.results = exports.results
        /\ exports' = [coupons |-> exports'.coupons, results |-> exports'.results]
    BY <1>0, <2>1 DEF ExportsTyped, CouponsPayload
  <2>3. \A d \in db.stores : d \in Domains /\ Distinct(InOrder(db.codes[d]))
    BY <1>0, ExportedIsDistinct DEF Typed
  <2>4. ExportsTyped'
    <3>1. db.stores \subseteq Domains /\ DOMAIN exports'.coupons = db.stores
      BY <1>0, <2>2 DEF Typed
    <3>2. \A d \in db.stores : exports'.coupons[d] \in Seq(Codes) /\ Distinct(exports'.coupons[d])
      BY <2>2, <2>3 DEF Distinct
    <3>3. IsFile(exports'.coupons, Seq(Codes))
      BY <2>2, <3>1, <3>2 DEF IsFile
    <3>4. IsFile(exports'.results, Seq(Reports))
      BY <1>0, <2>2 DEF ExportsTyped
    <3> QED BY <2>2, <3>1, <3>2, <3>3, <3>4 DEF ExportsTyped
  <2> QED BY <1>0, <2>1, <2>4 DEF Placeholders
<1>9. CASE ExportResults
  <2>1. /\ exports' = [exports EXCEPT !.results = ResultsPayload(db)]
        /\ UNCHANGED <<db, server, cli, gone, writes>>
    BY <1>9 DEF ExportResults
  <2>2. /\ exports'.results = ResultsPayload(db)
        /\ exports'.coupons = exports.coupons
        /\ exports' = [coupons |-> exports'.coupons, results |-> exports'.results]
    BY <1>0, <2>1 DEF ExportsTyped
  <2>3. IsFile(ResultsPayload(db), Seq(Reports))
    BY <1>0 DEF Typed, ResultsPayload, IsFile
  <2>4. ExportsTyped'
    BY <1>0, <2>2, <2>3 DEF ExportsTyped
  <2> QED BY <1>0, <2>1, <2>4 DEF Placeholders
<1>10. CASE BootCoupons
  <2>1. db' = BootstrapIfEmpty(db) /\ server' = "booting"
        /\ UNCHANGED <<cli, exports, gone, writes>>
    BY <1>10 DEF BootCoupons
  <2>2. Typed(db')
    BY <1>0, <2>1, SeedIsTyped DEF BootstrapIfEmpty
  <2> QED BY <1>0, <2>1, <2>2 DEF ExportsTyped, Placeholders
<1>11. CASE BootResults
  <2>1. db' = BootstrapResultsIfEmpty(db) /\ server' = "up"
        /\ UNCHANGED <<cli, exports, gone, writes>>
    BY <1>11 DEF BootResults
  <2>2. Typed(db')
    BY <1>0, <2>1, HistoryIsTyped, StoreAssumption DEF BootstrapResultsIfEmpty
  <2> QED BY <1>0, <2>1, <2>2 DEF ExportsTyped, Placeholders
<1>12. CASE Stop \/ CliDies
  BY <1>0, <1>12 DEF Stop, CliDies, ExportsTyped, Placeholders
<1>13. CASE Reset
  <2>1. Typed(db')
    BY <1>13, EmptyIsTyped DEF Reset
  <2> QED BY <1>0, <1>13, <2>1, StoreAssumption DEF Reset, ExportsTyped, Placeholders
<1>14. CASE CliSeeds
  <2>1. Typed(db')
    BY <1>0, <1>14, SeedIsTyped DEF CliSeeds
  <2> QED BY <1>0, <1>14, <2>1, StoreAssumption DEF CliSeeds, ExportsTyped, Placeholders
<1>15. CASE CliHistory
  <2>1. Typed(db')
    BY <1>0, <1>15, ClearedHistoryIsTyped, StoreAssumption DEF CliHistory
  <2> QED BY <1>0, <1>15, <2>1 DEF CliHistory, ExportsTyped, Placeholders
<1>16. CASE UNCHANGED vars
  BY <1>0, <1>16 DEF vars, ExportsTyped, Placeholders
<1> QED
  BY <1>1, <1>2, <1>3, <1>4, <1>5, <1>6, <1>7, <1>8, <1>9, <1>10, <1>11, <1>12, <1>13, <1>14,
     <1>15, <1>16 DEF Next

LEMMA TypedAlways == Spec => []TypeInv
  BY InitIsTyped, StepIsTyped, PTL DEF Spec

\* Whatever is saved, imported, seeded or deleted, in whatever order, each list holds its
\* codes at the places 1 .. n, and the tables are of the kinds TypeOK says.
THEOREM TypeCorrect == Spec => []TypeOK
<1>1. TypeInv => TypeOK
  <2> SUFFICES ASSUME TypeInv PROVE TypeOK
    OBVIOUS
  <2>1. Typed(db) /\ Shaped(db) /\ ExportsTyped /\ Placeholders
    BY DEF TypeInv, IInv, Sound
  <2>2. DOMAIN db.codes = Domains
    BY <2>1 DEF Shaped
  <2>3. \A d \in Domains : ListInOrder(db.codes[d])
    BY <2>1 DEF Typed, Placed
  <2>4. db.claims \in [Domains -> SUBSET (Codes \X Sources)] /\ db.results \in [Domains -> Seq(Reports)]
    <3> DEFINE claims == db.claims
               results == db.results
    <3>1. claims = [d \in Domains |-> claims[d]] /\ results = [d \in Domains |-> results[d]]
      BY <2>1 DEF Shaped
    <3>2. \A d \in Domains : claims[d] \in SUBSET (Codes \X Sources) /\ results[d] \in Seq(Reports)
      BY <2>1 DEF Typed
    <3> HIDE DEF claims, results
    <3>3. claims \in [Domains -> SUBSET (Codes \X Sources)] /\ results \in [Domains -> Seq(Reports)]
      BY <3>1, <3>2
    <3> QED BY <3>3 DEF claims, results
  <2> QED BY <2>1, <2>2, <2>3, <2>4 DEF TypeOK, Typed, ExportsTyped, Placeholders
<1> QED BY <1>1, TypedAlways, PTL

\* Importing the last exports gives back the exported lists, in their order, and the
\* exported histories, whatever was written, deleted, reset or cut short since, and
\* touches no other store (docs/SERVER.md:775).
THEOREM ExportsComeBack == Spec => []RestoreGivesBack
<1>1. TypeInv => RestoreGivesBack
  <2> SUFFICES ASSUME TypeInv PROVE RestoreGivesBack
    OBVIOUS
  <2>1. Typed(db) /\ Shaped(db) /\ ExportsTyped
    BY DEF TypeInv, IInv, Sound
  <2> DEFINE once == ImportCouponsExport(db, exports.coupons)
             back == ImportResultsExport(once, exports.results)
  <2>2. /\ once.stores = db.stores \cup DOMAIN exports.coupons
        /\ once.results = db.results
        /\ \A d \in Domains :
             once.codes[d] = IF d \in DOMAIN exports.coupons
                             THEN Extend(Nothing, Trimmed(exports.coupons[d])) ELSE db.codes[d]
    BY DEF ImportCouponsExport, ReplaceCodes, UpsertStores
  <2> HIDE DEF once
  <2>3. /\ back.stores = once.stores \cup DOMAIN exports.results
        /\ back.codes = once.codes
        /\ \A d \in Domains :
             back.results[d] = IF d \in DOMAIN exports.results
                               THEN exports.results[d] ELSE once.results[d]
    BY DEF ImportResultsExport, WithResults, UpsertStores
  <2> HIDE DEF back
  <2>4. back.stores = DOMAIN exports.coupons \cup DOMAIN exports.results \cup db.stores
    BY <2>2, <2>3
  <2>5. ASSUME NEW d \in back.stores
        PROVE  /\ InOrder(back.codes[d]) =
                    IF d \in DOMAIN exports.coupons THEN exports.coupons[d] ELSE InOrder(db.codes[d])
               /\ back.results[d] =
                    IF d \in DOMAIN exports.results THEN exports.results[d] ELSE db.results[d]
    <3>1. d \in Domains
      BY <2>1, <2>4 DEF Typed, ExportsTyped, IsFile
    <3>2. d \in DOMAIN exports.coupons =>
            InOrder(Extend(Nothing, Trimmed(exports.coupons[d]))) = exports.coupons[d]
      BY <2>1, DistinctComesBack DEF ExportsTyped
    <3> QED BY <2>2, <2>3, <3>1, <3>2
  <2> QED BY <2>4, <2>5 DEF RestoreGivesBack, back, once
<1> QED BY <1>1, TypedAlways, PTL
=============================================================================
