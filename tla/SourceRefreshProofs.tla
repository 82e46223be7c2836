------------------------- MODULE SourceRefreshProofs -------------------------
(***************************************************************************)
(* For any stores, answers, callers, faults and bounds: the refresher adds to *)
(* the lists what was offered for them and takes nothing away, leaves what    *)
(* was taken away alone, keeps the interval between its own requests as long  *)
(* as its attempts are logged, and lets no tracked store wait for longer than *)
(* its ticks take.                                                            *)
(***************************************************************************)
EXTENDS SourceRefresh, FiniteSetTheorems, TLAPS

JobTypes == job \in [Flows -> Job \cup {NoJob}]
CacheTypes == cache \in [Keys -> Entry \cup {NoEntry}]

-----------------------------------------------------------------------------
(* Types.                                                                   *)

LEMMA KeysOfDomains == Domains \subseteq Keys
  BY DEF Keys

LEMMA FlowKinds == Scheduler \in Flows /\ Requests \subseteq Flows
  BY DEF Flows

LEMMA Bounds ==
  ASSUME RefreshAssumption
  PROVE  /\ 0 \in 0 .. Timeout /\ 0 \in 0 .. Interval /\ Interval \in 0 .. Interval
         /\ 0 \in 0 .. Horizon /\ Interval \in 0 .. Horizon
         /\ 0 \in 0 .. MaxEdits /\ 0 \in 0 .. MaxCrashes
         /\ \A n \in 0 .. MaxEdits : n < MaxEdits => n + 1 \in 0 .. MaxEdits
         /\ \A n \in 0 .. MaxCrashes : n < MaxCrashes => n + 1 \in 0 .. MaxCrashes
         /\ TTL \in Nat \ {0}
  BY DEF RefreshAssumption

LEMMA Busied ==
  ASSUME JobTypes, NEW f \in Flows, Busy(f)
  PROVE  job[f] \in Job
  BY DEF JobTypes, Busy

LEMMA Logs ==
  ASSUME RefreshAssumption, age \in [Keys -> 0 .. Horizon], NEW k, LogAttempt(k)
  PROVE  age' \in [Keys -> 0 .. Horizon]
  BY DEF LogAttempt, RefreshAssumption

LEMMA Ends ==
  ASSUME TypeOK, NEW f \in Flows, End(f)
  PROVE  /\ job' \in [Flows -> Job \cup {NoJob}]
         /\ todo' \in SUBSET Domains /\ running' \in BOOLEAN
  BY DEF TypeOK, End, TickEnds

LEMMA Records ==
  ASSUME TypeOK, NEW f, NEW o \in {"ok", "empty", "error"}, Record(f, o)
  PROVE  history' \in [Requests -> {"none", "ok", "empty", "error"}]
  BY DEF TypeOK, Record

LEMMA Calls ==
  ASSUME TypeOK, RefreshAssumption,
         NEW f \in Flows, NEW kind \in {"preview", "import", "cli", "tick"},
         NEW d \in Domains, NEW k \in Keys, Call(f, kind, d, k)
  PROVE  /\ source' = "enabled"
         /\ age' \in [Keys -> 0 .. Horizon]
         /\ job' \in [Flows -> Job \cup {NoJob}]
  <1>1. 0 \in 0 .. Timeout /\ {} \in SUBSET Row
    BY DEF RefreshAssumption
  <1>2. CASE Hit(k)
    <2> DEFINE new == IF kind = "preview" THEN NoJob
                      ELSE [kind |-> kind, domain |-> d, key |-> k, stage |-> "import",
                            rows |-> cache[k].rows, waited |-> 0]
    <2>1. cache[k].rows \in SUBSET Row
      BY <1>2 DEF TypeOK, Hit, Entry
    <2>2. new \in Job \cup {NoJob}
      BY <1>1, <2>1 DEF Job
    <2>3. LogAttempt(k) /\ source' = "enabled" /\ job' = [job EXCEPT ![f] = new]
      BY <1>2 DEF Call
    <2> HIDE DEF new
    <2>. QED
      BY <2>2, <2>3, Logs DEF TypeOK
  <1>3. CASE ~Hit(k)
    <2> DEFINE new == [kind |-> kind, domain |-> d, key |-> k, stage |-> "fetching",
                       rows |-> {}, waited |-> 0]
    <2>1. new \in Job
      BY <1>1 DEF Job
    <2>2. job' = [job EXCEPT ![f] = new]
      BY <1>3 DEF Call
    <2>3. age' = age /\ source' = "enabled"
      BY <1>3 DEF Call
    <2> HIDE DEF new
    <2>. QED
      BY <2>1, <2>2, <2>3 DEF TypeOK
  <1>. QED
    BY <1>2, <1>3

LEMMA InitTypes ==
  ASSUME Init, RefreshAssumption
  PROVE  TypeOK
  <1>1. prov \in [Domains -> SUBSET Codes] /\ codes = prov
    BY DEF Init, RefreshAssumption
  <1>. QED
    BY <1>1, Bounds DEF Init, TypeOK

LEMMA AnswerTypes ==
  ASSUME TypeOK, RefreshAssumption, NEW f \in Flows, Answer(f)
  PROVE  TypeOK'
  <1>1. job[f] \in Job
    BY Busied DEF Answer, At, TypeOK, JobTypes
  <1>2. PICK rows \in Answers[job[f].domain] :
          job' = [job EXCEPT ![f].stage = "hash", ![f].rows = rows, ![f].waited = 0]
    BY DEF Answer
  <1>3. rows \in SUBSET Row
    BY <1>1, <1>2 DEF RefreshAssumption, Job
  <1>4. [job[f] EXCEPT !.stage = "hash", !.rows = rows, !.waited = 0] \in Job
    BY <1>1, <1>3, Bounds DEF Job
  <1>5. job' = [job EXCEPT ![f] =
          [job[f] EXCEPT !.stage = "hash", !.rows = rows, !.waited = 0]]
    BY <1>2 DEF TypeOK
  <1>6. age' \in [Keys -> 0 .. Horizon]
    BY Logs DEF Answer, TypeOK
  <1>. QED
    BY <1>4, <1>5, <1>6 DEF TypeOK, Answer, store, tick

LEMMA FailTypes ==
  ASSUME TypeOK, RefreshAssumption, NEW f \in Flows, Fail(f)
  PROVE  TypeOK'
  <1>1. age' \in [Keys -> 0 .. Horizon]
    BY Logs DEF Fail, TypeOK
  <1>. QED
    BY <1>1, Ends, Records DEF TypeOK, Fail, store

LEMMA StoreTypes ==
  ASSUME TypeOK, RefreshAssumption, NEW f \in Flows, Store(f)
  PROVE  TypeOK'
  <1>1. job[f] \in Job
    BY Busied DEF Store, At, TypeOK, JobTypes
  <1>2. NewEntry(job[f].rows) \in Entry
    BY <1>1 DEF NewEntry, Entry, Job, RefreshAssumption
  <1>3. cache' \in [Keys -> Entry \cup {NoEntry}]
    BY <1>2 DEF Store, TypeOK
  <1>4. [job[f] EXCEPT !.stage = "import"] \in Job
    BY <1>1 DEF Job
  <1>5. /\ job' \in [Flows -> Job \cup {NoJob}]
        /\ todo' \in SUBSET Domains /\ running' \in BOOLEAN
    <2>1. CASE End(f)
      BY <2>1, Ends
    <2>2. CASE job' = [job EXCEPT ![f].stage = "import"] /\ UNCHANGED <<todo, running>>
      BY <2>2, <1>4 DEF TypeOK
    <2>. QED
      BY <2>1, <2>2 DEF Store
  <1>. QED
    BY <1>3, <1>5 DEF TypeOK, Store, store

LEMMA ImportTypes ==
  ASSUME TypeOK, RefreshAssumption, NEW f \in Flows, Import(f)
  PROVE  TypeOK'
  <1>1. job[f] \in Job
    BY Busied DEF Import, At, TypeOK, JobTypes
  <1>2. job[f].domain \in Domains /\ Own(job[f].rows, job[f].domain) \subseteq Codes
    BY <1>1 DEF Job, Own, Row
  <1>3. codes' \in [Domains -> SUBSET Codes] /\ prov' \in [Domains -> SUBSET Codes]
    BY <1>2 DEF Import, TypeOK
  <1>4. history' \in [Requests -> {"none", "ok", "empty", "error"}]
    <2>1. PICK o \in {"ok", "empty", "error"} : Record(f, o)
      BY DEF Import
    <2>. QED
      BY <2>1, Records
  <1>5. End(f)
    BY DEF Import
  <1>. QED
    BY <1>3, <1>4, <1>5, Ends DEF TypeOK, Import

LEMMA VisitTypes ==
  ASSUME TypeOK, RefreshAssumption, NEW d \in Domains, Visit(d)
  PROVE  TypeOK'
  <1>1. CASE MayFetch(d)
    <2>1. Call(Scheduler, "tick", d, d)
      BY <1>1 DEF Visit
    <2>2. asked' \in [Domains -> 0 .. Interval]
      BY <1>1, Bounds DEF Visit, TypeOK
    <2>3. /\ source' = "enabled"
          /\ age' \in [Keys -> 0 .. Horizon]
          /\ job' \in [Flows -> Job \cup {NoJob}]
      BY <2>1, Calls, KeysOfDomains, FlowKinds
    <2>. QED
      BY <1>1, <2>2, <2>3 DEF TypeOK, Visit, store
  <1>2. CASE ~MayFetch(d)
    BY <1>2 DEF Visit, TickEnds, TypeOK, store
  <1>. QED
    BY <1>1, <1>2

\* A fetch is cut off before it has waited for longer than Timeout.
LEMMA Waits ==
  ASSUME TypeOK, RefreshAssumption, Pass, NEW f \in Flows, Busy(f)
  PROVE  [job[f] EXCEPT !.waited = @ + 1] \in Job
  <1>1. job[f] \in Job
    BY Busied DEF TypeOK, JobTypes
  <1>2. ~Due(f)
    BY DEF Pass
  <1>3. job[f].waited + 1 \in 0 .. Timeout
    BY <1>1, <1>2 DEF Due, Job, RefreshAssumption
  <1>. QED
    BY <1>1, <1>3 DEF Job

LEMMA PassTypes ==
  ASSUME TypeOK, RefreshAssumption, Pass
  PROVE  TypeOK'
  <1>1. timer' \in 0 .. Interval
    <2>1. /\ timer \in 0 .. Interval /\ Interval \in Nat /\ (up => timer # 0)
          /\ timer' = IF up THEN timer - 1 ELSE timer
      BY DEF Pass, TypeOK, RefreshAssumption
    <2>. QED
      BY <2>1
  <1>2. /\ age' \in [Keys -> 0 .. Horizon]
        /\ asked' \in [Domains -> 0 .. Interval]
    BY DEF Pass, TypeOK, Capped, RefreshAssumption
  <1>3. cache' \in [Keys -> Entry \cup {NoEntry}]
    <2>1. ASSUME NEW k \in Keys, cache[k] # NoEntry, cache[k].left # 1
          PROVE  [cache[k] EXCEPT !.left = @ - 1] \in Entry
      <3>1. cache[k] \in Entry
        BY <2>1 DEF TypeOK
      <3>2. cache[k].left - 1 \in 1 .. TTL
        BY <2>1, <3>1, Bounds DEF Entry
      <3>. QED
        BY <3>1, <3>2 DEF Entry
    <2>. QED
      BY <2>1 DEF Pass
  <1>4. job' \in [Flows -> Job \cup {NoJob}]
    BY Waits DEF Pass
  <1>. QED
    BY <1>1, <1>2, <1>3, <1>4 DEF TypeOK, Pass, store

LEMMA RequestTypes ==
  ASSUME TypeOK, RefreshAssumption, NEW r \in Requests,
         NEW kind \in {"preview", "import", "cli"}, NEW d \in Domains, NEW k \in Keys,
         Request(r, kind, d, k)
  PROVE  TypeOK'
  <1>1. Call(r, kind, d, k)
    BY DEF Request
  <1>2. /\ source' = "enabled"
        /\ age' \in [Keys -> 0 .. Horizon]
        /\ job' \in [Flows -> Job \cup {NoJob}]
    BY <1>1, Calls, FlowKinds
  <1>. QED
    BY <1>2 DEF TypeOK, Request, store, tick

LEMMA OtherTypes ==
  ASSUME TypeOK, RefreshAssumption,
         \/ \E f \in Flows : ImportThrows(f)
         \/ Fire \/ GateThrows \/ Disable \/ Crash \/ Restart
         \/ \E d \in Domains, S \in Edits : Edit(d, S)
  PROVE  TypeOK'
  <1>1. CASE \E f \in Flows : ImportThrows(f)
    BY <1>1, Ends DEF TypeOK, ImportThrows, store
  <1>2. CASE Fire
    BY <1>2, Bounds DEF TypeOK, Fire, TrackedDomains, store
  <1>3. CASE GateThrows
    BY <1>3 DEF TypeOK, GateThrows, store
  <1>4. CASE \E d \in Domains, S \in Edits : Edit(d, S)
    <2>1. PICK d \in Domains, S \in Edits : Edit(d, S)
      BY <1>4
    <2>2. S \in SUBSET Codes
      BY DEF RefreshAssumption
    <2>. QED
      BY <2>1, <2>2, Bounds DEF TypeOK, Edit, tick
  <1>5. CASE Disable
    BY <1>5, Bounds DEF TypeOK, Disable, store, tick
  <1>6. CASE Crash
    BY <1>6, Bounds DEF TypeOK, Crash, store
  <1>7. CASE Restart
    BY <1>7, Bounds DEF TypeOK, Restart, store
  <1>. QED
    BY <1>1, <1>2, <1>3, <1>4, <1>5, <1>6, <1>7

LEMMA StepTypes ==
  ASSUME TypeOK, RefreshAssumption, [Next]_vars
  PROVE  TypeOK'
  <1>1. CASE \E f \in Flows : Flow(f)
    BY <1>1, AnswerTypes, FailTypes, StoreTypes, ImportTypes, OtherTypes DEF Flow
  <1>2. CASE \E r \in Requests, d \in Domains :
               \/ \E k \in Keys : SourcePreview(r, d, k)
               \/ SourceImport(r, d) \/ RunSourceRefresh(r, d)
    BY <1>2, RequestTypes, KeysOfDomains DEF SourcePreview, SourceImport, RunSourceRefresh
  <1>3. CASE \E d \in Domains : Visit(d)
    BY <1>3, VisitTypes
  <1>4. CASE Pass
    BY <1>4, PassTypes
  <1>5. CASE UNCHANGED vars
    BY <1>5 DEF TypeOK, vars, store, tick
  <1>. QED
    BY <1>1, <1>2, <1>3, <1>4, <1>5, OtherTypes DEF Next

\* The state is what its declarations say, whatever is called in whatever order.
THEOREM TypeCorrect == Spec => []TypeOK
  <1>1. Init => TypeOK
    BY InitTypes, RefreshAssumption
  <1>2. TypeOK /\ [Next]_vars => TypeOK'
    BY StepTypes, RefreshAssumption
  <1>. QED
    BY <1>1, <1>2, PTL DEF Spec

-----------------------------------------------------------------------------
(* The tick and its calls.                                                  *)

\* A tick runs as long as it has domains to do, in a server that runs; the scheduler
\* has a call only in a tick, about the store it is named for, and a preview never
\* gets as far as an import.
Ticking ==
  /\ running <=> todo # {}
  /\ running => up
  /\ Busy(Scheduler) =>
       /\ running
       /\ job[Scheduler].kind = "tick"
       /\ job[Scheduler].key = job[Scheduler].domain
  /\ \A f \in Flows : At(f, "import") => job[f].kind # "preview"

\* Rows name codes as the provider offers them, in flight and in the cache.
OfferedRows == {r \in Row : r.code \in Offered[r.domain]}

TrueRows ==
  /\ \A f \in Flows : Busy(f) => job[f].rows \subseteq OfferedRows
  /\ \A k \in Keys : cache[k] # NoEntry => cache[k].rows \subseteq OfferedRows

Inv == TypeOK /\ Ticking /\ TrueRows

\* What a call leaves: nothing, for a preview that hits; or f at its first stage.
LEMMA CallShape ==
  ASSUME TypeOK, NEW f \in Flows, NEW kind, NEW d, NEW k, Call(f, kind, d, k)
  PROVE  /\ \A g \in Flows \ {f} : job'[g] = job[g]
         /\ Busy(f)' => /\ job'[f].kind = kind /\ job'[f].domain = d /\ job'[f].key = k
                        /\ \/ job'[f].stage = "fetching" /\ job'[f].rows = {}
                           \/ kind # "preview" /\ Hit(k) /\ job'[f].rows = cache[k].rows
         /\ ~Hit(k) => age' = age /\ job'[f].stage = "fetching"
  <1>1. CASE Hit(k)
    <2> DEFINE new == IF kind = "preview" THEN NoJob
                      ELSE [kind |-> kind, domain |-> d, key |-> k, stage |-> "import",
                            rows |-> cache[k].rows, waited |-> 0]
    <2>1. job' = [job EXCEPT ![f] = new]
      BY <1>1 DEF Call
    <2>2. job'[f] = new /\ \A g \in Flows \ {f} : job'[g] = job[g]
      <3> HIDE DEF new
      <3>. QED
        BY <2>1 DEF TypeOK
    <2>. QED
      BY <1>1, <2>2 DEF Busy
  <1>2. CASE ~Hit(k)
    <2> DEFINE new == [kind |-> kind, domain |-> d, key |-> k, stage |-> "fetching",
                       rows |-> {}, waited |-> 0]
    <2>1. job' = [job EXCEPT ![f] = new]
      BY <1>2 DEF Call
    <2>2. age' = age
      BY <1>2 DEF Call
    <2>3. job'[f] = new /\ \A g \in Flows \ {f} : job'[g] = job[g]
      <3> HIDE DEF new
      <3>. QED
        BY <2>1 DEF TypeOK
    <2>. QED
      BY <1>2, <2>2, <2>3
  <1>. QED
    BY <1>1, <1>2

LEMMA EndShape ==
  ASSUME TypeOK, NEW f \in Flows, End(f)
  PROVE  /\ ~Busy(f)' /\ \A g \in Flows \ {f} : job'[g] = job[g]
         /\ f # Scheduler => todo' = todo /\ running' = running
         /\ f = Scheduler => (running' <=> todo' # {})
         /\ todo' \subseteq todo
  BY DEF TypeOK, End, TickEnds, Busy

LEMMA PassShape ==
  ASSUME TypeOK, Pass, NEW f \in Flows
  PROVE  /\ Busy(f)' => Busy(f)
         /\ Busy(f) => /\ job'[f].kind = job[f].kind /\ job'[f].domain = job[f].domain
                       /\ job'[f].key = job[f].key /\ job'[f].stage = job[f].stage
                       /\ job'[f].rows = job[f].rows
  <1>1. job'[f] = IF Busy(f) THEN [job[f] EXCEPT !.waited = @ + 1] ELSE NoJob
    BY DEF Pass
  <1>2. Busy(f) => job[f] \in Job
    BY Busied DEF TypeOK, JobTypes
  <1>. QED
    BY <1>1, <1>2 DEF Busy, Job

LEMMA InitTicks ==
  ASSUME Init
  PROVE  Ticking
  BY FlowKinds DEF Init, Ticking, Busy, At

\* A step of one flow's call, which leaves the others theirs.
LEMMA FlowTicks ==
  ASSUME TypeOK, Ticking, NEW f \in Flows, Flow(f)
  PROVE  Ticking'
  <1>1. job[f] \in Job /\ Busy(f)
    BY Busied DEF Flow, Answer, Fail, Store, Import, ImportThrows, At, TypeOK, JobTypes
  <1>2. CASE Answer(f)
    <2>1. PICK rows : job' =
            [job EXCEPT ![f].stage = "hash", ![f].rows = rows, ![f].waited = 0]
      BY <1>2 DEF Answer
    <2>2. /\ job'[f].kind = job[f].kind /\ job'[f].domain = job[f].domain
          /\ job'[f].key = job[f].key /\ job'[f].stage = "hash"
          /\ \A g \in Flows \ {f} : job'[g] = job[g]
      BY <1>1, <2>1 DEF TypeOK, Job
    <2>. QED
      BY <1>1, <1>2, <2>2, FlowKinds DEF Answer, Ticking, Busy, At, tick
  <1>3. ASSUME End(f), up' = up
        PROVE  Ticking'
    <2>1. CASE f = Scheduler
      BY <1>1, <1>3, <2>1, EndShape DEF Ticking, At, Busy
    <2>2. CASE f # Scheduler
      BY <1>1, <1>3, <2>2, EndShape, FlowKinds DEF Ticking, At, Busy
    <2>. QED
      BY <2>1, <2>2
  <1>4. CASE Store(f) /\ ~End(f)
    <2>1. job' = [job EXCEPT ![f].stage = "import"] /\ UNCHANGED <<todo, running, up>>
      BY <1>4 DEF Store
    <2>2. job[f].kind # "preview"
      BY <1>4 DEF Store
    <2>3. /\ job'[f].kind = job[f].kind /\ job'[f].domain = job[f].domain
          /\ job'[f].key = job[f].key
          /\ \A g \in Flows \ {f} : job'[g] = job[g]
      BY <1>1, <2>1 DEF TypeOK, Job
    <2>. QED
      BY <1>1, <2>1, <2>2, <2>3, FlowKinds DEF Ticking, Busy, At
  <1>. QED
    BY <1>2, <1>3, <1>4 DEF Flow, Fail, Store, Import, ImportThrows

LEMMA StepTicks ==
  ASSUME TypeOK, RefreshAssumption, Ticking, [Next]_vars
  PROVE  Ticking'
  <1>1. CASE \E f \in Flows : Flow(f)
    BY <1>1, FlowTicks
  <1>2. ASSUME NEW r \in Requests, NEW kind \in {"preview", "import", "cli"},
               NEW d \in Domains, NEW k \in Keys, Request(r, kind, d, k)
        PROVE  Ticking'
    <2>1. r \in Flows /\ r # Scheduler
      BY FlowKinds DEF RefreshAssumption
    <2>2. Call(r, kind, d, k) /\ UNCHANGED <<running, todo, up>>
      BY <1>2 DEF Request, tick
    <2>. QED
      BY <2>1, <2>2, CallShape, FlowKinds DEF Ticking, Busy, At
  <1>3. ASSUME NEW d \in Domains, Visit(d)
        PROVE  Ticking'
    <2>1. CASE MayFetch(d)
      <3>1. Call(Scheduler, "tick", d, d) /\ UNCHANGED <<running, todo, up>>
        BY <1>3, <2>1 DEF Visit
      <3>. QED
        BY <1>3, <3>1, CallShape, FlowKinds DEF Ticking, Busy, At, Visit, Turn, MidTick
    <2>2. CASE ~MayFetch(d)
      BY <1>3, <2>2, FlowKinds DEF Ticking, Busy, At, Visit, Turn, MidTick, TickEnds
    <2>. QED
      BY <2>1, <2>2
  <1>4. CASE Fire
    BY <1>4 DEF Ticking, Fire, Busy, At, TypeOK
  <1>5. CASE GateThrows
    BY <1>5 DEF Ticking, GateThrows, MidTick, Busy, At
  <1>6. CASE \E d \in Domains, S \in Edits : Edit(d, S)
    BY <1>6 DEF Ticking, Edit, Busy, At, tick
  <1>7. CASE Disable
    BY <1>7 DEF Ticking, Disable, Busy, At, tick
  <1>8. CASE Crash
    BY <1>8, FlowKinds DEF Ticking, Crash, Busy, At
  <1>9. CASE Restart
    BY <1>9 DEF Ticking, Restart, Busy, At
  <1>10. CASE Pass
    <2>1. UNCHANGED <<running, todo, up>>
      BY <1>10 DEF Pass
    <2>. QED
      BY <1>10, <2>1, PassShape, FlowKinds DEF Ticking, At
  <1>11. CASE UNCHANGED vars
    BY <1>11 DEF Ticking, vars, tick, Busy, At
  <1>12. CASE \E r \in Requests, d \in Domains :
               \/ \E k \in Keys : SourcePreview(r, d, k)
               \/ SourceImport(r, d) \/ RunSourceRefresh(r, d)
    BY <1>2, <1>12, KeysOfDomains DEF SourcePreview, SourceImport, RunSourceRefresh
  <1>. QED
    BY <1>1, <1>3, <1>4, <1>5, <1>6, <1>7, <1>8, <1>9, <1>10, <1>11, <1>12 DEF Next

-----------------------------------------------------------------------------
(* What rows say.                                                           *)

LEMMA AnswersAreOffered ==
  ASSUME RefreshAssumption, NEW d \in Domains, NEW rows \in Answers[d]
  PROVE  rows \subseteq OfferedRows
  <1>1. rows \subseteq Row
    BY DEF RefreshAssumption
  <1>2. ASSUME NEW r \in rows
        PROVE  r.code \in Offered[r.domain]
    <2>1. /\ r.domain \in Domains /\ r.code \in Codes
          /\ r = [domain |-> r.domain, code |-> r.code]
      BY <1>1 DEF Row
    <2>. QED
      BY <2>1 DEF Offered
  <1>. QED
    BY <1>1, <1>2 DEF OfferedRows

LEMMA OwnAreOffered ==
  ASSUME NEW rows \in SUBSET OfferedRows, NEW d
  PROVE  Own(rows, d) \subseteq Offered[d] \cap Codes
  BY DEF Own, OfferedRows, Row

LEMMA InitRows ==
  ASSUME Init
  PROVE  TrueRows
  BY DEF Init, TrueRows, Busy

LEMMA FlowRows ==
  ASSUME TypeOK, RefreshAssumption, TrueRows, NEW f \in Flows, Flow(f)
  PROVE  TrueRows'
  <1>1. job[f] \in Job /\ Busy(f)
    BY Busied DEF Flow, Answer, Fail, Store, Import, ImportThrows, At, TypeOK, JobTypes
  <1>2. CASE Answer(f)
    <2>1. PICK rows \in Answers[job[f].domain] : job' =
            [job EXCEPT ![f].stage = "hash", ![f].rows = rows, ![f].waited = 0]
      BY <1>2 DEF Answer
    <2>2. job'[f].rows = rows /\ \A g \in Flows \ {f} : job'[g] = job[g]
      BY <1>1, <2>1 DEF TypeOK, Job
    <2>3. rows \subseteq OfferedRows
      BY <1>1, <2>1, AnswersAreOffered DEF Job
    <2>. QED
      BY <1>2, <2>2, <2>3 DEF Answer, TrueRows, Busy
  <1>3. CASE Fail(f) \/ Import(f) \/ ImportThrows(f)
    BY <1>3, EndShape DEF Fail, Import, ImportThrows, TrueRows, Busy
  <1>4. CASE Store(f)
    <2>1. job[f].rows \subseteq OfferedRows /\ NewEntry(job[f].rows).rows \subseteq OfferedRows
      BY <1>1 DEF TrueRows, NewEntry
    <2>2. \A k \in Keys : cache'[k] # NoEntry => cache'[k].rows \subseteq OfferedRows
      BY <1>4, <2>1 DEF Store, TrueRows, TypeOK
    <2>3. \A g \in Flows : Busy(g)' => job'[g].rows \subseteq OfferedRows
      <3>1. CASE End(f)
        BY <3>1, EndShape DEF TrueRows, Busy
      <3>2. CASE job' = [job EXCEPT ![f].stage = "import"]
        <4>1. job'[f].rows = job[f].rows /\ \A g \in Flows \ {f} : job'[g] = job[g]
          BY <1>1, <3>2 DEF TypeOK, Job
        <4>. QED
          BY <2>1, <4>1 DEF TrueRows, Busy
      <3>. QED
        BY <1>4, <3>1, <3>2 DEF Store
    <2>. QED
      BY <2>2, <2>3 DEF TrueRows
  <1>. QED
    BY <1>2, <1>3, <1>4 DEF Flow

LEMMA CallRows ==
  ASSUME TypeOK, TrueRows, NEW f \in Flows, NEW kind, NEW d, NEW k \in Keys,
         Call(f, kind, d, k), cache' = cache
  PROVE  TrueRows'
  BY CallShape DEF TrueRows, Busy, Hit

LEMMA StepRows ==
  ASSUME TypeOK, RefreshAssumption, TrueRows, [Next]_vars
  PROVE  TrueRows'
  <1>1. CASE \E f \in Flows : Flow(f)
    BY <1>1, FlowRows
  <1>2. CASE \E r \in Requests, d \in Domains :
               \/ \E k \in Keys : SourcePreview(r, d, k)
               \/ SourceImport(r, d) \/ RunSourceRefresh(r, d)
    BY <1>2, CallRows, FlowKinds, KeysOfDomains
    DEF SourcePreview, SourceImport, RunSourceRefresh, Request
  <1>3. ASSUME NEW d \in Domains, Visit(d)
        PROVE  TrueRows'
    BY <1>3, CallRows, FlowKinds, KeysOfDomains DEF Visit, TrueRows, Busy
  <1>4. CASE Crash
    BY <1>4 DEF Crash, TrueRows, Busy
  <1>5. CASE Pass
    <2>1. \A k \in Keys : cache'[k] # NoEntry =>
            cache[k] # NoEntry /\ cache'[k].rows = cache[k].rows
      BY <1>5 DEF Pass, TypeOK, Entry
    <2>. QED
      BY <1>5, <2>1, PassShape DEF TrueRows
  <1>6. CASE \/ Fire \/ GateThrows \/ Disable \/ Restart \/ UNCHANGED vars
            \/ \E d \in Domains, S \in Edits : Edit(d, S)
    BY <1>6 DEF Fire, GateThrows, Disable, Restart, Edit, vars, TrueRows, Busy
  <1>. QED
    BY <1>1, <1>2, <1>3, <1>4, <1>5, <1>6 DEF Next

LEMMA Invariant == Spec => []Inv
  <1>1. Init => Inv
    BY InitTypes, InitTicks, InitRows, RefreshAssumption DEF Inv
  <1>2. Inv /\ [Next]_vars => Inv'
    BY StepTypes, StepTicks, StepRows, RefreshAssumption DEF Inv
  <1>. QED
    BY <1>1, <1>2, PTL DEF Spec

-----------------------------------------------------------------------------
(* The store sees a candidate pool.                                         *)

\* The store changes by an import, by an edit, or not at all.
LEMMA StoreSteps ==
  ASSUME [Next]_vars
  PROVE  \/ \E f \in Flows : Import(f)
         \/ \E d \in Domains, S \in Edits : Edit(d, S)
         \/ UNCHANGED store
  BY DEF Next, Flow, Answer, Fail, Store, ImportThrows, SourcePreview, SourceImport,
         RunSourceRefresh, Request, Fire, GateThrows, Disable, Crash, Restart, Pass, Visit,
         vars

LEMMA ImportLearns ==
  ASSUME Inv, NEW f \in Flows, Import(f)
  PROVE  \E d \in Domains, S \in SUBSET Codes : Pool!Learn(d, S)
  <1>1. Busy(f) /\ job[f] \in Job
    BY Busied DEF Import, At, Inv, TypeOK, JobTypes
  <1>2. job[f].domain \in Domains /\ job[f].rows \subseteq OfferedRows
    BY <1>1 DEF Inv, TrueRows, Job
  <1>3. Own(job[f].rows, job[f].domain) \subseteq Offered[job[f].domain] \cap Codes
    BY <1>2, OwnAreOffered
  <1>4. Pool!Learn(job[f].domain, Own(job[f].rows, job[f].domain))
    BY <1>3 DEF Import, Pool!Learn
  <1>. QED
    BY <1>2, <1>3, <1>4

LEMMA PoolSteps ==
  ASSUME Inv, RefreshAssumption, [Next]_vars
  PROVE  [Pool!Next]_(Pool!vars)
  <1>1. CASE \E f \in Flows : Import(f)
    BY <1>1, ImportLearns DEF Pool!Next
  <1>2. CASE \E d \in Domains, S \in Edits : Edit(d, S)
    <2>1. PICK d \in Domains, S \in Edits : Edit(d, S)
      BY <1>2
    <2>2. S \in SUBSET Codes
      BY DEF RefreshAssumption
    <2>3. Pool!Edit(d, S)
      BY <2>1 DEF Edit, Pool!Edit
    <2>. QED
      BY <2>2, <2>3 DEF Pool!Next
  <1>3. CASE UNCHANGED store
    BY <1>3 DEF store, Pool!vars
  <1>. QED
    BY <1>1, <1>2, <1>3, StoreSteps

\* Whoever triggers it, and however its fetches overlap, fail or are cut short, the
\* refresher does to a store's list what the pool allows.
THEOREM RefreshIsAPool == Spec => ImplementsPool
  <1>1. Init => Pool!Init
    BY RefreshAssumption DEF Init, Pool!Init, RefreshAssumption
  <1>2. Inv /\ [Next]_vars => [Pool!Next]_(Pool!vars)
    BY PoolSteps, RefreshAssumption
  <1>. QED
    BY <1>1, <1>2, Invariant, PTL DEF Spec, ImplementsPool, Pool!Spec

LEMMA PoolKeepsTrue ==
  ASSUME Pool!TypeOK, Pool!ProvenanceIsTrue, [Pool!Next]_(Pool!vars)
  PROVE  (Pool!TypeOK /\ Pool!ProvenanceIsTrue)'
  <1>1. ASSUME NEW d \in Domains, NEW S \in SUBSET Codes, Pool!Learn(d, S)
        PROVE  (Pool!TypeOK /\ Pool!ProvenanceIsTrue)'
    BY <1>1 DEF Pool!TypeOK, Pool!ProvenanceIsTrue, Pool!Learn
  <1>2. ASSUME NEW d \in Domains, NEW S \in SUBSET Codes, Pool!Edit(d, S)
        PROVE  (Pool!TypeOK /\ Pool!ProvenanceIsTrue)'
    BY <1>2 DEF Pool!TypeOK, Pool!ProvenanceIsTrue, Pool!Edit
  <1>3. CASE UNCHANGED Pool!vars
    BY <1>3 DEF Pool!TypeOK, Pool!ProvenanceIsTrue, Pool!vars
  <1>. QED
    BY <1>1, <1>2, <1>3 DEF Pool!Next

\* A code with a provider's provenance is in the list, and the provider did offer it
\* for that store: so for a pool, and so for the refresher.
THEOREM ProvenanceStaysTrue == Spec => []Pool!ProvenanceIsTrue
  <1>1. Pool!Init => Pool!TypeOK /\ Pool!ProvenanceIsTrue
    BY DEF Pool!Init, Pool!TypeOK, Pool!ProvenanceIsTrue
  <1>2. Pool!TypeOK /\ Pool!ProvenanceIsTrue /\ [Pool!Next]_(Pool!vars)
          => (Pool!TypeOK /\ Pool!ProvenanceIsTrue)'
    BY PoolKeepsTrue
  <1>3. Pool!Spec => []Pool!ProvenanceIsTrue
    BY <1>1, <1>2, PTL DEF Pool!Spec
  <1>. QED
    BY <1>3, RefreshIsAPool, PTL DEF ImplementsPool

-----------------------------------------------------------------------------
(* What was taken away.                                                     *)

LEMMA WorkStarts ==
  ASSUME Inv, RefreshAssumption, [Next]_vars, made' = made,
         NEW d \in Domains, prov[d] = {}, ~Working(d)
  PROVE  prov'[d] = {} /\ ~Working(d)'
  <1>0. TypeOK /\ Ticking
    BY DEF Inv
  <1>1. ASSUME NEW f \in Flows, Flow(f)
        PROVE  prov'[d] = {} /\ ~Working(d)'
    <2>1. job[f] \in Job /\ Busy(f)
      BY <1>0, <1>1, Busied
      DEF Flow, Answer, Fail, Store, Import, ImportThrows, At, TypeOK, JobTypes
    <2>2. ASSUME Import(f)
          PROVE  prov'[d] = {}
      <3>1. job[f].domain # d
        BY <1>0, <2>1, <2>2 DEF Import, Working, Ticking
      <3>. QED
        BY <1>0, <2>2, <3>1 DEF Import, TypeOK
    <2>3. prov'[d] = {}
      BY <1>1, <2>2 DEF Flow, Answer, Fail, Store, ImportThrows, store
    <2>4. /\ todo' \subseteq todo
          /\ \A g \in Flows : Busy(g)' =>
               Busy(g) /\ job'[g].kind = job[g].kind /\ job'[g].domain = job[g].domain
      <3>1. CASE End(f)
        BY <1>0, <3>1, EndShape DEF Busy
      <3>2. CASE Answer(f)
        <4>1. PICK rows : job' =
                [job EXCEPT ![f].stage = "hash", ![f].rows = rows, ![f].waited = 0]
          BY <3>2 DEF Answer
        <4>2. /\ job'[f].kind = job[f].kind /\ job'[f].domain = job[f].domain
              /\ \A g \in Flows \ {f} : job'[g] = job[g]
          BY <1>0, <2>1, <4>1 DEF TypeOK, Job
        <4>. QED
          BY <2>1, <3>2, <4>2 DEF Answer, Busy, tick
      <3>3. CASE Store(f) /\ ~End(f)
        <4>1. job' = [job EXCEPT ![f].stage = "import"] /\ todo' = todo
          BY <3>3 DEF Store
        <4>2. /\ job'[f].kind = job[f].kind /\ job'[f].domain = job[f].domain
              /\ \A g \in Flows \ {f} : job'[g] = job[g]
          BY <1>0, <2>1, <4>1 DEF TypeOK, Job
        <4>. QED
          BY <2>1, <4>1, <4>2 DEF Busy
      <3>. QED
        BY <1>1, <3>1, <3>2, <3>3 DEF Flow, Fail, Store, Import, ImportThrows
    <2>. QED
      BY <2>3, <2>4 DEF Working
  <1>2. ASSUME NEW r, NEW kind, NEW e, NEW k, Request(r, kind, e, k)
        PROVE  FALSE
    BY <1>2 DEF Request
  <1>3. ASSUME NEW e \in Domains, Visit(e)
        PROVE  prov'[d] = {} /\ ~Working(d)'
    <2>1. e \in todo /\ prov' = prov
      BY <1>3 DEF Visit, Turn, store
    <2>2. CASE MayFetch(e)
      <3>1. Call(Scheduler, "tick", e, e) /\ todo' = todo
        BY <1>3, <2>2 DEF Visit
      <3>2. /\ \A g \in Flows \ {Scheduler} : job'[g] = job[g]
            /\ Busy(Scheduler)' => job'[Scheduler].domain = e
        BY <1>0, <3>1, CallShape, FlowKinds
      <3>. QED
        BY <2>1, <3>1, <3>2 DEF Working, Busy
    <2>3. CASE ~MayFetch(e)
      BY <1>3, <2>1, <2>3 DEF Visit, TickEnds, Working, Busy
    <2>. QED
      BY <2>2, <2>3
  <1>4. CASE Fire
    BY <1>4 DEF Fire, TrackedDomains, Working, Busy, store
  <1>5. CASE \E e \in Domains, S \in Edits : Edit(e, S)
    BY <1>0, <1>5 DEF Edit, TypeOK, Working, Busy, tick
  <1>6. CASE Crash
    BY <1>6 DEF Crash, Working, Busy, store
  <1>7. CASE Pass
    <2>1. todo' = todo /\ prov' = prov
      BY <1>7 DEF Pass, store
    <2>. QED
      BY <1>0, <1>7, <2>1, PassShape DEF Working
  <1>8. CASE GateThrows \/ Disable \/ Restart \/ UNCHANGED vars
    BY <1>8 DEF GateThrows, Disable, Restart, vars, store, tick, Working, Busy
  <1>. QED
    BY <1>1, <1>2, <1>3, <1>4, <1>5, <1>6, <1>7, <1>8
    DEF Next, SourcePreview, SourceImport, RunSourceRefresh

\* A store whose provider codes were taken away, and for which nothing is under way, is
\* not picked up again by the scheduler, by a preview, or after a restart.
THEOREM ForgottenStaysForgotten == Spec => StaysForgotten
  <1>1. Inv /\ [Next]_vars =>
          [\A d \in Domains : prov[d] = {} /\ ~Working(d) =>
             \/ prov'[d] = {} /\ ~Working(d)'
             \/ made' # made]_vars
    BY WorkStarts, RefreshAssumption
  <1>. QED
    BY <1>1, Invariant, PTL DEF Spec, StaysForgotten

-----------------------------------------------------------------------------
(* The interval between requests.                                           *)

\* Until the interval after a request for d is over, the log shows it, or the request
\* is still out, or no tick can start before then.
Spaced ==
  \A d \in Domains :
    \/ asked[d] = Interval
    \/ age[d] <= asked[d]
    \/ Busy(Scheduler) /\ job[Scheduler].domain = d /\ job[Scheduler].stage = "fetching"
    \/ ~up
    \/ ~running /\ Interval <= asked[d] + timer

LEMMA Ages ==
  ASSUME TypeOK, RefreshAssumption, NEW d \in Domains
  PROVE  age[d] \in Nat /\ asked[d] \in Nat /\ asked[d] <= Interval /\ Interval \in Nat
         /\ timer \in Nat /\ Horizon \in Nat /\ Interval <= Horizon /\ d \in Keys
  BY KeysOfDomains DEF TypeOK, RefreshAssumption

LEMMA LoggedAges ==
  ASSUME TypeOK, RefreshAssumption, "log" \notin Faults, NEW k, LogAttempt(k)
  PROVE  /\ \A d \in Domains : age'[d] = 0 \/ age'[d] = age[d]
         /\ k \in Domains => age'[k] = 0
  BY KeysOfDomains DEF TypeOK, LogAttempt

LEMMA InitSpaced ==
  ASSUME Init
  PROVE  Spaced
  BY DEF Init, Spaced

\* A call's attempt is logged before, or as, its fetch ends.
LEMMA FlowSpaced ==
  ASSUME Inv, RefreshAssumption, "log" \notin Faults, Spaced, NEW f \in Flows, Flow(f)
  PROVE  Spaced'
  <1>0. TypeOK /\ Ticking
    BY DEF Inv
  <1>1. job[f] \in Job /\ Busy(f)
    BY <1>0, Busied
    DEF Flow, Answer, Fail, Store, Import, ImportThrows, At, TypeOK, JobTypes
  <1>2. UNCHANGED <<asked, up, timer>>
    BY DEF Flow, Answer, Fail, Store, Import, ImportThrows, tick
  <1>3. \A d \in Domains : age'[d] = 0 \/ age'[d] = age[d]
    BY <1>0, LoggedAges DEF Flow, Answer, Fail, Store, Import, ImportThrows
  <1>4. CASE f # Scheduler
    <2>1. job'[Scheduler] = job[Scheduler] /\ running' = running
      <3>1. CASE End(f)
        BY <1>0, <1>4, <3>1, EndShape, FlowKinds
      <3>2. CASE ~End(f)
        BY <1>0, <1>4, <3>2, FlowKinds
        DEF Flow, Answer, Fail, Store, Import, ImportThrows, TypeOK, tick
      <3>. QED
        BY <3>1, <3>2
    <2>. QED
      BY <1>0, <1>2, <1>3, <2>1, Ages DEF Spaced, Busy
  <1>5. CASE f = Scheduler
    <2>1. running /\ job[f].key = job[f].domain
      BY <1>0, <1>1, <1>5 DEF Ticking
    <2>2. CASE job[f].stage = "fetching"
      <3>1. LogAttempt(job[f].key)
        BY <2>2 DEF Flow, Answer, Fail, Store, Import, ImportThrows, At
      <3>2. age'[job[f].domain] = 0
        BY <1>0, <1>1, <2>1, <3>1, LoggedAges DEF Job
      <3>. QED
        BY <1>0, <1>2, <1>3, <1>5, <2>1, <3>2, Ages DEF Spaced
    <2>3. CASE job[f].stage # "fetching"
      <3>1. \A d \in Domains : asked[d] = Interval \/ age[d] <= asked[d] \/ ~up
        BY <1>5, <2>1, <2>3 DEF Spaced
      <3>. QED
        BY <1>0, <1>2, <1>3, <3>1, Ages DEF Spaced
    <2>. QED
      BY <2>2, <2>3
  <1>. QED
    BY <1>4, <1>5

LEMMA CallAges ==
  ASSUME TypeOK, RefreshAssumption, "log" \notin Faults,
         NEW f, NEW kind, NEW d, NEW k, Call(f, kind, d, k)
  PROVE  \A e \in Domains : age'[e] = 0 \/ age'[e] = age[e]
  BY LoggedAges DEF Call

LEMMA PassSpaced ==
  ASSUME TypeOK, RefreshAssumption, Spaced, Pass
  PROVE  Spaced'
  <1>1. SUFFICES ASSUME NEW d \in Domains
        PROVE  \/ asked'[d] = Interval
               \/ age'[d] <= asked'[d]
               \/ /\ Busy(Scheduler)' /\ job'[Scheduler].domain = d
                  /\ job'[Scheduler].stage = "fetching"
               \/ ~up'
               \/ ~running' /\ Interval <= asked'[d] + timer'
    BY DEF Spaced
  <1>2. /\ age'[d] = IF age[d] < Horizon THEN age[d] + 1 ELSE Horizon
        /\ asked'[d] = IF asked[d] < Interval THEN asked[d] + 1 ELSE Interval
        /\ up' = up /\ running' = running
        /\ up => timer # 0 /\ timer' = timer - 1
    BY Ages DEF Pass, Capped
  <1>3. Busy(Scheduler) => Busy(Scheduler)'
    BY FlowKinds, AbsenceAssumption, Waits DEF Pass, Busy
  <1>4. Busy(Scheduler) => /\ job'[Scheduler].domain = job[Scheduler].domain
                           /\ job'[Scheduler].stage = job[Scheduler].stage
    BY FlowKinds, PassShape
  <1>5. CASE asked[d] = Interval
    BY <1>2, <1>5
  <1>6. CASE age[d] <= asked[d]
    <2>1. asked'[d] = Interval \/ age'[d] <= asked'[d]
      BY <1>2, <1>6, Ages
    <2>. QED
      BY <2>1
  <1>7. CASE /\ Busy(Scheduler) /\ job[Scheduler].domain = d
             /\ job[Scheduler].stage = "fetching"
    BY <1>3, <1>4, <1>7
  <1>8. CASE ~up
    BY <1>2, <1>8
  <1>9. CASE up /\ ~running /\ Interval <= asked[d] + timer
    <2>1. asked'[d] = Interval \/ Interval <= asked'[d] + timer'
      BY <1>2, <1>9, Ages
    <2>. QED
      BY <1>2, <1>9, <2>1
  <1>. QED
    BY <1>5, <1>6, <1>7, <1>8, <1>9 DEF Spaced

LEMMA StepSpaced ==
  ASSUME Inv, RefreshAssumption, "log" \notin Faults, Spaced, [Next]_vars
  PROVE  Spaced'
  <1>0. TypeOK /\ Ticking
    BY DEF Inv
  <1>1. CASE \E f \in Flows : Flow(f)
    BY <1>1, FlowSpaced
  <1>2. ASSUME NEW r \in Requests, NEW kind, NEW d, NEW k, Request(r, kind, d, k)
        PROVE  Spaced'
    <2>1. r # Scheduler /\ Call(r, kind, d, k) /\ UNCHANGED <<tick, up, asked>>
      BY <1>2 DEF Request, RefreshAssumption
    <2>2. job'[Scheduler] = job[Scheduler]
      BY <1>0, <2>1, CallShape, FlowKinds
    <2>3. \A e \in Domains : age'[e] = 0 \/ age'[e] = age[e]
      BY <1>0, <2>1, CallAges
    <2>. QED
      BY <1>0, <2>1, <2>2, <2>3, Ages DEF Spaced, Busy, tick
  <1>3. ASSUME NEW d \in Domains, Visit(d)
        PROVE  Spaced'
    <2>1. running /\ up /\ ~Busy(Scheduler) /\ UNCHANGED <<up, timer>>
      BY <1>0, <1>3 DEF Visit, Turn, MidTick, Ticking
    <2>2. CASE MayFetch(d)
      <3>1. /\ Call(Scheduler, "tick", d, d) /\ running' = running
            /\ asked' = [asked EXCEPT ![d] = 0]
        BY <1>3, <2>2 DEF Visit
      <3>2. ~Hit(d)
        BY <2>2 DEF MayFetch, Hit
      <3>3. age' = age /\ job'[Scheduler].stage = "fetching"
        BY <1>0, <3>1, <3>2, CallShape, FlowKinds
      <3>4. job'[Scheduler] = [kind |-> "tick", domain |-> d, key |-> d,
                               stage |-> "fetching", rows |-> {}, waited |-> 0]
        BY <1>0, <3>1, <3>2, FlowKinds DEF Call, TypeOK
      <3>5. Busy(Scheduler)' /\ job'[Scheduler].domain = d
        BY <3>4, AbsenceAssumption, Bounds, KeysOfDomains DEF Busy, Job
      <3>6. \A e \in Domains \ {d} : asked'[e] = asked[e]
        BY <1>0, <3>1 DEF TypeOK
      <3>. QED
        BY <2>1, <3>1, <3>3, <3>5, <3>6 DEF Spaced
    <2>3. CASE ~MayFetch(d)
      BY <1>3, <2>1, <2>3 DEF Visit, Spaced, Busy
    <2>. QED
      BY <2>2, <2>3
  <1>4. CASE Fire
    <2>1. up /\ timer = 0 /\ UNCHANGED <<asked, age, job, up>>
      BY <1>4 DEF Fire
    <2>. QED
      BY <1>0, <1>4, <2>1, Ages DEF Fire, Spaced, Busy, Ticking
  <1>5. CASE GateThrows
    BY <1>0, <1>5 DEF GateThrows, MidTick, Spaced, Busy, Ticking
  <1>6. CASE Crash
    BY <1>6 DEF Crash, Spaced
  <1>7. CASE Restart
    BY <1>0, <1>7, Ages DEF Restart, Spaced, Ticking
  <1>8. CASE Pass
    BY <1>0, <1>8, PassSpaced
  <1>9. CASE \/ Disable \/ UNCHANGED vars
            \/ \E d \in Domains, S \in Edits : Edit(d, S)
    BY <1>9 DEF Disable, Edit, vars, tick, Spaced, Busy
  <1>. QED
    BY <1>1, <1>2, <1>3, <1>4, <1>5, <1>6, <1>7, <1>8, <1>9
    DEF Next, SourcePreview, SourceImport, RunSourceRefresh

LEMMA AsksInTime ==
  ASSUME Inv, RefreshAssumption, Spaced, [Next]_vars, ~Busy(Scheduler), Busy(Scheduler)'
  PROVE  asked[job'[Scheduler].domain] = Interval
  <1>0. TypeOK /\ Ticking
    BY DEF Inv
  <1>1. ASSUME NEW f \in Flows, Flow(f)
        PROVE  FALSE
    <2>1. f # Scheduler
      BY <1>1 DEF Flow, Answer, Fail, Store, Import, ImportThrows, At
    <2>2. job'[Scheduler] = job[Scheduler]
      <3>1. CASE End(f)
        BY <1>0, <2>1, <3>1, EndShape, FlowKinds
      <3>2. CASE ~End(f)
        BY <1>0, <1>1, <2>1, <3>2, FlowKinds
        DEF Flow, Answer, Fail, Store, Import, ImportThrows, TypeOK
      <3>. QED
        BY <3>1, <3>2
    <2>. QED
      BY <2>2 DEF Busy
  <1>2. ASSUME NEW r \in Requests, NEW kind, NEW d, NEW k, Request(r, kind, d, k)
        PROVE  FALSE
    <2>1. r # Scheduler /\ Call(r, kind, d, k)
      BY <1>2 DEF Request, RefreshAssumption
    <2>. QED
      BY <1>0, <2>1, CallShape, FlowKinds DEF Busy
  <1>3. PICK d \in Domains : Visit(d)
    <2>1. CASE Pass
      BY <1>0, <2>1, PassShape, FlowKinds
    <2>2. CASE Crash
      BY <2>2, FlowKinds DEF Crash, Busy
    <2>3. CASE \/ Fire \/ GateThrows \/ Disable \/ Restart \/ UNCHANGED vars
              \/ \E d \in Domains, S \in Edits : Edit(d, S)
      BY <2>3 DEF Fire, GateThrows, Disable, Restart, Edit, vars, Busy
    <2>. QED
      BY <1>1, <1>2, <2>1, <2>2, <2>3
      DEF Next, SourcePreview, SourceImport, RunSourceRefresh
  <1>4. MayFetch(d) /\ Call(Scheduler, "tick", d, d)
    BY <1>3 DEF Visit, Busy
  <1>5. job'[Scheduler].domain = d
    BY <1>0, <1>4, CallShape, FlowKinds
  <1>6. running /\ up /\ age[d] >= Interval
    BY <1>0, <1>3, <1>4 DEF Visit, Turn, MidTick, Ticking, MayFetch
  <1>. QED
    BY <1>0, <1>5, <1>6, Ages DEF Spaced

\* While attempts can be logged, the scheduler asks for a store at most once an
\* interval, across slow and failing fetches, other callers' attempts, and restarts.
THEOREM SchedulerIsSpaced ==
  ASSUME "log" \notin Faults
  PROVE  Spec => SchedulerSpacing
  <1>1. Init => Spaced
    BY InitSpaced
  <1>2. Inv /\ Spaced /\ [Next]_vars => Spaced'
    BY StepSpaced, RefreshAssumption
  <1>3. Inv /\ Spaced /\ [Next]_vars =>
          [~Busy(Scheduler) /\ Busy(Scheduler)' =>
             asked[job'[Scheduler].domain] = Interval]_vars
    BY AsksInTime, RefreshAssumption
  <1>. QED
    BY <1>1, <1>2, <1>3, Invariant, PTL DEF Spec, SchedulerSpacing

-----------------------------------------------------------------------------
(* How long a tracked store goes without an attempt.                        *)

\* The time the fetches of a set of stores may take, one after the other.
Cost(S) == Timeout * Cardinality(S)

LEMMA Positions ==
  ASSUME NEW d \in Domains
  PROVE  Position(d) \in Nat /\ DomainOrder[Position(d)] = d
  BY OrderAssumption DEF Position

\* The stores are ordered, so they are finitely many.
LEMMA FiniteDomains == IsFiniteSet(Domains)
  <1>1. Len(DomainOrder) \in Nat /\ DomainOrder \in [1 .. Len(DomainOrder) -> Domains]
    BY OrderAssumption
  <1>2. IsFiniteSet(1 .. Len(DomainOrder))
    BY <1>1, FS_Interval
  <1>3. DomainOrder \in Surjection(1 .. Len(DomainOrder), Domains)
    BY <1>1, OrderAssumption DEF Surjection
  <1>. QED
    BY <1>2, <1>3, FS_Surjection

LEMMA Sized ==
  ASSUME RefreshAssumption, NEW S \in SUBSET Domains
  PROVE  IsFiniteSet(S) /\ Cardinality(S) \in Nat /\ Timeout \in Nat
  BY FiniteDomains, FS_Subset, FS_CardinalityType DEF RefreshAssumption

LEMMA CostOfNone ==
  ASSUME RefreshAssumption
  PROVE  Cost({}) = 0
  BY FS_EmptySet DEF Cost, RefreshAssumption

LEMMA Costs ==
  ASSUME RefreshAssumption, NEW S \in SUBSET Domains
  PROVE  Cost(S) \in Nat
  BY Sized DEF Cost

LEMMA CostOfOne ==
  ASSUME RefreshAssumption, NEW d
  PROVE  Cost({d}) = Timeout
  <1>1. Cardinality({d}) = 1
    BY FS_Singleton, Zenon
  <1>2. \A t \in Nat : t * 1 = t
    OBVIOUS
  <1>. QED
    BY <1>1, <1>2 DEF Cost, RefreshAssumption

LEMMA Cheaper ==
  ASSUME RefreshAssumption, NEW S \in SUBSET Domains, NEW R \in SUBSET S
  PROVE  Cost(R) <= Cost(S)
  <1>1. Cardinality(R) <= Cardinality(S)
    BY Sized, FS_Subset
  <1>2. \A m, n, t \in Nat : m <= n => t * m <= t * n
    OBVIOUS
  <1>3. Cardinality(R) \in Nat /\ Cardinality(S) \in Nat /\ Timeout \in Nat
    BY Sized
  <1>. QED
    BY <1>1, <1>2, <1>3 DEF Cost

LEMMA OneFewer ==
  ASSUME RefreshAssumption, NEW S \in SUBSET Domains, NEW d \in S
  PROVE  Cost(S \ {d}) = Cost(S) - Timeout
  <1>1. Cardinality(S \ {d}) = Cardinality(S) - 1
    BY Sized, FS_RemoveElement
  <1>2. \A n \in Nat, t \in Nat : t * (n - 1) = t * n - t
    OBVIOUS
  <1>3. Cardinality(S) \in Nat /\ Timeout \in Nat
    BY Sized
  <1>. QED
    BY <1>1, <1>2, <1>3 DEF Cost

LEMMA Apart ==
  ASSUME RefreshAssumption, NEW S \in SUBSET Domains, NEW R \in SUBSET Domains,
         S \cap R = {}
  PROVE  Cost(S) + Cost(R) <= Cost(Domains)
  <1>1. S \cup R \in SUBSET Domains /\ Cardinality(S \cap R) = 0
    BY FS_EmptySet
  <1>2. Cardinality(S \cup R) = Cardinality(S) + Cardinality(R)
    <2>1. /\ IsFiniteSet(S) /\ Cardinality(S) \in Nat
          /\ IsFiniteSet(R) /\ Cardinality(R) \in Nat
      BY Sized
    <2>2. Cardinality(S \cup R) = Cardinality(S) + Cardinality(R) - Cardinality(S \cap R)
      BY <2>1, FS_Union
    <2>. QED
      BY <1>1, <2>1, <2>2
  <1>3. \A m, n, t \in Nat : t * (m + n) = t * m + t * n
    OBVIOUS
  <1>4. Cardinality(R) \in Nat /\ Cardinality(S) \in Nat /\ Timeout \in Nat
    BY Sized
  <1>5. Cost(S \cup R) = Cost(S) + Cost(R)
    BY <1>2, <1>3, <1>4 DEF Cost
  <1>6. Cost(S \cup R) <= Cost(Domains)
    BY <1>1, Cheaper
  <1>. QED
    BY <1>5, <1>6

\* How far the tick is with the store it is at.
Wait ==
  IF ~Busy(Scheduler) THEN 0
  ELSE IF job[Scheduler].stage = "fetching" THEN job[Scheduler].waited ELSE Timeout

\* The stores the tick does before it is done with d; those it may do after d.
Upto(d)  == {e \in todo : Position(e) <= Position(d)}
After(d) == {e \in Domains : Position(d) < Position(e)}

\* The longest a store may wait that the tick has not to do, till the tick ends;
\* and the longest any may.
Reach(d) == Larger(Interval + Cost(After(d)), Cost(Domains) - Timeout)
Longest  == Interval + Cost(Domains) + Larger(Interval, Cost(Domains) - Timeout)

\* Nothing of a source that was never there; a server that never crashed is up; what
\* was answered has been logged; what is cached is as old as its entry is worn; the
\* tick is at the first of the stores it has to do.
Sound ==
  /\ source = "absent" => \A d \in Domains : prov[d] = {}
  /\ crashes = 0 => up
  /\ \A f \in Flows : Busy(f) /\ job[f].stage # "fetching" => age[job[f].key] = 0
  /\ \A f \in Flows : Busy(f) /\ job[f].kind # "preview" => job[f].key = job[f].domain
  /\ \A k \in Keys : cache[k] # NoEntry => age[k] + cache[k].left <= TTL
  /\ Busy(Scheduler) =>
       /\ job[Scheduler].domain \in todo
       /\ \A e \in todo : Position(job[Scheduler].domain) <= Position(e)

\* A store is due as soon as the tick has done those before it; one the tick is done
\* with, or passed over, waits for the rest of the tick and for the next.
Fresh(d) ==
  /\ d \in todo => age[d] + Cost(Upto(d)) <= Longest + Wait
  /\ running /\ d \notin todo => age[d] + Cost(todo) <= Reach(d) + Wait
  /\ ~running => age[d] + timer <= Reach(d) + Interval

Warm == crashes = 0 => \A d \in Domains : prov[d] # {} => Fresh(d)

\* What the bounds are computed from: what each time is, and how they compare.
Measured(d) ==
  /\ age[d] \in Nat /\ timer \in Nat /\ timer <= Interval
  /\ Interval \in Nat /\ Timeout \in Nat
  /\ todo \in SUBSET Domains /\ Upto(d) \in SUBSET Domains
  /\ Cost(todo) \in Nat /\ Cost(Upto(d)) \in Nat
  /\ Cost(Upto(d)) <= Cost(Domains)
  /\ d \notin todo => Cost(todo) + Timeout <= Cost(Domains)
  /\ Wait \in Nat /\ Wait <= Timeout

Compared(d) ==
  /\ Interval \in Nat /\ Timeout \in Nat /\ Cost(Domains) \in Nat
  /\ Cost(After(d)) \in Nat /\ Cost(After(d)) + Timeout <= Cost(Domains)
  /\ Reach(d) \in Int /\ Interval + Cost(After(d)) <= Reach(d)
  /\ Cost(Domains) - Timeout <= Reach(d)
  /\ Longest \in Int /\ Cost(Domains) <= Longest
  /\ Reach(d) + Interval + Cost(Domains) - Cost(After(d)) <= Longest

LEMMA Measures ==
  ASSUME TypeOK, RefreshAssumption, NEW d \in Domains
  PROVE  Measured(d)
  <1>1. /\ age[d] \in Nat /\ timer \in Nat /\ timer <= Interval
        /\ Interval \in Nat /\ Timeout \in Nat /\ todo \in SUBSET Domains
    BY KeysOfDomains DEF TypeOK, RefreshAssumption
  <1>2. Cost({d}) = Timeout /\ {d} \in SUBSET Domains
    BY CostOfOne
  <1>3. Cost(todo) \in Nat
    BY <1>1, Costs
  <1>4. d \notin todo => Cost(todo) + Timeout <= Cost(Domains)
    BY <1>1, <1>2, Apart
  <1>5. Upto(d) \in SUBSET Domains
    BY <1>1 DEF Upto
  <1>6. Cost(Upto(d)) \in Nat /\ Cost(Upto(d)) <= Cost(Domains)
    BY <1>5, Costs, Cheaper
  <1>7. Wait \in Nat /\ Wait <= Timeout
    <2>1. Busy(Scheduler) => job[Scheduler] \in Job
      BY FlowKinds, Busied DEF TypeOK, JobTypes
    <2>. QED
      BY <1>1, <2>1 DEF Wait, Job
  <1>. QED
    BY <1>1, <1>3, <1>4, <1>5, <1>6, <1>7 DEF Measured

LEMMA Compares ==
  ASSUME RefreshAssumption, NEW d \in Domains
  PROVE  Compared(d)
  <1> DEFINE all == Cost(Domains)
             rest == Cost(After(d))
             t == Timeout
             i == Interval
  <1>1. i \in Nat /\ t \in Nat
    BY DEF RefreshAssumption
  <1>2. Cost({d}) = t /\ {d} \in SUBSET Domains
    BY CostOfOne
  <1>3. After(d) \in SUBSET Domains /\ After(d) \cap {d} = {}
    BY Positions DEF After
  <1>4. all \in Nat
    BY Costs
  <1>5. rest \in Nat
    BY <1>3, Costs
  <1>6. rest + t <= all
    BY <1>2, <1>3, Apart
  <1>7. Reach(d) = Larger(i + rest, all - t) /\ Longest = i + all + Larger(i, all - t)
    BY DEF Reach, Longest
  <1> HIDE DEF all, rest, t, i
  <1>8. /\ Reach(d) \in Int /\ i + rest <= Reach(d) /\ all - t <= Reach(d)
        /\ Longest \in Int /\ all <= Longest
        /\ Reach(d) + i + all - rest <= Longest
    BY <1>1, <1>4, <1>5, <1>6, <1>7 DEF Larger
  <1>. QED
    BY <1>1, <1>4, <1>5, <1>6, <1>8 DEF Compared, all, rest, t, i

LEMMA WarmEnough ==
  ASSUME Inv, Warm, RefreshAssumption
  PROVE  KeepsWarm
  <1>1. SUFFICES ASSUME NEW d \in Domains, Fresh(d)
                 PROVE  age[d] <= Interval + Cardinality(Domains) * Timeout
                          + Larger(Interval, (Cardinality(Domains) - 1) * Timeout)
    BY DEF Warm, KeepsWarm
  <1>2. Measured(d) /\ Compared(d) /\ (running <=> todo # {})
    BY Measures, Compares DEF Inv, Ticking
  <1>3. Cost(Domains) = Cardinality(Domains) * Timeout
        /\ Cost(Domains) - Timeout = (Cardinality(Domains) - 1) * Timeout
    <2> DEFINE n == Cardinality(Domains)
    <2>1. \A m, t \in Nat : t * m = m * t /\ t * m - t = (m - 1) * t
      OBVIOUS
    <2>2. Cost(Domains) = Timeout * n /\ n \in Nat /\ Timeout \in Nat
      BY Sized DEF Cost
    <2> HIDE DEF n
    <2>3. Timeout * n = n * Timeout /\ Timeout * n - Timeout = (n - 1) * Timeout
      BY <2>1, <2>2
    <2>. QED
      BY <2>2, <2>3 DEF n
  <1>4. SUFFICES age[d] <= Longest
    BY <1>3 DEF Longest
  <1>5. /\ age[d] \in Nat /\ Wait \in Nat /\ Wait <= Timeout /\ Timeout \in Nat
        /\ Reach(d) \in Int /\ Longest \in Int /\ timer \in Nat /\ Interval \in Nat
        /\ Cost(Upto(d)) \in Nat /\ Cost(todo) \in Nat /\ Cost(Domains) \in Nat
        /\ Cost(After(d)) \in Nat /\ Cost(After(d)) <= Cost(Domains)
        /\ Reach(d) + Interval + Cost(Domains) - Cost(After(d)) <= Longest
    BY <1>2 DEF Measured, Compared
  <1>6. \A S \in SUBSET Domains : \A e \in S : Timeout <= Cost(S)
    <2>1. ASSUME NEW S \in SUBSET Domains, NEW e \in S
          PROVE  Timeout <= Cost(S)
      BY CostOfOne, Cheaper, {e} \in SUBSET S
    <2>. QED
      BY <2>1
  <1>7. CASE d \in todo
    <2>1. d \in Upto(d)
      BY <1>7, Positions DEF Upto
    <2>2. Timeout <= Cost(Upto(d))
      BY <1>2, <1>6, <2>1 DEF Measured
    <2>3. age[d] + Cost(Upto(d)) <= Longest + Wait
      BY <1>1, <1>7 DEF Fresh
    <2>. QED
      BY <1>5, <2>2, <2>3
  <1>8. CASE running /\ d \notin todo
    <2>1. Timeout <= Cost(todo)
      BY <1>2, <1>6, <1>8 DEF Measured
    <2>2. age[d] + Cost(todo) <= Reach(d) + Wait
      BY <1>1, <1>8 DEF Fresh
    <2>. QED
      BY <1>5, <2>1, <2>2
  <1>9. CASE ~running
    <2>1. age[d] + timer <= Reach(d) + Interval
      BY <1>1, <1>9 DEF Fresh
    <2>. QED
      BY <1>5, <2>1
  <1>. QED
    BY <1>7, <1>8, <1>9

LEMMA MeasuresAll == TypeOK => \A d \in Domains : Measured(d)
  BY Measures, RefreshAssumption

LEMMA NextMeasures == TypeOK' => \A d \in Domains : Measured(d)'
  <1>1. TypeOK' => (\A d \in Domains : Measured(d))'
    BY MeasuresAll, PTL
  <1>. QED
    BY <1>1

LEMMA Rigid == UNCHANGED todo => \A d : Upto(d)' = Upto(d)
  BY DEF Upto

\* A store that has just been asked for is fresh.
LEMMA NowFresh ==
  ASSUME TypeOK', RefreshAssumption, NEW d \in Domains, age'[d] = 0
  PROVE  Fresh(d)'
  <1>1. Measured(d)' /\ Compared(d)
    BY NextMeasures, Compares
  <1>2. d \in todo' => age'[d] + Cost(Upto(d)') <= Longest + Wait'
    BY <1>1 DEF Measured, Compared
  <1>3. running' /\ d \notin todo' => age'[d] + Cost(todo') <= Reach(d) + Wait'
    BY <1>1 DEF Measured, Compared
  <1>4. ~running' => age'[d] + timer' <= Reach(d) + Interval
    BY <1>1 DEF Measured, Compared
  <1>. QED
    BY <1>2, <1>3, <1>4 DEF Fresh

\* One that is fresh stays so while the tick is where it was, or further.
LEMMA StaysFresh ==
  ASSUME TypeOK, TypeOK', RefreshAssumption, NEW d \in Domains, Fresh(d),
         UNCHANGED <<todo, running, timer>>, age'[d] = age[d], Wait <= Wait'
  PROVE  Fresh(d)'
  <1>1. Measured(d) /\ Measured(d)' /\ Compared(d) /\ Upto(d)' = Upto(d)
    BY Measures, NextMeasures, Compares, Rigid
  <1>2. /\ age[d] \in Nat /\ Wait \in Nat /\ Wait' \in Nat /\ Cost(Upto(d)) \in Nat
        /\ Cost(todo) \in Nat /\ Longest \in Int /\ Reach(d) \in Int
    BY <1>1 DEF Measured, Compared
  <1>3. ASSUME d \in todo
        PROVE  age'[d] + Cost(Upto(d)') <= Longest + Wait'
    <2>1. age[d] + Cost(Upto(d)) <= Longest + Wait
      BY <1>3 DEF Fresh
    <2>2. age[d] + Cost(Upto(d)) <= Longest + Wait'
      BY <1>2, <2>1
    <2>. QED
      BY <1>1, <2>2
  <1>5. ASSUME running, d \notin todo
        PROVE  age'[d] + Cost(todo') <= Reach(d) + Wait'
    <2>1. age[d] + Cost(todo) <= Reach(d) + Wait
      BY <1>5 DEF Fresh
    <2>2. age[d] + Cost(todo) <= Reach(d) + Wait'
      BY <1>2, <2>1
    <2>. QED
      BY <2>2
  <1>4. ~running' => age'[d] + timer' <= Reach(d) + Interval
    BY DEF Fresh
  <1>. QED
    BY <1>3, <1>4, <1>5 DEF Fresh

\* The tick is done with e, the first it had to do.
LEMMA StoreDone ==
  ASSUME TypeOK, TypeOK', Ticking, RefreshAssumption, NEW d \in Domains, Fresh(d),
         NEW e \in todo, \A x \in todo : Position(e) <= Position(x), TickEnds(e),
         timer' = timer, age'[d] = age[d], d # e, ~Busy(Scheduler)'
  PROVE  Fresh(d)'
  <1>0. Measured(d) /\ Measured(d)' /\ Compared(d)
    BY Measures, NextMeasures, Compares
  <1>1. /\ Wait' = 0 /\ todo' = todo \ {e} /\ (running' <=> todo' # {}) /\ running
        /\ todo \in SUBSET Domains /\ e \in Domains
    BY DEF Wait, TickEnds, Ticking, TypeOK
  <1>2. Cost(todo') = Cost(todo) - Timeout
    <2>1. Cost(todo \ {e}) = Cost(todo) - Timeout
      BY <1>1, OneFewer
    <2>. QED
      BY <1>1, <2>1
  <1>3. ASSUME d \in todo
        PROVE  age'[d] + Cost(Upto(d)') <= Longest + Wait'
    <2>1. Upto(d)' = Upto(d) \ {e} /\ e \in Upto(d) /\ Upto(d) \in SUBSET Domains
      BY <1>1, <1>3 DEF Upto
    <2>2. Cost(Upto(d)') = Cost(Upto(d)) - Timeout
      <3>1. Cost(Upto(d) \ {e}) = Cost(Upto(d)) - Timeout
        BY <2>1, OneFewer
      <3>. QED
        BY <2>1, <3>1
    <2>3. age[d] + Cost(Upto(d)) <= Longest + Wait
      BY <1>3 DEF Fresh
    <2>. QED
      <3>1. /\ age[d] \in Nat /\ Cost(Upto(d)) \in Nat /\ Longest \in Int /\ Wait \in Nat
            /\ Wait <= Timeout /\ Timeout \in Nat
        BY <1>0 DEF Measured, Compared
      <3>2. age[d] + Cost(Upto(d)) - Timeout <= Longest + 0
        BY <2>3, <3>1
      <3>3. age[d] + (Cost(Upto(d)) - Timeout) <= Longest + 0
        BY <3>1, <3>2
      <3>. QED
        BY <1>1, <2>2, <3>3
  <1>4. ASSUME d \notin todo
        PROVE  age'[d] + Cost(todo') <= Reach(d) + Wait'
    <2>1. age[d] + Cost(todo) <= Reach(d) + Wait
      BY <1>1, <1>4 DEF Fresh
    <2>2. /\ age[d] \in Nat /\ Cost(todo) \in Nat /\ Reach(d) \in Int /\ Wait \in Nat
          /\ Wait <= Timeout /\ Timeout \in Nat
      BY <1>0 DEF Measured, Compared
    <2>3. age[d] + (Cost(todo) - Timeout) <= Reach(d) + 0
      BY <2>1, <2>2
    <2>. QED
      BY <1>1, <1>2, <2>3
  <1>5. ASSUME ~running'
        PROVE  age'[d] + timer' <= Reach(d) + Interval
    <2>1. d \notin todo /\ Cost(todo') = 0
      BY <1>1, <1>5, CostOfNone
    <2>2. age'[d] + Cost(todo') <= Reach(d) + Wait'
      BY <1>4, <2>1
    <2>3. /\ age[d] \in Nat /\ Reach(d) \in Int /\ timer \in Nat /\ timer <= Interval
          /\ Interval \in Nat
      BY <1>0 DEF Measured, Compared
    <2>4. age[d] + 0 <= Reach(d) + 0
      BY <1>1, <2>1, <2>2
    <2>5. age[d] + timer <= Reach(d) + Interval
      BY <2>3, <2>4
    <2>. QED
      BY <2>5
  <1>6. d \in todo' => d \in todo
    BY <1>1
  <1>7. d \notin todo' => d \notin todo
    BY <1>1
  <1>. QED
    BY <1>3, <1>4, <1>5, <1>6, <1>7 DEF Fresh

LEMMA AllLogged ==
  ASSUME TypeOK, RefreshAssumption, "log" \notin Faults, NEW k \in Keys, LogAttempt(k)
  PROVE  age'[k] = 0 /\ \A j \in Keys : age'[j] = 0 \/ age'[j] = age[j]
  BY DEF TypeOK, LogAttempt

\* What a step of f's call does and leaves.
LEMMA FlowShape ==
  ASSUME Inv, RefreshAssumption, "log" \notin Faults, NEW f \in Flows, Flow(f)
  PROVE  /\ Busy(f) /\ job[f] \in Job
         /\ UNCHANGED <<up, timer, crashes>>
         /\ \A g \in Flows \ {f} : job'[g] = job[g]
         /\ \/ ~Busy(f)' /\ (f = Scheduler => TickEnds(job[f].domain))
            \/ /\ UNCHANGED <<todo, running>> /\ Busy(f)' /\ job'[f].stage # "fetching"
               /\ job'[f].kind = job[f].kind /\ job'[f].domain = job[f].domain
               /\ job'[f].key = job[f].key
         /\ f # Scheduler => UNCHANGED <<todo, running>>
         /\ \A k \in Keys : age'[k] = 0 \/ age'[k] = age[k]
         /\ job[f].stage = "fetching" => age'[job[f].key] = 0
         /\ \A k \in Keys :
              \/ cache'[k] = cache[k]
              \/ k = job[f].key /\ job[f].stage = "hash" /\ cache'[k].left = TTL
         /\ \A d \in Domains :
              \/ prov'[d] = prov[d]
              \/ d = job[f].domain /\ job[f].stage = "import" /\ source' = "enabled"
         /\ source' = source \/ source' = "enabled"
  <1>0. TypeOK
    BY DEF Inv
  <1>1. Busy(f) /\ job[f] \in Job
    BY <1>0, Busied DEF Flow, Answer, Fail, Store, Import, ImportThrows, At, TypeOK, JobTypes
  <1>2. job[f].key \in Keys
    BY <1>1 DEF Job
  <1>3. ASSUME End(f)
        PROVE  /\ \A g \in Flows \ {f} : job'[g] = job[g]
               /\ ~Busy(f)' /\ (f = Scheduler => TickEnds(job[f].domain))
               /\ f # Scheduler => UNCHANGED <<todo, running>>
    BY <1>0, <1>3 DEF TypeOK, End, Busy
  <1>4. /\ \A g \in Flows \ {f} : job'[g] = job[g]
        /\ \/ ~Busy(f)' /\ (f = Scheduler => TickEnds(job[f].domain))
           \/ /\ UNCHANGED <<todo, running>> /\ Busy(f)' /\ job'[f].stage # "fetching"
              /\ job'[f].kind = job[f].kind /\ job'[f].domain = job[f].domain
              /\ job'[f].key = job[f].key
        /\ f # Scheduler => UNCHANGED <<todo, running>>
    <2>1. CASE End(f)
      BY <1>3, <2>1
    <2>2. CASE Answer(f)
      <3>1. PICK rows \in Answers[job[f].domain] : job' =
              [job EXCEPT ![f].stage = "hash", ![f].rows = rows, ![f].waited = 0]
        BY <2>2 DEF Answer
      <3>2. /\ job'[f].kind = job[f].kind /\ job'[f].domain = job[f].domain
            /\ job'[f].key = job[f].key /\ job'[f].stage = "hash"
            /\ \A g \in Flows \ {f} : job'[g] = job[g]
        BY <1>0, <1>1, <3>1 DEF TypeOK, Job
      <3>3. UNCHANGED <<todo, running>>
        BY <2>2 DEF Answer, tick
      <3>4. Busy(f)'
        <4>2. job'[f] = [job[f] EXCEPT !.stage = "hash", !.rows = rows, !.waited = 0]
          BY <1>0, <3>1 DEF TypeOK
        <4>3. rows \in SUBSET Row
          BY <1>1, <3>1 DEF RefreshAssumption, Job
        <4>4. [job[f] EXCEPT !.stage = "hash", !.rows = rows, !.waited = 0] \in Job
          BY <1>1, <4>3, Bounds DEF Job
        <4>. QED
          BY <4>2, <4>4, AbsenceAssumption DEF Busy
      <3>. QED
        BY <3>2, <3>3, <3>4
    <2>3. CASE Store(f) /\ ~End(f)
      <3>1. job' = [job EXCEPT ![f].stage = "import"] /\ UNCHANGED <<todo, running>>
        BY <2>3 DEF Store
      <3>2. /\ job'[f].kind = job[f].kind /\ job'[f].domain = job[f].domain
            /\ job'[f].key = job[f].key /\ job'[f].stage = "import"
            /\ \A g \in Flows \ {f} : job'[g] = job[g]
        BY <1>0, <1>1, <3>1 DEF TypeOK, Job
      <3>3. Busy(f)'
        <4>1. job'[f] = [job[f] EXCEPT !.stage = "import"]
          BY <1>0, <3>1 DEF TypeOK
        <4>. QED
          BY <1>1, <4>1, AbsenceAssumption DEF Job, Busy
      <3>. QED
        BY <3>1, <3>2, <3>3
    <2>. QED
      BY <2>1, <2>2, <2>3 DEF Flow, Fail, Store, Import, ImportThrows
  <1>5. UNCHANGED <<up, timer, crashes>>
    BY DEF Flow, Answer, Fail, Store, Import, ImportThrows, tick
  <1>6. /\ \A k \in Keys : age'[k] = 0 \/ age'[k] = age[k]
        /\ job[f].stage = "fetching" => age'[job[f].key] = 0
    <2>1. CASE LogAttempt(job[f].key)
      BY <1>0, <1>2, <2>1, AllLogged
    <2>2. CASE age' = age /\ job[f].stage # "fetching"
      BY <2>2
    <2>. QED
      BY <2>1, <2>2 DEF Flow, Answer, Fail, Store, Import, ImportThrows, At
  <1>7. \A k \in Keys :
          \/ cache'[k] = cache[k]
          \/ k = job[f].key /\ job[f].stage = "hash" /\ cache'[k].left = TTL
    <2>1. CASE Store(f)
      <3>1. CASE cache' = [cache EXCEPT ![job[f].key] = NewEntry(job[f].rows)]
        <4>1. NewEntry(job[f].rows).left = TTL
          BY DEF NewEntry
        <4>. QED
          BY <1>0, <1>2, <2>1, <3>1, <4>1 DEF TypeOK, Store, At
      <3>2. CASE UNCHANGED cache
        BY <3>2
      <3>. QED
        BY <2>1, <3>1, <3>2 DEF Store
    <2>2. CASE UNCHANGED cache
      BY <2>2
    <2>. QED
      BY <2>1, <2>2 DEF Flow, Answer, Fail, Import, ImportThrows
  <1>8. /\ \A d \in Domains :
             \/ prov'[d] = prov[d]
             \/ d = job[f].domain /\ job[f].stage = "import" /\ source' = "enabled"
        /\ source' = source \/ source' = "enabled"
    <2>1. CASE Import(f)
      BY <1>0, <2>1 DEF Import, At, TypeOK
    <2>2. CASE UNCHANGED <<prov, source>>
      BY <2>2
    <2>. QED
      BY <2>1, <2>2 DEF Flow, Answer, Fail, Store, ImportThrows, store
  <1>. QED
    BY <1>1, <1>4, <1>5, <1>6, <1>7, <1>8

LEMMA FlowSound ==
  ASSUME Inv, Sound, RefreshAssumption, "log" \notin Faults, NEW f \in Flows, Flow(f)
  PROVE  Sound'
  <1>0. TypeOK /\ Ticking /\ (\A g \in Flows : Busy(g) => job[g].key \in Keys)
    BY Busied DEF Inv, Job, TypeOK, JobTypes
  <1>1. source' = "absent" => \A d \in Domains : prov'[d] = {}
    BY FlowShape DEF Sound
  <1>2. crashes' = 0 => up'
    BY FlowShape DEF Sound
  <1>3. ASSUME NEW g \in Flows, Busy(g)', job'[g].stage # "fetching"
        PROVE  age'[job'[g].key] = 0
    <2>1. CASE g # f
      <3>1. job'[g] = job[g] /\ \A k \in Keys : age'[k] = 0 \/ age'[k] = age[k]
        BY <2>1, FlowShape
      <3>2. Busy(g) /\ job[g].stage # "fetching"
        BY <1>3, <3>1 DEF Busy
      <3>. QED
        BY <1>0, <3>1, <3>2 DEF Sound
    <2>2. CASE g = f
      <3>1. /\ Busy(f) /\ job'[f].key = job[f].key
            /\ \A k \in Keys : age'[k] = 0 \/ age'[k] = age[k]
            /\ job[f].stage = "fetching" => age'[job[f].key] = 0
        BY <1>3, <2>2, FlowShape
      <3>. QED
        BY <1>0, <2>2, <3>1 DEF Sound
    <2>. QED
      BY <2>1, <2>2
  <1>4. ASSUME NEW g \in Flows, Busy(g)', job'[g].kind # "preview"
        PROVE  job'[g].key = job'[g].domain
    <2>1. CASE g # f
      <3>1. job'[g] = job[g]
        BY <2>1, FlowShape
      <3>. QED
        BY <1>4, <3>1 DEF Sound, Busy
    <2>2. CASE g = f
      <3>1. /\ Busy(f) /\ job'[f].key = job[f].key /\ job'[f].kind = job[f].kind
            /\ job'[f].domain = job[f].domain
        BY <1>4, <2>2, FlowShape
      <3>. QED
        BY <1>4, <2>2, <3>1 DEF Sound
    <2>. QED
      BY <2>1, <2>2
  <1>5. ASSUME NEW k \in Keys, cache'[k] # NoEntry
        PROVE  age'[k] + cache'[k].left <= TTL
    <2>1. age[k] \in Nat /\ TTL \in Nat /\ (cache[k] # NoEntry => cache[k].left \in Nat)
      BY <1>0 DEF TypeOK, RefreshAssumption, Entry
    <2>2. age'[k] = 0 \/ age'[k] = age[k]
      BY FlowShape
    <2>3. CASE cache'[k] = cache[k]
      <3>1. age[k] + cache[k].left <= TTL
        BY <1>5, <2>3 DEF Sound
      <3>. QED
        BY <1>5, <2>1, <2>2, <2>3, <3>1
    <2>4. CASE k = job[f].key /\ job[f].stage = "hash" /\ cache'[k].left = TTL
      <3>1. age[k] = 0
        BY <2>4, FlowShape DEF Sound
      <3>. QED
        BY <2>1, <2>2, <2>4, <3>1
    <2>. QED
      BY <2>3, <2>4, FlowShape
  <1>6. ASSUME Busy(Scheduler)'
        PROVE  /\ job'[Scheduler].domain \in todo'
               /\ \A e \in todo' : Position(job'[Scheduler].domain) <= Position(e)
    <2>1. /\ Busy(Scheduler) /\ job'[Scheduler].domain = job[Scheduler].domain
          /\ todo' = todo
      BY <1>6, FlowShape, FlowKinds DEF Busy
    <2>. QED
      BY <2>1 DEF Sound
  <1>. QED
    BY <1>1, <1>2, <1>3, <1>4, <1>5, <1>6 DEF Sound

LEMMA FlowWarm ==
  ASSUME Inv, Sound, Warm, TypeOK', RefreshAssumption, "log" \notin Faults,
         NEW f \in Flows, Flow(f)
  PROVE  Warm'
  <1>0. TypeOK /\ Ticking
    BY DEF Inv
  <1>1. SUFFICES ASSUME crashes' = 0, NEW d \in Domains, prov'[d] # {}, age'[d] # 0
                 PROVE  Fresh(d)'
    BY NowFresh DEF Warm
  <1>2. age'[d] = age[d]
    BY <1>1, FlowShape, KeysOfDomains
  <1>3. Fresh(d)
    <2>1. CASE prov'[d] = prov[d]
      BY <1>1, <2>1, FlowShape DEF Warm
    <2>2. CASE d = job[f].domain /\ job[f].stage = "import"
      <3>1. Busy(f) /\ job[f].kind # "preview"
        BY <1>0, <2>2, FlowShape DEF Ticking, At
      <3>2. age[d] = 0
        BY <2>2, <3>1 DEF Sound
      <3>. QED
        BY <1>1, <1>2, <3>2
    <2>. QED
      BY <2>1, <2>2, FlowShape
  <1>4. timer' = timer
    BY FlowShape
  <1>5. CASE f # Scheduler
    <2>1. job'[Scheduler] = job[Scheduler] /\ UNCHANGED <<todo, running>>
      BY <1>5, FlowShape, FlowKinds
    <2>2. Wait' = Wait
      BY <2>1 DEF Wait, Busy
    <2>3. Wait <= Wait'
      BY <1>0, <2>2, Measures DEF Measured
    <2>. QED
      BY <1>0, <1>2, <1>3, <1>4, <2>1, <2>3, StaysFresh
  <1>6. CASE f = Scheduler /\ Busy(f)'
    <2>1. UNCHANGED <<todo, running>> /\ job'[f].stage # "fetching"
      BY <1>6, FlowShape
    <2>2. Wait' = Timeout
      BY <1>6, <2>1 DEF Wait
    <2>3. Wait <= Wait'
      BY <1>0, <2>2, Measures DEF Measured
    <2>. QED
      BY <1>0, <1>2, <1>3, <1>4, <2>1, <2>3, StaysFresh
  <1>7. CASE f = Scheduler /\ ~Busy(f)'
    <2>1. /\ job[f].domain \in todo /\ job[f].key = job[f].domain
          /\ \A x \in todo : Position(job[f].domain) <= Position(x)
      BY <1>0, <1>7, FlowShape DEF Sound, Ticking
    <2>2. d # job[f].domain
      <3>1. job[f].stage # "fetching" => age[job[f].key] = 0
        BY FlowShape DEF Sound
      <3>. QED
        BY <1>1, <1>2, <2>1, <3>1, FlowShape
    <2>3. TickEnds(job[f].domain)
      <3>1. job[f] \in Job /\ job'[f] = NoJob
        BY <1>7, FlowShape DEF Busy
      <3>. QED
        BY <1>7, FlowShape
    <2>. QED
      BY <1>0, <1>2, <1>3, <1>4, <1>7, <2>1, <2>2, <2>3, StoreDone
  <1>. QED
    BY <1>5, <1>6, <1>7

\* A call overwrites its own flow alone, and an attempt without a fetch is logged.
LEMMA CallLogs ==
  ASSUME TypeOK, RefreshAssumption, "log" \notin Faults, NEW f \in Flows, NEW kind,
         NEW d, NEW k \in Keys, Call(f, kind, d, k)
  PROVE  /\ \A j \in Keys : age'[j] = 0 \/ age'[j] = age[j]
         /\ Busy(f)' /\ job'[f].stage # "fetching" => age'[k] = 0
  <1>1. CASE Hit(k)
    BY <1>1, AllLogged DEF Call
  <1>2. CASE ~Hit(k)
    BY <1>2 DEF Call, TypeOK
  <1>. QED
    BY <1>1, <1>2

LEMMA RequestSound ==
  ASSUME TypeOK, Sound, RefreshAssumption, "log" \notin Faults,
         NEW r \in Requests, NEW kind, NEW d \in Domains, NEW k \in Keys,
         kind = "preview" \/ k = d, Request(r, kind, d, k)
  PROVE  Sound'
  <1>1. /\ Call(r, kind, d, k) /\ source' = "enabled" /\ r \in Flows /\ r # Scheduler
        /\ UNCHANGED <<cache, up, todo, crashes>>
    BY FlowKinds DEF Request, Call, tick, RefreshAssumption
  <1>2. /\ \A g \in Flows \ {r} : job'[g] = job[g]
        /\ Busy(r)' => /\ job'[r].kind = kind /\ job'[r].domain = d /\ job'[r].key = k
    BY <1>1, CallShape
  <1>3. /\ \A j \in Keys : age'[j] = 0 \/ age'[j] = age[j]
        /\ Busy(r)' /\ job'[r].stage # "fetching" => age'[k] = 0
    BY <1>1, CallLogs
  <1>4. ASSUME NEW g \in Flows, Busy(g)', job'[g].stage # "fetching"
        PROVE  age'[job'[g].key] = 0
    <2>1. CASE g = r
      BY <1>2, <1>3, <1>4, <2>1
    <2>2. CASE g # r
      <3>1. job'[g] = job[g] /\ Busy(g)
        BY <1>2, <1>4, <2>2 DEF Busy
      <3>2. job[g].key \in Keys /\ age[job[g].key] = 0
        BY <1>4, <3>1, Busied DEF Sound, TypeOK, JobTypes, Job
      <3>. QED
        BY <1>3, <3>1, <3>2
    <2>. QED
      BY <2>1, <2>2
  <1>5. ASSUME NEW g \in Flows, Busy(g)', job'[g].kind # "preview"
        PROVE  job'[g].key = job'[g].domain
    <2>1. CASE g = r
      BY <1>2, <1>5, <2>1
    <2>2. CASE g # r
      BY <1>2, <1>5, <2>2 DEF Sound, Busy
    <2>. QED
      BY <2>1, <2>2
  <1>6. ASSUME NEW j \in Keys, cache'[j] # NoEntry
        PROVE  age'[j] + cache'[j].left <= TTL
    <2>1. age[j] \in Nat /\ TTL \in Nat /\ cache[j].left \in Nat
      BY <1>1, <1>6 DEF TypeOK, RefreshAssumption, Entry
    <2>2. age[j] + cache[j].left <= TTL
      BY <1>1, <1>6 DEF Sound
    <2>. QED
      BY <1>1, <1>3, <2>1, <2>2
  <1>7. job'[Scheduler] = job[Scheduler]
    BY <1>1, <1>2, FlowKinds
  <1>8. crashes' = 0 => up'
    BY <1>1 DEF Sound
  <1>9. Busy(Scheduler)' =>
          /\ job'[Scheduler].domain \in todo'
          /\ \A e \in todo' : Position(job'[Scheduler].domain) <= Position(e)
    BY <1>1, <1>7 DEF Sound, Busy
  <1>. QED
    BY <1>1, <1>4, <1>5, <1>6, <1>8, <1>9 DEF Sound

LEMMA RequestWarm ==
  ASSUME TypeOK, Warm, TypeOK', RefreshAssumption, "log" \notin Faults,
         NEW r \in Requests, NEW kind, NEW d \in Domains, NEW k \in Keys,
         Request(r, kind, d, k)
  PROVE  Warm'
  <1>1. /\ Call(r, kind, d, k) /\ r \in Flows /\ r # Scheduler
        /\ UNCHANGED <<prov, crashes, todo, running, timer>>
    BY FlowKinds DEF Request, tick, store, RefreshAssumption
  <1>2. job'[Scheduler] = job[Scheduler]
    BY <1>1, CallShape, FlowKinds
  <1>3. Wait' = Wait
    BY <1>2 DEF Wait, Busy
  <1>4. ASSUME crashes' = 0, NEW e \in Domains, prov'[e] # {}
        PROVE  Fresh(e)'
    <2>1. Fresh(e) /\ e \in Keys
      BY <1>1, <1>4, KeysOfDomains DEF Warm
    <2>2. CASE age'[e] = 0
      BY <2>2, NowFresh
    <2>3. CASE age'[e] = age[e]
      <3>1. Wait <= Wait'
        BY <1>3, Measures DEF Measured
      <3>. QED
        BY <1>1, <2>1, <2>3, <3>1, StaysFresh
    <2>. QED
      BY <1>1, <2>1, <2>2, <2>3, CallLogs
  <1>. QED
    BY <1>4 DEF Warm

\* The scheduler may not ask for a store: it was asked for less than an interval ago.
LEMMA RefusedRecently ==
  ASSUME TypeOK, Sound, RefreshAssumption, NEW d \in Domains, prov[d] # {}, ~MayFetch(d)
  PROVE  age[d] < Interval
  <1>1. source # "absent" /\ d \in Keys
    BY KeysOfDomains DEF Sound
  <1>2. CASE cache[d] # NoEntry
    <2>1. age[d] + cache[d].left <= TTL /\ cache[d] \in Entry
      BY <1>1, <1>2 DEF Sound, TypeOK
    <2>2. /\ age[d] \in Nat /\ TTL \in Nat /\ TTL <= Interval /\ Interval \in Nat
          /\ cache[d].left \in Nat /\ 1 <= cache[d].left
      BY <1>1, <2>1 DEF TypeOK, RefreshAssumption, Entry
    <2>. QED
      BY <2>1, <2>2
  <1>3. CASE cache[d] = NoEntry
    <2>1. age[d] \in Nat /\ Interval \in Nat
      BY <1>1 DEF TypeOK, RefreshAssumption
    <2>. QED
      BY <1>1, <1>3, <2>1 DEF MayFetch
  <1>. QED
    BY <1>2, <1>3

LEMMA VisitShape ==
  ASSUME TypeOK, RefreshAssumption, NEW d \in Domains, Visit(d), MayFetch(d)
  PROVE  /\ job'[Scheduler] = [kind |-> "tick", domain |-> d, key |-> d,
                               stage |-> "fetching", rows |-> {}, waited |-> 0]
         /\ \A g \in Flows \ {Scheduler} : job'[g] = job[g]
         /\ age' = age /\ source' = "enabled"
         /\ UNCHANGED <<prov, cache, up, timer, crashes, todo, running>>
  <1>1. Call(Scheduler, "tick", d, d) /\ ~Hit(d)
    BY DEF Visit, MayFetch, Hit
  <1>. QED
    BY <1>1, FlowKinds DEF Visit, Call, TypeOK, store

LEMMA VisitSound ==
  ASSUME TypeOK, Sound, RefreshAssumption, NEW d \in Domains, Visit(d)
  PROVE  Sound'
  <1>1. Turn(d) /\ ~Busy(Scheduler)
    BY DEF Visit, Turn, MidTick
  <1>2. CASE MayFetch(d)
    <2>1. /\ job'[Scheduler] = [kind |-> "tick", domain |-> d, key |-> d,
                                stage |-> "fetching", rows |-> {}, waited |-> 0]
          /\ \A g \in Flows \ {Scheduler} : job'[g] = job[g]
          /\ age' = age /\ source' = "enabled"
          /\ UNCHANGED <<prov, cache, up, timer, crashes, todo, running>>
      BY <1>2, VisitShape
    <2>2. ASSUME NEW g \in Flows
          PROVE  /\ Busy(g)' /\ job'[g].stage # "fetching" => age'[job'[g].key] = 0
                 /\ Busy(g)' /\ job'[g].kind # "preview" => job'[g].key = job'[g].domain
      <3>1. CASE g = Scheduler
        BY <2>1, <3>1
      <3>2. CASE g # Scheduler
        BY <2>1, <3>2 DEF Sound, Busy
      <3>. QED
        BY <3>1, <3>2
    <2>. QED
      BY <1>1, <2>1, <2>2 DEF Sound, Turn
  <1>3. CASE ~MayFetch(d)
    <2>1. UNCHANGED <<source, age, job, prov, cache, up, crashes>>
      BY <1>3 DEF Visit, store
    <2>. QED
      BY <1>1, <2>1 DEF Sound, Busy
  <1>. QED
    BY <1>2, <1>3

LEMMA VisitWarm ==
  ASSUME TypeOK, Ticking, Sound, Warm, TypeOK', RefreshAssumption,
         NEW d \in Domains, Visit(d)
  PROVE  Warm'
  <1>1. Turn(d) /\ ~Busy(Scheduler) /\ Wait = 0
    BY DEF Visit, Turn, MidTick, Wait
  <1>2. CASE MayFetch(d)
    <2>1. /\ age' = age
          /\ UNCHANGED <<prov, crashes, todo, running, timer>>
      BY <1>2, VisitShape
    <2>2. ASSUME NEW e \in Domains
          PROVE  Wait <= Wait'
      BY <1>1, NextMeasures DEF Measured
    <2>. QED
      BY <2>1, <2>2, StaysFresh DEF Warm
  <1>3. CASE ~MayFetch(d)
    <2>1. TickEnds(d) /\ UNCHANGED <<age, job, prov, timer, crashes>>
      BY <1>3 DEF Visit, store
    <2>2. ~Busy(Scheduler)' /\ d \in todo /\ \A x \in todo : Position(d) <= Position(x)
      BY <1>1, <2>1 DEF Busy, Turn
    <2>3. ASSUME crashes' = 0, NEW e \in Domains, prov'[e] # {}
          PROVE  Fresh(e)'
      <3>1. prov[e] # {} /\ Fresh(e)
        BY <2>1, <2>3 DEF Warm
      <3>2. CASE e # d
        BY <2>1, <2>2, <3>1, <3>2, StoreDone
      <3>3. CASE e = d
        <4>1. age[d] < Interval
          BY <1>3, <3>1, <3>3, RefusedRecently
        <4>2. todo' \in SUBSET After(d) /\ d \notin todo'
          <5>1. \A x \in Domains : x # d => Position(x) # Position(d)
            BY Positions
          <5>2. \A x \in Domains : Position(x) \in Nat
            BY Positions
          <5>3. todo' = todo \ {d} /\ todo \in SUBSET Domains
            BY <2>1 DEF TickEnds, TypeOK
          <5>. QED
            BY <2>2, <5>1, <5>2, <5>3 DEF After
        <4>3. Cost(todo') <= Cost(After(d))
          BY <4>2, Cheaper DEF After
        <4>4. Measured(d)' /\ Compared(d)
          BY NextMeasures, Compares
        <4>5. /\ age'[d] \in Nat /\ age'[d] < Interval /\ Cost(todo') \in Nat
              /\ Reach(d) \in Int /\ Wait' \in Nat /\ Cost(After(d)) \in Nat
              /\ Interval + Cost(After(d)) <= Reach(d) /\ Interval \in Nat
              /\ timer' \in Nat /\ timer' <= Interval
          BY <2>1, <4>1, <4>4 DEF Measured, Compared
        <4>6. /\ age'[d] + Cost(todo') <= Reach(d) + Wait'
              /\ age'[d] + timer' <= Reach(d) + Interval
          BY <4>3, <4>5
        <4>. QED
          BY <3>3, <4>2, <4>6 DEF Fresh
      <3>. QED
        BY <3>2, <3>3
    <2>. QED
      BY <2>3 DEF Warm
  <1>. QED
    BY <1>2, <1>3

\* Time passes for the calls that fetch, and no other is in flight.
LEMMA PassOnly ==
  ASSUME TypeOK, RefreshAssumption, Pass, NEW f \in Flows
  PROVE  /\ Busy(f)' <=> Busy(f)
         /\ Busy(f) => /\ job'[f].kind = job[f].kind /\ job'[f].domain = job[f].domain
                       /\ job'[f].key = job[f].key /\ job[f].stage = "fetching"
                       /\ job'[f].stage = "fetching"
                       /\ job'[f].waited = job[f].waited + 1
  <1>1. CASE Busy(f)
    <2>1. job[f] \in Job /\ ~Due(f)
      BY <1>1, Busied DEF Pass, TypeOK, JobTypes
    <2>2. job'[f] = [job[f] EXCEPT !.waited = @ + 1]
      BY <1>1 DEF Pass
    <2>3. job'[f] # NoJob
      BY <1>1, <2>2, Waits, AbsenceAssumption
    <2>. QED
      BY <1>1, <2>1, <2>2, <2>3 DEF Due, Job, Busy
  <1>2. CASE ~Busy(f)
    BY <1>2 DEF Pass, Busy
  <1>. QED
    BY <1>1, <1>2

LEMMA PassAges ==
  ASSUME TypeOK, RefreshAssumption, Pass, NEW k \in Keys
  PROVE  /\ age[k] \in Nat /\ age'[k] \in Nat /\ age'[k] <= age[k] + 1
         /\ cache'[k] # NoEntry =>
              /\ cache[k] # NoEntry /\ cache[k].left \in Nat
              /\ cache'[k].left = cache[k].left - 1
  <1>1. age[k] \in Nat /\ age'[k] \in Nat /\ age'[k] <= age[k] + 1
    BY DEF Pass, TypeOK, Capped, RefreshAssumption
  <1>2. ASSUME cache'[k] # NoEntry
        PROVE  /\ cache[k] # NoEntry /\ cache[k].left \in Nat
               /\ cache'[k].left = cache[k].left - 1
    <2>1. cache[k] # NoEntry /\ cache'[k] = [cache[k] EXCEPT !.left = @ - 1]
      BY <1>2 DEF Pass
    <2>2. cache[k] \in Entry
      BY <2>1 DEF TypeOK
    <2>. QED
      BY <2>1, <2>2 DEF Entry, RefreshAssumption
  <1>. QED
    BY <1>1, <1>2

LEMMA PassSound ==
  ASSUME TypeOK, Sound, RefreshAssumption, Pass
  PROVE  Sound'
  <1>1. UNCHANGED <<prov, source, crashes, up, todo>>
    BY DEF Pass, store
  <1>2. ASSUME NEW f \in Flows
        PROVE  /\ Busy(f)' /\ job'[f].stage # "fetching" => age'[job'[f].key] = 0
               /\ Busy(f)' /\ job'[f].kind # "preview" => job'[f].key = job'[f].domain
    BY PassOnly DEF Sound
  <1>3. ASSUME NEW k \in Keys, cache'[k] # NoEntry
        PROVE  age'[k] + cache'[k].left <= TTL
    <2>1. /\ age[k] \in Nat /\ age'[k] \in Nat /\ age'[k] <= age[k] + 1
          /\ cache[k] # NoEntry /\ cache[k].left \in Nat
          /\ cache'[k].left = cache[k].left - 1 /\ TTL \in Nat
      BY <1>3, PassAges DEF RefreshAssumption
    <2>2. age[k] + cache[k].left <= TTL
      BY <2>1 DEF Sound
    <2>. QED
      BY <2>1, <2>2
  <1>4. Busy(Scheduler)' => Busy(Scheduler) /\ job'[Scheduler].domain = job[Scheduler].domain
    BY PassOnly, FlowKinds
  <1>. QED
    BY <1>1, <1>2, <1>3, <1>4 DEF Sound

LEMMA PassWarm ==
  ASSUME TypeOK, Ticking, Sound, Warm, TypeOK', RefreshAssumption, Pass
  PROVE  Warm'
  <1>1. UNCHANGED <<prov, crashes, up, todo, running>> /\ ~MidTick
    BY DEF Pass, store
  <1>2. running => Wait' = Wait + 1
    <2>1. running => Busy(Scheduler)
      BY <1>1 DEF MidTick, Ticking
    <2>. QED
      BY <2>1, PassOnly, FlowKinds DEF Wait
  <1>3. ASSUME crashes' = 0, NEW d \in Domains, prov'[d] # {}
        PROVE  Fresh(d)'
    <2>1. Fresh(d) /\ Measured(d) /\ Compared(d) /\ Upto(d)' = Upto(d)
      BY <1>1, <1>3, Measures, Compares, Rigid DEF Warm
    <2>2. age'[d] \in Nat /\ age'[d] <= age[d] + 1
      BY PassAges, KeysOfDomains
    <2>3. /\ age[d] \in Nat /\ Wait \in Nat /\ Cost(Upto(d)) \in Nat /\ timer \in Nat
          /\ Cost(todo) \in Nat /\ Longest \in Int /\ Reach(d) \in Int /\ Interval \in Nat
      BY <2>1 DEF Measured, Compared
    <2>4. ASSUME d \in todo
          PROVE  age'[d] + Cost(Upto(d)') <= Longest + Wait'
      <3>1. age[d] + Cost(Upto(d)) <= Longest + Wait /\ Wait' = Wait + 1
        <4>1. running
          BY <2>4 DEF Ticking
        <4>2. age[d] + Cost(Upto(d)) <= Longest + Wait
          BY <2>1, <2>4 DEF Fresh
        <4>. QED
          BY <1>2, <4>1, <4>2
      <3>2. age'[d] + Cost(Upto(d)) <= Longest + (Wait + 1)
        <4> DEFINE c == Cost(Upto(d))
        <4>1. c \in Nat /\ age[d] + c <= Longest + Wait
          BY <2>3, <3>1
        <4> HIDE DEF c
        <4>2. age'[d] + c <= Longest + (Wait + 1)
          BY <2>2, <2>3, <4>1
        <4>. QED
          BY <4>2 DEF c
      <3>. QED
        BY <2>1, <3>1, <3>2
    <2>5. ASSUME running, d \notin todo
          PROVE  age'[d] + Cost(todo') <= Reach(d) + Wait'
      <3>1. age[d] + Cost(todo) <= Reach(d) + Wait /\ Wait' = Wait + 1
        BY <1>2, <2>1, <2>5 DEF Fresh
      <3>2. age'[d] + Cost(todo) <= Reach(d) + (Wait + 1)
        BY <2>2, <2>3, <3>1
      <3>. QED
        BY <1>1, <3>1, <3>2
    <2>6. ASSUME ~running
          PROVE  age'[d] + timer' <= Reach(d) + Interval
      <3>1. age[d] + timer <= Reach(d) + Interval
        BY <2>1, <2>6 DEF Fresh
      <3>2. up /\ timer # 0 /\ timer' = timer - 1
        BY <1>1, <1>3 DEF Sound, Pass
      <3>. QED
        BY <2>2, <2>3, <3>1, <3>2
    <2>. QED
      BY <1>1, <2>4, <2>5, <2>6 DEF Fresh
  <1>. QED
    BY <1>3 DEF Warm

LEMMA FireWarm ==
  ASSUME TypeOK, Ticking, Warm, TypeOK', RefreshAssumption, Fire
  PROVE  Warm'
  <1>1. UNCHANGED <<prov, crashes, age, job>> /\ timer = 0 /\ ~MidTick /\ timer' = Interval
    BY DEF Fire, store
  <1>2. Wait' = Wait
    BY <1>1 DEF Wait, Busy
  <1>3. ASSUME crashes' = 0, NEW d \in Domains, prov'[d] # {}
        PROVE  Fresh(d)'
    <2>1. Fresh(d) /\ Measured(d) /\ Measured(d)' /\ Compared(d)
      BY <1>1, <1>3, Measures, NextMeasures, Compares DEF Warm
    <2>2. CASE running
      <3>1. UNCHANGED <<todo, running>> /\ Upto(d)' = Upto(d)
        BY <2>2, Rigid DEF Fire
      <3>. QED
        BY <1>1, <1>2, <2>1, <2>2, <3>1 DEF Fresh
    <2>3. CASE ~running
      <3>1. todo' = TrackedDomains /\ running' = (TrackedDomains # {})
        BY <2>3 DEF Fire
      <3>2. d \in todo' /\ running'
        BY <1>1, <1>3, <3>1 DEF TrackedDomains
      <3>3. age[d] + 0 <= Reach(d) + Interval
        BY <1>1, <2>1, <2>3 DEF Fresh
      <3>4. Cost(Upto(d)') + Cost(After(d)) <= Cost(Domains)
        <4>1. \A x \in Domains : Position(x) \in Nat
          BY Positions
        <4>2. /\ Upto(d)' \in SUBSET Domains /\ After(d) \in SUBSET Domains
              /\ Upto(d)' \cap After(d) = {}
          BY <3>1, <4>1 DEF Upto, After, TrackedDomains
        <4>. QED
          BY <4>2, Apart
      <3>5. /\ age[d] \in Nat /\ Wait' \in Nat /\ Cost(Upto(d)') \in Nat
            /\ Cost(After(d)) \in Nat /\ Cost(Domains) \in Nat
            /\ Longest \in Int /\ Reach(d) \in Int /\ Interval \in Nat
            /\ Reach(d) + Interval + Cost(Domains) - Cost(After(d)) <= Longest
        BY <2>1 DEF Measured, Compared
      <3>6. age[d] + Cost(Upto(d)') <= Longest + Wait'
        BY <3>3, <3>4, <3>5
      <3>. QED
        BY <1>1, <3>2, <3>6 DEF Fresh
    <2>. QED
      BY <2>2, <2>3
  <1>. QED
    BY <1>3 DEF Warm

\* What is left: nothing of it makes a store wait.
LEMMA OtherSound ==
  ASSUME TypeOK, Ticking, Sound, RefreshAssumption,
         \/ Fire \/ Disable \/ Crash \/ Restart \/ GateThrows
         \/ \E d \in Domains, S \in Edits : Edit(d, S)
         \/ UNCHANGED vars
  PROVE  Sound'
  <1>1. CASE Fire
    <2>1. UNCHANGED <<store, source, cache, age, job, up, crashes>>
      BY <1>1 DEF Fire
    <2>2. CASE running
      BY <1>1, <2>1, <2>2 DEF Fire, Sound, Busy, store
    <2>3. CASE ~running /\ ~Busy(Scheduler)
      BY <1>1, <2>1, <2>3 DEF Sound, Busy, store
    <2>. QED
      BY <2>2, <2>3 DEF Ticking
  <1>2. CASE Disable \/ UNCHANGED vars
    BY <1>2 DEF Disable, vars, tick, store, Sound, Busy
  <1>3. CASE Crash
    <2>1. crashes' # 0
      BY <1>3 DEF Crash, TypeOK, RefreshAssumption
    <2>2. /\ UNCHANGED <<store, source, cache, age>>
          /\ \A f \in Flows : Busy(f)' => job'[f] = job[f] /\ Busy(f) /\ job[f].kind = "cli"
      BY <1>3 DEF Crash, Busy
    <2>3. ~Busy(Scheduler)'
      BY <2>2, FlowKinds DEF Ticking
    <2>. QED
      BY <2>1, <2>2, <2>3 DEF Sound, store
  <1>4. CASE Restart
    BY <1>4 DEF Restart, Sound, Busy, store
  <1>5. CASE GateThrows
    BY <1>5 DEF GateThrows, MidTick, Sound, Busy, store
  <1>6. CASE \E d \in Domains, S \in Edits : Edit(d, S)
    <2>1. PICK d \in Domains, S \in Edits : Edit(d, S)
      BY <1>6
    <2>2. UNCHANGED <<source, cache, age, job, up, tick, crashes>>
      BY <2>1 DEF Edit
    <2>3. \A e \in Domains : prov'[e] \subseteq prov[e]
      BY <2>1 DEF Edit, TypeOK
    <2>. QED
      BY <2>2, <2>3 DEF Sound, Busy, tick
  <1>. QED
    BY <1>1, <1>2, <1>3, <1>4, <1>5, <1>6

LEMMA OtherWarm ==
  ASSUME TypeOK, Sound, Warm, TypeOK', RefreshAssumption,
         \/ Disable \/ Crash \/ Restart
         \/ \E d \in Domains, S \in Edits : Edit(d, S)
         \/ UNCHANGED vars
  PROVE  Warm'
  <1>1. CASE Disable \/ UNCHANGED vars
    <2>1. UNCHANGED <<prov, age, job, running, todo, timer, crashes>>
      BY <1>1 DEF Disable, vars, tick, store
    <2>. QED
      BY <2>1 DEF Warm, Fresh, Wait, Upto, Busy
  <1>2. CASE Crash
    BY <1>2 DEF Crash, TypeOK, RefreshAssumption, Warm
  <1>3. CASE Restart
    BY <1>3 DEF Restart, Sound, Warm
  <1>4. CASE \E d \in Domains, S \in Edits : Edit(d, S)
    <2>1. PICK d \in Domains, S \in Edits : Edit(d, S)
      BY <1>4
    <2>2. UNCHANGED <<age, job, running, todo, timer, crashes>>
      BY <2>1 DEF Edit, tick
    <2>3. \A e \in Domains : prov'[e] # {} => prov[e] # {}
      BY <2>1 DEF Edit, TypeOK
    <2>. QED
      BY <2>2, <2>3 DEF Warm, Fresh, Wait, Upto, Busy
  <1>. QED
    BY <1>1, <1>2, <1>3, <1>4

LEMMA InitWarm ==
  ASSUME Init, RefreshAssumption
  PROVE  Sound /\ Warm
  <1>1. Sound
    BY FlowKinds DEF Init, Sound, Busy
  <1>2. ASSUME NEW d \in Domains
        PROVE  Fresh(d)
    <2>1. d \notin todo /\ ~running /\ age[d] = Interval /\ timer = Interval
      BY KeysOfDomains DEF Init
    <2>2. /\ Interval \in Nat /\ Cost(After(d)) \in Nat /\ Reach(d) \in Int
          /\ Interval + Cost(After(d)) <= Reach(d)
      BY Compares DEF Compared
    <2>3. Interval + Interval <= Reach(d) + Interval
      BY <2>2
    <2>. QED
      BY <2>1, <2>3 DEF Fresh
  <1>. QED
    BY <1>1, <1>2 DEF Warm

LEMMA StepWarm ==
  ASSUME Inv, Sound, Warm, RefreshAssumption,
         "log" \notin Faults, "gate" \notin Faults, [Next]_vars
  PROVE  Sound' /\ Warm'
  <1>0. TypeOK /\ Ticking /\ TypeOK'
    BY StepTypes DEF Inv
  <1>1. CASE \E f \in Flows : Flow(f)
    BY <1>0, <1>1, FlowSound, FlowWarm
  <1>2. ASSUME NEW r \in Requests, NEW d \in Domains,
               \/ \E k \in Keys : SourcePreview(r, d, k)
               \/ SourceImport(r, d) \/ RunSourceRefresh(r, d)
        PROVE  Sound' /\ Warm'
    <2>1. ASSUME NEW kind, NEW k \in Keys, kind = "preview" \/ k = d, Request(r, kind, d, k)
          PROVE  Sound' /\ Warm'
      BY <1>0, <2>1, RequestSound, RequestWarm
    <2>2. d \in Keys
      BY KeysOfDomains
    <2>. QED
      BY <1>2, <2>1, <2>2 DEF SourcePreview, SourceImport, RunSourceRefresh
  <1>3. CASE \E d \in Domains : Visit(d)
    BY <1>0, <1>3, VisitSound, VisitWarm
  <1>4. CASE Pass
    BY <1>0, <1>4, PassSound, PassWarm
  <1>5. CASE Fire
    BY <1>0, <1>5, OtherSound, FireWarm
  <1>6. ASSUME \/ Disable \/ Crash \/ Restart
               \/ \E d \in Domains, S \in Edits : Edit(d, S)
               \/ UNCHANGED vars
        PROVE  Sound' /\ Warm'
    BY <1>0, <1>6, OtherSound, OtherWarm
  <1>7. ~GateThrows
    BY DEF GateThrows
  <1>. QED
    BY <1>1, <1>2, <1>3, <1>4, <1>5, <1>6, <1>7 DEF Next

\* While the gate's query and the log do not throw, a tracked store of a server that
\* stays up is tried within an interval, the fetches of one tick, and the longer of an
\* interval and the fetches of the tick before: however fetches end, whatever manual
\* calls interleave, and however many stores there are.
THEOREM StoresKeptWarm ==
  ASSUME "log" \notin Faults, "gate" \notin Faults
  PROVE  Spec => []KeepsWarm
  <1>1. Init => Sound /\ Warm
    BY InitWarm, RefreshAssumption
  <1>2. Inv /\ Sound /\ Warm /\ [Next]_vars => (Sound /\ Warm)'
    BY StepWarm, RefreshAssumption
  <1>3. Inv /\ Warm => KeepsWarm
    BY WarmEnough, RefreshAssumption
  <1>. QED
    BY <1>1, <1>2, <1>3, Invariant, PTL DEF Spec
=============================================================================
