--------------------------- MODULE ResultReporter ---------------------------
(***************************************************************************)
(* The reports of one page (extension/resultReporter.ts) and what becomes   *)
(* of their requests at the server (POST /results).                         *)
(*                                                                          *)
(* attemptReport aborts its fetch after 750 ms.  An abort ends the waiting  *)
(* of the page, not the request: the server may have stored the row and     *)
(* answered, or may store it later, also after the retry and after the      *)
(* caller was told of a loss.                                               *)
(***************************************************************************)
EXTENDS Naturals

CONSTANTS
  Reports,      \* every report that can be made: one per tested code
  MaxAttempts   \* MAX_ATTEMPTS

ASSUME ReporterAssumption == MaxAttempts \in Nat \ {0}

Attempts == 1 .. MaxAttempts

VARIABLES
  told,      \* told[r]: what reportCouponResult has come to
  attempt,   \* attempt[r]: the attempt it waits for, 0 before the first
  request,   \* request[r][n]: where the request of attempt n is
  stored     \* stored[r]: the attempts whose row is in coupon_results

vars == <<told, attempt, request, stored>>

\* "gone": the page was left, nobody waits any more.
Told == {"unfired", "waiting", "saved", "lost", "gone"}

\* "going": on its way to the server; "stored": its answer is on its way back;
\* "over": answered, refused, or dropped.
Where == {"unsent", "going", "stored", "over"}

TypeOK ==
  /\ told \in [Reports -> Told]
  /\ attempt \in [Reports -> 0 .. MaxAttempts]
  /\ request \in [Reports -> [Attempts -> Where]]
  /\ stored \in [Reports -> SUBSET Attempts]

Init ==
  /\ told = [r \in Reports |-> "unfired"]
  /\ attempt = [r \in Reports |-> 0]
  /\ request = [r \in Reports |-> [n \in Attempts |-> "unsent"]]
  /\ stored = [r \in Reports |-> {}]

-----------------------------------------------------------------------------
(* The page.                                                                *)

\* The first attempt of reportCouponResult, and the fetch of attemptReport.
Fire(r) ==
  /\ told[r] = "unfired"
  /\ told' = [told EXCEPT ![r] = "waiting"]
  /\ attempt' = [attempt EXCEPT ![r] = 1]
  /\ request' = [request EXCEPT ![r][1] = "going"]
  /\ UNCHANGED stored

\* Faulty variant: the loop goes round once more although the answer was good.
SavedAndAgain(r) ==
  /\ told[r] = "waiting"
  /\ request[r][attempt[r]] = "stored"
  /\ told' = [told EXCEPT ![r] = "saved"]
  /\ request' = [request EXCEPT ![r] = [@ EXCEPT ![attempt[r]] = "over", ![MaxAttempts] = "going"]]
  /\ UNCHANGED <<attempt, stored>>

\* Faulty variant: the last attempt counts as good whatever its answer.
LastIsGood(r) ==
  /\ told[r] = "waiting"
  /\ \/ request[r][attempt[r]] = "stored"
     \/ attempt[r] = MaxAttempts /\ request[r][attempt[r]] = "over"
  /\ told' = [told EXCEPT ![r] = "saved"]
  /\ request' = [request EXCEPT ![r][attempt[r]] = "over"]
  /\ UNCHANGED <<attempt, stored>>

\* response.ok: the loop ends, and onOutcome says so.
Saved(r) ==
  /\ told[r] = "waiting"
  /\ request[r][attempt[r]] = "stored"
  /\ told' = [told EXCEPT ![r] = "saved"]
  /\ request' = [request EXCEPT ![r][attempt[r]] = "over"]
  /\ UNCHANGED <<attempt, stored>>

\* Faulty variant: no timer, so only an answer ends the waiting.
FailsWhenRefused(r) ==
  LET n == attempt[r]
  IN /\ told[r] = "waiting" /\ request[r][n] = "over"
     /\ IF n < MaxAttempts
        THEN /\ attempt' = [attempt EXCEPT ![r] = n + 1]
             /\ request' = [request EXCEPT ![r][n + 1] = "going"]
             /\ UNCHANGED told
        ELSE /\ told' = [told EXCEPT ![r] = "lost"]
             /\ UNCHANGED <<attempt, request>>
     /\ UNCHANGED stored

\* Faulty variant: one attempt more than MAX_ATTEMPTS.
FailsOnceMore(r) ==
  LET n == attempt[r]
  IN /\ told[r] = "waiting" /\ n <= MaxAttempts
     /\ attempt' = [attempt EXCEPT ![r] = n + 1]
     /\ request' = [request EXCEPT ![r][n] = "over"]
     /\ UNCHANGED <<told, stored>>

\* An attempt fails: the answer is not ok, the network fails, or the timer
\* aborts it.  Then the loop goes round once more, or the report is given up.
\* An aborted request that has not reached the server may reach it yet.
AttemptFails(r) ==
  LET n == attempt[r]
  IN /\ told[r] = "waiting"
     /\ \E left \in {"over"} \cup ({request[r][n]} \cap {"going"}) :
          IF n < MaxAttempts
          THEN /\ attempt' = [attempt EXCEPT ![r] = n + 1]
               /\ request' = [request EXCEPT ![r] =
                                [@ EXCEPT ![n] = left, ![n + 1] = "going"]]
               /\ UNCHANGED told
          ELSE /\ told' = [told EXCEPT ![r] = "lost"]
               /\ request' = [request EXCEPT ![r][n] = left]
               /\ UNCHANGED attempt
     /\ UNCHANGED stored

\* The page is left, with every report of it that is still waited for.
Abandon ==
  /\ told' = [r \in Reports |-> IF told[r] = "waiting" THEN "gone" ELSE told[r]]
  /\ UNCHANGED <<attempt, request, stored>>

-----------------------------------------------------------------------------
(* The server.                                                              *)

Awaited(r, n) == told[r] = "waiting" /\ attempt[r] = n

\* A row is stored and 200 sent, whether or not somebody still waits for it.
ServerStores(r, n) ==
  /\ request[r][n] = "going"
  /\ stored' = [stored EXCEPT ![r] = @ \cup {n}]
  /\ request' = [request EXCEPT ![r][n] = IF Awaited(r, n) THEN "stored" ELSE "over"]
  /\ UNCHANGED <<told, attempt>>

\* The server answers with an error, or the request dies on its way.
ServerRefuses(r, n) ==
  /\ request[r][n] = "going"
  /\ request' = [request EXCEPT ![r][n] = "over"]
  /\ UNCHANGED <<told, attempt, stored>>

Server(r) == \E n \in Attempts : ServerStores(r, n) \/ ServerRefuses(r, n)

Client(r) == Saved(r) \/ AttemptFails(r)

Next == Abandon \/ \E r \in Reports : Fire(r) \/ Client(r) \/ Server(r)

\* A fetch answers, or fails, or is aborted by its timer.
Spec == Init /\ [][Next]_vars /\ \A r \in Reports : WF_vars(Client(r))

-----------------------------------------------------------------------------
(* Properties.                                                              *)

\* What the caller sees of a report; a page that was left was never told.
Outcome ==
  [r \in Reports |-> IF told[r] \in {"waiting", "gone"} THEN "pending" ELSE told[r]]

Delivery == INSTANCE ReportDelivery WITH outcome <- Outcome, copies <- stored

\* What the caller sees and what the history holds is what ReportDelivery
\* promises: a confirmed report is in the history, no report is there more than
\* MaxAttempts times, and a loss that was told may still become a row.
DeliversReports == Delivery!Spec

\* Only a failure is retried ("does NOT retry on success", resultReporter.retry
\* .test.ts): a report with several attempts has seen each but the last one fail,
\* so one that was confirmed at once is in the history exactly once.
SavedAtOnceIsOneRow ==
  \A r \in Reports : told[r] = "saved" /\ attempt[r] = 1 => stored[r] = {1}

\* A report is settled one way or the other, or its page is left, whatever the
\* server does.
ReportsSettle == \A r \in Reports : told[r] = "waiting" ~> told[r] # "waiting"
=============================================================================
