--------------------------- MODULE ReportDelivery ---------------------------
(***************************************************************************)
(* What the extension may rely on when it reports a tested code             *)
(* (extension/resultReporter.ts, reportCouponResult): a report that is      *)
(* confirmed was stored; each attempt stores it at most once, so it may be  *)
(* in the history MaxAttempts times; one that is given up may have been     *)
(* stored all the same, and may still be.                                   *)
(***************************************************************************)
EXTENDS Naturals

CONSTANTS
  Reports,      \* every report that can be made: one per tested code
  MaxAttempts   \* MAX_ATTEMPTS

VARIABLES
  outcome,      \* what the caller of reportCouponResult was told
  copies        \* the attempts that left a row in coupon_results

Attempts == 1 .. MaxAttempts

TypeOK ==
  /\ outcome \in [Reports -> {"unfired", "pending", "saved", "lost"}]
  /\ copies \in [Reports -> SUBSET Attempts]

Init ==
  /\ outcome = [r \in Reports |-> "unfired"]
  /\ copies = [r \in Reports |-> {}]

Fire(r) ==
  /\ outcome[r] = "unfired"
  /\ outcome' = [outcome EXCEPT ![r] = "pending"]
  /\ UNCHANGED copies

Record(r) ==
  /\ outcome[r] # "unfired"
  /\ \E n \in Attempts \ copies[r] :
       copies' = [copies EXCEPT ![r] = @ \cup {n}]
  /\ UNCHANGED outcome

Confirm(r) ==
  /\ outcome[r] = "pending"
  /\ copies[r] # {}
  /\ outcome' = [outcome EXCEPT ![r] = "saved"]
  /\ UNCHANGED copies

GiveUp(r) ==
  /\ outcome[r] = "pending"
  /\ outcome' = [outcome EXCEPT ![r] = "lost"]
  /\ UNCHANGED copies

Next == \E r \in Reports : Fire(r) \/ Record(r) \/ Confirm(r) \/ GiveUp(r)

Spec == Init /\ [][Next]_<<outcome, copies>>
=============================================================================
