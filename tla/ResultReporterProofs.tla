------------------------ MODULE ResultReporterProofs ------------------------
(***************************************************************************)
(* ResultReporter implements ReportDelivery, for any set of reports and any *)
(* number of attempts.                                                      *)
(***************************************************************************)
EXTENDS ResultReporter, TLAPS

\* The answer "stored" is only on its way when the row is there.
AnswersAreTrue ==
  \A r \in Reports : \A n \in Attempts : request[r][n] = "stored" => n \in stored[r]

\* What was confirmed is there; what was not fired has not been sent, and an
\* attempt has been made of everything else.
FiredIsSent ==
  \A r \in Reports :
    /\ told[r] = "unfired" => \A n \in Attempts : request[r][n] = "unsent"
    /\ told[r] # "unfired" => attempt[r] \in Attempts

IInv == TypeOK /\ AnswersAreTrue /\ FiredIsSent

LEMMA InitInv == ASSUME Init PROVE IInv
BY ReporterAssumption
   DEF Init, IInv, TypeOK, AnswersAreTrue, FiredIsSent, Told, Where, Attempts

LEMMA OneIsAnAttempt == 1 \in Attempts
BY ReporterAssumption DEF Attempts

LEMMA FireInv == ASSUME IInv, NEW r \in Reports, Fire(r) PROVE IInv'
BY OneIsAnAttempt, ReporterAssumption
   DEF IInv, TypeOK, AnswersAreTrue, FiredIsSent, Fire, Told, Where, Attempts

LEMMA SavedInv == ASSUME IInv, NEW r \in Reports, Saved(r) PROVE IInv'
BY ReporterAssumption
   DEF IInv, TypeOK, AnswersAreTrue, FiredIsSent, Saved, Told, Where, Attempts

LEMMA FailsInv == ASSUME IInv, NEW r \in Reports, AttemptFails(r) PROVE IInv'
<1> DEFINE n == attempt[r]
<1>1. n \in Attempts /\ told[r] = "waiting"
  BY DEF AttemptFails, IInv, FiredIsSent
<1>2. PICK left \in {"over"} \cup ({request[r][n]} \cap {"going"}) :
        IF n < MaxAttempts
        THEN /\ attempt' = [attempt EXCEPT ![r] = n + 1]
             /\ request' = [request EXCEPT ![r] =
                              [@ EXCEPT ![n] = left, ![n + 1] = "going"]]
             /\ UNCHANGED told
        ELSE /\ told' = [told EXCEPT ![r] = "lost"]
             /\ request' = [request EXCEPT ![r][n] = left]
             /\ UNCHANGED attempt
  BY DEF AttemptFails
<1>3. left \in {"over", "going"} /\ UNCHANGED stored
  BY <1>2 DEF AttemptFails
<1>4. CASE n < MaxAttempts
  <2> DEFINE f == [request[r] EXCEPT ![n] = left, ![n + 1] = "going"]
  <2>1. n + 1 \in Attempts
    BY <1>1, <1>4, ReporterAssumption DEF Attempts
  <2>2. request' = [request EXCEPT ![r] = f] /\ UNCHANGED told
        /\ attempt' = [attempt EXCEPT ![r] = n + 1]
    BY <1>2, <1>4
  <2>3. request[r] \in [Attempts -> Where]
    BY DEF IInv, TypeOK
  <2>4. f \in [Attempts -> Where]
    BY <1>3, <2>3 DEF Where
  <2>5. \A m \in Attempts : f[m] = "stored" => request[r][m] = "stored"
    BY <1>3, <2>3
  <2>6. TypeOK'
    BY <1>3, <2>1, <2>2, <2>4 DEF IInv, TypeOK, Attempts
  <2>7. AnswersAreTrue'
    BY <1>3, <2>2, <2>5 DEF IInv, TypeOK, AnswersAreTrue
  <2>8. FiredIsSent'
    BY <1>1, <2>1, <2>2 DEF IInv, TypeOK, FiredIsSent
  <2>9. QED
    BY <2>6, <2>7, <2>8 DEF IInv
<1>5. CASE ~(n < MaxAttempts)
  <2>1. request' = [request EXCEPT ![r][n] = left] /\ UNCHANGED attempt
        /\ told' = [told EXCEPT ![r] = "lost"]
    BY <1>2, <1>5
  <2>2. TypeOK'
    BY <1>1, <1>3, <2>1 DEF IInv, TypeOK, Told, Where
  <2>3. AnswersAreTrue'
    BY <1>1, <1>3, <2>1 DEF IInv, TypeOK, AnswersAreTrue
  <2>4. FiredIsSent'
    BY <1>1, <2>1 DEF IInv, TypeOK, FiredIsSent
  <2>5. QED
    BY <2>2, <2>3, <2>4 DEF IInv
<1>6. QED
  BY <1>4, <1>5

LEMMA AbandonInv == ASSUME IInv, Abandon PROVE IInv'
BY DEF IInv, TypeOK, AnswersAreTrue, FiredIsSent, Abandon, Told

LEMMA StoresInv ==
  ASSUME IInv, NEW r \in Reports, NEW n \in Attempts, ServerStores(r, n) PROVE IInv'
BY DEF IInv, TypeOK, AnswersAreTrue, FiredIsSent, ServerStores, Told, Where

LEMMA RefusesInv ==
  ASSUME IInv, NEW r \in Reports, NEW n \in Attempts, ServerRefuses(r, n) PROVE IInv'
BY DEF IInv, TypeOK, AnswersAreTrue, FiredIsSent, ServerRefuses, Told, Where

LEMMA NextInv == ASSUME IInv, [Next]_vars PROVE IInv'
<1>1. CASE UNCHANGED vars
  BY <1>1 DEF vars, IInv, TypeOK, AnswersAreTrue, FiredIsSent
<1>2. CASE Abandon
  BY <1>2, AbandonInv
<1>3. ASSUME NEW r \in Reports, Fire(r) \/ Client(r) \/ Server(r) PROVE IInv'
  <2>1. CASE Fire(r)
    BY <2>1, FireInv
  <2>2. CASE Client(r)
    BY <2>2, SavedInv, FailsInv DEF Client
  <2>3. CASE Server(r)
    BY <2>3, StoresInv, RefusesInv DEF Server
  <2>4. QED
    BY <1>3, <2>1, <2>2, <2>3
<1>4. QED
  BY <1>1, <1>2, <1>3 DEF Next

\* The reports keep their types: in particular no report is attempted more often
\* than MAX_ATTEMPTS (the loop of reportCouponResult).
THEOREM TypeCorrect == Spec => []TypeOK
<1>1. Init => IInv
  BY InitInv
<1>2. IInv /\ [Next]_vars => IInv'
  BY NextInv
<1>3. IInv => TypeOK
  BY DEF IInv
<1>4. QED
  BY <1>1, <1>2, <1>3, PTL DEF Spec

-----------------------------------------------------------------------------
(* A report that was confirmed at once.                                     *)

\* Only the attempts made so far were sent, and only what was sent is stored; the
\* attempt that was confirmed is.
SentInOrder ==
  \A r \in Reports :
    /\ \A n \in Attempts :
         n > attempt[r] => request[r][n] = "unsent" /\ n \notin stored[r]
    /\ told[r] = "saved" => attempt[r] \in stored[r]
    /\ told[r] = "unfired" => attempt[r] = 0

LEMMA FireInOrder ==
  ASSUME IInv, SentInOrder, NEW r \in Reports, Fire(r) PROVE SentInOrder'
<1>1. attempt[r] = 0
  BY DEF SentInOrder, Fire
<1>2. \A n \in Attempts : n > 1 => n > 0 /\ n # 1
  BY DEF Attempts
<1>3. /\ told'[r] = "waiting" /\ attempt'[r] = 1
      /\ \A n \in Attempts : n # 1 => request'[r][n] = request[r][n]
      /\ \A q \in Reports \ {r} : told'[q] = told[q] /\ attempt'[q] = attempt[q]
                                  /\ request'[q] = request[q]
      /\ UNCHANGED stored
  BY DEF IInv, TypeOK, Fire
<1>4. QED
  BY <1>1, <1>2, <1>3 DEF SentInOrder

LEMMA SavedInOrder ==
  ASSUME IInv, SentInOrder, NEW r \in Reports, Saved(r) PROVE SentInOrder'
<1>1. attempt[r] \in stored[r]
  BY DEF IInv, AnswersAreTrue, FiredIsSent, Saved
<1>2. QED
  BY <1>1 DEF IInv, TypeOK, SentInOrder, Saved, Attempts

LEMMA FailsInOrder ==
  ASSUME IInv, SentInOrder, NEW r \in Reports, AttemptFails(r) PROVE SentInOrder'
<1>1. attempt[r] \in Attempts /\ told[r] = "waiting" /\ UNCHANGED stored
  BY DEF IInv, FiredIsSent, AttemptFails
<1>2. attempt'[r] >= attempt[r]
      /\ \A q \in Reports \ {r} : attempt'[q] = attempt[q] /\ request'[q] = request[q]
                                  /\ told'[q] = told[q]
  BY <1>1 DEF AttemptFails, IInv, TypeOK, Attempts
<1>3. told'[r] \notin {"saved", "unfired"}
  BY <1>1 DEF AttemptFails, IInv, TypeOK
<1>4. \A m \in Attempts : m > attempt'[r] => request'[r][m] = request[r][m]
  <2> DEFINE n == attempt[r]
  <2>1. PICK left :
          IF n < MaxAttempts
          THEN /\ attempt' = [attempt EXCEPT ![r] = n + 1]
               /\ request' = [request EXCEPT ![r] =
                                [@ EXCEPT ![n] = left, ![n + 1] = "going"]]
          ELSE /\ request' = [request EXCEPT ![r][n] = left]
               /\ UNCHANGED attempt
    BY DEF AttemptFails
  <2>2. n \in Nat /\ Attempts \subseteq Nat /\ r \in DOMAIN attempt
    BY DEF IInv, TypeOK, Attempts
  <2>3. request[r] \in [Attempts -> Where] /\ request \in [Reports -> [Attempts -> Where]]
    BY DEF IInv, TypeOK
  <2>4. CASE n < MaxAttempts
    <3>1. attempt'[r] = n + 1
      BY <2>1, <2>2, <2>4
    <3>2. \A m \in Attempts : m # n /\ m # n + 1 => request'[r][m] = request[r][m]
      BY <2>1, <2>3, <2>4
    <3>3. QED
      BY <2>2, <3>1, <3>2
  <2>5. CASE ~(n < MaxAttempts)
    <3>1. attempt'[r] = n
      BY <2>1, <2>5
    <3>2. \A m \in Attempts : m # n => request'[r][m] = request[r][m]
      BY <2>1, <2>3, <2>5
    <3>3. QED
      BY <2>2, <3>1, <3>2
  <2>6. QED
    BY <2>4, <2>5
<1>5. \A n \in Attempts : n > attempt'[r] => n > attempt[r]
  BY <1>1, <1>2 DEF AttemptFails, IInv, TypeOK, Attempts
<1>6. QED
  BY <1>1, <1>2, <1>3, <1>4, <1>5 DEF SentInOrder

LEMMA ServerInOrder ==
  ASSUME IInv, SentInOrder, NEW r \in Reports, NEW n \in Attempts,
         ServerStores(r, n) \/ ServerRefuses(r, n)
  PROVE  SentInOrder'
<1>1. ~(n > attempt[r]) /\ UNCHANGED <<told, attempt>>
  BY DEF SentInOrder, ServerStores, ServerRefuses
<1>2. /\ \A q \in Reports, m \in Attempts :
           q # r \/ m # n => request'[q][m] = request[q][m]
                             /\ (m \in stored'[q] <=> m \in stored[q])
      /\ \A q \in Reports : stored[q] \subseteq stored'[q]
  BY DEF ServerStores, ServerRefuses, IInv, TypeOK
<1>3. QED
  BY <1>1, <1>2 DEF SentInOrder

LEMMA NextInOrder == ASSUME IInv, SentInOrder, [Next]_vars PROVE SentInOrder'
<1>1. CASE UNCHANGED vars
  BY <1>1 DEF vars, SentInOrder
<1>2. CASE Abandon
  BY <1>2 DEF Abandon, SentInOrder
<1>3. ASSUME NEW r \in Reports, Fire(r) \/ Client(r) \/ Server(r) PROVE SentInOrder'
  BY <1>3, FireInOrder, SavedInOrder, FailsInOrder, ServerInOrder DEF Client, Server
<1>4. QED
  BY <1>1, <1>2, <1>3 DEF Next

\* A report that was confirmed at its first attempt is in the history exactly once,
\* however late the server acts on what it was sent.
THEOREM ConfirmedOnce == Spec => []SavedAtOnceIsOneRow
<1>1. Init => IInv /\ SentInOrder
  BY InitInv DEF Init, SentInOrder
<1>2. IInv /\ SentInOrder /\ [Next]_vars => IInv' /\ SentInOrder'
  BY NextInv, NextInOrder
<1>3. IInv /\ SentInOrder => SavedAtOnceIsOneRow
  <2>1. SUFFICES ASSUME IInv, SentInOrder, NEW r \in Reports,
                        told[r] = "saved", attempt[r] = 1
                 PROVE  stored[r] = {1}
    BY DEF SavedAtOnceIsOneRow
  <2>2. 1 \in stored[r] /\ stored[r] \subseteq Attempts
    BY <2>1 DEF SentInOrder, IInv, TypeOK
  <2>3. \A n \in stored[r] : n = 1
    BY <2>1, <2>2, ReporterAssumption DEF SentInOrder, Attempts
  <2>4. QED
    BY <2>2, <2>3
<1>4. QED
  BY <1>1, <1>2, <1>3, PTL DEF Spec

-----------------------------------------------------------------------------
(* The refinement: every step is one of ReportDelivery, or none.            *)

LEMMA RefineInit == ASSUME Init PROVE Delivery!Init
BY DEF Init, Delivery!Init, Outcome

LEMMA RefineFire ==
  ASSUME IInv, NEW r \in Reports, Fire(r) PROVE Delivery!Fire(r)
BY DEF IInv, TypeOK, Fire, Delivery!Fire, Outcome, Told

LEMMA RefineSaved ==
  ASSUME IInv, NEW r \in Reports, Saved(r) PROVE Delivery!Confirm(r)
<1>1. attempt[r] \in stored[r]
  BY DEF IInv, AnswersAreTrue, FiredIsSent, Saved
<1>2. QED
  BY <1>1 DEF IInv, TypeOK, Saved, Delivery!Confirm, Outcome, Told

LEMMA RefineFails ==
  ASSUME IInv, NEW r \in Reports, AttemptFails(r)
  PROVE Delivery!GiveUp(r) \/ UNCHANGED <<Outcome, stored>>
BY DEF IInv, TypeOK, AttemptFails, Delivery!GiveUp, Outcome, Told

LEMMA RefineAbandon ==
  ASSUME IInv, Abandon PROVE UNCHANGED <<Outcome, stored>>
BY DEF IInv, TypeOK, Abandon, Outcome, Told

LEMMA RefineStores ==
  ASSUME IInv, NEW r \in Reports, NEW n \in Attempts, ServerStores(r, n)
  PROVE Delivery!Record(r) \/ UNCHANGED <<Outcome, stored>>
<1>1. UNCHANGED Outcome
  BY DEF ServerStores, Outcome
<1>2. Outcome[r] # "unfired"
  BY DEF IInv, TypeOK, FiredIsSent, ServerStores, Outcome, Told
<1>3. stored' = [stored EXCEPT ![r] = @ \cup {n}]
  BY DEF ServerStores
<1>4. CASE n \in stored[r]
  BY <1>1, <1>3, <1>4 DEF IInv, TypeOK
<1>5. CASE n \notin stored[r]
  BY <1>1, <1>2, <1>3, <1>5 DEF Delivery!Record, Delivery!Attempts, Attempts
<1>6. QED
  BY <1>4, <1>5

LEMMA RefineRefuses ==
  ASSUME NEW r \in Reports, NEW n \in Attempts, ServerRefuses(r, n)
  PROVE UNCHANGED <<Outcome, stored>>
BY DEF ServerRefuses, Outcome

LEMMA RefineNext ==
  ASSUME IInv, [Next]_vars PROVE [Delivery!Next]_<<Outcome, stored>>
<1>1. CASE UNCHANGED vars
  BY <1>1 DEF vars, Outcome
<1>2. CASE Abandon
  BY <1>2, RefineAbandon
<1>3. ASSUME NEW r \in Reports, Fire(r) \/ Client(r) \/ Server(r)
      PROVE Delivery!Next \/ UNCHANGED <<Outcome, stored>>
  <2>1. CASE Fire(r)
    BY <2>1, RefineFire DEF Delivery!Next
  <2>2. CASE Client(r)
    BY <2>2, RefineSaved, RefineFails DEF Client, Delivery!Next
  <2>3. CASE Server(r)
    BY <2>3, RefineStores, RefineRefuses DEF Server, Delivery!Next
  <2>4. QED
    BY <1>3, <2>1, <2>2, <2>3
<1>4. QED
  BY <1>1, <1>2, <1>3 DEF Next

\* What the caller of reportCouponResult is told and what the history holds is
\* as ReportDelivery promises, whatever is lost, late or refused.
THEOREM Implements == Spec => DeliversReports
<1>1. Init => IInv /\ Delivery!Init
  BY InitInv, RefineInit
<1>2. IInv /\ [Next]_vars => IInv' /\ [Delivery!Next]_<<Outcome, stored>>
  BY NextInv, RefineNext
<1>3. QED
  BY <1>1, <1>2, PTL DEF Spec, DeliversReports, Delivery!Spec
=============================================================================
