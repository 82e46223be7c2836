--------------------------- MODULE PopupSessionProofs ---------------------------
(***************************************************************************)
(* PopupSession's states are well formed, and a popup that names a winner   *)
(* without the note "result not saved" is right, for any number of popups,   *)
(* clicks, pages and codes.                                                 *)
(***************************************************************************)
EXTENDS PopupSession, TLAPS

\* Every report of a run is in the history.
Stored(id) == \A r \in ReportsOf(id) : copies[r] # {}

\* The runs of clicks that are still to come are not sent; the one that is about
\* to be sent is that of the last click.
ClickInv(p) ==
  /\ popup[p].life # "closed" =>
       \A k \in 1 .. MaxClicks : k > popup[p].clicks => run[<<p, k>>].pc = "unsent"
  /\ popup[p].click = "query" =>
       /\ popup[p].activeRunId = <<p, popup[p].clicks>>
       /\ popup[p].activeRunId \in Runs
       /\ run[popup[p].activeRunId].pc = "unsent"

\* A winner without a warning, on its way to the popup and shown by one: the run it
\* is from is over by then, so its list stays what it was.
Quiet(reply, warning, id) == reply = "best" /\ ~warning => Stored(id)

AnswerInv(p) ==
  popup[p].status.kind = "answer" =>
    /\ run[popup[p].status.run].pc = "over"
    /\ Quiet(popup[p].status.reply, popup[p].status.warning, popup[p].status.run)

RunInv(id) ==
  /\ run[id].pc = "judge" => run[id].i <= run[id].total
  /\ run[id].pc = "answered" => Quiet(run[id].reply, run[id].warning, id)

SavedInv == \A r \in Reports : outcome[r] = "saved" => copies[r] # {}

IInv ==
  /\ TypeOK
  /\ \A p \in Popups : ClickInv(p) /\ AnswerInv(p)
  /\ \A id \in Runs : RunInv(id)
  /\ SavedInv

-----------------------------------------------------------------------------
\* The lines a popup can show are lines.
LEMMA LinesAreStatus ==
  /\ \A kind \in Lines : Line(kind) \in Status
  /\ \A reason \in SupportReasons : RenderSupport(reason) \in Status
  /\ \A id \in Runs, reply \in Replies, warning \in BOOLEAN :
       RenderAnswer(id, reply, warning) \in Status
  /\ \A m \in Progress : RenderProgress(m.run, m.current, m.total) \in Status
<1>1. \A kind \in Lines : Line(kind) \in Status
  BY DEF Line, Status
<1>2. ASSUME NEW reason \in SupportReasons PROVE RenderSupport(reason) \in Status
  <2>1. (reason \notin {"hostname_unrecognized", "no_candidate_codes"}) \in BOOLEAN
    OBVIOUS
  <2> QED BY <2>1 DEF RenderSupport, Status
<1>3. ASSUME NEW id \in Runs, NEW reply \in Replies, NEW warning \in BOOLEAN
      PROVE  RenderAnswer(id, reply, warning) \in Status
  BY DEF RenderAnswer, Status
<1>4. ASSUME NEW m \in Progress
      PROVE  RenderProgress(m.run, m.current, m.total) \in Status
  <2>1. m.run \in Runs /\ m.current \in 1 .. MaxTotal /\ m.total \in 1 .. MaxTotal
    BY DEF Progress
  <2>2. MaxTotal \in Nat
    BY SessionAssumption
  <2>3. ~(m.total <= 0)
    BY <2>1, <2>2
  <2> DEFINE at == IF m.current <= 0 THEN 1 ELSE IF m.current > m.total THEN m.total
                   ELSE m.current
  <2>4. at \in 1 .. MaxTotal
    BY <2>1, <2>2
  <2>5. RenderProgress(m.run, m.current, m.total)
          = [kind |-> "progress", run |-> m.run, total |-> m.total, at |-> at]
    BY <2>3 DEF RenderProgress
  <2> HIDE DEF at
  <2> QED BY <2>1, <2>4, <2>5 DEF Status
<1> QED BY <1>1, <1>2, <1>3, <1>4

LEMMA ReasonsAreKnown ==
  ASSUME NEW page \in Page, NEW codes \in Nat
  PROVE  DeriveSupportReason(page, codes) \in SupportReasons
BY DEF DeriveSupportReason, SupportReasons, Page

LEMMA CandidatesAreCounts == Candidates \subseteq 0 .. MaxTotal
BY SessionAssumption DEF Candidates

\* A fresh popup and a fresh run.
LEMMA FreshAreWellFormed ==
  /\ Unopened \in Popup /\ [Unopened EXCEPT !.life = "closed"] \in Popup
  /\ Unsent \in Run
<1>1. Line("empty") \in Status
  BY LinesAreStatus DEF Lines
<1>2. <<>> \in Seq(Progress) /\ 0 \in 0 .. MaxClicks /\ 0 \in 0 .. MaxTotal
      /\ 1 \in 1 .. MaxTotal + 1
  BY SessionAssumption
<1> QED BY <1>1, <1>2 DEF Unopened, Popup, Unsent, Run, Replies

-----------------------------------------------------------------------------
\* A step of one popup that leaves the runs alone keeps everything if it leaves a
\* popup that shows no answer it did not show, and is about to send no run it was
\* not about to send.
LEMMA PopupKeeps ==
  ASSUME IInv, NEW p \in Popups, NEW s \in Popup, SetPopup(p, s),
         UNCHANGED <<run, tab, outcome, copies>>,
         s.status = popup[p].status \/ s.status.kind # "answer",
         s.life = "closed" \/ (popup[p].life # "closed" /\ s.clicks >= popup[p].clicks),
         s.click = "query" =>
           \/ popup[p].click = "query" /\ s.clicks = popup[p].clicks
              /\ s.activeRunId = popup[p].activeRunId
           \/ /\ popup[p].life # "closed" /\ s.clicks > popup[p].clicks
              /\ s.activeRunId = <<p, s.clicks>> /\ s.activeRunId \in Runs
  PROVE  IInv'
<1>1. popup' \in [Popups -> Popup] /\ popup'[p] = s
      /\ \A q \in Popups \ {p} : popup'[q] = popup[q]
  BY DEF IInv, TypeOK, SetPopup
<1>2. TypeOK'
  BY <1>1 DEF IInv, TypeOK, Delivery!TypeOK, Delivery!Attempts
<1>3. \A id \in Runs : Stored(id)' = Stored(id)
  BY DEF Stored, ReportsOf
<1>4. \A id \in Runs : RunInv(id)'
  BY <1>3 DEF IInv, RunInv, Quiet
<1>5. SavedInv'
  BY DEF IInv, SavedInv
<1>6. ASSUME NEW q \in Popups PROVE AnswerInv(q)'
  <2>1. popup'[q].status = popup[q].status \/ popup'[q].status.kind # "answer"
    BY <1>1
  <2>2. Quiet(popup[q].status.reply, popup[q].status.warning, popup[q].status.run)'
          = Quiet(popup'[q].status.reply, popup'[q].status.warning, popup'[q].status.run)
    BY DEF Quiet, Stored, ReportsOf
  <2> QED BY <2>1, <2>2 DEF IInv, AnswerInv
<1>7. ASSUME NEW q \in Popups PROVE ClickInv(q)'
  <2>1. CASE q # p
    BY <1>1, <2>1 DEF IInv, ClickInv
  <2>2. CASE q = p
    <3>1. s.clicks \in Nat /\ popup[p].clicks \in Nat
      BY SessionAssumption DEF IInv, TypeOK, Popup
    <3>2. ASSUME s.life # "closed", NEW k \in 1 .. MaxClicks, k > s.clicks
          PROVE  run[<<p, k>>].pc = "unsent"
      BY <3>1, <3>2 DEF IInv, ClickInv
    <3>3. ASSUME s.click = "query"
          PROVE  /\ s.activeRunId = <<p, s.clicks>> /\ s.activeRunId \in Runs
                 /\ run[s.activeRunId].pc = "unsent"
      <4>1. CASE popup[p].click = "query" /\ s.clicks = popup[p].clicks
                 /\ s.activeRunId = popup[p].activeRunId
        BY <4>1 DEF IInv, ClickInv
      <4>2. CASE popup[p].life # "closed" /\ s.clicks > popup[p].clicks
                 /\ s.activeRunId = <<p, s.clicks>> /\ s.activeRunId \in Runs
        <5>1. s.clicks \in 1 .. MaxClicks
          BY <4>2, SessionAssumption DEF Runs
        <5> QED BY <4>2, <5>1 DEF IInv, ClickInv
      <4> QED BY <3>3, <4>1, <4>2
    <3> QED BY <1>1, <2>2, <3>2, <3>3 DEF ClickInv
  <2> QED BY <2>1, <2>2
<1> QED BY <1>2, <1>4, <1>5, <1>6, <1>7 DEF IInv

LEMMA OpenKeeps == ASSUME IInv, NEW p \in Popups, OpenPopup(p) PROVE IInv'
<1> DEFINE s == [popup[p] EXCEPT !.life = "open", !.status = Line("checking"),
                                 !.support = "asked"]
<1>1. popup[p] \in Popup /\ popup[p].life = "unopened" /\ SetPopup(p, s)
      /\ UNCHANGED <<run, tab, outcome, copies>>
  BY DEF OpenPopup, IInv, TypeOK, Elsewhere
<1>2. Line("checking") \in Status /\ Line("checking").kind # "answer"
  BY LinesAreStatus DEF Lines, Line
<1>3. /\ s \in Popup /\ s.status = Line("checking") /\ s.clicks = popup[p].clicks
      /\ s.click = popup[p].click /\ s.activeRunId = popup[p].activeRunId
  BY <1>1, <1>2 DEF Popup
<1>4. popup[p].clicks \in Nat
  BY <1>1, SessionAssumption DEF Popup
<1> HIDE DEF s
<1> QED BY <1>1, <1>2, <1>3, <1>4, PopupKeeps

LEMMA CloseKeeps == ASSUME IInv, NEW p \in Popups, ClosePopup(p) PROVE IInv'
<1> DEFINE s == [Unopened EXCEPT !.life = "closed"]
<1>1. SetPopup(p, s) /\ UNCHANGED <<run, tab, outcome, copies>>
  BY DEF ClosePopup, Elsewhere
<1>2. s \in Popup
  BY FreshAreWellFormed
<1>3. s.life = "closed" /\ s.click = "idle" /\ s.status.kind # "answer"
  BY DEF Unopened, Line
<1> HIDE DEF s
<1> QED BY <1>1, <1>2, <1>3, PopupKeeps

\* The support check writes a line that is no answer.
LEMMA SupportKeeps ==
  ASSUME IInv, NEW p \in Popups, SupportAnswers(p) \/ SupportFails(p)
  PROVE  IInv'
<1>1. PICK status \in Status :
        /\ status.kind # "answer"
        /\ SetPopup(p, [popup[p] EXCEPT !.support = "settled", !.status = status])
  <2>1. CASE SupportAnswers(p)
    <3>1. PICK codes \in Candidates :
            SetPopup(p, [popup[p] EXCEPT
                           !.support = "settled",
                           !.status = RenderSupport(DeriveSupportReason(tab.page, codes))])
      BY <2>1 DEF SupportAnswers
    <3>2. codes \in Nat /\ tab.page \in Page
      BY CandidatesAreCounts, SessionAssumption DEF IInv, TypeOK
    <3>3. RenderSupport(DeriveSupportReason(tab.page, codes)) \in Status
      BY <3>2, ReasonsAreKnown, LinesAreStatus
    <3>4. RenderSupport(DeriveSupportReason(tab.page, codes)).kind # "answer"
      BY DEF RenderSupport
    <3> QED BY <3>1, <3>3, <3>4
  <2>2. CASE SupportFails(p)
    <3>1. Line("unsupportedPage") \in Status /\ Line("unsupportedPage").kind # "answer"
      BY LinesAreStatus DEF Lines, Line
    <3> QED BY <2>2, <3>1 DEF SupportFails
  <2> QED BY <2>1, <2>2
<1> DEFINE s == [popup[p] EXCEPT !.support = "settled", !.status = status]
<1>2. popup[p] \in Popup /\ popup[p].life = "open"
      /\ UNCHANGED <<run, tab, outcome, copies>>
  BY DEF SupportAnswers, SupportFails, Open, IInv, TypeOK, Elsewhere
<1>3. /\ s \in Popup /\ s.status = status /\ s.clicks = popup[p].clicks
      /\ s.click = popup[p].click /\ s.activeRunId = popup[p].activeRunId
  BY <1>1, <1>2 DEF Popup
<1>4. popup[p].clicks \in Nat
  BY <1>2, SessionAssumption DEF Popup
<1> HIDE DEF s
<1>5. SetPopup(p, s)
  BY <1>1 DEF s
<1> QED BY <1>1, <1>2, <1>3, <1>4, <1>5, PopupKeeps

LEMMA ClickKeeps == ASSUME IInv, NEW p \in Popups, Click(p) PROVE IInv'
<1> DEFINE s == [popup[p] EXCEPT !.status = Line("scanning"), !.button = FALSE,
                                 !.clicks = @ + 1, !.click = "query",
                                 !.activeRunId = <<p, popup[p].clicks + 1>>]
<1>1. /\ popup[p] \in Popup /\ popup[p].life = "open" /\ popup[p].clicks < MaxClicks
      /\ SetPopup(p, s) /\ UNCHANGED <<run, tab, outcome, copies>>
  BY DEF Click, Open, IInv, TypeOK, Elsewhere
<1>2. Line("scanning") \in Status /\ Line("scanning").kind # "answer"
  BY LinesAreStatus DEF Lines, Line
<1>3. popup[p].clicks \in Nat /\ popup[p].clicks + 1 \in 1 .. MaxClicks
  BY <1>1, SessionAssumption DEF Popup
<1>4. <<p, popup[p].clicks + 1>> \in Runs /\ popup[p].clicks + 1 \in 0 .. MaxClicks
  BY <1>3, SessionAssumption DEF Runs
<1>5. /\ s \in Popup /\ s.status = Line("scanning") /\ s.clicks = popup[p].clicks + 1
      /\ s.click = "query" /\ s.activeRunId = <<p, popup[p].clicks + 1>>
  BY <1>1, <1>2, <1>4 DEF Popup
<1> HIDE DEF s
<1> QED BY <1>1, <1>2, <1>3, <1>4, <1>5, PopupKeeps

LEMMA ClickFailsKeeps == ASSUME IInv, NEW p \in Popups, ClickFails(p) PROVE IInv'
<1>1. PICK status \in {Line("connectError"), Line("noActiveTab")} :
        SetPopup(p, Ended(popup[p], status))
  BY DEF ClickFails
<1>2. status \in Status /\ status.kind # "answer"
  BY LinesAreStatus DEF Lines, Line
<1> DEFINE s == Ended(popup[p], status)
<1>3. popup[p] \in Popup /\ popup[p].life = "open"
      /\ UNCHANGED <<run, tab, outcome, copies>>
  BY DEF ClickFails, Open, IInv, TypeOK, Elsewhere
<1>4. /\ s \in Popup /\ s.status = status /\ s.clicks = popup[p].clicks
      /\ s.click = "idle"
  BY <1>2, <1>3 DEF Ended, Popup
<1>5. popup[p].clicks \in Nat
  BY <1>3, SessionAssumption DEF Popup
<1> HIDE DEF s
<1>6. SetPopup(p, s)
  BY <1>1 DEF s
<1> QED BY <1>2, <1>3, <1>4, <1>5, <1>6, PopupKeeps

LEMMA ProgressKeeps == ASSUME IInv, NEW p \in Popups, ProgressArrives(p) PROVE IInv'
<1> DEFINE m == Head(popup[p].mail)
           a == [popup[p] EXCEPT !.mail = Tail(@)]
           b == [a EXCEPT !.status = RenderProgress(m.run, m.current, m.total)]
<1>1. /\ popup[p] \in Popup /\ popup[p].life = "open" /\ popup[p].mail # <<>>
      /\ SetPopup(p, a) \/ SetPopup(p, b)
      /\ UNCHANGED <<run, tab, outcome, copies>>
  BY DEF ProgressArrives, Open, IInv, TypeOK, Elsewhere
<1>2. m \in Progress /\ Tail(popup[p].mail) \in Seq(Progress)
  BY <1>1 DEF Popup
<1>3. /\ RenderProgress(m.run, m.current, m.total) \in Status
      /\ RenderProgress(m.run, m.current, m.total).kind # "answer"
  BY <1>2, LinesAreStatus DEF RenderProgress, Line
<1>4. /\ a \in Popup /\ a.status = popup[p].status /\ a.life = "open"
      /\ a.clicks = popup[p].clicks /\ a.click = popup[p].click
      /\ a.activeRunId = popup[p].activeRunId
  BY <1>1, <1>2 DEF Popup
<1>5. /\ b \in Popup /\ b.status.kind # "answer" /\ b.life = "open"
      /\ b.clicks = popup[p].clicks /\ b.click = popup[p].click
      /\ b.activeRunId = popup[p].activeRunId
  BY <1>3, <1>4 DEF Popup
<1>6. popup[p].clicks \in Nat
  BY <1>1, SessionAssumption DEF Popup
<1> HIDE DEF m, a, b
<1> QED BY <1>1, <1>4, <1>5, <1>6, PopupKeeps


-----------------------------------------------------------------------------
\* What a popup keeps while a run moves on: all but its mail, and perhaps the wait
\* for its tab, if it is the one that sends this very run.
SamePopup(p, id) ==
  /\ popup'[p].status = popup[p].status \/ popup'[p].status.kind # "answer"
  /\ popup'[p].life = popup[p].life /\ popup'[p].clicks = popup[p].clicks
  /\ popup'[p].click = "query" =>
       /\ popup[p].click = "query" /\ popup'[p].activeRunId = popup[p].activeRunId
       /\ popup[p].activeRunId # id

\* A run that is not over moves on.
LEMMA RunKeeps ==
  ASSUME IInv, NEW id \in Runs, NEW s \in Run, SetRun(id, s),
         UNCHANGED <<tab, copies>>, Delivery!TypeOK', SavedInv',
         popup' \in [Popups -> Popup], \A p \in Popups : SamePopup(p, id),
         run[id].pc # "over",
         run[id].pc # "unsent" \/ \E p \in Popups : id = <<p, popup[p].clicks>>,
         s.pc = "judge" => s.i <= s.total,
         s.pc = "answered" /\ s.reply = "best" /\ ~s.warning =>
           \A k \in 1 .. s.total : copies[<<id, k>>] # {}
  PROVE  IInv'
<1>1. run' \in [Runs -> Run] /\ run'[id] = s
      /\ \A q \in Runs \ {id} : run'[q] = run[q]
  BY DEF IInv, TypeOK, SetRun
<1>2. TypeOK'
  BY <1>1 DEF IInv, TypeOK
<1>3. \A q \in Runs \ {id} : Stored(q) => Stored(q)'
  BY <1>1 DEF Stored, ReportsOf
<1>4. s.pc = "answered" /\ s.reply = "best" /\ ~s.warning => Stored(id)'
  BY <1>1 DEF Stored, ReportsOf
<1>5. ASSUME NEW q \in Runs PROVE RunInv(q)'
  <2>1. CASE q = id
    BY <1>1, <1>4, <2>1 DEF RunInv, Quiet
  <2>2. CASE q # id
    BY <1>1, <1>3, <2>2 DEF IInv, RunInv, Quiet
  <2> QED BY <2>1, <2>2
<1>6. ASSUME NEW p \in Popups PROVE AnswerInv(p)'
  <2>1. CASE popup'[p].status.kind # "answer"
    BY <2>1 DEF AnswerInv
  <2>2. CASE popup'[p].status = popup[p].status /\ popup[p].status.kind = "answer"
    <3>1. popup[p].status \in Status
      BY DEF IInv, TypeOK, Popup
    <3>2. PICK q \in Runs : q = popup[p].status.run
      BY <2>2, <3>1 DEF Status, Lines
    <3>3. run[q].pc = "over"
          /\ Quiet(popup[p].status.reply, popup[p].status.warning, q)
      BY <2>2, <3>2 DEF IInv, AnswerInv
    <3>4. run'[q].pc = "over" /\ (Stored(q) => Stored(q)')
      BY <1>1, <1>3, <3>3
    <3> QED BY <2>2, <3>2, <3>3, <3>4 DEF AnswerInv, Quiet
  <2> QED BY <2>1, <2>2 DEF SamePopup
<1>7. ASSUME NEW p \in Popups PROVE ClickInv(p)'
  <2>1. ClickInv(p) /\ SamePopup(p, id)
    BY DEF IInv
  <2>2. ASSUME NEW k \in 1 .. MaxClicks, k > popup[p].clicks, popup[p].life # "closed"
        PROVE  run'[<<p, k>>].pc = "unsent"
    <3>1. run[<<p, k>>].pc = "unsent" /\ <<p, k>> \in Runs
      BY <2>1, <2>2 DEF ClickInv, Runs
    <3>2. popup[p].clicks \in Nat
      BY SessionAssumption DEF IInv, TypeOK, Popup
    <3>3. <<p, k>> # id
      BY <2>2, <3>1, <3>2
    <3> QED BY <1>1, <3>1, <3>3
  <2>3. ASSUME popup'[p].click = "query"
        PROVE  /\ popup'[p].activeRunId = <<p, popup'[p].clicks>>
               /\ popup'[p].activeRunId \in Runs
               /\ run'[popup'[p].activeRunId].pc = "unsent"
    BY <1>1, <2>1, <2>3 DEF ClickInv, SamePopup
  <2> QED BY <2>1, <2>2, <2>3 DEF ClickInv, SamePopup
<1> QED BY <1>2, <1>5, <1>6, <1>7 DEF IInv

\* A run that moves on by itself: no popup takes part, no report either.
LEMMA ScriptKeeps ==
  ASSUME IInv, NEW id \in Runs, NEW s \in Run, SetRun(id, s),
         UNCHANGED <<popup, tab, outcome, copies>>,
         run[id].pc \in {"sent", "head", "judge", "collect"},
         s.pc = "judge" => s.i <= s.total,
         s.pc = "answered" /\ s.reply = "best" /\ ~s.warning =>
           \A k \in 1 .. s.total : copies[<<id, k>>] # {}
  PROVE  IInv'
<1>1. \A p \in Popups : SamePopup(p, id)
  BY DEF SamePopup, IInv, ClickInv
<1>2. Delivery!TypeOK' /\ SavedInv' /\ popup' \in [Popups -> Popup]
  BY DEF IInv, TypeOK, Delivery!TypeOK, Delivery!Attempts, SavedInv
<1> QED BY <1>1, <1>2, RunKeeps

LEMMA BeginKeeps == ASSUME IInv, NEW id \in Runs, Begin(id) PROVE IInv'
<1>1. PICK codes \in Candidates :
        SetRun(id, CASE ~tab.page.profile \/ codes = 0 ->
                          Answered(run[id], "unsupported", FALSE)
                     [] tab.page.profile /\ codes # 0 /\ ~tab.page.total ->
                          Answered(run[id], "none", FALSE)
                     [] tab.page.profile /\ codes # 0 /\ tab.page.total ->
                          [run[id] EXCEPT !.pc = "head", !.total = codes])
  BY DEF Begin
<1>2. /\ run[id] \in Run /\ run[id].pc = "sent" /\ codes \in 0 .. MaxTotal
      /\ tab.page \in Page /\ UNCHANGED <<popup, tab, outcome, copies>>
  BY CandidatesAreCounts, SessionAssumption DEF Begin, IInv, TypeOK, Elsewhere
<1> DEFINE a == Answered(run[id], "unsupported", FALSE)
           b == Answered(run[id], "none", FALSE)
           c == [run[id] EXCEPT !.pc = "head", !.total = codes]
<1>3. /\ a \in Run /\ a.pc = "answered" /\ a.reply = "unsupported"
      /\ b \in Run /\ b.pc = "answered" /\ b.reply = "none"
      /\ c \in Run /\ c.pc = "head"
  BY <1>2 DEF Answered, Run, Replies
<1>4. SetRun(id, a) \/ SetRun(id, b) \/ SetRun(id, c)
  <2>1. tab.page.profile \in BOOLEAN /\ tab.page.total \in BOOLEAN
    BY <1>2 DEF Page
  <2> HIDE DEF a, b, c
  <2>2. CASE ~tab.page.profile \/ codes = 0
    BY <1>1, <2>1, <2>2 DEF a
  <2>3. CASE tab.page.profile /\ codes # 0 /\ ~tab.page.total
    BY <1>1, <2>1, <2>3 DEF b
  <2>4. CASE tab.page.profile /\ codes # 0 /\ tab.page.total
    BY <1>1, <2>1, <2>4 DEF c
  <2> QED BY <2>2, <2>3, <2>4
<1> HIDE DEF a, b, c
<1> QED BY <1>2, <1>3, <1>4, ScriptKeeps


LEMMA EndLoopKeeps == ASSUME IInv, NEW id \in Runs, EndLoop(id) PROVE IInv'
<1> DEFINE a == [run[id] EXCEPT !.pc = "collect"]
           b == Answered(run[id], "none", FALSE)
<1>1. /\ run[id] \in Run /\ run[id].pc = "head"
      /\ SetRun(id, a) \/ SetRun(id, b)
      /\ UNCHANGED <<popup, tab, outcome, copies>>
  BY DEF EndLoop, IInv, TypeOK, Elsewhere
<1>2. /\ a \in Run /\ a.pc = "collect"
      /\ b \in Run /\ b.pc = "answered" /\ b.reply = "none"
  BY <1>1 DEF Answered, Run, Replies
<1> HIDE DEF a, b
<1> QED BY <1>1, <1>2, ScriptKeeps

\* The answer that names a winner waited for every report: without a loss among
\* them, each was saved, and so it is in the history.
LEMMA CollectKeeps == ASSUME IInv, NEW id \in Runs, Collect(id) PROVE IInv'
<1> DEFINE lost == \E r \in ReportsOf(id) : outcome[r] = "lost"
           s == Answered(run[id], "best", lost)
<1>1. /\ run[id] \in Run /\ run[id].pc = "collect" /\ SetRun(id, s)
      /\ \A r \in ReportsOf(id) : outcome[r] \in {"saved", "lost"}
      /\ UNCHANGED <<popup, tab, outcome, copies>>
  BY DEF Collect, IInv, TypeOK, Elsewhere
<1>2. lost \in BOOLEAN
  OBVIOUS
<1>3. s \in Run /\ s.pc = "answered" /\ s.total = run[id].total /\ s.warning = lost
  <2> HIDE DEF lost
  <2> QED BY <1>1, <1>2 DEF Answered, Run, Replies
<1>4. ASSUME ~lost, NEW k \in 1 .. run[id].total PROVE copies[<<id, k>>] # {}
  <2>1. <<id, k>> \in ReportsOf(id)
    BY DEF ReportsOf
  <2>2. outcome[<<id, k>>] = "saved"
    BY <1>1, <1>4, <2>1
  <2>3. <<id, k>> \in Reports
    <3>1. run[id].total \in 0 .. MaxTotal /\ MaxTotal \in Nat
      BY <1>1, SessionAssumption DEF Run
    <3> QED BY <3>1 DEF Reports
  <2> QED BY <2>2, <2>3 DEF IInv, SavedInv
<1> HIDE DEF s, lost
<1> QED BY <1>1, <1>3, <1>4, ScriptKeeps

\* The report of the code just tested is fired.
LEMMA JudgeKeeps == ASSUME IInv, NEW id \in Runs, Judge(id) PROVE IInv'
<1>1. PICK better \in BOOLEAN :
        SetRun(id, [run[id] EXCEPT !.pc = "head", !.i = @ + 1, !.won = @ \/ better])
  BY DEF Judge
<1> DEFINE s == [run[id] EXCEPT !.pc = "head", !.i = @ + 1, !.won = @ \/ better]
<1>2. /\ run[id] \in Run /\ run[id].pc = "judge" /\ run[id].i <= run[id].total
      /\ UNCHANGED <<popup, tab, copies>> /\ Delivery!Fire(<<id, run[id].i>>)
  BY DEF Judge, IInv, TypeOK, RunInv, Delivery!Fire
<1>3. run[id].i + 1 \in 1 .. MaxTotal + 1
  BY <1>2, SessionAssumption DEF Run
<1>4. (run[id].won \/ better) \in BOOLEAN
  BY <1>2 DEF Run
<1>5. s \in Run /\ s.pc = "head"
  BY <1>2, <1>3, <1>4 DEF Run
<1>6. Delivery!TypeOK' /\ SavedInv'
  BY <1>2 DEF Delivery!Fire, Delivery!TypeOK, Delivery!Attempts, SavedInv, IInv, TypeOK
<1>7. \A p \in Popups : SamePopup(p, id)
  BY <1>2 DEF SamePopup, IInv, ClickInv
<1>8. popup' \in [Popups -> Popup]
  BY <1>2 DEF IInv, TypeOK
<1> HIDE DEF s
<1>9. SetRun(id, s) /\ UNCHANGED <<tab, copies>>
  BY <1>1, <1>2 DEF s
<1> QED BY <1>2, <1>5, <1>6, <1>7, <1>8, <1>9, RunKeeps

\* A broadcast reaches the mail of every popup that is open.
LEMMA AnnounceKeeps == ASSUME IInv, NEW id \in Runs, Announce(id) PROVE IInv'
<1> DEFINE m == [run |-> id, current |-> run[id].i, total |-> run[id].total]
           s == [run[id] EXCEPT !.pc = "judge"]
<1>1. /\ run[id] \in Run /\ run[id].pc = "head" /\ run[id].i <= run[id].total
      /\ SetRun(id, s) /\ UNCHANGED <<tab, outcome, copies>>
      /\ popup' = [p \in Popups |->
                     IF Open(p) THEN [popup[p] EXCEPT !.mail = Append(@, m)] ELSE popup[p]]
  BY DEF Announce, IInv, TypeOK, Elsewhere
<1>2. m \in Progress
  <2>1. run[id].i \in 1 .. MaxTotal /\ run[id].total \in 1 .. MaxTotal
    BY <1>1, SessionAssumption DEF Run
  <2> QED BY <2>1 DEF Progress
<1>3. s \in Run /\ s.pc = "judge" /\ s.i = run[id].i /\ s.total = run[id].total
  BY <1>1 DEF Run
<1> HIDE DEF m, s
<1>4. ASSUME NEW p \in Popups
      PROVE  /\ popup'[p] \in Popup /\ SamePopup(p, id)
  <2> DEFINE n == [popup[p] EXCEPT !.mail = Append(@, m)]
  <2>1. popup[p] \in Popup
    BY DEF IInv, TypeOK
  <2>2. Append(popup[p].mail, m) \in Seq(Progress)
    BY <1>2, <2>1 DEF Popup
  <2>3. /\ n \in Popup /\ n.status = popup[p].status /\ n.life = popup[p].life
        /\ n.clicks = popup[p].clicks /\ n.click = popup[p].click
        /\ n.activeRunId = popup[p].activeRunId
    BY <2>1, <2>2 DEF Popup
  <2> HIDE DEF n
  <2>4. popup'[p] = n \/ popup'[p] = popup[p]
    BY <1>1 DEF n
  <2>5. popup[p].click = "query" => popup[p].activeRunId # id
    BY <1>1 DEF IInv, ClickInv
  <2> QED BY <2>1, <2>3, <2>4, <2>5 DEF SamePopup
<1>5. popup' \in [Popups -> Popup]
  <2>1. DOMAIN popup' = Popups
    BY <1>1
  <2> QED BY <1>1, <1>4, <2>1
<1>6. Delivery!TypeOK' /\ SavedInv'
  BY <1>1 DEF Delivery!TypeOK, Delivery!Attempts, SavedInv, IInv, TypeOK
<1> QED BY <1>1, <1>3, <1>4, <1>5, <1>6, RunKeeps

\* The run of the last click is sent, or its tab has no script.
LEMMA ClickSendsKeeps == ASSUME IInv, NEW p \in Popups, ClickSends(p) PROVE IInv'
<1>1. PICK id \in Runs : /\ id = popup[p].activeRunId
                         /\ id = <<p, popup[p].clicks>> /\ run[id].pc = "unsent"
  BY DEF ClickSends, IInv, ClickInv
<1> DEFINE n == [popup[p] EXCEPT !.status = Line("testing"), !.click = "sent"]
           s == [run[id] EXCEPT !.pc = IF tab.page.script THEN "sent" ELSE "dead"]
<1>2. /\ popup[p] \in Popup /\ run[id] \in Run /\ popup[p].life = "open"
      /\ SetPopup(p, n) /\ SetRun(id, s) /\ UNCHANGED <<tab, outcome, copies>>
  BY <1>1 DEF ClickSends, Open, IInv, TypeOK, Elsewhere
<1>3. Line("testing") \in Status /\ Line("testing").kind # "answer"
  BY LinesAreStatus DEF Lines, Line
<1>4. /\ n \in Popup /\ n.status = Line("testing") /\ n.life = popup[p].life
      /\ n.clicks = popup[p].clicks /\ n.click = "sent"
  BY <1>2, <1>3 DEF Popup
<1>5. s \in Run /\ s.pc \in {"sent", "dead"}
  BY <1>2 DEF Run
<1> HIDE DEF n, s
<1>6. popup' \in [Popups -> Popup] /\ popup'[p] = n
      /\ \A q \in Popups \ {p} : popup'[q] = popup[q]
  BY <1>2, <1>4 DEF SetPopup, IInv, TypeOK
<1>7. ASSUME NEW q \in Popups PROVE SamePopup(q, id)
  <2>1. CASE q = p
    BY <1>3, <1>4, <1>6, <2>1 DEF SamePopup
  <2>2. CASE q # p
    <3>1. popup[q].click = "query" => popup[q].activeRunId # id
      BY <1>1, <2>2 DEF IInv, ClickInv
    <3> QED BY <1>6, <2>2, <3>1 DEF SamePopup
  <2> QED BY <2>1, <2>2
<1>8. Delivery!TypeOK' /\ SavedInv'
  BY <1>2 DEF Delivery!TypeOK, Delivery!Attempts, SavedInv, IInv, TypeOK
<1> QED BY <1>1, <1>2, <1>5, <1>6, <1>7, <1>8, RunKeeps


-----------------------------------------------------------------------------
\* A popup that is told of its run: by then the run is over, and what it answered is
\* shown if it is the active one.
LEMMA CallbackKeeps == ASSUME IInv, NEW id \in Runs, Callback(id) PROVE IInv'
<1> DEFINE r == run[id]
           s == [Unsent EXCEPT !.pc = "over", !.total = run[id].total]
           p == id[1]
<1>1. /\ r \in Run /\ r.pc \in {"answered", "dead"} /\ SetRun(id, s) /\ RunInv(id)
      /\ UNCHANGED <<tab, outcome, copies>> /\ p \in Popups /\ popup[p] \in Popup
  BY DEF Callback, IInv, TypeOK, Elsewhere, Runs
<1>2. s \in Run /\ s.pc = "over" /\ s.total = r.total
  BY <1>1, FreshAreWellFormed DEF Unsent, Run
<1>3. /\ run' \in [Runs -> Run] /\ run'[id] = s
      /\ \A q \in Runs \ {id} : run'[q] = run[q]
  BY <1>1, <1>2 DEF SetRun, IInv, TypeOK
<1>4. \A q \in Runs : Stored(q) => Stored(q)'
  BY <1>1, <1>2, <1>3 DEF Stored, ReportsOf
<1> DEFINE status == IF r.pc = "dead" THEN Line("connectError")
                     ELSE RenderAnswer(id, r.reply, r.warning)
           n == Ended(popup[p], status)
<1>5. /\ status \in Status
      /\ status.kind = "answer" =>
           /\ status.run = id /\ status.reply = r.reply /\ status.warning = r.warning
           /\ r.pc = "answered"
  <2>1. r.reply \in Replies /\ r.warning \in BOOLEAN
    BY <1>1 DEF Run
  <2>2. Line("connectError") \in Status /\ Line("connectError").kind # "answer"
    BY LinesAreStatus DEF Lines, Line
  <2>3. RenderAnswer(id, r.reply, r.warning) \in Status
    BY <2>1, LinesAreStatus
  <2> HIDE DEF r
  <2> QED BY <1>1, <2>2, <2>3 DEF RenderAnswer
<1>6. /\ n \in Popup /\ n.status = status /\ n.life = popup[p].life
      /\ n.clicks = popup[p].clicks /\ n.click = "idle"
  <2> HIDE DEF status
  <2> QED BY <1>1, <1>5 DEF Ended, Popup
<1>7. popup' = [popup EXCEPT ![p] = n] \/ popup' = popup
  <2>1. [popup EXCEPT ![p] = popup[p]] = popup
    BY DEF IInv, TypeOK
  <2> QED BY <2>1 DEF Callback, Called, SetPopup
<1> HIDE DEF r, s, p, status, n
<1>8. /\ popup' \in [Popups -> Popup]
      /\ \A q \in Popups : popup'[q] = popup[q] \/ (q = p /\ popup'[q] = n)
  BY <1>1, <1>6, <1>7 DEF IInv, TypeOK
<1>9. TypeOK' /\ SavedInv'
  BY <1>1, <1>3, <1>8 DEF IInv, TypeOK, Delivery!TypeOK, Delivery!Attempts, SavedInv
<1>10. ASSUME NEW q \in Runs PROVE RunInv(q)'
  BY <1>2, <1>3, <1>4 DEF IInv, RunInv, Quiet
<1>11. ASSUME NEW q \in Popups PROVE AnswerInv(q)'
  <2>1. CASE popup'[q] = popup[q] /\ popup[q].status.kind = "answer"
    <3>1. popup[q].status \in Status
      BY DEF IInv, TypeOK, Popup
    <3>2. PICK z \in Runs : z = popup[q].status.run
      BY <2>1, <3>1 DEF Status, Lines
    <3>3. run[z].pc = "over"
          /\ Quiet(popup[q].status.reply, popup[q].status.warning, z)
      BY <2>1, <3>2 DEF IInv, AnswerInv
    <3>4. run'[z].pc = "over" /\ (Stored(z) => Stored(z)')
      BY <1>2, <1>3, <1>4, <3>3
    <3> QED BY <2>1, <3>2, <3>3, <3>4 DEF AnswerInv, Quiet
  <2>2. CASE q = p /\ popup'[q] = n /\ status.kind = "answer"
    <3>1. r.reply = "best" /\ ~r.warning => Stored(id)
      BY <1>1, <1>5, <2>2 DEF RunInv, Quiet, r
    <3>2. /\ popup'[q].status.run = id /\ run'[id].pc = "over"
          /\ popup'[q].status.reply = r.reply /\ popup'[q].status.warning = r.warning
      BY <1>2, <1>3, <1>5, <1>6, <2>2
    <3> QED BY <1>4, <3>1, <3>2 DEF AnswerInv, Quiet
  <2>3. CASE popup'[q].status.kind # "answer"
    BY <2>3 DEF AnswerInv
  <2> QED BY <1>6, <1>8, <2>1, <2>2, <2>3
<1>12. ASSUME NEW q \in Popups PROVE ClickInv(q)'
  <2>1. /\ popup'[q].life = popup[q].life /\ popup'[q].clicks = popup[q].clicks
        /\ popup'[q].click = "query" =>
             popup[q].click = "query" /\ popup'[q].activeRunId = popup[q].activeRunId
    BY <1>6, <1>8
  <2>2. ClickInv(q) /\ \A z \in Runs : run[z].pc = "unsent" => run'[z].pc = "unsent"
    BY <1>1, <1>3 DEF IInv, r
  <2>3. popup'[q].life # "closed" =>
          \A k \in 1 .. MaxClicks : k > popup'[q].clicks => run'[<<q, k>>].pc = "unsent"
    BY <2>1, <2>2 DEF ClickInv, Runs
  <2> QED BY <2>1, <2>2, <2>3 DEF ClickInv
<1> QED BY <1>9, <1>10, <1>11, <1>12 DEF IInv

\* The page goes, and its runs with it; no run that is over, or still to come, is
\* touched.
LEMMA NavigateKeeps == ASSUME IInv, Navigate PROVE IInv'
<1> DEFINE dead(id) == [Unsent EXCEPT !.pc = "dead", !.total = run[id].total]
<1>1. /\ run' = [id \in Runs |->
                   IF run[id].pc \in {"sent", "head", "judge", "collect"}
                   THEN dead(id) ELSE run[id]]
      /\ UNCHANGED <<popup, outcome, copies>>
  BY DEF Navigate
<1>2. ASSUME NEW id \in Runs
      PROVE  /\ run[id] \in Run /\ dead(id) \in Run
             /\ dead(id).pc = "dead" /\ dead(id).total = run[id].total
  BY FreshAreWellFormed DEF IInv, TypeOK, Unsent, Run
<1>3. tab' \in [page: Pages, visits: 0 .. MaxVisits]
  <2>1. tab.visits \in 0 .. MaxVisits /\ tab.visits < MaxVisits /\ MaxVisits \in Nat
    BY SessionAssumption DEF Navigate, IInv, TypeOK
  <2>2. tab.visits + 1 \in 0 .. MaxVisits
    BY <2>1
  <2>3. PICK page \in Pages : tab' = [page |-> page, visits |-> tab.visits + 1]
    BY DEF Navigate
  <2> QED BY <2>2, <2>3
<1> HIDE DEF dead
<1>4. /\ run' \in [Runs -> Run]
      /\ \A id \in Runs : /\ run'[id].total = run[id].total
                          /\ run'[id] = run[id] \/ run'[id].pc = "dead"
                          /\ run[id].pc \in {"over", "unsent"} => run'[id] = run[id]
  BY <1>1, <1>2
<1>5. TypeOK' /\ SavedInv'
  BY <1>1, <1>3, <1>4 DEF IInv, TypeOK, Delivery!TypeOK, Delivery!Attempts, SavedInv
<1>6. \A id \in Runs : Stored(id) => Stored(id)'
  BY <1>1, <1>4 DEF Stored, ReportsOf
<1>7. ASSUME NEW id \in Runs PROVE RunInv(id)'
  BY <1>4, <1>6 DEF IInv, RunInv, Quiet
<1>8. ASSUME NEW p \in Popups PROVE AnswerInv(p)'
  <2>1. CASE popup[p].status.kind = "answer"
    <3>1. popup[p].status \in Status
      BY DEF IInv, TypeOK, Popup
    <3>2. PICK z \in Runs : z = popup[p].status.run
      BY <2>1, <3>1 DEF Status, Lines
    <3>3. run'[z].pc = "over" /\ (Stored(z) => Stored(z)')
          /\ Quiet(popup[p].status.reply, popup[p].status.warning, z)
      BY <1>4, <1>6, <2>1, <3>2 DEF IInv, AnswerInv
    <3> QED BY <1>1, <3>2, <3>3 DEF AnswerInv, Quiet
  <2>2. CASE popup[p].status.kind # "answer"
    BY <1>1, <2>2 DEF AnswerInv
  <2> QED BY <2>1, <2>2
<1>9. ASSUME NEW p \in Popups PROVE ClickInv(p)'
  <2>1. popup[p].life # "closed" =>
          \A k \in 1 .. MaxClicks : k > popup[p].clicks => run'[<<p, k>>].pc = "unsent"
    BY <1>4 DEF IInv, ClickInv, Runs
  <2> QED BY <1>1, <1>4, <2>1 DEF IInv, ClickInv
<1> QED BY <1>5, <1>7, <1>8, <1>9 DEF IInv

\* What becomes of a report: it is saved only when it is stored, and what is stored
\* stays so.
LEMMA ReportKeeps ==
  ASSUME IInv, NEW r \in Reports, ReportSettles(r) \/ ServerStores(r)
  PROVE  IInv'
<1>1. UNCHANGED <<popup, run, tab>>
  BY DEF ReportSettles, ServerStores
<1>2. Delivery!Confirm(r) \/ Delivery!GiveUp(r) \/ Delivery!Record(r)
  BY DEF ReportSettles, ServerStores
<1>3. Delivery!TypeOK /\ SavedInv
  BY DEF IInv, TypeOK
<1>4. \A q \in Reports : copies[q] # {} => copies'[q] # {}
  BY <1>2, <1>3 DEF Delivery!Confirm, Delivery!GiveUp, Delivery!Record, Delivery!TypeOK
<1>5. SavedInv'
  BY <1>2, <1>3, <1>4
     DEF SavedInv, Delivery!Confirm, Delivery!GiveUp, Delivery!Record, Delivery!TypeOK
<1>6. TypeOK'
  BY <1>1, <1>2
     DEF IInv, TypeOK, Delivery!Confirm, Delivery!GiveUp, Delivery!Record,
         Delivery!TypeOK, Delivery!Attempts
<1>7. ASSUME NEW id \in Runs, Stored(id) PROVE Stored(id)'
  <2>1. run[id].total \in 0 .. MaxTotal /\ MaxTotal \in Nat
    BY SessionAssumption DEF IInv, TypeOK, Run
  <2>2. ReportsOf(id) \subseteq Reports
    BY <2>1 DEF ReportsOf, Reports
  <2> QED BY <1>1, <1>4, <1>7, <2>2 DEF Stored, ReportsOf
<1>8. \A id \in Runs : RunInv(id)'
  BY <1>1, <1>7 DEF IInv, RunInv, Quiet
<1>9. ASSUME NEW p \in Popups PROVE AnswerInv(p)' /\ ClickInv(p)'
  <2>1. CASE popup[p].status.kind = "answer"
    <3>1. popup[p].status \in Status
      BY DEF IInv, TypeOK, Popup
    <3>2. popup[p].status.run \in Runs
      BY <2>1, <3>1 DEF Status, Lines
    <3> QED BY <1>1, <1>7, <3>2 DEF IInv, AnswerInv, ClickInv, Quiet
  <2>2. CASE popup[p].status.kind # "answer"
    BY <1>1, <2>2 DEF IInv, AnswerInv, ClickInv
  <2> QED BY <2>1, <2>2
<1> QED BY <1>5, <1>6, <1>8, <1>9 DEF IInv

-----------------------------------------------------------------------------
LEMMA InitInv == ASSUME Init PROVE IInv
<1>1. popup \in [Popups -> Popup] /\ run \in [Runs -> Run]
  BY FreshAreWellFormed DEF Init
<1>2. tab \in [page: Pages, visits: 0 .. MaxVisits]
  BY SessionAssumption DEF Init
<1>3. Delivery!TypeOK /\ SavedInv
  BY DEF Init, Delivery!Init, Delivery!TypeOK, SavedInv
<1>4. \A p \in Popups : ClickInv(p) /\ AnswerInv(p)
  BY DEF Init, ClickInv, AnswerInv, Unopened, Unsent, Line, Runs
<1>5. \A id \in Runs : RunInv(id)
  BY DEF Init, RunInv, Unsent
<1> QED BY <1>1, <1>2, <1>3, <1>4, <1>5 DEF IInv, TypeOK

LEMMA NextInv == ASSUME IInv, [Next]_vars PROVE IInv'
<1>1. ASSUME NEW p \in Popups, User(p) PROVE IInv'
  BY <1>1, OpenKeeps, CloseKeeps, ClickKeeps DEF User
<1>2. ASSUME NEW p \in Popups, PopupStep(p) PROVE IInv'
  BY <1>2, SupportKeeps, ClickFailsKeeps, ClickSendsKeeps, ProgressKeeps DEF PopupStep
<1>3. ASSUME NEW id \in Runs, Script(id) \/ Callback(id) PROVE IInv'
  BY <1>3, BeginKeeps, AnnounceKeeps, JudgeKeeps, EndLoopKeeps, CollectKeeps,
     CallbackKeeps DEF Script
<1>4. ASSUME NEW r \in Reports, ReportSettles(r) \/ ServerStores(r) PROVE IInv'
  BY <1>4, ReportKeeps
<1>5. CASE Navigate
  BY <1>5, NavigateKeeps
<1>6. CASE UNCHANGED vars
  BY <1>6
     DEF vars, IInv, TypeOK, Delivery!TypeOK, Delivery!Attempts, SavedInv, ClickInv,
         AnswerInv, RunInv, Quiet, Stored, ReportsOf
<1> QED BY <1>1, <1>2, <1>3, <1>4, <1>5, <1>6 DEF Next

LEMMA Invariance == Spec => []IInv
<1>1. Init => IInv
  BY InitInv
<1>2. IInv /\ [Next]_vars => IInv'
  BY NextInv
<1> QED BY <1>1, <1>2, PTL DEF Spec

\* Popups, runs and reports keep their types: in particular a broadcast is always of
\* a code of its list, and what a popup shows is one of its lines.
THEOREM TypeCorrect == Spec => []TypeOK
<1>1. IInv => TypeOK
  BY DEF IInv
<1> QED BY <1>1, Invariance, PTL

\* A popup that names a winner without "result not saved" is right, whatever popups are
\* closed and opened, tabs navigated and reports delayed meanwhile.
THEOREM QuietIsRight == Spec => []QuietMeansStored
<1>1. IInv => QuietMeansStored
  BY DEF IInv, AnswerInv, Quiet, Stored, QuietMeansStored
<1> QED BY <1>1, Invariance, PTL

-----------------------------------------------------------------------------
(* The status of a popup tells the story of its last click, for any number   *)
(* of popups, clicks and pages: broadcasts of a run reach a popup in the      *)
(* order of its codes, and what is shown is behind all that are on their way. *)

\* The run has come as far as to announce its n-th code.
Announced(id, n) ==
  /\ run[id].pc \notin {"unsent", "sent"}
  /\ run[id].pc = "head" => n < run[id].i
  /\ run[id].pc = "judge" => n <= run[id].i

\* The broadcasts on their way to a popup were made, each run's in order.
MailInv(p) ==
  LET mail == popup[p].mail
  IN \A k \in DOMAIN mail :
       /\ mail[k].current <= mail[k].total
       /\ Announced(mail[k].run, mail[k].current)
       /\ \A j \in DOMAIN mail :
            j < k /\ mail[j].run = mail[k].run => mail[j].current < mail[k].current

\* The active run is that of the last click, and progress that is shown is of the
\* active run and behind what is on its way.
StoryInv(p) ==
  LET s == popup[p]
  IN /\ s.life = "unopened" => s.clicks = 0
     /\ s.activeRunId # NoRun => s.activeRunId = <<p, s.clicks>>
     /\ s.status.kind = "progress" =>
          /\ s.activeRunId # NoRun /\ s.status.run = s.activeRunId
          /\ Announced(s.status.run, s.status.at)
          /\ \A k \in DOMAIN s.mail :
               s.mail[k].run = s.status.run => s.status.at < s.mail[k].current

SInv == IInv /\ \A p \in Popups : MailInv(p) /\ StoryInv(p)

-----------------------------------------------------------------------------
(* The runs.                                                                *)

\* A run goes through its codes in order and never takes an announcement back.
LEMMA AnnouncedStays ==
  ASSUME IInv, [Next]_vars, NEW id \in Runs, NEW n \in Int, Announced(id, n)
  PROVE  Announced(id, n)'
<1>1. run[id] \in Run /\ run[id].i \in Int
  BY SessionAssumption DEF IInv, TypeOK, Run
<1>2. CASE run'[id] = run[id]
  BY <1>2 DEF Announced
<1>3. ASSUME NEW p \in Popups, ClickSends(p) PROVE run'[id] = run[id]
  BY <1>3 DEF IInv, TypeOK, ClickInv, Announced, ClickSends, SetRun
<1>4. ASSUME NEW z \in Runs, Script(z) PROVE Announced(id, n)'
  <2>1. CASE z # id
    BY <1>2, <1>4, <2>1
       DEF IInv, TypeOK, Script, Begin, Announce, Judge, EndLoop, Collect, SetRun
  <2>2. CASE z = id /\ Begin(z)
    BY <2>2 DEF Announced, Begin
  <2>3. CASE z = id /\ Announce(z)
    <3>1. run'[id] = [run[id] EXCEPT !.pc = "judge"] /\ run[id].pc = "head"
      BY <2>3 DEF IInv, TypeOK, Announce, SetRun
    <3>2. run'[id].pc = "judge" /\ run'[id].i = run[id].i
      BY <1>1, <3>1 DEF Run
    <3> QED BY <1>1, <3>1, <3>2 DEF Announced
  <2>4. CASE z = id /\ Judge(z)
    <3>1. run[id].pc = "judge" /\ run'[id].pc = "head" /\ run'[id].i = run[id].i + 1
      BY <1>1, <2>4 DEF IInv, TypeOK, Run, Judge, SetRun
    <3> QED BY <1>1, <3>1 DEF Announced
  <2>5. CASE z = id /\ EndLoop(z)
    <3>1. run'[id] = IF run[id].won THEN [run[id] EXCEPT !.pc = "collect"]
                     ELSE Answered(run[id], "none", FALSE)
      BY <2>5 DEF IInv, TypeOK, EndLoop, SetRun
    <3>2. run'[id].pc \in {"collect", "answered"}
      BY <1>1, <3>1 DEF Run, Answered
    <3> QED BY <3>2 DEF Announced
  <2>6. CASE z = id /\ Collect(z)
    <3>1. run'[id].pc = "answered"
      BY <1>1, <2>6 DEF IInv, TypeOK, Run, Collect, Answered, SetRun
    <3> QED BY <3>1 DEF Announced
  <2> QED BY <1>4, <2>1, <2>2, <2>3, <2>4, <2>5, <2>6 DEF Script
<1>5. ASSUME NEW z \in Runs, Callback(z) PROVE Announced(id, n)'
  <2>1. run'[id] = run[id] \/ run'[id].pc = "over"
    BY <1>5 DEF IInv, TypeOK, Callback, SetRun, Unsent
  <2> QED BY <1>2, <2>1 DEF Announced
<1>6. ASSUME Navigate PROVE Announced(id, n)'
  <2>1. run'[id] = run[id] \/ run'[id].pc = "dead"
    BY <1>6 DEF Navigate, Unsent
  <2> QED BY <1>2, <2>1 DEF Announced
<1>7. ASSUME \/ \E p \in Popups : User(p) \/ SupportAnswers(p) \/ SupportFails(p)
                                  \/ ClickFails(p) \/ ProgressArrives(p)
             \/ \E r \in Reports : ReportSettles(r) \/ ServerStores(r)
             \/ UNCHANGED vars
      PROVE  run' = run
  BY <1>7
     DEF User, OpenPopup, ClosePopup, Click, SupportAnswers, SupportFails, ClickFails,
         ProgressArrives, ReportSettles, ServerStores, vars
<1> QED BY <1>2, <1>3, <1>4, <1>5, <1>6, <1>7 DEF Next, PopupStep

-----------------------------------------------------------------------------
(* The popups.                                                              *)

\* What is on its way to a popup, and what it shows, are well formed.
LEMMA MailIsProgress ==
  ASSUME IInv, NEW p \in Popups
  PROVE  /\ popup[p] \in Popup /\ popup[p].mail \in Seq(Progress)
         /\ \A k \in DOMAIN popup[p].mail :
              /\ popup[p].mail[k].run \in Runs
              /\ popup[p].mail[k].current \in Int /\ popup[p].mail[k].total \in Int
              /\ popup[p].mail[k].current >= 1 /\ popup[p].mail[k].total >= 1
         /\ popup[p].status.kind = "progress" =>
              popup[p].status.run \in Runs /\ popup[p].status.at \in Int
<1>1. popup[p] \in Popup /\ popup[p].mail \in Seq(Progress) /\ popup[p].status \in Status
  BY DEF IInv, TypeOK, Popup
<1>2. ASSUME NEW k \in DOMAIN popup[p].mail
      PROVE  popup[p].mail[k] \in Progress
  BY <1>1
<1>3. \A m \in Progress :
        m.run \in Runs /\ m.current \in Int /\ m.total \in Int /\ m.current >= 1 /\ m.total >= 1
  BY SessionAssumption DEF Progress
<1>4. popup[p].status.kind = "progress" =>
        popup[p].status.run \in Runs /\ popup[p].status.at \in Int
  BY <1>1, SessionAssumption DEF Status, Lines
<1> QED BY <1>1, <1>2, <1>3, <1>4

\* Mail that is left as it is stays in order.
LEMMA SameMail ==
  ASSUME SInv, [Next]_vars, NEW p \in Popups, popup'[p].mail = popup[p].mail
  PROVE  MailInv(p)'
<1>1. \A k \in DOMAIN popup[p].mail :
        Announced(popup[p].mail[k].run, popup[p].mail[k].current)'
  BY AnnouncedStays, MailIsProgress DEF SInv, MailInv, Announced
<1> QED BY <1>1 DEF SInv, MailInv

\* A popup that shows the same as before, and awaits the same, does so rightly.
LEMMA SameStory ==
  ASSUME SInv, [Next]_vars, NEW p \in Popups, popup'[p] = popup[p]
  PROVE  StoryInv(p)'
<1>1. popup[p].status.kind = "progress" =>
        Announced(popup[p].status.run, popup[p].status.at)'
  BY AnnouncedStays, MailIsProgress DEF SInv, StoryInv, Announced
<1> QED BY <1>1 DEF SInv, StoryInv

\* A step that shows no progress, and leaves the mail or drops it.
LEMMA OtherLine ==
  ASSUME SInv, NEW p \in Popups,
         popup'[p].status.kind # "progress",
         popup'[p].life = "unopened" => popup'[p].clicks = 0,
         popup'[p].activeRunId # NoRun => popup'[p].activeRunId = <<p, popup'[p].clicks>>
  PROVE  StoryInv(p)'
BY DEF StoryInv

\* Everything but a progress line.
LEMMA LinesAreNoProgress ==
  /\ \A kind \in Lines : Line(kind).kind = kind /\ kind # "progress" /\ kind # "answer"
  /\ \A reason \in SupportReasons : RenderSupport(reason).kind = "support"
  /\ \A id, reply, warning :
       /\ RenderAnswer(id, reply, warning).kind = "answer"
       /\ RenderAnswer(id, reply, warning).run = id
BY DEF Line, Lines, RenderSupport, RenderAnswer

-----------------------------------------------------------------------------
(* The steps that move one popup.                                           *)

\* The user opens, closes and clicks.
LEMMA UserStory ==
  ASSUME SInv, [Next]_vars, NEW p \in Popups, User(p)
  PROVE  MailInv(p)' /\ StoryInv(p)'
<1>1. popup[p] \in Popup /\ popup \in [Popups -> Popup]
  BY DEF SInv, IInv, TypeOK
<1>2. CASE OpenPopup(p)
  <2>1. popup'[p] = [popup[p] EXCEPT !.life = "open", !.status = Line("checking"),
                                     !.support = "asked"]
    BY <1>1, <1>2 DEF OpenPopup, SetPopup
  <2>2. /\ popup'[p].mail = popup[p].mail /\ popup'[p].life = "open"
        /\ popup'[p].clicks = popup[p].clicks /\ popup'[p].status = Line("checking")
        /\ popup'[p].activeRunId = popup[p].activeRunId
    BY <1>1, <2>1 DEF Popup
  <2> QED BY <2>2, SameMail, OtherLine, LinesAreNoProgress DEF SInv, StoryInv, Lines
<1>3. CASE ClosePopup(p)
  <2>1. popup'[p] = [Unopened EXCEPT !.life = "closed"]
    BY <1>1, <1>3 DEF ClosePopup, SetPopup
  <2>2. /\ popup'[p].mail = <<>> /\ popup'[p].life = "closed"
        /\ popup'[p].status = Line("empty") /\ popup'[p].activeRunId = NoRun
    BY <2>1 DEF Unopened
  <2> QED BY <2>2, OtherLine, LinesAreNoProgress DEF MailInv, Lines
<1>4. CASE Click(p)
  <2>1. popup'[p] = [popup[p] EXCEPT !.status = Line("scanning"), !.button = FALSE,
                                     !.clicks = @ + 1, !.click = "query",
                                     !.activeRunId = <<p, popup[p].clicks + 1>>]
    BY <1>1, <1>4 DEF Click, SetPopup
  <2>2. /\ popup'[p].mail = popup[p].mail /\ popup'[p].life = popup[p].life
        /\ popup'[p].clicks = popup[p].clicks + 1 /\ popup'[p].status = Line("scanning")
        /\ popup'[p].activeRunId = <<p, popup[p].clicks + 1>>
    BY <1>1, <2>1 DEF Popup
  <2>3. popup'[p].life # "unopened"
    BY <1>4, <2>2 DEF Click, Open
  <2> QED BY <2>2, <2>3, SameMail, OtherLine, LinesAreNoProgress DEF Lines
<1> QED BY <1>2, <1>3, <1>4 DEF User

\* The support check, and the click on its way.
LEMMA QueryStory ==
  ASSUME SInv, [Next]_vars, NEW p \in Popups,
         SupportAnswers(p) \/ SupportFails(p) \/ ClickFails(p) \/ ClickSends(p)
  PROVE  MailInv(p)' /\ StoryInv(p)'
<1>1. popup[p] \in Popup /\ popup \in [Popups -> Popup] /\ popup[p].life = "open"
  BY DEF SInv, IInv, TypeOK, SupportAnswers, SupportFails, ClickFails, ClickSends, Open
<1>2. /\ popup'[p].mail = popup[p].mail /\ popup'[p].life = popup[p].life
      /\ popup'[p].clicks = popup[p].clicks
      /\ popup'[p].activeRunId \in {popup[p].activeRunId, NoRun}
      /\ popup'[p].status.kind # "progress"
  <2>1. CASE SupportAnswers(p)
    <3>1. PICK codes \in Candidates :
            popup'[p] = [popup[p] EXCEPT
              !.support = "settled",
              !.status = RenderSupport(DeriveSupportReason(tab.page, codes))]
      BY <1>1, <2>1 DEF SupportAnswers, SetPopup
    <3> DEFINE line == RenderSupport(DeriveSupportReason(tab.page, codes))
    <3>2. line.kind # "progress"
      BY DEF RenderSupport
    <3>3. popup'[p] = [popup[p] EXCEPT !.support = "settled", !.status = line]
      BY <3>1
    <3> HIDE DEF line
    <3> QED BY <1>1, <3>2, <3>3 DEF Popup
  <2>2. CASE SupportFails(p)
    <3>1. popup'[p] = [popup[p] EXCEPT !.support = "settled",
                                       !.status = Line("unsupportedPage")]
      BY <1>1, <2>2 DEF SupportFails, SetPopup
    <3> QED BY <1>1, <3>1, LinesAreNoProgress DEF Popup, Lines
  <2>3. CASE ClickFails(p)
    <3>1. PICK line \in {Line("connectError"), Line("noActiveTab")} :
            popup'[p] = Ended(popup[p], line)
      BY <1>1, <2>3 DEF ClickFails, SetPopup
    <3>2. line.kind # "progress"
      BY LinesAreNoProgress DEF Lines
    <3> QED BY <1>1, <3>1, <3>2 DEF Popup, Ended
  <2>4. CASE ClickSends(p)
    <3>1. popup'[p] = [popup[p] EXCEPT !.status = Line("testing"), !.click = "sent"]
      BY <1>1, <2>4 DEF ClickSends, SetPopup
    <3> QED BY <1>1, <3>1, LinesAreNoProgress DEF Popup, Lines
  <2> QED BY <2>1, <2>2, <2>3, <2>4
<1>3. popup'[p].mail = popup[p].mail /\ popup'[p].status.kind # "progress"
      /\ popup'[p].life # "unopened"
  BY <1>1, <1>2
<1>4. popup'[p].activeRunId # NoRun => popup'[p].activeRunId = <<p, popup'[p].clicks>>
  BY <1>2 DEF SInv, StoryInv
<1> QED BY <1>3, <1>4, SameMail, OtherLine

\* A broadcast arrives: it is behind what the popup shows of its run, and before
\* what is still to come.
LEMMA ProgressLine ==
  ASSUME SInv, NEW p \in Popups, ProgressArrives(p)
  PROVE  LET m == Head(popup[p].mail)
         IN /\ popup'[p].mail = Tail(popup[p].mail)
            /\ popup'[p].life = "open" /\ popup'[p].clicks = popup[p].clicks
            /\ popup'[p].activeRunId = popup[p].activeRunId
            /\ popup'[p].support = popup[p].support
            /\ \/ popup'[p].status = popup[p].status
               \/ /\ popup[p].activeRunId # NoRun /\ m.run = popup[p].activeRunId
                  /\ popup'[p].status =
                       [kind |-> "progress", run |-> m.run, total |-> m.total, at |-> m.current]
<1> DEFINE m == Head(popup[p].mail)
<1>1. /\ popup[p] \in Popup /\ popup \in [Popups -> Popup]
      /\ popup[p].life = "open" /\ popup[p].mail # <<>> /\ popup[p].mail \in Seq(Progress)
  BY MailIsProgress DEF SInv, IInv, TypeOK, ProgressArrives, Open
<1>2. m = popup[p].mail[1] /\ 1 \in DOMAIN popup[p].mail
  BY <1>1
<1>3. m.current \in Int /\ m.total \in Int /\ 1 <= m.current /\ m.current <= m.total
  BY <1>2, MailIsProgress DEF SInv, MailInv
<1>4. RenderProgress(m.run, m.current, m.total) =
        [kind |-> "progress", run |-> m.run, total |-> m.total, at |-> m.current]
  BY <1>3 DEF RenderProgress
<1>5. popup'[p] =
        IF popup[p].activeRunId # NoRun /\ m.run = popup[p].activeRunId
        THEN [[popup[p] EXCEPT !.mail = Tail(@)] EXCEPT
                !.status = RenderProgress(m.run, m.current, m.total)]
        ELSE [popup[p] EXCEPT !.mail = Tail(@)]
  BY <1>1 DEF ProgressArrives, SetPopup
<1> HIDE DEF m
<1>6. QED
  BY <1>1, <1>4, <1>5 DEF Popup, m

LEMMA ProgressStory ==
  ASSUME SInv, [Next]_vars, NEW p \in Popups, ProgressArrives(p)
  PROVE  MailInv(p)' /\ StoryInv(p)'
<1>0. PICK mail, m : mail = popup[p].mail /\ m = Head(popup[p].mail)
  OBVIOUS
<1>1. mail # <<>> /\ mail \in Seq(Progress) /\ run' = run
  BY <1>0, MailIsProgress DEF SInv, ProgressArrives
<1>2. /\ popup'[p].mail = Tail(mail) /\ m = mail[1] /\ 1 \in DOMAIN mail
      /\ \A k \in DOMAIN Tail(mail) : k + 1 \in DOMAIN mail /\ Tail(mail)[k] = mail[k + 1]
                                   /\ k \in Int /\ k >= 1
  <2>1. popup'[p].mail = Tail(mail)
    BY <1>0, ProgressLine
  <2>2. m = mail[1] /\ 1 \in DOMAIN mail
    BY <1>0, <1>1
  <2>3. ASSUME NEW k \in DOMAIN Tail(mail)
        PROVE  k + 1 \in DOMAIN mail /\ Tail(mail)[k] = mail[k + 1] /\ k \in Int /\ k >= 1
    BY <1>1
  <2> QED BY <2>1, <2>2, <2>3
<1>3. \A k \in DOMAIN mail :
        /\ mail[k].current <= mail[k].total /\ Announced(mail[k].run, mail[k].current)
        /\ Announced(mail[k].run, mail[k].current)'
        /\ \A j \in DOMAIN mail :
             j < k /\ mail[j].run = mail[k].run => mail[j].current < mail[k].current
  BY <1>0, <1>1 DEF SInv, MailInv, Announced
<1>4. MailInv(p)'
  <2>1. ASSUME NEW k \in DOMAIN Tail(mail), NEW j \in DOMAIN Tail(mail), j < k,
               Tail(mail)[j].run = Tail(mail)[k].run
        PROVE  Tail(mail)[j].current < Tail(mail)[k].current
    BY <1>2, <1>3, <2>1
  <2>2. ASSUME NEW k \in DOMAIN Tail(mail)
        PROVE  /\ Tail(mail)[k].current <= Tail(mail)[k].total
               /\ Announced(Tail(mail)[k].run, Tail(mail)[k].current)'
    BY <1>2, <1>3
  <2> QED BY <1>2, <2>1, <2>2 DEF MailInv
<1>5. CASE popup'[p].status = popup[p].status
  <2>1. popup[p].status.kind = "progress" =>
          Announced(popup[p].status.run, popup[p].status.at)'
    BY <1>1, <1>5 DEF SInv, StoryInv, Announced
  <2>2. popup'[p].life = "open" /\ popup'[p].clicks = popup[p].clicks
        /\ popup'[p].activeRunId = popup[p].activeRunId
    BY ProgressLine
  <2>3. StoryInv(p)
    BY DEF SInv
  <2>4. popup[p].status.kind = "progress" =>
          \A k \in DOMAIN Tail(mail) : Tail(mail)[k].run = popup[p].status.run =>
            popup[p].status.at < Tail(mail)[k].current
    BY <1>0, <1>2, <2>3 DEF StoryInv
  <2>5. popup'[p].status.kind = "progress" =>
          /\ popup'[p].activeRunId # NoRun /\ popup'[p].status.run = popup'[p].activeRunId
          /\ Announced(popup[p].status.run, popup[p].status.at)'
          /\ \A k \in DOMAIN Tail(mail) : Tail(mail)[k].run = popup'[p].status.run =>
               popup'[p].status.at < Tail(mail)[k].current
    BY <1>5, <2>1, <2>2, <2>3, <2>4 DEF StoryInv
  <2> QED BY <1>2, <1>4, <2>2, <2>3, <2>5 DEF StoryInv
<1>6. CASE /\ popup[p].activeRunId # NoRun /\ m.run = popup[p].activeRunId
           /\ popup'[p].status =
                [kind |-> "progress", run |-> m.run, total |-> m.total, at |-> m.current]
  <2>1. popup'[p].life = "open" /\ popup'[p].clicks = popup[p].clicks
        /\ popup'[p].activeRunId = popup[p].activeRunId
    BY ProgressLine
  <2>2. Announced(m.run, m.current)'
    BY <1>2, <1>3
  <2>3. \A k \in DOMAIN Tail(mail) :
          Tail(mail)[k].run = m.run => m.current < Tail(mail)[k].current
    BY <1>2, <1>3
  <2>4. StoryInv(p)
    BY DEF SInv
  <2>5. popup'[p].status.kind = "progress" /\ popup'[p].status.run = m.run
        /\ popup'[p].status.at = m.current
    BY <1>6
  <2>6. Announced(popup[p].status.run, popup[p].status.at)'
    BY <2>2, <2>5 DEF Announced
  <2>7. /\ popup'[p].activeRunId # NoRun /\ popup'[p].status.run = popup'[p].activeRunId
        /\ popup'[p].activeRunId = <<p, popup'[p].clicks>>
        /\ \A k \in DOMAIN Tail(mail) : Tail(mail)[k].run = popup'[p].status.run =>
             popup'[p].status.at < Tail(mail)[k].current
    BY <1>6, <2>1, <2>3, <2>4, <2>5 DEF StoryInv
  <2> QED BY <1>2, <1>4, <2>1, <2>6, <2>7 DEF StoryInv
<1> QED BY <1>0, <1>4, <1>5, <1>6, ProgressLine

\* The callback of a click: the last line, and no active run any more.
LEMMA CallbackLine ==
  ASSUME SInv, NEW id \in Runs, Callback(id), NEW p \in Popups, popup'[p] # popup[p]
  PROVE  /\ popup[p].activeRunId = id /\ id = <<p, popup[p].clicks>>
         /\ popup'[p].mail = popup[p].mail /\ popup'[p].life = popup[p].life
         /\ popup'[p].clicks = popup[p].clicks /\ popup'[p].activeRunId = NoRun
         /\ popup'[p].button
         /\ popup'[p].status.kind \in {"answer", "connectError"}
         /\ popup'[p].status.kind = "answer" => popup'[p].status.run = id
<1>1. popup[p] \in Popup /\ popup \in [Popups -> Popup]
  BY DEF SInv, IInv, TypeOK
<1>0. NoRun \notin Runs
  <2>1. MaxPopups \in Nat /\ MaxClicks \in Nat
    BY SessionAssumption
  <2>2. Runs \subseteq Nat \X Nat
    BY <2>1 DEF Runs, Popups
  <2> QED BY <2>2, SessionAssumption
<1>2. p = id[1] /\ Open(p) /\ popup'[p] = Called(popup[p], id, run[id])
  BY <1>1 DEF Callback, SetPopup
<1>3. popup[p].activeRunId = id
  BY <1>2 DEF Called
<1>4. id = <<p, popup[p].clicks>>
  BY <1>0, <1>3 DEF SInv, StoryInv
<1> DEFINE line == IF run[id].pc = "dead" THEN Line("connectError")
                   ELSE RenderAnswer(id, run[id].reply, run[id].warning)
<1>5. line.kind \in {"answer", "connectError"} /\ (line.kind = "answer" => line.run = id)
  BY LinesAreNoProgress DEF Lines
<1>6. popup'[p] = Ended(popup[p], line)
  BY <1>2, <1>3 DEF Called
<1> HIDE DEF line
<1>7. /\ popup'[p].status = line /\ popup'[p].button /\ popup'[p].activeRunId = NoRun
      /\ popup'[p].mail = popup[p].mail /\ popup'[p].life = popup[p].life
      /\ popup'[p].clicks = popup[p].clicks
  BY <1>1, <1>6 DEF Ended, Popup
<1> QED BY <1>3, <1>4, <1>5, <1>7

\* The loop head of a run, seen from any popup.
LEMMA AnnounceStory ==
  ASSUME SInv, [Next]_vars, NEW id \in Runs, Announce(id), NEW p \in Popups, Open(p)
  PROVE  MailInv(p)' /\ StoryInv(p)'
<1>0. PICK mail, m : /\ mail = popup[p].mail
                     /\ m = [run |-> id, current |-> run[id].i, total |-> run[id].total]
  OBVIOUS
<1>1. /\ run[id].pc = "head" /\ run[id].i <= run[id].total
      /\ run'[id].pc = "judge" /\ run'[id].i = run[id].i /\ run[id].i \in Int
  BY SessionAssumption DEF SInv, IInv, TypeOK, Run, Announce, SetRun
<1>2. /\ popup'[p] = [popup[p] EXCEPT !.mail = Append(mail, m)]
      /\ popup[p] \in Popup /\ mail \in Seq(Progress)
  BY <1>0, MailIsProgress DEF SInv, Announce
<1>3. /\ popup'[p].mail = Append(mail, m) /\ popup'[p].status = popup[p].status
      /\ popup'[p].activeRunId = popup[p].activeRunId
      /\ popup'[p].clicks = popup[p].clicks /\ popup'[p].life = popup[p].life
  BY <1>2 DEF Popup
<1>4. /\ DOMAIN Append(mail, m) = 1 .. Len(mail) + 1 /\ DOMAIN mail = 1 .. Len(mail)
      /\ Len(mail) \in Nat
      /\ Append(mail, m)[Len(mail) + 1] = m
      /\ \A k \in DOMAIN mail : Append(mail, m)[k] = mail[k]
  BY <1>2
<1>5. \A k \in DOMAIN mail :
        /\ mail[k].current <= mail[k].total /\ Announced(mail[k].run, mail[k].current)
        /\ Announced(mail[k].run, mail[k].current)'
        /\ \A j \in DOMAIN mail :
             j < k /\ mail[j].run = mail[k].run => mail[j].current < mail[k].current
  <2> SUFFICES ASSUME NEW k \in DOMAIN mail
               PROVE  /\ mail[k].current <= mail[k].total
                      /\ Announced(mail[k].run, mail[k].current)
                      /\ Announced(mail[k].run, mail[k].current)'
                      /\ \A j \in DOMAIN mail : j < k /\ mail[j].run = mail[k].run
                                                  => mail[j].current < mail[k].current
    OBVIOUS
  <2>1. MailInv(p) /\ IInv
    BY DEF SInv
  <2>2. mail[k].run \in Runs /\ mail[k].current \in Int
    BY <1>0, <2>1, MailIsProgress
  <2>3. /\ mail[k].current <= mail[k].total /\ Announced(mail[k].run, mail[k].current)
        /\ \A j \in DOMAIN mail : j < k /\ mail[j].run = mail[k].run
                                 => mail[j].current < mail[k].current
    BY <1>0, <2>1 DEF MailInv
  <2> QED BY <2>1, <2>2, <2>3, AnnouncedStays
<1>7. m.run = id /\ m.current = run[id].i /\ m.total = run[id].total
  BY <1>0
<1>6. Announced(m.run, m.current)' /\ \A n \in Int : Announced(id, n) => n < run[id].i
  BY <1>1, <1>7 DEF Announced
<1>8. \A k \in DOMAIN mail : mail[k].current \in Int /\ mail[k].run \in Runs
  BY <1>0, MailIsProgress DEF SInv
<1>9. MailInv(p)'
  <2>0. PICK new : new = Append(mail, m)
    OBVIOUS
  <2>1. ASSUME NEW k \in DOMAIN new
        PROVE  /\ new[k].current <= new[k].total
               /\ Announced(new[k].run, new[k].current)'
    <3>1. CASE k \in DOMAIN mail
      BY <2>0, <1>4, <1>5, <3>1
    <3>2. CASE k = Len(mail) + 1
      BY <2>0, <1>1, <1>4, <1>6, <1>7, <3>2
    <3> QED BY <2>0, <1>4, <3>1, <3>2
  <2>2. ASSUME NEW k \in DOMAIN new, NEW j \in DOMAIN new, j < k, new[j].run = new[k].run
        PROVE  new[j].current < new[k].current
    <3>1. j \in DOMAIN mail /\ new[j] = mail[j]
      BY <2>0, <1>4, <2>2
    <3>2. CASE k \in DOMAIN mail
      BY <2>0, <1>4, <1>5, <2>2, <3>1, <3>2
    <3>3. CASE k = Len(mail) + 1
      BY <2>0, <1>4, <1>5, <1>6, <1>7, <1>8, <2>2, <3>1, <3>3
    <3> QED BY <2>0, <1>4, <3>2, <3>3
  <2>3. popup'[p].mail = new
    BY <1>3, <2>0
  <2> QED BY <2>1, <2>2, <2>3 DEF MailInv
<1>10. StoryInv(p)'
  <2>1. CASE popup[p].status.kind = "progress"
    <3>1. /\ popup[p].status.run \in Runs /\ popup[p].status.at \in Int
          /\ Announced(popup[p].status.run, popup[p].status.at)
          /\ \A k \in DOMAIN mail :
               mail[k].run = popup[p].status.run => popup[p].status.at < mail[k].current
      BY <1>0, <2>1, MailIsProgress DEF SInv, StoryInv
    <3>2. Announced(popup[p].status.run, popup[p].status.at)'
      BY <1>3, <3>1, AnnouncedStays DEF SInv, Announced
    <3>3. \A k \in DOMAIN Append(mail, m) :
            Append(mail, m)[k].run = popup[p].status.run =>
              popup[p].status.at < Append(mail, m)[k].current
      BY <1>4, <1>6, <1>7, <3>1
    <3> QED BY <1>3, <3>2, <3>3 DEF SInv, StoryInv, Announced
  <2>2. CASE popup[p].status.kind # "progress"
    BY <1>3, <2>2 DEF SInv, StoryInv
  <2> QED BY <2>1, <2>2
<1> QED BY <1>9, <1>10

-----------------------------------------------------------------------------
\* What a step does to one popup: nothing, or one of these.
LEMMA WhoMoves ==
  ASSUME SInv, [Next]_vars, NEW p \in Popups, popup'[p] # popup[p]
  PROVE  \/ User(p) \/ SupportAnswers(p) \/ SupportFails(p) \/ ClickFails(p)
         \/ ClickSends(p) \/ ProgressArrives(p)
         \/ \E id \in Runs : Callback(id) \/ (Announce(id) /\ Open(p))
<1>1. popup \in [Popups -> Popup]
  BY DEF SInv, IInv, TypeOK
<1>2. ASSUME NEW q \in Popups, User(q) \/ PopupStep(q) PROVE q = p
  BY <1>1, <1>2
     DEF User, OpenPopup, ClosePopup, Click, PopupStep, SupportAnswers, SupportFails,
         ClickFails, ClickSends, ProgressArrives, SetPopup
<1>3. ASSUME NEW id \in Runs, Script(id)
      PROVE  Announce(id) /\ Open(p)
  BY <1>1, <1>3 DEF Script, Begin, Announce, Judge, EndLoop, Collect
<1>4. ASSUME \/ \E r \in Reports : ReportSettles(r) \/ ServerStores(r)
             \/ Navigate \/ UNCHANGED vars
      PROVE  FALSE
  BY <1>4 DEF ReportSettles, ServerStores, Navigate, vars
<1> QED BY <1>2, <1>3, <1>4 DEF Next, PopupStep

LEMMA StoryNext == ASSUME SInv, [Next]_vars PROVE SInv'
<1>1. IInv'
  BY NextInv DEF SInv
<1>2. ASSUME NEW p \in Popups PROVE MailInv(p)' /\ StoryInv(p)'
  <2>1. CASE popup'[p] = popup[p]
    BY <2>1, SameMail, SameStory
  <2>2. ASSUME NEW id \in Runs, Callback(id), popup'[p] # popup[p]
        PROVE  MailInv(p)' /\ StoryInv(p)'
    <3>1. /\ popup'[p].mail = popup[p].mail /\ popup'[p].life = popup[p].life
          /\ popup'[p].clicks = popup[p].clicks /\ popup'[p].activeRunId = NoRun
          /\ popup'[p].status.kind # "progress"
      BY <2>2, CallbackLine
    <3>2. popup'[p].life = "unopened" => popup'[p].clicks = 0
      BY <3>1 DEF SInv, StoryInv
    <3> QED BY <3>1, <3>2, SameMail, OtherLine
  <2> QED
    BY <2>1, <2>2, WhoMoves, UserStory, QueryStory, ProgressStory, AnnounceStory
<1> QED BY <1>1, <1>2 DEF SInv

LEMMA StoryAlways == Spec => []SInv
<1>1. Init => SInv
  BY InitInv DEF Init, SInv, MailInv, StoryInv, Unopened, Line
<1>2. SInv /\ [Next]_vars => SInv'
  BY StoryNext
<1> QED BY <1>1, <1>2, PTL DEF Spec

\* Whatever popups come and go, whatever tabs do and however late broadcasts and
\* answers arrive, a popup tells the story of its last click: the progress of that run
\* and of no other, never back, and then one last line with the button enabled again;
\* only an answer of the support check that was still out may come between.
THEOREM StatusTellsOneStory == Spec => StatusFollowsRun
<1>1. ASSUME SInv, [Next]_vars, NEW p \in Popups PROVE TellsLastClick(p)
  <2>1. popup \in [Popups -> Popup] /\ popup[p] \in Popup
        /\ ClickInv(p) /\ StoryInv(p) /\ MailInv(p)
    BY <1>1 DEF SInv, IInv, TypeOK
  <2>2. CASE popup'[p] = popup[p]
    BY <2>2 DEF TellsLastClick
  <2>3. CASE User(p)
    <3>1. CASE OpenPopup(p)
      BY <2>1, <3>1 DEF OpenPopup, StoryInv, TellsLastClick
    <3>2. CASE ClosePopup(p)
      <4>1. popup'[p].clicks = 0
        BY <2>1, <3>2 DEF ClosePopup, SetPopup, Unopened
      <4> QED BY <2>1, <4>1 DEF TellsLastClick
    <3>3. CASE Click(p)
      <4>1. popup'[p].clicks = popup[p].clicks + 1 /\ popup[p].clicks \in Int
        BY <2>1, <3>3, SessionAssumption DEF Click, SetPopup, Popup
      <4> QED BY <4>1 DEF TellsLastClick
    <3> QED BY <2>3, <3>1, <3>2, <3>3 DEF User
  <2>4. CASE SupportAnswers(p) \/ SupportFails(p)
    <3>1. popup[p].support = "asked" /\ popup'[p].support = "settled"
      BY <2>1, <2>4 DEF SupportAnswers, SupportFails, SetPopup, Popup
    <3> QED BY <3>1 DEF TellsLastClick
  <2>5. CASE ClickFails(p)
    <3>1. PICK line \in {Line("connectError"), Line("noActiveTab")} :
            popup'[p] = Ended(popup[p], line)
      BY <2>1, <2>5 DEF ClickFails, SetPopup
    <3>2. popup'[p].status = line /\ popup'[p].button
      BY <2>1, <3>1 DEF Ended, Popup
    <3>3. line.kind \in {"connectError", "noActiveTab"}
      BY DEF Line
    <3>4. popup[p].activeRunId = <<p, popup[p].clicks>>
      BY <2>1, <2>5 DEF ClickFails, ClickInv
    <3> QED BY <3>2, <3>3, <3>4 DEF TellsLastClick
  <2>6. CASE ClickSends(p)
    <3>1. popup'[p].status = Line("testing")
      BY <2>1, <2>6 DEF ClickSends, SetPopup, Popup
    <3>2. popup'[p].status.kind = "testing"
      BY <3>1 DEF Line
    <3>3. popup[p].activeRunId = <<p, popup[p].clicks>>
      BY <2>1, <2>6 DEF ClickSends, ClickInv
    <3> QED BY <3>2, <3>3 DEF TellsLastClick
  <2>7. CASE ProgressArrives(p)
    <3>1. PICK m : m = Head(popup[p].mail)
      OBVIOUS
    <3>2. CASE /\ popup[p].activeRunId # NoRun /\ m.run = popup[p].activeRunId
               /\ popup'[p].status =
                    [kind |-> "progress", run |-> m.run, total |-> m.total, at |-> m.current]
      <4>1. popup[p].mail # <<>> /\ popup[p].mail \in Seq(Progress)
        BY <1>1, <2>7, MailIsProgress DEF SInv, ProgressArrives
      <4>2. m = popup[p].mail[1] /\ 1 \in DOMAIN popup[p].mail
        BY <3>1, <4>1
      <4>3. popup[p].status.kind = "progress" =>
              popup[p].status.run = popup[p].activeRunId /\ popup[p].status.at < m.current
        BY <2>1, <3>2, <4>2 DEF StoryInv
      <4>4. popup'[p].status.kind = "progress" /\ popup'[p].status.run = m.run
            /\ popup'[p].status.at = m.current
        BY <3>2
      <4>5. m.current \in Int /\ (popup[p].status.kind = "progress" =>
                                 popup[p].status.at \in Int)
        BY <1>1, <4>2, MailIsProgress DEF SInv
      <4> QED BY <2>1, <3>2, <4>3, <4>4, <4>5 DEF StoryInv, TellsLastClick
    <3> QED BY <1>1, <2>7, <3>1, <3>2, ProgressLine DEF TellsLastClick
  <2>8. ASSUME NEW id \in Runs, Callback(id), popup'[p] # popup[p] PROVE TellsLastClick(p)
    BY <1>1, <2>8, CallbackLine DEF TellsLastClick
  <2>9. ASSUME NEW id \in Runs, Announce(id), Open(p) PROVE TellsLastClick(p)
    <3>1. popup'[p].status = popup[p].status
      BY <2>1, <2>9 DEF Announce, Popup
    <3> QED BY <3>1 DEF TellsLastClick
  <2> QED
    BY <1>1, <2>2, <2>3, <2>4, <2>5, <2>6, <2>7, <2>8, <2>9, WhoMoves
<1>2. SInv /\ [Next]_vars => [\A p \in Popups : TellsLastClick(p)]_vars
  BY <1>1
<1> QED BY <1>2, StoryAlways, PTL DEF Spec, StatusFollowsRun
=============================================================================
