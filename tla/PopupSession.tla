---------------------------- MODULE PopupSession ----------------------------
(***************************************************************************)
(* The extension around a coupon run: popups that come and go               *)
(* (extension/popup.ts), the content script of one tab that answers them    *)
(* (extension/contentScript.ts, the listener), and the reports it makes on  *)
(* the way, of which it knows what ReportDelivery promises.  The run itself *)
(* is module CouponRun; here it announces each code, reports it, answers.   *)
(*                                                                          *)
(* A popup dies when it is closed and the page does not know: its run goes  *)
(* on, and its broadcasts reach whichever popup is open by then.  When the  *)
(* tab is navigated the script dies and the popup is told that the port is  *)
(* closed (chrome.runtime.lastError).                                       *)
(***************************************************************************)
EXTENDS Integers, Sequences, FiniteSets

CONSTANTS
  MaxPopups,      \* how often the popup is opened
  Pages,          \* what the tab may show, a set of records Page
  ServerTotals,   \* how many candidates GET /coupons may list
  MockTotal,      \* how many candidates the profile itself has
  MaxTotal,       \* the longest list
  MaxTested,      \* codes tested in all runs together
  MaxAttempts,    \* MAX_ATTEMPTS of the reporter
  MaxClicks,      \* clicks considered in one popup
  MaxVisits,      \* navigations considered
  NoRun           \* activeRunId = null

\* Whether a page has the content script (pages of the browser have not), a
\* matching profile, a coupon input, an apply button, and a readable total.
Page == [script: BOOLEAN, profile: BOOLEAN, input: BOOLEAN, button: BOOLEAN,
         total: BOOLEAN]

ASSUME SessionAssumption ==
  /\ Pages \subseteq Page
  /\ {MaxPopups, MaxTotal, MaxTested, MaxClicks, MaxVisits} \subseteq Nat
  /\ ServerTotals \subseteq 0 .. MaxTotal
  /\ MockTotal \in 0 .. MaxTotal
  /\ NoRun \notin Nat \X Nat

\* One for each time the popup is opened, and the runs of each: generateRunId
\* gives every click an id of its own.
Popups  == 1 .. MaxPopups
Runs    == Popups \X (1 .. MaxClicks)
Reports == Runs \X (1 .. MaxTotal)

VARIABLES
  popup,    \* popup[p]: the page of the popup
  run,      \* run[id]: the run of a click, in the content script
  tab,      \* what the tab shows, and how often it was navigated
  outcome,  \* outcome[r]: what the script was told of a report
  copies    \* copies[r]: the attempts of it that are in the history

vars == <<popup, run, tab, outcome, copies>>

Delivery == INSTANCE ReportDelivery

-----------------------------------------------------------------------------
(* What the popup can say.                                                  *)

Line(kind) == [kind |-> kind]

Lines == {"empty", "checking", "unsupportedPage", "scanning", "testing",
          "connectError", "noActiveTab"}

SupportReasons == {"ready", "hostname_unrecognized", "no_candidate_codes",
                   "coupon_input_missing", "apply_button_missing",
                   "total_missing"}

\* deriveSupportReason, of what getCheckoutSupportStatus finds: an apply button
\* is only looked for near an input.
DeriveSupportReason(page, codes) ==
  CASE ~page.profile -> "hostname_unrecognized"
    [] page.profile /\ codes = 0 -> "no_candidate_codes"
    [] page.profile /\ codes > 0 /\ ~page.input -> "coupon_input_missing"
    [] page.profile /\ codes > 0 /\ page.input /\ ~page.button -> "apply_button_missing"
    [] page.profile /\ codes > 0 /\ page.input /\ page.button ->
         IF page.total THEN "ready" ELSE "total_missing"

\* renderSupportStatus: each reason has its message, and pages with a profile
\* and candidates count as supported.
RenderSupport(reason) ==
  [kind |-> "support", reason |-> reason,
   supported |-> reason \notin {"hostname_unrecognized", "no_candidate_codes"}]

\* renderProgressStatus: without a total the generic line; else at most total.
RenderProgress(id, current, total) ==
  IF total <= 0 THEN Line("testing")
  ELSE [kind |-> "progress", run |-> id, total |-> total,
        at |-> IF current <= 0 THEN 1 ELSE IF current > total THEN total ELSE current]

\* renderResultStatus, or the message of a run that found nothing.
RenderAnswer(id, reply, warning) ==
  [kind |-> "answer", run |-> id, reply |-> reply, warning |-> warning]

Replies == {"unsupported", "none", "best"}

Status ==
  [kind: Lines]
  \cup [kind: {"support"}, reason: SupportReasons, supported: BOOLEAN]
  \cup [kind: {"progress"}, run: Runs, total: 1 .. MaxTotal, at: 1 .. MaxTotal]
  \cup [kind: {"answer"}, run: Runs, reply: Replies, warning: BOOLEAN]

Progress == [run: Runs, current: 1 .. MaxTotal, total: 1 .. MaxTotal]

Popup ==
  [life: {"unopened", "open", "closed"},
   status: Status,
   button: BOOLEAN,                               \* enabled
   activeRunId: Runs \cup {NoRun},
   clicks: 0 .. MaxClicks,
   click: {"idle", "query", "sent"},              \* the await of the click handler
   support: {"none", "asked", "settled"},
   mail: Seq(Progress)]                           \* broadcasts on their way to it

\* "dead": the script is gone and the popup is to be told of a closed port.
Run ==
  [pc: {"unsent", "sent", "head", "judge", "collect", "answered", "dead", "over"},
   total: 0 .. MaxTotal, i: 1 .. MaxTotal + 1,
   won: BOOLEAN, reply: Replies, warning: BOOLEAN]

TypeOK ==
  /\ popup \in [Popups -> Popup]
  /\ run \in [Runs -> Run]
  /\ tab \in [page: Pages, visits: 0 .. MaxVisits]
  /\ Delivery!TypeOK

Unopened == [life |-> "unopened", status |-> Line("empty"), button |-> TRUE,
             activeRunId |-> NoRun, clicks |-> 0, click |-> "idle",
             support |-> "none", mail |-> <<>>]

Unsent == [pc |-> "unsent", total |-> 0, i |-> 1, won |-> FALSE,
           reply |-> "none", warning |-> FALSE]

Open(p) == popup[p].life = "open"

SetPopup(p, s) == popup' = [popup EXCEPT ![p] = s]
SetRun(id, s)  == run' = [run EXCEPT ![id] = s]
Elsewhere      == UNCHANGED <<tab, outcome, copies>>

-----------------------------------------------------------------------------
(* Opening and closing, and the support check (runSupportCheck).            *)

\* A browser shows one popup of an extension at a time.
OpenPopup(p) ==
  /\ popup[p].life = "unopened"
  /\ \A q \in 1 .. p - 1 : popup[q].life = "closed"
  /\ SetPopup(p, [popup[p] EXCEPT !.life = "open", !.status = Line("checking"),
                                  !.support = "asked"])
  /\ UNCHANGED run /\ Elsewhere

ClosePopup(p) ==
  /\ Open(p)
  /\ SetPopup(p, [Unopened EXCEPT !.life = "closed"])
  /\ UNCHANGED run /\ Elsewhere

\* The candidates of GET /coupons, an empty list included; the profile's own when
\* the fetch fails, is aborted, or answers something else.
Candidates == ServerTotals \cup {IF tab.page.profile THEN MockTotal ELSE 0}

\* getCheckoutSupportStatus, and the popup's callback.  The callback looks at no
\* run: it writes over whatever the popup shows.
SupportAnswers(p) ==
  /\ Open(p) /\ popup[p].support = "asked" /\ tab.page.script
  /\ \E codes \in Candidates :
       SetPopup(p, [popup[p] EXCEPT
                      !.support = "settled",
                      !.status = RenderSupport(DeriveSupportReason(tab.page, codes))])
  /\ UNCHANGED run /\ Elsewhere

\* No tab, nobody who answers, a script that is gone (chrome.runtime.lastError),
\* or a throw of tabs.query or sendMessage.
SupportFails(p) ==
  /\ Open(p) /\ popup[p].support = "asked"
  /\ SetPopup(p, [popup[p] EXCEPT !.support = "settled",
                                  !.status = Line("unsupportedPage")])
  /\ UNCHANGED run /\ Elsewhere

-----------------------------------------------------------------------------
(* The click handler and its callback.                                      *)

Click(p) ==
  /\ Open(p) /\ popup[p].button /\ popup[p].clicks < MaxClicks
  /\ SetPopup(p, [popup[p] EXCEPT !.status = Line("scanning"), !.button = FALSE,
                                  !.clicks = @ + 1, !.click = "query",
                                  !.activeRunId = <<p, popup[p].clicks + 1>>])
  /\ UNCHANGED run /\ Elsewhere

\* Every way a click can end: a last status, the button, no active run.
Ended(s, status) ==
  [s EXCEPT !.status = status, !.button = TRUE, !.activeRunId = NoRun,
            !.click = "idle"]

\* tabs.query answers: no tab, or none that can be written to.
ClickFails(p) ==
  /\ Open(p) /\ popup[p].click = "query"
  /\ \E status \in {Line("connectError"), Line("noActiveTab")} :
       SetPopup(p, Ended(popup[p], status))
  /\ UNCHANGED run /\ Elsewhere

ClickSends(p) ==
  LET id == popup[p].activeRunId
  IN /\ Open(p) /\ popup[p].click = "query"
     /\ SetPopup(p, [popup[p] EXCEPT !.status = Line("testing"), !.click = "sent"])
     /\ SetRun(id, [run[id] EXCEPT !.pc = IF tab.page.script THEN "sent"
                                                                  ELSE "dead"])
     /\ Elsewhere

\* Faulty variant: the progress of any run is shown.
ProgressOfAnyRun(p) ==
  /\ Open(p) /\ popup[p].mail # <<>>
  /\ LET m == Head(popup[p].mail)
         s == [popup[p] EXCEPT !.mail = Tail(@)]
     IN SetPopup(p, IF popup[p].activeRunId # NoRun
                    THEN [s EXCEPT !.status = RenderProgress(m.run, m.current, m.total)]
                    ELSE s)
  /\ UNCHANGED run /\ Elsewhere

\* The listener for broadcasts: only those of the active run are shown.
ProgressArrives(p) ==
  /\ Open(p) /\ popup[p].mail # <<>>
  /\ LET m == Head(popup[p].mail)
         s == [popup[p] EXCEPT !.mail = Tail(@)]
     IN SetPopup(p, IF popup[p].activeRunId # NoRun /\ m.run = popup[p].activeRunId
                    THEN [s EXCEPT !.status = RenderProgress(m.run, m.current, m.total)]
                    ELSE s)
  /\ UNCHANGED run /\ Elsewhere

\* Faulty variant: a closed port is logged, and the popup left as it is.
LogLastError(s, id, r) ==
  IF s.activeRunId # id \/ r.pc = "dead" THEN s
  ELSE Ended(s, RenderAnswer(id, r.reply, r.warning))

\* The callback of sendMessage: an answer of another run than the active one is
\* dropped, else the port was closed, or the answer is shown.
Called(s, id, r) ==
  IF s.activeRunId # id THEN s
  ELSE Ended(s, IF r.pc = "dead" THEN Line("connectError")
                ELSE RenderAnswer(id, r.reply, r.warning))

Callback(id) ==
  /\ run[id].pc \in {"answered", "dead"}
  /\ SetRun(id, [Unsent EXCEPT !.pc = "over", !.total = run[id].total])
  /\ IF Open(id[1]) THEN SetPopup(id[1], Called(popup[id[1]], id, run[id]))
                    ELSE UNCHANGED popup
  /\ Elsewhere

-----------------------------------------------------------------------------
(* The content script.                                                      *)

Answered(s, reply, warning) ==
  [s EXCEPT !.pc = "answered", !.reply = reply, !.warning = warning]

ReportsOf(id) == {id} \X (1 .. run[id].total)

RoomFor(codes) ==
  codes = 0 \/ Cardinality(UNION {ReportsOf(id) : id \in Runs}) + codes <= MaxTested

\* The listener: the candidates are fetched; no profile or no candidates is one
\* answer, an unreadable baseline total another.
Begin(id) ==
  /\ run[id].pc = "sent"
  /\ \E codes \in {n \in Candidates : RoomFor(n)} :
       SetRun(id, CASE ~tab.page.profile \/ codes = 0 ->
                         Answered(run[id], "unsupported", FALSE)
                    [] tab.page.profile /\ codes # 0 /\ ~tab.page.total ->
                         Answered(run[id], "none", FALSE)
                    [] tab.page.profile /\ codes # 0 /\ tab.page.total ->
                         [run[id] EXCEPT !.pc = "head", !.total = codes])
  /\ UNCHANGED popup /\ Elsewhere

\* Faulty variant: the loop goes one past the end of the list.
AnnounceOnePast(id) ==
  LET m == [run |-> id, current |-> run[id].i, total |-> run[id].total]
  IN /\ run[id].pc = "head" /\ run[id].i <= run[id].total + 1
     /\ SetRun(id, [run[id] EXCEPT !.pc = "judge"])
     /\ popup' = [p \in Popups |->
                    IF Open(p) THEN [popup[p] EXCEPT !.mail = Append(@, m)]
                               ELSE popup[p]]
     /\ Elsewhere

\* The loop head: emitCouponProgress, to every extension page that is open.
Announce(id) ==
  LET m == [run |-> id, current |-> run[id].i, total |-> run[id].total]
  IN /\ run[id].pc = "head" /\ run[id].i <= run[id].total
     /\ SetRun(id, [run[id] EXCEPT !.pc = "judge"])
     /\ popup' = [p \in Popups |->
                    IF Open(p) THEN [popup[p] EXCEPT !.mail = Append(@, m)]
                               ELSE popup[p]]
     /\ Elsewhere

\* The end of the loop's body: the code won or not, its report is fired.
Judge(id) ==
  /\ run[id].pc = "judge"
  /\ \E better \in BOOLEAN :
       SetRun(id, [run[id] EXCEPT !.pc = "head", !.i = @ + 1, !.won = @ \/ better])
  /\ Delivery!Fire(<<id, run[id].i>>)
  /\ UNCHANGED <<popup, tab>>

EndLoop(id) ==
  /\ run[id].pc = "head" /\ run[id].i > run[id].total
  /\ SetRun(id, IF run[id].won THEN [run[id] EXCEPT !.pc = "collect"]
                ELSE Answered(run[id], "none", FALSE))
  /\ UNCHANGED popup /\ Elsewhere

\* Faulty variant: the answer does not wait for reports under way.
CollectEarly(id) ==
  /\ run[id].pc = "collect"
  /\ SetRun(id, Answered(run[id], "best", \E r \in ReportsOf(id) : outcome[r] = "lost"))
  /\ UNCHANGED popup /\ Elsewhere

\* allSettled, and the answer with reportWarning.
Collect(id) ==
  /\ run[id].pc = "collect"
  /\ \A r \in ReportsOf(id) : outcome[r] \in {"saved", "lost"}
  /\ SetRun(id, Answered(run[id], "best", \E r \in ReportsOf(id) : outcome[r] = "lost"))
  /\ UNCHANGED popup /\ Elsewhere

\* The tab shows another page: the script of the old one is gone, with its runs,
\* and whoever waited for reports.
Navigate ==
  /\ tab.visits < MaxVisits
  /\ \E page \in Pages : tab' = [page |-> page, visits |-> tab.visits + 1]
  /\ run' = [id \in Runs |->
               IF run[id].pc \in {"sent", "head", "judge", "collect"}
               THEN [Unsent EXCEPT !.pc = "dead", !.total = run[id].total]
               ELSE run[id]]
  /\ UNCHANGED <<popup, outcome, copies>>

-----------------------------------------------------------------------------
PopupStep(p) == SupportAnswers(p) \/ SupportFails(p)
                \/ ClickFails(p) \/ ClickSends(p) \/ ProgressArrives(p)

Script(id) == Begin(id) \/ Announce(id) \/ Judge(id) \/ EndLoop(id) \/ Collect(id)

\* reportCouponResult comes to an end, while its script is there.
ReportSettles(r) ==
  /\ run[r[1]].pc # "dead"
  /\ Delivery!Confirm(r) \/ Delivery!GiveUp(r)
  /\ UNCHANGED <<popup, run, tab>>

\* The server stores a report, awaited or not.
ServerStores(r) == Delivery!Record(r) /\ UNCHANGED <<popup, run, tab>>

User(p) == OpenPopup(p) \/ ClosePopup(p) \/ Click(p)

Next ==
  \/ \E p \in Popups : User(p) \/ PopupStep(p)
  \/ \E id \in Runs : Script(id) \/ Callback(id)
  \/ \E r \in Reports : ReportSettles(r) \/ ServerStores(r)
  \/ Navigate

Init ==
  /\ popup = [p \in Popups |-> Unopened]
  /\ run = [id \in Runs |-> Unsent]
  /\ \E page \in Pages : tab = [page |-> page, visits |-> 0]
  /\ Delivery!Init

\* Callbacks and messages arrive, the script runs on (CouponRun, Terminates), a
\* report settles (ResultReporter, ReportsSettle).  Nothing is owed by users, or by
\* the server.
Fairness ==
  /\ \A p \in Popups : WF_vars(PopupStep(p))
  /\ \A id \in Runs : WF_vars(Script(id)) /\ WF_vars(Callback(id))
  /\ \A r \in Reports : WF_vars(ReportSettles(r))

Spec == Init /\ [][Next]_vars /\ Fairness

-----------------------------------------------------------------------------
(* Properties.                                                              *)

\* A popup that shows a winner without the note "result not saved" is right: the
\* result of every code of that run is in the history.
QuietMeansStored ==
  \A p \in Popups :
    /\ popup[p].status.kind = "answer"
    /\ popup[p].status.reply = "best" /\ ~popup[p].status.warning
    => \A r \in ReportsOf(popup[p].status.run) : copies[r] # {}

\* A step that moves the status of p, but is no click: of the active run, forward, and
\* with the button enabled once that is over; or an answer of the support check.
TellsLastClick(p) ==
  LET old == popup[p].status
      new == popup'[p].status
  IN popup[p].clicks > 0 /\ popup'[p].clicks = popup[p].clicks /\ new # old =>
       \/ popup[p].support = "asked" /\ popup'[p].support = "settled"
       \/ /\ popup[p].activeRunId = <<p, popup[p].clicks>>
          /\ new.kind \in {"progress", "answer"} => new.run = popup[p].activeRunId
          /\ new.kind = "progress" /\ old.kind = "progress" => new.at > old.at
          /\ new.kind \notin {"progress", "testing"} => popup'[p].button

\* Between two clicks of a popup its status tells the story of the last click:
\* only progress of that run, never back, and then one last line that stays; the
\* one exception is an answer of the support check that was still out
\* (runSupportCheck, popup.ts:78).
StatusFollowsRun == [][\A p \in Popups : TellsLastClick(p)]_vars

\* A click does not disable the button for good: whatever becomes of the tab,
\* the script and the server, the popup is told in the end.
ButtonComesBack ==
  \A p \in Popups : ~popup[p].button ~> (popup[p].button \/ ~Open(p))
=============================================================================
