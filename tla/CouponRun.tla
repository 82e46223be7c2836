------------------------------ MODULE CouponRun ------------------------------
(***************************************************************************)
(* One coupon run of the content script against a merchant's checkout page  *)
(* (extension/contentScript.ts, findBestWorkingCoupon and the listener that *)
(* starts it).                                                              *)
(*                                                                          *)
(* The script is JavaScript: it runs alone between two awaits, and the page *)
(* moves only while the script awaits.  An action is therefore one stretch  *)
(* of the script from an await to the next.  The page is not Salvare's: a   *)
(* site is a record of how the merchant prices carts and how its page shows *)
(* things, and TLC tries every site of a set.                               *)
(***************************************************************************)
EXTENDS Integers, Sequences

CONSTANTS
  Runs,        \* runs started on the page: one popup click each
  Codes,       \* every coupon code of the model
  Lists,       \* the candidate lists the provider may hand to a run
  Sites,       \* the merchants considered
  StartCarts,  \* the discounts the shopper may already have
  Contains,    \* Contains[d]: the codes whose text occurs in the text of d
  NoTotal,     \* scanCheckoutPage found no total (null)
  NoWinner     \* no improving code yet

Cart  == SUBSET Codes
Total == Nat \cup {NoTotal}

\* A merchant.  price: the total of a cart; redeem[S][c]: the discounts in
\* force after c is submitted with S in force (c is refused if it is not one).
\* prompt: every reaction of the page comes within the script's time limits.
\* showsBusy: a busy marker is up while requests are pending.  clearsError: the
\* old error text goes when a code is submitted, not when the answer arrives.
\* removable: an applied discount has a remove button.  collapses: the coupon
\* form may fold after an answer.  blanks: the total may vanish until repaint.
\* banner: codes the page advertises in its own text.  tags: an applied discount
\* is shown by a tag that says more than the code ("worded") or just the code
\* ("bare"), near a word like discount; or with no such word about ("plain").
\* keepsInput: an answer may leave in the form what was typed there.
Site == [price: [Cart -> Nat], redeem: [Cart -> [Codes -> Cart]],
         prompt: BOOLEAN, showsBusy: BOOLEAN, clearsError: BOOLEAN,
         removable: BOOLEAN, collapses: BOOLEAN, blanks: BOOLEAN,
         banner: Cart, tags: {"worded", "bare", "plain"}, keepsInput: BOOLEAN]

ASSUME RunAssumption ==
  /\ Lists \subseteq Seq(Codes)
  /\ Sites \subseteq Site
  /\ StartCarts \subseteq Cart
  /\ Contains \in [Codes -> Cart]
  /\ \A c \in Codes : c \in Contains[c]
  /\ NoTotal \notin Nat
  /\ NoWinner \notin [code: Codes, total: Nat, savings: Nat]

VARIABLES
  site,   \* the merchant, fixed
  page,   \* the checkout page: merchant state and what is on screen
  run     \* run[r]: the local state of run r of the script

vars == <<site, page, run>>

Request == [op: {"apply", "remove"}, codes: Cart]
Winner  == [code: Codes, total: Nat, savings: Nat]
Report  == [code: Codes, success: BOOLEAN, savings: Nat, final: Nat]

PC == {"start", "waitIdle", "code", "remove", "compare", "restore", "apply",
       "result", "total", "judge", "reopen", "reapply", "collect", "done"}

\* input: the code in the coupon input, if any.
Page == [cart: Cart, shown: Cart, total: Total, error: BOOLEAN,
         open: BOOLEAN, input: Cart, requests: Seq(Request)]

RunState ==
  [pc: PC, next: PC,              \* next: where waitForCheckoutIdle returns to
   list: Seq(Codes), i: Nat,      \* candidate codes, index of the one tested
   baseline: Total, mark: Total,  \* baselineTotalCents, beforeClearScan total
   verdict: {"none", "applied", "rejected", "timeout"},
   lowest: Winner \cup {NoWinner},
   reports: Seq(Report),          \* the POSTs fired, in order
   pending: Nat,                  \* those not settled yet
   unsaved: BOOLEAN,              \* reportFailed
   reply: {"pending", "unsupported", "none", "best"},
   warned: BOOLEAN]               \* the reply carries reportWarning

TypeOK ==
  /\ site \in Sites
  /\ page \in Page
  /\ run \in [Runs -> RunState]

-----------------------------------------------------------------------------
(* The page.                                                                *)

Price(cart) == site.price[cart]

Settled == page.requests = <<>> /\ page.total = Price(page.cart)

\* isCheckoutBusy
Busy == site.showsBusy /\ page.requests # <<>>

\* An answer may take the total off the screen, fold the form and empty its input.
TotalsNow == {page.total} \cup (IF site.blanks THEN {NoTotal} ELSE {})
OpenNow   == {page.open} \cup (IF site.collapses THEN {FALSE} ELSE {})
InputNow  == {{}} \cup (IF site.keepsInput THEN {page.input} ELSE {})

\* The merchant answers the submitted code at the head of the queue.
AnswerApply ==
  /\ page.requests # <<>>
  /\ Head(page.requests).op = "apply"
  /\ \E c \in Head(page.requests).codes,
        total \in TotalsNow, open \in OpenNow, input \in InputNow :
       LET cart == site.redeem[page.cart][c]
       IN page' = [page EXCEPT !.cart = cart, !.shown = cart, !.total = total,
                               !.error = c \notin cart, !.open = open,
                               !.input = input, !.requests = Tail(@)]
  /\ UNCHANGED <<site, run>>

\* The merchant answers one of the remove clicks at the head of the queue.
AnswerRemove ==
  /\ page.requests # <<>>
  /\ Head(page.requests).op = "remove"
  /\ \E c \in Head(page.requests).codes, total \in TotalsNow, open \in OpenNow :
       LET cart == page.cart \ {c}
           rest == Head(page.requests).codes \ {c}
       IN page' = [page EXCEPT !.cart = cart, !.shown = cart, !.total = total,
                               !.open = open,
                               !.requests =
                                 IF rest = {} THEN Tail(@)
                                 ELSE [@ EXCEPT ![1].codes = rest]]
  /\ UNCHANGED <<site, run>>

\* The order summary is repainted: totals follow the discount tags later.
Repaint ==
  /\ page.total # Price(page.cart)
  /\ page' = [page EXCEPT !.total = Price(page.cart)]
  /\ UNCHANGED <<site, run>>

PageStep == AnswerApply \/ AnswerRemove \/ Repaint

-----------------------------------------------------------------------------
(* What the script does to the page, and reads from it.                     *)

\* applyCouponCode: nothing happens when the input is not there, and no caller
\* looks at the result.
Typed(p, c) ==
  IF ~p.open THEN p
  ELSE [p EXCEPT !.requests = Append(@, [op |-> "apply", codes |-> {c}]),
                 !.error = @ /\ ~site.clearsError, !.input = {c}]

\* clearCouponInput
Emptied(p) == IF p.open THEN [p EXCEPT !.input = {}] ELSE p

\* removeAppliedDiscounts clicks every remove button it can find.
HasRemoveButtons(p) == site.removable /\ p.shown # {}

RemoveClicked(p) ==
  [p EXCEPT !.requests = Append(@, [op |-> "remove", codes |-> p.shown])]

Expanded(p) == [p EXCEPT !.open = TRUE]

\* A text that is just what the input holds is passed over.
PassedOver(p, d) == site.tags = "bare" /\ p.open /\ p.input = {d}

\* codeAppearsAsAppliedDiscount: some visible text near a word like discount
\* contains the code.
Appears(p, c) ==
  \/ c \in site.banner
  \/ site.tags # "plain" /\ \E d \in p.shown : c \in Contains[d] /\ ~PassedOver(p, d)

\* One poll of waitForDiscountResult: the error phrases come first.
Poll(p, c) ==
  IF p.error THEN "rejected" ELSE IF Appears(p, c) THEN "applied" ELSE "none"

\* A bounded wait ends when cond holds, or at its deadline.  On a prompt page
\* the deadline is only met by what never comes.
WaitEnds(cond) == cond \/ ~site.prompt \/ Settled

TotalDiffersFrom(t) == page.total \notin {NoTotal, t}

Code(r)    == run[r].list[run[r].i]
Testing(r) == run[r].i <= Len(run[r].list)

\* A run moves to label l, or to waitForCheckoutIdle and from there to l.
At(s, l)     == [s EXCEPT !.pc = l]
IdleAt(s, l) == [s EXCEPT !.pc = "waitIdle", !.next = l]
Become(r, s) == run' = [run EXCEPT ![r] = s]

\* expandCouponSection: nothing if the form is there, or nothing to click is; else
\* a click, in vain or not, and a wait.
ExpandThen(r, s, l) ==
  \/ UNCHANGED page /\ Become(r, At(s, l))
  \/ ~page.open /\ page' \in {page, Expanded(page)} /\ Become(r, IdleAt(s, l))

-----------------------------------------------------------------------------
(* The run.                                                                 *)

\* The listener: fetch the candidates (elsewhere), refuse an empty list, read
\* the baseline once, unfold the coupon form.
Start(r, l) ==
  LET s == [run[r] EXCEPT !.list = l, !.baseline = page.total]
  IN /\ run[r].pc = "start"
     /\ \/ /\ l = <<>>
           /\ Become(r, [At(s, "done") EXCEPT !.reply = "unsupported"])
           /\ UNCHANGED page
        \/ /\ l # <<>> /\ page.total = NoTotal
           /\ Become(r, [At(s, "done") EXCEPT !.reply = "none"])
           /\ UNCHANGED page
        \/ /\ l # <<>> /\ page.total # NoTotal
           /\ ExpandThen(r, s, "code")
     /\ UNCHANGED site

\* Faulty variant: an idle wait without a deadline.
WaitIdleForever(r) ==
  /\ run[r].pc = "waitIdle"
  /\ ~Busy
  /\ Become(r, At(run[r], run[r].next))
  /\ UNCHANGED <<site, page>>

\* waitForCheckoutIdle
WaitIdle(r) ==
  /\ run[r].pc = "waitIdle"
  /\ WaitEnds(~Busy)
  /\ Become(r, At(run[r], run[r].next))
  /\ UNCHANGED <<site, page>>

\* The loop head: unfold the form again if the page folded it.
NextCode(r) ==
  /\ run[r].pc = "code" /\ Testing(r)
  /\ ExpandThen(r, run[r], "remove")
  /\ UNCHANGED site

\* Every code was tested.  Without a winner the run answers at once, and does
\* not wait for its reports; with one it goes on to re-apply it.
EndLoop(r) ==
  /\ run[r].pc = "code" /\ ~Testing(r)
  /\ Become(r, IF run[r].lowest = NoWinner
               THEN [At(run[r], "done") EXCEPT !.reply = "none"]
               ELSE At(run[r], "remove"))
  /\ UNCHANGED <<site, page>>

Remove(r) ==
  LET l == IF Testing(r) THEN "compare" ELSE "reopen"
  IN /\ run[r].pc = "remove"
     /\ IF HasRemoveButtons(page)
        THEN page' = RemoveClicked(page) /\ Become(r, IdleAt(run[r], l))
        ELSE UNCHANGED page /\ Become(r, At(run[r], l))
     /\ UNCHANGED site

\* A readable total other than the baseline is given time to move; then the
\* input is cleared and the page given time again.
Compare(r) ==
  /\ run[r].pc = "compare"
  /\ IF TotalDiffersFrom(run[r].baseline)
     THEN /\ Become(r, [At(run[r], "restore") EXCEPT !.mark = page.total])
          /\ UNCHANGED page
     ELSE page' = Emptied(page) /\ Become(r, IdleAt(run[r], "apply"))
  /\ UNCHANGED site

Restore(r) ==
  /\ run[r].pc = "restore"
  /\ WaitEnds(TotalDiffersFrom(run[r].mark))
  /\ page' = Emptied(page) /\ Become(r, IdleAt(run[r], "apply"))
  /\ UNCHANGED site

\* What the discount result leads to.
Heard(s, verdict) ==
  [IdleAt(s, IF verdict = "applied" THEN "total" ELSE "judge")
     EXCEPT !.verdict = verdict]

\* The code is submitted and the page polled in one go: the first poll of
\* waitForDiscountResult runs before any await.
Apply(r) ==
  LET p       == Typed(page, Code(r))
      verdict == Poll(p, Code(r))
  IN /\ run[r].pc = "apply"
     /\ page' = p
     /\ Become(r, IF verdict = "none" THEN At(run[r], "result")
                  ELSE Heard(run[r], verdict))
     /\ UNCHANGED site

\* A later poll, or the deadline (after which nothing is looked at again).
Result(r) ==
  LET verdict == Poll(page, Code(r))
  IN /\ run[r].pc = "result"
     /\ \/ /\ verdict # "none"
           /\ Become(r, Heard(run[r], verdict))
        \/ /\ WaitEnds(FALSE)
           /\ site.prompt => verdict = "none"
           /\ Become(r, Heard(run[r], "timeout"))
     /\ UNCHANGED <<site, page>>

\* Faulty variant: the total is read as soon as the tag is up.
AwaitNothing(r) ==
  /\ run[r].pc = "total"
  /\ Become(r, At(run[r], "judge"))
  /\ UNCHANGED <<site, page>>

\* waitForTotalChange, from the baseline
AwaitTotal(r) ==
  /\ run[r].pc = "total"
  /\ WaitEnds(TotalDiffersFrom(run[r].baseline))
  /\ Become(r, At(run[r], "judge"))
  /\ UNCHANGED <<site, page>>

Improved(s, total) ==
  s.verdict = "applied" /\ total # NoTotal /\ total < s.baseline

\* Faulty variant: a report carries whatever the scan said, null included.
FinalAsScanned(s, total) == total

FinalTotal(s, total) == IF Improved(s, total) THEN total ELSE s.baseline

\* Faulty variant: ties go to the later code.
LowerOrLater(lowest, current) ==
  IF lowest = NoWinner \/ current.total <= lowest.total THEN current ELSE lowest

\* The step of results.reduce, taken as each result is pushed.
Lower(lowest, current) ==
  IF lowest = NoWinner THEN current
  ELSE IF current.total # lowest.total
       THEN IF current.total < lowest.total THEN current ELSE lowest
       ELSE IF current.savings > lowest.savings THEN current ELSE lowest

\* Rescan, decide, fire the report, keep the result.
Judge(r) ==
  LET s      == run[r]
      better == Improved(s, page.total)
      saved  == IF better THEN s.baseline - page.total ELSE 0
      final  == FinalTotal(s, page.total)
      report == [code |-> Code(r), success |-> better,
                 savings |-> saved, final |-> final]
      found  == [code |-> Code(r), total |-> final, savings |-> saved]
  IN /\ s.pc = "judge"
     /\ Become(r, [At(s, "code") EXCEPT
                     !.reports = Append(@, report),
                     !.pending = @ + 1,
                     !.lowest  = IF better THEN Lower(@, found) ELSE @,
                     !.i       = @ + 1])
     /\ UNCHANGED <<site, page>>

\* reportCouponResult settles, saved or given up after its last attempt.
ReportSettles(r) ==
  /\ run[r].pending > 0
  /\ \E failed \in BOOLEAN :
       Become(r, [run[r] EXCEPT !.pending = @ - 1, !.unsaved = @ \/ failed])
  /\ UNCHANGED <<site, page>>

\* The winner's turn: unfold the form, if that works, clear the input, wait,
\* submit, wait.  The wait after the click is taken with the one after clearing:
\* nothing reads the input before it is filled again.
Reopen(r) ==
  /\ run[r].pc = "reopen"
  /\ Become(r, IdleAt(run[r], "reapply"))
  /\ page' \in {Emptied(page), Emptied(Expanded(page))}
  /\ UNCHANGED site

\* Faulty variant: the last code tested is submitted again, not the best.
ReapplyLast(r) ==
  /\ run[r].pc = "reapply"
  /\ page' = Typed(page, run[r].list[Len(run[r].list)])
  /\ Become(r, IdleAt(run[r], "collect"))
  /\ UNCHANGED site

Reapply(r) ==
  /\ run[r].pc = "reapply"
  /\ page' = Typed(page, run[r].lowest.code)
  /\ Become(r, IdleAt(run[r], "collect"))
  /\ UNCHANGED site

\* Faulty variant: the answer does not wait for the reports.
CollectEarly(r) ==
  /\ run[r].pc = "collect"
  /\ Become(r, [At(run[r], "done") EXCEPT !.reply = "best",
                                          !.warned = run[r].unsaved])
  /\ UNCHANGED <<site, page>>

\* Promise.allSettled(reportPromises), then the answer to the popup.
Collect(r) ==
  /\ run[r].pc = "collect" /\ run[r].pending = 0
  /\ Become(r, [At(run[r], "done") EXCEPT !.reply = "best",
                                          !.warned = run[r].unsaved])
  /\ UNCHANGED <<site, page>>

Script(r) ==
  \/ WaitIdle(r) \/ NextCode(r) \/ EndLoop(r) \/ Remove(r) \/ Compare(r)
  \/ Restore(r) \/ Apply(r) \/ Result(r) \/ AwaitTotal(r) \/ Judge(r)
  \/ Reopen(r) \/ Reapply(r) \/ Collect(r)

Next ==
  \/ \E r \in Runs : (\E l \in Lists : Start(r, l)) \/ Script(r)
                     \/ ReportSettles(r)
  \/ PageStep

Fresh == [pc |-> "start", next |-> "start", list |-> <<>>, i |-> 1,
          baseline |-> NoTotal, mark |-> NoTotal, verdict |-> "none",
          lowest |-> NoWinner, reports |-> <<>>, pending |-> 0,
          unsaved |-> FALSE, reply |-> "pending", warned |-> FALSE]

\* The shopper may come with discounts, and with the error text of a code that
\* was refused; the form may be folded and the total unreadable at first.
Init ==
  /\ site \in Sites
  /\ \E cart \in StartCarts, error \in BOOLEAN,
        open \in {TRUE} \cup (IF site.collapses THEN {FALSE} ELSE {}),
        blank \in {FALSE} \cup (IF site.blanks THEN {TRUE} ELSE {}) :
       page = [cart |-> cart, shown |-> cart,
               total |-> IF blank THEN NoTotal ELSE Price(cart),
               error |-> error, open |-> open, input |-> {}, requests |-> <<>>]
  /\ run = [r \in Runs |-> Fresh]

\* Timers fire and fetches settle or are aborted, so a run and its reports are
\* never stuck; a page owes nothing unless its merchant is a prompt one.
Fairness ==
  /\ \A r \in Runs : WF_vars(Script(r)) /\ WF_vars(ReportSettles(r))
  /\ WF_vars(site.prompt /\ PageStep)

Spec == Init /\ [][Next]_vars /\ Fairness
-----------------------------------------------------------------------------
(* Properties.                                                              *)

\* What a code is worth on a cart without discounts.
TrueTotal(c) == Price(site.redeem[{}][c])

\* The winner is the lowest verified total: it beats the baseline, it was
\* reported as a success with that total, no reported success is lower, and a
\* tie goes to the code tested first (the reduce at the end of the loop; the
\* server's order is kept).  On every page, however badly it behaves.
WinnerIsLowestVerified ==
  \A r \in Runs : run[r].reply = "best" =>
    LET w == run[r].lowest
    IN /\ w # NoWinner
       /\ w.total < run[r].baseline
       /\ w.savings = run[r].baseline - w.total
       /\ \E k \in DOMAIN run[r].reports :
            /\ run[r].reports[k] = [code |-> w.code, success |-> TRUE,
                                    savings |-> w.savings, final |-> w.total]
            /\ \A j \in DOMAIN run[r].reports :
                 run[r].reports[j].success =>
                   /\ run[r].reports[j].final >= w.total
                   /\ j < k => run[r].reports[j].final > w.total

\* A reply that names a winner warns of a lost report exactly when one was
\* lost: every report of the run is settled by then and none settles later.
WarnsOfLostReports ==
  \A r \in Runs : run[r].reply = "best" => (run[r].warned <=> run[r].unsaved)

\* A run that started answers, even on a page that never reacts: every wait of
\* the loop has a deadline.
Terminates ==
  \A r \in Runs : (run[r].pc # "start") ~> (run[r].pc = "done")

\* A page the script can read: it reacts in time, takes its error text down when
\* a code is submitted, has remove buttons, keeps its form open, names no code in
\* its own text, and its tags are seen whatever the input holds, or empties it.
Readable == /\ site.prompt /\ site.clearsError /\ site.removable
            /\ ~site.collapses /\ site.banner = {}
            /\ site.tags # "plain" /\ (site.tags = "bare" => ~site.keepsInput)

\* Merchants for whom each code is worth something of its own: on a bare cart it
\* is redeemed alone or refused, and a shopper comes with one discount at most.
OneCodeEach ==
  /\ \A w \in Sites, c \in Codes : w.redeem[{}][c] \subseteq {c}
  /\ \A cart \in StartCarts : cart = {} \/ \E c \in Codes : cart = {c}

\* Merchants none of whose codes raises the total of a bare cart.
NeverDearer ==
  \A w \in Sites, c \in Codes : w.price[w.redeem[{}][c]] <= w.price[{}]

\* No run of another popup works on the same page.
Alone(r) == \A q \in Runs \ {r} : run[q].pc = "start"

\* On a page the script can read, the history that a run sends while it is alone
\* tells the truth about each code, if the run found the cart bare: a code is a
\* success exactly when it lowers the bare cart's total, and then the total
\* reported is the code's own, not one left by another code.
ReportsTellTheTruth ==
  \A r \in Runs :
    Readable /\ Alone(r) /\ run[r].baseline = Price({}) =>
      \A k \in DOMAIN run[r].reports :
        LET rep == run[r].reports[k]
        IN /\ rep.success <=> TrueTotal(rep.code) < run[r].baseline
           /\ rep.success => rep.final = TrueTotal(rep.code)

\* When a run is over and the page has settled, the shopper pays what the answer
\* says, and no listed code alone would have been cheaper ("the user lands on a
\* checkout already showing the best price", README.md).
ShopperKeepsTheBest ==
  \A r \in Runs :
    /\ Readable /\ Alone(r) /\ Settled
    /\ run[r].pc = "done" /\ run[r].reply \in {"best", "none"}
    /\ run[r].baseline = Price({})
    => /\ run[r].reply = "best" => page.total = run[r].lowest.total
       /\ \A i \in DOMAIN run[r].list : page.total <= TrueTotal(run[r].list[i])

\* The same when a second popup starts another run while the first is at work
\* and the cart still bare: once both are over and the page has settled, the
\* shopper pays no more than any answer promised ("the user lands on a checkout
\* already showing the best price", README.md).
EveryAnswerHolds ==
  /\ Readable /\ Settled
  /\ \A r \in Runs : run[r].pc = "done" /\ run[r].baseline = Price({})
  => \A r \in Runs : run[r].reply = "best" => page.total <= run[r].lowest.total

\* A finished run does not leave the shopper paying more than the total it read
\* at the start ("only codes that strictly lower the baseline total are counted
\* as wins. Whatever code yields the lowest verified final total is the code
\* the user keeps", README.md).
NeverWorseOff ==
  \A r \in Runs : (run[r].pc = "done" /\ run[r].baseline # NoTotal /\ Settled)
                    => page.total <= run[r].baseline
=============================================================================
