--------------------------- MODULE CouponRunProofs ---------------------------
(***************************************************************************)
(* Proofs about CouponRun, in two parts.  First what holds on every page: its *)
(* states are well formed, and the winner of every run is the lowest total it *)
(* verified, for any runs, codes, lists and merchants.  Then a run alone on a *)
(* page it can read: what its reports are worth, and what the shopper ends    *)
(* with.                                                                     *)
(***************************************************************************)
EXTENDS CouponRun, SequenceTheorems, TLAPS

\* Where a run is, or is headed once the page is idle.
Loc(s) == IF s.pc = "waitIdle" THEN s.next ELSE s.pc

\* The winner kept so far against the reports fired so far.
IsLowest(w, reports) ==
  \E k \in DOMAIN reports :
    /\ reports[k] = [code |-> w.code, success |-> TRUE,
                     savings |-> w.savings, final |-> w.total]
    /\ \A j \in DOMAIN reports : reports[j].success =>
         /\ reports[j].final >= w.total
         /\ j < k => reports[j].final > w.total

WinnerInv(s) ==
  IF s.lowest = NoWinner
  THEN \A j \in DOMAIN s.reports : ~s.reports[j].success
  ELSE /\ s.lowest.total < s.baseline
       /\ s.lowest.savings = s.baseline - s.lowest.total
       /\ IsLowest(s.lowest, s.reports)

\* What holds where.
ControlInv(s) ==
  /\ Loc(s) # "waitIdle"
  /\ s.i >= 1
  /\ Loc(s) = "start" => s.pc = "start" /\ s.lowest = NoWinner /\ s.reports = <<>>
  /\ Loc(s) \notin {"start", "done"} => s.baseline \in Nat
  /\ Loc(s) \in {"compare", "restore", "apply", "result", "total", "judge"} =>
       s.i <= Len(s.list)
  /\ Loc(s) = "remove" /\ s.i > Len(s.list) => s.lowest # NoWinner
  /\ Loc(s) \in {"reopen", "reapply", "collect"} => s.lowest # NoWinner
  /\ s.reply = "best" => s.lowest # NoWinner /\ s.pc = "done" /\ s.baseline \in Nat
  /\ s.lowest # NoWinner => s.baseline \in Nat

RunInv(s) == ControlInv(s) /\ WinnerInv(s)

IInv == TypeOK /\ \A r \in Runs : RunInv(run[r])

-----------------------------------------------------------------------------
\* The page's own steps keep it well formed, and leave every run alone.
LEMMA PageKeepsType ==
  ASSUME TypeOK, PageStep
  PROVE  page' \in Page /\ UNCHANGED <<site, run>>
<1>1. site \in Site /\ page \in Page
  BY RunAssumption DEF TypeOK
<1>2. TotalsNow \subseteq Total /\ OpenNow \subseteq BOOLEAN /\ InputNow \subseteq Cart
  BY <1>1 DEF TotalsNow, OpenNow, InputNow, Page, Total, Cart
<1>3. CASE AnswerApply
  <2>1. PICK c \in Head(page.requests).codes,
             total \in TotalsNow, open \in OpenNow, input \in InputNow :
          page' = [page EXCEPT !.cart = site.redeem[page.cart][c],
                               !.shown = site.redeem[page.cart][c],
                               !.total = total,
                               !.error = c \notin site.redeem[page.cart][c],
                               !.open = open, !.input = input,
                               !.requests = Tail(page.requests)]
    BY <1>3 DEF AnswerApply
  <2>2. Head(page.requests) \in Request /\ Tail(page.requests) \in Seq(Request)
    BY <1>1, <1>3 DEF AnswerApply, Page
  <2>3. c \in Codes /\ page.cart \in Cart
    BY <1>1, <2>1, <2>2 DEF Page, Request, Cart
  <2>4. site.redeem[page.cart][c] \in Cart
    BY <1>1, <2>3 DEF Site
  <2> QED BY <1>1, <1>2, <1>3, <2>1, <2>2, <2>4 DEF Page, AnswerApply
<1>4. CASE AnswerRemove
  <2> DEFINE rest(c) == Head(page.requests).codes \ {c}
             left(c) == IF rest(c) = {} THEN Tail(page.requests)
                        ELSE [page.requests EXCEPT ![1].codes = rest(c)]
  <2>1. PICK c \in Head(page.requests).codes, total \in TotalsNow, open \in OpenNow :
          page' = [page EXCEPT !.cart = page.cart \ {c}, !.shown = page.cart \ {c},
                               !.total = total, !.open = open, !.requests = left(c)]
    BY <1>4 DEF AnswerRemove
  <2>2. page.requests \in Seq(Request) /\ page.requests # <<>>
    BY <1>1, <1>4 DEF AnswerRemove, Page
  <2>3. Head(page.requests) \in Request /\ Tail(page.requests) \in Seq(Request)
    BY <2>2
  <2>4. [Head(page.requests) EXCEPT !.codes = rest(c)] \in Request
    BY <2>3 DEF Request, Cart
  <2>5. [page.requests EXCEPT ![1] = [Head(page.requests) EXCEPT !.codes = rest(c)]]
          \in Seq(Request)
    BY <2>2, <2>4
  <2>6. left(c) \in Seq(Request)
    BY <2>2, <2>3, <2>5
  <2>7. page.cart \ {c} \in Cart
    BY <1>1 DEF Page, Cart
  <2> QED BY <1>1, <1>2, <1>4, <2>1, <2>6, <2>7 DEF Page, AnswerRemove
<1>5. CASE Repaint
  <2>1. Price(page.cart) \in Total
    BY <1>1 DEF Price, Site, Total, Page
  <2> QED BY <1>1, <1>5, <2>1 DEF Repaint, Page
<1> QED BY <1>3, <1>4, <1>5 DEF PageStep

-----------------------------------------------------------------------------
\* The fields a move of the run leaves alone.
SameData(t, s) ==
  /\ t.list = s.list /\ t.i = s.i /\ t.baseline = s.baseline
  /\ t.lowest = s.lowest /\ t.reports = s.reports /\ t.reply = s.reply

LEMMA WinnerInvSame ==
  ASSUME NEW s, NEW t, SameData(t, s), WinnerInv(s)
  PROVE  WinnerInv(t)
BY DEF SameData, WinnerInv

\* Moving to a label, at once or through waitForCheckoutIdle, changes only
\* where the run is.
LEMMA MoveKeepsData ==
  ASSUME NEW s \in RunState, NEW l \in PC \ {"waitIdle"}
  PROVE  /\ At(s, l) \in RunState /\ IdleAt(s, l) \in RunState
         /\ SameData(At(s, l), s) /\ SameData(IdleAt(s, l), s)
         /\ Loc(At(s, l)) = l /\ Loc(IdleAt(s, l)) = l
         /\ At(s, l).pc = l /\ IdleAt(s, l).pc = "waitIdle"
<1>1. "waitIdle" \in PC
  BY DEF PC
<1> QED BY <1>1 DEF At, IdleAt, RunState, SameData, Loc

\* A run about to move to l keeps its invariant if what l asks for holds.
LEMMA MoveKeepsInv ==
  ASSUME NEW s \in RunState, NEW l \in PC \ {"waitIdle"},
         WinnerInv(s), s.i >= 1, s.reply # "best", s.lowest # NoWinner => s.baseline \in Nat,
         l # "start", l # "done" => s.baseline \in Nat,
         l \in {"compare", "restore", "apply", "result", "total", "judge"} =>
           s.i <= Len(s.list),
         l = "remove" /\ s.i > Len(s.list) => s.lowest # NoWinner,
         l \in {"reopen", "reapply", "collect"} => s.lowest # NoWinner
  PROVE  RunInv(At(s, l)) /\ RunInv(IdleAt(s, l))
BY MoveKeepsData, WinnerInvSame DEF RunInv, ControlInv, SameData

\* What a step of run r must leave behind.
Kept(r) ==
  /\ page' \in Page
  /\ \E s \in RunState : RunInv(s) /\ run' = [run EXCEPT ![r] = s]
  /\ UNCHANGED site

LEMMA PageOps ==
  ASSUME TypeOK
  PROVE  /\ \A c \in Codes : Typed(page, c) \in Page
         /\ RemoveClicked(page) \in Page
         /\ Expanded(page) \in Page
         /\ Emptied(page) \in Page /\ Emptied(Expanded(page)) \in Page
<1>1. page \in Page /\ site \in Site
  BY RunAssumption DEF TypeOK
<1>2. /\ \A c \in Codes : [op |-> "apply", codes |-> {c}] \in Request
      /\ [op |-> "remove", codes |-> page.shown] \in Request
  BY <1>1 DEF Request, Page, Cart
<1>3. /\ \A c \in Codes :
           Append(page.requests, [op |-> "apply", codes |-> {c}]) \in Seq(Request)
      /\ Append(page.requests, [op |-> "remove", codes |-> page.shown]) \in Seq(Request)
  BY <1>1, <1>2 DEF Page
<1>4. (page.error /\ ~site.clearsError) \in BOOLEAN
  BY <1>1 DEF Page, Site
<1>5. \A p \in Page : Emptied(p) \in Page
  BY DEF Emptied, Page, Cart
<1>6. /\ \A c \in Codes : Typed(page, c) \in Page
      /\ RemoveClicked(page) \in Page /\ Expanded(page) \in Page
  BY <1>1, <1>3, <1>4 DEF Typed, RemoveClicked, Expanded, Page, Cart
<1> QED BY <1>1, <1>5, <1>6

-----------------------------------------------------------------------------
\* Every step of the script leaves well-formed data and its invariant behind.
LEMMA StartKeeps ==
  ASSUME IInv, NEW r \in Runs, NEW l \in Lists, Start(r, l)
  PROVE  Kept(r)
<1> DEFINE s == [run[r] EXCEPT !.list = l, !.baseline = page.total]
<1>1. /\ page \in Page /\ page.total \in Total /\ run[r] \in RunState
      /\ RunInv(run[r]) /\ Loc(run[r]) = "start" /\ l \in Seq(Codes)
  BY RunAssumption DEF IInv, TypeOK, Page, Start, Loc
<1>2. s \in RunState
  BY <1>1 DEF RunState
<1>3. /\ s.lowest = NoWinner /\ s.reports = <<>> /\ s.i >= 1 /\ s.reply # "best"
      /\ s.baseline = page.total /\ s.pc = "start"
  BY <1>1 DEF RunInv, ControlInv, RunState, Start
<1>4. WinnerInv(s)
  BY <1>3 DEF WinnerInv
<1>5. ASSUME NEW q \in {"unsupported", "none"},
             Become(r, [At(s, "done") EXCEPT !.reply = q])
      PROVE  \E t \in RunState : RunInv(t) /\ run' = [run EXCEPT ![r] = t]
  <2> DEFINE t == [At(s, "done") EXCEPT !.reply = q]
  <2>1. "done" \in PC \ {"waitIdle"}
    BY DEF PC
  <2>2. At(s, "done") \in RunState /\ At(s, "done").pc = "done"
        /\ SameData(At(s, "done"), s)
    BY <1>2, <2>1, MoveKeepsData
  <2>3. t \in RunState /\ t.pc = "done" /\ t.lowest = NoWinner /\ t.reports = <<>>
        /\ t.i >= 1 /\ t.reply # "best"
    BY <1>3, <2>2 DEF RunState, SameData
  <2>4. RunInv(t)
    BY <2>3 DEF RunInv, ControlInv, WinnerInv, Loc
  <2> QED BY <1>5, <2>3, <2>4 DEF Become
<1>6. ASSUME page.total # NoTotal, ExpandThen(r, s, "code")
      PROVE  /\ page' \in Page
             /\ \E t \in RunState : RunInv(t) /\ run' = [run EXCEPT ![r] = t]
  <2>1. page' \in Page
    BY <1>1, <1>6, PageOps DEF ExpandThen, IInv
  <2>2. "code" \in PC \ {"waitIdle"}
    BY DEF PC
  <2>3. s.baseline \in Nat
    BY <1>1, <1>3, <1>6 DEF Total
  <2>4. RunInv(At(s, "code")) /\ RunInv(IdleAt(s, "code"))
    BY <1>2, <1>3, <1>4, <2>2, <2>3, MoveKeepsInv
  <2>5. At(s, "code") \in RunState /\ IdleAt(s, "code") \in RunState
    BY <1>2, <2>2, MoveKeepsData
  <2> QED BY <1>6, <2>1, <2>4, <2>5 DEF ExpandThen, Become
<1>7. page' \in Page
  BY <1>1, <1>6 DEF Start
<1> QED BY <1>5, <1>6, <1>7 DEF Start, Kept

\* A move of run r to a label, given what MoveKeepsInv asks for.
LEMMA GoKeeps ==
  ASSUME IInv, NEW r \in Runs, NEW l \in PC \ {"waitIdle"}, page' \in Page,
         UNCHANGED site,
         Become(r, At(run[r], l)) \/ Become(r, IdleAt(run[r], l)),
         run[r].reply # "best",
         l # "start", l # "done" => run[r].baseline \in Nat,
         l \in {"compare", "restore", "apply", "result", "total", "judge"} =>
           run[r].i <= Len(run[r].list),
         l = "remove" /\ run[r].i > Len(run[r].list) => run[r].lowest # NoWinner,
         l \in {"reopen", "reapply", "collect"} => run[r].lowest # NoWinner
  PROVE  Kept(r)
<1>1. run[r] \in RunState /\ RunInv(run[r])
  BY DEF IInv, TypeOK
<1>2. WinnerInv(run[r]) /\ run[r].i >= 1
      /\ (run[r].lowest # NoWinner => run[r].baseline \in Nat)
  BY <1>1 DEF RunInv, ControlInv
<1>3. RunInv(At(run[r], l)) /\ RunInv(IdleAt(run[r], l))
  BY <1>1, <1>2, MoveKeepsInv
<1>4. At(run[r], l) \in RunState /\ IdleAt(run[r], l) \in RunState
  BY <1>1, MoveKeepsData
<1> QED BY <1>3, <1>4 DEF Become, Kept

\* What the invariant says of a run that is at, or headed for, l.
LEMMA AtLoc ==
  ASSUME IInv, NEW r \in Runs
  PROVE  /\ run[r] \in RunState /\ page \in Page
         /\ run[r].pc # "done" => run[r].reply # "best"
         /\ Loc(run[r]) \in PC \ {"waitIdle"}
         /\ ControlInv(run[r]) /\ WinnerInv(run[r])
         /\ run[r].pc # "waitIdle" => Loc(run[r]) = run[r].pc
BY DEF IInv, TypeOK, RunInv, ControlInv, Loc, RunState

LEMMA MovesKeep ==
  ASSUME IInv, NEW r \in Runs,
         WaitIdle(r) \/ NextCode(r) \/ Remove(r) \/ Restore(r) \/ AwaitTotal(r)
           \/ Reopen(r)
  PROVE  Kept(r)
<1>1. /\ run[r] \in RunState /\ page \in Page /\ ControlInv(run[r])
      /\ run[r].pc # "done" => run[r].reply # "best"
      /\ Loc(run[r]) \in PC \ {"waitIdle"}
      /\ run[r].pc # "waitIdle" => Loc(run[r]) = run[r].pc
  BY AtLoc
<1>2. /\ Expanded(page) \in Page /\ RemoveClicked(page) \in Page
      /\ Emptied(page) \in Page /\ Emptied(Expanded(page)) \in Page
  BY PageOps DEF IInv
<1>3. /\ {"remove", "compare", "reopen", "apply", "judge", "reapply"}
           \subseteq PC \ {"waitIdle"}
  BY DEF PC
<1>4. CASE WaitIdle(r)
  <2>1. Become(r, At(run[r], Loc(run[r]))) /\ UNCHANGED <<site, page>>
    BY <1>4 DEF WaitIdle, Loc
  <2>2. Loc(run[r]) # "start" /\ run[r].pc # "done"
    BY <1>1, <1>4 DEF WaitIdle, ControlInv
  <2> QED BY <1>1, <2>1, <2>2, GoKeeps DEF ControlInv
<1>5. CASE NextCode(r)
  <2>1. run[r].pc = "code" /\ run[r].i <= Len(run[r].list) /\ UNCHANGED site
        /\ ExpandThen(r, run[r], "remove")
    BY <1>5 DEF NextCode, Testing
  <2>2. page' \in Page
    BY <1>1, <1>2, <2>1 DEF ExpandThen
  <2>3. Become(r, At(run[r], "remove")) \/ Become(r, IdleAt(run[r], "remove"))
    BY <2>1 DEF ExpandThen
  <2>4. run[r].baseline \in Nat /\ run[r].reply # "best"
    BY <1>1, <2>1 DEF ControlInv
  <2>5. ~(run[r].i > Len(run[r].list))
    BY <1>1, <2>1 DEF RunState
  <2> QED BY <1>3, <2>1, <2>2, <2>3, <2>4, <2>5, GoKeeps
<1>6. CASE Remove(r)
  <2> DEFINE l == IF Testing(r) THEN "compare" ELSE "reopen"
  <2>1. /\ run[r].pc = "remove" /\ UNCHANGED site
        /\ page' = RemoveClicked(page) \/ UNCHANGED page
        /\ Become(r, At(run[r], l)) \/ Become(r, IdleAt(run[r], l))
    BY <1>6 DEF Remove
  <2>2. page' \in Page
    BY <1>1, <1>2, <2>1
  <2>3. run[r].baseline \in Nat /\ run[r].reply # "best"
    BY <1>1, <2>1 DEF ControlInv
  <2>4. CASE Testing(r)
    <3>1. l = "compare" /\ run[r].i <= Len(run[r].list)
      BY <2>4 DEF Testing
    <3> QED BY <1>3, <2>1, <2>2, <2>3, <3>1, GoKeeps
  <2>5. CASE ~Testing(r)
    <3>1. l = "reopen" /\ run[r].i > Len(run[r].list)
      BY <1>1, <2>5 DEF Testing, RunState
    <3>2. run[r].lowest # NoWinner
      BY <1>1, <2>1, <3>1 DEF ControlInv
    <3> QED BY <1>3, <2>1, <2>2, <2>3, <3>1, <3>2, GoKeeps
  <2> QED BY <2>4, <2>5
<1>7. CASE Restore(r)
  <2>1. /\ run[r].pc = "restore" /\ UNCHANGED site /\ page' = Emptied(page)
        /\ Become(r, IdleAt(run[r], "apply"))
    BY <1>7 DEF Restore
  <2>2. /\ run[r].baseline \in Nat /\ run[r].reply # "best"
        /\ run[r].i <= Len(run[r].list)
    BY <1>1, <2>1 DEF ControlInv
  <2> QED BY <1>2, <1>3, <2>1, <2>2, GoKeeps
<1>8. CASE AwaitTotal(r)
  <2>1. /\ run[r].pc = "total" /\ UNCHANGED <<site, page>>
        /\ Become(r, At(run[r], "judge"))
    BY <1>8 DEF AwaitTotal
  <2>2. /\ run[r].baseline \in Nat /\ run[r].reply # "best"
        /\ run[r].i <= Len(run[r].list)
    BY <1>1, <2>1 DEF ControlInv
  <2> QED BY <1>1, <1>3, <2>1, <2>2, GoKeeps
<1>9. CASE Reopen(r)
  <2>1. /\ run[r].pc = "reopen" /\ UNCHANGED site
        /\ page' \in {Emptied(page), Emptied(Expanded(page))}
        /\ Become(r, IdleAt(run[r], "reapply"))
    BY <1>9 DEF Reopen
  <2>2. /\ run[r].baseline \in Nat /\ run[r].reply # "best"
        /\ run[r].lowest # NoWinner
    BY <1>1, <2>1 DEF ControlInv
  <2> QED BY <1>2, <1>3, <2>1, <2>2, GoKeeps
<1> QED BY <1>4, <1>5, <1>6, <1>7, <1>8, <1>9

\* The other fields play no part in the invariant.
LEMMA SideFields ==
  ASSUME NEW s, NEW t, SameData(t, s), t.pc = s.pc, t.next = s.next, RunInv(s)
  PROVE  RunInv(t)
BY WinnerInvSame DEF SameData, RunInv, ControlInv, Loc

\* Submitting a code, hearing of it, and comparing totals.
LEMMA TestingKeeps ==
  ASSUME IInv, NEW r \in Runs, Compare(r) \/ Apply(r) \/ Result(r)
  PROVE  Kept(r)
<1>1. /\ run[r] \in RunState /\ page \in Page /\ ControlInv(run[r])
      /\ WinnerInv(run[r])
      /\ run[r].pc \in {"compare", "apply", "result"}
      /\ Loc(run[r]) = run[r].pc
  BY AtLoc DEF Compare, Apply, Result
<1>2. /\ run[r].baseline \in Nat /\ run[r].reply # "best"
      /\ run[r].i <= Len(run[r].list) /\ run[r].i >= 1
  BY <1>1 DEF ControlInv
<1>3. {"restore", "apply", "result", "total", "judge"} \subseteq PC \ {"waitIdle"}
  BY DEF PC
<1>4. \A l \in {"restore", "apply", "result", "total", "judge"} :
        /\ RunInv(At(run[r], l)) /\ RunInv(IdleAt(run[r], l))
        /\ At(run[r], l) \in RunState /\ IdleAt(run[r], l) \in RunState
  BY <1>1, <1>2, <1>3, MoveKeepsInv, MoveKeepsData
<1>5. ASSUME NEW v \in {"applied", "rejected", "timeout"}
      PROVE  Heard(run[r], v) \in RunState /\ RunInv(Heard(run[r], v))
  <2> DEFINE l == IF v = "applied" THEN "total" ELSE "judge"
             t == [IdleAt(run[r], l) EXCEPT !.verdict = v]
  <2>1. IdleAt(run[r], l) \in RunState /\ RunInv(IdleAt(run[r], l))
    BY <1>4
  <2>2. /\ t \in RunState /\ SameData(t, IdleAt(run[r], l))
        /\ t.pc = IdleAt(run[r], l).pc /\ t.next = IdleAt(run[r], l).next
    BY <2>1 DEF RunState, SameData
  <2>3. RunInv(t)
    BY <2>1, <2>2, SideFields
  <2> QED BY <2>2, <2>3 DEF Heard
<1>6. Code(r) \in Codes
  BY <1>1, <1>2 DEF Code, RunState
<1>7. CASE Compare(r)
  <2> DEFINE t == [At(run[r], "restore") EXCEPT !.mark = page.total]
  <2>1. t \in RunState /\ RunInv(t)
    <3>1. At(run[r], "restore") \in RunState /\ RunInv(At(run[r], "restore"))
      BY <1>4
    <3>2. /\ t \in RunState /\ SameData(t, At(run[r], "restore"))
          /\ t.pc = At(run[r], "restore").pc /\ t.next = At(run[r], "restore").next
      BY <1>1, <3>1 DEF RunState, SameData, Page
    <3> QED BY <3>1, <3>2, SideFields
  <2>2. page' \in Page
    BY <1>1, <1>7, PageOps DEF Compare, IInv
  <2>3. /\ Become(r, t) \/ Become(r, IdleAt(run[r], "apply"))
        /\ UNCHANGED site
    BY <1>7 DEF Compare
  <2> QED BY <1>4, <2>1, <2>2, <2>3 DEF Become, Kept
<1>8. CASE Apply(r)
  <2> DEFINE v == Poll(Typed(page, Code(r)), Code(r))
  <2>1. v \in {"none", "applied", "rejected"}
    BY DEF Poll
  <2>2. page' \in Page
    BY <1>6, <1>8, PageOps DEF Apply, IInv
  <2>3. v # "none" => Heard(run[r], v) \in RunState /\ RunInv(Heard(run[r], v))
    BY <1>5, <2>1
  <2>4. Become(r, IF v = "none" THEN At(run[r], "result") ELSE Heard(run[r], v))
        /\ UNCHANGED site
    BY <1>8 DEF Apply
  <2> QED BY <1>4, <2>2, <2>3, <2>4 DEF Become, Kept
<1>9. CASE Result(r)
  <2> DEFINE v == Poll(page, Code(r))
  <2>1. v \in {"none", "applied", "rejected"}
    BY DEF Poll
  <2>2. \/ v # "none" /\ Become(r, Heard(run[r], v))
        \/ Become(r, Heard(run[r], "timeout"))
    BY <1>9 DEF Result
  <2>3. \E u \in {"applied", "rejected", "timeout"} : Become(r, Heard(run[r], u))
    BY <2>1, <2>2
  <2>4. UNCHANGED <<site, page>>
    BY <1>9 DEF Result
  <2> QED BY <1>1, <1>5, <2>3, <2>4 DEF Become, Kept
<1> QED BY <1>7, <1>8, <1>9

\* The loop's end, the winner's submission, the answer, and a settled report.
LEMMA EndingKeeps ==
  ASSUME IInv, NEW r \in Runs,
         EndLoop(r) \/ Reapply(r) \/ Collect(r) \/ ReportSettles(r)
  PROVE  Kept(r)
<1>1. /\ run[r] \in RunState /\ page \in Page /\ ControlInv(run[r])
      /\ WinnerInv(run[r]) /\ RunInv(run[r])
      /\ run[r].pc # "waitIdle" => Loc(run[r]) = run[r].pc
      /\ run[r].pc # "done" => run[r].reply # "best"
  BY AtLoc DEF RunInv
<1>2. {"done", "remove", "collect"} \subseteq PC \ {"waitIdle"}
  BY DEF PC
<1>3. CASE EndLoop(r)
  <2>1. /\ run[r].pc = "code" /\ run[r].i > Len(run[r].list)
        /\ UNCHANGED <<site, page>>
    BY <1>1, <1>3 DEF EndLoop, Testing, RunState
  <2>2. run[r].baseline \in Nat /\ run[r].reply # "best" /\ run[r].i >= 1
    BY <1>1, <2>1 DEF ControlInv
  <2>3. CASE run[r].lowest = NoWinner
    <3> DEFINE t == [At(run[r], "done") EXCEPT !.reply = "none"]
    <3>1. At(run[r], "done") \in RunState /\ RunInv(At(run[r], "done"))
          /\ At(run[r], "done").pc = "done"
      BY <1>1, <1>2, <2>2, MoveKeepsInv, MoveKeepsData
    <3>2. t \in RunState /\ t.reply # "best" /\ t.pc = "done"
          /\ t.i = At(run[r], "done").i /\ t.lowest = At(run[r], "done").lowest
          /\ t.baseline = At(run[r], "done").baseline
          /\ t.reports = At(run[r], "done").reports
      BY <3>1 DEF RunState
    <3>3. RunInv(t)
      BY <3>1, <3>2 DEF RunInv, ControlInv, WinnerInv, Loc
    <3>4. Become(r, t)
      BY <1>3, <2>3 DEF EndLoop
    <3> QED BY <1>1, <2>1, <3>2, <3>3, <3>4 DEF Become, Kept
  <2>4. CASE run[r].lowest # NoWinner
    <3>1. Become(r, At(run[r], "remove"))
      BY <1>3, <2>4 DEF EndLoop
    <3> QED BY <1>1, <1>2, <2>1, <2>2, <2>4, <3>1, GoKeeps
  <2> QED BY <2>3, <2>4
<1>4. CASE Reapply(r)
  <2>1. /\ run[r].pc = "reapply" /\ UNCHANGED site
        /\ page' = Typed(page, run[r].lowest.code)
        /\ Become(r, IdleAt(run[r], "collect"))
    BY <1>4 DEF Reapply
  <2>2. /\ run[r].baseline \in Nat /\ run[r].reply # "best"
        /\ run[r].lowest # NoWinner
    BY <1>1, <2>1 DEF ControlInv
  <2>3. run[r].lowest.code \in Codes
    BY <1>1, <2>2 DEF RunState, Winner
  <2>4. page' \in Page
    BY <2>1, <2>3, PageOps DEF IInv
  <2> QED BY <1>2, <2>1, <2>2, <2>4, GoKeeps
<1>5. CASE Collect(r)
  <2> DEFINE t == [At(run[r], "done") EXCEPT !.reply = "best", !.warned = run[r].unsaved]
  <2>1. /\ run[r].pc = "collect" /\ UNCHANGED <<site, page>> /\ Become(r, t)
    BY <1>5 DEF Collect
  <2>2. /\ run[r].baseline \in Nat /\ run[r].reply # "best" /\ run[r].i >= 1
        /\ run[r].lowest # NoWinner
    BY <1>1, <2>1 DEF ControlInv
  <2>3. At(run[r], "done") \in RunState /\ RunInv(At(run[r], "done"))
        /\ At(run[r], "done").pc = "done" /\ SameData(At(run[r], "done"), run[r])
    BY <1>1, <1>2, <2>2, MoveKeepsInv, MoveKeepsData
  <2>4. t \in RunState /\ t.pc = "done" /\ t.i = At(run[r], "done").i
        /\ t.lowest = At(run[r], "done").lowest
        /\ t.baseline = At(run[r], "done").baseline
        /\ t.reports = At(run[r], "done").reports
    BY <1>1, <2>3 DEF RunState
  <2>5. RunInv(t)
    BY <2>2, <2>3, <2>4 DEF RunInv, ControlInv, WinnerInv, Loc, SameData
  <2> QED BY <1>1, <2>1, <2>4, <2>5 DEF Become, Kept
<1>6. CASE ReportSettles(r)
  <2>1. PICK failed \in BOOLEAN :
          Become(r, [run[r] EXCEPT !.pending = @ - 1, !.unsaved = @ \/ failed])
    BY <1>6 DEF ReportSettles
  <2> DEFINE t == [run[r] EXCEPT !.pending = run[r].pending - 1,
                                 !.unsaved = run[r].unsaved \/ failed]
  <2>2. run[r].pending - 1 \in Nat /\ (run[r].unsaved \/ failed) \in BOOLEAN
    <3>1. run[r].pending \in Nat /\ run[r].pending > 0
      BY <1>1, <1>6 DEF ReportSettles, RunState
    <3>2. (run[r].unsaved \/ failed) \in BOOLEAN
      OBVIOUS
    <3> QED BY <3>1, <3>2
  <2>3. t \in RunState /\ SameData(t, run[r]) /\ t.pc = run[r].pc /\ t.next = run[r].next
    BY <1>1, <2>2 DEF RunState, SameData
  <2>4. RunInv(t)
    BY <1>1, <2>3, SideFields
  <2>5. UNCHANGED <<site, page>>
    BY <1>6 DEF ReportSettles
  <2>6. Become(r, t)
    BY <2>1
  <2> QED BY <1>1, <2>3, <2>4, <2>5, <2>6 DEF Become, Kept
<1> QED BY <1>3, <1>4, <1>5, <1>6

-----------------------------------------------------------------------------
\* Position k shows that w is the lowest.
LEMMA Shows ==
  ASSUME NEW w, NEW reports, NEW k \in DOMAIN reports,
         reports[k] = [code |-> w.code, success |-> TRUE,
                       savings |-> w.savings, final |-> w.total],
         \A j \in DOMAIN reports : reports[j].success =>
           /\ reports[j].final >= w.total
           /\ j < k => reports[j].final > w.total
  PROVE  IsLowest(w, reports)
BY DEF IsLowest

\* A success appended to the reports keeps or replaces the lowest one.
LEMMA LowerKeepsLowest ==
  ASSUME NEW s \in RunState, WinnerInv(s), s.baseline \in Nat,
         NEW found \in Winner, found.total < s.baseline,
         found.savings = s.baseline - found.total,
         NEW rep \in Report,
         rep = [code |-> found.code, success |-> TRUE,
                savings |-> found.savings, final |-> found.total]
  PROVE  /\ Lower(s.lowest, found) \in Winner
         /\ Lower(s.lowest, found).total < s.baseline
         /\ Lower(s.lowest, found).savings = s.baseline - Lower(s.lowest, found).total
         /\ IsLowest(Lower(s.lowest, found), Append(s.reports, rep))
<1> DEFINE reports == Append(s.reports, rep)
           n == Len(s.reports)
<1>1. /\ s.reports \in Seq(Report) /\ n \in Nat /\ Len(reports) = n + 1
      /\ DOMAIN reports = 1 .. (n + 1) /\ DOMAIN s.reports = 1 .. n
      /\ reports[n + 1] = rep /\ \A j \in 1 .. n : reports[j] = s.reports[j]
  BY DEF RunState
<1>2. /\ found.total \in Nat /\ rep.success = TRUE /\ rep.final = found.total
      /\ \A j \in 1 .. n : reports[j].final \in Nat
  <2>1. \A j \in 1 .. n : s.reports[j] \in Report
    BY <1>1
  <2> QED BY <1>1, <2>1 DEF Winner, Report
<1>3. /\ n + 1 \in DOMAIN reports
      /\ reports[n + 1] = [code |-> found.code, success |-> TRUE,
                           savings |-> found.savings, final |-> found.total]
  BY <1>1
<1> HIDE DEF reports, n
<1>4. CASE s.lowest = NoWinner
  <2>1. \A j \in 1 .. n : ~reports[j].success
    BY <1>1, <1>4 DEF WinnerInv
  <2>2. \A j \in 1 .. (n + 1) : reports[j].success => j = n + 1
    BY <1>1, <2>1
  <2>3. \A j \in 1 .. (n + 1) : reports[j].success =>
          /\ reports[j].final >= found.total
          /\ j < n + 1 => reports[j].final > found.total
    BY <1>1, <1>2, <2>2
  <2>4. IsLowest(found, reports)
    BY <1>3, <1>1, <2>3, Shows
  <2> QED BY <1>4, <2>4 DEF Lower, reports
<1>5. CASE s.lowest # NoWinner
  <2>1. /\ s.lowest \in Winner /\ s.lowest.total \in Nat
        /\ s.lowest.total < s.baseline
        /\ s.lowest.savings = s.baseline - s.lowest.total
        /\ IsLowest(s.lowest, s.reports)
    BY <1>5 DEF WinnerInv, RunState, Winner
  <2>2. PICK k \in 1 .. n :
          /\ s.reports[k] = [code |-> s.lowest.code, success |-> TRUE,
                             savings |-> s.lowest.savings, final |-> s.lowest.total]
          /\ \A j \in 1 .. n : s.reports[j].success =>
               /\ s.reports[j].final >= s.lowest.total
               /\ j < k => s.reports[j].final > s.lowest.total
    BY <1>1, <2>1 DEF IsLowest
  <2>3. CASE found.total < s.lowest.total
    <3>1. Lower(s.lowest, found) = found
      BY <1>2, <1>5, <2>1, <2>3 DEF Lower
    <3>2. ASSUME NEW j \in 1 .. n, reports[j].success
          PROVE  reports[j].final > found.total
      <4>1. reports[j] = s.reports[j] /\ s.reports[j].final >= s.lowest.total
        BY <1>1, <2>2, <3>2
      <4>2. reports[j].final \in Nat
        BY <1>2
      <4>. QED
        BY <1>2, <2>1, <2>3, <4>1, <4>2
    <3>3. \A j \in 1 .. (n + 1) : reports[j].success =>
            /\ reports[j].final >= found.total
            /\ j < n + 1 => reports[j].final > found.total
      BY <1>1, <1>2, <3>2
    <3>4. IsLowest(found, reports)
      BY <1>3, <1>1, <3>3, Shows
    <3> QED BY <3>1, <3>4 DEF reports
  <2>4. CASE ~(found.total < s.lowest.total)
    <3>1. found.total >= s.lowest.total
      BY <1>2, <2>1, <2>4
    <3>2. found.total = s.lowest.total => ~(found.savings > s.lowest.savings)
      BY <1>2, <2>1
    <3>3. Lower(s.lowest, found) = s.lowest
      BY <1>2, <1>5, <2>1, <2>4, <3>2 DEF Lower
    <3>4. \A j \in 1 .. (n + 1) : reports[j].success =>
            /\ reports[j].final >= s.lowest.total
            /\ j < k => reports[j].final > s.lowest.total
      BY <1>1, <1>2, <2>2, <3>1
    <3>5. /\ k \in DOMAIN reports
          /\ reports[k] = [code |-> s.lowest.code, success |-> TRUE,
                           savings |-> s.lowest.savings, final |-> s.lowest.total]
      BY <1>1, <2>2
    <3>6. IsLowest(s.lowest, reports)
      BY <1>1, <3>4, <3>5, Shows
    <3> QED BY <2>1, <3>3, <3>6 DEF reports
  <2> QED BY <2>3, <2>4
<1> QED BY <1>4, <1>5

\* A failure appended to the reports leaves the lowest one as it is.
LEMMA FailureKeepsLowest ==
  ASSUME NEW s \in RunState, WinnerInv(s), NEW rep \in Report, ~rep.success
  PROVE  IF s.lowest = NoWinner
         THEN \A j \in DOMAIN Append(s.reports, rep) :
                ~Append(s.reports, rep)[j].success
         ELSE IsLowest(s.lowest, Append(s.reports, rep))
<1> DEFINE reports == Append(s.reports, rep)
           n == Len(s.reports)
<1>1. /\ n \in Nat /\ DOMAIN reports = 1 .. (n + 1) /\ DOMAIN s.reports = 1 .. n
      /\ reports[n + 1] = rep /\ \A j \in 1 .. n : reports[j] = s.reports[j]
  BY DEF RunState
<1>2. CASE s.lowest = NoWinner
  <2>1. \A j \in 1 .. (n + 1) : ~reports[j].success
    BY <1>1, <1>2 DEF WinnerInv
  <2> QED BY <1>1, <1>2, <2>1
<1>3. CASE s.lowest # NoWinner
  <2>1. PICK k \in 1 .. n :
          /\ s.reports[k] = [code |-> s.lowest.code, success |-> TRUE,
                             savings |-> s.lowest.savings, final |-> s.lowest.total]
          /\ \A j \in 1 .. n : s.reports[j].success =>
               /\ s.reports[j].final >= s.lowest.total
               /\ j < k => s.reports[j].final > s.lowest.total
    BY <1>1, <1>3 DEF WinnerInv, IsLowest
  <2>2. \A j \in 1 .. (n + 1) : reports[j].success => j \in 1 .. n
    BY <1>1
  <2>3. IsLowest(s.lowest, reports)
    BY <1>1, <2>1, <2>2 DEF IsLowest
  <2> QED BY <1>3, <2>3
<1> QED BY <1>2, <1>3

LEMMA JudgeKeeps ==
  ASSUME IInv, NEW r \in Runs, Judge(r)
  PROVE  Kept(r)
<1> DEFINE s      == run[r]
           better == Improved(s, page.total)
           saved  == IF better THEN s.baseline - page.total ELSE 0
           final  == FinalTotal(s, page.total)
           report == [code |-> Code(r), success |-> better,
                      savings |-> saved, final |-> final]
           found  == [code |-> Code(r), total |-> final, savings |-> saved]
           low    == IF better THEN Lower(s.lowest, found) ELSE s.lowest
           t      == [At(s, "code") EXCEPT
                        !.reports = Append(s.reports, report),
                        !.pending = s.pending + 1,
                        !.lowest  = low,
                        !.i       = s.i + 1]
<1>1. /\ s \in RunState /\ page \in Page /\ ControlInv(s) /\ WinnerInv(s)
      /\ s.pc = "judge" /\ Loc(s) = "judge"
  BY AtLoc DEF Judge
<1>2. s.baseline \in Nat /\ s.reply # "best" /\ s.i <= Len(s.list) /\ s.i >= 1
  BY <1>1 DEF ControlInv
<1>3. Code(r) \in Codes
  BY <1>1, <1>2 DEF Code, RunState
<1>4. better \in BOOLEAN
  BY DEF Improved
<1>5. better => page.total \in Nat /\ page.total < s.baseline
  BY <1>1 DEF Improved, Page, Total
<1>6. saved \in Nat /\ final \in Nat
  BY <1>2, <1>5 DEF FinalTotal
<1>7. report \in Report
  BY <1>3, <1>4, <1>6 DEF Report
<1>8. found \in Winner
  BY <1>3, <1>6 DEF Winner
<1>9. /\ low \in Winner \cup {NoWinner}
      /\ IF low = NoWinner
         THEN \A j \in DOMAIN Append(s.reports, report) :
                ~Append(s.reports, report)[j].success
         ELSE /\ low.total < s.baseline /\ low.savings = s.baseline - low.total
              /\ IsLowest(low, Append(s.reports, report))
  <2>1. CASE better
    <3>1. /\ found.total < s.baseline /\ found.savings = s.baseline - found.total
          /\ report = [code |-> found.code, success |-> TRUE,
                       savings |-> found.savings, final |-> found.total]
      BY <1>5, <2>1 DEF FinalTotal
    <3>2. /\ Lower(s.lowest, found) \in Winner
          /\ Lower(s.lowest, found).total < s.baseline
          /\ Lower(s.lowest, found).savings = s.baseline - Lower(s.lowest, found).total
          /\ IsLowest(Lower(s.lowest, found), Append(s.reports, report))
      BY <1>1, <1>2, <1>7, <1>8, <3>1, LowerKeepsLowest
    <3>3. Lower(s.lowest, found) # NoWinner
      BY <3>2, RunAssumption DEF Winner
    <3> QED BY <2>1, <3>2, <3>3
  <2>2. CASE ~better
    <3>1. ~report.success
      BY <2>2
    <3> QED BY <1>1, <1>7, <2>2, <3>1, FailureKeepsLowest DEF WinnerInv, RunState
  <2> QED BY <2>1, <2>2
<1>10. "code" \in PC \ {"waitIdle"}
  BY DEF PC
<1>11. /\ At(s, "code") \in RunState /\ At(s, "code").pc = "code"
       /\ SameData(At(s, "code"), s)
  BY <1>1, <1>10, MoveKeepsData
<1>12. Append(s.reports, report) \in Seq(Report) /\ s.pending + 1 \in Nat
       /\ s.i + 1 \in Nat /\ s.i + 1 >= 1
  BY <1>1, <1>2, <1>7 DEF RunState
<1>13. t \in RunState /\ t.pc = "code" /\ t.i = s.i + 1 /\ t.lowest = low
       /\ t.baseline = s.baseline /\ t.reply = s.reply
       /\ t.reports = Append(s.reports, report)
  BY <1>9, <1>11, <1>12 DEF RunState, SameData
<1>14. WinnerInv(t)
  BY <1>9, <1>13 DEF WinnerInv
<1>15. ControlInv(t)
  BY <1>2, <1>12, <1>13 DEF ControlInv, Loc
<1>16. Become(r, t) /\ UNCHANGED <<site, page>>
  <2>1. At(s, "code").reports = s.reports /\ At(s, "code").pending = s.pending
        /\ At(s, "code").lowest = s.lowest /\ At(s, "code").i = s.i
    BY <1>1 DEF At, RunState
  <2> QED BY <2>1 DEF Judge
<1> QED BY <1>1, <1>13, <1>14, <1>15, <1>16 DEF Become, Kept, RunInv

-----------------------------------------------------------------------------
\* The invariant holds of a fresh run on any page.
LEMMA InitInv == Init => IInv
<1> SUFFICES ASSUME Init PROVE IInv
  OBVIOUS
<1>1. site \in Sites /\ site \in Site
  BY RunAssumption DEF Init
<1>2. page \in Page
  <2>1. PICK cart \in StartCarts, error \in BOOLEAN, open \in BOOLEAN, blank \in BOOLEAN :
          page = [cart |-> cart, shown |-> cart,
                  total |-> IF blank THEN NoTotal ELSE Price(cart),
                  error |-> error, open |-> open, input |-> {}, requests |-> <<>>]
    BY DEF Init
  <2>2. cart \in Cart /\ Price(cart) \in Nat /\ {} \in Cart
    BY <1>1, RunAssumption DEF Price, Site, Cart
  <2> QED BY <2>1, <2>2 DEF Page, Total
<1>3. Fresh \in RunState
  BY DEF Fresh, RunState, PC, Total
<1>4. RunInv(Fresh)
  BY DEF Fresh, RunInv, ControlInv, WinnerInv, Loc
<1> QED BY <1>1, <1>2, <1>3, <1>4 DEF Init, IInv, TypeOK

\* And every step keeps it.
LEMMA StepInv == IInv /\ [Next]_vars => IInv'
<1> SUFFICES ASSUME IInv, [Next]_vars PROVE IInv'
  OBVIOUS
<1>1. ASSUME NEW r \in Runs, Kept(r) PROVE IInv'
  <2>1. PICK s \in RunState : RunInv(s) /\ run' = [run EXCEPT ![r] = s]
    BY <1>1 DEF Kept
  <2>2. run' \in [Runs -> RunState]
    BY <2>1 DEF IInv, TypeOK
  <2>3. \A q \in Runs : RunInv(run'[q])
    BY <2>1 DEF IInv, TypeOK
  <2>4. site' \in Sites /\ page' \in Page
    BY <1>1 DEF Kept, IInv, TypeOK
  <2>5. TypeOK'
    BY <2>2, <2>4 DEF TypeOK
  <2>6. (\A q \in Runs : RunInv(run[q]))'
    BY <2>3
  <2> QED BY <2>5, <2>6 DEF IInv
<1>2. ASSUME NEW r \in Runs, NEW l \in Lists, Start(r, l) PROVE IInv'
  BY <1>1, <1>2, StartKeeps
<1>3. ASSUME NEW r \in Runs, Script(r) \/ ReportSettles(r) PROVE IInv'
  BY <1>1, <1>3, MovesKeep, TestingKeeps, EndingKeeps, JudgeKeeps DEF Script
<1>4. CASE PageStep
  <2>1. page' \in Page /\ UNCHANGED <<site, run>>
    BY <1>4, PageKeepsType DEF IInv
  <2> QED BY <2>1 DEF IInv, TypeOK
<1>5. CASE UNCHANGED vars
  BY <1>5 DEF vars, IInv, TypeOK
<1> QED BY <1>2, <1>3, <1>4, <1>5 DEF Next

LEMMA Invariance == Spec => []IInv
<1>1. Init => IInv
  BY InitInv
<1>2. IInv /\ [Next]_vars => IInv'
  BY StepInv
<1> QED BY <1>1, <1>2, PTL DEF Spec

\* The script's locals and the page keep their shape, for any set of runs,
\* codes, candidate lists and merchants.
THEOREM TypeCorrect == Spec => []TypeOK
<1>1. IInv => TypeOK
  BY DEF IInv
<1> QED BY <1>1, Invariance, PTL

\* However the page behaves, a run that answers with a winner answers with the
\* first code of the lowest total it verified below the baseline.
THEOREM WinnerCorrect == Spec => []WinnerIsLowestVerified
<1>1. IInv => WinnerIsLowestVerified
  <2> SUFFICES ASSUME IInv, NEW r \in Runs, run[r].reply = "best"
               PROVE  /\ run[r].lowest # NoWinner
                      /\ run[r].lowest.total < run[r].baseline
                      /\ run[r].lowest.savings = run[r].baseline - run[r].lowest.total
                      /\ IsLowest(run[r].lowest, run[r].reports)
    BY DEF WinnerIsLowestVerified, IsLowest
  <2>1. run[r].lowest # NoWinner /\ WinnerInv(run[r])
    BY AtLoc DEF ControlInv
  <2> QED BY <2>1 DEF WinnerInv
<1> QED BY <1>1, Invariance, PTL

-----------------------------------------------------------------------------
\* A run that named a winner has waited for its reports, and told of them.
Told(s) == s.reply = "best" => s.pending = 0 /\ (s.warned <=> s.unsaved)

AllTold == \A r \in Runs : Told(run[r])

\* Every step of the script but the last leaves the run without a winner named.
LEMMA StepsNameNone ==
  ASSUME IInv, NEW r \in Runs,
         (\E l \in Lists : Start(r, l)) \/ (Script(r) /\ ~Collect(r))
  PROVE  \E t \in RunState : t.reply # "best" /\ run' = [run EXCEPT ![r] = t]
<1>1. PICK t \in RunState : run' = [run EXCEPT ![r] = t]
  BY StartKeeps, MovesKeep, TestingKeeps, EndingKeeps, JudgeKeeps DEF Script, Kept
<1> SUFFICES t.reply # "best"
  BY <1>1
<1>2. run[r] \in RunState /\ (run[r].pc # "done" => run[r].reply # "best")
  BY AtLoc
<1>3. ASSUME NEW u, Become(r, u) PROVE t = u
  BY <1>1, <1>3 DEF Become, IInv, TypeOK
<1>4. ASSUME NEW l, run[r].pc # "done",
             Become(r, At(run[r], l)) \/ Become(r, IdleAt(run[r], l))
      PROVE  t.reply # "best"
  <2>1. At(run[r], l).reply = run[r].reply /\ IdleAt(run[r], l).reply = run[r].reply
    BY <1>2 DEF At, IdleAt, RunState
  <2> QED BY <1>2, <1>3, <1>4, <2>1
<1>5. ASSUME NEW l \in Lists, Start(r, l) PROVE t.reply # "best"
  <2> DEFINE s == [run[r] EXCEPT !.list = l, !.baseline = page.total]
             a == [At(s, "done") EXCEPT !.reply = "unsupported"]
             b == [At(s, "done") EXCEPT !.reply = "none"]
             c == At(s, "code")
             d == IdleAt(s, "code")
  <2>1. run[r].pc = "start" /\ run[r].reply # "best"
    BY <1>2, <1>5 DEF Start
  <2>2. Become(r, a) \/ Become(r, b) \/ Become(r, c) \/ Become(r, d)
    BY <1>5 DEF Start, ExpandThen
  <2>3. /\ a.reply = "unsupported" /\ b.reply = "none"
        /\ c.reply = run[r].reply /\ d.reply = run[r].reply
    BY <1>2 DEF At, IdleAt, RunState
  <2> HIDE DEF a, b, c, d
  <2> QED BY <1>3, <2>1, <2>2, <2>3
<1>6. CASE \/ WaitIdle(r) \/ NextCode(r) \/ Remove(r) \/ Restore(r) \/ AwaitTotal(r)
           \/ Reopen(r) \/ Reapply(r)
  BY <1>4, <1>6
     DEF WaitIdle, NextCode, Remove, Restore, AwaitTotal, Reopen, Reapply, ExpandThen
<1>7. CASE Compare(r)
  <2> DEFINE a == [At(run[r], "restore") EXCEPT !.mark = page.total]
  <2>1. run[r].pc = "compare" /\ (Become(r, a) \/ Become(r, IdleAt(run[r], "apply")))
    BY <1>7 DEF Compare
  <2>2. a.reply = run[r].reply
    BY <1>2 DEF At, RunState
  <2> HIDE DEF a
  <2> QED BY <1>2, <1>3, <1>4, <2>1, <2>2
<1>8. CASE Apply(r) \/ Result(r)
  <2>1. run[r].pc # "done"
        /\ (Become(r, At(run[r], "result")) \/ \E v : Become(r, Heard(run[r], v)))
    BY <1>8 DEF Apply, Result
  <2>2. \A v : Heard(run[r], v).reply = run[r].reply
    BY <1>2 DEF Heard, IdleAt, RunState
  <2> QED BY <1>2, <1>3, <1>4, <2>1, <2>2
<1>9. CASE EndLoop(r)
  <2> DEFINE a == [At(run[r], "done") EXCEPT !.reply = "none"]
  <2>1. run[r].pc = "code" /\ (Become(r, a) \/ Become(r, At(run[r], "remove")))
    BY <1>9 DEF EndLoop
  <2>2. a.reply = "none"
    BY <1>2 DEF At, RunState
  <2> HIDE DEF a
  <2> QED BY <1>3, <1>4, <2>1, <2>2
<1>10. CASE Judge(r)
  <2>1. \E reports, pending, lowest, i :
          Become(r, [At(run[r], "code") EXCEPT !.reports = reports, !.pending = pending,
                                               !.lowest = lowest, !.i = i])
    BY <1>10 DEF Judge
  <2>2. PICK reports, pending, lowest, i :
          t = [At(run[r], "code") EXCEPT !.reports = reports, !.pending = pending,
                                         !.lowest = lowest, !.i = i]
    BY <1>3, <2>1
  <2>3. t.reply = run[r].reply
    BY <1>2, <2>2 DEF At, RunState
  <2> QED BY <1>2, <1>10, <2>3 DEF Judge
<1> QED BY <1>5, <1>6, <1>7, <1>8, <1>9, <1>10 DEF Script

LEMMA StepTells == ASSUME IInv, AllTold, [Next]_vars PROVE AllTold'
<1>1. ASSUME NEW r \in Runs, NEW t \in RunState, Told(t), run' = [run EXCEPT ![r] = t]
      PROVE  AllTold'
  BY <1>1 DEF AllTold, IInv, TypeOK
<1>2. ASSUME NEW r \in Runs,
             (\E l \in Lists : Start(r, l)) \/ (Script(r) /\ ~Collect(r))
      PROVE AllTold'
  BY <1>1, <1>2, StepsNameNone DEF Told
<1>3. ASSUME NEW r \in Runs, Collect(r) PROVE AllTold'
  <2> DEFINE t == [At(run[r], "done") EXCEPT !.reply = "best", !.warned = run[r].unsaved]
  <2>1. t \in RunState /\ t.pending = 0 /\ t.warned = t.unsaved
    BY <1>3, AtLoc DEF Collect, At, RunState, PC
  <2>2. run' = [run EXCEPT ![r] = t]
    BY <1>3 DEF Collect, Become
  <2>3. Told(t)
    BY <2>1 DEF Told
  <2> HIDE DEF t
  <2> QED BY <1>1, <2>1, <2>2, <2>3
<1>4. ASSUME NEW r \in Runs, ReportSettles(r) PROVE AllTold'
  <2>1. PICK t \in RunState : run' = [run EXCEPT ![r] = t]
    BY <1>4, EndingKeeps DEF Kept
  <2>2. run[r].reply # "best" /\ run[r] \in RunState
    BY <1>4 DEF ReportSettles, IInv, TypeOK, AllTold, Told, RunState
  <2>3. PICK pending, unsaved :
          run' = [run EXCEPT ![r] = [run[r] EXCEPT !.pending = pending,
                                                   !.unsaved = unsaved]]
    BY <1>4 DEF ReportSettles, Become
  <2>4. t = [run[r] EXCEPT !.pending = pending, !.unsaved = unsaved]
    BY <2>1, <2>3 DEF IInv, TypeOK
  <2>5. t.reply # "best"
    BY <2>2, <2>4 DEF RunState
  <2> QED BY <1>1, <2>1, <2>5 DEF Told
<1>5. CASE PageStep \/ UNCHANGED vars
  BY <1>5, PageKeepsType DEF IInv, AllTold, vars
<1> QED BY <1>2, <1>3, <1>4, <1>5 DEF Next

\* The note "result not saved" of an answer that names a winner is the truth about
\* every report of its run, in whatever order reports settle and steps are taken.
THEOREM WarningsCorrect == Spec => []WarnsOfLostReports
<1>1. Init => AllTold
  BY DEF Init, AllTold, Told, Fresh
<1>2. IInv /\ AllTold /\ [Next]_vars => AllTold'
  BY StepTells
<1>3. AllTold => WarnsOfLostReports
  BY DEF AllTold, Told, WarnsOfLostReports
<1> QED BY <1>1, <1>2, <1>3, Invariance, PTL DEF Spec

-----------------------------------------------------------------------------
(* A run alone on a page it can read: what is on the page at each of its      *)
(* steps, for merchants that redeem codes one at a time.                      *)

\* A remove click on one discount, and a submitted code, on their way.
Rem(x) == [op |-> "remove", codes |-> {x}]
App(c) == [op |-> "apply", codes |-> {c}]

\* The page with nothing in the cart, with the one discount x, and with what code
\* c gave to a bare cart: the requests on their way are q, the total is one of T.
Bare(q, T)        == page.requests = q /\ page.cart = {} /\ page.total \in T
Wearing(x, q, T)  == page.requests = q /\ page.cart = {x} /\ page.total \in T
Redeemed(c, T)    == /\ page.requests = <<>> /\ page.cart = site.redeem[{}][c]
                     /\ page.total \in T /\ page.error = (c \notin page.cart)
                     /\ site.keepsInput \/ page.input = {}

\* Before any run: the shopper's own cart, not repainted perhaps.
Untouched ==
  /\ page.cart \in StartCarts /\ page.requests = <<>>
  /\ page.total \in {NoTotal, Price(page.cart)}

\* Between two codes: what was verified last is on screen, or nothing is.
Between(b) ==
  \/ Bare(<<>>, {NoTotal, b})
  \/ \E x \in Codes : /\ Wearing(x, <<>>, {Price({x})})
                      /\ Price({x}) = b \/ site.redeem[{}][x] = {x}

\* The remove buttons are clicked: the total is still the old one, or gone.
Removing(b) ==
  \/ Bare(<<>>, {NoTotal, b})
  \/ \E x \in Codes : \/ Wearing(x, <<Rem(x)>>, {Price({x})})
                      \/ Bare(<<>>, {Price({x})})

\* The run waits for a total other than mark, the one it saw then.
Restoring(b, mark) ==
  /\ mark \notin {NoTotal, b}
  /\ \/ Bare(<<>>, {NoTotal, b, mark})
     \/ \E x \in Codes : Wearing(x, <<Rem(x)>>, {mark}) /\ mark = Price({x})

\* Nothing but the baseline can be on screen when a code is submitted; a discount
\* worth nothing may still be there.
Cleared(b) ==
  \/ Bare(<<>>, {NoTotal, b})
  \/ \E x \in Codes : Wearing(x, <<Rem(x)>>, {b}) /\ b = Price({x})

Submitted(b, c) ==
  \/ \E x \in Codes : /\ Wearing(x, <<Rem(x), App(c)>>, {b})
                      /\ b = Price({x}) /\ page.error = FALSE
  \/ Bare(<<App(c)>>, {NoTotal, b}) /\ page.error = FALSE
  \/ Redeemed(c, {NoTotal, b, Price(site.redeem[{}][c])})

\* The verdict is about code c, and its total is read when it was applied.
Judged(b, c, verdict) ==
  \/ verdict = "applied" /\ Redeemed(c, {Price(site.redeem[{}][c])})
  \/ verdict = "rejected" /\ Redeemed(c, {NoTotal, b, Price(site.redeem[{}][c])})
     /\ page.error = TRUE

\* The last discount is removed, and the winner submitted.
Ending ==
  \/ Bare(<<>>, Total)
  \/ \E x \in Codes : Wearing(x, <<Rem(x)>>, Total)

Reapplied(w) ==
  \/ \E x \in Codes : Wearing(x, <<Rem(x), App(w)>>, Total)
  \/ Bare(<<App(w)>>, Total)
  \/ Redeemed(w, Total)

\* What is on the page where run s is.
PageFor(s) ==
  /\ Loc(s) \in {"code", "remove"} => Between(s.baseline)
  /\ Loc(s) = "compare" => Removing(s.baseline)
  /\ Loc(s) = "restore" => Restoring(s.baseline, s.mark)
  /\ Loc(s) = "apply"   => Cleared(s.baseline)
  /\ Loc(s) = "result"  => Submitted(s.baseline, s.list[s.i])
  /\ Loc(s) = "total"   => Submitted(s.baseline, s.list[s.i]) /\ s.verdict = "applied"
  /\ Loc(s) = "judge"   => Judged(s.baseline, s.list[s.i], s.verdict)
  /\ Loc(s) \in {"reopen", "reapply"} => Ending
  /\ Loc(s) = "collect" \/ s.reply = "best" => Reapplied(s.lowest.code)
  /\ s.reply = "none" => Between(s.baseline)

\* The reports fired so far are about the codes tested so far, in order.
Ordered(s) ==
  /\ Loc(s) # "start" /\ s.baseline \in Nat =>
       s.i <= Len(s.list) + 1 /\ Len(s.reports) = s.i - 1
  /\ \A k \in DOMAIN s.reports : k \in DOMAIN s.list /\ s.reports[k].code = s.list[k]
  /\ Loc(s) \in {"reopen", "reapply", "collect"} => s.i = Len(s.list) + 1
  /\ s.reply \in {"none", "best"} /\ s.baseline \in Nat => s.i = Len(s.list) + 1
  /\ s.reply = "none" => s.lowest = NoWinner
  /\ Loc(s) # "done" => s.reply = "pending"
  /\ Loc(s) = "done" => s.pc = "done"
  /\ s.pc = "start" => s = Fresh

\* A report tells what the code is worth against the baseline b.
Honest(rep, b) ==
  /\ rep.success <=> TrueTotal(rep.code) < b
  /\ rep.success => rep.final = TrueTotal(rep.code)

\* The page is where run s needs it, and its reports tell the truth.
Truthful(s) ==
  /\ PageFor(s)
  /\ \A k \in DOMAIN s.reports : Honest(s.reports[k], s.baseline)

InStep(r) == Readable /\ Alone(r) /\ run[r].baseline = Price({}) => Truthful(run[r])

\* What needs no company: the tags are those of the cart, the form stays open
\* where it does not fold, and every run's reports are in order.
Steady ==
  /\ page.shown = page.cart
  /\ ~site.collapses => page.open
  /\ \A r \in Runs : Ordered(run[r])
  /\ (\A r \in Runs : run[r].pc = "start") => Untouched

TInv == IInv /\ Steady /\ \A r \in Runs : InStep(r)

-----------------------------------------------------------------------------
\* What a step of the page does to each of its fields.
LEMMA OnAnswerApply ==
  ASSUME TypeOK, AnswerApply
  PROVE  /\ UNCHANGED <<site, run>> /\ page.requests # <<>>
         /\ Head(page.requests).op = "apply"
         /\ page'.shown = page'.cart
         /\ page'.total \in {page.total, NoTotal}
         /\ page'.open = page.open \/ site.collapses
         /\ site.keepsInput \/ page'.input = {}
         /\ page'.requests = Tail(page.requests)
         /\ \E c \in Head(page.requests).codes :
              /\ page'.cart = site.redeem[page.cart][c]
              /\ page'.error = (c \notin page'.cart)
<1>1. PICK c \in Head(page.requests).codes,
           total \in TotalsNow, open \in OpenNow, input \in InputNow :
        page' = [page EXCEPT !.cart = site.redeem[page.cart][c],
                             !.shown = site.redeem[page.cart][c],
                             !.total = total,
                             !.error = c \notin site.redeem[page.cart][c],
                             !.open = open, !.input = input,
                             !.requests = Tail(page.requests)]
  BY DEF AnswerApply
<1>2. page \in Page
  BY DEF TypeOK
<1>3. /\ page'.cart = site.redeem[page.cart][c] /\ page'.shown = page'.cart
      /\ page'.total = total /\ page'.error = (c \notin page'.cart)
      /\ page'.open = open /\ page'.requests = Tail(page.requests)
      /\ page'.input = input
  BY <1>1, <1>2 DEF Page
<1>4. /\ total \in {page.total, NoTotal} /\ (open = page.open \/ site.collapses)
      /\ site.keepsInput \/ input = {}
  BY DEF TotalsNow, OpenNow, InputNow
<1> QED BY <1>3, <1>4 DEF AnswerApply

LEMMA OnAnswerRemove ==
  ASSUME TypeOK, AnswerRemove
  PROVE  /\ UNCHANGED <<site, run>> /\ page.requests # <<>>
         /\ Head(page.requests).op = "remove"
         /\ page'.shown = page'.cart
         /\ page'.total \in {page.total, NoTotal}
         /\ page'.open = page.open \/ site.collapses
         /\ page'.error = page.error
         /\ \E c \in Head(page.requests).codes :
              /\ page'.cart = page.cart \ {c}
              /\ Head(page.requests).codes = {c} => page'.requests = Tail(page.requests)
<1> DEFINE left(c) == IF Head(page.requests).codes \ {c} = {} THEN Tail(page.requests)
                      ELSE [page.requests EXCEPT ![1].codes = Head(page.requests).codes \ {c}]
<1>1. PICK c \in Head(page.requests).codes, total \in TotalsNow, open \in OpenNow :
        page' = [page EXCEPT !.cart = page.cart \ {c}, !.shown = page.cart \ {c},
                             !.total = total, !.open = open, !.requests = left(c)]
  BY DEF AnswerRemove
<1>2. page \in Page
  BY DEF TypeOK
<1>3. Head(page.requests).codes = {c} => left(c) = Tail(page.requests)
  OBVIOUS
<1> HIDE DEF left
<1>4. /\ page'.cart = page.cart \ {c} /\ page'.shown = page'.cart
      /\ page'.total = total /\ page'.error = page.error
      /\ page'.open = open /\ page'.requests = left(c)
  BY <1>1, <1>2 DEF Page
<1>5. total \in {page.total, NoTotal} /\ (open = page.open \/ site.collapses)
  BY DEF TotalsNow, OpenNow
<1> QED BY <1>3, <1>4, <1>5 DEF AnswerRemove

LEMMA OnRepaint ==
  ASSUME TypeOK, Repaint
  PROVE  /\ UNCHANGED <<site, run>>
         /\ page'.cart = page.cart /\ page'.shown = page.shown
         /\ page'.error = page.error /\ page'.open = page.open
         /\ page'.requests = page.requests /\ page'.input = page.input
         /\ page'.total = Price(page.cart)
BY DEF TypeOK, Repaint, Page

\* So the cart, the requests and the total move together, on a page whose cart
\* holds one discount at most.
LEMMA StillBare ==
  ASSUME TypeOK, PageStep, NEW T, Bare(<<>>, T)
  PROVE  Bare(<<>>, {Price({})})'
<1>1. CASE Repaint
  BY <1>1, OnRepaint DEF Bare, Price
<1>2. ~AnswerApply /\ ~AnswerRemove
  BY DEF Bare, AnswerApply, AnswerRemove
<1> QED BY <1>1, <1>2 DEF PageStep

LEMMA StillWearing ==
  ASSUME TypeOK, PageStep, NEW x, NEW T, Wearing(x, <<>>, T)
  PROVE  Wearing(x, <<>>, {Price({x})})'
<1>1. CASE Repaint
  BY <1>1, OnRepaint DEF Wearing, Price
<1>2. ~AnswerApply /\ ~AnswerRemove
  BY DEF Wearing, AnswerApply, AnswerRemove
<1> QED BY <1>1, <1>2 DEF PageStep

LEMMA StillRedeemed ==
  ASSUME TypeOK, PageStep, NEW c, NEW T, Redeemed(c, T)
  PROVE  Redeemed(c, {Price(site.redeem[{}][c])})'
<1>1. CASE Repaint
  BY <1>1, OnRepaint DEF Redeemed, Price
<1>2. ~AnswerApply /\ ~AnswerRemove
  BY DEF Redeemed, AnswerApply, AnswerRemove
<1> QED BY <1>1, <1>2 DEF PageStep

\* Requests of one or two entries.
LEMMA Pairs ==
  ASSUME NEW S, NEW a \in S, NEW b \in S
  PROVE  /\ Head(<<a>>) = a /\ Tail(<<a>>) = <<>> /\ <<a>> # <<>>
         /\ Head(<<a, b>>) = a /\ Tail(<<a, b>>) = <<b>> /\ <<a, b>> # <<>>
         /\ Append(<<a>>, b) = <<a, b>> /\ Append(<<>>, a) = <<a>>
<1>1. <<>> \in Seq(S) /\ <<a>> \in Seq(S) /\ <<a, b>> \in Seq(S) /\ <<b>> \in Seq(S)
  OBVIOUS
<1>2. Head(<<a>>) = a /\ Head(<<a, b>>) = a /\ <<a>> # <<>> /\ <<a, b>> # <<>>
  OBVIOUS
<1>3. Tail(<<a>>) = <<>> /\ Append(<<>>, a) = <<a>>
  BY <1>1
<1>4. Tail(<<a, b>>) = <<b>>
  BY <1>1
<1>5. Append(<<a>>, b) = <<a, b>>
  <2> DEFINE s == Append(<<a>>, b)
             t == <<a, b>>
  <2>1. s \in Seq(S) /\ Len(s) = 2 /\ s[1] = a /\ s[2] = b
    BY <1>1
  <2>2. t \in Seq(S) /\ Len(t) = 2 /\ t[1] = a /\ t[2] = b
    BY <1>1
  <2> HIDE DEF s, t
  <2>3. \A i \in 1 .. Len(s) : s[i] = t[i]
    BY <2>1, <2>2
  <2>4. s = t
    BY <2>1, <2>2, <2>3, SeqEqual
  <2> QED BY <2>4 DEF s, t
<1> QED BY <1>2, <1>3, <1>4, <1>5

LEMMA OneRequest ==
  ASSUME NEW x
  PROVE  /\ Head(<<Rem(x)>>).op = "remove" /\ Head(<<Rem(x)>>).codes = {x}
         /\ Head(<<App(x)>>).op = "apply" /\ Head(<<App(x)>>).codes = {x}
         /\ Tail(<<Rem(x)>>) = <<>> /\ Tail(<<App(x)>>) = <<>>
         /\ Append(<<>>, App(x)) = <<App(x)>> /\ Append(<<>>, Rem(x)) = <<Rem(x)>>
         /\ <<Rem(x)>> # <<>> /\ <<App(x)>> # <<>>
<1>1. /\ Rem(x).op = "remove" /\ Rem(x).codes = {x}
      /\ App(x).op = "apply" /\ App(x).codes = {x}
  BY DEF Rem, App
<1>2. Rem(x) \in {Rem(x), App(x)} /\ App(x) \in {Rem(x), App(x)}
  OBVIOUS
<1> QED BY <1>1, <1>2, Pairs

LEMMA TwoRequests ==
  ASSUME NEW x, NEW c
  PROVE  /\ Head(<<Rem(x), App(c)>>).op = "remove"
         /\ Head(<<Rem(x), App(c)>>).codes = {x}
         /\ Tail(<<Rem(x), App(c)>>) = <<App(c)>>
         /\ Append(<<Rem(x)>>, App(c)) = <<Rem(x), App(c)>>
         /\ <<Rem(x), App(c)>> # <<>>
<1>1. Rem(x).op = "remove" /\ Rem(x).codes = {x}
  BY DEF Rem
<1>2. Rem(x) \in {Rem(x), App(c)} /\ App(c) \in {Rem(x), App(c)}
  OBVIOUS
<1> QED BY <1>1, <1>2, Pairs

LEMMA DiscountGoes ==
  ASSUME TypeOK, PageStep, NEW x, NEW T, Wearing(x, <<Rem(x)>>, T)
  PROVE  \/ Wearing(x, <<Rem(x)>>, {Price({x})})'
         \/ Bare(<<>>, T \cup {NoTotal})'
<1>1. CASE Repaint
  BY <1>1, OnRepaint DEF Wearing, Price
<1>2. CASE AnswerRemove
  <2>1. page.cart = {x} /\ page.requests = <<Rem(x)>>
    BY DEF Wearing
  <2>3. Head(page.requests).codes = {x} /\ Tail(page.requests) = <<>>
    BY <2>1, OneRequest
  <2>2. page'.cart = {} /\ page'.requests = <<>>
    BY <1>2, <2>1, <2>3, OnAnswerRemove
  <2> QED BY <1>2, <2>2, OnAnswerRemove DEF Wearing, Bare
<1>3. ~AnswerApply
  BY OneRequest DEF Wearing, AnswerApply
<1> QED BY <1>1, <1>2, <1>3 DEF PageStep

LEMMA DiscountGoesFirst ==
  ASSUME TypeOK, PageStep, NEW x, NEW c, NEW T, Wearing(x, <<Rem(x), App(c)>>, T)
  PROVE  /\ \/ Wearing(x, <<Rem(x), App(c)>>, {Price({x})})'
            \/ Bare(<<App(c)>>, T \cup {NoTotal})'
         /\ page'.error = page.error
<1>1. CASE Repaint
  BY <1>1, OnRepaint DEF Wearing, Price
<1>2. CASE AnswerRemove
  <2>1. page.cart = {x} /\ page.requests = <<Rem(x), App(c)>>
    BY DEF Wearing
  <2>3. Head(page.requests).codes = {x} /\ Tail(page.requests) = <<App(c)>>
    BY <2>1, TwoRequests
  <2>2. page'.cart = {} /\ page'.requests = <<App(c)>>
    BY <1>2, <2>1, <2>3, OnAnswerRemove
  <2> QED BY <1>2, <2>2, OnAnswerRemove DEF Wearing, Bare
<1>3. ~AnswerApply
  <2>1. Head(page.requests).op = "remove"
    BY TwoRequests DEF Wearing
  <2> QED BY <2>1 DEF AnswerApply
<1> QED BY <1>1, <1>2, <1>3 DEF PageStep

LEMMA CodeComes ==
  ASSUME TypeOK, PageStep, NEW c, NEW T, Bare(<<App(c)>>, T)
  PROVE  \/ Bare(<<App(c)>>, {Price({})})' /\ page'.error = page.error
         \/ Redeemed(c, T \cup {NoTotal})'
<1>1. CASE Repaint
  BY <1>1, OnRepaint DEF Bare, Price
<1>2. CASE AnswerApply
  <2>1. page.cart = {} /\ page.requests = <<App(c)>>
    BY DEF Bare
  <2>3. Head(page.requests).codes = {c} /\ Tail(page.requests) = <<>>
    BY <2>1, OneRequest
  <2>2. page'.cart = site.redeem[{}][c] /\ page'.requests = <<>>
        /\ page'.error = (c \notin page'.cart)
    BY <1>2, <2>1, <2>3, OnAnswerApply
  <2> QED BY <1>2, <2>2, OnAnswerApply DEF Bare, Redeemed
<1>3. ~AnswerRemove
  BY OneRequest DEF Bare, AnswerRemove
<1> QED BY <1>1, <1>2, <1>3 DEF PageStep

\* Whatever phase a run is in, the page's own steps keep the page in it.
LEMMA PageKeepsPhase ==
  ASSUME TypeOK, PageStep, NEW s \in RunState, s.baseline = Price({}), PageFor(s)
  PROVE  PageFor(s)'
<1> DEFINE b == s.baseline
           c == s.list[s.i]
           w == s.lowest.code
<1>1. /\ site' = site /\ site \in Site /\ page \in Page /\ page' \in Page
      /\ \A S : Price(S)' = Price(S)
  BY PageKeepsType, RunAssumption DEF TypeOK, Price
<1>2. b \in Nat /\ b \in Total
  BY <1>1 DEF Price, Site, Total, Cart
<1>3. ASSUME Between(b) PROVE Between(b)'
  <2>1. CASE Bare(<<>>, {NoTotal, b})
    BY <1>1, <2>1, StillBare DEF Between, Bare
  <2>2. ASSUME NEW x \in Codes, Wearing(x, <<>>, {Price({x})}),
               Price({x}) = b \/ site.redeem[{}][x] = {x}
        PROVE  Between(b)'
    <3>1. Wearing(x, <<>>, {Price({x})})'
      BY <2>2, StillWearing
    <3> QED BY <1>1, <2>2, <3>1 DEF Between
  <2> QED BY <1>3, <2>1, <2>2 DEF Between
<1>4. ASSUME Removing(b) PROVE Removing(b)'
  <2>1. CASE Bare(<<>>, {NoTotal, b})
    BY <1>1, <2>1, StillBare DEF Removing, Bare
  <2>2. ASSUME NEW x \in Codes, Wearing(x, <<Rem(x)>>, {Price({x})})
        PROVE  Removing(b)'
    <3> DEFINE p == Price({x})
    <3>1. p' = p
      BY <1>1
    <3> HIDE DEF p
    <3>2. \/ Wearing(x, <<Rem(x)>>, {p})'
          \/ Bare(<<>>, {p} \cup {NoTotal})'
      BY <1>1, <2>2, <3>1, DiscountGoes DEF p, Wearing, Bare
    <3>3. \/ Wearing(x, <<Rem(x)>>, {p})' \/ Bare(<<>>, {p})' \/ Bare(<<>>, {NoTotal, b})'
      BY <3>1, <3>2 DEF Bare
    <3> QED BY <3>3 DEF p, Removing
  <2>3. ASSUME NEW x \in Codes, Bare(<<>>, {Price({x})})
        PROVE  Removing(b)'
    BY <1>1, <2>3, StillBare DEF Removing, Bare
  <2> QED BY <1>4, <2>1, <2>2, <2>3 DEF Removing
<1>5. ASSUME NEW m, Restoring(b, m) PROVE Restoring(b, m)'
  <2>1. CASE Bare(<<>>, {NoTotal, b, m})
    BY <1>1, <1>5, <2>1, StillBare DEF Restoring, Bare
  <2>2. ASSUME NEW x \in Codes, Wearing(x, <<Rem(x)>>, {m}), m = Price({x})
        PROVE  Restoring(b, m)'
    <3>1. \/ Wearing(x, <<Rem(x)>>, {Price({x})})'
          \/ Bare(<<>>, {m} \cup {NoTotal})'
      BY <2>2, DiscountGoes
    <3>2. Bare(<<>>, {m} \cup {NoTotal})' => Bare(<<>>, {NoTotal, b, m})'
      BY DEF Bare
    <3> QED BY <1>1, <1>5, <2>2, <3>1, <3>2 DEF Restoring, Wearing
  <2> QED BY <1>5, <2>1, <2>2 DEF Restoring
<1>6. ASSUME Cleared(b) PROVE Cleared(b)'
  <2>1. CASE Bare(<<>>, {NoTotal, b})
    BY <1>1, <2>1, StillBare DEF Cleared, Bare
  <2>2. ASSUME NEW x \in Codes, Wearing(x, <<Rem(x)>>, {b}), b = Price({x})
        PROVE  Cleared(b)'
    <3>1. \/ Wearing(x, <<Rem(x)>>, {Price({x})})'
          \/ Bare(<<>>, {b} \cup {NoTotal})'
      BY <2>2, DiscountGoes
    <3>2. Bare(<<>>, {b} \cup {NoTotal})' => Bare(<<>>, {NoTotal, b})'
      BY DEF Bare
    <3> QED BY <1>1, <2>2, <3>1, <3>2 DEF Cleared, Wearing
  <2> QED BY <1>6, <2>1, <2>2 DEF Cleared
<1>7. ASSUME Submitted(b, c) PROVE Submitted(b, c)'
  <2>1. ASSUME NEW x \in Codes, Wearing(x, <<Rem(x), App(c)>>, {b}),
               b = Price({x}), page.error = FALSE
        PROVE  Submitted(b, c)'
    <3>1. /\ \/ Wearing(x, <<Rem(x), App(c)>>, {Price({x})})'
             \/ Bare(<<App(c)>>, {b} \cup {NoTotal})'
          /\ page'.error = FALSE
      BY <2>1, DiscountGoesFirst
    <3>2. Bare(<<App(c)>>, {b} \cup {NoTotal})' => Bare(<<App(c)>>, {NoTotal, b})'
      BY DEF Bare
    <3> QED BY <1>1, <2>1, <3>1, <3>2 DEF Submitted, Wearing
  <2>2. ASSUME Bare(<<App(c)>>, {NoTotal, b}), page.error = FALSE
        PROVE  Submitted(b, c)'
    <3>1. \/ Bare(<<App(c)>>, {Price({})})' /\ page'.error = FALSE
          \/ Redeemed(c, {NoTotal, b} \cup {NoTotal})'
      BY <2>2, CodeComes
    <3>2. Bare(<<App(c)>>, {Price({})})' => Bare(<<App(c)>>, {NoTotal, b})'
      BY <1>1 DEF Bare
    <3>3. Redeemed(c, {NoTotal, b} \cup {NoTotal})' =>
            Redeemed(c, {NoTotal, b, Price(site.redeem[{}][c])})'
      BY DEF Redeemed
    <3> QED BY <3>1, <3>2, <3>3 DEF Submitted
  <2>3. ASSUME Redeemed(c, {NoTotal, b, Price(site.redeem[{}][c])})
        PROVE  Submitted(b, c)'
    <3>1. Redeemed(c, {Price(site.redeem[{}][c])})'
      BY <2>3, StillRedeemed
    <3> QED BY <3>1 DEF Submitted, Redeemed
  <2> QED BY <1>7, <2>1, <2>2, <2>3 DEF Submitted
<1>8. ASSUME Judged(b, c, s.verdict) PROVE Judged(b, c, s.verdict)'
  <2>1. Redeemed(c, {Price(site.redeem[{}][c])})'
    BY <1>8, StillRedeemed DEF Judged
  <2>2. page.error = (c \notin site.redeem[{}][c])
    BY <1>8 DEF Judged, Redeemed
  <2>3. page'.error = page.error
    BY <1>1, <2>1, <2>2 DEF Redeemed
  <2>4. Redeemed(c, {NoTotal, b, Price(site.redeem[{}][c])})'
    BY <2>1 DEF Redeemed
  <2> QED BY <1>8, <2>1, <2>3, <2>4 DEF Judged
<1>9. \A S : Bare(<<>>, S)' => Bare(<<>>, Total)'
  BY <1>1 DEF Bare, Page
<1>10. ASSUME Ending PROVE Ending'
  <2>1. CASE Bare(<<>>, Total)
    BY <1>9, <2>1, StillBare DEF Ending
  <2>2. ASSUME NEW x \in Codes, Wearing(x, <<Rem(x)>>, Total)
        PROVE  Ending'
    <3>1. Wearing(x, <<Rem(x)>>, {Price({x})})' => Wearing(x, <<Rem(x)>>, Total)'
      BY <1>1 DEF Wearing, Page
    <3> QED BY <1>9, <2>2, <3>1, DiscountGoes DEF Ending
  <2> QED BY <1>10, <2>1, <2>2 DEF Ending
<1>11. ASSUME Reapplied(w) PROVE Reapplied(w)'
  <2>1. ASSUME NEW x \in Codes, Wearing(x, <<Rem(x), App(w)>>, Total)
        PROVE  Reapplied(w)'
    <3>1. \/ Wearing(x, <<Rem(x), App(w)>>, {Price({x})})'
          \/ Bare(<<App(w)>>, Total \cup {NoTotal})'
      BY <2>1, DiscountGoesFirst
    <3>2. \/ Wearing(x, <<Rem(x), App(w)>>, Total)'
          \/ Bare(<<App(w)>>, Total)'
      BY <1>1, <3>1 DEF Wearing, Bare, Page
    <3> QED BY <3>2 DEF Reapplied
  <2>2. ASSUME Bare(<<App(w)>>, Total)
        PROVE  Reapplied(w)'
    <3>1. \/ Bare(<<App(w)>>, {Price({})})'
          \/ Redeemed(w, Total \cup {NoTotal})'
      BY <2>2, CodeComes
    <3>2. Bare(<<App(w)>>, Total)' \/ Redeemed(w, Total)'
      BY <1>1, <3>1 DEF Bare, Redeemed, Page
    <3> QED BY <3>2 DEF Reapplied
  <2>3. ASSUME Redeemed(w, Total)
        PROVE  Reapplied(w)'
    <3>1. Redeemed(w, {Price(site.redeem[{}][w])})'
      BY <2>3, StillRedeemed
    <3>2. Redeemed(w, Total)'
      BY <1>1, <3>1 DEF Redeemed, Page
    <3> QED BY <3>2 DEF Reapplied
  <2> QED BY <1>11, <2>1, <2>2, <2>3 DEF Reapplied
<1> QED BY <1>3, <1>4, <1>5, <1>6, <1>7, <1>8, <1>10, <1>11 DEF PageFor

-----------------------------------------------------------------------------
\* What a step of run r's script must leave behind.
Lands(r) ==
  /\ UNCHANGED site
  /\ page'.shown = page'.cart
  /\ ~site.collapses => page'.open
  /\ \E t \in RunState :
       /\ run' = [run EXCEPT ![r] = t] /\ t.pc # "start" /\ Ordered(t)
       /\ Readable /\ Alone(r) /\ t.baseline = Price({}) => Truthful(t)'

\* What is known of a run when it takes a step.
LEMMA Known ==
  ASSUME TInv, NEW r \in Runs
  PROVE  /\ run[r] \in RunState /\ ControlInv(run[r]) /\ WinnerInv(run[r])
         /\ Ordered(run[r]) /\ page \in Page /\ site \in Site /\ run \in [Runs -> RunState]
         /\ page.shown = page.cart /\ (~site.collapses => page.open)
         /\ Readable /\ Alone(r) /\ run[r].baseline = Price({}) => Truthful(run[r])
         /\ run[r].pc # "waitIdle" => Loc(run[r]) = run[r].pc
         /\ run[r].pc = "waitIdle" => Loc(run[r]) = run[r].next
         /\ TypeOK
BY AtLoc, RunAssumption DEF TInv, Steady, InStep, IInv, TypeOK, Loc

\* A run under way moves on: what it has tested and found stays as it was, and the
\* page must be where the run's new state needs it.
LEMMA Land ==
  ASSUME TInv, NEW r \in Runs, NEW t \in RunState, run' = [run EXCEPT ![r] = t],
         UNCHANGED site, SameData(t, run[r]), run[r].pc \notin {"start", "done"},
         Loc(t) \notin {"start", "done"}, t.pc # "start",
         Loc(t) \in {"reopen", "reapply", "collect"} => t.i = Len(t.list) + 1,
         page'.shown = page'.cart, ~site.collapses => page'.open,
         Readable /\ Alone(r) /\ t.baseline = Price({}) /\ PageFor(run[r])
           => PageFor(t)'
  PROVE  Lands(r)
<1>1. /\ Ordered(run[r]) /\ ControlInv(run[r])
      /\ Readable /\ Alone(r) /\ run[r].baseline = Price({}) => Truthful(run[r])
      /\ run[r].pc # "waitIdle" => Loc(run[r]) = run[r].pc
  BY Known
<1>2. Loc(run[r]) \notin {"start", "done"}
  BY <1>1 DEF ControlInv, Ordered
<1>3. run[r].reply = "pending" /\ t.reply = "pending"
  BY <1>1, <1>2 DEF Ordered, SameData
<1>4. Ordered(t)
  BY <1>1, <1>2, <1>3 DEF Ordered, SameData
<1>5. ASSUME Readable, Alone(r), t.baseline = Price({})
      PROVE  Truthful(t)'
  <2>1. Truthful(run[r]) /\ PageFor(t)'
    BY <1>1, <1>5 DEF Truthful, SameData
  <2>2. ASSUME NEW k \in DOMAIN t.reports
        PROVE  Honest(t.reports[k], t.baseline)'
    <3>1. Honest(t.reports[k], t.baseline)
      BY <2>1 DEF Truthful, SameData
    <3> QED BY <3>1 DEF Honest, TrueTotal, Price
  <2> QED BY <2>1, <2>2 DEF Truthful
<1> QED BY <1>4, <1>5 DEF Lands

\* The new state of a run that moves to a label, at once or when the page is idle.
LEMMA NewState ==
  ASSUME TInv, NEW r \in Runs, NEW l \in PC \ {"waitIdle", "start"},
         Become(r, At(run[r], l)) \/ Become(r, IdleAt(run[r], l))
  PROVE  \E t \in RunState :
           /\ run' = [run EXCEPT ![r] = t] /\ SameData(t, run[r])
           /\ t.verdict = run[r].verdict /\ t.mark = run[r].mark
           /\ Loc(t) = l /\ t.pc # "start"
<1>1. run[r] \in RunState
  BY Known
<1>2. \A t \in {At(run[r], l), IdleAt(run[r], l)} :
        /\ t \in RunState /\ SameData(t, run[r])
        /\ t.verdict = run[r].verdict /\ t.mark = run[r].mark
        /\ Loc(t) = l /\ t.pc # "start"
  <2>1. /\ At(run[r], l).verdict = run[r].verdict /\ At(run[r], l).mark = run[r].mark
        /\ IdleAt(run[r], l).verdict = run[r].verdict
        /\ IdleAt(run[r], l).mark = run[r].mark
    BY <1>1 DEF At, IdleAt, RunState
  <2> QED BY <1>1, <2>1, MoveKeepsData
<1> QED BY <1>2 DEF Become

LEMMA HeardState ==
  ASSUME NEW s \in RunState, NEW v \in {"applied", "rejected", "timeout"}
  PROVE  /\ Heard(s, v) \in RunState /\ SameData(Heard(s, v), s)
         /\ Heard(s, v).pc = "waitIdle" /\ Heard(s, v).verdict = v
         /\ Loc(Heard(s, v)) = IF v = "applied" THEN "total" ELSE "judge"
<1> DEFINE l == IF v = "applied" THEN "total" ELSE "judge"
           t == [IdleAt(s, l) EXCEPT !.verdict = v]
<1>1. /\ IdleAt(s, l) \in RunState /\ SameData(IdleAt(s, l), s)
      /\ IdleAt(s, l).pc = "waitIdle" /\ Loc(IdleAt(s, l)) = l
  BY MoveKeepsData DEF PC
<1>2. /\ t \in RunState /\ SameData(t, s) /\ t.pc = "waitIdle" /\ t.verdict = v
      /\ t.next = IdleAt(s, l).next
  BY <1>1 DEF RunState, SameData
<1>3. Loc(t) = l
  BY <1>1, <1>2 DEF Loc
<1> QED BY <1>2, <1>3 DEF Heard

\* The page whose input at most the script changes is where it was; once a code
\* was submitted, the input counts too.
LEMMA SamePage ==
  ASSUME UNCHANGED site, page'.requests = page.requests, page'.cart = page.cart,
         page'.total = page.total, page'.error = page.error
  PROVE  /\ \A b : /\ Between(b) => Between(b)'
                   /\ Removing(b) => Removing(b)'
                   /\ Cleared(b) => Cleared(b)'
                   /\ \A m : Restoring(b, m) => Restoring(b, m)'
         /\ Ending => Ending'
         /\ page'.input = page.input =>
              /\ \A b, c : Submitted(b, c) => Submitted(b, c)'
              /\ \A b, c, v : Judged(b, c, v) => Judged(b, c, v)'
              /\ \A w : Reapplied(w) => Reapplied(w)'
<1>1. \A q, T, x, c : /\ Bare(q, T) => Bare(q, T)'
                      /\ Wearing(x, q, T) => Wearing(x, q, T)'
                      /\ page'.input = page.input =>
                           (Redeemed(c, T) => Redeemed(c, T)')
  BY DEF Bare, Wearing, Redeemed
<1>2. \A S : Price(S)' = Price(S)
  BY DEF Price
<1>3. \A b : Between(b) => Between(b)'
  BY <1>1, <1>2 DEF Between, Bare, Wearing
<1>4. \A b : Removing(b) => Removing(b)'
  BY <1>1, <1>2 DEF Removing, Bare, Wearing
<1>5. \A b : Cleared(b) => Cleared(b)'
  BY <1>1, <1>2 DEF Cleared, Bare, Wearing
<1>6. \A b, m : Restoring(b, m) => Restoring(b, m)'
  BY <1>1, <1>2 DEF Restoring, Bare, Wearing
<1>7. page'.input = page.input => \A b, c : Submitted(b, c) => Submitted(b, c)'
  BY <1>1, <1>2 DEF Submitted, Bare, Wearing, Redeemed
<1>8. page'.input = page.input => \A b, c, v : Judged(b, c, v) => Judged(b, c, v)'
  BY <1>1, <1>2 DEF Judged, Redeemed
<1>9. Ending => Ending'
  BY <1>1 DEF Ending, Bare, Wearing
<1>10. page'.input = page.input => \A w : Reapplied(w) => Reapplied(w)'
  BY <1>1 DEF Reapplied, Bare, Wearing, Redeemed
<1> QED BY <1>3, <1>4, <1>5, <1>6, <1>7, <1>8, <1>9, <1>10

\* Unfolding the form and emptying its input changes nothing else.
LEMMA OpenedPage ==
  ASSUME TypeOK,
         page' \in {page, Expanded(page), Emptied(page), Emptied(Expanded(page))}
  PROVE  /\ page'.requests = page.requests /\ page'.cart = page.cart
         /\ page'.total = page.total /\ page'.error = page.error
         /\ page'.shown = page.shown /\ (page.open => page'.open)
BY DEF TypeOK, Expanded, Emptied, Page

LEMMA WaitIdleLands ==
  ASSUME TInv, NEW r \in Runs, WaitIdle(r)
  PROVE  Lands(r)
<1>1. /\ run[r] \in RunState /\ run[r].pc = "waitIdle" /\ Loc(run[r]) = run[r].next
      /\ UNCHANGED <<site, page>> /\ Become(r, At(run[r], run[r].next))
      /\ ControlInv(run[r]) /\ Ordered(run[r])
      /\ page.shown = page.cart /\ (~site.collapses => page.open)
  BY Known DEF WaitIdle
<1>2. run[r].next \in PC \ {"waitIdle", "start", "done"}
  BY <1>1 DEF RunState, ControlInv, Ordered
<1>3. PICK t \in RunState :
        /\ run' = [run EXCEPT ![r] = t] /\ SameData(t, run[r])
        /\ t.verdict = run[r].verdict /\ t.mark = run[r].mark
        /\ Loc(t) = run[r].next /\ t.pc # "start"
  BY <1>1, <1>2, NewState
<1>4. PageFor(run[r]) => PageFor(t)
  BY <1>1, <1>3 DEF PageFor, SameData
<1>5. PageFor(t) => PageFor(t)'
  BY <1>1, SamePage DEF PageFor
<1>6. Loc(t) \in {"reopen", "reapply", "collect"} => t.i = Len(t.list) + 1
  BY <1>1, <1>3 DEF Ordered, SameData
<1> QED BY <1>1, <1>2, <1>3, <1>4, <1>5, <1>6, Land

LEMMA NextCodeLands ==
  ASSUME TInv, NEW r \in Runs, NextCode(r)
  PROVE  Lands(r)
<1>1. /\ run[r].pc = "code" /\ Loc(run[r]) = "code" /\ UNCHANGED site
      /\ page' \in {page, Expanded(page)}
      /\ Become(r, At(run[r], "remove")) \/ Become(r, IdleAt(run[r], "remove"))
      /\ page.shown = page.cart /\ (~site.collapses => page.open) /\ TypeOK
      /\ Ordered(run[r])
  BY Known DEF NextCode, ExpandThen
<1>2. PICK t \in RunState :
        /\ run' = [run EXCEPT ![r] = t] /\ SameData(t, run[r])
        /\ Loc(t) = "remove" /\ t.pc # "start"
  BY <1>1, NewState DEF PC
<1>3. PageFor(run[r]) => PageFor(t)'
  <2>1. PageFor(run[r]) => Between(t.baseline)
    BY <1>1, <1>2 DEF PageFor, SameData
  <2>2. Between(t.baseline) => Between(t.baseline)'
    BY <1>1, OpenedPage, SamePage
  <2>3. t.reply = "pending"
    BY <1>1, <1>2 DEF Ordered, SameData
  <2> QED BY <1>2, <2>1, <2>2, <2>3 DEF PageFor
<1> QED BY <1>1, <1>2, <1>3, OpenedPage, Land

LEMMA EndLoopLands ==
  ASSUME TInv, NEW r \in Runs, EndLoop(r)
  PROVE  Lands(r)
<1>1. /\ run[r] \in RunState /\ run \in [Runs -> RunState]
      /\ run[r].pc = "code" /\ Loc(run[r]) = "code" /\ UNCHANGED <<site, page>>
      /\ page.shown = page.cart /\ (~site.collapses => page.open)
      /\ Ordered(run[r]) /\ ControlInv(run[r])
      /\ Readable /\ Alone(r) /\ run[r].baseline = Price({}) => Truthful(run[r])
  BY Known DEF EndLoop
<1>4. run[r].i > Len(run[r].list)
  BY <1>1 DEF EndLoop, Testing, RunState
<1>2. CASE run[r].lowest # NoWinner
  <2>1. PICK t \in RunState :
          /\ run' = [run EXCEPT ![r] = t] /\ SameData(t, run[r])
          /\ Loc(t) = "remove" /\ t.pc # "start"
    BY <1>2, NewState DEF EndLoop, PC
  <2>2. PageFor(run[r]) => PageFor(t)'
    <3>1. PageFor(run[r]) => Between(t.baseline)
      BY <1>1, <2>1 DEF PageFor, SameData
    <3>2. Between(t.baseline) => Between(t.baseline)'
      BY <1>1, SamePage
    <3>3. t.reply = "pending"
      BY <1>1, <2>1 DEF Ordered, SameData
    <3> QED BY <2>1, <3>1, <3>2, <3>3 DEF PageFor
  <2> QED BY <1>1, <2>1, <2>2, Land
<1>3. CASE run[r].lowest = NoWinner
  <2>1. \E t \in RunState :
          /\ run' = [run EXCEPT ![r] = t] /\ t.pc = "done" /\ t.reply = "none"
          /\ t.list = run[r].list /\ t.i = run[r].i
          /\ t.baseline = run[r].baseline /\ t.lowest = run[r].lowest
          /\ t.reports = run[r].reports
    <3> DEFINE u == [At(run[r], "done") EXCEPT !.reply = "none"]
    <3>1. run' = [run EXCEPT ![r] = u]
      BY <1>3 DEF EndLoop, Become
    <3>2. /\ At(run[r], "done") \in RunState /\ SameData(At(run[r], "done"), run[r])
          /\ At(run[r], "done").pc = "done"
      BY <1>1, MoveKeepsData DEF PC
    <3>3. /\ u \in RunState /\ u.pc = "done" /\ u.list = run[r].list /\ u.i = run[r].i
          /\ u.baseline = run[r].baseline /\ u.lowest = run[r].lowest
          /\ u.reports = run[r].reports /\ u.reply = "none"
      BY <3>2 DEF SameData, RunState
    <3> HIDE DEF u
    <3> QED BY <3>1, <3>3
  <2>3. PICK t \in RunState :
          /\ run' = [run EXCEPT ![r] = t] /\ t.pc = "done" /\ t.reply = "none"
          /\ t.list = run[r].list /\ t.i = run[r].i
          /\ t.baseline = run[r].baseline /\ t.lowest = run[r].lowest
          /\ t.reports = run[r].reports
    BY <2>1
  <2>4. Loc(t) = "done"
    BY <2>3 DEF Loc
  <2>5. Ordered(t)
    <3>1. run[r].baseline \in Nat /\ run[r].i \in Nat /\ Len(run[r].list) \in Nat
      BY <1>1 DEF ControlInv, RunState
    <3>2. run[r].i = Len(run[r].list) + 1
      BY <1>1, <1>4, <3>1 DEF Ordered
    <3> QED BY <1>1, <1>3, <2>3, <2>4, <3>1, <3>2 DEF Ordered
  <2>6. ASSUME Readable, Alone(r), t.baseline = Price({})
        PROVE  Truthful(t)'
    <3>1. Truthful(run[r])
      BY <1>1, <2>3, <2>6
    <3>2. Between(t.baseline)
      BY <1>1, <2>3, <3>1 DEF Truthful, PageFor
    <3>3. Between(t.baseline)'
      BY <1>1, <3>2, SamePage
    <3>4. PageFor(t)'
      BY <2>3, <2>4, <3>3 DEF PageFor
    <3>5. ASSUME NEW k \in DOMAIN t.reports
          PROVE  Honest(t.reports[k], t.baseline)'
      <4>1. Honest(t.reports[k], t.baseline)
        BY <2>3, <3>1 DEF Truthful
      <4> QED BY <1>1, <4>1 DEF Honest, TrueTotal, Price
    <3> QED BY <3>4, <3>5 DEF Truthful
  <2> QED BY <1>1, <2>3, <2>5, <2>6 DEF Lands
<1> QED BY <1>2, <1>3

LEMMA RemoveLands ==
  ASSUME TInv, NEW r \in Runs, Remove(r)
  PROVE  Lands(r)
<1> DEFINE l == IF Testing(r) THEN "compare" ELSE "reopen"
<1>1. /\ run[r] \in RunState /\ run[r].pc = "remove" /\ Loc(run[r]) = "remove"
      /\ UNCHANGED site /\ page.shown = page.cart /\ (~site.collapses => page.open)
      /\ Ordered(run[r]) /\ ControlInv(run[r]) /\ page \in Page /\ site \in Site
      /\ Become(r, At(run[r], l)) \/ Become(r, IdleAt(run[r], l))
      /\ IF HasRemoveButtons(page) THEN page' = RemoveClicked(page) ELSE page' = page
  BY Known DEF Remove
<1>2. PICK t \in RunState :
        /\ run' = [run EXCEPT ![r] = t] /\ SameData(t, run[r])
        /\ Loc(t) = l /\ t.pc # "start"
  BY <1>1, NewState DEF PC
<1>3. /\ page'.cart = page.cart /\ page'.shown = page.shown /\ page'.open = page.open
      /\ page'.total = page.total
      /\ page'.requests =
           IF HasRemoveButtons(page)
           THEN Append(page.requests, [op |-> "remove", codes |-> page.shown])
           ELSE page.requests
  BY <1>1 DEF RemoveClicked, Page
<1>4. ASSUME Readable, t.baseline = Price({}), PageFor(run[r])
      PROVE  PageFor(t)'
  <2> DEFINE b == t.baseline
  <2>1. Between(b)
    BY <1>1, <1>2, <1>4 DEF PageFor, SameData
  <2>2. \A S : Price(S)' = Price(S)
    BY <1>1 DEF Price
  <2>3. Removing(b)' /\ Ending'
    <3>1. CASE Bare(<<>>, {NoTotal, b})
      <4>1. Bare(<<>>, {NoTotal, b})' /\ page'.total \in Total
        BY <1>1, <1>3, <3>1 DEF Bare, HasRemoveButtons, Page
      <4> QED BY <4>1 DEF Removing, Ending, Bare
    <3>2. ASSUME NEW x \in Codes, Wearing(x, <<>>, {Price({x})})
          PROVE  Removing(b)' /\ Ending'
      <4>1. page'.requests = <<Rem(x)>>
        <5>1. page.shown = {x} /\ page.requests = <<>>
          BY <1>1, <3>2 DEF Wearing
        <5>2. page'.requests = Append(<<>>, Rem(x))
          BY <1>3, <1>4, <5>1 DEF HasRemoveButtons, Readable, Rem
        <5> QED BY <5>2, OneRequest
      <4>2. Wearing(x, <<Rem(x)>>, {Price({x})})' /\ page'.total \in Total
        BY <1>1, <1>3, <2>2, <3>2, <4>1 DEF Wearing, Page
      <4> QED BY <4>2 DEF Removing, Ending, Wearing
    <3> QED BY <2>1, <3>1, <3>2 DEF Between
  <2>4. t.reply = "pending"
    BY <1>1, <1>2 DEF Ordered, SameData
  <2> QED BY <1>2, <2>3, <2>4 DEF PageFor
<1>5. Loc(t) \in {"reopen", "reapply", "collect"} => t.i = Len(t.list) + 1
  <2>1. run[r].baseline \in Nat /\ run[r].i \in Nat /\ Len(run[r].list) \in Nat
    BY <1>1 DEF ControlInv, RunState
  <2>2. run[r].i <= Len(run[r].list) + 1
    BY <1>1, <2>1 DEF Ordered
  <2> QED BY <1>2, <2>1, <2>2 DEF Testing, SameData
<1> QED BY <1>1, <1>2, <1>3, <1>4, <1>5, Land

LEMMA CompareLands ==
  ASSUME TInv, NEW r \in Runs, Compare(r)
  PROVE  Lands(r)
<1>1. /\ run[r] \in RunState /\ run[r].pc = "compare" /\ Loc(run[r]) = "compare"
      /\ UNCHANGED site /\ page' \in {page, Emptied(page)} /\ TypeOK
      /\ page.shown = page.cart /\ (~site.collapses => page.open)
      /\ Ordered(run[r]) /\ page \in Page /\ site \in Site
  BY Known DEF Compare
<1>6. /\ page'.requests = page.requests /\ page'.cart = page.cart
      /\ page'.total = page.total /\ page'.error = page.error
      /\ page'.shown = page.shown /\ (page.open => page'.open)
  BY <1>1, OpenedPage
<1>2. ASSUME Readable, run[r].baseline = Price({}), PageFor(run[r])
      PROVE  Removing(run[r].baseline)
  BY <1>1, <1>2 DEF PageFor
<1>3. \A x \in Codes : Price({x}) \in Nat /\ NoTotal # Price({x})
  BY <1>1, RunAssumption DEF Price, Site, Cart
<1>4. CASE TotalDiffersFrom(run[r].baseline)
  <2>1. \E t \in RunState :
          /\ run' = [run EXCEPT ![r] = t] /\ t.pc = "restore" /\ SameData(t, run[r])
          /\ t.mark = page.total
    <3> DEFINE u == [At(run[r], "restore") EXCEPT !.mark = page.total]
    <3>1. run' = [run EXCEPT ![r] = u]
      BY <1>4 DEF Compare, Become
    <3>2. /\ At(run[r], "restore") \in RunState
          /\ SameData(At(run[r], "restore"), run[r])
          /\ At(run[r], "restore").pc = "restore"
      BY <1>1, MoveKeepsData DEF PC
    <3>3. /\ u \in RunState /\ u.pc = "restore" /\ SameData(u, run[r])
          /\ u.mark = page.total
      BY <1>1, <3>2 DEF SameData, RunState, Page
    <3> HIDE DEF u
    <3> QED BY <3>1, <3>3
  <2>3. PICK t \in RunState :
          /\ run' = [run EXCEPT ![r] = t] /\ t.pc = "restore" /\ SameData(t, run[r])
          /\ t.mark = page.total
    BY <2>1
  <2>4. Loc(t) = "restore"
    BY <2>3 DEF Loc
  <2>5. ASSUME Readable, t.baseline = Price({}), PageFor(run[r])
        PROVE  PageFor(t)'
    <3>1. Removing(t.baseline)
      BY <1>2, <2>3, <2>5 DEF SameData
    <3>2. page.total \notin {NoTotal, t.baseline}
      BY <1>4, <2>3 DEF TotalDiffersFrom, SameData
    <3>3. Restoring(t.baseline, t.mark)
      BY <2>3, <3>1, <3>2 DEF Removing, Restoring, Bare, Wearing
    <3>4. Restoring(t.baseline, t.mark)'
      BY <1>1, <1>6, <3>3, SamePage
    <3>5. t.reply = "pending"
      BY <1>1, <2>3 DEF Ordered, SameData
    <3> QED BY <2>4, <3>4, <3>5 DEF PageFor
  <2> QED BY <1>1, <1>6, <2>3, <2>4, <2>5, Land
<1>5. CASE ~TotalDiffersFrom(run[r].baseline)
  <2>1. PICK t \in RunState :
          /\ run' = [run EXCEPT ![r] = t] /\ SameData(t, run[r])
          /\ Loc(t) = "apply" /\ t.pc # "start"
    BY <1>5, NewState DEF Compare, PC
  <2>2. ASSUME Readable, t.baseline = Price({}), PageFor(run[r])
        PROVE  PageFor(t)'
    <3>1. Removing(t.baseline)
      BY <1>2, <2>1, <2>2 DEF SameData
    <3>2. page.total \in {NoTotal, t.baseline}
      BY <1>5, <2>1 DEF TotalDiffersFrom, SameData
    <3>3. Cleared(t.baseline)
      BY <1>3, <3>1, <3>2 DEF Removing, Cleared, Bare, Wearing
    <3>4. Cleared(t.baseline)'
      BY <1>1, <1>6, <3>3, SamePage
    <3>5. t.reply = "pending"
      BY <1>1, <2>1 DEF Ordered, SameData
    <3> QED BY <2>1, <3>4, <3>5 DEF PageFor
  <2> QED BY <1>1, <1>6, <2>1, <2>2, Land
<1> QED BY <1>4, <1>5

LEMMA RestoreLands ==
  ASSUME TInv, NEW r \in Runs, Restore(r)
  PROVE  Lands(r)
<1>1. /\ run[r] \in RunState /\ run[r].pc = "restore" /\ Loc(run[r]) = "restore"
      /\ UNCHANGED site /\ page' = Emptied(page) /\ TypeOK /\ page.shown = page.cart
      /\ (~site.collapses => page.open) /\ WaitEnds(TotalDiffersFrom(run[r].mark))
      /\ Ordered(run[r]) /\ page \in Page /\ site \in Site
  BY Known DEF Restore
<1>4. /\ page'.requests = page.requests /\ page'.cart = page.cart
      /\ page'.total = page.total /\ page'.error = page.error
      /\ page'.shown = page.shown /\ (page.open => page'.open)
  BY <1>1, OpenedPage
<1>2. PICK t \in RunState :
        /\ run' = [run EXCEPT ![r] = t] /\ SameData(t, run[r])
        /\ Loc(t) = "apply" /\ t.pc # "start"
  BY NewState DEF Restore, PC
<1>3. ASSUME Readable, t.baseline = Price({}), PageFor(run[r])
      PROVE  PageFor(t)'
  <2>1. Restoring(t.baseline, run[r].mark)
    BY <1>1, <1>2, <1>3 DEF PageFor, SameData
  <2>2. page.total \notin {NoTotal, run[r].mark} \/ Settled
    BY <1>1, <1>3 DEF WaitEnds, TotalDiffersFrom, Readable
  <2>3. ASSUME Bare(<<>>, {NoTotal, t.baseline, run[r].mark})
        PROVE  Cleared(t.baseline)
    <3>1. page.total = t.baseline
      BY <1>3, <2>2, <2>3 DEF Bare, Settled
    <3> QED BY <2>3, <3>1 DEF Cleared, Bare
  <2>4. ASSUME NEW x \in Codes, Wearing(x, <<Rem(x)>>, {run[r].mark})
        PROVE  FALSE
    BY <2>2, <2>4, OneRequest DEF Wearing, Settled
  <2>5. Cleared(t.baseline)
    BY <1>3, <2>1, <2>2, <2>3, <2>4 DEF Restoring
  <2>6. Cleared(t.baseline)'
    BY <1>1, <1>4, <2>5, SamePage
  <2>7. t.reply = "pending"
    BY <1>1, <1>2 DEF Ordered, SameData
  <2> QED BY <1>2, <2>6, <2>7 DEF PageFor
<1> QED BY <1>1, <1>2, <1>3, <1>4, Land

LEMMA ApplyLands ==
  ASSUME TInv, NEW r \in Runs, Apply(r)
  PROVE  Lands(r)
<1> DEFINE c == Code(r)
           v == Poll(page', c)
<1>1. /\ run[r] \in RunState /\ run[r].pc = "apply" /\ Loc(run[r]) = "apply"
      /\ UNCHANGED site /\ page.shown = page.cart /\ (~site.collapses => page.open)
      /\ Ordered(run[r]) /\ page \in Page /\ site \in Site
      /\ page' = Typed(page, c)
      /\ Become(r, IF v = "none" THEN At(run[r], "result") ELSE Heard(run[r], v))
  BY Known DEF Apply
<1>2. /\ page'.shown = page'.cart /\ page'.open = page.open
      /\ page'.cart = page.cart /\ page'.total = page.total
      /\ page.open => /\ page'.requests = Append(page.requests, App(c))
                      /\ page'.error = (page.error /\ ~site.clearsError)
  <2>1. CASE page.open
    <3> DEFINE q == Append(page.requests, App(c))
               e == page.error /\ ~site.clearsError
    <3>1. page' = [page EXCEPT !.requests = q, !.error = e, !.input = {c}]
      BY <1>1, <2>1 DEF Typed, App
    <3> HIDE DEF q, e, c
    <3> QED BY <1>1, <3>1 DEF Page, q, e
  <2>2. CASE ~page.open
    BY <1>1, <2>2 DEF Typed
  <2> QED BY <2>1, <2>2
<1>3. \E t \in RunState :
        /\ run' = [run EXCEPT ![r] = t] /\ SameData(t, run[r]) /\ t.pc # "start"
        /\ \/ Loc(t) = "result" /\ v = "none"
           \/ Loc(t) = "total" /\ v = "applied" /\ t.verdict = v
           \/ Loc(t) = "judge" /\ v = "rejected"
  <2>1. CASE v = "none"
    BY <1>1, <2>1, NewState DEF PC
  <2>2. CASE v # "none"
    <3>1. v = "applied" \/ v = "rejected"
      BY <2>2 DEF Poll
    <3>2. run' = [run EXCEPT ![r] = Heard(run[r], v)]
      BY <1>1, <2>2 DEF Become
    <3>3. /\ Heard(run[r], v) \in RunState /\ SameData(Heard(run[r], v), run[r])
          /\ Heard(run[r], v).pc = "waitIdle" /\ Heard(run[r], v).verdict = v
          /\ Loc(Heard(run[r], v)) = IF v = "applied" THEN "total" ELSE "judge"
      BY <1>1, <3>1, HeardState
    <3> QED BY <3>1, <3>2, <3>3
  <2> QED BY <2>1, <2>2
<1>4. PICK t \in RunState :
        /\ run' = [run EXCEPT ![r] = t] /\ SameData(t, run[r]) /\ t.pc # "start"
        /\ \/ Loc(t) = "result" /\ v = "none"
           \/ Loc(t) = "total" /\ v = "applied" /\ t.verdict = v
           \/ Loc(t) = "judge" /\ v = "rejected"
  BY <1>3
<1>5. ASSUME Readable, t.baseline = Price({}), PageFor(run[r])
      PROVE  PageFor(t)'
  <2> DEFINE b == t.baseline
             d == t.list[t.i]
  <2>1. Cleared(b) /\ c = d
    BY <1>1, <1>4, <1>5 DEF PageFor, SameData, Code
  <2>2. page'.error = FALSE /\ page'.requests = Append(page.requests, App(d))
    BY <1>1, <1>2, <1>5, <2>1 DEF Readable
  <2>3. Submitted(b, d)'
    <3>1. \A S : Price(S)' = Price(S)
      BY <1>1 DEF Price
    <3>2. CASE Bare(<<>>, {NoTotal, b})
      <4>1. page'.requests = <<App(d)>>
        BY <2>2, <3>2, OneRequest DEF Bare
      <4>2. Bare(<<App(d)>>, {NoTotal, b})'
        BY <1>2, <3>2, <4>1 DEF Bare
      <4> QED BY <2>2, <4>2 DEF Submitted
    <3>3. ASSUME NEW x \in Codes, Wearing(x, <<Rem(x)>>, {b}), b = Price({x})
          PROVE  Submitted(b, d)'
      <4>1. page'.requests = <<Rem(x), App(d)>>
        <5>1. page.requests = <<Rem(x)>>
          BY <3>3 DEF Wearing
        <5>2. Append(<<Rem(x)>>, App(d)) = <<Rem(x), App(d)>>
          BY TwoRequests
        <5> HIDE DEF d
        <5> QED BY <2>2, <5>1, <5>2
      <4>2. Wearing(x, <<Rem(x), App(d)>>, {b})'
        BY <1>2, <3>3, <4>1 DEF Wearing
      <4> QED BY <2>2, <3>1, <3>3, <4>2 DEF Submitted
    <3> QED BY <2>1, <3>2, <3>3 DEF Cleared
  <2>4. v # "rejected"
    BY <2>2 DEF Poll
  <2>5. t.reply = "pending"
    BY <1>1, <1>4 DEF Ordered, SameData
  <2> QED BY <1>4, <2>3, <2>4, <2>5 DEF PageFor
<1> QED BY <1>1, <1>2, <1>4, <1>5, Land

LEMMA ResultLands ==
  ASSUME TInv, NEW r \in Runs, Result(r)
  PROVE  Lands(r)
<1> DEFINE c == Code(r)
           v == Poll(page, c)
<1>1. /\ run[r] \in RunState /\ run[r].pc = "result" /\ Loc(run[r]) = "result"
      /\ UNCHANGED <<site, page>> /\ page.shown = page.cart
      /\ (~site.collapses => page.open)
      /\ Ordered(run[r]) /\ ControlInv(run[r]) /\ page \in Page /\ site \in Site
  BY Known DEF Result
<1>2. PICK u \in {"applied", "rejected", "timeout"} :
        /\ Become(r, Heard(run[r], u))
        /\ \/ u = v
           \/ u = "timeout" /\ WaitEnds(FALSE) /\ (site.prompt => v = "none")
  <2>1. v \in {"none", "applied", "rejected"}
    BY DEF Poll
  <2> QED BY <2>1 DEF Result
<1>3. PICK t \in RunState :
        /\ run' = [run EXCEPT ![r] = t] /\ SameData(t, run[r]) /\ t.pc # "start"
        /\ t.verdict = u /\ Loc(t) = IF u = "applied" THEN "total" ELSE "judge"
  <2>1. /\ Heard(run[r], u) \in RunState /\ SameData(Heard(run[r], u), run[r])
        /\ Heard(run[r], u).pc = "waitIdle" /\ Heard(run[r], u).verdict = u
        /\ Loc(Heard(run[r], u)) = IF u = "applied" THEN "total" ELSE "judge"
    BY <1>1, HeardState
  <2> QED BY <1>2, <2>1 DEF Become
<1>4. ASSUME Readable, t.baseline = Price({}), PageFor(run[r])
      PROVE  PageFor(t)'
  <2> DEFINE b == t.baseline
             d == t.list[t.i]
             p == Price(site.redeem[{}][d])
  <2>1. Submitted(b, d) /\ c = d
    BY <1>1, <1>3, <1>4 DEF PageFor, SameData, Code
  <2>2. d \in Codes
    BY <1>1, <1>3 DEF ControlInv, RunState, SameData
  <2>3. ASSUME u = "timeout" PROVE FALSE
    <3>1. Settled /\ v = "none"
      BY <1>2, <1>4, <2>3 DEF Readable, WaitEnds, Poll
    <3>2. Redeemed(d, {NoTotal, b, p})
      BY <2>1, <3>1, OneRequest, TwoRequests DEF Submitted, Settled, Wearing, Bare
    <3>3. d \in page.shown
      BY <1>1, <2>1, <3>1, <3>2 DEF Redeemed, Poll
    <3>4. ~PassedOver(page, d)
      BY <1>4, <3>2 DEF PassedOver, Readable, Redeemed
    <3>5. Appears(page, d)
      BY <1>4, <2>2, <3>3, <3>4, RunAssumption DEF Appears, Readable
    <3> QED BY <2>1, <3>1, <3>5 DEF Poll
  <2>4. ASSUME u = "rejected" PROVE Judged(b, d, u)
    <3>1. page.error
      BY <1>2, <2>4 DEF Poll
    <3>2. Redeemed(d, {NoTotal, b, p})
      BY <2>1, <3>1 DEF Submitted
    <3>3. page.error = TRUE
      BY <1>1, <3>1 DEF Page
    <3> QED BY <2>4, <3>2, <3>3 DEF Judged
  <2>5. CASE u = "applied"
    <3>1. Submitted(b, d)'
      BY <1>1, <2>1, SamePage
    <3> QED BY <1>1, <1>3, <2>5, <3>1 DEF PageFor, Ordered, SameData
  <2>6. CASE u = "rejected"
    <3>1. Judged(b, d, u)'
      BY <1>1, <2>4, <2>6, SamePage
    <3> QED BY <1>1, <1>3, <2>6, <3>1 DEF PageFor, Ordered, SameData
  <2> QED BY <2>3, <2>5, <2>6
<1>5. Loc(t) \in {"total", "judge"}
  BY <1>3
<1> QED BY <1>1, <1>3, <1>4, <1>5, Land

LEMMA AwaitTotalLands ==
  ASSUME TInv, NEW r \in Runs, AwaitTotal(r)
  PROVE  Lands(r)
<1>1. /\ run[r] \in RunState /\ run[r].pc = "total" /\ Loc(run[r]) = "total"
      /\ UNCHANGED <<site, page>> /\ page.shown = page.cart
      /\ (~site.collapses => page.open) /\ WaitEnds(TotalDiffersFrom(run[r].baseline))
      /\ Ordered(run[r]) /\ page \in Page /\ site \in Site
  BY Known DEF AwaitTotal
<1>2. PICK t \in RunState :
        /\ run' = [run EXCEPT ![r] = t] /\ SameData(t, run[r])
        /\ t.verdict = run[r].verdict /\ Loc(t) = "judge" /\ t.pc # "start"
  BY NewState DEF AwaitTotal, PC
<1>3. ASSUME Readable, t.baseline = Price({}), PageFor(run[r])
      PROVE  PageFor(t)'
  <2> DEFINE b == t.baseline
             d == t.list[t.i]
             p == Price(site.redeem[{}][d])
  <2>1. Submitted(b, d) /\ t.verdict = "applied"
    BY <1>1, <1>2, <1>3 DEF PageFor, SameData
  <2>2. page.total \notin {NoTotal, b} \/ Settled
    BY <1>1, <1>2, <1>3 DEF WaitEnds, TotalDiffersFrom, Readable, SameData
  <2>3. Redeemed(d, {NoTotal, b, p})
    <3>1. ASSUME NEW x, Wearing(x, <<Rem(x), App(d)>>, {b}) PROVE FALSE
      BY <2>2, <3>1, TwoRequests DEF Wearing, Settled
    <3>2. ASSUME Bare(<<App(d)>>, {NoTotal, b}) PROVE FALSE
      BY <2>2, <3>2, OneRequest DEF Bare, Settled
    <3> QED BY <2>1, <3>1, <3>2 DEF Submitted
  <2>4. Redeemed(d, {p})
    BY <2>2, <2>3 DEF Redeemed, Settled
  <2>5. Judged(b, d, t.verdict)
    BY <2>1, <2>4 DEF Judged
  <2>6. Judged(b, d, t.verdict)'
    BY <1>1, <2>5, SamePage
  <2>7. t.reply = "pending"
    BY <1>1, <1>2 DEF Ordered, SameData
  <2> QED BY <1>2, <2>6, <2>7 DEF PageFor
<1> QED BY <1>1, <1>2, <1>3, Land

LEMMA JudgeLands ==
  ASSUME TInv, OneCodeEach, NEW r \in Runs, Judge(r)
  PROVE  Lands(r)
<1> DEFINE s      == run[r]
           better == Improved(s, page.total)
           saved  == IF better THEN s.baseline - page.total ELSE 0
           final  == FinalTotal(s, page.total)
           rep    == [code |-> Code(r), success |-> better,
                      savings |-> saved, final |-> final]
           found  == [code |-> Code(r), total |-> final, savings |-> saved]
<1>1. /\ s \in RunState /\ s.pc = "judge" /\ Loc(s) = "judge"
      /\ UNCHANGED <<site, page>> /\ page.shown = page.cart
      /\ (~site.collapses => page.open)
      /\ Ordered(s) /\ ControlInv(s) /\ page \in Page /\ site \in Site /\ TypeOK
      /\ (Readable /\ Alone(r) /\ s.baseline = Price({}) => Truthful(s))
  BY Known DEF Judge
<1>2. \E t \in RunState :
        /\ run' = [run EXCEPT ![r] = t] /\ t.pc = "code"
        /\ t.list = s.list /\ t.i = s.i + 1 /\ t.baseline = s.baseline
        /\ t.reply = s.reply /\ t.reports = Append(s.reports, rep)
  <2> DEFINE low == IF better THEN Lower(s.lowest, found) ELSE s.lowest
             u == [At(s, "code") EXCEPT !.reports = Append(@, rep), !.pending = @ + 1,
                     !.lowest = IF better THEN Lower(@, found) ELSE @, !.i = @ + 1]
  <2>1. run' = [run EXCEPT ![r] = u]
    BY DEF Judge, Become
  <2>2. PICK t \in RunState : run' = [run EXCEPT ![r] = t]
    BY JudgeKeeps DEF Kept, TInv
  <2>3. t = u
    BY <1>1, <2>1, <2>2 DEF TypeOK
  <2>4. /\ u.pc = "code" /\ u.list = s.list /\ u.i = s.i + 1
        /\ u.baseline = s.baseline /\ u.reply = s.reply
        /\ u.reports = Append(s.reports, rep)
    BY <1>1 DEF At, RunState
  <2> HIDE DEF u
  <2> QED BY <2>2, <2>3, <2>4
<1>3. PICK t \in RunState :
        /\ run' = [run EXCEPT ![r] = t] /\ t.pc = "code"
        /\ t.list = s.list /\ t.i = s.i + 1 /\ t.baseline = s.baseline
        /\ t.reply = s.reply /\ t.reports = Append(s.reports, rep)
  BY <1>2
<1>4. /\ s.i \in 1 .. Len(s.list) /\ Len(s.reports) = s.i - 1 /\ s.baseline \in Nat
      /\ s.reply = "pending" /\ Len(s.list) \in Nat
  BY <1>1 DEF ControlInv, Ordered, RunState
<1>5. /\ Len(t.reports) = s.i /\ DOMAIN t.reports = 1 .. s.i
      /\ t.reports[s.i] = rep /\ \A k \in 1 .. (s.i - 1) : t.reports[k] = s.reports[k]
      /\ DOMAIN s.reports = 1 .. (s.i - 1) /\ DOMAIN s.list = 1 .. Len(s.list)
  <2>1. s.reports \in Seq(Report) /\ t.reports \in Seq(Report) /\ s.list \in Seq(Codes)
    BY <1>1 DEF RunState
  <2> HIDE DEF rep, s
  <2> QED BY <1>3, <1>4, <2>1
<1>6. Ordered(t)
  <2>1. Loc(t) = "code"
    BY <1>3 DEF Loc
  <2>2. ASSUME NEW k \in DOMAIN t.reports
        PROVE  k \in DOMAIN t.list /\ t.reports[k].code = t.list[k]
    <3>1. CASE k = s.i
      BY <1>3, <1>4, <1>5, <3>1 DEF Code
    <3>2. CASE k # s.i
      <4>1. k \in DOMAIN s.reports /\ t.reports[k] = s.reports[k]
        BY <1>4, <1>5, <3>2
      <4> QED BY <1>1, <1>3, <4>1 DEF Ordered
    <3> QED BY <3>1, <3>2
  <2> HIDE DEF rep, s
  <2> QED BY <1>3, <1>4, <1>5, <2>1, <2>2 DEF Ordered
<1>7. ASSUME Readable, Alone(r), t.baseline = Price({})
      PROVE  Truthful(t)'
  <2> DEFINE b == t.baseline
             d == s.list[s.i]
             p == Price(site.redeem[{}][d])
  <2>1. Truthful(s) /\ b = s.baseline /\ b \in Nat
    BY <1>1, <1>3, <1>4, <1>7
  <2>2. Judged(b, d, s.verdict) /\ d \in Codes /\ Code(r) = d
    BY <1>1, <1>4, <2>1 DEF Truthful, PageFor, RunState, Code
  <2>3. site.redeem[{}][d] = {} \/ site.redeem[{}][d] = {d}
    BY <1>1, <2>2 DEF OneCodeEach, TypeOK
  <2>4. p \in Nat
    BY <1>1, <2>3, <2>2 DEF Price, Site, Cart
  <2>5. Between(b)
    <3>1. CASE Redeemed(d, {p})
      BY <1>7, <2>2, <2>3, <3>1 DEF Redeemed, Between, Bare, Wearing
    <3>2. CASE Redeemed(d, {NoTotal, b, p}) /\ page.error = TRUE
      BY <1>7, <2>2, <2>3, <3>2 DEF Redeemed, Between, Bare
    <3> QED BY <2>2, <3>1, <3>2 DEF Judged
  <2>6. Honest(rep, b)
    <3>1. CASE s.verdict = "applied"
      <4>1. page.total = p
        BY <2>2, <3>1 DEF Judged, Redeemed
      <4>2. better = (p < b) /\ (better => final = p)
        BY <1>1, <2>1, <2>4, <3>1, <4>1, RunAssumption DEF Improved, FinalTotal
      <4> HIDE DEF better, final, saved
      <4> QED BY <2>2, <4>2 DEF Honest, TrueTotal
    <3>2. CASE s.verdict # "applied"
      <4>1. site.redeem[{}][d] = {}
        BY <2>2, <2>3, <3>2 DEF Judged, Redeemed
      <4>2. p = b
        BY <1>7, <4>1
      <4>3. better = FALSE
        BY <3>2 DEF Improved
      <4> HIDE DEF better, final, saved
      <4> QED BY <2>1, <2>2, <4>2, <4>3 DEF Honest, TrueTotal
    <3> QED BY <3>1, <3>2
  <2> HIDE DEF rep
  <2>7. ASSUME NEW k \in DOMAIN t.reports
        PROVE  Honest(t.reports[k], b)
    <3>1. CASE k = s.i
      BY <1>5, <2>6, <3>1
    <3>2. CASE k # s.i
      <4>1. k \in DOMAIN s.reports /\ t.reports[k] = s.reports[k]
        BY <1>4, <1>5, <3>2
      <4> QED BY <2>1, <4>1 DEF Truthful
    <3> QED BY <3>1, <3>2
  <2>8. \A k \in DOMAIN t.reports : Honest(t.reports[k], t.baseline)'
    BY <1>1, <2>7 DEF Honest, TrueTotal, Price
  <2>9. Between(t.baseline)'
    BY <1>1, <2>5, SamePage
  <2>10. PageFor(t)'
    BY <1>3, <1>4, <2>9 DEF PageFor, Loc
  <2> QED BY <2>8, <2>10 DEF Truthful
<1> QED BY <1>1, <1>3, <1>6, <1>7 DEF Lands

LEMMA ReopenLands ==
  ASSUME TInv, NEW r \in Runs, Reopen(r)
  PROVE  Lands(r)
<1>1. /\ run[r] \in RunState /\ run[r].pc = "reopen" /\ Loc(run[r]) = "reopen"
      /\ UNCHANGED site /\ page' \in {Emptied(page), Emptied(Expanded(page))}
      /\ page.shown = page.cart
      /\ (~site.collapses => page.open) /\ Ordered(run[r]) /\ TypeOK
  BY Known DEF Reopen
<1>2. PICK t \in RunState :
        /\ run' = [run EXCEPT ![r] = t] /\ SameData(t, run[r])
        /\ Loc(t) = "reapply" /\ t.pc # "start"
  BY NewState DEF Reopen, PC
<1>3. ASSUME PageFor(run[r]) PROVE PageFor(t)'
  <2>1. Ending'
    BY <1>1, <1>3, OpenedPage, SamePage DEF PageFor
  <2>2. t.reply = "pending"
    BY <1>1, <1>2 DEF Ordered, SameData
  <2> QED BY <1>2, <2>1, <2>2 DEF PageFor
<1>4. t.i = Len(t.list) + 1
  BY <1>1, <1>2 DEF Ordered, SameData
<1> QED BY <1>1, <1>2, <1>3, <1>4, OpenedPage, Land

LEMMA ReapplyLands ==
  ASSUME TInv, NEW r \in Runs, Reapply(r)
  PROVE  Lands(r)
<1> DEFINE w == run[r].lowest.code
<1>1. /\ run[r] \in RunState /\ run[r].pc = "reapply" /\ Loc(run[r]) = "reapply"
      /\ UNCHANGED site /\ page' = Typed(page, w) /\ page.shown = page.cart
      /\ (~site.collapses => page.open) /\ Ordered(run[r]) /\ page \in Page
  BY Known DEF Reapply
<1>2. PICK t \in RunState :
        /\ run' = [run EXCEPT ![r] = t] /\ SameData(t, run[r])
        /\ Loc(t) = "collect" /\ t.pc # "start"
  BY NewState DEF Reapply, PC
<1>3. /\ page'.shown = page'.cart /\ page'.open = page.open
      /\ page'.cart = page.cart /\ page'.total = page.total
      /\ page.open => page'.requests = Append(page.requests, App(w))
  BY <1>1 DEF Typed, App, Page
<1>4. ASSUME Readable, PageFor(run[r]) PROVE PageFor(t)'
  <2> DEFINE z == t.lowest.code
  <2>1. /\ Ending /\ page'.requests = Append(page.requests, App(z))
        /\ page'.total \in Total /\ t.reply = "pending"
    <3>1. page'.total \in Total
      BY <1>1, <1>3 DEF Page
    <3>2. Ending /\ t.reply = "pending" /\ z = w
      BY <1>1, <1>2, <1>4 DEF PageFor, Ordered, SameData
    <3> QED BY <1>1, <1>3, <1>4, <3>1, <3>2 DEF Readable
  <2>2. CASE Bare(<<>>, Total)
    <3>1. page'.requests = <<App(z)>> /\ page'.cart = {}
      BY <1>3, <2>1, <2>2, OneRequest DEF Bare
    <3> QED BY <1>2, <2>1, <3>1 DEF PageFor, Reapplied, Bare
  <2>3. ASSUME NEW x \in Codes, Wearing(x, <<Rem(x)>>, Total)
        PROVE  PageFor(t)'
    <3>1. page.requests = <<Rem(x)>> /\ page.cart = {x}
      BY <2>3 DEF Wearing
    <3>2. Append(<<Rem(x)>>, App(z)) = <<Rem(x), App(z)>>
      BY TwoRequests
    <3>3. page'.requests = <<Rem(x), App(z)>> /\ page'.cart = {x}
      BY <1>3, <2>1, <3>1, <3>2
    <3>4. Reapplied(z)'
      BY <2>1, <3>3 DEF Reapplied, Wearing
    <3> QED BY <1>2, <2>1, <3>4 DEF PageFor
  <2> QED BY <2>1, <2>2, <2>3 DEF Ending
<1>5. t.i = Len(t.list) + 1
  BY <1>1, <1>2 DEF Ordered, SameData
<1> QED BY <1>1, <1>2, <1>3, <1>4, <1>5, Land

LEMMA CollectLands ==
  ASSUME TInv, NEW r \in Runs, Collect(r)
  PROVE  Lands(r)
<1>1. /\ run[r] \in RunState /\ run[r].pc = "collect" /\ Loc(run[r]) = "collect"
      /\ UNCHANGED <<site, page>> /\ page.shown = page.cart
      /\ (~site.collapses => page.open) /\ Ordered(run[r])
      /\ (Readable /\ Alone(r) /\ run[r].baseline = Price({}) => Truthful(run[r]))
  BY Known DEF Collect
<1>2. \E t \in RunState :
        /\ run' = [run EXCEPT ![r] = t] /\ t.pc = "done" /\ t.reply = "best"
        /\ t.list = run[r].list /\ t.i = run[r].i /\ t.baseline = run[r].baseline
        /\ t.lowest = run[r].lowest /\ t.reports = run[r].reports
  <2> DEFINE u == [At(run[r], "done") EXCEPT !.reply = "best", !.warned = run[r].unsaved]
  <2>1. run' = [run EXCEPT ![r] = u]
    BY DEF Collect, Become
  <2>2. /\ At(run[r], "done") \in RunState /\ SameData(At(run[r], "done"), run[r])
        /\ At(run[r], "done").pc = "done"
    BY <1>1, MoveKeepsData DEF PC
  <2>3. /\ u \in RunState /\ u.pc = "done" /\ u.list = run[r].list /\ u.i = run[r].i
        /\ u.baseline = run[r].baseline /\ u.lowest = run[r].lowest
        /\ u.reports = run[r].reports /\ u.reply = "best"
    BY <1>1, <2>2 DEF SameData, RunState
  <2> HIDE DEF u
  <2> QED BY <2>1, <2>3
<1>3. PICK t \in RunState :
        /\ run' = [run EXCEPT ![r] = t] /\ t.pc = "done" /\ t.reply = "best"
        /\ t.list = run[r].list /\ t.i = run[r].i /\ t.baseline = run[r].baseline
        /\ t.lowest = run[r].lowest /\ t.reports = run[r].reports
  BY <1>2
<1>4. Loc(t) = "done"
  BY <1>3 DEF Loc
<1>5. Ordered(t)
  BY <1>1, <1>3, <1>4 DEF Ordered
<1>6. ASSUME Readable, Alone(r), t.baseline = Price({})
      PROVE  Truthful(t)'
  <2>1. Truthful(run[r])
    BY <1>1, <1>3, <1>6
  <2>2. Reapplied(t.lowest.code)
    BY <1>1, <1>3, <2>1 DEF Truthful, PageFor
  <2>3. Reapplied(t.lowest.code)'
    BY <1>1, <2>2, SamePage
  <2>4. PageFor(t)'
    BY <1>3, <1>4, <2>3 DEF PageFor
  <2>5. \A k \in DOMAIN t.reports : Honest(t.reports[k], t.baseline)'
    BY <1>1, <1>3, <2>1 DEF Truthful, Honest, TrueTotal, Price
  <2> QED BY <2>4, <2>5 DEF Truthful
<1> QED BY <1>1, <1>3, <1>5, <1>6 DEF Lands

LEMMA ReportLands ==
  ASSUME TInv, NEW r \in Runs, ReportSettles(r)
  PROVE  Lands(r)
<1>1. /\ run[r] \in RunState /\ UNCHANGED <<site, page>> /\ page.shown = page.cart
      /\ (~site.collapses => page.open) /\ Ordered(run[r]) /\ run[r].pending > 0
      /\ (Readable /\ Alone(r) /\ run[r].baseline = Price({}) => Truthful(run[r]))
      /\ TypeOK
  BY Known DEF ReportSettles
<1>2. run[r].pc # "start"
  BY <1>1 DEF Ordered, Fresh
<1>3. PICK t \in RunState : run' = [run EXCEPT ![r] = t]
  BY EndingKeeps DEF TInv, Kept
<1>4. /\ SameData(t, run[r]) /\ t.pc = run[r].pc /\ t.next = run[r].next
      /\ t.verdict = run[r].verdict /\ t.mark = run[r].mark
  <2>1. PICK p, f :
          run' = [run EXCEPT ![r] = [run[r] EXCEPT !.pending = p, !.unsaved = f]]
    BY DEF ReportSettles, Become
  <2>2. t = [run[r] EXCEPT !.pending = p, !.unsaved = f]
    BY <1>1, <1>3, <2>1 DEF TypeOK
  <2> QED BY <1>1, <2>2 DEF SameData, RunState
<1>5. Loc(t) = Loc(run[r])
  BY <1>4 DEF Loc
<1>6. Ordered(t)
  BY <1>1, <1>2, <1>4, <1>5 DEF Ordered, SameData
<1>7. ASSUME Readable, Alone(r), t.baseline = Price({})
      PROVE  Truthful(t)'
  <2>1. Truthful(run[r])
    BY <1>1, <1>4, <1>7 DEF SameData
  <2>2. Truthful(t)
    BY <1>4, <1>5, <2>1 DEF Truthful, PageFor, SameData
  <2>3. PageFor(t)'
    BY <1>1, <2>2, SamePage DEF Truthful, PageFor
  <2>4. \A k \in DOMAIN t.reports : Honest(t.reports[k], t.baseline)'
    BY <1>1, <2>2 DEF Truthful, Honest, TrueTotal, Price
  <2> QED BY <2>3, <2>4 DEF Truthful
<1> QED BY <1>1, <1>2, <1>3, <1>4, <1>6, <1>7 DEF Lands

LEMMA StartLands ==
  ASSUME TInv, OneCodeEach, NEW r \in Runs, NEW l \in Lists, Start(r, l)
  PROVE  Lands(r)
<1> DEFINE s == [run[r] EXCEPT !.list = l, !.baseline = page.total]
<1>1. /\ run[r] \in RunState /\ run[r].pc = "start" /\ UNCHANGED site
      /\ page.shown = page.cart /\ (~site.collapses => page.open) /\ Ordered(run[r])
      /\ page \in Page /\ site \in Site /\ run \in [Runs -> RunState] /\ TypeOK
      /\ l \in Seq(Codes)
  BY Known, RunAssumption DEF Start
<1>2. /\ run[r].reports = <<>> /\ run[r].i = 1 /\ run[r].lowest = NoWinner
      /\ run[r].reply = "pending"
  BY <1>1 DEF Ordered, Fresh
<1>3. s \in RunState /\ s.list = l /\ s.baseline = page.total
      /\ s.reports = <<>> /\ s.i = 1 /\ s.lowest = NoWinner /\ s.reply = "pending"
  BY <1>1, <1>2 DEF RunState, Page
<1>4. ASSUME NEW q \in {"unsupported", "none"}, page' = page,
             Become(r, [At(s, "done") EXCEPT !.reply = q]),
             IF q = "none" THEN page.total = NoTotal ELSE l = <<>>
      PROVE  Lands(r)
  <2>1. \E t \in RunState :
          /\ run' = [run EXCEPT ![r] = t] /\ t.pc = "done" /\ t.reply = q
          /\ t.list = l /\ t.i = 1 /\ t.baseline = page.total
          /\ t.lowest = NoWinner /\ t.reports = <<>>
    <3> DEFINE u == [At(s, "done") EXCEPT !.reply = q]
    <3>1. /\ At(s, "done") \in RunState /\ SameData(At(s, "done"), s)
          /\ At(s, "done").pc = "done"
      BY <1>3, MoveKeepsData DEF PC
    <3>2. /\ u \in RunState /\ u.pc = "done" /\ u.reply = q
          /\ u.list = l /\ u.i = 1 /\ u.baseline = page.total
          /\ u.lowest = NoWinner /\ u.reports = <<>>
      BY <1>3, <3>1 DEF SameData, RunState
    <3> QED BY <1>4, <3>2 DEF Become
  <2>2. PICK t \in RunState :
          /\ run' = [run EXCEPT ![r] = t] /\ t.pc = "done" /\ t.reply = q
          /\ t.list = l /\ t.i = 1 /\ t.baseline = page.total
          /\ t.lowest = NoWinner /\ t.reports = <<>>
    BY <2>1
  <2>3. Loc(t) = "done"
    BY <2>2 DEF Loc
  <2>4. Ordered(t)
    BY <1>1, <1>4, <2>2, <2>3, RunAssumption DEF Ordered
  <2>5. ASSUME t.baseline = Price({})
        PROVE  Truthful(t)'
    <3>1. q = "unsupported"
      BY <1>1, <1>4, <2>2, <2>5, RunAssumption DEF Price, Site, Cart
    <3> QED BY <2>2, <2>3, <3>1 DEF Truthful, PageFor
  <2> QED BY <1>1, <1>4, <2>2, <2>4, <2>5 DEF Lands
<1>5. ASSUME page.total # NoTotal, ExpandThen(r, s, "code")
      PROVE  Lands(r)
  <2>1. \E t \in RunState :
          /\ run' = [run EXCEPT ![r] = t] /\ Loc(t) = "code" /\ t.pc # "start"
          /\ t.reply = "pending" /\ t.list = l /\ t.i = 1 /\ t.baseline = page.total
          /\ t.lowest = NoWinner /\ t.reports = <<>>
    <3>1. \A u \in {At(s, "code"), IdleAt(s, "code")} :
            /\ u \in RunState /\ SameData(u, s) /\ Loc(u) = "code" /\ u.pc # "start"
      BY <1>3, MoveKeepsData DEF PC
    <3>2. PICK u \in {At(s, "code"), IdleAt(s, "code")} : run' = [run EXCEPT ![r] = u]
      BY <1>5 DEF ExpandThen, Become
    <3> HIDE DEF s
    <3> QED BY <1>3, <3>1, <3>2 DEF SameData
  <2>2. PICK t \in RunState :
          /\ run' = [run EXCEPT ![r] = t] /\ Loc(t) = "code" /\ t.pc # "start"
          /\ t.reply = "pending" /\ t.list = l /\ t.i = 1 /\ t.baseline = page.total
          /\ t.lowest = NoWinner /\ t.reports = <<>>
    BY <2>1
  <2>3. Ordered(t)
    BY <1>1, <2>2 DEF Ordered
  <2>4. /\ page'.requests = page.requests /\ page'.cart = page.cart
        /\ page'.total = page.total /\ page'.error = page.error
        /\ page'.shown = page.shown /\ (page.open => page'.open)
    BY <1>1, <1>5, OpenedPage DEF ExpandThen
  <2>5. ASSUME Alone(r), t.baseline = Price({})
        PROVE  Truthful(t)'
    <3>1. Untouched
      BY <1>1, <2>5 DEF Alone, TInv, Steady
    <3>2. page.total = Price(page.cart) /\ page.requests = <<>>
          /\ (page.cart = {} \/ \E x \in Codes : page.cart = {x})
      BY <1>5, <3>1 DEF Untouched, OneCodeEach
    <3>3. Between(t.baseline)
      BY <2>2, <2>5, <3>2 DEF Between, Bare, Wearing
    <3>4. Between(t.baseline)'
      BY <1>1, <2>4, <3>3, SamePage
    <3> QED BY <2>2, <3>4 DEF Truthful, PageFor
  <2> QED BY <1>1, <2>2, <2>3, <2>4, <2>5 DEF Lands
<1> QED BY <1>4, <1>5 DEF Start

-----------------------------------------------------------------------------
\* The invariant holds of a fresh run on any page.
LEMMA InitTruth == Init => TInv
<1> SUFFICES ASSUME Init PROVE TInv
  OBVIOUS
<1>1. IInv
  BY InitInv
<1>2. PICK cart \in StartCarts, error \in BOOLEAN,
           open \in {TRUE} \cup (IF site.collapses THEN {FALSE} ELSE {}),
           blank \in {FALSE} \cup (IF site.blanks THEN {TRUE} ELSE {}) :
        page = [cart |-> cart, shown |-> cart,
                total |-> IF blank THEN NoTotal ELSE Price(cart),
                error |-> error, open |-> open, input |-> {}, requests |-> <<>>]
  BY DEF Init
<1>7. /\ page.shown = page.cart /\ (~site.collapses => page.open)
      /\ Untouched
  BY <1>2 DEF Untouched
<1>3. \A r \in Runs : run[r] = Fresh
  BY DEF Init
<1>4. Ordered(Fresh)
  BY DEF Ordered, Fresh, Loc
<1>5. NoTotal # Price({})
  BY <1>1, RunAssumption DEF IInv, TypeOK, Price, Site, Cart
<1>6. \A r \in Runs : InStep(r)
  BY <1>3, <1>5 DEF InStep, Fresh
<1> QED BY <1>1, <1>3, <1>4, <1>6, <1>7 DEF TInv, Steady

\* And every step keeps it.
LEMMA StepTruth ==
  ASSUME OneCodeEach, TInv, [Next]_vars
  PROVE  TInv'
<1>1. IInv'
  BY StepInv DEF TInv
<1>2. ASSUME NEW r \in Runs, Lands(r) PROVE TInv'
  <2>1. PICK t \in RunState :
          /\ run' = [run EXCEPT ![r] = t] /\ t.pc # "start" /\ Ordered(t)
          /\ Readable /\ Alone(r) /\ t.baseline = Price({}) => Truthful(t)'
    BY <1>2 DEF Lands
  <2>2. /\ run'[r] = t /\ \A q \in Runs \ {r} : run'[q] = run[q]
    BY <2>1 DEF TInv, IInv, TypeOK
  <2>3. Steady'
    BY <1>2, <2>1, <2>2 DEF Lands, Steady, TInv
  <2>4. ASSUME NEW q \in Runs PROVE InStep(q)'
    <3>1. CASE q # r
      BY <2>1, <2>2, <3>1 DEF InStep, Alone
    <3>2. CASE q = r
      <4>1. Readable' = Readable /\ Price({})' = Price({})
        BY <1>2 DEF Lands, Readable, Price
      <4>2. Alone(r)' => Alone(r)
        BY <2>2 DEF Alone
      <4>3. Truthful(t)' => Truthful(run[q])'
        BY <2>2, <3>2 DEF Truthful, PageFor
      <4> QED BY <2>1, <2>2, <3>2, <4>1, <4>2, <4>3 DEF InStep
    <3> QED BY <3>1, <3>2
  <2> QED BY <1>1, <2>3, <2>4 DEF TInv
<1>3. CASE PageStep
  <2>1. TypeOK /\ UNCHANGED <<site, run>> /\ page' \in Page
    BY <1>3, PageKeepsType DEF TInv, IInv
  <2>2. page'.shown = page'.cart /\ (~site.collapses => page'.open)
    BY <1>3, <2>1, OnAnswerApply, OnAnswerRemove, OnRepaint DEF PageStep, TInv, Steady
  <2>3. Untouched => Untouched'
    <3>1. ASSUME Untouched PROVE Repaint
      BY <1>3, <3>1 DEF Untouched, PageStep, AnswerApply, AnswerRemove
    <3> QED BY <2>1, <3>1, OnRepaint DEF Untouched, Price
  <2>4. \A r \in Runs : Ordered(run[r])'
    BY <2>1 DEF TInv, Steady
  <2>5. Steady'
    BY <2>1, <2>2, <2>3, <2>4 DEF TInv, Steady
  <2>6. ASSUME NEW r \in Runs, InStep(r)' = InStep(r) PROVE TRUE
    OBVIOUS
  <2>7. ASSUME NEW r \in Runs PROVE InStep(r)'
    <3>1. /\ Readable' = Readable /\ Alone(r)' = Alone(r) /\ Price({})' = Price({})
          /\ run[r] \in RunState
      BY <2>1 DEF Readable, Alone, Price, TypeOK
    <3>2. PICK s \in RunState : s = run[r]
      BY <3>1
    <3>3. ASSUME Readable, Alone(r), s.baseline = Price({})
          PROVE  Truthful(s)'
      <4>1. Truthful(s)
        BY <3>2, <3>3 DEF TInv, InStep
      <4>2. PageFor(s)'
        BY <1>3, <2>1, <3>3, <4>1, PageKeepsPhase DEF Truthful
      <4>3. \A k \in DOMAIN s.reports : Honest(s.reports[k], s.baseline)'
        BY <2>1, <4>1 DEF Truthful, Honest, TrueTotal, Price
      <4> QED BY <4>2, <4>3 DEF Truthful
    <3>4. run'[r] = s
      BY <2>1, <3>2
    <3>5. Truthful(s)' => Truthful(run[r])'
      BY <3>4 DEF Truthful, PageFor
    <3> QED BY <3>1, <3>2, <3>3, <3>4, <3>5 DEF InStep
  <2> QED BY <1>1, <2>5, <2>7 DEF TInv
<1>4. CASE UNCHANGED vars
  <2>1. Steady'
    BY <1>4 DEF TInv, Steady, vars, Untouched, Price
  <2>2. ASSUME NEW r \in Runs PROVE InStep(r)'
    <3>1. InStep(r)
      BY DEF TInv
    <3>2. /\ Readable' = Readable /\ Alone(r)' = Alone(r) /\ Price({})' = Price({})
          /\ run' = run
      BY <1>4 DEF vars, Readable, Alone, Price
    <3>3. PageFor(run[r]) => PageFor(run[r])'
      BY <1>4, SamePage DEF vars, PageFor
    <3>4. ASSUME Truthful(run[r]) PROVE Truthful(run[r])'
      BY <1>4, <3>3, <3>4 DEF vars, Truthful, Honest, TrueTotal, Price
    <3> QED BY <3>1, <3>2, <3>4 DEF InStep
  <2> QED BY <1>1, <2>1, <2>2 DEF TInv
<1>5. ASSUME NEW r \in Runs, Script(r) PROVE TInv'
  BY <1>2, <1>5, WaitIdleLands, NextCodeLands, EndLoopLands, RemoveLands, CompareLands,
     RestoreLands, ApplyLands, ResultLands, AwaitTotalLands, JudgeLands, ReopenLands,
     ReapplyLands, CollectLands DEF Script
<1> QED BY <1>2, <1>3, <1>4, <1>5, StartLands, ReportLands DEF Next

LEMMA TruthInvariance ==
  ASSUME OneCodeEach PROVE Spec => []TInv
<1>1. Init => TInv
  BY InitTruth
<1>2. TInv /\ [Next]_vars => TInv'
  BY StepTruth
<1> QED BY <1>1, <1>2, PTL DEF Spec

\* On a page the script can read, for any list, the history a run sends while it is
\* alone tells the truth about every code: what one code leaves on the page never
\* counts for the next.
THEOREM ReportsTruthful ==
  ASSUME OneCodeEach PROVE Spec => []ReportsTellTheTruth
<1>1. TInv => ReportsTellTheTruth
  BY DEF TInv, InStep, Truthful, Honest, ReportsTellTheTruth
<1> QED BY <1>1, TruthInvariance, PTL

\* What the run's own invariant says of its winner once the history is the truth.
LEMMA WinnerIsBest ==
  ASSUME NeverDearer, TInv, NEW r \in Runs, Readable, Alone(r), Settled,
         run[r].reply \in {"best", "none"}, run[r].baseline = Price({})
  PROVE  /\ run[r].reply = "best" => page.total = run[r].lowest.total
         /\ \A i \in DOMAIN run[r].list : page.total <= TrueTotal(run[r].list[i])
<1> DEFINE s == run[r]
           b == s.baseline
<1>1. /\ s \in RunState /\ ControlInv(s) /\ WinnerInv(s) /\ Ordered(s) /\ Truthful(s)
      /\ site \in Sites /\ site \in Site /\ page \in Page
  BY Known, RunAssumption DEF TypeOK
<1>2. b \in Nat /\ page.total = Price(page.cart) /\ page.requests = <<>>
  BY <1>1 DEF Price, Site, Cart, Settled
<1>3. ASSUME NEW i \in DOMAIN s.list
      PROVE  /\ i \in DOMAIN s.reports /\ s.reports[i].code = s.list[i]
             /\ Honest(s.reports[i], b) /\ s.list[i] \in Codes
  <2>1. s.i = Len(s.list) + 1 /\ Len(s.reports) = Len(s.list)
    BY <1>1, <1>2 DEF Ordered, ControlInv, RunState
  <2> QED BY <1>1, <2>1 DEF Ordered, Truthful, RunState
<1>4. \A c \in Codes : TrueTotal(c) \in Nat /\ TrueTotal(c) <= b
  BY <1>1 DEF TrueTotal, NeverDearer, Price, Site, Cart
<1>5. CASE s.reply = "best"
  <2>1. /\ s.lowest # NoWinner /\ s.lowest.total < b /\ IsLowest(s.lowest, s.reports)
        /\ s.lowest.total \in Nat
    BY <1>1, <1>5 DEF ControlInv, WinnerInv, RunState, Winner
  <2>2. PICK k \in DOMAIN s.reports :
          /\ s.reports[k] = [code |-> s.lowest.code, success |-> TRUE,
                             savings |-> s.lowest.savings, final |-> s.lowest.total]
          /\ \A j \in DOMAIN s.reports : s.reports[j].success =>
               s.reports[j].final >= s.lowest.total
    BY <2>1 DEF IsLowest
  <2>3. s.lowest.total = TrueTotal(s.lowest.code)
    BY <1>1, <2>2 DEF Truthful, Honest
  <2>4. Redeemed(s.lowest.code, Total)
    BY <1>1, <1>2, <1>5, OneRequest, TwoRequests DEF Truthful, PageFor, Reapplied, Wearing, Bare
  <2>5. page.total = s.lowest.total
    BY <1>2, <2>3, <2>4 DEF Redeemed, TrueTotal
  <2>6. ASSUME NEW i \in DOMAIN s.list
        PROVE  s.lowest.total <= TrueTotal(s.list[i])
    <3>1. CASE s.reports[i].success
      BY <1>3, <2>2, <3>1 DEF Honest
    <3>2. CASE ~s.reports[i].success
      BY <1>2, <1>3, <1>4, <2>1, <3>2 DEF Honest
    <3> QED BY <3>1, <3>2
  <2> QED BY <2>5, <2>6
<1>6. CASE s.reply = "none"
  <2>1. s.lowest = NoWinner /\ \A j \in DOMAIN s.reports : ~s.reports[j].success
    BY <1>1, <1>6 DEF Ordered, WinnerInv
  <2>2. page.total <= b
    <3>1. Between(b)
      BY <1>1, <1>6 DEF Truthful, PageFor
    <3>2. ASSUME NEW x \in Codes, Price({x}) = b \/ site.redeem[{}][x] = {x}
          PROVE  Price({x}) <= b
      <4>1. TrueTotal(x) = Price(site.redeem[{}][x]) /\ TrueTotal(x) <= b
        BY <1>4 DEF TrueTotal
      <4>2. CASE Price({x}) = b
        BY <1>2, <4>2
      <4>3. CASE site.redeem[{}][x] = {x}
        BY <4>1, <4>3
      <4> QED BY <3>2, <4>2, <4>3
    <3>3. CASE Bare(<<>>, {NoTotal, b})
      BY <1>2, <3>3 DEF Bare
    <3>4. ASSUME NEW x \in Codes, Wearing(x, <<>>, {Price({x})}),
                 Price({x}) = b \/ site.redeem[{}][x] = {x}
          PROVE  page.total <= b
      BY <3>2, <3>4 DEF Wearing
    <3> QED BY <3>1, <3>3, <3>4 DEF Between
  <2>3. ASSUME NEW i \in DOMAIN s.list
        PROVE  page.total <= TrueTotal(s.list[i])
    <3>1. TrueTotal(s.list[i]) = b
      BY <1>2, <1>3, <1>4, <2>1 DEF Honest
    <3> QED BY <2>2, <3>1
  <2> QED BY <1>6, <2>3
<1> QED BY <1>5, <1>6

\* On such a page, where no code raises the total of a bare cart, the shopper is
\* left with the total the answer names, and no listed code would have been cheaper.
THEOREM ShopperHasTheBest ==
  ASSUME OneCodeEach, NeverDearer PROVE Spec => []ShopperKeepsTheBest
<1>1. TInv => ShopperKeepsTheBest
  BY WinnerIsBest DEF ShopperKeepsTheBest
<1> QED BY <1>1, TruthInvariance, PTL
=============================================================================
