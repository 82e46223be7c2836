---------------------------- MODULE CouponEngine ----------------------------
(***************************************************************************)
(* The demo's arithmetic (src/engine/couponEngine.ts, src/App.tsx): what a    *)
(* coupon takes off a cart, which coupon is best, and which ones a little     *)
(* more spending would unlock.                                               *)
(*                                                                          *)
(* Amounts are cents.  A percentage is counted in quarters, which a double    *)
(* holds exactly; for other fractions the code's product may be a cent off.   *)
(***************************************************************************)
EXTENDS Sorting

CONSTANTS
  NoLimit,    \* a minimum spend or a cap that is undefined
  Threshold   \* SUGGESTION_THRESHOLD_CENTS

ASSUME EngineAssumption == NoLimit \notin Nat /\ Threshold \in Nat

Smaller(m, n) == IF m <= n THEN m ELSE n
Capped(amount, limit) == IF limit = NoLimit THEN amount ELSE Smaller(amount, limit)

IsCart(cart) ==
  /\ cart = [items |-> cart.items, shipping |-> cart.shipping] /\ cart.shipping \in Nat
  /\ IsSequence(cart.items)
  /\ \A i \in DOMAIN cart.items : cart.items[i].price \in Nat /\ cart.items[i].quantity \in Nat

\* A percentage takes off all that it applies to at most.
IsCoupon(coupon) ==
  /\ coupon.type \in {"percentage", "fixed", "free_shipping"}
  /\ coupon.type = "percentage" => coupon.value <= 4
  /\ coupon.value \in Nat /\ {coupon.minSpend, coupon.maxDiscount} \subseteq Nat \cup {NoLimit}

-----------------------------------------------------------------------------
(* One coupon.                                                              *)

ItemTotal(item) == item.price * item.quantity

\* The sum of the items at some places.
TotalOf(items, places) == SumFunction([i \in places |-> ItemTotal(items[i])])

CartTotal(cart) == TotalOf(cart.items, DOMAIN cart.items) + cart.shipping

IsCovered(item, coupon) ==
  /\ ~(coupon.excludeSaleItems /\ item.onSale)
  /\ coupon.categories # {} => item.category \in coupon.categories

EligibleSubtotal(cart, coupon) ==
  TotalOf(cart.items, {i \in DOMAIN cart.items : IsCovered(cart.items[i], coupon)})

IsEligible(cart, coupon) ==
  IF coupon.type = "free_shipping" THEN cart.shipping > 0
  ELSE LET eligible == EligibleSubtotal(cart, coupon)
       IN eligible > 0 /\ (coupon.minSpend = NoLimit \/ eligible >= coupon.minSpend)

\* Faulty variant: a fixed amount is not bounded by what it applies to.
FaceValue(cart, coupon) ==
  CASE coupon.type = "percentage" ->
         Capped((EligibleSubtotal(cart, coupon) * coupon.value) \div 4, coupon.maxDiscount)
    [] coupon.type = "fixed" -> Capped(coupon.value, coupon.maxDiscount)
    [] coupon.type = "free_shipping" -> cart.shipping

\* What an eligible coupon takes off.
Savings(cart, coupon) ==
  CASE coupon.type = "percentage" ->
         Capped((EligibleSubtotal(cart, coupon) * coupon.value) \div 4, coupon.maxDiscount)
    [] coupon.type = "fixed" ->
         Capped(Smaller(coupon.value, EligibleSubtotal(cart, coupon)), coupon.maxDiscount)
    [] coupon.type = "free_shipping" -> cart.shipping

EvaluateCoupon(cart, coupon) ==
  LET total == CartTotal(cart)
      saved == IF IsEligible(cart, coupon) THEN Savings(cart, coupon) ELSE 0
  IN [eligible |-> IsEligible(cart, coupon), savings |-> saved,
      finalPrice |-> IF saved > total THEN 0 ELSE total - saved]

-----------------------------------------------------------------------------
(* The best coupon, by its place in the list; 0 for none.                    *)

\* findBestCoupon: the lowest final price, the earliest of equals.
FindBestCoupon(cart, coupons) ==
  LET result == [i \in DOMAIN coupons |-> EvaluateCoupon(cart, coupons[i])]
  IN LastTaken(Len(coupons), {p \in Pairs(0 .. Len(coupons)) :
       /\ p[1] > 0 /\ result[p[1]].eligible
       /\ p[2] > 0 => result[p[1]].finalPrice < result[p[2]].finalPrice})

\* handleFindBest: the eligible ones by savings, in a stable sort.
FindBest(cart, coupons) ==
  LET result == [i \in DOMAIN coupons |-> EvaluateCoupon(cart, coupons[i])]
  IN Sorted({i \in DOMAIN coupons : result[i].eligible}, {p \in Pairs(DOMAIN coupons) :
       \/ result[p[1]].savings > result[p[2]].savings
       \/ result[p[1]].savings = result[p[2]].savings /\ p[1] < p[2]})

-----------------------------------------------------------------------------
(* Coupons that a little more would unlock.                                  *)

Gap(cart, coupon) == coupon.minSpend - EligibleSubtotal(cart, coupon)

IsWithinReach(cart, coupon) ==
  /\ coupon.minSpend # NoLimit
  /\ EligibleSubtotal(cart, coupon) < coupon.minSpend
  /\ Gap(cart, coupon) <= Threshold

SimulatedSavings(cart, coupon) ==
  Capped(CASE coupon.type = "percentage" -> (coupon.minSpend * coupon.value) \div 4
           [] coupon.type = "fixed" -> coupon.value
           [] coupon.type = "free_shipping" -> cart.shipping,
         coupon.maxDiscount)

\* Faulty variant: as good as the best is enough.
SuggestedIfAsGood(cart, coupons, benchmark) ==
  {i \in DOMAIN coupons :
     IsWithinReach(cart, coupons[i]) /\ SimulatedSavings(cart, coupons[i]) >= benchmark}

Suggested(cart, coupons, benchmark) ==
  {i \in DOMAIN coupons :
     IsWithinReach(cart, coupons[i]) /\ SimulatedSavings(cart, coupons[i]) > benchmark}

\* getUpsellSuggestions, for the savings of the best coupon or 0.
GetUpsellSuggestions(cart, coupons, benchmark) ==
  LET simulated == [i \in DOMAIN coupons |-> SimulatedSavings(cart, coupons[i])]
  IN Sorted(Suggested(cart, coupons, benchmark), {p \in Pairs(DOMAIN coupons) :
       simulated[p[1]] > simulated[p[2]] \/ (simulated[p[1]] = simulated[p[2]] /\ p[1] < p[2])})

-----------------------------------------------------------------------------
(* Reference definitions.                                                    *)

\* The cart with one more item, that the coupon covers, for the gap.
ToppedUp(cart, coupon, category) ==
  [cart EXCEPT !.items = Append(@,
     [category |-> category, price |-> Gap(cart, coupon), quantity |-> 1, onSale |-> FALSE])]

\* What the page says of the best coupon and what findBestCoupon says agree: the
\* same coupon, the earliest of those that save most, and none when none applies.
BestCouponsAgree(cart, coupons) ==
  LET list == FindBest(cart, coupons)
      best == FindBestCoupon(cart, coupons)
  IN /\ best = IF list = <<>> THEN 0 ELSE list[1]
     /\ \A i \in DOMAIN coupons :
          LET e == EvaluateCoupon(cart, coupons[i])
          IN e.eligible =>
               /\ best # 0
               /\ EvaluateCoupon(cart, coupons[best]).finalPrice <= e.finalPrice
               /\ e.finalPrice + e.savings = CartTotal(cart)

\* "Add ... more to unlock ... and save ... instead of ...": a suggested coupon does
\* not apply yet, and after the addition saves what was said, which is more than the
\* best coupon saves now.  A fixed amount above its own minimum spend is the
\* exception: the page promises its face value (couponEngine.ts:174).
SuggestedCouponsPay(cart, coupons, categories) ==
  LET list == FindBest(cart, coupons)
      now  == IF list = <<>> THEN 0 ELSE EvaluateCoupon(cart, coupons[list[1]]).savings
      tips == GetUpsellSuggestions(cart, coupons, now)
  IN \A n \in DOMAIN tips :
       LET c == coupons[tips[n]]
           promised == SimulatedSavings(cart, c)
       IN /\ ~IsEligible(cart, c)
          /\ \A category \in categories :
               LET after == EvaluateCoupon(ToppedUp(cart, c, category), c)
               IN /\ IsCovered([category |-> category, onSale |-> FALSE], c)
                  /\ ~(c.type = "fixed" /\ c.value > c.minSpend)
                  => after.eligible /\ after.savings = promised /\ promised > now
=============================================================================
