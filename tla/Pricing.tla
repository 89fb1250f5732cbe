------------------------------ MODULE Pricing ------------------------------
(***************************************************************************)
(* What the shop's REST server computes: bundles (recalculateBasket) and   *)
(* the lines of an order (calculateOrder).  A basket maps every item to a  *)
(* count, 0 for an item that is not in the code's map, and counts may be   *)
(* negative.  Money is in thousandths, a discount in tenths, so that the   *)
(* products of the code's floating point numbers are exact.                *)
(* The code's item "fruit combo set" is "fruitComboSet" here.              *)
(***************************************************************************)
EXTENDS Integers

CONSTANTS Items, NoCoupon

ASSUME ItemsAssumption ==
  {"apple", "banana", "pear", "orange", "fruitComboSet"} \subseteq Items

Empty == [i \in Items |-> 0]

\* The price list that is in the code: an item it does not name costs nothing.
ListPrices ==
  [i \in Items |-> CASE i = "apple" -> 1000 [] i = "banana" -> 2000 [] i = "pear" -> 3000
                     [] i = "orange" -> 4000 [] i = "fruitComboSet" -> 12600 [] OTHER -> 0]

\* The basket after n rounds of the loop, and the loop's condition.
AfterRounds(b, n) ==
  [b EXCEPT !["fruitComboSet"] = @ + n, !["pear"] = @ - 4 * n, !["banana"] = @ - 2 * n]
ThreePears(b) == b["pear"] > 2 /\ b["banana"] > 1
MoreRounds(b) == b["pear"] > 3 /\ b["banana"] > 1

\* The loop ends after the first round that leaves too little for another.
Rounds(b) ==
  CHOOSE n \in 0 .. (IF b["pear"] > 0 THEN b["pear"] ELSE 0) :
    /\ ~MoreRounds(AfterRounds(b, n))
    /\ n > 0 => MoreRounds(AfterRounds(b, n - 1))
recalculateBasket(b) == AfterRounds(b, Rounds(b))

\* A coupon is for one item, whether or not the basket has any of it.
ApplyCoupon(coupon, i, amount) ==
  IF coupon # NoCoupon /\ coupon.target = i THEN (amount * coupon.discount) \div 10 ELSE amount

calculateOrder(price, inputBasket, coupon) ==
  LET basket == recalculateBasket(inputBasket)
      line(i) == IF i = "apple" /\ basket[i] > 6 THEN (9 * basket[i] * price[i]) \div 10
                 ELSE basket[i] * price[i]
  IN [i \in Items |-> ApplyCoupon(coupon, i, line(i))]
=============================================================================
