------------------------------ MODULE Customer ------------------------------
(***************************************************************************)
(* What the shop is to a customer: one account, with a basket and orders,  *)
(* on which each request acts at once.  An account is lost as a whole, and *)
(* only by a fault of the server.  An order has the prices of the list     *)
(* and, at most, the discount of one coupon that somebody asked for.       *)
(***************************************************************************)
EXTENDS Pricing, Sequences

CONSTANTS Customers, Amounts, Coupons

VARIABLES account, issued, faults

NoAccount == [basket |-> Empty, orders |-> <<>>]

Init == account = [u \in Customers |-> NoAccount] /\ issued = {} /\ faults = 0

\* A request of u acts on the account of u, which it turns into one of those that
\* may come of it.
Act(u, outcomes) ==
  /\ account'[u] \in outcomes
  /\ account' = [account EXCEPT ![u] = account'[u]]
  /\ UNCHANGED <<issued, faults>>

Added(a) == {[a EXCEPT !.basket[i] = @ + n] : i \in Items, n \in Amounts}

Ordered(a) ==
  {[basket |-> Empty, orders |-> Append(a.orders, calculateOrder(ListPrices, a.basket, coupon))] :
     coupon \in issued \union {NoCoupon}}

Add(u) == Act(u, Added(account[u]))
Purchase(u) == Act(u, Ordered(account[u]))
StartOver(u) == Act(u, {NoAccount})

Ask(coupon) == issued' = issued \union {coupon} /\ UNCHANGED <<account, faults>>

Fault(lost) ==
  /\ faults' = faults + 1
  /\ account' = [u \in Customers |-> IF u \in lost THEN NoAccount ELSE account[u]]
  /\ UNCHANGED issued

Next ==
  \/ \E u \in Customers : Add(u) \/ Purchase(u) \/ StartOver(u)
  \/ \E coupon \in Coupons : Ask(coupon)
  \/ \E lost \in SUBSET Customers : Fault(lost)

Spec == Init /\ [][Next]_<<account, issued, faults>>
=============================================================================
