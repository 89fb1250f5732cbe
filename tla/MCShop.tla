------------------------------- MODULE MCShop -------------------------------
(* A small shop for TLC: a careful user and a careless one, who sends his  *)
(* visits all at once.                                                     *)
EXTENDS ShopProperties, TLC

CONSTANTS u1, u2, v1, v2, v3, v4

MCVisit(u, page) ==
  [user |-> u, page |-> page, item |-> "pear", amount |-> 1, coupon |-> None,
   target |-> "apple", discount |-> 7]
MCItems == {"apple", "banana", "pear", "orange", "fruitComboSet"}
MCAmounts == {1, 7}
MCCoupons == [target : {"apple"}, discount : {7, 1000}]
MCMayVisit ==
  (v1 :> {[MCVisit(u1, "addItem") EXCEPT !.item = "apple", !.amount = 7],
          [MCVisit(u1, "purchase") EXCEPT !.coupon = Unsendable]})
  @@ (v2 :> {MCVisit(u1, "addItemPage"), [MCVisit(u1, "checkoutPage") EXCEPT !.coupon = v4],
             MCVisit(u1, "reset"), [MCVisit(u1, "purchase") EXCEPT !.coupon = v4]})
  @@ (v3 :> {MCVisit(u2, "reset"), MCVisit(u2, "purchase")})
  @@ (v4 :> {MCVisit(u2, "createCoupon"), [MCVisit(u2, "addItem") EXCEPT !.amount = -2],
             [MCVisit(u2, "createCoupon") EXCEPT !.discount = 1000],
             [MCVisit(u2, "createCoupon") EXCEPT !.discount = NotANumber]})
=============================================================================
