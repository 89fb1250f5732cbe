--------------------------- MODULE ShopProperties ---------------------------
(***************************************************************************)
(* What the shop promises, to users who wait for their answers and to      *)
(* those who do not.                                                       *)
(***************************************************************************)
EXTENDS Shop, Functions

CONSTANTS Amounts, Coupons

Baskets == [Items -> Int]
IsAccount(a) == a.basket \in Baskets /\ a.orders \in Seq(Baskets)
CouponSet == [target : Items, discount : Int]
IsStore(s) ==
  /\ s.prices \in Baskets
  /\ DOMAIN s.coupons \subseteq Visits /\ \A v \in DOMAIN s.coupons : s.coupons[v] \in CouponSet
Broken == {NoBytes, Mixed}

\* What may be asked for: items and amounts, of customers who wait only some, and
\* coupons for an item.  A file without a record has no account.
ASSUME RequestsAssumption ==
  /\ NotANumber \notin Int
  /\ Amounts \subseteq Int /\ 1 \in Amounts /\ Coupons \subseteq CouponSet
  /\ NoBytes # Mixed /\ Broken \intersect [basket : Baskets, orders : Seq(Baskets)] = {}
  /\ \A v \in Visits : \A a \in MayVisit[v] :
       /\ a.user \in Users
       /\ a.page \in {"addItem", "addItemPage"} => a.item \in Items
       /\ a.page = "addItem" => a.amount \in Int \union {NotANumber}
       /\ a.page = "addItem" /\ a.user \in Careful => a.amount \in Amounts \union {NotANumber}
       /\ a.page = "createCoupon" /\ a.discount # NotANumber =>
            [target |-> a.target, discount |-> a.discount] \in Coupons

\* Types of all variables: what a handler reads is a record, whatever state the file
\* is in, and a file has a record of the right kind.
ShopTypeOK ==
  /\ \A v \in Visits :
       /\ IsAccount(loaded[v]) /\ IsStore(store[v])
       /\ price[v] \in Baskets /\ coupon[v] \in CouponSet \union {NoCoupon}
       /\ calls[v] \in Seq(DOMAIN Handlers) /\ (todo[v] # <<>> => Busy(v))
  /\ \A u \in Users : users[u] \in Broken \/ IsAccount(users[u])
  /\ shop \in Broken \/ IsStore(shop)
  /\ faults \in 0 .. MaxFaults

-----------------------------------------------------------------------------
\* The coupon that a visit may get for the code it sends.
Asked(w) ==
  /\ w # None /\ visit[w] # None
  /\ visit[w].page = "createCoupon" /\ ~Fails("createCoupon", visit[w])
Given(v, c) == c = NoCoupon \/ (Asked(visit[v].coupon) /\ c = CouponOf(visit[v].coupon))

\* The call of a purchase came to nothing: its coupon could not be sent, or made the
\* order infinite.  The front end confirms the purchase all the same.
NotOrdered(v) == Fails("purchase", visit[v]) \/ TooMuch(v)

\* Every order the server answers has the prices of the list and at most the coupon
\* whose code was sent, also when another request, or another user's reset, has just
\* truncated shop.json or is tearing it (LoadStore, calculateOrder).
PricedAsListed ==
  \A v \in Visits : \A call \in DOMAIN shown[v] \intersect {"checkout", "purchase"} :
    /\ Given(v, coupon[v])
    /\ \/ call = "purchase" /\ NotOrdered(v)
       \/ shown[v][call] =
            calculateOrder(ListPrices, recalculateBasket(loaded[v].basket), coupon[v])

\* Whatever users do at once, and whatever fails, a user's file has nothing that this
\* user has not asked for: no items of another basket, and none added twice ...
Asks(u, page) ==
  {v \in Visits : visit[v] # None /\ User(v) = u /\ visit[v].page \in page}
Count(v) == IF visit[v].page = "addItemPage" THEN 1 ELSE visit[v].amount
Adds(u, i) ==
  {v \in Asks(u, {"addItem", "addItemPage"}) : visit[v].item = i /\ Count(v) # NotANumber}
Gains(S) == SumFunction([v \in {w \in S : Count(w) > 0} |-> Count(v)])
Losses(S) == SumFunction([v \in {w \in S : Count(w) < 0} |-> -Count(v)])
ItemsAsked ==
  \A u \in Users, i \in Items :
    Load(users[u], BlankUser).basket[i] \in -Losses(Adds(u, i)) .. Gains(Adds(u, i))

\* ... and no more orders than purchases (LoadUser, SaveUser: the file is named after
\* the id).
OrdersAsked ==
  \A u \in Users :
    Len(Load(users[u], BlankUser).orders) <= Cardinality(Asks(u, {"purchase"}))

\* The files and what is read of them are typed, and an account is its user's own.
AccountsAreOwn == ShopTypeOK /\ ItemsAsked /\ OrdersAsked

\* The front end's checkout page, which makes two calls, shows a user who waits for
\* his answers an order of the very basket it shows, bundles included: each line the
\* listed price of the count, without a coupon (checkout, calculateOrder).
PageAgrees ==
  \A v \in Visits :
    (/\ "checkout" \in DOMAIN shown[v] /\ visit[v].page = "checkoutPage"
     /\ User(v) \in Careful) =>
      \A i \in Items :
        LET line == shown[v]["checkout"][i]
            listed == shown[v]["basket"][i] * ListPrices[i]
        IN line = IF i = "apple" /\ shown[v]["basket"][i] > 6 THEN (listed * 9) \div 10
                  ELSE listed

\* The front end says "Purchase confirmed" whatever its call came to.  But for a coupon
\* that could not be sent or made the order infinite, that order is in the account of a
\* user who waits for his answers, until he resets it or a fault of the server takes it
\* (client.go purchase and rest, SaveUser).
ConfirmedIsOrdered ==
  \A v \in Visits :
    (/\ "purchase" \in DOMAIN shown[v] /\ User(v) \in Careful /\ faults = 0
     /\ Asks(User(v), {"reset"}) = {}) =>
      \/ NotOrdered(v)
      \/ LET orders == IF \E w \in Visits : At(w, "WriteUser") /\ User(w) = User(v)
                       THEN <<shown[v]["purchase"]>> ELSE users[User(v)].orders
         IN \E k \in DOMAIN orders : orders[k] = shown[v]["purchase"]

\* What the front end tells a user who waits for its answers is so.
PagesTellTruth == PageAgrees /\ ConfirmedIsOrdered

\* Bundles never cost the customer more than their fruit, leave no count below zero
\* that was not, and are all that can be had: asking again, as calculateOrder does of
\* a basket that checkout has bundled, changes nothing.
Counts == -1 .. 9
Total(order) == SumFunction(order)
BundlesPayOff ==
  (\A v \in Visits : visit[v] = None) =>
    \A apples \in 5 .. 8, pears, bananas \in Counts :
      LET b == [Empty EXCEPT !["apple"] = apples, !["pear"] = pears, !["banana"] = bananas]
          bundled == recalculateBasket(b)
      IN /\ recalculateBasket(bundled) = bundled
         /\ Total([i \in Items |-> bundled[i] * ListPrices[i]])
              <= Total([i \in Items |-> b[i] * ListPrices[i]])
         /\ \A i \in Items : b[i] >= 0 => bundled[i] >= 0
         /\ Total(calculateOrder(ListPrices, b, NoCoupon))
              <= Total(calculateOrder(ListPrices, [b EXCEPT !["apple"] = @ + 1], NoCoupon))

-----------------------------------------------------------------------------
\* To users who wait for their answers the shop is an account each: whatever the
\* others do meanwhile, their requests act on it one at a time and as a whole.  A
\* request acts when it truncates the file.
AccountOf(u) ==
  LET saves(v) == At(v, "WriteUser") /\ User(v) = u
  IN IF \E v \in Visits : saves(v)
     THEN UserToSave(CHOOSE v \in Visits : saves(v)) ELSE Load(users[u], BlankUser)
Account == INSTANCE Customer WITH
  Customers <- Careful,
  account <- [u \in Careful |-> AccountOf(u)],
  issued <- {CouponOf(v) : v \in {w \in Visits : Asked(w)}}
AnAccountEach == Account!Spec
=============================================================================
