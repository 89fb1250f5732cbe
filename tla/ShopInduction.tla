--------------------------- MODULE ShopInduction ---------------------------
(***************************************************************************)
(* The inductive invariants of the shop's files.  That of an account: of a *)
(* user who waits for his answers one visit is under way, so what its      *)
(* handler has read stays what is in the file until it truncates it, and   *)
(* the file has no bytes until it writes it.                               *)
(***************************************************************************)
EXTENDS ShopProperties

Accounts == [basket : Baskets, orders : Seq(Baskets)]

\* What is left of a page's calls, and of a call's handler.
CallsLeft(page) ==
  CASE page = "shopPage" -> {<<>>, <<"basket">>, Pages.shopPage}
    [] page = "addItemPage" -> {<<>>, <<"basket">>, Pages.shopPage, Pages.addItemPage}
    [] page = "checkoutPage" -> {<<>>, <<"checkout">>, Pages.checkoutPage}
    [] OTHER -> {<<>>, <<page>>}

ToWrite == <<"WriteUser">>
ToSave == <<"TruncateUser", "WriteUser">>
ToDiscount == <<"LoadCoupon", "TruncateUser", "WriteUser">>
ToPrice == <<"LoadPrices", "LoadCoupon", "TruncateUser", "WriteUser">>
ToFindCoupon == <<"LoadCoupon">>
ToFindPrice == <<"LoadPrices", "LoadCoupon">>
ToWriteStore == <<"WriteStore">>
ToSaveStore == <<"TruncateStore", "WriteStore">>
ToWriteBoth == <<"WriteUser", "TruncateStore", "WriteStore">>
Rests(call) ==
  CASE call = "basket" -> {<<>>, Handlers.basket}
    [] call = "checkout" -> {<<>>, ToFindCoupon, ToFindPrice, Handlers.checkout}
    [] call = "purchase" -> {<<>>, ToWrite, ToSave, ToDiscount, ToPrice, Handlers.purchase}
    [] call = "addItem" -> {<<>>, ToWrite, ToSave, Handlers.addItem}
    [] call = "createCoupon" -> {<<>>, ToWriteStore, ToSaveStore, Handlers.createCoupon, <<"LoadStore">>}
    [] call = "listItems" -> {<<>>, Handlers.listItems}
    [] call = "reset" -> {<<>>, ToWriteStore, ToSaveStore, ToWriteBoth, Handlers.reset}

AccountsTyped ==
  /\ users \in [Users -> Accounts \union Broken]
  /\ loaded \in [Visits -> Accounts]
  /\ faults \in 0 .. MaxFaults
\* A visit makes its page's calls in their order, and a call's handler its steps.
CallsInOrder ==
  \A v \in Visits :
    /\ visit[v] = None => calls[v] = <<>>
    /\ visit[v] # None => calls[v] \in CallsLeft(visit[v].page)
StepsInOrder ==
  \A v \in Visits :
    /\ calls[v] = <<>> => todo[v] = <<>>
    /\ Busy(v) => todo[v] \in Rests(Call(v))
    /\ Busy(v) /\ Call(v) = "addItem" /\ todo[v] # <<>> => ~Fails("addItem", visit[v])

\* A user who waits for his answers has one visit under way, and a file that nobody
\* else writes.
OneVisit ==
  \A v, w \in Visits :
    Busy(v) /\ Busy(w) /\ User(v) = User(w) /\ User(v) \in Careful => v = w
FilesWhole ==
  /\ \A u \in Careful : users[u] # Mixed
  /\ \A v \in Visits : At(v, "WriteUser") /\ User(v) \in Careful => users[User(v)] = NoBytes
HasRead(v) ==
  \/ Call(v) \in {"basket", "checkout"} /\ ~At(v, "LoadUser")
  \/ todo[v] \in {ToPrice, ToDiscount, ToSave}
ReadsAreCurrent ==
  \A v \in Visits :
    Busy(v) /\ User(v) \in Careful /\ HasRead(v) => loaded[v] = Load(users[User(v)], BlankUser)

OwnInv ==
  AccountsTyped /\ CallsInOrder /\ StepsInOrder /\ OneVisit /\ FilesWhole /\ ReadsAreCurrent

\* The checkout page: the basket that it has shown is still the user's, it finds no
\* coupon, and when it is over its lines are of that basket.
PageLines(v) ==
  \A i \in Items :
    LET line == shown[v]["checkout"][i]
        listed == shown[v]["basket"][i] * ListPrices[i]
    IN line = IF i = "apple" /\ shown[v]["basket"][i] > 6 THEN (listed * 9) \div 10 ELSE listed
ChecksOut(v) ==
  /\ Busy(v) /\ Call(v) = "checkout" /\ todo[v] = <<>> => coupon[v] = NoCoupon
  /\ (visit[v] # None /\ visit[v].page = "checkoutPage" /\ User(v) \in Careful) =>
       /\ Busy(v) /\ Call(v) = "checkout" =>
            /\ "basket" \in DOMAIN shown[v]
            /\ shown[v]["basket"] = recalculateBasket(Load(users[User(v)], BlankUser).basket)
       /\ "checkout" \in DOMAIN shown[v] => PageLines(v)
CheckingOut == \A v \in Visits : ChecksOut(v)

\* What a purchase has saved, or was answered, is in the account.
Has(account, order) == \E k \in DOMAIN account.orders : account.orders[k] = order
Confirms(v) ==
  (visit[v] # None /\ User(v) \in Careful /\ faults = 0 /\ Asks(User(v), {"reset"}) = {}) =>
    /\ Busy(v) /\ Call(v) = "purchase" /\ todo[v] = <<>> =>
         NotOrdered(v) \/ Has(AccountOf(User(v)), Order(v))
    /\ "purchase" \in DOMAIN shown[v] =>
         NotOrdered(v) \/ Has(AccountOf(User(v)), shown[v]["purchase"])
Confirmed == \A v \in Visits : Confirms(v)

CustomerInv == OwnInv /\ CheckingOut /\ Confirmed

\* An order was bought by a purchase of its user that has been saved, or never will be:
\* of all that purchases have read so far, and of what is in the file.
Bought(u) == {v \in Asks(u, {"purchase"}) : todo[v] = <<>>}
Purchases ==
  /\ IsFiniteSet({v \in Visits : visit[v] # None})
  /\ \A u \in Users : Len(Load(users[u], BlankUser).orders) <= Cardinality(Bought(u))
  /\ \A v \in Visits :
       IF visit[v] = None THEN loaded[v] = BlankUser
       ELSE Len(loaded[v].orders) <= Cardinality(Bought(User(v)))

\* Likewise what is in a basket was added: an addition counts when it has been saved or
\* never will be.
Added(u, i) ==
  {v \in Adds(u, i) : ~(Busy(v) /\ Call(v) = "addItem" /\ todo[v] # <<>>)}
FromAdded(u, i) == -Losses(Added(u, i)) .. Gains(Added(u, i))
Additions ==
  \A i \in Items :
    /\ \A u \in Users : Load(users[u], BlankUser).basket[i] \in FromAdded(u, i)
    /\ \A v \in Visits :
         IF visit[v] = None THEN loaded[v] = BlankUser
         ELSE loaded[v].basket[i] \in FromAdded(User(v), i)
=============================================================================
