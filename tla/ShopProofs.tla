----------------------------- MODULE ShopProofs -----------------------------
(***************************************************************************)
(* Proofs about the shop, for any number of users and visits, any items    *)
(* and any number of faults.                                               *)
(*                                                                         *)
(* PriceInv follows the price list from the code through shop.json, torn   *)
(* or whole, to the order: whatever a handler has loaded or a save has     *)
(* left has the prices of the list and only coupons that a visit has asked *)
(* for.  With OwnInv (ShopInduction) the steps of all handlers act on the  *)
(* account of a user who waits for his answers as one request at a time    *)
(* does, which is the refinement; and what the pages tell such a user      *)
(* follows from what his account is when they are made.                    *)
(***************************************************************************)
EXTENDS ShopInduction, SequenceFacts, FiniteSetTheorems

CallNames == {"basket", "checkout", "purchase", "addItem", "createCoupon", "listItems", "reset"}
StepNames == {"LoadUser", "LoadStore", "LoadPrices", "LoadCoupon", "TruncateUser", "WriteUser",
              "TruncateStore", "WriteStore"}
Orders == {"checkout", "purchase"}

\* What a handler may still do for a call: a truncation is followed by a write, and only
\* a coupon that can be saved, or a reset, writes the shop.
GoodSteps(s, call, a) ==
  \A k \in 1 .. Len(s) :
    /\ s[k] \in {"TruncateUser", "TruncateStore"} => k < Len(s)
    /\ s[k] \in {"TruncateStore", "WriteStore"} =>
         call \in {"createCoupon", "reset"} /\ ~Fails(call, a)
\* An order is the last call of its visit, and a page makes no coupon.
GoodCalls(s, page) ==
  \A k \in 1 .. Len(s) :
    /\ s[k] \in Orders => k = Len(s)
    /\ s[k] = "createCoupon" => page = "createCoupon"

\* The coupons that were asked for, and what shop.json may have and an order may use.
Issued == {<<w, CouponOf(w)>> : w \in {x \in Visits : Asked(x)}}
GoodStore(s, issued) ==
  /\ s = [prices |-> ListPrices, coupons |-> s.coupons]
  /\ \A w \in DOMAIN s.coupons : <<w, s.coupons[w]>> \in issued

Wishes == UNION {MayVisit[v] : v \in Visits}
Typed ==
  /\ visit \in [Visits -> Wishes \union {None}]
  /\ calls \in [Visits -> Seq(CallNames)] /\ todo \in [Visits -> Seq(StepNames)]
Domains ==
  /\ DOMAIN store = Visits /\ DOMAIN price = Visits /\ DOMAIN coupon = Visits
  /\ DOMAIN loaded = Visits /\ DOMAIN shown = Visits
Ordered ==
  \A v \in Visits :
    /\ visit[v] = None => calls[v] = <<>>
    /\ calls[v] = <<>> => todo[v] = <<>>
    /\ GoodSteps(todo[v], Head(calls[v]), visit[v])
    /\ GoodCalls(calls[v], visit[v].page)
ShopListed == shop \in Broken \/ GoodStore(shop, Issued)
ReadListed ==
  \A v \in Visits :
    /\ GoodStore(store[v], Issued) /\ price[v] = ListPrices
    /\ coupon[v] = NoCoupon \/ (visit[v] # None /\ <<visit[v].coupon, coupon[v]>> \in Issued)
Priced ==
  \A v \in Visits : \A call \in DOMAIN shown[v] \intersect Orders :
    /\ calls[v] = <<>> /\ visit[v] # None
    /\ \/ call = "purchase" /\ NotOrdered(v)
       \/ shown[v][call] =
            calculateOrder(ListPrices, recalculateBasket(loaded[v].basket), coupon[v])

PriceInv == Typed /\ Domains /\ Ordered /\ ShopListed /\ ReadListed /\ Priced

-----------------------------------------------------------------------------
(* What the tables of the handlers and pages give.                         *)

LEMMA HandlersGood ==
  ASSUME NEW call \in CallNames, NEW a
  PROVE  Steps(call, a) \in Seq(StepNames) /\ GoodSteps(Steps(call, a), call, a)
<1>1. CASE call = "addItem"
  <2>1. CASE a.amount = NotANumber
    <3>1. Steps(call, a) = <<>>
      BY <1>1, <2>1 DEF Steps, Fails
    <3> QED BY <3>1 DEF GoodSteps
  <2>2. CASE a.amount # NotANumber
    <3>1. Steps(call, a) = <<"LoadUser", "TruncateUser", "WriteUser">>
      BY <1>1, <2>2 DEF Steps, Fails, Handlers
    <3> QED BY <3>1 DEF GoodSteps, StepNames
  <2> QED BY <2>1, <2>2
<1>2. CASE call = "createCoupon"
  <2>1. CASE a.discount = NotANumber
    <3>1. Steps(call, a) = <<"LoadStore">>
      BY <1>2, <2>1 DEF Steps, Fails
    <3> QED BY <3>1 DEF GoodSteps, StepNames
  <2>2. CASE a.discount # NotANumber
    <3>1. ~Fails(call, a)
      BY <1>2, <2>2 DEF Fails
    <3>2. Steps(call, a) = <<"LoadStore", "TruncateStore", "WriteStore">>
      BY <1>2, <2>2 DEF Steps, Fails, Handlers
    <3>3. Steps(call, a) \in Seq(StepNames)
      BY <3>2 DEF StepNames
    <3>4. GoodSteps(Steps(call, a), call, a)
      BY <1>2, <3>1, <3>2 DEF GoodSteps
    <3> QED BY <3>3, <3>4
  <2> QED BY <2>1, <2>2
<1>3. CASE call = "purchase"
  <2>1. CASE a.coupon = Unsendable
    <3>1. Steps(call, a) = <<>>
      BY <1>3, <2>1 DEF Steps, Fails
    <3> QED BY <3>1 DEF GoodSteps
  <2>2. CASE a.coupon # Unsendable
    <3>1. Steps(call, a) = <<"LoadUser", "LoadPrices", "LoadCoupon", "TruncateUser", "WriteUser">>
      BY <1>3, <2>2 DEF Steps, Fails, Handlers
    <3> QED BY <3>1 DEF GoodSteps, StepNames
  <2> QED BY <2>1, <2>2
<1>4. CASE call \notin {"addItem", "createCoupon", "purchase"}
  <2> USE <1>4 DEF Steps, Fails, Handlers, GoodSteps, StepNames
  <2>1. CASE call = "basket" BY <2>1
  <2>2. CASE call = "checkout" BY <2>2
  <2>3. CASE call = "listItems" BY <2>3
  <2>4. CASE call = "reset" BY <2>4
  <2> QED BY <2>1, <2>2, <2>3, <2>4 DEF CallNames
<1> QED BY <1>1, <1>2, <1>3, <1>4

LEMMA PagesGood ==
  ASSUME NEW v \in Visits, NEW a \in MayVisit[v]
  PROVE  /\ Calls(a.page) \in Seq(CallNames) /\ Calls(a.page) # <<>>
         /\ GoodCalls(Calls(a.page), a.page)
<1> USE DEF Calls, Pages, CallNames, GoodCalls, Orders
<1>1. a.page \in CallNames \union {"shopPage", "addItemPage", "checkoutPage"}
  BY VisitsAssumption DEF Handlers
<1>2. CASE a.page = "shopPage" BY <1>2
<1>3. CASE a.page = "addItemPage" BY <1>3
<1>4. CASE a.page = "checkoutPage" BY <1>4
<1>5. CASE a.page \in CallNames
  <2>1. Calls(a.page) = <<a.page>> BY <1>5
  <2> QED BY <1>5, <2>1
<1> QED BY <1>1, <1>2, <1>3, <1>4, <1>5

LEMMA BeginGood ==
  ASSUME NEW left \in Seq(CallNames), NEW a
  PROVE  /\ Begin(left, a) \in Seq(StepNames) /\ GoodSteps(Begin(left, a), Head(left), a)
         /\ left = <<>> => Begin(left, a) = <<>>
<1>1. CASE left = <<>>
  BY <1>1 DEF Begin, GoodSteps
<1>2. CASE left # <<>>
  BY <1>2, HandlersGood DEF Begin
<1> QED BY <1>1, <1>2

\* A handler that goes on has what it still does for the same call.
LEMMA RestGood ==
  ASSUME NEW s \in Seq(StepNames), s # <<>>, NEW call, NEW a, GoodSteps(s, call, a)
  PROVE  /\ Tail(s) \in Seq(StepNames) /\ GoodSteps(Tail(s), call, a)
         /\ Head(s) \in {"TruncateUser", "TruncateStore"} => Tail(s) # <<>>
<1>1. /\ Tail(s) \in Seq(StepNames) /\ Len(Tail(s)) = Len(s) - 1 /\ Len(s) \in Nat /\ Len(s) > 0
      /\ \A i \in 1 .. Len(Tail(s)) : Tail(s)[i] = s[i + 1]
      /\ Head(s) = s[1]
  BY HeadTailProperties
<1>2. GoodSteps(Tail(s), call, a)
  BY <1>1 DEF GoodSteps
<1>3. Head(s) \in {"TruncateUser", "TruncateStore"} => Len(Tail(s)) > 0
  BY <1>1 DEF GoodSteps
<1>4. Head(s) \in {"TruncateUser", "TruncateStore"} => Tail(s) # <<>>
  <2> DEFINE t == Tail(s)
  <2>1. Len(t) > 0 => t # <<>>
    <3> HIDE DEF t
    <3> QED OBVIOUS
  <2> QED BY <1>3, <2>1, Zenon
<1> QED BY <1>1, <1>2, <1>4, Zenon

LEMMA BlankShopGood == ASSUME NEW issued PROVE GoodStore(BlankShop, issued)
  BY DEF GoodStore, BlankShop

\* Whatever is read of shop.json, it gives the prices of the list and coupons that
\* somebody asked for.
LEMMA ReadsGood ==
  ASSUME ShopListed, NEW saving, NEW file \in Reads(shop, saving)
  PROVE  GoodStore(Load(file, BlankShop), Issued)
  BY BlankShopGood DEF ShopListed, Reads, Load, Broken

-----------------------------------------------------------------------------
LEMMA InvImplies == PriceInv => PricedAsListed
<1> SUFFICES ASSUME PriceInv, NEW v \in Visits,
                    NEW call \in DOMAIN shown[v] \intersect {"checkout", "purchase"}
             PROVE  /\ Given(v, coupon[v])
                    /\ \/ call = "purchase" /\ NotOrdered(v)
                       \/ shown[v][call] =
                            calculateOrder(ListPrices, recalculateBasket(loaded[v].basket), coupon[v])
  BY DEF PricedAsListed
<1>1. Given(v, coupon[v])
  BY DEF PriceInv, ReadListed, Given, Issued
<1>2. \/ call = "purchase" /\ NotOrdered(v)
      \/ shown[v][call] =
           calculateOrder(ListPrices, recalculateBasket(loaded[v].basket), coupon[v])
  BY DEF PriceInv, Priced, Orders
<1> QED BY <1>1, <1>2

LEMMA InitEstablishes == Init => PriceInv
<1> SUFFICES ASSUME Init PROVE PriceInv
  OBVIOUS
<1> USE DEF Init
<1>1. Typed /\ Domains
  <2>1. <<>> \in Seq(CallNames) /\ <<>> \in Seq(StepNames)
    OBVIOUS
  <2>2. Typed
    <3>1. visit \in [Visits -> Wishes \union {None}]
      OBVIOUS
    <3>2. calls \in [Visits -> Seq(CallNames)]
      BY <2>1
    <3>3. todo \in [Visits -> Seq(StepNames)]
      BY <2>1
    <3> QED BY <3>1, <3>2, <3>3 DEF Typed
  <2>3. Domains
    BY DEF Domains
  <2> QED BY <2>2, <2>3
<1>2. Ordered
  BY DEF Ordered, GoodSteps, GoodCalls
<1>3. ShopListed /\ ReadListed
  BY BlankShopGood DEF ShopListed, ReadListed, Broken
<1>4. Priced
  BY DEF Priced
<1> QED BY <1>1, <1>2, <1>3, <1>4 DEF PriceInv

\* A handler goes on, to the next step or, when it cannot open a file, past it.
LEMMA AdvanceKeeps ==
  ASSUME Typed, Ordered, NEW v \in Visits, NEW step, At(v, step), UNCHANGED <<visit, calls>>,
         \/ todo' = [todo EXCEPT ![v] = Tail(@)]
         \/ step \in {"TruncateUser", "TruncateStore"} /\ todo' = [todo EXCEPT ![v] = Tail(Tail(@))]
  PROVE  Typed' /\ Ordered' /\ Busy(v) /\ Issued' = Issued
<1> USE DEF At
<1> DEFINE call == Head(calls[v])
           good(s) == s \in Seq(StepNames) /\ GoodSteps(s, call, visit[v])
<1>1. todo[v] # <<>> /\ Head(todo[v]) = step /\ good(todo[v])
  BY DEF Typed, Ordered
<1>2. good(Tail(todo[v]))
  BY <1>1, RestGood
<1>3. step \in {"TruncateUser", "TruncateStore"} => good(Tail(Tail(todo[v])))
  BY <1>1, <1>2, RestGood
<1>4. good(todo'[v]) /\ DOMAIN todo' = Visits /\ \A w \in Visits \ {v} : todo'[w] = todo[w]
  <2> HIDE DEF good
  <2>1. CASE todo' = [todo EXCEPT ![v] = Tail(@)]
    BY <1>2, <2>1 DEF Typed
  <2>2. CASE step \in {"TruncateUser", "TruncateStore"}
             /\ todo' = [todo EXCEPT ![v] = Tail(Tail(@))]
    BY <1>3, <2>2 DEF Typed
  <2> QED BY <2>1, <2>2
<1> HIDE DEF At
<1>5. calls[v] # <<>>
  BY <1>1 DEF Ordered
<1>6. Typed'
  <2>1. \A w \in Visits : todo'[w] \in Seq(StepNames)
    BY <1>4 DEF Typed
  <2>2. todo' = [w \in Visits |-> todo'[w]]
    BY <1>4 DEF Typed
  <2> QED BY <2>1, <2>2 DEF Typed
<1>7. Ordered'
  BY <1>4, <1>5 DEF Ordered
<1>8. Issued' = Issued
  BY DEF Issued, Asked, CouponOf
<1> QED BY <1>5, <1>6, <1>7, <1>8 DEF Busy

LEMMA NotOrderedStays ==
  ASSUME NEW v, visit'[v] = visit[v], loaded'[v] = loaded[v], price'[v] = price[v],
         coupon'[v] = coupon[v]
  PROVE  NotOrdered(v)' <=> NotOrdered(v)
  BY DEF NotOrdered, Fails, TooMuch, Order

\* While a handler is at work its visit has had no answer with an order, so what the
\* handler reads changes none.
LEMMA PricedKeeps ==
  ASSUME Typed, Priced, NEW v \in Visits, Busy(v), UNCHANGED <<visit, calls, shown>>,
         \A w \in Visits \ {v} :
           loaded'[w] = loaded[w] /\ price'[w] = price[w] /\ coupon'[w] = coupon[w]
  PROVE  Priced'
<1>1. \A w \in Visits \ {v} : NotOrdered(w)' <=> NotOrdered(w)
  BY NotOrderedStays
<1> QED BY <1>1 DEF Priced, Busy

-----------------------------------------------------------------------------
LEMMA VisitKeeps ==
  ASSUME PriceInv, NEW v \in Visits, Visit(v)
  PROVE  PriceInv'
<1> USE DEF PriceInv
<1> PICK a \in MayVisit[v] :
      /\ visit' = [visit EXCEPT ![v] = a]
      /\ calls' = [calls EXCEPT ![v] = Calls(a.page)]
      /\ todo' = [todo EXCEPT ![v] = Begin(Calls(a.page), a)]
  BY DEF Visit
<1>1. visit[v] = None /\ UNCHANGED <<locals, shown, shop>>
  BY DEF Visit
<1> DEFINE left == Calls(a.page)
           steps == Begin(left, a)
<1>2. left \in Seq(CallNames) /\ left # <<>> /\ GoodCalls(left, a.page)
  BY PagesGood
<1>3. steps \in Seq(StepNames) /\ GoodSteps(steps, Head(left), a)
  BY <1>2, BeginGood
<1>4. a \in Wishes /\ a # None
  BY VisitsAssumption DEF Wishes
<1> HIDE DEF left, steps
<1>5. /\ visit' = [visit EXCEPT ![v] = a] /\ calls' = [calls EXCEPT ![v] = left]
      /\ todo' = [todo EXCEPT ![v] = steps]
  BY DEF left, steps
<1>6. Typed' /\ Domains'
  BY <1>1, <1>2, <1>3, <1>4, <1>5 DEF Typed, Domains, locals
<1>7. Ordered'
  BY <1>2, <1>3, <1>4, <1>5 DEF Ordered, Typed
<1>8. \A w \in Visits : Asked(w) => Asked(w)' /\ CouponOf(w)' = CouponOf(w)
  BY <1>1, <1>5 DEF Asked, CouponOf, Typed
<1>9. Issued \subseteq Issued'
  BY <1>8 DEF Issued
<1>10. \A s : GoodStore(s, Issued) => GoodStore(s, Issued')
  BY <1>9 DEF GoodStore
<1>11. ShopListed'
  BY <1>1, <1>10 DEF ShopListed
<1>12. ReadListed'
  BY <1>1, <1>5, <1>9, <1>10 DEF ReadListed, locals, Typed
<1>13. Priced'
  <2>1. \A w \in Visits \ {v} : NotOrdered(w)' <=> NotOrdered(w)
    BY <1>1, <1>5, NotOrderedStays DEF locals, Typed
  <2> QED BY <1>1, <1>5, <2>1 DEF Priced, locals, Typed
<1> QED BY <1>6, <1>7, <1>11, <1>12, <1>13

LEMMA LoadUserKeeps ==
  ASSUME PriceInv, NEW v \in Visits, LoadUser(v)
  PROVE  PriceInv'
<1> USE DEF PriceInv, LoadUser, Advance
<1>1. Typed' /\ Ordered' /\ Busy(v) /\ Issued' = Issued
  BY AdvanceKeeps
<1>2. Domains'
  BY DEF Domains
<1>3. ShopListed' /\ ReadListed'
  BY <1>1 DEF ShopListed, ReadListed
<1>4. \A w \in Visits \ {v} :
        loaded'[w] = loaded[w] /\ price'[w] = price[w] /\ coupon'[w] = coupon[w]
  BY DEF Domains
<1>5. Priced'
  BY <1>1, <1>4, PricedKeeps
<1> QED BY <1>1, <1>2, <1>3, <1>5

LEMMA LoadStoreKeeps ==
  ASSUME PriceInv, NEW v \in Visits, LoadStore(v)
  PROVE  PriceInv'
<1> USE DEF PriceInv, Advance
<1>1. Typed' /\ Ordered' /\ Busy(v) /\ Issued' = Issued
  BY AdvanceKeeps DEF LoadStore
<1>2. UNCHANGED <<visit, calls, loaded, price, coupon, shown, shop>>
  BY DEF LoadStore
<1>3. PICK s : GoodStore(s, Issued) /\ store' = [store EXCEPT ![v] = s]
  BY ReadsGood DEF LoadStore
<1>4. Domains'
  BY <1>2, <1>3 DEF Domains
<1>5. ShopListed'
  BY <1>1, <1>2 DEF ShopListed
<1>6. ReadListed'
  BY <1>1, <1>2, <1>3 DEF ReadListed, Domains
<1>7. Priced'
  BY <1>1, <1>2, PricedKeeps
<1> QED BY <1>1, <1>4, <1>5, <1>6, <1>7

LEMMA LoadPricesKeeps ==
  ASSUME PriceInv, NEW v \in Visits, LoadPrices(v)
  PROVE  PriceInv'
<1> USE DEF PriceInv, Advance
<1>1. Typed' /\ Ordered' /\ Busy(v) /\ Issued' = Issued
  BY AdvanceKeeps DEF LoadPrices
<1>2. UNCHANGED <<visit, calls, loaded, store, coupon, shown, shop>>
  BY DEF LoadPrices
<1>3. price' = [price EXCEPT ![v] = ListPrices]
  <2>1. PICK file \in Reads(shop, SavingStore) :
          price' = [price EXCEPT ![v] = Load(file, BlankShop).prices]
    BY DEF LoadPrices
  <2>2. GoodStore(Load(file, BlankShop), Issued)
    BY ReadsGood
  <2>3. Load(file, BlankShop).prices = ListPrices
    <3> DEFINE s == Load(file, BlankShop)
    <3>1. s = [prices |-> ListPrices, coupons |-> s.coupons]
      BY <2>2 DEF GoodStore
    <3> HIDE DEF s
    <3>2. s.prices = ListPrices
      BY <3>1
    <3> QED BY <3>2 DEF s
  <2> QED BY <2>1, <2>3
<1>4. Domains'
  BY <1>2, <1>3 DEF Domains
<1>5. ShopListed'
  BY <1>1, <1>2 DEF ShopListed
<1>6. ReadListed'
  BY <1>1, <1>2, <1>3 DEF ReadListed, Domains
<1>7. \A w \in Visits \ {v} :
        loaded'[w] = loaded[w] /\ price'[w] = price[w] /\ coupon'[w] = coupon[w]
  BY <1>2, <1>3 DEF Domains
<1>8. Priced'
  BY <1>1, <1>2, <1>7, PricedKeeps
<1> QED BY <1>1, <1>4, <1>5, <1>6, <1>8

LEMMA LoadCouponKeeps ==
  ASSUME PriceInv, NEW v \in Visits, LoadCoupon(v)
  PROVE  PriceInv'
<1> USE DEF PriceInv, Advance
<1>1. Typed' /\ Ordered' /\ Busy(v) /\ Issued' = Issued
  BY AdvanceKeeps DEF LoadCoupon
<1>2. UNCHANGED <<visit, calls, loaded, store, price, shown, shop>>
  BY DEF LoadCoupon
<1>3. PICK c : /\ c = NoCoupon \/ <<visit[v].coupon, c>> \in Issued
               /\ coupon' = [coupon EXCEPT ![v] = c]
  <2>1. PICK file \in Reads(shop, SavingStore) :
          coupon' = [coupon EXCEPT ![v] =
            IF Call(v) = "checkout" THEN NoCoupon
            ELSE Lookup(Load(file, BlankShop).coupons, visit[v].coupon)]
    BY DEF LoadCoupon
  <2>2. GoodStore(Load(file, BlankShop), Issued)
    BY ReadsGood
  <2>3. LET c == Lookup(Load(file, BlankShop).coupons, visit[v].coupon)
        IN c = NoCoupon \/ <<visit[v].coupon, c>> \in Issued
    BY <2>2 DEF Lookup, GoodStore
  <2> QED BY <2>1, <2>3
<1>4. Domains'
  BY <1>2, <1>3 DEF Domains
<1>5. ShopListed'
  BY <1>1, <1>2 DEF ShopListed
<1>6. ReadListed'
  <2>1. visit[v] # None
    BY <1>1 DEF Ordered, Busy
  <2> QED BY <1>1, <1>2, <1>3, <2>1 DEF ReadListed, Domains
<1>7. \A w \in Visits \ {v} :
        loaded'[w] = loaded[w] /\ price'[w] = price[w] /\ coupon'[w] = coupon[w]
  BY <1>2, <1>3 DEF Domains
<1>8. Priced'
  BY <1>1, <1>2, <1>7, PricedKeeps
<1> QED BY <1>1, <1>4, <1>5, <1>6, <1>8

-----------------------------------------------------------------------------
(* Saves, answers and crashes.                                             *)

\* Of the steps that save, only those of the shop's file touch what orders depend on.
LEMMA SaveKeeps ==
  ASSUME PriceInv, NEW v \in Visits, NEW step, At(v, step),
         UNCHANGED <<visit, calls, locals, shown>>,
         \/ Advance(v)
         \/ step \in {"TruncateUser", "TruncateStore"} /\ todo' = [todo EXCEPT ![v] = Tail(Tail(@))],
         \/ shop' \in {shop, NoBytes, Mixed}
         \/ GoodStore(shop', Issued)
  PROVE  PriceInv'
<1> USE DEF PriceInv, locals
<1>1. Typed' /\ Ordered' /\ Busy(v) /\ Issued' = Issued
  BY AdvanceKeeps DEF Advance
<1>2. Domains'
  BY DEF Domains
<1>3. ShopListed' /\ ReadListed'
  BY <1>1 DEF ShopListed, ReadListed, Broken
<1>4. Priced'
  BY <1>1, PricedKeeps
<1> QED BY <1>1, <1>2, <1>3, <1>4

\* A coupon is saved only by a handler that can save it, in a shop that had the list.
LEMMA StoreToSaveGood ==
  ASSUME PriceInv, NEW v \in Visits, At(v, "WriteStore")
  PROVE  GoodStore(StoreToSave(v), Issued)
<1> USE DEF PriceInv
<1>1. CASE Call(v) = "reset"
  BY <1>1, BlankShopGood DEF StoreToSave
<1>2. CASE Call(v) # "reset"
  <2>1. todo[v] \in Seq(StepNames) /\ todo[v] # <<>> /\ Head(todo[v]) = "WriteStore"
    BY DEF At, Typed
  <2>2. Call(v) = "createCoupon" /\ ~Fails("createCoupon", visit[v])
    BY <1>2, <2>1 DEF Ordered, GoodSteps, Call
  <2>3. calls[v] \in Seq(CallNames) /\ calls[v] # <<>> /\ Head(calls[v]) = calls[v][1]
    BY <2>1 DEF Ordered, Typed
  <2>4. visit[v] # None /\ visit[v].page = "createCoupon"
    BY <2>2, <2>3 DEF Ordered, GoodCalls, Call
  <2>5. <<v, CouponOf(v)>> \in Issued
    <3>1. v # None
      BY UsersAssumption
    <3>2. Asked(v)
      BY <2>2, <2>4, <3>1 DEF Asked
    <3> QED BY <3>2 DEF Issued
  <2> DEFINE coupons == With(store[v].coupons, v, CouponOf(v))
  <2>6. \A w \in DOMAIN coupons : <<w, coupons[w]>> \in Issued
    BY <2>5 DEF With, ReadListed, GoodStore
  <2>7. store[v] = [prices |-> ListPrices, coupons |-> store[v].coupons]
    BY DEF ReadListed, GoodStore
  <2> HIDE DEF coupons
  <2>8. WithCoupon(v) = [prices |-> ListPrices, coupons |-> coupons]
    BY <2>7 DEF WithCoupon, coupons
  <2> QED BY <1>2, <2>6, <2>8 DEF StoreToSave, GoodStore
<1> QED BY <1>1, <1>2

LEMMA SavesKeep ==
  ASSUME PriceInv, NEW v \in Visits,
         TruncateUser(v) \/ WriteUser(v) \/ TruncateStore(v) \/ WriteStore(v)
  PROVE  PriceInv'
<1>1. CASE TruncateUser(v)
  <2>1. At(v, "TruncateUser") /\ UNCHANGED <<visit, calls, locals, shown, shop>>
    BY <1>1 DEF TruncateUser, Advance
  <2>2. Advance(v) \/ todo' = [todo EXCEPT ![v] = Tail(Tail(@))]
    BY <1>1 DEF TruncateUser
  <2> QED BY <2>1, <2>2, SaveKeeps
<1>2. CASE WriteUser(v)
  BY <1>2, SaveKeeps DEF WriteUser, Advance
<1>3. CASE TruncateStore(v)
  BY <1>3, SaveKeeps DEF TruncateStore, Advance
<1>4. CASE WriteStore(v)
  <2>1. shop' \in {shop, NoBytes, Mixed} \/ shop' = StoreToSave(v)
    BY <1>4 DEF WriteStore, Written
  <2>2. At(v, "WriteStore") /\ Advance(v) /\ UNCHANGED <<visit, calls, locals, shown>>
    BY <1>4 DEF WriteStore, Advance
  <2> QED BY <2>1, <2>2, StoreToSaveGood, SaveKeeps
<1> QED BY <1>1, <1>2, <1>3, <1>4

LEMMA AnswerKeeps ==
  ASSUME PriceInv, NEW v \in Visits, Answer(v)
  PROVE  PriceInv'
<1> USE DEF PriceInv
<1> DEFINE left == Tail(calls[v])
           steps == Begin(left, visit[v])
           call == Head(calls[v])
<1>1. /\ calls[v] \in Seq(CallNames) /\ calls[v] # <<>>
      /\ UNCHANGED <<visit, locals, shop>>
      /\ calls' = [calls EXCEPT ![v] = left] /\ todo' = [todo EXCEPT ![v] = steps]
      /\ shown' = [shown EXCEPT ![v] = With(@, call, Reply(v))]
  BY DEF Answer, Busy, Call, Typed
<1>2. /\ call \in CallNames /\ call = calls[v][1] /\ left \in Seq(CallNames)
      /\ Len(calls[v]) \in Nat /\ 1 \in 1 .. Len(calls[v]) /\ (Len(left) = 0 => left = <<>>)
      /\ Len(left) = Len(calls[v]) - 1 /\ \A k \in 1 .. Len(left) : left[k] = calls[v][k + 1]
  <2>1. Len(calls[v]) \in Nat \ {0}
    BY <1>1, EmptySeq
  <2>2. call \in CallNames /\ left \in Seq(CallNames) /\ Len(left) = Len(calls[v]) - 1
    BY <1>1, HeadTailProperties
  <2>3. \A k \in 1 .. Len(left) : left[k] = calls[v][k + 1]
    BY <1>1, HeadTailProperties
  <2>4. Len(left) = 0 => left = <<>>
    BY <2>2, EmptySeq
  <2> HIDE DEF left
  <2> QED BY <1>1, <2>1, <2>2, <2>3, <2>4
<1>3. GoodCalls(left, visit[v].page) /\ (call \in Orders => left = <<>>)
  <2>1. GoodCalls(calls[v], visit[v].page)
    BY DEF Ordered
  <2>2. GoodCalls(left, visit[v].page)
    BY <1>2, <2>1 DEF GoodCalls
  <2>3. call \in Orders => Len(left) = 0
    <3> SUFFICES ASSUME call \in Orders PROVE Len(left) = 0
      OBVIOUS
    <3>1. 1 = Len(calls[v])
      BY <1>2, <2>1 DEF GoodCalls
    <3> QED BY <1>2, <3>1
  <2> QED BY <1>2, <2>2, <2>3
<1>4. /\ steps \in Seq(StepNames) /\ GoodSteps(steps, Head(left), visit[v])
      /\ left = <<>> => steps = <<>>
  BY <1>2, BeginGood
<1>5. visit[v] # None
  BY <1>1 DEF Ordered
<1>6. call \in Orders =>
        \/ call = "purchase" /\ NotOrdered(v)
        \/ Reply(v) = calculateOrder(ListPrices, recalculateBasket(loaded[v].basket), coupon[v])
  <2>1. price[v] = ListPrices
    BY DEF ReadListed
  <2>2. CASE call = "checkout"
    BY <2>1, <2>2 DEF Reply, Fails, Marshalled, Call, Order
  <2>3. CASE call = "purchase" /\ ~NotOrdered(v)
    BY <2>1, <2>3 DEF Reply, Fails, NotOrdered, Marshalled, Call, Order
  <2> QED BY <2>2, <2>3 DEF Orders
<1> HIDE DEF left, steps, call
<1>7. Typed' /\ Domains'
  BY <1>1, <1>2, <1>4 DEF Typed, Domains, locals
<1>8. Ordered'
  BY <1>1, <1>3, <1>4, <1>5 DEF Ordered, Typed
<1>9. Issued' = Issued
  BY <1>1 DEF Issued, Asked, CouponOf
<1>10. ShopListed' /\ ReadListed'
  BY <1>1, <1>9 DEF ShopListed, ReadListed, locals
<1>11. Priced'
  <2> SUFFICES ASSUME NEW w \in Visits, NEW c \in DOMAIN shown'[w] \intersect Orders
               PROVE  /\ calls'[w] = <<>> /\ visit'[w] # None
                      /\ \/ c = "purchase" /\ NotOrdered(w)'
                         \/ shown'[w][c] = calculateOrder(ListPrices,
                              recalculateBasket(loaded'[w].basket), coupon'[w])
    BY DEF Priced
  <2> NotOrdered(w)' <=> NotOrdered(w)
    BY <1>1, NotOrderedStays DEF locals
  <2>1. CASE w # v
    BY <1>1, <2>1 DEF Priced, Domains, Typed, locals
  <2>2. CASE w = v
    <3>1. shown'[v] = With(shown[v], call, Reply(v)) /\ calls'[v] = left
      BY <1>1 DEF Domains, Typed
    <3>2. c \notin DOMAIN shown[v]
      BY <1>1, <2>2 DEF Priced
    <3>3. c = call /\ shown'[v][c] = Reply(v)
      BY <2>2, <3>1, <3>2 DEF With
    <3> QED BY <1>1, <1>3, <1>5, <1>6, <2>2, <3>1, <3>3 DEF locals
  <2> QED BY <2>1, <2>2
<1> QED BY <1>7, <1>8, <1>10, <1>11

LEMMA CrashKeeps == ASSUME PriceInv, Crash PROVE PriceInv'
<1> USE DEF PriceInv, Crash, locals
<1>1. <<>> \in Seq(CallNames) /\ <<>> \in Seq(StepNames)
  OBVIOUS
<1>2. Typed' /\ Domains'
  BY <1>1 DEF Typed, Domains
<1>3. Ordered'
  BY DEF Ordered, GoodSteps, GoodCalls
<1>4. Issued' = Issued
  BY DEF Issued, Asked, CouponOf
<1>5. \A v \in Visits : NotOrdered(v)' <=> NotOrdered(v)
  BY NotOrderedStays
<1>6. ShopListed' /\ ReadListed' /\ Priced'
  BY <1>4, <1>5 DEF ShopListed, ReadListed, Priced
<1> QED BY <1>2, <1>3, <1>6

LEMMA StepKeeps == PriceInv /\ [Next]_vars => PriceInv'
<1> SUFFICES ASSUME PriceInv, [Next]_vars PROVE PriceInv'
  OBVIOUS
<1>1. CASE UNCHANGED vars
  <2>1. Issued' = Issued
    BY <1>1 DEF vars, Issued, Asked, CouponOf
  <2>2. \A v \in Visits : NotOrdered(v)' <=> NotOrdered(v)
    BY <1>1, NotOrderedStays DEF vars, locals
  <2> QED BY <1>1, <2>1, <2>2 DEF vars, locals, PriceInv, Typed, Domains, Ordered, ShopListed,
             ReadListed, Priced
<1>2. CASE Crash
  BY <1>2, CrashKeeps
<1>3. ASSUME NEW v \in Visits, Visit(v) PROVE PriceInv'
  BY <1>3, VisitKeeps
<1>4. ASSUME NEW v \in Visits, Handle(v) PROVE PriceInv'
  BY <1>4, LoadUserKeeps, LoadStoreKeeps, LoadPricesKeeps, LoadCouponKeeps, SavesKeep,
     AnswerKeeps DEF Handle
<1> QED BY <1>1, <1>2, <1>3, <1>4 DEF Next

\* LoadStore, SaveStore, doAddCoupon and calculateOrder: every order that is answered has
\* the prices of the list and at most a coupon that was asked for under its code, for all
\* users, visits, items, interleavings, torn files and crashes.  A purchase whose coupon
\* could not be sent or made it infinite is answered with an error and no order.
THEOREM OrdersPricedAsListed == Spec => []PricedAsListed
<1>1. PriceInv => PricedAsListed
  BY InvImplies
<1> QED BY <1>1, InitEstablishes, StepKeeps, PTL DEF Spec

-----------------------------------------------------------------------------
(* Bundles.                                                                *)

\* The basket g is f after m rounds.
Bundled(f, m, g) ==
  /\ g \in [Items -> Int]
  /\ g["pear"] = f["pear"] - 4 * m /\ g["banana"] = f["banana"] - 2 * m
  /\ g["fruitComboSet"] = f["fruitComboSet"] + m
  /\ \A i \in Items : i \in {"pear", "banana", "fruitComboSet"} \/ g[i] = f[i]

LEMMA AfterRoundsCounts ==
  ASSUME NEW b \in [Items -> Int], NEW k \in Int
  PROVE  Bundled(b, k, AfterRounds(b, k))
<1>1. {"pear", "banana", "fruitComboSet"} \subseteq Items
  BY ItemsAssumption
<1>2. \A i \in Items : b[i] \in Int /\ b[i] + k \in Int /\ b[i] - 4 * k \in Int /\ b[i] - 2 * k \in Int
  OBVIOUS
<1>3. DOMAIN AfterRounds(b, k) = Items
  BY DEF AfterRounds
<1>4. AfterRounds(b, k)["pear"] = b["pear"] - 4 * k
  BY <1>1 DEF AfterRounds
<1>5. AfterRounds(b, k)["banana"] = b["banana"] - 2 * k
  BY <1>1 DEF AfterRounds
<1>6. AfterRounds(b, k)["fruitComboSet"] = b["fruitComboSet"] + k
  BY <1>1 DEF AfterRounds
<1>7. \A i \in Items \ {"pear", "banana", "fruitComboSet"} : AfterRounds(b, k)[i] = b[i]
  BY <1>1 DEF AfterRounds
<1>8. AfterRounds(b, k) = [i \in Items |-> AfterRounds(b, k)[i]]
  BY DEF AfterRounds
<1> DEFINE after == AfterRounds(b, k)
<1> HIDE DEF after
<1>9. /\ after["pear"] \in Int /\ after["banana"] \in Int /\ after["fruitComboSet"] \in Int
      /\ \A i \in Items \ {"pear", "banana", "fruitComboSet"} : after[i] \in Int
  BY <1>1, <1>2, <1>4, <1>5, <1>6, <1>7 DEF after
<1>10. after \in [Items -> Int]
  BY <1>8, <1>9 DEF after
<1> QED BY <1>4, <1>5, <1>6, <1>7, <1>10 DEF Bundled, after

LEMMA RoundsEnd ==
  ASSUME NEW b \in [Items -> Int]
  PROVE  /\ Rounds(b) \in Nat /\ ~MoreRounds(AfterRounds(b, Rounds(b)))
         /\ Rounds(b) > 0 => MoreRounds(AfterRounds(b, Rounds(b) - 1))
<1> DEFINE p == b["pear"]
           n == b["banana"]
           most == IF p > 0 THEN p ELSE 0
           ends(k) == /\ ~MoreRounds(AfterRounds(b, k))
                      /\ k > 0 => MoreRounds(AfterRounds(b, k - 1))
<1>1. p \in Int /\ n \in Int
  BY ItemsAssumption
<1>2. \A k \in Int : MoreRounds(AfterRounds(b, k)) <=> p - 4 * k > 3 /\ n - 2 * k > 1
  BY ItemsAssumption DEF MoreRounds, AfterRounds
<1>3. \E k \in 0 .. most : ends(k)
  <2>1. CASE p > 3 /\ n > 1
    <3> DEFINE k == IF p \div 4 <= n \div 2 THEN p \div 4 ELSE n \div 2
    <3>1. k \in Int /\ 0 < k /\ k <= p
      BY <1>1, <2>1
    <3>2. ~(p - 4 * k > 3 /\ n - 2 * k > 1)
      BY <1>1, <2>1
    <3>3. p - 4 * (k - 1) > 3 /\ n - 2 * (k - 1) > 1
      BY <1>1, <2>1
    <3> HIDE DEF k
    <3>4. ends(k) /\ k \in 0 .. most
      BY <1>1, <1>2, <3>1, <3>2, <3>3
    <3> QED BY <3>4
  <2>2. CASE ~(p > 3 /\ n > 1)
    <3>1. ends(0) /\ 0 \in 0 .. most
      BY <1>1, <1>2, <2>2
    <3> QED BY <3>1
  <2> QED BY <2>1, <2>2
<1>4. Rounds(b) = CHOOSE k \in 0 .. most : ends(k)
  BY DEF Rounds
<1>5. Rounds(b) \in 0 .. most /\ ends(Rounds(b))
  <2> HIDE DEF ends, most
  <2> QED BY <1>3, <1>4
<1>6. most \in Nat
  BY <1>1
<1> QED BY <1>5, <1>6

\* recalculateBasket ends for every basket; doing it again, as calculateOrder does of a
\* basket that checkout has bundled, changes nothing, and no count falls below zero.
THEOREM BundlingSettles ==
  ASSUME NEW b \in [Items -> Int]
  PROVE  /\ recalculateBasket(b) \in [Items -> Int]
         /\ recalculateBasket(recalculateBasket(b)) = recalculateBasket(b)
         /\ \A i \in Items : b[i] >= 0 => recalculateBasket(b)[i] >= 0
<1> DEFINE k == Rounds(b)
           c == recalculateBasket(b)
<1>1. k \in Nat /\ ~MoreRounds(c) /\ (k > 0 => MoreRounds(AfterRounds(b, k - 1)))
  BY RoundsEnd DEF recalculateBasket
<1>2. c = AfterRounds(b, k)
  BY DEF recalculateBasket
<1> HIDE DEF c, k
<1>3. c \in [Items -> Int] /\ Bundled(b, k, c)
  <2>1. Bundled(b, k, c)
    BY <1>1, <1>2, AfterRoundsCounts
  <2> QED BY <2>1 DEF Bundled
<1>7. /\ b["pear"] \in Int /\ b["banana"] \in Int /\ b["fruitComboSet"] \in Int
      /\ c["pear"] \in Int /\ c["banana"] \in Int /\ c["fruitComboSet"] \in Int
  BY <1>3, ItemsAssumption
<1>4. \A i \in Items : b[i] >= 0 => c[i] >= 0
  <2>1. CASE k = 0
    <3>1. c["pear"] = b["pear"] /\ c["banana"] = b["banana"]
          /\ c["fruitComboSet"] = b["fruitComboSet"]
      BY <1>3, <1>7, <2>1 DEF Bundled
    <3> QED BY <1>3, <3>1 DEF Bundled
  <2>2. CASE k > 0
    <3> DEFINE a == AfterRounds(b, k - 1)
    <3>1. Bundled(b, k - 1, a) /\ MoreRounds(a)
      BY <1>1, <2>2, AfterRoundsCounts
    <3> HIDE DEF a
    <3>2. b["pear"] - 4 * (k - 1) > 3 /\ b["banana"] - 2 * (k - 1) > 1
      BY <3>1 DEF MoreRounds, Bundled
    <3>3. c["pear"] >= 0 /\ c["banana"] >= 0
      BY <1>1, <1>3, <1>7, <3>2 DEF Bundled
    <3>4. b["fruitComboSet"] >= 0 => c["fruitComboSet"] >= 0
      BY <1>1, <1>3, <1>7 DEF Bundled
    <3> QED BY <1>3, <3>3, <3>4 DEF Bundled
  <2> QED BY <1>1, <2>1, <2>2
<1>5. Rounds(c) = 0
  <2> DEFINE m == Rounds(c) - 1
             d == AfterRounds(c, m)
  <2>1. Rounds(c) \in Nat /\ (Rounds(c) > 0 => MoreRounds(d))
    BY <1>3, RoundsEnd
  <2> SUFFICES ASSUME Rounds(c) > 0 PROVE FALSE
    BY <2>1
  <2>2. m \in Nat
    BY <2>1
  <2>3. Bundled(c, m, d)
    BY <1>3, <2>2, AfterRoundsCounts
  <2>4. c["pear"] \in Int /\ c["banana"] \in Int
    BY <1>3, ItemsAssumption
  <2>5. MoreRounds(d)
    BY <2>1
  <2> HIDE DEF d, m
  <2>6. c["pear"] - 4 * m > 3 /\ c["banana"] - 2 * m > 1
    BY <2>3, <2>5 DEF MoreRounds, Bundled
  <2>7. MoreRounds(c)
    BY <2>2, <2>4, <2>6 DEF MoreRounds
  <2> QED BY <1>1, <2>7
<1>6. recalculateBasket(c) = c
  <2>1. Bundled(c, 0, AfterRounds(c, 0))
    BY <1>3, AfterRoundsCounts
  <2>2. \A i \in Items : AfterRounds(c, 0)[i] = c[i]
    <3> DEFINE d == AfterRounds(c, 0)
    <3> HIDE DEF d
    <3>1. d["pear"] = c["pear"] /\ d["banana"] = c["banana"]
          /\ d["fruitComboSet"] = c["fruitComboSet"]
      BY <1>7, <2>1 DEF Bundled, d
    <3> QED BY <2>1, <3>1 DEF Bundled, d
  <2>3. AfterRounds(c, 0) = c
    <3> DEFINE d == AfterRounds(c, 0)
    <3>1. d \in [Items -> Int]
      BY <2>1 DEF Bundled
    <3> HIDE DEF d
    <3>2. d = c
      BY <1>3, <2>2, <3>1 DEF d
    <3> QED BY <3>2 DEF d
  <2> QED BY <1>5, <2>3 DEF recalculateBasket
<1> QED BY <1>3, <1>4, <1>6 DEF c

-----------------------------------------------------------------------------
(* Accounts: what is left of a page and of a handler.                      *)

PageNames == CallNames \union {"shopPage", "addItemPage", "checkoutPage"}

LEMMA CallsLeftAre ==
  ASSUME NEW page \in PageNames, NEW c \in CallsLeft(page), c # <<>>
  PROVE  /\ Tail(c) \in CallsLeft(page) /\ Head(c) \in CallNames
         /\ Head(c) = "addItem" => page \in {"addItem", "addItemPage"}
         /\ Head(c) \in {"purchase", "createCoupon", "reset"} => page = Head(c)
         /\ page = "checkoutPage" =>
              \/ Head(c) = "basket" /\ Tail(c) = <<"checkout">>
              \/ Head(c) = "checkout" /\ Tail(c) = <<>>
<1> USE DEF CallsLeft, CallNames
<1>0. /\ Pages.shopPage = <<"listItems", "basket">> /\ Pages.checkoutPage = <<"basket", "checkout">>
      /\ Pages.addItemPage = <<"addItem", "listItems", "basket">>
  BY DEF Pages
<1>1. CASE page = "shopPage"
  <2>1. CASE c = <<"basket">> BY <1>1, <2>1
  <2>2. CASE c = <<"listItems", "basket">> BY <1>1, <2>2
  <2> QED BY <1>0, <1>1, <2>1, <2>2
<1>2. CASE page = "addItemPage"
  <2>1. CASE c = <<"basket">> BY <1>2, <2>1
  <2>2. CASE c = <<"listItems", "basket">> BY <1>2, <2>2
  <2>3. CASE c = <<"addItem", "listItems", "basket">>
    <3>1. Head(c) = "addItem" /\ Tail(c) = Pages.shopPage
      BY <1>0, <2>3
    <3> QED BY <1>2, <3>1
  <2> QED BY <1>0, <1>2, <2>1, <2>2, <2>3
<1>3. CASE page = "checkoutPage"
  <2>1. CASE c = <<"checkout">> BY <1>3, <2>1
  <2>2. CASE c = <<"basket", "checkout">> BY <1>3, <2>2
  <2> QED BY <1>0, <1>3, <2>1, <2>2
<1>4. CASE page \in CallNames
  <2>1. CallsLeft(page) = {<<>>, <<page>>} BY <1>4
  <2>2. c = <<page>> BY <2>1
  <2>3. Head(c) = page BY <2>2
  <2>4. Tail(c) = <<>> BY <2>2
  <2> HIDE DEF CallsLeft
  <2> QED BY <1>4, <2>1, <2>3, <2>4
<1> QED BY <1>1, <1>2, <1>3, <1>4 DEF PageNames

LEMMA CallsAre ==
  ASSUME NEW page \in PageNames
  PROVE  /\ Calls(page) \in CallsLeft(page) /\ Calls(page) # <<>>
         /\ page = "checkoutPage" => Head(Calls(page)) = "basket"
<1> USE DEF CallsLeft, Calls, Pages, CallNames
<1>1. CASE page = "shopPage" BY <1>1
<1>2. CASE page = "addItemPage" BY <1>2
<1>3. CASE page = "checkoutPage" BY <1>3
<1>4. CASE page \in CallNames BY <1>4
<1> QED BY <1>1, <1>2, <1>3, <1>4 DEF PageNames

LEMMA RestsOfCall ==
  ASSUME NEW call \in CallNames, NEW t \in Rests(call), t # <<>>
  PROVE  /\ Tail(t) \in Rests(call)
         /\ Head(t) = "TruncateUser" =>
              \/ call \in {"purchase", "addItem"} /\ t = ToSave /\ Tail(t) = ToWrite /\ Tail(Tail(t)) = <<>>
              \/ call = "reset" /\ Tail(t) = ToWriteBoth /\ Tail(Tail(t)) = ToSaveStore
         /\ Head(t) = "WriteUser" =>
              \/ call \in {"purchase", "addItem"} /\ Tail(t) = <<>>
              \/ call = "reset" /\ Tail(t) = ToSaveStore
         /\ Head(t) = "LoadUser" =>
              \/ call = "basket" /\ Tail(t) = <<>>
              \/ call = "checkout" /\ Tail(t) = ToFindPrice
              \/ call = "purchase" /\ Tail(t) = ToPrice
              \/ call = "addItem" /\ Tail(t) = ToSave
         /\ Head(t) = "LoadPrices" =>
              \/ call = "checkout" /\ Tail(t) = ToFindCoupon
              \/ call = "purchase" /\ t = ToPrice /\ Tail(t) = ToDiscount
         /\ Head(t) = "LoadCoupon" =>
              \/ call = "checkout" /\ Tail(t) = <<>>
              \/ call = "purchase" /\ t = ToDiscount /\ Tail(t) = ToSave
         /\ Head(t) = "LoadStore" =>
              call \in {"createCoupon", "listItems"} /\ Tail(t) \in {<<>>, ToSaveStore}
         /\ Head(t) = "TruncateStore" =>
              /\ call \in {"createCoupon", "reset"} /\ Tail(t) = ToWriteStore /\ Tail(Tail(t)) = <<>>
         /\ Head(t) = "WriteStore" => call \in {"createCoupon", "reset"} /\ Tail(t) = <<>>
<1> USE DEF Rests, Handlers, ToWrite, ToSave, ToDiscount, ToPrice, ToFindCoupon, ToFindPrice,
            ToWriteStore, ToSaveStore, ToWriteBoth
<1>1. CASE call = "basket"
  <2>1. t = <<"LoadUser">> BY <1>1
  <2>2. Head(t) = "LoadUser" /\ Tail(t) = <<>> BY <2>1
  <2>3. <<>> \in Rests(call) BY <1>1
  <2> HIDE DEF Rests
  <2> QED BY <1>1, <2>2, <2>3
<1>2. CASE call = "checkout"
  <2>1. CASE t = ToFindCoupon BY <1>2, <2>1
  <2>2. CASE t = ToFindPrice BY <1>2, <2>2
  <2>3. CASE t = Handlers.checkout
    <3>1. t = <<"LoadUser", "LoadPrices", "LoadCoupon">>
      BY <2>3
    <3>2. Head(t) = "LoadUser" /\ Tail(t) = ToFindPrice
      BY <3>1
    <3>3. ToFindPrice \in Rests(call)
      BY <1>2
    <3> HIDE DEF ToFindPrice, Rests
    <3> QED BY <1>2, <3>2, <3>3
  <2> QED BY <1>2, <2>1, <2>2, <2>3
<1>3. CASE call = "purchase"
  <2>1. CASE t = ToWrite BY <1>3, <2>1
  <2>2. CASE t = ToSave BY <1>3, <2>2
  <2>3. CASE t = ToDiscount BY <1>3, <2>3
  <2>4. CASE t = ToPrice BY <1>3, <2>4
  <2>5. CASE t = Handlers.purchase BY <1>3, <2>5
  <2> QED BY <1>3, <2>1, <2>2, <2>3, <2>4, <2>5
<1>4. CASE call = "addItem"
  <2>1. CASE t = ToWrite BY <1>4, <2>1
  <2>2. CASE t = ToSave BY <1>4, <2>2
  <2>3. CASE t = Handlers.addItem BY <1>4, <2>3
  <2> QED BY <1>4, <2>1, <2>2, <2>3
<1>5. CASE call = "createCoupon"
  <2>1. CASE t = ToWriteStore BY <1>5, <2>1
  <2>2. CASE t = ToSaveStore BY <1>5, <2>2
  <2>3. CASE t = Handlers.createCoupon BY <1>5, <2>3
  <2>4. CASE t = <<"LoadStore">> BY <1>5, <2>4
  <2> QED BY <1>5, <2>1, <2>2, <2>3, <2>4
<1>6. CASE call = "listItems"
  <2>1. t = <<"LoadStore">> BY <1>6
  <2>2. Head(t) = "LoadStore" /\ Tail(t) = <<>> BY <2>1
  <2>3. <<>> \in Rests(call) BY <1>6
  <2> HIDE DEF Rests
  <2> QED BY <1>6, <2>2, <2>3
<1>7. CASE call = "reset"
  <2>1. CASE t = ToWriteStore BY <1>7, <2>1
  <2>2. CASE t = ToSaveStore BY <1>7, <2>2
  <2>3. CASE t = ToWriteBoth BY <1>7, <2>3
  <2>4. CASE t = Handlers.reset BY <1>7, <2>4
  <2> QED BY <1>7, <2>1, <2>2, <2>3, <2>4
<1> QED BY <1>1, <1>2, <1>3, <1>4, <1>5, <1>6, <1>7 DEF CallNames

LEMMA RestsDiffer ==
  /\ <<>> \notin {ToPrice, ToDiscount, ToSave} /\ ToSaveStore \notin {ToPrice, ToDiscount, ToSave}
  /\ ToWrite \notin {ToPrice, ToDiscount, ToSave} /\ ToWriteBoth \notin {ToPrice, ToDiscount, ToSave}
  /\ ToWriteStore \notin {ToPrice, ToDiscount, ToSave}
  /\ ToFindPrice # <<>> /\ Head(ToFindPrice) = "LoadPrices"
  /\ ToFindCoupon # <<>> /\ Head(ToFindCoupon) = "LoadCoupon"
  /\ ToPrice # <<>> /\ Head(ToPrice) = "LoadPrices" /\ ToDiscount # <<>> /\ Head(ToDiscount) = "LoadCoupon"
  /\ ToSave # <<>> /\ Head(ToSave) = "TruncateUser"
  /\ ToWrite # <<>> /\ Head(ToWrite) = "WriteUser"
  /\ ToWriteBoth # <<>> /\ Head(ToWriteBoth) = "WriteUser"
  /\ ToSaveStore # <<>> /\ Head(ToSaveStore) = "TruncateStore"
  /\ ToWriteStore # <<>> /\ Head(ToWriteStore) = "WriteStore"
<1>1. /\ ToSave # <<>> /\ Head(ToSave) = "TruncateUser"
      /\ ToWrite # <<>> /\ Head(ToWrite) = "WriteUser"
      /\ ToWriteBoth # <<>> /\ Head(ToWriteBoth) = "WriteUser"
      /\ ToSaveStore # <<>> /\ Head(ToSaveStore) = "TruncateStore"
      /\ ToWriteStore # <<>> /\ Head(ToWriteStore) = "WriteStore"
  BY DEF ToWrite, ToSave, ToWriteStore, ToSaveStore, ToWriteBoth
<1>2. /\ ToFindPrice # <<>> /\ Head(ToFindPrice) = "LoadPrices"
      /\ ToFindCoupon # <<>> /\ Head(ToFindCoupon) = "LoadCoupon"
      /\ ToPrice # <<>> /\ Head(ToPrice) = "LoadPrices" /\ ToDiscount # <<>> /\ Head(ToDiscount) = "LoadCoupon"
  BY DEF ToDiscount, ToPrice, ToFindCoupon, ToFindPrice
<1> QED BY <1>1, <1>2

\* Where a handler starts.
LEMMA FirstSteps ==
  ASSUME NEW call \in CallNames, NEW a
  PROVE  /\ Steps(call, a) \in Rests(call)
         /\ Steps(call, a) # <<>> => Head(Steps(call, a)) # "WriteUser"
         /\ Steps(call, a) \notin {ToPrice, ToDiscount, ToSave}
         /\ call \in {"basket", "checkout"} => Steps(call, a) # <<>> /\ Head(Steps(call, a)) = "LoadUser"
         /\ call = "purchase" /\ ~Fails("purchase", a) => Steps(call, a) # <<>>
         /\ call = "addItem" /\ Steps(call, a) # <<>> => ~Fails("addItem", a)
<1> USE RestsDiffer DEF Steps, Fails, Rests, Handlers
<1>1. CASE call = "basket" BY <1>1
<1>2. CASE call = "checkout" BY <1>2
<1>3. CASE call = "purchase"
  <2>1. CASE Fails("purchase", a)
    BY <1>3, <2>1
  <2>2. CASE ~Fails("purchase", a)
    BY <1>3, <2>2
  <2> QED BY <2>1, <2>2
<1>4. CASE call = "addItem" BY <1>4
<1>5. CASE call = "createCoupon" BY <1>5
<1>6. CASE call = "listItems" BY <1>6
<1>7. CASE call = "reset"
  <2>1. Steps(call, a) = Handlers.reset /\ Head(Handlers.reset) = "TruncateUser"
    BY <1>7
  <2>2. Handlers.reset # <<>> /\ Handlers.reset \notin {ToPrice, ToDiscount}
    BY <2>1
  <2>3. Handlers.reset # ToSave
    <3>1. Tail(Handlers.reset) = ToWriteBoth /\ Tail(ToSave) = ToWrite
      BY DEF ToWriteBoth, ToSave, ToWrite
    <3>2. Tail(ToWriteBoth) = ToSaveStore /\ Tail(ToWrite) = <<>>
      BY DEF ToWriteBoth, ToWrite, ToSaveStore
    <3> HIDE DEF Handlers
    <3> QED BY <3>1, <3>2
  <2>4. Handlers.reset \in Rests(call)
    BY <1>7
  <2> HIDE DEF Handlers, Rests
  <2> QED BY <1>7, <2>1, <2>2, <2>3, <2>4
<1> QED BY <1>1, <1>2, <1>3, <1>4, <1>5, <1>6, <1>7 DEF CallNames

-----------------------------------------------------------------------------
(* What is asked for, ordered and saved.                                   *)

LEMMA VisitIs ==
  ASSUME PriceInv, OwnInv, NEW v \in Visits, Busy(v)
  PROVE  /\ visit[v] # None /\ visit[v].page \in PageNames /\ User(v) \in Users
         /\ calls[v] \in CallsLeft(visit[v].page) /\ calls[v] # <<>>
         /\ Call(v) \in CallNames /\ todo[v] \in Rests(Call(v))
         /\ Call(v) = "addItem" =>
              /\ visit[v].page \in {"addItem", "addItemPage"} /\ visit[v].item \in Items
              /\ todo[v] # <<>> /\ visit[v].page = "addItem" =>
                   visit[v].amount \in Int /\ (User(v) \in Careful => visit[v].amount \in Amounts)
         /\ Call(v) \in {"purchase", "createCoupon", "reset"} => visit[v].page = Call(v)
<1>1. calls[v] # <<>> /\ visit[v] # None /\ calls[v] \in CallsLeft(visit[v].page)
  BY DEF Busy, OwnInv, CallsInOrder
<1>2. PICK w \in Visits : visit[v] \in MayVisit[w]
  BY <1>1 DEF PriceInv, Typed, Wishes
<1>3. visit[v].page \in PageNames
  BY <1>2, VisitsAssumption DEF PageNames, CallNames, Handlers, Pages
<1>4. User(v) \in Users
  BY <1>2, RequestsAssumption DEF User
<1>5. /\ Call(v) \in CallNames
      /\ Call(v) = "addItem" => visit[v].page \in {"addItem", "addItemPage"}
      /\ Call(v) \in {"purchase", "createCoupon", "reset"} => visit[v].page = Call(v)
  BY <1>1, <1>3, CallsLeftAre DEF Call
<1>6. Call(v) = "addItem" =>
        /\ visit[v].item \in Items
        /\ todo[v] # <<>> /\ visit[v].page = "addItem" =>
             visit[v].amount \in Int /\ (User(v) \in Careful => visit[v].amount \in Amounts)
  BY <1>2, <1>5, RequestsAssumption DEF OwnInv, StepsInOrder, Fails, User
<1>7. todo[v] \in Rests(Call(v))
  BY DEF OwnInv, StepsInOrder
<1> QED BY <1>1, <1>3, <1>4, <1>5, <1>6, <1>7

LEMMA ListTyped == ListPrices \in Baskets
  BY DEF ListPrices, Baskets

LEMMA OrderTyped ==
  ASSUME NEW b \in Baskets, NEW c \in CouponSet \union {NoCoupon}
  PROVE  calculateOrder(ListPrices, b, c) \in Baskets
<1> DEFINE basket == recalculateBasket(b)
           line(i) == IF i = "apple" /\ basket[i] > 6 THEN (9 * basket[i] * ListPrices[i]) \div 10
                      ELSE basket[i] * ListPrices[i]
<1>1. basket \in [Items -> Int]
  BY BundlingSettles DEF Baskets
<1> HIDE DEF basket
<1>2. \A i \in Items : basket[i] \in Int /\ ListPrices[i] \in Int
  BY <1>1, ListTyped DEF Baskets
<1>3. \A i \in Items : line(i) \in Int
  <2> SUFFICES ASSUME NEW i \in Items PROVE line(i) \in Int
    OBVIOUS
  <2>1. 9 * basket[i] * ListPrices[i] \in Int /\ basket[i] * ListPrices[i] \in Int
    BY <1>2
  <2> DEFINE n == 9 * basket[i] * ListPrices[i]
  <2>2. n \div 10 \in Int
    <3>1. n \in Int BY <2>1
    <3> HIDE DEF n
    <3> QED BY <3>1
  <2> QED BY <2>1, <2>2
<1> HIDE DEF line
<1>4. \A i \in Items : ApplyCoupon(c, i, line(i)) \in Int
  <2> SUFFICES ASSUME NEW i \in Items PROVE ApplyCoupon(c, i, line(i)) \in Int
    OBVIOUS
  <2>1. c # NoCoupon => c.discount \in Int
    BY DEF CouponSet
  <2>2. CASE c = NoCoupon
    BY <1>3, <2>2 DEF ApplyCoupon
  <2>3. CASE c # NoCoupon
    <3> DEFINE n == line(i) * c.discount
    <3>1. n \in Int
      BY <1>3, <2>1, <2>3
    <3>2. n \div 10 \in Int
      <4> HIDE DEF n
      <4> QED BY <3>1
    <3> QED BY <1>3, <3>2 DEF ApplyCoupon
  <2> QED BY <2>2, <2>3
<1>5. calculateOrder(ListPrices, b, c) = [i \in Items |-> ApplyCoupon(c, i, line(i))]
  BY DEF calculateOrder, line, basket
<1> QED BY <1>4, <1>5 DEF Baskets

IssuedCoupons == {CouponOf(w) : w \in {x \in Visits : Asked(x)}}

LEMMA CouponsTyped == PriceInv => IssuedCoupons \subseteq Coupons
<1> SUFFICES ASSUME PriceInv, NEW w \in Visits, Asked(w) PROVE CouponOf(w) \in Coupons
  BY DEF IssuedCoupons
<1>1. PICK x \in Visits : visit[w] \in MayVisit[x]
  BY DEF PriceInv, Typed, Wishes, Asked
<1> QED BY <1>1, RequestsAssumption DEF Asked, Fails, CouponOf

LEMMA CouponIs ==
  ASSUME PriceInv, NEW v \in Visits
  PROVE  coupon[v] \in IssuedCoupons \union {NoCoupon} /\ coupon[v] \in CouponSet \union {NoCoupon}
<1>1. coupon[v] = NoCoupon \/ <<visit[v].coupon, coupon[v]>> \in Issued
  BY DEF PriceInv, ReadListed
<1>2. coupon[v] # NoCoupon => coupon[v] \in IssuedCoupons
  BY <1>1 DEF Issued, IssuedCoupons
<1> QED BY <1>2, CouponsTyped, RequestsAssumption

\* calculateOrder bundles what recalculateBasket has bundled.
LEMMA OrderIs ==
  ASSUME PriceInv, OwnInv, NEW v \in Visits
  PROVE  /\ loaded[v] \in Accounts /\ Order(v) \in Baskets
         /\ Order(v) = calculateOrder(ListPrices, loaded[v].basket, coupon[v])
<1>1. loaded[v] \in Accounts /\ loaded[v].basket \in Baskets
  BY DEF OwnInv, AccountsTyped, Accounts
<1>2. price[v] = ListPrices
  BY DEF PriceInv, ReadListed
<1>3. recalculateBasket(recalculateBasket(loaded[v].basket)) = recalculateBasket(loaded[v].basket)
  BY <1>1, BundlingSettles DEF Baskets
<1>4. Order(v) = calculateOrder(ListPrices, loaded[v].basket, coupon[v])
  BY <1>2, <1>3 DEF Order, calculateOrder
<1>5. calculateOrder(ListPrices, loaded[v].basket, coupon[v]) \in Baskets
  BY <1>1, CouponIs, OrderTyped
<1> QED BY <1>1, <1>4, <1>5

LEMMA BlankTyped == Empty \in Baskets /\ BlankUser \in Accounts
<1>1. Empty \in Baskets
  BY DEF Empty, Baskets
<1>2. <<>> \in Seq(Baskets)
  OBVIOUS
<1> QED BY <1>1, <1>2 DEF BlankUser, Accounts

LEMMA LoadTyped ==
  /\ \A file \in Accounts \union Broken : Load(file, BlankUser) \in Accounts
  /\ \A a \in Accounts : Load(a, BlankUser) = a /\ a \notin Broken
<1>1. \A a \in Accounts : a \notin Broken
  BY RequestsAssumption DEF Accounts
<1> QED BY <1>1, BlankTyped DEF Load, Broken

\* The three ways in which a handler changes an account.
AddedItem(a, b, amounts) == \E i \in Items, n \in amounts : b = [a EXCEPT !.basket[i] = @ + n]
OrderedAll(a, b) ==
  \E c \in IssuedCoupons \union {NoCoupon} :
    b = [basket |-> Empty, orders |-> Append(a.orders, calculateOrder(ListPrices, a.basket, c))]

LEMMA SavedIs ==
  ASSUME PriceInv, OwnInv, NEW v \in Visits, Busy(v), todo[v] # <<>>,
         Head(todo[v]) \in {"TruncateUser", "WriteUser"}
  PROVE  /\ UserToSave(v) \in Accounts
         /\ Call(v) \in {"purchase", "addItem", "reset"}
         /\ Call(v) = "purchase" => OrderedAll(loaded[v], UserToSave(v)) /\ UserToSave(v) = Purchased(v)
         /\ Call(v) = "addItem" => /\ User(v) \in Careful => AddedItem(loaded[v], UserToSave(v), Amounts)
                                   /\ UserToSave(v).orders = loaded[v].orders
         /\ Call(v) = "reset" => UserToSave(v) = BlankUser
<1>1. Call(v) \in {"purchase", "addItem", "reset"}
  BY VisitIs, RestsOfCall
<1>2. loaded[v] \in Accounts /\ loaded[v].orders \in Seq(Baskets) /\ loaded[v].basket \in [Items -> Int]
  BY OrderIs DEF Accounts, Baskets
<1>3. CASE Call(v) = "purchase"
  <2>1. UserToSave(v) = Purchased(v)
    BY <1>3 DEF UserToSave
  <2>2. Append(loaded[v].orders, Order(v)) \in Seq(Baskets)
    BY <1>2, OrderIs
  <2>3. Purchased(v) \in Accounts
    BY <2>2, BlankTyped DEF Purchased, Accounts
  <2>4. OrderedAll(loaded[v], Purchased(v))
    BY OrderIs, CouponIs DEF OrderedAll, Purchased
  <2> QED BY <1>3, <2>1, <2>3, <2>4
<1>4. CASE Call(v) = "addItem"
  <2> DEFINE n == IF visit[v].page = "addItemPage" THEN 1 ELSE visit[v].amount
             i == visit[v].item
             b == [loaded[v].basket EXCEPT ![i] = @ + n]
  <2>1. i \in Items /\ n \in Int /\ (User(v) \in Careful => n \in Amounts)
    BY <1>4, VisitIs, RequestsAssumption
  <2>2. UserToSave(v) = [loaded[v] EXCEPT !.basket[i] = @ + n]
    BY <1>4 DEF UserToSave, WithItem
  <2> HIDE DEF n, i
  <2>3. b \in Baskets
    BY <1>2, <2>1 DEF Baskets
  <2>4. UserToSave(v) = [loaded[v] EXCEPT !.basket = b]
    BY <1>2, <2>2 DEF Accounts
  <2>5. UserToSave(v) \in Accounts /\ UserToSave(v).orders = loaded[v].orders
    <3> HIDE DEF b
    <3> QED BY <1>2, <2>3, <2>4 DEF Accounts
  <2>6. User(v) \in Careful => AddedItem(loaded[v], UserToSave(v), Amounts)
    BY <2>1, <2>2 DEF AddedItem
  <2> QED BY <1>4, <2>5, <2>6
<1>5. CASE Call(v) = "reset"
  BY <1>5, BlankTyped DEF UserToSave
<1> QED BY <1>1, <1>3, <1>4, <1>5

-----------------------------------------------------------------------------
(* The account of a user who waits for his answers.                        *)

LEMMA AtIsBusy ==
  ASSUME OwnInv, NEW v \in Visits, NEW step, At(v, step)
  PROVE  Busy(v) /\ todo[v] # <<>> /\ Head(todo[v]) = step
  BY DEF OwnInv, StepsInOrder, At, Busy

LEMMA SaverIs ==
  OwnInv => \A v \in Visits :
    At(v, "WriteUser") /\ User(v) \in Careful => AccountOf(User(v)) = UserToSave(v)
<1> SUFFICES ASSUME OwnInv, NEW v \in Visits, At(v, "WriteUser"), User(v) \in Careful
             PROVE  AccountOf(User(v)) = UserToSave(v)
  OBVIOUS
<1> DEFINE saves(w) == At(w, "WriteUser") /\ User(w) = User(v)
<1>1. \A w \in Visits : saves(w) => w = v
  BY AtIsBusy DEF OwnInv, OneVisit
<1>2. saves(v)
  OBVIOUS
<1>3. (CHOOSE w \in Visits : saves(w)) = v
  <2> HIDE DEF saves
  <2> QED BY <1>1, <1>2
<1> QED BY <1>2, <1>3 DEF AccountOf

LEMMA NoSaver ==
  \A u \in Careful :
    (\A v \in Visits : ~(At(v, "WriteUser") /\ User(v) = u)) =>
      AccountOf(u) = Load(users[u], BlankUser)
  BY DEF AccountOf

LEMMA SaverNext ==
  OwnInv' => \A v \in Visits :
    At(v, "WriteUser")' /\ User(v)' \in Careful => AccountOf(User(v))' = UserToSave(v)'
<1>1. (OwnInv => \A v \in Visits :
    At(v, "WriteUser") /\ User(v) \in Careful => AccountOf(User(v)) = UserToSave(v))'
  BY SaverIs, PTL
<1> QED BY <1>1

LEMMA NoSaverNext ==
  \A u \in Careful :
    (\A v \in Visits : ~(At(v, "WriteUser")' /\ User(v)' = u)) =>
      AccountOf(u)' = Load(users'[u], BlankUser)
<1>1. (\A u \in Careful :
    (\A v \in Visits : ~(At(v, "WriteUser") /\ User(v) = u)) =>
      AccountOf(u) = Load(users[u], BlankUser))'
  BY NoSaver, PTL
<1> QED BY <1>1

\* A step of the visit v leaves the other ones as they are.
OnlyOf(v) ==
  /\ visit' = visit
  /\ \A w \in Visits \ {v} :
       /\ calls'[w] = calls[w] /\ todo'[w] = todo[w] /\ loaded'[w] = loaded[w]
       /\ price'[w] = price[w] /\ coupon'[w] = coupon[w] /\ shown'[w] = shown[w]
  /\ \A u \in Users : u # User(v) => users'[u] = users[u]

LEMMA SavesSame ==
  ASSUME NEW w \in Visits, visit'[w] = visit[w], calls'[w] = calls[w], loaded'[w] = loaded[w],
         price'[w] = price[w], coupon'[w] = coupon[w]
  PROVE  UserToSave(w)' = UserToSave(w) /\ User(w)' = User(w)
  BY DEF UserToSave, Purchased, WithItem, Order, Call, User

LEMMA OthersAccount ==
  ASSUME OwnInv, OwnInv', NEW v \in Visits, OnlyOf(v), NEW u \in Careful, u # User(v)
  PROVE  AccountOf(u)' = AccountOf(u)
<1>1. u \in Users /\ users'[u] = users[u]
  BY UsersAssumption DEF OnlyOf
<1>2. \A w \in Visits : User(w)' = User(w)
  BY DEF OnlyOf, User
<1>3. \A w \in Visits : User(w) = u =>
        /\ w # v /\ UserToSave(w)' = UserToSave(w)
        /\ At(w, "WriteUser")' <=> At(w, "WriteUser")
  <2> SUFFICES ASSUME NEW w \in Visits, User(w) = u
               PROVE  /\ w # v /\ UserToSave(w)' = UserToSave(w)
                      /\ At(w, "WriteUser")' <=> At(w, "WriteUser")
    OBVIOUS
  <2>1. w # v
    OBVIOUS
  <2>2. UserToSave(w)' = UserToSave(w)
    BY <2>1, SavesSame DEF OnlyOf
  <2> QED BY <2>1, <2>2 DEF OnlyOf, At
<1>4. CASE \E w \in Visits : At(w, "WriteUser") /\ User(w) = u
  <2> PICK w \in Visits : At(w, "WriteUser") /\ User(w) = u
    BY <1>4
  <2>1. AccountOf(u) = UserToSave(w)
    BY SaverIs
  <2>2. AccountOf(User(w))' = UserToSave(w)'
    BY <1>2, <1>3, SaverNext
  <2>3. AccountOf(User(w))' = AccountOf(u)'
    BY <1>2 DEF AccountOf
  <2> QED BY <1>3, <2>1, <2>2, <2>3
<1>5. CASE ~ \E w \in Visits : At(w, "WriteUser") /\ User(w) = u
  <2>1. AccountOf(u) = Load(users[u], BlankUser)
    BY <1>5, NoSaver
  <2>2. AccountOf(u)' = Load(users'[u], BlankUser)
    BY <1>2, <1>3, <1>5, NoSaverNext
  <2> QED BY <1>1, <2>1, <2>2
<1> QED BY <1>4, <1>5

\* A visit that is under way is the only one of its user.
LEMMA OwnAccount ==
  ASSUME OwnInv, NEW v \in Visits, Busy(v), User(v) \in Careful
  PROVE  AccountOf(User(v)) =
           IF At(v, "WriteUser") THEN UserToSave(v) ELSE Load(users[User(v)], BlankUser)
<1>1. \A w \in Visits : At(w, "WriteUser") /\ User(w) = User(v) => w = v
  BY AtIsBusy DEF OwnInv, OneVisit
<1> QED BY <1>1, SaverIs, NoSaver

LEMMA OwnAccountNext ==
  ASSUME OwnInv, OwnInv', NEW v \in Visits, Busy(v), User(v) \in Careful, OnlyOf(v)
  PROVE  AccountOf(User(v))' =
           IF At(v, "WriteUser")' THEN UserToSave(v)' ELSE Load(users'[User(v)], BlankUser)
<1>1. \A w \in Visits : User(w)' = User(w)
  BY DEF OnlyOf, User
<1>2. \A w \in Visits : At(w, "WriteUser")' /\ User(w) = User(v) => w = v
  <2> SUFFICES ASSUME NEW w \in Visits, At(w, "WriteUser")', User(w) = User(v), w # v PROVE FALSE
    OBVIOUS
  <2>1. At(w, "WriteUser")
    BY DEF OnlyOf, At
  <2> QED BY <2>1, AtIsBusy DEF OwnInv, OneVisit
<1>3. CASE At(v, "WriteUser")'
  BY <1>1, <1>3, SaverNext
<1>4. CASE ~At(v, "WriteUser")'
  <2> PICK u \in Careful : u = User(v)
    OBVIOUS
  <2>1. \A w \in Visits : ~(At(w, "WriteUser")' /\ User(w)' = u)
    BY <1>1, <1>2, <1>4
  <2>2. AccountOf(u)' = Load(users'[u], BlankUser)
    BY <2>1, NoSaverNext
  <2>3. AccountOf(User(v))' = AccountOf(u)'
    BY <1>1 DEF AccountOf
  <2> QED BY <1>4, <2>2, <2>3
<1> QED BY <1>3, <1>4

-----------------------------------------------------------------------------
(* OwnInv is inductive.                                                    *)

\* A handler goes on to the rest of its steps.
LEMMA GoesOn ==
  ASSUME PriceInv, OwnInv, NEW v \in Visits, Busy(v), todo[v] # <<>>,
         NEW rest, rest \in Rests(Call(v)), UNCHANGED <<visit, calls>>,
         todo' = [todo EXCEPT ![v] = rest]
  PROVE  /\ CallsInOrder' /\ StepsInOrder' /\ todo'[v] = rest
         /\ \A w \in Visits : w # v => todo'[w] = todo[w]
<1>1. todo'[v] = rest /\ \A w \in Visits : w # v => todo'[w] = todo[w]
  BY DEF PriceInv, Typed
<1>2. CallsInOrder'
  BY DEF OwnInv, CallsInOrder
<1>3. StepsInOrder'
  BY <1>1 DEF OwnInv, StepsInOrder, Busy, Call, Fails
<1> QED BY <1>1, <1>2, <1>3

LEMMA OwnKeeps ==
  ASSUME PriceInv, OwnInv, NEW v \in Visits, Busy(v), OnlyOf(v),
         CallsInOrder', StepsInOrder', AccountsTyped',
         User(v) \in Careful => users'[User(v)] # Mixed,
         At(v, "WriteUser")' /\ User(v) \in Careful => users'[User(v)] = NoBytes,
         Busy(v)' /\ User(v) \in Careful /\ HasRead(v)' =>
           loaded'[v] = Load(users'[User(v)], BlankUser)
  PROVE  OwnInv'
<1>1. \A w \in Visits : User(w)' = User(w) /\ (Busy(w)' => Busy(w))
  BY DEF OnlyOf, User, Busy
<1>2. OneVisit'
  BY <1>1 DEF OwnInv, OneVisit
<1>3. ASSUME NEW w \in Visits, w # v, Busy(w), User(w) \in Careful
      PROVE  users'[User(w)] = users[User(w)]
  <2>1. User(w) # User(v) /\ User(w) \in Users
    BY <1>3, UsersAssumption DEF OwnInv, OneVisit
  <2> QED BY <2>1 DEF OnlyOf
<1>4. FilesWhole'
  <2>1. ASSUME NEW u \in Careful PROVE users'[u] # Mixed
    BY UsersAssumption DEF OwnInv, FilesWhole, OnlyOf
  <2>2. ASSUME NEW w \in Visits, At(w, "WriteUser")', User(w) \in Careful
        PROVE  users'[User(w)] = NoBytes
    <3>1. CASE w = v
      BY <2>2, <3>1
    <3>2. CASE w # v
      <4>1. At(w, "WriteUser")
        BY <2>2, <3>2 DEF OnlyOf, At
      <4> QED BY <1>3, <2>2, <3>2, <4>1, AtIsBusy DEF OwnInv, FilesWhole
    <3> QED BY <3>1, <3>2
  <2> QED BY <1>1, <2>1, <2>2 DEF FilesWhole
<1>5. ReadsAreCurrent'
  <2> SUFFICES ASSUME NEW w \in Visits, Busy(w)', User(w) \in Careful, HasRead(w)'
               PROVE  loaded'[w] = Load(users'[User(w)], BlankUser)
    BY <1>1 DEF ReadsAreCurrent
  <2>1. CASE w = v
    BY <2>1
  <2>2. CASE w # v
    <3>1. HasRead(w) /\ Busy(w) /\ loaded'[w] = loaded[w]
      BY <2>2 DEF OnlyOf, HasRead, Call, At, Busy
    <3> QED BY <1>3, <2>2, <3>1 DEF OwnInv, ReadsAreCurrent
  <2> QED BY <2>1, <2>2
<1> QED BY <1>2, <1>4, <1>5 DEF OwnInv

LEMMA OwnLoadUser ==
  ASSUME PriceInv, OwnInv, NEW v \in Visits, LoadUser(v)
  PROVE  OwnInv' /\ OnlyOf(v) /\ ~At(v, "WriteUser")'
<1>1. Busy(v) /\ todo[v] # <<>> /\ Head(todo[v]) = "LoadUser"
  BY AtIsBusy DEF LoadUser
<1>2. User(v) \in Users /\ Call(v) \in CallNames /\ todo[v] \in Rests(Call(v))
  BY <1>1, VisitIs
<1> DEFINE rest == Tail(todo[v])
<1>3. rest \in Rests(Call(v))
  BY <1>1, <1>2, RestsOfCall
<1>4. PICK file \in Reads(users[User(v)], SavingUser(User(v))) :
        loaded' = [loaded EXCEPT ![v] = Load(file, BlankUser)]
  BY DEF LoadUser
<1>5. /\ todo' = [todo EXCEPT ![v] = rest]
      /\ UNCHANGED <<visit, calls, store, price, coupon, shown, users, shop, faults>>
  BY DEF LoadUser, Advance
<1> HIDE DEF rest
<1>6. CallsInOrder' /\ StepsInOrder' /\ todo'[v] = rest /\ \A w \in Visits : w # v => todo'[w] = todo[w]
  BY <1>1, <1>3, <1>5, GoesOn
<1>7. file \in Accounts \union Broken
  BY <1>2 DEF Reads, OwnInv, AccountsTyped, Broken
<1>8. loaded'[v] = Load(file, BlankUser) /\ \A w \in Visits : w # v => loaded'[w] = loaded[w]
  BY <1>4 DEF OwnInv, AccountsTyped
<1>9. AccountsTyped'
  BY <1>4, <1>5, <1>7, LoadTyped DEF OwnInv, AccountsTyped
<1>10. OnlyOf(v)
  BY <1>5, <1>6, <1>8 DEF OnlyOf
<1>11. User(v) \in Careful => file = users[User(v)]
  <2> SUFFICES ASSUME User(v) \in Careful PROVE ~SavingUser(User(v))
    BY DEF Reads
  <2>1. \A w \in Visits : Busy(w) /\ User(w) = User(v) => w = v
    BY <1>1 DEF OwnInv, OneVisit
  <2>2. ~At(v, "TruncateUser") /\ ~At(v, "WriteUser")
    BY <1>1 DEF At
  <2> QED BY <2>1, <2>2, AtIsBusy DEF SavingUser
<1>12. ~At(v, "WriteUser")'
  BY <1>1, <1>2, <1>6, RestsOfCall, RestsDiffer DEF rest, At
<1>13. User(v) \in Careful => users'[User(v)] # Mixed
  BY <1>5 DEF OwnInv, FilesWhole
<1> QED BY <1>1, <1>5, <1>6, <1>8, <1>9, <1>10, <1>11, <1>12, <1>13, OwnKeeps

\* A step that neither reads nor writes a user's file.
LEMMA OwnPasses ==
  ASSUME PriceInv, OwnInv, NEW v \in Visits, Busy(v), todo[v] # <<>>,
         NEW rest, rest \in Rests(Call(v)), rest = <<>> \/ Head(rest) # "WriteUser",
         UNCHANGED <<visit, calls, loaded, shown, users>>, faults' \in 0 .. MaxFaults,
         todo' = [todo EXCEPT ![v] = rest],
         \A w \in Visits : w # v => price'[w] = price[w] /\ coupon'[w] = coupon[w],
         HasRead(v)' => HasRead(v)
  PROVE  OwnInv' /\ OnlyOf(v) /\ ~At(v, "WriteUser")'
<1>1. CallsInOrder' /\ StepsInOrder' /\ todo'[v] = rest /\ \A w \in Visits : w # v => todo'[w] = todo[w]
  BY GoesOn
<1>2. OnlyOf(v)
  BY <1>1 DEF OnlyOf
<1>3. AccountsTyped'
  BY DEF OwnInv, AccountsTyped
<1>4. ~At(v, "WriteUser")'
  BY <1>1 DEF At
<1>5. User(v) \in Careful => users'[User(v)] # Mixed
  BY DEF OwnInv, FilesWhole
<1>6. User(v) \in Careful /\ HasRead(v)' => loaded'[v] = Load(users'[User(v)], BlankUser)
  BY DEF OwnInv, ReadsAreCurrent
<1> QED BY <1>1, <1>2, <1>3, <1>4, <1>5, <1>6, OwnKeeps

LEMMA OwnReads ==
  ASSUME PriceInv, OwnInv, NEW v \in Visits, LoadStore(v) \/ LoadPrices(v) \/ LoadCoupon(v)
  PROVE  OwnInv' /\ OnlyOf(v) /\ ~At(v, "WriteUser")'
<1> DEFINE rest == Tail(todo[v])
<1>1. /\ todo' = [todo EXCEPT ![v] = rest]
      /\ UNCHANGED <<visit, calls, loaded, shown, users, faults>>
      /\ \A w \in Visits : w # v => price'[w] = price[w] /\ coupon'[w] = coupon[w]
  BY DEF LoadStore, LoadPrices, LoadCoupon, Advance, PriceInv, Domains
<1>2. /\ Busy(v) /\ todo[v] # <<>>
      /\ \/ LoadStore(v) /\ Head(todo[v]) = "LoadStore"
         \/ LoadPrices(v) /\ Head(todo[v]) = "LoadPrices"
         \/ LoadCoupon(v) /\ Head(todo[v]) = "LoadCoupon"
  BY AtIsBusy DEF LoadStore, LoadPrices, LoadCoupon
<1>3. Call(v) \in CallNames /\ todo[v] \in Rests(Call(v))
  BY <1>2, VisitIs
<1>4. rest \in Rests(Call(v)) /\ (rest = <<>> \/ Head(rest) # "WriteUser")
  BY <1>2, <1>3, RestsOfCall, RestsDiffer
<1>5. HasRead(v)' => HasRead(v)
  <2>1. todo'[v] = rest /\ Call(v)' = Call(v)
    BY <1>1 DEF PriceInv, Typed, Call
  <2>2. CASE Head(todo[v]) = "LoadStore"
    <3>1. Call(v) \in {"createCoupon", "listItems"} /\ rest \in {<<>>, ToSaveStore}
      BY <1>2, <1>3, <2>2, RestsOfCall
    <3> HIDE DEF rest
    <3> QED BY <2>1, <3>1, RestsDiffer DEF HasRead
  <2>3. CASE Head(todo[v]) \in {"LoadPrices", "LoadCoupon"}
    <3>1. Call(v) = "checkout" \/ todo[v] \in {ToPrice, ToDiscount}
      BY <1>2, <1>3, <2>3, RestsOfCall
    <3>2. ~At(v, "LoadUser")
      BY <2>3 DEF At
    <3> QED BY <3>1, <3>2 DEF HasRead
  <2> QED BY <1>2, <2>2, <2>3
<1> HIDE DEF rest
<1>6. faults' \in 0 .. MaxFaults
  BY <1>1 DEF OwnInv, AccountsTyped
<1> QED BY <1>1, <1>2, <1>4, <1>5, <1>6, OwnPasses

LEMMA OwnStores ==
  ASSUME PriceInv, OwnInv, NEW v \in Visits, TruncateStore(v) \/ WriteStore(v)
  PROVE  OwnInv' /\ OnlyOf(v) /\ ~At(v, "WriteUser")'
<1>1. /\ UNCHANGED <<visit, calls, loaded, shown, users, price, coupon>>
      /\ Busy(v) /\ todo[v] # <<>> /\ faults' \in 0 .. MaxFaults
  <2>1. faults' = faults \/ (faults < MaxFaults /\ faults' = faults + 1)
    BY DEF TruncateStore, WriteStore
  <2>2. faults' \in 0 .. MaxFaults
    BY <2>1, UsersAssumption DEF OwnInv, AccountsTyped
  <2> QED BY <2>2, AtIsBusy DEF TruncateStore, WriteStore, Advance, locals
<1>2. Call(v) \in CallNames /\ todo[v] \in Rests(Call(v))
  BY <1>1, VisitIs
<1>3. PICK rest \in Rests(Call(v)) :
        /\ rest \in {<<>>, ToWriteStore} /\ Call(v) \in {"createCoupon", "reset"}
        /\ todo' = [todo EXCEPT ![v] = rest]
  <2>1. CASE TruncateStore(v)
    <3>1. todo[v] # <<>> /\ Head(todo[v]) = "TruncateStore"
      BY <2>1, AtIsBusy DEF TruncateStore
    <3>2. /\ Call(v) \in {"createCoupon", "reset"} /\ Tail(todo[v]) = ToWriteStore
          /\ Tail(Tail(todo[v])) = <<>> /\ Tail(todo[v]) \in Rests(Call(v))
      BY <1>2, <3>1, RestsOfCall
    <3>3. Tail(Tail(todo[v])) \in Rests(Call(v))
      BY <1>2, <3>2, RestsOfCall, RestsDiffer
    <3>4. todo' = [todo EXCEPT ![v] = Tail(@)] \/ todo' = [todo EXCEPT ![v] = Tail(Tail(@))]
      BY <2>1 DEF TruncateStore, Advance
    <3> QED BY <3>2, <3>3, <3>4
  <2>2. CASE WriteStore(v)
    <3>1. todo[v] # <<>> /\ Head(todo[v]) = "WriteStore"
      BY <2>2, AtIsBusy DEF WriteStore
    <3>2. /\ Call(v) \in {"createCoupon", "reset"} /\ Tail(todo[v]) = <<>>
          /\ Tail(todo[v]) \in Rests(Call(v))
      BY <1>2, <3>1, RestsOfCall
    <3>3. todo' = [todo EXCEPT ![v] = Tail(@)]
      BY <2>2 DEF WriteStore, Advance
    <3> QED BY <3>2, <3>3
  <2> QED BY <2>1, <2>2
<1>4. rest = <<>> \/ Head(rest) # "WriteUser"
  BY <1>3, RestsDiffer
<1>5. HasRead(v)' => HasRead(v)
  <2>1. todo'[v] = rest /\ Call(v)' = Call(v)
    BY <1>1, <1>3 DEF PriceInv, Typed, Call
  <2> QED BY <1>3, <2>1, RestsDiffer DEF HasRead
<1> QED BY <1>1, <1>3, <1>4, <1>5, OwnPasses

\* A handler truncates the file, or goes past it: the file cannot be opened, or the
\* order cannot be saved.
TruncatesNow(v) ==
  /\ Marshalled(v) /\ At(v, "TruncateUser") /\ Advance(v)
  /\ users' = [users EXCEPT ![User(v)] = NoBytes]
  /\ UNCHANGED <<visit, locals, shown, shop, faults>>
GoesPast(v) ==
  /\ At(v, "TruncateUser") /\ todo' = [todo EXCEPT ![v] = Tail(Tail(@))]
  /\ faults' = faults \/ (faults < MaxFaults /\ faults' = faults + 1)
  /\ faults' = faults => ~Marshalled(v)
  /\ UNCHANGED <<visit, calls, locals, shown, users, shop>>
LEMMA TruncateUserIs ==
  ASSUME OwnInv, NEW v, TruncateUser(v)
  PROVE  TruncatesNow(v) \/ GoesPast(v)
<1>1. faults + 1 # faults
  BY DEF OwnInv, AccountsTyped
<1> QED BY <1>1 DEF TruncateUser, TruncatesNow, GoesPast

LEMMA OwnTruncateFails ==
  ASSUME PriceInv, OwnInv, NEW v \in Visits, At(v, "TruncateUser"),
         faults' = faults \/ (faults < MaxFaults /\ faults' = faults + 1), todo' = [todo EXCEPT ![v] = Tail(Tail(@))],
         UNCHANGED <<visit, calls, locals, shown, users>>
  PROVE  OwnInv' /\ OnlyOf(v) /\ ~At(v, "WriteUser")'
<1>1. Busy(v) /\ todo[v] # <<>> /\ Head(todo[v]) = "TruncateUser"
  BY AtIsBusy
<1>2. Call(v) \in CallNames /\ todo[v] \in Rests(Call(v))
  BY <1>1, VisitIs
<1> DEFINE rest == Tail(Tail(todo[v]))
<1>3. /\ Call(v) \in {"purchase", "addItem", "reset"} /\ rest \in {<<>>, ToSaveStore}
      /\ Tail(todo[v]) # <<>> /\ Tail(todo[v]) \in Rests(Call(v))
  BY <1>1, <1>2, RestsOfCall, RestsDiffer
<1>4. rest \in Rests(Call(v))
  BY <1>2, <1>3, RestsOfCall
<1> HIDE DEF rest
<1>5. rest = <<>> \/ Head(rest) # "WriteUser"
  BY <1>3, RestsDiffer
<1>6. todo' = [todo EXCEPT ![v] = rest]
  BY DEF rest
<1>7. HasRead(v)' => HasRead(v)
  <2>1. todo'[v] = rest /\ Call(v)' = Call(v)
    BY <1>6 DEF PriceInv, Typed, Call
  <2> QED BY <1>3, <2>1, RestsDiffer DEF HasRead
<1>8. faults' \in 0 .. MaxFaults
  BY UsersAssumption DEF OwnInv, AccountsTyped
<1> QED BY <1>1, <1>4, <1>5, <1>6, <1>7, <1>8, OwnPasses DEF locals

LEMMA OwnTruncate ==
  ASSUME PriceInv, OwnInv, NEW v \in Visits, At(v, "TruncateUser"), Advance(v),
         users' = [users EXCEPT ![User(v)] = NoBytes],
         UNCHANGED <<visit, locals, shown, faults>>
  PROVE  OwnInv' /\ OnlyOf(v) /\ At(v, "WriteUser")'
<1>1. Busy(v) /\ todo[v] # <<>> /\ Head(todo[v]) = "TruncateUser"
  BY AtIsBusy
<1>2. Call(v) \in CallNames /\ todo[v] \in Rests(Call(v)) /\ User(v) \in Users
  BY <1>1, VisitIs
<1> DEFINE rest == Tail(todo[v])
<1>3. /\ Call(v) \in {"purchase", "addItem", "reset"} /\ rest \in {ToWrite, ToWriteBoth}
      /\ rest \in Rests(Call(v))
  BY <1>1, <1>2, RestsOfCall
<1>4. todo' = [todo EXCEPT ![v] = rest] /\ calls' = calls
  BY DEF Advance
<1> HIDE DEF rest
<1>5. CallsInOrder' /\ StepsInOrder' /\ todo'[v] = rest /\ \A w \in Visits : w # v => todo'[w] = todo[w]
  BY <1>1, <1>3, <1>4, GoesOn
<1>6. users'[User(v)] = NoBytes /\ \A u \in Users : u # User(v) => users'[u] = users[u]
  BY <1>2 DEF OwnInv, AccountsTyped
<1>7. OnlyOf(v)
  BY <1>4, <1>5, <1>6 DEF OnlyOf, locals
<1>8. AccountsTyped'
  BY DEF OwnInv, AccountsTyped, Broken, locals
<1>9. At(v, "WriteUser")' /\ ~HasRead(v)'
  <2>1. Call(v)' = Call(v)
    BY <1>4 DEF Call
  <2> QED BY <1>3, <1>5, <2>1, RestsDiffer DEF At, HasRead
<1>10. User(v) \in Careful => users'[User(v)] # Mixed
  BY <1>6, RequestsAssumption
<1> QED BY <1>1, <1>5, <1>6, <1>7, <1>8, <1>9, <1>10, OwnKeeps

LEMMA OwnWrite ==
  ASSUME PriceInv, OwnInv, NEW v \in Visits, WriteUser(v)
  PROVE  /\ OwnInv' /\ OnlyOf(v) /\ ~At(v, "WriteUser")'
         /\ users'[User(v)] \in {UserToSave(v), Mixed} \/ faults' = faults + 1
         /\ User(v) \in Careful => users'[User(v)] \in {UserToSave(v), NoBytes}
<1>1. Busy(v) /\ todo[v] # <<>> /\ Head(todo[v]) = "WriteUser" /\ At(v, "WriteUser")
  BY AtIsBusy DEF WriteUser
<1>2. Call(v) \in CallNames /\ todo[v] \in Rests(Call(v)) /\ User(v) \in Users
      /\ UserToSave(v) \in Accounts
  BY <1>1, VisitIs, SavedIs
<1> DEFINE rest == Tail(todo[v])
<1>3. /\ Call(v) \in {"purchase", "addItem", "reset"} /\ rest \in {<<>>, ToSaveStore}
      /\ rest \in Rests(Call(v))
  BY <1>1, <1>2, RestsOfCall
<1>4. todo' = [todo EXCEPT ![v] = rest] /\ UNCHANGED <<visit, calls, locals, shown, shop>>
  BY DEF WriteUser, Advance
<1> HIDE DEF rest
<1>5. CallsInOrder' /\ StepsInOrder' /\ todo'[v] = rest /\ \A w \in Visits : w # v => todo'[w] = todo[w]
  BY <1>1, <1>3, <1>4, GoesOn
<1>6. PICK file : /\ users' = [users EXCEPT ![User(v)] = file]
                  /\ \/ file \in Written(users[User(v)], UserToSave(v)) /\ faults' = faults
                     \/ /\ file = IF users[User(v)] = NoBytes THEN NoBytes ELSE Mixed
                        /\ faults < MaxFaults /\ faults' = faults + 1
  <2>1. CASE (\E file \in Written(users[User(v)], UserToSave(v)) :
                users' = [users EXCEPT ![User(v)] = file]) /\ UNCHANGED faults
    BY <2>1
  <2>2. CASE faults < MaxFaults /\ faults' = faults + 1
             /\ users' = [users EXCEPT ![User(v)] = IF @ = NoBytes THEN @ ELSE Mixed]
    BY <2>2
  <2> QED BY <2>1, <2>2 DEF WriteUser
<1>7. users'[User(v)] = file /\ \A u \in Users : u # User(v) => users'[u] = users[u]
  BY <1>2, <1>6 DEF OwnInv, AccountsTyped
<1>8. file \in Accounts \union Broken
  BY <1>2, <1>6 DEF Written, Broken
<1>9. AccountsTyped'
  <2>1. faults' \in 0 .. MaxFaults
    BY <1>6, UsersAssumption DEF OwnInv, AccountsTyped
  <2> QED BY <1>4, <1>6, <1>8, <2>1 DEF OwnInv, AccountsTyped, locals
<1>10. OnlyOf(v)
  BY <1>4, <1>5, <1>7 DEF OnlyOf, locals
<1>11. ~At(v, "WriteUser")' /\ ~HasRead(v)'
  <2>1. Call(v)' = Call(v)
    BY <1>4 DEF Call
  <2> QED BY <1>3, <1>5, <2>1, RestsDiffer DEF At, HasRead
<1>12. User(v) \in Careful => file \in {UserToSave(v), NoBytes}
  <2>1. User(v) \in Careful => users[User(v)] = NoBytes
    BY <1>1 DEF OwnInv, FilesWhole
  <2> QED BY <1>6, <2>1 DEF Written
<1>13. User(v) \in Careful => users'[User(v)] # Mixed
  BY <1>2, <1>7, <1>12, LoadTyped, RequestsAssumption DEF Broken
<1>14. OwnInv'
  BY <1>1, <1>5, <1>9, <1>10, <1>11, <1>13, OwnKeeps
<1>15. users'[User(v)] \in {UserToSave(v), Mixed} \/ faults' = faults + 1
  BY <1>6, <1>7 DEF Written
<1> QED BY <1>7, <1>10, <1>11, <1>12, <1>14, <1>15

LEMMA OwnAnswer ==
  ASSUME PriceInv, OwnInv, NEW v \in Visits, Answer(v)
  PROVE  OwnInv' /\ OnlyOf(v) /\ ~At(v, "WriteUser")'
<1> DEFINE left == Tail(calls[v])
           steps == Begin(left, visit[v])
<1>1. /\ Busy(v) /\ todo[v] = <<>>
      /\ calls' = [calls EXCEPT ![v] = left] /\ todo' = [todo EXCEPT ![v] = steps]
      /\ shown' = [shown EXCEPT ![v] = With(@, Call(v), Reply(v))]
      /\ UNCHANGED <<visit, locals, users, shop, faults>>
  BY DEF Answer
<1>2. visit[v].page \in PageNames /\ calls[v] \in CallsLeft(visit[v].page) /\ calls[v] # <<>>
      /\ visit[v] # None
  BY <1>1, VisitIs
<1>3. left \in CallsLeft(visit[v].page) /\ (left # <<>> => Head(left) \in CallNames)
  BY <1>2, CallsLeftAre
<1>4. /\ left = <<>> => steps = <<>>
      /\ left # <<>> =>
           /\ steps \in Rests(Head(left)) /\ (steps # <<>> => Head(steps) # "WriteUser")
           /\ steps \notin {ToPrice, ToDiscount, ToSave}
           /\ Head(left) \in {"basket", "checkout"} => steps # <<>> /\ Head(steps) = "LoadUser"
           /\ Head(left) = "addItem" /\ steps # <<>> => ~Fails("addItem", visit[v])
  BY <1>3, FirstSteps DEF Begin
<1> HIDE DEF left, steps
<1>5. /\ calls'[v] = left /\ todo'[v] = steps
      /\ \A w \in Visits : w # v => calls'[w] = calls[w] /\ todo'[w] = todo[w] /\ shown'[w] = shown[w]
  BY <1>1 DEF PriceInv, Typed, Domains
<1>6. OnlyOf(v)
  BY <1>1, <1>5 DEF OnlyOf, locals
<1>7. CallsInOrder'
  BY <1>1, <1>2, <1>3, <1>5 DEF OwnInv, CallsInOrder
<1>8. StepsInOrder'
  BY <1>1, <1>4, <1>5 DEF OwnInv, StepsInOrder, Busy, Call
<1>9. AccountsTyped'
  BY <1>1 DEF OwnInv, AccountsTyped, locals
<1>10. ~At(v, "WriteUser")'
  BY <1>4, <1>5 DEF At
<1>11. Busy(v)' => ~HasRead(v)'
  BY <1>4, <1>5 DEF Busy, Call, HasRead, At
<1>12. User(v) \in Careful => users'[User(v)] # Mixed
  BY <1>1 DEF OwnInv, FilesWhole
<1> QED BY <1>1, <1>6, <1>7, <1>8, <1>9, <1>10, <1>11, <1>12, OwnKeeps

LEMMA OwnVisit ==
  ASSUME PriceInv, OwnInv, NEW v \in Visits, Visit(v)
  PROVE  /\ OwnInv' /\ \A w \in Visits : At(w, "WriteUser")' <=> At(w, "WriteUser")
         /\ \A w \in Visits \ {v} : visit'[w] = visit[w] /\ calls'[w] = calls[w] /\ todo'[w] = todo[w]
         /\ visit'[v].page = "checkoutPage" => Head(calls'[v]) = "basket"
         /\ todo'[v] = <<>> =>
              /\ Head(calls'[v]) # "checkout"
              /\ Head(calls'[v]) = "purchase" => Fails("purchase", visit'[v])
<1>1. PICK a \in MayVisit[v] :
        /\ a.user \in Careful => \A w \in Visits : Busy(w) => User(w) # a.user
        /\ visit' = [visit EXCEPT ![v] = a]
        /\ calls' = [calls EXCEPT ![v] = Calls(a.page)]
        /\ todo' = [todo EXCEPT ![v] = Begin(Calls(a.page), a)]
  BY DEF Visit
<1>2. visit[v] = None /\ UNCHANGED <<locals, shown, users, shop, faults>>
  BY DEF Visit
<1> DEFINE left == Calls(a.page)
           steps == Begin(left, a)
<1>3. a.page \in PageNames /\ a # None
  BY VisitsAssumption DEF PageNames, CallNames, Handlers, Pages
<1>4. /\ left \in CallsLeft(a.page) /\ left # <<>> /\ Head(left) \in CallNames
      /\ a.page = "checkoutPage" => Head(left) = "basket"
  BY <1>3, CallsAre, CallsLeftAre
<1>5. /\ steps \in Rests(Head(left)) /\ (steps # <<>> => Head(steps) # "WriteUser")
      /\ steps \notin {ToPrice, ToDiscount, ToSave}
      /\ Head(left) \in {"basket", "checkout"} => steps # <<>> /\ Head(steps) = "LoadUser"
      /\ Head(left) = "purchase" /\ ~Fails("purchase", a) => steps # <<>>
      /\ Head(left) = "addItem" /\ steps # <<>> => ~Fails("addItem", a)
  BY <1>4, FirstSteps DEF Begin
<1> HIDE DEF left, steps
<1>6. /\ visit'[v] = a /\ calls'[v] = left /\ todo'[v] = steps
      /\ \A w \in Visits : w # v => visit'[w] = visit[w] /\ calls'[w] = calls[w] /\ todo'[w] = todo[w]
  BY <1>1 DEF PriceInv, Typed, left, steps
<1>7. calls[v] = <<>> /\ todo[v] = <<>>
  BY <1>2 DEF OwnInv, CallsInOrder, StepsInOrder
<1>8. CallsInOrder' /\ StepsInOrder'
  <2>1. CallsInOrder'
    BY <1>3, <1>4, <1>6 DEF OwnInv, CallsInOrder
  <2>2. StepsInOrder'
    BY <1>4, <1>5, <1>6 DEF OwnInv, StepsInOrder, Busy, Call
  <2> QED BY <2>1, <2>2
<1>9. AccountsTyped'
  BY <1>2 DEF OwnInv, AccountsTyped, locals
<1>10. \A w \in Visits : At(w, "WriteUser")' <=> At(w, "WriteUser")
  BY <1>5, <1>6, <1>7 DEF At
<1>11. \A w \in Visits : w # v => User(w)' = User(w) /\ Busy(w)' = Busy(w)
  BY <1>6 DEF User, Busy
<1>12. OneVisit'
  <2> SUFFICES ASSUME NEW w \in Visits, NEW x \in Visits, Busy(w)', Busy(x)',
                      User(w)' = User(x)', User(w)' \in Careful, w # x
               PROVE  FALSE
    BY DEF OneVisit
  <2>0. User(v)' = a.user
    BY <1>6 DEF User
  <2>1. CASE w = v
    BY <1>1, <1>11, <2>0, <2>1
  <2>2. CASE x = v
    BY <1>1, <1>11, <2>0, <2>2
  <2>3. CASE w # v /\ x # v
    BY <1>11, <2>3 DEF OwnInv, OneVisit
  <2> QED BY <2>1, <2>2, <2>3
<1>13. FilesWhole'
  <2>1. \A w \in Visits : At(w, "WriteUser") => w # v
    BY <1>7 DEF At
  <2> QED BY <1>2, <1>10, <1>11, <2>1 DEF OwnInv, FilesWhole
<1>14. ReadsAreCurrent'
  <2>1. ~HasRead(v)'
    BY <1>5, <1>6 DEF HasRead, Call, At
  <2>2. \A w \in Visits : w # v => (HasRead(w)' <=> HasRead(w))
    BY <1>6 DEF HasRead, Call, At
  <2> QED BY <1>2, <1>11, <2>1, <2>2 DEF OwnInv, ReadsAreCurrent, locals
<1>15. visit'[v].page = "checkoutPage" => Head(calls'[v]) = "basket"
  BY <1>4, <1>6
<1>16. todo'[v] = <<>> =>
          /\ Head(calls'[v]) # "checkout"
          /\ Head(calls'[v]) = "purchase" => Fails("purchase", visit'[v])
  BY <1>5, <1>6
<1>17. OwnInv'
  BY <1>8, <1>9, <1>12, <1>13, <1>14 DEF OwnInv
<1> QED BY <1>6, <1>10, <1>15, <1>16, <1>17

LEMMA OwnCrash ==
  ASSUME OwnInv, Crash
  PROVE  OwnInv' /\ \A v \in Visits : ~At(v, "WriteUser")'
<1>1. /\ \A v \in Visits : calls'[v] = <<>> /\ todo'[v] = <<>>
      /\ UNCHANGED <<visit, locals, shown, users, shop>>
      /\ faults < MaxFaults /\ faults' = faults + 1
  BY DEF Crash
<1>2. \A v \in Visits : ~At(v, "WriteUser")' /\ ~Busy(v)'
  BY <1>1 DEF At, Busy
<1>3. AccountsTyped'
  BY <1>1, UsersAssumption DEF OwnInv, AccountsTyped, locals
<1>4. CallsInOrder'
  <2>1. \A page : <<>> \in CallsLeft(page)
    BY DEF CallsLeft
  <2> QED BY <1>1, <2>1 DEF CallsInOrder
<1>5. StepsInOrder' /\ OneVisit' /\ ReadsAreCurrent'
  BY <1>1, <1>2 DEF StepsInOrder, OneVisit, ReadsAreCurrent
<1>6. FilesWhole'
  BY <1>1, <1>2 DEF OwnInv, FilesWhole
<1> QED BY <1>2, <1>3, <1>4, <1>5, <1>6 DEF OwnInv

LEMMA OwnInit == Init => OwnInv
<1> SUFFICES ASSUME Init PROVE OwnInv
  OBVIOUS
<1>1. AccountsTyped
  BY BlankTyped, UsersAssumption DEF Init, AccountsTyped, Broken
<1>2. CallsInOrder /\ StepsInOrder /\ OneVisit /\ ReadsAreCurrent
  BY DEF Init, CallsInOrder, StepsInOrder, OneVisit, ReadsAreCurrent, Busy
<1>3. FilesWhole
  BY UsersAssumption, RequestsAssumption DEF Init, FilesWhole, At
<1> QED BY <1>1, <1>2, <1>3 DEF OwnInv

LEMMA OwnNext == PriceInv /\ OwnInv /\ [Next]_vars => OwnInv'
<1> SUFFICES ASSUME PriceInv, OwnInv, [Next]_vars PROVE OwnInv'
  OBVIOUS
<1>1. CASE UNCHANGED vars
  BY <1>1 DEF vars, locals, OwnInv, AccountsTyped, CallsInOrder, StepsInOrder, OneVisit, FilesWhole,
              ReadsAreCurrent, HasRead, Busy, Call, At, User
<1>2. CASE Crash
  BY <1>2, OwnCrash
<1>3. ASSUME NEW v \in Visits, Visit(v) PROVE OwnInv'
  BY <1>3, OwnVisit
<1>4. ASSUME NEW v \in Visits, LoadUser(v) PROVE OwnInv'
  BY <1>4, OwnLoadUser
<1>5. ASSUME NEW v \in Visits, LoadStore(v) \/ LoadPrices(v) \/ LoadCoupon(v) PROVE OwnInv'
  BY <1>5, OwnReads
<1>6. ASSUME NEW v \in Visits, TruncateUser(v) PROVE OwnInv'
  <2>1. CASE TruncatesNow(v)
    BY <2>1, OwnTruncate DEF TruncatesNow
  <2>2. CASE GoesPast(v)
    BY <2>2, OwnTruncateFails DEF GoesPast
  <2> QED BY <1>6, <2>1, <2>2, TruncateUserIs
<1>7. ASSUME NEW v \in Visits, WriteUser(v) PROVE OwnInv'
  BY <1>7, OwnWrite
<1>8. ASSUME NEW v \in Visits, TruncateStore(v) \/ WriteStore(v) PROVE OwnInv'
  BY <1>8, OwnStores
<1>9. ASSUME NEW v \in Visits, Answer(v) PROVE OwnInv'
  BY <1>9, OwnAnswer
<1> QED BY <1>1, <1>2, <1>3, <1>4, <1>5, <1>6, <1>7, <1>8, <1>9 DEF Next, Handle

LEMMA OwnHolds == Spec => [](PriceInv /\ OwnInv)
<1>1. Init => PriceInv /\ OwnInv
  BY InitEstablishes, OwnInit
<1>2. (PriceInv /\ OwnInv) /\ [Next]_vars => (PriceInv /\ OwnInv)'
  BY StepKeeps, OwnNext
<1> QED BY <1>1, <1>2, PTL DEF Spec

-----------------------------------------------------------------------------
(* What each step does to the accounts.                                    *)

\* The steps that neither truncate nor write a user's file.
Passing(v) ==
  LoadUser(v) \/ LoadStore(v) \/ LoadPrices(v) \/ LoadCoupon(v) \/ TruncateStore(v)
  \/ WriteStore(v) \/ Answer(v)

LEMMA PassingIs ==
  ASSUME PriceInv, OwnInv, NEW v \in Visits, Passing(v)
  PROVE  /\ OwnInv' /\ OnlyOf(v) /\ Busy(v) /\ users' = users
         /\ ~At(v, "WriteUser") /\ ~At(v, "WriteUser")'
<1>1. OwnInv' /\ OnlyOf(v) /\ ~At(v, "WriteUser")'
  BY OwnLoadUser, OwnReads, OwnStores, OwnAnswer DEF Passing
<1>2. users' = users
  BY DEF Passing, LoadUser, LoadStore, LoadPrices, LoadCoupon, TruncateStore, WriteStore, Answer
<1>3. Busy(v) /\ ~At(v, "WriteUser")
  <2>1. CASE Answer(v)
    BY <2>1 DEF Answer, At
  <2>2. CASE ~Answer(v)
    <3>1. PICK step \in StepNames \ {"WriteUser"} : At(v, step)
      BY <2>2 DEF Passing, LoadUser, LoadStore, LoadPrices, LoadCoupon, TruncateStore, WriteStore, StepNames
    <3> QED BY <3>1, AtIsBusy DEF At
  <2> QED BY <2>1, <2>2
<1> QED BY <1>1, <1>2, <1>3

LEMMA PassingKeepsAccounts ==
  ASSUME PriceInv, OwnInv, NEW v \in Visits, Passing(v), NEW u \in Careful
  PROVE  AccountOf(u)' = AccountOf(u)
<1>1. /\ OwnInv' /\ OnlyOf(v) /\ Busy(v) /\ users' = users
      /\ ~At(v, "WriteUser") /\ ~At(v, "WriteUser")'
  BY PassingIs
<1>2. CASE u # User(v)
  BY <1>1, <1>2, OthersAccount
<1>3. CASE u = User(v)
  <2>1. AccountOf(u) = Load(users[u], BlankUser)
    BY <1>1, <1>3, OwnAccount
  <2>2. AccountOf(User(v))' = Load(users'[u], BlankUser)
    BY <1>1, <1>3, OwnAccountNext
  <2>3. AccountOf(User(v))' = AccountOf(u)'
    BY <1>1, <1>3 DEF AccountOf, OnlyOf, User
  <2> QED BY <1>1, <2>1, <2>2, <2>3
<1> QED BY <1>2, <1>3

LEMMA VisitKeepsAccounts ==
  ASSUME PriceInv, OwnInv, NEW v \in Visits, Visit(v), NEW u \in Careful
  PROVE  AccountOf(u)' = AccountOf(u)
<1>1. /\ OwnInv' /\ \A w \in Visits : At(w, "WriteUser")' <=> At(w, "WriteUser")
      /\ \A w \in Visits \ {v} : visit'[w] = visit[w] /\ calls'[w] = calls[w] /\ todo'[w] = todo[w]
  BY OwnVisit
<1>2. visit[v] = None /\ UNCHANGED <<locals, shown, users, shop, faults>>
  BY DEF Visit
<1>3. ~At(v, "WriteUser")
  BY <1>2 DEF OwnInv, CallsInOrder, StepsInOrder, At
<1>4. \A w \in Visits : At(w, "WriteUser") => UserToSave(w)' = UserToSave(w) /\ User(w)' = User(w)
  <2> SUFFICES ASSUME NEW w \in Visits, At(w, "WriteUser")
               PROVE  UserToSave(w)' = UserToSave(w) /\ User(w)' = User(w)
    OBVIOUS
  <2>1. w # v
    BY <1>3
  <2> QED BY <1>1, <1>2, <2>1, SavesSame DEF locals
<1>5. CASE \E w \in Visits : At(w, "WriteUser") /\ User(w) = u
  <2> PICK w \in Visits : At(w, "WriteUser") /\ User(w) = u
    BY <1>5
  <2>1. AccountOf(u) = UserToSave(w)
    BY SaverIs
  <2>2. AccountOf(User(w))' = UserToSave(w)'
    BY <1>1, <1>4, SaverNext
  <2>3. AccountOf(User(w))' = AccountOf(u)'
    BY <1>4 DEF AccountOf
  <2> QED BY <1>4, <2>1, <2>2, <2>3
<1>6. CASE ~ \E w \in Visits : At(w, "WriteUser") /\ User(w) = u
  <2>1. AccountOf(u) = Load(users[u], BlankUser)
    BY <1>6, NoSaver
  <2>2. AccountOf(u)' = Load(users'[u], BlankUser)
    BY <1>1, <1>4, <1>6, NoSaverNext
  <2> QED BY <1>2, <2>1, <2>2
<1> QED BY <1>5, <1>6

\* A request acts on the account when it truncates the file: what it saves is made of
\* what it has read, and that is the account.
LEMMA TruncateActs ==
  ASSUME PriceInv, OwnInv, NEW v \in Visits, At(v, "TruncateUser"), Advance(v),
         users' = [users EXCEPT ![User(v)] = NoBytes],
         UNCHANGED <<visit, locals, shown, faults>>, NEW u \in Careful
  PROVE  /\ u # User(v) => AccountOf(u)' = AccountOf(u)
         /\ u = User(v) =>
              /\ AccountOf(u)' = UserToSave(v)
              /\ \/ Call(v) = "purchase" /\ OrderedAll(AccountOf(u), UserToSave(v))
                 \/ /\ Call(v) = "addItem" /\ AddedItem(AccountOf(u), UserToSave(v), Amounts)
                    /\ UserToSave(v).orders = AccountOf(u).orders
                 \/ Call(v) = "reset" /\ UserToSave(v) = BlankUser
<1>1. OwnInv' /\ OnlyOf(v) /\ At(v, "WriteUser")'
  BY OwnTruncate
<1>2. Busy(v) /\ todo[v] # <<>> /\ Head(todo[v]) = "TruncateUser" /\ ~At(v, "WriteUser")
  BY AtIsBusy DEF At
<1>3. u # User(v) => AccountOf(u)' = AccountOf(u)
  BY <1>1, OthersAccount
<1>4. ASSUME u = User(v)
      PROVE  /\ AccountOf(u)' = UserToSave(v)
             /\ \/ Call(v) = "purchase" /\ OrderedAll(AccountOf(u), UserToSave(v))
                \/ /\ Call(v) = "addItem" /\ AddedItem(AccountOf(u), UserToSave(v), Amounts)
                   /\ UserToSave(v).orders = AccountOf(u).orders
                \/ Call(v) = "reset" /\ UserToSave(v) = BlankUser
  <2>1. AccountOf(u) = Load(users[u], BlankUser)
    BY <1>2, <1>4, OwnAccount
  <2>2. AccountOf(User(v))' = UserToSave(v)'
    BY <1>1, <1>2, <1>4, OwnAccountNext
  <2>3. AccountOf(User(v))' = AccountOf(u)'
    BY <1>4 DEF AccountOf, User
  <2>4. UserToSave(v)' = UserToSave(v)
    BY SavesSame DEF Advance, locals
  <2>5. Call(v) \in {"purchase", "addItem"} => loaded[v] = AccountOf(u)
    <3>1. Call(v) \in {"purchase", "addItem"} => todo[v] = ToSave
      BY <1>2, VisitIs, RestsOfCall
    <3> QED BY <1>2, <1>4, <2>1, <3>1 DEF OwnInv, ReadsAreCurrent, HasRead
  <2>6. /\ Call(v) \in {"purchase", "addItem", "reset"}
        /\ Call(v) = "purchase" => OrderedAll(loaded[v], UserToSave(v))
        /\ Call(v) = "addItem" => /\ AddedItem(loaded[v], UserToSave(v), Amounts)
                                  /\ UserToSave(v).orders = loaded[v].orders
        /\ Call(v) = "reset" => UserToSave(v) = BlankUser
    BY <1>2, <1>4, SavedIs
  <2>7. AccountOf(u)' = UserToSave(v)
    BY <2>2, <2>3, <2>4
  <2>8. CASE Call(v) = "purchase"
    BY <2>5, <2>6, <2>7, <2>8
  <2>9. CASE Call(v) = "addItem"
    BY <2>5, <2>6, <2>7, <2>9
  <2>10. CASE Call(v) = "reset"
    BY <2>6, <2>7, <2>10
  <2> QED BY <2>6, <2>8, <2>9, <2>10
<1> QED BY <1>3, <1>4

LEMMA TruncateFailsSo ==
  ASSUME PriceInv, OwnInv, NEW v \in Visits, At(v, "TruncateUser"),
         faults' = faults \/ (faults < MaxFaults /\ faults' = faults + 1), todo' = [todo EXCEPT ![v] = Tail(Tail(@))],
         UNCHANGED <<visit, calls, locals, shown, users>>, NEW u \in Careful
  PROVE  AccountOf(u)' = AccountOf(u)
<1>1. OwnInv' /\ OnlyOf(v) /\ ~At(v, "WriteUser")'
  BY OwnTruncateFails
<1>2. Busy(v) /\ ~At(v, "WriteUser")
  BY AtIsBusy DEF At
<1>3. CASE u # User(v)
  BY <1>1, <1>3, OthersAccount
<1>4. CASE u = User(v)
  <2>1. AccountOf(u) = Load(users[u], BlankUser)
    BY <1>2, <1>4, OwnAccount
  <2>2. AccountOf(User(v))' = Load(users'[u], BlankUser)
    BY <1>1, <1>2, <1>4, OwnAccountNext
  <2>3. AccountOf(User(v))' = AccountOf(u)'
    BY <1>4 DEF AccountOf, User
  <2> QED BY <2>1, <2>2, <2>3
<1> QED BY <1>3, <1>4

\* A write that succeeds leaves the account as it is, and one that fails loses it.
LEMMA WriteSaves ==
  ASSUME PriceInv, OwnInv, NEW v \in Visits, WriteUser(v), NEW u \in Careful
  PROVE  /\ u # User(v) => AccountOf(u)' = AccountOf(u)
         /\ u = User(v) =>
              \/ AccountOf(u)' = AccountOf(u) /\ faults' = faults
              \/ AccountOf(u)' = BlankUser /\ faults' = faults + 1
<1>1. /\ OwnInv' /\ OnlyOf(v) /\ ~At(v, "WriteUser")'
      /\ User(v) \in Careful => users'[User(v)] \in {UserToSave(v), NoBytes}
      /\ users'[User(v)] \in {UserToSave(v), Mixed} \/ faults' = faults + 1
  BY OwnWrite
<1>2. Busy(v) /\ At(v, "WriteUser") /\ todo[v] # <<>> /\ Head(todo[v]) = "WriteUser"
  BY AtIsBusy DEF WriteUser
<1>3. u # User(v) => AccountOf(u)' = AccountOf(u)
  BY <1>1, OthersAccount
<1>4. ASSUME u = User(v)
      PROVE  \/ AccountOf(u)' = AccountOf(u) /\ faults' = faults
             \/ AccountOf(u)' = BlankUser /\ faults' = faults + 1
  <2>1. AccountOf(u) = UserToSave(v)
    BY <1>2, <1>4, OwnAccount
  <2>2. AccountOf(User(v))' = Load(users'[u], BlankUser)
    BY <1>1, <1>2, <1>4, OwnAccountNext
  <2>3. AccountOf(User(v))' = AccountOf(u)'
    BY <1>1, <1>4 DEF AccountOf, OnlyOf, User
  <2>4. UserToSave(v) \in Accounts /\ Load(UserToSave(v), BlankUser) = UserToSave(v)
    BY <1>2, SavedIs, LoadTyped
  <2>5. CASE faults' = faults
    <3>1. faults' # faults + 1
      BY <2>5 DEF OwnInv, AccountsTyped
    <3>2. users'[u] = UserToSave(v)
      BY <1>1, <1>4, <3>1, RequestsAssumption
    <3> QED BY <2>1, <2>2, <2>3, <2>4, <2>5, <3>2
  <2>6. CASE faults' # faults
    <3>1. faults' = faults + 1 /\ users'[u] \in {NoBytes, Mixed}
      <4>1. \/ faults' = faults + 1 /\ users' = [users EXCEPT ![User(v)] = IF @ = NoBytes THEN @ ELSE Mixed]
        BY <2>6 DEF WriteUser
      <4>2. User(v) \in Users
        BY UsersAssumption, <1>4
      <4> QED BY <4>1, <4>2, <1>4 DEF OwnInv, AccountsTyped
    <3>2. Load(users'[u], BlankUser) = BlankUser
      BY <3>1 DEF Load
    <3> QED BY <2>2, <2>3, <3>1, <3>2
  <2> QED BY <2>5, <2>6
<1> QED BY <1>3, <1>4

\* A crash loses the accounts whose files have no bytes yet.
LEMMA CrashLoses ==
  ASSUME PriceInv, OwnInv, Crash, NEW u \in Careful
  PROVE  AccountOf(u)' = IF \E v \in Visits : At(v, "WriteUser") /\ User(v) = u THEN BlankUser
                         ELSE AccountOf(u)
<1>1. OwnInv' /\ users' = users /\ \A v \in Visits : ~At(v, "WriteUser")'
  BY OwnCrash DEF Crash
<1>2. AccountOf(u)' = Load(users[u], BlankUser)
  BY <1>1, NoSaverNext
<1>3. CASE \E v \in Visits : At(v, "WriteUser") /\ User(v) = u
  <2>1. users[u] = NoBytes
    BY <1>3 DEF OwnInv, FilesWhole
  <2> QED BY <1>2, <1>3, <2>1 DEF Load
<1>4. CASE ~ \E v \in Visits : At(v, "WriteUser") /\ User(v) = u
  BY <1>2, <1>4, NoSaver
<1> QED BY <1>3, <1>4

-----------------------------------------------------------------------------
(* The shop implements an account each.                                    *)

LEMMA Outcomes ==
  /\ Account!NoAccount = BlankUser
  /\ \A a, b : AddedItem(a, b, Amounts) => b \in Account!Added(a)
  /\ \A a, b : OrderedAll(a, b) => b \in Account!Ordered(a)
<1>1. Account!NoAccount = BlankUser
  BY DEF Account!NoAccount, Account!Empty, BlankUser, Empty
<1>2. \A a, b : AddedItem(a, b, Amounts) => b \in Account!Added(a)
  BY DEF AddedItem, Account!Added
<1>3. \A a, b : OrderedAll(a, b) => b \in Account!Ordered(a)
  <2>1. \A p, b, c : Account!calculateOrder(p, b, c) = calculateOrder(p, b, c)
    BY DEF Account!calculateOrder, Account!recalculateBasket, Account!AfterRounds, Account!Rounds,
           Account!MoreRounds, Account!ApplyCoupon, calculateOrder, recalculateBasket, AfterRounds,
           Rounds, MoreRounds, ApplyCoupon
  <2>2. Account!ListPrices = ListPrices /\ Account!Empty = Empty
    BY DEF Account!ListPrices, ListPrices, Account!Empty, Empty
  <2> QED BY <2>1, <2>2 DEF OrderedAll, Account!Ordered, IssuedCoupons
<1> QED BY <1>1, <1>2, <1>3

LEMMA ActsOn ==
  ASSUME NEW u \in Careful, NEW outcomes, AccountOf(u)' \in outcomes,
         \A w \in Careful : w # u => AccountOf(w)' = AccountOf(w),
         visit' = visit, faults' = faults
  PROVE  Account!Act(u, outcomes)
<1>1. IssuedCoupons' = IssuedCoupons
  BY DEF IssuedCoupons, Asked, CouponOf, Fails
<1> DEFINE account == [w \in Careful |-> AccountOf(w)]
<1>2. account'[u] \in outcomes /\ account' = [account EXCEPT ![u] = account'[u]]
  OBVIOUS
<1> QED BY <1>1, <1>2 DEF Account!Act, IssuedCoupons

LEMMA FaultLoses ==
  ASSUME NEW lost \in SUBSET Careful, visit' = visit, faults' = faults + 1,
         \A u \in Careful : AccountOf(u)' = IF u \in lost THEN BlankUser ELSE AccountOf(u)
  PROVE  Account!Fault(lost)
<1>1. IssuedCoupons' = IssuedCoupons
  BY DEF IssuedCoupons, Asked, CouponOf, Fails
<1> QED BY <1>1, Outcomes DEF Account!Fault, IssuedCoupons

LEMMA PassesBy ==
  ASSUME \A u \in Careful : AccountOf(u)' = AccountOf(u), visit' = visit,
         faults' = faults \/ faults' = faults + 1
  PROVE  [Account!Next]_<<[u \in Careful |-> AccountOf(u)], IssuedCoupons, faults>>
<1>1. IssuedCoupons' = IssuedCoupons
  BY DEF IssuedCoupons, Asked, CouponOf, Fails
<1>2. CASE faults' = faults
  BY <1>1, <1>2
<1>3. CASE faults' = faults + 1
  <2>1. Account!Fault({})
    BY <1>3, FaultLoses
  <2> QED BY <2>1 DEF Account!Next
<1> QED BY <1>2, <1>3

\* A visit may issue a coupon.
LEMMA VisitAsks ==
  ASSUME PriceInv, PriceInv', OwnInv, NEW v \in Visits, Visit(v)
  PROVE  [Account!Next]_<<[u \in Careful |-> AccountOf(u)], IssuedCoupons, faults>>
<1>1. /\ visit[v] = None /\ faults' = faults
      /\ \A w \in Visits \ {v} : visit'[w] = visit[w]
      /\ \A u \in Careful : AccountOf(u)' = AccountOf(u)
  BY OwnVisit, VisitKeepsAccounts DEF Visit
<1>2. \A w \in Visits \ {v} : (Asked(w)' <=> Asked(w)) /\ CouponOf(w)' = CouponOf(w)
  BY <1>1 DEF Asked, CouponOf, Fails
<1>3. ~Asked(v)
  BY <1>1 DEF Asked
<1>4. CASE Asked(v)'
  <2>1. IssuedCoupons' = IssuedCoupons \union {CouponOf(v)'}
    BY <1>2, <1>3, <1>4 DEF IssuedCoupons
  <2>2. IssuedCoupons' \subseteq Coupons
    <3>1. (PriceInv => IssuedCoupons \subseteq Coupons)'
      BY CouponsTyped, PTL
    <3> QED BY <3>1
  <2>3. PICK c \in Coupons : c = CouponOf(v)'
    BY <2>1, <2>2
  <2>4. Account!Ask(c)
    BY <1>1, <2>1, <2>3 DEF Account!Ask, IssuedCoupons
  <2> QED BY <2>4 DEF Account!Next
<1>5. CASE ~Asked(v)'
  <2>1. IssuedCoupons' = IssuedCoupons
    BY <1>2, <1>3, <1>5 DEF IssuedCoupons
  <2> QED BY <1>1, <2>1
<1> QED BY <1>4, <1>5

LEMMA StutterKeepsAccounts == UNCHANGED vars => \A u \in Careful : AccountOf(u)' = AccountOf(u)
  BY DEF AccountOf, At, User, UserToSave, Purchased, WithItem, Order, Call, vars, locals

LEMMA AccountsStep ==
  PriceInv /\ PriceInv' /\ OwnInv /\ [Next]_vars =>
    [Account!Next]_<<[u \in Careful |-> AccountOf(u)], IssuedCoupons, faults>>
<1> DEFINE step == [Account!Next]_<<[u \in Careful |-> AccountOf(u)], IssuedCoupons, faults>>
<1> SUFFICES ASSUME PriceInv, PriceInv', OwnInv, [Next]_vars PROVE step
  OBVIOUS
<1>1. CASE UNCHANGED vars
  BY <1>1, StutterKeepsAccounts, PassesBy DEF vars
<1>2. CASE Crash
  <2> DEFINE lost == {u \in Careful : \E v \in Visits : At(v, "WriteUser") /\ User(v) = u}
  <2>1. \A u \in Careful : AccountOf(u)' = IF u \in lost THEN BlankUser ELSE AccountOf(u)
    BY <1>2, CrashLoses
  <2>2. lost \in SUBSET Careful /\ visit' = visit /\ faults' = faults + 1
    BY <1>2 DEF Crash
  <2> HIDE DEF lost
  <2>3. Account!Fault(lost)
    BY <2>1, <2>2, FaultLoses
  <2> QED BY <2>2, <2>3 DEF Account!Next
<1>3. ASSUME NEW v \in Visits, Visit(v) PROVE step
  BY <1>3, VisitAsks
<1>4. ASSUME NEW v \in Visits, Passing(v) PROVE step
  <2>1. visit' = visit /\ (faults' = faults \/ faults' = faults + 1)
    BY <1>4 DEF Passing, LoadUser, LoadStore, LoadPrices, LoadCoupon, TruncateStore, WriteStore, Answer
  <2> QED BY <1>4, <2>1, PassingKeepsAccounts, PassesBy
<1>5. ASSUME NEW v \in Visits, TruncateUser(v) PROVE step
  <2>2. CASE TruncatesNow(v)
    <3>1. \A u \in Careful : u # User(v) => AccountOf(u)' = AccountOf(u)
      BY <2>2, TruncateActs DEF TruncatesNow
    <3>0. visit' = visit /\ faults' = faults
      BY <2>2 DEF TruncatesNow
    <3>2. CASE User(v) \notin Careful
      BY <3>0, <3>1, <3>2, PassesBy
    <3>3. CASE User(v) \in Careful
      <4> PICK u \in Careful : u = User(v)
        BY <3>3
      <4>1. \/ OrderedAll(AccountOf(u), AccountOf(u)')
            \/ AddedItem(AccountOf(u), AccountOf(u)', Amounts)
            \/ AccountOf(u)' = BlankUser
        BY <2>2, TruncateActs DEF TruncatesNow
      <4>2. CASE OrderedAll(AccountOf(u), AccountOf(u)')
        <5>1. AccountOf(u)' \in Account!Ordered(AccountOf(u))
          BY <4>2, Outcomes
        <5>2. Account!Act(u, Account!Ordered(AccountOf(u)))
          BY <3>0, <3>1, <5>1, ActsOn
        <5> QED BY <5>2 DEF Account!Purchase, Account!Next
      <4>3. CASE AddedItem(AccountOf(u), AccountOf(u)', Amounts)
        <5>1. AccountOf(u)' \in Account!Added(AccountOf(u))
          BY <4>3, Outcomes
        <5>2. Account!Act(u, Account!Added(AccountOf(u)))
          BY <3>0, <3>1, <5>1, ActsOn
        <5> QED BY <5>2 DEF Account!Add, Account!Next
      <4>4. CASE AccountOf(u)' = BlankUser
        <5>1. Account!Act(u, {Account!NoAccount})
          BY <3>0, <3>1, <4>4, Outcomes, ActsOn
        <5> QED BY <5>1 DEF Account!StartOver, Account!Next
      <4> QED BY <4>1, <4>2, <4>3, <4>4
    <3> QED BY <3>2, <3>3
  <2>3. CASE GoesPast(v)
    <3>1. \A u \in Careful : AccountOf(u)' = AccountOf(u)
      BY <2>3, TruncateFailsSo DEF GoesPast
    <3> QED BY <2>3, <3>1, PassesBy DEF GoesPast
  <2> QED BY <1>5, <2>2, <2>3, TruncateUserIs
<1>6. ASSUME NEW v \in Visits, WriteUser(v) PROVE step
  <2>1. visit' = visit /\ (faults' = faults \/ faults' = faults + 1)
    BY <1>6 DEF WriteUser
  <2>2. \A u \in Careful : u # User(v) => AccountOf(u)' = AccountOf(u)
    BY <1>6, WriteSaves
  <2>3. CASE \A u \in Careful : AccountOf(u)' = AccountOf(u)
    BY <2>1, <2>3, PassesBy
  <2>4. CASE ~ \A u \in Careful : AccountOf(u)' = AccountOf(u)
    <3> PICK u \in Careful : AccountOf(u)' # AccountOf(u)
      BY <2>4
    <3>1. u = User(v)
      BY <2>2
    <3>2. AccountOf(u)' = BlankUser /\ faults' = faults + 1
      BY <1>6, <3>1, WriteSaves
    <3>3. Account!Fault({u})
      BY <2>1, <2>2, <3>1, <3>2, FaultLoses
    <3> QED BY <3>3 DEF Account!Next
  <2> QED BY <2>3, <2>4
<1> QED BY <1>1, <1>2, <1>3, <1>4, <1>5, <1>6 DEF Next, Handle, Passing

LEMMA AccountsStart == Init => Account!Init
<1> SUFFICES ASSUME Init PROVE Account!Init
  OBVIOUS
<1>1. \A u \in Careful : AccountOf(u) = BlankUser
  <2>1. \A v \in Visits : ~At(v, "WriteUser")
    BY DEF Init, At
  <2> QED BY <2>1, NoSaver, UsersAssumption DEF Init, Load
<1>2. {CouponOf(v) : v \in {w \in Visits : Asked(w)}} = {}
  BY DEF Init, Asked
<1> QED BY <1>1, <1>2, Outcomes DEF Init, Account!Init

\* To every user who waits for his answers the shop is an account on which each
\* request acts at once and as a whole, whatever the others do, whatever fails.
THEOREM AnAccountForEach == Spec => AnAccountEach
<1>1. PriceInv /\ PriceInv' /\ OwnInv /\ [Next]_vars =>
        [Account!Next]_<<[u \in Careful |-> AccountOf(u)],
                         {CouponOf(v) : v \in {w \in Visits : Asked(w)}}, faults>>
  BY AccountsStep DEF IssuedCoupons
<1> QED BY <1>1, AccountsStart, OwnHolds, PTL DEF Spec, AnAccountEach, Account!Spec

-----------------------------------------------------------------------------
(* What the pages show.                                                    *)

\* What another visit does changes nothing that a page of this one is about.
LEMMA OthersCheckOut ==
  ASSUME OwnInv, CheckingOut, NEW v \in Visits, Busy(v), OnlyOf(v), NEW w \in Visits, w # v
  PROVE  ChecksOut(w)'
<1>1. /\ visit' = visit /\ calls'[w] = calls[w] /\ todo'[w] = todo[w] /\ coupon'[w] = coupon[w]
      /\ shown'[w] = shown[w]
  BY DEF OnlyOf
<1>2. ChecksOut(w)
  BY DEF CheckingOut
<1>3. Busy(w) /\ User(w) \in Careful => users'[User(w)] = users[User(w)]
  BY UsersAssumption DEF OnlyOf, OwnInv, OneVisit
<1> QED BY <1>1, <1>2, <1>3 DEF ChecksOut, PageLines, Busy, Call, User

\* The lines of an order without a coupon.
LEMMA LinesAre ==
  ASSUME NEW b \in Baskets, NEW i \in Items
  PROVE  calculateOrder(ListPrices, b, NoCoupon)[i] =
           LET count == recalculateBasket(b)[i]
               listed == count * ListPrices[i]
           IN IF i = "apple" /\ count > 6 THEN (listed * 9) \div 10 ELSE listed
<1> DEFINE count == recalculateBasket(b)[i]
           p == ListPrices[i]
<1>1. count \in Int /\ p \in Int
  BY BundlingSettles, ListTyped DEF Baskets
<1>2. calculateOrder(ListPrices, b, NoCoupon)[i] =
        IF i = "apple" /\ count > 6 THEN (9 * count * p) \div 10 ELSE count * p
  BY DEF calculateOrder, ApplyCoupon
<1>3. 9 * count * p = (count * p) * 9
  <2> HIDE DEF count, p
  <2> QED BY <1>1
<1> QED BY <1>2, <1>3

LEMMA AnswerChecksOut ==
  ASSUME PriceInv, OwnInv, CheckingOut, NEW v \in Visits, Answer(v)
  PROVE  ChecksOut(v)'
<1> DEFINE left == Tail(calls[v])
           steps == Begin(left, visit[v])
<1>1. /\ Busy(v) /\ todo[v] = <<>> /\ calls'[v] = left /\ todo'[v] = steps
      /\ shown'[v] = With(shown[v], Call(v), Reply(v))
      /\ UNCHANGED <<visit, locals, users, shop, faults>>
  BY DEF Answer, PriceInv, Typed, Domains
<1>2. visit[v].page \in PageNames /\ calls[v] \in CallsLeft(visit[v].page) /\ calls[v] # <<>>
  BY <1>1, VisitIs
<1>3. /\ left # <<>> => Head(left) \in CallNames
      /\ visit[v].page = "checkoutPage" =>
           \/ Call(v) = "basket" /\ left = <<"checkout">>
           \/ Call(v) = "checkout" /\ left = <<>>
  BY <1>2, CallsLeftAre DEF Call
<1>4. left # <<>> /\ Head(left) = "checkout" => steps # <<>>
  BY <1>3, FirstSteps DEF Begin
<1> HIDE DEF left, steps
<1>5. Busy(v)' => left # <<>> /\ Call(v)' = Head(left)
  BY <1>1 DEF Busy, Call
<1>6. Busy(v)' /\ Call(v)' = "checkout" => todo'[v] # <<>>
  BY <1>1, <1>4, <1>5
<1>7. DOMAIN shown'[v] = DOMAIN shown[v] \union {Call(v)} /\ shown'[v][Call(v)] = Reply(v)
      /\ \A call \in DOMAIN shown[v] : call # Call(v) => shown'[v][call] = shown[v][call]
  BY <1>1 DEF With
<1>8. ~At(v, "LoadUser")
  BY <1>1 DEF At
<1>9. ASSUME visit[v].page = "checkoutPage", User(v) \in Careful, Busy(v)', Call(v)' = "checkout"
      PROVE  /\ "basket" \in DOMAIN shown'[v]
             /\ shown'[v]["basket"] = recalculateBasket(Load(users[User(v)], BlankUser).basket)
  <2>1. Call(v) = "basket"
    BY <1>3, <1>5, <1>9
  <2>2. loaded[v] = Load(users[User(v)], BlankUser)
    BY <1>1, <1>8, <1>9, <2>1 DEF OwnInv, ReadsAreCurrent, HasRead
  <2>3. Reply(v) = recalculateBasket(loaded[v].basket)
    BY <2>1 DEF Reply, Fails, Marshalled
  <2> QED BY <1>7, <2>1, <2>2, <2>3
<1>10. ASSUME visit[v].page = "checkoutPage", User(v) \in Careful, "checkout" \in DOMAIN shown'[v]
       PROVE  PageLines(v)'
  <2>1. "checkout" \notin DOMAIN shown[v]
    BY <1>1 DEF PriceInv, Priced, Busy, Orders
  <2>2. Call(v) = "checkout"
    BY <1>7, <1>10, <2>1
  <2>3. coupon[v] = NoCoupon /\ visit[v] # None /\ ChecksOut(v)
    BY <1>1, <2>2, VisitIs DEF CheckingOut, ChecksOut
  <2>4. /\ "basket" \in DOMAIN shown[v]
        /\ shown[v]["basket"] = recalculateBasket(Load(users[User(v)], BlankUser).basket)
    BY <1>1, <1>10, <2>2, <2>3 DEF ChecksOut
  <2>5. loaded[v] = Load(users[User(v)], BlankUser)
    BY <1>1, <1>8, <1>10, <2>2 DEF OwnInv, ReadsAreCurrent, HasRead
  <2>6. loaded[v].basket \in Baskets /\ Order(v) = calculateOrder(ListPrices, loaded[v].basket, NoCoupon)
    BY <2>3, OrderIs DEF Accounts
  <2>7. Reply(v) = Order(v)
    BY <2>2 DEF Reply, Fails, Marshalled
  <2>8. /\ shown'[v]["checkout"] = calculateOrder(ListPrices, loaded[v].basket, NoCoupon)
        /\ shown'[v]["basket"] = recalculateBasket(loaded[v].basket)
    BY <1>7, <2>2, <2>4, <2>5, <2>6, <2>7
  <2> QED BY <2>6, <2>8, LinesAre DEF PageLines
<1> QED BY <1>1, <1>6, <1>9, <1>10 DEF ChecksOut, User

\* Of the steps of a handler only the one that looks for the coupon ends a checkout.
LEMMA StepChecksOut ==
  ASSUME PriceInv, OwnInv, CheckingOut, NEW v \in Visits, Handle(v), ~Answer(v)
  PROVE  ChecksOut(v)'
<1>1. UNCHANGED <<visit, calls, shown>> /\ Busy(v) /\ todo[v] # <<>> /\ ChecksOut(v)
  BY AtIsBusy DEF Handle, LoadUser, LoadStore, LoadPrices, LoadCoupon, TruncateUser, WriteUser,
                  TruncateStore, WriteStore, Advance, CheckingOut
<1>2. Call(v) \in CallNames /\ todo[v] \in Rests(Call(v)) /\ visit[v] # None
  BY <1>1, VisitIs
<1>3. Call(v)' = Call(v) /\ User(v)' = User(v) /\ (PageLines(v)' <=> PageLines(v))
  BY <1>1 DEF Call, User, PageLines
<1>4. CASE Call(v) # "checkout"
  BY <1>1, <1>3, <1>4 DEF ChecksOut
<1>5. CASE Call(v) = "checkout"
  <2>1. LoadUser(v) \/ LoadPrices(v) \/ LoadCoupon(v)
    BY <1>1, <1>2, <1>5, AtIsBusy, RestsOfCall
       DEF Handle, LoadStore, TruncateUser, WriteUser, TruncateStore, WriteStore
  <2>2. users' = users /\ todo'[v] = Tail(todo[v])
    BY <2>1 DEF LoadUser, LoadPrices, LoadCoupon, Advance, PriceInv, Typed
  <2>3. todo'[v] = <<>> => coupon'[v] = NoCoupon
    <3>1. CASE LoadUser(v) \/ LoadPrices(v)
      <4>1. Head(todo[v]) \in {"LoadUser", "LoadPrices"}
        BY <3>1, AtIsBusy DEF LoadUser, LoadPrices
      <4> QED BY <1>1, <1>2, <1>5, <2>2, <4>1, RestsOfCall, RestsDiffer
    <3>2. CASE LoadCoupon(v)
      BY <1>5, <3>2 DEF LoadCoupon, PriceInv, Domains
    <3> QED BY <2>1, <3>1, <3>2
  <2> QED BY <1>1, <1>3, <2>2, <2>3 DEF ChecksOut
<1> QED BY <1>4, <1>5

LEMMA VisitChecksOut ==
  ASSUME PriceInv, OwnInv, CheckingOut, NEW v \in Visits, Visit(v), NEW w \in Visits
  PROVE  ChecksOut(w)'
<1>1. /\ \A x \in Visits \ {v} : visit'[x] = visit[x] /\ calls'[x] = calls[x] /\ todo'[x] = todo[x]
      /\ visit'[v].page = "checkoutPage" => Head(calls'[v]) = "basket"
      /\ todo'[v] = <<>> => Head(calls'[v]) # "checkout"
      /\ visit[v] = None /\ UNCHANGED <<locals, shown, users, shop, faults>>
  BY OwnVisit DEF Visit
<1>2. CASE w = v
  <2>1. "checkout" \notin DOMAIN shown[v]
    BY <1>1 DEF PriceInv, Priced, Orders
  <2> QED BY <1>1, <1>2, <2>1 DEF ChecksOut, Call
<1>3. CASE w # v
  <2>1. ChecksOut(w)
    BY DEF CheckingOut
  <2> QED BY <1>1, <1>3, <2>1 DEF ChecksOut, PageLines, Busy, Call, User, locals
<1> QED BY <1>2, <1>3

LEMMA HandleIsOwn ==
  ASSUME PriceInv, OwnInv, NEW v \in Visits, Handle(v)
  PROVE  /\ OwnInv' /\ OnlyOf(v) /\ Busy(v)
         /\ faults' = faults \/ faults' = faults + 1
<1>0. TruncateUser(v) => OwnInv' /\ OnlyOf(v)
  BY TruncateUserIs, OwnTruncate, OwnTruncateFails DEF TruncatesNow, GoesPast
<1>1. OwnInv' /\ OnlyOf(v)
  BY <1>0, OwnLoadUser, OwnReads, OwnStores, OwnAnswer, OwnWrite DEF Handle
<1>2. Busy(v)
  BY AtIsBusy DEF Handle, LoadUser, LoadStore, LoadPrices, LoadCoupon, TruncateUser, WriteUser,
                  TruncateStore, WriteStore, Answer
<1>3. faults' = faults \/ faults' = faults + 1
  BY DEF Handle, LoadUser, LoadStore, LoadPrices, LoadCoupon, TruncateUser, WriteUser,
         TruncateStore, WriteStore, Answer
<1> QED BY <1>1, <1>2, <1>3

LEMMA CheckingOutNext == PriceInv /\ OwnInv /\ CheckingOut /\ [Next]_vars => CheckingOut'
<1> SUFFICES ASSUME PriceInv, OwnInv, CheckingOut, [Next]_vars, NEW w \in Visits PROVE ChecksOut(w)'
  BY DEF CheckingOut
<1>0. ChecksOut(w)
  BY DEF CheckingOut
<1>1. CASE UNCHANGED vars
  BY <1>0, <1>1 DEF vars, locals, ChecksOut, PageLines, Busy, Call, User
<1>2. CASE Crash
  BY <1>0, <1>2 DEF Crash, ChecksOut, PageLines, Busy, User
<1>3. ASSUME NEW v \in Visits, Visit(v) PROVE ChecksOut(w)'
  BY <1>3, VisitChecksOut
<1>4. ASSUME NEW v \in Visits, Handle(v) PROVE ChecksOut(w)'
  BY <1>4, HandleIsOwn, OthersCheckOut, AnswerChecksOut, StepChecksOut
<1> QED BY <1>1, <1>2, <1>3, <1>4 DEF Next

-----------------------------------------------------------------------------
(* A purchase that was confirmed is in the account.                        *)

\* As long as nothing fails, the orders of a user who has not asked to start over
\* only grow.
LEMMA OrdersGrow ==
  ASSUME PriceInv, OwnInv, [Next]_vars, NEW u \in Careful, faults' = 0, Asks(u, {"reset"})' = {},
         NEW order, Has(AccountOf(u), order)
  PROVE  Has(AccountOf(u)', order)
<1>0. faults' # faults + 1
  BY DEF OwnInv, AccountsTyped
<1>1. CASE UNCHANGED vars
  BY <1>1, StutterKeepsAccounts
<1>2. CASE Crash
  BY <1>0, <1>2 DEF Crash
<1>3. ASSUME NEW v \in Visits, Visit(v) \/ Passing(v) PROVE AccountOf(u)' = AccountOf(u)
  BY <1>3, VisitKeepsAccounts, PassingKeepsAccounts
<1>4. ASSUME NEW v \in Visits, WriteUser(v) PROVE AccountOf(u)' = AccountOf(u)
  BY <1>0, <1>4, WriteSaves
<1>5. ASSUME NEW v \in Visits, TruncateUser(v) PROVE Has(AccountOf(u)', order)
  <2>0. CASE GoesPast(v)
    BY <2>0, TruncateFailsSo DEF GoesPast
  <2> SUFFICES ASSUME TruncatesNow(v) PROVE Has(AccountOf(u)', order)
    BY <1>5, <2>0, TruncateUserIs
  <2>1. /\ At(v, "TruncateUser") /\ users' = [users EXCEPT ![User(v)] = NoBytes] /\ Advance(v)
        /\ UNCHANGED <<visit, locals, shown, faults>>
    BY DEF TruncatesNow
  <2>2. CASE u # User(v)
    BY <2>1, <2>2, TruncateActs
  <2>3. CASE u = User(v)
    <3>1. Call(v) # "reset"
      <4>1. Busy(v) /\ visit[v] # None
        BY <2>1, AtIsBusy, VisitIs
      <4>2. Call(v) = "reset" => visit[v].page = "reset"
        BY <4>1, VisitIs
      <4>3. v \notin Asks(u, {"reset"})'
        OBVIOUS
      <4> QED BY <2>1, <2>3, <4>1, <4>2, <4>3 DEF Asks, User
    <3>2. CASE OrderedAll(AccountOf(u), AccountOf(u)')
      <4>1. PICK o : AccountOf(u)'.orders = Append(AccountOf(u).orders, o)
        BY <3>2 DEF OrderedAll
      <4>2. AccountOf(u).orders \in Seq(Baskets)
        BY <2>1, <2>3, AtIsBusy, OwnAccount, LoadTyped, UsersAssumption
           DEF OwnInv, AccountsTyped, Accounts, At
      <4>3. PICK k \in DOMAIN AccountOf(u).orders : AccountOf(u).orders[k] = order
        BY DEF Has
      <4> DEFINE os == AccountOf(u).orders
      <4>4. k \in DOMAIN Append(os, o) /\ Append(os, o)[k] = order
        <5>1. os \in Seq(Baskets) /\ k \in DOMAIN os /\ os[k] = order
          BY <4>2, <4>3
        <5> HIDE DEF os
        <5> QED BY <5>1
      <4> QED BY <4>1, <4>4 DEF Has
    <3>3. CASE AccountOf(u)'.orders = AccountOf(u).orders
      BY <3>3 DEF Has
    <3> QED BY <2>1, <2>3, <3>1, <3>2, <3>3, TruncateActs
  <2> QED BY <2>2, <2>3
<1> QED BY <1>1, <1>2, <1>3, <1>4, <1>5 DEF Next, Handle, Passing

\* A purchase ends with its order in the account, unless something fails.
LEMMA StepConfirms ==
  ASSUME PriceInv, OwnInv, NEW v \in Visits, Handle(v), ~Answer(v), faults' = faults,
         User(v) \in Careful, Call(v) = "purchase", todo'[v] = <<>>
  PROVE  NotOrdered(v) \/ Has(AccountOf(User(v)), Order(v))
<1> SUFFICES ASSUME ~NotOrdered(v) PROVE Has(AccountOf(User(v)), Order(v))
  OBVIOUS
<1>1. Busy(v) /\ todo[v] # <<>> /\ Call(v) \in CallNames /\ todo[v] \in Rests(Call(v))
  BY HandleIsOwn, VisitIs, AtIsBusy
     DEF Handle, LoadUser, LoadStore, LoadPrices, LoadCoupon, TruncateUser, WriteUser,
         TruncateStore, WriteStore
<1>2. todo'[v] = Tail(todo[v])
  <2>1. faults' # faults + 1
    BY DEF OwnInv, AccountsTyped
  <2>2. TruncateUser(v) => Advance(v)
    BY TruncateUserIs DEF TruncatesNow, GoesPast, Marshalled, NotOrdered
  <2> QED BY <2>1, <2>2 DEF Handle, LoadUser, LoadStore, LoadPrices, LoadCoupon, WriteUser,
                  TruncateStore, WriteStore, Advance, PriceInv, Typed
<1>3. Head(todo[v]) \in StepNames
  BY AtIsBusy DEF Handle, LoadUser, LoadStore, LoadPrices, LoadCoupon, TruncateUser, WriteUser,
         TruncateStore, WriteStore, StepNames
<1>4. Head(todo[v]) = "WriteUser"
  BY <1>1, <1>2, <1>3, RestsOfCall, RestsDiffer DEF StepNames
<1>5. At(v, "WriteUser")
  BY <1>1, <1>4 DEF At
<1>6. AccountOf(User(v)) = Purchased(v)
  BY <1>1, <1>4, <1>5, OwnAccount, SavedIs
<1>7. loaded[v].orders \in Seq(Baskets)
  BY OrderIs DEF Accounts
<1> DEFINE os == loaded[v].orders
           o == Order(v)
<1>8. Len(os) + 1 \in DOMAIN Append(os, o) /\ Append(os, o)[Len(os) + 1] = o
  <2>1. os \in Seq(Baskets)
    BY <1>7
  <2> HIDE DEF os, o
  <2> QED BY <2>1
<1> QED BY <1>6, <1>8 DEF Has, Purchased

LEMMA ConfirmsNext ==
  ASSUME PriceInv, OwnInv, Confirmed, [Next]_vars, NEW w \in Visits
  PROVE  Confirms(w)'
<1> SUFFICES ASSUME visit'[w] # None, User(w)' \in Careful, faults' = 0, Asks(User(w), {"reset"})' = {},
                    ~NotOrdered(w)'
             PROVE  /\ Busy(w)' /\ Call(w)' = "purchase" /\ todo'[w] = <<>> =>
                         Has(AccountOf(User(w))', Order(w)')
                    /\ "purchase" \in DOMAIN shown'[w] =>
                         Has(AccountOf(User(w))', shown'[w]["purchase"])
  BY DEF Confirms, Has
<1>0. faults' # faults + 1 /\ (faults' = faults => faults = 0)
  BY DEF OwnInv, AccountsTyped
<1> PICK u \in Careful : u = User(w)'
  OBVIOUS
<1>1. AccountOf(User(w))' = AccountOf(u)'
  BY DEF AccountOf
<1>2. Asks(u, {"reset"})' = {}
  BY DEF Asks
<1>3. \A order : Has(AccountOf(u), order) => Has(AccountOf(u)', order)
  BY <1>2, OrdersGrow
\* What was true of a visit that has not changed.
<1>4. ASSUME visit'[w] = visit[w], faults' = faults, \A x \in Visits : visit[x] # None => visit'[x] = visit[x]
      PROVE  /\ User(w) = u /\ visit[w] # None
             /\ Busy(w) /\ Call(w) = "purchase" /\ todo[w] = <<>> /\ ~NotOrdered(w) =>
                  Has(AccountOf(u), Order(w))
             /\ "purchase" \in DOMAIN shown[w] /\ ~NotOrdered(w) => Has(AccountOf(u), shown[w]["purchase"])
  <2>1. User(w) = u /\ visit[w] # None
    BY <1>4 DEF User
  <2>2. Asks(u, {"reset"}) = {}
    BY <1>2, <1>4 DEF Asks, User
  <2> QED BY <1>0, <1>4, <2>1, <2>2 DEF Confirmed, Confirms
<1> DEFINE same == /\ visit'[w] = visit[w] /\ calls'[w] = calls[w] /\ todo'[w] = todo[w]
                   /\ Order(w)' = Order(w) /\ shown'[w] = shown[w] /\ ~NotOrdered(w)
           waiting == Busy(w)' /\ Call(w)' = "purchase" /\ todo'[w] = <<>> =>
                        Has(AccountOf(u)', Order(w)')
           confirmed == "purchase" \in DOMAIN shown'[w] => Has(AccountOf(u)', shown'[w]["purchase"])
<1>5. ASSUME same, faults' = faults, \A x \in Visits : visit[x] # None => visit'[x] = visit[x]
      PROVE  waiting /\ confirmed
  BY <1>3, <1>4, <1>5 DEF Busy, Call
<1>6. ASSUME UNCHANGED vars PROVE waiting /\ confirmed
  <2>1. same
    BY <1>6, NotOrderedStays DEF vars, locals, Order
  <2> HIDE DEF same, waiting, confirmed
  <2> QED BY <1>5, <1>6, <2>1 DEF vars
<1>7. ~Crash
  BY <1>0 DEF Crash
<1>8. ASSUME NEW v \in Visits, Visit(v) PROVE waiting /\ confirmed
  <2>1. /\ \A x \in Visits \ {v} : visit'[x] = visit[x] /\ calls'[x] = calls[x] /\ todo'[x] = todo[x]
        /\ todo'[v] = <<>> => (Head(calls'[v]) = "purchase" => Fails("purchase", visit'[v]))
        /\ visit[v] = None /\ UNCHANGED <<locals, shown, users, shop, faults>>
    BY <1>8, OwnVisit DEF Visit
  <2>2. CASE w = v
    <3>1. "purchase" \notin DOMAIN shown[v]
      BY <2>1 DEF PriceInv, Priced, Orders
    <3>2. ~Fails("purchase", visit'[v])
      BY <2>2 DEF NotOrdered, Fails
    <3> QED BY <2>1, <2>2, <3>1, <3>2 DEF Call
  <2>3. CASE w # v
    <3>1. same
      BY <2>1, <2>3, NotOrderedStays DEF Order, locals
    <3> HIDE DEF same
    <3> QED BY <1>5, <2>1, <3>1
  <2> QED BY <2>2, <2>3
<1>9. ASSUME NEW v \in Visits, Handle(v) PROVE waiting /\ confirmed
  <2>1. OnlyOf(v) /\ Busy(v) /\ faults' = faults
    BY <1>0, <1>9, HandleIsOwn
  <2>2. CASE w # v
    <3>1. same
      BY <2>1, <2>2, NotOrderedStays DEF OnlyOf, Order
    <3>2. visit' = visit
      BY <2>1 DEF OnlyOf
    <3> HIDE DEF same
    <3> QED BY <1>5, <2>1, <3>1, <3>2
  <2>3. CASE w = v /\ ~Answer(v)
    <3>1. UNCHANGED <<visit, calls, shown>>
      BY <1>9, <2>3 DEF Handle, LoadUser, LoadStore, LoadPrices, LoadCoupon, TruncateUser, WriteUser,
                        TruncateStore, WriteStore, Advance
    <3>2. confirmed
      BY <2>1, <2>3, <3>1 DEF PriceInv, Priced, Orders, Busy
    <3>3. ASSUME Call(w) = "purchase", todo'[w] = <<>> PROVE Has(AccountOf(u)', Order(w)')
      <4>1. User(w) = u
        BY <3>1 DEF User
      <4>3. ~(LoadUser(v) \/ LoadPrices(v) \/ LoadCoupon(v))
        <5>1. Call(v) \in CallNames /\ todo[v] \in Rests(Call(v))
          BY <2>1, VisitIs
        <5> QED BY <2>3, <3>3, <5>1, AtIsBusy, RestsOfCall, RestsDiffer
                DEF LoadUser, LoadPrices, LoadCoupon, Advance, PriceInv, Typed
      <4>4. /\ loaded' = loaded /\ price' = price /\ coupon' = coupon
        BY <1>9, <2>3, <4>3 DEF Handle, LoadStore, TruncateUser, WriteUser, TruncateStore, WriteStore,
                                locals
      <4>5. Order(w)' = Order(w) /\ ~NotOrdered(w)
        BY <3>1, <4>4, NotOrderedStays DEF Order
      <4>2. Has(AccountOf(User(w)), Order(w))
        BY <1>9, <2>1, <2>3, <3>3, <4>1, <4>5, StepConfirms
      <4> QED BY <1>3, <4>1, <4>2, <4>5
    <3> HIDE DEF confirmed
    <3> QED BY <3>1, <3>2, <3>3 DEF Call
  <2>4. CASE w = v /\ Answer(v)
    <3> DEFINE left == Tail(calls[v])
               steps == Begin(left, visit[v])
    <3>1. /\ todo[v] = <<>> /\ calls'[v] = left /\ todo'[v] = steps /\ visit' = visit
          /\ shown'[v] = With(shown[v], Call(v), Reply(v)) /\ UNCHANGED locals
      BY <2>4 DEF Answer, PriceInv, Typed, Domains
    <3>2. visit[v].page \in PageNames /\ calls[v] \in CallsLeft(visit[v].page) /\ calls[v] # <<>>
      BY <2>1, VisitIs
    <3>3. left # <<>> => Head(left) \in CallNames
      BY <3>2, CallsLeftAre
    <3>10. ~NotOrdered(v) /\ ~Fails("purchase", visit[v]) /\ ~TooMuch(v)
      <4>1. ~NotOrdered(v)
        BY <2>4, <3>1, NotOrderedStays DEF locals
      <4> QED BY <4>1 DEF NotOrdered
    <3>4. left # <<>> /\ Head(left) = "purchase" => steps # <<>>
      BY <3>3, <3>10, FirstSteps DEF Begin
    <3> HIDE DEF left, steps
    <3>5. ~(Busy(w)' /\ Call(w)' = "purchase" /\ todo'[w] = <<>>)
      BY <2>4, <3>1, <3>4 DEF Busy, Call
    <3>6. DOMAIN shown'[v] = DOMAIN shown[v] \union {Call(v)} /\ shown'[v][Call(v)] = Reply(v)
          /\ \A call \in DOMAIN shown[v] : call # Call(v) => shown'[v][call] = shown[v][call]
      BY <3>1 DEF With
    <3>7. Call(v) = "purchase" => Reply(v) = Order(v)
      <4>1. Marshalled(v)
        BY <3>10 DEF Marshalled
      <4>2. Call(v) = "purchase" => ~Fails(Call(v), visit[v])
        BY <3>10
      <4> QED BY <4>1, <4>2 DEF Reply
    <3>8. Call(v) = "purchase" => Has(AccountOf(u), Order(v))
      BY <1>4, <2>1, <2>4, <3>1, <3>10
    <3>9. ASSUME "purchase" \in DOMAIN shown'[w] PROVE Has(AccountOf(u), shown'[w]["purchase"])
      <4>1. CASE Call(v) = "purchase"
        BY <2>4, <3>6, <3>7, <3>8, <4>1
      <4>2. CASE Call(v) # "purchase"
        BY <1>4, <2>1, <2>4, <3>1, <3>6, <3>9, <3>10, <4>2
      <4> QED BY <4>1, <4>2
    <3> QED BY <1>3, <3>5, <3>9
  <2> QED BY <2>2, <2>3, <2>4
<1> HIDE DEF same, waiting, confirmed
<1>10. waiting /\ confirmed
  BY <1>6, <1>7, <1>8, <1>9 DEF Next
<1> QED BY <1>1, <1>10 DEF waiting, confirmed

LEMMA ConfirmedNext == PriceInv /\ OwnInv /\ Confirmed /\ [Next]_vars => Confirmed'
<1> SUFFICES ASSUME PriceInv, OwnInv, Confirmed, [Next]_vars, NEW w \in Visits PROVE Confirms(w)'
  BY DEF Confirmed
<1> QED BY ConfirmsNext

LEMMA CustomerHolds == Spec => [](PriceInv /\ CustomerInv)
<1>1. Init => CheckingOut /\ Confirmed
  BY DEF Init, CheckingOut, ChecksOut, Confirmed, Confirms, Busy
<1>2. Init => PriceInv /\ CustomerInv
  BY <1>1, InitEstablishes, OwnInit DEF CustomerInv
<1>3. (PriceInv /\ CustomerInv) /\ [Next]_vars => (PriceInv /\ CustomerInv)'
  BY StepKeeps, OwnNext, CheckingOutNext, ConfirmedNext DEF CustomerInv
<1> QED BY <1>2, <1>3, PTL DEF Spec

LEMMA OrderIsInTheFile ==
  ASSUME PriceInv, CustomerInv PROVE ConfirmedIsOrdered
<1> SUFFICES ASSUME NEW v \in Visits, "purchase" \in DOMAIN shown[v], User(v) \in Careful, faults = 0,
                    Asks(User(v), {"reset"}) = {}, ~NotOrdered(v)
             PROVE  LET orders == IF \E w \in Visits : At(w, "WriteUser") /\ User(w) = User(v)
                                  THEN <<shown[v]["purchase"]>> ELSE users[User(v)].orders
                    IN \E k \in DOMAIN orders : orders[k] = shown[v]["purchase"]
  BY DEF ConfirmedIsOrdered
<1>1. Has(AccountOf(User(v)), shown[v]["purchase"])
  BY DEF PriceInv, Priced, Orders, CustomerInv, Confirmed, Confirms
<1>2. CASE \E w \in Visits : At(w, "WriteUser") /\ User(w) = User(v)
  <2> DEFINE one == <<shown[v]["purchase"]>>
  <2>1. 1 \in DOMAIN one /\ one[1] = shown[v]["purchase"]
    OBVIOUS
  <2> QED BY <1>2, <2>1
<1>3. CASE ~ \E w \in Visits : At(w, "WriteUser") /\ User(w) = User(v)
  <2>1. AccountOf(User(v)) = Load(users[User(v)], BlankUser)
    BY <1>3, NoSaver
  <2>2. BlankUser.orders = <<>> /\ DOMAIN <<>> = {}
    BY DEF BlankUser
  <2>3. Load(users[User(v)], BlankUser) = users[User(v)]
    BY <1>1, <2>1, <2>2 DEF Load, Has
  <2> QED BY <1>1, <1>3, <2>1, <2>3 DEF Has
<1> QED BY <1>2, <1>3

\* What the front end tells a user who waits for its answers is so: its checkout page
\* shows an order of the basket that it shows, and a purchase that it has confirmed is
\* in the account, but for one whose coupon could not be sent or made it infinite.
THEOREM PagesAreTrue == Spec => []PagesTellTruth
<1>1. PriceInv /\ CustomerInv => PageAgrees
  BY DEF CustomerInv, CheckingOut, ChecksOut, PageAgrees, PageLines, PriceInv, Priced, Orders
<1>2. PriceInv /\ CustomerInv => ConfirmedIsOrdered
  BY OrderIsInTheFile
<1> QED BY <1>1, <1>2, CustomerHolds, PTL DEF PagesTellTruth

LEMMA StoresTyped ==
  ASSUME PriceInv, NEW s, GoodStore(s, Issued)
  PROVE  IsStore(s)
<1>1. s.prices \in Baskets
  BY ListTyped DEF GoodStore
<1>2. ASSUME NEW w \in DOMAIN s.coupons PROVE w \in Visits /\ s.coupons[w] \in CouponSet
  <2>1. w \in Visits /\ s.coupons[w] \in IssuedCoupons
    BY <1>2 DEF GoodStore, Issued, IssuedCoupons
  <2> QED BY <2>1, CouponsTyped, RequestsAssumption
<1> QED BY <1>1, <1>2 DEF IsStore

\* The files, and what the handlers read of them, are typed, whatever is torn or lost.
THEOREM FilesTyped == Spec => []ShopTypeOK
<1>1. PriceInv /\ OwnInv => ShopTypeOK
  <2> SUFFICES ASSUME PriceInv, OwnInv PROVE ShopTypeOK
    OBVIOUS
  <2>1. ASSUME NEW v \in Visits
        PROVE  /\ IsAccount(loaded[v]) /\ IsStore(store[v])
               /\ price[v] \in Baskets /\ coupon[v] \in CouponSet \union {NoCoupon}
               /\ calls[v] \in Seq(DOMAIN Handlers) /\ (todo[v] # <<>> => Busy(v))
    <3>1. IsAccount(loaded[v])
      BY OrderIs DEF Accounts, IsAccount
    <3>2. IsStore(store[v]) /\ price[v] \in Baskets
      BY StoresTyped, ListTyped DEF PriceInv, ReadListed
    <3>3. coupon[v] \in CouponSet \union {NoCoupon}
      BY CouponIs
    <3>4. CallNames = DOMAIN Handlers
      BY DEF CallNames, Handlers
    <3>5. calls[v] \in Seq(DOMAIN Handlers)
      BY <3>4 DEF PriceInv, Typed
    <3>6. todo[v] # <<>> => Busy(v)
      BY DEF OwnInv, StepsInOrder, Busy
    <3> QED BY <3>1, <3>2, <3>3, <3>5, <3>6
  <2>2. \A u \in Users : users[u] \in Broken \/ IsAccount(users[u])
    BY DEF OwnInv, AccountsTyped, Accounts, IsAccount
  <2>3. shop \in Broken \/ IsStore(shop)
    BY StoresTyped DEF PriceInv, ShopListed
  <2> QED BY <2>1, <2>2, <2>3 DEF OwnInv, AccountsTyped, ShopTypeOK
<1> QED BY <1>1, OwnHolds, PTL

-----------------------------------------------------------------------------
(* What is in a file was ordered by its user.                              *)

\* A purchase that has been saved stays so.
LEMMA BoughtStays ==
  ASSUME PriceInv, OwnInv, [Next]_vars, NEW u
  PROVE  Bought(u) \subseteq Bought(u)'
<1> SUFFICES ASSUME NEW w \in Visits, visit[w] # None, User(w) = u, visit[w].page = "purchase",
                    todo[w] = <<>>
             PROVE  visit'[w] = visit[w] /\ todo'[w] = <<>>
  BY DEF Bought, Asks, User
<1>1. CASE Crash
  BY <1>1 DEF Crash
<1>2. CASE UNCHANGED vars
  BY <1>2 DEF vars
<1>3. ASSUME NEW v \in Visits, Visit(v) PROVE visit'[w] = visit[w] /\ todo'[w] = <<>>
  <2>1. w # v
    BY <1>3 DEF Visit
  <2> QED BY <1>3, <2>1, OwnVisit
<1>4. ASSUME NEW v \in Visits, Handle(v) PROVE visit'[w] = visit[w] /\ todo'[w] = <<>>
  <2>1. OnlyOf(v)
    BY <1>4, HandleIsOwn
  <2>2. CASE w # v
    BY <2>1, <2>2 DEF OnlyOf
  <2>3. CASE w = v
    <3>1. Answer(v)
      BY <1>4, <2>3 DEF Handle, LoadUser, LoadStore, LoadPrices, LoadCoupon, TruncateUser, WriteUser,
                        TruncateStore, WriteStore, At
    <3>2. /\ visit' = visit /\ calls[v] # <<>>
          /\ todo' = [todo EXCEPT ![v] = Begin(Tail(calls[v]), visit[v])]
      BY <3>1 DEF Answer, Busy
    <3>3. calls[v] = <<"purchase">>
      BY <2>3, <3>2 DEF OwnInv, CallsInOrder, CallsLeft
    <3>4. Tail(calls[v]) = <<>>
      BY <3>3
    <3> QED BY <2>3, <3>2, <3>4 DEF Begin, PriceInv, Typed
  <2> QED BY <2>2, <2>3
<1> QED BY <1>1, <1>2, <1>3, <1>4 DEF Next

\* At any time only some visits have been made.
LEMMA MadeVisits ==
  ASSUME Purchases, [Next]_vars
  PROVE  IsFiniteSet({v \in Visits : visit[v] # None})'
<1> DEFINE made == {v \in Visits : visit[v] # None}
<1>1. IsFiniteSet(made)
  BY DEF Purchases
<1>2. CASE visit' = visit
  <2>1. made' = made
    BY <1>2
  <2> QED BY <1>1, <2>1
<1>3. ASSUME NEW v \in Visits, Visit(v) PROVE IsFiniteSet(made')
  <2>1. made' \subseteq made \union {v}
    BY <1>3 DEF Visit
  <2>2. IsFiniteSet(made \union {v})
    BY <1>1, FS_AddElement
  <2> HIDE DEF made
  <2> QED BY <2>1, <2>2, FS_Subset
<1>4. ASSUME NEW v \in Visits, Handle(v) PROVE visit' = visit
  BY <1>4 DEF Handle, LoadUser, LoadStore, LoadPrices, LoadCoupon, TruncateUser, WriteUser,
              TruncateStore, WriteStore, Answer
<1>5. Crash \/ UNCHANGED vars => visit' = visit
  BY DEF Crash, vars
<1> QED BY <1>2, <1>3, <1>4, <1>5 DEF Next

LEMMA BoughtFinite ==
  ASSUME NEW u, IsFiniteSet({v \in Visits : visit[v] # None})
  PROVE  IsFiniteSet(Bought(u)) /\ Cardinality(Bought(u)) \in Nat
<1>1. Bought(u) \subseteq {v \in Visits : visit[v] # None}
  BY DEF Bought, Asks
<1>2. IsFiniteSet(Bought(u))
  BY <1>1, FS_Subset
<1> QED BY <1>2, FS_CardinalityType

LEMMA BoughtGrow ==
  ASSUME PriceInv, OwnInv, Purchases, [Next]_vars, NEW u
  PROVE  /\ Cardinality(Bought(u)) \in Nat /\ Cardinality(Bought(u)') \in Nat
         /\ Cardinality(Bought(u)) <= Cardinality(Bought(u)')
         /\ \A v \in Bought(u)' : v \notin Bought(u) =>
              Cardinality(Bought(u)) + 1 <= Cardinality(Bought(u)')
<1>1. IsFiniteSet(Bought(u)) /\ Cardinality(Bought(u)) \in Nat
  BY BoughtFinite DEF Purchases
<1>2. IsFiniteSet(Bought(u)') /\ Cardinality(Bought(u)') \in Nat
  <2>1. IsFiniteSet({v \in Visits : visit[v] # None})'
    BY MadeVisits
  <2>2. (IsFiniteSet({v \in Visits : visit[v] # None})
          => IsFiniteSet(Bought(u)) /\ Cardinality(Bought(u)) \in Nat)'
    BY BoughtFinite, PTL
  <2> QED BY <2>1, <2>2
<1>3. Bought(u) \subseteq Bought(u)'
  BY BoughtStays
<1> DEFINE old == Bought(u)
           new == Bought(u)'
<1> HIDE DEF old, new
<1>4. old \subseteq new /\ IsFiniteSet(new) /\ IsFiniteSet(old)
  BY <1>1, <1>2, <1>3 DEF old, new
<1>5. Cardinality(old) <= Cardinality(new)
  BY <1>4, FS_Subset
<1>6. ASSUME NEW v \in new, v \notin old PROVE Cardinality(old) + 1 <= Cardinality(new)
  <2>1. Cardinality(old \union {v}) = Cardinality(old) + 1
    BY <1>4, <1>6, FS_AddElement
  <2>2. old \union {v} \subseteq new
    BY <1>4, <1>6
  <2>3. Cardinality(old \union {v}) <= Cardinality(new)
    BY <1>4, <2>2, FS_Subset
  <2> QED BY <2>1, <2>3
<1> QED BY <1>1, <1>2, <1>5, <1>6 DEF old, new

\* What becomes of a user's file, and of what a handler has read.
LEMMA FileChanges ==
  ASSUME PriceInv, OwnInv, [Next]_vars, NEW u \in Users
  PROVE  \/ users'[u] \in {users[u]} \union Broken
         \/ \E v \in Visits : WriteUser(v) /\ User(v) = u /\ users'[u] = UserToSave(v)
<1>1. ASSUME NEW v \in Visits, TruncateUser(v) PROVE users'[u] \in {users[u]} \union Broken
  <2>1. users' = users \/ users' = [users EXCEPT ![User(v)] = NoBytes]
    BY <1>1 DEF TruncateUser
  <2> QED BY <2>1 DEF OwnInv, AccountsTyped, Broken
<1>2. ASSUME NEW v \in Visits, WriteUser(v)
      PROVE  \/ users'[u] \in {users[u]} \union Broken
             \/ User(v) = u /\ users'[u] = UserToSave(v)
  <2>1. \/ \E file \in {UserToSave(v), Mixed} : users' = [users EXCEPT ![User(v)] = file]
        \/ users' = [users EXCEPT ![User(v)] = IF @ = NoBytes THEN @ ELSE Mixed]
    BY <1>2 DEF WriteUser, Written
  <2> QED BY <2>1 DEF OwnInv, AccountsTyped, Broken
<1>3. ASSUME NEW v \in Visits, Passing(v) PROVE users' = users
  BY <1>3, PassingIs
<1>4. Crash \/ (\E v \in Visits : Visit(v)) \/ UNCHANGED vars => users' = users
  BY DEF Crash, Visit, vars
<1> QED BY <1>1, <1>2, <1>3, <1>4 DEF Next, Handle, Passing

LEMMA ReadChanges ==
  ASSUME PriceInv, OwnInv, [Next]_vars, NEW w \in Visits
  PROVE  \/ visit'[w] = visit[w] /\ loaded'[w] = loaded[w]
         \/ visit[w] = None /\ loaded'[w] = loaded[w]
         \/ /\ visit'[w] = visit[w] /\ visit[w] # None /\ User(w) \in Users
            /\ loaded'[w] \in {Load(users[User(w)], BlankUser), BlankUser}
<1>1. ASSUME NEW v \in Visits, Visit(v)
      PROVE  loaded'[w] = loaded[w] /\ (visit'[w] = visit[w] \/ visit[w] = None)
  BY <1>1, OwnVisit DEF Visit, locals
<1>2. ASSUME LoadUser(w)
      PROVE  /\ visit'[w] = visit[w] /\ visit[w] # None /\ User(w) \in Users
             /\ loaded'[w] \in {Load(users[User(w)], BlankUser), BlankUser}
  <2>1. visit' = visit /\ Busy(w)
    BY <1>2, AtIsBusy DEF LoadUser
  <2>2. PICK file \in {users[User(w)], Mixed} : loaded' = [loaded EXCEPT ![w] = Load(file, BlankUser)]
    BY <1>2 DEF LoadUser, Reads
  <2> QED BY <2>1, <2>2, VisitIs DEF OwnInv, AccountsTyped, Load
<1>3. ASSUME NEW v \in Visits, Handle(v), ~LoadUser(w) PROVE visit'[w] = visit[w] /\ loaded'[w] = loaded[w]
  <2>1. CASE v # w
    BY <1>3, <2>1, HandleIsOwn DEF OnlyOf
  <2>2. CASE v = w
    BY <1>3, <2>2 DEF Handle, LoadStore, LoadPrices, LoadCoupon, TruncateUser, WriteUser,
                      TruncateStore, WriteStore, Answer, locals
  <2> QED BY <2>1, <2>2
<1>4. Crash \/ UNCHANGED vars => visit' = visit /\ loaded' = loaded
  BY DEF Crash, vars, locals
<1> QED BY <1>1, <1>2, <1>3, <1>4 DEF Next

LEMMA PurchasesNext == PriceInv /\ OwnInv /\ Purchases /\ [Next]_vars => Purchases'
<1> SUFFICES ASSUME PriceInv, OwnInv, Purchases, [Next]_vars PROVE Purchases'
  OBVIOUS
<1>1. IsFiniteSet({v \in Visits : visit[v] # None})'
  BY MadeVisits
<1>2. /\ Len(BlankUser.orders) = 0
      /\ \A a \in Accounts : Len(a.orders) \in Nat
  BY DEF BlankUser, Accounts
<1>3. /\ \A u \in Users : users[u] \in Accounts \union Broken /\ Load(users[u], BlankUser) \in Accounts
      /\ \A v \in Visits : loaded[v] \in Accounts
  BY LoadTyped DEF OwnInv, AccountsTyped
<1>4. ASSUME NEW u \in Users
      PROVE  Len(Load(users'[u], BlankUser).orders) <= Cardinality(Bought(u)')
  <2>0. /\ Cardinality(Bought(u)) \in Nat /\ Cardinality(Bought(u)') \in Nat
        /\ Cardinality(Bought(u)) <= Cardinality(Bought(u)')
    BY BoughtGrow
  <2>1. CASE users'[u] = users[u]
    BY <1>2, <1>3, <2>0, <2>1 DEF Purchases
  <2>2. CASE users'[u] \in Broken
    BY <1>2, <2>0, <2>2 DEF Load, Broken
  <2>3. ASSUME NEW v \in Visits, WriteUser(v), User(v) = u, users'[u] = UserToSave(v)
        PROVE  Len(Load(users'[u], BlankUser).orders) <= Cardinality(Bought(u)')
    <3>1. Busy(v) /\ todo[v] # <<>> /\ Head(todo[v]) = "WriteUser"
      BY <2>3, AtIsBusy DEF WriteUser
    <3>2. /\ UserToSave(v) \in Accounts /\ Call(v) \in {"purchase", "addItem", "reset"}
          /\ Call(v) = "purchase" => UserToSave(v) = Purchased(v)
          /\ Call(v) = "addItem" => UserToSave(v).orders = loaded[v].orders
          /\ Call(v) = "reset" => UserToSave(v) = BlankUser
      BY <3>1, SavedIs
    <3>3. Load(users'[u], BlankUser) = UserToSave(v)
      BY <2>3, <3>2, LoadTyped
    <3>4. Len(loaded[v].orders) <= Cardinality(Bought(u)) /\ Len(loaded[v].orders) \in Nat
      BY <1>2, <1>3, <2>3, <3>1, VisitIs DEF Purchases
    <3>5. CASE Call(v) = "purchase"
      <4>1. visit[v] # None /\ visit[v].page = "purchase" /\ Call(v) \in CallNames /\ todo[v] \in Rests(Call(v))
        BY <3>1, <3>5, VisitIs
      <4>2. visit' = visit /\ todo' = [todo EXCEPT ![v] = Tail(todo[v])] /\ Tail(todo[v]) = <<>>
        BY <2>3, <3>1, <3>5, <4>1, RestsOfCall DEF WriteUser, Advance
      <4>3. v \in Bought(u)' /\ v \notin Bought(u)
        BY <2>3, <3>1, <4>1, <4>2 DEF Bought, Asks, User, PriceInv, Typed
      <4>4. Cardinality(Bought(u)) + 1 <= Cardinality(Bought(u)')
        BY <4>3, BoughtGrow
      <4>5. loaded[v].orders \in Seq(Baskets)
        BY <1>3 DEF Accounts
      <4>6. Len(UserToSave(v).orders) = Len(loaded[v].orders) + 1
        BY <3>2, <3>5, <4>5, OrderIs DEF Purchased
      <4> QED BY <2>0, <3>3, <3>4, <4>4, <4>6
    <3>6. CASE Call(v) = "addItem"
      BY <2>0, <3>2, <3>3, <3>4, <3>6
    <3>7. CASE Call(v) = "reset"
      BY <1>2, <2>0, <3>2, <3>3, <3>7
    <3> QED BY <3>2, <3>5, <3>6, <3>7
  <2> QED BY <2>1, <2>2, <2>3, FileChanges
<1>5. ASSUME NEW w \in Visits
      PROVE  IF visit'[w] = None THEN loaded'[w] = BlankUser
             ELSE Len(loaded'[w].orders) <= Cardinality(Bought(User(w))')
  <2> PICK u : u = User(w)'
    OBVIOUS
  <2>1. Bought(User(w))' = Bought(u)'
    BY DEF Bought, Asks
  <2>2. /\ Cardinality(Bought(u)) \in Nat /\ Cardinality(Bought(u)') \in Nat
        /\ Cardinality(Bought(u)) <= Cardinality(Bought(u)')
    BY BoughtGrow
  <2>3. CASE visit[w] = None /\ loaded'[w] = loaded[w]
    BY <1>2, <2>1, <2>2, <2>3 DEF Purchases
  <2>4. CASE visit[w] # None /\ visit'[w] = visit[w]
    <3>1. u = User(w)
      BY <2>4 DEF User
    <3>2. Len(loaded[w].orders) <= Cardinality(Bought(u)) /\ Len(loaded[w].orders) \in Nat
      BY <1>2, <1>3, <2>4, <3>1 DEF Purchases
    <3>3. CASE loaded'[w] = loaded[w]
      BY <2>1, <2>2, <2>4, <3>2, <3>3
    <3>4. CASE User(w) \in Users /\ loaded'[w] = Load(users[User(w)], BlankUser)
      <4>1. Len(loaded'[w].orders) <= Cardinality(Bought(u)) /\ Len(loaded'[w].orders) \in Nat
        BY <1>2, <1>3, <3>1, <3>4 DEF Purchases
      <4> QED BY <2>1, <2>2, <2>4, <4>1
    <3>5. CASE loaded'[w] = BlankUser
      BY <1>2, <2>1, <2>2, <2>4, <3>5
    <3> QED BY <2>4, <3>3, <3>4, <3>5, ReadChanges
  <2> QED BY <2>3, <2>4, ReadChanges
<1> QED BY <1>1, <1>4, <1>5 DEF Purchases

LEMMA PurchasesStart == Init => Purchases
<1> SUFFICES ASSUME Init PROVE Purchases
  OBVIOUS
<1>1. {v \in Visits : visit[v] # None} = {} /\ \A u : Bought(u) = {}
  BY DEF Init, Bought, Asks
<1>2. \A u \in Users : Load(users[u], BlankUser) = BlankUser
  BY DEF Init, Load
<1>3. Len(BlankUser.orders) = 0
  BY DEF BlankUser
<1>4. \A v \in Visits : visit[v] = None /\ loaded[v] = BlankUser
  BY DEF Init
<1>5. \A u : Cardinality(Bought(u)) = 0
  BY <1>1, FS_EmptySet
<1>6. IsFiniteSet({v \in Visits : visit[v] # None})
  BY <1>1, FS_EmptySet
<1>7. \A u \in Users : Len(Load(users[u], BlankUser).orders) <= Cardinality(Bought(u))
  BY <1>2, <1>3, <1>5
<1> QED BY <1>4, <1>6, <1>7 DEF Purchases

\* Whatever users do at once, no account gets more orders than its user has made
\* purchases: each saves what it has read of earlier ones and its own (LoadUser, SaveUser).
THEOREM OrdersAreAsked == Spec => []OrdersAsked
<1>1. Init => PriceInv /\ OwnInv /\ Purchases
  BY PurchasesStart, InitEstablishes, OwnInit
<1>2. (PriceInv /\ OwnInv /\ Purchases) /\ [Next]_vars => (PriceInv /\ OwnInv /\ Purchases)'
  BY StepKeeps, OwnNext, PurchasesNext
<1>3. PriceInv /\ OwnInv /\ Purchases => OrdersAsked
  <2> SUFFICES ASSUME OwnInv, Purchases, NEW u \in Users
               PROVE  Len(Load(users[u], BlankUser).orders) <= Cardinality(Asks(u, {"purchase"}))
    BY DEF OrdersAsked
  <2>1. Bought(u) \subseteq Asks(u, {"purchase"}) /\ Asks(u, {"purchase"}) \subseteq {v \in Visits : visit[v] # None}
    BY DEF Bought, Asks
  <2>2. IsFiniteSet(Asks(u, {"purchase"}))
    BY <2>1, FS_Subset DEF Purchases
  <2>3. /\ Cardinality(Bought(u)) <= Cardinality(Asks(u, {"purchase"}))
        /\ Cardinality(Bought(u)) \in Nat /\ Cardinality(Asks(u, {"purchase"})) \in Nat
    BY <2>1, <2>2, FS_Subset, FS_CardinalityType
  <2>4. Load(users[u], BlankUser) \in Accounts
    BY LoadTyped DEF OwnInv, AccountsTyped
  <2>5. Len(Load(users[u], BlankUser).orders) \in Nat
    BY <2>4 DEF Accounts
  <2> QED BY <2>3, <2>5 DEF Purchases
<1> QED BY <1>1, <1>2, <1>3, PTL DEF Spec

-----------------------------------------------------------------------------
(* Sums over finite sets.                                                  *)

\* Induction over the subsets of a finite set, for a set of them.
LEMMA AllSubsets ==
  ASSUME NEW S, IsFiniteSet(S), NEW Good,
         \A T \in SUBSET S : (\A x \in T : T \ {x} \in Good) => T \in Good
  PROVE  SUBSET S \subseteq Good
<1> DEFINE UpTo == {n \in Nat : \A T \in SUBSET S : Cardinality(T) = n => T \in Good}
<1>1. \A T \in SUBSET S : IsFiniteSet(T) /\ Cardinality(T) \in Nat
  BY FS_Subset, FS_CardinalityType
<1>2. 0 \in UpTo
  BY <1>1, FS_EmptySet
<1>3. ASSUME NEW n \in Nat, n \in UpTo PROVE n + 1 \in UpTo
  <2> SUFFICES ASSUME NEW T \in SUBSET S, Cardinality(T) = n + 1 PROVE T \in Good
    OBVIOUS
  <2>1. ASSUME NEW x \in T PROVE T \ {x} \in Good
    <3>1. Cardinality(T \ {x}) = n
      BY <1>1, FS_RemoveElement
    <3> QED BY <1>3, <3>1
  <2> QED BY <2>1
<1>4. Nat \subseteq UpTo
  <2> HIDE DEF UpTo
  <2> QED BY <1>2, <1>3, AllNumbers
<1> QED BY <1>1, <1>4

Pick(s) == CHOOSE x \in s : TRUE

\* g adds the values of f over each subset of S, one after the other.
AddsUp(g, f, s) == g[s] = IF s = {} THEN 0 ELSE f[Pick(s)] + g[s \ {Pick(s)}]
Adding(g, f, S) == \A s \in SUBSET S : AddsUp(g, f, s)

\* There is such a function, and a sum is its value.
LEMMA Iterates ==
  ASSUME NEW f, NEW S, IsFiniteSet(S)
  PROVE  \E g : Adding(g, f, S) /\ SumFunctionOnSet(f, S) = g[S]
<1> DEFINE After(g) == [s \in SUBSET S |-> IF s = {} THEN 0 ELSE f[Pick(s)] + g[s \ {Pick(s)}]]
           UpTo == {n \in Nat : \E g : \A s \in SUBSET S : Cardinality(s) <= n => AddsUp(g, f, s)}
<1>1. /\ \A T \in SUBSET S : IsFiniteSet(T) /\ Cardinality(T) \in Nat /\ Cardinality(T) <= Cardinality(S)
      /\ \A s : s # {} => Pick(s) \in s
  BY FS_Subset, FS_CardinalityType DEF Pick
<1>2. 0 \in UpTo
  <2>1. \A s \in SUBSET S : Cardinality(s) <= 0 => s = {}
    BY <1>1, FS_EmptySet
  <2>2. \A s \in SUBSET S : Cardinality(s) <= 0 => AddsUp([t \in SUBSET S |-> 0], f, s)
    BY <2>1 DEF AddsUp
  <2> QED BY <2>2
<1>3. ASSUME NEW n \in Nat, n \in UpTo PROVE n + 1 \in UpTo
  <2>1. PICK g : \A s \in SUBSET S : Cardinality(s) <= n => AddsUp(g, f, s)
    BY <1>3
  <2>2. \A s \in SUBSET S : After(g)[s] = IF s = {} THEN 0 ELSE f[Pick(s)] + g[s \ {Pick(s)}]
    OBVIOUS
  <2> PICK h : h = After(g)
    OBVIOUS
  <2>3. \A s \in SUBSET S : Cardinality(s) <= n => h[s] = g[s]
    BY <2>1, <2>2 DEF AddsUp
  <2>4. ASSUME NEW s \in SUBSET S, Cardinality(s) <= n + 1 PROVE AddsUp(h, f, s)
    <3>1. CASE s = {}
      BY <2>2, <3>1 DEF AddsUp
    <3>2. CASE s # {}
      <4>1. Cardinality(s \ {Pick(s)}) = Cardinality(s) - 1 /\ s \ {Pick(s)} \in SUBSET S
        BY <1>1, <3>2, FS_RemoveElement
      <4>2. Cardinality(s \ {Pick(s)}) <= n
        BY <1>1, <2>4, <4>1
      <4>3. h[s \ {Pick(s)}] = g[s \ {Pick(s)}]
        BY <2>3, <4>1, <4>2
      <4> QED BY <2>2, <3>2, <4>3 DEF AddsUp
    <3> QED BY <3>1, <3>2
  <2>5. \E k : \A s \in SUBSET S : Cardinality(s) <= n + 1 => AddsUp(k, f, s)
    BY <2>4, Zenon
  <2>6. n + 1 \in Nat
    OBVIOUS
  <2> QED BY <2>5, <2>6, Zenon
<1>4. Cardinality(S) \in UpTo
  <2> HIDE DEF UpTo
  <2>1. Nat \subseteq UpTo
    BY <1>2, <1>3, AllNumbers
  <2> QED BY <1>1, <2>1
<1>5. PICK g : \A s \in SUBSET S : AddsUp(g, f, s)
  BY <1>1, <1>4
<1>6. PICK h : h = After(g)
  OBVIOUS
<1>7. \A s \in SUBSET S : h[s] = g[s]
  BY <1>5, <1>6 DEF AddsUp
<1>8. After(g) = After(h)
  <2>1. \A s \in SUBSET S : h[s \ {Pick(s)}] = g[s \ {Pick(s)}]
    BY <1>7
  <2> QED BY <2>1
<1> DEFINE Is(k) == k = [s \in SUBSET S |-> IF s = {} THEN 0
                           ELSE f[CHOOSE x \in s : TRUE] + k[s \ {CHOOSE x \in s : TRUE}]]
           iter == CHOOSE k : Is(k)
<1>9. Is(h)
  <2>1. h = After(h)
    BY <1>6, <1>8
  <2> QED BY <2>1 DEF Pick
<1>10. Is(iter)
  <2> HIDE DEF Is
  <2> QED BY <1>9
<1>11. Adding(iter, f, S)
  <2>1. PICK k : k = iter
    OBVIOUS
  <2>2. k = After(k)
    BY <1>10, <2>1 DEF Pick
  <2>3. \A s \in SUBSET S : AddsUp(k, f, s)
    BY <2>2 DEF AddsUp
  <2> QED BY <2>1, <2>3 DEF Adding
<1>12. SumFunctionOnSet(f, S) = iter[S]
  BY DEF SumFunctionOnSet, FoldFunctionOnSet, MapThenFoldSet
<1> QED BY <1>11, <1>12

\* There is only one, and it depends on no more than the values that it adds.
LEMMA SameSum ==
  ASSUME NEW S, IsFiniteSet(S), NEW f, NEW e, \A x \in S : f[x] = e[x],
         NEW g, Adding(g, f, S), NEW h, Adding(h, e, S)
  PROVE  \A s \in SUBSET S : g[s] = h[s]
<1> DEFINE Good == {s \in SUBSET S : g[s] = h[s]}
<1>1. ASSUME NEW s \in SUBSET S, \A x \in s : s \ {x} \in Good PROVE s \in Good
  <2>1. CASE s = {}
    BY <2>1 DEF Adding, AddsUp
  <2>2. CASE s # {}
    <3>1. Pick(s) \in s /\ g[s \ {Pick(s)}] = h[s \ {Pick(s)}]
      BY <1>1, <2>2 DEF Pick
    <3> QED BY <2>2, <3>1 DEF Adding, AddsUp
  <2> QED BY <2>1, <2>2
<1>2. SUBSET S \subseteq Good
  <2> HIDE DEF Good
  <2> QED BY <1>1, AllSubsets
<1> QED BY <1>2

\* Sums of equal values are equal.
LEMMA SumSame ==
  ASSUME NEW S, IsFiniteSet(S), NEW f, NEW e, \A x \in S : f[x] = e[x]
  PROVE  SumFunctionOnSet(f, S) = SumFunctionOnSet(e, S)
BY Iterates, SameSum

\* The sum over no elements, and over some, taking away the one that is picked.
LEMMA SumPicks ==
  ASSUME NEW S, IsFiniteSet(S), NEW f
  PROVE  SumFunctionOnSet(f, S) =
           IF S = {} THEN 0 ELSE f[Pick(S)] + SumFunctionOnSet(f, S \ {Pick(S)})
<1>1. PICK g : Adding(g, f, S) /\ SumFunctionOnSet(f, S) = g[S]
  BY Iterates
<1> DEFINE T == S \ {Pick(S)}
<1>2. IsFiniteSet(T) /\ T \in SUBSET S
  BY FS_RemoveElement
<1>3. Adding(g, f, T)
  BY <1>1, <1>2 DEF Adding
<1>4. PICK h : Adding(h, f, T) /\ SumFunctionOnSet(f, T) = h[T]
  <2> HIDE DEF T
  <2> QED BY <1>2, Iterates
<1>5. g[T] = h[T]
  <2> HIDE DEF T
  <2> QED BY <1>2, <1>3, <1>4, SameSum
<1> QED BY <1>1, <1>4, <1>5 DEF Adding, AddsUp

\* A sum of integers is one.
LEMMA SumType ==
  ASSUME NEW S, IsFiniteSet(S), NEW f, \A x \in S : f[x] \in Int
  PROVE  SumFunctionOnSet(f, S) \in Int
<1> DEFINE Good == {s \in SUBSET S : SumFunctionOnSet(f, s) \in Int}
<1>1. ASSUME NEW s \in SUBSET S, \A x \in s : s \ {x} \in Good PROVE s \in Good
  <2>1. SumFunctionOnSet(f, s) = IF s = {} THEN 0 ELSE f[Pick(s)] + SumFunctionOnSet(f, s \ {Pick(s)})
    BY FS_Subset, SumPicks
  <2>2. s # {} => Pick(s) \in s
    BY DEF Pick
  <2> QED BY <1>1, <2>1, <2>2
<1>2. SUBSET S \subseteq Good
  <2> HIDE DEF Good
  <2> QED BY <1>1, AllSubsets
<1> QED BY <1>2

\* The order does not matter: any element can be taken away.
LEMMA SumTakes ==
  ASSUME NEW S, IsFiniteSet(S), NEW f, \A x \in S : f[x] \in Int, NEW x \in S
  PROVE  /\ SumFunctionOnSet(f, S) = f[x] + SumFunctionOnSet(f, S \ {x})
         /\ SumFunctionOnSet(f, S) \in Int /\ SumFunctionOnSet(f, S \ {x}) \in Int
<1> DEFINE sum(s) == SumFunctionOnSet(f, s)
           Good == {T \in SUBSET S : \A y \in T : sum(T) = f[y] + sum(T \ {y})}
<1>1. \A T \in SUBSET S : IsFiniteSet(T) /\ sum(T) \in Int
  <2>1. \A T \in SUBSET S : IsFiniteSet(T)
    BY FS_Subset
  <2> QED BY <2>1, SumType
<1>2. ASSUME NEW T \in SUBSET S, \A y \in T : T \ {y} \in Good PROVE T \in Good
  <2> SUFFICES ASSUME NEW y \in T PROVE sum(T) = f[y] + sum(T \ {y})
    OBVIOUS
  <2> DEFINE p == Pick(T)
  <2>1. p \in T
    BY DEF Pick
  <2>2. sum(T) = f[p] + sum(T \ {p})
    BY <1>1, SumPicks
  <2>3. CASE y = p
    BY <2>2, <2>3
  <2>4. CASE y # p
    <3>1. y \in T \ {p} /\ p \in T \ {y} /\ T \ {p} \in SUBSET S /\ T \ {y} \in SUBSET S
      BY <2>1, <2>4
    <3>2. sum(T \ {p}) = f[y] + sum((T \ {p}) \ {y})
      BY <1>2, <2>1, <3>1
    <3>3. sum(T \ {y}) = f[p] + sum((T \ {y}) \ {p})
      BY <1>2, <3>1
    <3>4. (T \ {p}) \ {y} = (T \ {y}) \ {p} /\ (T \ {p}) \ {y} \in SUBSET S
      OBVIOUS
    <3>5. f[y] \in Int /\ f[p] \in Int /\ sum((T \ {y}) \ {p}) \in Int
      BY <1>1, <2>1, <3>4
    <3>6. sum((T \ {p}) \ {y}) = sum((T \ {y}) \ {p})
      BY <3>4
    <3> PICK a, b, c : /\ a = sum(T \ {p}) /\ b = sum(T \ {y}) /\ c = sum((T \ {y}) \ {p})
      OBVIOUS
    <3>7. sum(T) = f[p] + (f[y] + c) /\ b = f[p] + c /\ c \in Int
      BY <2>2, <3>2, <3>3, <3>5, <3>6
    <3>8. f[p] + (f[y] + c) = f[y] + (f[p] + c)
      BY <3>5, <3>7
    <3> QED BY <3>7, <3>8
  <2> QED BY <2>3, <2>4
<1>3. SUBSET S \subseteq Good
  <2> HIDE DEF Good
  <2> QED BY <1>2, AllSubsets
<1> QED BY <1>1, <1>3

\* More elements that are not negative do not make a sum smaller.
LEMMA SumGrows ==
  ASSUME NEW T, IsFiniteSet(T), NEW S \in SUBSET T, NEW f, \A x \in T : f[x] \in Int,
         \A x \in T \ S : f[x] >= 0
  PROVE  SumFunctionOnSet(f, S) <= SumFunctionOnSet(f, T)
<1> DEFINE sum(s) == SumFunctionOnSet(f, s)
           Good == {U \in SUBSET (T \ S) : sum(S) <= sum(S \union U)}
<1>1. IsFiniteSet(S) /\ IsFiniteSet(T \ S) /\ \A U \in SUBSET T : IsFiniteSet(U) /\ sum(U) \in Int
  <2>1. \A U \in SUBSET T : IsFiniteSet(U)
    BY FS_Subset
  <2>2. T \ S \in SUBSET T
    OBVIOUS
  <2> QED BY <2>1, <2>2, SumType
<1>2. ASSUME NEW U \in SUBSET (T \ S), \A x \in U : U \ {x} \in Good PROVE U \in Good
  <2>1. CASE U = {}
    <3>1. S \union U = S
      BY <2>1
    <3> HIDE DEF sum
    <3> QED BY <1>1, <3>1
  <2>2. CASE U # {}
    <3>1. PICK x \in U : TRUE
      BY <2>2
    <3> DEFINE V == S \union U
    <3>2. x \in V /\ V \in SUBSET T /\ V \ {x} = S \union (U \ {x}) /\ V \ {x} \in SUBSET T
      BY <3>1
    <3>3. sum(V) = f[x] + sum(V \ {x})
      <4> HIDE DEF V
      <4> QED BY <1>1, <3>2, SumTakes
    <3>4. sum(S) <= sum(V \ {x})
      BY <1>2, <3>1, <3>2
    <3>5. f[x] \in Int /\ f[x] >= 0 /\ sum(S) \in Int /\ sum(V) \in Int /\ sum(V \ {x}) \in Int
      BY <1>1, <3>1, <3>2
    <3>6. sum(S) <= sum(V)
      <4> HIDE DEF sum, V
      <4> QED BY <3>3, <3>4, <3>5
    <3> QED BY <3>6
  <2> QED BY <2>1, <2>2
<1>3. SUBSET (T \ S) \subseteq Good
  <2> HIDE DEF Good
  <2> QED BY <1>1, <1>2, AllSubsets
<1>4. S \union (T \ S) = T /\ T \ S \in Good
  BY <1>3
<1> QED BY <1>4

\* A sum of greater values is no smaller.
LEMMA SumCompares ==
  ASSUME NEW S, IsFiniteSet(S), NEW f, NEW e,
         \A x \in S : f[x] \in Int /\ e[x] \in Int /\ f[x] <= e[x]
  PROVE  SumFunctionOnSet(f, S) <= SumFunctionOnSet(e, S)
<1> DEFINE Good == {s \in SUBSET S : SumFunctionOnSet(f, s) <= SumFunctionOnSet(e, s)}
<1>1. \A s \in SUBSET S : IsFiniteSet(s) /\ SumFunctionOnSet(f, s) \in Int /\ SumFunctionOnSet(e, s) \in Int
  <2>1. \A s \in SUBSET S : IsFiniteSet(s)
    BY FS_Subset
  <2> QED BY <2>1, SumType
<1>2. ASSUME NEW s \in SUBSET S, \A x \in s : s \ {x} \in Good PROVE s \in Good
  <2>1. \A g \in {f, e} : SumFunctionOnSet(g, s) =
          IF s = {} THEN 0 ELSE g[Pick(s)] + SumFunctionOnSet(g, s \ {Pick(s)})
    BY <1>1, SumPicks
  <2>2. s # {} => Pick(s) \in s
    BY DEF Pick
  <2> PICK a, b, c, d : /\ a = SumFunctionOnSet(f, s) /\ b = SumFunctionOnSet(e, s)
                        /\ c = SumFunctionOnSet(f, s \ {Pick(s)})
                        /\ d = SumFunctionOnSet(e, s \ {Pick(s)})
    OBVIOUS
  <2>3. CASE s = {}
    BY <2>1, <2>3
  <2>4. CASE s # {}
    <3>1. a = f[Pick(s)] + c /\ b = e[Pick(s)] + d
      BY <2>1, <2>4
    <3>2. c <= d /\ c \in Int /\ d \in Int
      BY <1>1, <1>2, <2>2, <2>4
    <3>3. f[Pick(s)] \in Int /\ e[Pick(s)] \in Int /\ f[Pick(s)] <= e[Pick(s)]
      BY <2>2, <2>4
    <3>4. a <= b
      BY <3>1, <3>2, <3>3
    <3> QED BY <3>4
  <2> QED BY <2>3, <2>4
<1>3. SUBSET S \subseteq Good
  <2> HIDE DEF Good
  <2> QED BY <1>2, AllSubsets
<1> QED BY <1>3

\* A function that goes on where another ends, with values that are not negative, has a
\* sum that is no smaller.
LEMMA SumExtends ==
  ASSUME NEW f, NEW g, IsFiniteSet(DOMAIN g), DOMAIN f \subseteq DOMAIN g,
         \A x \in DOMAIN g : g[x] \in Nat, \A x \in DOMAIN f : f[x] = g[x]
  PROVE  /\ SumFunction(f) \in Nat /\ SumFunction(g) \in Nat /\ SumFunction(f) <= SumFunction(g)
         /\ \A x \in DOMAIN g : x \notin DOMAIN f => SumFunction(f) + g[x] <= SumFunction(g)
<1> DEFINE sum(s) == SumFunctionOnSet(g, s)
           all == DOMAIN g
           some == DOMAIN f
<1>1. SumFunction(g) = sum(all) /\ SumFunction(f) = SumFunctionOnSet(f, some)
  BY DEF SumFunction
<1> HIDE DEF sum, all, some
<1>2. IsFiniteSet(all) /\ some \in SUBSET all /\ (\A x \in all : g[x] \in Int /\ g[x] >= 0)
      /\ \A x \in some : f[x] = g[x]
  BY DEF all, some
<1>3. \A T \in SUBSET all : IsFiniteSet(T)
  BY <1>2, FS_Subset
<1>4. SumFunction(f) = sum(some)
  <2>1. IsFiniteSet(some)
    BY <1>2, <1>3
  <2>2. SumFunctionOnSet(f, some) = SumFunctionOnSet(g, some)
    BY <1>2, <2>1, SumSame
  <2> QED BY <1>1, <2>2 DEF sum
<1>5. ASSUME NEW T \in SUBSET all, NEW S \in SUBSET T
      PROVE  sum(S) \in Int /\ sum(T) \in Int /\ sum(S) <= sum(T)
  <2>1. IsFiniteSet(S) /\ IsFiniteSet(T) /\ (\A x \in T : g[x] \in Int) /\ (\A x \in S : g[x] \in Int)
        /\ \A x \in T \ S : g[x] >= 0
    BY <1>2, <1>3
  <2> QED BY <2>1, SumType, SumGrows DEF sum
<1>6. sum({}) = 0
  BY SumPicks, FS_EmptySet DEF sum
<1>7. sum(some) \in Nat /\ sum(all) \in Nat /\ sum(some) <= sum(all)
  <2>1. {} \in SUBSET some /\ {} \in SUBSET all /\ all \in SUBSET all
    OBVIOUS
  <2>2. sum({}) <= sum(some) /\ sum({}) <= sum(all) /\ sum(some) <= sum(all)
        /\ sum(some) \in Int /\ sum(all) \in Int
    BY <1>2, <1>5, <2>1
  <2> QED BY <1>6, <2>2
<1>8. ASSUME NEW x \in all, x \notin some PROVE sum(some) + g[x] <= sum(all)
  <2>1. sum(all) = g[x] + sum(all \ {x}) /\ sum(all \ {x}) \in Int
    BY <1>2, SumTakes DEF sum
  <2>2. all \ {x} \in SUBSET all /\ some \in SUBSET (all \ {x})
    BY <1>2, <1>8
  <2>3. sum(some) <= sum(all \ {x})
    BY <1>5, <2>2
  <2>4. g[x] \in Int
    BY <1>2
  <2> QED BY <1>7, <2>1, <2>3, <2>4
<1> QED BY <1>1, <1>4, <1>7, <1>8 DEF all, some

-----------------------------------------------------------------------------
(* What is in a basket was added by its user.                              *)

LEMMA AddedStays ==
  ASSUME PriceInv, OwnInv, [Next]_vars, NEW u, NEW i, NEW w \in Added(u, i)
  PROVE  w \in Added(u, i)' /\ visit'[w] = visit[w]
<1> SUFFICES visit'[w] = visit[w] /\ ~(Busy(w) /\ Call(w) = "addItem" /\ todo[w] # <<>>)'
  BY DEF Added, Adds, Asks, User, Count
<1>0. w \in Visits /\ visit[w] # None /\ ~(Busy(w) /\ Call(w) = "addItem" /\ todo[w] # <<>>)
  BY DEF Added, Adds, Asks
<1> DEFINE stays == calls'[w] = calls[w] /\ todo'[w] = todo[w]
<1>1. ASSUME stays PROVE ~(Busy(w) /\ Call(w) = "addItem" /\ todo[w] # <<>>)'
  BY <1>0, <1>1 DEF Busy, Call
<1>2. CASE Crash
  BY <1>0, <1>2 DEF Crash, Busy
<1>3. CASE UNCHANGED vars
  BY <1>1, <1>3 DEF vars
<1>4. ASSUME NEW v \in Visits, Visit(v) PROVE visit'[w] = visit[w] /\ stays
  <2>1. w # v
    BY <1>0, <1>4 DEF Visit
  <2> QED BY <1>0, <1>4, <2>1, OwnVisit
<1>5. ASSUME NEW v \in Visits, Handle(v), v # w PROVE visit'[w] = visit[w] /\ stays
  BY <1>0, <1>5, HandleIsOwn DEF OnlyOf
<1>6. ASSUME Handle(w)
      PROVE  visit'[w] = visit[w] /\ ~(Busy(w) /\ Call(w) = "addItem" /\ todo[w] # <<>>)'
  <2>1. visit' = visit /\ Busy(w)
    BY <1>0, <1>6, HandleIsOwn DEF OnlyOf
  <2>2. Call(w) # "addItem" \/ todo[w] = <<>>
    BY <1>0, <2>1
  <2>3. CASE Answer(w)
    <3>1. calls' = [calls EXCEPT ![w] = Tail(calls[w])]
      BY <2>3 DEF Answer
    <3>2. calls'[w] = Tail(calls[w])
      BY <1>0, <3>1 DEF PriceInv, Typed
    <3>3. calls[w] \in CallsLeft(visit[w].page) /\ visit[w].page \in PageNames /\ calls[w] # <<>>
      BY <1>0, <2>1, VisitIs
    <3>4. Tail(calls[w]) # <<>> => Head(Tail(calls[w])) # "addItem"
      BY <3>3 DEF CallsLeft, Pages, PageNames, CallNames
    <3> QED BY <2>1, <3>2, <3>4 DEF Busy, Call
  <2>4. CASE ~Answer(w)
    <3>1. calls' = calls /\ todo[w] # <<>>
      BY <1>6, <2>4 DEF Handle, LoadUser, LoadStore, LoadPrices, LoadCoupon, TruncateUser, WriteUser,
                        TruncateStore, WriteStore, At, Advance
    <3> QED BY <2>1, <2>2, <3>1 DEF Busy, Call
  <2> QED BY <2>3, <2>4
<1> QED BY <1>0, <1>1, <1>2, <1>3, <1>4, <1>5, <1>6 DEF Next

\* Additions are of whole numbers, and some.
LEMMA CountsAre ==
  ASSUME PriceInv, NEW u, NEW i
  PROVE  \A v \in Adds(u, i) : Count(v) \in Int
<1> SUFFICES ASSUME NEW v \in Adds(u, i) PROVE Count(v) \in Int
  OBVIOUS
<1>1. v \in Visits /\ visit[v] # None /\ visit[v].page \in {"addItem", "addItemPage"} /\ Count(v) # NotANumber
  BY DEF Adds, Asks
<1>2. PICK w \in Visits : visit[v] \in MayVisit[w]
  BY <1>1 DEF PriceInv, Typed, Wishes
<1> QED BY <1>1, <1>2, RequestsAssumption DEF Count

LEMMA AddsFinite ==
  ASSUME NEW u, NEW i, IsFiniteSet({v \in Visits : visit[v] # None})
  PROVE  IsFiniteSet(Adds(u, i)) /\ IsFiniteSet(Added(u, i))
<1>1. Added(u, i) \subseteq Adds(u, i) /\ Adds(u, i) \subseteq {v \in Visits : visit[v] # None}
  BY DEF Added, Adds, Asks
<1> QED BY <1>1, FS_Subset

\* What some counts add, and what they take away.
GainOf(d) == SumFunction([v \in {w \in DOMAIN d : d[w] > 0} |-> d[v]])
LossOf(d) == SumFunction([v \in {w \in DOMAIN d : d[w] < 0} |-> -d[v]])

\* More additions of counts as they were give a range that has the old one, and the old
\* one moved by the count of one that is new.
LEMMA RangeGrows ==
  ASSUME NEW S, NEW T, S \subseteq T, IsFiniteSet(T), NEW c \in [T -> Int], NEW d \in [S -> Int],
         \A v \in S : c[v] = d[v]
  PROVE  /\ GainOf(d) \in Nat /\ LossOf(d) \in Nat /\ GainOf(c) \in Nat /\ LossOf(c) \in Nat
         /\ \A n \in -LossOf(d) .. GainOf(d) : n \in -LossOf(c) .. GainOf(c)
         /\ \A n \in -LossOf(d) .. GainOf(d), v \in T :
              v \notin S => n + c[v] \in -LossOf(c) .. GainOf(c)
<1> PICK gains, losses, more, less :
      gains = GainOf(d) /\ losses = LossOf(d) /\ more = GainOf(c) /\ less = LossOf(c)
  OBVIOUS
<1> DEFINE gain == [v \in {w \in S : d[w] > 0} |-> d[v]]
           gained == [v \in {w \in T : c[w] > 0} |-> c[v]]
           loss == [v \in {w \in S : d[w] < 0} |-> -d[v]]
           lost == [v \in {w \in T : c[w] < 0} |-> -c[v]]
<1>1. /\ DOMAIN gain \subseteq DOMAIN gained /\ DOMAIN gained \subseteq T
      /\ \A x \in DOMAIN gained : gained[x] \in Nat /\ gained[x] = c[x]
      /\ \A x \in DOMAIN gain : gain[x] = gained[x]
      /\ \A x \in T : x \in DOMAIN gained <=> c[x] > 0
      /\ DOMAIN gain \subseteq S
  <2>1. /\ DOMAIN gain = {w \in S : d[w] > 0} /\ DOMAIN gained = {w \in T : c[w] > 0}
        /\ \A x \in DOMAIN gain : gain[x] = d[x]
        /\ \A x \in DOMAIN gained : gained[x] = c[x]
    OBVIOUS
  <2> HIDE DEF gain, gained
  <2>2. \A x \in DOMAIN gained : x \in T /\ c[x] \in Int /\ c[x] > 0
    BY <2>1
  <2>3. \A x \in DOMAIN gain : x \in S /\ c[x] = d[x] /\ x \in DOMAIN gained
    BY <2>1
  <2> QED BY <2>1, <2>2, <2>3
<1>2. /\ DOMAIN loss \subseteq DOMAIN lost /\ DOMAIN lost \subseteq T
      /\ \A x \in DOMAIN lost : lost[x] \in Nat /\ lost[x] = -c[x]
      /\ \A x \in DOMAIN loss : loss[x] = lost[x]
      /\ \A x \in T : x \in DOMAIN lost <=> c[x] < 0
      /\ DOMAIN loss \subseteq S
  <2>1. /\ DOMAIN loss = {w \in S : d[w] < 0} /\ DOMAIN lost = {w \in T : c[w] < 0}
        /\ \A x \in DOMAIN loss : loss[x] = -d[x]
        /\ \A x \in DOMAIN lost : lost[x] = -c[x]
    OBVIOUS
  <2> HIDE DEF loss, lost
  <2>2. \A x \in DOMAIN lost : x \in T /\ c[x] \in Int /\ c[x] < 0
    BY <2>1
  <2>3. \A x \in DOMAIN loss : x \in S /\ c[x] = d[x] /\ x \in DOMAIN lost
    BY <2>1
  <2> QED BY <2>1, <2>2, <2>3
<1>3. gains = SumFunction(gain) /\ losses = SumFunction(loss)
      /\ more = SumFunction(gained) /\ less = SumFunction(lost)
  <2>1. DOMAIN d = S /\ DOMAIN c = T
    OBVIOUS
  <2> QED BY <2>1 DEF GainOf, LossOf
<1> HIDE DEF gain, gained, loss, lost
<1>4. IsFiniteSet(DOMAIN gained) /\ IsFiniteSet(DOMAIN lost)
  BY <1>1, <1>2, FS_Subset
<1>5. /\ gains \in Nat /\ more \in Nat /\ gains <= more
      /\ \A x \in DOMAIN gained : x \notin DOMAIN gain => gains + gained[x] <= more
  <2>1. /\ DOMAIN gain \subseteq DOMAIN gained /\ (\A x \in DOMAIN gained : gained[x] \in Nat)
        /\ \A x \in DOMAIN gain : gain[x] = gained[x]
    BY <1>1
  <2>2. /\ SumFunction(gain) \in Nat /\ SumFunction(gained) \in Nat
        /\ SumFunction(gain) <= SumFunction(gained)
        /\ \A x \in DOMAIN gained : x \notin DOMAIN gain =>
             SumFunction(gain) + gained[x] <= SumFunction(gained)
    BY <1>4, <2>1, SumExtends, Zenon
  <2> QED BY <1>3, <2>2, Zenon
<1>6. /\ losses \in Nat /\ less \in Nat /\ losses <= less
      /\ \A x \in DOMAIN lost : x \notin DOMAIN loss => losses + lost[x] <= less
  <2>1. /\ DOMAIN loss \subseteq DOMAIN lost /\ (\A x \in DOMAIN lost : lost[x] \in Nat)
        /\ \A x \in DOMAIN loss : loss[x] = lost[x]
    BY <1>2
  <2>2. /\ SumFunction(loss) \in Nat /\ SumFunction(lost) \in Nat
        /\ SumFunction(loss) <= SumFunction(lost)
        /\ \A x \in DOMAIN lost : x \notin DOMAIN loss =>
             SumFunction(loss) + lost[x] <= SumFunction(lost)
    BY <1>4, <2>1, SumExtends, Zenon
  <2> QED BY <1>3, <2>2, Zenon
<1>7. ASSUME NEW n \in -losses .. gains, NEW v \in T, v \notin S PROVE n + c[v] \in -less .. more
  <2>1. c[v] \in Int /\ n \in Int /\ -losses <= n /\ n <= gains
    BY <1>5, <1>6
  <2>2. c[v] > 0 => gains + c[v] <= more
    BY <1>1, <1>5, <1>7
  <2>3. c[v] < 0 => losses + (-c[v]) <= less
    BY <1>2, <1>6, <1>7
  <2> PICK k : k = c[v]
    OBVIOUS
  <2>4. n + k <= more /\ -less <= n + k /\ n + k \in Int
    BY <1>5, <1>6, <2>1, <2>2, <2>3
  <2> PICK s : s = n + k
    OBVIOUS
  <2>5. s \in -less .. more
    <3>1. s \in Int /\ -less <= s /\ s <= more /\ -less \in Int /\ more \in Int
      BY <1>5, <1>6, <2>4
    <3> QED BY <3>1
  <2> QED BY <2>5
<1>8. ASSUME NEW n \in -losses .. gains PROVE n \in -less .. more
  <2>1. n \in Int /\ -less <= n /\ n <= more /\ -less \in Int /\ more \in Int
    BY <1>5, <1>6
  <2> QED BY <2>1
<1> QED BY <1>5, <1>6, <1>7, <1>8

\* What there is of additions, in terms of their counts.
LEMMA RangeIs ==
  ASSUME NEW S, NEW d, d = [v \in S |-> Count(v)]
  PROVE  Gains(S) = GainOf(d) /\ Losses(S) = LossOf(d)
<1>1. DOMAIN d = S /\ \A w \in S : d[w] = Count(w)
  OBVIOUS
<1>2. {w \in S : Count(w) > 0} = {w \in S : d[w] > 0} /\ {w \in S : Count(w) < 0} = {w \in S : d[w] < 0}
  BY <1>1
<1>3. /\ [v \in {w \in S : Count(w) > 0} |-> Count(v)] = [v \in {w \in S : d[w] > 0} |-> d[v]]
      /\ [v \in {w \in S : Count(w) < 0} |-> -Count(v)] = [v \in {w \in S : d[w] < 0} |-> -d[v]]
  BY <1>1, <1>2
<1> QED BY <1>1, <1>3 DEF Gains, Losses, GainOf, LossOf

LEMMA AddedGrow ==
  ASSUME PriceInv, OwnInv, Purchases, [Next]_vars, NEW u, NEW i
  PROVE  /\ 0 \in FromAdded(u, i) /\ FromAdded(u, i) \subseteq FromAdded(u, i)'
         /\ \A n \in FromAdded(u, i), v \in Added(u, i)' :
              v \notin Added(u, i) => n + Count(v)' \in FromAdded(u, i)'
<1>1. PICK S : S = Added(u, i)
  OBVIOUS
<1>2. PICK T : T = Added(u, i)'
  OBVIOUS
<1>3. PICK d : d = [v \in S |-> Count(v)]
  OBVIOUS
<1>4. PICK c : c = [v \in T |-> Count(v)']
  OBVIOUS
<1>5. S \subseteq T /\ \A v \in S : c[v] = d[v]
  <2>1. ASSUME NEW v \in S PROVE v \in T /\ Count(v)' = Count(v)
    BY <1>1, <1>2, AddedStays DEF Count
  <2> QED BY <1>3, <1>4, <2>1
<1>6. \A v \in S : Count(v) \in Int
  BY <1>1, CountsAre DEF Added
<1>7. \A v \in T : Count(v)' \in Int
  <2>1. PriceInv'
    BY StepKeeps
  <2>2. (PriceInv => \A v \in Adds(u, i) : Count(v) \in Int)'
    BY CountsAre, PTL
  <2> QED BY <1>2, <2>1, <2>2 DEF Added
<1>8. IsFiniteSet(T)
  <2>1. IsFiniteSet({v \in Visits : visit[v] # None})'
    BY MadeVisits
  <2>2. (IsFiniteSet({v \in Visits : visit[v] # None}) => IsFiniteSet(Added(u, i)))'
    BY AddsFinite, PTL
  <2> QED BY <1>2, <2>1, <2>2
<1>9. c \in [T -> Int] /\ d \in [S -> Int] /\ \A v \in T : c[v] = Count(v)'
  BY <1>3, <1>4, <1>6, <1>7
<1>10. Gains(S) = GainOf(d) /\ Losses(S) = LossOf(d)
  BY <1>3, RangeIs
<1>11. Gains(T)' = GainOf(c) /\ Losses(T)' = LossOf(c)
  <2>1. /\ {w \in T : Count(w)' > 0} = {w \in DOMAIN c : c[w] > 0}
        /\ {w \in T : Count(w)' < 0} = {w \in DOMAIN c : c[w] < 0}
    BY <1>9
  <2>2. /\ [v \in {w \in T : Count(w)' > 0} |-> Count(v)'] = [v \in {w \in DOMAIN c : c[w] > 0} |-> c[v]]
        /\ [v \in {w \in T : Count(w)' < 0} |-> -Count(v)'] = [v \in {w \in DOMAIN c : c[w] < 0} |-> -c[v]]
    BY <1>9, <2>1
  <2> QED BY <2>2 DEF Gains, Losses, GainOf, LossOf
<1>12. PICK gains, losses, more, less :
         gains = GainOf(d) /\ losses = LossOf(d) /\ more = GainOf(c) /\ less = LossOf(c)
  OBVIOUS
<1>13. /\ gains \in Nat /\ losses \in Nat /\ more \in Nat /\ less \in Nat
       /\ \A n \in -losses .. gains : n \in -less .. more
       /\ \A n \in -losses .. gains, v \in T : v \notin S => n + c[v] \in -less .. more
  <2>1. /\ S \subseteq T /\ IsFiniteSet(T) /\ c \in [T -> Int] /\ d \in [S -> Int]
        /\ \A v \in S : c[v] = d[v]
    BY <1>5, <1>8, <1>9
  <2> QED BY <2>1, <1>12, RangeGrows
<1>14. FromAdded(u, i) = -losses .. gains /\ FromAdded(u, i)' = -less .. more
  BY <1>1, <1>2, <1>10, <1>11, <1>12 DEF FromAdded
<1>15. 0 \in -losses .. gains
  BY <1>13
<1>16. ASSUME NEW n \in FromAdded(u, i) PROVE n \in FromAdded(u, i)'
  BY <1>13, <1>14
<1>17. ASSUME NEW n \in FromAdded(u, i), NEW v \in Added(u, i)', v \notin Added(u, i)
       PROVE  n + Count(v)' \in FromAdded(u, i)'
  <2>1. n \in -losses .. gains /\ v \in T /\ v \notin S /\ c[v] = Count(v)'
    BY <1>1, <1>2, <1>9, <1>14, <1>17
  <2>2. n + c[v] \in -less .. more
    BY <1>13, <2>1, Zenon
  <2> QED BY <1>14, <2>1, <2>2, Zenon
<1> QED BY <1>14, <1>15, <1>16, <1>17

\* The addition that a handler saves counts once it is saved.
LEMMA SavedIsAdded ==
  ASSUME PriceInv, OwnInv, NEW v \in Visits, WriteUser(v), Call(v) = "addItem"
  PROVE  \E j \in Items :
           /\ \A i \in Items : UserToSave(v).basket[i] = loaded[v].basket[i] + IF i = j THEN Count(v) ELSE 0
           /\ v \notin Added(User(v), j) /\ v \in Added(User(v), j)' /\ Count(v)' = Count(v)
<1>0. PICK j : j = visit[v].item
  OBVIOUS
<1>1. Busy(v) /\ todo[v] # <<>> /\ Head(todo[v]) = "WriteUser"
  BY AtIsBusy DEF WriteUser
<1>2. /\ visit[v] # None /\ visit[v].page \in {"addItem", "addItemPage"} /\ j \in Items
      /\ todo[v] \in Rests("addItem") /\ Call(v) \in CallNames
      /\ visit[v].page = "addItem" => visit[v].amount \in Int
  BY <1>0, <1>1, VisitIs
<1>3. Count(v) \in Int /\ Count(v) # NotANumber
  BY <1>2, RequestsAssumption DEF Count
<1>4. v \in Adds(User(v), j)
  BY <1>0, <1>2, <1>3 DEF Adds, Asks
<1>5. visit' = visit /\ todo' = [todo EXCEPT ![v] = Tail(todo[v])] /\ Tail(todo[v]) = <<>>
  BY <1>1, <1>2, RestsOfCall DEF WriteUser, Advance
<1>6. todo'[v] = <<>>
  BY <1>5 DEF PriceInv, Typed
<1>7. v \notin Added(User(v), j) /\ Count(v)' = Count(v)
  BY <1>1, <1>5 DEF Added, Count
<1>8. v \in Added(User(v), j)'
  <2>1. v \in Adds(User(v), j)'
    BY <1>4, <1>5 DEF Adds, Asks, User, Count
  <2> QED BY <1>6, <2>1 DEF Added
<1>9. loaded[v] \in Accounts /\ loaded[v].basket \in [Items -> Int]
  BY OrderIs DEF Accounts, Baskets
<1>10. UserToSave(v) = [loaded[v] EXCEPT !.basket[j] = @ + Count(v)]
  BY <1>0 DEF UserToSave, WithItem, Count
<1> PICK n : n = Count(v)
  OBVIOUS
<1>11. \A i \in Items : UserToSave(v).basket[i] = loaded[v].basket[i] + IF i = j THEN n ELSE 0
  <2>1. UserToSave(v).basket = [loaded[v].basket EXCEPT ![j] = @ + n]
    BY <1>9, <1>10 DEF Accounts
  <2> QED BY <1>2, <1>9, <2>1
<1>12. \A i \in Items : UserToSave(v).basket[i] = loaded[v].basket[i] + IF i = j THEN Count(v) ELSE 0
  BY <1>11
<1> QED BY <1>2, <1>7, <1>8, <1>12, Zenon

LEMMA AdditionsNext == PriceInv /\ OwnInv /\ Purchases /\ Additions /\ [Next]_vars => Additions'
<1> SUFFICES ASSUME PriceInv, OwnInv, Purchases, Additions, [Next]_vars, NEW i \in Items
             PROVE  /\ \A u \in Users : Load(users'[u], BlankUser).basket[i] \in FromAdded(u, i)'
                    /\ \A w \in Visits :
                         IF visit'[w] = None THEN loaded'[w] = BlankUser
                         ELSE loaded'[w].basket[i] \in FromAdded(User(w), i)'
  BY DEF Additions, Load
<1>1. BlankUser.basket[i] = 0
  BY DEF BlankUser, Empty
<1>2. \A v \in Visits : loaded[v] \in Accounts /\ loaded[v].basket \in [Items -> Int]
  BY DEF OwnInv, AccountsTyped, Accounts, Baskets
<1>3. ASSUME NEW u \in Users PROVE Load(users'[u], BlankUser).basket[i] \in FromAdded(u, i)'
  <2>1. 0 \in FromAdded(u, i)' /\ FromAdded(u, i) \subseteq FromAdded(u, i)'
    BY AddedGrow
  <2>2. CASE users'[u] = users[u]
    BY <2>1, <2>2 DEF Additions
  <2>3. CASE users'[u] \in Broken
    BY <1>1, <2>1, <2>3 DEF Load, Broken
  <2>4. ASSUME NEW v \in Visits, WriteUser(v), User(v) = u, users'[u] = UserToSave(v)
        PROVE  Load(users'[u], BlankUser).basket[i] \in FromAdded(u, i)'
    <3>1. Busy(v) /\ todo[v] # <<>> /\ Head(todo[v]) = "WriteUser" /\ visit[v] # None
      BY <2>4, AtIsBusy, VisitIs DEF WriteUser
    <3>2. /\ UserToSave(v) \in Accounts /\ Call(v) \in {"purchase", "addItem", "reset"}
          /\ Call(v) = "purchase" => UserToSave(v) = Purchased(v)
          /\ Call(v) = "reset" => UserToSave(v) = BlankUser
      BY <3>1, SavedIs
    <3>3. Load(users'[u], BlankUser) = UserToSave(v)
      BY <2>4, <3>2, LoadTyped
    <3>4. CASE Call(v) \in {"purchase", "reset"}
      <4>1. UserToSave(v).basket = Empty
        BY <3>2, <3>4 DEF Purchased, BlankUser
      <4> QED BY <2>1, <3>3, <4>1 DEF Empty
    <3>5. CASE Call(v) = "addItem"
      <4>1. PICK j \in Items :
              /\ UserToSave(v).basket[i] = loaded[v].basket[i] + IF i = j THEN Count(v) ELSE 0
              /\ v \notin Added(u, j) /\ v \in Added(u, j)' /\ Count(v)' = Count(v)
        <5>1. PICK j \in Items :
                /\ UserToSave(v).basket[i] = loaded[v].basket[i] + IF i = j THEN Count(v) ELSE 0
                /\ v \notin Added(User(v), j) /\ v \in Added(User(v), j)' /\ Count(v)' = Count(v)
          BY <2>4, <3>5, SavedIsAdded
        <5>2. visit' = visit
          BY <2>4 DEF WriteUser
        <5>3. Added(User(v), j)' = Added(u, j)'
          BY <2>4, <5>2 DEF User, Added, Adds, Asks
        <5> QED BY <2>4, <5>1, <5>3
      <4>2. loaded[v].basket[i] \in FromAdded(u, i) /\ loaded[v].basket[i] \in Int
        BY <1>2, <2>4, <3>1 DEF Additions
      <4>3. CASE i = j
        <5>1. loaded[v].basket[i] + Count(v)' \in FromAdded(u, i)'
          BY <4>1, <4>2, <4>3, AddedGrow
        <5> QED BY <3>3, <4>1, <4>3, <5>1
      <4>4. CASE i # j
        <5>1. UserToSave(v).basket[i] = loaded[v].basket[i]
          BY <4>1, <4>2, <4>4
        <5> QED BY <2>1, <3>3, <4>2, <5>1
      <4> QED BY <4>3, <4>4
    <3> QED BY <3>2, <3>4, <3>5
  <2> QED BY <2>2, <2>3, <2>4, FileChanges
<1>4. ASSUME NEW w \in Visits
      PROVE  IF visit'[w] = None THEN loaded'[w] = BlankUser
             ELSE loaded'[w].basket[i] \in FromAdded(User(w), i)'
  <2> PICK u : u = User(w)'
    OBVIOUS
  <2>1. FromAdded(User(w), i)' = FromAdded(u, i)'
    BY DEF FromAdded, Added, Adds, Asks
  <2>2. 0 \in FromAdded(u, i)' /\ FromAdded(u, i) \subseteq FromAdded(u, i)'
    BY AddedGrow
  <2>3. CASE visit[w] = None /\ loaded'[w] = loaded[w]
    BY <1>1, <2>1, <2>2, <2>3 DEF Additions
  <2>4. CASE visit[w] # None /\ visit'[w] = visit[w]
    <3>1. u = User(w)
      BY <2>4 DEF User
    <3>2. CASE loaded'[w] = loaded[w]
      BY <2>1, <2>2, <2>4, <3>1, <3>2 DEF Additions
    <3>3. CASE User(w) \in Users /\ loaded'[w] = Load(users[User(w)], BlankUser)
      BY <2>1, <2>2, <2>4, <3>1, <3>3 DEF Additions
    <3>4. CASE loaded'[w] = BlankUser
      BY <1>1, <2>1, <2>2, <2>4, <3>4
    <3> QED BY <2>4, <3>2, <3>3, <3>4, ReadChanges
  <2> QED BY <2>3, <2>4, ReadChanges
<1> QED BY <1>3, <1>4

\* Whatever users do at once, and whatever fails, no basket in a file has more of an item,
\* or less, than its user has added: none that another has added, and nothing added twice
\* (LoadUser, SaveUser).
THEOREM ItemsAreAsked == Spec => []ItemsAsked
<1>1. Init => PriceInv /\ OwnInv /\ Purchases /\ Additions
  <2> SUFFICES ASSUME Init PROVE Additions
    BY InitEstablishes, OwnInit, PurchasesStart
  <2>1. \A v \in Visits : visit[v] = None /\ loaded[v] = BlankUser
    BY DEF Init
  <2>2. \A u \in Users, i \in Items : Load(users[u], BlankUser).basket[i] = 0
    BY DEF Init, Load, BlankUser, Empty
  <2>3. ASSUME NEW u, NEW i PROVE 0 \in FromAdded(u, i)
    <3>1. Added(u, i) = {}
      BY <2>1 DEF Added, Adds, Asks
    <3> DEFINE d == [v \in {} |-> Count(v)]
    <3>2. Gains(Added(u, i)) = GainOf(d) /\ Losses(Added(u, i)) = LossOf(d)
      BY <3>1, RangeIs
    <3>3. GainOf(d) \in Nat /\ LossOf(d) \in Nat
      <4>1. d \in [{} -> Int] /\ IsFiniteSet({})
        BY FS_EmptySet
      <4> HIDE DEF d
      <4> QED BY <4>1, RangeGrows
    <3> QED BY <3>2, <3>3 DEF FromAdded
  <2> QED BY <2>1, <2>2, <2>3 DEF Additions
<1>2. (PriceInv /\ OwnInv /\ Purchases /\ Additions) /\ [Next]_vars
        => (PriceInv /\ OwnInv /\ Purchases /\ Additions)'
  BY StepKeeps, OwnNext, PurchasesNext, AdditionsNext
<1>3. PriceInv /\ OwnInv /\ Purchases /\ Additions => ItemsAsked
  <2> SUFFICES ASSUME PriceInv, Purchases, Additions, NEW u \in Users, NEW i \in Items
               PROVE  Load(users[u], BlankUser).basket[i] \in -Losses(Adds(u, i)) .. Gains(Adds(u, i))
    BY DEF ItemsAsked
  <2> DEFINE c == [v \in Adds(u, i) |-> Count(v)]
             d == [v \in Added(u, i) |-> Count(v)]
  <2>1. Added(u, i) \subseteq Adds(u, i) /\ IsFiniteSet(Adds(u, i))
    BY AddsFinite DEF Added, Purchases
  <2>2. /\ c \in [Adds(u, i) -> Int] /\ d \in [Added(u, i) -> Int]
        /\ \A v \in Added(u, i) : c[v] = d[v]
    BY <2>1, CountsAre
  <2>3. /\ Gains(Adds(u, i)) = GainOf(c) /\ Losses(Adds(u, i)) = LossOf(c)
        /\ Gains(Added(u, i)) = GainOf(d) /\ Losses(Added(u, i)) = LossOf(d)
    BY RangeIs
  <2> HIDE DEF c, d
  <2>4. \A n \in -LossOf(d) .. GainOf(d) : n \in -LossOf(c) .. GainOf(c)
    BY <2>1, <2>2, RangeGrows
  <2>5. Load(users[u], BlankUser).basket[i] \in -LossOf(d) .. GainOf(d)
    BY <2>3 DEF Additions, FromAdded
  <2>6. Load(users[u], BlankUser).basket[i] \in -LossOf(c) .. GainOf(c)
    BY <2>4, <2>5, Zenon
  <2> QED BY <2>3, <2>6, Zenon
<1> QED BY <1>1, <1>2, <1>3, PTL DEF Spec

\* The files are typed, whatever state a crash or a torn write leaves them in, and an
\* account has no item and no order that its user has not asked for.
THEOREM AccountsAreTheirs == Spec => []AccountsAreOwn
<1>1. ShopTypeOK /\ ItemsAsked /\ OrdersAsked => AccountsAreOwn
  BY DEF AccountsAreOwn
<1> QED BY <1>1, FilesTyped, ItemsAreAsked, OrdersAreAsked, PTL

-----------------------------------------------------------------------------
(* What bundles cost.                                                      *)

Cost(b) == Total([i \in Items |-> b[i] * ListPrices[i]])

LEMMA BundlesCostLess ==
  ASSUME IsFiniteSet(Items), NEW b \in Baskets
  PROVE  Cost(recalculateBasket(b)) <= Cost(b)
<1>1. PICK n : n = Rounds(b)
  OBVIOUS
<1>2. PICK c : c = recalculateBasket(b)
  OBVIOUS
<1>3. n \in Nat /\ Bundled(b, n, c) /\ c \in Baskets
  <2>1. n \in Nat
    BY <1>1, RoundsEnd DEF Baskets
  <2>2. Bundled(b, n, c)
    BY <1>1, <1>2, <2>1, AfterRoundsCounts DEF recalculateBasket, Baskets
  <2> QED BY <2>1, <2>2 DEF Bundled, Baskets
<1>4. /\ ListPrices["fruitComboSet"] = 12600 /\ ListPrices["pear"] = 3000
      /\ ListPrices["banana"] = 2000 /\ \A i \in Items : ListPrices[i] \in Int
  BY ItemsAssumption, ListTyped DEF ListPrices, Baskets
<1>5. PICK f : f = [i \in Items |-> b[i] * ListPrices[i]]
  OBVIOUS
<1>6. PICK g : g = [i \in Items |-> c[i] * ListPrices[i]]
  OBVIOUS
<1>7. /\ \A i \in Items : f[i] = b[i] * ListPrices[i] /\ g[i] = c[i] * ListPrices[i]
      /\ DOMAIN f = Items /\ DOMAIN g = Items
  BY <1>5, <1>6
<1>8. ASSUME NEW i \in Items PROVE f[i] \in Int /\ g[i] \in Int
  <2> PICK x, y, z : x = b[i] /\ y = c[i] /\ z = ListPrices[i]
    OBVIOUS
  <2>1. x \in Int /\ y \in Int /\ z \in Int
    BY <1>3, <1>4 DEF Baskets
  <2>2. x * z \in Int /\ y * z \in Int
    BY <2>1
  <2>3. f[i] = x * z /\ g[i] = y * z
    BY <1>7
  <2> QED BY <2>2, <2>3
<1>9. PICK T, U, V : /\ T = Items \ {"fruitComboSet"} /\ U = T \ {"pear"} /\ V = U \ {"banana"}
  OBVIOUS
<1>10. /\ "fruitComboSet" \in Items /\ "pear" \in T /\ "banana" \in U
       /\ T \subseteq Items /\ U \subseteq Items /\ V \subseteq Items
  BY <1>9, ItemsAssumption
<1>11. IsFiniteSet(T) /\ IsFiniteSet(U) /\ IsFiniteSet(V)
  BY <1>10, FS_Subset
<1>12. ASSUME NEW h \in {f, g}
       PROVE  /\ SumFunctionOnSet(h, Items) =
                   h["fruitComboSet"] + (h["pear"] + (h["banana"] + SumFunctionOnSet(h, V)))
              /\ SumFunctionOnSet(h, V) \in Int
  <2>1. (\A i \in Items : h[i] \in Int) /\ (\A i \in T : h[i] \in Int) /\ (\A i \in U : h[i] \in Int)
    BY <1>8, <1>10
  <2>2. SumFunctionOnSet(h, Items) = h["fruitComboSet"] + SumFunctionOnSet(h, T)
    BY <1>9, <1>10, <2>1, SumTakes
  <2>3. SumFunctionOnSet(h, T) = h["pear"] + SumFunctionOnSet(h, U)
    BY <1>9, <1>10, <1>11, <2>1, SumTakes
  <2>4. SumFunctionOnSet(h, U) = h["banana"] + SumFunctionOnSet(h, V) /\ SumFunctionOnSet(h, V) \in Int
    BY <1>9, <1>10, <1>11, <2>1, SumTakes
  <2> QED BY <2>2, <2>3, <2>4
<1>13. SumFunctionOnSet(f, V) = SumFunctionOnSet(g, V)
  <2>1. \A i \in V : f[i] = g[i]
    <3>1. \A i \in V : i \in Items /\ b[i] = c[i]
      BY <1>3, <1>9, <1>10 DEF Bundled
    <3> QED BY <1>7, <3>1
  <2> QED BY <1>11, <2>1, SumSame
<1>14. /\ g["fruitComboSet"] = (b["fruitComboSet"] + n) * 12600
       /\ g["pear"] = (b["pear"] - 4 * n) * 3000 /\ g["banana"] = (b["banana"] - 2 * n) * 2000
       /\ f["fruitComboSet"] = b["fruitComboSet"] * 12600
       /\ f["pear"] = b["pear"] * 3000 /\ f["banana"] = b["banana"] * 2000
  BY <1>3, <1>4, <1>7, <1>9, <1>10 DEF Bundled
<1>15. b["fruitComboSet"] \in Int /\ b["pear"] \in Int /\ b["banana"] \in Int
  BY ItemsAssumption DEF Baskets
<1>16. SumFunctionOnSet(g, Items) <= SumFunctionOnSet(f, Items)
  <2> PICK s, x, y, z : /\ s = SumFunctionOnSet(f, V) /\ x = b["fruitComboSet"]
                        /\ y = b["pear"] /\ z = b["banana"]
    OBVIOUS
  <2>1. s \in Int /\ x \in Int /\ y \in Int /\ z \in Int /\ n \in Nat
    BY <1>3, <1>12, <1>15
  <2>2. SumFunctionOnSet(f, Items) = x * 12600 + (y * 3000 + (z * 2000 + s))
    BY <1>12, <1>14
  <2>3. SumFunctionOnSet(g, Items) =
          (x + n) * 12600 + ((y - 4 * n) * 3000 + ((z - 2 * n) * 2000 + s))
    BY <1>12, <1>13, <1>14
  <2>4. (x + n) * 12600 + ((y - 4 * n) * 3000 + ((z - 2 * n) * 2000 + s))
          <= x * 12600 + (y * 3000 + (z * 2000 + s))
    BY <2>1
  <2> QED BY <2>2, <2>3, <2>4
<1> QED BY <1>2, <1>5, <1>6, <1>7, <1>16 DEF Cost, Total, SumFunction

\* One apple more, and there are the bundles that there were.
LEMMA AppleAdded ==
  ASSUME NEW b \in Baskets
  PROVE  LET more == [b EXCEPT !["apple"] = @ + 1]
         IN /\ more \in Baskets
            /\ recalculateBasket(more) \in Baskets /\ recalculateBasket(b) \in Baskets
            /\ recalculateBasket(b)["apple"] = b["apple"]
            /\ recalculateBasket(more)["apple"] = b["apple"] + 1
            /\ \A i \in Items \ {"apple"} : recalculateBasket(more)[i] = recalculateBasket(b)[i]
<1> PICK more : more = [b EXCEPT !["apple"] = @ + 1]
  OBVIOUS
<1>1. /\ more \in Baskets /\ more["apple"] = b["apple"] + 1
      /\ \A i \in Items \ {"apple"} : more[i] = b[i]
  BY ItemsAssumption DEF Baskets
<1>2. \A k \in Int : MoreRounds(AfterRounds(more, k)) <=> MoreRounds(AfterRounds(b, k))
  <2> SUFFICES ASSUME NEW k \in Int
               PROVE  MoreRounds(AfterRounds(more, k)) <=> MoreRounds(AfterRounds(b, k))
    OBVIOUS
  <2>1. Bundled(b, k, AfterRounds(b, k)) /\ Bundled(more, k, AfterRounds(more, k))
    BY <1>1, AfterRoundsCounts DEF Baskets
  <2>2. b["pear"] = more["pear"] /\ b["banana"] = more["banana"]
    BY <1>1, ItemsAssumption
  <2> QED BY <2>1, <2>2 DEF Bundled, MoreRounds
<1>3. Rounds(more) = Rounds(b)
  <2> PICK most : most = IF b["pear"] > 0 THEN b["pear"] ELSE 0
    OBVIOUS
  <2>1. most = IF more["pear"] > 0 THEN more["pear"] ELSE 0
    BY <1>1, ItemsAssumption
  <2>2. \A n \in 0 .. most : n \in Int /\ n - 1 \in Int
    OBVIOUS
  <2>3. \A n \in 0 .. most :
          /\ MoreRounds(AfterRounds(more, n)) <=> MoreRounds(AfterRounds(b, n))
          /\ MoreRounds(AfterRounds(more, n - 1)) <=> MoreRounds(AfterRounds(b, n - 1))
    BY <1>2, <2>2
  <2> DEFINE ends(x, n) == /\ ~MoreRounds(AfterRounds(x, n))
                           /\ n > 0 => MoreRounds(AfterRounds(x, n - 1))
  <2>4. Rounds(more) = CHOOSE n \in 0 .. most : ends(more, n)
    BY <2>1 DEF Rounds
  <2>5. Rounds(b) = CHOOSE n \in 0 .. most : ends(b, n)
    BY DEF Rounds
  <2>6. \A n \in 0 .. most : ends(more, n) <=> ends(b, n)
    BY <2>3
  <2> HIDE DEF ends
  <2> QED BY <2>4, <2>5, <2>6
<1>4. Rounds(b) \in Nat
  BY RoundsEnd DEF Baskets
<1>5. Bundled(b, Rounds(b), recalculateBasket(b)) /\ Bundled(more, Rounds(b), recalculateBasket(more))
  <2> PICK k : k = Rounds(b)
    OBVIOUS
  <2>1. recalculateBasket(b) = AfterRounds(b, k) /\ recalculateBasket(more) = AfterRounds(more, k)
    BY <1>3 DEF recalculateBasket
  <2>2. k \in Int /\ b \in [Items -> Int] /\ more \in [Items -> Int]
    BY <1>1, <1>4 DEF Baskets
  <2>3. Bundled(b, k, AfterRounds(b, k)) /\ Bundled(more, k, AfterRounds(more, k))
    BY <2>2, AfterRoundsCounts
  <2> QED BY <2>1, <2>3
<1> PICK c, d, n : c = recalculateBasket(b) /\ d = recalculateBasket(more) /\ n = Rounds(b)
  OBVIOUS
<1>6. c \in Baskets /\ d \in Baskets /\ c["apple"] = b["apple"] /\ d["apple"] = b["apple"] + 1
  BY <1>1, <1>5, ItemsAssumption DEF Bundled, Baskets
<1>7. ASSUME NEW i \in Items \ {"apple"} PROVE d[i] = c[i]
  <2>1. more[i] = b[i]
    BY <1>1
  <2> QED BY <1>1, <1>5, <2>1, ItemsAssumption DEF Bundled, Baskets
<1> QED BY <1>1, <1>6, <1>7

\* The order of one apple more costs no less: the discount from seven apples on is less
\* than an apple.
LEMMA ApplesCostMore ==
  ASSUME IsFiniteSet(Items), NEW b \in Baskets
  PROVE  Total(calculateOrder(ListPrices, b, NoCoupon))
           <= Total(calculateOrder(ListPrices, [b EXCEPT !["apple"] = @ + 1], NoCoupon))
<1> PICK more : more = [b EXCEPT !["apple"] = @ + 1]
  OBVIOUS
<1> PICK c, d : c = recalculateBasket(b) /\ d = recalculateBasket(more)
  OBVIOUS
<1>1. /\ more \in Baskets /\ c \in Baskets /\ d \in Baskets
      /\ c["apple"] = b["apple"] /\ d["apple"] = b["apple"] + 1
      /\ \A i \in Items \ {"apple"} : d[i] = c[i]
  BY AppleAdded
<1>2. PICK f : f = calculateOrder(ListPrices, b, NoCoupon)
  OBVIOUS
<1>3. PICK g : g = calculateOrder(ListPrices, more, NoCoupon)
  OBVIOUS
<1>4. f \in Baskets /\ g \in Baskets
  BY <1>1, <1>2, <1>3, OrderTyped
<1> DEFINE line(basket, i) == IF i = "apple" /\ basket[i] > 6 THEN (9 * basket[i] * ListPrices[i]) \div 10
                              ELSE basket[i] * ListPrices[i]
<1>5. \A i \in Items : f[i] = line(c, i) /\ g[i] = line(d, i)
  BY <1>2, <1>3 DEF calculateOrder, ApplyCoupon
<1>6. f["apple"] <= g["apple"]
  <2> PICK a : a = b["apple"]
    OBVIOUS
  <2>1. a \in Int /\ c["apple"] = a /\ d["apple"] = a + 1
    BY <1>1, ItemsAssumption DEF Baskets
  <2>2. ListPrices["apple"] = 1000
    BY ItemsAssumption DEF ListPrices
  <2>3. /\ f["apple"] = IF a > 6 THEN (9 * a * 1000) \div 10 ELSE a * 1000
        /\ g["apple"] = IF a + 1 > 6 THEN (9 * (a + 1) * 1000) \div 10 ELSE (a + 1) * 1000
    <3>1. f["apple"] = line(c, "apple") /\ g["apple"] = line(d, "apple")
      <4> HIDE DEF line
      <4> QED BY <1>5, ItemsAssumption
    <3> QED BY <2>1, <2>2, <3>1
  <2>4. (9 * a * 1000) \div 10 = 900 * a /\ (9 * (a + 1) * 1000) \div 10 = 900 * (a + 1)
    BY <2>1
  <2> QED BY <2>1, <2>3, <2>4
<1>7. ASSUME NEW i \in Items PROVE f[i] \in Int /\ g[i] \in Int /\ f[i] <= g[i]
  <2>1. f[i] \in Int /\ g[i] \in Int
    BY <1>4 DEF Baskets
  <2>2. i # "apple" => f[i] = g[i]
    BY <1>1, <1>5
  <2> QED BY <1>6, <2>1, <2>2
<1>8. DOMAIN f = Items /\ DOMAIN g = Items
  BY <1>4 DEF Baskets
<1>9. SumFunctionOnSet(f, Items) <= SumFunctionOnSet(g, Items)
  BY <1>7, SumCompares
<1> QED BY <1>2, <1>3, <1>8, <1>9 DEF Total, SumFunction

\* Bundles are all that can be had and never cost more than their fruit, and one apple
\* more never makes an order cheaper, whatever is in the basket and whatever the shop
\* sells besides (recalculateBasket, calculateOrder).
THEOREM BundlesAlwaysPay == ASSUME IsFiniteSet(Items) PROVE Spec => []BundlesPayOff
<1>1. BundlesPayOff
  <2> SUFFICES ASSUME NEW apples \in 5 .. 8, NEW pears \in Counts, NEW bananas \in Counts,
                      NEW b, b = [Empty EXCEPT !["apple"] = apples, !["pear"] = pears, !["banana"] = bananas]
               PROVE  LET bundled == recalculateBasket(b)
                      IN /\ recalculateBasket(bundled) = bundled
                         /\ Cost(bundled) <= Cost(b)
                         /\ \A i \in Items : b[i] >= 0 => bundled[i] >= 0
                         /\ Total(calculateOrder(ListPrices, b, NoCoupon))
                              <= Total(calculateOrder(ListPrices, [b EXCEPT !["apple"] = @ + 1], NoCoupon))
    BY DEF BundlesPayOff, Cost
  <2>1. b \in Baskets
    <3>1. apples \in Int /\ pears \in Int /\ bananas \in Int
      BY DEF Counts
    <3>2. \A x \in [Items -> Int], n \in Int, i \in {"apple", "pear", "banana"} : [x EXCEPT ![i] = n] \in [Items -> Int]
      OBVIOUS
    <3>3. /\ [Empty EXCEPT !["apple"] = apples] \in [Items -> Int]
          /\ [Empty EXCEPT !["apple"] = apples, !["pear"] = pears] \in [Items -> Int]
      BY <3>1, <3>2, BlankTyped DEF Baskets
    <3> QED BY <3>1, <3>2, <3>3 DEF Baskets
  <2> QED BY <2>1, BundlingSettles, BundlesCostLess, ApplesCostMore DEF Baskets
<1> QED BY <1>1, PTL
=============================================================================
