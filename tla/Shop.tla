-------------------------------- MODULE Shop --------------------------------
(***************************************************************************)
(* The shop: its REST server, which keeps a file for every user and one    *)
(* for the shop, and its front end, which makes one or more calls of the   *)
(* server, one after the other, for every page.  Each call loads, changes  *)
(* and saves files; nothing is locked.  A save (ioutil.WriteFile) first    *)
(* truncates the file and then writes it.                                  *)
(*                                                                         *)
(* A visit is one page of the front end, or one direct call of the server; *)
(* a page that makes one call, as the purchase does, is that call.  The    *)
(* front end ignores the errors and statuses of its calls.  A user who is  *)
(* Careful makes a visit only when the one before is over.  Bounds: a      *)
(* visit happens once; MaxFaults failed writes and crashes of the server.  *)
(***************************************************************************)
EXTENDS Pricing, Sequences, FiniteSets

CONSTANTS
  Users, Careful, Visits, None,
  MayVisit,             \* MayVisit[v]: what the visit v may ask for
  NoBytes, Mixed,       \* what a file is that has no record
  NotANumber,           \* an amount or discount the server panics on
  Unsendable,           \* the text of a coupon that the front end cannot send
  Largest,              \* the largest line of an order that is a finite number
  MaxFaults

ASSUME UsersAssumption ==
  /\ Careful \subseteq Users /\ MaxFaults \in Nat /\ Largest \in Nat
  /\ None \notin Visits /\ Unsendable \notin Visits

VARIABLES
  visit,      \* visit[v]: what was asked for, or None
  calls,      \* the calls that are left of it; the first one is under way
  todo,       \* the steps that are left of that call's handler
  loaded,     \* the user's record, as the handler has read it
  store,      \* the shop's, likewise
  price,      \* the prices calculateOrder has read
  coupon,     \* the coupon it has found
  shown,      \* shown[v][call]: what the server has answered
  users,      \* the users' files
  shop,       \* shop.json
  faults

locals == <<loaded, store, price, coupon>>
vars == <<visit, calls, todo, locals, shown, users, shop, faults>>

BlankUser == [basket |-> Empty, orders |-> <<>>]
NoPrices == [prices |-> Empty, coupons |-> <<>>]
BlankShop == [prices |-> ListPrices, coupons |-> <<>>]

\* A file is absent or empty, has a record, or is Mixed: a short record written over
\* the first bytes of a longer one, which is no JSON.
Load(file, blank) == IF file \in {NoBytes, Mixed} THEN blank ELSE file

\* ReadFile reads until the end of the file: of a file that is being saved it may get
\* the start of one record and the rest of a longer one.
Reads(file, saving) == {file} \union (IF saving THEN {Mixed} ELSE {})

\* Whoever writes a file that was written since he has truncated it may leave the rest
\* of that record behind his own.
Written(file, record) == IF file = NoBytes THEN {record} ELSE {record, Mixed}

\* The steps of each handler.
Handlers ==
  [basket       |-> <<"LoadUser">>,
   checkout     |-> <<"LoadUser", "LoadPrices", "LoadCoupon">>,
   purchase     |-> <<"LoadUser", "LoadPrices", "LoadCoupon", "TruncateUser", "WriteUser">>,
   addItem      |-> <<"LoadUser", "TruncateUser", "WriteUser">>,
   createCoupon |-> <<"LoadStore", "TruncateStore", "WriteStore">>,
   listItems    |-> <<"LoadStore">>,
   reset        |-> <<"TruncateUser", "WriteUser", "TruncateStore", "WriteStore">>]

\* The pages of the front end that make more than one call.
Pages ==
  [shopPage     |-> <<"listItems", "basket">>,
   addItemPage  |-> <<"addItem", "listItems", "basket">>,
   checkoutPage |-> <<"basket", "checkout">>]
Calls(page) == IF page \in DOMAIN Pages THEN Pages[page] ELSE <<page>>

ASSUME VisitsAssumption ==
  \A v \in Visits : \A a \in MayVisit[v] : a # None /\ a.page \in DOMAIN Handlers \union DOMAIN Pages

\* addItem panics on an amount that is no number, SaveStore on a discount that JSON
\* has no number for, before it opens the file.  The front end does not escape the
\* coupon of a purchase: one with a space in it makes a request line that the server
\* refuses.
Fails(call, a) ==
  \/ call = "addItem" /\ a.amount = NotANumber
  \/ call = "createCoupon" /\ a.discount = NotANumber
  \/ call = "purchase" /\ a.coupon = Unsendable
Steps(call, a) ==
  IF ~Fails(call, a) THEN Handlers[call]
  ELSE IF call = "createCoupon" THEN <<"LoadStore">> ELSE <<>>
Begin(left, a) == IF left = <<>> THEN <<>> ELSE Steps(Head(left), a)

Busy(v) == calls[v] # <<>>
Call(v) == Head(calls[v])
At(v, step) == todo[v] # <<>> /\ Head(todo[v]) = step
User(v) == visit[v].user
Advance(v) == todo' = [todo EXCEPT ![v] = Tail(@)] /\ UNCHANGED calls

With(f, k, e) == [x \in DOMAIN f \union {k} |-> IF x = k THEN e ELSE f[x]]

SavingUser(u) == \E v \in Visits : (At(v, "TruncateUser") \/ At(v, "WriteUser")) /\ User(v) = u
SavingStore == \E v \in Visits : At(v, "TruncateStore") \/ At(v, "WriteStore")

CouponOf(v) == [target |-> visit[v].target, discount |-> visit[v].discount]

Init ==
  /\ visit = [v \in Visits |-> None]
  /\ calls = [v \in Visits |-> <<>>] /\ todo = [v \in Visits |-> <<>>]
  /\ loaded = [v \in Visits |-> BlankUser]
  /\ store = [v \in Visits |-> BlankShop]
  /\ price = [v \in Visits |-> ListPrices]
  /\ coupon = [v \in Visits |-> NoCoupon]
  /\ shown = [v \in Visits |-> <<>>]
  /\ users = [u \in Users |-> NoBytes]
  /\ shop = NoBytes
  /\ faults = 0

Visit(v) ==
  /\ visit[v] = None
  /\ \E a \in MayVisit[v] :
       /\ a.user \in Careful => \A w \in Visits : Busy(w) => User(w) # a.user
       /\ visit' = [visit EXCEPT ![v] = a]
       /\ calls' = [calls EXCEPT ![v] = Calls(a.page)]
       /\ todo' = [todo EXCEPT ![v] = Begin(Calls(a.page), a)]
  /\ UNCHANGED <<locals, shown, users, shop, faults>>

-----------------------------------------------------------------------------
\* The steps of the handlers

LoadAnyUser(v) ==
  /\ At(v, "LoadUser") /\ Advance(v)
  /\ \E u \in Users : loaded' = [loaded EXCEPT ![v] = Load(users[u], BlankUser)]
  /\ UNCHANGED <<visit, store, price, coupon, shown, users, shop, faults>>
LoadUser(v) ==
  /\ At(v, "LoadUser") /\ Advance(v)
  /\ \E file \in Reads(users[User(v)], SavingUser(User(v))) :
       loaded' = [loaded EXCEPT ![v] = Load(file, BlankUser)]
  /\ UNCHANGED <<visit, store, price, coupon, shown, users, shop, faults>>

LoadStore(v) ==
  /\ At(v, "LoadStore") /\ Advance(v)
  /\ \E file \in Reads(shop, SavingStore) : store' = [store EXCEPT ![v] = Load(file, BlankShop)]
  /\ UNCHANGED <<visit, loaded, price, coupon, shown, users, shop, faults>>

\* calculateOrder loads the shop twice: for the prices, and for the coupon.
LoadPrices(v) ==
  /\ At(v, "LoadPrices") /\ Advance(v)
  /\ \E file \in Reads(shop, SavingStore) :
       price' = [price EXCEPT ![v] = Load(file, BlankShop).prices]
  /\ UNCHANGED <<visit, loaded, store, coupon, shown, users, shop, faults>>

Lookup(coupons, name) == IF name \in DOMAIN coupons THEN coupons[name] ELSE NoCoupon
CouponAtCheckout(v) ==
  /\ At(v, "LoadCoupon") /\ Advance(v)
  /\ coupon' = [coupon EXCEPT ![v] = Lookup(Load(shop, BlankShop).coupons, visit[v].coupon)]
  /\ UNCHANGED <<visit, loaded, store, price, shown, users, shop, faults>>
LoadCoupon(v) ==
  /\ At(v, "LoadCoupon") /\ Advance(v)
  /\ \E file \in Reads(shop, SavingStore) :
       coupon' = [coupon EXCEPT ![v] =
         IF Call(v) = "checkout" THEN NoCoupon
         ELSE Lookup(Load(file, BlankShop).coupons, visit[v].coupon)]
  /\ UNCHANGED <<visit, loaded, store, price, shown, users, shop, faults>>

Order(v) == calculateOrder(price[v], recalculateBasket(loaded[v].basket), coupon[v])

\* What a handler saves.
KeepsBasket(v) == [loaded[v] EXCEPT !.orders = Append(@, Order(v))]
Purchased(v) == [basket |-> Empty, orders |-> Append(loaded[v].orders, Order(v))]
WithItem(v) ==
  [loaded[v] EXCEPT !.basket[visit[v].item] =
     @ + IF visit[v].page = "addItemPage" THEN 1 ELSE visit[v].amount]
UserToSave(v) ==
  CASE Call(v) = "purchase" -> Purchased(v)
    [] Call(v) = "addItem" -> WithItem(v)
    [] Call(v) = "reset" -> BlankUser
WithCoupon(v) == [store[v] EXCEPT !.coupons = With(@, v, CouponOf(v))]
StoreToSave(v) == IF Call(v) = "reset" THEN BlankShop ELSE WithCoupon(v)

\* A discount can make a line of an order infinite.  JSON has no number for it, and
\* SaveUser panics before it opens the file.
TooMuch(v) == coupon[v] # NoCoupon /\ Order(v)[coupon[v].target] \notin -Largest .. Largest
Marshalled(v) == Call(v) = "purchase" => ~TooMuch(v)

\* A file that cannot be opened is not written; the error is dropped.
TruncateUser(v) ==
  /\ At(v, "TruncateUser")
  /\ \/ /\ Marshalled(v)
        /\ users' = [users EXCEPT ![User(v)] = NoBytes]
        /\ Advance(v) /\ UNCHANGED faults
     \/ /\ IF Marshalled(v) THEN faults < MaxFaults /\ faults' = faults + 1
                             ELSE UNCHANGED faults
        /\ todo' = [todo EXCEPT ![v] = Tail(Tail(@))] /\ UNCHANGED <<calls, users>>
  /\ UNCHANGED <<visit, locals, shown, shop>>

WriteUser(v) ==
  /\ At(v, "WriteUser") /\ Advance(v)
  /\ \/ /\ \E file \in Written(users[User(v)], UserToSave(v)) :
             users' = [users EXCEPT ![User(v)] = file]
        /\ UNCHANGED faults
     \/ /\ faults < MaxFaults /\ faults' = faults + 1
        /\ users' = [users EXCEPT ![User(v)] = IF @ = NoBytes THEN @ ELSE Mixed]
  /\ UNCHANGED <<visit, locals, shown, shop>>

TruncateStore(v) ==
  /\ At(v, "TruncateStore")
  /\ \/ shop' = NoBytes /\ Advance(v) /\ UNCHANGED faults
     \/ /\ faults < MaxFaults /\ faults' = faults + 1
        /\ todo' = [todo EXCEPT ![v] = Tail(Tail(@))] /\ UNCHANGED <<calls, shop>>
  /\ UNCHANGED <<visit, locals, shown, users>>

WriteStore(v) ==
  /\ At(v, "WriteStore") /\ Advance(v)
  /\ \/ shop' \in Written(shop, StoreToSave(v)) /\ UNCHANGED faults
     \/ /\ faults < MaxFaults /\ faults' = faults + 1
        /\ shop' = IF shop = NoBytes THEN shop ELSE Mixed
  /\ UNCHANGED <<visit, locals, shown, users>>

Reply(v) ==
  IF Fails(Call(v), visit[v]) \/ ~Marshalled(v) THEN "failed"
  ELSE CASE Call(v) = "basket" -> recalculateBasket(loaded[v].basket)
         [] Call(v) \in {"checkout", "purchase"} -> Order(v)
         [] Call(v) = "listItems" -> store[v].prices
         [] OTHER -> "done"
Answer(v) ==
  /\ Busy(v) /\ todo[v] = <<>>
  /\ shown' = [shown EXCEPT ![v] = With(@, Call(v), Reply(v))]
  /\ calls' = [calls EXCEPT ![v] = Tail(@)]
  /\ todo' = [todo EXCEPT ![v] = Begin(Tail(calls[v]), visit[v])]
  /\ UNCHANGED <<visit, locals, users, shop, faults>>

\* The server's process dies, and is started again when the pages that wait for it
\* have found no server.
Crash ==
  /\ faults < MaxFaults /\ faults' = faults + 1
  /\ calls' = [v \in Visits |-> <<>>] /\ todo' = [v \in Visits |-> <<>>]
  /\ UNCHANGED <<visit, locals, shown, users, shop>>

Handle(v) ==
  \/ LoadUser(v) \/ LoadStore(v) \/ LoadPrices(v) \/ LoadCoupon(v)
  \/ TruncateUser(v) \/ WriteUser(v) \/ TruncateStore(v) \/ WriteStore(v) \/ Answer(v)

Next == Crash \/ \E v \in Visits : Visit(v) \/ Handle(v)

Spec == Init /\ [][Next]_vars

=============================================================================
