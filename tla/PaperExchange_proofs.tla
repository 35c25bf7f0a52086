-------------------------- MODULE PaperExchange_proofs --------------------------
(***************************************************************************)
(* Proofs about the paper exchange, for every set of prices, every fee and *)
(* any number of orders: saves are whole, ids are given once, the legs of  *)
(* a group end together and cancellations are accounted for, with a stop   *)
(* between any two durable writes.                                         *)
(***************************************************************************)
EXTENDS PaperExchange, FiniteSums, WellFoundedInduction, TLAPS

USE PaperAssumption

-----------------------------------------------------------------------------
(* Ids *)

\* A set of numbers up to a bound has a maximum.
LEMMA MaxExists ==
    ASSUME NEW N \in Nat, NEW S \in SUBSET (0..N), S # {}
    PROVE  Max(S) \in S /\ \A y \in S : y <= Max(S)
<1> DEFINE T == {n \in Nat : \A y \in S : y <= n}
           R == OpToRel(<, Nat)
<1>1. N \in T
  OBVIOUS
<1>2. PICK m \in T : \A y \in T : ~(<<y, m>> \in R)
  <2> HIDE DEF R, T
  <2>1. IsWellFoundedOn(R, Nat)
    BY NatLessThanWellFounded DEF R
  <2>2. T \subseteq Nat /\ T # {}
    BY <1>1 DEF T
  <2> QED BY <2>1, <2>2, WFMin
<1>3. \A y \in T : ~(y < m)
  BY <1>2 DEF OpToRel
<1>4. m \in S
  <2> SUFFICES ASSUME m \notin S PROVE FALSE
    OBVIOUS
  <2>1. PICK s \in S : TRUE
    OBVIOUS
  <2>2. m \in Nat /\ \A y \in S : y < m
    OBVIOUS
  <2>3. m - 1 \in T
    BY <2>1, <2>2
  <2> QED BY <1>3, <2>2, <2>3
<1>5. m \in S /\ \A y \in S : m >= y
  BY <1>4
<1> HIDE DEF T, R
<1> QED BY <1>5 DEF Max

\* The next id is new in both accounts.
LEMMA NextIdNew ==
    ASSUME NEW m, DOMAIN m.spot.orders \subseteq Ids, DOMAIN m.futures.orders \subseteq Ids
    PROVE  /\ NextId(m) \in Nat \ {0}
           /\ \A o \in DOMAIN m.spot.orders \cup DOMAIN m.futures.orders : o < NextId(m)
<1> DEFINE S == {0} \cup DOMAIN m.spot.orders \cup DOMAIN m.futures.orders
<1>1. S \in SUBSET (0..MaxOrders) /\ S # {}
  BY DEF Ids
<1>2. Max(S) \in S /\ \A y \in S : y <= Max(S)
  <2> HIDE DEF S
  <2> QED BY <1>1, MaxExists
<1>3. NextId(m) = 1 + Max(S)
  BY Zenon DEF NextId
<1>4. \A o \in DOMAIN m.spot.orders \cup DOMAIN m.futures.orders : o \in S
  BY Zenon
<1> HIDE DEF S
<1> QED
  <2> DEFINE mx == Max(S)
  <2>1. mx \in S /\ \A y \in S : y <= mx
    BY <1>2, Zenon
  <2>2. NextId(m) = 1 + mx
    BY <1>3, Zenon
  <2> HIDE DEF mx
  <2>3. \A y \in S : y \in Nat
    BY <1>1, PaperAssumption
  <2> QED BY <1>4, <2>1, <2>2, <2>3

-----------------------------------------------------------------------------
(* Accounts *)

\* A spot account on its own.
SpotOk(a) ==
    /\ DOMAIN a.orders \subseteq Ids /\ a \in SpotAccounts(DOMAIN a.orders)
    /\ GroupsGiven(a) /\ LegsTogether(a)

FuturesOk(a) == DOMAIN a.orders \subseteq Ids /\ a \in FuturesAccounts(DOMAIN a.orders)

\* Accounts of which everything that is promised holds.
Good(m, wanted) == IsAccounts(m) /\ Sound(m) /\ CancelsAccounted(m.spot, wanted)

\* The two accounts make such accounts.
LEMMA GoodParts ==
    ASSUME NEW m, NEW wanted
    PROVE  Good(m, wanted) <=>
             /\ m = [spot |-> m.spot, futures |-> m.futures]
             /\ SpotOk(m.spot) /\ FuturesOk(m.futures)
             /\ NoSharedIds(m) /\ CancelsAccounted(m.spot, wanted)
<1>1. ASSUME Good(m, wanted) PROVE m = [spot |-> m.spot, futures |-> m.futures] /\ SpotOk(m.spot) /\ FuturesOk(m.futures)
  <2>1. /\ m \in Accounts(DOMAIN m.spot.orders, DOMAIN m.futures.orders)
        /\ DOMAIN m.spot.orders \subseteq Ids /\ DOMAIN m.futures.orders \subseteq Ids
    BY <1>1 DEF Good, IsAccounts
  <2>2. /\ m = [spot |-> m.spot, futures |-> m.futures]
        /\ m.spot \in SpotAccounts(DOMAIN m.spot.orders)
        /\ m.futures \in FuturesAccounts(DOMAIN m.futures.orders)
    BY <2>1 DEF Accounts
  <2> QED BY <1>1, <2>1, <2>2 DEF Good, Sound, SpotOk, FuturesOk
<1>2. ASSUME m = [spot |-> m.spot, futures |-> m.futures], SpotOk(m.spot), FuturesOk(m.futures)
      PROVE  IsAccounts(m)
  <2>1. m.spot \in SpotAccounts(DOMAIN m.spot.orders) /\ m.futures \in FuturesAccounts(DOMAIN m.futures.orders)
    BY <1>2 DEF SpotOk, FuturesOk
  <2>2. m \in Accounts(DOMAIN m.spot.orders, DOMAIN m.futures.orders)
    BY <1>2, <2>1 DEF Accounts
  <2> QED BY <1>2, <2>2 DEF IsAccounts, SpotOk, FuturesOk
<1> QED BY <1>1, <1>2 DEF Good, Sound, SpotOk

\* The fields of a spot account.
LEMMA SpotFields ==
    ASSUME NEW ids, NEW a \in SpotAccounts(ids)
    PROVE  /\ a.quote \in Int /\ a.base \in Int /\ a.paid \in Int /\ a.got \in Int
           /\ a.orders \in [ids -> SpotOrders] /\ DOMAIN a.orders = ids
           /\ \A o \in ids : a.orders[o] \in SpotOrders
  BY DEF SpotAccounts

\* The fields of a spot order.
LEMMA OrderFields ==
    ASSUME NEW order \in SpotOrders
    PROVE  /\ order.side \in Sides /\ order.price \in Nat /\ order.reserve \in Nat
           /\ order.price \in Prices /\ order.reserve \in Prices
           /\ order.group \in {0} \cup Ids /\ order.status \in Statuses
  BY DEF SpotOrders

\* Statuses change and nothing else.
LEMMA MarkedProperties ==
    ASSUME NEW ids, NEW a \in SpotAccounts(ids), NEW orders, NEW status \in Statuses
    PROVE  /\ Marked(a, orders, status) \in SpotAccounts(ids)
           /\ \A o \in ids :
                /\ Marked(a, orders, status).orders[o].group = a.orders[o].group
                /\ Marked(a, orders, status).orders[o].side = a.orders[o].side
                /\ Marked(a, orders, status).orders[o].price = a.orders[o].price
                /\ Marked(a, orders, status).orders[o].reserve = a.orders[o].reserve
                /\ Marked(a, orders, status).orders[o].status =
                       IF o \in orders THEN status ELSE a.orders[o].status
<1> DEFINE book == [o \in DOMAIN a.orders |->
                        IF o \in orders THEN [a.orders[o] EXCEPT !.status = status] ELSE a.orders[o]]
<1>1. Marked(a, orders, status) = [a EXCEPT !.orders = book]
  BY DEF Marked
<1>2. DOMAIN a.orders = ids /\ \A o \in ids : a.orders[o] \in SpotOrders
  BY SpotFields
<1>3. ASSUME NEW o \in ids
      PROVE  /\ book[o] \in SpotOrders
             /\ book[o].group = a.orders[o].group /\ book[o].side = a.orders[o].side
             /\ book[o].price = a.orders[o].price /\ book[o].reserve = a.orders[o].reserve
             /\ book[o].status = IF o \in orders THEN status ELSE a.orders[o].status
  <2> DEFINE x == a.orders[o]
  <2>1. x \in SpotOrders /\ book[o] = IF o \in orders THEN [x EXCEPT !.status = status] ELSE x
    BY <1>2
  <2> HIDE DEF x, book
  <2>2. [x EXCEPT !.status = status] \in SpotOrders
    BY <2>1 DEF SpotOrders
  <2>3. /\ [x EXCEPT !.status = status].group = x.group /\ [x EXCEPT !.status = status].side = x.side
        /\ [x EXCEPT !.status = status].price = x.price /\ [x EXCEPT !.status = status].reserve = x.reserve
        /\ [x EXCEPT !.status = status].status = status
    BY <2>1 DEF SpotOrders
  <2> QED BY <2>1, <2>2, <2>3 DEF x
<1>4. book \in [ids -> SpotOrders]
  BY <1>2, <1>3
<1> HIDE DEF book
<1>5. [a EXCEPT !.orders = book] \in SpotAccounts(ids) /\ [a EXCEPT !.orders = book].orders = book
  BY <1>4 DEF SpotAccounts
<1> QED BY <1>1, <1>3, <1>5

\* An order is added and the others stay.
LEMMA AddedProperties ==
    ASSUME NEW ids, NEW a \in SpotAccounts(ids), NEW id, NEW order \in SpotOrders,
           NEW more, more = ids \cup {id}
    PROVE  /\ Added(a, id, order) \in SpotAccounts(more)
           /\ Added(a, id, order).orders[id] = order
           /\ \A o \in ids : o # id => Added(a, id, order).orders[o] = a.orders[o]
<1> DEFINE book == [o \in DOMAIN a.orders \cup {id} |-> IF o = id THEN order ELSE a.orders[o]]
<1>1. Added(a, id, order) = [a EXCEPT !.orders = book]
  BY DEF Added
<1>2. DOMAIN a.orders = ids /\ \A o \in ids : a.orders[o] \in SpotOrders
  BY SpotFields
<1>3. /\ book \in [ids \cup {id} -> SpotOrders] /\ book[id] = order
      /\ \A o \in ids : o # id => book[o] = a.orders[o]
  BY <1>2
<1> HIDE DEF book
<1>4. [a EXCEPT !.orders = book] \in SpotAccounts(ids \cup {id}) /\ [a EXCEPT !.orders = book].orders = book
  BY <1>3 DEF SpotAccounts
<1> QED BY <1>1, <1>3, <1>4

\* Balances change and the orders stay.
LEMMA BalancesProperties ==
    ASSUME NEW ids, NEW a \in SpotAccounts(ids), NEW order \in SpotOrders, NEW side, NEW price \in Prices
    PROVE  /\ Reserve(a, order) \in SpotAccounts(ids) /\ Reserve(a, order).orders = a.orders
           /\ ReleaseReservation(a, order) \in SpotAccounts(ids) /\ ReleaseReservation(a, order).orders = a.orders
           /\ ExecuteFill(a, side, price) \in SpotAccounts(ids) /\ ExecuteFill(a, side, price).orders = a.orders
<1>1. \A n \in Prices : WithFee(n) \in Int /\ Fee[n] \in Int
  BY DEF WithFee
<1>2. QuoteHeld(order) \in Int /\ BaseHeld(order) \in Int /\ WithFee(price) \in Int /\ Fee[price] \in Int /\ price \in Int
  BY <1>1, OrderFields DEF QuoteHeld, BaseHeld
<1> DEFINE q == QuoteHeld(order)
           b == BaseHeld(order)
           c == WithFee(price)
           f == Fee[price]
<1>3. q \in Int /\ b \in Int /\ c \in Int /\ f \in Int /\ price \in Int
  BY <1>2
<1>4. a.quote \in Int /\ a.base \in Int /\ a.paid \in Int /\ a.got \in Int
  BY SpotFields
<1>5. /\ Reserve(a, order) = [a EXCEPT !.quote = a.quote - q, !.base = a.base - b]
      /\ ReleaseReservation(a, order) = [a EXCEPT !.quote = a.quote + q, !.base = a.base + b]
  BY DEF Reserve, ReleaseReservation
<1>6. /\ side = "buy" => ExecuteFill(a, side, price) =
            [a EXCEPT !.quote = a.quote - c, !.base = a.base + 1, !.paid = a.paid + c, !.got = a.got + 1]
      /\ side # "buy" => ExecuteFill(a, side, price) =
            [a EXCEPT !.quote = a.quote + price - f, !.base = a.base - 1,
                      !.paid = a.paid - price + f, !.got = a.got - 1]
  BY DEF ExecuteFill
<1> HIDE DEF q, b, c, f
<1>7. Reserve(a, order) \in SpotAccounts(ids) /\ Reserve(a, order).orders = a.orders
  <2> DEFINE x == a.quote - q
             y == a.base - b
  <2>1. x \in Int /\ y \in Int /\ Reserve(a, order) = [a EXCEPT !.quote = x, !.base = y]
    BY <1>3, <1>4, <1>5
  <2> HIDE DEF x, y
  <2> QED BY <2>1 DEF SpotAccounts
<1>8. ReleaseReservation(a, order) \in SpotAccounts(ids) /\ ReleaseReservation(a, order).orders = a.orders
  <2> DEFINE x == a.quote + q
             y == a.base + b
  <2>1. x \in Int /\ y \in Int /\ ReleaseReservation(a, order) = [a EXCEPT !.quote = x, !.base = y]
    BY <1>3, <1>4, <1>5
  <2> HIDE DEF x, y
  <2> QED BY <2>1 DEF SpotAccounts
<1>9. ExecuteFill(a, side, price) \in SpotAccounts(ids) /\ ExecuteFill(a, side, price).orders = a.orders
  <2>1. CASE side = "buy"
    <3> DEFINE x == a.quote - c
               y == a.base + 1
               z == a.paid + c
               w == a.got + 1
    <3>1. /\ x \in Int /\ y \in Int /\ z \in Int /\ w \in Int
          /\ ExecuteFill(a, side, price) = [a EXCEPT !.quote = x, !.base = y, !.paid = z, !.got = w]
      BY <1>3, <1>4, <1>6, <2>1
    <3> HIDE DEF x, y, z, w
    <3> QED BY <3>1 DEF SpotAccounts
  <2>2. CASE side # "buy"
    <3> DEFINE x == a.quote + price - f
               y == a.base - 1
               z == a.paid - price + f
               w == a.got - 1
    <3>1. /\ x \in Int /\ y \in Int /\ z \in Int /\ w \in Int
          /\ ExecuteFill(a, side, price) = [a EXCEPT !.quote = x, !.base = y, !.paid = z, !.got = w]
      BY <1>3, <1>4, <1>6, <2>2
    <3> HIDE DEF x, y, z, w
    <3> QED BY <3>1 DEF SpotAccounts
  <2> QED BY <2>1, <2>2
<1> QED BY <1>7, <1>8, <1>9

\* What is held back or given back for an order.
LEMMA ReserveProperties ==
    ASSUME NEW ids, NEW a \in SpotAccounts(ids), NEW order \in SpotOrders
    PROVE  /\ Reserve(a, order) \in SpotAccounts(ids) /\ Reserve(a, order).orders = a.orders
           /\ ReleaseReservation(a, order) \in SpotAccounts(ids) /\ ReleaseReservation(a, order).orders = a.orders
<1>1. order.price \in Prices
  BY OrderFields
<1> QED BY <1>1, BalancesProperties

-----------------------------------------------------------------------------
(* Groups *)

\* Balances do not matter to what is promised of the orders.
LEMMA SameOrders ==
    ASSUME NEW a, SpotOk(a), NEW b \in SpotAccounts(DOMAIN a.orders), b.orders = a.orders
    PROVE  /\ SpotOk(b) /\ \A o \in DOMAIN a.orders : GroupOf(b, o) = GroupOf(a, o)
           /\ \A wanted : CancelsAccounted(a, wanted) => CancelsAccounted(b, wanted)
  BY DEF SpotOk, GroupsGiven, LegsTogether, GroupOf, CancelsAccounted

\* An open order ends with its group: the others are canceled, it is filled or canceled.
LEMMA GroupEnds ==
    ASSUME NEW a, SpotOk(a), NEW o \in OpenOf(a), NEW s \in {"closed", "canceled"},
           NEW b \in SpotAccounts(DOMAIN a.orders),
           \A x \in DOMAIN a.orders :
               /\ b.orders[x].group = a.orders[x].group
               /\ b.orders[x].status = IF x = o THEN s
                                       ELSE IF x \in GroupOf(a, o) \cap OpenOf(a) THEN "canceled"
                                       ELSE a.orders[x].status
    PROVE  /\ SpotOk(b)
           /\ \A wanted, more : /\ CancelsAccounted(a, wanted) /\ wanted \subseteq more
                                /\ s = "canceled" => GroupOf(a, o) \subseteq more
                                => CancelsAccounted(b, more)
<1> DEFINE ids == DOMAIN a.orders
           group(x) == a.orders[x].group
           was(x) == a.orders[x].status
           is(x) == b.orders[x].status
<1>1. /\ DOMAIN b.orders = ids /\ ids \subseteq Ids /\ o \in ids /\ was(o) = "open" /\ is(o) = s
      /\ \A x \in ids : b.orders[x].group = group(x)
  BY SpotFields DEF OpenOf, SpotOk
<1>2. \A x \in ids : group(o) # 0 /\ group(x) = group(o) => was(x) = "open"
  BY <1>1 DEF SpotOk, LegsTogether
<1>3. \A x \in ids : x # o =>
        is(x) = IF group(o) # 0 /\ group(x) = group(o) THEN "canceled" ELSE was(x)
  BY <1>1, <1>2 DEF GroupOf, OpenOf
<1>4. LegsTogether(a) /\ GroupsGiven(a)
  BY DEF SpotOk
<1>5. GroupsGiven(b)
  BY <1>1, <1>4 DEF GroupsGiven
<1>6. LegsTogether(b)
  <2> SUFFICES ASSUME NEW x \in ids, NEW y \in ids, x # y, group(x) # 0, group(x) = group(y)
               PROVE  /\ is(x) = "open" <=> is(y) = "open"
                      /\ ~(is(x) = "closed" /\ is(y) = "closed")
    BY <1>1 DEF LegsTogether
  <2>1. (was(x) = "open" <=> was(y) = "open") /\ ~(was(x) = "closed" /\ was(y) = "closed")
    BY <1>4 DEF LegsTogether
  <2>2. CASE group(o) # 0 /\ group(x) = group(o)
    BY <1>1, <1>3, <2>2
  <2>3. CASE ~(group(o) # 0 /\ group(x) = group(o))
    BY <1>1, <1>3, <2>1, <2>3
  <2> QED BY <2>2, <2>3
<1>7. SpotOk(b)
  BY <1>1, <1>5, <1>6 DEF SpotOk
<1>8. ASSUME NEW wanted, NEW more, CancelsAccounted(a, wanted), wanted \subseteq more,
             s = "canceled" => GroupOf(a, o) \subseteq more,
             NEW x \in ids, is(x) = "canceled"
      PROVE  x \in more \/ \E y \in GroupOf(b, x) : is(y) = "closed"
  <2>1. CASE x = o
    <3>1. s = "canceled" /\ o \in GroupOf(a, o)
      BY <1>1, <1>8, <2>1 DEF GroupOf
    <3> QED BY <1>8, <2>1, <3>1
  <2>2. CASE x # o /\ group(o) # 0 /\ group(x) = group(o)
    <3>1. x \in GroupOf(a, o) /\ o \in GroupOf(b, x)
      BY <1>1, <2>2 DEF GroupOf
    <3> QED BY <1>1, <1>8, <3>1
  <2>3. CASE x # o /\ ~(group(o) # 0 /\ group(x) = group(o))
    <3>1. was(x) = "canceled"
      BY <1>3, <1>8, <2>3
    <3>2. CASE x \in wanted
      BY <1>8, <3>2
    <3>3. CASE x \notin wanted
      <4>1. PICK y \in GroupOf(a, x) : was(y) = "closed"
        BY <1>8, <3>1, <3>3 DEF CancelsAccounted
      <4>2. y \in ids /\ y # o /\ y \in GroupOf(b, x)
        BY <1>1, <4>1 DEF GroupOf
      <4>3. is(y) = "closed"
        BY <1>2, <1>3, <4>1, <4>2
      <4> QED BY <4>2, <4>3
    <3> QED BY <3>2, <3>3
  <2> QED BY <2>1, <2>2, <2>3
<1> QED BY <1>1, <1>7, <1>8 DEF CancelsAccounted

\* fillRestingOrder
LEMMA FillOk ==
    ASSUME NEW a, SpotOk(a), NEW o \in OpenOf(a)
    PROVE  /\ SpotOk(FillRestingOrder(a, o)) /\ DOMAIN FillRestingOrder(a, o).orders = DOMAIN a.orders
           /\ \A wanted : CancelsAccounted(a, wanted) => CancelsAccounted(FillRestingOrder(a, o), wanted)
<1> DEFINE ids == DOMAIN a.orders
           siblings == (GroupOf(a, o) \cap OpenOf(a)) \ {o}
           m1 == Marked(a, siblings, "canceled")
           m2 == Marked(m1, {o}, "closed")
           r == ReleaseReservation(m2, a.orders[o])
           b == ExecuteFill(r, a.orders[o].side, a.orders[o].price)
<1>0. FillRestingOrder(a, o) = b
  BY DEF FillRestingOrder
<1>1. a \in SpotAccounts(ids) /\ o \in ids /\ a.orders[o] \in SpotOrders /\ a.orders[o].price \in Prices
  BY SpotFields, OrderFields DEF SpotOk, OpenOf
<1> HIDE DEF ids, siblings
<1>2. /\ m1 \in SpotAccounts(ids)
      /\ \A x \in ids : /\ m1.orders[x].group = a.orders[x].group
                        /\ m1.orders[x].status = IF x \in siblings THEN "canceled" ELSE a.orders[x].status
  BY <1>1, MarkedProperties DEF Statuses
<1> HIDE DEF m1
<1>3. /\ m2 \in SpotAccounts(ids)
      /\ \A x \in ids : /\ m2.orders[x].group = m1.orders[x].group
                        /\ m2.orders[x].status = IF x \in {o} THEN "closed" ELSE m1.orders[x].status
  BY <1>2, MarkedProperties DEF Statuses
<1> HIDE DEF m2
<1>4. r \in SpotAccounts(ids) /\ r.orders = m2.orders
  BY <1>1, <1>3, BalancesProperties
<1> HIDE DEF r
<1>5. b \in SpotAccounts(ids) /\ b.orders = m2.orders
  <2> DEFINE side == a.orders[o].side
             price == a.orders[o].price
             order == a.orders[o]
  <2>1. price \in Prices /\ order \in SpotOrders /\ b = ExecuteFill(r, side, price)
    BY <1>1
  <2> HIDE DEF side, price, order, b
  <2>2. ExecuteFill(r, side, price) \in SpotAccounts(ids) /\ ExecuteFill(r, side, price).orders = r.orders
    BY <1>4, <2>1, BalancesProperties
  <2> QED BY <1>4, <2>1, <2>2
<1> HIDE DEF b
<1>6. \A x \in ids :
        /\ b.orders[x].group = a.orders[x].group
        /\ b.orders[x].status = IF x = o THEN "closed"
                                ELSE IF x \in GroupOf(a, o) \cap OpenOf(a) THEN "canceled"
                                ELSE a.orders[x].status
  BY <1>2, <1>3, <1>5 DEF siblings
<1>7. /\ SpotOk(b)
      /\ \A wanted, more : /\ CancelsAccounted(a, wanted) /\ wanted \subseteq more
                           /\ "closed" = "canceled" => GroupOf(a, o) \subseteq more
                           => CancelsAccounted(b, more)
  BY <1>5, <1>6, GroupEnds DEF ids
<1>8. DOMAIN b.orders = DOMAIN a.orders
  BY <1>5, SpotFields DEF ids
<1> QED BY <1>0, <1>7, <1>8

\* cancelOrder and cancelOrderList
LEMMA CancelOk ==
    ASSUME NEW a, SpotOk(a), NEW o \in OpenOf(a)
    PROVE  /\ SpotOk(CancelGroup(a, o)) /\ DOMAIN CancelGroup(a, o).orders = DOMAIN a.orders
           /\ \A wanted : CancelsAccounted(a, wanted) => CancelsAccounted(CancelGroup(a, o), wanted \cup GroupOf(a, o))
<1> DEFINE ids == DOMAIN a.orders
           legs == GroupOf(a, o) \cap OpenOf(a)
           m1 == Marked(a, legs, "canceled")
           b == ReleaseReservation(m1, a.orders[o])
<1>0. CancelGroup(a, o) = b
  BY DEF CancelGroup
<1>1. a \in SpotAccounts(ids) /\ o \in ids /\ a.orders[o] \in SpotOrders /\ a.orders[o].price \in Prices /\ o \in legs
  BY SpotFields, OrderFields DEF SpotOk, OpenOf, GroupOf
<1> HIDE DEF ids, legs
<1>2. /\ m1 \in SpotAccounts(ids)
      /\ \A x \in ids : /\ m1.orders[x].group = a.orders[x].group
                        /\ m1.orders[x].status = IF x \in legs THEN "canceled" ELSE a.orders[x].status
  BY <1>1, MarkedProperties DEF Statuses
<1> HIDE DEF m1
<1>3. b \in SpotAccounts(ids) /\ b.orders = m1.orders
  BY <1>1, <1>2, BalancesProperties
<1> HIDE DEF b
<1>4. \A x \in ids :
        /\ b.orders[x].group = a.orders[x].group
        /\ b.orders[x].status = IF x = o THEN "canceled"
                                ELSE IF x \in GroupOf(a, o) \cap OpenOf(a) THEN "canceled"
                                ELSE a.orders[x].status
  BY <1>1, <1>2, <1>3 DEF legs
<1>5. /\ SpotOk(b)
      /\ \A wanted, more : /\ CancelsAccounted(a, wanted) /\ wanted \subseteq more
                           /\ "canceled" = "canceled" => GroupOf(a, o) \subseteq more
                           => CancelsAccounted(b, more)
  BY <1>3, <1>4, GroupEnds DEF ids
<1>6. DOMAIN b.orders = DOMAIN a.orders
  BY <1>3, SpotFields DEF ids
<1> QED BY <1>0, <1>5, <1>6

\* A single order under a new id.
LEMMA AddOk ==
    ASSUME NEW a, SpotOk(a), NEW id \in Ids, id \notin DOMAIN a.orders,
           NEW order \in SpotOrders, order.group = 0, order.status # "canceled"
    PROVE  /\ SpotOk(Added(a, id, order)) /\ DOMAIN Added(a, id, order).orders = DOMAIN a.orders \cup {id}
           /\ \A wanted : CancelsAccounted(a, wanted) => CancelsAccounted(Added(a, id, order), wanted)
<1> DEFINE ids == DOMAIN a.orders
           b == Added(a, id, order)
<1>0. a \in SpotAccounts(ids) /\ id \notin ids
  BY DEF SpotOk
<1> HIDE DEF ids
<1>1. /\ b \in SpotAccounts(ids \cup {id}) /\ b.orders[id] = order
      /\ \A o \in ids : b.orders[o] = a.orders[o]
  <2> DEFINE more == ids \cup {id}
  <2>1. more = ids \cup {id}
    OBVIOUS
  <2> HIDE DEF more
  <2>2. /\ Added(a, id, order) \in SpotAccounts(more) /\ Added(a, id, order).orders[id] = order
        /\ \A o \in ids : o # id => Added(a, id, order).orders[o] = a.orders[o]
    BY <1>0, <2>1, AddedProperties
  <2> QED BY <1>0, <2>1, <2>2
<1> USE DEF ids
<1> HIDE DEF b
<1>2. DOMAIN b.orders = ids \cup {id} /\ ids \subseteq Ids
  BY <1>1, SpotFields DEF SpotOk
<1>3. GroupsGiven(b)
  BY <1>1, <1>2 DEF GroupsGiven, SpotOk
<1>4. LegsTogether(b)
  BY <1>1, <1>2 DEF LegsTogether, SpotOk
<1>5. ASSUME NEW wanted, CancelsAccounted(a, wanted) PROVE CancelsAccounted(b, wanted)
  <2>1. \A o \in ids : GroupOf(a, o) \subseteq GroupOf(b, o)
    BY <1>1, <1>2 DEF GroupOf
  <2>2. \A o \in ids : GroupOf(a, o) \subseteq ids
    BY DEF GroupOf
  <2> QED BY <1>1, <1>2, <1>5, <2>1, <2>2 DEF CancelsAccounted
<1>6. SpotOk(b)
  BY <1>1, <1>2, <1>3, <1>4 DEF SpotOk
<1> QED BY <1>2, <1>5, <1>6 DEF b

\* placeOcoOrder: two legs of a new group.
LEMMA PairOk ==
    ASSUME NEW a, SpotOk(a), NEW id \in Ids, id + 1 \in Ids, id \notin DOMAIN a.orders, id + 1 \notin DOMAIN a.orders,
           NEW leg \in SpotOrders, NEW other \in SpotOrders,
           leg.group = id, other.group = id, leg.status = "open", other.status = "open"
    PROVE  LET b == Added(Added(a, id, leg), id + 1, other)
           IN  /\ SpotOk(b) /\ DOMAIN b.orders = DOMAIN a.orders \cup {id, id + 1}
               /\ \A wanted : CancelsAccounted(a, wanted) => CancelsAccounted(b, wanted)
<1> DEFINE ids == DOMAIN a.orders
           next == id + 1
           c == Added(a, id, leg)
           b == Added(c, next, other)
<1>0. id \in Nat \ {0} /\ next # id
  BY DEF Ids
<1>1. a \in SpotAccounts(ids) /\ id \notin ids /\ next \notin ids
  BY DEF SpotOk
<1> HIDE DEF ids, next
<1>2. /\ c \in SpotAccounts(ids \cup {id}) /\ c.orders[id] = leg
      /\ \A o \in ids : c.orders[o] = a.orders[o]
  <2> DEFINE more == ids \cup {id}
  <2>1. more = ids \cup {id}
    OBVIOUS
  <2> HIDE DEF more
  <2>2. /\ Added(a, id, leg) \in SpotAccounts(more) /\ Added(a, id, leg).orders[id] = leg
        /\ \A o \in ids : o # id => Added(a, id, leg).orders[o] = a.orders[o]
    BY <1>1, <2>1, AddedProperties
  <2> QED BY <1>1, <2>1, <2>2
<1> DEFINE both == ids \cup {id}
<1> HIDE DEF c, both
<1>2a. /\ b \in SpotAccounts(both \cup {next}) /\ b.orders[next] = other
       /\ \A o \in both : o # next => b.orders[o] = c.orders[o]
  <2>1. c \in SpotAccounts(both)
    BY <1>2 DEF both
  <2> DEFINE more == both \cup {next}
  <2>2. more = both \cup {next}
    OBVIOUS
  <2> HIDE DEF more
  <2>3. /\ Added(c, next, other) \in SpotAccounts(more) /\ Added(c, next, other).orders[next] = other
        /\ \A o \in both : o # next => Added(c, next, other).orders[o] = c.orders[o]
    <3> HIDE PaperAssumption
    <3> QED BY <2>1, <2>2, AddedProperties
  <2> QED BY <2>2, <2>3
<1> USE DEF ids, both
<1> HIDE DEF b
<1>3. /\ DOMAIN b.orders = ids \cup {id, next} /\ ids \subseteq Ids /\ next \in Ids /\ next \notin ids
      /\ b.orders[id] = leg /\ b.orders[next] = other /\ \A o \in ids : b.orders[o] = a.orders[o]
  <2>1. DOMAIN b.orders = both \cup {next}
    BY <1>2a, SpotFields
  <2> QED BY <1>0, <1>1, <1>2, <1>2a, <2>1 DEF SpotOk, next
<1>4. /\ GroupsGiven(a) /\ LegsTogether(a)
      /\ \A o \in ids : a.orders[o].group # id
  BY <1>0 DEF SpotOk, GroupsGiven
<1>5. GroupsGiven(b)
  BY <1>3, <1>4 DEF GroupsGiven
<1>6. LegsTogether(b)
  <2> SUFFICES ASSUME NEW x \in ids \cup {id, next}, NEW y \in ids \cup {id, next},
                      x # y, b.orders[x].group # 0, b.orders[x].group = b.orders[y].group
               PROVE  /\ b.orders[x].status = "open" <=> b.orders[y].status = "open"
                      /\ ~(b.orders[x].status = "closed" /\ b.orders[y].status = "closed")
    BY <1>3 DEF LegsTogether
  <2>1. CASE x \in ids /\ y \in ids
    BY <1>3, <1>4, <2>1 DEF LegsTogether
  <2>2. CASE x \notin ids /\ y \notin ids
    BY <1>3, <2>2
  <2>3. CASE (x \in ids /\ y \notin ids) \/ (x \notin ids /\ y \in ids)
    BY <1>3, <1>4, <2>3
  <2> QED BY <2>1, <2>2, <2>3
<1>7. ASSUME NEW wanted, CancelsAccounted(a, wanted) PROVE CancelsAccounted(b, wanted)
  <2>1. \A o \in ids : GroupOf(a, o) \subseteq GroupOf(b, o)
    BY <1>3 DEF GroupOf
  <2>2. \A o \in ids : GroupOf(a, o) \subseteq ids
    BY DEF GroupOf
  <2> QED BY <1>3, <1>7, <2>1, <2>2 DEF CancelsAccounted
<1>8. b \in SpotAccounts(DOMAIN b.orders)
  <2>1. ids \cup {id} \cup {next} = ids \cup {id, next}
    OBVIOUS
  <2> QED BY <1>2a, <1>3, <2>1
<1>9. SpotOk(b)
  BY <1>3, <1>5, <1>6, <1>8 DEF SpotOk
<1> QED BY <1>3, <1>7, <1>9 DEF b, c, next

\* Futures orders are added, canceled or filled.
LEMMA FuturesStep ==
    ASSUME NEW a, FuturesOk(a)
    PROVE  /\ \A id \in Ids : LET b == Added(a, id, [status |-> "open"]) IN
                FuturesOk(b) /\ DOMAIN b.orders = DOMAIN a.orders \cup {id}
           /\ \A orders : \A status \in Statuses : LET b == Marked(a, orders, status) IN
                FuturesOk(b) /\ DOMAIN b.orders = DOMAIN a.orders
<1> DEFINE ids == DOMAIN a.orders
           Order == [status : Statuses]
<1>1. /\ a \in FuturesAccounts(ids) /\ ids \subseteq Ids
      /\ a.orders \in [ids -> Order] /\ \A x \in ids : a.orders[x] \in Order
  BY DEF FuturesOk, FuturesAccounts
<1>2. ASSUME NEW id \in Ids
      PROVE  LET b == Added(a, id, [status |-> "open"]) IN FuturesOk(b) /\ DOMAIN b.orders = ids \cup {id}
  <2> DEFINE b == Added(a, id, [status |-> "open"])
             book == [x \in ids \cup {id} |-> IF x = id THEN [status |-> "open"] ELSE a.orders[x]]
  <2>1. book \in [ids \cup {id} -> Order] /\ b = [a EXCEPT !.orders = book]
    BY <1>1 DEF Added, Statuses
  <2> HIDE DEF book, b
  <2>2. b \in FuturesAccounts(ids \cup {id}) /\ DOMAIN b.orders = ids \cup {id}
    BY <1>1, <2>1 DEF FuturesAccounts
  <2>3. FuturesOk(b)
    BY <1>1, <2>2 DEF FuturesOk
  <2> QED BY <2>2, <2>3 DEF b
<1>3. ASSUME NEW orders, NEW status \in Statuses
      PROVE  LET b == Marked(a, orders, status) IN FuturesOk(b) /\ DOMAIN b.orders = ids
  <2> DEFINE b == Marked(a, orders, status)
             book == [x \in ids |-> IF x \in orders THEN [a.orders[x] EXCEPT !.status = status] ELSE a.orders[x]]
  <2>1. book \in [ids -> Order] /\ b = [a EXCEPT !.orders = book]
    BY <1>1 DEF Marked
  <2> HIDE DEF book, b
  <2>2. b \in FuturesAccounts(ids) /\ DOMAIN b.orders = ids
    BY <1>1, <2>1 DEF FuturesAccounts
  <2>3. FuturesOk(b)
    BY <1>1, <2>2 DEF FuturesOk
  <2> QED BY <2>2, <2>3 DEF b
<1> QED BY <1>2, <1>3

\* A futures fill with the orders it makes stale.
LEMMA FillFuturesOk ==
    ASSUME NEW a, FuturesOk(a), NEW o, NEW gone
    PROVE  FuturesOk(FillFutures(a, o, gone)) /\ DOMAIN FillFutures(a, o, gone).orders = DOMAIN a.orders
<1> DEFINE b == Marked(a, gone, "canceled")
<1>1. "canceled" \in Statuses /\ "closed" \in Statuses
  BY DEF Statuses
<1>2. FuturesOk(b) /\ DOMAIN b.orders = DOMAIN a.orders
  BY <1>1, FuturesStep
<1>3. FillFutures(a, o, gone) = Marked(b, {o}, "closed")
  BY DEF FillFutures
<1> HIDE DEF b
<1> QED BY <1>1, <1>2, <1>3, FuturesStep

-----------------------------------------------------------------------------
(* Saves *)

\* What is left of a save after its first write.
LEMMA TodoSequences ==
    /\ <<"tx", "spot", "futures", "drop">> # <<>> /\ <<"spot", "futures", "drop">> # <<>>
    /\ <<"futures", "drop">> # <<>> /\ <<"drop">> # <<>> /\ <<"spot">> # <<>> /\ <<"futures">> # <<>>
    /\ Head(<<"tx", "spot", "futures", "drop">>) = "tx"
    /\ Tail(<<"tx", "spot", "futures", "drop">>) = <<"spot", "futures", "drop">>
    /\ Head(<<"spot", "futures", "drop">>) = "spot" /\ Tail(<<"spot", "futures", "drop">>) = <<"futures", "drop">>
    /\ Head(<<"futures", "drop">>) = "futures" /\ Tail(<<"futures", "drop">>) = <<"drop">>
    /\ Head(<<"drop">>) = "drop" /\ Tail(<<"drop">>) = <<>>
    /\ Head(<<"spot">>) = "spot" /\ Tail(<<"spot">>) = <<>>
    /\ Head(<<"futures">>) = "futures" /\ Tail(<<"futures">>) = <<>>
  OBVIOUS

\* New accounts are good when each is and no new id is shared.
LEMMA GoodPair ==
    ASSUME NEW spot, NEW futures, NEW wanted, SpotOk(spot), FuturesOk(futures), CancelsAccounted(spot, wanted),
           DOMAIN spot.orders \cap DOMAIN futures.orders = {}
    PROVE  Good([spot |-> spot, futures |-> futures], wanted)
<1> DEFINE m == [spot |-> spot, futures |-> futures]
<1>1. m.spot = spot /\ m.futures = futures /\ m = [spot |-> m.spot, futures |-> m.futures]
  OBVIOUS
<1> HIDE DEF m
<1>2. NoSharedIds(m)
  BY <1>1 DEF NoSharedIds
<1>3. Good(m, wanted)
  BY <1>1, <1>2, GoodParts
<1> QED BY <1>3 DEF m

\* What is stored are accounts of which everything promised holds; so is the memory of
\* an operation.
LEMMA InvGood ==
    ASSUME PaperInv
    PROVE  /\ Good(Stored, asked)
           /\ at # "free" => Good(mem, asked \cup replaced)
           /\ IsAccounts(mem) /\ Sound(mem)
           /\ asked \subseteq Ids /\ replaced \subseteq Ids /\ dirty \subseteq {"spot", "futures"} /\ at \in Phases
           /\ at # "settled" => replaced = {}
  BY DEF PaperInv, PaperTypeOK, Good, Stored, CanceledAsAsked

\* A step that writes no file.
LEMMA MemoryStep ==
    ASSUME PaperInv, UNCHANGED <<spotFile, futuresFile, txFile, whole>>,
           asked \subseteq asked', asked' \subseteq Ids, replaced' \subseteq Ids, dirty' \subseteq {"spot", "futures"},
           IsAccounts(mem'), Sound(mem'), at' # "free" => CancelsAccounted(mem'.spot, asked' \cup replaced'),
           at' \in Phases, at' # "settled" => replaced' = {}, WritesComplete'
    PROVE  PaperInv'
<1>1. PaperTypeOK'
  BY DEF PaperInv, PaperTypeOK
<1>2. Stored' = Stored
  BY DEF Stored
<1>3. Stored' = whole' /\ Sound(Stored')
  BY <1>2 DEF PaperInv
<1>4. CancelsAccounted(Stored.spot, asked')
  BY DEF PaperInv, CanceledAsAsked, CancelsAccounted
<1>5. CanceledAsAsked'
  BY <1>2, <1>4 DEF CanceledAsAsked
<1> QED BY <1>1, <1>3, <1>5 DEF PaperInv

\* The accounts are reloaded, or the operation ends without a save.
LEMMA OpenStop ==
    ASSUME PaperInv, Open \/ Stop
    PROVE  PaperInv'
<1>1. CASE Stop
  <2>1. /\ at' = "free" /\ todo' = <<>> /\ dirty' = {} /\ replaced' = {}
        /\ UNCHANGED <<spotFile, futuresFile, txFile, mem, whole, asked>> /\ at' \in Phases
    BY <1>1 DEF Stop, Phases
  <2>2. WritesComplete'
    BY <2>1 DEF WritesComplete
  <2> QED BY <2>1, <2>2, InvGood, MemoryStep
<1>2. CASE Open
  <2>1. /\ mem' = Stored /\ at' \in {"recovering", "loaded"} /\ at' \in Phases /\ at = "free"
        /\ UNCHANGED <<spotFile, futuresFile, txFile, dirty, replaced, whole, asked>>
    BY <1>2 DEF Open, Stored, Phases
  <2>2. replaced' = {} /\ asked' \cup replaced' = asked'
    BY <2>1, InvGood
  <2>3. Good(mem', asked' \cup replaced')
    BY <2>1, <2>2, InvGood
  <2>4. WritesComplete'
    <3>1. CASE txFile # None
      BY <1>2, <3>1 DEF Open, WritesComplete
    <3>2. CASE txFile = None
      <4>1. /\ at' = "loaded" /\ todo' = todo /\ mem'.spot = spotFile' /\ mem'.futures = futuresFile' /\ txFile' = None
        BY <1>2, <3>2 DEF Open
      <4>2. todo = <<>>
        BY <2>1 DEF PaperInv, WritesComplete
      <4> QED BY <4>1, <4>2 DEF WritesComplete, SameIds
    <3> QED BY <3>1, <3>2
  <2> QED BY <2>1, <2>2, <2>3, <2>4, InvGood, MemoryStep DEF Good
<1> QED BY <1>1, <1>2

\* What an operation has before it saves.
LEMMA Underway ==
    ASSUME PaperInv, at \in {"loaded", "firing", "settled"}
    PROVE  /\ todo = <<>> /\ txFile = None /\ SameIds(TRUE, TRUE)
           /\ mem = [spot |-> mem.spot, futures |-> mem.futures]
           /\ SpotOk(mem.spot) /\ FuturesOk(mem.futures) /\ NoSharedIds(mem)
           /\ DOMAIN mem.spot.orders \cap DOMAIN mem.futures.orders = {}
           /\ CancelsAccounted(mem.spot, asked \cup replaced)
<1>1. at # "free" /\ todo = <<>> /\ txFile = None /\ SameIds(TRUE, TRUE)
  BY DEF PaperInv, WritesComplete
<1> QED BY <1>1, InvGood, GoodParts DEF NoSharedIds

\* Orders end in memory.
LEMMA ChangeStep ==
    ASSUME PaperInv, at \in {"loaded", "firing", "settled"}, at' \in {"loaded", "firing", "settled"},
           UNCHANGED <<spotFile, futuresFile, txFile, todo, whole, asked>>,
           replaced' \subseteq Ids, dirty' \subseteq {"spot", "futures"}, at' # "settled" => replaced' = {},
           NEW spot, NEW futures, mem' = [spot |-> spot, futures |-> futures],
           SpotOk(spot), FuturesOk(futures), CancelsAccounted(spot, asked \cup replaced'),
           DOMAIN spot.orders = DOMAIN mem.spot.orders, DOMAIN futures.orders = DOMAIN mem.futures.orders
    PROVE  PaperInv'
<1>1. /\ todo = <<>> /\ txFile = None /\ SameIds(TRUE, TRUE)
      /\ DOMAIN mem.spot.orders \cap DOMAIN mem.futures.orders = {}
  BY Underway
<1>2. Good(mem', asked' \cup replaced')
  BY <1>1, GoodPair
<1>3. SameIds(TRUE, TRUE)'
  BY <1>1 DEF SameIds
<1>4. WritesComplete'
  BY <1>1, <1>3 DEF WritesComplete
<1> QED BY <1>2, <1>4, InvGood, MemoryStep DEF Good, Phases

\* Futures orders whose position is gone are canceled and the account is saved by itself.
LEMMA OrphansStep ==
    ASSUME PaperInv, NEW gone, CancelOrphans(gone)
    PROVE  PaperInv'
<1> DEFINE f == Marked(mem.futures, gone, "canceled")
<1>0. at = "loaded" /\ at' = "tidying" /\ at' \in Phases /\ todo' = <<"futures">>
      /\ UNCHANGED <<spotFile, futuresFile, txFile, dirty, replaced, whole, asked>>
  BY DEF CancelOrphans, Writes, Phases
<1>1. /\ txFile = None /\ SameIds(TRUE, TRUE) /\ mem = [spot |-> mem.spot, futures |-> mem.futures]
      /\ SpotOk(mem.spot) /\ FuturesOk(mem.futures) /\ CancelsAccounted(mem.spot, asked \cup replaced)
      /\ DOMAIN mem.spot.orders \cap DOMAIN mem.futures.orders = {}
  BY <1>0, Underway
<1>2. FuturesOk(f) /\ DOMAIN f.orders = DOMAIN mem.futures.orders
  BY <1>1, FuturesStep DEF Statuses
<1>3. mem' = [spot |-> mem.spot, futures |-> f]
  BY <1>1 DEF CancelOrphans
<1> HIDE DEF f
<1>4. Good(mem', asked' \cup replaced')
  BY <1>0, <1>1, <1>2, <1>3, GoodPair
<1>5. SameIds(TRUE, FALSE)'
  BY <1>0, <1>1, <1>3 DEF SameIds
<1>6. WritesComplete'
  BY <1>0, <1>1, <1>5 DEF WritesComplete
<1>7. replaced' = {}
  BY <1>0, InvGood
<1> QED BY <1>0, <1>4, <1>6, <1>7, InvGood, MemoryStep DEF Good

\* Stale orders are canceled and orders fire, in memory.
LEMMA FireSteps ==
    ASSUME PaperInv,
           \/ \E o \in OpenOf(mem.spot) : FireSpot(o)
           \/ \E o, gone : FireFutures(o, gone)
           \/ \E o : FireStale(o)
           \/ \E stale : Refresh(stale)
    PROVE  PaperInv'
<1>0. at \in {"loaded", "firing"} /\ at' = "firing" /\ UNCHANGED <<spotFile, futuresFile, txFile, todo, replaced, whole, asked>>
  BY DEF FireSpot, FireFutures, FireStale, Fire, Refresh
<1>1. /\ mem = [spot |-> mem.spot, futures |-> mem.futures]
      /\ SpotOk(mem.spot) /\ FuturesOk(mem.futures) /\ CancelsAccounted(mem.spot, asked \cup replaced)
  BY <1>0, Underway
<1>2. replaced' = {} /\ replaced' \subseteq Ids
  BY <1>0, InvGood
<1>3. dirty' \subseteq {"spot", "futures"}
  <2>1. CASE \E stale : Refresh(stale)
    BY <2>1 DEF Refresh
  <2>2. CASE dirty' = dirty
    BY <2>2, InvGood
  <2> QED BY <2>1, <2>2 DEF FireSpot, FireFutures, FireStale, Fire
<1>4. "canceled" \in Statuses
  BY DEF Statuses
<1>5. CASE \E o \in OpenOf(mem.spot) : FireSpot(o)
  <2> PICK o \in OpenOf(mem.spot) : FireSpot(o) BY <1>5
  <2> DEFINE b == FillRestingOrder(mem.spot, o)
  <2>1. mem' = [spot |-> b, futures |-> mem.futures]
    BY <1>1 DEF FireSpot, Fire
  <2>2. SpotOk(b) /\ DOMAIN b.orders = DOMAIN mem.spot.orders /\ CancelsAccounted(b, asked \cup replaced')
    BY <1>0, <1>1, FillOk
  <2> HIDE DEF b
  <2> QED BY <1>0, <1>1, <1>2, <1>3, <2>1, <2>2, ChangeStep
<1>6. CASE \E o, gone : FireFutures(o, gone)
  <2> PICK o, gone : FireFutures(o, gone) BY <1>6
  <2> DEFINE f == FillFutures(mem.futures, o, gone)
  <2>1. mem' = [spot |-> mem.spot, futures |-> f]
    BY <1>1 DEF FireFutures, Fire
  <2>2. FuturesOk(f) /\ DOMAIN f.orders = DOMAIN mem.futures.orders
    BY <1>1, FillFuturesOk
  <2> HIDE DEF f
  <2> QED BY <1>0, <1>1, <1>2, <1>3, <2>1, <2>2, ChangeStep
<1>7. CASE (\E o : FireStale(o)) \/ (\E stale : Refresh(stale))
  <2>1. PICK orders : mem' = [spot |-> mem.spot, futures |-> Marked(mem.futures, orders, "canceled")]
    BY <1>1, <1>7 DEF FireStale, Fire, Refresh
  <2> DEFINE f == Marked(mem.futures, orders, "canceled")
  <2>2. FuturesOk(f) /\ DOMAIN f.orders = DOMAIN mem.futures.orders
    BY <1>1, <1>4, FuturesStep
  <2>3. mem' = [spot |-> mem.spot, futures |-> f]
    BY <2>1
  <2> HIDE DEF f
  <2> QED BY <1>0, <1>1, <1>2, <1>3, <2>2, <2>3, ChangeStep
<1> QED BY <1>5, <1>6, <1>7

\* What was looked at is saved, or both accounts are, as loaded.
LEMMA SettleStep ==
    ASSUME PaperInv, Settle \/ Configure
    PROVE  PaperInv'
<1>0. at \in {"loaded", "firing"} /\ UNCHANGED <<spotFile, futuresFile, txFile, mem, replaced, whole, asked>>
  BY DEF Settle, Configure
<1>1. todo = <<>> /\ txFile = None /\ SameIds(TRUE, TRUE)
  BY <1>0, Underway
<1>2. replaced' = {} /\ asked' \cup replaced' = asked \cup replaced
  BY <1>0, InvGood
<1>3. SameIds(TRUE, TRUE)' /\ SameIds(TRUE, FALSE)' /\ SameIds(FALSE, TRUE)'
  BY <1>0, <1>1 DEF SameIds
<1>4. WritesComplete' /\ at' \in Phases /\ dirty' \subseteq {"spot", "futures"}
  <2>1. CASE Configure
    BY <1>0, <1>1, <2>1, InvGood DEF Configure, Writes, WritesComplete, Phases
  <2>2. CASE Settle
    <3> DEFINE s == "spot" \in dirty
               f == "futures" \in dirty
    <3>1. todo' = Writes(s, f) /\ at' = (IF Writes(s, f) = <<>> THEN "settled" ELSE "settling") /\ dirty' = {}
      BY <2>2 DEF Settle
    <3> HIDE DEF s, f
    <3>2. CASE s /\ f
      BY <1>0, <1>1, <3>1, <3>2, TodoSequences DEF Writes, WritesComplete, Phases
    <3>3. CASE s /\ ~f
      BY <1>0, <1>1, <1>3, <3>1, <3>3, TodoSequences DEF Writes, WritesComplete, Phases
    <3>4. CASE ~s /\ f
      BY <1>0, <1>1, <1>3, <3>1, <3>4, TodoSequences DEF Writes, WritesComplete, Phases
    <3>5. CASE ~s /\ ~f
      BY <1>0, <1>1, <1>3, <3>1, <3>5 DEF Writes, WritesComplete, Phases
    <3> QED BY <3>2, <3>3, <3>4, <3>5
  <2> QED BY <2>1, <2>2
<1>5. CancelsAccounted(mem'.spot, asked' \cup replaced') /\ IsAccounts(mem') /\ Sound(mem')
  BY <1>0, <1>2, InvGood DEF Good
<1> QED BY <1>0, <1>2, <1>4, <1>5, InvGood, MemoryStep

\* The writes that are left of a save, by what they are for.
LEMMA LeftWrites ==
    /\ todo = <<"tx", "spot", "futures", "drop">> => Left("spot") /\ Left("futures")
    /\ todo = <<"spot">> => Left("spot") /\ ~Left("futures")
    /\ todo = <<"futures">> => ~Left("spot") /\ Left("futures")
<1>1. ASSUME todo = <<"tx", "spot", "futures", "drop">> PROVE Left("spot") /\ Left("futures")
  <2>1. DOMAIN todo = 1..4 /\ todo[2] = "spot" /\ todo[3] = "futures"
    BY <1>1
  <2> QED BY <2>1 DEF Left
<1>2. ASSUME todo = <<"spot">> PROVE Left("spot") /\ ~Left("futures")
  BY <1>2 DEF Left
<1>3. ASSUME todo = <<"futures">> PROVE ~Left("spot") /\ Left("futures")
  BY <1>3 DEF Left
<1> QED BY <1>1, <1>2, <1>3

\* A durable write: what is stored stays, or becomes what is in memory, in whole or in
\* the one account that is saved.
LEMMA WriteStep ==
    ASSUME PaperInv, Write
    PROVE  /\ PaperInv'
           /\ Stored'.spot \in {Stored.spot, mem.spot}
<1>0. /\ PaperTypeOK /\ Stored = whole /\ WritesComplete
      /\ UNCHANGED <<mem, dirty, replaced, asked>> /\ todo' = Tail(todo) /\ todo # <<>>
      /\ whole' = [spot |-> IF Left("spot") THEN mem.spot ELSE whole.spot,
                   futures |-> IF Left("futures") THEN mem.futures ELSE whole.futures]
      /\ at # "free" /\ at # "settled" /\ Good(Stored, asked) /\ Good(mem, asked) /\ replaced = {}
      /\ at' = IF todo' # <<>> THEN at
               ELSE CASE at \in {"recovering", "tidying"} -> "loaded"
                      [] at = "settling" -> "settled" [] at = "saving" -> "free"
  <2>1. at # "free" /\ at # "settled"
    BY DEF PaperInv, WritesComplete, Write
  <2>2. replaced = {} /\ asked \cup replaced = asked
    BY <2>1, InvGood
  <2> QED BY <2>1, <2>2, InvGood DEF PaperInv, Write
<1>1. /\ mem = [spot |-> mem.spot, futures |-> mem.futures] /\ mem # None
      /\ SpotOk(mem.spot) /\ FuturesOk(mem.futures) /\ CancelsAccounted(mem.spot, asked)
      /\ DOMAIN mem.spot.orders \cap DOMAIN mem.futures.orders = {}
  <2>1. /\ IsAccounts(mem) /\ mem = [spot |-> mem.spot, futures |-> mem.futures]
        /\ SpotOk(mem.spot) /\ FuturesOk(mem.futures) /\ NoSharedIds(mem) /\ CancelsAccounted(mem.spot, asked)
    BY <1>0, GoodParts DEF Good
  <2>2. mem # None
    BY <2>1, NoAccountsAssumption DEF IsAccounts
  <2> QED BY <2>1, <2>2 DEF NoSharedIds
<1>2. /\ spotFile' = IF Head(todo) = "spot" THEN mem.spot ELSE spotFile
      /\ futuresFile' = IF Head(todo) = "futures" THEN mem.futures ELSE futuresFile
      /\ txFile' = CASE Head(todo) = "tx" -> mem [] Head(todo) = "drop" -> None [] OTHER -> txFile
  BY DEF Write
<1>3. ASSUME txFile = None
      PROVE  /\ SpotOk(spotFile) /\ FuturesOk(futuresFile) /\ CancelsAccounted(spotFile, asked)
             /\ Stored.spot = spotFile /\ Stored.futures = futuresFile
  <2>1. Stored.spot = spotFile /\ Stored.futures = futuresFile
    BY <1>3 DEF Stored
  <2> QED BY <1>0, <2>1, GoodParts
<1>4. ASSUME txFile = mem PROVE Stored = mem /\ whole' = mem
  <2>1. Stored = mem /\ whole = mem
    BY <1>0, <1>1, <1>4 DEF Stored
  <2> QED BY <1>0, <1>1, <2>1
<1>5. /\ Stored' = whole' /\ WritesComplete' /\ at' \in Phases
      /\ Good(Stored', asked) /\ Stored'.spot \in {Stored.spot, mem.spot}
  <2>1. CASE at \in {"tidying", "settling", "saving"} /\ txFile = None /\ todo = <<"tx", "spot", "futures", "drop">>
    <3>1. whole' = mem
      BY <1>0, <1>1, <2>1, LeftWrites
    <3>2. txFile' = mem /\ todo' = <<"spot", "futures", "drop">> /\ at' = at /\ mem' = mem
      BY <1>0, <1>2, <2>1, TodoSequences
    <3>3. Stored' = mem
      BY <1>1, <3>2 DEF Stored
    <3> QED BY <1>0, <2>1, <3>1, <3>2, <3>3 DEF WritesComplete, Phases
  <2>2. CASE at \in {"tidying", "settling", "saving"} /\ txFile = None /\ todo = <<"spot">> /\ SameIds(FALSE, TRUE)
    <3>1. whole' = [spot |-> mem.spot, futures |-> futuresFile]
      BY <1>0, <1>3, <2>2, LeftWrites
    <3>2. /\ spotFile' = mem.spot /\ futuresFile' = futuresFile /\ txFile' = None /\ todo' = <<>> /\ mem' = mem
          /\ at' \in {"loaded", "settled", "free"}
      BY <1>0, <1>2, <2>2, TodoSequences
    <3>3. Stored' = [spot |-> mem.spot, futures |-> futuresFile]
      BY <3>2 DEF Stored
    <3>4. DOMAIN futuresFile.orders = DOMAIN mem.futures.orders
      BY <2>2 DEF SameIds
    <3>5. Good(Stored', asked)
      BY <1>1, <1>3, <2>2, <3>3, <3>4, GoodPair
    <3>6. SameIds(TRUE, TRUE)'
      BY <3>2, <3>4 DEF SameIds
    <3>7. WritesComplete' /\ at' \in Phases
      BY <3>2, <3>6 DEF WritesComplete, Phases
    <3> QED BY <3>1, <3>3, <3>5, <3>7
  <2>3. CASE at \in {"tidying", "settling", "saving"} /\ txFile = None /\ todo = <<"futures">> /\ SameIds(TRUE, FALSE)
    <3>1. whole' = [spot |-> spotFile, futures |-> mem.futures]
      BY <1>0, <1>3, <2>3, LeftWrites
    <3>2. /\ spotFile' = spotFile /\ futuresFile' = mem.futures /\ txFile' = None /\ todo' = <<>> /\ mem' = mem
          /\ at' \in {"loaded", "settled", "free"}
      BY <1>0, <1>2, <2>3, TodoSequences
    <3>3. Stored' = [spot |-> spotFile, futures |-> mem.futures]
      BY <3>2 DEF Stored
    <3>4. DOMAIN spotFile.orders = DOMAIN mem.spot.orders
      BY <2>3 DEF SameIds
    <3>5. Good(Stored', asked)
      BY <1>1, <1>3, <2>3, <3>3, <3>4, GoodPair
    <3>6. SameIds(TRUE, TRUE)'
      BY <3>2, <3>4 DEF SameIds
    <3>7. WritesComplete' /\ at' \in Phases
      BY <3>2, <3>6 DEF WritesComplete, Phases
    <3> QED BY <1>3, <2>3, <3>1, <3>3, <3>5, <3>7
  <2>4. CASE at \in {"recovering", "tidying", "settling", "saving"} /\ txFile = mem /\ todo = <<"spot", "futures", "drop">>
    <3>1. /\ spotFile' = mem.spot /\ txFile' = mem /\ todo' = <<"futures", "drop">> /\ at' = at /\ mem' = mem
      BY <1>0, <1>2, <2>4, TodoSequences
    <3>2. Stored' = mem
      BY <1>1, <3>1 DEF Stored
    <3> QED BY <1>0, <1>4, <2>4, <3>1, <3>2 DEF WritesComplete, FilesSaved, Phases
  <2>5. CASE /\ at \in {"recovering", "tidying", "settling", "saving"} /\ txFile = mem
             /\ todo = <<"futures", "drop">> /\ FilesSaved(TRUE, FALSE)
    <3>1. /\ spotFile' = mem.spot /\ futuresFile' = mem.futures /\ txFile' = mem /\ todo' = <<"drop">> /\ at' = at
          /\ mem' = mem
      BY <1>0, <1>2, <2>5, TodoSequences DEF FilesSaved
    <3>2. Stored' = mem
      BY <1>1, <3>1 DEF Stored
    <3> QED BY <1>0, <1>4, <2>5, <3>1, <3>2 DEF WritesComplete, FilesSaved, Phases
  <2>6. CASE /\ at \in {"recovering", "tidying", "settling", "saving"} /\ txFile = mem
             /\ todo = <<"drop">> /\ FilesSaved(TRUE, TRUE)
    <3>1. /\ spotFile' = mem.spot /\ futuresFile' = mem.futures /\ txFile' = None /\ todo' = <<>> /\ mem' = mem
          /\ at' \in {"loaded", "settled", "free"}
      BY <1>0, <1>2, <2>6, TodoSequences DEF FilesSaved
    <3>2. Stored' = mem
      BY <1>1, <3>1 DEF Stored
    <3>3. SameIds(TRUE, TRUE)'
      BY <3>1 DEF SameIds
    <3> QED BY <1>0, <1>4, <2>6, <3>1, <3>2, <3>3 DEF WritesComplete, Phases
  <2> QED BY <1>0, <2>1, <2>2, <2>3, <2>4, <2>5, <2>6 DEF WritesComplete
<1>6. PaperTypeOK'
  <2>1. txFile' \in {None, mem, txFile} /\ mem' = mem
    BY <1>0, <1>2
  <2>2. spotFile' \in {mem.spot, spotFile} /\ futuresFile' \in {mem.futures, futuresFile}
    BY <1>2
  <2>3. IsAccounts([spot |-> spotFile', futures |-> futuresFile'])
    <3>1. \A a, b : IsAccounts([spot |-> a, futures |-> b]) <=>
                        /\ DOMAIN a.orders \subseteq Ids /\ DOMAIN b.orders \subseteq Ids
                        /\ a \in SpotAccounts(DOMAIN a.orders) /\ b \in FuturesAccounts(DOMAIN b.orders)
      BY DEF IsAccounts, Accounts
    <3>2. IsAccounts([spot |-> mem.spot, futures |-> mem.futures]) /\ IsAccounts([spot |-> spotFile, futures |-> futuresFile])
      BY <1>0, <1>1 DEF PaperTypeOK
    <3> QED BY <2>2, <3>1, <3>2
  <2> QED BY <1>0, <1>5, <2>1, <2>3 DEF PaperTypeOK
<1>7. Sound(Stored') /\ Sound(mem') /\ CanceledAsAsked' /\ CancelsAccounted(mem'.spot, asked' \cup replaced')
  <2>1. asked' \cup replaced' = asked /\ asked' = asked /\ mem' = mem
    BY <1>0
  <2> QED BY <1>0, <1>5, <2>1 DEF CanceledAsAsked, Good
<1>8. replaced' = {}
  BY <1>0
<1> QED BY <1>5, <1>6, <1>7, <1>8 DEF PaperInv

-----------------------------------------------------------------------------
(* Operations *)

\* An operation changed the accounts and begins to save what it changed.
LEMMA SaveStep ==
    ASSUME PaperInv, NEW spot, NEW futures, NEW writes, Save(spot, futures, writes), replaced' = {},
           Good([spot |-> spot, futures |-> futures], asked'),
           asked \subseteq asked', asked' \subseteq Ids,
           \/ writes = Writes(TRUE, TRUE)
           \/ writes = Writes(TRUE, FALSE) /\ futures = mem.futures
    PROVE  PaperInv'
<1>1. /\ at = "settled" /\ at' = "saving" /\ at' \in Phases /\ mem' = [spot |-> spot, futures |-> futures] /\ todo' = writes
      /\ UNCHANGED <<spotFile, futuresFile, txFile, dirty, whole>>
  BY DEF Save, Phases
<1>2. txFile = None /\ SameIds(TRUE, TRUE)
  BY <1>1 DEF PaperInv, WritesComplete
<1>3. WritesComplete'
  <2>1. CASE writes = Writes(TRUE, TRUE)
    BY <1>1, <1>2, <2>1 DEF Writes, WritesComplete
  <2>2. CASE writes = Writes(TRUE, FALSE) /\ futures = mem.futures
    <3>1. todo' = <<"spot">> /\ DOMAIN futuresFile'.orders = DOMAIN mem'.futures.orders
      BY <1>1, <1>2, <2>2 DEF Writes, SameIds
    <3> QED BY <1>1, <1>2, <3>1 DEF WritesComplete, SameIds
  <2> QED BY <2>1, <2>2
<1>4. IsAccounts(mem') /\ Sound(mem') /\ CancelsAccounted(mem'.spot, asked') /\ asked' \cup replaced' = asked'
  BY <1>1 DEF Good
<1> QED BY <1>1, <1>3, <1>4, InvGood, MemoryStep

\* What an operation begins from.
LEMMA Settled ==
    ASSUME PaperInv, at = "settled"
    PROVE  /\ SpotOk(mem.spot) /\ FuturesOk(mem.futures) /\ CancelsAccounted(mem.spot, asked \cup replaced)
           /\ mem = [spot |-> mem.spot, futures |-> mem.futures]
           /\ asked \subseteq Ids /\ replaced \subseteq Ids
           /\ DOMAIN mem.spot.orders \subseteq Ids /\ DOMAIN mem.futures.orders \subseteq Ids
           /\ DOMAIN mem.spot.orders \cap DOMAIN mem.futures.orders = {}
           /\ NextId(mem) \in Nat \ {0}
           /\ NextId(mem) \notin DOMAIN mem.spot.orders \cup DOMAIN mem.futures.orders
           /\ NextId(mem) + 1 \notin DOMAIN mem.spot.orders \cup DOMAIN mem.futures.orders
<1>1. /\ SpotOk(mem.spot) /\ FuturesOk(mem.futures) /\ CancelsAccounted(mem.spot, asked \cup replaced)
      /\ mem = [spot |-> mem.spot, futures |-> mem.futures]
      /\ asked \subseteq Ids /\ replaced \subseteq Ids
      /\ DOMAIN mem.spot.orders \cap DOMAIN mem.futures.orders = {}
  BY InvGood, Underway
<1>2. DOMAIN mem.spot.orders \subseteq Ids /\ DOMAIN mem.futures.orders \subseteq Ids
  BY <1>1 DEF SpotOk, FuturesOk
<1>3. /\ NextId(mem) \in Nat \ {0}
      /\ \A o \in DOMAIN mem.spot.orders \cup DOMAIN mem.futures.orders : o < NextId(mem)
  BY <1>2, NextIdNew
<1>4. \A o \in DOMAIN mem.spot.orders \cup DOMAIN mem.futures.orders : o \in Nat
  BY <1>2 DEF Ids
<1> QED BY <1>1, <1>2, <1>3, <1>4

\* A resting order as it is made out.
LEMMA RestingOrderFields ==
    ASSUME NEW side \in Sides, NEW price \in Prices, NEW reserve \in Prices, NEW group \in {0} \cup Ids
    PROVE  /\ RestingOrder(side, price, reserve, group) \in SpotOrders
           /\ RestingOrder(side, price, reserve, group).group = group
           /\ RestingOrder(side, price, reserve, group).status = "open"
  BY DEF RestingOrder, SpotOrders, Statuses

\* A market order on an account that is sound.
LEMMA FilledOk ==
    ASSUME NEW a, SpotOk(a), NEW id \in Ids, id \notin DOMAIN a.orders, NEW side \in Sides, NEW price \in Prices
    PROVE  /\ SpotOk(Filled(a, id, side, price))
           /\ DOMAIN Filled(a, id, side, price).orders = DOMAIN a.orders \cup {id}
           /\ \A wanted : CancelsAccounted(a, wanted) => CancelsAccounted(Filled(a, id, side, price), wanted)
<1> DEFINE order == RestingOrder(side, price, price, 0)
           done == [order EXCEPT !.status = "closed"]
           b == ExecuteFill(a, side, price)
           ids == DOMAIN a.orders
<1>1. done \in SpotOrders /\ done.group = 0 /\ done.status = "closed"
  BY DEF RestingOrder, SpotOrders, Statuses
<1>2. Filled(a, id, side, price) = Added(b, id, done)
  BY DEF Filled
<1>3. a \in SpotAccounts(ids)
  BY DEF SpotOk
<1> HIDE DEF done, ids
<1>4. b \in SpotAccounts(ids) /\ b.orders = a.orders
  BY <1>1, <1>3, BalancesProperties
<1> HIDE DEF b
<1>5. /\ SpotOk(b) /\ DOMAIN b.orders = DOMAIN a.orders
      /\ \A wanted : CancelsAccounted(a, wanted) => CancelsAccounted(b, wanted)
  BY <1>4, SameOrders DEF ids
<1>6. /\ SpotOk(Added(b, id, done)) /\ DOMAIN Added(b, id, done).orders = DOMAIN b.orders \cup {id}
      /\ \A wanted : CancelsAccounted(b, wanted) => CancelsAccounted(Added(b, id, done), wanted)
  BY <1>1, <1>5, AddOk
<1> QED BY <1>2, <1>5, <1>6

\* Orders are placed, some in place of others.
LEMMA PlaceSteps ==
    ASSUME PaperInv,
           \/ \E side \in Sides, price \in Prices : PlaceResting(side, price) \/ PlaceMarket(side, price)
           \/ \E side \in Sides, stop, profit \in Prices : PlaceOco(side, stop, profit)
           \/ PlaceFutures \/ \E gone : PlaceFuturesMarket(gone)
    PROVE  PaperInv'
<1> DEFINE id == NextId(mem)
           wanted == asked \cup replaced
<1>0. at = "settled"
  BY DEF PlaceResting, PlaceMarket, PlaceOco, PlaceFutures, PlaceFuturesMarket, Submit, SubmitFutures, Save
<1>1. /\ SpotOk(mem.spot) /\ FuturesOk(mem.futures) /\ CancelsAccounted(mem.spot, wanted)
      /\ asked \subseteq wanted /\ wanted \subseteq Ids /\ replaced \subseteq Ids /\ id \in Nat \ {0}
      /\ id \notin DOMAIN mem.spot.orders \cup DOMAIN mem.futures.orders
      /\ id + 1 \notin DOMAIN mem.spot.orders \cup DOMAIN mem.futures.orders
  BY <1>0, Settled
<1>2. /\ id <= MaxOrders => id \in Ids
      /\ id + 1 <= MaxOrders => id \in Ids /\ id + 1 \in Ids
  BY <1>1 DEF Ids
<1>3. DOMAIN mem.spot.orders \cap DOMAIN mem.futures.orders = {}
  BY <1>0, Settled
<1> HIDE DEF id, wanted
<1>4. CASE \E side \in Sides, price \in Prices : PlaceResting(side, price)
  <2> PICK side \in Sides, price \in Prices : PlaceResting(side, price) BY <1>4
  <2> DEFINE order == RestingOrder(side, price, price, 0)
             a == Reserve(mem.spot, order)
             b == Added(a, id, order)
  <2>1. id \in Ids /\ Save(b, mem.futures, Writes(TRUE, FALSE)) /\ asked' = wanted /\ replaced' = {}
    BY <1>2 DEF PlaceResting, Submit, id, wanted
  <2>2. order \in SpotOrders /\ order.group = 0 /\ order.status = "open"
    <3>1. 0 \in {0} \cup Ids
      OBVIOUS
    <3> QED BY <3>1, RestingOrderFields
  <2> HIDE DEF order
  <2>3. a \in SpotAccounts(DOMAIN mem.spot.orders) /\ a.orders = mem.spot.orders
    BY <1>1, <2>2, BalancesProperties DEF SpotOk
  <2> HIDE DEF a
  <2>4. SpotOk(a) /\ DOMAIN a.orders = DOMAIN mem.spot.orders /\ CancelsAccounted(a, wanted)
    BY <1>1, <2>3, SameOrders
  <2>5. SpotOk(b) /\ DOMAIN b.orders = DOMAIN mem.spot.orders \cup {id} /\ CancelsAccounted(b, wanted)
    BY <1>1, <2>1, <2>2, <2>4, AddOk
  <2> HIDE DEF b
  <2>6. Good([spot |-> b, futures |-> mem.futures], asked')
    BY <1>1, <1>3, <2>1, <2>5, GoodPair
  <2> QED BY <1>1, <2>1, <2>6, SaveStep
<1>5. CASE \E side \in Sides, price \in Prices : PlaceMarket(side, price)
  <2> PICK side \in Sides, price \in Prices : PlaceMarket(side, price) BY <1>5
  <2> DEFINE b == Filled(mem.spot, id, side, price)
  <2>1. id \in Ids /\ Save(b, mem.futures, Writes(TRUE, FALSE)) /\ asked' = wanted /\ replaced' = {}
    BY <1>2 DEF PlaceMarket, Submit, id, wanted
  <2>2. SpotOk(b) /\ DOMAIN b.orders = DOMAIN mem.spot.orders \cup {id} /\ CancelsAccounted(b, wanted)
    BY <1>1, <2>1, FilledOk
  <2> HIDE DEF b
  <2>3. Good([spot |-> b, futures |-> mem.futures], asked')
    BY <1>1, <1>3, <2>1, <2>2, GoodPair
  <2> QED BY <1>1, <2>1, <2>3, SaveStep
<1>6. CASE \E side \in Sides, stop, profit \in Prices : PlaceOco(side, stop, profit)
  <2> PICK side \in Sides, stop \in Prices, profit \in Prices : PlaceOco(side, stop, profit) BY <1>6
  <2> DEFINE reserve == IF stop > profit THEN stop ELSE profit
             leg == RestingOrder(side, stop, reserve, id)
             other == RestingOrder(side, profit, reserve, id)
             a == Reserve(mem.spot, leg)
             b == Added(Added(a, id, leg), id + 1, other)
  <2>1. /\ id \in Ids /\ id + 1 \in Ids /\ Save(b, mem.futures, Writes(TRUE, FALSE)) /\ reserve \in Prices
        /\ asked' = wanted /\ replaced' = {}
    BY <1>2 DEF PlaceOco, id, wanted
  <2> HIDE DEF reserve
  <2>2. /\ leg \in SpotOrders /\ leg.group = id /\ leg.status = "open"
        /\ other \in SpotOrders /\ other.group = id /\ other.status = "open"
    <3>1. id \in {0} \cup Ids
      BY <2>1
    <3> QED BY <2>1, <3>1, RestingOrderFields
  <2> HIDE DEF leg, other
  <2>3. a \in SpotAccounts(DOMAIN mem.spot.orders) /\ a.orders = mem.spot.orders
    BY <1>1, <2>2, BalancesProperties DEF SpotOk
  <2> HIDE DEF a
  <2>4. SpotOk(a) /\ DOMAIN a.orders = DOMAIN mem.spot.orders /\ CancelsAccounted(a, wanted)
    BY <1>1, <2>3, SameOrders
  <2>5. SpotOk(b) /\ DOMAIN b.orders = DOMAIN mem.spot.orders \cup {id, id + 1} /\ CancelsAccounted(b, wanted)
    BY <1>1, <2>1, <2>2, <2>4, PairOk
  <2> HIDE DEF b
  <2>6. DOMAIN b.orders \cap DOMAIN mem.futures.orders = {}
    BY <1>1, <1>3, <2>5
  <2>7. Good([spot |-> b, futures |-> mem.futures], asked')
    BY <1>1, <2>1, <2>5, <2>6, GoodPair
  <2> QED BY <1>1, <2>1, <2>7, SaveStep
<1>7. CASE PlaceFutures \/ \E gone : PlaceFuturesMarket(gone)
  <2> DEFINE a == Added(mem.futures, id, [status |-> "open"])
  <2>1. PICK f : /\ f = a \/ \E gone : f = FillFutures(a, id, gone)
                 /\ id \in Ids /\ Save(mem.spot, f, Writes(TRUE, TRUE)) /\ replaced' = {} /\ asked' = asked
                 /\ replaced \subseteq DOMAIN mem.futures.orders
    BY <1>2, <1>7 DEF PlaceFutures, PlaceFuturesMarket, SubmitFutures, id
  <2>2. FuturesOk(a) /\ DOMAIN a.orders = DOMAIN mem.futures.orders \cup {id}
    BY <1>1, <2>1, FuturesStep
  <2> HIDE DEF a
  <2>3. FuturesOk(f) /\ DOMAIN f.orders = DOMAIN mem.futures.orders \cup {id}
    BY <2>1, <2>2, FillFuturesOk
  <2>4. CancelsAccounted(mem.spot, asked)
    <3>1. replaced \cap DOMAIN mem.spot.orders = {}
      BY <1>3, <2>1
    <3> QED BY <1>1, <3>1 DEF CancelsAccounted, wanted
  <2>5. Good([spot |-> mem.spot, futures |-> f], asked')
    BY <1>1, <1>3, <2>1, <2>3, <2>4, GoodPair
  <2>6. asked' \subseteq Ids
    BY <1>1, <2>1
  <2> QED BY <2>1, <2>5, <2>6, SaveStep
<1> QED BY <1>4, <1>5, <1>6, <1>7

\* Orders are canceled, or given up for an order that is to replace them.
LEMMA CancelSteps ==
    ASSUME PaperInv,
           \/ \E o \in OpenOf(mem.spot) : CancelSpot(o) \/ ReplaceSpot(o)
           \/ \E o \in OpenOf(mem.futures) : CancelFutures(o) \/ ReplaceFutures(o)
    PROVE  PaperInv'
<1>0. at = "settled"
  BY DEF CancelSpot, ReplaceSpot, CancelFutures, ReplaceFutures, Save
<1>1. /\ SpotOk(mem.spot) /\ FuturesOk(mem.futures) /\ CancelsAccounted(mem.spot, asked \cup replaced)
      /\ mem = [spot |-> mem.spot, futures |-> mem.futures]
      /\ asked \subseteq Ids /\ replaced \subseteq Ids
      /\ DOMAIN mem.spot.orders \subseteq Ids /\ DOMAIN mem.futures.orders \subseteq Ids
      /\ DOMAIN mem.spot.orders \cap DOMAIN mem.futures.orders = {}
  BY <1>0, Settled
<1>2. \A o : GroupOf(mem.spot, o) \subseteq Ids
  BY <1>1 DEF GroupOf
<1>3. ASSUME NEW o \in OpenOf(mem.spot)
      PROVE  /\ SpotOk(CancelGroup(mem.spot, o))
             /\ DOMAIN CancelGroup(mem.spot, o).orders = DOMAIN mem.spot.orders
             /\ CancelsAccounted(CancelGroup(mem.spot, o), asked \cup replaced \cup GroupOf(mem.spot, o))
  BY <1>1, CancelOk
<1>4. ASSUME NEW o
      PROVE  LET f == Marked(mem.futures, {o}, "canceled") IN
             FuturesOk(f) /\ DOMAIN f.orders = DOMAIN mem.futures.orders
  BY <1>1, FuturesStep DEF Statuses
<1>5. CASE \E o \in OpenOf(mem.spot) : CancelSpot(o)
  <2> PICK o \in OpenOf(mem.spot) : CancelSpot(o) BY <1>5
  <2> DEFINE b == CancelGroup(mem.spot, o)
  <2>1. /\ Save(b, mem.futures, Writes(TRUE, TRUE)) /\ asked' = asked \cup replaced \cup GroupOf(mem.spot, o)
        /\ replaced' = {}
    BY DEF CancelSpot
  <2>2. SpotOk(b) /\ DOMAIN b.orders = DOMAIN mem.spot.orders /\ CancelsAccounted(b, asked')
    BY <1>3, <2>1
  <2> HIDE DEF b
  <2>3. Good([spot |-> b, futures |-> mem.futures], asked')
    BY <1>1, <2>2, GoodPair
  <2>4. asked \subseteq asked' /\ asked' \subseteq Ids
    BY <1>1, <1>2, <2>1
  <2> QED BY <2>1, <2>3, <2>4, SaveStep
<1>6. CASE \E o \in OpenOf(mem.spot) : ReplaceSpot(o)
  <2> PICK o \in OpenOf(mem.spot) : ReplaceSpot(o) BY <1>6
  <2> DEFINE b == CancelGroup(mem.spot, o)
  <2>1. /\ mem' = [spot |-> b, futures |-> mem.futures] /\ at' = "settled"
        /\ replaced' = replaced \cup GroupOf(mem.spot, o)
        /\ UNCHANGED <<spotFile, futuresFile, txFile, todo, dirty, whole, asked>>
    BY <1>1 DEF ReplaceSpot
  <2>2. asked \cup replaced' = asked \cup replaced \cup GroupOf(mem.spot, o) /\ replaced' \subseteq Ids
    BY <1>1, <1>2, <2>1
  <2>3. SpotOk(b) /\ DOMAIN b.orders = DOMAIN mem.spot.orders /\ CancelsAccounted(b, asked \cup replaced')
    BY <1>3, <2>2
  <2> HIDE DEF b
  <2> QED BY <1>0, <1>1, <2>1, <2>2, <2>3, InvGood, ChangeStep
<1>7. CASE \E o \in OpenOf(mem.futures) : CancelFutures(o)
  <2> PICK o \in OpenOf(mem.futures) : CancelFutures(o) BY <1>7
  <2> DEFINE f == Marked(mem.futures, {o}, "canceled")
  <2>1. /\ Save(mem.spot, f, Writes(TRUE, TRUE)) /\ asked' = asked \cup replaced /\ replaced' = {}
        /\ asked \subseteq asked'
    BY DEF CancelFutures
  <2>2. FuturesOk(f) /\ DOMAIN f.orders = DOMAIN mem.futures.orders
    BY <1>4
  <2> HIDE DEF f
  <2>3. Good([spot |-> mem.spot, futures |-> f], asked')
    BY <1>1, <2>1, <2>2, GoodPair
  <2>4. asked' \subseteq Ids
    BY <1>1, <2>1
  <2> QED BY <2>1, <2>3, <2>4, SaveStep
<1>8. CASE \E o \in OpenOf(mem.futures) : ReplaceFutures(o)
  <2> PICK o \in OpenOf(mem.futures) : ReplaceFutures(o) BY <1>8
  <2> DEFINE f == Marked(mem.futures, {o}, "canceled")
  <2>1. /\ mem' = [spot |-> mem.spot, futures |-> f] /\ at' = "settled" /\ replaced' = replaced \cup {o}
        /\ UNCHANGED <<spotFile, futuresFile, txFile, todo, dirty, whole, asked>>
    BY <1>0, <1>1 DEF ReplaceFutures
  <2>2. FuturesOk(f) /\ DOMAIN f.orders = DOMAIN mem.futures.orders
    BY <1>4
  <2>3. replaced' \subseteq Ids
    BY <1>1, <2>1 DEF OpenOf
  <2>4. CancelsAccounted(mem.spot, asked \cup replaced')
    BY <1>1, <2>1 DEF CancelsAccounted
  <2> HIDE DEF f
  <2> QED BY <1>0, <1>1, <2>1, <2>2, <2>3, <2>4, InvGood, ChangeStep
<1> QED BY <1>5, <1>6, <1>7, <1>8

-----------------------------------------------------------------------------
(* The invariant and what follows from it *)

\* New accounts have no orders.
LEMMA PaperInitInv == PaperInit => PaperInv
<1> SUFFICES ASSUME PaperInit PROVE PaperInv
  OBVIOUS
<1>1. /\ DOMAIN FreshSpot.orders = {} /\ DOMAIN FreshFutures.orders = {}
      /\ FreshSpot.orders \in [{} -> SpotOrders] /\ FreshFutures.orders \in [{} -> [status : Statuses]]
  BY DEF FreshSpot, FreshFutures
<1>2. FreshSpot \in SpotAccounts({}) /\ FreshFutures \in FuturesAccounts({})
  BY <1>1 DEF FreshSpot, FreshFutures, SpotAccounts, FuturesAccounts
<1>3. SpotOk(FreshSpot) /\ FuturesOk(FreshFutures) /\ CancelsAccounted(FreshSpot, {})
  BY <1>1, <1>2 DEF SpotOk, FuturesOk, GroupsGiven, LegsTogether, CancelsAccounted
<1>4. Good([spot |-> FreshSpot, futures |-> FreshFutures], {})
  BY <1>1, <1>3, GoodPair
<1>5. Good(mem, asked) /\ Stored = mem /\ Stored = whole /\ replaced = {} /\ at = "free"
  BY <1>4 DEF PaperInit, Stored
<1>6. PaperTypeOK /\ WritesComplete
  BY <1>4 DEF PaperInit, PaperTypeOK, WritesComplete, Good, Phases
<1> QED BY <1>5, <1>6 DEF PaperInv, Good, CanceledAsAsked

\* Every step keeps the invariant.
LEMMA PaperStep ==
    ASSUME PaperInv, [PaperNext]_paperVars
    PROVE  PaperInv'
<1>1. CASE UNCHANGED paperVars
  <2>1. WritesComplete'
    BY <1>1 DEF paperVars, PaperInv, WritesComplete, FilesSaved, SameIds
  <2> QED BY <1>1, <2>1, InvGood, MemoryStep DEF paperVars, Good
<1>2. CASE Open \/ Stop
  BY <1>2, OpenStop
<1>3. CASE Write
  BY <1>3, WriteStep
<1>4. CASE Settlement
  BY <1>4, SettleStep, FireSteps, OrphansStep DEF Settlement
<1>5. CASE Operation
  BY <1>5, PlaceSteps, CancelSteps, SettleStep DEF Operation
<1> QED BY <1>1, <1>2, <1>3, <1>4, <1>5 DEF PaperNext

\* What is stored is what the last save began with, the writes left complete it, and the
\* accounts are sound, with a stop or a failed write at any point.
THEOREM PaperInvariant == PaperSpec => []PaperInv
<1>1. PaperInv /\ [PaperNext]_paperVars => PaperInv'
  BY PaperStep
<1> QED BY <1>1, PaperInitInv, PTL DEF PaperSpec

\* persistAccountsUnlocked and the replay of its transaction store both accounts or
\* neither.
THEOREM PaperSavedWhole == PaperSpec => []SavedWhole
<1>1. PaperInv => SavedWhole
  BY DEF PaperInv, SavedWhole
<1> QED BY <1>1, PaperInvariant, PTL

\* The legs of an OCO group end together and one at most is filled.
THEOREM PaperOcoWhole == PaperSpec => []OcoWhole
<1>1. PaperInv => OcoWhole
  BY DEF PaperInv, OcoWhole, Sound
<1> QED BY <1>1, PaperInvariant, PTL

\* maxPersistedOrderId gives no id twice.
THEOREM PaperIdsDistinct == PaperSpec => []IdsDistinct
<1>1. PaperInv => IdsDistinct
  BY DEF PaperInv, IdsDistinct, Sound
<1> QED BY <1>1, PaperInvariant, PTL

\* An order is canceled only by an operation that went through or by the fill of the
\* other leg: a refused replacement leaves the stored protection.
THEOREM PaperCanceledAsAsked == PaperSpec => []CanceledAsAsked
<1>1. PaperInv => CanceledAsAsked
  BY DEF PaperInv
<1> QED BY <1>1, PaperInvariant, PTL

-----------------------------------------------------------------------------
(* Reservations *)

\* A set of numbers has a least one.
LEMMA MinExists ==
    ASSUME NEW S \in SUBSET Nat, S # {}
    PROVE  \E m \in S : \A y \in S : m <= y
<1> DEFINE R == OpToRel(<, Nat)
<1>1. PICK m \in S : \A y \in S : ~(<<y, m>> \in R)
  <2>1. IsWellFoundedOn(R, Nat)
    BY NatLessThanWellFounded
  <2> HIDE DEF R
  <2> QED BY <2>1, WFMin
<1>2. \A y \in S : ~(y < m)
  BY <1>1 DEF OpToRel
<1> HIDE DEF R
<1> QED BY <1>2

\* What an order holds.
LEMMA HeldTypes ==
    ASSUME NEW order \in SpotOrders
    PROVE  QuoteHeld(order) \in Nat /\ BaseHeld(order) \in Nat
<1>1. \A p \in Prices : WithFee(p) \in Nat
  BY DEF WithFee
<1> QED BY <1>1, OrderFields DEF QuoteHeld, BaseHeld

\* What the orders of an account hold, each by itself.
QuoteOf(a) == [o \in DOMAIN a.orders |-> QuoteHeld(a.orders[o])]
BaseOf(a) == [o \in DOMAIN a.orders |-> BaseHeld(a.orders[o])]
LeadsOf(a) == Leads(a, OpenOf(a))

\* The sums of reservedAmount are over finitely many orders and are numbers.
LEMMA ReservedTypes ==
    ASSUME NEW a, SpotOk(a)
    PROVE  /\ LeadsOf(a) \subseteq OpenOf(a) /\ OpenOf(a) \subseteq DOMAIN a.orders
           /\ IsFiniteSet(LeadsOf(a)) /\ DOMAIN a.orders \subseteq Nat
           /\ \A o \in DOMAIN a.orders : QuoteOf(a)[o] \in Nat /\ BaseOf(a)[o] \in Nat
           /\ QuoteReserved(a) = SumFunctionOnSet(QuoteOf(a), LeadsOf(a)) /\ QuoteReserved(a) \in Int
           /\ BaseReserved(a) = SumFunctionOnSet(BaseOf(a), LeadsOf(a)) /\ BaseReserved(a) \in Int
<1>1. /\ LeadsOf(a) \subseteq OpenOf(a) /\ OpenOf(a) \subseteq DOMAIN a.orders
      /\ DOMAIN a.orders \subseteq Ids /\ DOMAIN a.orders \subseteq Nat
  BY DEF LeadsOf, Leads, OpenOf, SpotOk, Ids
<1>2. IsFiniteSet(Ids)
  BY FS_Interval DEF Ids
<1>3. IsFiniteSet(LeadsOf(a))
  <2>1. LeadsOf(a) \subseteq Ids
    BY <1>1
  <2> QED BY <1>2, <2>1, FS_Subset
<1>4. \A o \in DOMAIN a.orders : QuoteOf(a)[o] \in Nat /\ BaseOf(a)[o] \in Nat
  BY HeldTypes, SpotFields DEF QuoteOf, BaseOf, SpotOk
<1>5. \A o \in LeadsOf(a) : QuoteOf(a)[o] \in Int /\ BaseOf(a)[o] \in Int
  BY <1>1, <1>4
<1>6. SumFunctionOnSet(QuoteOf(a), LeadsOf(a)) \in Int /\ SumFunctionOnSet(BaseOf(a), LeadsOf(a)) \in Int
  BY <1>3, <1>5, SumType
<1>7. /\ QuoteReserved(a) = SumFunctionOnSet(QuoteOf(a), LeadsOf(a))
      /\ BaseReserved(a) = SumFunctionOnSet(BaseOf(a), LeadsOf(a))
  BY DEF QuoteReserved, BaseReserved, QuoteOf, BaseOf, LeadsOf
<1> QED BY <1>1, <1>3, <1>4, <1>6, <1>7

\* Both accounts hold the same for these orders.
SameHeld(a, b, orders) ==
    \A x \in orders : QuoteOf(a)[x] = QuoteOf(b)[x] /\ BaseOf(a)[x] = BaseOf(b)[x]

\* One lead more, one reservation more.
LEMMA OneLeadMore ==
    ASSUME NEW a, SpotOk(a), NEW b, SpotOk(b), NEW l \in DOMAIN b.orders,
           l \notin LeadsOf(a), LeadsOf(b) = LeadsOf(a) \cup {l}, SameHeld(a, b, LeadsOf(a))
    PROVE  /\ QuoteReserved(b) = QuoteHeld(b.orders[l]) + QuoteReserved(a)
           /\ BaseReserved(b) = BaseHeld(b.orders[l]) + BaseReserved(a)
<1> DEFINE L == LeadsOf(a)
<1>1. /\ IsFiniteSet(L) /\ QuoteReserved(a) = SumFunctionOnSet(QuoteOf(a), L)
      /\ BaseReserved(a) = SumFunctionOnSet(BaseOf(a), L)
  BY ReservedTypes
<1>2. /\ \A o \in L \cup {l} : QuoteOf(b)[o] \in Int /\ BaseOf(b)[o] \in Int
      /\ QuoteReserved(b) = SumFunctionOnSet(QuoteOf(b), L \cup {l})
      /\ BaseReserved(b) = SumFunctionOnSet(BaseOf(b), L \cup {l})
  <2>1. /\ \A o \in DOMAIN b.orders : QuoteOf(b)[o] \in Nat /\ BaseOf(b)[o] \in Nat
        /\ LeadsOf(b) \subseteq DOMAIN b.orders
        /\ QuoteReserved(b) = SumFunctionOnSet(QuoteOf(b), LeadsOf(b))
        /\ BaseReserved(b) = SumFunctionOnSet(BaseOf(b), LeadsOf(b))
    BY ReservedTypes
  <2>2. LeadsOf(b) = L \cup {l}
    OBVIOUS
  <2> HIDE DEF L
  <2>3. \A o \in L \cup {l} : QuoteOf(b)[o] \in Int /\ BaseOf(b)[o] \in Int
    BY <2>1, <2>2
  <2> QED BY <2>1, <2>2, <2>3
<1> HIDE DEF L
<1>3. /\ SumFunctionOnSet(QuoteOf(b), L \cup {l}) = QuoteOf(b)[l] + SumFunctionOnSet(QuoteOf(b), L)
      /\ SumFunctionOnSet(BaseOf(b), L \cup {l}) = BaseOf(b)[l] + SumFunctionOnSet(BaseOf(b), L)
  <2>1. l \notin L
    BY DEF L
  <2> QED BY <1>1, <1>2, <2>1, SumAdd
<1>4. /\ SumFunctionOnSet(QuoteOf(b), L) = SumFunctionOnSet(QuoteOf(a), L)
      /\ SumFunctionOnSet(BaseOf(b), L) = SumFunctionOnSet(BaseOf(a), L)
  <2>1. \A x \in L : QuoteOf(b)[x] = QuoteOf(a)[x] /\ BaseOf(b)[x] = BaseOf(a)[x]
    BY DEF L, SameHeld
  <2> QED BY <1>1, <2>1, SumSame
<1>5. QuoteOf(b)[l] = QuoteHeld(b.orders[l]) /\ BaseOf(b)[l] = BaseHeld(b.orders[l])
  BY DEF QuoteOf, BaseOf
<1> QED BY <1>1, <1>2, <1>3, <1>4, <1>5

\* The same leads, the same reservations.
LEMMA SameLeads ==
    ASSUME NEW a, SpotOk(a), NEW b, SpotOk(b), LeadsOf(b) = LeadsOf(a), SameHeld(a, b, LeadsOf(a))
    PROVE  QuoteReserved(b) = QuoteReserved(a) /\ BaseReserved(b) = BaseReserved(a)
<1> DEFINE L == LeadsOf(a)
<1>1. /\ IsFiniteSet(L) /\ QuoteReserved(a) = SumFunctionOnSet(QuoteOf(a), L)
      /\ BaseReserved(a) = SumFunctionOnSet(BaseOf(a), L)
      /\ QuoteReserved(b) = SumFunctionOnSet(QuoteOf(b), L)
      /\ BaseReserved(b) = SumFunctionOnSet(BaseOf(b), L)
  BY ReservedTypes
<1>2. \A x \in L : QuoteOf(b)[x] = QuoteOf(a)[x] /\ BaseOf(b)[x] = BaseOf(a)[x]
  BY DEF SameHeld
<1> HIDE DEF L
<1>3. /\ SumFunctionOnSet(QuoteOf(b), L) = SumFunctionOnSet(QuoteOf(a), L)
      /\ SumFunctionOnSet(BaseOf(b), L) = SumFunctionOnSet(BaseOf(a), L)
  BY <1>1, <1>2, SumSame
<1> QED BY <1>1, <1>3

\* An open order's group ends: one lead less.
LEMMA GroupReleased ==
    ASSUME NEW a, SpotOk(a), LegsAlike(a), NEW o \in OpenOf(a), NEW b, SpotOk(b),
           DOMAIN b.orders = DOMAIN a.orders,
           \A x \in DOMAIN a.orders :
               /\ b.orders[x].group = a.orders[x].group /\ b.orders[x].side = a.orders[x].side
               /\ b.orders[x].price = a.orders[x].price /\ b.orders[x].reserve = a.orders[x].reserve
               /\ b.orders[x].status = "open" <=> x \in OpenOf(a) \ GroupOf(a, o)
    PROVE  /\ LegsAlike(b)
           /\ QuoteReserved(a) = QuoteHeld(a.orders[o]) + QuoteReserved(b)
           /\ BaseReserved(a) = BaseHeld(a.orders[o]) + BaseReserved(b)
<1> DEFINE ids == DOMAIN a.orders
           group(x) == a.orders[x].group
           legs == GroupOf(a, o) \cap OpenOf(a)
<1>1. LegsAlike(b)
  BY DEF LegsAlike
<1>2. o \in ids /\ o \in legs /\ legs \subseteq Nat /\ OpenOf(a) \subseteq ids /\ ids \subseteq Nat
  BY ReservedTypes DEF OpenOf, GroupOf
<1>3. PICK l \in legs : \A y \in legs : l <= y
  <2> HIDE DEF legs
  <2>1. legs \in SUBSET Nat /\ legs # {}
    BY <1>2
  <2> QED BY <2>1, MinExists
<1>4. l \in ids /\ (l = o \/ (group(o) # 0 /\ group(l) = group(o)))
  BY <1>2 DEF GroupOf
<1>5. GroupOf(a, l) = GroupOf(a, o)
  BY <1>2, <1>4 DEF GroupOf
<1>6. QuoteHeld(a.orders[l]) = QuoteHeld(a.orders[o]) /\ BaseHeld(a.orders[l]) = BaseHeld(a.orders[o])
  BY <1>2, <1>4 DEF LegsAlike, QuoteHeld, BaseHeld
<1>7. /\ OpenOf(b) = OpenOf(a) \ GroupOf(a, o)
      /\ \A x \in ids : GroupOf(b, x) = GroupOf(a, x)
  BY DEF OpenOf, GroupOf
<1>8. l \in LeadsOf(a) /\ l \notin LeadsOf(b)
  BY <1>3, <1>5, <1>7 DEF LeadsOf, Leads
<1>9. ASSUME NEW x \in LeadsOf(b) PROVE x \in LeadsOf(a)
  <2>1. /\ x \in OpenOf(a) /\ x \notin GroupOf(a, o) /\ x \in ids
        /\ \A y \in GroupOf(a, x) \cap OpenOf(b) : x <= y
    BY <1>2, <1>7, <1>9 DEF LeadsOf, Leads
  <2>2. ASSUME NEW y \in GroupOf(a, x) \cap OpenOf(a) PROVE y \in OpenOf(b)
    <3>1. y \notin GroupOf(a, o)
      BY <1>2, <2>1, <2>2 DEF GroupOf
    <3> QED BY <1>7, <2>2, <3>1
  <2> QED BY <2>1, <2>2 DEF LeadsOf, Leads
<1>10. ASSUME NEW x \in LeadsOf(a), x # l PROVE x \in LeadsOf(b)
  <2>1. x \in OpenOf(a) /\ x \in ids /\ \A y \in GroupOf(a, x) \cap OpenOf(a) : x <= y
    BY <1>2, <1>10 DEF LeadsOf, Leads
  <2>2. x \notin GroupOf(a, o)
    <3> SUFFICES ASSUME x \in GroupOf(a, o) PROVE FALSE
      OBVIOUS
    <3>1. l \in GroupOf(a, x)
      BY <1>2, <1>4, <2>1 DEF GroupOf
    <3>2. x <= l /\ l <= x
      BY <1>3, <2>1, <3>1
    <3> QED BY <1>2, <1>4, <1>10, <2>1, <3>2
  <2>3. x \in OpenOf(b) /\ \A y \in GroupOf(b, x) \cap OpenOf(b) : x <= y
    BY <1>7, <2>1, <2>2
  <2> QED BY <2>3 DEF LeadsOf, Leads
<1>11. LeadsOf(a) = LeadsOf(b) \cup {l}
  BY <1>8, <1>9, <1>10
<1>12. SameHeld(b, a, LeadsOf(b))
  <2>1. LeadsOf(b) \subseteq ids
    BY ReservedTypes
  <2> QED BY <2>1 DEF SameHeld, QuoteOf, BaseOf, QuoteHeld, BaseHeld
<1>13. /\ QuoteReserved(a) = QuoteHeld(a.orders[l]) + QuoteReserved(b)
       /\ BaseReserved(a) = BaseHeld(a.orders[l]) + BaseReserved(b)
  BY <1>4, <1>8, <1>11, <1>12, OneLeadMore
<1> QED BY <1>1, <1>6, <1>13

\* The balances of an account after a reservation, a release or a trade.
LEMMA BalanceFields ==
    ASSUME NEW ids, NEW a \in SpotAccounts(ids), NEW order, NEW price
    PROVE  /\ LET b == Reserve(a, order) IN
              /\ b.quote = a.quote - QuoteHeld(order) /\ b.base = a.base - BaseHeld(order)
              /\ b.paid = a.paid /\ b.got = a.got
           /\ LET b == ReleaseReservation(a, order) IN
              /\ b.quote = a.quote + QuoteHeld(order) /\ b.base = a.base + BaseHeld(order)
              /\ b.paid = a.paid /\ b.got = a.got
           /\ LET b == ExecuteFill(a, "buy", price) IN
              /\ b.quote = a.quote - WithFee(price) /\ b.base = a.base + 1
              /\ b.paid = a.paid + WithFee(price) /\ b.got = a.got + 1
  BY DEF SpotAccounts, Reserve, ReleaseReservation, ExecuteFill

\* The same for a sale.
LEMMA SellFields ==
    ASSUME NEW ids, NEW a \in SpotAccounts(ids), NEW price
    PROVE  LET b == ExecuteFill(a, "sell", price) IN
           /\ b.quote = a.quote + price - Fee[price] /\ b.base = a.base - 1
           /\ b.paid = a.paid - price + Fee[price] /\ b.got = a.got - 1
  BY DEF SpotAccounts, ExecuteFill

\* The balances of an account when orders are marked or added.
LEMMA OrdersOnly ==
    ASSUME NEW ids, NEW a \in SpotAccounts(ids), NEW orders, NEW status, NEW id, NEW order
    PROVE  /\ LET b == Marked(a, orders, status) IN
              b.quote = a.quote /\ b.base = a.base /\ b.paid = a.paid /\ b.got = a.got
           /\ LET b == Added(a, id, order) IN
              b.quote = a.quote /\ b.base = a.base /\ b.paid = a.paid /\ b.got = a.got
  BY DEF SpotAccounts, Marked, Added

-----------------------------------------------------------------------------
(* Funds *)

\* An open order's group ends, as canceled or filled, and what it held is released.
LEMMA ReleaseFunded ==
    ASSUME NEW a, SpotOk(a), SpotExact(a), NEW o \in OpenOf(a), NEW s \in {"closed", "canceled"},
           NEW m \in SpotAccounts(DOMAIN a.orders),
           m.quote = a.quote, m.base = a.base, m.paid = a.paid, m.got = a.got,
           \A x \in DOMAIN a.orders :
               /\ m.orders[x].group = a.orders[x].group /\ m.orders[x].side = a.orders[x].side
               /\ m.orders[x].price = a.orders[x].price /\ m.orders[x].reserve = a.orders[x].reserve
               /\ m.orders[x].status = IF x = o THEN s
                                       ELSE IF x \in GroupOf(a, o) \cap OpenOf(a) THEN "canceled"
                                       ELSE a.orders[x].status
    PROVE  LET b == ReleaseReservation(m, a.orders[o])
           IN  /\ SpotOk(b) /\ SpotExact(b) /\ DOMAIN b.orders = DOMAIN a.orders
               /\ b.quote = a.quote + QuoteHeld(a.orders[o]) /\ b.base = a.base + BaseHeld(a.orders[o])
<1> DEFINE ids == DOMAIN a.orders
           order == a.orders[o]
           b == ReleaseReservation(m, order)
<1>1. a \in SpotAccounts(ids) /\ o \in ids /\ order \in SpotOrders /\ order.price \in Prices /\ a.orders[o].status = "open"
  BY SpotFields, OrderFields DEF SpotOk, OpenOf
<1> HIDE DEF ids, order
<1>2. b \in SpotAccounts(ids) /\ b.orders = m.orders
  BY <1>1, ReserveProperties DEF ids
<1>3. /\ b.quote = a.quote + QuoteHeld(order) /\ b.base = a.base + BaseHeld(order)
      /\ b.paid = a.paid /\ b.got = a.got
  BY BalanceFields
<1> HIDE DEF b
<1>4. SpotOk(b) /\ DOMAIN b.orders = ids
  <2>1. SpotOk(b)
    BY <1>2, GroupEnds DEF ids
  <2> QED BY <1>2, <2>1, SpotFields
<1>5. ASSUME NEW x \in ids
      PROVE  b.orders[x].status = "open" <=> x \in OpenOf(a) \ GroupOf(a, o)
  <2>1. x \in OpenOf(a) <=> a.orders[x].status = "open"
    BY DEF OpenOf, ids
  <2>2. o \in GroupOf(a, o)
    BY <1>1 DEF GroupOf, ids
  <2> QED BY <1>2, <2>1, <2>2 DEF ids
<1>6. /\ LegsAlike(b)
      /\ QuoteReserved(a) = QuoteHeld(order) + QuoteReserved(b)
      /\ BaseReserved(a) = BaseHeld(order) + BaseReserved(b)
  BY <1>2, <1>4, <1>5, GroupReleased DEF SpotExact, ids, order
<1>7. SpotFunded(b)
  <2>1. QuoteHeld(order) \in Nat /\ BaseHeld(order) \in Nat
    BY <1>1, HeldTypes
  <2>2. a.quote \in Int /\ a.base \in Int /\ a.paid \in Int /\ a.got \in Int
    BY <1>1, SpotFields
  <2>3. QuoteReserved(b) \in Int /\ BaseReserved(b) \in Int
    BY <1>4, ReservedTypes
  <2> QED BY <1>3, <1>6, <2>1, <2>2, <2>3 DEF SpotExact, SpotFunded
<1> QED BY <1>3, <1>4, <1>6, <1>7 DEF SpotExact, order, b, ids

\* cancelOrder: what the group held is free again.
LEMMA CancelFunded ==
    ASSUME NEW a, SpotOk(a), SpotExact(a), NEW o \in OpenOf(a)
    PROVE  /\ SpotExact(CancelGroup(a, o))
           /\ CancelGroup(a, o).base = a.base + BaseHeld(a.orders[o])
<1> DEFINE ids == DOMAIN a.orders
           legs == GroupOf(a, o) \cap OpenOf(a)
           m == Marked(a, legs, "canceled")
<1>1. a \in SpotAccounts(ids) /\ o \in ids /\ o \in legs
  BY DEF SpotOk, OpenOf, GroupOf
<1>2. CancelGroup(a, o) = ReleaseReservation(m, a.orders[o])
  BY DEF CancelGroup
<1> HIDE DEF ids, legs
<1>3. /\ m \in SpotAccounts(ids)
      /\ \A x \in ids :
            /\ m.orders[x].group = a.orders[x].group /\ m.orders[x].side = a.orders[x].side
            /\ m.orders[x].price = a.orders[x].price /\ m.orders[x].reserve = a.orders[x].reserve
            /\ m.orders[x].status = IF x \in legs THEN "canceled" ELSE a.orders[x].status
  BY <1>1, MarkedProperties DEF Statuses
<1>4. m.quote = a.quote /\ m.base = a.base /\ m.paid = a.paid /\ m.got = a.got
  BY <1>1, OrdersOnly
<1> HIDE DEF m
<1>5. \A x \in ids : m.orders[x].status = IF x = o THEN "canceled"
                                          ELSE IF x \in GroupOf(a, o) \cap OpenOf(a) THEN "canceled"
                                          ELSE a.orders[x].status
  BY <1>1, <1>3 DEF legs
<1> QED BY <1>2, <1>3, <1>4, <1>5, ReleaseFunded DEF ids

\* A trade in exact funds: the account pays the price with its fee, or gets it less the fee.
LEMMA TradeFunded ==
    ASSUME NEW ids, NEW a \in SpotAccounts(ids), SpotOk(a), SpotExact(a), NEW side \in Sides, NEW price \in Prices,
           side = "buy" => WithFee(price) <= a.quote, side = "sell" => 1 <= a.base
    PROVE  /\ SpotExact(ExecuteFill(a, side, price)) /\ SpotOk(ExecuteFill(a, side, price))
           /\ ExecuteFill(a, side, price).orders = a.orders
           /\ ExecuteFill(a, side, price) \in SpotAccounts(ids)
<1> DEFINE b == ExecuteFill(a, side, price)
<1>1. DOMAIN a.orders = ids /\ price \in Nat /\ Fee[price] \in Nat /\ Fee[price] <= price
  BY SpotFields
<1>2. b \in SpotAccounts(ids) /\ b.orders = a.orders
  <2> DEFINE order == RestingOrder(side, price, price, 0)
  <2>1. order \in SpotOrders
    BY RestingOrderFields
  <2> HIDE DEF order
  <2> QED BY <2>1, BalancesProperties
<1>3. SpotOk(b)
  BY <1>1, <1>2, SameOrders
<1>4. /\ QuoteReserved(b) = QuoteReserved(a) /\ BaseReserved(b) = BaseReserved(a) /\ LegsAlike(b)
      /\ QuoteReserved(a) \in Int /\ BaseReserved(a) \in Int
  <2>1. OpenOf(b) = OpenOf(a) /\ \A s : Leads(b, s) = Leads(a, s)
    BY <1>2 DEF OpenOf, Leads, GroupOf
  <2>2. QuoteReserved(b) = QuoteReserved(a) /\ BaseReserved(b) = BaseReserved(a)
    BY <1>2, <2>1 DEF QuoteReserved, BaseReserved
  <2> QED BY <1>2, <2>2, ReservedTypes DEF SpotExact, LegsAlike
<1>5. a.quote \in Int /\ a.base \in Int /\ a.paid \in Int /\ a.got \in Int
  BY SpotFields
<1>6. SpotFunded(b)
  <2> DEFINE c == WithFee(price)
             f == Fee[price]
             q == QuoteReserved(a)
             h == BaseReserved(a)
  <2>1. c \in Nat /\ f \in Nat /\ f <= price /\ price \in Nat /\ q \in Int /\ h \in Int
    BY <1>1, <1>4 DEF WithFee
  <2>2. /\ a.quote >= 0 /\ a.base >= 0
        /\ a.quote + q + a.paid = StartQuote /\ a.base + h - a.got = StartBase
    BY DEF SpotExact, SpotFunded
  <2>3. CASE side = "buy"
    <3>1. b.quote = a.quote - c /\ b.base = a.base + 1 /\ b.paid = a.paid + c /\ b.got = a.got + 1 /\ c <= a.quote
      BY <2>3, BalanceFields
    <3> HIDE DEF b, c, f, q, h
    <3> QED BY <1>4, <1>5, <2>1, <2>2, <3>1 DEF SpotFunded, q, h
  <2>4. CASE side = "sell"
    <3>1. /\ b.quote = a.quote + price - f /\ b.base = a.base - 1
          /\ b.paid = a.paid - price + f /\ b.got = a.got - 1 /\ 1 <= a.base
      BY <2>4, SellFields
    <3> HIDE DEF b, c, f, q, h
    <3> QED BY <1>4, <1>5, <2>1, <2>2, <3>1 DEF SpotFunded, q, h
  <2> QED BY <2>3, <2>4 DEF Sides
<1> QED BY <1>2, <1>3, <1>4, <1>6 DEF SpotExact

\* fillRestingOrder: the trade costs no more than the order held.
LEMMA FillFunded ==
    ASSUME NEW a, SpotOk(a), SpotExact(a), NEW o \in OpenOf(a)
    PROVE  SpotExact(FillRestingOrder(a, o))
<1> DEFINE ids == DOMAIN a.orders
           siblings == (GroupOf(a, o) \cap OpenOf(a)) \ {o}
           n == Marked(a, siblings, "canceled")
           m == Marked(n, {o}, "closed")
           order == a.orders[o]
           r == ReleaseReservation(m, order)
<1>1. a \in SpotAccounts(ids) /\ o \in ids /\ order \in SpotOrders
  BY SpotFields DEF SpotOk, OpenOf
<1>2. FillRestingOrder(a, o) = ExecuteFill(r, order.side, order.price)
  BY DEF FillRestingOrder
<1> HIDE DEF ids, siblings
<1>3. /\ n \in SpotAccounts(ids)
      /\ \A x \in ids :
            /\ n.orders[x].group = a.orders[x].group /\ n.orders[x].side = a.orders[x].side
            /\ n.orders[x].price = a.orders[x].price /\ n.orders[x].reserve = a.orders[x].reserve
            /\ n.orders[x].status = IF x \in siblings THEN "canceled" ELSE a.orders[x].status
  BY <1>1, MarkedProperties DEF Statuses
<1>4. n.quote = a.quote /\ n.base = a.base /\ n.paid = a.paid /\ n.got = a.got
  BY <1>1, OrdersOnly
<1> HIDE DEF n
<1>5. /\ m \in SpotAccounts(ids)
      /\ \A x \in ids :
            /\ m.orders[x].group = n.orders[x].group /\ m.orders[x].side = n.orders[x].side
            /\ m.orders[x].price = n.orders[x].price /\ m.orders[x].reserve = n.orders[x].reserve
            /\ m.orders[x].status = IF x \in {o} THEN "closed" ELSE n.orders[x].status
  BY <1>3, MarkedProperties DEF Statuses
<1>6. m.quote = a.quote /\ m.base = a.base /\ m.paid = a.paid /\ m.got = a.got
  BY <1>3, <1>4, OrdersOnly
<1> HIDE DEF m
<1>7. \A x \in ids :
        /\ m.orders[x].group = a.orders[x].group /\ m.orders[x].side = a.orders[x].side
        /\ m.orders[x].price = a.orders[x].price /\ m.orders[x].reserve = a.orders[x].reserve
        /\ m.orders[x].status = IF x = o THEN "closed"
                                ELSE IF x \in GroupOf(a, o) \cap OpenOf(a) THEN "canceled"
                                ELSE a.orders[x].status
  BY <1>3, <1>5 DEF siblings
<1>8. /\ SpotOk(r) /\ SpotExact(r) /\ DOMAIN r.orders = ids
      /\ r.quote = a.quote + QuoteHeld(order) /\ r.base = a.base + BaseHeld(order)
  BY <1>5, <1>6, <1>7, ReleaseFunded DEF ids
<1> HIDE DEF r
<1>9. /\ order.side \in Sides /\ order.price \in Prices /\ order.reserve \in Prices
      /\ order.price <= order.reserve /\ a.quote >= 0 /\ a.base >= 0
      /\ a.quote \in Int /\ a.base \in Int
  BY <1>1, OrderFields, SpotFields DEF SpotExact, LegsAlike, SpotFunded, ids
<1> DEFINE side == order.side
           price == order.price
<1>10. side = "buy" => WithFee(price) <= r.quote
  <2>1. Fee[price] <= Fee[order.reserve] /\ Fee[price] \in Nat /\ Fee[order.reserve] \in Nat
        /\ price \in Nat /\ order.reserve \in Nat
    BY <1>9
  <2> QED BY <1>8, <1>9, <2>1 DEF QuoteHeld, WithFee
<1>11. side = "sell" => 1 <= r.base
  BY <1>8, <1>9 DEF BaseHeld
<1>12. side \in Sides /\ price \in Prices
  BY <1>9
<1> HIDE DEF side, price
<1>13. r \in SpotAccounts(ids)
  BY <1>8 DEF SpotOk
<1>14. SpotExact(ExecuteFill(r, side, price))
  BY <1>8, <1>10, <1>11, <1>12, <1>13, TradeFunded
<1> QED BY <1>2, <1>14 DEF side, price

\* The orders of an account with one more.
LEMMA AddedOrders ==
    ASSUME NEW a, SpotOk(a), NEW id \in Ids, id \notin DOMAIN a.orders, NEW order \in SpotOrders
    PROVE  /\ Added(a, id, order) \in SpotAccounts(DOMAIN a.orders \cup {id})
           /\ Added(a, id, order).orders[id] = order
           /\ \A o \in DOMAIN a.orders : Added(a, id, order).orders[o] = a.orders[o]
<1> DEFINE ids == DOMAIN a.orders
           more == ids \cup {id}
<1>1. a \in SpotAccounts(ids) /\ id \notin ids /\ more = ids \cup {id}
  BY DEF SpotOk
<1> HIDE DEF ids, more
<1>2. /\ Added(a, id, order) \in SpotAccounts(more) /\ Added(a, id, order).orders[id] = order
      /\ \A o \in ids : o # id => Added(a, id, order).orders[o] = a.orders[o]
  BY <1>1, AddedProperties
<1> QED BY <1>1, <1>2 DEF ids

\* An order under a new id that leads no open group: a market order, already filled.
LEMMA ClosedAdded ==
    ASSUME NEW a, SpotOk(a), SpotExact(a), NEW id \in Ids, id \notin DOMAIN a.orders,
           NEW order \in SpotOrders, order.group = 0, order.status = "closed", order.price <= order.reserve
    PROVE  SpotExact(Added(a, id, order))
<1> DEFINE ids == DOMAIN a.orders
           b == Added(a, id, order)
<1>1. SpotOk(b) /\ DOMAIN b.orders = ids \cup {id}
  BY AddOk
<1>2. /\ b \in SpotAccounts(ids \cup {id})
      /\ b.orders[id] = order /\ \A o \in ids : b.orders[o] = a.orders[o]
  BY AddedOrders
<1>3. b.quote = a.quote /\ b.base = a.base /\ b.paid = a.paid /\ b.got = a.got
  BY OrdersOnly DEF SpotOk
<1> HIDE DEF b
<1>4. OpenOf(b) = OpenOf(a) /\ OpenOf(a) \subseteq ids
  BY <1>1, <1>2 DEF OpenOf
<1>5. \A o \in ids : GroupOf(b, o) = GroupOf(a, o)
  BY <1>1, <1>2 DEF GroupOf
<1>6. LeadsOf(b) = LeadsOf(a)
  BY <1>4, <1>5 DEF LeadsOf, Leads
<1>7. SameHeld(a, b, LeadsOf(a))
  <2>1. LeadsOf(a) \subseteq ids
    BY ReservedTypes
  <2> QED BY <1>1, <1>2, <2>1 DEF SameHeld, QuoteOf, BaseOf
<1>8. QuoteReserved(b) = QuoteReserved(a) /\ BaseReserved(b) = BaseReserved(a)
  BY <1>1, <1>6, <1>7, SameLeads
<1>9. LegsAlike(b)
  BY <1>1, <1>2 DEF LegsAlike, SpotExact
<1> QED BY <1>3, <1>8, <1>9 DEF SpotExact, SpotFunded, b

\* A market order is filled at once.
LEMMA FilledFunded ==
    ASSUME NEW a, SpotOk(a), SpotExact(a), NEW id \in Ids, id \notin DOMAIN a.orders,
           NEW side \in Sides, NEW price \in Prices,
           side = "buy" => WithFee(price) <= a.quote, side = "sell" => 1 <= a.base
    PROVE  SpotExact(Filled(a, id, side, price))
<1> DEFINE done == [RestingOrder(side, price, price, 0) EXCEPT !.status = "closed"]
           b == ExecuteFill(a, side, price)
<1>1. /\ done \in SpotOrders /\ done.group = 0 /\ done.status = "closed"
      /\ done.price <= done.reserve
  BY DEF RestingOrder, SpotOrders, Statuses
<1>2. Filled(a, id, side, price) = Added(b, id, done)
  BY DEF Filled
<1>3. SpotOk(b) /\ SpotExact(b) /\ b.orders = a.orders
  BY TradeFunded DEF SpotOk
<1> HIDE DEF done, b
<1> QED BY <1>1, <1>2, <1>3, ClosedAdded

\* A new group of open orders, led by id, with one reservation.
LEMMA GroupAdded ==
    ASSUME NEW a, SpotOk(a), SpotExact(a), NEW b, SpotOk(b), LegsAlike(b), NEW more \in SUBSET Nat, NEW id \in more,
           DOMAIN b.orders = DOMAIN a.orders \cup more, more \cap DOMAIN a.orders = {},
           \A x \in more : id <= x /\ b.orders[x].status = "open" /\ GroupOf(b, x) = more,
           \A o \in DOMAIN a.orders : b.orders[o] = a.orders[o] /\ GroupOf(b, o) = GroupOf(a, o),
           Affordable(a, b.orders[id]),
           b.quote = a.quote - QuoteHeld(b.orders[id]), b.base = a.base - BaseHeld(b.orders[id]),
           b.paid = a.paid, b.got = a.got
    PROVE  SpotExact(b)
<1> DEFINE ids == DOMAIN a.orders
           order == b.orders[id]
<1>1. OpenOf(b) = OpenOf(a) \cup more /\ OpenOf(a) \subseteq ids
  BY DEF OpenOf
<1>2. LeadsOf(b) = LeadsOf(a) \cup {id}
  <2>1. ASSUME NEW x \in ids PROVE x \in LeadsOf(b) <=> x \in LeadsOf(a)
    <3>1. GroupOf(b, x) = GroupOf(a, x) /\ GroupOf(a, x) \subseteq ids
      BY DEF GroupOf
    <3>2. GroupOf(b, x) \cap OpenOf(b) = GroupOf(a, x) \cap OpenOf(a)
      BY <1>1, <3>1
    <3>3. x \in OpenOf(b) <=> x \in OpenOf(a)
      BY <1>1
    <3> QED BY <3>2, <3>3 DEF LeadsOf, Leads
  <2>2. ASSUME NEW x \in more PROVE x \in LeadsOf(b) <=> x = id
    <3>1. GroupOf(b, x) \cap OpenOf(b) = more /\ x \in OpenOf(b)
      BY <1>1
    <3>2. x \in LeadsOf(b) <=> \A y \in more : x <= y
      BY <3>1 DEF LeadsOf, Leads
    <3> QED BY <3>2
  <2>3. LeadsOf(b) \subseteq ids \cup more /\ LeadsOf(a) \subseteq ids
    BY <1>1 DEF LeadsOf, Leads
  <2> HIDE PaperAssumption
  <2> QED BY <2>1, <2>2, <2>3
<1>3. id \notin LeadsOf(a) /\ id \in DOMAIN b.orders /\ SameHeld(a, b, LeadsOf(a))
  <2>1. LeadsOf(a) \subseteq ids
    BY ReservedTypes
  <2> QED BY <2>1 DEF SameHeld, QuoteOf, BaseOf
<1>4. /\ QuoteReserved(b) = QuoteHeld(order) + QuoteReserved(a)
      /\ BaseReserved(b) = BaseHeld(order) + BaseReserved(a)
  BY <1>2, <1>3, OneLeadMore
<1>5. QuoteHeld(order) \in Nat /\ BaseHeld(order) \in Nat
  BY <1>3, HeldTypes, SpotFields DEF SpotOk
<1>6. a.quote \in Int /\ a.base \in Int /\ a.paid \in Int /\ a.got \in Int
  BY SpotFields DEF SpotOk
<1>7. QuoteReserved(a) \in Int /\ BaseReserved(a) \in Int
  BY ReservedTypes
<1>8. /\ QuoteHeld(order) <= a.quote /\ BaseHeld(order) <= a.base
      /\ b.quote = a.quote - QuoteHeld(order) /\ b.base = a.base - BaseHeld(order)
      /\ b.paid = a.paid /\ b.got = a.got
  BY DEF Affordable
<1> HIDE DEF order
<1>9. SpotFunded(b)
  BY <1>4, <1>5, <1>6, <1>7, <1>8 DEF SpotFunded, SpotExact
<1> QED BY <1>9 DEF SpotExact

\* A limit, stop or trailing order.
LEMMA RestingFunded ==
    ASSUME NEW a, SpotOk(a), SpotExact(a), NEW id \in Ids, id \notin DOMAIN a.orders,
           NEW order \in SpotOrders, order.group = 0, order.status = "open", order.price <= order.reserve,
           Affordable(a, order)
    PROVE  SpotExact(Added(Reserve(a, order), id, order))
<1> DEFINE ids == DOMAIN a.orders
           r == Reserve(a, order)
           b == Added(r, id, order)
<1>0. a \in SpotAccounts(ids) /\ order.price \in Prices
  BY OrderFields DEF SpotOk
<1>1. r \in SpotAccounts(ids) /\ r.orders = a.orders
  BY <1>0, ReserveProperties
<1>2. /\ r.quote = a.quote - QuoteHeld(order) /\ r.base = a.base - BaseHeld(order)
      /\ r.paid = a.paid /\ r.got = a.got
  BY <1>0, BalanceFields
<1> HIDE DEF r
<1>3. SpotOk(r)
  BY <1>1, SameOrders
<1>4. SpotOk(b) /\ DOMAIN b.orders = ids \cup {id}
  BY <1>1, <1>3, AddOk
<1>5. b.orders[id] = order /\ \A o \in ids : b.orders[o] = a.orders[o]
  <2>0. id \notin DOMAIN r.orders
    BY <1>1
  <2>1. /\ b \in SpotAccounts(DOMAIN r.orders \cup {id})
        /\ b.orders[id] = order /\ \A o \in DOMAIN r.orders : b.orders[o] = r.orders[o]
    BY <1>3, <2>0, AddedOrders
  <2> QED BY <1>1, <2>1
<1>6. b.quote = r.quote /\ b.base = r.base /\ b.paid = r.paid /\ b.got = r.got
  BY <1>1, OrdersOnly
<1> HIDE DEF b
<1>7. LegsAlike(b)
  BY <1>4, <1>5 DEF LegsAlike, SpotExact
<1>8. /\ \A o \in ids : GroupOf(b, o) = GroupOf(a, o)
      /\ GroupOf(b, id) = {id}
  BY <1>4, <1>5 DEF GroupOf
<1> DEFINE more == {id}
<1>9. /\ more \in SUBSET Nat /\ id \in more /\ DOMAIN b.orders = ids \cup more /\ more \cap ids = {}
      /\ \A x \in more : id <= x /\ b.orders[x].status = "open" /\ GroupOf(b, x) = more
  BY <1>4, <1>5, <1>8 DEF Ids
<1> HIDE DEF more
<1>10. SpotExact(b)
  BY <1>2, <1>4, <1>5, <1>6, <1>7, <1>8, <1>9, GroupAdded
<1> QED BY <1>10 DEF b, r

\* The orders and balances after placeOcoOrder.
LEMMA PairFields ==
    ASSUME NEW a, SpotOk(a), NEW id \in Ids, NEW next \in Ids, id # next,
           id \notin DOMAIN a.orders, next \notin DOMAIN a.orders,
           NEW leg \in SpotOrders, NEW other \in SpotOrders
    PROVE  LET b == Added(Added(Reserve(a, leg), id, leg), next, other)
           IN  /\ b.orders[id] = leg /\ b.orders[next] = other
               /\ \A o \in DOMAIN a.orders : b.orders[o] = a.orders[o]
               /\ b.quote = a.quote - QuoteHeld(leg) /\ b.base = a.base - BaseHeld(leg)
               /\ b.paid = a.paid /\ b.got = a.got
<1> DEFINE ids == DOMAIN a.orders
           r == Reserve(a, leg)
           c == Added(r, id, leg)
           b == Added(c, next, other)
<1>0. a \in SpotAccounts(ids) /\ leg.price \in Prices
  BY OrderFields DEF SpotOk
<1>1. r \in SpotAccounts(ids) /\ r.orders = a.orders
  BY <1>0, ReserveProperties
<1>2. /\ r.quote = a.quote - QuoteHeld(leg) /\ r.base = a.base - BaseHeld(leg)
      /\ r.paid = a.paid /\ r.got = a.got
  BY <1>0, BalanceFields
<1> HIDE DEF r
<1>3. SpotOk(r)
  BY <1>1, SameOrders
<1>5. /\ c \in SpotAccounts(ids \cup {id}) /\ c.orders[id] = leg
      /\ \A o \in ids : c.orders[o] = a.orders[o]
  <2>1. id \notin DOMAIN r.orders /\ DOMAIN r.orders = ids
    BY <1>1
  <2>2. c \in SpotAccounts(DOMAIN r.orders \cup {id})
    BY <1>3, <2>1, AddedOrders
  <2>3. c.orders = [o \in DOMAIN r.orders \cup {id} |-> IF o = id THEN leg ELSE r.orders[o]]
    <3> HIDE PaperAssumption
    <3> QED BY <1>1 DEF Added, SpotAccounts
  <2> HIDE DEF c
  <2>4. c.orders[id] = leg
    BY <2>3
  <2>5. ASSUME NEW o \in ids PROVE c.orders[o] = a.orders[o]
    BY <1>1, <2>1, <2>3, <2>5
  <2> QED BY <2>1, <2>2, <2>4, <2>5
<1>6. c.quote = r.quote /\ c.base = r.base /\ c.paid = r.paid /\ c.got = r.got
  BY <1>1, OrdersOnly
<1> HIDE DEF c
<1>7. /\ b.orders[next] = other /\ b.orders[id] = leg
      /\ \A o \in ids : b.orders[o] = a.orders[o]
  <2> DEFINE both == ids \cup {id}
             more == both \cup {next}
  <2>1. c \in SpotAccounts(both) /\ more = both \cup {next}
    BY <1>5
  <2>2. id \in both /\ ids \subseteq both /\ next \notin both
    OBVIOUS
  <2> HIDE DEF both, more
  <2>3. /\ Added(c, next, other) \in SpotAccounts(more) /\ Added(c, next, other).orders[next] = other
        /\ \A o \in both : o # next => Added(c, next, other).orders[o] = c.orders[o]
    BY <2>1, AddedProperties
  <2> QED BY <1>5, <2>2, <2>3
<1>8. b.quote = r.quote /\ b.base = r.base /\ b.paid = r.paid /\ b.got = r.got
  BY <1>5, <1>6, OrdersOnly
<1> HIDE DEF b
<1>9. /\ b.quote = a.quote - QuoteHeld(leg) /\ b.base = a.base - BaseHeld(leg)
      /\ b.paid = a.paid /\ b.got = a.got
  BY <1>2, <1>8
<1> QED BY <1>7, <1>9 DEF b, c, r

\* placeOcoOrder: the legs share one reservation.
LEMMA PairFunded ==
    ASSUME NEW a, SpotOk(a), SpotExact(a), NEW id \in Ids, NEW next \in Ids, id < next,
           id \notin DOMAIN a.orders, next \notin DOMAIN a.orders,
           NEW leg \in SpotOrders, NEW other \in SpotOrders,
           leg.group = id, other.group = id, leg.status = "open", other.status = "open",
           leg.side = other.side, leg.reserve = other.reserve,
           leg.price <= leg.reserve, other.price <= other.reserve, Affordable(a, leg),
           NEW b, b = Added(Added(Reserve(a, leg), id, leg), next, other),
           SpotOk(b), DOMAIN b.orders = DOMAIN a.orders \cup {id, next}
    PROVE  SpotExact(b)
<1> DEFINE ids == DOMAIN a.orders
<1>0. id \in Nat \ {0} /\ next \in Nat /\ id <= next /\ id # next
  BY DEF Ids
<1>7. /\ b.orders[id] = leg /\ b.orders[next] = other
      /\ \A o \in ids : b.orders[o] = a.orders[o]
      /\ b.quote = a.quote - QuoteHeld(leg) /\ b.base = a.base - BaseHeld(leg)
      /\ b.paid = a.paid /\ b.got = a.got
  BY <1>0, PairFields
<1>9. /\ next \notin ids /\ id \notin ids
      /\ \A o \in ids : a.orders[o].group # id
  BY <1>0 DEF SpotOk, GroupsGiven
<1>10. LegsAlike(b)
  <2> SUFFICES ASSUME NEW x \in ids \cup {id, next}, NEW y \in ids \cup {id, next}
               PROVE  /\ b.orders[x].price <= b.orders[x].reserve
                      /\ b.orders[x].group # 0 /\ b.orders[x].group = b.orders[y].group =>
                           b.orders[x].side = b.orders[y].side /\ b.orders[x].reserve = b.orders[y].reserve
    BY DEF LegsAlike
  <2>1. CASE x \in ids /\ y \in ids
    BY <1>7, <2>1 DEF LegsAlike, SpotExact
  <2>2. CASE x \in ids /\ y \in {id, next}
    BY <1>7, <1>9, <2>2 DEF LegsAlike, SpotExact
  <2>3. CASE x \in {id, next} /\ y \in ids
    BY <1>7, <1>9, <2>3
  <2>4. CASE x \in {id, next} /\ y \in {id, next}
    BY <1>7, <2>4
  <2> QED BY <2>1, <2>2, <2>3, <2>4
<1> DEFINE more == {id, next}
<1>11. /\ \A o \in ids : GroupOf(b, o) = GroupOf(a, o)
       /\ \A x \in more : GroupOf(b, x) = more
  BY <1>0, <1>7, <1>9 DEF GroupOf
<1>12. /\ more \in SUBSET Nat /\ id \in more /\ DOMAIN b.orders = ids \cup more /\ more \cap ids = {}
       /\ \A x \in more : id <= x /\ b.orders[x].status = "open"
  BY <1>0, <1>7, <1>9
<1> HIDE DEF more
<1> QED BY <1>7, <1>10, <1>11, <1>12, GroupAdded

\* A step that writes no file and keeps the spot account exact in memory.
LEMMA FundsInMemory ==
    ASSUME FundsInv, UNCHANGED <<spotFile, futuresFile, txFile>>, SpotExact(mem'.spot)
    PROVE  FundsInv'
<1>1. Stored' = Stored
  BY DEF Stored
<1> QED BY <1>1 DEF FundsInv

\* The spot account in memory is another.
LEMMA FundsSaved ==
    ASSUME FundsInv, NEW spot, NEW futures, UNCHANGED <<spotFile, futuresFile, txFile>>,
           mem' = [spot |-> spot, futures |-> futures], SpotExact(spot)
    PROVE  FundsInv'
<1>1. mem'.spot = spot
  OBVIOUS
<1> QED BY <1>1, FundsInMemory

\* Orders are placed: what they hold, or cost, is there.
LEMMA PlaceFunds ==
    ASSUME PaperInv, FundsInv,
           \/ \E side \in Sides, price \in Prices : PlaceResting(side, price) \/ PlaceMarket(side, price)
           \/ \E side \in Sides, stop, profit \in Prices : PlaceOco(side, stop, profit)
    PROVE  FundsInv'
<1> DEFINE id == NextId(mem)
<1>0. at = "settled" /\ UNCHANGED <<spotFile, futuresFile, txFile>>
  BY DEF PlaceResting, PlaceMarket, PlaceOco, Submit, Save
<1>1. /\ SpotOk(mem.spot) /\ id \in Nat \ {0}
      /\ id \notin DOMAIN mem.spot.orders /\ id + 1 \notin DOMAIN mem.spot.orders
  BY <1>0, Settled
<1>2. id <= MaxOrders => id \in Ids
  BY <1>1 DEF Ids
<1>3. SpotExact(mem.spot)
  BY DEF FundsInv
<1>4. ASSUME NEW side \in Sides, NEW price \in Prices
      PROVE  LET order == RestingOrder(side, price, price, 0)
             IN  /\ order \in SpotOrders /\ order.group = 0 /\ order.status = "open"
                 /\ order.side = side /\ order.price = price /\ order.reserve = price
                 /\ order.price <= order.reserve
  BY DEF RestingOrder, SpotOrders, Statuses
<1>5. CASE \E side \in Sides, price \in Prices : PlaceResting(side, price)
  <2> PICK side \in Sides, price \in Prices : PlaceResting(side, price) BY <1>5
  <2> DEFINE order == RestingOrder(side, price, price, 0)
             b == Added(Reserve(mem.spot, order), id, order)
  <2>1. id <= MaxOrders /\ Affordable(mem.spot, order) /\ mem' = [spot |-> b, futures |-> mem.futures]
    BY DEF PlaceResting, Submit, Save
  <2>2. order \in SpotOrders /\ order.group = 0 /\ order.status = "open" /\ order.price <= order.reserve
    BY <1>4
  <2> HIDE DEF order, id
  <2>3. SpotExact(b)
    BY <1>1, <1>2, <1>3, <2>1, <2>2, RestingFunded
  <2> QED BY <1>0, <1>3, <2>1, <2>3, FundsSaved
<1>6. CASE \E side \in Sides, price \in Prices : PlaceMarket(side, price)
  <2> PICK side \in Sides, price \in Prices : PlaceMarket(side, price) BY <1>6
  <2> DEFINE order == RestingOrder(side, price, price, 0)
             b == Filled(mem.spot, id, side, price)
  <2>1. id <= MaxOrders /\ Affordable(mem.spot, order) /\ mem' = [spot |-> b, futures |-> mem.futures]
    BY DEF PlaceMarket, Submit, Save
  <2>2. order.side = side /\ order.reserve = price
    BY <1>4
  <2> HIDE DEF order, id
  <2>3. (side = "buy" => WithFee(price) <= mem.spot.quote) /\ (side = "sell" => 1 <= mem.spot.base)
    BY <2>1, <2>2 DEF Affordable, QuoteHeld, BaseHeld
  <2>4. SpotExact(b)
    BY <1>1, <1>2, <1>3, <2>1, <2>3, FilledFunded
  <2> QED BY <1>0, <1>3, <2>1, <2>4, FundsSaved
<1>7. CASE \E side \in Sides, stop, profit \in Prices : PlaceOco(side, stop, profit)
  <2> PICK side \in Sides, stop \in Prices, profit \in Prices : PlaceOco(side, stop, profit) BY <1>7
  <2> DEFINE reserve == IF stop > profit THEN stop ELSE profit
             leg == RestingOrder(side, stop, reserve, id)
             other == RestingOrder(side, profit, reserve, id)
             next == id + 1
             b == Added(Added(Reserve(mem.spot, leg), id, leg), next, other)
  <2>1. /\ next <= MaxOrders /\ Affordable(mem.spot, leg) /\ mem' = [spot |-> b, futures |-> mem.futures]
    BY DEF PlaceOco, Save
  <2>2. id \in Ids /\ next \in Ids /\ id < next /\ id \in {0} \cup Ids
    BY <1>1, <2>1 DEF Ids
  <2>3. reserve \in Prices /\ stop <= reserve /\ profit <= reserve
    OBVIOUS
  <2> HIDE DEF reserve, id
  <2>4. /\ leg \in SpotOrders /\ leg.group = id /\ leg.status = "open"
        /\ other \in SpotOrders /\ other.group = id /\ other.status = "open"
    BY <2>2, <2>3, RestingOrderFields
  <2>5. leg.side = other.side /\ leg.reserve = other.reserve /\ leg.price <= leg.reserve /\ other.price <= other.reserve
    BY <2>3 DEF RestingOrder
  <2> HIDE DEF leg, other
  <2>6. SpotOk(b) /\ DOMAIN b.orders = DOMAIN mem.spot.orders \cup {id, next}
    <3> DEFINE r == Reserve(mem.spot, leg)
    <3>1. r \in SpotAccounts(DOMAIN mem.spot.orders) /\ r.orders = mem.spot.orders
      BY <1>1, <2>4, BalancesProperties DEF SpotOk
    <3> HIDE DEF r
    <3>2. SpotOk(r)
      BY <1>1, <3>1, SameOrders
    <3>3. SpotOk(Added(Added(r, id, leg), id + 1, other)) /\ DOMAIN Added(Added(r, id, leg), id + 1, other).orders = DOMAIN r.orders \cup {id, id + 1}
      BY <1>1, <2>2, <2>4, <3>1, <3>2, PairOk
    <3> QED BY <3>1, <3>3 DEF r
  <2> HIDE DEF next
  <2>7. SpotExact(b)
    <3>1. id \notin DOMAIN mem.spot.orders /\ next \notin DOMAIN mem.spot.orders
      BY <1>1 DEF next
    <3> QED BY <1>1, <1>3, <2>1, <2>2, <2>4, <2>5, <2>6, <3>1, PairFunded
  <2> QED BY <1>0, <1>3, <2>1, <2>7, FundsSaved
<1> QED BY <1>5, <1>6, <1>7

\* Every step keeps the funds exact, in memory and in what is stored.
LEMMA FundsStep ==
    ASSUME PaperInv, FundsInv, [PaperNext]_paperVars
    PROVE  FundsInv'
<1>0. SpotExact(mem.spot) /\ SpotExact(Stored.spot)
  BY DEF FundsInv
<1>1. ASSUME mem'.spot = mem.spot, UNCHANGED <<spotFile, futuresFile, txFile>> PROVE FundsInv'
  BY <1>0, <1>1, FundsInMemory
<1>2. ASSUME at # "free", NEW f PROVE [mem EXCEPT !.futures = f].spot = mem.spot
  <2>1. mem = [spot |-> mem.spot, futures |-> mem.futures]
    BY <1>2, InvGood, GoodParts
  <2> QED BY <2>1
<1>3. CASE UNCHANGED paperVars
  BY <1>1, <1>3 DEF paperVars
<1>4. CASE Open
  <2>1. mem' = Stored /\ UNCHANGED <<spotFile, futuresFile, txFile>>
    BY <1>4 DEF Open, Stored
  <2> QED BY <1>0, <2>1, FundsInMemory
<1>5. CASE Write
  <2>1. mem' = mem /\ Stored'.spot \in {Stored.spot, mem.spot}
    BY <1>5, WriteStep DEF Write
  <2> QED BY <1>0, <2>1 DEF FundsInv
<1>6. CASE Stop \/ Settle \/ Configure
  BY <1>1, <1>6 DEF Stop, Settle, Configure
<1>7. CASE \/ \E o, gone : FireFutures(o, gone)
           \/ \E o : FireStale(o)
           \/ \E orders : CancelOrphans(orders) \/ Refresh(orders)
           \/ \E o : ReplaceFutures(o)
  <2>1. PICK f : mem' = [mem EXCEPT !.futures = f] /\ at # "free" /\ UNCHANGED <<spotFile, futuresFile, txFile>>
    BY <1>7 DEF FireFutures, FireStale, Fire, CancelOrphans, Refresh, ReplaceFutures
  <2> QED BY <1>1, <1>2, <2>1
<1>8. CASE PlaceFutures \/ (\E gone : PlaceFuturesMarket(gone)) \/ \E o : CancelFutures(o)
  <2>1. PICK f : mem' = [spot |-> mem.spot, futures |-> f] /\ UNCHANGED <<spotFile, futuresFile, txFile>>
    BY <1>8 DEF PlaceFutures, PlaceFuturesMarket, SubmitFutures, CancelFutures, Save
  <2> QED BY <1>0, <2>1, FundsSaved
<1>9. CASE \E o \in OpenOf(mem.spot) : FireSpot(o) \/ CancelSpot(o) \/ ReplaceSpot(o)
  <2> PICK o \in OpenOf(mem.spot) : FireSpot(o) \/ CancelSpot(o) \/ ReplaceSpot(o) BY <1>9
  <2>1. at # "free" /\ UNCHANGED <<spotFile, futuresFile, txFile>>
    BY DEF FireSpot, Fire, CancelSpot, ReplaceSpot, Save
  <2>2. mem = [spot |-> mem.spot, futures |-> mem.futures] /\ SpotOk(mem.spot)
    BY <2>1, InvGood, GoodParts
  <2>3. \/ mem' = [spot |-> FillRestingOrder(mem.spot, o), futures |-> mem.futures]
        \/ mem' = [spot |-> CancelGroup(mem.spot, o), futures |-> mem.futures]
    BY <2>2 DEF FireSpot, Fire, CancelSpot, ReplaceSpot, Save
  <2>4. SpotExact(FillRestingOrder(mem.spot, o)) /\ SpotExact(CancelGroup(mem.spot, o))
    BY <1>0, <2>2, FillFunded, CancelFunded
  <2> QED BY <2>1, <2>3, <2>4, FundsSaved
<1>10. CASE Settlement
  BY <1>6, <1>7, <1>9, <1>10 DEF Settlement
<1>11. CASE Operation
  BY <1>6, <1>7, <1>8, <1>9, <1>11, PlaceFunds DEF Operation
<1> QED BY <1>3, <1>4, <1>5, <1>6, <1>10, <1>11 DEF PaperNext

\* A new account holds what it starts with.
LEMMA FundsInitInv == PaperInit => FundsInv
<1> SUFFICES ASSUME PaperInit PROVE FundsInv
  OBVIOUS
<1>1. DOMAIN FreshSpot.orders = {}
  BY DEF FreshSpot
<1>2. OpenOf(FreshSpot) = {} /\ Leads(FreshSpot, OpenOf(FreshSpot)) = {}
  BY <1>1 DEF OpenOf, Leads
<1>3. QuoteReserved(FreshSpot) = 0 /\ BaseReserved(FreshSpot) = 0
  BY <1>2, SumEmpty DEF QuoteReserved, BaseReserved
<1>4. FreshSpot.quote = StartQuote /\ FreshSpot.base = StartBase /\ FreshSpot.paid = 0 /\ FreshSpot.got = 0
  BY DEF FreshSpot
<1>5. LegsAlike(FreshSpot) /\ SpotFunded(FreshSpot)
  BY <1>1, <1>3, <1>4 DEF LegsAlike, SpotFunded
<1>6. Stored.spot = FreshSpot /\ mem.spot = FreshSpot
  BY DEF PaperInit, Stored
<1> QED BY <1>5, <1>6 DEF FundsInv, SpotExact

\* Money is neither made nor lost on the spot account: what is free, what open orders
\* hold back (reserve, releaseReservation) and what trades cost (executeFill) is what the
\* account began with, and nothing is overspent, for every fee below the cost, any prices
\* and any number of orders, with a stop between any two writes.
THEOREM PaperFundsExact == PaperSpec => []FundsExact
<1>1. PaperInv /\ FundsInv /\ [PaperNext]_paperVars => FundsInv'
  BY FundsStep
<1>2. FundsInv => FundsExact
  BY DEF FundsInv, FundsExact, SpotExact
<1> QED BY <1>1, <1>2, FundsInitInv, PaperInvariant, PTL DEF PaperSpec

=============================================================================
