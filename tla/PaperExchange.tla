----------------------------- MODULE PaperExchange -----------------------------
(***************************************************************************)
(* The paper exchange: PaperClient (trading-engine/src/paper-client.ts)    *)
(* keeps a spot and a futures account in two files.  Every operation takes *)
(* the account lock, reloads the files, settles the orders that fired      *)
(* since, changes the accounts in memory and saves them; a save of both    *)
(* files goes through a transaction file, which the next operation replays *)
(* when the process stopped or a write failed in between.  The lock is     *)
(* FileLock.tla's: operations are exclusive here.                          *)
(*                                                                         *)
(* One spot instrument and amounts of one.  The fee of a trade, a rate of  *)
(* the cost below one, is any table that is at most the cost and grows     *)
(* with it.  Of the futures account the model keeps the orders and what    *)
(* becomes of them; margin, positions, liquidation, profit and fees are    *)
(* not modelled, and what depends on them (whether an order is margined,   *)
(* stale or an orphan) is left open.  Both markets are enabled, and the    *)
(* files are there and in the configured quote currency.                   *)
(***************************************************************************)
EXTENDS Integers, Sequences, FiniteSets, FiniteSetsExt

CONSTANTS
    None,
    Prices,             \* prices of orders and fills
    Fee,                \* the fee of a trade at each price
    StartQuote, StartBase,  \* what the spot account holds at first
    MaxOrders           \* bound: orders the accounts ever see

ASSUME PaperAssumption ==
    /\ Prices \subseteq Nat \ {0}
    /\ Fee \in [Prices -> Nat]
    /\ \A p \in Prices : Fee[p] <= p
    /\ \A p, q \in Prices : p <= q => Fee[p] <= Fee[q]
    /\ StartQuote \in Nat /\ StartBase \in Nat
    /\ MaxOrders \in Nat

Ids == 1..MaxOrders
Sides == {"buy", "sell"}

VARIABLES
    spotFile, futuresFile,  \* the account files
    txFile,                 \* the transaction file: both accounts, or None
    mem,                    \* the accounts in memory
    at,                     \* how far the operation that has the lock is
    todo,                   \* the writes of its save that are left
    dirty,                  \* the accounts whose open orders it looked at
    replaced,               \* the orders it has canceled to replace them
    \* history
    whole,                  \* the accounts as the saves that began to be durable have them
    asked                   \* orders whose cancellation an accepted operation asked for

paperVars == <<spotFile, futuresFile, txFile, mem, at, todo, dirty, replaced, whole, asked>>

FreshSpot == [quote |-> StartQuote, base |-> StartBase, paid |-> 0, got |-> 0, orders |-> <<>>]
FreshFutures == [orders |-> <<>>]

PaperInit ==
    /\ spotFile = FreshSpot /\ futuresFile = FreshFutures /\ txFile = None
    /\ mem = [spot |-> FreshSpot, futures |-> FreshFutures]
    /\ at = "free" /\ todo = <<>> /\ dirty = {} /\ replaced = {}
    /\ whole = mem /\ asked = {}

-----------------------------------------------------------------------------
(* Accounts.  Orders are a function from the ids an account has given.         *)

OpenOf(account) == {o \in DOMAIN account.orders : account.orders[o].status = "open"}

\* Mutant: the ids of the spot account only.
NextIdOfSpot(accounts) == 1 + Max({0} \cup DOMAIN accounts.spot.orders)

\* maxPersistedOrderId of both accounts.
NextId(accounts) == 1 + Max({0} \cup DOMAIN accounts.spot.orders \cup DOMAIN accounts.futures.orders)

\* The orders that end with o: its OCO group.
GroupOf(account, o) ==
    {x \in DOMAIN account.orders :
        x = o \/ (account.orders[o].group # 0 /\ account.orders[x].group = account.orders[o].group)}

WithFee(price) == price + Fee[price]

\* What an order holds back.
QuoteHeld(order) == IF order.side = "buy" THEN WithFee(order.reserve) ELSE 0
BaseHeld(order) == IF order.side = "sell" THEN 1 ELSE 0

\* One order of each group among these, as groups share one reservation.
Leads(account, orders) ==
    {o \in orders : \A x \in GroupOf(account, o) \cap orders : o <= x}

\* reservedAmount
QuoteReserved(account) ==
    SumFunctionOnSet([o \in DOMAIN account.orders |-> QuoteHeld(account.orders[o])],
                     Leads(account, OpenOf(account)))
BaseReserved(account) ==
    SumFunctionOnSet([o \in DOMAIN account.orders |-> BaseHeld(account.orders[o])],
                     Leads(account, OpenOf(account)))

\* reserve
Affordable(account, order) ==
    QuoteHeld(order) <= account.quote /\ BaseHeld(order) <= account.base

Reserve(account, order) ==
    [account EXCEPT !.quote = @ - QuoteHeld(order), !.base = @ - BaseHeld(order)]

\* releaseReservation
ReleaseReservation(account, order) ==
    [account EXCEPT !.quote = @ + QuoteHeld(order), !.base = @ + BaseHeld(order)]

\* executeFill: the trade at a price.
ExecuteFill(account, side, price) ==
    IF side = "buy"
    THEN [account EXCEPT !.quote = @ - WithFee(price), !.base = @ + 1,
                         !.paid = @ + WithFee(price), !.got = @ + 1]
    ELSE [account EXCEPT !.quote = @ + price - Fee[price], !.base = @ - 1,
                         !.paid = @ - price + Fee[price], !.got = @ - 1]

\* The orders take these statuses.
Marked(account, orders, status) ==
    [account EXCEPT !.orders = [o \in DOMAIN @ |-> IF o \in orders THEN [@[o] EXCEPT !.status = status] ELSE @[o]]]

\* Mutant: each leg of a group gives its reservation back.
CancelEachLeg(account, o) ==
    LET legs == GroupOf(account, o) \cap OpenOf(account)
    IN  [Marked(account, legs, "canceled") EXCEPT
            !.quote = @ + MapThenSumSet(LAMBDA x : QuoteHeld(account.orders[x]), legs),
            !.base = @ + MapThenSumSet(LAMBDA x : BaseHeld(account.orders[x]), legs)]

\* An open order is canceled with its group; the reservation is released once.
CancelGroup(account, o) ==
    ReleaseReservation(Marked(account, GroupOf(account, o) \cap OpenOf(account), "canceled"),
                       account.orders[o])

\* Mutant: the other leg of a group outlives a fill.
FillLeg(account, o) ==
    ExecuteFill(ReleaseReservation(Marked(account, {o}, "closed"), account.orders[o]),
                account.orders[o].side, account.orders[o].price)

\* fillRestingOrder, at the order's own price.
FillRestingOrder(account, o) ==
    LET siblings == (GroupOf(account, o) \cap OpenOf(account)) \ {o}
    IN  ExecuteFill(ReleaseReservation(Marked(Marked(account, siblings, "canceled"), {o}, "closed"),
                                       account.orders[o]),
                    account.orders[o].side, account.orders[o].price)

\* A resting order is added under the next id.
RestingOrder(side, price, reserve, group) ==
    [side |-> side, price |-> price, reserve |-> reserve, group |-> group, status |-> "open"]

Added(account, id, order) ==
    [account EXCEPT !.orders = [o \in DOMAIN @ \cup {id} |-> IF o = id THEN order ELSE @[o]]]

\* executeFuturesFill: the fill changes the position, after which orders that reduce
\* more than is left, or that are stale, are canceled.
FillFutures(account, o, gone) == Marked(Marked(account, gone, "canceled"), {o}, "closed")

-----------------------------------------------------------------------------
(* An operation: reload, settle, change, save *)

\* Mutant: both files are written without the transaction file.
WritesUnjournaled(spot, futures) ==
    (IF spot THEN <<"spot">> ELSE <<>>) \o (IF futures THEN <<"futures">> ELSE <<>>)

\* persistAccountsUnlocked
Writes(spot, futures) ==
    IF spot /\ futures THEN <<"tx", "spot", "futures", "drop">>
    ELSE IF spot THEN <<"spot">> ELSE IF futures THEN <<"futures">> ELSE <<>>

\* The lock is taken and the accounts are reloaded; a transaction is replayed first.
Open ==
    /\ at = "free"
    /\ IF txFile # None
       THEN at' = "recovering" /\ mem' = txFile /\ todo' = <<"spot", "futures", "drop">>
       ELSE at' = "loaded" /\ mem' = [spot |-> spotFile, futures |-> futuresFile] /\ UNCHANGED todo
    /\ UNCHANGED <<spotFile, futuresFile, txFile, dirty, replaced, whole, asked>>

\* Some write that is left is this one.
Left(write) == \E i \in DOMAIN todo : todo[i] = write

\* One durable write of a save or a replay; after the last the operation goes on.
Write ==
    /\ todo # <<>>
    /\ spotFile' = IF Head(todo) = "spot" THEN mem.spot ELSE spotFile
    /\ futuresFile' = IF Head(todo) = "futures" THEN mem.futures ELSE futuresFile
    /\ txFile' = CASE Head(todo) = "tx" -> mem [] Head(todo) = "drop" -> None [] OTHER -> txFile
    /\ whole' = [spot |-> IF Left("spot") THEN mem.spot ELSE whole.spot,
                 futures |-> IF Left("futures") THEN mem.futures ELSE whole.futures]
    /\ todo' = Tail(todo)
    /\ at' = IF todo' # <<>> THEN at
             ELSE CASE at \in {"recovering", "tidying"} -> "loaded"
                    [] at = "settling" -> "settled" [] at = "saving" -> "free"
    /\ UNCHANGED <<mem, dirty, replaced, asked>>

\* settleOpenOrders: futures orders whose position is gone, liquidated perhaps, are
\* canceled, and the futures account is saved by itself.
CancelOrphans(gone) ==
    /\ at = "loaded" /\ gone # {}
    /\ mem' = [mem EXCEPT !.futures = Marked(@, gone, "canceled")]
    /\ todo' = Writes(FALSE, TRUE) /\ at' = "tidying"
    /\ UNCHANGED <<spotFile, futuresFile, txFile, dirty, replaced, whole, asked>>

\* refreshFuturesOpeningReserves cancels stale orders, in memory only; then the open
\* orders of both accounts are looked at.
Refresh(stale) ==
    /\ at = "loaded"
    /\ mem' = [mem EXCEPT !.futures = Marked(@, stale, "canceled")]
    /\ dirty' = {"spot" : o \in OpenOf(mem.spot)} \cup {"futures" : o \in OpenOf(mem.futures) \ stale}
    /\ at' = "firing"
    /\ UNCHANGED <<spotFile, futuresFile, txFile, todo, replaced, whole, asked>>

\* Some spot order fires and is filled, or some futures order, which may also turn out
\* stale, or stay open for want of margin (no step); when no more fire, the accounts
\* that were looked at are saved.
Fire(accounts) ==
    /\ at = "firing"
    /\ mem' = accounts
    /\ UNCHANGED <<spotFile, futuresFile, txFile, at, todo, dirty, replaced, whole, asked>>

FireSpot(o) == Fire([mem EXCEPT !.spot = FillRestingOrder(@, o)])

FireFutures(o, gone) == Fire([mem EXCEPT !.futures = FillFutures(@, o, gone)])

FireStale(o) == Fire([mem EXCEPT !.futures = Marked(@, {o}, "canceled")])

Settle ==
    LET writes == Writes("spot" \in dirty, "futures" \in dirty)
    IN  /\ at = "firing"
        /\ todo' = writes /\ dirty' = {}
        /\ at' = IF writes = <<>> THEN "settled" ELSE "settling"
        /\ UNCHANGED <<spotFile, futuresFile, txFile, mem, replaced, whole, asked>>

\* The operation changes the accounts and saves what it changed.
Save(spot, futures, writes) ==
    /\ at = "settled"
    /\ mem' = [spot |-> spot, futures |-> futures]
    /\ todo' = writes /\ at' = "saving"
    /\ UNCHANGED <<spotFile, futuresFile, txFile, dirty, whole>>

\* submitPaperOrder: an order of the spot account is placed, in place of the orders
\* that were canceled for it, which are of its side.
Submit(side, spot) ==
    /\ \A o \in replaced : o \in DOMAIN mem.spot.orders /\ mem.spot.orders[o].side = side
    /\ NextId(mem) <= MaxOrders
    /\ Save(spot, mem.futures, Writes(TRUE, FALSE))
    /\ asked' = asked \cup replaced /\ replaced' = {}

\* A limit, stop or trailing order: its reserve is its price.
PlaceResting(side, price) ==
    LET order == RestingOrder(side, price, price, 0)
    IN  /\ Affordable(mem.spot, order)
        /\ Submit(side, Added(Reserve(mem.spot, order), NextId(mem), order))

\* A market order is filled at once.
Filled(account, id, side, price) ==
    Added(ExecuteFill(account, side, price), id,
          [RestingOrder(side, price, price, 0) EXCEPT !.status = "closed"])

PlaceMarket(side, price) ==
    /\ Affordable(mem.spot, RestingOrder(side, price, price, 0))
    /\ Submit(side, Filled(mem.spot, NextId(mem), side, price))

\* placeOcoOrder: two legs, one reservation at the higher price.
PlaceOco(side, stop, profit) ==
    LET id == NextId(mem)
        reserve == IF stop > profit THEN stop ELSE profit
        leg(price) == RestingOrder(side, price, reserve, id)
    IN  /\ replaced = {} /\ id + 1 <= MaxOrders /\ Affordable(mem.spot, leg(stop))
        /\ IF side = "sell" THEN stop < profit ELSE profit < stop
        /\ Save(Added(Added(Reserve(mem.spot, leg(stop)), id, leg(stop)), id + 1, leg(profit)),
                mem.futures, Writes(TRUE, FALSE))
        /\ UNCHANGED <<replaced, asked>>

\* cancelOrder and cancelOrderList
CancelSpot(o) ==
    /\ replaced = {}
    /\ Save(CancelGroup(mem.spot, o), mem.futures, Writes(TRUE, TRUE))
    /\ asked' = asked \cup GroupOf(mem.spot, o) /\ UNCHANGED replaced

\* Mutant: the cancellation is saved before the replacement is accepted.
CancelFirst(o) ==
    /\ Save(CancelGroup(mem.spot, o), mem.futures, Writes(TRUE, FALSE))
    /\ UNCHANGED <<replaced, asked>>

\* cancelForReplacement, in memory: the orders to replace are canceled one by one, with
\* their groups, before the new order is placed or refused.
ReplaceSpot(o) ==
    /\ at = "settled"
    /\ mem' = [mem EXCEPT !.spot = CancelGroup(@, o)]
    /\ replaced' = replaced \cup GroupOf(mem.spot, o)
    /\ UNCHANGED <<spotFile, futuresFile, txFile, at, todo, dirty, whole, asked>>

ReplaceFutures(o) ==
    /\ at = "settled"
    /\ mem' = [mem EXCEPT !.futures = Marked(@, {o}, "canceled")]
    /\ replaced' = replaced \cup {o}
    /\ UNCHANGED <<spotFile, futuresFile, txFile, at, todo, dirty, whole, asked>>

\* placeFuturesOrder: an order that rests, or a market order that is filled at once.
SubmitFutures(futures) ==
    /\ replaced \subseteq DOMAIN mem.futures.orders /\ NextId(mem) <= MaxOrders
    /\ Save(mem.spot, futures, Writes(TRUE, TRUE))
    /\ replaced' = {} /\ UNCHANGED asked

PlaceFutures ==
    SubmitFutures(Added(mem.futures, NextId(mem), [status |-> "open"]))

PlaceFuturesMarket(gone) ==
    SubmitFutures(FillFutures(Added(mem.futures, NextId(mem), [status |-> "open"]), NextId(mem), gone))

\* cancelOrder of a futures order
CancelFutures(o) ==
    /\ replaced = {}
    /\ Save(mem.spot, Marked(mem.futures, {o}, "canceled"), Writes(TRUE, TRUE))
    /\ UNCHANGED <<replaced, asked>>

\* setLeverage and setMarginMode: both accounts are saved without settling.
Configure ==
    /\ at = "loaded"
    /\ todo' = Writes(TRUE, TRUE) /\ at' = "saving"
    /\ UNCHANGED <<spotFile, futuresFile, txFile, mem, dirty, replaced, whole, asked>>

\* The operation only read, or is refused; a market lookup or a write fails; or the
\* process stops.  What is not written is lost.
Stop ==
    /\ at # "free"
    /\ at' = "free" /\ todo' = <<>> /\ dirty' = {} /\ replaced' = {}
    /\ UNCHANGED <<spotFile, futuresFile, txFile, mem, whole, asked>>

-----------------------------------------------------------------------------
Settlement ==
    \/ \E o \in OpenOf(mem.spot) : FireSpot(o)
    \/ \E o \in OpenOf(mem.futures) :
        FireStale(o) \/ \E gone \in SUBSET (OpenOf(mem.futures) \ {o}) : FireFutures(o, gone)
    \/ \E orders \in SUBSET OpenOf(mem.futures) : CancelOrphans(orders) \/ Refresh(orders)
    \/ Settle

Operation ==
    \/ \E side \in Sides, price \in Prices : PlaceResting(side, price) \/ PlaceMarket(side, price)
    \/ \E side \in Sides, stop, profit \in Prices : PlaceOco(side, stop, profit)
    \/ \E o \in OpenOf(mem.spot) : CancelSpot(o) \/ ReplaceSpot(o)
    \/ \E o \in OpenOf(mem.futures) : CancelFutures(o) \/ ReplaceFutures(o)
    \/ PlaceFutures \/ \E gone \in SUBSET OpenOf(mem.futures) : PlaceFuturesMarket(gone)
    \/ Configure

PaperNext == Open \/ Write \/ Settlement \/ Operation \/ Stop

PaperSpec == PaperInit /\ [][PaperNext]_paperVars

-----------------------------------------------------------------------------
(* What the paper exchange promises.  The accounts are those in the files, *)
(* or in the transaction file that will be replayed.                       *)

Stored == IF txFile # None THEN txFile ELSE [spot |-> spotFile, futures |-> futuresFile]

\* The balances of a spot account.
SpotFunded(a) ==
    /\ a.quote >= 0 /\ a.base >= 0
    /\ a.quote + QuoteReserved(a) + a.paid = StartQuote
    /\ a.base + BaseReserved(a) - a.got = StartBase

\* Money is neither made nor lost on the spot account: what is free, what open orders
\* hold back (a group once) and what the trades cost is what the account began with, and
\* nothing is overspent, through fills, cancellations, replacements and crashes.
FundsExact == SpotFunded(Stored.spot)

\* The legs of a group live and die together, and one at most is filled.
LegsTogether(account) ==
    \A o, x \in DOMAIN account.orders :
        LET a == account.orders IN
        (o # x /\ a[o].group # 0 /\ a[o].group = a[x].group) =>
            /\ a[o].status = "open" <=> a[x].status = "open"
            /\ ~(a[o].status = "closed" /\ a[x].status = "closed")

\* A fill, a cancellation or a crash never leaves one leg of an OCO group behind.
OcoWhole == LegsTogether(Stored.spot)

\* An operation's changes to the two accounts are stored as a whole or not at all
\* ("makes a crash between the two renames recoverable on the next operation").
SavedWhole == at \in {"free", "loaded"} => Stored = whole

\* A canceled order was asked to be, or the other leg of its group is filled.
CancelsAccounted(account, wanted) ==
    \A o \in DOMAIN account.orders :
        account.orders[o].status = "canceled" =>
            o \in wanted \/ \E x \in GroupOf(account, o) : account.orders[x].status = "closed"

\* An order is canceled only by an operation that went through, or by the fill of the
\* other leg: a replacement that is refused leaves the protection as it was ("Failed
\* validation preserves the original durable stop", docs/autonomous-trading.md).
CanceledAsAsked == CancelsAccounted(Stored.spot, asked)

\* No id is given twice: an order of one account is not another of the other's.
NoSharedIds(accounts) == DOMAIN accounts.spot.orders \cap DOMAIN accounts.futures.orders = {}
IdsDistinct == NoSharedIds(Stored)

-----------------------------------------------------------------------------
(* The inductive invariant behind these promises: what is stored is what the   *)
(* last save began with, the writes that are left complete it, and the         *)
(* accounts in memory and on disk are sound.                                   *)

Statuses == {"open", "closed", "canceled"}
SpotOrders == [side : Sides, price : Prices, reserve : Prices, group : {0} \cup Ids, status : Statuses]

\* The accounts that have given these ids.
SpotAccounts(ids) == [quote : Int, base : Int, paid : Int, got : Int, orders : [ids -> SpotOrders]]
FuturesAccounts(ids) == [orders : [ids -> [status : Statuses]]]
Accounts(spot, futures) == [spot : SpotAccounts(spot), futures : FuturesAccounts(futures)]

ASSUME NoAccountsAssumption ==
    \A spot, futures \in SUBSET Ids : None \notin Accounts(spot, futures)

IsAccounts(accounts) ==
    LET spot == DOMAIN accounts.spot.orders
        futures == DOMAIN accounts.futures.orders
    IN  spot \subseteq Ids /\ futures \subseteq Ids /\ accounts \in Accounts(spot, futures)

Phases == {"free", "recovering", "loaded", "tidying", "firing", "settling", "settled", "saving"}

PaperTypeOK ==
    /\ IsAccounts([spot |-> spotFile, futures |-> futuresFile]) /\ IsAccounts(mem)
    /\ txFile # None => IsAccounts(txFile)
    /\ asked \subseteq Ids /\ replaced \subseteq Ids
    /\ dirty \subseteq {"spot", "futures"}
    /\ at \in Phases

\* These files have the ids of the accounts in memory, whose orders may have changed.
SameIds(spot, futures) ==
    /\ spot => DOMAIN spotFile.orders = DOMAIN mem.spot.orders
    /\ futures => DOMAIN futuresFile.orders = DOMAIN mem.futures.orders

\* The files up to the writes that are left.
FilesSaved(spot, futures) == (spot => spotFile = mem.spot) /\ (futures => futuresFile = mem.futures)

WritesComplete ==
    \/ at = "free" /\ todo = <<>>
    \/ at \in {"loaded", "firing", "settled"} /\ todo = <<>> /\ txFile = None /\ SameIds(TRUE, TRUE)
    \/ at \in {"tidying", "settling", "saving"} /\ txFile = None
        /\ \/ todo = <<"tx", "spot", "futures", "drop">>
           \/ todo = <<"spot">> /\ SameIds(FALSE, TRUE)
           \/ todo = <<"futures">> /\ SameIds(TRUE, FALSE)
    \/ at \in {"recovering", "tidying", "settling", "saving"} /\ txFile = mem
        /\ \/ todo = <<"spot", "futures", "drop">>
           \/ todo = <<"futures", "drop">> /\ FilesSaved(TRUE, FALSE)
           \/ todo = <<"drop">> /\ FilesSaved(TRUE, TRUE)

\* A group is named after its first leg.
GroupsGiven(account) == \A o \in DOMAIN account.orders : account.orders[o].group \in {0} \cup DOMAIN account.orders

Sound(accounts) == GroupsGiven(accounts.spot) /\ LegsTogether(accounts.spot) /\ NoSharedIds(accounts)

PaperInv ==
    /\ PaperTypeOK /\ Stored = whole /\ WritesComplete
    /\ Sound(Stored) /\ Sound(mem)
    /\ CanceledAsAsked /\ (at # "free" => CancelsAccounted(mem.spot, asked \cup replaced))
    /\ at # "settled" => replaced = {}

\* The funds need more of the orders: a fill costs no more than the order holds, and
\* the legs of a group hold the same, so that any of them gives back what they share.
LegsAlike(account) ==
    \A o, x \in DOMAIN account.orders :
        LET a == account.orders IN
        /\ a[o].price <= a[o].reserve
        /\ (a[o].group # 0 /\ a[o].group = a[x].group) =>
            a[o].side = a[x].side /\ a[o].reserve = a[x].reserve

\* The spot account's funds are exact in memory and in the files.
SpotExact(account) == LegsAlike(account) /\ SpotFunded(account)

FundsInv == SpotExact(Stored.spot) /\ SpotExact(mem.spot)

=============================================================================
