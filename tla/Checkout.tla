------------------------------ MODULE Checkout ------------------------------
(***************************************************************************)
(* POST /orders: PlaceOrderService.place around the checkout transaction.  *)
(*                                                                         *)
(* Every request is a process that takes one SQL statement at a time, at   *)
(* READ COMMITTED.  `stock', `balance' and the four tables hold what is    *)
(* committed; tx[r] holds what the open transaction of r wrote.  A row     *)
(* with an uncommitted version is locked by the transaction that wrote     *)
(* it: another UPDATE of that row whose WHERE clause holds on the          *)
(* committed version waits, and evaluates the clause again once the        *)
(* writer has ended; an UPDATE whose clause is false on the version it     *)
(* sees matches no row and does not wait.                                  *)
(*                                                                         *)
(* An order is named by the request that created it.                       *)
(***************************************************************************)
EXTENDS OrderLines

CONSTANTS
    Requests,       \* the calls of PlaceOrderService.place
    Inputs,         \* the CheckoutInputs they may carry
    Users,          \* ids of the rows of the users table
    InitialStock, InitialBalance,
    NoKey,          \* a request without an Idempotency-Key, stored as NULL
    EmptyKey,       \* an Idempotency-Key of no characters, stored as it is
    None

Refusals == {"keyReused", "outOfStock", "productNotFound", "insufficientFunds", "userNotFound"}

ASSUME CheckoutAssumption ==
    /\ InitialStock \in [Products -> Nat]
    /\ InitialBalance \in [Users -> Nat]
    /\ \A c \in Inputs : c.items \in Seq(CheckoutLine)
    /\ EmptyKey # NoKey
    /\ None \notin Requests /\ None \notin Refusals \cup {"created", "replay", "error"}

VARIABLES
    input,          \* input[r], fixed
    stock, balance, orders, orderItems, jobs, outbox,   \* committed rows
    cardJobs,       \* product card refreshes put on the BullMQ queue
    tx,             \* tx[r], the uncommitted writes of r
    pc,             \* the next statement of r
    result,         \* the outcome r was answered with
    returned        \* the order in the answer, if any

committed == <<stock, balance, orders, orderItems, jobs, outbox>>
answers   == <<result, returned>>
vars      == <<input, committed, cardJobs, tx, pc, answers>>

Results  == Refusals \cup {"created", "replay", "error", None}
TxSteps  == {"lines", "orders", "orderItems", "jobs", "outbox", "commit"}
Steps    == TxSteps \cup {"findExisting", "validate", "readBack", "refresh", "findWinner", "answered"}

NoTx == [taken  |-> [p \in Products |-> 0],   \* units of p this transaction decremented
         priced |-> {},                       \* the lines priced so far
         total  |-> 0,                        \* what it debited from the buyer
         wrote  |-> {}]                       \* the tables it inserted its rows into

Init ==
    /\ input \in [Requests -> Inputs]
    /\ stock = InitialStock
    /\ balance = InitialBalance
    /\ orders = {} /\ orderItems = {} /\ jobs = {} /\ outbox = {}
    /\ cardJobs = {}
    /\ tx = [r \in Requests |-> NoTx]
    /\ pc = [r \in Requests |-> "findExisting"]
    /\ result = [r \in Requests |-> None]
    /\ returned = [r \in Requests |-> None]

-----------------------------------------------------------------------------
(* Helpers                                                                 *)

Lines(r)   == input[r].items
Product(r, i) == Number[Lines(r)[i].productId]
(* Mutant: SET stock = stock - 1.                                          *)
QuantityOne(r, i) == 1

Quantity(r, i) == Lines(r)[i].quantity

Reply(r, outcome, order) ==
    /\ pc' = [pc EXCEPT ![r] = "answered"]
    /\ result' = [result EXCEPT ![r] = outcome]
    /\ returned' = [returned EXCEPT ![r] = order]

Goto(r, step) == pc' = [pc EXCEPT ![r] = step] /\ UNCHANGED answers

Rollback(r) == tx' = [tx EXCEPT ![r] = NoTx]

(* The unique index on (user_id, idempotency_key), which takes NULLs to be *)
(* distinct and an empty key to be a key like any other: the requests      *)
(* whose rows collide in it, and the committed rows that r collides with.  *)
SameKey(r, s) ==
    /\ input[r].idempotencyKey # NoKey
    /\ input[r].idempotencyKey = input[s].idempotencyKey
    /\ input[r].userId = input[s].userId

(* Mutants: no unique index; one on the key alone.                         *)
NoRows(r) == {}

KeyRowsOfAnybody(r) ==
    {o \in orders : /\ input[r].idempotencyKey # NoKey
                    /\ o.idempotencyKey = input[r].idempotencyKey}

KeyRows(r) ==
    {o \in orders : /\ input[r].idempotencyKey # NoKey
                    /\ o.idempotencyKey = input[r].idempotencyKey
                    /\ o.userId = input[r].userId}

(* findExisting asks for a key that is truthy, so it takes an empty one    *)
(* for none.                                                               *)
HasKey(r) == input[r].idempotencyKey \notin {NoKey, EmptyKey}

(* Mutant: a lookup that forgets the buyer.                                *)
FindByKeyOnly(r) == IF HasKey(r) THEN KeyRowsOfAnybody(r) ELSE {}

FindByIdempotencyKey(r) == IF HasKey(r) THEN KeyRows(r) ELSE {}

Items(id) == {x \in orderItems : x.orderId = id}

(* The rows the order of r consists of.                                    *)
OrderRow(r) == [id |-> r, userId |-> input[r].userId,
                idempotencyKey |-> input[r].idempotencyKey, total |-> tx[r].total]
JobRow(r)   == [type |-> "send_receipt", orderId |-> r]
EventRow(r) == [aggregateId |-> r, total |-> tx[r].total, items |-> tx[r].priced]

(* The line the loop of the transaction visits next.                       *)
Unpriced(r) == {i \in DOMAIN Lines(r) : \A x \in tx[r].priced : x.line # i}

IsNextLine(r, i) ==
    /\ i \in Unpriced(r)
    /\ \A j \in Unpriced(r) \ {i} : SortsBefore(Lines(r), i, j)

(* The version of a row r sees: the committed one, or its own.             *)
SeenStock(r, p) == stock[p] - tx[r].taken[p]

LocksProduct(s, p) == tx[s].taken[p] > 0
LocksUser(s, u)    == input[s].userId = u /\ tx[s].total > 0

-----------------------------------------------------------------------------
(* PlaceOrderService.place up to the transaction                           *)

(* findExisting, when the lookup returned an order.                        *)
ReplyWithExisting(r) ==
    \E o \in FindByIdempotencyKey(r) :
        IF IsSameRequest(Items(o.id), Lines(r))
        THEN Reply(r, "replay", o.id)
        ELSE Reply(r, "keyReused", None)

FindExisting(r) ==
    /\ pc[r] = "findExisting"
    /\ \/ ReplyWithExisting(r)
       \/ FindByIdempotencyKey(r) = {} /\ Goto(r, "validate")
    /\ UNCHANGED <<input, committed, cardJobs, tx>>

(* validateLines, then BEGIN.                                              *)
Validate(r) ==
    /\ pc[r] = "validate"
    /\ IF ValidLines(Lines(r)) THEN Goto(r, "lines") ELSE Reply(r, "error", None)
    /\ UNCHANGED <<input, committed, cardJobs, tx>>

-----------------------------------------------------------------------------
(* The checkout transaction                                                *)

(* The transaction of r once it has taken the stock of its line i.         *)
WithLine(r, i) ==
    [taken  |-> [tx[r].taken EXCEPT ![Product(r, i)] = @ + Quantity(r, i)],
     priced |-> tx[r].priced \cup {PricedLine(r, Lines(r), i)},
     total  |-> tx[r].total,
     wrote  |-> tx[r].wrote]

(* Mutants: no "stock >= quantity" in the WHERE clause; a SELECT and a     *)
(* check in the application in place of the guarded UPDATE.                *)
TakeStockUnchecked(r) ==
    /\ pc[r] = "lines"
    /\ \E i \in DOMAIN Lines(r) :
        /\ IsNextLine(r, i)
        /\ Product(r, i) \in Products
        /\ \A s \in Requests \ {r} : ~LocksProduct(s, Product(r, i))
        /\ tx' = [tx EXCEPT ![r] = WithLine(r, i)]
    /\ UNCHANGED <<input, committed, cardJobs, pc, answers>>

TakeStockUnlocked(r) ==
    /\ pc[r] = "lines"
    /\ \E i \in DOMAIN Lines(r) :
        /\ IsNextLine(r, i)
        /\ Product(r, i) \in Products
        /\ SeenStock(r, Product(r, i)) >= Quantity(r, i)
        /\ tx' = [tx EXCEPT ![r] = WithLine(r, i)]
    /\ UNCHANGED <<input, committed, cardJobs, pc, answers>>

(* UPDATE products SET stock = stock - quantity ... RETURNING price.       *)
TakeStock(r) ==
    /\ pc[r] = "lines"
    /\ \E i \in DOMAIN Lines(r) :
        LET p == Product(r, i) IN
        /\ IsNextLine(r, i)
        /\ p \in Products
        /\ SeenStock(r, p) >= Quantity(r, i)
        /\ \A s \in Requests \ {r} : ~LocksProduct(s, p)
        /\ tx' = [tx EXCEPT ![r] = WithLine(r, i)]
    /\ UNCHANGED <<input, committed, cardJobs, pc, answers>>

(* The UPDATE matched no row: SELECT 1 tells why, the exception rolls back. *)
RefuseLine(r) ==
    /\ pc[r] = "lines"
    /\ \E i \in DOMAIN Lines(r) :
        LET p == Product(r, i) IN
        /\ IsNextLine(r, i)
        /\ \/ p \notin Products /\ Reply(r, "productNotFound", None)
           \/ /\ p \in Products
              /\ SeenStock(r, p) < Quantity(r, i)
              /\ Reply(r, "outOfStock", None)
    /\ Rollback(r)
    /\ UNCHANGED <<input, committed, cardJobs>>

(* Mutant: the quantity is left out of the sum.                            *)
DebitUserPerLine(r) ==
    LET u == input[r].userId
        total == Cardinality(UNION {{x} \X (1 .. x.unitPrice) : x \in tx[r].priced})
    IN  /\ pc[r] = "lines"
        /\ Unpriced(r) = {}
        /\ u \in Users
        /\ balance[u] >= total
        /\ \A s \in Requests \ {r} : ~LocksUser(s, u)
        /\ tx' = [tx EXCEPT ![r].total = total]
        /\ Goto(r, "orders")
        /\ UNCHANGED <<input, committed, cardJobs>>

(* UPDATE users SET balance = balance - total.                             *)
DebitUser(r) ==
    LET u == input[r].userId
        total == Total(tx[r].priced)
    IN  /\ pc[r] = "lines"
        /\ Unpriced(r) = {}
        /\ u \in Users
        /\ balance[u] >= total
        /\ \A s \in Requests \ {r} : ~LocksUser(s, u)
        /\ tx' = [tx EXCEPT ![r].total = total]
        /\ Goto(r, "orders")
        /\ UNCHANGED <<input, committed, cardJobs>>

RefuseDebit(r) ==
    LET u == input[r].userId IN
    /\ pc[r] = "lines"
    /\ Unpriced(r) = {}
    /\ \/ u \notin Users /\ Reply(r, "userNotFound", None)
       \/ /\ u \in Users
          /\ balance[u] < Total(tx[r].priced)
          /\ Reply(r, "insufficientFunds", None)
    /\ Rollback(r)
    /\ UNCHANGED <<input, committed, cardJobs>>

(* Mutant: the unique index is on the key alone.                           *)
InsertOrderKeyAlone(r) ==
    /\ pc[r] = "orders"
    /\ \/ /\ KeyRowsOfAnybody(r) = {}
          /\ tx' = [tx EXCEPT ![r].wrote = @ \cup {"orders"}]
          /\ Goto(r, "orderItems")
       \/ /\ KeyRowsOfAnybody(r) # {}
          /\ Rollback(r)
          /\ Goto(r, "findWinner")
    /\ UNCHANGED <<input, committed, cardJobs>>

(* INSERT INTO orders.  The unique index on (user_id, idempotency_key)     *)
(* makes it wait for an uncommitted row with the same key, and raises      *)
(* 23505 when such a row is committed.                                     *)
InsertOrder(r) ==
    /\ pc[r] = "orders"
    /\ \A s \in Requests \ {r} : ~("orders" \in tx[s].wrote /\ SameKey(r, s))
    /\ \/ /\ KeyRows(r) = {}
          /\ tx' = [tx EXCEPT ![r].wrote = @ \cup {"orders"}]
          /\ Goto(r, "orderItems")
       \/ /\ KeyRows(r) # {}
          /\ Rollback(r)
          /\ Goto(r, "findWinner")
    /\ UNCHANGED <<input, committed, cardJobs>>

InsertRows(r, table, next) ==
    /\ pc[r] = table
    /\ tx' = [tx EXCEPT ![r].wrote = @ \cup {table}]
    /\ Goto(r, next)
    /\ UNCHANGED <<input, committed, cardJobs>>

(* Mutant: no outbox row.                                                  *)
InsertJobOnly(r) == InsertRows(r, "jobs", "commit")

InsertItems(r)  == InsertRows(r, "orderItems", "jobs")
InsertJob(r)    == InsertRows(r, "jobs", "outbox")
InsertOutbox(r) == InsertRows(r, "outbox", "commit")

Commit(r) ==
    LET rows(table, new) == IF table \in tx[r].wrote THEN new ELSE {} IN
    /\ pc[r] = "commit"
    /\ stock' = [p \in Products |-> stock[p] - tx[r].taken[p]]
    /\ balance' = [balance EXCEPT ![input[r].userId] = @ - tx[r].total]
    /\ orders' = orders \cup rows("orders", {OrderRow(r)})
    /\ orderItems' = orderItems \cup rows("orderItems", Stored(tx[r].priced))
    /\ jobs' = jobs \cup rows("jobs", {JobRow(r)})
    /\ outbox' = outbox \cup rows("outbox", {EventRow(r)})
    /\ Rollback(r)
    /\ Goto(r, "readBack")
    /\ UNCHANGED <<input, cardJobs>>

-----------------------------------------------------------------------------
(* PlaceOrderService.place after the transaction                           *)

(* OrdersRepository.create reads the order it has just committed.          *)
ReadBack(r) ==
    /\ pc[r] = "readBack"
    /\ IF \E o \in orders : o.id = r THEN Goto(r, "refresh") ELSE Reply(r, "error", None)
    /\ UNCHANGED <<input, committed, cardJobs, tx>>

(* ProductCardRefresher.refreshProducts: every enqueue may fail, and the   *)
(* failure is only logged.                                                 *)
RefreshCards(r) ==
    /\ pc[r] = "refresh"
    /\ \E queued \in SUBSET {x.productId : x \in Items(r)} :
        cardJobs' = cardJobs \cup {[orderId |-> r, productId |-> p] : p \in queued}
    /\ Reply(r, "created", r)
    /\ UNCHANGED <<input, committed, tx>>

(* After 23505: the order of the request that won.                         *)
FindWinner(r) ==
    /\ pc[r] = "findWinner"
    /\ \/ ReplyWithExisting(r)
       \/ FindByIdempotencyKey(r) = {} /\ Reply(r, "error", None)
    /\ UNCHANGED <<input, committed, cardJobs, tx>>

(* A statement fails, the connection drops or the process dies: the open   *)
(* transaction is rolled back, and the client gets a 500 or no answer.     *)
Fail(r) ==
    /\ pc[r] # "answered"
    /\ Rollback(r)
    /\ Reply(r, "error", None)
    /\ UNCHANGED <<input, committed, cardJobs>>

-----------------------------------------------------------------------------

Step(r) ==
    \/ FindExisting(r) \/ Validate(r)
    \/ TakeStock(r) \/ RefuseLine(r) \/ DebitUser(r) \/ RefuseDebit(r)
    \/ InsertOrder(r) \/ InsertItems(r) \/ InsertJob(r) \/ InsertOutbox(r) \/ Commit(r)
    \/ ReadBack(r) \/ RefreshCards(r) \/ FindWinner(r)

Done == (\A r \in Requests : pc[r] = "answered") /\ UNCHANGED vars

Next == (\E r \in Requests : Step(r) \/ Fail(r)) \/ Done

Spec == Init /\ [][Next]_vars

(* The event loop runs every request whose query has returned, and         *)
(* PostgreSQL answers every query that is not waiting for a lock.          *)
Fairness == \A r \in Requests : WF_vars(Step(r))

-----------------------------------------------------------------------------
(* Properties                                                              *)

OrderIds == {o.id : o \in orders}

OrderItem == [orderId : Requests, line : Nat, productId : Texts, quantity : Nat, unitPrice : Nat]

TxRecord == [taken : [Products -> Nat], priced : SUBSET OrderItem, total : Nat,
             wrote : SUBSET {"orders", "orderItems", "jobs", "outbox"}]

RowsOK ==
    /\ stock \in [Products -> Nat]
    /\ balance \in [Users -> Nat]
    /\ OrderIds \subseteq Requests
    /\ orderItems \subseteq OrderItem

ControlOK ==
    /\ pc \in [Requests -> Steps]
    /\ result \in [Requests -> Results]
    /\ returned \in [Requests -> Requests \cup {None}]

(* Every variable holds a value of its kind; in particular stock and       *)
(* balance never go below zero.                                            *)
TypeOK ==
    /\ input \in [Requests -> Inputs]
    /\ RowsOK
    /\ tx \in [Requests -> TxRecord]
    /\ ControlOK

(* The row locks of the two UPDATEs work as mutual exclusion: no product   *)
(* and no user row ever has two uncommitted versions, and an uncommitted   *)
(* version never drives the row below zero, whatever other transactions    *)
(* committed since the WHERE clause was evaluated.                         *)
RowVersionsSafe ==
    \A r \in Requests :
        /\ \A p \in Products :
            /\ tx[r].taken[p] <= stock[p]
            /\ LocksProduct(r, p) => \A s \in Requests \ {r} : ~LocksProduct(s, p)
        /\ tx[r].total > 0 =>
            /\ input[r].userId \in Users /\ tx[r].total <= balance[input[r].userId]
            /\ \A s \in Requests \ {r} : ~LocksUser(s, input[r].userId)

(* A unit of a product is either in stock or in the items of exactly one   *)
(* order: nothing is oversold, leaked by a rollback or sold twice.         *)
StockConserved ==
    \A p \in Products : stock[p] + Units(orderItems, p) = InitialStock[p]

(* What a buyer no longer has is exactly what the items of his orders      *)
(* cost at the prices they were sold at, and the totals of the orders and  *)
(* of the order.placed events say the same.                                *)
MoneyConserved ==
    /\ \A u \in Users :
        balance[u] + Total({x \in orderItems : \E o \in orders : o.id = x.orderId /\ o.userId = u})
            = InitialBalance[u]
    /\ \A o \in orders : o.total = Total(Items(o.id))
    /\ \A e \in outbox : e.total = Total(e.items)

(* Neither goods nor money appear or vanish, whichever requests race, are  *)
(* refused half-way or fail.                                               *)
GoodsAndMoneyConserved == StockConserved /\ MoneyConserved

(* One COMMIT makes the whole order: an order row exists if and only if    *)
(* its items (one per line of the request), its job and its outbox event   *)
(* do, and the event carries those items, spelled as in the request.       *)
(* Product card refreshes are queued only for items of committed orders,   *)
(* so a refresh never reads the catalogue before the sale it is about.     *)
OrderIsWhole ==
    /\ \A o \in orders : /\ Items(o.id) = ItemsOf(o.id, Lines(o.id))
                         /\ JobRow(o.id) \in jobs
                         /\ \E e \in outbox : e.aggregateId = o.id /\ Stored(e.items) = Items(o.id)
    /\ \A x \in orderItems : x.orderId \in OrderIds
    /\ \A j \in jobs : j.orderId \in OrderIds
    /\ \A e \in outbox : e.aggregateId \in OrderIds
    /\ \A e, f \in outbox : e.aggregateId = f.aggregateId => e = f
    /\ \A j \in cardJobs : \E x \in orderItems : x.orderId = j.orderId /\ x.productId = j.productId

(* A buyer is charged at most once per Idempotency-Key, however many       *)
(* requests carry the key, concurrently or after an answer was lost.       *)
ChargedOncePerKey ==
    \A o, q \in orders :
        (o.idempotencyKey = q.idempotencyKey /\ o.userId = q.userId /\ o.idempotencyKey # NoKey)
            => o = q

(* An answer tells the truth: 201 returns the order this request created;  *)
(* a replay returns an order of the same buyer, under the same key, with   *)
(* the lines this request asked for; and a refused request bought nothing. *)
AnswersAreTrue ==
    \A r \in Requests :
        /\ result[r] = "created" => returned[r] = r /\ r \in OrderIds
        /\ result[r] = "replay" =>
            /\ returned[r] \in OrderIds /\ returned[r] # r
            /\ SameKey(r, returned[r])
            /\ IsSameRequest(Items(returned[r]), Lines(r))
        /\ result[r] \in Refusals => r \notin OrderIds

(* The lookups that place() trusts: the order a request has committed is   *)
(* found again, and behind every 23505 on the key index there is a         *)
(* committed order of this buyer under this key, which findExisting        *)
(* returns unless the key is empty.  So the only request that falls        *)
(* through to a 500 is the repeat of an order under an empty key, which    *)
(* the INSERT stores and the lookup does not ask for.                      *)
OnlyEmptyKeysFallThrough ==
    \A r \in Requests :
        /\ pc[r] = "readBack" => r \in OrderIds
        /\ pc[r] = "findWinner" =>
            \/ FindByIdempotencyKey(r) # {}
            \/ input[r].idempotencyKey = EmptyKey /\ KeyRows(r) # {}

(* The purchase happens at one instant: with the committed rows as its     *)
(* state, this specification implements OrderBook.                         *)
Book == INSTANCE OrderBook WITH placed <- OrderIds,
                                events <- {e.aggregateId : e \in outbox}
ImplementsOrderBook == Book!BookSpec

(* Every request is answered: no wait for a lock lasts for ever.  As       *)
(* nothing makes a statement fail, this needs transactions that never wait *)
(* for each other in a circle: they visit the product rows by id, then the *)
(* buyer, then the key index, and PostgreSQL has no deadlock to break.     *)
EveryRequestAnswered == \A r \in Requests : <>(pc[r] = "answered")

(* README.md, "Outbox and idempotency": "a concurrent second request gets  *)
(* 23505 and returns the existing order".  Of two requests with the same   *)
(* buyer, key and body, one does not buy while the other is refused.       *)
ConcurrentRepeatIsReplayed ==
    \A r, s \in Requests :
        (input[r] = input[s] /\ input[r].idempotencyKey # NoKey /\ result[r] = "created")
            => result[s] \notin Refusals

(* openapi.yaml, Idempotency-Replay: a request with the same key and the   *)
(* same body as an earlier one is answered from the earlier one.           *)
SameBodyIsNotReuse ==
    \A r \in Requests :
        result[r] = "keyReused" =>
            \E o \in FindByIdempotencyKey(r) : Lines(o.id) # Lines(r)
=============================================================================
