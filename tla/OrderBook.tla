------------------------------ MODULE OrderBook ------------------------------
(***************************************************************************)
(* What POST /orders promises: a purchase happens at one instant or not    *)
(* at all.  In that instant every line leaves the stock, the buyer pays    *)
(* the sum of the lines, and the order and its order.placed event appear;  *)
(* a buyer's idempotency key buys once.  Neither statements, locks nor     *)
(* retries exist here.                                                     *)
(***************************************************************************)
EXTENDS OrderLines

CONSTANTS Requests, Inputs, InitialStock, InitialBalance, NoKey

VARIABLES
    input,      \* input[r], the body, buyer and key of request r
    stock,      \* stock[p]
    balance,    \* balance[u]
    placed,     \* the requests that became an order
    events      \* the orders an order.placed event was recorded for

bookVars == <<input, stock, balance, placed, events>>

BookInit ==
    /\ input \in [Requests -> Inputs]
    /\ stock = InitialStock
    /\ balance = InitialBalance
    /\ placed = {}
    /\ events = {}

SameKey(r, s) ==
    /\ input[r].idempotencyKey # NoKey
    /\ input[r].idempotencyKey = input[s].idempotencyKey
    /\ input[r].userId = input[s].userId

Bought(r) == ItemsOf(r, input[r].items)

Place(r) ==
    /\ r \notin placed
    /\ \A s \in placed : ~SameKey(r, s)
    /\ ValidLines(input[r].items)
    /\ \A i \in DOMAIN input[r].items : Number[input[r].items[i].productId] \in Products
    /\ \A p \in Products : Units(Bought(r), p) <= stock[p]
    /\ input[r].userId \in DOMAIN balance
    /\ Total(Bought(r)) <= balance[input[r].userId]
    /\ stock' = [p \in Products |-> stock[p] - Units(Bought(r), p)]
    /\ balance' = [balance EXCEPT ![input[r].userId] = @ - Total(Bought(r))]
    /\ placed' = placed \cup {r}
    /\ events' = events \cup {r}
    /\ UNCHANGED input

BookNext == \E r \in Requests : Place(r)

BookSpec == BookInit /\ [][BookNext]_bookVars

=============================================================================
