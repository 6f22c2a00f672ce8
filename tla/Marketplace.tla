----------------------------- MODULE Marketplace -----------------------------
(***************************************************************************)
(* The purchase from the request to the receipt: Checkout and              *)
(* OutboxMessaging side by side.  The API and the relay meet in the outbox *)
(* table only: the commit of a checkout transaction is the step in which   *)
(* the row of its order appears to the relay.                              *)
(***************************************************************************)
EXTENDS Checkout

CONSTANTS
    Relays, Consumers,
    RELAY_MAX_ATTEMPTS, RELAY_BATCH_SIZE, OUTBOX_CLEANUP_BATCH,
    PREFETCH, DELIVERY_LIMIT, MaxCrashes

VARIABLES
    outboxRow,      \* what the relay sees of the outbox row of an order
    attempts, relay, copies, declared, foreignLeft, queue, dlq,
    deliveries, consumerUp, processed, receipts, crashes

Messaging == INSTANCE OutboxMessaging WITH
                Orders <- Requests, Foreign <- {}, outbox <- outboxRow

ASSUME MarketAssumption == Messaging!MessagingAssumption

messagingVars == <<outboxRow, attempts, relay, copies, declared, foreignLeft, queue, dlq,
                   deliveries, consumerUp, processed, receipts, crashes>>
marketVars == <<vars, messagingVars>>

MarketInit == Init /\ Messaging!Init

(* The commit publishes the outbox row to the relay, if there is one.      *)
CommitOrder(r) ==
    /\ Commit(r)
    /\ IF "outbox" \in tx[r].wrote THEN Messaging!PlaceOrder(r) ELSE UNCHANGED messagingVars

(* Everything else the API does for a request.                             *)
RequestStep(r) ==
    /\ Step(r) \/ Fail(r)
    /\ pc[r] = "commit" => pc'[r] = "answered"      \* the commit is above
    /\ UNCHANGED messagingVars

RelaySide(w) == (Messaging!RelayStep(w) \/ Messaging!CrashRelay(w)) /\ UNCHANGED vars

ConsumerSide(c) ==
    /\ \/ Messaging!StartConsumer(c) \/ Messaging!Deliver(c)
       \/ Messaging!LoseChannel(c) \/ Messaging!CrashConsumer(c)
       \/ \E d \in Messaging!Handlers(c) : Messaging!HandlerStep(d) \/ Messaging!HandlerFault(d)
    /\ UNCHANGED vars

RowAges(r) == Messaging!Age(r) /\ UNCHANGED vars

MarketNext ==
    \/ \E r \in Requests : CommitOrder(r) \/ RequestStep(r) \/ RowAges(r)
    \/ \E w \in Relays : RelaySide(w)
    \/ \E c \in Consumers : ConsumerSide(c)

MarketSpec == MarketInit /\ [][MarketNext]_marketVars

(* Relays and consumers run as long as their process does and are started  *)
(* again when it ends; a handler that does not wait for another one goes   *)
(* on.  Nothing makes a request go on, or a fault happen: the API may stop *)
(* at any point.                                                           *)
MarketFairness ==
    /\ \A w \in Relays : WF_marketVars(Messaging!RelayStep(w) /\ UNCHANGED vars)
    /\ \A c \in Consumers :
        /\ WF_marketVars(Messaging!StartConsumer(c) /\ UNCHANGED vars)
        /\ WF_marketVars(Messaging!Deliver(c) /\ UNCHANGED vars)
    /\ WF_marketVars((\E d \in deliveries : Messaging!HandlerStep(d)) /\ UNCHANGED vars)

-----------------------------------------------------------------------------
(* Properties                                                              *)

Receipted(r) == \E x \in receipts : x.order = r

(* A purchase, whatever was repeated on its way (the request under its     *)
(* key, the publish after a crash of the relay, the delivery after a crash *)
(* of the consumer), ends in at most one receipt.                          *)
OneReceiptPerPurchase ==
    \A x, y \in receipts :
        /\ input[x.order].idempotencyKey # NoKey
        /\ input[x.order].idempotencyKey = input[y.order].idempotencyKey
        /\ input[x.order].userId = input[y.order].userId
        => x = y

(* A receipt is for goods that were sold and paid: its order is committed, *)
(* with all its items, and they are what the stock and the buyer lack.  A  *)
(* request that was refused gets none, and a purchase one.                 *)
ReceiptsArePaid ==
    /\ OneReceiptPerPurchase
    /\ \A r \in Requests : Receipted(r) =>
        /\ Items(r) = ItemsOf(r, Lines(r))
        /\ \E o \in orders : o.id = r /\ o.total = Total(Items(r))
        /\ result[r] \notin Refusals
    /\ \A p \in Products :
        stock[p] + Units({x \in orderItems : Receipted(x.orderId)}, p) <= InitialStock[p]

(* A committed purchase, whether the buyer was told of it or not, gets its *)
(* receipt, or its event is in the dead-letter queue or has used up its    *)
(* attempts, whatever happens to the API after the commit: no event is     *)
(* left between checkout, relay and consumer for ever.                     *)
PaidMeansReceipted ==
    \A r \in Requests : (\E o \in orders : o.id = r) ~>
        \/ Receipted(r)
        \/ \E m \in dlq : m.id = r
        \/ outboxRow[r] = "unpublished" /\ attempts[r] = RELAY_MAX_ATTEMPTS
==============================================================================
