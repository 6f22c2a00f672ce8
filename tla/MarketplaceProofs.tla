-------------------------- MODULE MarketplaceProofs --------------------------
(***************************************************************************)
(* Proofs about the purchase from the request to the receipt.  The two     *)
(* halves are proved in CheckoutProofs and OutboxMessagingProofs; here is  *)
(* what holds where they meet.                                             *)
(***************************************************************************)
EXTENDS Marketplace, CheckoutProofs

Pipeline == INSTANCE OutboxMessagingProofs WITH
                Orders <- Requests, Foreign <- {}, outbox <- outboxRow

-----------------------------------------------------------------------------
(* The messaging half                                                      *)

LEMMA PipelineAssumption == Pipeline!MessagingAssumption
    BY MarketAssumption, Zenon DEF Messaging!MessagingAssumption, Pipeline!MessagingAssumption

(* Pipeline and Messaging are two instances of the same definitions.       *)
LEMMA SameInit == Messaging!Init => Pipeline!Init
    BY Zenon DEF Messaging!Init, Pipeline!Init, Messaging!NotRunning, Pipeline!NotRunning

LEMMA SameRelays ==
    ASSUME NEW w
    PROVE  Messaging!RelayStep(w) \/ Messaging!CrashRelay(w)
                => Pipeline!RelayStep(w) \/ Pipeline!CrashRelay(w)
    BY Zenon DEF
        Messaging!RelayStep, Messaging!StartRelay, Messaging!Loop, Messaging!Cleanup,
        Messaging!Pick, Messaging!Publish, Messaging!MarkPublished, Messaging!MarkFailed,
        Messaging!CrashRelay, Messaging!NotRunning, Messaging!Selectable, Messaging!Locked,
        Messaging!outboxVars, Messaging!brokerVars, Messaging!consumerVars, Messaging!Cardinality,
        Pipeline!RelayStep, Pipeline!StartRelay, Pipeline!Loop, Pipeline!Cleanup,
        Pipeline!Pick, Pipeline!Publish, Pipeline!MarkPublished, Pipeline!MarkFailed,
        Pipeline!CrashRelay, Pipeline!NotRunning, Pipeline!Selectable, Pipeline!Locked,
        Pipeline!outboxVars, Pipeline!brokerVars, Pipeline!consumerVars, Pipeline!Cardinality

LEMMA SameConsumers ==
    ASSUME NEW c
    PROVE  Messaging!StartConsumer(c) \/ Messaging!Deliver(c) \/ Messaging!LoseChannel(c)
                \/ Messaging!CrashConsumer(c)
            => Pipeline!StartConsumer(c) \/ Pipeline!Deliver(c) \/ Pipeline!LoseChannel(c)
                \/ Pipeline!CrashConsumer(c)
    BY Zenon DEF
        Messaging!StartConsumer, Messaging!Deliver, Messaging!LoseChannel, Messaging!CrashConsumer,
        Messaging!TakeBack, Messaging!Return, Messaging!Counted, Messaging!Handlers,
        Messaging!outboxVars, Messaging!Cardinality,
        Pipeline!StartConsumer, Pipeline!Deliver, Pipeline!LoseChannel, Pipeline!CrashConsumer,
        Pipeline!TakeBack, Pipeline!Return, Pipeline!Counted, Pipeline!Handlers,
        Pipeline!outboxVars, Pipeline!Cardinality

LEMMA SameHandlers ==
    ASSUME NEW d
    PROVE  Messaging!HandlerStep(d) \/ Messaging!HandlerFault(d)
            => Pipeline!HandlerStep(d) \/ Pipeline!HandlerFault(d)
    BY Zenon DEF
        Messaging!HandlerStep, Messaging!RejectPoison, Messaging!MarkProcessed,
        Messaging!InsertReceipt, Messaging!MissingOrder, Messaging!CommitEffect, Messaging!Ack,
        Messaging!HandlerFault, Messaging!ApplyFails, Messaging!CommitUnknown,
        Messaging!CommitRows, Messaging!RequeueOf, Messaging!Return, Messaging!Counted,
        Messaging!Becomes, Messaging!Ending, Messaging!Handlers,
        Messaging!outboxVars, Messaging!brokerVars,
        Pipeline!HandlerStep, Pipeline!RejectPoison, Pipeline!MarkProcessed,
        Pipeline!InsertReceipt, Pipeline!MissingOrder, Pipeline!CommitEffect, Pipeline!Ack,
        Pipeline!HandlerFault, Pipeline!ApplyFails, Pipeline!CommitUnknown,
        Pipeline!CommitRows, Pipeline!RequeueOf, Pipeline!Return, Pipeline!Counted,
        Pipeline!Becomes, Pipeline!Ending, Pipeline!Handlers,
        Pipeline!outboxVars, Pipeline!brokerVars

LEMMA SameOrders ==
    ASSUME NEW o
    PROVE  Messaging!PlaceOrder(o) \/ Messaging!Age(o) => Pipeline!PlaceOrder(o) \/ Pipeline!Age(o)
    BY Zenon DEF
        Messaging!PlaceOrder, Messaging!Age, Messaging!brokerVars, Messaging!consumerVars,
        Pipeline!PlaceOrder, Pipeline!Age, Pipeline!brokerVars, Pipeline!consumerVars

(* Every step of the composition is one of the pipeline, or does not touch *)
(* it.                                                                     *)
LEMMA PipelineSteps ==
    ASSUME [MarketNext]_marketVars
    PROVE  [Pipeline!Next]_(Pipeline!vars)
<1>1. ASSUME UNCHANGED messagingVars PROVE UNCHANGED Pipeline!vars
    BY <1>1 DEF messagingVars, Pipeline!vars, Pipeline!outboxVars, Pipeline!brokerVars,
                Pipeline!consumerVars
<1>2. CASE UNCHANGED marketVars
    BY <1>1, <1>2 DEF marketVars
<1>3. ASSUME NEW r \in Requests, CommitOrder(r) \/ RequestStep(r) \/ RowAges(r)
      PROVE  [Pipeline!Next]_(Pipeline!vars)
    BY <1>1, <1>3, SameOrders DEF CommitOrder, RequestStep, RowAges, Pipeline!Next
<1>4. ASSUME NEW w \in Relays, RelaySide(w) PROVE Pipeline!Next
    BY <1>4, SameRelays DEF RelaySide, Pipeline!Next
<1>5. ASSUME NEW c \in Consumers, ConsumerSide(c) PROVE Pipeline!Next
    <2>1. CASE \E d \in Messaging!Handlers(c) : Messaging!HandlerStep(d) \/ Messaging!HandlerFault(d)
        <3>1. PICK d \in deliveries : Messaging!HandlerStep(d) \/ Messaging!HandlerFault(d)
            BY <2>1 DEF Messaging!Handlers
        <3> QED BY <3>1, SameHandlers DEF Pipeline!Next
    <2> QED BY <1>5, <2>1, SameConsumers DEF ConsumerSide, Pipeline!Next
<1> QED BY <1>2, <1>3, <1>4, <1>5 DEF MarketNext

(* Only the commit of a checkout makes an outbox row.                      *)
LEMMA RelaysMakeNoRow ==
    ASSUME Pipeline!MessagingInv, NEW w \in Relays,
           Messaging!RelayStep(w) \/ Messaging!CrashRelay(w), NEW r \in Requests, outboxRow'[r] # "none"
    PROVE  outboxRow[r] # "none"
<1>1. /\ outboxRow \in [Requests -> {"none", "unpublished", "published", "old", "deleted"}]
      /\ relay[w].pc = "confirmed" => /\ relay[w].row \in Requests
                                      /\ outboxRow[relay[w].row] = "unpublished"
    BY DEF Pipeline!MessagingInv, Pipeline!RelayInv, Pipeline!RelayTypes, Pipeline!RowsHeld
<1>2. CASE outboxRow' = outboxRow
    BY <1>2
<1>3. CASE Messaging!Cleanup(w)
    BY <1>1, <1>3 DEF Messaging!Cleanup
<1>4. CASE Messaging!MarkPublished(w)
    BY <1>1, <1>4 DEF Messaging!MarkPublished
<1> QED BY <1>2, <1>3, <1>4 DEF
        Messaging!RelayStep, Messaging!CrashRelay, Messaging!StartRelay, Messaging!Loop,
        Messaging!Pick, Messaging!Publish, Messaging!MarkFailed, Messaging!outboxVars

LEMMA ConsumersMakeNoRow ==
    ASSUME NEW c \in Consumers, ConsumerSide(c)
    PROVE  outboxRow' = outboxRow
    BY DEF ConsumerSide, Messaging!StartConsumer, Messaging!Deliver, Messaging!LoseChannel,
        Messaging!CrashConsumer, Messaging!HandlerStep, Messaging!RejectPoison,
        Messaging!MarkProcessed, Messaging!InsertReceipt, Messaging!MissingOrder,
        Messaging!CommitEffect, Messaging!Ack, Messaging!HandlerFault, Messaging!ApplyFails,
        Messaging!CommitUnknown, Messaging!RequeueOf, Messaging!outboxVars

-----------------------------------------------------------------------------
(* The checkout half                                                       *)

LEMMA CheckoutSteps ==
    ASSUME [MarketNext]_marketVars
    PROVE  [Next]_vars
    BY DEF MarketNext, CommitOrder, RequestStep, RowAges, RelaySide, ConsumerSide, marketVars,
           Next, Step

(* Committed orders stay.                                                  *)
LEMMA OrdersStay ==
    ASSUME NEW r \in Requests, Step(r) \/ Fail(r)
    PROVE  OrderIds \subseteq OrderIds'
<1>1. orders \subseteq orders'
    BY DEF Step, Fail, FindExisting, Validate, TakeStock, RefuseLine, DebitUser, RefuseDebit,
           InsertOrder, InsertItems, InsertJob, InsertOutbox, InsertRows, Commit, ReadBack,
           RefreshCards, FindWinner, committed
<1> QED BY <1>1 DEF OrderIds

-----------------------------------------------------------------------------
(* Where they meet: an outbox row is the row of a committed order.         *)
Joined == \A r \in Requests : outboxRow[r] # "none" => r \in OrderIds

MarketInv == OrderInv /\ Pipeline!MessagingInv /\ Joined

LEMMA JoinedNext ==
    ASSUME MarketInv, [MarketNext]_marketVars
    PROVE  Joined'
<1> USE DEF MarketInv
<1>0. outboxRow \in [Requests -> {"none", "unpublished", "published", "old", "deleted"}]
    BY DEF Pipeline!MessagingInv, Pipeline!RelayInv, Pipeline!RelayTypes
<1>1. ASSUME NEW r \in Requests, CommitOrder(r) PROVE Joined'
    <2>1. OrderIds' = OrderIds \cup {r}
        BY <1>1, CommitWhole DEF CommitOrder, OrderInv
    <2>2. \A q \in Requests \ {r} : outboxRow'[q] = outboxRow[q]
        BY <1>0, <1>1 DEF CommitOrder, Messaging!PlaceOrder, messagingVars
    <2> QED BY <2>1, <2>2 DEF Joined
<1>2. ASSUME NEW r \in Requests, RequestStep(r) PROVE Joined'
    BY <1>2, OrdersStay DEF RequestStep, Joined, messagingVars
<1>3. ASSUME UNCHANGED vars, \A q \in Requests : outboxRow'[q] # "none" => outboxRow[q] # "none"
      PROVE  Joined'
    <2>1. OrderIds' = OrderIds
        BY <1>3 DEF OrderIds, vars, committed
    <2> QED BY <1>3, <2>1 DEF Joined
<1>4. ASSUME NEW r \in Requests, RowAges(r) PROVE Joined'
    BY <1>0, <1>3, <1>4 DEF RowAges, Messaging!Age
<1>5. ASSUME NEW w \in Relays, RelaySide(w) PROVE Joined'
    BY <1>3, <1>5, RelaysMakeNoRow DEF RelaySide
<1>6. ASSUME NEW c \in Consumers, ConsumerSide(c) PROVE Joined'
    BY <1>3, <1>6, ConsumersMakeNoRow DEF ConsumerSide
<1>7. CASE UNCHANGED marketVars
    BY <1>3, <1>7 DEF marketVars, messagingVars
<1> QED BY <1>1, <1>2, <1>4, <1>5, <1>6, <1>7 DEF MarketNext

LEMMA MarketInvariant == MarketSpec => []MarketInv
<1>1. MarketInit => MarketInv
    <2> SUFFICES ASSUME MarketInit PROVE MarketInv
        OBVIOUS
    <2>1. OrderInv
        BY OrderInit DEF MarketInit
    <2>2. Pipeline!MessagingInv
        <3>1. Pipeline!Init
            BY SameInit DEF MarketInit
        <3>2. Pipeline!RelayInv
            BY <3>1, Pipeline!RelayInit, PipelineAssumption
        <3>3. Pipeline!ConsumerInv
            BY <3>1, Pipeline!ConsumerInit, PipelineAssumption
        <3> QED BY <3>2, <3>3 DEF Pipeline!MessagingInv
    <2>3. Joined
        BY DEF MarketInit, Messaging!Init, Joined
    <2> QED BY <2>1, <2>2, <2>3 DEF MarketInv
<1>2. MarketInv /\ [MarketNext]_marketVars => MarketInv'
    <2> SUFFICES ASSUME MarketInv, [MarketNext]_marketVars PROVE MarketInv'
        OBVIOUS
    <2>1. OrderInv'
        BY CheckoutSteps, OrderNext DEF MarketInv
    <2>2. Pipeline!MessagingInv'
        BY PipelineSteps, PipelineAssumption, Pipeline!MessagingNext DEF MarketInv
    <2>3. Joined'
        BY JoinedNext
    <2> QED BY <2>1, <2>2, <2>3 DEF MarketInv
<1> QED BY <1>1, <1>2, PTL DEF MarketSpec

LEMMA UnitsGrow ==
    ASSUME NEW items \in SUBSET OrderItem, IsFiniteSet(items), NEW some \in SUBSET items, NEW p
    PROVE  Units(some, p) <= Units(items, p) /\ Units(some, p) \in Nat /\ Units(items, p) \in Nat
<1>1. UnitSet(some, p) \subseteq UnitSet(items, p)
    BY DEF UnitSet
<1>2. IsFiniteSet(UnitSet(items, p)) /\ Units(items, p) \in Nat
    BY UnitsFinite
<1> QED BY <1>1, <1>2, FS_Subset, FS_CardinalityType DEF Units

(* place-order.service.ts to order-placed.consumer.ts: whatever is sent,   *)
(* published or delivered again, a purchase has at most one receipt, and a *)
(* receipt is for goods that were sold and paid.                           *)
THEOREM ReceiptsStayPaid == MarketSpec => []ReceiptsArePaid
<1>1. MarketInv => ReceiptsArePaid
    <2> SUFFICES ASSUME MarketInv PROVE ReceiptsArePaid
        OBVIOUS
    <2>1. /\ OrderIsWhole /\ StockConserved /\ MoneyConserved /\ AnswersAreTrue
          /\ ChargedOncePerKey /\ OrdersFaithful /\ IsFiniteSet(orderItems)
          /\ orderItems \in SUBSET OrderItem /\ stock \in [Products -> Nat]
        BY DEF MarketInv, OrderInv, TxInv, KeyInv, RowInv, TypeOK, RowsOK, GoodsAndMoneyConserved
    <2>2. /\ \A x, y \in receipts : x.order = y.order => x = y
          /\ \A x \in receipts : x.order \in Requests /\ outboxRow[x.order] # "none"
        BY DEF MarketInv, Pipeline!MessagingInv, Pipeline!ConsumerInv, Pipeline!Rows,
               Pipeline!OneReceiptPerOrder, Pipeline!InboxMatchesReceipts, Pipeline!BrokerTypes
    <2>3. \A x \in receipts : x.order \in OrderIds
        BY <2>2 DEF MarketInv, Joined
    <2>4. OneReceiptPerPurchase
        <3> SUFFICES ASSUME NEW x \in receipts, NEW y \in receipts,
                            input[x.order].idempotencyKey # NoKey,
                            input[x.order].idempotencyKey = input[y.order].idempotencyKey,
                            input[x.order].userId = input[y.order].userId
                     PROVE  x = y
            BY DEF OneReceiptPerPurchase
        <3>1. PICK o \in orders, q \in orders : o.id = x.order /\ q.id = y.order
            BY <2>3 DEF OrderIds
        <3>2. o = q
            BY <2>1, <3>1 DEF OrdersFaithful, ChargedOncePerKey
        <3> QED BY <2>2, <3>1, <3>2
    <2>5. ASSUME NEW r \in Requests, Receipted(r)
          PROVE  /\ Items(r) = ItemsOf(r, Lines(r))
                 /\ \E o \in orders : o.id = r /\ o.total = Total(Items(r))
                 /\ result[r] \notin Refusals
        <3>1. r \in OrderIds
            BY <2>3, <2>5 DEF Receipted
        <3>2. PICK o \in orders : o.id = r
            BY <3>1 DEF OrderIds
        <3> QED BY <2>1, <3>1, <3>2 DEF OrderIsWhole, MoneyConserved, AnswersAreTrue
    <2>6. ASSUME NEW p \in Products
          PROVE  stock[p] + Units({x \in orderItems : Receipted(x.orderId)}, p) <= InitialStock[p]
        <3> DEFINE some == {x \in orderItems : Receipted(x.orderId)}
        <3>1. some \in SUBSET orderItems
            OBVIOUS
        <3> HIDE DEF some
        <3>2. /\ Units(some, p) <= Units(orderItems, p)
              /\ Units(some, p) \in Nat /\ Units(orderItems, p) \in Nat
            BY <2>1, <3>1, UnitsGrow
        <3>3. stock[p] + Units(orderItems, p) = InitialStock[p] /\ stock[p] \in Nat
            BY <2>1 DEF StockConserved
        <3>4. stock[p] + Units(some, p) <= InitialStock[p]
            BY <3>2, <3>3
        <3> QED BY <3>4 DEF some
    <2> QED BY <2>4, <2>5, <2>6 DEF ReceiptsArePaid
<1> QED BY <1>1, MarketInvariant, PTL
==============================================================================
