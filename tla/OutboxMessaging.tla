--------------------------- MODULE OutboxMessaging ---------------------------
(***************************************************************************)
(* From the outbox row of an order to its receipt: the relay processes,    *)
(* the quorum queue shop.order-placed with its dead-letter queue, and the  *)
(* consumer processes with their inbox.                                    *)
(*                                                                         *)
(* The outbox row of order o is named o, and so is the messageId it is     *)
(* published under.  A republished row is another copy of the message.     *)
(* Relay and consumer processes may die at any point; a consumer may also  *)
(* lose its channel while its handlers go on, until one of them tries to   *)
(* settle its message.  Queue order is not modelled: any ready message may *)
(* be the next one delivered.                                              *)
(***************************************************************************)
EXTENDS Naturals, FiniteSets

CONSTANTS
    Orders,                 \* a set of numbers, in the order of created_at, id
    Foreign,                \* messages of other publishers: [id, order]
    Relays, Consumers,
    RELAY_MAX_ATTEMPTS, RELAY_BATCH_SIZE, OUTBOX_CLEANUP_BATCH,
    PREFETCH, DELIVERY_LIMIT,
    MaxCrashes,             \* bound on the crashes and channel losses of a behaviour
    None                    \* no order: the body does not match the contract

ASSUME MessagingAssumption ==
    /\ Orders \subseteq Nat
    /\ \A f \in Foreign : /\ f = [id |-> f.id, order |-> f.order]
                        /\ f.id \notin Orders /\ f.order \in Orders \cup {None}
    /\ RELAY_MAX_ATTEMPTS \in Nat \ {0}
    /\ RELAY_BATCH_SIZE \in Nat \ {0}
    /\ OUTBOX_CLEANUP_BATCH \in Nat \ {0}
    /\ PREFETCH \in Nat \ {0}
    /\ DELIVERY_LIMIT \in Nat
    /\ MaxCrashes \in Nat
    /\ None \notin Orders

VARIABLES
    outbox,         \* outbox[o] = "none", "unpublished", "published", "old" or "deleted"
    attempts,       \* attempts[o]
    relay,          \* relay[w], the process and its open transaction
    copies,         \* how often row o was handed to the broker
    declared,       \* has a consumer declared the queues and bindings?
    foreignLeft,    \* messages other publishers have not sent yet
    queue, dlq,     \* messages ready in shop.order-placed, messages in shop.dlq
    deliveries,     \* the running handlers
    consumerUp,     \* consumerUp[c], does c have a channel?
    processed,      \* committed message ids of processed_messages
    receipts,       \* committed rows of receipts
    crashes

outboxVars   == <<outbox, attempts>>
brokerVars   == <<copies, declared, foreignLeft, queue, dlq>>
consumerVars == <<deliveries, consumerUp, processed, receipts>>
vars == <<outboxVars, relay, brokerVars, consumerVars, crashes>>

NotRunning == [pc |-> "down", row |-> None, failed |-> {}, left |-> 0]

Init ==
    /\ outbox = [o \in Orders |-> "none"]
    /\ attempts = [o \in Orders |-> 0]
    /\ relay = [w \in Relays |-> NotRunning]
    /\ copies = [o \in Orders |-> 0]
    /\ declared = FALSE
    /\ foreignLeft = Foreign
    /\ queue = {} /\ dlq = {} /\ deliveries = {}
    /\ consumerUp = [c \in Consumers |-> FALSE]
    /\ processed = {} /\ receipts = {}
    /\ crashes = 0

(* The checkout transaction commits the outbox row with its order.         *)
PlaceOrder(o) ==
    /\ outbox[o] = "none"
    /\ outbox' = [outbox EXCEPT ![o] = "unpublished"]
    /\ UNCHANGED <<attempts, relay, brokerVars, consumerVars, crashes>>

-----------------------------------------------------------------------------
(* The relay process                                                       *)

(* Mutant: no FOR UPDATE.                                                  *)
NeverLocked(o) == FALSE

Locked(o) == \E w \in Relays : relay[w].row = o

Selectable(w) ==
    {o \in Orders : /\ outbox[o] = "unpublished"
                    /\ attempts[o] < RELAY_MAX_ATTEMPTS
                    /\ o \notin relay[w].failed
                    /\ ~Locked(o)}

StartRelay(w) ==
    /\ relay[w].pc = "down"
    /\ relay' = [relay EXCEPT ![w].pc = "loop"]
    /\ UNCHANGED <<outboxVars, brokerVars, consumerVars, crashes>>

(* The loop of relay.ts: a cleanup when one is due, then a batch.          *)
Loop(w) ==
    /\ relay[w].pc = "loop"
    /\ \E step \in {"cleanup", "pick"} :
        relay' = [relay EXCEPT ![w] =
                    [pc |-> step, row |-> None, failed |-> {}, left |-> RELAY_BATCH_SIZE]]
    /\ UNCHANGED <<outboxVars, brokerVars, consumerVars, crashes>>

(* Mutant: the cleanup goes on until a full batch was deleted.             *)
CleanupEndless(w) ==
    LET old == {o \in Orders : outbox[o] = "old"} IN
    /\ relay[w].pc = "cleanup"
    /\ \E batch \in SUBSET old :
        /\ \/ batch = old /\ Cardinality(batch) < OUTBOX_CLEANUP_BATCH /\ UNCHANGED relay
           \/ /\ Cardinality(batch) = OUTBOX_CLEANUP_BATCH
              /\ relay' = [relay EXCEPT ![w].pc = "pick"]
        /\ outbox' = [o \in Orders |-> IF o \in batch THEN "deleted" ELSE outbox[o]]
    /\ UNCHANGED <<attempts, brokerVars, consumerVars, crashes>>

(* One DELETE of cleanupOutbox; a short batch is the last one.             *)
Cleanup(w) ==
    LET old == {o \in Orders : outbox[o] = "old"} IN
    /\ relay[w].pc = "cleanup"
    /\ \E batch \in SUBSET old :
        /\ \/ Cardinality(batch) = OUTBOX_CLEANUP_BATCH /\ UNCHANGED relay
           \/ /\ batch = old /\ Cardinality(batch) < OUTBOX_CLEANUP_BATCH
              /\ relay' = [relay EXCEPT ![w].pc = "pick"]
        /\ outbox' = [o \in Orders |-> IF o \in batch THEN "deleted" ELSE outbox[o]]
    /\ UNCHANGED <<attempts, brokerVars, consumerVars, crashes>>

(* Mutant: the loop does not count the rows of a batch.                    *)
PickUnlimited(w) ==
    /\ relay[w].pc = "pick"
    /\ \/ \E o \in Selectable(w) :
            relay' = [relay EXCEPT ![w].pc = "publish", ![w].row = o, ![w].left = @ - 1]
       \/ /\ Selectable(w) = {}
          /\ relay' = [relay EXCEPT ![w].pc = "loop"]
    /\ UNCHANGED <<outboxVars, brokerVars, consumerVars, crashes>>

(* SELECT ... FOR UPDATE SKIP LOCKED LIMIT 1, or the end of the batch.     *)
Pick(w) ==
    /\ relay[w].pc = "pick"
    /\ \/ /\ relay[w].left > 0
          /\ \E o \in Selectable(w) :
                /\ \A q \in Selectable(w) : o <= q
                /\ relay' = [relay EXCEPT ![w].pc = "publish", ![w].row = o, ![w].left = @ - 1]
       \/ /\ relay[w].left = 0 \/ Selectable(w) = {}
          /\ relay' = [relay EXCEPT ![w].pc = "loop"]
    /\ UNCHANGED <<outboxVars, brokerVars, consumerVars, crashes>>

(* Mutant: without "mandatory" the broker drops and confirms.              *)
PublishOptional(w) ==
    LET o == relay[w].row IN
    /\ relay[w].pc = "publish"
    /\ relay' = [relay EXCEPT ![w].pc = "confirmed"]
    /\ \/ /\ declared
          /\ queue' = queue \cup {[id |-> o, order |-> o, copy |-> copies[o] + 1, count |-> 0]}
          /\ copies' = [copies EXCEPT ![o] = @ + 1]
       \/ ~declared /\ UNCHANGED <<queue, copies>>
    /\ UNCHANGED <<outboxVars, declared, foreignLeft, dlq, consumerVars, crashes>>

(* OrderPlacedPublisher.publish: the broker confirms a message it has      *)
(* queued, and returns and confirms a mandatory one it cannot route.       *)
Publish(w) ==
    LET o == relay[w].row IN
    /\ relay[w].pc = "publish"
    /\ \/ /\ declared
          /\ relay' = [relay EXCEPT ![w].pc = "confirmed"]
          /\ queue' = queue \cup {[id |-> o, order |-> o, copy |-> copies[o] + 1, count |-> 0]}
          /\ copies' = [copies EXCEPT ![o] = @ + 1]
       \/ /\ ~declared
          /\ relay' = [relay EXCEPT ![w].pc = "returned"]
          /\ UNCHANGED <<queue, copies>>
    /\ UNCHANGED <<outboxVars, declared, foreignLeft, dlq, consumerVars, crashes>>

(* UPDATE outbox SET published_at, attempts + 1, and COMMIT.               *)
MarkPublished(w) ==
    LET o == relay[w].row IN
    /\ relay[w].pc = "confirmed"
    /\ outbox' = [outbox EXCEPT ![o] = "published"]
    /\ attempts' = [attempts EXCEPT ![o] = @ + 1]
    /\ relay' = [relay EXCEPT ![w].pc = "pick", ![w].row = None]
    /\ UNCHANGED <<brokerVars, consumerVars, crashes>>

(* UnroutableEventError: UPDATE attempts + 1, COMMIT, skip it this batch.  *)
MarkFailed(w) ==
    LET o == relay[w].row IN
    /\ relay[w].pc = "returned"
    /\ attempts' = [attempts EXCEPT ![o] = @ + 1]
    /\ relay' = [relay EXCEPT ![w].pc = "pick", ![w].row = None, ![w].failed = @ \cup {o}]
    /\ UNCHANGED <<outbox, brokerVars, consumerVars, crashes>>

(* Any other error ends the process; so does a kill.  The open transaction *)
(* is rolled back, and the row is free again.                              *)
CrashRelay(w) ==
    /\ relay[w].pc # "down"
    /\ crashes < MaxCrashes
    /\ relay' = [relay EXCEPT ![w] = NotRunning]
    /\ crashes' = crashes + 1
    /\ UNCHANGED <<outboxVars, brokerVars, consumerVars>>

(* Seven days pass since the row was published.                            *)
Age(o) ==
    /\ outbox[o] = "published"
    /\ outbox' = [outbox EXCEPT ![o] = "old"]
    /\ UNCHANGED <<attempts, relay, brokerVars, consumerVars, crashes>>

-----------------------------------------------------------------------------
(* The broker                                                              *)

(* Someone else publishes to the exchange; without a queue it is dropped.  *)
PublishForeign(f) ==
    /\ f \in foreignLeft
    /\ foreignLeft' = foreignLeft \ {f}
    /\ queue' = queue \cup (IF declared
                            THEN {[id |-> f.id, order |-> f.order, copy |-> 0, count |-> 0]}
                            ELSE {})
    /\ UNCHANGED <<outboxVars, relay, copies, declared, dlq, consumerVars, crashes>>

(* The messages that go back to the queue, with their delivery counts, are *)
(* dead-lettered once they have come back more than x-delivery-limit times. *)
Return(messages) ==
    /\ queue' = queue \cup {m \in messages : m.count <= DELIVERY_LIMIT}
    /\ dlq' = dlq \cup {m \in messages : m.count > DELIVERY_LIMIT}

Counted(m) == [m EXCEPT !.count = @ + 1]

-----------------------------------------------------------------------------
(* The consumer process                                                    *)

Handlers(c) == {d \in deliveries : d.consumer = c}

Becomes(d, stage) == deliveries' = (deliveries \ {d}) \cup {[d EXCEPT !.stage = stage]}

(* What ends when d settles its message.  On a closed channel ack and      *)
(* reject throw out of handle, and the unhandled rejection ends the        *)
(* process with all its handlers.                                          *)
Ending(d) == IF d.open THEN {d} ELSE Handlers(d.consumer)

(* startConsumer: declare the topology and subscribe.                      *)
StartConsumer(c) ==
    /\ ~consumerUp[c] /\ Handlers(c) = {}
    /\ consumerUp' = [consumerUp EXCEPT ![c] = TRUE]
    /\ declared' = TRUE
    /\ UNCHANGED <<outboxVars, relay, copies, foreignLeft, queue, dlq, deliveries, processed,
                   receipts, crashes>>

Deliver(c) ==
    /\ consumerUp[c]
    /\ Cardinality({d \in Handlers(c) : d.open}) < PREFETCH
    /\ \E m \in queue :
        /\ queue' = queue \ {m}
        /\ deliveries' = deliveries \cup
                {[msg |-> m, consumer |-> c, stage |-> "received", open |-> TRUE]}
    /\ UNCHANGED <<outboxVars, relay, copies, declared, foreignLeft, dlq, consumerUp, processed,
                   receipts, crashes>>

(* parseMessage throws: reject without requeue.                            *)
RejectPoison(d) ==
    /\ d.stage = "received" /\ d.msg.order = None
    /\ deliveries' = deliveries \ Ending(d)
    /\ dlq' = dlq \cup (IF d.open THEN {d.msg} ELSE {})
    /\ UNCHANGED <<outboxVars, relay, copies, declared, foreignLeft, queue, consumerUp, processed,
                   receipts, crashes>>

(* Mutant: the mark is committed on its own, before the effect.            *)
MarkProcessedAlone(d) ==
    /\ d.stage = "received" /\ d.msg.order # None
    /\ Becomes(d, IF d.msg.id \in processed THEN "applied" ELSE "marked")
    /\ processed' = processed \cup {d.msg.id}
    /\ UNCHANGED <<outboxVars, relay, brokerVars, consumerUp, receipts, crashes>>

(* INSERT INTO processed_messages ON CONFLICT DO NOTHING.  It waits for an *)
(* uncommitted mark of the same message.                                   *)
MarkProcessed(d) ==
    /\ d.stage = "received" /\ d.msg.order # None
    /\ \A e \in deliveries \ {d} :
        ~(e.msg.id = d.msg.id /\ e.stage \in {"marked", "issued", "alreadyApplied"})
    /\ Becomes(d, IF d.msg.id \in processed THEN "applied" ELSE "marked")
    /\ UNCHANGED <<outboxVars, relay, brokerVars, consumerUp, processed, receipts, crashes>>

(* Mutants: no unique index on order_id, no foreign key.                   *)
InsertReceiptAgain(d) ==
    /\ d.stage = "marked"
    /\ outbox[d.msg.order] # "none"
    /\ Becomes(d, "issued")
    /\ UNCHANGED <<outboxVars, relay, brokerVars, consumerUp, processed, receipts, crashes>>

InsertReceiptAnyOrder(d) ==
    /\ d.stage = "marked"
    /\ \A e \in deliveries \ {d} : ~(e.msg.order = d.msg.order /\ e.stage = "issued")
    /\ Becomes(d, IF \E x \in receipts : x.order = d.msg.order THEN "alreadyApplied" ELSE "issued")
    /\ UNCHANGED <<outboxVars, relay, brokerVars, consumerUp, processed, receipts, crashes>>

(* INSERT INTO receipts ON CONFLICT (order_id) DO NOTHING.                 *)
InsertReceipt(d) ==
    /\ d.stage = "marked"
    /\ outbox[d.msg.order] # "none"
    /\ \A e \in deliveries \ {d} : ~(e.msg.order = d.msg.order /\ e.stage = "issued")
    /\ Becomes(d, IF \E x \in receipts : x.order = d.msg.order THEN "alreadyApplied" ELSE "issued")
    /\ UNCHANGED <<outboxVars, relay, brokerVars, consumerUp, processed, receipts, crashes>>

CommitRows(d) ==
    /\ d.stage \in {"issued", "alreadyApplied"}
    /\ processed' = processed \cup {d.msg.id}
    /\ receipts' = receipts \cup (IF d.stage = "issued"
                                  THEN {[order |-> d.msg.order, message |-> d.msg.id]}
                                  ELSE {})

CommitEffect(d) ==
    /\ CommitRows(d)
    /\ Becomes(d, "applied")
    /\ UNCHANGED <<outboxVars, relay, brokerVars, consumerUp, crashes>>

(* reject with requeue: the message goes back while the channel is open,   *)
(* and is no longer the handler's once the channel is lost.                *)
RequeueOf(d) ==
    /\ deliveries' = deliveries \ Ending(d)
    /\ Return(IF d.open THEN {Counted(d.msg)} ELSE {})
    /\ UNCHANGED <<outboxVars, relay, copies, declared, foreignLeft, consumerUp, crashes>>

(* The COMMIT succeeded but its answer was lost: handled as a failure.     *)
CommitUnknown(d) ==
    /\ CommitRows(d)
    /\ RequeueOf(d)

(* applyOrderPlaced throws: rollback, reject with requeue.                 *)
ApplyFails(d) ==
    /\ d.stage \in {"received", "marked", "issued", "alreadyApplied"}
    /\ d.msg.order # None
    /\ RequeueOf(d)
    /\ UNCHANGED <<processed, receipts>>

(* The foreign key of receipts finds no order: the INSERT always fails.    *)
MissingOrder(d) ==
    /\ d.stage = "marked"
    /\ outbox[d.msg.order] = "none"
    /\ RequeueOf(d)
    /\ UNCHANGED <<processed, receipts>>

Ack(d) ==
    /\ d.stage = "applied"
    /\ deliveries' = deliveries \ Ending(d)
    /\ UNCHANGED <<outboxVars, relay, brokerVars, consumerUp, processed, receipts, crashes>>

(* The broker takes back what a lost channel had not settled.  Whether it  *)
(* counts that as a delivery attempt depends on its version.               *)
TakeBack(c) ==
    LET open == {d.msg : d \in {e \in Handlers(c) : e.open}} IN
    \E counted \in BOOLEAN : Return(IF counted THEN {Counted(m) : m \in open} ELSE open)

(* stop() closes the channel, or the connection drops, while handlers run. *)
LoseChannel(c) ==
    /\ consumerUp[c]
    /\ crashes < MaxCrashes
    /\ crashes' = crashes + 1
    /\ consumerUp' = [consumerUp EXCEPT ![c] = FALSE]
    /\ TakeBack(c)
    /\ deliveries' = (deliveries \ Handlers(c)) \cup {[d EXCEPT !.open = FALSE] : d \in Handlers(c)}
    /\ UNCHANGED <<outboxVars, relay, copies, declared, foreignLeft, processed, receipts>>

(* The consumer process dies; its transactions are rolled back.            *)
CrashConsumer(c) ==
    /\ consumerUp[c] \/ Handlers(c) # {}
    /\ crashes < MaxCrashes
    /\ crashes' = crashes + 1
    /\ consumerUp' = [consumerUp EXCEPT ![c] = FALSE]
    /\ TakeBack(c)
    /\ deliveries' = deliveries \ Handlers(c)
    /\ UNCHANGED <<outboxVars, relay, copies, declared, foreignLeft, processed, receipts>>

-----------------------------------------------------------------------------

RelayStep(w) ==
    \/ StartRelay(w) \/ Loop(w) \/ Cleanup(w) \/ Pick(w)
    \/ Publish(w) \/ MarkPublished(w) \/ MarkFailed(w)

HandlerStep(d) ==
    \/ RejectPoison(d) \/ MarkProcessed(d) \/ InsertReceipt(d) \/ MissingOrder(d)
    \/ CommitEffect(d) \/ Ack(d)

HandlerFault(d) == ApplyFails(d) \/ CommitUnknown(d)

Next ==
    \/ \E o \in Orders : PlaceOrder(o) \/ Age(o)
    \/ \E w \in Relays : RelayStep(w) \/ CrashRelay(w)
    \/ \E f \in Foreign : PublishForeign(f)
    \/ \E c \in Consumers : StartConsumer(c) \/ Deliver(c) \/ LoseChannel(c) \/ CrashConsumer(c)
    \/ \E d \in deliveries : HandlerStep(d) \/ HandlerFault(d)

Spec == Init /\ [][Next]_vars

-----------------------------------------------------------------------------
(* Properties                                                              *)

Ids == Orders \cup {f.id : f \in Foreign}

Message == [id : Ids, order : Orders \cup {None}, copy : Nat, count : Nat]

Delivery == [msg : Message, consumer : Consumers, open : BOOLEAN,
             stage : {"received", "marked", "issued", "alreadyApplied", "applied"}]

RelayState == [pc : {"down", "loop", "cleanup", "pick", "publish", "confirmed", "returned"},
               row : Orders \cup {None}, failed : SUBSET Orders, left : 0 .. RELAY_BATCH_SIZE]

(* Every variable holds a value of its kind.                               *)
TypeOK ==
    /\ outbox \in [Orders -> {"none", "unpublished", "published", "old", "deleted"}]
    /\ attempts \in [Orders -> Nat]
    /\ relay \in [Relays -> RelayState]
    /\ copies \in [Orders -> Nat]
    /\ declared \in BOOLEAN
    /\ foreignLeft \subseteq Foreign
    /\ queue \subseteq Message /\ dlq \subseteq Message
    /\ deliveries \subseteq Delivery
    /\ consumerUp \in [Consumers -> BOOLEAN]
    /\ processed \subseteq Ids
    /\ receipts \subseteq [order : Orders, message : Ids]
    /\ crashes \in 0 .. MaxCrashes

Sent(o) == outbox[o] \in {"published", "old", "deleted"}

Receipted(o) == \E x \in receipts : x.order = o

(* The broker has the message of o: ready, unsettled or dead-lettered.     *)
AtBroker(o) ==
    \E m \in queue \cup dlq \cup {d.msg : d \in {e \in deliveries : e.open}} : m.id = o

(* The event of a committed order is never lost: while its row is not      *)
(* marked the relay still has it to publish, and once it is marked the     *)
(* broker has the message until the receipt is committed, whichever        *)
(* process died in between and whatever the cleanup deleted.               *)
NoEventLost == \A o \in Orders : Sent(o) => AtBroker(o) \/ Receipted(o)

(* However often an event is published, delivered or repeated under a new  *)
(* message id, its order has one receipt.                                  *)
OneReceiptPerOrder == \A x, y \in receipts : x.order = y.order => x = y

(* The inbox mark and the effect are one transaction: a marked message     *)
(* has its order's receipt, and a receipt the mark of its message, so a    *)
(* redelivery that is skipped as a duplicate skips nothing that is needed. *)
InboxMatchesReceipts ==
    /\ \A id \in processed :
        \E x \in receipts : x.order = id \/ [id |-> id, order |-> x.order] \in Foreign
    /\ \A x \in receipts : x.message \in processed /\ outbox[x.order] # "none"

(* FOR UPDATE SKIP LOCKED keeps two relays off one row, and a marked row   *)
(* is not selected again: only a crash between the publish and the mark    *)
(* makes a second copy of a message.  A row the broker cannot route is     *)
(* tried at most RELAY_MAX_ATTEMPTS times, and a message that keeps        *)
(* failing comes back at most DELIVERY_LIMIT times.                        *)
RepeatsAreBounded ==
    /\ \A o \in Orders : copies[o] <= 1 + crashes /\ attempts[o] <= RELAY_MAX_ATTEMPTS
    /\ \A m \in queue \cup {d.msg : d \in deliveries} : m.count <= DELIVERY_LIMIT

(* The pipeline issues receipts as the ledger allows: for placed orders,   *)
(* once each.                                                              *)
Ledger == INSTANCE ReceiptLedger WITH
            placed <- {o \in Orders : outbox[o] # "none"},
            issued <- {x.order : x \in receipts}
ImplementsReceiptLedger == Ledger!LedgerSpec

(* README.md: "the quorum queue dead-letters it after 3 deliveries", "with *)
(* delivery_limit after the third delivery".  A message handed to a        *)
(* consumer has come back fewer than DELIVERY_LIMIT times.                 *)
DeadLetteredAfterThirdDelivery == \A d \in deliveries : d.msg.count < DELIVERY_LIMIT
=============================================================================
