------------------------ MODULE OutboxMessagingProofs ------------------------
(***************************************************************************)
(* Proofs about the outbox, the broker and the consumers, for any orders,  *)
(* messages of other publishers, relays, consumers, limits and crashes.    *)
(***************************************************************************)
EXTENDS OutboxMessaging, FiniteSetTheorems, TLAPS

Stages == {"received", "marked", "issued", "alreadyApplied", "applied"}

-----------------------------------------------------------------------------
(* Types *)

(* A handler that goes to a stage, and a message that is counted, stay     *)
(* what they are.                                                          *)
LEMMA StageTyped ==
    ASSUME NEW d \in Delivery, NEW stage \in Stages
    PROVE  /\ [d EXCEPT !.stage = stage] \in Delivery
           /\ [d EXCEPT !.stage = stage].stage = stage
           /\ [d EXCEPT !.stage = stage].msg = d.msg
           /\ [d EXCEPT !.stage = stage].open = d.open
           /\ [d EXCEPT !.stage = stage].consumer = d.consumer
<1>1. [d EXCEPT !.stage = stage] \in Delivery
    BY Zenon DEF Delivery, Stages
<1> QED BY <1>1 DEF Delivery

LEMMA ClosedTyped ==
    ASSUME NEW d \in Delivery
    PROVE  /\ [d EXCEPT !.open = FALSE] \in Delivery
           /\ [d EXCEPT !.open = FALSE].open = FALSE
           /\ [d EXCEPT !.open = FALSE].msg = d.msg
           /\ [d EXCEPT !.open = FALSE].stage = d.stage
           /\ [d EXCEPT !.open = FALSE].consumer = d.consumer
<1>1. [d EXCEPT !.open = FALSE] \in Delivery
    BY Zenon DEF Delivery
<1> QED BY <1>1 DEF Delivery

LEMMA CountedTyped ==
    ASSUME NEW m \in Message
    PROVE  /\ Counted(m) \in Message /\ Counted(m).id = m.id /\ Counted(m).order = m.order
           /\ Counted(m).copy = m.copy
<1>1. m.count + 1 \in Nat
    BY DEF Message
<1>2. ASSUME NEW n \in Nat PROVE [m EXCEPT !.count = n] \in Message
    BY <1>2, Zenon DEF Message
<1> QED BY <1>1, <1>2 DEF Counted, Message

(* What the relay processes do to the rows and to themselves.              *)
RelayTypes ==
    /\ outbox \in [Orders -> {"none", "unpublished", "published", "old", "deleted"}]
    /\ attempts \in [Orders -> Nat]
    /\ relay \in [Relays -> RelayState]
    /\ copies \in [Orders -> Nat]

BrokerTypes ==
    /\ declared \in BOOLEAN
    /\ foreignLeft \subseteq Foreign
    /\ queue \subseteq Message /\ dlq \subseteq Message
    /\ deliveries \subseteq Delivery
    /\ consumerUp \in [Consumers -> BOOLEAN]
    /\ processed \subseteq Ids
    /\ receipts \subseteq [order : Orders, message : Ids]

LEMMA TypeParts == TypeOK <=> RelayTypes /\ BrokerTypes /\ crashes \in 0 .. MaxCrashes
<1> QED BY DEF TypeOK, RelayTypes, BrokerTypes

(***************************************************************************)
(* The relay side: a relay has a row exactly between its SELECT and its    *)
(* UPDATE, the row is unpublished and has attempts left, and no other      *)
(* relay has it.                                                           *)
(***************************************************************************)
RowsHeld ==
    /\ \A w \in Relays :
        /\ relay[w].row # None <=> relay[w].pc \in {"publish", "confirmed", "returned"}
        /\ relay[w].row # None => /\ relay[w].row \in Orders
                                  /\ outbox[relay[w].row] = "unpublished"
                                  /\ attempts[relay[w].row] < RELAY_MAX_ATTEMPTS
    /\ \A v, w \in Relays : relay[v].row = relay[w].row /\ relay[v].row # None => v = w

(* The broker has confirmed o and the relay has not marked it yet.         *)
Confirmed(o) == \E w \in Relays : relay[w].pc = "confirmed" /\ relay[w].row = o

(* The copy of o that is marked, or about to be.                           *)
Marked(o) == IF Sent(o) \/ Confirmed(o) THEN 1 ELSE 0

(* Only a crash leaves a published copy without a mark.                    *)
CopiesCounted ==
    \A o \in Orders :
        /\ attempts[o] <= RELAY_MAX_ATTEMPTS
        /\ copies[o] <= crashes + Marked(o)

RelayInv == RelayTypes /\ crashes \in 0 .. MaxCrashes /\ RowsHeld /\ CopiesCounted

LEMMA RelayInit == Init => RelayInv
<1> SUFFICES ASSUME Init PROVE RelayInv
    OBVIOUS
<1> USE MessagingAssumption DEF Init, NotRunning
<1>1. RelayTypes /\ crashes \in 0 .. MaxCrashes
    BY DEF RelayTypes, RelayState
<1>2. RowsHeld
    BY DEF RowsHeld
<1>3. CopiesCounted
    BY DEF CopiesCounted, Marked, Sent, Confirmed
<1> QED BY <1>1, <1>2, <1>3 DEF RelayInv

(* A relay that goes to a place, with or without a row, keeps its type.    *)
Places == {"down", "loop", "cleanup", "pick", "publish", "confirmed", "returned"}

LEMMA RelayGoes ==
    ASSUME NEW r \in RelayState, NEW pc \in Places
    PROVE  /\ [r EXCEPT !.pc = pc] \in RelayState
           /\ [r EXCEPT !.pc = pc].pc = pc /\ [r EXCEPT !.pc = pc].row = r.row
<1>1. [r EXCEPT !.pc = pc] \in RelayState
    BY Zenon DEF RelayState, Places
<1> QED BY <1>1 DEF RelayState

Taking(r, row, left) == [r EXCEPT !.pc = "publish", !.row = row, !.left = left]

LEMMA RelayTakes ==
    ASSUME NEW r \in RelayState, NEW row \in Orders, NEW left \in 0 .. RELAY_BATCH_SIZE
    PROVE  /\ Taking(r, row, left) \in RelayState
           /\ Taking(r, row, left).pc = "publish" /\ Taking(r, row, left).row = row
<1>1. Taking(r, row, left) \in RelayState
    BY Zenon DEF RelayState, Taking
<1> QED BY <1>1 DEF RelayState, Taking

LEMMA RelayDrops ==
    ASSUME NEW r \in RelayState, NEW failed \in SUBSET Orders
    PROVE  /\ [r EXCEPT !.pc = "pick", !.row = None] \in RelayState
           /\ [r EXCEPT !.pc = "pick", !.row = None].pc = "pick"
           /\ [r EXCEPT !.pc = "pick", !.row = None].row = None
           /\ [r EXCEPT !.pc = "pick", !.row = None, !.failed = failed] \in RelayState
           /\ [r EXCEPT !.pc = "pick", !.row = None, !.failed = failed].pc = "pick"
           /\ [r EXCEPT !.pc = "pick", !.row = None, !.failed = failed].row = None
<1>1. /\ [r EXCEPT !.pc = "pick", !.row = None] \in RelayState
      /\ [r EXCEPT !.pc = "pick", !.row = None, !.failed = failed] \in RelayState
    BY Zenon DEF RelayState
<1> QED BY <1>1 DEF RelayState

(* A relay that neither publishes nor marks, and ends without a row.       *)
LEMMA RelayWithoutRow ==
    ASSUME RelayInv, NEW w \in Relays, NEW r \in RelayState,
           relay' = [relay EXCEPT ![w] = r], r.row = None,
           r.pc \in {"down", "loop", "cleanup", "pick"},
           \A o \in Orders : outbox'[o] = outbox[o] \/ {outbox[o], outbox'[o]} = {"old", "deleted"},
           outbox' \in [Orders -> {"none", "unpublished", "published", "old", "deleted"}],
           UNCHANGED <<attempts, copies>>,
           \/ relay[w].pc # "confirmed" /\ UNCHANGED crashes
           \/ crashes' = crashes + 1 /\ crashes' \in 0 .. MaxCrashes
    PROVE  RelayInv'
<1> USE DEF RelayInv
<1>1. RelayTypes'
    BY DEF RelayTypes
<1>2. RowsHeld'
    BY DEF RowsHeld, RelayTypes
<1>3. CopiesCounted'
    <2>1. ASSUME NEW o \in Orders PROVE copies[o] <= crashes' + Marked(o)'
        <3>0. /\ copies[o] \in Nat /\ crashes \in Nat /\ Marked(o) \in {0, 1} /\ Marked(o)' \in {0, 1}
              /\ copies[o] <= crashes + Marked(o)
            BY DEF RelayTypes, Marked, CopiesCounted
        <3>1. Sent(o)' <=> Sent(o)
            BY DEF Sent, RelayTypes
        <3>2. CASE relay[w].pc # "confirmed" /\ UNCHANGED crashes
            <4>1. Confirmed(o) => Confirmed(o)'
                BY <3>2 DEF Confirmed, RelayTypes
            <4>2. Marked(o) <= Marked(o)'
                BY <3>1, <4>1 DEF Marked
            <4> QED BY <3>0, <3>2, <4>2
        <3>3. CASE crashes' = crashes + 1
            BY <3>0, <3>3
        <3> QED BY <3>2, <3>3
    <2> QED BY <2>1 DEF CopiesCounted
<1> QED BY <1>1, <1>2, <1>3

(* Starting, looping, cleaning up, ending a batch and dying.               *)
LEMMA RelayIdles ==
    ASSUME RelayInv, NEW w \in Relays,
           \/ StartRelay(w) \/ Loop(w) \/ Cleanup(w) \/ CrashRelay(w)
           \/ Pick(w) /\ relay' = [relay EXCEPT ![w].pc = "loop"]
    PROVE  RelayInv'
<1> USE DEF RelayInv
<1>1. relay[w] \in RelayState
    BY DEF RelayTypes
<1>2. relay[w].pc \in {"down", "loop", "cleanup", "pick"} => relay[w].row = None
    BY DEF RowsHeld
<1>3. CASE StartRelay(w) \/ (Pick(w) /\ relay' = [relay EXCEPT ![w].pc = "loop"])
    <2> DEFINE r == [relay[w] EXCEPT !.pc = "loop"]
    <2>1. /\ relay' = [relay EXCEPT ![w] = r] /\ relay[w].pc \in {"down", "pick"}
          /\ UNCHANGED <<outbox, attempts, copies, crashes>>
        BY <1>3 DEF StartRelay, Pick, RelayTypes, outboxVars, brokerVars
    <2>2. r \in RelayState /\ r.pc = "loop" /\ r.row = None
        BY <1>1, <1>2, <2>1, RelayGoes DEF Places
    <2> HIDE DEF r
    <2> QED BY <2>1, <2>2, RelayWithoutRow DEF RelayTypes
<1>4. CASE Loop(w)
    <2>1. PICK step \in {"cleanup", "pick"} :
            relay' = [relay EXCEPT ![w] =
                        [pc |-> step, row |-> None, failed |-> {}, left |-> RELAY_BATCH_SIZE]]
        BY <1>4 DEF Loop
    <2> DEFINE r == [pc |-> step, row |-> None, failed |-> {}, left |-> RELAY_BATCH_SIZE]
    <2>2. r \in RelayState /\ r.pc = step /\ r.row = None
        BY MessagingAssumption DEF RelayState
    <2>3. relay[w].pc = "loop" /\ UNCHANGED <<outbox, attempts, copies, crashes>>
        BY <1>4 DEF Loop, outboxVars, brokerVars
    <2> HIDE DEF r
    <2> QED BY <2>1, <2>2, <2>3, RelayWithoutRow DEF RelayTypes, r
<1>5. CASE Cleanup(w)
    <2>1. PICK r \in {relay[w], [relay[w] EXCEPT !.pc = "pick"]} :
            relay' = [relay EXCEPT ![w] = r]
        BY <1>5 DEF Cleanup, RelayTypes
    <2>2. relay[w].pc = "cleanup" /\ UNCHANGED <<attempts, copies, crashes>>
        BY <1>5 DEF Cleanup, brokerVars
    <2>3. r \in RelayState /\ r.pc \in {"cleanup", "pick"} /\ r.row = None
        <3>1. /\ [relay[w] EXCEPT !.pc = "pick"] \in RelayState
              /\ [relay[w] EXCEPT !.pc = "pick"].pc = "pick"
              /\ [relay[w] EXCEPT !.pc = "pick"].row = relay[w].row
            BY <1>1, RelayGoes, Zenon DEF Places
        <3> QED BY <1>1, <1>2, <2>1, <2>2, <3>1, Zenon
    <2>4. /\ outbox' \in [Orders -> {"none", "unpublished", "published", "old", "deleted"}]
          /\ \A o \in Orders : outbox'[o] = outbox[o] \/ {outbox[o], outbox'[o]} = {"old", "deleted"}
        BY <1>5 DEF Cleanup, RelayTypes
    <2> QED BY <2>1, <2>2, <2>3, <2>4, RelayWithoutRow
<1>6. CASE CrashRelay(w)
    <2>1. NotRunning \in RelayState /\ NotRunning.pc = "down" /\ NotRunning.row = None
        BY MessagingAssumption DEF NotRunning, RelayState
    <2>2. /\ relay' = [relay EXCEPT ![w] = NotRunning]
          /\ crashes' = crashes + 1 /\ crashes' \in 0 .. MaxCrashes
          /\ UNCHANGED <<outbox, attempts, copies>>
        BY <1>6, MessagingAssumption DEF CrashRelay, outboxVars, brokerVars
    <2> QED BY <2>1, <2>2, RelayWithoutRow DEF RelayTypes
<1> QED BY <1>3, <1>4, <1>5, <1>6

(* FOR UPDATE SKIP LOCKED: the row selected is no other relay's.           *)
LEMMA RelaySelects ==
    ASSUME RelayInv, NEW w \in Relays, Pick(w), relay' # [relay EXCEPT ![w].pc = "loop"]
    PROVE  RelayInv'
<1> USE DEF RelayInv
<1>1. PICK o \in Selectable(w) :
        /\ relay[w].left > 0
        /\ relay' = [relay EXCEPT ![w].pc = "publish", ![w].row = o, ![w].left = @ - 1]
    BY DEF Pick
<1>2. /\ relay[w].pc = "pick" /\ UNCHANGED <<outbox, attempts, copies, crashes>>
    BY DEF Pick, outboxVars, brokerVars
<1>3. /\ o \in Orders /\ outbox[o] = "unpublished" /\ attempts[o] < RELAY_MAX_ATTEMPTS
      /\ \A v \in Relays : relay[v].row # o
    BY DEF Selectable, Locked
<1> DEFINE n == relay[w].left - 1
           r == Taking(relay[w], o, n)
<1>4. relay' = [relay EXCEPT ![w] = r]
    BY <1>1 DEF RelayTypes, RelayState, Taking
<1>5. r \in RelayState /\ r.pc = "publish" /\ r.row = o
    <2>1. relay[w] \in RelayState
        BY DEF RelayTypes
    <2>2. n \in 0 .. RELAY_BATCH_SIZE
        BY <1>1, <2>1, MessagingAssumption DEF RelayState
    <2> HIDE DEF n
    <2> QED BY <1>3, <2>1, <2>2, RelayTakes
<1> HIDE DEF r
<1>6. RelayTypes'
    BY <1>2, <1>4, <1>5 DEF RelayTypes
<1>7. RowsHeld'
    BY <1>2, <1>3, <1>4, <1>5, MessagingAssumption DEF RowsHeld, RelayTypes
<1>8. CopiesCounted'
    <2>1. ASSUME NEW q \in Orders PROVE Marked(q)' = Marked(q)
        BY <1>2, <1>4, <1>5 DEF Marked, Sent, Confirmed, RelayTypes
    <2> QED BY <1>2, <2>1 DEF CopiesCounted
<1> QED BY <1>2, <1>6, <1>7, <1>8

(* The only copy a publish adds is the one about to be marked.             *)
LEMMA RelayPublishes ==
    ASSUME RelayInv, NEW w \in Relays, Publish(w)
    PROVE  RelayInv'
<1> USE DEF RelayInv
<1> DEFINE o == relay[w].row
<1>1. /\ o \in Orders /\ outbox[o] = "unpublished" /\ attempts[o] < RELAY_MAX_ATTEMPTS
      /\ relay[w].pc = "publish" /\ UNCHANGED <<outbox, attempts, crashes>>
    BY DEF Publish, RowsHeld, outboxVars
<1>2. PICK q \in {"confirmed", "returned"} :
        /\ relay' = [relay EXCEPT ![w] = [relay[w] EXCEPT !.pc = q]]
        /\ q = "confirmed" => copies' = [copies EXCEPT ![o] = @ + 1]
        /\ q = "returned" => copies' = copies
    BY DEF Publish, RelayTypes
<1> DEFINE r == [relay[w] EXCEPT !.pc = q]
<1>3. r \in RelayState /\ r.pc = q /\ r.row = o
    <2>1. relay[w] \in RelayState /\ q \in Places
        BY DEF RelayTypes, Places
    <2> QED BY <2>1, RelayGoes, Zenon
<1> HIDE DEF r, o
<1>4. relay' = [relay EXCEPT ![w] = r]
    BY <1>2 DEF r
<1>5. RelayTypes'
    BY <1>1, <1>2, <1>3, <1>4 DEF RelayTypes
<1>6. RowsHeld'
    BY <1>1, <1>3, <1>4, MessagingAssumption DEF RowsHeld, RelayTypes, o
<1>7. CopiesCounted'
    <2>1. ASSUME NEW k \in Orders PROVE copies'[k] <= crashes + Marked(k)'
        <3>1. copies[k] <= crashes + Marked(k) /\ copies[k] \in Nat /\ crashes \in Nat
            BY DEF CopiesCounted, RelayTypes
        <3>2. CASE k = o
            <4>1. ~Sent(k) /\ ~Confirmed(k)
                BY <1>1, <3>2 DEF Sent, Confirmed, RowsHeld, o
            <4>2. Marked(k) = 0
                BY <4>1 DEF Marked
            <4>3. q = "confirmed" => Marked(k)' = 1
                BY <1>3, <1>4, <3>2 DEF Marked, Confirmed, RelayTypes
            <4>4. Marked(k)' \in {0, 1}
                BY DEF Marked
            <4> QED BY <1>1, <1>2, <3>1, <3>2, <4>2, <4>3, <4>4 DEF RelayTypes
        <3>3. CASE k # o
            <4>1. Confirmed(k)' <=> Confirmed(k)
                BY <1>1, <1>3, <1>4, <3>3 DEF Confirmed, RelayTypes
            <4>2. Marked(k)' = Marked(k)
                BY <1>1, <4>1 DEF Marked, Sent
            <4> QED BY <1>2, <3>1, <3>3, <4>2 DEF RelayTypes
        <3> QED BY <3>2, <3>3
    <2> QED BY <1>1, <2>1 DEF CopiesCounted
<1> QED BY <1>1, <1>5, <1>6, <1>7

(* The UPDATE and the COMMIT after a publish.                              *)
LEMMA RelayMarks ==
    ASSUME RelayInv, NEW w \in Relays, MarkPublished(w) \/ MarkFailed(w)
    PROVE  RelayInv'
<1> USE DEF RelayInv
<1> DEFINE o == relay[w].row
<1>1. /\ o \in Orders /\ outbox[o] = "unpublished" /\ attempts[o] < RELAY_MAX_ATTEMPTS
      /\ attempts' = [attempts EXCEPT ![o] = @ + 1]
      /\ UNCHANGED <<copies, crashes>>
    BY DEF MarkPublished, MarkFailed, RowsHeld, brokerVars
<1>2. \/ /\ relay[w].pc = "confirmed" /\ outbox' = [outbox EXCEPT ![o] = "published"]
      \/ relay[w].pc = "returned" /\ outbox' = outbox
    BY DEF MarkPublished, MarkFailed
<1>3. PICK r \in RelayState :
        relay' = [relay EXCEPT ![w] = r] /\ r.pc = "pick" /\ r.row = None
    <2>1. relay[w] \in RelayState
        BY DEF RelayTypes
    <2>2. CASE MarkPublished(w)
        <3> DEFINE r == [relay[w] EXCEPT !.pc = "pick", !.row = None]
        <3>1. relay' = [relay EXCEPT ![w] = r]
            BY <2>2 DEF MarkPublished, RelayTypes
        <3>2. r \in RelayState /\ r.pc = "pick" /\ r.row = None
            BY <2>1, RelayDrops
        <3> QED BY <3>1, <3>2
    <2>3. CASE MarkFailed(w)
        <3> DEFINE f == relay[w].failed \cup {o}
                   r == [relay[w] EXCEPT !.pc = "pick", !.row = None, !.failed = f]
        <3>1. relay' = [relay EXCEPT ![w] = r]
            BY <2>3 DEF MarkFailed, RelayTypes
        <3>2. f \in SUBSET Orders
            BY <1>1, <2>1 DEF RelayState
        <3>3. r \in RelayState /\ r.pc = "pick" /\ r.row = None
            <4> HIDE DEF f
            <4> QED BY <2>1, <3>2, RelayDrops
        <3> QED BY <3>1, <3>3
    <2> QED BY <2>2, <2>3
<1> HIDE DEF o
<1>4. RelayTypes'
    BY <1>1, <1>2, <1>3 DEF RelayTypes
<1>5. RowsHeld'
    <2>1. \A v \in Relays \ {w} : relay[v].row # o
        BY <1>1, MessagingAssumption DEF RowsHeld, o
    <2> QED BY <1>1, <1>2, <1>3, <2>1, MessagingAssumption DEF RowsHeld, RelayTypes
<1>6. CopiesCounted'
    <2>1. ASSUME NEW k \in Orders PROVE copies[k] <= crashes + Marked(k)' /\ attempts'[k] <= RELAY_MAX_ATTEMPTS
        <3>1. /\ copies[k] <= crashes + Marked(k) /\ copies[k] \in Nat /\ crashes \in Nat
              /\ attempts[k] <= RELAY_MAX_ATTEMPTS
            BY DEF CopiesCounted, RelayTypes
        <3>2. CASE k = o
            <4>1. Marked(k) = 1 => Marked(k)' = 1
                BY <1>1, <1>2, <3>2 DEF Marked, Sent, Confirmed, RelayTypes, RowsHeld, o
            <4>2. Marked(k) \in {0, 1} /\ Marked(k)' \in {0, 1}
                BY DEF Marked
            <4> QED BY <1>1, <3>1, <3>2, <4>1, <4>2, MessagingAssumption DEF RelayTypes
        <3>3. CASE k # o
            <4>1. Confirmed(k)' <=> Confirmed(k)
                BY <1>3, <3>3, MessagingAssumption DEF Confirmed, RelayTypes, o
            <4>2. Marked(k)' = Marked(k)
                BY <1>1, <1>2, <3>3, <4>1 DEF Marked, Sent, RelayTypes
            <4> QED BY <1>1, <3>1, <3>3, <4>2 DEF RelayTypes
        <3> QED BY <3>2, <3>3
    <2> QED BY <1>1, <2>1 DEF CopiesCounted
<1> QED BY <1>1, <1>4, <1>5, <1>6

(* Placing, ageing, and everything that happens beside the relays.         *)
LEMMA RelayBystander ==
    ASSUME RelayInv, UNCHANGED <<relay, attempts, copies>>,
           crashes' \in 0 .. MaxCrashes, crashes' >= crashes,
           \/ UNCHANGED outbox
           \/ \E o \in Orders : PlaceOrder(o) \/ Age(o)
    PROVE  RelayInv'
<1> USE DEF RelayInv
<1>1. RelayTypes'
    BY DEF RelayTypes, PlaceOrder, Age
<1>2. RowsHeld'
    BY DEF RowsHeld, RelayTypes, PlaceOrder, Age
<1>3. CopiesCounted'
    <2>1. ASSUME NEW k \in Orders PROVE copies[k] <= crashes' + Marked(k)'
        <3>1. Sent(k) => Sent(k)'
            BY DEF Sent, PlaceOrder, Age, RelayTypes
        <3>2. Confirmed(k)' <=> Confirmed(k)
            BY DEF Confirmed
        <3>3. Marked(k)' >= Marked(k) /\ Marked(k) \in {0, 1} /\ Marked(k)' \in {0, 1}
            BY <3>1, <3>2 DEF Marked
        <3>4. copies[k] <= crashes + Marked(k) /\ copies[k] \in Nat /\ crashes \in Nat
            BY DEF CopiesCounted, RelayTypes
        <3> QED BY <3>3, <3>4
    <2> QED BY <2>1 DEF CopiesCounted
<1> QED BY <1>1, <1>2, <1>3

(***************************************************************************)
(* The consumer side                                                       *)
(***************************************************************************)

(* A message of the outbox is about the order it is named after, any other *)
(* is one of the foreign ones.                                             *)
WellFormed(m) ==
    \/ m.id \in Orders /\ m.order = m.id
    \/ [id |-> m.id, order |-> m.order] \in Foreign

(* What queues and hands on: well formed and not yet over the limit.       *)
Deliverable(m) == m \in Message /\ WellFormed(m) /\ m.count <= DELIVERY_LIMIT

(* What the stage of a handler says about the committed rows.  Its         *)
(* delivery is open exactly while its consumer has a channel.              *)
Handles(d) ==
    /\ d.open <=> consumerUp[d.consumer]
    /\ d.stage # "received" => d.msg.order \in Orders
    /\ d.stage \in {"issued", "alreadyApplied"} => outbox[d.msg.order] # "none"
    /\ d.stage = "issued" => ~Receipted(d.msg.order)
    /\ d.stage = "alreadyApplied" => Receipted(d.msg.order)
    /\ d.stage = "applied" => d.msg.id \in processed

(* The unique index on order_id: one uncommitted receipt of an order.      *)
IssuedOnce ==
    \A d, e \in deliveries :
        d.stage = "issued" /\ e.stage = "issued" /\ d.msg.order = e.msg.order => d = e

Deliverables ==
    /\ \A m \in queue : Deliverable(m)
    /\ \A d \in deliveries : Deliverable(d.msg)

Rows == OneReceiptPerOrder /\ InboxMatchesReceipts

ConsumerInv ==
    /\ BrokerTypes /\ Deliverables
    /\ \A d \in deliveries : Handles(d)
    /\ IssuedOnce /\ Rows

LEMMA ConsumerInit == Init => ConsumerInv
<1> QED BY MessagingAssumption
        DEF Init, ConsumerInv, BrokerTypes, Deliverables, IssuedOnce, Rows,
            OneReceiptPerOrder, InboxMatchesReceipts

(* Rows of the outbox come and go, messages are queued.                    *)
LEMMA ConsumerBystander ==
    ASSUME RelayTypes, RelayTypes', ConsumerInv,
           UNCHANGED <<deliveries, consumerUp, processed, receipts, dlq, declared>>,
           foreignLeft' \subseteq foreignLeft,
           \A m \in queue' \ queue : Deliverable(m),
           \A o \in Orders : outbox[o] # "none" => outbox'[o] # "none"
    PROVE  ConsumerInv'
<1> USE DEF ConsumerInv
<1>1. BrokerTypes'
    BY DEF BrokerTypes, Deliverable
<1>2. Deliverables'
    BY DEF Deliverables, Deliverable, WellFormed
<1>3. \A d \in deliveries : Handles(d)'
    BY DEF Handles, Receipted
<1>4. IssuedOnce'
    BY DEF IssuedOnce
<1>5. Rows'
    BY DEF Rows, OneReceiptPerOrder, InboxMatchesReceipts, BrokerTypes
<1> QED BY <1>1, <1>2, <1>3, <1>4, <1>5

(* A message the relay or someone else publishes can be delivered.         *)
LEMMA PublishedDeliverable ==
    /\ \A o \in Orders, n \in Nat :
        Deliverable([id |-> o, order |-> o, copy |-> n, count |-> 0])
    /\ \A f \in Foreign :
        Deliverable([id |-> f.id, order |-> f.order, copy |-> 0, count |-> 0])
<1> USE MessagingAssumption
<1>1. ASSUME NEW o \in Orders, NEW n \in Nat
      PROVE  Deliverable([id |-> o, order |-> o, copy |-> n, count |-> 0])
    BY DEF Deliverable, Message, WellFormed, Ids
<1>2. ASSUME NEW f \in Foreign
      PROVE  Deliverable([id |-> f.id, order |-> f.order, copy |-> 0, count |-> 0])
    <2>1. f.id \in Ids /\ f.order \in Orders \cup {None} /\ [id |-> f.id, order |-> f.order] \in Foreign
        BY DEF Ids
    <2> QED BY <2>1 DEF Deliverable, Message, WellFormed
<1> QED BY <1>1, <1>2

(* What returns to the queue can be delivered again.                       *)
LEMMA ReturnedDeliverable ==
    ASSUME NEW messages \in SUBSET Message, \A m \in messages : WellFormed(m),
           ConsumerInv, Return(messages)
    PROVE  /\ queue' \subseteq Message /\ dlq' \subseteq Message
           /\ \A m \in queue' : Deliverable(m)
<1> QED BY DEF Return, ConsumerInv, BrokerTypes, Deliverables, Deliverable

LEMMA CountedWellFormed ==
    ASSUME NEW m, Deliverable(m)
    PROVE  Counted(m) \in Message /\ WellFormed(Counted(m))
<1> QED BY CountedTyped DEF Deliverable, WellFormed

(* COMMIT of the inbox mark with its receipt.                              *)
LEMMA CommitRowsKeeps ==
    ASSUME ConsumerInv, NEW d \in deliveries, CommitRows(d), UNCHANGED outbox
    PROVE  /\ processed' \subseteq Ids /\ receipts' \subseteq [order : Orders, message : Ids]
           /\ processed \subseteq processed' /\ receipts \subseteq receipts'
           /\ d.msg.id \in processed' /\ Receipted(d.msg.order)'
           /\ Rows'
           /\ \A e \in deliveries \ {d} : e.stage = "issued" => ~Receipted(e.msg.order)'
<1> USE DEF ConsumerInv
<1>1. /\ d \in Delivery /\ d.msg \in Message /\ d.msg.id \in Ids /\ WellFormed(d.msg)
      /\ d.stage \in {"issued", "alreadyApplied"} /\ d.msg.order \in Orders
      /\ outbox[d.msg.order] # "none"
    BY DEF BrokerTypes, Delivery, Message, Deliverables, Deliverable, Handles, CommitRows
<1>2. processed' = processed \cup {d.msg.id}
    BY DEF CommitRows
<1>3. CASE d.stage = "issued"
    <2> DEFINE x == [order |-> d.msg.order, message |-> d.msg.id]
    <2>1. receipts' = receipts \cup {x} /\ x \in [order : Orders, message : Ids]
        BY <1>1, <1>3 DEF CommitRows
    <2>2. x.order = d.msg.order /\ x.message = d.msg.id
        OBVIOUS
    <2> HIDE DEF x
    <2>3. \A y \in receipts : y.order # d.msg.order
        BY <1>3 DEF Handles, Receipted
    <2>4. OneReceiptPerOrder'
        BY <2>1, <2>2, <2>3 DEF Rows, OneReceiptPerOrder
    <2>5. InboxMatchesReceipts'
        BY <1>1, <1>2, <2>1, <2>2 DEF Rows, InboxMatchesReceipts, WellFormed
    <2>6. ASSUME NEW e \in deliveries \ {d}, e.stage = "issued" PROVE ~Receipted(e.msg.order)'
        <3>1. e.msg.order # d.msg.order
            BY <1>3, <2>6 DEF IssuedOnce
        <3>2. ~Receipted(e.msg.order)
            BY <2>6 DEF Handles
        <3> QED BY <2>1, <2>2, <3>1, <3>2 DEF Receipted
    <2> QED BY <1>1, <1>2, <2>1, <2>2, <2>4, <2>5, <2>6 DEF BrokerTypes, Receipted, Rows
<1>4. CASE d.stage = "alreadyApplied"
    <2>1. receipts' = receipts
        BY <1>4 DEF CommitRows
    <2>2. PICK x \in receipts : x.order = d.msg.order
        BY <1>4 DEF Handles, Receipted
    <2>3. OneReceiptPerOrder'
        BY <2>1 DEF Rows, OneReceiptPerOrder
    <2>4. InboxMatchesReceipts'
        BY <1>1, <1>2, <2>1, <2>2 DEF Rows, InboxMatchesReceipts, WellFormed
    <2> QED BY <1>1, <1>2, <2>1, <2>2, <2>3, <2>4 DEF BrokerTypes, Receipted, Rows, Handles
<1> QED BY <1>1, <1>3, <1>4

(* A handler goes to its next stage.                                       *)
LEMMA ConsumerStage ==
    ASSUME RelayTypes, ConsumerInv, NEW d \in deliveries, NEW stage \in Stages, Becomes(d, stage),
           UNCHANGED <<outbox, declared, foreignLeft, queue, dlq, consumerUp>>,
           processed' \subseteq Ids, receipts' \subseteq [order : Orders, message : Ids],
           processed \subseteq processed', receipts \subseteq receipts', Rows',
           \A e \in deliveries \ {d} : e.stage = "issued" => ~Receipted(e.msg.order)',
           d.msg.order \in Orders,
           stage \in {"issued", "alreadyApplied"} => outbox[d.msg.order] # "none",
           stage = "issued" =>
                /\ ~Receipted(d.msg.order)'
                /\ \A e \in deliveries \ {d} : ~(e.msg.order = d.msg.order /\ e.stage = "issued"),
           stage = "alreadyApplied" => Receipted(d.msg.order)',
           stage = "applied" => d.msg.id \in processed'
    PROVE  ConsumerInv'
<1> USE DEF ConsumerInv
<1> DEFINE n == [d EXCEPT !.stage = stage]
<1>1. d \in Delivery
    BY DEF BrokerTypes
<1>2. /\ n \in Delivery /\ n.stage = stage /\ n.msg = d.msg
      /\ n.open = d.open /\ n.consumer = d.consumer
    BY <1>1, StageTyped
<1>3. deliveries' = (deliveries \ {d}) \cup {n}
    BY DEF Becomes
<1> HIDE DEF n
<1>4. BrokerTypes'
    BY <1>2, <1>3 DEF BrokerTypes
<1>5. Deliverables'
    BY <1>2, <1>3 DEF Deliverables
<1>6. ASSUME NEW e \in deliveries' PROVE Handles(e)'
    <2>1. CASE e = n
        BY <1>2, <2>1 DEF Handles
    <2>2. CASE e \in deliveries \ {d}
        BY <2>2 DEF Handles, Receipted
    <2> QED BY <1>3, <2>1, <2>2
<1>7. IssuedOnce'
    BY <1>2, <1>3 DEF IssuedOnce
<1> QED BY <1>4, <1>5, <1>6, <1>7

(* Handlers end; their messages may return, and rows may be committed.     *)
LEMMA ConsumerEnds ==
    ASSUME ConsumerInv, deliveries' \subseteq deliveries,
           UNCHANGED <<outbox, declared, foreignLeft>>,
           consumerUp' \in [Consumers -> BOOLEAN],
           \A e \in deliveries' : consumerUp'[e.consumer] = consumerUp[e.consumer],
           queue' \subseteq Message, dlq' \subseteq Message,
           \A m \in queue' : Deliverable(m),
           processed' \subseteq Ids, receipts' \subseteq [order : Orders, message : Ids],
           processed \subseteq processed', receipts \subseteq receipts', Rows',
           \A e \in deliveries' : e.stage = "issued" => ~Receipted(e.msg.order)'
    PROVE  ConsumerInv'
<1> USE DEF ConsumerInv
<1>1. BrokerTypes'
    BY DEF BrokerTypes
<1>2. Deliverables'
    BY DEF Deliverables
<1>3. \A e \in deliveries' : Handles(e)'
    BY DEF Handles, Receipted
<1>4. IssuedOnce'
    BY DEF IssuedOnce
<1> QED BY <1>1, <1>2, <1>3, <1>4

(* What the effect of a step on the rows has to satisfy when there is none. *)
LEMMA RowsUntouched ==
    ASSUME ConsumerInv, UNCHANGED <<outbox, processed, receipts>>
    PROVE  /\ processed' \subseteq Ids /\ receipts' \subseteq [order : Orders, message : Ids]
           /\ processed \subseteq processed' /\ receipts \subseteq receipts' /\ Rows'
           /\ \A o : Receipted(o)' <=> Receipted(o)
           /\ \A e \in deliveries : e.stage = "issued" => ~Receipted(e.msg.order)'
<1>1. Rows'
    BY DEF ConsumerInv, Rows, OneReceiptPerOrder, InboxMatchesReceipts
<1>2. \A o : Receipted(o)' <=> Receipted(o)
    BY DEF Receipted
<1> QED BY <1>1, <1>2 DEF ConsumerInv, BrokerTypes, Handles

LEMMA ConsumerHandles ==
    ASSUME RelayTypes, ConsumerInv, NEW d \in deliveries,
           MarkProcessed(d) \/ InsertReceipt(d) \/ CommitEffect(d)
    PROVE  ConsumerInv'
<1>0. /\ d \in Delivery /\ d.msg \in Message /\ d.msg.order \in Orders \cup {None} /\ Handles(d)
    BY DEF ConsumerInv, BrokerTypes, Delivery, Message
<1>1. CASE MarkProcessed(d)
    <2>1. UNCHANGED <<outbox, declared, foreignLeft, queue, dlq, consumerUp, processed, receipts>>
        BY <1>1 DEF MarkProcessed, outboxVars, brokerVars
    <2> DEFINE stage == IF d.msg.id \in processed THEN "applied" ELSE "marked"
    <2>2. stage \in Stages /\ Becomes(d, stage) /\ d.msg.order \in Orders
        BY <1>0, <1>1 DEF MarkProcessed, Stages
    <2>3. stage \in {"applied", "marked"} /\ (stage = "applied" => d.msg.id \in processed)
        OBVIOUS
    <2> HIDE DEF stage
    <2> QED BY <2>1, <2>2, <2>3, RowsUntouched, ConsumerStage
<1>2. CASE InsertReceipt(d)
    <2>1. /\ UNCHANGED <<outbox, declared, foreignLeft, queue, dlq, consumerUp, processed, receipts>>
          /\ outbox[d.msg.order] # "none" /\ d.msg.order \in Orders
          /\ \A e \in deliveries \ {d} : ~(e.msg.order = d.msg.order /\ e.stage = "issued")
        BY <1>0, <1>2 DEF InsertReceipt, outboxVars, brokerVars, Handles
    <2> DEFINE stage == IF \E x \in receipts : x.order = d.msg.order THEN "alreadyApplied" ELSE "issued"
    <2>2. stage \in Stages /\ Becomes(d, stage)
        BY <1>2 DEF InsertReceipt, Stages
    <2>3. /\ stage \in {"alreadyApplied", "issued"}
          /\ stage = "alreadyApplied" <=> Receipted(d.msg.order)
        BY DEF Receipted
    <2> HIDE DEF stage
    <2> QED BY <2>1, <2>2, <2>3, RowsUntouched, ConsumerStage
<1>3. CASE CommitEffect(d)
    <2>1. /\ UNCHANGED <<outbox, declared, foreignLeft, queue, dlq, consumerUp>>
          /\ CommitRows(d) /\ Becomes(d, "applied") /\ "applied" \in Stages
          /\ d.msg.order \in Orders
        BY <1>0, <1>3 DEF CommitEffect, CommitRows, outboxVars, brokerVars, Stages, Handles
    <2> QED BY <2>1, CommitRowsKeeps, ConsumerStage
<1> QED BY <1>1, <1>2, <1>3

(* A handler settles its message: acknowledged, requeued or rejected.  On  *)
(* a closed channel all handlers of its process end with it.               *)
LEMMA ConsumerSettles ==
    ASSUME ConsumerInv, NEW d \in deliveries,
           \/ RejectPoison(d) \/ Ack(d) \/ MissingOrder(d) \/ ApplyFails(d) \/ CommitUnknown(d)
    PROVE  ConsumerInv'
<1>0. /\ d \in Delivery /\ d.msg \in Message /\ Deliverable(d.msg)
      /\ BrokerTypes /\ Deliverables
    BY DEF ConsumerInv, BrokerTypes, Delivery, Deliverables
<1>1. /\ deliveries' = deliveries \ Ending(d) /\ d \in Ending(d)
      /\ UNCHANGED <<outbox, declared, foreignLeft, consumerUp>>
    BY DEF RejectPoison, Ack, MissingOrder, ApplyFails, CommitUnknown, RequeueOf, Ending, Handlers,
           outboxVars, brokerVars
<1>2. /\ queue' \subseteq Message /\ dlq' \subseteq Message
      /\ \A m \in queue' : Deliverable(m)
    <2>1. CASE RejectPoison(d) \/ Ack(d)
        BY <1>0, <2>1 DEF RejectPoison, Ack, brokerVars, BrokerTypes, Deliverables
    <2>2. CASE RequeueOf(d)
        <3>1. Counted(d.msg) \in Message /\ WellFormed(Counted(d.msg))
            BY <1>0, CountedWellFormed
        <3>2. PICK messages \in {{}, {Counted(d.msg)}} : Return(messages)
            BY <2>2 DEF RequeueOf
        <3> QED BY <3>1, <3>2, ReturnedDeliverable
    <2> QED BY <2>1, <2>2 DEF MissingOrder, ApplyFails, CommitUnknown
<1>3. CASE CommitUnknown(d)
    <2>1. CommitRows(d)
        BY <1>3 DEF CommitUnknown
    <2> QED BY <1>0, <1>1, <1>2, <2>1, CommitRowsKeeps, ConsumerEnds DEF BrokerTypes
<1>4. CASE RejectPoison(d) \/ Ack(d) \/ MissingOrder(d) \/ ApplyFails(d)
    <2>1. UNCHANGED <<processed, receipts>>
        BY <1>4 DEF RejectPoison, Ack, MissingOrder, ApplyFails
    <2> QED BY <1>0, <1>1, <1>2, <2>1, RowsUntouched, ConsumerEnds DEF BrokerTypes
<1> QED BY <1>3, <1>4

(* The process of a consumer starts, gets a message, or dies.              *)
LEMMA ConsumerStarts ==
    ASSUME ConsumerInv, NEW c \in Consumers, StartConsumer(c)
    PROVE  ConsumerInv'
<1> USE DEF ConsumerInv
<1>1. /\ consumerUp' = [consumerUp EXCEPT ![c] = TRUE] /\ declared' = TRUE
      /\ UNCHANGED <<outbox, foreignLeft, queue, dlq, deliveries, processed, receipts>>
      /\ \A d \in deliveries : d.consumer # c
    BY DEF StartConsumer, outboxVars, Handlers
<1>2. BrokerTypes'
    BY <1>1 DEF BrokerTypes
<1>3. Deliverables' /\ IssuedOnce'
    BY <1>1 DEF Deliverables, IssuedOnce
<1>4. Rows' /\ \A o : Receipted(o)' <=> Receipted(o)
    BY <1>1, RowsUntouched
<1>5. \A d \in deliveries' : Handles(d)'
    BY <1>1, <1>4 DEF Handles, BrokerTypes, Delivery
<1> QED BY <1>2, <1>3, <1>4, <1>5

LEMMA ConsumerReceives ==
    ASSUME ConsumerInv, NEW c \in Consumers, Deliver(c)
    PROVE  ConsumerInv'
<1> USE DEF ConsumerInv
<1>1. PICK m \in queue :
        /\ queue' = queue \ {m}
        /\ deliveries' = deliveries \cup
                {[msg |-> m, consumer |-> c, stage |-> "received", open |-> TRUE]}
    BY DEF Deliver
<1>2. /\ UNCHANGED <<outbox, declared, foreignLeft, dlq, consumerUp, processed, receipts>>
      /\ consumerUp[c] /\ m \in Message /\ Deliverable(m)
    BY DEF Deliver, outboxVars, BrokerTypes, Deliverables
<1> DEFINE n == [msg |-> m, consumer |-> c, stage |-> "received", open |-> TRUE]
<1>3. n \in Delivery /\ n.msg = m /\ n.consumer = c /\ n.stage = "received" /\ n.open = TRUE
    BY <1>2 DEF Delivery
<1>4. deliveries' = deliveries \cup {n}
    BY <1>1
<1> HIDE DEF n
<1>5. BrokerTypes'
    BY <1>1, <1>2, <1>3, <1>4 DEF BrokerTypes
<1>6. Deliverables' /\ IssuedOnce'
    BY <1>1, <1>2, <1>3, <1>4 DEF Deliverables, IssuedOnce
<1>7. Rows' /\ \A o : Receipted(o)' <=> Receipted(o)
    BY <1>2, RowsUntouched
<1>8. ASSUME NEW e \in deliveries' PROVE Handles(e)'
    <2>1. CASE e = n
        BY <1>2, <1>3, <2>1 DEF Handles
    <2>2. CASE e \in deliveries
        BY <1>2, <1>7, <2>2 DEF Handles
    <2> QED BY <1>4, <2>1, <2>2
<1> QED BY <1>5, <1>6, <1>7, <1>8

(* What a lost channel had not settled is queued again or dead-lettered.   *)
LEMMA TakenBack ==
    ASSUME ConsumerInv, NEW c \in Consumers, TakeBack(c)
    PROVE  /\ queue' \subseteq Message /\ dlq' \subseteq Message
           /\ \A m \in queue' : Deliverable(m)
           /\ queue \cup dlq \subseteq queue' \cup dlq'
           /\ \A d \in Handlers(c) : d.open => \E m \in queue' \cup dlq' : m.id = d.msg.id
<1> DEFINE open == {d.msg : d \in {e \in Handlers(c) : e.open}}
<1>1. \A d \in Handlers(c) : d \in deliveries /\ d.msg \in Message /\ Deliverable(d.msg)
    BY DEF ConsumerInv, BrokerTypes, Delivery, Deliverables, Handlers
<1>2. \A m \in open : m \in Message /\ WellFormed(m) /\ Counted(m) \in Message /\ WellFormed(Counted(m))
    BY <1>1, CountedWellFormed DEF Deliverable
<1>3. PICK counted \in BOOLEAN : Return(IF counted THEN {Counted(m) : m \in open} ELSE open)
    BY DEF TakeBack
<1> DEFINE back == IF counted THEN {Counted(m) : m \in open} ELSE open
<1>4. back \in SUBSET Message /\ \A m \in back : WellFormed(m)
    BY <1>2
<1>5. \A d \in Handlers(c) : d.open => \E m \in back : m.id = d.msg.id
    <2>1. ASSUME NEW d \in Handlers(c), d.open PROVE \E m \in back : m.id = d.msg.id
        <3>1. d.msg \in open /\ Counted(d.msg).id = d.msg.id
            BY <1>1, <2>1, CountedTyped
        <3> QED BY <3>1
    <2> QED BY <2>1
<1>6. Return(back)
    BY <1>3
<1> HIDE DEF back
<1>7. \A m \in back : m.count <= DELIVERY_LIMIT \/ m.count > DELIVERY_LIMIT
    BY <1>4, MessagingAssumption DEF Message
<1>8. back \subseteq queue' \cup dlq' /\ queue \cup dlq \subseteq queue' \cup dlq'
    BY <1>6, <1>7 DEF Return
<1> QED BY <1>4, <1>5, <1>6, <1>8, ReturnedDeliverable

LEMMA ConsumerDies ==
    ASSUME ConsumerInv, NEW c \in Consumers, CrashConsumer(c)
    PROVE  ConsumerInv'
<1>1. /\ TakeBack(c) /\ deliveries' = deliveries \ Handlers(c)
      /\ consumerUp' = [consumerUp EXCEPT ![c] = FALSE]
      /\ UNCHANGED <<outbox, declared, foreignLeft, processed, receipts>>
    BY DEF CrashConsumer, outboxVars
<1>2. /\ consumerUp' \in [Consumers -> BOOLEAN]
      /\ \A e \in deliveries' : consumerUp'[e.consumer] = consumerUp[e.consumer]
    BY <1>1 DEF ConsumerInv, BrokerTypes, Delivery, Handlers
<1> QED BY <1>1, <1>2, TakenBack, RowsUntouched, ConsumerEnds

LEMMA ConsumerLosesChannel ==
    ASSUME ConsumerInv, NEW c \in Consumers, LoseChannel(c)
    PROVE  ConsumerInv'
<1> DEFINE Closed(d) == [d EXCEPT !.open = FALSE]
<1>1. /\ TakeBack(c)
      /\ deliveries' = (deliveries \ Handlers(c)) \cup {Closed(d) : d \in Handlers(c)}
      /\ consumerUp' = [consumerUp EXCEPT ![c] = FALSE]
      /\ UNCHANGED <<outbox, declared, foreignLeft, processed, receipts>>
    BY DEF LoseChannel, outboxVars
<1>2. \A d \in Handlers(c) : /\ d \in deliveries /\ d.consumer = c
                             /\ Closed(d) \in Delivery /\ Closed(d).open = FALSE
                             /\ Closed(d).msg = d.msg /\ Closed(d).stage = d.stage
                             /\ Closed(d).consumer = c
    BY ClosedTyped DEF ConsumerInv, BrokerTypes, Handlers
<1> HIDE DEF Closed
<1>3. BrokerTypes'
    <2>1. deliveries' \subseteq Delivery
        BY <1>1, <1>2 DEF ConsumerInv, BrokerTypes
    <2>2. consumerUp' \in [Consumers -> BOOLEAN]
        BY <1>1 DEF ConsumerInv, BrokerTypes
    <2> QED BY <1>1, <2>1, <2>2, TakenBack DEF ConsumerInv, BrokerTypes
<1>4. Deliverables'
    BY <1>1, <1>2, TakenBack DEF ConsumerInv, Deliverables
<1>5. Rows' /\ \A o : Receipted(o)' <=> Receipted(o)
    BY <1>1, RowsUntouched
<1>6. ASSUME NEW e \in deliveries' PROVE Handles(e)'
    <2>1. CASE e \in deliveries \ Handlers(c)
        BY <1>1, <1>5, <2>1 DEF ConsumerInv, BrokerTypes, Delivery, Handles, Handlers
    <2>2. ASSUME NEW d \in Handlers(c), e = Closed(d) PROVE Handles(e)'
        <3>1. Handles(d) /\ consumerUp'[c] = FALSE
            BY <1>1, <1>2 DEF ConsumerInv, BrokerTypes
        <3> QED BY <1>1, <1>2, <1>5, <2>2, <3>1 DEF Handles
    <2> QED BY <1>1, <2>1, <2>2
<1>7. IssuedOnce'
    <2>1. ASSUME NEW e \in deliveries', e.stage = "issued"
          PROVE  \E d \in deliveries : /\ d.stage = "issued" /\ d.msg.order = e.msg.order
                                       /\ e = IF d \in Handlers(c) THEN Closed(d) ELSE d
        BY <1>1, <1>2, <2>1
    <2>2. ASSUME NEW e \in deliveries', NEW f \in deliveries',
                 e.stage = "issued", f.stage = "issued", e.msg.order = f.msg.order
          PROVE  e = f
        <3>1. PICK d \in deliveries : /\ d.stage = "issued" /\ d.msg.order = e.msg.order
                                      /\ e = IF d \in Handlers(c) THEN Closed(d) ELSE d
            BY <2>1, <2>2
        <3>2. PICK g \in deliveries : /\ g.stage = "issued" /\ g.msg.order = f.msg.order
                                      /\ f = IF g \in Handlers(c) THEN Closed(g) ELSE g
            BY <2>1, <2>2
        <3>3. d = g
            BY <2>2, <3>1, <3>2 DEF ConsumerInv, IssuedOnce
        <3> QED BY <3>1, <3>2, <3>3
    <2> QED BY <2>2 DEF IssuedOnce
<1> QED BY <1>3, <1>4, <1>5, <1>6, <1>7 DEF ConsumerInv

-----------------------------------------------------------------------------
(* Every step *)

MessagingInv == RelayInv /\ ConsumerInv

LEMMA RelaySideNext == RelayInv /\ [Next]_vars => RelayInv'
<1> SUFFICES ASSUME RelayInv, [Next]_vars PROVE RelayInv'
    OBVIOUS
<1>0. crashes \in Nat /\ crashes \in 0 .. MaxCrashes
    BY MessagingAssumption DEF RelayInv
<1>1. ASSUME NEW o \in Orders, PlaceOrder(o) \/ Age(o) PROVE RelayInv'
    BY <1>0, <1>1, RelayBystander DEF PlaceOrder, Age, brokerVars
<1>2. ASSUME NEW w \in Relays, RelayStep(w) \/ CrashRelay(w) PROVE RelayInv'
    BY <1>2, RelayIdles, RelaySelects, RelayPublishes, RelayMarks DEF RelayStep
<1>3. ASSUME UNCHANGED <<relay, attempts, copies, outbox>>,
             \/ UNCHANGED crashes
             \/ crashes < MaxCrashes /\ crashes' = crashes + 1
      PROVE  RelayInv'
    <2>1. crashes' \in 0 .. MaxCrashes /\ crashes' >= crashes
        BY <1>0, <1>3, MessagingAssumption
    <2> QED BY <1>3, <2>1, RelayBystander
<1>4. ASSUME NEW f \in Foreign, PublishForeign(f) PROVE RelayInv'
    BY <1>3, <1>4 DEF PublishForeign, outboxVars
<1>5. ASSUME NEW c \in Consumers, StartConsumer(c) \/ Deliver(c) \/ LoseChannel(c) \/ CrashConsumer(c)
      PROVE  RelayInv'
    BY <1>3, <1>5 DEF StartConsumer, Deliver, LoseChannel, CrashConsumer, outboxVars
<1>6. ASSUME NEW d \in deliveries, HandlerStep(d) \/ HandlerFault(d) PROVE RelayInv'
    BY <1>3, <1>6 DEF HandlerStep, HandlerFault, RejectPoison, MarkProcessed, InsertReceipt,
            MissingOrder, CommitEffect, Ack, ApplyFails, CommitUnknown, RequeueOf, outboxVars, brokerVars
<1>7. CASE UNCHANGED vars
    BY <1>3, <1>7 DEF vars, outboxVars, brokerVars
<1> QED BY <1>1, <1>2, <1>4, <1>5, <1>6, <1>7 DEF Next

(* What the relays, the checkout and other publishers do to the consumers. *)
LEMMA ConsumerSideRelays ==
    ASSUME RelayInv, RelayInv', ConsumerInv,
           \/ \E o \in Orders : PlaceOrder(o) \/ Age(o)
           \/ \E w \in Relays : RelayStep(w) \/ CrashRelay(w)
           \/ \E f \in Foreign : PublishForeign(f)
    PROVE  ConsumerInv'
<1>1. \A o \in Orders : outbox[o] # "none" => outbox'[o] # "none"
    BY DEF PlaceOrder, Age, RelayStep, StartRelay, Loop, Cleanup, Pick, Publish, MarkPublished,
           MarkFailed, CrashRelay, PublishForeign, outboxVars, RelayInv, RelayTypes
<1>2. /\ UNCHANGED <<deliveries, consumerUp, processed, receipts, dlq, declared>>
      /\ foreignLeft' \subseteq foreignLeft
    BY DEF PlaceOrder, Age, RelayStep, StartRelay, Loop, Cleanup, Pick, Publish, MarkPublished,
           MarkFailed, CrashRelay, PublishForeign, brokerVars, consumerVars
<1>3. \A m \in queue' \ queue : Deliverable(m)
    <2>1. CASE \E f \in Foreign : PublishForeign(f)
        BY <2>1, PublishedDeliverable DEF PublishForeign
    <2>2. ASSUME NEW w \in Relays, Publish(w) PROVE \A m \in queue' \ queue : Deliverable(m)
        <3>1. relay[w].row \in Orders /\ copies[relay[w].row] + 1 \in Nat
            BY <2>2 DEF Publish, RelayInv, RelayTypes, RowsHeld
        <3> QED BY <2>2, <3>1, PublishedDeliverable DEF Publish
    <2>3. CASE queue' = queue
        BY <2>3
    <2> QED BY <2>1, <2>2, <2>3 DEF PlaceOrder, Age, RelayStep, StartRelay, Loop, Cleanup, Pick,
                MarkPublished, MarkFailed, CrashRelay, brokerVars
<1> QED BY <1>1, <1>2, <1>3, ConsumerBystander DEF RelayInv

LEMMA MessagingNext == MessagingInv /\ [Next]_vars => MessagingInv'
<1> SUFFICES ASSUME RelayInv, ConsumerInv, [Next]_vars PROVE ConsumerInv'
    BY RelaySideNext DEF MessagingInv
<1>1. RelayInv'
    BY RelaySideNext
<1>2. CASE UNCHANGED vars
    BY <1>1, <1>2, ConsumerBystander DEF vars, outboxVars, brokerVars, consumerVars, RelayInv
<1>3. ASSUME NEW d \in deliveries, HandlerStep(d) \/ HandlerFault(d) PROVE ConsumerInv'
    BY <1>3, ConsumerHandles, ConsumerSettles DEF HandlerStep, HandlerFault, RelayInv
<1> QED BY <1>1, <1>2, <1>3, ConsumerSideRelays, ConsumerStarts, ConsumerReceives,
           ConsumerLosesChannel, ConsumerDies DEF Next

(***************************************************************************)
(* No event is lost                                                        *)
(***************************************************************************)

(* The broker has the message of o through m.                              *)
Holds(m) == m \in queue \cup dlq \/ \E d \in deliveries : d.open /\ d.msg = m

LEMMA AtBrokerIs == \A o : AtBroker(o) <=> \E m : Holds(m) /\ m.id = o
<1> QED BY DEF AtBroker, Holds

(* A message the broker has is kept, under its id, until its receipt is    *)
(* committed: whoever consumes, fails or dies.                             *)
LEMMA BrokerKeeps ==
    ASSUME MessagingInv, [Next]_vars, NEW o \in Orders, AtBroker(o) \/ Receipted(o)
    PROVE  AtBroker(o)' \/ Receipted(o)'
<1> USE DEF MessagingInv
<1>1. CASE Receipted(o)
    <2>1. receipts \subseteq receipts'
        BY DEF Next, PlaceOrder, Age, RelayStep, StartRelay, Loop, Cleanup, Pick, Publish,
               MarkPublished, MarkFailed, CrashRelay, PublishForeign, StartConsumer, Deliver,
               LoseChannel, CrashConsumer, HandlerStep, HandlerFault, RejectPoison, MarkProcessed,
               InsertReceipt, MissingOrder, CommitEffect, CommitRows, Ack, ApplyFails, CommitUnknown,
               consumerVars, vars
    <2> QED BY <1>1, <2>1 DEF Receipted
<1>2. CASE AtBroker(o)
    <2>1. PICK m : Holds(m) /\ m.id = o
        BY <1>2, AtBrokerIs
    <2>2. SUFFICES (\E n : Holds(n)' /\ n.id = o) \/ Receipted(o)'
        BY DEF AtBroker, Holds
    <2>3. ASSUME queue \cup dlq \subseteq queue' \cup dlq', deliveries' = deliveries
          PROVE  \E n : Holds(n)' /\ n.id = o
        BY <2>1, <2>3 DEF Holds
    <2>4. ASSUME \/ \E q \in Orders : PlaceOrder(q) \/ Age(q)
                 \/ \E w \in Relays : RelayStep(w) \/ CrashRelay(w)
                 \/ \E f \in Foreign : PublishForeign(f)
                 \/ \E c \in Consumers : StartConsumer(c)
                 \/ UNCHANGED vars
          PROVE  \E n : Holds(n)' /\ n.id = o
        <3>1. queue \subseteq queue' /\ dlq' = dlq /\ deliveries' = deliveries
            BY <2>4 DEF PlaceOrder, Age, RelayStep, StartRelay, Loop, Cleanup, Pick, Publish,
                MarkPublished, MarkFailed, CrashRelay, PublishForeign, StartConsumer,
                brokerVars, consumerVars, vars
        <3> QED BY <2>3, <3>1
    <2>5. ASSUME NEW c \in Consumers, Deliver(c) PROVE \E n : Holds(n)' /\ n.id = o
        <3>1. PICK q \in queue :
                /\ queue' = queue \ {q} /\ dlq' = dlq
                /\ deliveries' = deliveries \cup
                        {[msg |-> q, consumer |-> c, stage |-> "received", open |-> TRUE]}
            BY <2>5 DEF Deliver
        <3> DEFINE e == [msg |-> q, consumer |-> c, stage |-> "received", open |-> TRUE]
        <3>2. e \in deliveries' /\ e.msg = q /\ e.open
            BY <3>1
        <3>3. Holds(q)'
            BY <3>2 DEF Holds
        <3>4. m # q => Holds(m)'
            BY <2>1, <3>1 DEF Holds
        <3> QED BY <2>1, <3>3, <3>4
    <2>6. ASSUME NEW c \in Consumers, LoseChannel(c) \/ CrashConsumer(c)
          PROVE  \E n : Holds(n)' /\ n.id = o
        <3>1. TakeBack(c) /\ deliveries \ Handlers(c) \subseteq deliveries'
            BY <2>6 DEF LoseChannel, CrashConsumer
        <3>2. /\ queue \cup dlq \subseteq queue' \cup dlq'
              /\ \A d \in Handlers(c) : d.open => \E n \in queue' \cup dlq' : n.id = d.msg.id
            BY <3>1, TakenBack
        <3> QED BY <2>1, <3>1, <3>2 DEF Holds
    <2>7. ASSUME NEW d \in deliveries, MarkProcessed(d) \/ InsertReceipt(d) \/ CommitEffect(d)
          PROVE  \E n : Holds(n)' /\ n.id = o
        <3>1. PICK stage \in Stages : Becomes(d, stage)
            BY <2>7 DEF MarkProcessed, InsertReceipt, CommitEffect, Stages
        <3>2. d \in Delivery
            BY DEF ConsumerInv, BrokerTypes
        <3>3. [d EXCEPT !.stage = stage].open = d.open /\ [d EXCEPT !.stage = stage].msg = d.msg
            BY <3>2, StageTyped
        <3>4. queue' = queue /\ dlq' = dlq
            BY <2>7 DEF MarkProcessed, InsertReceipt, CommitEffect, brokerVars
        <3> QED BY <2>1, <3>1, <3>3, <3>4 DEF Holds, Becomes
    <2>8. ASSUME NEW d \in deliveries,
                 \/ RejectPoison(d) \/ Ack(d) \/ MissingOrder(d) \/ ApplyFails(d) \/ CommitUnknown(d)
          PROVE  (\E n : Holds(n)' /\ n.id = o) \/ Receipted(o)'
        <3>1. deliveries' = deliveries \ Ending(d)
            BY <2>8 DEF RejectPoison, Ack, MissingOrder, ApplyFails, CommitUnknown, RequeueOf
        <3>2. queue \cup dlq \subseteq queue' \cup dlq'
            BY <2>8 DEF RejectPoison, Ack, MissingOrder, ApplyFails, CommitUnknown, RequeueOf, Return,
                        brokerVars
        <3>3. CASE m \in queue \cup dlq
            BY <2>1, <3>2, <3>3 DEF Holds
        <3>4. ASSUME NEW e \in deliveries, e.open, e.msg = m
              PROVE  (\E n : Holds(n)' /\ n.id = o) \/ Receipted(o)'
            <4>1. CASE e \notin Ending(d)
                BY <2>1, <3>1, <3>4, <4>1 DEF Holds
            <4>2. CASE e \in Ending(d)
                <5>1. e = d
                    BY <3>4, <4>2 DEF Ending, Handlers, ConsumerInv, Handles
                <5>2. CASE RejectPoison(d)
                    BY <2>1, <3>4, <5>1, <5>2 DEF RejectPoison, Holds
                <5>3. CASE Ack(d)
                    <6>1. o \in processed /\ receipts' = receipts
                        BY <2>1, <3>4, <5>1, <5>3 DEF Ack, ConsumerInv, Handles
                    <6>2. Receipted(o)
                        BY <6>1, MessagingAssumption
                           DEF ConsumerInv, Rows, InboxMatchesReceipts, Receipted
                    <6> QED BY <6>1, <6>2 DEF Receipted
                <5>4. CASE RequeueOf(d)
                    <6>1. Return({Counted(m)})
                        BY <3>4, <5>1, <5>4 DEF RequeueOf
                    <6>2. m \in Message
                        BY <3>4 DEF ConsumerInv, Deliverables, Deliverable
                    <6>3. Counted(m).id = o /\ Counted(m).count \in Nat
                        BY <2>1, <6>2, CountedTyped DEF Message
                    <6>4. Counted(m) \in queue' \cup dlq'
                        BY <6>1, <6>3, MessagingAssumption DEF Return
                    <6> QED BY <6>3, <6>4 DEF Holds
                <5> QED BY <2>8, <5>2, <5>3, <5>4 DEF MissingOrder, ApplyFails, CommitUnknown
            <4> QED BY <4>1, <4>2
        <3> QED BY <2>1, <3>3, <3>4 DEF Holds
    <2> QED BY <2>4, <2>5, <2>6, <2>7, <2>8 DEF Next, HandlerStep, HandlerFault
<1> QED BY <1>1, <1>2

(* NoEventLost needs the event to be at the broker before it is marked.    *)
EventsKept == \A o \in Orders : Sent(o) \/ Confirmed(o) => AtBroker(o) \/ Receipted(o)

(* What becomes marked was confirmed, what becomes confirmed was queued.   *)
LEMMA ConfirmedIsQueued ==
    ASSUME MessagingInv, [Next]_vars, NEW o \in Orders, Sent(o)' \/ Confirmed(o)'
    PROVE  Sent(o) \/ Confirmed(o) \/ AtBroker(o)'
<1> USE DEF MessagingInv, RelayInv
<1>1. ASSUME NEW w \in Relays, MarkPublished(w) PROVE Sent(o) \/ Confirmed(o)
    BY <1>1 DEF MarkPublished, Sent, Confirmed, RelayTypes, RowsHeld
<1>2. ASSUME NEW w \in Relays, Publish(w) PROVE Sent(o) \/ Confirmed(o) \/ AtBroker(o)'
    <2>1. CASE relay[w].row = o /\ declared
        <3>1. [id |-> o, order |-> o, copy |-> copies[o] + 1, count |-> 0] \in queue'
            BY <1>2, <2>1 DEF Publish
        <3> QED BY <3>1 DEF AtBroker
    <2>2. CASE relay[w].row # o \/ ~declared
        <3>1. relay[w] \in RelayState /\ relay[w].pc = "publish" /\ UNCHANGED outbox
            BY <1>2 DEF Publish, RelayTypes, outboxVars
        <3>2. PICK q \in {"confirmed", "returned"} :
                /\ relay' = [relay EXCEPT ![w] = [relay[w] EXCEPT !.pc = q]]
                /\ q = "confirmed" => declared
            BY <1>2 DEF Publish, RelayTypes
        <3>3. q \in Places
            BY DEF Places
        <3>4. [relay[w] EXCEPT !.pc = q].pc = q /\ [relay[w] EXCEPT !.pc = q].row = relay[w].row
            BY <3>1, <3>3, RelayGoes, Zenon
        <3> QED BY <2>2, <3>1, <3>2, <3>4 DEF Sent, Confirmed, RelayTypes
    <2> QED BY <2>1, <2>2
<1>3. ASSUME NEW w \in Relays, StartRelay(w) \/ Loop(w) \/ Cleanup(w) \/ Pick(w) \/ MarkFailed(w) \/ CrashRelay(w)
      PROVE  Sent(o) \/ Confirmed(o)
    <2>1. Sent(o)' => Sent(o)
        BY <1>3 DEF StartRelay, Loop, Cleanup, Pick, MarkFailed, CrashRelay, Sent, RelayTypes, outboxVars
    <2>2. Confirmed(o)' => Confirmed(o)
        <3>1. \A v \in Relays \ {w} : relay'[v] = relay[v]
            BY <1>3 DEF StartRelay, Loop, Cleanup, Pick, MarkFailed, CrashRelay, RelayTypes
        <3>2. relay'[w].pc # "confirmed"
            <4>1. relay[w] \in RelayState
                BY DEF RelayTypes
            <4>2. CASE StartRelay(w) \/ Loop(w) \/ CrashRelay(w)
                BY <4>1, <4>2 DEF StartRelay, Loop, CrashRelay, RelayTypes, RelayState, NotRunning
            <4>3. CASE Cleanup(w)
                BY <4>1, <4>3 DEF Cleanup, RelayTypes, RelayState
            <4>4. CASE Pick(w)
                <5>1. CASE relay' = [relay EXCEPT ![w].pc = "loop"]
                    BY <4>1, <5>1 DEF RelayTypes, RelayState
                <5>2. ASSUME NEW q \in Orders, NEW n,
                             relay' = [relay EXCEPT ![w] = Taking(relay[w], q, n)]
                      PROVE  relay'[w].pc # "confirmed"
                    BY <4>1, <5>2 DEF Taking, RelayTypes, RelayState
                <5>3. CASE \E q \in Orders : relay' =
                            [relay EXCEPT ![w].pc = "publish", ![w].row = q, ![w].left = @ - 1]
                    BY <4>1, <5>2, <5>3 DEF Taking, RelayTypes, RelayState
                <5> QED BY <4>4, <5>1, <5>3 DEF Pick, Selectable
            <4>5. CASE MarkFailed(w)
                BY <4>1, <4>5 DEF MarkFailed, RelayTypes, RelayState
            <4> QED BY <1>3, <4>2, <4>3, <4>4, <4>5
        <3> QED BY <3>1, <3>2 DEF Confirmed
    <2> QED BY <2>1, <2>2
<1>4. ASSUME NEW q \in Orders, PlaceOrder(q) \/ Age(q) PROVE Sent(o) \/ Confirmed(o)
    BY <1>4 DEF PlaceOrder, Age, Sent, Confirmed, RelayTypes
<1>5. CASE UNCHANGED <<outbox, relay>>
    BY <1>5 DEF Sent, Confirmed
<1> QED BY <1>1, <1>2, <1>3, <1>4, <1>5
    DEF Next, RelayStep, PublishForeign, StartConsumer, Deliver, LoseChannel, CrashConsumer,
        HandlerStep, HandlerFault, RejectPoison, MarkProcessed, InsertReceipt, MissingOrder,
        CommitEffect, Ack, ApplyFails, CommitUnknown, RequeueOf, outboxVars, vars

LEMMA EventsKeptNext == MessagingInv /\ EventsKept /\ [Next]_vars => EventsKept'
<1> SUFFICES ASSUME MessagingInv, EventsKept, [Next]_vars, NEW o \in Orders, Sent(o)' \/ Confirmed(o)'
             PROVE  AtBroker(o)' \/ Receipted(o)'
    BY DEF EventsKept
<1> QED BY ConfirmedIsQueued, BrokerKeeps DEF EventsKept

(***************************************************************************)
(* Theorems                                                                *)
(***************************************************************************)
LEMMA MessagingInvariant == Spec => [](MessagingInv /\ EventsKept)
<1>1. Init => MessagingInv /\ EventsKept
    <2>1. Init => EventsKept
        BY DEF Init, EventsKept, Sent, Confirmed, NotRunning
    <2> QED BY <2>1, RelayInit, ConsumerInit DEF MessagingInv
<1> QED BY <1>1, MessagingNext, EventsKeptNext, PTL DEF Spec

(* No step of the relays (relay.ts, outbox-relay.ts), the broker and the   *)
(* consumers (order-placed.consumer.ts) takes a variable out of its type.  *)
THEOREM MessagingTypeCorrect == Spec => []TypeOK
<1>1. MessagingInv => TypeOK
    BY TypeParts DEF MessagingInv, RelayInv, ConsumerInv
<1> QED BY <1>1, MessagingInvariant, PTL

(* outbox-relay.ts: only a crash between the publish and the mark makes a  *)
(* second copy of a message, a row is tried at most RELAY_MAX_ATTEMPTS     *)
(* times, and a message comes back at most DELIVERY_LIMIT times, however   *)
(* many relays and consumers there are.                                    *)
THEOREM RepeatsStayBounded == Spec => []RepeatsAreBounded
<1>1. MessagingInv => RepeatsAreBounded
    <2> SUFFICES ASSUME MessagingInv PROVE RepeatsAreBounded
        OBVIOUS
    <2>1. ASSUME NEW o \in Orders
          PROVE  copies[o] <= 1 + crashes /\ attempts[o] <= RELAY_MAX_ATTEMPTS
        <3>1. /\ copies[o] <= crashes + Marked(o) /\ attempts[o] <= RELAY_MAX_ATTEMPTS
              /\ copies[o] \in Nat /\ crashes \in Nat /\ Marked(o) \in {0, 1}
            BY MessagingAssumption DEF MessagingInv, RelayInv, RelayTypes, CopiesCounted, Marked
        <3> QED BY <3>1
    <2>2. \A m \in queue \cup {d.msg : d \in deliveries} : m.count <= DELIVERY_LIMIT
        BY DEF MessagingInv, ConsumerInv, Deliverables, Deliverable
    <2> QED BY <2>1, <2>2 DEF RepeatsAreBounded
<1> QED BY <1>1, MessagingInvariant, PTL

(* The event of a committed order is never lost between the outbox, the    *)
(* broker and the consumers, whichever of their processes die and whatever *)
(* the cleanup deletes.                                                    *)
THEOREM EventsAreNotLost == Spec => []NoEventLost
<1>1. EventsKept => NoEventLost
    BY DEF EventsKept, NoEventLost
<1> QED BY <1>1, MessagingInvariant, PTL

(* order-placed.consumer.ts: an order has one receipt, however often its   *)
(* event is published, delivered or repeated under other message ids.      *)
THEOREM OneReceiptEach == Spec => []OneReceiptPerOrder
<1>1. MessagingInv => OneReceiptPerOrder
    BY DEF MessagingInv, ConsumerInv, Rows
<1> QED BY <1>1, MessagingInvariant, PTL

(* The inbox mark and the receipt are committed together, so a delivery    *)
(* skipped as a duplicate skips nothing that is needed.                    *)
THEOREM InboxStaysTrue == Spec => []InboxMatchesReceipts
<1>1. MessagingInv => InboxMatchesReceipts
    BY DEF MessagingInv, ConsumerInv, Rows
<1> QED BY <1>1, MessagingInvariant, PTL

-----------------------------------------------------------------------------
(* Refinement of ReceiptLedger *)

placedBar == {o \in Orders : outbox[o] # "none"}
issuedBar == {x.order : x \in receipts}

LEMMA LedgerStart == Init => Ledger!LedgerInit
<1> QED BY DEF Init, Ledger!LedgerInit

(* PlaceOrder is the ledger's Place, the commit of a receipt its Issue,    *)
(* and every other step leaves the ledger alone.                           *)
LEMMA LedgerStep ==
    ASSUME MessagingInv, [Next]_vars
    PROVE  [Ledger!LedgerNext]_(Ledger!ledgerVars)
<1> USE DEF MessagingInv
<1>1. ASSUME NEW o \in Orders, PlaceOrder(o) PROVE Ledger!Place(o)
    <2>1. placedBar' = placedBar \cup {o} /\ o \notin placedBar
        BY <1>1 DEF PlaceOrder, placedBar, RelayInv, RelayTypes
    <2>2. issuedBar' = issuedBar
        BY <1>1 DEF PlaceOrder, consumerVars, issuedBar
    <2> QED BY <2>1, <2>2 DEF Ledger!Place, placedBar, issuedBar
<1>2. ASSUME placedBar' = placedBar, issuedBar' = issuedBar
      PROVE  UNCHANGED Ledger!ledgerVars
    BY <1>2 DEF Ledger!ledgerVars, placedBar, issuedBar
<1>3. ASSUME NEW d \in deliveries, CommitRows(d), UNCHANGED outbox
      PROVE  [Ledger!LedgerNext]_(Ledger!ledgerVars)
    <2>1. placedBar' = placedBar
        BY <1>3 DEF placedBar
    <2>2. CASE d.stage = "issued"
        <3>1. /\ d.msg.order \in Orders /\ outbox[d.msg.order] # "none"
              /\ ~Receipted(d.msg.order)
            BY <2>2 DEF ConsumerInv, Handles
        <3>2. receipts' = receipts \cup {[order |-> d.msg.order, message |-> d.msg.id]}
            BY <1>3, <2>2 DEF CommitRows
        <3>3. d.msg.order \in placedBar \ issuedBar /\ issuedBar' = issuedBar \cup {d.msg.order}
            <4>1. PICK x : x = [order |-> d.msg.order, message |-> d.msg.id]
                OBVIOUS
            <4>2. x.order = d.msg.order /\ receipts' = receipts \cup {x}
                BY <3>2, <4>1
            <4>3. d.msg.order \in placedBar \ issuedBar
                BY <3>1 DEF placedBar, issuedBar, Receipted
            <4>4. ASSUME NEW r PROVE r \in issuedBar' <=> r \in issuedBar \cup {d.msg.order}
                BY <4>2 DEF issuedBar
            <4> QED BY <4>3, <4>4
        <3>4. Ledger!Issue(d.msg.order)
            BY <2>1, <3>3 DEF Ledger!Issue, placedBar, issuedBar
        <3> QED BY <3>1, <3>4 DEF Ledger!LedgerNext
    <2>3. CASE d.stage = "alreadyApplied"
        <3>1. issuedBar' = issuedBar
            BY <1>3, <2>3 DEF CommitRows, issuedBar
        <3> QED BY <1>2, <2>1, <3>1
    <2> QED BY <1>3, <2>2, <2>3 DEF CommitRows
<1>4. ASSUME NEW w \in Relays, RelayStep(w) \/ CrashRelay(w)
      PROVE  placedBar' = placedBar /\ issuedBar' = issuedBar
    <2>1. \A o \in Orders : outbox'[o] # "none" <=> outbox[o] # "none"
        BY <1>4 DEF RelayStep, StartRelay, Loop, Cleanup, Pick, Publish, MarkPublished, MarkFailed,
                    CrashRelay, RelayInv, RelayTypes, RowsHeld, outboxVars
    <2>2. receipts' = receipts
        BY <1>4 DEF RelayStep, StartRelay, Loop, Cleanup, Pick, Publish, MarkPublished, MarkFailed,
                    CrashRelay, consumerVars
    <2> QED BY <2>1, <2>2 DEF placedBar, issuedBar
<1>5. ASSUME NEW o \in Orders, Age(o) PROVE placedBar' = placedBar /\ issuedBar' = issuedBar
    BY <1>5 DEF Age, consumerVars, placedBar, issuedBar, RelayInv, RelayTypes
<1>6. CASE UNCHANGED <<outbox, receipts>>
    BY <1>2, <1>6 DEF placedBar, issuedBar
<1>7. ASSUME NEW d \in deliveries, HandlerStep(d) \/ HandlerFault(d)
      PROVE  [Ledger!LedgerNext]_(Ledger!ledgerVars)
    BY <1>3, <1>6, <1>7
       DEF HandlerStep, HandlerFault, RejectPoison, MarkProcessed, InsertReceipt, MissingOrder,
           CommitEffect, Ack, ApplyFails, CommitUnknown, RequeueOf, outboxVars
<1>8. ASSUME NEW c \in Consumers, StartConsumer(c) \/ Deliver(c) \/ LoseChannel(c) \/ CrashConsumer(c)
      PROVE  [Ledger!LedgerNext]_(Ledger!ledgerVars)
    BY <1>6, <1>8 DEF StartConsumer, Deliver, LoseChannel, CrashConsumer, outboxVars
<1>9. ASSUME NEW f \in Foreign, PublishForeign(f) PROVE [Ledger!LedgerNext]_(Ledger!ledgerVars)
    BY <1>6, <1>9 DEF PublishForeign, outboxVars, consumerVars
<1>10. CASE UNCHANGED vars
    BY <1>6, <1>10 DEF vars, outboxVars, consumerVars
<1> QED BY <1>1, <1>2, <1>4, <1>5, <1>7, <1>8, <1>9, <1>10 DEF Next, Ledger!LedgerNext

(* Outbox, broker and consumers together implement the receipt ledger: a   *)
(* receipt is issued for a placed order, once, and nothing else they do    *)
(* shows in the ledger.                                                    *)
THEOREM LedgerImplemented == Spec => ImplementsReceiptLedger
<1>1. MessagingInv /\ [Next]_vars => [Ledger!LedgerNext]_(Ledger!ledgerVars)
    BY LedgerStep
<1> QED BY <1>1, LedgerStart, MessagingInvariant, PTL DEF Spec, ImplementsReceiptLedger, Ledger!LedgerSpec
==============================================================================
