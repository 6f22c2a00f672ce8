--------------------------- MODULE CheckoutProofs ---------------------------
EXTENDS Checkout, FiniteSetTheorems, TLAPS

(***************************************************************************)
(* Sums over items                                                         *)
(***************************************************************************)

(* Every finite set of order items has finitely many cents, so the total a *)
(* checkout computes is a natural number.                                  *)
LEMMA CentsFinite ==
    ASSUME NEW items \in SUBSET OrderItem, IsFiniteSet(items)
    PROVE  IsFiniteSet(CentSet(items)) /\ Total(items) \in Nat
<1> DEFINE f == [x \in items |-> {x} \X (1 .. x.quantity * x.unitPrice)]
           T == {{x} \X (1 .. x.quantity * x.unitPrice) : x \in items}
<1>1. f \in Surjection(items, T)
    BY DEF Surjection
<1>2. IsFiniteSet(T)
    BY <1>1, FS_Surjection, Zenon
<1>3. ASSUME NEW x \in items PROVE IsFiniteSet({x} \X (1 .. x.quantity * x.unitPrice))
    <2>1. x.quantity * x.unitPrice \in Int
        BY DEF OrderItem
    <2>2. IsFiniteSet(1 .. x.quantity * x.unitPrice)
        BY <2>1, FS_Interval
    <2> QED BY <2>2, FS_Singleton, FS_Product
<1>4. IsFiniteSet(UNION T)
    BY <1>2, <1>3, FS_UNION
<1> QED BY <1>4, FS_CardinalityType DEF CentSet, Total

(* A line of an existing product becomes a well-formed order item.         *)
LEMMA ItemTyped ==
    ASSUME TypeOK, NEW r \in Requests, NEW i \in DOMAIN Lines(r), Product(r, i) \in Products
    PROVE  /\ PricedLine(r, Lines(r), i) \in OrderItem
           /\ PricedLine(r, Lines(r), i).line = i
           /\ Number[PricedLine(r, Lines(r), i).productId] \in Products
           /\ Quantity(r, i) \in Nat
           /\ Lines(r) \in Seq(CheckoutLine)
<1>1. Lines(r) \in Seq(CheckoutLine)
    BY CheckoutAssumption DEF TypeOK, Lines
<1>2. Lines(r)[i] \in CheckoutLine /\ i \in Nat
    BY <1>1
<1> QED BY <1>1, <1>2, CatalogueAssumption DEF PricedLine, OrderItem, Product, Quantity, CheckoutLine, Texts

(***************************************************************************)
(* Row versions                                                            *)
(*                                                                         *)
(* The types hold only because no transaction decrements a row below zero, *)
(* and that only because at most one transaction has an uncommitted        *)
(* version of a row.  The three facts are inductive together.              *)
(***************************************************************************)
PricedOK ==
    \A r \in Requests :
        /\ IsFiniteSet(tx[r].priced)
        /\ \A x \in tx[r].priced : Number[x.productId] \in Products

RowInv == TypeOK /\ RowVersionsSafe /\ PricedOK

(* Going to a step or answering keeps the control variables well-formed.   *)
LEMMA ControlStep ==
    ASSUME ControlOK, NEW r \in Requests,
           \/ \E step \in Steps : Goto(r, step)
           \/ \E outcome \in Results, o \in Requests \cup {None} : Reply(r, outcome, o)
    PROVE  ControlOK'
<1>1. CASE \E step \in Steps : Goto(r, step)
    BY <1>1 DEF ControlOK, Goto, answers
<1>2. CASE \E outcome \in Results, o \in Requests \cup {None} : Reply(r, outcome, o)
    <2>1. "answered" \in Steps
        BY DEF Steps
    <2> QED BY <1>2, <2>1 DEF ControlOK, Reply
<1> QED BY <1>1, <1>2

LEMMA RowInit == Init => RowInv
<1> SUFFICES ASSUME Init PROVE RowInv
    OBVIOUS
<1> USE DEF Init, NoTx
<1>1. TypeOK
    BY CheckoutAssumption DEF TypeOK, RowsOK, ControlOK, TxRecord, OrderIds, Steps, TxSteps, Results
<1>2. RowVersionsSafe
    BY CheckoutAssumption DEF RowVersionsSafe, LocksProduct, LocksUser
<1>3. PricedOK
    BY FS_EmptySet DEF PricedOK
<1> QED BY <1>1, <1>2, <1>3 DEF RowInv

(* Steps that leave the rows and the open transactions alone.              *)
LEMMA RowQuiet ==
    ASSUME RowInv, NEW r \in Requests,
           UNCHANGED <<input, committed, tx>>,
           \/ \E step \in Steps : Goto(r, step)
           \/ \E outcome \in Results, o \in Requests \cup {None} : Reply(r, outcome, o)
    PROVE  RowInv'
<1> USE DEF RowInv, committed
<1>1. TypeOK'
    BY ControlStep DEF TypeOK, RowsOK, OrderIds
<1>2. RowVersionsSafe'
    BY DEF RowVersionsSafe, LocksProduct, LocksUser
<1>3. PricedOK'
    BY DEF PricedOK
<1> QED BY <1>1, <1>2, <1>3

(* Steps that end the transaction of r without committing it.              *)
LEMMA RowRollback ==
    ASSUME RowInv, NEW r \in Requests,
           UNCHANGED <<input, committed>>, Rollback(r),
           \/ \E step \in Steps : Goto(r, step)
           \/ \E outcome \in Results, o \in Requests \cup {None} : Reply(r, outcome, o)
    PROVE  RowInv'
<1> USE DEF RowInv, committed
<1>0. /\ tx' \in [Requests -> TxRecord]
      /\ tx'[r] = NoTx
      /\ \A s \in Requests \ {r} : tx'[s] = tx[s]
    BY DEF TypeOK, TxRecord, Rollback, NoTx
<1>1. TypeOK'
    BY <1>0, ControlStep DEF TypeOK, RowsOK, OrderIds
<1>2. RowVersionsSafe'
    BY <1>0 DEF RowVersionsSafe, LocksProduct, LocksUser, NoTx, TypeOK, RowsOK
<1>3. PricedOK'
    <2>1. tx'[r].priced = {}
        BY <1>0 DEF NoTx
    <2> QED BY <1>0, <2>1, FS_EmptySet DEF PricedOK
<1> QED BY <1>1, <1>2, <1>3

LEMMA RowTakeStock ==
    ASSUME RowInv, NEW r \in Requests, TakeStock(r)
    PROVE  RowInv'
<1> USE DEF RowInv
<1>1. PICK i \in DOMAIN Lines(r) :
        /\ Product(r, i) \in Products
        /\ SeenStock(r, Product(r, i)) >= Quantity(r, i)
        /\ \A s \in Requests \ {r} : ~LocksProduct(s, Product(r, i))
        /\ tx' = [tx EXCEPT ![r] = WithLine(r, i)]
    BY DEF TakeStock
<1> DEFINE p == Product(r, i)
           q == Quantity(r, i)
           x == PricedLine(r, Lines(r), i)
<1>2. x \in OrderItem /\ q \in Nat /\ Number[x.productId] \in Products
    BY <1>1, ItemTyped
<1> HIDE DEF p, q, x
<1>3. /\ tx'[r].taken = [tx[r].taken EXCEPT ![p] = @ + q]
      /\ tx'[r].priced = tx[r].priced \cup {x}
      /\ tx'[r].total = tx[r].total
      /\ tx'[r].wrote = tx[r].wrote
      /\ \A s \in Requests \ {r} : tx'[s] = tx[s]
      /\ tx' \in [Requests -> TxRecord]
    <2>0. tx[r] \in TxRecord /\ p \in Products
        BY <1>1 DEF TypeOK, p
    <2>1. tx' = [tx EXCEPT ![r] = [taken |-> [tx[r].taken EXCEPT ![p] = @ + q],
                                   priced |-> tx[r].priced \cup {x},
                                   total |-> tx[r].total, wrote |-> tx[r].wrote]]
        BY <1>1 DEF WithLine, p, q, x
    <2>2. [tx[r].taken EXCEPT ![p] = @ + q] \in [Products -> Nat]
        BY <2>0, <1>2 DEF TxRecord
    <2> QED BY <2>0, <2>1, <2>2, <1>2 DEF TypeOK, TxRecord
<1>4. TypeOK'
    BY <1>3 DEF TypeOK, RowsOK, ControlOK, TakeStock, committed, answers, OrderIds
<1>5. RowVersionsSafe'
    <2>1. tx[r].taken[p] + q <= stock[p]
        BY <1>1, <1>2 DEF SeenStock, TypeOK, RowsOK, TxRecord, p, q
    <2>2. \A s \in Requests \ {r} : tx[s].taken[p] = 0
        BY <1>1 DEF LocksProduct, TypeOK, TxRecord, p
    <2>3. UNCHANGED <<stock, balance, input>>
        BY DEF TakeStock, committed
    <2>4. \A s \in Requests : tx[s].taken \in [Products -> Nat] /\ tx[s].total \in Nat
        BY DEF TypeOK, TxRecord
    <2>5. /\ \A s \in Requests : tx'[s].total = tx[s].total
          /\ \A s \in Requests : \A o \in Products \ {p} : tx'[s].taken[o] = tx[s].taken[o]
          /\ \A s \in Requests \ {r} : tx'[s].taken[p] = 0
          /\ tx'[r].taken[p] = tx[r].taken[p] + q
        BY <1>1, <1>3, <2>2, <2>4 DEF p
    <2>6. ASSUME NEW s \in Requests, NEW o \in Products
          PROVE  /\ tx'[s].taken[o] <= stock[o]
                 /\ tx'[s].taken[o] > 0 => \A z \in Requests \ {s} : ~(tx'[z].taken[o] > 0)
        BY <1>1, <1>2, <2>1, <2>2, <2>4, <2>5 DEF RowVersionsSafe, LocksProduct, TypeOK, RowsOK, p
    <2> QED BY <2>3, <2>5, <2>6 DEF RowVersionsSafe, LocksProduct, LocksUser
<1>6. PricedOK'
    <2>0. IsFiniteSet(tx[r].priced)
        BY DEF PricedOK
    <2>1. IsFiniteSet(tx'[r].priced)
        BY <1>3, <2>0, FS_AddElement
    <2> QED BY <1>2, <1>3, <2>1 DEF PricedOK
<1> QED BY <1>4, <1>5, <1>6

LEMMA RowDebitUser ==
    ASSUME RowInv, NEW r \in Requests, DebitUser(r)
    PROVE  RowInv'
<1> USE DEF RowInv
<1> DEFINE total == Total(tx[r].priced)
<1>1. total \in Nat
    BY CentsFinite DEF TypeOK, TxRecord, PricedOK
<1>2. /\ input[r].userId \in Users
      /\ balance[input[r].userId] >= total
      /\ \A s \in Requests \ {r} : ~LocksUser(s, input[r].userId)
      /\ tx' = [tx EXCEPT ![r].total = total]
      /\ Goto(r, "orders")
      /\ UNCHANGED <<input, committed>>
    BY DEF DebitUser
<1> HIDE DEF total
<1>3. /\ tx'[r].taken = tx[r].taken
      /\ tx'[r].priced = tx[r].priced
      /\ tx'[r].total = total
      /\ \A s \in Requests \ {r} : tx'[s] = tx[s]
      /\ tx' \in [Requests -> TxRecord]
    BY <1>1, <1>2 DEF TypeOK, TxRecord
<1>4. TypeOK'
    <2>1. "orders" \in Steps
        BY DEF Steps, TxSteps
    <2> QED BY <1>2, <1>3, <2>1, ControlStep DEF TypeOK, RowsOK, OrderIds, committed
<1>5. RowVersionsSafe'
    BY <1>1, <1>2, <1>3 DEF RowVersionsSafe, LocksProduct, LocksUser, TypeOK, RowsOK, TxRecord, committed
<1>6. PricedOK'
    BY <1>3 DEF PricedOK
<1> QED BY <1>4, <1>5, <1>6

(* The INSERTs change only which tables r has written.                     *)
LEMMA RowInsert ==
    ASSUME RowInv, NEW r \in Requests, UNCHANGED <<input, committed>>,
           NEW table \in {"orders", "orderItems", "jobs", "outbox"},
           tx' = [tx EXCEPT ![r].wrote = @ \cup {table}],
           NEW step \in Steps, Goto(r, step)
    PROVE  RowInv'
<1> USE DEF RowInv
<1>1. /\ \A s \in Requests : /\ tx'[s].taken = tx[s].taken
                             /\ tx'[s].priced = tx[s].priced
                             /\ tx'[s].total = tx[s].total
      /\ tx' \in [Requests -> TxRecord]
    BY DEF TypeOK, TxRecord
<1>2. TypeOK'
    BY <1>1, ControlStep DEF TypeOK, RowsOK, OrderIds, committed
<1>3. RowVersionsSafe'
    BY <1>1 DEF RowVersionsSafe, LocksProduct, LocksUser, TypeOK, RowsOK, TxRecord, committed
<1>4. PricedOK'
    BY <1>1 DEF PricedOK
<1> QED BY <1>2, <1>3, <1>4

LEMMA RowCommit ==
    ASSUME RowInv, NEW r \in Requests, Commit(r)
    PROVE  RowInv'
<1> USE DEF RowInv
<1> DEFINE u == input[r].userId
<1>1. /\ stock' = [p \in Products |-> stock[p] - tx[r].taken[p]]
      /\ balance' = [balance EXCEPT ![u] = @ - tx[r].total]
      /\ orders' \subseteq orders \cup {OrderRow(r)}
      /\ orderItems' \subseteq orderItems \cup Stored(tx[r].priced)
      /\ Rollback(r)
      /\ Goto(r, "readBack")
      /\ input' = input
    BY DEF Commit
<1> HIDE DEF u
<1>2. /\ tx' \in [Requests -> TxRecord]
      /\ tx'[r] = NoTx
      /\ \A s \in Requests \ {r} : tx'[s] = tx[s]
    BY <1>1 DEF TypeOK, TxRecord, Rollback, NoTx
<1>3. \A s \in Requests : tx[s].taken \in [Products -> Nat] /\ tx[s].total \in Nat
    BY DEF TypeOK, TxRecord
<1>4. stock \in [Products -> Nat] /\ balance \in [Users -> Nat]
    BY DEF TypeOK, RowsOK
<1>5. TypeOK'
    <2>1. stock' \in [Products -> Nat]
        BY <1>1, <1>3, <1>4 DEF RowVersionsSafe
    <2>2. balance' \in [Users -> Nat]
        <3>1. CASE u \notin Users
            BY <1>1, <1>4, <3>1
        <3>2. CASE u \in Users
            <4>1. balance[u] - tx[r].total \in Nat
                BY <1>3, <1>4, <3>2 DEF RowVersionsSafe, u
            <4> QED BY <1>1, <1>4, <3>2, <4>1
        <3> QED BY <3>1, <3>2
    <2>3. OrderIds' \subseteq Requests
        BY <1>1 DEF TypeOK, RowsOK, OrderIds, OrderRow
    <2>4. orderItems' \subseteq OrderItem
        <3>1. tx[r].priced \subseteq OrderItem
            BY DEF TypeOK, TxRecord
        <3>2. Stored(tx[r].priced) \subseteq OrderItem
            BY <3>1, CatalogueAssumption DEF PricedOK, Stored, OrderItem, Texts
        <3> QED BY <1>1, <3>2 DEF TypeOK, RowsOK
    <2>5. ControlOK'
        <3>1. "readBack" \in Steps
            BY DEF Steps
        <3> QED BY <1>1, <3>1, ControlStep DEF TypeOK
    <2> QED BY <1>1, <1>2, <2>1, <2>2, <2>3, <2>4, <2>5 DEF TypeOK, RowsOK
<1>6. RowVersionsSafe'
    <2>1. ASSUME NEW s \in Requests, NEW p \in Products
          PROVE  /\ tx'[s].taken[p] <= stock'[p]
                 /\ tx'[s].taken[p] > 0 => \A z \in Requests \ {s} : ~(tx'[z].taken[p] > 0)
        <3>1. stock'[p] = stock[p] - tx[r].taken[p] /\ stock'[p] >= 0
            BY <1>1, <1>5, <1>3, <1>4 DEF RowVersionsSafe
        <3>2. tx'[r].taken[p] = 0
            BY <1>2 DEF NoTx
        <3>3. CASE s = r
            BY <3>1, <3>2, <3>3
        <3>4. CASE s # r
            BY <1>2, <1>3, <1>4, <3>1, <3>2, <3>4 DEF RowVersionsSafe, LocksProduct
        <3> QED BY <3>3, <3>4
    <2>2. ASSUME NEW s \in Requests, tx'[s].total > 0
          PROVE  /\ input[s].userId \in Users /\ tx'[s].total <= balance'[input[s].userId]
                 /\ \A z \in Requests \ {s} : ~(input[z].userId = input[s].userId /\ tx'[z].total > 0)
        <3>1. s # r /\ tx'[r].total = 0
            BY <1>2, <2>2 DEF NoTx
        <3>2. tx'[s] = tx[s] /\ tx[s].total > 0
            BY <1>2, <2>2, <3>1
        <3>3. input[s].userId \in Users /\ tx[s].total <= balance[input[s].userId]
            BY <3>2 DEF RowVersionsSafe
        <3>4. \A z \in Requests \ {s} : ~(input[z].userId = input[s].userId /\ tx[z].total > 0)
            BY <3>2 DEF RowVersionsSafe, LocksUser
        <3>5. balance'[input[s].userId] = balance[input[s].userId]
            <4>1. CASE input[s].userId = u
                <5>1. tx[r].total = 0
                    BY <1>3, <3>1, <3>4, <4>1 DEF u
                <5> QED BY <1>1, <1>4, <3>3, <4>1, <5>1
            <4>2. CASE input[s].userId # u
                BY <1>1, <1>4, <3>3, <4>2
            <4> QED BY <4>1, <4>2
        <3>6. \A z \in Requests : tx'[z].total > 0 => tx[z].total > 0
            BY <1>2, <3>1
        <3> QED BY <3>2, <3>3, <3>4, <3>5, <3>6
    <2> QED BY <1>1, <2>1, <2>2 DEF RowVersionsSafe, LocksProduct, LocksUser
<1>7. PricedOK'
    <2>1. tx'[r].priced = {}
        BY <1>2 DEF NoTx
    <2> QED BY <1>2, <2>1, FS_EmptySet DEF PricedOK
<1> QED BY <1>5, <1>6, <1>7

LEMMA RowNext ==
    ASSUME RowInv, [Next]_vars
    PROVE  RowInv'
<1> USE DEF Results, Refusals
<1>1. ASSUME NEW r \in Requests, Step(r) PROVE RowInv'
    <2>0. /\ {"validate", "lines", "findWinner", "refresh", "orderItems", "jobs", "outbox", "commit"} \subseteq Steps
          /\ OrderIds \subseteq Requests
        BY DEF Steps, TxSteps, RowInv, TypeOK, RowsOK
    <2>1. CASE FindExisting(r) \/ FindWinner(r)
        BY <2>0, <2>1, RowQuiet DEF FindExisting, FindWinner, ReplyWithExisting, FindByIdempotencyKey,
                                     KeyRows, OrderIds
    <2>2. CASE Validate(r) \/ ReadBack(r)
        BY <2>0, <2>2, RowQuiet DEF Validate, ReadBack
    <2>3. CASE TakeStock(r)
        BY <2>3, RowTakeStock
    <2>4. CASE RefuseLine(r) \/ RefuseDebit(r)
        BY <2>4, RowRollback DEF RefuseLine, RefuseDebit
    <2>5. CASE DebitUser(r)
        BY <2>5, RowDebitUser
    <2>6. CASE InsertOrder(r)
        BY <2>0, <2>6, RowInsert, RowRollback DEF InsertOrder
    <2>7. CASE InsertItems(r) \/ InsertJob(r) \/ InsertOutbox(r)
        BY <2>0, <2>7, RowInsert DEF InsertItems, InsertJob, InsertOutbox, InsertRows
    <2>8. CASE Commit(r)
        BY <2>8, RowCommit
    <2>9. CASE RefreshCards(r)
        BY <2>9, RowQuiet DEF RefreshCards
    <2> QED BY <1>1, <2>1, <2>2, <2>3, <2>4, <2>5, <2>6, <2>7, <2>8, <2>9 DEF Step
<1>2. ASSUME NEW r \in Requests, Fail(r) PROVE RowInv'
    BY <1>2, RowRollback DEF Fail
<1>3. CASE UNCHANGED vars
    BY <1>3 DEF vars, committed, answers, RowInv, TypeOK, RowsOK, ControlOK, OrderIds, RowVersionsSafe,
                LocksProduct, LocksUser, PricedOK
<1> QED BY <1>1, <1>2, <1>3 DEF Next, Done

(* No checkout ever leaves a variable outside its type; above all, the     *)
(* stock of a product and the balance of a buyer never go below zero, for  *)
(* any number of requests, products and buyers.                            *)
THEOREM TypeCorrect == Spec => []TypeOK
<1>1. RowInv => TypeOK
    BY DEF RowInv
<1> QED BY RowInit, RowNext, <1>1, PTL DEF Spec

(* The UPDATEs with a guard in the WHERE clause behave as row locks: every *)
(* product and user row has at most one uncommitted version, and that      *)
(* version is covered by what is committed.                                *)
THEOREM RowsAreSafe == Spec => []RowVersionsSafe
<1>1. RowInv => RowVersionsSafe
    BY DEF RowInv
<1> QED BY RowInit, RowNext, <1>1, PTL DEF Spec

(***************************************************************************)
(* Idempotency keys                                                        *)
(*                                                                         *)
(* That a key is charged once is not inductive: it needs what is known of  *)
(* a transaction that has inserted its order row and not yet committed.    *)
(* KeyReserved says it owns the key: no committed order and no other open  *)
(* transaction has it.  Phases ties that to the program counter, so that   *)
(* Commit is only reached by such a transaction.                           *)
(***************************************************************************)
WritesOrder(r) == "orders" \in tx[r].wrote

Phases ==
    \A r \in Requests :
        /\ WritesOrder(r) <=> pc[r] \in {"orderItems", "jobs", "outbox", "commit"}
        /\ r \in OrderIds => pc[r] \in {"readBack", "refresh", "answered"}
        /\ pc[r] \in {"readBack", "refresh"} => r \in OrderIds

KeyReserved ==
    \A r \in Requests : WritesOrder(r) =>
        /\ KeyRows(r) = {}
        /\ \A s \in Requests \ {r} : WritesOrder(s) => ~SameKey(r, s)

OrdersFaithful ==
    \A o \in orders : /\ o.userId = input[o.id].userId
                      /\ o.idempotencyKey = input[o.id].idempotencyKey

WinnersExist == \A r \in Requests : pc[r] = "findWinner" => KeyRows(r) # {}

KeyInv == RowInv /\ Phases /\ KeyReserved /\ OrdersFaithful /\ WinnersExist /\ ChargedOncePerKey

LEMMA KeyInit == Init => KeyInv
<1> SUFFICES ASSUME Init PROVE KeyInv
    OBVIOUS
<1>1. Phases /\ KeyReserved /\ OrdersFaithful /\ WinnersExist /\ ChargedOncePerKey
    BY DEF Init, NoTx, Phases, KeyReserved, OrdersFaithful, WinnersExist, ChargedOncePerKey,
           WritesOrder, OrderIds
<1> QED BY <1>1, RowInit DEF KeyInv

(* Steps that neither commit nor insert an order: the orders stay, and the *)
(* transaction of r keeps what it wrote or is rolled back.                 *)
LEMMA KeyQuiet ==
    ASSUME KeyInv, RowInv', NEW r \in Requests,
           UNCHANGED <<input, orders>>,
           \A s \in Requests \ {r} : tx'[s] = tx[s] /\ pc'[s] = pc[s],
           WritesOrder(r)' => WritesOrder(r),
           WritesOrder(r)' <=> pc'[r] \in {"orderItems", "jobs", "outbox", "commit"},
           r \in OrderIds => pc'[r] \in {"readBack", "refresh", "answered"},
           pc'[r] \in {"readBack", "refresh"} => r \in OrderIds,
           pc'[r] = "findWinner" => KeyRows(r) # {}
    PROVE  KeyInv'
<1> USE DEF KeyInv
<1>1. OrderIds' = OrderIds /\ \A s \in Requests : KeyRows(s)' = KeyRows(s)
    BY DEF OrderIds, KeyRows
<1>2. \A s \in Requests : WritesOrder(s)' => WritesOrder(s)
    BY DEF WritesOrder
<1>3. \A s, z \in Requests : SameKey(s, z)' <=> SameKey(s, z)
    BY DEF SameKey
<1>4. Phases'
    BY <1>1 DEF Phases, WritesOrder
<1>5. KeyReserved'
    BY <1>1, <1>2, <1>3 DEF KeyReserved
<1>6. WinnersExist'
    BY <1>1 DEF WinnersExist
<1>7. OrdersFaithful' /\ ChargedOncePerKey'
    BY DEF OrdersFaithful, ChargedOncePerKey
<1> QED BY <1>4, <1>5, <1>6, <1>7

(* The INSERT of the order row reserves the key or finds its owner.        *)
LEMMA KeyInsertOrder ==
    ASSUME KeyInv, RowInv', NEW r \in Requests, InsertOrder(r)
    PROVE  KeyInv'
<1> USE DEF KeyInv
<1>0. /\ pc[r] = "orders" /\ ~WritesOrder(r)
      /\ \A s \in Requests \ {r} : WritesOrder(s) => ~SameKey(r, s)
      /\ UNCHANGED <<input, orders>>
      /\ pc \in [Requests -> Steps]
      /\ tx \in [Requests -> TxRecord]
    BY DEF InsertOrder, committed, Phases, WritesOrder, RowInv, TypeOK, ControlOK
<1>1. CASE /\ KeyRows(r) = {}
           /\ tx' = [tx EXCEPT ![r].wrote = @ \cup {"orders"}]
           /\ Goto(r, "orderItems")
    <2>1. /\ \A s \in Requests \ {r} : tx'[s] = tx[s] /\ pc'[s] = pc[s]
          /\ WritesOrder(r)'
          /\ pc'[r] = "orderItems"
        BY <1>0, <1>1 DEF WritesOrder, Goto, TxRecord
    <2>2. OrderIds' = OrderIds /\ \A s \in Requests : KeyRows(s)' = KeyRows(s)
        BY <1>0 DEF OrderIds, KeyRows
    <2>3. \A s, z \in Requests : /\ SameKey(s, z)' <=> SameKey(s, z)
                                 /\ SameKey(s, z) => SameKey(z, s)
        BY <1>0 DEF SameKey
    <2>4. \A s \in Requests \ {r} : WritesOrder(s)' <=> WritesOrder(s)
        BY <2>1 DEF WritesOrder
    <2>5. Phases'
        BY <1>0, <2>1, <2>2, <2>4 DEF Phases
    <2>6. KeyReserved'
        BY <1>0, <1>1, <2>1, <2>2, <2>3, <2>4 DEF KeyReserved
    <2>7. WinnersExist'
        BY <2>1, <2>2 DEF WinnersExist
    <2>8. OrdersFaithful' /\ ChargedOncePerKey'
        BY <1>0 DEF OrdersFaithful, ChargedOncePerKey
    <2> QED BY <2>5, <2>6, <2>7, <2>8
<1>2. CASE KeyRows(r) # {} /\ Rollback(r) /\ Goto(r, "findWinner")
    <2>1. /\ \A s \in Requests \ {r} : tx'[s] = tx[s] /\ pc'[s] = pc[s]
          /\ ~WritesOrder(r)'
          /\ pc'[r] = "findWinner"
        BY <1>0, <1>2 DEF WritesOrder, Goto, Rollback, NoTx
    <2>2. r \notin OrderIds
        BY <1>0 DEF Phases
    <2> QED BY <1>0, <1>2, <2>1, <2>2, KeyQuiet
<1> QED BY <1>1, <1>2 DEF InsertOrder

LEMMA KeyCommit ==
    ASSUME KeyInv, RowInv', NEW r \in Requests, Commit(r)
    PROVE  KeyInv'
<1> USE DEF KeyInv
<1>0. /\ pc[r] = "commit" /\ WritesOrder(r)
      /\ orders' = orders \cup {OrderRow(r)}
      /\ input' = input
      /\ pc'[r] = "readBack" /\ ~WritesOrder(r)'
      /\ \A s \in Requests \ {r} : tx'[s] = tx[s] /\ pc'[s] = pc[s]
    BY DEF Commit, Phases, WritesOrder, Rollback, NoTx, Goto, RowInv, TypeOK, ControlOK
<1>1. OrderIds' = OrderIds \cup {r}
    <2>1. OrderRow(r).id = r
        BY DEF OrderRow
    <2> QED BY <1>0, <2>1 DEF OrderIds
<1>2. \A s \in Requests : KeyRows(s) \subseteq KeyRows(s)'
    BY <1>0 DEF KeyRows
<1>3. \A s \in Requests \ {r} : WritesOrder(s) => KeyRows(s)' = {}
    BY <1>0 DEF KeyReserved, KeyRows, OrderRow, SameKey
<1>4. \A s \in Requests \ {r} : WritesOrder(s)' <=> WritesOrder(s)
    BY <1>0 DEF WritesOrder
<1>5. \A s, z \in Requests : SameKey(s, z)' <=> SameKey(s, z)
    BY <1>0 DEF SameKey
<1>6. Phases'
    BY <1>0, <1>1, <1>4 DEF Phases
<1>7. KeyReserved'
    BY <1>0, <1>3, <1>4, <1>5 DEF KeyReserved
<1>8. OrdersFaithful'
    BY <1>0 DEF OrdersFaithful, OrderRow
<1>9. WinnersExist'
    BY <1>0, <1>2 DEF WinnersExist
<1>10. ChargedOncePerKey'
    <2>1. \A o \in orders :
            ~(o.idempotencyKey = input[r].idempotencyKey /\ o.userId = input[r].userId
                /\ input[r].idempotencyKey # NoKey)
        BY <1>0 DEF KeyReserved, KeyRows
    <2> QED BY <1>0, <2>1 DEF ChargedOncePerKey, OrderRow
<1> QED BY <1>6, <1>7, <1>8, <1>9, <1>10

LEMMA KeyNext ==
    ASSUME KeyInv, [Next]_vars
    PROVE  KeyInv'
<1>0. RowInv'
    BY RowNext DEF KeyInv
<1>t. pc \in [Requests -> Steps] /\ tx \in [Requests -> TxRecord]
    BY DEF KeyInv, RowInv, TypeOK, ControlOK
<1>1. ASSUME NEW r \in Requests, Step(r) PROVE KeyInv'
    <2>p. /\ WritesOrder(r) <=> pc[r] \in {"orderItems", "jobs", "outbox", "commit"}
          /\ r \in OrderIds => pc[r] \in {"readBack", "refresh", "answered"}
          /\ pc[r] \in {"readBack", "refresh"} => r \in OrderIds
        BY DEF KeyInv, Phases
    <2>1. CASE FindExisting(r) \/ FindWinner(r)
        BY <1>0, <1>t, <2>p, <2>1, KeyQuiet
        DEF FindExisting, FindWinner, ReplyWithExisting, Goto, Reply, committed, WritesOrder
    <2>2. CASE Validate(r)
        BY <1>0, <1>t, <2>p, <2>2, KeyQuiet DEF Validate, Goto, Reply, committed, WritesOrder
    <2>3. CASE TakeStock(r)
        <3>1. /\ \A s \in Requests \ {r} : tx'[s] = tx[s] /\ pc'[s] = pc[s]
              /\ pc[r] = "lines" /\ pc'[r] = "lines" /\ tx'[r].wrote = tx[r].wrote
              /\ UNCHANGED <<input, orders>>
            BY <1>t, <2>3 DEF TakeStock, WithLine, committed
        <3> QED BY <1>0, <2>p, <3>1, KeyQuiet DEF WritesOrder
    <2>4. CASE RefuseLine(r) \/ RefuseDebit(r)
        <3>1. /\ \A s \in Requests \ {r} : tx'[s] = tx[s] /\ pc'[s] = pc[s]
              /\ pc[r] = "lines" /\ pc'[r] = "answered" /\ tx'[r].wrote = {}
              /\ UNCHANGED <<input, orders>>
            BY <1>t, <2>4 DEF RefuseLine, RefuseDebit, Reply, Rollback, NoTx, committed
        <3> QED BY <1>0, <2>p, <3>1, KeyQuiet DEF WritesOrder
    <2>5. CASE DebitUser(r)
        <3>1. /\ \A s \in Requests \ {r} : tx'[s] = tx[s] /\ pc'[s] = pc[s]
              /\ pc[r] = "lines" /\ pc'[r] = "orders" /\ tx'[r].wrote = tx[r].wrote
              /\ UNCHANGED <<input, orders>>
            BY <1>t, <2>5 DEF DebitUser, Goto, TxRecord, committed
        <3> QED BY <1>0, <2>p, <3>1, KeyQuiet DEF WritesOrder
    <2>6. CASE InsertOrder(r)
        BY <1>0, <2>6, KeyInsertOrder
    <2>7. CASE InsertItems(r) \/ InsertJob(r) \/ InsertOutbox(r)
        <3>1. /\ \A s \in Requests \ {r} : tx'[s] = tx[s] /\ pc'[s] = pc[s]
              /\ pc[r] \in {"orderItems", "jobs", "outbox"} /\ pc'[r] \in {"jobs", "outbox", "commit"}
              /\ \E t \in {"orderItems", "jobs", "outbox"} : tx'[r].wrote = tx[r].wrote \cup {t}
              /\ UNCHANGED <<input, orders>>
            BY <1>t, <2>7 DEF InsertItems, InsertJob, InsertOutbox, InsertRows, Goto, TxRecord, committed
        <3> QED BY <1>0, <2>p, <3>1, KeyQuiet DEF WritesOrder
    <2>8. CASE Commit(r)
        BY <1>0, <2>8, KeyCommit
    <2>9. CASE ReadBack(r) \/ RefreshCards(r)
        BY <1>0, <1>t, <2>p, <2>9, KeyQuiet DEF ReadBack, RefreshCards, Goto, Reply, committed, WritesOrder
    <2> QED BY <1>1, <2>1, <2>2, <2>3, <2>4, <2>5, <2>6, <2>7, <2>8, <2>9 DEF Step
<1>2. ASSUME NEW r \in Requests, Fail(r) PROVE KeyInv'
    <2>1. /\ \A s \in Requests \ {r} : tx'[s] = tx[s] /\ pc'[s] = pc[s]
          /\ pc'[r] = "answered" /\ tx'[r].wrote = {}
          /\ UNCHANGED <<input, orders>>
        BY <1>t, <1>2 DEF Fail, Reply, Rollback, NoTx, committed
    <2> QED BY <1>0, <2>1, KeyQuiet DEF WritesOrder
<1>3. CASE UNCHANGED vars
    <2>1. UNCHANGED <<input, orders, tx, pc>>
        BY <1>3 DEF vars, committed
    <2>2. /\ OrderIds' = OrderIds
          /\ \A s \in Requests : /\ KeyRows(s)' = KeyRows(s)
                                 /\ WritesOrder(s)' <=> WritesOrder(s)
          /\ \A s, z \in Requests : SameKey(s, z)' <=> SameKey(s, z)
        BY <2>1 DEF OrderIds, KeyRows, WritesOrder, SameKey
    <2>3. Phases' /\ KeyReserved' /\ WinnersExist'
        BY <2>1, <2>2 DEF KeyInv, Phases, KeyReserved, WinnersExist
    <2>4. OrdersFaithful' /\ ChargedOncePerKey'
        BY <2>1 DEF KeyInv, OrdersFaithful, ChargedOncePerKey
    <2> QED BY <1>0, <2>3, <2>4 DEF KeyInv
<1> QED BY <1>1, <1>2, <1>3 DEF Next, Done

(* However many requests carry a buyer's Idempotency-Key, and wherever     *)
(* they fail or interleave, the key is charged at most once.               *)
THEOREM KeyChargedOnce == Spec => []ChargedOncePerKey
<1>1. KeyInv => ChargedOncePerKey
    BY DEF KeyInv
<1> QED BY KeyInit, KeyNext, <1>1, PTL DEF Spec

(* After a commit the order is found again.  A 23505 on the key index      *)
(* always has a committed order of the same buyer and key behind it, and   *)
(* findExisting returns that order unless the key is empty: a repeat with  *)
(* an empty key is the only way place() falls through to a 500.            *)
THEOREM FallThroughsAreEmptyKeys == Spec => []OnlyEmptyKeysFallThrough
<1>1. ASSUME KeyInv, NEW r \in Requests, pc[r] = "findWinner"
      PROVE  \/ FindByIdempotencyKey(r) # {}
             \/ input[r].idempotencyKey = EmptyKey /\ KeyRows(r) # {}
    <2>1. KeyRows(r) # {}
        BY <1>1 DEF KeyInv, WinnersExist
    <2>2. CASE HasKey(r)
        BY <2>1, <2>2 DEF FindByIdempotencyKey
    <2>3. CASE ~HasKey(r)
        <3>1. input[r].idempotencyKey # NoKey
            BY <2>1 DEF KeyRows
        <3> QED BY <2>1, <2>3, <3>1 DEF HasKey
    <2> QED BY <2>2, <2>3
<1>2. KeyInv => OnlyEmptyKeysFallThrough
    BY <1>1 DEF KeyInv, Phases, OnlyEmptyKeysFallThrough
<1> QED BY KeyInit, KeyNext, <1>2, PTL DEF Spec

(***************************************************************************)
(* Sums over orders                                                        *)
(*                                                                         *)
(* Units and cents are counted as elements of sets, so sums add up because *)
(* the items of different orders, and the lines of one order, are          *)
(* different elements.                                                     *)
(***************************************************************************)

(* The stored item of a priced line.                                       *)
Canonical(x) == [x EXCEPT !.productId = BigintText[Number[x.productId]]]

LEMMA CanonicalItem ==
    ASSUME NEW x \in OrderItem, Number[x.productId] \in Products
    PROVE  /\ Canonical(x) \in OrderItem
           /\ Canonical(x).orderId = x.orderId /\ Canonical(x).line = x.line
           /\ Canonical(x).quantity = x.quantity /\ Canonical(x).unitPrice = x.unitPrice
           /\ Number[Canonical(x).productId] = Number[x.productId]
    BY CatalogueAssumption DEF Canonical, OrderItem, Texts

(* A finite set of items has finitely many units of a product.             *)
LEMMA UnitsFinite ==
    ASSUME NEW items \in SUBSET OrderItem, IsFiniteSet(items), NEW p
    PROVE  IsFiniteSet(UnitSet(items, p)) /\ Units(items, p) \in Nat
<1> DEFINE S == {y \in items : Number[y.productId] = p}
           f == [x \in S |-> {x} \X (1 .. x.quantity)]
           T == {{x} \X (1 .. x.quantity) : x \in S}
<1>0. IsFiniteSet(S)
    BY FS_Subset
<1>1. f \in Surjection(S, T)
    BY DEF Surjection
<1>2. IsFiniteSet(T)
    BY <1>0, <1>1, FS_Surjection, Zenon
<1>3. ASSUME NEW x \in S PROVE IsFiniteSet({x} \X (1 .. x.quantity))
    <2>1. x.quantity \in Int
        BY DEF OrderItem
    <2>2. IsFiniteSet(1 .. x.quantity)
        BY <2>1, FS_Interval
    <2> QED BY <2>2, FS_Singleton, FS_Product
<1>4. IsFiniteSet(UNION T)
    BY <1>2, <1>3, FS_UNION
<1> QED BY <1>4, FS_CardinalityType DEF UnitSet, Units

LEMMA DisjointUnion ==
    ASSUME NEW S, NEW T, IsFiniteSet(S), IsFiniteSet(T), S \cap T = {}
    PROVE  Cardinality(S \cup T) = Cardinality(S) + Cardinality(T)
<1>1. Cardinality(S) \in Nat /\ Cardinality(T) \in Nat
    BY FS_CardinalityType
<1>2. Cardinality(S \cup T) = Cardinality(S) + Cardinality(T) - Cardinality(S \cap T)
    BY FS_Union
<1>3. Cardinality(S \cap T) = 0
    BY FS_EmptySet
<1> QED BY <1>1, <1>2, <1>3

(* Sums of disjoint sets of items add up.                                  *)
LEMMA SumsAdd ==
    ASSUME NEW S \in SUBSET OrderItem, NEW T \in SUBSET OrderItem,
           IsFiniteSet(S), IsFiniteSet(T), S \cap T = {}
    PROVE  /\ \A p : Units(S \cup T, p) = Units(S, p) + Units(T, p)
           /\ Total(S \cup T) = Total(S) + Total(T)
<1>1. ASSUME NEW p PROVE Units(S \cup T, p) = Units(S, p) + Units(T, p)
    <2>1. UnitSet(S \cup T, p) = UnitSet(S, p) \cup UnitSet(T, p)
        BY DEF UnitSet
    <2>2. UnitSet(S, p) \cap UnitSet(T, p) = {}
        BY DEF UnitSet
    <2>3. IsFiniteSet(UnitSet(S, p)) /\ IsFiniteSet(UnitSet(T, p)) /\ Units(S, p) \in Nat /\ Units(T, p) \in Nat
        BY UnitsFinite
    <2> QED BY <2>1, <2>2, <2>3, DisjointUnion DEF Units
<1>2. Total(S \cup T) = Total(S) + Total(T)
    <2>1. CentSet(S \cup T) = CentSet(S) \cup CentSet(T)
        BY DEF CentSet
    <2>2. CentSet(S) \cap CentSet(T) = {}
        BY DEF CentSet
    <2>3. IsFiniteSet(CentSet(S)) /\ IsFiniteSet(CentSet(T)) /\ Total(S) \in Nat /\ Total(T) \in Nat
        BY CentsFinite
    <2> QED BY <2>1, <2>2, <2>3, DisjointUnion DEF Total
<1> QED BY <1>1, <1>2

(* One line of q units of a product counts q for it and 0 for the others.  *)
LEMMA UnitsOfLine ==
    ASSUME NEW x \in OrderItem
    PROVE  /\ Units({x}, Number[x.productId]) = x.quantity
           /\ \A p : p # Number[x.productId] => Units({x}, p) = 0
<1>1. UnitSet({x}, Number[x.productId]) = {x} \X (1 .. x.quantity)
    BY DEF UnitSet
<1>2. x.quantity \in Nat /\ x.quantity \in Int
    BY DEF OrderItem
<1>3. IsFiniteSet(1 .. x.quantity) /\ Cardinality(1 .. x.quantity) = x.quantity
    BY <1>2, FS_Interval
<1>4. Units({x}, Number[x.productId]) = x.quantity
    <2>1. IsFiniteSet({x}) /\ Cardinality({x}) = 1
        BY FS_Singleton
    <2>2. Cardinality({x} \X (1 .. x.quantity)) = Cardinality({x}) * Cardinality(1 .. x.quantity)
        BY <1>3, <2>1, FS_Product
    <2>3. Cardinality({x} \X (1 .. x.quantity)) = x.quantity
        BY <1>2, <1>3, <2>1, <2>2
    <2> QED BY <1>1, <2>3 DEF Units
<1>5. ASSUME NEW p, p # Number[x.productId] PROVE Units({x}, p) = 0
    <2>1. UnitSet({x}, p) = {}
        BY <1>5 DEF UnitSet
    <2> QED BY <2>1, FS_EmptySet DEF Units
<1> QED BY <1>4, <1>5

(* Storing the lines under their canonical spelling changes no sum.        *)
LEMMA StoredSums ==
    ASSUME NEW S \in SUBSET OrderItem, IsFiniteSet(S),
           \A x \in S : Number[x.productId] \in Products,
           \A x, y \in S : x.line = y.line => x = y
    PROVE  /\ IsFiniteSet(Stored(S)) /\ Stored(S) \subseteq OrderItem
           /\ \A p : Units(Stored(S), p) = Units(S, p)
           /\ Total(Stored(S)) = Total(S)
<1>0. Stored(S) = {Canonical(x) : x \in S}
    BY DEF Stored, Canonical
<1>1. \A x \in S : /\ Canonical(x) \in OrderItem
                   /\ Canonical(x).quantity = x.quantity /\ Canonical(x).unitPrice = x.unitPrice
                   /\ Number[Canonical(x).productId] = Number[x.productId]
    BY CanonicalItem
<1>2. \A x, y \in S : Canonical(x) = Canonical(y) => x = y
    BY CanonicalItem
<1>3. IsFiniteSet(Stored(S)) /\ Stored(S) \subseteq OrderItem
    <2> DEFINE f == [x \in S |-> Canonical(x)]
    <2>1. f \in Surjection(S, Stored(S))
        BY <1>0 DEF Surjection
    <2>2. IsFiniteSet(Stored(S))
        BY <2>1, FS_Surjection, Zenon
    <2> QED BY <1>0, <1>1, <2>2
<1>4. ASSUME NEW p PROVE Units(Stored(S), p) = Units(S, p)
    <2> DEFINE U == UnitSet(S, p)
               V == UnitSet(Stored(S), p)
               g == [u \in U |-> <<Canonical(u[1]), u[2]>>]
    <2>1. \A u : u \in U <=> \E x \in S : \E k \in 1 .. x.quantity : Number[x.productId] = p /\ u = <<x, k>>
        BY DEF UnitSet
    <2>2. \A u : u \in V <=> \E x \in S : \E k \in 1 .. x.quantity : Number[x.productId] = p /\ u = <<Canonical(x), k>>
        BY <1>0, <1>1 DEF UnitSet
    <2>3. IsFiniteSet(U) /\ IsFiniteSet(V)
        BY <1>3, UnitsFinite
    <2> HIDE DEF U, V
    <2>4. g \in [U -> V]
        BY <2>1, <2>2
    <2>5. ASSUME NEW v \in V PROVE \E u \in U : g[u] = v
        <3>0. PICK x \in S : Number[x.productId] = p /\ \E k \in 1 .. x.quantity : v = <<Canonical(x), k>>
            BY <2>2
        <3>1. PICK k \in 1 .. x.quantity : <<x, k>> \in U /\ v = <<Canonical(x), k>>
            BY <2>1, <3>0
        <3>2. g[<<x, k>>] = v
            BY <3>1
        <3> QED BY <3>1, <3>2
    <2>6. \A u, w \in U : g[u] = g[w] => u = w
        BY <1>2, <2>1
    <2> HIDE DEF g
    <2>7. g \in Surjection(U, V) /\ g \in Injection(U, V)
        BY <2>4, <2>5, <2>6 DEF Surjection, Injection, IsInjective
    <2>8. Cardinality(V) = Cardinality(U)
        BY <2>3, <2>7, FS_Surjection
    <2> QED BY <2>8 DEF Units, U, V
<1>5. Total(Stored(S)) = Total(S)
    <2> DEFINE U == CentSet(S)
               V == CentSet(Stored(S))
               g == [u \in U |-> <<Canonical(u[1]), u[2]>>]
    <2>1. \A u : u \in U <=> \E x \in S : \E k \in 1 .. x.quantity * x.unitPrice : u = <<x, k>>
        BY DEF CentSet
    <2>2. \A u : u \in V <=> \E x \in S : \E k \in 1 .. x.quantity * x.unitPrice : u = <<Canonical(x), k>>
        BY <1>0, <1>1 DEF CentSet
    <2>3. IsFiniteSet(U) /\ IsFiniteSet(V)
        BY <1>3, CentsFinite
    <2> HIDE DEF U, V
    <2>4. g \in [U -> V]
        BY <2>1, <2>2
    <2>5. ASSUME NEW v \in V PROVE \E u \in U : g[u] = v
        <3>0. PICK x \in S : \E k \in 1 .. x.quantity * x.unitPrice : v = <<Canonical(x), k>>
            BY <2>2
        <3>1. PICK k \in 1 .. x.quantity * x.unitPrice : <<x, k>> \in U /\ v = <<Canonical(x), k>>
            BY <2>1, <3>0
        <3>2. g[<<x, k>>] = v
            BY <3>1
        <3> QED BY <3>1, <3>2
    <2>6. \A u, w \in U : g[u] = g[w] => u = w
        BY <1>2, <2>1
    <2> HIDE DEF g
    <2>7. g \in Surjection(U, V) /\ g \in Injection(U, V)
        BY <2>4, <2>5, <2>6 DEF Surjection, Injection, IsInjective
    <2>8. Cardinality(V) = Cardinality(U)
        BY <2>3, <2>7, FS_Surjection
    <2> QED BY <2>8 DEF Total, U, V
<1> QED BY <1>3, <1>4, <1>5

(***************************************************************************)
(* Whole orders                                                            *)
(*                                                                         *)
(* An order is whole, and its sums agree, because of what an open          *)
(* transaction has recorded: the lines it priced are lines of its request, *)
(* the units it took are theirs, and once it has debited the buyer it has  *)
(* priced all of them and debited their total.                             *)
(***************************************************************************)
TxFaithful(r) ==
    /\ \A x \in tx[r].priced :
        \E i \in DOMAIN Lines(r) : Product(r, i) \in Products /\ x = PricedLine(r, Lines(r), i)
    /\ \A p \in Products : tx[r].taken[p] = Units(tx[r].priced, p)

TxPhase(r) ==
    /\ pc[r] \in TxSteps => ValidLines(Lines(r))
    /\ pc[r] \in TxSteps \ {"lines"} =>
        /\ Unpriced(r) = {}
        /\ input[r].userId \in Users
        /\ tx[r].total = Total(tx[r].priced)
    /\ pc[r] \in {"jobs", "outbox", "commit"} => "orderItems" \in tx[r].wrote
    /\ pc[r] \in {"outbox", "commit"} => "jobs" \in tx[r].wrote
    /\ pc[r] = "commit" => "outbox" \in tx[r].wrote

TxInv == KeyInv /\ \A r \in Requests : TxFaithful(r) /\ TxPhase(r)

AnsweredAtEnd == \A r \in Requests : result[r] # None => pc[r] = "answered"

OrderInv ==
    /\ TxInv
    /\ IsFiniteSet(orderItems)
    /\ OrderIsWhole
    /\ GoodsAndMoneyConserved
    /\ AnsweredAtEnd
    /\ AnswersAreTrue

(* The lines of an open transaction are well-formed items of its own       *)
(* order, one for each line of the request.                                *)
LEMMA OwnItems ==
    ASSUME TxInv, NEW r \in Requests
    PROVE  /\ tx[r].priced \in SUBSET OrderItem /\ IsFiniteSet(tx[r].priced)
           /\ \A x \in tx[r].priced : x.orderId = r /\ Number[x.productId] \in Products
           /\ \A x, y \in tx[r].priced : x.line = y.line => x = y
<1>1. tx[r].priced \in SUBSET OrderItem /\ IsFiniteSet(tx[r].priced)
    BY DEF TxInv, KeyInv, RowInv, TypeOK, TxRecord, PricedOK
<1>2. \A x \in tx[r].priced : Number[x.productId] \in Products
    BY DEF TxInv, KeyInv, RowInv, PricedOK
<1>3. \A x \in tx[r].priced : x.orderId = r
    BY DEF TxInv, TxFaithful, PricedLine
<1>4. \A x \in tx[r].priced : x = PricedLine(r, Lines(r), x.line)
    BY DEF TxInv, TxFaithful, PricedLine
<1> QED BY <1>1, <1>2, <1>3, <1>4

LEMMA NoUnits == \A p : Units({}, p) = 0
<1>1. \A p : UnitSet({}, p) = {}
    BY DEF UnitSet
<1> QED BY <1>1, FS_EmptySet DEF Units

LEMMA NoCents == Total({}) = 0
<1>1. CentSet({}) = {}
    BY DEF CentSet
<1> QED BY <1>1, FS_EmptySet DEF Total

(* A step of r is a matter of r's transaction only.                        *)
LEMMA TxOthers ==
    ASSUME TxInv, KeyInv', NEW r \in Requests, input' = input,
           \A s \in Requests \ {r} : tx'[s] = tx[s] /\ pc'[s] = pc[s],
           TxFaithful(r)', TxPhase(r)'
    PROVE  TxInv'
<1>1. ASSUME NEW s \in Requests \ {r} PROVE TxFaithful(s)' /\ TxPhase(s)'
    BY DEF TxInv, TxFaithful, TxPhase, Lines, Product, Unpriced
<1> QED BY <1>1 DEF TxInv

(* Steps outside the transaction, or that leave it.                        *)
LEMMA TxLeave ==
    ASSUME TxInv, KeyInv', NEW r \in Requests, input' = input,
           \A s \in Requests \ {r} : tx'[s] = tx[s] /\ pc'[s] = pc[s],
           tx'[r] = tx[r] \/ tx'[r] = NoTx,
           pc'[r] \notin TxSteps
    PROVE  TxInv'
<1>1. TxFaithful(r)'
    <2>1. CASE tx'[r] = tx[r]
        BY <2>1 DEF TxInv, TxFaithful, Lines, Product
    <2>2. CASE tx'[r] = NoTx
        BY <2>2, NoUnits DEF NoTx, TxFaithful
    <2> QED BY <2>1, <2>2
<1>2. TxPhase(r)'
    BY DEF TxPhase, TxSteps
<1> QED BY <1>1, <1>2, TxOthers

LEMMA TxTakeStock ==
    ASSUME TxInv, KeyInv', NEW r \in Requests, TakeStock(r)
    PROVE  TxInv'
<1>1. PICK i \in DOMAIN Lines(r) :
        /\ i \in Unpriced(r)
        /\ Product(r, i) \in Products
        /\ tx' = [tx EXCEPT ![r] = WithLine(r, i)]
    BY DEF TakeStock, IsNextLine
<1>t. /\ tx \in [Requests -> TxRecord] /\ pc' = pc /\ input' = input /\ TypeOK
      /\ pc[r] = "lines"
    BY DEF TakeStock, TxInv, KeyInv, RowInv, TypeOK
<1> DEFINE x == PricedLine(r, Lines(r), i)
<1>2. x \in OrderItem /\ x.line = i /\ x.quantity = Quantity(r, i) /\ Number[x.productId] = Product(r, i)
    <2>1. x.quantity = Quantity(r, i) /\ Number[x.productId] = Product(r, i)
        BY DEF PricedLine, Quantity, Product
    <2> QED BY <1>1, <1>t, <2>1, ItemTyped
<1>3. /\ tx'[r].priced = tx[r].priced \cup {x}
      /\ tx'[r].taken = [tx[r].taken EXCEPT ![Product(r, i)] = @ + Quantity(r, i)]
      /\ \A s \in Requests \ {r} : tx'[s] = tx[s] /\ pc'[s] = pc[s]
    BY <1>1, <1>t DEF WithLine
<1>4. x \notin tx[r].priced
    BY <1>1, <1>2 DEF Unpriced
<1>5. tx[r].priced \in SUBSET OrderItem /\ IsFiniteSet(tx[r].priced)
    BY OwnItems
<1>6. \A y \in tx'[r].priced :
        \E j \in DOMAIN Lines(r) : Product(r, j) \in Products /\ y = PricedLine(r, Lines(r), j)
    BY <1>1, <1>3 DEF TxInv, TxFaithful
<1> HIDE DEF x
<1>7. ASSUME NEW p \in Products PROVE tx'[r].taken[p] = Units(tx'[r].priced, p)
    <2>1. Units(tx'[r].priced, p) = Units(tx[r].priced, p) + Units({x}, p)
        <3>1. {x} \in SUBSET OrderItem /\ IsFiniteSet({x}) /\ tx[r].priced \cap {x} = {}
            BY <1>2, <1>4, FS_Singleton
        <3> QED BY <1>3, <1>5, <3>1, SumsAdd
    <2>2. tx[r].taken[p] = Units(tx[r].priced, p) /\ tx[r].taken \in [Products -> Nat]
        BY <1>t DEF TxInv, TxFaithful, TxRecord
    <2>3. CASE p = Product(r, i)
        <3>1. Units({x}, p) = Quantity(r, i)
            BY <1>2, <2>3, UnitsOfLine
        <3> QED BY <1>3, <2>1, <2>2, <2>3, <3>1
    <2>4. CASE p # Product(r, i)
        <3>1. Units({x}, p) = 0
            BY <1>2, <2>4, UnitsOfLine
        <3> QED BY <1>3, <2>1, <2>2, <2>4, <3>1
    <2> QED BY <2>3, <2>4
<1>8. TxFaithful(r)'
    BY <1>6, <1>7, <1>t DEF TxFaithful, Lines, Product
<1>9. TxPhase(r)'
    BY <1>t DEF TxInv, TxPhase, TxSteps, Lines
<1> QED BY <1>3, <1>8, <1>9, <1>t, TxOthers

(* The debit and the INSERTs leave the lines of the transaction alone.     *)
LEMMA TxWrite ==
    ASSUME TxInv, KeyInv', NEW r \in Requests,
           DebitUser(r) \/ InsertOrder(r) \/ InsertItems(r) \/ InsertJob(r) \/ InsertOutbox(r)
    PROVE  TxInv'
<1>t. tx \in [Requests -> TxRecord] /\ pc \in [Requests -> Steps] /\ input' = input
    BY DEF DebitUser, InsertOrder, InsertItems, InsertJob, InsertOutbox, InsertRows,
           TxInv, KeyInv, RowInv, TypeOK, ControlOK
<1>p. TxFaithful(r) /\ TxPhase(r)
    BY DEF TxInv
<1>1. ASSUME tx'[r].priced = tx[r].priced, tx'[r].taken = tx[r].taken PROVE TxFaithful(r)'
    BY <1>1, <1>t, <1>p DEF TxFaithful, Lines, Product
<1>2. CASE DebitUser(r)
    <2>1. /\ tx'[r].priced = tx[r].priced /\ tx'[r].taken = tx[r].taken
          /\ tx'[r].total = Total(tx[r].priced)
          /\ pc[r] = "lines" /\ pc'[r] = "orders" /\ Unpriced(r) = {} /\ input[r].userId \in Users
          /\ \A s \in Requests \ {r} : tx'[s] = tx[s] /\ pc'[s] = pc[s]
        BY <1>2, <1>t DEF DebitUser, Goto, TxRecord
    <2>2. TxPhase(r)'
        BY <1>p, <1>t, <2>1 DEF TxPhase, TxSteps, Lines, Unpriced
    <2> QED BY <1>1, <1>t, <2>1, <2>2, TxOthers
<1>3. ASSUME NEW table \in {"orders", "orderItems", "jobs", "outbox"},
             pc[r] = table, tx' = [tx EXCEPT ![r].wrote = @ \cup {table}],
             NEW next, Goto(r, next),
             <<table, next>> \in {<<"orders", "orderItems">>, <<"orderItems", "jobs">>,
                                  <<"jobs", "outbox">>, <<"outbox", "commit">>}
      PROVE  TxInv'
    <2>1. /\ tx'[r].priced = tx[r].priced /\ tx'[r].taken = tx[r].taken /\ tx'[r].total = tx[r].total
          /\ tx'[r].wrote = tx[r].wrote \cup {table}
          /\ pc'[r] = next
          /\ \A s \in Requests \ {r} : tx'[s] = tx[s] /\ pc'[s] = pc[s]
        BY <1>3, <1>t DEF Goto, TxRecord
    <2>2. TxPhase(r)'
        BY <1>p, <1>t, <1>3, <2>1 DEF TxPhase, TxSteps, Lines, Unpriced
    <2> QED BY <1>1, <1>t, <2>1, <2>2, TxOthers
<1>4. CASE InsertOrder(r)
    <2>1. CASE tx' = [tx EXCEPT ![r].wrote = @ \cup {"orders"}] /\ Goto(r, "orderItems")
        BY <1>3, <1>4, <2>1 DEF InsertOrder
    <2>2. CASE Rollback(r) /\ Goto(r, "findWinner")
        BY <1>t, <2>2, TxLeave DEF Rollback, Goto, TxSteps
    <2> QED BY <1>4, <2>1, <2>2 DEF InsertOrder
<1>5. CASE InsertItems(r) \/ InsertJob(r) \/ InsertOutbox(r)
    BY <1>3, <1>5 DEF InsertItems, InsertJob, InsertOutbox, InsertRows
<1> QED BY <1>2, <1>4, <1>5

LEMMA TxNext ==
    ASSUME TxInv, [Next]_vars
    PROVE  TxInv'
<1>0. KeyInv'
    BY KeyNext DEF TxInv
<1>t. tx \in [Requests -> TxRecord] /\ pc \in [Requests -> Steps]
    BY DEF TxInv, KeyInv, RowInv, TypeOK, ControlOK
<1>1. ASSUME NEW r \in Requests, Step(r) PROVE TxInv'
    <2>1. CASE FindExisting(r)
        <3>1. CASE Goto(r, "validate")
            BY <1>0, <1>t, <2>1, <3>1, TxLeave DEF FindExisting, Goto, TxSteps
        <3>2. CASE ReplyWithExisting(r)
            BY <1>0, <1>t, <2>1, <3>2, TxLeave DEF FindExisting, ReplyWithExisting, Reply, TxSteps
        <3> QED BY <2>1, <3>1, <3>2 DEF FindExisting
    <2>2. CASE Validate(r)
        <3>1. CASE ValidLines(Lines(r)) /\ Goto(r, "lines")
            <4>1. tx' = tx /\ input' = input /\ pc'[r] = "lines" /\ \A s \in Requests \ {r} : pc'[s] = pc[s]
                BY <1>t, <2>2, <3>1 DEF Validate, Goto
            <4>2. TxFaithful(r)' /\ TxPhase(r)'
                BY <3>1, <4>1 DEF TxInv, TxFaithful, TxPhase, TxSteps, Lines, Product
            <4> QED BY <1>0, <4>1, <4>2, TxOthers
        <3>2. CASE Reply(r, "error", None)
            BY <1>0, <1>t, <2>2, <3>2, TxLeave DEF Validate, Reply, TxSteps
        <3> QED BY <2>2, <3>1, <3>2 DEF Validate
    <2>3. CASE TakeStock(r)
        BY <1>0, <2>3, TxTakeStock
    <2>4. CASE RefuseLine(r) \/ RefuseDebit(r)
        <3>1. input' = input /\ pc' = [pc EXCEPT ![r] = "answered"] /\ tx' = [tx EXCEPT ![r] = NoTx]
            BY <2>4 DEF RefuseLine, RefuseDebit, Reply, Rollback
        <3> QED BY <1>0, <1>t, <3>1, TxLeave DEF TxSteps
    <2>5. CASE DebitUser(r) \/ InsertOrder(r) \/ InsertItems(r) \/ InsertJob(r) \/ InsertOutbox(r)
        BY <1>0, <2>5, TxWrite
    <2>6. CASE Commit(r)
        <3>1. input' = input /\ pc' = [pc EXCEPT ![r] = "readBack"] /\ tx' = [tx EXCEPT ![r] = NoTx]
            BY <2>6 DEF Commit, Goto, Rollback
        <3> QED BY <1>0, <1>t, <3>1, TxLeave DEF TxSteps
    <2>7. CASE ReadBack(r)
        <3>1. input' = input /\ tx' = tx /\ \E step \in {"refresh", "answered"} : pc' = [pc EXCEPT ![r] = step]
            BY <2>7 DEF ReadBack, Goto, Reply
        <3> QED BY <1>0, <1>t, <3>1, TxLeave DEF TxSteps
    <2>8. CASE RefreshCards(r) \/ FindWinner(r)
        <3>1. input' = input /\ tx' = tx /\ pc' = [pc EXCEPT ![r] = "answered"]
            BY <2>8 DEF RefreshCards, FindWinner, ReplyWithExisting, Reply
        <3> QED BY <1>0, <1>t, <3>1, TxLeave DEF TxSteps
    <2> QED BY <1>1, <2>1, <2>2, <2>3, <2>4, <2>5, <2>6, <2>7, <2>8 DEF Step
<1>2. ASSUME NEW r \in Requests, Fail(r) PROVE TxInv'
    <2>1. input' = input /\ pc' = [pc EXCEPT ![r] = "answered"] /\ tx' = [tx EXCEPT ![r] = NoTx]
        BY <1>2 DEF Fail, Reply, Rollback
    <2> QED BY <1>0, <1>t, <2>1, TxLeave DEF TxSteps
<1>3. CASE UNCHANGED vars
    <2>1. UNCHANGED <<input, tx, pc>>
        BY <1>3 DEF vars
    <2> QED BY <1>0, <2>1 DEF TxInv, TxFaithful, TxPhase, Lines, Product, Unpriced
<1> QED BY <1>1, <1>2, <1>3 DEF Next, Done

(* What Commit does, given what the transaction has recorded: the order    *)
(* with its items, its job and its event, paid in full.                    *)
LEMMA CommitWrites ==
    ASSUME TxInv, NEW r \in Requests, Commit(r)
    PROVE  /\ orders' = orders \cup {OrderRow(r)}
           /\ orderItems' = orderItems \cup Stored(tx[r].priced)
           /\ jobs' = jobs \cup {JobRow(r)}
           /\ outbox' = outbox \cup {EventRow(r)}
           /\ stock' = [p \in Products |-> stock[p] - Units(tx[r].priced, p)]
           /\ balance' = [balance EXCEPT ![input[r].userId] = @ - Total(tx[r].priced)]
           /\ input[r].userId \in Users
           /\ tx[r].total = Total(tx[r].priced)
           /\ r \notin OrderIds
           /\ UNCHANGED <<input, cardJobs>>
<1>1. pc[r] = "commit" /\ UNCHANGED <<input, cardJobs>>
    BY DEF Commit
<1>2. "orders" \in tx[r].wrote /\ r \notin OrderIds
    BY <1>1 DEF TxInv, KeyInv, Phases, WritesOrder
<1>3. /\ {"orderItems", "jobs", "outbox"} \subseteq tx[r].wrote
      /\ input[r].userId \in Users
      /\ tx[r].total = Total(tx[r].priced)
    BY <1>1 DEF TxInv, TxPhase, TxSteps
<1>4. \A p \in Products : tx[r].taken[p] = Units(tx[r].priced, p)
    BY DEF TxInv, TxFaithful
<1> QED BY <1>1, <1>2, <1>3, <1>4 DEF Commit

(* The items a transaction stores: those of its request, under its id.     *)
LEMMA StoredItems ==
    ASSUME TxInv, NEW r \in Requests
    PROVE  /\ Stored(tx[r].priced) \in SUBSET OrderItem /\ IsFiniteSet(Stored(tx[r].priced))
           /\ \A y \in Stored(tx[r].priced) : y.orderId = r
           /\ pc[r] = "commit" => Stored(tx[r].priced) = ItemsOf(r, Lines(r))
<1>1. Stored(tx[r].priced) \in SUBSET OrderItem /\ IsFiniteSet(Stored(tx[r].priced))
    BY OwnItems, StoredSums
<1>2. \A y \in Stored(tx[r].priced) : y.orderId = r
    BY OwnItems, CanonicalItem DEF Stored, Canonical
<1>3. ASSUME pc[r] = "commit" PROVE Stored(tx[r].priced) = ItemsOf(r, Lines(r))
    <2>1. Unpriced(r) = {}
        BY <1>3 DEF TxInv, TxPhase, TxSteps
    <2>2. \A x \in tx[r].priced : \E i \in DOMAIN Lines(r) : x = PricedLine(r, Lines(r), i) /\ x.line = i
        BY DEF TxInv, TxFaithful, PricedLine
    <2>3. tx[r].priced = {PricedLine(r, Lines(r), i) : i \in DOMAIN Lines(r)}
        <3>1. ASSUME NEW i \in DOMAIN Lines(r) PROVE PricedLine(r, Lines(r), i) \in tx[r].priced
            BY <2>1, <2>2 DEF Unpriced
        <3> QED BY <2>2, <3>1
    <2> QED BY <2>3 DEF ItemsOf
<1> QED BY <1>1, <1>2, <1>3

(* The commit makes the whole order and touches no other.                  *)
LEMMA CommitWhole ==
    ASSUME TxInv, OrderIsWhole, NEW r \in Requests, Commit(r)
    PROVE  /\ OrderIsWhole'
           /\ OrderIds' = OrderIds \cup {r}
           /\ Items(r)' = Stored(tx[r].priced)
           /\ \A id \in OrderIds : Items(id)' = Items(id)
<1> DEFINE new == Stored(tx[r].priced)
<1>1. /\ orders' = orders \cup {OrderRow(r)} /\ orderItems' = orderItems \cup new
      /\ jobs' = jobs \cup {JobRow(r)} /\ outbox' = outbox \cup {EventRow(r)}
      /\ UNCHANGED <<input, cardJobs>>
      /\ r \notin OrderIds /\ pc[r] = "commit"
    BY CommitWrites DEF Commit
<1>2. new = ItemsOf(r, Lines(r)) /\ \A y \in new : y.orderId = r
    BY <1>1, StoredItems
<1>3. /\ OrderRow(r).id = r /\ JobRow(r).orderId = r
      /\ EventRow(r).aggregateId = r /\ EventRow(r).items = tx[r].priced
    BY DEF OrderRow, JobRow, EventRow
<1>4. OrderIds' = OrderIds \cup {r}
    BY <1>1, <1>3 DEF OrderIds
<1> HIDE DEF new
<1>5. Items(r)' = new
    BY <1>1, <1>2 DEF OrderIsWhole, Items
<1>6. ASSUME NEW id \in OrderIds PROVE Items(id)' = Items(id)
    BY <1>1, <1>2, <1>6 DEF Items
<1>7. ASSUME NEW o \in orders'
      PROVE  /\ Items(o.id)' = ItemsOf(o.id, Lines(o.id))
             /\ JobRow(o.id) \in jobs'
             /\ \E e \in outbox' : e.aggregateId = o.id /\ Stored(e.items) = Items(o.id)'
    <2>1. CASE o \in orders
        <3>1. o.id \in OrderIds
            BY <2>1 DEF OrderIds
        <3> QED BY <1>1, <1>6, <2>1, <3>1 DEF OrderIsWhole
    <2>2. CASE o = OrderRow(r)
        BY <1>1, <1>2, <1>3, <1>5, <2>2 DEF new
    <2> QED BY <1>1, <2>1, <2>2
<1>8. ASSUME NEW id PROVE Lines(id)' = Lines(id) /\ JobRow(id)' = JobRow(id)
    BY <1>1 DEF Lines, JobRow
<1>9. /\ \A x \in orderItems' : x.orderId \in OrderIds'
      /\ \A j \in jobs' : j.orderId \in OrderIds'
      /\ \A e \in outbox' : e.aggregateId \in OrderIds'
    BY <1>1, <1>2, <1>3, <1>4 DEF OrderIsWhole
<1>10. \A e, f \in outbox' : e.aggregateId = f.aggregateId => e = f
    BY <1>1, <1>3 DEF OrderIsWhole
<1>11. \A j \in cardJobs' : \E x \in orderItems' : x.orderId = j.orderId /\ x.productId = j.productId
    BY <1>1 DEF OrderIsWhole
<1>12. OrderIsWhole'
    BY <1>7, <1>8, <1>9, <1>10, <1>11 DEF OrderIsWhole
<1> QED BY <1>4, <1>5, <1>6, <1>12 DEF new

(* The commit moves goods and money from the rows of stock and balance to  *)
(* the order, in equal amounts.                                            *)
LEMMA CommitConserves ==
    ASSUME TxInv, OrderIsWhole, IsFiniteSet(orderItems), GoodsAndMoneyConserved,
           NEW r \in Requests, Commit(r)
    PROVE  GoodsAndMoneyConserved' /\ IsFiniteSet(orderItems)'
<1> DEFINE new == Stored(tx[r].priced)
           u == input[r].userId
           Of(z) == {x \in orderItems : \E o \in orders : o.id = x.orderId /\ o.userId = z}
<1>1. /\ orders' = orders \cup {OrderRow(r)} /\ orderItems' = orderItems \cup new
      /\ outbox' = outbox \cup {EventRow(r)}
      /\ stock' = [p \in Products |-> stock[p] - Units(tx[r].priced, p)]
      /\ balance' = [balance EXCEPT ![u] = @ - Total(tx[r].priced)]
      /\ u \in Users /\ r \notin OrderIds /\ tx[r].total = Total(tx[r].priced)
    BY CommitWrites
<1>2. /\ new \in SUBSET OrderItem /\ IsFiniteSet(new) /\ \A y \in new : y.orderId = r
      /\ Total(new) = Total(tx[r].priced) /\ \A p : Units(new, p) = Units(tx[r].priced, p)
    BY OwnItems, StoredItems, StoredSums
<1>3. /\ stock \in [Products -> Nat] /\ balance \in [Users -> Nat]
      /\ orderItems \in SUBSET OrderItem /\ orderItems \cap new = {}
    BY <1>1, <1>2 DEF TxInv, KeyInv, RowInv, TypeOK, RowsOK, OrderIsWhole
<1>4. OrderRow(r).id = r /\ OrderRow(r).userId = u /\ OrderRow(r).total = tx[r].total
    BY DEF OrderRow
<1>5. EventRow(r).total = tx[r].total /\ EventRow(r).items = tx[r].priced
    BY DEF EventRow
<1>6. Items(r)' = new /\ \A id \in OrderIds : Items(id)' = Items(id)
    BY CommitWhole
<1>7. IsFiniteSet(orderItems')
    BY <1>1, <1>2, FS_Union
<1> HIDE DEF new, u
<1>8. StockConserved'
    <2>1. ASSUME NEW p \in Products PROVE stock'[p] + Units(orderItems', p) = InitialStock[p]
        <3>1. Units(orderItems', p) = Units(orderItems, p) + Units(new, p)
            BY <1>1, <1>2, <1>3, SumsAdd
        <3>2. Units(orderItems, p) \in Nat /\ Units(new, p) \in Nat /\ stock[p] \in Nat
            BY <1>2, <1>3, UnitsFinite
        <3>3. stock'[p] = stock[p] - Units(new, p)
            BY <1>1, <1>2
        <3>4. stock[p] + Units(orderItems, p) = InitialStock[p]
            BY DEF GoodsAndMoneyConserved, StockConserved
        <3> QED BY <3>1, <3>2, <3>3, <3>4
    <2> QED BY <2>1 DEF StockConserved
<1>9. ASSUME NEW z \in Users PROVE balance'[z] + Total(Of(z)') = InitialBalance[z]
    <2>1. Of(z) \in SUBSET OrderItem /\ IsFiniteSet(Of(z)) /\ Total(Of(z)) \in Nat
        <3>1. Of(z) \in SUBSET OrderItem /\ IsFiniteSet(Of(z))
            BY <1>3, FS_Subset
        <3> QED BY <3>1, CentsFinite
    <2>2. balance[z] + Total(Of(z)) = InitialBalance[z] /\ balance[z] \in Nat
        BY <1>3 DEF GoodsAndMoneyConserved, MoneyConserved
    <2>3. CASE z = u
        <3>1. Of(z)' = Of(z) \cup new
            BY <1>1, <1>2, <1>4, <2>3 DEF OrderIsWhole, OrderIds
        <3>2. Of(z) \cap new = {}
            BY <1>3
        <3> HIDE DEF Of
        <3>3. Total(Of(z) \cup new) = Total(Of(z)) + Total(new) /\ Total(new) \in Nat
            BY <1>2, <2>1, <3>2, SumsAdd, CentsFinite
        <3>4. balance'[z] = balance[z] - Total(new)
            BY <1>1, <1>2, <1>3, <2>3
        <3> QED BY <2>1, <2>2, <3>1, <3>3, <3>4
    <2>4. CASE z # u
        <3>1. Of(z)' = Of(z)
            BY <1>1, <1>2, <1>4, <2>4 DEF OrderIsWhole, OrderIds
        <3>2. balance'[z] = balance[z]
            BY <1>1, <1>3, <2>4
        <3> QED BY <2>2, <3>1, <3>2
    <2> QED BY <2>3, <2>4
<1>10. ASSUME NEW o \in orders' PROVE o.total = Total(Items(o.id)')
    <2>1. CASE o \in orders
        <3>1. o.id \in OrderIds
            BY <2>1 DEF OrderIds
        <3> QED BY <1>6, <2>1, <3>1 DEF GoodsAndMoneyConserved, MoneyConserved
    <2>2. CASE o = OrderRow(r)
        BY <1>1, <1>2, <1>4, <1>6, <2>2
    <2> QED BY <1>1, <2>1, <2>2
<1>11. \A e \in outbox' : e.total = Total(e.items)
    BY <1>1, <1>5 DEF GoodsAndMoneyConserved, MoneyConserved
<1>12. MoneyConserved'
    BY <1>9, <1>10, <1>11 DEF MoneyConserved
<1> QED BY <1>7, <1>8, <1>12 DEF GoodsAndMoneyConserved

(***************************************************************************)
(* Answers                                                                 *)
(***************************************************************************)
AnswerTrue(r) ==
    /\ result[r] # None => pc[r] = "answered"
    /\ result[r] = "created" => returned[r] = r /\ r \in OrderIds
    /\ result[r] = "replay" =>
        /\ returned[r] \in OrderIds /\ returned[r] # r
        /\ SameKey(r, returned[r])
        /\ IsSameRequest(Items(returned[r]), Lines(r))
    /\ result[r] \in Refusals => r \notin OrderIds

LEMMA AnswerParts == (\A r \in Requests : AnswerTrue(r)) <=> AnsweredAtEnd /\ AnswersAreTrue
    BY DEF AnswerTrue, AnsweredAtEnd, AnswersAreTrue

(* An answer stays true when orders are added, because the order of a      *)
(* request is added by the request itself, before its answer.              *)
LEMMA AnswersKept ==
    ASSUME \A s \in Requests : AnswerTrue(s), NEW r \in Requests, input' = input,
           \A s \in Requests \ {r} : /\ pc'[s] = pc[s]
                                     /\ result'[s] = result[s] /\ returned'[s] = returned[s],
           OrderIds \subseteq OrderIds', OrderIds' \subseteq OrderIds \cup {r},
           \A id \in OrderIds : Items(id)' = Items(id),
           AnswerTrue(r)'
    PROVE  \A s \in Requests : AnswerTrue(s)'
<1>1. ASSUME NEW s \in Requests \ {r} PROVE AnswerTrue(s)'
    BY DEF AnswerTrue, SameKey, Lines
<1> QED BY <1>1

(* The answer of a lookup by the key: an order of another request of this  *)
(* buyer under this key, with these lines, or a refusal.                   *)
LEMMA ExistingIsTrue ==
    ASSUME TxInv, NEW r \in Requests, pc[r] \in {"findExisting", "findWinner"},
           ReplyWithExisting(r), UNCHANGED <<input, committed>>
    PROVE  AnswerTrue(r)'
<1>t. /\ pc \in [Requests -> Steps] /\ result \in [Requests -> Results]
      /\ returned \in [Requests -> Requests \cup {None}]
    BY DEF TxInv, KeyInv, RowInv, TypeOK, ControlOK
<1>1. PICK o \in FindByIdempotencyKey(r) :
        \/ IsSameRequest(Items(o.id), Lines(r)) /\ Reply(r, "replay", o.id)
        \/ Reply(r, "keyReused", None)
    BY DEF ReplyWithExisting
<1>2. /\ o \in orders /\ o.id \in OrderIds
      /\ input[r].idempotencyKey # NoKey
      /\ o.idempotencyKey = input[r].idempotencyKey /\ o.userId = input[r].userId
    BY <1>1 DEF FindByIdempotencyKey, KeyRows, OrderIds
<1>3. r \notin OrderIds
    BY DEF TxInv, KeyInv, Phases
<1>4. SameKey(r, o.id)
    BY <1>2 DEF SameKey, TxInv, KeyInv, OrdersFaithful
<1>5. /\ OrderIds' = OrderIds /\ \A id : Items(id)' = Items(id) /\ Lines(id)' = Lines(id)
      /\ \A s, z : SameKey(s, z)' <=> SameKey(s, z)
    BY DEF OrderIds, Items, Lines, SameKey, committed
<1>6. CASE IsSameRequest(Items(o.id), Lines(r)) /\ Reply(r, "replay", o.id)
    <2>1. pc'[r] = "answered" /\ result'[r] = "replay" /\ returned'[r] = o.id
        BY <1>6, <1>t DEF Reply
    <2> QED BY <1>2, <1>3, <1>4, <1>5, <1>6, <2>1 DEF AnswerTrue, Refusals
<1>7. CASE Reply(r, "keyReused", None)
    <2>1. pc'[r] = "answered" /\ result'[r] = "keyReused"
        BY <1>7, <1>t DEF Reply
    <2> QED BY <1>3, <1>5, <2>1 DEF AnswerTrue
<1> QED BY <1>1, <1>6, <1>7

(***************************************************************************)
(* The invariant of the checkout                                           *)
(***************************************************************************)
LEMMA OrderInit == Init => OrderInv
<1> SUFFICES ASSUME Init PROVE OrderInv
    OBVIOUS
<1>1. TxInv
    <2>1. \A r \in Requests : TxFaithful(r)
        BY NoUnits DEF Init, NoTx, TxFaithful
    <2>2. \A r \in Requests : TxPhase(r)
        BY DEF Init, TxPhase, TxSteps
    <2> QED BY <2>1, <2>2, KeyInit DEF TxInv
<1>2. IsFiniteSet(orderItems) /\ OrderIsWhole
    BY FS_EmptySet DEF Init, OrderIsWhole
<1>3. GoodsAndMoneyConserved
    <2>1. StockConserved
        BY NoUnits, CheckoutAssumption DEF Init, StockConserved
    <2>2. \A u \in Users : balance[u] + Total({}) = InitialBalance[u]
        BY NoCents, CheckoutAssumption DEF Init
    <2>3. \A u : {x \in orderItems : \E o \in orders : o.id = x.orderId /\ o.userId = u} = {}
        BY DEF Init
    <2>4. MoneyConserved
        BY <2>2, <2>3 DEF Init, MoneyConserved
    <2> QED BY <2>1, <2>4 DEF GoodsAndMoneyConserved
<1>4. AnsweredAtEnd /\ AnswersAreTrue
    BY CheckoutAssumption DEF Init, AnsweredAtEnd, AnswersAreTrue
<1> QED BY <1>1, <1>2, <1>3, <1>4 DEF OrderInv

(* Steps that commit nothing leave what is committed whole.                *)
LEMMA NothingCommitted ==
    ASSUME OrderInv, UNCHANGED <<input, committed>>,
           \A j \in cardJobs' \ cardJobs :
                \E x \in orderItems : x.orderId = j.orderId /\ x.productId = j.productId
    PROVE  /\ IsFiniteSet(orderItems)' /\ OrderIsWhole' /\ GoodsAndMoneyConserved'
           /\ OrderIds' = OrderIds /\ \A id \in OrderIds : Items(id)' = Items(id)
<1>0. UNCHANGED <<input, stock, balance, orders, orderItems, jobs, outbox>>
    BY DEF committed
<1>1. /\ OrderIds' = OrderIds
      /\ \A id : Items(id)' = Items(id) /\ Lines(id)' = Lines(id) /\ JobRow(id)' = JobRow(id)
    BY <1>0 DEF OrderIds, Items, Lines, JobRow
<1>2. OrderIsWhole'
    BY <1>0, <1>1 DEF OrderInv, OrderIsWhole
<1>3. StockConserved' /\ MoneyConserved'
    BY <1>0, <1>1 DEF OrderInv, GoodsAndMoneyConserved, StockConserved, MoneyConserved
<1> QED BY <1>0, <1>1, <1>2, <1>3 DEF OrderInv, GoodsAndMoneyConserved

LEMMA OrderNext ==
    ASSUME OrderInv, [Next]_vars
    PROVE  OrderInv'
<1>0. TxInv /\ TxInv' /\ \A s \in Requests : AnswerTrue(s)
    BY TxNext, AnswerParts DEF OrderInv
<1>t. /\ pc \in [Requests -> Steps] /\ result \in [Requests -> Results]
      /\ returned \in [Requests -> Requests \cup {None}]
    BY <1>0 DEF TxInv, KeyInv, RowInv, TypeOK, ControlOK
<1>a. (\A s \in Requests : AnswerTrue(s)') => AnsweredAtEnd' /\ AnswersAreTrue'
    BY DEF AnswerTrue, AnsweredAtEnd, AnswersAreTrue
<1>1. ASSUME NEW r \in Requests, UNCHANGED <<input, committed, cardJobs>>,
             \A s \in Requests \ {r} : /\ pc'[s] = pc[s]
                                       /\ result'[s] = result[s] /\ returned'[s] = returned[s],
             AnswerTrue(r)'
      PROVE  OrderInv'
    BY <1>0, <1>a, <1>1, NothingCommitted, AnswersKept DEF OrderInv
<1>2. ASSUME NEW r \in Requests, NEW outcome \in Refusals \cup {"error"}, Reply(r, outcome, None),
             UNCHANGED <<input, committed, cardJobs>>,
             outcome # "error" => r \notin OrderIds
      PROVE  OrderInv'
    <2>1. /\ pc'[r] = "answered" /\ result'[r] = outcome
          /\ \A s \in Requests \ {r} : pc'[s] = pc[s] /\ result'[s] = result[s] /\ returned'[s] = returned[s]
        BY <1>t, <1>2 DEF Reply
    <2>2. OrderIds' = OrderIds
        BY <1>2 DEF OrderIds, committed
    <2>3. outcome \notin {"created", "replay"}
        BY DEF Refusals
    <2>4. AnswerTrue(r)'
        BY <1>2, <2>1, <2>2, <2>3 DEF AnswerTrue, Refusals
    <2> QED BY <1>1, <1>2, <2>1, <2>4
<1>3. ASSUME NEW r \in Requests, NEW step \in Steps, Goto(r, step), pc[r] # "answered",
             UNCHANGED <<input, committed, cardJobs>>
      PROVE  OrderInv'
    <2>1. result[r] = None /\ result' = result /\ returned' = returned
        BY <1>0, <1>3 DEF AnswerTrue, Goto, answers
    <2>2. \A s \in Requests \ {r} : pc'[s] = pc[s]
        BY <1>t, <1>3 DEF Goto
    <2>3. AnswerTrue(r)'
        BY <2>1, CheckoutAssumption DEF AnswerTrue
    <2> QED BY <1>1, <1>3, <2>1, <2>2, <2>3
<1>s. \A step \in {"validate", "lines", "orders", "orderItems", "jobs", "outbox", "commit", "findWinner", "refresh"} :
        step \in Steps
    BY DEF Steps, TxSteps
<1>4. ASSUME NEW r \in Requests, Step(r) PROVE OrderInv'
    <2>0. r \in OrderIds => pc[r] \in {"readBack", "refresh", "answered"}
        BY <1>0 DEF TxInv, KeyInv, Phases
    <2>1. CASE FindExisting(r) \/ FindWinner(r)
        <3>1. CASE ReplyWithExisting(r)
            <4>1. UNCHANGED <<input, committed, cardJobs>> /\ pc[r] \in {"findExisting", "findWinner"}
                BY <2>1 DEF FindExisting, FindWinner
            <4>2. \A s \in Requests \ {r} : pc'[s] = pc[s] /\ result'[s] = result[s] /\ returned'[s] = returned[s]
                BY <1>t, <3>1 DEF ReplyWithExisting, Reply
            <4> QED BY <1>0, <1>1, <3>1, <4>1, <4>2, ExistingIsTrue
        <3>2. CASE Goto(r, "validate")
            BY <1>3, <1>s, <2>1, <3>2 DEF FindExisting, FindWinner
        <3>3. CASE Reply(r, "error", None)
            BY <1>2, <2>1, <3>3 DEF FindExisting, FindWinner
        <3> QED BY <2>1, <3>1, <3>2, <3>3 DEF FindExisting, FindWinner
    <2>2. CASE Validate(r)
        <3>1. CASE Goto(r, "lines")
            BY <1>3, <1>s, <2>2, <3>1 DEF Validate
        <3>2. CASE Reply(r, "error", None)
            BY <1>2, <2>2, <3>2 DEF Validate
        <3> QED BY <2>2, <3>1, <3>2 DEF Validate
    <2>3. CASE TakeStock(r)
        <3>1. UNCHANGED <<input, committed, cardJobs, pc, answers>>
            BY <2>3 DEF TakeStock
        <3>2. AnswerTrue(r)'
            BY <1>0, <3>1 DEF AnswerTrue, OrderIds, SameKey, Items, Lines, committed, answers
        <3> QED BY <1>1, <3>1, <3>2 DEF answers
    <2>4. CASE RefuseLine(r) \/ RefuseDebit(r)
        <3>1. /\ UNCHANGED <<input, committed, cardJobs>> /\ pc[r] = "lines"
              /\ \E outcome \in Refusals : Reply(r, outcome, None)
            BY <2>4 DEF RefuseLine, RefuseDebit, Refusals
        <3> QED BY <1>2, <2>0, <3>1
    <2>5. CASE DebitUser(r) \/ InsertOrder(r) \/ InsertItems(r) \/ InsertJob(r) \/ InsertOutbox(r)
        <3>1. /\ UNCHANGED <<input, committed, cardJobs>> /\ pc[r] # "answered"
              /\ \E step \in Steps : Goto(r, step)
            BY <1>s, <2>5 DEF DebitUser, InsertOrder, InsertItems, InsertJob, InsertOutbox, InsertRows
        <3> QED BY <1>3, <3>1
    <2>6. CASE Commit(r)
        <3>1. /\ pc[r] = "commit" /\ input' = input /\ answers' = answers
              /\ \A s \in Requests \ {r} : pc'[s] = pc[s]
            BY <1>t, <2>6 DEF Commit, Goto
        <3>2. result[r] = None
            BY <1>0, <3>1 DEF AnswerTrue
        <3>3. AnswerTrue(r)'
            BY <3>1, <3>2, CheckoutAssumption DEF AnswerTrue, answers
        <3>4. /\ OrderIsWhole' /\ OrderIds' = OrderIds \cup {r}
              /\ \A id \in OrderIds : Items(id)' = Items(id)
            BY <1>0, <2>6, CommitWhole DEF OrderInv
        <3>5. GoodsAndMoneyConserved' /\ IsFiniteSet(orderItems)'
            BY <1>0, <2>6, CommitConserves DEF OrderInv
        <3>6. \A s \in Requests : AnswerTrue(s)'
            BY <1>0, <3>1, <3>3, <3>4, AnswersKept DEF answers
        <3> QED BY <1>0, <1>a, <3>4, <3>5, <3>6 DEF OrderInv
    <2>7. CASE ReadBack(r)
        <3>1. CASE Goto(r, "refresh")
            BY <1>3, <1>s, <2>7, <3>1 DEF ReadBack
        <3>2. CASE Reply(r, "error", None)
            BY <1>2, <2>7, <3>2 DEF ReadBack
        <3> QED BY <2>7, <3>1, <3>2 DEF ReadBack
    <2>8. CASE RefreshCards(r)
        <3>1. UNCHANGED <<input, committed>> /\ pc[r] = "refresh" /\ Reply(r, "created", r)
            BY <2>8 DEF RefreshCards
        <3>2. \A j \in cardJobs' \ cardJobs :
                \E x \in orderItems : x.orderId = j.orderId /\ x.productId = j.productId
            BY <2>8 DEF RefreshCards, Items
        <3>3. /\ IsFiniteSet(orderItems)' /\ OrderIsWhole' /\ GoodsAndMoneyConserved'
              /\ OrderIds' = OrderIds /\ \A id \in OrderIds : Items(id)' = Items(id)
            BY <3>1, <3>2, NothingCommitted
        <3>4. r \in OrderIds
            BY <1>0, <3>1 DEF TxInv, KeyInv, Phases
        <3>5. /\ pc'[r] = "answered" /\ result'[r] = "created" /\ returned'[r] = r
              /\ \A s \in Requests \ {r} : pc'[s] = pc[s] /\ result'[s] = result[s] /\ returned'[s] = returned[s]
            BY <1>t, <3>1 DEF Reply
        <3>6. AnswerTrue(r)'
            BY <3>3, <3>4, <3>5 DEF AnswerTrue, Refusals
        <3>7. \A s \in Requests : AnswerTrue(s)'
            BY <1>0, <3>1, <3>3, <3>5, <3>6, AnswersKept
        <3> QED BY <1>0, <1>a, <3>3, <3>7 DEF OrderInv
    <2> QED BY <1>4, <2>1, <2>2, <2>3, <2>4, <2>5, <2>6, <2>7, <2>8 DEF Step
<1>5. ASSUME NEW r \in Requests, Fail(r) PROVE OrderInv'
    BY <1>2, <1>5 DEF Fail
<1>6. CASE UNCHANGED vars
    <2>1. UNCHANGED <<input, committed, cardJobs>> /\ UNCHANGED <<pc, result, returned>>
        BY <1>6 DEF vars, answers
    <2>2. /\ IsFiniteSet(orderItems)' /\ OrderIsWhole' /\ GoodsAndMoneyConserved'
        BY <2>1, NothingCommitted
    <2>3. \A s \in Requests : AnswerTrue(s)'
        BY <1>0, <2>1 DEF AnswerTrue, OrderIds, SameKey, Items, Lines, committed
    <2> QED BY <1>0, <1>a, <2>2, <2>3 DEF OrderInv
<1> QED BY <1>4, <1>5, <1>6 DEF Next, Done

LEMMA OrderInvariant == Spec => []OrderInv
    BY OrderInit, OrderNext, PTL DEF Spec

(* checkout-transaction.ts: goods and money neither appear nor vanish, for *)
(* any catalogue, requests and interleaving: what the stock and the        *)
(* balances lack is what the items of the committed orders say.            *)
THEOREM GoodsAndMoneyAreConserved == Spec => []GoodsAndMoneyConserved
<1>1. OrderInv => GoodsAndMoneyConserved
    BY DEF OrderInv
<1> QED BY <1>1, OrderInvariant, PTL

(* checkout-transaction.ts: order, items, job and outbox event are         *)
(* committed together or not at all.                                       *)
THEOREM OrdersAreWhole == Spec => []OrderIsWhole
<1>1. OrderInv => OrderIsWhole
    BY DEF OrderInv
<1> QED BY <1>1, OrderInvariant, PTL

(* place-order.service.ts: 201, replay and every refusal tell the truth    *)
(* about what was committed, then and for ever.                            *)
THEOREM AnswersStayTrue == Spec => []AnswersAreTrue
<1>1. OrderInv => AnswersAreTrue
    BY DEF OrderInv
<1> QED BY <1>1, OrderInvariant, PTL

-----------------------------------------------------------------------------
(* Refinement of OrderBook *)

(* The operators the two specifications share mean the same in both.       *)
LEMMA BookSums ==
    ASSUME NEW items
    PROVE  (\A p : Book!Units(items, p) = Units(items, p)) /\ Book!Total(items) = Total(items)
<1>1. \A S : Book!Cardinality(S) = Cardinality(S)
    BY Zenon DEF Book!Cardinality, Cardinality
<1> QED BY <1>1 DEF Book!Units, Units, Book!UnitSet, UnitSet, Book!Total, Total, Book!CentSet, CentSet

LEMMA BookBought ==
    ASSUME NEW r
    PROVE  /\ Book!Bought(r) = ItemsOf(r, Lines(r))
           /\ Book!ValidLines(input[r].items) <=> ValidLines(Lines(r))
           /\ \A s : Book!SameKey(r, s) <=> SameKey(r, s)
    BY DEF Book!Bought, Book!ItemsOf, ItemsOf, Book!Stored, Stored, Book!PricedLine, PricedLine,
           Book!ValidLines, ValidLines, Lines, Book!SameKey, SameKey

(* The commit is the purchase of OrderBook: stock and balance cover it,    *)
(* and no order has the key.                                               *)
LEMMA CommitIsPlace ==
    ASSUME OrderInv, NEW r \in Requests, Commit(r)
    PROVE  Book!Place(r)
<1> USE DEF OrderInv
<1> DEFINE bought == ItemsOf(r, Lines(r))
           placedBar == OrderIds
           eventsBar == {e.aggregateId : e \in outbox}
<1>1. /\ orders' = orders \cup {OrderRow(r)} /\ outbox' = outbox \cup {EventRow(r)}
      /\ stock' = [p \in Products |-> stock[p] - Units(tx[r].priced, p)]
      /\ balance' = [balance EXCEPT ![input[r].userId] = @ - Total(tx[r].priced)]
      /\ input[r].userId \in Users
      /\ tx[r].total = Total(tx[r].priced)
      /\ r \notin OrderIds /\ input' = input /\ pc[r] = "commit"
    BY CommitWrites DEF Commit
<1>2. Total(bought) = Total(tx[r].priced) /\ \A p : Units(bought, p) = Units(tx[r].priced, p)
    BY <1>1, OwnItems, StoredItems, StoredSums
<1>3. ValidLines(Lines(r)) /\ Unpriced(r) = {}
    BY <1>1 DEF TxInv, TxPhase, TxSteps
<1>4. \A i \in DOMAIN Lines(r) : Product(r, i) \in Products
    BY <1>3 DEF TxInv, TxFaithful, Unpriced, PricedLine
<1>5. \A s \in OrderIds : ~SameKey(r, s)
    <2>1. KeyRows(r) = {}
        BY <1>1 DEF TxInv, KeyInv, Phases, KeyReserved
    <2> QED BY <2>1 DEF KeyRows, OrderIds, SameKey, TxInv, KeyInv, OrdersFaithful
<1>6. stock \in [Products -> Nat] /\ balance \in [Users -> Nat] /\ tx[r] \in TxRecord
    BY DEF TxInv, KeyInv, RowInv, TypeOK, RowsOK
<1>7. \A p \in Products : Units(bought, p) <= stock[p]
    BY <1>2 DEF TxInv, TxFaithful, KeyInv, RowInv, RowVersionsSafe
<1>8. Total(bought) <= balance[input[r].userId]
    <2>1. tx[r].total > 0 => tx[r].total <= balance[input[r].userId]
        BY DEF TxInv, KeyInv, RowInv, RowVersionsSafe
    <2>2. tx[r].total \in Nat /\ balance[input[r].userId] \in Nat
        BY <1>1, <1>6 DEF TxRecord
    <2> QED BY <1>1, <1>2, <2>1, <2>2
<1>9. OrderIds' = OrderIds \cup {r}
    BY CommitWhole
<1>10. eventsBar' = eventsBar \cup {r}
    <2>1. EventRow(r).aggregateId = r
        BY DEF EventRow
    <2> QED BY <1>1, <2>1
<1>11. /\ Book!Bought(r) = bought
       /\ Book!ValidLines(input[r].items) <=> ValidLines(Lines(r))
       /\ \A s : Book!SameKey(r, s) <=> SameKey(r, s)
       /\ Book!Total(bought) = Total(bought) /\ \A p : Book!Units(bought, p) = Units(bought, p)
    BY BookBought, BookSums
<1> HIDE DEF bought
<1> QED BY <1>1, <1>2, <1>3, <1>4, <1>5, <1>6, <1>7, <1>8, <1>9, <1>10, <1>11
        DEF Book!Place, Product, Lines

LEMMA BookStart == Init => Book!BookInit
    BY DEF Init, Book!BookInit, OrderIds

LEMMA BookStep ==
    ASSUME OrderInv, [Next]_vars
    PROVE  [Book!BookNext]_(Book!bookVars)
<1>1. ASSUME UNCHANGED <<input, committed>> PROVE UNCHANGED Book!bookVars
    BY <1>1 DEF committed, Book!bookVars, OrderIds
<1>2. ASSUME NEW r \in Requests, Step(r) PROVE Commit(r) \/ UNCHANGED <<input, committed>>
    BY <1>2 DEF Step, FindExisting, Validate, TakeStock, RefuseLine, DebitUser, RefuseDebit, InsertOrder,
                InsertItems, InsertJob, InsertOutbox, InsertRows, ReadBack, RefreshCards, FindWinner
<1>3. ASSUME NEW r \in Requests, Fail(r) PROVE UNCHANGED <<input, committed>>
    BY <1>3 DEF Fail
<1>4. CASE UNCHANGED vars
    BY <1>1, <1>4 DEF vars
<1> QED BY <1>1, <1>2, <1>3, <1>4, CommitIsPlace DEF Next, Done, Book!BookNext

(* The purchase is atomic: statement by statement, with locks, retries and *)
(* failures, place() implements OrderBook, in which a purchase is a single *)
(* step that takes the stock, the money and the key.                       *)
THEOREM OrderBookImplemented == Spec => ImplementsOrderBook
<1> QED BY BookStart, BookStep, OrderInvariant, PTL DEF Spec, ImplementsOrderBook, Book!BookSpec
==============================================================================
