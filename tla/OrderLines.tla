----------------------------- MODULE OrderLines -----------------------------
(***************************************************************************)
(* The lines of a checkout: the catalogue they refer to, the order item    *)
(* each of them becomes, and what the items of an order add up to.         *)
(*                                                                         *)
(* A product id arrives as text and is stored as a bigint, so the same     *)
(* product has several spellings ("1", "01") and one canonical spelling,   *)
(* the one the database returns.                                           *)
(***************************************************************************)
EXTENDS Naturals, Sequences, FiniteSets

CONSTANTS
    Products,       \* ids of the rows of the products table
    Price,          \* price[p], an integer greater than 0
    Number,         \* the number a spelling of a product id denotes
    BigintText      \* the canonical spelling of a product id

Texts == DOMAIN Number

CheckoutLine == [productId : Texts, quantity : Nat]

ASSUME CatalogueAssumption ==
    /\ Products \subseteq Nat
    /\ Price \in [Products -> Nat \ {0}]
    /\ \A t \in Texts : Number[t] \in Nat
    /\ BigintText \in [Products -> Texts]
    /\ \A p \in Products : Number[BigintText[p]] = p

(***************************************************************************)
(* What the transaction remembers of line i of the request `id': the       *)
(* product as the request spells it, and the price the UPDATE returned.    *)
(* The order item stored for it has the canonical spelling.                *)
(***************************************************************************)
PricedLine(id, lines, i) ==
    [orderId   |-> id,
     line      |-> i,
     productId |-> lines[i].productId,
     quantity  |-> lines[i].quantity,
     unitPrice |-> Price[Number[lines[i].productId]]]

Stored(priced) == {[x EXCEPT !.productId = BigintText[Number[x.productId]]] : x \in priced}

ItemsOf(id, lines) == Stored({PricedLine(id, lines, i) : i \in DOMAIN lines})

(***************************************************************************)
(* Sums over a set of items, written as the number of elements of the set  *)
(* of its single units (or cents).                                         *)
(***************************************************************************)
UnitSet(items, p) ==
    UNION {{x} \X (1 .. x.quantity) : x \in {y \in items : Number[y.productId] = p}}

CentSet(items) == UNION {{x} \X (1 .. x.quantity * x.unitPrice) : x \in items}

Units(items, p) == Cardinality(UnitSet(items, p))

Total(items) == Cardinality(CentSet(items))

(***************************************************************************)
(* validateLines: what it demands of a request, and the order in which     *)
(* the transaction visits the lines (a stable sort by product number).     *)
(***************************************************************************)
ValidLines(lines) ==
    /\ Len(lines) > 0
    /\ \A i \in DOMAIN lines : lines[i].quantity > 0

(* Mutant: the lines are visited in the order of the request.              *)
SortsByPosition(lines, i, j) == i < j

SortsBefore(lines, i, j) ==
    LET a == Number[lines[i].productId]
        b == Number[lines[j].productId]
    IN  a < b \/ (a = b /\ i < j)

(***************************************************************************)
(* isSameRequest: the stored items and the lines of a request, as bags of  *)
(* (spelling, quantity), are equal.                                        *)
(***************************************************************************)
IsSameRequest(items, lines) ==
    LET stored(t, q)    == {x \in items : x.productId = t /\ x.quantity = q}
        requested(t, q) == {i \in DOMAIN lines : lines[i] = [productId |-> t, quantity |-> q]}
        pairs == {<<x.productId, x.quantity>> : x \in items}
                    \cup {<<lines[i].productId, lines[i].quantity>> : i \in DOMAIN lines}
    IN  \A pair \in pairs :
            Cardinality(stored(pair[1], pair[2])) = Cardinality(requested(pair[1], pair[2]))

=============================================================================
