----------------------------- MODULE MCCheckout -----------------------------
(***************************************************************************)
(* Small instances of Checkout.  Product 1 has two spellings; 9 is the id  *)
(* of a product that does not exist, "ghost" a user whose row is gone.     *)
(***************************************************************************)
EXTENDS Checkout, TLC

MCProducts   == {1, 2}
MCPrice      == [p \in MCProducts |-> p]
MCNumber     == [t \in {"1", "01", "2", "9"} |->
                    CASE t \in {"1", "01"} -> 1 [] t = "2" -> 2 [] t = "9" -> 9]
MCBigintText == [p \in MCProducts |-> IF p = 1 THEN "1" ELSE "2"]

MCUsers          == {"ann", "bob"}
MCInitialStock   == [p \in MCProducts |-> 2]
MCInitialBalance == [u \in MCUsers |-> 6]

L(t, q) == [productId |-> t, quantity |-> q]
Call(u, k, lines) == [userId |-> u, idempotencyKey |-> k, items |-> lines]

(* Two buyers meet on two products in opposite orders, under one key; one  *)
(* request has two lines and two spellings of the same product, one has an *)
(* empty key.                                                              *)
RaceInputs ==
    <<Call("ann", "k", <<L("1", 1), L("2", 1)>>),
      Call("ann", "k", <<L("2", 1), L("1", 1)>>),
      Call("ann", "k", <<L("1", 2)>>),
      Call("bob", "k", <<L("2", 1), L("1", 1)>>),
      Call("ann", EmptyKey, <<L("1", 1)>>),
      Call("bob", NoKey, <<L("01", 1), L("1", 1)>>)>>

(* What is refused: empty and non-positive lines, unknown ids.             *)
RefusedInputs ==
    <<Call("ann", "k", <<>>),
      Call("ann", "k", <<L("1", 0)>>),
      Call("ann", "k", <<L("9", 1), L("1", 1)>>),
      Call("ghost", "k", <<L("2", 1)>>)>>

InputList == RaceInputs \o RefusedInputs
AllInputs == {InputList[n] : n \in DOMAIN InputList}

Rank(i) == CHOOSE n \in DOMAIN InputList : InputList[n] = i

(* Requests are interchangeable, so it is enough to give them their inputs *)
(* in one order.  Unlike SYMMETRY this may be used with liveness.          *)
RaceInit == Init /\ \A r, q \in Requests : r < q => Rank(input[r]) <= Rank(input[q])

RaceSpec == RaceInit /\ [][Next]_vars /\ Fairness

(* The last units of product 2, which one request takes.                   *)
LastUnitInputs == {Call("ann", "k", <<L("2", 2)>>)}

(* A body that spells product 1 with a leading zero.                       *)
SpellingInputs == {Call("ann", "k", <<L("01", 1)>>)}
=============================================================================
