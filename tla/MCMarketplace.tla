---------------------------- MODULE MCMarketplace ----------------------------
(* An instance of Marketplace for TLC: one product with two units.         *)
EXTENDS Marketplace, TLC

MCProducts       == {1}
MCPrice          == [p \in MCProducts |-> 1]
MCNumber         == [t \in {"1"} |-> 1]
MCBigintText     == [p \in MCProducts |-> "1"]
MCInitialStock   == [p \in MCProducts |-> 2]
MCUsers          == {"ann", "bob"}
MCInitialBalance == [u \in MCUsers |-> 2]

Buy(u, q) == [userId |-> u, idempotencyKey |-> "k", items |-> <<[productId |-> "1", quantity |-> q]>>]

MCInputs == {Buy("ann", 1), Buy("bob", 2)}

(* A purchase that is sent twice, and two buyers of whom one gets nothing. *)
PairInit == MarketInit /\ input[1] = Buy("ann", 1)

PairSpec == PairInit /\ [][MarketNext]_marketVars /\ MarketFairness
==============================================================================
