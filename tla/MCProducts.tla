------------------------------- MODULE MCProducts -------------------------------
(***************************************************************************)
(* The products controller for TLC.  As GET and POST share nothing, one of *)
(* them is served at a time: the initial state chooses it and the other    *)
(* stays where it is.                                                      *)
(***************************************************************************)
EXTENDS Products, TLC

CONSTANTS i1, k1, cheap, dear, other, lamp, chair

VARIABLE method

(* Two bodies name the same product, with different prices.                *)
TwoNames == (cheap :> lamp) @@ (dear :> lamp) @@ (other :> chair)

BothOrders == {"asc", "desc"}

(* Bound on the number of POST requests; the first of them goes to i1 with *)
(* the key k1, as instances and keys are interchangeable.                  *)
FewPosts ==
    LET posts == {r \in Posts : posted'[r].pc # "idle"} IN
    /\ Cardinality(posts) <= 3
    /\ posts # {} => \E p, q \in posts : posted'[p].at = i1 /\ posted'[q].key = k1

ChosenInit == ProductsInit /\ method \in {"GET", "POST"}

ChosenNext ==
    /\ \/ method = "GET" /\ Next /\ UNCHANGED postVars
       \/ method = "POST" /\ Post!Next /\ FewPosts /\ UNCHANGED vars
    /\ UNCHANGED method

ChosenSpec == ChosenInit /\ [][ChosenNext]_<<vars, postVars, method>>

Symmetry == Permutations(Requests)
=================================================================================
