------------------------------- MODULE Products -------------------------------
(***************************************************************************)
(* The products controller: GET /products/:id behind the rate limiter and  *)
(* POST /products behind the idempotency records.  The sorted set is in    *)
(* Redis, the records are in memory and the rows in PostgreSQL: the two    *)
(* share no state and interleave freely.                                   *)
(***************************************************************************)
EXTENDS RateLimiter

CONSTANTS Instances, Keys, None, Posts, Contents, Spellings, NameOf, MaxRestarts

VARIABLES products, records, posted, restarts

postVars == <<products, records, posted, restarts>>

Post == INSTANCE ProductIdempotency WITH Requests <- Posts, req <- posted

ASSUME ProductsAssumption == Post!ProductIdempotencyAssumption

ProductsInit == Init /\ Post!Init

ProductsNext ==
    \/ Next /\ UNCHANGED postVars
    \/ Post!Next /\ UNCHANGED vars

ProductsSpec == ProductsInit /\ [][ProductsNext]_<<vars, postVars>>

-----------------------------------------------------------------------------
(* POST: one product at most comes of a body, one answer claims it, and a  *)
(* 201 names a product made from the request's own body.                   *)
CreatesAreExact == Post!CreatesAreExact

(* POST: a repeat that comes after the 201 gets the same product again.    *)
LaterRetryIsReplayed == Post!LaterRetryIsReplayed
===============================================================================
