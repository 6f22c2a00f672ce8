-------------------------- MODULE ProductIdempotency --------------------------
(***************************************************************************)
(* POST /products: handleIdempotency keeps its records in the memory of    *)
(* one instance of the API, the products are in PostgreSQL, where their    *)
(* names are unique.  Between the look at the records and the new record   *)
(* the handler waits for the INSERT, so requests with one key may overlap. *)
(*                                                                         *)
(* A body is what it says and how it is written: the order of its JSON     *)
(* members.  The fingerprint is taken of the canonical form.               *)
(***************************************************************************)
EXTENDS Naturals, FiniteSets

CONSTANTS
    Instances, Keys, None,
    Requests,          \* HTTP requests that passed the guards and validation
    Contents,          \* what a body says
    Spellings,         \* how it is written
    NameOf,            \* name of the product in a body
    MaxRestarts        \* bound on restarts of instances

ProductIdempotencyAssumption ==
    /\ IsFiniteSet(Requests)
    /\ None \notin Instances \cup Keys
    /\ None \notin [fingerprint : Contents, response : Nat]
    /\ MaxRestarts \in Nat

Bodies == [says : Contents, written : Spellings]

VARIABLES
    products,      \* contents of the rows of products, by id
    records,       \* records[i][k]: [fingerprint, response] or None
    req,           \* every request and its answer
    restarts

vars == <<products, records, req, restarts>>

NotSent == [pc |-> "idle", at |-> None, key |-> None, body |-> None,
            id |-> 0, status |-> 0, replay |-> FALSE]

Init ==
    /\ products = [n \in {} |-> None]
    /\ records = [i \in Instances |-> [k \in Keys |-> None]]
    /\ req = [r \in Requests |-> NotSent]
    /\ restarts = 0

(* Mutant: the members are hashed in the order they came in.               *)
RawFingerprint(b) == b

(* createFingerprint: canonicalize sorts the members.                      *)
createFingerprint(b) == b.says

Answered(q, id, status, replay) ==
    [q EXCEPT !.pc = "over", !.id = id, !.status = status, !.replay = replay]

(* The answer from a record.                                               *)
FromRecord(q, rec) ==
    IF rec.fingerprint = createFingerprint(q.body)
    THEN Answered(q, rec.response, 201, TRUE)
    ELSE Answered(q, 0, 422, FALSE)

(* handleIdempotency up to its await.                                      *)
Receive(r, i, k, b) ==
    LET q == [NotSent EXCEPT !.pc = "creating", !.at = i, !.key = k, !.body = b] IN
    /\ req[r].pc = "idle"
    /\ req' = [req EXCEPT ![r] = IF records[i][k] = None THEN q ELSE FromRecord(q, records[i][k])]
    /\ UNCHANGED <<products, records, restarts>>

(* Mutant: no unique index.                                                *)
AlwaysFree(name) == TRUE

(* products.name is unique.                                                *)
NameIsFree(name) == \A n \in DOMAIN products : NameOf[products[n]] # name

(* The INSERT of ProductsRepository.create commits.                        *)
Insert(r) ==
    LET c == req[r].body.says
        id == Cardinality(DOMAIN products) + 1
    IN  /\ req[r].pc = "creating" /\ NameIsFree(NameOf[c])
        /\ products' = [n \in DOMAIN products \cup {id} |-> IF n = id THEN c ELSE products[n]]
        /\ req' = [req EXCEPT ![r].pc = "created", ![r].id = id]
        /\ UNCHANGED <<records, restarts>>

(* 23505 is no HttpException: 500.                                         *)
InsertFails(r) ==
    /\ req[r].pc = "creating" /\ ~NameIsFree(NameOf[req[r].body.says])
    /\ req' = [req EXCEPT ![r] = Answered(@, 0, 500, FALSE)]
    /\ UNCHANGED <<products, records, restarts>>

(* saveIdempotencyRecord overwrites.                                       *)
NewRecord(r) == [fingerprint |-> createFingerprint(req[r].body), response |-> req[r].id]

(* The rest of handleIdempotency and the answer.                           *)
Save(r) ==
    /\ req[r].pc = "created"
    /\ records' = [records EXCEPT ![req[r].at][req[r].key] = NewRecord(r)]
    /\ req' = [req EXCEPT ![r] = Answered(@, @.id, 201, FALSE)]
    /\ UNCHANGED <<products, restarts>>

(* An instance restarts: its records and its open requests are gone.       *)
Restart(i) ==
    /\ restarts < MaxRestarts
    /\ restarts' = restarts + 1
    /\ records' = [records EXCEPT ![i] = [k \in Keys |-> None]]
    /\ req' = [r \in Requests |->
                  IF req[r].at = i /\ req[r].pc \in {"creating", "created"}
                  THEN Answered(req[r], 0, 0, FALSE) ELSE req[r]]
    /\ UNCHANGED products

Next ==
    \/ \E r \in Requests, i \in Instances, k \in Keys, b \in Bodies : Receive(r, i, k, b)
    \/ \E r \in Requests : Insert(r) \/ InsertFails(r) \/ Save(r)
    \/ \E i \in Instances : Restart(i)

Spec == Init /\ [][Next]_vars

-----------------------------------------------------------------------------
(* Properties                                                              *)

(* The types of the variables.  A request has its status when it is over,  *)
(* 0 if its instance died.                                                 *)
TypeOK ==
    /\ \A n \in DOMAIN products : n \in 1..Cardinality(Requests) /\ products[n] \in Contents
    /\ \A i \in Instances, k \in Keys :
        records[i][k] = None \/
        (records[i][k].fingerprint \in Contents /\ records[i][k].response \in DOMAIN products)
    /\ \A r \in Requests :
        /\ req[r].pc \in {"idle", "creating", "created", "over"}
        /\ req[r].status \in {0, 201, 422, 500} /\ req[r].id \in DOMAIN products \cup {0}
        /\ req[r].replay => req[r].status = 201
    /\ restarts \in 0..MaxRestarts

(* However often, wherever and with whatever keys a body is sent, before   *)
(* and after restarts, one product at most comes of it, and only one       *)
(* answer claims to have created it.                                       *)
OneProductPerBody ==
    /\ \A m, n \in DOMAIN products : NameOf[products[m]] = NameOf[products[n]] => m = n
    /\ \A p, q \in Requests :
        /\ req[p].status = 201 /\ ~req[p].replay
        /\ req[q].status = 201 /\ ~req[q].replay
        => p = q \/ req[p].id # req[q].id

(* A 201 names a product made from the request's own body, whether it was  *)
(* created or replayed, even when requests with one key and different      *)
(* bodies overlapped and one record replaced the other.                    *)
AnswersMatchBodies ==
    \A r \in Requests :
        req[r].status = 201 => products[req[r].id] = req[r].body.says

(* A body is created once and its answers are about it.                    *)
CreatesAreExact == TypeOK /\ OneProductPerBody /\ AnswersMatchBodies

SameCall(p, q) == req[p].at = req[q].at /\ req[p].key = req[q].key

(* A request that comes after a 201 to the same key and body, at the same  *)
(* instance, gets the same product again, however its members are ordered, *)
(* if the key was not used there with another body and the instance has    *)
(* not restarted.                                                          *)
LaterRetryIsReplayed ==
    [][\A p, q \in Requests :
          /\ req[p].status = 201 /\ req[q].pc = "idle" /\ req'[q].pc # "idle"
          /\ req'[q].at = req[p].at /\ req'[q].key = req[p].key
          /\ req'[q].body.says = req[p].body.says
          /\ restarts = 0
          /\ \A r \in Requests : SameCall(r, p) => req[r].body.says = req[p].body.says
          => req'[q].replay /\ req'[q].id = req[p].id]_vars
===============================================================================
