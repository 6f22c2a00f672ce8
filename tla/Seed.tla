-------------------------------- MODULE Seed --------------------------------
(***************************************************************************)
(* npm run seed: each run ensures the users and the products one after     *)
(* another (INSERT ... ON CONFLICT DO NOTHING, SELECT, UPDATE of what      *)
(* differs) and then inserts each order with its items in a transaction.   *)
(* Runs may overlap, die at any point and be repeated; the database may    *)
(* hold rows that a used shop has changed, and rows of others that occupy  *)
(* a unique value of a seed row (users.phone).                             *)
(*                                                                         *)
(* Users and products are the same to the script: rows with a natural key  *)
(* and a value that is reset.  Entries are numbered in the script's order. *)
(***************************************************************************)
EXTENDS Naturals, FiniteSets

CONSTANTS
    Runs,
    Accounts,      \* number of users and products
    Orders,        \* number of orders
    ItemsOf,       \* number of items of each order
    MaxCrashes     \* bound on runs that die

SeedAssumption ==
    /\ IsFiniteSet(Runs)
    /\ Accounts \in Nat /\ Orders \in Nat /\ MaxCrashes \in Nat
    /\ ItemsOf \in [1..Orders -> Nat \ {0}]

VARIABLES
    row,           \* row[a]: "absent", "seeded", "changed", or "taken" when a row of
                   \* somebody else has its other unique value
    order,         \* order[o]: committed rows with this natural key
    items,         \* items[o]: committed items of the order
    run,           \* run[x]: progress of a run
    crashes

vars == <<row, order, items, run, crashes>>

(* pc, the entry it is at, what it has read, and the order its open        *)
(* transaction has inserted (0: none).                                     *)
Fresh == [pc |-> "insert", at |-> 1, read |-> "absent", holds |-> 0]

Init ==
    /\ row \in [1..Accounts -> {"absent", "changed", "taken"}]
    /\ order = [o \in 1..Orders |-> 0] /\ items = [o \in 1..Orders |-> 0]
    /\ run = [x \in Runs |-> Fresh]
    /\ crashes = 0

Insertable(a) == row[a] = "absent"

(* insertIfMissing of a user or a product, a statement of its own.         *)
InsertRow(x) ==
    LET a == run[x].at IN
    /\ run[x].pc = "insert" /\ a <= Accounts
    /\ row' = IF Insertable(a) THEN [row EXCEPT ![a] = "seeded"] ELSE row
    /\ run' = [run EXCEPT ![x].pc = "find"]
    /\ UNCHANGED <<order, items, crashes>>

(* findOneByOrFail: an error ends the run.                                 *)
Found(x) ==
    IF row[run[x].at] \in {"absent", "taken"} THEN [Fresh EXCEPT !.pc = "failed"]
    ELSE [run[x] EXCEPT !.pc = "update", !.read = row[run[x].at]]

FindRow(x) ==
    /\ run[x].pc = "find"
    /\ run' = [run EXCEPT ![x] = Found(x)]
    /\ UNCHANGED <<row, order, items, crashes>>

(* The UPDATEs of what differs, and the next entry.  A run that dies       *)
(* between two of them leaves a row that still differs.                    *)
ResetRow(x) ==
    /\ run[x].pc = "update"
    /\ row' = IF run[x].read = "changed" THEN [row EXCEPT ![run[x].at] = "seeded"] ELSE row
    /\ run' = [run EXCEPT ![x] = [Fresh EXCEPT !.at = run[x].at + 1]]
    /\ UNCHANGED <<order, items, crashes>>

(* The loop over the orders begins.                                        *)
StartOrders(x) ==
    /\ run[x].pc = "insert" /\ run[x].at > Accounts
    /\ run' = [run EXCEPT ![x] = [Fresh EXCEPT !.pc = "order"]]
    /\ UNCHANGED <<row, order, items, crashes>>

(* Mutant: no unique index.                                                *)
NoIndex(x, o) == TRUE

(* The unique index on (user_id, created_at) makes the INSERT wait for an  *)
(* open transaction that has inserted the same order.                      *)
NobodyHolds(x, o) == \A y \in Runs \ {x} : run[y].holds # o

(* insertIfMissing of an order: inserted, or there already.                *)
InsertOrder(x) ==
    LET o == run[x].at IN
    /\ run[x].pc = "order" /\ o <= Orders
    /\ NobodyHolds(x, o)
    /\ run' = [run EXCEPT ![x] = IF order[o] = 0
                                 THEN [@ EXCEPT !.pc = "items", !.holds = o]
                                 ELSE [@ EXCEPT !.at = o + 1]]
    /\ UNCHANGED <<row, order, items, crashes>>

(* The items and the COMMIT.                                               *)
InsertItems(x) ==
    LET o == run[x].holds IN
    /\ run[x].pc = "items"
    /\ order' = [order EXCEPT ![o] = 1]
    /\ items' = [items EXCEPT ![o] = @ + ItemsOf[o]]
    /\ run' = [run EXCEPT ![x] = [Fresh EXCEPT !.pc = "order", !.at = o + 1]]
    /\ UNCHANGED <<row, crashes>>

Finish(x) ==
    /\ run[x].pc = "order" /\ run[x].at > Orders
    /\ run' = [run EXCEPT ![x] = [Fresh EXCEPT !.pc = "done"]]
    /\ UNCHANGED <<row, order, items, crashes>>

(* The process dies; an open transaction is rolled back.                   *)
Crash(x) ==
    /\ run[x].pc \notin {"done", "failed"} /\ crashes < MaxCrashes
    /\ crashes' = crashes + 1
    /\ run' = [run EXCEPT ![x] = [Fresh EXCEPT !.pc = "failed"]]
    /\ UNCHANGED <<row, order, items>>

(* Someone starts the script again.                                        *)
Again(x) ==
    /\ run[x].pc = "failed"
    /\ run' = [run EXCEPT ![x] = Fresh]
    /\ UNCHANGED <<row, order, items, crashes>>

(* What a run does sooner or later: PostgreSQL answers every statement     *)
(* that does not wait.                                                     *)
Step(x) ==
    \/ InsertRow(x) \/ FindRow(x) \/ ResetRow(x) \/ StartOrders(x)
    \/ InsertOrder(x) \/ InsertItems(x) \/ Finish(x)

Ended == (\A x \in Runs : run[x].pc \in {"done", "failed"}) /\ UNCHANGED vars

Next == (\E x \in Runs : Step(x) \/ Crash(x) \/ Again(x)) \/ Ended

Spec == Init /\ [][Next]_vars

-----------------------------------------------------------------------------
(* Properties                                                              *)

(* The types of the variables.                                             *)
TypeOK ==
    /\ row \in [1..Accounts -> {"absent", "seeded", "changed", "taken"}]
    /\ order \in [1..Orders -> {0, 1}]
    /\ \A o \in 1..Orders : items[o] \in 0..ItemsOf[o]
    /\ \A x \in Runs :
        /\ run[x].pc \in {"insert", "find", "update", "order", "items", "done", "failed"}
        /\ run[x].at \in 1..(Accounts + Orders + 1)
        /\ run[x].read \in {"absent", "seeded", "changed"}
        /\ run[x].holds \in 0..Orders

(* "npm run seed is idempotent, including two runs in parallel" (README):  *)
(* an order is there with all of its items, once each, or not at all,      *)
(* whichever runs overlapped or died between its INSERTs.                  *)
OrdersAreWhole ==
    \A o \in 1..Orders : items[o] = order[o] * ItemsOf[o]

(* A run that ended without an error leaves everything there, with the     *)
(* values of the seed: an INSERT that ON CONFLICT DO NOTHING skipped for   *)
(* another unique value does not go unnoticed.                             *)
DoneMeansSeeded ==
    (\E x \in Runs : run[x].pc = "done") =>
        /\ \A a \in 1..Accounts : row[a] = "seeded"
        /\ \A o \in 1..Orders : order[o] = 1

(* Only a crash or a taken value makes a run fail: runs do not disturb     *)
(* each other.                                                             *)
RunsDoNotDisturb ==
    (\E x \in Runs : run[x].pc = "failed") =>
        crashes > 0 \/ \E a \in 1..Accounts : row[a] = "taken"

(* The seed can be repeated at any time, by anyone.                        *)
SeedIsRepeatable == TypeOK /\ OrdersAreWhole /\ DoneMeansSeeded /\ RunsDoNotDisturb

(* Every run ends: no run waits for another one's order for ever.          *)
EveryRunEnds == \A x \in Runs : []<>(run[x].pc \in {"done", "failed"})
=============================================================================
