--------------------------- MODULE ProductCardCache ---------------------------
(***************************************************************************)
(* The cached card of one product: the cache-aside read of                 *)
(* ProductCardService with its stampede lock in Redis, and the refresh     *)
(* jobs of the worker, which delete the card and read it again.  Cards of  *)
(* different products share nothing.                                       *)
(*                                                                         *)
(* A card is the version of the product row it was made from.  Expiry and  *)
(* eviction of a key may come at any time: redis-cache runs allkeys-lru.   *)
(***************************************************************************)
EXTENDS Naturals, FiniteSets

CONSTANTS
    Readers, Workers, None,
    MAX_POLLS,          \* LOCK_WAIT_BUDGET_MS / LOCK_POLL_MS
    ATTEMPTS,           \* attempts of a BullMQ job
    MaxVersion, MaxFaults   \* bounds on changes of the row and on failures

CardsAssumption ==
    /\ Readers \cap Workers = {} /\ None \notin Readers \cup Workers
    /\ MAX_POLLS \in Nat \ {0} /\ ATTEMPTS \in Nat \ {0}
    /\ MaxVersion \in Nat /\ MaxFaults \in Nat

Procs == Readers \cup Workers

VARIABLES
    version,        \* of the row and what the card derives from it
    card,           \* version in the cache, None: no key
    lock,           \* process whose token is in the lock key
    redisUp,
    proc,           \* proc[p], a get() and its progress
    job,            \* job[v], the refresh after change v
    faults

vars == <<version, card, lock, redisUp, proc, job, faults>>

(* holds: "no" lock, "yes", or "lost" when the key went away under it.     *)
Idle == [pc |-> "idle", row |-> None, polls |-> 0, holds |-> "no", job |-> 0]
NoJob == [state |-> "unsent", attempts |-> 0, result |-> None, raced |-> FALSE]

Init ==
    /\ version = 0 /\ card = None /\ lock = None /\ redisUp = TRUE
    /\ proc = [p \in Procs |-> Idle]
    /\ job = [v \in 1..MaxVersion |-> NoJob]
    /\ faults = 0

Fault == faults < MaxFaults /\ faults' = faults + 1

(* cacheGet: null also when Redis fails.                                   *)
Hit == redisUp /\ card # None

-----------------------------------------------------------------------------
(* Changes and their jobs                                                  *)

(* A checkout or a status change commits.                                  *)
Change ==
    /\ version < MaxVersion
    /\ version' = version + 1
    /\ UNCHANGED <<card, lock, redisUp, proc, job, faults>>

(* enqueueRefresh after the commit; a failure is only logged.              *)
Enqueue(v) ==
    /\ v <= version /\ job[v].state = "unsent"
    /\ \/ job' = [job EXCEPT ![v].state = "waiting"] /\ UNCHANGED faults
       \/ job' = [job EXCEPT ![v].state = "lost"] /\ Fault
    /\ UNCHANGED <<version, card, lock, redisUp, proc>>

TakeJob(w, v) ==
    /\ proc[w] = Idle /\ job[v].state = "waiting"
    /\ job' = [job EXCEPT ![v].state = "active", ![v].attempts = @ + 1]
    /\ proc' = [proc EXCEPT ![w] = [Idle EXCEPT !.pc = "delete", !.job = v]]
    /\ UNCHANGED <<version, card, lock, redisUp, faults>>

(* The end of get() with a card: an answer, or the end of the job.         *)
Succeed(p, result) ==
    LET v == proc[p].job IN
    /\ proc' = [proc EXCEPT ![p] = Idle]
    /\ job' = IF v = 0 THEN job
              ELSE [job EXCEPT ![v].state = "done", ![v].result = result]

MayRetry(v) == job[v].attempts < ATTEMPTS

(* ... with an error: 503 or 500, or another attempt of the job.           *)
Throw(p) ==
    LET v == proc[p].job IN
    /\ proc' = [proc EXCEPT ![p] = Idle]
    /\ job' = IF v = 0 THEN job
              ELSE [job EXCEPT ![v].state = IF MayRetry(v) THEN "waiting" ELSE "failed"]

(* cache.del of the refresh; it notes whether a reader is about to write   *)
(* an older row.                                                           *)
DeleteCard(w) ==
    LET v == proc[w].job IN
    /\ proc[w].pc = "delete"
    /\ IF redisUp
       THEN /\ card' = None
            /\ proc' = [proc EXCEPT ![w].pc = "get"]
            /\ job' = [job EXCEPT ![v].raced =
                          \E p \in Procs : proc[p].pc = "set" /\ proc[p].row < v]
       ELSE Throw(w) /\ UNCHANGED card
    /\ UNCHANGED <<version, lock, redisUp, faults>>

-----------------------------------------------------------------------------
(* ProductCardService.get                                                  *)

Get(r) ==
    /\ proc[r] = Idle
    /\ proc' = [proc EXCEPT ![r].pc = "get"]
    /\ UNCHANGED <<version, card, lock, redisUp, job, faults>>

(* readCard before the lock and after each sleep.                          *)
ReadCard(p) ==
    /\ proc[p].pc \in {"get", "poll"}
    /\ IF Hit THEN Succeed(p, card)
       ELSE proc' = [proc EXCEPT ![p].pc = "lock"] /\ UNCHANGED job
    /\ UNCHANGED <<version, card, lock, redisUp, faults>>

(* Mutant: no deadline.                                                    *)
NeverOver(p) == FALSE

BudgetIsOver(p) == proc[p].polls >= MAX_POLLS

(* One turn of the loop of load: SET NX of the lock.                       *)
AcquireLock(p) ==
    /\ proc[p].pc = "lock"
    /\ CASE BudgetIsOver(p) -> Throw(p) /\ UNCHANGED lock
         [] ~BudgetIsOver(p) /\ ~redisUp ->
                proc' = [proc EXCEPT ![p].pc = "fetch"] /\ UNCHANGED <<lock, job>>
         [] ~BudgetIsOver(p) /\ redisUp /\ lock = None ->
                /\ lock' = p
                /\ proc' = [proc EXCEPT ![p].pc = "reread", ![p].holds = "yes"]
                /\ UNCHANGED job
         [] OTHER -> /\ proc' = [proc EXCEPT ![p].pc = "poll",
                                             ![p].polls = IF @ < MAX_POLLS THEN @ + 1 ELSE @]
                     /\ UNCHANGED <<lock, job>>
    /\ UNCHANGED <<version, card, redisUp, faults>>

(* readCard under the lock; the finally block comes next.                  *)
Reread(p) ==
    /\ proc[p].pc = "reread"
    /\ proc' = [proc EXCEPT ![p].pc = IF Hit THEN "release" ELSE "fetch",
                            ![p].row = IF Hit THEN card ELSE @]
    /\ UNCHANGED <<version, card, lock, redisUp, job, faults>>

(* findCard.                                                               *)
FetchRow(p) ==
    /\ proc[p].pc = "fetch"
    /\ proc' = [proc EXCEPT ![p].pc = "set", ![p].row = version]
    /\ UNCHANGED <<version, card, lock, redisUp, job, faults>>

(* The query fails: release the lock, if there is one, and throw.          *)
FetchFails(p) ==
    /\ proc[p].pc = "fetch" /\ Fault
    /\ IF proc[p].holds = "no" THEN Throw(p)
       ELSE proc' = [proc EXCEPT ![p].pc = "release"] /\ UNCHANGED job
    /\ UNCHANGED <<version, card, lock, redisUp>>

(* cacheSet, ignored when Redis fails.                                     *)
SetCard(p) ==
    /\ proc[p].pc = "set"
    /\ card' = IF redisUp THEN proc[p].row ELSE card
    /\ IF proc[p].holds = "no" THEN Succeed(p, proc[p].row)
       ELSE proc' = [proc EXCEPT ![p].pc = "release"] /\ UNCHANGED job
    /\ UNCHANGED <<version, lock, redisUp, faults>>

(* Mutant: DEL without the comparison of the token.                        *)
MayDeleteAny(p) == TRUE

MayDelete(p) == lock = p

(* RELEASE_SCRIPT, and the return or the throw that was held back.         *)
ReleaseLock(p) ==
    /\ proc[p].pc = "release"
    /\ lock' = IF redisUp /\ MayDelete(p) THEN None ELSE lock
    /\ IF proc[p].row = None THEN Throw(p) ELSE Succeed(p, proc[p].row)
    /\ UNCHANGED <<version, card, redisUp, faults>>

-----------------------------------------------------------------------------
(* Redis and crashes                                                       *)

Losing(q) == IF q = None THEN proc
             ELSE [proc EXCEPT ![q].holds = IF @ = "yes" THEN "lost" ELSE @]

LockExpires ==
    /\ lock # None
    /\ lock' = None /\ proc' = Losing(lock)
    /\ UNCHANGED <<version, card, redisUp, job, faults>>

CardExpires ==
    /\ card # None
    /\ card' = None
    /\ UNCHANGED <<version, lock, redisUp, proc, job, faults>>

RedisFails ==
    /\ redisUp /\ Fault
    /\ redisUp' = FALSE
    /\ UNCHANGED <<version, card, lock, proc, job>>

RedisReturns ==
    /\ ~redisUp
    /\ redisUp' = TRUE
    /\ UNCHANGED <<version, card, lock, proc, job, faults>>

(* The lock of a dead process stays; BullMQ finds its job stalled.         *)
Crash(p) ==
    /\ proc[p] # Idle /\ Fault
    /\ Throw(p)
    /\ UNCHANGED <<version, card, lock, redisUp>>

(* What a process does sooner or later; nothing of the kind is said of     *)
(* expiries, failures and repairs.                                         *)
GetStep(p) == \/ ReadCard(p) \/ AcquireLock(p) \/ Reread(p)
              \/ FetchRow(p) \/ SetCard(p) \/ ReleaseLock(p)

JobStep(w) == DeleteCard(w) \/ \E v \in 1..MaxVersion : TakeJob(w, v)

Next ==
    \/ Change \/ \E v \in 1..MaxVersion : Enqueue(v)
    \/ \E w \in Workers : JobStep(w)
    \/ \E r \in Readers : Get(r)
    \/ \E p \in Procs :
        \/ GetStep(p) \/ FetchFails(p) \/ Crash(p)
    \/ LockExpires \/ CardExpires \/ RedisFails \/ RedisReturns

Spec == Init /\ [][Next]_vars

-----------------------------------------------------------------------------
(* Properties                                                              *)

(* The types of the variables; a job never gets more than its attempts.    *)
TypeOK ==
    /\ version \in 0..MaxVersion /\ card \in 0..MaxVersion \cup {None}
    /\ lock \in Procs \cup {None} /\ redisUp \in BOOLEAN /\ faults \in 0..MaxFaults
    /\ \A p \in Procs :
        /\ proc[p].pc \in {"idle", "delete", "get", "poll", "lock", "reread", "fetch", "set", "release"}
        /\ proc[p].row \in 0..MaxVersion \cup {None} /\ proc[p].polls \in 0..MAX_POLLS
        /\ proc[p].holds \in {"no", "yes", "lost"} /\ proc[p].job \in 0..MaxVersion
    /\ \A v \in 1..MaxVersion :
        /\ job[v].state \in {"unsent", "lost", "waiting", "active", "done", "failed"}
        /\ job[v].attempts \in 0..ATTEMPTS

(* A process under the lock keeps it until the key expires: no other       *)
(* process deletes it, not even one whose own lock has expired.  So two    *)
(* loads at a time need an expired lock or a failed Redis.                 *)
LoadersHoldLock == \A p \in Procs : proc[p].holds = "yes" => lock = p

(* A refresh job that succeeds has seen a card at least as new as the      *)
(* change it was queued for, unless a reader had fetched an older row and  *)
(* not written it yet when the card was deleted.                           *)
RefreshSeesItsChange ==
    \A v \in 1..MaxVersion : job[v].state = "done" /\ ~job[v].raced => job[v].result >= v

(* The lock excludes and the refresh refreshes.                            *)
CardsAreSafe == TypeOK /\ LoadersHoldLock /\ RefreshSeesItsChange

(* Every get() ends, with a card, with 503 or with an error, whatever      *)
(* happens to the lock and to Redis.                                       *)
EveryGetEnds == \A p \in Procs : proc[p].pc # "idle" ~> proc[p].pc = "idle"

(* A job that is queued ends.                                              *)
EveryJobEnds ==
    \A v \in 1..MaxVersion : job[v].state = "waiting" ~> job[v].state \in {"done", "failed"}
===============================================================================
