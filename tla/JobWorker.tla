------------------------------ MODULE JobWorker ------------------------------
(***************************************************************************)
(* The workers of the jobs table (services/job-worker.service.ts).  Each   *)
(* worker loops: one transaction claims the oldest pending job that nobody *)
(* else has locked (SELECT ... FOR UPDATE SKIP LOCKED), runs the handler   *)
(* and records the outcome; when there is nothing to claim it counts the   *)
(* pending jobs and returns if there are none.                             *)
(*                                                                         *)
(* The claim is modelled row by row: PostgreSQL walks the pending rows of  *)
(* the statement's snapshot in order of id, skips the rows another         *)
(* transaction has locked and rechecks the condition on the newest version *)
(* of the row it locks.  Between two rows anything may commit.             *)
(***************************************************************************)
EXTENDS Naturals, FiniteSets

CONSTANTS
    Jobs,          \* ids of the jobs inserted before the workers start
    Workers, None,
    Queues,
    JobQueue,      \* queue of every job
    WorkerQueue,   \* queue every worker was started for
    Poison,        \* jobs whose handler always throws
    MaxAttempts,   \* option maxAttempts
    MaxThrows,     \* bound: handler failures of jobs that are not poison
    MaxCrashes     \* bound: workers that die

ASSUME JobWorkerAssumption ==
    /\ Jobs \subseteq Nat /\ IsFiniteSet(Jobs)
    /\ IsFiniteSet(Workers) /\ None \notin Jobs \cup Workers
    /\ JobQueue \in [Jobs -> Queues]
    /\ WorkerQueue \in [Workers -> Queues]
    /\ Poison \subseteq Jobs
    /\ MaxAttempts \in Nat \ {0}
    /\ MaxThrows \in Nat /\ MaxCrashes \in Nat

Outcomes == {"done", "retry", "failed"}

VARIABLES
    job,       \* the jobs table: [status, processed, attempts]
    lock,      \* row lock: the worker whose transaction holds the row, or None
    pc,        \* where each worker is
    scan,      \* rows of the claiming statement's snapshot not yet visited
    claimed,   \* the job each worker's transaction has claimed, or None
    stats,     \* what each worker has counted: outcomes it has been told
    ran,       \* completed handler runs of each job (its effects happened)
    lost,      \* completed handler runs whose transaction was rolled back
    throws, crashes

vars == <<job, lock, pc, scan, claimed, stats, ran, lost, throws, crashes>>

PCs == {"begin", "scanning", "handling", "handled", "threw", "empty",
        "sleeping", "returned", "dead"}

TypeOK ==
    /\ job \in [Jobs -> [status : {"pending", "done", "failed"},
                         processed : Nat, attempts : Nat]]
    /\ lock \in [Jobs -> Workers \cup {None}]
    /\ pc \in [Workers -> PCs]
    /\ scan \in [Workers -> SUBSET Jobs]
    /\ claimed \in [Workers -> Jobs \cup {None}]
    /\ stats \in [Workers -> [Outcomes -> Nat]]
    /\ ran \in [Jobs -> Nat] /\ lost \in [Jobs -> Nat]
    /\ throws \in 0..MaxThrows /\ crashes \in 0..MaxCrashes

Init ==
    /\ job = [j \in Jobs |-> [status |-> "pending", processed |-> 0, attempts |-> 0]]
    /\ lock = [j \in Jobs |-> None]
    /\ pc = [w \in Workers |-> "begin"]
    /\ scan = [w \in Workers |-> {}]
    /\ claimed = [w \in Workers |-> None]
    /\ stats = [w \in Workers |-> [o \in Outcomes |-> 0]]
    /\ ran = [j \in Jobs |-> 0] /\ lost = [j \in Jobs |-> 0]
    /\ throws = 0 /\ crashes = 0

Pending(q) == {j \in Jobs : JobQueue[j] = q /\ job[j].status = "pending"}

-----------------------------------------------------------------------------
(* processNextJob *)

\* BEGIN and the snapshot of the claiming SELECT.
Begin(w) ==
    /\ pc[w] = "begin"
    /\ scan' = [scan EXCEPT ![w] = Pending(WorkerQueue[w])]
    /\ pc' = [pc EXCEPT ![w] = "scanning"]
    /\ UNCHANGED <<job, lock, claimed, stats, ran, lost, throws, crashes>>

\* Mutant: no recheck of the status.
ClaimStale(j) == lock[j] = None

\* A row can be claimed if nobody has it locked and it is still pending.
Claimable(j) == lock[j] = None /\ job[j].status = "pending"

\* The next row in order of id: locked, or skipped.
ScanRow(w) ==
    /\ pc[w] = "scanning" /\ scan[w] # {}
    /\ LET j == CHOOSE i \in scan[w] : \A k \in scan[w] : i <= k IN
        IF Claimable(j)
        THEN /\ lock' = [lock EXCEPT ![j] = w]
             /\ claimed' = [claimed EXCEPT ![w] = j]
             /\ pc' = [pc EXCEPT ![w] = "handling"]
             /\ scan' = [scan EXCEPT ![w] = {}]
        ELSE /\ scan' = [scan EXCEPT ![w] = @ \ {j}]
             /\ UNCHANGED <<lock, claimed, pc>>
    /\ UNCHANGED <<job, stats, ran, lost, throws, crashes>>

\* No row was left to claim: the transaction ends and the result is null.
NothingToClaim(w) ==
    /\ pc[w] = "scanning" /\ scan[w] = {}
    /\ pc' = [pc EXCEPT ![w] = "empty"]
    /\ UNCHANGED <<job, lock, scan, claimed, stats, ran, lost, throws, crashes>>

\* The handler runs to its end; what it did outside the database stays done.
HandlerEnds(w) ==
    /\ pc[w] = "handling" /\ claimed[w] \notin Poison
    /\ ran' = [ran EXCEPT ![claimed[w]] = @ + 1]
    /\ pc' = [pc EXCEPT ![w] = "handled"]
    /\ UNCHANGED <<job, lock, scan, claimed, stats, lost, throws, crashes>>

HandlerThrows(w) ==
    /\ pc[w] = "handling"
    /\ IF claimed[w] \in Poison THEN UNCHANGED throws
                                ELSE throws < MaxThrows /\ throws' = throws + 1
    /\ pc' = [pc EXCEPT ![w] = "threw"]
    /\ UNCHANGED <<job, lock, scan, claimed, stats, ran, lost, crashes>>

\* The UPDATE after a failed attempt.
AfterThrow(r) ==
    [r EXCEPT !.attempts = @ + 1,
              !.status = IF r.attempts + 1 >= MaxAttempts THEN "failed" ELSE "pending"]

\* The UPDATE after a successful attempt.
AfterDone(r) ==
    [r EXCEPT !.status = "done", !.processed = @ + 1, !.attempts = @ + 1]

Updated(w) == IF pc[w] = "threw" THEN AfterThrow(job[claimed[w]])
                                 ELSE AfterDone(job[claimed[w]])

\* What processNextJob returns for the updated row.
Outcome(r) == IF r.status = "pending" THEN "retry" ELSE r.status

\* The UPDATE and the COMMIT: the row is visible and unlocked in one step.
Committed(w) ==
    /\ pc[w] \in {"handled", "threw"}
    /\ job' = [job EXCEPT ![claimed[w]] = Updated(w)]
    /\ lock' = [lock EXCEPT ![claimed[w]] = None]
    /\ claimed' = [claimed EXCEPT ![w] = None]
    /\ UNCHANGED <<scan, ran, lost, throws>>

\* runWorker counts the outcome and goes round.
Commit(w) ==
    /\ Committed(w)
    /\ stats' = [stats EXCEPT ![w][Outcome(Updated(w))] = @ + 1]
    /\ pc' = [pc EXCEPT ![w] = "begin"]
    /\ UNCHANGED crashes

-----------------------------------------------------------------------------
(* runWorker, when there was nothing to claim *)

\* Mutants: jobs in other workers' hands do not count; all queues count.
CountUnlocked(q) == Cardinality({j \in Pending(q) : lock[j] = None})
CountEveryQueue(q) == Cardinality({j \in Jobs : job[j].status = "pending"})

\* A locked job is still pending for other sessions.
countPendingJobs(q) == Cardinality(Pending(q))

CountPending(w) ==
    /\ pc[w] = "empty"
    /\ pc' = [pc EXCEPT ![w] = IF countPendingJobs(WorkerQueue[w]) = 0
                               THEN "returned" ELSE "sleeping"]
    /\ UNCHANGED <<job, lock, scan, claimed, stats, ran, lost, throws, crashes>>

Wake(w) ==
    /\ pc[w] = "sleeping"
    /\ pc' = [pc EXCEPT ![w] = "begin"]
    /\ UNCHANGED <<job, lock, scan, claimed, stats, ran, lost, throws, crashes>>

-----------------------------------------------------------------------------
(* Faults: runWorker has no handler for them, its promise rejects. *)

\* The process or its connection dies; PostgreSQL rolls the transaction back.
Crash(w) ==
    /\ pc[w] \notin {"returned", "dead"} /\ crashes < MaxCrashes
    /\ crashes' = crashes + 1
    /\ lock' = [j \in Jobs |-> IF lock[j] = w THEN None ELSE lock[j]]
    /\ lost' = IF pc[w] = "handled" THEN [lost EXCEPT ![claimed[w]] = @ + 1] ELSE lost
    /\ claimed' = [claimed EXCEPT ![w] = None]
    /\ scan' = [scan EXCEPT ![w] = {}]
    /\ pc' = [pc EXCEPT ![w] = "dead"]
    /\ UNCHANGED <<job, stats, ran, throws>>

\* The COMMIT took effect and its answer did not arrive.
CommitAnswerLost(w) ==
    /\ crashes < MaxCrashes
    /\ Committed(w)
    /\ crashes' = crashes + 1
    /\ pc' = [pc EXCEPT ![w] = "dead"]
    /\ UNCHANGED stats

-----------------------------------------------------------------------------
\* What a worker that can go on does sooner or later: PostgreSQL answers,
\* timers fire, and the handler ends.
WorkerStep(w) ==
    \/ Begin(w) \/ ScanRow(w) \/ NothingToClaim(w)
    \/ HandlerEnds(w) \/ HandlerThrows(w) \/ Commit(w)
    \/ CountPending(w) \/ Wake(w)

Ended(w) == pc[w] \in {"returned", "dead"}

\* Every worker has returned or died: Promise.all of the callers settles.
AllEnded == (\A w \in Workers : Ended(w)) /\ UNCHANGED vars

Next ==
    \/ \E w \in Workers : WorkerStep(w)
    \/ \E w \in Workers : Crash(w) \/ CommitAnswerLost(w)
    \/ AllEnded

Spec == Init /\ [][Next]_vars

-----------------------------------------------------------------------------
(* Properties *)

\* No job is processed twice (demo-workers.ts requires processedTwice = 0), and
\* every completed handler run is accounted for: recorded in the row, about to
\* be recorded by the transaction that holds the row's lock, or rolled back by
\* a crash.  So a job's effects repeat at most once per crash.
ProcessedOnce ==
    \A j \in Jobs :
        /\ job[j].processed = IF job[j].status = "done" THEN 1 ELSE 0
        /\ ran[j] = job[j].processed + lost[j]
                    + Cardinality({w \in Workers : claimed[w] = j /\ pc[w] = "handled"})
        /\ ran[j] <= 1 + crashes

\* A job is in the hands of at most one transaction, the one with its row lock,
\* and that job is pending: what SKIP LOCKED and the recheck of the row are for.
OneHolder ==
    \A w \in Workers : \A j \in Jobs :
        /\ (claimed[w] = j) <=> (lock[j] = w)
        /\ claimed[w] = j => job[j].status = "pending" /\ JobQueue[j] = WorkerQueue[w]

\* Attempts run out exactly at maxAttempts: a pending job has attempts left, a
\* failed one has used all of them and was never processed, and only failed
\* attempts separate a done job from its first.
AttemptsAreBounded ==
    \A j \in Jobs :
        CASE job[j].status = "pending" -> job[j].attempts < MaxAttempts
          [] job[j].status = "failed"  -> job[j].attempts = MaxAttempts
          [] job[j].status = "done"    -> job[j].attempts \in 1..MaxAttempts
                                          /\ j \notin Poison

\* A worker returns only when its queue is settled for good: no job is pending
\* or in the hands of a transaction that may still roll back and leave it to
\* nobody (demo-workers.ts requires stillPending = 0).
NoJobLeftBehind ==
    \A w \in Workers : pc[w] = "returned" =>
        \A j \in Jobs : JobQueue[j] = WorkerQueue[w] =>
            job[j].status # "pending" /\ lock[j] = None

\* The sum of the numbers f[x], as the number of the units they are made of.
Units(f) == UNION {{x} \X (1..f[x]) : x \in DOMAIN f}
SumOf(f) == Cardinality(Units(f))

\* The outcomes o that workers have been told, and the attempts on record.
Told(o) == SumOf([w \in Workers |-> stats[w][o]])
Attempts == SumOf([j \in Jobs |-> job[j].attempts])

InStatus(s) == {j \in Jobs : job[j].status = s}

\* The statistics the workers return account for every recorded attempt,
\* except the ones whose commit was answered to nobody.
StatsAccountForAttempts ==
    LET all == Told("done") + Told("retry") + Told("failed") IN
    /\ all <= Attempts /\ Attempts <= all + crashes
    /\ Told("done") <= Cardinality(InStatus("done"))
    /\ Told("failed") <= Cardinality(InStatus("failed"))

\* The jobs are safe in the workers' hands: held by one, tried a bounded number
\* of times, processed once, and not abandoned.
JobsAreSafe ==
    TypeOK /\ OneHolder /\ AttemptsAreBounded /\ NoJobLeftBehind /\ ProcessedOnce

\* Every runWorker ends, with poison jobs in its queue too: idle workers do not
\* wait for each other forever.  With NoJobLeftBehind this settles every queue
\* of which not all workers have died.
EveryWorkerEnds == \A w \in Workers : <>Ended(w)
=============================================================================
