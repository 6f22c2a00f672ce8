---------------------------- MODULE ProgramsProofs ----------------------------
(***************************************************************************)
(* Proofs about the programs beside the API.  First the workers of the     *)
(* jobs table, for any number of jobs, workers, queues, attempts, failures *)
(* and crashes; then the runs of the seed, for any seed data; and the      *)
(* three programs side by side, where the debits bring their proofs from   *)
(* WithRetryProofs.                                                        *)
(***************************************************************************)
EXTENDS Programs, FiniteSetTheorems, TLAPS

-----------------------------------------------------------------------------
(* The workers *)

(* What ties the place of a worker to the rows: it has claimed a job       *)
(* exactly while that job is with its handler, only a handler that can     *)
(* succeed has run to its end, and it only looks at rows of its own queue. *)
Hands ==
    \A w \in Workers :
        /\ claimed[w] # None <=> pc[w] \in {"handling", "handled", "threw"}
        /\ pc[w] = "handled" => claimed[w] \notin Poison
        /\ \A j \in scan[w] : JobQueue[j] = WorkerQueue[w]

JobRow == [status : {"pending", "done", "failed"}, processed : Nat, attempts : Nat]

(* AttemptsAreBounded, one status at a time.                               *)
AttemptsOf(r, j) ==
    /\ r.status = "pending" => r.attempts < MaxAttempts
    /\ r.status = "failed" => r.attempts = MaxAttempts
    /\ r.status = "done" => r.attempts \in 1..MaxAttempts /\ j \notin Poison

HoldersInv == TypeOK /\ OneHolder /\ Hands

JobInv ==
    /\ HoldersInv
    /\ \A j \in Jobs : AttemptsOf(job[j], j)
    /\ NoJobLeftBehind

-----------------------------------------------------------------------------
(* Row locks *)

LEMMA JobInit == Init => JobInv
<1> SUFFICES ASSUME Init PROVE JobInv
    OBVIOUS
<1> USE JobWorkerAssumption DEF Init
<1>1. TypeOK
    BY DEF TypeOK, PCs, Outcomes
<1>2. OneHolder /\ Hands /\ NoJobLeftBehind
    BY DEF OneHolder, Hands, NoJobLeftBehind
<1>3. \A j \in Jobs : AttemptsOf(job[j], j)
    BY DEF AttemptsOf
<1> QED BY <1>1, <1>2, <1>3 DEF JobInv, HoldersInv

(* Every set of numbers that is not empty has a smallest member.           *)
LEMMA LeastNumber ==
    ASSUME NEW S \in SUBSET Nat, S # {}
    PROVE  \E i \in S : \A k \in S : i <= k
<1>1. PICK i \in S : \A k \in S : <<k, i>> \notin OpToRel(<, Nat)
    BY NatLessThanWellFounded, WFMin
<1>2. ASSUME NEW k \in S PROVE i <= k
    <2>1. \A a, b \in Nat : a < b => <<a, b>> \in OpToRel(<, Nat)
        BY DEF OpToRel
    <2>2. ~(k < i)
        BY <1>1, <2>1
    <2> QED BY <2>2
<1> QED BY <1>2

(* The first row of a snapshot is one of its rows.                         *)
LEMMA FirstRow ==
    ASSUME NEW S \in SUBSET Jobs, S # {}
    PROVE  (CHOOSE i \in S : \A k \in S : i <= k) \in S
<1>1. S \in SUBSET Nat
    BY JobWorkerAssumption
<1>2. \E i \in S : \A k \in S : i <= k
    BY <1>1, LeastNumber
<1> QED BY <1>2

(* The two UPDATEs, field by field.                                        *)
LEMMA ThrowRow ==
    ASSUME NEW r \in JobRow
    PROVE  /\ AfterThrow(r) \in JobRow
           /\ AfterThrow(r).attempts = r.attempts + 1
           /\ AfterThrow(r).processed = r.processed
           /\ AfterThrow(r).status = IF r.attempts + 1 >= MaxAttempts THEN "failed" ELSE "pending"
<1> DEFINE n == r.attempts + 1
           s == IF n >= MaxAttempts THEN "failed" ELSE "pending"
<1>1. n \in Nat /\ s \in {"pending", "done", "failed"}
    BY DEF JobRow
<1>2. [r EXCEPT !.attempts = n, !.status = s] \in JobRow
    <2> HIDE DEF n, s
    <2> QED BY <1>1, Zenon DEF JobRow
<1> QED BY <1>2 DEF AfterThrow, JobRow

LEMMA DoneRow ==
    ASSUME NEW r \in JobRow
    PROVE  /\ AfterDone(r) \in JobRow
           /\ AfterDone(r).attempts = r.attempts + 1
           /\ AfterDone(r).processed = r.processed + 1
           /\ AfterDone(r).status = "done"
<1> DEFINE n == r.attempts + 1
           p == r.processed + 1
<1>1. n \in Nat /\ p \in Nat
    BY DEF JobRow
<1>2. [r EXCEPT !.status = "done", !.processed = p, !.attempts = n] \in JobRow
    <2> HIDE DEF n, p
    <2> QED BY <1>1, Zenon DEF JobRow
<1> QED BY <1>2 DEF AfterDone, JobRow

(* Commit and CommitAnswerLost: the row holds what the UPDATE wrote.       *)
LEMMA UpdatedRow ==
    ASSUME JobInv, NEW w \in Workers, pc[w] \in {"handled", "threw"}
    PROVE  /\ claimed[w] \in Jobs /\ lock[claimed[w]] = w /\ job[claimed[w]].status = "pending"
           /\ Updated(w) \in JobRow
           /\ AttemptsOf(Updated(w), claimed[w])
           /\ Updated(w).processed =
                job[claimed[w]].processed + (IF pc[w] = "handled" THEN 1 ELSE 0)
           /\ Updated(w).status = "done" <=> pc[w] = "handled"
           /\ Outcome(Updated(w)) \in Outcomes
<1> DEFINE j == claimed[w]
           r == job[j]
<1>1. j \in Jobs /\ lock[j] = w /\ r.status = "pending"
    BY DEF JobInv, HoldersInv, Hands, OneHolder, TypeOK
<1>2. r \in JobRow /\ r.processed \in Nat /\ r.attempts \in Nat /\ r.attempts < MaxAttempts
    BY <1>1 DEF JobInv, HoldersInv, TypeOK, AttemptsOf, JobRow
<1>3. CASE pc[w] = "threw"
    <2>1. Updated(w) = AfterThrow(r)
        BY <1>3 DEF Updated
    <2> HIDE DEF r
    <2>2. AttemptsOf(AfterThrow(r), j)
        BY <1>2, ThrowRow, JobWorkerAssumption DEF AttemptsOf
    <2>3. Outcome(AfterThrow(r)) \in Outcomes
        BY <1>2, ThrowRow DEF Outcome, Outcomes
    <2> QED BY <1>1, <1>2, <1>3, <2>1, <2>2, <2>3, ThrowRow DEF r
<1>4. CASE pc[w] = "handled"
    <2>1. Updated(w) = AfterDone(r) /\ j \notin Poison
        BY <1>4 DEF Updated, JobInv, HoldersInv, Hands
    <2> HIDE DEF r
    <2>2. AttemptsOf(AfterDone(r), j)
        BY <1>2, <2>1, DoneRow, JobWorkerAssumption DEF AttemptsOf
    <2>3. Outcome(AfterDone(r)) \in Outcomes
        BY <1>2, DoneRow DEF Outcome, Outcomes
    <2> QED BY <1>1, <1>2, <1>4, <2>1, <2>2, <2>3, DoneRow DEF r
<1> QED BY <1>3, <1>4

(* The effect of Committed on the rows, which both commits share.          *)
LEMMA CommittedKeeps ==
    ASSUME JobInv, NEW w \in Workers, Committed(w),
           pc' \in [Workers -> PCs], \A v \in Workers \ {w} : pc'[v] = pc[v],
           pc'[w] \in {"begin", "dead"},
           stats' \in [Workers -> [Outcomes -> Nat]], crashes' \in 0..MaxCrashes
    PROVE  JobInv'
<1> DEFINE j == claimed[w]
<1>1. /\ j \in Jobs /\ lock[j] = w
      /\ Updated(w) \in JobRow
      /\ AttemptsOf(Updated(w), j)
    BY UpdatedRow DEF Committed
<1>2. TypeOK'
    BY <1>1 DEF JobRow, JobInv, HoldersInv, TypeOK, Committed
<1>3. OneHolder'
    BY <1>1, JobWorkerAssumption DEF JobInv, HoldersInv, TypeOK, OneHolder, Committed
<1>4. Hands'
    BY <1>1, JobWorkerAssumption DEF JobInv, HoldersInv, TypeOK, OneHolder, Hands, Committed
<1>5. \A k \in Jobs : AttemptsOf(job[k], k)'
    BY <1>1 DEF JobInv, HoldersInv, TypeOK, AttemptsOf, Committed
<1>6. NoJobLeftBehind'
    <2>1. JobQueue[j] = WorkerQueue[w] /\ job[j].status = "pending"
        BY <1>1 DEF JobInv, HoldersInv, OneHolder
    <2>2. ASSUME NEW v \in Workers, pc'[v] = "returned", NEW k \in Jobs, JobQueue[k] = WorkerQueue[v]
          PROVE  job'[k].status # "pending" /\ lock'[k] = None
        <3>1. pc[v] = "returned"
            BY <2>2
        <3>2. job[k].status # "pending" /\ lock[k] = None
            BY <2>2, <3>1 DEF JobInv, NoJobLeftBehind
        <3>3. k # j
            BY <3>2, <2>1
        <3> QED BY <3>2, <3>3, <1>1 DEF JobInv, HoldersInv, TypeOK, Committed
    <2> QED BY <2>2 DEF NoJobLeftBehind
<1> QED BY <1>2, <1>3, <1>4, <1>5, <1>6 DEF JobInv, HoldersInv

(* Steps that change neither the rows nor the locks.                       *)
LEMMA WorkerMoves ==
    ASSUME JobInv, NEW w \in Workers,
           Begin(w) \/ NothingToClaim(w) \/ HandlerEnds(w) \/ HandlerThrows(w) \/ Wake(w)
    PROVE  JobInv'
<1> USE DEF JobInv, HoldersInv
<1>1. CASE Begin(w)
    <2>1. Pending(WorkerQueue[w]) \subseteq {j \in Jobs : JobQueue[j] = WorkerQueue[w]}
        BY DEF Pending
    <2>2. TypeOK'
        BY <1>1, <2>1 DEF TypeOK, PCs, Begin
    <2>3. OneHolder' /\ Hands' /\ NoJobLeftBehind'
        BY <1>1, <2>1 DEF TypeOK, OneHolder, Hands, NoJobLeftBehind, Begin
    <2> QED BY <1>1, <2>2, <2>3 DEF Begin
<1>2. CASE NothingToClaim(w)
    <2>1. TypeOK'
        BY <1>2 DEF TypeOK, PCs, NothingToClaim
    <2>2. OneHolder' /\ Hands' /\ NoJobLeftBehind'
        BY <1>2 DEF TypeOK, OneHolder, Hands, NoJobLeftBehind, NothingToClaim
    <2> QED BY <1>2, <2>1, <2>2 DEF NothingToClaim
<1>3. CASE HandlerEnds(w)
    <2>1. claimed[w] \in Jobs
        BY <1>3 DEF TypeOK, Hands, HandlerEnds
    <2>2. TypeOK'
        BY <1>3, <2>1 DEF TypeOK, PCs, HandlerEnds
    <2>3. OneHolder' /\ Hands' /\ NoJobLeftBehind'
        BY <1>3, <2>1 DEF TypeOK, OneHolder, Hands, NoJobLeftBehind, HandlerEnds
    <2> QED BY <1>3, <2>2, <2>3 DEF HandlerEnds
<1>4. CASE HandlerThrows(w)
    <2>1. TypeOK'
        BY <1>4, JobWorkerAssumption DEF TypeOK, PCs, HandlerThrows
    <2>2. OneHolder' /\ Hands' /\ NoJobLeftBehind'
        BY <1>4 DEF TypeOK, OneHolder, Hands, NoJobLeftBehind, HandlerThrows
    <2> QED BY <1>4, <2>1, <2>2 DEF HandlerThrows
<1>5. CASE Wake(w)
    <2>1. TypeOK'
        BY <1>5 DEF TypeOK, PCs, Wake
    <2>2. OneHolder' /\ Hands' /\ NoJobLeftBehind'
        BY <1>5 DEF TypeOK, OneHolder, Hands, NoJobLeftBehind, Wake
    <2> QED BY <1>5, <2>1, <2>2 DEF Wake
<1> QED BY <1>1, <1>2, <1>3, <1>4, <1>5

(* A claim takes a free pending row of the worker's queue.                 *)
LEMMA ScanKeeps ==
    ASSUME JobInv, NEW w \in Workers, ScanRow(w)
    PROVE  JobInv'
<1> USE DEF JobInv, HoldersInv
<1> DEFINE j == CHOOSE i \in scan[w] : \A k \in scan[w] : i <= k
<1>1. j \in scan[w] /\ scan[w] \subseteq Jobs
    BY FirstRow DEF ScanRow, TypeOK
<1>2. j \in Jobs /\ JobQueue[j] = WorkerQueue[w]
    BY <1>1 DEF Hands
<1>3. CASE Claimable(j)
    <2>1. /\ lock[j] = None /\ job[j].status = "pending" /\ pc[w] = "scanning"
          /\ lock' = [lock EXCEPT ![j] = w]
          /\ claimed' = [claimed EXCEPT ![w] = j]
          /\ pc' = [pc EXCEPT ![w] = "handling"]
          /\ scan' = [scan EXCEPT ![w] = {}]
          /\ UNCHANGED <<job, stats, ran, lost, throws, crashes>>
        BY <1>3 DEF ScanRow, Claimable
    <2> HIDE DEF j
    <2>2. claimed[w] = None
        BY <2>1 DEF Hands
    <2>3. TypeOK'
        BY <2>1, <1>2 DEF TypeOK, PCs
    <2>4. OneHolder'
        BY <2>1, <2>2, <1>2, JobWorkerAssumption DEF TypeOK, OneHolder
    <2>5. Hands'
        BY <2>1, <1>2, JobWorkerAssumption DEF TypeOK, Hands
    <2>6. NoJobLeftBehind'
        BY <2>1, <1>2 DEF TypeOK, NoJobLeftBehind
    <2> QED BY <2>1, <2>3, <2>4, <2>5, <2>6
<1>4. CASE ~Claimable(j)
    <2>1. /\ scan' = [scan EXCEPT ![w] = @ \ {j}]
          /\ UNCHANGED <<job, lock, claimed, pc, stats, ran, lost, throws, crashes>>
        BY <1>4 DEF ScanRow
    <2> HIDE DEF j
    <2> QED BY <2>1 DEF TypeOK, OneHolder, Hands, NoJobLeftBehind
<1> QED BY <1>3, <1>4

(* A worker that returns leaves no row of its queue pending or locked.     *)
LEMMA CountKeeps ==
    ASSUME JobInv, NEW w \in Workers, CountPending(w)
    PROVE  JobInv'
<1> USE DEF JobInv, HoldersInv
<1>1. TypeOK'
    BY DEF TypeOK, PCs, CountPending
<1>2. OneHolder' /\ Hands'
    BY DEF TypeOK, OneHolder, Hands, CountPending
<1>3. NoJobLeftBehind'
    <2>1. ASSUME NEW v \in Workers, pc'[v] = "returned", NEW k \in Jobs, JobQueue[k] = WorkerQueue[v]
          PROVE  job[k].status # "pending" /\ lock[k] = None
        <3>1. CASE v = w
            <4>1. IsFiniteSet(Pending(WorkerQueue[w]))
                BY JobWorkerAssumption, FS_Subset DEF Pending
            <4>2. Cardinality(Pending(WorkerQueue[w])) = 0
                BY <2>1, <3>1 DEF CountPending, countPendingJobs, TypeOK
            <4>3. Pending(WorkerQueue[w]) = {}
                BY <4>1, <4>2, FS_EmptySet
            <4>4. job[k].status # "pending"
                BY <4>3, <2>1, <3>1 DEF Pending
            <4> QED BY <4>4 DEF OneHolder, TypeOK
        <3>2. CASE v # w
            BY <2>1, <3>2 DEF CountPending, TypeOK, NoJobLeftBehind
        <3> QED BY <3>1, <3>2
    <2> QED BY <2>1 DEF NoJobLeftBehind, CountPending
<1> QED BY <1>1, <1>2, <1>3 DEF CountPending

(* A crash rolls the claim back: the row is free and pending again.        *)
LEMMA CrashKeeps ==
    ASSUME JobInv, NEW w \in Workers, Crash(w)
    PROVE  JobInv'
<1> USE DEF JobInv, HoldersInv
<1>1. TypeOK'
    <2>1. lost' \in [Jobs -> Nat]
        BY DEF TypeOK, Crash, Hands
    <2> QED BY <2>1, JobWorkerAssumption DEF TypeOK, PCs, Crash
<1>2. OneHolder'
    BY JobWorkerAssumption DEF TypeOK, OneHolder, Crash
<1>3. Hands'
    BY JobWorkerAssumption DEF TypeOK, Hands, Crash
<1>4. NoJobLeftBehind'
    BY DEF TypeOK, NoJobLeftBehind, Crash
<1> QED BY <1>1, <1>2, <1>3, <1>4 DEF Crash

LEMMA JobNext == JobInv /\ [Next]_vars => JobInv'
<1> SUFFICES ASSUME JobInv, [Next]_vars PROVE JobInv'
    OBVIOUS
<1>1. ASSUME NEW w \in Workers, Commit(w) PROVE JobInv'
    <2>1. Outcome(Updated(w)) \in Outcomes
        BY <1>1, UpdatedRow DEF Commit, Committed
    <2>2. stats' \in [Workers -> [Outcomes -> Nat]]
        BY <1>1, <2>1 DEF Commit, JobInv, HoldersInv, TypeOK
    <2> QED BY <1>1, <2>2, CommittedKeeps DEF Commit, JobInv, HoldersInv, TypeOK, PCs
<1>2. ASSUME NEW w \in Workers, CommitAnswerLost(w) PROVE JobInv'
    BY <1>2, CommittedKeeps, JobWorkerAssumption DEF CommitAnswerLost, JobInv, HoldersInv, TypeOK, PCs
<1>3. CASE UNCHANGED vars
    BY <1>3 DEF vars, JobInv, HoldersInv, TypeOK, OneHolder, Hands, AttemptsOf, NoJobLeftBehind
<1> QED BY <1>1, <1>2, <1>3, WorkerMoves, ScanKeeps, CountKeeps, CrashKeeps DEF Next, WorkerStep, AllEnded

-----------------------------------------------------------------------------
(* Handler runs *)

(* The completed run whose outcome the holder of j has yet to record.      *)
AtHand(j) == IF lock[j] # None /\ pc[lock[j]] = "handled" THEN 1 ELSE 0

(* ProcessedOnce with the run at hand found through the row's lock, and    *)
(* with the runs that were rolled back charged to the crashes.             *)
RunsOf(j) ==
    /\ job[j].processed = IF job[j].status = "done" THEN 1 ELSE 0
    /\ ran[j] = job[j].processed + lost[j] + AtHand(j)
    /\ lost[j] <= crashes

RunsInv == \A j \in Jobs : RunsOf(j)

(* By OneHolder the run at hand is the lock holder's or nobody's.          *)
LEMMA HandIsHolders ==
    ASSUME JobInv, NEW j \in Jobs
    PROVE  AtHand(j) = Cardinality({w \in Workers : claimed[w] = j /\ pc[w] = "handled"})
<1> DEFINE S == {w \in Workers : claimed[w] = j /\ pc[w] = "handled"}
<1>1. \A w \in Workers : claimed[w] = j <=> lock[j] = w
    BY DEF JobInv, HoldersInv, OneHolder
<1>2. CASE lock[j] # None /\ pc[lock[j]] = "handled"
    <2>1. S = {lock[j]}
        BY <1>1, <1>2 DEF JobInv, HoldersInv, TypeOK
    <2> QED BY <1>2, <2>1, FS_Singleton DEF AtHand
<1>3. CASE ~(lock[j] # None /\ pc[lock[j]] = "handled")
    <2>1. S = {}
        BY <1>1, <1>3, JobWorkerAssumption
    <2> QED BY <1>3, <2>1, FS_EmptySet DEF AtHand
<1> QED BY <1>2, <1>3

LEMMA RunsInit == Init => RunsInv
<1> QED BY JobWorkerAssumption DEF Init, RunsInv, RunsOf, AtHand

(* A commit records the run at hand, which is then no longer at hand.      *)
LEMMA RunsCommitted ==
    ASSUME JobInv, RunsInv, NEW w \in Workers, Committed(w),
           \A v \in Workers \ {w} : pc'[v] = pc[v], crashes' \in {crashes, crashes + 1}
    PROVE  RunsInv'
<1> DEFINE j == claimed[w]
<1>1. /\ j \in Jobs /\ lock[j] = w /\ job[j].status = "pending"
      /\ Updated(w).processed = job[j].processed + (IF pc[w] = "handled" THEN 1 ELSE 0)
      /\ Updated(w).status = "done" <=> pc[w] = "handled"
    BY UpdatedRow DEF Committed
<1>2. /\ job' = [job EXCEPT ![j] = Updated(w)] /\ lock' = [lock EXCEPT ![j] = None]
      /\ ran' = ran /\ lost' = lost
    BY DEF Committed
<1> HIDE DEF j
<1>3. \A k \in Jobs : /\ job[k].processed \in Nat /\ ran[k] \in Nat /\ lost[k] \in Nat
                      /\ lock[k] \in Workers \cup {None}
                      /\ crashes \in Nat
    BY DEF JobInv, HoldersInv, TypeOK
<1>4. ASSUME NEW k \in Jobs PROVE RunsOf(k)'
    <2>1. RunsOf(k)
        BY DEF RunsInv
    <2>2. CASE k = j
        <3>1. job'[k] = Updated(w) /\ lock'[k] = None
            BY <1>1, <1>2, <2>2 DEF JobInv, HoldersInv, TypeOK
        <3>2. AtHand(k) = IF pc[w] = "handled" THEN 1 ELSE 0
            BY <1>1, <2>2, JobWorkerAssumption DEF AtHand
        <3>3. AtHand(k)' = 0
            BY <3>1 DEF AtHand
        <3> QED BY <1>1, <1>2, <1>3, <2>1, <2>2, <3>1, <3>2, <3>3 DEF RunsOf
    <2>3. CASE k # j
        <3>1. job'[k] = job[k] /\ lock'[k] = lock[k]
            BY <1>2, <2>3 DEF JobInv, HoldersInv, TypeOK
        <3>2. lock[k] # w
            BY <1>1, <2>3 DEF JobInv, HoldersInv, OneHolder, j
        <3>3. AtHand(k)' = AtHand(k)
            BY <1>3, <3>1, <3>2 DEF AtHand
        <3> QED BY <1>2, <1>3, <2>1, <3>1, <3>3 DEF RunsOf
    <2> QED BY <2>2, <2>3
<1> QED BY <1>4 DEF RunsInv

(* A crash after the handler's end loses the run at hand.                  *)
LEMMA RunsCrash ==
    ASSUME JobInv, RunsInv, NEW w \in Workers, Crash(w)
    PROVE  RunsInv'
<1>1. \A k \in Jobs : /\ job[k].processed \in Nat /\ ran[k] \in Nat /\ lost[k] \in Nat
                      /\ lock[k] \in Workers \cup {None}
                      /\ crashes \in Nat
    BY DEF JobInv, HoldersInv, TypeOK
<1>2. ASSUME NEW k \in Jobs PROVE RunsOf(k)'
    <2>1. RunsOf(k)
        BY DEF RunsInv
    <2>2. lock[k] = w <=> claimed[w] = k
        BY DEF JobInv, HoldersInv, OneHolder
    <2>3. CASE lock[k] = w
        <3>1. AtHand(k) = IF pc[w] = "handled" THEN 1 ELSE 0
            BY <2>3, JobWorkerAssumption DEF AtHand
        <3>2. AtHand(k)' = 0
            BY <2>3 DEF AtHand, Crash
        <3>3. lost'[k] = lost[k] + (IF pc[w] = "handled" THEN 1 ELSE 0)
            BY <2>2, <2>3, <1>1 DEF Crash, JobInv, HoldersInv, TypeOK
        <3> QED BY <1>1, <2>1, <3>1, <3>2, <3>3 DEF RunsOf, Crash
    <2>4. CASE lock[k] # w
        <3>1. AtHand(k)' = AtHand(k)
            BY <1>1, <2>4 DEF AtHand, Crash, JobInv, HoldersInv, TypeOK
        <3>2. lost'[k] = lost[k]
            BY <2>2, <2>4 DEF Crash, JobInv, HoldersInv, TypeOK
        <3> QED BY <1>1, <2>1, <3>1, <3>2 DEF RunsOf, Crash
    <2> QED BY <2>3, <2>4
<1> QED BY <1>2 DEF RunsInv

(* The handler's end is a run at hand of the job it holds.                 *)
LEMMA RunsHandled ==
    ASSUME JobInv, RunsInv, NEW w \in Workers, HandlerEnds(w)
    PROVE  RunsInv'
<1>1. claimed[w] \in Jobs /\ lock[claimed[w]] = w
    BY DEF HandlerEnds, JobInv, HoldersInv, TypeOK, Hands, OneHolder
<1>2. ASSUME NEW k \in Jobs PROVE RunsOf(k)'
    <2>0. /\ job[k].processed \in Nat /\ ran[k] \in Nat /\ lost[k] \in Nat
          /\ lock[k] \in Workers \cup {None} /\ crashes \in Nat
        BY DEF JobInv, HoldersInv, TypeOK
    <2>1. RunsOf(k)
        BY DEF RunsInv
    <2>2. lock[k] = w <=> claimed[w] = k
        BY DEF JobInv, HoldersInv, OneHolder
    <2>3. CASE lock[k] = w
        <3>1. AtHand(k) = 0 /\ AtHand(k)' = 1
            BY <2>3, JobWorkerAssumption DEF AtHand, HandlerEnds, JobInv, HoldersInv, TypeOK
        <3>2. ran'[k] = ran[k] + 1
            BY <2>2, <2>3 DEF HandlerEnds, JobInv, HoldersInv, TypeOK
        <3> QED BY <2>0, <2>1, <3>1, <3>2 DEF RunsOf, HandlerEnds
    <2>4. CASE lock[k] # w
        <3>1. AtHand(k)' = AtHand(k)
            BY <2>0, <2>4 DEF AtHand, HandlerEnds, JobInv, HoldersInv, TypeOK
        <3>2. ran'[k] = ran[k]
            BY <1>1, <2>2, <2>4 DEF HandlerEnds, JobInv, HoldersInv, TypeOK
        <3> QED BY <2>0, <2>1, <3>1, <3>2 DEF RunsOf, HandlerEnds
    <2> QED BY <2>3, <2>4
<1> QED BY <1>2 DEF RunsInv

(* The other steps run nothing to its end and record nothing.              *)
LEMMA RunsQuiet ==
    ASSUME JobInv, RunsInv, NEW w \in Workers,
           \/ Begin(w) \/ ScanRow(w) \/ NothingToClaim(w) \/ HandlerThrows(w)
           \/ CountPending(w) \/ Wake(w)
    PROVE  RunsInv'
<1>1. UNCHANGED <<job, ran, lost, crashes>>
    BY DEF Begin, ScanRow, NothingToClaim, HandlerThrows, CountPending, Wake
<1>2. pc[w] # "handled" /\ pc'[w] # "handled" /\ \A v \in Workers \ {w} : pc'[v] = pc[v]
    BY DEF Begin, ScanRow, NothingToClaim, HandlerThrows, CountPending, Wake,
           JobInv, HoldersInv, TypeOK
<1>3. ASSUME NEW k \in Jobs PROVE AtHand(k)' = AtHand(k)
    <2>1. CASE UNCHANGED lock
        BY <1>2, <2>1 DEF AtHand, JobInv, HoldersInv, TypeOK
    <2>2. CASE ScanRow(w) /\ lock' # lock
        <3> DEFINE j == CHOOSE i \in scan[w] : \A m \in scan[w] : i <= m
        <3>1. Claimable(j) /\ lock' = [lock EXCEPT ![j] = w]
            BY <2>2 DEF ScanRow
        <3> HIDE DEF j
        <3>2. CASE k = j
            BY <1>2, <3>1, <3>2 DEF AtHand, Claimable, JobInv, HoldersInv, TypeOK
        <3>3. CASE k # j
            BY <1>2, <3>1, <3>3 DEF AtHand, JobInv, HoldersInv, TypeOK
        <3> QED BY <3>2, <3>3
    <2> QED BY <2>1, <2>2 DEF Begin, NothingToClaim, HandlerThrows, CountPending, Wake
<1> QED BY <1>1, <1>3 DEF RunsInv, RunsOf

LEMMA RunsNext == JobInv /\ RunsInv /\ [Next]_vars => RunsInv'
<1> SUFFICES ASSUME JobInv, RunsInv, [Next]_vars PROVE RunsInv'
    OBVIOUS
<1>1. ASSUME NEW w \in Workers, Commit(w) PROVE RunsInv'
    BY <1>1, RunsCommitted DEF Commit, JobInv, HoldersInv, TypeOK
<1>2. ASSUME NEW w \in Workers, CommitAnswerLost(w) PROVE RunsInv'
    BY <1>2, RunsCommitted DEF CommitAnswerLost, JobInv, HoldersInv, TypeOK
<1>3. CASE UNCHANGED vars
    BY <1>3 DEF vars, RunsInv, RunsOf, AtHand
<1> QED BY <1>1, <1>2, <1>3, RunsHandled, RunsQuiet, RunsCrash DEF Next, WorkerStep, AllEnded

(* No job is processed twice, and what its handler did is recorded once,   *)
(* at hand or lost with a crash: its effects repeat at most once per crash *)
(* (job-worker.service.ts runs the handler inside the transaction).        *)
LEMMA RunsAreCounted ==
    ASSUME JobInv, RunsInv
    PROVE  ProcessedOnce
<1>1. ASSUME NEW j \in Jobs
      PROVE  /\ job[j].processed = IF job[j].status = "done" THEN 1 ELSE 0
             /\ ran[j] = job[j].processed + lost[j]
                  + Cardinality({w \in Workers : claimed[w] = j /\ pc[w] = "handled"})
             /\ ran[j] <= 1 + crashes
    <2>1. /\ AtHand(j) = Cardinality({w \in Workers : claimed[w] = j /\ pc[w] = "handled"})
          /\ RunsOf(j)
        BY HandIsHolders DEF RunsInv
    <2>2. job[j].status = "done" => AtHand(j) = 0
        BY DEF AtHand, JobInv, HoldersInv, TypeOK, OneHolder
    <2>3. AtHand(j) \in {0, 1}
        BY DEF AtHand
    <2>4. ran[j] \in Nat /\ lost[j] \in Nat /\ crashes \in Nat
        BY DEF JobInv, HoldersInv, TypeOK
    <2>5. ran[j] <= 1 + crashes
        BY <2>1, <2>2, <2>3, <2>4 DEF RunsOf
    <2> QED BY <2>1, <2>5 DEF RunsOf
<1> QED BY <1>1 DEF ProcessedOnce

(* The jobs are safe in the workers' hands (job-worker.service.ts): with   *)
(* any number of workers, failures and crashes a job is held by at most    *)
(* one transaction, is tried at most maxAttempts times and processed at    *)
(* most once, its effects repeat at most once per crash, and no worker     *)
(* returns while a job of its queue is pending or held.                    *)
THEOREM JobsStaySafe == Spec => []JobsAreSafe
<1>1. JobInv /\ RunsInv => JobsAreSafe
    <2> SUFFICES ASSUME JobInv, RunsInv PROVE AttemptsAreBounded /\ ProcessedOnce
        BY DEF JobInv, HoldersInv, JobsAreSafe
    <2> QED BY RunsAreCounted DEF JobInv, HoldersInv, TypeOK, AttemptsOf, AttemptsAreBounded
<1> QED BY <1>1, JobInit, JobNext, RunsInit, RunsNext, PTL DEF Spec

-----------------------------------------------------------------------------
(* The statistics *)

(* A number that grows by one adds one unit to the sum.                    *)
LEMMA SumGrows ==
    ASSUME NEW S, NEW f \in [S -> Nat], IsFiniteSet(Units(f)), NEW x \in S,
           NEW g, g = [f EXCEPT ![x] = f[x] + 1]
    PROVE  IsFiniteSet(Units(g)) /\ SumOf(g) = SumOf(f) + 1 /\ SumOf(f) \in Nat
<1>1. \A u : u \in Units(f) <=> \E y \in S : \E n \in 1..f[y] : u = <<y, n>>
    BY DEF Units
<1>2. \A u : u \in Units(g) <=> \E y \in S : \E n \in 1..g[y] : u = <<y, n>>
    BY DEF Units
<1>3. <<x, f[x] + 1>> \notin Units(f)
    BY <1>1
<1>4. Units(g) = Units(f) \cup {<<x, f[x] + 1>>}
    <2>1. 1..g[x] = (1..f[x]) \cup {f[x] + 1} /\ \A y \in S : y # x => g[y] = f[y]
        OBVIOUS
    <2>2. ASSUME NEW u PROVE u \in Units(g) <=> u \in Units(f) \/ u = <<x, f[x] + 1>>
        <3>1. u \in Units(g) => u \in Units(f) \/ u = <<x, f[x] + 1>>
            BY <1>1, <1>2, <2>1
        <3>2. u \in Units(f) => u \in Units(g)
            BY <1>1, <1>2, <2>1
        <3>3. <<x, f[x] + 1>> \in Units(g)
            BY <1>2, <2>1
        <3> QED BY <3>1, <3>2, <3>3
    <2> QED BY <2>2
<1>5. PICK u : u = <<x, f[x] + 1>>
    OBVIOUS
<1>6. u \notin Units(f) /\ Units(g) = Units(f) \cup {u}
    BY <1>3, <1>4, <1>5
<1>7. /\ IsFiniteSet(Units(f) \cup {u})
      /\ Cardinality(Units(f) \cup {u}) = Cardinality(Units(f)) + 1
    BY <1>6, FS_AddElement
<1>8. Cardinality(Units(f)) \in Nat
    BY FS_CardinalityType
<1> QED BY <1>6, <1>7, <1>8 DEF SumOf

(* A sum is counted when its units are finitely many.                      *)
Counted(f) == IsFiniteSet(Units(f))
ToldBy(o) == [w \in Workers |-> stats[w][o]]
Tries == [j \in Jobs |-> job[j].attempts]

StatsInv ==
    /\ \A o \in Outcomes : Counted(ToldBy(o))
    /\ Counted(Tries)
    /\ StatsAccountForAttempts

LEMMA NoUnits ==
    ASSUME NEW S, NEW f, f = [x \in S |-> 0]
    PROVE  Counted(f) /\ SumOf(f) = 0
<1>1. Units(f) = {}
    BY DEF Units
<1> QED BY <1>1, FS_EmptySet DEF Counted, SumOf

LEMMA StatsInit == Init => StatsInv
<1> SUFFICES ASSUME Init PROVE StatsInv
    OBVIOUS
<1>1. \A o \in Outcomes : ToldBy(o) = [w \in Workers |-> 0]
    BY DEF Init, ToldBy
<1>2. Tries = [j \in Jobs |-> 0]
    BY DEF Init, Tries
<1>3. \A o \in Outcomes : Counted(ToldBy(o)) /\ Told(o) = 0
    BY <1>1, NoUnits DEF Told, ToldBy
<1>4. Counted(Tries) /\ Attempts = 0
    BY <1>2, NoUnits DEF Attempts, Tries
<1>5. InStatus("done") = {} /\ InStatus("failed") = {}
    BY DEF Init, InStatus
<1>6. Told("done") = 0 /\ Told("retry") = 0 /\ Told("failed") = 0
    BY <1>3 DEF Outcomes
<1>7. crashes = 0
    BY DEF Init
<1> QED BY <1>3, <1>4, <1>5, <1>6, <1>7, FS_EmptySet DEF StatsInv, StatsAccountForAttempts

LEMMA StatusesFinite ==
    ASSUME NEW s
    PROVE  IsFiniteSet(InStatus(s)) /\ Cardinality(InStatus(s)) \in Nat
<1>1. InStatus(s) \in SUBSET Jobs
    BY DEF InStatus
<1> QED BY <1>1, FS_Subset, FS_CardinalityType, JobWorkerAssumption

LEMMA SumsAreNumbers ==
    ASSUME StatsInv
    PROVE  Attempts \in Nat /\ \A o \in Outcomes : Told(o) \in Nat
BY FS_CardinalityType DEF StatsInv, Counted, Told, ToldBy, Attempts, Tries, SumOf

(* A commit records one attempt, and puts the row into the status that the *)
(* outcome names.                                                          *)
LEMMA AttemptRecorded ==
    ASSUME JobInv, StatsInv, NEW w \in Workers, Committed(w)
    PROVE  /\ Counted(Tries)' /\ Attempts' = Attempts + 1
           /\ \A s \in {"done", "failed"} :
                Cardinality(InStatus(s))' =
                    Cardinality(InStatus(s)) + (IF Outcome(Updated(w)) = s THEN 1 ELSE 0)
<1> DEFINE j == claimed[w]
           r == Updated(w)
<1>1. /\ j \in Jobs /\ job[j].status = "pending" /\ r \in JobRow
      /\ job' = [job EXCEPT ![j] = r] /\ job \in [Jobs -> JobRow]
    BY UpdatedRow DEF Committed, JobInv, HoldersInv, TypeOK, JobRow
<1>2. r.attempts = job[j].attempts + 1
    <2>1. job[j] \in JobRow
        BY <1>1
    <2> QED BY <1>1, <2>1, ThrowRow, DoneRow DEF Updated
<1> HIDE DEF j, r
<1>3. Tries \in [Jobs -> Nat] /\ Tries' = [Tries EXCEPT ![j] = Tries[j] + 1]
    BY <1>1, <1>2 DEF Tries, JobRow
<1>4. Counted(Tries)' /\ Attempts' = Attempts + 1
    BY <1>1, <1>3, SumGrows DEF Attempts, Tries, Counted, StatsInv
<1>5. ASSUME NEW s \in {"done", "failed"}
      PROVE  Cardinality(InStatus(s))' = Cardinality(InStatus(s)) + (IF Outcome(r) = s THEN 1 ELSE 0)
    <2>1. j \notin InStatus(s)
        BY <1>1 DEF InStatus
    <2>2. CASE Outcome(r) = s
        <3>1. r.status = s
            BY <2>2, <1>5 DEF Outcome
        <3>2. InStatus(s)' = InStatus(s) \cup {j}
            BY <1>1, <3>1 DEF InStatus
        <3> QED BY <2>1, <2>2, <3>2, StatusesFinite, FS_AddElement
    <2>3. CASE Outcome(r) # s
        <3>1. r.status # s
            BY <2>3, <1>5, <1>1 DEF Outcome, JobRow
        <3>2. InStatus(s)' = InStatus(s)
            BY <1>1, <3>1 DEF InStatus
        <3> QED BY <2>3, <3>2, StatusesFinite
    <2> QED BY <2>2, <2>3
<1> QED BY <1>4, <1>5 DEF r

LEMMA StatsCommit ==
    ASSUME JobInv, StatsInv, NEW w \in Workers, Commit(w)
    PROVE  StatsInv'
<1>1. PICK o \in Outcomes : o = Outcome(Updated(w))
    BY UpdatedRow DEF Commit, Committed
<1>2. stats' = [stats EXCEPT ![w][o] = stats[w][o] + 1] /\ crashes' = crashes
    BY <1>1 DEF Commit
<1>3. stats \in [Workers -> [Outcomes -> Nat]] /\ crashes \in Nat
    BY DEF JobInv, HoldersInv, TypeOK
<1>4. /\ ToldBy(o) \in [Workers -> Nat] /\ ToldBy(o)' = [ToldBy(o) EXCEPT ![w] = ToldBy(o)[w] + 1]
      /\ \A q \in Outcomes : q # o => ToldBy(q)' = ToldBy(q)
    BY <1>2, <1>3 DEF ToldBy
<1>5. Counted(ToldBy(o))' /\ Told(o)' = Told(o) + 1
    BY <1>4, SumGrows DEF Told, ToldBy, Counted, StatsInv
<1>6. \A q \in Outcomes : q # o => Counted(ToldBy(q))' /\ Told(q)' = Told(q)
    BY <1>4 DEF Told, ToldBy, Counted, StatsInv
<1>7. /\ Counted(Tries)' /\ Attempts' = Attempts + 1
      /\ \A s \in {"done", "failed"} :
            Cardinality(InStatus(s))' = Cardinality(InStatus(s)) + (IF o = s THEN 1 ELSE 0)
    BY <1>1, AttemptRecorded DEF Commit
<1>8. /\ Attempts \in Nat /\ \A q \in Outcomes : Told(q) \in Nat
      /\ \A s : Cardinality(InStatus(s)) \in Nat
    BY SumsAreNumbers, StatusesFinite
<1>9. StatsAccountForAttempts'
    <2>1. o \in {"done", "retry", "failed"}
        BY DEF Outcomes
    <2>2. CASE o = "done"
        BY <1>2, <1>3, <1>5, <1>6, <1>7, <1>8, <2>2 DEF Outcomes, StatsInv, StatsAccountForAttempts
    <2>3. CASE o = "retry"
        BY <1>2, <1>3, <1>5, <1>6, <1>7, <1>8, <2>3 DEF Outcomes, StatsInv, StatsAccountForAttempts
    <2>4. CASE o = "failed"
        BY <1>2, <1>3, <1>5, <1>6, <1>7, <1>8, <2>4 DEF Outcomes, StatsInv, StatsAccountForAttempts
    <2> QED BY <2>1, <2>2, <2>3, <2>4
<1> QED BY <1>5, <1>6, <1>7, <1>9 DEF StatsInv

(* An attempt that nobody was told of is paid by the crash.                *)
LEMMA StatsAnswerLost ==
    ASSUME JobInv, StatsInv, NEW w \in Workers, CommitAnswerLost(w)
    PROVE  StatsInv'
<1>1. /\ Counted(Tries)' /\ Attempts' = Attempts + 1
      /\ \A s \in {"done", "failed"} : Cardinality(InStatus(s))' >= Cardinality(InStatus(s))
    BY AttemptRecorded, StatusesFinite DEF CommitAnswerLost
<1>2. \A o \in Outcomes : Counted(ToldBy(o))' /\ Told(o)' = Told(o)
    BY DEF CommitAnswerLost, Told, ToldBy, Counted, StatsInv
<1>3. /\ Attempts \in Nat /\ \A q \in Outcomes : Told(q) \in Nat
      /\ \A s \in {"done", "failed"} :
            Cardinality(InStatus(s)) \in Nat /\ Cardinality(InStatus(s))' \in Nat
      /\ crashes \in Nat /\ crashes' = crashes + 1
    <2>1. \A s : Cardinality(InStatus(s)) \in Nat
        BY StatusesFinite
    <2>2. \A s \in {"done", "failed"} : Cardinality(InStatus(s))' \in Nat
        BY <2>1, AttemptRecorded DEF CommitAnswerLost
    <2> QED BY <2>1, <2>2, SumsAreNumbers DEF CommitAnswerLost, JobInv, HoldersInv, TypeOK
<1> QED BY <1>1, <1>2, <1>3 DEF Outcomes, StatsInv, StatsAccountForAttempts

LEMMA StatsQuiet ==
    ASSUME JobInv, StatsInv, UNCHANGED <<job, stats>>, crashes' \in {crashes, crashes + 1}
    PROVE  StatsInv'
<1>1. /\ Tries' = Tries /\ Attempts' = Attempts
      /\ \A o \in Outcomes : ToldBy(o)' = ToldBy(o) /\ Told(o)' = Told(o)
      /\ \A s \in {"done", "failed"} : InStatus(s)' = InStatus(s)
    BY DEF Tries, Attempts, ToldBy, Told, InStatus
<1>2. crashes \in Nat /\ Attempts \in Nat /\ \A o \in Outcomes : Told(o) \in Nat
    BY SumsAreNumbers DEF JobInv, HoldersInv, TypeOK
<1> QED BY <1>1, <1>2 DEF Outcomes, StatsInv, StatsAccountForAttempts, Counted

LEMMA StatsNext == JobInv /\ StatsInv /\ [Next]_vars => StatsInv'
<1> SUFFICES ASSUME JobInv, StatsInv, [Next]_vars PROVE StatsInv'
    OBVIOUS
<1>1. ASSUME NEW w \in Workers, WorkerStep(w) \/ Crash(w), ~Commit(w) PROVE StatsInv'
    BY <1>1, StatsQuiet DEF WorkerStep, Begin, ScanRow, NothingToClaim, HandlerEnds, HandlerThrows,
                            CountPending, Wake, Crash
<1>2. CASE UNCHANGED vars
    BY <1>2, StatsQuiet DEF vars
<1> QED BY <1>1, <1>2, StatsCommit, StatsAnswerLost DEF Next, AllEnded

(* runWorker's statistics (job-worker.service.ts): with any workers, jobs, *)
(* failures and crashes, what all workers have been told adds up to the    *)
(* attempts on record but for at most one per crash, and no worker was     *)
(* told of more done or failed jobs than there are.                        *)
THEOREM StatsStayTrue == Spec => []StatsAccountForAttempts
<1>1. StatsInv => StatsAccountForAttempts
    BY DEF StatsInv
<1> QED BY <1>1, JobInit, JobNext, StatsInit, StatsNext, PTL DEF Spec

-----------------------------------------------------------------------------
(* The seed *)

RunRecord == [pc : {"insert", "find", "update", "order", "items", "done", "failed"},
              at : Nat, read : {"absent", "seeded", "changed"}, holds : Nat]

SeedTypes ==
    /\ row \in [1..Accounts -> {"absent", "seeded", "changed", "taken"}]
    /\ order \in [1..Orders -> {0, 1}] /\ items \in [1..Orders -> Nat]
    /\ run \in [Runs -> RunRecord] /\ deaths \in Nat

(* How far a run r has come: with the rows W, the orders O and d deaths,   *)
(* the rows and the orders before its entry are there for good, and so is  *)
(* what it has found at its entry.                                         *)
ProgressOf(r, W, O, d) ==
    /\ r \in RunRecord
    /\ r.pc \in {"insert", "find", "update"} =>
        /\ r.at \in 1..(Accounts + 1)
        /\ \A a \in 1..Accounts : a < r.at => W[a] = "seeded"
    /\ r.pc \in {"find", "update"} => r.at <= Accounts /\ W[r.at] # "absent"
    /\ r.pc = "update" =>
        /\ W[r.at] \in {"seeded", "changed"}
        /\ r.read # "changed" => W[r.at] = "seeded"
    /\ r.pc \in {"order", "items", "done"} => \A a \in 1..Accounts : W[a] = "seeded"
    /\ r.pc \in {"order", "items"} =>
        /\ r.at \in 1..(Orders + 1)
        /\ \A o \in 1..Orders : o < r.at => O[o] = 1
    /\ r.pc = "items" => r.holds = r.at /\ r.at <= Orders
    /\ r.pc # "items" => r.holds = 0
    /\ r.pc = "done" => r.at = 1 /\ \A o \in 1..Orders : O[o] = 1
    /\ r.pc = "failed" => r.at = 1 /\ (d > 0 \/ \E a \in 1..Accounts : W[a] = "taken")

(* The unique index: an order that a transaction has inserted is not there *)
(* yet, and no other transaction has inserted it.                          *)
IndexOK ==
    \A x \in Runs : run[x].holds # 0 =>
        /\ order[run[x].holds] = 0
        /\ \A y \in Runs : run[y].holds = run[x].holds => y = x

ItemsOK == \A o \in 1..Orders : items[o] = IF order[o] = 0 THEN 0 ELSE ItemsOf[o]

SeedInv ==
    SeedTypes /\ (\A x \in Runs : ProgressOf(run[x], row, order, deaths)) /\ IndexOK /\ ItemsOK

(* Nothing that the seed has put there goes away again.                    *)
Grows(W, O, d, W2, O2, d2) ==
    /\ \A a \in 1..Accounts : /\ W[a] = "seeded" => W2[a] = "seeded"
                              /\ W[a] = "taken" => W2[a] = "taken"
                              /\ W[a] = "changed" => W2[a] \in {"seeded", "changed"}
    /\ \A o \in 1..Orders : O[o] = 1 => O2[o] = 1
    /\ d \in Nat /\ d2 \in Nat /\ d2 >= d

LEMMA SeedAssumed ==
    Accounts \in Nat /\ Orders \in Nat /\ MaxDeaths \in Nat /\ ItemsOf \in [1..Orders -> Nat \ {0}]
BY ProgramsAssumption DEF SeedScript!SeedAssumption

LEMMA ProgressStays ==
    ASSUME NEW W \in [1..Accounts -> {"absent", "seeded", "changed", "taken"}], NEW O, NEW d,
           NEW W2, NEW O2, NEW d2, Grows(W, O, d, W2, O2, d2),
           NEW r, ProgressOf(r, W, O, d)
    PROVE  ProgressOf(r, W2, O2, d2)
<1> USE SeedAssumed
<1>1. /\ r \in RunRecord /\ r.pc \in {"insert", "find", "update", "order", "items", "done", "failed"}
      /\ r.at \in Nat
    BY DEF ProgressOf, RunRecord
<1>2. ASSUME r.pc \in {"insert", "find", "update"}
      PROVE  /\ r.at \in 1..(Accounts + 1)
             /\ \A a \in 1..Accounts : a < r.at => W2[a] = "seeded"
    BY <1>2 DEF ProgressOf, Grows
<1>3. ASSUME r.pc \in {"find", "update"}
      PROVE  r.at <= Accounts /\ W2[r.at] # "absent"
    <2>1. r.at \in 1..Accounts /\ W[r.at] \in {"seeded", "changed", "taken"}
        BY <1>2, <1>3 DEF ProgressOf
    <2> QED BY <2>1 DEF Grows
<1>4. ASSUME r.pc = "update"
      PROVE  /\ W2[r.at] \in {"seeded", "changed"}
             /\ r.read # "changed" => W2[r.at] = "seeded"
    <2>1. r.at \in 1..Accounts
        BY <1>2, <1>3, <1>4
    <2> QED BY <1>4, <2>1 DEF ProgressOf, Grows
<1>5. r.pc \in {"order", "items", "done"} => \A a \in 1..Accounts : W2[a] = "seeded"
    BY DEF ProgressOf, Grows
<1>6. /\ r.pc \in {"order", "items"} =>
            /\ r.at \in 1..(Orders + 1)
            /\ \A o \in 1..Orders : o < r.at => O2[o] = 1
      /\ r.pc = "done" => r.at = 1 /\ \A o \in 1..Orders : O2[o] = 1
    BY DEF ProgressOf, Grows
<1>7. /\ r.pc = "items" => r.holds = r.at /\ r.at <= Orders
      /\ r.pc # "items" => r.holds = 0
    BY DEF ProgressOf
<1>8. r.pc = "failed" => r.at = 1 /\ (d2 > 0 \/ \E a \in 1..Accounts : W2[a] = "taken")
    BY DEF ProgressOf, Grows
<1> QED BY <1>1, <1>2, <1>3, <1>4, <1>5, <1>6, <1>7, <1>8 DEF ProgressOf

(* The tables grow, and one run goes on to v.                              *)
LEMMA RunStep ==
    ASSUME SeedInv, NEW x \in Runs, NEW v, run' = [run EXCEPT ![x] = v],
           row' \in [1..Accounts -> {"absent", "seeded", "changed", "taken"}],
           order' \in [1..Orders -> {0, 1}], items' \in [1..Orders -> Nat],
           Grows(row, order, deaths, row', order', deaths'),
           ProgressOf(v, row', order', deaths'), IndexOK', ItemsOK'
    PROVE  SeedInv'
<1>1. run \in [Runs -> RunRecord] /\ v \in RunRecord /\ deaths' \in Nat
    BY DEF SeedInv, SeedTypes, ProgressOf, Grows
<1>2. SeedTypes'
    BY <1>1 DEF SeedTypes
<1>3. \A y \in Runs : ProgressOf(run[y], row', order', deaths')
    BY ProgressStays DEF SeedInv, SeedTypes
<1>4. \A y \in Runs : ProgressOf(run'[y], row', order', deaths')
    BY <1>1, <1>3
<1> QED BY <1>2, <1>4 DEF SeedInv

(* A run that holds nothing afterwards and leaves the orders alone.        *)
LEMMA RunAlone ==
    ASSUME SeedInv, NEW x \in Runs, NEW v, run' = [run EXCEPT ![x] = v], v.holds = 0,
           row' \in [1..Accounts -> {"absent", "seeded", "changed", "taken"}],
           Grows(row, order, deaths, row', order', deaths'),
           UNCHANGED <<order, items>>, ProgressOf(v, row', order', deaths')
    PROVE  SeedInv'
<1>1. run \in [Runs -> RunRecord] /\ order \in [1..Orders -> {0, 1}] /\ items \in [1..Orders -> Nat]
    BY DEF SeedInv, SeedTypes
<1>2. IndexOK'
    BY <1>1 DEF SeedInv, IndexOK
<1>3. ItemsOK'
    BY DEF SeedInv, ItemsOK
<1> QED BY <1>1, <1>2, <1>3, RunStep

LEMMA FreshFields ==
    /\ SeedScript!Fresh \in RunRecord /\ SeedScript!Fresh.pc = "insert" /\ SeedScript!Fresh.at = 1
    /\ SeedScript!Fresh.holds = 0 /\ SeedScript!Fresh.read = "absent"
BY DEF SeedScript!Fresh, RunRecord

LEMMA FreshAt ==
    ASSUME NEW n \in Nat, NEW v, v = [SeedScript!Fresh EXCEPT !.at = n]
    PROVE  v \in RunRecord /\ v.pc = "insert" /\ v.at = n /\ v.holds = 0
BY DEF SeedScript!Fresh, RunRecord

LEMMA FreshPc ==
    ASSUME NEW p \in {"order", "done", "failed"}, NEW v, v = [SeedScript!Fresh EXCEPT !.pc = p]
    PROVE  v \in RunRecord /\ v.pc = p /\ v.at = 1 /\ v.holds = 0
BY DEF SeedScript!Fresh, RunRecord

LEMMA FreshOrder ==
    ASSUME NEW n \in Nat, NEW v, v = [SeedScript!Fresh EXCEPT !.pc = "order", !.at = n]
    PROVE  v \in RunRecord /\ v.pc = "order" /\ v.at = n /\ v.holds = 0
BY DEF SeedScript!Fresh, RunRecord

LEMMA FreshProgress ==
    ASSUME NEW W, NEW O, NEW d PROVE ProgressOf(SeedScript!Fresh, W, O, d)
<1>1. /\ 1 \in 1..(Accounts + 1) /\ \A a \in 1..Accounts : ~(a < 1)
    BY SeedAssumed
<1> QED BY <1>1, FreshFields DEF ProgressOf

LEMMA SeedInit == SeedScript!Init => SeedInv
<1> SUFFICES ASSUME SeedScript!Init PROVE SeedInv
    OBVIOUS
<1>1. SeedTypes
    <2>1. \A a \in 1..Accounts : row[a] \in {"absent", "seeded", "changed", "taken"}
        BY DEF SeedScript!Init
    <2> QED BY <2>1, FreshFields DEF SeedScript!Init, SeedTypes
<1>2. \A x \in Runs : run[x] = SeedScript!Fresh
    BY DEF SeedScript!Init
<1>3. \A x \in Runs : ProgressOf(run[x], row, order, deaths)
    BY <1>2, FreshProgress
<1>4. IndexOK /\ ItemsOK
    BY <1>2, FreshFields DEF SeedScript!Init, IndexOK, ItemsOK
<1> QED BY <1>1, <1>3, <1>4 DEF SeedInv

(* The types of a run and of the tables, and that nothing changes.         *)
LEMMA SeedFacts ==
    ASSUME SeedInv, NEW x \in Runs
    PROVE  /\ run[x] \in RunRecord /\ ProgressOf(run[x], row, order, deaths)
           /\ row \in [1..Accounts -> {"absent", "seeded", "changed", "taken"}]
           /\ order \in [1..Orders -> {0, 1}] /\ items \in [1..Orders -> Nat] /\ deaths \in Nat
           /\ Grows(row, order, deaths, row, order, deaths)
BY DEF SeedInv, SeedTypes, Grows

LEMMA InsertRowStep ==
    ASSUME SeedInv, NEW x \in Runs, SeedScript!InsertRow(x) PROVE SeedInv'
<1> USE SeedAssumed
<1> DEFINE a == run[x].at
           v == [run[x] EXCEPT !.pc = "find"]
<1>1. /\ run[x].pc = "insert" /\ a <= Accounts /\ UNCHANGED <<order, items, deaths>>
      /\ row' = IF row[a] = "absent" THEN [row EXCEPT ![a] = "seeded"] ELSE row
      /\ run' = [run EXCEPT ![x] = v]
    BY DEF SeedScript!InsertRow, SeedScript!Insertable
<1>2. a \in 1..Accounts
    BY <1>1, SeedFacts DEF ProgressOf
<1>3. /\ row' \in [1..Accounts -> {"absent", "seeded", "changed", "taken"}] /\ row'[a] # "absent"
      /\ Grows(row, order, deaths, row', order', deaths')
    BY <1>1, <1>2, SeedFacts DEF Grows
<1>4. /\ v \in RunRecord /\ v.pc = "find" /\ v.at = a /\ v.holds = run[x].holds
    BY SeedFacts DEF RunRecord
<1> HIDE DEF v
<1>5. v.holds = 0 /\ \A b \in 1..Accounts : b < a => row'[b] = "seeded"
    BY <1>1, <1>3, <1>4, SeedFacts DEF ProgressOf, Grows
<1>6. ProgressOf(v, row', order', deaths')
    BY <1>2, <1>3, <1>4, <1>5 DEF ProgressOf
<1> QED BY <1>1, <1>3, <1>5, <1>6, RunAlone

LEMMA FindRowStep ==
    ASSUME SeedInv, NEW x \in Runs, SeedScript!FindRow(x) PROVE SeedInv'
<1> USE SeedAssumed
<1>1. /\ run[x].pc = "find" /\ UNCHANGED <<row, order, items, deaths>>
      /\ run' = [run EXCEPT ![x] = SeedScript!Found(x)]
    BY DEF SeedScript!FindRow
<1>2. /\ run[x].at \in 1..Accounts /\ row[run[x].at] \in {"seeded", "changed", "taken"}
    BY <1>1, SeedFacts DEF ProgressOf
<1>3. PICK v : v = SeedScript!Found(x)
    OBVIOUS
<1>4. CASE row[run[x].at] = "taken"
    <2>1. v = [SeedScript!Fresh EXCEPT !.pc = "failed"]
        BY <1>3, <1>4 DEF SeedScript!Found
    <2>2. v \in RunRecord /\ v.pc = "failed" /\ v.at = 1 /\ v.holds = 0
        BY <2>1, FreshPc
    <2>3. ProgressOf(v, row', order', deaths')
        BY <1>1, <1>2, <1>4, <2>2 DEF ProgressOf
    <2> QED BY <1>1, <1>3, <2>2, <2>3, SeedFacts, RunAlone
<1>5. CASE row[run[x].at] \in {"seeded", "changed"}
    <2>1. v = [run[x] EXCEPT !.pc = "update", !.read = row[run[x].at]]
        BY <1>3, <1>5 DEF SeedScript!Found
    <2>2. /\ v \in RunRecord /\ v.pc = "update" /\ v.at = run[x].at /\ v.holds = run[x].holds
          /\ v.read = row[run[x].at]
        BY <1>5, <2>1, SeedFacts DEF RunRecord
    <2>3. v.holds = 0 /\ \A b \in 1..Accounts : b < run[x].at => row[b] = "seeded"
        BY <1>1, <2>2, SeedFacts DEF ProgressOf
    <2>4. ProgressOf(v, row', order', deaths')
        BY <1>1, <1>2, <1>5, <2>2, <2>3 DEF ProgressOf
    <2> QED BY <1>1, <1>3, <2>3, <2>4, SeedFacts, RunAlone
<1> QED BY <1>2, <1>4, <1>5

LEMMA ResetRowStep ==
    ASSUME SeedInv, NEW x \in Runs, SeedScript!ResetRow(x) PROVE SeedInv'
<1> USE SeedAssumed
<1> DEFINE a == run[x].at
           v == [SeedScript!Fresh EXCEPT !.at = a + 1]
<1>1. /\ run[x].pc = "update" /\ UNCHANGED <<order, items, deaths>>
      /\ row' = IF run[x].read = "changed" THEN [row EXCEPT ![a] = "seeded"] ELSE row
      /\ run' = [run EXCEPT ![x] = v]
    BY DEF SeedScript!ResetRow
<1>2. /\ a \in 1..Accounts /\ row[a] \in {"seeded", "changed"}
      /\ run[x].read # "changed" => row[a] = "seeded"
      /\ \A b \in 1..Accounts : b < a => row[b] = "seeded"
    BY <1>1, SeedFacts DEF ProgressOf
<1>3. /\ row' \in [1..Accounts -> {"absent", "seeded", "changed", "taken"}] /\ row'[a] = "seeded"
      /\ Grows(row, order, deaths, row', order', deaths')
    BY <1>1, <1>2, SeedFacts DEF Grows
<1>4. v \in RunRecord /\ v.pc = "insert" /\ v.at = a + 1 /\ v.holds = 0
    <2>1. PICK n \in Nat : n = a + 1
        BY <1>2
    <2> QED BY <2>1, FreshAt
<1> HIDE DEF v
<1>5. \A b \in 1..Accounts : b < a + 1 => row'[b] = "seeded"
    <2>1. \A b \in 1..Accounts : b < a + 1 => b < a \/ b = a
        BY <1>2
    <2> QED BY <1>2, <1>3, <2>1 DEF Grows
<1>6. ProgressOf(v, row', order', deaths')
    BY <1>2, <1>4, <1>5 DEF ProgressOf
<1> QED BY <1>1, <1>3, <1>4, <1>6, RunAlone

LEMMA StartOrdersStep ==
    ASSUME SeedInv, NEW x \in Runs, SeedScript!StartOrders(x) PROVE SeedInv'
<1> USE SeedAssumed
<1> DEFINE v == [SeedScript!Fresh EXCEPT !.pc = "order"]
<1>1. /\ run[x].pc = "insert" /\ run[x].at > Accounts /\ UNCHANGED <<row, order, items, deaths>>
      /\ run' = [run EXCEPT ![x] = v]
    BY DEF SeedScript!StartOrders
<1>2. \A a \in 1..Accounts : row[a] = "seeded"
    BY <1>1, SeedFacts DEF ProgressOf
<1>3. v \in RunRecord /\ v.pc = "order" /\ v.at = 1 /\ v.holds = 0
    BY FreshPc
<1> HIDE DEF v
<1>4. ProgressOf(v, row', order', deaths')
    BY <1>1, <1>2, <1>3 DEF ProgressOf
<1> QED BY <1>1, <1>3, <1>4, SeedFacts, RunAlone

(* insertIfMissing of an order: the transaction takes the place in the     *)
(* index, or the order is there already.                                   *)
LEMMA InsertOrderStep ==
    ASSUME SeedInv, NEW x \in Runs, SeedScript!InsertOrder(x) PROVE SeedInv'
<1> USE SeedAssumed
<1>1. PICK o : o = run[x].at
    OBVIOUS
<1>2. PICK r : r = run[x]
    OBVIOUS
<1>3. /\ r.pc = "order" /\ o <= Orders /\ UNCHANGED <<row, order, items, deaths>>
      /\ \A y \in Runs \ {x} : run[y].holds # o
      /\ run' = [run EXCEPT ![x] = IF order[o] = 0 THEN [r EXCEPT !.pc = "items", !.holds = o]
                                   ELSE [r EXCEPT !.at = o + 1]]
    BY <1>1, <1>2 DEF SeedScript!InsertOrder, SeedScript!NobodyHolds
<1>4. /\ r \in RunRecord /\ r.at = o /\ ProgressOf(r, row, order, deaths)
      /\ run \in [Runs -> RunRecord] /\ order \in [1..Orders -> {0, 1}]
    BY <1>1, <1>2 DEF SeedInv, SeedTypes
<1>5. /\ o \in 1..Orders /\ r.holds = 0
      /\ \A a \in 1..Accounts : row[a] = "seeded"
      /\ \A p \in 1..Orders : p < o => order[p] = 1
    BY <1>3, <1>4 DEF ProgressOf
<1>6. CASE order[o] = 0
    <2>1. PICK v : v = [r EXCEPT !.pc = "items", !.holds = o]
        OBVIOUS
    <2>2. v \in RunRecord /\ v.pc = "items" /\ v.at = o /\ v.holds = o
        BY <1>4, <1>5, <2>1 DEF RunRecord
    <2>3. run' = [run EXCEPT ![x] = v]
        BY <1>3, <1>6, <2>1
    <2>4. ProgressOf(v, row', order', deaths')
        BY <1>3, <1>5, <2>2 DEF ProgressOf
    <2>5. IndexOK'
        <3>1. /\ run'[x].holds = o /\ o # 0
              /\ \A y \in Runs \ {x} : run'[y].holds = run[y].holds /\ run'[y].holds # o
            <4>1. run'[x] = v /\ \A y \in Runs \ {x} : run'[y] = run[y]
                BY <1>4, <2>3
            <4>2. o # 0
                BY <1>5
            <4> QED BY <1>3, <2>2, <4>1, <4>2
        <3> QED BY <1>3, <1>6, <3>1 DEF SeedInv, IndexOK
    <2>6. ItemsOK'
        BY <1>3 DEF SeedInv, ItemsOK
    <2> QED BY <1>3, <2>3, <2>4, <2>5, <2>6, SeedFacts, RunStep
<1>7. CASE order[o] # 0
    <2>1. PICK v : v = [r EXCEPT !.at = o + 1]
        OBVIOUS
    <2>2. v \in RunRecord /\ v.pc = "order" /\ v.at = o + 1 /\ v.holds = 0
        <3>1. o + 1 \in Nat
            BY <1>5
        <3> QED BY <1>3, <1>4, <1>5, <2>1, <3>1 DEF RunRecord
    <2>3. run' = [run EXCEPT ![x] = v]
        BY <1>3, <1>7, <2>1
    <2>4. o + 1 \in 1..(Orders + 1) /\ \A p \in 1..Orders : p < o + 1 => order[p] = 1
        <3>1. order[o] = 1
            BY <1>4, <1>5, <1>7
        <3>2. \A p \in 1..Orders : p < o + 1 => p < o \/ p = o
            BY <1>5
        <3> QED BY <1>5, <3>1, <3>2
    <2>5. ProgressOf(v, row', order', deaths')
        BY <1>3, <1>5, <2>2, <2>4 DEF ProgressOf
    <2> QED BY <1>3, <2>2, <2>3, <2>5, SeedFacts, RunAlone
<1> QED BY <1>6, <1>7

LEMMA InsertItemsStep ==
    ASSUME SeedInv, NEW x \in Runs, SeedScript!InsertItems(x) PROVE SeedInv'
<1> USE SeedAssumed
<1>1. PICK o : o = run[x].holds
    OBVIOUS
<1>2. PICK v : v = [SeedScript!Fresh EXCEPT !.pc = "order", !.at = o + 1]
    OBVIOUS
<1>3. /\ run[x].pc = "items" /\ UNCHANGED <<row, deaths>>
      /\ order' = [order EXCEPT ![o] = 1] /\ items' = [items EXCEPT ![o] = @ + ItemsOf[o]]
      /\ run' = [run EXCEPT ![x] = v]
    BY <1>1, <1>2 DEF SeedScript!InsertItems
<1>4. /\ order \in [1..Orders -> {0, 1}] /\ items \in [1..Orders -> Nat]
      /\ run \in [Runs -> RunRecord] /\ ProgressOf(run[x], row, order, deaths)
      /\ Grows(row, order, deaths, row, order, deaths)
    BY SeedFacts DEF SeedInv, SeedTypes
<1>5. /\ o \in 1..Orders /\ \A a \in 1..Accounts : row[a] = "seeded"
      /\ \A p \in 1..Orders : p < o => order[p] = 1
    BY <1>1, <1>3, <1>4 DEF ProgressOf
<1>6. order[o] = 0 /\ \A y \in Runs : run[y].holds = o => y = x
    BY <1>1, <1>5 DEF SeedInv, IndexOK
<1>7. /\ order' \in [1..Orders -> {0, 1}] /\ items' \in [1..Orders -> Nat]
      /\ order'[o] = 1 /\ items'[o] = ItemsOf[o]
      /\ \A p \in 1..Orders \ {o} : order'[p] = order[p] /\ items'[p] = items[p]
    <2>1. items[o] = 0 /\ ItemsOf[o] \in Nat
        BY <1>5, <1>6 DEF SeedInv, ItemsOK
    <2> QED BY <1>3, <1>4, <1>5, <2>1
<1>8. Grows(row, order, deaths, row', order', deaths')
    BY <1>3, <1>4, <1>7 DEF Grows
<1>9. v \in RunRecord /\ v.pc = "order" /\ v.at = o + 1 /\ v.holds = 0
    <2>1. PICK n \in Nat : n = o + 1
        BY <1>5
    <2> QED BY <1>2, <2>1, FreshOrder
<1>10. o + 1 \in 1..(Orders + 1) /\ \A p \in 1..Orders : p < o + 1 => order'[p] = 1
    <2>1. \A p \in 1..Orders : p < o + 1 => p = o \/ (p < o /\ p \in 1..Orders \ {o})
        BY <1>5
    <2>2. \A p \in 1..Orders : p < o + 1 => order'[p] = 1
        BY <1>5, <1>7, <2>1
    <2>3. o + 1 \in 1..(Orders + 1)
        BY <1>5
    <2> QED BY <2>2, <2>3
<1>11. ProgressOf(v, row', order', deaths')
    BY <1>3, <1>5, <1>9, <1>10 DEF ProgressOf
<1>12. IndexOK'
    <2>1. run'[x].holds = 0 /\ \A y \in Runs \ {x} : run'[y].holds = run[y].holds
        BY <1>3, <1>4, <1>9
    <2>2. ASSUME NEW y \in Runs, run'[y].holds # 0
          PROVE  /\ order'[run'[y].holds] = 0
                 /\ \A z \in Runs : run'[z].holds = run'[y].holds => z = y
        <3>1. y # x /\ run'[y].holds = run[y].holds /\ run[y].holds # o
            BY <1>6, <2>1, <2>2
        <3>2. order[run[y].holds] = 0 /\ \A z \in Runs : run[z].holds = run[y].holds => z = y
            BY <2>2, <3>1 DEF SeedInv, IndexOK
        <3> QED BY <1>3, <1>4, <1>5, <2>1, <2>2, <3>1, <3>2
    <2> QED BY <2>2 DEF IndexOK
<1>13. ItemsOK'
    <2>1. \A p \in 1..Orders \ {o} : items'[p] = IF order'[p] = 0 THEN 0 ELSE ItemsOf[p]
        BY <1>7 DEF SeedInv, ItemsOK
    <2>2. items'[o] = IF order'[o] = 0 THEN 0 ELSE ItemsOf[o]
        BY <1>7
    <2> QED BY <2>1, <2>2 DEF ItemsOK
<1>14. row' \in [1..Accounts -> {"absent", "seeded", "changed", "taken"}]
    BY <1>3 DEF SeedInv, SeedTypes
<1> QED BY <1>3, <1>7, <1>8, <1>11, <1>12, <1>13, <1>14, RunStep

LEMMA FinishStep ==
    ASSUME SeedInv, NEW x \in Runs, SeedScript!Finish(x) PROVE SeedInv'
<1> USE SeedAssumed
<1>1. PICK v : v = [SeedScript!Fresh EXCEPT !.pc = "done"]
    OBVIOUS
<1>2. /\ run[x].pc = "order" /\ run[x].at > Orders /\ UNCHANGED <<row, order, items, deaths>>
      /\ run' = [run EXCEPT ![x] = v]
    BY <1>1 DEF SeedScript!Finish
<1>3. v \in RunRecord /\ v.pc = "done" /\ v.at = 1 /\ v.holds = 0
    BY <1>1, FreshPc
<1>4. /\ \A a \in 1..Accounts : row[a] = "seeded"
      /\ \A o \in 1..Orders : order[o] = 1
    BY <1>2, SeedFacts DEF ProgressOf
<1>5. ProgressOf(v, row', order', deaths')
    BY <1>2, <1>3, <1>4 DEF ProgressOf
<1> QED BY <1>2, <1>3, <1>5, SeedFacts, RunAlone

LEMMA SeedCrashStep ==
    ASSUME SeedInv, NEW x \in Runs, SeedScript!Crash(x) PROVE SeedInv'
<1> USE SeedAssumed
<1>1. PICK v : v = [SeedScript!Fresh EXCEPT !.pc = "failed"]
    OBVIOUS
<1>2. /\ UNCHANGED <<row, order, items>> /\ deaths' = deaths + 1
      /\ run' = [run EXCEPT ![x] = v]
    BY <1>1 DEF SeedScript!Crash
<1>3. v \in RunRecord /\ v.pc = "failed" /\ v.at = 1 /\ v.holds = 0
    BY <1>1, FreshPc
<1>4. deaths' > 0 /\ Grows(row, order, deaths, row', order', deaths')
    BY <1>2, SeedFacts DEF Grows
<1>5. ProgressOf(v, row', order', deaths')
    BY <1>3, <1>4 DEF ProgressOf
<1> QED BY <1>2, <1>3, <1>4, <1>5, SeedFacts, RunAlone

LEMMA AgainStep ==
    ASSUME SeedInv, NEW x \in Runs, SeedScript!Again(x) PROVE SeedInv'
<1>1. UNCHANGED <<row, order, items, deaths>> /\ run' = [run EXCEPT ![x] = SeedScript!Fresh]
    BY DEF SeedScript!Again
<1> QED BY <1>1, FreshFields, FreshProgress, SeedFacts, RunAlone

LEMMA SeedNext == ASSUME SeedInv, [SeedScript!Next]_seedVars PROVE SeedInv'
<1>1. CASE UNCHANGED seedVars
    BY <1>1 DEF seedVars, SeedInv, SeedTypes, IndexOK, ItemsOK
<1>2. ASSUME NEW x \in Runs, SeedScript!Step(x) \/ SeedScript!Crash(x) \/ SeedScript!Again(x)
      PROVE  SeedInv'
    BY <1>2, InsertRowStep, FindRowStep, ResetRowStep, StartOrdersStep, InsertOrderStep,
       InsertItemsStep, FinishStep, SeedCrashStep, AgainStep DEF SeedScript!Step
<1>3. CASE SeedScript!Ended
    <2>1. UNCHANGED seedVars
        BY <1>3 DEF SeedScript!Ended, SeedScript!vars, seedVars
    <2> QED BY <1>1, <2>1
<1> QED BY <1>1, <1>2, <1>3 DEF SeedScript!Next

LEMMA SeedInvHolds == ASSUME SeedInv PROVE SeedIsRepeatable
<1> USE SeedAssumed
<1>1. SeedScript!TypeOK
    <2>1. \A o \in 1..Orders : items[o] \in 0..ItemsOf[o]
        <3>1. ASSUME NEW o \in 1..Orders PROVE items[o] \in 0..ItemsOf[o]
            <4>1. ItemsOf[o] \in Nat /\ items[o] \in {0, ItemsOf[o]}
                BY DEF SeedInv, ItemsOK
            <4> QED BY <4>1
        <3> QED BY <3>1
    <2>2. ASSUME NEW x \in Runs
          PROVE  /\ run[x].pc \in {"insert", "find", "update", "order", "items", "done", "failed"}
                 /\ run[x].at \in 1..(Accounts + Orders + 1)
                 /\ run[x].read \in {"absent", "seeded", "changed"}
                 /\ run[x].holds \in 0..Orders
        <3>1. ProgressOf(run[x], row, order, deaths)
            BY DEF SeedInv
        <3>2. /\ run[x].pc \in {"insert", "find", "update", "order", "items", "done", "failed"}
              /\ run[x].read \in {"absent", "seeded", "changed"}
              /\ run[x].at \in Nat /\ run[x].holds \in Nat
            BY <3>1 DEF ProgressOf, RunRecord
        <3>3. run[x].at \in 1..(Accounts + 1) \/ run[x].at \in 1..(Orders + 1) \/ run[x].at = 1
            BY <3>1, <3>2 DEF ProgressOf
        <3>4. run[x].at \in 1..(Accounts + Orders + 1)
            BY <3>3
        <3>5. run[x].holds \in 0..Orders
            BY <3>1, <3>2 DEF ProgressOf
        <3> QED BY <3>2, <3>4, <3>5
    <2> QED BY <2>1, <2>2 DEF SeedScript!TypeOK, SeedInv, SeedTypes
<1>2. SeedScript!OrdersAreWhole
    <2>1. ASSUME NEW o \in 1..Orders PROVE items[o] = order[o] * ItemsOf[o]
        <3>1. order[o] \in {0, 1} /\ ItemsOf[o] \in Nat
            BY DEF SeedInv, SeedTypes
        <3>2. items[o] = IF order[o] = 0 THEN 0 ELSE ItemsOf[o]
            BY DEF SeedInv, ItemsOK
        <3>3. CASE order[o] = 0
            BY <3>1, <3>2, <3>3
        <3>4. CASE order[o] = 1
            BY <3>1, <3>2, <3>4
        <3> QED BY <3>1, <3>3, <3>4
    <2> QED BY <2>1 DEF SeedScript!OrdersAreWhole
<1>3. SeedScript!DoneMeansSeeded
    BY DEF SeedInv, ProgressOf, SeedScript!DoneMeansSeeded
<1>4. SeedScript!RunsDoNotDisturb
    BY DEF SeedInv, ProgressOf, SeedScript!RunsDoNotDisturb
<1> QED BY <1>1, <1>2, <1>3, <1>4 DEF SeedIsRepeatable, SeedScript!SeedIsRepeatable

(* seed.ts: however many runs of the seed overlap, die and are repeated,   *)
(* with whatever rows of others in the database, an order has all of its   *)
(* items once or is not there, a run that ends without an error leaves     *)
(* everything as the seed says, and only a crash or a taken value makes a  *)
(* run fail.                                                               *)
THEOREM SeedStaysRepeatable == ProgramsSpec => []SeedIsRepeatable
<1>1. ProgramsInit => SeedInv
    BY SeedInit DEF ProgramsInit
<1>2. SeedInv /\ [ProgramsNext]_<<vars, retryVars, seedVars>> => SeedInv'
    <2>1. [ProgramsNext]_<<vars, retryVars, seedVars>> => [SeedScript!Next]_seedVars
        BY DEF ProgramsNext
    <2> QED BY <2>1, SeedNext
<1> QED BY <1>1, <1>2, SeedInvHolds, PTL DEF ProgramsSpec

-----------------------------------------------------------------------------
(* The debits *)

RetryFacts == INSTANCE WithRetryProofs WITH lock <- rowLock

LEMMA RetryAssumed == RetryFacts!WithRetryAssumption
    BY ProgramsAssumption, Zenon DEF Retry!WithRetryAssumption, RetryFacts!WithRetryAssumption,
        Retry!IsFiniteSet, RetryFacts!IsFiniteSet

(* Retry and RetryFacts are two instances of the same definitions.         *)
LEMMA SameRetryInit == Retry!Init => RetryFacts!Init
    BY Zenon DEF Retry!Init, RetryFacts!Init, Retry!Start, RetryFacts!Start

LEMMA SameRetryNext == Retry!Next => RetryFacts!Next
<1>1. ASSUME NEW d
      PROVE  Retry!Step(d) \/ Retry!ConnectionLost(d) \/ Retry!CommitAnswerLost(d)
              => RetryFacts!Step(d) \/ RetryFacts!ConnectionLost(d) \/ RetryFacts!CommitAnswerLost(d)
    BY Zenon DEF
        Retry!Step, Retry!Select, Retry!Update, Retry!Commit, Retry!Wake, Retry!ConnectionLost,
        Retry!CommitAnswerLost, Retry!Committed, Retry!Caught, Retry!MayRetry, Retry!SameVersion,
        Retry!Start, Retry!RETRYABLE_CODES,
        RetryFacts!Step, RetryFacts!Select, RetryFacts!Update, RetryFacts!Commit, RetryFacts!Wake,
        RetryFacts!ConnectionLost, RetryFacts!CommitAnswerLost, RetryFacts!Committed,
        RetryFacts!Caught, RetryFacts!MayRetry, RetryFacts!SameVersion, RetryFacts!Start,
        RetryFacts!RETRYABLE_CODES
<1>2. Retry!AllOver => RetryFacts!AllOver
    BY Zenon DEF Retry!AllOver, RetryFacts!AllOver, Retry!Over, RetryFacts!Over, Retry!vars,
        RetryFacts!vars
<1> QED BY <1>1, <1>2 DEF Retry!Next, RetryFacts!Next

LEMMA RetryStepOrStutter ==
    [ProgramsNext]_<<vars, retryVars, seedVars>> => [RetryFacts!Next]_RetryFacts!vars
    BY SameRetryNext DEF ProgramsNext, retryVars, RetryFacts!vars

LEMMA DebitsBehave == ProgramsSpec => RetryFacts!Spec
<1>1. ProgramsInit => RetryFacts!Init
    BY SameRetryInit DEF ProgramsInit
<1> QED BY <1>1, RetryStepOrStutter, PTL DEF ProgramsSpec, RetryFacts!Spec

(* withRetry and its debits beside the other programs: the balance is      *)
(* short of every applied debit exactly once, and a debit that returned    *)
(* was applied.                                                            *)
THEOREM DebitsStayExact == ProgramsSpec => []DebitsAreExact
<1>1. RetryFacts!DebitsAreExact => DebitsAreExact
    BY Zenon DEF DebitsAreExact, Retry!DebitsAreExact, RetryFacts!DebitsAreExact,
        Retry!TypeOK, RetryFacts!TypeOK, Retry!AppliedOnce, RetryFacts!AppliedOnce,
        Retry!NoLostUpdate, RetryFacts!NoLostUpdate, Retry!Cardinality, RetryFacts!Cardinality
<1>2. RetryFacts!Spec => []RetryFacts!DebitsAreExact
    BY RetryAssumed, RetryFacts!DebitsStayExact
<1> QED BY <1>1, <1>2, DebitsBehave, PTL

(* withRetry beside the other programs: no debit is tried again without    *)
(* another that was applied meanwhile.                                     *)
THEOREM RetriesHaveWinners == ProgramsSpec => []EveryRetryHasAWinner
<1>1. RetryFacts!EveryRetryHasAWinner => EveryRetryHasAWinner
    BY Zenon DEF EveryRetryHasAWinner, Retry!EveryRetryHasAWinner, RetryFacts!EveryRetryHasAWinner,
        Retry!Cardinality, RetryFacts!Cardinality
<1>2. RetryFacts!Spec => []RetryFacts!EveryRetryHasAWinner
    BY RetryAssumed, RetryFacts!RetriesHaveWinners
<1> QED BY <1>1, <1>2, DebitsBehave, PTL
==============================================================================
