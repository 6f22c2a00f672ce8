--------------------------- MODULE WithRetryProofs ---------------------------
(***************************************************************************)
(* Proofs about withRetry around a REPEATABLE READ debit, for any number   *)
(* of debits, attempts and lost connections.                               *)
(***************************************************************************)
EXTENDS WithRetry, FiniteSetTheorems, TLAPS

DebitRecord ==
    [pc : {"begin", "read", "updated", "sleeping", "returned", "thrown"},
     attempt : 1..maxAttempts, seen : Int, at : Nat,
     code : {None, "40001", "23514", "lost"}]

Types ==
    /\ balance \in Int /\ version \in Nat /\ lock \in Debits \cup {None}
    /\ applied \in [Debits -> Nat] /\ faults \in 0..MaxFaults
    /\ debit \in [Debits -> DebitRecord]

(* The debits whose change was committed.                                  *)
Applied == {d \in Debits : applied[d] > 0}

(* A transaction has the row exactly while its change is not committed,    *)
(* its snapshot is not from the future, and as long as the row has the     *)
(* version of the snapshot, what was read is what is there.                *)
Snapshots ==
    \A d \in Debits :
        /\ debit[d].pc = "updated" <=> lock = d
        /\ debit[d].at <= version
        /\ debit[d].pc \in {"read", "updated"} /\ debit[d].at = version => debit[d].seen = balance
        /\ debit[d].pc = "updated" => debit[d].at = version /\ debit[d].seen >= AMOUNT

(* AppliedOnce, one place of a debit at a time.                            *)
Once ==
    \A d \in Debits :
        /\ debit[d].pc = "returned" => applied[d] = 1
        /\ debit[d].pc = "thrown" =>
                applied[d] = 0 \/ (applied[d] = 1 /\ debit[d].code = "lost")
        /\ debit[d].pc \notin {"returned", "thrown"} => applied[d] = 0

(* The version of the row counts the debits that were applied, and each of *)
(* them is missing from the balance.                                       *)
Counted ==
    /\ version = Cardinality(Applied)
    /\ balance = INITIAL_BALANCE - AMOUNT * version
    /\ balance >= 0

RetryInv == Types /\ Snapshots /\ Once /\ Counted

-----------------------------------------------------------------------------
LEMMA RetryInit == ASSUME WithRetryAssumption, Init PROVE RetryInv
<1> USE DEF Init, Start, WithRetryAssumption
<1>1. Types
    BY DEF Types, DebitRecord
<1>2. Snapshots /\ Once
    BY DEF Snapshots, Once
<1>3. Counted
    <2>1. Applied = {}
        BY DEF Applied
    <2> QED BY <2>1, FS_EmptySet DEF Counted
<1> QED BY <1>1, <1>2, <1>3 DEF RetryInv

(* The catch of withRetry leaves the debit in one of two places.           *)
LEMMA CaughtDebit ==
    ASSUME WithRetryAssumption, Types, NEW d \in Debits,
           NEW code \in {"40001", "23514", "lost"}, Caught(d, code)
    PROVE  /\ debit' \in [Debits -> DebitRecord]
           /\ \A e \in Debits \ {d} : debit'[e] = debit[e]
           /\ \/ /\ code = "40001" /\ debit'[d].pc = "sleeping" /\ debit'[d].at = 0
                 /\ debit'[d].attempt = debit[d].attempt + 1 /\ debit'[d].code = None
              \/ /\ debit'[d].pc = "thrown" /\ debit'[d].code = code
                 /\ debit'[d].at = debit[d].at
                 /\ debit'[d].attempt = debit[d].attempt
                 /\ code = "40001" => debit[d].attempt = maxAttempts
<1>1. debit[d] \in DebitRecord
    BY DEF Types
<1>2. CASE MayRetry(d, code)
    <2> DEFINE n == debit[d].attempt + 1
               r == [Start EXCEPT !.pc = "sleeping", !.attempt = n]
    <2>1. n \in 1..maxAttempts /\ code = "40001"
        BY <1>1, <1>2 DEF DebitRecord, MayRetry, RETRYABLE_CODES, WithRetryAssumption
    <2>2. Start \in DebitRecord
        BY DEF Start, DebitRecord, WithRetryAssumption
    <2>3. r \in DebitRecord
        <3> HIDE DEF n
        <3> QED BY <2>1, <2>2, Zenon DEF DebitRecord
    <2>4. r.pc = "sleeping" /\ r.attempt = n /\ r.at = 0 /\ r.code = None
        BY DEF Start
    <2>5. debit' = [debit EXCEPT ![d] = r]
        BY <1>2 DEF Caught
    <2> QED BY <2>1, <2>3, <2>4, <2>5 DEF Types
<1>3. CASE ~MayRetry(d, code)
    <2> DEFINE r == [debit[d] EXCEPT !.pc = "thrown", !.code = code]
    <2>1. debit' = [debit EXCEPT ![d] = r]
        BY <1>3 DEF Caught
    <2>2. r \in DebitRecord
        BY <1>1, Zenon DEF DebitRecord
    <2>3. r.pc = "thrown" /\ r.code = code /\ r.at = debit[d].at /\ r.attempt = debit[d].attempt
        BY <1>1 DEF DebitRecord
    <2>4. code = "40001" => debit[d].attempt = maxAttempts
        BY <1>1, <1>3 DEF DebitRecord, MayRetry, RETRYABLE_CODES, WithRetryAssumption
    <2> QED BY <2>1, <2>2, <2>3, <2>4 DEF Types
<1> QED BY <1>2, <1>3

(* Steps that commit nothing.                                              *)
LEMMA RetryQuiet ==
    ASSUME WithRetryAssumption, RetryInv, NEW d \in Debits,
           Select(d) \/ Update(d) \/ Wake(d) \/ ConnectionLost(d)
    PROVE  RetryInv'
<1> USE DEF RetryInv
<1>0. UNCHANGED <<balance, version, applied>>
    BY DEF Select, Update, Wake, ConnectionLost
<1>1. Counted'
    BY <1>0 DEF Counted, Applied
<1>2. debit[d] \in DebitRecord
    BY DEF Types
<1>3. CASE Select(d)
    <2> DEFINE r == [debit[d] EXCEPT !.pc = "read", !.seen = balance, !.at = version]
    <2>1. debit' = [debit EXCEPT ![d] = r] /\ UNCHANGED <<lock, faults>> /\ debit[d].pc = "begin"
        BY <1>3 DEF Select, Types
    <2>2. r \in DebitRecord
        BY <1>2, Zenon DEF DebitRecord, Types
    <2>3. r.pc = "read" /\ r.seen = balance /\ r.at = version
        BY <1>2 DEF DebitRecord
    <2> HIDE DEF r
    <2>4. Types'
        BY <1>0, <2>1, <2>2 DEF Types
    <2>5. Snapshots'
        BY <1>0, <2>1, <2>3 DEF Snapshots, Types
    <2>6. Once'
        BY <1>0, <2>1, <2>3 DEF Once, Types
    <2> QED BY <1>1, <2>4, <2>5, <2>6
<1>4. CASE Wake(d)
    <2> DEFINE r == [debit[d] EXCEPT !.pc = "begin"]
    <2>1. debit' = [debit EXCEPT ![d] = r] /\ UNCHANGED <<lock, faults>> /\ debit[d].pc = "sleeping"
        BY <1>4 DEF Wake, Types
    <2>2. r \in DebitRecord
        BY <1>2, Zenon DEF DebitRecord
    <2>3. r.pc = "begin" /\ r.seen = debit[d].seen /\ r.at = debit[d].at
        BY <1>2 DEF DebitRecord
    <2> HIDE DEF r
    <2>4. Types'
        BY <1>0, <2>1, <2>2 DEF Types
    <2>5. Snapshots'
        BY <1>0, <2>1, <2>3 DEF Snapshots, Types
    <2>6. Once'
        BY <1>0, <2>1, <2>3 DEF Once, Types
    <2> QED BY <1>1, <2>4, <2>5, <2>6
<1>5. CASE Update(d) /\ lock' = d
    <2> DEFINE r == [debit[d] EXCEPT !.pc = "updated"]
    <2>1. /\ debit' = [debit EXCEPT ![d] = r] /\ UNCHANGED faults
          /\ debit[d].pc = "read" /\ lock = None
          /\ debit[d].at = version /\ ~(debit[d].seen < AMOUNT)
        BY <1>5 DEF Update, SameVersion, Types, WithRetryAssumption
    <2>2. r \in DebitRecord
        BY <1>2, Zenon DEF DebitRecord
    <2>3. r.pc = "updated" /\ r.seen = debit[d].seen /\ r.at = debit[d].at
        BY <1>2 DEF DebitRecord
    <2> HIDE DEF r
    <2>4. Types'
        BY <1>0, <1>5, <2>1, <2>2 DEF Types
    <2>5. Snapshots'
        BY <1>0, <1>2, <1>5, <2>1, <2>3 DEF Snapshots, Types, DebitRecord, WithRetryAssumption
    <2>6. Once'
        BY <1>0, <2>1, <2>3 DEF Once, Types
    <2> QED BY <1>1, <2>4, <2>5, <2>6
<1>6. CASE (Update(d) /\ lock' # d) \/ ConnectionLost(d)
    <2>1. PICK code \in {"40001", "23514", "lost"} : Caught(d, code)
        BY <1>6 DEF Update, ConnectionLost
    <2>2. /\ debit[d].pc \in {"begin", "read", "updated"}
          /\ lock' = IF lock = d THEN None ELSE lock
          /\ faults' \in 0..MaxFaults
        BY <1>6 DEF Update, ConnectionLost, Types, WithRetryAssumption
    <2>3. /\ debit' \in [Debits -> DebitRecord]
          /\ \A e \in Debits \ {d} : debit'[e] = debit[e]
          /\ debit'[d].pc \in {"sleeping", "thrown"}
          /\ debit'[d].at = 0 \/ debit'[d].at = debit[d].at
        BY <2>1, CaughtDebit
    <2>4. Types'
        BY <1>0, <2>2, <2>3 DEF Types
    <2>5. Snapshots'
        BY <1>0, <2>2, <2>3 DEF Snapshots, Types, WithRetryAssumption
    <2>6. Once'
        BY <1>0, <2>2, <2>3 DEF Once, Types
    <2> QED BY <1>1, <2>4, <2>5, <2>6
<1> QED BY <1>3, <1>4, <1>5, <1>6

(* A commit applies a debit that was not applied before, to the balance it *)
(* has read.                                                               *)
LEMMA CommittedDebit ==
    ASSUME WithRetryAssumption, RetryInv, NEW d \in Debits, Committed(d)
    PROVE  /\ Applied' = Applied \cup {d} /\ d \notin Applied /\ IsFiniteSet(Applied)
           /\ applied[d] = 0 /\ applied'[d] = 1
           /\ \A e \in Debits \ {d} : applied'[e] = applied[e]
           /\ lock = d /\ debit[d].at = version /\ Counted'
<1> USE DEF RetryInv
<1>1. /\ applied[d] = 0 /\ applied'[d] = 1
      /\ \A e \in Debits \ {d} : applied'[e] = applied[e]
    BY DEF Committed, Once, Types
<1>2. Applied' = Applied \cup {d} /\ d \notin Applied
    BY <1>1 DEF Applied
<1>3. IsFiniteSet(Applied)
    BY FS_Subset DEF Applied, WithRetryAssumption
<1>4. lock = d /\ debit[d].at = version /\ debit[d].seen = balance /\ balance >= AMOUNT
    BY DEF Committed, Snapshots
<1>5. Counted'
    <2>1. Cardinality(Applied') = Cardinality(Applied) + 1
        BY <1>2, <1>3, FS_AddElement
    <2>2. version \in Nat /\ balance \in Int /\ AMOUNT \in Nat /\ INITIAL_BALANCE \in Nat
        BY DEF Types, WithRetryAssumption
    <2>3. AMOUNT * (version + 1) = AMOUNT * version + AMOUNT /\ AMOUNT * version \in Nat
        BY <2>2
    <2>4. balance' = balance - AMOUNT /\ version' = version + 1
        BY <1>4 DEF Committed
    <2> QED BY <1>4, <2>1, <2>2, <2>3, <2>4 DEF Counted
<1> QED BY <1>1, <1>2, <1>3, <1>4, <1>5

LEMMA RetryCommit ==
    ASSUME WithRetryAssumption, RetryInv, NEW d \in Debits, Commit(d) \/ CommitAnswerLost(d)
    PROVE  RetryInv'
<1> USE DEF RetryInv
<1>1. Committed(d)
    BY DEF Commit, CommitAnswerLost
<1>2. /\ applied'[d] = 1 /\ \A e \in Debits \ {d} : applied'[e] = applied[e]
      /\ lock = d /\ debit[d].at = version /\ Counted'
    BY <1>1, CommittedDebit
<1>3. /\ version' = version + 1 /\ lock' = None
      /\ balance' \in Int /\ applied' \in [Debits -> Nat]
    <2>1. debit[d].seen \in Int
        BY DEF Types, DebitRecord
    <2> QED BY <1>1, <2>1 DEF Committed, Types, WithRetryAssumption
<1>4. /\ debit' \in [Debits -> DebitRecord] /\ faults' \in 0..MaxFaults
      /\ \A e \in Debits \ {d} : debit'[e] = debit[e]
      /\ debit'[d].at <= version
      /\ \/ debit'[d].pc = "returned"
         \/ debit'[d].pc = "thrown" /\ debit'[d].code = "lost"
    <2>1. CASE Commit(d)
        <3> DEFINE r == [debit[d] EXCEPT !.pc = "returned"]
        <3>1. debit[d] \in DebitRecord
            BY DEF Types
        <3>2. r \in DebitRecord
            BY <3>1, Zenon DEF DebitRecord
        <3>3. r.pc = "returned" /\ r.at = debit[d].at
            BY <3>1 DEF DebitRecord
        <3>4. debit' = [debit EXCEPT ![d] = r] /\ faults' = faults
            BY <2>1 DEF Commit, Types
        <3> HIDE DEF r
        <3> QED BY <1>2, <3>2, <3>3, <3>4 DEF Types
    <2>2. CASE CommitAnswerLost(d)
        BY <1>2, <2>2, CaughtDebit DEF CommitAnswerLost, Types, WithRetryAssumption
    <2> QED BY <2>1, <2>2
<1>5. Types'
    BY <1>3, <1>4 DEF Types
<1>6. Snapshots'
    <2>1. \A e \in Debits \ {d} : debit[e].pc # "updated" /\ debit[e].at \in Nat /\ debit[e].at <= version
        BY <1>2 DEF Snapshots, Types, DebitRecord
    <2>2. version \in Nat /\ debit'[d].at \in Nat
        BY <1>4 DEF Types, DebitRecord
    <2> QED BY <1>3, <1>4, <2>1, <2>2 DEF Snapshots, WithRetryAssumption
<1>7. Once'
    BY <1>2, <1>4 DEF Once
<1> QED BY <1>2, <1>5, <1>6, <1>7

LEMMA RetryNext == ASSUME WithRetryAssumption, RetryInv, [Next]_vars PROVE RetryInv'
<1>1. CASE UNCHANGED vars
    BY <1>1 DEF vars, RetryInv, Types, Snapshots, Once, Counted, Applied
<1> QED BY <1>1, RetryQuiet, RetryCommit DEF Next, Step, AllOver

(* A debit that returned was applied once and one that threw not at all,   *)
(* unless the answer to its COMMIT was lost, and the balance is short of   *)
(* exactly the applied ones (with-retry.ts, demo-retry.ts), whatever the   *)
(* number of debits and attempts.                                          *)
THEOREM DebitsStayExact == ASSUME WithRetryAssumption PROVE Spec => []DebitsAreExact
<1>1. Init => RetryInv
    BY RetryInit
<1>2. RetryInv /\ [Next]_vars => RetryInv'
    BY RetryNext
<1>3. RetryInv => DebitsAreExact
    <2> SUFFICES ASSUME RetryInv PROVE DebitsAreExact
        OBVIOUS
    <2> USE DEF RetryInv
    <2>1. TypeOK
        BY DEF TypeOK, Types, DebitRecord, Snapshots
    <2>2. AppliedOnce
        BY DEF AppliedOnce, Once
    <2>3. NoLostUpdate
        BY DEF NoLostUpdate, Counted, Applied
    <2> QED BY <2>1, <2>2, <2>3 DEF DebitsAreExact
<1> QED BY <1>1, <1>2, <1>3, PTL DEF Spec

-----------------------------------------------------------------------------
(* Retries *)

Winners(d) == {e \in Debits \ {d} : applied[e] > 0}

(* Each retry so far has a winner.  A transaction's snapshot already has   *)
(* all of them, so the one it loses to next is a new one; and one that     *)
(* loses its last attempt has met maxAttempts others.                      *)
Paid(d) ==
    /\ debit[d].attempt - 1 <= Cardinality(Winners(d))
    /\ debit[d].pc \in {"read", "updated"} => debit[d].attempt - 1 <= debit[d].at
    /\ debit[d].code = "40001" => Cardinality(Debits) > maxAttempts

WinnersInv == \A d \in Debits : Paid(d)

(* To a debit that is not applied every version of the row is a winner.    *)
LEMMA WinnersCount ==
    ASSUME WithRetryAssumption, RetryInv, NEW d \in Debits
    PROVE  /\ IsFiniteSet(Winners(d)) /\ Cardinality(Winners(d)) \in Nat
           /\ applied[d] = 0 => Cardinality(Winners(d)) = version /\ version < Cardinality(Debits)
           /\ Cardinality(Debits) \in Nat
<1>1. IsFiniteSet(Winners(d)) /\ IsFiniteSet(Debits)
    BY FS_Subset DEF Winners, WithRetryAssumption
<1>2. ASSUME applied[d] = 0
      PROVE  Cardinality(Winners(d)) = version /\ version < Cardinality(Debits)
    <2>1. Winners(d) = Applied
        BY <1>2 DEF Winners, Applied
    <2>2. Winners(d) \subseteq Debits \ {d} /\ IsFiniteSet(Debits \ {d})
        BY <1>1, FS_Subset DEF Winners
    <2>3. Cardinality(Winners(d)) <= Cardinality(Debits \ {d})
        BY <2>2, FS_Subset
    <2>4. Cardinality(Debits \ {d}) = Cardinality(Debits) - 1
        BY <1>1, FS_RemoveElement
    <2>5. Cardinality(Winners(d)) \in Nat /\ Cardinality(Debits) \in Nat
        BY <1>1, FS_CardinalityType
    <2> QED BY <2>1, <2>3, <2>4, <2>5 DEF RetryInv, Counted
<1> QED BY <1>1, <1>2, FS_CardinalityType

LEMMA WinnersInit == ASSUME WithRetryAssumption, Init PROVE WinnersInv
<1>1. ASSUME NEW d \in Debits PROVE Paid(d)
    <2>1. Winners(d) = {}
        BY DEF Winners, Init
    <2> QED BY <2>1, FS_EmptySet DEF Paid, Init, Start, WithRetryAssumption
<1> QED BY <1>1 DEF WinnersInv

(* Winners are never taken back, so a debit that stays keeps its account.  *)
LEMMA PaidKept ==
    ASSUME WithRetryAssumption, RetryInv, RetryInv', NEW d \in Debits, Paid(d),
           \A e \in Debits \ {d} : applied'[e] >= applied[e],
           debit'[d].attempt = debit[d].attempt,
           debit'[d].pc \in {"read", "updated"} => debit[d].attempt - 1 <= debit'[d].at,
           debit'[d].code \in {debit[d].code, "lost", "23514"}
    PROVE  Paid(d)'
<1>1. Winners(d) \subseteq Winners(d)'
    BY DEF Winners, RetryInv, Types
<1>2. /\ IsFiniteSet(Winners(d)') /\ Cardinality(Winners(d)') \in Nat
      /\ Cardinality(Winners(d)) \in Nat
    BY WinnersCount, FS_Subset, FS_CardinalityType DEF Winners, WithRetryAssumption
<1>3. Cardinality(Winners(d)) <= Cardinality(Winners(d)')
    BY <1>1, <1>2, FS_Subset
<1>4. debit[d].attempt \in Int
    BY DEF RetryInv, Types, DebitRecord
<1> QED BY <1>2, <1>3, <1>4 DEF Paid

(* A lost attempt: the row has moved since the snapshot.                   *)
LEMMA PaidByLoss ==
    ASSUME WithRetryAssumption, RetryInv, RetryInv', NEW d \in Debits, Paid(d),
           debit[d].pc = "read", ~SameVersion(d), Caught(d, "40001"),
           UNCHANGED <<version, applied>>
    PROVE  Paid(d)'
<1>1. applied[d] = 0
    BY DEF RetryInv, Once
<1>2. Cardinality(Winners(d)) = version /\ version < Cardinality(Debits)
      /\ Cardinality(Debits) \in Nat
    BY <1>1, WinnersCount
<1>3. Winners(d)' = Winners(d)
    BY DEF Winners
<1>4. /\ debit[d].at \in Nat /\ version \in Nat /\ debit[d].attempt \in 1..maxAttempts
      /\ debit[d].at < version
    <2>1. debit[d] \in DebitRecord /\ version \in Nat
        BY DEF RetryInv, Types
    <2>2. debit[d].at \in Nat /\ debit[d].attempt \in 1..maxAttempts
        BY <2>1 DEF DebitRecord
    <2> QED BY <2>1, <2>2 DEF RetryInv, Snapshots, SameVersion
<1>5. debit[d].attempt - 1 <= debit[d].at
    BY DEF Paid
<1>6. \/ /\ debit'[d].pc = "sleeping" /\ debit'[d].attempt = debit[d].attempt + 1
         /\ debit'[d].code = None
      \/ /\ debit'[d].pc = "thrown" /\ debit'[d].attempt = debit[d].attempt
         /\ debit[d].attempt = maxAttempts
    BY CaughtDebit DEF RetryInv
<1> QED BY <1>2, <1>3, <1>4, <1>5, <1>6 DEF Paid, WithRetryAssumption

(* What a step of d leaves of the other debits, and of what was applied.   *)
LEMMA OthersStay ==
    ASSUME WithRetryAssumption, RetryInv, NEW d \in Debits,
           Step(d) \/ ConnectionLost(d) \/ CommitAnswerLost(d)
    PROVE  /\ \A e \in Debits \ {d} : debit'[e] = debit[e]
           /\ \A e \in Debits : applied'[e] >= applied[e]
<1> USE DEF RetryInv, Types
<1>1. \A e \in Debits \ {d} : debit'[e] = debit[e]
    BY DEF Step, Select, Update, Commit, Wake, ConnectionLost, CommitAnswerLost, Caught
<1>2. CASE applied' = applied
    BY <1>1, <1>2
<1>3. CASE Committed(d)
    BY <1>1, <1>3 DEF Committed
<1> QED BY <1>2, <1>3 DEF Step, Select, Update, Commit, Wake, ConnectionLost, CommitAnswerLost

LEMMA WinnersNext ==
    ASSUME WithRetryAssumption, RetryInv, RetryInv', WinnersInv, [Next]_vars
    PROVE  WinnersInv'
<1>1. ASSUME NEW d \in Debits, Step(d) \/ ConnectionLost(d) \/ CommitAnswerLost(d)
      PROVE  WinnersInv'
    <2>1. /\ \A e \in Debits \ {d} : debit'[e] = debit[e]
          /\ \A e \in Debits : applied'[e] >= applied[e]
        BY <1>1, OthersStay
    <2>2. ASSUME NEW e \in Debits \ {d} PROVE Paid(e)'
        <3>1. Paid(e) /\ debit'[e] = debit[e]
            BY <2>1 DEF WinnersInv
        <3> QED BY <2>1, <3>1, PaidKept DEF Paid
    <2>3. Paid(d)'
        <3>1. Paid(d) /\ debit[d] \in DebitRecord
            BY DEF WinnersInv, RetryInv, Types
        <3>2. CASE Select(d)
            <4>1. debit[d].pc = "begin" /\ applied[d] = 0
                BY <3>2 DEF Select, RetryInv, Once
            <4>2. debit[d].attempt - 1 <= version
                BY <4>1, <3>1, WinnersCount DEF Paid
            <4>3. debit'[d] = [debit[d] EXCEPT !.pc = "read", !.seen = balance, !.at = version]
                BY <3>2 DEF Select, RetryInv, Types
            <4>4. /\ debit'[d].attempt = debit[d].attempt /\ debit'[d].at = version
                  /\ debit'[d].code = debit[d].code
                BY <4>3, <3>1 DEF DebitRecord
            <4> QED BY <2>1, <3>1, <4>2, <4>4, PaidKept
        <3>3. CASE Wake(d) \/ Commit(d) \/ (Update(d) /\ lock' = d)
            <4>1. PICK q \in {"begin", "returned", "updated"} :
                    /\ debit'[d] = [debit[d] EXCEPT !.pc = q]
                    /\ q = "updated" => debit[d].pc = "read"
                BY <3>3 DEF Wake, Commit, Update, SameVersion, RetryInv, Types, WithRetryAssumption
            <4>2. /\ debit'[d].attempt = debit[d].attempt /\ debit'[d].at = debit[d].at
                  /\ debit'[d].code = debit[d].code /\ debit'[d].pc = q
                BY <4>1, <3>1 DEF DebitRecord
            <4> QED BY <2>1, <3>1, <4>1, <4>2, PaidKept DEF Paid
        <3>4. CASE Update(d) /\ ~SameVersion(d)
            BY <3>1, <3>4, PaidByLoss DEF Update
        <3>5. ASSUME NEW code \in {"23514", "lost"}, Caught(d, code) PROVE Paid(d)'
            <4>1. /\ debit'[d].pc = "thrown" /\ debit'[d].code = code
                  /\ debit'[d].attempt = debit[d].attempt
                BY <3>5, CaughtDebit DEF RetryInv
            <4> QED BY <2>1, <3>1, <4>1, PaidKept
        <3> QED BY <1>1, <3>2, <3>3, <3>4, <3>5 DEF Step, Update, ConnectionLost, CommitAnswerLost
    <2> QED BY <2>2, <2>3 DEF WinnersInv
<1>2. CASE UNCHANGED vars
    BY <1>2 DEF vars, WinnersInv, Paid, Winners
<1> QED BY <1>1, <1>2 DEF Next, AllOver

(* Each retry of a debit is paid for by another debit that was applied, so *)
(* with at most maxAttempts debits nobody runs out of attempts             *)
(* (with-retry.ts retries 40001 and 40P01 only), whatever their number.    *)
THEOREM RetriesHaveWinners == ASSUME WithRetryAssumption PROVE Spec => []EveryRetryHasAWinner
<1>1. Init => RetryInv /\ WinnersInv
    BY RetryInit, WinnersInit
<1>2. RetryInv /\ WinnersInv /\ [Next]_vars => RetryInv' /\ WinnersInv'
    BY RetryNext, WinnersNext
<1>3. WinnersInv => EveryRetryHasAWinner
    BY DEF WinnersInv, Paid, Winners, EveryRetryHasAWinner
<1> QED BY <1>1, <1>2, <1>3, PTL DEF Spec
==============================================================================
