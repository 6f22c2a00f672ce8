------------------------------ MODULE WithRetry ------------------------------
(***************************************************************************)
(* withRetry around a REPEATABLE READ transaction, as demo-retry.ts uses   *)
(* it: concurrent debits of one account, each reading the balance and      *)
(* writing the difference.  The UPDATE of a row that has changed since the *)
(* transaction's snapshot fails with 40001; one of a row another           *)
(* transaction has updated waits for that transaction's end.               *)
(***************************************************************************)
EXTENDS Integers, FiniteSets

CONSTANTS
    Debits, None,
    AMOUNT,            \* DEBIT_AMOUNT
    INITIAL_BALANCE,
    maxAttempts,
    MaxFaults          \* bound on lost connections

WithRetryAssumption ==
    /\ IsFiniteSet(Debits) /\ None \notin Debits \cup {"40001", "23514", "lost"}
    /\ AMOUNT \in Nat /\ INITIAL_BALANCE \in Nat
    /\ maxAttempts \in Nat \ {0} /\ MaxFaults \in Nat

RETRYABLE_CODES == {"40001", "40P01"}

VARIABLES
    balance,       \* the committed balance
    version,       \* of the account's row: commits that changed it
    lock,          \* debit whose transaction has updated the row
    debit,         \* debit[d], a call of withRetry
    applied,       \* how often the change of a debit was committed
    faults

vars == <<balance, version, lock, debit, applied, faults>>

(* seen, at: balance and version of the row in the snapshot; code: of the  *)
(* error the caller got.                                                   *)
Start == [pc |-> "begin", attempt |-> 1, seen |-> 0, at |-> 0, code |-> None]

Init ==
    /\ balance = INITIAL_BALANCE /\ version = 0 /\ lock = None
    /\ debit = [d \in Debits |-> Start]
    /\ applied = [d \in Debits |-> 0]
    /\ faults = 0

(* Mutant: codes do not matter.                                            *)
RetryAnything(d, code) == debit[d].attempt < maxAttempts

(* The opposite of the condition of withRetry's throw.                     *)
MayRetry(d, code) == code \in RETRYABLE_CODES /\ debit[d].attempt < maxAttempts

(* The catch: sleep before the next attempt, or throw.                     *)
Caught(d, code) ==
    debit' = [debit EXCEPT ![d] =
        IF MayRetry(d, code)
        THEN [Start EXCEPT !.pc = "sleeping", !.attempt = debit[d].attempt + 1]
        ELSE [@ EXCEPT !.pc = "thrown", !.code = code]]

-----------------------------------------------------------------------------
(* BEGIN and the SELECT, which takes the snapshot.                         *)
Select(d) ==
    /\ debit[d].pc = "begin"
    /\ debit' = [debit EXCEPT ![d].pc = "read", ![d].seen = balance, ![d].at = version]
    /\ UNCHANGED <<balance, version, lock, applied, faults>>

(* Mutant: READ COMMITTED, the newest version will do.                     *)
AnyVersion(d) == TRUE

(* The row is as the snapshot has it.                                      *)
SameVersion(d) == debit[d].at = version

(* The UPDATE, at once or when the transaction it waits for has ended.     *)
Update(d) ==
    /\ debit[d].pc = "read" /\ lock = None
    /\ CASE ~SameVersion(d) -> Caught(d, "40001") /\ UNCHANGED lock
         [] SameVersion(d) /\ debit[d].seen < AMOUNT -> Caught(d, "23514") /\ UNCHANGED lock
         [] OTHER -> /\ lock' = d
                     /\ debit' = [debit EXCEPT ![d].pc = "updated"]
    /\ UNCHANGED <<balance, version, applied, faults>>

Committed(d) ==
    /\ debit[d].pc = "updated"
    /\ balance' = debit[d].seen - AMOUNT
    /\ version' = version + 1
    /\ lock' = None
    /\ applied' = [applied EXCEPT ![d] = @ + 1]

Commit(d) ==
    /\ Committed(d)
    /\ debit' = [debit EXCEPT ![d].pc = "returned"]
    /\ UNCHANGED faults

(* sleep(delayMs), then the next attempt.                                  *)
Wake(d) ==
    /\ debit[d].pc = "sleeping"
    /\ debit' = [debit EXCEPT ![d].pc = "begin"]
    /\ UNCHANGED <<balance, version, lock, applied, faults>>

(* The connection breaks, which has no code of RETRYABLE_CODES: before the *)
(* COMMIT the transaction is rolled back, ...                              *)
ConnectionLost(d) ==
    /\ debit[d].pc \in {"begin", "read", "updated"} /\ faults < MaxFaults
    /\ faults' = faults + 1
    /\ lock' = IF lock = d THEN None ELSE lock
    /\ Caught(d, "lost")
    /\ UNCHANGED <<balance, version, applied>>

(* ... during it, it may be committed and only the answer is lost.         *)
CommitAnswerLost(d) ==
    /\ faults < MaxFaults /\ Committed(d)
    /\ faults' = faults + 1
    /\ Caught(d, "lost")

Over(d) == debit[d].pc \in {"returned", "thrown"}

(* Promise.all of the debits has settled.                                  *)
AllOver == (\A d \in Debits : Over(d)) /\ UNCHANGED vars

(* What a debit that can go on does sooner or later: PostgreSQL answers    *)
(* and timers fire.  One that waits for the row has no claim on it before  *)
(* the others.                                                             *)
Step(d) == Select(d) \/ Update(d) \/ Commit(d) \/ Wake(d)

Next ==
    \/ \E d \in Debits :
        \/ Step(d)
        \/ ConnectionLost(d) \/ CommitAnswerLost(d)
    \/ AllOver

Spec == Init /\ [][Next]_vars

-----------------------------------------------------------------------------
(* Properties                                                              *)

(* The types of the variables; an operation gets at most maxAttempts.      *)
TypeOK ==
    /\ balance \in Int /\ version \in Nat /\ lock \in Debits \cup {None}
    /\ applied \in [Debits -> Nat] /\ faults \in 0..MaxFaults
    /\ \A d \in Debits :
        /\ debit[d].pc \in {"begin", "read", "updated", "sleeping", "returned", "thrown"}
        /\ debit[d].attempt \in 1..maxAttempts
        /\ debit[d].code \in {None, "40001", "23514", "lost"}
        /\ debit[d].seen \in Int /\ debit[d].at \in 0..version

(* "Every debit applied exactly once" (demo-retry.ts): a debit that        *)
(* returned has been applied once, one that threw not at all, unless the   *)
(* answer to its COMMIT was lost; nothing is applied twice.                *)
AppliedOnce ==
    \A d \in Debits :
        CASE debit[d].pc = "returned" -> applied[d] = 1
          [] debit[d].pc = "thrown" ->
                applied[d] = 0 \/ (applied[d] = 1 /\ debit[d].code = "lost")
          [] OTHER -> applied[d] = 0

(* No lost update: the balance is short of exactly the debits that were    *)
(* applied, and never below zero.                                          *)
NoLostUpdate ==
    /\ balance = INITIAL_BALANCE - AMOUNT * Cardinality({d \in Debits : applied[d] > 0})
    /\ balance >= 0

(* A debit is applied once or not at all, whatever it raced and retried.   *)
DebitsAreExact == TypeOK /\ AppliedOnce /\ NoLostUpdate

(* Each retry of a debit is paid for by another debit that was applied: a  *)
(* serialization failure always has a winner.  So with at most maxAttempts *)
(* debits nobody runs out of attempts (demo-retry.ts: 3 debits, 5          *)
(* attempts).                                                              *)
EveryRetryHasAWinner ==
    \A d \in Debits :
        /\ debit[d].attempt - 1 <= Cardinality({e \in Debits \ {d} : applied[e] > 0})
        /\ debit[d].code = "40001" => Cardinality(Debits) > maxAttempts

(* Every call of withRetry returns or throws.                              *)
EveryDebitEnds == \A d \in Debits : <>Over(d)
==============================================================================
