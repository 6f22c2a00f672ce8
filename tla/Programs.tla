------------------------------- MODULE Programs -------------------------------
(***************************************************************************)
(* The programs that run beside the API: the workers of the jobs table,    *)
(* concurrent debits under withRetry, and overlapping runs of the seed.    *)
(* They use tables of their own and interleave freely.                     *)
(***************************************************************************)
EXTENDS JobWorker

CONSTANTS
    Debits, AMOUNT, INITIAL_BALANCE, maxAttempts, MaxFaults,
    Runs, Accounts, Orders, ItemsOf, MaxDeaths

VARIABLES
    balance, version, rowLock, debit, applied, faults,
    row, order, items, run, deaths

retryVars == <<balance, version, rowLock, debit, applied, faults>>
seedVars  == <<row, order, items, run, deaths>>

Retry == INSTANCE WithRetry WITH lock <- rowLock

SeedScript == INSTANCE Seed WITH MaxCrashes <- MaxDeaths, crashes <- deaths

ASSUME ProgramsAssumption == Retry!WithRetryAssumption /\ SeedScript!SeedAssumption

ProgramsInit == Init /\ Retry!Init /\ SeedScript!Init

ProgramsNext ==
    \/ Next /\ UNCHANGED <<retryVars, seedVars>>
    \/ Retry!Next /\ UNCHANGED <<vars, seedVars>>
    \/ SeedScript!Next /\ UNCHANGED <<vars, retryVars>>

ProgramsSpec == ProgramsInit /\ [][ProgramsNext]_<<vars, retryVars, seedVars>>

-----------------------------------------------------------------------------
(* withRetry: a debit that returned was applied once, one that threw not   *)
(* at all unless its COMMIT was not answered, and the balance is short of  *)
(* exactly the debits that were applied.                                   *)
DebitsAreExact == Retry!DebitsAreExact

(* withRetry: each retry is paid for by another debit that was applied.    *)
EveryRetryHasAWinner == Retry!EveryRetryHasAWinner

(* seed.ts: an order has all of its items, once each, or is not there; a   *)
(* run that ended without an error leaves everything there; only a crash   *)
(* or a taken value makes a run fail.                                      *)
SeedIsRepeatable == SeedScript!SeedIsRepeatable
===============================================================================
