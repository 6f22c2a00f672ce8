------------------------------ MODULE MCPrograms ------------------------------
(***************************************************************************)
(* The programs beside the API for TLC.  As they share nothing, one of     *)
(* them runs at a time: the initial state chooses it and the others stay   *)
(* where they are.  What is fair is said of the chosen one only, as the    *)
(* others cannot move.                                                     *)
(***************************************************************************)
EXTENDS Programs, TLC

CONSTANTS w1, w2, w3, main, other

VARIABLE program

(* The last job and the last worker belong to another queue.               *)
TwoQueues == [j \in Jobs |-> IF \A k \in Jobs : k <= j THEN other ELSE main]
TwoQueuesWorkers == [w \in Workers |-> IF w = w3 THEN other ELSE main]

MCItemsOf == <<1, 2>>

ChosenInit ==
    /\ program \in {"jobs", "debits", "seed"}
    /\ ProgramsInit
    /\ program # "seed" => row = [a \in 1..Accounts |-> "absent"]

ChosenNext ==
    /\ ProgramsNext /\ UNCHANGED program
    /\ CASE program = "jobs"   -> UNCHANGED <<retryVars, seedVars>>
         [] program = "debits" -> UNCHANGED <<vars, seedVars>>
         [] program = "seed"   -> UNCHANGED <<vars, retryVars>>

ChosenFairness ==
    /\ \A w \in Workers : WF_vars(program = "jobs" /\ WorkerStep(w))
    /\ \A d \in Debits : WF_retryVars(program = "debits" /\ Retry!Step(d))
    /\ \A x \in Runs : WF_seedVars(program = "seed" /\ SeedScript!Step(x))

ChosenSpec ==
    ChosenInit /\ [][ChosenNext]_<<vars, retryVars, seedVars, program>> /\ ChosenFairness

-----------------------------------------------------------------------------
(* Every worker returns or dies, every debit returns or throws, every run  *)
(* of the seed ends: none waits for another for ever.                      *)
ProgramsEnd ==
    /\ program = "jobs" => EveryWorkerEnds
    /\ program = "debits" => Retry!EveryDebitEnds
    /\ program = "seed" => SeedScript!EveryRunEnds
===============================================================================
