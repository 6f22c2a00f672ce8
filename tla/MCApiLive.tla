------------------------------- MODULE MCApiLive -------------------------------
(***************************************************************************)
(* What the API does in the end, for TLC: the denylist comes back into     *)
(* sync, the events that wait are dealt with, and reads of a product card  *)
(* and its refresh jobs end.  The three parts share nothing that matters   *)
(* to this; the initial state chooses one and the others stay where they   *)
(* are.  What is fair is said of the chosen one only, as the others cannot *)
(* move.                                                                   *)
(***************************************************************************)
EXTENDS Api, TLC

CONSTANTS i1, o1, u1, c1, k1, w1, r1, v1

VARIABLE part

OneOwner == o1 :> u1
OneUser  == (k1 :> u1) @@ (w1 :> u1)

PartInit == ApiInit /\ part \in {"denylist", "events", "cards"}

PartNext ==
    /\ \/ part = "denylist" /\ Next /\ UNCHANGED <<eventVars, cardVars>>
       \/ part = "events" /\ Events!Next /\ UNCHANGED <<vars, cardVars>>
       \/ part = "cards" /\ Cards!Next /\ UNCHANGED <<vars, eventVars>>
    /\ UNCHANGED part

PartFairness ==
    /\ WF_vars(part = "denylist" /\ TaskStep(i1))
    /\ WF_vars(part = "denylist" /\ ConnectionStep(i1))
    /\ WF_eventVars(part = "events" /\ Events!Publish(c1))
    /\ WF_eventVars(part = "events" /\ Events!StreamStep(k1))
    /\ WF_eventVars(part = "events" /\ Events!GatewayStep)
    /\ WF_cardVars(part = "cards" /\ Cards!GetStep(r1))
    /\ WF_cardVars(part = "cards" /\ (Cards!GetStep(v1) \/ Cards!JobStep(v1)))

PartSpec == PartInit /\ [][PartNext]_<<vars, eventVars, cardVars, part>> /\ PartFairness

-----------------------------------------------------------------------------
(* An instance that is out of sync is in sync again, and a committed       *)
(* revocation reaches Redis within its window.                             *)
DenylistComesBack == part = "denylist" => DenylistRecovers

(* Events that wait in a stream or in the gateway are dealt with; every    *)
(* read of a card and every refresh job that is queued ends.               *)
PendingWorkEnds ==
    /\ part = "events" => Events!QueuesDrain
    /\ part = "cards" => Cards!EveryGetEnds /\ Cards!EveryJobEnds
================================================================================
