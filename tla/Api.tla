---------------------------------- MODULE Api ----------------------------------
(***************************************************************************)
(* What API processes keep or share beside the orders themselves: the      *)
(* denylist of access tokens, the order events of a process, and the       *)
(* cached card of a product.  They share no state and interleave freely;   *)
(* OrderEvents has the verdict of a token check, AccessDenylist how it is  *)
(* reached.                                                                *)
(***************************************************************************)
EXTENDS AccessDenylist

CONSTANTS
    Orders, Users, Owner, Changers, Streams, Sockets, UserOf, BUFFER_SIZE, MAX_ORDERS,
    MaxChanges, MaxCrashes,
    Readers, Workers, MAX_POLLS, ATTEMPTS, MaxVersion, MaxCardFaults

VARIABLES
    status, committed, log, change, buffers, stream, socket, gateway, revoked, expired, mixed,
    crashes,
    version, card, lock, redisUp, proc, job, cardFaults

eventVars == <<status, committed, log, change, buffers, stream, socket, gateway, revoked,
               expired, mixed, crashes>>
cardVars == <<version, card, lock, redisUp, proc, job, cardFaults>>

Events == INSTANCE OrderEvents

Cards == INSTANCE ProductCardCache WITH MaxFaults <- MaxCardFaults, faults <- cardFaults

ASSUME ApiAssumption ==
    DenylistAssumption /\ Events!EventsAssumption /\ Cards!CardsAssumption

ApiInit == Init /\ Events!Init /\ Cards!Init

ApiNext ==
    \/ Next /\ UNCHANGED <<eventVars, cardVars>>
    \/ Events!Next /\ UNCHANGED <<vars, cardVars>>
    \/ Cards!Next /\ UNCHANGED <<vars, eventVars>>

ApiSpec == ApiInit /\ [][ApiNext]_<<vars, eventVars, cardVars>>

-----------------------------------------------------------------------------
(* Events: as long as the changes of an order do not overlap and the       *)
(* process lives, every committed change has exactly one event, in the     *)
(* order of the commits.                                                   *)
EventsFollowCommits == Events!EventsFollowCommits

(* Events: a client sees the events of an order in order, on a stream over *)
(* any number of reconnects and in a room.                                 *)
EventsInOrder == Events!EventsInOrder

(* Events: an event published after the client's token became invalid is   *)
(* not delivered to the client, unless it is replayed.                     *)
NoLateEvent == Events!NoLateEvent

(* Cards: a process under the stampede lock keeps it until it expires, and *)
(* a refresh that succeeds has seen the change it was queued for.          *)
CardsAreSafe == Cards!CardsAreSafe
================================================================================
