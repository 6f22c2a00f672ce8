-------------------------- MODULE MCOutboxMessaging --------------------------
(***************************************************************************)
(* An instance of OutboxMessaging for TLC.                                 *)
(***************************************************************************)
EXTENDS OutboxMessaging, TLC

(* The event of order 1 under a new message id, a message that breaks the  *)
(* contract.                                                               *)
Repeat == [id |-> 101, order |-> 1]
Poison == [id |-> 102, order |-> None]

NoForeign   == {}
BothForeign == {Repeat, Poison}

(***************************************************************************)
(* Relays and consumers meet in the queue only, so TLC looks at two kinds  *)
(* of behaviour, chosen in the initial state: many relays and rows with    *)
(* one handler at a time, or many consumers and messages with one relay    *)
(* and one row.  Both are behaviours of Spec.                              *)
(***************************************************************************)
VARIABLE focus

AtMostOne(S) == Cardinality(S) <= 1

OneHandler == /\ foreignLeft' = Foreign
              /\ AtMostOne({c \in Consumers : consumerUp'[c]})
              /\ AtMostOne(deliveries')
              /\ \A m \in queue' : m.count = 0

OneRow == /\ AtMostOne({w \in Relays : relay'[w].pc # "down"})
          /\ \A o \in Orders \ {1} : outbox'[o] = "none"

FocusInit == Init /\ focus \in {"relays", "consumers"}

FocusNext ==
    /\ Next
    /\ IF focus = "relays" THEN OneHandler ELSE OneRow
    /\ UNCHANGED focus

FocusSpec == FocusInit /\ [][FocusNext]_<<vars, focus>>

Symmetry == Permutations(Relays) \cup Permutations(Consumers)
=============================================================================
