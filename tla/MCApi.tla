-------------------------------- MODULE MCApi --------------------------------
(***************************************************************************)
(* The state an API process keeps or shares with its peers, for TLC: the   *)
(* order events, the denylist behind their token checks, and the cached    *)
(* card of a product.  The initial state chooses what TLC looks at and the *)
(* rest stays where it is: two changes of one order, two orders that       *)
(* compete for a buffer, a room beside the order of another buyer, two     *)
(* instances with a denylist, or the card.                                 *)
(***************************************************************************)
EXTENDS Api, Sequences, TLC

CONSTANTS o1, o2, o3, u1, u2, c1, c2

VARIABLE focus

MCOwner == (o1 :> u1) @@ (o2 :> u1) @@ (o3 :> u2)
Buyer   == [k \in Streams \cup Sockets |-> u1]

(* Only these orders change, each at most n times.                         *)
Changing(S, n) ==
    \A o \in Orders : Len(committed'[o]) <= IF o \in S THEN n ELSE 0

OneChanger == change'[c2] = Events!Idle
OneUser    == u2 \notin revoked' \cup expired'

(* Clients watch these orders only.                                        *)
Watching(S) ==
    /\ \A k \in Streams : stream'[k].order \in S \cup {None}
    /\ \A w \in Sockets : socket'[w].joining \in S \cup {None}

NoSockets  == ~gateway'.delivering /\ \A w \in Sockets : socket'[w] = Events!NoSocket
NoStreams  == \A k \in Streams : stream'[k] = Events!NoClient

OfEvents ==
    CASE focus = "streams" -> Changing({o1}, 4) /\ Watching({o1}) /\ NoSockets /\ OneUser
      [] focus = "buffers" -> /\ Changing({o1, o2}, 3) /\ Watching({o1, o2})
                              /\ NoSockets /\ OneChanger /\ revoked' \cup expired' = {} /\ crashes' = 0
      [] focus = "rooms"   -> /\ Changing({o1, o3}, 2) /\ Watching({o1, o3})
                              /\ NoStreams /\ OneChanger /\ OneUser

(* Three processes at the first change of the product, two at the second.  *)
OfCard == version' < 2 \/ \E p \in Readers \cup Workers : proc'[p] = Cards!Idle

FocusInit ==
    /\ focus \in {"streams", "buffers", "rooms", "denylist", "card"}
    /\ ApiInit

FocusNext ==
    /\ CASE focus = "denylist" -> Next /\ UNCHANGED <<eventVars, cardVars>>
         [] focus = "card"     -> Cards!Next /\ OfCard /\ UNCHANGED <<vars, eventVars>>
         [] OTHER              -> Events!Next /\ OfEvents /\ UNCHANGED <<vars, cardVars>>
    /\ UNCHANGED focus

FocusSpec == FocusInit /\ [][FocusNext]_<<vars, eventVars, cardVars, focus>>

Symmetry == Permutations(Instances) \cup Permutations(Readers)
================================================================================
