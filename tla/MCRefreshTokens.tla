--------------------------- MODULE MCRefreshTokens ---------------------------
(***************************************************************************)
(* An instance of RefreshTokens for TLC.  The initial state chooses what   *)
(* TLC looks at: a race of three requests early in the life of a token, or *)
(* two requests at a time and the cleanup over almost two lives.  Both are *)
(* behaviours of Spec.                                                     *)
(***************************************************************************)
EXTENDS RefreshTokens, TLC

VARIABLE focus

Race    == clock' <= 1
Cleanup == /\ Len(issued') < MaxTokens
           /\ Cardinality({r \in Requests : req'[r].pc # "idle"}) <= 2

FocusInit == Init /\ focus \in {"race", "cleanup"}

FocusNext ==
    /\ Next
    /\ IF focus = "race" THEN Race ELSE Cleanup
    /\ UNCHANGED focus

FocusSpec == FocusInit /\ [][FocusNext]_<<vars, focus>>

Symmetry == Permutations(Requests)
==============================================================================
