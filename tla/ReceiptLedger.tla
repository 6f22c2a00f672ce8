---------------------------- MODULE ReceiptLedger ----------------------------
(***************************************************************************)
(* What the outbox, the broker and the consumers promise together: a       *)
(* receipt is issued for an order that was placed, once.  Messages, relays *)
(* and redeliveries do not exist here.                                     *)
(***************************************************************************)
CONSTANT Orders

VARIABLES placed, issued

ledgerVars == <<placed, issued>>

LedgerInit == placed = {} /\ issued = {}

Place(o) == o \notin placed /\ placed' = placed \cup {o} /\ UNCHANGED issued

Issue(o) == o \in placed \ issued /\ issued' = issued \cup {o} /\ UNCHANGED placed

LedgerNext == \E o \in Orders : Place(o) \/ Issue(o)

LedgerSpec == LedgerInit /\ [][LedgerNext]_ledgerVars
=============================================================================
