--------------------------- MODULE MCReceivables ---------------------------
(* Small instances of Receivables for TLC. *)
EXTENDS Receivables

CONSTANTS w1, w2, inv1, inv2, mpesa1, card1
=============================================================================
