---------------------------- MODULE MCTrafficControl ----------------------------
(***************************************************************************)
(* Installations for TLC: which disc serves a transmission queue.          *)
(***************************************************************************)
EXTENDS Installations

MCDiscOf == [t \in TxQueue |-> 1]
MCChildDiscOf == [t \in TxQueue |-> t]
=============================================================================
