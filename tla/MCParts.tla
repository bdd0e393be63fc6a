------------------------------ MODULE MCParts ------------------------------
(***************************************************************************)
(* Three parts of the system that do not meet, "part" saying which is      *)
(* looked at: FqCoDel with the CoDel discs of its flows, the coupling of   *)
(* the two LTE bearers, and DCTCP.                                         *)
(***************************************************************************)
EXTENDS FqCoDel, LteCoupling, Dctcp

VARIABLE part

MCInit ==
  /\ part \in {"fqcodel", "lte", "dctcp"}
  /\ Init /\ LteInit /\ DctcpInit
  /\ part # "lte" => typed = [l4s |-> TRUE, red |-> FALSE]

MCNext ==
  /\ UNCHANGED part
  /\ \/ part = "fqcodel" /\ Next /\ UNCHANGED <<lteVars, dctcpVars>>
     \/ part = "lte" /\ LteNext /\ UNCHANGED <<vars, dctcpVars>>
     \/ part = "dctcp" /\ DctcpNext /\ UNCHANGED <<vars, lteVars>>

MCSpec ==
  MCInit /\ [][MCNext]_<<part, vars, lteVars, dctcpVars>> /\ Fairness
=============================================================================
