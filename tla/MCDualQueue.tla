----------------------------- MODULE MCDualQueue -----------------------------
(***************************************************************************)
(* L4SDiscs for TLC: the settings that are functions of the band.          *)
(***************************************************************************)
EXTENDS L4SDiscs

MCCapacity == [b \in Band |-> 3]
MCQDelayRefs == [b \in Band |-> 1]
MCTUpdates == [b \in Band |-> 1]
MCMaxBursts == [b \in Band |-> IF b = L4S THEN 1 ELSE 2]
MCMinTh == [b \in Band |-> IF b = L4S THEN 0 ELSE 1]
MCMaxTh == [b \in Band |-> IF b = L4S THEN 1 ELSE 2]
MCMaxProb == [b \in Band |-> ProbOne]
=============================================================================
