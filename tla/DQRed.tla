-------------------------------- MODULE DQRed --------------------------------
(***************************************************************************)
(* DQREDQueueDisc: instantaneous-length RED on each band when a packet     *)
(* arrives, round robin when one leaves.                                   *)
(***************************************************************************)
EXTENDS RoundRobin

CONSTANTS
  ProbOne,           \* the probability 1
  MinTh, MaxTh,      \* m_minThL4S/Classic and m_maxThL4S/Classic, by band
  MaxProb            \* m_maxProbL4S/Classic, by band

RedAssumption ==
  /\ ProbOne \in Nat \ {0}
  /\ {MinTh, MaxTh} \subseteq [Band -> Nat]
  /\ MaxProb \in [Band -> 0 .. ProbOne]

vars == <<dualVars, rrVars>>

(* The disc adds no state to that of the round robin.                      *)
TypeOK == DualTypeOK /\ RRTypeOK

(* InitializeParams resets m_dqCount, a leftover of PIE; m_dqCounter keeps *)
(* whatever the heap held.                                                 *)
Init == DualInit /\ RRInit(0 .. CounterMod - 1)

(* linear between the thresholds; u is a draw of the uniform variable      *)
DropEarly(b, u) ==
  LET length == Len(q[b])
  IN \/ length > MaxTh[b]
     \/ /\ length > MinTh[b]
        /\ (length - MinTh[b]) * MaxProb[b] > u * (MaxTh[b] - MinTh[b])

(* A mark counts as classicMark in both bands.                             *)
DoEnqueue(ecn, u) ==
  /\ CanArrive
  /\ IF OverLimit THEN ForcedDrop
     ELSE Admit(BandOf(ecn), Arrival(ecn), DropEarly(BandOf(ecn), u),
                [stats EXCEPT !.mark[Classic] = @ + 1],
                [stats EXCEPT !.unforcedDrop = @ + 1])
  /\ UNCHANGED rrVars

Next ==
  \/ \E ecn \in Ecn, u \in {0, ProbOne - 1} : DoEnqueue(ecn, u)
  \/ DoDequeue
  \/ Tick({}) /\ UNCHANGED rrVars

Spec == Init /\ [][Next]_vars
=============================================================================
