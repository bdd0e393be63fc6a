------------------------------- MODULE DQMyPie -------------------------------
(***************************************************************************)
(* DQMyPieQueueDisc: an independent PIE controller on each band when a     *)
(* packet arrives, round robin when one leaves.                            *)
(***************************************************************************)
EXTENDS RoundRobin, PieControl

CONSTANTS
  QDelayRef,         \* m_qDelayRefL4S/Classic, by band
  TUpdate,           \* m_tUpdateL4S/Classic, by band
  MaxBurst           \* m_maxBurstL4S/Classic, by band

DQMyPieAssumption ==
  /\ {QDelayRef, MaxBurst} \subseteq [Band -> Nat]
  /\ TUpdate \in [Band -> Nat \ {0}]

VARIABLES
  dropProb,          \* m_dropProbL4S/Classic, by band
  qDelayOld,         \* m_qDelayOldL4S/Classic
  burstAllowance,    \* m_burstAllowanceL4S/Classic
  nextUpdate,        \* when m_rtrsEventL4S/Classic runs
  calmAt             \* history: when the band's allowance was last refilled

pieVars == <<dropProb, qDelayOld, burstAllowance, nextUpdate, calmAt>>
vars == <<dualVars, rrVars, pieVars>>

(* Each band's probability stays between 0 and 1, whatever CalculateP adds. *)
TypeOK ==
  /\ DualTypeOK
  /\ RRTypeOK
  /\ dropProb \in [Band -> 0 .. ProbOne]
  /\ qDelayOld \in [Band -> Nat]
  /\ burstAllowance \in [Band -> Nat]
  /\ nextUpdate \in [Band -> Nat]
  /\ calmAt \in [Band -> Int]

Init ==
  /\ DualInit
  /\ RRInit({0})
  /\ dropProb = [b \in Band |-> 0]
  /\ qDelayOld = [b \in Band |-> 0]
  /\ burstAllowance = [b \in Band |-> 0]
  /\ nextUpdate \in {[b \in Band |-> 0], TUpdate}
  /\ calmAt = [b \in Band |-> -MaxBurst[b]]

(* The old delay is compared with the whole reference here, and with half  *)
(* of it in L4SMyPie.                                                      *)
Calm(b) ==
  /\ dropProb[b] = 0
  /\ 2 * QDelay(b) < QDelayRef[b]
  /\ qDelayOld[b] < QDelayRef[b]

(* Neither a mark nor an early drop is counted.                            *)
EnqueueBand(b, ecn, u) ==
  LET signal == /\ burstAllowance'[b] = 0
                /\ PieDropEarly(dropProb[b], qDelayOld[b], QDelayRef[b], Len(q[b]), u)
  IN /\ burstAllowance' = IF Calm(b) THEN [burstAllowance EXCEPT ![b] = MaxBurst[b]]
                          ELSE burstAllowance
     /\ calmAt' = IF Calm(b) THEN [calmAt EXCEPT ![b] = now] ELSE calmAt
     /\ Admit(b, Arrival(ecn), signal, stats, stats)
     /\ UNCHANGED <<dropProb, qDelayOld, nextUpdate>>

DoEnqueue(ecn, u) ==
  /\ CanArrive
  /\ IF OverLimit THEN ForcedDrop /\ UNCHANGED pieVars
     ELSE EnqueueBand(BandOf(ecn), ecn, u)
  /\ UNCHANGED rrVars

(* CalculatePL4S and CalculatePClassic                                     *)
CalculateP(b) ==
  /\ pc = "idle"
  /\ nextUpdate[b] = now
  /\ \E v \in NextProbs(dropProb[b], QDelay(b), qDelayOld[b], QDelayRef[b]) :
       dropProb' = [dropProb EXCEPT ![b] = v]
  /\ qDelayOld' = [qDelayOld EXCEPT ![b] = QDelay(b)]
  /\ burstAllowance' = [burstAllowance EXCEPT ![b] = NextBurst(@, TUpdate[b])]
  /\ nextUpdate' = [nextUpdate EXCEPT ![b] = now + TUpdate[b]]
  /\ UNCHANGED <<dualVars, rrVars, calmAt>>

Next ==
  \/ \E ecn \in Ecn, u \in Draw : DoEnqueue(ecn, u)
  \/ DoDequeue /\ UNCHANGED pieVars
  \/ \E b \in Band : CalculateP(b)
  \/ Tick({nextUpdate[b] : b \in Band}) /\ UNCHANGED <<rrVars, pieVars>>

Spec == Init /\ [][Next]_vars

----------------------------------------------------------------------------
(* A burst is let through: for a burst allowance after a packet of a band  *)
(* arrived at a calm band (less one update, which may fall on the same     *)
(* instant) none of its packets is marked or dropped early, whatever the   *)
(* controller computes in between.                                         *)
EarlySignal(ecn) ==
  /\ stats'.forcedDrop = stats.forcedDrop
  /\ \/ dropped' > dropped
     \/ q'[BandOf(ecn)][Len(q'[BandOf(ecn)])].ecn # ecn

BurstProtectedStep ==
  \A ecn \in Ecn, u \in Draw :
    DoEnqueue(ecn, u) /\ EarlySignal(ecn)
      => LET b == BandOf(ecn)
         IN now >= calmAt'[b] + MaxBurst[b] - TUpdate[b]

(* BurstProtectedStep of every step.                                       *)
BurstProtected == [][BurstProtectedStep]_vars
=============================================================================
