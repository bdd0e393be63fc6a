------------------------------ MODULE L4SMyPie ------------------------------
(***************************************************************************)
(* L4SMyPieQueueDisc: PIE on the Classic band, its square root coupled to  *)
(* the L4S band, both decided when a packet arrives; L4S has strict        *)
(* priority when packets leave.                                            *)
(***************************************************************************)
EXTENDS DualQueue, PieControl

CONSTANTS
  QDelayRef,         \* m_qDelayRef
  TUpdate,           \* m_tUpdate
  MaxBurst,          \* m_maxBurst
  L4SThreshTime,     \* m_l4sThreshTime
  L4SThreshLen       \* m_l4sThreshLen

MyPieAssumption ==
  /\ {QDelayRef, MaxBurst, L4SThreshTime, L4SThreshLen} \subseteq Nat
  /\ TUpdate \in Nat \ {0}

VARIABLES
  dropProb,          \* m_dropProb
  qDelayOld,         \* m_qDelayOld
  burstAllowance,    \* m_burstAllowance
  nextUpdate,        \* when m_rtrsEvent runs CalculateP
  calmAt             \* history: when the allowance was last refilled

myPieVars == <<dropProb, qDelayOld, burstAllowance, nextUpdate, calmAt>>
vars == <<dualVars, myPieVars>>

(* CalculateP keeps the probability between 0 and 1, whatever it adds.     *)
TypeOK ==
  /\ DualTypeOK
  /\ dropProb \in 0 .. ProbOne
  /\ qDelayOld \in Nat
  /\ burstAllowance \in 0 .. MaxBurst
  /\ nextUpdate \in Nat
  /\ calmAt \in Int

(* InitializeParams leaves m_burstAllowance at 0.                          *)
Init ==
  /\ DualInit
  /\ dropProb = 0
  /\ qDelayOld = 0
  /\ burstAllowance = 0
  /\ nextUpdate \in {0, TUpdate}
  /\ calmAt = -MaxBurst

(* L4S: the coupled probability is zero when dropProb is; the threshold    *)
(* test looks at the queue before the packet joins it.                     *)
EnqueueL4S(ecn, u) ==
  LET signal == \/ dropProb > u
                \/ QDelay(L4S) > L4SThreshTime /\ Len(q[L4S]) > L4SThreshLen
  IN /\ BandOf(ecn) = L4S
     /\ Admit(L4S, Arrival(ecn), signal,
              [stats EXCEPT !.mark[Classic] = @ + 1],
              [stats EXCEPT !.unforcedDrop = @ + 1])
     /\ UNCHANGED myPieVars

Calm == dropProb = 0 /\ 2 * QDelay(Classic) < QDelayRef /\ 2 * qDelayOld < QDelayRef

(* Classic: a calm queue refills the allowance first, and then no signal   *)
(* can follow.  Neither a mark nor an early drop is counted.               *)
EnqueueClassic(ecn, u) ==
  LET signal == /\ burstAllowance' = 0
                /\ PieDropEarly(dropProb, qDelayOld, QDelayRef, Len(q[Classic]), u)
  IN /\ BandOf(ecn) = Classic
     /\ burstAllowance' = IF Calm THEN MaxBurst ELSE burstAllowance
     /\ calmAt' = IF Calm THEN now ELSE calmAt
     /\ Admit(Classic, Arrival(ecn), signal, stats, stats)
     /\ UNCHANGED <<dropProb, qDelayOld, nextUpdate>>

DoEnqueue(ecn, u) ==
  /\ CanArrive
  /\ IF OverLimit THEN ForcedDrop /\ UNCHANGED myPieVars
     ELSE EnqueueL4S(ecn, u) \/ EnqueueClassic(ecn, u)

CalculateP ==
  /\ pc = "idle"
  /\ nextUpdate = now
  /\ dropProb' \in NextProbs(dropProb, QDelay(Classic), qDelayOld, QDelayRef)
  /\ qDelayOld' = QDelay(Classic)
  /\ burstAllowance' = NextBurst(burstAllowance, TUpdate)
  /\ nextUpdate' = now + TUpdate
  /\ UNCHANGED <<dualVars, calmAt>>

DoDequeue ==
  /\ pc = "idle"
  /\ \/ BothEmpty /\ ReturnNull
     \/ q[L4S] # <<>> /\ Deliver(L4S, Head(q[L4S]), stats)
     \/ q[L4S] = <<>> /\ q[Classic] # <<>> /\ Deliver(Classic, Head(q[Classic]), stats)
  /\ UNCHANGED myPieVars

Next ==
  \/ \E ecn \in Ecn, u \in Draw : DoEnqueue(ecn, u)
  \/ DoDequeue
  \/ CalculateP
  \/ Tick({nextUpdate}) /\ UNCHANGED myPieVars

Spec == Init /\ [][Next]_vars

----------------------------------------------------------------------------
(* A burst is let through: for a burst allowance after a Classic packet    *)
(* arrived at a calm queue (less one update, which may fall on the same    *)
(* instant) no Classic packet is marked or dropped early, whatever the     *)
(* controller computes in between.                                         *)
EarlySignal(ecn) ==
  /\ BandOf(ecn) = Classic
  /\ stats'.forcedDrop = stats.forcedDrop
  /\ dropped' > dropped \/ q'[Classic][Len(q'[Classic])].ecn # ecn

BurstProtectedStep ==
  \A ecn \in Ecn, u \in Draw :
    DoEnqueue(ecn, u) /\ EarlySignal(ecn)
      => now >= calmAt' + MaxBurst - TUpdate

(* BurstProtectedStep of every step.                                       *)
BurstProtected == [][BurstProtectedStep]_vars
=============================================================================
