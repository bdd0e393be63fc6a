------------------------------- MODULE L4SPi2 -------------------------------
(***************************************************************************)
(* L4SPi2QueueDisc: a coupled PI controller whose squared output drops or  *)
(* marks Classic packets and whose output times k marks L4S packets, both  *)
(* when they are dequeued.  Probabilities are integers, ProbOne standing   *)
(* for 1; a draw u of the uniform variable is the least or the greatest    *)
(* value below ProbOne, which gives both outcomes of "p > u" for every p   *)
(* strictly between 0 and 1 and the certain one otherwise.                 *)
(***************************************************************************)
EXTENDS DualQueue

CONSTANTS
  ProbOne,           \* the probability 1
  AlphaU, BetaU,     \* m_alphaU and m_betaU
  QDelayRef,         \* m_qDelayRef
  TUpdate,           \* m_tUpdate
  K,                 \* m_k
  DropProbL4SMax,    \* m_dropProbL4SMax = min (k * sqrt (m_dropProbClassicMax), 1)
  L4SThreshTime,     \* m_l4sThreshTime
  L4SThreshLen       \* m_l4sThreshLen

Pi2Attributes ==
  /\ ProbOne \in Nat \ {0}
  /\ {AlphaU, BetaU, QDelayRef, K, L4SThreshTime, L4SThreshLen} \subseteq Nat
  /\ TUpdate \in Nat \ {0}
  /\ DropProbL4SMax \in 0 .. ProbOne
ASSUME Pi2Assumption == Pi2Attributes

VARIABLES
  dropProbClassic,   \* m_dropProbClassic: never clamped to 0 .. 1
  dropProbL4S,       \* m_dropProbL4S
  qDelayOld,         \* m_qDelayOld
  nextUpdate         \* when m_rtrsEvent runs CalculateP

pi2Vars == <<dropProbClassic, dropProbL4S, qDelayOld, nextUpdate>>
vars == <<dualVars, pi2Vars>>

TShift == 2 * QDelayRef
Draw == {0, ProbOne - 1}

(* The probabilities of CalculateP are not clamped: any integer.           *)
TypeOK ==
  /\ DualTypeOK
  /\ dropProbClassic \in Int
  /\ dropProbL4S \in Int
  /\ qDelayOld \in Nat
  /\ nextUpdate \in Nat

(* The constructor schedules CalculateP before the attributes are set, so  *)
(* its first run is at time 0, before or after InitializeParams.           *)
Init ==
  /\ DualInit
  /\ dropProbClassic = 0
  /\ dropProbL4S = 0
  /\ qDelayOld = 0
  /\ nextUpdate \in {0, TUpdate}

DoEnqueue(ecn) ==
  /\ CanArrive
  /\ IF OverLimit THEN ForcedDrop ELSE Store(BandOf(ecn), Arrival(ecn), stats)
  /\ UNCHANGED pi2Vars

(* The delay that drives the controller: Classic's, or L4S's if Classic is *)
(* empty.                                                                  *)
ControlDelay == IF tsq[Classic] # <<>> THEN QDelay(Classic) ELSE QDelay(L4S)

CalculateP ==
  /\ pc = "idle"
  /\ nextUpdate = now
  /\ dropProbClassic' = dropProbClassic + AlphaU * (ControlDelay - QDelayRef)
                                        + BetaU * (ControlDelay - qDelayOld)
  /\ dropProbL4S' = dropProbClassic' * K
  /\ qDelayOld' = ControlDelay
  /\ nextUpdate' = now + TUpdate
  /\ UNCHANGED dualVars

UnshiftedL4SFirst == QDelay(L4S) >= QDelay(Classic) \* mutant
L4SFirst == QDelay(L4S) + TShift >= QDelay(Classic)
Saturated == dropProbL4S >= DropProbL4SMax

(* The byte count is read after the packet has left the internal queue.    *)
OverThreshold == QDelay(L4S) > L4SThreshTime /\ Len(q[L4S]) - 1 > L4SThreshLen

DequeueL4S(u1, u2, u3) ==
  /\ L4SFirst /\ q[L4S] # <<>>
  /\ Settle(L4S,
            Saturated /\ dropProbClassic > Larger(u1, u2),
            IF Saturated THEN dropProbL4S > u3 ELSE OverThreshold \/ dropProbL4S > u1)

\* mutants: Classic is dropped where it should be marked; Classic is served
\* only when its stamp wins, though L4S may be empty
HarshDequeueClassic(u1, u2) ==
  /\ ~(L4SFirst /\ q[L4S] # <<>>)
  /\ q[Classic] # <<>>
  /\ Settle(Classic, dropProbClassic > Larger(u1, u2), FALSE)
StrictDequeueClassic(u1, u2) ==
  /\ ~L4SFirst
  /\ q[Classic] # <<>>
  /\ Settle(Classic, FALSE, dropProbClassic > Larger(u1, u2))

DequeueClassic(u1, u2) ==
  /\ ~(L4SFirst /\ q[L4S] # <<>>)
  /\ q[Classic] # <<>>
  /\ LET signal == dropProbClassic > Larger(u1, u2)
     IN Settle(Classic, signal /\ Saturated, signal)

(* One round of the while loop of DoDequeue.                               *)
Round ==
  /\ pc = "dequeue"
  /\ \/ BothEmpty /\ ReturnNull
     \/ \E u1, u2, u3 \in Draw : DequeueL4S(u1, u2, u3) \/ DequeueClassic(u1, u2)
  /\ UNCHANGED pi2Vars

Next ==
  \/ \E ecn \in Ecn : DoEnqueue(ecn)
  \/ StartDequeue /\ UNCHANGED pi2Vars
  \/ Round
  \/ CalculateP
  \/ Tick({nextUpdate}) /\ UNCHANGED pi2Vars

Spec == Init /\ [][Next]_vars /\ WF_vars(Round)

----------------------------------------------------------------------------
Delivers(b) == sent' = sent + 1 /\ q'[b] # q[b]

(* Packets leave in the order of their arrival times, a Classic packet     *)
(* counting as TShift later than it arrived: no L4S packet overtakes a     *)
(* Classic one that arrived more than TShift before it, and a Classic      *)
(* packet overtakes only L4S packets that arrived more than TShift after   *)
(* it.  The code compares the stamps of the two heads; this is about the   *)
(* arrival times of all waiting packets.                                   *)
TimeShiftedOrderStep ==
  /\ Delivers(L4S) =>
       \A i \in 1 .. Len(q[Classic]) :
          reply'.arrived <= q[Classic][i].arrived + TShift
  /\ Delivers(Classic) =>
       \A i \in 1 .. Len(q[L4S]) :
          q[L4S][i].arrived > reply'.arrived + TShift

(* TimeShiftedOrderStep of every step.                                     *)
TimeShiftedOrder == [][TimeShiftedOrderStep]_vars

(* An ECT packet that was let into the queues is dropped only in           *)
(* saturation: otherwise its congestion signal is a mark.  The draws, the  *)
(* two bands and the unclamped probability all have a say in this.         *)
MarkBeforeDropStep ==
  \A b \in Band :
    q[b] # <<>> /\ Len(q'[b]) < Len(q[b]) /\ sent' = sent /\ Markable(Head(q[b]))
      => Saturated

(* MarkBeforeDropStep of every step.                                       *)
MarkBeforeDrop == [][MarkBeforeDropStep]_vars

(* DoDequeue's loop ends: each round that drops leaves fewer packets, and  *)
(* a round serves one band or the other unless both are empty.             *)
DequeueReturns == pc = "dequeue" ~> pc = "idle"
=============================================================================
