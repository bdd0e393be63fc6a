------------------------------- MODULE L4SCred -------------------------------
(***************************************************************************)
(* L4SCREDQueueDisc: L4S has strict priority; L4S packets are marked by    *)
(* their own queue length or by Classic's delay, Classic packets by a      *)
(* moving average of Classic's delay.  CalculateP exists but the line that *)
(* schedules it is commented out, so it never runs.                        *)
(***************************************************************************)
EXTENDS DualQueue

CONSTANTS
  ProbOne,           \* the probability 1
  MarkGain,          \* ProbOne / m_dropScaleL4S
  DropGain,          \* ProbOne / (m_dropScaleClassic * AvgUnit)
  Smoothing,         \* 2 ^ m_smoothingFactor, so m_a = 1 / Smoothing
  AvgUnit,           \* one tick in the average's fixed-point unit
  ByteThreshold      \* m_byteThreshold

CredAssumption ==
  /\ {MarkGain, DropGain, ByteThreshold} \subseteq Nat
  /\ {ProbOne, Smoothing, AvgUnit} \subseteq Nat \ {0}

VARIABLES
  wQDelayAvg,        \* m_wQDelayAvg
  inner              \* locals of the inner while loop, read before it and not
                     \* again: [active, qDelay, u1, u2]

credVars == <<wQDelayAvg, inner>>
vars == <<dualVars, credVars>>

Draw == {0, ProbOne - 1}
NotInner == [active |-> FALSE, qDelay |-> 0, u1 |-> 0, u2 |-> 0]

(* The average and the locals of the inner loop are never negative.        *)
TypeOK ==
  /\ DualTypeOK
  /\ wQDelayAvg \in Nat
  /\ inner \in [active : BOOLEAN, qDelay : Nat, u1 : Draw, u2 : Draw]

Init == DualInit /\ wQDelayAvg = 0 /\ inner = NotInner

DoEnqueue(ecn) ==
  /\ CanArrive
  /\ IF OverLimit THEN ForcedDrop ELSE Store(BandOf(ecn), Arrival(ecn), stats)
  /\ UNCHANGED credVars

DequeueL4S(u1) ==
  /\ ~inner.active /\ q[L4S] # <<>>
  /\ Settle(L4S, FALSE,
            \/ Len(q[L4S]) - 1 > ByteThreshold
            \/ QDelay(Classic) * MarkGain > u1)
  /\ UNCHANGED credVars

(* One round of the inner loop: its first round is also the round of the   *)
(* outer loop that reads the delay and draws u1 and u2.                    *)
DequeueClassic(locals) ==
  /\ q[Classic] # <<>>
  /\ wQDelayAvg' = (locals.qDelay * AvgUnit + (Smoothing - 1) * wQDelayAvg) \div Smoothing
  /\ Settle(Classic, FALSE, wQDelayAvg' * DropGain > Larger(locals.u1, locals.u2))
  /\ inner' = IF pc' = "idle" THEN NotInner ELSE locals

FirstClassic(u1, u2) ==
  /\ ~inner.active /\ q[L4S] = <<>>
  /\ DequeueClassic([active |-> TRUE, qDelay |-> QDelay(Classic), u1 |-> u1, u2 |-> u2])

\* mutant: the inner loop draws again
RedrawingRound ==
  /\ pc = "dequeue"
  /\ \/ BothEmpty /\ ReturnNull /\ inner' = NotInner /\ UNCHANGED wQDelayAvg
     \/ \E u1, u2 \in Draw :
          \/ DequeueL4S(u1)
          \/ FirstClassic(u1, u2)
          \/ inner.active /\ DequeueClassic([inner EXCEPT !.u1 = u1, !.u2 = u2])

Round ==
  /\ pc = "dequeue"
  /\ \/ BothEmpty /\ ReturnNull /\ inner' = NotInner /\ UNCHANGED wQDelayAvg
     \/ \E u1, u2 \in Draw : DequeueL4S(u1) \/ FirstClassic(u1, u2)
     \/ inner.active /\ DequeueClassic(inner)

Next ==
  \/ \E ecn \in Ecn : DoEnqueue(ecn)
  \/ StartDequeue /\ UNCHANGED credVars
  \/ Round
  \/ Tick({}) /\ UNCHANGED credVars

Spec == Init /\ [][Next]_vars /\ WF_vars(Round)

----------------------------------------------------------------------------
(* The inner loop neither draws again nor reads the delay again.  So once  *)
(* one Classic packet has been dropped while the average was not above     *)
(* that delay, the average only rises and the same dequeue drops every     *)
(* further packet that cannot be marked: it purges a run of NotECT         *)
(* packets, and what it returns, if anything, is marked.                   *)
CredPurgeStep ==
  inner.active /\ wQDelayAvg <= inner.qDelay * AvgUnit /\ sent' = sent + 1
    => Markable(Head(q[Classic])) /\ reply'.ecn = "CE"

(* CredPurgeStep of every step.                                            *)
CredPurge == [][CredPurgeStep]_vars
=============================================================================
