----------------------------- MODULE PieControl -----------------------------
(***************************************************************************)
(* The PIE arithmetic that L4SMyPieQueueDisc and DQMyPieQueueDisc repeat:  *)
(* the next drop probability, the burst allowance and the early-drop test. *)
(*                                                                         *)
(* A probability is the index v of the cell it lies in: 0 is exactly 0 and *)
(* v > 0 is ((v-1)/ProbOne, v/ProbOne].  The code divides the increment by *)
(* 2 to 2048 when the probability is below 0.1 and below smaller bounds;   *)
(* a divided increment is any value of the same sign that is no larger,    *)
(* which may leave the probability in its cell.                            *)
(***************************************************************************)
EXTENDS Integers

CONSTANTS
  ProbOne,   \* the probability 1
  A, B,      \* m_a and m_b, in cells per tick of delay
  FewPackets \* the 2 of "GetNPackets () <= 2" in DropEarly

PieAssumption == ProbOne \in Nat \ {0} /\ {A, B, FewPackets} \subseteq Nat

(* what auto-tuning may leave of the increment p                           *)
Increments(prob, p) ==
  IF 10 * (prob - 1) >= ProbOne THEN {p}
  ELSE IF p <= 0 THEN p .. 0
  ELSE IF prob = 0 THEN 1 .. p ELSE 0 .. p

(* times 0.98 when the queue was empty at this and at the last update      *)
Decayed(prob, idle) ==
  IF ~idle \/ prob <= 0 THEN {prob}
  ELSE {v \in 1 .. prob : v >= prob - 1 - prob \div 50}

CeilingOnly(prob) == IF prob > ProbOne THEN ProbOne ELSE prob \* mutant
Clamp(prob) == IF prob < 0 THEN 0 ELSE IF prob > ProbOne THEN ProbOne ELSE prob

NextProbs(prob, qDelay, qDelayOld, qDelayRef) ==
  LET p == A * (qDelay - qDelayRef) + B * (qDelay - qDelayOld)
      tuned == {prob + d : d \in Increments(prob, p)}
      idle == qDelay = 0 /\ qDelayOld = 0
  IN {Clamp(v) : v \in UNION {Decayed(t, idle) : t \in tuned}}

\* mutant: the two update events take from one allowance
FastNextBurst(burst, tUpdate) == IF burst > 2 * tUpdate THEN burst - 2 * tUpdate ELSE 0
NextBurst(burst, tUpdate) == IF burst > tUpdate THEN burst - tUpdate ELSE 0

(* DropEarly for the bands that PIE protects; u is a draw                  *)
PieDropEarly(prob, qDelayOld, qDelayRef, length, u) ==
  /\ ~(2 * qDelayOld < qDelayRef /\ 5 * prob < ProbOne)
  /\ length > FewPackets
  /\ prob > u

(* least and greatest draw: any probability but 0 may go either way        *)
Draw == {0, ProbOne}
=============================================================================
