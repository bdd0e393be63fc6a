--------------------------- MODULE DQMyPie_proofs ---------------------------
(***************************************************************************)
(* Theorems about DQMyPie, for all weights, delays, gains and limits, and  *)
(* for every value that auto-tuning and decay may leave of a probability.  *)
(***************************************************************************)
EXTENDS DQMyPie, DualQueue_proofs

PieTypeOK ==
  /\ dropProb \in [Band -> 0 .. ProbOne]
  /\ qDelayOld \in [Band -> Nat]
  /\ burstAllowance \in [Band -> Nat]
  /\ nextUpdate \in [Band -> Nat]
  /\ calmAt \in [Band -> Int]

(* The update event of a band is never late and never further away than    *)
(* one interval.                                                           *)
OnTime(b) == now <= nextUpdate[b] /\ nextUpdate[b] <= now + TUpdate[b]

(* What the allowance still holds covers the time from the next update to  *)
(* the end of the protected interval: that is why it cannot reach 0 early. *)
Covers(b) == calmAt[b] + MaxBurst[b] - nextUpdate[b] <= burstAllowance[b]

PieInv == PieTypeOK /\ \A b \in Band : OnTime(b) /\ Covers(b)

Inv == DualInv /\ RRInv /\ PieInv

----------------------------------------------------------------------------
(* The controller's arithmetic                                             *)

(* The subtraction of Time values does not go below 0: no stamp lies in    *)
(* the future.                                                             *)
LEMMA QDelayType ==
  ASSUME DualInv, NEW b \in Band
  PROVE  QDelay(b) \in Nat
<1>1. /\ q[b] \in Seq(Packet) /\ tsq[b] \in Seq(Nat) /\ now \in Nat
      /\ Mirrors(tsq[b], q[b]) /\ Ordered(q[b], now)
  BY BandType DEF DualInv, DualTypeOK, Lockstep, ArrivalOrder
<1>2. CASE tsq[b] # <<>>
  <2>1. Len(q[b]) = Len(tsq[b]) /\ 1 \in 1 .. Len(q[b])
    BY <1>1, <1>2 DEF Mirrors
  <2>2. Head(tsq[b]) = q[b][1].arrived
    BY <1>1, <1>2, <2>1 DEF Mirrors
  <2>3. Head(tsq[b]) \in Nat
    BY <1>1, <1>2
  <2>4. Head(tsq[b]) <= now
    BY <1>1, <2>1, <2>2 DEF Ordered
  <2> QED
    BY <1>1, <1>2, <2>3, <2>4 DEF QDelay
<1> QED
  BY <1>2 DEF QDelay

LEMMA ProductType == ASSUME NEW i \in Int, NEW j \in Int PROVE i * j \in Int
  OBVIOUS

LEMMA ClampType ==
  ASSUME PieAssumption, NEW v \in Int
  PROVE  Clamp(v) \in 0 .. ProbOne
  BY DEF Clamp, PieAssumption

(* Whatever the gains, the delays and the tuning, the clamp leaves a       *)
(* probability.                                                            *)
LEMMA NextProbsType ==
  ASSUME PieAssumption, NEW prob \in 0 .. ProbOne, NEW d \in Nat, NEW old \in Nat, NEW ref \in Nat
  PROVE  NextProbs(prob, d, old, ref) \subseteq 0 .. ProbOne
<1> DEFINE p == A * (d - ref) + B * (d - old)
           idle == d = 0 /\ old = 0
           tuned == {prob + e : e \in Increments(prob, p)}
<1>1. p \in Int
  <2>1. d - ref \in Int /\ d - old \in Int /\ A \in Int /\ B \in Int
    BY DEF PieAssumption
  <2>2. A * (d - ref) \in Int /\ B * (d - old) \in Int
    BY <2>1, ProductType
  <2> QED
    BY <2>2
<1> HIDE DEF p, idle
<1>2. prob \in Int /\ Increments(prob, p) \subseteq Int
  BY <1>1 DEF Increments, PieAssumption
<1>3. tuned \subseteq Int
  BY <1>2
<1>4. ASSUME NEW t \in Int PROVE Decayed(t, idle) \subseteq Int
  BY DEF Decayed
<1>5. \A v \in UNION {Decayed(t, idle) : t \in tuned} : v \in Int
  BY <1>3, <1>4
<1>6. NextProbs(prob, d, old, ref) = {Clamp(v) : v \in UNION {Decayed(t, idle) : t \in tuned}}
  BY DEF NextProbs, p, idle
<1> QED
  BY <1>5, <1>6, ClampType

LEMMA NextBurstType ==
  ASSUME NEW n \in Nat, NEW t \in Nat
  PROVE  NextBurst(n, t) \in Nat /\ n - t <= NextBurst(n, t)
  BY DEF NextBurst

----------------------------------------------------------------------------
(* The controller's part of the invariant, action by action                *)

LEMMA PieStutter ==
  ASSUME PieInv, now' = now, UNCHANGED pieVars
  PROVE  PieInv'
<1>1. /\ dropProb' = dropProb /\ qDelayOld' = qDelayOld /\ burstAllowance' = burstAllowance
      /\ nextUpdate' = nextUpdate /\ calmAt' = calmAt /\ now' = now
  BY DEF pieVars
<1> QED
  BY <1>1 DEF PieInv, PieTypeOK, OnTime, Covers

LEMMA PieEnqueue ==
  ASSUME DQMyPieAssumption, DualInv, PieInv, NEW b \in Band, NEW ecn, NEW u, BandOf(ecn) = b,
         EnqueueBand(b, ecn, u)
  PROVE  PieInv'
<1>1. /\ dropProb' = dropProb /\ qDelayOld' = qDelayOld /\ nextUpdate' = nextUpdate
      /\ burstAllowance' = IF Calm(b) THEN [burstAllowance EXCEPT ![b] = MaxBurst[b]]
                           ELSE burstAllowance
      /\ calmAt' = IF Calm(b) THEN [calmAt EXCEPT ![b] = now] ELSE calmAt
  BY DEF EnqueueBand
<1>2. now' = now
  BY DEF EnqueueBand, Admit, Store, DropArrival
<1>3. now \in Nat /\ MaxBurst[b] \in Nat
  BY DEF DualInv, DualTypeOK, DQMyPieAssumption
<1>4. PieTypeOK'
  BY <1>1, <1>3 DEF PieInv, PieTypeOK
<1>5. ASSUME NEW c \in Band PROVE OnTime(c)'
  BY <1>1, <1>2 DEF PieInv, OnTime
<1>6. ASSUME NEW c \in Band PROVE Covers(c)'
  <2>1. CASE Calm(b) /\ c = b
    <3>1. burstAllowance'[c] = MaxBurst[c] /\ calmAt'[c] = now /\ nextUpdate'[c] = nextUpdate[c]
      BY <1>1, <2>1 DEF PieInv, PieTypeOK
    <3>2. nextUpdate[c] \in Nat /\ now <= nextUpdate[c] /\ MaxBurst[c] \in Nat
      BY <1>3, <2>1 DEF PieInv, PieTypeOK, OnTime
    <3> QED
      BY <1>3, <3>1, <3>2 DEF Covers
  <2>2. CASE ~(Calm(b) /\ c = b)
    <3>1. /\ burstAllowance'[c] = burstAllowance[c] /\ calmAt'[c] = calmAt[c]
          /\ nextUpdate'[c] = nextUpdate[c]
      BY <1>1, <2>2 DEF PieInv, PieTypeOK
    <3> QED
      BY <3>1 DEF PieInv, Covers
  <2> QED
    BY <2>1, <2>2
<1> QED
  BY <1>4, <1>5, <1>6 DEF PieInv

LEMMA PieCalculate ==
  ASSUME PieAssumption, DQMyPieAssumption, DualInv, PieInv, NEW b \in Band, CalculateP(b)
  PROVE  PieInv'
<1>1. /\ now \in Nat /\ now' = now /\ nextUpdate[b] = now /\ calmAt' = calmAt
      /\ TUpdate[b] \in Nat /\ QDelayRef[b] \in Nat
      /\ qDelayOld[b] \in Nat /\ burstAllowance[b] \in Nat /\ dropProb[b] \in 0 .. ProbOne
  BY DEF CalculateP, dualVars, DualInv, DualTypeOK, DQMyPieAssumption, PieInv, PieTypeOK
<1>2. QDelay(b) \in Nat
  BY QDelayType
<1>3. PICK v \in 0 .. ProbOne : dropProb' = [dropProb EXCEPT ![b] = v]
  BY <1>1, <1>2, NextProbsType DEF CalculateP
<1>4. /\ NextBurst(burstAllowance[b], TUpdate[b]) \in Nat
      /\ burstAllowance[b] - TUpdate[b] <= NextBurst(burstAllowance[b], TUpdate[b])
  BY <1>1, NextBurstType
<1>5. /\ qDelayOld' = [qDelayOld EXCEPT ![b] = QDelay(b)]
      /\ burstAllowance' = [burstAllowance EXCEPT ![b] = NextBurst(burstAllowance[b], TUpdate[b])]
      /\ nextUpdate' = [nextUpdate EXCEPT ![b] = now + TUpdate[b]]
  BY DEF CalculateP
<1>6. now + TUpdate[b] \in Nat
  BY <1>1
<1>7. PieTypeOK'
  BY <1>1, <1>2, <1>3, <1>4, <1>5, <1>6 DEF PieInv, PieTypeOK
<1>8. ASSUME NEW c \in Band PROVE OnTime(c)' /\ Covers(c)'
  <2>1. CASE c = b
    <3>1. /\ nextUpdate'[c] = nextUpdate[b] + TUpdate[b] /\ calmAt'[c] = calmAt[b]
          /\ burstAllowance'[c] = NextBurst(burstAllowance[b], TUpdate[b])
      BY <1>1, <1>5, <2>1 DEF PieInv, PieTypeOK
    <3>2. /\ calmAt[b] \in Int /\ MaxBurst[b] \in Nat /\ nextUpdate[b] \in Nat
          /\ calmAt[b] + MaxBurst[b] - nextUpdate[b] <= burstAllowance[b]
      BY DEF PieInv, PieTypeOK, Covers, DQMyPieAssumption
    <3>3. calmAt[b] + MaxBurst[b] - (nextUpdate[b] + TUpdate[b])
            <= NextBurst(burstAllowance[b], TUpdate[b])
      BY <1>1, <1>4, <3>2
    <3>4. Covers(c)'
      BY <2>1, <3>1, <3>3 DEF Covers
    <3>5. OnTime(c)'
      BY <1>1, <2>1, <3>1 DEF OnTime
    <3> QED
      BY <3>4, <3>5
  <2>2. CASE c # b
    <3>1. /\ nextUpdate'[c] = nextUpdate[c] /\ calmAt'[c] = calmAt[c]
          /\ burstAllowance'[c] = burstAllowance[c]
      BY <1>1, <1>5, <2>2 DEF PieInv, PieTypeOK
    <3> QED
      BY <1>1, <3>1 DEF PieInv, OnTime, Covers
  <2> QED
    BY <2>1, <2>2
<1> QED
  BY <1>7, <1>8 DEF PieInv

(* The clock does not pass an update.                                      *)
LEMMA PieTick ==
  ASSUME DQMyPieAssumption, DualInv, PieInv, Tick({nextUpdate[b] : b \in Band}), UNCHANGED pieVars
  PROVE  PieInv'
<1>1. /\ dropProb' = dropProb /\ qDelayOld' = qDelayOld /\ burstAllowance' = burstAllowance
      /\ nextUpdate' = nextUpdate /\ calmAt' = calmAt
  BY DEF pieVars
<1>2. PieTypeOK'
  BY <1>1 DEF PieInv, PieTypeOK
<1>3. ASSUME NEW c \in Band PROVE OnTime(c)' /\ Covers(c)'
  <2>1. now' = now + 1 /\ now < nextUpdate[c]
    BY DEF Tick
  <2>2. now \in Nat /\ nextUpdate[c] \in Nat /\ TUpdate[c] \in Nat
    BY DEF DualInv, DualTypeOK, PieInv, PieTypeOK, DQMyPieAssumption
  <2>3. nextUpdate[c] <= now + TUpdate[c]
    BY DEF PieInv, OnTime
  <2>4. OnTime(c)'
    BY <1>1, <2>1, <2>2, <2>3 DEF OnTime
  <2>5. Covers(c)'
    BY <1>1 DEF PieInv, Covers
  <2> QED
    BY <2>4, <2>5
<1> QED
  BY <1>2, <1>3 DEF PieInv

----------------------------------------------------------------------------
(* A packet that is not signalled is stored as it came, because the queue  *)
(* limit leaves room in the internal queue, and a packet over the limit    *)
(* counts as a forced drop: neither looks like an early signal.            *)
LEMMA SignalNeedsSpentBurst ==
  ASSUME DualInv, NEW ecn \in Ecn, NEW u, DoEnqueue(ecn, u), EarlySignal(ecn)
  PROVE  burstAllowance'[BandOf(ecn)] = 0 /\ now' = now
<1> DEFINE b == BandOf(ecn)
<1>1. b \in Band /\ Arrival(ecn) \in Packet
  BY ArrivalType DEF DualInv
<1>2. /\ q \in [Band -> Seq(Packet)] /\ q[b] \in Seq(Packet) /\ dropped \in Nat
      /\ stats \in Stats /\ stats.forcedDrop \in Nat
  BY <1>1 DEF DualInv, DualTypeOK, Stats
<1>3. ~OverLimit
  <2>1. SUFFICES ASSUME OverLimit PROVE FALSE
    OBVIOUS
  <2>2. stats' = [stats EXCEPT !.forcedDrop = stats.forcedDrop + 1]
    BY <2>1 DEF DoEnqueue, ForcedDrop, DropArrival
  <2>3. stats'.forcedDrop = stats.forcedDrop + 1
    BY <1>2, <2>2 DEF Stats
  <2>4. stats'.forcedDrop = stats.forcedDrop
    BY DEF EarlySignal
  <2> QED
    BY <1>2, <2>3, <2>4
<1>4. EnqueueBand(b, ecn, u)
  BY <1>3 DEF DoEnqueue
<1> DEFINE signal == /\ burstAllowance'[b] = 0
                     /\ PieDropEarly(dropProb[b], qDelayOld[b], QDelayRef[b], Len(q[b]), u)
<1>5. Admit(b, Arrival(ecn), signal, stats, stats)
  BY <1>4 DEF EnqueueBand
<1>6. signal
  <2>1. SUFFICES ASSUME ~signal PROVE FALSE
    OBVIOUS
  <2> HIDE DEF signal
  <2>2. Store(b, Arrival(ecn), stats)
    BY <1>5, <2>1 DEF Admit
  <2>3. Len(q[b]) < Capacity[b]
    BY <1>1, <1>3, Fits DEF DualInv
  <2>4. dropped' = dropped /\ q' = [q EXCEPT ![b] = Append(q[b], Arrival(ecn))]
    BY <2>2, <2>3 DEF Store
  <2>5. q'[b] = Append(q[b], Arrival(ecn))
    BY <1>1, <1>2, <2>4
  <2>6. q'[b][Len(q'[b])] = Arrival(ecn)
    BY <1>1, <1>2, <2>5
  <2>7. q'[b][Len(q'[b])].ecn = ecn
    BY <2>6 DEF Arrival
  <2> QED
    BY <1>2, <2>4, <2>7 DEF EarlySignal
<1>7. now' = now
  BY <1>5 DEF Admit, Store, DropArrival
<1> QED
  BY <1>6, <1>7

LEMMA BurstHolds ==
  ASSUME DQMyPieAssumption, Inv, PieInv', NEW ecn \in Ecn, NEW u, DoEnqueue(ecn, u), EarlySignal(ecn)
  PROVE  now >= calmAt'[BandOf(ecn)] + MaxBurst[BandOf(ecn)] - TUpdate[BandOf(ecn)]
<1> DEFINE b == BandOf(ecn)
<1>1. b \in Band /\ now \in Nat
  BY ArrivalType DEF Inv, DualInv, DualTypeOK
<1>2. burstAllowance'[b] = 0 /\ now' = now
  BY SignalNeedsSpentBurst DEF Inv
<1>3. /\ nextUpdate'[b] <= now + TUpdate[b]
      /\ calmAt'[b] + MaxBurst[b] - nextUpdate'[b] <= 0
  BY <1>1, <1>2 DEF PieInv, OnTime, Covers
<1>4. nextUpdate'[b] \in Nat /\ calmAt'[b] \in Int /\ TUpdate[b] \in Nat /\ MaxBurst[b] \in Nat
  BY <1>1 DEF PieInv, PieTypeOK, DQMyPieAssumption
<1> QED
  BY <1>1, <1>3, <1>4

----------------------------------------------------------------------------
(* The invariant                                                           *)

LEMMA InitInv == ASSUME DQMyPieAssumption, PieAssumption PROVE Init => Inv
<1> SUFFICES ASSUME Init PROVE Inv
  OBVIOUS
<1>1. {0} \in SUBSET (0 .. CounterMod - 1)
  BY ShareAssumption
<1>2. DualInv /\ RRInv
  BY <1>1, DualInitInv, InitRRInv DEF Init
<1>3. /\ now = 0 /\ nextUpdate \in [Band -> Nat] /\ TUpdate \in [Band -> Nat]
      /\ MaxBurst \in [Band -> Nat]
      /\ \A b \in Band : nextUpdate[b] = 0 \/ nextUpdate[b] = TUpdate[b]
  BY DEF Init, DualInit, DQMyPieAssumption
<1>4. PieTypeOK
  BY <1>3 DEF Init, PieTypeOK, PieAssumption
<1>5. ASSUME NEW b \in Band PROVE OnTime(b) /\ Covers(b)
  <2>1. calmAt[b] = -MaxBurst[b] /\ burstAllowance[b] = 0
    BY DEF Init
  <2>2. nextUpdate[b] \in Nat /\ TUpdate[b] \in Nat /\ MaxBurst[b] \in Nat
    BY <1>3
  <2> QED
    BY <1>3, <2>1, <2>2 DEF OnTime, Covers
<1> QED
  BY <1>2, <1>4, <1>5 DEF Inv, PieInv

(* Every step of DQMyPie is one of the pieces; what PIE signals early it   *)
(* does not count.                                                         *)
LEMMA NextPiece ==
  ASSUME Inv, [Next]_vars
  PROVE  Piece(FALSE)
<1>1. DualInv /\ RRInv /\ DualTypeOK /\ pc \in {"idle", "dequeue"}
  BY DEF Inv, DualInv, DualTypeOK, Lockstep
<1>2. ASSUME NEW ecn \in Ecn, NEW u, DoEnqueue(ecn, u) PROVE Piece(FALSE)
  <2>1. CASE OverLimit
    BY <1>1, <1>2, <2>1, ForcedPiece DEF DoEnqueue
  <2>2. CASE ~OverLimit
    <3>1. PICK signal : Admit(BandOf(ecn), Arrival(ecn), signal, stats, stats)
      BY <1>2, <2>2 DEF DoEnqueue, EnqueueBand
    <3>2. stats \in Stats /\ Quiet(stats)
      BY <1>1, StatsStored DEF Quiet
    <3> QED
      BY <1>1, <2>2, <3>1, <3>2, AdmitPiece
  <2> QED
    BY <2>1, <2>2
<1>3. CASE DoDequeue
  BY <1>1, <1>3, DequeuePiece
<1>4. ASSUME NEW b \in Band, CalculateP(b) PROVE Waits
  BY <1>1, <1>4 DEF CalculateP, Waits, dualVars
<1>5. CASE Tick({nextUpdate[b] : b \in Band})
  BY <1>1, <1>5 DEF Tick, Waits, Piece
<1>6. CASE UNCHANGED vars
  BY <1>1, <1>6 DEF vars, dualVars, Waits, Piece
<1> QED
  BY <1>2, <1>3, <1>4, <1>5, <1>6 DEF Next, Piece

LEMMA NextPie ==
  ASSUME PieAssumption, DQMyPieAssumption, Inv, [Next]_vars
  PROVE  PieInv'
<1>1. DualInv /\ PieInv
  BY DEF Inv
<1>2. ASSUME NEW ecn \in Ecn, NEW u, DoEnqueue(ecn, u) PROVE PieInv'
  <2>1. CASE OverLimit
    BY <1>1, <1>2, <2>1, PieStutter DEF DoEnqueue, ForcedDrop, DropArrival
  <2>2. CASE ~OverLimit
    BY <1>1, <1>2, <2>2, ArrivalType, PieEnqueue DEF DoEnqueue, DualInv
  <2> QED
    BY <2>1, <2>2
<1>3. CASE DoDequeue /\ UNCHANGED pieVars
  <2>1. now' = now
    BY <1>3 DEF DoDequeue, ReturnNull, Serve, Crash, Deliver
  <2> QED
    BY <1>1, <1>3, <2>1, PieStutter
<1>4. CASE UNCHANGED vars
  BY <1>1, <1>4, PieStutter DEF vars, dualVars
<1>5. ASSUME Tick({nextUpdate[b] : b \in Band}), UNCHANGED <<rrVars, pieVars>> PROVE PieInv'
  BY <1>1, <1>5, PieTick
<1> QED
  BY <1>1, <1>2, <1>3, <1>4, <1>5, PieCalculate DEF Next

LEMMA NextInv ==
  ASSUME PieAssumption, DQMyPieAssumption, Inv, [Next]_vars
  PROVE  Inv' /\ WholeTurnsStep /\ BurstProtectedStep
<1>1. DualInv'
  BY NextPiece, PieceInv DEF Inv
<1>2. RRInv' /\ WholeTurnsStep
  <2>1. UNCHANGED rrVars => RRInv' /\ WholeTurnsStep
    BY RRStutter DEF Inv, WholeTurnsStep, rrVars
  <2>2. DoDequeue \/ UNCHANGED rrVars
    BY DEF Next, DoEnqueue, CalculateP, vars
  <2> QED
    BY <2>1, <2>2, DequeueRR DEF Inv
<1>3. PieInv'
  BY NextPie
<1>4. BurstProtectedStep
  BY <1>3, BurstHolds DEF BurstProtectedStep
<1> QED
  BY <1>1, <1>2, <1>3, <1>4 DEF Inv

LEMMA SpecInv == ASSUME PieAssumption, DQMyPieAssumption PROVE Spec => []Inv
  BY InitInv, NextInv, PTL DEF Spec

----------------------------------------------------------------------------
(* Each band's probability stays between 0 and 1, whatever CalculateP adds *)
(* and however far it overshoots, and no counter goes below 0.             *)
THEOREM PieTypeCorrect == ASSUME PieAssumption, DQMyPieAssumption PROVE Spec => []TypeOK
<1>1. Inv => TypeOK
  BY DEF Inv, DualInv, RRInv, PieInv, PieTypeOK, TypeOK
<1> QED
  BY <1>1, SpecInv, PTL

(* The stamp queues mirror the internal queues, so the scheduler, which    *)
(* asks the stamps which band has packets, never dereferences a null item. *)
THEOREM PieLockstep == ASSUME PieAssumption, DQMyPieAssumption PROVE Spec => []Lockstep
<1>1. Inv => Lockstep
  BY DEF Inv, DualInv
<1> QED
  BY <1>1, SpecInv, PTL

(* Every packet is counted in once and out once, and the queue limit holds.*)
THEOREM PieAccounting == ASSUME PieAssumption, DQMyPieAssumption PROVE Spec => []Accounting
<1>1. Inv => Accounting
  BY DEF Inv, DualInv
<1> QED
  BY <1>1, SpecInv, PTL

(* No band is served more than its share in a row while the other waits.   *)
THEOREM PieRoundRobinBound ==
  ASSUME PieAssumption, DQMyPieAssumption PROVE Spec => []RoundRobinBound
<1>1. Inv => RoundRobinBound
  BY DEF Inv, RRInv, RoundRobinBound
<1> QED
  BY <1>1, SpecInv, PTL

(* A turn that took over from the other band lasts exactly its share.      *)
THEOREM PieWholeTurns == ASSUME PieAssumption, DQMyPieAssumption PROVE Spec => WholeTurns
<1>1. Inv /\ [Next]_vars => [WholeTurnsStep]_<<dualVars, rrVars>>
  BY NextInv DEF vars
<1> QED
  BY <1>1, SpecInv, PTL DEF Spec, WholeTurns

(* DQMyPie implements the two-band queue.                                  *)
THEOREM PieKeepsPromise == ASSUME PieAssumption, DQMyPieAssumption PROVE Spec => KeepsPromise
<1>1. Init => Promise!Init
  BY PromiseInit DEF Init
<1>2. Inv /\ [Next]_vars => [Promise!Next]_(Promise!vars)
  BY NextPiece, PieceKeeps DEF Inv
<1> QED
  BY <1>1, <1>2, SpecInv, PTL DEF Spec, KeepsPromise, Promise!Spec

(* For a burst allowance after a packet found its band calm, less at most  *)
(* one update interval, no packet of that band is marked or dropped early, *)
(* whatever the controller computes in between.                            *)
THEOREM PieBurstProtected == ASSUME PieAssumption, DQMyPieAssumption PROVE Spec => BurstProtected
<1>1. Inv /\ [Next]_vars => [BurstProtectedStep]_vars
  BY NextInv
<1> QED
  BY <1>1, SpecInv, PTL DEF Spec, BurstProtected
=============================================================================
