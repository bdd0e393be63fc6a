--------------------------- MODULE L4SDiscs_proofs ---------------------------
(***************************************************************************)
(* Theorems about the five discs together, DiscsSafety, for all limits,    *)
(* capacities, gains, weights, thresholds, intervals and bounds: what the  *)
(* runs check of small instances; before them the theorems about L4SPi2    *)
(* and DQRED alone.  DQMyPie's part cites an instance of DQMyPie_proofs,   *)
(* the others are here.                                                    *)
(***************************************************************************)
EXTENDS L4SDiscs, DualQueue_proofs

DQPieP == INSTANCE DQMyPie_proofs WITH
  MaxTime <- RoundRobinTime,
  QDelayRef <- QDelayRefs, TUpdate <- TUpdates, MaxBurst <- MaxBursts,
  dropProb <- dropProbs, qDelayOld <- qDelayOlds, burstAllowance <- bursts,
  nextUpdate <- nextUpdates, calmAt <- calmsAt

----------------------------------------------------------------------------
(* L4SPi2 alone                                                            *)
Pi2TypeOK ==
  /\ dropProbClassic \in Int
  /\ dropProbL4S \in Int
  /\ qDelayOld \in Nat
  /\ nextUpdate \in Nat

Inv == DualInv /\ Pi2TypeOK

----------------------------------------------------------------------------
(* The delay of a band is a natural number, and that of its oldest packet. *)
LEMMA DelayOfHead ==
  ASSUME DualInv, NEW b \in Band
  PROVE  /\ QDelay(b) \in Nat
         /\ q[b] # <<>> => /\ q[b][1].arrived \in Nat /\ Head(q[b]) = q[b][1]
                           /\ QDelay(b) = now - q[b][1].arrived
<1>1. /\ q[b] \in Seq(Packet) /\ tsq[b] \in Seq(Nat) /\ now \in Nat
      /\ Mirrors(tsq[b], q[b]) /\ Ordered(q[b], now)
  BY BandType DEF DualInv, DualTypeOK, Lockstep, ArrivalOrder
<1>2. CASE q[b] = <<>>
  <2>1. tsq[b] = <<>>
    BY <1>1, <1>2 DEF Mirrors
  <2> QED
    BY <1>2, <2>1 DEF QDelay
<1>3. CASE q[b] # <<>>
  <2>1. tsq[b] # <<>> /\ Head(tsq[b]) = Head(q[b]).arrived
    BY <1>1, <1>3, TailMirrors
  <2>2. 1 \in 1 .. Len(q[b]) /\ Head(q[b]) = q[b][1]
    BY <1>1, <1>3
  <2>3. q[b][1].arrived \in Nat /\ q[b][1].arrived <= now
    BY <1>1, <2>2, ElementType DEF Ordered
  <2>4. QDelay(b) = now - q[b][1].arrived
    BY <2>1, <2>2 DEF QDelay
  <2> QED
    BY <1>1, <2>2, <2>3, <2>4
<1> QED
  BY <1>2, <1>3

LEMMA ShiftType == TShift \in Nat /\ QDelayRef \in Nat
<1>1. QDelayRef \in Nat
  BY Pi2Assumption DEF Pi2Attributes
<1> QED
  BY <1>1 DEF TShift

----------------------------------------------------------------------------
LEMMA InitInv == Init => Inv
  BY DualInitInv, Pi2Assumption DEF Pi2Attributes, Init, Inv, Pi2TypeOK

(* Every step of L4SPi2 is one of the pieces, and it counts its drops.     *)
LEMMA NextPiece ==
  ASSUME Inv, [Next]_vars
  PROVE  Piece(TRUE)
<1>1. DualInv /\ DualTypeOK /\ pc \in {"idle", "dequeue", "crashed"} /\ pc # "crashed"
  BY DEF Inv, DualInv, DualTypeOK, Lockstep
<1>2. ASSUME NEW ecn \in Ecn, DoEnqueue(ecn) PROVE Piece(TRUE)
  <2>1. CASE OverLimit
    BY <1>1, <1>2, <2>1, ForcedPiece DEF DoEnqueue
  <2>2. CASE ~OverLimit
    <3>1. Store(BandOf(ecn), Arrival(ecn), stats) /\ Arrival(ecn) \in MaybeMarked(Arrival(ecn))
      BY <1>2, <2>2 DEF DoEnqueue, MaybeMarked
    <3>2. stats \in Stats /\ Quiet(stats)
      BY <1>1, StatsStored DEF Quiet
    <3> QED
      BY <2>2, <3>1, <3>2 DEF Piece, Stores
  <2> QED
    BY <2>1, <2>2
<1>3. CASE Round
  <2>1. pc = "dequeue"
    BY <1>3 DEF Round
  <2>2. CASE BothEmpty /\ ReturnNull
    BY <2>2 DEF Piece, Returns
  <2>3. ASSUME NEW u1, NEW u2, NEW u3, DequeueL4S(u1, u2, u3) PROVE Piece(TRUE)
    BY <1>1, <2>1, <2>3, BandValues, SettlePiece DEF DequeueL4S
  <2>4. ASSUME NEW u1, NEW u2, DequeueClassic(u1, u2) PROVE Piece(TRUE)
    BY <1>1, <2>1, <2>4, BandValues, SettlePiece DEF DequeueClassic
  <2> QED
    BY <1>3, <2>2, <2>3, <2>4 DEF Round
<1>4. CASE StartDequeue \/ CalculateP \/ Tick({nextUpdate}) \/ UNCHANGED vars
  BY <1>1, <1>4 DEF Piece, Waits, StartDequeue, CalculateP, Tick, vars, dualVars
<1> QED
  BY <1>2, <1>3, <1>4 DEF Next

LEMMA CalculatePTypes ==
  ASSUME Inv, CalculateP
  PROVE  Pi2TypeOK'
<1>1. ControlDelay \in Nat
  BY DelayOfHead, BandValues DEF Inv, ControlDelay
<1>2. /\ now \in Nat /\ TUpdate \in Nat /\ QDelayRef \in Nat /\ qDelayOld \in Nat
      /\ AlphaU \in Nat /\ BetaU \in Nat /\ K \in Nat /\ dropProbClassic \in Int
  BY Pi2Assumption DEF Pi2Attributes, Inv, Pi2TypeOK, DualInv, DualTypeOK
<1>3. dropProbClassic' \in Int
  <2>1. ControlDelay - QDelayRef \in Int /\ ControlDelay - qDelayOld \in Int
    BY <1>1, <1>2
  <2>2. AlphaU * (ControlDelay - QDelayRef) \in Int /\ BetaU * (ControlDelay - qDelayOld) \in Int
    BY <1>2, <2>1
  <2> QED
    BY <1>2, <2>2 DEF CalculateP
<1>4. dropProbClassic' * K \in Int /\ now + TUpdate \in Nat
  BY <1>2, <1>3
<1> QED
  BY <1>1, <1>3, <1>4 DEF CalculateP, Pi2TypeOK

LEMMA NextInv ==
  ASSUME Inv, [Next]_vars
  PROVE  Inv'
<1>1. DualInv'
  BY NextPiece, PieceInv DEF Inv
<1>2. UNCHANGED pi2Vars => Pi2TypeOK'
  BY DEF Inv, Pi2TypeOK, pi2Vars
<1>3. CalculateP \/ UNCHANGED pi2Vars
  BY DEF Next, DoEnqueue, Round, vars
<1> QED
  BY <1>1, <1>2, <1>3, CalculatePTypes DEF Inv

----------------------------------------------------------------------------
LEMMA SpecInv == Spec => []Inv
  BY InitInv, NextInv, PTL DEF Spec

(* Every variable of the disc keeps its type, the unclamped probabilities  *)
(* included.                                                               *)
THEOREM TypeCorrect == Spec => []TypeOK
<1>1. Inv => TypeOK
  BY DEF Inv, DualInv, Pi2TypeOK, TypeOK
<1> QED
  BY <1>1, SpecInv, PTL

(* The stamp queues mirror the internal queues, whatever is enqueued,      *)
(* marked, purged or dropped: each delay the controller and the scheduler  *)
(* compute is that of the packet at the head.                              *)
THEOREM Pi2Lockstep == Spec => []Lockstep
<1>1. Inv => Lockstep
  BY DEF Inv, DualInv
<1> QED
  BY <1>1, SpecInv, PTL

(* Every packet is counted in once and out once, and the queue limit holds.*)
THEOREM Pi2Accounting == Spec => []Accounting
<1>1. Inv => Accounting
  BY DEF Inv, DualInv
<1> QED
  BY <1>1, SpecInv, PTL

----------------------------------------------------------------------------
(* What the scheduler guarantees of a step                                 *)

(* Outside the loop nothing is sent and no band gets shorter.              *)
LEMMA OthersTakeNothing ==
  ASSUME Inv, [Next]_vars, ~Round
  PROVE  sent' = sent /\ \A b \in Band : Len(q[b]) <= Len(q'[b])
<1>1. \A b \in Band : q[b] \in Seq(Packet)
  BY BandType DEF Inv, DualInv
<1>2. ASSUME NEW b \in Band, NEW p PROVE Len(q[b]) <= Len(Append(q[b], p))
  BY <1>1
<1>3. CASE q' = q /\ sent' = sent
  BY <1>1, <1>3
<1>4. ASSUME NEW ecn \in Ecn, DoEnqueue(ecn), ~OverLimit
      PROVE  sent' = sent /\ \A b \in Band : Len(q[b]) <= Len(q'[b])
  <2>1. /\ sent' = sent
        /\ q' = q \/ q' = [q EXCEPT ![BandOf(ecn)] = Append(@, Arrival(ecn))]
    BY <1>4 DEF DoEnqueue, Store
  <2>2. \A b \in Band : q'[b] = q[b] \/ q'[b] = Append(q[b], Arrival(ecn))
    BY <2>1 DEF Inv, DualInv, DualTypeOK
  <2> QED
    BY <1>1, <1>2, <2>1, <2>2
<1>5. ASSUME NEW ecn \in Ecn, DoEnqueue(ecn), OverLimit
      PROVE  q' = q /\ sent' = sent
  BY <1>5 DEF DoEnqueue, ForcedDrop, DropArrival
<1>6. StartDequeue \/ CalculateP \/ Tick({nextUpdate}) \/ UNCHANGED vars => q' = q /\ sent' = sent
  BY DEF StartDequeue, CalculateP, Tick, vars, dualVars
<1> QED
  BY <1>3, <1>4, <1>5, <1>6 DEF Next

(* A round that serves band b takes its head, leaves the other band alone, *)
(* and either drops the head or sends it on.                               *)
LEMMA SettleEffect ==
  ASSUME DualInv, NEW b \in Band, q[b] # <<>>, NEW purge, NEW signal, Settle(b, purge, signal)
  PROVE  /\ \A c \in Band : c # b => q'[c] = q[c]
         /\ q'[b] # q[b] /\ Len(q'[b]) < Len(q[b])
         /\ \/ sent' = sent /\ (purge \/ (signal /\ ~Markable(Head(q[b]))))
            \/ sent' = sent + 1 /\ reply'.arrived = Head(q[b]).arrived
<1>1. q \in [Band -> Seq(Packet)] /\ q[b] \in Seq(Packet) /\ sent \in Nat
  BY DEF DualInv, DualTypeOK
<1>2. q' = [q EXCEPT ![b] = Tail(@)]
  BY DEF Settle, Discard, Deliver
<1>3. q'[b] = Tail(q[b]) /\ \A c \in Band : c # b => q'[c] = q[c]
  BY <1>1, <1>2
<1>4. Len(Tail(q[b])) < Len(q[b]) /\ Tail(q[b]) # q[b]
  BY <1>1
<1>5. Marked(Head(q[b])).arrived = Head(q[b]).arrived
  <2>1. Head(q[b]) \in Packet
    BY <1>1
  <2> QED
    BY <2>1 DEF Marked, Packet
<1> QED
  BY <1>3, <1>4, <1>5 DEF Settle, Discard, Deliver

(* A step of the loop: which band it serves, and why.                      *)
LEMMA RoundCases ==
  ASSUME Round
  PROVE  \/ q' = q /\ sent' = sent
         \/ \E u1, u2, u3 \in Draw :
              /\ L4SFirst /\ q[L4S] # <<>>
              /\ Settle(L4S, Saturated /\ dropProbClassic > Larger(u1, u2),
                        IF Saturated THEN dropProbL4S > u3
                        ELSE OverThreshold \/ dropProbL4S > u1)
         \/ \E u1, u2 \in Draw :
              /\ ~(L4SFirst /\ q[L4S] # <<>>) /\ q[Classic] # <<>>
              /\ Settle(Classic, dropProbClassic > Larger(u1, u2) /\ Saturated,
                        dropProbClassic > Larger(u1, u2))
  BY DEF Round, ReturnNull, DequeueL4S, DequeueClassic

LEMMA ServesL4S ==
  ASSUME Inv, L4SFirst, q[L4S] # <<>>, NEW purge, NEW signal, Settle(L4S, purge, signal)
  PROVE  TimeShiftedOrderStep
<1>1. DualInv /\ L4S \in Band /\ Classic \in Band /\ Classic # L4S
  BY BandValues DEF Inv, L4S, Classic
<1>2. q'[Classic] = q[Classic] /\ ~Delivers(Classic)
  BY <1>1, SettleEffect DEF Delivers
<1>3. ASSUME Delivers(L4S), NEW i \in 1 .. Len(q[Classic])
      PROVE  reply'.arrived <= q[Classic][i].arrived + TShift
  <2>1. sent' = sent + 1 /\ sent \in Nat /\ now \in Nat
    BY <1>1, <1>3 DEF Delivers, DualInv, DualTypeOK
  <2>2. reply'.arrived = Head(q[L4S]).arrived
    BY <1>1, <2>1, SettleEffect
  <2>3. /\ q[Classic] \in Seq(Packet) /\ Ordered(q[Classic], now)
    BY <1>1, BandType DEF DualInv, ArrivalOrder
  <2>4. q[Classic] # <<>> /\ 1 \in 1 .. Len(q[Classic]) /\ 1 <= i
    BY <1>3, <2>3
  <2>5. /\ q[Classic][1].arrived \in Nat /\ q[Classic][i].arrived \in Nat
        /\ q[Classic][1].arrived <= q[Classic][i].arrived
    BY <1>3, <2>3, <2>4, ElementType DEF Ordered
  <2>6. /\ QDelay(L4S) = now - Head(q[L4S]).arrived /\ Head(q[L4S]).arrived \in Nat
        /\ QDelay(Classic) = now - q[Classic][1].arrived
    BY <1>1, <2>4, DelayOfHead
  <2>7. QDelay(L4S) + TShift >= QDelay(Classic)
    BY DEF L4SFirst
  <2> QED
    BY <2>1, <2>2, <2>5, <2>6, <2>7, ShiftType
<1> QED
  BY <1>2, <1>3 DEF TimeShiftedOrderStep

LEMMA YoungerByMore ==
  \A n, a, c, t \in Nat : (n - a) + t < n - c => a > c + t
  OBVIOUS

LEMMA ServesClassic ==
  ASSUME Inv, ~(L4SFirst /\ q[L4S] # <<>>), q[Classic] # <<>>,
         NEW purge, NEW signal, Settle(Classic, purge, signal)
  PROVE  TimeShiftedOrderStep
<1>1. DualInv /\ L4S \in Band /\ Classic \in Band /\ Classic # L4S
  BY BandValues DEF Inv, L4S, Classic
<1>2. q'[L4S] = q[L4S] /\ ~Delivers(L4S)
  BY <1>1, SettleEffect DEF Delivers
<1>3. ASSUME Delivers(Classic), NEW i \in 1 .. Len(q[L4S])
      PROVE  q[L4S][i].arrived > reply'.arrived + TShift
  <2>1. sent' = sent + 1 /\ sent \in Nat /\ now \in Nat
    BY <1>1, <1>3 DEF Delivers, DualInv, DualTypeOK
  <2>2. reply'.arrived = Head(q[Classic]).arrived
    BY <1>1, <2>1, SettleEffect
  <2>3. q[L4S] \in Seq(Packet) /\ Ordered(q[L4S], now)
    BY <1>1, BandType DEF DualInv, ArrivalOrder
  <2>4. q[L4S] # <<>> /\ 1 \in 1 .. Len(q[L4S]) /\ 1 <= i
    BY <1>3, <2>3
  <2>5. /\ q[L4S][1].arrived \in Nat /\ q[L4S][i].arrived \in Nat
        /\ q[L4S][1].arrived <= q[L4S][i].arrived
    BY <1>3, <2>3, <2>4, ElementType DEF Ordered
  <2>6. /\ QDelay(Classic) = now - Head(q[Classic]).arrived
        /\ Head(q[Classic]).arrived \in Nat
        /\ QDelay(L4S) = now - q[L4S][1].arrived
        /\ QDelay(L4S) \in Nat /\ QDelay(Classic) \in Nat
    BY <1>1, <2>4, DelayOfHead
  <2>7. ~(QDelay(L4S) + TShift >= QDelay(Classic))
    BY <2>4 DEF L4SFirst
  <2>8. QDelay(L4S) + TShift < QDelay(Classic)
    BY <2>6, <2>7, ShiftType
  <2>9. q[L4S][1].arrived > Head(q[Classic]).arrived + TShift
    <3>1. (now - q[L4S][1].arrived) + TShift < now - Head(q[Classic]).arrived
      BY <2>6, <2>8
    <3> QED
      BY <2>1, <2>5, <2>6, <3>1, ShiftType, YoungerByMore
  <2> QED
    BY <2>2, <2>5, <2>6, <2>9, ShiftType
<1> QED
  BY <1>2, <1>3 DEF TimeShiftedOrderStep

LEMMA OrderStep ==
  ASSUME Inv, [Next]_vars
  PROVE  TimeShiftedOrderStep
<1>1. sent \in Nat
  BY DEF Inv, DualInv, DualTypeOK
<1>2. CASE sent' = sent
  BY <1>1, <1>2 DEF TimeShiftedOrderStep, Delivers
<1>3. CASE Round
  BY <1>2, <1>3, RoundCases, ServesL4S, ServesClassic
<1> QED
  BY <1>2, <1>3, OthersTakeNothing

LEMMA MarkStep ==
  ASSUME Inv, [Next]_vars
  PROVE  MarkBeforeDropStep
<1> SUFFICES ASSUME NEW b \in Band, q[b] # <<>>,
                    Len(q'[b]) < Len(q[b]), sent' = sent, Markable(Head(q[b]))
             PROVE  Saturated
  BY DEF MarkBeforeDropStep
<1>1. DualInv /\ sent \in Nat /\ q[b] \in Seq(Packet) /\ L4S \in Band /\ Classic \in Band
  BY BandType, BandValues DEF Inv, DualInv, DualTypeOK
<1>2. Round
  <2>1. SUFFICES ASSUME ~Round PROVE Len(q[b]) <= Len(q'[b])
    BY <1>1
  <2> QED
    BY <2>1, OthersTakeNothing
<1>3. q'[b] # q[b]
  BY <1>1
<1>4. ASSUME NEW c \in Band, q[c] # <<>>, NEW purge, NEW signal, Settle(c, purge, signal)
      PROVE  b = c /\ purge
  BY <1>1, <1>3, <1>4, SettleEffect
<1> QED
  BY <1>1, <1>2, <1>3, <1>4, RoundCases

(* No L4S packet overtakes a Classic one by more than the time shift, and  *)
(* a Classic packet overtakes only L4S packets more than the time shift    *)
(* younger.  The scheduler compares two stamps; that this orders all that  *)
(* waits rests on Lockstep and on the arrival order within the bands.      *)
THEOREM Pi2TimeShiftedOrder == Spec => TimeShiftedOrder
<1>1. Inv /\ [Next]_vars => [TimeShiftedOrderStep]_vars
  BY OrderStep
<1> QED
  BY <1>1, SpecInv, PTL DEF Spec, TimeShiftedOrder

(* An ECT packet that waits in a band is dropped only in saturation.       *)
THEOREM MarksBeforeDropping == Spec => MarkBeforeDrop
<1>1. Inv /\ [Next]_vars => [MarkBeforeDropStep]_vars
  BY MarkStep
<1> QED
  BY <1>1, SpecInv, PTL DEF Spec, MarkBeforeDrop

----------------------------------------------------------------------------
(* L4SPi2 implements the two-band queue: whatever its controller decides   *)
(* and however its loop goes on, the traffic control layer sees arrivals   *)
(* accepted or refused and heads of a band that leave.                     *)
THEOREM Pi2KeepsPromise == Spec => KeepsPromise
<1>1. Init => Promise!Init
  BY PromiseInit DEF Init
<1>2. Inv /\ [Next]_vars => [Promise!Next]_(Promise!vars)
  BY NextPiece, PieceKeeps DEF Inv
<1> QED
  BY <1>1, <1>2, SpecInv, PTL DEF Spec, KeepsPromise, Promise!Spec

(* Every drop of L4SPi2 is counted in its statistics, and once.            *)
THEOREM Pi2CountsDrops == Spec => []StatsAccounting
<1>1. Init => StatsAccounting
  BY DEF Init, DualInit, StatsAccounting
<1>2. Inv /\ StatsAccounting /\ [Next]_vars => StatsAccounting'
  BY NextPiece, PieceCounts DEF Inv
<1> QED
  BY <1>1, <1>2, SpecInv, PTL DEF Spec

----------------------------------------------------------------------------
(* The instances repeat the definitions of DualQueue, RoundRobin and       *)
(* PieControl over the same variables: they mean the same.                 *)

LEMMA CredSame ==
  /\ Cred!DualInit <=> DualInit
  /\ Cred!DualTypeOK <=> DualTypeOK
  /\ Cred!OverLimit <=> OverLimit
  /\ Cred!ForcedDrop <=> ForcedDrop
  /\ Cred!BothEmpty <=> BothEmpty
  /\ Cred!ReturnNull <=> ReturnNull
  /\ \A e : Cred!BandOf(e) = BandOf(e) /\ Cred!Arrival(e) = Arrival(e)
  /\ \A b, p, st : Cred!Store(b, p, st) <=> Store(b, p, st)
  /\ \A b, purge, signal : Cred!Settle(b, purge, signal) <=> Settle(b, purge, signal)
  BY DEF Cred!DualInit, DualInit, Cred!DualTypeOK, DualTypeOK, Cred!OverLimit, OverLimit,
         Cred!ForcedDrop, ForcedDrop, Cred!DropArrival, DropArrival, Cred!BothEmpty, BothEmpty,
         Cred!ReturnNull, ReturnNull, Cred!BandOf, BandOf, Cred!Arrival, Arrival,
         Cred!Store, Store, Cred!Settle, Settle, Cred!Discard, Discard, Cred!Deliver, Deliver,
         Cred!Markable, Markable, Cred!Marked, Marked, Cred!Pop, Pop, Cred!None, None,
         Cred!Packet, Packet, Cred!Ecn, Ecn, Cred!Band, Band, Cred!L4S, L4S,
         Cred!Classic, Classic

LEMMA MyPieSame ==
  /\ MyPie!DualInit <=> DualInit
  /\ MyPie!DualTypeOK <=> DualTypeOK
  /\ MyPie!OverLimit <=> OverLimit
  /\ MyPie!ForcedDrop <=> ForcedDrop
  /\ MyPie!BothEmpty <=> BothEmpty
  /\ MyPie!ReturnNull <=> ReturnNull
  /\ \A e : MyPie!BandOf(e) = BandOf(e) /\ MyPie!Arrival(e) = Arrival(e)
  /\ \A b : MyPie!QDelay(b) = QDelay(b)
  /\ \A b, p, signal, sm, sd :
       MyPie!Admit(b, p, signal, sm, sd) <=> Admit(b, p, signal, sm, sd)
  /\ \A b, p, st : MyPie!Deliver(b, p, st) <=> Deliver(b, p, st)
  BY DEF MyPie!DualInit, DualInit, MyPie!DualTypeOK, DualTypeOK, MyPie!OverLimit, OverLimit,
         MyPie!ForcedDrop, ForcedDrop, MyPie!DropArrival, DropArrival,
         MyPie!BothEmpty, BothEmpty, MyPie!ReturnNull, ReturnNull, MyPie!BandOf, BandOf,
         MyPie!Arrival, Arrival, MyPie!QDelay, QDelay, MyPie!Store, Store,
         MyPie!Admit, Admit, MyPie!Deliver, Deliver, MyPie!Markable, Markable,
         MyPie!Marked, Marked, MyPie!Pop, Pop, MyPie!None, None, MyPie!Packet, Packet,
         MyPie!Ecn, Ecn, MyPie!Band, Band, MyPie!L4S, L4S, MyPie!Classic, Classic

LEMMA PieControlSame ==
  \A prob, d, old, ref :
    MyPie!NextProbs(prob, d, old, ref) = DQPieP!NextProbs(prob, d, old, ref)
  BY DEF MyPie!NextProbs, DQPieP!NextProbs, MyPie!Increments, DQPieP!Increments,
         MyPie!Decayed, DQPieP!Decayed, MyPie!Clamp, DQPieP!Clamp

LEMMA RedSame ==
  /\ Red!DualInit <=> DualInit
  /\ \A C : Red!RRInit(C) <=> RRInit(C)
  /\ Red!DualTypeOK <=> DualTypeOK
  /\ Red!RRTypeOK <=> RRTypeOK
  /\ Red!OverLimit <=> OverLimit
  /\ Red!ForcedDrop <=> ForcedDrop
  /\ \A e : Red!BandOf(e) = BandOf(e) /\ Red!Arrival(e) = Arrival(e)
  /\ \A b, p, signal, sm, sd :
       Red!Admit(b, p, signal, sm, sd) <=> Admit(b, p, signal, sm, sd)
  BY DEF Red!DualInit, DualInit, Red!RRInit, RRInit, Red!DualTypeOK, DualTypeOK,
         Red!RRTypeOK, RRTypeOK, Red!OverLimit, OverLimit, Red!ForcedDrop, ForcedDrop,
         Red!DropArrival, DropArrival, Red!BandOf, BandOf, Red!Arrival, Arrival,
         Red!Store, Store, Red!Admit, Admit, Red!Markable, Markable, Red!Marked, Marked,
         Red!None, None, Red!Packet, Packet, Red!Ecn, Ecn, Red!Band, Band,
         Red!L4S, L4S, Red!Classic, Classic

LEMMA RedDequeueSame == Red!DoDequeue <=> DoDequeue
  BY DEF Red!DoDequeue, DoDequeue, Red!Serve, Serve, Red!Chosen, Chosen,
         Red!Contended, Contended, Red!Waiting, Waiting, Red!Other, Other,
         Red!Share, Share, Red!Gcd, Gcd, Red!Crash, Crash, Red!Deliver, Deliver,
         Red!ReturnNull, ReturnNull, Red!rrVars, rrVars, Red!Pop, Pop, Red!None, None,
         Red!Band, Band, Red!L4S, L4S, Red!Classic, Classic

LEMMA DQPieInitSame == DQPie!Init <=> DQPieP!Init
  BY DEF DQPie!Init, DQPieP!Init, DQPie!DualInit, DQPieP!DualInit, DQPie!RRInit, DQPieP!RRInit,
         DQPie!None, DQPieP!None, DQPie!Band, DQPieP!Band, DQPie!L4S, DQPieP!L4S,
         DQPie!Classic, DQPieP!Classic

LEMMA DQPieEnqueueSame ==
  \A ecn, u : DQPie!DoEnqueue(ecn, u) <=> DQPieP!DoEnqueue(ecn, u)
  BY DEF DQPie!DoEnqueue, DQPieP!DoEnqueue, DQPie!CanArrive, DQPieP!CanArrive,
         DQPie!OverLimit, DQPieP!OverLimit, DQPie!ForcedDrop, DQPieP!ForcedDrop,
         DQPie!DropArrival, DQPieP!DropArrival, DQPie!EnqueueBand, DQPieP!EnqueueBand,
         DQPie!PieDropEarly, DQPieP!PieDropEarly, DQPie!Calm, DQPieP!Calm,
         DQPie!QDelay, DQPieP!QDelay, DQPie!Admit, DQPieP!Admit, DQPie!Store, DQPieP!Store,
         DQPie!Markable, DQPieP!Markable, DQPie!Marked, DQPieP!Marked,
         DQPie!Arrival, DQPieP!Arrival, DQPie!BandOf, DQPieP!BandOf,
         DQPie!rrVars, DQPieP!rrVars, DQPie!pieVars, DQPieP!pieVars,
         DQPie!Band, DQPieP!Band, DQPie!L4S, DQPieP!L4S, DQPie!Classic, DQPieP!Classic

LEMMA DQPieDequeueSame == DQPie!DoDequeue <=> DQPieP!DoDequeue
  BY DEF DQPie!DoDequeue, DQPieP!DoDequeue, DQPie!Serve, DQPieP!Serve,
         DQPie!Chosen, DQPieP!Chosen, DQPie!Contended, DQPieP!Contended,
         DQPie!Waiting, DQPieP!Waiting, DQPie!Other, DQPieP!Other,
         DQPie!Share, DQPieP!Share, DQPie!Gcd, DQPieP!Gcd, DQPie!Crash, DQPieP!Crash,
         DQPie!Deliver, DQPieP!Deliver, DQPie!ReturnNull, DQPieP!ReturnNull,
         DQPie!rrVars, DQPieP!rrVars, DQPie!Pop, DQPieP!Pop, DQPie!None, DQPieP!None,
         DQPie!Band, DQPieP!Band, DQPie!L4S, DQPieP!L4S, DQPie!Classic, DQPieP!Classic

LEMMA DQPieCalculateSame == \A b : DQPie!CalculateP(b) <=> DQPieP!CalculateP(b)
  BY DEF DQPie!CalculateP, DQPieP!CalculateP, DQPie!NextProbs, DQPieP!NextProbs,
         DQPie!Increments, DQPieP!Increments, DQPie!Decayed, DQPieP!Decayed,
         DQPie!Clamp, DQPieP!Clamp, DQPie!NextBurst, DQPieP!NextBurst,
         DQPie!QDelay, DQPieP!QDelay, DQPie!rrVars, DQPieP!rrVars,
         DQPie!dualVars, DQPieP!dualVars

LEMMA DQPieNextSame == DQPie!Next <=> DQPieP!Next
<1>1. /\ \A events : DQPie!Tick(events) <=> DQPieP!Tick(events)
      /\ DQPie!Ecn = DQPieP!Ecn /\ DQPie!Draw = DQPieP!Draw /\ DQPie!Band = DQPieP!Band
      /\ DQPie!pieVars = DQPieP!pieVars /\ DQPie!rrVars = DQPieP!rrVars
  BY DEF DQPie!Tick, DQPieP!Tick, DQPie!Ecn, DQPieP!Ecn, DQPie!Draw, DQPieP!Draw,
         DQPie!Band, DQPieP!Band, DQPie!L4S, DQPieP!L4S, DQPie!Classic, DQPieP!Classic,
         DQPie!pieVars, DQPieP!pieVars, DQPie!rrVars, DQPieP!rrVars
<1>2. DQPie!DoDequeue <=> DQPieP!DoDequeue
  BY DQPieDequeueSame
<1>3. \A b : DQPie!CalculateP(b) <=> DQPieP!CalculateP(b)
  BY DQPieCalculateSame
<1>4. UNCHANGED DQPie!pieVars <=> UNCHANGED DQPieP!pieVars
  BY DEF DQPie!pieVars, DQPieP!pieVars
<1>5. UNCHANGED <<DQPie!rrVars, DQPie!pieVars>> <=> UNCHANGED <<DQPieP!rrVars, DQPieP!pieVars>>
  BY DEF DQPie!pieVars, DQPieP!pieVars, DQPie!rrVars, DQPieP!rrVars
<1> QED
  BY <1>1, <1>2, <1>3, <1>4, <1>5, DQPieEnqueueSame DEF DQPie!Next, DQPieP!Next

LEMMA DQPieTypeSame == DQPieP!TypeOK => DQPie!TypeOK
  BY DEF DQPie!TypeOK, DQPieP!TypeOK, DQPie!DualTypeOK, DQPieP!DualTypeOK,
         DQPie!RRTypeOK, DQPieP!RRTypeOK, DQPie!Packet, DQPieP!Packet, DQPie!Ecn, DQPieP!Ecn,
         DQPie!Band, DQPieP!Band, DQPie!L4S, DQPieP!L4S, DQPie!Classic, DQPieP!Classic

LEMMA DQPieBurstSame == DQPieP!BurstProtectedStep => DQPie!BurstProtectedStep
<1>1. /\ \A e : DQPie!EarlySignal(e) <=> DQPieP!EarlySignal(e)
      /\ DQPie!Ecn = DQPieP!Ecn /\ DQPie!Draw = DQPieP!Draw
      /\ \A e : DQPie!BandOf(e) = DQPieP!BandOf(e)
  BY DEF DQPie!EarlySignal, DQPieP!EarlySignal, DQPie!Ecn, DQPieP!Ecn,
         DQPie!Draw, DQPieP!Draw, DQPie!BandOf, DQPieP!BandOf,
         DQPie!L4S, DQPieP!L4S, DQPie!Classic, DQPieP!Classic
<1> QED
  BY <1>1, DQPieEnqueueSame DEF DQPie!BurstProtectedStep, DQPieP!BurstProtectedStep

LEMMA DQPieDualSame ==
  /\ DQPieP!DualInit <=> DualInit
  /\ DQPieP!DualInv <=> DualInv
  /\ DQPieP!RRInit({0}) <=> RRInit({0})
  /\ DQPieP!RRInv <=> RRInv
  /\ DQPieP!WholeTurnsStep <=> WholeTurnsStep
  BY DEF DQPieP!DualInit, DualInit, DQPieP!DualInv, DualInv, DQPieP!DualTypeOK, DualTypeOK,
         DQPieP!Lockstep, Lockstep, DQPieP!Mirrors, Mirrors, DQPieP!Accounting, Accounting,
         DQPieP!ArrivalOrder, ArrivalOrder, DQPieP!Ordered, Ordered, DQPieP!RRInit, RRInit,
         DQPieP!RRInv, RRInv, DQPieP!RRTypeOK, RRTypeOK, DQPieP!TurnLength, TurnLength,
         DQPieP!Larger, Larger, DQPieP!Share, Share, DQPieP!Gcd, Gcd,
         DQPieP!WholeTurnsStep, WholeTurnsStep, DQPieP!Contended, Contended,
         DQPieP!Waiting, Waiting, DQPieP!None, None, DQPieP!Packet, Packet, DQPieP!Ecn, Ecn,
         DQPieP!Band, Band, DQPieP!L4S, L4S, DQPieP!Classic, Classic

LEMMA DQPiePieceSame == DQPieP!Piece(FALSE) => Piece(FALSE)
  BY DEF DQPieP!Piece, Piece, DQPieP!Stores, Stores, DQPieP!Refuses, Refuses,
         DQPieP!Discards, Discards, DQPieP!Hands, Hands, DQPieP!Returns, Returns,
         DQPieP!Waits, Waits, DQPieP!Quiet, Quiet, DQPieP!Tells, Tells, DQPieP!MaybeMarked, MaybeMarked,
         DQPieP!Stats, Stats, DQPieP!OverLimit, OverLimit, DQPieP!DropArrival, DropArrival,
         DQPieP!BandOf, BandOf, DQPieP!Arrival, Arrival, DQPieP!Store, Store,
         DQPieP!Discard, Discard, DQPieP!Deliver, Deliver, DQPieP!BothEmpty, BothEmpty,
         DQPieP!ReturnNull, ReturnNull, DQPieP!Markable, Markable, DQPieP!Marked, Marked,
         DQPieP!Pop, Pop, DQPieP!None, None, DQPieP!Ecn, Ecn,
         DQPieP!Band, Band, DQPieP!L4S, L4S, DQPieP!Classic, Classic

----------------------------------------------------------------------------
(* L4SCRED                                                                 *)

(* Inside the inner loop the last comparison, of a packet that could not   *)
(* be marked, said "signal": only such a packet keeps the loop going.      *)
CredInv ==
  /\ wQDelayAvg \in Nat
  /\ inner \in [active : BOOLEAN, qDelay : Nat, u1 : Cred!Draw, u2 : Cred!Draw]
  /\ inner.active =>
       /\ pc = "dequeue"
       /\ wQDelayAvg * DropGain > Larger(inner.u1, inner.u2)

LEMMA CredConstants ==
  /\ {MarkGain, DropGain, ByteThreshold} \subseteq Nat
  /\ {ProbOne, Smoothing, AvgUnit} \subseteq Nat \ {0}
  BY DiscsAssumption DEF Cred!CredAssumption

LEMMA ProductMonotone ==
  ASSUME NEW m \in Nat, NEW n \in Nat, m <= n, NEW k \in Nat
  PROVE  m * k <= n * k
  OBVIOUS

LEMMA QuotientType ==
  ASSUME NEW x \in Nat, NEW k \in Nat \ {0}
  PROVE  x \div k \in Nat /\ (x \div k) * k <= x /\ x < (x \div k + 1) * k
  OBVIOUS

(* The moving average with a delay that is not below it does not fall.     *)
LEMMA AverageRises ==
  ASSUME NEW a \in Nat, NEW d \in Nat, a <= d, NEW k \in Nat \ {0}
  PROVE  a <= (d + (k - 1) * a) \div k
<1> DEFINE x == d + (k - 1) * a
           r == x \div k
<1>1. (k - 1) * a \in Nat /\ (k - 1) * a = k * a - a
  OBVIOUS
<1>2. x \in Nat /\ a * k <= x
  BY <1>1
<1> HIDE DEF x
<1>3. r \in Nat /\ x < (r + 1) * k
  BY <1>2, QuotientType
<1> HIDE DEF r
<1>4. r < a => (r + 1) * k <= a * k
  BY <1>3, ProductMonotone
<1>5. r < a => FALSE
  <2>1. (r + 1) * k \in Nat /\ a * k \in Nat
    BY <1>3
  <2> QED
    BY <1>2, <1>3, <1>4, <2>1
<1>6. a <= r
  BY <1>3, <1>5
<1> QED
  BY <1>6 DEF r, x

(* A round that serves Classic with the locals given.                      *)
LEMMA CredClassicPiece ==
  ASSUME DualInv, pc = "dequeue", NEW locals, Cred!DequeueClassic(locals)
  PROVE  Piece(TRUE)
<1> DEFINE signal == wQDelayAvg' * DropGain > Cred!Larger(locals.u1, locals.u2)
<1>1. q[Classic] # <<>> /\ Settle(Classic, FALSE, signal)
  BY CredSame DEF Cred!DequeueClassic, Cred!Classic, Classic
<1> HIDE DEF signal
<1> QED
  BY <1>1, SettlePiece, BandValues

LEMMA CredPiece ==
  ASSUME DualInv, Cred!Next
  PROVE  Piece(TRUE)
<1>1. pc \in {"idle", "dequeue"}
  BY DEF DualInv, DualTypeOK, Lockstep
<1>2. ASSUME NEW ecn \in Cred!Ecn, Cred!DoEnqueue(ecn) PROVE Piece(TRUE)
  <2>1. CASE OverLimit
    BY <1>2, <2>1, CredSame, ForcedPiece DEF Cred!DoEnqueue
  <2>2. CASE ~OverLimit
    <3>1. /\ Store(BandOf(ecn), Arrival(ecn), stats) /\ ecn \in Ecn
          /\ Arrival(ecn) \in MaybeMarked(Arrival(ecn))
      BY <1>2, <2>2, CredSame DEF Cred!DoEnqueue, MaybeMarked, Cred!Ecn, Ecn
    <3>2. stats \in Stats /\ Quiet(stats)
      BY StatsStored DEF Quiet, DualInv
    <3> QED
      BY <2>2, <3>1, <3>2 DEF Piece, Stores
  <2> QED
    BY <2>1, <2>2
<1>3. CASE Cred!Round
  <2>1. pc = "dequeue"
    BY <1>3 DEF Cred!Round
  <2>2. CASE Cred!BothEmpty /\ Cred!ReturnNull
    BY <2>2, CredSame DEF Piece, Returns
  <2>3. ASSUME NEW u1, Cred!DequeueL4S(u1) PROVE Piece(TRUE)
    <3>1. PICK signal : q[L4S] # <<>> /\ Settle(L4S, FALSE, signal)
      BY <2>3, CredSame DEF Cred!DequeueL4S, Cred!L4S, L4S
    <3> QED
      BY <2>1, <3>1, SettlePiece, BandValues
  <2>4. ASSUME NEW u1, NEW u2, Cred!FirstClassic(u1, u2) PROVE Piece(TRUE)
    BY <2>1, <2>4, CredClassicPiece DEF Cred!FirstClassic
  <2>5. CASE Cred!DequeueClassic(inner)
    BY <2>1, <2>5, CredClassicPiece
  <2> QED
    BY <1>3, <2>2, <2>3, <2>4, <2>5 DEF Cred!Round
<1>4. CASE Cred!StartDequeue \/ Cred!Tick({})
  BY <1>1, <1>4 DEF Cred!StartDequeue, Cred!Tick, Waits, Piece
<1> QED
  BY <1>2, <1>3, <1>4 DEF Cred!Next

(* A round of the inner loop: the new average, the comparison, and what    *)
(* they mean for the head of Classic.                                      *)
LEMMA CredClassicStep ==
  ASSUME DualInv, wQDelayAvg \in Nat, pc = "dequeue",
         NEW locals \in [active : BOOLEAN, qDelay : Nat, u1 : Cred!Draw, u2 : Cred!Draw],
         Cred!DequeueClassic(locals)
  PROVE  /\ CredInv'
         /\ \/ sent' = sent
            \/ sent' = sent + 1 /\ (wQDelayAvg' * DropGain > Larger(locals.u1, locals.u2)
                                     => Markable(Head(q[Classic])) /\ reply'.ecn = "CE")
         /\ wQDelayAvg' = (locals.qDelay * AvgUnit + (Smoothing - 1) * wQDelayAvg) \div Smoothing
<1> DEFINE signal == wQDelayAvg' * DropGain > Larger(locals.u1, locals.u2)
<1>1. q[Classic] # <<>> /\ Settle(Classic, FALSE, signal)
  BY CredSame DEF Cred!DequeueClassic, Cred!Classic, Classic, Cred!Larger, Larger
<1>2. wQDelayAvg' = (locals.qDelay * AvgUnit + (Smoothing - 1) * wQDelayAvg) \div Smoothing
  BY DEF Cred!DequeueClassic
<1>3. wQDelayAvg' \in Nat
  <2>1. locals.qDelay * AvgUnit \in Nat /\ (Smoothing - 1) * wQDelayAvg \in Nat
    BY CredConstants
  <2>2. locals.qDelay * AvgUnit + (Smoothing - 1) * wQDelayAvg \in Nat
    BY <2>1
  <2> QED
    BY <1>2, <2>2, CredConstants, QuotientType
<1>4. inner' = IF pc' = "idle" THEN Cred!NotInner ELSE locals
  BY DEF Cred!DequeueClassic
<1>5. Cred!NotInner \in [active : BOOLEAN, qDelay : Nat, u1 : Cred!Draw, u2 : Cred!Draw]
      /\ Cred!NotInner.active = FALSE
  BY DEF Cred!NotInner, Cred!Draw
<1>6. Head(q[Classic]) \in Packet
  BY <1>1, BandType, BandValues DEF DualInv
<1> HIDE DEF signal
<1>7. CASE signal /\ ~Markable(Head(q[Classic]))
  <2>1. pc' = "dequeue" /\ sent' = sent /\ inner' = locals
    BY <1>1, <1>4, <1>7 DEF Settle, Discard
  <2>2. wQDelayAvg' * DropGain > Larger(locals.u1, locals.u2)
    BY <1>7 DEF signal
  <2> QED
    BY <1>2, <1>3, <2>1, <2>2 DEF CredInv
<1>8. CASE ~(signal /\ ~Markable(Head(q[Classic])))
  <2>1. pc' = "idle" /\ sent' = sent + 1 /\ inner' = Cred!NotInner
    BY <1>1, <1>4, <1>8 DEF Settle, Deliver
  <2>2. signal => Markable(Head(q[Classic])) /\ reply'.ecn = "CE"
    BY <1>1, <1>6, <1>8 DEF Settle, Deliver, Marked, Packet
  <2>3. CredInv'
    BY <1>3, <1>5, <2>1 DEF CredInv
  <2> QED
    BY <1>2, <2>1, <2>2, <2>3 DEF signal
<1> QED
  BY <1>7, <1>8

LEMMA CredStep ==
  ASSUME DualInv, CredInv, Cred!Next
  PROVE  CredInv' /\ Cred!CredPurgeStep
<1>1. sent \in Nat /\ wQDelayAvg \in Nat
  BY DEF DualInv, DualTypeOK, CredInv
<1>2. CASE pc = "idle" /\ UNCHANGED Cred!credVars
  <2>1. wQDelayAvg' = wQDelayAvg /\ inner' = inner /\ ~inner.active
    BY <1>2 DEF Cred!credVars, CredInv
  <2> QED
    BY <2>1 DEF CredInv, Cred!CredPurgeStep
<1>3. ASSUME Cred!BothEmpty, Cred!ReturnNull, inner' = Cred!NotInner, UNCHANGED wQDelayAvg
      PROVE  CredInv' /\ Cred!CredPurgeStep
  <2>1. sent' = sent
    BY <1>3 DEF Cred!ReturnNull
  <2> QED
    BY <1>1, <1>3, <2>1 DEF CredInv, Cred!NotInner, Cred!Draw, Cred!CredPurgeStep
<1>4. ASSUME NEW u1, Cred!DequeueL4S(u1) PROVE CredInv' /\ Cred!CredPurgeStep
  <2>1. wQDelayAvg' = wQDelayAvg /\ inner' = inner /\ ~inner.active
    BY <1>4 DEF Cred!DequeueL4S, Cred!credVars
  <2> QED
    BY <2>1 DEF CredInv, Cred!CredPurgeStep
<1>5. ASSUME pc = "dequeue", NEW u1 \in Cred!Draw, NEW u2 \in Cred!Draw, Cred!FirstClassic(u1, u2)
      PROVE  CredInv' /\ Cred!CredPurgeStep
  <2> DEFINE locals == [active |-> TRUE, qDelay |-> Cred!QDelay(Cred!Classic), u1 |-> u1, u2 |-> u2]
  <2>1. ~inner.active /\ Cred!DequeueClassic(locals)
    BY <1>5 DEF Cred!FirstClassic
  <2>2. Cred!QDelay(Cred!Classic) \in Nat
    <3>1. Cred!QDelay(Cred!Classic) = QDelay(Classic)
      BY DEF Cred!QDelay, QDelay, Cred!Classic, Classic
    <3> QED
      BY <3>1, DelayOfHead, BandValues
  <2>3. locals \in [active : BOOLEAN, qDelay : Nat, u1 : Cred!Draw, u2 : Cred!Draw]
    BY <2>2
  <2> HIDE DEF locals
  <2> QED
    BY <1>1, <1>5, <2>1, <2>3, CredClassicStep DEF Cred!CredPurgeStep
<1>6. ASSUME pc = "dequeue", inner.active, Cred!DequeueClassic(inner)
      PROVE  CredInv' /\ Cred!CredPurgeStep
  <2>1. inner \in [active : BOOLEAN, qDelay : Nat, u1 : Cred!Draw, u2 : Cred!Draw]
    BY DEF CredInv
  <2>2. /\ CredInv'
        /\ \/ sent' = sent
           \/ sent' = sent + 1 /\ (wQDelayAvg' * DropGain > Larger(inner.u1, inner.u2)
                                    => Markable(Head(q[Classic])) /\ reply'.ecn = "CE")
        /\ wQDelayAvg' = (inner.qDelay * AvgUnit + (Smoothing - 1) * wQDelayAvg) \div Smoothing
    BY <1>1, <1>6, <2>1, CredClassicStep
  <2>3. ASSUME wQDelayAvg <= inner.qDelay * AvgUnit
        PROVE  wQDelayAvg' * DropGain > Larger(inner.u1, inner.u2)
    <3>1. inner.qDelay * AvgUnit \in Nat
      BY <2>1, CredConstants
    <3>2. wQDelayAvg <= wQDelayAvg' /\ wQDelayAvg' \in Nat
      BY <1>1, <2>2, <2>3, <3>1, AverageRises, CredConstants DEF CredInv
    <3>3. wQDelayAvg * DropGain <= wQDelayAvg' * DropGain
      BY <1>1, <3>2, ProductMonotone, CredConstants
    <3>4. wQDelayAvg * DropGain > Larger(inner.u1, inner.u2)
      BY <1>6 DEF CredInv
    <3>5. /\ wQDelayAvg * DropGain \in Nat /\ wQDelayAvg' * DropGain \in Nat
          /\ Larger(inner.u1, inner.u2) \in Int
      BY <1>1, <2>1, <3>2, CredConstants DEF Larger, Cred!Draw
    <3> QED
      BY <3>3, <3>4, <3>5
  <2>4. Cred!Markable(Head(q[Cred!Classic])) <=> Markable(Head(q[Classic]))
    BY DEF Cred!Markable, Markable, Cred!Classic, Classic
  <2> QED
    BY <1>1, <2>2, <2>3, <2>4 DEF Cred!CredPurgeStep
<1>7. Cred!Round => \/ Cred!BothEmpty /\ Cred!ReturnNull /\ inner' = Cred!NotInner
                          /\ UNCHANGED wQDelayAvg
                    \/ \E u1 : Cred!DequeueL4S(u1)
                    \/ pc = "dequeue" /\ \E u1, u2 \in Cred!Draw : Cred!FirstClassic(u1, u2)
                    \/ pc = "dequeue" /\ inner.active /\ Cred!DequeueClassic(inner)
  BY DEF Cred!Round
<1>8. Cred!Next => Cred!Round \/ (pc = "idle" /\ UNCHANGED Cred!credVars)
  BY DEF Cred!Next, Cred!DoEnqueue, Cred!CanArrive, Cred!StartDequeue, Cred!Tick
<1> QED
  BY <1>2, <1>3, <1>4, <1>5, <1>6, <1>7, <1>8

----------------------------------------------------------------------------
(* L4SMyPie                                                                *)

(* The update is never late and never further away than one interval; what *)
(* the allowance still holds covers the time from the next update to the   *)
(* end of the protected interval: that is why it cannot reach 0 early.     *)
MyPieInv ==
  /\ dropProb \in 0 .. ProbOne
  /\ qDelayOld \in Nat
  /\ burstAllowance \in 0 .. MaxBurst
  /\ nextUpdate \in Nat
  /\ calmAt \in Int
  /\ now <= nextUpdate /\ nextUpdate <= now + MyPieTUpdate
  /\ calmAt + MaxBurst - nextUpdate <= burstAllowance

LEMMA MyPieConstants ==
  /\ {QDelayRef, MaxBurst, L4SThreshTime, L4SThreshLen} \subseteq Nat
  /\ MyPieTUpdate \in Nat \ {0}
  BY DiscsAssumption DEF MyPie!MyPieAssumption

(* The assumptions of DQMyPie_proofs hold of its instance.                 *)
LEMMA DQPieConstants ==
  /\ DQPieP!PieAssumption /\ DQPieP!DQMyPieAssumption
  /\ QueueLimit \in Nat \ {0}
  /\ Capacity \in [DQPieP!Band -> Nat]
  /\ DQPieP!CheckConfig
  /\ Capacity[DQPieP!L4S] >= QueueLimit
  /\ MaxArrivals \in Nat /\ RoundRobinTime \in Nat
  BY DiscsAssumption, LimitAssumption, CapacityAssumption, BoundsAssumption
  DEF MyPie!PieAssumption, DQPieP!PieAssumption,
      DQPie!DQMyPieAssumption, DQPieP!DQMyPieAssumption, DQPieP!CheckConfig, CheckConfig,
      DQPie!Band, DQPieP!Band, Band, DQPie!L4S, DQPieP!L4S, L4S,
      DQPie!Classic, DQPieP!Classic, Classic

LEMMA MyPieNextProbsType ==
  ASSUME NEW prob \in 0 .. ProbOne, NEW d \in Nat, NEW old \in Nat, NEW ref \in Nat
  PROVE  MyPie!NextProbs(prob, d, old, ref) \subseteq 0 .. ProbOne
<1>1. DQPieP!NextProbs(prob, d, old, ref) \subseteq 0 .. ProbOne
  BY DQPieConstants, ShareAssumption, DQPieP!NextProbsType DEF DQPieP!NextProbsType
<1> QED
  BY <1>1, PieControlSame

LEMMA MyPieEnqueueCases ==
  ASSUME NEW ecn \in MyPie!Ecn, NEW u, MyPie!DoEnqueue(ecn, u)
  PROVE  \/ OverLimit /\ ForcedDrop /\ UNCHANGED MyPie!myPieVars
         \/ /\ ~OverLimit /\ BandOf(ecn) = L4S /\ UNCHANGED MyPie!myPieVars
            /\ \E signal : Admit(L4S, Arrival(ecn), signal,
                                 [stats EXCEPT !.mark[Classic] = @ + 1],
                                 [stats EXCEPT !.unforcedDrop = @ + 1])
         \/ /\ ~OverLimit /\ BandOf(ecn) = Classic
            /\ burstAllowance' = IF MyPie!Calm THEN MaxBurst ELSE burstAllowance
            /\ calmAt' = IF MyPie!Calm THEN now ELSE calmAt
            /\ UNCHANGED <<dropProb, qDelayOld, nextUpdate>>
            /\ \E signal : /\ signal => burstAllowance' = 0
                           /\ Admit(Classic, Arrival(ecn), signal, stats, stats)
<1>1. CASE OverLimit
  BY <1>1, MyPieSame DEF MyPie!DoEnqueue
<1>2. CASE ~OverLimit /\ MyPie!EnqueueL4S(ecn, u)
  <2>1. PICK signal : Admit(L4S, Arrival(ecn), signal,
                            [stats EXCEPT !.mark[Classic] = @ + 1],
                            [stats EXCEPT !.unforcedDrop = @ + 1])
    BY <1>2, MyPieSame DEF MyPie!EnqueueL4S, MyPie!L4S, L4S, MyPie!Classic, Classic
  <2>2. BandOf(ecn) = L4S /\ UNCHANGED MyPie!myPieVars
    BY <1>2, MyPieSame DEF MyPie!EnqueueL4S, MyPie!L4S, L4S
  <2> QED
    BY <1>2, <2>1, <2>2
<1>3. CASE ~OverLimit /\ MyPie!EnqueueClassic(ecn, u)
  <2> DEFINE signal == /\ burstAllowance' = 0
                       /\ MyPie!PieDropEarly(dropProb, qDelayOld, QDelayRef,
                                             Len(q[MyPie!Classic]), u)
  <2>1. Admit(Classic, Arrival(ecn), signal, stats, stats)
    BY <1>3, MyPieSame DEF MyPie!EnqueueClassic, MyPie!Classic, Classic
  <2>2. signal => burstAllowance' = 0
    OBVIOUS
  <2> HIDE DEF signal
  <2>3. /\ BandOf(ecn) = Classic
        /\ burstAllowance' = IF MyPie!Calm THEN MaxBurst ELSE burstAllowance
        /\ calmAt' = IF MyPie!Calm THEN now ELSE calmAt
        /\ UNCHANGED <<dropProb, qDelayOld, nextUpdate>>
    BY <1>3, MyPieSame DEF MyPie!EnqueueClassic, MyPie!Classic, Classic
  <2> QED
    BY <1>3, <2>1, <2>2, <2>3
<1> QED
  BY <1>1, <1>2, <1>3, MyPieSame DEF MyPie!DoEnqueue

(* Every step of L4SMyPie is one of the pieces; it does not count what it  *)
(* drops early from Classic.                                               *)
LEMMA MyPiePiece ==
  ASSUME DualInv, MyPie!Next
  PROVE  Piece(FALSE)
<1>1. pc \in {"idle", "dequeue"} /\ stats \in Stats /\ Quiet(stats)
  BY StatsStored DEF DualInv, DualTypeOK, Lockstep, Quiet
<1>2. ASSUME NEW ecn \in MyPie!Ecn, NEW u, MyPie!DoEnqueue(ecn, u) PROVE Piece(FALSE)
  <2>1. ecn \in Ecn
    BY <1>2 DEF MyPie!Ecn, Ecn
  <2>2. /\ [stats EXCEPT !.mark[Classic] = @ + 1] \in Stats
        /\ Quiet([stats EXCEPT !.mark[Classic] = @ + 1])
        /\ [stats EXCEPT !.unforcedDrop = @ + 1] \in Stats
    BY <1>1, BandValues, MarkQuiet, StatsType DEF DualInv
  <2> QED
    BY <1>1, <1>2, <2>1, <2>2, MyPieEnqueueCases, ForcedPiece, AdmitPiece
<1>3. ASSUME MyPie!DoDequeue PROVE Piece(FALSE)
  <2>1. ASSUME NEW b \in Band, q[b] # <<>>, Deliver(b, Head(q[b]), stats) PROVE Piece(FALSE)
    BY <1>1, <2>1 DEF Piece, Hands, MaybeMarked
  <2>2. \/ BothEmpty /\ ReturnNull
        \/ \E b \in Band : q[b] # <<>> /\ Deliver(b, Head(q[b]), stats)
    BY <1>3, MyPieSame, BandValues DEF MyPie!DoDequeue, MyPie!L4S, L4S, MyPie!Classic, Classic
  <2> QED
    BY <2>1, <2>2 DEF Piece, Returns
<1>4. CASE MyPie!CalculateP
  BY <1>1, <1>4 DEF MyPie!CalculateP, MyPie!dualVars, Waits, Piece
<1>5. CASE MyPie!Tick({nextUpdate})
  BY <1>1, <1>5 DEF MyPie!Tick, Waits, Piece
<1> QED
  BY <1>2, <1>3, <1>4, <1>5 DEF MyPie!Next

LEMMA MyPieStutter ==
  ASSUME MyPieInv, now' = now, UNCHANGED MyPie!myPieVars
  PROVE  MyPieInv'
<1>1. /\ dropProb' = dropProb /\ qDelayOld' = qDelayOld /\ burstAllowance' = burstAllowance
      /\ nextUpdate' = nextUpdate /\ calmAt' = calmAt
  BY DEF MyPie!myPieVars
<1> QED
  BY <1>1 DEF MyPieInv

LEMMA MyPieEnqueueInv ==
  ASSUME DualInv, MyPieInv, NEW ecn \in MyPie!Ecn, NEW u, MyPie!DoEnqueue(ecn, u)
  PROVE  MyPieInv' /\ now' = now
<1>1. now' = now
  BY MyPieEnqueueCases DEF ForcedDrop, DropArrival, Admit, Store
<1>2. CASE UNCHANGED MyPie!myPieVars
  BY <1>1, <1>2, MyPieStutter
<1>3. CASE /\ burstAllowance' = IF MyPie!Calm THEN MaxBurst ELSE burstAllowance
           /\ calmAt' = IF MyPie!Calm THEN now ELSE calmAt
           /\ UNCHANGED <<dropProb, qDelayOld, nextUpdate>>
  <2>1. now \in Nat /\ MaxBurst \in Nat
    BY MyPieConstants DEF DualInv, DualTypeOK
  <2> QED
    BY <1>1, <1>3, <2>1 DEF MyPieInv
<1> QED
  BY <1>1, <1>2, <1>3, MyPieEnqueueCases

LEMMA MyPieCalculateInv ==
  ASSUME DualInv, MyPieInv, MyPie!CalculateP
  PROVE  MyPieInv'
<1>1. /\ now \in Nat /\ now' = now /\ nextUpdate = now /\ calmAt' = calmAt
      /\ MyPieTUpdate \in Nat /\ QDelayRef \in Nat /\ MaxBurst \in Nat
  BY MyPieConstants DEF MyPie!CalculateP, MyPie!dualVars, DualInv, DualTypeOK
<1>2. QDelay(Classic) \in Nat
  BY DelayOfHead, BandValues
<1>3. /\ dropProb' \in MyPie!NextProbs(dropProb, QDelay(Classic), qDelayOld, QDelayRef)
      /\ qDelayOld' = QDelay(Classic)
  BY MyPieSame DEF MyPie!CalculateP, MyPie!Classic, Classic
<1>4. dropProb' \in 0 .. ProbOne
  BY <1>1, <1>2, <1>3, MyPieNextProbsType DEF MyPieInv
<1>5. burstAllowance' \in 0 .. MaxBurst /\ burstAllowance - MyPieTUpdate <= burstAllowance'
  BY <1>1 DEF MyPie!CalculateP, MyPie!NextBurst, MyPieInv
<1>6. nextUpdate' = now + MyPieTUpdate
  BY DEF MyPie!CalculateP
<1> QED
  BY <1>1, <1>2, <1>3, <1>4, <1>5, <1>6 DEF MyPieInv

(* As for DQMyPie: what looks like an early signal needs a spent allowance.*)
LEMMA MyPieSignal ==
  ASSUME DualInv, MyPieInv', NEW ecn \in MyPie!Ecn, NEW u,
         MyPie!DoEnqueue(ecn, u), MyPie!EarlySignal(ecn), now' = now
  PROVE  now >= calmAt' + MaxBurst - MyPieTUpdate
<1>1. /\ q \in [Band -> Seq(Packet)] /\ dropped \in Nat /\ stats \in Stats
      /\ stats.forcedDrop \in Nat /\ now \in Nat
  BY DEF DualInv, DualTypeOK, Stats
<1>2. /\ BandOf(ecn) = Classic /\ stats'.forcedDrop = stats.forcedDrop
      /\ dropped' > dropped \/ q'[Classic][Len(q'[Classic])].ecn # ecn
  BY MyPieSame DEF MyPie!EarlySignal, MyPie!Classic, Classic
<1>3. ~(OverLimit /\ ForcedDrop)
  <2>1. SUFFICES ASSUME ForcedDrop PROVE FALSE
    OBVIOUS
  <2>2. stats' = [stats EXCEPT !.forcedDrop = stats.forcedDrop + 1]
    BY <2>1 DEF ForcedDrop, DropArrival
  <2>3. stats'.forcedDrop = stats.forcedDrop + 1
    BY <1>1, <2>2 DEF Stats
  <2> QED
    BY <1>1, <1>2, <2>3
<1>4. /\ ~OverLimit
      /\ \E signal : /\ signal => burstAllowance' = 0
                     /\ Admit(Classic, Arrival(ecn), signal, stats, stats)
  BY <1>2, <1>3, MyPieEnqueueCases DEF L4S, Classic
<1>5. PICK signal : /\ signal => burstAllowance' = 0
                    /\ Admit(Classic, Arrival(ecn), signal, stats, stats)
  BY <1>4
<1>6. signal
  <2>1. SUFFICES ASSUME ~signal PROVE FALSE
    OBVIOUS
  <2>2. Store(Classic, Arrival(ecn), stats)
    BY <1>5, <2>1 DEF Admit
  <2>3. Len(q[Classic]) < Capacity[Classic]
    BY <1>4, Fits, BandValues DEF DualInv
  <2>4. dropped' = dropped /\ q' = [q EXCEPT ![Classic] = Append(q[Classic], Arrival(ecn))]
    BY <2>2, <2>3 DEF Store
  <2>5. q[Classic] \in Seq(Packet) /\ Arrival(ecn) \in Packet
    BY <1>1, BandValues, ArrivalType DEF DualInv, MyPie!Ecn, Ecn
  <2>6. q'[Classic] = Append(q[Classic], Arrival(ecn))
    BY <1>1, <2>4, BandValues
  <2>7. q'[Classic][Len(q'[Classic])] = Arrival(ecn)
    BY <2>5, <2>6
  <2> QED
    BY <1>1, <1>2, <2>4, <2>7 DEF Arrival
<1>7. burstAllowance' = 0
  BY <1>5, <1>6
<1> QED
  BY <1>1, <1>7, MyPieConstants DEF MyPieInv

LEMMA MyPieStep ==
  ASSUME DualInv, MyPieInv, MyPie!Next
  PROVE  MyPieInv' /\ MyPie!BurstProtectedStep
<1>1. ASSUME MyPie!DoDequeue PROVE MyPieInv'
  <2>1. now' = now /\ UNCHANGED MyPie!myPieVars
    BY <1>1 DEF MyPie!DoDequeue, MyPie!ReturnNull, MyPie!Deliver
  <2> QED
    BY <2>1, MyPieStutter
<1>2. ASSUME MyPie!Tick({nextUpdate}), UNCHANGED MyPie!myPieVars PROVE MyPieInv'
  <2>1. now' = now + 1 /\ now < nextUpdate
    BY <1>2 DEF MyPie!Tick
  <2>2. /\ dropProb' = dropProb /\ qDelayOld' = qDelayOld /\ burstAllowance' = burstAllowance
        /\ nextUpdate' = nextUpdate /\ calmAt' = calmAt
    BY <1>2 DEF MyPie!myPieVars
  <2>3. now \in Nat
    BY DEF DualInv, DualTypeOK
  <2> QED
    BY <2>1, <2>2, <2>3, MyPieConstants DEF MyPieInv
<1>3. MyPieInv'
  BY <1>1, <1>2, MyPieEnqueueInv, MyPieCalculateInv DEF MyPie!Next
<1>4. MyPie!BurstProtectedStep
  <2> SUFFICES ASSUME NEW ecn \in MyPie!Ecn, NEW u \in MyPie!Draw,
                      MyPie!DoEnqueue(ecn, u), MyPie!EarlySignal(ecn)
               PROVE  now >= calmAt' + MaxBurst - MyPieTUpdate
    BY DEF MyPie!BurstProtectedStep
  <2>1. now' = now
    BY MyPieEnqueueInv
  <2> QED
    BY <1>3, <2>1, MyPieSignal
<1> QED
  BY <1>3, <1>4

----------------------------------------------------------------------------
(* DQRED                                                                   *)

LEMMA RedPiece ==
  ASSUME DualInv, RRInv, Red!Next
  PROVE  Piece(TRUE)
<1>1. stats \in Stats /\ stats.forcedDrop \in Nat /\ stats.unforcedDrop \in Nat
  BY StatsStored DEF DualInv, DualTypeOK, Stats
<1>2. ASSUME NEW ecn \in Red!Ecn, NEW u, Red!DoEnqueue(ecn, u) PROVE Piece(TRUE)
  <2>1. ecn \in Ecn
    BY <1>2 DEF Red!Ecn, Ecn
  <2>2. CASE OverLimit
    BY <1>2, <2>2, RedSame, ForcedPiece DEF Red!DoEnqueue
  <2>3. CASE ~OverLimit
    <3> DEFINE sm == [stats EXCEPT !.mark[Classic] = @ + 1]
               sd == [stats EXCEPT !.unforcedDrop = stats.unforcedDrop + 1]
    <3>1. PICK signal : Admit(BandOf(ecn), Arrival(ecn), signal, sm, sd)
      BY <1>2, <2>3, RedSame DEF Red!DoEnqueue, Red!Classic, Classic
    <3>2. sm \in Stats /\ Quiet(sm)
      BY MarkQuiet, BandValues DEF DualInv
    <3>3. sd \in Stats /\ sd.forcedDrop = stats.forcedDrop /\ sd.unforcedDrop = stats.unforcedDrop + 1
      BY <1>1, StatsType DEF Stats
    <3>4. Tells(sd)
      BY <1>1, <3>3 DEF Tells
    <3> HIDE DEF sm, sd
    <3> QED
      BY <2>1, <2>3, <3>1, <3>2, <3>3, <3>4, AdmitPiece
  <2> QED
    BY <2>2, <2>3
<1>3. CASE Red!DoDequeue
  BY <1>3, RedDequeueSame, DequeuePiece
<1>4. CASE Red!Tick({})
  BY <1>4 DEF Red!Tick, Waits, Piece
<1> QED
  BY <1>2, <1>3, <1>4 DEF Red!Next

LEMMA RedRR ==
  ASSUME DualInv, RRInv, Red!Next
  PROVE  RRInv' /\ WholeTurnsStep
<1>1. CASE UNCHANGED Red!rrVars
  <2>1. UNCHANGED rrVars
    BY <1>1 DEF Red!rrVars, rrVars
  <2> QED
    BY <2>1, RRStutter DEF WholeTurnsStep, rrVars
<1>2. CASE Red!DoDequeue
  BY <1>2, RedDequeueSame, DequeueRR
<1> QED
  BY <1>1, <1>2 DEF Red!Next, Red!DoEnqueue

LEMMA RedSpecInv == Red!Spec => [](DualInv /\ RRInv)
<1>1. Red!Init => DualInv /\ RRInv
  <2>1. 0 .. CounterMod - 1 \in SUBSET (0 .. CounterMod - 1)
    OBVIOUS
  <2> QED
    BY <2>1, RedSame, DualInitInv, InitRRInv DEF Red!Init
<1>2. ASSUME DualInv /\ RRInv, [Red!Next]_(Red!vars) PROVE DualInv' /\ RRInv'
  <2>1. CASE Red!Next
    BY <1>2, <2>1, RedPiece, RedRR, PieceInv
  <2>2. CASE UNCHANGED Red!vars
    <3>1. UNCHANGED dualVars /\ UNCHANGED rrVars
      BY <2>2 DEF Red!vars, Red!dualVars, dualVars, Red!rrVars, rrVars
    <3>2. Waits
      BY <1>2, <3>1 DEF dualVars, Waits, DualInv, DualTypeOK, Lockstep
    <3> QED
      BY <1>2, <3>1, <3>2, PieceInv, RRStutter DEF Piece
  <2> QED
    BY <1>2, <2>1, <2>2
<1> QED
  BY <1>1, <1>2, PTL DEF Red!Spec

(* DQRED alone: the stamp queues mirror the internal queues, so the        *)
(* scheduler, which asks the stamps which band has packets, never          *)
(* dereferences a null item.                                               *)
THEOREM RedLockstep == Red!Spec => []Lockstep
<1>1. DualInv => Lockstep
  BY DEF DualInv
<1> QED
  BY <1>1, RedSpecInv, PTL

(* DQRED alone: every packet is counted in once and out once, and the      *)
(* queue limit holds.                                                      *)
THEOREM RedAccounting == Red!Spec => []Accounting
<1>1. DualInv => Accounting
  BY DEF DualInv
<1> QED
  BY <1>1, RedSpecInv, PTL

(* DQRED alone: no band is served more than its share in a row while the   *)
(* other one waits, for every value the uninitialised counter may hold.    *)
THEOREM RedRoundRobinBound == Red!Spec => []RoundRobinBound
<1>1. RRInv => RoundRobinBound
  BY DEF RRInv, RoundRobinBound
<1> QED
  BY <1>1, RedSpecInv, PTL

(* DQRED alone: a turn that took over from the other band lasts exactly    *)
(* its share.                                                              *)
THEOREM RedWholeTurns == Red!Spec => WholeTurns
<1>1. DualInv /\ RRInv /\ [Red!Next]_(Red!vars) => [WholeTurnsStep]_<<dualVars, rrVars>>
  <2>1. UNCHANGED Red!vars => UNCHANGED <<dualVars, rrVars>>
    BY DEF Red!vars, Red!dualVars, dualVars, Red!rrVars, rrVars
  <2> QED
    BY <2>1, RedRR
<1> QED
  BY <1>1, RedSpecInv, PTL DEF Red!Spec, WholeTurns

----------------------------------------------------------------------------
(* The five discs                                                          *)

DiscsInv ==
  /\ disc \in Disc
  /\ DualInv
  /\ RRInv
  /\ disc = "Pi2" => Pi2TypeOK
  /\ disc = "CRED" => CredInv
  /\ disc = "MyPie" => MyPieInv
  /\ disc = "DQMyPie" => DQPieP!PieInv

LEMMA DiscsInitDual == DiscsInit => DualInit
<1>1. DQPie!Init => DQPieP!DualInit
  BY DQPieInitSame DEF DQPieP!Init
<1> QED
  BY <1>1, CredSame, MyPieSame, RedSame, DQPieDualSame
  DEF DiscsInit, Disc, Init, Cred!Init, MyPie!Init, Red!Init

LEMMA DiscsInitInv == DiscsInit => DiscsInv
<1> SUFFICES ASSUME DiscsInit PROVE DiscsInv
  OBVIOUS
<1>1. DualInv /\ now = 0
  BY DiscsInitDual, DualInitInv DEF DualInit
<1>2. disc \in Disc
  BY DEF DiscsInit
<1>3. RRInv
  <2>1. {0} \in SUBSET (0 .. CounterMod - 1) /\ 0 .. CounterMod - 1 \in SUBSET (0 .. CounterMod - 1)
    BY ShareAssumption
  <2>2. CASE disc = "DQRED"
    <3>1. Red!Init
      BY <2>2 DEF DiscsInit
    <3> QED
      BY <2>1, <3>1, RedSame, InitRRInv DEF Red!Init
  <2>3. CASE disc = "DQMyPie"
    <3>1. DQPieP!RRInit({0})
      BY <2>3, DQPieInitSame DEF DiscsInit, DQPieP!Init
    <3> QED
      BY <2>1, <3>1, DQPieDualSame, InitRRInv
  <2>4. CASE disc \notin {"DQMyPie", "DQRED"}
    BY <2>1, <2>4, InitRRInv DEF DiscsInit, Blank
  <2> QED
    BY <2>2, <2>3, <2>4
<1>4. ASSUME disc = "Pi2" PROVE Pi2TypeOK
  BY <1>4, InitInv DEF DiscsInit, Inv
<1>5. ASSUME disc = "CRED" PROVE CredInv
  <2>1. wQDelayAvg = 0 /\ inner = Cred!NotInner
    BY <1>5 DEF DiscsInit, Cred!Init
  <2>2. /\ Cred!NotInner \in [active : BOOLEAN, qDelay : Nat, u1 : Cred!Draw, u2 : Cred!Draw]
        /\ Cred!NotInner.active = FALSE
    BY DEF Cred!NotInner, Cred!Draw
  <2> QED
    BY <2>1, <2>2 DEF CredInv
<1>6. ASSUME disc = "MyPie" PROVE MyPieInv
  <2>1. MyPie!Init /\ ProbOne \in Nat
    BY <1>6, DiscsAssumption DEF DiscsInit, MyPie!PieAssumption
  <2> QED
    BY <1>1, <2>1, MyPieConstants DEF MyPie!Init, MyPieInv
<1>7. ASSUME disc = "DQMyPie" PROVE DQPieP!PieInv
  <2>1. DQPieP!Init
    BY <1>7, DQPieInitSame DEF DiscsInit
  <2>2. DQPieP!Inv
    BY <2>1, DQPieConstants, ShareAssumption, DQPieP!InitInv DEF DQPieP!InitInv
  <2> QED
    BY <2>2 DEF DQPieP!Inv
<1> QED
  BY <1>1, <1>2, <1>3, <1>4, <1>5, <1>6, <1>7 DEF DiscsInv

LEMMA DQPieRRSame == DQPieP!RRInv' => RRInv'
<1>1. DQPieP!RRInv => RRInv
  BY DQPieDualSame
<1> QED
  BY <1>1, PTL

(* What the theorems about DQMyPie's step say of the composition.          *)
LEMMA DQPieStep ==
  ASSUME DualInv, RRInv, DQPieP!PieInv, DQPie!Next
  PROVE  /\ Piece(FALSE) /\ RRInv' /\ DQPieP!PieInv'
         /\ WholeTurnsStep /\ DQPie!BurstProtectedStep
<1>1. DQPieP!Inv /\ DQPieP!Next
  BY DQPieDualSame, DQPieNextSame DEF DQPieP!Inv
<1>2. [DQPieP!Next]_(DQPieP!vars)
  BY <1>1
<1>3. DQPieP!Piece(FALSE)
  BY <1>1, <1>2, DQPieConstants, ShareAssumption, DQPieP!NextPiece DEF DQPieP!NextPiece
<1>4. DQPieP!Inv' /\ DQPieP!WholeTurnsStep /\ DQPieP!BurstProtectedStep
  BY <1>1, <1>2, DQPieConstants, ShareAssumption, DQPieP!NextInv DEF DQPieP!NextInv
<1>5. RRInv'
  BY <1>4, DQPieRRSame DEF DQPieP!Inv
<1> QED
  BY <1>3, <1>4, <1>5, DQPiePieceSame, DQPieDualSame, DQPieBurstSame DEF DQPieP!Inv

Counting == disc \in {"Pi2", "CRED", "DQRED"}

LEMMA DiscsStutter ==
  ASSUME UNCHANGED discVars
  PROVE  /\ disc' = disc /\ UNCHANGED dualVars /\ UNCHANGED pi2Vars /\ UNCHANGED vars
         /\ UNCHANGED rrVars /\ UNCHANGED credRest /\ UNCHANGED myPieRest
         /\ UNCHANGED dqPieRest
  BY DEF discVars, ctlVars, vars

(* Every step of every disc is one of the pieces.                          *)
LEMMA DiscsPiece ==
  ASSUME DiscsInv, [DiscsNext]_discVars
  PROVE  Piece(Counting) /\ disc' = disc
<1>1. DualInv /\ RRInv
  BY DEF DiscsInv
<1>2. CASE Pi2Does(Next)
  BY <1>1, <1>2, NextPiece DEF Pi2Does, DiscsInv, Inv, Counting
<1>3. CASE CredDoes(Cred!Next)
  BY <1>1, <1>3, CredPiece DEF CredDoes, Counting
<1>4. CASE MyPieDoes(MyPie!Next)
  <2>1. Piece(FALSE) /\ disc' = disc
    BY <1>1, <1>4, MyPiePiece DEF MyPieDoes
  <2>2. Counting = FALSE
    BY <1>4 DEF MyPieDoes, Counting
  <2> QED
    BY <2>1, <2>2
<1>5. CASE DQMyPieDoes(DQPie!Next)
  <2>1. Piece(FALSE) /\ disc' = disc
    BY <1>1, <1>5, DQPieStep DEF DQMyPieDoes, DiscsInv
  <2>2. Counting = FALSE
    BY <1>5 DEF DQMyPieDoes, Counting
  <2> QED
    BY <2>1, <2>2
<1>6. CASE DQRedDoes(Red!Next)
  BY <1>1, <1>6, RedPiece DEF DQRedDoes, Counting
<1>7. CASE UNCHANGED discVars
  <2>1. pc \in {"idle", "dequeue"}
    BY <1>1 DEF DualInv, DualTypeOK, Lockstep
  <2>2. Waits /\ disc' = disc
    BY <1>7, <2>1, DiscsStutter DEF dualVars, Waits
  <2> QED
    BY <2>2 DEF Piece
<1> QED
  BY <1>2, <1>3, <1>4, <1>5, <1>6, <1>7 DEF DiscsNext

LEMMA DiscsRR ==
  ASSUME DiscsInv, [DiscsNext]_discVars
  PROVE  RRInv' /\ WholeTurnsStep
<1>1. DualInv /\ RRInv
  BY DEF DiscsInv
<1>2. CASE UNCHANGED rrVars
  BY <1>1, <1>2, RRStutter DEF WholeTurnsStep, rrVars
<1>3. CASE DQMyPieDoes(DQPie!Next)
  BY <1>1, <1>3, DQPieStep DEF DQMyPieDoes, DiscsInv
<1>4. CASE DQRedDoes(Red!Next)
  BY <1>1, <1>4, RedRR DEF DQRedDoes
<1> QED
  BY <1>2, <1>3, <1>4, DiscsStutter DEF DiscsNext, Pi2Does, CredDoes, MyPieDoes

LEMMA DiscsPi2 ==
  ASSUME DiscsInv, [DiscsNext]_discVars, disc = "Pi2"
  PROVE  Pi2TypeOK' /\ [Next]_vars
<1>1. Inv
  BY DEF DiscsInv, Inv
<1>2. [Next]_vars
  BY DiscsStutter DEF DiscsNext, Pi2Does, CredDoes, MyPieDoes, DQMyPieDoes, DQRedDoes
<1> QED
  BY <1>1, <1>2, NextInv DEF Inv

LEMMA DiscsCred ==
  ASSUME DiscsInv, [DiscsNext]_discVars, disc = "CRED"
  PROVE  CredInv' /\ (CredDoes(Cred!Next) => Cred!CredPurgeStep)
<1>1. DualInv /\ CredInv
  BY DEF DiscsInv
<1>2. CASE CredDoes(Cred!Next)
  BY <1>1, <1>2, CredStep DEF CredDoes
<1>3. CASE UNCHANGED discVars
  <2>1. wQDelayAvg' = wQDelayAvg /\ inner' = inner /\ pc' = pc
    BY <1>3, DiscsStutter DEF credRest, dualVars
  <2>2. CredInv'
    BY <1>1, <2>1 DEF CredInv
  <2>3. CredDoes(Cred!Next) => Cred!CredPurgeStep
    BY <1>1, CredStep DEF CredDoes
  <2> QED
    BY <2>2, <2>3
<1> QED
  BY <1>2, <1>3 DEF DiscsNext, Pi2Does, MyPieDoes, DQMyPieDoes, DQRedDoes

LEMMA DiscsMyPie ==
  ASSUME DiscsInv, [DiscsNext]_discVars, disc = "MyPie"
  PROVE  MyPieInv' /\ (MyPieDoes(MyPie!Next) => MyPie!BurstProtectedStep)
<1>1. DualInv /\ MyPieInv
  BY DEF DiscsInv
<1>2. CASE MyPieDoes(MyPie!Next)
  BY <1>1, <1>2, MyPieStep DEF MyPieDoes
<1>3. CASE UNCHANGED discVars
  <2>1. now' = now /\ UNCHANGED MyPie!myPieVars
    BY <1>3, DiscsStutter DEF myPieRest, pi2Vars, dualVars, MyPie!myPieVars
  <2>2. MyPieInv'
    BY <1>1, <2>1, MyPieStutter
  <2>3. MyPieDoes(MyPie!Next) => MyPie!BurstProtectedStep
    BY <1>1, MyPieStep DEF MyPieDoes
  <2> QED
    BY <2>2, <2>3
<1> QED
  BY <1>2, <1>3 DEF DiscsNext, Pi2Does, CredDoes, DQMyPieDoes, DQRedDoes

LEMMA DiscsDQPie ==
  ASSUME DiscsInv, [DiscsNext]_discVars, disc = "DQMyPie"
  PROVE  DQPieP!PieInv' /\ (DQMyPieDoes(DQPie!Next) => DQPie!BurstProtectedStep)
<1>1. DualInv /\ RRInv /\ DQPieP!PieInv
  BY DEF DiscsInv
<1>2. CASE DQMyPieDoes(DQPie!Next)
  BY <1>1, <1>2, DQPieStep DEF DQMyPieDoes
<1>3. CASE UNCHANGED discVars
  <2>1. now' = now /\ UNCHANGED DQPieP!pieVars
    BY <1>3, DiscsStutter DEF dqPieRest, dualVars, DQPieP!pieVars
  <2>2. DQPieP!PieInv'
    BY <1>1, <2>1, DQPieConstants, ShareAssumption, DQPieP!PieStutter DEF DQPieP!PieStutter
  <2>3. DQMyPieDoes(DQPie!Next) => DQPie!BurstProtectedStep
    BY <1>1, DQPieStep DEF DQMyPieDoes
  <2> QED
    BY <2>2, <2>3
<1> QED
  BY <1>2, <1>3 DEF DiscsNext, Pi2Does, CredDoes, MyPieDoes, DQRedDoes

LEMMA DiscsNextInv ==
  ASSUME DiscsInv, [DiscsNext]_discVars
  PROVE  DiscsInv'
<1>1. DualInv' /\ disc' = disc
  BY DiscsPiece, PieceInv DEF DiscsInv
<1> QED
  BY <1>1, DiscsRR, DiscsPi2, DiscsCred, DiscsMyPie, DiscsDQPie DEF DiscsInv

LEMMA DiscsSafetyInv == DiscsSafety => []DiscsInv
  BY DiscsInitInv, DiscsNextInv, PTL DEF DiscsSafety

----------------------------------------------------------------------------
(* Theorems about whichever disc is installed                              *)

(* The variables of every disc keep their types; above all, CalculateP of  *)
(* the PIE discs keeps each probability between 0 and 1, and no counter    *)
(* of any disc goes below 0.                                               *)
THEOREM DiscsTypes == DiscsSafety => []DiscsTypeOK
<1>1. ASSUME DiscsInv PROVE DiscsTypeOK
  <2>1. DualTypeOK /\ RRTypeOK
    BY <1>1 DEF DiscsInv, DualInv, RRInv
  <2>2. CASE disc = "Pi2"
    <3>1. TypeOK
      BY <1>1, <2>1, <2>2 DEF DiscsInv, Pi2TypeOK, TypeOK
    <3> QED
      BY <2>2, <3>1 DEF DiscsTypeOK
  <2>3. CASE disc = "CRED"
    <3>1. Cred!TypeOK
      BY <1>1, <2>1, <2>3, CredSame DEF DiscsInv, CredInv, Cred!TypeOK
    <3> QED
      BY <2>3, <3>1 DEF DiscsTypeOK
  <2>4. CASE disc = "MyPie"
    <3>1. MyPie!TypeOK
      BY <1>1, <2>1, <2>4, MyPieSame DEF DiscsInv, MyPieInv, MyPie!TypeOK
    <3> QED
      BY <2>4, <3>1 DEF DiscsTypeOK
  <2>5. CASE disc = "DQMyPie"
    <3>1. DQPieP!DualInv /\ DQPieP!RRInv /\ DQPieP!PieInv
      BY <1>1, <2>5, DQPieDualSame DEF DiscsInv
    <3>2. DQPieP!TypeOK
      BY <3>1 DEF DQPieP!TypeOK, DQPieP!DualInv, DQPieP!RRInv, DQPieP!PieInv, DQPieP!PieTypeOK
    <3> QED
      BY <2>5, <3>2, DQPieTypeSame DEF DiscsTypeOK
  <2>6. CASE disc = "DQRED"
    <3>1. Red!TypeOK
      BY <2>1, RedSame DEF Red!TypeOK
    <3> QED
      BY <2>6, <3>1 DEF DiscsTypeOK
  <2> QED
    BY <1>1, <2>2, <2>3, <2>4, <2>5, <2>6 DEF DiscsInv, Disc
<1> QED
  BY <1>1, DiscsSafetyInv, PTL

(* In every disc the stamp queues mirror the internal queues, whatever is  *)
(* enqueued, marked, purged, dropped or served, so that the delays are     *)
(* those of the heads and no scheduler dereferences a null item.           *)
THEOREM DiscsLockstep == DiscsSafety => []Lockstep
<1>1. DiscsInv => Lockstep
  BY DEF DiscsInv, DualInv
<1> QED
  BY <1>1, DiscsSafetyInv, PTL

(* In every disc each packet is counted in once and out once, and the      *)
(* queue limit holds.                                                      *)
THEOREM DiscsAccounting == DiscsSafety => []Accounting
<1>1. DiscsInv => Accounting
  BY DEF DiscsInv, DualInv
<1> QED
  BY <1>1, DiscsSafetyInv, PTL

(* Neither round-robin disc serves a band more than its share in a row     *)
(* while the other one waits, whatever its counter started from.           *)
THEOREM DiscsRoundRobinBound == DiscsSafety => []RoundRobinBound
<1>1. DiscsInv => RoundRobinBound
  BY DEF DiscsInv, RRInv, RoundRobinBound
<1> QED
  BY <1>1, DiscsSafetyInv, PTL

(* L4SPi2, L4SCRED and DQRED count each of their drops in the statistics,  *)
(* and once.                                                               *)
THEOREM DiscsCountDrops == DiscsSafety => []CountedDrops
<1>1. DiscsInit => CountedDrops
  BY DiscsInitDual DEF DualInit, StatsAccounting, CountedDrops
<1>2. ASSUME DiscsInv, CountedDrops, [DiscsNext]_discVars PROVE CountedDrops'
  <2>1. DualInv /\ Piece(Counting) /\ disc' = disc
    BY <1>2, DiscsPiece DEF DiscsInv
  <2>2. SUFFICES ASSUME Counting PROVE StatsAccounting'
    BY <2>1 DEF CountedDrops, Counting
  <2>3. Piece(TRUE)
    <3>1. Counting = TRUE
      BY <2>2 DEF Counting
    <3> QED
      BY <2>1, <3>1
  <2> QED
    BY <1>2, <2>1, <2>2, <2>3, PieceCounts DEF CountedDrops, Counting
<1> QED
  BY <1>1, <1>2, DiscsSafetyInv, PTL DEF DiscsSafety

(* Each of the five discs implements the two-band queue.                   *)
THEOREM DiscsKeepPromise == DiscsSafety => KeepsPromise
<1>1. DiscsInit => Promise!Init
  BY DiscsInitDual, PromiseInit
<1>2. DiscsInv /\ [DiscsNext]_discVars => [Promise!Next]_(Promise!vars)
  BY DiscsPiece, PieceKeeps DEF DiscsInv
<1> QED
  BY <1>1, <1>2, DiscsSafetyInv, PTL DEF DiscsSafety, KeepsPromise, Promise!Spec

(* A turn of either round robin that took over from the other band lasts   *)
(* exactly its share.                                                      *)
THEOREM DiscsTurnsWhole == DiscsSafety => TurnsWhole
<1>1. DiscsInv /\ [DiscsNext]_discVars => [WholeTurnsStep]_discVars
  BY DiscsRR
<1> QED
  BY <1>1, DiscsSafetyInv, PTL DEF DiscsSafety, TurnsWhole

(* L4SPi2: no L4S packet overtakes a Classic one by more than the time     *)
(* shift, and a Classic packet overtakes only L4S packets more than the    *)
(* time shift younger.                                                     *)
THEOREM DiscsPi2Order == DiscsSafety => Pi2Order
<1>1. DiscsInv /\ [DiscsNext]_discVars => [disc = "Pi2" => TimeShiftedOrderStep]_discVars
  BY DiscsPi2, OrderStep DEF DiscsInv, Inv
<1> QED
  BY <1>1, DiscsSafetyInv, PTL DEF DiscsSafety, Pi2Order

(* L4SPi2: an ECT packet that waits in a band is dropped only in           *)
(* saturation.                                                             *)
THEOREM DiscsPi2MarkFirst == DiscsSafety => Pi2MarkBeforeDrop
<1>1. DiscsInv /\ [DiscsNext]_discVars => [disc = "Pi2" => MarkBeforeDropStep]_discVars
  BY DiscsPi2, MarkStep DEF DiscsInv, Inv
<1> QED
  BY <1>1, DiscsSafetyInv, PTL DEF DiscsSafety, Pi2MarkBeforeDrop

(* L4SCRED: once the inner loop has dropped a Classic packet while the     *)
(* average was not above the delay it read, the average only rises, and    *)
(* the same call drops every further packet that it cannot mark.           *)
THEOREM DiscsCredPurges == DiscsSafety => CredPurges
<1>1. ASSUME DiscsInv, DiscsNext, disc = "CRED" PROVE Cred!CredPurgeStep
  <2>1. CredDoes(Cred!Next)
    BY <1>1 DEF DiscsNext, Pi2Does, MyPieDoes, DQMyPieDoes, DQRedDoes
  <2> QED
    BY <1>1, <2>1, DiscsCred
<1>2. DiscsInv /\ [DiscsNext]_discVars => [disc = "CRED" => Cred!CredPurgeStep]_discVars
  BY <1>1
<1> QED
  BY <1>2, DiscsSafetyInv, PTL DEF DiscsSafety, CredPurges

(* The two PIE discs: for a burst allowance after a packet found its band  *)
(* calm, less at most one update interval, no packet of that band is       *)
(* marked or dropped early, whatever the controller computes in between.   *)
THEOREM DiscsBurstsProtected == DiscsSafety => BurstsProtected
<1>1. ASSUME DiscsInv, DiscsNext, disc = "MyPie" PROVE MyPie!BurstProtectedStep
  <2>1. MyPieDoes(MyPie!Next)
    BY <1>1 DEF DiscsNext, Pi2Does, CredDoes, DQMyPieDoes, DQRedDoes
  <2> QED
    BY <1>1, <2>1, DiscsMyPie
<1>2. ASSUME DiscsInv, DiscsNext, disc = "DQMyPie" PROVE DQPie!BurstProtectedStep
  <2>1. DQMyPieDoes(DQPie!Next)
    BY <1>2 DEF DiscsNext, Pi2Does, CredDoes, MyPieDoes, DQRedDoes
  <2> QED
    BY <1>2, <2>1, DiscsDQPie
<1>3. DiscsInv /\ [DiscsNext]_discVars =>
        [ /\ disc = "MyPie" => MyPie!BurstProtectedStep
          /\ disc = "DQMyPie" => DQPie!BurstProtectedStep ]_discVars
  BY <1>1, <1>2
<1> QED
  BY <1>3, DiscsSafetyInv, PTL DEF DiscsSafety, BurstsProtected
=============================================================================
