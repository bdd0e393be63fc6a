------------------------------- MODULE L4SDiscs -------------------------------
(***************************************************************************)
(* The five L4S queue discs under one specification: "disc", chosen at the *)
(* start, says which one is installed.  L4SPi2's variables are those of    *)
(* its module; the others are instances over the state they share with it  *)
(* and over variables of their own.  What another disc would use keeps its *)
(* initial value.                                                          *)
(***************************************************************************)
EXTENDS L4SPi2, RoundRobin

CONSTANTS
  PriorityTime, RoundRobinTime,        \* bounds, as MaxTime, of the discs that
                                       \* serve by priority or in turns
  MarkGain, DropGain, Smoothing, AvgUnit, ByteThreshold,     \* L4SCRED
  A, B, FewPackets,                                          \* both PIE discs
  MyPieTUpdate, MaxBurst,                                    \* L4SMyPie
  QDelayRefs, TUpdates, MaxBursts,                           \* DQMyPie, by band
  MinTh, MaxTh, MaxProb                                      \* DQRED, by band

VARIABLES
  disc,
  wQDelayAvg, inner,                                   \* L4SCRED
  dropProb, burstAllowance, calmAt,                    \* L4SMyPie
  dropProbs, qDelayOlds, bursts, nextUpdates, calmsAt  \* DQMyPie, by band

credRest == <<wQDelayAvg, inner>>
myPieRest == <<dropProb, burstAllowance, calmAt>>
dqPieRest == <<dropProbs, qDelayOlds, bursts, nextUpdates, calmsAt>>
ctlVars == <<pi2Vars, credRest, myPieRest, dqPieRest, rrVars>>
discVars == <<disc, dualVars, ctlVars>>

Disc == {"Pi2", "CRED", "MyPie", "DQMyPie", "DQRED"}

Cred == INSTANCE L4SCred WITH MaxTime <- PriorityTime
MyPie == INSTANCE L4SMyPie WITH MaxTime <- PriorityTime, TUpdate <- MyPieTUpdate
DQPie == INSTANCE DQMyPie WITH
  MaxTime <- RoundRobinTime,
  QDelayRef <- QDelayRefs, TUpdate <- TUpdates, MaxBurst <- MaxBursts,
  dropProb <- dropProbs, qDelayOld <- qDelayOlds, burstAllowance <- bursts,
  nextUpdate <- nextUpdates, calmAt <- calmsAt
Red == INSTANCE DQRed WITH MaxTime <- RoundRobinTime

ASSUME DiscsAssumption ==
  /\ {PriorityTime, RoundRobinTime} \subseteq Nat
  /\ Cred!CredAssumption
  /\ MyPie!PieAssumption /\ MyPie!MyPieAssumption /\ DQPie!DQMyPieAssumption
  /\ Red!RedAssumption

(* the control variables of discs that are not installed                   *)
Blank ==
  /\ disc # "CRED" => wQDelayAvg = 0 /\ inner = Cred!NotInner
  /\ disc # "MyPie" => dropProb = 0 /\ burstAllowance = 0 /\ calmAt = 0
  /\ disc # "Pi2" => dropProbClassic = 0 /\ dropProbL4S = 0
  /\ disc \notin {"Pi2", "MyPie"} => qDelayOld = 0 /\ nextUpdate = 0
  /\ disc # "DQMyPie" =>
       /\ dropProbs = 0 /\ qDelayOlds = 0 /\ bursts = 0
       /\ nextUpdates = 0 /\ calmsAt = 0
  /\ disc \notin {"DQMyPie", "DQRED"} => RRInit({0})

DiscsInit ==
  /\ disc \in Disc
  /\ CASE disc = "Pi2" -> Init
       [] disc = "CRED" -> Cred!Init
       [] disc = "MyPie" -> MyPie!Init
       [] disc = "DQMyPie" -> DQPie!Init
       [] disc = "DQRED" -> Red!Init
  /\ Blank

Pi2Does(step) ==
  /\ disc = "Pi2" /\ step
  /\ UNCHANGED <<disc, credRest, myPieRest, dqPieRest, rrVars>>
CredDoes(step) ==
  /\ disc = "CRED" /\ step
  /\ UNCHANGED <<disc, pi2Vars, myPieRest, dqPieRest, rrVars>>
MyPieDoes(step) ==
  /\ disc = "MyPie" /\ step
  /\ UNCHANGED <<disc, dropProbClassic, dropProbL4S, credRest, dqPieRest, rrVars>>
DQMyPieDoes(step) ==
  disc = "DQMyPie" /\ step /\ UNCHANGED <<disc, pi2Vars, credRest, myPieRest>>
DQRedDoes(step) ==
  disc = "DQRED" /\ step /\ UNCHANGED <<disc, pi2Vars, credRest, myPieRest, dqPieRest>>

DiscsNext ==
  \/ Pi2Does(Next)
  \/ CredDoes(Cred!Next)
  \/ MyPieDoes(MyPie!Next)
  \/ DQMyPieDoes(DQPie!Next)
  \/ DQRedDoes(Red!Next)

DiscsSafety == DiscsInit /\ [][DiscsNext]_discVars

(* A dequeue that has begun runs on: it is one call of a single thread.    *)
DiscsSpec ==
  /\ DiscsSafety
  /\ WF_discVars(Pi2Does(Round)) /\ WF_discVars(CredDoes(Cred!Round))

----------------------------------------------------------------------------
(* The variables of the installed disc have their types; a probability of  *)
(* the PIE discs lies between 0 and 1, which CalculateP has to see to.     *)
DiscsTypeOK ==
  CASE disc = "Pi2" -> TypeOK
    [] disc = "CRED" -> Cred!TypeOK
    [] disc = "MyPie" -> MyPie!TypeOK
    [] disc = "DQMyPie" -> DQPie!TypeOK
    [] disc = "DQRED" -> Red!TypeOK

(* L4SPi2's DoDequeue serves the two bands in the order of their arrival   *)
(* times, Classic's shifted by m_tShift: see TimeShiftedOrderStep.         *)
Pi2Order == [][disc = "Pi2" => TimeShiftedOrderStep]_discVars

(* L4SPi2's DoDequeue drops an ECT packet only when m_dropProbL4S has      *)
(* reached its maximum: see MarkBeforeDropStep.                            *)
Pi2MarkBeforeDrop == [][disc = "Pi2" => MarkBeforeDropStep]_discVars

(* L4SCRED's inner loop purges a run of Classic packets that it cannot     *)
(* mark: see CredPurgeStep.                                                *)
CredPurges == [][disc = "CRED" => Cred!CredPurgeStep]_discVars

(* The two PIE discs let a burst through after a calm arrival: see their   *)
(* BurstProtectedStep.                                                     *)
BurstsProtected ==
  [][ /\ disc = "MyPie" => MyPie!BurstProtectedStep
      /\ disc = "DQMyPie" => DQPie!BurstProtectedStep ]_discVars

(* The round robin of DQMyPie and DQRED gives a band the whole of its      *)
(* share: see WholeTurnsStep.                                              *)
TurnsWhole == [][WholeTurnsStep]_discVars

(* The drop statistics of the three discs that count each of their drops   *)
(* add up to the drops of the base class.                                  *)
CountedDrops == disc \in {"Pi2", "CRED", "DQRED"} => StatsAccounting
=============================================================================
