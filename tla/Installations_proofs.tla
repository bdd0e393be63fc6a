------------------------ MODULE Installations_proofs ------------------------
(***************************************************************************)
(* Theorems about the four installations, whichever is chosen, for all     *)
(* numbers of queues and discs, all quotas and limits: the invariants of   *)
(* the run "engine".  They follow from instances of the theorems about     *)
(* TrafficControl.                                                         *)
(***************************************************************************)
EXTENDS Installations, TrafficControl_proofs

ChildP == INSTANCE TrafficControl_proofs WITH
  DiscOf <- ChildDiscOf, MaxArrivals <- ChildArrivals, DiscLimit <- ChildLimit
SingleP == INSTANCE TrafficControl_proofs WITH
  TxQueue <- {SingleQueue}, DiscOf <- [t \in {SingleQueue} |-> DiscOf[SingleQueue]],
  TxLimit <- SingleTxLimit, WakeAt <- SingleWakeAt
NoFlowP == INSTANCE TrafficControl_proofs WITH
  TxQueue <- {SingleQueue}, DiscOf <- [t \in {SingleQueue} |-> DiscOf[SingleQueue]],
  FlowControl <- FALSE

----------------------------------------------------------------------------
(* The instances of TrafficControl and of its theorems have the same       *)
(* definitions.                                                            *)

LEMMA ChildSets ==
  \A S : /\ Child!Cardinality(S) = ChildP!Cardinality(S)
         /\ (Child!IsFiniteSet(S) <=> ChildP!IsFiniteSet(S))
  BY DEF Child!Cardinality, ChildP!Cardinality, Child!IsFiniteSet, ChildP!IsFiniteSet

LEMMA ChildSame ==
  /\ Child!TrafficAssumption <=> ChildP!TrafficAssumption
  /\ Child!Init <=> ChildP!Init
  /\ Child!TypeOK <=> ChildP!TypeOK
  /\ Child!NoStall <=> ChildP!NoStall
  /\ Child!RequeuesNeedBoth <=> ChildP!RequeuesNeedBoth
  /\ Child!NoOverflow <=> ChildP!NoOverflow
<1>1. Child!TrafficAssumption <=> ChildP!TrafficAssumption
  BY ChildSets DEF Child!TrafficAssumption, ChildP!TrafficAssumption
<1>2. Child!Init <=> ChildP!Init
  BY ChildSets DEF Child!Init, ChildP!Init
<1>3. Child!TypeOK <=> ChildP!TypeOK
  BY ChildSets DEF Child!TypeOK, ChildP!TypeOK, Child!Packet, ChildP!Packet, Child!Item, ChildP!Item, Child!Frame, ChildP!Frame
<1>4. Child!NoStall <=> ChildP!NoStall
  BY ChildSets DEF Child!NoStall, ChildP!NoStall, Child!HasRequeued, ChildP!HasRequeued
<1>5. Child!RequeuesNeedBoth <=> ChildP!RequeuesNeedBoth
  BY ChildSets DEF Child!RequeuesNeedBoth, ChildP!RequeuesNeedBoth, Child!MultiQueue, ChildP!MultiQueue
<1>6. Child!NoOverflow <=> ChildP!NoOverflow
  BY ChildSets DEF Child!NoOverflow, ChildP!NoOverflow
<1> QED
  BY <1>1, <1>2, <1>3, <1>4, <1>5, <1>6

LEMMA ChildNextSame == Child!Next <=> ChildP!Next
<1>1. ASSUME NEW t PROVE Child!Send(t) <=> ChildP!Send(t)
  BY ChildSets DEF Child!Send, ChildP!Send, Child!RunBegin, ChildP!RunBegin, Child!Push,
         ChildP!Push, Child!devVars, ChildP!devVars
<1>2. ASSUME NEW t PROVE Child!DeviceTransmits(t) <=> ChildP!DeviceTransmits(t)
  BY ChildSets DEF Child!DeviceTransmits, ChildP!DeviceTransmits, Child!RunBegin,
         ChildP!RunBegin, Child!Push, ChildP!Push, Child!Top, ChildP!Top
<1>3. ASSUME NEW d PROVE Child!NothingToSend(d) <=> ChildP!NothingToSend(d)
  BY ChildSets DEF Child!NothingToSend, ChildP!NothingToSend, Child!Runs, ChildP!Runs,
         Child!HasRequeued, ChildP!HasRequeued, Child!Asks, ChildP!Asks,
         Child!MultiQueue, ChildP!MultiQueue, Child!RunEnd, ChildP!RunEnd, Child!Top,
         ChildP!Top, Child!Pop, ChildP!Pop, Child!devVars, ChildP!devVars
<1>4. ASSUME NEW d PROVE Child!DequeueNothing(d) <=> ChildP!DequeueNothing(d)
  BY ChildSets DEF Child!DequeueNothing, ChildP!DequeueNothing, Child!Runs, ChildP!Runs,
         Child!HasRequeued, ChildP!HasRequeued, Child!Asks, ChildP!Asks,
         Child!MultiQueue, ChildP!MultiQueue, Child!RunEnd, ChildP!RunEnd, Child!Top,
         ChildP!Top, Child!Pop, ChildP!Pop, Child!devVars, ChildP!devVars
<1>5. \A d, item, stock : Child!Transmit(d, item, stock) <=> ChildP!Transmit(d, item, stock)
  BY DEF Child!Transmit, ChildP!Transmit, Child!Requeue, ChildP!Requeue,
         Child!HandOver, ChildP!HandOver, Child!DeviceSend, ChildP!DeviceSend,
         Child!SetTop, ChildP!SetTop, Child!RunEnd, ChildP!RunEnd, Child!Pop,
         ChildP!Pop, Child!Top, ChildP!Top, Child!devVars, ChildP!devVars
<1>6. ASSUME NEW d PROVE Child!RestartRequeued(d) <=> ChildP!RestartRequeued(d)
  BY ChildSets, <1>5 DEF Child!RestartRequeued, ChildP!RestartRequeued, Child!Runs, ChildP!Runs,
         Child!HasRequeued, ChildP!HasRequeued, Child!Top, ChildP!Top
<1>7. ASSUME NEW d PROVE Child!RestartDequeued(d) <=> ChildP!RestartDequeued(d)
  BY ChildSets, <1>5 DEF Child!RestartDequeued, ChildP!RestartDequeued, Child!Runs, ChildP!Runs,
         Child!HasRequeued, ChildP!HasRequeued, Child!Asks, ChildP!Asks,
         Child!MultiQueue, ChildP!MultiQueue, Child!Top, ChildP!Top, Child!AddHeader,
         ChildP!AddHeader
<1>8. ASSUME NEW d PROVE Child!SendReturns(d) <=> ChildP!SendReturns(d)
  BY ChildSets DEF Child!SendReturns, ChildP!SendReturns, Child!Top, ChildP!Top, Child!SetTop,
         ChildP!SetTop, Child!RunEnd, ChildP!RunEnd, Child!Pop, ChildP!Pop,
         Child!devVars, ChildP!devVars
<1> QED
  BY <1>1, <1>2, <1>3, <1>4, <1>5, <1>6, <1>7, <1>8
  DEF Child!Next, ChildP!Next, Child!RunStep, ChildP!RunStep

LEMMA SingleSets ==
  \A S : /\ Single!Cardinality(S) = SingleP!Cardinality(S)
         /\ (Single!IsFiniteSet(S) <=> SingleP!IsFiniteSet(S))
  BY DEF Single!Cardinality, SingleP!Cardinality, Single!IsFiniteSet, SingleP!IsFiniteSet

LEMMA SingleSame ==
  /\ Single!TrafficAssumption <=> SingleP!TrafficAssumption
  /\ Single!Init <=> SingleP!Init
  /\ Single!TypeOK <=> SingleP!TypeOK
  /\ Single!NoStall <=> SingleP!NoStall
  /\ Single!RequeuesNeedBoth <=> SingleP!RequeuesNeedBoth
  /\ Single!NoOverflow <=> SingleP!NoOverflow
<1>1. Single!TrafficAssumption <=> SingleP!TrafficAssumption
  BY SingleSets DEF Single!TrafficAssumption, SingleP!TrafficAssumption
<1>2. Single!Init <=> SingleP!Init
  BY SingleSets DEF Single!Init, SingleP!Init
<1>3. Single!TypeOK <=> SingleP!TypeOK
  BY SingleSets DEF Single!TypeOK, SingleP!TypeOK, Single!Packet, SingleP!Packet, Single!Item, SingleP!Item, Single!Frame, SingleP!Frame
<1>4. Single!NoStall <=> SingleP!NoStall
  BY SingleSets DEF Single!NoStall, SingleP!NoStall, Single!HasRequeued, SingleP!HasRequeued
<1>5. Single!RequeuesNeedBoth <=> SingleP!RequeuesNeedBoth
  BY SingleSets DEF Single!RequeuesNeedBoth, SingleP!RequeuesNeedBoth, Single!MultiQueue, SingleP!MultiQueue
<1>6. Single!NoOverflow <=> SingleP!NoOverflow
  BY SingleSets DEF Single!NoOverflow, SingleP!NoOverflow
<1> QED
  BY <1>1, <1>2, <1>3, <1>4, <1>5, <1>6

LEMMA SingleNextSame == Single!Next <=> SingleP!Next
<1>1. ASSUME NEW t PROVE Single!Send(t) <=> SingleP!Send(t)
  BY SingleSets DEF Single!Send, SingleP!Send, Single!RunBegin, SingleP!RunBegin, Single!Push,
         SingleP!Push, Single!devVars, SingleP!devVars
<1>2. ASSUME NEW t PROVE Single!DeviceTransmits(t) <=> SingleP!DeviceTransmits(t)
  BY SingleSets DEF Single!DeviceTransmits, SingleP!DeviceTransmits, Single!RunBegin,
         SingleP!RunBegin, Single!Push, SingleP!Push, Single!Top, SingleP!Top
<1>3. ASSUME NEW d PROVE Single!NothingToSend(d) <=> SingleP!NothingToSend(d)
  BY SingleSets DEF Single!NothingToSend, SingleP!NothingToSend, Single!Runs, SingleP!Runs,
         Single!HasRequeued, SingleP!HasRequeued, Single!Asks, SingleP!Asks,
         Single!MultiQueue, SingleP!MultiQueue, Single!RunEnd, SingleP!RunEnd,
         Single!Top, SingleP!Top, Single!Pop, SingleP!Pop, Single!devVars,
         SingleP!devVars
<1>4. ASSUME NEW d PROVE Single!DequeueNothing(d) <=> SingleP!DequeueNothing(d)
  BY SingleSets DEF Single!DequeueNothing, SingleP!DequeueNothing, Single!Runs, SingleP!Runs,
         Single!HasRequeued, SingleP!HasRequeued, Single!Asks, SingleP!Asks,
         Single!MultiQueue, SingleP!MultiQueue, Single!RunEnd, SingleP!RunEnd,
         Single!Top, SingleP!Top, Single!Pop, SingleP!Pop, Single!devVars,
         SingleP!devVars
<1>5. \A d, item, stock : Single!Transmit(d, item, stock) <=> SingleP!Transmit(d, item, stock)
  BY DEF Single!Transmit, SingleP!Transmit, Single!Requeue, SingleP!Requeue,
         Single!HandOver, SingleP!HandOver, Single!DeviceSend, SingleP!DeviceSend,
         Single!SetTop, SingleP!SetTop, Single!RunEnd, SingleP!RunEnd, Single!Pop,
         SingleP!Pop, Single!Top, SingleP!Top, Single!devVars, SingleP!devVars
<1>6. ASSUME NEW d PROVE Single!RestartRequeued(d) <=> SingleP!RestartRequeued(d)
  BY SingleSets, <1>5 DEF Single!RestartRequeued, SingleP!RestartRequeued, Single!Runs, SingleP!Runs,
         Single!HasRequeued, SingleP!HasRequeued, Single!Top, SingleP!Top
<1>7. ASSUME NEW d PROVE Single!RestartDequeued(d) <=> SingleP!RestartDequeued(d)
  BY SingleSets, <1>5 DEF Single!RestartDequeued, SingleP!RestartDequeued, Single!Runs, SingleP!Runs,
         Single!HasRequeued, SingleP!HasRequeued, Single!Asks, SingleP!Asks,
         Single!MultiQueue, SingleP!MultiQueue, Single!Top, SingleP!Top,
         Single!AddHeader, SingleP!AddHeader
<1>8. ASSUME NEW d PROVE Single!SendReturns(d) <=> SingleP!SendReturns(d)
  BY SingleSets DEF Single!SendReturns, SingleP!SendReturns, Single!Top, SingleP!Top,
         Single!SetTop, SingleP!SetTop, Single!RunEnd, SingleP!RunEnd, Single!Pop,
         SingleP!Pop, Single!devVars, SingleP!devVars
<1> QED
  BY <1>1, <1>2, <1>3, <1>4, <1>5, <1>6, <1>7, <1>8
  DEF Single!Next, SingleP!Next, Single!RunStep, SingleP!RunStep

LEMMA NoFlowSets ==
  \A S : /\ NoFlow!Cardinality(S) = NoFlowP!Cardinality(S)
         /\ (NoFlow!IsFiniteSet(S) <=> NoFlowP!IsFiniteSet(S))
  BY DEF NoFlow!Cardinality, NoFlowP!Cardinality, NoFlow!IsFiniteSet, NoFlowP!IsFiniteSet

LEMMA NoFlowSame ==
  /\ NoFlow!TrafficAssumption <=> NoFlowP!TrafficAssumption
  /\ NoFlow!Init <=> NoFlowP!Init
  /\ NoFlow!TypeOK <=> NoFlowP!TypeOK
  /\ NoFlow!NoStall <=> NoFlowP!NoStall
  /\ NoFlow!RequeuesNeedBoth <=> NoFlowP!RequeuesNeedBoth
  /\ NoFlow!NoOverflow <=> NoFlowP!NoOverflow
<1>1. NoFlow!TrafficAssumption <=> NoFlowP!TrafficAssumption
  BY NoFlowSets DEF NoFlow!TrafficAssumption, NoFlowP!TrafficAssumption
<1>2. NoFlow!Init <=> NoFlowP!Init
  BY NoFlowSets DEF NoFlow!Init, NoFlowP!Init
<1>3. NoFlow!TypeOK <=> NoFlowP!TypeOK
  BY NoFlowSets DEF NoFlow!TypeOK, NoFlowP!TypeOK, NoFlow!Packet, NoFlowP!Packet, NoFlow!Item, NoFlowP!Item, NoFlow!Frame, NoFlowP!Frame
<1>4. NoFlow!NoStall <=> NoFlowP!NoStall
  BY NoFlowSets DEF NoFlow!NoStall, NoFlowP!NoStall, NoFlow!HasRequeued, NoFlowP!HasRequeued
<1>5. NoFlow!RequeuesNeedBoth <=> NoFlowP!RequeuesNeedBoth
  BY NoFlowSets DEF NoFlow!RequeuesNeedBoth, NoFlowP!RequeuesNeedBoth, NoFlow!MultiQueue, NoFlowP!MultiQueue
<1>6. NoFlow!NoOverflow <=> NoFlowP!NoOverflow
  BY NoFlowSets DEF NoFlow!NoOverflow, NoFlowP!NoOverflow
<1> QED
  BY <1>1, <1>2, <1>3, <1>4, <1>5, <1>6

LEMMA NoFlowNextSame == NoFlow!Next <=> NoFlowP!Next
<1>1. ASSUME NEW t PROVE NoFlow!Send(t) <=> NoFlowP!Send(t)
  BY NoFlowSets DEF NoFlow!Send, NoFlowP!Send, NoFlow!RunBegin, NoFlowP!RunBegin, NoFlow!Push,
         NoFlowP!Push, NoFlow!devVars, NoFlowP!devVars
<1>2. ASSUME NEW t PROVE NoFlow!DeviceTransmits(t) <=> NoFlowP!DeviceTransmits(t)
  BY NoFlowSets DEF NoFlow!DeviceTransmits, NoFlowP!DeviceTransmits, NoFlow!RunBegin,
         NoFlowP!RunBegin, NoFlow!Push, NoFlowP!Push, NoFlow!Top, NoFlowP!Top
<1>3. ASSUME NEW d PROVE NoFlow!NothingToSend(d) <=> NoFlowP!NothingToSend(d)
  BY NoFlowSets DEF NoFlow!NothingToSend, NoFlowP!NothingToSend, NoFlow!Runs, NoFlowP!Runs,
         NoFlow!HasRequeued, NoFlowP!HasRequeued, NoFlow!Asks, NoFlowP!Asks,
         NoFlow!MultiQueue, NoFlowP!MultiQueue, NoFlow!RunEnd, NoFlowP!RunEnd,
         NoFlow!Top, NoFlowP!Top, NoFlow!Pop, NoFlowP!Pop, NoFlow!devVars,
         NoFlowP!devVars
<1>4. ASSUME NEW d PROVE NoFlow!DequeueNothing(d) <=> NoFlowP!DequeueNothing(d)
  BY NoFlowSets DEF NoFlow!DequeueNothing, NoFlowP!DequeueNothing, NoFlow!Runs, NoFlowP!Runs,
         NoFlow!HasRequeued, NoFlowP!HasRequeued, NoFlow!Asks, NoFlowP!Asks,
         NoFlow!MultiQueue, NoFlowP!MultiQueue, NoFlow!RunEnd, NoFlowP!RunEnd,
         NoFlow!Top, NoFlowP!Top, NoFlow!Pop, NoFlowP!Pop, NoFlow!devVars,
         NoFlowP!devVars
<1>5. \A d, item, stock : NoFlow!Transmit(d, item, stock) <=> NoFlowP!Transmit(d, item, stock)
  BY DEF NoFlow!Transmit, NoFlowP!Transmit, NoFlow!Requeue, NoFlowP!Requeue,
         NoFlow!HandOver, NoFlowP!HandOver, NoFlow!DeviceSend, NoFlowP!DeviceSend,
         NoFlow!SetTop, NoFlowP!SetTop, NoFlow!RunEnd, NoFlowP!RunEnd, NoFlow!Pop,
         NoFlowP!Pop, NoFlow!Top, NoFlowP!Top, NoFlow!devVars, NoFlowP!devVars
<1>6. ASSUME NEW d PROVE NoFlow!RestartRequeued(d) <=> NoFlowP!RestartRequeued(d)
  BY NoFlowSets, <1>5 DEF NoFlow!RestartRequeued, NoFlowP!RestartRequeued, NoFlow!Runs, NoFlowP!Runs,
         NoFlow!HasRequeued, NoFlowP!HasRequeued, NoFlow!Top, NoFlowP!Top
<1>7. ASSUME NEW d PROVE NoFlow!RestartDequeued(d) <=> NoFlowP!RestartDequeued(d)
  BY NoFlowSets, <1>5 DEF NoFlow!RestartDequeued, NoFlowP!RestartDequeued, NoFlow!Runs, NoFlowP!Runs,
         NoFlow!HasRequeued, NoFlowP!HasRequeued, NoFlow!Asks, NoFlowP!Asks,
         NoFlow!MultiQueue, NoFlowP!MultiQueue, NoFlow!Top, NoFlowP!Top,
         NoFlow!AddHeader, NoFlowP!AddHeader
<1>8. ASSUME NEW d PROVE NoFlow!SendReturns(d) <=> NoFlowP!SendReturns(d)
  BY NoFlowSets DEF NoFlow!SendReturns, NoFlowP!SendReturns, NoFlow!Top, NoFlowP!Top,
         NoFlow!SetTop, NoFlowP!SetTop, NoFlow!RunEnd, NoFlowP!RunEnd, NoFlow!Pop,
         NoFlowP!Pop, NoFlow!devVars, NoFlowP!devVars
<1> QED
  BY <1>1, <1>2, <1>3, <1>4, <1>5, <1>6, <1>7, <1>8
  DEF NoFlow!Next, NoFlowP!Next, NoFlow!RunStep, NoFlowP!RunStep

----------------------------------------------------------------------------
(* What one step of an installation does.                                  *)

LEMMA ChildSafe ==
  ChildP!Inv => /\ Child!TypeOK /\ RunOnce /\ Accounting /\ QuotaRespected
             /\ Child!NoStall /\ Child!RequeuesNeedBoth /\ Child!NoOverflow
<1> SUFFICES ASSUME ChildP!Inv
             PROVE  /\ Child!TypeOK /\ RunOnce /\ Accounting /\ QuotaRespected
                    /\ Child!NoStall /\ Child!RequeuesNeedBoth /\ Child!NoOverflow
  OBVIOUS
<1>1. ChildP!TrafficAssumption
  BY InstallAssumption, ChildSame DEF InstallAssumption
<1>2. /\ ChildP!TypeOK /\ ChildP!RunOnce /\ ChildP!Accounting /\ ChildP!QuotaRespected
      /\ ChildP!NoStall /\ ChildP!RequeuesNeedBoth /\ ChildP!NoOverflow
  BY <1>1, ChildP!InvSafe DEF ChildP!InvSafe
<1>3. RunOnce
  BY <1>2 DEF RunOnce, ChildP!RunOnce
<1>4. Accounting
  BY <1>2 DEF Accounting, ChildP!Accounting, Cardinality, ChildP!Cardinality
<1>5. QuotaRespected
  BY <1>2 DEF QuotaRespected, ChildP!QuotaRespected
<1> QED
  BY <1>2, <1>3, <1>4, <1>5, ChildSame

LEMMA ChildBegins == Child!Init => ChildP!Inv
<1>1. ChildP!TrafficAssumption
  BY InstallAssumption, ChildSame DEF InstallAssumption
<1> QED
  BY <1>1, ChildSame, ChildP!InitInv DEF ChildP!InitInv

LEMMA ChildSteps ==
  ASSUME ChildP!Inv, Child!Next \/ UNCHANGED vars
  PROVE  ChildP!Inv' /\ [InOrderStep]_vars
<1>1. ChildP!TrafficAssumption
  BY InstallAssumption, ChildSame DEF InstallAssumption
<1>2. UNCHANGED vars <=> UNCHANGED ChildP!vars
  BY DEF vars, discVars, devVars, ChildP!vars, ChildP!discVars, ChildP!devVars
<1>3. [ChildP!Next]_ChildP!vars
  BY <1>2, ChildNextSame
<1>4. ChildP!Inv' /\ [ChildP!InOrderStep]_ChildP!vars
  BY <1>1, <1>3, ChildP!NextInv DEF ChildP!NextInv
<1>5. InOrderStep <=> ChildP!InOrderStep
  BY DEF InOrderStep, ChildP!InOrderStep
<1> QED
  BY <1>2, <1>4, <1>5

LEMMA SingleSafe ==
  SingleP!Inv => /\ Single!TypeOK /\ RunOnce /\ Accounting /\ QuotaRespected
             /\ Single!NoStall /\ Single!RequeuesNeedBoth /\ Single!NoOverflow
<1> SUFFICES ASSUME SingleP!Inv
             PROVE  /\ Single!TypeOK /\ RunOnce /\ Accounting /\ QuotaRespected
                    /\ Single!NoStall /\ Single!RequeuesNeedBoth /\ Single!NoOverflow
  OBVIOUS
<1>1. SingleP!TrafficAssumption
  BY InstallAssumption, SingleSame DEF InstallAssumption
<1>2. /\ SingleP!TypeOK /\ SingleP!RunOnce /\ SingleP!Accounting /\ SingleP!QuotaRespected
      /\ SingleP!NoStall /\ SingleP!RequeuesNeedBoth /\ SingleP!NoOverflow
  BY <1>1, SingleP!InvSafe DEF SingleP!InvSafe
<1>3. RunOnce
  BY <1>2 DEF RunOnce, SingleP!RunOnce
<1>4. Accounting
  BY <1>2 DEF Accounting, SingleP!Accounting, Cardinality, SingleP!Cardinality
<1>5. QuotaRespected
  BY <1>2 DEF QuotaRespected, SingleP!QuotaRespected
<1> QED
  BY <1>2, <1>3, <1>4, <1>5, SingleSame

LEMMA SingleBegins == Single!Init => SingleP!Inv
<1>1. SingleP!TrafficAssumption
  BY InstallAssumption, SingleSame DEF InstallAssumption
<1> QED
  BY <1>1, SingleSame, SingleP!InitInv DEF SingleP!InitInv

LEMMA SingleSteps ==
  ASSUME SingleP!Inv, Single!Next \/ UNCHANGED vars
  PROVE  SingleP!Inv' /\ [InOrderStep]_vars
<1>1. SingleP!TrafficAssumption
  BY InstallAssumption, SingleSame DEF InstallAssumption
<1>2. UNCHANGED vars <=> UNCHANGED SingleP!vars
  BY DEF vars, discVars, devVars, SingleP!vars, SingleP!discVars, SingleP!devVars
<1>3. [SingleP!Next]_SingleP!vars
  BY <1>2, SingleNextSame
<1>4. SingleP!Inv' /\ [SingleP!InOrderStep]_SingleP!vars
  BY <1>1, <1>3, SingleP!NextInv DEF SingleP!NextInv
<1>5. InOrderStep <=> SingleP!InOrderStep
  BY DEF InOrderStep, SingleP!InOrderStep
<1> QED
  BY <1>2, <1>4, <1>5

LEMMA NoFlowSafe ==
  NoFlowP!Inv => /\ NoFlow!TypeOK /\ RunOnce /\ Accounting /\ QuotaRespected
             /\ NoFlow!NoStall /\ NoFlow!RequeuesNeedBoth /\ NoFlow!NoOverflow
<1> SUFFICES ASSUME NoFlowP!Inv
             PROVE  /\ NoFlow!TypeOK /\ RunOnce /\ Accounting /\ QuotaRespected
                    /\ NoFlow!NoStall /\ NoFlow!RequeuesNeedBoth /\ NoFlow!NoOverflow
  OBVIOUS
<1>1. NoFlowP!TrafficAssumption
  BY InstallAssumption, NoFlowSame DEF InstallAssumption
<1>2. /\ NoFlowP!TypeOK /\ NoFlowP!RunOnce /\ NoFlowP!Accounting /\ NoFlowP!QuotaRespected
      /\ NoFlowP!NoStall /\ NoFlowP!RequeuesNeedBoth /\ NoFlowP!NoOverflow
  BY <1>1, NoFlowP!InvSafe DEF NoFlowP!InvSafe
<1>3. RunOnce
  BY <1>2 DEF RunOnce, NoFlowP!RunOnce
<1>4. Accounting
  BY <1>2 DEF Accounting, NoFlowP!Accounting, Cardinality, NoFlowP!Cardinality
<1>5. QuotaRespected
  BY <1>2 DEF QuotaRespected, NoFlowP!QuotaRespected
<1> QED
  BY <1>2, <1>3, <1>4, <1>5, NoFlowSame

LEMMA NoFlowBegins == NoFlow!Init => NoFlowP!Inv
<1>1. NoFlowP!TrafficAssumption
  BY InstallAssumption, NoFlowSame DEF InstallAssumption
<1> QED
  BY <1>1, NoFlowSame, NoFlowP!InitInv DEF NoFlowP!InitInv

LEMMA NoFlowSteps ==
  ASSUME NoFlowP!Inv, NoFlow!Next \/ UNCHANGED vars
  PROVE  NoFlowP!Inv' /\ [InOrderStep]_vars
<1>1. NoFlowP!TrafficAssumption
  BY InstallAssumption, NoFlowSame DEF InstallAssumption
<1>2. UNCHANGED vars <=> UNCHANGED NoFlowP!vars
  BY DEF vars, discVars, devVars, NoFlowP!vars, NoFlowP!discVars, NoFlowP!devVars
<1>3. [NoFlowP!Next]_NoFlowP!vars
  BY <1>2, NoFlowNextSame
<1>4. NoFlowP!Inv' /\ [NoFlowP!InOrderStep]_NoFlowP!vars
  BY <1>1, <1>3, NoFlowP!NextInv DEF NoFlowP!NextInv
<1>5. InOrderStep <=> NoFlowP!InOrderStep
  BY DEF InOrderStep, NoFlowP!InOrderStep
<1> QED
  BY <1>2, <1>4, <1>5

----------------------------------------------------------------------------
(* The invariant of the installation that was chosen.                      *)
InstallInv ==
  /\ setup \in {"root", "child", "single", "noflow"}
  /\ Chosen(Inv, ChildP!Inv, SingleP!Inv, NoFlowP!Inv)

LEMMA InstallBegins == InstallInit => InstallInv
  BY InitInv, ChildBegins, SingleBegins, NoFlowBegins DEF InstallInit, InstallInv, Chosen

LEMMA InstallSteps ==
  ASSUME InstallInv, [InstallNext]_installVars
  PROVE  InstallInv' /\ [InOrderStep]_vars
<1>1. setup' = setup
  BY DEF InstallNext, In, installVars
<1>2. ASSUME setup = "root" PROVE Inv' /\ [InOrderStep]_vars
  <2>1. Inv /\ [Next]_vars
    BY <1>2 DEF InstallInv, Chosen, InstallNext, In, installVars
  <2> QED
    BY <2>1, NextInv, TrafficAssumption
<1>3. ASSUME setup = "child" PROVE ChildP!Inv' /\ [InOrderStep]_vars
  <2>1. ChildP!Inv /\ (Child!Next \/ UNCHANGED vars)
    BY <1>3 DEF InstallInv, Chosen, InstallNext, In, installVars
  <2> QED
    BY <2>1, ChildSteps
<1>4. ASSUME setup = "single" PROVE SingleP!Inv' /\ [InOrderStep]_vars
  <2>1. SingleP!Inv /\ (Single!Next \/ UNCHANGED vars)
    BY <1>4 DEF InstallInv, Chosen, InstallNext, In, installVars
  <2> QED
    BY <2>1, SingleSteps
<1>5. ASSUME setup = "noflow" PROVE NoFlowP!Inv' /\ [InOrderStep]_vars
  <2>1. NoFlowP!Inv /\ (NoFlow!Next \/ UNCHANGED vars)
    BY <1>5 DEF InstallInv, Chosen, InstallNext, In, installVars
  <2> QED
    BY <2>1, NoFlowSteps
<1>6. [InOrderStep]_vars
  BY <1>2, <1>3, <1>4, <1>5 DEF InstallInv
<1>7. InstallInv'
  BY <1>1, <1>2, <1>3, <1>4, <1>5 DEF InstallInv, Chosen
<1> QED
  BY <1>6, <1>7

LEMMA InstallInvariance == InstallSafety => []InstallInv /\ InOrder
<1>1. InstallInv /\ [InstallNext]_installVars => InstallInv' /\ [InOrderStep]_vars
  BY InstallSteps
<1> QED
  BY <1>1, InstallBegins, PTL DEF InstallSafety, InOrder

LEMMA InstallSafe ==
  InstallInv => /\ AllTypeOK /\ AllNoStall /\ AllRequeuesNeedBoth /\ AllNoOverflow
                /\ RunOnce /\ Accounting /\ QuotaRespected
<1>1. Inv => /\ TypeOK /\ RunOnce /\ Accounting /\ QuotaRespected
             /\ NoStall /\ RequeuesNeedBoth /\ NoOverflow
  BY InvSafe, TrafficAssumption
<1>2. InstallInv => /\ AllTypeOK /\ AllNoStall /\ AllRequeuesNeedBoth /\ AllNoOverflow
  BY <1>1, ChildSafe, SingleSafe, NoFlowSafe
  DEF InstallInv, Chosen, AllTypeOK, AllNoStall, AllRequeuesNeedBoth, AllNoOverflow
<1>3. InstallInv => RunOnce /\ Accounting /\ QuotaRespected
  BY <1>1, ChildSafe, SingleSafe, NoFlowSafe DEF InstallInv, Chosen
<1> QED
  BY <1>2, <1>3

----------------------------------------------------------------------------
(* However the discs are installed, the variables keep their types: the    *)
(* unsigned counters of QueueDisc never go below 0.                        *)
THEOREM InstallTypeCorrect == InstallSafety => []AllTypeOK
BY InstallSafe, InstallInvariance, PTL

(* However deep the device's wake callbacks nest calls of QueueDisc::Run   *)
(* of root and child discs, no disc is run twice at once.                  *)
THEOREM InstallRunsOnce == InstallSafety => []RunOnce
BY InstallSafe, InstallInvariance, PTL

(* The counters of QueueDisc balance in every installation.                *)
THEOREM InstallBooksBalance == InstallSafety => []Accounting
BY InstallSafe, InstallInvariance, PTL

(* A Run hands over at most as many packets as its quota, for root and     *)
(* child discs.                                                            *)
THEOREM InstallQuotaKept == InstallSafety => []QuotaRespected
BY InstallSafe, InstallInvariance, PTL

(* While no code runs, what any disc holds waits for a stopped queue of    *)
(* its own, or for the next arrival after a spent quota.                   *)
THEOREM InstallNeverStalls == InstallSafety => []AllNoStall
BY InstallSafe, InstallInvariance, PTL

(* "Packets may only be requeued when the underlying device is multi-queue *)
(* and supports flow control" (queue-discs.rst:279), in all installations.   *)
THEOREM InstallRequeuesOnlyThen == InstallSafety => []AllRequeuesNeedBoth
BY InstallSafe, InstallInvariance, PTL

(* Discs that look at a queue before they send never overflow a device     *)
(* with flow control, be it shared by a root disc or given a disc each.    *)
THEOREM InstallNeverOverflows == InstallSafety => []AllNoOverflow
BY InstallSafe, InstallInvariance, PTL

(* The device gets each item of each disc once, with one header, in the    *)
(* order in which DoDequeue returned them.                                 *)
THEOREM InstallHandsOverInOrder == InstallSafety => InOrder
BY InstallInvariance, PTL
=============================================================================
