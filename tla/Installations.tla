---------------------------- MODULE Installations ----------------------------
(***************************************************************************)
(* Four ways of installing queue discs on a device, "setup" saying which:  *)
(* one root disc on a device with several transmission queues (the         *)
(* constants of TrafficControl), a child disc for each of them, and one    *)
(* disc on a device with a single queue, with flow control and without.    *)
(***************************************************************************)
EXTENDS TrafficControl

CONSTANTS
  ChildDiscOf, ChildLimit, ChildArrivals,   \* with child discs
  SingleQueue,                              \* the transmission queue, if it is the only one
  SingleTxLimit, SingleWakeAt               \* its limits, with flow control

VARIABLE setup

Child == INSTANCE TrafficControl WITH
  DiscOf <- ChildDiscOf, MaxArrivals <- ChildArrivals, DiscLimit <- ChildLimit
Single == INSTANCE TrafficControl WITH
  TxQueue <- {SingleQueue}, DiscOf <- [t \in {SingleQueue} |-> DiscOf[SingleQueue]],
  TxLimit <- SingleTxLimit, WakeAt <- SingleWakeAt
NoFlow == INSTANCE TrafficControl WITH
  TxQueue <- {SingleQueue}, DiscOf <- [t \in {SingleQueue} |-> DiscOf[SingleQueue]],
  FlowControl <- FALSE

ASSUME InstallAssumption ==
  /\ Child!TrafficAssumption
  /\ Single!TrafficAssumption
  /\ NoFlow!TrafficAssumption

installVars == <<setup, vars>>

InstallInit ==
  \/ setup = "root" /\ Init
  \/ setup = "child" /\ Child!Init
  \/ setup = "single" /\ Single!Init
  \/ setup = "noflow" /\ NoFlow!Init

In(s, A) == setup = s /\ A /\ UNCHANGED setup

InstallNext ==
  \/ In("root", Next)
  \/ In("child", Child!Next)
  \/ In("single", Single!Next)
  \/ In("noflow", NoFlow!Next)

InstallRunStep ==
  \/ In("root", RunStep)
  \/ In("child", Child!RunStep)
  \/ In("single", Single!RunStep)
  \/ In("noflow", NoFlow!RunStep)

InstallTransmits(t) ==
  \/ In("root", DeviceTransmits(t))
  \/ In("child", Child!DeviceTransmits(t))
  \/ In("single", Single!DeviceTransmits(t))
  \/ In("noflow", NoFlow!DeviceTransmits(t))

InstallSafety == InstallInit /\ [][InstallNext]_installVars

(* A call of Run in progress goes on, and the device keeps transmitting.   *)
InstallSpec ==
  /\ InstallSafety
  /\ WF_installVars(InstallRunStep)
  /\ \A t \in TxQueue : WF_installVars(t \in DOMAIN txLen /\ InstallTransmits(t))

----------------------------------------------------------------------------
(* The properties that depend on the installation; the others, RunOnce,    *)
(* Accounting, QuotaRespected, InOrder and Drains, are TrafficControl's.   *)
Chosen(root, child, single, noflow) ==
  /\ setup = "root" => root
  /\ setup = "child" => child
  /\ setup = "single" => single
  /\ setup = "noflow" => noflow

(* The variables of the installation have their types: the counters are   *)
(* unsigned in the code and never go below 0.                              *)
AllTypeOK == Chosen(TypeOK, Child!TypeOK, Single!TypeOK, NoFlow!TypeOK)

(* When no code runs, what waits will be woken or has spent the quota.     *)
AllNoStall == Chosen(NoStall, Child!NoStall, Single!NoStall, NoFlow!NoStall)

(* Only a multi-queue device with flow control makes a disc requeue.       *)
AllRequeuesNeedBoth ==
  Chosen(RequeuesNeedBoth, Child!RequeuesNeedBoth, Single!RequeuesNeedBoth,
         NoFlow!RequeuesNeedBoth)

(* A device with flow control is never given more than it can store.       *)
AllNoOverflow == Chosen(NoOverflow, Child!NoOverflow, Single!NoOverflow, NoFlow!NoOverflow)
=============================================================================
