---------------------------- MODULE TrafficControl ----------------------------
(***************************************************************************)
(* A network device with queue discs attached: TrafficControlLayer::Send,  *)
(* and the part of the class QueueDisc that moves packets from a disc to   *)
(* the device (Run and what it calls).  One thread runs it all, but the    *)
(* device may wake a transmission queue inside NetDevice::Send, and waking *)
(* calls QueueDisc::Run again: "stack" holds the calls of Run in progress. *)
(*                                                                         *)
(* A disc is any DoEnqueue and DoDequeue that keep the promise of          *)
(* TwoBandQueue: what is accepted leaves once, delivered or dropped, and   *)
(* DoDequeue returns 0 only when nothing is stored.  The device is         *)
(* external: per transmission queue it counts packets, stops the queue     *)
(* when it is full and wakes it when it has drained.                       *)
(***************************************************************************)
EXTENDS Integers, Sequences, FiniteSets

CONSTANTS
  TxQueue,     \* transmission queues of the device
  Disc,        \* the root disc (WAKE_ROOT) or its children (WAKE_CHILD)
  DiscOf,      \* queueDiscsToWake and the wake callbacks, by transmission queue
  Quota,       \* m_quota
  DiscLimit,   \* packets a disc stores
  TxLimit,     \* packets a transmission queue stores
  WakeAt,      \* a stopped queue is woken when it holds no more than this
  FlowControl, \* whether the device stops its queues
  MaxArrivals  \* bound of the model: packets that arrive

(* With a quota of 0 the unsigned counter of Run wraps: taken up apart.    *)
ASSUME TrafficAssumption ==
  /\ IsFiniteSet(TxQueue) /\ TxQueue # {}
  /\ DiscOf \in [TxQueue -> Disc]
  /\ Quota \in Nat \ {0}
  /\ {DiscLimit, WakeAt, MaxArrivals} \subseteq Nat
  /\ TxLimit \in Nat \ {0} /\ WakeAt < TxLimit
  /\ FlowControl \in BOOLEAN

VARIABLES
  waiting,    \* the packets a disc stores, [id, txq], by disc
  requeued,   \* m_requeued: <<>> or <<item>>
  running,    \* m_running
  nPackets,   \* m_nPackets
  received, dropped, requeues,   \* m_nTotal{Received,Dropped,Requeued}Packets
  dequeued,   \* history: packets DoDequeue has returned
  exhausted,  \* history: the last Run ended because its quota was spent
  stack,      \* calls of Run in progress: [disc, left, sending, txq, sent]
  txLen, stopped, lost,          \* the device, by transmission queue
  handed      \* history: the last item of each disc given to the device

discVars == <<waiting, requeued, running, nPackets, received, dropped, requeues,
              dequeued, exhausted>>
devVars == <<txLen, stopped, lost, handed>>
vars == <<discVars, stack, devVars>>

Packet == [id : Nat, txq : TxQueue]

(* out: the item was the out-th that its disc's DoDequeue returned; headers *)
(* counts the calls of AddHeader, which asserts that it is the first.       *)
Item == [txq : TxQueue, out : Nat, headers : Nat]
Frame == [disc : Disc, left : 0 .. Quota, sending : BOOLEAN, txq : TxQueue, sent : Nat]

(* The counters are unsigned in the code: none of them goes below 0.       *)
TypeOK ==
  /\ waiting \in [Disc -> SUBSET Packet]
  /\ requeued \in [Disc -> Seq(Item)] /\ \A d \in Disc : Len(requeued[d]) <= 1
  /\ running \in [Disc -> BOOLEAN]
  /\ nPackets \in [Disc -> Nat]
  /\ {received, dropped, requeues, dequeued} \subseteq [Disc -> Nat]
  /\ exhausted \in [Disc -> BOOLEAN]
  /\ stack \in Seq(Frame)
  /\ txLen \in [TxQueue -> Nat]
  /\ stopped \in [TxQueue -> BOOLEAN]
  /\ lost \in [TxQueue -> Nat]
  /\ handed \in [Disc -> [out : Nat, headers : Nat]]

Init ==
  /\ waiting = [d \in Disc |-> {}]
  /\ requeued = [d \in Disc |-> <<>>]
  /\ running = [d \in Disc |-> FALSE]
  /\ nPackets = [d \in Disc |-> 0]
  /\ received = [d \in Disc |-> 0]
  /\ dropped = [d \in Disc |-> 0]
  /\ requeues = [d \in Disc |-> 0]
  /\ dequeued = [d \in Disc |-> 0]
  /\ exhausted = [d \in Disc |-> FALSE]
  /\ stack = <<>>
  /\ txLen = [t \in TxQueue |-> 0]
  /\ stopped = [t \in TxQueue |-> FALSE]
  /\ lost = [t \in TxQueue |-> 0]
  /\ handed = [d \in Disc |-> [out |-> 0, headers |-> 1]]

----------------------------------------------------------------------------
(* The stack of calls                                                      *)

MultiQueue == Cardinality(TxQueue) > 1

Top == stack[Len(stack)]
Push(frame) == stack' = Append(stack, frame)
SetTop(frame) == stack' = [stack EXCEPT ![Len(stack)] = frame]
Pop == SubSeq(stack, 1, Len(stack) - 1)

(* the call of Run on top of the stack is at its "while (Restart ())"      *)
Runs(d) == stack # <<>> /\ Top.disc = d /\ ~Top.sending

(* Run begins, unless the disc is already running, further down the stack. *)
UnguardedRunBegin(d, t) == \* mutant: a running disc is run again
  /\ running' = [running EXCEPT ![d] = TRUE]
  /\ exhausted' = [exhausted EXCEPT ![d] = FALSE]
  /\ Push([disc |-> d, left |-> Quota, sending |-> FALSE, txq |-> t, sent |-> 0])
RunBegin(d, t) ==
  IF running[d] THEN UNCHANGED <<running, exhausted, stack>>
  ELSE /\ running' = [running EXCEPT ![d] = TRUE]
       /\ exhausted' = [exhausted EXCEPT ![d] = FALSE]
       /\ Push([disc |-> d, left |-> Quota, sending |-> FALSE, txq |-> t, sent |-> 0])

StuckRunEnd(d, spent) == \* mutant: only the exit by quota resets m_running
  /\ running' = [running EXCEPT ![d] = ~spent]
  /\ exhausted' = [exhausted EXCEPT ![d] = spent]
  /\ stack' = Pop
RunEnd(d, spent) ==
  /\ running' = [running EXCEPT ![d] = FALSE]
  /\ exhausted' = [exhausted EXCEPT ![d] = spent]
  /\ stack' = Pop

----------------------------------------------------------------------------
(* A packet comes down from the IP layer: Enqueue, then Run.  DoEnqueue    *)
(* may drop the packet, or make room for it by dropping others.            *)
Send(t) ==
  LET d == DiscOf[t]
      offered == waiting[d] \cup {[id |-> received[d] + 1, txq |-> t]}
  IN /\ stack = <<>>
     /\ received[d] < MaxArrivals
     /\ received' = [received EXCEPT ![d] = @ + 1]
     /\ \E discarded \in SUBSET offered :
          /\ Cardinality(offered \ discarded) <= DiscLimit
          /\ waiting' = [waiting EXCEPT ![d] = offered \ discarded]
          /\ nPackets' = [nPackets EXCEPT ![d] = @ + 1 - Cardinality(discarded)]
          /\ dropped' = [dropped EXCEPT ![d] = @ + Cardinality(discarded)]
     /\ RunBegin(d, t)
     /\ UNCHANGED <<requeued, requeues, dequeued, devVars>>

(* DequeuePacket finds a requeued packet.                                  *)
HasRequeued(d) == requeued[d] # <<>>

\* mutants: a stopped single queue is not looked at; nor is a requeued item
EagerAsks(d) == ~HasRequeued(d)
ForgetfulAsks(d) == MultiQueue \/ \E t \in TxQueue : ~stopped[t]

(* DequeuePacket asks DoDequeue.                                           *)
Asks(d) == ~HasRequeued(d) /\ (MultiQueue \/ \E t \in TxQueue : ~stopped[t])

(* Restart returns false without an item.                                  *)
NothingToSend(d) ==
  /\ Runs(d)
  /\ IF HasRequeued(d) THEN stopped[Head(requeued[d]).txq] ELSE ~Asks(d)
  /\ RunEnd(d, FALSE)
  /\ UNCHANGED <<waiting, requeued, nPackets, received, dropped, requeues, dequeued,
                 devVars>>

(* DoDequeue drops all that is stored and returns 0.                       *)
DequeueNothing(d) ==
  /\ Runs(d) /\ Asks(d)
  /\ waiting' = [waiting EXCEPT ![d] = {}]
  /\ nPackets' = [nPackets EXCEPT ![d] = @ - Cardinality(waiting[d])]
  /\ dropped' = [dropped EXCEPT ![d] = @ + Cardinality(waiting[d])]
  /\ RunEnd(d, FALSE)
  /\ UNCHANGED <<requeued, received, requeues, dequeued, devVars>>

(* NetDevice::Send (external): the packet is stored or lost, and the queue *)
(* is stopped when it is full.                                             *)
DeviceSend(d, item) ==
  LET t == item.txq
      full == txLen[t] >= TxLimit
  IN /\ txLen' = IF full THEN txLen ELSE [txLen EXCEPT ![t] = @ + 1]
     /\ lost' = IF full THEN [lost EXCEPT ![t] = @ + 1] ELSE lost
     /\ stopped' = [stopped EXCEPT ![t] = FlowControl /\ txLen'[t] >= TxLimit]
     /\ handed' = [handed EXCEPT ![d] = [out |-> item.out, headers |-> item.headers]]

(* stock counts what the disc holds without the item.                      *)
UncountedRequeue(d, item, stock) == \* mutant: the item is not counted again
  /\ requeued' = [requeued EXCEPT ![d] = <<item>>]
  /\ nPackets' = [nPackets EXCEPT ![d] = stock]
  /\ requeues' = [requeues EXCEPT ![d] = @ + 1]
  /\ RunEnd(d, FALSE)
  /\ UNCHANGED devVars
Requeue(d, item, stock) ==
  /\ requeued' = [requeued EXCEPT ![d] = <<item>>]
  /\ nPackets' = [nPackets EXCEPT ![d] = stock + 1]
  /\ requeues' = [requeues EXCEPT ![d] = @ + 1]
  /\ RunEnd(d, FALSE)
  /\ UNCHANGED devVars

HandOver(d, item, stock) ==
  /\ requeued' = [requeued EXCEPT ![d] = <<>>]
  /\ nPackets' = [nPackets EXCEPT ![d] = stock]
  /\ SetTop([disc |-> d, left |-> Top.left, sending |-> TRUE,
             txq |-> item.txq, sent |-> Top.sent + 1])
  /\ DeviceSend(d, item)
  /\ UNCHANGED <<requeues, running, exhausted>>

HeedlessTransmit(d, item, stock) == HandOver(d, item, stock) \* mutant
Transmit(d, item, stock) ==
  IF stopped[item.txq] THEN Requeue(d, item, stock) ELSE HandOver(d, item, stock)

AddHeader(item) == [item EXCEPT !.headers = @ + 1]

(* Restart with the requeued item                                          *)
RestartRequeued(d) ==
  /\ Runs(d) /\ HasRequeued(d)
  /\ ~stopped[Head(requeued[d]).txq]
  /\ Transmit(d, Head(requeued[d]), nPackets[d] - 1)
  /\ UNCHANGED <<waiting, received, dropped, dequeued>>

(* Restart with an item that DoDequeue returns, some others being dropped  *)
(* on the way; the item gets its header.                                   *)
RestartDequeued(d) ==
  /\ Runs(d) /\ Asks(d)
  /\ \E p \in waiting[d] : \E discarded \in SUBSET (waiting[d] \ {p}) :
       /\ waiting' = [waiting EXCEPT ![d] = @ \ (discarded \cup {p})]
       /\ dropped' = [dropped EXCEPT ![d] = @ + Cardinality(discarded)]
       /\ dequeued' = [dequeued EXCEPT ![d] = @ + 1]
       /\ Transmit(d, AddHeader([txq |-> p.txq, out |-> dequeued[d] + 1, headers |-> 0]),
                   nPackets[d] - Cardinality(discarded) - 1)
  /\ UNCHANGED received

LateSendReturns(d) == \* mutant: off by one
  /\ stack # <<>> /\ Top.disc = d /\ Top.sending
  /\ LET goesOn == nPackets[d] # 0 /\ ~stopped[Top.txq]
         left == Top.left - 1
     IN IF goesOn /\ left >= 0
        THEN /\ SetTop([Top EXCEPT !.sending = FALSE, !.left = left])
             /\ UNCHANGED <<running, exhausted>>
        ELSE RunEnd(d, goesOn)
  /\ UNCHANGED <<waiting, requeued, nPackets, received, dropped, requeues, dequeued,
                 devVars>>

(* NetDevice::Send returns: the rest of Transmit, and of Run's loop body.  *)
SendReturns(d) ==
  /\ stack # <<>> /\ Top.disc = d /\ Top.sending
  /\ LET goesOn == nPackets[d] # 0 /\ ~stopped[Top.txq]
         left == Top.left - 1
     IN IF goesOn /\ left > 0
        THEN /\ SetTop([Top EXCEPT !.sending = FALSE, !.left = left])
             /\ UNCHANGED <<running, exhausted>>
        ELSE RunEnd(d, goesOn)
  /\ UNCHANGED <<waiting, requeued, nPackets, received, dropped, requeues, dequeued,
                 devVars>>

(* External: the device transmits a packet, on its own time or within      *)
(* NetDevice::Send; a stopped queue that has drained is woken, which runs  *)
(* its disc.                                                               *)
DeviceTransmits(t) ==
  /\ stack # <<>> => Top.sending
  /\ txLen[t] > 0
  /\ txLen' = [txLen EXCEPT ![t] = @ - 1]
  /\ IF stopped[t] /\ txLen'[t] <= WakeAt
     THEN /\ stopped' = [stopped EXCEPT ![t] = FALSE]
          /\ RunBegin(DiscOf[t], t)
     ELSE UNCHANGED <<stopped, running, exhausted, stack>>
  /\ UNCHANGED <<waiting, requeued, nPackets, received, dropped, requeues, dequeued,
                 lost, handed>>

RunStep ==
  \E d \in Disc :
    \/ NothingToSend(d)
    \/ DequeueNothing(d)
    \/ RestartRequeued(d)
    \/ RestartDequeued(d)
    \/ SendReturns(d)

Next ==
  \/ \E t \in TxQueue : Send(t) \/ DeviceTransmits(t)
  \/ RunStep

(* A call of Run in progress goes on, and the device keeps transmitting.   *)
Spec ==
  /\ Init /\ [][Next]_vars
  /\ WF_vars(RunStep) /\ \A t \in TxQueue : WF_vars(DeviceTransmits(t))

----------------------------------------------------------------------------
(* One call of Run at a time works on a disc, although waking a queue in   *)
(* the middle of NetDevice::Send calls Run again, for it or for another.   *)
RunOnce ==
  /\ \A i, j \in 1 .. Len(stack) : stack[i].disc = stack[j].disc => i = j
  /\ \A d \in Disc : running[d] <=> \E i \in 1 .. Len(stack) : stack[i].disc = d

(* A disc's count is what it stores and what it has requeued, and every    *)
(* packet it received is one of those, dropped, or in the device's hands.  *)
(* The count goes up and down in Enqueue, Drop, Dequeue, DequeuePacket and *)
(* Requeue.                                                                *)
Accounting ==
  \A d \in Disc :
    /\ nPackets[d] = Cardinality(waiting[d]) + Len(requeued[d])
    /\ received[d] = nPackets[d] + dropped[d] + handed[d].out

(* The device gets the items in the order in which DoDequeue returned them *)
(* and each of them once, with one header, whatever was requeued between.  *)
InOrderStep ==
  \A d \in Disc : handed'[d] # handed[d] =>
    /\ handed'[d].out = handed[d].out + 1
    /\ handed'[d].headers = 1

(* InOrderStep of every step.                                              *)
InOrder == [][InOrderStep]_vars

(* When no code runs, an item that is kept back waits for a queue that is  *)
(* stopped and will be woken; packets that are stored wait for that too,   *)
(* unless the last Run of their disc spent its quota: then they wait for   *)
(* the next arrival, because netif_schedule is still a todo.               *)
NoStall ==
  stack = <<>> =>
    \A d \in Disc :
      /\ HasRequeued(d) => stopped[Head(requeued[d]).txq]
      /\ nPackets[d] > 0 => exhausted[d] \/ \E t \in TxQueue : DiscOf[t] = d /\ stopped[t]

(* A Run gives the device at most as many packets as its quota.            *)
QuotaRespected == \A i \in 1 .. Len(stack) : stack[i].sent <= Quota

(* "Packets may only be requeued when the underlying device is multi-queue *)
(* and supports flow control", although it is the device that stops and    *)
(* wakes its queues, between the two looks that the code takes at them.    *)
RequeuesNeedBoth == (\E d \in Disc : requeues[d] > 0) => MultiQueue /\ FlowControl

(* A device with flow control never has to drop what a disc gives it.      *)
NoOverflow == FlowControl => \A t \in TxQueue : lost[t] = 0

(* A disc that has packets gets rid of all of them, or spends its quota:   *)
(* no wake is lost between a queue that stops and the disc that waits.     *)
Drains == \A d \in Disc : nPackets[d] > 0 ~> nPackets[d] = 0 \/ exhausted[d]
=============================================================================
