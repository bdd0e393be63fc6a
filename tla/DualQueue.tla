----------------------------- MODULE DualQueue -----------------------------
(***************************************************************************)
(* What the five L4S queue discs of this repository (L4SPi2, L4SCRED,      *)
(* L4SMyPie, DQMyPie, DQRED) have in common: the base-class counters of    *)
(* QueueDisc, two DropTail internal queues (0 for L4S, 1 for Classic) and, *)
(* beside each, a std::queue of arrival stamps that the disc pushes and    *)
(* pops itself.  Each disc is a module that EXTENDS this one and builds    *)
(* its handlers from the operators below.                                  *)
(*                                                                         *)
(* Data abstraction: every packet has the same size, so byte thresholds    *)
(* are thresholds on the number of packets; time is counted in ticks.      *)
(***************************************************************************)
EXTENDS Integers, Sequences

CONSTANTS
  QueueLimit,  \* m_queueLimit, on the two internal queues together
  Capacity,    \* MaxPackets of internal queue 0 and of internal queue 1
  MaxArrivals, \* bound of the model: packets that arrive
  MaxTime      \* bound of the model: ticks that pass

L4S == 0
Classic == 1
Band == {L4S, Classic}

(* CheckConfig looks at internal queue 1 alone (and only when m_mode, which *)
(* no constructor sets, happens to be QUEUE_MODE_PACKETS); the simulations *)
(* of my-sims configure both queues with the disc's own limit.             *)
CheckConfig == Capacity[Classic] >= QueueLimit
ASSUME LimitAssumption == QueueLimit \in Nat \ {0}
ASSUME CapacityAssumption ==
  /\ Capacity \in [Band -> Nat]
  /\ CheckConfig
  /\ Capacity[L4S] >= QueueLimit
ASSUME BoundsAssumption == MaxArrivals \in Nat /\ MaxTime \in Nat

Ecn == {"NotECT", "ECT0", "ECT1", "CE"}
(* from and arrived are history: the codepoint and the time of arrival.     *)
Packet == [id : Nat, from : Ecn, ecn : Ecn, arrived : Nat]
None == [id |-> 0, from |-> "NotECT", ecn |-> "NotECT", arrived |-> 0]

VARIABLES
  now,       \* Simulator::Now ()
  q,         \* the internal queues, by band
  tsq,       \* m_tsqL4S and m_tsqClassic, by band
  pc,        \* "idle", "dequeue" while DoDequeue's loop runs, or "crashed"
  reply,     \* what the last DoDequeue returned
  received,  \* m_nTotalReceivedPackets
  nPackets,  \* m_nPackets
  dropped,   \* m_nTotalDroppedPackets
  stats,     \* m_stats of the disc
  sent       \* history: packets handed to the caller of Dequeue

dualVars == <<now, q, tsq, pc, reply, received, nPackets, dropped, stats, sent>>

(* The counters are unsigned in the code: none of them goes below 0.       *)
DualTypeOK ==
  /\ now \in Nat
  /\ q \in [Band -> Seq(Packet)]
  /\ tsq \in [Band -> Seq(Nat)]
  /\ pc \in {"idle", "dequeue", "crashed"}
  /\ reply \in Packet
  /\ received \in Nat
  /\ nPackets \in Nat
  /\ dropped \in Nat
  /\ stats \in [forcedDrop : Nat, unforcedDrop : Nat, mark : [Band -> Nat]]
  /\ sent \in Nat

DualInit ==
  /\ now = 0
  /\ q = [b \in Band |-> <<>>]
  /\ tsq = [b \in Band |-> <<>>]
  /\ pc = "idle"
  /\ reply = None
  /\ received = 0
  /\ nPackets = 0
  /\ dropped = 0
  /\ stats = [forcedDrop |-> 0, unforcedDrop |-> 0, mark |-> [b \in Band |-> 0]]
  /\ sent = 0

----------------------------------------------------------------------------
(* Helpers                                                                 *)

Larger(x, y) == IF x > y THEN x ELSE y

BandOfEct1Only(ecn) == IF ecn = "ECT1" THEN L4S ELSE Classic \* mutant
BandOf(ecn) == IF ecn \in {"ECT1", "CE"} THEN L4S ELSE Classic

(* Ipv4QueueDiscItem::Mark succeeds on the two ECT codepoints only.        *)
Markable(p) == p.ecn \in {"ECT0", "ECT1"}
Marked(p) == [p EXCEPT !.ecn = "CE"]

Arrival(ecn) == [id |-> received + 1, from |-> ecn, ecn |-> ecn, arrived |-> now]

(* now - front (), and 0 when the stamp queue is empty                     *)
QDelay(b) == IF tsq[b] = <<>> THEN 0 ELSE now - Head(tsq[b])

Pop(s) == IF s = <<>> THEN <<>> ELSE Tail(s)

BothEmpty == \A b \in Band : q[b] = <<>>
OverLimit == Len(q[L4S]) + Len(q[Classic]) >= QueueLimit

----------------------------------------------------------------------------
(* Pieces of DoEnqueue, with QueueDisc::Enqueue's counting around them     *)

CanArrive == pc = "idle" /\ received < MaxArrivals

(* QueueDisc::Drop of a packet that Enqueue has just counted               *)
DropArrival(statsAfter) ==
  /\ received' = received + 1
  /\ dropped' = dropped + 1
  /\ stats' = statsAfter
  /\ UNCHANGED <<now, q, tsq, pc, reply, nPackets, sent>>

\* mutants: the stamp is pushed before the limit test; the drop is not counted
StampedForcedDrop ==
  /\ tsq' = [tsq EXCEPT ![L4S] = Append(@, now)]
  /\ received' = received + 1
  /\ dropped' = dropped + 1
  /\ stats' = [stats EXCEPT !.forcedDrop = @ + 1]
  /\ UNCHANGED <<now, q, pc, reply, nPackets, sent>>
UncountedForcedDrop == DropArrival(stats)

ForcedDrop == DropArrival([stats EXCEPT !.forcedDrop = @ + 1])

(* The stamp is pushed before the internal queue is asked; a DropTail      *)
(* queue that is full reports the packet to QueueDisc::Drop.               *)
Store(b, p, statsAfter) ==
  LET fits == Len(q[b]) < Capacity[b]
  IN /\ tsq' = [tsq EXCEPT ![b] = Append(@, now)]
     /\ q' = IF fits THEN [q EXCEPT ![b] = Append(@, p)] ELSE q
     /\ nPackets' = IF fits THEN nPackets + 1 ELSE nPackets
     /\ dropped' = IF fits THEN dropped ELSE dropped + 1
     /\ received' = received + 1
     /\ stats' = statsAfter
     /\ UNCHANGED <<now, pc, reply, sent>>

(* A disc that decides at enqueue marks, drops or stores the packet; the   *)
(* discs differ in what they count for the first two.                      *)
Admit(b, p, signal, statsIfMarked, statsIfDropped) ==
  IF ~signal THEN Store(b, p, stats)
  ELSE IF Markable(p) THEN Store(b, Marked(p), statsIfMarked)
       ELSE DropArrival(statsIfDropped)

----------------------------------------------------------------------------
(* Pieces of DoDequeue, with QueueDisc::Dequeue's counting around them     *)

\* mutant: the packet is dequeued and Drop is not called
SilentDiscard(b) ==
  /\ q' = [q EXCEPT ![b] = Tail(@)]
  /\ tsq' = [tsq EXCEPT ![b] = Pop(@)]
  /\ nPackets' = nPackets - 1
  /\ UNCHANGED <<now, pc, reply, received, dropped, stats, sent>>

(* the head of band b leaves and is dropped; the loop goes on              *)
Discard(b) ==
  /\ q' = [q EXCEPT ![b] = Tail(@)]
  /\ tsq' = [tsq EXCEPT ![b] = Pop(@)]
  /\ nPackets' = nPackets - 1
  /\ dropped' = dropped + 1
  /\ stats' = [stats EXCEPT !.unforcedDrop = @ + 1]
  /\ UNCHANGED <<now, pc, reply, received, sent>>

(* the head of band b leaves as packet p and is returned                   *)
Deliver(b, p, statsAfter) ==
  /\ q' = [q EXCEPT ![b] = Tail(@)]
  /\ tsq' = [tsq EXCEPT ![b] = Pop(@)]
  /\ nPackets' = nPackets - 1
  /\ reply' = p
  /\ sent' = sent + 1
  /\ pc' = "idle"
  /\ stats' = statsAfter
  /\ UNCHANGED <<now, received, dropped>>

(* One round of a loop that decides at dequeue: drop outright (purge), try *)
(* to mark (signal) and drop what cannot be marked, or deliver as it is.   *)
Settle(b, purge, signal) ==
  LET p == Head(q[b])
  IN IF purge \/ (signal /\ ~Markable(p))
     THEN Discard(b)
     ELSE IF signal
          THEN Deliver(b, Marked(p), [stats EXCEPT !.mark[b] = @ + 1])
          ELSE Deliver(b, p, stats)

StartDequeue ==
  /\ pc = "idle"
  /\ pc' = "dequeue"
  /\ UNCHANGED <<now, q, tsq, reply, received, nPackets, dropped, stats, sent>>

(* DoDequeue returns 0                                                     *)
ReturnNull ==
  /\ reply' = None
  /\ pc' = "idle"
  /\ UNCHANGED <<now, q, tsq, received, nPackets, dropped, stats, sent>>

(* a null item is dereferenced                                             *)
Crash ==
  /\ pc' = "crashed"
  /\ UNCHANGED <<now, q, tsq, reply, received, nPackets, dropped, stats, sent>>

(* The simulator's clock moves on to the next tick; an event due now       *)
(* (the times in "events") runs first.                                     *)
Tick(events) ==
  /\ pc = "idle"
  /\ now < MaxTime
  /\ \A t \in events : now < t
  /\ now' = now + 1
  /\ UNCHANGED <<q, tsq, pc, reply, received, nPackets, dropped, stats, sent>>

----------------------------------------------------------------------------
(* Properties of every disc                                                *)

Mirrors(stamps, packets) ==
  /\ Len(stamps) = Len(packets)
  /\ \A i \in 1 .. Len(packets) : stamps[i] = packets[i].arrived

(* The stamp queue mirrors its internal queue: as many stamps as packets,  *)
(* and stamp i is the arrival time of packet i.  DoEnqueue pushes a stamp  *)
(* before it knows whether the packet is stored and DoDequeue pops it in   *)
(* each of its branches; every delay the discs compute relies on this, and *)
(* the round-robin discs dereference the item of the band whose stamp      *)
(* queue is not empty.                                                     *)
Lockstep == pc # "crashed" /\ \A b \in Band : Mirrors(tsq[b], q[b])

(* Every packet counted in is counted out once or still stored: the base   *)
(* class counts on entry, on Drop (also from the internal queue's drop     *)
(* callback and for packets dropped by a dequeue) and on return.           *)
Accounting ==
  /\ nPackets = Len(q[L4S]) + Len(q[Classic])
  /\ nPackets <= QueueLimit
  /\ received = nPackets + dropped + sent

(* The disc's statistics tell every drop, and tell it once: over the queue *)
(* limit is forced, any other drop is "early probability" (unforced).      *)
StatsAccounting == dropped = stats.forcedDrop + stats.unforcedDrop

(* what TwoBandQueue knows of a packet                                     *)
Plain(p) == [id |-> p.id, from |-> p.from, ecn |-> p.ecn]

Promise == INSTANCE TwoBandQueue WITH
  band <- [b \in Band |-> [i \in 1 .. Len(q[b]) |-> Plain(q[b][i])]],
  arrivals <- received,
  answer <- Plain(reply)

(* Every disc implements the bounded two-band queue of TwoBandQueue: from  *)
(* the handlers of its controller, its scheduler and its loops the traffic *)
(* control layer sees arrivals accepted or refused and heads that leave.   *)
KeepsPromise == Promise!Spec
=============================================================================
