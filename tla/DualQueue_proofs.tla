-------------------------- MODULE DualQueue_proofs --------------------------
(***************************************************************************)
(* The inductive invariant that the five discs share, and one lemma for    *)
(* each piece of a handler in DualQueue saying that the piece preserves it.*)
(* The theorems about a disc cite these lemmas action by action.           *)
(***************************************************************************)
EXTENDS RoundRobin, SequenceTheorems, WellFoundedInduction, TLAPS

Stats == [forcedDrop : Nat, unforcedDrop : Nat, mark : [Band -> Nat]]

(* The packets are stored in the order in which they arrived, and none has *)
(* arrived after time t.                                                   *)
Ordered(packets, t) ==
  /\ \A i, j \in 1 .. Len(packets) : i <= j => packets[i].arrived <= packets[j].arrived
  /\ \A i \in 1 .. Len(packets) : packets[i].arrived <= t

ArrivalOrder == \A b \in Band : Ordered(q[b], now)

(* Lockstep needs Accounting and the capacities: what could break it is an *)
(* internal queue that refuses the packet whose stamp has been pushed.     *)
DualInv == DualTypeOK /\ Lockstep /\ Accounting /\ ArrivalOrder

----------------------------------------------------------------------------
(* Sequences of packets and of stamps                                      *)

LEMMA PacketField == \A p \in Packet : p.arrived \in Nat
  BY DEF Packet

LEMMA ElementType ==
  ASSUME NEW s \in Seq(Packet), NEW i \in 1 .. Len(s)
  PROVE  s[i] \in Packet /\ s[i].arrived \in Nat
  BY PacketField

LEMMA AppendMirrors ==
  ASSUME NEW t \in Seq(Nat), NEW s \in Seq(Packet), Mirrors(t, s),
         NEW n \in Nat, NEW p \in Packet, p.arrived = n
  PROVE  Mirrors(Append(t, n), Append(s, p))
  BY DEF Mirrors

LEMMA TailMirrors ==
  ASSUME NEW t \in Seq(Nat), NEW s \in Seq(Packet), Mirrors(t, s), s # <<>>
  PROVE  t # <<>> /\ Mirrors(Pop(t), Tail(s)) /\ Head(t) = Head(s).arrived
  BY DEF Mirrors, Pop

LEMMA AppendOrdered ==
  ASSUME NEW s \in Seq(Packet), NEW n \in Nat, Ordered(s, n),
         NEW p \in Packet, p.arrived = n
  PROVE  Ordered(Append(s, p), n)
<1> DEFINE a == Append(s, p)
<1>1. a \in Seq(Packet) /\ Len(a) = Len(s) + 1 /\ a[Len(s) + 1] = p
  OBVIOUS
<1>2. \A i \in 1 .. Len(s) : a[i] = s[i]
  OBVIOUS
<1>3. \A i \in 1 .. Len(a) : a[i].arrived \in Nat /\ a[i].arrived <= n
  BY <1>1, <1>2, ElementType DEF Ordered
<1>4. ASSUME NEW i \in 1 .. Len(a), NEW j \in 1 .. Len(a), i <= j
      PROVE  a[i].arrived <= a[j].arrived
  <2>1. CASE j = Len(s) + 1
    BY <1>1, <1>3, <2>1
  <2>2. CASE j # Len(s) + 1
    <3>1. i \in 1 .. Len(s) /\ j \in 1 .. Len(s)
      BY <1>1, <1>4, <2>2
    <3> QED
      BY <3>1, <1>2, <1>4 DEF Ordered
  <2> QED
    BY <2>1, <2>2
<1> QED
  BY <1>3, <1>4 DEF Ordered

LEMMA TailOrdered ==
  ASSUME NEW s \in Seq(Packet), NEW n \in Nat, Ordered(s, n), s # <<>>
  PROVE  Ordered(Tail(s), n)
<1>1. /\ Len(Tail(s)) = Len(s) - 1
      /\ \A i \in 1 .. Len(Tail(s)) : i + 1 \in 1 .. Len(s) /\ Tail(s)[i] = s[i + 1]
  OBVIOUS
<1>2. ASSUME NEW i \in 1 .. Len(Tail(s)) PROVE Tail(s)[i].arrived <= n
  BY <1>1 DEF Ordered
<1>3. ASSUME NEW i \in 1 .. Len(Tail(s)), NEW j \in 1 .. Len(Tail(s)), i <= j
      PROVE  Tail(s)[i].arrived <= Tail(s)[j].arrived
  <2>1. i + 1 <= j + 1
    BY <1>1, <1>3
  <2> QED
    BY <2>1, <1>1 DEF Ordered
<1> QED
  BY <1>2, <1>3 DEF Ordered

LEMMA LaterOrdered ==
  ASSUME NEW s \in Seq(Packet), NEW n \in Nat, Ordered(s, n), NEW m \in Nat, n <= m
  PROVE  Ordered(s, m)
<1>1. ASSUME NEW i \in 1 .. Len(s) PROVE s[i].arrived <= m
  <2>1. s[i].arrived \in Nat /\ s[i].arrived <= n
    BY ElementType DEF Ordered
  <2> QED
    BY <2>1
<1> QED
  BY <1>1 DEF Ordered

----------------------------------------------------------------------------
(* The shared invariant                                                    *)

LEMMA BandType ==
  ASSUME DualTypeOK, NEW b \in Band
  PROVE  q[b] \in Seq(Packet) /\ tsq[b] \in Seq(Nat)
  BY DEF DualTypeOK

(* The statistics stay naturals when one of them is incremented.           *)
LEMMA StatsType ==
  ASSUME NEW st \in Stats
  PROVE  /\ [st EXCEPT !.forcedDrop = @ + 1] \in Stats
         /\ [st EXCEPT !.unforcedDrop = @ + 1] \in Stats
         /\ \A b \in Band : [st EXCEPT !.mark[b] = @ + 1] \in Stats
<1>1. st.forcedDrop + 1 \in Nat /\ st.unforcedDrop + 1 \in Nat
  <2>1. st.forcedDrop \in Nat /\ st.unforcedDrop \in Nat
    BY DEF Stats
  <2> QED
    BY <2>1
<1>2. [st EXCEPT !.forcedDrop = st.forcedDrop + 1] \in Stats
  BY <1>1 DEF Stats
<1>3. [st EXCEPT !.unforcedDrop = st.unforcedDrop + 1] \in Stats
  BY <1>1 DEF Stats
<1>4. ASSUME NEW b \in Band PROVE [st EXCEPT !.mark[b] = @ + 1] \in Stats
  <2>1. st.mark \in [Band -> Nat] /\ st.mark[b] \in Nat
    BY DEF Stats
  <2>2. [st.mark EXCEPT ![b] = st.mark[b] + 1] \in [Band -> Nat]
    BY <2>1
  <2>3. [st EXCEPT !.mark = [st.mark EXCEPT ![b] = st.mark[b] + 1]] \in Stats
    BY <2>2 DEF Stats
  <2> QED
    BY <2>3
<1> QED
  BY <1>2, <1>3, <1>4

LEMMA BandValues == L4S \in Band /\ Classic \in Band
  BY DEF Band, L4S, Classic

LEMMA NoneType == None \in Packet
  BY DEF None, Packet, Ecn

(* The initial state satisfies the invariant.                              *)
LEMMA DualInitInv == DualInit => DualInv
<1> SUFFICES ASSUME DualInit PROVE DualInv
  OBVIOUS
<1>1. DualTypeOK
  BY NoneType DEF DualInit, DualTypeOK
<1>2. Lockstep
  BY DEF DualInit, Lockstep, Mirrors
<1>3. Accounting
  BY LimitAssumption DEF DualInit, Accounting, Band, L4S, Classic
<1>4. ArrivalOrder
  BY DEF DualInit, ArrivalOrder, Ordered
<1> QED
  BY <1>1, <1>2, <1>3, <1>4 DEF DualInv

(* A step that changes neither the queues nor the counters.                *)
LEMMA StutterInv ==
  ASSUME DualInv, UNCHANGED <<q, tsq, received, nPackets, dropped, stats, sent>>,
         now' \in Nat, now' >= now, pc' \in {"idle", "dequeue"}, reply' \in Packet
  PROVE  DualInv'
<1>1. DualTypeOK'
  BY DEF DualInv, DualTypeOK
<1>2. Lockstep'
  BY DEF DualInv, Lockstep
<1>3. Accounting'
  BY DEF DualInv, Accounting, DualTypeOK, Band, L4S, Classic
<1>4. ArrivalOrder'
  <2> SUFFICES ASSUME NEW b \in Band PROVE Ordered(q[b], now')
    BY DEF ArrivalOrder
  <2>1. q[b] \in Seq(Packet) /\ now \in Nat /\ Ordered(q[b], now)
    BY BandType DEF DualInv, DualTypeOK, ArrivalOrder
  <2> QED
    BY <2>1, LaterOrdered
<1> QED
  BY <1>1, <1>2, <1>3, <1>4 DEF DualInv

(* A packet dropped on arrival is counted in and out.                      *)
LEMMA DropArrivalInv ==
  ASSUME DualInv, NEW st \in Stats, DropArrival(st)
  PROVE  DualInv'
<1>1. DualTypeOK'
  BY DEF DropArrival, DualInv, DualTypeOK, Stats
<1>2. Lockstep'
  BY DEF DropArrival, DualInv, Lockstep
<1>3. Accounting'
  BY DEF DropArrival, DualInv, Accounting, DualTypeOK, Band, L4S, Classic
<1>4. ArrivalOrder'
  BY DEF DropArrival, DualInv, ArrivalOrder
<1> QED
  BY <1>1, <1>2, <1>3, <1>4 DEF DualInv

(* Below the limit the internal queue has room, whatever the band: the     *)
(* stamp that has just been pushed belongs to a packet that is stored.     *)
LEMMA Fits ==
  ASSUME DualTypeOK, ~OverLimit, NEW b \in Band
  PROVE  Len(q[b]) < Capacity[b]
<1>1. Capacity[b] \in Nat /\ Capacity[b] >= QueueLimit /\ QueueLimit \in Nat
  BY CapacityAssumption, LimitAssumption DEF CheckConfig, Band
<1>2. CASE b = 0
  BY <1>1, <1>2 DEF DualTypeOK, OverLimit, Band, L4S, Classic
<1>3. CASE b = 1
  BY <1>1, <1>3 DEF DualTypeOK, OverLimit, Band, L4S, Classic
<1> QED
  BY <1>2, <1>3 DEF Band, L4S, Classic

(* One packet more when a packet joins band b, one less when its head goes. *)
LEMMA AppendLengths ==
  ASSUME q \in [Band -> Seq(Packet)], q' \in [Band -> Seq(Packet)], NEW b \in Band,
         NEW p \in Packet, q'[b] = Append(q[b], p), \A c \in Band \ {b} : q'[c] = q[c]
  PROVE  Len(q'[L4S]) + Len(q'[Classic]) = Len(q[L4S]) + Len(q[Classic]) + 1
<1>1. CASE b = 0
  <2>1. q'[0] = Append(q[0], p) /\ q'[1] = q[1]
    BY <1>1 DEF Band, L4S, Classic
  <2>2. Len(q'[0]) = Len(q[0]) + 1 /\ Len(q'[1]) = Len(q[1])
    BY <1>1, <2>1 DEF Band, L4S, Classic
  <2> QED
    BY <2>2 DEF Band, L4S, Classic
<1>2. CASE b = 1
  <2>1. q'[1] = Append(q[1], p) /\ q'[0] = q[0]
    BY <1>2 DEF Band, L4S, Classic
  <2>2. Len(q'[1]) = Len(q[1]) + 1 /\ Len(q'[0]) = Len(q[0])
    BY <1>2, <2>1 DEF Band, L4S, Classic
  <2> QED
    BY <2>2 DEF Band, L4S, Classic
<1> QED
  BY <1>1, <1>2 DEF Band, L4S, Classic

LEMMA TailLengths ==
  ASSUME q \in [Band -> Seq(Packet)], q' \in [Band -> Seq(Packet)], NEW b \in Band,
         q[b] # <<>>, q'[b] = Tail(q[b]), \A c \in Band \ {b} : q'[c] = q[c]
  PROVE  Len(q'[L4S]) + Len(q'[Classic]) = Len(q[L4S]) + Len(q[Classic]) - 1
<1>1. CASE b = 0
  <2>1. q'[0] = Tail(q[0]) /\ q'[1] = q[1]
    BY <1>1 DEF Band, L4S, Classic
  <2>2. Len(q'[0]) = Len(q[0]) - 1 /\ Len(q'[1]) = Len(q[1])
    BY <1>1, <2>1 DEF Band, L4S, Classic
  <2> QED
    BY <2>2 DEF Band, L4S, Classic
<1>2. CASE b = 1
  <2>1. q'[1] = Tail(q[1]) /\ q'[0] = q[0]
    BY <1>2 DEF Band, L4S, Classic
  <2>2. Len(q'[1]) = Len(q[1]) - 1 /\ Len(q'[0]) = Len(q[0])
    BY <1>2, <2>1 DEF Band, L4S, Classic
  <2> QED
    BY <2>2 DEF Band, L4S, Classic
<1> QED
  BY <1>1, <1>2 DEF Band, L4S, Classic

LEMMA StoreInv ==
  ASSUME DualInv, ~OverLimit, NEW b \in Band, NEW p \in Packet, p.arrived = now,
         NEW st \in Stats, Store(b, p, st)
  PROVE  DualInv'
<1>1. /\ tsq' = [tsq EXCEPT ![b] = Append(@, now)]
      /\ q' = [q EXCEPT ![b] = Append(@, p)]
      /\ nPackets' = nPackets + 1
      /\ received' = received + 1
      /\ stats' = st
      /\ UNCHANGED <<now, pc, reply, dropped, sent>>
  BY Fits DEF Store, DualInv
<1>2. ASSUME NEW c \in Band
      PROVE  /\ q[c] \in Seq(Packet) /\ tsq[c] \in Seq(Nat) /\ now \in Nat
             /\ Mirrors(tsq[c], q[c]) /\ Ordered(q[c], now)
  BY BandType DEF DualInv, DualTypeOK, Lockstep, ArrivalOrder
<1>3. DualTypeOK'
  <2>1. q' \in [Band -> Seq(Packet)] /\ tsq' \in [Band -> Seq(Nat)]
    BY <1>1 DEF DualInv, DualTypeOK
  <2> QED
    BY <1>1, <2>1 DEF DualInv, DualTypeOK, Stats
<1>4. ASSUME NEW c \in Band PROVE Mirrors(tsq'[c], q'[c]) /\ Ordered(q'[c], now)
  <2>1. CASE c = b
    <3>1. tsq'[c] = Append(tsq[b], now) /\ q'[c] = Append(q[b], p)
      BY <1>1, <2>1 DEF DualInv, DualTypeOK
    <3> QED
      BY <3>1, <1>2, AppendMirrors, AppendOrdered
  <2>2. CASE c # b
    BY <1>1, <1>2, <2>2 DEF DualInv, DualTypeOK
  <2> QED
    BY <2>1, <2>2
<1>5. Accounting'
  <2>1. Len(q'[L4S]) + Len(q'[Classic]) = Len(q[L4S]) + Len(q[Classic]) + 1
    <3>1. q \in [Band -> Seq(Packet)] /\ q' \in [Band -> Seq(Packet)]
      BY <1>3 DEF DualInv, DualTypeOK
    <3>2. q'[b] = Append(q[b], p) /\ \A c \in Band \ {b} : q'[c] = q[c]
      BY <1>1, <3>1
    <3> QED
      BY <3>1, <3>2, AppendLengths
  <2>2. nPackets' <= QueueLimit
    BY <1>1, LimitAssumption DEF DualInv, DualTypeOK, Accounting, OverLimit, Band, L4S, Classic
  <2>3. nPackets = Len(q[L4S]) + Len(q[Classic]) /\ nPackets' = nPackets + 1
    BY <1>1 DEF DualInv, Accounting
  <2>4. {nPackets, received, dropped, sent} \subseteq Nat /\ q \in [Band -> Seq(Packet)]
    BY DEF DualInv, DualTypeOK
  <2>5. nPackets' = Len(q'[L4S]) + Len(q'[Classic])
    BY <1>3, <2>1, <2>3, <2>4 DEF DualTypeOK, Band, L4S, Classic
  <2>6. received' = nPackets' + dropped' + sent'
    <3>1. /\ received = nPackets + dropped + sent /\ received' = received + 1
          /\ nPackets' = nPackets + 1 /\ dropped' = dropped /\ sent' = sent
      BY <1>1 DEF DualInv, Accounting
    <3> QED
      BY <2>4, <3>1
  <2> QED
    BY <2>2, <2>5, <2>6 DEF Accounting
<1> QED
  BY <1>1, <1>3, <1>4, <1>5 DEF DualInv, Lockstep, ArrivalOrder

(* The head of band b leaves, with its stamp.                              *)
LeavesBand(b) ==
  /\ q[b] # <<>>
  /\ q' = [q EXCEPT ![b] = Tail(@)]
  /\ tsq' = [tsq EXCEPT ![b] = Pop(@)]
  /\ nPackets' = nPackets - 1
  /\ UNCHANGED <<now, received>>

LEMMA LeaveInv ==
  ASSUME DualInv, NEW b \in Band, LeavesBand(b),
         dropped' \in Nat, sent' \in Nat, dropped' + sent' = dropped + sent + 1,
         stats' \in Stats, reply' \in Packet, pc' \in {"idle", "dequeue"}
  PROVE  DualInv'
<1>1. ASSUME NEW c \in Band
      PROVE  /\ q[c] \in Seq(Packet) /\ tsq[c] \in Seq(Nat) /\ now \in Nat
             /\ Mirrors(tsq[c], q[c]) /\ Ordered(q[c], now)
  BY BandType DEF DualInv, DualTypeOK, Lockstep, ArrivalOrder
<1>2. tsq[b] # <<>>
  BY <1>1, TailMirrors DEF LeavesBand
<1>3. q' \in [Band -> Seq(Packet)] /\ tsq' \in [Band -> Seq(Nat)]
  BY <1>2 DEF LeavesBand, Pop, DualInv, DualTypeOK
<1>4. Len(q'[L4S]) + Len(q'[Classic]) = Len(q[L4S]) + Len(q[Classic]) - 1
  <2>1. q \in [Band -> Seq(Packet)]
    BY DEF DualInv, DualTypeOK
  <2>2. q'[b] = Tail(q[b]) /\ \A c \in Band \ {b} : q'[c] = q[c]
    BY <2>1 DEF LeavesBand
  <2> QED
    BY <1>3, <2>1, <2>2, TailLengths DEF LeavesBand
<1>5. nPackets' = Len(q'[L4S]) + Len(q'[Classic])
  <2>1. nPackets' = nPackets - 1 /\ nPackets = Len(q[L4S]) + Len(q[Classic])
    BY DEF LeavesBand, DualInv, Accounting
  <2>2. q \in [Band -> Seq(Packet)]
    BY DEF DualInv, DualTypeOK
  <2> QED
    BY <1>3, <1>4, <2>1, <2>2 DEF Band, L4S, Classic
<1>6. DualTypeOK'
  <2>1. nPackets' \in Nat
    BY <1>3, <1>5 DEF Band, L4S, Classic
  <2> QED
    BY <1>3, <2>1 DEF LeavesBand, DualInv, DualTypeOK, Stats
<1>7. Accounting'
  <2>1. {nPackets, received, dropped, sent} \subseteq Nat
    BY DEF DualInv, DualTypeOK
  <2>2. /\ nPackets' = nPackets - 1 /\ nPackets <= QueueLimit
        /\ received' = received /\ received = nPackets + dropped + sent
    BY DEF LeavesBand, DualInv, Accounting
  <2>3. nPackets' <= QueueLimit /\ received' = nPackets' + dropped' + sent'
    BY <2>1, <2>2, LimitAssumption
  <2> QED
    BY <1>5, <2>3 DEF Accounting
<1>8. ASSUME NEW c \in Band PROVE Mirrors(tsq'[c], q'[c]) /\ Ordered(q'[c], now)
  <2>1. CASE c = b
    <3>1. tsq'[c] = Pop(tsq[b]) /\ q'[c] = Tail(q[b])
      BY <2>1 DEF LeavesBand, DualInv, DualTypeOK
    <3> QED
      BY <3>1, <1>1, TailMirrors, TailOrdered DEF LeavesBand
  <2>2. CASE c # b
    BY <1>1, <2>2 DEF LeavesBand, DualInv, DualTypeOK
  <2> QED
    BY <2>1, <2>2
<1> QED
  BY <1>6, <1>7, <1>8 DEF DualInv, Lockstep, ArrivalOrder, LeavesBand

LEMMA DiscardInv ==
  ASSUME DualInv, pc = "dequeue", NEW b \in Band, q[b] # <<>>, Discard(b)
  PROVE  DualInv'
<1>1. /\ dropped' \in Nat /\ sent' \in Nat /\ dropped' + sent' = dropped + sent + 1
      /\ reply' \in Packet /\ pc' = "dequeue"
  <2>1. dropped \in Nat /\ sent \in Nat /\ reply \in Packet
    BY DEF DualInv, DualTypeOK
  <2>2. dropped' = dropped + 1 /\ sent' = sent /\ reply' = reply /\ pc' = pc
    BY DEF Discard
  <2> QED
    BY <2>1, <2>2
<1>2. stats' \in Stats
  <2>1. stats \in Stats
    BY DEF DualInv, DualTypeOK, Stats
  <2> QED
    BY <2>1, StatsType DEF Discard
<1>3. LeavesBand(b)
  BY DEF Discard, LeavesBand
<1> QED
  BY <1>1, <1>2, <1>3, LeaveInv

LEMMA DeliverInv ==
  ASSUME DualInv, NEW b \in Band, q[b] # <<>>, NEW p \in Packet, NEW st \in Stats,
         Deliver(b, p, st)
  PROVE  DualInv'
<1>1. /\ dropped' \in Nat /\ sent' \in Nat /\ dropped' + sent' = dropped + sent + 1
      /\ reply' \in Packet /\ pc' = "idle" /\ stats' \in Stats
  BY DEF Deliver, DualInv, DualTypeOK
<1>2. LeavesBand(b)
  BY DEF Deliver, LeavesBand
<1> QED
  BY <1>1, <1>2, LeaveInv

LEMMA MarkedType == \A p \in Packet : Marked(p) \in Packet
  BY DEF Marked, Packet, Ecn

LEMMA ArrivalType ==
  ASSUME DualTypeOK, NEW ecn \in Ecn
  PROVE  Arrival(ecn) \in Packet /\ Arrival(ecn).arrived = now /\ BandOf(ecn) \in Band
  BY DEF Arrival, Packet, DualTypeOK, BandOf, Band, L4S, Classic

----------------------------------------------------------------------------
(* What a step of any disc does to the state of DualQueue: one of a few    *)
(* pieces.  "counted" says whether the disc counts each of its drops.      *)

Quiet(st) == st.forcedDrop = stats.forcedDrop /\ st.unforcedDrop = stats.unforcedDrop
Tells(st) ==
  st.forcedDrop + st.unforcedDrop = stats.forcedDrop + stats.unforcedDrop + 1
MaybeMarked(p) == IF Markable(p) THEN {p, Marked(p)} ELSE {p}

Stores ==
  /\ ~OverLimit
  /\ \E ecn \in Ecn, st \in Stats :
       \E p \in MaybeMarked(Arrival(ecn)) : Quiet(st) /\ Store(BandOf(ecn), p, st)
Refuses(counted) == \E st \in Stats : (counted => Tells(st)) /\ DropArrival(st)
Discards == pc = "dequeue" /\ \E b \in Band : q[b] # <<>> /\ Discard(b)
Hands ==
  \E b \in Band, st \in Stats :
    /\ q[b] # <<>> /\ Quiet(st)
    /\ \E p \in MaybeMarked(Head(q[b])) : Deliver(b, p, st)
Returns == BothEmpty /\ ReturnNull
Waits ==
  /\ UNCHANGED <<q, tsq, reply, received, nPackets, dropped, stats, sent>>
  /\ now' \in {now, now + 1} /\ pc' \in {"idle", "dequeue"}

Piece(counted) == Stores \/ Refuses(counted) \/ Discards \/ Hands \/ Returns \/ Waits

LEMMA MaybeMarkedType ==
  ASSUME NEW p \in Packet, NEW m \in MaybeMarked(p)
  PROVE  /\ m \in Packet /\ m.id = p.id /\ m.from = p.from /\ m.arrived = p.arrived
         /\ m.ecn = p.ecn \/ (p.ecn \in {"ECT0", "ECT1"} /\ m.ecn = "CE")
  BY DEF MaybeMarked, Marked, Markable, Packet, Ecn

LEMMA StatsStored == DualTypeOK => stats \in Stats
  BY DEF DualTypeOK, Stats

(* One lemma for the shared invariant, whatever the disc.                  *)
LEMMA PieceInv ==
  ASSUME DualInv, NEW counted, Piece(counted)
  PROVE  DualInv'
<1>1. now \in Nat /\ reply \in Packet /\ None \in Packet
  BY NoneType DEF DualInv, DualTypeOK
<1>2. CASE Stores
  <2>1. PICK ecn, st, p :
          ecn \in Ecn /\ st \in Stats
          /\ p \in MaybeMarked(Arrival(ecn)) /\ ~OverLimit /\ Store(BandOf(ecn), p, st)
    BY <1>2 DEF Stores
  <2>2. Arrival(ecn) \in Packet /\ Arrival(ecn).arrived = now /\ BandOf(ecn) \in Band
    BY <2>1, ArrivalType DEF DualInv
  <2>3. p \in Packet /\ p.arrived = now
    BY <2>1, <2>2, MaybeMarkedType
  <2> QED
    BY <2>1, <2>2, <2>3, StoreInv
<1>3. CASE Refuses(counted)
  BY <1>3, DropArrivalInv DEF Refuses
<1>4. CASE Discards
  BY <1>4, DiscardInv DEF Discards
<1>5. CASE Hands
  <2>1. PICK b, st, p :
          b \in Band /\ st \in Stats
          /\ p \in MaybeMarked(Head(q[b])) /\ q[b] # <<>> /\ Deliver(b, p, st)
    BY <1>5 DEF Hands
  <2>2. Head(q[b]) \in Packet
    BY <2>1, BandType DEF DualInv
  <2>3. p \in Packet
    BY <2>1, <2>2, MaybeMarkedType
  <2> QED
    BY <2>1, <2>3, DeliverInv
<1>6. CASE Returns
  <2>1. /\ UNCHANGED <<q, tsq, received, nPackets, dropped, stats, sent>>
        /\ now' = now /\ pc' \in {"idle", "dequeue"} /\ reply' = None
    BY <1>6 DEF Returns, ReturnNull
  <2>2. now' \in Nat /\ now' >= now /\ reply' \in Packet
    BY <1>1, <2>1
  <2> QED
    BY <2>1, <2>2, StutterInv
<1>7. CASE Waits
  <2>1. now' \in Nat /\ now' >= now /\ reply' \in Packet
    BY <1>1, <1>7 DEF Waits
  <2> QED
    BY <1>7, <2>1, StutterInv DEF Waits
<1> QED
  BY <1>2, <1>3, <1>4, <1>5, <1>6, <1>7 DEF Piece

(* A disc that counts each of its drops counts it once.                    *)
LEMMA PieceCounts ==
  ASSUME DualInv, StatsAccounting, Piece(TRUE)
  PROVE  StatsAccounting'
<1>1. /\ dropped \in Nat /\ stats \in Stats
      /\ stats.forcedDrop \in Nat /\ stats.unforcedDrop \in Nat
  BY DEF DualInv, DualTypeOK, Stats
<1>2. CASE Stores
  <2>1. PICK ecn, st, p :
          ecn \in Ecn /\ st \in Stats
          /\ ~OverLimit /\ Quiet(st) /\ Store(BandOf(ecn), p, st)
    BY <1>2 DEF Stores
  <2>2. Len(q[BandOf(ecn)]) < Capacity[BandOf(ecn)]
    BY <2>1, ArrivalType, Fits DEF DualInv
  <2>3. dropped' = dropped /\ stats' = st
    BY <2>1, <2>2 DEF Store
  <2> QED
    BY <2>1, <2>3 DEF Quiet, StatsAccounting
<1>3. CASE Refuses(TRUE)
  <2>1. PICK st \in Stats : Tells(st) /\ DropArrival(st)
    BY <1>3 DEF Refuses
  <2>2. /\ dropped' = dropped + 1 /\ stats' = st
        /\ st.forcedDrop + st.unforcedDrop = stats.forcedDrop + stats.unforcedDrop + 1
    BY <2>1 DEF DropArrival, Tells
  <2> QED
    BY <2>2 DEF StatsAccounting
<1>4. CASE Discards
  <2>1. /\ dropped' = dropped + 1
        /\ stats' = [stats EXCEPT !.unforcedDrop = stats.unforcedDrop + 1]
    BY <1>4 DEF Discards, Discard
  <2>2. stats'.forcedDrop = stats.forcedDrop /\ stats'.unforcedDrop = stats.unforcedDrop + 1
    BY <1>1, <2>1 DEF Stats
  <2> QED
    BY <1>1, <2>1, <2>2 DEF StatsAccounting
<1>5. CASE Hands
  BY <1>5 DEF Hands, Deliver, Quiet, StatsAccounting
<1>6. CASE Returns \/ Waits
  BY <1>6 DEF Returns, ReturnNull, Waits, StatsAccounting
<1> QED
  BY <1>2, <1>3, <1>4, <1>5, <1>6 DEF Piece

----------------------------------------------------------------------------
(* The pieces from the operators that the handlers call                    *)

LEMMA ForcedPiece ==
  ASSUME DualInv, ForcedDrop, NEW counted
  PROVE  Piece(counted)
<1> DEFINE st == [stats EXCEPT !.forcedDrop = stats.forcedDrop + 1]
<1>1. stats \in Stats /\ stats.forcedDrop \in Nat /\ stats.unforcedDrop \in Nat
  BY DEF DualInv, DualTypeOK, Stats
<1>2. st \in Stats /\ st.forcedDrop = stats.forcedDrop + 1 /\ st.unforcedDrop = stats.unforcedDrop
  BY <1>1, StatsType DEF Stats
<1>3. DropArrival(st)
  BY DEF ForcedDrop
<1> HIDE DEF st
<1>4. Tells(st)
  BY <1>1, <1>2 DEF Tells
<1> QED
  BY <1>2, <1>3, <1>4 DEF Piece, Refuses

LEMMA MarkQuiet ==
  ASSUME DualTypeOK, NEW b \in Band
  PROVE  /\ [stats EXCEPT !.mark[b] = @ + 1] \in Stats
         /\ Quiet([stats EXCEPT !.mark[b] = @ + 1])
         /\ stats \in Stats /\ Quiet(stats)
<1>1. stats \in Stats
  BY StatsStored
<1>2. [stats EXCEPT !.mark[b] = @ + 1] \in Stats
  BY <1>1, StatsType
<1>3. Quiet([stats EXCEPT !.mark[b] = @ + 1]) /\ Quiet(stats)
  BY <1>1 DEF Quiet, Stats
<1> QED
  BY <1>1, <1>2, <1>3

LEMMA SettlePiece ==
  ASSUME DualInv, pc = "dequeue", NEW b \in Band, q[b] # <<>>,
         NEW purge, NEW signal, Settle(b, purge, signal), NEW counted
  PROVE  Piece(counted)
<1>1. CASE Discard(b)
  BY <1>1 DEF Piece, Discards
<1>2. ASSUME NEW p \in MaybeMarked(Head(q[b])), NEW st \in Stats, Quiet(st), Deliver(b, p, st)
      PROVE  Piece(counted)
  BY <1>2 DEF Piece, Hands
<1>3. /\ [stats EXCEPT !.mark[b] = @ + 1] \in Stats
      /\ Quiet([stats EXCEPT !.mark[b] = @ + 1])
      /\ stats \in Stats /\ Quiet(stats)
  BY MarkQuiet DEF DualInv
<1>4. CASE /\ Markable(Head(q[b]))
           /\ Deliver(b, Marked(Head(q[b])), [stats EXCEPT !.mark[b] = @ + 1])
  BY <1>2, <1>3, <1>4 DEF MaybeMarked
<1>5. CASE Deliver(b, Head(q[b]), stats)
  BY <1>2, <1>3, <1>5 DEF MaybeMarked
<1> QED
  BY <1>1, <1>4, <1>5 DEF Settle

LEMMA AdmitPiece ==
  ASSUME DualInv, ~OverLimit, NEW ecn \in Ecn, NEW signal, NEW counted,
         NEW sm \in Stats, Quiet(sm), NEW sd \in Stats, counted => Tells(sd),
         Admit(BandOf(ecn), Arrival(ecn), signal, sm, sd)
  PROVE  Piece(counted)
<1>1. stats \in Stats /\ Quiet(stats)
  BY StatsStored DEF DualInv, Quiet
<1>2. CASE DropArrival(sd)
  BY <1>2 DEF Piece, Refuses
<1>3. CASE Store(BandOf(ecn), Arrival(ecn), stats)
  BY <1>1, <1>3 DEF Piece, Stores, MaybeMarked
<1>4. CASE Markable(Arrival(ecn)) /\ Store(BandOf(ecn), Marked(Arrival(ecn)), sm)
  BY <1>4 DEF Piece, Stores, MaybeMarked
<1> QED
  BY <1>2, <1>3, <1>4 DEF Admit

----------------------------------------------------------------------------
(* The refinement of TwoBandQueue, one lemma per piece                     *)

PlainPacket == [id : Nat, from : Ecn, ecn : Ecn]
Mapped(s) == [i \in 1 .. Len(s) |-> Plain(s[i])]

LEMMA PlainType == \A p \in Packet : Plain(p) \in PlainPacket
  BY DEF Plain, PlainPacket, Packet

LEMMA MapType ==
  ASSUME NEW s \in Seq(Packet)
  PROVE  /\ Mapped(s) \in Seq(PlainPacket) /\ Len(Mapped(s)) = Len(s)
         /\ \A i \in 1 .. Len(s) : Mapped(s)[i] = Plain(s[i])
<1>1. \A i \in 1 .. Len(s) : Plain(s[i]) \in PlainPacket
  BY PlainType
<1> QED
  BY <1>1 DEF Mapped

LEMMA MapEmpty == Mapped(<<>>) = <<>>
  BY DEF Mapped

LEMMA MapAppend ==
  ASSUME NEW s \in Seq(Packet), NEW p \in Packet
  PROVE  Mapped(Append(s, p)) = Append(Mapped(s), Plain(p))
<1> DEFINE a == Append(s, p)
           m == Mapped(s)
           ma == Mapped(a)
           am == Append(m, Plain(p))
<1>1. /\ a \in Seq(Packet) /\ Len(a) = Len(s) + 1 /\ a[Len(s) + 1] = p
      /\ \A i \in 1 .. Len(s) : a[i] = s[i]
  OBVIOUS
<1>2. /\ m \in Seq(PlainPacket) /\ Len(m) = Len(s)
      /\ \A i \in 1 .. Len(s) : m[i] = Plain(s[i])
  BY MapType
<1> HIDE DEF a
<1>3. /\ ma \in Seq(PlainPacket) /\ Len(ma) = Len(s) + 1
      /\ \A i \in 1 .. Len(s) + 1 : ma[i] = Plain(a[i])
  BY <1>1, MapType
<1> HIDE DEF m, ma
<1>4. Plain(p) \in PlainPacket
  BY PlainType
<1>5. /\ am \in Seq(PlainPacket) /\ Len(am) = Len(s) + 1 /\ am[Len(s) + 1] = Plain(p)
      /\ \A i \in 1 .. Len(s) : am[i] = m[i]
  BY <1>2, <1>4
<1> HIDE DEF am
<1>6. ASSUME NEW i \in 1 .. Len(s) + 1 PROVE ma[i] = am[i]
  <2>1. CASE i \in 1 .. Len(s)
    BY <1>1, <1>2, <1>3, <1>5, <2>1
  <2>2. CASE i = Len(s) + 1
    BY <1>1, <1>3, <1>5, <2>2
  <2> QED
    BY <2>1, <2>2
<1>7. ma = am
  BY <1>3, <1>5, <1>6, SeqEqual
<1> QED
  BY <1>7 DEF a, m, ma, am

LEMMA MapTail ==
  ASSUME NEW s \in Seq(Packet), s # <<>>
  PROVE  /\ Mapped(s) # <<>> /\ Mapped(Tail(s)) = Tail(Mapped(s))
         /\ Head(Mapped(s)) = Plain(Head(s))
<1> DEFINE t == Tail(s)
           m == Mapped(s)
           mt == Mapped(t)
           tm == Tail(m)
<1>1. /\ t \in Seq(Packet) /\ Len(t) = Len(s) - 1 /\ Len(s) \in Nat \ {0}
      /\ \A i \in 1 .. Len(s) - 1 : t[i] = s[i + 1]
  OBVIOUS
<1>2. /\ m \in Seq(PlainPacket) /\ Len(m) = Len(s)
      /\ \A i \in 1 .. Len(s) : m[i] = Plain(s[i])
  BY MapType
<1> HIDE DEF t
<1>3. /\ mt \in Seq(PlainPacket) /\ Len(mt) = Len(s) - 1
      /\ \A i \in 1 .. Len(s) - 1 : mt[i] = Plain(t[i])
  BY <1>1, MapType
<1> HIDE DEF m, mt
<1>4. m # <<>> /\ Head(m) = Plain(Head(s))
  BY <1>1, <1>2
<1>5. /\ tm \in Seq(PlainPacket) /\ Len(tm) = Len(s) - 1
      /\ \A i \in 1 .. Len(s) - 1 : tm[i] = m[i + 1]
  BY <1>1, <1>2, <1>4
<1> HIDE DEF tm
<1>6. ASSUME NEW i \in 1 .. Len(s) - 1 PROVE mt[i] = tm[i]
  <2>1. i + 1 \in 1 .. Len(s) /\ t[i] = s[i + 1]
    BY <1>1
  <2>2. mt[i] = Plain(s[i + 1]) /\ tm[i] = Plain(s[i + 1])
    BY <1>2, <1>3, <1>5, <2>1
  <2> QED
    BY <2>2
<1>7. mt = tm
  BY <1>3, <1>5, <1>6, SeqEqual
<1> QED
  BY <1>4, <1>7 DEF t, m, mt, tm
(* The two bands as TwoBandQueue sees them.                                *)
Shown == [b \in Band |-> Mapped(q[b])]

LEMMA ShownAppend ==
  ASSUME DualTypeOK, NEW b \in Band, NEW p \in Packet, q' = [q EXCEPT ![b] = Append(q[b], p)]
  PROVE  Shown' = [Shown EXCEPT ![b] = Append(Shown[b], Plain(p))]
<1>1. q \in [Band -> Seq(Packet)]
  BY DEF DualTypeOK
<1>2. Mapped(Append(q[b], p)) = Append(Mapped(q[b]), Plain(p))
  BY <1>1, MapAppend
<1>3. \A c \in Band : q'[c] = IF c = b THEN Append(q[b], p) ELSE q[c]
  BY <1>1
<1>4. ASSUME NEW c \in Band
      PROVE  Mapped(q'[c]) = IF c = b THEN Append(Mapped(q[b]), Plain(p)) ELSE Mapped(q[c])
  <2>1. CASE c = b
    BY <1>2, <1>3, <2>1
  <2>2. CASE c # b
    <3>1. q'[c] = q[c]
      BY <1>3, <2>2
    <3> QED
      BY <2>2, <3>1
  <2> QED
    BY <2>1, <2>2
<1>5. Shown' = [c \in Band |-> Mapped(q'[c])]
  BY DEF Shown, Mapped
<1> QED
  BY <1>4, <1>5 DEF Shown

LEMMA ShownTail ==
  ASSUME DualTypeOK, NEW b \in Band, q[b] # <<>>, q' = [q EXCEPT ![b] = Tail(q[b])]
  PROVE  /\ Shown' = [Shown EXCEPT ![b] = Tail(Shown[b])]
         /\ Shown[b] # <<>> /\ Head(Shown[b]) = Plain(Head(q[b]))
<1>1. q \in [Band -> Seq(Packet)]
  BY DEF DualTypeOK
<1>2. /\ Mapped(q[b]) # <<>> /\ Mapped(Tail(q[b])) = Tail(Mapped(q[b]))
      /\ Head(Mapped(q[b])) = Plain(Head(q[b]))
  BY <1>1, MapTail
<1>3. \A c \in Band : q'[c] = IF c = b THEN Tail(q[b]) ELSE q[c]
  BY <1>1
<1>4. ASSUME NEW c \in Band
      PROVE  Mapped(q'[c]) = IF c = b THEN Tail(Mapped(q[b])) ELSE Mapped(q[c])
  <2>1. CASE c = b
    BY <1>2, <1>3, <2>1
  <2>2. CASE c # b
    <3>1. q'[c] = q[c]
      BY <1>3, <2>2
    <3> QED
      BY <2>2, <3>1
  <2> QED
    BY <2>1, <2>2
<1>5. Shown' = [c \in Band |-> Mapped(q'[c])]
  BY DEF Shown, Mapped
<1> QED
  BY <1>2, <1>4, <1>5 DEF Shown

LEMMA PromiseInit == DualInit => Promise!Init
<1> SUFFICES ASSUME DualInit PROVE Promise!Init
  OBVIOUS
<1>1. Shown = [b \in Band |-> <<>>]
  BY MapEmpty DEF DualInit, Shown
<1>2. Plain(reply) = Promise!Nothing
  BY DEF DualInit, Plain, None, Promise!Nothing
<1> QED
  BY <1>1, <1>2 DEF DualInit, Promise!Init, Shown, Mapped, Band, L4S, Classic, Promise!Bands

LEMMA StoresKeep ==
  ASSUME DualInv, Stores
  PROVE  Promise!Accept
<1>1. PICK ecn, st, p :
        ecn \in Ecn /\ st \in Stats
        /\ p \in MaybeMarked(Arrival(ecn)) /\ ~OverLimit /\ Store(BandOf(ecn), p, st)
  BY DEF Stores
<1>2. Arrival(ecn) \in Packet /\ BandOf(ecn) \in Band
  BY <1>1, ArrivalType DEF DualInv
<1>3. /\ p \in Packet /\ p.id = received + 1 /\ p.from = ecn
      /\ p.ecn \in Promise!PassedOn(ecn)
  <2>1. Arrival(ecn).id = received + 1 /\ Arrival(ecn).from = ecn /\ Arrival(ecn).ecn = ecn
    BY DEF Arrival
  <2> QED
    BY <1>1, <1>2, <2>1, MaybeMarkedType DEF Promise!PassedOn
<1>4. Plain(p) = [id |-> received + 1, from |-> ecn, ecn |-> p.ecn]
  BY <1>3 DEF Plain
<1>5. /\ q' = [q EXCEPT ![BandOf(ecn)] = Append(q[BandOf(ecn)], p)]
      /\ received' = received + 1 /\ reply' = reply
  BY <1>1, <1>2, Fits DEF Store, DualInv
<1>6. Shown' = [Shown EXCEPT ![BandOf(ecn)] =
                  Append(Shown[BandOf(ecn)], [id |-> received + 1, from |-> ecn, ecn |-> p.ecn])]
  BY <1>2, <1>3, <1>4, <1>5, ShownAppend DEF DualInv
<1>7. Len(Shown[0]) + Len(Shown[1]) < QueueLimit
  <2>1. /\ q[0] \in Seq(Packet) /\ q[1] \in Seq(Packet)
        /\ Shown[0] = Mapped(q[0]) /\ Shown[1] = Mapped(q[1])
    BY BandType DEF DualInv, Shown, Band, L4S, Classic
  <2>2. Len(Shown[0]) = Len(q[0]) /\ Len(Shown[1]) = Len(q[1])
    BY <2>1, MapType
  <2>3. Len(q[0]) + Len(q[1]) < QueueLimit
    <3>1. ~(Len(q[0]) + Len(q[1]) >= QueueLimit)
      BY DEF Stores, OverLimit, L4S, Classic
    <3>2. Len(q[0]) \in Nat /\ Len(q[1]) \in Nat /\ QueueLimit \in Nat
      BY <2>1, LimitAssumption
    <3>3. \A m, n, l \in Nat : ~(m + n >= l) => m + n < l
      OBVIOUS
    <3> QED
      BY <3>1, <3>2, <3>3
  <2> QED
    BY <2>2, <2>3
<1>8. /\ ecn \in Promise!Ecn
      /\ BandOf(ecn) = IF ecn \in {"ECT1", "CE"} THEN 0 ELSE 1
      /\ Plain(reply)' = Plain(reply)
  BY <1>1, <1>5 DEF Ecn, Promise!Ecn, BandOf, L4S, Classic, Plain
<1> QED
  BY <1>3, <1>5, <1>6, <1>7, <1>8 DEF Promise!Accept, Shown, Mapped

LEMMA LeavesKeep ==
  ASSUME DualInv, NEW b \in Band, q[b] # <<>>, q' = [q EXCEPT ![b] = Tail(q[b])],
         received' = received
  PROVE  b \in Promise!Bands /\ Promise!Leave(b)
<1>1. Shown' = [Shown EXCEPT ![b] = Tail(Shown[b])] /\ Shown[b] # <<>>
  BY ShownTail DEF DualInv
<1> QED
  BY <1>1 DEF Promise!Leave, Shown, Mapped, Promise!Bands, Band, L4S, Classic

LEMMA HandsKeep ==
  ASSUME DualInv, Hands
  PROVE  Promise!Deliver
<1>1. PICK b, st, p :
        b \in Band /\ st \in Stats
        /\ p \in MaybeMarked(Head(q[b])) /\ q[b] # <<>> /\ Deliver(b, p, st)
  BY DEF Hands
<1>2. q' = [q EXCEPT ![b] = Tail(q[b])] /\ received' = received /\ reply' = p
  BY <1>1 DEF Deliver
<1>3. b \in Promise!Bands /\ Promise!Leave(b)
  BY <1>1, <1>2, LeavesKeep
<1>4. Head(Shown[b]) = Plain(Head(q[b])) /\ Head(q[b]) \in Packet
  <2>1. DualTypeOK /\ q[b] # <<>>
    BY <1>1 DEF DualInv
  <2>2. Head(q[b]) \in Packet
    BY <1>1, <2>1, BandType
  <2> QED
    BY <1>1, <1>2, <2>1, <2>2, ShownTail
<1>5. /\ p.id = Head(q[b]).id /\ p.from = Head(q[b]).from
      /\ p.ecn \in Promise!PassedOn(Head(q[b]).ecn)
  BY <1>1, <1>4, MaybeMarkedType DEF Promise!PassedOn
<1>6. /\ Plain(reply)' = [Head(Shown[b]) EXCEPT !.ecn = p.ecn]
      /\ p.ecn \in Promise!PassedOn(Head(Shown[b]).ecn)
  BY <1>2, <1>4, <1>5 DEF Plain
<1> QED
  BY <1>3, <1>6 DEF Promise!Deliver, Shown, Mapped

(* Every piece is a step of TwoBandQueue or changes nothing there.         *)
LEMMA PieceKeeps ==
  ASSUME DualInv, NEW counted, Piece(counted)
  PROVE  [Promise!Next]_(Promise!vars)
<1>1. CASE Stores
  BY <1>1, StoresKeep DEF Promise!Next
<1>2. CASE Refuses(counted)
  <2>1. q' = q /\ received' = received + 1 /\ reply' = reply
    BY <1>2 DEF Refuses, DropArrival
  <2> QED
    BY <2>1 DEF Promise!Next, Promise!Refuse, Plain
<1>3. CASE Discards
  <2>1. PICK b \in Band : q[b] # <<>> /\ Discard(b)
    BY <1>3 DEF Discards
  <2>2. b \in Promise!Bands /\ Promise!Leave(b) /\ reply' = reply
    BY <2>1, LeavesKeep DEF Discard
  <2> QED
    BY <2>2 DEF Promise!Next, Promise!Discard, Plain
<1>4. CASE Hands
  BY <1>4, HandsKeep DEF Promise!Next
<1>5. CASE Returns
  <2>1. /\ \A b \in Band : q[b] = <<>>
        /\ q' = q /\ received' = received /\ reply' = None
    BY <1>5 DEF Returns, BothEmpty, ReturnNull
  <2>2. \A b \in Promise!Bands : Shown[b] = <<>>
    BY <2>1, MapEmpty DEF Shown, Promise!Bands, Band, L4S, Classic
  <2>3. Plain(reply)' = Promise!Nothing
    BY <2>1 DEF Plain, None, Promise!Nothing
  <2> QED
    BY <2>1, <2>2, <2>3 DEF Promise!Next, Promise!NothingToDeliver, Shown, Mapped
<1>6. CASE Waits
  BY <1>6 DEF Waits, Promise!vars, Plain
<1> QED
  BY <1>1, <1>2, <1>3, <1>4, <1>5, <1>6 DEF Piece

----------------------------------------------------------------------------
(* Why the weighted round robin shared by DQRED and DQMyPie is fair, for   *)
(* all weights, whatever its counter starts from and whether or not it     *)
(* wraps                                                                   *)

----------------------------------------------------------------------------
(* The shares                                                              *)

LEMMA BoundedMax ==
  ASSUME NEW n \in Nat, NEW D \in SUBSET (0 .. n), D # {}
  PROVE  \E d \in D : \A e \in D : e <= d
<1> DEFINE T == {n - d : d \in D}
<1>1. T \subseteq Nat /\ T # {}
  <2>1. ASSUME NEW d \in D PROVE n - d \in Nat
    OBVIOUS
  <2>2. \E d \in D : n - d \in T
    OBVIOUS
  <2> QED
    BY <2>1, <2>2
<1>2. PICK x \in T : \A y \in T : <<y, x>> \notin OpToRel(<, Nat)
  BY <1>1, NatLessThanWellFounded, WFMin
<1>3. \A y \in T : ~(y < x)
  BY <1>1, <1>2 DEF OpToRel
<1>4. PICK d \in D : x = n - d
  OBVIOUS
<1>5. ASSUME NEW e \in D PROVE e <= d
  <2>1. ~(n - e < n - d)
    BY <1>3, <1>4
  <2> QED
    BY <2>1
<1> QED
  BY <1>5

(* std::__gcd of two naturals that are not both 0 is a positive natural.   *)
LEMMA GcdType ==
  ASSUME NEW m \in Nat, NEW n \in Nat, m + n > 0
  PROVE  Gcd(m, n) \in 1 .. (m + n)
<1> DEFINE D == {d \in 1 .. (m + n) : m % d = 0 /\ n % d = 0}
<1>1. 1 \in D
  BY m % 1 = 0, n % 1 = 0
<1>2. D \in SUBSET (0 .. (m + n)) /\ D # {} /\ m + n \in Nat
  <2>1. ASSUME NEW d \in 1 .. (m + n) PROVE d \in 0 .. (m + n)
    OBVIOUS
  <2> QED
    BY <1>1, <2>1
<1>3. PICK d \in D : \A e \in D : e <= d
  BY <1>2, BoundedMax
<1>4. \E c \in 1 .. (m + n) :
        /\ m % c = 0 /\ n % c = 0
        /\ \A e \in 1 .. (m + n) : m % e = 0 /\ n % e = 0 => e <= c
  BY <1>3
<1> QED
  BY <1>4 DEF Gcd

LEMMA DivideLess ==
  ASSUME NEW m \in Nat, NEW g \in Nat \ {0}
  PROVE  m \div g \in Nat /\ m \div g <= m
  BY SMTT(60)

(* A share fits the counter with room for one more.                        *)
LEMMA ShareType == \A b \in Band : Share[b] \in 0 .. CounterMod - 1
<1>1. NLF \in Nat /\ NCF \in Nat /\ NLF + NCF > 0
  BY ShareAssumption
<1>2. Gcd(NLF, NCF) \in Nat \ {0}
  <2>1. Gcd(NLF, NCF) \in 1 .. (NLF + NCF)
    BY <1>1, GcdType
  <2> QED
    BY <1>1, <2>1
<1>3. /\ NLF \div Gcd(NLF, NCF) \in Nat /\ NLF \div Gcd(NLF, NCF) <= NLF
      /\ NCF \div Gcd(NLF, NCF) \in Nat /\ NCF \div Gcd(NLF, NCF) <= NCF
  BY <1>1, <1>2, DivideLess
<1>4. /\ NLF \div Gcd(NLF, NCF) \in 0 .. CounterMod - 1
      /\ NCF \div Gcd(NLF, NCF) \in 0 .. CounterMod - 1
  BY <1>1, <1>3, ShareAssumption
<1> QED
  BY <1>4 DEF Share

----------------------------------------------------------------------------
(* The turn                                                                *)

(* A turn is never longer than the share.  That is inductive only with the *)
(* counter: it is at least the length of the turn, because the counter may *)
(* have run before the other band had anything, and exactly that length    *)
(* when the turn began by taking over.                                     *)
RRInv ==
  /\ RRTypeOK
  /\ turn.len <= TurnLength(lastDq)
  /\ turn.len <= dqCounter
  /\ turn.whole => turn.len = dqCounter /\ turn.len >= 1

LEMMA TurnLengthType ==
  \A b \in Band : TurnLength(b) \in Nat /\ Share[b] <= TurnLength(b) /\ 1 <= TurnLength(b)
                  /\ (TurnLength(b) = Share[b] \/ TurnLength(b) = 1)
<1> SUFFICES ASSUME NEW b \in Band
             PROVE  /\ TurnLength(b) \in Nat /\ Share[b] <= TurnLength(b) /\ 1 <= TurnLength(b)
                    /\ TurnLength(b) = Share[b] \/ TurnLength(b) = 1
  OBVIOUS
<1>1. Share[b] \in Nat
  BY ShareType, ShareAssumption
<1> QED
  BY <1>1 DEF TurnLength, Larger

LEMMA InitRRInv == ASSUME NEW C \in SUBSET (0 .. CounterMod - 1), RRInit(C) PROVE RRInv
<1>1. lastDq \in Band /\ dqCounter \in 0 .. CounterMod - 1 /\ turn = [len |-> 0, whole |-> FALSE]
  BY BandValues DEF RRInit
<1>2. TurnLength(lastDq) >= 0 /\ CounterMod \in Nat
  BY <1>1, TurnLengthType, ShareAssumption
<1> QED
  BY <1>1, <1>2 DEF RRInv, RRTypeOK

LEMMA RRStutter ==
  ASSUME RRInv, UNCHANGED rrVars
  PROVE  RRInv'
<1>1. lastDq' = lastDq /\ dqCounter' = dqCounter /\ turn' = turn
  BY DEF rrVars
<1> QED
  BY <1>1 DEF RRInv, RRTypeOK, TurnLength, Share

LEMMA WaitingStored ==
  ASSUME DualInv, NEW b \in Band
  PROVE  Waiting(b) <=> q[b] # <<>>
<1>1. q[b] \in Seq(Packet) /\ tsq[b] \in Seq(Nat) /\ Mirrors(tsq[b], q[b])
  BY BandType DEF DualInv, Lockstep
<1>2. Len(tsq[b]) = Len(q[b])
  BY <1>1 DEF Mirrors
<1> QED
  BY <1>1, <1>2 DEF Waiting

LEMMA OtherType == \A b \in Band : Other(b) \in Band /\ Other(b) # b
  BY DEF Other, Band, L4S, Classic

LEMMA ServeInv ==
  ASSUME DualInv, RRInv, Serve
  PROVE  DualInv' /\ RRInv' /\ WholeTurnsStep
<1> DEFINE b == Chosen
<1>1. b \in Band /\ Waiting(b)
  BY BandValues, OtherType DEF Serve, Chosen, Contended, Waiting, RRInv, RRTypeOK, Other, Band
<1>2. DualInv'
  <2>1. q[b] # <<>>
    BY <1>1, WaitingStored
  <2>2. Head(q[b]) \in Packet /\ stats \in Stats
    BY <1>1, <2>1, BandType DEF DualInv, DualTypeOK, Stats
  <2>3. Deliver(b, Head(q[b]), stats)
    BY <2>1 DEF Serve
  <2> QED
    BY <1>1, <2>1, <2>2, <2>3, DeliverInv
<1>3. /\ lastDq' = b
      /\ dqCounter' = IF b = lastDq THEN (dqCounter + 1) % CounterMod ELSE 1
      /\ turn' = IF ~Contended THEN [len |-> 0, whole |-> FALSE]
                 ELSE IF b = lastDq THEN [turn EXCEPT !.len = @ + 1]
                 ELSE [len |-> 1, whole |-> TRUE]
  BY DEF Serve
<1>4. /\ lastDq \in Band /\ dqCounter \in Nat /\ dqCounter <= CounterMod - 1
      /\ turn \in [len : Nat, whole : BOOLEAN] /\ turn.len \in Nat
      /\ CounterMod \in Nat /\ 1 < CounterMod
  BY ShareAssumption DEF RRInv, RRTypeOK
<1>5. TurnLength(b) \in Nat /\ 1 <= TurnLength(b) /\ Share[b] <= TurnLength(b)
      /\ Share[b] \in Nat /\ Share[b] <= CounterMod - 1
  BY <1>1, <1>4, TurnLengthType, ShareType
<1>6. dqCounter' \in 0 .. CounterMod - 1
  BY <1>3, <1>4
<1>7. RRTypeOK'
  BY <1>1, <1>3, <1>4, <1>6 DEF RRTypeOK
<1>8. CASE ~Contended
  <2>1. turn'.len = 0 /\ turn'.whole = FALSE
    BY <1>3, <1>8
  <2> QED
    BY <1>2, <1>3, <1>5, <1>6, <1>7, <1>8, <2>1 DEF RRInv, WholeTurnsStep
<1>9. CASE Contended /\ b = lastDq
  <2>1. dqCounter < Share[b]
    BY <1>1, <1>4, <1>5, <1>9, OtherType DEF Chosen
  <2>2. dqCounter' = dqCounter + 1
    BY <1>3, <1>4, <1>5, <1>9, <2>1
  <2>3. turn'.len = turn.len + 1 /\ turn'.whole = turn.whole
    BY <1>3, <1>4, <1>9
  <2>4. /\ turn.len <= dqCounter
        /\ turn.whole => turn.len = dqCounter /\ turn.len >= 1
    BY DEF RRInv
  <2>5. /\ turn'.len <= TurnLength(b) /\ turn'.len <= dqCounter'
        /\ turn'.whole => turn'.len = dqCounter' /\ turn'.len >= 1
    BY <1>4, <1>5, <2>1, <2>2, <2>3, <2>4
  <2> QED
    BY <1>2, <1>3, <1>7, <1>9, <2>5 DEF RRInv, WholeTurnsStep
<1>10. CASE Contended /\ b # lastDq
  <2>1. turn'.len = 1 /\ dqCounter' = 1
    BY <1>3, <1>10
  <2>2. RRInv'
    BY <1>3, <1>5, <1>7, <2>1 DEF RRInv
  <2>3. WholeTurnsStep
    <3>1. SUFFICES ASSUME turn.whole PROVE turn.len = TurnLength(lastDq)
      BY DEF WholeTurnsStep
    <3>2. turn.len = dqCounter /\ turn.len >= 1 /\ turn.len <= TurnLength(lastDq)
      BY <3>1 DEF RRInv
    <3>3. dqCounter >= Share[lastDq]
      BY <1>10 DEF Chosen
    <3>4. /\ TurnLength(lastDq) \in Nat /\ Share[lastDq] \in Nat
          /\ TurnLength(lastDq) = Share[lastDq] \/ TurnLength(lastDq) = 1
      BY <1>4, TurnLengthType, ShareType
    <3> QED
      BY <1>4, <3>2, <3>3, <3>4
  <2> QED
    BY <1>2, <2>2, <2>3
<1> QED
  BY <1>8, <1>9, <1>10

(* What Serve does to the queues is one of the pieces of DualQueue.        *)
LEMMA ServePiece ==
  ASSUME DualInv, RRInv, Serve, NEW counted
  PROVE  Piece(counted)
<1> DEFINE b == Chosen
<1>1. b \in Band /\ Waiting(b)
  BY BandValues, OtherType DEF Serve, Chosen, Contended, Waiting, RRInv, RRTypeOK, Other, Band
<1>2. q[b] # <<>>
  BY <1>1, WaitingStored
<1>3. Deliver(b, Head(q[b]), stats)
  BY <1>2 DEF Serve
<1>4. stats \in Stats /\ Quiet(stats) /\ Head(q[b]) \in MaybeMarked(Head(q[b]))
  BY StatsStored DEF Quiet, MaybeMarked, DualInv
<1> QED
  BY <1>1, <1>2, <1>3, <1>4 DEF Piece, Hands

(* A dequeue of a round-robin disc, whether it serves or returns nothing:  *)
(* both bands are empty when no stamp waits.                               *)
LEMMA DequeuePiece ==
  ASSUME DualInv, RRInv, DoDequeue, NEW counted
  PROVE  Piece(counted)
<1>1. CASE Serve
  BY <1>1, ServePiece
<1>2. CASE ~Waiting(L4S) /\ ~Waiting(Classic) /\ ReturnNull
  <2>1. \A b \in Band : q[b] = <<>>
    BY <1>2, WaitingStored, BandValues DEF Band
  <2> QED
    BY <1>2, <2>1 DEF Piece, Returns, BothEmpty
<1> QED
  BY <1>1, <1>2 DEF DoDequeue

LEMMA DequeueRR ==
  ASSUME DualInv, RRInv, DoDequeue
  PROVE  RRInv' /\ WholeTurnsStep
<1>1. CASE Serve
  BY <1>1, ServeInv
<1>2. CASE UNCHANGED rrVars
  BY <1>2, RRStutter DEF WholeTurnsStep, rrVars
<1> QED
  BY <1>1, <1>2 DEF DoDequeue

=============================================================================
