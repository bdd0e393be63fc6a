------------------------------- MODULE CoDel -------------------------------
(***************************************************************************)
(* codel-queue-disc.cc, as operators on the state of one disc.  Instants   *)
(* are kept as what is left until them and packets carry their age, each   *)
(* as far as a comparison can tell.  The control law's square root is      *)
(* abstracted to a free choice of the time to the next drop, one for each  *)
(* dequeue, so that m_count, m_lastCount and NewtonStep decide nothing.    *)
(***************************************************************************)
EXTENDS Integers, SequencesExt

CONSTANTS
  MaxPackets,         \* m_maxPackets, in QUEUE_MODE_PACKETS
  MinBytes, Target, Interval,
  Gaps                \* what ControlLaw may add, interval / sqrt (count)

(* The attributes' defaults are 1500 bytes, 5 ms and 100 ms.               *)
ASSUME CoDelAssumption ==
  /\ {MaxPackets, MinBytes, Target, Interval} \subseteq Nat \ {0}
  /\ Gaps \subseteq 1 .. Interval

NoItem == [size |-> 0, age |-> 0]

(* m_firstAboveTime may be Unset (0 in the code).  m_dropNext is read in   *)
(* the dropping state only; once it is further back than MaxLag every      *)
(* packet is due.                                                          *)
Unset == Interval + 1
MaxLag == MaxPackets * Interval
Empty == [queue |-> << >>, firstAbove |-> Unset, dropping |-> FALSE, dropNext |-> 0]

SumOfSizes(q) == SumFunction([k \in DOMAIN q |-> q[k].size])
NBytes(c) == SumOfSizes(c.queue)

(* time passes                                                             *)
Aged(c) ==
  [queue |-> [k \in DOMAIN c.queue |->
                [c.queue[k] EXCEPT !.age = IF @ < Target THEN @ + 1 ELSE @]],
   firstAbove |-> IF c.firstAbove \in {Unset, -1} THEN c.firstAbove ELSE c.firstAbove - 1,
   dropping |-> c.dropping,
   dropNext |-> IF c.dropping /\ c.dropNext > -MaxLag THEN c.dropNext - 1 ELSE c.dropNext]

CoDelEnqueue(c, size) ==
  IF Len(c.queue) + 1 > MaxPackets THEN c
  ELSE [c EXCEPT !.queue = Append(@, [size |-> size, age |-> 0])]

(* OkToDrop: rest is the disc without its head, the packet looked at       *)
LastCounts(c) == c.queue[1].age < Target   \* mutant: without MinBytes
Below(c) == c.queue[1].age < Target \/ NBytes([c EXCEPT !.queue = Tail(@)]) < MinBytes
OkToDrop(c) == ~Below(c) /\ c.firstAbove < 0
Taken(c) ==
  [c EXCEPT !.queue = Tail(@),
            !.firstAbove = IF Below(c) THEN Unset ELSE IF @ = Unset THEN Interval ELSE @]

Result(c, item, drops) == [disc |-> c, item |-> item, drops |-> drops]
Left(c) == [c EXCEPT !.dropping = FALSE, !.dropNext = 0]

(* The while loop of the dropping state: item is in hand, and is dropped   *)
(* when it is due.  after(k) is the disc when k drops each took a packet   *)
(* that may be dropped too, and n the first k at which the loop ends.      *)
DropWhileDue(c, item, gap) ==
  LET after(k) == [c EXCEPT !.queue = SubSeq(@, k + 1, Len(@)), !.dropNext = @ + k * gap]
      ends(k) == after(k).dropNext > 0 \/ after(k).queue = << >> \/ ~OkToDrop(after(k))
      n == Min({k \in 0 .. Len(c.queue) : ends(k)})
      final == after(n)
  IN IF final.dropNext > 0 THEN Result(final, (<<item>> \o c.queue)[n + 1], n)
     ELSE IF final.queue = << >> THEN Result(Left(final), NoItem, n + 1)
     ELSE Result(Left(Taken(final)), Head(final.queue), n + 1)

(* DoDequeue: what is left, what is returned and how often Drop is called. *)
(* Entering the dropping state with the last packet drops and returns it.  *)
CoDelDequeue(c, gap) ==
  LET item == Head(c.queue)
      taken == Taken(c)
  IN CASE c.queue = << >> -> Result([Left(c) EXCEPT !.firstAbove = Unset], NoItem, 0)
       [] c.queue # << >> /\ ~OkToDrop(c) -> Result(Left(taken), item, 0)
       [] c.queue # << >> /\ OkToDrop(c) /\ c.dropping -> DropWhileDue(taken, item, gap)
       [] c.queue # << >> /\ OkToDrop(c) /\ ~c.dropping ->
            IF taken.queue = << >> THEN Result(taken, item, 1)
            ELSE Result([Taken(taken) EXCEPT !.dropping = TRUE, !.dropNext = gap],
                        Head(taken.queue), 1)
=============================================================================
