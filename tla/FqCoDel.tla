------------------------------ MODULE FqCoDel ------------------------------
(***************************************************************************)
(* fq-codel-queue-disc.cc: deficit round robin over a CoDel disc for each  *)
(* flow, flows that begin to send before the others, and drops from the    *)
(* longest flow when the disc is over its limit.  Which flow a packet is   *)
(* classified into (PacketFilter) is free.                                 *)
(***************************************************************************)
EXTENDS CoDel

CONSTANTS
  Flows, Quantum, Limit, DropBatchSize,   \* MaxPackets is one more than Limit
  Sizes                                   \* of packets

NoFlow == "none"

(* InitializeParams: m_queueDiscFactory                                    *)
ASSUME FqAssumption ==
  /\ {Quantum, Limit, DropBatchSize} \cup Sizes \subseteq Nat \ {0}
  /\ MaxPackets = Limit + 1
  /\ IsFiniteSet(Flows) /\ NoFlow \notin Flows

VARIABLES
  classes,              \* flows in the order they were created
  disc, deficit, status,
  newFlows, oldFlows,
  nPackets,             \* m_nPackets, the root's count
  served                \* history: the flow of the packet returned last
vars == <<classes, disc, deficit, status, newFlows, oldFlows, nPackets, served>>

Backlog(d, h) == NBytes(d[h])

(* FqCoDelDrop: the first class with the largest backlog; packets go until *)
(* half of it has or the batch is full.  Remove takes the packet from the  *)
(* internal queue and has it dropped, which counts it out of both discs.   *)
LongestFlow(d, order) ==
  LET longest == Max({Backlog(d, h) : h \in ToSet(order)})
  IN order[Min({k \in DOMAIN order : Backlog(d, order[k]) = longest})]
Batch(queue) ==
  LET bytes(n) == SumOfSizes(SubSeq(queue, 1, n))
      enough(n) == n >= DropBatchSize \/ bytes(n) >= bytes(Len(queue)) \div 2
  IN Min({n \in 1 .. Len(queue) : enough(n)})

(* Enqueue and DoEnqueue of a packet that a filter matches; the count has  *)
(* been incremented when it is compared with the limit.  A flow's disc is  *)
(* larger than the limit and never full.                                   *)
Enqueue(h, size) ==
  LET fresh == status[h] = "INACTIVE"
      placed == [disc EXCEPT ![h] = CoDelEnqueue(@, size)]
      fat == LongestFlow(placed, classes')
      n == IF nPackets + 1 > Limit THEN Batch(placed[fat].queue) ELSE 0
  IN /\ classes' = IF h \in ToSet(classes) THEN classes ELSE Append(classes, h)
     /\ status' = IF fresh THEN [status EXCEPT ![h] = "NEW_FLOW"] ELSE status
     /\ deficit' = IF fresh THEN [deficit EXCEPT ![h] = Quantum] ELSE deficit
     /\ newFlows' = IF fresh THEN Append(newFlows, h) ELSE newFlows
     /\ disc' = IF n = 0 THEN placed
                ELSE [placed EXCEPT ![fat].queue = SubSeq(@, n + 1, Len(@))]
     /\ nPackets' = nPackets + 1 - n
     /\ UNCHANGED <<oldFlows, served>>

(* DoDequeue, as a function of the state s it works on.  A flow whose      *)
(* deficit is used up gets another quantum at the end of the old flows;    *)
(* else its disc is asked, and an empty flow leaves its list, from the new *)
(* flows for the old ones, from these for none.                            *)
BackInFront(s, list, h) ==   \* mutant: keeps its turn
  LET popped == [s EXCEPT !.status[h] = "OLD_FLOW", ![list] = Tail(@)]
  IN [popped EXCEPT !.oldFlows = <<h>> \o @]
ToOld(s, list, h) ==
  LET popped == [s EXCEPT !.status[h] = "OLD_FLOW", ![list] = Tail(@)]
  IN [popped EXCEPT !.oldFlows = Append(@, h)]
StillOld(s, list, h) ==   \* mutant: keeps its status
  [s EXCEPT ![list] = Tail(@)]
Gone(s, list, h) ==
  [s EXCEPT !.status[h] = "INACTIVE", ![list] = Tail(@)]

Emptied(s, list, h) == IF list = "newFlows" THEN ToOld(s, list, h) ELSE Gone(s, list, h)

(* One turn of the loops of DoDequeue, unless they are over: a packet was  *)
(* found or no flow is left.                                               *)
Over(s) == s.served # NoFlow \/ s.newFlows \o s.oldFlows = << >>
Turn(s, gap) ==
  LET list == IF s.newFlows # << >> THEN "newFlows" ELSE "oldFlows"
      h == Head(s[list])
      r == CoDelDequeue(s.disc[h], gap)
      asked == [s EXCEPT !.disc[h] = r.disc, !.nPackets = @ - r.drops]
  IN IF Over(s) THEN s
     ELSE IF s.deficit[h] <= 0 THEN [ToOld(s, list, h) EXCEPT !.deficit[h] = @ + Quantum]
     ELSE IF r.item = NoItem THEN Emptied(asked, list, h)
     ELSE [asked EXCEPT !.deficit[h] = @ - r.item.size, !.nPackets = @ - 1, !.served = h]

(* The loops' variant: a flow moves at most once from the new flows to the *)
(* old, once from there to none, and gets a quantum while it has a debt.   *)
MostTurns(s) ==
  SumFunction([h \in Flows |->
    CASE s.status[h] = "INACTIVE" -> 0
      [] s.status[h] # "INACTIVE" ->
           (IF s.status[h] = "NEW_FLOW" THEN 2 ELSE 1)
           + (IF s.deficit[h] > 0 THEN 0 ELSE 1 - s.deficit[h])])

Round(s, gap) ==
  LET turn[n \in 0 .. MostTurns(s)] == IF n = 0 THEN s ELSE Turn(turn[n - 1], gap)
  IN turn[MostTurns(s)]

Dequeue ==
  \E gap \in Gaps :
    LET s == Round([disc |-> disc, deficit |-> deficit, status |-> status,
                    newFlows |-> newFlows, oldFlows |-> oldFlows,
                    nPackets |-> nPackets, served |-> NoFlow], gap)
    IN /\ disc' = s.disc /\ deficit' = s.deficit /\ status' = s.status
       /\ newFlows' = s.newFlows /\ oldFlows' = s.oldFlows
       /\ nPackets' = s.nPackets /\ served' = s.served
       /\ UNCHANGED classes

Tick ==
  /\ disc' = [h \in Flows |-> Aged(disc[h])]
  /\ UNCHANGED <<classes, deficit, status, newFlows, oldFlows, nPackets, served>>

Init ==
  /\ classes = << >>
  /\ disc = [h \in Flows |-> Empty]
  /\ deficit = [h \in Flows |-> 0] /\ status = [h \in Flows |-> "INACTIVE"]
  /\ newFlows = << >> /\ oldFlows = << >>
  /\ nPackets = 0 /\ served = NoFlow

Next == (\E h \in Flows, size \in Sizes : Enqueue(h, size)) \/ Dequeue \/ Tick

(* The device goes on asking for packets: weak fairness of Dequeue with    *)
(* its ENABLED, which is costly to evaluate, written out.                  *)
Fairness == []<>(newFlows \o oldFlows = << >>) \/ []<><<Dequeue>>_vars
Spec == Init /\ [][Next]_vars /\ Fairness

----------------------------------------------------------------------------
(* The root's count, which every flow's disc changes through its drop      *)
(* callback and which is compared with the limit, is the number of packets *)
(* there are: in particular the packet that CoDel drops when it enters the *)
(* dropping state is not the one it returns, though the code for an empty  *)
(* queue there would return it as well, and the limit holds.               *)
CountsAgree ==
  /\ nPackets <= Limit
  /\ nPackets = SumFunction([h \in Flows |-> Len(disc[h].queue)])

(* A flow is in exactly the list its status says, once, and a flow with    *)
(* packets is in one: whatever emptied a flow in between, a packet over    *)
(* the limit included, no packet is left where no round finds it.          *)
ListsMatchStatus ==
  \A h \in Flows :
    LET in(list) == Cardinality({i \in DOMAIN list : list[i] = h})
    IN /\ in(newFlows) = (IF status[h] = "NEW_FLOW" THEN 1 ELSE 0)
       /\ in(oldFlows) = (IF status[h] = "OLD_FLOW" THEN 1 ELSE 0)
       /\ disc[h].queue # << >> => status[h] # "INACTIVE"

(* No flow starves: new flows are served first, but a flow cannot become   *)
(* new again and again to keep the others waiting.                         *)
NoStarvation ==
  \A h \in Flows : []<>(disc[h].queue = << >> \/ served = h)
=============================================================================
