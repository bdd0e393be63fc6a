---------------------------- MODULE TwoBandQueue ----------------------------
(***************************************************************************)
(* What every L4S queue disc of this repository promises to the traffic    *)
(* control layer, whatever its controller and its scheduler: a bounded     *)
(* buffer of two FIFO bands, chosen by the ECN codepoint a packet arrives  *)
(* with.  An arrival is accepted or refused at once; an accepted packet    *)
(* leaves exactly once, from the head of its band, delivered or discarded; *)
(* a packet can change on its way only from ECT to CE; and a dequeue comes *)
(* back empty-handed only when nothing is stored.                          *)
(***************************************************************************)
EXTENDS Integers, Sequences

CONSTANTS QueueLimit

VARIABLES
  band,      \* the packets waiting, [id, from, ecn], by band; "from" is the
             \* codepoint the packet arrived with
  arrivals,  \* packets that have arrived; the id of a packet is its number
  answer     \* what the last dequeue returned; [id |-> 0, ...] for nothing

vars == <<band, arrivals, answer>>

Ecn == {"NotECT", "ECT0", "ECT1", "CE"}
Bands == {0, 1}
Nothing == [id |-> 0, from |-> "NotECT", ecn |-> "NotECT"]

(* the codepoints with which a packet may be passed on                     *)
PassedOn(ecn) == IF ecn \in {"ECT0", "ECT1"} THEN {ecn, "CE"} ELSE {ecn}

Init == band = [b \in Bands |-> <<>>] /\ arrivals = 0 /\ answer = Nothing

Accept ==
  \E from \in Ecn : \E e \in PassedOn(from) :
    LET b == IF from \in {"ECT1", "CE"} THEN 0 ELSE 1
    IN /\ Len(band[0]) + Len(band[1]) < QueueLimit
       /\ arrivals' = arrivals + 1
       /\ band' = [band EXCEPT ![b] =
                     Append(@, [id |-> arrivals + 1, from |-> from, ecn |-> e])]
       /\ UNCHANGED answer

Refuse == arrivals' = arrivals + 1 /\ UNCHANGED <<band, answer>>

Leave(b) == band[b] # <<>> /\ band' = [band EXCEPT ![b] = Tail(@)] /\ UNCHANGED arrivals

Discard == \E b \in Bands : Leave(b) /\ UNCHANGED answer

Deliver ==
  \E b \in Bands :
    /\ Leave(b)
    /\ \E e \in PassedOn(Head(band[b]).ecn) : answer' = [Head(band[b]) EXCEPT !.ecn = e]

NothingToDeliver ==
  /\ \A b \in Bands : band[b] = <<>>
  /\ answer' = Nothing
  /\ UNCHANGED <<band, arrivals>>

Next == Accept \/ Refuse \/ Discard \/ Deliver \/ NothingToDeliver

Spec == Init /\ [][Next]_vars
=============================================================================
