------------------------------- MODULE Dctcp -------------------------------
(***************************************************************************)
(* tcp_dctcp.c, with the relentless reaction: one flow from its sender     *)
(* over a network that marks segments to its receiver and back.  The unit  *)
(* is the full segment of 1448 bytes.  Segments and ACKs stay in order and *)
(* none is lost.  dctcp_alpha and its byte counts are left out: since      *)
(* dctcp_ssthresh returns the window they steer nothing.                   *)
(***************************************************************************)
EXTENDS Integers, Sequences, FiniteSetsExt, SequencesExt

CONSTANTS
  Segments,                  \* sent (bound)
  InitialWindow, MaxWindow,  \* snd_cwnd, its growth (bound)
  Wrap                       \* 2^32, where snd_cwnd wraps

ASSUME DctcpAssumption ==
  /\ {Segments, InitialWindow, MaxWindow, Wrap} \subseteq Nat \ {0}
  /\ InitialWindow <= MaxWindow /\ MaxWindow < Wrap

VARIABLES
  sndNxt,               \* segments sent
  ce,                   \* history: which of those that arrived were marked
  r,                    \* the receiver, see Receiver
  acks,                 \* on their way
  sndUna, cwnd, ssthresh, ecnEcho,
  ideal                 \* history: a window that takes segments one by one
dctcpVars == <<sndNxt, ce, r, acks, sndUna, cwnd, ssthresh, ecnEcho, ideal>>

(* rcv_nxt, rcv_wup, prior_rcv_nxt and the flags; sent are the ACKs of one *)
(* step.  An ACK acknowledges up to "to" and echoes the mark in ece; what  *)
(* it covers starts at "from".                                             *)
Receiver ==
  [next |-> 0, acked |-> 0, prior |-> 0, ceState |-> FALSE, reserved |-> FALSE,
   demandCwr |-> FALSE, sent |-> << >>]

(* tcp_send_ack, with dctcp_update_ack_reserved for the event it raises    *)
SendAck(s) ==
  [s EXCEPT !.sent = Append(@, [from |-> s.acked, to |-> s.next, ece |-> s.demandCwr]),
            !.acked = s.next, !.reserved = FALSE]

(* tcp_send_delayed_ack                                                    *)
DelayAck(s) == [s EXCEPT !.reserved = TRUE]

(* dctcp_ce_state_0_to_1 and _1_to_0: segments whose ACK is delayed are    *)
(* acknowledged at once with the state they arrived in, as though the      *)
(* segment at hand had not arrived.                                        *)
AckAll(s, mark) ==   \* mutant: forgets to go back to prior_rcv_nxt
  IF s.ceState # mark /\ s.reserved THEN SendAck([s EXCEPT !.demandCwr = s.ceState]) ELSE s
AckPrevious(s, mark) ==
  IF s.ceState # mark /\ s.reserved
  THEN [SendAck([s EXCEPT !.demandCwr = s.ceState, !.next = s.prior]) EXCEPT !.next = s.next]
  ELSE s
CeState(s, mark) ==
  [AckPrevious(s, mark) EXCEPT !.prior = s.next, !.ceState = mark, !.demandCwr = mark]

(* dctcp_cwnd_event in the kernel's receive path: the segment is counted,  *)
(* a CWR clears the demand, the mark is looked at, and there is an ACK for *)
(* every second segment at the latest.                                     *)
Receive(mark, cwr, quick) ==
  LET got == [r EXCEPT !.next = @ + 1, !.demandCwr = @ /\ ~cwr, !.sent = << >>]
      seen == CeState(got, mark)
      answered == IF quick \/ seen.next - seen.acked > 1 THEN SendAck(seen) ELSE DelayAck(seen)
  IN /\ Len(ce) < sndNxt
     /\ ce' = Append(ce, mark)
     /\ r' = answered /\ acks' = acks \o answered.sent
     /\ UNCHANGED <<sndNxt, sndUna, cwnd, ssthresh, ecnEcho, ideal>>

DelayedAckTimer ==
  /\ r.acked < r.next
  /\ r' = SendAck([r EXCEPT !.sent = << >>]) /\ acks' = acks \o r'.sent
  /\ UNCHANGED <<sndNxt, ce, sndUna, cwnd, ssthresh, ecnEcho, ideal>>

Transmit ==
  /\ sndNxt < Segments /\ sndNxt - sndUna < cwnd
  /\ sndNxt' = sndNxt + 1
  /\ UNCHANGED <<ce, r, acks, sndUna, cwnd, ssthresh, ecnEcho, ideal>>

(* dctcp_update_alpha, on an ACK that echoes: half of what it acknowledges *)
(* is taken off the window, and the odd one is kept for the next.          *)
Forgotten(count) == 0   \* mutant: of the odd one
Carried(count) == count % 2
Reduced(window, n) == Max({(window - n) % Wrap, 1})

OneByOne(i, marked) ==
  IF ~marked THEN i
  ELSE IF i.odd THEN [window |-> Max({i.window - 1, 1}), odd |-> FALSE]
  ELSE [i EXCEPT !.odd = TRUE]

InAckEvent ==
  /\ acks # << >>
  /\ LET a == Head(acks)
         count == a.to - sndUna + ecnEcho
         each == FoldLeft(OneByOne, ideal, SubSeq(ce, sndUna + 1, a.to))
     IN \/ /\ a.ece
           /\ ecnEcho' = Carried(count)
           /\ cwnd' = Reduced(cwnd, count \div 2)
           /\ ssthresh' = Min({ssthresh, cwnd'})
           /\ ideal' = each
        \/ /\ ~a.ece
           /\ \E growth \in {0, 1} :     \* tcp_reno_cong_avoid
                /\ cwnd + growth <= MaxWindow
                /\ cwnd' = cwnd + growth
                /\ ideal' = [each EXCEPT !.window = @ + growth]
           /\ UNCHANGED <<ecnEcho, ssthresh>>
  /\ sndUna' = Head(acks).to /\ acks' = Tail(acks)
  /\ UNCHANGED <<sndNxt, ce, r>>

DctcpInit ==
  /\ sndNxt = 0 /\ ce = << >> /\ r = Receiver /\ acks = << >>
  /\ sndUna = 0 /\ cwnd = InitialWindow /\ ssthresh = MaxWindow /\ ecnEcho = 0
  /\ ideal = [window |-> InitialWindow, odd |-> FALSE]

DctcpNext ==
  \/ Transmit
  \/ \E mark, cwr, quick \in BOOLEAN : Receive(mark, cwr, quick)
  \/ DelayedAckTimer
  \/ InAckEvent

DctcpSpec == DctcpInit /\ [][DctcpNext]_dctcpVars

----------------------------------------------------------------------------
(* An ACK tells the truth about every segment it covers: it echoes a mark  *)
(* if all of them were marked and none if none was, whenever the state     *)
(* changes while an ACK is delayed and though a CWR may clear the demand   *)
(* just then.                                                              *)
EchoTruthful ==
  \A i \in DOMAIN acks : \A k \in acks[i].from + 1 .. acks[i].to : ce[k] = acks[i].ece

(* The sender's window is the one it would have if it had seen the mark of *)
(* each segment itself and taken one off at every second: however segments *)
(* were put together in ACKs, no mark is lost or counted twice, and the    *)
(* subtraction does not wrap.                                              *)
EveryMarkCounts ==
  /\ cwnd = ideal.window
  /\ ecnEcho = IF ideal.odd THEN 1 ELSE 0
=============================================================================
