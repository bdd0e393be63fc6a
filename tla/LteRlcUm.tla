------------------------------ MODULE LteRlcUm ------------------------------
(***************************************************************************)
(* lte-rlc-um.cc: the two ends of an RLC entity in unacknowledged mode.    *)
(* The sender cuts SDUs to the size of the opportunities the MAC gives it  *)
(* and puts the pieces into numbered PDUs; the receiver puts PDUs that     *)
(* HARQ delivers out of order, twice or never back in order within a       *)
(* window, and the pieces together again.  Sequence numbers count modulo   *)
(* Modulus (1024), the window is half of it.  What the AQM marks or drops  *)
(* before an SDU is accepted is in LteCoupling.                            *)
(***************************************************************************)
EXTENDS Integers, Sequences, SequencesExt

CONSTANTS
  Modulus,        \* 2^10 in SequenceNumber10
  StartSNs,       \* sequence numbers reached when the model starts
  MaxLI,          \* 2047, the longest SDU a length indicator can describe
  SduSizes, Opportunities,   \* in bytes
  MaxTxBufferSize,           \* in bytes
  MaxSdus,        \* SDUs accepted (bound)
  Spread,         \* by how many PDUs HARQ lets one be overtaken (assumed)
  MaxAwait,       \* PDUs sent in the 100 ms of the reordering timer (assumed)
  Duplicates      \* BOOLEAN, a PDU may arrive twice

(* In an uplink or downlink of one PDU per millisecond some 100 PDUs are   *)
(* sent while the timer runs, and HARQ gives up after three or four round  *)
(* trips of 8 ms.  A PDU may arrive late and then wait for the end of two  *)
(* runs of the timer: together that is less than the window of 512.        *)
ASSUME RlcAssumption ==
  /\ Modulus \in Nat /\ Modulus % 2 = 0 /\ Modulus > 2
  /\ StartSNs \subseteq 0 .. Modulus - 1
  /\ Spread \in Nat \ {0} /\ MaxAwait \in Nat
  /\ Spread + 2 * MaxAwait <= Modulus \div 2
  /\ SduSizes \subseteq Nat \ {0} /\ {MaxLI, MaxTxBufferSize} \cup Opportunities \subseteq Nat

VARIABLES
  txBuffer, sequenceNumber,            \* segments to send, m_sequenceNumber
  reported, rbsTimer,                  \* what the MAC believes, m_rbsTimer runs
  air,                                 \* PDUs on their way
  rxBuffer, vrUr, vrUx, vrUh,          \* reception buffer and window
  reordering,                          \* NotRunning, or PDUs sent while it runs
  reassembly,                          \* expected SN, state, S0, SDU list, delivered
  sdus, transmitted, heard             \* history: sizes of SDUs, numbers of PDUs sent
                                       \* and of those up to the latest that arrived
sender == <<txBuffer, sequenceNumber, reported, rbsTimer>>
window == <<rxBuffer, vrUr, vrUx, vrUh, reordering>>
receiver == <<window, reassembly>>
vars == <<sender, air, receiver, sdus, transmitted, heard>>

NotRunning == -1
WindowSize == Modulus \div 2

(* SequenceNumber10: arithmetic modulo Modulus; a comparison is one of the *)
(* distances from the modulus base                                         *)
Plus(sn, n) == (sn + n) % Modulus
Minus(sn, n) == (sn - n) % Modulus
Less(a, b, base) == Minus(a, base) < Minus(b, base)

----------------------------------------------------------------------------
(* the sender                                                              *)

Segment(sdu, from, to, status) == [sdu |-> sdu, from |-> from, to |-> to, status |-> status]
SizeOf(s) == s.to - s.from
BytesOf(buffer) ==
  LET upTo[k \in 0 .. Len(buffer)] ==
        IF k = 0 THEN 0 ELSE upTo[k - 1] + SizeOf(buffer[k])
  IN upTo[Len(buffer)]

(* DoReportBufferStatus: the data and an estimate of two bytes of header   *)
(* for each packet                                                         *)
ReportOf(buffer) == BytesOf(buffer) + 2 * Len(buffer)

(* the end of DoTransmitPdcpPdu: an SDU that the AQM lets pass is accepted *)
(* if there is room, and the buffer reported in either case                *)
DoTransmitPdcpPdu ==
  /\ Len(sdus) < MaxSdus
  /\ \E size \in SduSizes :
       IF BytesOf(txBuffer) + size <= MaxTxBufferSize
       THEN /\ sdus' = Append(sdus, size)
            /\ txBuffer' = Append(txBuffer, Segment(Len(sdus) + 1, 0, size, "FULL_SDU"))
       ELSE UNCHANGED <<sdus, txBuffer>>
  /\ reported' = ReportOf(txBuffer') /\ rbsTimer' = FALSE
  /\ UNCHANGED <<sequenceNumber, air, receiver, transmitted, heard>>

(* A segment that is cut, and what is given back of it                     *)
Cut(s, size) ==
  Segment(s.sdu, s.from, s.from + size,
    IF SizeOf(s) = size THEN s.status
    ELSE IF s.status = "FULL_SDU" THEN "FIRST_SEGMENT" ELSE "MIDDLE_SEGMENT")
Rest(s, size) == Segment(s.sdu, s.from + size, s.to, "LAST_SEGMENT")

(* What is left of size bytes for the k-th segment of the buffer: those    *)
(* before it have a length indicator and an extension bit each, one byte   *)
(* and a half.                                                             *)
RoomFor(k, buffer, size) ==
  size - BytesOf(SubSeq(buffer, 1, k - 1)) - (3 * (k - 1) + 1) \div 2

(* The while loop takes whole segments up to the first after which there   *)
(* is no room for another or which a length indicator cannot describe, and *)
(* of that one as much as fits.                                            *)
Fill(buffer, size) ==
  LET room(k) == RoomFor(k, buffer, size)
      last == Min({k \in DOMAIN buffer :
                     \/ room(k) - SizeOf(buffer[k]) <= 2
                     \/ SizeOf(buffer[k]) > MaxLI
                     \/ k = Len(buffer)})
      s == buffer[last]
      taken == IF SizeOf(s) < room(last) THEN SizeOf(s) ELSE room(last)
  IN [data |-> Append(SubSeq(buffer, 1, last - 1), Cut(s, taken)),
      buffer |-> (IF taken = SizeOf(s) THEN << >> ELSE <<Rest(s, taken)>>)
                 \o SubSeq(buffer, last + 1, Len(buffer))]

(* The MAC gives an opportunity while it believes that data is pending,    *)
(* and then believes that there is as much less, but for 2 bytes of header *)
Granted(bytes) == IF bytes - 2 >= reported THEN 0 ELSE reported - (bytes - 2)

DoNotifyTxOpportunity(bytes) ==
  /\ reported > 0
  /\ \A p \in air : transmitted - p.no < Spread
  /\ reordering < MaxAwait
  /\ reported' = IF bytes <= 2 THEN reported ELSE Granted(bytes)
  /\ IF bytes <= 2 \/ txBuffer = << >>
     THEN UNCHANGED <<txBuffer, sequenceNumber, rbsTimer, air, reordering, transmitted>>
     ELSE LET pdu == Fill(txBuffer, bytes - 2)
          IN /\ txBuffer' = pdu.buffer
             /\ air' = air \cup {[sn |-> sequenceNumber, data |-> pdu.data, no |-> transmitted]}
             /\ sequenceNumber' = Plus(sequenceNumber, 1)
             /\ transmitted' = transmitted + 1
             /\ rbsTimer' = (rbsTimer \/ txBuffer' # << >>)
             /\ reordering' = IF reordering = NotRunning THEN NotRunning ELSE reordering + 1
  /\ UNCHANGED <<rxBuffer, vrUr, vrUx, vrUh, reassembly, sdus, heard>>

SilentRbsTimer ==   \* mutant: runs on without a report
  /\ rbsTimer
  /\ rbsTimer' = (txBuffer # << >>)
  /\ reported' = reported
  /\ UNCHANGED <<txBuffer, sequenceNumber, air, receiver, sdus, transmitted, heard>>

ExpireRbsTimer ==
  /\ rbsTimer
  /\ rbsTimer' = (txBuffer # << >>)
  /\ reported' = IF txBuffer # << >> THEN ReportOf(txBuffer) ELSE reported
  /\ UNCHANGED <<txBuffer, sequenceNumber, air, receiver, sdus, transmitted, heard>>

----------------------------------------------------------------------------
(* reassembly                                                              *)

(* AddAtEnd: a packet is the sequence of the stretches of SDUs it holds    *)
Piece(s) == <<[sdu |-> s.sdu, from |-> s.from, to |-> s.to]>>
AddAtEnd(packet, s) ==
  LET l == Last(packet)
  IN IF l.sdu = s.sdu /\ l.to = s.from
     THEN Append(Front(packet), [l EXCEPT !.to = s.to]) ELSE packet \o Piece(s)

(* the PDU continues what was kept, none being lost in between             *)
LosslessResumes(r, p) == r.state = "WAITING_SI_SF"   \* mutant
Resumes(r, p) == p.sn = r.expected /\ r.state = "WAITING_SI_SF"

(* the last packet of the PDU is whole, or there is none                   *)
LeftOpen(ends, packets) == packets = << >>   \* mutant: LAST_BYTE is not looked at
Ends(ends, packets) == ends \/ packets = << >>

(* One PDU.  What is new: the data of a PDU that continues what was kept   *)
(* is added to it, if no PDU is missing in between; else a first segment   *)
(* that is not the start of an SDU is thrown away.  A PDU that starts a    *)
(* new SDU where the rest of one is expected is an internal error and      *)
(* stays in the list.                                                      *)
ReassembleAndDeliver(r, p) ==
  LET resumes == Resumes(r, p)
      starts == Head(p.data).status \in {"FULL_SDU", "FIRST_SEGMENT"}
      ends == Last(p.data).status \in {"FULL_SDU", "LAST_SEGMENT"}
      list == r.sdusBuffer \o [k \in DOMAIN p.data |-> Piece(p.data[k])]
      packets == IF resumes THEN <<AddAtEnd(r.keepS0, Head(list)[1])>> \o Tail(list)
                 ELSE IF starts THEN list ELSE Tail(list)
      next == [r EXCEPT !.expected = Plus(p.sn, 1)]
  IN IF resumes /\ starts THEN [next EXCEPT !.sdusBuffer = list]
     ELSE IF Ends(ends, packets) THEN
       [next EXCEPT !.state = "WAITING_S0_FULL", !.keepS0 = << >>, !.sdusBuffer = << >>,
                    !.delivered = @ \o packets]
     ELSE
       [next EXCEPT !.state = "WAITING_SI_SF", !.keepS0 = Last(packets), !.sdusBuffer = << >>,
                    !.delivered = @ \o Front(packets)]

(* r after the PDUs of buffer under the given keys, one number after the   *)
(* other from first on                                                     *)
Reassembled(r, keys, first, buffer) ==
  LET upTo[k \in 0 .. Modulus] ==
        IF k = 0 THEN r
        ELSE LET sn == Plus(first, k - 1)
             IN IF sn \in keys THEN ReassembleAndDeliver(upTo[k - 1], buffer[sn]) ELSE upTo[k - 1]
  IN upTo[Modulus]

----------------------------------------------------------------------------
(* the reordering window                                                   *)

IsInsideReorderingWindow(sn, uh) ==
  Minus(sn, Minus(uh, WindowSize)) < WindowSize

(* ReassembleOutsideWindow goes through the keys from the smallest, up to  *)
(* the first that is inside                                                *)
OutsideWindow(buffer, uh) ==
  {k \in DOMAIN buffer :
     \A j \in DOMAIN buffer : j <= k => ~IsInsideReorderingWindow(j, uh)}

(* the keys ReassembleSnInterval goes through                              *)
SnInterval(buffer, low, high, base) ==
  {k \in DOMAIN buffer : ~Less(k, low, base) /\ Less(k, high, base)}

(* VR(UR) moves past the PDUs that are there.  newVrUr is a raw uint16_t   *)
(* that does not wrap before it is assigned.                               *)
NextMissing(buffer, ur) ==
  Plus(CHOOSE n \in ur + 1 .. Modulus :
         n \notin DOMAIN buffer /\ \A k \in ur + 1 .. n - 1 : k \in DOMAIN buffer, 0)

(* the reordering timer has something to wait for: VR(UH) > VR(UR)         *)
LateGap(ur, uh) ==   \* mutant: not for a single PDU
  Less(Plus(ur, 2), uh, Minus(uh, WindowSize))
Gap(ur, uh) == Less(ur, uh, Minus(uh, WindowSize))

(* received before or too late                                             *)
OnlyTwice(p, base) ==   \* mutant: never too late
  Less(vrUr, p.sn, base) /\ Less(p.sn, vrUh, base) /\ p.sn \in DOMAIN rxBuffer
Discarded(p, base) ==
  \/ Less(vrUr, p.sn, base) /\ Less(p.sn, vrUh, base) /\ p.sn \in DOMAIN rxBuffer
  \/ Less(p.sn, vrUr, base)

DoReceivePdu(p) ==
  LET base == Minus(vrUh, WindowSize)
      placed == [k \in DOMAIN rxBuffer \cup {p.sn} |-> IF k = p.sn THEN p ELSE rxBuffer[k]]
      outside == ~IsInsideReorderingWindow(p.sn, vrUh)
      uh == IF outside THEN Plus(p.sn, 1) ELSE vrUh
      old == IF outside THEN OutsideWindow(placed, uh) ELSE {}
      kept == [k \in DOMAIN placed \ old |-> placed[k]]
      reset == outside /\ ~IsInsideReorderingWindow(vrUr, uh)
      low == IF reset THEN Minus(uh, WindowSize) ELSE vrUr
      lowBase == IF reset THEN low ELSE base
      high == IF low \in DOMAIN kept THEN NextMissing(kept, low) ELSE low
      complete == SnInterval(kept, low, high, lowBase)
      newBase == Minus(uh, WindowSize)
      runs == /\ reordering # NotRunning
              /\ Less(high, vrUx, newBase)
              /\ IsInsideReorderingWindow(vrUx, uh) \/ vrUx = uh
      starts == ~runs /\ Gap(high, uh)
  IN IF Discarded(p, base) THEN UNCHANGED receiver
     ELSE /\ reassembly' = Reassembled(Reassembled(reassembly, old, 0, placed),
                                       complete, low, placed)
          /\ rxBuffer' = [k \in DOMAIN kept \ complete |-> kept[k]]
          /\ vrUh' = uh /\ vrUr' = high
          /\ vrUx' = IF starts THEN uh ELSE vrUx
          /\ reordering' = IF starts THEN 0 ELSE IF runs THEN reordering ELSE NotRunning

(* the first number from sn on that is not there                           *)
FirstMissingAtUr(sn) == vrUr   \* mutant: the gap itself
FirstMissing(sn) ==
  Plus(sn, CHOOSE m \in 0 .. Modulus :
             /\ Plus(sn, m) \notin DOMAIN rxBuffer
             /\ \A k \in 0 .. m - 1 : Plus(sn, k) \in DOMAIN rxBuffer)

ExpireReorderingTimer ==
  /\ reordering # NotRunning
  /\ LET base == Minus(vrUh, WindowSize)
         high == FirstMissing(vrUx)
         complete == SnInterval(rxBuffer, vrUr, high, base)
         starts == Gap(high, vrUh)
     IN /\ reassembly' = Reassembled(reassembly, complete, vrUr, rxBuffer)
        /\ rxBuffer' = [k \in DOMAIN rxBuffer \ complete |-> rxBuffer[k]]
        /\ vrUr' = high
        /\ vrUx' = IF starts THEN vrUh ELSE vrUx
        /\ reordering' = IF starts THEN 0 ELSE NotRunning
  /\ UNCHANGED <<sender, air, vrUh, sdus, transmitted, heard>>

----------------------------------------------------------------------------
(* HARQ: a PDU arrives, perhaps not for the last time, or is given up      *)
Arrive(p) ==
  /\ DoReceivePdu(p)
  /\ air' = air \ {p} \/ (Duplicates /\ air' = air)
  /\ heard' = IF p.no < heard THEN heard ELSE p.no + 1
  /\ UNCHANGED <<sender, sdus, transmitted>>
Lose(p) ==
  air' = air \ {p} /\ UNCHANGED <<sender, receiver, sdus, transmitted, heard>>

(* All PDUs up to one of StartSNs have arrived in order.                   *)
Init ==
  /\ sequenceNumber \in StartSNs
  /\ txBuffer = << >> /\ reported = 0 /\ rbsTimer = FALSE /\ air = {}
  /\ rxBuffer = << >> /\ vrUr = sequenceNumber /\ vrUh = sequenceNumber /\ vrUx = 0
  /\ reordering = NotRunning
  /\ reassembly = [expected |-> sequenceNumber, state |-> "WAITING_S0_FULL",
                   keepS0 |-> << >>, sdusBuffer |-> << >>, delivered |-> << >>]
  /\ sdus = << >> /\ transmitted = 0 /\ heard = 0

Next ==
  \/ DoTransmitPdcpPdu
  \/ \E bytes \in Opportunities : DoNotifyTxOpportunity(bytes)
  \/ ExpireRbsTimer
  \/ \E p \in air : Arrive(p) \/ Lose(p)
  \/ ExpireReorderingTimer

(* The timers expire; the scheduler does not starve a bearer that has      *)
(* reported data, and its opportunities are not all too small; HARQ does   *)
(* not keep a PDU for ever.  The second conjunct is weak fairness with its *)
(* ENABLED, which is costly to evaluate, written out.                      *)
Fairness ==
  /\ WF_vars(ExpireRbsTimer)
  /\ []<>(reordering = NotRunning) \/ []<><<ExpireReorderingTimer>>_vars
  /\ WF_vars(\E bytes \in Opportunities : bytes > 2 /\ DoNotifyTxOpportunity(bytes))
  /\ WF_vars(\E p \in air : Lose(p) \/ (air' = air \ {p} /\ Arrive(p)))

Safety == Init /\ [][Next]_vars
Spec == Safety /\ Fairness

----------------------------------------------------------------------------
(* The sequence numbers are enough: a PDU on the air or in the reception   *)
(* buffer is never taken for one of another cycle.  Those in the buffer    *)
(* are of the latest half cycle sent, and no number stands for two PDUs at *)
(* once.                                                                   *)
NoAliasing ==
  LET waiting == {rxBuffer[k] : k \in DOMAIN rxBuffer}
  IN /\ \A p \in waiting : transmitted - p.no <= WindowSize
     /\ \A p, q \in waiting \cup air : p.sn = q.sn => p = q

(* Nothing waits for something that is not going to happen: where a PDU is *)
(* missing the reordering timer runs, and where data waits to be sent the  *)
(* MAC knows of it or the timer that tells it again runs, though accepting *)
(* an SDU cancels that timer.                                              *)
NeverStranded ==
  /\ vrUr # vrUh => reordering # NotRunning
  /\ txBuffer # << >> => reported > 0 \/ rbsTimer

SegmentType ==
  [sdu : 1 .. Len(sdus), from : Nat, to : Nat,
   status : {"FULL_SDU", "FIRST_SEGMENT", "MIDDLE_SEGMENT", "LAST_SEGMENT"}]

(* The variables have the types their uses expect; in particular no        *)
(* segment is empty, each receiver key is the number its PDU carries, and  *)
(* a PDU that cannot continue what was kept never ends in the SDU list.    *)
RlcTypeOK ==
  /\ \A k \in DOMAIN txBuffer : txBuffer[k] \in SegmentType /\ SizeOf(txBuffer[k]) > 0
  /\ sequenceNumber \in 0 .. Modulus - 1 /\ reported \in Nat /\ rbsTimer \in BOOLEAN
  /\ {vrUr, vrUx, vrUh} \subseteq 0 .. Modulus - 1
  /\ reordering \in NotRunning .. MaxAwait
  /\ \A k \in DOMAIN rxBuffer : rxBuffer[k].sn = k
  /\ reassembly.sdusBuffer = << >>
  /\ (reassembly.keepS0 # << >>) <=> (reassembly.state = "WAITING_SI_SF")

(* What comes out as what RlcPromise calls it: the number of an SDU that   *)
(* is whole, and 0 for anything else.                                      *)
Identity(packet) ==
  LET i == Head(packet).sdu
  IN IF packet = <<[sdu |-> i, from |-> 0, to |-> sdus[i]]>> THEN i ELSE 0
delivered == reassembly.delivered
Promise ==
  INSTANCE RlcPromise WITH
    accepted <- Len(sdus),
    out <- [k \in DOMAIN delivered |-> Identity(delivered[k])]

(* The two ends together keep what unacknowledged mode promises: no SDU is *)
(* delivered twice, out of order, or joined from pieces of different SDUs  *)
(* or with a piece missing, whatever HARQ loses, reorders or repeats and   *)
(* wherever the sequence numbers wrap.  It takes that SomeHeard holds.     *)
PromiseKept == Promise!Spec

(* HARQ never loses half a cycle of PDUs in a row.  After that many the    *)
(* next half is taken for PDUs that are too late and discarded as well,    *)
(* and the first of the next cycle for the one that is expected.           *)
SomeHeard == transmitted - heard <= WindowSize
=============================================================================
