---------------------------- MODULE LteCoupling ----------------------------
(***************************************************************************)
(* lte-rlc-um.cc: how the L4S bearer (channel 5) and the Classic bearer    *)
(* (channel 4) of an eNodeB find one another and what the L4S bearer       *)
(* reports for both.  Each bearer takes the other's address to be its own  *)
(* less or more the size of a bearer (Ptr::Decrease) and believes it when  *)
(* the token there is right; that the two are adjacent is assumed.  A Ptr  *)
(* that is moved this way leaves the reference counts of ptr.h behind.     *)
(* What RED and PIE say of a packet is a free choice.                      *)
(***************************************************************************)
EXTENDS Integers

CONSTANTS
  MaxArrivals,     \* of packets (bound)
  PacketSizes,
  MaxTxBufferSize,
  Holders,         \* references to a bearer that others hold: the RRC has one
  Word             \* 2^32, bytesTransmitted is a uint32_t

Bearers == {"L4S", "Classic"}
Other(b) == IF b = "L4S" THEN "Classic" ELSE "L4S"

VARIABLES
  typed,                    \* l4s and red as they are typed in at the prompt
  token, fIsInit, qIsInit,  \* of each bearer, as are:
  queueHandle, refs,        \* m_queueHandle, the count of references
  l4s, red,
  txBufferSize, throughputCount,
  inQueue,                  \* arguments of the ThroughputTrace to come
  traced,                   \* history: sum of the rows of the throughput file
  left, refused,            \* history: bytes given to the MAC, forced drops
  arrived                   \* packets so far
setup == <<token, fIsInit, qIsInit, queueHandle, refs, l4s, red>>
counts == <<txBufferSize, throughputCount, inQueue, traced, left, refused>>
lteVars == <<typed, setup, counts, arrived>>

(* "Couple" at each packet as long as it fails: the handle is set to this  *)
(* bearer, moved to the other, and set back if the token differs, and each *)
(* assignment releases what the handle points to and acquires its value.   *)
AnyToken(b) == TRUE   \* mutant: trusts the address alone
Matches(b) == token[Other(b)] /\ (b = "Classic" => fIsInit[Other(b)])
Couple(b) ==
  /\ token' = [token EXCEPT ![b] = TRUE]
  /\ IF Matches(b)
     THEN /\ qIsInit' = [qIsInit EXCEPT ![b] = TRUE]
          /\ queueHandle' = [queueHandle EXCEPT ![b] = Other(b)]
          /\ refs' = refs
     ELSE /\ refs' = [refs EXCEPT ![Other(b)] = @ - 1, ![b] = @ + 1]
          /\ UNCHANGED <<qIsInit, queueHandle>>

(* The L4S bearer reads the settings, the Classic bearer copies them.      *)
Start(b) ==
  /\ fIsInit' = [fIsInit EXCEPT ![b] = TRUE]
  /\ IF qIsInit[b] THEN UNCHANGED <<token, qIsInit, queueHandle, refs>> ELSE Couple(b)
  /\ LET settles == b = "L4S" /\ ~fIsInit[b]
         copies == b = "Classic" /\ ~qIsInit[b] /\ qIsInit'[b]
         new(old, key) == IF settles THEN [old EXCEPT ![b] = typed[key]]
                          ELSE IF copies THEN [old EXCEPT ![b] = old[Other(b)]] ELSE old
     IN l4s' = new(l4s, "l4s") /\ red' = new(red, "red")

(* DoTransmitPdcpPdu, for a downlink packet of the bearer's own sender: it *)
(* is dropped early, or counted and, if there is room, kept.               *)
DoTransmitPdcpPdu(b, size, signal, ecnCapable) ==
  /\ arrived < MaxArrivals /\ arrived' = arrived + 1
  /\ Start(b)
  /\ IF signal /\ ~ecnCapable THEN UNCHANGED counts
     ELSE /\ throughputCount' = [throughputCount EXCEPT ![b] = @ + size]
          /\ IF txBufferSize[b] + size <= MaxTxBufferSize
             THEN txBufferSize' = [txBufferSize EXCEPT ![b] = @ + size] /\ refused' = refused
             ELSE refused' = [refused EXCEPT ![b] = @ + size] /\ txBufferSize' = txBufferSize
          /\ UNCHANGED <<inQueue, traced, left>>
  /\ UNCHANGED typed

(* DoNotifyTxOpportunity, see LteRlcUm                                     *)
DoNotifyTxOpportunity(b, bytes) ==
  /\ bytes <= txBufferSize[b]
  /\ txBufferSize' = [txBufferSize EXCEPT ![b] = @ - bytes]
  /\ left' = [left EXCEPT ![b] = @ + bytes]
  /\ UNCHANGED <<typed, setup, throughputCount, inQueue, traced, refused, arrived>>

(* Once a second from the start of the L4S bearer on.  Before it is        *)
(* coupled its row shows 0 for the Classic bearer.                         *)
Transmitted(b) == (inQueue[b] + throughputCount[b] - txBufferSize[b]) % Word
Seen == IF qIsInit["L4S"] THEN Bearers ELSE {"L4S"}
AllInQueue(b) == txBufferSize[b]   \* mutant: read though it is not coupled
NextInQueue(b) == IF b \in Seen THEN txBufferSize[b] ELSE 0
ThroughputTrace ==
  /\ fIsInit["L4S"]
  /\ traced' = [b \in Bearers |-> IF b \in Seen THEN traced[b] + Transmitted(b) ELSE traced[b]]
  /\ throughputCount' = [b \in Bearers |-> IF b \in Seen THEN 0 ELSE throughputCount[b]]
  /\ inQueue' = [b \in Bearers |-> NextInQueue(b)]
  /\ UNCHANGED <<typed, setup, txBufferSize, left, refused, arrived>>

LteInit ==
  /\ typed \in [l4s : BOOLEAN, red : BOOLEAN]
  /\ LET none == [b \in Bearers |-> FALSE]
         zero == [b \in Bearers |-> 0]
     IN /\ token = none /\ fIsInit = none /\ qIsInit = none /\ l4s = none /\ red = none
        /\ txBufferSize = zero /\ throughputCount = zero /\ inQueue = zero
        /\ traced = zero /\ left = zero /\ refused = zero
  /\ queueHandle = [b \in Bearers |-> b]
  /\ refs = [b \in Bearers |-> Holders + 1]    \* the handle's own
  /\ arrived = 0

(* What happens after a bearer has been deleted is undefined.              *)
LteNext ==
  /\ \A b \in Bearers : refs[b] > 0
  /\ \/ \E b \in Bearers, size \in PacketSizes, signal, ecnCapable \in BOOLEAN :
          DoTransmitPdcpPdu(b, size, signal, ecnCapable)
     \/ \E b \in Bearers, bytes \in 1 .. MaxTxBufferSize : DoNotifyTxOpportunity(b, bytes)
     \/ ThroughputTrace

LteSpec == LteInit /\ [][LteNext]_lteVars

----------------------------------------------------------------------------
(* A bearer that has coupled points to the other, which is up, and both    *)
(* then use the same mechanism with the same settings, in whatever order   *)
(* their first packets come; one that has not uses no one else's state.    *)
CoupledAlike ==
  /\ \A b \in Bearers : queueHandle[b] = IF qIsInit[b] THEN Other(b) ELSE b
  /\ \A b \in Bearers : qIsInit[b] => fIsInit[Other(b)]
  /\ qIsInit["Classic"] => /\ l4s = [b \in Bearers |-> typed.l4s]
                           /\ red = [b \in Bearers |-> typed.red]

(* The rows of the throughput file account for every byte once: those      *)
(* written and the one to come show what has left the buffer, or would     *)
(* have, had it not been full; also for the Classic bearer's time before   *)
(* the L4S bearer finds it.                                                *)
EveryByteTraced ==
  \A b \in Bearers : traced[b] + Transmitted(b) = left[b] + refused[b]

(* ptr.h:136-139: "... the smart pointer will eventually do the same, so   *)
(* that object is deleted if no more references to it remain": a bearer is *)
(* not deleted while the RRC refers to it.                                 *)
KeptWhileReferred == \A b \in Bearers : refs[b] > 0
=============================================================================
