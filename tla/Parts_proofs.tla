---------------------------- MODULE Parts_proofs ----------------------------
(***************************************************************************)
(* Theorems about the two LTE bearers, for any number of packets, of any   *)
(* sizes, and any reference counts, about DCTCP, for any number of         *)
(* segments and any pattern of marks, CWRs and delayed ACKs, and about     *)
(* FqCoDel, for any flows, limits and packets.                             *)
(***************************************************************************)
EXTENDS FqCoDel, LteCoupling, Dctcp, FiniteSetTheorems, WellFoundedInduction, TLAPS

(* What the handshake rests on: a bearer sets its token when it starts and *)
(* couples only with one that has started, and by then the L4S bearer has  *)
(* read the settings that the Classic bearer copies.                       *)
SetupTypeOK ==
  /\ typed \in [l4s : BOOLEAN, red : BOOLEAN]
  /\ token \in [Bearers -> BOOLEAN] /\ fIsInit \in [Bearers -> BOOLEAN]
  /\ qIsInit \in [Bearers -> BOOLEAN] /\ queueHandle \in [Bearers -> Bearers]
  /\ l4s \in [Bearers -> BOOLEAN] /\ red \in [Bearers -> BOOLEAN]

SetupInv ==
  /\ SetupTypeOK
  /\ \A b \in Bearers : token[b] = fIsInit[b]
  /\ \A b \in Bearers : queueHandle[b] = IF qIsInit[b] THEN Other(b) ELSE b
  /\ \A b \in Bearers : qIsInit[b] => fIsInit[b] /\ fIsInit[Other(b)]
  /\ fIsInit["L4S"] => l4s["L4S"] = typed.l4s /\ red["L4S"] = typed.red
  /\ qIsInit["Classic"] => l4s["Classic"] = l4s["L4S"] /\ red["Classic"] = red["L4S"]

LEMMA TwoBearers ==
  /\ "L4S" \in Bearers /\ "Classic" \in Bearers /\ "L4S" # "Classic"
  /\ Other("L4S") = "Classic" /\ Other("Classic") = "L4S"
  /\ \A b \in Bearers : Other(b) \in Bearers /\ Other(b) # b /\ (b = "L4S" \/ b = "Classic")
BY DEF Bearers, Other

LEMMA SetupInit == LteInit => SetupInv
BY TwoBearers DEF LteInit, SetupInv, SetupTypeOK

(* The first packet, or a later one, of the L4S bearer.                    *)
LEMMA StartL4S ==
  ASSUME SetupInv, Start("L4S"), UNCHANGED typed
  PROVE  SetupInv'
<1>1. fIsInit' = [fIsInit EXCEPT !["L4S"] = TRUE]
  BY DEF Start
<1>2. /\ l4s' = IF ~fIsInit["L4S"] THEN [l4s EXCEPT !["L4S"] = typed.l4s] ELSE l4s
      /\ red' = IF ~fIsInit["L4S"] THEN [red EXCEPT !["L4S"] = typed.red] ELSE red
  BY TwoBearers DEF Start
<1>3. typed.l4s \in BOOLEAN /\ typed.red \in BOOLEAN
  BY DEF SetupInv, SetupTypeOK
<1>4. CASE qIsInit["L4S"]
  <2>1. UNCHANGED <<token, qIsInit, queueHandle>>
    BY <1>4 DEF Start
  <2> QED
    BY <1>1, <1>2, <1>3, <1>4, <2>1, TwoBearers DEF SetupInv, SetupTypeOK
<1>5. CASE ~qIsInit["L4S"]
  <2>1. token' = [token EXCEPT !["L4S"] = TRUE]
    BY <1>5 DEF Start, Couple
  <2>2. /\ l4s' \in [Bearers -> BOOLEAN] /\ red' \in [Bearers -> BOOLEAN]
        /\ l4s'["L4S"] = typed.l4s /\ red'["L4S"] = typed.red
        /\ qIsInit["Classic"] => UNCHANGED <<l4s, red>>
    BY <1>2, <1>3, TwoBearers DEF SetupInv, SetupTypeOK
  <2>3. \A b \in Bearers : token'[b] = fIsInit'[b]
    BY <1>1, <2>1 DEF SetupInv, SetupTypeOK
  <2>4. CASE Matches("L4S")
    <3>1. /\ fIsInit["Classic"]
          /\ qIsInit' = [qIsInit EXCEPT !["L4S"] = TRUE]
          /\ queueHandle' = [queueHandle EXCEPT !["L4S"] = "Classic"]
      BY <1>5, <2>4, TwoBearers DEF Start, Couple, Matches, SetupInv
    <3>2. SetupTypeOK'
      BY <1>1, <2>1, <2>2, <3>1, TwoBearers DEF SetupInv, SetupTypeOK
    <3>3. \A b \in Bearers : queueHandle'[b] = IF qIsInit'[b] THEN Other(b) ELSE b
      BY <3>1, TwoBearers DEF SetupInv, SetupTypeOK
    <3>4. \A b \in Bearers : qIsInit'[b] => fIsInit'[b] /\ fIsInit'[Other(b)]
      BY <1>1, <3>1, TwoBearers DEF SetupInv, SetupTypeOK
    <3>5. qIsInit'["Classic"] =>
            l4s'["Classic"] = l4s'["L4S"] /\ red'["Classic"] = red'["L4S"]
      BY <2>2, <3>1, TwoBearers DEF SetupInv, SetupTypeOK
    <3> QED
      BY <2>2, <2>3, <3>2, <3>3, <3>4, <3>5 DEF SetupInv
  <2>5. CASE ~Matches("L4S")
    <3>1. UNCHANGED <<qIsInit, queueHandle>>
      BY <1>5, <2>5 DEF Start, Couple
    <3>2. SetupTypeOK'
      BY <1>1, <2>1, <2>2, <3>1, TwoBearers DEF SetupInv, SetupTypeOK
    <3>3. \A b \in Bearers : qIsInit'[b] => fIsInit'[b] /\ fIsInit'[Other(b)]
      BY <1>1, <3>1, TwoBearers DEF SetupInv, SetupTypeOK
    <3>4. qIsInit'["Classic"] =>
            l4s'["Classic"] = l4s'["L4S"] /\ red'["Classic"] = red'["L4S"]
      BY <2>2, <3>1, TwoBearers DEF SetupInv, SetupTypeOK
    <3> QED
      BY <2>2, <2>3, <3>1, <3>2, <3>3, <3>4 DEF SetupInv
  <2> QED
    BY <2>4, <2>5
<1> QED
  BY <1>4, <1>5

LEMMA StartClassic ==
  ASSUME SetupInv, Start("Classic"), UNCHANGED typed
  PROVE  SetupInv'
<1>1. fIsInit' = [fIsInit EXCEPT !["Classic"] = TRUE]
  BY DEF Start
<1>2. LET copies == ~qIsInit["Classic"] /\ qIsInit'["Classic"]
      IN /\ l4s' = IF copies THEN [l4s EXCEPT !["Classic"] = l4s["L4S"]] ELSE l4s
         /\ red' = IF copies THEN [red EXCEPT !["Classic"] = red["L4S"]] ELSE red
  BY TwoBearers DEF Start
<1>3. CASE qIsInit["Classic"]
  <2>1. UNCHANGED <<token, qIsInit, queueHandle>>
    BY <1>3 DEF Start
  <2> QED
    BY <1>1, <1>2, <1>3, <2>1, TwoBearers DEF SetupInv, SetupTypeOK
<1>4. CASE ~qIsInit["Classic"]
  <2>1. token' = [token EXCEPT !["Classic"] = TRUE]
    BY <1>4 DEF Start, Couple
  <2>2. CASE Matches("Classic")
    <3>1. /\ fIsInit["L4S"]
          /\ qIsInit' = [qIsInit EXCEPT !["Classic"] = TRUE]
          /\ queueHandle' = [queueHandle EXCEPT !["Classic"] = "L4S"]
      BY <1>4, <2>2, TwoBearers DEF Start, Couple, Matches
    <3>2. /\ l4s' = [l4s EXCEPT !["Classic"] = l4s["L4S"]]
          /\ red' = [red EXCEPT !["Classic"] = red["L4S"]]
      BY <1>2, <1>4, <3>1, TwoBearers DEF SetupInv, SetupTypeOK
    <3> QED
      BY <1>1, <1>4, <2>1, <3>1, <3>2, TwoBearers DEF SetupInv, SetupTypeOK
  <2>3. CASE ~Matches("Classic")
    <3>1. UNCHANGED <<qIsInit, queueHandle>>
      BY <1>4, <2>3 DEF Start, Couple
    <3> QED
      BY <1>1, <1>2, <1>4, <2>1, <3>1, TwoBearers DEF SetupInv, SetupTypeOK
  <2> QED
    BY <2>2, <2>3
<1> QED
  BY <1>3, <1>4

LEMMA SetupStutter ==
  ASSUME SetupInv, UNCHANGED <<typed, setup>>
  PROVE  SetupInv'
BY DEF SetupInv, SetupTypeOK, setup

LEMMA SetupNext ==
  ASSUME SetupInv, [LteNext]_lteVars
  PROVE  SetupInv'
<1>1. ASSUME NEW b \in Bearers, NEW size, NEW signal, NEW ecnCapable,
             DoTransmitPdcpPdu(b, size, signal, ecnCapable)
      PROVE  SetupInv'
  <2>1. Start(b) /\ UNCHANGED typed
    BY <1>1 DEF DoTransmitPdcpPdu
  <2> QED
    BY <2>1, StartL4S, StartClassic, TwoBearers
<1>2. ASSUME NEW b, NEW bytes, DoNotifyTxOpportunity(b, bytes)
      PROVE  SetupInv'
  BY <1>2, SetupStutter DEF DoNotifyTxOpportunity
<1>3. CASE ThroughputTrace
  BY <1>3, SetupStutter DEF ThroughputTrace
<1>4. CASE UNCHANGED lteVars
  BY <1>4, SetupStutter DEF lteVars
<1> QED
  BY <1>1, <1>2, <1>3, <1>4 DEF LteNext

(* Whatever the order of the bearers' packets: one that has coupled points *)
(* to the other, which has started, and both work with the same settings.  *)
THEOREM BearersCoupleAlike == LteSpec => []CoupledAlike
<1>1. SetupInv => CoupledAlike
  <2> SUFFICES ASSUME SetupInv PROVE CoupledAlike
    OBVIOUS
  <2>1. /\ l4s \in [Bearers -> BOOLEAN] /\ red \in [Bearers -> BOOLEAN]
    BY DEF SetupInv, SetupTypeOK
  <2>2. qIsInit["Classic"] =>
          \A b \in Bearers : l4s[b] = typed.l4s /\ red[b] = typed.red
    BY TwoBearers DEF SetupInv
  <2> QED
    BY <2>1, <2>2 DEF CoupledAlike, SetupInv
<1> QED
  BY <1>1, SetupInit, SetupNext, PTL DEF LteSpec

----------------------------------------------------------------------------
(* The counters of a bearer, without the wrap: what its next row will show *)
(* is what it has counted and no longer holds.  The bound on arrivals      *)
(* keeps this below the word; a bearer that the L4S bearer does not see    *)
(* yet has no row, and its inQueue is 0.                                   *)
RowBalance(t, i, c, x, l, f) ==
  /\ t \in Nat /\ i \in Nat /\ c \in Nat /\ x \in Nat /\ l \in Nat /\ f \in Nat
  /\ x <= MaxTxBufferSize /\ i <= MaxTxBufferSize
  /\ x <= i + c
  /\ t + (i + c - x) = l + f

Balanced(b) ==
  RowBalance(traced[b], inQueue[b], throughputCount[b], txBufferSize[b], left[b], refused[b])

CountInv(largest) ==
  /\ arrived \in 0 .. MaxArrivals
  /\ txBufferSize \in [Bearers -> Nat] /\ throughputCount \in [Bearers -> Nat]
  /\ inQueue \in [Bearers -> Nat] /\ traced \in [Bearers -> Nat]
  /\ left \in [Bearers -> Nat] /\ refused \in [Bearers -> Nat]
  /\ \A b \in Bearers : Balanced(b)
  /\ \A b \in Bearers : throughputCount[b] <= arrived * largest
  /\ \A b \in Bearers : b \notin Seen => inQueue[b] = 0

(* No packet is empty, and all that may arrive fits into a word.           *)
Fits(largest) ==
  /\ largest \in Nat /\ PacketSizes \subseteq 1 .. largest
  /\ MaxArrivals \in Nat /\ MaxTxBufferSize \in Nat /\ Word \in Nat
  /\ MaxArrivals * largest + MaxTxBufferSize < Word

LEMMA Products ==
  ASSUME NEW m \in Nat, NEW n \in 0 .. m, NEW l \in Nat
  PROVE  n * l \in Nat /\ n * l <= m * l /\ (n + 1) * l = n * l + l
<1>1. PICK d \in Nat : m = n + d
  BY SMT
<1>2. d * l \in Nat /\ n * l \in Nat /\ n \in Nat
  BY SMT
<1>3. (n + d) * l = n * l + d * l /\ (n + 1) * l = n * l + l
  BY <1>2, SMT
<1> HIDE <1>1
<1> QED
  BY <1>1, <1>2, <1>3, SMT

LEMMA Remainder ==
  ASSUME NEW w \in Nat, NEW a \in 0 .. w - 1
  PROVE  a % w = a
BY SMT

LEMMA CountInit ==
  ASSUME NEW largest, Fits(largest), LteInit
  PROVE  CountInv(largest)
<1>1. 0 \in 0 .. MaxArrivals /\ 0 <= MaxTxBufferSize /\ 0 * largest = 0
  BY DEF Fits
<1> QED
  BY <1>1 DEF LteInit, CountInv, Balanced, RowBalance

(* The L4S bearer does not forget that it is coupled.                      *)
LEMMA SeenGrows ==
  ASSUME SetupInv, NEW b \in Bearers, Start(b)
  PROVE  Seen \subseteq Seen'
<1>1. qIsInit["L4S"] => qIsInit'["L4S"]
  BY TwoBearers DEF Start, Couple, SetupInv, SetupTypeOK
<1> QED
  BY <1>1, TwoBearers DEF Seen, Bearers

(* What a packet adds to one bearer: nothing, or to the buffer, or to what *)
(* is refused.                                                             *)
LEMMA PacketBalance ==
  ASSUME MaxTxBufferSize \in Nat, NEW t, NEW i, NEW c, NEW x, NEW l, NEW f,
         RowBalance(t, i, c, x, l, f), NEW size \in Nat
  PROVE  /\ RowBalance(t, i, c + size, x, l, f + size)
         /\ x + size <= MaxTxBufferSize => RowBalance(t, i, c + size, x + size, l, f)
BY DEF RowBalance

LEMMA CountPacket ==
  ASSUME NEW largest, Fits(largest), SetupInv, CountInv(largest),
         NEW b \in Bearers, NEW size \in PacketSizes, NEW signal, NEW ecnCapable,
         DoTransmitPdcpPdu(b, size, signal, ecnCapable)
  PROVE  CountInv(largest)'
<1>1. /\ arrived \in 0 .. MaxArrivals /\ arrived' = arrived + 1 /\ arrived < MaxArrivals
      /\ Seen \subseteq Seen'
  BY SeenGrows DEF DoTransmitPdcpPdu, CountInv
<1>2. size \in Nat /\ size <= largest /\ largest \in Nat /\ MaxArrivals \in Nat
      /\ MaxTxBufferSize \in Nat
  BY DEF Fits
<1>3. arrived' \in 0 .. MaxArrivals
  BY <1>1, <1>2
<1>4. /\ arrived * largest \in Nat /\ arrived' * largest = arrived * largest + largest
  BY <1>1, <1>2, Products
<1>5. \A n \in Nat : n <= arrived * largest =>
         n <= arrived' * largest /\ n + size <= arrived' * largest
  BY <1>2, <1>4
<1>6. CASE UNCHANGED counts
  <2>1. UNCHANGED <<txBufferSize, throughputCount, inQueue, traced, left, refused>>
    BY <1>6 DEF counts
  <2> QED
    BY <1>1, <1>3, <1>5, <2>1 DEF CountInv, Balanced
<1>7. CASE /\ throughputCount' = [throughputCount EXCEPT ![b] = @ + size]
           /\ \/ /\ txBufferSize[b] + size <= MaxTxBufferSize
                 /\ txBufferSize' = [txBufferSize EXCEPT ![b] = @ + size]
                 /\ refused' = refused
              \/ refused' = [refused EXCEPT ![b] = @ + size] /\ txBufferSize' = txBufferSize
           /\ UNCHANGED <<inQueue, traced, left>>
  <2>1. /\ txBufferSize' \in [Bearers -> Nat] /\ throughputCount' \in [Bearers -> Nat]
        /\ refused' \in [Bearers -> Nat]
    BY <1>2, <1>7 DEF CountInv
  <2>2. \A d \in Bearers : Balanced(d)'
    <3> SUFFICES ASSUME NEW d \in Bearers PROVE Balanced(d)'
      OBVIOUS
    <3>1. Balanced(d)
      BY DEF CountInv
    <3>2. CASE d # b
      <4>1. /\ throughputCount'[d] = throughputCount[d] /\ txBufferSize'[d] = txBufferSize[d]
            /\ refused'[d] = refused[d]
        BY <1>7, <3>2 DEF CountInv
      <4> QED
        BY <1>7, <3>1, <4>1 DEF Balanced
    <3>3. CASE d = b
      <4>1. throughputCount'[b] = throughputCount[b] + size
        BY <1>7 DEF CountInv
      <4>2. \/ /\ txBufferSize[b] + size <= MaxTxBufferSize
               /\ txBufferSize'[b] = txBufferSize[b] + size /\ refused'[b] = refused[b]
            \/ refused'[b] = refused[b] + size /\ txBufferSize'[b] = txBufferSize[b]
        BY <1>7 DEF CountInv
      <4> QED
        BY <1>2, <1>7, <3>1, <3>3, <4>1, <4>2, PacketBalance DEF Balanced
    <3> QED
      BY <3>2, <3>3
  <2>3. \A d \in Bearers : throughputCount'[d] <= arrived' * largest
    BY <1>5, <1>7 DEF CountInv
  <2> QED
    BY <1>1, <1>3, <1>7, <2>1, <2>2, <2>3 DEF CountInv
<1> QED
  BY <1>6, <1>7 DEF DoTransmitPdcpPdu

LEMMA OpportunityBalance ==
  ASSUME NEW t, NEW i, NEW c, NEW x, NEW l, NEW f,
         RowBalance(t, i, c, x, l, f), NEW bytes \in 1 .. MaxTxBufferSize,
         MaxTxBufferSize \in Nat, bytes <= x
  PROVE  RowBalance(t, i, c, x - bytes, l + bytes, f)
BY DEF RowBalance

LEMMA CountOpportunity ==
  ASSUME NEW largest, Fits(largest), CountInv(largest),
         NEW b \in Bearers, NEW bytes \in 1 .. MaxTxBufferSize,
         DoNotifyTxOpportunity(b, bytes)
  PROVE  CountInv(largest)'
<1>1. MaxTxBufferSize \in Nat
  BY DEF Fits
<1>2. /\ bytes <= txBufferSize[b]
      /\ txBufferSize' = [txBufferSize EXCEPT ![b] = @ - bytes]
      /\ left' = [left EXCEPT ![b] = @ + bytes]
      /\ UNCHANGED <<setup, throughputCount, inQueue, traced, refused, arrived>>
  BY DEF DoNotifyTxOpportunity
<1>3. txBufferSize[b] \in Nat /\ left[b] \in Nat /\ Balanced(b)
  BY DEF CountInv
<1>4. txBufferSize[b] - bytes \in Nat /\ left[b] + bytes \in Nat
  BY <1>1, <1>2, <1>3
<1>5. txBufferSize' \in [Bearers -> Nat] /\ left' \in [Bearers -> Nat]
  BY <1>2, <1>4 DEF CountInv
<1>6. Seen' = Seen
  BY <1>2 DEF Seen, setup
<1>7. ASSUME NEW d \in Bearers PROVE Balanced(d)'
  <2>1. Balanced(d)
    BY DEF CountInv
  <2>2. CASE d # b
    <3>1. txBufferSize'[d] = txBufferSize[d] /\ left'[d] = left[d]
      BY <1>2, <2>2 DEF CountInv
    <3> QED
      BY <1>2, <2>1, <3>1 DEF Balanced
  <2>3. CASE d = b
    <3>1. txBufferSize'[b] = txBufferSize[b] - bytes /\ left'[b] = left[b] + bytes
      BY <1>2 DEF CountInv
    <3> QED
      BY <1>1, <1>2, <2>1, <2>3, <3>1, OpportunityBalance DEF Balanced
  <2> QED
    BY <2>2, <2>3
<1> QED
  BY <1>2, <1>5, <1>6, <1>7 DEF CountInv

(* A row is written: what it shows goes to the account and the count       *)
(* starts again from what waits.                                           *)
LEMMA TraceBalance ==
  ASSUME NEW t, NEW i, NEW c, NEW x, NEW l, NEW f, RowBalance(t, i, c, x, l, f),
         MaxTxBufferSize \in Nat, Word \in Nat, i + c - x < Word
  PROVE  /\ (i + c - x) % Word = i + c - x
         /\ RowBalance(t + (i + c - x), x, 0, x, l, f)
<1>1. i + c - x \in 0 .. Word - 1
  BY DEF RowBalance
<1> QED
  BY <1>1, Remainder DEF RowBalance

LEMMA RowFits ==
  ASSUME NEW largest, Fits(largest), CountInv(largest), NEW b \in Bearers
  PROVE  inQueue[b] + throughputCount[b] - txBufferSize[b] < Word
<1>1. /\ MaxArrivals \in Nat /\ largest \in Nat /\ MaxTxBufferSize \in Nat /\ Word \in Nat
      /\ MaxArrivals * largest + MaxTxBufferSize < Word
  BY DEF Fits
<1>2. arrived \in 0 .. MaxArrivals
  BY DEF CountInv
<1> DEFINE product == arrived * largest
           all == MaxArrivals * largest
<1>3. product \in Nat /\ product <= all /\ all \in Nat
  BY <1>1, <1>2, Products
<1>4. throughputCount[b] <= product /\ Balanced(b)
  BY DEF CountInv
<1>5. all + MaxTxBufferSize < Word
  BY <1>1
<1> HIDE DEF product, all
<1> QED
  BY <1>1, <1>3, <1>4, <1>5 DEF Balanced, RowBalance

LEMMA CountTrace ==
  ASSUME NEW largest, Fits(largest), CountInv(largest), ThroughputTrace
  PROVE  CountInv(largest)'
<1>1. MaxTxBufferSize \in Nat /\ Word \in Nat /\ MaxArrivals \in Nat /\ largest \in Nat
  BY DEF Fits
<1>2. /\ UNCHANGED <<txBufferSize, left, refused, arrived>>
      /\ Seen' = Seen
  BY DEF ThroughputTrace, Seen, setup
<1>3. ASSUME NEW b \in Bearers
      PROVE  /\ traced'[b] \in Nat /\ inQueue'[b] \in Nat /\ throughputCount'[b] \in Nat
             /\ Balanced(b)' /\ (b \notin Seen => inQueue'[b] = 0)
             /\ throughputCount'[b] <= arrived * largest
  <2>1. /\ Balanced(b) /\ throughputCount[b] <= arrived * largest
        /\ b \notin Seen => inQueue[b] = 0
    BY DEF CountInv
  <2>2. arrived * largest \in Nat
    BY <1>1, Products DEF CountInv
  <2>3. CASE b \in Seen
    <3>1. /\ traced'[b] = traced[b] + Transmitted(b) /\ throughputCount'[b] = 0
          /\ inQueue'[b] = txBufferSize[b]
      BY <2>3 DEF ThroughputTrace, NextInQueue
    <3>2. /\ Transmitted(b) = inQueue[b] + throughputCount[b] - txBufferSize[b]
          /\ RowBalance(traced[b] + Transmitted(b), txBufferSize[b], 0, txBufferSize[b],
                        left[b], refused[b])
      BY <1>1, <2>1, RowFits, TraceBalance DEF Transmitted, Balanced
    <3>3. Balanced(b)'
      BY <1>2, <3>1, <3>2 DEF Balanced
    <3> QED
      BY <2>2, <2>3, <3>1, <3>3 DEF Balanced, RowBalance
  <2>4. CASE b \notin Seen
    <3>1. /\ traced'[b] = traced[b] /\ throughputCount'[b] = throughputCount[b]
          /\ inQueue'[b] = 0
      BY <2>4 DEF ThroughputTrace, NextInQueue
    <3>2. Balanced(b)'
      BY <1>2, <2>1, <2>4, <3>1 DEF Balanced
    <3> QED
      BY <2>1, <3>1, <3>2 DEF Balanced, RowBalance
  <2> QED
    BY <2>3, <2>4
<1>4. /\ traced' \in [Bearers -> Nat] /\ inQueue' \in [Bearers -> Nat]
      /\ throughputCount' \in [Bearers -> Nat]
  BY <1>3 DEF ThroughputTrace
<1> QED
  BY <1>2, <1>3, <1>4 DEF CountInv

LEMMA CountNext ==
  ASSUME NEW largest, Fits(largest), SetupInv, CountInv(largest), [LteNext]_lteVars
  PROVE  CountInv(largest)'
<1>1. CASE UNCHANGED lteVars
  <2>1. /\ UNCHANGED <<txBufferSize, throughputCount, inQueue, traced, left, refused>>
        /\ UNCHANGED arrived
    BY <1>1 DEF lteVars, counts
  <2>2. Seen' = Seen
    BY <1>1 DEF lteVars, setup, Seen
  <2> QED
    BY <2>1, <2>2 DEF CountInv, Balanced
<1> QED
  BY <1>1, CountPacket, CountOpportunity, CountTrace DEF LteNext

(* The rows of the throughput file account for every byte once, as long as *)
(* the packets of a simulation fit into the 32-bit counters.               *)
THEOREM RowsAccountForBytes ==
  ASSUME NEW CONSTANT largest, Fits(largest)
  PROVE  LteSpec => []EveryByteTraced
<1>1. LteInit => SetupInv /\ CountInv(largest)
  BY SetupInit, CountInit
<1>2. SetupInv /\ CountInv(largest) /\ [LteNext]_lteVars => (SetupInv /\ CountInv(largest))'
  BY SetupNext, CountNext
<1>3. CountInv(largest) => EveryByteTraced
  <2> SUFFICES ASSUME CountInv(largest), NEW b \in Bearers
               PROVE  traced[b] + Transmitted(b) = left[b] + refused[b]
    BY DEF EveryByteTraced
  <2>1. Balanced(b) /\ MaxTxBufferSize \in Nat /\ Word \in Nat
    BY DEF CountInv, Fits
  <2>2. inQueue[b] + throughputCount[b] - txBufferSize[b] < Word
    BY RowFits
  <2> DEFINE row == inQueue[b] + throughputCount[b] - txBufferSize[b]
  <2>3. row \in 0 .. Word - 1
    BY <2>1, <2>2 DEF Balanced, RowBalance
  <2> HIDE DEF row
  <2>4. row % Word = row
    BY <2>1, <2>3, Remainder
  <2> QED
    BY <2>1, <2>4 DEF Balanced, RowBalance, Transmitted, row
<1> QED
  BY <1>1, <1>2, <1>3, PTL DEF LteSpec

----------------------------------------------------------------------------
(* DCTCP                                                                   *)

Ack == [from : Nat, to : Nat, ece : BOOLEAN]
ReceiverType ==
  [next : Nat, acked : Nat, prior : Nat, ceState : BOOLEAN, reserved : BOOLEAN,
   demandCwr : BOOLEAN, sent : Seq(Ack)]

(* The ACKs in s tell the truth about the marks c.                         *)
Truthful(s, c) ==
  /\ s \in Seq(Ack)
  /\ \A i \in 1 .. Len(s) :
       s[i].to <= Len(c) /\ \A k \in s[i].from + 1 .. s[i].to : c[k] = s[i].ece

(* Between two events everything has been looked at, all that is not yet   *)
(* acknowledged arrived in the present CE state, an ACK is delayed exactly *)
(* if there is such a segment, and it would echo that state.               *)
EchoInv ==
  /\ ce \in Seq(BOOLEAN) /\ r \in ReceiverType
  /\ r.next = Len(ce) /\ r.prior = Len(ce) /\ r.acked <= Len(ce)
  /\ r.reserved <=> r.acked < Len(ce)
  /\ r.demandCwr = r.ceState
  /\ \A k \in r.acked + 1 .. Len(ce) : ce[k] = r.ceState
  /\ Truthful(acks, ce)

LEMMA NoAcks == \A c : Truthful(<< >>, c)
BY DEF Truthful

LEMMA MoreMarks ==
  ASSUME NEW c \in Seq(BOOLEAN), NEW mark \in BOOLEAN, NEW s, Truthful(s, c)
  PROVE  Truthful(s, Append(c, mark))
<1>1. /\ Append(c, mark) \in Seq(BOOLEAN) /\ Len(Append(c, mark)) = Len(c) + 1
      /\ Len(c) \in Nat
      /\ \A k \in 1 .. Len(c) : Append(c, mark)[k] = c[k]
  OBVIOUS
<1>2. ASSUME NEW i \in 1 .. Len(s)
      PROVE  /\ s[i].to <= Len(c) + 1
             /\ \A k \in s[i].from + 1 .. s[i].to : Append(c, mark)[k] = s[i].ece
  <2>1. s[i] \in Ack /\ s[i].to <= Len(c) /\ \A k \in s[i].from + 1 .. s[i].to : c[k] = s[i].ece
    BY DEF Truthful
  <2>2. s[i].from \in Nat /\ s[i].to \in Nat
    BY <2>1 DEF Ack
  <2> QED
    BY <1>1, <2>1, <2>2
<1> QED
  BY <1>1, <1>2 DEF Truthful

LEMMA JoinedAcks ==
  ASSUME NEW c, NEW s, NEW t, Truthful(s, c), Truthful(t, c)
  PROVE  Truthful(s \o t, c)
<1>1. s \in Seq(Ack) /\ t \in Seq(Ack)
  BY DEF Truthful
<1>2. /\ s \o t \in Seq(Ack) /\ Len(s \o t) = Len(s) + Len(t)
      /\ Len(s) \in Nat /\ Len(t) \in Nat
      /\ \A i \in 1 .. Len(s) + Len(t) :
           (s \o t)[i] = IF i <= Len(s) THEN s[i] ELSE t[i - Len(s)]
  BY <1>1
<1>3. ASSUME NEW i \in 1 .. Len(s) + Len(t)
      PROVE  \/ i \in 1 .. Len(s) /\ (s \o t)[i] = s[i]
             \/ i - Len(s) \in 1 .. Len(t) /\ (s \o t)[i] = t[i - Len(s)]
  BY <1>2
<1> QED
  BY <1>2, <1>3 DEF Truthful

LEMMA OneMoreAck ==
  ASSUME NEW c, NEW s, Truthful(s, c), NEW a \in Ack, a.to <= Len(c),
         \A k \in a.from + 1 .. a.to : c[k] = a.ece
  PROVE  Truthful(Append(s, a), c)
<1>1. s \in Seq(Ack)
  BY DEF Truthful
<1>2. /\ Append(s, a) \in Seq(Ack) /\ Len(Append(s, a)) = Len(s) + 1 /\ Len(s) \in Nat
      /\ \A i \in 1 .. Len(s) : Append(s, a)[i] = s[i]
      /\ Append(s, a)[Len(s) + 1] = a
  BY <1>1
<1>3. \A i \in 1 .. Len(s) + 1 : i \in 1 .. Len(s) \/ i = Len(s) + 1
  BY <1>2
<1> QED
  BY <1>2, <1>3 DEF Truthful

(* An ACK that is sent when what it covers arrived in the state it echoes. *)
LEMMA AckSent ==
  ASSUME NEW c, NEW s \in ReceiverType, Truthful(s.sent, c), s.next <= Len(c),
         \A k \in s.acked + 1 .. s.next : c[k] = s.demandCwr
  PROVE  /\ SendAck(s) \in ReceiverType
         /\ Truthful(SendAck(s).sent, c)
         /\ SendAck(s).acked = s.next /\ SendAck(s).next = s.next
         /\ SendAck(s).prior = s.prior /\ SendAck(s).ceState = s.ceState
         /\ SendAck(s).demandCwr = s.demandCwr /\ SendAck(s).reserved = FALSE
<1> DEFINE a == [from |-> s.acked, to |-> s.next, ece |-> s.demandCwr]
<1>1. a \in Ack
  BY DEF ReceiverType, Ack
<1>2. Truthful(Append(s.sent, a), c)
  BY <1>1, OneMoreAck
<1>3. Append(s.sent, a) \in Seq(Ack)
  BY <1>2 DEF Truthful
<1>4. SendAck(s) = [s EXCEPT !.sent = Append(s.sent, a), !.acked = s.next, !.reserved = FALSE]
  BY DEF SendAck
<1> HIDE DEF a
<1> QED
  BY <1>2, <1>3, <1>4 DEF ReceiverType

LEMMA EchoInit == DctcpInit => EchoInv
<1> SUFFICES ASSUME DctcpInit PROVE EchoInv
  OBVIOUS
<1>1. /\ ce = << >> /\ acks = << >> /\ r = Receiver
  BY DEF DctcpInit
<1>2. Receiver \in ReceiverType
  BY DEF Receiver, ReceiverType
<1>3. Len(ce) = 0 /\ ce \in Seq(BOOLEAN)
  BY <1>1
<1> QED
  BY <1>1, <1>2, <1>3, NoAcks DEF EchoInv, Receiver

(* A segment arrives.                                                      *)
LEMMA EchoReceive ==
  ASSUME EchoInv, NEW mark \in BOOLEAN, NEW cwr \in BOOLEAN, NEW quick \in BOOLEAN,
         Receive(mark, cwr, quick)
  PROVE  EchoInv'
<1> DEFINE n == Len(ce)
           c == Append(ce, mark)
           demand == r.demandCwr /\ ~cwr
           got == [r EXCEPT !.next = @ + 1, !.demandCwr = demand, !.sent = << >>]
           before == [got EXCEPT !.demandCwr = got.ceState, !.next = got.prior]
           seen == CeState(got, mark)
           answered == IF quick \/ seen.next - seen.acked > 1 THEN SendAck(seen)
                       ELSE DelayAck(seen)
<1>1. /\ n \in Nat /\ r \in ReceiverType /\ ce \in Seq(BOOLEAN)
      /\ r.next = n /\ r.prior = n /\ r.acked \in Nat /\ r.acked <= n
      /\ r.reserved <=> r.acked < n
      /\ r.ceState \in BOOLEAN
  BY DEF EchoInv, ReceiverType
<1>2. /\ c \in Seq(BOOLEAN) /\ Len(c) = n + 1 /\ c[n + 1] = mark
      /\ \A k \in 1 .. n : c[k] = ce[k]
  BY <1>1
<1>3. ce' = c /\ r' = answered /\ acks' = acks \o answered.sent
  BY DEF Receive
<1>0. << >> \in Seq(Ack)
  BY NoAcks DEF Truthful
<1>4. /\ got \in ReceiverType
      /\ got.next = n + 1 /\ got.prior = n /\ got.acked = r.acked /\ got.sent = << >>
      /\ got.ceState = r.ceState /\ got.reserved = r.reserved
  <2>1. demand \in BOOLEAN /\ n + 1 \in Nat /\ r.next + 1 = n + 1
    BY <1>1
  <2> HIDE DEF demand, n
  <2>2. got = [r EXCEPT !.next = n + 1, !.demandCwr = demand, !.sent = << >>]
    BY <2>1
  <2> QED
    BY <1>0, <1>1, <2>1, <2>2 DEF ReceiverType
<1>5. \A k \in r.acked + 1 .. n : c[k] = r.ceState
  BY <1>1, <1>2 DEF EchoInv
<1>6. Truthful(acks, c)
  BY <1>1, MoreMarks DEF EchoInv
<1>7. /\ seen \in ReceiverType
      /\ seen.next = n + 1 /\ seen.prior = n + 1 /\ seen.acked <= n
      /\ seen.ceState = mark /\ seen.demandCwr = mark
      /\ Truthful(seen.sent, c)
      /\ \A k \in seen.acked + 1 .. n + 1 : c[k] = mark
  <2> HIDE DEF n, c, got
  <2>1. CASE got.ceState # mark /\ got.reserved
    <3>1. /\ before \in ReceiverType
          /\ before.next = n /\ before.acked = r.acked /\ before.sent = << >>
          /\ before.demandCwr = r.ceState
      BY <1>1, <1>4 DEF ReceiverType
    <3>2. /\ Truthful(before.sent, c) /\ before.next <= Len(c)
          /\ \A k \in before.acked + 1 .. before.next : c[k] = before.demandCwr
      BY <1>1, <1>2, <1>5, <3>1, NoAcks
    <3> HIDE DEF before
    <3>3. /\ SendAck(before) \in ReceiverType
          /\ Truthful(SendAck(before).sent, c)
          /\ SendAck(before).acked = n
      BY <3>1, <3>2, AckSent
    <3>4. seen = [[SendAck(before) EXCEPT !.next = got.next] EXCEPT !.prior = n + 1,
                    !.ceState = mark, !.demandCwr = mark]
      BY <1>4, <2>1, <3>3 DEF CeState, AckPrevious, before, ReceiverType
    <3>5. /\ seen \in ReceiverType
          /\ seen.next = n + 1 /\ seen.prior = n + 1 /\ seen.acked = n
          /\ seen.ceState = mark /\ seen.demandCwr = mark
          /\ seen.sent = SendAck(before).sent
      BY <1>1, <1>4, <3>3, <3>4 DEF ReceiverType
    <3> HIDE DEF seen
    <3>6. \A k \in seen.acked + 1 .. n + 1 : k = n + 1
      BY <1>1, <3>5
    <3> QED
      BY <1>1, <1>2, <3>3, <3>5, <3>6
  <2>2. CASE ~(got.ceState # mark /\ got.reserved)
    <3>1. seen = [got EXCEPT !.prior = n + 1, !.ceState = mark, !.demandCwr = mark]
      BY <1>4, <2>2 DEF CeState, AckPrevious
    <3>2. /\ seen \in ReceiverType
          /\ seen.next = n + 1 /\ seen.prior = n + 1 /\ seen.acked = r.acked
          /\ seen.ceState = mark /\ seen.demandCwr = mark /\ seen.sent = << >>
      BY <1>1, <1>4, <3>1 DEF ReceiverType
    <3> HIDE DEF seen
    <3>3. r.ceState = mark \/ r.acked = n
      BY <1>1, <1>4, <2>2
    <3>4. \A k \in seen.acked + 1 .. n + 1 : k \in r.acked + 1 .. n \/ k = n + 1
      BY <1>1, <3>2
    <3>5. ASSUME NEW k \in seen.acked + 1 .. n + 1 PROVE c[k] = mark
      <4>1. CASE k = n + 1
        BY <1>2, <4>1
      <4>2. CASE k \in r.acked + 1 .. n
        <5>1. r.acked # n
          BY <1>1, <4>2
        <5> QED
          BY <1>5, <3>3, <4>2, <5>1
      <4> QED
        BY <3>4, <4>1, <4>2
    <3> QED
      BY <1>1, <3>2, <3>5, NoAcks
  <2> QED
    BY <2>1, <2>2
<1> HIDE DEF n, c, got, before, seen
<1>8. seen.acked \in Nat /\ seen.next <= Len(c)
  BY <1>1, <1>2, <1>7 DEF ReceiverType
<1>9. /\ answered \in ReceiverType
      /\ answered.next = n + 1 /\ answered.prior = n + 1
      /\ answered.ceState = mark /\ answered.demandCwr = mark
      /\ Truthful(answered.sent, c)
      /\ \/ answered.acked = n + 1 /\ answered.reserved = FALSE
         \/ answered.acked = seen.acked /\ answered.reserved = TRUE
  <2>1. CASE quick \/ seen.next - seen.acked > 1
    BY <1>2, <1>7, <1>8, <2>1, AckSent
  <2>2. CASE ~(quick \/ seen.next - seen.acked > 1)
    <3>1. answered = [seen EXCEPT !.reserved = TRUE]
      BY <2>2 DEF DelayAck
    <3> QED
      BY <1>7, <3>1 DEF ReceiverType
  <2> QED
    BY <2>1, <2>2
<1> HIDE DEF answered
<1>10. Truthful(acks \o answered.sent, c)
  BY <1>6, <1>9, JoinedAcks
<1>11. answered.acked <= n + 1 /\ (answered.reserved <=> answered.acked < n + 1)
  BY <1>1, <1>7, <1>8, <1>9
<1>12. \A k \in answered.acked + 1 .. n + 1 : c[k] = mark
  BY <1>1, <1>7, <1>8, <1>9
<1> QED
  BY <1>2, <1>3, <1>9, <1>10, <1>11, <1>12 DEF EchoInv

LEMMA EchoTimer ==
  ASSUME EchoInv, DelayedAckTimer
  PROVE  EchoInv'
<1> DEFINE s == [r EXCEPT !.sent = << >>]
<1>0. << >> \in Seq(Ack)
  BY NoAcks DEF Truthful
<1>1. /\ r \in ReceiverType /\ ce \in Seq(BOOLEAN) /\ Len(ce) \in Nat
      /\ r.next = Len(ce) /\ r.prior = Len(ce) /\ r.demandCwr = r.ceState
  BY DEF EchoInv
<1>2. /\ s \in ReceiverType /\ s.sent = << >> /\ s.next = r.next /\ s.acked = r.acked
      /\ s.prior = r.prior /\ s.ceState = r.ceState /\ s.demandCwr = r.demandCwr
  BY <1>0, <1>1 DEF ReceiverType
<1>3. ce' = ce /\ r' = SendAck(s) /\ acks' = acks \o r'.sent
  BY DEF DelayedAckTimer
<1> HIDE DEF s
<1>4. Truthful(s.sent, ce)
  BY <1>2, NoAcks
<1>5. \A k \in s.acked + 1 .. s.next : ce[k] = s.demandCwr
  BY <1>1, <1>2 DEF EchoInv
<1>9. s.next <= Len(ce)
  BY <1>1, <1>2
<1>6. /\ r' \in ReceiverType /\ Truthful(r'.sent, ce)
      /\ r'.acked = Len(ce) /\ r'.next = Len(ce) /\ r'.prior = Len(ce)
      /\ r'.demandCwr = r'.ceState /\ r'.reserved = FALSE
  BY <1>1, <1>2, <1>3, <1>4, <1>5, <1>9, AckSent
<1>7. Truthful(acks', ce)
  BY <1>3, <1>6, JoinedAcks DEF EchoInv
<1>8. \A k \in r'.acked + 1 .. Len(ce) : ce[k] = r'.ceState
  BY <1>1, <1>6
<1> QED
  BY <1>1, <1>3, <1>6, <1>7, <1>8 DEF EchoInv

LEMMA EchoAck ==
  ASSUME EchoInv, InAckEvent
  PROVE  EchoInv'
<1>1. acks # << >> /\ acks' = Tail(acks) /\ UNCHANGED <<ce, r>>
  BY DEF InAckEvent
<1>2. acks \in Seq(Ack)
  BY DEF EchoInv, Truthful
<1>3. /\ Tail(acks) \in Seq(Ack) /\ Len(Tail(acks)) = Len(acks) - 1 /\ Len(acks) \in Nat
      /\ \A i \in 1 .. Len(acks) - 1 : Tail(acks)[i] = acks[i + 1]
  BY <1>1, <1>2
<1>4. \A i \in 1 .. Len(acks) - 1 : i + 1 \in 1 .. Len(acks)
  BY <1>3
<1>5. Truthful(Tail(acks), ce)
  BY <1>3, <1>4 DEF EchoInv, Truthful
<1> QED
  BY <1>1, <1>5 DEF EchoInv

LEMMA EchoNext ==
  ASSUME EchoInv, [DctcpNext]_dctcpVars
  PROVE  EchoInv'
<1>1. CASE Transmit
  BY <1>1 DEF Transmit, EchoInv
<1>2. CASE UNCHANGED dctcpVars
  BY <1>2 DEF dctcpVars, EchoInv
<1> QED
  BY <1>1, <1>2, EchoReceive, EchoTimer, EchoAck DEF DctcpNext

(* An ACK on its way echoes a mark if every segment it covers was marked   *)
(* and none if none was, whenever the CE state changes.                    *)
THEOREM EchoesAreTrue == DctcpSpec => []EchoTruthful
<1>1. EchoInv => EchoTruthful
  <2> SUFFICES ASSUME EchoInv, NEW i \in DOMAIN acks,
                      NEW k \in acks[i].from + 1 .. acks[i].to
               PROVE  ce[k] = acks[i].ece
    BY DEF EchoTruthful
  <2>1. Truthful(acks, ce) /\ acks \in Seq(Ack)
    BY DEF EchoInv, Truthful
  <2>2. i \in 1 .. Len(acks)
    BY <2>1
  <2> QED
    BY <2>1, <2>2 DEF Truthful
<1> QED
  BY <1>1, EchoInit, EchoNext, PTL DEF DctcpSpec

----------------------------------------------------------------------------
(* The sender.  A fold is a recursive function of the set of the positions *)
(* that are left; induction over them is done with the least number for    *)
(* which a claim would fail.                                               *)

LEMMA Least ==
  ASSUME NEW T \in SUBSET Nat, T # {}
  PROVE  \E m \in T : \A y \in T : m <= y
<1>1. IsWellFoundedOn(OpToRel(<, Nat), Nat)
  BY NatLessThanWellFounded
<1>2. PICK m \in T : \A y \in T : ~ (<<y, m>> \in OpToRel(<, Nat))
  BY <1>1, WFMin
<1>3. \A y \in T : ~(y < m)
  BY <1>2 DEF OpToRel
<1> QED
  BY <1>3

LEMMA Greatest ==
  ASSUME NEW n \in Nat, NEW t \in SUBSET (1 .. n), t # {}
  PROVE  Max(t) \in t /\ \A y \in t : y <= Max(t)
<1> DEFINE T == {k \in Nat : n - k \in t}
<1>1. PICK y \in t : TRUE
  OBVIOUS
<1>2. n - y \in T
  BY <1>1
<1>3. PICK m \in T : \A k \in T : m <= k
  BY <1>2, Least
<1>4. n - m \in t
  BY <1>3
<1>5. \A z \in t : n - m >= z
  <2> SUFFICES ASSUME NEW z \in t PROVE n - m >= z
    OBVIOUS
  <2>1. n - z \in T
    OBVIOUS
  <2> QED
    BY <1>3, <2>1
<1> QED
  BY <1>4, <1>5 DEF Max

LEMMA MaxOfInitial ==
  ASSUME NEW m \in Nat \ {0}
  PROVE  Max(1 .. m) = m /\ (1 .. m) \ {m} = 1 .. (m - 1)
<1>1. m \in 1 .. m /\ 1 .. m # {} /\ 1 .. m \in SUBSET (1 .. m)
  OBVIOUS
<1>2. Max(1 .. m) \in 1 .. m /\ \A y \in 1 .. m : y <= Max(1 .. m)
  BY <1>1, Greatest
<1> QED
  BY <1>1, <1>2

LEMMA WithoutOne ==
  ASSUME NEW n \in Nat, NEW t \in SUBSET (1 .. n), NEW x \in t
  PROVE  /\ t \ {x} \in SUBSET (1 .. n)
         /\ Cardinality(t) \in 1 .. n /\ Cardinality(t \ {x}) = Cardinality(t) - 1
<1>1. IsFiniteSet(1 .. n) /\ Cardinality(1 .. n) = n
  BY FS_Interval
<1>2. IsFiniteSet(t) /\ Cardinality(t) <= n
  BY <1>1, FS_Subset
<1>3. Cardinality(t) \in Nat /\ Cardinality(t \ {x}) = Cardinality(t) - 1
  BY <1>2, FS_RemoveElement, FS_CardinalityType
<1>4. Cardinality(t \ {x}) \in Nat
  BY <1>2, FS_RemoveElement, FS_CardinalityType
<1> QED
  BY <1>2, <1>3, <1>4

Ideal == [window : Nat \ {0}, odd : BOOLEAN]

(* The ideal window i after m marked segments, in one go.                  *)
Held(i) == IF i.odd THEN 1 ELSE 0
AtLeastOne(w) == IF w >= 1 THEN w ELSE 1
Stepped(i, m) ==
  [window |-> AtLeastOne(i.window - (m + Held(i)) \div 2), odd |-> (m + Held(i)) % 2 = 1]

LEMMA MaxWithOne == ASSUME NEW w \in Int PROVE Max({w, 1}) = AtLeastOne(w)
BY DEF Max, AtLeastOne

(* Induction, with the set of the numbers that satisfy the claim.          *)
LEMMA Induction ==
  ASSUME NEW T, NEW n \in Nat, 0 \in T, \A m \in 0 .. n - 1 : m \in T => m + 1 \in T
  PROVE  \A m \in 0 .. n : m \in T
<1> DEFINE Not == {m \in 0 .. n : m \notin T}
<1>1. SUFFICES ASSUME Not # {} PROVE FALSE
  OBVIOUS
<1>2. Not \in SUBSET Nat
  OBVIOUS
<1>3. PICK m \in Not : \A y \in Not : m <= y
  <2> HIDE DEF Not
  <2> QED
    BY <1>1, <1>2, Least
<1>4. m \in 0 .. n /\ m \notin T /\ m # 0
  OBVIOUS
<1>5. m - 1 \in 0 .. n - 1 /\ m - 1 + 1 = m /\ m - 1 < m
  BY <1>4
<1>6. m - 1 \notin Not
  <2> HIDE DEF Not
  <2> QED
    BY <1>3, <1>4, <1>5
<1>7. m - 1 \in T
  BY <1>5, <1>6
<1> QED
  BY <1>4, <1>5, <1>7

LEMMA Halves ==
  ASSUME NEW k \in Nat
  PROVE  /\ k \div 2 \in Nat /\ k % 2 \in {0, 1} /\ k = 2 * (k \div 2) + (k % 2)
         /\ k % 2 = 1 => (k + 1) % 2 = 0 /\ (k + 1) \div 2 = k \div 2 + 1
         /\ k % 2 = 0 => (k + 1) % 2 = 1 /\ (k + 1) \div 2 = k \div 2
<1>1. k \div 2 \in Nat /\ k % 2 \in {0, 1} /\ k = 2 * (k \div 2) + (k % 2)
  BY SMT
<1>2. (k + 1) % 2 \in {0, 1} /\ (k + 1) \div 2 \in Nat
      /\ k + 1 = 2 * ((k + 1) \div 2) + ((k + 1) % 2)
  BY SMT
<1> QED
  BY <1>1, <1>2, SMT

LEMMA SteppedNone == ASSUME NEW i \in Ideal PROVE Stepped(i, 0) = i
<1>1. i.window \in Nat \ {0} /\ i.odd \in BOOLEAN /\ i = [window |-> i.window, odd |-> i.odd]
  BY DEF Ideal
<1>4. AtLeastOne(i.window - 0) = i.window
  BY <1>1 DEF AtLeastOne
<1>2. CASE i.odd
  <2>1. Held(i) = 1 /\ (0 + 1) \div 2 = 0 /\ (0 + 1) % 2 = 1
    BY <1>2 DEF Held
  <2>2. Stepped(i, 0) = [window |-> AtLeastOne(i.window - 0), odd |-> TRUE]
    BY <2>1 DEF Stepped
  <2>3. i = [window |-> i.window, odd |-> TRUE]
    BY <1>1, <1>2
  <2> QED
    BY <1>4, <2>2, <2>3
<1>3. CASE ~i.odd
  <2>1. Held(i) = 0 /\ (0 + 0) \div 2 = 0 /\ (0 + 0) % 2 # 1
    BY <1>3 DEF Held
  <2>2. Stepped(i, 0) = [window |-> AtLeastOne(i.window - 0), odd |-> FALSE]
    BY <2>1 DEF Stepped
  <2>3. i = [window |-> i.window, odd |-> FALSE]
    BY <1>1, <1>3
  <2> QED
    BY <1>4, <2>2, <2>3
<1> QED
  BY <1>2, <1>3

LEMMA SteppedOnce ==
  ASSUME NEW i \in Ideal, NEW m \in Nat
  PROVE  OneByOne(Stepped(i, m), TRUE) = Stepped(i, m + 1)
<1> DEFINE k == m + Held(i)
<1>1. k \in Nat /\ m + 1 + Held(i) = k + 1 /\ i.window \in Nat
  BY DEF Held, Ideal
<1>2. /\ Stepped(i, m) = [window |-> AtLeastOne(i.window - k \div 2), odd |-> k % 2 = 1]
      /\ Stepped(i, m + 1)
           = [window |-> AtLeastOne(i.window - (k + 1) \div 2), odd |-> (k + 1) % 2 = 1]
  BY <1>1 DEF Stepped
<1> HIDE DEF k
<1>3. k \div 2 \in Nat /\ k % 2 \in {0, 1}
  BY <1>1, Halves
<1>6. ASSUME NEW w
      PROVE  /\ OneByOne([window |-> w, odd |-> TRUE], TRUE)
                  = [window |-> Max({w - 1, 1}), odd |-> FALSE]
             /\ OneByOne([window |-> w, odd |-> FALSE], TRUE)
                  = [window |-> w, odd |-> TRUE]
  BY DEF OneByOne
<1>4. CASE k % 2 = 1
  <2>1. OneByOne(Stepped(i, m), TRUE)
          = [window |-> Max({AtLeastOne(i.window - k \div 2) - 1, 1}), odd |-> FALSE]
    <3>1. Stepped(i, m) = [window |-> AtLeastOne(i.window - k \div 2), odd |-> TRUE]
      BY <1>2, <1>4
    <3> QED
      BY <1>6, <3>1
  <2>2. AtLeastOne(i.window - k \div 2) - 1 \in Int
    BY <1>1, <1>3 DEF AtLeastOne
  <2>3. AtLeastOne(AtLeastOne(i.window - k \div 2) - 1) = AtLeastOne(i.window - (k \div 2 + 1))
    BY <1>1, <1>3 DEF AtLeastOne
  <2>4. ((k + 1) % 2 = 1) = FALSE /\ (k + 1) \div 2 = k \div 2 + 1
    BY <1>1, <1>4, Halves
  <2>5. Stepped(i, m + 1)
          = [window |-> AtLeastOne(i.window - (k \div 2 + 1)), odd |-> FALSE]
    BY <1>2, <2>4, Zenon
  <2> QED
    BY <2>1, <2>2, <2>3, <2>5, MaxWithOne
<1>5. CASE k % 2 = 0
  <2>1. OneByOne(Stepped(i, m), TRUE)
          = [window |-> AtLeastOne(i.window - k \div 2), odd |-> TRUE]
    <3>1. (k % 2 = 1) = FALSE
      BY <1>5
    <3>2. Stepped(i, m) = [window |-> AtLeastOne(i.window - k \div 2), odd |-> FALSE]
      BY <1>2, <3>1, Zenon
    <3> QED
      BY <1>6, <3>2
  <2>2. ((k + 1) % 2 = 1) = TRUE /\ (k + 1) \div 2 = k \div 2
    BY <1>1, <1>5, Halves
  <2>3. Stepped(i, m + 1) = [window |-> AtLeastOne(i.window - k \div 2), odd |-> TRUE]
    BY <1>2, <2>2, Zenon
  <2> QED
    BY <2>1, <2>3
<1> QED
  BY <1>3, <1>4, <1>5

(* The ideal window i after segments with the marks s.                     *)
EachOf(i, s) == FoldLeft(OneByOne, i, s)

(* The fold over equal marks takes the steps h[0], h[1], ... one by one. *)
LEMMA FoldSteps ==
  ASSUME NEW i, NEW s \in Seq(BOOLEAN), \A k \in 1 .. Len(s) : s[k] = s[1],
         NEW h, h[0] = i, \A k \in 0 .. Len(s) - 1 : h[k + 1] = OneByOne(h[k], s[1])
  PROVE  EachOf(i, s) = h[Len(s)]
<1> DEFINE S == 1 .. Len(s)
           Eq(f) == f = [t \in SUBSET S |-> IF t = {} THEN i
                                            ELSE OneByOne(f[t \ {Max(t)}], s[Max(t)])]
           iter == CHOOSE f : Eq(f)
           g == [t \in SUBSET S |-> h[Cardinality(t)]]
<1>1. Len(s) \in Nat /\ DOMAIN s = S
  OBVIOUS
<1>2. EachOf(i, s) = iter[S]
  BY <1>1 DEF EachOf, FoldLeft, MapThenFoldSet
<1>3. Eq(g)
  <2>1. ASSUME NEW t \in SUBSET S
        PROVE  g[t] = IF t = {} THEN i ELSE OneByOne(g[t \ {Max(t)}], s[Max(t)])
    <3>1. CASE t = {}
      BY <3>1, FS_EmptySet
    <3>2. CASE t # {}
      <4>1. Max(t) \in t /\ s[Max(t)] = s[1]
        BY <1>1, <3>2, Greatest
      <4>2. /\ t \ {Max(t)} \in SUBSET S
            /\ Cardinality(t) \in 1 .. Len(s)
            /\ Cardinality(t \ {Max(t)}) = Cardinality(t) - 1
        BY <1>1, <4>1, WithoutOne
      <4>3. g[t \ {Max(t)}] = h[Cardinality(t) - 1]
        BY <4>2
      <4>4. OneByOne(h[Cardinality(t) - 1], s[1]) = h[Cardinality(t)]
        <5>1. Cardinality(t) - 1 \in 0 .. Len(s) - 1 /\ Cardinality(t) - 1 + 1 = Cardinality(t)
          BY <1>1, <4>2
        <5> QED
          BY <5>1
      <4> QED
        BY <3>2, <4>1, <4>3, <4>4
    <3> QED
      BY <3>1, <3>2
  <2> QED
    BY <2>1
<1>4. \A t \in SUBSET S : iter[t] = IF t = {} THEN i
                                   ELSE OneByOne(iter[t \ {Max(t)}], s[Max(t)])
  <2>1. Eq(iter)
    BY <1>3
  <2> HIDE DEF iter
  <2> QED
    BY <2>1
<1> DEFINE T == {m \in 0 .. Len(s) : iter[1 .. m] = h[m]}
<1>5. 0 \in T
  <2>1. 1 .. 0 = {} /\ {} \in SUBSET S
    OBVIOUS
  <2>2. iter[{}] = i
    BY <1>4, <2>1
  <2> QED
    BY <1>1, <2>1, <2>2
<1>6. ASSUME NEW m \in 0 .. Len(s) - 1, m \in T PROVE m + 1 \in T
  <2>1. m \in Nat /\ m + 1 \in 1 .. Len(s) /\ m + 1 \in Nat \ {0}
    BY <1>1, <1>6
  <2>2. 1 .. (m + 1) \in SUBSET S /\ m + 1 \in 1 .. (m + 1)
    BY <1>1, <2>1
  <2>3. Max(1 .. (m + 1)) = m + 1 /\ (1 .. (m + 1)) \ {m + 1} = 1 .. m
    BY <2>1, MaxOfInitial
  <2>4. iter[1 .. (m + 1)] = OneByOne(iter[1 .. m], s[m + 1])
    <3> HIDE DEF iter
    <3> QED
      BY <1>4, <2>2, <2>3
  <2>5. iter[1 .. m] = h[m] /\ s[m + 1] = s[1]
    BY <1>6, <2>1
  <2>6. iter[1 .. (m + 1)] = h[m + 1]
    <3>1. h[m + 1] = OneByOne(h[m], s[1])
      BY <1>6
    <3> HIDE DEF iter
    <3> QED
      BY <2>4, <2>5, <3>1
  <2> HIDE DEF iter
  <2> QED
    BY <2>1, <2>6
<1>7. Len(s) \in T
  <2> HIDE DEF T
  <2>1. \A m \in 0 .. Len(s) - 1 : m \in T => m + 1 \in T
    BY <1>6
  <2>2. \A m \in 0 .. Len(s) : m \in T
    BY <1>1, <1>5, <2>1, Induction
  <2> QED
    BY <1>1, <2>2
<1> QED
  BY <1>2, <1>7

(* The segments that an ACK covers are all marked, or none is.             *)
LEMMA FoldEqual ==
  ASSUME NEW i \in Ideal, NEW s \in Seq(BOOLEAN), NEW b \in BOOLEAN,
         \A k \in 1 .. Len(s) : s[k] = b
  PROVE  EachOf(i, s) = IF b THEN Stepped(i, Len(s)) ELSE i
<1> DEFINE h == [k \in 0 .. Len(s) |-> IF b THEN Stepped(i, k) ELSE i]
<1>1. Len(s) \in Nat
  OBVIOUS
<1>2. h[0] = i /\ h[Len(s)] = IF b THEN Stepped(i, Len(s)) ELSE i
  BY <1>1, SteppedNone
<1>3. ASSUME NEW k \in 0 .. Len(s) - 1 PROVE h[k + 1] = OneByOne(h[k], b)
  <2>1. k \in Nat /\ k \in 0 .. Len(s) /\ k + 1 \in 0 .. Len(s)
    BY <1>1
  <2>2. CASE b
    <3>1. h[k] = Stepped(i, k) /\ h[k + 1] = Stepped(i, k + 1)
      BY <2>1, <2>2
    <3>2. b = TRUE
      BY <2>2
    <3>3. OneByOne(Stepped(i, k), b) = Stepped(i, k + 1)
      BY <2>1, <3>2, SteppedOnce, Zenon
    <3> QED
      BY <3>1, <3>3
  <2>3. CASE ~b
    <3>1. h[k] = i /\ h[k + 1] = i
      BY <2>1, <2>3
    <3>2. OneByOne(i, b) = i
      BY <2>3 DEF OneByOne
    <3> QED
      BY <3>1, <3>2
  <2> QED
    BY <2>2, <2>3
<1>4. ASSUME NEW k \in 0 .. Len(s) - 1 PROVE h[k + 1] = OneByOne(h[k], s[1])
  <2>1. s[1] = b
    BY <1>1
  <2> HIDE DEF h
  <2> QED
    BY <1>3, <2>1
<1> HIDE DEF h
<1>5. \A k \in 1 .. Len(s) : s[k] = s[1]
  BY <1>1
<1>6. EachOf(i, s) = h[Len(s)]
  <2>1. h[0] = i /\ \A k \in 0 .. Len(s) - 1 : h[k + 1] = OneByOne(h[k], s[1])
    BY <1>2, <1>4
  <2> QED
    BY <1>5, <2>1, FoldSteps
<1> QED
  BY <1>2, <1>6

(* The ACKs s cover the segments a + 1 .. b, each of them once.            *)
Covers(s, a, b) ==
  /\ s \in Seq(Ack)
  /\ s = << >> => a = b
  /\ s # << >> => s[1].from = a /\ s[Len(s)].to = b
  /\ \A i \in 1 .. Len(s) : s[i].from < s[i].to
  /\ \A i \in 1 .. Len(s) - 1 : s[i].to = s[i + 1].from

LEMMA CoversNothing == \A a : Covers(<< >>, a, a)
BY DEF Covers

LEMMA CoversJoined ==
  ASSUME NEW s, NEW t, NEW a, NEW b, NEW c, Covers(s, a, b), Covers(t, b, c)
  PROVE  Covers(s \o t, a, c)
<1>1. s \in Seq(Ack) /\ t \in Seq(Ack)
  BY DEF Covers
<1>2. CASE s = << >>
  <2>1. s \o t = t /\ a = b
    BY <1>1, <1>2 DEF Covers
  <2> QED
    BY <2>1
<1>3. CASE t = << >>
  <2>1. s \o t = s /\ b = c
    BY <1>1, <1>3 DEF Covers
  <2> QED
    BY <2>1
<1>4. CASE s # << >> /\ t # << >>
  <2> DEFINE u == s \o t
             m == Len(s)
             n == Len(t)
  <2>1. /\ u \in Seq(Ack) /\ Len(u) = m + n /\ u # << >>
        /\ m \in Nat \ {0} /\ n \in Nat \ {0}
        /\ \A i \in 1 .. m + n : u[i] = IF i <= m THEN s[i] ELSE t[i - m]
    BY <1>1, <1>4
  <2>2. \A i \in 1 .. m : u[i] = s[i]
    BY <2>1
  <2>3. \A i \in 1 .. n : u[m + i] = t[i]
    BY <2>1
  <2>4. u[1].from = a /\ u[m + n].to = c
    <3>1. 1 \in 1 .. m /\ n \in 1 .. n
      BY <2>1
    <3> QED
      BY <1>4, <2>2, <2>3, <3>1 DEF Covers
  <2>5. \A i \in 1 .. m + n : u[i].from < u[i].to
    <3>1. \A i \in 1 .. m + n : i \in 1 .. m \/ \E j \in 1 .. n : i = m + j
      <4>1. \A i \in 1 .. m + n : i \in 1 .. m \/ (i - m \in 1 .. n /\ i = m + (i - m))
        BY <2>1
      <4> QED
        BY <4>1
    <3> HIDE DEF u
    <3> QED
      BY <2>2, <2>3, <3>1 DEF Covers
  <2>6. ASSUME NEW i \in 1 .. m + n - 1 PROVE u[i].to = u[i + 1].from
    <3>1. i \in Int
      OBVIOUS
    <3>2. CASE i < m
      <4>1. i \in 1 .. m - 1 /\ i \in 1 .. m /\ i + 1 \in 1 .. m
        BY <2>1, <3>1, <3>2
      <4> HIDE DEF u
      <4> QED
        BY <2>2, <4>1 DEF Covers
    <3>3. CASE i = m
      <4>1. m \in 1 .. m /\ 1 \in 1 .. n
        BY <2>1
      <4>2. u[i] = s[m] /\ u[i + 1] = t[1]
        BY <2>2, <2>3, <3>3, <4>1
      <4> HIDE DEF u
      <4> QED
        BY <1>4, <4>2 DEF Covers
    <3>4. CASE i > m
      <4>1. i - m \in 1 .. n - 1 /\ i - m \in 1 .. n /\ i - m + 1 \in 1 .. n
        BY <2>1, <3>1, <3>4
      <4>2. i = m + (i - m) /\ i + 1 = m + (i - m + 1)
        BY <2>1, <3>1
      <4>3. u[i] = t[i - m] /\ u[i + 1] = t[i - m + 1]
        BY <2>3, <4>1, <4>2
      <4>4. t[i - m].to = t[i - m + 1].from
        BY <4>1 DEF Covers
      <4> QED
        BY <4>3, <4>4
    <3> QED
      BY <2>1, <3>1, <3>2, <3>3, <3>4
  <2> HIDE DEF u
  <2>7. Covers(u, a, c)
    BY <2>1, <2>4, <2>5, <2>6 DEF Covers
  <2> QED
    BY <2>7 DEF u
<1> QED
  BY <1>2, <1>3, <1>4

LEMMA CoversOne ==
  ASSUME NEW a \in Ack, a.from < a.to
  PROVE  Covers(<<a>>, a.from, a.to)
<1>1. /\ <<a>> \in Seq(Ack) /\ Len(<<a>>) = 1 /\ <<a>> # << >> /\ <<a>>[1] = a
  OBVIOUS
<1>2. \A i \in 1 .. 1 : i = 1
  OBVIOUS
<1> QED
  BY <1>1, <1>2 DEF Covers

LEMMA CoversTail ==
  ASSUME NEW s, NEW a, NEW b, Covers(s, a, b), s # << >>
  PROVE  /\ Head(s) = s[1] /\ s[1] \in Ack /\ s[1].from = a /\ a < s[1].to
         /\ Covers(Tail(s), s[1].to, b)
<1> DEFINE n == Len(s)
<1>1. s \in Seq(Ack) /\ n \in Nat \ {0} /\ Head(s) = s[1] /\ 1 \in 1 .. n /\ s[1] \in Ack
  BY DEF Covers
<1>2. s[1].from = a /\ a < s[1].to
  BY <1>1 DEF Covers
<1>3. /\ Tail(s) \in Seq(Ack) /\ Len(Tail(s)) = n - 1
      /\ \A i \in 1 .. n - 1 : Tail(s)[i] = s[i + 1]
  BY <1>1
<1> HIDE DEF n
<1>4. Tail(s) = << >> => s[1].to = b
  <2>1. s[n].to = b
    BY <1>1 DEF Covers, n
  <2>2. Tail(s) = << >> => n = 1
    <3>1. \A t : t = << >> => Len(t) = 0
      OBVIOUS
    <3>2. Tail(s) = << >> => Len(Tail(s)) = 0
      BY <3>1, Zenon
    <3> QED
      BY <1>1, <1>3, <3>2
  <2> QED
    BY <2>1, <2>2
<1>5. Tail(s) # << >> => Tail(s)[1].from = s[1].to /\ Tail(s)[n - 1].to = b
  <2> SUFFICES ASSUME Tail(s) # << >> PROVE Tail(s)[1].from = s[1].to /\ Tail(s)[n - 1].to = b
    OBVIOUS
  <2>1. n - 1 \in 1 .. n - 1 /\ 1 \in 1 .. n - 1 /\ n - 1 + 1 = n
    BY <1>1, <1>3
  <2>2. Tail(s)[1] = s[1 + 1] /\ Tail(s)[n - 1] = s[n]
    BY <1>3, <2>1
  <2>3. s[1].to = s[1 + 1].from
    BY <2>1 DEF Covers, n
  <2>4. s[n].to = b
    BY <1>1 DEF Covers, n
  <2> QED
    BY <2>2, <2>3, <2>4
<1>6. \A i \in 1 .. n - 1 : i + 1 \in 1 .. n
  BY <1>1
<1>7. \A i \in 1 .. n - 2 : i \in 1 .. n - 1 /\ i + 1 \in 1 .. n - 1
  BY <1>1
<1>8. Covers(Tail(s), s[1].to, b)
  <2>1. \A i \in 1 .. n - 1 : Tail(s)[i].from < Tail(s)[i].to
    BY <1>3, <1>6 DEF Covers, n
  <2>2. ASSUME NEW i \in 1 .. n - 1 - 1 PROVE Tail(s)[i].to = Tail(s)[i + 1].from
    <3>1. i \in 1 .. n - 1 /\ i + 1 \in 1 .. n - 1
      BY <1>1
    <3>2. Tail(s)[i] = s[i + 1] /\ Tail(s)[i + 1] = s[i + 1 + 1]
      BY <1>3, <3>1
    <3>3. s[i + 1].to = s[i + 1 + 1].from
      BY <3>1 DEF Covers, n
    <3> QED
      BY <3>2, <3>3
  <2> QED
    BY <1>3, <1>4, <1>5, <2>1, <2>2 DEF Covers
<1> QED
  BY <1>1, <1>2, <1>8

(* The receiver adds to what its ACKs cover.                               *)
LEMMA AckCovers ==
  ASSUME NEW s \in ReceiverType, NEW a \in Nat, Covers(s.sent, a, s.acked),
         s.acked < s.next
  PROVE  Covers(SendAck(s).sent, a, s.next) /\ SendAck(s).acked = s.next
<1> DEFINE k == [from |-> s.acked, to |-> s.next, ece |-> s.demandCwr]
<1>1. k \in Ack /\ k.from = s.acked /\ k.to = s.next
  BY DEF ReceiverType, Ack
<1>2. s.sent \in Seq(Ack)
  BY DEF Covers
<1>3. SendAck(s) = [s EXCEPT !.sent = Append(s.sent, k), !.acked = s.next, !.reserved = FALSE]
  BY DEF SendAck
<1> HIDE DEF k
<1>4. SendAck(s).sent = Append(s.sent, k) /\ SendAck(s).acked = s.next
  BY <1>3 DEF ReceiverType
<1>5. Append(s.sent, k) = s.sent \o <<k>>
  BY <1>1, <1>2
<1>6. Covers(<<k>>, s.acked, s.next)
  BY <1>1, CoversOne
<1> QED
  BY <1>4, <1>5, <1>6, CoversJoined

(* The ACKs of one event cover what the receiver acknowledges with it.     *)
LEMMA ReceiveCovers ==
  ASSUME EchoInv, NEW mark \in BOOLEAN, NEW cwr \in BOOLEAN, NEW quick \in BOOLEAN,
         Receive(mark, cwr, quick)
  PROVE  acks' = acks \o r'.sent /\ Covers(r'.sent, r.acked, r'.acked)
<1> DEFINE n == Len(ce)
           demand == r.demandCwr /\ ~cwr
           got == [r EXCEPT !.next = @ + 1, !.demandCwr = demand, !.sent = << >>]
           before == [got EXCEPT !.demandCwr = got.ceState, !.next = got.prior]
           seen == CeState(got, mark)
           answered == IF quick \/ seen.next - seen.acked > 1 THEN SendAck(seen)
                       ELSE DelayAck(seen)
<1>1. /\ n \in Nat /\ r \in ReceiverType /\ r.ceState \in BOOLEAN
      /\ r.next = n /\ r.prior = n /\ r.acked \in Nat /\ r.acked <= n
      /\ r.reserved <=> r.acked < n
  BY DEF EchoInv, ReceiverType
<1>2. r' = answered /\ acks' = acks \o answered.sent
  BY DEF Receive
<1>0. << >> \in Seq(Ack)
  BY NoAcks DEF Truthful
<1>3. /\ got \in ReceiverType
      /\ got.next = n + 1 /\ got.prior = n /\ got.acked = r.acked /\ got.sent = << >>
      /\ got.ceState = r.ceState /\ got.reserved = r.reserved
  <2>1. demand \in BOOLEAN /\ n + 1 \in Nat /\ r.next + 1 = n + 1
    BY <1>1
  <2> HIDE DEF demand, n
  <2>2. got = [r EXCEPT !.next = n + 1, !.demandCwr = demand, !.sent = << >>]
    BY <2>1
  <2> QED
    BY <1>0, <1>1, <2>1, <2>2 DEF ReceiverType
<1>4. /\ seen \in ReceiverType /\ seen.next = n + 1 /\ seen.acked <= n
      /\ Covers(seen.sent, r.acked, seen.acked)
  <2> HIDE DEF n, got
  <2>1. CASE got.ceState # mark /\ got.reserved
    <3>1. /\ before \in ReceiverType
          /\ before.next = n /\ before.acked = r.acked /\ before.sent = << >>
      BY <1>1, <1>3 DEF ReceiverType
    <3> HIDE DEF before
    <3>2. Covers(SendAck(before).sent, r.acked, n) /\ SendAck(before).acked = n
      <4>1. before.acked < before.next /\ Covers(before.sent, r.acked, before.acked)
        BY <1>1, <1>3, <2>1, <3>1, CoversNothing
      <4> QED
        BY <1>1, <3>1, <4>1, AckCovers
    <3>3. SendAck(before) \in ReceiverType
      <4>1. SendAck(before).sent \in Seq(Ack)
        BY <3>2 DEF Covers
      <4>2. SendAck(before) = [before EXCEPT !.sent = SendAck(before).sent,
                                 !.acked = before.next, !.reserved = FALSE]
        BY <3>1 DEF SendAck, ReceiverType
      <4> QED
        BY <3>1, <4>1, <4>2 DEF ReceiverType
    <3>4. seen = [[SendAck(before) EXCEPT !.next = got.next] EXCEPT !.prior = n + 1,
                    !.ceState = mark, !.demandCwr = mark]
      BY <1>3, <2>1, <3>3 DEF CeState, AckPrevious, before, ReceiverType
    <3>5. /\ seen \in ReceiverType /\ seen.next = n + 1 /\ seen.acked = n
          /\ seen.sent = SendAck(before).sent
      BY <1>1, <1>3, <3>2, <3>3, <3>4 DEF ReceiverType
    <3> HIDE DEF seen
    <3> QED
      BY <1>1, <3>2, <3>5
  <2>2. CASE ~(got.ceState # mark /\ got.reserved)
    <3>1. seen = [got EXCEPT !.prior = n + 1, !.ceState = mark, !.demandCwr = mark]
      BY <1>3, <2>2 DEF CeState, AckPrevious
    <3>2. /\ seen \in ReceiverType /\ seen.next = n + 1 /\ seen.acked = r.acked
          /\ seen.sent = << >>
      BY <1>1, <1>3, <3>1 DEF ReceiverType
    <3> HIDE DEF seen
    <3> QED
      BY <1>1, <3>2, CoversNothing
  <2> QED
    BY <2>1, <2>2
<1> HIDE DEF n, got, before, seen
<1>5. Covers(answered.sent, r.acked, answered.acked)
  <2>1. seen.acked < seen.next
    <3>1. seen.acked \in Nat
      BY <1>4 DEF ReceiverType
    <3> QED
      BY <1>1, <1>4, <3>1
  <2>2. CASE quick \/ seen.next - seen.acked > 1
    <3>1. answered = SendAck(seen)
      BY <2>2
    <3>2. Covers(SendAck(seen).sent, r.acked, seen.next) /\ SendAck(seen).acked = seen.next
      BY <1>1, <1>4, <2>1, AckCovers
    <3> HIDE DEF answered
    <3> QED
      BY <3>1, <3>2
  <2>3. CASE ~(quick \/ seen.next - seen.acked > 1)
    <3>1. answered = [seen EXCEPT !.reserved = TRUE]
      BY <2>3 DEF DelayAck
    <3>2. answered.sent = seen.sent /\ answered.acked = seen.acked
      BY <1>4, <3>1 DEF ReceiverType
    <3> HIDE DEF answered
    <3> QED
      BY <1>4, <3>2
  <2> QED
    BY <2>2, <2>3
<1> QED
  BY <1>2, <1>5

LEMMA TimerCovers ==
  ASSUME EchoInv, DelayedAckTimer
  PROVE  acks' = acks \o r'.sent /\ Covers(r'.sent, r.acked, r'.acked)
<1> DEFINE s == [r EXCEPT !.sent = << >>]
<1>1. r \in ReceiverType /\ << >> \in Seq(Ack) /\ r.acked \in Nat
  BY NoAcks DEF EchoInv, Truthful, ReceiverType
<1>2. s \in ReceiverType /\ s.sent = << >> /\ s.next = r.next /\ s.acked = r.acked
  BY <1>1 DEF ReceiverType
<1>3. r' = SendAck(s) /\ acks' = acks \o r'.sent /\ s.acked < s.next
  BY <1>2 DEF DelayedAckTimer
<1> HIDE DEF s
<1>4. Covers(s.sent, r.acked, s.acked)
  BY <1>2, CoversNothing
<1> QED
  BY <1>1, <1>2, <1>3, <1>4, AckCovers

(* No more segments are on their way than the window allows, and the ACKs  *)
(* cover them from sndUna on, so that the window is never reduced by more  *)
(* than it is.                                                             *)
WindowInv ==
  /\ sndUna \in Nat /\ sndNxt \in Nat /\ Len(ce) <= sndNxt
  /\ cwnd \in 1 .. MaxWindow /\ sndNxt - sndUna <= cwnd
  /\ ideal \in Ideal /\ ideal.window = cwnd /\ ecnEcho = Held(ideal)
  /\ Covers(acks, sndUna, r.acked)

LEMMA WindowInit == DctcpInit => WindowInv
<1> SUFFICES ASSUME DctcpInit PROVE WindowInv
  OBVIOUS
<1>1. Len(ce) = 0 /\ acks = << >> /\ sndUna = 0 /\ sndNxt = 0 /\ r.acked = 0
  BY DEF DctcpInit, Receiver
<1>2. InitialWindow \in 1 .. MaxWindow
  BY DctcpAssumption
<1>3. ideal \in Ideal /\ ideal.window = InitialWindow /\ ideal.odd = FALSE
  BY <1>2, DctcpAssumption DEF DctcpInit, Ideal
<1>4. cwnd = InitialWindow /\ ecnEcho = 0
  BY DEF DctcpInit
<1> QED
  BY <1>1, <1>2, <1>3, <1>4, CoversNothing DEF WindowInv, Held

(* What an ACK takes off the window, and what it leaves for the next.      *)
LEMMA ReduceByHalf ==
  ASSUME NEW i \in Ideal, i.window \in 1 .. MaxWindow, NEW n \in 1 .. i.window
  PROVE  /\ Stepped(i, n) \in Ideal
         /\ Stepped(i, n).window = Reduced(i.window, (n + Held(i)) \div 2)
         /\ Held(Stepped(i, n)) = Carried(n + Held(i))
         /\ Stepped(i, n).window \in 1 .. MaxWindow
         /\ i.window - n <= Stepped(i, n).window
<1> DEFINE k == n + Held(i)
           w == i.window - k \div 2
<1>1. k \in Nat /\ k <= n + 1 /\ i.window \in Nat /\ i.window <= MaxWindow
  BY DEF Held, Ideal
<1>2. k \div 2 \in Nat /\ k % 2 \in {0, 1} /\ k = 2 * (k \div 2) + (k % 2)
  BY <1>1, Halves
<1>3. k \div 2 <= n
  <2> HIDE DEF k
  <2> QED
    BY <1>1, <1>2
<1>4. w \in 0 .. i.window /\ i.window - n <= w
  BY <1>1, <1>2, <1>3
<1>5. Stepped(i, n) = [window |-> AtLeastOne(w), odd |-> k % 2 = 1]
  BY DEF Stepped
<1>6. (i.window - k \div 2) % Wrap = w
  <2>1. Wrap \in Nat /\ w \in 0 .. Wrap - 1
    BY <1>1, <1>4, DctcpAssumption
  <2> HIDE DEF w
  <2>2. w % Wrap = w
    BY <2>1, Remainder
  <2> QED
    BY <2>2 DEF w
<1> HIDE DEF k, w
<1>7. Reduced(i.window, k \div 2) = AtLeastOne(w)
  BY <1>4, <1>6, MaxWithOne DEF Reduced
<1>8. AtLeastOne(w) \in 1 .. MaxWindow /\ w <= AtLeastOne(w)
  BY <1>1, <1>4, DctcpAssumption DEF AtLeastOne
<1>9. Stepped(i, n).window = AtLeastOne(w) /\ Stepped(i, n) \in Ideal
  <2>1. AtLeastOne(w) \in Nat \ {0}
    BY <1>8
  <2>2. ASSUME NEW o \in BOOLEAN
        PROVE  LET j == [window |-> AtLeastOne(w), odd |-> o]
               IN j \in Ideal /\ j.window = AtLeastOne(w) /\ j.odd = o
    BY <2>1 DEF Ideal
  <2>3. (k % 2 = 1) \in BOOLEAN
    OBVIOUS
  <2> QED
    BY <1>5, <2>2, <2>3, Zenon
<1>10. Held(Stepped(i, n)) = k % 2
  <2>1. CASE k % 2 = 1
    <3>1. Stepped(i, n).odd = TRUE
      <4>1. (k % 2 = 1) = TRUE
        BY <2>1
      <4>2. Stepped(i, n) = [window |-> AtLeastOne(w), odd |-> TRUE]
        BY <1>5, <4>1, Zenon
      <4> QED
        BY <4>2
    <3> QED
      BY <2>1, <3>1 DEF Held
  <2>2. CASE k % 2 = 0
    <3>1. Stepped(i, n).odd = FALSE
      <4>1. (k % 2 = 1) = FALSE
        BY <2>2
      <4>2. Stepped(i, n) = [window |-> AtLeastOne(w), odd |-> FALSE]
        BY <1>5, <4>1, Zenon
      <4> QED
        BY <4>2
    <3> QED
      BY <2>2, <3>1 DEF Held
  <2> QED
    BY <1>2, <2>1, <2>2
<1> QED
  BY <1>1, <1>4, <1>7, <1>8, <1>9, <1>10 DEF k, Carried

(* An ACK comes back: its segments are those of one state.                 *)
LEMMA WindowAck ==
  ASSUME EchoInv, WindowInv, InAckEvent
  PROVE  WindowInv'
<1> DEFINE a == Head(acks)
           s == SubSeq(ce, sndUna + 1, a.to)
           n == a.to - sndUna
<1>1. acks # << >> /\ sndUna' = a.to /\ acks' = Tail(acks) /\ UNCHANGED <<sndNxt, ce, r>>
  BY DEF InAckEvent
<1>2. /\ a = acks[1] /\ a \in Ack /\ a.from = sndUna /\ sndUna < a.to
      /\ Covers(Tail(acks), a.to, r.acked)
  BY <1>1, CoversTail DEF WindowInv
<1>3. /\ a.to <= Len(ce) /\ \A k \in a.from + 1 .. a.to : ce[k] = a.ece
      /\ ce \in Seq(BOOLEAN)
  <2>1. 1 \in 1 .. Len(acks)
    BY <1>1 DEF WindowInv, Covers
  <2> QED
    BY <1>2, <2>1 DEF EchoInv, Truthful
<1>4. a.to \in Nat /\ a.ece \in BOOLEAN /\ sndUna \in Nat /\ Len(ce) \in Nat
  BY <1>2, <1>3 DEF Ack, WindowInv
<1> HIDE DEF a
<1>5. n \in 1 .. cwnd /\ sndNxt' - sndUna' <= cwnd - n /\ Len(ce') <= sndNxt'
  BY <1>1, <1>2, <1>3, <1>4 DEF WindowInv
<1>6. /\ s \in Seq(BOOLEAN) /\ Len(s) = n
      /\ \A k \in 1 .. n : s[k] = ce[sndUna + k]
  BY <1>2, <1>3, <1>4
<1>7. \A k \in 1 .. Len(s) : s[k] = a.ece
  <2>1. \A k \in 1 .. n : sndUna + k \in a.from + 1 .. a.to
    BY <1>2, <1>4
  <2> HIDE DEF s, n
  <2> QED
    BY <1>3, <1>6, <2>1
<1>8. ideal \in Ideal /\ ideal.window = cwnd /\ cwnd \in 1 .. MaxWindow
      /\ ecnEcho = Held(ideal)
  BY DEF WindowInv
<1>9. EachOf(ideal, s) = IF a.ece THEN Stepped(ideal, n) ELSE ideal
  <2> HIDE DEF s, n
  <2> QED
    BY <1>4, <1>6, <1>7, <1>8, FoldEqual
<1>10. \/ /\ a.ece
          /\ ecnEcho' = Carried(n + ecnEcho)
          /\ cwnd' = Reduced(cwnd, (n + ecnEcho) \div 2)
          /\ ideal' = EachOf(ideal, s)
       \/ /\ ~a.ece
          /\ \E growth \in {0, 1} :
               /\ cwnd + growth <= MaxWindow
               /\ cwnd' = cwnd + growth
               /\ ideal' = [EachOf(ideal, s) EXCEPT !.window = @ + growth]
          /\ UNCHANGED ecnEcho
  BY DEF InAckEvent, EachOf, a
<1> HIDE DEF s, n
<1>11. /\ cwnd' \in 1 .. MaxWindow /\ cwnd - n <= cwnd'
       /\ ideal' \in Ideal /\ ideal'.window = cwnd' /\ ecnEcho' = Held(ideal')
  <2>1. CASE a.ece
    <3>1. ideal' = Stepped(ideal, n)
      BY <1>9, <1>10, <2>1
    <3> QED
      BY <1>5, <1>8, <1>10, <2>1, <3>1, ReduceByHalf
  <2>2. CASE ~a.ece
    <3>1. PICK growth \in {0, 1} : /\ cwnd + growth <= MaxWindow
                                   /\ cwnd' = cwnd + growth
                                   /\ ideal' = [ideal EXCEPT !.window = @ + growth]
      BY <1>9, <1>10, <2>2
    <3>2. ideal' \in Ideal /\ ideal'.window = cwnd + growth /\ ideal'.odd = ideal.odd
      BY <1>8, <3>1 DEF Ideal
    <3> QED
      BY <1>5, <1>8, <1>10, <2>2, <3>1, <3>2, DctcpAssumption DEF Held
  <2> QED
    BY <2>1, <2>2
<1>12. sndNxt' \in Nat /\ sndUna' \in Nat /\ sndNxt' - sndUna' <= cwnd'
  BY <1>1, <1>4, <1>5, <1>11, DctcpAssumption DEF WindowInv, n
<1> QED
  BY <1>1, <1>2, <1>5, <1>11, <1>12 DEF WindowInv

LEMMA WindowNext ==
  ASSUME EchoInv, WindowInv, [DctcpNext]_dctcpVars
  PROVE  WindowInv'
<1>1. CASE UNCHANGED dctcpVars
  BY <1>1 DEF dctcpVars, WindowInv
<1>2. CASE Transmit
  <2>1. sndNxt' = sndNxt + 1 /\ sndNxt - sndUna < cwnd
        /\ UNCHANGED <<ce, r, acks, sndUna, cwnd, ecnEcho, ideal>>
    BY <1>2 DEF Transmit
  <2>2. sndNxt' \in Nat /\ Len(ce) <= sndNxt' /\ sndNxt' - sndUna <= cwnd
    <3>1. Len(ce) \in Nat
      BY DEF EchoInv
    <3> QED
      BY <2>1, <3>1 DEF WindowInv
  <2> QED
    BY <2>1, <2>2 DEF WindowInv
<1>3. ASSUME NEW mark \in BOOLEAN, NEW cwr \in BOOLEAN, NEW quick \in BOOLEAN,
             Receive(mark, cwr, quick)
      PROVE  WindowInv'
  <2>1. Covers(acks', sndUna, r'.acked)
    BY <1>3, ReceiveCovers, CoversJoined DEF WindowInv
  <2>2. Len(ce) < sndNxt /\ ce' = Append(ce, mark)
        /\ UNCHANGED <<sndNxt, sndUna, cwnd, ecnEcho, ideal>>
    BY <1>3 DEF Receive
  <2>3. Len(ce') <= sndNxt
    BY <2>2 DEF EchoInv, WindowInv
  <2> QED
    BY <2>1, <2>2, <2>3 DEF WindowInv
<1>4. CASE DelayedAckTimer
  <2>1. Covers(acks', sndUna, r'.acked)
    BY <1>4, TimerCovers, CoversJoined DEF WindowInv
  <2>2. UNCHANGED <<sndNxt, ce, sndUna, cwnd, ecnEcho, ideal>>
    BY <1>4 DEF DelayedAckTimer
  <2> QED
    BY <2>1, <2>2 DEF WindowInv
<1> QED
  BY <1>1, <1>2, <1>3, <1>4, WindowAck DEF DctcpNext

(* The sender's window is the one it would have if it had seen the mark of *)
(* each segment itself, however segments were put together in ACKs; and    *)
(* the subtraction does not wrap.                                          *)
THEOREM MarksAllCount == DctcpSpec => []EveryMarkCounts
<1>1. DctcpInit => EchoInv /\ WindowInv
  BY EchoInit, WindowInit
<1>2. EchoInv /\ WindowInv /\ [DctcpNext]_dctcpVars => (EchoInv /\ WindowInv)'
  BY EchoNext, WindowNext
<1>3. WindowInv => EveryMarkCounts
  BY DEF WindowInv, EveryMarkCounts, Held
<1> QED
  BY <1>1, <1>2, <1>3, PTL DEF DctcpSpec

----------------------------------------------------------------------------
(* Sums over a finite set, which SumFunction takes in the order of CHOOSE. *)
Chosen(t) == CHOOSE x \in t : TRUE
SumRule(f, g, D) ==
  \A t \in D : g[t] = IF t = {} THEN 0 ELSE f[Chosen(t)] + g[t \ {Chosen(t)}]
UpTo(S, n) == {t \in SUBSET S : Cardinality(t) <= n}

LEMMA WithoutChosen ==
  ASSUME NEW S, IsFiniteSet(S), NEW t \in SUBSET S, t # {}
  PROVE  /\ Chosen(t) \in t /\ Chosen(t) \in S /\ t \ {Chosen(t)} \in SUBSET S
         /\ Cardinality(t) \in Nat \ {0}
         /\ Cardinality(t \ {Chosen(t)}) = Cardinality(t) - 1
<1>1. Chosen(t) \in t
  BY DEF Chosen
<1>2. IsFiniteSet(t)
  BY FS_Subset
<1>3. Cardinality(t) \in Nat /\ Cardinality(t) # 0
  BY <1>2, FS_CardinalityType, FS_EmptySet
<1>4. Cardinality(t \ {Chosen(t)}) = Cardinality(t) - 1
  BY <1>1, <1>2, FS_RemoveElement
<1> QED
  BY <1>1, <1>3, <1>4

LEMMA SubsetInduction ==
  ASSUME NEW S, IsFiniteSet(S), NEW T, {} \in T,
         \A t \in SUBSET S : t # {} /\ t \ {Chosen(t)} \in T => t \in T
  PROVE  \A t \in SUBSET S : t \in T
<1> DEFINE N == {n \in Nat : \A t \in SUBSET S : Cardinality(t) = n => t \in T}
<1>1. 0 \in N
  <2>1. \A t \in SUBSET S : Cardinality(t) = 0 => t = {}
    BY FS_Subset, FS_EmptySet
  <2> QED
    BY <2>1
<1>2. ASSUME NEW m \in Nat, m \in N PROVE m + 1 \in N
  <2> SUFFICES ASSUME NEW t \in SUBSET S, Cardinality(t) = m + 1 PROVE t \in T
    OBVIOUS
  <2>1. t # {}
    BY FS_EmptySet
  <2>2. t \ {Chosen(t)} \in SUBSET S /\ Cardinality(t \ {Chosen(t)}) = m
    BY <2>1, WithoutChosen
  <2>3. t \ {Chosen(t)} \in T
    BY <1>2, <2>2
  <2> QED
    BY <2>1, <2>3
<1>3. SUFFICES ASSUME NEW t \in SUBSET S PROVE Cardinality(t) \in N
  BY FS_Subset, FS_CardinalityType
<1>4. Cardinality(t) \in Nat
  BY FS_Subset, FS_CardinalityType
<1> HIDE DEF N
<1>5. \A m \in 0 .. Cardinality(t) : m \in N
  <2>1. \A m \in 0 .. Cardinality(t) - 1 : m \in N => m + 1 \in N
    BY <1>2
  <2> QED
    BY <1>1, <1>4, <2>1, Induction
<1> QED
  BY <1>4, <1>5

LEMMA SumExists ==
  ASSUME NEW S, IsFiniteSet(S), NEW f \in [S -> Int], NEW n \in Nat
  PROVE  \E g \in [UpTo(S, n) -> Int] : SumRule(f, g, UpTo(S, n))
<1> DEFINE N == {m \in Nat : \E g \in [UpTo(S, m) -> Int] : SumRule(f, g, UpTo(S, m))}
<1>1. 0 \in N
  <2> DEFINE g == [t \in UpTo(S, 0) |-> 0]
  <2>1. \A t \in UpTo(S, 0) : t = {}
    <3> SUFFICES ASSUME NEW t \in UpTo(S, 0), t # {} PROVE FALSE
      OBVIOUS
    <3>1. t \in SUBSET S /\ Cardinality(t) <= 0
      BY DEF UpTo
    <3>2. Cardinality(t) \in Nat \ {0}
      BY <3>1, WithoutChosen
    <3> QED
      BY <3>1, <3>2
  <2>2. SumRule(f, g, UpTo(S, 0))
    BY <2>1 DEF SumRule
  <2>3. g \in [UpTo(S, 0) -> Int]
    OBVIOUS
  <2> HIDE DEF g
  <2> QED
    BY <2>2, <2>3
<1>2. ASSUME NEW m \in Nat, m \in N PROVE m + 1 \in N
  <2>1. PICK g \in [UpTo(S, m) -> Int] : SumRule(f, g, UpTo(S, m))
    BY <1>2
  <2> DEFINE h == [t \in UpTo(S, m + 1) |-> IF t = {} THEN 0
                                            ELSE f[Chosen(t)] + g[t \ {Chosen(t)}]]
  <2>2. ASSUME NEW t \in UpTo(S, m + 1), t # {}
        PROVE  f[Chosen(t)] \in Int /\ t \ {Chosen(t)} \in UpTo(S, m)
    <3>1. t \in SUBSET S /\ Cardinality(t) <= m + 1
      BY DEF UpTo
    <3>2. Chosen(t) \in S /\ t \ {Chosen(t)} \in SUBSET S
          /\ Cardinality(t) \in Nat \ {0} /\ Cardinality(t \ {Chosen(t)}) = Cardinality(t) - 1
      BY <2>2, <3>1, WithoutChosen
    <3> QED
      BY <3>1, <3>2 DEF UpTo
  <2>3. h \in [UpTo(S, m + 1) -> Int]
    BY <2>2
  <2>4. \A t \in UpTo(S, m) : t \in UpTo(S, m + 1) /\ h[t] = g[t]
    <3>1. ASSUME NEW t \in UpTo(S, m) PROVE t \in UpTo(S, m + 1)
      BY FS_Subset, FS_CardinalityType DEF UpTo
    <3> QED
      BY <2>1, <3>1 DEF SumRule
  <2>5. SumRule(f, h, UpTo(S, m + 1))
    <3> SUFFICES ASSUME NEW t \in UpTo(S, m + 1)
                 PROVE  h[t] = IF t = {} THEN 0 ELSE f[Chosen(t)] + h[t \ {Chosen(t)}]
      BY DEF SumRule
    <3>1. t # {} => h[t \ {Chosen(t)}] = g[t \ {Chosen(t)}]
      BY <2>2, <2>4
    <3>2. h[t] = IF t = {} THEN 0 ELSE f[Chosen(t)] + g[t \ {Chosen(t)}]
      OBVIOUS
    <3> HIDE DEF h
    <3> QED
      BY <3>1, <3>2
  <2> HIDE DEF h
  <2> QED
    BY <2>3, <2>5
<1> HIDE DEF N
<1>3. \A m \in 0 .. n : m \in N
  BY <1>1, <1>2, Induction
<1>4. n \in N
  BY <1>3
<1> QED
  BY <1>4 DEF N

LEMMA SumRuled ==
  ASSUME NEW S, IsFiniteSet(S), NEW f \in [S -> Int]
  PROVE  \E g \in [SUBSET S -> Int] : SumRule(f, g, SUBSET S) /\ SumFunction(f) = g[S]
<1>1. Cardinality(S) \in Nat /\ UpTo(S, Cardinality(S)) = SUBSET S
  BY FS_Subset, FS_CardinalityType DEF UpTo
<1>2. PICK g \in [SUBSET S -> Int] : SumRule(f, g, SUBSET S)
  <2>1. \E g \in [UpTo(S, Cardinality(S)) -> Int] : SumRule(f, g, UpTo(S, Cardinality(S)))
    BY <1>1, SumExists
  <2> QED
    BY <1>1, <2>1
<1> DEFINE Eq(e) == e = [t \in SUBSET S |-> IF t = {} THEN 0
                                            ELSE f[Chosen(t)] + e[t \ {Chosen(t)}]]
           iter == CHOOSE e : Eq(e)
<1>3. SumFunction(f) = iter[S]
  BY DEF SumFunction, SumFunctionOnSet, FoldFunctionOnSet, MapThenFoldSet, Chosen
<1>4. Eq(g)
  BY <1>2 DEF SumRule
<1>5. Eq(iter)
  BY <1>4
<1>6. \A t \in SUBSET S : iter[t] = IF t = {} THEN 0
                                    ELSE f[Chosen(t)] + iter[t \ {Chosen(t)}]
  <2> HIDE DEF iter
  <2> QED
    BY <1>5
<1> HIDE DEF iter
<1> DEFINE T == {t \in SUBSET S : iter[t] = g[t]}
<1>7. {} \in T
  BY <1>2, <1>6 DEF SumRule
<1>8. \A t \in SUBSET S : t # {} /\ t \ {Chosen(t)} \in T => t \in T
  BY <1>2, <1>6 DEF SumRule
<1>9. \A t \in SUBSET S : t \in T
  <2> HIDE DEF T
  <2> QED
    BY <1>7, <1>8, SubsetInduction
<1> QED
  BY <1>2, <1>3, <1>9

LEMMA SumChanged ==
  ASSUME NEW S, IsFiniteSet(S), NEW f \in [S -> Int], NEW h \in S, NEW v \in Int
  PROVE  /\ SumFunction(f) \in Int
         /\ SumFunction([f EXCEPT ![h] = v]) = SumFunction(f) - f[h] + v
<1> DEFINE e == [f EXCEPT ![h] = v]
<1>1. e \in [S -> Int] /\ e[h] = v /\ \A x \in S : x # h => e[x] = f[x]
  OBVIOUS
<1> HIDE DEF e
<1>2. PICK g \in [SUBSET S -> Int] : SumRule(f, g, SUBSET S) /\ SumFunction(f) = g[S]
  BY SumRuled
<1>3. PICK k \in [SUBSET S -> Int] : SumRule(e, k, SUBSET S) /\ SumFunction(e) = k[S]
  BY <1>1, SumRuled
<1> DEFINE T == {t \in SUBSET S : k[t] = g[t] + (IF h \in t THEN v - f[h] ELSE 0)}
<1>4. {} \in T
  <2>1. {} \in SUBSET S /\ h \notin {}
    OBVIOUS
  <2>2. g[{}] = 0 /\ k[{}] = 0
    BY <1>2, <1>3, <2>1 DEF SumRule
  <2> QED
    BY <2>1, <2>2
<1>5. ASSUME NEW t \in SUBSET S, t # {}, t \ {Chosen(t)} \in T PROVE t \in T
  <2> DEFINE x == Chosen(t)
             u == t \ {x}
  <2>1. x \in t /\ x \in S /\ u \in SUBSET S
    BY <1>5, WithoutChosen
  <2>2. g[t] = f[x] + g[u] /\ k[t] = e[x] + k[u]
    BY <1>2, <1>3, <1>5 DEF SumRule
  <2>3. k[u] = g[u] + (IF h \in u THEN v - f[h] ELSE 0)
    BY <1>5
  <2>4. g[u] \in Int /\ f[x] \in Int /\ f[h] \in Int
    BY <2>1
  <2> HIDE DEF x
  <2>5. CASE x = h
    BY <1>1, <2>1, <2>2, <2>3, <2>4, <2>5
  <2>6. CASE x # h
    <3>1. h \in u <=> h \in t
      BY <2>6
    <3>2. e[x] = f[x]
      BY <1>1, <2>1, <2>6
    <3> QED
      BY <2>1, <2>2, <2>3, <2>4, <3>1, <3>2
  <2> QED
    BY <2>5, <2>6
<1>6. S \in T
  <2> HIDE DEF T
  <2> QED
    BY <1>4, <1>5, SubsetInduction
<1> QED
  BY <1>2, <1>3, <1>6 DEF e

LEMMA SumWithout ==
  ASSUME NEW S, IsFiniteSet(S), NEW f \in [S -> Int], NEW x \in S
  PROVE  /\ SumFunction(f) \in Int
         /\ SumFunction([f EXCEPT ![x] = 0]) = SumFunction(f) - f[x]
<1>1. f[x] \in Int /\ 0 \in Int
  OBVIOUS
<1>2. SumFunction(f) \in Int /\ SumFunction([f EXCEPT ![x] = 0]) = SumFunction(f) - f[x] + 0
  BY <1>1, SumChanged
<1> QED
  BY <1>1, <1>2

LEMMA SumOfNone ==
  ASSUME NEW S, IsFiniteSet(S), NEW f \in [S -> Int], \A x \in S : f[x] = 0
  PROVE  SumFunction(f) = 0
<1>1. PICK g \in [SUBSET S -> Int] : SumRule(f, g, SUBSET S) /\ SumFunction(f) = g[S]
  BY SumRuled
<1> DEFINE T == {t \in SUBSET S : g[t] = 0}
<1>2. {} \in T
  BY <1>1 DEF SumRule
<1>3. ASSUME NEW t \in SUBSET S, t # {}, t \ {Chosen(t)} \in T PROVE t \in T
  <2>1. Chosen(t) \in S
    BY <1>3, WithoutChosen
  <2>2. g[t] = f[Chosen(t)] + g[t \ {Chosen(t)}]
    BY <1>1, <1>3 DEF SumRule
  <2> QED
    BY <1>3, <2>1, <2>2
<1>4. S \in T
  <2> HIDE DEF T
  <2> QED
    BY <1>2, <1>3, SubsetInduction
<1> QED
  BY <1>1, <1>4

LEMMA SumOfNats ==
  ASSUME NEW S, IsFiniteSet(S), NEW f \in [S -> Nat]
  PROVE  SumFunction(f) \in Nat /\ \A x \in S : f[x] <= SumFunction(f)
<1>1. ASSUME NEW e \in [S -> Nat] PROVE SumFunction(e) \in Nat
  <2> e \in [S -> Int]
    OBVIOUS
  <2>1. PICK g \in [SUBSET S -> Int] : SumRule(e, g, SUBSET S) /\ SumFunction(e) = g[S]
    BY SumRuled
  <2> DEFINE T == {t \in SUBSET S : g[t] \in Nat}
  <2>2. {} \in T
    <3>1. {} \in SUBSET S
      OBVIOUS
    <3>2. g[{}] = 0
      BY <2>1, <3>1 DEF SumRule
    <3> QED
      BY <3>1, <3>2
  <2>3. ASSUME NEW t \in SUBSET S, t # {}, t \ {Chosen(t)} \in T PROVE t \in T
    <3>1. Chosen(t) \in S
      BY <2>3, WithoutChosen
    <3>2. g[t] = e[Chosen(t)] + g[t \ {Chosen(t)}]
      BY <2>1, <2>3 DEF SumRule
    <3> QED
      BY <2>3, <3>1, <3>2
  <2>4. S \in T
    <3> HIDE DEF T
    <3> QED
      BY <2>2, <2>3, SubsetInduction
  <2> QED
    BY <2>1, <2>4
<1>2. ASSUME NEW x \in S PROVE f[x] <= SumFunction(f)
  <2>0. f \in [S -> Int] /\ [f EXCEPT ![x] = 0] \in [S -> Nat]
    OBVIOUS
  <2>1. SumFunction([f EXCEPT ![x] = 0]) = SumFunction(f) - f[x] /\ SumFunction(f) \in Int
    BY <2>0, SumWithout
  <2>2. SumFunction([f EXCEPT ![x] = 0]) \in Nat
    BY <1>1, <2>0
  <2> QED
    BY <2>1, <2>2
<1> QED
  BY <1>1, <1>2

----------------------------------------------------------------------------
FqPacket == [size : Sizes, age : Nat]
FqDisc == [queue : Seq(FqPacket), firstAbove : Int, dropping : BOOLEAN, dropNext : Int]

LEMMA FqConstants ==
  /\ Interval \in Nat \ {0} /\ MinBytes \in Nat \ {0} /\ MaxPackets \in Nat
  /\ MaxPackets = Limit + 1 /\ Limit \in Nat \ {0} /\ Quantum \in Nat \ {0}
  /\ DropBatchSize \in Nat \ {0} /\ Sizes \subseteq Nat \ {0} /\ Gaps \subseteq Nat \ {0}
  /\ Unset \in Int /\ MaxLag \in Nat
<1>1. /\ Interval \in Nat \ {0} /\ MinBytes \in Nat \ {0} /\ MaxPackets \in Nat
      /\ MaxPackets = Limit + 1 /\ Limit \in Nat \ {0} /\ Quantum \in Nat \ {0}
      /\ DropBatchSize \in Nat \ {0} /\ Sizes \subseteq Nat \ {0} /\ Gaps \subseteq Nat \ {0}
  BY CoDelAssumption, FqAssumption DEF CoDelAssumption, FqAssumption
<1> QED
  BY <1>1 DEF Unset, MaxLag

LEMMA BytesQueued ==
  ASSUME NEW q \in Seq(FqPacket)
  PROVE  SumOfSizes(q) \in Nat /\ (q = << >> <=> SumOfSizes(q) = 0)
<1> DEFINE f == [k \in DOMAIN q |-> q[k].size]
<1>1. Len(q) \in Nat /\ DOMAIN q = 1 .. Len(q) /\ IsFiniteSet(1 .. Len(q))
  BY FS_Interval
<1>2. f \in [1 .. Len(q) -> Nat] /\ \A k \in 1 .. Len(q) : f[k] > 0
  <2>1. \A k \in 1 .. Len(q) : q[k].size \in Nat \ {0}
    <3>1. \A k \in 1 .. Len(q) : q[k] \in FqPacket
      BY <1>1
    <3>2. \A p \in FqPacket : p.size \in Sizes
      BY DEF FqPacket
    <3> QED
      BY <3>1, <3>2, FqConstants
  <2> QED
    BY <1>1, <2>1
<1>3. SumOfSizes(q) = SumFunction(f)
  BY DEF SumOfSizes
<1> HIDE DEF f
<1>4. SumFunction(f) \in Nat /\ \A k \in 1 .. Len(q) : f[k] <= SumFunction(f)
  BY <1>1, <1>2, SumOfNats
<1>5. CASE q = << >>
  <2>1. \A k \in 1 .. Len(q) : f[k] = 0
    BY <1>5
  <2>2. SumFunction(f) = 0
    BY <1>1, <1>2, <2>1, SumOfNone
  <2> QED
    BY <1>3, <1>4, <1>5, <2>2
<1>6. CASE q # << >>
  <2>1. 1 \in 1 .. Len(q)
    BY <1>1, <1>6
  <2> QED
    BY <1>2, <1>3, <1>4, <1>6, <2>1
<1> QED
  BY <1>5, <1>6

LEMMA NoneQueued == \A q \in Seq(FqPacket) : Len(q) \in Nat /\ (Len(q) = 0 <=> q = << >>)
  OBVIOUS

(* The disc c enters or leaves the dropping state.                         *)
Phase(c, b, n) == [c EXCEPT !.dropping = b, !.dropNext = n]

LEMMA PhaseDisc ==
  ASSUME NEW c \in FqDisc
  PROVE  \A b \in BOOLEAN, n \in Int : Phase(c, b, n) \in FqDisc /\ Phase(c, b, n).queue = c.queue
<1> SUFFICES ASSUME NEW b \in BOOLEAN, NEW n \in Int
             PROVE  Phase(c, b, n) \in FqDisc /\ Phase(c, b, n).queue = c.queue
  OBVIOUS
<1>1. [c EXCEPT !.dropping = b] \in FqDisc
  BY DEF FqDisc
<1>2. Phase(c, b, n) = [[c EXCEPT !.dropping = b] EXCEPT !.dropNext = n]
  BY DEF Phase
<1> QED
  BY <1>1, <1>2 DEF FqDisc

LEMMA LeftDisc ==
  ASSUME NEW c \in FqDisc
  PROVE  Left(c) \in FqDisc /\ Left(c).queue = c.queue
<1>1. FALSE \in BOOLEAN /\ 0 \in Int /\ Left(c) = Phase(c, FALSE, 0)
  BY DEF Left, Phase
<1>2. Phase(c, FALSE, 0) \in FqDisc /\ Phase(c, FALSE, 0).queue = c.queue
  BY <1>1, PhaseDisc, Zenon
<1> QED
  BY <1>1, <1>2, Zenon

LEMMA TakenDisc ==
  ASSUME NEW c \in FqDisc, c.queue # << >>
  PROVE  /\ Taken(c) \in FqDisc /\ Len(Taken(c).queue) = Len(c.queue) - 1
         /\ Head(c.queue) \in FqPacket /\ Left(Taken(c)) \in FqDisc
         /\ Left(Taken(c)).queue = Taken(c).queue /\ Len(c.queue) \in Nat \ {0}
         /\ Taken(c).queue = Tail(c.queue) /\ Taken(c).dropping = c.dropping
<1>1. /\ c.queue \in Seq(FqPacket) /\ c.firstAbove \in Int
      /\ c.dropping \in BOOLEAN /\ c.dropNext \in Int
  BY DEF FqDisc
<1>2. /\ Tail(c.queue) \in Seq(FqPacket) /\ Len(Tail(c.queue)) = Len(c.queue) - 1
      /\ Head(c.queue) \in FqPacket /\ Len(c.queue) \in Nat \ {0}
  BY <1>1
<1>3. /\ Taken(c) \in FqDisc /\ Taken(c).queue = Tail(c.queue)
      /\ Taken(c).dropping = c.dropping
  <2> DEFINE f == IF Below(c) THEN Unset ELSE IF c.firstAbove = Unset THEN Interval
                  ELSE c.firstAbove
  <2>1. f \in Int
    BY <1>1, FqConstants
  <2>2. Taken(c) = [c EXCEPT !.queue = Tail(c.queue), !.firstAbove = f]
    BY DEF Taken
  <2> HIDE DEF f
  <2> QED
    BY <1>1, <1>2, <2>1, <2>2 DEF FqDisc
<1>4. Left(Taken(c)) \in FqDisc /\ Left(Taken(c)).queue = Taken(c).queue
  BY <1>3, LeftDisc
<1> QED
  BY <1>2, <1>3, <1>4

(* A packet that is dropped leaves another one in the queue, since the     *)
(* last packet never may be dropped.                                       *)
LEMMA DropLeavesOne ==
  ASSUME NEW c \in FqDisc, c.queue # << >>, OkToDrop(c)
  PROVE  Taken(c).queue # << >>
<1>1. /\ c.queue \in Seq(FqPacket) /\ Tail(c.queue) \in Seq(FqPacket)
      /\ Taken(c).queue = Tail(c.queue)
  BY TakenDisc DEF FqDisc
<1>2. [c EXCEPT !.queue = Tail(@)].queue = Tail(c.queue)
  BY DEF FqDisc
<1>3. ~(SumOfSizes(Tail(c.queue)) < MinBytes)
  BY <1>2 DEF OkToDrop, Below, NBytes
<1>4. SumOfSizes(Tail(c.queue)) \in Nat /\ MinBytes \in Nat \ {0}
      /\ (Tail(c.queue) = << >> <=> SumOfSizes(Tail(c.queue)) = 0)
  BY <1>1, BytesQueued, FqConstants
<1>5. SumOfSizes(Tail(c.queue)) # 0
  BY <1>3, <1>4
<1> QED
  BY <1>1, <1>4, <1>5

(* What a disc holds before it is asked is returned, dropped or kept; it   *)
(* returns nothing only when nothing is left.                              *)
Conserved(got, c) ==
  /\ got.disc \in FqDisc /\ got.drops \in Nat /\ got.item \in FqPacket \cup {NoItem}
  /\ Len(got.disc.queue) + got.drops + (IF got.item = NoItem THEN 0 ELSE 1) = Len(c.queue)
  /\ got.item = NoItem => got.disc.queue = << >>

LEMMA ResultParts ==
  \A c, item, drops : /\ Result(c, item, drops).disc = c
                      /\ Result(c, item, drops).item = item
                      /\ Result(c, item, drops).drops = drops
BY DEF Result

LEMMA NoItemIsNone == NoItem \notin FqPacket
<1>1. 0 \notin Sizes
  BY FqConstants
<1> QED
  BY <1>1 DEF NoItem, FqPacket

LEMMA ReturnsOne ==
  ASSUME NEW d \in FqDisc, NEW drops \in Nat, NEW c \in FqDisc, NEW item \in FqPacket,
         Len(d.queue) + drops + 1 = Len(c.queue)
  PROVE  Conserved(Result(d, item, drops), c)
<1> DEFINE got == Result(d, item, drops)
<1>1. got.disc = d /\ got.item = item /\ got.drops = drops /\ item # NoItem
  BY ResultParts, NoItemIsNone
<1> HIDE DEF got
<1>2. Conserved(got, c)
  BY <1>1 DEF Conserved
<1> QED
  BY <1>2 DEF got

LEMMA ReturnsNone ==
  ASSUME NEW d \in FqDisc, NEW drops \in Nat, NEW c \in FqDisc,
         d.queue = << >>, drops = Len(c.queue)
  PROVE  Conserved(Result(d, NoItem, drops), c)
<1> DEFINE got == Result(d, NoItem, drops)
<1>1. got.disc = d /\ got.item = NoItem /\ got.drops = drops
  BY ResultParts
<1> HIDE DEF got
<1>2. Conserved(got, c)
  <2>1. Len(got.disc.queue) = 0 /\ got.disc.queue = << >>
    BY <1>1
  <2>2. Len(got.disc.queue) + got.drops + (IF got.item = NoItem THEN 0 ELSE 1) = Len(c.queue)
    <3>1. got.item = NoItem /\ got.drops = drops /\ drops \in Nat /\ drops = Len(c.queue)
      BY <1>1
    <3> QED
      BY <2>1, <3>1
  <2> QED
    BY <1>1, <2>1, <2>2 DEF Conserved
<1> QED
  BY <1>2 DEF got

LEMMA LoopConserves ==
  ASSUME NEW c \in FqDisc, NEW item \in FqPacket, NEW gap \in Gaps, NEW b \in FqDisc,
         Len(b.queue) = Len(c.queue) + 1
  PROVE  Conserved(DropWhileDue(c, item, gap), b)
<1> DEFINE after(k) == [c EXCEPT !.queue = SubSeq(@, k + 1, Len(@)), !.dropNext = @ + k * gap]
           ends(k) == after(k).dropNext > 0 \/ after(k).queue = << >> \/ ~OkToDrop(after(k))
           E == {k \in 0 .. Len(c.queue) : ends(k)}
           n == Min(E)
           final == after(n)
<1>1. /\ c.queue \in Seq(FqPacket) /\ Len(c.queue) \in Nat /\ gap \in Nat
      /\ c.firstAbove \in Int /\ c.dropping \in BOOLEAN /\ c.dropNext \in Int
  BY FqConstants DEF FqDisc
<1>2. ASSUME NEW k \in 0 .. Len(c.queue)
      PROVE  /\ after(k) \in FqDisc /\ Len(after(k).queue) = Len(c.queue) - k
  <2>1. /\ SubSeq(c.queue, k + 1, Len(c.queue)) \in Seq(FqPacket)
        /\ Len(SubSeq(c.queue, k + 1, Len(c.queue))) = Len(c.queue) - k
    BY <1>1
  <2>2. c.dropNext + k * gap \in Int
    BY <1>1
  <2> QED
    BY <1>1, <2>1, <2>2 DEF FqDisc
<1>3. n \in 0 .. Len(c.queue) /\ ends(n)
  <2> DEFINE m == Len(c.queue)
  <2>1. m \in 0 .. Len(c.queue) /\ m - m = 0
    BY <1>1
  <2>2. after(m) \in FqDisc /\ Len(after(m).queue) = 0
    BY <1>1, <1>2, <2>1
  <2>3. after(m).queue = << >>
    <3> HIDE DEF after
    <3> QED
      BY <2>2, NoneQueued DEF FqDisc
  <2>4. m \in E
    <3> HIDE DEF after
    <3> QED
      BY <2>1, <2>3
  <2> HIDE DEF ends
  <2>5. E \in SUBSET Nat
    OBVIOUS
  <2>6. n \in E
    <3> HIDE DEF E
    <3>1. PICK k \in E : \A y \in E : k <= y
      BY <2>4, <2>5, Least
    <3> QED
      BY <3>1 DEF Min
  <2> QED
    BY <2>6
<1>4. final \in FqDisc /\ Len(final.queue) = Len(c.queue) - n
  BY <1>2, <1>3
<1>5. (<<item>> \o c.queue)[n + 1] \in FqPacket
  <2>1. n \in 0 .. Len(c.queue)
    BY <1>3
  <2> HIDE DEF n
  <2>2. CASE n = 0
    <3>1. (<<item>> \o c.queue)[1] = item
      BY <1>1
    <3> QED
      BY <2>2, <3>1
  <2>3. CASE n # 0
    <3>1. n \in 1 .. Len(c.queue) /\ n + 1 - 1 = n /\ n + 1 \in 1 .. 1 + Len(c.queue)
      BY <1>1, <2>1, <2>3
    <3>2. (<<item>> \o c.queue)[n + 1] = c.queue[n]
      BY <1>1, <3>1
    <3> QED
      BY <1>1, <3>1, <3>2
  <2> QED
    BY <2>2, <2>3
<1>6. DropWhileDue(c, item, gap)
        = IF final.dropNext > 0 THEN Result(final, (<<item>> \o c.queue)[n + 1], n)
          ELSE IF final.queue = << >> THEN Result(Left(final), NoItem, n + 1)
          ELSE Result(Left(Taken(final)), Head(final.queue), n + 1)
  BY DEF DropWhileDue
<1>7. n \in Nat /\ n <= Len(c.queue)
  <2>1. n \in 0 .. Len(c.queue)
    BY <1>3
  <2> HIDE DEF n
  <2> QED
    BY <1>1, <2>1
<1> HIDE DEF final, n
<1>8. CASE final.dropNext > 0
  <2>1. DropWhileDue(c, item, gap) = Result(final, (<<item>> \o c.queue)[n + 1], n)
    BY <1>6, <1>8
  <2>2. Len(final.queue) + n + 1 = Len(b.queue)
    BY <1>1, <1>4, <1>7
  <2> QED
    BY <1>4, <1>5, <1>7, <2>1, <2>2, ReturnsOne
<1>9. CASE ~(final.dropNext > 0) /\ final.queue = << >>
  <2>1. DropWhileDue(c, item, gap) = Result(Left(final), NoItem, n + 1)
    BY <1>6, <1>9
  <2>2. Left(final) \in FqDisc /\ Left(final).queue = << >>
    BY <1>4, <1>9, LeftDisc
  <2>3. Len(final.queue) = 0
    BY <1>9
  <2>4. n + 1 \in Nat /\ n + 1 = Len(b.queue)
    BY <1>1, <1>4, <1>7, <2>3
  <2> QED
    BY <2>1, <2>2, <2>4, ReturnsNone
<1>10. CASE ~(final.dropNext > 0) /\ final.queue # << >>
  <2>1. DropWhileDue(c, item, gap) = Result(Left(Taken(final)), Head(final.queue), n + 1)
    BY <1>6, <1>10
  <2>2. /\ Left(Taken(final)) \in FqDisc /\ Head(final.queue) \in FqPacket
        /\ Len(Left(Taken(final)).queue) = Len(final.queue) - 1
    BY <1>4, <1>10, TakenDisc
  <2>3. n + 1 \in Nat /\ Len(Left(Taken(final)).queue) + (n + 1) + 1 = Len(b.queue)
    <3>1. Len(Left(Taken(final)).queue) = Len(c.queue) - n - 1
      BY <1>4, <2>2
    <3>2. Len(c.queue) \in Nat /\ n \in Nat /\ Len(b.queue) = Len(c.queue) + 1
      BY <1>1, <1>7
    <3> DEFINE x == Len(Left(Taken(final)).queue)
               y == Len(c.queue)
    <3> HIDE DEF x, y
    <3>3. x = y - n - 1 /\ y \in Nat /\ n \in Nat => x + (n + 1) + 1 = y + 1
      OBVIOUS
    <3> QED
      <4>1. x = y - n - 1
        BY <3>1 DEF x, y
      <4>2. y \in Nat /\ Len(b.queue) = y + 1
        BY <3>2 DEF y
      <4>3. x + (n + 1) + 1 = Len(b.queue)
        BY <3>2, <3>3, <4>1, <4>2
      <4>4. n + 1 \in Nat
        BY <3>2
      <4> QED
        BY <4>3, <4>4 DEF x
  <2> QED
    BY <2>1, <2>2, <2>3, ReturnsOne
<1> QED
  BY <1>8, <1>9, <1>10

LEMMA CoDelConserves ==
  ASSUME NEW c \in FqDisc, NEW gap \in Gaps
  PROVE  Conserved(CoDelDequeue(c, gap), c)
<1>1. CASE c.queue = << >>
  <2>1. CoDelDequeue(c, gap) = Result([Left(c) EXCEPT !.firstAbove = Unset], NoItem, 0)
    BY <1>1 DEF CoDelDequeue
  <2>2. /\ [Left(c) EXCEPT !.firstAbove = Unset] \in FqDisc
        /\ [Left(c) EXCEPT !.firstAbove = Unset].queue = << >>
    <3>1. Left(c) \in FqDisc /\ Left(c).queue = << >> /\ Unset \in Int
      BY <1>1, LeftDisc, FqConstants
    <3> QED
      BY <3>1 DEF FqDisc
  <2>3. 0 \in Nat /\ 0 = Len(c.queue)
    BY <1>1
  <2> QED
    BY <2>1, <2>2, <2>3, ReturnsNone
<1>2. CASE c.queue # << >> /\ ~OkToDrop(c)
  <2>1. CoDelDequeue(c, gap) = Result(Left(Taken(c)), Head(c.queue), 0)
    BY <1>2 DEF CoDelDequeue
  <2>2. /\ Left(Taken(c)) \in FqDisc /\ Head(c.queue) \in FqPacket
        /\ Len(Left(Taken(c)).queue) + 0 + 1 = Len(c.queue)
    <3>1. /\ Left(Taken(c)) \in FqDisc /\ Head(c.queue) \in FqPacket
          /\ Len(Left(Taken(c)).queue) = Len(c.queue) - 1 /\ Len(c.queue) \in Nat
      BY <1>2, TakenDisc
    <3> QED
      BY <3>1
  <2> QED
    BY <2>1, <2>2, ReturnsOne
<1>3. CASE c.queue # << >> /\ OkToDrop(c) /\ c.dropping
  <2>1. CoDelDequeue(c, gap) = DropWhileDue(Taken(c), Head(c.queue), gap)
    BY <1>3 DEF CoDelDequeue
  <2>2. /\ Taken(c) \in FqDisc /\ Head(c.queue) \in FqPacket
        /\ Len(c.queue) = Len(Taken(c).queue) + 1
    <3>1. /\ Taken(c) \in FqDisc /\ Head(c.queue) \in FqPacket /\ Len(c.queue) \in Nat
          /\ Len(Taken(c).queue) = Len(c.queue) - 1
      BY <1>3, TakenDisc
    <3> QED
      BY <3>1
  <2> QED
    BY <2>1, <2>2, LoopConserves
<1>4. CASE c.queue # << >> /\ OkToDrop(c) /\ ~c.dropping
  <2> DEFINE taken == Taken(c)
             entered == [Taken(taken) EXCEPT !.dropping = TRUE, !.dropNext = gap]
  <2>1. taken.queue # << >> /\ taken \in FqDisc /\ Len(taken.queue) = Len(c.queue) - 1
        /\ Len(c.queue) \in Nat
    BY <1>4, DropLeavesOne, TakenDisc
  <2>2. CoDelDequeue(c, gap) = Result(entered, Head(taken.queue), 1)
    BY <1>4, <2>1 DEF CoDelDequeue
  <2> HIDE DEF taken
  <2>3. /\ Taken(taken) \in FqDisc /\ Len(Taken(taken).queue) = Len(taken.queue) - 1
        /\ Head(taken.queue) \in FqPacket /\ Len(taken.queue) \in Nat \ {0}
    BY <2>1, TakenDisc
  <2>4. entered \in FqDisc /\ entered.queue = Taken(taken).queue
    <3>1. TRUE \in BOOLEAN /\ gap \in Int /\ entered = Phase(Taken(taken), TRUE, gap)
      BY FqConstants DEF Phase
    <3>2. /\ Phase(Taken(taken), TRUE, gap) \in FqDisc
          /\ Phase(Taken(taken), TRUE, gap).queue = Taken(taken).queue
      BY <2>3, <3>1, PhaseDisc, Zenon
    <3> QED
      BY <3>1, <3>2, Zenon
  <2> HIDE DEF entered
  <2>5. Len(entered.queue) + 1 + 1 = Len(c.queue)
    BY <2>1, <2>3, <2>4
  <2> QED
    BY <2>2, <2>3, <2>4, <2>5, ReturnsOne
<1> QED
  BY <1>1, <1>2, <1>3, <1>4

----------------------------------------------------------------------------
(* A list of flows holds exactly those with a certain status, each once.   *)
Listed(list, st, stat) ==
  /\ list \in Seq(Flows)
  /\ \A i, j \in 1 .. Len(list) : list[i] = list[j] => i = j
  /\ \A h \in Flows : stat[h] = st <=> \E i \in 1 .. Len(list) : list[i] = h

LEMMA ListedHead ==
  ASSUME NEW list, NEW st, NEW stat, Listed(list, st, stat), list # << >>
  PROVE  Head(list) \in Flows /\ stat[Head(list)] = st
<1>1. list \in Seq(Flows) /\ Head(list) = list[1] /\ 1 \in 1 .. Len(list)
      /\ Head(list) \in Flows
  BY DEF Listed
<1> QED
  BY <1>1 DEF Listed

LEMMA ListedTail ==
  ASSUME NEW X, NEW list, NEW st, NEW stat \in [Flows -> X], Listed(list, st, stat),
         list # << >>, NEW new \in X, new # st
  PROVE  Listed(Tail(list), st, [stat EXCEPT ![Head(list)] = new])
<1> DEFINE h == Head(list)
           t == Tail(list)
           after == [stat EXCEPT ![h] = new]
<1>1. /\ list \in Seq(Flows) /\ Len(list) \in Nat \ {0} /\ h = list[1] /\ h \in Flows
      /\ t \in Seq(Flows) /\ Len(t) = Len(list) - 1
      /\ \A i \in 1 .. Len(t) : i + 1 \in 1 .. Len(list) /\ t[i] = list[i + 1]
  BY DEF Listed
<1>2. \A i, j \in 1 .. Len(list) : list[i] = list[j] => i = j
  BY DEF Listed
<1>3. after[h] # st /\ \A x \in Flows : x # h => after[x] = stat[x]
  BY <1>1
<1> HIDE DEF t, h, after
<1>4. \A i, j \in 1 .. Len(t) : t[i] = t[j] => i = j
  <2> SUFFICES ASSUME NEW i \in 1 .. Len(t), NEW j \in 1 .. Len(t), t[i] = t[j] PROVE i = j
    OBVIOUS
  <2>1. i + 1 = j + 1
    BY <1>1, <1>2
  <2> QED
    BY <2>1
<1>5. \A i \in 1 .. Len(t) : t[i] # h
  <2> SUFFICES ASSUME NEW i \in 1 .. Len(t), t[i] = h PROVE FALSE
    OBVIOUS
  <2>1. i + 1 \in 1 .. Len(list) /\ 1 \in 1 .. Len(list) /\ list[i + 1] = list[1]
    BY <1>1
  <2>2. i + 1 = 1
    BY <1>2, <2>1
  <2> QED
    BY <2>2
<1>6. ASSUME NEW x \in Flows PROVE after[x] = st <=> \E i \in 1 .. Len(t) : t[i] = x
  <2>1. CASE x = h
    BY <1>3, <1>5, <2>1
  <2>2. CASE x # h
    <3>1. after[x] = st <=> \E i \in 1 .. Len(list) : list[i] = x
      BY <1>3, <2>2 DEF Listed
    <3>2. ASSUME NEW i \in 1 .. Len(list), list[i] = x PROVE \E k \in 1 .. Len(t) : t[k] = x
      <4>1. i # 1
        BY <1>1, <2>2, <3>2
      <4>2. i - 1 \in 1 .. Len(t) /\ i - 1 + 1 = i
        BY <1>1, <4>1
      <4>3. t[i - 1] = x
        BY <1>1, <3>2, <4>2
      <4> QED
        BY <4>2, <4>3
    <3> QED
      BY <1>1, <3>1, <3>2
  <2> QED
    BY <2>1, <2>2
<1>7. Listed(t, st, after)
  BY <1>1, <1>4, <1>6 DEF Listed
<1> QED
  BY <1>7 DEF t, after, h

LEMMA ListedAppend ==
  ASSUME NEW X, NEW list, NEW st \in X, NEW stat \in [Flows -> X], Listed(list, st, stat),
         NEW h \in Flows, stat[h] # st
  PROVE  Listed(Append(list, h), st, [stat EXCEPT ![h] = st])
<1> DEFINE t == Append(list, h)
           n == Len(list)
           after == [stat EXCEPT ![h] = st]
<1>1. /\ list \in Seq(Flows) /\ n \in Nat /\ t \in Seq(Flows) /\ Len(t) = n + 1 /\ t[n + 1] = h
      /\ \A i \in 1 .. n : t[i] = list[i] /\ i \in 1 .. n + 1
  BY DEF Listed
<1>2. \A i \in 1 .. n : list[i] # h
  BY DEF Listed
<1>3. after[h] = st /\ \A x \in Flows : x # h => after[x] = stat[x]
  OBVIOUS
<1> HIDE DEF t, after, n
<1>4. \A i \in 1 .. n + 1 : i = n + 1 \/ i \in 1 .. n
  BY <1>1
<1>5. ASSUME NEW i \in 1 .. n + 1, NEW j \in 1 .. n + 1, t[i] = t[j] PROVE i = j
  <2>1. CASE i \in 1 .. n /\ j \in 1 .. n
    BY <1>1, <1>5, <2>1 DEF Listed, n
  <2>2. CASE i = n + 1 /\ j \in 1 .. n
    BY <1>1, <1>2, <1>5, <2>2
  <2>3. CASE i \in 1 .. n /\ j = n + 1
    BY <1>1, <1>2, <1>5, <2>3
  <2> QED
    BY <1>4, <2>1, <2>2, <2>3
<1>6. ASSUME NEW x \in Flows PROVE after[x] = st <=> \E i \in 1 .. n + 1 : t[i] = x
  <2>1. CASE x = h
    <3>1. n + 1 \in 1 .. n + 1
      BY <1>1
    <3> QED
      BY <1>1, <1>3, <2>1, <3>1
  <2>2. CASE x # h
    <3>1. after[x] = st <=> \E i \in 1 .. n : list[i] = x
      BY <1>3, <2>2 DEF Listed, n
    <3>2. \A i \in 1 .. n + 1 : t[i] = x => i \in 1 .. n
      BY <1>1, <1>4, <2>2
    <3> QED
      BY <1>1, <3>1, <3>2
  <2> QED
    BY <2>1, <2>2
<1>7. Listed(t, st, after)
  BY <1>1, <1>5, <1>6 DEF Listed
<1> QED
  BY <1>7 DEF t, after

LEMMA ListedOther ==
  ASSUME NEW X, NEW list, NEW st, NEW stat \in [Flows -> X], Listed(list, st, stat),
         NEW h \in Flows, stat[h] # st, NEW new \in X, new # st
  PROVE  Listed(list, st, [stat EXCEPT ![h] = new])
<1>1. \A x \in Flows : [stat EXCEPT ![h] = new][x] = st <=> stat[x] = st
  OBVIOUS
<1> QED
  BY <1>1 DEF Listed

LEMMA ListedMoved ==
  ASSUME NEW X, NEW list, NEW st \in X, NEW stat \in [Flows -> X], Listed(list, st, stat),
         list # << >>, NEW none \in X, none # st
  PROVE  Listed(Append(Tail(list), Head(list)), st, [stat EXCEPT ![Head(list)] = st])
<1> DEFINE h == Head(list)
           out == [stat EXCEPT ![h] = none]
<1>1. h \in Flows
  BY ListedHead
<1>2. Listed(Tail(list), st, out)
  BY ListedTail
<1>3. out \in [Flows -> X] /\ out[h] # st
  BY <1>1
<1>4. [out EXCEPT ![h] = st] = [stat EXCEPT ![h] = st]
  BY <1>1
<1> HIDE DEF out, h
<1>5. Listed(Append(Tail(list), h), st, [out EXCEPT ![h] = st])
  BY <1>1, <1>2, <1>3, ListedAppend
<1> QED
  BY <1>4, <1>5 DEF h

LEMMA ListedOnce ==
  ASSUME NEW list, NEW st, NEW stat, Listed(list, st, stat), NEW h \in Flows
  PROVE  Cardinality({i \in DOMAIN list : list[i] = h}) = IF stat[h] = st THEN 1 ELSE 0
<1> DEFINE S == {i \in DOMAIN list : list[i] = h}
<1>1. DOMAIN list = 1 .. Len(list)
  BY DEF Listed
<1>2. CASE stat[h] = st
  <2>1. PICK i \in 1 .. Len(list) : list[i] = h
    BY <1>2 DEF Listed
  <2>2. \A j \in 1 .. Len(list) : list[j] = h => j = i
    BY <2>1 DEF Listed
  <2>3. S = {i}
    BY <1>1, <2>1, <2>2
  <2> QED
    BY <1>2, <2>3, FS_Singleton
<1>3. CASE stat[h] # st
  <2>1. S = {}
    BY <1>1, <1>3 DEF Listed
  <2> QED
    BY <1>3, <2>1, FS_EmptySet
<1> QED
  BY <1>2, <1>3

----------------------------------------------------------------------------
(* What the loops of DoDequeue keep of the state s they work on.           *)
FqStatuses == {"INACTIVE", "NEW_FLOW", "OLD_FLOW"}
FqState ==
  [disc : [Flows -> FqDisc], deficit : [Flows -> Int], status : [Flows -> FqStatuses],
   newFlows : Seq(Flows), oldFlows : Seq(Flows), nPackets : Int,
   served : Flows \cup {NoFlow}]

Lengths(d) == [h \in Flows |-> Len(d[h].queue)]
ListsOK(new, old, stat, d) ==
  /\ Listed(new, "NEW_FLOW", stat) /\ Listed(old, "OLD_FLOW", stat)
  /\ \A h \in Flows : d[h].queue # << >> => stat[h] # "INACTIVE"

FqStateOK(s) ==
  /\ s \in FqState
  /\ s.nPackets = SumFunction(Lengths(s.disc))
  /\ ListsOK(s.newFlows, s.oldFlows, s.status, s.disc)

LEMMA FlowsFinite == IsFiniteSet(Flows) /\ NoFlow \notin Flows
BY FqAssumption DEF FqAssumption

LEMMA FlowSum ==
  ASSUME NEW f \in [Flows -> Int], NEW h \in Flows, NEW v \in Int
  PROVE  /\ SumFunction(f) \in Int
         /\ SumFunction([f EXCEPT ![h] = v]) = SumFunction(f) - f[h] + v
BY FlowsFinite, SumChanged

LEMMA LengthsChanged ==
  ASSUME NEW d \in [Flows -> FqDisc], NEW h \in Flows, NEW c \in FqDisc
  PROVE  /\ SumFunction(Lengths(d)) \in Nat /\ Lengths(d) \in [Flows -> Nat]
         /\ Len(d[h].queue) \in Nat /\ Len(c.queue) \in Nat
         /\ \A x \in Flows : Len(d[x].queue) <= SumFunction(Lengths(d))
         /\ SumFunction(Lengths([d EXCEPT ![h] = c]))
              = SumFunction(Lengths(d)) - Len(d[h].queue) + Len(c.queue)
<1>1. \A e \in FqDisc : e.queue \in Seq(FqPacket)
  BY DEF FqDisc
<1>2. \A e \in FqDisc : Len(e.queue) \in Nat
  BY <1>1, NoneQueued
<1>3. Lengths(d) \in [Flows -> Nat] /\ Lengths(d) \in [Flows -> Int]
      /\ \A x \in Flows : Lengths(d)[x] = Len(d[x].queue)
  BY <1>2 DEF Lengths
<1>4. /\ SumFunction(Lengths(d)) \in Nat
      /\ \A x \in Flows : Lengths(d)[x] <= SumFunction(Lengths(d))
  BY <1>3, FlowsFinite, SumOfNats
<1>5. Lengths([d EXCEPT ![h] = c]) = [Lengths(d) EXCEPT ![h] = Len(c.queue)]
  BY DEF Lengths
<1>6. Len(c.queue) \in Int
  BY <1>2
<1>7. SumFunction([Lengths(d) EXCEPT ![h] = Len(c.queue)])
        = SumFunction(Lengths(d)) - Lengths(d)[h] + Len(c.queue)
  BY <1>3, <1>6, FlowSum
<1> QED
  BY <1>2, <1>3, <1>4, <1>5, <1>7

LEMMA StatusSet ==
  ASSUME NEW s \in FqState, NEW h \in Flows, NEW st \in FqStatuses
  PROVE  [s.status EXCEPT ![h] = st] \in [Flows -> FqStatuses]
BY DEF FqState

LEMMA HeadOfFlows ==
  ASSUME NEW list \in Seq(Flows), list # << >>
  PROVE  Head(list) \in Flows /\ Tail(list) \in Seq(Flows)
OBVIOUS

(* The flow h at the head of its list goes to the end of the old flows.    *)
LEMMA NewToOld ==
  ASSUME NEW s \in FqState, NEW h \in Flows, s.newFlows # << >>
  PROVE  LET t == ToOld(s, "newFlows", h)
         IN /\ t \in FqState
            /\ t.disc = s.disc /\ t.deficit = s.deficit /\ t.nPackets = s.nPackets
            /\ t.served = s.served /\ t.status = [s.status EXCEPT ![h] = "OLD_FLOW"]
            /\ t.newFlows = Tail(s.newFlows) /\ t.oldFlows = Append(s.oldFlows, h)
<1> DEFINE a == [s.status EXCEPT ![h] = "OLD_FLOW"]
           b == Tail(s.newFlows)
           c == Append(s.oldFlows, h)
<1>1. /\ a \in [Flows -> FqStatuses] /\ b \in Seq(Flows) /\ s.oldFlows \in Seq(Flows)
      /\ c \in Seq(Flows)
  BY StatusSet, HeadOfFlows DEF FqState, FqStatuses
<1>2. ToOld(s, "newFlows", h) = [[s EXCEPT !.status = a, !.newFlows = b] EXCEPT !.oldFlows = c]
  BY DEF ToOld, FqState
<1> HIDE DEF a, b, c
<1>3. ToOld(s, "newFlows", h) \in FqState
  BY <1>1, <1>2 DEF FqState
<1> QED
  BY <1>2, <1>3 DEF FqState, a, b, c

LEMMA OldToOld ==
  ASSUME NEW s \in FqState, NEW h \in Flows, s.oldFlows # << >>
  PROVE  LET t == ToOld(s, "oldFlows", h)
         IN /\ t \in FqState
            /\ t.disc = s.disc /\ t.deficit = s.deficit /\ t.nPackets = s.nPackets
            /\ t.served = s.served /\ t.status = [s.status EXCEPT ![h] = "OLD_FLOW"]
            /\ t.newFlows = s.newFlows /\ t.oldFlows = Append(Tail(s.oldFlows), h)
<1> DEFINE a == [s.status EXCEPT ![h] = "OLD_FLOW"]
           c == Append(Tail(s.oldFlows), h)
<1>1. a \in [Flows -> FqStatuses] /\ s.oldFlows \in Seq(Flows) /\ c \in Seq(Flows)
  BY StatusSet, HeadOfFlows DEF FqState, FqStatuses
<1>2. ToOld(s, "oldFlows", h) = [s EXCEPT !.status = a, !.oldFlows = c]
  BY DEF ToOld, FqState
<1> HIDE DEF a, c
<1>3. ToOld(s, "oldFlows", h) \in FqState
  BY <1>1, <1>2 DEF FqState
<1> QED
  BY <1>2, <1>3 DEF FqState, a, c

LEMMA OldToNone ==
  ASSUME NEW s \in FqState, NEW h \in Flows, s.oldFlows # << >>
  PROVE  LET t == Gone(s, "oldFlows", h)
         IN /\ t \in FqState
            /\ t.disc = s.disc /\ t.deficit = s.deficit /\ t.nPackets = s.nPackets
            /\ t.served = s.served /\ t.status = [s.status EXCEPT ![h] = "INACTIVE"]
            /\ t.newFlows = s.newFlows /\ t.oldFlows = Tail(s.oldFlows)
<1> DEFINE a == [s.status EXCEPT ![h] = "INACTIVE"]
           c == Tail(s.oldFlows)
<1>1. a \in [Flows -> FqStatuses] /\ s.oldFlows \in Seq(Flows) /\ c \in Seq(Flows)
  BY StatusSet, HeadOfFlows DEF FqState, FqStatuses
<1>2. Gone(s, "oldFlows", h) = [s EXCEPT !.status = a, !.oldFlows = c]
  BY DEF Gone, FqState
<1> HIDE DEF a, c
<1>3. Gone(s, "oldFlows", h) \in FqState
  BY <1>1, <1>2 DEF FqState
<1> QED
  BY <1>2, <1>3 DEF FqState, a, c

(* The same on the lists: a flow that leaves them has no packets.          *)
LEMMA ListsMoved ==
  ASSUME NEW s \in FqState, ListsOK(s.newFlows, s.oldFlows, s.status, s.disc)
  PROVE  /\ s.newFlows # << >> =>
              LET h == Head(s.newFlows)
              IN /\ h \in Flows /\ s.status[h] = "NEW_FLOW"
                 /\ ListsOK(Tail(s.newFlows), Append(s.oldFlows, h),
                            [s.status EXCEPT ![h] = "OLD_FLOW"], s.disc)
         /\ s.oldFlows # << >> =>
              LET h == Head(s.oldFlows)
              IN /\ h \in Flows /\ s.status[h] = "OLD_FLOW"
                 /\ ListsOK(s.newFlows, Append(Tail(s.oldFlows), h),
                            [s.status EXCEPT ![h] = "OLD_FLOW"], s.disc)
                 /\ s.disc[h].queue = << >> =>
                      ListsOK(s.newFlows, Tail(s.oldFlows),
                              [s.status EXCEPT ![h] = "INACTIVE"], s.disc)
<1>1. /\ Listed(s.newFlows, "NEW_FLOW", s.status) /\ Listed(s.oldFlows, "OLD_FLOW", s.status)
      /\ s.status \in [Flows -> FqStatuses]
      /\ {"NEW_FLOW", "OLD_FLOW", "INACTIVE"} \subseteq FqStatuses
      /\ \A h \in Flows : s.disc[h].queue # << >> => s.status[h] # "INACTIVE"
  BY DEF ListsOK, FqState, FqStatuses
<1>2. ASSUME s.newFlows # << >>
      PROVE  LET h == Head(s.newFlows)
             IN /\ h \in Flows /\ s.status[h] = "NEW_FLOW"
                /\ ListsOK(Tail(s.newFlows), Append(s.oldFlows, h),
                           [s.status EXCEPT ![h] = "OLD_FLOW"], s.disc)
  <2> DEFINE h == Head(s.newFlows)
  <2>1. h \in Flows /\ s.status[h] = "NEW_FLOW"
    BY <1>1, <1>2, ListedHead
  <2>2. Listed(Tail(s.newFlows), "NEW_FLOW", [s.status EXCEPT ![h] = "OLD_FLOW"])
    BY <1>1, <1>2, ListedTail
  <2> HIDE DEF h
  <2>3. Listed(Append(s.oldFlows, h), "OLD_FLOW", [s.status EXCEPT ![h] = "OLD_FLOW"])
    BY <1>1, <2>1, ListedAppend
  <2>4. \A x \in Flows : s.disc[x].queue # << >> =>
                           [s.status EXCEPT ![h] = "OLD_FLOW"][x] # "INACTIVE"
    BY <1>1, <2>1
  <2> QED
    BY <2>1, <2>2, <2>3, <2>4 DEF ListsOK, h
<1>3. ASSUME s.oldFlows # << >>
      PROVE  LET h == Head(s.oldFlows)
             IN /\ h \in Flows /\ s.status[h] = "OLD_FLOW"
                /\ ListsOK(s.newFlows, Append(Tail(s.oldFlows), h),
                           [s.status EXCEPT ![h] = "OLD_FLOW"], s.disc)
                /\ s.disc[h].queue = << >> =>
                     ListsOK(s.newFlows, Tail(s.oldFlows),
                             [s.status EXCEPT ![h] = "INACTIVE"], s.disc)
  <2> DEFINE h == Head(s.oldFlows)
  <2>1. h \in Flows /\ s.status[h] = "OLD_FLOW"
    BY <1>1, <1>3, ListedHead
  <2>2. Listed(Append(Tail(s.oldFlows), h), "OLD_FLOW", [s.status EXCEPT ![h] = "OLD_FLOW"])
    BY <1>1, <1>3, ListedMoved
  <2>3. Listed(Tail(s.oldFlows), "OLD_FLOW", [s.status EXCEPT ![h] = "INACTIVE"])
    BY <1>1, <1>3, ListedTail
  <2> HIDE DEF h
  <2>4. /\ Listed(s.newFlows, "NEW_FLOW", [s.status EXCEPT ![h] = "OLD_FLOW"])
        /\ Listed(s.newFlows, "NEW_FLOW", [s.status EXCEPT ![h] = "INACTIVE"])
    BY <1>1, <2>1, ListedOther
  <2>5. \A x \in Flows :
          s.disc[x].queue # << >> =>
            /\ [s.status EXCEPT ![h] = "OLD_FLOW"][x] # "INACTIVE"
            /\ s.disc[h].queue = << >> => [s.status EXCEPT ![h] = "INACTIVE"][x] # "INACTIVE"
    BY <1>1, <2>1
  <2> QED
    BY <2>1, <2>2, <2>3, <2>4, <2>5 DEF ListsOK, h
<1> QED
  BY <1>2, <1>3

----------------------------------------------------------------------------
(* One turn of the loops.                                                  *)
TurnsOf(st, d) ==
  CASE st = "INACTIVE" -> 0
    [] st # "INACTIVE" -> (IF st = "NEW_FLOW" THEN 2 ELSE 1) + (IF d > 0 THEN 0 ELSE 1 - d)

LEMMA MoveShortens ==
  ASSUME NEW s \in FqState, NEW t \in FqState, NEW h \in Flows, NEW st \in FqStatuses,
         NEW d \in Int, t.status = [s.status EXCEPT ![h] = st],
         t.deficit = [s.deficit EXCEPT ![h] = d],
         TurnsOf(st, d) < TurnsOf(s.status[h], s.deficit[h])
  PROVE  MostTurns(t) < MostTurns(s)
<1> DEFINE f == [x \in Flows |-> TurnsOf(s.status[x], s.deficit[x])]
           n == TurnsOf(st, d)
<1>1. s.status \in [Flows -> FqStatuses] /\ s.deficit \in [Flows -> Int]
  BY DEF FqState
<1>2. \A u \in FqStatuses, e \in Int : TurnsOf(u, e) \in Int
  BY DEF TurnsOf, FqStatuses
<1>3. f \in [Flows -> Int] /\ n \in Int
  BY <1>1, <1>2
<1>4. MostTurns(s) = SumFunction(f)
  BY DEF MostTurns, TurnsOf
<1>5. MostTurns(t) = SumFunction([x \in Flows |-> TurnsOf(t.status[x], t.deficit[x])])
  BY DEF MostTurns, TurnsOf
<1>6. [x \in Flows |-> TurnsOf(t.status[x], t.deficit[x])] = [f EXCEPT ![h] = n]
  <2>1. \A x \in Flows : TurnsOf(t.status[x], t.deficit[x]) = IF x = h THEN n ELSE f[x]
    BY <1>1
  <2> HIDE DEF n, f
  <2>2. [f EXCEPT ![h] = n] = [x \in Flows |-> IF x = h THEN n ELSE f[x]]
    BY <1>3
  <2> QED
    BY <2>1, <2>2
<1>7. n < f[h]
  OBVIOUS
<1> HIDE DEF f, n
<1>8. SumFunction(f) \in Int /\ SumFunction([f EXCEPT ![h] = n]) = SumFunction(f) - f[h] + n
  BY <1>3, FlowSum
<1>9. f[h] \in Int
  BY <1>3
<1> QED
  BY <1>3, <1>4, <1>5, <1>6, <1>7, <1>8, <1>9

LEMMA MostTurnsNat ==
  ASSUME NEW s \in FqState
  PROVE  MostTurns(s) \in Nat
<1> DEFINE f == [x \in Flows |-> TurnsOf(s.status[x], s.deficit[x])]
<1>1. \A u \in FqStatuses, e \in Int : TurnsOf(u, e) \in Nat
  BY DEF TurnsOf, FqStatuses
<1>2. f \in [Flows -> Nat]
  BY <1>1 DEF FqState
<1>3. MostTurns(s) = SumFunction(f)
  BY DEF MostTurns, TurnsOf
<1> HIDE DEF f
<1> QED
  BY <1>2, <1>3, FlowsFinite, SumOfNats

(* The disc of the flow h is asked for a packet.                           *)
Asked(s, h, got) == [s EXCEPT !.disc[h] = got.disc, !.nPackets = @ - got.drops]

Answered(s, h, got, t) ==
  /\ t \in FqState
  /\ t.disc = [s.disc EXCEPT ![h] = got.disc] /\ t.deficit = s.deficit
  /\ t.status = s.status /\ t.served = s.served
  /\ t.newFlows = s.newFlows /\ t.oldFlows = s.oldFlows
  /\ ListsOK(t.newFlows, t.oldFlows, t.status, t.disc)
  /\ got.item = NoItem => t.nPackets = SumFunction(Lengths(t.disc))
  /\ got.item # NoItem => t.nPackets = SumFunction(Lengths(t.disc)) + 1
  /\ t.nPackets <= s.nPackets
  /\ \A x \in Flows : t.disc[x].queue # << >> => s.disc[x].queue # << >>
  /\ got.item = NoItem => t.disc[h].queue = << >>

LEMMA AskedState ==
  ASSUME NEW s, FqStateOK(s), NEW h \in Flows, NEW got, Conserved(got, s.disc[h])
  PROVE  Answered(s, h, got, Asked(s, h, got))
<1> DEFINE t == Asked(s, h, got)
           d == [s.disc EXCEPT ![h] = got.disc]
           n == s.nPackets - got.drops
<1>1. /\ s \in FqState /\ s.disc \in [Flows -> FqDisc] /\ s.nPackets \in Int
      /\ s.nPackets = SumFunction(Lengths(s.disc))
      /\ ListsOK(s.newFlows, s.oldFlows, s.status, s.disc)
  BY DEF FqStateOK, FqState
<1>2. /\ got.disc \in FqDisc /\ got.drops \in Nat
      /\ Len(got.disc.queue) + got.drops + (IF got.item = NoItem THEN 0 ELSE 1)
           = Len(s.disc[h].queue)
      /\ got.item = NoItem => got.disc.queue = << >>
  BY DEF Conserved
<1>3. d \in [Flows -> FqDisc] /\ n \in Int /\ n <= s.nPackets
  BY <1>1, <1>2
<1>4. t = [s EXCEPT !.disc = d, !.nPackets = n]
  BY DEF Asked
<1>5. /\ SumFunction(Lengths(s.disc)) \in Nat /\ Len(s.disc[h].queue) \in Nat
      /\ Len(got.disc.queue) \in Nat
      /\ SumFunction(Lengths(d))
           = SumFunction(Lengths(s.disc)) - Len(s.disc[h].queue) + Len(got.disc.queue)
  BY <1>1, <1>2, LengthsChanged
<1>6. d[h] = got.disc /\ \A x \in Flows : x # h => d[x] = s.disc[x]
  BY <1>1
<1>7. \A x \in Flows : d[x].queue # << >> => s.disc[x].queue # << >>
  <2>1. s.disc[h].queue = << >> => got.disc.queue = << >>
    <3>1. SUFFICES ASSUME s.disc[h].queue = << >> PROVE got.disc.queue = << >>
      OBVIOUS
    <3>2. Len(s.disc[h].queue) = 0
      BY <3>1
    <3>3. got.item = NoItem
      BY <1>2, <1>5, <3>2
    <3> QED
      BY <1>2, <3>3
  <2> QED
    BY <1>6, <2>1
<1>8. ListsOK(s.newFlows, s.oldFlows, s.status, d)
  BY <1>1, <1>7 DEF ListsOK
<1>9. SumFunction(Lengths(d)) \in Nat
  <2>1. IsFiniteSet(Flows) /\ Lengths(d) \in [Flows -> Nat]
    BY <1>3, <1>2, FlowsFinite, LengthsChanged
  <2> QED
    BY <2>1, SumOfNats
<1>10. n = SumFunction(Lengths(d)) + (IF got.item = NoItem THEN 0 ELSE 1)
  <2> DEFINE all == SumFunction(Lengths(s.disc))
             rest == SumFunction(Lengths(d))
             one == IF got.item = NoItem THEN 0 ELSE 1
             was == Len(s.disc[h].queue)
             is == Len(got.disc.queue)
             drops == got.drops
  <2>1. /\ all \in Nat /\ was \in Nat /\ is \in Nat /\ drops \in Nat /\ one \in Nat
        /\ rest = all - was + is /\ is + drops + one = was /\ n = all - drops
    BY <1>1, <1>2, <1>5
  <2> HIDE DEF all, rest, one, was, is, drops, n
  <2>2. n = rest + one
    BY <2>1
  <2> QED
    BY <2>2 DEF rest, one
<1> HIDE DEF d, n
<1>11. t \in FqState /\ t.disc = d /\ t.nPackets = n
  BY <1>1, <1>3, <1>4 DEF FqState
<1>12. /\ t.deficit = s.deficit /\ t.status = s.status /\ t.served = s.served
       /\ t.newFlows = s.newFlows /\ t.oldFlows = s.oldFlows
  BY <1>1, <1>4 DEF FqState
<1> HIDE DEF t
<1>13. got.item = NoItem => t.disc[h].queue = << >>
  BY <1>2, <1>6, <1>11
<1>14. ListsOK(t.newFlows, t.oldFlows, t.status, t.disc)
  BY <1>8, <1>11, <1>12
<1>15. /\ got.item = NoItem => t.nPackets = SumFunction(Lengths(t.disc))
       /\ got.item # NoItem => t.nPackets = SumFunction(Lengths(t.disc)) + 1
       /\ t.nPackets <= s.nPackets
       /\ \A x \in Flows : t.disc[x].queue # << >> => s.disc[x].queue # << >>
  BY <1>3, <1>7, <1>9, <1>10, <1>11
<1>16. t.disc = [s.disc EXCEPT ![h] = got.disc]
  BY <1>11 DEF d
<1> QED
  BY <1>11, <1>12, <1>13, <1>14, <1>15, <1>16 DEF t, Answered

(* t may come from s in one turn: the state is sound, no packet is added,  *)
(* and the loops are over or have fewer turns left.                        *)
Progress(s, t) ==
  /\ FqStateOK(t) /\ t.nPackets <= s.nPackets
  /\ \A x \in Flows : t.disc[x].queue # << >> => s.disc[x].queue # << >>
  /\ Over(t) \/ MostTurns(t) < MostTurns(s)

LEMMA GivenQuantum ==
  ASSUME NEW s, FqStateOK(s), NEW h \in Flows, s.deficit[h] <= 0, NEW u \in FqState,
         u.disc = s.disc, u.deficit = s.deficit, u.nPackets = s.nPackets,
         u.status = [s.status EXCEPT ![h] = "OLD_FLOW"], s.status[h] # "INACTIVE",
         ListsOK(u.newFlows, u.oldFlows, u.status, u.disc)
  PROVE  Progress(s, [u EXCEPT !.deficit[h] = @ + Quantum])
<1> DEFINE d == s.deficit[h] + Quantum
           e == [s.deficit EXCEPT ![h] = d]
           t == [u EXCEPT !.deficit[h] = @ + Quantum]
<1>1. s \in FqState /\ s.deficit \in [Flows -> Int] /\ Quantum \in Nat \ {0}
      /\ s.status[h] \in FqStatuses /\ s.nPackets = SumFunction(Lengths(s.disc))
      /\ s.nPackets \in Int
  BY FqConstants DEF FqStateOK, FqState
<1>2. d \in Int /\ e \in [Flows -> Int] /\ t = [u EXCEPT !.deficit = e]
  BY <1>1 DEF FqState
<1>3. TurnsOf("OLD_FLOW", d) < TurnsOf(s.status[h], s.deficit[h])
  BY <1>1 DEF TurnsOf, FqStatuses
<1> HIDE DEF d, t
<1>4. t \in FqState
  BY <1>2 DEF FqState
<1>5. /\ t.disc = u.disc /\ t.deficit = e /\ t.status = u.status /\ t.nPackets = u.nPackets
      /\ t.newFlows = u.newFlows /\ t.oldFlows = u.oldFlows
  BY <1>2 DEF FqState
<1>6. MostTurns(t) < MostTurns(s)
  <2>1. "OLD_FLOW" \in FqStatuses /\ t.status = [s.status EXCEPT ![h] = "OLD_FLOW"]
        /\ t.deficit = [s.deficit EXCEPT ![h] = d]
    BY <1>5 DEF FqStatuses
  <2> QED
    BY <1>1, <1>2, <1>3, <1>4, <2>1, MoveShortens
<1>7. FqStateOK(t)
  BY <1>1, <1>4, <1>5 DEF FqStateOK
<1>8. Progress(s, t)
  BY <1>1, <1>5, <1>6, <1>7 DEF Progress
<1> QED
  BY <1>8 DEF t

(* The state after the disc of h returned nothing.                         *)
Unserved(s, h, a) ==
  /\ a \in FqState /\ a.deficit = s.deficit /\ a.status = s.status
  /\ a.newFlows = s.newFlows /\ a.oldFlows = s.oldFlows
  /\ ListsOK(a.newFlows, a.oldFlows, a.status, a.disc)
  /\ a.nPackets <= s.nPackets /\ a.nPackets = SumFunction(Lengths(a.disc))
  /\ \A x \in Flows : a.disc[x].queue # << >> => s.disc[x].queue # << >>
  /\ a.disc[h].queue = << >>

LEMMA LeftList ==
  ASSUME NEW s, FqStateOK(s), NEW h \in Flows, s.deficit[h] > 0, NEW a, Unserved(s, h, a),
         NEW u \in FqState, u.disc = a.disc, u.deficit = a.deficit, u.nPackets = a.nPackets,
         \/ s.status[h] = "NEW_FLOW" /\ u.status = [s.status EXCEPT ![h] = "OLD_FLOW"]
         \/ s.status[h] = "OLD_FLOW" /\ u.status = [s.status EXCEPT ![h] = "INACTIVE"],
         ListsOK(u.newFlows, u.oldFlows, u.status, u.disc)
  PROVE  Progress(s, u)
<1>1. /\ s \in FqState /\ s.deficit \in [Flows -> Int]
      /\ {"NEW_FLOW", "OLD_FLOW", "INACTIVE"} \subseteq FqStatuses
  BY DEF FqStateOK, FqState, FqStatuses
<1> DEFINE d == s.deficit[h]
<1>2. d \in Int /\ u.deficit = [s.deficit EXCEPT ![h] = d] /\ d > 0
  BY <1>1 DEF Unserved
<1>3. PICK st \in FqStatuses : /\ u.status = [s.status EXCEPT ![h] = st]
                              /\ TurnsOf(st, d) < TurnsOf(s.status[h], d)
  <2>1. d > 0 => /\ TurnsOf("OLD_FLOW", d) < TurnsOf("NEW_FLOW", d)
                 /\ TurnsOf("INACTIVE", d) < TurnsOf("OLD_FLOW", d)
    BY <1>2 DEF TurnsOf
  <2> HIDE DEF d
  <2> QED
    BY <1>1, <1>2, <2>1
<1>4. MostTurns(u) < MostTurns(s)
  <2>1. TurnsOf(st, d) < TurnsOf(s.status[h], s.deficit[h])
    BY <1>3
  <2> HIDE DEF d
  <2> QED
    BY <1>1, <1>2, <1>3, <2>1, MoveShortens, ZenonT(60)
<1>5. FqStateOK(u)
  BY DEF FqStateOK, Unserved
<1> QED
  BY <1>4, <1>5 DEF Progress, Unserved

LEMMA Returned ==
  ASSUME NEW s, FqStateOK(s), NEW h \in Flows, NEW a \in FqState, NEW size \in Int,
         ListsOK(a.newFlows, a.oldFlows, a.status, a.disc),
         a.nPackets = SumFunction(Lengths(a.disc)) + 1, a.nPackets <= s.nPackets,
         \A x \in Flows : a.disc[x].queue # << >> => s.disc[x].queue # << >>
  PROVE  Progress(s, [a EXCEPT !.deficit[h] = @ - size, !.nPackets = @ - 1, !.served = h])
<1> DEFINE e == [a.deficit EXCEPT ![h] = @ - size]
           n == a.nPackets - 1
           t == [a EXCEPT !.deficit = e, !.nPackets = n, !.served = h]
<1>1. a.deficit \in [Flows -> Int] /\ a.nPackets \in Int /\ s.nPackets \in Int
      /\ SumFunction(Lengths(a.disc)) \in Int
  <2>1. Lengths(a.disc) \in [Flows -> Int]
    <3>1. a.disc \in [Flows -> FqDisc] /\ \A c \in FqDisc : c.queue \in Seq(FqPacket)
      BY DEF FqState, FqDisc
    <3> QED
      BY <3>1, NoneQueued DEF Lengths
  <2>2. SumFunction(Lengths(a.disc)) \in Int
    BY <2>1, FlowSum
  <2> QED
    BY <2>2 DEF FqState, FqStateOK
<1>2. e \in [Flows -> Int] /\ n \in Int /\ n <= s.nPackets
      /\ n = SumFunction(Lengths(a.disc))
  BY <1>1
<1>3. [a EXCEPT !.deficit[h] = @ - size, !.nPackets = @ - 1, !.served = h] = t
  BY DEF FqState
<1> HIDE DEF e, n
<1>4. t \in FqState
  BY <1>2 DEF FqState
<1>5. /\ t.disc = a.disc /\ t.status = a.status /\ t.nPackets = n /\ t.served = h
      /\ t.newFlows = a.newFlows /\ t.oldFlows = a.oldFlows
  BY DEF FqState
<1> HIDE DEF t
<1>6. FqStateOK(t)
  BY <1>2, <1>4, <1>5 DEF FqStateOK
<1>7. Over(t)
  BY <1>5, FlowsFinite DEF Over
<1> QED
  BY <1>2, <1>3, <1>5, <1>6, <1>7 DEF Progress

LEMMA SizeOfPacket == \A p \in FqPacket : p.size \in Int
<1> SUFFICES ASSUME NEW p \in FqPacket PROVE p.size \in Int
  OBVIOUS
<1>1. p.size \in Sizes
  BY DEF FqPacket
<1>2. \A n \in Sizes : n \in Int
  BY FqConstants
<1> QED
  BY <1>1, <1>2

LEMMA TurnOK ==
  ASSUME NEW s, FqStateOK(s), ~Over(s), NEW gap \in Gaps
  PROVE  Progress(s, Turn(s, gap))
<1>1. /\ s \in FqState /\ s.newFlows \in Seq(Flows) /\ s.oldFlows \in Seq(Flows)
      /\ s.disc \in [Flows -> FqDisc] /\ s.deficit \in [Flows -> Int]
      /\ s.nPackets = SumFunction(Lengths(s.disc)) /\ s.nPackets \in Int
      /\ ListsOK(s.newFlows, s.oldFlows, s.status, s.disc)
      /\ {"NEW_FLOW", "OLD_FLOW", "INACTIVE"} \subseteq FqStatuses
  BY DEF FqStateOK, FqState, FqStatuses
<1>2. ASSUME NEW h \in Flows, s.deficit[h] > 0, NEW got, got = CoDelDequeue(s.disc[h], gap),
             got.item # NoItem
      PROVE  Progress(s, [Asked(s, h, got) EXCEPT !.deficit[h] = @ - got.item.size,
                                                  !.nPackets = @ - 1, !.served = h])
  <2>1. Conserved(got, s.disc[h])
    BY <1>1, <1>2, CoDelConserves
  <2>2. got.item \in FqPacket /\ got.item.size \in Int
    <3>1. got.item \in FqPacket
      BY <1>2, <2>1 DEF Conserved
    <3> QED
      BY <3>1, SizeOfPacket
  <2> DEFINE a == Asked(s, h, got)
  <2>3. /\ a \in FqState /\ ListsOK(a.newFlows, a.oldFlows, a.status, a.disc)
        /\ a.nPackets = SumFunction(Lengths(a.disc)) + 1 /\ a.nPackets <= s.nPackets
        /\ \A x \in Flows : a.disc[x].queue # << >> => s.disc[x].queue # << >>
    <3>1. Answered(s, h, got, a)
      BY <2>1, AskedState
    <3> HIDE DEF a
    <3> QED
      BY <1>2, <3>1 DEF Answered
  <2> HIDE DEF a
  <2>4. Progress(s, [a EXCEPT !.deficit[h] = @ - got.item.size, !.nPackets = @ - 1, !.served = h])
    <3> DEFINE size == got.item.size
    <3>1. size \in Int
      BY <2>2
    <3> HIDE DEF size
    <3>2. Progress(s, [a EXCEPT !.deficit[h] = @ - size, !.nPackets = @ - 1, !.served = h])
      BY <2>3, <3>1, Returned
    <3> QED
      BY <3>2 DEF size
  <2> QED
    BY <2>4 DEF a
<1>3. ASSUME NEW h \in Flows, NEW got, got = CoDelDequeue(s.disc[h], gap), got.item = NoItem
      PROVE  Unserved(s, h, Asked(s, h, got))
  <2>1. Conserved(got, s.disc[h])
    BY <1>1, <1>3, CoDelConserves
  <2> DEFINE a == Asked(s, h, got)
  <2>2. /\ a \in FqState /\ a.deficit = s.deficit /\ a.status = s.status
        /\ a.newFlows = s.newFlows /\ a.oldFlows = s.oldFlows
        /\ ListsOK(a.newFlows, a.oldFlows, a.status, a.disc)
        /\ a.nPackets <= s.nPackets /\ a.nPackets = SumFunction(Lengths(a.disc))
        /\ \A x \in Flows : a.disc[x].queue # << >> => s.disc[x].queue # << >>
        /\ a.disc[h].queue = << >>
    <3>1. Answered(s, h, got, a)
      BY <2>1, AskedState
    <3> HIDE DEF a
    <3> QED
      BY <1>3, <3>1 DEF Answered
  <2> QED
    BY <2>2, Zenon DEF Unserved
<1>4. CASE s.newFlows # << >>
  <2> DEFINE h == Head(s.newFlows)
             u == ToOld(s, "newFlows", h)
             got == CoDelDequeue(s.disc[h], gap)
             a == Asked(s, h, got)
  <2>1. /\ h \in Flows /\ s.status[h] = "NEW_FLOW"
        /\ ListsOK(Tail(s.newFlows), Append(s.oldFlows, h),
                   [s.status EXCEPT ![h] = "OLD_FLOW"], s.disc)
    BY <1>1, <1>4, ListsMoved
  <2>2. CASE s.deficit[h] <= 0
    <3>1. Turn(s, gap) = [u EXCEPT !.deficit[h] = @ + Quantum]
      BY <1>4, <2>2 DEF Turn
    <3> HIDE DEF h
    <3>2. /\ u \in FqState /\ u.disc = s.disc /\ u.deficit = s.deficit
          /\ u.nPackets = s.nPackets /\ u.status = [s.status EXCEPT ![h] = "OLD_FLOW"]
          /\ u.newFlows = Tail(s.newFlows) /\ u.oldFlows = Append(s.oldFlows, h)
      BY <1>1, <1>4, <2>1, NewToOld
    <3> HIDE DEF u
    <3>3. ListsOK(u.newFlows, u.oldFlows, u.status, u.disc) /\ s.status[h] # "INACTIVE"
      BY <2>1, <3>2
    <3>4. Progress(s, [u EXCEPT !.deficit[h] = @ + Quantum])
      BY <2>1, <2>2, <3>2, <3>3, GivenQuantum
    <3> QED
      BY <3>1, <3>4
  <2>3. CASE s.deficit[h] > 0 /\ got.item = NoItem
    <3>0. ~(s.deficit[h] <= 0)
      BY <1>1, <2>1, <2>3
    <3>1. Turn(s, gap) = ToOld(a, "newFlows", h)
      BY <1>4, <2>3, <3>0 DEF Turn, Asked, Emptied
    <3> HIDE DEF h, got
    <3>2. Unserved(s, h, a)
      BY <1>3, <2>1, <2>3 DEF got
    <3>10. /\ a \in FqState /\ a.status = s.status
           /\ a.newFlows = s.newFlows /\ a.oldFlows = s.oldFlows
           /\ ListsOK(a.newFlows, a.oldFlows, a.status, a.disc)
           /\ a.disc[h].queue = << >>
      BY <3>2 DEF Unserved
    <3> HIDE DEF a
    <3> DEFINE v == ToOld(a, "newFlows", h)
    <3>3. /\ v \in FqState /\ v.disc = a.disc /\ v.deficit = a.deficit
          /\ v.nPackets = a.nPackets /\ v.status = [a.status EXCEPT ![h] = "OLD_FLOW"]
          /\ v.newFlows = Tail(a.newFlows) /\ v.oldFlows = Append(a.oldFlows, h)
      BY <1>4, <2>1, <3>10, NewToOld
    <3>4. ListsOK(Tail(a.newFlows), Append(a.oldFlows, h),
                  [a.status EXCEPT ![h] = "OLD_FLOW"], a.disc)
      BY <1>4, <3>10, ListsMoved DEF h
    <3> HIDE DEF v
    <3>5. ListsOK(v.newFlows, v.oldFlows, v.status, v.disc)
      BY <3>3, <3>4
    <3>6. v.status = [s.status EXCEPT ![h] = "OLD_FLOW"] /\ "OLD_FLOW" \in FqStatuses
      BY <1>1, <3>10, <3>3
    <3>7. /\ v.deficit = a.deficit /\ v.nPackets = a.nPackets /\ v.disc = a.disc
          /\ v \in FqState
      BY <3>3
    <3>8. Progress(s, v)
      <4>1. \/ s.status[h] = "NEW_FLOW" /\ v.status = [s.status EXCEPT ![h] = "OLD_FLOW"]
            \/ s.status[h] = "OLD_FLOW" /\ v.status = [s.status EXCEPT ![h] = "INACTIVE"]
        BY <2>1, <3>6
      <4>2. h \in Flows /\ s.deficit[h] > 0
        BY <2>1, <2>3
      <4> QED
        BY <3>2, <3>5, <3>7, <4>1, <4>2, LeftList
    <3> QED
      BY <3>1, <3>8 DEF v
  <2>4. CASE s.deficit[h] > 0 /\ got.item # NoItem
    <3>0. ~(s.deficit[h] <= 0)
      BY <1>1, <2>1, <2>4
    <3>1. Turn(s, gap) = [a EXCEPT !.deficit[h] = @ - got.item.size, !.nPackets = @ - 1,
                                   !.served = h]
      BY <1>4, <2>4, <3>0 DEF Turn, Asked
    <3> QED
      BY <1>2, <2>1, <2>4, <3>1
  <2> QED
    BY <1>1, <2>1, <2>2, <2>3, <2>4
<1>5. CASE s.newFlows = << >>
  <2> DEFINE h == Head(s.oldFlows)
             u == ToOld(s, "oldFlows", h)
             got == CoDelDequeue(s.disc[h], gap)
             a == Asked(s, h, got)
  <2>0. s.oldFlows # << >>
    BY <1>1, <1>5 DEF Over
  <2>1. /\ h \in Flows /\ s.status[h] = "OLD_FLOW"
        /\ ListsOK(s.newFlows, Append(Tail(s.oldFlows), h),
                   [s.status EXCEPT ![h] = "OLD_FLOW"], s.disc)
    BY <1>1, <2>0, ListsMoved
  <2>2. CASE s.deficit[h] <= 0
    <3>1. Turn(s, gap) = [u EXCEPT !.deficit[h] = @ + Quantum]
      BY <1>5, <2>2 DEF Turn
    <3> HIDE DEF h
    <3>2. /\ u \in FqState /\ u.disc = s.disc /\ u.deficit = s.deficit
          /\ u.nPackets = s.nPackets /\ u.status = [s.status EXCEPT ![h] = "OLD_FLOW"]
          /\ u.newFlows = s.newFlows /\ u.oldFlows = Append(Tail(s.oldFlows), h)
      BY <1>1, <2>0, <2>1, OldToOld
    <3> HIDE DEF u
    <3>3. ListsOK(u.newFlows, u.oldFlows, u.status, u.disc) /\ s.status[h] # "INACTIVE"
      BY <2>1, <3>2
    <3>4. Progress(s, [u EXCEPT !.deficit[h] = @ + Quantum])
      BY <2>1, <2>2, <3>2, <3>3, GivenQuantum
    <3> QED
      BY <3>1, <3>4
  <2>3. CASE s.deficit[h] > 0 /\ got.item = NoItem
    <3>0. ~(s.deficit[h] <= 0)
      BY <1>1, <2>1, <2>3
    <3>1. Turn(s, gap) = Gone(a, "oldFlows", h)
      BY <1>5, <2>3, <3>0 DEF Turn, Asked, Emptied
    <3> HIDE DEF h, got
    <3>2. Unserved(s, h, a)
      BY <1>3, <2>1, <2>3 DEF got
    <3>10. /\ a \in FqState /\ a.status = s.status
           /\ a.newFlows = s.newFlows /\ a.oldFlows = s.oldFlows
           /\ ListsOK(a.newFlows, a.oldFlows, a.status, a.disc)
           /\ a.disc[h].queue = << >>
      BY <3>2 DEF Unserved
    <3> HIDE DEF a
    <3> DEFINE v == Gone(a, "oldFlows", h)
    <3>3. /\ v \in FqState /\ v.disc = a.disc /\ v.deficit = a.deficit
          /\ v.nPackets = a.nPackets /\ v.status = [a.status EXCEPT ![h] = "INACTIVE"]
          /\ v.newFlows = a.newFlows /\ v.oldFlows = Tail(a.oldFlows)
      BY <2>0, <2>1, <3>10, OldToNone
    <3>4. ListsOK(a.newFlows, Tail(a.oldFlows), [a.status EXCEPT ![h] = "INACTIVE"], a.disc)
      BY <2>0, <3>10, ListsMoved DEF h
    <3> HIDE DEF v
    <3>5. ListsOK(v.newFlows, v.oldFlows, v.status, v.disc)
      BY <3>3, <3>4
    <3>6. v.status = [s.status EXCEPT ![h] = "INACTIVE"] /\ "INACTIVE" \in FqStatuses
      BY <1>1, <3>10, <3>3
    <3>7. /\ v.deficit = a.deficit /\ v.nPackets = a.nPackets /\ v.disc = a.disc
          /\ v \in FqState
      BY <3>3
    <3>8. Progress(s, v)
      <4>1. \/ s.status[h] = "NEW_FLOW" /\ v.status = [s.status EXCEPT ![h] = "OLD_FLOW"]
            \/ s.status[h] = "OLD_FLOW" /\ v.status = [s.status EXCEPT ![h] = "INACTIVE"]
        BY <2>1, <3>6
      <4>2. h \in Flows /\ s.deficit[h] > 0
        BY <2>1, <2>3
      <4> QED
        BY <3>2, <3>5, <3>7, <4>1, <4>2, LeftList
    <3> QED
      BY <3>1, <3>8 DEF v
  <2>4. CASE s.deficit[h] > 0 /\ got.item # NoItem
    <3>0. ~(s.deficit[h] <= 0)
      BY <1>1, <2>1, <2>4
    <3>1. Turn(s, gap) = [a EXCEPT !.deficit[h] = @ - got.item.size, !.nPackets = @ - 1,
                                   !.served = h]
      BY <1>5, <2>4, <3>0 DEF Turn, Asked
    <3> QED
      BY <1>2, <2>1, <2>4, <3>1
  <2> QED
    BY <1>1, <2>1, <2>2, <2>3, <2>4
<1> QED
  BY <1>4, <1>5

----------------------------------------------------------------------------
(* A whole round.                                                          *)
LEMMA SomeTurnsLeft ==
  ASSUME NEW s, FqStateOK(s), ~Over(s)
  PROVE  MostTurns(s) # 0
<1> DEFINE f == [x \in Flows |-> TurnsOf(s.status[x], s.deficit[x])]
<1>1. \A u \in FqStatuses, e \in Int :
        TurnsOf(u, e) \in Nat /\ (u # "INACTIVE" => TurnsOf(u, e) > 0)
  BY DEF TurnsOf, FqStatuses
<1>2. /\ s.status \in [Flows -> FqStatuses] /\ s.deficit \in [Flows -> Int]
      /\ s.newFlows \in Seq(Flows) /\ s.oldFlows \in Seq(Flows)
      /\ Listed(s.newFlows, "NEW_FLOW", s.status) /\ Listed(s.oldFlows, "OLD_FLOW", s.status)
  BY DEF FqStateOK, FqState, ListsOK
<1>3. \E h \in Flows : s.status[h] # "INACTIVE"
  <2>1. s.newFlows # << >> \/ s.oldFlows # << >>
    BY <1>2 DEF Over
  <2> QED
    BY <1>2, <2>1, ListedHead
<1>4. f \in [Flows -> Nat]
  BY <1>1, <1>2
<1>5. \E h \in Flows : f[h] > 0
  BY <1>1, <1>2, <1>3
<1>6. MostTurns(s) = SumFunction(f)
  BY DEF MostTurns, TurnsOf
<1> HIDE DEF f
<1>7. SumFunction(f) \in Nat /\ \A x \in Flows : f[x] <= SumFunction(f)
  BY <1>4, FlowsFinite, SumOfNats
<1> QED
  BY <1>4, <1>5, <1>6, <1>7

(* What n turns from s lead to.                                            *)
After(s, n, t) ==
  /\ FqStateOK(t) /\ t.nPackets <= s.nPackets
  /\ \A x \in Flows : t.disc[x].queue # << >> => s.disc[x].queue # << >>
  /\ Over(t) \/ MostTurns(t) <= MostTurns(s) - n

LEMMA NextTurn ==
  ASSUME NEW s, FqStateOK(s), NEW n \in Nat, NEW t, After(s, n, t), NEW gap \in Gaps
  PROVE  After(s, n + 1, Turn(t, gap))
<1>1. FqStateOK(t) /\ s \in FqState /\ t \in FqState /\ s.nPackets \in Int /\ t.nPackets \in Int
      /\ t.nPackets <= s.nPackets
  BY DEF After, FqStateOK, FqState
<1>2. CASE Over(t)
  <2>1. Turn(t, gap) = t
    BY <1>2 DEF Turn
  <2> QED
    BY <1>2, <2>1 DEF After
<1>3. CASE ~Over(t)
  <2> DEFINE v == Turn(t, gap)
  <2>1. Progress(t, v)
    BY <1>1, <1>3, TurnOK
  <2> HIDE DEF v
  <2>2. FqStateOK(v) /\ v \in FqState /\ v.nPackets \in Int
    BY <2>1 DEF Progress, FqStateOK, FqState
  <2>3. v.nPackets <= s.nPackets
    BY <1>1, <2>1, <2>2 DEF Progress
  <2>4. \A x \in Flows : v.disc[x].queue # << >> => s.disc[x].queue # << >>
    BY <2>1 DEF Progress, After
  <2>5. Over(v) \/ MostTurns(v) <= MostTurns(s) - (n + 1)
    <3>1. MostTurns(t) <= MostTurns(s) - n
      BY <1>3 DEF After
    <3>2. MostTurns(s) \in Nat /\ MostTurns(t) \in Nat /\ MostTurns(v) \in Nat
      BY <1>1, <2>2, MostTurnsNat
    <3>3. Over(v) \/ MostTurns(v) < MostTurns(t)
      BY <2>1 DEF Progress
    <3>4. \A a, b, c \in Nat : a <= b - n /\ c < a => c <= b - (n + 1)
      OBVIOUS
    <3> QED
      BY <3>1, <3>2, <3>3, <3>4
  <2>6. After(s, n + 1, v)
    BY <2>2, <2>3, <2>4, <2>5 DEF After
  <2> QED
    BY <2>6 DEF v
<1> QED
  BY <1>2, <1>3

Turning(s, gap, n, g) == g = [k \in 0 .. n |-> IF k = 0 THEN s ELSE Turn(g[k - 1], gap)]

LEMMA TurnsExist ==
  ASSUME NEW s, FqStateOK(s), NEW gap \in Gaps, NEW n \in Nat
  PROVE  \E g : Turning(s, gap, n, g)
<1> DEFINE N == {m \in Nat : \E g : Turning(s, gap, m, g)}
<1>1. 0 \in N
  <2> DEFINE g == [k \in 0 .. 0 |-> s]
  <2>1. \A k \in 0 .. 0 : k = 0
    OBVIOUS
  <2>2. g = [k \in 0 .. 0 |-> IF k = 0 THEN s ELSE Turn(g[k - 1], gap)]
    BY <2>1
  <2> QED
    BY <2>2 DEF Turning
<1>2. ASSUME NEW m \in Nat, m \in N PROVE m + 1 \in N
  <2>1. PICK g : g = [k \in 0 .. m |-> IF k = 0 THEN s ELSE Turn(g[k - 1], gap)]
    BY <1>2 DEF Turning
  <2> DEFINE h == [k \in 0 .. m + 1 |-> IF k = 0 THEN s ELSE Turn(g[k - 1], gap)]
  <2>2. \A k \in 0 .. m : k \in 0 .. m + 1
    OBVIOUS
  <2>3. \A k \in 0 .. m : h[k] = g[k]
    BY <2>1, <2>2
  <2>4. \A k \in 0 .. m + 1 : k # 0 => k - 1 \in 0 .. m
    OBVIOUS
  <2>5. h = [k \in 0 .. m + 1 |-> IF k = 0 THEN s ELSE Turn(h[k - 1], gap)]
    BY <2>3, <2>4
  <2> HIDE DEF h
  <2> QED
    BY <2>5 DEF Turning
<1> HIDE DEF N
<1>3. \A m \in 0 .. n : m \in N
  BY <1>1, <1>2, Induction
<1>4. n \in N
  BY <1>3
<1> QED
  BY <1>4 DEF N

LEMMA RoundOK ==
  ASSUME NEW s, FqStateOK(s), NEW gap \in Gaps
  PROVE  LET t == Round(s, gap)
         IN /\ FqStateOK(t) /\ Over(t) /\ t.nPackets <= s.nPackets
            /\ \A x \in Flows : t.disc[x].queue # << >> => s.disc[x].queue # << >>
<1> DEFINE last == MostTurns(s)
           turn == CHOOSE e : Turning(s, gap, last, e)
<1>1. Round(s, gap) = turn[last]
  BY DEF Round, Turning
<1>2. s \in FqState /\ s.nPackets \in Int
  BY DEF FqStateOK, FqState
<1>3. last \in Nat
  BY <1>2, MostTurnsNat
<1> HIDE DEF last
<1>4. Turning(s, gap, last, turn)
  BY <1>3, TurnsExist
<1>5. \A k \in 0 .. last : turn[k] = IF k = 0 THEN s ELSE Turn(turn[k - 1], gap)
  <2> HIDE DEF turn
  <2> QED
    BY <1>4 DEF Turning
<1> HIDE DEF turn
<1> DEFINE N == {k \in 0 .. last : After(s, k, turn[k])}
<1>6. 0 \in N
  <2>1. 0 \in 0 .. last /\ turn[0] = s
    BY <1>3, <1>5
  <2>2. MostTurns(s) <= MostTurns(s) - 0 /\ s.nPackets <= s.nPackets
    BY <1>2, <1>3 DEF last
  <2>3. After(s, 0, s)
    BY <2>2 DEF After
  <2> QED
    BY <2>1, <2>3
<1>7. ASSUME NEW m \in 0 .. last - 1, m \in N PROVE m + 1 \in N
  <2>1. m \in Nat /\ m + 1 \in 0 .. last /\ m + 1 # 0 /\ m + 1 - 1 = m
    BY <1>3
  <2>2. turn[m + 1] = Turn(turn[m], gap)
    BY <1>5, <2>1
  <2>3. After(s, m, turn[m])
    BY <1>7
  <2>4. After(s, m + 1, Turn(turn[m], gap))
    BY <2>1, <2>3, NextTurn
  <2> QED
    BY <2>1, <2>2, <2>4
<1>8. last \in N
  <2> HIDE DEF N
  <2>1. \A m \in 0 .. last : m \in N
    BY <1>3, <1>6, <1>7, Induction
  <2> QED
    BY <1>3, <2>1
<1> DEFINE t == turn[last]
<1>9. After(s, last, t)
  BY <1>8
<1> HIDE DEF t
<1>10. FqStateOK(t) /\ t.nPackets <= s.nPackets
       /\ \A x \in Flows : t.disc[x].queue # << >> => s.disc[x].queue # << >>
  BY <1>9 DEF After
<1>11. Over(t)
  <2> SUFFICES ASSUME ~Over(t) PROVE FALSE
    OBVIOUS
  <2>1. MostTurns(t) <= last - last
    BY <1>9 DEF After, last
  <2>2. MostTurns(t) \in Nat
    BY <1>10, MostTurnsNat DEF FqStateOK
  <2>3. MostTurns(t) # 0
    BY <1>10, SomeTurnsLeft
  <2> QED
    BY <1>3, <2>1, <2>2, <2>3
<1> QED
  BY <1>1, <1>10, <1>11 DEF t

----------------------------------------------------------------------------
(* Enqueue: the flow whose packets are dropped.                            *)
LEMMA GreatestOf ==
  ASSUME NEW n \in Nat, NEW t \in SUBSET (0 .. n), t # {}
  PROVE  Max(t) \in t /\ \A y \in t : y <= Max(t)
<1> DEFINE T == {k \in Nat : n - k \in t}
<1>1. PICK y \in t : TRUE
  OBVIOUS
<1>2. n - y \in T
  BY <1>1
<1>3. PICK m \in T : \A k \in T : m <= k
  BY <1>2, Least
<1>4. n - m \in t
  BY <1>3
<1>5. \A z \in t : z <= n - m
  <2> SUFFICES ASSUME NEW z \in t PROVE z <= n - m
    OBVIOUS
  <2>1. n - z \in T /\ z \in Nat
    OBVIOUS
  <2>2. m <= n - z
    BY <1>3, <2>1
  <2> QED
    BY <1>3, <2>1, <2>2
<1>6. \E x \in t : \A z \in t : x >= z
  BY <1>4, <1>5
<1>7. Max(t) = CHOOSE x \in t : \A z \in t : x >= z
  BY DEF Max
<1>8. Max(t) \in t /\ \A z \in t : Max(t) >= z
  BY <1>6, <1>7
<1> QED
  BY <1>8

LEMMA FirstOf ==
  ASSUME NEW t \in SUBSET Nat, t # {}
  PROVE  Min(t) \in t
<1>1. PICK k \in t : \A y \in t : k <= y
  BY Least
<1> QED
  BY <1>1 DEF Min

LEMMA LongestHasPackets ==
  ASSUME NEW d \in [Flows -> FqDisc], NEW order \in Seq(Flows), NEW h \in ToSet(order),
         d[h].queue # << >>
  PROVE  LongestFlow(d, order) \in Flows /\ d[LongestFlow(d, order)].queue # << >>
<1> DEFINE f == [x \in Flows |-> Backlog(d, x)]
           B == {Backlog(d, x) : x \in ToSet(order)}
           longest == Max(B)
           K == {k \in DOMAIN order : Backlog(d, order[k]) = longest}
<1>1. \A x \in Flows : Backlog(d, x) \in Nat /\ (d[x].queue = << >> <=> Backlog(d, x) = 0)
  <2> SUFFICES ASSUME NEW x \in Flows
               PROVE  Backlog(d, x) \in Nat /\ (d[x].queue = << >> <=> Backlog(d, x) = 0)
    OBVIOUS
  <2>1. d[x].queue \in Seq(FqPacket)
    BY DEF FqDisc
  <2> QED
    BY <2>1, BytesQueued DEF Backlog, NBytes
<1>2. ToSet(order) \subseteq Flows /\ \A x \in ToSet(order) : \E k \in DOMAIN order : order[k] = x
  BY DEF ToSet
<1>3. f \in [Flows -> Nat]
  BY <1>1
<1>4. SumFunction(f) \in Nat /\ \A x \in Flows : f[x] <= SumFunction(f)
  <2> HIDE DEF f
  <2> QED
    BY <1>3, FlowsFinite, SumOfNats
<1>5. B \in SUBSET (0 .. SumFunction(f)) /\ Backlog(d, h) \in B
  <2>1. \A x \in Flows : Backlog(d, x) <= SumFunction(f)
    BY <1>4
  <2> HIDE DEF f
  <2> QED
    BY <1>1, <1>2, <1>4, <2>1
<1>6. longest \in B /\ \A y \in B : y <= longest
  <2> HIDE DEF B, f
  <2> QED
    BY <1>4, <1>5, GreatestOf
<1>7. longest \in Nat /\ longest # 0
  <2>1. Backlog(d, h) <= longest /\ Backlog(d, h) \in Nat /\ Backlog(d, h) # 0
    BY <1>1, <1>2, <1>5, <1>6
  <2>2. longest \in Nat
    BY <1>1, <1>2, <1>6
  <2> HIDE DEF longest
  <2> QED
    BY <2>1, <2>2
<1>8. PICK x \in ToSet(order) : Backlog(d, x) = longest
  BY <1>6
<1> HIDE DEF longest
<1>9. K \in SUBSET Nat /\ K # {}
  <2>1. DOMAIN order = 1 .. Len(order)
    OBVIOUS
  <2> QED
    BY <1>2, <1>8, <2>1
<1>10. Min(K) \in K
  <2> HIDE DEF K
  <2> QED
    BY <1>9, FirstOf
<1>11. LongestFlow(d, order) = order[Min(K)]
  BY DEF LongestFlow, longest
<1> DEFINE i == Min(K)
<1> HIDE DEF i
<1>12. i \in DOMAIN order /\ Backlog(d, order[i]) = longest /\ order[i] \in Flows
  <2>1. i \in DOMAIN order /\ Backlog(d, order[i]) = longest
    BY <1>10 DEF i
  <2> QED
    BY <2>1
<1>13. d[order[i]].queue # << >>
  BY <1>1, <1>7, <1>12
<1> QED
  BY <1>11, <1>12, <1>13 DEF i

LEMMA BatchOfSome ==
  ASSUME NEW q \in Seq(FqPacket), q # << >>
  PROVE  Batch(q) \in 1 .. Len(q)
<1> DEFINE bytes(n) == SumOfSizes(SubSeq(q, 1, n))
           enough(n) == n >= DropBatchSize \/ bytes(n) >= bytes(Len(q)) \div 2
           E == {n \in 1 .. Len(q) : enough(n)}
<1>1. Len(q) \in 1 .. Len(q) /\ SubSeq(q, 1, Len(q)) \in Seq(FqPacket)
  OBVIOUS
<1>2. bytes(Len(q)) \in Nat
  BY <1>1, BytesQueued
<1> HIDE DEF bytes
<1>3. bytes(Len(q)) >= bytes(Len(q)) \div 2
  BY <1>2
<1>4. Len(q) \in E
  BY <1>1, <1>3
<1>5. E \in SUBSET Nat
  OBVIOUS
<1>6. Min(E) \in E
  <2> HIDE DEF E
  <2> QED
    BY <1>4, <1>5, FirstOf
<1>7. Batch(q) = Min(E)
  BY DEF Batch, bytes
<1> QED
  BY <1>6, <1>7

(* A packet is put in a disc; packets are taken from it; time passes.      *)
LEMMA PlacedDisc ==
  ASSUME NEW c \in FqDisc, Len(c.queue) <= Limit, NEW size \in Sizes
  PROVE  /\ CoDelEnqueue(c, size) \in FqDisc
         /\ Len(CoDelEnqueue(c, size).queue) = Len(c.queue) + 1
         /\ CoDelEnqueue(c, size).queue # << >>
<1> DEFINE q == Append(c.queue, [size |-> size, age |-> 0])
<1>1. c.queue \in Seq(FqPacket) /\ Len(c.queue) \in Nat
  BY DEF FqDisc
<1>2. [size |-> size, age |-> 0] \in FqPacket
  BY DEF FqPacket
<1>3. q \in Seq(FqPacket) /\ Len(q) = Len(c.queue) + 1 /\ q # << >>
  BY <1>1, <1>2
<1>4. CoDelEnqueue(c, size) = [c EXCEPT !.queue = q]
  BY <1>1, FqConstants DEF CoDelEnqueue, FqDisc
<1> HIDE DEF q
<1> QED
  BY <1>3, <1>4 DEF FqDisc

LEMMA ShortenedDisc ==
  ASSUME NEW c \in FqDisc, NEW n \in 1 .. Len(c.queue)
  PROVE  LET b == [c EXCEPT !.queue = SubSeq(@, n + 1, Len(@))]
         IN b \in FqDisc /\ Len(b.queue) = Len(c.queue) - n
<1> DEFINE q == SubSeq(c.queue, n + 1, Len(c.queue))
<1>1. c.queue \in Seq(FqPacket)
  BY DEF FqDisc
<1>2. q \in Seq(FqPacket) /\ Len(q) = Len(c.queue) - n
  BY <1>1
<1>3. [c EXCEPT !.queue = SubSeq(@, n + 1, Len(@))] = [c EXCEPT !.queue = q]
  BY DEF FqDisc
<1> HIDE DEF q
<1> QED
  BY <1>2, <1>3 DEF FqDisc

LEMMA AgedDisc ==
  ASSUME NEW c \in FqDisc
  PROVE  Aged(c) \in FqDisc /\ Len(Aged(c).queue) = Len(c.queue)
<1> DEFINE one(p) == [p EXCEPT !.age = IF @ < Target THEN @ + 1 ELSE @]
           q == [k \in DOMAIN c.queue |-> one(c.queue[k])]
           above == IF c.firstAbove \in {Unset, -1} THEN c.firstAbove ELSE c.firstAbove - 1
           next == IF c.dropping /\ c.dropNext > -MaxLag THEN c.dropNext - 1 ELSE c.dropNext
<1>1. /\ c.queue \in Seq(FqPacket) /\ Len(c.queue) \in Nat /\ DOMAIN c.queue = 1 .. Len(c.queue)
      /\ c.firstAbove \in Int /\ c.dropping \in BOOLEAN /\ c.dropNext \in Int
  BY DEF FqDisc
<1>2. \A p \in FqPacket : one(p) \in FqPacket
  <2> SUFFICES ASSUME NEW p \in FqPacket PROVE one(p) \in FqPacket
    OBVIOUS
  <2> DEFINE a == IF p.age < Target THEN p.age + 1 ELSE p.age
  <2>1. p.age \in Nat /\ Target \in Nat
    BY CoDelAssumption DEF FqPacket, CoDelAssumption
  <2>2. a \in Nat
    BY <2>1
  <2>3. one(p) = [p EXCEPT !.age = a]
    BY DEF FqPacket
  <2> HIDE DEF a, one
  <2> QED
    BY <2>2, <2>3 DEF FqPacket
<1>3. q \in Seq(FqPacket) /\ Len(q) = Len(c.queue)
  <2>1. \A k \in 1 .. Len(c.queue) : one(c.queue[k]) \in FqPacket
    BY <1>1, <1>2
  <2> HIDE DEF one
  <2> QED
    BY <1>1, <2>1
<1>4. above \in Int /\ next \in Int
  BY <1>1, FqConstants
<1>5. Aged(c) = [queue |-> q, firstAbove |-> above, dropping |-> c.dropping, dropNext |-> next]
  BY DEF Aged
<1> HIDE DEF q, above, next
<1>6. \A b \in BOOLEAN :
        LET a == [queue |-> q, firstAbove |-> above, dropping |-> b, dropNext |-> next]
        IN a \in FqDisc /\ a.queue = q
  BY <1>3, <1>4 DEF FqDisc
<1>7. Aged(c) \in FqDisc /\ Aged(c).queue = q
  BY <1>1, <1>5, <1>6
<1> QED
  BY <1>3, <1>7

----------------------------------------------------------------------------
(* The inductive invariant.  A flow with packets has a class too, so that  *)
(* the longest flow is found among the classes.                            *)
Working == [disc |-> disc, deficit |-> deficit, status |-> status, newFlows |-> newFlows,
            oldFlows |-> oldFlows, nPackets |-> nPackets, served |-> NoFlow]

FqTypes ==
  /\ disc \in [Flows -> FqDisc] /\ deficit \in [Flows -> Int] /\ status \in [Flows -> FqStatuses]
  /\ newFlows \in Seq(Flows) /\ oldFlows \in Seq(Flows) /\ classes \in Seq(Flows)
  /\ nPackets \in Nat
FqInv ==
  /\ FqTypes
  /\ nPackets = SumFunction(Lengths(disc)) /\ nPackets <= Limit
  /\ ListsOK(newFlows, oldFlows, status, disc)
  /\ \A h \in Flows : disc[h].queue # << >> => h \in ToSet(classes)

LEMMA FqBegins == Init => FqInv
<1> SUFFICES ASSUME Init PROVE FqInv
  OBVIOUS
<1>1. Empty \in FqDisc /\ Empty.queue = << >>
  <2>1. \A b \in BOOLEAN : [queue |-> << >>, firstAbove |-> Unset, dropping |-> b,
                            dropNext |-> 0] \in FqDisc
    <3>1. << >> \in Seq(FqPacket) /\ 0 \in Int
      OBVIOUS
    <3> QED
      BY <3>1, FqConstants DEF FqDisc
  <2>2. Empty \in FqDisc
    <3>1. FALSE \in BOOLEAN
      OBVIOUS
    <3> QED
      BY <2>1, <3>1, Zenon DEF Empty
  <2> QED
    BY <2>2 DEF Empty
<1>2. FqTypes
  <2>1. << >> \in Seq(Flows) /\ "INACTIVE" \in FqStatuses
    BY DEF FqStatuses
  <2> QED
    BY <1>1, <2>1 DEF Init, FqTypes
<1>3. \A h \in Flows : disc[h].queue = << >>
  BY <1>1 DEF Init
<1>4. SumFunction(Lengths(disc)) = 0
  <2> DEFINE f == Lengths(disc)
  <2>1. \A h \in Flows : f[h] = 0 /\ f \in [Flows -> Int]
    BY <1>3 DEF Lengths
  <2>2. f \in [Flows -> Int]
    <3>1. \A h \in Flows : Len(disc[h].queue) \in Int
      BY <1>3
    <3> QED
      BY <3>1 DEF Lengths
  <2> HIDE DEF f
  <2>3. SumFunction(f) = 0
    BY <2>1, <2>2, FlowsFinite, SumOfNone
  <2> QED
    BY <2>3 DEF f
<1>5. ListsOK(newFlows, oldFlows, status, disc)
  BY <1>3 DEF Init, ListsOK, Listed
<1> QED
  BY <1>2, <1>3, <1>4, <1>5, FqConstants DEF FqInv, Init

LEMMA WorkingOK == FqInv => FqStateOK(Working) /\ Working.disc = disc
                            /\ Working.nPackets = nPackets
<1> SUFFICES ASSUME FqInv PROVE FqStateOK(Working) /\ Working.disc = disc
                                /\ Working.nPackets = nPackets
  OBVIOUS
<1>1. FqTypes /\ nPackets \in Int
  BY DEF FqInv, FqTypes
<1>2. Working \in FqState
  BY <1>1 DEF Working, FqState, FqTypes
<1>3. /\ Working.disc = disc /\ Working.nPackets = nPackets /\ Working.status = status
      /\ Working.newFlows = newFlows /\ Working.oldFlows = oldFlows
  BY DEF Working
<1> QED
  BY <1>2, <1>3 DEF FqStateOK, FqInv

(* A round leaves the state sound, and ends with a packet in hand or with  *)
(* none left.                                                              *)
LEMMA DequeueStep ==
  ASSUME FqInv, Dequeue
  PROVE  FqInv' /\ (served' # NoFlow \/ nPackets' = 0)
<1>1. PICK gap \in Gaps :
        LET s == Round(Working, gap)
        IN /\ disc' = s.disc /\ deficit' = s.deficit /\ status' = s.status
           /\ newFlows' = s.newFlows /\ oldFlows' = s.oldFlows
           /\ nPackets' = s.nPackets /\ served' = s.served /\ classes' = classes
  BY DEF Dequeue, Working
<1> DEFINE s == Round(Working, gap)
<1>2. /\ FqStateOK(s) /\ Over(s) /\ s.nPackets <= nPackets
      /\ \A x \in Flows : s.disc[x].queue # << >> => disc[x].queue # << >>
  <2>1. FqStateOK(Working) /\ Working.disc = disc /\ Working.nPackets = nPackets
    BY WorkingOK
  <2>2. /\ FqStateOK(s) /\ Over(s) /\ s.nPackets <= Working.nPackets
        /\ \A x \in Flows : s.disc[x].queue # << >> => Working.disc[x].queue # << >>
    BY <2>1, RoundOK
  <2> HIDE DEF s
  <2> QED
    BY <2>1, <2>2
<1>3. /\ disc' = s.disc /\ deficit' = s.deficit /\ status' = s.status
      /\ newFlows' = s.newFlows /\ oldFlows' = s.oldFlows
      /\ nPackets' = s.nPackets /\ served' = s.served /\ classes' = classes
  BY <1>1
<1> HIDE DEF s
<1>4. /\ s \in FqState /\ s.nPackets = SumFunction(Lengths(s.disc))
      /\ ListsOK(s.newFlows, s.oldFlows, s.status, s.disc)
      /\ s.disc \in [Flows -> FqDisc] /\ s.deficit \in [Flows -> Int]
      /\ s.status \in [Flows -> FqStatuses] /\ s.newFlows \in Seq(Flows)
      /\ s.oldFlows \in Seq(Flows)
  BY <1>2 DEF FqStateOK, FqState
<1>5. \A x \in Flows : s.disc[x].queue \in Seq(FqPacket)
  BY <1>4 DEF FqDisc
<1>6. Lengths(s.disc) \in [Flows -> Nat]
  BY <1>5, NoneQueued DEF Lengths
<1>7. s.nPackets \in Nat
  BY <1>4, <1>6, FlowsFinite, SumOfNats
<1>8. FqTypes'
  <2>1. classes' \in Seq(Flows)
    BY <1>3 DEF FqInv, FqTypes
  <2> QED
    BY <1>3, <1>4, <1>7, <2>1 DEF FqTypes
<1>9. nPackets' <= Limit
  BY <1>2, <1>3, <1>7, FqConstants DEF FqInv, FqTypes
<1>10. \A h \in Flows : disc'[h].queue # << >> => h \in ToSet(classes')
  BY <1>2, <1>3 DEF FqInv
<1>11. FqInv'
  BY <1>3, <1>4, <1>8, <1>9, <1>10 DEF FqInv
<1>12. CASE s.served # NoFlow
  BY <1>3, <1>11, <1>12
<1>13. CASE s.served = NoFlow
  <2>1. s.newFlows = << >> /\ s.oldFlows = << >>
    BY <1>2, <1>4, <1>13 DEF Over
  <2>2. \A h \in Flows : s.status[h] = "INACTIVE"
    <3>1. \A h \in Flows : s.status[h] # "NEW_FLOW" /\ s.status[h] # "OLD_FLOW"
      BY <1>4, <2>1 DEF ListsOK, Listed
    <3> QED
      BY <1>4, <3>1 DEF FqStatuses
  <2>3. \A h \in Flows : s.disc[h].queue = << >>
    BY <1>4, <2>2 DEF ListsOK
  <2> DEFINE f == Lengths(s.disc)
  <2>4. f \in [Flows -> Int] /\ \A h \in Flows : f[h] = 0
    BY <1>6, <2>3 DEF Lengths
  <2> HIDE DEF f
  <2>5. SumFunction(f) = 0
    BY <2>4, FlowsFinite, SumOfNone
  <2> QED
    BY <1>3, <1>4, <1>11, <2>5 DEF f
<1> QED
  BY <1>12, <1>13

LEMMA TickStep ==
  ASSUME FqInv, Tick
  PROVE  FqInv'
<1>1. /\ disc \in [Flows -> FqDisc] /\ FqTypes
      /\ disc' = [h \in Flows |-> Aged(disc[h])]
      /\ UNCHANGED <<classes, deficit, status, newFlows, oldFlows, nPackets>>
  BY DEF FqInv, FqTypes, Tick
<1>2. \A h \in Flows : disc'[h] \in FqDisc /\ Len(disc'[h].queue) = Len(disc[h].queue)
  BY <1>1, AgedDisc
<1>3. disc' \in [Flows -> FqDisc] /\ Lengths(disc') = Lengths(disc)
  <2>1. Lengths(disc') = Lengths(disc)
    BY <1>2 DEF Lengths
  <2> QED
    BY <1>1, <1>2, <2>1
<1>4. \A h \in Flows : disc'[h].queue # << >> => disc[h].queue # << >>
  <2> SUFFICES ASSUME NEW h \in Flows, disc[h].queue = << >> PROVE disc'[h].queue = << >>
    OBVIOUS
  <2>1. disc[h].queue \in Seq(FqPacket) /\ disc'[h].queue \in Seq(FqPacket)
    BY <1>1, <1>2 DEF FqDisc
  <2>2. Len(disc'[h].queue) = 0
    BY <1>2
  <2> QED
    BY <2>1, <2>2, NoneQueued
<1>5. FqTypes'
  BY <1>1, <1>3 DEF FqTypes
<1>6. ListsOK(newFlows', oldFlows', status', disc')
  <2>1. ListsOK(newFlows, oldFlows, status, disc')
    BY <1>4 DEF ListsOK, FqInv
  <2> QED
    BY <1>1, <2>1
<1>7. \A h \in Flows : disc'[h].queue # << >> => h \in ToSet(classes')
  BY <1>1, <1>4 DEF FqInv
<1>8. nPackets' = SumFunction(Lengths(disc')) /\ nPackets' <= Limit
  BY <1>1, <1>3 DEF FqInv
<1> QED
  BY <1>5, <1>6, <1>7, <1>8 DEF FqInv

LEMMA EnqueueStep ==
  ASSUME FqInv, NEW h \in Flows, NEW size \in Sizes, Enqueue(h, size)
  PROVE  FqInv'
<1> DEFINE fresh == status[h] = "INACTIVE"
           placed == [disc EXCEPT ![h] = CoDelEnqueue(@, size)]
           fat == LongestFlow(placed, classes')
           n == IF nPackets + 1 > Limit THEN Batch(placed[fat].queue) ELSE 0
<1>1. /\ classes' = IF h \in ToSet(classes) THEN classes ELSE Append(classes, h)
      /\ status' = IF fresh THEN [status EXCEPT ![h] = "NEW_FLOW"] ELSE status
      /\ deficit' = IF fresh THEN [deficit EXCEPT ![h] = Quantum] ELSE deficit
      /\ newFlows' = IF fresh THEN Append(newFlows, h) ELSE newFlows
      /\ disc' = IF n = 0 THEN placed
                 ELSE [placed EXCEPT ![fat].queue = SubSeq(@, n + 1, Len(@))]
      /\ nPackets' = nPackets + 1 - n
      /\ oldFlows' = oldFlows
  BY DEF Enqueue
<1>2. FqTypes
  BY DEF FqInv
<1>3. /\ nPackets = SumFunction(Lengths(disc)) /\ nPackets <= Limit /\ nPackets \in Nat
      /\ ListsOK(newFlows, oldFlows, status, disc) /\ Limit \in Nat \ {0}
      /\ \A x \in Flows : disc[x].queue # << >> => x \in ToSet(classes)
  BY FqConstants DEF FqInv, FqTypes
<1>4. /\ CoDelEnqueue(disc[h], size) \in FqDisc
      /\ Len(CoDelEnqueue(disc[h], size).queue) = Len(disc[h].queue) + 1
      /\ CoDelEnqueue(disc[h], size).queue # << >>
      /\ Len(disc[h].queue) \in Nat /\ disc[h] \in FqDisc
  <2>1. disc[h] \in FqDisc
    BY <1>2 DEF FqTypes
  <2>2. Len(disc[h].queue) <= SumFunction(Lengths(disc)) /\ Len(disc[h].queue) \in Nat
    BY <1>2, <2>1, LengthsChanged DEF FqTypes
  <2>3. Len(disc[h].queue) <= Limit
    BY <1>3, <2>2
  <2> QED
    BY <2>1, <2>2, <2>3, PlacedDisc
<1>5. /\ placed \in [Flows -> FqDisc] /\ SumFunction(Lengths(placed)) = nPackets + 1
      /\ placed[h].queue # << >>
      /\ \A x \in Flows : placed[x].queue # << >> => x = h \/ disc[x].queue # << >>
  <2> DEFINE c == CoDelEnqueue(disc[h], size)
  <2>1. c \in FqDisc /\ c.queue # << >> /\ disc \in [Flows -> FqDisc]
        /\ placed = [disc EXCEPT ![h] = c] /\ Len(c.queue) = Len(disc[h].queue) + 1
    BY <1>2, <1>4 DEF FqTypes
  <2> HIDE DEF placed, c
  <2>2. SumFunction(Lengths([disc EXCEPT ![h] = c]))
          = SumFunction(Lengths(disc)) - Len(disc[h].queue) + Len(c.queue)
    BY <2>1, LengthsChanged
  <2>3. SumFunction(Lengths(placed)) = nPackets + 1
    BY <1>3, <1>4, <2>1, <2>2
  <2> QED
    BY <2>1, <2>3
<1> HIDE DEF placed
<1>6. classes' \in Seq(Flows) /\ h \in ToSet(classes') /\ ToSet(classes) \subseteq ToSet(classes')
  <2>1. CASE h \in ToSet(classes)
    BY <1>1, <1>2, <2>1 DEF FqTypes
  <2>2. CASE h \notin ToSet(classes)
    <3> DEFINE q == classes
               p == Append(classes, h)
    <3>1. /\ q \in Seq(Flows) /\ p \in Seq(Flows) /\ classes' = p /\ p[Len(q) + 1] = h
          /\ Len(q) + 1 \in DOMAIN p
          /\ \A i \in DOMAIN q : i \in DOMAIN p /\ p[i] = q[i]
      BY <1>1, <1>2, <2>2 DEF FqTypes
    <3> HIDE DEF q, p
    <3>2. h \in ToSet(p) /\ ToSet(q) \subseteq ToSet(p)
      BY <3>1 DEF ToSet
    <3> QED
      BY <3>1, <3>2 DEF q
  <2> QED
    BY <2>1, <2>2
<1>7. \A x \in Flows : placed[x].queue # << >> => x \in ToSet(classes')
  BY <1>3, <1>5, <1>6
<1>8. /\ status' \in [Flows -> FqStatuses] /\ deficit' \in [Flows -> Int]
      /\ newFlows' \in Seq(Flows) /\ oldFlows' \in Seq(Flows)
      /\ ListsOK(newFlows', oldFlows', status', placed)
  <2>1. CASE fresh
    <3> DEFINE stat == [status EXCEPT ![h] = "NEW_FLOW"]
    <3>1. status \in [Flows -> FqStatuses] /\ {"NEW_FLOW", "OLD_FLOW"} \subseteq FqStatuses
      BY <1>2 DEF FqTypes, FqStatuses
    <3>2. status[h] # "NEW_FLOW" /\ status[h] # "OLD_FLOW"
      BY <2>1
    <3>3. Listed(newFlows, "NEW_FLOW", status) /\ Listed(oldFlows, "OLD_FLOW", status)
      BY <1>3 DEF ListsOK
    <3>4. Listed(Append(newFlows, h), "NEW_FLOW", stat)
      BY <3>1, <3>2, <3>3, ListedAppend
    <3>5. Listed(oldFlows, "OLD_FLOW", stat)
      BY <3>1, <3>2, <3>3, ListedOther
    <3>6. \A x \in Flows : placed[x].queue # << >> => stat[x] # "INACTIVE"
      BY <1>3, <1>5, <3>1 DEF ListsOK
    <3> HIDE DEF stat
    <3>7. ListsOK(Append(newFlows, h), oldFlows, stat, placed)
      BY <3>4, <3>5, <3>6 DEF ListsOK
    <3>8. status' = stat /\ newFlows' = Append(newFlows, h)
      BY <1>1, <2>1 DEF stat
    <3>9. stat \in [Flows -> FqStatuses]
      BY <3>1 DEF stat
    <3>10. deficit' \in [Flows -> Int]
      BY <1>1, <1>2, <2>1, FqConstants DEF FqTypes
    <3>11. newFlows' \in Seq(Flows) /\ oldFlows' = oldFlows /\ oldFlows \in Seq(Flows)
      BY <1>1, <1>2, <3>8 DEF FqTypes
    <3>12. ListsOK(newFlows', oldFlows', status', placed)
      BY <3>7, <3>8, <3>11
    <3> QED
      BY <3>8, <3>9, <3>10, <3>11, <3>12
  <2>2. CASE ~fresh
    <3>1. status' = status /\ deficit' = deficit /\ newFlows' = newFlows
      BY <1>1, <2>2
    <3>2. ListsOK(newFlows, oldFlows, status, placed)
      BY <1>3, <1>5, <2>2 DEF ListsOK
    <3> QED
      BY <1>1, <1>2, <3>1, <3>2 DEF FqTypes
  <2> QED
    BY <2>1, <2>2
<1>9. /\ disc' \in [Flows -> FqDisc] /\ nPackets' \in Nat /\ nPackets' <= Limit
      /\ nPackets' = SumFunction(Lengths(disc'))
      /\ \A x \in Flows : disc'[x].queue # << >> => placed[x].queue # << >>
  <2>1. CASE nPackets + 1 <= Limit
    <3>1. n = 0
      BY <1>3, <2>1
    <3>2. disc' = placed /\ nPackets' = nPackets + 1
      BY <1>1, <1>3, <3>1
    <3> QED
      BY <1>3, <1>5, <2>1, <3>2
  <2>2. CASE nPackets + 1 > Limit
    <3>1. fat \in Flows /\ placed[fat].queue # << >>
      BY <1>5, <1>6, LongestHasPackets
    <3> HIDE DEF fat
    <3>2. placed[fat] \in FqDisc /\ placed[fat].queue \in Seq(FqPacket)
      BY <1>5, <3>1 DEF FqDisc
    <3>3. n \in 1 .. Len(placed[fat].queue)
      BY <2>2, <3>1, <3>2, BatchOfSome
    <3> HIDE DEF n
    <3> DEFINE c == [placed[fat] EXCEPT !.queue = SubSeq(@, n + 1, Len(@))]
    <3>4. c \in FqDisc /\ Len(c.queue) = Len(placed[fat].queue) - n
      BY <3>2, <3>3, ShortenedDisc
    <3>5. n # 0 /\ n \in Nat /\ Len(placed[fat].queue) \in Nat
      BY <3>2, <3>3
    <3>6. disc' = [placed EXCEPT ![fat] = c]
      BY <1>1, <1>5, <3>5
    <3> HIDE DEF c
    <3>7. SumFunction(Lengths([placed EXCEPT ![fat] = c]))
            = SumFunction(Lengths(placed)) - Len(placed[fat].queue) + Len(c.queue)
      BY <1>5, <3>1, <3>4, LengthsChanged
    <3>8. SumFunction(Lengths(disc')) = nPackets + 1 - n
      BY <1>3, <1>5, <3>4, <3>5, <3>6, <3>7
    <3>9. disc' \in [Flows -> FqDisc]
      BY <1>5, <3>4, <3>6
    <3>10. SumFunction(Lengths(disc')) \in Nat
      BY <3>1, <3>4, <3>9, LengthsChanged
    <3>11. \A x \in Flows : disc'[x].queue # << >> => placed[x].queue # << >>
      BY <1>5, <3>1, <3>6
    <3>12. nPackets' = nPackets + 1 - n
      BY <1>1
    <3>13. nPackets' \in Nat /\ nPackets' <= Limit /\ nPackets' = SumFunction(Lengths(disc'))
      BY <1>3, <3>3, <3>5, <3>8, <3>10, <3>12
    <3> QED
      BY <3>9, <3>11, <3>13
  <2> QED
    BY <1>3, <2>1, <2>2
<1>10. ListsOK(newFlows', oldFlows', status', disc')
  BY <1>8, <1>9 DEF ListsOK
<1>11. \A x \in Flows : disc'[x].queue # << >> => x \in ToSet(classes')
  BY <1>7, <1>9
<1>12. FqTypes'
  BY <1>6, <1>8, <1>9 DEF FqTypes
<1> QED
  BY <1>9, <1>10, <1>11, <1>12 DEF FqInv

LEMMA FqInvariance == Spec => []FqInv
<1>1. FqInv /\ [Next]_vars => FqInv'
  <2> SUFFICES ASSUME FqInv, [Next]_vars PROVE FqInv'
    OBVIOUS
  <2>1. CASE Next
    BY <2>1, EnqueueStep, DequeueStep, TickStep DEF Next
  <2>2. CASE UNCHANGED vars
    BY <2>2 DEF vars, FqInv, FqTypes
  <2> QED
    BY <2>1, <2>2
<1> QED
  BY <1>1, FqBegins, PTL DEF Spec

(* The root's count is the number of packets queued, and within the limit. *)
THEOREM FqCountsAgree == Spec => []CountsAgree
<1>1. FqInv => CountsAgree
  BY DEF FqInv, CountsAgree, Lengths
<1> QED
  BY <1>1, FqInvariance, PTL

(* Every flow is in the list its status says, once.                        *)
THEOREM FqListsMatchStatus == Spec => []ListsMatchStatus
<1>1. FqInv => ListsMatchStatus
  <2> SUFFICES ASSUME FqInv, NEW h \in Flows
               PROVE  /\ Cardinality({i \in DOMAIN newFlows : newFlows[i] = h})
                           = (IF status[h] = "NEW_FLOW" THEN 1 ELSE 0)
                      /\ Cardinality({i \in DOMAIN oldFlows : oldFlows[i] = h})
                           = (IF status[h] = "OLD_FLOW" THEN 1 ELSE 0)
                      /\ disc[h].queue # << >> => status[h] # "INACTIVE"
    BY DEF ListsMatchStatus
  <2> QED
    BY ListedOnce DEF FqInv, ListsOK
<1> QED
  BY <1>1, FqInvariance, PTL

(* A dequeue returns a packet unless the disc is empty after it.           *)
THEOREM FqWorkConserving == Spec => [][Dequeue => served' # NoFlow \/ nPackets' = 0]_vars
<1>1. FqInv /\ [Next]_vars => [Dequeue => served' # NoFlow \/ nPackets' = 0]_vars
  BY DequeueStep
<1> QED
  BY <1>1, FqInvariance, PTL DEF Spec
=============================================================================
