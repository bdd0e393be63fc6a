--------------------------- MODULE LteRlcUm_proofs ---------------------------
(***************************************************************************)
(* Theorems about an RLC entity, for every modulus, number and size of     *)
(* SDUs and size of an opportunity.  Sequence numbers are enough and       *)
(* nothing waits without a timer, whatever HARQ loses; unless it loses     *)
(* half a cycle in a row, SDUs come out whole, at most once and in order.  *)
(***************************************************************************)
EXTENDS LteRlcUm, SequenceTheorems, WellFoundedInduction, TLAPS

Numbers == 0 .. Modulus - 1
Age(p) == transmitted - p.no
Behind(sn) == Minus(sequenceNumber, sn)
(* by how much a number is below VR(UH)                                    *)
Depth(sn) == Minus(vrUh, sn)
Waiting == {rxBuffer[k] : k \in DOMAIN rxBuffer}

(* A PDU's number tells how many PDUs ago it was sent; one on the air is   *)
(* among the latest.                                                       *)
NumbersOK ==
  /\ sequenceNumber \in Numbers /\ vrUr \in Numbers /\ vrUh \in Numbers /\ vrUx \in Numbers
  /\ reordering \in NotRunning .. MaxAwait /\ transmitted \in Nat
  /\ \A k \in DOMAIN rxBuffer : k \in Numbers /\ rxBuffer[k].sn = k
  /\ \A p \in Waiting \cup air :
       /\ p.no \in Nat /\ Age(p) \in 1 .. WindowSize
       /\ p.sn = Minus(sequenceNumber, Age(p))
  /\ \A p \in air : Age(p) <= Spread
  /\ \A p, q \in Waiting \cup air : p.no = q.no => p = q

(* While the timer runs VR(UR) < VR(UH), and the PDUs of the buffer are    *)
(* between them.  Those from VR(UX) on have arrived since it was started,  *)
(* the others in the run before.                                           *)
WindowOK ==
  /\ Depth(vrUr) \in 1 .. WindowSize /\ Depth(vrUx) < Depth(vrUr)
  /\ Behind(vrUh) + Depth(vrUx) <= Spread - 1 + MaxAwait + reordering
  /\ vrUx # vrUh => Behind(vrUh) <= Spread - 1 + reordering
  /\ \A p \in Waiting :
       /\ Age(p) - Behind(vrUh) \in 1 .. Depth(vrUr)
       /\ Age(p) <= Spread + MaxAwait + reordering
       /\ Age(p) - Behind(vrUh) <= Depth(vrUx) => Age(p) <= Spread + reordering

Segments ==
  {s \in [sdu : Nat, from : Int, to : Int,
          status : {"FULL_SDU", "FIRST_SEGMENT", "MIDDLE_SEGMENT", "LAST_SEGMENT"}] :
     s.from <= s.to}
SenderInv ==
  /\ txBuffer \in Seq(Segments) /\ sdus \in Seq(Nat)
  /\ reported \in Nat /\ rbsTimer \in BOOLEAN
  /\ txBuffer # << >> => reported > 0 \/ rbsTimer
WindowInv ==
  /\ reordering = NotRunning => vrUr = vrUh /\ Waiting = {}
  /\ reordering # NotRunning => WindowOK
RlcInv == NumbersOK /\ WindowInv /\ SenderInv

----------------------------------------------------------------------------
(* Arithmetic of the sequence numbers                                      *)

LEMMA Constants ==
  /\ Modulus \in Nat /\ WindowSize \in Nat /\ WindowSize > 1 /\ Modulus = 2 * WindowSize
  /\ Spread \in Nat \ {0} /\ MaxAwait \in Nat /\ Spread + 2 * MaxAwait <= WindowSize
  BY RlcAssumption DEF WindowSize

LEMMA Remainder ==
  ASSUME NEW m \in Nat \ {0}, NEW x \in Int, -m <= x, x < 2 * m
  PROVE  x % m = IF x < 0 THEN x + m ELSE IF x < m THEN x ELSE x - m
<1>1. CASE x < 0
  BY <1>1
<1>2. CASE 0 <= x /\ x < m
  BY <1>2
<1>3. CASE m <= x
  BY <1>3
<1> QED
  BY <1>1, <1>2, <1>3

LEMMA Distance ==
  ASSUME NEW a \in Numbers, NEW b \in Numbers
  PROVE  Minus(a, b) = (IF b <= a THEN a - b ELSE a - b + Modulus) /\ Minus(a, b) \in Numbers
<1>1. Modulus \in Nat \ {0}
  BY Constants
<1>2. a - b \in Int /\ -Modulus <= a - b /\ a - b < 2 * Modulus
  BY <1>1 DEF Numbers
<1>3. (a - b) % Modulus = IF a - b < 0 THEN a - b + Modulus ELSE IF a - b < Modulus THEN a - b
                          ELSE a - b - Modulus
  BY <1>1, <1>2, Remainder
<1> QED
  BY <1>1, <1>3 DEF Numbers, Minus

LEMMA PlusIs ==
  ASSUME NEW a \in Numbers, NEW n \in Nat, a + n <= 2 * Modulus - 1
  PROVE  /\ Plus(a, n) = IF a + n < Modulus THEN a + n ELSE a + n - Modulus
         /\ Plus(a, n) \in Numbers
<1>1. Modulus \in Nat \ {0} /\ Modulus > 1
  BY Constants
<1> DEFINE x == a + n
<1>2. x \in Int /\ -Modulus <= x /\ x < 2 * Modulus /\ 0 <= x
  BY <1>1 DEF Numbers
<1> HIDE DEF x
<1>3. x % Modulus = IF x < 0 THEN x + Modulus ELSE IF x < Modulus THEN x ELSE x - Modulus
  BY <1>1, <1>2, Remainder
<1> QED
  BY <1>1, <1>2, <1>3 DEF x, Numbers, Plus

LEMMA Least ==
  ASSUME NEW S \in SUBSET Nat, S # {}
  PROVE  \E n \in S : \A m \in S : n <= m
<1>1. PICK n \in S : \A m \in S : <<m, n>> \notin OpToRel(<, Nat)
  BY NatLessThanWellFounded, WFMin
<1>2. \A m \in S : m \in Nat /\ n \in Nat
  OBVIOUS
<1>3. \A m \in S : ~(m < n)
  BY <1>1, <1>2 DEF OpToRel
<1> QED
  BY <1>2, <1>3

LEMMA UpTo ==
  ASSUME NEW T, NEW n \in Nat, 0 \in T, \A m \in 0 .. n - 1 : m \in T => m + 1 \in T
  PROVE  n \in T
<1> DEFINE Not == {m \in 0 .. n : m \notin T}
<1>1. SUFFICES ASSUME Not # {} PROVE FALSE
  OBVIOUS
<1>2. Not \in SUBSET Nat
  OBVIOUS
<1>3. PICK m \in Not : \A y \in Not : m <= y
  <2> HIDE DEF Not
  <2> QED
    BY <1>1, <1>2, Least
<1>4. m \in 0 .. n /\ m \notin T /\ m # 0
  OBVIOUS
<1>5. m - 1 \in 0 .. n - 1 /\ m - 1 + 1 = m /\ m - 1 < m
  BY <1>4
<1>6. m - 1 \notin Not
  BY <1>3, <1>4, <1>5
<1> QED
  BY <1>4, <1>5, <1>6

(* A number is a distance from the next one to be sent, and the other way  *)
(* round.                                                                  *)
LEMMA BehindOf ==
  ASSUME sequenceNumber \in Numbers, NEW n \in Numbers
  PROVE  Minus(sequenceNumber, n) \in Numbers /\ Behind(Minus(sequenceNumber, n)) = n
<1>1. /\ Minus(sequenceNumber, n) \in Numbers
      /\ Minus(sequenceNumber, n) = IF n <= sequenceNumber THEN sequenceNumber - n
                                    ELSE sequenceNumber - n + Modulus
  BY Distance
<1> DEFINE m == Minus(sequenceNumber, n)
<1>2. Minus(sequenceNumber, m) = IF m <= sequenceNumber THEN sequenceNumber - m
                                 ELSE sequenceNumber - m + Modulus
  BY <1>1, Distance
<1> HIDE DEF m
<1>3. m \in Numbers
      /\ m = IF n <= sequenceNumber THEN sequenceNumber - n ELSE sequenceNumber - n + Modulus
  BY <1>1 DEF m
<1>4. Minus(sequenceNumber, m) = n
  BY <1>2, <1>3, Constants DEF Numbers
<1> QED
  BY <1>1, <1>4 DEF m, Behind

LEMMA DepthOf ==
  ASSUME sequenceNumber \in Numbers, NEW uh \in Numbers, NEW sn \in Numbers
  PROVE  /\ Behind(uh) \in Numbers /\ Behind(sn) \in Numbers /\ Minus(uh, sn) \in Numbers
         /\ Minus(uh, sn) = IF Behind(uh) <= Behind(sn) THEN Behind(sn) - Behind(uh)
                            ELSE Behind(sn) - Behind(uh) + Modulus
         /\ sn = uh <=> Minus(uh, sn) = 0
<1>1. /\ Behind(uh) \in Numbers
      /\ Behind(uh) = IF uh <= sequenceNumber THEN sequenceNumber - uh
                      ELSE sequenceNumber - uh + Modulus
  BY Distance DEF Behind
<1>2. /\ Behind(sn) \in Numbers
      /\ Behind(sn) = IF sn <= sequenceNumber THEN sequenceNumber - sn
                      ELSE sequenceNumber - sn + Modulus
  BY Distance DEF Behind
<1>3. Minus(uh, sn) \in Numbers
      /\ Minus(uh, sn) = IF sn <= uh THEN uh - sn ELSE uh - sn + Modulus
  BY Distance
<1> QED
  BY <1>1, <1>2, <1>3, Constants DEF Numbers

(* Where a number is in the window below uh                                *)
LEMMA PlaceOf ==
  ASSUME NEW uh \in Numbers, NEW sn \in Numbers
  PROVE  /\ Minus(uh, WindowSize) \in Numbers
         /\ Minus(sn, Minus(uh, WindowSize)) =
              IF Minus(uh, sn) <= WindowSize THEN WindowSize - Minus(uh, sn)
              ELSE WindowSize + Modulus - Minus(uh, sn)
<1>1. WindowSize \in Numbers
  BY Constants DEF Numbers
<1> DEFINE base == Minus(uh, WindowSize)
<1>2. /\ base \in Numbers
      /\ base = IF WindowSize <= uh THEN uh - WindowSize ELSE uh - WindowSize + Modulus
  BY <1>1, Distance
<1> HIDE DEF base
<1>3. Minus(sn, base) = IF base <= sn THEN sn - base ELSE sn - base + Modulus
  BY <1>2, Distance
<1>4. Minus(uh, sn) = IF sn <= uh THEN uh - sn ELSE uh - sn + Modulus
  BY Distance
<1>5. Minus(sn, base) = IF Minus(uh, sn) <= WindowSize THEN WindowSize - Minus(uh, sn)
                        ELSE WindowSize + Modulus - Minus(uh, sn)
  BY <1>2, <1>3, <1>4, Constants DEF Numbers
<1> QED
  BY <1>2, <1>5 DEF base

LEMMA InsideIs ==
  ASSUME NEW uh \in Numbers, NEW sn \in Numbers
  PROVE  IsInsideReorderingWindow(sn, uh) <=> Minus(uh, sn) \in 1 .. WindowSize
<1>1. Minus(uh, sn) \in Numbers
  BY Distance
<1> QED
  BY <1>1, PlaceOf, Constants DEF IsInsideReorderingWindow, Numbers

LEMMA LessIs ==
  ASSUME NEW uh \in Numbers, NEW a \in Numbers, NEW b \in Numbers,
         Minus(uh, a) <= WindowSize, Minus(uh, b) <= WindowSize
  PROVE  Less(a, b, Minus(uh, WindowSize)) <=> Minus(uh, b) < Minus(uh, a)
<1>1. Minus(uh, a) \in Numbers /\ Minus(uh, b) \in Numbers
  BY Distance
<1> QED
  BY <1>1, PlaceOf, Constants DEF Less, Numbers

LEMMA GapIs ==
  ASSUME NEW uh \in Numbers, NEW ur \in Numbers, Minus(uh, ur) <= WindowSize
  PROVE  Gap(ur, uh) <=> Minus(uh, ur) # 0
<1>1. Minus(uh, ur) \in Numbers /\ Minus(uh, uh) = 0
  BY Distance, Constants DEF Numbers
<1> QED
  BY <1>1, LessIs, Constants DEF Gap, Numbers

----------------------------------------------------------------------------
(* Neither search for a missing PDU goes past VR(UH).                      *)

LEMMA NextMissingIs ==
  ASSUME NEW uh \in Numbers, NEW low \in Numbers, NEW buffer, DOMAIN buffer \subseteq Numbers,
         uh \notin DOMAIN buffer, Minus(uh, low) # 0
  PROVE  /\ NextMissing(buffer, low) \in Numbers
         /\ Minus(uh, NextMissing(buffer, low)) <= Minus(uh, low)
<1> DEFINE Stops(n) == n \notin DOMAIN buffer /\ \A k \in low + 1 .. n - 1 : k \in DOMAIN buffer
           found == CHOOSE n \in low + 1 .. Modulus : Stops(n)
           S == {n \in low + 1 .. Modulus : n \notin DOMAIN buffer}
<1>1. Modulus \in Nat /\ Modulus > 1 /\ low \in 0 .. Modulus - 1 /\ uh \in 0 .. Modulus - 1
  BY Constants DEF Numbers
<1>2. \E n \in low + 1 .. Modulus : Stops(n)
  <2>1. Modulus \in S
    BY <1>1 DEF Numbers
  <2>2. S \in SUBSET Nat
    BY <1>1
  <2>3. PICK n \in S : \A m \in S : n <= m
    BY <2>1, <2>2, Least
  <2>4. ASSUME NEW k \in low + 1 .. n - 1 PROVE k \in DOMAIN buffer
    <3>1. k \in low + 1 .. Modulus /\ ~(n <= k)
      BY <1>1
    <3> QED
      BY <2>3, <3>1
  <2> QED
    BY <2>4
<1>3. found \in low + 1 .. Modulus /\ Stops(found)
  BY <1>2
<1>4. NextMissing(buffer, low) = Plus(found, 0)
  BY DEF NextMissing
<1> HIDE DEF found
<1>5. low < uh => found <= uh
  BY <1>1, <1>3
<1>6. Plus(found, 0) = IF found = Modulus THEN 0 ELSE found
  <2>1. CASE found = Modulus
    BY <1>1, <2>1 DEF Plus
  <2>2. CASE found # Modulus
    <3>1. found \in Numbers
      BY <1>1, <1>3, <2>2 DEF Numbers
    <3> QED
      BY <1>1, <2>2, <3>1, PlusIs DEF Numbers
  <2> QED
    BY <2>1, <2>2
<1>7. Plus(found, 0) \in Numbers
  BY <1>1, <1>3, <1>6 DEF Numbers
<1>8. /\ Minus(uh, low) = IF low <= uh THEN uh - low ELSE uh - low + Modulus
      /\ Minus(uh, Plus(found, 0)) =
           IF Plus(found, 0) <= uh THEN uh - Plus(found, 0) ELSE uh - Plus(found, 0) + Modulus
  BY <1>7, Distance
<1>9. Minus(uh, Plus(found, 0)) <= Minus(uh, low)
  BY <1>1, <1>3, <1>5, <1>6, <1>8
<1> QED
  BY <1>4, <1>7, <1>9

LEMMA FirstMissingIs ==
  ASSUME NEW uh \in Numbers, NEW sn \in Numbers, uh \notin DOMAIN rxBuffer
  PROVE  FirstMissing(sn) \in Numbers /\ Minus(uh, FirstMissing(sn)) <= Minus(uh, sn)
<1> DEFINE Stops(m) == /\ Plus(sn, m) \notin DOMAIN rxBuffer
                      /\ \A k \in 0 .. m - 1 : Plus(sn, k) \in DOMAIN rxBuffer
           found == CHOOSE m \in 0 .. Modulus : Stops(m)
           S == {m \in 0 .. Modulus : Plus(sn, m) \notin DOMAIN rxBuffer}
           d == Minus(uh, sn)
<1>1. Modulus \in Nat /\ Modulus > 1 /\ sn \in 0 .. Modulus - 1 /\ uh \in 0 .. Modulus - 1
  BY Constants DEF Numbers
<1>2. d \in 0 .. Modulus - 1 /\ d = IF sn <= uh THEN uh - sn ELSE uh - sn + Modulus
  BY Distance DEF Numbers
<1> HIDE DEF d
<1>3. Plus(sn, d) = uh
  <2>1. d \in Nat /\ sn + d <= 2 * Modulus - 1
    BY <1>1, <1>2
  <2>2. Plus(sn, d) = IF sn + d < Modulus THEN sn + d ELSE sn + d - Modulus
    BY <2>1, PlusIs
  <2> QED
    BY <1>1, <1>2, <2>2
<1>4. \E m \in 0 .. Modulus : Stops(m)
  <2>1. d \in S
    BY <1>1, <1>2, <1>3
  <2>2. S \in SUBSET Nat
    BY <1>1
  <2>3. PICK m \in S : \A k \in S : m <= k
    BY <2>1, <2>2, Least
  <2>4. ASSUME NEW k \in 0 .. m - 1 PROVE Plus(sn, k) \in DOMAIN rxBuffer
    <3>1. k \in 0 .. Modulus /\ ~(m <= k)
      BY <1>1
    <3> QED
      BY <2>3, <3>1
  <2> QED
    BY <2>4
<1>5. found \in 0 .. Modulus /\ Stops(found)
  BY <1>4
<1>6. FirstMissing(sn) = Plus(sn, found)
  BY DEF FirstMissing
<1> HIDE DEF found
<1>7. found <= d
  BY <1>1, <1>2, <1>3, <1>5
<1>8. /\ Plus(sn, found) = IF sn + found < Modulus THEN sn + found ELSE sn + found - Modulus
      /\ Plus(sn, found) \in Numbers
  <2>1. found \in Nat /\ sn + found <= 2 * Modulus - 1
    BY <1>1, <1>2, <1>5, <1>7
  <2> QED
    BY <2>1, PlusIs
<1>9. Minus(uh, Plus(sn, found)) =
        IF Plus(sn, found) <= uh THEN uh - Plus(sn, found) ELSE uh - Plus(sn, found) + Modulus
  BY <1>8, Distance
<1>10. Minus(uh, Plus(sn, found)) <= d
  BY <1>1, <1>2, <1>5, <1>7, <1>8, <1>9
<1> QED
  BY <1>6, <1>8, <1>10 DEF d

----------------------------------------------------------------------------
(* The window after a PDU has arrived or the timer expired: the buffer     *)
(* with what is new, and the numbers uh, the new VR(UH), and low, where    *)
(* the search for a missing PDU begins.                                    *)
Ready(uh, low, buffer) ==
  /\ uh \in Numbers /\ low \in Numbers /\ Minus(uh, low) \in 1 .. WindowSize
  /\ DOMAIN buffer \subseteq Numbers
  /\ \A k \in DOMAIN buffer :
       /\ Age(buffer[k]) \in Int
       /\ Age(buffer[k]) - Behind(uh) = Minus(uh, k) /\ Minus(uh, k) \in 1 .. Minus(uh, low)
  /\ reordering # NotRunning =>
       /\ Behind(uh) + Minus(uh, vrUx) <= Spread - 1 + MaxAwait + reordering
       /\ vrUx # uh => Behind(uh) <= Spread - 1 + reordering
       /\ \A k \in DOMAIN buffer :
            /\ Age(buffer[k]) <= Spread + MaxAwait + reordering
            /\ Minus(uh, k) <= Minus(uh, vrUx) => Age(buffer[k]) <= Spread + reordering
  /\ reordering = NotRunning =>
       Behind(uh) <= Spread - 1 /\ \A k \in DOMAIN buffer : Age(buffer[k]) <= Spread

(* Up to high everything is taken out of the buffer; the timer goes on     *)
(* only if it waits for something beyond.                                  *)
Moves(uh, high, buffer, complete) ==
  LET runs == reordering # NotRunning /\ Minus(uh, vrUx) < Minus(uh, high)
      starts == ~runs /\ Minus(uh, high) # 0
  IN /\ rxBuffer' = [k \in DOMAIN buffer \ complete |-> buffer[k]]
     /\ vrUh' = uh /\ vrUr' = high
     /\ vrUx' = IF starts THEN uh ELSE vrUx
     /\ reordering' = IF starts THEN 0 ELSE IF runs THEN reordering ELSE NotRunning

LEMMA MovedWindow ==
  ASSUME sequenceNumber \in Numbers, vrUx \in Numbers, reordering \in NotRunning .. MaxAwait,
         NEW uh, NEW low, NEW high \in Numbers, NEW buffer, NEW complete,
         Ready(uh, low, buffer), Minus(uh, high) <= Minus(uh, low),
         \A k \in DOMAIN buffer \ complete : Minus(uh, k) <= Minus(uh, high),
         Moves(uh, high, buffer, complete),
         UNCHANGED <<sequenceNumber, transmitted>>
  PROVE  /\ vrUr' \in Numbers /\ vrUh' \in Numbers /\ vrUx' \in Numbers
         /\ reordering' \in NotRunning .. MaxAwait
         /\ reordering' = NotRunning => vrUr' = vrUh' /\ Waiting' = {}
         /\ reordering' # NotRunning => WindowOK'
<1> DEFINE h == Behind(uh)
           x == Minus(uh, vrUx)
           d == Minus(uh, high)
           left == DOMAIN buffer \ complete
<1>1. /\ uh \in Numbers /\ low \in Numbers /\ Minus(uh, low) \in 1 .. WindowSize
      /\ DOMAIN buffer \subseteq Numbers
  BY DEF Ready
<1>2. /\ h \in Numbers /\ x \in Numbers /\ d \in Numbers /\ Minus(uh, uh) = 0
      /\ vrUx = uh <=> x = 0
      /\ high = uh <=> d = 0
      /\ d <= WindowSize
  <2>1. h \in Numbers /\ x \in Numbers /\ (vrUx = uh <=> x = 0)
    BY <1>1, DepthOf
  <2>2. d \in Numbers /\ (high = uh <=> d = 0)
    BY <1>1, DepthOf
  <2>3. Minus(uh, uh) = 0
    BY <1>1, DepthOf
  <2>4. d <= WindowSize
    BY <1>1, <2>2, Constants DEF Numbers
  <2> QED
    BY <2>1, <2>2, <2>3, <2>4
<1>3. rxBuffer' = [k \in left |-> buffer[k]] /\ vrUh' = uh /\ vrUr' = high
  BY DEF Moves
<1>4. \A p : p \in Waiting' <=> \E k \in left : p = buffer[k]
  BY <1>3 DEF Waiting
<1>5. /\ Depth(vrUr)' = d /\ Behind(vrUh)' = h
      /\ \A p : Age(p)' = Age(p)
  BY <1>3 DEF Depth, Behind, Minus, Age
<1>6. \A k \in left : /\ Age(buffer[k]) \in Int /\ Age(buffer[k]) - h \in 1 .. d
                      /\ Age(buffer[k]) - h = Minus(uh, k)
  BY <1>1, <1>2 DEF Ready
<1>7. CASE reordering # NotRunning /\ x < d
  <2>1. vrUx' = vrUx /\ reordering' = reordering
    BY <1>7 DEF Moves
  <2>2. Depth(vrUx)' = x
    BY <1>3, <2>1 DEF Depth, Minus
  <2>3. /\ h + x <= Spread - 1 + MaxAwait + reordering
        /\ vrUx # uh => h <= Spread - 1 + reordering
        /\ \A k \in left : /\ Age(buffer[k]) <= Spread + MaxAwait + reordering
                           /\ Age(buffer[k]) - h <= x => Age(buffer[k]) <= Spread + reordering
    BY <1>6, <1>7 DEF Ready
  <2>4. d \in 1 .. WindowSize
    BY <1>2, <1>7 DEF Numbers
  <2> HIDE DEF h, x, d, left
  <2>5. WindowOK'
    BY <1>3, <1>4, <1>5, <1>6, <1>7, <2>1, <2>2, <2>3, <2>4 DEF WindowOK
  <2> QED
    BY <1>1, <1>3, <1>7, <2>1, <2>5
<1>8. CASE ~(reordering # NotRunning /\ x < d) /\ d # 0
  <2>1. vrUx' = uh /\ reordering' = 0
    BY <1>8 DEF Moves
  <2>2. Depth(vrUx)' = 0
    BY <1>2, <1>3, <2>1 DEF Depth, Minus
  <2>3. h <= Spread - 1 + MaxAwait
    BY <1>2, <1>8, Constants DEF Ready, Numbers, NotRunning
  <2>4. \A k \in left : Age(buffer[k]) <= Spread + MaxAwait
    <3> SUFFICES ASSUME NEW k \in left PROVE Age(buffer[k]) <= Spread + MaxAwait
      OBVIOUS
    <3>1. Minus(uh, k) <= d /\ k \in DOMAIN buffer /\ Age(buffer[k]) \in Int
      BY <1>6
    <3>2. CASE reordering = NotRunning
      BY <3>1, <3>2, Constants DEF Ready
    <3>3. CASE reordering # NotRunning
      <4>1. Minus(uh, k) <= x
        <5>1. k \in Numbers
          BY <1>1, <3>1
        <5>2. Minus(uh, k) \in Numbers
          BY <1>1, <5>1, Distance
        <5>3. x \in Int /\ d \in Int /\ Minus(uh, k) \in Int /\ ~(x < d)
          BY <1>2, <1>8, <3>3, <5>2 DEF Numbers
        <5> QED
          BY <3>1, <5>3
      <4>2. Age(buffer[k]) <= Spread + reordering
        BY <3>1, <3>3, <4>1 DEF Ready
      <4> QED
        BY <3>1, <4>2, Constants DEF NotRunning
    <3> QED
      BY <3>2, <3>3
  <2>5. d \in 1 .. WindowSize
    BY <1>2, <1>8 DEF Numbers
  <2> HIDE DEF h, x, d, left
  <2>6. \A k \in left : ~(Age(buffer[k]) - h <= 0)
    BY <1>6
  <2>7. WindowOK'
    BY <1>2, <1>3, <1>4, <1>5, <1>6, <2>1, <2>2, <2>3, <2>4, <2>5, <2>6, Constants DEF WindowOK
  <2> QED
    BY <1>1, <1>3, <2>1, <2>7, Constants DEF NotRunning
<1>9. CASE ~(reordering # NotRunning /\ x < d) /\ d = 0
  <2>1. vrUx' = vrUx /\ reordering' = NotRunning
    BY <1>9 DEF Moves
  <2>2. left = {}
    BY <1>6, <1>9
  <2>3. Waiting' = {}
    BY <1>4, <2>2
  <2> QED
    BY <1>1, <1>2, <1>3, <1>9, <2>1, <2>3, Constants DEF NotRunning
<1> QED
  BY <1>7, <1>8, <1>9

----------------------------------------------------------------------------
(* A PDU arrives                                                           *)

Placed(p) == [k \in DOMAIN rxBuffer \cup {p.sn} |-> IF k = p.sn THEN p ELSE rxBuffer[k]]
HighOf(buffer, low) == IF low \in DOMAIN buffer THEN NextMissing(buffer, low) ELSE low

(* What reassembling the first k numbers gives                             *)
Turns(r, keys, first, buffer, n, g) ==
  g = [k \in 0 .. n |->
         IF k = 0 THEN r
         ELSE LET sn == Plus(first, k - 1)
              IN IF sn \in keys THEN ReassembleAndDeliver(g[k - 1], buffer[sn]) ELSE g[k - 1]]

LEMMA TurnsExist ==
  ASSUME NEW r, NEW keys, NEW first, NEW buffer, NEW n \in Nat
  PROVE  \E g : Turns(r, keys, first, buffer, n, g)
<1> DEFINE N == {m \in Nat : \E g : Turns(r, keys, first, buffer, m, g)}
           Turn(g, k) == IF k = 0 THEN r
                         ELSE LET sn == Plus(first, k - 1)
                              IN IF sn \in keys THEN ReassembleAndDeliver(g[k - 1], buffer[sn])
                                 ELSE g[k - 1]
<1>1. 0 \in N
  <2> DEFINE g == [k \in 0 .. 0 |-> r]
  <2>1. \A k \in 0 .. 0 : k = 0
    OBVIOUS
  <2>2. g = [k \in 0 .. 0 |-> Turn(g, k)]
    BY <2>1
  <2> QED
    BY <2>2 DEF Turns
<1>2. ASSUME NEW m \in Nat, m \in N PROVE m + 1 \in N
  <2>1. PICK g : Turns(r, keys, first, buffer, m, g)
    BY <1>2
  <2>2. g = [k \in 0 .. m |-> Turn(g, k)]
    BY <2>1 DEF Turns
  <2> DEFINE h == [k \in 0 .. m + 1 |-> Turn(g, k)]
  <2>3. \A k \in 0 .. m : k \in 0 .. m + 1
    OBVIOUS
  <2>4. \A k \in 0 .. m : h[k] = g[k]
    <3> HIDE DEF Turn
    <3> QED
      BY <2>2, <2>3
  <2>5. \A k \in 0 .. m + 1 : k # 0 => k - 1 \in 0 .. m
    OBVIOUS
  <2>6. \A k \in 0 .. m + 1 : Turn(h, k) = Turn(g, k)
    <3> HIDE DEF h
    <3> QED
      BY <2>4, <2>5
  <2>7. h = [k \in 0 .. m + 1 |-> Turn(h, k)]
    <3> HIDE DEF Turn
    <3> QED
      BY <2>6
  <2> HIDE DEF h
  <2> QED
    BY <2>7 DEF Turns
<1> HIDE DEF N
<1>3. n \in N
  BY <1>1, <1>2, UpTo
<1> QED
  BY <1>3 DEF N

(* Reassembled is what the last turn gives.                                *)
LEMMA LastTurn ==
  ASSUME NEW r, NEW keys, NEW first, NEW buffer
  PROVE  \E g : Turns(r, keys, first, buffer, Modulus, g) /\ Reassembled(r, keys, first, buffer) = g[Modulus]
<1> DEFINE upTo == CHOOSE g : Turns(r, keys, first, buffer, Modulus, g)
<1>1. Reassembled(r, keys, first, buffer) = upTo[Modulus]
  BY DEF Reassembled, Turns
<1>2. Turns(r, keys, first, buffer, Modulus, upTo)
  BY TurnsExist, Constants
<1> HIDE DEF upTo
<1> QED
  BY <1>1, <1>2

LEMMA NoneReassembled ==
  ASSUME NEW r, NEW first, NEW buffer
  PROVE  Reassembled(r, {}, first, buffer) = r
<1>1. PICK g : Turns(r, {}, first, buffer, Modulus, g) /\ Reassembled(r, {}, first, buffer) = g[Modulus]
  BY LastTurn
<1>2. \A k \in 0 .. Modulus : g[k] = IF k = 0 THEN r ELSE g[k - 1]
  BY <1>1 DEF Turns
<1> DEFINE T == {k \in 0 .. Modulus : g[k] = r}
<1>3. 0 \in T
  BY <1>2, Constants
<1>4. ASSUME NEW m \in 0 .. Modulus - 1, m \in T PROVE m + 1 \in T
  <2>1. m + 1 \in 0 .. Modulus /\ m + 1 # 0 /\ m + 1 - 1 = m
    BY Constants
  <2> QED
    BY <1>2, <1>4, <2>1
<1>5. Modulus \in T
  <2> HIDE DEF T
  <2> QED
    BY <1>3, <1>4, UpTo, Constants
<1> QED
  BY <1>1, <1>5

(* What a step does to the window comes down to MovedWindow; what is taken *)
(* out of the buffer is reassembled, from low on, which is not before      *)
(* VR(UR).                                                                 *)
Below(uh, high, buffer) == {k \in DOMAIN buffer : Minus(uh, high) < Minus(uh, k)}
MovedTo(uh, low, high, buffer) ==
  /\ Ready(uh, low, buffer) /\ Minus(uh, high) <= Minus(uh, low)
  /\ Behind(uh) + Minus(uh, low) <= Behind(vrUh) + Depth(vrUr)
  /\ Moves(uh, high, buffer, Below(uh, high, buffer))
  /\ reassembly' = Reassembled(reassembly, Below(uh, high, buffer), low, buffer)
Moved(buffer) == \E uh, low, high \in Numbers : MovedTo(uh, low, high, buffer)

LEMMA HighIs ==
  ASSUME NEW uh \in Numbers, NEW low \in Numbers, NEW buffer, DOMAIN buffer \subseteq Numbers,
         uh \notin DOMAIN buffer, Minus(uh, low) # 0
  PROVE  HighOf(buffer, low) \in Numbers /\ Minus(uh, HighOf(buffer, low)) <= Minus(uh, low)
<1>1. Minus(uh, low) \in Int
  BY Distance DEF Numbers
<1> QED
  BY <1>1, NextMissingIs DEF HighOf

LEMMA PduIs ==
  ASSUME NumbersOK, NEW p \in Waiting \cup air
  PROVE  /\ Age(p) \in 1 .. WindowSize /\ Age(p) \in Int
         /\ p.sn \in Numbers /\ Behind(p.sn) = Age(p)
<1>1. Age(p) \in 1 .. WindowSize /\ p.sn = Minus(sequenceNumber, Age(p))
      /\ sequenceNumber \in Numbers
  BY DEF NumbersOK
<1>2. Age(p) \in Numbers
  BY <1>1, Constants DEF Numbers
<1> QED
  BY <1>1, <1>2, BehindOf, Constants

LEMMA PlacedIs ==
  ASSUME NumbersOK, NEW p \in air
  PROVE  /\ DOMAIN Placed(p) \subseteq Numbers
         /\ \A k \in DOMAIN Placed(p) :
              /\ Age(Placed(p)[k]) \in 1 .. WindowSize /\ Behind(k) = Age(Placed(p)[k])
              /\ Placed(p)[k] = p \/ Placed(p)[k] \in Waiting
<1>1. p.sn \in Numbers /\ Age(p) \in 1 .. WindowSize /\ Behind(p.sn) = Age(p)
  BY PduIs
<1>2. ASSUME NEW k \in DOMAIN rxBuffer
      PROVE  /\ k \in Numbers /\ Age(rxBuffer[k]) \in 1 .. WindowSize
             /\ Behind(k) = Age(rxBuffer[k]) /\ rxBuffer[k] \in Waiting
  <2>1. rxBuffer[k] \in Waiting /\ rxBuffer[k].sn = k
    BY DEF Waiting, NumbersOK
  <2> QED
    BY <2>1, PduIs
<1>3. DOMAIN Placed(p) = DOMAIN rxBuffer \cup {p.sn}
      /\ \A k \in DOMAIN Placed(p) : Placed(p)[k] = IF k = p.sn THEN p ELSE rxBuffer[k]
  BY DEF Placed
<1> QED
  BY <1>1, <1>2, <1>3

(* The test for the timer, and the test to start it again                  *)
LEMMA TimerTests ==
  ASSUME NEW uh \in Numbers, NEW high \in Numbers, vrUx \in Numbers,
         Minus(uh, high) <= WindowSize, reordering # NotRunning => Minus(uh, vrUx) <= WindowSize
  PROVE  /\ (/\ reordering # NotRunning
             /\ Less(high, vrUx, Minus(uh, WindowSize))
             /\ IsInsideReorderingWindow(vrUx, uh) \/ vrUx = uh)
            <=> reordering # NotRunning /\ Minus(uh, vrUx) < Minus(uh, high)
         /\ Gap(high, uh) <=> Minus(uh, high) # 0
<1>1. Minus(uh, vrUx) \in Numbers /\ Minus(uh, high) \in Numbers
  BY Distance
<1>2. Gap(high, uh) <=> Minus(uh, high) # 0
  BY GapIs
<1>3. reordering # NotRunning =>
        /\ Less(high, vrUx, Minus(uh, WindowSize)) <=> Minus(uh, vrUx) < Minus(uh, high)
        /\ IsInsideReorderingWindow(vrUx, uh) \/ vrUx = uh
  <2> SUFFICES ASSUME reordering # NotRunning
               PROVE  /\ Less(high, vrUx, Minus(uh, WindowSize)) <=> Minus(uh, vrUx) < Minus(uh, high)
                      /\ IsInsideReorderingWindow(vrUx, uh) \/ vrUx = uh
    OBVIOUS
  <2>1. Less(high, vrUx, Minus(uh, WindowSize)) <=> Minus(uh, vrUx) < Minus(uh, high)
    BY LessIs
  <2>2. Minus(uh, vrUx) = 0 => vrUx = uh
    <3>1. Minus(uh, vrUx) = IF vrUx <= uh THEN uh - vrUx ELSE uh - vrUx + Modulus
      BY Distance
    <3> QED
      BY <3>1, Constants DEF Numbers
  <2>3. IsInsideReorderingWindow(vrUx, uh) <=> Minus(uh, vrUx) \in 1 .. WindowSize
    BY InsideIs
  <2> QED
    BY <1>1, <2>1, <2>2, <2>3, Constants DEF Numbers
<1> QED
  BY <1>2, <1>3

(* Inside the window: only while the timer runs, or the PDU is discarded.  *)
LEMMA InsideMoves ==
  ASSUME NumbersOK, reordering = NotRunning => vrUr = vrUh /\ Waiting = {},
         reordering # NotRunning => WindowOK, NEW p \in air, DoReceivePdu(p),
         ~Discarded(p, Minus(vrUh, WindowSize)), IsInsideReorderingWindow(p.sn, vrUh)
  PROVE  Moved(Placed(p))
<1> DEFINE base == Minus(vrUh, WindowSize)
           buffer == Placed(p)
           high == HighOf(buffer, vrUr)
           complete == SnInterval(buffer, vrUr, high, base)
           h == Behind(vrUh)
<1>1. /\ sequenceNumber \in Numbers /\ vrUr \in Numbers /\ vrUh \in Numbers /\ vrUx \in Numbers
      /\ reordering \in NotRunning .. MaxAwait
  BY DEF NumbersOK
<1>2. p.sn \in Numbers /\ Age(p) \in 1 .. Spread /\ Behind(p.sn) = Age(p) /\ p \in air
  BY PduIs DEF NumbersOK
<1>3. Depth(p.sn) \in 1 .. WindowSize
  BY <1>1, <1>2, InsideIs DEF Depth
<1>4. ~Less(p.sn, vrUr, base)
  BY DEF Discarded
<1>5. reordering # NotRunning
  <2> SUFFICES ASSUME reordering = NotRunning PROVE FALSE
    OBVIOUS
  <2>1. Minus(vrUh, vrUr) = 0
    BY <1>1, DepthOf
  <2>2. Less(p.sn, vrUr, base)
    BY <1>1, <1>2, <1>3, <2>1, LessIs, Constants DEF Depth
  <2> QED
    BY <1>4, <2>2
<1>6. WindowOK /\ Depth(vrUr) \in 1 .. WindowSize /\ Depth(vrUx) < Depth(vrUr)
  BY <1>5 DEF WindowOK
<1>7. Depth(p.sn) <= Depth(vrUr)
  <2>1. Depth(p.sn) \in Int /\ Depth(vrUr) \in Int
    BY <1>3, <1>6
  <2>2. Less(p.sn, vrUr, base) <=> Depth(vrUr) < Depth(p.sn)
    BY <1>1, <1>2, <1>3, <1>6, LessIs DEF Depth
  <2> QED
    BY <1>4, <2>1, <2>2
<1>8. /\ h \in Numbers /\ Depth(vrUx) \in Numbers
      /\ h + Depth(vrUx) <= Spread - 1 + MaxAwait + reordering
  BY <1>1, <1>6, DepthOf DEF WindowOK, Depth
<1>9. h <= WindowSize - 1
  BY <1>1, <1>8, Constants DEF Numbers
<1>10. Depth(p.sn) = Age(p) - h
  <2>1. Depth(p.sn) = IF h <= Age(p) THEN Age(p) - h ELSE Age(p) - h + Modulus
    BY <1>1, <1>2, DepthOf DEF Depth
  <2> QED
    BY <1>2, <1>3, <1>8, <1>9, <2>1, Constants DEF Numbers
<1>11. DOMAIN buffer \subseteq Numbers
       /\ \A k \in DOMAIN buffer : /\ Age(buffer[k]) \in Int
                                   /\ Age(buffer[k]) - h = Depth(k) /\ Depth(k) \in 1 .. Depth(vrUr)
                                   /\ buffer[k] = p \/ buffer[k] \in Waiting
  <2> SUFFICES ASSUME NEW k \in DOMAIN buffer
               PROVE  /\ Age(buffer[k]) \in Int
                      /\ Age(buffer[k]) - h = Depth(k) /\ Depth(k) \in 1 .. Depth(vrUr)
                      /\ buffer[k] = p \/ buffer[k] \in Waiting
    BY PlacedIs
  <2>1. /\ k \in Numbers /\ Age(buffer[k]) \in 1 .. WindowSize /\ Behind(k) = Age(buffer[k])
        /\ buffer[k] = p \/ buffer[k] \in Waiting
    BY PlacedIs
  <2>2. Depth(k) = IF h <= Behind(k) THEN Behind(k) - h ELSE Behind(k) - h + Modulus
    BY <1>1, <2>1, DepthOf DEF Depth
  <2>3. CASE buffer[k] = p
    <3>1. Age(buffer[k]) - h = Depth(k)
      BY <1>2, <1>3, <1>8, <1>10, <2>1, <2>2, <2>3 DEF Numbers
    <3> QED
      BY <1>3, <1>6, <1>7, <1>10, <2>1, <2>3, <3>1
  <2>4. CASE buffer[k] \in Waiting
    <3>1. Age(buffer[k]) - h \in 1 .. Depth(vrUr)
      BY <1>6, <2>4 DEF WindowOK
    <3> QED
      BY <1>8, <2>1, <2>2, <2>4, <3>1 DEF Numbers
  <2> QED
    BY <2>1, <2>3, <2>4
<1>12. Ready(vrUh, vrUr, buffer)
  <2>1. \A k \in DOMAIN buffer :
          /\ Age(buffer[k]) <= Spread + MaxAwait + reordering
          /\ Depth(k) <= Depth(vrUx) => Age(buffer[k]) <= Spread + reordering
    <3> SUFFICES ASSUME NEW k \in DOMAIN buffer
                 PROVE  /\ Age(buffer[k]) <= Spread + MaxAwait + reordering
                        /\ Depth(k) <= Depth(vrUx) => Age(buffer[k]) <= Spread + reordering
      OBVIOUS
    <3>1. CASE buffer[k] = p
      BY <1>1, <1>2, <1>5, <3>1, Constants DEF NotRunning
    <3>2. CASE buffer[k] \in Waiting
      BY <1>6, <1>11, <3>2 DEF WindowOK
    <3> QED
      BY <1>11, <3>1, <3>2
  <2>2. /\ h + Depth(vrUx) <= Spread - 1 + MaxAwait + reordering
        /\ vrUx # vrUh => h <= Spread - 1 + reordering
    BY <1>6 DEF WindowOK
  <2> HIDE DEF buffer
  <2> QED
    BY <1>1, <1>5, <1>6, <1>11, <2>1, <2>2 DEF Ready, Depth
<1>13. high \in Numbers /\ Minus(vrUh, high) <= Minus(vrUh, vrUr)
  <2>1. vrUh \notin DOMAIN buffer
    <3>1. Depth(vrUh) = 0
      BY <1>1, DepthOf DEF Depth
    <3> QED
      BY <1>11, <3>1
  <2> QED
    BY <1>1, <1>6, <1>11, <2>1, HighIs DEF Depth
<1>14. ASSUME NEW k \in DOMAIN buffer PROVE k \in complete <=> Minus(vrUh, high) < Minus(vrUh, k)
  <2>1. /\ k \in Numbers /\ Minus(vrUh, k) \in 1 .. Minus(vrUh, vrUr)
        /\ Minus(vrUh, vrUr) \in 1 .. WindowSize /\ Minus(vrUh, high) \in Numbers
    BY <1>1, <1>6, <1>11, <1>13, Distance DEF Depth
  <2>2. Less(k, vrUr, base) <=> Minus(vrUh, vrUr) < Minus(vrUh, k)
    BY <1>1, <2>1, LessIs, Constants
  <2>3. Less(k, high, base) <=> Minus(vrUh, high) < Minus(vrUh, k)
    BY <1>1, <1>13, <2>1, LessIs, Constants DEF Numbers
  <2>4. k \in complete <=> ~Less(k, vrUr, base) /\ Less(k, high, base)
    BY DEF SnInterval
  <2> HIDE DEF complete, high, buffer
  <2> QED
    BY <2>1, <2>2, <2>3, <2>4 DEF Numbers
<1>15. Moves(vrUh, high, buffer, complete)
  <2>1. Minus(vrUh, high) <= WindowSize /\ Minus(vrUh, vrUx) <= WindowSize
    <3>1. Minus(vrUh, high) \in Numbers
      BY <1>1, <1>13, Distance
    <3>2. Minus(vrUh, high) <= Depth(vrUr)
      BY <1>13 DEF Depth
    <3>3. Minus(vrUh, vrUx) = Depth(vrUx)
      BY DEF Depth
    <3> HIDE DEF high, buffer, complete
    <3> QED
      BY <1>6, <1>8, <3>1, <3>2, <3>3, Constants DEF Numbers
  <2>2. /\ (/\ reordering # NotRunning
            /\ Less(high, vrUx, base)
            /\ IsInsideReorderingWindow(vrUx, vrUh) \/ vrUx = vrUh)
           <=> reordering # NotRunning /\ Minus(vrUh, vrUx) < Minus(vrUh, high)
        /\ Gap(high, vrUh) <=> Minus(vrUh, high) # 0
    BY <1>1, <1>13, <2>1, TimerTests
  <2>3. DOMAIN buffer \ {} = DOMAIN buffer /\ buffer = [k \in DOMAIN buffer |-> buffer[k]]
    BY DEF Placed
  <2>4. LET runs == /\ reordering # NotRunning
                    /\ Less(high, vrUx, base)
                    /\ IsInsideReorderingWindow(vrUx, vrUh) \/ vrUx = vrUh
            starts == ~runs /\ Gap(high, vrUh)
        IN /\ rxBuffer' = [k \in DOMAIN buffer \ complete |-> buffer[k]]
           /\ vrUh' = vrUh /\ vrUr' = high
           /\ vrUx' = IF starts THEN vrUh ELSE vrUx
           /\ reordering' = IF starts THEN 0 ELSE IF runs THEN reordering ELSE NotRunning
    BY <2>3 DEF DoReceivePdu, HighOf, Placed
  <2> HIDE DEF high, buffer, complete, base
  <2> QED
    BY <2>2, <2>4 DEF Moves
<1>16. reassembly' = Reassembled(reassembly, complete, vrUr, buffer)
  <2>1. DOMAIN buffer \ {} = DOMAIN buffer /\ buffer = [k \in DOMAIN buffer |-> buffer[k]]
    BY DEF Placed
  <2>2. reassembly' = Reassembled(Reassembled(reassembly, {}, 0, buffer), complete, vrUr, buffer)
    BY <2>1 DEF DoReceivePdu, HighOf, Placed
  <2> HIDE DEF complete, buffer
  <2> QED
    BY <2>2, NoneReassembled
<1>17. complete = Below(vrUh, high, buffer)
  <2>1. complete \subseteq DOMAIN buffer
    BY DEF SnInterval
  <2> HIDE DEF high, buffer, complete
  <2> QED
    BY <1>14, <2>1 DEF Below
<1>18. Behind(vrUh) + Minus(vrUh, vrUr) <= Behind(vrUh) + Depth(vrUr)
  <2> HIDE DEF h
  <2> QED
    BY <1>6, <1>8 DEF Depth, Numbers, h
<1> HIDE DEF high, buffer, complete
<1>19. MovedTo(vrUh, vrUr, high, buffer)
  BY <1>12, <1>13, <1>15, <1>16, <1>17, <1>18 DEF MovedTo
<1>20. Moved(buffer)
  BY <1>1, <1>13, <1>19 DEF Moved
<1> QED
  BY <1>20 DEF buffer

LEMMA NextOf ==
  ASSUME sequenceNumber \in Numbers, NEW sn \in Numbers, Behind(sn) # 0
  PROVE  Plus(sn, 1) \in Numbers /\ Behind(Plus(sn, 1)) = Behind(sn) - 1
<1> DEFINE next == Plus(sn, 1)
<1>1. sn \in 0 .. Modulus - 1 /\ sequenceNumber \in 0 .. Modulus - 1 /\ Modulus \in Nat /\ Modulus > 1
  BY Constants DEF Numbers
<1>2. next = (IF sn + 1 < Modulus THEN sn + 1 ELSE sn + 1 - Modulus) /\ next \in Numbers
  BY <1>1, PlusIs
<1>3. Behind(sn) = IF sn <= sequenceNumber THEN sequenceNumber - sn
                   ELSE sequenceNumber - sn + Modulus
  BY Distance DEF Behind
<1>4. Behind(next) = IF next <= sequenceNumber THEN sequenceNumber - next
                     ELSE sequenceNumber - next + Modulus
  BY <1>2, Distance DEF Behind
<1> HIDE DEF next
<1>5. Behind(next) = Behind(sn) - 1
  BY <1>1, <1>2, <1>3, <1>4
<1> QED
  BY <1>2, <1>5 DEF next

(* Where a number is in the window there was, though it may be beyond it   *)
LEMMA OldPlace ==
  ASSUME sequenceNumber \in Numbers, vrUh \in Numbers, NEW sn \in Numbers,
         Behind(vrUh) - WindowSize < Behind(sn), Behind(sn) <= Behind(vrUh) + WindowSize
  PROVE  Minus(sn, Minus(vrUh, WindowSize)) = WindowSize + Behind(vrUh) - Behind(sn)
<1>1. /\ Behind(vrUh) \in Numbers /\ Behind(sn) \in Numbers
      /\ Minus(vrUh, sn) = IF Behind(vrUh) <= Behind(sn) THEN Behind(sn) - Behind(vrUh)
                           ELSE Behind(sn) - Behind(vrUh) + Modulus
  BY DepthOf
<1>2. Minus(sn, Minus(vrUh, WindowSize)) =
        IF Minus(vrUh, sn) <= WindowSize THEN WindowSize - Minus(vrUh, sn)
        ELSE WindowSize + Modulus - Minus(vrUh, sn)
  BY PlaceOf
<1> QED
  BY <1>1, <1>2, Constants DEF Numbers

(* Outside the window: VR(UH) moves past the PDU, which is later than all  *)
(* in the buffer, and none of these falls out of the window.               *)
Later(p) ==
  LET uh == Plus(p.sn, 1)
      buffer == Placed(p)
      h == Behind(vrUh)
  IN /\ uh \in Numbers /\ Age(p) \in 1 .. Spread /\ Behind(uh) = Age(p) - 1
     /\ h \in Numbers /\ Age(p) <= h
     /\ DOMAIN buffer \subseteq Numbers
     /\ \A k \in DOMAIN buffer :
          /\ Age(buffer[k]) \in Age(p) .. WindowSize /\ Behind(k) = Age(buffer[k])
          /\ Minus(uh, k) = Age(buffer[k]) - Age(p) + 1
          /\ buffer[k] = p \/ buffer[k] \in Waiting
     /\ reordering # NotRunning =>
          /\ h <= WindowSize - 1
          /\ Behind(vrUr) = h + Depth(vrUr) /\ Behind(vrUx) = h + Depth(vrUx)
          /\ Minus(uh, vrUx) = h + Depth(vrUx) - Age(p) + 1 /\ Minus(uh, vrUx) <= WindowSize
          /\ \A k \in DOMAIN buffer : Age(buffer[k]) <= Behind(vrUr)

LEMMA IsLater ==
  ASSUME NumbersOK, reordering # NotRunning => WindowOK, reordering = NotRunning => Waiting = {},
         NEW p \in air, ~IsInsideReorderingWindow(p.sn, vrUh)
  PROVE  Later(p)
<1> DEFINE uh == Plus(p.sn, 1)
           buffer == Placed(p)
           h == Behind(vrUh)
<1>1. /\ sequenceNumber \in Numbers /\ vrUr \in Numbers /\ vrUh \in Numbers /\ vrUx \in Numbers
      /\ reordering \in NotRunning .. MaxAwait
  BY DEF NumbersOK
<1>2. p.sn \in Numbers /\ Age(p) \in 1 .. Spread /\ Age(p) \in 1 .. WindowSize
      /\ Behind(p.sn) = Age(p) /\ p \in air
  BY PduIs DEF NumbersOK
<1>3. uh \in Numbers /\ Behind(uh) = Age(p) - 1
  BY <1>1, <1>2, NextOf
<1>4. h \in Numbers
  BY <1>1, DepthOf
<1>5. Age(p) <= h
  <2>1. ~(Minus(vrUh, p.sn) \in 1 .. WindowSize)
    BY <1>1, <1>2, InsideIs
  <2>2. Minus(vrUh, p.sn) = IF h <= Age(p) THEN Age(p) - h ELSE Age(p) - h + Modulus
    BY <1>1, <1>2, DepthOf
  <2> QED
    BY <1>2, <1>4, <2>1, <2>2, Constants DEF Numbers
<1>6. reordering # NotRunning =>
        /\ h <= WindowSize - 1
        /\ Behind(vrUr) = h + Depth(vrUr) /\ Behind(vrUx) = h + Depth(vrUx)
        /\ Depth(vrUr) \in 1 .. WindowSize /\ Depth(vrUx) \in Numbers
        /\ h + Depth(vrUx) <= WindowSize - 1
  <2> SUFFICES ASSUME reordering # NotRunning
               PROVE  /\ h <= WindowSize - 1
                      /\ Behind(vrUr) = h + Depth(vrUr) /\ Behind(vrUx) = h + Depth(vrUx)
                      /\ Depth(vrUr) \in 1 .. WindowSize /\ Depth(vrUx) \in Numbers
                      /\ h + Depth(vrUx) <= WindowSize - 1
    OBVIOUS
  <2>1. /\ Depth(vrUr) \in 1 .. WindowSize
        /\ h + Depth(vrUx) <= Spread - 1 + MaxAwait + reordering
    BY DEF WindowOK
  <2>2. /\ Behind(vrUx) \in Numbers /\ Depth(vrUx) \in Numbers
        /\ Depth(vrUx) = IF h <= Behind(vrUx) THEN Behind(vrUx) - h ELSE Behind(vrUx) - h + Modulus
    BY <1>1, DepthOf DEF Depth
  <2>3. /\ Behind(vrUr) \in Numbers
        /\ Depth(vrUr) = IF h <= Behind(vrUr) THEN Behind(vrUr) - h ELSE Behind(vrUr) - h + Modulus
    BY <1>1, DepthOf DEF Depth
  <2> HIDE DEF h
  <2>4. h + Depth(vrUx) <= WindowSize - 1 /\ h <= WindowSize - 1
    BY <1>1, <1>4, <2>1, <2>2, Constants DEF Numbers
  <2>5. Behind(vrUx) = h + Depth(vrUx)
    BY <1>4, <2>2, <2>4, Constants DEF Numbers
  <2>6. Behind(vrUr) = h + Depth(vrUr)
    BY <1>4, <2>1, <2>3, <2>4, Constants DEF Numbers
  <2> QED
    BY <2>1, <2>2, <2>4, <2>5, <2>6
<1>7. reordering # NotRunning =>
        Minus(uh, vrUx) = h + Depth(vrUx) - Age(p) + 1 /\ Minus(uh, vrUx) <= WindowSize
  <2>1. Minus(uh, vrUx) = IF Behind(uh) <= Behind(vrUx) THEN Behind(vrUx) - Behind(uh)
                          ELSE Behind(vrUx) - Behind(uh) + Modulus
    BY <1>1, <1>3, DepthOf
  <2> HIDE DEF h, uh
  <2> QED
    BY <1>2, <1>3, <1>4, <1>5, <1>6, <2>1, Constants DEF Numbers
<1>8. DOMAIN buffer \subseteq Numbers
      /\ \A k \in DOMAIN buffer :
           /\ Age(buffer[k]) \in 1 .. WindowSize /\ Behind(k) = Age(buffer[k])
           /\ buffer[k] = p \/ buffer[k] \in Waiting
  BY PlacedIs
<1>9. ASSUME NEW k \in DOMAIN buffer
      PROVE  /\ Age(buffer[k]) \in Age(p) .. WindowSize
             /\ Minus(uh, k) = Age(buffer[k]) - Age(p) + 1
             /\ reordering # NotRunning => Age(buffer[k]) <= Behind(vrUr)
  <2>1. Age(buffer[k]) >= Age(p) /\ (reordering # NotRunning => Age(buffer[k]) <= Behind(vrUr))
    <3>1. CASE buffer[k] = p
      BY <1>2, <1>4, <1>5, <1>6, <3>1 DEF Numbers
    <3>2. CASE buffer[k] # p
      <4>1. buffer[k] \in Waiting
        BY <1>8, <3>2
      <4>2. reordering # NotRunning /\ WindowOK
        BY <4>1
      <4>3. Age(buffer[k]) - h \in 1 .. Depth(vrUr) /\ Age(buffer[k]) \in 1 .. WindowSize
        BY <1>8, <4>1, <4>2 DEF WindowOK
      <4> HIDE DEF h, buffer
      <4> QED
        BY <1>2, <1>4, <1>5, <1>6, <4>2, <4>3 DEF Numbers
    <3> QED
      BY <3>1, <3>2
  <2>2. /\ k \in Numbers /\ Behind(k) = Age(buffer[k]) /\ Age(buffer[k]) \in 1 .. WindowSize
    BY <1>8
  <2>3. Minus(uh, k) = IF Behind(uh) <= Behind(k) THEN Behind(k) - Behind(uh)
                       ELSE Behind(k) - Behind(uh) + Modulus
    BY <1>1, <1>3, <2>2, DepthOf
  <2> HIDE DEF buffer, uh
  <2> QED
    BY <1>2, <1>3, <2>1, <2>2, <2>3
<1> HIDE DEF buffer, uh, h
<1>10. /\ uh \in Numbers /\ Age(p) \in 1 .. Spread /\ Behind(uh) = Age(p) - 1
       /\ h \in Numbers /\ Age(p) <= h
  BY <1>2, <1>3, <1>4, <1>5
<1> USE DEF buffer, uh, h
<1> QED
  BY <1>6, <1>7, <1>8, <1>9, <1>10 DEF Later

(* Where the search begins: VR(UR), or the start of the window             *)
LowOf(uh) ==
  IF IsInsideReorderingWindow(vrUr, uh) THEN vrUr ELSE Minus(uh, WindowSize)

LEMMA LowIs ==
  ASSUME NumbersOK, reordering # NotRunning => WindowOK,
         reordering = NotRunning => vrUr = vrUh /\ Waiting = {}, NEW p \in air, Later(p)
  PROVE  LET uh == Plus(p.sn, 1)
             low == LowOf(uh)
         IN /\ low \in Numbers /\ Minus(uh, low) \in 1 .. WindowSize
            /\ \A k \in DOMAIN Placed(p) : Minus(uh, k) <= Minus(uh, low)
            /\ ~IsInsideReorderingWindow(vrUr, uh) => Minus(uh, low) = WindowSize
<1> DEFINE uh == Plus(p.sn, 1)
           low == LowOf(uh)
           buffer == Placed(p)
<1>1. uh \in Numbers /\ vrUr \in Numbers /\ sequenceNumber \in Numbers
  BY DEF NumbersOK, Later
<1>2. \A k \in DOMAIN buffer : k \in Numbers /\ Minus(uh, k) \in 1 .. WindowSize
  BY Constants DEF Later
<1>3. CASE ~IsInsideReorderingWindow(vrUr, uh)
  <2>1. low = Minus(uh, WindowSize)
    BY <1>3 DEF LowOf
  <2>2. WindowSize \in Numbers
    BY Constants DEF Numbers
  <2>3. low \in Numbers /\ low = IF WindowSize <= uh THEN uh - WindowSize ELSE uh - WindowSize + Modulus
    BY <1>1, <2>1, <2>2, Distance
  <2>4. Minus(uh, low) = IF low <= uh THEN uh - low ELSE uh - low + Modulus
    BY <1>1, <2>3, Distance
  <2> HIDE DEF low, uh
  <2>5. Minus(uh, low) = WindowSize
    BY <1>1, <2>3, <2>4, Constants DEF Numbers
  <2>6. Minus(uh, low) \in 1 .. WindowSize
    BY <2>5, Constants
  <2> USE DEF low, uh
  <2> QED
    BY <1>2, <2>3, <2>5, <2>6
<1>4. CASE IsInsideReorderingWindow(vrUr, uh)
  <2>1. low = vrUr /\ Minus(uh, vrUr) \in 1 .. WindowSize
    BY <1>1, <1>4, InsideIs DEF LowOf
  <2>2. ASSUME NEW k \in DOMAIN buffer PROVE Minus(uh, k) <= Minus(uh, vrUr)
    <3>1. /\ Minus(uh, k) = Age(buffer[k]) - Age(p) + 1 /\ Behind(uh) = Age(p) - 1
          /\ Age(buffer[k]) \in Age(p) .. WindowSize /\ Age(p) \in 1 .. Spread
      BY DEF Later
    <3>2. CASE reordering = NotRunning
      <4>1. buffer[k] = p
        BY <3>2 DEF Later
      <4> HIDE DEF buffer, uh
      <4> QED
        BY <2>1, <3>1, <4>1, Constants
    <3>3. CASE reordering # NotRunning
      <4>1. Behind(vrUr) \in Numbers
            /\ Minus(uh, vrUr) = IF Behind(uh) <= Behind(vrUr) THEN Behind(vrUr) - Behind(uh)
                                 ELSE Behind(vrUr) - Behind(uh) + Modulus
        BY <1>1, DepthOf
      <4>2. Age(buffer[k]) <= Behind(vrUr)
        BY <3>3 DEF Later
      <4> HIDE DEF buffer, uh
      <4> QED
        BY <3>1, <4>1, <4>2, Constants DEF Numbers
    <3> QED
      BY <3>2, <3>3
  <2> QED
    BY <1>1, <1>4, <2>1, <2>2
<1> QED
  BY <1>3, <1>4

LEMMA OutsideReady ==
  ASSUME NumbersOK, reordering # NotRunning => WindowOK,
         reordering = NotRunning => vrUr = vrUh /\ Waiting = {}, NEW p \in air, Later(p)
  PROVE  Ready(Plus(p.sn, 1), LowOf(Plus(p.sn, 1)), Placed(p))
<1> DEFINE uh == Plus(p.sn, 1)
           low == LowOf(uh)
           buffer == Placed(p)
           h == Behind(vrUh)
<1>1. /\ uh \in Numbers /\ Age(p) \in 1 .. Spread /\ Behind(uh) = Age(p) - 1
      /\ h \in Numbers /\ Age(p) <= h /\ DOMAIN buffer \subseteq Numbers
      /\ \A k \in DOMAIN buffer :
           /\ Age(buffer[k]) \in Age(p) .. WindowSize
           /\ Minus(uh, k) = Age(buffer[k]) - Age(p) + 1
           /\ buffer[k] = p \/ buffer[k] \in Waiting
  BY DEF Later
<1>2. /\ low \in Numbers /\ Minus(uh, low) \in 1 .. WindowSize
      /\ \A k \in DOMAIN buffer : Minus(uh, k) <= Minus(uh, low)
  BY LowIs
<1>3. reordering # NotRunning =>
        /\ Minus(uh, vrUx) = h + Depth(vrUx) - Age(p) + 1
        /\ h + Depth(vrUx) <= Spread - 1 + MaxAwait + reordering
        /\ Depth(vrUx) \in Numbers
  <2>1. vrUx \in Numbers /\ vrUh \in Numbers /\ sequenceNumber \in Numbers
    BY DEF NumbersOK
  <2>2. Depth(vrUx) \in Numbers
    BY <2>1, DepthOf DEF Depth
  <2> QED
    BY <2>2 DEF Later, WindowOK
<1>4. reordering \in NotRunning .. MaxAwait
  BY DEF NumbersOK
<1>5. ASSUME NEW k \in DOMAIN buffer
      PROVE  /\ Age(buffer[k]) \in Int
             /\ Age(buffer[k]) - Behind(uh) = Minus(uh, k) /\ Minus(uh, k) \in 1 .. Minus(uh, low)
             /\ reordering # NotRunning =>
                  /\ Age(buffer[k]) <= Spread + MaxAwait + reordering
                  /\ Minus(uh, k) <= Minus(uh, vrUx) => Age(buffer[k]) <= Spread + reordering
             /\ reordering = NotRunning => Age(buffer[k]) <= Spread
  <2>1. Minus(uh, k) <= Minus(uh, low) /\ Minus(uh, low) \in 1 .. WindowSize
    BY <1>2
  <2>2. /\ Age(buffer[k]) \in Age(p) .. WindowSize
        /\ Minus(uh, k) = Age(buffer[k]) - Age(p) + 1
        /\ Age(p) \in 1 .. Spread /\ Behind(uh) = Age(p) - 1
    BY <1>1
  <2>3. CASE buffer[k] = p
    <3> HIDE DEF buffer, uh, low
    <3> QED
      BY <1>4, <2>1, <2>2, <2>3, Constants DEF NotRunning
  <2>4. CASE buffer[k] # p
    <3>1. buffer[k] \in Waiting /\ reordering # NotRunning /\ WindowOK
      BY <1>1, <2>4
    <3>2. /\ Age(buffer[k]) <= Spread + MaxAwait + reordering
          /\ Age(buffer[k]) - h <= Depth(vrUx) => Age(buffer[k]) <= Spread + reordering
      BY <3>1 DEF WindowOK
    <3>3. /\ Minus(uh, vrUx) = h + Depth(vrUx) - Age(p) + 1
          /\ h \in Numbers /\ Depth(vrUx) \in Numbers
      BY <1>1, <1>3, <3>1
    <3> HIDE DEF buffer, uh, low, h
    <3> QED
      BY <1>4, <2>1, <2>2, <3>1, <3>2, <3>3, Constants DEF Numbers
  <2> QED
    BY <2>3, <2>4
<1>6. /\ reordering # NotRunning =>
           /\ Behind(uh) + Minus(uh, vrUx) <= Spread - 1 + MaxAwait + reordering
           /\ vrUx # uh => Behind(uh) <= Spread - 1 + reordering
      /\ reordering = NotRunning => Behind(uh) <= Spread - 1
  <2> HIDE DEF buffer, uh, low, h
  <2> QED
    BY <1>1, <1>3, <1>4, Constants DEF Numbers, NotRunning
<1> HIDE DEF buffer, uh, low, h
<1>7. Ready(uh, low, buffer)
  BY <1>1, <1>2, <1>5, <1>6 DEF Ready
<1> QED
  BY <1>7 DEF buffer, uh, low

(* What is left is between high and VR(UH), though the numbers are taken   *)
(* as they lie in the old window, or beyond it.                            *)
LEMMA OutsideLeft ==
  ASSUME NumbersOK, reordering # NotRunning => WindowOK,
         reordering = NotRunning => vrUr = vrUh /\ Waiting = {}, NEW p \in air, Later(p)
  PROVE  LET uh == Plus(p.sn, 1)
             low == LowOf(uh)
             buffer == Placed(p)
             high == HighOf(buffer, low)
             base == IF IsInsideReorderingWindow(vrUr, uh) THEN Minus(vrUh, WindowSize) ELSE low
         IN /\ high \in Numbers /\ Minus(uh, high) <= Minus(uh, low)
            /\ SnInterval(buffer, low, high, base) = Below(uh, high, buffer)
<1> DEFINE uh == Plus(p.sn, 1)
           low == LowOf(uh)
           buffer == Placed(p)
           high == HighOf(buffer, low)
           inside == IsInsideReorderingWindow(vrUr, uh)
           base == IF inside THEN Minus(vrUh, WindowSize) ELSE low
           h == Behind(vrUh)
<1>1. /\ uh \in Numbers /\ Age(p) \in 1 .. Spread /\ Behind(uh) = Age(p) - 1
      /\ h \in Numbers /\ Age(p) <= h /\ DOMAIN buffer \subseteq Numbers
      /\ \A k \in DOMAIN buffer :
           /\ Age(buffer[k]) \in Age(p) .. WindowSize /\ Behind(k) = Age(buffer[k])
           /\ Minus(uh, k) = Age(buffer[k]) - Age(p) + 1
           /\ buffer[k] = p \/ buffer[k] \in Waiting
  BY DEF Later
<1>2. /\ low \in Numbers /\ Minus(uh, low) \in 1 .. WindowSize
      /\ \A k \in DOMAIN buffer : Minus(uh, k) <= Minus(uh, low)
      /\ ~inside => Minus(uh, low) = WindowSize
  BY LowIs
<1>3. vrUx \in Numbers /\ vrUh \in Numbers /\ sequenceNumber \in Numbers /\ vrUr \in Numbers
  BY DEF NumbersOK
<1>4. Minus(uh, uh) = 0
  BY <1>1, <1>3, DepthOf
<1>5. uh \notin DOMAIN buffer
  <2> SUFFICES ASSUME uh \in DOMAIN buffer PROVE FALSE
    OBVIOUS
  <2>1. Minus(uh, uh) = Age(buffer[uh]) - Age(p) + 1 /\ Age(buffer[uh]) \in Age(p) .. WindowSize
    BY <1>1
  <2> QED
    BY <1>1, <1>4, <2>1
<1>6. high \in Numbers /\ Minus(uh, high) <= Minus(uh, low)
  BY <1>1, <1>2, <1>5, HighIs
<1>7. Minus(uh, high) \in Numbers
  BY <1>1, <1>6, Distance
<1>8. ASSUME NEW k \in DOMAIN buffer
      PROVE  ~Less(k, low, base) /\ Less(k, high, base) <=> Minus(uh, high) < Minus(uh, k)
  <2>1. /\ k \in Numbers /\ Minus(uh, k) <= Minus(uh, low) /\ Behind(k) = Age(buffer[k])
        /\ Minus(uh, k) = Age(buffer[k]) - Age(p) + 1 /\ Age(buffer[k]) \in Age(p) .. WindowSize
    BY <1>1, <1>2
  <2>3. CASE ~inside
    <3>1. base = Minus(uh, WindowSize)
      BY <2>3 DEF LowOf
    <3>2. Minus(uh, k) <= WindowSize /\ Minus(uh, high) <= WindowSize /\ Minus(uh, low) <= WindowSize
      <4> HIDE DEF uh, low, high, buffer
      <4> QED
        BY <1>1, <1>2, <1>6, <1>7, <2>1, Constants DEF Numbers
    <3>3. Less(k, low, base) <=> Minus(uh, low) < Minus(uh, k)
      BY <1>1, <1>2, <2>1, <3>1, <3>2, LessIs
    <3>4. Less(k, high, base) <=> Minus(uh, high) < Minus(uh, k)
      BY <1>1, <1>6, <2>1, <3>1, <3>2, LessIs
    <3> HIDE DEF uh, low, high, buffer, base
    <3> QED
      BY <1>1, <1>2, <1>7, <2>1, <3>2, <3>3, <3>4 DEF Numbers
  <2>4. CASE inside
    <3>1. base = Minus(vrUh, WindowSize) /\ low = vrUr
      BY <2>4 DEF LowOf
    <3>2. /\ Behind(low) \in Numbers
          /\ Minus(uh, low) = IF Behind(uh) <= Behind(low) THEN Behind(low) - Behind(uh)
                              ELSE Behind(low) - Behind(uh) + Modulus
      BY <1>1, <1>2, <1>3, DepthOf
    <3>3. /\ Behind(high) \in Numbers
          /\ Minus(uh, high) = IF Behind(uh) <= Behind(high) THEN Behind(high) - Behind(uh)
                               ELSE Behind(high) - Behind(uh) + Modulus
          /\ Minus(uh, high) = 0 => high = uh
      BY <1>1, <1>6, <1>3, DepthOf
    <3>4. /\ h - WindowSize < Behind(low) /\ Behind(low) <= h + WindowSize
          /\ h - WindowSize < Behind(k) /\ Behind(k) <= h + WindowSize
          /\ h - WindowSize < Behind(high) /\ Behind(high) <= h + WindowSize
      <4>1. CASE reordering # NotRunning
        <5>1. /\ h <= WindowSize - 1 /\ Behind(low) = h + Depth(low)
              /\ Age(buffer[k]) <= Behind(low) /\ Depth(low) \in 1 .. WindowSize
          BY <3>1, <4>1 DEF Later, WindowOK
        <5> HIDE DEF uh, low, high, buffer, base, h
        <5> QED
          BY <1>1, <1>2, <1>6, <1>7, <2>1, <3>2, <3>3, <5>1, Constants DEF Numbers
      <4>2. CASE reordering = NotRunning
        <5>1. Behind(low) = h
          BY <3>1, <4>2
        <5>2. buffer[k] = p /\ DOMAIN buffer = {p.sn}
          <6>1. Waiting = {}
            BY <4>2
          <6>2. DOMAIN rxBuffer = {}
            BY <6>1 DEF Waiting
          <6> QED
            BY <6>1, <6>2, <1>1 DEF Placed
        <5>3. high # low => Age(p) = h
          <6>1. high # low => low \in DOMAIN buffer
            BY DEF HighOf
          <6>2. low \in DOMAIN buffer => Behind(low) = Age(p)
            BY <1>1, <5>2
          <6> QED
            BY <5>1, <6>1, <6>2
        <5>4. high # low => Behind(high) >= h - 1
          <6> HIDE DEF uh, low, high, buffer, base, h
          <6> QED
            BY <1>1, <1>2, <1>6, <1>7, <2>1, <3>2, <3>3, <5>1, <5>2, <5>3, Constants DEF Numbers
        <5> HIDE DEF uh, low, high, buffer, base, h
        <5> QED
          BY <1>1, <1>2, <1>6, <1>7, <2>1, <3>2, <3>3, <5>1, <5>2, <5>4, Constants DEF Numbers
      <4> QED
        BY <4>1, <4>2
    <3>5. /\ Minus(low, base) = WindowSize + h - Behind(low)
          /\ Minus(k, base) = WindowSize + h - Behind(k)
          /\ Minus(high, base) = WindowSize + h - Behind(high)
      <4>1. Minus(low, base) = WindowSize + h - Behind(low)
        BY <1>2, <1>3, <3>1, <3>4, OldPlace
      <4>2. Minus(k, base) = WindowSize + h - Behind(k)
        BY <2>1, <1>3, <3>1, <3>4, OldPlace
      <4>3. Minus(high, base) = WindowSize + h - Behind(high)
        BY <1>6, <1>3, <3>1, <3>4, OldPlace
      <4> QED
        BY <4>1, <4>2, <4>3
    <3>6. ~Less(k, low, base) /\ (Less(k, high, base) <=> Behind(high) < Behind(k))
      <4> HIDE DEF uh, low, high, buffer, base, h
      <4> QED
        BY <1>1, <1>2, <2>1, <3>2, <3>3, <3>5, Constants DEF Numbers, Less
    <3> HIDE DEF uh, low, high, buffer, base, h
    <3> QED
      BY <1>1, <1>2, <1>6, <1>7, <2>1, <3>3, <3>6, Constants DEF Numbers
  <2> QED
    BY <2>3, <2>4
<1>9. SnInterval(buffer, low, high, base) = Below(uh, high, buffer)
  <2> HIDE DEF uh, low, high, buffer, base
  <2> QED
    BY <1>8 DEF SnInterval, Below
<1> QED
  BY <1>6, <1>9

(* The search never begins before VR(UR).                                  *)
LEMMA LowAfter ==
  ASSUME NumbersOK, reordering # NotRunning => WindowOK,
         reordering = NotRunning => vrUr = vrUh /\ Waiting = {}, NEW p \in air, Later(p)
  PROVE  LET uh == Plus(p.sn, 1)
         IN Behind(uh) + Minus(uh, LowOf(uh)) <= Behind(vrUh) + Depth(vrUr)
<1> DEFINE uh == Plus(p.sn, 1)
           low == LowOf(uh)
           h == Behind(vrUh)
<1>1. /\ uh \in Numbers /\ Age(p) \in 1 .. Spread /\ Behind(uh) = Age(p) - 1
      /\ h \in Numbers /\ Age(p) <= h
  BY DEF Later
<1>2. vrUh \in Numbers /\ sequenceNumber \in Numbers /\ vrUr \in Numbers
  BY DEF NumbersOK
<1>3. Behind(vrUr) = h + Depth(vrUr)
  <2>1. CASE reordering # NotRunning
    BY <2>1 DEF Later
  <2>2. CASE reordering = NotRunning
    <3>1. Depth(vrUr) = 0 /\ Behind(vrUr) = h
      BY <1>2, <2>2, DepthOf DEF Depth
    <3> HIDE DEF h
    <3> QED
      BY <1>1, <3>1 DEF Numbers
  <2> QED
    BY <2>1, <2>2
<1>4. /\ Depth(vrUr) \in Numbers /\ Behind(vrUr) \in Numbers
      /\ Minus(uh, vrUr) = IF Behind(uh) <= Behind(vrUr) THEN Behind(vrUr) - Behind(uh)
                           ELSE Behind(vrUr) - Behind(uh) + Modulus
  <2>1. Depth(vrUr) \in Numbers
    BY <1>2, DepthOf DEF Depth
  <2> QED
    BY <1>1, <1>2, <2>1, DepthOf
<1>5. IsInsideReorderingWindow(vrUr, uh) <=> Minus(uh, vrUr) \in 1 .. WindowSize
  BY <1>1, <1>2, InsideIs
<1>6. CASE IsInsideReorderingWindow(vrUr, uh)
  <2>1. low = vrUr
    BY <1>6 DEF LowOf
  <2> HIDE DEF uh, low, h
  <2>2. Behind(uh) + Minus(uh, low) <= h + Depth(vrUr)
    BY <1>1, <1>3, <1>4, <2>1, Constants DEF Numbers
  <2> QED
    BY <2>2 DEF uh, low, h
<1>7. CASE ~IsInsideReorderingWindow(vrUr, uh)
  <2>1. Minus(uh, low) = WindowSize
    BY <1>7, LowIs
  <2> HIDE DEF uh, low, h
  <2>2. Behind(uh) + Minus(uh, low) <= h + Depth(vrUr)
    BY <1>1, <1>3, <1>4, <1>5, <1>7, <2>1, Constants DEF Numbers
  <2> QED
    BY <2>2 DEF uh, low, h
<1> QED
  BY <1>6, <1>7

LEMMA OutsideMoves ==
  ASSUME NumbersOK, reordering = NotRunning => vrUr = vrUh /\ Waiting = {},
         reordering # NotRunning => WindowOK, NEW p \in air, DoReceivePdu(p),
         ~Discarded(p, Minus(vrUh, WindowSize)), ~IsInsideReorderingWindow(p.sn, vrUh)
  PROVE  Moved(Placed(p))
<1> DEFINE uh == Plus(p.sn, 1)
           low == LowOf(uh)
           buffer == Placed(p)
           high == HighOf(buffer, low)
           inside == IsInsideReorderingWindow(vrUr, uh)
           base == IF inside THEN Minus(vrUh, WindowSize) ELSE low
           complete == SnInterval(buffer, low, high, base)
<1>1. Later(p)
  BY IsLater
<1>2. Ready(uh, low, buffer)
  BY <1>1, OutsideReady
<1>3. /\ high \in Numbers /\ Minus(uh, high) <= Minus(uh, low)
      /\ complete = Below(uh, high, buffer)
  BY <1>1, OutsideLeft
<1>4. uh \in Numbers /\ low \in Numbers /\ Minus(uh, low) \in 1 .. WindowSize
  BY <1>2 DEF Ready
<1>5. OutsideWindow(buffer, uh) = {}
  <2>1. ASSUME NEW k \in DOMAIN buffer PROVE IsInsideReorderingWindow(k, uh)
    <3>1. k \in Numbers /\ Minus(uh, k) \in 1 .. WindowSize
      BY <1>1, Constants DEF Later
    <3> QED
      BY <1>4, <3>1, InsideIs
  <2>2. ASSUME NEW k \in OutsideWindow(buffer, uh) PROVE FALSE
    <3>1. k \in DOMAIN buffer /\ k \in Numbers
      BY <1>1 DEF OutsideWindow, Later
    <3>2. ~IsInsideReorderingWindow(k, uh)
      BY <3>1 DEF OutsideWindow, Numbers
    <3> QED
      BY <2>1, <3>1, <3>2
  <2> QED
    BY <2>2
<1>6. Moves(uh, high, buffer, complete)
  <2>1. Minus(uh, high) <= WindowSize
    <3>1. Minus(uh, high) \in Numbers
      BY <1>3, <1>4, Distance
    <3> HIDE DEF uh, low, high, complete, buffer
    <3> QED
      BY <1>3, <1>4, <3>1, Constants DEF Numbers
  <2>2. vrUx \in Numbers /\ (reordering # NotRunning => Minus(uh, vrUx) <= WindowSize)
    BY <1>1 DEF Later, NumbersOK
  <2>3. /\ (/\ reordering # NotRunning
            /\ Less(high, vrUx, Minus(uh, WindowSize))
            /\ IsInsideReorderingWindow(vrUx, uh) \/ vrUx = uh)
           <=> reordering # NotRunning /\ Minus(uh, vrUx) < Minus(uh, high)
        /\ Gap(high, uh) <=> Minus(uh, high) # 0
    BY <1>3, <1>4, <2>1, <2>2, TimerTests
  <2>4. [k \in DOMAIN buffer \ OutsideWindow(buffer, uh) |-> buffer[k]] = buffer
    BY <1>5 DEF Placed
  <2>5. LET runs == /\ reordering # NotRunning
                    /\ Less(high, vrUx, Minus(uh, WindowSize))
                    /\ IsInsideReorderingWindow(vrUx, uh) \/ vrUx = uh
            starts == ~runs /\ Gap(high, uh)
        IN /\ rxBuffer' = [k \in DOMAIN buffer \ complete |-> buffer[k]]
           /\ vrUh' = uh /\ vrUr' = high
           /\ vrUx' = IF starts THEN uh ELSE vrUx
           /\ reordering' = IF starts THEN 0 ELSE IF runs THEN reordering ELSE NotRunning
    BY <2>4 DEF DoReceivePdu, HighOf, LowOf, Placed
  <2> HIDE DEF uh, low, high, complete, buffer
  <2> QED
    BY <2>3, <2>5 DEF Moves
<1>7. reassembly' = Reassembled(reassembly, complete, low, buffer)
  <2>1. [k \in DOMAIN buffer \ OutsideWindow(buffer, uh) |-> buffer[k]] = buffer
    BY <1>5 DEF Placed
  <2>2. reassembly' = Reassembled(Reassembled(reassembly, OutsideWindow(buffer, uh), 0, buffer),
                                  complete, low, buffer)
    BY <2>1 DEF DoReceivePdu, HighOf, LowOf, Placed
  <2> HIDE DEF complete, buffer, low, uh
  <2> QED
    BY <1>5, <2>2, NoneReassembled
<1>8. Behind(uh) + Minus(uh, low) <= Behind(vrUh) + Depth(vrUr)
  BY <1>1, LowAfter
<1> HIDE DEF uh, low, high, complete, buffer, base
<1>9. MovedTo(uh, low, high, buffer)
  BY <1>2, <1>3, <1>6, <1>7, <1>8 DEF MovedTo
<1>10. Moved(buffer)
  BY <1>3, <1>4, <1>9 DEF Moved
<1> QED
  BY <1>10 DEF buffer

(* The timer expires: VR(UR) moves to VR(UX) or beyond                     *)
LEMMA ExpireMoves ==
  ASSUME NumbersOK, reordering # NotRunning => WindowOK, ExpireReorderingTimer
  PROVE  Moved(rxBuffer)
<1> DEFINE base == Minus(vrUh, WindowSize)
           high == FirstMissing(vrUx)
           complete == SnInterval(rxBuffer, vrUr, high, base)
           h == Behind(vrUh)
<1>1. /\ sequenceNumber \in Numbers /\ vrUr \in Numbers /\ vrUh \in Numbers /\ vrUx \in Numbers
      /\ reordering \in NotRunning .. MaxAwait
  BY DEF NumbersOK
<1>2. reordering # NotRunning /\ WindowOK
      /\ Depth(vrUr) \in 1 .. WindowSize /\ Depth(vrUx) < Depth(vrUr)
  BY DEF ExpireReorderingTimer, WindowOK
<1>3. h \in Numbers /\ Depth(vrUx) \in Numbers /\ Depth(vrUh) = 0
  <2>1. h \in Numbers /\ Depth(vrUx) \in Numbers
    BY <1>1, DepthOf DEF Depth
  <2>2. Depth(vrUh) = 0
    BY <1>1, DepthOf DEF Depth
  <2> QED
    BY <2>1, <2>2
<1>4. ASSUME NEW k \in DOMAIN rxBuffer
      PROVE  /\ k \in Numbers /\ rxBuffer[k] \in Waiting /\ Age(rxBuffer[k]) \in Int
             /\ Age(rxBuffer[k]) - h = Depth(k) /\ Depth(k) \in 1 .. Depth(vrUr)
  <2>1. k \in Numbers /\ rxBuffer[k] \in Waiting /\ rxBuffer[k].sn = k
    BY DEF Waiting, NumbersOK
  <2>2. Age(rxBuffer[k]) \in 1 .. WindowSize /\ Behind(k) = Age(rxBuffer[k])
    BY <2>1, PduIs
  <2>3. Depth(k) = IF h <= Behind(k) THEN Behind(k) - h ELSE Behind(k) - h + Modulus
    BY <1>1, <2>1, DepthOf DEF Depth
  <2>4. Age(rxBuffer[k]) - h \in 1 .. Depth(vrUr)
    BY <1>2, <2>1 DEF WindowOK
  <2> HIDE DEF h
  <2> QED
    BY <1>3, <2>1, <2>2, <2>3, <2>4 DEF Numbers
<1>5. Ready(vrUh, vrUr, rxBuffer)
  <2>1. \A k \in DOMAIN rxBuffer :
          /\ Age(rxBuffer[k]) <= Spread + MaxAwait + reordering
          /\ Depth(k) <= Depth(vrUx) => Age(rxBuffer[k]) <= Spread + reordering
    BY <1>2, <1>4 DEF WindowOK
  <2>2. /\ h + Depth(vrUx) <= Spread - 1 + MaxAwait + reordering
        /\ vrUx # vrUh => h <= Spread - 1 + reordering
    BY <1>2 DEF WindowOK
  <2> QED
    BY <1>1, <1>2, <1>4, <2>1, <2>2 DEF Ready, Depth
<1>6. high \in Numbers /\ Minus(vrUh, high) <= Depth(vrUx)
  <2>1. vrUh \notin DOMAIN rxBuffer
    BY <1>3, <1>4
  <2> QED
    BY <1>1, <2>1, FirstMissingIs DEF Depth
<1>7. Minus(vrUh, high) \in Numbers /\ Minus(vrUh, high) <= WindowSize
      /\ Minus(vrUh, high) <= Minus(vrUh, vrUr)
  <2>1. Minus(vrUh, high) \in Numbers
    BY <1>1, <1>6, Distance
  <2>2. Minus(vrUh, vrUr) = Depth(vrUr)
    BY DEF Depth
  <2> HIDE DEF high
  <2> QED
    BY <1>2, <1>3, <1>6, <2>1, <2>2, Constants DEF Numbers
<1>8. ASSUME NEW k \in DOMAIN rxBuffer PROVE k \in complete <=> Minus(vrUh, high) < Minus(vrUh, k)
  <2>1. /\ k \in Numbers /\ Minus(vrUh, k) \in 1 .. Minus(vrUh, vrUr)
        /\ Minus(vrUh, vrUr) \in 1 .. WindowSize
    BY <1>2, <1>4 DEF Depth
  <2>2. Less(k, vrUr, base) <=> Minus(vrUh, vrUr) < Minus(vrUh, k)
    BY <1>1, <2>1, LessIs, Constants
  <2>3. Less(k, high, base) <=> Minus(vrUh, high) < Minus(vrUh, k)
    BY <1>1, <1>6, <1>7, <2>1, LessIs, Constants
  <2>4. k \in complete <=> ~Less(k, vrUr, base) /\ Less(k, high, base)
    BY DEF SnInterval
  <2> HIDE DEF complete, high
  <2> QED
    BY <1>7, <2>1, <2>2, <2>3, <2>4 DEF Numbers
<1>9. Moves(vrUh, high, rxBuffer, complete)
  <2>1. Gap(high, vrUh) <=> Minus(vrUh, high) # 0
    BY <1>1, <1>6, <1>7, GapIs
  <2>2. ~(reordering # NotRunning /\ Minus(vrUh, vrUx) < Minus(vrUh, high))
    <3>1. Minus(vrUh, vrUx) = Depth(vrUx)
      BY DEF Depth
    <3> HIDE DEF high
    <3> QED
      BY <1>3, <1>6, <1>7, <3>1 DEF Numbers
  <2>3. /\ rxBuffer' = [k \in DOMAIN rxBuffer \ complete |-> rxBuffer[k]]
        /\ vrUr' = high /\ vrUh' = vrUh
        /\ vrUx' = IF Gap(high, vrUh) THEN vrUh ELSE vrUx
        /\ reordering' = IF Gap(high, vrUh) THEN 0 ELSE NotRunning
    BY DEF ExpireReorderingTimer
  <2> HIDE DEF high, complete
  <2> QED
    BY <2>1, <2>2, <2>3 DEF Moves
<1>10. reassembly' = Reassembled(reassembly, complete, vrUr, rxBuffer)
  BY DEF ExpireReorderingTimer
<1>11. complete = Below(vrUh, high, rxBuffer)
  <2>1. complete \subseteq DOMAIN rxBuffer
    BY DEF SnInterval
  <2> HIDE DEF high, complete
  <2> QED
    BY <1>8, <2>1 DEF Below
<1>12. Behind(vrUh) + Minus(vrUh, vrUr) <= Behind(vrUh) + Depth(vrUr)
  <2> HIDE DEF h
  <2> QED
    BY <1>2, <1>3 DEF Depth, Numbers, h
<1> HIDE DEF high, complete
<1>13. MovedTo(vrUh, vrUr, high, rxBuffer)
  BY <1>5, <1>7, <1>9, <1>10, <1>11, <1>12 DEF MovedTo
<1> QED
  BY <1>1, <1>6, <1>13 DEF Moved

(* Either way the numbers and the window are as they should be.            *)
LEMMA MovedInv ==
  ASSUME NumbersOK, NEW buffer, Moved(buffer),
         \A k \in DOMAIN buffer : buffer[k].sn = k /\ buffer[k] \in Waiting \cup air,
         air' \subseteq air, UNCHANGED <<sequenceNumber, transmitted>>
  PROVE  NumbersOK' /\ WindowInv'
<1>0. PICK uh \in Numbers, low \in Numbers, high \in Numbers : MovedTo(uh, low, high, buffer)
  BY DEF Moved
<1> DEFINE complete == Below(uh, high, buffer)
<1>1. /\ Ready(uh, low, buffer) /\ Minus(uh, high) <= Minus(uh, low)
      /\ \A k \in DOMAIN buffer \ complete : Minus(uh, k) <= Minus(uh, high)
      /\ Moves(uh, high, buffer, complete)
  <2>1. DOMAIN buffer \subseteq Numbers
    BY <1>0 DEF MovedTo, Ready
  <2>2. \A k \in DOMAIN buffer : Minus(uh, k) \in Numbers /\ Minus(uh, high) \in Numbers
    BY <2>1, Distance
  <2> QED
    BY <1>0, <2>2 DEF MovedTo, Below, Numbers
<1>2. sequenceNumber \in Numbers /\ vrUx \in Numbers /\ reordering \in NotRunning .. MaxAwait
      /\ transmitted \in Nat
  BY DEF NumbersOK
<1>3. /\ vrUr' \in Numbers /\ vrUh' \in Numbers /\ vrUx' \in Numbers
      /\ reordering' \in NotRunning .. MaxAwait
      /\ reordering' = NotRunning => vrUr' = vrUh' /\ Waiting' = {}
      /\ reordering' # NotRunning => WindowOK'
  BY <1>1, <1>2, MovedWindow
<1>4. rxBuffer' = [k \in DOMAIN buffer \ complete |-> buffer[k]] /\ DOMAIN buffer \subseteq Numbers
  BY <1>1 DEF Moves, Ready
<1>5. Waiting' \cup air' \subseteq Waiting \cup air
  BY <1>4 DEF Waiting
<1>6. \A k \in DOMAIN rxBuffer' : k \in Numbers /\ rxBuffer'[k].sn = k
  BY <1>4 DEF Numbers
<1>7. \A p : Age(p)' = Age(p)
  BY DEF Age
<1>8. \A p \in Waiting' \cup air' :
        /\ p.no \in Nat /\ Age(p)' \in 1 .. WindowSize
        /\ p.sn = Minus(sequenceNumber', Age(p)')
  BY <1>5, <1>7 DEF NumbersOK
<1>9. /\ \A p \in air' : Age(p)' <= Spread
      /\ \A p, q \in Waiting' \cup air' : p.no = q.no => p = q
  BY <1>5, <1>7 DEF NumbersOK
<1>10. NumbersOK'
  BY <1>2, <1>3, <1>6, <1>8, <1>9 DEF NumbersOK
<1> QED
  BY <1>3, <1>10 DEF WindowInv

----------------------------------------------------------------------------
(* The sender                                                              *)

(* The sums of the sizes of the first segments of the buffer               *)
Sums(buffer, n, g) ==
  g = [k \in 0 .. n |-> IF k = 0 THEN 0 ELSE g[k - 1] + SizeOf(buffer[k])]

LEMMA SumsExist ==
  ASSUME NEW buffer, NEW n \in Nat
  PROVE  \E g : Sums(buffer, n, g)
<1> DEFINE N == {m \in Nat : \E g : Sums(buffer, m, g)}
<1>1. 0 \in N
  <2> DEFINE g == [k \in 0 .. 0 |-> 0]
  <2>1. \A k \in 0 .. 0 : k = 0
    OBVIOUS
  <2>2. g = [k \in 0 .. 0 |-> IF k = 0 THEN 0 ELSE g[k - 1] + SizeOf(buffer[k])]
    BY <2>1
  <2> QED
    BY <2>2 DEF Sums
<1>2. ASSUME NEW m \in Nat, m \in N PROVE m + 1 \in N
  <2>1. PICK g : g = [k \in 0 .. m |-> IF k = 0 THEN 0 ELSE g[k - 1] + SizeOf(buffer[k])]
    BY <1>2 DEF Sums
  <2> DEFINE h == [k \in 0 .. m + 1 |-> IF k = 0 THEN 0 ELSE g[k - 1] + SizeOf(buffer[k])]
  <2>2. \A k \in 0 .. m : k \in 0 .. m + 1
    OBVIOUS
  <2>3. \A k \in 0 .. m : h[k] = g[k]
    BY <2>1, <2>2
  <2>4. \A k \in 0 .. m + 1 : k # 0 => k - 1 \in 0 .. m
    OBVIOUS
  <2>5. h = [k \in 0 .. m + 1 |-> IF k = 0 THEN 0 ELSE h[k - 1] + SizeOf(buffer[k])]
    BY <2>3, <2>4
  <2> HIDE DEF h
  <2> QED
    BY <2>5 DEF Sums
<1> HIDE DEF N
<1>3. n \in N
  BY <1>1, <1>2, UpTo
<1> QED
  BY <1>3 DEF N

LEMMA BytesOfNat ==
  ASSUME NEW buffer \in Seq(Segments)
  PROVE  BytesOf(buffer) \in Nat
<1> DEFINE n == Len(buffer)
           upTo == CHOOSE g : Sums(buffer, n, g)
<1>1. BytesOf(buffer) = upTo[n]
  BY DEF BytesOf, Sums
<1>2. n \in Nat /\ \A k \in 1 .. n : SizeOf(buffer[k]) \in Nat
  BY DEF Segments, SizeOf
<1> HIDE DEF n
<1>3. Sums(buffer, n, upTo)
  BY <1>2, SumsExist
<1>4. \A k \in 0 .. n : upTo[k] = IF k = 0 THEN 0 ELSE upTo[k - 1] + SizeOf(buffer[k])
  <2> HIDE DEF upTo
  <2> QED
    BY <1>3 DEF Sums
<1> HIDE DEF upTo
<1> DEFINE T == {k \in 0 .. n : upTo[k] \in Nat}
<1>5. 0 \in T
  BY <1>2, <1>4
<1>6. ASSUME NEW m \in 0 .. n - 1, m \in T PROVE m + 1 \in T
  <2>1. m + 1 \in 0 .. n /\ m + 1 \in 1 .. n /\ m + 1 # 0 /\ m + 1 - 1 = m
    BY <1>2
  <2>2. upTo[m + 1] = upTo[m] + SizeOf(buffer[m + 1]) /\ SizeOf(buffer[m + 1]) \in Nat
    BY <1>2, <1>4, <2>1
  <2> QED
    BY <1>6, <2>1, <2>2
<1>7. n \in T
  <2> HIDE DEF T
  <2> QED
    BY <1>2, <1>5, <1>6, UpTo
<1> QED
  BY <1>1, <1>7

LEMMA ReportIs ==
  ASSUME NEW buffer \in Seq(Segments)
  PROVE  ReportOf(buffer) \in Nat /\ (buffer # << >> => ReportOf(buffer) > 0)
<1>1. BytesOf(buffer) \in Nat /\ Len(buffer) \in Nat
  BY BytesOfNat
<1>2. buffer # << >> => Len(buffer) # 0
  BY EmptySeq
<1> QED
  BY <1>1, <1>2 DEF ReportOf

(* What Fill leaves in the buffer is made of segments again.               *)
LEMMA FillIs ==
  ASSUME NEW buffer \in Seq(Segments), buffer # << >>, NEW size \in Int
  PROVE  Fill(buffer, size).buffer \in Seq(Segments)
<1> DEFINE room(k) == RoomFor(k, buffer, size)
           Stops == {k \in DOMAIN buffer :
                     \/ room(k) - SizeOf(buffer[k]) <= 2
                     \/ SizeOf(buffer[k]) > MaxLI
                     \/ k = Len(buffer)}
           last == Min(Stops)
           s == buffer[last]
           taken == IF SizeOf(s) < room(last) THEN SizeOf(s) ELSE room(last)
           kept == IF taken = SizeOf(s) THEN << >> ELSE <<Rest(s, taken)>>
<1>1. Len(buffer) \in Nat \ {0} /\ DOMAIN buffer = 1 .. Len(buffer)
      /\ \A k \in 1 .. Len(buffer) : buffer[k] \in Segments
  BY EmptySeq
<1>2. last \in 1 .. Len(buffer)
  <2>1. Len(buffer) \in Stops /\ Stops \in SUBSET Nat
    BY <1>1
  <2>2. \E n \in Stops : \A m \in Stops : n <= m
    <3> HIDE DEF Stops
    <3> QED
      BY <2>1, Least
  <2>3. last \in Stops
    BY <2>2 DEF Min
  <2> QED
    BY <1>1, <2>3
<1> HIDE DEF Stops, last
<1>3. s \in Segments /\ SizeOf(s) \in Nat
  BY <1>1, <1>2 DEF Segments, SizeOf
<1>4. room(last) \in Int
  <2>1. last - 1 \in Int /\ \A k \in 1 .. last - 1 : buffer[k] \in Segments
    BY <1>1, <1>2
  <2>2. SubSeq(buffer, 1, last - 1) \in Seq(Segments)
    BY <2>1, SubSeqProperties
  <2>3. BytesOf(SubSeq(buffer, 1, last - 1)) \in Nat
    BY <2>2, BytesOfNat
  <2> QED
    BY <1>1, <1>2, <2>3 DEF RoomFor
<1>5. kept \in Seq(Segments)
  <2>1. taken # SizeOf(s) => Rest(s, taken) \in Segments
    <3> SUFFICES ASSUME taken # SizeOf(s) PROVE Rest(s, taken) \in Segments
      OBVIOUS
    <3>1. taken \in Int /\ taken <= SizeOf(s)
      BY <1>3, <1>4
    <3> HIDE DEF taken, s
    <3>2. s.sdu \in Nat /\ s.from \in Int /\ s.to \in Int /\ s.from + taken <= s.to
      BY <1>3, <3>1 DEF Segments, SizeOf
    <3> QED
      BY <3>1, <3>2 DEF Segments, Rest, Segment
  <2> HIDE DEF taken, s
  <2> QED
    BY <2>1
<1>6. SubSeq(buffer, last + 1, Len(buffer)) \in Seq(Segments)
  <2>1. last + 1 \in Int /\ Len(buffer) \in Int
        /\ \A k \in last + 1 .. Len(buffer) : buffer[k] \in Segments
    BY <1>1, <1>2
  <2> QED
    BY <2>1, SubSeqProperties
<1>7. Fill(buffer, size).buffer = kept \o SubSeq(buffer, last + 1, Len(buffer))
  BY DEF Fill, Stops, last
<1> HIDE DEF kept
<1> QED
  BY <1>5, <1>6, <1>7, ConcatProperties

----------------------------------------------------------------------------
(* The invariant                                                           *)

LEMMA SameWindow ==
  ASSUME NumbersOK, WindowInv, UNCHANGED <<sequenceNumber, transmitted, window>>, air' \subseteq air
  PROVE  NumbersOK' /\ WindowInv'
<1>1. /\ sequenceNumber' = sequenceNumber /\ transmitted' = transmitted /\ rxBuffer' = rxBuffer
      /\ vrUr' = vrUr /\ vrUx' = vrUx /\ vrUh' = vrUh /\ reordering' = reordering
  BY DEF window
<1>2. Waiting' = Waiting /\ \A p : Age(p)' = Age(p)
  BY <1>1 DEF Waiting, Age
<1>3. Depth(vrUr)' = Depth(vrUr) /\ Depth(vrUx)' = Depth(vrUx) /\ Behind(vrUh)' = Behind(vrUh)
  BY <1>1 DEF Depth, Behind, Minus
<1>4. NumbersOK'
  <2>1. /\ sequenceNumber' \in Numbers /\ vrUr' \in Numbers /\ vrUh' \in Numbers
        /\ vrUx' \in Numbers /\ reordering' \in NotRunning .. MaxAwait /\ transmitted' \in Nat
        /\ \A k \in DOMAIN rxBuffer' : k \in Numbers /\ rxBuffer'[k].sn = k
    BY <1>1 DEF NumbersOK
  <2>2. \A p \in Waiting' \cup air' :
          /\ p.no \in Nat /\ Age(p)' \in 1 .. WindowSize
          /\ p.sn = Minus(sequenceNumber', Age(p)')
    BY <1>1, <1>2 DEF NumbersOK
  <2>3. /\ \A p \in air' : Age(p)' <= Spread
        /\ \A p, q \in Waiting' \cup air' : p.no = q.no => p = q
    BY <1>1, <1>2 DEF NumbersOK
  <2> QED
    BY <2>1, <2>2, <2>3 DEF NumbersOK
<1>5. WindowInv'
  BY <1>1, <1>2, <1>3 DEF WindowInv, WindowOK
<1> QED
  BY <1>4, <1>5

(* A number is one further behind when the next PDU is sent.               *)
LEMMA NextMinus ==
  ASSUME sequenceNumber \in Numbers, NEW n \in Nat, n + 1 < Modulus
  PROVE  Minus(Plus(sequenceNumber, 1), n + 1) = Minus(sequenceNumber, n)
<1> DEFINE next == Plus(sequenceNumber, 1)
<1>1. sequenceNumber \in 0 .. Modulus - 1 /\ Modulus \in Nat /\ Modulus > 1
      /\ n \in Numbers /\ n + 1 \in Numbers
  BY Constants DEF Numbers
<1>2. next \in Numbers
      /\ next = IF sequenceNumber + 1 < Modulus THEN sequenceNumber + 1
                ELSE sequenceNumber + 1 - Modulus
  BY <1>1, PlusIs
<1>3. Minus(next, n + 1) = IF n + 1 <= next THEN next - (n + 1) ELSE next - (n + 1) + Modulus
  BY <1>1, <1>2, Distance
<1>4. Minus(sequenceNumber, n) = IF n <= sequenceNumber THEN sequenceNumber - n
                                 ELSE sequenceNumber - n + Modulus
  BY <1>1, Distance
<1> HIDE DEF next
<1>5. Minus(next, n + 1) = Minus(sequenceNumber, n)
  BY <1>1, <1>2, <1>3, <1>4 DEF Numbers
<1> QED
  BY <1>5 DEF next

LEMMA NextBehind ==
  ASSUME sequenceNumber \in Numbers, NEW sn \in Numbers, Behind(sn) < Modulus - 1,
         sequenceNumber' = Plus(sequenceNumber, 1)
  PROVE  Minus(sequenceNumber', sn) = Behind(sn) + 1
<1> DEFINE next == Plus(sequenceNumber, 1)
<1>1. sequenceNumber \in 0 .. Modulus - 1 /\ sn \in 0 .. Modulus - 1 /\ Modulus \in Nat /\ Modulus > 1
  BY Constants DEF Numbers
<1>2. next \in Numbers
      /\ next = IF sequenceNumber + 1 < Modulus THEN sequenceNumber + 1
                ELSE sequenceNumber + 1 - Modulus
  BY <1>1, PlusIs
<1>3. Minus(next, sn) = IF sn <= next THEN next - sn ELSE next - sn + Modulus
  BY <1>2, Distance
<1>4. Behind(sn) = IF sn <= sequenceNumber THEN sequenceNumber - sn ELSE sequenceNumber - sn + Modulus
  BY Distance DEF Behind
<1> HIDE DEF next
<1>5. Minus(next, sn) = Behind(sn) + 1
  BY <1>1, <1>2, <1>3, <1>4
<1> QED
  BY <1>5 DEF next

(* A PDU is sent: each one in the buffer, and VR(UH), is one further       *)
(* behind, and so is the timer.                                            *)
LEMMA SentOK ==
  ASSUME NumbersOK, WindowInv, reordering < MaxAwait, \A p \in air : transmitted - p.no < Spread,
         NEW data, air' = air \cup {[sn |-> sequenceNumber, data |-> data, no |-> transmitted]},
         sequenceNumber' = Plus(sequenceNumber, 1), transmitted' = transmitted + 1,
         reordering' = IF reordering = NotRunning THEN NotRunning ELSE reordering + 1,
         UNCHANGED <<rxBuffer, vrUr, vrUx, vrUh>>
  PROVE  NumbersOK' /\ WindowInv'
<1>0. PICK new : new = [sn |-> sequenceNumber, data |-> data, no |-> transmitted]
  OBVIOUS
<1>1. /\ sequenceNumber \in Numbers /\ vrUr \in Numbers /\ vrUh \in Numbers /\ vrUx \in Numbers
      /\ reordering \in NotRunning .. MaxAwait /\ transmitted \in Nat
      /\ \A k \in DOMAIN rxBuffer : k \in Numbers /\ rxBuffer[k].sn = k
  BY DEF NumbersOK
<1>2. sequenceNumber' \in Numbers
  <2>1. sequenceNumber + 1 <= 2 * Modulus - 1
    BY <1>1, Constants DEF Numbers
  <2> QED
    BY <1>1, <2>1, PlusIs
<1>3. Waiting' = Waiting
  BY DEF Waiting
<1>4. \A p \in Waiting \cup air : /\ p.no \in Nat /\ Age(p) \in 1 .. WindowSize
                                  /\ p.sn = Minus(sequenceNumber, Age(p)) /\ Age(p)' = Age(p) + 1
  <2>1. \A p \in Waiting \cup air : /\ p.no \in Nat /\ Age(p) \in 1 .. WindowSize
                                    /\ p.sn = Minus(sequenceNumber, Age(p))
    BY DEF NumbersOK
  <2>2. \A p \in Waiting \cup air : Age(p)' = Age(p) + 1
    BY <1>1, <2>1 DEF Age
  <2> QED
    BY <2>1, <2>2
<1>5. \A p \in air : Age(p) <= Spread - 1
  BY <1>4, Constants DEF Age
<1>6. reordering # NotRunning => WindowOK
  BY DEF WindowInv
<1>7. \A p \in Waiting : Age(p) <= WindowSize - 1
  <2> SUFFICES ASSUME NEW p \in Waiting PROVE Age(p) <= WindowSize - 1
    OBVIOUS
  <2>1. reordering # NotRunning
    BY DEF WindowInv
  <2>2. Age(p) <= Spread + MaxAwait + reordering
    BY <1>6, <2>1 DEF WindowOK
  <2>3. Age(p) \in Int
    BY <1>4
  <2> QED
    BY <1>1, <2>1, <2>2, <2>3, Constants DEF NotRunning
<1>8. \A p \in Waiting \cup air : /\ Age(p)' \in 1 .. WindowSize
                                  /\ p.sn = Minus(sequenceNumber', Age(p)')
  <2> SUFFICES ASSUME NEW p \in Waiting \cup air
               PROVE  Age(p)' \in 1 .. WindowSize /\ p.sn = Minus(sequenceNumber', Age(p)')
    OBVIOUS
  <2>1. Age(p) \in 1 .. WindowSize /\ Age(p) <= WindowSize - 1 /\ Age(p)' = Age(p) + 1
    BY <1>4, <1>5, <1>7, Constants
  <2>2. Minus(Plus(sequenceNumber, 1), Age(p) + 1) = Minus(sequenceNumber, Age(p))
    BY <1>1, <2>1, NextMinus, Constants
  <2> QED
    BY <1>4, <2>1, <2>2, Constants
<1>9. Age(new)' = 1 /\ new.no = transmitted /\ new.sn = Minus(sequenceNumber', Age(new)')
  <2>1. Age(new)' = 1
    BY <1>0, <1>1 DEF Age
  <2>2. Minus(Plus(sequenceNumber, 1), 0 + 1) = Minus(sequenceNumber, 0)
    BY <1>1, NextMinus, Constants
  <2>3. Minus(sequenceNumber, 0) = sequenceNumber
    <3>1. 0 \in Numbers
      BY Constants DEF Numbers
    <3>2. Minus(sequenceNumber, 0) = IF 0 <= sequenceNumber THEN sequenceNumber - 0
                                     ELSE sequenceNumber - 0 + Modulus
      BY <1>1, <3>1, Distance
    <3> QED
      BY <1>1, <3>2 DEF Numbers
  <2> QED
    BY <1>0, <2>1, <2>2, <2>3
<1>10. \A p \in Waiting \cup air : p.no < transmitted
  BY <1>1, <1>4 DEF Age
<1>11. NumbersOK'
  <2>1. \A p \in Waiting' \cup air' :
          /\ p.no \in Nat /\ Age(p)' \in 1 .. WindowSize
          /\ p.sn = Minus(sequenceNumber', Age(p)')
    <3> SUFFICES ASSUME NEW p \in Waiting' \cup air'
                 PROVE  /\ p.no \in Nat /\ Age(p)' \in 1 .. WindowSize
                        /\ p.sn = Minus(sequenceNumber', Age(p)')
      OBVIOUS
    <3>1. CASE p \in Waiting \cup air
      BY <1>4, <1>8, <3>1
    <3>2. CASE p = new
      BY <1>1, <1>9, <3>2, Constants
    <3> QED
      BY <1>0, <1>3, <3>1, <3>2
  <2>2. \A p \in air' : Age(p)' <= Spread
    <3> SUFFICES ASSUME NEW p \in air' PROVE Age(p)' <= Spread
      OBVIOUS
    <3>1. CASE p \in air
      BY <1>4, <1>5, <3>1, Constants
    <3>2. CASE p = new
      BY <1>9, <3>2, Constants
    <3> QED
      BY <1>0, <3>1, <3>2
  <2>3. \A p, q \in Waiting' \cup air' : p.no = q.no => p = q
    <3>1. \A p, q \in Waiting \cup air : p.no = q.no => p = q
      BY DEF NumbersOK
    <3>2. \A p \in Waiting \cup air : p.no # new.no
      BY <1>1, <1>4, <1>9, <1>10
    <3>3. Waiting' \cup air' = (Waiting \cup air) \cup {new}
      BY <1>0, <1>3
    <3> QED
      BY <3>1, <3>2, <3>3
  <2>4. reordering' \in NotRunning .. MaxAwait
    BY <1>1, Constants DEF NotRunning
  <2>5. transmitted' \in Nat
    BY <1>1
  <2> QED
    BY <1>1, <1>2, <2>1, <2>2, <2>3, <2>4, <2>5 DEF NumbersOK
<1>12. WindowInv'
  <2>1. reordering' = NotRunning => reordering = NotRunning
    BY <1>1, Constants DEF NotRunning
  <2>2. CASE reordering = NotRunning
    BY <1>3, <2>2 DEF WindowInv
  <2>3. CASE reordering # NotRunning
    <3>1. WindowOK /\ reordering' = reordering + 1
      BY <1>6, <2>3
    <3>2. Depth(vrUr)' = Depth(vrUr) /\ Depth(vrUx)' = Depth(vrUx)
      BY DEF Depth, Minus
    <3>3. Behind(vrUh) \in Numbers /\ Depth(vrUx) \in Numbers
      BY <1>1, DepthOf DEF Depth
    <3>4. Behind(vrUh) + Depth(vrUx) <= Spread - 1 + MaxAwait + reordering
      BY <3>1 DEF WindowOK
    <3>5. Behind(vrUh) < Modulus - 1
      BY <1>1, <3>3, <3>4, Constants DEF Numbers
    <3>6. Behind(vrUh)' = Behind(vrUh) + 1
      <4>1. Minus(sequenceNumber', vrUh) = Behind(vrUh) + 1
        BY <1>1, <3>5, NextBehind
      <4> QED
        BY <4>1 DEF Behind
    <3>7. /\ Behind(vrUh)' + Depth(vrUx)' <= Spread - 1 + MaxAwait + reordering'
          /\ vrUx' # vrUh' => Behind(vrUh)' <= Spread - 1 + reordering'
      <4>1. vrUx # vrUh => Behind(vrUh) <= Spread - 1 + reordering
        BY <3>1 DEF WindowOK
      <4> QED
        BY <1>1, <3>1, <3>2, <3>3, <3>4, <3>6, <4>1, Constants DEF Numbers
    <3>8. \A p \in Waiting' :
            /\ Age(p)' - Behind(vrUh)' \in 1 .. Depth(vrUr)'
            /\ Age(p)' <= Spread + MaxAwait + reordering'
            /\ Age(p)' - Behind(vrUh)' <= Depth(vrUx)' => Age(p)' <= Spread + reordering'
      <4> SUFFICES ASSUME NEW p \in Waiting
                   PROVE  /\ Age(p)' - Behind(vrUh)' \in 1 .. Depth(vrUr)'
                          /\ Age(p)' <= Spread + MaxAwait + reordering'
                          /\ Age(p)' - Behind(vrUh)' <= Depth(vrUx)'
                             => Age(p)' <= Spread + reordering'
        BY <1>3
      <4>1. /\ Age(p) - Behind(vrUh) \in 1 .. Depth(vrUr)
            /\ Age(p) <= Spread + MaxAwait + reordering
            /\ Age(p) - Behind(vrUh) <= Depth(vrUx) => Age(p) <= Spread + reordering
        BY <3>1 DEF WindowOK
      <4>2. Age(p)' = Age(p) + 1 /\ Age(p) \in Int
        BY <1>4
      <4>3. Age(p)' - Behind(vrUh)' = Age(p) - Behind(vrUh)
        BY <3>3, <3>6, <4>2 DEF Numbers
      <4> QED
        BY <1>1, <3>1, <3>2, <4>1, <4>2, <4>3, Constants
    <3>9. Depth(vrUr)' \in 1 .. WindowSize /\ Depth(vrUx)' < Depth(vrUr)'
      BY <3>1, <3>2 DEF WindowOK
    <3> QED
      BY <2>1, <2>3, <3>7, <3>8, <3>9 DEF WindowInv, WindowOK
  <2> QED
    BY <2>2, <2>3
<1> QED
  BY <1>11, <1>12

LEMMA ArriveOK ==
  ASSUME NumbersOK, WindowInv, NEW p \in air, Arrive(p)
  PROVE  NumbersOK' /\ WindowInv'
<1>1. DoReceivePdu(p) /\ air' \subseteq air /\ UNCHANGED <<sequenceNumber, transmitted>>
  BY DEF Arrive, sender
<1>2. CASE Discarded(p, Minus(vrUh, WindowSize))
  <2>1. UNCHANGED window
    BY <1>1, <1>2 DEF DoReceivePdu, receiver
  <2> QED
    BY <1>1, <2>1, SameWindow
<1>3. CASE ~Discarded(p, Minus(vrUh, WindowSize))
  <2>1. Moved(Placed(p))
    BY <1>1, <1>3, InsideMoves, OutsideMoves DEF WindowInv
  <2>2. \A k \in DOMAIN Placed(p) : Placed(p)[k].sn = k /\ Placed(p)[k] \in Waiting \cup air
    BY DEF Placed, Waiting, NumbersOK
  <2> QED
    BY <1>1, <2>1, <2>2, MovedInv
<1> QED
  BY <1>2, <1>3

LEMMA TransmitOK ==
  ASSUME RlcInv, DoTransmitPdcpPdu
  PROVE  RlcInv'
<1>1. NumbersOK' /\ WindowInv'
  BY SameWindow DEF RlcInv, DoTransmitPdcpPdu, receiver
<1>2. PICK size \in SduSizes :
        IF BytesOf(txBuffer) + size <= MaxTxBufferSize
        THEN /\ sdus' = Append(sdus, size)
             /\ txBuffer' = Append(txBuffer, Segment(Len(sdus) + 1, 0, size, "FULL_SDU"))
        ELSE UNCHANGED <<sdus, txBuffer>>
  BY DEF DoTransmitPdcpPdu
<1>3. txBuffer \in Seq(Segments) /\ sdus \in Seq(Nat) /\ size \in Nat
  BY RlcAssumption DEF RlcInv, SenderInv
<1>4. Segment(Len(sdus) + 1, 0, size, "FULL_SDU") \in Segments
  BY <1>3 DEF Segments, Segment
<1>5. txBuffer' \in Seq(Segments) /\ sdus' \in Seq(Nat)
  <2> DEFINE s == Segment(Len(sdus) + 1, 0, size, "FULL_SDU")
  <2> HIDE DEF s
  <2>1. Append(txBuffer, s) \in Seq(Segments) /\ Append(sdus, size) \in Seq(Nat)
    BY <1>3, <1>4 DEF s
  <2> QED
    BY <1>2, <1>3, <2>1 DEF s
<1>6. reported' = ReportOf(txBuffer') /\ rbsTimer' = FALSE
  BY DEF DoTransmitPdcpPdu
<1>7. SenderInv'
  BY <1>5, <1>6, ReportIs DEF SenderInv
<1> QED
  BY <1>1, <1>7 DEF RlcInv

LEMMA OpportunityOK ==
  ASSUME RlcInv, NEW bytes \in Opportunities, DoNotifyTxOpportunity(bytes)
  PROVE  RlcInv'
<1>1. /\ txBuffer \in Seq(Segments) /\ sdus \in Seq(Nat) /\ reported \in Nat /\ rbsTimer \in BOOLEAN
      /\ reported > 0 /\ bytes \in Nat
      /\ UNCHANGED <<rxBuffer, vrUr, vrUx, vrUh, reassembly, sdus>>
  BY RlcAssumption DEF RlcInv, SenderInv, DoNotifyTxOpportunity
<1>2. reported' \in Nat /\ (bytes <= 2 => reported' > 0)
  <2>1. reported' = IF bytes <= 2 THEN reported ELSE Granted(bytes)
    BY DEF DoNotifyTxOpportunity
  <2> QED
    BY <1>1, <2>1 DEF Granted
<1>3. CASE bytes <= 2 \/ txBuffer = << >>
  <2>1. UNCHANGED <<txBuffer, sequenceNumber, rbsTimer, air, reordering, transmitted>>
    BY <1>3 DEF DoNotifyTxOpportunity
  <2>2. NumbersOK' /\ WindowInv'
    <3>1. UNCHANGED <<sequenceNumber, transmitted, window>> /\ air' \subseteq air
      BY <1>1, <2>1 DEF window
    <3> QED
      BY <3>1, SameWindow DEF RlcInv
  <2>3. SenderInv'
    BY <1>1, <1>2, <1>3, <2>1 DEF SenderInv
  <2> QED
    BY <2>2, <2>3 DEF RlcInv
<1>4. CASE ~(bytes <= 2 \/ txBuffer = << >>)
  <2> DEFINE pdu == Fill(txBuffer, bytes - 2)
  <2>1. /\ txBuffer' = pdu.buffer
        /\ air' = air \cup {[sn |-> sequenceNumber, data |-> pdu.data, no |-> transmitted]}
        /\ sequenceNumber' = Plus(sequenceNumber, 1)
        /\ transmitted' = transmitted + 1
        /\ rbsTimer' = (rbsTimer \/ txBuffer' # << >>)
        /\ reordering' = IF reordering = NotRunning THEN NotRunning ELSE reordering + 1
    BY <1>4 DEF DoNotifyTxOpportunity
  <2>2. reordering < MaxAwait /\ \A p \in air : transmitted - p.no < Spread
    BY DEF DoNotifyTxOpportunity
  <2>3. NumbersOK' /\ WindowInv'
    <3>1. PICK data : data = pdu.data
      OBVIOUS
    <3>2. air' = air \cup {[sn |-> sequenceNumber, data |-> data, no |-> transmitted]}
      BY <2>1, <3>1
    <3> QED
      BY <1>1, <2>1, <2>2, <3>2, SentOK DEF RlcInv
  <2>4. pdu.buffer \in Seq(Segments)
    BY <1>1, <1>4, FillIs
  <2> HIDE DEF pdu
  <2>5. SenderInv'
    <3>1. rbsTimer' \in BOOLEAN
      BY <2>1
    <3>2. txBuffer' # << >> => rbsTimer'
      BY <2>1
    <3> QED
      BY <1>1, <1>2, <2>1, <2>4, <3>1, <3>2 DEF SenderInv
  <2> QED
    BY <2>3, <2>5 DEF RlcInv
<1> QED
  BY <1>3, <1>4

LEMMA RbsTimerOK ==
  ASSUME RlcInv, ExpireRbsTimer
  PROVE  RlcInv'
<1>1. NumbersOK' /\ WindowInv'
  BY SameWindow DEF RlcInv, ExpireRbsTimer, receiver
<1>2. /\ txBuffer \in Seq(Segments) /\ sdus \in Seq(Nat) /\ reported \in Nat
      /\ txBuffer' = txBuffer /\ sdus' = sdus
  BY DEF RlcInv, SenderInv, ExpireRbsTimer
<1>3. /\ rbsTimer' = (txBuffer # << >>)
      /\ reported' = IF txBuffer # << >> THEN ReportOf(txBuffer) ELSE reported
  BY DEF ExpireRbsTimer
<1>4. rbsTimer' \in BOOLEAN
  BY <1>3
<1>5. reported' \in Nat /\ (txBuffer # << >> => reported' > 0)
  BY <1>2, <1>3, ReportIs
<1>6. SenderInv'
  BY <1>2, <1>4, <1>5 DEF SenderInv
<1> QED
  BY <1>1, <1>6 DEF RlcInv

LEMMA InitOK == Init => RlcInv
<1> SUFFICES ASSUME Init PROVE RlcInv
  OBVIOUS
<1>1. sequenceNumber \in Numbers /\ 0 \in Numbers
  BY RlcAssumption, Constants DEF Init, Numbers
<1>2. DOMAIN rxBuffer = {} /\ Waiting = {} /\ air = {}
  BY DEF Init, Waiting
<1>3. /\ vrUr = sequenceNumber /\ vrUh = sequenceNumber /\ vrUx = 0
      /\ reordering = NotRunning /\ transmitted = 0
  BY DEF Init
<1>4. NumbersOK
  BY <1>1, <1>2, <1>3, Constants DEF NumbersOK, NotRunning
<1>5. WindowInv
  BY <1>2, <1>3 DEF WindowInv
<1>6. SenderInv
  <2>1. txBuffer = << >> /\ sdus = << >> /\ reported = 0 /\ rbsTimer = FALSE
    BY DEF Init
  <2>2. \A S : << >> \in Seq(S)
    OBVIOUS
  <2> QED
    BY <2>1, <2>2 DEF SenderInv
<1> QED
  BY <1>4, <1>5, <1>6 DEF RlcInv

LEMMA StepOK == RlcInv /\ [Next]_vars => RlcInv'
<1> SUFFICES ASSUME RlcInv, [Next]_vars PROVE RlcInv'
  OBVIOUS
<1>1. CASE DoTransmitPdcpPdu
  BY <1>1, TransmitOK
<1>2. ASSUME NEW bytes \in Opportunities, DoNotifyTxOpportunity(bytes) PROVE RlcInv'
  BY <1>2, OpportunityOK
<1>3. CASE ExpireRbsTimer
  BY <1>3, RbsTimerOK
<1>4. UNCHANGED <<sender, sdus>> => SenderInv'
  BY DEF RlcInv, SenderInv, sender
<1>5. ASSUME NEW p \in air, Arrive(p) PROVE RlcInv'
  <2>1. NumbersOK' /\ WindowInv'
    BY <1>5, ArriveOK DEF RlcInv
  <2>2. UNCHANGED <<sender, sdus>>
    BY <1>5 DEF Arrive
  <2> QED
    BY <1>4, <2>1, <2>2 DEF RlcInv
<1>6. ASSUME NEW p \in air, Lose(p) PROVE RlcInv'
  <2>1. NumbersOK' /\ WindowInv'
    BY <1>6, SameWindow DEF RlcInv, Lose, sender, receiver
  <2>2. UNCHANGED <<sender, sdus>>
    BY <1>6 DEF Lose
  <2> QED
    BY <1>4, <2>1, <2>2 DEF RlcInv
<1>7. CASE ExpireReorderingTimer
  <2>1. Moved(rxBuffer)
    BY <1>7, ExpireMoves DEF RlcInv, WindowInv
  <2>2. \A k \in DOMAIN rxBuffer : rxBuffer[k].sn = k /\ rxBuffer[k] \in Waiting \cup air
    BY DEF RlcInv, Waiting, NumbersOK
  <2>3. UNCHANGED <<sender, sdus>> /\ UNCHANGED <<sequenceNumber, transmitted>> /\ air' = air
    BY <1>7 DEF ExpireReorderingTimer, sender
  <2>4. NumbersOK' /\ WindowInv'
    BY <2>1, <2>2, <2>3, MovedInv DEF RlcInv
  <2> QED
    BY <1>4, <2>3, <2>4 DEF RlcInv
<1>8. CASE UNCHANGED vars
  <2>1. NumbersOK' /\ WindowInv'
    BY <1>8, SameWindow DEF RlcInv, vars, sender, receiver
  <2> QED
    BY <1>4, <1>8, <2>1 DEF RlcInv, vars
<1> QED
  BY <1>1, <1>2, <1>3, <1>5, <1>6, <1>7, <1>8 DEF Next

(* The numbers, the window and what the sender waits for are as they       *)
(* should be in every state.                                               *)
THEOREM RlcInvariant == Safety => []RlcInv
<1>1. Init => RlcInv
  BY InitOK
<1>2. RlcInv /\ [Next]_vars => RlcInv'
  BY StepOK
<1> QED
  BY <1>1, <1>2, PTL DEF Safety

(* A PDU in the buffer is at most half a cycle old, and no number stands   *)
(* for two PDUs at once, whatever is lost, late or received twice.         *)
THEOREM NumbersSuffice == Safety => []NoAliasing
<1>1. RlcInv => NoAliasing
  <2> SUFFICES ASSUME RlcInv PROVE NoAliasing
    OBVIOUS
  <2>1. NumbersOK
    BY DEF RlcInv
  <2>2. \A p \in Waiting : transmitted - p.no <= WindowSize
    BY <2>1, PduIs, Constants DEF Age
  <2>3. ASSUME NEW p \in Waiting \cup air, NEW q \in Waiting \cup air, p.sn = q.sn PROVE p = q
    <3>1. Age(p) = Age(q)
      BY <2>1, <2>3, PduIs
    <3>2. p.no \in Nat /\ q.no \in Nat /\ transmitted \in Nat
      BY <2>1 DEF NumbersOK
    <3>3. p.no = q.no
      BY <3>1, <3>2 DEF Age
    <3> QED
      BY <2>1, <3>3 DEF NumbersOK
  <2> QED
    BY <2>2, <2>3 DEF NoAliasing, Waiting
<1> QED
  BY <1>1, RlcInvariant, PTL

(* Where a PDU is missing the reordering timer runs, and where data waits  *)
(* the MAC knows of it or is going to be told again.                       *)
THEOREM NothingStranded == Safety => []NeverStranded
<1>1. RlcInv => NeverStranded
  BY DEF RlcInv, WindowInv, SenderInv, NeverStranded
<1> QED
  BY <1>1, RlcInvariant, PTL

----------------------------------------------------------------------------
(* What is sent                                                            *)

(* A place in the stream of all bytes of all SDUs                          *)
Place(i, b) == [sdu |-> i, from |-> b]
Places == [sdu : Nat, from : Nat]
NotAfter(a, b) == a.sdu < b.sdu \/ (a.sdu = b.sdu /\ a.from <= b.from)

(* A piece of an SDU says by its status which ends of it it has.           *)
StatusOf(from, to, size) ==
  IF from = 0 THEN IF to = size THEN "FULL_SDU" ELSE "FIRST_SEGMENT"
  ELSE IF to = size THEN "LAST_SEGMENT" ELSE "MIDDLE_SEGMENT"
IsPart(s) ==
  /\ s.sdu \in 1 .. Len(sdus) /\ s.from \in Nat /\ s.to \in Nat
  /\ s.from < s.to /\ s.to <= sdus[s.sdu]
  /\ s.status = StatusOf(s.from, s.to, sdus[s.sdu])

(* Pieces that follow each other in the stream                             *)
Stretch(d) ==
  /\ d \in Seq(Segments)
  /\ \A k \in 1 .. Len(d) : IsPart(d[k]) /\ d[k].sdu = d[1].sdu + k - 1
  /\ \A k \in 1 .. Len(d) : k > 1 => d[k].from = 0
  /\ \A k \in 1 .. Len(d) : k < Len(d) => d[k].to = sdus[d[k].sdu]

Start(d) == Place(d[1].sdu, d[1].from)
After(s) == IF s.to = sdus[s.sdu] THEN Place(s.sdu + 1, 0) ELSE Place(s.sdu, s.to)
End(d) == After(d[Len(d)])

(* What waits to be sent is the end of the stream.                         *)
Unsent(d) ==
  /\ Stretch(d)
  /\ d # << >> => d[Len(d)].sdu = Len(sdus) /\ d[Len(d)].to = sdus[Len(sdus)]
HeadOf(d) == IF d = << >> THEN Place(Len(sdus) + 1, 0) ELSE Start(d)

(* How Fill splits the buffer: the last segment of the PDU and the bytes   *)
(* taken of it                                                             *)
Split(buffer, data, rest, last, taken) ==
  LET whole == taken = SizeOf(buffer[last])
      drop == IF whole THEN last ELSE last - 1
  IN /\ data \in Seq(Segments) /\ Len(data) = last
     /\ \A k \in 1 .. last - 1 : data[k] = buffer[k]
     /\ data[last] = Cut(buffer[last], taken)
     /\ rest \in Seq(Segments) /\ Len(rest) = Len(buffer) - drop
     /\ \A k \in 1 .. Len(rest) :
          rest[k] = IF k = 1 /\ ~whole THEN Rest(buffer[last], taken) ELSE buffer[drop + k]

LEMMA BytesAre ==
  ASSUME NEW buffer \in Seq(Segments)
  PROVE  \E g : Sums(buffer, Len(buffer), g) /\ BytesOf(buffer) = g[Len(buffer)]
<1> DEFINE n == Len(buffer)
           upTo == CHOOSE g : Sums(buffer, n, g)
<1>1. BytesOf(buffer) = upTo[n]
  BY DEF BytesOf, Sums
<1>2. Sums(buffer, n, upTo)
  BY SumsExist
<1> HIDE DEF upTo
<1> QED
  BY <1>1, <1>2

LEMMA SumsAre ==
  ASSUME NEW buffer, NEW n \in Nat, NEW g, Sums(buffer, n, g)
  PROVE  g[0] = 0 /\ \A k \in 1 .. n : g[k] = g[k - 1] + SizeOf(buffer[k])
<1>1. \A k \in 0 .. n : g[k] = IF k = 0 THEN 0 ELSE g[k - 1] + SizeOf(buffer[k])
  BY DEF Sums
<1> QED
  BY <1>1

LEMMA BytesOfAppend ==
  ASSUME NEW buffer \in Seq(Segments), NEW s \in Segments
  PROVE  BytesOf(Append(buffer, s)) = BytesOf(buffer) + SizeOf(s)
<1> DEFINE n == Len(buffer)
           more == Append(buffer, s)
<1>1. more \in Seq(Segments) /\ Len(more) = n + 1 /\ n \in Nat
      /\ more[n + 1] = s /\ \A k \in 1 .. n : more[k] = buffer[k]
  OBVIOUS
<1>2. PICK g : Sums(buffer, n, g) /\ BytesOf(buffer) = g[n]
  BY BytesAre
<1>3. PICK h : Sums(more, n + 1, h) /\ BytesOf(more) = h[n + 1]
  BY <1>1, BytesAre
<1> HIDE DEF more, n
<1>4. g[0] = 0 /\ \A k \in 1 .. n : g[k] = g[k - 1] + SizeOf(buffer[k])
  BY <1>1, <1>2, SumsAre
<1>5. h[0] = 0 /\ \A k \in 1 .. n + 1 : h[k] = h[k - 1] + SizeOf(more[k])
  BY <1>1, <1>3, SumsAre
<1> DEFINE T == {k \in 0 .. n : g[k] = h[k]}
<1>6. 0 \in T
  BY <1>1, <1>4, <1>5
<1>7. ASSUME NEW m \in 0 .. n - 1, m \in T PROVE m + 1 \in T
  <2>1. m + 1 \in 1 .. n /\ m + 1 \in 1 .. n + 1 /\ m + 1 - 1 = m /\ more[m + 1] = buffer[m + 1]
    BY <1>1
  <2>2. g[m + 1] = g[m] + SizeOf(buffer[m + 1]) /\ h[m + 1] = h[m] + SizeOf(buffer[m + 1])
    BY <1>4, <1>5, <2>1
  <2> QED
    BY <1>1, <1>7, <2>1, <2>2
<1>8. n \in T
  <2> HIDE DEF T
  <2> QED
    BY <1>1, <1>6, <1>7, UpTo
<1>9. h[n + 1] = h[n] + SizeOf(s)
  <2>1. n + 1 \in 1 .. n + 1 /\ n + 1 - 1 = n
    BY <1>1
  <2> QED
    BY <1>1, <1>5, <2>1
<1> QED
  BY <1>2, <1>3, <1>8, <1>9 DEF more, n

LEMMA BytesOfNone == BytesOf(<< >>) = 0
<1>1. << >> \in Seq(Segments) /\ Len(<< >>) = 0
  OBVIOUS
<1>2. PICK g : Sums(<< >>, 0, g) /\ BytesOf(<< >>) = g[0]
  BY <1>1, BytesAre
<1> QED
  BY <1>2, SumsAre

(* There is room for the first segment, and a segment takes no more than   *)
(* its size and two bytes of it.                                           *)
LEMMA RoomIs ==
  ASSUME NEW buffer \in Seq(Segments), NEW size \in Int
  PROVE  /\ RoomFor(1, buffer, size) = size
         /\ \A k \in 1 .. Len(buffer) : RoomFor(k, buffer, size) \in Int
         /\ \A k \in 1 .. Len(buffer) - 1 :
              RoomFor(k + 1, buffer, size) >= RoomFor(k, buffer, size) - SizeOf(buffer[k]) - 2
<1>1. RoomFor(1, buffer, size) = size
  <2>1. SubSeq(buffer, 1, 0) = << >>
    OBVIOUS
  <2>2. RoomFor(1, buffer, size) = size - BytesOf(SubSeq(buffer, 1, 1 - 1)) - (3 * (1 - 1) + 1) \div 2
    BY DEF RoomFor
  <2>3. 1 - 1 = 0 /\ (3 * (1 - 1) + 1) \div 2 = 0
    OBVIOUS
  <2>4. BytesOf(SubSeq(buffer, 1, 1 - 1)) = 0
    BY <2>1, <2>3, BytesOfNone, Zenon
  <2> QED
    BY <2>2, <2>3, <2>4
<1>2. ASSUME NEW k \in 1 .. Len(buffer)
      PROVE  /\ SubSeq(buffer, 1, k - 1) \in Seq(Segments) /\ BytesOf(SubSeq(buffer, 1, k - 1)) \in Nat
             /\ RoomFor(k, buffer, size) \in Int
             /\ RoomFor(k, buffer, size) = size - BytesOf(SubSeq(buffer, 1, k - 1)) - (3 * (k - 1) + 1) \div 2
  <2>1. SubSeq(buffer, 1, k - 1) \in Seq(Segments)
    <3>1. \A j \in 1 .. k - 1 : buffer[j] \in Segments
      OBVIOUS
    <3> QED
      BY <3>1, SubSeqProperties
  <2>2. BytesOf(SubSeq(buffer, 1, k - 1)) \in Nat
    BY <2>1, BytesOfNat
  <2>3. RoomFor(k, buffer, size) = size - BytesOf(SubSeq(buffer, 1, k - 1)) - (3 * (k - 1) + 1) \div 2
    BY DEF RoomFor
  <2> QED
    BY <2>1, <2>2, <2>3
<1>3. ASSUME NEW k \in 1 .. Len(buffer) - 1
      PROVE  RoomFor(k + 1, buffer, size) >= RoomFor(k, buffer, size) - SizeOf(buffer[k]) - 2
  <2>1. k \in 1 .. Len(buffer) /\ k + 1 \in 1 .. Len(buffer) /\ k + 1 - 1 = k /\ buffer[k] \in Segments
    OBVIOUS
  <2>2. SubSeq(buffer, 1, k) = Append(SubSeq(buffer, 1, k - 1), buffer[k])
    BY <2>1
  <2> DEFINE a == BytesOf(SubSeq(buffer, 1, k - 1))
  <2>3. BytesOf(SubSeq(buffer, 1, k)) = a + SizeOf(buffer[k])
    BY <1>2, <2>1, <2>2, BytesOfAppend
  <2>4. SizeOf(buffer[k]) \in Int /\ a \in Nat
    <3>1. SizeOf(buffer[k]) \in Int
      BY <2>1 DEF Segments, SizeOf
    <3> QED
      BY <1>2, <2>1, <3>1
  <2>5. /\ RoomFor(k + 1, buffer, size) = size - (a + SizeOf(buffer[k])) - (3 * k + 1) \div 2
        /\ RoomFor(k, buffer, size) = size - a - (3 * (k - 1) + 1) \div 2
    BY <1>2, <2>1, <2>3
  <2>6. (3 * k + 1) \div 2 <= (3 * (k - 1) + 1) \div 2 + 2
        /\ (3 * k + 1) \div 2 \in Int /\ (3 * (k - 1) + 1) \div 2 \in Int
    OBVIOUS
  <2> HIDE DEF a
  <2> QED
    BY <2>4, <2>5, <2>6
<1> QED
  BY <1>1, <1>2, <1>3

LEMMA FillSplits ==
  ASSUME NEW buffer \in Seq(Segments), buffer # << >>, NEW size \in Nat \ {0},
         \A k \in 1 .. Len(buffer) : SizeOf(buffer[k]) > 0
  PROVE  \E last \in 1 .. Len(buffer), taken \in Nat \ {0} :
           /\ taken <= SizeOf(buffer[last])
           /\ Split(buffer, Fill(buffer, size).data, Fill(buffer, size).buffer, last, taken)
<1> DEFINE room(k) == RoomFor(k, buffer, size)
           Stops == {k \in DOMAIN buffer :
                     \/ room(k) - SizeOf(buffer[k]) <= 2
                     \/ SizeOf(buffer[k]) > MaxLI
                     \/ k = Len(buffer)}
           last == Min(Stops)
           s == buffer[last]
           taken == IF SizeOf(s) < room(last) THEN SizeOf(s) ELSE room(last)
           kept == IF taken = SizeOf(s) THEN << >> ELSE <<Rest(s, taken)>>
           data == Append(SubSeq(buffer, 1, last - 1), Cut(s, taken))
           tail == SubSeq(buffer, last + 1, Len(buffer))
           rest == kept \o tail
<1>1. Len(buffer) \in Nat \ {0} /\ DOMAIN buffer = 1 .. Len(buffer)
      /\ \A k \in 1 .. Len(buffer) : buffer[k] \in Segments
  BY EmptySeq
<1>0. /\ room(1) = size
      /\ \A k \in 1 .. Len(buffer) : room(k) \in Int
      /\ \A k \in 1 .. Len(buffer) - 1 : room(k + 1) >= room(k) - SizeOf(buffer[k]) - 2
  <2>1. size \in Int
    OBVIOUS
  <2> QED
    BY <2>1, RoomIs
<1>2. last \in Stops /\ \A m \in Stops : last <= m
  <2>1. Len(buffer) \in Stops /\ Stops \in SUBSET Nat
    BY <1>1
  <2>2. \E n \in Stops : \A m \in Stops : n <= m
    <3> HIDE DEF Stops
    <3> QED
      BY <2>1, Least
  <2> HIDE DEF Stops
  <2> QED
    BY <2>2 DEF Min
<1>3. last \in 1 .. Len(buffer)
  BY <1>1, <1>2
<1>4. last > 1 => room(last - 1) - SizeOf(buffer[last - 1]) > 2
  <2> SUFFICES ASSUME last > 1 PROVE room(last - 1) - SizeOf(buffer[last - 1]) > 2
    OBVIOUS
  <2>1. last - 1 \in 1 .. Len(buffer) /\ ~(last <= last - 1)
    BY <1>1, <1>3
  <2>2. last - 1 \notin Stops
    BY <1>2, <2>1
  <2>3. SizeOf(buffer[last - 1]) \in Int /\ room(last - 1) \in Int
    <3>1. buffer[last - 1] \in Segments
      BY <1>1, <2>1
    <3> QED
      BY <1>0, <2>1, <3>1 DEF Segments, SizeOf
  <2>4. ~(room(last - 1) - SizeOf(buffer[last - 1]) <= 2)
    BY <1>1, <2>1, <2>2
  <2> HIDE DEF room, last
  <2> QED
    BY <2>3, <2>4
<1>5. Fill(buffer, size).data = data /\ Fill(buffer, size).buffer = rest
  BY DEF Fill
<1> HIDE DEF last, Stops
<1>6. room(last) \in Int /\ room(last) > 0
  <2>1. CASE last = 1
    BY <1>0, <1>3, <2>1
  <2>2. CASE last > 1
    <3>1. last - 1 \in 1 .. Len(buffer) - 1 /\ last - 1 + 1 = last /\ last - 1 \in 1 .. Len(buffer)
      BY <1>1, <1>3, <2>2
    <3>2. room(last) >= room(last - 1) - SizeOf(buffer[last - 1]) - 2
      BY <1>0, <3>1
    <3>3. SizeOf(buffer[last - 1]) \in Int /\ room(last - 1) \in Int /\ room(last) \in Int
      <4>1. buffer[last - 1] \in Segments
        BY <1>1, <3>1
      <4>2. SizeOf(buffer[last - 1]) \in Int
        BY <4>1 DEF Segments, SizeOf
      <4> QED
        BY <1>0, <1>3, <3>1, <4>2
    <3> HIDE DEF room
    <3> QED
      BY <1>4, <2>2, <3>2, <3>3
  <2> QED
    BY <1>3, <2>1, <2>2
<1>7. s \in Segments /\ SizeOf(s) \in Nat \ {0}
  <2>1. s \in Segments /\ SizeOf(s) > 0
    BY <1>1, <1>3
  <2>2. SizeOf(s) \in Int
    BY <2>1 DEF Segments, SizeOf
  <2> QED
    BY <2>1, <2>2
<1>8. taken \in Nat \ {0} /\ taken <= SizeOf(s)
  <2> HIDE DEF room, s
  <2> QED
    BY <1>6, <1>7
<1> HIDE DEF taken
<1>9. Cut(s, taken) \in Segments /\ Rest(s, taken) \in Segments
  <2> HIDE DEF s
  <2>1. s.sdu \in Nat /\ s.from \in Int /\ s.to \in Int /\ s.from + taken <= s.to
        /\ s.status \in {"FULL_SDU", "FIRST_SEGMENT", "MIDDLE_SEGMENT", "LAST_SEGMENT"}
    BY <1>7, <1>8 DEF Segments, SizeOf
  <2>2. s.from + taken \in Int /\ s.from <= s.from + taken
    BY <1>8, <2>1
  <2> QED
    BY <2>1, <2>2 DEF Segments, Cut, Rest, Segment
<1> HIDE DEF s
<1>10. data \in Seq(Segments) /\ Len(data) = last
       /\ (\A k \in 1 .. last - 1 : data[k] = buffer[k]) /\ data[last] = Cut(s, taken)
  <2> DEFINE first == SubSeq(buffer, 1, last - 1)
  <2>1. first \in Seq(Segments) /\ Len(first) = last - 1
        /\ \A k \in 1 .. last - 1 : first[k] = buffer[k]
    <3>1. \A k \in 1 .. last - 1 : buffer[k] \in Segments
      BY <1>1, <1>3
    <3>2. first \in Seq(Segments)
      BY <1>1, <1>3, <3>1, SubSeqProperties
    <3> QED
      BY <1>1, <1>3, <3>2
  <2> HIDE DEF first
  <2>2. data = Append(first, Cut(s, taken))
    BY DEF first
  <2> HIDE DEF data
  <2> QED
    BY <1>1, <1>3, <1>9, <2>1, <2>2
<1>11. tail \in Seq(Segments) /\ Len(tail) = Len(buffer) - last
       /\ \A k \in 1 .. Len(buffer) - last : tail[k] = buffer[last + k]
  <2>1. \A k \in last + 1 .. Len(buffer) : buffer[k] \in Segments
    BY <1>1, <1>3
  <2>2. last + 1 \in Int /\ Len(buffer) \in Int
    BY <1>1, <1>3
  <2>3. /\ tail \in Seq(Segments)
        /\ Len(tail) = IF last + 1 <= Len(buffer) THEN Len(buffer) - (last + 1) + 1 ELSE 0
        /\ \A k \in 1 .. Len(buffer) - (last + 1) + 1 : tail[k] = buffer[last + 1 + k - 1]
    BY <2>1, <2>2, SubSeqProperties
  <2> HIDE DEF tail
  <2>4. Len(tail) = Len(buffer) - last
    <3>1. Len(tail) = IF last + 1 <= Len(buffer) THEN Len(buffer) - (last + 1) + 1 ELSE 0
      BY <2>3
    <3>2. PICK n \in Nat : n = Len(buffer)
      BY <1>1
    <3>3. last \in 1 .. n
      BY <1>3, <3>2
    <3>4. (IF last + 1 <= n THEN n - (last + 1) + 1 ELSE 0) = n - last
      BY <3>2, <3>3
    <3> QED
      BY <3>1, <3>2, <3>4
  <2>5. ASSUME NEW k \in 1 .. Len(buffer) - last PROVE tail[k] = buffer[last + k]
    <3>1. k \in 1 .. Len(buffer) - (last + 1) + 1 /\ last + 1 + k - 1 = last + k
      BY <1>1, <1>3
    <3> QED
      BY <2>3, <3>1
  <2> QED
    BY <2>3, <2>4, <2>5
<1> HIDE DEF tail, data
<1>12. Split(buffer, data, rest, last, taken)
  <2>1. CASE taken = SizeOf(s)
    <3>1. rest = tail
      BY <1>11, <2>1
    <3> HIDE DEF rest
    <3> QED
      BY <1>1, <1>3, <1>10, <1>11, <2>1, <3>1 DEF Split, s
  <2>2. CASE taken # SizeOf(s)
    <3>1. rest = <<Rest(s, taken)>> \o tail
      BY <2>2
    <3>2. PICK r : r = Rest(s, taken) /\ r \in Segments
      BY <1>9
    <3>3. rest \in Seq(Segments) /\ Len(rest) = Len(buffer) - last + 1
          /\ rest[1] = Rest(s, taken)
          /\ \A k \in 2 .. Len(rest) : rest[k] = buffer[last - 1 + k]
      <4>1. rest = <<r>> \o tail
        BY <3>1, <3>2
      <4>2. <<r>> \in Seq(Segments) /\ Len(<<r>>) = 1 /\ <<r>>[1] = r
        BY <3>2
      <4> HIDE DEF rest
      <4>3. rest \in Seq(Segments) /\ Len(rest) = 1 + Len(tail)
            /\ rest[1] = r /\ \A k \in 2 .. Len(rest) : rest[k] = tail[k - 1]
        BY <1>11, <4>1, <4>2
      <4>4. ASSUME NEW k \in 2 .. Len(rest) PROVE rest[k] = buffer[last - 1 + k]
        <5>1. k - 1 \in 1 .. Len(buffer) - last /\ last + (k - 1) = last - 1 + k
          BY <1>1, <1>3, <1>11, <4>3
        <5> QED
          BY <1>11, <4>3, <5>1
      <4> QED
        BY <1>1, <1>3, <1>11, <3>2, <4>3, <4>4
    <3> HIDE DEF rest
    <3>4. Len(rest) = Len(buffer) - (last - 1)
      BY <1>1, <1>3, <3>3
    <3>5. \A k \in 1 .. Len(rest) : k # 1 => k \in 2 .. Len(rest)
      BY <1>1, <1>3, <3>4
    <3> QED
      BY <1>10, <2>2, <3>3, <3>4, <3>5 DEF Split, s
  <2> QED
    BY <2>1, <2>2
<1> QED
  BY <1>3, <1>5, <1>8, <1>12 DEF s

(* Each part is a stretch, and the second begins where the first ends.     *)
LEMMA SplitStretch ==
  ASSUME sdus \in Seq(Nat), NEW buffer, buffer # << >>, Unsent(buffer), NEW data, NEW rest,
         NEW last \in 1 .. Len(buffer), NEW taken \in Nat \ {0}, taken <= SizeOf(buffer[last]),
         Split(buffer, data, rest, last, taken)
  PROVE  /\ Stretch(data) /\ data # << >> /\ Start(data) = Start(buffer)
         /\ Unsent(rest) /\ End(data) = HeadOf(rest)
<1> DEFINE n == Len(buffer)
           i == buffer[1].sdu
           s == buffer[last]
           whole == taken = SizeOf(s)
           drop == IF whole THEN last ELSE last - 1
<1>1. n \in Nat /\ n # 0 /\ last \in 1 .. n
  BY EmptySeq DEF Unsent, Stretch
<1>2. \A k \in 1 .. n :
        /\ IsPart(buffer[k]) /\ buffer[k].sdu = i + k - 1 /\ (k > 1 => buffer[k].from = 0)
        /\ k < n => buffer[k].to = sdus[buffer[k].sdu]
  BY DEF Unsent, Stretch
<1>3. i + n - 1 = Len(sdus) /\ buffer[n].to = sdus[Len(sdus)]
  BY <1>1, <1>2 DEF Unsent
<1>4. Len(sdus) \in Nat
  OBVIOUS
<1>5. \A k \in 1 .. n : /\ buffer[k].sdu \in 1 .. Len(sdus) /\ buffer[k].from \in Nat /\ buffer[k].to \in Nat
                        /\ buffer[k].from < buffer[k].to
                        /\ buffer[k].to = sdus[buffer[k].sdu]
                        /\ buffer[k].status = IF buffer[k].from = 0 THEN "FULL_SDU" ELSE "LAST_SEGMENT"
  <2> SUFFICES ASSUME NEW k \in 1 .. n
               PROVE  /\ buffer[k].sdu \in 1 .. Len(sdus) /\ buffer[k].from \in Nat /\ buffer[k].to \in Nat
                      /\ buffer[k].from < buffer[k].to
                      /\ buffer[k].to = sdus[buffer[k].sdu]
                      /\ buffer[k].status = IF buffer[k].from = 0 THEN "FULL_SDU" ELSE "LAST_SEGMENT"
    OBVIOUS
  <2>1. IsPart(buffer[k])
    BY <1>2
  <2>2. buffer[k].to = sdus[buffer[k].sdu]
    <3>1. CASE k < n
      BY <1>2, <3>1
    <3>2. CASE k = n
      BY <1>1, <1>2, <1>3, <3>2
    <3> QED
      BY <1>1, <3>1, <3>2
  <2> QED
    BY <2>1, <2>2 DEF IsPart, StatusOf
<1> HIDE DEF n
<1>6. /\ s.sdu = i + last - 1 /\ s.sdu \in 1 .. Len(sdus) /\ s.from \in Nat /\ s.to \in Nat
      /\ s.from < s.to /\ s.to = sdus[s.sdu] /\ (last > 1 => s.from = 0)
      /\ s.status = IF s.from = 0 THEN "FULL_SDU" ELSE "LAST_SEGMENT"
  BY <1>1, <1>2, <1>5
<1>7. i \in Nat
  BY <1>1, <1>5
<1>8. /\ data \in Seq(Segments) /\ Len(data) = last
      /\ \A k \in 1 .. last - 1 : data[k] = buffer[k]
      /\ data[last] = Cut(s, taken)
      /\ rest \in Seq(Segments) /\ Len(rest) = n - drop
      /\ \A k \in 1 .. Len(rest) :
           rest[k] = IF k = 1 /\ ~whole THEN Rest(s, taken) ELSE buffer[drop + k]
  BY DEF Split, n
<1> HIDE DEF s, i
<1>9. PICK t : t = Cut(s, taken)
  OBVIOUS
<1>10. /\ t.sdu = s.sdu /\ t.from = s.from /\ t.to = s.from + taken /\ t.to \in Nat
       /\ t.to <= s.to /\ (whole <=> t.to = s.to) /\ IsPart(t)
  <2>1. /\ t.sdu = s.sdu /\ t.from = s.from /\ t.to = s.from + taken
        /\ t.status = IF SizeOf(s) = taken THEN s.status
                      ELSE IF s.status = "FULL_SDU" THEN "FIRST_SEGMENT" ELSE "MIDDLE_SEGMENT"
    BY <1>9 DEF Cut, Segment
  <2>2. SizeOf(s) = s.to - s.from /\ taken <= s.to - s.from
    BY DEF SizeOf, s
  <2>3. t.to \in Nat /\ t.to <= s.to /\ (whole <=> t.to = s.to) /\ t.from < t.to
    BY <1>6, <2>1, <2>2
  <2>4. t.status = StatusOf(t.from, t.to, sdus[t.sdu])
    <3>1. CASE whole
      BY <1>6, <2>1, <2>3, <3>1 DEF StatusOf
    <3>2. CASE ~whole
      BY <1>6, <2>1, <2>3, <3>2 DEF StatusOf
    <3> QED
      BY <3>1, <3>2
  <2> QED
    BY <1>6, <2>1, <2>3, <2>4 DEF IsPart
<1>11. Stretch(data)
  <2>1. ASSUME NEW k \in 1 .. last
        PROVE  /\ IsPart(data[k]) /\ data[k].sdu = i + k - 1 /\ (k > 1 => data[k].from = 0)
               /\ k < last => data[k].to = sdus[data[k].sdu]
    <3>1. CASE k < last
      <4>1. k \in 1 .. last - 1 /\ k \in 1 .. n
        BY <1>1, <3>1
      <4>2. data[k] = buffer[k]
        BY <1>8, <4>1
      <4> QED
        BY <1>2, <1>5, <4>1, <4>2 DEF i
    <3>2. CASE k = last
      BY <1>1, <1>6, <1>8, <1>9, <1>10, <3>2
    <3> QED
      BY <1>1, <3>1, <3>2
  <2>2. data[1].sdu = i
    <3>1. 1 \in 1 .. last /\ i + 1 - 1 = i
      BY <1>1, <1>7
    <3> QED
      BY <2>1, <3>1
  <2> QED
    BY <1>8, <2>1, <2>2 DEF Stretch
<1>12. data # << >>
  <2>1. Len(data) # 0
    BY <1>1, <1>8
  <2> QED
    BY <2>1
<1>13. Start(data) = Start(buffer)
  <2>1. data[1].sdu = buffer[1].sdu /\ data[1].from = buffer[1].from
    <3>1. CASE last = 1
      BY <1>8, <1>9, <1>10, <3>1 DEF s
    <3>2. CASE last > 1
      <4>1. 1 \in 1 .. last - 1
        BY <1>1, <3>2
      <4> QED
        BY <1>8, <4>1
    <3> QED
      BY <1>1, <3>1, <3>2
  <2> QED
    BY <2>1 DEF Start
<1>14. CASE whole
  <2>1. Len(rest) = n - last /\ \A k \in 1 .. Len(rest) : rest[k] = buffer[last + k]
    BY <1>8, <1>14
  <2>2. ASSUME NEW k \in 1 .. Len(rest)
        PROVE  /\ IsPart(rest[k]) /\ rest[k].sdu = i + last + k - 1 /\ rest[k].from = 0
               /\ rest[k].to = sdus[rest[k].sdu]
    <3>1. last + k \in 1 .. n /\ last + k > 1 /\ rest[k] = buffer[last + k]
      BY <1>1, <2>1
    <3>2. i + (last + k) - 1 = i + last + k - 1
      BY <1>1, <1>7
    <3>3. /\ IsPart(buffer[last + k]) /\ buffer[last + k].sdu = i + (last + k) - 1
          /\ buffer[last + k].from = 0 /\ buffer[last + k].to = sdus[buffer[last + k].sdu]
      BY <1>2, <1>5, <3>1 DEF i
    <3> QED
      BY <3>1, <3>2, <3>3
  <2>3. rest # << >> => Len(rest) \in 1 .. Len(rest) /\ 1 \in 1 .. Len(rest)
    BY <1>1, <1>8, <2>1, EmptySeq
  <2>4. rest # << >> => rest[1].sdu = i + last /\ rest[1].from = 0
    <3>1. i + last + 1 - 1 = i + last
      BY <1>1, <1>7
    <3> QED
      BY <2>2, <2>3, <3>1
  <2>5. Stretch(rest)
    <3>1. ASSUME NEW k \in 1 .. Len(rest)
          PROVE IsPart(rest[k]) /\ rest[k].sdu = rest[1].sdu + k - 1 /\ rest[k].from = 0
                /\ rest[k].to = sdus[rest[k].sdu]
      <4>1. rest # << >>
        BY <1>8
      <4> QED
        BY <2>2, <2>4, <4>1
    <3> QED
      BY <1>8, <3>1 DEF Stretch
  <2>6. Unsent(rest)
    <3>1. ASSUME rest # << >> PROVE rest[Len(rest)].sdu = Len(sdus) /\ rest[Len(rest)].to = sdus[Len(sdus)]
      <4>1. Len(rest) \in 1 .. Len(rest)
        BY <2>3, <3>1
      <4>2. i + last + Len(rest) - 1 = i + n - 1
        BY <1>1, <1>7, <2>1
      <4>3. rest[Len(rest)].sdu = Len(sdus)
        BY <1>3, <2>2, <4>1, <4>2 DEF n, i
      <4> QED
        BY <2>2, <4>1, <4>3
    <3> QED
      BY <2>5, <3>1 DEF Unsent
  <2>7. End(data) = Place(i + last, 0)
    <3>1. data[last] = t /\ t.to = sdus[t.sdu] /\ t.sdu + 1 = i + last
      BY <1>1, <1>6, <1>7, <1>8, <1>9, <1>10, <1>14
    <3> QED
      BY <1>8, <3>1 DEF End, After
  <2>8. HeadOf(rest) = Place(i + last, 0)
    <3>1. CASE rest = << >>
      <4>1. Len(rest) = 0
        BY <3>1
      <4>2. i + last = Len(sdus) + 1
        <5>1. n = last
          BY <1>1, <2>1, <4>1
        <5> QED
          BY <1>1, <1>3, <1>4, <1>7, <5>1 DEF n, i
      <4> QED
        BY <3>1, <4>2 DEF HeadOf
    <3>2. CASE rest # << >>
      BY <2>4, <3>2 DEF HeadOf, Start
    <3> QED
      BY <3>1, <3>2
  <2> QED
    BY <1>11, <1>12, <1>13, <2>6, <2>7, <2>8
<1>15. CASE ~whole
  <2>1. /\ Len(rest) = n - last + 1 /\ rest[1] = Rest(s, taken)
        /\ \A k \in 1 .. Len(rest) : k # 1 => rest[k] = buffer[last - 1 + k]
    <3>1. Len(rest) = n - (last - 1)
      BY <1>8, <1>15
    <3>2. Len(rest) = n - last + 1 /\ 1 \in 1 .. Len(rest)
      BY <1>1, <3>1
    <3> QED
      BY <1>8, <1>15, <3>2
  <2>2. PICK r : r = Rest(s, taken)
    OBVIOUS
  <2>3. /\ r.sdu = s.sdu /\ r.from = s.from + taken /\ r.to = s.to /\ r.from > 0 /\ IsPart(r)
        /\ r.from = t.to
    <3>1. r.sdu = s.sdu /\ r.from = s.from + taken /\ r.to = s.to /\ r.status = "LAST_SEGMENT"
      BY <2>2 DEF Rest, Segment
    <3>2. r.from > 0 /\ r.from < r.to /\ r.from \in Nat /\ r.from = t.to
      BY <1>6, <1>10, <1>15, <3>1
    <3> QED
      BY <1>6, <3>1, <3>2 DEF IsPart, StatusOf
  <2>4. ASSUME NEW k \in 1 .. Len(rest)
        PROVE  /\ IsPart(rest[k]) /\ rest[k].sdu = i + last - 1 + k - 1 /\ (k > 1 => rest[k].from = 0)
               /\ rest[k].to = sdus[rest[k].sdu]
    <3>1. CASE k = 1
      <4>1. i + last - 1 = i + last - 1 + 1 - 1
        BY <1>1, <1>7
      <4> QED
        BY <1>6, <2>1, <2>2, <2>3, <3>1, <4>1
    <3>2. CASE k # 1
      <4>1. last - 1 + k \in 1 .. n /\ last - 1 + k > 1 /\ rest[k] = buffer[last - 1 + k]
        BY <1>1, <2>1, <3>2
      <4>2. i + (last - 1 + k) - 1 = i + last - 1 + k - 1
        BY <1>1, <1>7
      <4>3. /\ IsPart(buffer[last - 1 + k]) /\ buffer[last - 1 + k].sdu = i + (last - 1 + k) - 1
            /\ buffer[last - 1 + k].from = 0 /\ buffer[last - 1 + k].to = sdus[buffer[last - 1 + k].sdu]
        BY <1>2, <1>5, <4>1 DEF i
      <4> QED
        BY <4>1, <4>2, <4>3
    <3> QED
      BY <3>1, <3>2
  <2>5. 1 \in 1 .. Len(rest) /\ Len(rest) \in 1 .. Len(rest) /\ rest # << >>
    <3>1. Len(rest) > 0 /\ Len(rest) \in Nat
      BY <1>1, <2>1
    <3> QED
      BY <3>1
  <2>6. rest[1].sdu = i + last - 1
    BY <1>6, <2>1, <2>2, <2>3
  <2>7. Stretch(rest)
    BY <1>8, <2>4, <2>6 DEF Stretch
  <2>8. rest[Len(rest)].sdu = Len(sdus) /\ rest[Len(rest)].to = sdus[Len(sdus)]
    <3>1. i + last - 1 + Len(rest) - 1 = i + n - 1
      BY <1>1, <1>7, <2>1
    <3>2. rest[Len(rest)].sdu = Len(sdus)
      BY <1>3, <2>4, <2>5, <3>1 DEF n, i
    <3> QED
      BY <2>4, <2>5, <3>2
  <2>9. End(data) = Place(s.sdu, t.to)
    <3>1. data[last] = t /\ t.sdu = s.sdu /\ t.to # sdus[t.sdu]
      BY <1>6, <1>8, <1>9, <1>10, <1>15
    <3> QED
      BY <1>8, <3>1 DEF End, After
  <2>10. HeadOf(rest) = Place(s.sdu, t.to)
    BY <2>1, <2>2, <2>3, <2>5 DEF HeadOf, Start
  <2> QED
    BY <1>11, <1>12, <1>13, <2>7, <2>8, <2>9, <2>10 DEF Unsent
<1> QED
  BY <1>14, <1>15

----------------------------------------------------------------------------
(* What is put together again                                              *)

Pieces == [sdu : Nat, from : Nat, to : Nat]
Packets == Seq(Seq(Pieces))
UpToEnd(s) == <<[sdu |-> s.sdu, from |-> 0, to |-> s.to]>>

(* The packets of a PDU, where the first one may continue what was kept:   *)
(* they begin where their SDUs do, but for a first one thrown away.        *)
PacketsOf(d, keep, resumes) ==
  LET starts == Head(d).status \in {"FULL_SDU", "FIRST_SEGMENT"}
      list == << >> \o [k \in DOMAIN d |-> Piece(d[k])]
  IN IF resumes THEN <<AddAtEnd(keep, Head(list)[1])>> \o Tail(list)
     ELSE IF starts THEN list ELSE Tail(list)

LEMMA PacketsAre ==
  ASSUME sdus \in Seq(Nat), NEW d, Stretch(d), d # << >>, NEW keep, NEW resumes \in BOOLEAN,
         resumes => keep = <<[sdu |-> d[1].sdu, from |-> 0, to |-> d[1].from]>>
  PROVE  LET starts == Head(d).status \in {"FULL_SDU", "FIRST_SEGMENT"}
             packets == PacketsOf(d, keep, resumes)
             off == IF resumes \/ starts THEN 0 ELSE 1
         IN /\ starts <=> d[1].from = 0
            /\ packets \in Packets /\ Len(packets) = Len(d) - off
            /\ \A k \in 1 .. Len(packets) : packets[k] = UpToEnd(d[k + off])
<1> DEFINE starts == Head(d).status \in {"FULL_SDU", "FIRST_SEGMENT"}
           packets == PacketsOf(d, keep, resumes)
           off == IF resumes \/ starts THEN 0 ELSE 1
           pieces == [k \in DOMAIN d |-> Piece(d[k])]
           list == << >> \o pieces
           n == Len(d)
<1>1. n \in Nat /\ n # 0 /\ DOMAIN d = 1 .. n /\ Head(d) = d[1] /\ 1 \in 1 .. n
  BY EmptySeq DEF Stretch
<1>2. \A k \in 1 .. n : IsPart(d[k]) /\ (k > 1 => d[k].from = 0)
  BY DEF Stretch
<1>3. \A k \in 1 .. n : d[k].sdu \in Nat /\ d[k].from \in Nat /\ d[k].to \in Nat
  BY <1>2 DEF IsPart
<1>4. starts <=> d[1].from = 0
  <2>1. d[1].status = StatusOf(d[1].from, d[1].to, sdus[d[1].sdu])
    BY <1>1, <1>2 DEF IsPart
  <2> QED
    BY <1>1, <2>1 DEF StatusOf
<1>5. \A k \in 1 .. n : Piece(d[k]) \in Seq(Pieces)
  <2> SUFFICES ASSUME NEW k \in 1 .. n PROVE Piece(d[k]) \in Seq(Pieces)
    OBVIOUS
  <2>1. [sdu |-> d[k].sdu, from |-> d[k].from, to |-> d[k].to] \in Pieces
    BY <1>3 DEF Pieces
  <2> QED
    BY <2>1 DEF Piece
<1> HIDE DEF n
<1>6. list \in Packets /\ Len(list) = n /\ \A k \in 1 .. n : list[k] = Piece(d[k])
  <2>1. pieces \in Packets /\ Len(pieces) = n /\ \A k \in 1 .. n : pieces[k] = Piece(d[k])
    <3>1. \A k \in 1 .. n : pieces[k] = Piece(d[k])
      BY <1>1
    <3>2. pieces \in [1 .. n -> Seq(Pieces)]
      BY <1>1, <1>5
    <3> HIDE DEF pieces
    <3> QED
      BY <1>1, <3>1, <3>2 DEF Packets
  <2> HIDE DEF pieces
  <2>2. list = pieces
    BY <2>1, ConcatEmptySeq DEF Packets
  <2> QED
    BY <2>1, <2>2
<1> HIDE DEF pieces
<1>7. list # << >> /\ Head(list) = list[1]
  BY <1>1, <1>6 DEF Packets
<1>8. /\ Tail(list) \in Packets /\ Len(Tail(list)) = n - 1
      /\ \A k \in 1 .. n - 1 : Tail(list)[k] = Piece(d[k + 1])
  <2>1. /\ Tail(list) \in Packets /\ Len(Tail(list)) = Len(list) - 1
        /\ \A k \in 1 .. Len(Tail(list)) : Tail(list)[k] = list[k + 1]
    BY <1>6, <1>7, HeadTailProperties DEF Packets
  <2> QED
    BY <1>1, <1>6, <2>1
<1>9. packets = IF resumes THEN <<AddAtEnd(keep, Head(list)[1])>> \o Tail(list)
                ELSE IF starts THEN list ELSE Tail(list)
  BY DEF PacketsOf, list, pieces
<1> HIDE DEF list, starts
<1>10. \A k \in 1 .. n : d[k].from = 0 => Piece(d[k]) = UpToEnd(d[k])
  BY DEF Piece, UpToEnd
<1>11. packets \in Packets /\ Len(packets) = n - off
       /\ \A k \in 1 .. Len(packets) : packets[k] = UpToEnd(d[k + off])
  <2>1. CASE resumes
    <3> DEFINE l == [sdu |-> d[1].sdu, from |-> 0, to |-> d[1].from]
               m == [sdu |-> d[1].sdu, from |-> d[1].from, to |-> d[1].to]
    <3>1. l \in Pieces /\ keep = <<l>> /\ Head(list)[1] = m
      BY <1>1, <1>3, <1>6, <1>7, <2>1 DEF Pieces, Piece
    <3>2. AddAtEnd(keep, m) = Append(Front(keep), [l EXCEPT !.to = m.to])
      <4>1. Last(keep) = l
        <5> HIDE DEF l
        <5> QED
          BY <3>1 DEF Last
      <4>2. l.sdu = m.sdu /\ l.to = m.from
        OBVIOUS
      <4> HIDE DEF l, m
      <4> QED
        BY <4>1, <4>2 DEF AddAtEnd
    <3>3. Front(keep) = << >>
      <4> HIDE DEF l
      <4>1. Front(keep) = SubSeq(<<l>>, 1, 0)
        BY <3>1 DEF Front
      <4> QED
        BY <4>1
    <3>4. [l EXCEPT !.to = m.to] = [sdu |-> d[1].sdu, from |-> 0, to |-> d[1].to]
      OBVIOUS
    <3>5. AddAtEnd(keep, m) = UpToEnd(d[1])
      <4>1. Append(Front(keep), [l EXCEPT !.to = m.to]) = <<[sdu |-> d[1].sdu, from |-> 0, to |-> d[1].to]>>
        <5>1. PICK x : x = [sdu |-> d[1].sdu, from |-> 0, to |-> d[1].to]
          OBVIOUS
        <5> HIDE DEF l, m
        <5>2. Append(Front(keep), x) = <<x>>
          BY <3>3
        <5> QED
          BY <3>4, <5>1, <5>2
      <4> HIDE DEF l, m
      <4> QED
        BY <3>2, <4>1 DEF UpToEnd
    <3>6. PICK x : x = UpToEnd(d[1]) /\ x \in Seq(Pieces)
      <4>1. PICK y \in Pieces : y = [sdu |-> d[1].sdu, from |-> 0, to |-> d[1].to]
        BY <1>1, <1>3 DEF Pieces
      <4>2. <<y>> \in Seq(Pieces)
        BY <4>1
      <4>3. UpToEnd(d[1]) = <<y>>
        BY <4>1 DEF UpToEnd
      <4> QED
        BY <4>2, <4>3
    <3>7. packets = <<x>> \o Tail(list)
      <4> HIDE DEF m, packets
      <4> QED
        BY <1>9, <2>1, <3>1, <3>5, <3>6
    <3>8. off = 0
      BY <2>1
    <3>9. packets \in Packets /\ Len(packets) = 1 + (n - 1)
          /\ \A k \in 1 .. 1 + (n - 1) : packets[k] = IF k <= 1 THEN x ELSE Tail(list)[k - 1]
      <4>1. <<x>> \in Packets /\ Len(<<x>>) = 1 /\ <<x>>[1] = x
        BY <3>6 DEF Packets
      <4> HIDE DEF packets
      <4>2. /\ packets \in Packets /\ Len(packets) = Len(<<x>>) + Len(Tail(list))
            /\ \A k \in 1 .. Len(<<x>>) + Len(Tail(list)) :
                 packets[k] = IF k <= Len(<<x>>) THEN <<x>>[k] ELSE Tail(list)[k - Len(<<x>>)]
        BY <1>8, <3>7, <4>1, ConcatProperties DEF Packets
      <4>3. ASSUME NEW k \in 1 .. 1 + (n - 1)
            PROVE packets[k] = IF k <= 1 THEN x ELSE Tail(list)[k - 1]
        <5>1. k \in 1 .. Len(<<x>>) + Len(Tail(list))
          BY <1>8, <4>1
        <5>2. k <= 1 => k = 1
          BY <1>1
        <5> QED
          BY <4>1, <4>2, <5>1, <5>2
      <4> QED
        BY <1>8, <4>1, <4>2, <4>3
    <3> HIDE DEF packets, off
    <3>10. ASSUME NEW k \in 1 .. n PROVE packets[k] = UpToEnd(d[k])
      <4>1. CASE k = 1
        BY <1>1, <3>6, <3>9, <4>1
      <4>2. CASE k > 1
        <5>1. k - 1 \in 1 .. n - 1 /\ k - 1 + 1 = k /\ k \in 1 .. 1 + (n - 1) /\ ~(k <= 1)
          BY <1>1, <4>2
        <5>2. packets[k] = Piece(d[k])
          BY <1>8, <3>9, <5>1
        <5> QED
          BY <1>2, <1>10, <4>2, <5>2
      <4> QED
        BY <1>1, <4>1, <4>2
    <3>11. Len(packets) = n /\ n - off = n /\ \A k \in 1 .. n : k + off = k
      BY <1>1, <3>8, <3>9
    <3> QED
      BY <3>9, <3>10, <3>11
  <2>2. CASE ~resumes /\ starts
    <3>1. off = 0 /\ packets = list
      BY <1>9, <2>2
    <3> HIDE DEF packets, off
    <3>2. ASSUME NEW k \in 1 .. n PROVE packets[k] = UpToEnd(d[k])
      <4>1. d[k].from = 0
        BY <1>1, <1>2, <1>4, <2>2 DEF starts
      <4> QED
        BY <1>6, <1>10, <3>1, <4>1
    <3>3. Len(packets) = n /\ n - off = n /\ \A k \in 1 .. n : k + off = k
      BY <1>1, <1>6, <3>1
    <3> QED
      BY <1>6, <3>1, <3>2, <3>3
  <2>3. CASE ~resumes /\ ~starts
    <3>1. off = 1 /\ packets = Tail(list)
      BY <1>9, <2>3
    <3> HIDE DEF packets, off
    <3>2. ASSUME NEW k \in 1 .. n - 1 PROVE packets[k] = UpToEnd(d[k + 1])
      <4>1. k + 1 \in 1 .. n /\ k + 1 > 1
        BY <1>1
      <4>2. d[k + 1].from = 0
        BY <1>2, <4>1
      <4> QED
        BY <1>8, <1>10, <3>1, <4>1, <4>2
    <3>3. Len(packets) = n - 1 /\ n - off = n - 1 /\ \A k \in 1 .. n - 1 : k + off = k + 1
      BY <1>1, <1>8, <3>1
    <3> QED
      BY <1>8, <3>1, <3>2, <3>3
  <2> QED
    BY <2>1, <2>2, <2>3
<1> QED
  BY <1>4, <1>11 DEF n, starts

(* SDUs that have been delivered: each is whole, and comes after the ones  *)
(* before it                                                               *)
SduOf(packet) == Head(packet).sdu
IsSdu(packet) ==
  /\ SduOf(packet) \in 1 .. Len(sdus)
  /\ packet = <<[sdu |-> SduOf(packet), from |-> 0, to |-> sdus[SduOf(packet)]]>>
WholeSdus(d, limit) ==
  /\ d \in Packets
  /\ \A k \in 1 .. Len(d) :
       /\ IsSdu(d[k]) /\ SduOf(d[k]) < limit
       /\ k > 1 => SduOf(d[k - 1]) < SduOf(d[k])
Extends(d, more) == Len(d) <= Len(more) /\ \A k \in 1 .. Len(d) : more[k] = d[k]

LEMMA MoreDelivered ==
  ASSUME sdus \in Seq(Nat), NEW limit \in Nat, NEW d, WholeSdus(d, limit), NEW add \in Packets, NEW first \in Nat,
         limit <= first, NEW after \in Nat, limit <= after, Len(add) > 0 => first + Len(add) <= after,
         \A k \in 1 .. Len(add) : IsSdu(add[k]) /\ SduOf(add[k]) = first + k - 1
  PROVE  WholeSdus(d \o add, after) /\ Extends(d, d \o add)
<1> DEFINE all == d \o add
           n == Len(d)
<1>1. d \in Packets /\ n \in Nat /\ Len(add) \in Nat
  BY DEF WholeSdus, Packets
<1>2. /\ all \in Packets /\ Len(all) = n + Len(add)
      /\ \A k \in 1 .. n : all[k] = d[k]
      /\ \A k \in 1 .. Len(add) : all[n + k] = add[k]
  <2>1. /\ all \in Packets /\ Len(all) = n + Len(add)
        /\ \A k \in 1 .. n + Len(add) : all[k] = IF k <= n THEN d[k] ELSE add[k - n]
    BY <1>1, ConcatProperties DEF Packets
  <2> HIDE DEF all, n
  <2>2. ASSUME NEW k \in 1 .. n PROVE all[k] = d[k]
    <3>1. k \in 1 .. n + Len(add) /\ k <= n
      BY <1>1
    <3> QED
      BY <2>1, <3>1
  <2>3. ASSUME NEW k \in 1 .. Len(add) PROVE all[n + k] = add[k]
    <3>1. PICK j : j = n + k
      OBVIOUS
    <3>2. j \in 1 .. n + Len(add) /\ ~(j <= n) /\ j - n = k
      BY <1>1, <3>1
    <3> QED
      BY <2>1, <3>1, <3>2
  <2> QED
    BY <2>1, <2>2, <2>3
<1>3. \A k \in 1 .. n : IsSdu(d[k]) /\ SduOf(d[k]) < limit /\ (k > 1 => SduOf(d[k - 1]) < SduOf(d[k]))
  BY DEF WholeSdus
<1> HIDE DEF all, n
<1>4. ASSUME NEW k \in 1 .. n PROVE SduOf(d[k]) \in Nat
  <2>1. SduOf(d[k]) \in 1 .. Len(sdus)
    BY <1>3 DEF IsSdu
  <2>2. Len(sdus) \in Nat
    OBVIOUS
  <2> QED
    BY <2>1, <2>2
<1>5. ASSUME NEW k \in 1 .. Len(all)
      PROVE  /\ IsSdu(all[k]) /\ SduOf(all[k]) < after
             /\ k > 1 => SduOf(all[k - 1]) < SduOf(all[k])
  <2>1. CASE k <= n
    <3>1. k \in 1 .. n
      BY <1>1, <1>2, <2>1
    <3>2. all[k] = d[k] /\ SduOf(d[k]) \in Nat /\ SduOf(d[k]) < limit /\ IsSdu(d[k])
      BY <1>2, <1>3, <1>4, <3>1
    <3>3. k > 1 => all[k - 1] = d[k - 1]
      <4>1. k > 1 => k - 1 \in 1 .. n
        BY <1>1, <3>1
      <4> QED
        BY <1>2, <4>1
    <3>4. k > 1 => SduOf(d[k - 1]) < SduOf(d[k])
      BY <1>3, <3>1
    <3>5. SduOf(d[k]) < after
      BY <3>2
    <3> QED
      BY <3>2, <3>3, <3>4, <3>5
  <2>2. CASE k > n
    <3>1. k - n \in 1 .. Len(add) /\ n + (k - n) = k
      BY <1>1, <1>2, <2>2
    <3>2. all[k] = add[k - n] /\ IsSdu(add[k - n]) /\ SduOf(add[k - n]) = first + (k - n) - 1
      BY <1>2, <3>1
    <3>3. SduOf(all[k]) < after /\ SduOf(all[k]) >= first
      <4>1. first + (k - n) - 1 < after /\ first + (k - n) - 1 >= first
        BY <1>1, <1>2, <3>1
      <4> QED
        BY <3>2, <4>1
    <3>4. ASSUME k > 1 PROVE SduOf(all[k - 1]) < SduOf(all[k])
      <4>1. CASE k - 1 > n
        <5>1. k - n - 1 \in 1 .. Len(add) /\ n + (k - n - 1) = k - 1
          BY <1>1, <1>2, <3>1, <4>1
        <5>2. SduOf(all[k - 1]) = first + (k - n - 1) - 1
          BY <1>2, <5>1
        <5>3. first + (k - n - 1) - 1 < first + (k - n) - 1
          BY <1>1, <1>2
        <5> QED
          BY <3>2, <5>2, <5>3
      <4>2. CASE k - 1 <= n
        <5>1. k - 1 \in 1 .. n
          BY <1>1, <1>2, <3>4, <4>2
        <5>2. all[k - 1] = d[k - 1] /\ SduOf(d[k - 1]) \in Nat /\ SduOf(d[k - 1]) < limit
          BY <1>2, <1>3, <1>4, <5>1
        <5>3. SduOf(all[k]) \in Int
          BY <3>2, <1>1, <1>2
        <5>4. SduOf(d[k - 1]) < SduOf(all[k])
          BY <3>3, <5>2, <5>3
        <5> QED
          BY <5>2, <5>4
      <4> QED
        BY <1>1, <1>2, <4>1, <4>2
    <3> QED
      BY <3>2, <3>3, <3>4
  <2> QED
    BY <1>1, <1>2, <2>1, <2>2
<1>6. WholeSdus(all, after)
  BY <1>2, <1>5 DEF WholeSdus
<1>7. Extends(d, all)
  <2>1. Len(d) <= Len(all)
    BY <1>1, <1>2 DEF n
  <2> QED
    BY <1>2, <2>1 DEF Extends, n
<1> QED
  BY <1>6, <1>7 DEF all

(* What reassembly has done and kept when the next PDU begins at a place   *)
Assemblies ==
  [expected : Numbers, state : {"WAITING_S0_FULL", "WAITING_SI_SF"}, keepS0 : Seq(Pieces),
   sdusBuffer : {<< >>}, delivered : Packets]
Assembled(r, at) ==
  /\ r \in Assemblies /\ WholeSdus(r.delivered, at.sdu)
  /\ \/ r.state = "WAITING_S0_FULL" /\ r.keepS0 = << >>
     \/ /\ r.state = "WAITING_SI_SF" /\ at.from > 0
        /\ r.keepS0 = <<[sdu |-> at.sdu, from |-> 0, to |-> at.from]>>

(* One PDU: the one that begins there, or a later one                      *)
LEMMA OneMore ==
  ASSUME sdus \in Seq(Nat), NEW at \in Places, NEW r, Assembled(r, at),
         NEW p, p.sn \in Numbers, Stretch(p.data), p.data # << >>,
         NotAfter(at, Start(p.data)), p.sn = r.expected => at = Start(p.data)
  PROVE  /\ Assembled(ReassembleAndDeliver(r, p), End(p.data))
         /\ Extends(r.delivered, ReassembleAndDeliver(r, p).delivered)
         /\ ReassembleAndDeliver(r, p).expected = Plus(p.sn, 1)
<1> DEFINE d == p.data
           n == Len(d)
           resumes == Resumes(r, p)
           starts == Head(d).status \in {"FULL_SDU", "FIRST_SEGMENT"}
           ends == Last(d).status \in {"FULL_SDU", "LAST_SEGMENT"}
           packets == PacketsOf(d, r.keepS0, resumes)
           off == IF resumes \/ starts THEN 0 ELSE 1
           m == Len(packets)
           next == [r EXCEPT !.expected = Plus(p.sn, 1)]
           done == [next EXCEPT !.state = "WAITING_S0_FULL", !.keepS0 = << >>, !.sdusBuffer = << >>,
                                !.delivered = @ \o packets]
           open == [next EXCEPT !.state = "WAITING_SI_SF", !.keepS0 = Last(packets), !.sdusBuffer = << >>,
                                !.delivered = @ \o Front(packets)]
           after == End(d)
<1>1. r \in Assemblies /\ r.sdusBuffer = << >> /\ r.delivered \in Packets
      /\ WholeSdus(r.delivered, at.sdu)
  BY DEF Assembled, Assemblies
<1>2. n \in Nat /\ n # 0 /\ 1 \in 1 .. n /\ n \in 1 .. n
  BY EmptySeq DEF Stretch
<1>3. \A k \in 1 .. n : /\ IsPart(d[k]) /\ d[k].sdu = d[1].sdu + k - 1
                        /\ k < n => d[k].to = sdus[d[k].sdu]
  BY DEF Stretch
<1>4. resumes \in BOOLEAN /\ (resumes => /\ r.keepS0 = <<[sdu |-> d[1].sdu, from |-> 0, to |-> d[1].from]>>
                                         /\ d[1].from > 0)
  <2> SUFFICES ASSUME resumes PROVE /\ r.keepS0 = <<[sdu |-> d[1].sdu, from |-> 0, to |-> d[1].from]>>
                                    /\ d[1].from > 0
    BY DEF Resumes
  <2>1. p.sn = r.expected /\ r.state = "WAITING_SI_SF"
    BY DEF Resumes
  <2>2. at = Start(d)
    BY <2>1
  <2>3. at.sdu = d[1].sdu /\ at.from = d[1].from
    BY <2>2 DEF Start, Place
  <2> QED
    BY <2>1, <2>3 DEF Assembled
<1>5. /\ starts <=> d[1].from = 0
      /\ packets \in Packets /\ m = n - off
      /\ \A k \in 1 .. m : packets[k] = UpToEnd(d[k + off])
  <2>1. PICK keep : keep = r.keepS0
    OBVIOUS
  <2>2. PICK b \in BOOLEAN : b <=> resumes
    OBVIOUS
  <2>3. b => keep = <<[sdu |-> d[1].sdu, from |-> 0, to |-> d[1].from]>>
    BY <1>4, <2>1, <2>2
  <2>4. LET s == Head(d).status \in {"FULL_SDU", "FIRST_SEGMENT"}
            o == IF b \/ s THEN 0 ELSE 1
        IN /\ s <=> d[1].from = 0
           /\ PacketsOf(d, keep, b) \in Packets /\ Len(PacketsOf(d, keep, b)) = Len(d) - o
           /\ \A k \in 1 .. Len(PacketsOf(d, keep, b)) : PacketsOf(d, keep, b)[k] = UpToEnd(d[k + o])
    BY <2>3, PacketsAre
  <2>5. PacketsOf(d, keep, b) = packets
    BY <2>1, <2>2 DEF PacketsOf
  <2> HIDE DEF resumes, packets
  <2> QED
    BY <2>2, <2>4, <2>5
<1>6. ~(resumes /\ starts)
  BY <1>4, <1>5
<1>7. ReassembleAndDeliver(r, p) = IF Ends(ends, packets) THEN done ELSE open
  BY <1>1, <1>6 DEF ReassembleAndDeliver, PacketsOf
<1> HIDE DEF packets, resumes, starts
<1>8. ends <=> d[n].to = sdus[d[n].sdu]
  <2>1. Last(d) = d[n]
    BY DEF Last
  <2>2. d[n].status = StatusOf(d[n].from, d[n].to, sdus[d[n].sdu])
    BY <1>2, <1>3 DEF IsPart
  <2> QED
    BY <2>1, <2>2 DEF StatusOf
<1> HIDE DEF ends
<1>9. /\ \A k \in 1 .. n : d[k].sdu \in 1 .. Len(sdus) /\ d[k].sdu \in Nat /\ d[k].to \in Nat \ {0}
      /\ Len(sdus) \in Nat /\ d[1].sdu \in Nat /\ d[1].from \in Nat /\ d[n].sdu = d[1].sdu + n - 1
  <2>1. Len(sdus) \in Nat
    OBVIOUS
  <2>2. ASSUME NEW k \in 1 .. n
        PROVE  /\ d[k].sdu \in 1 .. Len(sdus) /\ d[k].sdu \in Nat /\ d[k].to \in Nat \ {0}
               /\ d[k].from \in Nat
    <3>1. IsPart(d[k])
      BY <1>3
    <3> QED
      BY <2>1, <3>1 DEF IsPart
  <2>3. d[n].sdu = d[1].sdu + n - 1
    BY <1>2, <1>3
  <2> HIDE DEF d, n
  <2> QED
    BY <1>2, <2>1, <2>2, <2>3
<1>10. at.sdu \in Nat /\ at.sdu <= d[1].sdu
  BY <1>9 DEF Places, Start, Place, NotAfter
<1>11. after = IF d[n].to = sdus[d[n].sdu] THEN Place(d[n].sdu + 1, 0) ELSE Place(d[n].sdu, d[n].to)
  BY DEF End, After
<1> HIDE DEF d, after
<1>12. m \in Nat /\ off \in {0, 1} /\ (m = 0 <=> packets = << >>)
  <2>0. PICK x \in Seq(Seq(Pieces)) : x = packets
    BY <1>5 DEF Packets
  <2>1. m \in Nat /\ (m = 0 <=> packets = << >>)
    BY <2>0, EmptySeq
  <2> QED
    BY <2>1
<1> HIDE DEF off, n, m
<1>13. \A k \in 1 .. m : k < m \/ ends =>
         IsSdu(packets[k]) /\ SduOf(packets[k]) = d[1].sdu + off + k - 1
  <2> SUFFICES ASSUME NEW k \in 1 .. m, k < m \/ ends
               PROVE IsSdu(packets[k]) /\ SduOf(packets[k]) = d[1].sdu + off + k - 1
    OBVIOUS
  <2>1. k + off \in 1 .. n /\ (k < m => k + off < n) /\ (k = m => k + off = n)
    BY <1>2, <1>5, <1>12
  <2>2. d[k + off].to = sdus[d[k + off].sdu]
    <3>1. CASE k < m
      BY <1>3, <2>1, <3>1
    <3>2. CASE k = m
      <4>1. ends
        BY <1>12, <3>2
      <4> QED
        BY <1>8, <2>1, <3>2, <4>1
    <3> QED
      BY <1>12, <3>1, <3>2
  <2>3. PICK x : x = d[k + off]
    OBVIOUS
  <2>4. x.sdu \in 1 .. Len(sdus) /\ x.to = sdus[x.sdu] /\ x.sdu = d[1].sdu + (k + off) - 1
    BY <1>3, <1>9, <2>1, <2>2, <2>3
  <2>5. packets[k] = <<[sdu |-> x.sdu, from |-> 0, to |-> x.to]>>
    BY <1>5, <2>3 DEF UpToEnd
  <2>6. PICK y : y = [sdu |-> x.sdu, from |-> 0, to |-> x.to]
    OBVIOUS
  <2>7. SduOf(packets[k]) = x.sdu
    <3>1. packets[k] = <<y>> /\ y.sdu = x.sdu
      BY <2>5, <2>6
    <3>2. Head(<<y>>) = y
      OBVIOUS
    <3> QED
      BY <3>1, <3>2 DEF SduOf
  <2>8. d[1].sdu + (k + off) - 1 = d[1].sdu + off + k - 1
    BY <1>9, <1>12
  <2> QED
    BY <2>4, <2>5, <2>7, <2>8 DEF IsSdu
<1>14. next.expected = Plus(p.sn, 1) /\ next.delivered = r.delivered /\ Plus(p.sn, 1) \in Numbers
       /\ next \in Assemblies
  <2>1. Plus(p.sn, 1) \in Numbers
    <3>1. p.sn + 1 <= 2 * Modulus - 1
      BY Constants DEF Numbers
    <3> QED
      BY <3>1, PlusIs
  <2> QED
    BY <1>1, <2>1 DEF Assemblies
<1>0. PICK i \in Nat, e \in Nat : i = d[1].sdu /\ e = d[n].sdu /\ e = i + n - 1
  BY <1>2, <1>9
<1>15. d[1].sdu + off \in Nat /\ at.sdu <= d[1].sdu + off
  BY <1>9, <1>10, <1>12
<1>16. CASE Ends(ends, packets)
  <2>1. /\ done.expected = Plus(p.sn, 1) /\ done.delivered = r.delivered \o packets
        /\ done.state = "WAITING_S0_FULL" /\ done.keepS0 = << >> /\ done.sdusBuffer = << >>
    BY <1>14 DEF Assemblies
  <2>2. after.sdu \in Nat /\ at.sdu <= after.sdu /\ (m > 0 => d[1].sdu + off + m <= after.sdu)
    <3>1. m > 0 => ends
      BY <1>12, <1>16 DEF Ends
    <3>2. after.sdu = IF ends THEN d[n].sdu + 1 ELSE d[n].sdu
      BY <1>8, <1>11 DEF Place
    <3>3. after.sdu = (IF ends THEN e + 1 ELSE e) /\ at.sdu \in Nat /\ at.sdu <= i
      BY <1>0, <1>10, <3>2
    <3>4. n \in Nat /\ n # 0 /\ m = n - off /\ off \in {0, 1} /\ m \in Nat
      BY <1>2, <1>5, <1>12
    <3>5. after.sdu \in Nat /\ at.sdu <= after.sdu /\ (m > 0 => i + off + m <= after.sdu)
      BY <1>0, <3>1, <3>3, <3>4
    <3> QED
      BY <1>0, <3>5
  <2>3. \A k \in 1 .. m : IsSdu(packets[k]) /\ SduOf(packets[k]) = d[1].sdu + off + k - 1
    <3>1. m > 0 => ends
      BY <1>12, <1>16 DEF Ends
    <3> QED
      BY <1>12, <1>13, <3>1
  <2>4. WholeSdus(r.delivered \o packets, after.sdu) /\ Extends(r.delivered, r.delivered \o packets)
    BY <1>1, <1>5, <1>10, <1>15, <2>2, <2>3, MoreDelivered DEF m
  <2>5. done \in Assemblies
    <3>1. PICK x \in Packets : x = r.delivered \o packets
      BY <2>4 DEF WholeSdus
    <3>2. done = [next EXCEPT !.state = "WAITING_S0_FULL", !.keepS0 = << >>, !.sdusBuffer = << >>,
                              !.delivered = x]
      BY <1>14, <3>1
    <3>3. << >> \in Seq(Pieces)
      OBVIOUS
    <3> HIDE DEF done, next
    <3> QED
      BY <1>14, <3>2, <3>3 DEF Assemblies
  <2> HIDE DEF done
  <2>6. Assembled(done, after)
    BY <2>1, <2>4, <2>5 DEF Assembled
  <2> QED
    BY <1>7, <1>16, <2>1, <2>4, <2>6 DEF after, d
<1>17. CASE ~Ends(ends, packets)
  <2>1. /\ open.expected = Plus(p.sn, 1) /\ open.delivered = r.delivered \o Front(packets)
        /\ open.state = "WAITING_SI_SF" /\ open.keepS0 = Last(packets) /\ open.sdusBuffer = << >>
    BY <1>14 DEF Assemblies
  <2>2. ~ends /\ m > 0
    BY <1>12, <1>17 DEF Ends
  <2>3. after = Place(d[n].sdu, d[n].to) /\ after.sdu = d[n].sdu /\ after.from = d[n].to
        /\ d[n].to > 0 /\ d[n].sdu \in Nat /\ d[n].to \in Nat
    BY <1>2, <1>8, <1>9, <1>11, <2>2 DEF Place
  <2>4. Last(packets) = <<[sdu |-> d[n].sdu, from |-> 0, to |-> d[n].to]>>
    <3>1. m \in 1 .. m /\ m + off = n
      BY <1>2, <1>5, <1>12, <2>2
    <3>2. packets[m] = UpToEnd(d[n])
      BY <1>5, <3>1
    <3> QED
      BY <3>2 DEF Last, UpToEnd, m
  <2>5. /\ Front(packets) \in Packets /\ Len(Front(packets)) = m - 1
        /\ \A k \in 1 .. m - 1 : Front(packets)[k] = packets[k]
    <3>1. Front(packets) = SubSeq(packets, 1, m - 1)
      BY DEF Front, m
    <3>2. \A k \in 1 .. m - 1 : packets[k] \in Seq(Pieces)
      BY <1>5, <1>12 DEF Packets, m
    <3>3. /\ SubSeq(packets, 1, m - 1) \in Seq(Seq(Pieces))
          /\ Len(SubSeq(packets, 1, m - 1)) = IF 1 <= m - 1 THEN m - 1 - 1 + 1 ELSE 0
          /\ \A k \in 1 .. m - 1 - 1 + 1 : SubSeq(packets, 1, m - 1)[k] = packets[1 + k - 1]
      <4>1. 1 \in Int /\ m - 1 \in Int
        BY <1>12
      <4> QED
        BY <3>2, <4>1, SubSeqProperties
    <3>4. (IF 1 <= m - 1 THEN m - 1 - 1 + 1 ELSE 0) = m - 1 /\ m - 1 - 1 + 1 = m - 1
          /\ \A k \in 1 .. m - 1 : 1 + k - 1 = k
      BY <1>12, <2>2
    <3> QED
      BY <3>1, <3>3, <3>4 DEF Packets
  <2>6. PICK front \in Packets : front = Front(packets)
    BY <2>5
  <2>7. /\ Len(front) = m - 1
        /\ \A k \in 1 .. Len(front) : IsSdu(front[k]) /\ SduOf(front[k]) = d[1].sdu + off + k - 1
    <3>1. \A k \in 1 .. m - 1 : k \in 1 .. m /\ k < m
      BY <1>12
    <3> QED
      BY <1>13, <2>5, <2>6, <3>1
  <2>8. after.sdu \in Nat /\ at.sdu <= after.sdu /\ d[1].sdu + off + Len(front) <= after.sdu
    <3>1. after.sdu = e /\ at.sdu \in Nat /\ at.sdu <= i
      BY <1>0, <1>10, <2>3
    <3>2. n \in Nat /\ n # 0 /\ m = n - off /\ off \in {0, 1} /\ m \in Nat /\ Len(front) = m - 1
      BY <1>2, <1>5, <1>12, <2>7
    <3>3. after.sdu \in Nat /\ at.sdu <= after.sdu /\ i + off + Len(front) <= after.sdu
      BY <1>0, <3>1, <3>2
    <3> QED
      BY <1>0, <3>3
  <2>9. WholeSdus(r.delivered \o front, after.sdu) /\ Extends(r.delivered, r.delivered \o front)
    BY <1>1, <1>10, <1>15, <2>7, <2>8, MoreDelivered
  <2>10. open \in Assemblies
    <3>1. r.delivered \o Front(packets) \in Packets
      BY <2>6, <2>9 DEF WholeSdus
    <3>2. Last(packets) \in Seq(Pieces)
      <4>1. PICK y \in Pieces : y = [sdu |-> d[n].sdu, from |-> 0, to |-> d[n].to]
        BY <2>3 DEF Pieces
      <4>2. <<y>> \in Seq(Pieces)
        BY <4>1
      <4> QED
        BY <2>4, <4>1, <4>2
    <3> QED
      BY <1>14, <3>1, <3>2 DEF Assemblies
  <2> HIDE DEF open
  <2>11. Assembled(open, after)
    BY <2>1, <2>3, <2>4, <2>6, <2>9, <2>10 DEF Assembled
  <2> QED
    BY <1>7, <1>17, <2>1, <2>6, <2>9, <2>11 DEF after, d
<1> QED
  BY <1>16, <1>17

LEMMA PlusMinus ==
  ASSUME NEW low \in Numbers, NEW k \in 0 .. Modulus - 1
  PROVE  /\ Plus(low, k) \in Numbers
         /\ \A q \in Numbers : Minus(q, low) = k <=> q = Plus(low, k)
<1>1. Modulus \in Nat /\ Modulus > 1 /\ low \in 0 .. Modulus - 1
  BY Constants DEF Numbers
<1> DEFINE sn == Plus(low, k)
<1>2. sn = (IF low + k < Modulus THEN low + k ELSE low + k - Modulus) /\ sn \in Numbers
  <2>1. k \in Nat /\ low + k <= 2 * Modulus - 1
    BY <1>1
  <2> QED
    BY <2>1, PlusIs
<1> HIDE DEF sn
<1>3. ASSUME NEW q \in Numbers PROVE Minus(q, low) = k <=> q = sn
  <2>1. Minus(q, low) = IF low <= q THEN q - low ELSE q - low + Modulus
    BY Distance
  <2> QED
    BY <1>1, <1>2, <2>1 DEF Numbers
<1> QED
  BY <1>2, <1>3 DEF sn

LEMMA MinusMinus ==
  ASSUME NEW uh \in Numbers, NEW low \in Numbers, NEW q \in Numbers, Minus(uh, q) <= Minus(uh, low)
  PROVE  Minus(q, low) = Minus(uh, low) - Minus(uh, q)
<1>1. /\ Minus(uh, q) = IF q <= uh THEN uh - q ELSE uh - q + Modulus
      /\ Minus(uh, low) = IF low <= uh THEN uh - low ELSE uh - low + Modulus
      /\ Minus(q, low) = IF low <= q THEN q - low ELSE q - low + Modulus
  BY Distance
<1> QED
  BY <1>1, Constants DEF Numbers

LEMMA MinusNext ==
  ASSUME NEW uh \in Numbers, NEW sn \in Numbers, Minus(uh, sn) # 0
  PROVE  Plus(sn, 1) \in Numbers /\ Minus(uh, Plus(sn, 1)) = Minus(uh, sn) - 1
<1> DEFINE next == Plus(sn, 1)
<1>1. Modulus \in Nat /\ Modulus > 1 /\ sn \in 0 .. Modulus - 1 /\ uh \in 0 .. Modulus - 1
  BY Constants DEF Numbers
<1>2. next = (IF sn + 1 < Modulus THEN sn + 1 ELSE sn + 1 - Modulus) /\ next \in Numbers
  BY <1>1, PlusIs
<1>3. Minus(uh, sn) = IF sn <= uh THEN uh - sn ELSE uh - sn + Modulus
  BY Distance
<1>4. Minus(uh, next) = IF next <= uh THEN uh - next ELSE uh - next + Modulus
  BY <1>2, Distance
<1> HIDE DEF next
<1>5. Minus(uh, next) = Minus(uh, sn) - 1
  BY <1>1, <1>2, <1>3, <1>4
<1> QED
  BY <1>2, <1>5 DEF next

LEMMA ExtendsMore ==
  ASSUME NEW a \in Packets, NEW b \in Packets, NEW d \in Packets, Extends(a, b), Extends(b, d)
  PROVE  Extends(a, d)
<1>1. Len(a) \in Nat /\ Len(b) \in Nat /\ Len(d) \in Nat /\ Len(a) <= Len(b) /\ Len(b) <= Len(d)
  BY DEF Packets, Extends
<1>2. Len(a) <= Len(d)
  BY <1>1
<1>3. ASSUME NEW k \in 1 .. Len(a) PROVE d[k] = a[k]
  <2>1. k \in 1 .. Len(b)
    BY <1>1
  <2> QED
    BY <2>1 DEF Extends
<1> QED
  BY <1>2, <1>3 DEF Extends

(* c tells where in the stream each PDU begins that has been sent, and     *)
(* where the next one will.                                                *)
Ordered(c) ==
  /\ c \in [0 .. transmitted -> Places]
  /\ \A i, j \in 0 .. transmitted : i <= j => NotAfter(c[i], c[j])
Carries(p, c) ==
  /\ p.no \in 0 .. transmitted - 1 /\ Stretch(p.data) /\ p.data # << >>
  /\ c[p.no] = Start(p.data) /\ c[p.no + 1] = End(p.data)

(* Reassembly of PDUs one after the other: n is the number of the next.    *)
Awaits(r, n, c, uh, top) ==
  n \in 0 .. top /\ Assembled(r, c[n]) /\ Minus(uh, r.expected) = top - n

(* the PDUs under the keys, where low and VR(UH) put them                  *)
Between(keys, buffer, c, uh, low, top) ==
  \A q \in keys :
    /\ q \in Numbers /\ buffer[q].sn = q /\ Carries(buffer[q], c)
    /\ Minus(uh, q) \in 1 .. Minus(uh, low) /\ buffer[q].no = top - Minus(uh, q)
AfterTurns(r, next, n, m, keys, buffer) ==
  /\ Extends(r.delivered, next.delivered)
  /\ m = n \/ \E q \in keys : m = buffer[q].no + 1
  /\ \A q \in keys : buffer[q].no < m

LEMMA InTurn ==
  ASSUME sdus \in Seq(Nat), transmitted \in Nat, NEW c, Ordered(c),
         NEW uh \in Numbers, NEW low \in Numbers, NEW top \in 0 .. transmitted,
         NEW keys, NEW buffer, Between(keys, buffer, c, uh, low, top),
         NEW r, NEW n, Awaits(r, n, c, uh, top), \A q \in keys : n <= buffer[q].no
  PROVE  \E m :
           /\ Awaits(Reassembled(r, keys, low, buffer), m, c, uh, top)
           /\ AfterTurns(r, Reassembled(r, keys, low, buffer), n, m, keys, buffer)
<1>1. PICK g : Turns(r, keys, low, buffer, Modulus, g) /\ Reassembled(r, keys, low, buffer) = g[Modulus]
  BY LastTurn
<1>2. \A k \in 0 .. Modulus :
        g[k] = IF k = 0 THEN r
               ELSE LET sn == Plus(low, k - 1)
                    IN IF sn \in keys THEN ReassembleAndDeliver(g[k - 1], buffer[sn]) ELSE g[k - 1]
  BY <1>1 DEF Turns
<1>3. Modulus \in Nat /\ Modulus > 1
  BY Constants
<1> DEFINE b == top - Minus(uh, low)
           At(k, m) == /\ Awaits(g[k], m, c, uh, top)
                       /\ Extends(r.delivered, g[k].delivered)
                       /\ m = n \/ \E q \in keys : m = buffer[q].no + 1
                       /\ \A q \in keys : buffer[q].no < m <=> Minus(q, low) < k
           T == {k \in 0 .. Modulus : \E m : At(k, m)}
<1>4. b \in Int /\ Minus(uh, low) \in Numbers
  <2>1. Minus(uh, low) \in Numbers
    BY Distance
  <2> QED
    BY <2>1 DEF Numbers
<1>5. ASSUME NEW q \in keys
      PROVE /\ q \in Numbers /\ Minus(q, low) \in Numbers /\ buffer[q].no = b + Minus(q, low)
            /\ Minus(uh, q) \in Int /\ buffer[q].no \in 0 .. transmitted - 1
  <2>1. q \in Numbers /\ Minus(uh, q) \in 1 .. Minus(uh, low) /\ buffer[q].no = top - Minus(uh, q)
        /\ buffer[q].no \in 0 .. transmitted - 1
    BY DEF Carries, Between
  <2>2. Minus(uh, q) \in Int /\ Minus(uh, q) <= Minus(uh, low)
    BY <2>1
  <2>3. Minus(q, low) = Minus(uh, low) - Minus(uh, q) /\ Minus(q, low) \in Numbers
    BY <2>1, <2>2, Distance, MinusMinus
  <2> QED
    BY <1>4, <2>1, <2>2, <2>3 DEF Numbers
<1>6. 0 \in T
  <2>1. g[0] = r
    BY <1>2, <1>3
  <2>2. Extends(r.delivered, r.delivered)
    <3>1. r.delivered \in Packets
      BY DEF Awaits, Assembled, WholeSdus
    <3>2. Len(r.delivered) \in Nat
      BY <3>1 DEF Packets
    <3> QED
      BY <3>2 DEF Extends
  <2>3. \A q \in keys : ~(buffer[q].no < n) /\ ~(Minus(q, low) < 0)
    <3> SUFFICES ASSUME NEW q \in keys PROVE ~(buffer[q].no < n) /\ ~(Minus(q, low) < 0)
      OBVIOUS
    <3>1. n <= buffer[q].no /\ n \in Int /\ buffer[q].no \in Int
      BY <1>5 DEF Awaits
    <3>2. Minus(q, low) \in 0 .. Modulus - 1
      BY <1>5 DEF Numbers
    <3> QED
      BY <1>3, <3>1, <3>2
  <2>4. At(0, n)
    BY <2>1, <2>2, <2>3
  <2>5. 0 \in 0 .. Modulus
    BY <1>3
  <2> HIDE DEF At
  <2> QED
    BY <2>4, <2>5
<1>7. ASSUME NEW k \in 0 .. Modulus - 1, k \in T PROVE k + 1 \in T
  <2>1. PICK m : At(k, m)
    BY <1>7
  <2> DEFINE sn == Plus(low, k)
             next == g[k + 1]
             was == g[k]
             p == buffer[sn]
  <2>2. k + 1 \in 0 .. Modulus /\ k \in 0 .. Modulus /\ k + 1 # 0 /\ k + 1 - 1 = k
    BY <1>3
  <2>3. next = IF sn \in keys THEN ReassembleAndDeliver(was, p) ELSE was
    BY <1>2, <2>2
  <2>4. sn \in Numbers /\ \A q \in Numbers : Minus(q, low) = k <=> q = sn
    BY PlusMinus
  <2>5. m \in 0 .. top /\ m \in 0 .. transmitted /\ m \in Int /\ Assembled(was, c[m])
        /\ Minus(uh, was.expected) = top - m
    BY <2>1 DEF Awaits
  <2>6. CASE sn \in keys
    <3>1. next = ReassembleAndDeliver(was, p)
      BY <2>3, <2>6
    <3>2. /\ p.sn = sn /\ Carries(p, c) /\ Minus(uh, sn) \in 1 .. Minus(uh, low)
          /\ p.no = top - Minus(uh, sn)
      BY <2>6 DEF Between
    <3>3. p.no = b + k /\ Minus(sn, low) = k /\ p.no \in 0 .. transmitted - 1 /\ Minus(uh, sn) \in Int
          /\ p.no \in Int
      BY <1>5, <2>4, <2>6
    <3>4. m <= p.no
      <4>1. ~(Minus(sn, low) < k)
        BY <3>3
      <4>2. ~(p.no < m)
        BY <2>1, <2>6, <4>1
      <4> QED
        BY <2>5, <3>3, <4>2
    <3>5. c[p.no] = Start(p.data) /\ c[p.no + 1] = End(p.data) /\ NotAfter(c[m], c[p.no])
      <4>1. p.no \in 0 .. transmitted
        BY <3>3
      <4> QED
        BY <2>5, <3>2, <3>4, <4>1 DEF Carries, Ordered
    <3>6. p.sn = was.expected => c[m] = Start(p.data)
      <4> SUFFICES ASSUME p.sn = was.expected PROVE c[m] = Start(p.data)
        OBVIOUS
      <4>1. Minus(uh, sn) = top - m
        BY <2>5, <3>2
      <4>2. p.no = m
        BY <2>5, <3>2, <3>3, <4>1
      <4> QED
        BY <3>5, <4>2
    <3>7. c[m] \in Places
      BY <2>5 DEF Ordered
    <3>8. /\ Assembled(next, c[p.no + 1])
          /\ Extends(was.delivered, next.delivered)
          /\ next.expected = Plus(sn, 1)
      <4>1. p.sn \in Numbers /\ Stretch(p.data) /\ p.data # << >> /\ NotAfter(c[m], Start(p.data))
        BY <2>4, <3>2, <3>5 DEF Carries
      <4> HIDE DEF p, sn, was, next
      <4>2. PICK at \in Places : at = c[m]
        BY <3>7
      <4>3. Assembled(was, at) /\ NotAfter(at, Start(p.data)) /\ (p.sn = was.expected => at = Start(p.data))
        BY <2>5, <3>6, <4>1, <4>2
      <4>4. /\ Assembled(ReassembleAndDeliver(was, p), End(p.data))
            /\ Extends(was.delivered, ReassembleAndDeliver(was, p).delivered)
            /\ ReassembleAndDeliver(was, p).expected = Plus(p.sn, 1)
        BY <4>1, <4>3, OneMore
      <4> QED
        BY <3>1, <3>2, <3>5, <4>4
    <3> HIDE DEF p, sn, was, next, b
    <3>9. Minus(uh, next.expected) = top - (p.no + 1) /\ p.no + 1 \in 0 .. top
      <4>1. Minus(uh, sn) # 0
        BY <3>2
      <4>2. Minus(uh, Plus(sn, 1)) = Minus(uh, sn) - 1
        BY <2>4, <4>1, MinusNext
      <4> QED
        BY <3>2, <3>3, <3>8, <4>2
    <3>10. Awaits(next, p.no + 1, c, uh, top)
      BY <3>8, <3>9 DEF Awaits
    <3>11. Extends(r.delivered, next.delivered)
      <4>1. r.delivered \in Packets /\ was.delivered \in Packets /\ next.delivered \in Packets
        BY <2>5, <3>8 DEF Awaits, Assembled, WholeSdus
      <4>2. Extends(r.delivered, was.delivered)
        BY <2>1 DEF was
      <4> QED
        BY <3>8, <4>1, <4>2, ExtendsMore
    <3>12. ASSUME NEW q \in keys PROVE buffer[q].no < p.no + 1 <=> Minus(q, low) < k + 1
      BY <1>3, <1>4, <1>5, <3>3 DEF Numbers
    <3>13. \E q \in keys : p.no + 1 = buffer[q].no + 1
      BY <2>6 DEF p
    <3>14. At(k + 1, p.no + 1)
      BY <3>10, <3>11, <3>12, <3>13 DEF next
    <3> HIDE DEF At
    <3> QED
      BY <2>2, <3>14
  <2>7. CASE sn \notin keys
    <3>1. next = was
      BY <2>3, <2>7
    <3>2. ASSUME NEW q \in keys PROVE buffer[q].no < m <=> Minus(q, low) < k + 1
      <4>1. Minus(q, low) # k
        BY <1>5, <2>4, <2>7
      <4>2. Minus(q, low) \in Int
        BY <1>5 DEF Numbers
      <4>3. Minus(q, low) < k <=> Minus(q, low) < k + 1
        BY <4>1, <4>2
      <4> QED
        BY <2>1, <4>3
    <3>3. At(k + 1, m)
      BY <2>1, <3>1, <3>2
    <3> HIDE DEF At
    <3> QED
      BY <2>2, <3>3
  <2> QED
    BY <2>6, <2>7
<1>8. Modulus \in T
  <2> HIDE DEF T
  <2> QED
    BY <1>3, <1>6, <1>7, UpTo
<1>9. PICK m : At(Modulus, m)
  BY <1>8
<1>10. \A q \in keys : buffer[q].no < m
  <2> SUFFICES ASSUME NEW q \in keys PROVE buffer[q].no < m
    OBVIOUS
  <2>1. Minus(q, low) < Modulus
    BY <1>3, <1>5 DEF Numbers
  <2> QED
    BY <1>9, <2>1
<1> QED
  BY <1>1, <1>9, <1>10 DEF AfterTurns

----------------------------------------------------------------------------
(* The promise                                                             *)

(* How many PDUs reassembly has passed; VR(UH) is after the latest that    *)
(* arrived                                                                 *)
Passed == heard - Depth(reassembly.expected)
HeardOK == heard \in 0 .. transmitted /\ Behind(vrUh) = transmitted - heard

(* Reassembly has passed nothing from VR(UR) on, and while it is behind    *)
(* something waits that is less than a window ahead.                       *)
PassedOK ==
  /\ Passed <= heard - Depth(vrUr)
  /\ Passed # heard => /\ \E q \in Waiting : q.no - Passed < WindowSize
                       /\ \E q \in Waiting : q.no = heard - 1

LEMMA SameAssembled ==
  ASSUME sdus' = sdus, NEW r, NEW at
  PROVE  Assembled(r, at)' <=> Assembled(r, at)
BY DEF Assembled, WholeSdus, IsSdu

LEMMA MovedOn ==
  ASSUME NumbersOK, sdus \in Seq(Nat), HeardOK, PassedOK, SomeHeard,
         NEW c, Ordered(c), \A p \in Waiting \cup air : Carries(p, c),
         Awaits(reassembly, Passed, c, vrUh, heard), NEW buffer, Moved(buffer),
         \A k \in DOMAIN buffer : buffer[k].sn = k /\ buffer[k] \in Waiting \cup air,
         \A q \in Waiting : \E k \in DOMAIN buffer : buffer[k] = q,
         HeardOK', heard <= heard', \E k \in DOMAIN buffer : buffer[k].no = heard' - 1,
         UNCHANGED <<sequenceNumber, transmitted, sdus>>
  PROVE  /\ PassedOK' /\ Awaits(reassembly, Passed, c, vrUh, heard)'
         /\ Extends(delivered, delivered')
<1>1. PICK uh \in Numbers, low \in Numbers, high \in Numbers : MovedTo(uh, low, high, buffer)
  BY DEF Moved
<1>2. PICK top, e, n : top = heard' /\ e = reassembly.expected /\ n = Passed
  OBVIOUS
<1> DEFINE keys == Below(uh, high, buffer)
           ub == Behind(uh)
           hb == Behind(vrUh)
           was == reassembly
           next == Reassembled(reassembly, keys, low, buffer)
<1>3. /\ rxBuffer' = [k \in DOMAIN buffer \ keys |-> buffer[k]] /\ vrUh' = uh /\ vrUr' = high
      /\ reassembly' = next
      /\ Ready(uh, low, buffer) /\ Minus(uh, high) <= Minus(uh, low)
      /\ ub + Minus(uh, low) <= hb + Depth(vrUr)
  BY <1>1 DEF MovedTo, Moves
<1>4. /\ sequenceNumber \in Numbers /\ vrUh \in Numbers /\ vrUr \in Numbers /\ transmitted \in Nat
      /\ \A p \in Waiting \cup air : p.no \in Nat /\ Age(p) \in 1 .. WindowSize
  BY DEF NumbersOK
<1>5. /\ top \in 0 .. transmitted /\ ub = transmitted - top /\ hb = transmitted - heard
      /\ heard \in 0 .. transmitted /\ heard <= top
  BY <1>2, <1>3 DEF HeardOK, Behind
<1>6. /\ n \in 0 .. heard /\ Assembled(was, c[n]) /\ e \in Numbers /\ Minus(vrUh, e) = heard - n
  BY <1>2 DEF Awaits, Assembled, Assemblies
<1>7. /\ ub \in Numbers /\ hb \in Numbers /\ Minus(uh, low) \in Numbers /\ Minus(uh, high) \in Numbers
      /\ Depth(vrUr) \in Numbers
  BY <1>1, <1>4, DepthOf DEF Depth
<1> HIDE DEF ub, hb
<1>0. /\ transmitted \in Int /\ top \in Int /\ heard \in Int /\ n \in Int /\ ub \in Int /\ hb \in Int
      /\ Minus(uh, low) \in Int /\ Minus(uh, high) \in Int /\ Depth(vrUr) \in Int
      /\ Modulus \in Int /\ WindowSize \in Int
  <2>1. transmitted \in Int /\ heard \in Int /\ top \in Int
    BY <1>4, <1>5
  <2>2. n \in Int
    BY <1>6, <2>1
  <2>3. \A i \in Numbers : i \in Int
    BY DEF Numbers
  <2> QED
    BY <1>7, <2>1, <2>2, <2>3, Constants
<1>8. n <= top - Minus(uh, low)
  <2>1. n <= heard - Depth(vrUr)
    BY <1>2 DEF PassedOK
  <2>2. ub + Minus(uh, low) <= hb + Depth(vrUr) /\ ub = transmitted - top /\ hb = transmitted - heard
    BY <1>3, <1>5
  <2> QED
    BY <1>0, <2>1, <2>2
<1>9. ASSUME NEW k \in DOMAIN buffer
      PROVE  /\ k \in Numbers /\ Minus(uh, k) \in 1 .. Minus(uh, low) /\ Minus(uh, k) \in Int
             /\ buffer[k].no = top - Minus(uh, k) /\ buffer[k].no \in Int
             /\ transmitted - buffer[k].no \in 1 .. WindowSize
             /\ buffer[k].sn = k /\ Carries(buffer[k], c)
  <2>1. k \in Numbers /\ Age(buffer[k]) - ub = Minus(uh, k) /\ Minus(uh, k) \in 1 .. Minus(uh, low)
    BY <1>3 DEF Ready, ub
  <2>2. buffer[k].no \in Nat /\ Age(buffer[k]) = transmitted - buffer[k].no
        /\ Age(buffer[k]) \in 1 .. WindowSize
    BY <1>4 DEF Age
  <2>3. Minus(uh, k) \in Int /\ buffer[k].no \in Int
    BY <1>0, <2>1, <2>2
  <2>4. buffer[k].no = top - Minus(uh, k)
    BY <1>0, <1>5, <2>1, <2>2, <2>3
  <2>5. buffer[k].sn = k /\ Carries(buffer[k], c)
    OBVIOUS
  <2> QED
    BY <2>1, <2>2, <2>3, <2>4, <2>5
<1>10. transmitted - n < Modulus
  <2>1. CASE n = heard
    BY <1>4, <1>5, <2>1, Constants DEF SomeHeard
  <2>2. CASE n # heard
    <3>1. PICK q \in Waiting : q.no - n < WindowSize
      BY <1>2, <2>2 DEF PassedOK
    <3>2. q.no \in Nat /\ transmitted - q.no \in 1 .. WindowSize
      BY <1>4 DEF Age
    <3> QED
      BY <1>4, <1>6, <3>1, <3>2, Constants
  <2> QED
    BY <2>1, <2>2
<1>11. Minus(uh, e) = top - n
  <2>1. /\ Behind(e) \in Numbers
        /\ Minus(uh, e) = IF ub <= Behind(e) THEN Behind(e) - ub ELSE Behind(e) - ub + Modulus
    BY <1>1, <1>4, <1>6, DepthOf DEF ub
  <2>2. Minus(vrUh, e) = IF hb <= Behind(e) THEN Behind(e) - hb ELSE Behind(e) - hb + Modulus
    BY <1>4, <1>6, DepthOf DEF hb
  <2>3. Behind(e) \in Int /\ Behind(e) >= 0
    BY <2>1, Constants DEF Numbers
  <2>4. hb = transmitted - heard /\ ub = transmitted - top /\ Minus(vrUh, e) = heard - n /\ heard <= top
    BY <1>5, <1>6
  <2>5. hb <= Behind(e)
    BY <1>0, <1>10, <2>2, <2>3, <2>4
  <2>6. Behind(e) - hb = heard - n
    BY <2>2, <2>4, <2>5
  <2>7. ub <= Behind(e)
    BY <1>0, <2>3, <2>4, <2>5
  <2> QED
    BY <1>0, <2>1, <2>3, <2>4, <2>6, <2>7
<1>12. keys \subseteq DOMAIN buffer /\ \A q \in keys : Minus(uh, high) < Minus(uh, q)
  BY DEF Below
<1>13. \A q \in keys : n <= buffer[q].no
  <2> SUFFICES ASSUME NEW q \in keys PROVE n <= buffer[q].no
    OBVIOUS
  <2>1. /\ buffer[q].no = top - Minus(uh, q) /\ Minus(uh, q) \in 1 .. Minus(uh, low)
    BY <1>9, <1>12
  <2> QED
    BY <1>5, <1>6, <1>7, <1>8, <2>1 DEF Numbers
<1>14. PICK m :
         /\ Awaits(next, m, c, uh, top)
         /\ Extends(was.delivered, next.delivered)
         /\ m = n \/ \E q \in keys : m = buffer[q].no + 1
         /\ \A q \in keys : buffer[q].no < m
  <2>1. Between(keys, buffer, c, uh, low, top)
    BY <1>9, <1>12 DEF Between
  <2>2. PICK r : r = was
    OBVIOUS
  <2>3. Awaits(r, n, c, uh, top)
    BY <1>2, <1>5, <1>6, <1>11, <2>2 DEF Awaits
  <2> HIDE DEF keys
  <2>4. \E m : /\ Awaits(Reassembled(r, keys, low, buffer), m, c, uh, top)
               /\ AfterTurns(r, Reassembled(r, keys, low, buffer), n, m, keys, buffer)
    <3>1. transmitted \in Nat /\ top \in 0 .. transmitted /\ uh \in Numbers /\ low \in Numbers
      BY <1>1, <1>4, <1>5
    <3> QED
      BY <1>13, <2>1, <2>3, <3>1, InTurn
  <2> QED
    BY <2>2, <2>4 DEF AfterTurns
<1> HIDE DEF next, keys
<1>15. m \in 0 .. top /\ Minus(uh, next.expected) = top - m
  BY <1>14 DEF Awaits
<1>16. Passed' = m
  <2>1. Passed' = top - Minus(uh, next.expected)
    BY <1>2, <1>3 DEF Passed, Depth, Minus
  <2> QED
    BY <1>5, <1>15, <2>1
<1>17. Awaits(reassembly, Passed, c, vrUh, heard)'
  <2>1. PICK r, at : r = next /\ at = c[m]
    OBVIOUS
  <2>2. Assembled(r, at)'
    BY <1>14, <2>1, SameAssembled DEF Awaits
  <2>3. Assembled(reassembly, c[Passed])'
    BY <1>3, <1>16, <2>1, <2>2 DEF Assembled, WholeSdus, IsSdu
  <2>4. Minus(vrUh', reassembly'.expected) = heard' - Passed' /\ Passed' \in 0 .. heard'
    BY <1>2, <1>3, <1>15, <1>16
  <2> QED
    BY <2>3, <2>4 DEF Awaits, Minus
<1>18. m <= top - Minus(uh, high)
  <2>1. CASE m = n
    <3>1. Minus(uh, high) <= Minus(uh, low)
      BY <1>3
    <3> QED
      BY <1>0, <1>8, <2>1, <3>1
  <2>2. CASE \E q \in keys : m = buffer[q].no + 1
    <3>1. PICK q \in keys : m = buffer[q].no + 1
      BY <2>2
    <3>2. buffer[q].no = top - Minus(uh, q) /\ Minus(uh, q) \in Int /\ Minus(uh, high) < Minus(uh, q)
      BY <1>9, <1>12
    <3> QED
      BY <1>5, <1>7, <3>1, <3>2 DEF Numbers
  <2> QED
    BY <1>14, <2>1, <2>2
<1>19. \A k \in DOMAIN buffer \ keys : buffer[k] \in Waiting'
  BY <1>3 DEF Waiting
<1>20. ASSUME m # top
       PROVE  /\ \E q \in Waiting' : q.no - m < WindowSize
              /\ \E q \in Waiting' : q.no = top - 1
  <2>1. PICK k \in DOMAIN buffer : buffer[k].no = top - 1
    BY <1>2
  <2>2. k \notin keys
    <3>1. k \in keys => buffer[k].no < m
      BY <1>14
    <3> QED
      BY <1>5, <1>15, <1>20, <2>1, <3>1
  <2>3. buffer[k] \in Waiting'
    BY <1>19, <2>2
  <2>4. CASE top - 1 - m < WindowSize
    BY <2>1, <2>3, <2>4
  <2>5. CASE \E q \in keys : m = buffer[q].no + 1
    <3>1. PICK q \in keys : m = buffer[q].no + 1
      BY <2>5
    <3>2. transmitted - buffer[q].no \in 1 .. WindowSize /\ buffer[q].no \in Int
      BY <1>9, <1>12
    <3> QED
      <4>1. m \in Int
        BY <1>15
      <4>2. PICK j \in Int : j = buffer[q].no /\ m = j + 1
        BY <3>1, <3>2
      <4>3. top <= transmitted /\ transmitted - j <= WindowSize
        BY <1>0, <1>5, <3>2, <4>2
      <4>4. top - 1 - m < WindowSize
        BY <1>0, <4>2, <4>3
      <4> QED
        BY <2>4, <4>4
  <2>6. CASE m = n /\ n = heard
    BY <1>4, <1>5, <2>4, <2>6, Constants DEF SomeHeard
  <2>7. CASE m = n /\ n # heard
    <3>1. PICK q \in Waiting : q.no - n < WindowSize
      BY <1>2, <2>7 DEF PassedOK
    <3>2. PICK j \in DOMAIN buffer : buffer[j] = q
      OBVIOUS
    <3>3. j \notin keys
      <4>1. j \in keys => n <= buffer[j].no /\ buffer[j].no < n
        BY <1>13, <1>14, <2>7
      <4>2. buffer[j].no \in Int /\ n \in Int
        BY <1>6, <1>9
      <4> QED
        BY <4>1, <4>2
    <3>4. q \in Waiting'
      BY <1>19, <3>2, <3>3
    <3> QED
      BY <2>1, <2>3, <2>7, <3>1, <3>4
  <2> QED
    BY <1>14, <2>5, <2>6, <2>7
<1>21. PassedOK'
  <2>1. Depth(vrUr)' = Minus(uh, high)
    BY <1>3 DEF Depth, Minus
  <2>2. Passed' <= heard' - Depth(vrUr)'
    BY <1>2, <1>16, <1>18, <2>1
  <2>3. Passed' # heard' => /\ \E q \in Waiting' : q.no - Passed' < WindowSize
                           /\ \E q \in Waiting' : q.no = heard' - 1
    BY <1>2, <1>16, <1>20
  <2> QED
    BY <2>2, <2>3 DEF PassedOK
<1>22. Extends(delivered, delivered')
  BY <1>3, <1>14 DEF delivered
<1> QED
  BY <1>17, <1>21, <1>22

(* What has been sent and what waits to be, as c tells                     *)
Stream(c) ==
  /\ Ordered(c) /\ Unsent(txBuffer) /\ c[transmitted] = HeadOf(txBuffer)
  /\ \A p \in Waiting \cup air : Carries(p, c)
Sound(c) == Stream(c) /\ Awaits(reassembly, Passed, c, vrUh, heard)

LEMMA SameCarries ==
  ASSUME UNCHANGED <<sdus, transmitted>>, NEW p, NEW c
  PROVE  Carries(p, c)' <=> Carries(p, c)
BY DEF Carries, Stretch, IsPart, End, After

LEMMA SameStream ==
  ASSUME UNCHANGED <<sdus, txBuffer, transmitted>>, Waiting' \cup air' \subseteq Waiting \cup air,
         NEW c, Stream(c)
  PROVE  Stream(c)'
<1>1. Ordered(c)'
  BY DEF Stream, Ordered
<1>2. Unsent(txBuffer)' /\ (c[transmitted] = HeadOf(txBuffer))'
  BY DEF Stream, Unsent, Stretch, IsPart, HeadOf, Start
<1>3. ASSUME NEW p \in Waiting' \cup air' PROVE Carries(p, c)'
  BY SameCarries DEF Stream
<1> QED
  BY <1>1, <1>2, <1>3 DEF Stream

(* A step that leaves the receiver alone                                   *)
LEMMA SamePassed ==
  ASSUME UNCHANGED <<window, reassembly, heard, sequenceNumber, transmitted, sdus>>,
         HeardOK, PassedOK, NEW c, Awaits(reassembly, Passed, c, vrUh, heard)
  PROVE  HeardOK' /\ PassedOK' /\ Awaits(reassembly, Passed, c, vrUh, heard)'
<1>1. /\ rxBuffer' = rxBuffer /\ vrUh' = vrUh /\ vrUr' = vrUr /\ reassembly' = reassembly
      /\ heard' = heard /\ transmitted' = transmitted /\ sequenceNumber' = sequenceNumber
  BY DEF window
<1>2. Passed' = Passed /\ Depth(vrUr)' = Depth(vrUr) /\ Waiting' = Waiting
      /\ Behind(vrUh)' = Behind(vrUh)
  BY <1>1 DEF Passed, Depth, Minus, Waiting, Behind
<1>3. HeardOK' /\ PassedOK'
  BY <1>1, <1>2 DEF HeardOK, PassedOK
<1>4. Awaits(reassembly, Passed, c, vrUh, heard)'
  BY <1>1, <1>2 DEF Awaits, Assembled, WholeSdus, IsSdu, Minus
<1> QED
  BY <1>3, <1>4

LEMMA PlacedHas ==
  ASSUME NumbersOK, NEW p \in air
  PROVE  /\ \A q \in Waiting : \E k \in DOMAIN Placed(p) : Placed(p)[k] = q
         /\ p.sn \in DOMAIN Placed(p) /\ Placed(p)[p.sn] = p
         /\ \A k \in DOMAIN Placed(p) : Placed(p)[k].sn = k /\ Placed(p)[k] \in Waiting \cup air
<1>1. DOMAIN Placed(p) = DOMAIN rxBuffer \cup {p.sn}
      /\ \A k \in DOMAIN Placed(p) : Placed(p)[k] = IF k = p.sn THEN p ELSE rxBuffer[k]
  BY DEF Placed
<1>2. ASSUME NEW q \in Waiting PROVE \E k \in DOMAIN Placed(p) : Placed(p)[k] = q
  <2>1. PICK k \in DOMAIN rxBuffer : q = rxBuffer[k]
    BY DEF Waiting
  <2>2. q.sn = k
    BY <2>1 DEF NumbersOK
  <2>3. CASE k = p.sn
    <3>1. Age(p) = Age(q)
      BY <2>2, <2>3, PduIs
    <3>2. p.no \in Nat /\ q.no \in Nat /\ transmitted \in Nat
      BY DEF NumbersOK
    <3>3. p.no = q.no
      BY <3>1, <3>2 DEF Age
    <3>4. p = q
      BY <3>3 DEF NumbersOK
    <3> QED
      BY <1>1, <3>4
  <2>4. CASE k # p.sn
    BY <1>1, <2>1, <2>4
  <2> QED
    BY <2>3, <2>4
<1>3. \A k \in DOMAIN Placed(p) : Placed(p)[k].sn = k /\ Placed(p)[k] \in Waiting \cup air
  BY <1>1 DEF Waiting, NumbersOK
<1> QED
  BY <1>1, <1>2, <1>3

(* A PDU is inside the window exactly if it is not the latest to arrive,   *)
(* and only then can it be discarded.                                      *)
LEMMA HeardAfter ==
  ASSUME NumbersOK, WindowInv, HeardOK, SomeHeard, NEW p \in air
  PROVE  /\ IsInsideReorderingWindow(p.sn, vrUh) => p.no < heard
         /\ ~IsInsideReorderingWindow(p.sn, vrUh) =>
              /\ heard <= p.no
              /\ Plus(p.sn, 1) \in Numbers /\ Behind(Plus(p.sn, 1)) = transmitted - (p.no + 1)
         /\ Discarded(p, Minus(vrUh, WindowSize)) => p.no < heard
<1> DEFINE h == Behind(vrUh)
           base == Minus(vrUh, WindowSize)
<1>1. /\ sequenceNumber \in Numbers /\ vrUr \in Numbers /\ vrUh \in Numbers /\ transmitted \in Nat
      /\ p.no \in Nat /\ p.sn \in Numbers /\ Age(p) \in 1 .. WindowSize /\ Behind(p.sn) = Age(p)
      /\ Age(p) = transmitted - p.no
  BY PduIs DEF NumbersOK, Age
<1>2. /\ h = transmitted - heard /\ heard \in 0 .. transmitted /\ h <= WindowSize
  BY DEF HeardOK, SomeHeard
<1>3. h \in Numbers /\ Depth(p.sn) \in Numbers
      /\ Depth(p.sn) = IF h <= Age(p) THEN Age(p) - h ELSE Age(p) - h + Modulus
  BY <1>1, DepthOf DEF Depth
<1> HIDE DEF h
<1>4. ASSUME IsInsideReorderingWindow(p.sn, vrUh) PROVE p.no < heard
  <2>1. Depth(p.sn) \in 1 .. WindowSize
    BY <1>1, <1>4, InsideIs DEF Depth
  <2>2. transmitted \in Int /\ heard \in Int /\ p.no \in Int /\ h \in Int /\ Age(p) \in Int
        /\ Modulus \in Int /\ WindowSize \in Int
    BY <1>1, <1>2, Constants
  <2> QED
    BY <1>1, <1>2, <1>3, <2>1, <2>2, Constants
<1>5. ASSUME ~IsInsideReorderingWindow(p.sn, vrUh)
      PROVE  /\ heard <= p.no
             /\ Plus(p.sn, 1) \in Numbers /\ Behind(Plus(p.sn, 1)) = transmitted - (p.no + 1)
  <2>1. Later(p)
    BY <1>5, IsLater DEF WindowInv
  <2>2. Plus(p.sn, 1) \in Numbers /\ Behind(Plus(p.sn, 1)) = Age(p) - 1 /\ Age(p) <= h
    BY <2>1 DEF Later, h
  <2> QED
    BY <1>1, <1>2, <2>2
<1>6. ASSUME Discarded(p, base) PROVE p.no < heard
  <2>1. SUFFICES ASSUME heard <= p.no PROVE FALSE
    BY <1>1, <1>2
  <2>2. Age(p) <= h
    BY <1>1, <1>2, <2>1
  <2>3. Minus(p.sn, base) = WindowSize + h - Age(p)
    <3>1. Behind(vrUh) - WindowSize < Behind(p.sn) /\ Behind(p.sn) <= Behind(vrUh) + WindowSize
      BY <1>1, <1>2, <2>2, Constants DEF h
    <3> QED
      BY <1>1, <3>1, OldPlace DEF h
  <2>4. Minus(vrUh, base) = WindowSize
    <3>1. Minus(vrUh, vrUh) = 0
      BY <1>1, DepthOf
    <3>2. Minus(vrUh, base) = IF Minus(vrUh, vrUh) <= WindowSize THEN WindowSize - Minus(vrUh, vrUh)
                              ELSE WindowSize + Modulus - Minus(vrUh, vrUh)
      BY <1>1, PlaceOf
    <3> QED
      BY <3>1, <3>2, Constants
  <2>5. Minus(vrUr, base) \in Int /\ Minus(vrUr, base) <= WindowSize
    <3>1. Depth(vrUr) \in 0 .. WindowSize
      <4>1. CASE reordering = NotRunning
        <5>1. vrUr = vrUh
          BY <4>1 DEF WindowInv
        <5>2. Minus(vrUh, vrUh) = 0
          BY <1>1, DepthOf
        <5> QED
          BY <5>1, <5>2, Constants DEF Depth
      <4>2. CASE reordering # NotRunning
        BY <4>2, Constants DEF WindowInv, WindowOK
      <4> QED
        BY <4>1, <4>2
    <3>2. Minus(vrUr, base) = IF Minus(vrUh, vrUr) <= WindowSize THEN WindowSize - Minus(vrUh, vrUr)
                              ELSE WindowSize + Modulus - Minus(vrUh, vrUr)
      BY <1>1, PlaceOf
    <3> HIDE DEF base
    <3> QED
      BY <3>1, <3>2, Constants DEF Depth
  <2> HIDE DEF base
  <2>6. ~Less(p.sn, vrUr, base) /\ ~Less(p.sn, vrUh, base)
    BY <1>1, <1>2, <2>2, <2>3, <2>4, <2>5, Constants DEF Less
  <2> QED
    BY <1>6, <2>6 DEF Discarded
<1> QED
  BY <1>4, <1>5, <1>6

LEMMA StillBehind ==
  ASSUME NumbersOK, HeardOK, PassedOK, NEW c, Awaits(reassembly, Passed, c, vrUh, heard),
         WindowOK
  PROVE  \E q \in Waiting : q.no = heard - 1
<1>1. Passed \in 0 .. heard /\ heard \in 0 .. transmitted /\ transmitted \in Nat
      /\ Passed <= heard - Depth(vrUr) /\ Depth(vrUr) \in 1 .. WindowSize
  BY DEF Awaits, HeardOK, PassedOK, WindowOK, NumbersOK
<1>2. Passed # heard
  BY <1>1
<1> QED
  BY <1>2 DEF PassedOK

LEMMA ArriveKeeps ==
  ASSUME RlcInv, HeardOK, PassedOK, SomeHeard, NEW c, Sound(c), NEW p \in air, Arrive(p)
  PROVE  HeardOK' /\ PassedOK' /\ Sound(c)' /\ Extends(delivered, delivered')
<1> DEFINE base == Minus(vrUh, WindowSize)
           buffer == Placed(p)
<1>1. /\ NumbersOK /\ WindowInv /\ sdus \in Seq(Nat) /\ Stream(c)
      /\ Awaits(reassembly, Passed, c, vrUh, heard)
  BY DEF RlcInv, SenderInv, Sound
<1>2. /\ DoReceivePdu(p) /\ air' \subseteq air
      /\ heard' = (IF p.no < heard THEN heard ELSE p.no + 1)
      /\ UNCHANGED <<sequenceNumber, transmitted, sdus, txBuffer>>
  BY DEF Arrive, sender
<1>3. CASE Discarded(p, base)
  <2>1. UNCHANGED <<window, reassembly>>
    BY <1>2, <1>3 DEF DoReceivePdu, receiver
  <2>2. heard' = heard
    BY <1>1, <1>2, <1>3, HeardAfter
  <2>3. HeardOK' /\ PassedOK' /\ Awaits(reassembly, Passed, c, vrUh, heard)'
    BY <1>1, <1>2, <2>1, <2>2, SamePassed
  <2>4. Waiting' \cup air' \subseteq Waiting \cup air
    BY <1>2, <2>1 DEF Waiting, window
  <2>5. Stream(c)'
    BY <1>1, <1>2, <2>4, SameStream
  <2>6. Extends(delivered, delivered')
    <3>1. delivered' = delivered /\ delivered \in Packets
      BY <1>1, <2>1 DEF delivered, Awaits, Assembled, WholeSdus
    <3>2. Len(delivered) \in Nat
      BY <3>1 DEF Packets
    <3> QED
      BY <3>1, <3>2 DEF Extends
  <2> QED
    BY <2>3, <2>5, <2>6 DEF Sound
<1>4. CASE ~Discarded(p, base)
  <2>1. Moved(buffer)
    BY <1>1, <1>2, <1>4, InsideMoves, OutsideMoves DEF WindowInv
  <2>2. /\ \A q \in Waiting : \E k \in DOMAIN buffer : buffer[k] = q
        /\ p.sn \in DOMAIN buffer /\ buffer[p.sn] = p
        /\ \A k \in DOMAIN buffer : buffer[k].sn = k /\ buffer[k] \in Waiting \cup air
    BY <1>1, PlacedHas
  <2>3. vrUh' = IF ~IsInsideReorderingWindow(p.sn, vrUh) THEN Plus(p.sn, 1) ELSE vrUh
    BY <1>2, <1>4 DEF DoReceivePdu
  <2>4. p.no \in Nat /\ transmitted \in Nat /\ transmitted - p.no \in 1 .. WindowSize
        /\ heard \in 0 .. transmitted
    BY <1>1 DEF NumbersOK, HeardOK, Age
  <2>5. HeardOK' /\ heard <= heard' /\ \E k \in DOMAIN buffer : buffer[k].no = heard' - 1
    <3>1. CASE IsInsideReorderingWindow(p.sn, vrUh)
      <4>1. heard' = heard /\ vrUh' = vrUh
        BY <1>1, <1>2, <2>3, <3>1, HeardAfter
      <4>2. HeardOK'
        BY <1>2, <4>1 DEF HeardOK, Behind, Minus
      <4>3. WindowOK
        <5>1. SUFFICES ASSUME reordering = NotRunning PROVE FALSE
          BY <1>1 DEF WindowInv
        <5>2. vrUr = vrUh /\ vrUh \in Numbers /\ sequenceNumber \in Numbers /\ p.sn \in Numbers
          BY <1>1, <5>1, PduIs DEF WindowInv, NumbersOK
        <5>3. Minus(vrUh, vrUr) = 0
          BY <5>2, DepthOf
        <5>4. Minus(vrUh, p.sn) \in 1 .. WindowSize
          BY <3>1, <5>2, InsideIs
        <5>5. Less(p.sn, vrUr, base)
          BY <5>2, <5>3, <5>4, LessIs, Constants
        <5> QED
          BY <1>4, <5>5 DEF Discarded
      <4>4. PICK q \in Waiting : q.no = heard - 1
        BY <1>1, <4>3, StillBehind
      <4> QED
        BY <2>2, <2>4, <4>1, <4>2, <4>4
    <3>2. CASE ~IsInsideReorderingWindow(p.sn, vrUh)
      <4>1. heard <= p.no /\ Behind(Plus(p.sn, 1)) = transmitted - (p.no + 1)
        BY <1>1, <3>2, HeardAfter
      <4>2. heard' = p.no + 1 /\ heard <= heard' /\ heard' \in 0 .. transmitted
        BY <1>2, <2>4, <4>1
      <4>3. Behind(vrUh)' = Behind(Plus(p.sn, 1))
        BY <1>2, <2>3, <3>2 DEF Behind, Minus
      <4>4. HeardOK'
        BY <1>2, <4>1, <4>2, <4>3 DEF HeardOK
      <4>5. buffer[p.sn].no = heard' - 1
        BY <2>2, <2>4, <4>2
      <4> QED
        BY <2>2, <4>2, <4>4, <4>5
    <3> QED
      BY <3>1, <3>2
  <2> HIDE DEF buffer
  <2>6. PICK b : b = buffer
    OBVIOUS
  <2>7. /\ PassedOK' /\ Awaits(reassembly, Passed, c, vrUh, heard)'
        /\ Extends(delivered, delivered')
    <3>1. Ordered(c) /\ \A q \in Waiting \cup air : Carries(q, c)
      BY <1>1 DEF Stream
    <3>2. /\ \A q \in Waiting : \E k \in DOMAIN b : b[k] = q
          /\ \A k \in DOMAIN b : b[k].sn = k /\ b[k] \in Waiting \cup air
          /\ \E k \in DOMAIN b : b[k].no = heard' - 1
          /\ Moved(b)
      BY <2>1, <2>2, <2>5, <2>6
    <3> QED
      BY <1>1, <1>2, <2>5, <3>1, <3>2, MovedOn
  <2>8. Waiting' \cup air' \subseteq Waiting \cup air
    <3>1. PICK uh, low, high : MovedTo(uh, low, high, buffer)
      BY <2>1 DEF Moved
    <3>2. rxBuffer' = [k \in DOMAIN buffer \ Below(uh, high, buffer) |-> buffer[k]]
      BY <3>1 DEF MovedTo, Moves
    <3> QED
      BY <1>2, <2>2, <3>2 DEF Waiting
  <2>9. Stream(c)'
    BY <1>1, <1>2, <2>8, SameStream
  <2> QED
    BY <2>5, <2>7, <2>9 DEF Sound
<1> QED
  BY <1>3, <1>4

LEMMA SomeExtends ==
  ASSUME NEW c, Awaits(reassembly, Passed, c, vrUh, heard)
  PROVE  delivered \in Packets /\ Extends(delivered, delivered)
<1>1. delivered \in Packets
  BY DEF delivered, Awaits, Assembled, WholeSdus
<1>2. Len(delivered) \in Nat
  BY <1>1 DEF Packets
<1> QED
  BY <1>1, <1>2 DEF Extends

LEMMA ExpireKeeps ==
  ASSUME RlcInv, HeardOK, PassedOK, SomeHeard, NEW c, Sound(c), ExpireReorderingTimer
  PROVE  HeardOK' /\ PassedOK' /\ Sound(c)' /\ Extends(delivered, delivered')
<1>1. /\ NumbersOK /\ WindowInv /\ sdus \in Seq(Nat) /\ Stream(c)
      /\ Awaits(reassembly, Passed, c, vrUh, heard)
  BY DEF RlcInv, SenderInv, Sound
<1>2. /\ reordering # NotRunning /\ UNCHANGED <<sequenceNumber, transmitted, sdus, txBuffer>>
      /\ vrUh' = vrUh /\ heard' = heard /\ air' = air
  BY DEF ExpireReorderingTimer, sender
<1>3. WindowOK /\ Moved(rxBuffer)
  BY <1>1, <1>2, ExpireMoves DEF WindowInv
<1>4. HeardOK'
  BY <1>2 DEF HeardOK, Behind, Minus
<1>5. PICK q \in Waiting : q.no = heard - 1
  BY <1>1, <1>3, StillBehind
<1>6. PICK b : b = rxBuffer
  OBVIOUS
<1>7. /\ \A p \in Waiting : \E k \in DOMAIN b : b[k] = p
      /\ \A k \in DOMAIN b : b[k].sn = k /\ b[k] \in Waiting \cup air
      /\ \E k \in DOMAIN b : b[k].no = heard' - 1
      /\ Moved(b)
  <2>1. \A p \in Waiting : \E k \in DOMAIN b : b[k] = p
    BY <1>6 DEF Waiting
  <2>2. \A k \in DOMAIN b : b[k].sn = k /\ b[k] \in Waiting \cup air
    BY <1>1, <1>6 DEF Waiting, NumbersOK
  <2>3. Moved(b)
    BY <1>3, <1>6
  <2> QED
    BY <1>2, <1>5, <2>1, <2>2, <2>3
<1>8. /\ PassedOK' /\ Awaits(reassembly, Passed, c, vrUh, heard)'
      /\ Extends(delivered, delivered')
  <2>1. heard <= heard'
    BY <1>2 DEF HeardOK
  <2> QED
    BY <1>1, <1>2, <1>4, <1>7, <2>1, MovedOn DEF Stream
<1>9. Waiting' \cup air' \subseteq Waiting \cup air
  <2>1. PICK uh, low, high : MovedTo(uh, low, high, rxBuffer)
    BY <1>3 DEF Moved
  <2>2. rxBuffer' = [k \in DOMAIN rxBuffer \ Below(uh, high, rxBuffer) |-> rxBuffer[k]]
    BY <2>1 DEF MovedTo, Moves
  <2> QED
    BY <1>2, <2>2 DEF Waiting
<1>10. Stream(c)'
  BY <1>1, <1>2, <1>9, SameStream
<1> QED
  BY <1>4, <1>8, <1>10 DEF Sound

(* A step of the sender's timer, a PDU given up, a stutter                 *)
LEMMA RestKeeps ==
  ASSUME HeardOK, PassedOK, NEW c, Sound(c),
         UNCHANGED <<window, reassembly, heard, sequenceNumber, transmitted, sdus, txBuffer>>,
         air' \subseteq air
  PROVE  HeardOK' /\ PassedOK' /\ Sound(c)' /\ Extends(delivered, delivered')
<1>1. Stream(c) /\ Awaits(reassembly, Passed, c, vrUh, heard)
  BY DEF Sound
<1>2. HeardOK' /\ PassedOK' /\ Awaits(reassembly, Passed, c, vrUh, heard)'
  BY <1>1, SamePassed
<1>3. Waiting' \cup air' \subseteq Waiting \cup air
  BY DEF Waiting, window
<1>4. Stream(c)'
  BY <1>1, <1>3, SameStream
<1>5. delivered' = delivered
  BY DEF delivered
<1> QED
  BY <1>1, <1>2, <1>4, <1>5, SomeExtends DEF Sound

(* One more SDU: what has been sent and delivered of the others is as it   *)
(* was.                                                                    *)
LEMMA MoreSdus ==
  ASSUME sdus \in Seq(Nat), NEW size \in Nat \ {0}, sdus' = Append(sdus, size)
  PROVE  /\ \A s : IsPart(s) => IsPart(s)' /\ sdus'[s.sdu] = sdus[s.sdu] /\ After(s)' = After(s)
         /\ \A d : Stretch(d) => Stretch(d)' /\ (d # << >> => End(d)' = End(d))
         /\ \A q : IsSdu(q) => IsSdu(q)'
<1>1. /\ Len(sdus) \in Nat /\ Len(sdus') = Len(sdus) + 1
      /\ \A i \in 1 .. Len(sdus) : sdus'[i] = sdus[i] /\ i \in 1 .. Len(sdus')
  OBVIOUS
<1>2. ASSUME NEW s, IsPart(s)
      PROVE  IsPart(s)' /\ sdus'[s.sdu] = sdus[s.sdu] /\ After(s)' = After(s)
  <2>1. s.sdu \in 1 .. Len(sdus') /\ sdus'[s.sdu] = sdus[s.sdu]
    BY <1>1, <1>2 DEF IsPart
  <2> QED
    BY <1>2, <2>1 DEF IsPart, After
<1>3. ASSUME NEW d, Stretch(d) PROVE Stretch(d)' /\ (d # << >> => End(d)' = End(d))
  <2>1. Len(d) \in Nat
    BY <1>3 DEF Stretch
  <2>2. \A k \in 1 .. Len(d) : IsPart(d[k])
    BY <1>3 DEF Stretch
  <2>3. \A k \in 1 .. Len(d) : IsPart(d[k])' /\ sdus'[d[k].sdu] = sdus[d[k].sdu]
    BY <1>2, <2>2
  <2>4. Stretch(d)'
    BY <1>3, <2>3 DEF Stretch
  <2>5. ASSUME d # << >> PROVE End(d)' = End(d)
    <3>1. Len(d) \in 1 .. Len(d)
      BY <1>3, <2>1, <2>5, EmptySeq DEF Stretch
    <3>2. PICK s : s = d[Len(d)]
      OBVIOUS
    <3>3. After(s)' = After(s)
      BY <1>2, <2>2, <3>1, <3>2
    <3> QED
      BY <3>2, <3>3 DEF End
  <2> QED
    BY <2>4, <2>5
<1>4. ASSUME NEW q, IsSdu(q) PROVE IsSdu(q)'
  BY <1>1, <1>4 DEF IsSdu
<1> QED
  BY <1>2, <1>3, <1>4

LEMMA UnsentMore ==
  ASSUME sdus \in Seq(Nat), NEW size \in Nat \ {0}, sdus' = Append(sdus, size),
         NEW d, Unsent(d), NEW more,
         more = Append(d, Segment(Len(sdus) + 1, 0, size, "FULL_SDU"))
  PROVE  Unsent(more)' /\ HeadOf(more)' = HeadOf(d)
<1> DEFINE n == Len(d)
<1>1. d \in Seq(Segments) /\ n \in Nat /\ (n = 0 <=> d = << >>) /\ Len(sdus) \in Nat
  BY EmptySeq DEF Unsent, Stretch
<1>2. PICK new : /\ new = Segment(Len(sdus) + 1, 0, size, "FULL_SDU")
                 /\ new.sdu = Len(sdus) + 1 /\ new.from = 0 /\ new.to = size
                 /\ new.status = "FULL_SDU" /\ new \in Segments
  <2>1. PICK i : i = Len(sdus) + 1 /\ i \in Nat
    BY <1>1
  <2>2. PICK s : s = [sdu |-> i, from |-> 0, to |-> size, status |-> "FULL_SDU"]
    OBVIOUS
  <2>3. s \in Segments
    BY <2>1, <2>2 DEF Segments
  <2>4. s = Segment(Len(sdus) + 1, 0, size, "FULL_SDU")
    BY <2>1, <2>2 DEF Segment
  <2> QED
    BY <2>1, <2>2, <2>3, <2>4
<1>3. Len(sdus') = Len(sdus) + 1 /\ sdus'[Len(sdus) + 1] = size
      /\ \A i \in 1 .. Len(sdus) : sdus'[i] = sdus[i]
  OBVIOUS
<1>4. IsPart(new)'
  <2>1. new.sdu \in 1 .. Len(sdus') /\ sdus'[new.sdu] = size
    BY <1>1, <1>2, <1>3
  <2>2. new.status = StatusOf(new.from, new.to, sdus'[new.sdu]) /\ new.from < new.to
    BY <1>2, <2>1 DEF StatusOf
  <2> QED
    BY <1>2, <2>1, <2>2 DEF IsPart
<1>5. /\ \A k \in 1 .. n : IsPart(d[k]) /\ d[k].sdu = d[1].sdu + k - 1 /\ d[k].sdu \in 1 .. Len(sdus)
      /\ \A k \in 1 .. n : k > 1 => d[k].from = 0
      /\ \A k \in 1 .. n : k < n => d[k].to = sdus[d[k].sdu]
  BY DEF Unsent, Stretch, IsPart
<1>6. n > 0 => d[n].sdu = Len(sdus) /\ d[n].to = sdus[Len(sdus)] /\ d[1].sdu + n - 1 = Len(sdus)
               /\ d[1].sdu \in Nat
  BY <1>1, <1>5 DEF Unsent
<1>7. /\ more \in Seq(Segments) /\ Len(more) = n + 1 /\ more[n + 1] = new
      /\ \A k \in 1 .. n : more[k] = d[k]
  BY <1>1, <1>2
<1>8. more[1].sdu = Len(sdus) + 1 - n
  <2>1. CASE n = 0
    BY <1>1, <1>2, <1>7, <2>1
  <2>2. CASE n > 0
    <3>1. 1 \in 1 .. n
      BY <1>1, <2>2
    <3> QED
      BY <1>1, <1>6, <1>7, <2>2, <3>1
  <2> QED
    BY <1>1, <2>1, <2>2
<1>9. \A k \in 1 .. n : IsPart(d[k])' /\ sdus'[d[k].sdu] = sdus[d[k].sdu]
  BY <1>5, MoreSdus
<1> HIDE DEF n
<1>10. ASSUME NEW k \in 1 .. n + 1
       PROVE  /\ IsPart(more[k])' /\ more[k].sdu = more[1].sdu + k - 1
              /\ k > 1 => more[k].from = 0
              /\ k < n + 1 => more[k].to = sdus'[more[k].sdu]
  <2>1. CASE k = n + 1
    BY <1>1, <1>2, <1>4, <1>7, <1>8, <2>1
  <2>2. CASE k \in 1 .. n
    <3>1. more[k] = d[k] /\ IsPart(more[k])' /\ (k > 1 => more[k].from = 0)
      BY <1>5, <1>7, <1>9, <2>2
    <3>0. n > 0 /\ k \in Nat /\ n \in Nat /\ Len(sdus) \in Nat
      BY <1>1, <2>2
    <3>2. more[k].sdu = more[1].sdu + k - 1
      <4>1. d[1].sdu + n - 1 = Len(sdus) /\ d[1].sdu \in Nat /\ d[k].sdu = d[1].sdu + k - 1
        BY <1>5, <1>6, <2>2, <3>0
      <4>2. d[1].sdu = more[1].sdu
        BY <1>8, <3>0, <4>1
      <4> QED
        BY <3>1, <4>1, <4>2
    <3>3. more[k].to = sdus'[more[k].sdu]
      <4>1. CASE k < n
        BY <1>5, <1>9, <2>2, <3>1, <4>1
      <4>2. CASE k = n
        BY <1>6, <1>9, <2>2, <3>0, <3>1, <4>2
      <4>3. k < n \/ k = n
        BY <2>2, <3>0
      <4> QED
        BY <4>1, <4>2, <4>3, Zenon
    <3> QED
      BY <3>1, <3>2, <3>3
  <2>3. k = n + 1 \/ k \in 1 .. n
    BY <1>1
  <2> QED
    BY <2>1, <2>2, <2>3, Zenon
<1>11. Stretch(more)'
  BY <1>7, <1>10 DEF Stretch
<1>12. Unsent(more)'
  <2>1. more[n + 1].sdu = Len(sdus') /\ more[n + 1].to = sdus'[Len(sdus')]
    BY <1>2, <1>3, <1>7
  <2> QED
    BY <1>7, <1>11, <2>1 DEF Unsent
<1>13. HeadOf(more)' = HeadOf(d)
  <2>1. HeadOf(more)' = Start(more)
    BY <1>1, <1>7, EmptySeq DEF HeadOf, Start
  <2>2. CASE n = 0
    BY <1>1, <1>2, <1>7, <2>1, <2>2 DEF HeadOf, Start, n
  <2>3. CASE n > 0
    <3>1. 1 \in 1 .. n /\ d # << >>
      BY <1>1, <2>3
    <3> QED
      BY <1>7, <2>1, <3>1 DEF HeadOf, Start
  <2> QED
    BY <1>1, <2>2, <2>3
<1> QED
  BY <1>12, <1>13

LEMMA TransmitKeeps ==
  ASSUME RlcInv, HeardOK, PassedOK, NEW c, Sound(c), DoTransmitPdcpPdu
  PROVE  HeardOK' /\ PassedOK' /\ Sound(c)' /\ Extends(delivered, delivered')
<1>1. /\ UNCHANGED <<window, reassembly, heard, sequenceNumber, transmitted, air>>
      /\ sdus \in Seq(Nat) /\ Stream(c) /\ Awaits(reassembly, Passed, c, vrUh, heard)
  BY DEF RlcInv, SenderInv, Sound, DoTransmitPdcpPdu, receiver
<1>2. PICK size \in Nat \ {0} :
        IF BytesOf(txBuffer) + size <= MaxTxBufferSize
        THEN /\ sdus' = Append(sdus, size)
             /\ txBuffer' = Append(txBuffer, Segment(Len(sdus) + 1, 0, size, "FULL_SDU"))
        ELSE UNCHANGED <<sdus, txBuffer>>
  BY RlcAssumption DEF DoTransmitPdcpPdu
<1>3. CASE UNCHANGED <<sdus, txBuffer>>
  BY <1>1, <1>3, RestKeeps
<1>4. CASE /\ sdus' = Append(sdus, size)
           /\ txBuffer' = Append(txBuffer, Segment(Len(sdus) + 1, 0, size, "FULL_SDU"))
  <2>0. /\ rxBuffer' = rxBuffer /\ vrUh' = vrUh /\ vrUr' = vrUr /\ reassembly' = reassembly
        /\ heard' = heard /\ transmitted' = transmitted /\ sequenceNumber' = sequenceNumber
        /\ air' = air
    BY <1>1 DEF window
  <2>1. HeardOK' /\ PassedOK' /\ Passed' = Passed /\ Waiting' = Waiting
    <3>1. Passed' = Passed /\ Depth(vrUr)' = Depth(vrUr) /\ Waiting' = Waiting
          /\ Behind(vrUh)' = Behind(vrUh)
      BY <2>0 DEF Passed, Depth, Minus, Waiting, Behind
    <3> QED
      BY <2>0, <3>1 DEF HeardOK, PassedOK
  <2>2. PICK more, was : more = txBuffer' /\ was = txBuffer
    OBVIOUS
  <2>3. Unsent(more)' /\ HeadOf(more)' = HeadOf(was)
    BY <1>1, <1>4, <2>2, UnsentMore DEF Stream
  <2>4. Unsent(txBuffer)' /\ (c[transmitted] = HeadOf(txBuffer))'
    BY <1>1, <2>0, <2>2, <2>3 DEF Stream, Unsent, Stretch, IsPart, HeadOf, Start
  <2>5. Ordered(c)'
    BY <1>1, <2>0 DEF Stream, Ordered
  <2>6. ASSUME NEW p \in Waiting' \cup air' PROVE Carries(p, c)'
    <3>1. Carries(p, c)
      BY <1>1, <2>0, <2>1, <2>6 DEF Stream
    <3>2. PICK d : d = p.data
      OBVIOUS
    <3>3. Stretch(d)' /\ End(d)' = End(d)
      BY <1>1, <1>4, <3>1, <3>2, MoreSdus DEF Carries
    <3> QED
      BY <2>0, <3>1, <3>2, <3>3 DEF Carries, Stretch, IsPart, End, After, Start
  <2>7. Stream(c)'
    BY <2>4, <2>5, <2>6 DEF Stream
  <2>8. Awaits(reassembly, Passed, c, vrUh, heard)'
    <3>1. WholeSdus(reassembly.delivered, c[Passed].sdu)'
      <4>1. WholeSdus(reassembly.delivered, c[Passed].sdu)
        BY <1>1 DEF Awaits, Assembled
      <4>2. \A q : IsSdu(q) => IsSdu(q)'
        BY <1>1, <1>4, MoreSdus
      <4> QED
        BY <2>0, <2>1, <4>1, <4>2 DEF WholeSdus
    <3> QED
      BY <1>1, <2>0, <2>1, <3>1 DEF Awaits, Assembled, Minus
  <2>9. Extends(delivered, delivered')
    BY <1>1, <2>0, SomeExtends DEF delivered
  <2> QED
    BY <2>1, <2>7, <2>8, <2>9 DEF Sound
<1> QED
  BY <1>2, <1>3, <1>4

LEMMA StretchEnds ==
  ASSUME sdus \in Seq(Nat), NEW d, Stretch(d), d # << >>
  PROVE  Start(d) \in Places /\ End(d) \in Places /\ NotAfter(Start(d), End(d))
<1>1. Len(d) \in Nat /\ Len(d) # 0 /\ Len(sdus) \in Nat
  BY EmptySeq DEF Stretch
<1>2. PICK n, s, i : n \in Nat \ {0} /\ n = Len(d) /\ s = d[n] /\ i = d[1].sdu
  BY <1>1
<1>3. 1 \in 1 .. n /\ n \in 1 .. n
  BY <1>2
<1>4. /\ d[1].sdu \in Nat /\ d[1].from \in Nat /\ d[1].to \in Nat /\ d[1].from < d[1].to
      /\ s.sdu \in Nat /\ s.to \in Nat /\ s.sdu = i + n - 1
  BY <1>1, <1>2, <1>3 DEF Stretch, IsPart
<1>5. Start(d) = Place(i, d[1].from) /\ Start(d) \in Places
  BY <1>2, <1>4 DEF Start, Place, Places
<1>6. End(d) = IF s.to = sdus[s.sdu] THEN Place(s.sdu + 1, 0) ELSE Place(s.sdu, s.to)
  BY <1>2 DEF End, After
<1>7. End(d) \in Places /\ (\/ End(d) = Place(s.sdu + 1, 0)
                            \/ End(d) = Place(s.sdu, s.to))
  BY <1>4, <1>6 DEF Place, Places
<1>8. CASE End(d) = Place(s.sdu + 1, 0)
  BY <1>2, <1>4, <1>5, <1>7, <1>8 DEF Place, NotAfter
<1>9. CASE End(d) = Place(s.sdu, s.to)
  <2>1. CASE n = 1
    BY <1>2, <1>4, <1>5, <1>7, <1>9, <2>1 DEF Place, NotAfter
  <2>2. CASE n # 1
    BY <1>2, <1>4, <1>5, <1>7, <1>9, <2>2 DEF Place, NotAfter
  <2> QED
    BY <2>1, <2>2
<1> QED
  BY <1>5, <1>7, <1>8, <1>9

LEMMA OneMorePlace ==
  ASSUME transmitted \in Nat, NEW c, Ordered(c), NEW at \in Places, NotAfter(c[transmitted], at),
         transmitted' = transmitted + 1,
         NEW more, more = [i \in 0 .. transmitted + 1 |-> IF i <= transmitted THEN c[i] ELSE at]
  PROVE  /\ Ordered(more)' /\ more[transmitted + 1] = at
         /\ \A i \in 0 .. transmitted : more[i] = c[i]
<1>1. /\ more[transmitted + 1] = at
      /\ \A i \in 0 .. transmitted : more[i] = c[i]
  OBVIOUS
<1>2. \A i \in 0 .. transmitted + 1 : i \in 0 .. transmitted \/ i = transmitted + 1
  OBVIOUS
<1>3. \A i \in 0 .. transmitted : c[i] \in Places
  BY DEF Ordered
<1>4. more \in [0 .. transmitted + 1 -> Places]
  <2>1. \A i \in 0 .. transmitted + 1 : more[i] \in Places
    BY <1>1, <1>2, <1>3
  <2> QED
    BY <2>1
<1>5. ASSUME NEW i \in 0 .. transmitted + 1, NEW j \in 0 .. transmitted + 1, i <= j
      PROVE  NotAfter(more[i], more[j])
  <2>1. CASE j \in 0 .. transmitted
    <3>1. i \in 0 .. transmitted
      BY <1>5, <2>1
    <3> QED
      BY <1>1, <1>5, <2>1, <3>1 DEF Ordered
  <2>2. CASE j = transmitted + 1
    <3>1. CASE i = transmitted + 1
      BY <1>1, <2>2, <3>1 DEF NotAfter, Places
    <3>2. CASE i \in 0 .. transmitted
      <4>1. transmitted \in 0 .. transmitted /\ i <= transmitted
        BY <3>2
      <4>2. NotAfter(c[i], c[transmitted]) /\ c[i] \in Places /\ c[transmitted] \in Places
        BY <1>3, <3>2, <4>1 DEF Ordered
      <4>3. NotAfter(c[i], at)
        BY <4>2 DEF NotAfter, Places
      <4> QED
        BY <1>1, <2>2, <3>2, <4>3
    <3> QED
      BY <1>2, <3>1, <3>2
  <2> QED
    BY <1>2, <2>1, <2>2
<1> QED
  BY <1>1, <1>4, <1>5 DEF Ordered

LEMMA OpportunityKeeps ==
  ASSUME RlcInv, HeardOK, PassedOK, SomeHeard, NEW c, Sound(c),
         NEW bytes \in Opportunities, DoNotifyTxOpportunity(bytes)
  PROVE  /\ HeardOK' /\ PassedOK' /\ \E more : Sound(more)'
         /\ Extends(delivered, delivered')
<1>1. /\ UNCHANGED <<rxBuffer, vrUr, vrUx, vrUh, reassembly, sdus, heard>>
      /\ sdus \in Seq(Nat) /\ txBuffer \in Seq(Segments) /\ NumbersOK
      /\ Stream(c) /\ Awaits(reassembly, Passed, c, vrUh, heard) /\ bytes \in Nat
  BY RlcAssumption DEF RlcInv, SenderInv, Sound, DoNotifyTxOpportunity
<1>2. CASE bytes <= 2 \/ txBuffer = << >>
  <2>1. UNCHANGED <<txBuffer, sequenceNumber, rbsTimer, air, reordering, transmitted>>
    BY <1>2 DEF DoNotifyTxOpportunity
  <2>2. UNCHANGED <<window, reassembly, heard, sequenceNumber, transmitted, sdus, txBuffer>>
        /\ air' \subseteq air
    BY <1>1, <2>1 DEF window
  <2> QED
    BY <2>2, RestKeeps
<1>3. CASE ~(bytes <= 2 \/ txBuffer = << >>)
  <2>1. PICK data, rest : data = Fill(txBuffer, bytes - 2).data /\ rest = Fill(txBuffer, bytes - 2).buffer
    OBVIOUS
  <2>2. PICK new : new = [sn |-> sequenceNumber, data |-> data, no |-> transmitted]
    OBVIOUS
  <2>3. /\ txBuffer' = rest /\ air' = air \cup {new}
        /\ sequenceNumber' = Plus(sequenceNumber, 1) /\ transmitted' = transmitted + 1
    BY <1>3, <2>1, <2>2 DEF DoNotifyTxOpportunity
  <2>4. Unsent(txBuffer) /\ txBuffer # << >> /\ c[transmitted] = Start(txBuffer)
    BY <1>1, <1>3 DEF Stream, HeadOf
  <2>5. /\ Stretch(data) /\ data # << >> /\ Start(data) = Start(txBuffer)
        /\ Unsent(rest) /\ End(data) = HeadOf(rest)
    <3>1. \A k \in 1 .. Len(txBuffer) : SizeOf(txBuffer[k]) > 0
      <4> SUFFICES ASSUME NEW k \in 1 .. Len(txBuffer) PROVE SizeOf(txBuffer[k]) > 0
        OBVIOUS
      <4>1. IsPart(txBuffer[k])
        BY <2>4 DEF Unsent, Stretch
      <4> QED
        BY <4>1 DEF IsPart, SizeOf
    <3>2. bytes - 2 \in Nat \ {0}
      BY <1>1, <1>3
    <3>3. \E last \in 1 .. Len(txBuffer), taken \in Nat \ {0} :
            taken <= SizeOf(txBuffer[last]) /\ Split(txBuffer, data, rest, last, taken)
      BY <1>1, <2>1, <2>4, <3>1, <3>2, FillSplits
    <3> QED
      BY <1>1, <2>4, <3>3, SplitStretch
  <2>6. PICK at : at = End(data)
    OBVIOUS
  <2>7. at \in Places /\ NotAfter(c[transmitted], at)
    BY <1>1, <2>4, <2>5, <2>6, StretchEnds
  <2>8. PICK more :
          more = [i \in 0 .. transmitted + 1 |-> IF i <= transmitted THEN c[i] ELSE at]
    OBVIOUS
  <2>9. transmitted \in Nat /\ heard \in 0 .. transmitted /\ Behind(vrUh) = transmitted - heard
        /\ Passed \in 0 .. heard
    BY <1>1 DEF NumbersOK, HeardOK, Awaits
  <2>10. /\ Ordered(more)' /\ more[transmitted + 1] = at
         /\ \A i \in 0 .. transmitted : more[i] = c[i]
    BY <1>1, <2>3, <2>7, <2>8, <2>9, OneMorePlace DEF Stream
  <2>11. Unsent(txBuffer)' /\ (more[transmitted] = HeadOf(txBuffer))'
    BY <1>1, <2>3, <2>5, <2>6, <2>10 DEF Unsent, Stretch, IsPart, HeadOf, Start
  <2>12. Waiting' = Waiting
    BY <1>1 DEF Waiting
  <2>13. ASSUME NEW p \in Waiting' \cup air' PROVE Carries(p, more)'
    <3>1. /\ p.no \in 0 .. transmitted /\ Stretch(p.data) /\ p.data # << >>
          /\ more[p.no] = Start(p.data) /\ more[p.no + 1] = End(p.data)
      <4>1. CASE p = new
        <5>1. p.no = transmitted /\ p.data = data /\ transmitted \in 0 .. transmitted
          BY <2>2, <2>9, <4>1
        <5> QED
          BY <2>4, <2>5, <2>6, <2>10, <5>1
      <4>2. CASE p # new
        <5>1. Carries(p, c)
          BY <1>1, <2>3, <2>12, <2>13, <4>2 DEF Stream
        <5>2. p.no \in 0 .. transmitted /\ p.no + 1 \in 0 .. transmitted
          BY <2>9, <5>1 DEF Carries
        <5> QED
          BY <2>10, <5>1, <5>2 DEF Carries
      <4> QED
        BY <4>1, <4>2
    <3>2. p.no \in 0 .. transmitted' - 1
      BY <2>3, <2>9, <3>1
    <3> QED
      BY <1>1, <3>1, <3>2 DEF Carries, Stretch, IsPart, End, After, Start
  <2>14. Stream(more)'
    BY <2>10, <2>11, <2>13 DEF Stream
  <2>15. HeardOK'
    <3>1. Behind(vrUh) < Modulus - 1
      BY <2>9, Constants DEF SomeHeard
    <3>2. Minus(sequenceNumber', vrUh) = Behind(vrUh) + 1
      BY <1>1, <2>3, <3>1, NextBehind DEF NumbersOK
    <3>3. Behind(vrUh)' = Behind(vrUh) + 1
      BY <1>1, <3>2 DEF Behind, Minus
    <3>4. heard' \in 0 .. transmitted' /\ Behind(vrUh)' = transmitted' - heard'
      BY <1>1, <2>3, <2>9, <3>3
    <3> QED
      BY <3>4 DEF HeardOK
  <2>16. Passed' = Passed /\ Depth(vrUr)' = Depth(vrUr)
    BY <1>1 DEF Passed, Depth, Minus
  <2>17. PassedOK'
    BY <1>1, <2>12, <2>16 DEF PassedOK
  <2>18. Awaits(reassembly, Passed, more, vrUh, heard)'
    <3>1. more[Passed] = c[Passed]
      BY <2>9, <2>10
    <3> QED
      BY <1>1, <2>16, <3>1 DEF Awaits, Assembled, WholeSdus, IsSdu, Minus
  <2>19. Extends(delivered, delivered')
    BY <1>1, SomeExtends DEF delivered
  <2>20. Sound(more)'
    BY <2>14, <2>18 DEF Sound
  <2> QED
    BY <2>15, <2>17, <2>19, <2>20
<1> QED
  BY <1>2, <1>3

(* The receiver is where the numbers say, and what it has put together is  *)
(* what was sent.                                                          *)
PromiseInv == RlcInv /\ HeardOK /\ PassedOK /\ \E c : Sound(c)

LEMMA PromiseInitOK == Init => PromiseInv
<1> SUFFICES ASSUME Init PROVE PromiseInv
  OBVIOUS
<1>1. RlcInv
  BY InitOK
<1>2. /\ transmitted = 0 /\ heard = 0 /\ sdus = << >> /\ txBuffer = << >> /\ air = {}
      /\ vrUr = sequenceNumber /\ vrUh = sequenceNumber /\ sequenceNumber \in Numbers
      /\ reassembly = [expected |-> sequenceNumber, state |-> "WAITING_S0_FULL",
                       keepS0 |-> << >>, sdusBuffer |-> << >>, delivered |-> << >>]
  BY <1>1 DEF Init, RlcInv, NumbersOK
<1>3. Waiting = {}
  BY DEF Init, Waiting
<1>4. Minus(sequenceNumber, sequenceNumber) = 0
  BY <1>2, DepthOf
<1>5. HeardOK /\ PassedOK /\ Passed = 0
  BY <1>2, <1>4 DEF HeardOK, PassedOK, Passed, Depth, Behind
<1>6. PICK c : c = [i \in 0 .. 0 |-> Place(1, 0)]
  OBVIOUS
<1>7. c[0] = Place(1, 0) /\ Place(1, 0) \in Places /\ Place(1, 0).sdu = 1
  BY <1>6 DEF Place, Places
<1>8. Ordered(c)
  <2>1. c \in [0 .. 0 -> Places] /\ \A i \in 0 .. 0 : i = 0
    BY <1>6, <1>7
  <2> QED
    BY <1>2, <1>7, <2>1 DEF Ordered, NotAfter, Places
<1>9. Stream(c)
  <2>1. Unsent(<< >>)
    <3>1. << >> \in Seq(Segments) /\ Len(<< >>) = 0
      OBVIOUS
    <3> QED
      BY <3>1 DEF Unsent, Stretch
  <2>2. HeadOf(<< >>) = Place(1, 0)
    BY <1>2 DEF HeadOf
  <2> QED
    BY <1>2, <1>3, <1>7, <1>8, <2>1, <2>2 DEF Stream
<1>10. Awaits(reassembly, Passed, c, vrUh, heard)
  <2>1. << >> \in Packets /\ << >> \in Seq(Pieces) /\ Len(<< >>) = 0
    BY DEF Packets
  <2>2. reassembly \in Assemblies
    BY <1>2, <2>1 DEF Assemblies
  <2>3. WholeSdus(reassembly.delivered, 1)
    BY <1>2, <2>1 DEF WholeSdus
  <2>4. Assembled(reassembly, c[0])
    BY <1>2, <1>7, <2>2, <2>3 DEF Assembled
  <2> QED
    BY <1>2, <1>4, <1>5, <2>4 DEF Awaits
<1> QED
  BY <1>1, <1>5, <1>9, <1>10 DEF PromiseInv, Sound

LEMMA PromiseStep ==
  ASSUME PromiseInv, SomeHeard, [Next]_vars
  PROVE  /\ PromiseInv' /\ Extends(delivered, delivered')
         /\ \/ delivered' = delivered /\ (sdus' = sdus \/ Len(sdus') = Len(sdus) + 1)
            \/ sdus' = sdus
<1>1. RlcInv /\ HeardOK /\ PassedOK /\ RlcInv'
  BY StepOK DEF PromiseInv
<1>2. PICK c : Sound(c)
  BY DEF PromiseInv
<1> DEFINE Kept == HeardOK' /\ PassedOK' /\ (\E more : Sound(more)') /\ Extends(delivered, delivered')
           Grown == \/ delivered' = delivered /\ (sdus' = sdus \/ Len(sdus') = Len(sdus) + 1)
                    \/ sdus' = sdus
<1>3. CASE DoTransmitPdcpPdu
  <2>1. Kept
    BY <1>1, <1>2, <1>3, TransmitKeeps
  <2>2. sdus' = sdus \/ Len(sdus') = Len(sdus) + 1
    <3>1. \E size : sdus' = Append(sdus, size) \/ sdus' = sdus
      BY <1>3 DEF DoTransmitPdcpPdu
    <3>2. PICK size : sdus' = Append(sdus, size) \/ sdus' = sdus
      BY <3>1
    <3>3. sdus \in Seq(Nat)
      BY <1>1 DEF RlcInv, SenderInv
    <3> QED
      BY <3>2, <3>3
  <2>3. delivered' = delivered
    BY <1>3 DEF DoTransmitPdcpPdu, receiver, delivered
  <2> QED
    BY <1>1, <2>1, <2>2, <2>3 DEF PromiseInv
<1>4. ASSUME NEW bytes \in Opportunities, DoNotifyTxOpportunity(bytes) PROVE Kept /\ sdus' = sdus
  BY <1>1, <1>2, <1>4, OpportunityKeeps DEF DoNotifyTxOpportunity
<1>5. CASE ExpireRbsTimer
  <2>1. UNCHANGED <<window, reassembly, heard, sequenceNumber, transmitted, sdus, txBuffer>>
        /\ air' \subseteq air
    BY <1>5 DEF ExpireRbsTimer, receiver
  <2> QED
    BY <1>1, <1>2, <2>1, RestKeeps DEF PromiseInv
<1>6. ASSUME NEW p \in air, Arrive(p) PROVE Kept /\ sdus' = sdus
  BY <1>1, <1>2, <1>6, ArriveKeeps DEF Arrive
<1>7. ASSUME NEW p \in air, Lose(p) PROVE Kept /\ sdus' = sdus
  <2>1. UNCHANGED <<window, reassembly, heard, sequenceNumber, transmitted, sdus, txBuffer>>
        /\ air' \subseteq air
    BY <1>7 DEF Lose, receiver, sender
  <2> QED
    BY <1>1, <1>2, <2>1, RestKeeps
<1>8. CASE ExpireReorderingTimer
  <2>1. sdus' = sdus
    BY <1>8 DEF ExpireReorderingTimer
  <2> QED
    BY <1>1, <1>2, <1>8, <2>1, ExpireKeeps DEF PromiseInv
<1>9. CASE UNCHANGED vars
  <2>1. UNCHANGED <<window, reassembly, heard, sequenceNumber, transmitted, sdus, txBuffer>>
        /\ air' \subseteq air
    BY <1>9 DEF vars, receiver, sender
  <2> QED
    BY <1>1, <1>2, <2>1, RestKeeps DEF PromiseInv
<1> QED
  BY <1>1, <1>3, <1>4, <1>5, <1>6, <1>7, <1>8, <1>9 DEF Next, PromiseInv

LEMMA PromiseInvariant == Safety /\ []SomeHeard => []PromiseInv
<1>1. Init => PromiseInv
  BY PromiseInitOK
<1>2. PromiseInv /\ SomeHeard /\ [Next]_vars => PromiseInv'
  BY PromiseStep
<1> QED
  BY <1>1, <1>2, PTL DEF Safety

(* The variables have the types their uses expect: no segment is empty,    *)
(* the SDU list is empty between two PDUs, and a piece is kept exactly in  *)
(* the state that waits for its rest.                                      *)
THEOREM RlcTypeCorrect == Safety /\ []SomeHeard => []RlcTypeOK
<1>1. PromiseInv => RlcTypeOK
  <2> SUFFICES ASSUME PromiseInv PROVE RlcTypeOK
    OBVIOUS
  <2>1. PICK c : Sound(c)
    BY DEF PromiseInv
  <2>2. NumbersOK /\ SenderInv /\ Unsent(txBuffer) /\ Assembled(reassembly, c[Passed])
    BY <2>1 DEF PromiseInv, RlcInv, Sound, Stream, Awaits
  <2>3. ASSUME NEW k \in DOMAIN txBuffer
        PROVE  txBuffer[k] \in SegmentType /\ SizeOf(txBuffer[k]) > 0
    <3>1. PICK s : s = txBuffer[k]
      OBVIOUS
    <3>2. k \in 1 .. Len(txBuffer) /\ s \in Segments
      BY <2>2, <3>1 DEF SenderInv
    <3>3. IsPart(s)
      BY <2>2, <3>1, <3>2 DEF Unsent, Stretch
    <3> QED
      BY <3>1, <3>2, <3>3 DEF Segments, IsPart, SegmentType, SizeOf
  <2>4. /\ reassembly.sdusBuffer = << >>
        /\ (reassembly.keepS0 # << >>) <=> (reassembly.state = "WAITING_SI_SF")
    <3>1. reassembly.sdusBuffer = << >>
      BY <2>2 DEF Assembled, Assemblies
    <3>2. CASE reassembly.state = "WAITING_S0_FULL" /\ reassembly.keepS0 = << >>
      BY <3>1, <3>2
    <3>3. CASE /\ reassembly.state = "WAITING_SI_SF"
               /\ \E y : reassembly.keepS0 = <<y>>
      <4>1. PICK y : reassembly.keepS0 = <<y>>
        BY <3>3
      <4>2. <<y>> # << >>
        OBVIOUS
      <4> QED
        BY <3>1, <3>3, <4>1, <4>2
    <3> QED
      BY <2>2, <3>2, <3>3 DEF Assembled
  <2> QED
    <3>1. /\ sequenceNumber \in 0 .. Modulus - 1 /\ {vrUr, vrUx, vrUh} \subseteq 0 .. Modulus - 1
          /\ reordering \in NotRunning .. MaxAwait
          /\ \A k \in DOMAIN rxBuffer : rxBuffer[k].sn = k
      BY <2>2 DEF NumbersOK, Numbers
    <3>2. reported \in Nat /\ rbsTimer \in BOOLEAN
      BY <2>2 DEF SenderInv
    <3> QED
      BY <2>3, <2>4, <3>1, <3>2 DEF RlcTypeOK
<1> QED
  BY <1>1, PromiseInvariant, PTL

(* Every packet delivered is a whole SDU, and comes after those before it. *)
OutOK ==
  /\ delivered \in Packets
  /\ \A k \in 1 .. Len(delivered) :
       /\ SduOf(delivered[k]) \in 1 .. Len(sdus) /\ Identity(delivered[k]) = SduOf(delivered[k])
       /\ k > 1 => SduOf(delivered[k - 1]) < SduOf(delivered[k])

LEMMA OutIs == PromiseInv => OutOK
<1> SUFFICES ASSUME PromiseInv PROVE OutOK
  OBVIOUS
<1>1. PICK c : Sound(c)
  BY DEF PromiseInv
<1>2. PICK limit : WholeSdus(delivered, limit)
  BY <1>1 DEF Sound, Awaits, Assembled, delivered
<1>3. ASSUME NEW q, IsSdu(q) PROVE SduOf(q) \in 1 .. Len(sdus) /\ Identity(q) = SduOf(q)
  BY <1>3 DEF IsSdu, Identity, SduOf
<1> QED
  BY <1>2, <1>3 DEF WholeSdus, OutOK

(* Each step of the two ends is one of the promise, or none.               *)
LEMMA PromiseRefined ==
  ASSUME OutOK, OutOK', Len(sdus) \in Nat, Extends(delivered, delivered'),
         \/ delivered' = delivered /\ (sdus' = sdus \/ Len(sdus') = Len(sdus) + 1)
         \/ sdus' = sdus
  PROVE  [Promise!Next]_(Promise!vars)
<1> DEFINE out == [k \in DOMAIN delivered |-> Identity(delivered[k])]
           Numbered(q) == [k \in 1 .. Len(q) |-> SduOf(q[k])]
<1>1. PICK d, e, o, p : d = delivered /\ e = delivered' /\ o = out /\ p = out'
  OBVIOUS
<1>2. /\ d \in Packets /\ e \in Packets /\ Extends(d, e)
  BY <1>1 DEF OutOK
<1>3. o = Numbered(d)
  <2>1. DOMAIN delivered = 1 .. Len(delivered)
    BY DEF OutOK, Packets
  <2>2. \A k \in 1 .. Len(delivered) : Identity(delivered[k]) = SduOf(delivered[k])
    BY DEF OutOK
  <2> QED
    BY <1>1, <2>1, <2>2
<1>4. p = Numbered(e)
  <2>1. DOMAIN delivered' = 1 .. Len(delivered')
    BY DEF OutOK, Packets
  <2>2. \A k \in 1 .. Len(delivered') : Identity(delivered[k])' = SduOf(delivered'[k])
    BY DEF OutOK
  <2>3. out' = [k \in DOMAIN delivered' |-> Identity(delivered[k])']
    OBVIOUS
  <2> QED
    BY <1>1, <2>1, <2>2, <2>3
<1>5. CASE delivered' = delivered
  <2>1. p = o
    BY <1>1, <1>3, <1>4, <1>5
  <2>2. CASE sdus' = sdus
    BY <1>1, <2>1, <2>2 DEF Promise!vars
  <2>3. CASE Len(sdus') = Len(sdus) + 1
    BY <1>1, <2>1, <2>3 DEF Promise!Next, Promise!Accept
  <2> QED
    BY <1>5, <2>2, <2>3
<1>6. CASE delivered' # delivered
  <2>1. sdus' = sdus
    BY <1>6
  <2>2. /\ Len(d) \in Nat /\ Len(e) \in Nat /\ Len(d) <= Len(e)
        /\ \A k \in 1 .. Len(d) : e[k] = d[k]
    BY <1>2 DEF Packets, Extends
  <2>3. /\ \A k \in 1 .. Len(e) : SduOf(e[k]) \in 1 .. Len(sdus)
        /\ \A k \in 1 .. Len(e) : k > 1 => SduOf(e[k - 1]) < SduOf(e[k])
    <3>1. \A k \in 1 .. Len(delivered') :
            /\ SduOf(delivered'[k]) \in 1 .. Len(sdus')
            /\ k > 1 => SduOf(delivered'[k - 1]) < SduOf(delivered'[k])
      BY DEF OutOK
    <3> QED
      BY <1>1, <2>1, <3>1
  <2>4. Len(d) # Len(e)
    <3>1. Len(d) = Len(e) => d = e
      <4>1. PICK S : S = Seq(Pieces)
        OBVIOUS
      <4>2. d \in Seq(S) /\ e \in Seq(S)
        BY <1>2, <4>1 DEF Packets
      <4> QED
        BY <2>2, <4>2, SeqEqual
    <3> QED
      BY <1>1, <1>6, <3>1
  <2>5. /\ o \in Seq(Nat) /\ Len(o) = Len(d) /\ p \in Seq(Nat) /\ Len(p) = Len(e)
        /\ \A k \in 1 .. Len(d) : o[k] = SduOf(d[k])
        /\ \A k \in 1 .. Len(e) : p[k] = SduOf(e[k])
    <3>1. \A k \in 1 .. Len(e) : SduOf(e[k]) \in Nat
      BY <2>3
    <3>2. \A k \in 1 .. Len(d) : k \in 1 .. Len(e) /\ SduOf(d[k]) \in Nat
      BY <2>2, <3>1
    <3>3. o \in [1 .. Len(d) -> Nat]
      BY <1>3, <3>2
    <3>4. p \in [1 .. Len(e) -> Nat]
      BY <1>4, <3>1
    <3>5. o \in Seq(Nat) /\ Len(o) = Len(d)
      BY <2>2, <3>3
    <3>6. p \in Seq(Nat) /\ Len(p) = Len(e)
      BY <2>2, <3>4
    <3> QED
      BY <1>3, <1>4, <3>5, <3>6
  <2>6. Promise!IsStrictPrefix(o, p)
    <3>1. SubSeq(o, 1, Len(o)) = SubSeq(p, 1, Len(o))
      <4>1. \A k \in 1 .. Len(o) : k \in 1 .. Len(p) /\ o[k] = p[k]
        BY <2>2, <2>5
      <4> QED
        BY <2>2, <2>5, <4>1
    <3>2. Len(o) <= Len(p) /\ o # p
      BY <2>2, <2>4, <2>5
    <3> QED
      BY <3>1, <3>2 DEF Promise!IsStrictPrefix, Promise!IsPrefix
  <2>7. \A k \in Len(o) + 1 .. Len(p) :
          p[k] \in 1 .. Len(sdus) /\ (k > 1 => p[k - 1] < p[k])
    <3>1. \A k \in Len(o) + 1 .. Len(p) : k \in 1 .. Len(e) /\ (k > 1 => k - 1 \in 1 .. Len(e))
      BY <2>2, <2>5
    <3> QED
      BY <2>3, <2>5, <3>1
  <2>8. Promise!Deliver
    <3>1. out = o /\ out' = p
      BY <1>1
    <3> HIDE DEF out
    <3>2. Promise!IsStrictPrefix(out, out')
          /\ (\A k \in Len(out) + 1 .. Len(out') :
                out'[k] \in 1 .. Len(sdus) /\ (k > 1 => out'[k - 1] < out'[k]))
          /\ UNCHANGED Len(sdus)
      BY <2>1, <2>6, <2>7, <3>1
    <3> QED
      BY <3>2 DEF Promise!Deliver, out
  <2> QED
    BY <2>8 DEF Promise!Next
<1> QED
  BY <1>5, <1>6

(* Unless half a cycle of PDUs is lost in a row, the two ends keep the     *)
(* promise of unacknowledged mode: SDUs come out whole, at most once and   *)
(* in order, whatever is lost, overtaken or received twice and however     *)
(* they are cut.                                                           *)
THEOREM PromiseHolds == Safety /\ []SomeHeard => PromiseKept
<1>1. Init => Promise!Init
  <2> SUFFICES ASSUME Init PROVE Promise!Init
    OBVIOUS
  <2>1. sdus = << >> /\ delivered = << >>
    BY DEF Init, delivered
  <2>2. Len(sdus) = 0 /\ [k \in DOMAIN delivered |-> Identity(delivered[k])] = << >>
    BY <2>1
  <2> QED
    BY <2>2 DEF Promise!Init
<1>2. PromiseInv /\ OutOK /\ OutOK' /\ SomeHeard /\ [Next]_vars => [Promise!Next]_(Promise!vars)
  <2> SUFFICES ASSUME PromiseInv, OutOK, OutOK', SomeHeard, [Next]_vars
               PROVE  [Promise!Next]_(Promise!vars)
    OBVIOUS
  <2>1. Len(sdus) \in Nat
    <3>1. sdus \in Seq(Nat)
      BY DEF PromiseInv, RlcInv, SenderInv
    <3> QED
      BY <3>1
  <2> QED
    BY <2>1, PromiseStep, PromiseRefined
<1> QED
  BY <1>1, <1>2, OutIs, PromiseInvariant, PTL DEF Safety, PromiseKept, Promise!Spec
=============================================================================
