------------------------ MODULE TrafficControl_proofs ------------------------
(***************************************************************************)
(* Theorems about the run loop of QueueDisc, for any number of discs and   *)
(* of transmission queues, any quota and any limits.  The invariant has    *)
(* four parts: the calls on the stack, the books of each disc, the device, *)
(* and what holds of a disc that is not running.                           *)
(***************************************************************************)
EXTENDS TrafficControl, FiniteSetTheorems, SequenceTheorems, TLAPS

(* A call of Run works for a queue of its own disc, and what it has handed *)
(* over and what is left of its quota add up.                              *)
FrameOK(f) ==
  /\ DiscOf[f.txq] = f.disc
  /\ f.left > 0
  /\ f.sent + f.left = IF f.sending THEN Quota + 1 ELSE Quota

StackInv ==
  /\ stack \in Seq(Frame)
  /\ running \in [Disc -> BOOLEAN]
  /\ exhausted \in [Disc -> BOOLEAN]
  /\ RunOnce
  /\ \A i \in 1 .. Len(stack) : FrameOK(stack[i])

LEMMA PopStack ==
  ASSUME NEW S, NEW s \in Seq(S), s # <<>>
  PROVE  /\ Len(s) \in Nat \ {0}
         /\ s[Len(s)] \in S
         /\ SubSeq(s, 1, Len(s) - 1) \in Seq(S)
         /\ Len(SubSeq(s, 1, Len(s) - 1)) = Len(s) - 1
         /\ \A i \in 1 .. Len(s) - 1 : SubSeq(s, 1, Len(s) - 1)[i] = s[i]
<1>1. Len(s) \in Nat \ {0} /\ s[Len(s)] \in S
  BY EmptySeq, LenProperties
<1> DEFINE m == Len(s) - 1
<1>2. m \in 0 .. Len(s) /\ 1 \in 1 .. Len(s) + 1 /\ m - 1 + 1 = m
  BY <1>1
<1> HIDE DEF m
<1>3. /\ SubSeq(s, 1, m) \in Seq(S)
      /\ Len(SubSeq(s, 1, m)) = IF 1 <= m THEN m - 1 + 1 ELSE 0
      /\ \A i \in 1 .. m - 1 + 1 : SubSeq(s, 1, m)[i] = s[1 + i - 1]
  BY <1>2, SubSeqProperties
<1>4. Len(SubSeq(s, 1, m)) = m /\ \A i \in 1 .. m : SubSeq(s, 1, m)[i] = s[i]
  BY <1>2, <1>3
<1> QED
  BY <1>1, <1>3, <1>4 DEF m

LEMMA SetTopStack ==
  ASSUME NEW S, NEW s \in Seq(S), s # <<>>, NEW e \in S
  PROVE  /\ [s EXCEPT ![Len(s)] = e] \in Seq(S)
         /\ Len([s EXCEPT ![Len(s)] = e]) = Len(s)
         /\ \A i \in 1 .. Len(s) :
              [s EXCEPT ![Len(s)] = e][i] = IF i = Len(s) THEN e ELSE s[i]
<1>1. Len(s) \in 1 .. Len(s)
  BY EmptySeq, LenProperties
<1> QED
  BY <1>1, ExceptSeq, LenProperties

LEMMA TopType ==
  ASSUME StackInv, stack # <<>>
  PROVE  /\ Top \in Frame /\ FrameOK(Top)
         /\ Len(stack) \in 1 .. Len(stack)
         /\ running[Top.disc]
<1>1. Len(stack) \in 1 .. Len(stack)
  BY EmptySeq, LenProperties DEF StackInv
<1>2. Top \in Frame
  BY <1>1, LenProperties DEF StackInv, Top
<1>3. Top.disc \in Disc
  BY <1>2 DEF Frame
<1> QED
  BY <1>1, <1>2, <1>3 DEF StackInv, Top, RunOnce

LEMMA FrameType ==
  ASSUME StackInv, NEW j \in 1 .. Len(stack)
  PROVE  stack[j] \in Frame /\ stack[j].disc \in Disc
<1>1. stack[j] \in Frame
  BY LenProperties DEF StackInv
<1> QED
  BY <1>1 DEF Frame

(* Run begins.                                                             *)
LEMMA BeginStack ==
  ASSUME TrafficAssumption, StackInv, NEW t \in TxQueue, RunBegin(DiscOf[t], t)
  PROVE  /\ StackInv'
         /\ running'[DiscOf[t]]
         /\ \A i \in 1 .. Len(stack') : stack'[i].sending =>
              \E j \in 1 .. Len(stack) : stack[j].sending /\ stack[j].disc = stack'[i].disc
         /\ \A d \in Disc : d # DiscOf[t] =>
              running'[d] = running[d] /\ exhausted'[d] = exhausted[d]
<1> DEFINE d0 == DiscOf[t]
           f == [disc |-> d0, left |-> Quota, sending |-> FALSE, txq |-> t, sent |-> 0]
<1>1. d0 \in Disc /\ Quota \in Nat \ {0}
  BY DEF TrafficAssumption
<1>2. CASE running[d0]
  BY <1>1, <1>2 DEF RunBegin, StackInv, RunOnce
<1>3. CASE ~running[d0]
  <2>1. /\ running' = [running EXCEPT ![d0] = TRUE]
        /\ exhausted' = [exhausted EXCEPT ![d0] = FALSE]
        /\ stack' = Append(stack, f)
    BY <1>3 DEF RunBegin, Push
  <2>2. f \in Frame /\ FrameOK(f) /\ f.disc = d0 /\ ~f.sending
    BY <1>1 DEF Frame, FrameOK
  <2> HIDE DEF f
  <2>3. /\ stack' \in Seq(Frame)
        /\ Len(stack') = Len(stack) + 1
        /\ \A i \in 1 .. Len(stack) : stack'[i] = stack[i]
        /\ stack'[Len(stack) + 1] = f
        /\ Len(stack) \in Nat
    BY <2>1, <2>2, AppendProperties, LenProperties DEF StackInv
  <2>4. \A i \in 1 .. Len(stack') : i \in 1 .. Len(stack) \/ i = Len(stack) + 1
    BY <2>3
  <2>5. \A i \in 1 .. Len(stack') : FrameOK(stack'[i])
    BY <2>2, <2>3, <2>4 DEF StackInv
  <2>6. \A i \in 1 .. Len(stack) : stack[i].disc # d0
    BY <1>1, <1>3 DEF StackInv, RunOnce
  <2>7. \A i, j \in 1 .. Len(stack') : stack'[i].disc = stack'[j].disc => i = j
    BY <2>2, <2>3, <2>4, <2>6 DEF StackInv, RunOnce
  <2>8. running' \in [Disc -> BOOLEAN] /\ exhausted' \in [Disc -> BOOLEAN]
    BY <2>1 DEF StackInv
  <2>9. /\ running'[d0]
        /\ \A d \in Disc : d # d0 => running'[d] = running[d] /\ exhausted'[d] = exhausted[d]
    BY <1>1, <2>1 DEF StackInv
  <2>10. ASSUME NEW d \in Disc
         PROVE  running'[d] <=> \E i \in 1 .. Len(stack') : stack'[i].disc = d
    <3>1. CASE d = d0
      <4>1. Len(stack) + 1 \in 1 .. Len(stack')
        BY <2>3
      <4> QED
        BY <3>1, <4>1, <2>2, <2>3, <2>9
    <3>2. CASE d # d0
      <4>1. running'[d] <=> \E i \in 1 .. Len(stack) : stack[i].disc = d
        BY <3>2, <2>9 DEF StackInv, RunOnce
      <4>2. \A i \in 1 .. Len(stack) : i \in 1 .. Len(stack')
        BY <2>3
      <4> QED
        BY <3>2, <4>1, <4>2, <2>2, <2>3, <2>4
    <3> QED
      BY <3>1, <3>2
  <2>11. \A i \in 1 .. Len(stack') : stack'[i].sending =>
           \E j \in 1 .. Len(stack) : stack[j].sending /\ stack[j].disc = stack'[i].disc
    BY <2>2, <2>3, <2>4
  <2> QED
    BY <2>3, <2>5, <2>7, <2>8, <2>9, <2>10, <2>11 DEF StackInv, RunOnce, FrameOK
<1> QED
  BY <1>2, <1>3

(* Run ends: its disc is not on the stack any more.                        *)
LEMMA EndStack ==
  ASSUME StackInv, NEW d0 \in Disc, stack # <<>>, Top.disc = d0,
         NEW spent \in BOOLEAN, RunEnd(d0, spent)
  PROVE  /\ StackInv'
         /\ ~running'[d0] /\ exhausted'[d0] = spent
         /\ \A i \in 1 .. Len(stack') : stack'[i].disc # d0 /\
              \E j \in 1 .. Len(stack) : stack[j] = stack'[i]
         /\ \A d \in Disc : d # d0 =>
              running'[d] = running[d] /\ exhausted'[d] = exhausted[d]
<1> DEFINE n == Len(stack)
<1>1. /\ running' = [running EXCEPT ![d0] = FALSE]
      /\ exhausted' = [exhausted EXCEPT ![d0] = spent]
      /\ stack' = SubSeq(stack, 1, n - 1)
  BY DEF RunEnd, Pop
<1>2. /\ n \in Nat \ {0}
      /\ stack' \in Seq(Frame) /\ Len(stack') = n - 1
      /\ \A i \in 1 .. n - 1 : stack'[i] = stack[i]
  BY <1>1, PopStack DEF StackInv
<1>3. stack[n].disc = d0
  BY DEF Top
<1> HIDE DEF n
<1>4. \A i \in 1 .. n - 1 : i \in 1 .. n /\ i # n
  BY <1>2
<1>5. n \in 1 .. n /\ \A i \in 1 .. n : i = n \/ i \in 1 .. n - 1
  BY <1>2
<1>6. \A i \in 1 .. n - 1 : stack[i].disc # d0
  BY <1>3, <1>4, <1>5 DEF StackInv, RunOnce, n
<1>7. /\ running' \in [Disc -> BOOLEAN] /\ exhausted' \in [Disc -> BOOLEAN]
      /\ ~running'[d0] /\ exhausted'[d0] = spent
      /\ \A d \in Disc : d # d0 => running'[d] = running[d] /\ exhausted'[d] = exhausted[d]
  BY <1>1 DEF StackInv
<1>8. ASSUME NEW d \in Disc
      PROVE  running'[d] <=> \E i \in 1 .. n - 1 : stack[i].disc = d
  <2>1. CASE d = d0
    BY <2>1, <1>6, <1>7
  <2>2. CASE d # d0
    <3>1. running'[d] <=> \E i \in 1 .. n : stack[i].disc = d
      BY <2>2, <1>7 DEF StackInv, RunOnce, n
    <3> QED
      BY <2>2, <3>1, <1>3, <1>4, <1>5
  <2> QED
    BY <2>1, <2>2
<1>9. RunOnce'
  <2>1. \A d \in Disc : running'[d] <=> \E i \in 1 .. Len(stack') : stack'[i].disc = d
    BY <1>2, <1>8
  <2>2. \A i, j \in 1 .. Len(stack') : stack'[i].disc = stack'[j].disc => i = j
    BY <1>2, <1>4 DEF StackInv, RunOnce, n
  <2> QED
    BY <2>1, <2>2 DEF RunOnce
<1>10. \A i \in 1 .. Len(stack') : FrameOK(stack'[i])
  BY <1>2, <1>4 DEF StackInv, n
<1>11. \A i \in 1 .. Len(stack') : stack'[i].disc # d0 /\
         \E j \in 1 .. Len(stack) : stack[j] = stack'[i]
  BY <1>2, <1>4, <1>6 DEF n
<1> QED
  BY <1>2, <1>7, <1>9, <1>10, <1>11 DEF StackInv, FrameOK

LEMMA SendingFrame ==
  ASSUME TrafficAssumption, NEW g \in Frame, FrameOK(g), ~g.sending,
         NEW t \in TxQueue, DiscOf[t] = g.disc
  PROVE  LET f == [disc |-> g.disc, left |-> g.left, sending |-> TRUE,
                   txq |-> t, sent |-> g.sent + 1]
         IN f \in Frame /\ FrameOK(f)
<1>1. /\ g.sent \in Nat /\ g.left \in 0 .. Quota /\ g.disc \in Disc /\ Quota \in Nat
      /\ g.left > 0 /\ g.sent + g.left = Quota
  BY DEF Frame, FrameOK, TrafficAssumption
<1>2. g.sent + 1 \in Nat /\ (g.sent + 1) + g.left = Quota + 1
  BY <1>1
<1> DEFINE k == g.sent + 1
           f == [disc |-> g.disc, left |-> g.left, sending |-> TRUE, txq |-> t, sent |-> k]
<1>3. k \in Nat /\ k + g.left = Quota + 1
  BY <1>2
<1> HIDE DEF k
<1>4. f \in Frame /\ FrameOK(f)
  BY <1>1, <1>3 DEF Frame, FrameOK
<1> QED
  BY <1>4 DEF k

LEMMA ReturnedFrame ==
  ASSUME NEW g \in Frame, NEW k \in 0 .. Quota
  PROVE  LET f == [g EXCEPT !.sending = FALSE, !.left = k]
         IN /\ f \in Frame /\ ~f.sending /\ f.txq = g.txq /\ f.sent = g.sent
            /\ f.disc = g.disc /\ f.left = k
BY DEF Frame

(* The top of the stack changes, and stays a call for the same disc.       *)
LEMMA SetTopInv ==
  ASSUME StackInv, stack # <<>>, NEW f \in Frame, FrameOK(f), f.disc = Top.disc,
         stack' = [stack EXCEPT ![Len(stack)] = f], UNCHANGED <<running, exhausted>>
  PROVE  /\ StackInv'
         /\ \A i \in 1 .. Len(stack') : stack'[i] = f \/
              (stack'[i].disc # f.disc /\ \E j \in 1 .. Len(stack) : stack[j] = stack'[i])
<1> DEFINE n == Len(stack)
<1>1. /\ stack' \in Seq(Frame) /\ Len(stack') = n
      /\ \A i \in 1 .. n : stack'[i] = IF i = n THEN f ELSE stack[i]
  BY SetTopStack DEF StackInv
<1>2. stack[n].disc = f.disc
  BY DEF Top
<1> HIDE DEF n
<1>3. \A i \in 1 .. n : stack'[i].disc = stack[i].disc
  BY <1>1, <1>2
<1>4. RunOnce'
  <2>1. running' = running
    OBVIOUS
  <2>2. /\ \A i, j \in 1 .. n : stack[i].disc = stack[j].disc => i = j
        /\ \A d \in Disc : running[d] <=> \E i \in 1 .. n : stack[i].disc = d
    BY DEF StackInv, RunOnce, n
  <2>3. \A i, j \in 1 .. Len(stack') : stack'[i].disc = stack'[j].disc => i = j
    BY <1>1, <1>3, <2>2
  <2>4. \A d \in Disc : running'[d] <=> \E i \in 1 .. Len(stack') : stack'[i].disc = d
    BY <1>1, <1>3, <2>1, <2>2
  <2> QED
    BY <2>3, <2>4 DEF RunOnce
<1>5. \A i \in 1 .. Len(stack') : FrameOK(stack'[i])
  BY <1>1 DEF StackInv, n
<1>6. running' \in [Disc -> BOOLEAN] /\ exhausted' \in [Disc -> BOOLEAN]
  BY DEF StackInv
<1>7. (\A i \in 1 .. Len(stack) : FrameOK(stack[i]))'
  BY <1>5 DEF FrameOK
<1>8. n \in 1 .. n
  BY TopType DEF n
<1>9. \A i \in 1 .. n : i # n => stack[i].disc # f.disc
  BY <1>2, <1>8 DEF StackInv, RunOnce, n
<1>10. \A i \in 1 .. Len(stack') : stack'[i] = f \/
         (stack'[i].disc # f.disc /\ \E j \in 1 .. Len(stack) : stack[j] = stack'[i])
  BY <1>1, <1>9 DEF n
<1> QED
  BY <1>1, <1>4, <1>6, <1>7, <1>10, Zenon DEF StackInv

----------------------------------------------------------------------------
(* The books of disc d: w stored, q requeued, n counted, r received, dr    *)
(* dropped, dq dequeued, h handed over last.  A packet stored or requeued  *)
(* is bound for a queue of that disc.                                      *)
BookOK(d, w, q, n, r, dr, dq, h) ==
  /\ IsFiniteSet(w)
  /\ n = Cardinality(w) + Len(q)
  /\ r = n + dr + h.out
  /\ dq = h.out + Len(q)
  /\ h.headers = 1
  /\ Len(q) <= 1
  /\ q # <<>> => Head(q).out = dq /\ Head(q).headers = 1 /\ DiscOf[Head(q).txq] = d
  /\ \A p \in w : p.id <= r /\ DiscOf[p.txq] = d

Handed == [out : Nat, headers : Nat]

BooksInv ==
  /\ waiting \in [Disc -> SUBSET Packet]
  /\ requeued \in [Disc -> Seq(Item)]
  /\ nPackets \in [Disc -> Nat]
  /\ received \in [Disc -> Nat]
  /\ dropped \in [Disc -> Nat]
  /\ dequeued \in [Disc -> Nat]
  /\ handed \in [Disc -> Handed]
  /\ \A d \in Disc : BookOK(d, waiting[d], requeued[d], nPackets[d], received[d],
                            dropped[d], dequeued[d], handed[d])

LEMMA CardMinus ==
  ASSUME NEW w, IsFiniteSet(w), NEW x \in SUBSET w
  PROVE  /\ IsFiniteSet(w \ x)
         /\ Cardinality(w \ x) \in Nat /\ Cardinality(x) \in Nat
         /\ Cardinality(w \ x) = Cardinality(w) - Cardinality(x)
<1>1. IsFiniteSet(x) /\ IsFiniteSet(w \ x)
  BY FS_Subset
<1>2. Cardinality(x) \in Nat /\ Cardinality(w \ x) \in Nat /\ Cardinality(w) \in Nat
  BY <1>1, FS_CardinalityType
<1>3. x \cup (w \ x) = w /\ x \cap (w \ x) = {}
  OBVIOUS
<1>4. Cardinality(w) = Cardinality(x) + Cardinality(w \ x) - Cardinality({})
  BY <1>1, <1>3, FS_Union
<1> QED
  BY <1>1, <1>2, <1>4, FS_EmptySet

LEMMA AtMostOne == \A l \in Nat : l # 0 /\ l <= 1 => l = 1
  OBVIOUS

LEMMA ItemSeq ==
  ASSUME NEW S, NEW q \in Seq(S)
  PROVE  /\ Len(q) \in Nat
         /\ q = <<>> <=> Len(q) = 0
         /\ q # <<>> => Head(q) \in S
         /\ \A x \in S : <<x>> \in Seq(S) /\ Len(<<x>>) = 1 /\ Head(<<x>>) = x /\ <<x>> # <<>>
         /\ <<>> \in Seq(S) /\ Len(<<>>) = 0
  OBVIOUS

(* A packet arrives, and the disc drops some of what it then has.          *)
LEMMA ArriveBook ==
  ASSUME NEW d, NEW w \in SUBSET Packet, NEW q \in Seq(Item), NEW n \in Nat, NEW r \in Nat,
         NEW dr \in Nat, NEW dq \in Nat, NEW h \in Handed,
         BookOK(d, w, q, n, r, dr, dq, h),
         NEW t \in TxQueue, DiscOf[t] = d,
         NEW x \in SUBSET (w \cup {[id |-> r + 1, txq |-> t]})
  PROVE  LET offered == w \cup {[id |-> r + 1, txq |-> t]}
             k == Cardinality(x)
         IN /\ offered \ x \in SUBSET Packet
            /\ n + 1 - k \in Nat /\ dr + k \in Nat
            /\ BookOK(d, offered \ x, q, n + 1 - k, r + 1, dr + k, dq, h)
<1> DEFINE p == [id |-> r + 1, txq |-> t]
           offered == w \cup {p}
           k == Cardinality(x)
<1>1. p \in Packet /\ p.id = r + 1 /\ p.txq = t
  BY DEF Packet
<1>2. p \notin w
  BY <1>1 DEF BookOK, Packet
<1>3. IsFiniteSet(w) /\ Cardinality(w) \in Nat
  BY FS_CardinalityType DEF BookOK
<1> HIDE DEF p
<1>4. IsFiniteSet(offered) /\ Cardinality(offered) = Cardinality(w) + 1
  BY <1>2, <1>3, FS_AddElement
<1>5. x \in SUBSET offered
  BY DEF p
<1> HIDE DEF offered
<1> DEFINE c == Cardinality(w)
           c2 == Cardinality(offered \ x)
<1>6. IsFiniteSet(offered \ x) /\ c2 \in Nat /\ k \in Nat /\ c2 = c + 1 - k
  <2>1. /\ IsFiniteSet(offered \ x)
        /\ Cardinality(offered \ x) \in Nat /\ Cardinality(x) \in Nat
        /\ Cardinality(offered \ x) = Cardinality(offered) - Cardinality(x)
    BY <1>4, <1>5, CardMinus
  <2> DEFINE m == Cardinality(offered)
  <2>2. m \in Nat /\ c \in Nat /\ m = c + 1 /\ c2 \in Nat /\ k \in Nat /\ c2 = m - k
    BY <1>3, <1>4, <2>1, FS_CardinalityType, Zenon
  <2> HIDE DEF m, c, c2, k
  <2>3. c2 = c + 1 - k
    BY <2>2
  <2> USE DEF c2, k
  <2> QED
    BY <2>1, <2>3, Zenon
<1>7. Len(q) \in Nat /\ h.out \in Nat
  BY DEF Handed
<1>8. n = c + Len(q) /\ r = n + dr + h.out /\ c \in Nat
  BY <1>3 DEF BookOK
<1> DEFINE l == Len(q)
           o == h.out
<1> HIDE DEF k, c, c2, l, o
<1>9. /\ n + 1 - k = c2 + l
      /\ n + 1 - k \in Nat /\ dr + k \in Nat
      /\ r + 1 = (n + 1 - k) + (dr + k) + o
  <2>1. l \in Nat /\ o \in Nat /\ n = c + l /\ r = n + dr + o /\ c \in Nat
    BY <1>7, <1>8 DEF l, o
  <2> QED
    BY <1>6, <2>1
<1>10. \A y \in offered \ x : y.id <= r + 1 /\ DiscOf[y.txq] = d
  <2>1. \A y \in w : y.id \in Nat /\ y.id <= r /\ DiscOf[y.txq] = d
    BY DEF BookOK, Packet
  <2>2. \A y \in w : y.id <= r + 1
    BY <2>1
  <2>3. p.id <= r + 1 /\ DiscOf[p.txq] = d
    BY <1>1
  <2> QED
    BY <2>1, <2>2, <2>3 DEF offered
<1>11. BookOK(d, offered \ x, q, n + 1 - k, r + 1, dr + k, dq, h)
  BY <1>6, <1>9, <1>10 DEF BookOK, c2, l, o
<1>12. offered \ x \in SUBSET Packet
  BY <1>1 DEF offered
<1> QED
  BY <1>9, <1>11, <1>12 DEF offered, k, p

(* Some stored packets are dropped.                                        *)
LEMMA DropBook ==
  ASSUME NEW d, NEW w \in SUBSET Packet, NEW q \in Seq(Item), NEW n \in Nat, NEW r \in Nat,
         NEW dr \in Nat, NEW dq \in Nat, NEW h \in Handed,
         BookOK(d, w, q, n, r, dr, dq, h), NEW x \in SUBSET w
  PROVE  /\ n - Cardinality(x) \in Nat /\ dr + Cardinality(x) \in Nat
         /\ BookOK(d, w \ x, q, n - Cardinality(x), r, dr + Cardinality(x), dq, h)
<1> DEFINE k == Cardinality(x)
           c == Cardinality(w)
           c2 == Cardinality(w \ x)
<1>1. IsFiniteSet(w \ x) /\ c2 \in Nat /\ k \in Nat /\ c2 = c - k /\ c \in Nat
  BY CardMinus, FS_CardinalityType DEF BookOK
<1>2. Len(q) \in Nat /\ h.out \in Nat /\ n = c + Len(q) /\ r = n + dr + h.out
  BY DEF BookOK, Handed
<1> HIDE DEF k, c, c2
<1>3. n - k = c2 + Len(q) /\ n - k \in Nat /\ dr + k \in Nat /\ r = (n - k) + (dr + k) + h.out
  BY <1>1, <1>2
<1> QED
  BY <1>1, <1>3 DEF BookOK, k, c2

(* A stored packet becomes the item that is requeued, or handed over.      *)
LEMMA TakeBook ==
  ASSUME NEW d, NEW w \in SUBSET Packet, NEW n \in Nat, NEW r \in Nat,
         NEW dr \in Nat, NEW dq \in Nat, NEW h \in Handed,
         BookOK(d, w, <<>>, n, r, dr, dq, h), NEW p \in w,
         NEW item \in Item, item.out = dq + 1, item.headers = 1, item.txq = p.txq
  PROVE  /\ n - 1 \in Nat
         /\ BookOK(d, w \ {p}, <<item>>, n - 1 + 1, r, dr, dq + 1, h)
         /\ BookOK(d, w \ {p}, <<>>, n - 1, r, dr, dq + 1,
                   [out |-> item.out, headers |-> item.headers])
<1> DEFINE c == Cardinality(w)
           c2 == Cardinality(w \ {p})
<1>1. IsFiniteSet(w \ {p}) /\ c2 \in Nat /\ c2 = c - 1 /\ c \in Nat
  BY FS_RemoveElement, FS_CardinalityType DEF BookOK
<1>2. Len(<<>>) = 0 /\ Len(<<item>>) = 1 /\ Head(<<item>>) = item
  OBVIOUS
<1>3. h.out \in Nat /\ n = c + 0 /\ r = n + dr + h.out /\ dq = h.out + 0
  BY <1>2 DEF BookOK, Handed
<1> HIDE DEF c, c2
<1>4. /\ n - 1 = c2 + 0 /\ n - 1 + 1 = c2 + 1 /\ n - 1 \in Nat
      /\ r = (n - 1 + 1) + dr + h.out /\ r = (n - 1) + dr + (dq + 1)
      /\ dq + 1 = h.out + 1 /\ dq + 1 = (dq + 1) + 0 /\ 0 <= 1 /\ 1 <= 1
  BY <1>1, <1>3
<1>5. DiscOf[item.txq] = d /\ h.headers = 1 /\ \A y \in w : y.id <= r /\ DiscOf[y.txq] = d
  BY DEF BookOK
<1>6. BookOK(d, w \ {p}, <<item>>, n - 1 + 1, r, dr, dq + 1, h)
  BY <1>1, <1>2, <1>4, <1>5 DEF BookOK, c2
<1>7. BookOK(d, w \ {p}, <<>>, n - 1, r, dr, dq + 1, [out |-> item.out, headers |-> item.headers])
  BY <1>1, <1>2, <1>4, <1>5 DEF BookOK, c2
<1> QED
  BY <1>4, <1>6, <1>7

(* The requeued item is handed over.                                       *)
LEMMA ReleaseBook ==
  ASSUME NEW d, NEW w \in SUBSET Packet, NEW q \in Seq(Item), NEW n \in Nat, NEW r \in Nat,
         NEW dr \in Nat, NEW dq \in Nat, NEW h \in Handed,
         BookOK(d, w, q, n, r, dr, dq, h), q # <<>>
  PROVE  /\ n - 1 \in Nat /\ Head(q) \in Item /\ DiscOf[Head(q).txq] = d
         /\ Head(q).out = h.out + 1 /\ Head(q).headers = 1
         /\ BookOK(d, w, <<>>, n - 1, r, dr, dq,
                   [out |-> Head(q).out, headers |-> Head(q).headers])
<1> DEFINE c == Cardinality(w)
<1>1. Len(q) = 1 /\ Len(<<>>) = 0 /\ Head(q) \in Item
  <2>1. Len(q) \in Nat /\ Len(q) # 0 /\ Head(q) \in Item
    BY ItemSeq
  <2>2. Len(q) <= 1
    BY DEF BookOK
  <2>3. Len(<<>>) = 0
    OBVIOUS
  <2> QED
    BY <2>1, <2>2, <2>3, AtMostOne, Zenon
<1>2. /\ c \in Nat /\ h.out \in Nat
      /\ n = c + 1 /\ r = n + dr + h.out /\ dq = h.out + 1
      /\ Head(q).out = dq /\ Head(q).headers = 1 /\ DiscOf[Head(q).txq] = d
  BY <1>1, FS_CardinalityType DEF BookOK, Handed
<1> HIDE DEF c
<1>3. n - 1 \in Nat /\ n - 1 = c + 0 /\ r = (n - 1) + dr + dq /\ dq = dq + 0 /\ 0 <= 1
  BY <1>2
<1>4. BookOK(d, w, <<>>, n - 1, r, dr, dq, [out |-> Head(q).out, headers |-> Head(q).headers])
  BY <1>1, <1>2, <1>3 DEF BookOK, c
<1> QED
  BY <1>1, <1>2, <1>3, <1>4

(* The books of one disc change, and stay in order.                        *)
LEMMA BookPoint ==
  ASSUME BooksInv, NEW d0 \in Disc, NEW w \in SUBSET Packet, NEW q \in Seq(Item),
         NEW n \in Nat, NEW r \in Nat, NEW dr \in Nat, NEW dq \in Nat, NEW h \in Handed,
         BookOK(d0, w, q, n, r, dr, dq, h),
         waiting' = [waiting EXCEPT ![d0] = w],
         requeued' = [requeued EXCEPT ![d0] = q],
         nPackets' = [nPackets EXCEPT ![d0] = n],
         received' = [received EXCEPT ![d0] = r],
         dropped' = [dropped EXCEPT ![d0] = dr],
         dequeued' = [dequeued EXCEPT ![d0] = dq],
         handed' = [handed EXCEPT ![d0] = h]
  PROVE  BooksInv'
<1>1. /\ waiting' \in [Disc -> SUBSET Packet] /\ requeued' \in [Disc -> Seq(Item)]
      /\ nPackets' \in [Disc -> Nat] /\ received' \in [Disc -> Nat]
      /\ dropped' \in [Disc -> Nat] /\ dequeued' \in [Disc -> Nat]
      /\ handed' \in [Disc -> Handed]
  BY DEF BooksInv
<1>2. ASSUME NEW d \in Disc
      PROVE  BookOK(d, waiting'[d], requeued'[d], nPackets'[d], received'[d],
                    dropped'[d], dequeued'[d], handed'[d])
  <2>1. CASE d = d0
    BY <2>1 DEF BooksInv
  <2>2. CASE d # d0
    <3>1. /\ waiting'[d] = waiting[d] /\ requeued'[d] = requeued[d]
          /\ nPackets'[d] = nPackets[d] /\ received'[d] = received[d]
          /\ dropped'[d] = dropped[d] /\ dequeued'[d] = dequeued[d]
          /\ handed'[d] = handed[d]
      BY <2>2 DEF BooksInv
    <3> QED
      BY <3>1 DEF BooksInv
  <2> QED
    BY <2>1, <2>2
<1> QED
  BY <1>1, <1>2 DEF BooksInv, BookOK, Handed

bookVars == <<waiting, requeued, nPackets, received, dropped, dequeued, handed>>

LEMMA BookStutter ==
  ASSUME BooksInv, UNCHANGED bookVars
  PROVE  BooksInv'
<1>1. /\ waiting' = waiting /\ requeued' = requeued /\ nPackets' = nPackets
      /\ received' = received /\ dropped' = dropped /\ dequeued' = dequeued
      /\ handed' = handed
  BY DEF bookVars
<1> QED
  BY <1>1 DEF BooksInv, BookOK, Handed

LEMMA BookTypes ==
  ASSUME BooksInv, NEW d \in Disc
  PROVE  /\ waiting[d] \in SUBSET Packet /\ requeued[d] \in Seq(Item)
         /\ nPackets[d] \in Nat /\ received[d] \in Nat /\ dropped[d] \in Nat
         /\ dequeued[d] \in Nat /\ handed[d] \in Handed
         /\ BookOK(d, waiting[d], requeued[d], nPackets[d], received[d],
                   dropped[d], dequeued[d], handed[d])
BY DEF BooksInv

----------------------------------------------------------------------------
(* The device: with flow control a queue that is not stopped has room.     *)
DevInv ==
  /\ txLen \in [TxQueue -> Nat]
  /\ stopped \in [TxQueue -> BOOLEAN]
  /\ lost \in [TxQueue -> Nat]
  /\ FlowControl =>
       \A t \in TxQueue : lost[t] = 0 /\ (~stopped[t] => txLen[t] < TxLimit)
  /\ ~FlowControl => \A t \in TxQueue : ~stopped[t]

LEMMA DeviceSendInv ==
  ASSUME TrafficAssumption, DevInv, NEW d \in Disc, NEW item \in Item,
         ~stopped[item.txq], DeviceSend(d, item)
  PROVE  /\ DevInv'
         /\ \A t \in TxQueue : t # item.txq => stopped'[t] = stopped[t]
         /\ handed' = [handed EXCEPT ![d] = [out |-> item.out, headers |-> item.headers]]
<1> DEFINE t0 == item.txq
           full == txLen[t0] >= TxLimit
<1>1. t0 \in TxQueue /\ TxLimit \in Nat /\ txLen[t0] \in Nat /\ FlowControl \in BOOLEAN
  BY DEF Item, DevInv, TrafficAssumption
<1>2. /\ txLen' = IF full THEN txLen ELSE [txLen EXCEPT ![t0] = txLen[t0] + 1]
      /\ lost' = IF full THEN [lost EXCEPT ![t0] = lost[t0] + 1] ELSE lost
      /\ stopped' = [stopped EXCEPT ![t0] = FlowControl /\ txLen'[t0] >= TxLimit]
      /\ handed' = [handed EXCEPT ![d] = [out |-> item.out, headers |-> item.headers]]
  BY DEF DeviceSend
<1>3. ~stopped[t0]
  OBVIOUS
<1> HIDE DEF t0
<1>4. /\ txLen' \in [TxQueue -> Nat]
      /\ lost' \in [TxQueue -> Nat]
      /\ stopped' \in [TxQueue -> BOOLEAN]
  BY <1>1, <1>2 DEF DevInv
<1>5. /\ \A t \in TxQueue : t # t0 => stopped'[t] = stopped[t] /\ txLen'[t] = txLen[t]
      /\ stopped'[t0] = (FlowControl /\ txLen'[t0] >= TxLimit)
  BY <1>1, <1>2 DEF DevInv
<1>6. ASSUME FlowControl
      PROVE  \A t \in TxQueue : lost'[t] = 0 /\ (~stopped'[t] => txLen'[t] < TxLimit)
  <2>1. txLen[t0] < TxLimit
    BY <1>1, <1>3, <1>6 DEF DevInv
  <2>2. lost' = lost
    BY <1>1, <1>2, <2>1
  <2>3. txLen'[t0] \in Nat /\ (~stopped'[t0] => txLen'[t0] < TxLimit)
    BY <1>1, <1>4, <1>5, <1>6
  <2> QED
    BY <1>5, <1>6, <2>2, <2>3 DEF DevInv
<1>7. ASSUME ~FlowControl
      PROVE  \A t \in TxQueue : ~stopped'[t]
  BY <1>5, <1>7 DEF DevInv
<1> QED
  BY <1>2, <1>4, <1>5, <1>6, <1>7 DEF DevInv, t0

LEMMA DeviceDrainInv ==
  ASSUME TrafficAssumption, DevInv, NEW t0 \in TxQueue, txLen[t0] > 0,
         txLen' = [txLen EXCEPT ![t0] = @ - 1], UNCHANGED lost,
         \/ stopped[t0] /\ txLen'[t0] <= WakeAt /\ stopped' = [stopped EXCEPT ![t0] = FALSE]
         \/ UNCHANGED stopped
  PROVE  /\ DevInv'
         /\ \A t \in TxQueue : t # t0 => stopped'[t] = stopped[t]
<1>1. /\ TxLimit \in Nat /\ WakeAt \in Nat /\ WakeAt < TxLimit
      /\ txLen[t0] \in Nat /\ txLen[t0] > 0
  BY DEF DevInv, TrafficAssumption
<1>2. txLen[t0] - 1 \in Nat /\ txLen[t0] - 1 < txLen[t0]
  BY <1>1
<1>3. /\ txLen' \in [TxQueue -> Nat]
      /\ txLen'[t0] = txLen[t0] - 1
      /\ \A t \in TxQueue : t # t0 => txLen'[t] = txLen[t]
  BY <1>2 DEF DevInv
<1>4. /\ stopped' \in [TxQueue -> BOOLEAN]
      /\ \A t \in TxQueue : t # t0 => stopped'[t] = stopped[t]
      /\ ~stopped'[t0] => ~stopped[t0] \/ txLen'[t0] <= WakeAt
      /\ ~stopped[t0] => ~stopped'[t0]
  BY DEF DevInv
<1>5. FlowControl /\ ~stopped'[t0] => txLen'[t0] < TxLimit
  <2>1. FlowControl /\ ~stopped[t0] => txLen[t0] < TxLimit
    BY DEF DevInv
  <2>2. txLen'[t0] \in Nat
    BY <1>3
  <2> QED
    BY <1>1, <1>2, <1>3, <1>4, <2>1, <2>2
<1>6. FlowControl => \A t \in TxQueue : lost'[t] = 0 /\ (~stopped'[t] => txLen'[t] < TxLimit)
  BY <1>3, <1>4, <1>5 DEF DevInv
<1>7. ~FlowControl => \A t \in TxQueue : ~stopped'[t]
  BY <1>4 DEF DevInv
<1>8. lost' \in [TxQueue -> Nat]
  BY DEF DevInv
<1> QED
  BY <1>3, <1>4, <1>6, <1>7, <1>8 DEF DevInv

----------------------------------------------------------------------------
(* A disc that is not running has nothing it could send now.               *)
Settled(d) ==
  /\ HasRequeued(d) => stopped[Head(requeued[d]).txq]
  /\ nPackets[d] > 0 => exhausted[d] \/ \E t \in TxQueue : DiscOf[t] = d /\ stopped[t]

(* A disc that is sending has no item requeued.                            *)
SendingInv ==
  \A i \in 1 .. Len(stack) : stack[i].sending => requeued[stack[i].disc] = <<>>

Inv ==
  /\ StackInv
  /\ SendingInv
  /\ BooksInv
  /\ DevInv
  /\ requeues \in [Disc -> Nat]
  /\ RequeuesNeedBoth
  /\ \A d \in Disc : ~running[d] => Settled(d)

LEMMA InitInv == Init => Inv
<1> SUFFICES ASSUME Init PROVE Inv
  OBVIOUS
<1>1. StackInv /\ SendingInv
  BY DEF Init, StackInv, RunOnce, SendingInv
<1>2. BooksInv
  <2>1. \A d \in Disc : BookOK(d, {}, <<>>, 0, 0, 0, 0, [out |-> 0, headers |-> 1])
    BY FS_EmptySet DEF BookOK
  <2> QED
    BY <2>1 DEF Init, BooksInv, Handed
<1>3. DevInv
  BY TrafficAssumption DEF Init, DevInv, TrafficAssumption
<1>4. requeues \in [Disc -> Nat] /\ RequeuesNeedBoth
  BY DEF Init, RequeuesNeedBoth
<1>5. \A d \in Disc : Settled(d)
  BY DEF Init, Settled, HasRequeued
<1> QED
  BY <1>1, <1>2, <1>3, <1>4, <1>5 DEF Inv

(* A step that works for disc d0 leaves the other discs settled: their     *)
(* packets wait for queues that are not d0's.                              *)
LEMMA OthersSettled ==
  ASSUME Inv, NEW d0 \in Disc,
         \A d \in Disc : d # d0 =>
           /\ running'[d] = running[d] /\ exhausted'[d] = exhausted[d]
           /\ requeued'[d] = requeued[d] /\ nPackets'[d] = nPackets[d],
         \A t \in TxQueue : DiscOf[t] # d0 => stopped'[t] = stopped[t]
  PROVE  \A d \in Disc : d # d0 /\ ~running'[d] => Settled(d)'
<1> SUFFICES ASSUME NEW d \in Disc, d # d0, ~running'[d] PROVE Settled(d)'
  OBVIOUS
<1>1. Settled(d)
  BY DEF Inv
<1>2. /\ exhausted'[d] = exhausted[d]
      /\ requeued'[d] = requeued[d] /\ nPackets'[d] = nPackets[d]
  OBVIOUS
<1>3. requeued[d] # <<>> => Head(requeued[d]).txq \in TxQueue /\ DiscOf[Head(requeued[d]).txq] = d
  <2>1. requeued[d] \in Seq(Item)
    BY DEF Inv, BooksInv
  <2>2. requeued[d] # <<>> => DiscOf[Head(requeued[d]).txq] = d
    BY DEF Inv, BooksInv, BookOK
  <2>3. requeued[d] # <<>> => Head(requeued[d]) \in Item
    BY <2>1, ItemSeq
  <2> QED
    BY <2>2, <2>3 DEF Item
<1> QED
  BY <1>1, <1>2, <1>3 DEF Settled, HasRequeued

LEMMA OneQueue ==
  ASSUME TrafficAssumption, ~MultiQueue, NEW t1 \in TxQueue, NEW t2 \in TxQueue
  PROVE  t1 = t2
<1>1. IsFiniteSet(TxQueue) /\ Cardinality(TxQueue) \in Nat /\ ~(Cardinality(TxQueue) > 1)
  BY FS_CardinalityType DEF TrafficAssumption, MultiQueue
<1>2. Cardinality(TxQueue) = 0 \/ Cardinality(TxQueue) = 1
  BY <1>1
<1>3. CASE Cardinality(TxQueue) = 0
  BY <1>1, <1>3, FS_EmptySet
<1>4. CASE Cardinality(TxQueue) = 1
  BY <1>1, <1>4, FS_Singleton
<1> QED
  BY <1>2, <1>3, <1>4

LEMMA SendInv ==
  ASSUME TrafficAssumption, Inv, NEW t \in TxQueue, Send(t)
  PROVE  Inv' /\ InOrderStep
<1> DEFINE d0 == DiscOf[t]
           offered == waiting[d0] \cup {[id |-> received[d0] + 1, txq |-> t]}
<1>1. d0 \in Disc
  BY DEF TrafficAssumption
<1>2. PICK x \in SUBSET offered :
        /\ waiting' = [waiting EXCEPT ![d0] = offered \ x]
        /\ nPackets' = [nPackets EXCEPT ![d0] = nPackets[d0] + 1 - Cardinality(x)]
        /\ dropped' = [dropped EXCEPT ![d0] = dropped[d0] + Cardinality(x)]
  BY DEF Send
<1>3. /\ received' = [received EXCEPT ![d0] = received[d0] + 1]
      /\ RunBegin(d0, t)
      /\ requeued' = requeued /\ requeues' = requeues /\ dequeued' = dequeued
      /\ txLen' = txLen /\ stopped' = stopped /\ lost' = lost /\ handed' = handed
  BY DEF Send, devVars
<1>4. BooksInv'
  <2>1. BooksInv
    BY DEF Inv
  <2>2. /\ waiting[d0] \in SUBSET Packet /\ requeued[d0] \in Seq(Item)
        /\ nPackets[d0] \in Nat /\ received[d0] \in Nat /\ dropped[d0] \in Nat
        /\ dequeued[d0] \in Nat /\ handed[d0] \in Handed
        /\ BookOK(d0, waiting[d0], requeued[d0], nPackets[d0], received[d0],
                  dropped[d0], dequeued[d0], handed[d0])
    BY <1>1, <2>1, BookTypes
  <2> HIDE DEF d0
  <2>3. /\ offered \ x \in SUBSET Packet
        /\ nPackets[d0] + 1 - Cardinality(x) \in Nat
        /\ dropped[d0] + Cardinality(x) \in Nat
        /\ BookOK(d0, offered \ x, requeued[d0], nPackets[d0] + 1 - Cardinality(x),
                  received[d0] + 1, dropped[d0] + Cardinality(x), dequeued[d0], handed[d0])
    BY <2>2, ArriveBook DEF d0
  <2>4. received[d0] + 1 \in Nat
    BY <2>2
  <2>5. /\ requeued' = [requeued EXCEPT ![d0] = requeued[d0]]
        /\ dequeued' = [dequeued EXCEPT ![d0] = dequeued[d0]]
        /\ handed' = [handed EXCEPT ![d0] = handed[d0]]
    BY <1>3, <2>1 DEF BooksInv
  <2> DEFINE w == offered \ x
             n == nPackets[d0] + 1 - Cardinality(x)
             r == received[d0] + 1
             dr == dropped[d0] + Cardinality(x)
  <2>6. /\ waiting' = [waiting EXCEPT ![d0] = w] /\ nPackets' = [nPackets EXCEPT ![d0] = n]
        /\ dropped' = [dropped EXCEPT ![d0] = dr] /\ received' = [received EXCEPT ![d0] = r]
    BY <1>2, <1>3
  <2>7. /\ w \in SUBSET Packet /\ n \in Nat /\ r \in Nat /\ dr \in Nat
        /\ BookOK(d0, w, requeued[d0], n, r, dr, dequeued[d0], handed[d0])
    BY <2>3, <2>4
  <2> HIDE DEF w, n, r, dr
  <2> QED
    BY <1>1, <2>1, <2>2, <2>5, <2>6, <2>7, BookPoint
<1>5. /\ StackInv' /\ running'[d0]
      /\ \A i \in 1 .. Len(stack') : stack'[i].sending =>
           \E j \in 1 .. Len(stack) : stack[j].sending /\ stack[j].disc = stack'[i].disc
      /\ \A d \in Disc : d # d0 => running'[d] = running[d] /\ exhausted'[d] = exhausted[d]
  BY <1>3, BeginStack DEF Inv
<1>6. \A d \in Disc : d # d0 => nPackets'[d] = nPackets[d]
  BY <1>2 DEF Inv, BooksInv
<1>7. DevInv' /\ requeues' \in [Disc -> Nat] /\ RequeuesNeedBoth'
  BY <1>3 DEF Inv, DevInv, RequeuesNeedBoth
<1> HIDE DEF d0
<1>8. \A d \in Disc : d # d0 /\ ~running'[d] => Settled(d)'
  BY <1>1, <1>3, <1>5, <1>6, OthersSettled
<1>9. \A d \in Disc : ~running'[d] => Settled(d)'
  BY <1>5, <1>8
<1>10. SendingInv'
  BY <1>3, <1>5 DEF Inv, SendingInv
<1> QED
  BY <1>3, <1>4, <1>5, <1>7, <1>9, <1>10 DEF Inv, InOrderStep

(* A call of Run for d0 ends and leaves d0 settled.                        *)
LEMMA EndedInv ==
  ASSUME Inv, NEW d0 \in Disc, stack # <<>>, Top.disc = d0,
         NEW spent \in BOOLEAN, RunEnd(d0, spent),
         BooksInv', DevInv', requeues' \in [Disc -> Nat], RequeuesNeedBoth',
         \A d \in Disc : d # d0 => requeued'[d] = requeued[d] /\ nPackets'[d] = nPackets[d],
         stopped' = stopped,
         Settled(d0)'
  PROVE  Inv'
<1>1. /\ StackInv'
      /\ \A i \in 1 .. Len(stack') : stack'[i].disc # d0 /\
           \E j \in 1 .. Len(stack) : stack[j] = stack'[i]
      /\ \A d \in Disc : d # d0 => running'[d] = running[d] /\ exhausted'[d] = exhausted[d]
  BY EndStack DEF Inv
<1>2. \A d \in Disc : d # d0 /\ ~running'[d] => Settled(d)'
  BY <1>1, OthersSettled
<1>3. \A d \in Disc : ~running'[d] => Settled(d)'
  BY <1>2
<1>4. SendingInv'
  <2>1. ASSUME NEW i \in 1 .. Len(stack'), stack'[i].sending
        PROVE  requeued'[stack'[i].disc] = <<>>
    <3>1. PICK j \in 1 .. Len(stack) : stack[j] = stack'[i]
      BY <1>1
    <3>2. stack[j].disc \in Disc /\ stack[j].disc # d0
      BY <1>1, <3>1, FrameType DEF Inv
    <3>3. requeued[stack[j].disc] = <<>>
      BY <2>1, <3>1 DEF Inv, SendingInv
    <3> QED
      BY <3>1, <3>2, <3>3
  <2> QED
    BY <2>1 DEF SendingInv
<1> QED
  BY <1>1, <1>3, <1>4 DEF Inv

(* A call of Run for d0 hands an item to the device.                       *)
LEMMA HandedInv ==
  ASSUME TrafficAssumption, Inv, NEW d0 \in Disc, Runs(d0),
         NEW item \in Item, DiscOf[item.txq] = d0, ~stopped[item.txq],
         DeviceSend(d0, item),
         SetTop([disc |-> d0, left |-> Top.left, sending |-> TRUE,
                 txq |-> item.txq, sent |-> Top.sent + 1]),
         UNCHANGED <<running, exhausted>>,
         BooksInv', requeues' \in [Disc -> Nat], RequeuesNeedBoth',
         \A d \in Disc : d # d0 => requeued'[d] = requeued[d] /\ nPackets'[d] = nPackets[d],
         requeued'[d0] = <<>>
  PROVE  Inv'
<1> DEFINE f == [disc |-> d0, left |-> Top.left, sending |-> TRUE,
                 txq |-> item.txq, sent |-> Top.sent + 1]
<1>1. /\ Top \in Frame /\ FrameOK(Top) /\ running[Top.disc]
      /\ stack # <<>> /\ Top.disc = d0 /\ ~Top.sending
  BY TopType DEF Inv, Runs
<1>2. f \in Frame /\ FrameOK(f) /\ f.disc = d0 /\ f.sending
  <2>1. item.txq \in TxQueue
    BY DEF Item
  <2> QED
    BY <1>1, <2>1, SendingFrame
<1>3. stack' = [stack EXCEPT ![Len(stack)] = f]
  BY DEF SetTop
<1> HIDE DEF f
<1>4. /\ StackInv'
      /\ \A i \in 1 .. Len(stack') : stack'[i] = f \/
           (stack'[i].disc # f.disc /\ \E j \in 1 .. Len(stack) : stack[j] = stack'[i])
  <2>1. StackInv /\ f.disc = Top.disc /\ UNCHANGED <<running, exhausted>>
    BY <1>1, <1>2 DEF Inv
  <2> QED
    BY <1>1, <1>2, <1>3, <2>1, SetTopInv
<1>5. running' = running /\ exhausted' = exhausted
  OBVIOUS
<1>6. DevInv' /\ \A t \in TxQueue : t # item.txq => stopped'[t] = stopped[t]
  BY DeviceSendInv DEF Inv
<1>7. \A d \in Disc : d # d0 /\ ~running'[d] => Settled(d)'
  BY <1>5, <1>6, OthersSettled
<1>8. \A d \in Disc : ~running'[d] => Settled(d)'
  BY <1>1, <1>5, <1>7
<1>9. SendingInv'
  <2>1. ASSUME NEW i \in 1 .. Len(stack'), stack'[i].sending
        PROVE  requeued'[stack'[i].disc] = <<>>
    <3>1. CASE stack'[i] = f
      BY <1>2, <3>1
    <3>2. CASE stack'[i] # f
      <4>1. PICK j \in 1 .. Len(stack) : stack[j] = stack'[i]
        BY <1>4, <3>2
      <4>2. stack[j].disc \in Disc /\ stack[j].disc # d0
        BY <1>2, <1>4, <3>2, <4>1, FrameType DEF Inv
      <4>3. requeued[stack[j].disc] = <<>>
        BY <2>1, <4>1 DEF Inv, SendingInv
      <4> QED
        BY <4>1, <4>2, <4>3
    <3> QED
      BY <3>1, <3>2
  <2> QED
    BY <2>1 DEF SendingInv
<1> QED
  BY <1>4, <1>6, <1>8, <1>9 DEF Inv

LEMMA NothingToSendInv ==
  ASSUME TrafficAssumption, Inv, NEW d0 \in Disc, NothingToSend(d0)
  PROVE  Inv' /\ InOrderStep
<1>1. /\ stack # <<>> /\ Top.disc = d0 /\ RunEnd(d0, FALSE)
      /\ IF HasRequeued(d0) THEN stopped[Head(requeued[d0]).txq] ELSE ~Asks(d0)
  BY DEF NothingToSend, Runs
<1>2. /\ waiting' = waiting /\ requeued' = requeued /\ nPackets' = nPackets
      /\ received' = received /\ dropped' = dropped /\ requeues' = requeues
      /\ dequeued' = dequeued
      /\ txLen' = txLen /\ stopped' = stopped /\ lost' = lost /\ handed' = handed
  BY DEF NothingToSend, devVars
<1>3. BooksInv' /\ DevInv' /\ requeues' \in [Disc -> Nat] /\ RequeuesNeedBoth'
  BY <1>2, BookStutter DEF Inv, bookVars, DevInv, RequeuesNeedBoth
<1>4. /\ waiting[d0] \in SUBSET Packet /\ requeued[d0] \in Seq(Item)
      /\ BookOK(d0, waiting[d0], requeued[d0], nPackets[d0], received[d0],
                dropped[d0], dequeued[d0], handed[d0])
  BY BookTypes DEF Inv
<1>5. \E t \in TxQueue : nPackets[d0] > 0 => DiscOf[t] = d0 /\ stopped[t]
  <2>1. CASE HasRequeued(d0)
    <3>1. Head(requeued[d0]) \in Item
      BY <1>4, <2>1, ItemSeq DEF HasRequeued
    <3>2. Head(requeued[d0]).txq \in TxQueue /\ DiscOf[Head(requeued[d0]).txq] = d0
      BY <1>4, <2>1, <3>1 DEF HasRequeued, BookOK, Item
    <3> QED
      BY <1>1, <2>1, <3>2
  <2>2. CASE ~HasRequeued(d0)
    <3>1. \A t \in TxQueue : stopped[t]
      BY <1>1, <2>2 DEF Asks
    <3>2. CASE waiting[d0] = {}
      <4>1. nPackets[d0] = 0
        <5>1. Cardinality({}) = 0 /\ Len(<<>>) = 0
          BY FS_EmptySet
        <5> QED
          BY <1>4, <2>2, <3>2, <5>1 DEF BookOK, HasRequeued
      <4>2. TxQueue # {}
        BY TrafficAssumption DEF TrafficAssumption
      <4> QED
        BY <4>1, <4>2
    <3>3. CASE waiting[d0] # {}
      <4>1. PICK p \in waiting[d0] : TRUE
        BY <3>3
      <4>2. p.txq \in TxQueue /\ DiscOf[p.txq] = d0
        BY <1>4 DEF BookOK, Packet
      <4> QED
        BY <3>1, <4>2
    <3> QED
      BY <3>2, <3>3
  <2> QED
    BY <2>1, <2>2
<1>6. Settled(d0)'
  BY <1>1, <1>2, <1>5 DEF Settled, HasRequeued
<1>7. Inv'
  BY <1>1, <1>2, <1>3, <1>6, EndedInv
<1> QED
  BY <1>2, <1>7 DEF InOrderStep

LEMMA DequeueNothingInv ==
  ASSUME TrafficAssumption, Inv, NEW d0 \in Disc, DequeueNothing(d0)
  PROVE  Inv' /\ InOrderStep
<1> DEFINE w == waiting[d0]
           k == Cardinality(w)
<1>1. /\ stack # <<>> /\ Top.disc = d0 /\ RunEnd(d0, FALSE)
      /\ requeued[d0] = <<>>
  BY DEF DequeueNothing, Runs, Asks, HasRequeued
<1>2. /\ waiting' = [waiting EXCEPT ![d0] = {}]
      /\ nPackets' = [nPackets EXCEPT ![d0] = nPackets[d0] - k]
      /\ dropped' = [dropped EXCEPT ![d0] = dropped[d0] + k]
      /\ requeued' = requeued /\ received' = received /\ requeues' = requeues
      /\ dequeued' = dequeued
      /\ txLen' = txLen /\ stopped' = stopped /\ lost' = lost /\ handed' = handed
  BY DEF DequeueNothing, devVars
<1>3. BooksInv
  BY DEF Inv
<1>4. /\ w \in SUBSET Packet /\ requeued[d0] \in Seq(Item)
      /\ nPackets[d0] \in Nat /\ received[d0] \in Nat /\ dropped[d0] \in Nat
      /\ dequeued[d0] \in Nat /\ handed[d0] \in Handed
      /\ BookOK(d0, w, requeued[d0], nPackets[d0], received[d0],
                dropped[d0], dequeued[d0], handed[d0])
  BY <1>3, BookTypes
<1>5. /\ nPackets[d0] - k \in Nat /\ dropped[d0] + k \in Nat
      /\ BookOK(d0, w \ w, requeued[d0], nPackets[d0] - k, received[d0], dropped[d0] + k,
                dequeued[d0], handed[d0])
  BY <1>4, DropBook
<1>6. w \ w = {}
  OBVIOUS
<1>7. /\ requeued' = [requeued EXCEPT ![d0] = requeued[d0]]
      /\ received' = [received EXCEPT ![d0] = received[d0]]
      /\ dequeued' = [dequeued EXCEPT ![d0] = dequeued[d0]]
      /\ handed' = [handed EXCEPT ![d0] = handed[d0]]
  BY <1>2, <1>3 DEF BooksInv
<1> HIDE DEF w
<1>8. BooksInv'
  <2> DEFINE n == nPackets[d0] - k
             dr == dropped[d0] + k
  <2>1. /\ waiting' = [waiting EXCEPT ![d0] = {}]
        /\ nPackets' = [nPackets EXCEPT ![d0] = n] /\ dropped' = [dropped EXCEPT ![d0] = dr]
        /\ n \in Nat /\ dr \in Nat
        /\ BookOK(d0, {}, requeued[d0], n, received[d0], dr, dequeued[d0], handed[d0])
    BY <1>2, <1>5, <1>6
  <2>2. {} \in SUBSET Packet
    OBVIOUS
  <2> HIDE DEF n, dr, k
  <2> QED
    BY <1>3, <1>4, <1>7, <2>1, <2>2, BookPoint
<1>9. nPackets'[d0] = 0 /\ requeued'[d0] = <<>>
  <2>1. nPackets'[d0] = nPackets[d0] - k
    BY <1>2, <1>3 DEF BooksInv
  <2>2. nPackets[d0] - k = Cardinality({}) + Len(<<>>)
    BY <1>1, <1>5, <1>6 DEF BookOK
  <2>3. Cardinality({}) = 0 /\ Len(<<>>) = 0
    BY FS_EmptySet
  <2> QED
    BY <1>1, <1>2, <2>1, <2>2, <2>3
<1>10. DevInv' /\ requeues' \in [Disc -> Nat] /\ RequeuesNeedBoth'
  BY <1>2 DEF Inv, DevInv, RequeuesNeedBoth
<1>11. Settled(d0)'
  BY <1>9 DEF Settled, HasRequeued
<1>12. \A d \in Disc : d # d0 => requeued'[d] = requeued[d] /\ nPackets'[d] = nPackets[d]
  BY <1>2, <1>3 DEF BooksInv
<1>13. Inv'
  BY <1>1, <1>2, <1>8, <1>10, <1>11, <1>12, EndedInv
<1> QED
  BY <1>2, <1>13 DEF InOrderStep

(* What HandOver does to the history of items handed over.                 *)
LEMMA HandedOrder ==
  ASSUME BooksInv, NEW d0 \in Disc, NEW item \in Item,
         item.out = handed[d0].out + 1, item.headers = 1,
         handed' = [handed EXCEPT ![d0] = [out |-> item.out, headers |-> item.headers]]
  PROVE  InOrderStep
<1>1. handed'[d0] = [out |-> item.out, headers |-> item.headers]
  BY DEF BooksInv
<1>2. \A d \in Disc : d # d0 => handed'[d] = handed[d]
  BY DEF BooksInv
<1> QED
  BY <1>1, <1>2 DEF InOrderStep

LEMMA RestartRequeuedInv ==
  ASSUME TrafficAssumption, Inv, NEW d0 \in Disc, RestartRequeued(d0)
  PROVE  Inv' /\ InOrderStep
<1> DEFINE item == Head(requeued[d0])
           n == nPackets[d0] - 1
           h == [out |-> item.out, headers |-> item.headers]
<1>1. /\ Runs(d0) /\ requeued[d0] # <<>> /\ ~stopped[item.txq]
      /\ HandOver(d0, item, n)
      /\ waiting' = waiting /\ received' = received /\ dropped' = dropped
      /\ dequeued' = dequeued
  BY DEF RestartRequeued, HasRequeued, Transmit
<1>2. BooksInv /\ DevInv
  BY DEF Inv
<1>3. /\ waiting[d0] \in SUBSET Packet /\ requeued[d0] \in Seq(Item)
      /\ nPackets[d0] \in Nat /\ received[d0] \in Nat /\ dropped[d0] \in Nat
      /\ dequeued[d0] \in Nat /\ handed[d0] \in Handed
      /\ BookOK(d0, waiting[d0], requeued[d0], nPackets[d0], received[d0],
                dropped[d0], dequeued[d0], handed[d0])
  BY <1>2, BookTypes
<1>4. /\ n \in Nat /\ item \in Item /\ DiscOf[item.txq] = d0
      /\ item.out = handed[d0].out + 1 /\ item.headers = 1
      /\ BookOK(d0, waiting[d0], <<>>, n, received[d0], dropped[d0], dequeued[d0], h)
  BY <1>1, <1>3, ReleaseBook
<1>5. h \in Handed
  BY <1>4 DEF Handed, Item
<1> HIDE DEF n, item
<1>6. /\ requeued' = [requeued EXCEPT ![d0] = <<>>]
      /\ nPackets' = [nPackets EXCEPT ![d0] = n]
      /\ DeviceSend(d0, item)
      /\ SetTop([disc |-> d0, left |-> Top.left, sending |-> TRUE,
                 txq |-> item.txq, sent |-> Top.sent + 1])
      /\ requeues' = requeues /\ UNCHANGED <<running, exhausted>>
  BY <1>1 DEF HandOver
<1>7. DevInv' /\ handed' = [handed EXCEPT ![d0] = h]
  BY <1>1, <1>2, <1>4, <1>6, DeviceSendInv
<1>8. /\ waiting' = [waiting EXCEPT ![d0] = waiting[d0]]
      /\ received' = [received EXCEPT ![d0] = received[d0]]
      /\ dropped' = [dropped EXCEPT ![d0] = dropped[d0]]
      /\ dequeued' = [dequeued EXCEPT ![d0] = dequeued[d0]]
  BY <1>1, <1>2 DEF BooksInv
<1>9. BooksInv'
  <2>1. <<>> \in Seq(Item)
    OBVIOUS
  <2>2. /\ requeued' = [requeued EXCEPT ![d0] = <<>>]
        /\ nPackets' = [nPackets EXCEPT ![d0] = n]
        /\ handed' = [handed EXCEPT ![d0] = h]
    BY <1>6, <1>7
  <2> HIDE DEF h
  <2> QED
    BY <1>2, <1>3, <1>4, <1>5, <1>8, <2>1, <2>2, BookPoint
<1>10. requeues' \in [Disc -> Nat] /\ RequeuesNeedBoth'
  BY <1>6 DEF Inv, RequeuesNeedBoth
<1>11. /\ \A d \in Disc : d # d0 => requeued'[d] = requeued[d] /\ nPackets'[d] = nPackets[d]
       /\ requeued'[d0] = <<>>
  BY <1>2, <1>6 DEF BooksInv
<1>12. Inv'
  BY <1>1, <1>4, <1>6, <1>9, <1>10, <1>11, HandedInv
<1>13. InOrderStep
  BY <1>2, <1>4, <1>7, HandedOrder
<1> QED
  BY <1>12, <1>13

LEMMA RestartDequeuedInv ==
  ASSUME TrafficAssumption, Inv, NEW d0 \in Disc, RestartDequeued(d0)
  PROVE  Inv' /\ InOrderStep
<1>1. PICK p \in waiting[d0] : \E x \in SUBSET (waiting[d0] \ {p}) :
        /\ waiting' = [waiting EXCEPT ![d0] = waiting[d0] \ (x \cup {p})]
        /\ dropped' = [dropped EXCEPT ![d0] = dropped[d0] + Cardinality(x)]
        /\ Transmit(d0, AddHeader([txq |-> p.txq, out |-> dequeued[d0] + 1, headers |-> 0]),
                    nPackets[d0] - Cardinality(x) - 1)
  BY DEF RestartDequeued
<1>2. PICK x \in SUBSET (waiting[d0] \ {p}) :
        /\ waiting' = [waiting EXCEPT ![d0] = waiting[d0] \ (x \cup {p})]
        /\ dropped' = [dropped EXCEPT ![d0] = dropped[d0] + Cardinality(x)]
        /\ Transmit(d0, AddHeader([txq |-> p.txq, out |-> dequeued[d0] + 1, headers |-> 0]),
                    nPackets[d0] - Cardinality(x) - 1)
  BY <1>1
<1>3. /\ Runs(d0) /\ requeued[d0] = <<>> /\ Asks(d0)
      /\ dequeued' = [dequeued EXCEPT ![d0] = dequeued[d0] + 1]
      /\ received' = received
  BY DEF RestartDequeued, Asks, HasRequeued
<1>4. BooksInv /\ DevInv
  BY DEF Inv
<1>5. /\ waiting[d0] \in SUBSET Packet /\ requeued[d0] \in Seq(Item)
      /\ nPackets[d0] \in Nat /\ received[d0] \in Nat /\ dropped[d0] \in Nat
      /\ dequeued[d0] \in Nat /\ handed[d0] \in Handed
      /\ BookOK(d0, waiting[d0], <<>>, nPackets[d0], received[d0],
                dropped[d0], dequeued[d0], handed[d0])
  BY <1>3, <1>4, BookTypes
<1> DEFINE item == [txq |-> p.txq, out |-> dequeued[d0] + 1, headers |-> 1]
           w1 == waiting[d0] \ x
           w2 == w1 \ {p}
           n1 == nPackets[d0] - Cardinality(x)
           n == n1 - 1
           dr == dropped[d0] + Cardinality(x)
           dq == dequeued[d0] + 1
           h == [out |-> item.out, headers |-> item.headers]
<1>6. /\ item \in Item /\ item.out = dequeued[d0] + 1 /\ item.headers = 1 /\ item.txq = p.txq
      /\ AddHeader([txq |-> p.txq, out |-> dequeued[d0] + 1, headers |-> 0]) = item
  BY <1>5 DEF Packet, Item, AddHeader
<1>7. Transmit(d0, item, n)
  BY <1>2, <1>6
<1>8. DiscOf[item.txq] = d0
  BY <1>5, <1>6 DEF BookOK
<1> HIDE DEF item
<1>9. /\ n1 \in Nat /\ dr \in Nat
      /\ BookOK(d0, w1, <<>>, n1, received[d0], dr, dequeued[d0], handed[d0])
  <2>1. <<>> \in Seq(Item) /\ x \in SUBSET waiting[d0]
    OBVIOUS
  <2> QED
    BY <1>5, <2>1, DropBook
<1>10. waiting[d0] \ (x \cup {p}) = w2 /\ w1 \in SUBSET Packet /\ w2 \in SUBSET Packet /\ p \in w1
  BY <1>5
<1>11. /\ waiting' = [waiting EXCEPT ![d0] = w2]
       /\ dropped' = [dropped EXCEPT ![d0] = dr]
       /\ dequeued' = [dequeued EXCEPT ![d0] = dq]
       /\ received' = [received EXCEPT ![d0] = received[d0]]
  BY <1>2, <1>3, <1>4, <1>10 DEF BooksInv
<1> HIDE DEF n1, dr, w1
<1>12. /\ n \in Nat
       /\ BookOK(d0, w2, <<item>>, n + 1, received[d0], dr, dq, handed[d0])
       /\ BookOK(d0, w2, <<>>, n, received[d0], dr, dq, h)
  <2>1. /\ received[d0] \in Nat /\ dequeued[d0] \in Nat /\ handed[d0] \in Handed
    BY <1>5
  <2> HIDE DEF n, w2, dq, h
  <2>2. /\ n1 - 1 \in Nat
        /\ BookOK(d0, w1 \ {p}, <<item>>, n1 - 1 + 1, received[d0], dr, dequeued[d0] + 1,
                  handed[d0])
        /\ BookOK(d0, w1 \ {p}, <<>>, n1 - 1, received[d0], dr, dequeued[d0] + 1,
                  [out |-> item.out, headers |-> item.headers])
    <3> DEFINE dq0 == dequeued[d0]
               h0 == handed[d0]
               r0 == received[d0]
    <3>1. /\ r0 \in Nat /\ dq0 \in Nat /\ h0 \in Handed
          /\ w1 \in SUBSET Packet /\ n1 \in Nat /\ dr \in Nat /\ p \in w1
          /\ item \in Item /\ item.headers = 1 /\ item.txq = p.txq
          /\ BookOK(d0, w1, <<>>, n1, r0, dr, dq0, h0)
      BY <1>6, <1>9, <1>10, <2>1
    <3>2. item.out = dq0 + 1
      BY <1>6
    <3> HIDE DEF dq0, h0, r0
    <3>3. /\ n1 - 1 \in Nat
          /\ BookOK(d0, w1 \ {p}, <<item>>, n1 - 1 + 1, r0, dr, dq0 + 1, h0)
          /\ BookOK(d0, w1 \ {p}, <<>>, n1 - 1, r0, dr, dq0 + 1,
                    [out |-> item.out, headers |-> item.headers])
      BY <3>1, <3>2, TakeBook
    <3> QED
      BY <3>3 DEF dq0, h0, r0
  <2> QED
    BY <2>2 DEF n, w2, dq, h
<1>13. h \in Handed /\ dq \in Nat /\ n + 1 \in Nat
  <2>1. h \in Handed
    BY <1>6 DEF Handed, Item
  <2>2. dq \in Nat
    BY <1>5
  <2>3. n + 1 \in Nat
    BY <1>12
  <2> QED
    BY <2>1, <2>2, <2>3
<1>14. item.out = handed[d0].out + 1
  <2>1. dequeued[d0] = handed[d0].out + Len(<<>>) /\ Len(<<>>) = 0
    BY <1>5 DEF BookOK
  <2>2. handed[d0].out \in Nat
    BY <1>5 DEF Handed
  <2> QED
    BY <1>6, <2>1, <2>2
<1>15. CASE ~stopped[item.txq]
  <2>1. HandOver(d0, item, n)
    BY <1>7, <1>15 DEF Transmit
  <2> HIDE DEF n, w2, dq
  <2>2. /\ requeued' = [requeued EXCEPT ![d0] = <<>>]
        /\ nPackets' = [nPackets EXCEPT ![d0] = n]
        /\ DeviceSend(d0, item)
        /\ SetTop([disc |-> d0, left |-> Top.left, sending |-> TRUE,
                   txq |-> item.txq, sent |-> Top.sent + 1])
        /\ requeues' = requeues /\ UNCHANGED <<running, exhausted>>
    BY <2>1 DEF HandOver
  <2>3. DevInv' /\ handed' = [handed EXCEPT ![d0] = h]
    BY <1>4, <1>6, <1>15, <2>2, DeviceSendInv
  <2>4. BooksInv'
    <3>1. <<>> \in Seq(Item)
      OBVIOUS
    <3>2. /\ requeued' = [requeued EXCEPT ![d0] = <<>>]
          /\ nPackets' = [nPackets EXCEPT ![d0] = n]
      BY <2>2
    <3> HIDE DEF h
    <3> QED
      BY <1>4, <1>5, <1>9, <1>10, <1>11, <1>12, <1>13, <2>3, <3>1, <3>2, BookPoint
  <2>5. requeues' \in [Disc -> Nat] /\ RequeuesNeedBoth'
    BY <2>2 DEF Inv, RequeuesNeedBoth
  <2>6. /\ \A d \in Disc : d # d0 => requeued'[d] = requeued[d] /\ nPackets'[d] = nPackets[d]
        /\ requeued'[d0] = <<>>
    BY <1>4, <2>2 DEF BooksInv
  <2>7. Inv'
    BY <1>3, <1>6, <1>8, <1>15, <2>2, <2>4, <2>5, <2>6, HandedInv
  <2>8. InOrderStep
    BY <1>4, <1>6, <1>14, <2>3, HandedOrder
  <2> QED
    BY <2>7, <2>8
<1>16. CASE stopped[item.txq]
  <2>1. Requeue(d0, item, n)
    BY <1>7, <1>16 DEF Transmit
  <2> DEFINE n2 == n + 1
  <2>2. /\ requeued' = [requeued EXCEPT ![d0] = <<item>>]
        /\ nPackets' = [nPackets EXCEPT ![d0] = n2]
        /\ requeues' = [requeues EXCEPT ![d0] = requeues[d0] + 1]
        /\ RunEnd(d0, FALSE)
        /\ txLen' = txLen /\ stopped' = stopped /\ lost' = lost /\ handed' = handed
    BY <2>1 DEF Requeue, devVars
  <2>3. n2 \in Nat /\ BookOK(d0, w2, <<item>>, n2, received[d0], dr, dq, handed[d0])
    BY <1>12, <1>13
  <2> HIDE DEF n, w2, dq, n2, h
  <2>4. BooksInv'
    <3>1. <<item>> \in Seq(Item)
      BY <1>6
    <3>2. /\ requeued' = [requeued EXCEPT ![d0] = <<item>>]
          /\ nPackets' = [nPackets EXCEPT ![d0] = n2]
          /\ handed' = [handed EXCEPT ![d0] = handed[d0]]
      BY <1>4, <2>2 DEF BooksInv
    <3> QED
      BY <1>4, <1>5, <1>9, <1>10, <1>11, <1>13, <2>3, <3>1, <3>2, BookPoint
  <2>5. DevInv'
    BY <1>4, <2>2 DEF DevInv
  <2>6. requeues' \in [Disc -> Nat]
    BY <2>2 DEF Inv
  <2>7. item.txq \in TxQueue
    BY <1>6 DEF Item
  <2>8. FlowControl
    BY <1>4, <1>16, <2>7 DEF DevInv
  <2>9. MultiQueue
    <3>1. ASSUME ~MultiQueue PROVE FALSE
      <4>1. PICK t \in TxQueue : ~stopped[t]
        BY <1>3, <3>1 DEF Asks
      <4>2. t = item.txq
        BY <3>1, <2>7, OneQueue
      <4> QED
        BY <1>16, <4>1, <4>2
    <3> QED
      BY <3>1
  <2>10. RequeuesNeedBoth'
    BY <2>8, <2>9 DEF RequeuesNeedBoth, MultiQueue
  <2>11. \A d \in Disc : d # d0 => requeued'[d] = requeued[d] /\ nPackets'[d] = nPackets[d]
    BY <1>4, <2>2 DEF BooksInv
  <2>12. Settled(d0)'
    <3>1. requeued'[d0] = <<item>>
      BY <1>4, <2>2 DEF BooksInv
    <3>2. Head(requeued'[d0]) = item
      BY <3>1
    <3> QED
      BY <1>8, <1>16, <2>2, <2>7, <3>2 DEF Settled, HasRequeued
  <2>13. stack # <<>> /\ Top.disc = d0
    BY <1>3 DEF Runs
  <2>14. Inv'
    BY <2>2, <2>4, <2>5, <2>6, <2>10, <2>11, <2>12, <2>13, EndedInv
  <2> QED
    BY <2>2, <2>14 DEF InOrderStep
<1> QED
  BY <1>15, <1>16

LEMMA SendReturnsInv ==
  ASSUME TrafficAssumption, Inv, NEW d0 \in Disc, SendReturns(d0)
  PROVE  Inv' /\ InOrderStep
<1> DEFINE goesOn == nPackets[d0] # 0 /\ ~stopped[Top.txq]
           k == Top.left - 1
           f == [Top EXCEPT !.sending = FALSE, !.left = k]
<1>1. /\ stack # <<>> /\ Top.disc = d0 /\ Top.sending
      /\ IF goesOn /\ k > 0 THEN SetTop(f) /\ UNCHANGED <<running, exhausted>>
                            ELSE RunEnd(d0, goesOn)
  BY DEF SendReturns
<1>2. /\ waiting' = waiting /\ requeued' = requeued /\ nPackets' = nPackets
      /\ received' = received /\ dropped' = dropped /\ requeues' = requeues
      /\ dequeued' = dequeued
      /\ txLen' = txLen /\ stopped' = stopped /\ lost' = lost /\ handed' = handed
  BY DEF SendReturns, devVars
<1>3. BooksInv' /\ DevInv' /\ requeues' \in [Disc -> Nat] /\ RequeuesNeedBoth'
  BY <1>2, BookStutter DEF Inv, bookVars, DevInv, RequeuesNeedBoth
<1>4. Top \in Frame /\ FrameOK(Top) /\ Len(stack) \in 1 .. Len(stack)
  BY <1>1, TopType DEF Inv
<1>5. requeued[d0] = <<>>
  BY <1>1, <1>4 DEF Inv, SendingInv, Top
<1>6. CASE goesOn /\ k > 0
  <2>1. /\ Top.left \in 0 .. Quota /\ Top.sent \in Nat /\ Quota \in Nat
        /\ Top.sent + Top.left = Quota + 1
    BY <1>1, <1>4 DEF Frame, FrameOK, TrafficAssumption
  <2>2. k \in 0 .. Quota /\ k > 0 /\ Top.sent + k = Quota
    BY <1>6, <2>1
  <2>3. stack' = [stack EXCEPT ![Len(stack)] = f] /\ UNCHANGED <<running, exhausted>>
    BY <1>1, <1>6 DEF SetTop
  <2> HIDE DEF k
  <2>4. /\ f \in Frame /\ ~f.sending /\ f.txq = Top.txq /\ f.sent = Top.sent
        /\ f.disc = Top.disc /\ f.left = k
    BY <1>4, <2>2, ReturnedFrame
  <2>5. FrameOK(f)
    BY <1>4, <2>2, <2>4 DEF FrameOK
  <2> HIDE DEF f
  <2>6. /\ StackInv'
        /\ \A i \in 1 .. Len(stack') : stack'[i] = f \/
             (stack'[i].disc # f.disc /\ \E j \in 1 .. Len(stack) : stack[j] = stack'[i])
    BY <1>1, <2>3, <2>4, <2>5, SetTopInv DEF Inv
  <2>7. SendingInv'
    BY <1>2, <2>4, <2>6 DEF Inv, SendingInv
  <2>8. \A d \in Disc : ~running'[d] => Settled(d)'
    BY <1>2, <2>3 DEF Inv, Settled, HasRequeued
  <2>9. Inv'
    BY <1>3, <2>6, <2>7, <2>8 DEF Inv
  <2> QED
    BY <1>2, <2>9 DEF InOrderStep
<1>7. CASE ~(goesOn /\ k > 0)
  <2>1. RunEnd(d0, goesOn) /\ goesOn \in BOOLEAN
    BY <1>1, <1>7
  <2>2. exhausted'[d0] = goesOn
    BY <1>1, <2>1, EndStack DEF Inv
  <2>3. nPackets[d0] \in Nat /\ DiscOf[Top.txq] = d0 /\ Top.txq \in TxQueue
    BY <1>1, <1>4 DEF Inv, BooksInv, FrameOK, Frame
  <2>4. Settled(d0)'
    <3>1. nPackets[d0] > 0 => goesOn \/ stopped[Top.txq]
      BY <2>3
    <3>2. CASE goesOn
      <4>1. exhausted'[d0] = TRUE
        BY <2>2, <3>2
      <4> QED
        BY <1>2, <1>5, <4>1 DEF Settled, HasRequeued
    <3>3. CASE ~goesOn
      BY <1>2, <1>5, <2>3, <3>1, <3>3 DEF Settled, HasRequeued
    <3> QED
      BY <3>2, <3>3
  <2> HIDE DEF goesOn
  <2>5. Inv'
    BY <1>1, <1>2, <1>3, <2>1, <2>4, EndedInv
  <2> QED
    BY <1>2, <2>5 DEF InOrderStep
<1> QED
  BY <1>6, <1>7

LEMMA DeviceTransmitsInv ==
  ASSUME TrafficAssumption, Inv, NEW t0 \in TxQueue, DeviceTransmits(t0)
  PROVE  Inv' /\ InOrderStep
<1> DEFINE d0 == DiscOf[t0]
<1>1. /\ waiting' = waiting /\ requeued' = requeued /\ nPackets' = nPackets
      /\ received' = received /\ dropped' = dropped /\ requeues' = requeues
      /\ dequeued' = dequeued /\ lost' = lost /\ handed' = handed
  BY DEF DeviceTransmits
<1>2. /\ txLen[t0] > 0
      /\ txLen' = [txLen EXCEPT ![t0] = @ - 1]
      /\ \/ /\ stopped[t0] /\ txLen'[t0] <= WakeAt
            /\ stopped' = [stopped EXCEPT ![t0] = FALSE]
            /\ RunBegin(d0, t0)
         \/ stopped' = stopped /\ running' = running /\ exhausted' = exhausted
            /\ stack' = stack
  BY DEF DeviceTransmits
<1>3. d0 \in Disc
  BY DEF TrafficAssumption
<1>4. BooksInv' /\ requeues' \in [Disc -> Nat] /\ RequeuesNeedBoth'
  BY <1>1, BookStutter DEF Inv, bookVars, RequeuesNeedBoth
<1>5. DevInv' /\ \A t \in TxQueue : t # t0 => stopped'[t] = stopped[t]
  BY <1>1, <1>2, DeviceDrainInv DEF Inv
<1>6. InOrderStep
  BY <1>1 DEF InOrderStep
<1>7. CASE RunBegin(d0, t0)
  <2>1. /\ StackInv'
        /\ running'[d0]
        /\ \A i \in 1 .. Len(stack') : stack'[i].sending =>
             \E j \in 1 .. Len(stack) : stack[j].sending /\ stack[j].disc = stack'[i].disc
        /\ \A d \in Disc : d # d0 => running'[d] = running[d] /\ exhausted'[d] = exhausted[d]
    BY <1>7, BeginStack DEF Inv
  <2>2. \A t \in TxQueue : DiscOf[t] # d0 => stopped'[t] = stopped[t]
    BY <1>5
  <2>3. \A d \in Disc : d # d0 /\ ~running'[d] => Settled(d)'
    BY <1>1, <1>3, <2>1, <2>2, OthersSettled
  <2>4. \A d \in Disc : ~running'[d] => Settled(d)'
    BY <2>1, <2>3
  <2>5. SendingInv'
    BY <1>1, <2>1 DEF Inv, SendingInv
  <2> QED
    BY <1>4, <1>5, <1>6, <2>1, <2>4, <2>5 DEF Inv
<1>8. CASE stopped' = stopped /\ running' = running /\ exhausted' = exhausted
           /\ stack' = stack
  <2>1. StackInv' /\ SendingInv'
    BY <1>1, <1>8 DEF Inv, StackInv, RunOnce, FrameOK, SendingInv
  <2>2. \A d \in Disc : ~running'[d] => Settled(d)'
    BY <1>1, <1>8 DEF Inv, Settled, HasRequeued
  <2> QED
    BY <1>4, <1>5, <1>6, <2>1, <2>2 DEF Inv
<1> QED
  BY <1>2, <1>7, <1>8

(* Every step keeps the invariant, and hands over in order.                *)
LEMMA NextInv ==
  ASSUME TrafficAssumption, Inv, [Next]_vars
  PROVE  Inv' /\ [InOrderStep]_vars
<1>1. ASSUME NEW t \in TxQueue, Send(t) PROVE Inv' /\ InOrderStep
  BY <1>1, SendInv
<1>2. ASSUME NEW t \in TxQueue, DeviceTransmits(t) PROVE Inv' /\ InOrderStep
  BY <1>2, DeviceTransmitsInv
<1>3. ASSUME RunStep PROVE Inv' /\ InOrderStep
  <2>1. PICK d \in Disc : \/ NothingToSend(d) \/ DequeueNothing(d) \/ RestartRequeued(d)
                          \/ RestartDequeued(d) \/ SendReturns(d)
    BY <1>3 DEF RunStep
  <2> QED
    BY <2>1, NothingToSendInv, DequeueNothingInv, RestartRequeuedInv,
       RestartDequeuedInv, SendReturnsInv
<1>4. ASSUME UNCHANGED vars PROVE Inv'
  <2>1. /\ waiting' = waiting /\ requeued' = requeued /\ nPackets' = nPackets
        /\ received' = received /\ dropped' = dropped /\ requeues' = requeues
        /\ dequeued' = dequeued /\ running' = running /\ exhausted' = exhausted
        /\ stack' = stack /\ txLen' = txLen /\ stopped' = stopped /\ lost' = lost
        /\ handed' = handed
    BY <1>4 DEF vars, discVars, devVars
  <2>2. BooksInv' /\ DevInv' /\ requeues' \in [Disc -> Nat] /\ RequeuesNeedBoth'
    BY <2>1, BookStutter DEF Inv, bookVars, DevInv, RequeuesNeedBoth
  <2>3. StackInv' /\ SendingInv'
    BY <2>1 DEF Inv, StackInv, RunOnce, FrameOK, SendingInv
  <2>4. \A d \in Disc : ~running'[d] => Settled(d)'
    BY <2>1 DEF Inv, Settled, HasRequeued
  <2> QED
    BY <2>2, <2>3, <2>4 DEF Inv
<1>5. CASE Next
  BY <1>1, <1>2, <1>3, <1>5 DEF Next
<1>6. CASE UNCHANGED vars
  BY <1>4, <1>6
<1> QED
  BY <1>5, <1>6

LEMMA Invariance == Spec => []Inv /\ InOrder
<1>1. Inv /\ [Next]_vars => Inv' /\ [InOrderStep]_vars
  BY NextInv, TrafficAssumption
<1> QED
  BY <1>1, InitInv, PTL DEF Spec, InOrder

(* What the invariant says of a state.                                     *)
LEMMA InvTyped ==
  ASSUME Inv PROVE TypeOK
<1>1. \A d \in Disc : Len(requeued[d]) <= 1
  BY DEF Inv, BooksInv, BookOK
<1> QED
  BY <1>1 DEF Inv, StackInv, BooksInv, DevInv, Handed, TypeOK

LEMMA InvBalanced ==
  ASSUME Inv PROVE Accounting
<1> SUFFICES ASSUME NEW d \in Disc
             PROVE  /\ nPackets[d] = Cardinality(waiting[d]) + Len(requeued[d])
                    /\ received[d] = nPackets[d] + dropped[d] + handed[d].out
  BY DEF Accounting
<1> QED
  BY BookTypes DEF Inv, BookOK

LEMMA InvQuota ==
  ASSUME TrafficAssumption, Inv PROVE QuotaRespected
<1> SUFFICES ASSUME NEW i \in 1 .. Len(stack) PROVE stack[i].sent <= Quota
  BY DEF QuotaRespected
<1> DEFINE g == stack[i]
<1>1. g \in Frame /\ FrameOK(g)
  BY FrameType DEF Inv, StackInv
<1>2. g.sent \in Nat /\ g.left \in Nat /\ g.left > 0 /\ Quota \in Nat
      /\ (g.sent + g.left = Quota + 1 \/ g.sent + g.left = Quota)
  BY <1>1 DEF Frame, FrameOK, TrafficAssumption
<1> HIDE DEF g
<1>3. g.sent <= Quota
  BY <1>2
<1> QED
  BY <1>3 DEF g

LEMMA InvNoStall ==
  ASSUME Inv PROVE NoStall
<1> SUFFICES ASSUME stack = <<>>, NEW d \in Disc PROVE Settled(d)
  BY DEF NoStall, Settled
<1>1. ~running[d]
  BY DEF Inv, StackInv, RunOnce
<1> QED
  BY <1>1 DEF Inv

LEMMA InvSafe ==
  ASSUME TrafficAssumption, Inv
  PROVE  /\ TypeOK /\ RunOnce /\ Accounting /\ QuotaRespected
         /\ NoStall /\ RequeuesNeedBoth /\ NoOverflow
<1>1. RunOnce /\ RequeuesNeedBoth /\ NoOverflow
  BY DEF Inv, StackInv, DevInv, NoOverflow
<1> QED
  BY <1>1, InvTyped, InvBalanced, InvQuota, InvNoStall

----------------------------------------------------------------------------
(* Every variable of the run loop and of the device keeps its type.        *)
THEOREM TypeCorrect == Spec => []TypeOK
BY TrafficAssumption, InvSafe, Invariance, PTL

(* However deep the device's wake callbacks nest calls of QueueDisc::Run,  *)
(* no disc is run twice at once, and m_running says which are running.     *)
THEOREM RunsOnce == Spec => []RunOnce
BY TrafficAssumption, InvSafe, Invariance, PTL

(* The counters of QueueDisc balance with what is stored, requeued,        *)
(* dropped and handed to the device.                                       *)
THEOREM BooksBalance == Spec => []Accounting
BY TrafficAssumption, InvSafe, Invariance, PTL

(* A Run hands over at most as many packets as its quota.                  *)
THEOREM QuotaKept == Spec => []QuotaRespected
BY TrafficAssumption, InvSafe, Invariance, PTL

(* No wake is lost: while no code runs, what a disc holds waits for a      *)
(* stopped queue, or for the next arrival after a spent quota.             *)
THEOREM NeverStalls == Spec => []NoStall
BY TrafficAssumption, InvSafe, Invariance, PTL

(* A disc requeues a packet only for a multi-queue device that stops its   *)
(* queues.                                                                 *)
THEOREM RequeuesOnlyThen == Spec => []RequeuesNeedBoth
BY TrafficAssumption, InvSafe, Invariance, PTL

(* A device with flow control is never given a packet it has no room for.  *)
THEOREM NeverOverflows == Spec => []NoOverflow
BY TrafficAssumption, InvSafe, Invariance, PTL

(* The device gets each item once, with one header, in the order in which  *)
(* DoDequeue returned them, whatever was requeued between.                 *)
THEOREM HandsOverInOrder == Spec => InOrder
BY Invariance, PTL
=============================================================================
