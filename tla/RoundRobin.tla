----------------------------- MODULE RoundRobin -----------------------------
(***************************************************************************)
(* DoDequeue of DQREDQueueDisc and DQMyPieQueueDisc (the same code twice): *)
(* a weighted round robin between the two bands, the weights being the     *)
(* configured numbers of L4S and Classic flows divided by their gcd.  A    *)
(* band is taken to be empty when its stamp queue is.                      *)
(***************************************************************************)
EXTENDS DualQueue

CONSTANTS
  NLF, NCF,     \* m_nLF and m_nCF as configured
  CounterMod    \* 2^32: dqCounter is a uint32_t

(* With both 0 InitializeParams divides by zero.                           *)
ASSUME ShareAssumption ==
  /\ {NLF, NCF} \subseteq Nat
  /\ NLF + NCF > 0
  /\ CounterMod \in Nat
  /\ NLF < CounterMod /\ NCF < CounterMod /\ 1 < CounterMod

VARIABLES
  lastDq,       \* m_lastDq: the band served last
  dqCounter,    \* m_dqCounter: packets it has been served in a row
  turn          \* history: [len, whole], the packets in a row that lastDq was
                \* served while the other band waited, and whether the turn
                \* began by taking over from that other band

rrVars == <<lastDq, dqCounter, turn>>

(* std::__gcd                                                              *)
Gcd(m, n) ==
  CHOOSE d \in 1 .. (m + n) :
    /\ m % d = 0 /\ n % d = 0
    /\ \A e \in 1 .. (m + n) : m % e = 0 /\ n % e = 0 => e <= d

(* m_nLF and m_nCF after InitializeParams                                  *)
Share == [b \in Band |-> (IF b = L4S THEN NLF ELSE NCF) \div Gcd(NLF, NCF)]

(* A share of 0 still gets one packet: the test comes after the switch.    *)
TurnLength(b) == Larger(Share[b], 1)

Other(b) == IF b = L4S THEN Classic ELSE L4S

(* dqCounter is a uint32_t.                                                *)
RRTypeOK ==
  /\ lastDq \in Band
  /\ dqCounter \in 0 .. CounterMod - 1
  /\ turn \in [len : Nat, whole : BOOLEAN]

RRInit(counters) ==
  /\ lastDq = L4S
  /\ dqCounter \in counters
  /\ turn = [len |-> 0, whole |-> FALSE]

Waiting(b) == tsq[b] # <<>>
Contended == Waiting(L4S) /\ Waiting(Classic)

LateChosen == \* mutant: off by one
  IF Contended
  THEN IF dqCounter > Share[lastDq] THEN Other(lastDq) ELSE lastDq
  ELSE IF Waiting(L4S) THEN L4S ELSE Classic

Chosen ==
  IF Contended
  THEN IF dqCounter >= Share[lastDq] THEN Other(lastDq) ELSE lastDq
  ELSE IF Waiting(L4S) THEN L4S ELSE Classic

\* mutant: the counter is not restarted when the turn changes
UnresetServe ==
  /\ Waiting(L4S) \/ Waiting(Classic)
  /\ LET b == Chosen
     IN /\ lastDq' = b
        /\ dqCounter' = (dqCounter + 1) % CounterMod
        /\ turn' = IF ~Contended THEN [len |-> 0, whole |-> FALSE]
                   ELSE IF b = lastDq THEN [turn EXCEPT !.len = @ + 1]
                   ELSE [len |-> 1, whole |-> TRUE]
        /\ Deliver(b, Head(q[b]), stats)

Serve ==
  /\ Waiting(L4S) \/ Waiting(Classic)
  /\ LET b == Chosen
     IN /\ lastDq' = b
        /\ dqCounter' = IF b = lastDq THEN (dqCounter + 1) % CounterMod ELSE 1
        /\ turn' = IF ~Contended THEN [len |-> 0, whole |-> FALSE]
                   ELSE IF b = lastDq THEN [turn EXCEPT !.len = @ + 1]
                   ELSE [len |-> 1, whole |-> TRUE]
        /\ IF q[b] = <<>> THEN Crash ELSE Deliver(b, Head(q[b]), stats)

DoDequeue ==
  /\ pc = "idle"
  /\ \/ ~Waiting(L4S) /\ ~Waiting(Classic) /\ ReturnNull /\ UNCHANGED rrVars
     \/ Serve

----------------------------------------------------------------------------
(* No band is served more packets in a row than its share while the other  *)
(* one waits: neither starves, whatever the counter held before (DQRED     *)
(* never initialises it) and however far it ran, or wrapped, uncontended.  *)
RoundRobinBound == turn.len <= TurnLength(lastDq)

(* ... and it is served no less: a turn that began by taking over from the *)
(* other band, and was contended throughout, ends after exactly the share. *)
WholeTurnsStep ==
  (turn.whole /\ lastDq' # lastDq /\ Contended)
    => turn.len = TurnLength(lastDq)

(* WholeTurnsStep of every step.                                           *)
WholeTurns == [][WholeTurnsStep]_<<dualVars, rrVars>>
=============================================================================
