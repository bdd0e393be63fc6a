----------------------------- MODULE RlcPromise -----------------------------
(***************************************************************************)
(* What unacknowledged mode promises to the layer above: an SDU comes out  *)
(* whole or not at all, at most once, and never after a later one.         *)
(***************************************************************************)
EXTENDS Naturals, Sequences, SequencesExt

VARIABLES accepted, out   \* how many SDUs went in, which have come out
vars == <<accepted, out>>

Init == accepted = 0 /\ out = << >>
Accept == accepted' = accepted + 1 /\ UNCHANGED out
Deliver ==
  /\ IsStrictPrefix(out, out')
  /\ \A k \in Len(out) + 1 .. Len(out') :
       out'[k] \in 1 .. accepted /\ (k > 1 => out'[k - 1] < out'[k])
  /\ UNCHANGED accepted

Next == Accept \/ Deliver
Spec == Init /\ [][Next]_vars
=============================================================================
