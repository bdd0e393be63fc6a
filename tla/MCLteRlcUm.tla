----------------------------- MODULE MCLteRlcUm -----------------------------
(***************************************************************************)
(* A bearer of at most MaxSdus SDUs that starts just before and just after *)
(* the sequence numbers wrap, with HARQ losing, delaying and repeating.    *)
(***************************************************************************)
EXTENDS LteRlcUm

MCStartSNs == {1, Modulus - 1}

----------------------------------------------------------------------------
(* What was accepted is sent, however small the opportunities were and     *)
(* however wrong the MAC's idea of the backlog became meanwhile.           *)
EverythingSent == [](txBuffer # << >> => <>(txBuffer = << >>))

(* No gap holds anything up for ever: the reception buffer empties.        *)
GapsClose == []<>(rxBuffer = << >>)

(* The comment at line 962 of lte-rlc-um.cc: VR(UR) becomes the number of  *)
(* the first PDU that has not been received.  newVrUr does not wrap, so    *)
(* after PDU 1023 it stops at 0 although PDU 0 may be there, complete and  *)
(* waiting until another PDU arrives or the timer expires.                 *)
VrUrNotReceived == vrUr \notin DOMAIN rxBuffer
=============================================================================
