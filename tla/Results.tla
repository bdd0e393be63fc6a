------------------------------ MODULE Results ------------------------------
(***************************************************************************)
(* The tables "results" and "results_lte" as the plotting scripts see      *)
(* them: how many rows a SELECT for one configuration returns, and whether *)
(* the columns it names exist.  The database itself is external; the       *)
(* columns are those of plotting/l4s.sql.                                  *)
(***************************************************************************)
EXTENDS Naturals, Sequences, SequencesExt

FlowCounts == <<1, 5, 10>>
ClassicCC == <<"reno", "cubic">>
ScalableCC == <<"dctcp", "relentless">>

(* CREATE TABLE results: the inputs of a simulation, then what parse-mysql *)
(* inserts, then the columns nothing in the repository computes            *)
MeasuredColumns ==
  {"aqm", "nLF", "nCF", "ccC", "ccL", "ecn", "qDelayRef",
   "qDelayMaxL", "qDelayAvgL", "packets0L", "qDelayMaxC", "qDelayAvgC", "packets0C",
   "throughputL", "throughputC", "throughputS", "marksL", "dropsL", "odropsL",
   "fdropsL", "marksC", "dropsC", "odropsC", "fdropsC", "packetsL", "packetsC"}
DerivedColumns ==
  {"jain", "utilization", "jainmod", "markRateL", "dropRateC", "markRateC",
   "faultRateC", "shareL", "shareC"}
ShippedColumns == MeasuredColumns \cup DerivedColumns
EmptyColumns == {"shareqEmptyL", "shareqEmptyC", "shareqEmptyB"}

(* "odd" maps the configurations that do not have exactly one complete row *)
(* to what they have instead.                                              *)
OddKind == {"missing", "twice", "null"}

(* cur.fetchall() of a SELECT for configuration c: a row knows where it    *)
(* comes from and whether its derived columns are filled                   *)
Fetch(odd, c) ==
  LET row(full) == [of |-> c, full |-> full]
      kind == IF c \in DOMAIN odd THEN odd[c] ELSE "once"
  IN CASE kind = "once" -> <<row(TRUE)>>
       [] kind = "missing" -> << >>
       [] kind = "twice" -> <<row(TRUE), row(TRUE)>>
       [] kind = "null" -> <<row(FALSE)>>

(* nested "for" loops over a, b, ... visit this sequence of tuples         *)
Nest(a, b) ==
  [k \in 1 .. Len(a) * Len(b) |->
     Append(a[(k - 1) \div Len(b) + 1], b[((k - 1) % Len(b)) + 1])]
Single(a) == [k \in 1 .. Len(a) |-> <<a[k]>>]
=============================================================================
