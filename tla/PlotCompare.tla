---------------------------- MODULE PlotCompare ----------------------------
(***************************************************************************)
(* plotting/compare-*.py: differences between two settings of one input of *)
(* the simulations, over all values of the others.  A script fills two     *)
(* parallel lists, one for each setting (Read), subtracts them element by  *)
(* element (Differences), and draws the first 72 differences on the left   *)
(* axis and the rest on the right one (Draw), where only the position of a *)
(* point says which queue discipline it belongs to.                        *)
(***************************************************************************)
EXTENDS Results, TLC

VARIABLES
  script, odd,                \* what is run on which database
  phase, data, diffs, figure  \* how far it has got, the lists, the figure
compareVars == <<script, odd, phase, data, diffs, figure>>

Unscaled == <<"sq-red", "sq-pie", "dq-red", "dq-pie">>
Scalable == <<"dq-red-sca", "dq-pie-sca", "l4s-cred", "l4s-pi2", "l4s-pie">>
ScalableLte == <<"dq-red-sca", "dq-pie-sca", "l4s-pie">>
Ecn == <<0, 1>>

Config(table, aqm, nLF, nCF, ccC, ccL, ecn) ==
  [table |-> table, aqm |-> aqm, nLF |-> nLF, nCF |-> nCF,
   ccC |-> ccC, ccL |-> ccL, ecn |-> ecn]

(* the element that compare-ccL puts where it has nothing to compare       *)
Filler == [aqm |-> "filler"]

(* row=rows[0] for one configuration after the other: the first missing    *)
(* row raises an exception, and so does float(None)                        *)
Read(list0, list1) ==
  LET asked == (ToSet(list0) \cup ToSet(list1)) \ {Filler}
  IN [list0 |-> list0, list1 |-> list1, asked |-> asked,
      ok |-> \A c \in asked : LET rows == Fetch(odd, c) IN rows # << >> /\ rows[1].full]

(* the last loop before the figures: list r gets list1[i] - list0[i]       *)
Differences(d) == [i \in DOMAIN d.list0 |-> <<d.list1[i], d.list0[i]>>]

(* Two axes with a tick for every 18 or 36 positions, the i-th of which    *)
(* gets the i-th of the axis' labels; so many as are left over get none    *)
(* (matplotlib versions since this code raise an exception instead, and    *)
(* nothing is drawn).  An axis whose x positions and values differ in      *)
(* number makes any version raise an exception.  A point is the label over *)
(* which it stands and what was subtracted.                                *)
Draw(rest, right, n) ==
  LET left == SubSeq(rest, 1, 72)
      others == SubSeq(rest, 73, Len(rest))
      ok == Len(left) = 72 /\ Len(others) = n
  IN [ok |-> ok,
      points |-> IF ok THEN {<<Unscaled[((i - 1) \div 18) + 1], left[i]>> : i \in 1 .. 72}
                            \cup {<<right[((i - 1) \div 36) + 1], others[i]>> : i \in 1 .. n}
                 ELSE {}]

----------------------------------------------------------------------------
(* The loops visit the tuples of Nest in order, and append to the lists.   *)
Flows(loops) == Nest(Nest(loops, FlowCounts), FlowCounts)

CcCListsEcnFirst(t, aqms) ==   \* mutant: ecn is the outermost loop
  LET uns == Flows(Nest(Single(Ecn), Unscaled))
      sca == Nest(Flows(Nest(Single(Ecn), aqms)), ScalableCC)
      list(cc) ==
        LET u(x) == Config(t, x[2], x[3], x[4], cc, cc, x[1])
            s(x) == Config(t, x[2], x[3], x[4], cc, x[5], x[1])
        IN [k \in DOMAIN uns |-> u(uns[k])] \o [k \in DOMAIN sca |-> s(sca[k])]
  IN Read(list("cubic"), list("reno"))

(* compare-ccC: aqm, ecn, nLF, nCF (and ccL); cubic first, then reno       *)
CcCLists(t, aqms) ==
  LET uns == Flows(Nest(Single(Unscaled), Ecn))
      sca == Nest(Flows(Nest(Single(aqms), Ecn)), ScalableCC)
      list(cc) ==
        LET u(x) == Config(t, x[1], x[3], x[4], cc, cc, x[2])
            s(x) == Config(t, x[1], x[3], x[4], cc, x[5], x[2])
        IN [k \in DOMAIN uns |-> u(uns[k])] \o [k \in DOMAIN sca |-> s(sca[k])]
  IN Read(list("cubic"), list("reno"))

(* compare-ccL: fillers; aqm, ecn, nLF, nCF, ccC; relentless, then dctcp   *)
CcLLists(t, aqms) ==
  LET sca == Nest(Flows(Nest(Single(aqms), Ecn)), ClassicCC)
      list(cc) ==
        LET s(x) == Config(t, x[1], x[3], x[4], x[5], cc, x[2])
        IN [i \in 1 .. 72 |-> Filler] \o [k \in DOMAIN sca |-> s(sca[k])]
  IN Read(list("relentless"), list("dctcp"))

(* compare-ecn: aqm, nLF, nCF, ccC (and ccL); ecn=0, then ecn=1            *)
EcnLists(t, aqms) ==
  LET uns == Nest(Flows(Single(Unscaled)), ClassicCC)
      sca == Nest(Nest(Flows(Single(aqms)), ClassicCC), ScalableCC)
      list(ecn) ==
        LET u(x) == Config(t, x[1], x[2], x[3], x[4], x[4], ecn)
            s(x) == Config(t, x[1], x[2], x[3], x[4], x[5], ecn)
        IN [k \in DOMAIN uns |-> u(uns[k])] \o [k \in DOMAIN sca |-> s(sca[k])]
  IN Read(list(0), list(1))

(* The six scripts.  Those for LTE read the disciplines of ScalableLte and *)
(* label the axis with all five of Scalable.                               *)
ReadCcC == CcCLists("results", Scalable)
DrawCcC(r) == Draw(r, Scalable, 180)
ReadCcCLte == CcCLists("results_lte", ScalableLte)
DrawCcCLte(r) == Draw(r, Scalable, 108)
ReadCcL == CcLLists("results", Scalable)
DrawCcL(r) == Draw(r, Scalable, 180)
ReadCcLLte == CcLLists("results_lte", ScalableLte)
DrawCcLLte(r) == Draw(r, Scalable, 108)
ReadEcn == EcnLists("results", Scalable)
DrawEcn(r) == Draw(r, Scalable, 180)
ReadEcnLte == EcnLists("results_lte", ScalableLte)
DrawEcnLte(r) == Draw(r, Scalable, 108)

CompareScripts == {"ccC", "ccC-lte", "ccL", "ccL-lte", "ecn", "ecn-lte"}

ReadOf(s) ==
  CASE s = "ccC" -> ReadCcC
    [] s = "ccC-lte" -> ReadCcCLte
    [] s = "ccL" -> ReadCcL
    [] s = "ccL-lte" -> ReadCcLLte
    [] s = "ecn" -> ReadEcn
    [] s = "ecn-lte" -> ReadEcnLte

DrawOf(s, r) ==
  CASE s = "ccC" -> DrawCcC(r)
    [] s = "ccC-lte" -> DrawCcCLte(r)
    [] s = "ccL" -> DrawCcL(r)
    [] s = "ccL-lte" -> DrawCcLLte(r)
    [] s = "ecn" -> DrawEcn(r)
    [] s = "ecn-lte" -> DrawEcnLte(r)

----------------------------------------------------------------------------
NoData == [ok |-> FALSE]

Init ==
  /\ script \in CompareScripts
  /\ odd = << >>
  /\ phase = "start" /\ data = NoData /\ diffs = << >> /\ figure = NoData

(* one of the configurations that the script asks for may be odd (bound:   *)
(* one with ten flows of each kind)                                        *)
FindDatabase ==
  /\ phase = "start" /\ phase' = "reading"
  /\ \/ odd' = << >>
     \/ \E c \in ReadOf(script).asked, k \in OddKind :
          c.nLF = 10 /\ c.nCF = 10 /\ odd' = c :> k
  /\ UNCHANGED <<script, data, diffs, figure>>

ReadRows ==
  /\ phase = "reading"
  /\ data' = ReadOf(script)
  /\ phase' = IF data'.ok THEN "subtracting" ELSE "crashed"
  /\ UNCHANGED <<script, odd, diffs, figure>>

Subtract ==
  /\ phase = "subtracting" /\ phase' = "drawing"
  /\ diffs' = Differences(data)
  /\ UNCHANGED <<script, odd, data, figure>>

DrawFigure ==
  /\ phase = "drawing"
  /\ figure' = DrawOf(script, diffs)
  /\ phase' = IF figure'.ok THEN "saved" ELSE "crashed"
  /\ UNCHANGED <<script, odd, data, diffs>>

Next == FindDatabase \/ ReadRows \/ Subtract \/ DrawFigure

----------------------------------------------------------------------------
(* what the titles say is subtracted from what: "(Reno - Cubic)", ...      *)
Compares(s, a, b) ==
  CASE s \in {"ccC", "ccC-lte"} -> a.ccC = "reno" /\ b.ccC = "cubic"
    [] s \in {"ccL", "ccL-lte"} -> a.ccL = "dctcp" /\ b.ccL = "relentless"
    [] s \in {"ecn", "ecn-lte"} -> a.ecn = 1 /\ b.ecn = 0

(* the input that is compared; without scalable congestion control ccL     *)
(* goes with ccC                                                           *)
Compared(s, c) ==
  CASE s \in {"ccC", "ccC-lte"} -> IF c.ccL = c.ccC THEN {"ccC", "ccL"} ELSE {"ccC"}
    [] s \in {"ccL", "ccL-lte"} -> {"ccL"}
    [] s \in {"ecn", "ecn-lte"} -> {"ecn"}

(* each label of a figure with the disciplines whose points stand over it  *)
Named == {<<p[1], p[2][1].aqm>> : p \in {x \in figure.points : x[2][1] # Filler}}

LteScripts == {"ccC-lte", "ccL-lte", "ecn-lte"}

(* Each point of a saved comparison is the difference its title announces, *)
(* between two simulations that differ in the compared input alone; it     *)
(* stands with the points of its queue discipline and with no others, over *)
(* the discipline's name; none is left out.  Only the order of the nested  *)
(* loops, two slices and the spacing of the ticks see to that.  The one    *)
(* exception is the name over l4s-pie in the LTE scripts: LabelsTrue.      *)
CompareHonest ==
  phase = "saved" =>
    /\ \A p \in figure.points :
         LET a == p[2][1]
             b == p[2][2]
         IN \/ a = Filler /\ b = Filler /\ p[1] \in ToSet(Unscaled)
            \/ /\ Compares(script, a, b)
               /\ \A k \in DOMAIN a \ Compared(script, a) : a[k] = b[k]
    /\ \A m, n \in Named : m[1] = n[1] <=> m[2] = n[2]
    /\ \A m \in Named : m[1] = m[2] \/ (script \in LteScripts /\ m[2] = "l4s-pie")
    /\ data.asked = UNION {{p[2][1], p[2][2]} : p \in figure.points} \ {Filler}

(* The label under a point is the name of the queue discipline whose       *)
(* simulations it compares, as the labels of compare-ccC-lte.py:134 and of *)
(* its five siblings say.                                                  *)
LabelsTrue == phase = "saved" => \A m \in Named : m[1] = m[2]
=============================================================================
