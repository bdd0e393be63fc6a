------------------------------ MODULE PlotConf ------------------------------
(***************************************************************************)
(* plotting/plot-per-flowconf-*.py and plot-per-tcpconf-*.py: sixteen      *)
(* copies of one program.  Each reads one row for every combination of a   *)
(* label of the x axis and a queue discipline into parallel lists (Read),  *)
(* and draws every n-th element of a list as one line of the figure        *)
(* (Draw).  The lists of one script grow together, so that "rows" stands   *)
(* for all of them.                                                        *)
(***************************************************************************)
EXTENDS Results, TLC

VARIABLES
  script, args,        \* what is run
  columns, odd,        \* the database it finds
  phase, data, figure  \* how far it has got, the lists, the figure
plotVars == <<script, args, columns, odd, phase, data, figure>>

CommonColumns ==
  EmptyColumns \cup
  {"markRateL", "faultRateC", "qDelayMaxL", "qDelayAvgL", "utilization", "jainmod"}
RateColumns == {"dropRateC", "markRateC"}
ClassicDelays == {"qDelayAvgC", "qDelayMaxC"}

(* labels of the scripts for one flow configuration: ecn, then ccC, then   *)
(* ccL, which is ccC itself where no scalable congestion control is used   *)
FlowLabels ==
  [k \in 1 .. 4 |->
     LET t == Nest(Single(<<0, 1>>), ClassicCC)[k]
     IN [ecn |-> t[1], ccC |-> t[2], ccL |-> t[2]]]
FlowLabelsSca ==
  [k \in 1 .. 8 |->
     LET t == Nest(Nest(Single(<<0, 1>>), ClassicCC), ScalableCC)[k]
     IN [ecn |-> t[1], ccC |-> t[2], ccL |-> t[3]]]

(* labels of the scripts for one TCP configuration: nLF, then nCF          *)
TcpLabels ==
  [k \in 1 .. 9 |->
     LET t == Nest(Single(FlowCounts), FlowCounts)[k] IN [nLF |-> t[1], nCF |-> t[2]]]

(* the arguments; the scripts without scalable congestion control query    *)
(* ccL='ccC', whatever their second argument is                            *)
FlowArgs == [nLF : {1, 5, 10}, nCF : {1, 5, 10}]
TcpArgs ==
  {[ccC |-> c, ccL |-> l, ecn |-> e] :
     c \in {"reno", "cubic"}, l \in {"dctcp", "relentless"}, e \in {0, 1}}
CcLIsCcC(a) == [a EXCEPT !.ccL = a.ccC]

SkippingRead(table, labels, a, aqms, select) ==   \* mutant: skips missing rows
  LET n == Len(aqms)
      configs == [k \in 1 .. Len(labels) * n |->
                    labels[(k - 1) \div n + 1] @@ a
                      @@ [aqm |-> aqms[((k - 1) % n) + 1], table |-> table]]
      fetched == [k \in DOMAIN configs |-> Fetch(odd, configs[k])]
  IN [labels |-> labels, configs |-> ToSet(configs), rows |-> FlattenSeq(fetched),
      ok |-> select \subseteq columns]

(* the loop: for every label, for every aqm one SELECT, all rows of which  *)
(* are appended.  A SELECT without a row yields [[0,0]], whose third value *)
(* does not exist; float(None) fails as well.                              *)
Read(table, labels, a, aqms, select) ==
  LET n == Len(aqms)
      configs == [k \in 1 .. Len(labels) * n |->
                    labels[(k - 1) \div n + 1] @@ a
                      @@ [aqm |-> aqms[((k - 1) % n) + 1], table |-> table]]
      fetched == [k \in DOMAIN configs |-> Fetch(odd, configs[k])]
  IN [labels |-> labels, configs |-> ToSet(configs), rows |-> FlattenSeq(fetched),
      ok |-> /\ select \subseteq columns
             /\ \A k \in DOMAIN fetched :
                  fetched[k] # << >> /\ \A i \in DOMAIN fetched[k] : fetched[k][i].full]

(* list[i::n]                                                              *)
Every(s, i, n) ==
  [k \in 1 .. (Len(s) - i + n - 1) \div n |-> s[i + (k - 1) * n + 1]]

(* the figure: for each aqm its slice against the x positions, one for     *)
(* each label; matplotlib raises an exception when their numbers differ.   *)
(* "max" and "avg" are what the legend calls qDelayMaxL and qDelayAvgL.    *)
Draw(d, aqmname, max, avg) ==
  LET n == Len(aqmname)
      line(i) == Every(d.rows, i - 1, n)
      ok == \A i \in 1 .. n : Len(line(i)) = Len(d.labels)
  IN [ok |-> ok, max |-> max, avg |-> avg,
      points |-> IF ok THEN {<<aqmname[i], d.labels[j], line(i)[j].of>> :
                               i \in 1 .. n, j \in DOMAIN d.labels}
                 ELSE {}]

Maximum == "Maximum Queue Delay"
Average == "Average Queue Delay"

----------------------------------------------------------------------------
(* one pair of operators for each script                                   *)

ReadFlowconfSq(a) ==
  Read("results", FlowLabels, a, <<"sq-red", "sq-pie">>, CommonColumns \cup RateColumns)
DrawFlowconfSq(d) == Draw(d, <<"RED", "PIE">>, Average, Maximum)

ReadFlowconfSqLte(a) ==
  Read("results_lte", FlowLabels, a, <<"sq-red", "sq-pie">>, CommonColumns \cup RateColumns)
DrawFlowconfSqLte(d) == Draw(d, <<"RED", "PIE">>, Average, Maximum)

ReadFlowconfDq(a) ==
  Read("results", FlowLabels, a, <<"dq-red", "dq-pie">>, CommonColumns \cup RateColumns)
DrawFlowconfDq(d) == Draw(d, <<"RED", "PIE">>, Maximum, Average)

ReadFlowconfDqLte(a) ==
  Read("results_lte", FlowLabels, a, <<"dq-red", "dq-pie">>,
       CommonColumns \cup RateColumns \cup ClassicDelays)
DrawFlowconfDqLte(d) == Draw(d, <<"RED", "PIE">>, Maximum, Average)

ReadFlowconfDqSca(a) ==
  Read("results", FlowLabelsSca, a, <<"dq-red-sca", "dq-pie-sca">>, CommonColumns)
DrawFlowconfDqSca(d) == Draw(d, <<"RED", "PIE">>, Maximum, Average)

ReadFlowconfDqScaLte(a) ==
  Read("results_lte", FlowLabelsSca, a, <<"dq-red-sca", "dq-pie-sca">>, CommonColumns)
DrawFlowconfDqScaLte(d) == Draw(d, <<"RED", "PIE">>, Maximum, Average)

ReadFlowconfL4S(a) ==
  Read("results", FlowLabelsSca, a, <<"l4s-cred", "l4s-pi2", "l4s-pie">>, CommonColumns)
DrawFlowconfL4S(d) == Draw(d, <<"CRED", "PI2", "PIE">>, Maximum, Average)

ReadFlowconfL4SLte(a) ==
  Read("results_lte", FlowLabelsSca, a, <<"l4s-pie">>, CommonColumns)
DrawFlowconfL4SLte(d) == Draw(d, <<"PIE">>, Maximum, Average)

ReadTcpconfSq(a) ==
  Read("results", TcpLabels, CcLIsCcC(a), <<"sq-red", "sq-pie">>,
       CommonColumns \cup RateColumns)
DrawTcpconfSq(d) == Draw(d, <<"RED", "PIE">>, Maximum, Average)

ReadTcpconfSqLte(a) ==
  Read("results_lte", TcpLabels, CcLIsCcC(a), <<"sq-red", "sq-pie">>,
       CommonColumns \cup RateColumns)
DrawTcpconfSqLte(d) == Draw(d, <<"RED", "PIE">>, Maximum, Average)

ReadTcpconfDq(a) ==
  Read("results", TcpLabels, CcLIsCcC(a), <<"dq-red", "dq-pie">>,
       CommonColumns \cup RateColumns)
DrawTcpconfDq(d) == Draw(d, <<"RED", "PIE">>, Maximum, Average)

ReadTcpconfDqLte(a) ==
  Read("results_lte", TcpLabels, CcLIsCcC(a), <<"dq-red", "dq-pie">>,
       CommonColumns \cup RateColumns)
DrawTcpconfDqLte(d) == Draw(d, <<"RED", "PIE">>, Maximum, Average)

ReadTcpconfDqSca(a) ==
  Read("results", TcpLabels, a, <<"dq-red-sca", "dq-pie-sca">>, CommonColumns)
DrawTcpconfDqSca(d) == Draw(d, <<"RED", "PIE">>, Maximum, Average)

ReadTcpconfDqScaLte(a) ==
  Read("results_lte", TcpLabels, a, <<"dq-red-sca", "dq-pie-sca">>, CommonColumns)
DrawTcpconfDqScaLte(d) == Draw(d, <<"RED", "PIE">>, Maximum, Average)

ReadTcpconfL4S(a) ==
  Read("results", TcpLabels, a, <<"l4s-cred", "l4s-pi2", "l4s-pie">>, CommonColumns)
DrawTcpconfL4S(d) == Draw(d, <<"CRED", "PI2", "PIE">>, Maximum, Average)

ReadTcpconfL4SLte(a) ==
  Read("results_lte", TcpLabels, a, <<"l4s-pie">>, CommonColumns)
DrawTcpconfL4SLte(d) == Draw(d, <<"PIE">>, Maximum, Average)
----------------------------------------------------------------------------
FlowScripts ==
  {"flowconf-sq", "flowconf-sq-lte", "flowconf-dq", "flowconf-dq-lte",
   "flowconf-dq-sca", "flowconf-dq-sca-lte", "flowconf-l4s", "flowconf-l4s-lte"}
TcpScripts ==
  {"tcpconf-sq", "tcpconf-sq-lte", "tcpconf-dq", "tcpconf-dq-lte",
   "tcpconf-dq-sca", "tcpconf-dq-sca-lte", "tcpconf-l4s", "tcpconf-l4s-lte"}

ReadOf(s, a) ==
  CASE s = "flowconf-sq" -> ReadFlowconfSq(a)
    [] s = "flowconf-sq-lte" -> ReadFlowconfSqLte(a)
    [] s = "flowconf-dq" -> ReadFlowconfDq(a)
    [] s = "flowconf-dq-lte" -> ReadFlowconfDqLte(a)
    [] s = "flowconf-dq-sca" -> ReadFlowconfDqSca(a)
    [] s = "flowconf-dq-sca-lte" -> ReadFlowconfDqScaLte(a)
    [] s = "flowconf-l4s" -> ReadFlowconfL4S(a)
    [] s = "flowconf-l4s-lte" -> ReadFlowconfL4SLte(a)
    [] s = "tcpconf-sq" -> ReadTcpconfSq(a)
    [] s = "tcpconf-sq-lte" -> ReadTcpconfSqLte(a)
    [] s = "tcpconf-dq" -> ReadTcpconfDq(a)
    [] s = "tcpconf-dq-lte" -> ReadTcpconfDqLte(a)
    [] s = "tcpconf-dq-sca" -> ReadTcpconfDqSca(a)
    [] s = "tcpconf-dq-sca-lte" -> ReadTcpconfDqScaLte(a)
    [] s = "tcpconf-l4s" -> ReadTcpconfL4S(a)
    [] s = "tcpconf-l4s-lte" -> ReadTcpconfL4SLte(a)

DrawOf(s, d) ==
  CASE s = "flowconf-sq" -> DrawFlowconfSq(d)
    [] s = "flowconf-sq-lte" -> DrawFlowconfSqLte(d)
    [] s = "flowconf-dq" -> DrawFlowconfDq(d)
    [] s = "flowconf-dq-lte" -> DrawFlowconfDqLte(d)
    [] s = "flowconf-dq-sca" -> DrawFlowconfDqSca(d)
    [] s = "flowconf-dq-sca-lte" -> DrawFlowconfDqScaLte(d)
    [] s = "flowconf-l4s" -> DrawFlowconfL4S(d)
    [] s = "flowconf-l4s-lte" -> DrawFlowconfL4SLte(d)
    [] s = "tcpconf-sq" -> DrawTcpconfSq(d)
    [] s = "tcpconf-sq-lte" -> DrawTcpconfSqLte(d)
    [] s = "tcpconf-dq" -> DrawTcpconfDq(d)
    [] s = "tcpconf-dq-lte" -> DrawTcpconfDqLte(d)
    [] s = "tcpconf-dq-sca" -> DrawTcpconfDqSca(d)
    [] s = "tcpconf-dq-sca-lte" -> DrawTcpconfDqScaLte(d)
    [] s = "tcpconf-l4s" -> DrawTcpconfL4S(d)
    [] s = "tcpconf-l4s-lte" -> DrawTcpconfL4SLte(d)

----------------------------------------------------------------------------
NoData == [ok |-> FALSE]

Init ==
  /\ \/ script \in FlowScripts /\ args \in FlowArgs
     \/ script \in TcpScripts /\ args \in TcpArgs
  /\ odd = << >> /\ columns = {}
  /\ phase = "start" /\ data = NoData /\ figure = NoData

(* The database the script finds: the one of the repository, or a user's   *)
(* whose table has all columns, where up to two of the configurations that *)
(* the script asks for are odd.                                            *)
FindDatabase ==
  /\ phase = "start" /\ phase' = "reading"
  /\ \/ columns' = ShippedColumns /\ odd' = << >>
     \/ /\ columns' = ShippedColumns \cup EmptyColumns
        /\ LET cs == ReadOf(script, args).configs
           IN \/ odd' = << >>
              \/ \E c \in cs, k \in OddKind : odd' = c :> k
              \/ \E c, d \in cs : c # d /\ odd' = c :> "missing" @@ d :> "twice"
  /\ UNCHANGED <<script, args, data, figure>>

ReadRows ==
  /\ phase = "reading"
  /\ data' = ReadOf(script, args)
  /\ phase' = IF data'.ok THEN "drawing" ELSE "crashed"
  /\ UNCHANGED <<script, args, columns, odd, figure>>

DrawFigure ==
  /\ phase = "drawing"
  /\ figure' = DrawOf(script, data)
  /\ phase' = IF figure'.ok THEN "saved" ELSE "crashed"
  /\ UNCHANGED <<script, args, columns, odd, data>>

Next == FindDatabase \/ ReadRows \/ DrawFigure

----------------------------------------------------------------------------
(* what the title of a script's figure and the name of a line promise      *)
Family(s) ==
  CASE s \in {"flowconf-sq", "flowconf-sq-lte", "tcpconf-sq", "tcpconf-sq-lte"} ->
         [RED |-> "sq-red", PIE |-> "sq-pie"]
    [] s \in {"flowconf-dq", "flowconf-dq-lte", "tcpconf-dq", "tcpconf-dq-lte"} ->
         [RED |-> "dq-red", PIE |-> "dq-pie"]
    [] s \in {"flowconf-dq-sca", "flowconf-dq-sca-lte", "tcpconf-dq-sca",
              "tcpconf-dq-sca-lte"} ->
         [RED |-> "dq-red-sca", PIE |-> "dq-pie-sca"]
    [] OTHER -> [CRED |-> "l4s-cred", PI2 |-> "l4s-pi2", PIE |-> "l4s-pie"]

(* titles without scalable congestion control do not name ccL              *)
Titled(s, a) ==
  IF s \in {"tcpconf-sq", "tcpconf-sq-lte", "tcpconf-dq", "tcpconf-dq-lte"}
  THEN CcLIsCcC(a) ELSE a

(* A figure that is saved is honest: each of its points is the measurement *)
(* of exactly the configuration that the line, the x label and the title   *)
(* say, and no configuration is left out; whatever rows are missing from   *)
(* the table, incomplete, or there twice (parse-mysql.py inserts a row     *)
(* each time it is run).  The scripts keep no index: only the exceptions   *)
(* stand between a shifted list and a wrong figure.                        *)
PlotHonest ==
  phase = "saved" =>
    /\ \A p \in figure.points :
         /\ p[3].aqm = Family(script)[p[1]]
         /\ \A k \in DOMAIN p[2] : p[3][k] = p[2][k]
         /\ \A k \in DOMAIN args : p[3][k] = Titled(script, args)[k]
    /\ {p[3] : p \in figure.points} = data.configs

(* The lines that draw qDelayMaxL and qDelayAvgL are labelled as what they *)
(* are, as in plot-per-flowconf-dq.py:154.                                 *)
LegendsTrue == phase = "saved" => figure.max = Maximum /\ figure.avg = Average

(* README-plotting: l4s.sql "Contains SQL database with results and        *)
(* results_lte from my simulations", which the scripts plot.               *)
DumpPlots == columns = ShippedColumns => phase # "crashed"
=============================================================================
