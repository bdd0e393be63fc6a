------------------------------ MODULE Parsing ------------------------------
(***************************************************************************)
(* parsing/*.py: after a simulation, parse-qDelay, parse-throughput,       *)
(* parse-cwnd and parse-actions, run in this order, write the file         *)
(* "averages" in the simulation's folder, and parse-mysql reads it, line   *)
(* by line and without looking at headers, into a row of the table.  A     *)
(* script that fails does not stop the next one from being run.            *)
(***************************************************************************)
EXTENDS Naturals, Sequences

CONSTANTS
  MaxSims,    \* simulations of one configuration (bound)
  MaxLines,   \* lines of "averages" (bound)
  MaxRows,    \* rows of the tables (bound)
  Traces      \* trace files: which of the phases they have samples in

Phase == {"before", "within", "after"}   \* 30 s, and until and from 90 s

ASSUME TracesAssumption == Traces \subseteq SUBSET Phase

VARIABLES
  sim,        \* the latest simulation: its number and its traces
  turn,       \* the place of the script that is run next
  averages,   \* the lines of the file
  cleared,    \* the simulation that last truncated the file (history)
  results,    \* the rows inserted, table by table
  lte         \* BOOLEAN, the simulation is one over LTE
parseVars == <<sim, turn, averages, cleared, results, lte>>

Scripts == <<"qDelay", "throughput", "cwnd", "actions", "mysql">>

----------------------------------------------------------------------------
(* The slice a script averages over: from the first sample at or after   *)
(* 30 s to the first at or after 90 s, but from the start where there is   *)
(* no sample at or after 30 s.                                             *)
QDelayWindow(trace) ==
  IF trace \cap {"within", "after"} = {} THEN trace ELSE trace \cap {"within"}
ThroughputWindow(trace) ==
  IF trace \cap {"within", "after"} = {} THEN trace ELSE trace \cap {"within"}

(* a line: what it reports, of which simulation, and its fields, "f" for   *)
(* a number with a point and "i" for one without                           *)
Line(kind, fields) == [kind |-> kind, sim |-> sim.no, fields |-> fields]
Header(kind) == Line(kind, << >>)

QDelaySection ==
  <<Header("qDelay"), Line("qDelayL", <<"f", "f", "i", "i">>),
    Line("qDelayC", <<"f", "f", "i", "i">>)>>
ThroughputSection ==
  <<Header("throughput"), Line("throughput", <<"f", "f", "f">>)>>
HeadlessActions ==   \* mutant: without the header line
  <<Line("actionsL", <<"i", "i", "i", "i">>), Line("actionsC", <<"i", "i", "i", "i">>)>>
ActionsSection ==
  <<Header("actions"), Line("actionsL", <<"i", "i", "i", "i">>),
    Line("actionsC", <<"i", "i", "i", "i">>)>>

----------------------------------------------------------------------------
AppendQDelay ==   \* mutant: opened with 'a'
  IF QDelayWindow(sim.L4S) = {} \/ QDelayWindow(sim.Classic) = {}
  THEN UNCHANGED <<averages, cleared>>
  ELSE averages' = averages \o QDelaySection /\ cleared' = sim.no

(* max([]) and the division by len([]) fail before the file is opened, and *)
(* opened it is with 'w'                                                   *)
ParseQDelay ==
  IF QDelayWindow(sim.L4S) = {} \/ QDelayWindow(sim.Classic) = {}
  THEN UNCHANGED <<averages, cleared>>
  ELSE averages' = QDelaySection /\ cleared' = sim.no

(* the same division; opened with 'a'                                      *)
ParseThroughput ==
  /\ averages' = IF ThroughputWindow(sim.throughput) = {} THEN averages
                 ELSE averages \o ThroughputSection
  /\ UNCHANGED cleared

(* only draws                                                              *)
ParseCwnd == UNCHANGED <<averages, cleared>>

(* count() of an empty slice is 0; opened with 'a'                         *)
ParseActions ==
  averages' = averages \o ActionsSection /\ UNCHANGED cleared

(* float() takes any number, int() none with a point; a field that is not  *)
(* there, as in a header, is an IndexError                                 *)
Reads(line, fields) ==
  /\ Len(line.fields) >= Len(fields)
  /\ \A k \in DOMAIN fields : fields[k] = "i" => line.fields[k] = "i"

(* the lines parse-mysql reads numbers from, 1, 4 and 6 being skipped      *)
Readable ==
  /\ Len(averages) >= 8
  /\ \A k \in {2, 3} : Reads(averages[k], <<"f", "f", "i", "i">>)
  /\ Reads(averages[5], <<"f", "f", "f">>)
  /\ \A k \in {7, 8} : Reads(averages[k], <<"i", "i", "i", "i">>)
Row ==
  [qDelayL |-> averages[2], qDelayC |-> averages[3], throughput |-> averages[5],
   actionsL |-> averages[7], actionsC |-> averages[8]]

(* INSERT INTO results or results_lte; the tables have no key              *)
ParseMysql ==
  ~lte /\ results' = [results EXCEPT !.results = IF Readable THEN Append(@, Row) ELSE @]
ParseMysqlLte ==
  lte /\ results' = [results EXCEPT !.results_lte = IF Readable THEN Append(@, Row) ELSE @]

----------------------------------------------------------------------------
Simulations(n) ==
  [no : {n}, L4S : Traces, Classic : Traces, throughput : Traces]

Init ==
  /\ sim \in Simulations(1) /\ lte \in BOOLEAN
  /\ turn = 1 /\ averages = << >> /\ cleared = 0
  /\ results = [results |-> << >>, results_lte |-> << >>]

(* the scripts in the order README-parsing gives                           *)
RunScript ==
  /\ turn <= Len(Scripts) /\ turn' = turn + 1
  /\ Scripts[turn] = "mysql" \/ Len(averages) < MaxLines
  /\ CASE Scripts[turn] = "qDelay" -> ParseQDelay /\ UNCHANGED results
       [] Scripts[turn] = "throughput" -> ParseThroughput /\ UNCHANGED results
       [] Scripts[turn] = "cwnd" -> ParseCwnd /\ UNCHANGED results
       [] Scripts[turn] = "actions" -> ParseActions /\ UNCHANGED results
       [] Scripts[turn] = "mysql" ->
            /\ Len(results.results) + Len(results.results_lte) < MaxRows
            /\ (ParseMysql \/ ParseMysqlLte) /\ UNCHANGED <<averages, cleared>>
  /\ UNCHANGED <<sim, lte>>

(* the user starts over with the first script, at any point                *)
StartOver ==
  turn > 1 /\ turn' = 1 /\ UNCHANGED <<sim, averages, cleared, results, lte>>

(* the same configuration is simulated again; the folder stays             *)
SimulateAgain ==
  /\ sim.no < MaxSims
  /\ sim' \in Simulations(sim.no + 1) /\ turn' = 1
  /\ UNCHANGED <<averages, cleared, results, lte>>

Next == RunScript \/ StartOver \/ SimulateAgain
Spec == Init /\ [][Next]_parseVars

----------------------------------------------------------------------------
Kinds == {"qDelayL", "qDelayC", "throughput", "actionsL", "actionsC"}

(* parse-mysql reads by position and never looks at a header.  Once the    *)
(* file starts with the section of parse-qDelay, whatever follows, a row   *)
(* that gets into a table has each measurement in its own columns: a       *)
(* section that is missing or there twice is a line of the wrong shape at  *)
(* one of the positions.                                                   *)
RowsAlignedStep ==
  (results' # results /\ averages[1].kind = "qDelay") =>
    \A k \in Kinds : Row[k].kind = k
RowsAligned == [][RowsAlignedStep]_parseVars

(* When parse-qDelay has succeeded for the latest simulation, a row that   *)
(* is then inserted is made of that simulation alone: nothing an earlier   *)
(* one left in the file gets into it, though the scripts after it only     *)
(* append and any of them may fail.                                        *)
FreshRowsStep ==
  (results' # results /\ cleared = sim.no) => \A k \in Kinds : Row[k].sim = sim.no
FreshRows == [][FreshRowsStep]_parseVars
=============================================================================
