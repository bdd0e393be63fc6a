------------------------------ MODULE MCTools ------------------------------
(***************************************************************************)
(* The Python programs, "part" saying which is looked at: the scripts that *)
(* parse a simulation's traces into the database, those that plot one      *)
(* configuration, those that compare two settings of one input, and the    *)
(* description of the Python bindings.                                     *)
(***************************************************************************)
EXTENDS Parsing

VARIABLES
  part,
  script, args, columns, odd, phase, data, diffs, figure,             \* plots
  build, at, known, spaces, ancestors, api, lost, outcome             \* bindings

Conf == INSTANCE PlotConf
Compare == INSTANCE PlotCompare
Bind == INSTANCE Bindings

confOnly == <<args, columns>>
plots == <<script, odd, phase, data, figure>>
bindings == <<build, at, known, spaces, ancestors, api, lost, outcome>>

MCTraces == {{}, {"before", "within", "after"}, {"before", "after"}, {"before"}}

(* what is not looked at stays as it is                                    *)
NoParsing == sim \in Simulations(1) /\ sim.L4S = {} /\ sim.Classic = {}
             /\ sim.throughput = {} /\ lte = FALSE /\ turn = 1 /\ averages = << >>
             /\ cleared = 0 /\ results = [results |-> << >>, results_lte |-> << >>]
NoPlots == script = "none" /\ odd = << >> /\ phase = "none" /\ data = << >> /\ figure = << >>
NoConf == args = << >> /\ columns = {}
NoBindings == build = "none" /\ at = 1 /\ known = {} /\ spaces = {} /\ ancestors = {}
              /\ api = {} /\ lost = {} /\ outcome = "none"

MCInit ==
  \/ part = "parsing" /\ Init /\ NoPlots /\ NoConf /\ diffs = << >> /\ NoBindings
  \/ part = "conf" /\ Conf!Init /\ NoParsing /\ diffs = << >> /\ NoBindings
  \/ part = "compare" /\ Compare!Init /\ NoParsing /\ NoConf /\ NoBindings
  \/ part = "bindings" /\ Bind!Init /\ NoParsing /\ NoPlots /\ NoConf /\ diffs = << >>

MCNext ==
  /\ UNCHANGED part
  /\ \/ /\ part = "parsing" /\ Next
        /\ UNCHANGED <<plots, confOnly, diffs, bindings>>
     \/ /\ part = "conf" /\ Conf!Next
        /\ UNCHANGED <<parseVars, diffs, bindings>>
     \/ /\ part = "compare" /\ Compare!Next
        /\ UNCHANGED <<parseVars, confOnly, bindings>>
     \/ /\ part = "bindings" /\ Bind!Register
        /\ UNCHANGED <<parseVars, plots, confOnly, diffs>>

----------------------------------------------------------------------------
(* PlotConf!PlotHonest: each point of a figure is the measurement of the   *)
(* configuration that line, label and title say.                           *)
PlotHonest == part = "conf" => Conf!PlotHonest

(* PlotCompare!CompareHonest: each point of a comparison is the difference *)
(* between two simulations that differ in the compared input alone, and    *)
(* stands with those of its queue discipline.                              *)
CompareHonest == part = "compare" => Compare!CompareHonest

(* Bindings!EveryLookupFinds: no KeyError ends the generation of the       *)
(* bindings.                                                               *)
EveryLookupFinds == Bind!EveryLookupFinds

(* Bindings!ApiComplete: the error handler silently drops no method but    *)
(* the two iterators, and the queue disciplines can be created.            *)
ApiComplete == part = "bindings" => Bind!ApiComplete
=============================================================================
