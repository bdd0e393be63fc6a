--------------------------- MODULE Parsing_proofs ---------------------------
(***************************************************************************)
(* Theorems about the file "averages", for any traces, number of           *)
(* simulations and order in which the user starts the scripts over: what   *)
(* parse-mysql puts into the database is in its columns and of one         *)
(* simulation.                                                             *)
(***************************************************************************)
EXTENDS Parsing, SequenceTheorems, TLAPS

LineKinds == Kinds \cup {"qDelay", "throughput", "actions"}
Lines == [kind : LineKinds, sim : Nat, fields : Seq({"i", "f"})]

(* a section that starts at line k of the file                             *)
ThroughputAt(k, file) ==
  /\ Len(file) >= k + 1 /\ file[k + 1].kind = "throughput"
  /\ file[k].fields = << >> /\ file[k + 1].fields = <<"f", "f", "f">>
ActionsAt(k, file) ==
  /\ Len(file) >= k + 2 /\ file[k + 1].kind = "actionsL" /\ file[k + 2].kind = "actionsC"
  /\ file[k].fields = << >>

(* What is in the first lines of a file that parse-qDelay has begun.  Each *)
(* other script appends a section, so that there is no line that is not of *)
(* one.                                                                    *)
Shape(file) ==
  file # << >> /\ file[1].kind = "qDelay" =>
    /\ Len(file) >= 3 /\ file[2].kind = "qDelayL" /\ file[3].kind = "qDelayC"
    /\ Len(file) > 3 =>
         \/ ThroughputAt(4, file) /\ (Len(file) > 5 => ThroughputAt(6, file) \/ ActionsAt(6, file))
         \/ ActionsAt(4, file) /\ (Len(file) > 6 => file[7].fields = << >>)

ParseInv ==
  /\ turn \in Nat \ {0} /\ sim.no \in Nat /\ cleared \in Nat /\ cleared <= sim.no
  /\ \E a, b : results = [results |-> a, results_lte |-> b]
  /\ averages \in Seq(Lines) /\ Shape(averages)
  /\ cleared = sim.no => \A k \in 1 .. Len(averages) : averages[k].sim = sim.no

----------------------------------------------------------------------------
LEMMA LineIs ==
  ASSUME sim.no \in Nat, NEW kind \in LineKinds, NEW fields \in Seq({"i", "f"})
  PROVE  /\ Line(kind, fields) \in Lines /\ Line(kind, fields).sim = sim.no
         /\ Line(kind, fields).kind = kind /\ Line(kind, fields).fields = fields
BY DEF Line, Lines

LEMMA SectionsAre ==
  ASSUME sim.no \in Nat
  PROVE  /\ \A section \in {QDelaySection, ThroughputSection, ActionsSection} :
              section \in Seq(Lines) /\ \A k \in 1 .. Len(section) : section[k].sim = sim.no
         /\ Len(ThroughputSection) = 2 /\ Len(ActionsSection) = 3
         /\ ThroughputSection[1].kind # "qDelay" /\ ThroughputAt(1, ThroughputSection)
         /\ ActionsSection[1].kind # "qDelay" /\ ActionsAt(1, ActionsSection)
         /\ Shape(QDelaySection)
<1>2. /\ << >> \in Seq({"i", "f"}) /\ <<"f", "f", "f">> \in Seq({"i", "f"})
      /\ <<"f", "f", "i", "i">> \in Seq({"i", "f"}) /\ <<"i", "i", "i", "i">> \in Seq({"i", "f"})
  OBVIOUS
<1>3. /\ QDelaySection \in Seq(Lines) /\ \A k \in 1 .. Len(QDelaySection) : QDelaySection[k].sim = sim.no
      /\ Shape(QDelaySection)
  <2> DEFINE a == Line("qDelay", << >>)
             b == Line("qDelayL", <<"f", "f", "i", "i">>)
             c == Line("qDelayC", <<"f", "f", "i", "i">>)
  <2>1. a \in Lines /\ a.sim = sim.no
    BY <1>2, LineIs DEF LineKinds, Kinds
  <2>2. b \in Lines /\ b.sim = sim.no /\ b.kind = "qDelayL"
    BY <1>2, LineIs DEF LineKinds, Kinds
  <2>3. c \in Lines /\ c.sim = sim.no /\ c.kind = "qDelayC"
    BY <1>2, LineIs DEF LineKinds, Kinds
  <2>4. QDelaySection = <<a, b, c>>
    BY DEF QDelaySection, Header
  <2> HIDE DEF a, b, c
  <2> QED
    BY <2>1, <2>2, <2>3, <2>4 DEF Shape
<1>4. /\ ThroughputSection \in Seq(Lines)
      /\ \A k \in 1 .. Len(ThroughputSection) : ThroughputSection[k].sim = sim.no
      /\ Len(ThroughputSection) = 2
      /\ ThroughputSection[1].kind # "qDelay" /\ ThroughputAt(1, ThroughputSection)
  <2> DEFINE a == Line("throughput", << >>)
             b == Line("throughput", <<"f", "f", "f">>)
  <2>1. a \in Lines /\ a.sim = sim.no /\ a.kind = "throughput" /\ a.fields = << >>
    BY <1>2, LineIs DEF LineKinds, Kinds
  <2>2. b \in Lines /\ b.sim = sim.no /\ b.kind = "throughput" /\ b.fields = <<"f", "f", "f">>
    BY <1>2, LineIs DEF LineKinds, Kinds
  <2>3. ThroughputSection = <<a, b>>
    BY DEF ThroughputSection, Header
  <2> HIDE DEF a, b
  <2> QED
    BY <2>1, <2>2, <2>3 DEF ThroughputAt
<1>5. /\ ActionsSection \in Seq(Lines)
      /\ \A k \in 1 .. Len(ActionsSection) : ActionsSection[k].sim = sim.no
      /\ Len(ActionsSection) = 3
      /\ ActionsSection[1].kind # "qDelay" /\ ActionsAt(1, ActionsSection)
  <2> DEFINE a == Line("actions", << >>)
             b == Line("actionsL", <<"i", "i", "i", "i">>)
             c == Line("actionsC", <<"i", "i", "i", "i">>)
  <2>1. a \in Lines /\ a.sim = sim.no /\ a.kind = "actions" /\ a.fields = << >>
    BY <1>2, LineIs DEF LineKinds, Kinds
  <2>2. b \in Lines /\ b.sim = sim.no /\ b.kind = "actionsL"
    BY <1>2, LineIs DEF LineKinds, Kinds
  <2>3. c \in Lines /\ c.sim = sim.no /\ c.kind = "actionsC"
    BY <1>2, LineIs DEF LineKinds, Kinds
  <2>4. ActionsSection = <<a, b, c>>
    BY DEF ActionsSection, Header
  <2> HIDE DEF a, b, c
  <2> QED
    BY <2>1, <2>2, <2>3, <2>4 DEF ActionsAt
<1> QED
  BY <1>3, <1>4, <1>5

(* A section appended is the next one there is.                            *)
LEMMA AppendedShape ==
  ASSUME NEW file \in Seq(Lines), Shape(file), NEW section \in Seq(Lines),
         section[1].kind # "qDelay",
         \/ Len(section) = 2 /\ ThroughputAt(1, section)
         \/ Len(section) = 3 /\ ActionsAt(1, section)
  PROVE  Shape(file \o section)
<1> DEFINE n == Len(file)
           m == Len(section)
           new == file \o section
<1>1. n \in Nat /\ m \in {2, 3} /\ (file # << >> => n # 0) /\ (file = << >> => n = 0)
  BY EmptySeq
<1>2. Len(new) = n + m /\ \A k \in 1 .. n + m : new[k] = IF k <= n THEN file[k] ELSE section[k - n]
  BY ConcatProperties
<1>3. new[n + 1] = section[1] /\ new[n + 2] = section[2] /\ (m = 3 => new[n + 3] = section[3])
  BY <1>1, <1>2
<1>4. (m = 2 /\ ThroughputAt(n + 1, new)) \/ (m = 3 /\ ActionsAt(n + 1, new))
  <2> HIDE DEF n, new
  <2>1. CASE m = 2 /\ ThroughputAt(1, section)
    <3>1. n + 1 + 1 = n + 2 /\ 1 + 1 = 2
      BY <1>1
    <3>2. ThroughputAt(n + 1, new)
      BY <1>1, <1>2, <1>3, <2>1, <3>1 DEF ThroughputAt
    <3> QED
      BY <2>1, <3>2
  <2>2. CASE m = 3 /\ ActionsAt(1, section)
    <3>1. n + 1 + 1 = n + 2 /\ n + 1 + 2 = n + 3 /\ 1 + 1 = 2 /\ 1 + 2 = 3
      BY <1>1
    <3>2. ActionsAt(n + 1, new)
      BY <1>1, <1>2, <1>3, <2>2, <3>1 DEF ActionsAt
    <3> QED
      BY <2>2, <3>2
  <2> QED
    BY <2>1, <2>2
<1>5. \A k \in 1 .. n : new[k] = file[k]
  BY <1>1, <1>2
<1>6. new[n + 1].fields = << >>
  BY <1>4 DEF ThroughputAt, ActionsAt
<1>7. CASE file = << >>
  BY <1>1, <1>3, <1>7 DEF Shape
<1>8. CASE file # << >>
  <2> HIDE DEF n, m, new
  <2> SUFFICES ASSUME new[1].kind = "qDelay"
               PROVE  /\ Len(new) >= 3 /\ new[2].kind = "qDelayL" /\ new[3].kind = "qDelayC"
                      /\ \/ /\ ThroughputAt(4, new)
                            /\ Len(new) > 5 => ThroughputAt(6, new) \/ ActionsAt(6, new)
                         \/ ActionsAt(4, new) /\ (Len(new) > 6 => new[7].fields = << >>)
    BY DEF Shape, new
  <2>1. file[1].kind = "qDelay"
    BY <1>1, <1>5, <1>8
  <2>2. n >= 3 /\ file[2].kind = "qDelayL" /\ file[3].kind = "qDelayC"
    BY <1>8, <2>1 DEF Shape, n
  <2>3. Len(new) >= 3 /\ new[2].kind = "qDelayL" /\ new[3].kind = "qDelayC"
    BY <1>1, <1>2, <1>5, <2>2
  <2>4. CASE n = 3
    BY <1>1, <1>2, <1>4, <2>3, <2>4
  <2>5. CASE n > 3 /\ ThroughputAt(4, file)
    <3>1. n >= 5 /\ ThroughputAt(4, new)
      BY <1>1, <1>2, <1>5, <2>5 DEF ThroughputAt, n
    <3>2. CASE n = 5
      BY <1>4, <2>3, <3>1, <3>2
    <3>3. CASE n > 5
      <4>1. ThroughputAt(6, file) \/ ActionsAt(6, file)
        BY <1>8, <2>1, <2>5, <3>3 DEF Shape, n, ThroughputAt, ActionsAt
      <4>2. ThroughputAt(6, new) \/ ActionsAt(6, new)
        BY <1>1, <1>2, <1>5, <4>1 DEF ThroughputAt, ActionsAt, n
      <4> QED
        BY <2>3, <3>1, <4>2
    <3> QED
      BY <1>1, <3>1, <3>2, <3>3
  <2>6. CASE n > 3 /\ ~ThroughputAt(4, file)
    <3>1. n >= 6 /\ ActionsAt(4, file) /\ (n > 6 => file[7].fields = << >>)
      BY <1>8, <2>1, <2>6 DEF Shape, n, ActionsAt
    <3>2. ActionsAt(4, new)
      BY <1>1, <1>2, <1>5, <3>1 DEF ActionsAt
    <3>3. new[7].fields = << >>
      BY <1>1, <1>5, <1>6, <3>1
    <3> QED
      BY <2>3, <3>2, <3>3
  <2> QED
    BY <1>1, <2>2, <2>4, <2>5, <2>6
<1> QED
  BY <1>7, <1>8

LEMMA AppendedInv ==
  ASSUME ParseInv, NEW section \in {ThroughputSection, ActionsSection}
  PROVE  LET file == averages \o section
         IN /\ file \in Seq(Lines) /\ Shape(file)
            /\ cleared = sim.no => \A k \in 1 .. Len(file) : file[k].sim = sim.no
<1>1. averages \in Seq(Lines) /\ section \in Seq(Lines) /\ Shape(averages)
      /\ \A k \in 1 .. Len(section) : section[k].sim = sim.no
  BY SectionsAre DEF ParseInv
<1>2. Shape(averages \o section)
  BY <1>1, AppendedShape, SectionsAre DEF ParseInv
<1>3. /\ averages \o section \in Seq(Lines)
      /\ Len(averages \o section) = Len(averages) + Len(section)
      /\ \A k \in 1 .. Len(averages) + Len(section) :
           (averages \o section)[k] =
             IF k <= Len(averages) THEN averages[k] ELSE section[k - Len(averages)]
  BY <1>1, ConcatProperties
<1>4. cleared = sim.no => \A k \in 1 .. Len(averages) : averages[k].sim = sim.no
  BY DEF ParseInv
<1> QED
  BY <1>1, <1>2, <1>3, <1>4

LEMMA ParseInitOK == Init => ParseInv
<1> SUFFICES ASSUME Init PROVE ParseInv
  OBVIOUS
<1>1. turn = 1 /\ sim.no = 1 /\ averages = << >> /\ cleared = 0
      /\ results = [results |-> << >>, results_lte |-> << >>]
  BY DEF Init, Simulations
<1>2. << >> \in Seq(Lines)
  OBVIOUS
<1>3. Shape(<< >>)
  BY DEF Shape
<1>4. \E a, b : results = [results |-> a, results_lte |-> b]
  BY <1>1
<1>5. \A k \in 1 .. Len(averages) : averages[k].sim = sim.no
  BY <1>1
<1>6. averages \in Seq(Lines) /\ Shape(averages)
  BY <1>1, <1>2, <1>3
<1>7. turn \in Nat \ {0} /\ sim.no \in Nat /\ cleared \in Nat /\ cleared <= sim.no
  BY <1>1
<1> QED
  BY <1>4, <1>5, <1>6, <1>7 DEF ParseInv

LEMMA ParseStepOK == ParseInv /\ [Next]_parseVars => ParseInv'
<1> SUFFICES ASSUME ParseInv, [Next]_parseVars PROVE ParseInv'
  OBVIOUS
<1>1. ASSUME turn' \in Nat \ {0}, UNCHANGED <<sim, averages, cleared>>,
             \E a, b : results' = [results |-> a, results_lte |-> b]
      PROVE  ParseInv'
  BY <1>1 DEF ParseInv, Shape, ThroughputAt, ActionsAt
<1>2. ASSUME turn' \in Nat \ {0}, UNCHANGED <<sim, cleared, results>>,
             \/ averages' = averages \o ThroughputSection
             \/ averages' = averages \o ActionsSection
      PROVE  ParseInv'
  <2>1. PICK section \in {ThroughputSection, ActionsSection} : averages' = averages \o section
    BY <1>2
  <2> DEFINE file == averages \o section
  <2>2. /\ file \in Seq(Lines) /\ Shape(file)
        /\ cleared = sim.no => \A k \in 1 .. Len(file) : file[k].sim = sim.no
    BY AppendedInv
  <2>3. averages' = file
    BY <2>1
  <2> HIDE DEF file
  <2>4. Shape(averages')
    BY <2>2, <2>3
  <2> QED
    BY <1>2, <2>2, <2>3, <2>4 DEF ParseInv
<1>4. /\ \E a, b : results = [results |-> a, results_lte |-> b]
      /\ results' = results => \E a, b : results' = [results |-> a, results_lte |-> b]
  BY DEF ParseInv
<1>3. ASSUME turn' \in Nat \ {0}, UNCHANGED <<sim, results>>,
             averages' = QDelaySection, cleared' = sim.no
      PROVE  ParseInv'
  <2>1. sim.no \in Nat
    BY DEF ParseInv
  <2>2. /\ Shape(averages') /\ averages' \in Seq(Lines)
        /\ \A k \in 1 .. Len(averages') : averages'[k].sim = sim.no
    BY <1>3, <2>1, SectionsAre
  <2>3. sim' = sim /\ cleared' = sim.no /\ cleared' <= sim'.no
    BY <1>3, <2>1
  <2> QED
    BY <1>3, <1>4, <2>1, <2>2, <2>3 DEF ParseInv
<1>5. CASE RunScript
  <2>1. UNCHANGED sim /\ turn' \in Nat \ {0} /\ turn \in 1 .. Len(Scripts)
    BY <1>5 DEF RunScript, ParseInv, Scripts
  <2>2. CASE ParseQDelay /\ UNCHANGED results
    BY <1>1, <1>3, <1>4, <2>1, <2>2 DEF ParseQDelay
  <2>3. CASE ParseThroughput /\ UNCHANGED results
    BY <1>1, <1>2, <1>4, <2>1, <2>3 DEF ParseThroughput
  <2>4. CASE ParseCwnd /\ UNCHANGED results
    BY <1>1, <1>4, <2>1, <2>4 DEF ParseCwnd
  <2>5. CASE ParseActions /\ UNCHANGED results
    BY <1>2, <2>1, <2>5 DEF ParseActions
  <2>6. CASE (ParseMysql \/ ParseMysqlLte) /\ UNCHANGED <<averages, cleared>>
    BY <1>1, <1>4, <2>1, <2>6 DEF ParseMysql, ParseMysqlLte
  <2>7. Scripts[turn] \in {"qDelay", "throughput", "cwnd", "actions", "mysql"}
    BY <2>1 DEF Scripts
  <2>8. CASE Scripts[turn] = "qDelay"
    BY <1>5, <2>2, <2>8 DEF RunScript
  <2>9. CASE Scripts[turn] = "throughput"
    BY <1>5, <2>3, <2>9 DEF RunScript
  <2>10. CASE Scripts[turn] = "cwnd"
    BY <1>5, <2>4, <2>10 DEF RunScript
  <2>11. CASE Scripts[turn] = "actions"
    BY <1>5, <2>5, <2>11 DEF RunScript
  <2>12. CASE Scripts[turn] = "mysql"
    BY <1>5, <2>6, <2>12 DEF RunScript
  <2> QED
    BY <2>7, <2>8, <2>9, <2>10, <2>11, <2>12
<1>6. CASE StartOver
  <2>1. turn' \in Nat \ {0} /\ UNCHANGED <<sim, averages, cleared, results>>
    BY <1>6 DEF StartOver
  <2> QED
    BY <1>1, <1>4, <2>1
<1>7. CASE SimulateAgain
  <2>1. sim'.no = sim.no + 1 /\ turn' = 1 /\ UNCHANGED <<averages, cleared, results>>
    BY <1>7 DEF SimulateAgain, Simulations
  <2>2. sim'.no \in Nat /\ cleared' \in Nat /\ cleared' <= sim'.no /\ cleared' # sim'.no
    BY <2>1 DEF ParseInv
  <2>3. averages' \in Seq(Lines) /\ Shape(averages')
    BY <2>1 DEF ParseInv
  <2>4. turn' \in Nat \ {0} /\ \E a, b : results' = [results |-> a, results_lte |-> b]
    <3>1. results' = results /\ turn' \in Nat \ {0}
      BY <2>1
    <3> QED
      BY <1>4, <3>1
  <2>5. cleared' = sim'.no => \A k \in 1 .. Len(averages') : averages'[k].sim = sim'.no
    BY <2>2
  <2> QED
    BY <2>2, <2>3, <2>4, <2>5 DEF ParseInv
<1>8. CASE UNCHANGED parseVars
  <2>1. turn' \in Nat \ {0}
    BY <1>8 DEF parseVars, ParseInv
  <2> QED
    BY <1>1, <1>4, <1>8, <2>1 DEF parseVars
<1> QED
  BY <1>5, <1>6, <1>7, <1>8 DEF Next

(* When a row is inserted, the file is one parse-mysql can read.           *)
LEMMA InsertedReadable ==
  ASSUME ParseInv, [Next]_parseVars, results' # results
  PROVE  Readable
<1>1. PICK a, b : results = [results |-> a, results_lte |-> b]
  BY DEF ParseInv
<1>2. ParseMysql \/ ParseMysqlLte
  <2>1. RunScript
    BY DEF Next, StartOver, SimulateAgain, parseVars
  <2>2. turn \in 1 .. Len(Scripts)
    BY <2>1 DEF RunScript, ParseInv, Scripts
  <2>3. Scripts[turn] \in {"qDelay", "throughput", "cwnd", "actions", "mysql"}
    BY <2>2 DEF Scripts
  <2>4. Scripts[turn] = "mysql"
    BY <2>1, <2>3 DEF RunScript
  <2> QED
    BY <2>1, <2>4 DEF RunScript
<1>3. ~Readable => results' = results
  BY <1>1, <1>2 DEF ParseMysql, ParseMysqlLte
<1> QED
  BY <1>3

(* A row of the database has each measurement in its own columns.          *)
THEOREM ColumnsRight == Spec => RowsAligned
<1>1. ASSUME ParseInv, [Next]_parseVars, results' # results, averages[1].kind = "qDelay"
      PROVE  \A k \in Kinds : Row[k].kind = k
  <2>1. Readable /\ Len(averages) >= 8
    BY <1>1, InsertedReadable DEF Readable
  <2>2. Len(averages[7].fields) >= 4
    BY <2>1 DEF Readable, Reads
  <2>3. averages # << >> /\ Shape(averages) /\ Len(averages) \in Nat
    BY <1>1, <2>1 DEF ParseInv
  <2>4. /\ averages[2].kind = "qDelayL" /\ averages[3].kind = "qDelayC"
        /\ \/ ThroughputAt(4, averages) /\ (ThroughputAt(6, averages) \/ ActionsAt(6, averages))
           \/ averages[7].fields = << >>
    <3>1. Len(averages) > 3 /\ Len(averages) > 5 /\ Len(averages) > 6
      BY <2>1, <2>3
    <3> QED
      BY <1>1, <2>3, <3>1 DEF Shape
  <2>5. Len(<< >>) = 0 /\ Len(<<"f", "f", "f">>) = 3
    OBVIOUS
  <2>6. ThroughputAt(4, averages) /\ ActionsAt(6, averages)
    <3>1. averages[7].fields # << >> /\ averages[7].fields # <<"f", "f", "f">>
      <4> DEFINE n == Len(averages[7].fields)
      <4>1. n # 0 /\ n # 3
        <5> HIDE DEF n
        <5>1. n >= 4
          BY <2>2 DEF n
        <5> QED
          BY <5>1
      <4>2. /\ averages[7].fields = << >> => n = 0
            /\ averages[7].fields = <<"f", "f", "f">> => n = 3
        BY <2>5, Zenon
      <4> HIDE DEF n
      <4> QED
        BY <4>1, <4>2, Zenon
    <3>2. ~ThroughputAt(6, averages)
      BY <3>1 DEF ThroughputAt
    <3> QED
      BY <2>4, <3>1, <3>2
  <2>7. averages[5].kind = "throughput" /\ averages[7].kind = "actionsL" /\ averages[8].kind = "actionsC"
    BY <2>6 DEF ThroughputAt, ActionsAt
  <2> QED
    BY <2>4, <2>7 DEF Row, Kinds
<1>2. Init => ParseInv
  BY ParseInitOK
<1>3. ParseInv /\ [Next]_parseVars => ParseInv'
  BY ParseStepOK
<1>4. ParseInv /\ [Next]_parseVars => [RowsAlignedStep]_parseVars
  BY <1>1 DEF RowsAlignedStep
<1> QED
  BY <1>2, <1>3, <1>4, PTL DEF Spec, RowsAligned

(* A row of the database is of one simulation.                             *)
THEOREM RowsOfOneSimulation == Spec => FreshRows
<1>1. ASSUME ParseInv, [Next]_parseVars, results' # results, cleared = sim.no
      PROVE  \A k \in Kinds : Row[k].sim = sim.no
  <2>1. Len(averages) >= 8 /\ Len(averages) \in Nat
    <3>1. Readable
      BY <1>1, InsertedReadable
    <3> QED
      BY <1>1, <3>1 DEF Readable, ParseInv
  <2>2. \A k \in 1 .. Len(averages) : averages[k].sim = sim.no
    BY <1>1 DEF ParseInv
  <2>3. \A k \in {2, 3, 5, 7, 8} : averages[k].sim = sim.no
    BY <2>1, <2>2
  <2> QED
    BY <2>3 DEF Row, Kinds
<1>2. Init => ParseInv
  BY ParseInitOK
<1>3. ParseInv /\ [Next]_parseVars => ParseInv'
  BY ParseStepOK
<1>4. ParseInv /\ [Next]_parseVars => [FreshRowsStep]_parseVars
  BY <1>1 DEF FreshRowsStep
<1> QED
  BY <1>2, <1>3, <1>4, PTL DEF Spec, FreshRows
=============================================================================
