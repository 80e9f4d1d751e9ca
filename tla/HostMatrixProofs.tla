-------------------------- MODULE HostMatrixProofs --------------------------
(***************************************************************************)
(* Theorems about HostMatrix, for any hosts, runs, rounds and calls, and   *)
(* any number of faults: what a row and a result file hold, what the       *)
(* verdicts on the tools it took are worth, and what a rescore keeps.      *)
(***************************************************************************)
EXTENDS HostMatrix, TLAPS

(* The types, without the versions' order. *)
Files == {NoFile} \cup [there : {TRUE}, holds : SUBSET Frames]
Captures == {NoFile} \cup [there : {TRUE}, holds : [run : RunIds, body : Bodies]]
Rows == [label : Labels, run : RunIds, body : Bodies \cup {NoOutput}, traced : BOOLEAN,
         calls : Files, graded : Versions]
Results == {NoFile, Torn} \cup [rows : SUBSET Rows]
AllCells == Hosts \X Servers
CellStages == {"ask", "host", "score", "cleanup"}
Stages == CellStages \cup {"round", "dump", "dumping"}
Drivers == [pc : Stages, config : Configs, round : 1..Rounds, todo : SUBSET AllCells,
            cell : AllCells \cup {<< >>}, graded : Versions,
            label : Labels \cup {<< >>}, rows : SUBSET Rows]
Rescorers == [pc : {"dumping"}, config : Configs, was : SUBSET Rows, rows : SUBSET Rows]

DriverTyped ==
  /\ driver \in {Off} \cup Drivers
  /\ driver # Off => runs \in RunIds
  /\ driver.pc \in CellStages =>
       /\ driver.cell \in AllCells
       /\ driver.label = << driver.cell[1], driver.cell[2], driver.round >>
  /\ driver.pc = "score" => capture[driver.label].there
DiskTyped ==
  /\ capture \in [Labels -> Captures] /\ trace \in [Labels -> Files]
  /\ result \in [Configs -> Results]
OthersTyped ==
  /\ truth \in Versions /\ table \in Versions
  /\ registered \in [GlobalHosts -> SUBSET Servers]
  /\ runs \in 0..MaxRuns
  /\ pending \in SUBSET [label : Labels, frame : Frames]
  /\ orphans \in SUBSET [label : Labels, run : RunIds, sees : SUBSET Servers]
HistoryTyped ==
  history \in [asked : [Labels -> 0..MaxRuns],
               made : SUBSET [label : Labels, run : RunIds, call : Frames, table : Versions],
               unremoved : SUBSET Hosts, orphaned : SUBSET Labels]

(* While the old rows are in no file nothing else is running. *)
RescorerTyped ==
  /\ rescorer \in {Off} \cup Rescorers
  /\ rescorer # Off => At("off") /\ result[rescorer.config] = Torn

StateTyped == DriverTyped /\ DiskTyped /\ OthersTyped /\ HistoryTyped
Typed == DriverTyped /\ DiskTyped /\ OthersTyped /\ HistoryTyped /\ RescorerTyped

-----------------------------------------------------------------------------
LEMMA OffFacts ==
  /\ Off.pc = "off" /\ Off \notin Drivers /\ \A d \in Drivers : d.pc # "off" /\ d # Off
  /\ \A d \in Rescorers : d # Off
<1>1. Off.pc = "off" /\ Off \notin Drivers /\ \A d \in Drivers : d.pc # "off" /\ d # Off
  BY DEF Off, Drivers, Stages, CellStages
<1>2. \A d \in Rescorers : d.pc = "dumping"
  BY DEF Rescorers
<1> QED BY <1>1, <1>2 DEF Off

LEMMA AtOff ==
  ASSUME DriverTyped
  PROVE  /\ At("off") <=> driver = Off
         /\ ~At("off") => driver \in Drivers /\ runs \in RunIds
BY OffFacts DEF DriverTyped, At

LEMMA CellsAreCells ==
  ASSUME NEW config \in Configs PROVE Cells(config) \subseteq AllCells
BY MatrixAssumption DEF Cells, AllCells

LEMMA LabelsAreLabels ==
  ASSUME NEW cell \in AllCells, NEW n \in 1..Rounds
  PROVE  << cell[1], cell[2], n >> \in Labels
BY DEF Labels, AllCells

LEMMA LoggedTyped ==
  ASSUME trace \in [Labels -> Files], NEW l \in Labels, NEW frames \in SUBSET Frames
  PROVE  /\ Logged(l, frames) \in [Labels -> Files]
         /\ Logged(l, frames)[l].there
         /\ Logged(l, frames)[l].holds = (IF trace[l].there THEN trace[l].holds ELSE {}) \cup frames
         /\ \A k \in Labels : k # l => Logged(l, frames)[k] = trace[k]
<1> DEFINE held == IF trace[l].there THEN trace[l].holds ELSE {}
<1>1. trace[l] \in Files
  OBVIOUS
<1>2. held \cup frames \in SUBSET Frames
  <2>1. CASE trace[l] = NoFile
    BY <2>1 DEF NoFile
  <2>2. CASE trace[l] \in [there : {TRUE}, holds : SUBSET Frames]
    <3>1. held \in SUBSET Frames
      BY <2>2
    <3> QED BY <3>1
  <2> QED BY <1>1, <2>1, <2>2 DEF Files
<1>3. File(held \cup frames) \in Files
  BY <1>2 DEF Files, File
<1>4. Logged(l, frames) = [trace EXCEPT ![l] = File(held \cup frames)]
  BY DEF Logged
<1>5. File(held \cup frames).there /\ File(held \cup frames).holds = held \cup frames
  BY DEF File
<1> HIDE DEF held
<1>6. Logged(l, frames)[l] = File(held \cup frames)
  BY <1>4
<1> QED BY <1>3, <1>4, <1>5, <1>6 DEF held

LEMMA SeenTyped ==
  ASSUME OthersTyped, NEW h \in Hosts, NEW s \in Servers
  PROVE  Visible(h, s) \in SUBSET Servers
BY DEF OthersTyped, Visible

LEMMA WithoutTyped ==
  ASSUME OthersTyped, NEW h \in Hosts, NEW s \in Servers
  PROVE  /\ Without(h, s) \in [GlobalHosts -> SUBSET Servers]
         /\ \A g \in GlobalHosts : /\ Without(h, s)[g] \subseteq registered[g]
                                   /\ g = h => s \notin Without(h, s)[g]
                                   /\ g # h => Without(h, s)[g] = registered[g]
BY DEF OthersTyped, Without

LEMMA AfterCellTyped ==
  ASSUME driver \in Drivers
  PROVE  AfterCell \in Drivers /\ AfterCell.pc \in {"round", "dump"}
<1>1. Rounds \in Nat /\ driver.round \in 1..Rounds
  BY MatrixAssumption DEF Drivers
<1>2. Cells(driver.config) \in SUBSET AllCells
  BY CellsAreCells DEF Drivers
<1>3. driver.round < Rounds => driver.round + 1 \in 1..Rounds
  BY <1>1
<1> QED BY <1>2, <1>3 DEF AfterCell, Drivers, Stages, CellStages

LEMMA FileKinds ==
  /\ \A x \in Files : x.there \in BOOLEAN /\ (x.there => x.holds \in SUBSET Frames)
  /\ \A x \in Captures : x.there => x.holds \in [run : RunIds, body : Bodies]
<1>1. ASSUME NEW x \in Files PROVE x.there \in BOOLEAN /\ (x.there => x.holds \in SUBSET Frames)
  <2>1. CASE x = NoFile
    BY <2>1 DEF NoFile
  <2>2. CASE x \in [there : {TRUE}, holds : SUBSET Frames]
    BY <2>2
  <2> QED BY <2>1, <2>2 DEF Files
<1>2. ASSUME NEW x \in Captures PROVE x.there => x.holds \in [run : RunIds, body : Bodies]
  <2>1. CASE x = NoFile
    BY <2>1 DEF NoFile
  <2>2. CASE x \in [there : {TRUE}, holds : [run : RunIds, body : Bodies]]
    BY <2>2
  <2> QED BY <2>1, <2>2 DEF Captures
<1> QED BY <1>1, <1>2

LEMMA TypeInit == Init => Typed
<1> SUFFICES ASSUME Init PROVE Typed
  OBVIOUS
<1> USE DEF Init
<1>1. DriverTyped
  <2>1. driver.pc \notin CellStages /\ driver.pc # "score"
    BY DEF Off, CellStages
  <2> QED BY <2>1 DEF DriverTyped
<1>2. DiskTyped
  BY DEF DiskTyped, Files, Captures, Results
<1>3. OthersTyped /\ HistoryTyped
  BY MatrixAssumption DEF OthersTyped, HistoryTyped, Versions
<1> QED BY <1>1, <1>2, <1>3 DEF Typed, RescorerTyped

LEMMA StateStep == Typed /\ [Next]_vars => StateTyped'
<1> SUFFICES ASSUME Typed, [Next]_vars PROVE StateTyped'
  OBVIOUS
<1> USE DEF Typed, StateTyped, world, disk
<1>0. MaxRuns \in Nat /\ Rounds \in Nat \ {0}
  BY MatrixAssumption
<1>off. ~At("off") => driver \in Drivers /\ runs \in RunIds
  BY AtOff
<1>1. ASSUME NEW config \in Configs, StartRun(config) PROVE StateTyped'
  <2>1. driver' \in Drivers /\ driver'.pc = "round"
    <3>1. Cells(config) \in SUBSET AllCells /\ truth \in Versions /\ 1 \in 1..Rounds
      BY <1>0, CellsAreCells DEF OthersTyped
    <3> QED BY <1>1, <3>1 DEF StartRun, Drivers, Stages
  <2>2. runs' \in RunIds
    BY <1>0, <1>1 DEF StartRun, OthersTyped, RunIds
  <2>3. DriverTyped'
    BY <2>1, <2>2 DEF DriverTyped, CellStages
  <2>4. OthersTyped'
    BY <1>1, <2>2 DEF StartRun, OthersTyped, RunIds
  <2> QED BY <1>1, <2>3, <2>4 DEF StartRun, DiskTyped, HistoryTyped
<1>2. ASSUME NEW cell \in AllCells, Prepare(cell) PROVE StateTyped'
  <2>1. driver \in Drivers /\ runs \in RunIds
    BY <1>2, <1>off DEF Prepare, At
  <2>2. << cell[1], cell[2], driver.round >> \in Labels
    BY <2>1, LabelsAreLabels DEF Drivers
  <2>3. driver' \in Drivers
    BY <1>2, <2>1, <2>2 DEF Prepare, PrepareOn, Drivers, Stages, CellStages, OthersTyped
  <2>4. driver'.cell = cell /\ driver'.label = << cell[1], cell[2], driver'.round >>
    BY <1>2, <2>1 DEF Prepare, PrepareOn, Drivers
  <2>5. DriverTyped'
    <3>1. driver'.pc = "ask"
      BY <1>2, <2>1 DEF Prepare, PrepareOn, Drivers
    <3> QED BY <1>2, <2>1, <2>3, <2>4, <3>1 DEF DriverTyped, Prepare
  <2>6. registered' \in [GlobalHosts -> SUBSET Servers]
    BY <1>2 DEF Prepare, PrepareOn, OthersTyped, AllCells
  <2> QED BY <1>2, <2>5, <2>6 DEF Prepare, DiskTyped, OthersTyped, HistoryTyped
<1>3. ASSUME NEW cell \in AllCells, PrepareFails(cell) PROVE StateTyped'
  <2>1. registered' \in [GlobalHosts -> SUBSET Servers]
    BY <1>3, WithoutTyped DEF PrepareFails, AllCells
  <2>2. DriverTyped'
    BY <1>3 DEF PrepareFails, DriverTyped, Off, CellStages
  <2> QED BY <1>3, <2>1, <2>2 DEF PrepareFails, DiskTyped, OthersTyped, HistoryTyped
<1>4. CASE Ask
  <2>1. driver \in Drivers /\ runs \in RunIds /\ driver.pc = "ask"
    BY <1>4, <1>off DEF Ask, At
  <2>2. driver.cell \in AllCells /\ driver.label = << driver.cell[1], driver.cell[2], driver.round >>
    BY <2>1 DEF DriverTyped, CellStages
  <2>3. driver.label \in Labels
    BY <2>1, <2>2, LabelsAreLabels DEF Drivers
  <2>4. driver' = [driver EXCEPT !.pc = "host"]
    BY <1>4 DEF Ask
  <2>5. DriverTyped'
    BY <1>4, <2>1, <2>2, <2>4 DEF Ask, DriverTyped, Drivers, Stages, CellStages
  <2>6. trace' \in [Labels -> Files]
    BY <1>4 DEF Ask, DiskTyped, Files
  <2>7. HistoryTyped'
    BY <1>0, <1>4, <2>1, <2>3 DEF Ask, HistoryTyped, RunIds
  <2> QED BY <1>4, <2>5, <2>6, <2>7 DEF Ask, DiskTyped, OthersTyped
<1>5. ASSUME NEW s \in Servers, NEW t \in Tools, HostCalls(s, t) PROVE StateTyped'
  <2>1. driver \in Drivers /\ runs \in RunIds /\ driver.pc = "host"
    BY <1>5, <1>off DEF HostCalls, At
  <2>2. driver.label \in Labels
    BY <2>1, LabelsAreLabels DEF DriverTyped, CellStages, Drivers
  <2> DEFINE frame == [run |-> runs, server |-> s, tool |-> t]
  <2>3. frame \in Frames
    BY <2>1 DEF Frames
  <2>4. trace' \in [Labels -> Files]
    <3>1. trace' \in {Logged(driver.label, {frame}), Logged(driver.label, {})}
      BY <1>5 DEF HostCalls
    <3> HIDE DEF frame
    <3> QED BY <2>2, <2>3, <3>1, LoggedTyped DEF DiskTyped
  <2>5. pending' \in SUBSET [label : Labels, frame : Frames]
    BY <1>5, <2>2, <2>3 DEF HostCalls, OthersTyped
  <2>6. HistoryTyped'
    <3>1. [label |-> driver.label, run |-> runs, call |-> frame, table |-> table]
            \in [label : Labels, run : RunIds, call : Frames, table : Versions]
      BY <2>1, <2>2, <2>3 DEF OthersTyped
    <3> QED BY <1>5, <3>1 DEF HostCalls, HistoryTyped
  <2> QED BY <1>5, <2>4, <2>5, <2>6 DEF HostCalls, DriverTyped, DiskTyped, OthersTyped
<1>6. ASSUME NEW body \in Bodies, Answers(body) PROVE StateTyped'
  <2>1. driver \in Drivers /\ runs \in RunIds /\ driver.pc = "host"
    BY <1>6, <1>off DEF Answers, At
  <2>2. driver.label \in Labels /\ driver.cell \in AllCells
          /\ driver.label = << driver.cell[1], driver.cell[2], driver.round >>
    BY <2>1, LabelsAreLabels DEF DriverTyped, CellStages, Drivers
  <2>3. trace' \in [Labels -> Files]
    BY <1>6, <2>2, LoggedTyped DEF Answers, DiskTyped
  <2>4. capture' \in [Labels -> Captures]
    BY <1>6, <2>1 DEF Answers, DiskTyped, Captures, File
  <2>5. DriverTyped'
    <3>1. driver' = [driver EXCEPT !.pc = "score"]
      BY <1>6 DEF Answers
    <3>2. driver' \in Drivers /\ driver'.pc = "score"
            /\ driver'.cell = driver.cell /\ driver'.label = driver.label /\ driver'.round = driver.round
      BY <2>1, <3>1 DEF Drivers, Stages, CellStages
    <3>3. capture'[driver.label].there
      BY <1>6, <2>2 DEF Answers, DiskTyped, File
    <3> QED BY <1>6, <2>1, <2>2, <3>2, <3>3 DEF Answers, DriverTyped
  <2> QED BY <1>6, <2>3, <2>4, <2>5 DEF Answers, DiskTyped, OthersTyped, HistoryTyped
<1>7. ASSUME NEW p \in pending, LateWrite(p) PROVE StateTyped'
  <2>1. p \in [label : Labels, frame : Frames]
    BY DEF OthersTyped
  <2>2. trace' \in [Labels -> Files]
    BY <1>7, <2>1, LoggedTyped DEF LateWrite, DiskTyped
  <2> QED BY <1>7, <2>2 DEF LateWrite, DriverTyped, DiskTyped, OthersTyped, HistoryTyped
<1>8. ASSUME NEW o \in orphans, OrphanCalls(o) PROVE StateTyped'
  <2>1. o \in [label : Labels, run : RunIds, sees : SUBSET Servers]
    BY DEF OthersTyped
  <2>2. trace' \in [Labels -> Files]
    <3>1. PICK s \in o.sees, t \in Tools :
            trace' = Logged(o.label, {[run |-> o.run, server |-> s, tool |-> t]})
      BY <1>8 DEF OrphanCalls
    <3>2. {[run |-> o.run, server |-> s, tool |-> t]} \in SUBSET Frames
      BY <2>1 DEF Frames
    <3> QED BY <2>1, <3>1, <3>2, LoggedTyped DEF DiskTyped
  <2> QED BY <1>8, <2>2 DEF OrphanCalls, DriverTyped, DiskTyped, OthersTyped, HistoryTyped
<1>9. CASE Score
  <2>1. driver \in Drivers /\ runs \in RunIds /\ driver.pc = "score"
    BY <1>9, <1>off DEF Score, At
  <2>2. driver.label \in Labels /\ driver.cell \in AllCells
          /\ driver.label = << driver.cell[1], driver.cell[2], driver.round >>
    BY <2>1, LabelsAreLabels DEF DriverTyped, CellStages, Drivers
  <2>3. capture[driver.label].holds.body \in Bodies
    <3>1. capture[driver.label].there /\ capture[driver.label] \in Captures
      BY <2>1, <2>2 DEF DriverTyped, DiskTyped
    <3>2. capture[driver.label].holds \in [run : RunIds, body : Bodies]
      BY <3>1, FileKinds
    <3> QED BY <3>2
  <2>4. trace[driver.label] \in Files /\ trace[driver.label].there \in BOOLEAN
    BY <2>2, FileKinds DEF DiskTyped
  <2> DEFINE row == Row(driver.label, runs, capture[driver.label].holds.body,
                        trace[driver.label].there, trace[driver.label], driver.graded)
  <2>5. row \in Rows
    BY <2>1, <2>2, <2>3, <2>4 DEF Row, Rows, Drivers
  <2>6. driver' = [driver EXCEPT !.pc = "cleanup", !.rows = @ \cup {row}]
    BY <1>9 DEF Score
  <2> HIDE DEF row
  <2>7. driver' \in Drivers /\ driver'.pc = "cleanup"
          /\ driver'.cell = driver.cell /\ driver'.label = driver.label /\ driver'.round = driver.round
    BY <2>1, <2>5, <2>6 DEF Drivers, Stages, CellStages
  <2>8. DriverTyped'
    BY <1>9, <2>1, <2>2, <2>7 DEF Score, DriverTyped
  <2> QED BY <1>9, <2>8 DEF Score, DiskTyped, OthersTyped, HistoryTyped
<1>10. CASE Cleanup
  <2>1. driver \in Drivers /\ runs \in RunIds /\ driver.pc = "cleanup"
    BY <1>10, <1>off DEF Cleanup, At
  <2>2. driver.cell \in AllCells
    BY <2>1 DEF DriverTyped, CellStages
  <2>3. DriverTyped'
    BY <1>10, <2>1, AfterCellTyped DEF Cleanup, DriverTyped, CellStages
  <2>4. registered' \in [GlobalHosts -> SUBSET Servers]
    BY <1>10, <2>2, WithoutTyped DEF Cleanup, AllCells, OthersTyped
  <2>5. HistoryTyped'
    BY <1>10, <2>2 DEF Cleanup, HistoryTyped, AllCells
  <2> QED BY <1>10, <2>3, <2>4, <2>5 DEF Cleanup, DiskTyped, OthersTyped
<1>11. CASE OpenResult
  <2>1. driver \in Drivers /\ runs \in RunIds /\ driver.pc = "dump"
    BY <1>11, <1>off DEF OpenResult, At
  <2>2. DriverTyped'
    BY <1>11, <2>1 DEF OpenResult, DriverTyped, Drivers, Stages, CellStages
  <2>3. result' \in [Configs -> Results]
    BY <1>11, <2>1 DEF OpenResult, DiskTyped, Results, Drivers
  <2> QED BY <1>11, <2>2, <2>3 DEF OpenResult, DiskTyped, OthersTyped, HistoryTyped
<1>12. CASE DumpResult
  <2>1. driver \in Drivers /\ runs \in RunIds /\ driver.pc = "dumping"
    BY <1>12, <1>off DEF DumpResult, At
  <2>2. DriverTyped'
    BY <1>12 DEF DumpResult, DriverTyped, Off, CellStages
  <2>3. result' \in [Configs -> Results]
    <3>1. [rows |-> driver.rows] \in Results
      BY <2>1 DEF Results, Drivers
    <3> QED BY <1>12, <2>1, <3>1 DEF DumpResult, DiskTyped
  <2> QED BY <1>12, <2>2, <2>3 DEF DumpResult, DiskTyped, OthersTyped, HistoryTyped
<1>13. CASE Interrupt
  <2>1. driver.cell \in AllCells
    BY <1>13 DEF Interrupt, DriverTyped, CellStages
  <2>2. registered' \in [GlobalHosts -> SUBSET Servers]
    BY <1>13, <2>1, WithoutTyped DEF Interrupt, AllCells, OthersTyped
  <2>3. HistoryTyped'
    BY <1>13, <2>1 DEF Interrupt, HistoryTyped, AllCells
  <2>4. DriverTyped'
    BY <1>13 DEF Interrupt, DriverTyped, Off, CellStages
  <2> QED BY <1>13, <2>2, <2>3, <2>4 DEF Interrupt, DiskTyped, OthersTyped
<1>14. CASE Kill
  <2>1. driver \in Drivers /\ runs \in RunIds
    BY <1>14, <1>off DEF Kill
  <2>2. driver.pc \in CellStages => driver.cell \in AllCells /\ driver.label \in Labels
    BY <2>1, LabelsAreLabels DEF DriverTyped, Drivers
  <2>3. HistoryTyped'
    <3> DEFINE cut == IF driver.pc \in {"ask", "host", "score", "cleanup"} THEN {driver.cell[1]} ELSE {}
               left == IF At("host") THEN {driver.label} ELSE {}
    <3>1. cut \in SUBSET Hosts /\ left \in SUBSET Labels
      BY <2>2 DEF CellStages, AllCells, At
    <3>2. history' = [history EXCEPT !.unremoved = @ \cup cut, !.orphaned = @ \cup left]
      BY <1>14 DEF Kill
    <3> HIDE DEF cut, left
    <3> QED BY <3>1, <3>2 DEF HistoryTyped
  <2>4. orphans' \in SUBSET [label : Labels, run : RunIds, sees : SUBSET Servers]
    <3>1. CASE ~At("host")
      BY <1>14, <3>1 DEF Kill, OthersTyped
    <3>2. CASE At("host")
      <4>1. Visible(driver.label[1], driver.label[2]) \in SUBSET Servers /\ driver.label \in Labels
        BY <2>2, <3>2, SeenTyped DEF At, CellStages, Labels
      <4> QED BY <1>14, <2>1, <3>2, <4>1 DEF Kill, OthersTyped
    <3> QED BY <3>1, <3>2
  <2>5. DriverTyped'
    BY <1>14 DEF Kill, DriverTyped, Off, CellStages
  <2> QED BY <1>14, <2>3, <2>4, <2>5 DEF Kill, DiskTyped, OthersTyped
<1>15. CASE MoveTable
  BY <1>15 DEF MoveTable, DriverTyped, DiskTyped, OthersTyped, HistoryTyped
<1>16. CASE CaptureTruth
  BY <1>16 DEF CaptureTruth, DriverTyped, DiskTyped, OthersTyped, HistoryTyped
<1>17. ASSUME NEW config \in Configs, Rescore(config) PROVE StateTyped'
  <2>1. result' \in [Configs -> Results]
    BY <1>17 DEF Rescore, DiskTyped, Results
  <2> QED BY <1>17, <2>1 DEF Rescore, DriverTyped, DiskTyped, OthersTyped, HistoryTyped
<1>20. CASE DumpRescored \/ KillRescore
  <2>1. result' \in [Configs -> Results]
    <3>1. rescorer # Off => [rows |-> rescorer.rows] \in Results
      BY DEF RescorerTyped, Rescorers, Results
    <3> QED BY <1>20, <3>1 DEF DumpRescored, KillRescore, DiskTyped
  <2> QED BY <1>20, <2>1 DEF DumpRescored, KillRescore, DriverTyped, DiskTyped, OthersTyped, HistoryTyped
<1>18. ASSUME NEW config \in Configs, Replay(config) PROVE StateTyped'
  BY <1>18 DEF Replay, DriverTyped, DiskTyped, OthersTyped, HistoryTyped
<1>19. CASE UNCHANGED vars
  BY <1>19 DEF vars, DriverTyped, DiskTyped, OthersTyped, HistoryTyped
<1> QED
  BY <1>1, <1>2, <1>3, <1>4, <1>5, <1>6, <1>7, <1>8, <1>9, <1>10, <1>11, <1>12, <1>13, <1>14,
     <1>15, <1>16, <1>17, <1>18, <1>19, <1>20 DEF Next, AllCells

(* What happens to a rescore, and that nothing else happens meanwhile. *)
LEMMA RescorerMoves ==
  ASSUME [Next]_vars
  PROVE  \/ UNCHANGED rescorer \/ rescorer' = Off
         \/ \E config \in Configs : Rescore(config)
BY DEF Next, StartRun, Replay, Prepare, PrepareFails, Ask, Score, Cleanup, OpenResult, DumpResult,
   Interrupt, Kill, HostCalls, Answers, LateWrite, OrphanCalls, MoveTable, CaptureTruth,
   DumpRescored, KillRescore, vars, disk, world

LEMMA RescorerAlone ==
  ASSUME [Next]_vars, RescorerTyped, rescorer # Off, rescorer' = rescorer
  PROVE  UNCHANGED <<driver, result, capture, runs>>
BY DEF Next, StartRun, Rescore, Replay, Prepare, PrepareFails, Ask, Score, Cleanup, OpenResult,
   DumpResult, Interrupt, Kill, HostCalls, Answers, LateWrite, OrphanCalls, MoveTable, CaptureTruth,
   DumpRescored, KillRescore, vars, disk, world, RescorerTyped, At

LEMMA RescorerStops ==
  ASSUME [Next]_vars, RescoreEnds
  PROVE  DumpRescored \/ KillRescore
BY DEF Next, StartRun, Rescore, Replay, Prepare, PrepareFails, Ask, Score, Cleanup, OpenResult,
   DumpResult, Interrupt, Kill, HostCalls, Answers, LateWrite, OrphanCalls, MoveTable, CaptureTruth,
   vars, disk, world, RescoreEnds

(* What a rescore makes of the rows of a file. *)
LEMMA RescoreRows ==
  ASSUME Typed, NEW config \in Configs, Rescore(config)
  PROVE  /\ rescorer' \in Rescorers /\ rescorer'.config = config /\ rescorer'.was = result[config].rows
         /\ rescorer'.rows = {Rescored(row) : row \in result[config].rows}
         /\ Whole(config) /\ result[config].rows \in SUBSET Rows
         /\ \A c \in Configs : Whole(c)' => c # config /\ Whole(c) /\ result'[c] = result[c]
         /\ \A row \in result[config].rows :
              /\ Rescored(row).label = row.label /\ Rescored(row).calls = trace[row.label]
              /\ capture[row.label].there /\ Rescored(row).run = capture[row.label].holds.run
              /\ Unmoved(row)
<1> USE DEF Typed
<1>1. result[config] \in [rows : SUBSET Rows] /\ Whole(config)
  BY DEF Rescore, Whole, DiskTyped, Results
<1>2. ASSUME NEW row \in result[config].rows
      PROVE  /\ Rescored(row) \in Rows
             /\ Rescored(row).label = row.label /\ Rescored(row).calls = trace[row.label]
             /\ capture[row.label].there /\ Rescored(row).run = capture[row.label].holds.run
             /\ Unmoved(row)
  <2>1. row \in Rows /\ row.label \in Labels /\ row.traced \in BOOLEAN
    BY <1>1 DEF Rows
  <2>2. capture[row.label].there /\ Unmoved(row)
    BY DEF Rescore
  <2>3. capture[row.label].holds \in [run : RunIds, body : Bodies]
    BY <2>1, <2>2, FileKinds DEF DiskTyped
  <2>4. trace[row.label] \in Files
    BY <2>1 DEF DiskTyped
  <2>5. read_capture(capture[row.label].holds.body) \in Bodies \cup {NoOutput}
    BY <2>3 DEF read_capture
  <2>6. truth \in Versions
    BY DEF OthersTyped
  <2> QED BY <2>1, <2>2, <2>3, <2>4, <2>5, <2>6 DEF Rescored, Row, Rows
<1>3. rescorer' = [pc |-> "dumping", config |-> config, was |-> result[config].rows,
                   rows |-> {Rescored(row) : row \in result[config].rows}]
  BY DEF Rescore
<1>4. {Rescored(row) : row \in result[config].rows} \in SUBSET Rows
  BY <1>2
<1>5. rescorer' \in Rescorers
  BY <1>1, <1>3, <1>4 DEF Rescorers
<1>6. \A c \in Configs : Whole(c)' => c # config /\ Whole(c) /\ result'[c] = result[c]
  BY DEF Rescore, Whole, DiskTyped
<1> QED BY <1>1, <1>2, <1>3, <1>5, <1>6

(* What the end of it makes of them. *)
LEMMA DumpedRows ==
  ASSUME Typed, DumpRescored
  PROVE  /\ rescorer \in Rescorers /\ At("off") /\ UNCHANGED driver
         /\ result'[rescorer.config].rows = rescorer.rows /\ rescorer.config \in Configs
         /\ \A c \in Configs : c # rescorer.config => result'[c] = result[c]
<1>1. rescorer \in Rescorers /\ At("off")
  BY DEF DumpRescored, Typed, RescorerTyped
<1>2. rescorer.config \in Configs
  BY <1>1 DEF Rescorers
<1> QED BY <1>1, <1>2 DEF DumpRescored, Typed, DiskTyped

LEMMA TypeStep == Typed /\ [Next]_vars => Typed'
<1> SUFFICES ASSUME Typed, [Next]_vars PROVE RescorerTyped'
  BY StateStep DEF Typed, StateTyped
<1>1. CASE rescorer' = Off
  BY <1>1 DEF RescorerTyped
<1>2. CASE rescorer # Off /\ rescorer' = rescorer
  BY <1>2, RescorerAlone DEF Typed, RescorerTyped, At
<1>3. ASSUME NEW config \in Configs, Rescore(config) PROVE RescorerTyped'
  <2>1. rescorer' \in Rescorers /\ rescorer'.config = config
    BY <1>3, RescoreRows
  <2>2. result'[config] = Torn /\ At("off")'
    BY <1>3 DEF Rescore, Typed, DiskTyped, At
  <2> QED BY <2>1, <2>2 DEF RescorerTyped
<1> QED BY <1>1, <1>2, <1>3, RescorerMoves

LEMMA AlwaysTyped == Spec => []Typed
BY TypeInit, TypeStep, PTL DEF Spec

Bounded == truth <= table /\ troubles \in 0..MaxTroubles

LEMMA BoundedStep == Typed /\ Bounded /\ [Next]_vars => Bounded'
<1> SUFFICES ASSUME Typed, Bounded, [Next]_vars PROVE Bounded'
  OBVIOUS
<1>1. truth \in Int /\ table \in Int /\ MaxTroubles \in Nat
  BY MatrixAssumption DEF Typed, OthersTyped, Versions
<1>2. (UNCHANGED troubles \/ Trouble) /\ UNCHANGED <<truth, table>> => Bounded'
  BY <1>1 DEF Bounded, Trouble
<1>3. CASE MoveTable \/ CaptureTruth
  BY <1>1, <1>3 DEF MoveTable, CaptureTruth, Bounded, Trouble, NoTrouble
<1>11. CASE DumpRescored \/ KillRescore
  BY <1>2, <1>11 DEF DumpRescored, KillRescore, NoTrouble
<1>4. CASE \E config \in Configs : StartRun(config) \/ Rescore(config) \/ Replay(config)
  BY <1>2, <1>4 DEF StartRun, Rescore, Replay, NoTrouble, world
<1>5. CASE \E cell \in Hosts \X Servers : Prepare(cell) \/ PrepareFails(cell)
  BY <1>2, <1>5 DEF Prepare, PrepareFails, NoTrouble, world
<1>6. CASE Ask \/ Score \/ Cleanup \/ OpenResult \/ DumpResult \/ Interrupt \/ Kill
  BY <1>2, <1>6 DEF Ask, Score, Cleanup, OpenResult, DumpResult, Interrupt, Kill, NoTrouble, world
<1>7. CASE \E s \in Servers, t \in Tools : HostCalls(s, t)
  BY <1>2, <1>7 DEF HostCalls, NoTrouble, world
<1>8. CASE \E body \in Bodies : Answers(body)
  BY <1>2, <1>8 DEF Answers, NoTrouble, world
<1>9. CASE (\E p \in pending : LateWrite(p)) \/ \E o \in orphans : OrphanCalls(o)
  BY <1>2, <1>9 DEF LateWrite, OrphanCalls, NoTrouble, world
<1>10. CASE UNCHANGED vars
  BY <1>2, <1>10 DEF vars
<1> QED
  BY <1>3, <1>4, <1>5, <1>6, <1>7, <1>8, <1>9, <1>10, <1>11 DEF Next

(* The state of the matrix keeps its types: captures, traces and rows are  *)
(* what the code writes, and the truth is of a version the table has had   *)
(* (run_matrix.py and ground_truth.py).                                    *)
THEOREM MatrixTypes == Spec => []TypeOK
<1>1. Init => Typed /\ Bounded
  <2>1. Init => Bounded
    BY MatrixAssumption DEF Init, Bounded
  <2> QED BY <2>1, TypeInit
<1>2. (Typed /\ Bounded) /\ [Next]_vars => (Typed /\ Bounded)'
  BY TypeStep, BoundedStep
<1>3. ASSUME Typed, Bounded PROVE TypeOK
  <2>1. \A x \in Files : TraceFile(x)
    BY DEF Files, TraceFile, NoFile
  <2>2. \A row \in Rows : IsRow(row)
    BY <2>1 DEF Rows, IsRow, Row
  <2>3. \A l \in Labels : /\ capture[l].there => capture[l].holds \in [run : RunIds, body : Bodies]
                         /\ TraceFile(trace[l])
    BY <1>3, <2>1, FileKinds DEF Typed, DiskTyped
  <2>4. \A p \in pending : p.label \in Labels /\ p.frame \in Frames
    BY <1>3 DEF Typed, OthersTyped
  <2>5. \A c \in Configs : Whole(c) => \A row \in result[c].rows : IsRow(row)
    <3> SUFFICES ASSUME NEW c \in Configs, Whole(c), NEW row \in result[c].rows PROVE row \in Rows
      BY <2>2
    <3> QED BY <1>3 DEF Typed, DiskTyped, Results, Whole
  <2>6. rescorer # Off => /\ At("off") /\ ~Whole(rescorer.config)
                          /\ \A row \in rescorer.rows \cup rescorer.was : IsRow(row)
    BY <1>3, <2>2 DEF Typed, RescorerTyped, Rescorers, Whole
  <2> QED BY <1>3, <2>3, <2>4, <2>5, <2>6 DEF TypeOK, Bounded, Typed, OthersTyped
<1> QED BY <1>1, <1>2, <1>3, PTL DEF Spec

-----------------------------------------------------------------------------
(***************************************************************************)
(* A result file is complete: in every round the rows so far are those of  *)
(* the rounds before and of the cells this round has left behind.          *)
(***************************************************************************)
LabelsOf(rows) == {row.label : row \in rows}
Asked(config, n) == {<< cell[1], cell[2], k >> : cell \in Cells(config), k \in 1..n}
InRound(cells, n) == {<< cell[1], cell[2], n >> : cell \in cells}
Done(d) == Asked(d.config, d.round - 1) \cup InRound(Cells(d.config) \ d.todo, d.round)

Placed ==
  ~At("off") =>
    /\ driver.todo \subseteq Cells(driver.config)
    /\ driver.pc \in {"round", "cleanup"} => LabelsOf(driver.rows) = Done(driver)
    /\ driver.pc \in {"ask", "host", "score"} =>
         /\ driver.label \notin LabelsOf(driver.rows)
         /\ LabelsOf(driver.rows) \cup {driver.label} = Done(driver)
    /\ driver.pc \in {"dump", "dumping"} =>
         LabelsOf(driver.rows) = Asked(driver.config, Rounds)

Regraded == rescorer # Off => LabelsOf(rescorer.rows) = Asked(rescorer.config, Rounds)

CompleteInv == Typed /\ Placed /\ Regraded /\ FileIsComplete

LEMMA AskedFacts ==
  ASSUME NEW config \in Configs, NEW n \in Nat \ {0}
  PROVE  /\ Asked(config, 0) = {} /\ InRound({}, n) = {}
         /\ Asked(config, n) = Asked(config, n - 1) \cup InRound(Cells(config), n)
<1>1. Asked(config, n) \subseteq Asked(config, n - 1) \cup InRound(Cells(config), n)
  <2> SUFFICES ASSUME NEW cell \in Cells(config), NEW k \in 1..n
               PROVE  << cell[1], cell[2], k >> \in Asked(config, n - 1) \cup InRound(Cells(config), n)
    BY DEF Asked
  <2>1. CASE k = n
    BY <2>1 DEF InRound
  <2>2. CASE k # n
    <3>1. k \in 1..(n - 1)
      BY <2>2
    <3> QED BY <3>1 DEF Asked
  <2> QED BY <2>1, <2>2
<1>2. Asked(config, n - 1) \subseteq Asked(config, n)
  BY DEF Asked
<1>3. InRound(Cells(config), n) \subseteq Asked(config, n)
  BY DEF Asked, InRound
<1> QED BY <1>1, <1>2, <1>3 DEF Asked, InRound

(* A cell that is left to do has no row yet in this round. *)
LEMMA NextCell ==
  ASSUME NEW d \in Drivers, d.todo \subseteq Cells(d.config), NEW cell \in d.todo
  PROVE  /\ << cell[1], cell[2], d.round >> \notin Done(d)
         /\ Done([d EXCEPT !.todo = @ \ {cell}]) = Done(d) \cup {<< cell[1], cell[2], d.round >>}
<1> DEFINE new == << cell[1], cell[2], d.round >>
<1>1. d.round \in Nat /\ d.config \in Configs
  BY MatrixAssumption DEF Drivers
<1>2. Cells(d.config) \subseteq AllCells
  BY <1>1, CellsAreCells
<1>3. new \notin Asked(d.config, d.round - 1)
  BY <1>1 DEF Asked
<1>4. new \notin InRound(Cells(d.config) \ d.todo, d.round)
  <2> SUFFICES ASSUME NEW c \in Cells(d.config) \ d.todo, new = << c[1], c[2], d.round >>
               PROVE  FALSE
    BY DEF InRound
  <2>1. c \in AllCells /\ cell \in AllCells
    BY <1>2
  <2>2. c = << c[1], c[2] >> /\ cell = << cell[1], cell[2] >>
    BY <2>1 DEF AllCells
  <2>3. c[1] = cell[1] /\ c[2] = cell[2]
    OBVIOUS
  <2>4. c = cell
    BY <2>2, <2>3
  <2> QED BY <2>4
<1>5. InRound(Cells(d.config) \ (d.todo \ {cell}), d.round)
        = InRound(Cells(d.config) \ d.todo, d.round) \cup {new}
  <2>1. Cells(d.config) \ (d.todo \ {cell}) = (Cells(d.config) \ d.todo) \cup {cell}
    OBVIOUS
  <2> QED BY <2>1 DEF InRound
<1>6. LET e == [d EXCEPT !.todo = @ \ {cell}]
      IN e.config = d.config /\ e.round = d.round /\ e.todo = d.todo \ {cell}
  BY DEF Drivers
<1> QED BY <1>3, <1>4, <1>5, <1>6 DEF Done

LEMMA DoneDepends ==
  ASSUME NEW d, NEW e, d.config = e.config, d.round = e.round, d.todo = e.todo
  PROVE  Done(d) = Done(e)
BY DEF Done

LEMMA AfterCellPlaced ==
  ASSUME driver \in Drivers, driver.todo \subseteq Cells(driver.config)
  PROVE  /\ AfterCell.rows = driver.rows /\ AfterCell.config = driver.config
         /\ AfterCell.todo \subseteq Cells(driver.config)
         /\ AfterCell.pc = "round" => Done(AfterCell) = Done(driver)
         /\ AfterCell.pc = "dump" => Asked(driver.config, Rounds) = Done(driver)
<1>1. driver.round \in 1..Rounds /\ Rounds \in Nat /\ driver.config \in Configs
  BY MatrixAssumption DEF Drivers
<1>2. driver.round \in Nat \ {0}
  BY <1>1
<1>3. CASE driver.todo # {}
  <2>1. AfterCell = [driver EXCEPT !.pc = "round"]
    BY <1>3 DEF AfterCell
  <2> QED BY <2>1, DoneDepends DEF Drivers
<1>4. CASE driver.todo = {}
  <2>1. Done(driver) = Asked(driver.config, driver.round)
    BY <1>2, <1>1, <1>4, AskedFacts DEF Done
  <2>2. CASE driver.round < Rounds
    <3>1. AfterCell = [driver EXCEPT !.pc = "round", !.round = @ + 1, !.todo = Cells(driver.config)]
      BY <1>4, <2>2 DEF AfterCell
    <3>2. /\ AfterCell.rows = driver.rows /\ AfterCell.config = driver.config /\ AfterCell.pc = "round"
          /\ AfterCell.todo = Cells(driver.config) /\ AfterCell.round = driver.round + 1
      BY <3>1 DEF Drivers
    <3>3. Done(AfterCell) = Asked(driver.config, driver.round) \cup InRound({}, driver.round + 1)
      <4> DEFINE d == AfterCell
                 left == Cells(d.config) \ d.todo
      <4>1. left = {} /\ d.config = driver.config /\ d.round = driver.round + 1
        BY <3>2
      <4>2. d.round - 1 = driver.round
        BY <1>1, <4>1
      <4>3. Done(d) = Asked(d.config, d.round - 1) \cup InRound(left, d.round)
        BY DEF Done
      <4> HIDE DEF d, left
      <4>4. Done(d) = Asked(driver.config, driver.round) \cup InRound({}, driver.round + 1)
        BY <4>1, <4>2, <4>3
      <4> QED BY <4>4 DEF d
    <3>4. InRound({}, driver.round + 1) = {}
      BY DEF InRound
    <3> QED BY <2>1, <3>2, <3>3, <3>4
  <2>3. CASE ~(driver.round < Rounds)
    <3>1. AfterCell = [driver EXCEPT !.pc = "dump"] /\ driver.round = Rounds
      BY <1>1, <1>4, <2>3 DEF AfterCell
    <3> QED BY <2>1, <3>1 DEF Drivers
  <2> QED BY <2>2, <2>3
<1> QED BY <1>3, <1>4

LEMMA PlacedInit == Init => Placed /\ Regraded /\ FileIsComplete
<1> SUFFICES ASSUME Init PROVE Placed /\ FileIsComplete
  BY DEF Init, Regraded
<1>1. At("off") /\ \A c \in Configs : ~Whole(c)
  BY DEF Init, At, Off, Whole
<1> QED BY <1>1 DEF Placed, FileIsComplete

LEMMA RegradedStep == CompleteInv /\ [Next]_vars => Regraded'
<1> SUFFICES ASSUME CompleteInv, [Next]_vars PROVE Regraded'
  OBVIOUS
<1>1. ASSUME NEW config \in Configs, Rescore(config) PROVE Regraded'
  <2>1. /\ rescorer'.config = config /\ Whole(config)
        /\ rescorer'.rows = {Rescored(row) : row \in result[config].rows}
        /\ \A row \in result[config].rows : Rescored(row).label = row.label
    BY <1>1, RescoreRows DEF CompleteInv
  <2>2. LabelsOf(result[config].rows) = Asked(config, Rounds)
    BY <2>1 DEF CompleteInv, FileIsComplete, LabelsOf, Asked
  <2>3. LabelsOf(rescorer'.rows) = LabelsOf(result[config].rows)
    BY <2>1 DEF LabelsOf
  <2> QED BY <2>1, <2>2, <2>3 DEF Regraded
<1> QED BY <1>1, RescorerMoves DEF Regraded, CompleteInv

LEMMA CompleteStep == CompleteInv /\ Typed' /\ [Next]_vars => (Placed /\ Regraded /\ FileIsComplete)'
<1> SUFFICES ASSUME CompleteInv, Typed', [Next]_vars PROVE (Placed /\ FileIsComplete)'
  BY RegradedStep
<1> USE DEF CompleteInv, Typed, world, disk
<1>off. /\ ~At("off") => driver \in Drivers
        /\ At("off")' <=> driver' = Off
        /\ ~At("off")' => driver' \in Drivers
  BY AtOff, OffFacts DEF DriverTyped, At
<1>same. UNCHANGED driver => Placed'
  BY DEF Placed, At, Done
<1>gone. driver' = Off => Placed'
  BY DEF Placed, At, Off
<1>kept. UNCHANGED result => FileIsComplete'
  BY DEF FileIsComplete, Whole
<1>1. ASSUME NEW config \in Configs, StartRun(config) PROVE (Placed /\ FileIsComplete)'
  <2>1. /\ driver'.pc = "round" /\ driver'.config = config /\ driver'.round = 1
        /\ driver'.todo = Cells(config) /\ driver'.rows = {}
    BY <1>1 DEF StartRun
  <2>2. Cells(driver'.config) \ driver'.todo = {} /\ driver'.round - 1 = 0
    BY <2>1
  <2>3. Done(driver') = {}
    BY <2>1, <2>2, AskedFacts DEF Done
  <2>4. LabelsOf(driver'.rows) = {}
    BY <2>1 DEF LabelsOf
  <2>5. Placed'
    BY <2>1, <2>3, <2>4 DEF Placed
  <2> QED BY <1>1, <1>kept, <2>5 DEF StartRun
<1>2. ASSUME NEW cell \in AllCells, Prepare(cell) PROVE (Placed /\ FileIsComplete)'
  <2>1. driver \in Drivers /\ driver.pc = "round" /\ cell \in driver.todo
    BY <1>2, <1>off DEF Prepare, At
  <2>2. driver.todo \subseteq Cells(driver.config) /\ LabelsOf(driver.rows) = Done(driver)
    BY <2>1 DEF Placed, At
  <2>3. /\ driver'.pc = "ask" /\ driver'.config = driver.config /\ driver'.round = driver.round
        /\ driver'.todo = driver.todo \ {cell} /\ driver'.rows = driver.rows
        /\ driver'.label = << cell[1], cell[2], driver.round >>
    BY <1>2, <2>1 DEF Prepare, PrepareOn, Drivers
  <2> DEFINE next == [driver EXCEPT !.todo = @ \ {cell}]
  <2>4. next.config = driver'.config /\ next.round = driver'.round /\ next.todo = driver'.todo
    BY <2>1, <2>3 DEF Drivers
  <2>5. Done(driver') = Done(next)
    BY <2>4 DEF Done
  <2>6. driver'.label \notin Done(driver) /\ Done(next) = Done(driver) \cup {driver'.label}
    BY <2>1, <2>2, <2>3, NextCell
  <2>7. Placed'
    BY <2>2, <2>3, <2>5, <2>6 DEF Placed
  <2> QED BY <1>2, <1>kept, <2>7 DEF Prepare
<1>3. ASSUME NEW cell \in AllCells, PrepareFails(cell) PROVE (Placed /\ FileIsComplete)'
  BY <1>3, <1>gone, <1>kept DEF PrepareFails
<1>4. ASSUME NEW stage \in {"host", "score"}, driver.pc \in {"ask", "host"},
             driver' = [driver EXCEPT !.pc = stage], UNCHANGED result
      PROVE  (Placed /\ FileIsComplete)'
  <2>1. driver \in Drivers /\ ~At("off")
    BY <1>4, <1>off DEF At
  <2>2. /\ driver'.pc = stage /\ driver'.config = driver.config /\ driver'.round = driver.round
        /\ driver'.todo = driver.todo /\ driver'.rows = driver.rows /\ driver'.label = driver.label
    BY <1>4, <2>1 DEF Drivers
  <2>3. Done(driver') = Done(driver)
    BY <2>2 DEF Done
  <2> QED BY <1>4, <1>kept, <2>1, <2>2, <2>3 DEF Placed
<1>5. CASE Ask
  BY <1>4, <1>5 DEF Ask, At
<1>6. ASSUME NEW s \in Servers, NEW t \in Tools, HostCalls(s, t) PROVE (Placed /\ FileIsComplete)'
  BY <1>6, <1>same, <1>kept DEF HostCalls
<1>7. ASSUME NEW body \in Bodies, Answers(body) PROVE (Placed /\ FileIsComplete)'
  BY <1>4, <1>7 DEF Answers, At
<1>8. ASSUME NEW p \in pending, LateWrite(p) PROVE (Placed /\ FileIsComplete)'
  BY <1>8, <1>same, <1>kept DEF LateWrite
<1>9. ASSUME NEW o \in orphans, OrphanCalls(o) PROVE (Placed /\ FileIsComplete)'
  BY <1>9, <1>same, <1>kept DEF OrphanCalls
<1>10. CASE Score
  <2> DEFINE row == Row(driver.label, runs, capture[driver.label].holds.body,
                        trace[driver.label].there, trace[driver.label], driver.graded)
  <2>1. driver \in Drivers /\ driver.pc = "score" /\ ~At("off")
    BY <1>10, <1>off DEF Score, At
  <2>2. row.label = driver.label
    BY DEF Row
  <2>3. driver' = [driver EXCEPT !.pc = "cleanup", !.rows = @ \cup {row}]
    BY <1>10 DEF Score
  <2> HIDE DEF row
  <2>4. /\ driver'.pc = "cleanup" /\ driver'.config = driver.config /\ driver'.round = driver.round
        /\ driver'.todo = driver.todo /\ driver'.rows = driver.rows \cup {row}
    BY <2>1, <2>3 DEF Drivers
  <2>5. Done(driver') = Done(driver)
    BY <2>4 DEF Done
  <2>6. LabelsOf(driver'.rows) = LabelsOf(driver.rows) \cup {driver.label}
    BY <2>2, <2>4 DEF LabelsOf
  <2>7. Placed'
    BY <2>1, <2>4, <2>5, <2>6 DEF Placed
  <2> QED BY <1>10, <1>kept, <2>7 DEF Score
<1>11. CASE Cleanup
  <2>1. driver \in Drivers /\ driver.pc = "cleanup" /\ ~At("off")
    BY <1>11, <1>off DEF Cleanup, At
  <2>2. driver.todo \subseteq Cells(driver.config) /\ LabelsOf(driver.rows) = Done(driver)
    BY <2>1 DEF Placed
  <2>3. driver' = AfterCell /\ UNCHANGED result
    BY <1>11 DEF Cleanup
  <2>4. Placed'
    BY <2>1, <2>2, <2>3, AfterCellPlaced, AfterCellTyped DEF Placed
  <2> QED BY <1>kept, <2>3, <2>4
<1>12. CASE OpenResult
  <2>1. driver \in Drivers /\ driver.pc = "dump" /\ ~At("off")
    BY <1>12, <1>off DEF OpenResult, At
  <2>2. /\ driver'.pc = "dumping" /\ driver'.config = driver.config
        /\ driver'.todo = driver.todo /\ driver'.rows = driver.rows
    BY <1>12, <2>1 DEF OpenResult, Drivers
  <2>3. Placed'
    BY <2>1, <2>2 DEF Placed
  <2>4. \A c \in Configs : Whole(c)' => result'[c] = result[c] /\ Whole(c)
    BY <1>12 DEF OpenResult, DiskTyped, Whole
  <2>5. FileIsComplete'
    BY <2>4 DEF FileIsComplete
  <2> QED BY <2>3, <2>5
<1>13. CASE DumpResult
  <2>1. driver \in Drivers /\ driver.pc = "dumping" /\ ~At("off") /\ driver.config \in Configs
    BY <1>13, <1>off DEF DumpResult, At, Drivers
  <2>2. LabelsOf(driver.rows) = Asked(driver.config, Rounds)
    BY <2>1 DEF Placed
  <2>3. /\ result'[driver.config].rows = driver.rows
        /\ \A c \in Configs : c # driver.config => result'[c] = result[c]
    BY <1>13, <2>1 DEF DumpResult, DiskTyped
  <2>4. FileIsComplete'
    BY <2>2, <2>3 DEF FileIsComplete, Whole, LabelsOf, Asked
  <2> QED BY <1>13, <1>gone, <2>4 DEF DumpResult
<1>14. CASE Interrupt
  BY <1>14, <1>gone, <1>kept DEF Interrupt
<1>15. CASE Kill
  BY <1>15, <1>gone, <1>kept DEF Kill
<1>16. CASE MoveTable \/ CaptureTruth
  BY <1>16, <1>same, <1>kept DEF MoveTable, CaptureTruth
<1>17. ASSUME NEW config \in Configs, Rescore(config) PROVE (Placed /\ FileIsComplete)'
  <2>1. FileIsComplete'
    BY <1>17, RescoreRows DEF FileIsComplete
  <2> QED BY <1>17, <1>same, <2>1 DEF Rescore
<1>20. CASE DumpRescored
  <2>1. LabelsOf(rescorer.rows) = Asked(rescorer.config, Rounds)
    BY <1>20 DEF DumpRescored, Regraded
  <2>2. FileIsComplete'
    BY <1>20, <2>1, DumpedRows DEF FileIsComplete, Whole, LabelsOf, Asked
  <2> QED BY <1>20, <1>same, <2>2 DEF DumpRescored
<1>21. CASE KillRescore
  BY <1>21, <1>same, <1>kept DEF KillRescore
<1>18. ASSUME NEW config \in Configs, Replay(config) PROVE (Placed /\ FileIsComplete)'
  BY <1>18, <1>same, <1>kept DEF Replay
<1>19. CASE UNCHANGED vars
  BY <1>19, <1>same, <1>kept DEF vars
<1> QED
  BY <1>1, <1>2, <1>3, <1>5, <1>6, <1>7, <1>8, <1>9, <1>10, <1>11, <1>12, <1>13, <1>14,
     <1>15, <1>16, <1>17, <1>18, <1>19, <1>20, <1>21 DEF Next, AllCells

LEMMA AlwaysComplete == Spec => []CompleteInv
<1>1. Init => CompleteInv
  BY TypeInit, PlacedInit DEF CompleteInv
<1>2. CompleteInv /\ [Next]_vars => CompleteInv'
  BY TypeStep, CompleteStep DEF CompleteInv
<1> QED BY <1>1, <1>2, PTL DEF Spec

(* A result file that can be read holds a row for every question its run   *)
(* put, whatever was interrupted, killed, rescored or written over before  *)
(* (run_matrix.py, main).                                                  *)
THEOREM ResultsAreComplete == Spec => []FileIsComplete
<1>1. CompleteInv => FileIsComplete
  BY DEF CompleteInv
<1> QED BY <1>1, AlwaysComplete, PTL

-----------------------------------------------------------------------------
(***************************************************************************)
(* A host from which every server was removed has, in a cell, the cell's   *)
(* own and nothing else in its configuration; so nothing else is called.   *)
(***************************************************************************)
Skipped(h) == h \in history.unremoved

Cleared ==
  \A h \in GlobalHosts : ~Skipped(h) =>
    registered[h] \subseteq IF driver.pc \in CellStages /\ driver.cell[1] = h
                           THEN {driver.cell[2]} ELSE {}
OwnCalls ==
  /\ \A l \in Labels : trace[l].there /\ ~Skipped(l[1]) =>
       \A f \in trace[l].holds : f.server = l[2]
  /\ \A p \in pending : ~Skipped(p.label[1]) => p.frame.server = p.label[2]
  /\ \A o \in orphans : ~Skipped(o.label[1]) => o.sees \subseteq {o.label[2]}

OwnRow(row) ==
  row.calls.there => (\A f \in row.calls.holds : f.server = row.label[2]) \/ Skipped(row.label[1])
OwnRows ==
  /\ ~At("off") => \A row \in driver.rows : OwnRow(row)
  /\ \A c \in Configs : Whole(c) => \A row \in result[c].rows : OwnRow(row)

OwnRescored == rescorer # Off => \A row \in rescorer.rows : OwnRow(row)

OwnState == Cleared /\ OwnCalls /\ OwnRows
ServerInv == Cleared /\ OwnCalls /\ OwnRows /\ OwnRescored

LEMMA ServerInit == Init => ServerInv
<1> SUFFICES ASSUME Init PROVE ServerInv
  OBVIOUS
<1>1. At("off") /\ \A c \in Configs : ~Whole(c)
  BY DEF Init, At, Off, Whole
<1>2. \A l \in Labels : ~trace[l].there
  BY DEF Init, NoFile
<1> QED BY <1>1, <1>2 DEF Init, ServerInv, Cleared, OwnCalls, OwnRows, OwnRescored

LEMMA SeesOwn ==
  ASSUME Typed, Cleared, driver.pc \in CellStages, ~Skipped(driver.label[1])
  PROVE  Visible(driver.label[1], driver.label[2]) \subseteq {driver.label[2]}
BY DEF Typed, DriverTyped, Cleared, Visible

(* Hosts are only ever added to those of which a removal was skipped. *)
LEMMA SkippedGrows ==
  ASSUME Typed, [Next]_vars PROVE history.unremoved \subseteq history'.unremoved
<1> USE DEF Typed, HistoryTyped
<1>1. CASE Ask \/ \E s \in Servers, t \in Tools : HostCalls(s, t)
  BY <1>1 DEF Ask, HostCalls
<1>2. CASE Cleanup \/ Interrupt
  BY <1>2 DEF Cleanup, Interrupt
<1>3. CASE Kill
  BY <1>3 DEF Kill
<1>4. CASE UNCHANGED history
  BY <1>4
<1> QED
  BY <1>1, <1>2, <1>3, <1>4 DEF Next, StartRun, Rescore, Replay, Prepare, PrepareFails, Score,
     OpenResult, DumpResult, Answers, LateWrite, OrphanCalls, MoveTable, CaptureTruth,
     DumpRescored, KillRescore, vars

(* A trace to which the frames of the label's own server are written. *)
LEMMA LoggedOwn ==
  ASSUME Typed, OwnCalls, UNCHANGED history, NEW l \in Labels, NEW frames \in SUBSET Frames,
         trace' = Logged(l, frames), ~Skipped(l[1]) => \A f \in frames : f.server = l[2]
  PROVE  \A k \in Labels : trace'[k].there /\ ~Skipped(k[1])' =>
           \A f \in trace'[k].holds : f.server = k[2]
<1> SUFFICES ASSUME NEW k \in Labels, trace'[k].there, ~Skipped(k[1]), NEW f \in trace'[k].holds
             PROVE  f.server = k[2]
  BY DEF Skipped
<1>1. trace \in [Labels -> Files]
  BY DEF Typed, DiskTyped
<1>2. CASE k # l
  BY <1>1, <1>2, LoggedTyped DEF OwnCalls
<1>3. CASE k = l
  <2>1. f \in (IF trace[l].there THEN trace[l].holds ELSE {}) \cup frames
    BY <1>1, <1>3, LoggedTyped
  <2> QED BY <1>3, <2>1 DEF OwnCalls
<1> QED BY <1>2, <1>3

LEMMA OwnStateStep == Typed /\ Typed' /\ ServerInv /\ [Next]_vars => OwnState'
<1> SUFFICES ASSUME Typed, Typed', ServerInv, [Next]_vars PROVE OwnState'
  OBVIOUS
<1> USE DEF ServerInv, OwnState, world, disk
<1>off. /\ ~At("off") => driver \in Drivers
        /\ At("off") => driver = Off
        /\ At("off")' <=> driver' = Off
  BY AtOff, OffFacts DEF Typed, DriverTyped, At
<1>skip. \A h : Skipped(h) => Skipped(h)'
  BY SkippedGrows DEF Skipped
<1>cell. driver.pc \in CellStages =>
           /\ driver \in Drivers /\ driver.cell \in AllCells /\ driver.label \in Labels
           /\ driver.label[1] = driver.cell[1] /\ driver.label[2] = driver.cell[2]
  BY LabelsAreLabels, <1>off DEF Typed, DriverTyped, At, CellStages, Drivers
<1>calls. UNCHANGED <<trace, pending, orphans>> => OwnCalls'
  BY <1>skip DEF OwnCalls
<1>row. \A row : OwnRow(row) => OwnRow(row)'
  BY <1>skip DEF OwnRow
<1>rows. /\ UNCHANGED driver /\ UNCHANGED result => OwnRows'
         /\ driver' = Off /\ UNCHANGED result => OwnRows'
  BY <1>row DEF OwnRows, At, Off, Whole
<1>stay. UNCHANGED <<registered, driver>> => Cleared'
  BY <1>skip DEF Cleared
<1>1. ASSUME NEW config \in Configs, StartRun(config) PROVE OwnState'
  <2>1. driver'.pc = "round" /\ driver'.rows = {} /\ driver.pc \notin CellStages
    BY <1>1 DEF StartRun, At, CellStages
  <2>2. Cleared'
    BY <1>1, <1>skip, <2>1 DEF StartRun, Cleared
  <2>3. OwnRows'
    BY <1>1, <1>row, <2>1 DEF StartRun, OwnRows, Whole
  <2> QED BY <1>1, <1>calls, <2>2, <2>3 DEF StartRun
<1>2. ASSUME NEW cell \in AllCells, Prepare(cell) PROVE OwnState'
  <2>1. driver \in Drivers /\ driver.pc = "round" /\ ~At("off")
    BY <1>2, <1>off DEF Prepare, At
  <2>2. driver'.cell = cell /\ driver'.pc = "ask" /\ driver'.rows = driver.rows
    BY <1>2, <2>1 DEF Prepare, PrepareOn, Drivers
  <2>3. Cleared'
    <3> SUFFICES ASSUME NEW h \in GlobalHosts, ~Skipped(h)
                 PROVE  registered'[h] \subseteq IF cell[1] = h THEN {cell[2]} ELSE {}
      BY <1>skip, <2>2 DEF Cleared, CellStages
    <3>1. registered[h] = {}
      BY <2>1 DEF Cleared, CellStages
    <3> QED BY <1>2, <3>1 DEF Prepare, PrepareOn, Typed, OthersTyped
  <2>4. OwnRows'
    BY <1>2, <1>row, <2>1, <2>2 DEF Prepare, OwnRows, Whole
  <2> QED BY <1>2, <1>calls, <2>3, <2>4 DEF Prepare
<1>3. ASSUME NEW cell \in AllCells, PrepareFails(cell) PROVE OwnState'
  <2>1. driver.pc = "round" /\ driver' = Off
    BY <1>3 DEF PrepareFails, At
  <2>2. \A h \in GlobalHosts : registered'[h] \subseteq registered[h]
    BY <1>3, WithoutTyped DEF PrepareFails, AllCells, Typed
  <2>3. Cleared'
    BY <1>skip, <2>1, <2>2 DEF Cleared, CellStages
  <2> QED BY <1>3, <1>calls, <1>rows, <2>1, <2>3 DEF PrepareFails
<1>4. ASSUME driver.pc \in {"ask", "host"}, NEW stage \in {"host", "score"},
             driver' = [driver EXCEPT !.pc = stage], UNCHANGED <<registered, result>>
      PROVE  Cleared' /\ OwnRows'
  <2>1. driver \in Drivers /\ driver.pc \in CellStages /\ ~At("off")
    BY <1>4, <1>cell DEF CellStages, At
  <2>2. driver'.cell = driver.cell /\ driver'.pc \in CellStages /\ driver'.rows = driver.rows
    BY <1>4, <2>1 DEF Drivers, CellStages
  <2> QED BY <1>4, <1>skip, <1>row, <2>1, <2>2 DEF Cleared, OwnRows, Whole
<1>5. CASE Ask
  <2>1. \A l \in Labels : trace'[l].there => trace'[l] = trace[l]
    BY <1>5 DEF Ask, NoFile, Typed, DiskTyped
  <2>2. pending' \subseteq pending /\ orphans' = orphans
    BY <1>5 DEF Ask
  <2>3. OwnCalls'
    BY <1>skip, <2>1, <2>2 DEF OwnCalls
  <2> QED BY <1>4, <1>5, <2>3 DEF Ask, At
<1>6. ASSUME NEW s \in Servers, NEW t \in Tools, HostCalls(s, t) PROVE OwnState'
  <2> DEFINE frame == [run |-> runs, server |-> s, tool |-> t]
  <2>1. driver.pc = "host" /\ driver.label \in Labels /\ runs \in RunIds
    BY <1>6, <1>cell, AtOff DEF HostCalls, At, CellStages, Typed, DriverTyped
  <2>2. ~Skipped(driver.label[1]) => s = driver.label[2]
    BY <1>6, <2>1, SeesOwn DEF HostCalls, CellStages
  <2>3. frame \in Frames /\ frame.server = s
    BY <2>1 DEF Frames
  <2>4. UNCHANGED <<registered, driver, result, orphans>> /\ history'.unremoved = history.unremoved
    BY <1>6 DEF HostCalls, Typed, HistoryTyped
  <2>5. \/ trace' = Logged(driver.label, {frame}) /\ pending' = pending
        \/ trace' = Logged(driver.label, {})
             /\ pending' = pending \cup {[label |-> driver.label, frame |-> frame]}
    BY <1>6 DEF HostCalls
  <2> HIDE DEF frame
  <2>6. \A k \in Labels : trace'[k].there /\ ~Skipped(k[1]) =>
          \A f \in trace'[k].holds : f.server = k[2]
    <3> SUFFICES ASSUME NEW k \in Labels, trace'[k].there, ~Skipped(k[1]), NEW f \in trace'[k].holds
                 PROVE  f.server = k[2]
      OBVIOUS
    <3>1. PICK frames \in {{}, {frame}} : trace' = Logged(driver.label, frames)
      BY <2>5
    <3>2. frames \in SUBSET Frames /\ trace \in [Labels -> Files]
      BY <2>3 DEF Typed, DiskTyped
    <3>3. CASE k # driver.label
      BY <2>1, <3>1, <3>2, <3>3, LoggedTyped DEF OwnCalls
    <3>4. CASE k = driver.label
      <4>1. f \in (IF trace[k].there THEN trace[k].holds ELSE {}) \cup frames
        BY <2>1, <3>1, <3>2, <3>4, LoggedTyped
      <4> QED BY <2>2, <2>3, <3>4, <4>1 DEF OwnCalls
    <3> QED BY <3>3, <3>4
  <2>7. \A p \in pending' : ~Skipped(p.label[1]) => p.frame.server = p.label[2]
    BY <2>2, <2>3, <2>5 DEF OwnCalls
  <2>8. OwnCalls'
    BY <2>4, <2>6, <2>7 DEF OwnCalls, Skipped
  <2> QED BY <1>rows, <1>stay, <2>4, <2>8
<1>7. ASSUME NEW body \in Bodies, Answers(body) PROVE OwnState'
  <2>1. driver.label \in Labels /\ driver.pc = "host"
    BY <1>7, <1>cell DEF Answers, At, CellStages
  <2>2. UNCHANGED <<registered, result, pending, orphans, history>>
          /\ (trace' = trace \/ trace' = Logged(driver.label, {}))
    BY <1>7 DEF Answers
  <2>3. OwnCalls'
    BY <2>1, <2>2, LoggedOwn DEF OwnCalls, Skipped
  <2> QED BY <1>4, <1>7, <2>1, <2>2, <2>3 DEF Answers
<1>8. ASSUME NEW p \in pending, LateWrite(p) PROVE OwnState'
  <2>1. p \in [label : Labels, frame : Frames]
    BY DEF Typed, OthersTyped
  <2>2. UNCHANGED <<registered, driver, result, orphans, history>>
          /\ trace' = Logged(p.label, {p.frame}) /\ pending' = pending \ {p}
    BY <1>8 DEF LateWrite
  <2> DEFINE frames == {p.frame}
  <2>3. /\ frames \in SUBSET Frames /\ p.label \in Labels
        /\ ~Skipped(p.label[1]) => \A f \in frames : f.server = p.label[2]
    BY <2>1 DEF OwnCalls
  <2>4. trace' = Logged(p.label, frames) /\ UNCHANGED history
    BY <2>2
  <2> HIDE DEF frames
  <2>5. \A k \in Labels : trace'[k].there /\ ~Skipped(k[1])' =>
          \A f \in trace'[k].holds : f.server = k[2]
    BY <2>3, <2>4, LoggedOwn
  <2>6. OwnCalls'
    BY <2>2, <2>5 DEF OwnCalls, Skipped
  <2> QED BY <1>rows, <1>stay, <2>2, <2>6
<1>9. ASSUME NEW o \in orphans, OrphanCalls(o) PROVE OwnState'
  <2>1. o \in [label : Labels, run : RunIds, sees : SUBSET Servers]
    BY DEF Typed, OthersTyped
  <2>2. PICK s \in o.sees, t \in Tools :
          trace' = Logged(o.label, {[run |-> o.run, server |-> s, tool |-> t]})
    BY <1>9 DEF OrphanCalls
  <2> DEFINE label == o.label
             frames == {[run |-> o.run, server |-> s, tool |-> t]}
  <2>3. UNCHANGED <<registered, driver, result, pending, history>> /\ orphans' = orphans \ {o}
    BY <1>9 DEF OrphanCalls
  <2>4. ~Skipped(label[1]) => s = label[2]
    BY DEF OwnCalls
  <2>5. label \in Labels /\ frames \in SUBSET Frames /\ s \in Servers /\ t \in Tools
    BY <2>1 DEF Frames
  <2>6. ~Skipped(label[1]) => \A f \in frames : f.server = label[2]
    BY <2>4
  <2>7. trace' = Logged(label, frames) /\ UNCHANGED history
    BY <2>2, <2>3
  <2> HIDE DEF label, frames
  <2>8. \A k \in Labels : trace'[k].there /\ ~Skipped(k[1])' =>
          \A f \in trace'[k].holds : f.server = k[2]
    BY <2>5, <2>6, <2>7, LoggedOwn
  <2>9. OwnCalls'
    BY <2>3, <2>8 DEF OwnCalls, Skipped
  <2> QED BY <1>rows, <1>stay, <2>3, <2>9
<1>10. CASE Score
  <2> DEFINE row == Row(driver.label, runs, capture[driver.label].holds.body,
                        trace[driver.label].there, trace[driver.label], driver.graded)
  <2>1. driver.pc = "score" /\ driver \in Drivers /\ driver.label \in Labels /\ ~At("off")
    BY <1>10, <1>cell DEF Score, At, CellStages
  <2>2. row.label = driver.label /\ row.calls = trace[driver.label]
    BY DEF Row
  <2>3. driver' = [driver EXCEPT !.pc = "cleanup", !.rows = @ \cup {row}]
    BY <1>10 DEF Score
  <2>4. OwnRow(row)
    BY <2>1, <2>2 DEF OwnRow, OwnCalls
  <2> HIDE DEF row
  <2>5. driver'.cell = driver.cell /\ driver'.pc = "cleanup" /\ driver'.rows = driver.rows \cup {row}
    BY <2>1, <2>3 DEF Drivers
  <2>6. Cleared'
    BY <1>10, <1>skip, <2>1, <2>5 DEF Score, Cleared, CellStages
  <2>7. OwnRows'
    BY <1>10, <1>row, <2>1, <2>4, <2>5 DEF Score, OwnRows, Whole
  <2> QED BY <1>10, <1>calls, <2>6, <2>7 DEF Score
<1>11. CASE Cleanup
  <2>1. driver.pc = "cleanup" /\ driver.pc \in CellStages /\ driver \in Drivers /\ ~At("off")
          /\ driver.cell[1] \in Hosts /\ driver.cell[2] \in Servers
    BY <1>11, <1>cell DEF Cleanup, At, CellStages, AllCells
  <2>2. driver' = AfterCell /\ driver'.pc \notin CellStages /\ driver'.rows = driver.rows
    <3>1. AfterCell.rows = driver.rows
      BY <2>1 DEF AfterCell, Drivers
    <3> QED BY <1>11, <2>1, <3>1, AfterCellTyped DEF Cleanup, CellStages
  <2>3. Cleared'
    <3> SUFFICES ASSUME NEW h \in GlobalHosts, ~Skipped(h)' PROVE registered'[h] = {}
      BY <2>2 DEF Cleared
    <3>1. ~Skipped(h)
      BY <1>skip
    <3>2. CASE registered' = Without(driver.cell[1], driver.cell[2])
      BY <2>1, <3>1, <3>2, WithoutTyped DEF Cleared, Typed
    <3>3. CASE registered' = registered /\ driver.cell[1] \in history'.unremoved
      BY <3>1, <3>3 DEF Cleared, Skipped
    <3> QED BY <1>11, <3>2, <3>3 DEF Cleanup, Skipped, Typed, HistoryTyped
  <2>4. OwnRows'
    BY <1>11, <1>row, <2>1, <2>2 DEF Cleanup, OwnRows, Whole
  <2> QED BY <1>11, <1>calls, <2>3, <2>4 DEF Cleanup
<1>12. CASE OpenResult
  <2>1. driver.pc = "dump" /\ driver \in Drivers /\ ~At("off")
    BY <1>12, <1>off DEF OpenResult, At
  <2>2. driver'.pc = "dumping" /\ driver'.rows = driver.rows /\ driver'.cell = driver.cell
    BY <1>12, <2>1 DEF OpenResult, Drivers
  <2>3. \A c \in Configs : Whole(c)' => result'[c] = result[c] /\ Whole(c)
    BY <1>12 DEF OpenResult, Typed, DiskTyped, Whole
  <2>4. OwnRows'
    BY <1>row, <2>1, <2>2, <2>3 DEF OwnRows
  <2>5. Cleared'
    BY <1>12, <1>skip, <2>1, <2>2 DEF OpenResult, Cleared, CellStages
  <2> QED BY <1>12, <1>calls, <2>4, <2>5 DEF OpenResult
<1>13. CASE DumpResult
  <2>1. driver.pc = "dumping" /\ driver' = Off /\ driver \in Drivers /\ ~At("off")
    BY <1>13, <1>off DEF DumpResult, At
  <2>2. Cleared'
    BY <1>13, <1>skip, <2>1 DEF DumpResult, Cleared, CellStages
  <2>3. \A c \in Configs : result'[c] = result[c] \/ result'[c].rows = driver.rows
    BY <1>13, <2>1 DEF DumpResult, Typed, DiskTyped
  <2>4. OwnRows'
    BY <1>off, <1>row, <2>1, <2>3 DEF OwnRows, Whole
  <2> QED BY <1>13, <1>calls, <2>2, <2>4 DEF DumpResult
<1>14. ASSUME Interrupt \/ Kill PROVE Cleared'
  <2>1. driver'.pc \notin CellStages
    BY <1>14 DEF Interrupt, Kill, Off, CellStages
  <2> SUFFICES ASSUME NEW h \in GlobalHosts, ~Skipped(h)' PROVE registered'[h] = {}
    BY <2>1 DEF Cleared
  <2>2. ~Skipped(h)
    BY <1>skip
  <2>3. CASE driver.pc \notin CellStages
    <3>1. registered' = registered
      BY <1>14, <2>3 DEF Interrupt, Kill, CellStages
    <3> QED BY <2>2, <2>3, <3>1 DEF Cleared
  <2>4. CASE driver.pc \in CellStages
    <3>1. driver.cell[1] \in Hosts /\ driver.cell[2] \in Servers
      BY <1>cell, <2>4 DEF AllCells
    <3>2. CASE registered' = Without(driver.cell[1], driver.cell[2])
      BY <2>2, <3>1, <3>2, WithoutTyped DEF Cleared, Typed
    <3>3. CASE registered' = registered
      <4> DEFINE left == IF registered' = registered THEN {driver.cell[1]} ELSE {}
                 cut == IF driver.pc \in {"ask", "host", "score", "cleanup"}
                        THEN {driver.cell[1]} ELSE {}
      <4>int. ASSUME Interrupt PROVE driver.cell[1] \in history'.unremoved
        <5>1. history' = [history EXCEPT !.unremoved = @ \cup left]
          BY <4>int DEF Interrupt
        <5>2. left = {driver.cell[1]}
          BY <3>3
        <5> HIDE DEF left
        <5>3. history'.unremoved = history.unremoved \cup left
          BY <5>1 DEF Typed, HistoryTyped
        <5> QED BY <5>2, <5>3
      <4>kill. ASSUME Kill PROVE driver.cell[1] \in history'.unremoved
        <5>1. history'.unremoved = history.unremoved \cup cut
          BY <4>kill DEF Kill, Typed, HistoryTyped
        <5>2. cut = {driver.cell[1]}
          BY <2>4 DEF CellStages
        <5> QED BY <5>1, <5>2
      <4>1. driver.cell[1] \in history'.unremoved
        BY <1>14, <4>int, <4>kill
      <4> QED BY <2>2, <3>3, <4>1 DEF Cleared, Skipped
    <3> QED BY <1>14, <3>2, <3>3 DEF Interrupt, Kill
  <2> QED BY <2>3, <2>4
<1>15. CASE Interrupt
  BY <1>14, <1>15, <1>calls, <1>rows DEF Interrupt
<1>16. CASE Kill
  <2>1. \A o \in orphans' : o \in orphans \/ Skipped(o.label[1])'
    <3>1. CASE At("host")
      <4>1. driver.label[1] \in history'.unremoved
        BY <1>16, <1>cell, <3>1 DEF Kill, At, CellStages, Skipped, Typed, HistoryTyped
      <4> QED BY <1>16, <3>1, <4>1 DEF Kill, Skipped
    <3>2. CASE ~At("host")
      BY <1>16, <3>2 DEF Kill
    <3> QED BY <3>1, <3>2
  <2>2. OwnCalls'
    BY <1>16, <1>skip, <2>1 DEF Kill, OwnCalls
  <2> QED BY <1>14, <1>16, <1>rows, <2>2 DEF Kill
<1>17. CASE MoveTable \/ CaptureTruth
  BY <1>17, <1>calls, <1>rows, <1>stay DEF MoveTable, CaptureTruth
<1>18. ASSUME NEW config \in Configs, Rescore(config) PROVE OwnState'
  <2>1. OwnRows'
    BY <1>18, <1>row, RescoreRows DEF Rescore, OwnRows, At
  <2> QED BY <1>18, <1>calls, <1>stay, <2>1 DEF Rescore
<1>21. CASE DumpRescored
  <2>1. OwnRows'
    BY <1>21, <1>row, DumpedRows DEF DumpRescored, OwnRescored, OwnRows, Whole, At
  <2> QED BY <1>21, <1>calls, <1>stay, <2>1 DEF DumpRescored
<1>22. CASE KillRescore
  BY <1>22, <1>calls, <1>rows, <1>stay DEF KillRescore
<1>19. ASSUME NEW config \in Configs, Replay(config) PROVE OwnState'
  BY <1>19, <1>calls, <1>rows, <1>stay DEF Replay
<1>20. CASE UNCHANGED vars
  BY <1>20, <1>calls, <1>rows, <1>stay DEF vars
<1> QED
  BY <1>1, <1>2, <1>3, <1>5, <1>6, <1>7, <1>8, <1>9, <1>10, <1>11, <1>12, <1>13,
     <1>15, <1>16, <1>17, <1>18, <1>19, <1>20, <1>21, <1>22 DEF Next, AllCells

LEMMA ServerStep == Typed /\ Typed' /\ ServerInv /\ [Next]_vars => ServerInv'
<1> SUFFICES ASSUME Typed, Typed', ServerInv, [Next]_vars PROVE OwnRescored'
  BY OwnStateStep DEF ServerInv, OwnState
<1>1. \A row : OwnRow(row) => OwnRow(row)'
  BY SkippedGrows DEF OwnRow, Skipped
<1>2. ASSUME NEW config \in Configs, Rescore(config) PROVE OwnRescored'
  <2> SUFFICES ASSUME NEW x \in rescorer'.rows PROVE OwnRow(x)
    BY <1>1 DEF OwnRescored
  <2>1. PICK row \in result[config].rows : x = Rescored(row)
    BY <1>2, RescoreRows
  <2>2. x.label \in Labels /\ x.calls = trace[x.label]
    BY <1>2, <2>1, RescoreRows DEF Rows
  <2> QED BY <2>2 DEF OwnRow, OwnCalls, ServerInv
<1> QED BY <1>1, <1>2, RescorerMoves DEF OwnRescored, ServerInv

(* A row holds calls to its own server only, on every host from whose      *)
(* configuration no removal was skipped or failed (hosts.py:41), for any   *)
(* hosts, servers left over, time-outs, interrupts and kills.              *)
THEOREM OnlyOwnServer == Spec => []OnlyItsServer
<1>1. Init => Typed /\ ServerInv
  BY TypeInit, ServerInit
<1>2. (Typed /\ ServerInv) /\ [Next]_vars => (Typed /\ ServerInv)'
  BY TypeStep, ServerStep
<1>3. ServerInv => OnlyItsServer
  BY DEF ServerInv, OwnRows, OwnRescored, OwnRow, OnlyItsServer, RowsNow, Skipped
<1> QED BY <1>1, <1>2, <1>3, PTL DEF Spec

-----------------------------------------------------------------------------
(***************************************************************************)
(* Under a label of which no host was orphaned every call is of the run    *)
(* that asked the label last, so a row that is not superseded holds its    *)
(* own.                                                                    *)
(***************************************************************************)
Fits(label, frame) == frame.run = history.asked[label] \/ label \in history.orphaned

RunCalls ==
  /\ \A l \in Labels : trace[l].there => \A f \in trace[l].holds : Fits(l, f)
  /\ \A p \in pending : Fits(p.label, p.frame)
  /\ \A o \in orphans : o.label \in history.orphaned

RunAsked == driver.pc \in {"host", "score"} => history.asked[driver.label] = runs

RunRow(row) ==
  row.calls.there =>
    (\A f \in row.calls.holds : f.run = row.run) \/ Superseded(row) \/ row.label \in history.orphaned
RunRows ==
  /\ ~At("off") => \A row \in driver.rows : row.run = runs /\ RunRow(row)
  /\ \A c \in Configs : Whole(c) =>
       \A row \in result[c].rows : row.run <= runs /\ RunRow(row)
                                   /\ (~At("off") => row.run < runs)
  /\ \A l \in Labels : capture[l].there => capture[l].holds.run <= runs

RunRescored == rescorer # Off => \A row \in rescorer.rows : row.run <= runs /\ RunRow(row)

RunState == RunCalls /\ RunAsked /\ RunRows
RunInv == RunCalls /\ RunAsked /\ RunRows /\ RunRescored

LEMMA RunInit == Init => RunInv
<1> SUFFICES ASSUME Init PROVE RunInv
  OBVIOUS
<1>1. At("off") /\ (\A c \in Configs : ~Whole(c)) /\ driver.pc \notin {"host", "score"}
  BY DEF Init, At, Off, Whole
<1>2. \A l \in Labels : ~trace[l].there /\ ~capture[l].there
  BY DEF Init, NoFile
<1> QED BY <1>1, <1>2 DEF Init, RunInv, RunCalls, RunAsked, RunRows, RunRescored

(* Only a question changes which run asked a label last. *)
LEMMA AskedStays ==
  ASSUME Typed, [Next]_vars, ~Ask
  PROVE  history'.asked = history.asked /\ history.orphaned \subseteq history'.orphaned
<1> USE DEF Typed, HistoryTyped
<1>1. CASE \E s \in Servers, t \in Tools : HostCalls(s, t)
  BY <1>1 DEF HostCalls
<1>2. CASE Cleanup \/ Interrupt
  BY <1>2 DEF Cleanup, Interrupt
<1>3. CASE Kill
  BY <1>3 DEF Kill
<1>4. CASE UNCHANGED history
  BY <1>4
<1> QED
  BY <1>1, <1>2, <1>3, <1>4 DEF Next, StartRun, Rescore, Replay, Prepare, PrepareFails, Score,
     OpenResult, DumpResult, Answers, LateWrite, OrphanCalls, MoveTable, CaptureTruth,
     DumpRescored, KillRescore, vars

(* A trace to which frames that fit the label are written. *)
LEMMA LoggedFits ==
  ASSUME Typed, RunCalls, NEW l \in Labels, NEW frames \in SUBSET Frames,
         trace' = Logged(l, frames), \A f \in frames : Fits(l, f)
  PROVE  \A k \in Labels : trace'[k].there => \A f \in trace'[k].holds : Fits(k, f)
<1> SUFFICES ASSUME NEW k \in Labels, trace'[k].there, NEW f \in trace'[k].holds
             PROVE  Fits(k, f)
  OBVIOUS
<1>1. trace \in [Labels -> Files]
  BY DEF Typed, DiskTyped
<1>2. CASE k # l
  BY <1>1, <1>2, LoggedTyped DEF RunCalls
<1>3. CASE k = l
  <2>1. f \in (IF trace[l].there THEN trace[l].holds ELSE {}) \cup frames
    BY <1>1, <1>3, LoggedTyped
  <2> QED BY <1>3, <2>1 DEF RunCalls
<1> QED BY <1>2, <1>3

(* A question supersedes the rows of earlier runs and starts its trace     *)
(* anew.                                                                   *)
LEMMA AskRuns == Typed /\ Placed /\ RunInv /\ Ask => RunState'
<1> SUFFICES ASSUME Typed, Placed, RunInv, Ask PROVE RunState'
  OBVIOUS
<1> USE DEF RunInv, RunState, disk, world
<1>1. driver \in Drivers /\ driver.pc = "ask" /\ ~At("off") /\ runs \in RunIds
  BY AtOff DEF Ask, At, Typed
<1>2. driver.label \in Labels
  BY <1>1, LabelsAreLabels DEF Typed, DriverTyped, CellStages, Drivers
<1>3. /\ driver'.pc = "host" /\ driver'.rows = driver.rows /\ driver'.label = driver.label
      /\ ~At("off")'
  BY <1>1 DEF Ask, Drivers, At
<1>4. /\ history'.asked = [history.asked EXCEPT ![driver.label] = runs]
      /\ history'.orphaned = history.orphaned
  BY DEF Ask, Typed, HistoryTyped
<1>5. \A l \in Labels : history'.asked[l] = IF l = driver.label THEN runs ELSE history.asked[l]
  BY <1>4 DEF Typed, HistoryTyped
<1>6. RunAsked'
  BY <1>2, <1>3, <1>5 DEF Ask, RunAsked
<1>7. RunCalls'
  <2>1. ASSUME NEW l \in Labels, trace'[l].there, NEW f \in trace'[l].holds PROVE Fits(l, f)'
    <3>1. l # driver.label /\ trace'[l] = trace[l]
      BY <1>2, <2>1 DEF Ask, NoFile, Typed, DiskTyped
    <3> QED BY <1>4, <1>5, <2>1, <3>1 DEF RunCalls, Fits
  <2>2. ASSUME NEW p \in pending' PROVE Fits(p.label, p.frame)'
    <3>1. p \in pending /\ p.label # driver.label /\ p.label \in Labels
      BY <2>2 DEF Ask, Typed, OthersTyped
    <3> QED BY <1>4, <1>5, <3>1 DEF RunCalls, Fits
  <2>3. \A o \in orphans' : o.label \in history'.orphaned
    BY <1>4 DEF Ask, RunCalls
  <2> QED BY <2>1, <2>2, <2>3 DEF RunCalls
<1>8. ASSUME NEW row, RunRow(row), row.label \in Labels, row.label = driver.label => row.run # runs
      PROVE  RunRow(row)'
  BY <1>4, <1>5, <1>8 DEF RunRow, Superseded
<1>9. RunRows'
  <2>1. ASSUME NEW row \in driver.rows PROVE row.run = runs /\ RunRow(row)'
    <3>1. row.label # driver.label
      BY <1>1, <2>1 DEF Placed, LabelsOf
    <3>2. row.label \in Labels
      BY <1>1, <2>1 DEF Drivers, Rows
    <3> QED BY <1>1, <1>8, <2>1, <3>1, <3>2 DEF RunRows
  <2>2. ASSUME NEW c \in Configs, Whole(c), NEW row \in result[c].rows
        PROVE  row.run <= runs /\ row.run < runs /\ RunRow(row)'
    <3>1. row.run <= runs /\ row.run < runs /\ RunRow(row)
      BY <1>1, <2>2 DEF RunRows
    <3>2. row.label \in Labels /\ row.run \in RunIds
      BY <2>2 DEF Typed, DiskTyped, Results, Whole, Rows
    <3> QED BY <1>1, <1>8, <3>1, <3>2 DEF RunIds
  <2> QED BY <1>3, <2>1, <2>2 DEF Ask, RunRows, Whole
<1> QED BY <1>6, <1>7, <1>9

LEMMA RunStateStep == Typed /\ Typed' /\ Placed /\ RunInv /\ [Next]_vars => RunState'
<1> SUFFICES ASSUME Typed, Typed', Placed, RunInv, [Next]_vars, ~Ask PROVE RunState'
  BY AskRuns
<1> USE DEF RunInv, RunState, disk, world
<1>off. /\ ~At("off") => driver \in Drivers /\ runs \in RunIds
        /\ At("off")' <=> driver' = Off
        /\ At("off") <=> driver = Off
  BY AtOff, OffFacts DEF Typed, DriverTyped, At
<1>hist. history'.asked = history.asked /\ history.orphaned \subseteq history'.orphaned
  BY AskedStays
<1>fits. \A l, f : Fits(l, f) => Fits(l, f)'
  BY <1>hist DEF Fits
<1>row. \A row : RunRow(row) => RunRow(row)'
  BY <1>hist DEF RunRow, Superseded
<1>label. driver.pc \in CellStages => driver \in Drivers /\ driver.label \in Labels /\ ~At("off")
  BY <1>off, LabelsAreLabels DEF Typed, DriverTyped, At, CellStages, Drivers
<1>calls. UNCHANGED <<trace, pending, orphans>> => RunCalls'
  BY <1>fits, <1>hist DEF RunCalls
<1>asked. (UNCHANGED <<driver, runs>> \/ driver'.pc \notin {"host", "score"}) => RunAsked'
  BY <1>hist DEF RunAsked
<1>off2. driver' = Off => driver'.pc \notin {"host", "score"} /\ At("off")'
  BY DEF Off, At
<1>rows. UNCHANGED <<driver, result, capture, runs>> => RunRows'
  BY <1>row DEF RunRows, Whole, At
<1>ends. driver' = Off /\ UNCHANGED <<result, capture, runs>> => RunRows'
  BY <1>row, <1>off2 DEF RunRows, Whole
<1>works. ~At("off") /\ ~At("off")' /\ driver'.rows = driver.rows
            /\ UNCHANGED <<result, capture, runs>> => RunRows'
  BY <1>row DEF RunRows, Whole
<1>1. ASSUME NEW config \in Configs, StartRun(config) PROVE RunState'
  <2>1. driver'.pc = "round" /\ driver'.rows = {} /\ runs' = runs + 1 /\ At("off")
    BY <1>1 DEF StartRun
  <2>2. RunRows'
    <3>1. ASSUME NEW c \in Configs, Whole(c), NEW row \in result[c].rows
          PROVE  row.run <= runs' /\ row.run < runs' /\ RunRow(row)'
      <4>1. row.run <= runs /\ RunRow(row)
        BY <3>1 DEF RunRows
      <4>2. row.run \in Int /\ runs \in Int
        BY <3>1 DEF Typed, DiskTyped, OthersTyped, Results, Whole, Rows, RunIds
      <4> QED BY <1>row, <2>1, <4>1, <4>2
    <3>2. ASSUME NEW l \in Labels, capture[l].there PROVE capture[l].holds.run <= runs'
      <4>1. capture[l].holds.run \in Int /\ runs \in Int
        BY <3>2, FileKinds DEF Typed, DiskTyped, OthersTyped, RunIds
      <4> QED BY <2>1, <3>2, <4>1 DEF RunRows
    <3> QED BY <1>1, <2>1, <3>1, <3>2 DEF StartRun, RunRows, Whole
  <2> QED BY <1>1, <1>asked, <1>calls, <2>1, <2>2 DEF StartRun
<1>2. ASSUME NEW cell \in AllCells, Prepare(cell) PROVE RunState'
  <2>1. driver \in Drivers /\ ~At("off")
    BY <1>2, <1>off DEF Prepare, At
  <2>2. driver'.pc = "ask" /\ driver'.rows = driver.rows
    BY <1>2, <2>1 DEF Prepare, PrepareOn, Drivers
  <2>3. RunRows'
    BY <1>2, <1>works, <2>1, <2>2 DEF Prepare, At
  <2> QED BY <1>2, <1>asked, <1>calls, <2>2, <2>3 DEF Prepare
<1>3. ASSUME NEW cell \in AllCells, PrepareFails(cell) PROVE RunState'
  BY <1>3, <1>asked, <1>calls, <1>ends, <1>off2 DEF PrepareFails
<1>4. ASSUME NEW s \in Servers, NEW t \in Tools, HostCalls(s, t) PROVE RunState'
  <2> DEFINE frame == [run |-> runs, server |-> s, tool |-> t]
             label == driver.label
  <2>1. driver.pc = "host" /\ label \in Labels /\ runs \in RunIds
    BY <1>4, <1>label, <1>off DEF HostCalls, At, CellStages
  <2>2. frame \in Frames /\ Fits(label, frame)
    BY <2>1 DEF Frames, Fits, RunAsked
  <2>3. \/ trace' = Logged(label, {frame}) /\ pending' = pending
        \/ trace' = Logged(label, {})
             /\ pending' = pending \cup {[label |-> label, frame |-> frame]}
    BY <1>4 DEF HostCalls
  <2>4. UNCHANGED <<driver, capture, result, orphans, runs>>
    BY <1>4 DEF HostCalls
  <2> HIDE DEF frame, label
  <2>5. PICK frames \in {{}, {frame}} : trace' = Logged(label, frames)
    BY <2>3
  <2>6. frames \in SUBSET Frames /\ \A f \in frames : Fits(label, f)
    BY <2>2
  <2>7. \A k \in Labels : trace'[k].there => \A f \in trace'[k].holds : Fits(k, f)
    BY <2>1, <2>5, <2>6, LoggedFits
  <2>8. \A p \in pending' : Fits(p.label, p.frame)
    BY <2>2, <2>3 DEF RunCalls
  <2>9. RunCalls'
    BY <1>fits, <1>hist, <2>4, <2>7, <2>8 DEF RunCalls
  <2> QED BY <1>asked, <1>rows, <2>4, <2>9
<1>5. ASSUME NEW body \in Bodies, Answers(body) PROVE RunState'
  <2>1. driver \in Drivers /\ driver.pc = "host" /\ driver.label \in Labels /\ ~At("off")
          /\ runs \in RunIds
    BY <1>5, <1>label, <1>off DEF Answers, At, CellStages
  <2>2. /\ driver'.pc = "score" /\ driver'.label = driver.label /\ driver'.rows = driver.rows
        /\ ~At("off")'
    BY <1>5, <2>1 DEF Answers, Drivers, At
  <2>3. trace' = trace \/ trace' = Logged(driver.label, {})
    BY <1>5 DEF Answers
  <2>4. \A k \in Labels : trace'[k].there => \A f \in trace'[k].holds : Fits(k, f)
    BY <2>1, <2>3, LoggedFits DEF RunCalls
  <2>5. RunCalls'
    BY <1>5, <1>fits, <1>hist, <2>4 DEF Answers, RunCalls
  <2>6. RunAsked'
    BY <1>5, <1>hist, <2>1, <2>2 DEF Answers, RunAsked
  <2>7. RunRows'
    <3>1. \A l \in Labels : capture'[l].there => capture'[l].holds.run <= runs
      BY <1>5, <2>1 DEF Answers, RunRows, Typed, DiskTyped, File, RunIds
    <3> QED BY <1>5, <1>row, <2>1, <2>2, <3>1 DEF Answers, RunRows, Whole
  <2> QED BY <2>5, <2>6, <2>7
<1>6. ASSUME NEW p \in pending, LateWrite(p) PROVE RunState'
  <2> DEFINE frames == {p.frame}
             label == p.label
  <2>1. p \in [label : Labels, frame : Frames]
    BY DEF Typed, OthersTyped
  <2>2. UNCHANGED <<driver, capture, result, orphans, runs>>
          /\ trace' = Logged(label, frames) /\ pending' = pending \ {p}
    BY <1>6 DEF LateWrite
  <2>3. label \in Labels /\ frames \in SUBSET Frames /\ \A f \in frames : Fits(label, f)
    BY <2>1 DEF RunCalls
  <2> HIDE DEF frames, label
  <2>4. \A k \in Labels : trace'[k].there => \A f \in trace'[k].holds : Fits(k, f)
    BY <2>2, <2>3, LoggedFits
  <2>5. RunCalls'
    BY <1>fits, <1>hist, <2>2, <2>4 DEF RunCalls
  <2> QED BY <1>asked, <1>rows, <2>2, <2>5
<1>7. ASSUME NEW o \in orphans, OrphanCalls(o) PROVE RunState'
  <2>1. o \in [label : Labels, run : RunIds, sees : SUBSET Servers]
    BY DEF Typed, OthersTyped
  <2>2. PICK s \in o.sees, t \in Tools :
          trace' = Logged(o.label, {[run |-> o.run, server |-> s, tool |-> t]})
    BY <1>7 DEF OrphanCalls
  <2> DEFINE label == o.label
             frames == {[run |-> o.run, server |-> s, tool |-> t]}
  <2>3. UNCHANGED <<driver, capture, result, pending, runs>> /\ orphans' = orphans \ {o}
    BY <1>7 DEF OrphanCalls
  <2>4. label \in Labels /\ label \in history.orphaned
    BY <2>1 DEF RunCalls
  <2>5. frames \in SUBSET Frames
    BY <2>1 DEF Frames
  <2>6. trace' = Logged(label, frames)
    BY <2>2
  <2> HIDE DEF label, frames
  <2>7. \A k \in Labels : trace'[k].there => \A f \in trace'[k].holds : Fits(k, f)
    BY <2>4, <2>5, <2>6, LoggedFits DEF Fits
  <2>8. RunCalls'
    BY <1>fits, <1>hist, <2>3, <2>7 DEF RunCalls
  <2> QED BY <1>asked, <1>rows, <2>3, <2>8
<1>8. CASE Score
  <2> DEFINE row == Row(driver.label, runs, capture[driver.label].holds.body,
                        trace[driver.label].there, trace[driver.label], driver.graded)
  <2>1. driver \in Drivers /\ driver.pc = "score" /\ driver.label \in Labels /\ ~At("off")
    BY <1>8, <1>label DEF Score, At, CellStages
  <2>2. row.label = driver.label /\ row.run = runs /\ row.calls = trace[driver.label]
    BY DEF Row
  <2>3. driver' = [driver EXCEPT !.pc = "cleanup", !.rows = @ \cup {row}]
    BY <1>8 DEF Score
  <2>4. RunRow(row)
    BY <2>1, <2>2 DEF RunRow, RunCalls, RunAsked, Fits
  <2> HIDE DEF row
  <2>5. driver'.pc = "cleanup" /\ driver'.rows = driver.rows \cup {row} /\ ~At("off")'
    BY <2>1, <2>3 DEF Drivers, At
  <2>6. RunRows'
    BY <1>8, <1>row, <2>1, <2>2, <2>4, <2>5 DEF Score, RunRows, Whole
  <2> QED BY <1>8, <1>asked, <1>calls, <2>5, <2>6 DEF Score
<1>9. CASE Cleanup
  <2>1. driver \in Drivers /\ ~At("off") /\ driver' = AfterCell
    BY <1>9, <1>off DEF Cleanup, At
  <2>2. driver'.rows = driver.rows /\ driver'.pc \in {"round", "dump"}
    BY <2>1, AfterCellTyped DEF AfterCell, Drivers
  <2>3. RunRows'
    BY <1>9, <1>works, <2>1, <2>2 DEF Cleanup, At
  <2> QED BY <1>9, <1>asked, <1>calls, <2>2, <2>3 DEF Cleanup
<1>10. CASE OpenResult
  <2>1. driver \in Drivers /\ ~At("off")
    BY <1>10, <1>off DEF OpenResult, At
  <2>2. driver'.pc = "dumping" /\ driver'.rows = driver.rows /\ ~At("off")'
    BY <1>10, <2>1 DEF OpenResult, Drivers, At
  <2>3. \A c \in Configs : Whole(c)' => result'[c] = result[c] /\ Whole(c)
    BY <1>10 DEF OpenResult, Typed, DiskTyped, Whole
  <2>4. RunRows'
    BY <1>10, <1>row, <2>1, <2>2, <2>3 DEF OpenResult, RunRows
  <2> QED BY <1>10, <1>asked, <1>calls, <2>2, <2>4 DEF OpenResult
<1>11. CASE DumpResult
  <2>1. driver \in Drivers /\ ~At("off") /\ driver' = Off /\ runs \in RunIds
    BY <1>11, <1>off DEF DumpResult, At
  <2>2. \A c \in Configs : result'[c] = result[c] \/ result'[c].rows = driver.rows
    BY <1>11, <2>1 DEF DumpResult, Typed, DiskTyped
  <2>3. \A row \in driver.rows : row.run <= runs
    BY <2>1 DEF RunRows, RunIds
  <2>4. RunRows'
    BY <1>11, <1>row, <1>off2, <2>1, <2>2, <2>3 DEF DumpResult, RunRows, Whole
  <2> QED BY <1>11, <1>asked, <1>calls, <1>off2, <2>1, <2>4 DEF DumpResult
<1>12. CASE Interrupt
  BY <1>12, <1>asked, <1>calls, <1>ends, <1>off2 DEF Interrupt
<1>13. CASE Kill
  <2>1. \A o \in orphans' : o.label \in history'.orphaned
    <3>1. CASE At("host")
      <4>1. history'.orphaned = history.orphaned \cup {driver.label}
        BY <1>13, <3>1 DEF Kill, Typed, HistoryTyped
      <4> QED BY <1>13, <3>1, <4>1 DEF Kill, RunCalls
    <3>2. CASE ~At("host")
      BY <1>13, <1>hist, <3>2 DEF Kill, RunCalls
    <3> QED BY <3>1, <3>2
  <2>2. RunCalls'
    BY <1>13, <1>fits, <2>1 DEF Kill, RunCalls
  <2> QED BY <1>13, <1>asked, <1>ends, <1>off2, <2>2 DEF Kill
<1>14. CASE MoveTable \/ CaptureTruth
  BY <1>14, <1>asked, <1>calls, <1>rows DEF MoveTable, CaptureTruth
<1>15. ASSUME NEW config \in Configs, Rescore(config) PROVE RunState'
  <2>1. RunRows'
    BY <1>15, <1>row, RescoreRows DEF Rescore, RunRows, At
  <2> QED BY <1>15, <1>asked, <1>calls, <2>1 DEF Rescore
<1>18. CASE DumpRescored
  <2>1. RunRows'
    BY <1>18, <1>row, DumpedRows DEF DumpRescored, RunRescored, RunRows, Whole, At
  <2> QED BY <1>18, <1>asked, <1>calls, <2>1 DEF DumpRescored
<1>19. CASE KillRescore
  BY <1>19, <1>asked, <1>calls, <1>rows DEF KillRescore
<1>16. ASSUME NEW config \in Configs, Replay(config) PROVE RunState'
  BY <1>16, <1>asked, <1>calls, <1>rows DEF Replay
<1>17. CASE UNCHANGED vars
  BY <1>17, <1>asked, <1>calls, <1>rows DEF vars
<1> QED
  BY <1>1, <1>2, <1>3, <1>4, <1>5, <1>6, <1>7, <1>8, <1>9, <1>10, <1>11, <1>12, <1>13, <1>14,
     <1>15, <1>16, <1>17, <1>18, <1>19 DEF Next, AllCells

LEMMA RunStep == Typed /\ Typed' /\ Placed /\ RunInv /\ [Next]_vars => RunInv'
<1> SUFFICES ASSUME Typed, Typed', Placed, RunInv, [Next]_vars PROVE RunRescored'
  BY RunStateStep DEF RunInv, RunState
<1> USE DEF RunInv
<1>1. ~Ask => \A row : RunRow(row) => RunRow(row)'
  BY AskedStays DEF RunRow, Superseded
<1>2. ASSUME NEW config \in Configs, Rescore(config) PROVE RunRescored'
  <2> SUFFICES ASSUME NEW x \in rescorer'.rows PROVE x.run <= runs /\ RunRow(x)
    BY <1>1, <1>2 DEF RunRescored, Rescore, RunRow, Superseded
  <2>1. PICK row \in result[config].rows : x = Rescored(row)
    BY <1>2, RescoreRows
  <2>2. /\ x.label \in Labels /\ x.calls = trace[x.label]
        /\ capture[x.label].there /\ x.run = capture[x.label].holds.run
    BY <1>2, <2>1, RescoreRows DEF Rows
  <2> QED BY <2>2 DEF RunRow, RunRows, RunCalls, Fits, Superseded
<1>3. CASE rescorer # Off /\ rescorer' = rescorer
  <2>1. ~Ask /\ runs' = runs
    BY <1>3, RescorerAlone DEF Typed, RescorerTyped, Ask, At
  <2> QED BY <1>1, <1>3, <2>1 DEF RunRescored
<1> QED BY <1>2, <1>3, RescorerMoves DEF RunRescored

(* A row holds the calls of the run that got its answer, although every    *)
(* run of a label writes to one file and no file says whose it is          *)
(* (run_matrix.py, one_cell; mcp_trace.py, main), unless a later run has   *)
(* asked the label since or a host outlived its driver.                    *)
THEOREM RowsHoldTheirCalls == Spec => []OwnTrace
<1>1. Init => CompleteInv /\ RunInv
  BY TypeInit, PlacedInit, RunInit DEF CompleteInv
<1>2. (CompleteInv /\ RunInv) /\ [Next]_vars => (CompleteInv /\ RunInv)'
  BY TypeStep, CompleteStep, RunStep DEF CompleteInv
<1>3. CompleteInv /\ RunInv => OwnTrace
  BY DEF RunInv, RunRows, RunRescored, RunRow, OwnTrace, RowsNow
<1> QED BY <1>1, <1>2, <1>3, PTL DEF Spec

-----------------------------------------------------------------------------
(***************************************************************************)
(* What the fields of a row and the lines of a tool's answer say.          *)
(***************************************************************************)
LEMMA JoinedField ==
  ASSUME NEW part, NEW rest, NEW k
  PROVE  /\ k \in DOMAIN Joined(part, rest) <=> k \in DOMAIN part \/ k \in DOMAIN rest
         /\ k \in DOMAIN part => Joined(part, rest)[k] = part[k]
         /\ k \in DOMAIN rest /\ k \notin DOMAIN part => Joined(part, rest)[k] = rest[k]
BY DEF Joined

(* What a traced row says of its tools it says of the calls it carries.    *)
LEMMA UntooledField ==
  ASSUME NEW row, row.calls.there
  PROVE  FromTrace(row).answered_without_tools =
           {{f.tool : f \in row.calls.holds} = {} /\ Substantive(row.body) /\ ~Says(REFUSAL, row.body)}
<1> DEFINE key == "answered_without_tools"
           calls == {f.tool : f \in row.calls.holds}
           called == read_trace(calls)
           found == {calls = {} /\ Substantive(row.body) /\ ~Says(REFUSAL, row.body)}
           untooled == [answered_without_tools |-> found]
           arithmetic == IF Question \in {"Q4", "Q5"}
             THEN [model_did_arithmetic |-> {Yes(read_trace(calls).fetched_rows) /\ HasDigit(row.body)}]
             ELSE << >>
           kept == Joined(called, untooled)
<1>1. key \notin DOMAIN called
  BY DEF read_trace
<1>2. key \in DOMAIN untooled /\ untooled[key] = found
  OBVIOUS
<1>3. FromTrace(row) = Joined(kept, arithmetic)
  BY DEF FromTrace, Provenance
<1> HIDE DEF key, called, untooled, arithmetic, found
<1>4. key \in DOMAIN kept /\ kept[key] = found
  BY <1>1, <1>2, JoinedField
<1> HIDE DEF kept
<1>5. FromTrace(row)[key] = found
  BY <1>3, <1>4, JoinedField
<1> QED BY <1>5 DEF key, found, calls

LEMMA UntooledHolds ==
  ASSUME NEW row, row.calls.there, Yes(FromTrace(row).answered_without_tools)
  PROVE  row.calls.holds = {}
<1>1. {f.tool : f \in row.calls.holds} = {}
  BY UntooledField DEF Yes
<1> QED BY <1>1

(* The lines that tell of rows hold nothing that pairing takes out.        *)
LEMMA LinesPair ==
  ASSUME NEW n \in Int
  PROVE  /\ for_pairing(<< Num(n), Noun("row") >>) = {Num(n), Noun("row")}
         /\ for_pairing(<< Num(n), Noun("row"), Date(11) >>) = {Num(n), Noun("row"), Date(11)}
         /\ Noun("row") \notin for_pairing(<< Phrase("sampled") >>)
<1>1. ASSUME NEW line, \A u \in In(line) : u[1] \notin {"long", "uri", "grouped"}
      PROVE  for_pairing(line) = In(line)
  BY <1>1 DEF for_pairing
<1>2. /\ In(<< Num(n), Noun("row") >>) = {Num(n), Noun("row")}
      /\ In(<< Num(n), Noun("row"), Date(11) >>) = {Num(n), Noun("row"), Date(11)}
      /\ In(<< Phrase("sampled") >>) = {Phrase("sampled")}
  BY DEF In
<1>3. /\ Num(n)[1] = "num" /\ Noun("row")[1] = "noun" /\ Date(11)[1] = "date"
      /\ Phrase("sampled")[1] = "phrase"
  BY DEF Num, Noun, Date, Phrase
<1>4. /\ \A u \in {Num(n), Noun("row"), Date(11)} : u[1] \notin {"long", "uri", "grouped"}
      /\ \A u \in {Phrase("sampled")} : u[1] \notin {"long", "uri", "grouped"}
  BY <1>3
<1>5. Noun("row") # Phrase("sampled")
  BY <1>3
<1>6. /\ for_pairing(<< Num(n), Noun("row") >>) = In(<< Num(n), Noun("row") >>)
      /\ for_pairing(<< Num(n), Noun("row"), Date(11) >>) = In(<< Num(n), Noun("row"), Date(11) >>)
      /\ for_pairing(<< Phrase("sampled") >>) = In(<< Phrase("sampled") >>)
  BY <1>1, <1>2, <1>4
<1> QED BY <1>2, <1>5, <1>6

(* What a count and a scan state: the scan stops at its limit.             *)
LEMMA CountsStated ==
  ASSUME NEW n \in Int, NEW v \in Versions
  PROVE  /\ states_count(n, CountSays(v)) <=> n = RowCount(v)
         /\ states_count(n, ScanSays(v)) <=> n = MAX_ROW_LIMIT
         /\ states_count(n, CountSays(v)) => states_count(n, FilterScanSays(v))
<1>0. v \in {1, 2}
  BY DEF Versions
<1>1. RowCount(v) \in Int /\ MAX_ROW_LIMIT \in Int
        /\ (RowCount(v) <= MAX_ROW_LIMIT => RowCount(v) = MAX_ROW_LIMIT)
  BY <1>0 DEF RowCount, MAX_ROW_LIMIT
<1>2. ASSUME NEW m \in Int, Num(n) = Num(m) PROVE n = m
  BY <1>2 DEF Num
<1>3. Num(n) # Noun("row") /\ Num(n) # Date(11)
  BY DEF Num, Noun, Date
<1>4. ASSUME NEW body
      PROVE  states_count(n, body) <=>
               \E line \in body : Noun("row") \in for_pairing(line) /\ Num(n) \in for_pairing(line)
  BY DEF states_count, Beside
<1>5. states_count(n, CountSays(v)) <=> n = RowCount(v)
  <2>1. CountSays(v) = {<< Num(RowCount(v)), Noun("row") >>}
    BY DEF CountSays
  <2>2. for_pairing(<< Num(RowCount(v)), Noun("row") >>) = {Num(RowCount(v)), Noun("row")}
    BY <1>1, LinesPair
  <2> QED BY <1>1, <1>2, <1>3, <1>4, <2>1, <2>2
<1>6. states_count(n, ScanSays(v)) <=> n = MAX_ROW_LIMIT
  <2> DEFINE line == << Num(MAX_ROW_LIMIT), Noun("row"), Date(11) >>
  <2>1. ScanSays(v) \in {{line}, {line, << Phrase("sampled") >>}}
    BY <1>1 DEF ScanSays
  <2>2. /\ for_pairing(line) = {Num(MAX_ROW_LIMIT), Noun("row"), Date(11)}
        /\ Noun("row") \notin for_pairing(<< Phrase("sampled") >>)
    BY <1>1, LinesPair
  <2> HIDE DEF line
  <2> QED BY <1>1, <1>2, <1>3, <1>4, <2>1, <2>2
<1>7. states_count(n, CountSays(v)) => states_count(n, FilterScanSays(v))
  BY <1>4 DEF FilterScanSays
<1> QED BY <1>5, <1>6, <1>7

(* A call that tells the count of a version the table does not have would  *)
(* tell it of a table that has it.                                         *)
LEMMA SaidAsMuch ==
  ASSUME NEW g \in Versions, NEW v \in Versions, NEW s, NEW t,
         states_count(RowCount(g), Said(s, t, v))
  PROVE  states_count(RowCount(g), Said(s, t, g))
<1>0. /\ g \in {1, 2} /\ v \in {1, 2}
      /\ RowCount(g) \in Int /\ RowCount(v) \in Int /\ (RowCount(g) = RowCount(v) => g = v)
  BY DEF RowCount, Versions
<1>1. CASE t = "count_rows"
  BY <1>0, <1>1, CountsStated DEF Said
<1>2. CASE t # "count_rows" /\ SERVERS[s].filters
  <2>1. Said(s, t, g) = FilterScanSays(g)
    BY <1>2 DEF Said
  <2> QED BY <1>0, <2>1, CountsStated
<1>3. CASE t # "count_rows" /\ ~SERVERS[s].filters
  <2>1. Said(s, t, g) = ScanSays(g) /\ Said(s, t, v) = ScanSays(v)
    BY <1>3 DEF Said
  <2> QED BY <1>0, <2>1, CountsStated
<1> QED BY <1>1, <1>2, <1>3

-----------------------------------------------------------------------------
(***************************************************************************)
(* The calls a host made are in the trace of their label or on their way   *)
(* to it, as long as no later run has asked the label, and what a row      *)
(* holds stays in its trace.                                               *)
(***************************************************************************)
OfCell(m) ==
  ~At("off") /\ m.run = runs =>
    \/ m.label \in LabelsOf(driver.rows)
    \/ driver.pc \in {"host", "score"} /\ m.label = driver.label
OnFile(m) ==
  history.asked[m.label] = m.run =>
    \/ [label |-> m.label, frame |-> m.call] \in pending
    \/ trace[m.label].there /\ m.call \in trace[m.label].holds
MadeKept ==
  \A m \in history.made : m.call.run = m.run /\ m.run <= runs /\ OfCell(m) /\ OnFile(m)

KeptRow(row) ==
  row.calls.there =>
    \/ Superseded(row)
    \/ trace[row.label].there /\ row.calls.holds \subseteq trace[row.label].holds
RowsKept ==
  /\ ~At("off") => \A row \in driver.rows : KeptRow(row)
  /\ \A c \in Configs : Whole(c) => \A row \in result[c].rows : KeptRow(row)

(* Of a row that the replay reports no call it holds, put to the row's own *)
(* server, says the count.                                                 *)
CallsSilent(row) ==
  \A f \in row.calls.holds : f.tool \in Offers(row.label[2]) =>
    ~states_count(RowCount(row.graded), Said(row.label[2], f.tool, row.graded))
Replayed(r) ==
  /\ r.row \in Rows
  /\ r.row.run <= runs /\ (~At("off") => r.row.run < runs)
  /\ r.table = r.row.graded /\ r.row.calls.there /\ ~Superseded(r.row) => CallsSilent(r.row)
ReplaysTrue == \A r \in replayed : Replayed(r)

(* A host calls what its servers offer. *)
CallsOffered == \A m \in history.made : m.call.tool \in Offers(m.call.server)

(* What a rescore is about to write. *)
RescoredKept ==
  rescorer # Off =>
    /\ \A row \in rescorer.rows : KeptRow(row)
    /\ \A old \in rescorer.was : HasHistory(old, rescorer.rows)

KeptState == MadeKept /\ RowsKept /\ ReplaysTrue
KeptInv == MadeKept /\ RowsKept /\ ReplaysTrue /\ CallsOffered /\ RescoredKept

LEMMA KeptInit == Init => KeptInv
<1> SUFFICES ASSUME Init PROVE KeptInv
  OBVIOUS
<1>1. At("off") /\ (\A c \in Configs : ~Whole(c)) /\ history.made = {} /\ replayed = {}
  BY DEF Init, At, Off, Whole
<1>2. rescorer = Off
  BY DEF Init
<1> QED BY <1>1, <1>2 DEF KeptInv, MadeKept, RowsKept, ReplaysTrue, CallsOffered, RescoredKept

(* A step that only writes to the traces. *)
Grown ==
  \A k \in Labels : trace[k].there => trace'[k].there /\ trace[k].holds \subseteq trace'[k].holds

LEMMA LoggedGrows ==
  ASSUME Typed, NEW l \in Labels, NEW frames \in SUBSET Frames, trace' = Logged(l, frames)
  PROVE  Grown /\ trace'[l].there /\ frames \subseteq trace'[l].holds
<1>1. trace \in [Labels -> Files]
  BY DEF Typed, DiskTyped
<1>2. trace'[l].there /\ trace'[l].holds = (IF trace[l].there THEN trace[l].holds ELSE {}) \cup frames
  BY <1>1, LoggedTyped
<1>3. \A k \in Labels : k # l => trace'[k] = trace[k]
  BY <1>1, LoggedTyped
<1> QED BY <1>2, <1>3 DEF Grown

(* Only a question starts a trace anew. *)
LEMMA TracesGrow == ASSUME Typed, [Next]_vars, ~Ask PROVE Grown
<1>1. UNCHANGED trace => Grown
  BY DEF Grown
<1>2. ASSUME NEW s \in Servers, NEW t \in Tools, HostCalls(s, t) PROVE Grown
  <2> DEFINE frame == [run |-> runs, server |-> s, tool |-> t]
  <2>1. driver.pc = "host" /\ driver.label \in Labels /\ runs \in RunIds
    BY <1>2, AtOff, OffFacts, LabelsAreLabels
    DEF HostCalls, At, CellStages, Drivers, Typed, DriverTyped
  <2>2. {frame} \in SUBSET Frames /\ {} \in SUBSET Frames
    BY <2>1 DEF Frames
  <2>3. trace' = Logged(driver.label, {frame}) \/ trace' = Logged(driver.label, {})
    BY <1>2 DEF HostCalls
  <2> HIDE DEF frame
  <2> QED BY <2>1, <2>2, <2>3, LoggedGrows
<1>3. ASSUME NEW body \in Bodies, Answers(body) PROVE Grown
  <2>1. driver.pc = "host" /\ driver.label \in Labels
    BY <1>3, AtOff, OffFacts, LabelsAreLabels
    DEF Answers, At, CellStages, Drivers, Typed, DriverTyped
  <2>2. UNCHANGED trace \/ trace' = Logged(driver.label, {})
    BY <1>3 DEF Answers
  <2> QED BY <1>1, <2>1, <2>2, LoggedGrows
<1>4. ASSUME NEW p \in pending, LateWrite(p) PROVE Grown
  <2>1. p.label \in Labels /\ {p.frame} \in SUBSET Frames
    BY DEF Typed, OthersTyped
  <2> QED BY <1>4, <2>1, LoggedGrows DEF LateWrite
<1>5. ASSUME NEW o \in orphans, OrphanCalls(o) PROVE Grown
  <2>1. o \in [label : Labels, run : RunIds, sees : SUBSET Servers]
    BY DEF Typed, OthersTyped
  <2>2. PICK s \in o.sees, t \in Tools :
          trace' = Logged(o.label, {[run |-> o.run, server |-> s, tool |-> t]})
    BY <1>5 DEF OrphanCalls
  <2>3. {[run |-> o.run, server |-> s, tool |-> t]} \in SUBSET Frames /\ o.label \in Labels
    BY <2>1 DEF Frames
  <2> QED BY <2>2, <2>3, LoggedGrows
<1> QED
  BY <1>1, <1>2, <1>3, <1>4, <1>5 DEF Next, StartRun, Rescore, Replay, Prepare, PrepareFails,
     Score, Cleanup, OpenResult, DumpResult, Interrupt, Kill, MoveTable, CaptureTruth,
     DumpRescored, KillRescore, vars, disk

(* A question starts its trace anew, of a label that its run has not asked *)
(* before: it supersedes the rows and the calls of earlier runs.           *)
LEMMA AskKept == Typed /\ Placed /\ RunInv /\ KeptInv /\ Ask => KeptState'
<1> SUFFICES ASSUME Typed, Placed, RunInv, KeptInv, Ask PROVE KeptState'
  OBVIOUS
<1> USE DEF KeptInv, KeptState, disk, world
<1>1. driver \in Drivers /\ driver.pc = "ask" /\ ~At("off") /\ runs \in RunIds
  BY AtOff DEF Ask, At, Typed
<1>2. driver.label \in Labels /\ driver.label \notin LabelsOf(driver.rows)
  <2>1. driver.label \in Labels
    BY <1>1, LabelsAreLabels DEF Typed, DriverTyped, CellStages, Drivers
  <2> QED BY <1>1, <2>1 DEF Placed
<1>3. /\ driver'.pc = "host" /\ driver'.rows = driver.rows /\ driver'.label = driver.label
      /\ ~At("off")'
  BY <1>1 DEF Ask, Drivers, At
<1>4. /\ history'.made = history.made
      /\ \A l \in Labels : history'.asked[l] = IF l = driver.label THEN runs ELSE history.asked[l]
  BY DEF Ask, Typed, HistoryTyped
<1>5. \A l \in Labels : l # driver.label => trace'[l] = trace[l]
  BY DEF Ask, Typed, DiskTyped
<1>6. MadeKept'
  <2> SUFFICES ASSUME NEW m \in history.made
               PROVE  m.call.run = m.run /\ m.run <= runs /\ OfCell(m)' /\ OnFile(m)'
    BY <1>4 DEF MadeKept, Ask
  <2>1. m.call.run = m.run /\ m.run <= runs /\ OfCell(m) /\ OnFile(m)
    BY DEF MadeKept
  <2>2. m.label \in Labels
    BY DEF Typed, HistoryTyped
  <2>3. m.run = runs => m.label \in LabelsOf(driver.rows)
    BY <1>1, <2>1 DEF OfCell
  <2>4. OfCell(m)'
    BY <1>3, <2>3 DEF OfCell, Ask
  <2>5. OnFile(m)'
    <3>1. CASE m.label = driver.label
      BY <1>2, <1>4, <2>3, <3>1 DEF OnFile
    <3>2. CASE m.label # driver.label
      BY <1>4, <1>5, <2>1, <2>2, <3>2 DEF OnFile, Ask
    <3> QED BY <3>1, <3>2
  <2> QED BY <2>1, <2>4, <2>5
<1>7. ASSUME NEW row, KeptRow(row), row.label \in Labels, row.label = driver.label => row.run # runs
      PROVE  KeptRow(row)'
  BY <1>4, <1>5, <1>7 DEF KeptRow, Superseded
<1>8. RowsKept'
  <2>1. ASSUME NEW row \in driver.rows PROVE KeptRow(row)'
    <3>1. row.label # driver.label /\ row.label \in Labels
      BY <1>1, <1>2, <2>1 DEF LabelsOf, Drivers, Rows
    <3> QED BY <1>1, <1>7, <2>1, <3>1 DEF RowsKept
  <2>2. ASSUME NEW c \in Configs, Whole(c), NEW row \in result[c].rows PROVE KeptRow(row)'
    <3>1. row.run < runs /\ KeptRow(row)
      BY <1>1, <2>2 DEF RunInv, RunRows, RowsKept
    <3>2. row.label \in Labels /\ row.run \in RunIds
      BY <2>2 DEF Typed, DiskTyped, Results, Whole, Rows
    <3> QED BY <1>1, <1>7, <3>1, <3>2 DEF RunIds
  <2> QED BY <1>3, <2>1, <2>2 DEF Ask, RowsKept, Whole
<1>9. ReplaysTrue'
  <2> SUFFICES ASSUME NEW r \in replayed PROVE Replayed(r)'
    BY DEF ReplaysTrue, Ask
  <2>1. Replayed(r) /\ r.row.label \in Labels /\ r.row.run \in RunIds
    BY DEF ReplaysTrue, Replayed, Rows
  <2>2. r.row.run < runs
    BY <1>1, <2>1 DEF Replayed
  <2>3. Superseded(r.row) => Superseded(r.row)'
    BY <1>1, <1>4, <2>1, <2>2 DEF Superseded, RunIds
  <2> QED BY <1>1, <1>3, <2>1, <2>2, <2>3 DEF Replayed, Ask
<1> QED BY <1>6, <1>8, <1>9

LEMMA KeptStateStep == Typed /\ Typed' /\ Placed /\ RunInv /\ KeptInv /\ [Next]_vars => KeptState'
<1> SUFFICES ASSUME Typed, Typed', Placed, RunInv, KeptInv, [Next]_vars, ~Ask PROVE KeptState'
  BY AskKept
<1> USE DEF KeptInv, KeptState, disk, world
<1>off. /\ ~At("off") => driver \in Drivers /\ runs \in RunIds
        /\ At("off")' <=> driver' = Off
        /\ At("off") <=> driver = Off
  BY AtOff, OffFacts DEF Typed, DriverTyped, At
<1>hist. history'.asked = history.asked
  BY AskedStays
<1>label. driver.pc \in CellStages => driver \in Drivers /\ driver.label \in Labels /\ ~At("off")
  BY <1>off, LabelsAreLabels DEF Typed, DriverTyped, At, CellStages, Drivers
<1>off2. driver' = Off => At("off")'
  BY DEF Off, At
<1>made. \A m \in history.made : m.label \in Labels /\ m.run \in RunIds
  BY DEF Typed, HistoryTyped
<1>one. \A m \in history.made : m.call.run = m.run /\ m.run <= runs /\ OfCell(m) /\ OnFile(m)
  BY DEF MadeKept
<1>grown. ASSUME Grown
          PROVE  \A row : row.label \in Labels /\ KeptRow(row) => KeptRow(row)'
  BY <1>hist, <1>grown DEF Grown, KeptRow, Superseded
<1>file. ASSUME Grown, pending \subseteq pending' PROVE \A m \in history.made : OnFile(m)'
  BY <1>file, <1>hist, <1>made, <1>one DEF Grown, OnFile
<1>same. trace' = trace => Grown
  BY DEF Grown
<1>typed. /\ ~At("off") => \A row \in driver.rows : row.label \in Labels
          /\ \A c \in Configs : Whole(c) => \A row \in result[c].rows : row.label \in Labels
  BY <1>off DEF Drivers, Rows, Typed, DiskTyped, Results, Whole
<1>rows. Grown /\ UNCHANGED <<driver, result>> => RowsKept'
  BY <1>grown, <1>typed DEF RowsKept, Whole, At
<1>works. Grown /\ ~At("off") /\ ~At("off")' /\ driver'.rows = driver.rows /\ UNCHANGED result => RowsKept'
  BY <1>grown, <1>typed DEF RowsKept, Whole
<1>ends. Grown /\ driver' = Off /\ UNCHANGED result => RowsKept'
  BY <1>grown, <1>off2, <1>typed DEF RowsKept, Whole
<1>replay. UNCHANGED <<replayed, runs>> /\ (UNCHANGED driver \/ At("off")' \/ ~At("off")) => ReplaysTrue'
  BY <1>hist DEF ReplaysTrue, Replayed, Superseded, CallsSilent, At
<1>held. UNCHANGED <<trace, pending, runs>> /\ history'.made = history.made
           /\ (UNCHANGED driver \/ driver' = Off) => MadeKept'
  BY <1>file, <1>off2, <1>one, <1>same DEF MadeKept, OfCell, At
<1>1. ASSUME NEW config \in Configs, StartRun(config) PROVE KeptState'
  <2>1. driver'.rows = {} /\ runs' = runs + 1 /\ At("off") /\ runs \in Int /\ ~At("off")'
    BY <1>1 DEF StartRun, At, Typed, OthersTyped
  <2>2. MadeKept'
    <3> SUFFICES ASSUME NEW m \in history.made
                 PROVE  m.call.run = m.run /\ m.run <= runs' /\ OfCell(m)' /\ OnFile(m)'
      BY <1>1 DEF StartRun, MadeKept
    <3>1. m.run \in Int
      BY <1>made DEF RunIds
    <3>2. OnFile(m)'
      BY <1>1, <1>file, <1>same DEF StartRun
    <3>3. m.call.run = m.run /\ m.run <= runs' /\ m.run # runs'
      BY <1>one, <2>1, <3>1
    <3> QED BY <3>2, <3>3 DEF OfCell
  <2>3. RowsKept'
    BY <1>1, <1>grown, <1>same, <1>typed, <2>1 DEF StartRun, RowsKept, Whole
  <2>4. ReplaysTrue'
    <3> SUFFICES ASSUME NEW r \in replayed PROVE Replayed(r)'
      BY <1>1 DEF ReplaysTrue, StartRun
    <3>1. Replayed(r) /\ r.row.run \in Int
      BY DEF ReplaysTrue, Replayed, Rows, RunIds
    <3>2. r.row.run <= runs' /\ r.row.run < runs'
      BY <2>1, <3>1 DEF Replayed
    <3> QED BY <1>hist, <3>1, <3>2 DEF Replayed, Superseded, CallsSilent
  <2> QED BY <2>2, <2>3, <2>4
<1>2. ASSUME NEW cell \in AllCells, Prepare(cell) PROVE KeptState'
  <2>1. driver \in Drivers /\ ~At("off") /\ driver.pc = "round"
    BY <1>2, <1>off DEF Prepare, At
  <2>2. driver'.pc = "ask" /\ driver'.rows = driver.rows /\ ~At("off")'
    BY <1>2, <2>1 DEF Prepare, PrepareOn, Drivers, At
  <2>3. MadeKept'
    BY <1>2, <1>file, <1>one, <1>same, <2>1, <2>2 DEF Prepare, MadeKept, OfCell
  <2> QED BY <1>2, <1>replay, <1>same, <1>works, <2>1, <2>2, <2>3 DEF Prepare
<1>3. ASSUME NEW cell \in AllCells, PrepareFails(cell) PROVE KeptState'
  BY <1>3, <1>ends, <1>held, <1>off2, <1>replay, <1>same DEF PrepareFails
<1>4. ASSUME NEW s \in Servers, NEW t \in Tools, HostCalls(s, t) PROVE KeptState'
  <2> DEFINE frame == [run |-> runs, server |-> s, tool |-> t]
             label == driver.label
             new == [label |-> label, run |-> runs, call |-> frame, table |-> table]
             late == [label |-> label, frame |-> frame]
  <2>1. driver.pc = "host" /\ label \in Labels /\ runs \in RunIds
    BY <1>4, <1>label, <1>off DEF HostCalls, At, CellStages
  <2>2. frame \in Frames
    BY <2>1 DEF Frames
  <2>3. \/ trace' = Logged(label, {frame}) /\ pending' = pending
        \/ trace' = Logged(label, {}) /\ pending' = pending \cup {late}
    BY <1>4 DEF HostCalls
  <2>4. UNCHANGED <<driver, result, runs, replayed>> /\ history'.made = history.made \cup {new}
    BY <1>4 DEF HostCalls, Typed, HistoryTyped
  <2>5. new.label = label /\ new.run = runs /\ new.call = frame /\ frame.run = runs
          /\ late = [label |-> new.label, frame |-> new.call]
    OBVIOUS
  <2> HIDE DEF frame, label, new, late
  <2>6. Grown /\ trace'[label].there /\ pending \subseteq pending'
          /\ (frame \in trace'[label].holds \/ late \in pending')
    <3>1. CASE trace' = Logged(label, {frame}) /\ pending' = pending
      <4>1. {frame} \in SUBSET Frames
        BY <2>2
      <4> QED BY <2>1, <3>1, <4>1, LoggedGrows
    <3>2. CASE trace' = Logged(label, {}) /\ pending' = pending \cup {late}
      BY <2>1, <3>2, LoggedGrows
    <3> QED BY <2>3, <3>1, <3>2
  <2>7. ASSUME NEW m, m.label = label, m.run = runs, m.call = frame
        PROVE  m.call.run = m.run /\ m.run <= runs' /\ OfCell(m)' /\ OnFile(m)'
    <3>1. runs \in Int
      BY <2>1 DEF RunIds
    <3>2. OfCell(m)'
      BY <2>1, <2>4, <2>7 DEF OfCell, label
    <3>3. late = [label |-> m.label, frame |-> m.call]
      BY <2>7 DEF late
    <3>4. OnFile(m)'
      BY <2>6, <2>7, <3>3 DEF OnFile
    <3> QED BY <2>4, <2>5, <2>7, <3>1, <3>2, <3>4
  <2>8. \A m \in history.made : OfCell(m)' /\ OnFile(m)'
    BY <1>file, <1>one, <2>4, <2>6 DEF OfCell, At
  <2>9. MadeKept'
    <3> SUFFICES ASSUME NEW m \in history'.made
                 PROVE  m.call.run = m.run /\ m.run <= runs' /\ OfCell(m)' /\ OnFile(m)'
      BY DEF MadeKept
    <3>1. CASE m \in history.made
      BY <1>one, <2>4, <2>8, <3>1
    <3>2. CASE m = new
      BY <2>5, <2>7, <3>2
    <3> QED BY <2>4, <3>1, <3>2
  <2> QED BY <1>replay, <1>rows, <2>4, <2>6, <2>9
<1>5. ASSUME NEW body \in Bodies, Answers(body) PROVE KeptState'
  <2>1. driver \in Drivers /\ driver.pc = "host" /\ driver.label \in Labels /\ ~At("off")
    BY <1>5, <1>label DEF Answers, At, CellStages
  <2>2. /\ driver'.pc = "score" /\ driver'.label = driver.label /\ driver'.rows = driver.rows
        /\ ~At("off")'
    BY <1>5, <2>1 DEF Answers, Drivers, At
  <2>3. Grown
    <3>1. trace' = trace \/ trace' = Logged(driver.label, {})
      BY <1>5 DEF Answers
    <3> QED BY <1>same, <2>1, <3>1, LoggedGrows
  <2>4. MadeKept'
    BY <1>5, <1>file, <1>one, <2>1, <2>2, <2>3 DEF Answers, MadeKept, OfCell
  <2> QED BY <1>5, <1>replay, <1>works, <2>1, <2>2, <2>3, <2>4 DEF Answers
<1>6. ASSUME NEW p \in pending, LateWrite(p) PROVE KeptState'
  <2>1. p.label \in Labels /\ p.frame \in Frames
    BY DEF Typed, OthersTyped
  <2>2. UNCHANGED <<driver, result, runs, replayed>> /\ history'.made = history.made
          /\ pending' = pending \ {p} /\ trace' = Logged(p.label, {p.frame})
    BY <1>6 DEF LateWrite
  <2>3. Grown /\ trace'[p.label].there /\ p.frame \in trace'[p.label].holds
    <3>1. {p.frame} \in SUBSET Frames
      BY <2>1
    <3> QED BY <2>1, <2>2, <3>1, LoggedGrows
  <2>4. MadeKept'
    <3> SUFFICES ASSUME NEW m \in history.made
                 PROVE  m.call.run = m.run /\ m.run <= runs /\ OfCell(m)' /\ OnFile(m)'
      BY <2>2 DEF MadeKept
    <3>1. m.call.run = m.run /\ m.run <= runs /\ OfCell(m) /\ OnFile(m) /\ m.label \in Labels
      BY <1>made, <1>one
    <3>2. OfCell(m)'
      BY <2>2, <3>1 DEF OfCell, At
    <3>3. OnFile(m)'
      <4> SUFFICES ASSUME history.asked[m.label] = m.run,
                          [label |-> m.label, frame |-> m.call] \notin pending'
                   PROVE  trace'[m.label].there /\ m.call \in trace'[m.label].holds
        BY <1>hist DEF OnFile
      <4>1. CASE [label |-> m.label, frame |-> m.call] = p
        <5>1. p.label = m.label /\ p.frame = m.call
          BY <4>1
        <5> QED BY <2>3, <5>1
      <4>2. CASE [label |-> m.label, frame |-> m.call] # p
        BY <2>2, <2>3, <3>1, <4>2 DEF OnFile, Grown
      <4> QED BY <4>1, <4>2
    <3> QED BY <3>1, <3>2, <3>3
  <2> QED BY <1>replay, <1>rows, <2>2, <2>3, <2>4
<1>7. ASSUME NEW o \in orphans, OrphanCalls(o) PROVE KeptState'
  <2>1. o \in [label : Labels, run : RunIds, sees : SUBSET Servers]
    BY DEF Typed, OthersTyped
  <2>2. PICK s \in o.sees, t \in Tools :
          trace' = Logged(o.label, {[run |-> o.run, server |-> s, tool |-> t]})
    BY <1>7 DEF OrphanCalls
  <2>3. {[run |-> o.run, server |-> s, tool |-> t]} \in SUBSET Frames /\ o.label \in Labels
    BY <2>1 DEF Frames
  <2>4. Grown
    BY <2>2, <2>3, LoggedGrows
  <2>5. UNCHANGED <<driver, result, pending, runs, replayed, history>>
    BY <1>7 DEF OrphanCalls
  <2>6. MadeKept'
    BY <1>file, <1>one, <2>4, <2>5 DEF MadeKept, OfCell, At
  <2> QED BY <1>replay, <1>rows, <2>4, <2>5, <2>6
<1>8. CASE Score
  <2> DEFINE row == Row(driver.label, runs, capture[driver.label].holds.body,
                        trace[driver.label].there, trace[driver.label], driver.graded)
  <2>1. driver \in Drivers /\ driver.pc = "score" /\ driver.label \in Labels /\ ~At("off")
    BY <1>8, <1>label DEF Score, At, CellStages
  <2>2. row.label = driver.label /\ row.calls = trace[driver.label]
    BY DEF Row
  <2>3. driver' = [driver EXCEPT !.pc = "cleanup", !.rows = @ \cup {row}]
    BY <1>8 DEF Score
  <2> HIDE DEF row
  <2>4. driver'.pc = "cleanup" /\ driver'.rows = driver.rows \cup {row} /\ ~At("off")'
    BY <2>1, <2>3 DEF Drivers, At
  <2>5. UNCHANGED <<trace, pending, runs, replayed, result, history>>
    BY <1>8 DEF Score
  <2>6. RowsKept'
    <3>1. ASSUME NEW x, x.label = driver.label, x.calls = trace[driver.label]
          PROVE  KeptRow(x)'
      BY <2>5, <3>1 DEF KeptRow
    <3>2. \A x \in driver'.rows : KeptRow(x)'
      BY <1>grown, <1>same, <1>typed, <2>1, <2>2, <2>4, <2>5, <3>1 DEF RowsKept
    <3>3. \A c \in Configs : Whole(c)' => \A x \in result'[c].rows : KeptRow(x)'
      BY <1>grown, <1>same, <1>typed, <2>5 DEF RowsKept, Whole
    <3> QED BY <3>2, <3>3 DEF RowsKept
  <2>7. MadeKept'
    <3>1. LabelsOf(driver'.rows) = LabelsOf(driver.rows) \cup {driver.label}
      BY <2>2, <2>4 DEF LabelsOf
    <3> QED BY <1>file, <1>one, <1>same, <2>1, <2>4, <2>5, <3>1 DEF MadeKept, OfCell
  <2> QED BY <1>replay, <2>1, <2>5, <2>6, <2>7
<1>9. CASE Cleanup
  <2>1. driver \in Drivers /\ ~At("off") /\ driver.pc = "cleanup" /\ driver' = AfterCell
    BY <1>9, <1>off DEF Cleanup, At
  <2>2. driver'.rows = driver.rows /\ ~At("off")'
    BY <2>1, AfterCellTyped DEF AfterCell, Drivers, At
  <2>3. UNCHANGED <<trace, pending, runs, replayed, result>> /\ history'.made = history.made
    BY <1>9 DEF Cleanup, Typed, HistoryTyped
  <2>4. MadeKept'
    BY <1>file, <1>one, <1>same, <2>1, <2>2, <2>3 DEF MadeKept, OfCell
  <2> QED BY <1>replay, <1>same, <1>works, <2>1, <2>2, <2>3, <2>4
<1>10. CASE OpenResult
  <2>1. driver \in Drivers /\ ~At("off") /\ driver.pc = "dump"
    BY <1>10, <1>off DEF OpenResult, At
  <2>2. driver'.rows = driver.rows /\ ~At("off")'
    BY <1>10, <2>1 DEF OpenResult, Drivers, At
  <2>3. UNCHANGED <<trace, pending, runs, replayed, history>>
    BY <1>10 DEF OpenResult
  <2>4. \A c \in Configs : Whole(c)' => result'[c] = result[c] /\ Whole(c)
    BY <1>10 DEF OpenResult, Typed, DiskTyped, Whole
  <2>5. RowsKept'
    BY <1>grown, <1>same, <1>typed, <2>1, <2>2, <2>3, <2>4 DEF RowsKept
  <2>6. MadeKept'
    BY <1>file, <1>one, <1>same, <2>1, <2>2, <2>3 DEF MadeKept, OfCell
  <2> QED BY <1>replay, <2>1, <2>3, <2>5, <2>6
<1>11. CASE DumpResult
  <2>1. driver \in Drivers /\ ~At("off") /\ driver' = Off
    BY <1>11, <1>off DEF DumpResult, At
  <2>2. \A c \in Configs : result'[c] = result[c] \/ result'[c].rows = driver.rows
    BY <1>11, <2>1 DEF DumpResult, Typed, DiskTyped
  <2>3. UNCHANGED <<trace, pending, runs, replayed, history>>
    BY <1>11 DEF DumpResult
  <2>4. RowsKept'
    BY <1>grown, <1>off2, <1>same, <1>typed, <2>1, <2>2, <2>3 DEF RowsKept, Whole
  <2> QED BY <1>held, <1>off2, <1>replay, <2>1, <2>3, <2>4
<1>12. CASE Interrupt \/ Kill
  <2>1. UNCHANGED <<trace, pending, runs, replayed, result>> /\ driver' = Off
          /\ history'.made = history.made
    BY <1>12 DEF Interrupt, Kill, Typed, HistoryTyped
  <2> QED BY <1>ends, <1>held, <1>off2, <1>replay, <1>same, <2>1
<1>13. CASE MoveTable \/ CaptureTruth \/ UNCHANGED vars
  <2>1. UNCHANGED <<driver, trace, pending, runs, replayed, result, history>>
    BY <1>13 DEF MoveTable, CaptureTruth, vars
  <2> QED BY <1>held, <1>replay, <1>rows, <1>same, <2>1
<1>14. ASSUME NEW config \in Configs, Rescore(config) PROVE KeptState'
  <2>1. UNCHANGED <<driver, trace, pending, runs, replayed, history>> /\ At("off") /\ At("off")'
    BY <1>14 DEF Rescore, At
  <2>2. RowsKept'
    BY <1>14, <1>grown, <1>same, <1>typed, <2>1, RescoreRows DEF RowsKept
  <2> QED BY <1>held, <1>replay, <2>1, <2>2
<1>16. CASE DumpRescored
  <2>1. UNCHANGED <<driver, trace, pending, runs, replayed, history>>
    BY <1>16 DEF DumpRescored
  <2>2. \A row \in rescorer.rows : KeptRow(row)'
    BY <1>16, <2>1 DEF DumpRescored, RescoredKept, KeptRow, Superseded
  <2>3. RowsKept'
    BY <1>16, <1>grown, <1>same, <1>typed, <2>1, <2>2, DumpedRows DEF RowsKept, Whole, At
  <2> QED BY <1>held, <1>replay, <2>1, <2>3
<1>17. CASE KillRescore
  <2>1. UNCHANGED <<driver, trace, pending, runs, replayed, result, history>>
    BY <1>17 DEF KillRescore
  <2> QED BY <1>held, <1>replay, <1>rows, <1>same, <2>1
<1>15. ASSUME NEW config \in Configs, Replay(config) PROVE KeptState'
  <2>1. result[config] \in [rows : SUBSET Rows]
    BY <1>15 DEF Replay, Whole, Typed, DiskTyped, Results
  <2>2. UNCHANGED <<driver, trace, pending, runs, result, history>> /\ At("off") /\ Whole(config)
    BY <1>15 DEF Replay
  <2>3. ReplaysTrue'
    <3> SUFFICES ASSUME NEW r \in replayed' PROVE Replayed(r)'
      BY DEF ReplaysTrue
    <3>0. PICK row \in result[config].rows : Outside(row) /\ r = [row |-> row, table |-> table]
      BY <1>15 DEF Replay
    <3>1. row \in Rows /\ row.run <= runs /\ KeptRow(row)
      BY <2>1, <2>2 DEF RunInv, RunRows, RowsKept
    <3>2. truth = row.graded /\ ~from_tools(row)
      BY <1>15, <3>0 DEF Replay, Outside
    <3>3. ASSUME table = row.graded, row.calls.there, ~Superseded(row) PROVE CallsSilent(row)
      <4> SUFFICES ASSUME NEW f \in row.calls.holds, f.tool \in Offers(row.label[2])
                   PROVE  ~states_count(RowCount(row.graded), Said(row.label[2], f.tool, row.graded))
        BY DEF CallsSilent
      <4>1. f \in trace[row.label].holds
        BY <3>1, <3>3 DEF KeptRow
      <4> QED BY <3>2, <3>3, <4>1 DEF from_tools, calls_of, Replies
    <3>4. r.row = row /\ r.table = table
      BY <3>0
    <3>5. Superseded(row)' <=> Superseded(row)
      BY <2>2 DEF Superseded
    <3>6. At("off")'
      BY <2>2 DEF At
    <3>7. r.table = row.graded /\ row.calls.there /\ ~Superseded(row)' => CallsSilent(row)
      BY <3>3, <3>4, <3>5
    <3>8. Replayed(r)' <=>
            /\ row \in Rows
            /\ row.run <= runs' /\ (~At("off")' => row.run < runs')
            /\ r.table = row.graded /\ row.calls.there /\ ~Superseded(row)' => CallsSilent(row)
      BY <3>4 DEF Replayed, Superseded, CallsSilent
    <3> QED BY <2>2, <3>1, <3>6, <3>7, <3>8
  <2> QED BY <1>held, <1>rows, <1>same, <2>2, <2>3
<1> QED
  BY <1>1, <1>2, <1>3, <1>4, <1>5, <1>6, <1>7, <1>8, <1>9, <1>10, <1>11, <1>12, <1>13, <1>14,
     <1>15, <1>16, <1>17 DEF Next, AllCells

(* Which fields a row has depends on its server and on whether it was      *)
(* traced.                                                                 *)
LEMMA FieldsGrow ==
  ASSUME NEW a, NEW b, a.label = b.label, a.calls.there => b.calls.there
  PROVE  DOMAIN FieldsOf(a) \subseteq DOMAIN FieldsOf(b)
<1>1. ASSUME NEW body, NEW known, NEW other, NEW else, NEW server
      PROVE  DOMAIN score(Question, body, known, server) = DOMAIN score(Question, other, else, server)
  <2>1. DOMAIN Fields(body, known) = DOMAIN Fields(other, else)
    BY DEF Fields
  <2>2. DOMAIN Unanswerable(Question, body, server) = DOMAIN Unanswerable(Question, other, server)
    BY DEF Unanswerable
  <2>3. Version(Question, body, known, server) = Version(Question, other, else, server)
    BY DEF Version, Question
  <2>4. DOMAIN [answered_correctly |-> Fields(body, known)[VERDICT[Question]]]
          = DOMAIN [answered_correctly |-> Fields(other, else)[VERDICT[Question]]]
    OBVIOUS
  <2> QED BY <2>1, <2>2, <2>3, <2>4 DEF score, Joined
<1>2. ASSUME NEW body, NEW calls, NEW long, NEW other, NEW those, NEW short
      PROVE  DOMAIN Provenance(Question, body, calls, long) = DOMAIN Provenance(Question, other, those, short)
  <2>1. DOMAIN read_trace(calls) = DOMAIN read_trace(those)
    BY DEF read_trace
  <2> QED BY <2>1 DEF Provenance, Joined, Question
<1> QED BY <1>1, <1>2 DEF FieldsOf, FromTrace, Joined

LEMMA OfferedStep == Typed /\ CallsOffered /\ [Next]_vars => CallsOffered'
<1> SUFFICES ASSUME Typed, CallsOffered, [Next]_vars PROVE CallsOffered'
  OBVIOUS
<1>1. ASSUME NEW s \in Servers, NEW t \in Tools, HostCalls(s, t) PROVE CallsOffered'
  <2> DEFINE frame == [run |-> runs, server |-> s, tool |-> t]
             new == [label |-> driver.label, run |-> runs, call |-> frame, table |-> table]
  <2>1. history'.made = history.made \cup {new} /\ t \in Offers(s)
    BY <1>1 DEF HostCalls, Typed, HistoryTyped
  <2>2. new.call.tool = t /\ new.call.server = s
    OBVIOUS
  <2> HIDE DEF new
  <2> QED BY <2>1, <2>2 DEF CallsOffered
<1>2. CASE UNCHANGED history
  BY <1>2 DEF CallsOffered
<1>3. CASE Ask \/ Cleanup \/ Interrupt \/ Kill
  <2>1. history'.made = history.made
    BY <1>3 DEF Ask, Cleanup, Interrupt, Kill, Typed, HistoryTyped
  <2> QED BY <2>1 DEF CallsOffered
<1> QED
  BY <1>1, <1>2, <1>3 DEF Next, StartRun, Rescore, Replay, Prepare, PrepareFails, Score,
     OpenResult, DumpResult, Answers, LateWrite, OrphanCalls, MoveTable, CaptureTruth,
     DumpRescored, KillRescore, vars

(* A rescore reads every row's trace again; a row that nobody has          *)
(* superseded has its trace still, so the new row has every field the old  *)
(* one had.                                                                *)
LEMMA RescoredKeptStep == Typed /\ KeptInv /\ [Next]_vars => RescoredKept'
<1> SUFFICES ASSUME Typed, KeptInv, [Next]_vars PROVE RescoredKept'
  OBVIOUS
<1> USE DEF KeptInv
<1>1. ASSUME NEW config \in Configs, Rescore(config) PROVE RescoredKept'
  <2>1. UNCHANGED <<trace, history>>
    BY <1>1 DEF Rescore
  <2>2. ASSUME NEW row \in result[config].rows, ~Superseded(row)
        PROVE  SameHistory(row, Rescored(row))
    <3>1. /\ Rescored(row).label = row.label /\ Rescored(row).calls = trace[row.label]
          /\ Unmoved(row) /\ KeptRow(row)
      BY <1>1, <2>2, RescoreRows DEF RowsKept
    <3>2. DOMAIN FieldsOf(row) \subseteq DOMAIN FieldsOf(Rescored(row))
      BY <2>2, <3>1, FieldsGrow DEF KeptRow
    <3> QED BY <3>1, <3>2 DEF SameHistory, Unmoved
  <2>3. /\ rescorer'.was = result[config].rows
        /\ rescorer'.rows = {Rescored(row) : row \in result[config].rows}
        /\ \A row \in result[config].rows :
             Rescored(row).label = row.label /\ Rescored(row).calls = trace[row.label]
    BY <1>1, RescoreRows
  <2>4. ASSUME NEW rows, rows = rescorer'.rows, NEW old \in rescorer'.was
        PROVE  HasHistory(old, rows)'
    <3>1. HasHistory(old, rows)
      BY <2>2, <2>3, <2>4 DEF HasHistory
    <3> QED BY <2>1, <3>1 DEF HasHistory, Superseded
  <2>5. ASSUME NEW x \in rescorer'.rows PROVE KeptRow(x)'
    <3>1. x.calls = trace[x.label]
      BY <2>3, <2>5
    <3> QED BY <2>1, <3>1 DEF KeptRow
  <2> QED BY <2>4, <2>5 DEF RescoredKept
<1>2. CASE rescorer # Off /\ rescorer' = rescorer
  <2>1. ~Ask /\ At("off")
    BY <1>2 DEF Typed, RescorerTyped, Ask, At
  <2>2. history'.asked = history.asked
    BY <2>1, AskedStays
  <2>3. Grown
    BY <1>2, <2>1, TracesGrow
  <2>4. \A row : row.label \in Labels /\ KeptRow(row) => KeptRow(row)'
    BY <2>2, <2>3 DEF Grown, KeptRow, Superseded
  <2>5. \A row \in rescorer.rows : row.label \in Labels
    BY <1>2 DEF Typed, RescorerTyped, Rescorers, Rows
  <2>6. \A old : HasHistory(old, rescorer.rows) => HasHistory(old, rescorer.rows)'
    BY <1>2, <2>2 DEF HasHistory, Superseded
  <2> QED BY <1>2, <2>4, <2>5, <2>6 DEF RescoredKept
<1> QED BY <1>1, <1>2, RescorerMoves DEF RescoredKept

LEMMA KeptStep == Typed /\ Typed' /\ Placed /\ RunInv /\ KeptInv /\ [Next]_vars => KeptInv'
BY KeptStateStep, OfferedStep, RescoredKeptStep DEF KeptInv, KeptState

LEMMA AlwaysKept == Spec => [](CompleteInv /\ RunInv /\ KeptInv)
<1>1. Init => CompleteInv /\ RunInv /\ KeptInv
  BY TypeInit, PlacedInit, RunInit, KeptInit DEF CompleteInv
<1>2. (CompleteInv /\ RunInv /\ KeptInv) /\ [Next]_vars => (CompleteInv /\ RunInv /\ KeptInv)'
  BY TypeStep, CompleteStep, RunStep, KeptStep DEF CompleteInv
<1> QED BY <1>1, <1>2, PTL DEF Spec

(* An answer of which a call was made is graded as given without tools     *)
(* only while that call is still to be written, or has been written since, *)
(* when a rescore refuses, or the label has been asked again               *)
(* (run_matrix.py, one_cell; mcp_trace.py, pump).                          *)
THEOREM UntooledAreHonest == Spec => []UntooledIsHonest
<1>1. CompleteInv /\ RunInv /\ KeptInv => UntooledIsHonest
  <2> SUFFICES ASSUME Typed, KeptInv, NEW row \in RowsNow, row.calls.there, NEW m \in Made(row),
                      Yes(FromTrace(row).answered_without_tools),
                      trace[row.label] = row.calls, ~Superseded(row)
               PROVE  \E p \in pending : p.label = row.label /\ p.frame.run = row.run
    BY DEF UntooledIsHonest, Settled, CompleteInv
  <2>1. m \in history.made /\ m.label = row.label /\ m.run = row.run
    BY DEF Made
  <2>2. m.call.run = m.run /\ OnFile(m)
    BY <2>1 DEF KeptInv, MadeKept
  <2>3. row.calls.holds = {}
    BY UntooledHolds
  <2>4. history.asked[m.label] = m.run
    BY <2>1 DEF Superseded
  <2>5. [label |-> m.label, frame |-> m.call] \in pending
    BY <2>1, <2>2, <2>3, <2>4 DEF OnFile
  <2> QED BY <2>1, <2>2, <2>5
<1> QED BY <1>1, AlwaysKept, PTL

(* Of an answer that the replay finds to come from outside, no call to the *)
(* row's own server told the host the count (replay_check.py, main),       *)
(* unless the table has moved, a call is still to be written or the trace  *)
(* has changed since: a scan that stops at its limit says no more of one   *)
(* version than of another.                                                *)
THEOREM ReplaysAreHonest == Spec => []ReplayHonest
<1>1. CompleteInv /\ RunInv /\ KeptInv => ReplayHonest
  <2> SUFFICES ASSUME Typed, KeptInv, NEW r \in replayed, NEW m \in Made(r.row),
                      m.call.server = r.row.label[2], Told(m, r.row),
                      r.table = r.row.graded, trace[r.row.label] = r.row.calls,
                      \A p \in pending : p.label # r.row.label, ~Superseded(r.row)
               PROVE  FALSE
    BY DEF ReplayHonest, TraceIsNotOf, CompleteInv
  <2> DEFINE row == r.row
  <2>1. m \in history.made /\ m.label = row.label /\ m.run = row.run
    BY DEF Made
  <2>2. OnFile(m) /\ m.table \in Versions
    BY <2>1 DEF KeptInv, MadeKept, Typed, HistoryTyped
  <2>3. row.calls.there /\ m.call \in row.calls.holds
    <3>1. [label |-> m.label, frame |-> m.call] \notin pending
      BY <2>1
    <3> QED BY <2>1, <2>2, <3>1 DEF OnFile, Superseded
  <2>4. row \in Rows /\ CallsSilent(row)
    BY <2>3 DEF KeptInv, ReplaysTrue, Replayed
  <2>5. row.graded \in Versions
    BY <2>4 DEF Rows
  <2>6. states_count(RowCount(row.graded), Said(row.label[2], m.call.tool, row.graded))
    BY <2>2, <2>5, SaidAsMuch DEF Told
  <2>7. m.call.tool \in Offers(row.label[2])
    BY <2>1 DEF KeptInv, CallsOffered
  <2> QED BY <2>3, <2>4, <2>6, <2>7 DEF CallsSilent
<1> QED BY <1>1, AlwaysKept, PTL

(* A rescore that leaves a file that can be read has moved no field but    *)
(* those it is meant to, and dropped none of any row that was there, but   *)
(* for a label that a later run has asked (rescore.py, main).              *)
THEOREM RescoresKeepHistory == Spec => RescoreKeepsHistory
<1>1. CompleteInv /\ RunInv /\ KeptInv /\ [Next]_vars =>
        [RescoreEnds => \/ result'[rescorer.config] = Torn
                        \/ \A old \in rescorer.was :
                             HasHistory(old, result'[rescorer.config].rows)]_vars
  <2> SUFFICES ASSUME Typed, KeptInv, [Next]_vars, RescoreEnds, result'[rescorer.config] # Torn
               PROVE  \A old \in rescorer.was : HasHistory(old, result'[rescorer.config].rows)
    BY Zenon DEF CompleteInv
  <2>1. ~KillRescore
    <3>1. result[rescorer.config] = Torn
      BY DEF RescoreEnds, Typed, RescorerTyped
    <3> QED BY <3>1 DEF KillRescore, disk
  <2>2. DumpRescored
    BY <2>1, RescorerStops
  <2>3. result'[rescorer.config].rows = rescorer.rows
    BY <2>2, DumpedRows
  <2> QED BY <2>3 DEF RescoreEnds, KeptInv, RescoredKept
<1> QED BY <1>1, AlwaysKept, PTL DEF Spec, RescoreKeepsHistory
=============================================================================
