-------------------------- MODULE AgentMatrixProofs --------------------------
(***************************************************************************)
(* Proofs about AgentMatrix.                                               *)
(***************************************************************************)
EXTENDS AgentMatrix, FiniteSetTheorems, TLAPS

LabelsOf(axis) == {axis} \X Cells(axis) \X (1..Repeat)

-----------------------------------------------------------------------------
(***************************************************************************)
(* What is where: the records and their fields.                            *)
(***************************************************************************)
IsDriver(d) ==
  d = [pc |-> d.pc, axis |-> d.axis, round |-> d.round, todo |-> d.todo,
       graded |-> d.graded, rows |-> d.rows]
IsReader(p) == p = [pc |-> p.pc, graded |-> p.graded, todo |-> p.todo, got |-> p.got]
IsWriter(p) ==
  p = [pc |-> p.pc, todo |-> p.todo, got |-> p.got, figures |-> p.figures,
       old |-> p.old, new |-> p.new]
Writing == publisher.pc \in {"clear", "write"}

Shapes ==
  /\ driver # Off => IsDriver(driver) /\ driver.pc \in {"cells", "dump", "dumping"}
  /\ publisher # Off => Reading \/ Writing
  /\ Reading => IsReader(publisher)
  /\ Writing => IsWriter(publisher)
  /\ dest = [rows |-> dest.rows, matrix |-> dest.matrix, superseded |-> dest.superseded,
             figures |-> dest.figures]
  /\ history = [cut |-> history.cut, absent |-> history.absent, shown |-> history.shown]
  /\ capture = [l \in Labels |-> capture[l]]
  /\ result = [a \in Axes |-> result[a]]
  /\ archive = [a \in Axes |-> archive[a]]
  /\ dest.rows = [a \in Axes |-> dest.rows[a]]

(* A run has a row for each label it is done with, and so has its file. *)
Done ==
  {l \in LabelsOf(driver.axis) :
     At("cells") => l[3] < driver.round \/ (l[3] = driver.round /\ l[2] \notin driver.todo)}

RowsFor(axis, rows, labels) ==
  /\ IsFiniteSet(rows)
  /\ \A r \in rows : IsRow(r)
  /\ \A r, q \in rows : r.label = q.label => r = q
  /\ {r.label : r \in rows} = labels
  /\ labels \subseteq LabelsOf(axis)

Running ==
  driver # Off =>
    /\ driver.axis \in Axes /\ driver.round \in 1..Repeat /\ driver.todo \subseteq Cells(driver.axis)
    /\ runs \in RunIds
    /\ RowsFor(driver.axis, driver.rows, Done)

Results == \A a \in Axes : result[a].there => RowsFor(a, result[a].holds, LabelsOf(a))

(* A capture's identifiers are such as the anonymiser finds. *)
IsCapture(file) ==
  /\ file.run \in RunIds
  /\ IsFiniteSet(file.ids) /\ \A id \in file.ids : id \in Known \/ id.kind \in KINDS

Captures == \A l \in Labels : capture[l].there => IsCapture(capture[l].holds)

(* Rows with their captures. *)
PairsFor(axis, pairs) ==
  /\ IsFiniteSet(pairs)
  /\ \A p \in pairs : IsRow(p.row) /\ IsCapture(p.file)
  /\ \A p, q \in pairs : p.row.label = q.row.label => p = q
  /\ {p.row.label : p \in pairs} = LabelsOf(axis)

Archives ==
  listed \subseteq LISTS /\ \A a \in Axes : archive[a].there => PairsFor(a, archive[a].holds)

Publishing ==
  publisher # Off =>
    /\ publisher.got = [a \in Axes |-> publisher.got[a]]
    /\ \A a \in GotAxes : PairsFor(a, publisher.got[a].holds)
    /\ Reading => publisher.todo \subseteq Axes
    /\ Writing => publisher.todo \subseteq FilesOf(GotAxes) /\ publisher.todo # {}

World ==
  /\ table \in Versions /\ truth \in Versions /\ singles \in Versions
  /\ truth <= table /\ singles <= table
  /\ scorer \in 9..10 /\ runs \in 0..MaxRuns

Typed == Shapes /\ Running /\ Results /\ Captures /\ Archives /\ Publishing /\ World

-----------------------------------------------------------------------------
(***************************************************************************)
(* What has been checked when there is something to write.                 *)
(***************************************************************************)
Answered(row) == row.fields.catalog_calls # {}

Backed(row, captures) ==
  \E c \in captures : c.label = row.label /\ (c.run = row.run \/ c.took = row.took)

Told(row, figures) ==
  \A line \in figures.lines : line.label = row.label =>
    \A k \in DOMAIN line.fields :
      line.fields[k] # row.fields[k] => <<row.label, row.run, k>> \in figures.disclosed

RowsOf(pairs) == {p.row : p \in pairs}

Checked ==
  /\ publisher.pc = "clear" => publisher.todo = FilesOf(GotAxes)
  /\ Writing => \A a \in GotAxes :
       \A r \in RowsOf(publisher.got[a].holds) :
         Answered(r) /\ Backed(r, publisher.new[a]) /\ Told(r, publisher.figures)

(* What of it is in a directory. *)
IsWritten(file, p, d) ==
  /\ file[1] = "rows" => d.rows[file[2]] = File(RowsOf(p.got[file[2]].holds))
  /\ file[1] = "matrix" => p.new[file[2]] \subseteq d.matrix
  /\ file[1] = "superseded" => d.superseded = p.old
  /\ file[1] = "figures" => d.figures = File(p.figures)

Written ==
  publisher.pc = "write" =>
    /\ history.cut /\ history.absent = Axes \ GotAxes
    /\ \A file \in FilesOf(GotAxes) \ publisher.todo : IsWritten(file, publisher, dest)

PublishedInv ==
  Checked /\ Written /\ UnansweredNeverPublished /\ RowsHaveCaptures /\ DifferencesAreTold

-----------------------------------------------------------------------------
ShowsMasked(captures) ==
  \A c \in captures : \A mask \in c.shows : \E name \in mask : mask = {name} /\ name[2] # 0

MaskedInv ==
  /\ ShowsMasked(dest.matrix) /\ ShowsMasked(dest.superseded)
  /\ Writing => ShowsMasked(publisher.old) /\ \A a \in GotAxes : ShowsMasked(publisher.new[a])

-----------------------------------------------------------------------------
(* A run whose number is taken: later ones are higher, and this one will   *)
(* not come to the label again.                                            *)
Past(label, run) ==
  /\ label \in Labels /\ run \in RunIds /\ run <= runs
  /\ At("cells") /\ run = runs /\ label[1] = driver.axis => label \in Done

FilesPast ==
  /\ \A l \in Labels : capture[l].there => Past(l, capture[l].holds.run)
  /\ \A a \in Axes : archive[a].there =>
       \A p \in archive[a].holds : Past(p.row.label, p.file.run)

(* What shows that a run of a label was published: before now, ...         *)
Signs(captures) == {[label |-> c.label, run |-> c.run] : c \in captures}
Before == history.shown \cup Shown
(* ... or soon, of what is being read and of what is to be written.        *)
SignsOf(pairs) == {[label |-> p.row.label, run |-> p.file.run] : p \in pairs}
Taking == IF publisher = Off THEN {} ELSE SignsOf(New)
Given ==
  IF Writing THEN Signs(publisher.old \cup UNION {publisher.new[a] : a \in GotAxes}) ELSE {}

(* A run that can be published again, unless it was run again.             *)
Current(s) ==
  /\ capture[s.label].there /\ capture[s.label].holds.run = s.run
  /\ result[s.label[1]] # NoFile
Safe(s) == Current(s) \/ InArchive(s) \/ RunAgain(s)
KnownSafe ==
  \A s \in Before \cup Taking \cup Given :
    s = [label |-> s.label, run |-> s.run] /\ Past(s.label, s.run) /\ Safe(s)

(* How a published run may be lost. *)
Gone(s) == IF InArchive(s) THEN s.label[1] \notin ByTheLists ELSE RunAgain(s)

ReadSafe ==
  Reading => \A s \in Before : s.label[1] \notin publisher.todo =>
    \/ InArchive(s) \/ RunAgain(s)
    \/ s.label[1] \in GotAxes /\ s \in SignsOf(publisher.got[s.label[1]].holds)

WriteSafe ==
  Writing => \A s \in Before : s \in Given \/ Gone(s)

LostInv == FilesPast /\ KnownSafe /\ ReadSafe /\ WriteSafe /\ NothingPublishedIsLost

-----------------------------------------------------------------------------
(***************************************************************************)
(* Types.                                                                  *)
(***************************************************************************)
LEMMA CellsAreLabels ==
  ASSUME NEW axis \in Axes
  PROVE  /\ LabelsOf(axis) \subseteq Labels
         /\ \A l \in LabelsOf(axis) : l[1] = axis /\ l[2] \in Cells(axis) /\ l[3] \in 1..Repeat
         /\ \A l \in LabelsOf(axis) : l = <<axis, l[2], l[3]>>
         /\ \A cell \in Cells(axis), n \in 1..Repeat : <<axis, cell, n>> \in LabelsOf(axis)
BY DEF LabelsOf, Labels

LEMMA LabelsByAxis ==
  ASSUME NEW l \in Labels
  PROVE  l[1] \in Axes /\ l \in LabelsOf(l[1])
BY DEF LabelsOf, Labels

LEMMA AxesAreFinite == IsFiniteSet(Axes)
<1> DEFINE Few(x, y, z) == {x, y, z}
<1>1. ASSUME NEW x, NEW y, NEW z PROVE IsFiniteSet(Few(x, y, z))
  <2>1. IsFiniteSet({x})
    BY FS_EmptySet, FS_AddElement, {x} = {} \cup {x}
  <2>2. IsFiniteSet({x} \cup {y})
    BY <2>1, FS_AddElement
  <2>3. IsFiniteSet(({x} \cup {y}) \cup {z})
    BY <2>2, FS_AddElement
  <2>4. Few(x, y, z) = ({x} \cup {y}) \cup {z}
    OBVIOUS
  <2> QED BY <2>3, <2>4
<1> HIDE DEF Few
<1>3. IsFiniteSet(Few("A", "B", "C") \cup Few("D", "E", "F"))
  <2>1. IsFiniteSet(Few("A", "B", "C")) /\ IsFiniteSet(Few("D", "E", "F"))
    BY <1>1
  <2> QED BY <2>1, FS_Union
<1>2. Axes \subseteq Few("A", "B", "C") \cup Few("D", "E", "F")
  BY AgentAssumption DEF AXES, AXIS_CELLS, Few
<1> QED BY <1>3, <1>2, FS_Subset

LEMMA TypedInit == Init => Typed
<1> SUFFICES ASSUME Init PROVE Typed
  OBVIOUS
<1>1. Shapes
  BY DEF Init, Shapes, Off, NoFile, Reading, Writing
<1>2. Running /\ Publishing
  BY DEF Init, Running, Publishing, Off
<1>3. Results /\ Captures /\ Archives
  BY DEF Init, Results, Captures, Archives, NoFile
<1>4. World
  BY AgentAssumption DEF Init, World, Versions, SCORER_VERSION
<1> QED BY <1>1, <1>2, <1>3, <1>4 DEF Typed

(* What an action leaves alone keeps its type. *)
LEMMA RawTyped == Typed /\ UNCHANGED raw => Results' /\ Captures' /\ Archives'
BY DEF Typed, raw, Results, Captures, Archives

LEMMA RunTyped == Typed /\ UNCHANGED <<driver, runs>> => Running'
BY DEF Typed, Running, Done, At

LEMMA PublisherTyped == Typed /\ UNCHANGED publisher => Publishing'
BY DEF Typed, Publishing, Reading, Writing, GotAxes

LEMMA TypedStartRun ==
  ASSUME Typed, NEW axis \in Axes, StartRun(axis)
  PROVE  Typed'
<1> USE DEF StartRun
<1>1. Shapes'
  BY DEF Typed, Shapes, IsDriver, IsReader, IsWriter, Reading, Writing, raw, published
<1>2. Running'
  <2>1. /\ driver'.pc = "cells" /\ driver'.axis = axis /\ driver'.round = 1
        /\ driver'.todo = Cells(axis) /\ driver'.rows = {}
    OBVIOUS
  <2>2. runs' \in RunIds
    BY AgentAssumption DEF Typed, World, RunIds
  <2>3. Done' = {}
    BY <2>1, CellsAreLabels DEF Done, At
  <2>4. RowsFor(axis, {}, {})
    BY FS_EmptySet DEF RowsFor
  <2>5. 1 \in 1..Repeat
    BY AgentAssumption
  <2>6. RowsFor(driver'.axis, driver'.rows, Done')
    BY <2>1, <2>3, <2>4
  <2> QED BY <2>1, <2>2, <2>5, <2>6 DEF Running
<1>3. Results' /\ Captures' /\ Archives' /\ Publishing'
  BY RawTyped, PublisherTyped DEF published
<1>4. World'
  BY AgentAssumption DEF Typed, World, world
<1> QED BY <1>1, <1>2, <1>3, <1>4 DEF Typed

(* A row under a label that had none. *)
LEMMA RowAdded ==
  ASSUME NEW axis, NEW rows, NEW labels, RowsFor(axis, rows, labels),
         NEW r, IsRow(r), r.label \in LabelsOf(axis) \ labels
  PROVE  RowsFor(axis, rows \cup {r}, labels \cup {r.label})
<1>1. IsFiniteSet(rows \cup {r})
  BY FS_AddElement DEF RowsFor
<1>2. \A q \in rows : q.label # r.label
  BY DEF RowsFor
<1>3. {q.label : q \in rows \cup {r}} = labels \cup {r.label}
  BY DEF RowsFor
<1> QED BY <1>1, <1>2, <1>3 DEF RowsFor

(* What a run of a cell leaves: a capture and a row, under a label that    *)
(* had none in this run.                                                   *)
LEMMA CellRun ==
  ASSUME Typed, NEW cell, RunCell(cell)
  PROVE  /\ At("cells") /\ driver # Off /\ driver.axis \in Axes
         /\ runs \in RunIds /\ RowsFor(driver.axis, driver.rows, Done)
         /\ \E label \in LabelsOf(driver.axis) \ Done : \E file, row :
              /\ label \in Labels
              /\ IsCapture(file) /\ file.run = runs
              /\ capture' = [capture EXCEPT ![label] = File(file)]
              /\ IsRow(row) /\ row.label = label
              /\ driver'.rows = driver.rows \cup {row} /\ Done' = Done \cup {label}
         /\ driver'.axis = driver.axis /\ IsDriver(driver') /\ driver'.pc \in {"cells", "dump"}
         /\ driver'.round \in 1..Repeat /\ driver'.todo \subseteq Cells(driver.axis)
<1>1. PICK answer \in Bodies(driver.axis, cell), took \in Times :
        LET label == <<driver.axis, cell, driver.round>>
            file == [run |-> runs, took |-> took, body |-> answer.body[table], ids |-> answer.ids]
            fields == Scored(driver.axis, cell, file.body, driver.graded)
        IN /\ capture' = [capture EXCEPT ![label] = File(file)]
           /\ \E graded \in Gradings(fields) :
                /\ driver' = [AfterCell(cell) EXCEPT !.rows = @ \cup {Row(label, file, graded)}]
                /\ IF answer.usual /\ graded = fields THEN NoTrouble ELSE Trouble
  BY DEF RunCell
<1> DEFINE label == <<driver.axis, cell, driver.round>>
           file == [run |-> runs, took |-> took, body |-> answer.body[table], ids |-> answer.ids]
           fields == Scored(driver.axis, cell, file.body, driver.graded)
<1>2. PICK graded \in Gradings(fields) :
        driver' = [AfterCell(cell) EXCEPT !.rows = @ \cup {Row(label, file, graded)}]
  BY <1>1
<1> DEFINE row == Row(label, file, graded)
<1>3. driver # Off /\ At("cells") /\ cell \in driver.todo /\ IsDriver(driver)
  BY DEF RunCell, Off, Typed, Shapes, At
<1>4. /\ driver.axis \in Axes /\ driver.round \in 1..Repeat /\ driver.todo \subseteq Cells(driver.axis)
      /\ runs \in RunIds /\ RowsFor(driver.axis, driver.rows, Done)
  BY <1>3 DEF Typed, Running
<1>5. label \in LabelsOf(driver.axis) \ Done /\ label \in Labels
  BY <1>3, <1>4, CellsAreLabels DEF Done, At
<1>6. IsRow(row) /\ row.label = label
  BY <1>5, <1>4 DEF IsRow, Row, Typed, World
<1> DEFINE after == AfterCell(cell)
<1>7. /\ after.axis = driver.axis /\ after.rows = driver.rows
      /\ after = [pc |-> after.pc, axis |-> after.axis, round |-> after.round, todo |-> after.todo,
                  graded |-> after.graded, rows |-> after.rows]
      /\ \/ after.pc = "cells" /\ after.round = driver.round /\ after.todo = driver.todo \ {cell}
         \/ /\ driver.todo = {cell} /\ after.pc = "cells" /\ after.round = driver.round + 1
            /\ driver.round < Repeat /\ after.todo = Cells(driver.axis)
         \/ /\ driver.todo = {cell} /\ after.pc = "dump" /\ after.round = driver.round
            /\ driver.round >= Repeat /\ after.todo = {}
  <2>1. driver.round \in Int /\ Repeat \in Int
    BY <1>4, AgentAssumption
  <2>2. CASE driver.todo # {cell}
    BY <2>2, <1>3 DEF AfterCell, IsDriver, At
  <2>3. CASE driver.todo = {cell} /\ driver.round < Repeat
    BY <2>3, <2>1, <1>3 DEF AfterCell, IsDriver, At
  <2>4. CASE driver.todo = {cell} /\ driver.round >= Repeat
    BY <2>4, <2>1, <1>3 DEF AfterCell, IsDriver, At
  <2> QED BY <2>1, <2>2, <2>3, <2>4
<1>8. /\ driver'.axis = driver.axis /\ driver'.rows = driver.rows \cup {row}
      /\ driver'.pc = after.pc /\ driver'.round = after.round /\ driver'.todo = after.todo
      /\ IsDriver(driver')
  <2> HIDE DEF after, row
  <2>1. driver' = [after EXCEPT !.rows = @ \cup {row}]
    BY <1>2 DEF after, row
  <2> QED BY <2>1, <1>7 DEF IsDriver
<1> HIDE DEF row, after
<1>9. Done' = Done \cup {label}
  <2>1. ASSUME NEW l \in LabelsOf(driver.axis) PROVE l \in Done' <=> l \in Done \/ l = label
    <3>1. /\ l[1] = driver.axis /\ l[2] \in Cells(driver.axis) /\ l[3] \in 1..Repeat
          /\ l = <<driver.axis, l[2], l[3]>>
      BY <1>4, CellsAreLabels
    <3>2. l = label <=> l[2] = cell /\ l[3] = driver.round
      BY <3>1
    <3>3. l \in Done <=> l[3] < driver.round \/ (l[3] = driver.round /\ l[2] \notin driver.todo)
      BY <1>3 DEF Done
    <3>4. l \in Done' <=> (after.pc = "cells" => l[3] < after.round \/ (l[3] = after.round /\ l[2] \notin after.todo))
      BY <1>8 DEF Done, At
    <3>5. Repeat \in Nat
      BY AgentAssumption
    <3> QED BY <3>1, <3>2, <3>3, <3>4, <3>5, <1>4, <1>3, <1>7
  <2> QED BY <2>1, <1>5, <1>8 DEF Done
<1>10. IsCapture(file)
  <2>1. cell \in Cells(driver.axis)
    BY <1>3, <1>4
  <2>2. IsFiniteSet(answer.ids) /\ \A id \in answer.ids : id \in Known \/ id.kind \in KINDS
    BY <2>1, <1>4, AgentAssumption
  <2> QED BY <2>2, <1>4 DEF IsCapture
<1>11. driver'.pc \in {"cells", "dump"} /\ driver'.round \in 1..Repeat /\ driver'.todo \subseteq Cells(driver.axis)
  BY <1>3, <1>4, <1>7, <1>8, AgentAssumption DEF At
<1>12. capture' = [capture EXCEPT ![label] = File(file)] /\ file.run = runs
  BY <1>1
<1> HIDE DEF file, label
<1> QED BY <1>3, <1>4, <1>5, <1>6, <1>8, <1>9, <1>10, <1>11, <1>12

LEMMA TypedRunCell ==
  ASSUME Typed, NEW cell, RunCell(cell)
  PROVE  Typed'
<1>1. PICK label \in LabelsOf(driver.axis) \ Done : \E file, row :
        /\ label \in Labels
        /\ IsCapture(file) /\ file.run = runs
        /\ capture' = [capture EXCEPT ![label] = File(file)]
        /\ IsRow(row) /\ row.label = label
        /\ driver'.rows = driver.rows \cup {row} /\ Done' = Done \cup {label}
  BY CellRun
<1>2. PICK file, row :
        /\ label \in Labels
        /\ IsCapture(file) /\ file.run = runs
        /\ capture' = [capture EXCEPT ![label] = File(file)]
        /\ IsRow(row) /\ row.label = label
        /\ driver'.rows = driver.rows \cup {row} /\ Done' = Done \cup {label}
  BY <1>1
<1>3. Shapes'
  BY <1>2, CellRun DEF Typed, Shapes, IsReader, IsWriter, Reading, Writing, RunCell, published
<1>4. Running'
  <2>1. RowsFor(driver.axis, driver.rows \cup {row}, Done \cup {row.label})
    BY <1>1, <1>2, CellRun, RowAdded
  <2>2. runs' = runs
    BY DEF RunCell
  <2>3. RowsFor(driver'.axis, driver'.rows, Done')
    BY <2>1, <1>2, CellRun
  <2> QED BY <2>2, <2>3, CellRun DEF Running
<1>5. Captures'
  <2>1. ASSUME NEW l \in Labels, capture'[l].there PROVE IsCapture(capture'[l].holds)
    <3>1. CASE l = label
      BY <3>1, <1>2 DEF Typed, Shapes, File
    <3>2. CASE l # label
      BY <3>2, <1>2, <2>1 DEF Typed, Shapes, Captures
    <3> QED BY <3>1, <3>2
  <2> QED BY <2>1 DEF Captures
<1>6. Results' /\ Archives' /\ Publishing' /\ World'
  BY PublisherTyped DEF RunCell, Typed, Results, Archives, World, world, published
<1> QED BY <1>3, <1>4, <1>5, <1>6 DEF Typed

LEMMA TypedOpenResult == Typed /\ OpenResult => Typed'
<1> SUFFICES ASSUME Typed, OpenResult PROVE Typed'
  OBVIOUS
<1>1. driver # Off /\ IsDriver(driver) /\ ~At("cells")
  BY DEF OpenResult, Off, Typed, Shapes, At
<1>2. /\ driver'.axis = driver.axis /\ driver'.rows = driver.rows /\ driver'.pc = "dumping"
      /\ driver'.round = driver.round /\ driver'.todo = driver.todo /\ IsDriver(driver')
  BY <1>1 DEF OpenResult, IsDriver
<1>3. Shapes'
  BY <1>2 DEF OpenResult, Typed, Shapes, IsReader, IsWriter, Reading, Writing, published
<1>4. Done' = Done
  BY <1>1, <1>2 DEF Done, At
<1>5. Running'
  BY <1>1, <1>2, <1>4 DEF Typed, Running, OpenResult
<1>6. Results'
  BY DEF Typed, Shapes, Results, OpenResult, Torn
<1>7. Captures' /\ Archives' /\ Publishing' /\ World'
  BY PublisherTyped DEF OpenResult, Typed, Captures, Archives, World, world, published
<1> QED BY <1>3, <1>5, <1>6, <1>7 DEF Typed

LEMMA TypedDumpResult == Typed /\ DumpResult => Typed'
<1> SUFFICES ASSUME Typed, DumpResult PROVE Typed'
  OBVIOUS
<1>1. driver # Off /\ IsDriver(driver) /\ ~At("cells")
  BY DEF DumpResult, Off, Typed, Shapes, At
<1>2. Shapes'
  BY DEF DumpResult, Typed, Shapes, IsReader, IsWriter, Reading, Writing, published
<1>3. Running'
  BY DEF Running, DumpResult
<1>4. RowsFor(driver.axis, driver.rows, LabelsOf(driver.axis))
  BY <1>1 DEF Typed, Running, Done
<1>5. Results'
  BY <1>4 DEF Typed, Shapes, Results, DumpResult, File
<1>6. Captures' /\ Archives' /\ Publishing' /\ World'
  BY PublisherTyped DEF DumpResult, Typed, Captures, Archives, World, world, published
<1> QED BY <1>2, <1>3, <1>5, <1>6 DEF Typed

(* A driver that dies cuts at most one capture short. *)
LEMMA AbortCuts ==
  ASSUME Typed, Abort
  PROVE  /\ UNCHANGED <<result, archive, listed>>
         /\ \/ UNCHANGED capture
            \/ \E l \in Labels : capture' = [capture EXCEPT ![l] = Torn]
<1>1. CASE UNCHANGED capture
  BY <1>1 DEF Abort
<1>2. CASE At("cells") /\ \E cell \in driver.todo : Cut(<<driver.axis, cell, driver.round>>)
  <2>1. PICK cell \in driver.todo : Cut(<<driver.axis, cell, driver.round>>)
    BY <1>2
  <2>2. driver # Off
    BY <1>2 DEF At, Off
  <2>3. driver.axis \in Axes /\ driver.round \in 1..Repeat /\ cell \in Cells(driver.axis)
    BY <2>1, <2>2 DEF Typed, Running
  <2>4. <<driver.axis, cell, driver.round>> \in Labels
    BY <2>3, CellsAreLabels
  <2> QED BY <2>1, <2>4 DEF Abort, Cut
<1> QED BY <1>1, <1>2 DEF Abort, LeftByDriver

LEMMA TypedAbort == Typed /\ Abort => Typed'
<1> SUFFICES ASSUME Typed, Abort PROVE Typed'
  OBVIOUS
<1>0. capture' = [l \in Labels |-> capture'[l]]
  BY AbortCuts DEF Typed, Shapes
<1>1. Shapes'
  BY <1>0 DEF Abort, Typed, Shapes, IsReader, IsWriter, Reading, Writing, published
<1>2. Running'
  BY DEF Running, Abort
<1>5. \A l \in Labels : capture'[l].there => capture'[l] = capture[l]
  BY AbortCuts DEF Typed, Shapes, Torn
<1>3. Results' /\ Captures' /\ Archives' /\ Publishing'
  BY <1>5, AbortCuts, PublisherTyped DEF Typed, Results, Captures, Archives, Abort, published
<1>4. World'
  BY DEF Abort, Typed, World, world
<1> QED BY <1>1, <1>2, <1>3, <1>4 DEF Typed

(* The tables, the truth and the scorer. *)
Moves == MoveTable \/ CaptureTruth \/ CaptureRuns \/ UpdateScorer

LEMMA MovesKeep == Moves => UNCHANGED <<driver, raw, published, runs>>
BY DEF Moves, MoveTable, CaptureTruth, CaptureRuns, UpdateScorer

LEMMA TypedMoves == Typed /\ Moves => Typed'
<1> SUFFICES ASSUME Typed, Moves PROVE Typed'
  OBVIOUS
<1>1. UNCHANGED <<driver, raw, published, runs>>
  BY MovesKeep
<1>2. Shapes'
  BY <1>1 DEF Typed, Shapes, IsDriver, IsReader, IsWriter, Reading, Writing, raw, published
<1>3. Running' /\ Results' /\ Captures' /\ Archives' /\ Publishing'
  BY <1>1, RawTyped, RunTyped, PublisherTyped DEF published
<1>4. World'
  <2>1. table \in 1..2 /\ truth \in 1..2 /\ singles \in 1..2 /\ truth <= table /\ singles <= table
        /\ scorer \in 9..10 /\ runs' \in 0..MaxRuns
    BY <1>1 DEF Typed, World, Versions
  <2>2. /\ table' \in 1..2 /\ truth' \in 1..2 /\ singles' \in 1..2
        /\ truth' <= table' /\ singles' <= table' /\ scorer' \in 9..10
    BY <2>1 DEF Moves, MoveTable, CaptureTruth, CaptureRuns, UpdateScorer, Versions, SCORER_VERSION
  <2> QED BY <2>1, <2>2 DEF World, Versions
<1> QED BY <1>2, <1>3, <1>4 DEF Typed

(* Rows taken with their captures. *)
LEMMA TakenPairs ==
  ASSUME Typed, NEW axis \in Axes, result[axis].there,
         \A r \in result[axis].holds : capture[r.label].there
  PROVE  /\ PairsFor(axis, Taken(axis))
         /\ \A p \in Taken(axis) :
              p.row \in result[axis].holds /\ p.file = capture[p.row.label].holds
         /\ \A l \in LabelsOf(axis) : \E p \in Taken(axis) : p.row.label = l
<1> DEFINE rows == result[axis].holds
           pair == [r \in rows |-> [row |-> r, file |-> capture[r.label].holds]]
<1>1. RowsFor(axis, rows, LabelsOf(axis))
  BY DEF Typed, Results
<1>2. \A p \in Taken(axis) :
        p.row \in rows /\ p.file = capture[p.row.label].holds /\ p = pair[p.row]
  BY DEF Taken
<1>3. \A r \in rows : pair[r] \in Taken(axis) /\ pair[r].row = r
  BY DEF Taken
<1>4. IsFiniteSet(Taken(axis))
  <2>1. pair \in Surjection(rows, Taken(axis))
    BY <1>2, <1>3 DEF Surjection
  <2> QED BY <2>1, <1>1, FS_Surjection DEF RowsFor
<1> HIDE DEF pair
<1>5. \A r \in rows : r.label \in LabelsOf(axis) /\ r.label \in Labels
  BY <1>1, CellsAreLabels DEF RowsFor
<1>6. \A p \in Taken(axis) : IsRow(p.row) /\ IsCapture(p.file)
  BY <1>1, <1>2, <1>5 DEF RowsFor, Typed, Captures
<1>7. \A p, q \in Taken(axis) : p.row.label = q.row.label => p = q
  BY <1>1, <1>2 DEF RowsFor
<1>8. \A l \in LabelsOf(axis) : \E p \in Taken(axis) : p.row.label = l
  BY <1>1, <1>3 DEF RowsFor
<1>9. {p.row.label : p \in Taken(axis)} = LabelsOf(axis)
  BY <1>2, <1>5, <1>8
<1> QED BY <1>2, <1>4, <1>6, <1>7, <1>8, <1>9 DEF PairsFor

LEMMA TypedArchive ==
  ASSUME Typed, NEW moved \in SUBSET Axes, Archive(moved)
  PROVE  Typed'
<1>1. Shapes'
  BY DEF Archive, Typed, Shapes, IsDriver, IsReader, IsWriter, Reading, Writing, published
<1>2. Running' /\ Publishing'
  BY RunTyped, PublisherTyped DEF Archive, published
<1>3. Archives'
  <2>1. ASSUME NEW a \in moved PROVE PairsFor(a, Taken(a))
    BY TakenPairs DEF Archive
  <2>2. archive' = [a \in Axes |-> IF a \in moved THEN File(Taken(a)) ELSE archive[a]]
    BY DEF Archive
  <2>3. listed' \subseteq LISTS
    BY DEF Archive
  <2> QED BY <2>1, <2>2, <2>3 DEF Typed, Archives, File
<1>4. Results' /\ Captures'
  BY DEF Archive, Typed, Results, Captures, NoFile
<1>5. World'
  BY DEF Archive, Typed, World, world
<1> QED BY <1>1, <1>2, <1>3, <1>4, <1>5 DEF Typed

LEMMA TypedStartPublication == Typed /\ StartPublication => Typed'
<1> SUFFICES ASSUME Typed, StartPublication PROVE Typed'
  OBVIOUS
<1>1. Shapes'
  BY DEF StartPublication, Typed, Shapes, IsDriver, IsReader, Reading, Writing, raw
<1>2. Running' /\ Results' /\ Captures' /\ Archives'
  BY RawTyped, RunTyped DEF StartPublication
<1>3. Publishing'
  BY DEF StartPublication, Publishing, Reading, Writing, GotAxes, NoFile
<1>4. World'
  BY DEF StartPublication, Typed, World, world
<1> QED BY <1>1, <1>2, <1>3, <1>4 DEF Typed

LEMMA TypedStop ==
  Typed /\ Stop /\ UNCHANGED <<world, raw, driver, dest, runs, history>> => Typed'
<1> SUFFICES ASSUME Typed, Stop, UNCHANGED <<world, raw, driver, dest, runs, history>>
             PROVE  Typed'
  OBVIOUS
<1>1. Shapes'
  BY DEF Stop, Typed, Shapes, IsDriver, Off, Reading, Writing, raw
<1>2. Running' /\ Results' /\ Captures' /\ Archives'
  BY RawTyped, RunTyped
<1>3. Publishing'
  BY DEF Stop, Publishing
<1>4. World'
  BY DEF Typed, World, world
<1> QED BY <1>1, <1>2, <1>3, <1>4 DEF Typed

(* What is read, after an axis. *)
LEMMA ReadAxisGot ==
  ASSUME Typed, NEW axis \in Axes, ReadAxis(axis), publisher' # Off
  PROVE  /\ Reading /\ axis \in publisher.todo
         /\ IsReader(publisher') /\ Reading' /\ ~Writing
         /\ publisher'.todo = publisher.todo \ {axis}
         /\ \/ /\ Readable(axis)
               /\ publisher'.got = [publisher.got EXCEPT ![axis] = File(Taken(axis))]
            \/ /\ result[axis] = NoFile
               /\ publisher'.got = publisher.got
BY DEF ReadAxis, HasRead, Stop, Typed, Shapes, IsReader, Reading, Writing

LEMMA TypedReadAxis ==
  ASSUME Typed, NEW axis \in Axes, ReadAxis(axis)
  PROVE  Typed'
<1>1. CASE publisher' = Off
  BY <1>1, TypedStop DEF ReadAxis, Stop
<1>2. CASE publisher' # Off
  <2>1. Shapes'
    BY <1>2, ReadAxisGot DEF ReadAxis, Typed, Shapes, IsDriver, Reading, Writing, raw
  <2>2. Running' /\ Results' /\ Captures' /\ Archives'
    BY RawTyped, RunTyped DEF ReadAxis
  <2>3. World'
    BY DEF ReadAxis, Typed, World, world
  <2>4. Publishing'
    <3>1. publisher # Off
      BY DEF ReadAxis, Reading, Off
    <3>2. publisher'.todo \subseteq Axes /\ Reading' /\ ~Writing'
      BY <3>1, <1>2, ReadAxisGot DEF Typed, Publishing, Reading, Writing
    <3>3. CASE publisher'.got = publisher.got
      BY <3>1, <3>2, <3>3 DEF Typed, Publishing, GotAxes
    <3>4. CASE /\ Readable(axis)
               /\ publisher'.got = [publisher.got EXCEPT ![axis] = File(Taken(axis))]
      <4>1. PairsFor(axis, Taken(axis))
        BY <3>4, TakenPairs DEF Readable
      <4>2. publisher'.got = [a \in Axes |-> publisher'.got[a]]
        BY <3>1, <3>4 DEF Typed, Publishing
      <4>3. ASSUME NEW a \in GotAxes' PROVE PairsFor(a, publisher'.got[a].holds)
        BY <3>1, <3>4, <4>1 DEF Typed, Publishing, GotAxes, File
      <4> QED BY <3>2, <4>2, <4>3 DEF Publishing
    <3> QED BY <1>2, <3>3, <3>4, ReadAxisGot
  <2> QED BY <2>1, <2>2, <2>3, <2>4 DEF Typed
<1> QED BY <1>1, <1>2

LEMMA OrderOfAxes ==
  ASSUME NEW a \in Axes
  PROVE  AXIS_ORDER[a] \in 1..6
BY AgentAssumption DEF AXES, AXIS_CELLS, AXIS_ORDER

(* There is always the figures' file to write. *)
LEMMA FilesAreSome ==
  ASSUME NEW axes
  PROVE  /\ FilesOf(axes) # {}
         /\ \A file \in FilesOf(axes) :
              \/ file[1] \in {"rows", "matrix"} /\ file[2] \in axes
              \/ file \in {<<"superseded", None>>, <<"figures", None>>}
BY DEF FilesOf

LEMMA TypedCheck == Typed /\ Check => Typed'
<1> SUFFICES ASSUME Typed, Check PROVE Typed'
  OBVIOUS
<1>1. CASE Stop
  BY <1>1, TypedStop DEF Check
<1>2. CASE publisher' = [pc |-> "clear", todo |-> FilesOf(GotAxes), got |-> publisher.got,
                         figures |-> Figures, old |-> ToPublish(Old),
                         new |-> [a \in GotAxes |-> ToPublish(publisher.got[a].holds)]]
  <2>1. publisher # Off /\ Writing' /\ ~Reading' /\ IsWriter(publisher')
    BY <1>2 DEF Check, Reading, Writing, Off, IsWriter
  <2>2. publisher'.got = publisher.got /\ publisher'.todo = FilesOf(GotAxes) /\ GotAxes' = GotAxes
    BY <1>2 DEF GotAxes
  <2>3. Shapes'
    BY <2>1 DEF Check, Typed, Shapes, IsDriver, raw
  <2>4. Running' /\ Results' /\ Captures' /\ Archives'
    BY RawTyped, RunTyped DEF Check
  <2>5. Publishing'
    BY <2>1, <2>2, FilesAreSome DEF Typed, Publishing
  <2>6. World'
    BY DEF Check, Typed, World, world
  <2> QED BY <2>3, <2>4, <2>5, <2>6 DEF Typed
<1> QED BY <1>1, <1>2 DEF Check

(* What clearing and writing do, field by field. *)
LEMMA Cleared ==
  ASSUME Typed, Clear
  PROVE  /\ publisher.pc = "clear" /\ Writing /\ ~Reading /\ publisher # Off /\ publisher' # Off
         /\ publisher'.pc = "write" /\ Writing' /\ ~Reading' /\ IsWriter(publisher')
         /\ publisher'.todo = publisher.todo /\ publisher'.got = publisher.got
         /\ publisher'.figures = publisher.figures
         /\ publisher'.old = publisher.old /\ publisher'.new = publisher.new
         /\ GotAxes' = GotAxes
         /\ dest'.rows = dest.rows /\ dest'.matrix = {} /\ dest'.superseded = {}
         /\ dest'.figures = dest.figures
         /\ history'.cut = TRUE /\ history'.absent = Axes \ GotAxes
         /\ history'.shown = history.shown \cup Shown
<1>1. publisher.pc = "clear" /\ Writing /\ ~Reading /\ publisher # Off
  BY DEF Clear, Writing, Reading, Off
<1>2. publisher' = [publisher EXCEPT !.pc = "write"] /\ IsWriter(publisher)
  BY <1>1 DEF Clear, Typed, Shapes
<1>3. /\ publisher'.pc = "write" /\ IsWriter(publisher')
      /\ publisher'.todo = publisher.todo /\ publisher'.got = publisher.got
      /\ publisher'.figures = publisher.figures
      /\ publisher'.old = publisher.old /\ publisher'.new = publisher.new
  BY <1>2 DEF IsWriter
<1>4. Writing' /\ ~Reading' /\ publisher' # Off /\ GotAxes' = GotAxes
  BY <1>3 DEF Writing, Reading, Off, GotAxes
<1>5. /\ dest'.rows = dest.rows /\ dest'.matrix = {} /\ dest'.superseded = {}
      /\ dest'.figures = dest.figures
  BY DEF Clear, Typed, Shapes
<1>6. /\ history'.cut = TRUE /\ history'.absent = Axes \ GotAxes
      /\ history'.shown = history.shown \cup Shown
  BY DEF Clear
<1> QED BY <1>1, <1>3, <1>4, <1>5, <1>6

LEMMA TypedClear == Typed /\ Clear => Typed'
<1> SUFFICES ASSUME Typed, Clear PROVE Typed'
  OBVIOUS
<1>1. Shapes'
  <2>1. /\ dest' = [rows |-> dest'.rows, matrix |-> dest'.matrix, superseded |-> dest'.superseded,
                    figures |-> dest'.figures]
        /\ history' = [cut |-> history'.cut, absent |-> history'.absent, shown |-> history'.shown]
    BY DEF Clear, Typed, Shapes
  <2>2. driver' = driver /\ UNCHANGED raw
    BY DEF Clear
  <2> QED BY <2>1, <2>2, Cleared DEF Typed, Shapes, IsDriver, raw
<1>2. Running' /\ Results' /\ Captures' /\ Archives'
  BY RawTyped, RunTyped DEF Clear
<1>3. Publishing'
  BY Cleared DEF Typed, Publishing
<1>4. World'
  BY DEF Clear, Typed, World, world
<1> QED BY <1>1, <1>2, <1>3, <1>4 DEF Typed

(* A file among those that are left. *)
LEMMA WrittenFile ==
  ASSUME Typed, NEW file, Write(file)
  PROVE  /\ publisher.pc = "write" /\ Writing /\ ~Reading /\ publisher # Off
         /\ file \in publisher.todo /\ file \in FilesOf(GotAxes)
         /\ \A f \in publisher.todo : WriteOrder(file) <= WriteOrder(f)
         /\ dest' = [rows |-> dest'.rows, matrix |-> dest'.matrix, superseded |-> dest'.superseded,
                     figures |-> dest'.figures]
         /\ dest'.rows = [a \in Axes |-> dest'.rows[a]]
         /\ \A a \in Axes : dest'.rows[a] =
              IF file = <<"rows", a>> THEN File(RowsOf(publisher.got[a].holds)) ELSE dest.rows[a]
         /\ dest'.matrix = dest.matrix \cup
              (IF file[1] = "matrix" THEN publisher.new[file[2]] ELSE {})
         /\ dest'.superseded = IF file[1] = "superseded" THEN publisher.old ELSE dest.superseded
         /\ dest'.figures = IF file[1] = "figures" THEN File(publisher.figures) ELSE dest.figures
         /\ history'.absent = history.absent /\ history'.shown = history.shown
         /\ history' = [cut |-> history'.cut, absent |-> history'.absent, shown |-> history'.shown]
         /\ \/ /\ publisher.todo = {file} /\ publisher' = Off /\ history'.cut = FALSE
               /\ ~Writing' /\ ~Reading'
            \/ /\ publisher.todo # {file} /\ history'.cut = TRUE
               /\ publisher' # Off /\ publisher'.pc = "write" /\ Writing' /\ ~Reading'
               /\ IsWriter(publisher')
               /\ publisher'.todo = publisher.todo \ {file} /\ publisher'.todo # {}
               /\ publisher'.got = publisher.got
               /\ publisher'.figures = publisher.figures
               /\ publisher'.old = publisher.old /\ publisher'.new = publisher.new
               /\ GotAxes' = GotAxes
<1>1. publisher.pc = "write" /\ Writing /\ ~Reading /\ publisher # Off
  BY DEF Write, Writing, Reading, Off
<1>2. /\ file \in publisher.todo /\ file \in FilesOf(GotAxes) /\ IsWriter(publisher)
      /\ \A f \in publisher.todo : WriteOrder(file) <= WriteOrder(f)
  BY <1>1 DEF Write, Typed, Shapes, Publishing
<1>3. \/ file[1] = "rows" /\ WriteRows(file[2]) /\ file = <<"rows", file[2]>>
      \/ file[1] = "matrix" /\ WriteCaptures(file[2])
      \/ file[1] = "superseded" /\ WriteSuperseded
      \/ file[1] = "figures" /\ WriteFigures
  BY <1>2 DEF Write, FilesOf
<1>4. file \in FilesOf(GotAxes) /\ (file[1] = "rows" => file[2] \in Axes)
  BY <1>2 DEF FilesOf, GotAxes
<1>5. /\ dest = [rows |-> dest.rows, matrix |-> dest.matrix, superseded |-> dest.superseded,
                 figures |-> dest.figures]
      /\ dest.rows = [a \in Axes |-> dest.rows[a]]
      /\ history = [cut |-> history.cut, absent |-> history.absent, shown |-> history.shown]
  BY DEF Typed, Shapes
<1>6. /\ dest' = [rows |-> dest'.rows, matrix |-> dest'.matrix, superseded |-> dest'.superseded,
                  figures |-> dest'.figures]
      /\ dest'.rows = [a \in Axes |-> dest'.rows[a]]
      /\ \A a \in Axes : dest'.rows[a] =
           IF file = <<"rows", a>> THEN File(RowsOf(publisher.got[a].holds)) ELSE dest.rows[a]
      /\ dest'.matrix = dest.matrix \cup
           (IF file[1] = "matrix" THEN publisher.new[file[2]] ELSE {})
      /\ dest'.superseded = IF file[1] = "superseded" THEN publisher.old ELSE dest.superseded
      /\ dest'.figures = IF file[1] = "figures" THEN File(publisher.figures) ELSE dest.figures
  <2>1. CASE file[1] = "rows"
    <3>1. dest' = [dest EXCEPT !.rows[file[2]] = File(RowsOf(publisher.got[file[2]].holds))]
      BY <2>1, <1>3 DEF WriteRows, RowsOf
    <3>2. \A a \in Axes : file = <<"rows", a>> <=> file[2] = a
      BY <2>1, <1>3
    <3> QED BY <2>1, <3>1, <3>2, <1>4, <1>5
  <2>2. CASE file[1] = "matrix"
    BY <2>2, <1>3, <1>5 DEF WriteCaptures
  <2>3. CASE file[1] = "superseded"
    BY <2>3, <1>3, <1>5 DEF WriteSuperseded
  <2>4. CASE file[1] = "figures"
    BY <2>4, <1>3, <1>5 DEF WriteFigures
  <2> QED BY <2>1, <2>2, <2>3, <2>4, <1>3
<1>7. /\ history'.absent = history.absent /\ history'.shown = history.shown
      /\ history' = [cut |-> history'.cut, absent |-> history'.absent, shown |-> history'.shown]
      /\ history'.cut = (publisher.todo # {file})
  BY <1>5 DEF Write
<1>8. CASE publisher.todo = {file}
  BY <1>8, <1>1, <1>2, <1>6, <1>7 DEF Write, Writing, Reading, Off
<1>9. CASE publisher.todo # {file}
  <2>1. publisher' = [publisher EXCEPT !.todo = @ \ {file}]
    BY <1>9 DEF Write
  <2>2. /\ publisher'.pc = "write" /\ IsWriter(publisher')
        /\ publisher'.todo = publisher.todo \ {file} /\ publisher'.got = publisher.got
        /\ publisher'.figures = publisher.figures
        /\ publisher'.old = publisher.old /\ publisher'.new = publisher.new
    BY <2>1, <1>1, <1>2 DEF IsWriter
  <2>3. Writing' /\ ~Reading' /\ publisher' # Off /\ GotAxes' = GotAxes
    BY <2>2 DEF Writing, Reading, Off, GotAxes
  <2>4. publisher'.todo # {}
    BY <2>2, <1>2, <1>9
  <2> QED BY <1>1, <1>2, <1>6, <1>7, <1>9, <2>2, <2>3, <2>4
<1> QED BY <1>8, <1>9

LEMMA TypedWrite ==
  ASSUME Typed, NEW file, Write(file)
  PROVE  Typed'
<1>1. Shapes'
  <2>1. driver' = driver /\ UNCHANGED raw
    BY DEF Write
  <2> QED BY <2>1, WrittenFile DEF Typed, Shapes, IsDriver, raw
<1>2. Running' /\ Results' /\ Captures' /\ Archives'
  BY RawTyped, RunTyped DEF Write
<1>3. Publishing'
  BY WrittenFile DEF Typed, Publishing
<1>4. World'
  BY DEF Write, Typed, World, world
<1> QED BY <1>1, <1>2, <1>3, <1>4 DEF Typed

LEMMA TypedStep == Typed /\ [Next]_vars => Typed'
<1> SUFFICES ASSUME Typed, [Next]_vars PROVE Typed'
  OBVIOUS
<1>1. ASSUME NEW axis \in Axes, StartRun(axis) PROVE Typed'
  BY <1>1, TypedStartRun
<1>2. ASSUME NEW cell, RunCell(cell) PROVE Typed'
  BY <1>2, TypedRunCell
<1>3. CASE OpenResult
  BY <1>3, TypedOpenResult
<1>4. CASE DumpResult
  BY <1>4, TypedDumpResult
<1>5. CASE Abort
  BY <1>5, TypedAbort
<1>6. CASE Moves
  BY <1>6, TypedMoves
<1>7. ASSUME NEW moved \in SUBSET Axes, Archive(moved) PROVE Typed'
  BY <1>7, TypedArchive
<1>8. CASE StartPublication
  BY <1>8, TypedStartPublication
<1>9. CASE Check
  BY <1>9, TypedCheck
<1>10. CASE Clear
  BY <1>10, TypedClear
<1>11. CASE KillPublication
  BY <1>11, TypedStop DEF KillPublication
<1>12. ASSUME NEW axis \in Axes, ReadAxis(axis) PROVE Typed'
  BY <1>12, TypedReadAxis
<1>13. ASSUME NEW file, Write(file) PROVE Typed'
  BY <1>13, TypedWrite
<1>14. CASE UNCHANGED vars
  <2>1. Shapes' /\ World'
    BY <1>14 DEF vars, Typed, Shapes, World, IsDriver, IsReader, IsWriter, Reading, Writing
  <2> QED BY <2>1, <1>14, RawTyped, RunTyped, PublisherTyped DEF vars, raw, Typed
<1> QED BY <1>1, <1>2, <1>3, <1>4, <1>5, <1>6, <1>7, <1>8, <1>9, <1>10, <1>11, <1>12, <1>13, <1>14
        DEF Next, Moves

LEMMA AlwaysTyped == Spec => []Typed
<1> QED BY TypedInit, TypedStep, PTL DEF Spec

LEMMA TypedImplies == Typed => TypeOK
<1> SUFFICES ASSUME Typed PROVE TypeOK
  OBVIOUS
<1>1. driver # Off => /\ driver.todo \subseteq Cells(driver.axis)
                      /\ \A r \in driver.rows : IsRow(r) /\ r.label[1] = driver.axis
                      /\ \A r, q \in driver.rows : r.label = q.label => r = q
  BY CellsAreLabels DEF Typed, Running, RowsFor
<1>2. ASSUME NEW a \in Axes
      PROVE  /\ result[a].there =>
                  {r.label : r \in result[a].holds} = {a} \X Cells(a) \X (1..Repeat)
             /\ archive[a].there => \A p \in archive[a].holds : IsRow(p.row) /\ p.row.label[1] = a
  <2>1. archive[a].there => \A p \in archive[a].holds : IsRow(p.row) /\ p.row.label \in LabelsOf(a)
    BY DEF Typed, Archives, PairsFor
  <2> QED BY <2>1, CellsAreLabels DEF Typed, Results, RowsFor, LabelsOf
<1>3. listed \subseteq LISTS
  BY DEF Typed, Archives
<1> QED BY <1>1, <1>2, <1>3 DEF TypeOK, Typed, World

(* Rows are kept one per cell and number, in the run and in its file, and  *)
(* the captures of an archive are those of its rows.                       *)
THEOREM AgentTypes == Spec => []TypeOK
<1> QED BY AlwaysTyped, TypedImplies, PTL

-----------------------------------------------------------------------------
(***************************************************************************)
(* What is published has been checked.                                     *)
(***************************************************************************)

LEMMA Holds == \A content : File(content).there /\ File(content).holds = content
BY DEF File

(* The quartiles of a group without an answer raise, and so does the sort  *)
(* of the call counts: every row of an axis is answered.                   *)
LEMMA SummarisableAnswers ==
  ASSUME NEW axis, NEW pairs, Summarisable(axis, pairs), NEW p \in pairs
  PROVE  answered(p)
<1>1. PICK q \in pairs : GroupOf(axis, q) = GroupOf(axis, p) /\ answered(q)
  BY DEF Summarisable, AllAnswered
<1>2. CASE axis \in {"A", "B"}
  BY <1>1, <1>2 DEF Summarisable, Sortable, ScanAxes
<1>3. CASE axis \notin {"A", "B"}
  <2>1. \A x \in {p, q} :
          GroupOf(axis, x) = <<x.row.label[2].leg, x.row.label[2].catalog, x.row.label[2].model,
                               x.row.label[2].variant, IF answered(x) THEN "answered" ELSE "?">>
    BY <1>3 DEF GroupOf
  <2> HIDE DEF GroupOf, answered
  <2>2. (IF answered(q) THEN "answered" ELSE "?") = (IF answered(p) THEN "answered" ELSE "?")
    BY <1>1, <2>1
  <2>3. "answered" # "?"
    OBVIOUS
  <2> QED BY <1>1, <2>2, <2>3
<1> QED BY <1>2, <1>3

(* No scorer may have counted the calls otherwise. *)
LEMMA CallsAgree ==
  ASSUME NEW p, NEW version, ~Disagrees(p, version)
  PROVE  p.row.fields.catalog_calls = p.file.body.header
<1>1. /\ "catalog_calls" \in DOMAIN Fresh(p, version)
      /\ Fresh(p, version).catalog_calls = p.file.body.header
  BY DEF Fresh, Scored, score, score_scan
<1>2. Moved(p, version) = ScorerChanges(p, version)
  BY DEF Disagrees
<1>3. "catalog_calls" \notin ScorerChanges(p, version)
  BY DEF ScorerChanges
<1> HIDE DEF Fresh
<1>4. "catalog_calls" \notin Moved(p, version)
  BY <1>2, <1>3
<1> QED BY <1>1, <1>4 DEF Moved

LEMMA CheckPasses ==
  ASSUME Typed, Reading, Agreed, NEW a \in GotAxes, NEW p \in publisher.got[a].holds
  PROVE  /\ Answered(p.row)
         /\ Backed(p.row, ToPublish(publisher.got[a].holds))
         /\ Told(p.row, Figures)
<1> DEFINE version == publisher.graded
<1>1. p \in New /\ ~Disagrees(p, version)
  BY DEF New, Agreed
<1>2. publisher # Off /\ a \in Axes
  BY DEF Reading, Off, GotAxes
<1>3. Answered(p.row)
  BY <1>1, CallsAgree, SummarisableAnswers DEF Answered, answered, Agreed
<1>4. Backed(p.row, ToPublish(publisher.got[a].holds))
  <2> DEFINE c == [label |-> p.row.label, run |-> p.file.run, took |-> p.file.took,
                   shows |-> apply_map(p.file.ids, MapOf)]
  <2>1. c \in ToPublish(publisher.got[a].holds)
    BY DEF ToPublish
  <2>2. c.label = p.row.label /\ c.took = p.row.took
    BY <1>1 DEF Disagrees
  <2> QED BY <2>1, <2>2 DEF Backed
<1>5. ASSUME NEW line \in Figures.lines, line.label = p.row.label,
             NEW k \in DOMAIN line.fields, line.fields[k] # p.row.fields[k]
      PROVE  <<p.row.label, p.row.run, k>> \in Figures.disclosed
  <2>1. PICK q \in New : line = [label |-> q.row.label, run |-> q.row.run, fields |-> Fresh(q, version)]
    BY <1>5 DEF Figures
  <2>2. PICK b \in GotAxes : q \in publisher.got[b].holds
    BY DEF New
  <2>3. b \in Axes /\ PairsFor(a, publisher.got[a].holds) /\ PairsFor(b, publisher.got[b].holds)
    BY <1>2 DEF GotAxes, Typed, Publishing
  <2>4. p.row.label \in LabelsOf(a) /\ q.row.label \in LabelsOf(b) /\ q.row.label = p.row.label
    BY <2>1, <2>2, <2>3, <1>5 DEF PairsFor
  <2>5. a = b
    BY <2>4, <2>3, <1>2, CellsAreLabels
  <2>6. p = q
    BY <2>2, <2>3, <2>4, <2>5 DEF PairsFor
  <2>7. line.fields = Fresh(p, version)
    BY <2>1, <2>6
  <2>8. k \in Moved(p, version)
    BY <2>7, <1>5 DEF Moved
  <2>9. k \in ScorerChanges(p, version)
    BY <2>8, <1>1 DEF Disagrees
  <2>10. <<p.row.label, p.row.run, k>> \in Disclosed
    BY <2>9, <1>1 DEF Disclosed
  <2> QED BY <2>10 DEF Figures
<1>6. Told(p.row, Figures)
  BY <1>5 DEF Told
<1> QED BY <1>3, <1>4, <1>6

LEMMA PublishedInit == Init => PublishedInv
BY DEF Init, PublishedInv, Checked, Written, Writing, Off, UnansweredNeverPublished,
       RowsHaveCaptures, DifferencesAreTold, NoFile

(* Nothing changes but what a publication writes. *)
LEMMA PublishedFrame ==
  ASSUME PublishedInv, UNCHANGED <<dest, history>>, UNCHANGED publisher \/ ~Writing'
  PROVE  PublishedInv'
<1>1. Checked' /\ Written'
  BY DEF PublishedInv, Checked, Written, Writing, GotAxes
<1>2. UnansweredNeverPublished' /\ RowsHaveCaptures' /\ DifferencesAreTold'
  BY DEF PublishedInv, UnansweredNeverPublished, RowsHaveCaptures, DifferencesAreTold, Idle
<1> QED BY <1>1, <1>2 DEF PublishedInv

LEMMA PublishedCheck ==
  ASSUME Typed, PublishedInv, Check
  PROVE  PublishedInv'
<1>1. CASE Stop
  BY <1>1, PublishedFrame DEF Check, Stop, Off, Writing
<1>2. CASE /\ Agreed
           /\ publisher' = [pc |-> "clear", todo |-> FilesOf(GotAxes), got |-> publisher.got,
                            figures |-> Figures, old |-> ToPublish(Old),
                            new |-> [a \in GotAxes |-> ToPublish(publisher.got[a].holds)]]
  <2>1. /\ publisher'.pc = "clear" /\ publisher'.todo = FilesOf(GotAxes)
        /\ publisher'.got = publisher.got /\ publisher'.figures = Figures
        /\ publisher'.new = [a \in GotAxes |-> ToPublish(publisher.got[a].holds)]
    BY <1>2
  <2>2. GotAxes' = GotAxes
    BY <2>1 DEF GotAxes
  <2>3. ASSUME NEW a \in GotAxes, NEW r \in RowsOf(publisher.got[a].holds)
        PROVE  Answered(r) /\ Backed(r, publisher'.new[a]) /\ Told(r, publisher'.figures)
    <3>1. PICK p \in publisher.got[a].holds : r = p.row
      BY <2>3 DEF RowsOf
    <3>2. /\ Answered(p.row) /\ Backed(p.row, ToPublish(publisher.got[a].holds))
          /\ Told(p.row, Figures)
      BY <1>2, CheckPasses DEF Check
    <3> QED BY <3>1, <3>2, <2>1
  <2>4. Checked'
    BY <2>1, <2>2, <2>3 DEF Checked
  <2>5. Written'
    BY <2>1 DEF Written
  <2>6. UnansweredNeverPublished' /\ RowsHaveCaptures' /\ DifferencesAreTold'
    BY DEF Check, PublishedInv, UnansweredNeverPublished, RowsHaveCaptures, DifferencesAreTold, Idle
  <2> QED BY <2>4, <2>5, <2>6 DEF PublishedInv
<1> QED BY <1>1, <1>2 DEF Check

LEMMA PublishedClear ==
  ASSUME Typed, PublishedInv, Clear
  PROVE  PublishedInv'
<1>1. Checked'
  BY Cleared DEF PublishedInv, Checked
<1>2. Written'
  BY Cleared DEF PublishedInv, Checked, Written
<1>3. UnansweredNeverPublished'
  BY Cleared DEF PublishedInv, UnansweredNeverPublished
<1>4. RowsHaveCaptures' /\ DifferencesAreTold'
  BY Cleared DEF RowsHaveCaptures, DifferencesAreTold, Idle
<1> QED BY <1>1, <1>2, <1>3, <1>4 DEF PublishedInv

(* The files written so far, with the one of this step. *)
LEMMA WrittenSoFar ==
  ASSUME Typed, Written, NEW file, Write(file), NEW f \in FilesOf(GotAxes) \ (publisher.todo \ {file})
  PROVE  IsWritten(f, publisher, dest')
<1>1. /\ publisher.pc = "write" /\ file \in FilesOf(GotAxes)
      /\ \A a \in Axes : dest'.rows[a] =
           IF file = <<"rows", a>> THEN File(RowsOf(publisher.got[a].holds)) ELSE dest.rows[a]
      /\ dest'.matrix = dest.matrix \cup
           (IF file[1] = "matrix" THEN publisher.new[file[2]] ELSE {})
      /\ dest'.superseded = IF file[1] = "superseded" THEN publisher.old ELSE dest.superseded
      /\ dest'.figures = IF file[1] = "figures" THEN File(publisher.figures) ELSE dest.figures
  BY WrittenFile
<1>2. /\ f[1] = "rows" => f[2] \in Axes /\ f = <<"rows", f[2]>>
      /\ f[1] \in {"rows", "matrix", "superseded", "figures"}
  BY DEF FilesOf, GotAxes
<1>3. f # file => IsWritten(f, publisher, dest)
  BY <1>1 DEF Written
<1> QED BY <1>1, <1>2, <1>3 DEF IsWritten

LEMMA PublishedWrite ==
  ASSUME Typed, PublishedInv, NEW file, Write(file)
  PROVE  PublishedInv'
<1>1. /\ publisher.pc = "write" /\ Writing
      /\ file \in publisher.todo /\ file \in FilesOf(GotAxes)
      /\ history.cut /\ history.absent = Axes \ GotAxes
  BY WrittenFile DEF PublishedInv, Written
<1>2. \A a \in GotAxes : \A r \in RowsOf(publisher.got[a].holds) :
        Answered(r) /\ Backed(r, publisher.new[a]) /\ Told(r, publisher.figures)
  BY <1>1 DEF PublishedInv, Checked
<1>3. UnansweredNeverPublished'
  <2>1. ASSUME NEW a \in Axes, dest'.rows[a].there, NEW r \in dest'.rows[a].holds
        PROVE  r.fields.catalog_calls # {}
    <3>1. CASE file = <<"rows", a>>
      <4>1. a \in GotAxes
        BY <1>1, <3>1 DEF FilesOf
      <4>2. dest'.rows[a] = File(RowsOf(publisher.got[a].holds))
        BY <3>1, WrittenFile
      <4>3. r \in RowsOf(publisher.got[a].holds)
        BY <4>2, <2>1, Holds
      <4> QED BY <4>1, <4>3, <1>2 DEF Answered
    <3>2. CASE file # <<"rows", a>>
      <4>1. dest'.rows[a] = dest.rows[a]
        <5>1. \A b \in Axes : dest'.rows[b] =
                IF file = <<"rows", b>> THEN File(RowsOf(publisher.got[b].holds)) ELSE dest.rows[b]
          BY WrittenFile
        <5> QED BY <5>1, <3>2, Zenon
      <4> QED BY <4>1, <2>1 DEF PublishedInv, UnansweredNeverPublished
    <3> QED BY <3>1, <3>2
  <2> QED BY <2>1 DEF UnansweredNeverPublished
<1>4. CASE publisher.todo # {file}
  <2>1. /\ publisher'.pc = "write" /\ Writing' /\ history'.cut = TRUE
        /\ publisher'.todo = publisher.todo \ {file}
        /\ publisher'.got = publisher.got /\ publisher'.figures = publisher.figures
        /\ publisher'.old = publisher.old /\ publisher'.new = publisher.new
        /\ GotAxes' = GotAxes /\ history'.absent = history.absent
    BY <1>4, WrittenFile
  <2>2. Checked'
    BY <2>1, <1>2 DEF Checked
  <2>3. \A f : IsWritten(f, publisher, dest') => IsWritten(f, publisher', dest')
    BY <2>1 DEF IsWritten
  <2>4. Written'
    BY <2>1, <2>3, <1>1, WrittenSoFar DEF PublishedInv, Written
  <2>5. RowsHaveCaptures' /\ DifferencesAreTold'
    BY <2>1 DEF RowsHaveCaptures, DifferencesAreTold, Idle
  <2> QED BY <1>3, <2>2, <2>4, <2>5 DEF PublishedInv
<1>5. CASE publisher.todo = {file}
  <2>1. publisher' = Off /\ history'.absent = Axes \ GotAxes
    BY <1>1, <1>5, WrittenFile
  <2>2. Checked' /\ Written'
    BY <2>1 DEF Checked, Written, Writing, Off
  <2>3. \A f \in FilesOf(GotAxes) : IsWritten(f, publisher, dest')
    BY <1>5, WrittenSoFar DEF PublishedInv
  <2>4. /\ \A a \in GotAxes : /\ dest'.rows[a] = File(RowsOf(publisher.got[a].holds))
                              /\ publisher.new[a] \subseteq dest'.matrix
        /\ dest'.figures = File(publisher.figures)
    <3>1. /\ \A a \in GotAxes : <<"rows", a>> \in FilesOf(GotAxes) /\ <<"matrix", a>> \in FilesOf(GotAxes)
          /\ <<"figures", None>> \in FilesOf(GotAxes)
      BY DEF FilesOf
    <3> QED BY <3>1, <2>3 DEF IsWritten
  <2>5. ASSUME NEW a \in GotAxes, NEW r \in dest'.rows[a].holds
        PROVE  Backed(r, dest'.matrix) /\ Told(r, dest'.figures.holds)
    <3>1. r \in RowsOf(publisher.got[a].holds) /\ dest'.figures.holds = publisher.figures
      BY <2>4, <2>5, Holds
    <3>2. Backed(r, publisher.new[a]) /\ Told(r, publisher.figures)
      BY <3>1, <1>2
    <3> QED BY <3>1, <3>2, <2>4 DEF Backed
  <2>6. RowsHaveCaptures'
    BY <2>1, <2>5 DEF RowsHaveCaptures, Backed, GotAxes
  <2>7. DifferencesAreTold'
    BY <2>1, <2>5 DEF DifferencesAreTold, Told, GotAxes
  <2> QED BY <1>3, <2>2, <2>6, <2>7 DEF PublishedInv
<1> QED BY <1>4, <1>5

(* Only three actions of a publication write what is published, or say     *)
(* what will be; the others leave both alone, or stop it or begin one.     *)
LEMMA OnlyPublication ==
  ASSUME Typed, [Next]_vars
  PROVE  \/ Check \/ Clear \/ \E file : Write(file)
         \/ UNCHANGED <<dest, history>> /\ (UNCHANGED publisher \/ ~Writing')
<1>1. StartPublication => UNCHANGED <<dest, history>> /\ ~Writing'
  BY DEF StartPublication, Writing
<1>2. ASSUME NEW axis \in Axes, ReadAxis(axis)
      PROVE  UNCHANGED <<dest, history>> /\ ~Writing'
  <2>1. UNCHANGED <<dest, history>>
    BY <1>2 DEF ReadAxis
  <2>2. CASE publisher' = Off
    BY <2>1, <2>2 DEF Writing, Off
  <2>3. CASE publisher' # Off
    BY <1>2, <2>1, <2>3, ReadAxisGot DEF Reading, Writing
  <2> QED BY <2>2, <2>3
<1>3. KillPublication => UNCHANGED <<dest, history>> /\ ~Writing'
  BY DEF KillPublication, Stop, Writing, Off
<1>4. ASSUME NEW axis \in Axes, StartRun(axis) PROVE UNCHANGED published
  BY <1>4 DEF StartRun
<1>5. ASSUME NEW cell, RunCell(cell) PROVE UNCHANGED published
  BY <1>5 DEF RunCell
<1>6. OpenResult \/ DumpResult \/ Abort \/ Moves \/ UNCHANGED vars => UNCHANGED published
  BY MovesKeep DEF OpenResult, DumpResult, Abort, vars, published
<1>7. ASSUME NEW moved \in SUBSET Axes, Archive(moved) PROVE UNCHANGED published
  BY <1>7 DEF Archive
<1>8. UNCHANGED published => UNCHANGED <<dest, history>> /\ UNCHANGED publisher
  BY DEF published
<1> QED BY <1>1, <1>2, <1>3, <1>4, <1>5, <1>6, <1>7, <1>8 DEF Next, Moves

LEMMA PublishedStep == Typed /\ PublishedInv /\ [Next]_vars => PublishedInv'
BY OnlyPublication, PublishedFrame, PublishedCheck, PublishedClear, PublishedWrite

LEMMA AlwaysPublished == Spec => []PublishedInv
<1> QED BY AlwaysTyped, PublishedInit, PublishedStep, PTL DEF Spec

(* The check that refuses a group without an answer, and a row whose calls *)
(* are counted otherwise, stands before every write of rows.               *)
THEOREM NoUnanswered == Spec => []UnansweredNeverPublished
<1>1. PublishedInv => UnansweredNeverPublished
  BY DEF PublishedInv
<1> QED BY <1>1, AlwaysPublished, PTL

(* A publication that ends has written the captures of its rows.           *)
THEOREM RowsBacked == Spec => []RowsHaveCaptures
<1>1. PublishedInv => RowsHaveCaptures
  BY DEF PublishedInv
<1> QED BY <1>1, AlwaysPublished, PTL

(* A publication that ends has told each field it grades otherwise.        *)
THEOREM DifferencesTold == Spec => []DifferencesAreTold
<1>1. PublishedInv => DifferencesAreTold
  BY DEF PublishedInv
<1> QED BY <1>1, AlwaysPublished, PTL

-----------------------------------------------------------------------------
(***************************************************************************)
(* The identifiers of what is published.                                   *)
(***************************************************************************)
LEMMA ImageIsFinite ==
  ASSUME NEW S, IsFiniteSet(S), NEW f
  PROVE  IsFiniteSet({f[x] : x \in S})
<1> DEFINE T == {f[x] : x \in S}
           g == [x \in S |-> f[x]]
<1>1. g \in Surjection(S, T)
  BY DEF Surjection
<1> HIDE DEF g, T
<1>2. IsFiniteSet(T)
  BY <1>1, FS_Surjection
<1> QED BY <1>2 DEF T

(* A number from 1 for each identifier: there is a ranking. *)
LEMMA NumberedNames ==
  ASSUME NEW ids, IsFiniteSet(ids), NEW id \in ids
  PROVE  /\ DOMAIN Numbered(ids) = ids
         /\ Numbered(ids)[id][2] # 0
<1> DEFINE Ranks(f) == \A x, y \in ids : f[x] = f[y] => x = y
           rank == CHOOSE f \in [ids -> 1..Cardinality(ids)] : Ranks(f)
           upto == {x \in ids : x.kind = id.kind /\ rank[x] <= rank[id]}
<1>1. \E f \in [ids -> 1..Cardinality(ids)] : Ranks(f)
  <2>1. Cardinality(ids) \in Nat /\ IsFiniteSet(1..Cardinality(ids))
        /\ Cardinality(1..Cardinality(ids)) = Cardinality(ids)
    BY FS_CardinalityType, FS_Interval
  <2>2. ExistsBijection(ids, 1..Cardinality(ids))
    BY <2>1, FS_SameCardinalityBij
  <2> QED BY <2>2 DEF ExistsBijection, Bijection, Injection, IsInjective
<1> HIDE DEF Ranks
<1>2. rank \in [ids -> 1..Cardinality(ids)]
  BY <1>1
<1>3. Numbered(ids) =
        [i \in ids |-> <<i.kind, Cardinality({x \in ids : x.kind = i.kind /\ rank[x] <= rank[i]})>>]
  BY DEF Numbered, Ranks
<1> HIDE DEF rank
<1>4. id \in upto
  <2>1. rank[id] \in Int
    BY <1>2
  <2> QED BY <2>1
<1>5. IsFiniteSet(upto)
  BY FS_Subset
<1>6. Cardinality(upto) # 0
  BY <1>4, <1>5, FS_EmptySet
<1>7. Numbered(ids)[id] = <<id.kind, Cardinality(upto)>>
  BY <1>3
<1> QED BY <1>3, <1>6, <1>7

LEMMA IdsAreFinite ==
  ASSUME Typed, Reading
  PROVE  IsFiniteSet(Ids(New \cup Old))
<1>1. publisher # Off
  BY DEF Reading, Off
<1>2. IsFiniteSet(New)
  <2> DEFINE holds == [a \in GotAxes |-> publisher.got[a].holds]
             all == {holds[a] : a \in GotAxes}
  <2>1. IsFiniteSet(all)
    <3>1. IsFiniteSet(GotAxes)
      BY AxesAreFinite, FS_Subset DEF GotAxes
    <3> HIDE DEF holds
    <3> QED BY <3>1, ImageIsFinite
  <2>2. \A T \in all : IsFiniteSet(T)
    BY <1>1 DEF Typed, Publishing, PairsFor
  <2>3. New = UNION all
    BY DEF New
  <2> HIDE DEF all
  <2> QED BY <2>1, <2>2, <2>3, FS_UNION
<1>3. IsFiniteSet(Old)
  <2> DEFINE axes == Republished(Archived)
             holds == [a \in axes |-> archive[a].holds]
             all == {holds[a] : a \in axes}
  <2>1. axes \subseteq Archived
    BY DEF Republished
  <2> HIDE DEF axes
  <2>2. IsFiniteSet(all)
    <3>1. IsFiniteSet(axes)
      BY <2>1, AxesAreFinite, FS_Subset DEF Archived
    <3> HIDE DEF holds
    <3> QED BY <3>1, ImageIsFinite
  <2>3. \A T \in all : IsFiniteSet(T)
    BY <2>1 DEF Typed, Archives, PairsFor, Archived
  <2>4. Old = UNION all
    BY DEF Old, axes
  <2> HIDE DEF all
  <2> QED BY <2>2, <2>3, <2>4, FS_UNION
<1>4. IsFiniteSet(New \cup Old)
  BY <1>2, <1>3, FS_Union
<1>5. \A p \in New \cup Old : IsFiniteSet(p.file.ids)
  BY <1>1 DEF New, Old, Republished, Archived, GotAxes, Typed, Publishing, Archives, PairsFor, IsCapture
<1> DEFINE pairs == New \cup Old
           ids == [p \in pairs |-> p.file.ids]
           all == {ids[p] : p \in pairs}
<1>6. IsFiniteSet(all)
  BY <1>4, ImageIsFinite
<1>7. \A T \in all : IsFiniteSet(T)
  BY <1>5
<1>8. Ids(New \cup Old) = UNION all
  BY DEF Ids
<1> HIDE DEF all
<1> QED BY <1>6, <1>7, <1>8, FS_UNION

(* An identifier no pseudonym stands for is an email's, and is found. *)
LEMMA MasksAreWhole ==
  ASSUME NEW ids, IsFiniteSet(ids), NEW text \in SUBSET ids,
         \A id \in text : id \in Known \/ id.kind \in KINDS,
         residual_scan(apply_map(text, Mapping(ids, Known))) = {},
         NEW mask \in apply_map(text, Mapping(ids, Known))
  PROVE  \E name \in mask : mask = {name} /\ name[2] # 0
<1> DEFINE mapped == build_map(ids) \cup (ids \cap Known)
           mapping == Mapping(ids, Known)
<1>1. PICK id \in text : mask = Masked(id, mapping)
  BY DEF apply_map
<1>2. IsFiniteSet(mapped) /\ mapping = Numbered(mapped)
  BY FS_Subset DEF Mapping, build_map
<1>3. DOMAIN mapping = mapped
  <2>1. CASE mapped = {}
    BY <1>2, <2>1 DEF Numbered
  <2>2. CASE mapped # {}
    <3> HIDE DEF mapped
    <3> QED BY <1>2, <2>2, NumberedNames
  <2> QED BY <2>1, <2>2
<1>4. CASE id \in mapped
  <2>1. mapping[id][2] # 0
    <3> HIDE DEF mapped, mapping
    <3> QED BY <1>2, <1>4, NumberedNames
  <2>2. mask = {mapping[id]}
    BY <1>1, <1>3, <1>4 DEF Masked
  <2> HIDE DEF mapping
  <2> QED BY <2>1, <2>2
<1>5. CASE id \notin mapped
  <2>1. id.kind = "email"
    BY <1>5 DEF build_map, KINDS
  <2>2. Left(id.kind) \in mask
    BY <1>1, <1>3, <1>5 DEF Masked
  <2>3. "email" \in residual_scan(apply_map(text, Mapping(ids, Known)))
    <3> HIDE DEF mapping
    <3>1. \E m \in apply_map(text, Mapping(ids, Known)) : \E name \in m : name = Left("email")
      BY <2>1, <2>2
    <3> QED BY <3>1 DEF residual_scan, RESIDUAL
  <2> QED BY <2>3
<1> QED BY <1>4, <1>5

LEMMA CleanShowsMasked ==
  ASSUME Typed, Reading, Clean, NEW pairs \in SUBSET (New \cup Old)
  PROVE  ShowsMasked(ToPublish(pairs))
<1> SUFFICES ASSUME NEW c \in ToPublish(pairs), NEW mask \in c.shows
             PROVE  \E name \in mask : mask = {name} /\ name[2] # 0
  BY DEF ShowsMasked
<1>1. PICK p \in pairs : c.shows = apply_map(p.file.ids, MapOf)
  BY DEF ToPublish
<1>2. publisher # Off
  BY DEF Reading, Off
<1>3. \A id \in p.file.ids : id \in Known \/ id.kind \in KINDS
  BY <1>2 DEF New, Old, Republished, Archived, GotAxes, Typed, Publishing, Archives, PairsFor, IsCapture
<1>4. p.file.ids \subseteq Ids(New \cup Old) /\ IsFiniteSet(Ids(New \cup Old))
  BY IdsAreFinite DEF Ids
<1>5. residual_scan(apply_map(p.file.ids, MapOf)) = {}
  BY DEF Clean
<1>6. mask \in apply_map(p.file.ids, MapOf)
  BY <1>1
<1> DEFINE all == Ids(New \cup Old)
           text == p.file.ids
<1>7. /\ IsFiniteSet(all) /\ text \in SUBSET all
      /\ \A id \in text : id \in Known \/ id.kind \in KINDS
      /\ residual_scan(apply_map(text, Mapping(all, Known))) = {}
      /\ mask \in apply_map(text, Mapping(all, Known))
  BY <1>3, <1>4, <1>5, <1>6 DEF MapOf
<1> HIDE DEF all, text
<1> QED BY <1>7, MasksAreWhole

LEMMA MaskedInit == Init => MaskedInv
BY DEF Init, MaskedInv, ShowsMasked, Writing, Off

LEMMA MaskedFrame ==
  ASSUME MaskedInv, UNCHANGED dest, UNCHANGED publisher \/ ~Writing'
  PROVE  MaskedInv'
BY DEF MaskedInv, ShowsMasked, Writing, GotAxes

LEMMA MaskedCheck ==
  ASSUME Typed, MaskedInv, Check
  PROVE  MaskedInv'
<1>1. CASE Stop
  BY <1>1, MaskedFrame DEF Check, Stop, Off, Writing
<1>2. CASE /\ Clean
           /\ publisher' = [pc |-> "clear", todo |-> FilesOf(GotAxes), got |-> publisher.got,
                            figures |-> Figures, old |-> ToPublish(Old),
                            new |-> [a \in GotAxes |-> ToPublish(publisher.got[a].holds)]]
  <2>1. /\ publisher'.old = ToPublish(Old) /\ publisher'.got = publisher.got
        /\ publisher'.new = [a \in GotAxes |-> ToPublish(publisher.got[a].holds)]
    BY <1>2
  <2>2. GotAxes' = GotAxes
    BY <2>1 DEF GotAxes
  <2>3. ShowsMasked(publisher'.old)
    BY <1>2, <2>1, CleanShowsMasked DEF Check
  <2>4. ASSUME NEW a \in GotAxes PROVE ShowsMasked(publisher'.new[a])
    <3>1. publisher.got[a].holds \subseteq New \cup Old
      BY DEF New
    <3>2. ShowsMasked(ToPublish(publisher.got[a].holds))
      BY <1>2, <3>1, CleanShowsMasked DEF Check
    <3> QED BY <2>1, <3>2
  <2>5. dest' = dest
    BY DEF Check
  <2>6. ShowsMasked(dest'.matrix) /\ ShowsMasked(dest'.superseded)
    BY <2>5 DEF MaskedInv
  <2> QED BY <2>2, <2>3, <2>4, <2>6 DEF MaskedInv
<1> QED BY <1>1, <1>2 DEF Check

LEMMA MaskedClear == Typed /\ MaskedInv /\ Clear => MaskedInv'
<1> SUFFICES ASSUME Typed, MaskedInv, Clear PROVE MaskedInv'
  OBVIOUS
<1>1. ShowsMasked(dest'.matrix) /\ ShowsMasked(dest'.superseded)
  BY Cleared DEF ShowsMasked
<1>2. Writing /\ publisher'.old = publisher.old /\ publisher'.new = publisher.new /\ GotAxes' = GotAxes
  BY Cleared
<1> QED BY <1>1, <1>2 DEF MaskedInv

LEMMA MaskedWrite ==
  ASSUME Typed, MaskedInv, NEW file, Write(file)
  PROVE  MaskedInv'
<1>1. Writing /\ (file[1] = "matrix" => file[2] \in GotAxes)
  <2>1. Writing /\ file \in FilesOf(GotAxes)
    BY WrittenFile
  <2> QED BY <2>1, FilesAreSome
<1>2. ShowsMasked(publisher.old) /\ \A a \in GotAxes : ShowsMasked(publisher.new[a])
  BY <1>1 DEF MaskedInv
<1>3. ShowsMasked(dest'.superseded)
  BY <1>2, WrittenFile DEF MaskedInv
<1>4. ShowsMasked(dest'.matrix)
  <2>1. dest'.matrix = dest.matrix \cup
          (IF file[1] = "matrix" THEN publisher.new[file[2]] ELSE {})
    BY WrittenFile
  <2> QED BY <1>1, <1>2, <2>1 DEF MaskedInv, ShowsMasked
<1>5. Writing' => publisher'.old = publisher.old /\ publisher'.new = publisher.new /\ GotAxes' = GotAxes
  BY WrittenFile
<1> QED BY <1>2, <1>3, <1>4, <1>5 DEF MaskedInv

LEMMA MaskedStep == Typed /\ MaskedInv /\ [Next]_vars => MaskedInv'
<1> SUFFICES ASSUME Typed, MaskedInv, [Next]_vars PROVE MaskedInv'
  OBVIOUS
<1>1. CASE Check
  BY <1>1, MaskedCheck
<1>2. CASE Clear
  BY <1>2, MaskedClear
<1>3. ASSUME NEW file, Write(file) PROVE MaskedInv'
  BY <1>3, MaskedWrite
<1>4. UNCHANGED dest /\ (UNCHANGED publisher \/ ~Writing') => MaskedInv'
  BY MaskedFrame
<1>5. \/ Check \/ Clear \/ \E file : Write(file)
      \/ UNCHANGED <<dest, history>> /\ (UNCHANGED publisher \/ ~Writing')
  BY OnlyPublication
<1> QED BY <1>1, <1>2, <1>3, <1>4, <1>5

LEMMA AlwaysMasked == Spec => []MaskedInv
<1> QED BY AlwaysTyped, MaskedInit, MaskedStep, PTL DEF Spec

(* Given that what a text may hold is found by a pattern or listed, the    *)
(* scan that follows the masking leaves nothing to publish unmasked.       *)
THEOREM NothingShown == Spec => []IdentifiersMasked
<1>1. MaskedInv => IdentifiersMasked
  BY DEF MaskedInv, ShowsMasked, IdentifiersMasked
<1> QED BY <1>1, AlwaysMasked, PTL

-----------------------------------------------------------------------------
(***************************************************************************)
(* What was published is published again.                                  *)
(***************************************************************************)
LEMMA SomeFile == Torn # NoFile /\ \A content : File(content) # NoFile
<1>1. DOMAIN Torn # DOMAIN NoFile
  BY DEF Torn, NoFile
<1>2. \A content : File(content).there # NoFile.there
  BY DEF File, NoFile
<1> QED BY <1>1, <1>2

(* What the two lists lead to. *)
LEMMA ListsRepublish == Republished(Archived) = ByTheLists \cap Archived
<1>1. AXES = {"A", "B", "C", "D", "E", "F"} /\ Archived \subseteq AXES
  BY AgentAssumption DEF Archived, AXES, AXIS_CELLS
<1> QED BY <1>1 DEF Republished, ByTheLists, superseded, superseded_d

(* Time passes: what is past stays so. *)
LEMMA PastKeeps ==
  ASSUME Typed, [Next]_vars, NEW label, NEW run, Past(label, run)
  PROVE  Past(label, run)'
<1>1. label \in Labels /\ run \in RunIds /\ run <= runs /\ run \in Int /\ runs \in Int
  BY DEF Past, RunIds, Typed, World
<1>2. ASSUME NEW axis \in Axes, StartRun(axis) PROVE Past(label, run)'
  <2>1. runs' = runs + 1
    BY <1>2 DEF StartRun
  <2>2. run <= runs' /\ run # runs'
    BY <1>1, <2>1
  <2> QED BY <1>1, <2>2 DEF Past
<1>3. ASSUME NEW cell, RunCell(cell) PROVE Past(label, run)'
  <2>1. runs' = runs
    BY <1>3 DEF RunCell
  <2>2. At("cells") /\ driver'.axis = driver.axis /\ Done \subseteq Done'
    BY <1>3, CellRun
  <2> QED BY <2>1, <2>2, <1>1 DEF Past
<1>4. CASE OpenResult \/ DumpResult \/ Abort
  <2>1. runs' = runs /\ driver'.pc # "cells"
    <3>1. CASE OpenResult
      BY <3>1 DEF OpenResult, Typed, Shapes, IsDriver, Off, At
    <3>2. CASE DumpResult \/ Abort
      BY <3>2 DEF DumpResult, Abort, Off
    <3> QED BY <1>4, <3>1, <3>2
  <2> QED BY <2>1, <1>1 DEF Past, At
<1>5. UNCHANGED <<driver, runs>> => Past(label, run)'
  BY DEF Past, At, Done
<1>6. ASSUME NEW moved \in SUBSET Axes, Archive(moved) PROVE UNCHANGED <<driver, runs>>
  BY <1>6 DEF Archive
<1>7. ASSUME NEW axis \in Axes, ReadAxis(axis) PROVE UNCHANGED <<driver, runs>>
  BY <1>7 DEF ReadAxis
<1>8. ASSUME NEW file, Write(file) PROVE UNCHANGED <<driver, runs>>
  BY <1>8 DEF Write
<1>9. Moves \/ StartPublication \/ Check \/ Clear \/ KillPublication \/ UNCHANGED vars
        => UNCHANGED <<driver, runs>>
  BY MovesKeep DEF StartPublication, Check, Clear, KillPublication, vars
<1> QED BY <1>2, <1>3, <1>4, <1>5, <1>6, <1>7, <1>8, <1>9 DEF Next, Moves

(* A run of a cell has a higher number than all that came to its label.    *)
LEMMA RunIsLater ==
  ASSUME Typed, NEW label \in LabelsOf(driver.axis) \ Done, At("cells"), driver.axis \in Axes,
         NEW run, Past(label, run)
  PROVE  run < runs
<1>1. label[1] = driver.axis
  BY CellsAreLabels
<1>2. run # runs
  BY <1>1 DEF Past
<1>3. run \in Int /\ runs \in Int /\ run <= runs
  BY DEF Past, RunIds, Typed, World
<1> QED BY <1>2, <1>3

(* The actions on the raw files. *)
LEMMA RawActions ==
  ASSUME Typed, [Next]_vars
  PROVE  \/ UNCHANGED raw
         \/ \E cell : RunCell(cell)
         \/ OpenResult \/ DumpResult \/ Abort
         \/ \E moved \in SUBSET Axes : Archive(moved)
<1>1. ASSUME NEW axis \in Axes, StartRun(axis) PROVE UNCHANGED raw
  BY <1>1 DEF StartRun
<1>2. ASSUME NEW axis \in Axes, ReadAxis(axis) PROVE UNCHANGED raw
  BY <1>2 DEF ReadAxis
<1>3. ASSUME NEW file, Write(file) PROVE UNCHANGED raw
  BY <1>3 DEF Write
<1>4. Moves \/ StartPublication \/ Check \/ Clear \/ KillPublication \/ UNCHANGED vars
        => UNCHANGED raw
  BY MovesKeep DEF StartPublication, Check, Clear, KillPublication, vars, raw
<1> QED BY <1>1, <1>2, <1>3, <1>4 DEF Next, Moves

LEMMA FilesPastKeeps == Typed /\ FilesPast /\ [Next]_vars => FilesPast'
<1> SUFFICES ASSUME Typed, FilesPast, [Next]_vars PROVE FilesPast'
  OBVIOUS
<1>1. \A label, run : Past(label, run) => Past(label, run)'
  BY PastKeeps
<1>2. CASE UNCHANGED raw
  BY <1>1, <1>2 DEF FilesPast, raw
<1>3. ASSUME NEW cell, RunCell(cell) PROVE FilesPast'
  <2>1. PICK label \in LabelsOf(driver.axis) \ Done : \E file :
          /\ label \in Labels /\ IsCapture(file) /\ file.run = runs
          /\ capture' = [capture EXCEPT ![label] = File(file)]
          /\ Done' = Done \cup {label}
    BY <1>3, CellRun
  <2>2. PICK file :
          /\ label \in Labels /\ IsCapture(file) /\ file.run = runs
          /\ capture' = [capture EXCEPT ![label] = File(file)]
          /\ Done' = Done \cup {label}
    BY <2>1
  <2>3. runs' = runs /\ archive' = archive /\ runs \in RunIds /\ runs \in Int
    <3>1. runs' = runs /\ archive' = archive
      BY <1>3 DEF RunCell
    <3>2. runs \in RunIds
      BY <1>3, CellRun
    <3> QED BY <3>1, <3>2 DEF RunIds
  <2>5. ASSUME NEW l \in Labels, capture'[l].there,
               NEW run, run = capture'[l].holds.run
        PROVE  Past(l, run)'
    <3>1. CASE l = label
      <4>1. run = runs
        BY <3>1, <2>2, <2>5, Holds DEF Typed, Shapes
      <4>2. run = runs'
        BY <4>1, <2>3
      <4> QED BY <4>2, <3>1, <2>2, <2>3 DEF Past
    <3>2. CASE l # label
      <4>1. capture'[l] = capture[l]
        BY <3>2, <2>2 DEF Typed, Shapes
      <4> QED BY <4>1, <1>1, <2>5 DEF FilesPast
    <3> QED BY <3>1, <3>2
  <2>6. \A l \in Labels : capture'[l].there => Past(l, capture[l].holds.run)'
    BY <2>5 DEF Past
  <2> QED BY <2>3, <2>6, <1>1 DEF FilesPast
<1>4. CASE OpenResult \/ DumpResult
  <2>1. UNCHANGED <<capture, archive>>
    BY <1>4 DEF OpenResult, DumpResult
  <2> QED BY <2>1, <1>1 DEF FilesPast
<1>5. ASSUME NEW moved \in SUBSET Axes, Archive(moved) PROVE FilesPast'
  <2>1. /\ archive' = [a \in Axes |-> IF a \in moved THEN File(Taken(a)) ELSE archive[a]]
        /\ capture' = [l \in Labels |-> IF l[1] \in moved THEN NoFile ELSE capture[l]]
        /\ \A a \in moved : result[a].there /\ \A r \in result[a].holds : capture[r.label].there
    BY <1>5 DEF Archive
  <2>2. \A l \in Labels : capture'[l].there => capture'[l] = capture[l]
    BY <2>1 DEF NoFile
  <2>3. ASSUME NEW a \in moved, NEW p \in Taken(a) PROVE Past(p.row.label, p.file.run)
    <3>1. p.row \in result[a].holds /\ p.file = capture[p.row.label].holds /\ IsRow(p.row)
      BY <2>1, TakenPairs DEF PairsFor
    <3>2. p.row.label \in Labels /\ capture[p.row.label].there
      BY <3>1, <2>1 DEF IsRow
    <3> QED BY <3>1, <3>2 DEF FilesPast
  <2>4. ASSUME NEW a \in Axes, archive'[a].there, NEW p \in archive'[a].holds
        PROVE  Past(p.row.label, p.file.run)
    <3>1. CASE a \in moved
      BY <3>1, <2>1, <2>3, <2>4, Holds
    <3>2. CASE a \notin moved
      BY <3>2, <2>1, <2>4 DEF FilesPast
    <3> QED BY <3>1, <3>2
  <2> QED BY <2>2, <2>4, <1>1 DEF FilesPast
<1>6. CASE Abort
  <2>1. archive' = archive /\ \A l \in Labels : capture'[l].there => capture'[l] = capture[l]
    BY <1>6, AbortCuts DEF Typed, Shapes, Torn
  <2> QED BY <2>1, <1>1 DEF FilesPast
<1> QED BY <1>2, <1>3, <1>4, <1>5, <1>6, RawActions

(* What has been run again stays so, and will not be in an archive.        *)
LEMMA AgainKeeps ==
  ASSUME Typed, FilesPast, [Next]_vars,
         NEW s, Past(s.label, s.run)
  PROVE  /\ InArchive(s) => InArchive(s)' /\ listed' = listed
         /\ RunAgain(s) => RunAgain(s)'
         /\ RunAgain(s) /\ ~InArchive(s) => ~InArchive(s)'
<1>0. s.label \in Labels /\ s.run \in Int /\ s.label[1] \in Axes
  BY LabelsByAxis DEF Past, RunIds
<1>1. UNCHANGED archive => (InArchive(s)' <=> InArchive(s))
  BY DEF InArchive
<1>2. CASE UNCHANGED <<capture, archive, listed>>
  BY <1>1, <1>2 DEF RunAgain
<1>3. ASSUME NEW cell, RunCell(cell), RunAgain(s) PROVE RunAgain(s)'
  <2>1. /\ UNCHANGED archive /\ At("cells") /\ driver.axis \in Axes
        /\ \E label \in LabelsOf(driver.axis) \ Done : \E file :
             file.run = runs /\ capture' = [capture EXCEPT ![label] = File(file)]
    BY <1>3, CellRun DEF RunCell
  <2>0. PICK label \in LabelsOf(driver.axis) \ Done :
          \E file : file.run = runs /\ capture' = [capture EXCEPT ![label] = File(file)]
    BY <2>1
  <2>2. PICK file : file.run = runs /\ capture' = [capture EXCEPT ![label] = File(file)]
    BY <2>0
  <2>3. CASE capture[s.label].there /\ capture[s.label].holds.run > s.run /\ s.label = label
    <3>1. Past(label, capture[label].holds.run)
      BY <1>0, <2>3 DEF FilesPast
    <3>2. capture[label].holds.run < runs
      BY <2>1, <3>1, RunIsLater
    <3>3. capture'[s.label].there /\ capture'[s.label].holds.run = runs
      BY <1>0, <2>2, <2>3, Holds DEF Typed, Shapes
    <3>4. runs \in Int /\ capture[label].holds.run \in Int
      BY <3>1 DEF Past, RunIds, Typed, World
    <3>5. runs > s.run
      BY <1>0, <3>2, <3>4, <2>3
    <3> QED BY <3>3, <3>5 DEF RunAgain
  <2>4. CASE capture[s.label].there /\ capture[s.label].holds.run > s.run /\ s.label # label
    <3>1. capture'[s.label] = capture[s.label]
      BY <2>2, <2>4 DEF Typed, Shapes
    <3> QED BY <3>1, <2>4 DEF RunAgain
  <2>5. CASE capture[s.label] = Torn /\ s.label = label
    <3>1. s.run < runs /\ runs \in Int
      BY <2>1, <2>5, RunIsLater DEF Typed, World
    <3>2. capture'[s.label].there /\ capture'[s.label].holds.run = runs
      BY <2>2, <2>5, <1>0, Holds DEF Typed, Shapes
    <3> QED BY <3>1, <3>2, <1>0 DEF RunAgain
  <2>6. CASE capture[s.label] = Torn /\ s.label # label
    <3>1. capture'[s.label] = capture[s.label]
      BY <2>2, <2>6, <1>0 DEF Typed, Shapes
    <3> QED BY <3>1, <2>6 DEF RunAgain
  <2>7. CASE /\ ~(capture[s.label].there /\ capture[s.label].holds.run > s.run)
             /\ capture[s.label] # Torn
    BY <2>1, <2>7, <1>3 DEF RunAgain
  <2> QED BY <2>3, <2>4, <2>5, <2>6, <2>7
<1>4. ASSUME NEW moved \in SUBSET Axes, Archive(moved)
      PROVE  ~InArchive(s) /\ (RunAgain(s) => RunAgain(s)' /\ ~InArchive(s)')
  <2>1. /\ archive' = [a \in Axes |-> IF a \in moved THEN File(Taken(a)) ELSE archive[a]]
        /\ capture' = [l \in Labels |-> IF l[1] \in moved THEN NoFile ELSE capture[l]]
        /\ \A a \in moved : result[a].there /\ \A r \in result[a].holds : capture[r.label].there
        /\ \A a \in Axes : ~archive[a].there
    BY <1>4 DEF Archive
  <2>2. ~InArchive(s)
    BY <2>1 DEF InArchive
  <2>4. ASSUME s.label[1] \in moved PROVE capture[s.label].there
    <3>1. PICK p \in Taken(s.label[1]) : p.row.label = s.label
      BY <1>0, <2>1, <2>4, LabelsByAxis, TakenPairs
    <3> QED BY <3>1, <2>1, <2>4 DEF Taken
  <2>5. CASE capture[s.label] = Torn
    <3>1. s.label[1] \notin moved
      BY <2>4, <2>5 DEF Torn
    <3>2. capture'[s.label] = Torn
      BY <3>1, <2>1, <2>5, <1>0
    <3>3. ASSUME NEW a \in Axes, archive'[a].there, NEW p \in archive'[a].holds,
                 p.row.label = s.label
          PROVE  FALSE
      <4>1. a \in moved /\ p \in Taken(a)
        BY <3>3, <2>1, Holds
      <4>2. PairsFor(a, Taken(a))
        BY <4>1, <2>1, TakenPairs
      <4>3. s.label \in LabelsOf(a)
        BY <4>1, <4>2, <3>3 DEF PairsFor
      <4> QED BY <4>1, <4>3, <3>1, CellsAreLabels
    <3> QED BY <3>2, <3>3, <2>2 DEF RunAgain, InArchive
  <2>3. ASSUME RunAgain(s), capture[s.label] # Torn PROVE RunAgain(s)' /\ ~InArchive(s)'
    <3>1. capture[s.label].there /\ capture[s.label].holds.run > s.run
      BY <2>1, <2>3 DEF RunAgain
    <3>2. capture[s.label].holds.run \in Int
      BY <1>0, <3>1 DEF Typed, Captures, IsCapture, RunIds
    <3>3. ASSUME s.label[1] \in moved PROVE RunAgain(s)'
      <4> DEFINE a == s.label[1]
      <4>1. s.label \in LabelsOf(a)
        BY <1>0, LabelsByAxis
      <4>2. PICK p \in Taken(a) : p.row.label = s.label
        BY <4>1, <3>3, <2>1, TakenPairs
      <4>3. p.file = capture[s.label].holds
        BY <4>2, <3>3, <2>1, TakenPairs
      <4>4. archive'[a] = File(Taken(a))
        BY <3>3, <2>1
      <4> QED BY <4>2, <4>3, <4>4, <3>1, <3>3, Holds DEF RunAgain
    <3>4. ASSUME s.label[1] \notin moved PROVE RunAgain(s)'
      BY <1>0, <3>1, <3>4, <2>1 DEF RunAgain
    <3>5. ASSUME NEW a \in Axes, archive'[a].there, NEW p \in archive'[a].holds,
                 p.row.label = s.label, p.file.run = s.run
          PROVE  FALSE
      <4>1. a \in moved /\ p \in Taken(a)
        BY <3>5, <2>1, Holds
      <4>2. p.file = capture[s.label].holds
        BY <4>1, <3>5, <2>1, TakenPairs
      <4> QED BY <4>2, <3>1, <3>2, <3>5
    <3>6. ~InArchive(s)'
      BY <3>5 DEF InArchive
    <3> QED BY <3>3, <3>4, <3>6
  <2> QED BY <2>2, <2>3, <2>5
<1>5. UNCHANGED raw => UNCHANGED <<capture, archive, listed>>
  BY DEF raw
<1>6. OpenResult \/ DumpResult => UNCHANGED <<capture, archive, listed>>
  BY DEF OpenResult, DumpResult
<1>7. ASSUME NEW cell, RunCell(cell) PROVE UNCHANGED <<archive, listed>>
  BY <1>7 DEF RunCell
<1>8. CASE Abort
  <2>1. UNCHANGED <<archive, listed>>
    BY <1>8, AbortCuts
  <2>2. \/ capture'[s.label] = capture[s.label]
        \/ capture'[s.label] = Torn
    BY <1>0, <1>8, AbortCuts DEF Typed, Shapes
  <2> QED BY <1>1, <2>1, <2>2 DEF RunAgain
<1> QED BY <1>1, <1>2, <1>3, <1>4, <1>5, <1>6, <1>7, <1>8, RawActions

LEMMA GoneKeeps ==
  ASSUME Typed, FilesPast, [Next]_vars, NEW s, Past(s.label, s.run), Gone(s)
  PROVE  Gone(s)'
<1>1. CASE InArchive(s)
  <2>1. InArchive(s)' /\ ByTheLists' = ByTheLists
    BY <1>1, AgainKeeps DEF ByTheLists
  <2> QED BY <1>1, <2>1 DEF Gone
<1>2. CASE ~InArchive(s)
  BY <1>2, AgainKeeps DEF Gone
<1> QED BY <1>1, <1>2

(* And what can be published again, can be unless it is run again.         *)
LEMMA SafeKeeps ==
  ASSUME Typed, FilesPast, [Next]_vars, NEW s, Past(s.label, s.run), Safe(s)
  PROVE  Safe(s)'
<1>1. s.label \in Labels /\ s.label[1] \in Axes /\ s.label \in LabelsOf(s.label[1])
  BY LabelsByAxis DEF Past
<1>2. CASE ~Current(s)
  BY <1>2, AgainKeeps DEF Safe
<1>3. CASE Current(s)
  <2>1. capture[s.label].there /\ capture[s.label].holds.run = s.run /\ result[s.label[1]] # NoFile
    BY <1>3 DEF Current
  <2>2. CASE UNCHANGED raw
    BY <1>3, <2>2 DEF Safe, Current, raw
  <2>3. ASSUME NEW cell, RunCell(cell) PROVE Safe(s)'
    <3>1. /\ UNCHANGED result /\ At("cells") /\ driver.axis \in Axes
          /\ \E label \in LabelsOf(driver.axis) \ Done : \E file :
               file.run = runs /\ capture' = [capture EXCEPT ![label] = File(file)]
      BY <2>3, CellRun DEF RunCell
    <3>0. PICK label \in LabelsOf(driver.axis) \ Done :
            \E file : file.run = runs /\ capture' = [capture EXCEPT ![label] = File(file)]
      BY <3>1
    <3>2. PICK file : file.run = runs /\ capture' = [capture EXCEPT ![label] = File(file)]
      BY <3>0
    <3>3. CASE s.label = label
      <4>1. s.run < runs /\ s.run \in Int /\ runs \in Int
        BY <3>1, <3>3, RunIsLater DEF Past, RunIds, Typed, World
      <4>2. capture'[s.label].there /\ capture'[s.label].holds.run = runs
        BY <3>2, <3>3, <1>1, Holds DEF Typed, Shapes
      <4>3. RunAgain(s)'
        BY <4>1, <4>2 DEF RunAgain
      <4> QED BY <4>3 DEF Safe
    <3>4. CASE s.label # label
      <4>1. capture'[s.label] = capture[s.label]
        BY <3>2, <3>4, <1>1 DEF Typed, Shapes
      <4>2. Current(s)'
        BY <4>1, <3>1, <2>1 DEF Current
      <4> QED BY <4>2 DEF Safe
    <3> QED BY <3>3, <3>4
  <2>4. CASE OpenResult \/ DumpResult
    <3>1. capture' = capture /\ result'[s.label[1]] # NoFile
      BY <2>4, <2>1, <1>1, SomeFile DEF OpenResult, DumpResult, Typed, Shapes
    <3>2. Current(s)'
      BY <3>1, <2>1 DEF Current
    <3> QED BY <3>2 DEF Safe
  <2>5. ASSUME NEW moved \in SUBSET Axes, Archive(moved) PROVE Safe(s)'
    <3> DEFINE a == s.label[1]
    <3>1. /\ archive' = [b \in Axes |-> IF b \in moved THEN File(Taken(b)) ELSE archive[b]]
          /\ result' = [b \in Axes |-> IF b \in moved THEN NoFile ELSE result[b]]
          /\ capture' = [l \in Labels |-> IF l[1] \in moved THEN NoFile ELSE capture[l]]
          /\ \A b \in moved : result[b].there /\ \A r \in result[b].holds : capture[r.label].there
      BY <2>5 DEF Archive
    <3>2. CASE a \in moved
      <4>1. PICK p \in Taken(a) : p.row.label = s.label
        BY <1>1, <3>1, <3>2, TakenPairs
      <4>2. p.file.run = s.run
        BY <4>1, <3>1, <3>2, <2>1, TakenPairs
      <4>3. archive'[a] = File(Taken(a))
        BY <3>1, <3>2
      <4>4. InArchive(s)'
        BY <4>1, <4>2, <4>3, <1>1, Holds DEF InArchive
      <4> QED BY <4>4 DEF Safe
    <3>3. CASE a \notin moved
      <4>1. capture'[s.label] = capture[s.label] /\ result'[a] = result[a]
        BY <3>1, <3>3, <1>1
      <4>2. Current(s)'
        BY <4>1, <2>1 DEF Current
      <4> QED BY <4>2 DEF Safe
    <3> QED BY <3>2, <3>3
  <2>6. CASE Abort
    <3>1. /\ result' = result
          /\ capture'[s.label] = capture[s.label] \/ capture'[s.label] = Torn
      BY <1>1, <2>6, AbortCuts DEF Typed, Shapes
    <3> QED BY <2>1, <3>1 DEF Safe, Current, RunAgain
  <2> QED BY <2>2, <2>3, <2>4, <2>5, <2>6, RawActions
<1> QED BY <1>2, <1>3

LEMMA LostInit == Init => LostInv
<1> SUFFICES ASSUME Init PROVE LostInv
  OBVIOUS
<1>1. FilesPast
  BY DEF Init, FilesPast, NoFile
<1>2. Before = {} /\ Taking = {} /\ Given = {} /\ ~Reading /\ ~Writing
  BY DEF Init, Before, Shown, Taking, Given, Reading, Writing, Off
<1>3. NothingPublishedIsLost
  BY DEF Init, NothingPublishedIsLost
<1> QED BY <1>1, <1>2, <1>3 DEF LostInv, KnownSafe, ReadSafe, WriteSafe

(* What is known after a step was known before it, or is safe for another  *)
(* reason.                                                                 *)
LEMMA KnownKeeps ==
  ASSUME Typed, LostInv, [Next]_vars,
         NEW S, (Before \cup Taking \cup Given)' \subseteq Before \cup Taking \cup Given \cup S,
         \A s \in S : s = [label |-> s.label, run |-> s.run] /\ Past(s.label, s.run) /\ Safe(s)
  PROVE  KnownSafe'
<1>1. ASSUME NEW s \in (Before \cup Taking \cup Given)'
      PROVE  s = [label |-> s.label, run |-> s.run] /\ Past(s.label, s.run)' /\ Safe(s)'
  <2>1. s = [label |-> s.label, run |-> s.run] /\ Past(s.label, s.run) /\ Safe(s)
    BY <1>1 DEF LostInv, KnownSafe
  <2> QED BY <2>1, PastKeeps, SafeKeeps DEF LostInv
<1> QED BY <1>1 DEF KnownSafe

LEMMA KnownFrame ==
  ASSUME Typed, LostInv, [Next]_vars,
         (Before \cup Taking \cup Given)' \subseteq Before \cup Taking \cup Given
  PROVE  KnownSafe'
<1> DEFINE S == {}
<1>1. /\ (Before \cup Taking \cup Given)' \subseteq Before \cup Taking \cup Given \cup S
      /\ \A s \in S : s = [label |-> s.label, run |-> s.run] /\ Past(s.label, s.run) /\ Safe(s)
  OBVIOUS
<1> HIDE DEF S
<1> QED BY <1>1, KnownKeeps

LEMMA KnownLabels ==
  ASSUME LostInv, NEW s \in Before \cup Taking \cup Given
  PROVE  /\ s.label \in Labels /\ s.run \in Int /\ s.label[1] \in Axes /\ Safe(s)
         /\ s = [label |-> s.label, run |-> s.run] /\ Past(s.label, s.run)
<1>1. Past(s.label, s.run) /\ Safe(s) /\ s = [label |-> s.label, run |-> s.run]
  BY DEF LostInv, KnownSafe
<1> QED BY <1>1, LabelsByAxis DEF Past, RunIds

(* Actions that show no more and no less than before. *)
LEMMA LostFrame ==
  ASSUME Typed, LostInv, [Next]_vars, UNCHANGED <<dest, history>>
  PROVE  /\ FilesPast' /\ NothingPublishedIsLost' /\ Before' = Before
         /\ UNCHANGED publisher => LostInv'
         /\ publisher' = Off => LostInv'
<1>1. FilesPast'
  BY FilesPastKeeps DEF LostInv
<1>2. Before' = Before /\ Shown' = Shown /\ (Idle' <=> Idle)
  BY DEF Before, Shown, Idle
<1>3. ASSUME NEW s \in Before
      PROVE  /\ InArchive(s) => InArchive(s)'
             /\ RunAgain(s) => RunAgain(s)'
             /\ Gone(s) => Gone(s)'
  BY KnownLabels, AgainKeeps, GoneKeeps DEF LostInv
<1>4. NothingPublishedIsLost'
  <2>1. ASSUME Idle', NEW s \in (history.shown \ Shown)' PROVE Gone(s)'
    <3>1. s \in Before /\ Gone(s)
      BY <2>1, <1>2 DEF LostInv, NothingPublishedIsLost, Before, Gone
    <3> QED BY <3>1, <1>3
  <2> QED BY <2>1 DEF NothingPublishedIsLost, Gone
<1>5. ASSUME UNCHANGED publisher PROVE LostInv'
  <2>1. Taking' = Taking /\ Given' = Given /\ GotAxes' = GotAxes
    BY <1>5 DEF Taking, Given, New, GotAxes, Writing
  <2>2. KnownSafe'
    BY <1>2, <2>1, KnownFrame
  <2>3. ReadSafe'
    BY <1>2, <1>3, <1>5, <2>1 DEF LostInv, ReadSafe, Reading
  <2>4. WriteSafe'
    <3>1. ASSUME Writing', NEW s \in Before'
          PROVE s \in Given \/ Gone(s)'
      <4>1. Writing /\ publisher # Off /\ s \in Before
        BY <3>1, <1>2, <1>5 DEF Writing, Off
      <4> QED BY <4>1, <1>3 DEF LostInv, WriteSafe
    <3> QED BY <3>1, <2>1 DEF WriteSafe
  <2> QED BY <1>1, <1>4, <2>2, <2>3, <2>4 DEF LostInv
<1>6. ASSUME publisher' = Off PROVE LostInv'
  <2>1. Taking' = {} /\ Given' = {} /\ ~Reading' /\ ~Writing'
    BY <1>6 DEF Taking, Given, Reading, Writing, Off
  <2>2. KnownSafe'
    BY <1>2, <2>1, KnownFrame
  <2> QED BY <1>1, <1>4, <2>1, <2>2 DEF LostInv, ReadSafe, WriteSafe
<1> QED BY <1>1, <1>2, <1>4, <1>5, <1>6

(* Publication does not touch the raw files. *)
LEMMA SameRaw ==
  ASSUME NEW s, UNCHANGED raw
  PROVE  /\ InArchive(s)' <=> InArchive(s)
         /\ RunAgain(s)' <=> RunAgain(s)
         /\ Gone(s)' <=> Gone(s)
BY DEF raw, InArchive, RunAgain, Gone, ByTheLists

LEMMA LostStartPublication ==
  ASSUME Typed, LostInv, StartPublication
  PROVE  LostInv'
<1>1. [Next]_vars /\ UNCHANGED <<dest, history>>
  BY DEF Next, StartPublication
<1>2. /\ publisher'.pc = "read" /\ publisher'.todo = Axes
      /\ publisher'.got = [a \in Axes |-> NoFile] /\ publisher' # Off
  BY DEF StartPublication, Off
<1>3. GotAxes' = {} /\ New' = {} /\ Reading' /\ ~Writing'
  BY <1>2 DEF GotAxes, New, NoFile, Reading, Writing
<1>4. Taking' = {} /\ Given' = {}
  BY <1>2, <1>3 DEF Taking, Given, SignsOf
<1>5. FilesPast' /\ NothingPublishedIsLost' /\ Before' = Before
  BY <1>1, LostFrame
<1>6. KnownSafe'
  BY <1>1, <1>4, <1>5, KnownFrame
<1>7. ReadSafe'
  BY <1>2, <1>5, KnownLabels DEF ReadSafe
<1> QED BY <1>3, <1>5, <1>6, <1>7 DEF LostInv, WriteSafe

LEMMA LostReadAxis ==
  ASSUME Typed, LostInv, NEW axis \in Axes, ReadAxis(axis)
  PROVE  LostInv'
<1>1. [Next]_vars /\ UNCHANGED <<dest, history>> /\ UNCHANGED raw
  BY DEF Next, ReadAxis
<1>2. CASE publisher' = Off
  BY <1>1, <1>2, LostFrame
<1>3. CASE publisher' # Off
  <2>1. /\ Reading /\ axis \in publisher.todo /\ Reading' /\ ~Writing
        /\ publisher'.todo = publisher.todo \ {axis} /\ publisher # Off
        /\ \/ /\ Readable(axis)
              /\ publisher'.got = [publisher.got EXCEPT ![axis] = File(Taken(axis))]
           \/ /\ result[axis] = NoFile
              /\ publisher'.got = publisher.got
    BY <1>3, ReadAxisGot DEF Reading, Off
  <2>2. ~Writing' /\ Given' = {}
    BY <2>1 DEF Reading, Writing, Given
  <2>3. FilesPast' /\ NothingPublishedIsLost' /\ Before' = Before
    BY <1>1, LostFrame
  <2>4. publisher.got = [a \in Axes |-> publisher.got[a]]
    BY <2>1 DEF Typed, Publishing
  <2>5. CASE result[axis] = NoFile /\ publisher'.got = publisher.got
    <3>1. GotAxes' = GotAxes /\ Taking' = Taking
      BY <1>3, <2>1, <2>5 DEF GotAxes, Taking, New
    <3>2. KnownSafe'
      BY <1>1, <2>2, <2>3, <3>1, KnownFrame
    <3>3. ReadSafe'
      <4>1. ASSUME NEW s \in Before, s.label[1] = axis PROVE InArchive(s) \/ RunAgain(s)
        BY <4>1, <2>5, KnownLabels DEF Safe, Current
      <4> QED BY <1>1, <2>1, <2>3, <2>5, <3>1, <4>1, SameRaw DEF LostInv, ReadSafe
    <3> QED BY <2>2, <2>3, <3>2, <3>3 DEF LostInv, WriteSafe
  <2>6. CASE /\ Readable(axis)
             /\ publisher'.got = [publisher.got EXCEPT ![axis] = File(Taken(axis))]
    <3>1. \A a \in Axes : publisher'.got[a] = IF a = axis THEN File(Taken(axis)) ELSE publisher.got[a]
      BY <2>4, <2>6
    <3>2. GotAxes' = GotAxes \cup {axis}
      BY <3>1, Holds DEF GotAxes
    <3>3. New' \subseteq New \cup Taken(axis)
      BY <3>1, <3>2, Holds DEF New, GotAxes
    <3>4. Taking' \subseteq Taking \cup SignsOf(Taken(axis))
      BY <1>3, <2>1, <3>3 DEF Taking, SignsOf
    <3>5. /\ result[axis].there /\ \A r \in result[axis].holds : capture[r.label].there
          /\ result[axis] # NoFile
      BY <2>6 DEF Readable, NoFile
    <3>6. ASSUME NEW s \in SignsOf(Taken(axis))
          PROVE  s = [label |-> s.label, run |-> s.run] /\ Past(s.label, s.run) /\ Safe(s)
      <4>1. PICK p \in Taken(axis) : s = [label |-> p.row.label, run |-> p.file.run]
        BY DEF SignsOf
      <4>2. /\ p.row \in result[axis].holds /\ p.file = capture[p.row.label].holds
            /\ PairsFor(axis, Taken(axis))
        BY <3>5, TakenPairs
      <4>3. p.row.label \in Labels /\ p.row.label[1] = axis
        BY <4>2, CellsAreLabels DEF PairsFor
      <4>4. capture[p.row.label].there /\ Past(p.row.label, p.file.run)
        BY <3>5, <4>2, <4>3 DEF LostInv, FilesPast
      <4>5. s.label = p.row.label /\ s.run = p.file.run
        BY <4>1
      <4> QED BY <3>5, <4>1, <4>2, <4>3, <4>4, <4>5 DEF Safe, Current
    <3>7. KnownSafe'
      <4>1. (Before \cup Taking \cup Given)' \subseteq Before \cup Taking \cup Given \cup SignsOf(Taken(axis))
        BY <2>2, <2>3, <3>4
      <4> QED BY <1>1, <3>6, <4>1, KnownKeeps
    <3>8. ReadSafe'
      <4>1. ASSUME NEW s \in Before, s.label[1] = axis
            PROVE  \/ InArchive(s) \/ RunAgain(s)
                   \/ axis \in GotAxes' /\ s \in SignsOf(publisher'.got[axis].holds)
        <5>1. s.label \in LabelsOf(axis) /\ Safe(s) /\ s = [label |-> s.label, run |-> s.run]
          BY <4>1, KnownLabels, LabelsByAxis
        <5>2. CASE Current(s)
          <6>1. PICK p \in Taken(axis) : p.row.label = s.label
            BY <3>5, <5>1, TakenPairs
          <6>2. p.file.run = s.run
            BY <3>5, <5>2, <6>1, TakenPairs DEF Current
          <6>3. s \in SignsOf(Taken(axis))
            BY <5>1, <6>1, <6>2 DEF SignsOf
          <6> QED BY <3>1, <3>2, <6>3, Holds
        <5> QED BY <5>1, <5>2 DEF Safe
      <4>2. ASSUME NEW s \in Before, s.label[1] # axis, s.label[1] \notin publisher.todo
            PROVE  \/ InArchive(s) \/ RunAgain(s)
                   \/ /\ s.label[1] \in GotAxes'
                      /\ s \in SignsOf(publisher'.got[s.label[1]].holds)
        BY <2>1, <3>1, <3>2, <4>2, KnownLabels DEF LostInv, ReadSafe
      <4> QED BY <1>1, <2>1, <2>3, <4>1, <4>2, SameRaw DEF ReadSafe
    <3> QED BY <2>2, <2>3, <3>7, <3>8 DEF LostInv, WriteSafe
  <2> QED BY <2>1, <2>5, <2>6
<1> QED BY <1>2, <1>3

LEMMA PublishedSigns ==
  ASSUME NEW pairs
  PROVE  Signs(ToPublish(pairs)) = SignsOf(pairs)
<1>1. ASSUME NEW s \in Signs(ToPublish(pairs)) PROVE s \in SignsOf(pairs)
  <2>1. PICK c \in ToPublish(pairs) : s = [label |-> c.label, run |-> c.run]
    BY DEF Signs
  <2>2. PICK p \in pairs : c.label = p.row.label /\ c.run = p.file.run
    BY DEF ToPublish
  <2> QED BY <2>1, <2>2 DEF SignsOf
<1>2. ASSUME NEW s \in SignsOf(pairs) PROVE s \in Signs(ToPublish(pairs))
  <2>1. PICK p \in pairs : s = [label |-> p.row.label, run |-> p.file.run]
    BY DEF SignsOf
  <2> DEFINE c == [label |-> p.row.label, run |-> p.file.run, took |-> p.file.took,
                   shows |-> apply_map(p.file.ids, MapOf)]
  <2>2. c \in ToPublish(pairs)
    BY DEF ToPublish
  <2>3. c.label = p.row.label /\ c.run = p.file.run
    OBVIOUS
  <2> HIDE DEF c
  <2> QED BY <2>1, <2>2, <2>3 DEF Signs
<1> QED BY <1>1, <1>2

LEMMA LostCheck ==
  ASSUME Typed, LostInv, Check
  PROVE  LostInv'
<1>1. [Next]_vars /\ UNCHANGED <<dest, history>> /\ UNCHANGED raw /\ Reading /\ publisher # Off
  BY DEF Next, Check, Reading, Off
<1>2. CASE publisher' = Off
  BY <1>1, <1>2, LostFrame
<1>3. CASE publisher' # Off
  <2>1. /\ publisher'.pc = "clear" /\ publisher'.got = publisher.got
        /\ publisher'.old = ToPublish(Old) /\ publisher.todo = {}
        /\ publisher'.new = [a \in GotAxes |-> ToPublish(publisher.got[a].holds)]
    BY <1>3 DEF Check, Stop
  <2>2. Writing' /\ ~Reading' /\ ~Writing /\ GotAxes' = GotAxes /\ Taking' = Taking
    BY <1>1, <1>3, <2>1 DEF Writing, Reading, GotAxes, Taking, New
  <2>3. FilesPast' /\ NothingPublishedIsLost' /\ Before' = Before
    BY <1>1, LostFrame
  <2>4. /\ SignsOf(Old) \subseteq Given' /\ Given' \subseteq SignsOf(Old) \cup Taking
        /\ \A a \in GotAxes : SignsOf(publisher.got[a].holds) \subseteq Given'
    <3>1. Given' = Signs(ToPublish(Old) \cup UNION {ToPublish(publisher.got[a].holds) : a \in GotAxes})
      <4>1. {publisher'.new[a] : a \in GotAxes} = {ToPublish(publisher.got[a].holds) : a \in GotAxes}
        BY <2>1
      <4>2. Given' = Signs(publisher'.old \cup UNION {publisher'.new[a] : a \in GotAxes})
        BY <2>2 DEF Given
      <4> QED BY <2>1, <4>1, <4>2
    <3>2. \A C, D : Signs(C \cup D) = Signs(C) \cup Signs(D)
      BY DEF Signs
    <3>3. Signs(UNION {ToPublish(publisher.got[a].holds) : a \in GotAxes})
            = UNION {Signs(ToPublish(publisher.got[a].holds)) : a \in GotAxes}
      BY DEF Signs
    <3>4. Given' = SignsOf(Old) \cup UNION {SignsOf(publisher.got[a].holds) : a \in GotAxes}
      <4> DEFINE X == UNION {ToPublish(publisher.got[a].holds) : a \in GotAxes}
                 Y == UNION {SignsOf(publisher.got[a].holds) : a \in GotAxes}
      <4>1. Signs(ToPublish(Old)) = SignsOf(Old)
        BY PublishedSigns
      <4>2. Signs(X) = Y
        <5>1. \A a \in GotAxes :
                Signs(ToPublish(publisher.got[a].holds)) = SignsOf(publisher.got[a].holds)
          BY PublishedSigns
        <5>2. UNION {Signs(ToPublish(publisher.got[a].holds)) : a \in GotAxes} = Y
          BY <5>1
        <5> QED BY <3>3, <5>2
      <4>3. Given' = Signs(ToPublish(Old) \cup X)
        BY <3>1
      <4> HIDE DEF X
      <4>4. Given' = SignsOf(Old) \cup Y
        BY <3>2, <4>1, <4>2, <4>3
      <4> QED BY <4>4
    <3>5. UNION {SignsOf(publisher.got[a].holds) : a \in GotAxes} \subseteq Taking
      BY <1>1 DEF Taking, SignsOf, New
    <3> QED BY <3>4, <3>5
  <2>5. ASSUME NEW s, InArchive(s), s = [label |-> s.label, run |-> s.run],
               s.label[1] \in ByTheLists
        PROVE  s \in SignsOf(Old)
    <3>1. PICK a \in Axes : archive[a].there /\ \E p \in archive[a].holds :
                 p.row.label = s.label /\ p.file.run = s.run
      BY <2>5 DEF InArchive
    <3>2. PICK p \in archive[a].holds : p.row.label = s.label /\ p.file.run = s.run
      BY <3>1
    <3>3. s.label \in LabelsOf(a)
      BY <3>1, <3>2 DEF Typed, Archives, PairsFor
    <3>4. a \in Republished(Archived)
      BY <3>1, <3>3, <2>5, CellsAreLabels, ListsRepublish DEF Archived
    <3>5. p \in Old
      BY <3>4 DEF Old
    <3> QED BY <3>2, <3>5, <2>5 DEF SignsOf
  <2>6. KnownSafe'
    <3>1. ASSUME NEW s \in SignsOf(Old)
          PROVE  s = [label |-> s.label, run |-> s.run] /\ Past(s.label, s.run) /\ Safe(s)
      <4>1. PICK a \in Archived : \E p \in archive[a].holds :
                   s = [label |-> p.row.label, run |-> p.file.run]
        BY ListsRepublish DEF SignsOf, Old
      <4>2. PICK p \in archive[a].holds : s = [label |-> p.row.label, run |-> p.file.run]
        BY <4>1
      <4>3. s.label = p.row.label /\ s.run = p.file.run /\ a \in Axes /\ archive[a].there
        BY <4>2 DEF Archived
      <4>4. Past(p.row.label, p.file.run)
        BY <4>3 DEF LostInv, FilesPast
      <4> QED BY <4>2, <4>3, <4>4 DEF Safe, InArchive
    <3>2. (Before \cup Taking \cup Given)' \subseteq Before \cup Taking \cup Given \cup SignsOf(Old)
      BY <2>2, <2>3, <2>4
    <3> QED BY <1>1, <3>1, <3>2, KnownKeeps
  <2>7. WriteSafe'
    <3>1. ASSUME NEW s \in Before
          PROVE  s \in Given' \/ Gone(s)
      <4>1. s = [label |-> s.label, run |-> s.run]
        BY KnownLabels
      <4>2. InArchive(s) /\ s.label[1] \in ByTheLists => s \in Given'
        BY <2>4, <2>5, <4>1
      <4>3. \/ InArchive(s) \/ RunAgain(s)
            \/ s.label[1] \in GotAxes /\ s \in SignsOf(publisher.got[s.label[1]].holds)
        BY <1>1, <2>1 DEF LostInv, ReadSafe
      <4> QED BY <2>4, <4>2, <4>3 DEF Gone
    <3> QED BY <1>1, <2>3, <3>1, SameRaw DEF WriteSafe
  <2> QED BY <2>2, <2>3, <2>6, <2>7 DEF LostInv, ReadSafe
<1> QED BY <1>2, <1>3

LEMMA LostClear ==
  ASSUME Typed, LostInv, Clear
  PROVE  LostInv'
<1>1. [Next]_vars /\ UNCHANGED raw
  BY DEF Next, Clear
<1>2. /\ Writing /\ Writing' /\ ~Reading' /\ publisher # Off /\ publisher' # Off
      /\ publisher'.got = publisher.got /\ GotAxes' = GotAxes
      /\ publisher'.old = publisher.old /\ publisher'.new = publisher.new
      /\ dest'.matrix = {} /\ dest'.superseded = {}
      /\ history'.cut = TRUE /\ history'.shown = history.shown \cup Shown
  BY Cleared
<1>3. Given' = Given /\ Taking' = Taking /\ Before' = Before
  BY <1>2 DEF Given, Taking, New, Before, Shown
<1>4. KnownSafe' /\ FilesPast'
  BY <1>1, <1>3, KnownFrame, FilesPastKeeps DEF LostInv
<1>5. WriteSafe'
  BY <1>1, <1>2, <1>3, SameRaw DEF LostInv, WriteSafe
<1>6. NothingPublishedIsLost'
  BY <1>2 DEF NothingPublishedIsLost, Idle
<1> QED BY <1>2, <1>4, <1>5, <1>6 DEF LostInv, ReadSafe

LEMMA LostWrite ==
  ASSUME Typed, PublishedInv, LostInv, NEW file, Write(file)
  PROVE  LostInv'
<1>1. [Next]_vars /\ UNCHANGED raw
  <2>1. file \in FilesOf(GotAxes)
    BY WrittenFile
  <2>2. file \in FilesOf(Axes)
    BY <2>1 DEF FilesOf, GotAxes
  <2>3. Next
    BY <2>2 DEF Next
  <2> QED BY <2>3 DEF Write
<1>2. /\ Writing /\ publisher # Off /\ ~Reading' /\ publisher.pc = "write"
      /\ file[1] = "matrix" => file[2] \in GotAxes
      /\ dest'.matrix = dest.matrix \cup
           (IF file[1] = "matrix" THEN publisher.new[file[2]] ELSE {})
      /\ dest'.superseded = IF file[1] = "superseded" THEN publisher.old ELSE dest.superseded
      /\ history'.shown = history.shown
  <2>1. file \in FilesOf(GotAxes)
    BY WrittenFile
  <2>2. file[1] = "matrix" => file[2] \in GotAxes
    BY <2>1, FilesAreSome
  <2>3. /\ Writing /\ publisher # Off /\ ~Reading' /\ publisher.pc = "write"
        /\ dest'.matrix = dest.matrix \cup
             (IF file[1] = "matrix" THEN publisher.new[file[2]] ELSE {})
        /\ dest'.superseded = IF file[1] = "superseded" THEN publisher.old ELSE dest.superseded
        /\ history'.shown = history.shown
    BY WrittenFile
  <2> QED BY <2>2, <2>3
<1>3. Shown' \subseteq Shown \cup Given
  BY <1>2 DEF Shown, Given, Signs
<1>4. Before' \subseteq Before \cup Given
  BY <1>2, <1>3 DEF Before
<1>5. FilesPast'
  BY <1>1, FilesPastKeeps DEF LostInv
<1>6. CASE publisher.todo # {file}
  <2>1. /\ publisher' # Off /\ Writing' /\ publisher'.got = publisher.got /\ GotAxes' = GotAxes
        /\ publisher'.old = publisher.old /\ publisher'.new = publisher.new /\ history'.cut = TRUE
    BY <1>6, WrittenFile
  <2>2. Given' = Given /\ Taking' = Taking
    BY <1>2, <2>1 DEF Given, Taking, New
  <2>3. KnownSafe'
    BY <1>1, <1>4, <2>2, KnownFrame
  <2>4. WriteSafe'
    BY <1>1, <1>2, <1>4, <2>1, <2>2, SameRaw DEF LostInv, WriteSafe
  <2>5. NothingPublishedIsLost'
    BY <2>1 DEF NothingPublishedIsLost, Idle
  <2> QED BY <1>2, <1>5, <2>3, <2>4, <2>5 DEF LostInv, ReadSafe
<1>7. CASE publisher.todo = {file}
  <2>1. publisher' = Off /\ ~Writing'
    BY <1>7, WrittenFile
  <2>2. Given' = {} /\ Taking' = {}
    BY <2>1 DEF Given, Taking
  <2>3. KnownSafe'
    BY <1>1, <1>4, <2>2, KnownFrame
  <2>4. Given \subseteq Shown'
    <3>1. \A f \in FilesOf(GotAxes) : IsWritten(f, publisher, dest')
      BY <1>7, WrittenSoFar DEF PublishedInv
    <3>2. /\ \A a \in GotAxes : <<"matrix", a>> \in FilesOf(GotAxes)
          /\ <<"superseded", None>> \in FilesOf(GotAxes)
      BY DEF FilesOf
    <3>3. /\ \A a \in GotAxes : publisher.new[a] \subseteq dest'.matrix
          /\ dest'.superseded = publisher.old
      BY <3>1, <3>2 DEF IsWritten
    <3>4. publisher.old \cup UNION {publisher.new[a] : a \in GotAxes} \subseteq dest'.matrix \cup dest'.superseded
      BY <3>3
    <3> QED BY <3>4 DEF Given, Signs, Shown
  <2>5. ASSUME NEW s \in (history.shown \ Shown)' PROVE Gone(s)'
    <3>1. s \in Before /\ s \notin Given
      BY <2>4, <2>5, <1>2 DEF Before
    <3> QED BY <1>1, <1>2, <3>1, SameRaw DEF LostInv, WriteSafe
  <2> QED BY <1>2, <1>5, <2>1, <2>3, <2>5 DEF LostInv, ReadSafe, WriteSafe, NothingPublishedIsLost, Gone
<1> QED BY <1>6, <1>7

LEMMA LostStep == Typed /\ PublishedInv /\ LostInv /\ [Next]_vars => LostInv'
<1> SUFFICES ASSUME Typed, PublishedInv, LostInv, [Next]_vars PROVE LostInv'
  OBVIOUS
<1>1. CASE StartPublication
  BY <1>1, LostStartPublication
<1>2. ASSUME NEW axis \in Axes, ReadAxis(axis) PROVE LostInv'
  BY <1>2, LostReadAxis
<1>3. CASE Check
  BY <1>3, LostCheck
<1>4. CASE Clear
  BY <1>4, LostClear
<1>5. ASSUME NEW file, Write(file) PROVE LostInv'
  BY <1>5, LostWrite
<1>6. CASE KillPublication
  BY <1>6, LostFrame DEF KillPublication, Stop
<1>7. CASE UNCHANGED published
  BY <1>7, LostFrame DEF published
<1>8. ASSUME NEW axis \in Axes, StartRun(axis) PROVE UNCHANGED published
  BY <1>8 DEF StartRun
<1>9. ASSUME NEW cell, RunCell(cell) PROVE UNCHANGED published
  BY <1>9 DEF RunCell
<1>10. OpenResult \/ DumpResult \/ Abort \/ Moves \/ UNCHANGED vars => UNCHANGED published
  BY MovesKeep DEF OpenResult, DumpResult, Abort, vars, published
<1>11. ASSUME NEW moved \in SUBSET Axes, Archive(moved) PROVE UNCHANGED published
  BY <1>11 DEF Archive
<1> QED BY <1>1, <1>2, <1>3, <1>4, <1>5, <1>6, <1>7, <1>8, <1>9, <1>10, <1>11 DEF Next, Moves

LEMMA AlwaysKept == Spec => []LostInv
<1> QED BY AlwaysTyped, AlwaysPublished, LostInit, LostStep, PTL DEF Spec

(* A publication reads each axis that is there, and every archive the      *)
(* lists lead to; what was published of an axis is still there or          *)
(* archived, or was run again.                                             *)
THEOREM NoneLost == Spec => []NothingPublishedIsLost
<1>1. LostInv => NothingPublishedIsLost
  BY DEF LostInv
<1> QED BY <1>1, AlwaysKept, PTL
=============================================================================
