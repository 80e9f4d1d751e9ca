----------------------------- MODULE AgentMatrix ----------------------------
(***************************************************************************)
(* The agent matrix (iceberg-agent) and its publication.  run_matrix.py    *)
(* runs every cell of an axis, keeps what each run printed and grades it;  *)
(* capture_ground_truth.py captures what is true; runs are archived by     *)
(* hand; publish_evidence.py grades every capture again, refuses what it   *)
(* finds to disagree, and writes figures, rows and captures with the       *)
(* account's identifiers masked.  The texts it copies unread               *)
(* (ground-truth.txt and the notes beside it) are left out.                *)
(***************************************************************************)
EXTENDS AgentScore, Pseudonyms

CONSTANTS
  Axes, Legs, Catalogs,   \* the part of the matrix that is run
  Repeat,                 \* runs of a cell
  Times,                  \* what a run may take: its timings, as printed
  Bodies(_, _),           \* what a cell may print while its table is at a version
  Known,                  \* identifiers listed in .known-identifiers
  MaxRuns, MaxPublications, MaxTroubles   \* bounds

KINDS == PATTERNS \cup {"email"}

Polaris == "apache-polaris"
Gemini == "gemini-2.5-flash"
Nova == "us.amazon.nova-micro-v1:0"
None == ""
E_SETUPS == {<<"gcp", None>>, <<"aws", Gemini>>, <<"aws", None>>, <<"azure", None>>}

Cell(leg, catalog, model, variant) ==
  [leg |-> leg, catalog |-> catalog, model |-> model, variant |-> variant]

AXIS_CELLS ==
  [A |-> {Cell(leg, Polaris, None, None) : leg \in {"gcp", "aws", "azure"}},
   B |-> {Cell("gcp", c, None, None) :
            c \in {Polaris, "google-lakehouse", "aws-glue", "aws-s3tables", "microsoft-onelake"}},
   C |-> {Cell("gcp", Polaris, Gemini, None), Cell("aws", Polaris, Gemini, None),
          Cell("aws", Polaris, Nova, None)},
   D |-> {Cell("gcp", "google-lakehouse", None, None), Cell("aws", "aws-glue", None, None),
          Cell("azure", "microsoft-onelake", None, None)},
   E |-> {Cell(s[1], Polaris, s[2], v) : s \in E_SETUPS, v \in {None, "rows-only"}}
           \cup {Cell("aws", Polaris, None, v) :
                   v \in {"provider-decoding", "rows-only-provider-decoding"}},
   F |-> {Cell("aws", Polaris, None, v) : v \in {None, "provider-decoding"}}]

AXES == DOMAIN AXIS_CELLS
Cells(axis) == {c \in AXIS_CELLS[axis] : c.leg \in Legs /\ c.catalog \in Catalogs}

ScanAxes == {"D", "E"}
Mandatory == {"A", "B"}

(* The lists of archived directories in publish_evidence.py: of complete   *)
(* runs, and of single axes.                                               *)
LISTS == {"SUPERSEDED", "SUPERSEDED_D"}

(* What a text may hold is found by a pattern or listed. *)
ASSUME AgentAssumption ==
  /\ Axes \subseteq AXES
  /\ Repeat \in Nat \ {0}
  /\ MaxRuns \in Nat /\ MaxPublications \in Nat /\ MaxTroubles \in Nat
  /\ \A axis \in Axes : \A cell \in Cells(axis) : \A answer \in Bodies(axis, cell) :
       /\ IsFiniteSet(answer.ids)
       /\ \A id \in answer.ids : id \in Known \/ id.kind \in KINDS

Labels == UNION {{axis} \X Cells(axis) \X (1..Repeat) : axis \in Axes}
RunIds == 1..MaxRuns

(* The table by version; OneLake's has no region. *)
Versions == 1..2
Truth(catalog, version) ==
  [rows |-> 10 + version, max_id |-> 22 + version, ids_at_least_10 |-> 7 + version,
   snapshot_id |-> version, metadata_location |-> 100 + version,
   columns |-> IF catalog = "microsoft-onelake" THEN {"id", "ts", "payload"}
               ELSE {"id", "ts", "payload", "region"}]

SCORER_VERSION == 10

Scored(axis, cell, body, version) ==
  IF axis \in ScanAxes THEN score_scan(body, Truth(cell.catalog, version))
  ELSE score(body, Truth(cell.catalog, version))

(* An older scorer, no longer in the code, may have graded otherwise. *)
Regraded(fields) ==
  {[fields EXCEPT ![k] = ~@] : k \in DOMAIN fields \cap {"correct_row_count", "correct_max_id"}}

NoFile == [there |-> FALSE]
Torn == [there |-> FALSE, torn |-> TRUE]
File(content) == [there |-> TRUE, holds |-> content]

-----------------------------------------------------------------------------
VARIABLES
  table, truth, singles,   \* version of the tables; of ground-truth.txt; of run-<leg>.txt
  scorer,                  \* the scorer in run_matrix.py
  driver,                  \* run_matrix.py, or Off
  capture, result,         \* the raw files: by label, by axis
  archive, listed,         \* archived axes: rows with captures; the lists naming them
  publisher,               \* publish_evidence.py, or Off
  dest,                    \* the published directory
  runs, publications, troubles,
  history                  \* of dest: cut short? axes left out; all it showed before

vars == <<table, truth, singles, scorer, driver, capture, result, archive, listed,
          publisher, dest, runs, publications, troubles, history>>
world == <<table, truth, singles, scorer>>
raw == <<capture, result, archive, listed>>
published == <<publisher, dest, publications, history>>

Off == [pc |-> "off"]
Init ==
  /\ table = 1 /\ truth = 1 /\ singles = 1 /\ scorer = SCORER_VERSION - 1
  /\ driver = Off /\ publisher = Off
  /\ capture = [l \in Labels |-> NoFile] /\ result = [a \in Axes |-> NoFile]
  /\ archive = [a \in Axes |-> NoFile] /\ listed = {}
  /\ dest = [rows |-> [a \in Axes |-> NoFile], matrix |-> {}, superseded |-> {}, figures |-> NoFile]
  /\ runs = 0 /\ publications = 0 /\ troubles = 0
  /\ history = [cut |-> FALSE, absent |-> {}, shown |-> {}]

Trouble == troubles < MaxTroubles /\ troubles' = troubles + 1
NoTrouble == UNCHANGED troubles
At(pc) == driver.pc = pc

-----------------------------------------------------------------------------
(***************************************************************************)
(* run_matrix.py.                                                          *)
(***************************************************************************)
StartRun(axis) ==
  /\ At("off") /\ runs < MaxRuns
  /\ runs' = runs + 1
  /\ driver' = [pc |-> "cells", axis |-> axis, round |-> 1, todo |-> Cells(axis),
                graded |-> truth, rows |-> {}]
  /\ UNCHANGED <<world, raw, published>> /\ NoTrouble

Row(label, file, fields) ==
  [label |-> label, run |-> file.run, scorer |-> scorer, fields |-> fields, took |-> file.took]

(* Mutant: the rows are dumped after the first cell. *)
AfterFirst(cell) == [driver EXCEPT !.todo = {}, !.pc = "dump"]

(* One run of every cell in a round, in a shuffled order. *)
AfterCell(cell) ==
  IF driver.todo # {cell} THEN [driver EXCEPT !.todo = @ \ {cell}]
  ELSE IF driver.round < Repeat
  THEN [driver EXCEPT !.todo = Cells(driver.axis), !.round = @ + 1]
  ELSE [driver EXCEPT !.todo = {}, !.pc = "dump"]

(* What a scorer may make of it. *)
Gradings(fields) ==
  {fields} \cup (IF scorer = SCORER_VERSION THEN {} ELSE Regraded(fields))

(* one_run: the answer is captured under axis, cell and number, and graded. *)
RunCell(cell) ==
  /\ At("cells") /\ cell \in driver.todo
  /\ \E answer \in Bodies(driver.axis, cell), took \in Times :
       LET label == <<driver.axis, cell, driver.round>>
           file == [run |-> runs, took |-> took, body |-> answer.body[table], ids |-> answer.ids]
           fields == Scored(driver.axis, cell, file.body, driver.graded)
       IN /\ capture' = [capture EXCEPT ![label] = File(file)]
          /\ \E graded \in Gradings(fields) :
               /\ driver' = [AfterCell(cell) EXCEPT !.rows = @ \cup {Row(label, file, graded)}]
               /\ IF answer.usual /\ graded = fields THEN NoTrouble ELSE Trouble
  /\ UNCHANGED <<world, result, archive, listed, published, runs>>

(* The file is truncated when it is opened, and filled as it is dumped. *)
OpenResult ==
  /\ At("dump")
  /\ result' = [result EXCEPT ![driver.axis] = Torn]
  /\ driver' = [driver EXCEPT !.pc = "dumping"]
  /\ UNCHANGED <<world, capture, archive, listed, published, runs>> /\ NoTrouble

DumpResult ==
  /\ At("dumping")
  /\ result' = [result EXCEPT ![driver.axis] = File(driver.rows)]
  /\ driver' = Off
  /\ UNCHANGED <<world, capture, archive, listed, published, runs>> /\ NoTrouble

(* The captures when the driver dies: the one it was writing is cut short. *)
Cut(l) == capture' = [capture EXCEPT ![l] = Torn]
LeftByDriver ==
  \/ UNCHANGED capture
  \/ At("cells") /\ \E cell \in driver.todo : Cut(<<driver.axis, cell, driver.round>>)

(* Killed, or a run that took longer than 900 seconds: the rows are lost,  *)
(* the other captures stay.                                                *)
Abort ==
  /\ ~At("off") /\ Trouble
  /\ LeftByDriver /\ driver' = Off
  /\ UNCHANGED <<world, result, archive, listed, published, runs>>

-----------------------------------------------------------------------------
(***************************************************************************)
(* What happens besides: a commit to the tables; ground truth and single   *)
(* runs captured again; a newer scorer; an axis moved to an archive.       *)
(***************************************************************************)
MoveTable ==
  /\ Trouble /\ table + 1 \in Versions /\ table' = table + 1
  /\ UNCHANGED <<truth, singles, scorer, driver, raw, published, runs>>

CaptureTruth ==
  /\ truth # table /\ truth' = table
  /\ UNCHANGED <<table, singles, scorer, driver, raw, published, runs>> /\ NoTrouble

CaptureRuns ==
  /\ singles # table /\ singles' = table
  /\ UNCHANGED <<table, truth, scorer, driver, raw, published, runs>> /\ NoTrouble

UpdateScorer ==
  /\ At("off") /\ scorer < SCORER_VERSION /\ scorer' = SCORER_VERSION
  /\ UNCHANGED <<table, truth, singles, driver, raw, published, runs>> /\ NoTrouble

Taken(axis) == {[row |-> r, file |-> capture[r.label].holds] : r \in result[axis].holds}

(* A complete run, or some axes of one, moved by hand to a directory that  *)
(* is named in some of the lists, or in none.                              *)
Archive(moved) ==
  /\ At("off") /\ publisher = Off /\ moved # {}
  /\ \A a \in Axes : ~archive[a].there
  /\ \A a \in moved : result[a].there /\ \A r \in result[a].holds : capture[r.label].there
  /\ archive' = [a \in Axes |-> IF a \in moved THEN File(Taken(a)) ELSE archive[a]]
  /\ result' = [a \in Axes |-> IF a \in moved THEN NoFile ELSE result[a]]
  /\ capture' = [l \in Labels |-> IF l[1] \in moved THEN NoFile ELSE capture[l]]
  /\ listed' \in SUBSET LISTS
  /\ UNCHANGED <<world, driver, published, runs>> /\ NoTrouble

-----------------------------------------------------------------------------
(***************************************************************************)
(* publish_evidence.py: a row with its capture is graded again.            *)
(***************************************************************************)
Fresh(p, version) == Scored(p.row.label[1], p.row.label[2], p.file.body, version)

Moved(p, version) ==
  {k \in DOMAIN Fresh(p, version) : p.row.fields[k] # Fresh(p, version)[k]}

(* A newer scorer may grade otherwise, but not count the calls otherwise.  *)
ScorerChanges(p, version) ==
  IF p.row.scorer # SCORER_VERSION THEN Moved(p, version) \ {"catalog_calls"} ELSE {}

answered(p) == p.file.body.header # {}

(* Mutant: the times are not compared. *)
FieldsDisagree(p, version) ==
  \/ Moved(p, version) # ScorerChanges(p, version)
  \/ p.row.label[2].model # None /\ ~answered(p)

(* Of a run without a header the model is unknown. *)
Disagrees(p, version) ==
  \/ Moved(p, version) # ScorerChanges(p, version)
  \/ p.row.took # p.file.took
  \/ p.row.label[2].model # None /\ ~answered(p)

(* How the rows of an axis are grouped. *)
GroupOf(axis, p) ==
  LET cell == p.row.label[2] IN
  CASE axis = "A" -> <<cell.leg>>
    [] axis = "B" -> <<cell.catalog>>
    [] OTHER      -> <<cell.leg, cell.catalog, cell.model, cell.variant,
                       IF answered(p) THEN "answered" ELSE "?">>

AllAnswered(axis, pairs) ==
  \A p \in pairs : \E q \in pairs : GroupOf(axis, q) = GroupOf(axis, p) /\ answered(q)

(* The call counts of a metadata axis are sorted: None does not compare.   *)
Sortable(axis, pairs) ==
  axis \in ScanAxes \/ (\A p \in pairs : answered(p)) \/ (\A p \in pairs : ~answered(p))

(* Mutant: a group without an answer is shown without times. *)
SortableOnly(axis, pairs) == Sortable(axis, pairs)

(* summary: the quartiles of no times raise, and so does such a sort.      *)
Summarisable(axis, pairs) == AllAnswered(axis, pairs) /\ Sortable(axis, pairs)

(* superseded() reads A and B of a listed directory, and C if it is there. *)
superseded == IF "SUPERSEDED" \in listed THEN {"A", "B", "C"} ELSE {}

(* superseded_d() reads those of A, C, D, E and F that are there; C of a   *)
(* complete run is published already.                                      *)
superseded_d ==
  IF "SUPERSEDED_D" \in listed THEN {"A", "C", "D", "E", "F"} \ (superseded \cap {"C"}) ELSE {}

(* Mutant: the archives of scans only. *)
ScansOnly(archived) == ScanAxes \cap archived

Republished(archived) == (superseded \cup superseded_d) \cap archived

Archived == {a \in Axes : archive[a].there}
ArchiveReads == "SUPERSEDED" \in listed => Mandatory \subseteq Archived
Old == UNION {archive[a].holds : a \in Republished(Archived)}

AXIS_ORDER == [A |-> 1, B |-> 2, C |-> 3, D |-> 4, E |-> 5, F |-> 6]
GotAxes == {a \in Axes : publisher.got[a].there}
New == UNION {publisher.got[a].holds : a \in GotAxes}

StartPublication ==
  /\ publisher = Off /\ publications < MaxPublications /\ scorer = SCORER_VERSION
  /\ self_test(Truth(Polaris, truth))
  /\ publications' = publications + 1
  /\ publisher' = [pc |-> "read", graded |-> truth, todo |-> Axes,
                   got |-> [a \in Axes |-> NoFile]]
  /\ UNCHANGED <<world, raw, driver, dest, runs, history>> /\ NoTrouble

Reading == publisher.pc = "read"
Stop == publisher' = Off

(* One axis at a time, with the captures its rows name, as they are now.   *)
Readable(axis) ==
  result[axis].there /\ \A r \in result[axis].holds : capture[r.label].there
HasRead(axis, got) == publisher' = [publisher EXCEPT !.todo = @ \ {axis}, !.got = got]

ReadAxis(axis) ==
  /\ Reading /\ axis \in publisher.todo
  /\ \A a \in publisher.todo : AXIS_ORDER[axis] <= AXIS_ORDER[a]
  /\ \/ Readable(axis) /\ HasRead(axis, [publisher.got EXCEPT ![axis] = File(Taken(axis))])
     \/ result[axis] = NoFile /\ axis \notin Mandatory /\ HasRead(axis, publisher.got)
     \/ ~Readable(axis) /\ (result[axis] # NoFile \/ axis \in Mandatory) /\ Stop
  /\ UNCHANGED <<world, raw, driver, dest, runs, publications, history>> /\ NoTrouble

Agreed ==
  /\ ArchiveReads
  /\ \A p \in New \cup Old : ~Disagrees(p, publisher.graded)
  /\ singles = publisher.graded
  /\ \A a \in GotAxes : Summarisable(a, publisher.got[a].holds)

Ids(pairs) == UNION {p.file.ids : p \in pairs}
MapOf == Mapping(Ids(New \cup Old), Known)

Clean == \A p \in New \cup Old : residual_scan(apply_map(p.file.ids, MapOf)) = {}

ToPublish(pairs) ==
  {[label |-> p.row.label, run |-> p.file.run, took |-> p.file.took,
    shows |-> apply_map(p.file.ids, MapOf)] : p \in pairs}

(* Mutant: changes are tolerated and not told. *)
NothingTold == {}

Disclosed ==
  UNION {{<<p.row.label, p.row.run, k>> : k \in ScorerChanges(p, publisher.graded)} :
           p \in New \cup Old}

Figures ==
  [lines |-> {[label |-> p.row.label, run |-> p.row.run, fields |-> Fresh(p, publisher.graded)] : p \in New},
   disclosed |-> Disclosed]

(* What is to be written: the rows of each axis and its captures, ...      *)
FilesOf(axes) ==
  ({"rows", "matrix"} \X axes) \cup {<<"superseded", None>>, <<"figures", None>>}
WriteOrder(file) ==
  CASE file[1] = "rows"       -> 2 * AXIS_ORDER[file[2]]
    [] file[1] = "matrix"     -> 2 * AXIS_ORDER[file[2]] + 1
    [] file[1] = "superseded" -> 14
    [] file[1] = "figures"    -> 15

(* Everything is checked before anything is written. *)
Check ==
  /\ Reading /\ publisher.todo = {}
  /\ IF Agreed /\ Clean
     THEN publisher' = [pc |-> "clear", todo |-> FilesOf(GotAxes), got |-> publisher.got,
                        figures |-> Figures, old |-> ToPublish(Old),
                        new |-> [a \in GotAxes |-> ToPublish(publisher.got[a].holds)]]
     ELSE Stop
  /\ UNCHANGED <<world, raw, driver, dest, runs, publications, history>> /\ NoTrouble

Shown == {[label |-> c.label, run |-> c.run] : c \in dest.matrix \cup dest.superseded}

(* The published captures are removed; files beside them are not.          *)
Clear ==
  /\ publisher.pc = "clear"
  /\ dest' = [dest EXCEPT !.matrix = {}, !.superseded = {}]
  /\ publisher' = [publisher EXCEPT !.pc = "write"]
  /\ history' = [cut |-> TRUE, absent |-> Axes \ GotAxes, shown |-> history.shown \cup Shown]
  /\ UNCHANGED <<world, raw, driver, runs, publications>> /\ NoTrouble

WriteRows(axis) ==
  dest' = [dest EXCEPT !.rows[axis] = File({p.row : p \in publisher.got[axis].holds})]
WriteCaptures(axis) == dest' = [dest EXCEPT !.matrix = @ \cup publisher.new[axis]]
WriteSuperseded == dest' = [dest EXCEPT !.superseded = publisher.old]
WriteFigures == dest' = [dest EXCEPT !.figures = File(publisher.figures)]

Write(file) ==
  /\ publisher.pc = "write" /\ file \in publisher.todo
  /\ \A f \in publisher.todo : WriteOrder(file) <= WriteOrder(f)
  /\ \/ file[1] = "rows" /\ WriteRows(file[2])
     \/ file[1] = "matrix" /\ WriteCaptures(file[2])
     \/ file[1] = "superseded" /\ WriteSuperseded
     \/ file[1] = "figures" /\ WriteFigures
  /\ publisher' = IF publisher.todo = {file} THEN Off
                  ELSE [publisher EXCEPT !.todo = @ \ {file}]
  /\ history' = [history EXCEPT !.cut = publisher.todo # {file}]
  /\ UNCHANGED <<world, raw, driver, runs, publications>> /\ NoTrouble

KillPublication ==
  /\ publisher # Off /\ Trouble /\ Stop
  /\ UNCHANGED <<world, raw, driver, dest, runs, publications, history>>

Next ==
  \/ \E axis \in Axes : StartRun(axis)
  \/ \E cell \in UNION {Cells(a) : a \in Axes} : RunCell(cell)
  \/ OpenResult \/ DumpResult \/ Abort
  \/ MoveTable \/ CaptureTruth \/ CaptureRuns \/ UpdateScorer
  \/ \E moved \in SUBSET Axes : Archive(moved)
  \/ StartPublication \/ Check \/ Clear \/ KillPublication
  \/ \E axis \in Axes : ReadAxis(axis)
  \/ \E file \in FilesOf(Axes) : Write(file)

Spec == Init /\ [][Next]_vars

-----------------------------------------------------------------------------
(***************************************************************************)
(* Properties.                                                             *)
(***************************************************************************)
IsRow(r) ==
  r.label \in Labels /\ r.run \in RunIds /\ r.scorer \in 9..10 /\ r.took \in Times

TypeOK ==
  /\ table \in Versions /\ truth <= table /\ singles <= table
  /\ listed \subseteq LISTS
  /\ driver # Off => /\ driver.todo \subseteq Cells(driver.axis)
                     /\ \A r \in driver.rows : IsRow(r) /\ r.label[1] = driver.axis
                     /\ \A r, q \in driver.rows : r.label = q.label => r = q
  /\ \A a \in Axes :
       /\ result[a].there =>
            {r.label : r \in result[a].holds} = {a} \X Cells(a) \X (1..Repeat)
       /\ archive[a].there => \A p \in archive[a].holds : IsRow(p.row) /\ p.row.label[1] = a

Idle == ~history.cut

(* No run is published among the rows that died before its header: "any    *)
(* run has no stamped header -- a leg that died before answering is not a  *)
(* result" (publish_evidence.py:11).  Nothing tests for it; it is the      *)
(* summary that fails.                                                     *)
UnansweredNeverPublished ==
  \A a \in Axes : dest.rows[a].there =>
    \A r \in dest.rows[a].holds : r.fields.catalog_calls # {}

(* Behind every published row is the capture it was graded from, unless a  *)
(* later run took as long and answered the same, or the publication was    *)
(* cut short, or the axis was not there for it: its file of rows stays.    *)
RowsHaveCaptures ==
  Idle => \A a \in Axes \ history.absent : dest.rows[a].there =>
    \A r \in dest.rows[a].holds :
      \E c \in dest.matrix : c.label = r.label /\ (c.run = r.run \/ c.took = r.took)

(* Where a published row and the published figures grade a run otherwise,  *)
(* the figures say so.                                                     *)
DifferencesAreTold ==
  Idle /\ dest.figures.there =>
    \A a \in Axes \ history.absent : dest.rows[a].there =>
      \A r \in dest.rows[a].holds, line \in dest.figures.holds.lines :
        line.label = r.label =>
          \A k \in DOMAIN line.fields :
            line.fields[k] # r.fields[k] => <<r.label, r.run, k>> \in dest.figures.holds.disclosed

(* No publication, whole or cut short, shows an identifier, or masks one   *)
(* in two ways.                                                            *)
IdentifiersMasked ==
  \A c \in dest.matrix \cup dest.superseded : \A mask \in c.shows :
    \E name \in mask : mask = {name} /\ name[2] # 0

(* What is published once stays published, unless somebody has run that    *)
(* label again without archiving it, or has archived its axis where the    *)
(* lists do not lead to it: SUPERSEDED_D to all but B (line 614), although *)
(* an archive "carries every axis it ran"; SUPERSEDED to A, B and C; and   *)
(* a directory in neither list is passed over.                             *)
InArchive(s) ==
  \E a \in Axes : archive[a].there /\
    \E p \in archive[a].holds : p.row.label = s.label /\ p.file.run = s.run
RunAgain(s) ==
  \/ capture[s.label] = Torn
  \/ capture[s.label].there /\ capture[s.label].holds.run > s.run
  \/ \E a \in Axes : archive[a].there /\
       \E p \in archive[a].holds : p.row.label = s.label /\ p.file.run > s.run

ByTheLists ==
  (IF "SUPERSEDED" \in listed THEN AXES \cap {"A", "B", "C"} ELSE {})
    \cup (IF "SUPERSEDED_D" \in listed THEN AXES \ {"B"} ELSE {})

NothingPublishedIsLost ==
  Idle => \A s \in history.shown \ Shown :
    IF InArchive(s) THEN s.label[1] \notin ByTheLists ELSE RunAgain(s)
=============================================================================
