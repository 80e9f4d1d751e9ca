----------------------------- MODULE HostMatrix -----------------------------
(***************************************************************************)
(* The MCP host matrix (iceberg-mcp-hosts): run_matrix.py puts a question  *)
(* to a command-line host with one tool server registered, keeps what it   *)
(* printed and what the tracing proxy logged, and grades it; rescore.py    *)
(* grades the stored captures again, replay_check.py repeats the logged    *)
(* calls.  Hosts, their configuration and the table are external.  One     *)
(* question, one table; the server's catalog is the same for all cells.    *)
(***************************************************************************)
EXTENDS AnswerScore

CONSTANTS
  Hosts, GlobalHosts,   \* all hosts; those that keep servers in global state
  Configs,              \* the runs started: axis, what is held constant, cells
  Rounds,               \* per run
  MaxCalls, MaxRuns, MaxTroubles   \* bounds: calls per question, runs, faults

Question == "Q4"
Tools == {"count_rows", "scan"}     \* those that tell of rows

(* One server in two variants: who does the arithmetic. *)
SERVERS ==
  [ours_engine |-> [answers_rows |-> TRUE, cites_version |-> TRUE,
                    filters |-> TRUE, withheld |-> {}],
   ours_rows |-> [answers_rows |-> TRUE, cites_version |-> TRUE,
                  filters |-> FALSE, withheld |-> {"count_rows"}]]
Servers == DOMAIN SERVERS
Offers(s) == Tools \ SERVERS[s].withheld

ASSUME MatrixAssumption ==
  /\ GlobalHosts \subseteq Hosts
  /\ Configs \subseteq [axis : {"A"}, held : Hosts, only : SUBSET Servers]
                      \cup [axis : {"B"}, held : Servers, only : SUBSET Hosts]
  /\ Rounds \in Nat \ {0} /\ MaxCalls \in Nat /\ MaxRuns \in Nat /\ MaxTroubles \in Nat

Cells(config) ==
  IF config.axis = "A" THEN {<<config.held, s>> : s \in config.only}
  ELSE {<<h, config.held>> : h \in config.only}

Labels == Hosts \X Servers \X (1..Rounds)     \* the table and question are fixed
RunIds == 1..MaxRuns
Frames == [run : RunIds, server : Servers, tool : Tools]
Versions == 1..2                              \* of the table
NoFile == [there |-> FALSE]
Torn == [torn |-> TRUE]                       \* cut off in the middle of a dump
File(x) == [there |-> TRUE, holds |-> x]

-----------------------------------------------------------------------------
(***************************************************************************)
(* The table, what a scan or a count of it says, and its captured truth.   *)
(***************************************************************************)
RowCount(version) == 10 + version
MAX_ROW_LIMIT == 11

(* The count tool, the scan that returns rows only, and the one that also  *)
(* counts them.                                                            *)
CountSays(version) == {<< Num(RowCount(version)), Noun("row") >>}
ScanSays(version) ==
  IF RowCount(version) <= MAX_ROW_LIMIT
  THEN {<< Num(RowCount(version)), Noun("row"), Date(11) >>}
  ELSE {<< Num(MAX_ROW_LIMIT), Noun("row"), Date(11) >>, << Phrase("sampled") >>}
FilterScanSays(version) == ScanSays(version) \cup CountSays(version)

Said(server, tool, version) ==
  IF tool = "count_rows" THEN CountSays(version)
  ELSE IF SERVERS[server].filters THEN FilterScanSays(version) ELSE ScanSays(version)

Truth(version) ==
  [table |-> "probe_table", rows |-> RowCount(version), namespaces |-> {"probe_ns"},
   snapshots |-> version, absent_namespace |-> "analytics",
   columns |-> {"id", "ts", "payload", "region"},
   snapshot_id |-> ToString(version), metadata_location |-> ToString(version),
   range_ts |-> << "first", "last" >>]

States(n) == {<< Name("probe_ns", "probe_table"), Num(n), Noun("row") >>}
Declines == {<< Phrase("cannot count") >>}
Bodies == {{}, Declines} \cup {States(RowCount(v)) : v \in Versions}

(* What the capture of a host that was killed holds: that there was no     *)
(* output, and the error with the host's command and its 300 seconds.      *)
NoOutput == {<< Phrase("no output") >>, << Name("probe_ns", "probe_table"), Noun("row") >>,
             << Num(300) >>}
read_capture(body) == IF body = {} THEN NoOutput ELSE body

EXPECTED_TO_CHANGE ==
  {"names_namespaces", "names_table", "correct_ts_range", "cites_version",
   "answered_correctly", "engine_aggregate", "fetched_rows", "model_did_arithmetic",
   "correct_namespace_count", "correct_snapshot_count", "reports_namespace_absent",
   "invented_a_table", "correct_row_count", "declines_to_count", "row_count_claims"}

-----------------------------------------------------------------------------
VARIABLES
  table, truth,     \* the table's version; the one the truth was captured at
  registered,       \* the servers in each global host's configuration
  driver,           \* run_matrix.py, or Off
  rescorer,         \* rescore.py while it writes: the file, what it held, what it will
  capture, trace, result,   \* the files, by label or by configuration
  pending,          \* frames that a proxy has yet to write to an open trace
  orphans,          \* hosts that outlived a driver killed while they worked
  runs, troubles,   \* counters: runs started, things gone wrong
  replayed,         \* what replay_check reported: rows and the table then
  history           \* calls really made, and the excuses the properties name

vars == <<table, truth, registered, driver, rescorer, capture, trace, result, pending,
          orphans, runs, troubles, replayed, history>>
disk == <<capture, trace, result>>
world == <<table, truth, replayed, rescorer>>

Off == [pc |-> "off"]
Row(label, run, body, traced, calls, graded) ==
  [label |-> label, run |-> run, body |-> body, traced |-> traced,
   calls |-> calls, graded |-> graded]

(* A row as it is in the JSON: verdicts, and the trace's fields if it had  *)
(* one.                                                                    *)
Substantive(body) == body \notin {{}, Declines}
FromTrace(row) ==
  IF row.calls.there
  THEN Provenance(Question, row.body, {f.tool : f \in row.calls.holds}, Substantive(row.body))
  ELSE << >>
FieldsOf(row) ==
  Joined(Joined(score(Question, row.body, Truth(row.graded), SERVERS[row.label[2]]),
                [graded_against |-> {row.graded}, traced |-> {row.traced}]),
         FromTrace(row))

Init ==
  /\ table = 1 /\ truth = 1
  /\ registered = [h \in GlobalHosts |-> {}]
  /\ driver = Off /\ rescorer = Off
  /\ capture = [l \in Labels |-> NoFile] /\ trace = [l \in Labels |-> NoFile]
  /\ result = [c \in Configs |-> NoFile]
  /\ pending = {} /\ orphans = {} /\ runs = 0 /\ troubles = 0 /\ replayed = {}
  /\ history = [asked |-> [l \in Labels |-> 0], made |-> {}, unremoved |-> {}, orphaned |-> {}]

Trouble == troubles < MaxTroubles /\ troubles' = troubles + 1
NoTrouble == UNCHANGED troubles
At(pc) == driver.pc = pc

(* What a host sees: Claude Code a file of its own, the others whatever    *)
(* their configuration holds.                                              *)
Visible(host, server) == IF host \in GlobalHosts THEN registered[host] ELSE {server}

-----------------------------------------------------------------------------
(***************************************************************************)
(* run_matrix.py: rounds of cells, and in a cell the question.             *)
(***************************************************************************)
StartRun(config) ==
  /\ At("off") /\ rescorer = Off /\ runs < MaxRuns
  /\ self_test(Truth(truth))
  /\ runs' = runs + 1
  /\ driver' = [pc |-> "round", config |-> config, round |-> 1, todo |-> Cells(config),
                cell |-> << >>, graded |-> truth, label |-> << >>, rows |-> {}]
  /\ UNCHANGED <<world, registered, disk, pending, orphans, history>> /\ NoTrouble

(* A global host's configuration without the server.                       *)
Without(host, server) ==
  IF host \in GlobalHosts THEN [registered EXCEPT ![host] = @ \ {server}] ELSE registered

(* The cell's own server is removed and added.                             *)
PrepareOn(cell) ==
  /\ registered' = IF cell[1] \notin GlobalHosts THEN registered
                   ELSE [registered EXCEPT ![cell[1]] = @ \cup {cell[2]}]
  /\ driver' = [driver EXCEPT !.pc = "ask", !.cell = cell, !.todo = @ \ {cell},
                              !.graded = truth,
                              !.label = << cell[1], cell[2], driver.round >>]

Prepare(cell) ==
  /\ At("round") /\ cell \in driver.todo
  /\ PrepareOn(cell)
  /\ UNCHANGED <<world, disk, pending, orphans, runs, history>> /\ NoTrouble

(* The host rejects the server: RuntimeError, and no cleanup yet to run.   *)
PrepareFails(cell) ==
  /\ At("round") /\ cell \in driver.todo /\ cell[1] \in GlobalHosts /\ Trouble
  /\ registered' = Without(cell[1], cell[2])
  /\ driver' = Off
  /\ UNCHANGED <<world, disk, pending, orphans, runs, history>>

(* Mutant: the file of an earlier run is appended to. *)
KeepsTrace ==
  /\ At("ask")
  /\ driver' = [driver EXCEPT !.pc = "host"]
  /\ history' = [history EXCEPT !.asked[driver.label] = runs]
  /\ UNCHANGED <<world, registered, disk, pending, orphans, runs>> /\ NoTrouble

(* The trace of an earlier run is unlinked; who has it open writes to a    *)
(* file without a name.                                                    *)
Ask ==
  /\ At("ask")
  /\ trace' = [trace EXCEPT ![driver.label] = NoFile]
  /\ pending' = {p \in pending : p.label # driver.label}
  /\ driver' = [driver EXCEPT !.pc = "host"]
  /\ history' = [history EXCEPT !.asked[driver.label] = runs]
  /\ UNCHANGED <<world, registered, capture, result, orphans, runs>> /\ NoTrouble

(* The host, its servers and their proxies: a call is logged as it is      *)
(* made, or a little after the host is gone.                               *)
Logged(label, frames) ==
  [trace EXCEPT ![label] = File((IF @.there THEN @.holds ELSE {}) \cup frames)]

MadeNow == {m \in history.made : m.label = driver.label /\ m.run = runs}

HostCalls(s, t) ==
  LET frame == [run |-> runs, server |-> s, tool |-> t] IN
  /\ At("host") /\ Cardinality(MadeNow) < MaxCalls
  /\ s \in Visible(driver.label[1], driver.label[2]) /\ t \in Offers(s)
  /\ \/ trace' = Logged(driver.label, {frame}) /\ UNCHANGED pending /\ NoTrouble
     \/ /\ Trouble /\ trace' = Logged(driver.label, {})
        /\ pending' = pending \cup {[label |-> driver.label, frame |-> frame]}
  /\ history' = [history EXCEPT !.made = @ \cup
        {[label |-> driver.label, run |-> runs, call |-> frame, table |-> table]}]
  /\ UNCHANGED <<world, registered, driver, capture, result, orphans, runs>>

(* The host, which has started the servers it sees, answers, or is killed  *)
(* after 300 seconds with nothing to show; either is captured.             *)
Answers(body) ==
  /\ At("host") /\ body \in Bodies
  /\ \A v \in Versions : v > table => body # States(RowCount(v))
  /\ IF body = {} THEN Trouble ELSE NoTrouble
  /\ trace' = IF Visible(driver.label[1], driver.label[2]) = {} THEN trace
              ELSE Logged(driver.label, {})
  /\ capture' = [capture EXCEPT ![driver.label] = File([run |-> runs, body |-> body])]
  /\ driver' = [driver EXCEPT !.pc = "score"]
  /\ UNCHANGED <<world, registered, result, pending, orphans, runs, history>>

LateWrite(p) ==
  /\ p \in pending
  /\ trace' = Logged(p.label, {p.frame})
  /\ pending' = pending \ {p}
  /\ UNCHANGED <<world, registered, driver, capture, result, orphans, runs, history>>
  /\ NoTrouble

(* A host that nobody waits for opens the trace by its name.               *)
OrphanCalls(o) ==
  /\ o \in orphans
  /\ \E s \in o.sees, t \in Tools :
       /\ t \in Offers(s)
       /\ trace' = Logged(o.label, {[run |-> o.run, server |-> s, tool |-> t]})
  /\ orphans' = orphans \ {o}
  /\ UNCHANGED <<world, registered, driver, capture, result, pending, runs, history>>
  /\ NoTrouble

Score ==
  /\ At("score")
  /\ driver' = [driver EXCEPT !.pc = "cleanup", !.rows = @ \cup
       {Row(driver.label, runs, capture[driver.label].holds.body,
            trace[driver.label].there, trace[driver.label], driver.graded)}]
  /\ UNCHANGED <<world, registered, disk, pending, orphans, runs, history>> /\ NoTrouble

(* Mutant: a round ends with its first cell. *)
OneCellRounds ==
  IF driver.round < Rounds
  THEN [driver EXCEPT !.pc = "round", !.round = @ + 1, !.todo = Cells(driver.config)]
  ELSE [driver EXCEPT !.pc = "dump"]

AfterCell ==
  IF driver.todo # {} THEN [driver EXCEPT !.pc = "round"]
  ELSE IF driver.round < Rounds
  THEN [driver EXCEPT !.pc = "round", !.round = @ + 1, !.todo = Cells(driver.config)]
  ELSE [driver EXCEPT !.pc = "dump"]

(* Mutant: the server stays where it was added. *)
NoCleanup ==
  /\ At("cleanup")
  /\ driver' = AfterCell
  /\ UNCHANGED <<world, registered, disk, pending, orphans, runs, history>> /\ NoTrouble

(* A removal that fails is not noticed: its result is thrown away.         *)
Cleanup ==
  /\ At("cleanup")
  /\ \/ registered' = Without(driver.cell[1], driver.cell[2]) /\ UNCHANGED history /\ NoTrouble
     \/ /\ driver.cell[1] \in GlobalHosts /\ Trouble /\ UNCHANGED registered
        /\ history' = [history EXCEPT !.unremoved = @ \cup {driver.cell[1]}]
  /\ driver' = AfterCell
  /\ UNCHANGED <<world, disk, pending, orphans, runs>>

(* The file is truncated when it is opened, and filled as it is dumped.    *)
OpenResult ==
  /\ At("dump")
  /\ result' = [result EXCEPT ![driver.config] = Torn]
  /\ driver' = [driver EXCEPT !.pc = "dumping"]
  /\ UNCHANGED <<world, registered, capture, trace, pending, orphans, runs, history>>
  /\ NoTrouble

DumpResult ==
  /\ At("dumping")
  /\ result' = [result EXCEPT ![driver.config] = [rows |-> driver.rows]]
  /\ driver' = Off
  /\ UNCHANGED <<world, registered, capture, trace, pending, orphans, runs, history>>
  /\ NoTrouble

(* Control-C or an exception in a cell: the host is killed, the cell       *)
(* cleaned up, the rows are gone.                                          *)
Interrupt ==
  /\ driver.pc \in {"ask", "host", "score"} /\ Trouble
  /\ driver' = Off
  /\ registered' \in {registered, Without(driver.cell[1], driver.cell[2])}
  /\ history' = [history EXCEPT
       !.unremoved = @ \cup IF registered' = registered THEN {driver.cell[1]} ELSE {}]
  /\ UNCHANGED <<world, disk, pending, orphans, runs>>

(* The driver is killed: no cleanup, and the host goes on.                 *)
Kill ==
  /\ ~At("off") /\ Trouble
  /\ driver' = Off
  /\ orphans' = IF ~At("host") THEN orphans
                ELSE orphans \cup {[label |-> driver.label, run |-> runs,
                                    sees |-> Visible(driver.label[1], driver.label[2])]}
  /\ history' =
       [history EXCEPT
         !.unremoved = @ \cup IF driver.pc \in {"ask", "host", "score", "cleanup"}
                              THEN {driver.cell[1]} ELSE {},
         !.orphaned = @ \cup IF At("host") THEN {driver.label} ELSE {}]
  /\ UNCHANGED <<world, registered, disk, pending, runs>>

-----------------------------------------------------------------------------
(***************************************************************************)
(* The table moves; ground_truth.py captures it again.                     *)
(***************************************************************************)
MoveTable ==
  /\ Trouble /\ table + 1 \in Versions /\ table' = table + 1
  /\ UNCHANGED <<truth, registered, driver, disk, pending, orphans, runs, replayed, history,
                 rescorer>>

(* Mutant: the truth of a table that is not there yet. *)
CaptureAhead ==
  /\ truth + 1 \in Versions /\ truth' = truth + 1
  /\ UNCHANGED <<table, registered, driver, disk, pending, orphans, runs, replayed, history,
                 rescorer>>
  /\ NoTrouble

CaptureTruth ==
  /\ truth # table /\ truth' = table
  /\ UNCHANGED <<table, registered, driver, disk, pending, orphans, runs, replayed, history,
                 rescorer>>
  /\ NoTrouble

-----------------------------------------------------------------------------
(***************************************************************************)
(* rescore.py and replay_check.py, which know the axis by its host.  Both  *)
(* fail on a file that is not whole.                                       *)
(***************************************************************************)
Whole(config) == result[config] \notin {NoFile, Torn}

Rescored(row) ==
  Row(row.label, capture[row.label].holds.run, read_capture(capture[row.label].holds.body),
      row.traced, trace[row.label], truth)

(* Mutant: the tool calls are let through. *)
AnswersUnmoved(row) ==
  \A f \in {"names_all_columns", "cites_snapshot", "declines_explicitly", "graded_against"} :
    FieldsOf(row)[f] = FieldsOf(Rescored(row))[f]

(* Every field of the old row that the new one has, but for the expected.  *)
Unmoved(row) ==
  LET old == FieldsOf(row)
      new == FieldsOf(Rescored(row))
  IN \A f \in (DOMAIN old \cap DOMAIN new) \ EXPECTED_TO_CHANGE : old[f] = new[f]

(* All rows are graded before the file they came from is opened, which     *)
(* truncates it; a rescore that is killed leaves it so.                    *)
Rescore(config) ==
  /\ At("off") /\ rescorer = Off /\ config.axis = "A" /\ Whole(config)
  /\ \A row \in result[config].rows : capture[row.label].there /\ Unmoved(row)
  /\ result' = [result EXCEPT ![config] = Torn]
  /\ rescorer' = [pc |-> "dumping", config |-> config, was |-> result[config].rows,
                  rows |-> {Rescored(row) : row \in result[config].rows}]
  /\ UNCHANGED <<table, truth, replayed, registered, driver, capture, trace, pending, orphans,
                 runs, history>>
  /\ NoTrouble

DumpRescored ==
  /\ rescorer # Off
  /\ result' = [result EXCEPT ![rescorer.config] = [rows |-> rescorer.rows]]
  /\ rescorer' = Off
  /\ UNCHANGED <<table, truth, replayed, registered, driver, capture, trace, pending, orphans,
                 runs, history>>
  /\ NoTrouble

KillRescore ==
  /\ rescorer # Off /\ Trouble
  /\ rescorer' = Off
  /\ UNCHANGED <<table, truth, replayed, registered, driver, disk, pending, orphans, runs, history>>

calls_of(label) == trace[label].holds

(* Every call of the label is put to the row's own server; a tool that it  *)
(* withholds is no tool.  Scans carry no filter here.                      *)
Replies(server, tool) ==
  IF tool \in Offers(server) THEN Said(server, tool, table) ELSE {<< Phrase("no tool") >>}

(* Mutant: only the count tool is believed. *)
from_count(row) ==
  \E f \in calls_of(row.label) :
    f.tool = "count_rows" /\ states_count(RowCount(truth), Replies(row.label[2], f.tool))

(* Is the truth's row count in what the calls return now?                  *)
from_tools(row) ==
  \E f \in calls_of(row.label) :
    \/ states_count(RowCount(truth), Replies(row.label[2], f.tool))
    \/ {Num(RowCount(truth)), Date(RowCount(truth))}
         \cap Tokens(Replies(row.label[2], f.tool)) # {}

Outside(row) ==
  Yes(FieldsOf(row).correct_row_count) /\ ~from_tools(row)

Replay(config) ==
  /\ At("off") /\ rescorer = Off /\ config.axis = "A" /\ Whole(config)
  /\ \A row \in result[config].rows : truth = row.graded /\ trace[row.label].there
  /\ replayed' = {[row |-> row, table |-> table] :
                    row \in {r \in result[config].rows : Outside(r)}}
  /\ UNCHANGED <<table, truth, registered, driver, rescorer, disk, pending, orphans, runs, history>>
  /\ NoTrouble

Next ==
  \/ \E config \in Configs : StartRun(config) \/ Rescore(config) \/ Replay(config)
  \/ \E cell \in Hosts \X Servers : Prepare(cell) \/ PrepareFails(cell)
  \/ Ask \/ Score \/ Cleanup \/ OpenResult \/ DumpResult \/ Interrupt \/ Kill
  \/ \E s \in Servers, t \in Tools : HostCalls(s, t)
  \/ \E body \in Bodies : Answers(body)
  \/ \E p \in pending : LateWrite(p)
  \/ \E o \in orphans : OrphanCalls(o)
  \/ DumpRescored \/ KillRescore \/ MoveTable \/ CaptureTruth

Spec == Init /\ [][Next]_vars

-----------------------------------------------------------------------------
(***************************************************************************)
(* Properties.                                                             *)
(***************************************************************************)
TraceFile(x) == x = NoFile \/ (DOMAIN x = {"there", "holds"} /\ x.there /\ x.holds \subseteq Frames)
IsRow(row) ==
  /\ row = Row(row.label, row.run, row.body, row.traced, row.calls, row.graded)
  /\ row.label \in Labels /\ row.run \in RunIds
  /\ row.body \in Bodies \cup {NoOutput}
  /\ row.traced \in BOOLEAN /\ TraceFile(row.calls) /\ row.graded \in Versions

TypeOK ==
  /\ table \in Versions /\ truth \in Versions /\ truth <= table
  /\ registered \in [GlobalHosts -> SUBSET Servers]
  /\ runs \in 0..MaxRuns /\ troubles \in 0..MaxTroubles
  /\ \A l \in Labels : /\ capture[l].there => capture[l].holds \in [run : RunIds, body : Bodies]
                       /\ TraceFile(trace[l])
  /\ \A p \in pending : p.label \in Labels /\ p.frame \in Frames
  /\ \A c \in Configs : Whole(c) => \A row \in result[c].rows : IsRow(row)
  /\ rescorer # Off => /\ At("off") /\ ~Whole(rescorer.config)
                       /\ \A row \in rescorer.rows \cup rescorer.was : IsRow(row)

RowsNow ==
  (IF At("off") THEN {} ELSE driver.rows) \cup (IF rescorer = Off THEN {} ELSE rescorer.rows)
    \cup UNION {result[c].rows : c \in {d \in Configs : Whole(d)}}

(* A row carries calls to its own server only, unless a removal from that  *)
(* host's configuration was skipped or failed: "Make `server` the only MCP *)
(* server this host can see" (hosts.py:41).                                *)
OnlyItsServer ==
  \A row \in RowsNow : row.calls.there =>
    \/ \A f \in row.calls.holds : f.server = row.label[2]
    \/ row.label[1] \in history.unremoved

(* A label names no run and no axis: a later run may have asked it again.  *)
Superseded(row) == history.asked[row.label] # row.run

(* A row carries the calls of the run that got its answer, although every  *)
(* run of a label appends to one file; unless a later one has asked since, *)
(* or a host outlived its driver.                                          *)
OwnTrace ==
  \A row \in RowsNow : row.calls.there =>
    \/ \A f \in row.calls.holds : f.run = row.run
    \/ Superseded(row) \/ row.label \in history.orphaned

(* An answer graded as given without tools was, once its calls are written *)
(* and as long as its trace stays as it was: of another a rescore refuses. *)
Made(row) == {m \in history.made : m.label = row.label /\ m.run = row.run}
Settled(row) ==
  /\ trace[row.label] = row.calls /\ ~Superseded(row)
  /\ \A p \in pending : p.label # row.label \/ p.frame.run # row.run
UntooledIsHonest ==
  \A row \in RowsNow :
    row.calls.there /\ Made(row) # {} /\ Settled(row) => ~Yes(FromTrace(row).answered_without_tools)

(* A result file that can be read holds a row for every question of its    *)
(* run.                                                                    *)
FileIsComplete ==
  \A c \in Configs : Whole(c) =>
    {row.label : row \in result[c].rows}
      = {<< cell[1], cell[2], n >> : cell \in Cells(c), n \in 1..Rounds}

(* Of an answer that the replay finds to come from outside, no call to the *)
(* row's own server told the host the count; unless the table moved, as    *)
(* nothing compares the captured truth with the table, or the trace is not *)
(* of that answer.  Of a call to a server left over from a killed run this *)
(* is not so, although the replay means to use "the same server variant"   *)
(* (replay_check.py:15): it uses the row's.                                *)
TraceIsNotOf(r) ==
  \/ trace[r.row.label] # r.row.calls
  \/ \E p \in pending : p.label = r.row.label
  \/ Superseded(r.row)
Told(m, row) ==
  states_count(RowCount(row.graded), Said(m.call.server, m.call.tool, m.table))

ReplayHonest ==
  \A r \in replayed :
    \/ \A m \in Made(r.row) : m.call.server = r.row.label[2] => ~Told(m, r.row)
    \/ r.table # r.row.graded \/ TraceIsNotOf(r)

(* A rescore moves no field but those it is meant to, and drops none of a  *)
(* row that was there, but for a label that a later run has asked; or it   *)
(* was killed and has left a file that cannot be read.  A rescore starts   *)
(* from the old rows, so none can bring those back.                        *)
SameHistory(old, new) ==
  LET was == FieldsOf(old)
      is == FieldsOf(new)
  IN \A f \in DOMAIN was \ EXPECTED_TO_CHANGE : f \in DOMAIN is /\ is[f] = was[f]
HasHistory(old, rows) ==
  \E new \in rows : new.label = old.label /\ (SameHistory(old, new) \/ Superseded(old))

RescoreEnds == rescorer # Off /\ rescorer' = Off
RescoreKeepsHistory ==
  [][RescoreEnds => \/ result'[rescorer.config] = Torn
                    \/ \A old \in rescorer.was : HasHistory(old, result'[rescorer.config].rows)]_vars
=============================================================================
