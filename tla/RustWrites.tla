----------------------------- MODULE RustWrites -----------------------------
(***************************************************************************)
(* The write run of the Rust client: run_writes.py starts a logging proxy  *)
(* (wire_proxy.py) and the binary in write mode (main.rs: writes), waits   *)
(* for it with a time-out, and writes a report from the binary's rows and  *)
(* the proxy's log.  The catalog is external, and so is the crate, as far  *)
(* as main.rs and the requests on record show it.                          *)
(***************************************************************************)
EXTENDS Integers, Sequences

CONSTANT Catalogs     \* the catalogs considered

Endpoints ==
  {"createNamespace", "createNested", "createTable", "createTableV1",
   "loadTable", "setProperties", "removeProperties", "addSchema", "upgrade",
   "renameTable", "purgeTable", "dropTable", "loadNested", "dropNested",
   "dropNamespace", "namespaceExists"}

Objects == {"ns", "child", "t1", "t2", "t3", "t4"}

(* A catalog: the endpoints it refuses, what it answers there, and how     *)
(* many requests to it are lost on the way.                                *)
CatalogType == [refused : SUBSET Endpoints, with : {"404", "501"}, faults : 0..1]

ASSUME CatalogsAssumption == Catalogs \subseteq CatalogType

-----------------------------------------------------------------------------
(***************************************************************************)
(* The probes in the order writes() issues them, each with the requests it *)
(* makes: a commit loads the table and posts, the stub sends nothing, the  *)
(* schema commit stands for its two rows.                                  *)
(***************************************************************************)
Call(do, on, at) == [do |-> do, on |-> on, at |-> at]
Probe(row, calls) == [row |-> row, calls |-> calls]
Create(row, o, at) == Probe(row, << Call("create", o, at) >>)
Commit(row, at) == Probe(row, << Call("find", "t1", "loadTable"), Call("find", "t1", at) >>)
Find(row, o, at) == Probe(row, << Call("find", o, at) >>)
Drop(row, o, at) == Probe(row, << Call("drop", o, at) >>)

RenameBack == Probe("rename_table", << Call("renameBack", "t2", "renameTable") >>)
Rename == Probe("rename_table", << Call("rename", "t1", "renameTable") >>)

FindT4 == Find("_drop_table_t4", "t4", "dropTable")
DropT4 == Drop("_drop_table_t4", "t4", "dropTable")

Steps ==
  << Create("create_namespace", "ns", "createNamespace"),
     Probe("update_namespace_props", << >>),
     Create("create_table", "t1", "createTable"),
     Commit("commit_table", "setProperties"),
     Commit("commit_remove_properties", "removeProperties"),
     Commit("commit_add_schema", "addSchema"),
     Commit("commit_upgrade_format_version", "upgrade"),
     Rename,
     Create("_create_table_for_purge", "t3", "createTable"),
     Drop("drop_table_purge", "t3", "purgeTable"),
     Drop("drop_table", "t2", "dropTable"),
     Create("_create_namespace_two_level", "child", "createNested"),
     Find("_load_namespace_two_level", "child", "loadNested"),
     Drop("_drop_namespace_two_level", "child", "dropNested"),
     Create("_create_table_format_version_property", "t4", "createTableV1"),
     DropT4,
     Drop("drop_namespace", "ns", "dropNamespace"),
     Probe("_residue_check", << Call("exists", "ns", "namespaceExists") >>) >>

Positions == 1..Len(Steps)

-----------------------------------------------------------------------------
(***************************************************************************)
(* The catalog.                                                            *)
(***************************************************************************)
Statuses == {"200", "404", "409", "501", "599"}

Target(c) == IF c.do = "rename" THEN "t2" ELSE IF c.do = "renameBack" THEN "t1" ELSE c.on

(* What the request names is there, and nothing stands in its way. *)
Found(c, objs) == IF c.do = "create" THEN c.on = "ns" \/ "ns" \in objs ELSE c.on \in objs
Free(c, objs) ==
  CASE c.do \in {"create", "rename", "renameBack"} -> Target(c) \notin objs
    [] c.do = "drop" /\ c.on = "ns" -> objs = {"ns"}
    [] OTHER -> TRUE

Reply(c, objs, cat) ==
  IF c.at \in cat.refused THEN cat.with
  ELSE IF ~Found(c, objs) THEN "404"
  ELSE IF ~Free(c, objs) THEN "409" ELSE "200"

Applied(c, objs, cat) ==
  IF Reply(c, objs, cat) # "200" THEN objs
  ELSE CASE c.do = "create" -> objs \cup {c.on}
         [] c.do = "drop"   -> objs \ {c.on}
         [] c.do \in {"rename", "renameBack"} -> (objs \ {c.on}) \cup {Target(c)}
         [] OTHER           -> objs

-----------------------------------------------------------------------------
VARIABLES
  catalog, objs,   \* the catalog, and what exists under the scratch name
  faults,          \* requests that may still be lost
  phase,           \* of run_writes.py: the binary is starting, running, has
                   \* exited, or the run is over
  meta,            \* the binary has printed its _meta row
  died,            \* the binary's exit code is not 0
  pos, call,       \* the binary: the probe it issues, the request of it
  stage, answer,   \* where that request is: not sent, at the catalog, back
                   \* at the proxy, back at the binary; what was answered
  rows,            \* what the binary printed, per probe
  wire,            \* the proxy's log
  report           \* the report file: as it was, or of this run (with the
                   \* two rows it reads but does not print)

vars == <<catalog, objs, faults, phase, meta, died, pos, call, stage, answer,
          rows, wire, report>>

Verdicts == {"MISSING", "OK", "FAILED", "UNSUPPORTED"}
Rows == [Positions -> Verdicts]
Wire == SUBSET [pos : Positions, call : 1..2, status : Statuses]
AsItWas == [new |-> FALSE]

TypeOK ==
  /\ catalog \in CatalogType /\ objs \subseteq Objects /\ faults \in 0..1
  /\ phase \in {"starting", "running", "exited", "over"}
  /\ meta \in BOOLEAN /\ died \in BOOLEAN
  /\ pos \in Positions /\ call \in 1..2
  /\ stage \in {"idle", "asked", "answered", "returned"}
  /\ answer \in Statuses \cup {"none"}
  /\ rows \in Rows /\ wire \in Wire
  /\ report \in {AsItWas} \cup [new : {TRUE}, rows : Rows, wire : Wire]

Init ==
  /\ catalog \in Catalogs /\ objs = {} /\ faults = catalog.faults
  /\ phase = "starting" /\ meta = FALSE /\ died = FALSE
  /\ pos = 1 /\ call = 1
  /\ stage = "idle" /\ answer = "200"
  /\ rows = [p \in Positions |-> "MISSING"] /\ wire = {}
  /\ report = AsItWas

Calls == Steps[pos].calls
Current == Calls[call]

-----------------------------------------------------------------------------
(***************************************************************************)
(* The binary.                                                             *)
(***************************************************************************)
BinaryStarts ==
  /\ phase = "starting" /\ phase' = "running"
  /\ meta' = TRUE
  /\ UNCHANGED <<catalog, objs, faults, died, pos, call, stage, answer, rows,
                 wire, report>>

(* build_catalog fails: a row "build", exit code 1. *)
BuildFails ==
  /\ phase = "starting" /\ phase' = "exited"
  /\ meta' = TRUE /\ died' = TRUE
  /\ UNCHANGED <<catalog, objs, faults, pos, call, stage, answer, rows, wire,
                 report>>

BinaryDies ==
  /\ phase \in {"starting", "running"} /\ phase' = "exited"
  /\ died' = TRUE
  /\ UNCHANGED <<catalog, objs, faults, meta, pos, call, stage, answer, rows,
                 wire, report>>

Ask ==
  /\ phase = "running" /\ stage = "idle" /\ call <= Len(Calls)
  /\ stage' = "asked"
  /\ UNCHANGED <<catalog, objs, faults, phase, meta, died, pos, call, answer,
                 rows, wire, report>>

(* On to the next probe, or the binary's normal end. *)
PastTheEnd == pos' = pos + 1 /\ call' = 1 /\ UNCHANGED phase

Advance ==
  IF pos = Len(Steps)
  THEN phase' = "exited" /\ UNCHANGED <<pos, call>>
  ELSE pos' = pos + 1 /\ call' = 1 /\ UNCHANGED phase

(* FeatureUnsupported, and no request. *)
Stub ==
  /\ phase = "running" /\ Calls = << >>
  /\ rows' = [rows EXCEPT ![pos] = "UNSUPPORTED"]
  /\ Advance
  /\ UNCHANGED <<catalog, objs, faults, meta, died, stage, answer, wire, report>>

AbortsOnFailure(p) == Steps[p].calls # << >>     \* a return in every Err branch
Aborts(p) == Steps[p].row = "create_table"

AnyAnswer(c) == answer # "none"      \* whatever its status

(* namespace_exists takes a 404 for an answer. *)
Ok(c) == answer = "200" \/ (c.do = "exists" /\ answer = "404")

NextCall ==
  /\ phase = "running" /\ stage = "returned"
  /\ Ok(Current) /\ call < Len(Calls)
  /\ stage' = "idle" /\ call' = call + 1
  /\ UNCHANGED <<catalog, objs, faults, phase, meta, died, pos, answer, rows,
                 wire, report>>

RecordOk ==
  /\ phase = "running" /\ stage = "returned"
  /\ Ok(Current) /\ call = Len(Calls)
  /\ rows' = [rows EXCEPT ![pos] = "OK"]
  /\ stage' = "idle" /\ Advance
  /\ UNCHANGED <<catalog, objs, faults, meta, died, answer, wire, report>>

RecordError ==
  /\ phase = "running" /\ stage = "returned"
  /\ ~Ok(Current)
  /\ rows' = [rows EXCEPT ![pos] = "FAILED"]
  /\ stage' = "idle"
  /\ IF Aborts(pos) THEN phase' = "exited" /\ UNCHANGED <<pos, call>> ELSE Advance
  /\ UNCHANGED <<catalog, objs, faults, meta, died, answer, wire, report>>

Record == RecordOk \/ RecordError

-----------------------------------------------------------------------------
(***************************************************************************)
(* The proxy passes a request to the catalog, writes the answer down and   *)
(* passes it on; a catalog it cannot reach is a 599 (URLError).  A         *)
(* connection that breaks before the answer is complete is an exception    *)
(* its handler does not catch: nothing is written down and the binary's    *)
(* connection breaks, whether the catalog has acted or not.  A request     *)
(* that is out goes on without the binary.                                 *)
(***************************************************************************)
CatalogAnswers ==
  /\ stage = "asked" /\ stage' = "answered"
  /\ answer' = Reply(Current, objs, catalog)
  /\ objs' = Applied(Current, objs, catalog)
  /\ UNCHANGED <<catalog, faults, phase, meta, died, pos, call, rows, wire,
                 report>>

Unreachable ==
  /\ stage = "asked" /\ stage' = "answered"
  /\ faults > 0 /\ faults' = faults - 1
  /\ answer' = "599"
  /\ UNCHANGED <<catalog, objs, phase, meta, died, pos, call, rows, wire, report>>

AnswerLost ==
  /\ stage = "asked" /\ stage' = "returned"
  /\ faults > 0 /\ faults' = faults - 1
  /\ answer' = "none"
  /\ objs' \in {objs, Applied(Current, objs, catalog)}
  /\ UNCHANGED <<catalog, phase, meta, died, pos, call, rows, wire, report>>

ProxyLogs ==
  /\ stage = "answered" /\ phase # "over"
  /\ stage' = "returned"
  /\ wire' = wire \cup {[pos |-> pos, call |-> call, status |-> answer]}
  /\ UNCHANGED <<catalog, objs, faults, phase, meta, died, pos, call, answer,
                 rows, report>>

-----------------------------------------------------------------------------
(***************************************************************************)
(* The driver.                                                             *)
(***************************************************************************)
NoTimeOut ==      \* only a binary that does not start is given up
  /\ phase = "starting" /\ phase' = "over"
  /\ UNCHANGED <<catalog, objs, faults, meta, died, pos, call, stage, answer,
                 rows, wire, report>>

(* TimeoutExpired: the binary is killed, the exception ends the driver.    *)
TimesOut ==
  /\ phase \in {"starting", "running"} /\ phase' = "over"
  /\ UNCHANGED <<catalog, objs, faults, meta, died, pos, call, stage, answer,
                 rows, wire, report>>

(* The report is written unless the binary printed nothing at all. *)
WriteReport ==
  /\ phase = "exited" /\ phase' = "over"
  /\ \/ meta /\ report' = [new |-> TRUE, rows |-> rows, wire |-> wire]
     \/ ~meta /\ UNCHANGED report
  /\ UNCHANGED <<catalog, objs, faults, meta, died, pos, call, stage, answer,
                 rows, wire>>

Binary == BinaryStarts \/ BuildFails \/ BinaryDies \/ Ask \/ Stub \/ NextCall \/ Record
Proxy  == CatalogAnswers \/ Unreachable \/ AnswerLost \/ ProxyLogs
Driver == TimesOut \/ WriteReport

Next == Binary \/ Proxy \/ Driver

Spec == Init /\ [][Next]_vars

(* The driver's clock runs; nobody else has to move. *)
FairSpec == Spec /\ WF_vars(Driver)

-----------------------------------------------------------------------------
(***************************************************************************)
(* Properties.                                                             *)
(***************************************************************************)
Untroubled == faults = catalog.faults

(* What the log says of a probe: each request of it went out and came back *)
(* well.                                                                   *)
Logged(w, p, k, ok) == \E e \in w : e.pos = p /\ e.call = k /\ e.status \in ok
Wanted(p) == IF Steps[p].row = "_residue_check" THEN {"200", "404"} ELSE {"200"}
WireSaysOk(w, p) == \A k \in 1..Len(Steps[p].calls) : Logged(w, p, k, Wanted(p))

(* A report says of each probe what the log of requests beside it says:    *)
(* OK just when every request of it is logged with a good answer,          *)
(* UNSUPPORTED when none was sent ("what the client put on the wire is     *)
(* recorded beside what came back", run_writes.py).                        *)
ReportMatchesWire ==
  report.new => \A p \in Positions :
    /\ report.rows[p] = "OK" => WireSaysOk(report.wire, p)
    /\ report.rows[p] = "FAILED" => ~WireSaysOk(report.wire, p)
    /\ report.rows[p] = "UNSUPPORTED" => \A e \in report.wire : e.pos # p

(* The rows a report lacks are the last ones, and unless the binary broke  *)
(* off they are lacking because the table could not be created.            *)
MissingOnlyAfterAbort ==
  report.new => \A p, q \in Positions :
    report.rows[p] = "MISSING" /\ p <= q =>
      report.rows[q] = "MISSING" /\ (died \/ report.rows[3] = "FAILED")

(* On a catalog that serves everything the run is green: no probe fails    *)
(* for what another left ("a red cell there is our bug", run_writes.py).   *)
ControlIsGreen ==
  report.new /\ ~died /\ Untroubled /\ catalog.refused = {} =>
    \A p \in Positions :
      report.rows[p] = IF Steps[p].calls = << >> THEN "UNSUPPORTED" ELSE "OK"

(* A run that ended by itself leaves nothing behind, whatever the catalog  *)
(* refuses but creating a table, renaming and dropping.                    *)
NothingLeft ==
  phase = "exited" /\ ~died /\ Untroubled
  /\ catalog.refused \cap {"createTable", "renameTable", "purgeTable",
                           "dropTable", "dropNested", "dropNamespace"} = {}
    => objs = {}

(* A run ends, though the catalog may never answer.                        *)
RunEnds == <>(phase = "over")
=============================================================================
