------------------------------ MODULE ClientRuns ----------------------------
(***************************************************************************)
(* The probe suite through two clients (iceberg-rust-client): run_rust.py  *)
(* drives a Rust binary, run_pyiceberg.py drives pyiceberg, both over the  *)
(* catalogs of one configuration.  Each writes a row for every probe,      *)
(* issued or not.  compare_clients.py joins the two with what the          *)
(* conformance harness ("paper 1") saw; gate_cost.py predicts from the     *)
(* harness's evidence alone what pyiceberg refuses to send.                *)
(***************************************************************************)
EXTENDS ProbeSuite

CONSTANTS
  CatalogOrder,            \* the enabled catalogs, as configured
  Auth(_),                 \* the kind of authentication of each
  Considered,              \* the probes of the suite that are followed
  Serves(_, _),            \* the endpoints a catalog answers, by version
  Declares(_, _),          \* the endpoints its /v1/config names; {}: none
  MaxRuns, MaxTroubles     \* bounds

Catalogs == {CatalogOrder[i] : i \in DOMAIN CatalogOrder}
Versions == 1..2

(* load_credentials asks about the table that was loaded. *)
ASSUME ClientAssumption ==
  /\ Considered \subseteq Probes
  /\ "load_credentials" \in Considered => "load_table" \in Considered
  /\ MaxRuns \in Nat /\ MaxTroubles \in Nat

-----------------------------------------------------------------------------
(***************************************************************************)
(* The two operation maps, and how each client authenticates.              *)
(***************************************************************************)
RUNNABLE == {"reachable", "implicit"}

rust_status(p) ==
  CASE p = "config" -> "implicit"
    [] p \in {"list_namespaces_paged", "load_table_snapshots_all"} -> "degraded"
    [] p = "update_namespace_props" -> "unsupported"
    [] p \in {"load_credentials", "list_views", "plan_table_scan", "report_metrics",
              "commit_transaction", "create_view", "load_view", "head_view",
              "replace_view", "rename_view", "drop_view"} -> "absent"
    [] OTHER -> "reachable"

py_status(p) ==
  CASE p = "config" -> "implicit"
    [] p \in {"report_metrics", "commit_transaction", "replace_view", "rename_view"} -> "absent"
    [] OTHER -> "reachable"

(* What pyiceberg does instead when the endpoint was not declared. *)
gate(p) ==
  CASE p = "config" \/ py_status(p) = "absent" \/ p \in {"create_view", "head_view"} -> "none"
    [] p \in {"head_namespace", "head_table"} -> "substitutes"
    [] p = "list_views" -> "silent-empty"
    [] OTHER -> "refuses"

Substitute(p) == IF p = "head_namespace" THEN "load_namespace" ELSE "load_table"

DEFAULT_ENDPOINTS ==
  {"list_namespaces", "load_namespace", "create_namespace", "update_namespace_props",
   "drop_namespace", "list_tables", "load_table", "create_table", "commit_table",
   "drop_table", "rename_table"}

(* Of a declaration without endpoints. *)
Effective(declared) == IF declared = {} THEN DEFAULT_ENDPOINTS ELSE declared

(* Mutant: the prediction takes a missing array for an empty one. *)
TakenLiterally(declared) == declared

(* gate_cost.py has the fallback of its own. *)
CostEffective(declared) == IF declared = {} THEN DEFAULT_ENDPOINTS ELSE declared

rust_auth_plan(kind) ==
  CASE kind \in {"none", "oauth2", "bearer_env", "snowflake_keypair"} -> "native"
    [] kind \in {"gcloud", "azure_cli"} -> "static"
    [] OTHER -> "absent"

py_auth_plan(kind) == IF kind = "sigv4" THEN "native" ELSE rust_auth_plan(kind)

(* Probes are issued in the order of the suite, catalogs in that of the    *)
(* configuration.                                                          *)
Place(order) == [x \in {order[i] : i \in DOMAIN order} |-> CHOOSE i \in DOMAIN order : order[i] = x]
PROBE_ORDER == Place(Suite)
CATALOG_ORDER == Place(CatalogOrder)
IsFirst(place, x, set) == \A y \in set : place[x] <= place[y]

ISSUED_BY_BINARY ==
  {"config", "list_namespaces", "list_namespaces_parent", "load_namespace",
   "head_namespace", "list_tables", "load_table", "head_table"}

ISSUED ==
  {"list_namespaces", "list_namespaces_paged", "list_namespaces_parent",
   "load_namespace", "head_namespace", "list_tables", "load_table",
   "load_table_snapshots_all", "head_table", "load_credentials", "list_views",
   "plan_table_scan"}

(* Probes steered by a property have a catalog object of their own. *)
VariantObjects == {"list_namespaces_paged", "load_table_snapshots_all"}

-----------------------------------------------------------------------------
(* A document is read when it is whole.  A file is truncated when it is    *)
(* opened, and holds the document only once that has been dumped.          *)
NoFile == [whole |-> FALSE, cut |-> FALSE]
Torn == [whole |-> FALSE, cut |-> TRUE]
File(document) == [whole |-> TRUE, cut |-> FALSE, holds |-> document]

VARIABLES
  version,                 \* of each catalog, now
  rust, py,                \* the drivers, or Off
  rustRun, rustFailed, pyRun, pyFailed,   \* evidence/: of a catalog and whether the
                                          \* delegation header was sent; of a catalog
  paper1,                  \* the harness's evidence
  runs, troubles

vars == <<version, rust, py, rustRun, rustFailed, pyRun, pyFailed,
          paper1, runs, troubles>>
rustFiles == <<rustRun, rustFailed>>
pyFiles == <<pyRun, pyFailed>>

Off == [pc |-> "off"]

Init ==
  /\ version = [c \in Catalogs |-> 1]
  /\ rust = Off /\ py = Off
  /\ rustRun = [label \in Catalogs \X BOOLEAN |-> NoFile] /\ rustFailed = rustRun
  /\ pyRun = [c \in Catalogs |-> NoFile] /\ pyFailed = pyRun /\ paper1 = pyRun
  /\ runs = 0 /\ troubles = 0

Trouble == troubles < MaxTroubles /\ troubles' = troubles + 1
NoTrouble == UNCHANGED troubles

With(rows, probes, row) ==
  [q \in DOMAIN rows \cup probes |-> IF q \in probes THEN row ELSE rows[q]]

Served(c, endpoint) == endpoint \in Serves(c, version[c])
Declared(c) == Declares(c, version[c])

(* The verdicts of a call whose request leaves for that endpoint.  A 404   *)
(* to a HEAD request is an answer: "it does not exist".                    *)
Outcomes(c, p, endpoint, answer) ==
  IF Served(c, endpoint) THEN {answer}
  ELSE {"FAILED"} \cup IF p \in HeadProbes THEN {answer} ELSE {}

-----------------------------------------------------------------------------
(***************************************************************************)
(* run_rust.py and the binary's read mode (src/main.rs).  A row is OK or   *)
(* FAILED as the binary prints it; asked are the requests that left.  The  *)
(* crate loads /v1/config, and a token where there is one, on first use:   *)
(* until then (~ready) a call may fail with nothing sent for the probe.    *)
(***************************************************************************)
Binary(c, delegation, left) ==
  [pc |-> IF rust_auth_plan(Auth(c)) = "absent" THEN "write" ELSE "probe",
   catalog |-> c, mode |-> rust_auth_plan(Auth(c)), delegation |-> delegation,
   todo |-> ISSUED_BY_BINARY \cap Considered, ready |-> FALSE, rows |-> << >>, exit |-> 0,
   asked |-> {}, left |-> left]

StartRust(set, delegation) ==
  /\ rust = Off /\ runs < MaxRuns
  /\ runs' = runs + 1
  /\ \E c \in set : IsFirst(CATALOG_ORDER, c, set) /\ rust' = Binary(c, delegation, set \ {c})
  /\ UNCHANGED <<version, py, rustFiles, pyFiles, paper1>> /\ NoTrouble

RustAt(pc) == rust # Off /\ rust.pc = pc

Printed(probes, verdict, asked) ==
  [rust EXCEPT !.rows = With(@, probes, verdict), !.asked = @ \cup asked,
               !.todo = @ \ probes, !.ready = @ \/ asked # {},
               !.pc = IF rust.todo \subseteq probes THEN "write" ELSE "probe"]

Loads == rust.ready \/ Served(rust.catalog, "config")

(* GET /v1/config is implicit: printed once the catalog is built.  Of the  *)
(* others the request leaves, and is answered or lost; or what it needs is *)
(* not loaded.                                                             *)
IssueRust ==
  /\ RustAt("probe")
  /\ \E p \in rust.todo : IsFirst(PROBE_ORDER, p, rust.todo) /\
     \/ /\ p = "config"
        /\ rust' = Printed({p}, "IMPLICIT", {}) /\ NoTrouble
     \/ /\ p # "config" /\ Loads /\ NoTrouble
        /\ \E verdict \in Outcomes(rust.catalog, p, Signature(p), "OK") : rust' = Printed({p}, verdict, {p})
     \/ /\ p # "config" /\ Loads /\ Trouble
        /\ rust' = Printed({p}, "FAILED", {p})
     \/ /\ p # "config" /\ ~rust.ready
        /\ rust' = Printed({p}, "FAILED", {})
        /\ IF Loads THEN Trouble ELSE NoTrouble
  /\ UNCHANGED <<version, py, rustFiles, pyFiles, paper1, runs>>

(* From here on nothing is answered: by the catalog, or of /v1/config and  *)
(* the token.  The binary prints a failure for each and exits with 0.      *)
Unanswered ==
  /\ RustAt("probe") /\ "config" \notin rust.todo /\ Trouble
  /\ \E asked \in {{}, rust.todo} :
       /\ IF asked = {} THEN ~rust.ready ELSE Loads
       /\ rust' = Printed(rust.todo, "FAILED", asked)
  /\ UNCHANGED <<version, py, rustFiles, pyFiles, paper1, runs>>

(* The catalog cannot be built, a panic, a kill: before or after the       *)
(* request that is on its way, or as the metadata file is read at the end. *)
BinaryDies ==
  /\ RustAt("probe") \/ (RustAt("write") /\ rust.mode # "absent" /\ rust.exit = 0)
  /\ Trouble
  /\ \E sent \in {{}} \cup {{p} : p \in rust.todo \ {"config"}} :
       /\ sent # {} => Loads
       /\ \A p \in sent : IsFirst(PROBE_ORDER, p, rust.todo)
       /\ rust' = [rust EXCEPT !.pc = "write", !.exit = 1, !.asked = @ \cup sent]
  /\ UNCHANGED <<version, py, rustFiles, pyFiles, paper1, runs>>

(* The binary did not end in 180 seconds, the evidence could not be        *)
(* redacted, a kill: the driver ends, whatever catalogs are left, and a    *)
(* file it was dumping stays as it is.                                     *)
DriverDies ==
  /\ rust # Off /\ Trouble /\ rust' = Off
  /\ UNCHANGED <<version, py, rustFiles, pyFiles, paper1, runs>>

(* Mutant: what has no row of an expressible probe is scored a failure. *)
FailedUnlessPrinted(p) ==
  CASE p \in DOMAIN rust.rows -> rust.rows[p]
    [] rust_status(p) \notin RUNNABLE /\ p \notin DOMAIN rust.rows -> "NOT-EXPRESSIBLE"
    [] OTHER -> "FAILED"

(* merge: one row per probe, issued or not. *)
RustVerdict(p) ==
  CASE p \in DOMAIN rust.rows -> rust.rows[p]
    [] rust_status(p) \notin RUNNABLE /\ p \notin DOMAIN rust.rows -> "NOT-EXPRESSIBLE"
    [] OTHER -> "NOT-ISSUED"

RustDocument ==
  [mode |-> rust.mode, exit |-> rust.exit, asked |-> rust.asked,
   verdict |-> [p \in Considered |-> RustVerdict(p)]]

(* Mutant: any run that printed something is taken for one. *)
NoRowAtAll(document) == document.exit # 0 /\ \A p \in Considered : document.verdict[p] = "NOT-ISSUED"

(* "Never overwrite good evidence with a failed run." *)
Parked(document) == document.exit # 0 /\ \A p \in Considered : document.verdict[p] # "OK"

NextCatalog ==
  \/ rust.left = {} /\ rust' = Off
  \/ \E c \in rust.left :
       IsFirst(CATALOG_ORDER, c, rust.left) /\ rust' = Binary(c, rust.delegation, rust.left \ {c})

ToFailed == Parked(RustDocument) /\ rust.mode # "absent"

(* The file the document goes to. *)
RustFile(content) ==
  LET Put(files) == [files EXCEPT ![<<rust.catalog, rust.delegation>>] = content]
  IN IF ToFailed THEN rustFailed' = Put(rustFailed) /\ UNCHANGED rustRun
                 ELSE rustRun' = Put(rustRun) /\ UNCHANGED rustFailed

(* open(out, "w"), and then json.dump. *)
OpenRust ==
  /\ RustAt("write") /\ RustFile(Torn) /\ rust' = [rust EXCEPT !.pc = "dump"]
  /\ UNCHANGED <<version, py, pyFiles, paper1, runs>> /\ NoTrouble

WriteRust ==
  /\ RustAt("dump") /\ RustFile(File(RustDocument)) /\ NextCatalog
  /\ UNCHANGED <<version, py, pyFiles, paper1, runs>> /\ NoTrouble

-----------------------------------------------------------------------------
(***************************************************************************)
(* run_pyiceberg.py: the catalog object reads /v1/config and gates every   *)
(* call on what that declared; two probes build an object of their own.    *)
(***************************************************************************)
PyStart(c, left) ==
  IF py_auth_plan(Auth(c)) = "absent"
  THEN [pc |-> "write", catalog |-> c, mode |-> "absent", hard |-> FALSE, declared |-> {},
        objects |-> {}, todo |-> {}, rows |-> << >>, asked |-> {}, versions |-> {}, left |-> left]
  ELSE [pc |-> "config", catalog |-> c, mode |-> py_auth_plan(Auth(c)), hard |-> FALSE,
        declared |-> {}, objects |-> {}, todo |-> ISSUED \cap Considered, rows |-> << >>, asked |-> {},
        versions |-> {}, left |-> left]

StartPy(set) ==
  /\ py = Off /\ runs < MaxRuns
  /\ runs' = runs + 1
  /\ \E c \in set : IsFirst(CATALOG_ORDER, c, set) /\ py' = PyStart(c, set \ {c})
  /\ UNCHANGED <<version, rust, rustFiles, pyFiles, paper1>> /\ NoTrouble

PyAt(pc) == py # Off /\ py.pc = pc
Seen == py.versions \cup {version[py.catalog]}

Construct ==
  /\ PyAt("config") /\ Served(py.catalog, "config")
  /\ LET declared == Effective(Declared(py.catalog))
     IN py' = [py EXCEPT !.declared = declared, !.objects = {declared}, !.pc = "probe",
                         !.versions = Seen]
  /\ UNCHANGED <<version, rust, rustFiles, pyFiles, paper1, runs>> /\ NoTrouble

(* /v1/config is not answered: for the first object, or a later one.       *)
PyFails ==
  /\ \/ PyAt("config")
     \/ PyAt("probe") /\ \E p \in py.todo \cap VariantObjects : IsFirst(PROBE_ORDER, p, py.todo)
  /\ IF Served(py.catalog, "config") THEN Trouble ELSE NoTrouble
  /\ py' = [py EXCEPT !.hard = TRUE, !.pc = "write"]
  /\ UNCHANGED <<version, rust, rustFiles, pyFiles, paper1, runs>>

Row(verdict, p) ==
  [verdict |-> verdict, declared |-> Signature(p) \in py.declared]

Recorded(p, verdict, asked, objects) ==
  [py EXCEPT !.rows = With(@, {p}, Row(verdict, p)), !.todo = @ \ {p},
             !.asked = @ \cup asked, !.objects = @ \cup objects, !.versions = Seen,
             !.pc = IF py.todo = {p} THEN "write" ELSE "probe"]

(* Mutant: an answer counts for the probe, whichever request gave it. *)
AnswerCounts(p) == "OK"

(* An answer where the gate was closed came from somewhere else.           *)
OnAnswer(p) ==
  IF gate(p) # "none" /\ Signature(p) \notin py.declared THEN "SUBSTITUTED" ELSE "OK"

(* What a call does: the verdicts it may have, whether a request leaves,   *)
(* and whether that is the probe's own.  A substitute that finds nothing   *)
(* answers as a HEAD does.                                                 *)
Call(p, declared) ==
  LET open == Signature(p) \in declared \/ gate(p) = "none"
      Asking(endpoint, own) ==
        [verdicts |-> Outcomes(py.catalog, p, endpoint, OnAnswer(p)), sends |-> TRUE, asked |-> own]
      Silent(verdict) == [verdicts |-> {verdict}, sends |-> FALSE, asked |-> {}]
      NothingToAsk == p = "load_credentials" /\ py.rows["load_table"].verdict # "OK"
  IN CASE NothingToAsk -> Silent("FAILED")
       [] ~NothingToAsk /\ open -> Asking(Signature(p), {p})
       [] ~NothingToAsk /\ ~open /\ gate(p) = "silent-empty" -> Silent(OnAnswer(p))
       [] ~NothingToAsk /\ ~open /\ gate(p) = "substitutes" /\ Substitute(p) \in declared
            -> Asking(Substitute(p), {})
       [] OTHER -> Silent("GATED")

IssuePy ==
  /\ PyAt("probe")
  /\ \E p \in py.todo : IsFirst(PROBE_ORDER, p, py.todo) /\
     LET declared == IF p \in VariantObjects THEN Effective(Declared(py.catalog)) ELSE py.declared
         call == Call(p, declared)
     IN /\ p \in VariantObjects => Served(py.catalog, "config")
        /\ \/ \E verdict \in call.verdicts :
                py' = Recorded(p, verdict, call.asked, {declared}) /\ NoTrouble
           \/ call.sends /\ py' = Recorded(p, "FAILED", call.asked, {declared}) /\ Trouble
  /\ UNCHANGED <<version, rust, rustFiles, pyFiles, paper1, runs>>

PyVerdict(p) ==
  CASE p = "config" -> [verdict |-> "IMPLICIT", declared |-> FALSE]
    [] p \in DOMAIN py.rows -> py.rows[p]
    [] p # "config" /\ py_status(p) \notin RUNNABLE -> [verdict |-> "NOT-EXPRESSIBLE", declared |-> FALSE]
    [] OTHER -> [verdict |-> "NOT-ISSUED", declared |-> FALSE]

PyDocument ==
  [mode |-> py.mode, asked |-> py.asked, objects |-> py.objects, versions |-> py.versions,
   row |-> [p \in Considered |-> PyVerdict(p)]]

PyFile(content) ==
  LET Put(files) == [files EXCEPT ![py.catalog] = content]
  IN IF py.hard THEN pyFailed' = Put(pyFailed) /\ UNCHANGED pyRun
                ELSE pyRun' = Put(pyRun) /\ UNCHANGED pyFailed

OpenPy ==
  /\ PyAt("write") /\ PyFile(Torn) /\ py' = [py EXCEPT !.pc = "dump"]
  /\ UNCHANGED <<version, rust, rustFiles, paper1, runs>> /\ NoTrouble

WritePy ==
  /\ PyAt("dump") /\ PyFile(File(PyDocument))
  /\ \/ py.left = {} /\ py' = Off
     \/ \E c \in py.left : IsFirst(CATALOG_ORDER, c, py.left) /\ py' = PyStart(c, py.left \ {c})
  /\ UNCHANGED <<version, rust, rustFiles, paper1, runs>> /\ NoTrouble

(* A kill, or evidence that could not be redacted. *)
PyDies ==
  /\ py # Off /\ Trouble /\ py' = Off
  /\ UNCHANGED <<version, rust, rustFiles, pyFiles, paper1, runs>>

-----------------------------------------------------------------------------
(***************************************************************************)
(* The harness asks whatever was declared (CatalogRun has it in detail);   *)
(* one answer may be lost, and with /v1/config's the prefix of every later *)
(* path, where the catalog uses one.  A catalog may change.                *)
(***************************************************************************)
Saw(c, tier, lost, prefixed) ==
  [version |-> version[c], lost |-> lost,
   declared |-> IF "config" \in lost THEN {} ELSE Declared(c),
   works |-> {p \in (tier \cap Considered) \ lost :
                Served(c, Signature(p)) /\ ~(prefixed /\ "config" \in lost)},
   asked |-> tier \cap Considered]

RunHarness(c) ==
  /\ runs < MaxRuns /\ runs' = runs + 1
  /\ \E tier \in {Probes, Probes \ WriteProbes}, lost \in {{}} \cup {{p} : p \in Considered},
        prefixed \in BOOLEAN :
       /\ IF lost = {} THEN NoTrouble ELSE Trouble
       /\ paper1' = [paper1 EXCEPT ![c] = File(Saw(c, tier, lost, prefixed))]
  /\ UNCHANGED <<version, rust, py, rustFiles, pyFiles>>

ChangeCatalog(c) ==
  /\ version[c] + 1 \in Versions /\ Trouble
  /\ version' = [version EXCEPT ![c] = @ + 1]
  /\ UNCHANGED <<rust, py, rustFiles, pyFiles, paper1, runs>>

Next ==
  \/ \E set \in SUBSET Catalogs, delegation \in BOOLEAN : StartRust(set, delegation)
  \/ IssueRust \/ Unanswered \/ BinaryDies \/ DriverDies
  \/ OpenRust \/ WriteRust
  \/ \E set \in SUBSET Catalogs : StartPy(set)
  \/ Construct \/ PyFails \/ IssuePy \/ OpenPy \/ WritePy \/ PyDies
  \/ \E c \in Catalogs : RunHarness(c) \/ ChangeCatalog(c)

Spec == Init /\ [][Next]_vars

-----------------------------------------------------------------------------
(***************************************************************************)
(* What compare_clients.py and gate_cost.py print of the files there are.  *)
(***************************************************************************)
(* A file that is cut short is read like the others, and ends the program. *)
Readable == (\A label \in DOMAIN rustRun : ~rustRun[label].cut) /\ \A c \in Catalogs : ~pyRun[c].cut

both == {c \in Catalogs : Readable /\ rustRun[<<c, FALSE>>].whole /\ pyRun[c].whole}

gated(c) == {p \in Considered : pyRun[c].holds.row[p].verdict \in {"GATED", "SUBSTITUTED"}}

(* Mutant: what the harness saw is left out. *)
Undeclared(c, p) == ~pyRun[c].holds.row[p].declared

(* "The endpoint answers; this client will not ask", or else "Client and   *)
(* catalog agree; the gate cost nothing."                                  *)
WillNotAsk(c, p) == p \in paper1[c].holds.works /\ ~pyRun[c].holds.row[p].declared

(* Working endpoints, by what the client would do. *)
Predicted(c, p) ==
  LET effective == CostEffective(paper1[c].holds.declared) IN
  CASE Signature(p) \in effective \/ gate(p) = "none"              -> {"OK"}
    [] Signature(p) \notin effective /\ gate(p) = "refuses"      -> {"GATED"}
    [] Signature(p) \notin effective /\ gate(p) = "silent-empty" -> {"SUBSTITUTED"}
    [] Signature(p) \notin effective /\ gate(p) = "substitutes"  -> {"SUBSTITUTED"}

cost(c) == [p \in paper1[c].holds.works \ Variants |-> Predicted(c, p)]

-----------------------------------------------------------------------------
(***************************************************************************)
(* Properties.                                                             *)
(***************************************************************************)
TypeOK ==
  /\ version \in [Catalogs -> Versions]
  /\ rust # Off => rust.catalog \in Catalogs /\ DOMAIN rust.rows \subseteq ISSUED_BY_BINARY
  /\ py # Off => py.catalog \in Catalogs /\ DOMAIN py.rows \subseteq ISSUED
  /\ runs \in 0..MaxRuns /\ troubles \in 0..MaxTroubles

(* What a row says of a probe is what happened to its request: an answer   *)
(* was given to that request, and "deliberately not sent" (run_rust.py:254)*)
(* is said of a probe the client issues only in a file that records why    *)
(* the client stopped.  A failure without a request is one of /v1/config   *)
(* or the token: every request of the run that left is of a later probe    *)
(* (main.rs:311).  Of pyiceberg, a call may fail without asking: when a    *)
(* substitute fails, when there is no table to ask about; and an object    *)
(* built later may have read another declaration.                          *)
RustRows(d) ==
  \A p \in Considered :
    /\ d.verdict[p] = "OK" => p \in d.asked
    /\ d.verdict[p] = "FAILED" =>
         p \in d.asked \/ \A q \in d.asked : PROBE_ORDER[p] < PROBE_ORDER[q]
    /\ d.verdict[p] = "NOT-ISSUED" /\ p \in ISSUED_BY_BINARY => d.exit # 0 \/ d.mode = "absent"
    /\ p \in d.asked => d.verdict[p] \in {"OK", "FAILED"} \/ d.exit # 0

PyRows(d) ==
  \A p \in Considered :
    /\ d.row[p].verdict = "OK" => p \in d.asked
    /\ d.row[p].verdict \in {"GATED", "SUBSTITUTED"} =>
         p \notin d.asked \/ \E o, q \in d.objects : o # q
    /\ d.row[p].verdict = "FAILED" =>
         \/ p \in d.asked
         \/ gate(p) = "substitutes" /\ ~d.row[p].declared
         \/ p = "load_credentials" /\ d.row["load_table"].verdict # "OK"

RowsSayWhatWasSent ==
  /\ \A label \in Catalogs \X BOOLEAN :
       /\ rustRun[label].whole => RustRows(rustRun[label].holds)
       /\ rustFailed[label].whole => RustRows(rustFailed[label].holds)
  /\ \A c \in Catalogs :
       /\ pyRun[c].whole => PyRows(pyRun[c].holds)
       /\ pyFailed[c].whole => PyRows(pyFailed[c].holds)

(* What stands under the name the comparison reads, where it is not cut    *)
(* short, comes of a run that came through: of the binary, one that got an *)
(* answer, or printed a row for all that it issues and exited with 0       *)
(* (run_rust.py:394); of pyiceberg, one that read /v1/config and issued    *)
(* every call (run_pyiceberg.py:364).                                      *)
PlainEvidenceIsARun ==
  /\ \A label \in Catalogs \X BOOLEAN :
       LET d == rustRun[label].holds IN
       rustRun[label].whole /\ d.mode # "absent" =>
         \/ \E p \in Considered : d.verdict[p] = "OK"
         \/ d.exit = 0 /\ \A p \in ISSUED_BY_BINARY \cap Considered : d.verdict[p] # "NOT-ISSUED"
  /\ \A c \in Catalogs :
       LET d == pyRun[c].holds IN
       pyRun[c].whole /\ d.mode # "absent" =>
         d.objects # {} /\ \A p \in ISSUED \cap Considered : d.row[p].verdict # "NOT-ISSUED"

(* "Never overwrite good evidence with a failed run" (run_rust.py:393):    *)
(* evidence with an answer in it is opened for writing only by a run that  *)
(* has an answer too.  The guard looks at the exit code before it looks at *)
(* the rows, and a binary that was answered nothing exits with 0.          *)
GoodEvidenceIsKept ==
  [][\A label \in Catalogs \X BOOLEAN :
       /\ rustRun[label].whole /\ (\E p \in Considered : rustRun[label].holds.verdict[p] = "OK")
       /\ rustRun'[label] = Torn
       => \E p \in Considered : RustDocument.verdict[p] = "OK"]_vars

(* The harness and pyiceberg met the same catalog, and nothing was lost.   *)
Comparable(c) ==
  /\ paper1[c].whole /\ pyRun[c].whole
  /\ pyRun[c].holds.versions = {paper1[c].holds.version} /\ paper1[c].holds.lost = {}

(* What the comparison says of a closed gate is true of the catalog: where *)
(* it says the endpoint answers, it does, and was not asked; where it says *)
(* the gate cost nothing, the endpoint does not answer, unless the harness *)
(* never asked.                                                            *)
AgreementIsReal ==
  \A c \in both : Comparable(c) =>
    \A p \in gated(c) :
      LET answers == Signature(p) \in Serves(c, paper1[c].holds.version) IN
      IF WillNotAsk(c, p) THEN answers /\ p \notin pyRun[c].holds.asked
                          ELSE answers => p \notin paper1[c].holds.asked

(* gate_cost.py: "every row for them is a prediction that a vendor run can *)
(* falsify" (line 241).  A working endpoint predicted sent, blocked or     *)
(* substituted is so in pyiceberg's own run, except where the substitute   *)
(* is not declared either: it is then refused, and not substituted.        *)
GateCostForetold ==
  \A c \in Catalogs : Comparable(c) /\ pyRun[c].holds.mode # "absent" =>
    \A p \in DOMAIN cost(c) \cap ISSUED :
      LET verdict == pyRun[c].holds.row[p].verdict
      IN \/ verdict \in cost(c)[p]
         \/ verdict = "FAILED" /\ cost(c)[p] # {"GATED"}
         \/ /\ verdict = "GATED" /\ gate(p) = "substitutes"
            /\ Substitute(p) \notin Effective(paper1[c].holds.declared)
         \/ p = "load_credentials" /\ pyRun[c].holds.row["load_table"].verdict # "OK"
=============================================================================
