# Verification of the lakehouse / Iceberg measurement harness

This directory holds TLA+ models of the programs in this repository that
measure Iceberg REST catalogs and the agents, hosts and clients that use them,
the TLC configurations that check them on small instances, and theorems about
them that TLAPS checks for every value of the constants.

The repository is a set of papers' instruments. What they get wrong does not
crash: it becomes a wrong cell in a published table. The properties here are
therefore mostly about *attribution*: a failure of the network, of the suite's
own order, of a kill or of an earlier pass must not be recorded as a property
of the vendor, and what is recorded must have happened.

## 1. The system

Paths are relative to `src/`.

### A. `iceberg-conformance/`: the probe suite

| part | state | operations |
| --- | --- | --- |
| `probe/spec.py` | none: 14 read and 19 write probes in a fixed order, with prerequisites (`depends_on`) and shared endpoints (`variant_of`) | `signature`, `classify`, `looks_like_error_body`, `route_is_missing`, `reconcile` |
| `probe/runner.py` `CatalogRun` | `ctx` (prefix, scratch names, table uuid), `declared`, `results`; on disk `evidence.json` and `evidence.failed.json` | `resolve_prefix`, `run`, `_send`, `_mark_indeterminate`, `_reconcile`, `_write_evidence` |
| `run.py` | none | one pass per catalog, then the report; an exception of one catalog is caught |
| `probe/auth.py` | a cached token and its expiry, per catalog | `token`, `apply` |
| `probe/report.py` | none | loads every `evidence.json`, renders the matrix |
| `seed_table.py`, `dbx_sql.py`, `polaris-up.sh`, `anonymize_evidence.py` | none | one-shot |

The runner sends the probes strictly in order to a catalog it does not own.
What is hard: every write probe is also the fixture of later ones; a request
may be applied and its answer lost; a token may expire in the middle; the
process may be killed with objects left on a vendor's catalog; the evidence
file of a good pass is in the way of a bad one.

Correct means: names follow renames; the suite removes what it made; no
endpoint is credited that is not served; none is blamed for a prerequisite;
routes the catalog lacks are not hidden; a pass that measured nothing replaces
nothing; every pass ends.

### B. `iceberg-agent/`: agents on three clouds

`iceberg_tool.py` (the tools, the per-answer budget of catalog calls in a
context variable, a catalog client built once per process), `gcp/`, `aws/`,
`azure/agent.py` (the same agent on three frameworks), `run_once.py` (one
question, optionally after a warm-up turn), `run_mcp.py`, `run_matrix.py`
(rounds x questions x legs, captures and a result file), `publish_evidence.py`,
`capture_*.py`, `compare_transport.py`, `failure_modes.py`, `common.py`.

What is hard: frameworks run tool calls in tasks with copied contexts, several
at a time; the same process serves a warm-up and a timed turn; a client built
once holds a token that expires; rounds overwrite captures.

Correct means: no answer exceeds its budget, none is refused before it, and
the reported count is the true one.

### C. `iceberg-mcp-hosts/`: MCP servers under CLI hosts

`servers/iceberg_mcp.py` (a stdio JSON-RPC server around B's tools),
`mcp_trace.py` (a two-threaded relay that writes down every frame),
`hosts.py` (registers a server in a host; two of the three hosts keep that in
global state), `run_matrix.py` (cells, captures, traces, resumption),
`sweep_catalogs.py` (an MCP client without a host), `publish_evidence.py`,
`replay_check.py`, `rescore.py`, `ground_truth.py`, `seed_large.py`.

What is hard: a crash between registering and removing a server; a host that is
killed on a time-out while its proxy and server go on; frames relayed before
they are logged; an answer that never comes.

Correct means: during a cell the host sees exactly that cell's server, a cell's
trace is its own, and no answer is scored without the calls it rests on.

### D. `iceberg-rust-client/`: the Rust client beside the Python one

`src/main.rs` (one process, read probes or the write sequence),
`wire_proxy.py`, `run_writes.py`, `run_rust.py`, `run_pyiceberg.py`,
`compare_clients.py`, `bench.py`, `bench_worker.py`, `redact.py` and derived
tables (`operation_map.py`, `make_surface.py`, `gate_cost.py`,
`vendor_report.py`).

What is hard: each write builds on the last; a failure in the middle decides
what is left behind and what the rest of the rows mean; a failed run must not
replace a good one.

### How the parts meet

A writes the evidence that its report, D's comparison and the papers read. B's
tools use A's `auth.py` and configuration. C's server wraps B's tools, and so
inherits the budget without the wrapper that resets it. D's `run_writes.py`
uses A's configuration. There are no locks and no database: what the parts
share is files, the configuration, and the catalogs.

## 2. The modules

| module | models | state |
| --- | --- | --- |
| `ProbeSuite` | `spec.py`: order, signatures, prerequisites, classification | none |
| `ScratchCatalog` | the catalog server, as far as the write tier reaches it (external) | none (pure operators over a scratch namespace) |
| `CatalogRun` | `CatalogRun` of `runner.py`, composed with the catalog, the network and the operator | see below |
| `CatalogRunProofs` | theorems about `CatalogRun` | |
| `CallAllowance` | what the budget promises, abstractly | `through`, `refused` |
| `ToolBudget` | `_Budget` and its context variable, driven by `run_once.py` or by `iceberg_mcp.py` | see below |
| `ToolBudgetProofs` | theorems about `ToolBudget` | |
| `FramePipe` | one direction of a stdio connection, abstractly | `queue`, `received` |
| `McpTrace` | `mcp_trace.py` between a CLI host (external) and the loop of `iceberg_mcp.py` | see below |
| `McpTraceProofs` | theorems about `McpTrace` | |
| `RustWrites` | `run_writes.py` around the binary's write mode (`main.rs`) and `wire_proxy.py`; the catalog is external | see below |
| `RustWritesProofs` | theorems about `RustWrites` | |
| `AnswerScore` | `score` and its relatives of `iceberg-mcp-hosts/run_matrix.py`, the planted answers of its self-test | none (texts are sets of lines of tokens) |
| `HostMatrix` | `run_matrix.py`, `hosts.py`, `ground_truth.py`, `rescore.py`, `replay_check.py` of the host matrix; the hosts and the table are external | see below |
| `HostMatrixProofs` | theorems about `HostMatrix` | |
| `AgentScore` | the two scorers of `iceberg-agent/run_matrix.py` and the self-test of its publisher | none |
| `Pseudonyms` | `anonymize_evidence.py` as the publishers call it | none |
| `AgentMatrix` | `run_matrix.py`, `capture_ground_truth.py`, `capture_runs.py`, archiving by hand and `publish_evidence.py` of the agent matrix | see below |
| `AgentMatrixProofs` | theorems about `AgentMatrix` | |
| `ClientRuns` | `run_rust.py` with the binary's read mode, `run_pyiceberg.py`, the gate section of `compare_clients.py`, `gate_cost.py` | see below |
| `ClientRunsProofs` | theorems about `ClientRuns` | |
| `FiniteInduction` | induction over the naturals, stated with a set so that the provers can use it | none |
| `MCCatalogRun`, `MCToolBudget`, `MCMcpTrace`, `MCRustWrites`, `MCHostMatrix`, `MCAgentMatrix`, `MCClientRuns` | instances for TLC | |

`CatalogRun`, `RustWrites` and `ClientRuns` share `ProbeSuite` or the catalog's
behaviour as the code shares `spec.py`; `HostMatrix` is built on `AnswerScore`,
`AgentMatrix` on `AgentScore` and `Pseudonyms`.

### CatalogRun

| variable | code |
| --- | --- |
| `route` | what the catalog serves: per probe, success or the refusal it gives |
| `scratch`, `dark` | the scratch namespace on the catalog; an outage during the pass |
| `phase`, `pos` | where the pass is; the next probe of the suite |
| `allow`, `ctx`, `declared` | `--allow-writes`, `self.ctx`, `self.declared` |
| `verdict`, `missing` | per record: its verdict; whether its reply proves the route missing |
| `judged` | per record: `reconciled` |
| `evidence`, `parked` | `evidence.json`, `evidence.failed.json`: absent, torn (opened, not filled) or whole, and of which pass |
| `answered`, `trouble` | history: did a reply come back in this pass, what went wrong in it |

`SendAnswered`, `SendRejected`, `SendUnsent` and `SendLost` are the four things
that can become of one call of `_send` plus what the loop learns from its
record; `SkipWrites`, `Judge`, `OpenEvidence` and `DumpEvidence` are the rest of
`run`, with the file's truncation and its filling as two steps because a kill
fits between them. `Crash` is a kill, or an exception `run.py` catches;
`StartRun` is the next pass.

A reply is its status and what the harness's regular expressions find in its
body. The request bodies, the 30 rows of the field tier, the seed profile, the
redaction and the fingerprint are left out: nothing the properties speak of
depends on them.

### ToolBudget

`used[b]` is the field of the b-th `_Budget` object; `main`, `loop` and `task[c]`
are what the context variable is bound to in the main context, in the context
of the turn's event loop, and in that of each open call. Copying a context
copies the reference. `reset_budget` and the `LookupError` branch of `_budget`
(`ChargeFresh`) make objects. The tools are coroutines that never await, so a
call is one step; calls of one turn may be open together in any order.
`Wrapped = FALSE` is the MCP server: an event loop per call and no reset.

### McpTrace

| variable | code |
| --- | --- |
| `in`, `out` | per direction (`up` to the server, `down` to the host): the pipe into the proxy and the one out of it |
| `pump` | per direction: its thread is in `readline`, about to write, about to log, returned (`closed`), or ended by an exception (`dead`) |
| `hand`, `note` | `raw` before it is written; the frame passed on and not yet in the file |
| `log` | the trace file, a direction's records apart (the lock makes a record one step) |
| `main` | `child.wait`, `down.join`, the exit record, gone |
| `host`, `server`, `reply` | the two ends (the server also hung in a call); the id the server is about to answer |
| `sent`, `taken`, `written`, `got` | history: what the ends wrote and read |
| `calm` | history: nobody was killed, the join did not time out |

A frame is its kind and id. `PumpRead`, `PumpRelay`, `PumpLog` are one turn of
`pump`'s loop, cut where another thread or a death fits in; `PumpEnd` is the end
of file with `dst.close()`, `PumpBreaks` the BrokenPipeError nothing catches.
`MainJoin` may take place before the down thread has ended: that is the
time-out, and it clears `calm`. `CatalogSilent` leaves the server in a call: the
tools' catalog client has no time-out. What a record says of a frame is left out.

### RustWrites

| variable | code |
| --- | --- |
| `catalog`, `objs`, `faults` | which endpoints the catalog refuses and how; the objects under the scratch name; requests that may still be lost |
| `phase`, `meta`, `died` | where `run_writes.py` is; the binary's `_meta` row; its exit code |
| `pos`, `call`, `stage`, `answer` | the probe of `writes()`, the request of it, and where that request is between binary, proxy and catalog |
| `rows` | the rows printed; the binary's stdout is line-buffered, so rows survive its death |
| `wire`, `report` | the proxy's `log`; `rust-write-surface.txt`, as it was or of this run |

`Steps` is the sequence of `writes()`: eighteen probes with the requests each
makes. A commit is two requests, a GET of the table and a POST, as the log of the
recorded run shows; the stub `update_namespace` makes none; the two rows of the
schema commit come from one request and are one probe here. `NextCall`,
`RecordOk` and `RecordError` are what the binary does with an answer, and
`RecordError` carries the early return after `create_table`. The request is cut
where a fault fits in: the catalog acts and answers (`CatalogAnswers`), the proxy
logs and passes on (`ProxyLogs`), it cannot reach the catalog and says 599
(`Unreachable`), or the connection breaks before the answer is complete, which its
handler does not catch (`AnswerLost`). The configuration request, the data of the
commits and a kill of the driver itself are left out.

### HostMatrix

| variable | code |
| --- | --- |
| `table`, `truth` | the version of the table now, and the one `ground_truth.py` captured |
| `registered` | per host that keeps servers in global state: the servers in its configuration |
| `driver` | `run_matrix.py`: round, cells left, the cell in hand, the rows so far |
| `capture`, `trace`, `result` | the files: a capture and a trace per label, a result file per configuration (torn between opening and dump) |
| `rescorer` | `rescore.py` between opening the rows file and having dumped it |
| `pending`, `orphans` | frames a proxy has yet to write; hosts that outlived a killed driver |
| `replayed` | what `replay_check.py` last reported |
| `history` | calls really made, and the labels and hosts the properties except |

A label is host, server and repetition, as in the file names: it names neither the
run nor the axis, so two configurations that share a cell write the same files.
`Prepare`, `Ask`, `HostCalls`, `Answers`, `Score`, `Cleanup` are `one_cell`;
`Interrupt` is an exception or Control-C with its `finally`, `Kill` a kill without
it. A time-out is an answer with nothing in it, of which the capture holds
"(no output)" and the error, and that is what `read_capture` gives back. `Rescore`
truncates the rows file, `DumpRescored` fills it, `KillRescore` fits between. `Replay`
asks the row's own server variant for every call of the label, and a tool that
variant does not offer returns nothing (`Replies`). The capture of a cell is written
in one step: a kill while it is being written is left out; and a call is its tool, as
the arguments of a scan (its columns and filter) are left out. One question (the row count) and
one table are modelled: the only question whose answer the two server variants can
give in different ways.

An answer is a set of lines of tokens; `AnswerScore` has what each regular
expression tells apart (a number beside its noun, a decimal, a date, a spelled
number, a phrase), and `self_test` is run on the planted answers before a run
starts, so a scorer that fails them stops the model as it stops the code.

### AgentMatrix

| variable | code |
| --- | --- |
| `table`, `truth`, `singles` | the version of the tables now, in `ground-truth.txt`, and in the single runs |
| `scorer` | the version of the scorer in `run_matrix.py` |
| `driver` | `run_matrix.py`: the axis, cells left in the round, rows so far |
| `capture`, `result`, `archive`, `listed` | the raw files, those moved to an archive by hand, and the lists that name its directory |
| `publisher`, `dest` | `publish_evidence.py` between its steps; the published directory |
| `history` | whether `dest` was cut short, axes it left out, all it has ever shown |

`ReadAxis` reads one axis at a time, `Check` does everything that may refuse
(regrading, the archives', summaries, identifiers), `Clear` empties the published
captures and `Write` writes one file: a kill fits between any two. `Archive` moves any
axes that were run, and its directory is named in `SUPERSEDED`, in `SUPERSEDED_D`, in
both or in neither; `superseded` and `superseded_d` are the axes that each function
reads of it. A driver that is killed may leave a capture cut short. A run prints a
header, or dies without one; what it printed is a sequence of the statements that
the scorers tell apart, and a set of identifiers with their parts.

### ClientRuns

| variable | code |
| --- | --- |
| `version` | per catalog: what it serves and declares may change once |
| `rust`, `py` | the drivers: catalogs left, probes left, rows, what was really asked |
| `rustRun`, `rustFailed` | `<catalog>.json` and `.failed.json`, with or without the delegation header: absent, cut short or whole |
| `pyRun`, `pyFailed`, `paper1` | the same of `run_pyiceberg.py`; the harness's evidence |

`rust_status`, `py_status` and `gate` are the two operation maps, `Call` is what
pyiceberg does for a probe given what the catalog declared: ask, refuse, answer
from a substitute, or return nothing silently. Two probes build a catalog object
of their own and so may read another declaration than the rest.

The Rust crate loads `/v1/config` and the token on first use (`ready`): until it has, a
call may fail without a request for its probe (`IssueRust`, `Unanswered`). A 404 to a
HEAD request is an answer and recorded OK by both clients (`Outcomes`). Either driver
opens its file, which truncates it, and then dumps (`OpenRust`, `WriteRust`, `OpenPy`,
`WritePy`); a kill between leaves it torn, and a torn file under the plain name ends
`compare_clients.py` (`Readable`); a torn `.failed.json` nobody reads. The harness's
evidence is written in one step here: `CatalogRun` has that file in detail.

## 3. The runs

| run | question | bounds |
| --- | --- | --- |
| `pass_faults` | does the suite distort its own result, and do faults, kills and reruns? | one write pass without faults on some 4,090 catalogs: each subset of nine groups of endpoints refused, in four styles, with and without refused variants (endpoints on which others depend vary one by one; those nothing depends on can vary together because they share no state; the action constraint `Calm` keeps these catalogs to that one pass). Besides, on two catalogs, two passes, read-only or writing, with an outage or one rejected, unsent or lost request, at every position; a reused scratch namespace. Two passes are the fewest in which one meets what another left. |
| `budget_wrapped` | does the wrapper keep the budget? | two answers, with or without warm-up, three calls open at once, four asked for, limit 2: one below, at and above the limit in each turn |
| `trace_relay` | is the proxy invisible, its trace exact, and does it leave? | three frames of three kinds, start-up noise, pipes of one frame (so that every writer blocks), deaths of host and server anywhere, a catalog that falls silent under a call, and the join's time-out |
| `rust_writes` | is the Rust client's report what the wire shows, and does the run clean up? | every catalog that refuses up to two of sixteen endpoints, or one with a request lost at any position; the binary dying anywhere, the time-out anywhere. Two refusals are enough for one probe to fail by itself and one for what it left. |
| `host_matrix` | does a row of the host matrix rest on its own answer, its own server and its own calls? | two hosts, one of which keeps servers in global state; both server variants; three configurations, two of which share a cell; two runs, one round, one call per question; one thing going wrong anywhere (a kill of the matrix or of a rescore, an interrupt, a time-out, a removal that fails, a late write, a table that moves). Two runs are the fewest in which one writes over the other's label. |
| `agent_matrix` | is what is published what was measured? | two mandatory axes and a scan axis, one leg on two catalogs, one run of a cell; three runs and two publications, so that a run can be archived, made again and published over; one trouble (a wrong, a dead or an aborted run, a regrade by an older scorer, a moved table, a killed publication). And without trouble, with one time and one program at a time: four runs, and an archive of any axes named in either list, in both or in neither. Four runs publish the mandatory axes, archive them, and run both again. |
| `client_runs` | do the two clients' rows say what was sent, and do comparison and prediction hold? | two catalogs, one that declares less than it answers and then other endpoints, one that declares nothing and whose authentication the Rust client lacks; ten probes, at least one of each status and gate; three runs of drivers and harness in any order and interleaving; one trouble. Three are one of each, for the comparison. |
| `dead_writes`, `undroppable`, `budget_server`, `trace_scalar`, `client_overwrite` | the five disagreements below | one pass, one answer, one request, or two runs |

`CHECK_DEADLOCK FALSE`: the programs end.

`agent_matrix` has four action constraints. `FirstTakesOne` gives the first run
of a label the time 1: times are only compared under one label, so which of two
times comes first does not matter. `Calm` lets table, truth and scorer move only
while no publication is under way and not between a run and its dump: the
publisher reads the truth first and both programs read nothing else of these
afterwards, so a later move is the same as a move after they end. `Prompt`
starts a publication when axis A, which it reads first, can be read, and lets it
read that before a driver goes on: a start before that waits, or comes to
nothing. `FewOrSmooth` joins the two instances of the table: either three runs
and at most an archive of single axes other than B under `SUPERSEDED_D`, or no
trouble, one time and one program at a time.

**Properties.** `NothingLeftBehind`: after an untroubled write pass the scratch
namespace is gone. `NoFalseFailure`: no served endpoint is judged to fail.
`MissingRouteScored`: no missing route hides behind INDETERMINATE.
`NamesTracked`: the cleanup probes address what exists. `NoFalseCredit`: no
endpoint is credited that no probe reached. `DeadReadPassKeepsEvidence`: a
read-only pass without a reply leaves the file alone. `PassEnds`: a pass ends.
`HeaderCountsCalls`: the count in the header is the calls made for this answer.
`BudgetKept`: the budget implements `CallAllowance`. `TraceIsExact`: the log is
the frames passed on, once and in order, but for the one being written down.
`ClosedTraceIsWhole`: when nobody was killed, nothing is missing from a trace
whose proxy has left. `NeitherNotices`: each direction implements `FramePipe`.
`Answered`: a request is answered to the host unless something died or the catalog
fell silent under a call. `ProxyEnds`: a proxy whose host or server has gone does not
stay behind, but in two states that keep the server itself from ending.
`ReportMatchesWire`: a row is OK just when every request of its probe is logged
with a good answer, and UNSUPPORTED only when there was none.
`MissingOnlyAfterAbort`: the rows a report lacks are its last ones, and unless the
binary broke off, `create_table` failed. `ControlIsGreen`: on a catalog that
serves everything no probe fails. `NothingLeft`: a run that ended by itself leaves
nothing behind, whatever of the other endpoints is refused. `RunEnds`: a run
ends though the catalog may never answer.

Of the host matrix: `OnlyItsServer`: a row's calls went to its own server, unless a
removal from that host was skipped or failed. `OwnTrace`: its calls are of the run
that got its answer, unless a later run asked the label again or a host outlived
its driver. `UntooledIsHonest`: an answer graded as given without tools was, unless
a frame is still to be written, or the trace has changed since or was written by
another run. `FileIsComplete`: a result file that can be read has a row for every
question of its run. `ReplayHonest`: an answer the replay puts outside the tools
was told by no call to the row's own server, unless the table moved or the trace is
not of that answer; of calls to another server it is not true (section 4). `RescoreKeepsHistory`: a rescore that ends has dropped no row, and moved
no field but those it lists, unless the label was asked again; one that is killed
leaves a file that cannot be read (section 4).

Of the agent matrix: `UnansweredNeverPublished`: no row of a run that died before
its header is published; no check tests for it, the summary fails instead.
`RowsHaveCaptures`: behind a published row is the capture it was graded from, or
one of a later run that took equally long and is graded the same; of an axis that
was left out the file of rows stays without captures. `DifferencesAreTold`: where
rows and figures grade a run differently, the figures say so. `IdentifiersMasked`:
every identifier in a published capture is one pseudonym, even in a publication
cut short. `NothingPublishedIsLost`: what was published is in the next publication,
unless its label was run again and the first run not archived, or it was archived and
its axis is none that the lists naming the archive republish (`ByTheLists`, section 4).

Of the clients: `RowsSayWhatWasSent`: a row is OK only if that probe's own request
left and was answered; one that FAILED without a request comes before every request
of its run, as then the configuration or the token was not had; and a probe the binary
issues is called not issued only in a file with an exit code or an absent client.
`PlainEvidenceIsARun`: what stands under the plain name, and is not cut short, comes of
a run with an answer in it, or one that ended with exit code 0 and a row for every
probe; of pyiceberg, one that read `/v1/config` and issued every call. That such a run
is not always a good one is `GoodEvidenceIsKept` of section 4.
`AgreementIsReal`: where harness and pyiceberg met the same catalog, "the endpoint
answers; this client will not ask" and "client and catalog agree" are true.
`GateCostForetold`: what `gate_cost.py` predicts from the harness's evidence is what
pyiceberg does, except where the substitute is not declared either.

**Fairness.** `PassEnds` needs weak fairness of `Progress`, the runner's own next
step. The runner is one thread of straight-line code and each
request ends after at most 60 s of silence on the socket (`TIMEOUT`), so it
keeps taking steps. A server that trickles bytes for ever would defeat this, as
the time-out is per read; that case is assumed away. Kills and new passes are
not fair.

`Answered` and `ProxyEnds` need weak fairness of each thread and process that
can go on: the two pump threads, the proxy's main thread, the server, and the
host's reading. Each is a thread or process of its own that the operating
system schedules, and none waits for a lock longer than one record takes. What
the host writes and when it closes is not fair, nor is any death, nor the silence of a
catalog. The server's fairness ends there: the `RestCatalog` behind the tools has no
time-out, so after `CatalogSilent` the server is in its call for good. `ProxyEnds`
therefore has two exceptions, as `child.wait()` has no time-out either. `Hung` is that
server. `Wedged`: the host has gone, the down thread with it, and the server is blocked
writing into a pipe nobody will read; the proxy keeps the pipe's reading end open, so
both processes stay. It takes an answer larger than the pipe, which a tool result can be.

`RunEnds` needs weak fairness of the driver only: its `subprocess.run` has a
time-out of 300 s and nothing it does afterwards waits. The catalog, the proxy
(whose `urlopen` has no time-out) and the binary need not move at all.

## 4. Disagreements between code and documentation

1. `DeadRunKeepsEvidence` (`dead_writes`). The comment in `_write_evidence` says a
   pass in which every probe died is parked and the last good evidence kept. In
   a pass with `--allow-writes` `_mark_indeterminate` runs first and turns the
   dead write probes with a prerequisite into INDETERMINATE, so the pass is not
   `all_dead` and `evidence.json` is overwritten. Read-only passes are safe.
2. `NoInventedOverclaim` (`undroppable`). `drop_namespace` depends on
   `create_namespace` only. If the catalog does not serve `dropTable`, the
   suite's own table makes `dropNamespace` answer 409 and a working endpoint is
   judged "DECLARED, FAILS". `NoFalseFailure` holds with the proviso
   `CleanupServed`, which excludes exactly that.
3. `WithinBudget` (`budget_server`). "Calls allowed per answer" is not enforced
   behind the MCP server: each call starts from an unset context variable.

4. `Answered` (`trace_scalar`). The proxy promises that neither side notices it,
   and that it tolerates lines that are not frames. A line that is JSON but no
   object (a number, `null`, `true`) makes `summarise` raise TypeError outside
   the handler for bad JSON; the down thread ends and the host gets no further
   answer.
5. `GoodEvidenceIsKept` (`client_overwrite`). "Never overwrite good evidence with a failed
   run": the guard asks for an exit code other than 0, and the binary exits with 0
   whatever fails. Without `/v1/config` or a token every row is FAILED, and the file of
   a good run is opened for writing.

Noticed besides, each a named exception of a property or outside the models:

- `writes()` of `main.rs` "drops everything it created" (line 399), but returns when
  `create_table` fails, before its drops, and drops `t2` even when the rename to `t2`
  failed: the namespace, or `t1` in it, stays. `NothingLeft` excepts those two endpoints.
- `iceberg-mcp-hosts/replay_check.py` promises to repeat the calls "against the same
  server variant" (line 15); it repeats them on the variant of the row. If a kill left
  another server registered, a call it answered is repeated where the tool does not
  exist, and a count that a call did return is reported as from outside. `ReplayHonest`
  speaks of the calls to the row's own server.
- `rescore.py` truncates the rows file before it dumps, and starts from the rows in it:
  one that is killed in between loses them for good, although "the JSON is a view" of
  the captures (line 16). `RescoreKeepsHistory` excepts a file that cannot be read.
- `iceberg-agent/publish_evidence.py` publishes archived runs so that "none is lost"
  (line 389). `superseded_d` republishes the axes A, C, D, E, F of a directory (line
  614), so axis B of one listed in `SUPERSEDED_D` alone is dropped; `superseded` passes
  over D, E and F; a directory that is in neither list, or is not there, is passed over
  in silence (lines 397, 607). `NothingPublishedIsLost` excepts these (`ByTheLists`).
- `anonymize_evidence.residual_scan` knows only its pseudonyms of guids, accounts and
  hosts; a project that was masked is itself reported, and the publication refused.
- `run_rust.py` says of the probes that a binary that died never reached that they were
  "deliberately not sent".
- `run_rust.py` and `run_pyiceberg.py` truncate the plain file before they dump: a kill
  tears good evidence, and `compare_clients.py` raises on it.
- The files that `iceberg-agent/publish_evidence.py` copies, `ground-truth.txt` among
  them, are read again after the grading that rests on it (`publish_evidence.py:790`); a
  truth captured in between is published beside rows graded against the older one. The
  model does not have the copies.
- A server in a call to a silent catalog keeps its proxy alive after the host is gone.
- `compare_clients.py` prints that client and catalog agree also when the harness has no
  answer for the probe (`AgreementIsReal` asks that it was put).
- `gate_cost.py` predicts a substitute where the substitute is itself undeclared and
  pyiceberg refuses.
- A torn `evidence.json` or `catalog-sweep-*.json` makes the report that reads it
  raise; a sweep that is answered nothing leaves the torn file where it is and writes
  beside it.

## 5. The proofs

| module | theorems (the property each states of the runs) |
| --- | --- |
| `CatalogRunProofs` | `TypeCorrect` (`TypeOK`), `NamesAreTracked` (`NamesTracked`), `CreditIsEarned` (`NoFalseCredit`), `NoResidue` (`NothingLeftBehind`), `FailuresAreReal` (`NoFalseFailure`), `MissingIsScored` (`MissingRouteScored`), `DeadPassIsParked` (`DeadReadPassKeepsEvidence`) |
| `ToolBudgetProofs` | `BudgetTypes` (`TypeOK`), `HeaderIsTrue` (`HeaderCountsCalls`), `WrappedWithinBudget`, `BudgetImplementsPromise` (`BudgetKept`) |
| `McpTraceProofs` | `TraceTypes` (`TypeOK`), `TraceIsPipe` (`NeitherNotices`), `TraceExact` (`TraceIsExact`), `TraceExactBarScalars`, `ClosedTraceWhole` (`ClosedTraceIsWhole`) |
| `RustWritesProofs` | `WriteTypes` (`TypeOK`), `ReportIsMeasured` (`ReportMatchesWire`), `MissingExplained` (`MissingOnlyAfterAbort`), `ControlRun` (`ControlIsGreen`), `NothingStays` (`NothingLeft`) |
| `HostMatrixProofs` | `MatrixTypes` (`TypeOK`), `ResultsAreComplete` (`FileIsComplete`), `OnlyOwnServer` (`OnlyItsServer`), `RowsHoldTheirCalls` (`OwnTrace`), `UntooledAreHonest` (`UntooledIsHonest`), `ReplaysAreHonest` (`ReplayHonest`), `RescoresKeepHistory` (`RescoreKeepsHistory`) |
| `AgentMatrixProofs` | `AgentTypes` (`TypeOK`), `NoUnanswered` (`UnansweredNeverPublished`), `RowsBacked` (`RowsHaveCaptures`), `DifferencesTold` (`DifferencesAreTold`), `NothingShown` (`IdentifiersMasked`), `NoneLost` (`NothingPublishedIsLost`) |
| `ClientRunsProofs` | `RowsAreTrue` (`RowsSayWhatWasSent`), `EvidenceIsARun` (`PlainEvidenceIsARun`), `ComparisonIsReal` (`AgreementIsReal`), `CostIsForetold` (`GateCostForetold`) |
| `FiniteInduction` | the lemma `SetInduction` only |

So every invariant, every action property and both refinements of the passing runs
are theorems. They hold for every set of catalogs and declared sets, any faults,
kills and passes, every limit, any set of calls and any number of answers, every
pipe capacity and number of frames, any hosts, configurations, axes, rounds,
repetitions and publications, and whatever the hosts, agents and catalogs answer.
They rest on the assumptions about the constants and on nothing else:
`CatalogAssumption`, `BudgetAssumption`, `TraceAssumption`, `CatalogsAssumption`,
`MatrixAssumption`, `AgentAssumption` and `ClientAssumption`, each evaluated by TLC on
its runs. `TraceExact` and `ClosedTraceWhole` have one hypothesis more, that the
server prints no bare JSON scalar (`"scalar" \notin Noise`): section 4 shows what
happens if it does. `TraceExactBarScalars` does without the hypothesis and says it
of each direction in which no scalar was written.

### CatalogRun

- `NamesTracked` is inductive with `TypeOK`: only the creates and renames touch
  the names, and `Learned` changes `ctx` just when the catalog renamed.
- `NoFalseCredit` needs `CreditInv`: at every moment a record other than a HEAD
  probe's is OK only if the catalog serves that probe, and the judged records
  are `reconciled` of the verdicts.
- `NothingLeftBehind` needs to know at each position what can still exist
  (`ResidueInv`): after the position of a drop, in an untroubled pass on a
  catalog that serves it, that kind of object is gone (`CleanedUp`), and before
  its create it has not yet been made (`Contained`).
- `NoFalseFailure` and `MissingRouteScored` need `SoundInv`: as long as nothing has gone
  wrong, an endpoint that is served is OK unless its fixture is not or another probe
  has already done its work, and one that is refused is not OK and known to be
  missing if the refusal says so (`RecordSound`); what stands on the catalog at each
  place of the suite follows from the fixtures' verdicts (`Standing`).
- `DeadReadPassKeepsEvidence` needs `UnheardInv`: in a read-only pass without a reply
  every read probe already tried is a transport error, every write probe is
  skipped, and as no read probe depends on another (`ReadsStandAlone`) none is
  turned into INDETERMINATE. So the pass is `all_dead`, and what is opened is the
  other file. With writes allowed exactly this step fails (section 4).

### ToolBudget

- `ToolBudget` rests on `Shared`: under a wrapper the main context, the turn's
  loop and every open call are bound to the same object, and its field equals
  the number of calls let through. With it each step of `Next` is a `Grant`, a
  `Refuse`, a `NewAnswer` or a stutter of `CallAllowance`.

### McpTrace

- `TraceIsPipe` rests on `Hands`: a thread's hand holds one frame between its
  read and its write and none otherwise. So the pipe out, the hand and the pipe
  in, laid in a row, are the abstract queue: the ends put and get, and the
  proxy's steps move a frame within the row. The row lemmas (`AppendAtBack`,
  `TakeFromRow`, `MoveIntoHand`, `MoveOutOfHand`) say so of any sequences.
- `TraceIsExact` rests on `TraceInv`: as long as no scalar was written in a direction, its
  log, what is being noted, what is in the thread's hand and what is in the pipe make
  up what was written (`Traced`), and something is being noted just when the thread
  is about to log (`Noted`). What is to be logged of a sequence is `Loggable`, a filter;
  that it distributes over `\o` (`LoggableOfRow`) is an induction over prefixes, for
  which there is `SetInduction`. That lemma needs no induction of its own: up to a
  counterexample `x`, adding one maps the numbers in the set one to one into those
  but 0, and a finite set does not fit into a smaller one.
- `ClosedTraceIsWhole` adds `Endings`: a thread that has returned has read its pipe to the
  end after its writer was gone, and if nobody was killed the proxy leaves only when
  both threads have.

### RustWrites

- `ReportIsMeasured` and `MissingExplained` rest on an invariant about rows and log
  while both grow: the log holds nothing of probes to come, and of the probe in
  hand just the requests before the current one, all well answered, and the
  current one once it is back (`LogSoFar`); so when a row is written the log
  already decides it, and no later entry can change what it says of an earlier
  probe (`RowsAgree`). The rows before the current one are written and those
  after it are not (`InOrder`), which an early return or a death freezes.
- `NothingLeft` and `ControlIsGreen` rest on `TidyInv`: while no request was lost, the
  binary lives and the catalog serves the cleanup, what exists under the scratch name
  is a function of the probe under way and of what else is refused (`Tidy`); and on a
  catalog that refuses nothing every row so far is green (`GreenSoFar`). `OneRequest` is
  the table behind it: what each of the eighteen probes finds and leaves.

### HostMatrix

- `FileIsComplete` rests on `Placed`: while a run goes on, the labels of its rows are
  those of the rounds before and of the cells this round has left behind (`Done`),
  with the label in hand added once it is scored. A dump happens only when nothing
  is left of the last round; an abort writes no file.
- `OnlyItsServer` rests on `Cleared`: outside a cell no global host has a server
  registered, and in a cell only the cell's, unless a removal from that host was
  skipped. So every call, frame still to be written and orphan is of its label's
  server (`OwnCalls`).
- `OwnTrace` rests on `RunCalls`: every frame under a label, written or not, is of the
  run that asked the label last, because asking unlinks the trace; only an orphan
  writes to the new file. A row that a later question has not superseded was
  therefore scored, or rescored, on its own calls. That a run never asks a label
  twice is `Placed` again.
- `UntooledIsHonest` and `ReplayHonest` rest on `KeptInv`: as long as a label is not
  asked again, a call made for it is in its trace or on its way there (`MadeKept`), the
  calls a row was scored on stay in the trace (`RowsKept`), and no call of a row that
  the replay reports and that went to the row's own server tells the count
  (`ReplaysTrue`): such a call is repeated where it was made. The last needs that
  a call which tells the count of a version the table does not have (a scan stopped
  at its limit can) would tell it of a table that has it (`SaidAsMuch`).
- `RescoreKeepsHistory` rests on `LabelsOnce`: a file has one row for a label, so the
  rescored row is compared with itself, and `FieldsGrow`: which fields a score has
  depends on the server and on whether there is a trace, and only grows. While it
  dumps, what a rescore holds in hand is `RescoredKept`.

### AgentMatrix

- `AgentTypes` rests on `Typed`, which includes what the publisher relies on unsaid: a
  result file holds one row for every cell and repetition of its axis.
- `UnansweredNeverPublished`, `RowsHaveCaptures` and `DifferencesAreTold` rest on
  `PublishedInv`: what `Check` established of the axes in its hands when there is
  something to write (`Checked`), and that what is in a directory is part of that
  (`Written`), at every point at which the publication can be killed.
- `IdentifiersMasked` rests on `MaskedInv`: every identifier that a pattern matches or
  the list of literals holds gets a number from 1 (`NumberedNames`), and one that keeps
  its shape stops the publication (`MasksAreWhole`).
- `NothingPublishedIsLost` rests on `LostInv`: a run's number is taken once per label
  (`FilesPast`); so a run that was ever shown is the current one of its label, or in an
  archive, or was run again (`KnownSafe`); what the publisher has read (`ReadSafe`) and
  is about to write (`WriteSafe`) accounts for all of them. `ListsRepublish` says that
  what is republished of an archive is what `ByTheLists` names; a driver that is killed
  cuts only captures of its own round (`AbortCuts`), which were thereby run again.

### ClientRuns

- `RowsSayWhatWasSent` and `PlainEvidenceIsARun` rest on one invariant per driver while
  it works (`RustInv`, `PyInv`) and one for its files (`RustFilesInv`, `PyFilesInv`). A
  row of `run_pyiceberg.py` is true of a declaration: of the catalog object the driver
  holds, or of the one two of the probes build for themselves (`RowTrue`). If the
  catalog changes in between, the two differ. A row of the Rust client is true as long
  as nothing before it was asked when it failed unasked (`RustRowTrue`); that later
  probes come later is the order of the suite (`Before`, `FirstBefore`).
- `AgreementIsReal` and `GateCostForetold` add `PaperInv`, what the harness's evidence says
  of the catalog at its version, and compare files that met one and the same
  version.

### What stays with TLC

`PassEnds`, `Answered`, `ProxyEnds` and `RunEnds`: liveness under fairness is out of the
prover's reach. So are the five runs that end in a violation, which show a behaviour
and need no proof. Everything else that a passing run checks is proved too; TLC's
part there is to show, on small instances and by broken variants of the code, that
the properties can fail.

## 6. Not modelled

The parts named first in the repository's own order of importance are modelled: the
probe suite, the tools' budget, the proxy, both matrices with their publication, the
clients' runs and comparison. What is left, and why:

- **The catalog sweep** (`sweep_catalogs.py`). `Session.request` waits in `readline`
  without the `TIMEOUT` the file defines, so a silent server stops it for good. That
  is read off the line: nothing in the code ends the wait.
- **Auth providers** (`auth.py`, and the catalog client of `iceberg_tool.py` built once).
  What can go wrong is a matter of how long a request takes against how long a token
  lives, and the code states neither. An expiry in the middle of a pass is in
  `CatalogRun`.
- **The report** (`report.py`) and the sweep's summary: rendering of recorded data. That
  `load` raises on a torn file is read off the line.
- **The field tier and the seed profile** of the runner, the fingerprint, the redaction
  (`redact.py`) and the anonymiser's own `main`: contents of single responses, or
  replacement of text. `Pseudonyms` has the anonymiser's map and scan.
- **Derived figures** (`compare_transport.py`, `nova_diagnosis.py`, `failure_modes.py`,
  `operation_map.py`, `make_surface.py`, `vendor_report.py`) and the arithmetic of the
  published figures: computations over files already written.
- **Benchmarks** (`bench.py`, `bench_worker.py`, `bench_breakdown.py`, the binary's bench
  and transport modes): they measure time, of which a model says nothing.
- **The SigV4 demonstration, the AWS crates, tagged runs** of D: the first two are calls
  into vendors' code; a tag gives files other names.
- **One-shot scripts** (`seed_table.py`, `seed_large.py`, `dbx_sql.py`, `polaris-up.sh`):
  SQL and shell against a vendor.
- **Agents' frameworks and CLI hosts**: external; modelled as what they may call and
  print.

Worth doing next: the interleaving of two publishers or of two matrix runs, which
nothing in the code prevents.
