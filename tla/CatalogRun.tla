----------------------------- MODULE CatalogRun -----------------------------
(***************************************************************************)
(* CatalogRun of iceberg-conformance/probe/runner.py: one catalog, passes  *)
(* of the probe suite one after another, the names the runner carries from *)
(* one probe to the next, and the evidence file each pass leaves.          *)
(*                                                                         *)
(* The environment is the catalog (ScratchCatalog), the network between    *)
(* the two, and the operator who may kill a pass and start another.  A     *)
(* request may be answered, be rejected in passing (an expired token, a    *)
(* 5xx), never arrive, or be applied and have its answer lost; during an   *)
(* outage (dark) nothing arrives at all.                                   *)
(***************************************************************************)
EXTENDS ScratchCatalog

CONSTANTS
  RouteTables,      \* what the catalog may be: its answer to each probe when
                    \* it does not serve it, Success when it does
  DeclaredSets,     \* what its /v1/config may list
  AllowChoices,     \* values of --allow-writes to explore
  OutageChoices,    \* may a pass meet an outage?
  PrefixConfigured, \* cfg names the prefix (or the catalog has none)
  Misrouted,        \* the answer to a request sent under a wrong prefix
  Rejections,       \* passing refusals: 401, 5xx
  ScratchReused,    \* cfg fixes scratch_namespace instead of a stamped name
  Crashes,          \* may a pass be killed?
  MaxFaults,        \* bound: rejected, lost or unanswered requests in all
  MaxRuns           \* bound: passes

(* An unserved route answers with an error status, or with an error        *)
(* payload inside a 2xx.                                                   *)
Refusal(r) ==
  /\ r.status # None
  /\ r.status \notin 200..299 \/ looks_like_error_body(r)

ASSUME CatalogAssumption ==
  /\ RouteTables \subseteq [Probes -> Replies]
  /\ \A t \in RouteTables :
       /\ t["config"] = Success
       /\ \A p \in Probes \ HeadProbes : t[p] = Success \/ Refusal(t[p])
  /\ DeclaredSets \subseteq SUBSET Endpoints
  /\ AllowChoices \subseteq BOOLEAN
  /\ OutageChoices \subseteq BOOLEAN
  /\ PrefixConfigured \in BOOLEAN
  /\ Misrouted \in Replies /\ Misrouted.status \notin {None} \cup 200..299
  /\ Rejections \subseteq Replies
  /\ \A r \in Rejections : r.status \notin {None} \cup 200..299
  /\ ScratchReused \in BOOLEAN
  /\ Crashes \in BOOLEAN
  /\ MaxFaults \in Nat
  /\ MaxRuns \in Nat

VARIABLES
  route, scratch, dark,      \* the catalog and the network
  phase, pos, allow, ctx,    \* the pass: where it is, --allow-writes, self.ctx
  declared,                  \* self.declared
  verdict,                   \* verdict of each record of self.results
  missing,                   \* the records whose reply says the route is missing
  judged,                    \* "reconciled" of each record
  evidence, parked,          \* evidence.json and evidence.failed.json
  runs, faults,              \* bounded counters
  answered, trouble          \* history: a reply came back; what went wrong

environment == <<route, dark>>
files       == <<evidence, parked>>
vars == <<route, scratch, dark, phase, pos, allow, ctx, declared, verdict,
          missing, judged, evidence, parked, runs, faults, answered, trouble>>

Pending  == "pending"
Unjudged == "unjudged"
NoFile   == [state |-> "absent", run |-> 0]
Files    == [state : {"absent", "torn", "whole"}, run : Nat]
Troubles == {"dirty", "rejected", "unsent", "lost"}

TypeOK ==
  /\ scratch \in Scratch
  /\ dark \in BOOLEAN
  /\ phase \in {"ended", "probing", "judged", "writing"}
  /\ pos \in 1..(SuiteLen + 1)
  /\ allow \in BOOLEAN
  /\ ctx \in Contexts
  /\ declared \in SUBSET Endpoints
  /\ verdict \in [Probes -> Verdicts \cup {Pending}]
  /\ missing \in SUBSET Probes
  /\ judged \in [Probes -> Judgements \cup {Unjudged}]
  /\ evidence \in Files /\ parked \in Files
  /\ runs \in Nat /\ faults \in Nat
  /\ answered \in BOOLEAN
  /\ trouble \in SUBSET Troubles

FreshCtx == [prefix |-> PrefixConfigured, tbl |-> "probe", view |-> "probe",
             uuid |-> FALSE]

Init ==
  /\ route \in RouteTables
  /\ scratch = Absent
  /\ dark = FALSE
  /\ phase = "ended" /\ pos = 1
  /\ allow = FALSE
  /\ ctx = FreshCtx
  /\ declared = {}
  /\ verdict = [p \in Probes |-> Pending]
  /\ missing = {}
  /\ judged = [p \in Probes |-> Unjudged]
  /\ evidence = NoFile /\ parked = NoFile
  /\ runs = 0 /\ faults = 0
  /\ answered = FALSE
  /\ trouble = {}

(* A new CatalogRun object and its run(): the scratch namespace carries a  *)
(* new time stamp, unless the configuration fixes its name.                *)
StartRun ==
  /\ phase = "ended"
  /\ runs < MaxRuns
  /\ runs' = runs + 1
  /\ phase' = "probing" /\ pos' = 1
  /\ allow' \in AllowChoices
  /\ dark' \in OutageChoices
  /\ ctx' = FreshCtx
  /\ declared' = {}
  /\ verdict' = [p \in Probes |-> Pending]
  /\ missing' = {}
  /\ judged' = [p \in Probes |-> Unjudged]
  /\ scratch' = IF ScratchReused THEN scratch ELSE Absent
  /\ answered' = FALSE
  /\ trouble' = IF scratch' = Absent THEN {} ELSE {"dirty"}
  /\ UNCHANGED <<route, files, faults>>

-----------------------------------------------------------------------------
(***************************************************************************)
(* One iteration of the probe loop: _send, append, and what the runner     *)
(* learns from the record.                                                 *)
(***************************************************************************)
Current == Suite[pos]

Probing ==
  /\ phase = "probing"
  /\ pos <= IF allow THEN SuiteLen ELSE ReadLen

(* A HEAD reply has no body to classify. *)
Received(p, reply) ==
  IF p \in HeadProbes THEN [reply EXCEPT !.body = "none"] ELSE reply

(* Every path but /v1/config is built under ctx["prefix"]. *)
Reached(p) == (p = "config" \/ ctx.prefix) /\ route[p] = Success

CatalogReply(p) ==
  IF Reached(p) THEN Answer(Signature(p), scratch, ctx)
  ELSE IF p = "config" \/ ctx.prefix THEN route[p] ELSE Misrouted

AfterRequest(p) ==
  IF Reached(p) THEN Applied(Signature(p), scratch, ctx) ELSE scratch

(* The status code alone, without a look into the body. *)
StatusOnly(p, reply) == classify(reply.status)

VerdictOf(p, reply) ==
  IF classify(reply.status) = OK /\ looks_like_error_body(reply)
  THEN FALSE_OK ELSE classify(reply.status)

(* The new name is not kept after a rename. *)
RenameUntracked(p, v) ==
  CASE p = "config" /\ v = OK       -> [ctx EXCEPT !.prefix = TRUE]
    [] p = "create_table" /\ v = OK -> [ctx EXCEPT !.uuid = TRUE]
    [] OTHER                        -> ctx

(* The new name is kept whether or not the rename was answered OK. *)
RenameAssumed(p, v) ==
  CASE p = "config" /\ v = OK       -> [ctx EXCEPT !.prefix = TRUE]
    [] p = "create_table" /\ v = OK -> [ctx EXCEPT !.uuid = TRUE]
    [] p = "rename_table"           -> [ctx EXCEPT !.tbl = Renamed(@)]
    [] p = "rename_view"            -> [ctx EXCEPT !.view = Renamed(@)]
    [] OTHER                        -> ctx

(* self.ctx after the record of p: the prefix from a config body, the uuid *)
(* from a createTable body, "_r" after a rename that was answered OK.      *)
Learned(p, v) ==
  CASE p = "config" /\ v = OK       -> [ctx EXCEPT !.prefix = TRUE]
    [] p = "create_table" /\ v = OK -> [ctx EXCEPT !.uuid = TRUE]
    [] p = "rename_table" /\ v = OK -> [ctx EXCEPT !.tbl = Renamed(@)]
    [] p = "rename_view" /\ v = OK  -> [ctx EXCEPT !.view = Renamed(@)]
    [] OTHER                        -> ctx

(* A probe that got no answer is sent again, without a limit. *)
RetryOnTransportError(p, reply) ==
  /\ verdict' = [verdict EXCEPT ![p] = VerdictOf(p, reply)]
  /\ missing' = IF route_is_missing(reply) THEN missing \cup {p} ELSE missing
  /\ ctx' = Learned(p, VerdictOf(p, reply))
  /\ declared' \in IF p = "config" /\ VerdictOf(p, reply) = OK
                   THEN DeclaredSets ELSE {declared}
  /\ pos' = IF reply = NoReply THEN pos ELSE pos + 1

Record(p, reply) ==
  /\ verdict' = [verdict EXCEPT ![p] = VerdictOf(p, reply)]
  /\ missing' = IF route_is_missing(reply) THEN missing \cup {p} ELSE missing
  /\ ctx' = Learned(p, VerdictOf(p, reply))
  /\ declared' \in IF p = "config" /\ VerdictOf(p, reply) = OK
                   THEN DeclaredSets ELSE {declared}
  /\ pos' = pos + 1

(* The catalog handles the request and its reply comes back. *)
SendAnswered ==
  /\ Probing /\ ~dark
  /\ Record(Current, Received(Current, CatalogReply(Current)))
  /\ scratch' = AfterRequest(Current)
  /\ answered' = TRUE
  /\ UNCHANGED <<environment, phase, allow, judged, files, runs, faults, trouble>>

(* An expired token, a throttled or failing server: refused, not handled.  *)
SendRejected ==
  /\ Probing /\ ~dark
  /\ faults < MaxFaults /\ faults' = faults + 1
  /\ \E r \in Rejections : Record(Current, Received(Current, r))
  /\ answered' = TRUE
  /\ trouble' = trouble \cup {"rejected"}
  /\ UNCHANGED <<environment, scratch, phase, allow, judged, files, runs>>

(* _send's except branch with nothing done: the token could not be minted, *)
(* DNS or TLS failed, or the request was lost.                             *)
SendUnsent ==
  /\ Probing
  /\ dark \/ faults < MaxFaults
  /\ faults' = IF dark THEN faults ELSE faults + 1
  /\ Record(Current, NoReply)
  /\ trouble' = trouble \cup {"unsent"}
  /\ UNCHANGED <<environment, scratch, phase, allow, judged, files, runs, answered>>

(* The catalog applies the request but the answer that says so is lost: a  *)
(* time-out, a dropped connection, a gateway's 5xx.                        *)
SendLost ==
  /\ Probing /\ ~dark
  /\ faults < MaxFaults /\ faults' = faults + 1
  /\ scratch' = AfterRequest(Current)
  /\ \E r \in {NoReply} \cup {x \in Rejections : x.status >= 500} :
       /\ Record(Current, Received(Current, r))
       /\ answered' = (answered \/ r # NoReply)
  /\ trouble' = trouble \cup {"lost"}
  /\ UNCHANGED <<environment, phase, allow, judged, files, runs>>

(* The skipped records replace the others instead of following them. *)
SkippedOnly ==
  /\ phase = "probing" /\ ~allow
  /\ pos = ReadLen + 1
  /\ verdict' = [p \in WriteProbes |-> SKIPPED]
  /\ pos' = SuiteLen + 1
  /\ UNCHANGED <<environment, scratch, phase, allow, ctx, declared, missing,
                 judged, files, runs, faults, answered, trouble>>

(* Without --allow-writes every write probe is recorded as SKIPPED. *)
SkipWrites ==
  /\ phase = "probing" /\ ~allow
  /\ pos = ReadLen + 1
  /\ verdict' = [p \in Probes |->
                   IF p \in WriteProbes THEN SKIPPED ELSE verdict[p]]
  /\ pos' = SuiteLen + 1
  /\ UNCHANGED <<environment, scratch, phase, allow, ctx, declared, missing,
                 judged, files, runs, faults, answered, trouble>>

-----------------------------------------------------------------------------
(***************************************************************************)
(* _write_evidence: _mark_indeterminate and _reconcile rewrite the records *)
(* in memory, then the file is opened for writing (and truncated), then    *)
(* filled.                                                                 *)
(***************************************************************************)
FixtureMissing(p) ==
  /\ DependsOn(p) # NoProbe
  /\ verdict[p] \notin {OK, SKIPPED}
  /\ verdict[DependsOn(p)] # OK

(* Without _mark_indeterminate, and without its exception. *)
NoneMarked == verdict

AllMarked ==
  [p \in Probes |-> IF FixtureMissing(p) THEN INDETERMINATE ELSE verdict[p]]

mark_indeterminate ==
  [p \in Probes |-> IF FixtureMissing(p) /\ p \notin missing
                    THEN INDETERMINATE ELSE verdict[p]]

Scored(v, p) == v[p] \notin {SKIPPED, INDETERMINATE}

WorksAlone(v, e) == v[e] = OK

(* An endpoint works if any probe against it succeeded. *)
Works(v, e) == \E q \in Probes : Signature(q) = e /\ v[q] = OK

reconciled(v) ==
  [p \in Probes |-> IF Scored(v, p) /\ p \notin Variants
                    THEN reconcile(p \in declared, Works(v, p)) ELSE Unjudged]

Judge ==
  /\ phase = "probing"
  /\ pos = SuiteLen + 1
  /\ verdict' = mark_indeterminate
  /\ judged' = reconciled(mark_indeterminate)
  /\ phase' = "judged"
  /\ UNCHANGED <<environment, scratch, pos, allow, ctx, declared, missing,
                 files, runs, faults, answered, trouble>>

NeverDead == FALSE

(* all_dead, over the records that were not skipped. *)
AllDead ==
  \A p \in Probes : verdict[p] # SKIPPED => verdict[p] = TRANSPORT_ERROR

OpenEvidence ==
  /\ phase = "judged"
  /\ LET torn == [state |-> "torn", run |-> runs] IN
       \/ AllDead /\ parked' = torn /\ UNCHANGED evidence
       \/ ~AllDead /\ evidence' = torn /\ UNCHANGED parked
  /\ phase' = "writing"
  /\ UNCHANGED <<environment, scratch, pos, allow, ctx, declared, verdict,
                 missing, judged, runs, faults, answered, trouble>>

DumpEvidence ==
  /\ phase = "writing"
  /\ LET whole == [state |-> "whole", run |-> runs] IN
       \/ AllDead /\ parked' = whole /\ UNCHANGED evidence
       \/ ~AllDead /\ evidence' = whole /\ UNCHANGED parked
  /\ phase' = "ended"
  /\ UNCHANGED <<environment, scratch, pos, allow, ctx, declared, verdict,
                 missing, judged, runs, faults, answered, trouble>>

(* Killed, or an exception run.py catches: what was recorded is lost, what *)
(* was created on the catalog stays.                                       *)
Crash ==
  /\ Crashes
  /\ phase # "ended"
  /\ phase' = "ended"
  /\ UNCHANGED <<environment, scratch, pos, allow, ctx, declared, verdict,
                 missing, judged, files, runs, faults, answered, trouble>>

-----------------------------------------------------------------------------
Send == SendAnswered \/ SendRejected \/ SendUnsent \/ SendLost

Progress == Send \/ SkipWrites \/ Judge \/ OpenEvidence \/ DumpEvidence

Next == StartRun \/ Progress \/ Crash

Spec == Init /\ [][Next]_vars

(* A request times out after 60 s of silence and the suite is finite, so a *)
(* pass keeps moving until it ends or is killed.                           *)
FairSpec == Spec /\ WF_vars(Progress)

-----------------------------------------------------------------------------
(***************************************************************************)
(* Properties.                                                             *)
(***************************************************************************)

(* As long as every reply of the pass came back, the scratch table and the *)
(* scratch view can only exist under the names the runner holds in         *)
(* ctx["scratch_tbl"] and ctx["scratch_view"], the ones its cleanup probes *)
(* address (runner.py: "Without this the cleanup probes chase the old one  *)
(* and report a false 404/409").                                           *)
NamesTracked ==
  trouble \cap {"dirty", "lost"} = {} =>
    scratch.tables \subseteq {ctx.tbl} /\ scratch.views \subseteq {ctx.view}

(* What the suite can create on this catalog, it can also drop. *)
TablesDroppable ==
  route["create_table"] = Success => route["drop_table"] = Success
ViewsDroppable ==
  route["create_view"] = Success => route["drop_view"] = Success
CleanupServed == TablesDroppable /\ ViewsDroppable

(* A write pass in which nothing went wrong, on a catalog that serves the  *)
(* drops for what it lets the suite create, leaves no scratch object and   *)
(* no scratch namespace: the cleanup probes come after every create and    *)
(* follow the renames.                                                     *)
NothingLeftBehind ==
  /\ trouble = {}
  /\ pos = SuiteLen + 1
  /\ CleanupServed /\ route["drop_namespace"] = Success
  => scratch = Absent

(* The suite's own order never invents a failure: when every reply came    *)
(* back and the cleanup is served, an endpoint judged to fail (declared or *)
(* not) is one the catalog does not serve, whatever prerequisites it       *)
(* refused (_mark_indeterminate and _reconcile's aggregation).             *)
NoFalseFailure ==
  trouble = {} /\ phase = "judged" /\ CleanupServed =>
    \A e \in Endpoints :
      judged[e] \in {OVERCLAIM, HONEST_OMISSION} => route[e] # Success

(* The same without the proviso on cleanup: "whichever runs second         *)
(* necessarily 404s because the first removed the table. Judging those     *)
(* individually invents an overclaim out of the suite's own ordering"      *)
(* (runner.py, _reconcile).  drop_namespace depends only on                *)
(* create_namespace, so it is judged although the suite itself left a      *)
(* table in the namespace that it could not drop.                          *)
NoInventedOverclaim ==
  trouble = {} /\ phase = "judged" =>
    \A e \in Endpoints : judged[e] = OVERCLAIM => route[e] # Success

(* An endpoint is credited only if the catalog serves it, however requests *)
(* fail and whatever error payload comes inside a 200 (FALSE_OK).  The     *)
(* HEAD probes are left out: their replies have no body to look into, so a *)
(* blanket 200 is credited.                                                *)
NoFalseCredit ==
  phase = "judged" =>
    \A e \in Endpoints \ HeadProbes :
      judged[e] \in {HONEST, UNDECLARED_OK} =>
        \E q \in Probes : Signature(q) = e /\ route[q] = Success

(* A refusal that itself proves the route absent is always judged, also    *)
(* when the probe's fixture was never created (the exception in            *)
(* _mark_indeterminate): no unserved route hides behind INDETERMINATE.     *)
MissingRouteScored ==
  trouble = {} /\ allow /\ phase = "judged" =>
    \A e \in Endpoints \ HeadProbes :
      /\ route_is_missing(route[e])
      /\ \A q \in Probes : Signature(q) = e => route[q] # Success
      => judged[e] \in {OVERCLAIM, HONEST_OMISSION}

(* A read-only pass that got no reply leaves evidence.json as it is: it is *)
(* parked in evidence.failed.json (_write_evidence, all_dead).             *)
DeadReadPassKeepsEvidence ==
  [][evidence' # evidence /\ ~allow => answered]_vars

(* The same of every pass: "Every probe died at the transport layer ...    *)
(* Overwriting good evidence with it would silently destroy a real run, so *)
(* it is parked under a different name" (runner.py, _write_evidence).  But *)
(* _mark_indeterminate has by then turned a write pass's dead write probes *)
(* into INDETERMINATE, the pass is not all_dead, and the file is lost.     *)
DeadRunKeepsEvidence == [][evidence' # evidence => answered]_vars

(* A pass that is started ends: with its evidence written, or killed. *)
PassEnds == (phase = "probing") ~> (phase = "ended")
=============================================================================
