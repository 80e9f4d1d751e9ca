-------------------------- MODULE CatalogRunProofs --------------------------
(***************************************************************************)
(* Theorems of CatalogRun, for every catalog, network and schedule of      *)
(* passes that CatalogAssumption admits.                                   *)
(***************************************************************************)
EXTENDS CatalogRun, TLAPS

(* What the runner receives, classifies and learns has the expected shape. *)
LEMMA ReceivedType ==
  ASSUME NEW p, NEW r \in Replies
  PROVE  Received(p, r) \in Replies
BY DEF Received, Replies, Bodies

LEMMA VerdictType ==
  ASSUME NEW p, NEW r \in Replies
  PROVE  VerdictOf(p, r) \in Verdicts \ {SKIPPED, INDETERMINATE}
<1>1. classify(r.status) \in Verdicts \ {SKIPPED, INDETERMINATE}
  BY DEF classify, Verdicts, Failures, OK, SKIPPED, INDETERMINATE,
         TRANSPORT_ERROR, FALSE_OK, Replies, None
<1>2. FALSE_OK \in Verdicts \ {SKIPPED, INDETERMINATE}
  BY DEF Verdicts, Failures, FALSE_OK, SKIPPED, INDETERMINATE
<1>3. QED
  BY <1>1, <1>2 DEF VerdictOf

LEMMA LearnedType ==
  ASSUME ctx \in Contexts, NEW p, NEW v
  PROVE  Learned(p, v) \in Contexts
BY DEF Learned, Contexts, Renamed, Names

LEMMA AppliedType ==
  ASSUME NEW e, NEW s \in Scratch, NEW c \in Contexts
  PROVE  Applied(e, s, c) \in Scratch
<1>1. CASE ~Served(e, s, c)
  BY <1>1 DEF Applied
<1>2. CASE Served(e, s, c)
  <2> USE <1>2 DEF Applied, Scratch, Contexts, Renamed, Names
  <2>1. CASE e = "create_namespace" BY <2>1
  <2>2. CASE e = "create_table" BY <2>2
  <2>3. CASE e = "rename_table" BY <2>3
  <2>4. CASE e = "drop_table" BY <2>4
  <2>5. CASE e = "create_view" BY <2>5
  <2>6. CASE e = "rename_view" BY <2>6
  <2>7. CASE e = "drop_view" BY <2>7
  <2>8. CASE e = "drop_namespace" BY <2>8
  <2>9. CASE e \notin {"create_namespace", "create_table", "rename_table",
                       "drop_table", "create_view", "rename_view",
                       "drop_view", "drop_namespace"}
    BY <2>9
  <2>10. QED
    BY <2>1, <2>2, <2>3, <2>4, <2>5, <2>6, <2>7, <2>8, <2>9
<1>3. QED
  BY <1>1, <1>2

(* The catalog is one of those the pass may meet. *)
WellTyped == TypeOK /\ route \in RouteTables

LEMMA ReplyType ==
  ASSUME WellTyped, NEW p \in Probes
  PROVE  /\ Received(p, CatalogReply(p)) \in Replies
         /\ AfterRequest(p) \in Scratch
<1>1. CatalogReply(p) \in Replies
  <2>1. Answer(Signature(p), scratch, ctx) \in Replies
    BY DEF Answer, Success, Conflict, NotFound, Replies, Bodies
  <2>2. route[p] \in Replies /\ Misrouted \in Replies
    BY CatalogAssumption DEF WellTyped, TypeOK
  <2>3. QED
    BY <2>1, <2>2 DEF CatalogReply
<1>2. AfterRequest(p) \in Scratch
  BY AppliedType DEF AfterRequest, WellTyped, TypeOK
<1>3. QED
  BY <1>1, <1>2, ReceivedType

LEMMA NoReplyType == NoReply \in Replies
BY DEF NoReply, Replies, None, Bodies

LEMMA CurrentType ==
  ASSUME WellTyped, Probing
  PROVE  Current \in Probes /\ pos \in 1..SuiteLen
BY DEF WellTyped, TypeOK, Probing, Current, Probes, SuiteLen, ReadLen

(* One record appended to self.results keeps every variable it touches in  *)
(* its type.                                                               *)
LEMMA RecordType ==
  ASSUME WellTyped, Probing, NEW r \in Replies, Record(Current, r)
  PROVE  /\ verdict' \in [Probes -> Verdicts \cup {Pending}]
         /\ missing' \in SUBSET Probes
         /\ ctx' \in Contexts
         /\ declared' \in SUBSET Endpoints
         /\ pos' \in 1..(SuiteLen + 1)
<1>1. Current \in Probes /\ pos \in 1..SuiteLen
  BY CurrentType
<1>2. VerdictOf(Current, r) \in Verdicts
  BY VerdictType
<1>3. verdict' \in [Probes -> Verdicts \cup {Pending}]
  BY <1>1, <1>2 DEF Record, WellTyped, TypeOK
<1>4. missing' \in SUBSET Probes
  BY <1>1 DEF Record, WellTyped, TypeOK
<1>5. ctx' \in Contexts
  BY LearnedType DEF Record, WellTyped, TypeOK
<1>6. declared' \in SUBSET Endpoints
  BY CatalogAssumption DEF Record, WellTyped, TypeOK
<1>7. pos' \in 1..(SuiteLen + 1)
  BY <1>1 DEF Record, SuiteLen
<1>8. QED
  BY <1>3, <1>4, <1>5, <1>6, <1>7

(***************************************************************************)
(* Type correctness.                                                       *)
(***************************************************************************)
LEMMA TypeStep ==
  ASSUME WellTyped, [Next]_vars
  PROVE  WellTyped'
<1> USE DEF WellTyped, TypeOK
<1>1. CASE StartRun
  <2>1. ctx' \in Contexts
    BY <1>1, CatalogAssumption DEF StartRun, FreshCtx, Contexts, Names
  <2>2. scratch' \in Scratch
    BY <1>1 DEF StartRun, Absent, Scratch
  <2>3. trouble' \in SUBSET Troubles
    BY <1>1 DEF StartRun, Troubles
  <2>4. allow' \in BOOLEAN /\ dark' \in BOOLEAN
    BY <1>1, CatalogAssumption DEF StartRun
  <2>5. verdict' \in [Probes -> Verdicts \cup {Pending}] /\ missing' \in SUBSET Probes
    BY <1>1 DEF StartRun
  <2>6. judged' \in [Probes -> Judgements \cup {Unjudged}]
    BY <1>1 DEF StartRun
  <2>7. UNCHANGED <<route, evidence, parked, faults>> /\ runs' \in Nat
    BY <1>1 DEF StartRun, files
  <2>8. pos' \in 1..(SuiteLen + 1)
    BY <1>1 DEF StartRun, SuiteLen
  <2>9. phase' = "probing" /\ declared' = {} /\ answered' \in BOOLEAN
    BY <1>1 DEF StartRun
  <2>10. QED
    BY <2>1, <2>2, <2>3, <2>4, <2>5, <2>6, <2>7, <2>8, <2>9
<1>2. CASE SendAnswered
  <2>1. Current \in Probes
    BY <1>2, CurrentType DEF SendAnswered
  <2>2. Received(Current, CatalogReply(Current)) \in Replies /\ scratch' \in Scratch
    BY <1>2, <2>1, ReplyType DEF SendAnswered
  <2>3. QED
    BY <1>2, <2>2, RecordType DEF SendAnswered, environment, files
<1>3. CASE SendRejected
  <2>1. PICK r \in Rejections : Record(Current, Received(Current, r))
    BY <1>3 DEF SendRejected
  <2>2. Received(Current, r) \in Replies
    BY CatalogAssumption, ReceivedType
  <2>3. trouble' \in SUBSET Troubles
    BY <1>3 DEF SendRejected, Troubles
  <2>4. QED
    BY <1>3, <2>1, <2>2, <2>3, RecordType DEF SendRejected, environment, files
<1>4. CASE SendUnsent
  <2>1. trouble' \in SUBSET Troubles
    BY <1>4 DEF SendUnsent, Troubles
  <2>2. QED
    BY <1>4, <2>1, NoReplyType, RecordType DEF SendUnsent, environment, files
<1>5. CASE SendLost
  <2>1. PICK r \in {NoReply} \cup {x \in Rejections : x.status >= 500} :
          Record(Current, Received(Current, r)) /\ answered' = (answered \/ r # NoReply)
    BY <1>5 DEF SendLost
  <2>2. Received(Current, r) \in Replies
    BY CatalogAssumption, ReceivedType, NoReplyType
  <2>3. trouble' \in SUBSET Troubles
    BY <1>5 DEF SendLost, Troubles
  <2>4. Current \in Probes
    BY <1>5, CurrentType DEF SendLost
  <2>5. scratch' \in Scratch
    BY <1>5, <2>4, ReplyType DEF SendLost
  <2>6. QED
    BY <1>5, <2>1, <2>2, <2>3, <2>5, RecordType DEF SendLost, environment, files
<1>6. CASE SkipWrites
  <2>1. verdict' \in [Probes -> Verdicts \cup {Pending}]
    BY <1>6 DEF SkipWrites, Verdicts
  <2>2. QED
    BY <1>6, <2>1 DEF SkipWrites, environment, files, SuiteLen
<1>7. CASE Judge
  <2>1. mark_indeterminate \in [Probes -> Verdicts \cup {Pending}]
    BY DEF mark_indeterminate, Verdicts, Failures
  <2>2. \A v : reconciled(v) \in [Probes -> Judgements \cup {Unjudged}]
    BY DEF reconciled, reconcile, Judgements
  <2>3. QED
    BY <1>7, <2>1, <2>2 DEF Judge, environment, files
<1>8. CASE OpenEvidence
  BY <1>8 DEF OpenEvidence, environment, Files
<1>9. CASE DumpEvidence
  BY <1>9 DEF DumpEvidence, environment, Files
<1>10. CASE Crash
  BY <1>10 DEF Crash, environment, files
<1>11. CASE UNCHANGED vars
  BY <1>11 DEF vars
<1>12. QED
  BY <1>1, <1>2, <1>3, <1>4, <1>5, <1>6, <1>7, <1>8, <1>9, <1>10, <1>11
     DEF Next, Progress, Send

LEMMA TypeInit == Init => WellTyped
<1> SUFFICES ASSUME Init PROVE WellTyped
  OBVIOUS
<1>1. route \in RouteTables
  BY DEF Init
<1>2. scratch \in Scratch /\ ctx \in Contexts
  BY CatalogAssumption DEF Init, Scratch, Absent, FreshCtx, Contexts, Names
<1>3. verdict \in [Probes -> Verdicts \cup {Pending}]
      /\ judged \in [Probes -> Judgements \cup {Unjudged}]
  BY DEF Init
<1>4. evidence \in Files /\ parked \in Files
  BY DEF Init, Files, NoFile
<1>5. pos \in 1..(SuiteLen + 1) /\ runs \in Nat /\ faults \in Nat
  BY DEF Init, SuiteLen
<1>6. phase = "ended" /\ dark \in BOOLEAN /\ allow \in BOOLEAN /\ answered \in BOOLEAN
      /\ declared = {} /\ missing = {} /\ trouble = {}
  BY DEF Init
<1>7. QED
  BY <1>1, <1>2, <1>3, <1>4, <1>5, <1>6 DEF WellTyped, TypeOK

LEMMA AlwaysWellTyped == Spec => []WellTyped
<1>1. Init => WellTyped
  BY TypeInit
<1>2. WellTyped /\ [Next]_vars => WellTyped'
  BY TypeStep
<1>3. QED
  BY <1>1, <1>2, PTL DEF Spec

(* Every variable of the runner, its catalog and its files stays in its    *)
(* type.                                                                   *)
THEOREM TypeCorrect == Spec => []TypeOK
<1>1. WellTyped => TypeOK
  BY DEF WellTyped
<1>2. QED
  BY <1>1, AlwaysWellTyped, PTL

-----------------------------------------------------------------------------
(***************************************************************************)
(* The runner's names follow the catalog.                                  *)
(***************************************************************************)

(* What handling one request does to the names in the scratch namespace.   *)
LEMMA AppliedNames ==
  ASSUME NEW e, NEW s \in Scratch, NEW c \in Contexts,
         s.tables \subseteq {c.tbl}, s.views \subseteq {c.view}
  PROVE  LET t == Applied(e, s, c) IN
         /\ e # "rename_table" => t.tables \subseteq {c.tbl}
         /\ e # "rename_view"  => t.views \subseteq {c.view}
         /\ e = "rename_table" /\ Served(e, s, c) => t.tables \subseteq {Renamed(c.tbl)}
         /\ e = "rename_view" /\ Served(e, s, c)  => t.views \subseteq {Renamed(c.view)}
         /\ ~Served(e, s, c) => t = s
<1>1. CASE ~Served(e, s, c)
  BY <1>1 DEF Applied
<1>2. CASE Served(e, s, c)
  <2> USE <1>2 DEF Applied, Scratch, Contexts
  <2>1. CASE e = "create_namespace" BY <2>1
  <2>2. CASE e = "create_table" BY <2>2
  <2>3. CASE e = "rename_table" BY <2>3
  <2>4. CASE e = "drop_table" BY <2>4
  <2>5. CASE e = "create_view" BY <2>5
  <2>6. CASE e = "rename_view" BY <2>6
  <2>7. CASE e = "drop_view" BY <2>7
  <2>8. CASE e = "drop_namespace" BY <2>8
  <2>9. CASE e \notin {"create_namespace", "create_table", "rename_table",
                       "drop_table", "create_view", "rename_view",
                       "drop_view", "drop_namespace"}
    BY <2>9
  <2>10. QED
    BY <2>1, <2>2, <2>3, <2>4, <2>5, <2>6, <2>7, <2>8, <2>9
<1>3. QED
  BY <1>1, <1>2

(* A probe is recorded as OK exactly when the catalog carried it out.      *)
LEMMA VerdictIsServed ==
  ASSUME WellTyped, NEW p \in Probes \ HeadProbes
  PROVE  VerdictOf(p, Received(p, CatalogReply(p))) = OK
         <=> Reached(p) /\ Served(Signature(p), scratch, ctx)
<1> DEFINE r == CatalogReply(p)
<1>1. Received(p, r) = r
  BY DEF Received
<1>2. CASE Reached(p)
  <2>1. VerdictOf(p, Success) = OK
    BY DEF VerdictOf, classify, looks_like_error_body, Success, OK, None
  <2>2. VerdictOf(p, Conflict) # OK /\ VerdictOf(p, NotFound) # OK
    BY DEF VerdictOf, classify, looks_like_error_body, Conflict, NotFound, OK, None
  <2>3. r = Answer(Signature(p), scratch, ctx)
    BY <1>2 DEF CatalogReply
  <2>4. QED
    BY <1>1, <1>2, <2>1, <2>2, <2>3 DEF Answer
<1>3. CASE ~Reached(p)
  <2>1. r \in Replies /\ Refusal(r)
    <3>1. CASE p = "config" \/ ctx.prefix
      <4>1. r = route[p] /\ route[p] # Success
        BY <1>3, <3>1 DEF CatalogReply, Reached
      <4>2. QED
        BY <4>1, CatalogAssumption DEF WellTyped, TypeOK
    <3>2. CASE ~(p = "config" \/ ctx.prefix)
      BY <1>3, <3>2, CatalogAssumption DEF CatalogReply, Refusal
    <3>3. QED
      BY <3>1, <3>2
  <2>2. VerdictOf(p, r) # OK
    BY <2>1 DEF Refusal, VerdictOf, classify, OK, FALSE_OK, TRANSPORT_ERROR,
                Replies, None
  <2>3. QED
    BY <1>1, <1>3, <2>2
<1>4. QED
  BY <1>2, <1>3

LEMMA FaultVerdict ==
  ASSUME NEW p, NEW r \in Rejections \cup {NoReply}
  PROVE  VerdictOf(p, Received(p, r)) # OK
<1>1. r.status \notin 200..299
  BY CatalogAssumption DEF NoReply, None
<1>2. Received(p, r).status = r.status
  BY CatalogAssumption DEF Received, Replies, NoReply
<1>3. classify(r.status) # OK
  BY <1>1 DEF classify, OK, TRANSPORT_ERROR, None
<1>4. QED
  BY <1>2, <1>3 DEF VerdictOf, OK, FALSE_OK

(* A record that is not OK teaches the runner nothing. *)
LEMMA NothingLearned ==
  ASSUME NEW p, NEW v, v # OK
  PROVE  Learned(p, v) = ctx
BY DEF Learned

LEMMA TrackedAnswered ==
  ASSUME WellTyped, NamesTracked, SendAnswered,
         trouble \cap {"dirty", "lost"} = {}
  PROVE  scratch'.tables \subseteq {ctx'.tbl} /\ scratch'.views \subseteq {ctx'.view}
<1> DEFINE p == Current
           v == VerdictOf(p, Received(p, CatalogReply(p)))
<1>1. p \in Probes
  BY CurrentType DEF SendAnswered
<1>2. ctx' = Learned(p, v) /\ scratch' = AfterRequest(p)
  BY DEF SendAnswered, Record
<1>3. /\ scratch \in Scratch /\ ctx \in Contexts
      /\ scratch.tables \subseteq {ctx.tbl} /\ scratch.views \subseteq {ctx.view}
  BY DEF WellTyped, TypeOK, NamesTracked
<1>4. CASE p = "rename_table"
  <2>1. Signature(p) = "rename_table" /\ p \in Probes \ HeadProbes
    BY <1>1, <1>4 DEF Signature, UpdateActions, HeadProbes
  <2>2. CASE v = OK
    <3>1. Reached(p) /\ Served("rename_table", scratch, ctx)
      BY <2>1, <2>2, VerdictIsServed
    <3>2. ctx' = [ctx EXCEPT !.tbl = Renamed(@)]
      BY <1>2, <1>4, <2>2 DEF Learned
    <3>3. scratch' = Applied("rename_table", scratch, ctx)
      BY <1>2, <2>1, <3>1 DEF AfterRequest
    <3>4. ctx'.tbl = Renamed(ctx.tbl) /\ ctx'.view = ctx.view
      BY <1>3, <3>2 DEF Contexts
    <3>5. scratch'.tables \subseteq {Renamed(ctx.tbl)} /\ scratch'.views \subseteq {ctx.view}
      BY <1>3, <3>1, <3>3, AppliedNames
    <3>6. QED
      BY <3>4, <3>5
  <2>3. CASE v # OK
    <3>1. ctx' = ctx
      BY <1>2, <2>3, NothingLearned
    <3>2. ~(Reached(p) /\ Served("rename_table", scratch, ctx))
      BY <2>1, <2>3, VerdictIsServed
    <3>3. scratch' = scratch
      BY <1>2, <1>3, <2>1, <3>2, AppliedNames DEF AfterRequest
    <3>4. QED
      BY <1>3, <3>1, <3>3
  <2>4. QED
    BY <2>2, <2>3
<1>5. CASE p = "rename_view"
  <2>1. Signature(p) = "rename_view" /\ p \in Probes \ HeadProbes
    BY <1>1, <1>5 DEF Signature, UpdateActions, HeadProbes
  <2>2. CASE v = OK
    <3>1. Reached(p) /\ Served("rename_view", scratch, ctx)
      BY <2>1, <2>2, VerdictIsServed
    <3>2. ctx' = [ctx EXCEPT !.view = Renamed(@)]
      BY <1>2, <1>5, <2>2 DEF Learned
    <3>3. scratch' = Applied("rename_view", scratch, ctx)
      BY <1>2, <2>1, <3>1 DEF AfterRequest
    <3>4. ctx'.view = Renamed(ctx.view) /\ ctx'.tbl = ctx.tbl
      BY <1>3, <3>2 DEF Contexts
    <3>5. scratch'.views \subseteq {Renamed(ctx.view)} /\ scratch'.tables \subseteq {ctx.tbl}
      BY <1>3, <3>1, <3>3, AppliedNames
    <3>6. QED
      BY <3>4, <3>5
  <2>3. CASE v # OK
    <3>1. ctx' = ctx
      BY <1>2, <2>3, NothingLearned
    <3>2. ~(Reached(p) /\ Served("rename_view", scratch, ctx))
      BY <2>1, <2>3, VerdictIsServed
    <3>3. scratch' = scratch
      BY <1>2, <1>3, <2>1, <3>2, AppliedNames DEF AfterRequest
    <3>4. QED
      BY <1>3, <3>1, <3>3
  <2>4. QED
    BY <2>2, <2>3
<1>6. CASE p \notin {"rename_table", "rename_view"}
  <2>1. ctx'.tbl = ctx.tbl /\ ctx'.view = ctx.view
    BY <1>2, <1>3, <1>6 DEF Learned, Contexts
  <2>2. Signature(p) \notin {"rename_table", "rename_view"}
    BY <1>6 DEF Signature
  <2>3. scratch'.tables \subseteq {ctx.tbl} /\ scratch'.views \subseteq {ctx.view}
    BY <1>2, <1>3, <2>2, AppliedNames DEF AfterRequest
  <2>4. QED
    BY <2>1, <2>3
<1>7. QED
  BY <1>4, <1>5, <1>6

(* As long as no reply of the pass was lost, the scratch objects exist     *)
(* only under the names the cleanup probes will address.                   *)
THEOREM NamesAreTracked == Spec => []NamesTracked
<1>1. Init => NamesTracked
  BY DEF Init, NamesTracked, Absent
<1>2. ASSUME WellTyped, NamesTracked, [Next]_vars
      PROVE  NamesTracked'
  <2> SUFFICES ASSUME trouble' \cap {"dirty", "lost"} = {}
               PROVE  /\ scratch'.tables \subseteq {ctx'.tbl}
                      /\ scratch'.views \subseteq {ctx'.view}
    BY DEF NamesTracked
  <2>1. CASE StartRun
    BY <2>1 DEF StartRun, Absent
  <2>2. CASE SendAnswered
    BY <1>2, <2>2, TrackedAnswered DEF SendAnswered
  <2>3. CASE SendRejected
    <3>1. ctx' = ctx
      BY <2>3, FaultVerdict, NothingLearned DEF SendRejected, Record
    <3>2. QED
      BY <1>2, <2>3, <3>1 DEF SendRejected, NamesTracked
  <2>4. CASE SendUnsent
    <3>1. Received(Current, NoReply) = NoReply
      BY DEF Received, NoReply
    <3>2. ctx' = ctx
      BY <2>4, <3>1, FaultVerdict, NothingLearned DEF SendUnsent, Record
    <3>3. QED
      BY <1>2, <2>4, <3>2 DEF SendUnsent, NamesTracked
  <2>5. CASE SendLost
    BY <2>5 DEF SendLost
  <2>6. CASE SkipWrites \/ Judge \/ OpenEvidence \/ DumpEvidence \/ Crash
             \/ UNCHANGED vars
    BY <1>2, <2>6 DEF SkipWrites, Judge, OpenEvidence, DumpEvidence, Crash, vars,
                      NamesTracked
  <2>7. QED
    BY <1>2, <2>1, <2>2, <2>3, <2>4, <2>5, <2>6 DEF Next, Progress, Send
<1>3. QED
  BY <1>1, <1>2, AlwaysWellTyped, PTL DEF Spec

-----------------------------------------------------------------------------
(***************************************************************************)
(* Credit.  Inductive invariant: a probe with a body is recorded OK only   *)
(* if the catalog serves it, and what has been judged to work was recorded *)
(* OK by some probe of the endpoint.                                       *)
(***************************************************************************)
CreditRecorded ==
  \A p \in Probes \ HeadProbes : verdict[p] = OK => route[p] = Success

CreditJudged ==
  \A e \in Endpoints \ HeadProbes :
    judged[e] \in {HONEST, UNDECLARED_OK} =>
      \E q \in Probes : Signature(q) = e /\ route[q] = Success

CreditInv == CreditRecorded /\ CreditJudged

LEMMA HeadSignature ==
  ASSUME NEW q \in HeadProbes
  PROVE  Signature(q) = q
BY DEF HeadProbes, Signature, UpdateActions

(* One record: only the catalog's own answer can be OK. *)
LEMMA CreditStep ==
  ASSUME WellTyped, CreditRecorded, Probing, NEW r, Record(Current, r),
         route' = route,
         VerdictOf(Current, r) = OK /\ Current \notin HeadProbes
           => route[Current] = Success
  PROVE  CreditRecorded'
<1>1. verdict' = [verdict EXCEPT ![Current] = VerdictOf(Current, r)]
  BY DEF Record
<1>2. SUFFICES ASSUME NEW p \in Probes \ HeadProbes, verdict'[p] = OK
               PROVE  route[p] = Success
  BY DEF CreditRecorded
<1>3. CASE p = Current
  BY <1>1, <1>2, <1>3 DEF WellTyped, TypeOK
<1>4. CASE p # Current
  BY <1>1, <1>2, <1>4 DEF WellTyped, TypeOK, CreditRecorded
<1>5. QED
  BY <1>3, <1>4

(* An endpoint that answers in bodies is credited only if it is served.    *)
THEOREM CreditIsEarned == Spec => []NoFalseCredit
<1>1. Init => CreditInv
  BY DEF Init, CreditInv, CreditRecorded, CreditJudged, Pending, OK, Unjudged,
         HONEST, UNDECLARED_OK, Endpoints
<1>2. ASSUME WellTyped, CreditInv, [Next]_vars
      PROVE  CreditInv'
  <2> USE <1>2 DEF CreditInv
  <2>1. CASE StartRun
    <3>1. verdict' = [p \in Probes |-> Pending] /\ judged' = [p \in Probes |-> Unjudged]
      BY <2>1 DEF StartRun
    <3>2. QED
      BY <3>1 DEF CreditRecorded, CreditJudged, Pending, OK, Unjudged, HONEST,
                  UNDECLARED_OK, Endpoints
  <2>2. CASE SendAnswered
    <3>1. Current \in Probes /\ Probing
      BY <2>2, CurrentType DEF SendAnswered
    <3>2. UNCHANGED <<route, judged>>
          /\ Record(Current, Received(Current, CatalogReply(Current)))
      BY <2>2 DEF SendAnswered, environment
    <3>3. CreditRecorded'
      BY <3>1, <3>2, VerdictIsServed, CreditStep DEF Reached
    <3>4. QED
      BY <3>2, <3>3 DEF CreditJudged
  <2>3. CASE SendRejected
    <3>1. PICK r \in Rejections : Record(Current, Received(Current, r))
      BY <2>3 DEF SendRejected
    <3>2. UNCHANGED <<route, judged>> /\ Probing
      BY <2>3 DEF SendRejected, environment
    <3>3. CreditRecorded'
      BY <3>1, <3>2, FaultVerdict, CreditStep
    <3>4. QED
      BY <3>2, <3>3 DEF CreditJudged
  <2>4. CASE SendUnsent
    <3>1. UNCHANGED <<route, judged>> /\ Probing /\ Record(Current, NoReply)
      BY <2>4 DEF SendUnsent, environment
    <3>2. Received(Current, NoReply) = NoReply
      BY DEF Received, NoReply
    <3>3. CreditRecorded'
      BY <3>1, <3>2, FaultVerdict, CreditStep
    <3>4. QED
      BY <3>1, <3>3 DEF CreditJudged
  <2>5. CASE SendLost
    <3>1. PICK r \in {NoReply} \cup {x \in Rejections : x.status >= 500} :
            Record(Current, Received(Current, r))
      BY <2>5 DEF SendLost
    <3>2. UNCHANGED <<route, judged>> /\ Probing
      BY <2>5 DEF SendLost, environment
    <3>3. CreditRecorded'
      BY <3>1, <3>2, FaultVerdict, CreditStep
    <3>4. QED
      BY <3>2, <3>3 DEF CreditJudged
  <2>6. CASE SkipWrites
    <3>1. \A p \in Probes : verdict'[p] = OK => verdict[p] = OK
      BY <2>6 DEF SkipWrites, SKIPPED, OK
    <3>2. QED
      BY <2>6, <3>1 DEF SkipWrites, environment, CreditRecorded, CreditJudged
  <2>7. CASE Judge
    <3>1. UNCHANGED route /\ verdict' = mark_indeterminate
          /\ judged' = reconciled(mark_indeterminate)
      BY <2>7 DEF Judge, environment
    <3>2. \A p \in Probes : verdict'[p] = OK => verdict[p] = OK
      BY <3>1 DEF mark_indeterminate, INDETERMINATE, OK
    <3>3. CreditRecorded'
      BY <3>1, <3>2 DEF CreditRecorded
    <3>4. ASSUME NEW e \in Endpoints \ HeadProbes, judged'[e] \in {HONEST, UNDECLARED_OK}
          PROVE  \E q \in Probes : Signature(q) = e /\ route[q] = Success
      <4>1. Works(mark_indeterminate, e)
        BY <3>1, <3>4 DEF reconciled, reconcile, Endpoints, HONEST, UNDECLARED_OK,
                          OVERCLAIM, HONEST_OMISSION, Unjudged
      <4>2. PICK q \in Probes : Signature(q) = e /\ mark_indeterminate[q] = OK
        BY <4>1 DEF Works
      <4>3. q \notin HeadProbes
        BY <3>4, <4>2, HeadSignature
      <4>4. QED
        BY <3>1, <3>2, <4>2, <4>3 DEF CreditRecorded
    <3>5. QED
      BY <3>1, <3>3, <3>4 DEF CreditJudged
  <2>8. CASE OpenEvidence \/ DumpEvidence \/ Crash \/ UNCHANGED vars
    BY <2>8 DEF OpenEvidence, DumpEvidence, Crash, environment, vars,
                CreditRecorded, CreditJudged
  <2>9. QED
    BY <2>1, <2>2, <2>3, <2>4, <2>5, <2>6, <2>7, <2>8 DEF Next, Progress, Send
<1>3. CreditInv => NoFalseCredit
  BY DEF CreditInv, CreditJudged, NoFalseCredit
<1>4. QED
  BY <1>1, <1>2, <1>3, AlwaysWellTyped, PTL DEF Spec

-----------------------------------------------------------------------------
(***************************************************************************)
(* Residue.  The order of the suite does the work: tables are created only *)
(* before drop_table, views only before drop_view, and drop_namespace is   *)
(* last.                                                                   *)
(***************************************************************************)
Mutators ==
  { "create_namespace", "create_table", "rename_table", "drop_table",
    "create_view", "rename_view", "drop_view", "drop_namespace" }

LEMMA SuiteLandmarks ==
  /\ Suite[1] = "config" /\ Suite[26] = "drop_table"
  /\ Suite[32] = "drop_view" /\ Suite[33] = "drop_namespace"
BY DEF Suite

LEMMA SuiteOrder ==
  ASSUME NEW i \in 1..SuiteLen
  PROVE  /\ Signature(Suite[i]) = "create_table" => i < 26
         /\ Signature(Suite[i]) = "create_view" => i < 32
         /\ i <= ReadLen => Signature(Suite[i]) \notin Mutators
BY SMTT(60) DEF Suite, SuiteLen, ReadLen, Signature, UpdateActions, Mutators

(* What holds of the scratch namespace while nothing has gone wrong. *)
Contained ==
  /\ ~scratch.ns => scratch.tables = {} /\ scratch.views = {}
  /\ route["create_table"] # Success => scratch.tables = {}
  /\ route["create_view"] # Success => scratch.views = {}

(* ... and how far the cleanup has got by position pos. *)
CleanedUp ==
  /\ pos > 1 => ctx.prefix
  /\ pos <= ReadLen + 1 => scratch = Absent
  /\ pos > 26 /\ TablesDroppable => scratch.tables = {}
  /\ pos > 32 /\ ViewsDroppable => scratch.views = {}
  /\ pos > 33 /\ CleanupServed /\ route["drop_namespace"] = Success
       => scratch = Absent

ResidueInv == trouble = {} => Contained /\ CleanedUp

(* The effect of one request, as far as residue is concerned. *)
LEMMA AppliedResidue ==
  ASSUME NEW e, NEW s \in Scratch, NEW c \in Contexts,
         s.tables \subseteq {c.tbl}, s.views \subseteq {c.view},
         ~s.ns => s.tables = {} /\ s.views = {}
  PROVE  LET t == Applied(e, s, c) IN
         /\ ~t.ns => t.tables = {} /\ t.views = {}
         /\ e # "create_table" /\ s.tables = {} => t.tables = {}
         /\ e # "create_view" /\ s.views = {} => t.views = {}
         /\ e = "drop_table" => t.tables = {}
         /\ e = "drop_view" => t.views = {}
         /\ e = "drop_namespace" /\ s.tables = {} /\ s.views = {} => t = Absent
         /\ e \notin Mutators => t = s
<1> USE DEF Scratch, Contexts
<1>1. CASE ~Served(e, s, c)
  <2>1. Applied(e, s, c) = s
    BY <1>1 DEF Applied
  <2>2. e = "drop_table" => s.tables = {}
    BY <1>1 DEF Served, Addressed, Unopposed
  <2>3. e = "drop_view" => s.views = {}
    BY <1>1 DEF Served, Addressed, Unopposed
  <2>4. e = "drop_namespace" /\ s.tables = {} /\ s.views = {} => s = Absent
    BY <1>1 DEF Served, Addressed, Unopposed, Absent
  <2>5. QED
    BY <2>1, <2>2, <2>3, <2>4
<1>2. CASE Served(e, s, c)
  <2> USE <1>2 DEF Applied, Mutators
  <2>1. CASE e = "create_namespace" BY <2>1
  <2>2. CASE e = "create_table" BY <2>2 DEF Served, Addressed
  <2>3. CASE e = "rename_table" BY <2>3 DEF Served, Addressed
  <2>4. CASE e = "drop_table" BY <2>4
  <2>5. CASE e = "create_view" BY <2>5 DEF Served, Addressed
  <2>6. CASE e = "rename_view" BY <2>6 DEF Served, Addressed
  <2>7. CASE e = "drop_view" BY <2>7
  <2>8. CASE e = "drop_namespace" BY <2>8 DEF Served, Unopposed, Absent
  <2>9. CASE e \notin Mutators BY <2>9
  <2>10. QED
    BY <2>1, <2>2, <2>3, <2>4, <2>5, <2>6, <2>7, <2>8, <2>9
<1>3. QED
  BY <1>1, <1>2

LEMMA MutatorSignature ==
  ASSUME NEW p, Signature(p) \in {"create_table", "create_view"}
  PROVE  Signature(p) = p
BY DEF Signature, UpdateActions

LEMMA ResidueAnswered ==
  ASSUME WellTyped, NamesTracked, ResidueInv, SendAnswered, trouble = {}
  PROVE  Contained' /\ CleanedUp'
<1> DEFINE p == Current
           e == Signature(p)
<1>1. /\ p = Suite[pos] /\ p \in Probes /\ pos \in 1..33
      /\ pos' = pos + 1 /\ scratch' = AfterRequest(p) /\ route' = route
      /\ ctx' = Learned(p, VerdictOf(p, Received(p, CatalogReply(p))))
  BY CurrentType DEF SendAnswered, Record, Current, SuiteLen, environment
<1>2. /\ scratch \in Scratch /\ ctx \in Contexts /\ Contained /\ CleanedUp
      /\ scratch.tables \subseteq {ctx.tbl} /\ scratch.views \subseteq {ctx.view}
  BY DEF WellTyped, TypeOK, NamesTracked, ResidueInv
<1> DEFINE t == Applied(e, scratch, ctx)
<1>3. /\ ~t.ns => t.tables = {} /\ t.views = {}
      /\ e # "create_table" /\ scratch.tables = {} => t.tables = {}
      /\ e # "create_view" /\ scratch.views = {} => t.views = {}
      /\ e = "drop_table" => t.tables = {}
      /\ e = "drop_view" => t.views = {}
      /\ e = "drop_namespace" /\ scratch.tables = {} /\ scratch.views = {} => t = Absent
      /\ e \notin Mutators => t = scratch
  BY <1>2, AppliedResidue DEF Contained
<1>4. scratch' = IF Reached(p) THEN t ELSE scratch
  BY <1>1 DEF AfterRequest
<1>5. /\ e = "create_table" => pos < 26
      /\ e = "create_view" => pos < 32
      /\ pos <= ReadLen => e \notin Mutators
  BY <1>1, SuiteOrder DEF SuiteLen
<1>6. Contained'
  <2>1. ~scratch'.ns => scratch'.tables = {} /\ scratch'.views = {}
    BY <1>2, <1>3, <1>4 DEF Contained
  <2>2. ASSUME route["create_table"] # Success
        PROVE  scratch'.tables = {}
    <3>1. Reached(p) => e # "create_table"
      BY <2>2, MutatorSignature DEF Reached
    <3>2. QED
      BY <1>2, <1>3, <1>4, <2>2, <3>1 DEF Contained
  <2>3. ASSUME route["create_view"] # Success
        PROVE  scratch'.views = {}
    <3>1. Reached(p) => e # "create_view"
      BY <2>3, MutatorSignature DEF Reached
    <3>2. QED
      BY <1>2, <1>3, <1>4, <2>3, <3>1 DEF Contained
  <2>4. QED
    BY <1>1, <2>1, <2>2, <2>3 DEF Contained
<1>7. ctx'.prefix
  <2>1. CASE pos = 1
    <3>1. p = "config" /\ p \in Probes \ HeadProbes /\ Reached(p)
      BY <1>1, <2>1, SuiteLandmarks, CatalogAssumption DEF Reached, HeadProbes, WellTyped, TypeOK
    <3>2. Served(e, scratch, ctx)
      BY <3>1 DEF Served, Addressed, Unopposed, Signature, UpdateActions
    <3>3. ctx' = [ctx EXCEPT !.prefix = TRUE]
      BY <1>1, <3>1, <3>2, VerdictIsServed DEF Learned
    <3>4. QED
      BY <1>2, <3>3 DEF Contexts
  <2>2. CASE pos > 1
    BY <1>1, <1>2, <2>2 DEF CleanedUp, Learned, Contexts
  <2>3. QED
    BY <1>1, <2>1, <2>2
<1>8. pos' <= ReadLen + 1 => scratch' = Absent
  BY <1>1, <1>2, <1>3, <1>4, <1>5 DEF CleanedUp, ReadLen
<1>9. ASSUME pos' > 26, TablesDroppable
      PROVE  scratch'.tables = {}
  <2>1. CASE pos = 26
    <3>1. p = "drop_table" /\ e = "drop_table" /\ ctx.prefix
      BY <1>1, <1>2, <2>1, SuiteLandmarks DEF Signature, UpdateActions, CleanedUp
    <3>2. CASE route["drop_table"] = Success
      BY <1>3, <1>4, <3>1, <3>2 DEF Reached
    <3>3. CASE route["create_table"] # Success
      BY <1>1, <1>6, <3>3 DEF Contained
    <3>4. QED
      BY <1>9, <3>2, <3>3 DEF TablesDroppable
  <2>2. CASE pos > 26
    BY <1>1, <1>2, <1>3, <1>4, <1>5, <1>9, <2>2 DEF CleanedUp
  <2>3. QED
    BY <1>1, <1>9, <2>1, <2>2
<1>10. ASSUME pos' > 32, ViewsDroppable
       PROVE  scratch'.views = {}
  <2>1. CASE pos = 32
    <3>1. p = "drop_view" /\ e = "drop_view" /\ ctx.prefix
      BY <1>1, <1>2, <2>1, SuiteLandmarks DEF Signature, UpdateActions, CleanedUp
    <3>2. CASE route["drop_view"] = Success
      BY <1>3, <1>4, <3>1, <3>2 DEF Reached
    <3>3. CASE route["create_view"] # Success
      BY <1>1, <1>6, <3>3 DEF Contained
    <3>4. QED
      BY <1>10, <3>2, <3>3 DEF ViewsDroppable
  <2>2. CASE pos > 32
    BY <1>1, <1>2, <1>3, <1>4, <1>5, <1>10, <2>2 DEF CleanedUp
  <2>3. QED
    BY <1>1, <1>10, <2>1, <2>2
<1>11. ASSUME pos' > 33, CleanupServed, route["drop_namespace"] = Success
       PROVE  scratch' = Absent
  <2>1. pos = 33 /\ p = "drop_namespace" /\ e = "drop_namespace" /\ ctx.prefix
    BY <1>1, <1>2, <1>11, SuiteLandmarks DEF Signature, UpdateActions, CleanedUp
  <2>2. scratch.tables = {} /\ scratch.views = {}
    BY <1>2, <1>11, <2>1 DEF CleanedUp, CleanupServed
  <2>3. QED
    BY <1>3, <1>4, <1>11, <2>1, <2>2 DEF Reached
<1>12. QED
  BY <1>1, <1>6, <1>7, <1>8, <1>9, <1>10, <1>11
     DEF CleanedUp, TablesDroppable, ViewsDroppable, CleanupServed

LEMMA AlwaysContained == Spec => []ResidueInv
<1>1. Init => ResidueInv
  BY DEF Init, ResidueInv, Contained, CleanedUp, Absent
<1>2. ASSUME WellTyped, NamesTracked, ResidueInv, [Next]_vars
      PROVE  ResidueInv'
  <2> SUFFICES ASSUME trouble' = {}
               PROVE  Contained' /\ CleanedUp'
    BY DEF ResidueInv
  <2>1. CASE StartRun
    <3>1. scratch' = Absent /\ pos' = 1
      BY <2>1 DEF StartRun
    <3>2. QED
      BY <3>1 DEF Contained, CleanedUp, Absent
  <2>2. CASE SendAnswered
    BY <1>2, <2>2, ResidueAnswered DEF SendAnswered
  <2>3. CASE SendRejected \/ SendUnsent \/ SendLost
    BY <2>3 DEF SendRejected, SendUnsent, SendLost
  <2>4. CASE SkipWrites
    <3>1. scratch = Absent /\ scratch' = Absent /\ ctx' = ctx /\ ctx.prefix
          /\ UNCHANGED route
      BY <1>2, <2>4 DEF SkipWrites, ResidueInv, CleanedUp, environment, ReadLen
    <3>2. QED
      BY <3>1 DEF Contained, CleanedUp, Absent
  <2>5. CASE Judge \/ OpenEvidence \/ DumpEvidence \/ Crash \/ UNCHANGED vars
    <3>1. UNCHANGED <<route, scratch, pos, ctx, trouble>>
      BY <2>5 DEF Judge, OpenEvidence, DumpEvidence, Crash, environment, vars
    <3>2. QED
      BY <1>2, <3>1 DEF ResidueInv, Contained, CleanedUp, TablesDroppable,
                        ViewsDroppable, CleanupServed
  <2>6. QED
    BY <1>2, <2>1, <2>2, <2>3, <2>4, <2>5 DEF Next, Progress, Send
<1>3. QED
  BY <1>1, <1>2, AlwaysWellTyped, NamesAreTracked, PTL DEF Spec

(* A faultless pass over a catalog that serves the drops leaves nothing.   *)
THEOREM NoResidue == Spec => []NothingLeftBehind
<1>1. ResidueInv => NothingLeftBehind
  BY DEF ResidueInv, CleanedUp, NothingLeftBehind, SuiteLen
<1>2. QED
  BY <1>1, AlwaysContained, PTL

-----------------------------------------------------------------------------
(***************************************************************************)
(* Judgement.  While nothing has gone wrong, the verdict of a probe tells  *)
(* whether the catalog serves it, for three reasons: what a probe needs is *)
(* either standing when its turn comes or its fixture is not OK, nothing   *)
(* that stands is in its way, and a fixture's verdict is in before the     *)
(* first probe that depends on it.                                         *)
(***************************************************************************)
Recorded(p) == verdict[p] # Pending

(* A probe of its own that the catalog serves is OK, unless the suite has  *)
(* already done its work by another or its fixture is missing.             *)
ServedIsFine(p) ==
  p \in Endpoints /\ route[p] = Success /\ (p = "drop_namespace" => CleanupServed) =>
    \/ verdict[p] \in {OK, SKIPPED}
    \/ p = "drop_table" /\ verdict["drop_table_purge"] = OK
    \/ DependsOn(p) # NoProbe /\ verdict[DependsOn(p)] # OK

(* One that it does not serve is not OK, and known to be missing if the    *)
(* refusal says so.                                                        *)
RefusedIsKnown(p) ==
  p \notin HeadProbes /\ route[p] # Success =>
    /\ verdict[p] # OK
    /\ route_is_missing(route[p]) => p \in missing \/ verdict[p] = SKIPPED

RecordSound ==
  /\ \A p \in missing : route[p] # Success
  /\ \A i \in 1..SuiteLen : i < pos => Recorded(Suite[i])
  /\ pos <= 15 => ~Recorded("create_namespace")
  /\ pos <= 17 => ~Recorded("create_table")
  /\ pos <= 25 => ~Recorded("drop_table_purge")
  /\ pos <= 27 => ~Recorded("create_view")
  /\ \A p \in Probes : Recorded(p) =>
       /\ DependsOn(p) # NoProbe => Recorded(DependsOn(p))
       /\ p = "drop_table" => Recorded("drop_table_purge")
       /\ ServedIsFine(p) /\ RefusedIsKnown(p)
       /\ verdict[p] # INDETERMINATE /\ (allow => verdict[p] # SKIPPED)

(* What stands on the catalog at each place of the suite, and under which  *)
(* names the runner knows it.                                              *)
Standing ==
  /\ pos <= 17 => scratch.tables = {}
  /\ pos <= 27 => scratch.views = {}
  /\ pos <= 24 => ctx.tbl = "probe"
  /\ pos <= 31 => ctx.view = "probe"
  /\ pos \in 16..33 /\ verdict["create_namespace"] = OK => scratch.ns
  /\ pos \in 18..26 /\ verdict["create_table"] = OK =>
       \/ ctx.tbl \in scratch.tables /\ ctx.uuid
       \/ pos = 26 /\ verdict["drop_table_purge"] = OK
  /\ pos \in 28..32 /\ verdict["create_view"] = OK => ctx.view \in scratch.views

SoundInv ==
  /\ trouble = {} /\ phase = "probing" => RecordSound /\ Standing
  /\ NoFalseFailure /\ MissingRouteScored

(* Where the probes stand that others depend on, and what depends on them. *)
LEMMA SuitePlaces ==
  ASSUME NEW i \in 1..SuiteLen
  PROVE  /\ Suite[i] = "create_namespace" <=> i = 15
         /\ Suite[i] = "create_table" <=> i = 17
         /\ Suite[i] = "rename_table" <=> i = 24
         /\ Suite[i] = "drop_table_purge" <=> i = 25
         /\ Suite[i] = "drop_table" <=> i = 26
         /\ Suite[i] = "create_view" <=> i = 27
         /\ Suite[i] = "rename_view" <=> i = 31
         /\ Suite[i] = "drop_view" <=> i = 32
         /\ Suite[i] = "drop_namespace" <=> i = 33
BY SMTT(60) DEF Suite, SuiteLen

LEMMA SuiteDependence ==
  ASSUME NEW i \in 1..SuiteLen
  PROVE  /\ DependsOn(Suite[i]) = "create_namespace" => i \in {16, 17, 27, 33}
         /\ DependsOn(Suite[i]) = "create_table" => i \in 18..26
         /\ DependsOn(Suite[i]) = "create_view" => i \in 28..32
BY SMTT(60) DEF Suite, SuiteLen, DependsOn, UpdateActions, NoProbe

LEMMA SuiteSignatures ==
  ASSUME NEW i \in 1..SuiteLen
  PROVE  /\ Signature(Suite[i]) = "create_namespace" <=> i = 15
         /\ Signature(Suite[i]) = "create_table" <=> i = 17
         /\ Signature(Suite[i]) = "rename_table" <=> i = 24
         /\ Signature(Suite[i]) = "drop_table" <=> i \in {25, 26}
         /\ Signature(Suite[i]) = "create_view" <=> i = 27
         /\ Signature(Suite[i]) = "rename_view" <=> i = 31
         /\ Signature(Suite[i]) = "drop_view" <=> i = 32
         /\ Signature(Suite[i]) = "drop_namespace" <=> i = 33
BY SMTT(60) DEF Suite, SuiteLen, Signature, UpdateActions

LEMMA DependenceKinds ==
  ASSUME NEW p
  PROVE  DependsOn(p) \in {NoProbe, "create_namespace", "create_table", "create_view"}
BY DEF DependsOn

(* What a request leaves alone. *)
LEMMA AppliedKeeps ==
  ASSUME NEW e, NEW s \in Scratch, NEW c \in Contexts
  PROVE  LET t == Applied(e, s, c) IN
         /\ e # "drop_namespace" /\ s.ns => t.ns
         /\ e \notin {"create_table", "rename_table", "drop_table"} => t.tables = s.tables
         /\ e \notin {"create_view", "rename_view", "drop_view"} => t.views = s.views
<1> USE DEF Scratch, Contexts, Applied
<1>1. CASE e = "create_namespace" BY <1>1
<1>2. CASE e = "create_table" BY <1>2
<1>3. CASE e = "rename_table" BY <1>3
<1>4. CASE e = "drop_table" BY <1>4
<1>5. CASE e = "create_view" BY <1>5
<1>6. CASE e = "rename_view" BY <1>6
<1>7. CASE e = "drop_view" BY <1>7
<1>8. CASE e = "drop_namespace" BY <1>8
<1>9. CASE e \notin Mutators BY <1>9 DEF Mutators
<1>10. QED
  BY <1>1, <1>2, <1>3, <1>4, <1>5, <1>6, <1>7, <1>8, <1>9 DEF Mutators

(* Whatever the catalog serves is recorded as OK, a HEAD too. *)
LEMMA ServedIsOk ==
  ASSUME NEW p, Reached(p), Served(Signature(p), scratch, ctx)
  PROVE  VerdictOf(p, Received(p, CatalogReply(p))) = OK
<1>1. CatalogReply(p) = Success
  BY DEF CatalogReply, Answer
<1>2. Received(p, Success) \in {[status |-> 200, body |-> "plain"], [status |-> 200, body |-> "none"]}
  BY DEF Received, Success
<1>3. QED
  BY <1>1, <1>2 DEF VerdictOf, classify, looks_like_error_body, OK, None

(* An endpoint that is served does not say that its route is missing. *)
LEMMA ReachedIsThere ==
  ASSUME NEW p, Reached(p)
  PROVE  ~route_is_missing(Received(p, CatalogReply(p)))
<1>1. CatalogReply(p) \in {Success, Conflict, NotFound}
  BY DEF CatalogReply, Answer
<1>2. QED
  BY <1>1 DEF Received, Success, Conflict, NotFound, route_is_missing

(* The pass as it stands before a request, all that went before being well.*)
PassFacts == WellTyped /\ NamesTracked /\ Contained /\ CleanedUp /\ RecordSound /\ Standing

(* A probe whose fixture was made finds it, and nothing in its way. *)
LEMMA FixtureFound ==
  ASSUME PassFacts, trouble = {}, Probing, Current \in Endpoints,
         DependsOn(Current) # NoProbe => verdict[DependsOn(Current)] = OK,
         Current = "drop_namespace" => CleanupServed,
         Current = "drop_table" => verdict["drop_table_purge"] # OK
  PROVE  Served(Current, scratch, ctx)
<1>1. pos \in 1..SuiteLen /\ Current = Suite[pos]
  BY CurrentType DEF Current, PassFacts
<1>2. /\ Current = "create_namespace" <=> pos = 15
      /\ Current = "rename_table" <=> pos = 24
      /\ Current = "rename_view" <=> pos = 31
  BY <1>1, SuitePlaces
<1>3. /\ scratch \in Scratch /\ ctx \in Contexts
      /\ scratch.tables \subseteq {ctx.tbl} /\ scratch.views \subseteq {ctx.view}
  BY DEF PassFacts, WellTyped, TypeOK, NamesTracked
<1>4. Standing /\ CleanedUp
  BY DEF PassFacts
<1>5. CASE DependsOn(Current) = "create_namespace"
  <2>1. pos \in {16, 17, 27, 33} /\ scratch.ns
    BY <1>1, <1>4, <1>5, SuiteDependence DEF Standing, NoProbe
  <2>2. CASE pos \in {16, 17}
    BY <1>1, <1>3, <1>4, <2>1, <2>2, SuitePlaces DEF Standing, Served, Addressed, Unopposed, Suite
  <2>3. CASE pos = 27
    BY <1>1, <1>3, <1>4, <2>1, <2>3, SuitePlaces DEF Standing, Served, Addressed, Unopposed
  <2>4. CASE pos = 33
    <3>1. Current = "drop_namespace" /\ CleanupServed
      BY <1>1, <2>4, SuitePlaces
    <3>2. scratch.tables = {} /\ scratch.views = {}
      BY <1>4, <2>4, <3>1 DEF CleanedUp, CleanupServed
    <3>3. QED
      BY <2>1, <3>1, <3>2 DEF Served, Addressed, Unopposed
  <2>5. QED
    BY <2>1, <2>2, <2>3, <2>4
<1>6. CASE DependsOn(Current) = "create_table"
  <2>1. pos \in 18..26
    BY <1>1, <1>6, SuiteDependence
  <2>2. ctx.tbl \in scratch.tables /\ ctx.uuid
    BY <1>1, <1>4, <1>6, <2>1, SuitePlaces DEF Standing, NoProbe
  <2>3. Current \in {"commit_table", "commit_transaction", "rename_table", "drop_table"}
    BY <1>6 DEF DependsOn, NoProbe, Endpoints, Variants, UpdateActions
  <2>4. Current = "rename_table" => Renamed(ctx.tbl) \notin scratch.tables
    BY <1>1, <1>3, <1>4, <1>2 DEF Standing, Renamed
  <2>5. QED
    BY <2>2, <2>3, <2>4 DEF Served, Addressed, Unopposed
<1>7. CASE DependsOn(Current) = "create_view"
  <2>1. pos \in 28..32
    BY <1>1, <1>7, SuiteDependence
  <2>2. ctx.view \in scratch.views
    BY <1>4, <1>7, <2>1 DEF Standing, NoProbe
  <2>3. Current \in {"load_view", "head_view", "replace_view", "rename_view", "drop_view"}
    BY <1>7 DEF DependsOn, NoProbe
  <2>4. Current = "rename_view" => Renamed(ctx.view) \notin scratch.views
    BY <1>1, <1>3, <1>4, <1>2 DEF Standing, Renamed
  <2>5. QED
    BY <2>2, <2>3, <2>4 DEF Served, Addressed, Unopposed
<1>8. CASE DependsOn(Current) = NoProbe
  <2>1. Current \notin {"update_namespace_props", "create_table", "create_view",
          "drop_namespace", "commit_table", "commit_transaction", "rename_table", "drop_table",
          "load_view", "head_view", "replace_view", "rename_view", "drop_view"}
    BY <1>8 DEF DependsOn, NoProbe
  <2>2. Current = "create_namespace" => ~scratch.ns
    BY <1>1, <1>4, <1>2 DEF CleanedUp, ReadLen, Absent
  <2>3. QED
    BY <2>1, <2>2 DEF Served, Addressed, Unopposed
<1>9. QED
  BY <1>5, <1>6, <1>7, <1>8, DependenceKinds

(* What one answered request makes of the pass. *)
LEMMA AnsweredFacts ==
  ASSUME PassFacts, trouble = {}, SendAnswered, NEW v,
         v = VerdictOf(Current, Received(Current, CatalogReply(Current)))
  PROVE  /\ pos \in 1..33 /\ Current = Suite[pos] /\ Current \in Probes /\ Probing
         /\ pos' = pos + 1 /\ UNCHANGED <<route, phase, allow>>
         /\ verdict' = [verdict EXCEPT ![Current] = v]
         /\ ctx' = Learned(Current, v)
         /\ scratch' = IF Reached(Current) THEN Applied(Signature(Current), scratch, ctx) ELSE scratch
         /\ Current \notin HeadProbes =>
              (v = OK <=> Reached(Current) /\ Served(Signature(Current), scratch, ctx))
         /\ v \in Verdicts \ {SKIPPED, INDETERMINATE, Pending}
         /\ Current = "config" \/ ctx.prefix
<1>1. WellTyped /\ Probing /\ pos \in 1..33 /\ Current = Suite[pos] /\ Current \in Probes
  BY CurrentType DEF SendAnswered, PassFacts, Current, SuiteLen
<1>2. /\ pos' = pos + 1 /\ UNCHANGED <<route, phase, allow>>
      /\ verdict' = [verdict EXCEPT ![Current] = v]
      /\ ctx' = Learned(Current, v)
      /\ scratch' = IF Reached(Current) THEN Applied(Signature(Current), scratch, ctx) ELSE scratch
  BY DEF SendAnswered, Record, AfterRequest, environment
<1>3. Current \notin HeadProbes =>
        (v = OK <=> Reached(Current) /\ Served(Signature(Current), scratch, ctx))
  BY <1>1, VerdictIsServed
<1>4. v \in Verdicts \ {SKIPPED, INDETERMINATE, Pending}
  <2>1. v \in Verdicts \ {SKIPPED, INDETERMINATE}
    BY <1>1, ReplyType, VerdictType
  <2>2. Pending \notin Verdicts
    BY DEF Pending, Verdicts, Failures, OK, SKIPPED, FALSE_OK, TRANSPORT_ERROR, INDETERMINATE
  <2>3. QED
    BY <2>1, <2>2
<1>5. Current = "config" \/ ctx.prefix
  BY <1>1, SuiteLandmarks DEF PassFacts, CleanedUp
<1>6. QED
  BY <1>1, <1>2, <1>3, <1>4, <1>5

(* The names and the scratch objects after one answered request. *)
LEMMA StandingAnswered ==
  ASSUME PassFacts, trouble = {}, SendAnswered
  PROVE  Standing'
<1> DEFINE p == Current
           e == Signature(p)
           v == VerdictOf(p, Received(p, CatalogReply(p)))
           t == Applied(e, scratch, ctx)
<1>1. /\ pos \in 1..33 /\ p = Suite[pos] /\ p \in Probes
      /\ pos' = pos + 1
      /\ verdict' = [verdict EXCEPT ![p] = v]
      /\ ctx' = Learned(p, v)
      /\ scratch' = IF Reached(p) THEN t ELSE scratch
      /\ p \notin HeadProbes => (v = OK <=> Reached(p) /\ Served(e, scratch, ctx))
  BY AnsweredFacts
<1>2. /\ scratch \in Scratch /\ ctx \in Contexts /\ verdict \in [Probes -> Verdicts \cup {Pending}]
      /\ ~scratch.ns => scratch.tables = {} /\ scratch.views = {}
      /\ scratch.tables \subseteq {ctx.tbl} /\ scratch.views \subseteq {ctx.view}
      /\ Standing
  BY DEF PassFacts, WellTyped, TypeOK, NamesTracked, Contained
<1>3. /\ e = "create_namespace" <=> pos = 15
      /\ e = "create_table" <=> pos = 17
      /\ e = "rename_table" <=> pos = 24
      /\ e = "drop_table" <=> pos \in {25, 26}
      /\ e = "create_view" <=> pos = 27
      /\ e = "rename_view" <=> pos = 31
      /\ e = "drop_view" <=> pos = 32
      /\ e = "drop_namespace" <=> pos = 33
  BY <1>1, SuiteSignatures DEF SuiteLen
<1>4. /\ p = "create_namespace" <=> pos = 15
      /\ p = "create_table" <=> pos = 17
      /\ p = "rename_table" <=> pos = 24
      /\ p = "drop_table_purge" <=> pos = 25
      /\ p = "create_view" <=> pos = 27
      /\ p = "rename_view" <=> pos = 31
  BY <1>1, SuitePlaces DEF SuiteLen
<1>5. /\ e # "drop_namespace" /\ scratch.ns => t.ns
      /\ e \notin {"create_table", "rename_table", "drop_table"} => t.tables = scratch.tables
      /\ e \notin {"create_view", "rename_view", "drop_view"} => t.views = scratch.views
  BY <1>2, AppliedKeeps
<1>6. /\ e # "create_table" /\ scratch.tables = {} => t.tables = {}
      /\ e # "create_view" /\ scratch.views = {} => t.views = {}
  BY <1>2, AppliedResidue
<1>7. p \in {"create_namespace", "create_table", "rename_table", "drop_table_purge",
             "create_view", "rename_view"} =>
        (v = OK <=> Reached(p) /\ Served(e, scratch, ctx))
  BY <1>1 DEF HeadProbes
<1>8. /\ p # "rename_table" => ctx'.tbl = ctx.tbl
      /\ p # "rename_view" => ctx'.view = ctx.view
      /\ ctx.uuid => ctx'.uuid
      /\ p = "create_table" /\ v = OK => ctx'.uuid
      /\ v = OK /\ p = "rename_table" => ctx'.tbl = Renamed(ctx.tbl)
      /\ v = OK /\ p = "rename_view" => ctx'.view = Renamed(ctx.view)
      /\ v # OK => ctx' = ctx
  BY <1>1, <1>2 DEF Learned, Contexts
<1>9. /\ verdict'[p] = v
      /\ \A q \in Probes : q # p => verdict'[q] = verdict[q]
  BY <1>1, <1>2
<1>10. /\ "create_namespace" \in Probes /\ "create_table" \in Probes
       /\ "create_view" \in Probes /\ "drop_table_purge" \in Probes
  BY DEF Probes, Suite, SuiteLen
<1>11. /\ e = "create_namespace" /\ Served(e, scratch, ctx) => t.ns
       /\ e = "create_table" /\ Served(e, scratch, ctx) => ctx.tbl \in t.tables
       /\ e = "create_view" /\ Served(e, scratch, ctx) => ctx.view \in t.views
       /\ e = "rename_table" /\ Served(e, scratch, ctx) => Renamed(ctx.tbl) \in t.tables
       /\ e = "rename_view" /\ Served(e, scratch, ctx) => Renamed(ctx.view) \in t.views
       /\ ~Served(e, scratch, ctx) => t = scratch
  BY <1>2 DEF Applied, Scratch
<1> HIDE DEF p, e, v, t
<1>12. pos' <= 17 => scratch'.tables = {}
  BY <1>1, <1>2, <1>3, <1>6 DEF Standing
<1>13. pos' <= 27 => scratch'.views = {}
  BY <1>1, <1>2, <1>3, <1>6 DEF Standing
<1>14. (pos' <= 24 => ctx'.tbl = "probe") /\ (pos' <= 31 => ctx'.view = "probe")
  BY <1>1, <1>2, <1>4, <1>8 DEF Standing
<1>15. ASSUME pos' \in 16..33, verdict'["create_namespace"] = OK
       PROVE  scratch'.ns
  <2>1. CASE pos = 15
    BY <1>1, <1>3, <1>4, <1>7, <1>9, <1>11, <1>15, <2>1
  <2>2. CASE pos \in 16..32
    <3>1. verdict["create_namespace"] = OK
      BY <1>4, <1>9, <1>10, <1>15, <2>2
    <3>2. scratch.ns
      BY <1>2, <2>2, <3>1 DEF Standing
    <3>3. QED
      BY <1>1, <1>3, <1>5, <2>2, <3>2
  <2>3. QED
    BY <1>1, <1>15, <2>1, <2>2
<1>16. ASSUME pos' \in 18..26, verdict'["create_table"] = OK
       PROVE  \/ ctx'.tbl \in scratch'.tables /\ ctx'.uuid
              \/ pos' = 26 /\ verdict'["drop_table_purge"] = OK
  <2>1. CASE pos = 17
    BY <1>1, <1>3, <1>4, <1>7, <1>8, <1>9, <1>11, <1>16, <2>1
  <2>2. CASE pos \in 18..25
    <3>1. verdict["create_table"] = OK
      BY <1>4, <1>9, <1>10, <1>16, <2>2
    <3>2. ctx.tbl \in scratch.tables /\ ctx.uuid
      BY <1>2, <2>2, <3>1 DEF Standing
    <3>3. CASE pos \notin {24, 25}
      BY <1>1, <1>3, <1>4, <1>5, <1>8, <2>2, <3>2, <3>3
    <3>4. CASE pos = 24
      BY <1>1, <1>3, <1>4, <1>7, <1>8, <1>11, <3>2, <3>4
    <3>5. CASE pos = 25
      BY <1>1, <1>3, <1>4, <1>7, <1>8, <1>9, <1>11, <3>2, <3>5
    <3>6. QED
      BY <3>3, <3>4, <3>5
  <2>3. QED
    BY <1>1, <1>16, <2>1, <2>2
<1>17. ASSUME pos' \in 28..32, verdict'["create_view"] = OK
       PROVE  ctx'.view \in scratch'.views
  <2>1. CASE pos = 27
    BY <1>1, <1>3, <1>4, <1>7, <1>8, <1>9, <1>11, <1>17, <2>1
  <2>2. CASE pos \in 28..31
    <3>1. verdict["create_view"] = OK
      BY <1>4, <1>9, <1>10, <1>17, <2>2
    <3>2. ctx.view \in scratch.views
      BY <1>2, <2>2, <3>1 DEF Standing
    <3>3. CASE pos # 31
      BY <1>1, <1>3, <1>4, <1>5, <1>8, <2>2, <3>2, <3>3
    <3>4. CASE pos = 31
      BY <1>1, <1>3, <1>4, <1>7, <1>8, <1>11, <3>2, <3>4
    <3>5. QED
      BY <3>3, <3>4
  <2>3. QED
    BY <1>1, <1>17, <2>1, <2>2
<1>18. QED
  BY <1>12, <1>13, <1>14, <1>15, <1>16, <1>17 DEF Standing

(* The records after one answered request. *)
LEMMA RecordAnswered ==
  ASSUME PassFacts, trouble = {}, SendAnswered, NEW p, p = Current,
         NEW v, v = VerdictOf(p, Received(p, CatalogReply(p)))
  PROVE  RecordSound'
<1>1. /\ pos \in 1..33 /\ p = Suite[pos] /\ p \in Probes /\ Probing
      /\ pos' = pos + 1 /\ UNCHANGED <<route, phase, allow>>
      /\ verdict' = [verdict EXCEPT ![p] = v]
      /\ p \notin HeadProbes => (v = OK <=> Reached(p) /\ Served(Signature(p), scratch, ctx))
      /\ v \in Verdicts \ {SKIPPED, INDETERMINATE, Pending}
      /\ p = "config" \/ ctx.prefix
  BY AnsweredFacts
<1>2. verdict \in [Probes -> Verdicts \cup {Pending}] /\ RecordSound
  BY DEF PassFacts, WellTyped, TypeOK
<1>3. missing' = IF route_is_missing(Received(p, CatalogReply(p))) THEN missing \cup {p} ELSE missing
  BY DEF SendAnswered, Record
<1>4. Reached(p) <=> route[p] = Success
  BY <1>1 DEF Reached
<1>5. Reached(p) => ~route_is_missing(Received(p, CatalogReply(p)))
  BY ReachedIsThere
<1>6. ~Reached(p) => CatalogReply(p) = route[p]
  BY <1>1 DEF CatalogReply
<1>7. Reached(p) /\ Served(Signature(p), scratch, ctx) => v = OK
  BY ServedIsOk
<1>8. /\ verdict'[p] = v
      /\ \A q \in Probes : q # p => verdict'[q] = verdict[q]
  BY <1>1, <1>2
<1>9. /\ p = "create_namespace" <=> pos = 15
      /\ p = "create_table" <=> pos = 17
      /\ p = "drop_table_purge" <=> pos = 25
      /\ p = "drop_table" <=> pos = 26
      /\ p = "create_view" <=> pos = 27
  BY <1>1, SuitePlaces DEF SuiteLen
<1>10. /\ "create_namespace" \in Probes /\ "create_table" \in Probes
       /\ "create_view" \in Probes /\ "drop_table_purge" \in Probes
       /\ Suite[15] = "create_namespace" /\ Suite[17] = "create_table"
       /\ Suite[25] = "drop_table_purge" /\ Suite[27] = "create_view"
  BY DEF Probes, Suite, SuiteLen
<1>11. /\ p = "create_namespace" \/ p = "create_table" \/ p = "drop_table_purge"
            \/ p = "create_view" => ~Recorded(p)
  BY <1>1, <1>2, <1>9 DEF RecordSound
<1>12. /\ DependsOn(p) = "create_namespace" => pos > 15
       /\ DependsOn(p) = "create_table" => pos > 17
       /\ DependsOn(p) = "create_view" => pos > 27
  BY <1>1, SuiteDependence DEF SuiteLen
<1>13. /\ DependsOn(p) # NoProbe => DependsOn(p) # p /\ DependsOn(p) \in Probes
                                    /\ Recorded(DependsOn(p))
       /\ p = "drop_table" => Recorded("drop_table_purge")
  <2>1. \A i \in 1..33 : i < pos => Recorded(Suite[i])
    BY <1>2 DEF RecordSound, SuiteLen
  <2>2. QED
    BY <1>1, <1>9, <1>10, <1>12, <2>1, DependenceKinds
<1>14. ASSUME NEW q \in Probes, q # p, Recorded(q)
       PROVE  /\ DependsOn(q) # NoProbe => Recorded(DependsOn(q)) /\ DependsOn(q) # p
                                           /\ DependsOn(q) \in Probes
              /\ q = "drop_table" => Recorded("drop_table_purge") /\ "drop_table_purge" # p
  BY <1>2, <1>10, <1>11, <1>14, DependenceKinds DEF RecordSound
<1>15. CleanupServed' = CleanupServed
  BY <1>1 DEF CleanupServed, TablesDroppable, ViewsDroppable
<1>16. ASSUME p \in Endpoints, route[p] = Success, p = "drop_namespace" => CleanupServed,
              DependsOn(p) # NoProbe => verdict[DependsOn(p)] = OK,
              p = "drop_table" => verdict["drop_table_purge"] # OK
       PROVE  v = OK
  <2>1. Served(p, scratch, ctx)
    BY <1>1, <1>16, FixtureFound
  <2>2. Signature(p) = p
    BY <1>16 DEF Signature, Endpoints, Variants, UpdateActions
  <2>3. QED
    BY <1>4, <1>7, <1>16, <2>1, <2>2
<1>17. ServedIsFine(p)'
  <2>1. DependsOn(p) # NoProbe => verdict'[DependsOn(p)] = verdict[DependsOn(p)]
    BY <1>8, <1>13
  <2>2. p = "drop_table" => verdict'["drop_table_purge"] = verdict["drop_table_purge"]
    BY <1>8, <1>9, <1>10
  <2>3. QED
    BY <1>1, <1>8, <1>15, <1>16, <2>1, <2>2 DEF ServedIsFine
<1>18. RefusedIsKnown(p)'
  <2>1. p \notin HeadProbes /\ route[p] # Success =>
          v # OK /\ Received(p, CatalogReply(p)) = route[p]
    BY <1>1, <1>4, <1>6 DEF Received
  <2>2. QED
    BY <1>1, <1>3, <1>8, <2>1 DEF RefusedIsKnown
<1>19. ASSUME NEW q \in Probes, q # p, Recorded(q)
       PROVE  (ServedIsFine(q) /\ RefusedIsKnown(q))'
  <2>1. ServedIsFine(q) /\ RefusedIsKnown(q)
    BY <1>2, <1>19 DEF RecordSound
  <2>2. verdict'[q] = verdict[q] /\ route' = route /\ missing \subseteq missing'
    BY <1>1, <1>3, <1>8, <1>19
  <2>3. DependsOn(q) # NoProbe => verdict'[DependsOn(q)] = verdict[DependsOn(q)]
    BY <1>8, <1>14, <1>19
  <2>4. q = "drop_table" => verdict'["drop_table_purge"] = verdict["drop_table_purge"]
    BY <1>8, <1>10, <1>14, <1>19
  <2>5. ServedIsFine(q)'
    BY <1>15, <2>1, <2>2, <2>3, <2>4 DEF ServedIsFine
  <2>6. RefusedIsKnown(q)'
    BY <2>1, <2>2 DEF RefusedIsKnown
  <2>7. QED
    BY <2>5, <2>6
<1>20. \A q \in missing' : route'[q] # Success
  BY <1>1, <1>2, <1>3, <1>4, <1>5 DEF RecordSound
<1>21. \A q \in Probes : Recorded(q) => Recorded(q)'
  BY <1>1, <1>8 DEF Recorded
<1>22. Recorded(p)'
  BY <1>1, <1>8 DEF Recorded
<1>23. \A i \in 1..SuiteLen : i < pos' => Recorded(Suite[i])'
  <2>1. SUFFICES ASSUME NEW i \in 1..SuiteLen, i < pos'
                 PROVE  Recorded(Suite[i])'
    OBVIOUS
  <2>2. i = pos \/ i < pos
    BY <1>1, <2>1
  <2>3. Suite[i] \in Probes
    BY DEF Probes
  <2>4. QED
    BY <1>1, <1>2, <1>21, <1>22, <2>2, <2>3 DEF RecordSound
<1>24. /\ pos' <= 15 => ~Recorded("create_namespace")'
       /\ pos' <= 17 => ~Recorded("create_table")'
       /\ pos' <= 25 => ~Recorded("drop_table_purge")'
       /\ pos' <= 27 => ~Recorded("create_view")'
  BY <1>1, <1>2, <1>8, <1>9, <1>10 DEF RecordSound, Recorded
<1>25. ASSUME NEW q \in Probes, Recorded(q)'
       PROVE  /\ DependsOn(q) # NoProbe => Recorded(DependsOn(q))'
              /\ q = "drop_table" => Recorded("drop_table_purge")'
              /\ (ServedIsFine(q) /\ RefusedIsKnown(q))'
              /\ verdict'[q] # INDETERMINATE /\ (allow' => verdict'[q] # SKIPPED)
  <2>1. CASE q = p
    BY <1>1, <1>8, <1>10, <1>13, <1>17, <1>18, <1>21, <2>1
  <2>2. CASE q # p
    <3>1. Recorded(q)
      BY <1>8, <1>25, <2>2 DEF Recorded
    <3>2. verdict'[q] # INDETERMINATE /\ (allow' => verdict'[q] # SKIPPED)
      BY <1>1, <1>2, <1>8, <2>2, <3>1 DEF RecordSound
    <3>3. QED
      BY <1>10, <1>14, <1>19, <1>21, <2>2, <3>1, <3>2
  <2>3. QED
    BY <2>1, <2>2
<1>26. QED
  BY <1>20, <1>23, <1>24, <1>25 DEF RecordSound

-----------------------------------------------------------------------------
(* The judgement on what was recorded. *)
LEMMA JudgedSoundly ==
  ASSUME WellTyped, RecordSound, trouble = {}, Judge
  PROVE  NoFalseFailure' /\ MissingRouteScored'
<1>1. /\ pos = SuiteLen + 1 /\ phase = "probing"
      /\ verdict' = mark_indeterminate /\ judged' = reconciled(mark_indeterminate)
      /\ UNCHANGED <<route, allow, declared, missing>>
  BY DEF Judge, environment
<1>2. \A p \in Probes : Recorded(p)
  BY <1>1 DEF RecordSound, Probes, SuiteLen
<1>3. ASSUME NEW p \in Probes
      PROVE  /\ ServedIsFine(p) /\ RefusedIsKnown(p)
             /\ verdict[p] # INDETERMINATE /\ (allow => verdict[p] # SKIPPED)
             /\ mark_indeterminate[p] = IF FixtureMissing(p) /\ p \notin missing
                                        THEN INDETERMINATE ELSE verdict[p]
             /\ p \in missing => route[p] # Success
             /\ p \notin Variants =>
                  judged'[p] = IF Scored(mark_indeterminate, p)
                               THEN reconcile(p \in declared, Works(mark_indeterminate, p))
                               ELSE Unjudged
  BY <1>1, <1>2 DEF RecordSound, mark_indeterminate, reconciled
<1>4. ASSUME NEW e \in Endpoints
      PROVE  e \in Probes /\ e \notin Variants /\ Signature(e) = e
  BY DEF Endpoints, Signature, Variants, UpdateActions
<1>5. NoFalseFailure'
  <2>1. SUFFICES ASSUME CleanupServed, NEW e \in Endpoints, route[e] = Success,
                        judged'[e] \in {OVERCLAIM, HONEST_OMISSION}
                 PROVE  FALSE
    BY <1>1 DEF NoFalseFailure, CleanupServed, TablesDroppable, ViewsDroppable
  <2>2. Scored(mark_indeterminate, e) /\ ~Works(mark_indeterminate, e)
    BY <1>3, <1>4, <2>1 DEF reconcile, Unjudged, OVERCLAIM, HONEST_OMISSION, HONEST, UNDECLARED_OK
  <2>3. \A q \in Probes : verdict[q] = OK => mark_indeterminate[q] = OK
    BY <1>3 DEF FixtureMissing
  <2>4. verdict[e] # OK
    BY <1>4, <2>2, <2>3 DEF Works
  <2>5. verdict[e] # SKIPPED
    BY <1>3, <1>4, <2>2 DEF Scored, SKIPPED, FixtureMissing
  <2>6. ~(e = "drop_table" /\ verdict["drop_table_purge"] = OK)
    <3>1. "drop_table_purge" \in Probes /\ Signature("drop_table_purge") = "drop_table"
      BY DEF Probes, Suite, SuiteLen, Signature, UpdateActions
    <3>2. QED
      BY <2>2, <2>3, <3>1 DEF Works
  <2>7. DependsOn(e) # NoProbe /\ verdict[DependsOn(e)] # OK
    BY <1>3, <1>4, <2>1, <2>4, <2>5, <2>6 DEF ServedIsFine
  <2>8. mark_indeterminate[e] = INDETERMINATE
    BY <1>3, <1>4, <2>1, <2>4, <2>5, <2>7 DEF FixtureMissing
  <2>9. QED
    BY <2>2, <2>8 DEF Scored
<1>6. MissingRouteScored'
  <2>1. SUFFICES ASSUME allow, NEW e \in Endpoints \ HeadProbes, route_is_missing(route[e]),
                        \A q \in Probes : Signature(q) = e => route[q] # Success
                 PROVE  judged'[e] \in {OVERCLAIM, HONEST_OMISSION}
    BY <1>1 DEF MissingRouteScored
  <2>2. e \in missing /\ verdict[e] # OK /\ verdict[e] # SKIPPED
    BY <1>3, <1>4, <2>1 DEF RefusedIsKnown
  <2>3. Scored(mark_indeterminate, e)
    BY <1>3, <1>4, <2>2 DEF Scored
  <2>4. ~Works(mark_indeterminate, e)
    <3>1. ASSUME NEW q \in Probes, Signature(q) = e PROVE mark_indeterminate[q] # OK
      <4>1. q \notin HeadProbes
        BY <2>1, <3>1, HeadSignature
      <4>2. verdict[q] # OK
        BY <1>3, <2>1, <3>1, <4>1 DEF RefusedIsKnown
      <4>3. QED
        BY <1>3, <4>2 DEF INDETERMINATE, OK
    <3>2. QED
      BY <3>1 DEF Works
  <2>5. judged'[e] = reconcile(e \in declared, Works(mark_indeterminate, e))
    BY <1>3, <1>4, <2>3
  <2>6. QED
    BY <2>4, <2>5 DEF reconcile
<1>7. QED
  BY <1>5, <1>6

LEMMA SoundStep ==
  ASSUME WellTyped, NamesTracked, ResidueInv, SoundInv, [Next]_vars
  PROVE  SoundInv'
<1>1. CASE StartRun
  <2>1. phase' = "probing"
    BY <1>1 DEF StartRun
  <2>2. ASSUME trouble' = {} PROVE RecordSound' /\ Standing'
    <3>1. /\ pos' = 1 /\ scratch' = Absent /\ ctx' = FreshCtx /\ missing' = {}
          /\ \A p \in Probes : verdict'[p] = Pending
      BY <1>1, <2>2 DEF StartRun
    <3>2. Standing'
      BY <3>1 DEF Standing, Absent, FreshCtx
    <3>3. /\ "create_namespace" \in Probes /\ "create_table" \in Probes
          /\ "create_view" \in Probes /\ "drop_table_purge" \in Probes
      BY DEF Probes, Suite, SuiteLen
    <3>4. RecordSound'
      BY <3>1, <3>3 DEF RecordSound, Recorded, SuiteLen
    <3>5. QED
      BY <3>2, <3>4
  <2>3. NoFalseFailure' /\ MissingRouteScored'
    BY <2>1 DEF NoFalseFailure, MissingRouteScored
  <2>4. QED
    BY <2>2, <2>3 DEF SoundInv
<1>2. CASE SendAnswered
  <2>1. phase = "probing" /\ phase' = "probing" /\ trouble' = trouble
    BY <1>2 DEF SendAnswered, Probing
  <2>2. trouble = {} => PassFacts
    BY <2>1 DEF SoundInv, PassFacts, ResidueInv
  <2>3. trouble = {} => RecordSound' /\ Standing'
    BY <1>2, <2>2, StandingAnswered, RecordAnswered
  <2>4. QED
    BY <2>1, <2>3 DEF SoundInv, NoFalseFailure, MissingRouteScored
<1>3. CASE SendRejected \/ SendUnsent \/ SendLost
  <2>1. phase' = "probing" /\ trouble' # {}
    BY <1>3 DEF SendRejected, SendUnsent, SendLost, Probing
  <2>2. QED
    BY <2>1 DEF SoundInv, NoFalseFailure, MissingRouteScored
<1>4. CASE SkipWrites
  <2>1. /\ phase = "probing" /\ phase' = "probing" /\ ~allow /\ pos = 15 /\ pos' = 34
        /\ UNCHANGED <<route, scratch, ctx, missing, trouble, allow>>
        /\ verdict' = [p \in Probes |-> IF p \in WriteProbes THEN SKIPPED ELSE verdict[p]]
    BY <1>4 DEF SkipWrites, environment, ReadLen, SuiteLen
  <2>2. ASSUME trouble = {} PROVE RecordSound'
    <3>1. RecordSound
      BY <2>1, <2>2 DEF SoundInv
    <3>2. \A p \in Probes : Recorded(p) \/ p \in WriteProbes
      BY <2>1, <3>1 DEF RecordSound, Probes, WriteProbes, SuiteLen, ReadLen
    <3>3. \A p \in Probes : verdict'[p] # Pending
      BY <2>1, <3>2 DEF Recorded, SKIPPED, Pending
    <3>4. \A p \in Probes : Suite[15] = "create_namespace" /\ (DependsOn(p) # NoProbe =>
            DependsOn(p) \in Probes /\ DependsOn(p) \in WriteProbes)
      <4>1. {"create_namespace", "create_table", "create_view"} \subseteq Probes \cap WriteProbes
        BY DEF Probes, WriteProbes, Suite, SuiteLen, ReadLen
      <4>2. QED
        BY <4>1, DependenceKinds DEF Suite
    <3>5. "drop_table_purge" \in Probes
      BY DEF Probes, Suite, SuiteLen
    <3>6. ASSUME NEW p \in Probes
          PROVE  /\ (ServedIsFine(p) /\ RefusedIsKnown(p))'
                 /\ verdict'[p] # INDETERMINATE
      <4>1. CASE p \in WriteProbes
        BY <2>1, <4>1 DEF ServedIsFine, RefusedIsKnown, SKIPPED, OK, INDETERMINATE
      <4>2. CASE p \notin WriteProbes
        <5>1. ServedIsFine(p) /\ RefusedIsKnown(p) /\ verdict[p] # INDETERMINATE
              /\ verdict'[p] = verdict[p]
          BY <2>1, <3>1, <3>2, <4>2 DEF RecordSound
        <5>2. DependsOn(p) # NoProbe => verdict'[DependsOn(p)] # OK
          BY <2>1, <3>4 DEF SKIPPED, OK
        <5>3. p # "drop_table"
          BY <4>2 DEF WriteProbes, Suite, SuiteLen, ReadLen
        <5>4. p # "drop_namespace"
          BY <4>2 DEF WriteProbes, Suite, SuiteLen, ReadLen
        <5>5. QED
          BY <2>1, <5>1, <5>2, <5>3, <5>4 DEF ServedIsFine, RefusedIsKnown
      <4>3. QED
        BY <4>1, <4>2
    <3>7. \A i \in 1..SuiteLen : Suite[i] \in Probes
      BY DEF Probes
    <3>8. \A p \in missing' : route'[p] # Success
      BY <2>1, <3>1 DEF RecordSound
    <3>9. \A p \in Probes : DependsOn(p) # NoProbe => Recorded(DependsOn(p))'
      BY <3>3, <3>4 DEF Recorded
    <3>10. \A p \in Probes : Recorded(p)'
      BY <3>3 DEF Recorded
    <3>11. QED
      BY <2>1, <3>5, <3>6, <3>7, <3>8, <3>9, <3>10 DEF RecordSound
  <2>3. Standing'
    BY <2>1 DEF Standing
  <2>4. QED
    BY <2>1, <2>2, <2>3 DEF SoundInv, NoFalseFailure, MissingRouteScored
<1>5. CASE Judge
  <2>1. phase = "probing" /\ phase' = "judged" /\ trouble' = trouble
    BY <1>5 DEF Judge
  <2>2. CASE trouble = {}
    BY <1>5, <2>1, <2>2, JudgedSoundly DEF SoundInv
  <2>3. CASE trouble # {}
    BY <2>1, <2>3 DEF SoundInv, NoFalseFailure, MissingRouteScored
  <2>4. QED
    BY <2>1, <2>2, <2>3 DEF SoundInv
<1>6. CASE OpenEvidence \/ DumpEvidence \/ Crash
  <2>1. phase' \in {"writing", "ended"}
    BY <1>6 DEF OpenEvidence, DumpEvidence, Crash
  <2>2. QED
    BY <2>1 DEF SoundInv, NoFalseFailure, MissingRouteScored
<1>7. CASE UNCHANGED vars
  <2>1. UNCHANGED <<trouble, phase, missing, verdict, judged, pos, allow, route, scratch, ctx>>
    BY <1>7 DEF vars
  <2>2. UNCHANGED <<RecordSound, Standing, NoFalseFailure, MissingRouteScored>>
    BY <2>1 DEF RecordSound, Standing, Recorded, ServedIsFine, RefusedIsKnown, CleanupServed,
                TablesDroppable, ViewsDroppable, NoFalseFailure, MissingRouteScored
  <2>3. QED
    BY <2>1, <2>2 DEF SoundInv
<1>8. QED
  BY <1>1, <1>2, <1>3, <1>4, <1>5, <1>6, <1>7 DEF Next, Progress, Send

LEMMA AlwaysSound == Spec => []SoundInv
<1>1. Init => SoundInv
  BY DEF Init, SoundInv, NoFalseFailure, MissingRouteScored
<1>2. QED
  BY <1>1, SoundStep, AlwaysWellTyped, NamesAreTracked, AlwaysContained, PTL DEF Spec

(* When every reply of a pass came back and the cleanup is served, an      *)
(* endpoint judged to fail is one the catalog does not serve.              *)
THEOREM FailuresAreReal == Spec => []NoFalseFailure
<1>1. SoundInv => NoFalseFailure
  BY DEF SoundInv
<1>2. QED
  BY <1>1, AlwaysSound, PTL

(* A write pass scores every endpoint whose refusal says that its route    *)
(* does not exist, though its fixture was never made.                      *)
THEOREM MissingIsScored == Spec => []MissingRouteScored
<1>1. SoundInv => MissingRouteScored
  BY DEF SoundInv
<1>2. QED
  BY <1>1, AlwaysSound, PTL

-----------------------------------------------------------------------------
(***************************************************************************)
(* A pass that heard nothing.  Its read probes, which depend on no other,  *)
(* died one after the other; a read-only pass has no probe to mark         *)
(* indeterminate, so it is still all dead when its evidence is written.    *)
(***************************************************************************)
Unheard ==
  /\ pos \in 1..(ReadLen + 1) \cup {SuiteLen + 1}
  /\ \A i \in 1..ReadLen : i < pos => verdict[Suite[i]] = TRANSPORT_ERROR
  /\ pos = SuiteLen + 1 => \A q \in WriteProbes : verdict[q] = SKIPPED

UnheardInv ==
  /\ ~allow /\ ~answered => Unheard
  /\ phase \in {"judged", "writing"} => pos = SuiteLen + 1

LEMMA ReadsStandAlone ==
  ASSUME NEW i \in 1..ReadLen
  PROVE  Suite[i] \in Probes \ WriteProbes /\ DependsOn(Suite[i]) = NoProbe
<1>1. i \in 1..SuiteLen
  BY DEF ReadLen, SuiteLen
<1>2. Suite[i] \in Probes
  BY <1>1 DEF Probes
<1>3. ASSUME NEW j \in (ReadLen + 1)..SuiteLen PROVE Suite[i] # Suite[j]
  BY SMTT(60) DEF Suite, ReadLen, SuiteLen
<1>4. DependsOn(Suite[i]) = NoProbe
  BY <1>1, SuiteDependence, DependenceKinds DEF ReadLen
<1>5. QED
  BY <1>2, <1>3, <1>4 DEF WriteProbes

LEMMA UnheardIsDead ==
  ASSUME Unheard, pos = SuiteLen + 1
  PROVE  AllDead
<1> SUFFICES ASSUME NEW q \in Probes, verdict[q] # SKIPPED PROVE verdict[q] = TRANSPORT_ERROR
  BY DEF AllDead
<1>1. PICK i \in 1..SuiteLen : q = Suite[i]
  BY DEF Probes
<1>2. CASE i \in 1..ReadLen
  BY <1>1, <1>2 DEF Unheard, ReadLen, SuiteLen
<1>3. CASE i \in (ReadLen + 1)..SuiteLen
  BY <1>1, <1>3 DEF Unheard, WriteProbes
<1>4. QED
  BY <1>2, <1>3 DEF ReadLen, SuiteLen

(* No reply, no credit: the record says that the transport failed.         *)
LEMMA UnheardSend ==
  ASSUME WellTyped, Unheard, Probing, ~allow, Record(Current, Received(Current, NoReply))
  PROVE  Unheard'
<1>1. Current \in Probes /\ Current = Suite[pos] /\ pos \in 1..ReadLen
  BY CurrentType DEF Current, Probing, ReadLen, SuiteLen
<1>2. VerdictOf(Current, Received(Current, NoReply)) = TRANSPORT_ERROR
  <2>1. Received(Current, NoReply).status = None
    BY DEF Received, NoReply
  <2>2. classify(None) = TRANSPORT_ERROR
    BY DEF classify, None
  <2>3. QED
    BY <2>1, <2>2 DEF VerdictOf, OK, TRANSPORT_ERROR
<1>3. /\ \A p \in Probes : verdict'[p] = IF p = Current THEN TRANSPORT_ERROR ELSE verdict[p]
      /\ pos' = pos + 1
  BY <1>1, <1>2 DEF Record, WellTyped, TypeOK
<1>4. ASSUME NEW i \in 1..ReadLen, i < pos' PROVE verdict'[Suite[i]] = TRANSPORT_ERROR
  <2>1. Suite[i] \in Probes /\ (i < pos \/ i = pos)
    BY <1>1, <1>3, <1>4, ReadsStandAlone
  <2>2. QED
    BY <1>1, <1>3, <2>1 DEF Unheard
<1>5. pos' \in 1..(ReadLen + 1) /\ pos' # SuiteLen + 1
  BY <1>1, <1>3 DEF ReadLen, SuiteLen
<1>6. QED
  BY <1>4, <1>5 DEF Unheard

LEMMA UnheardStep ==
  ASSUME WellTyped, UnheardInv, [Next]_vars
  PROVE  UnheardInv'
<1> USE DEF UnheardInv
<1>1. CASE StartRun
  <2>1. pos' = 1 /\ phase' = "probing"
    BY <1>1 DEF StartRun
  <2>2. QED
    BY <2>1 DEF Unheard, ReadLen, SuiteLen
<1>2. CASE Send
  <2>1. Probing /\ phase = "probing" /\ phase' = phase /\ allow' = allow
    BY <1>2 DEF Send, SendAnswered, SendRejected, SendUnsent, SendLost, Probing
  <2>2. ASSUME ~allow', ~answered' PROVE Unheard'
    <3>1. ~SendAnswered /\ ~SendRejected
      BY <2>2 DEF SendAnswered, SendRejected
    <3>2. CASE SendUnsent
      <4>1. Received(Current, NoReply) = NoReply
        BY DEF Received, NoReply
      <4>2. Record(Current, Received(Current, NoReply)) /\ ~answered
        BY <2>2, <3>2, <4>1 DEF SendUnsent
      <4>3. QED
        BY <2>1, <2>2, <4>2, UnheardSend
    <3>3. CASE SendLost
      <4>1. PICK r \in {NoReply} \cup {x \in Rejections : x.status >= 500} :
               Record(Current, Received(Current, r)) /\ answered' = (answered \/ r # NoReply)
        BY <3>3 DEF SendLost
      <4>2. ~answered /\ r = NoReply
        BY <2>2, <4>1
      <4>3. QED
        BY <2>1, <2>2, <4>1, <4>2, UnheardSend
    <3>4. QED
      BY <1>2, <3>1, <3>2, <3>3 DEF Send
  <2>3. QED
    BY <2>1, <2>2
<1>3. CASE SkipWrites
  <2>1. /\ phase = "probing" /\ phase' = phase /\ answered' = answered /\ ~allow /\ allow' = allow
        /\ pos = ReadLen + 1 /\ pos' = SuiteLen + 1
        /\ \A p \in Probes : verdict'[p] = IF p \in WriteProbes THEN SKIPPED ELSE verdict[p]
    BY <1>3 DEF SkipWrites
  <2>2. WriteProbes \subseteq Probes
    BY DEF WriteProbes, Probes, ReadLen, SuiteLen
  <2>3. ASSUME Unheard PROVE Unheard'
    <3>1. ASSUME NEW i \in 1..ReadLen PROVE verdict'[Suite[i]] = TRANSPORT_ERROR
      <4>1. i < pos
        BY <2>1 DEF ReadLen
      <4>2. QED
        BY <2>1, <2>3, <4>1, ReadsStandAlone DEF Unheard
    <3>2. QED
      BY <2>1, <2>2, <3>1 DEF Unheard
  <2>4. QED
    BY <2>1, <2>3
<1>4. CASE Judge
  <2>1. /\ pos = SuiteLen + 1 /\ pos' = pos /\ phase' = "judged"
        /\ allow' = allow /\ answered' = answered
        /\ \A p \in Probes : verdict'[p] = IF FixtureMissing(p) /\ p \notin missing
                                           THEN INDETERMINATE ELSE verdict[p]
    BY <1>4 DEF Judge, mark_indeterminate
  <2>2. ASSUME Unheard PROVE Unheard'
    <3>1. ASSUME NEW i \in 1..ReadLen PROVE verdict'[Suite[i]] = TRANSPORT_ERROR
      <4>1. i < pos
        BY <2>1 DEF ReadLen, SuiteLen
      <4>2. QED
        BY <2>1, <2>2, <4>1, ReadsStandAlone DEF Unheard, FixtureMissing
    <3>2. ASSUME NEW q \in WriteProbes PROVE verdict'[q] = SKIPPED
      <4>1. q \in Probes
        BY DEF WriteProbes, Probes, ReadLen, SuiteLen
      <4>2. QED
        BY <2>1, <2>2, <4>1 DEF Unheard, FixtureMissing
    <3>3. QED
      BY <2>1, <3>1, <3>2 DEF Unheard
  <2>3. QED
    BY <2>1, <2>2
<1>5. CASE OpenEvidence
  BY <1>5 DEF OpenEvidence, Unheard
<1>6. CASE DumpEvidence \/ Crash
  BY <1>6 DEF DumpEvidence, Crash, Unheard
<1>7. CASE UNCHANGED vars
  BY <1>7 DEF vars, Unheard
<1>8. QED
  BY <1>1, <1>2, <1>3, <1>4, <1>5, <1>6, <1>7 DEF Next, Progress

(* A read-only pass that got no reply never touches evidence.json: it is   *)
(* parked (runner.py, _write_evidence), whatever was lost and whenever it  *)
(* was killed.                                                             *)
THEOREM DeadPassIsParked == Spec => DeadReadPassKeepsEvidence
<1>1. Init => UnheardInv
  <2>1. ASSUME Init PROVE pos = 1 /\ phase = "ended"
    BY <2>1 DEF Init
  <2>2. QED
    BY <2>1 DEF UnheardInv, Unheard, ReadLen, SuiteLen
<1>2. WellTyped /\ UnheardInv /\ [Next]_vars => UnheardInv'
  BY UnheardStep
<1>3. UnheardInv /\ [Next]_vars => [evidence' # evidence /\ ~allow => answered]_vars
  <2> SUFFICES ASSUME UnheardInv, [Next]_vars, evidence' # evidence, ~allow, ~answered
               PROVE  FALSE
    BY Zenon
  <2>1. OpenEvidence \/ DumpEvidence
    BY DEF Next, Progress, Send, StartRun, SendAnswered, SendRejected, SendUnsent, SendLost,
       SkipWrites, Judge, Crash, vars, files
  <2>2. ~AllDead /\ phase \in {"judged", "writing"}
    BY <2>1 DEF OpenEvidence, DumpEvidence
  <2>3. QED
    BY <2>2, UnheardIsDead DEF UnheardInv
<1>4. QED
  BY <1>1, <1>2, <1>3, AlwaysWellTyped, PTL DEF Spec, DeadReadPassKeepsEvidence
=============================================================================
