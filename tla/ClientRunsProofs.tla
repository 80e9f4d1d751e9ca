-------------------------- MODULE ClientRunsProofs --------------------------
(***************************************************************************)
(* What ClientRuns says of the two clients' rows and of the comparison,    *)
(* for any catalogs, whatever they declare, serve and change to, and any   *)
(* number of runs and troubles.                                            *)
(***************************************************************************)
EXTENDS ClientRuns, TLAPS

-----------------------------------------------------------------------------
(***************************************************************************)
(* The inductive invariant: of each driver, of each file, of the harness's *)
(* evidence.                                                               *)
(***************************************************************************)
Modes == {"native", "static", "absent"}
IsFunction(f, ids) == f = [x \in ids |-> f[x]]
RustProbes == ISSUED_BY_BINARY \cap Considered
RustShape(run) ==
  /\ run = [pc |-> run.pc, catalog |-> run.catalog, mode |-> run.mode, delegation |-> run.delegation,
            todo |-> run.todo, ready |-> run.ready, rows |-> run.rows, exit |-> run.exit,
            asked |-> run.asked, left |-> run.left]
  /\ run.pc \in {"probe", "write", "dump"} /\ run.exit \in {0, 1} /\ run.mode \in Modes
  /\ <<run.catalog, run.delegation>> \in Catalogs \X BOOLEAN /\ run.left \subseteq Catalogs
  /\ run.asked \subseteq RustProbes /\ run.ready \in BOOLEAN

Before(set, other) == \A p \in set, q \in other : PROBE_ORDER[p] < PROBE_ORDER[q]

(* A row is of a request that was sent, or of config, or of a failure that *)
(* came before any request was sent.                                       *)
RustRowTrue(p, rows, asked) ==
  CASE p = "config" -> rows[p] = "IMPLICIT"
    [] p # "config" /\ p \in asked -> rows[p] \in {"OK", "FAILED"}
    [] OTHER -> rows[p] = "FAILED" /\ Before({p}, asked)

(* A probe has a row or is still to be issued, in the order of the suite;  *)
(* nothing is sent until what a request needs is loaded; and what was sent *)
(* has a row, unless the binary died.                                      *)
RustKeeps(run) ==
  /\ RustShape(run)
  /\ run.todo \cup DOMAIN run.rows = RustProbes
  /\ run.todo \cap DOMAIN run.rows = {}
  /\ Before(DOMAIN run.rows, run.todo)
  /\ run.pc = "probe" => run.exit = 0 /\ (run.ready \/ run.asked = {})
  /\ run.pc # "probe" /\ run.exit = 0 /\ run.mode # "absent" => run.todo = {}
  /\ \A p \in DOMAIN run.rows : RustRowTrue(p, run.rows, run.asked)
  /\ run.exit = 0 => run.asked \subseteq DOMAIN run.rows \ {"config"}
RustInv == rust = Off \/ RustKeeps(rust)

RustPlain(d) ==
  \/ d.mode = "absent"
  \/ \E p \in Considered : d.verdict[p] = "OK"
  \/ d.exit = 0 /\ \A p \in RustProbes : d.verdict[p] # "NOT-ISSUED"
RustFilesInv ==
  /\ IsFunction(rustRun, Catalogs \X BOOLEAN) /\ IsFunction(rustFailed, Catalogs \X BOOLEAN)
  /\ \A label \in Catalogs \X BOOLEAN :
       /\ rustRun[label].whole => RustRows(rustRun[label].holds) /\ RustPlain(rustRun[label].holds)
       /\ rustFailed[label].whole => RustRows(rustFailed[label].holds)

PyProbes == ISSUED \cap Considered
Declarations(c, versions) == {Effective(Declares(c, v)) : v \in versions}
PyShape(run) ==
  /\ run = [pc |-> run.pc, catalog |-> run.catalog, mode |-> run.mode, hard |-> run.hard,
            declared |-> run.declared, objects |-> run.objects, todo |-> run.todo,
            rows |-> run.rows, asked |-> run.asked, versions |-> run.versions, left |-> run.left]
  /\ run.pc \in {"config", "probe", "write", "dump"} /\ run.hard \in BOOLEAN /\ run.mode \in Modes
  /\ run.catalog \in Catalogs /\ run.left \subseteq Catalogs
  /\ run.versions \subseteq Versions

(* An answer is the probe's own where the client's gate was open. *)
AnswerOf(p, own) ==
  IF gate(p) # "none" /\ Signature(p) \notin own THEN "SUBSTITUTED" ELSE "OK"

(* How a row came about: own is the client's declaration, declared that of *)
(* the object the probe was issued through.                                *)
CameAbout(p, verdict, sent, own, declared, table) ==
  LET open == Signature(p) \in declared \/ gate(p) = "none" IN
  \/ p = "load_credentials" /\ table # "OK" /\ verdict = "FAILED" /\ ~sent
  \/ open /\ sent /\ verdict \in {"FAILED", AnswerOf(p, own)}
  \/ ~open /\ ~sent /\ verdict = "SUBSTITUTED" /\ gate(p) = "silent-empty"
  \/ /\ ~open /\ ~sent /\ verdict \in {"FAILED", "SUBSTITUTED"}
     /\ gate(p) = "substitutes" /\ Substitute(p) \in declared
  \/ /\ ~open /\ ~sent /\ verdict = "GATED"
     /\ \/ gate(p) = "refuses"
        \/ gate(p) = "substitutes" /\ Substitute(p) \notin declared

RowTrue(p, rows, asked, objects, own) ==
  /\ rows[p].declared = (Signature(p) \in own)
  /\ \E declared \in objects :
       /\ p \notin VariantObjects => declared = own
       /\ CameAbout(p, rows[p].verdict, p \in asked, own, declared, rows["load_table"].verdict)

PyKeeps(run) ==
  /\ PyShape(run)
  /\ run.todo \cup DOMAIN run.rows \subseteq PyProbes
  /\ run.mode # "absent" => run.todo \cup DOMAIN run.rows = PyProbes
  /\ run.todo \cap DOMAIN run.rows = {}
  /\ run.asked \subseteq DOMAIN run.rows
  /\ run.pc \in {"config", "probe"} => ~run.hard /\ run.mode # "absent"
  /\ run.pc \notin {"config", "probe"} /\ run.mode # "absent" => run.hard \/ (run.todo = {} /\ run.objects # {})
  /\ run.pc = "config" => DOMAIN run.rows = {} /\ run.objects = {}
  /\ run.objects \subseteq Declarations(run.catalog, run.versions)
  /\ run.pc = "probe" \/ DOMAIN run.rows # {} => run.declared \in run.objects
  /\ "load_credentials" \in DOMAIN run.rows => "load_table" \in DOMAIN run.rows
  /\ \A p \in DOMAIN run.rows : RowTrue(p, run.rows, run.asked, run.objects, run.declared)
PyInv == py = Off \/ PyKeeps(py)

(* Of a file: the rows of what was issued are true, and the others only    *)
(* say that nothing was.                                                   *)
PyTrue(d, c) ==
  /\ d.objects \subseteq Declarations(c, d.versions)
  /\ \A p \in Considered :
       \/ d.row[p].verdict \in {"IMPLICIT", "NOT-EXPRESSIBLE", "NOT-ISSUED"}
       \/ p \in ISSUED /\ \E own \in d.objects : RowTrue(p, d.row, d.asked, d.objects, own)
PyPlain(d) ==
  d.mode # "absent" =>
    d.objects # {} /\ \A p \in PyProbes : d.row[p].verdict \notin {"IMPLICIT", "NOT-EXPRESSIBLE", "NOT-ISSUED"}
PyFilesInv ==
  /\ IsFunction(pyRun, Catalogs) /\ IsFunction(pyFailed, Catalogs)
  /\ \A c \in Catalogs :
       /\ pyRun[c].whole => PyTrue(pyRun[c].holds, c) /\ PyPlain(pyRun[c].holds)
       /\ pyFailed[c].whole => PyTrue(pyFailed[c].holds, c)

(* What the harness found when nothing was lost. *)
Found(d, c) ==
  /\ d.version \in Versions /\ d.works \subseteq Considered
  /\ d.lost = {} =>
       /\ d.declared = Declares(c, d.version)
       /\ \A p \in Considered : p \in d.works <=> p \in d.asked /\ Signature(p) \in Serves(c, d.version)
PaperInv ==
  /\ IsFunction(paper1, Catalogs)
  /\ \A c \in Catalogs : paper1[c].whole => Found(paper1[c].holds, c)

World == version \in [Catalogs -> Versions] /\ runs \in 0..MaxRuns /\ troubles \in 0..MaxTroubles

-----------------------------------------------------------------------------
(***************************************************************************)
(* The tables.                                                             *)
(***************************************************************************)
LEMMA Gates ==
  ASSUME NEW p
  PROVE  /\ gate(p) \in {"none", "substitutes", "silent-empty", "refuses"}
         /\ p \in VariantObjects => gate(p) = "refuses"
         /\ gate("load_credentials") = "refuses"
<1>1. gate("load_credentials") = "refuses"
  BY DEF gate, py_status
<1>2. p \in VariantObjects => gate(p) = "refuses"
  BY DEF gate, py_status, VariantObjects
<1>3. gate(p) \in {"none", "substitutes", "silent-empty", "refuses"}
  BY DEF gate
<1> QED BY <1>1, <1>2, <1>3

LEMMA NotVariant ==
  ASSUME NEW p \in Considered, p \notin Variants PROVE Signature(p) = p
BY DEF Signature, Variants, UpdateActions

(* The table is loaded before it is asked about. *)
LEMMA TableFirst == PROBE_ORDER["load_table"] = 8 /\ PROBE_ORDER["load_credentials"] = 11
<1> DEFINE ids == {Suite[i] : i \in DOMAIN Suite}
           index(p) == CHOOSE i \in DOMAIN Suite : Suite[i] = p
<1>1. DOMAIN Suite = 1..33
  BY DEF Suite
<1>2. Suite[8] = "load_table" /\ Suite[11] = "load_credentials"
  BY DEF Suite
<1>3. /\ \A i \in 1..33 : Suite[i] = "load_table" => i = 8
      /\ \A i \in 1..33 : Suite[i] = "load_credentials" => i = 11
  BY DEF Suite
<1>4. "load_table" \in ids /\ "load_credentials" \in ids
  BY <1>1, <1>2
<1>5. PROBE_ORDER["load_table"] = index("load_table")
      /\ PROBE_ORDER["load_credentials"] = index("load_credentials")
  BY <1>4 DEF PROBE_ORDER, Place
<1>6. index("load_table") = 8 /\ index("load_credentials") = 11
  BY <1>1, <1>2, <1>3
<1> HIDE DEF index
<1> QED BY <1>5, <1>6

(* No two probes have one place. *)
LEMMA Places ==
  ASSUME NEW p \in Probes
  PROVE  PROBE_ORDER[p] \in Int /\ \A q \in Probes : PROBE_ORDER[q] = PROBE_ORDER[p] => q = p
<1> DEFINE index(x) == CHOOSE i \in DOMAIN Suite : Suite[i] = x
<1>1. DOMAIN Suite = 1..33
  BY DEF Suite
<1>2. ASSUME NEW x \in Probes
      PROVE  PROBE_ORDER[x] \in Int /\ Suite[PROBE_ORDER[x]] = x
  <2>1. \E i \in DOMAIN Suite : Suite[i] = x
    BY <1>1 DEF Probes, SuiteLen
  <2>2. index(x) \in DOMAIN Suite /\ Suite[index(x)] = x
    BY <2>1
  <2>3. x \in {Suite[i] : i \in DOMAIN Suite}
    BY <2>1
  <2>4. PROBE_ORDER[x] = index(x)
    BY <2>3 DEF PROBE_ORDER, Place
  <2> HIDE DEF index
  <2> QED BY <1>1, <2>2, <2>4
<1> QED BY <1>2

LEMMA WithRows ==
  ASSUME NEW rows, NEW probes, NEW row
  PROVE  /\ DOMAIN With(rows, probes, row) = DOMAIN rows \cup probes
         /\ \A p \in probes : With(rows, probes, row)[p] = row
         /\ \A p \in DOMAIN rows \ probes : With(rows, probes, row)[p] = rows[p]
BY DEF With

-----------------------------------------------------------------------------
(***************************************************************************)
(* The Rust client.                                                        *)
(***************************************************************************)
LEMMA BinaryKeeps ==
  ASSUME NEW c \in Catalogs, NEW delegation \in BOOLEAN, NEW left \in SUBSET Catalogs
  PROVE  RustKeeps(Binary(c, delegation, left))
<1> DEFINE run == Binary(c, delegation, left)
<1>1. rust_auth_plan(Auth(c)) \in Modes
  BY DEF rust_auth_plan, Modes
<1>2. /\ run = [pc |-> run.pc, catalog |-> c, mode |-> rust_auth_plan(Auth(c)),
                delegation |-> delegation, todo |-> RustProbes, ready |-> FALSE, rows |-> << >>,
                exit |-> 0, asked |-> {}, left |-> left]
      /\ run.pc \in {"probe", "write"}
      /\ run.pc = "write" => rust_auth_plan(Auth(c)) = "absent"
  BY DEF Binary, RustProbes
<1> HIDE DEF run
<1>3. DOMAIN run.rows = {}
  BY <1>2
<1>4. RustShape(run)
  <2>1. /\ run.catalog = c /\ run.mode = rust_auth_plan(Auth(c)) /\ run.delegation = delegation
        /\ run.todo = RustProbes /\ run.ready = FALSE /\ run.rows = << >> /\ run.exit = 0
        /\ run.asked = {} /\ run.left = left
    BY <1>2
  <2>2. run = [pc |-> run.pc, catalog |-> run.catalog, mode |-> run.mode, delegation |-> run.delegation,
            todo |-> run.todo, ready |-> run.ready, rows |-> run.rows, exit |-> run.exit,
            asked |-> run.asked, left |-> run.left]
    BY <1>2, <2>1
  <2> QED BY <1>1, <1>2, <2>1, <2>2 DEF RustShape
<1>5. RustKeeps(run)
  BY <1>2, <1>3, <1>4 DEF RustKeeps, Before
<1> QED BY <1>5 DEF run

(* Rows for some of the probes that were to be issued. *)
LEMMA PrintedKeeps ==
  ASSUME RustKeeps(rust), RustAt("probe"), NEW probes \in SUBSET rust.todo, NEW verdict, NEW asked,
         Before(probes, rust.todo \ probes),
         \/ probes = {"config"} /\ verdict = "IMPLICIT" /\ asked = {}
         \/ "config" \notin probes /\ verdict \in {"OK", "FAILED"} /\ asked = probes
         \/ "config" \notin probes /\ verdict = "FAILED" /\ asked = {} /\ ~rust.ready
  PROVE  RustKeeps(Printed(probes, verdict, asked))
<1> DEFINE run == Printed(probes, verdict, asked)
<1>1. RustShape(rust) /\ rust.pc = "probe" /\ (rust.ready \/ rust.asked = {})
  BY DEF RustKeeps, RustAt
<1>2. /\ run = [pc |-> run.pc, catalog |-> rust.catalog, mode |-> rust.mode,
                delegation |-> rust.delegation, todo |-> rust.todo \ probes,
                ready |-> (rust.ready \/ asked # {}),
                rows |-> With(rust.rows, probes, verdict), exit |-> rust.exit,
                asked |-> rust.asked \cup asked, left |-> rust.left]
      /\ run.pc \in {"probe", "write"}
      /\ run.pc = "write" => rust.todo \subseteq probes
  <2> DEFINE rows == With(rust.rows, probes, verdict)
             ready == rust.ready \/ asked # {}
  <2>1. rust = [pc |-> rust.pc, catalog |-> rust.catalog, mode |-> rust.mode,
                delegation |-> rust.delegation, todo |-> rust.todo, ready |-> rust.ready,
                rows |-> rust.rows, exit |-> rust.exit, asked |-> rust.asked, left |-> rust.left]
    BY <1>1 DEF RustShape
  <2>2. run = [rust EXCEPT !.rows = rows, !.asked = rust.asked \cup asked,
                           !.todo = rust.todo \ probes, !.ready = ready,
                           !.pc = IF rust.todo \subseteq probes THEN "write" ELSE "probe"]
    BY <2>1 DEF Printed
  <2> HIDE DEF rows, ready, run
  <2>3. run = [pc |-> IF rust.todo \subseteq probes THEN "write" ELSE "probe",
               catalog |-> rust.catalog, mode |-> rust.mode,
               delegation |-> rust.delegation, todo |-> rust.todo \ probes, ready |-> ready,
               rows |-> rows, exit |-> rust.exit, asked |-> rust.asked \cup asked, left |-> rust.left]
    BY <2>1, <2>2
  <2> QED BY <2>3 DEF rows, ready
<1>2a. /\ run.todo = rust.todo \ probes /\ run.rows = With(rust.rows, probes, verdict)
       /\ run.asked = rust.asked \cup asked /\ run.exit = rust.exit
       /\ run.ready = (rust.ready \/ asked # {})
  BY <1>2
<1> HIDE DEF run
<1>3. /\ DOMAIN run.rows = DOMAIN rust.rows \cup probes
      /\ \A p \in probes : run.rows[p] = verdict
      /\ \A p \in DOMAIN rust.rows \ probes : run.rows[p] = rust.rows[p]
  BY <1>2a DEF With
<1>4. RustShape(run)
  <2>1. run.catalog = rust.catalog /\ run.mode = rust.mode /\ run.delegation = rust.delegation
        /\ run.left = rust.left
    BY <1>2
  <2>2. run = [pc |-> run.pc, catalog |-> run.catalog, mode |-> run.mode, delegation |-> run.delegation,
            todo |-> run.todo, ready |-> run.ready, rows |-> run.rows, exit |-> run.exit,
            asked |-> run.asked, left |-> run.left]
    BY <1>2, <1>2a, <2>1
  <2>3. run.asked \subseteq RustProbes /\ run.ready \in BOOLEAN
    <3>1. asked \subseteq rust.todo /\ rust.todo \subseteq RustProbes
      BY DEF RustKeeps
    <3> QED BY <1>1, <1>2a, <3>1 DEF RustShape
  <2> QED BY <1>1, <1>2, <1>2a, <2>1, <2>2, <2>3 DEF RustShape
<1>5. run.exit = 0 /\ (run.ready \/ run.asked = {})
  BY <1>1, <1>2a DEF RustKeeps
<1>6. /\ run.todo \cup DOMAIN run.rows = RustProbes
      /\ run.todo \cap DOMAIN run.rows = {}
      /\ run.pc = "write" => run.todo = {}
      /\ run.asked \subseteq DOMAIN run.rows \ {"config"}
  BY <1>1, <1>2, <1>2a, <1>3 DEF RustKeeps
<1>7. Before(DOMAIN run.rows, run.todo)
  BY <1>2a, <1>3 DEF RustKeeps, Before
<1>8. ASSUME NEW p \in DOMAIN run.rows PROVE RustRowTrue(p, run.rows, run.asked)
  <2>1. CASE p \in probes
    <3>1. p = "config" => run.rows[p] = "IMPLICIT"
      BY <1>3, <2>1
    <3>2. asked = {} /\ p # "config" => rust.asked = {} /\ verdict = "FAILED"
      BY <1>1, <2>1
    <3>3. asked # {} => p \in run.asked /\ p # "config" /\ verdict \in {"OK", "FAILED"}
      BY <1>2a, <2>1
    <3> QED BY <1>2a, <1>3, <2>1, <3>1, <3>2, <3>3 DEF RustRowTrue, Before
  <2>2. CASE p \notin probes
    <3>1. p \in DOMAIN rust.rows /\ run.rows[p] = rust.rows[p] /\ RustRowTrue(p, rust.rows, rust.asked)
      BY <1>3, <2>2 DEF RustKeeps
    <3>2. asked \subseteq rust.todo /\ p \notin asked
      BY <2>2
    <3>3. Before({p}, asked)
      BY <3>1, <3>2 DEF RustKeeps, Before
    <3> QED BY <1>2a, <3>1, <3>2, <3>3 DEF RustRowTrue, Before
  <2> QED BY <2>1, <2>2
<1>9. RustKeeps(run)
  BY <1>2, <1>4, <1>5, <1>6, <1>7, <1>8 DEF RustKeeps
<1> QED BY <1>9 DEF run

(* The next probe comes before the others. *)
LEMMA FirstBefore ==
  ASSUME NEW todo \in SUBSET Probes, NEW p \in todo, IsFirst(PROBE_ORDER, p, todo)
  PROVE  Before({p}, todo \ {p})
<1> SUFFICES ASSUME NEW q \in todo \ {p} PROVE PROBE_ORDER[p] < PROBE_ORDER[q]
  BY DEF Before
<1>1. PROBE_ORDER[p] <= PROBE_ORDER[q]
  BY DEF IsFirst
<1>2. PROBE_ORDER[p] \in Int /\ PROBE_ORDER[q] \in Int /\ PROBE_ORDER[p] # PROBE_ORDER[q]
  BY Places
<1> QED BY <1>1, <1>2

LEMMA RustNext ==
  ASSUME RustInv, [Next]_vars PROVE RustInv'
<1> USE DEF RustInv
<1>1. CASE UNCHANGED rust
  BY <1>1
<1>2. ASSUME NEW set \in SUBSET Catalogs, NEW delegation \in BOOLEAN, StartRust(set, delegation)
      PROVE  RustKeeps(rust')
  BY <1>2, BinaryKeeps DEF StartRust
<1>3. ASSUME IssueRust PROVE RustKeeps(rust')
  <2>1. RustKeeps(rust) /\ RustAt("probe")
    BY <1>3 DEF IssueRust, RustAt
  <2>2. PICK p \in rust.todo :
          /\ IsFirst(PROBE_ORDER, p, rust.todo)
          /\ \/ p = "config" /\ rust' = Printed({p}, "IMPLICIT", {})
             \/ p # "config" /\ rust' = Printed({p}, "FAILED", {p})
             \/ p # "config" /\ rust' = Printed({p}, "OK", {p})
             \/ p # "config" /\ ~rust.ready /\ rust' = Printed({p}, "FAILED", {})
    BY <1>3 DEF IssueRust, Outcomes
  <2>3. {p} \in SUBSET rust.todo /\ rust.todo \subseteq Probes
    BY <2>1, ClientAssumption DEF RustKeeps, RustProbes
  <2>4. Before({p}, rust.todo \ {p})
    BY <2>2, <2>3, FirstBefore
  <2> QED BY <2>1, <2>2, <2>3, <2>4, PrintedKeeps
<1>4. ASSUME Unanswered PROVE RustKeeps(rust')
  <2>1. RustKeeps(rust) /\ RustAt("probe") /\ "config" \notin rust.todo
    BY <1>4 DEF Unanswered, RustAt, RustKeeps
  <2>2. \/ rust' = Printed(rust.todo, "FAILED", rust.todo)
        \/ ~rust.ready /\ rust' = Printed(rust.todo, "FAILED", {})
    BY <1>4 DEF Unanswered
  <2>3. rust.todo \in SUBSET rust.todo /\ Before(rust.todo, rust.todo \ rust.todo)
    BY DEF Before
  <2> QED BY <2>1, <2>2, <2>3, PrintedKeeps
<1>5. ASSUME BinaryDies PROVE RustKeeps(rust')
  <2>1. RustKeeps(rust) /\ RustShape(rust) /\ rust.pc \in {"probe", "write"}
    BY <1>5 DEF BinaryDies, RustAt, RustKeeps
  <2>2. PICK sent \in SUBSET rust.todo :
          rust' = [rust EXCEPT !.pc = "write", !.exit = 1, !.asked = @ \cup sent]
    BY <1>5 DEF BinaryDies
  <2>3. rust' = [pc |-> "write", catalog |-> rust.catalog, mode |-> rust.mode,
                 delegation |-> rust.delegation, todo |-> rust.todo, ready |-> rust.ready,
                 rows |-> rust.rows, exit |-> 1, asked |-> rust.asked \cup sent, left |-> rust.left]
    BY <2>1, <2>2 DEF RustShape
  <2> DEFINE run == rust'
  <2>4. run = [pc |-> "write", catalog |-> rust.catalog, mode |-> rust.mode,
               delegation |-> rust.delegation, todo |-> rust.todo, ready |-> rust.ready,
               rows |-> rust.rows, exit |-> 1, asked |-> rust.asked \cup sent, left |-> rust.left]
    BY <2>3
  <2> HIDE DEF run
  <2>5. RustShape(run)
    BY <2>1, <2>4 DEF RustShape, RustKeeps
  <2>6. ASSUME NEW p \in DOMAIN run.rows PROVE RustRowTrue(p, run.rows, run.asked)
    <3>1. p \in DOMAIN rust.rows /\ RustRowTrue(p, rust.rows, rust.asked) /\ p \notin rust.todo
      BY <2>1, <2>4 DEF RustKeeps
    <3>2. Before({p}, sent)
      BY <2>1, <3>1 DEF RustKeeps, Before
    <3>3. run.rows = rust.rows /\ run.asked = rust.asked \cup sent /\ p \notin sent
      BY <2>4, <3>1
    <3> QED BY <3>1, <3>2, <3>3 DEF RustRowTrue, Before
  <2>7. RustKeeps(run)
    BY <2>1, <2>4, <2>5, <2>6 DEF RustKeeps
  <2> QED BY <2>7 DEF run
<1>5a. ASSUME OpenRust PROVE RustKeeps(rust')
  <2>1. RustKeeps(rust) /\ RustShape(rust) /\ rust.pc = "write" /\ rust' = [rust EXCEPT !.pc = "dump"]
    BY <1>5a DEF OpenRust, RustAt, RustKeeps
  <2> DEFINE run == rust'
  <2>2. run = [pc |-> "dump", catalog |-> rust.catalog, mode |-> rust.mode,
               delegation |-> rust.delegation, todo |-> rust.todo, ready |-> rust.ready,
               rows |-> rust.rows, exit |-> rust.exit, asked |-> rust.asked, left |-> rust.left]
    BY <2>1 DEF RustShape
  <2> HIDE DEF run
  <2>3. RustShape(run)
    BY <2>1, <2>2 DEF RustShape
  <2>4. RustKeeps(run)
    BY <2>1, <2>2, <2>3 DEF RustKeeps
  <2> QED BY <2>4 DEF run
<1>6. ASSUME WriteRust PROVE rust' = Off \/ RustKeeps(rust')
  <2>1. RustShape(rust) /\ NextCatalog
    BY <1>6 DEF WriteRust, RustAt, RustKeeps
  <2> QED BY <2>1, BinaryKeeps DEF NextCatalog, RustShape
<1>7. CASE DriverDies
  BY <1>7 DEF DriverDies
<1>8. CASE \/ \E set \in SUBSET Catalogs : StartPy(set)
           \/ Construct \/ PyFails \/ IssuePy \/ OpenPy \/ WritePy \/ PyDies
           \/ \E c \in Catalogs : RunHarness(c) \/ ChangeCatalog(c)
           \/ UNCHANGED vars
  BY <1>1, <1>8 DEF StartPy, Construct, PyFails, IssuePy, OpenPy, WritePy, PyDies, RunHarness, ChangeCatalog, vars
<1> QED BY <1>2, <1>3, <1>4, <1>5, <1>5a, <1>6, <1>7, <1>8 DEF Next

(* The document of a run that has ended. *)
LEMMA RustDocumentTrue ==
  ASSUME RustKeeps(rust), RustAt("dump")
  PROVE  RustRows(RustDocument) /\ (~ToFailed => RustPlain(RustDocument))
<1> DEFINE d == RustDocument
<1>1. /\ d.mode = rust.mode /\ d.exit = rust.exit /\ d.asked = rust.asked
      /\ \A p \in Considered : d.verdict[p] = RustVerdict(p)
  BY DEF RustDocument
<1>2. \A p \in Considered :
        /\ p \in DOMAIN rust.rows => d.verdict[p] = rust.rows[p]
        /\ p \notin DOMAIN rust.rows => d.verdict[p] \in {"NOT-EXPRESSIBLE", "NOT-ISSUED"}
  BY <1>1 DEF RustVerdict
<1> HIDE DEF d
<1>3. rust.exit = 0 /\ rust.mode # "absent" => RustProbes \subseteq DOMAIN rust.rows
  BY DEF RustKeeps, RustAt
<1>4. DOMAIN rust.rows \subseteq RustProbes
  BY DEF RustKeeps
<1>5. RustRows(d)
  <2> SUFFICES ASSUME NEW p \in Considered
               PROVE  /\ d.verdict[p] = "OK" => p \in d.asked
                      /\ d.verdict[p] = "FAILED" =>
                           p \in d.asked \/ \A q \in d.asked : PROBE_ORDER[p] < PROBE_ORDER[q]
                      /\ d.verdict[p] = "NOT-ISSUED" /\ p \in ISSUED_BY_BINARY => d.exit # 0 \/ d.mode = "absent"
                      /\ p \in d.asked => d.verdict[p] \in {"OK", "FAILED"} \/ d.exit # 0
    BY DEF RustRows
  <2>1. CASE p \in DOMAIN rust.rows
    <3>1. d.verdict[p] = rust.rows[p]
      BY <1>2, <2>1
    <3>2. RustRowTrue(p, rust.rows, rust.asked)
      BY <2>1 DEF RustKeeps
    <3>3. p = "config" => p \notin rust.asked \/ rust.exit # 0
      BY DEF RustKeeps
    <3> QED BY <3>1, <3>2, <3>3, <1>1 DEF RustRowTrue, Before
  <2>2. CASE p \notin DOMAIN rust.rows
    <3>1. d.verdict[p] \in {"NOT-EXPRESSIBLE", "NOT-ISSUED"}
      BY <1>2, <2>2
    <3>2. p \in rust.asked => rust.exit # 0
      BY <2>2 DEF RustKeeps, RustShape
    <3>3. p \in ISSUED_BY_BINARY => rust.exit # 0 \/ rust.mode = "absent"
      BY <1>3, <2>2 DEF RustProbes
    <3> QED BY <3>1, <3>2, <3>3, <1>1
  <2> QED BY <2>1, <2>2
<1>6. ASSUME ~(Parked(d) /\ rust.mode # "absent") PROVE RustPlain(d)
  <2>1. CASE d.mode = "absent" \/ \E p \in Considered : d.verdict[p] = "OK"
    BY <2>1 DEF RustPlain
  <2>2. CASE d.mode # "absent" /\ d.exit = 0
    <3>1. \A p \in RustProbes : d.verdict[p] # "NOT-ISSUED"
      BY <1>1, <1>2, <1>3, <2>2 DEF RustKeeps, RustProbes, RustRowTrue
    <3> QED BY <2>2, <3>1 DEF RustPlain
  <2>3. d.exit = 0 \/ d.mode = "absent" \/ \E p \in Considered : d.verdict[p] = "OK"
    BY <1>1, <1>6 DEF Parked
  <2> QED BY <2>1, <2>2, <2>3
<1> QED BY <1>5, <1>6 DEF d, ToFailed

LEMMA RustFilesNext ==
  ASSUME RustInv, RustFilesInv, [Next]_vars PROVE RustFilesInv'
<1>1. CASE UNCHANGED rustFiles
  BY <1>1 DEF RustFilesInv, rustFiles
<1>2. CASE WriteRust \/ OpenRust
  <2> DEFINE label == <<rust.catalog, rust.delegation>>
  <2>1. PICK content :
          /\ RustFile(content)
          /\ content.whole => RustRows(content.holds) /\ (~ToFailed => RustPlain(content.holds))
    <3>1. CASE OpenRust
      BY <3>1 DEF OpenRust, Torn
    <3>2. CASE WriteRust
      <4>1. RustKeeps(rust) /\ RustAt("dump") /\ RustFile(File(RustDocument))
        BY <3>2 DEF WriteRust, RustInv, RustAt
      <4>2. File(RustDocument).holds = RustDocument
        BY DEF File
      <4> QED BY <4>1, <4>2, RustDocumentTrue
    <3> QED BY <1>2, <3>1, <3>2
  <2>2. label \in Catalogs \X BOOLEAN
    BY <1>2 DEF WriteRust, OpenRust, RustInv, RustAt, RustKeeps, RustShape
  <2>4. CASE ToFailed
    <3>1. rustFailed' = [rustFailed EXCEPT ![label] = content] /\ rustRun' = rustRun
      BY <2>1, <2>4 DEF RustFile
    <3> HIDE DEF label
    <3>2. /\ IsFunction(rustFailed', Catalogs \X BOOLEAN)
          /\ rustFailed'[label] = content
          /\ \A y \in Catalogs \X BOOLEAN : y # label => rustFailed'[y] = rustFailed[y]
      BY <3>1, <2>2 DEF RustFilesInv, IsFunction
    <3> QED BY <3>1, <3>2, <2>1 DEF RustFilesInv
  <2>5. CASE ~ToFailed
    <3>1. rustRun' = [rustRun EXCEPT ![label] = content] /\ rustFailed' = rustFailed
      BY <2>1, <2>5 DEF RustFile
    <3> HIDE DEF label
    <3>2. /\ IsFunction(rustRun', Catalogs \X BOOLEAN)
          /\ rustRun'[label] = content
          /\ \A y \in Catalogs \X BOOLEAN : y # label => rustRun'[y] = rustRun[y]
      BY <3>1, <2>2 DEF RustFilesInv, IsFunction
    <3> QED BY <3>1, <3>2, <2>1, <2>5 DEF RustFilesInv
  <2> QED BY <2>4, <2>5
<1>3. CASE \/ \E set \in SUBSET Catalogs, delegation \in BOOLEAN : StartRust(set, delegation)
           \/ IssueRust \/ Unanswered \/ BinaryDies \/ DriverDies
           \/ \E set \in SUBSET Catalogs : StartPy(set)
           \/ Construct \/ PyFails \/ IssuePy \/ OpenPy \/ WritePy \/ PyDies
           \/ \E c \in Catalogs : RunHarness(c) \/ ChangeCatalog(c)
           \/ UNCHANGED vars
  <2>1. UNCHANGED rustFiles
    BY <1>3 DEF StartRust, IssueRust, Unanswered, BinaryDies, DriverDies, StartPy, Construct,
                PyFails, IssuePy, OpenPy, WritePy, PyDies, RunHarness, ChangeCatalog, vars, rustFiles
  <2> QED BY <2>1, <1>1
<1> QED BY <1>2, <1>3 DEF Next

-----------------------------------------------------------------------------
(***************************************************************************)
(* pyiceberg.                                                              *)
(***************************************************************************)
LEMMA WorldInvariant == Spec => []World
<1>1. Init => World
  BY ClientAssumption DEF Init, World, Versions
<1>2. World /\ [Next]_vars => World'
  <2> SUFFICES ASSUME World, [Next]_vars PROVE World'
    OBVIOUS
  <2>1. \/ UNCHANGED version
        \/ \E c \in Catalogs : version[c] + 1 \in Versions /\ version' = [version EXCEPT ![c] = @ + 1]
    BY DEF Next, StartRust, IssueRust, Unanswered, BinaryDies, DriverDies, OpenRust, WriteRust, StartPy,
           Construct, PyFails, IssuePy, OpenPy, WritePy, PyDies, RunHarness, ChangeCatalog, vars
  <2>2. UNCHANGED runs \/ (runs < MaxRuns /\ runs' = runs + 1)
    BY DEF Next, StartRust, IssueRust, Unanswered, BinaryDies, DriverDies, OpenRust, WriteRust, StartPy,
           Construct, PyFails, IssuePy, OpenPy, WritePy, PyDies, RunHarness, ChangeCatalog, vars
  <2>3. NoTrouble \/ Trouble
    BY DEF Next, StartRust, IssueRust, Unanswered, BinaryDies, DriverDies, OpenRust, WriteRust, StartPy,
           Construct, PyFails, IssuePy, OpenPy, WritePy, PyDies, RunHarness, ChangeCatalog, vars, NoTrouble
  <2>4. version' \in [Catalogs -> Versions]
    BY <2>1 DEF World
  <2>5. runs' \in 0..MaxRuns
    BY <2>2, ClientAssumption DEF World
  <2>6. troubles' \in 0..MaxTroubles
    BY <2>3, ClientAssumption DEF World, NoTrouble, Trouble
  <2> QED BY <2>4, <2>5, <2>6 DEF World
<1> QED BY <1>1, <1>2, PTL DEF Spec

LEMMA StartKeeps ==
  ASSUME NEW c \in Catalogs, NEW left \in SUBSET Catalogs PROVE PyKeeps(PyStart(c, left))
<1> DEFINE run == PyStart(c, left)
<1>1. py_auth_plan(Auth(c)) \in Modes
  BY DEF py_auth_plan, rust_auth_plan, Modes
<1>2. /\ run = [pc |-> run.pc, catalog |-> c, mode |-> py_auth_plan(Auth(c)), hard |-> FALSE,
                declared |-> {}, objects |-> {}, todo |-> run.todo, rows |-> << >>, asked |-> {},
                versions |-> {}, left |-> left]
      /\ \/ run.pc = "write" /\ py_auth_plan(Auth(c)) = "absent" /\ run.todo = {}
         \/ run.pc = "config" /\ py_auth_plan(Auth(c)) # "absent" /\ run.todo = PyProbes
  BY DEF PyStart, PyProbes
<1> HIDE DEF run
<1>3. DOMAIN run.rows = {}
  BY <1>2
<1>4. PyShape(run)
  <2>1. /\ run.catalog = c /\ run.mode = py_auth_plan(Auth(c)) /\ run.hard = FALSE
        /\ run.declared = {} /\ run.objects = {} /\ run.asked = {} /\ run.versions = {}
        /\ run.left = left /\ run.rows = << >>
    BY <1>2
  <2>2. run = [pc |-> run.pc, catalog |-> run.catalog, mode |-> run.mode, hard |-> run.hard,
            declared |-> run.declared, objects |-> run.objects, todo |-> run.todo,
            rows |-> run.rows, asked |-> run.asked, versions |-> run.versions, left |-> run.left]
    BY <1>2, <2>1
  <2> QED BY <1>1, <1>2, <2>1, <2>2 DEF PyShape
<1>5. PyKeeps(run)
  BY <1>2, <1>3, <1>4 DEF PyKeeps
<1> QED BY <1>5 DEF run

(* The table only matters to load_credentials. *)
LEMMA OtherTable ==
  ASSUME NEW p, NEW verdict, NEW sent, NEW own, NEW declared, NEW table, NEW other,
         p = "load_credentials" => other = table,
         CameAbout(p, verdict, sent, own, declared, table)
  PROVE  CameAbout(p, verdict, sent, own, declared, other)
BY DEF CameAbout

LEMMA CallCameAbout ==
  ASSUME NEW p, NEW declared, p \notin VariantObjects => declared = py.declared,
         NEW verdict, LET call == Call(p, declared) IN
                      verdict \in call.verdicts \/ (call.sends /\ verdict = "FAILED")
  PROVE  /\ Call(p, declared).asked \in {{}, {p}}
         /\ CameAbout(p, verdict, p \in Call(p, declared).asked, py.declared, declared,
                      py.rows["load_table"].verdict)
<1> DEFINE call == Call(p, declared)
           open == Signature(p) \in declared \/ gate(p) = "none"
           nothing == p = "load_credentials" /\ py.rows["load_table"].verdict # "OK"
           table == py.rows["load_table"].verdict
<1>1. AnswerOf(p, py.declared) = OnAnswer(p) /\ OnAnswer(p) \in {"OK", "SUBSTITUTED"}
  BY DEF AnswerOf, OnAnswer
<1>2. \A endpoint : Outcomes(py.catalog, p, endpoint, OnAnswer(p)) \subseteq {"FAILED", OnAnswer(p)}
  BY DEF Outcomes
<1>3. CASE nothing
  <2>1. call = [verdicts |-> {"FAILED"}, sends |-> FALSE, asked |-> {}]
    BY <1>3 DEF Call
  <2> HIDE DEF call
  <2>2. call.asked = {} /\ call.verdicts = {"FAILED"} /\ call.sends = FALSE
    BY <2>1
  <2>3. verdict = "FAILED"
    BY <2>2 DEF call
  <2>4. CameAbout(p, verdict, p \in call.asked, py.declared, declared, table)
    BY <1>3, <2>2, <2>3 DEF CameAbout
  <2> QED BY <2>2, <2>4 DEF call
<1>4. CASE ~nothing /\ open
  <2>1. call = [verdicts |-> Outcomes(py.catalog, p, Signature(p), OnAnswer(p)), sends |-> TRUE,
                asked |-> {p}]
    BY <1>4 DEF Call
  <2> HIDE DEF call
  <2>2. call.verdicts \subseteq {"FAILED", OnAnswer(p)} /\ call.asked = {p}
    BY <1>2, <2>1
  <2>3. verdict \in {"FAILED", OnAnswer(p)}
    BY <2>2 DEF call
  <2>4. CameAbout(p, verdict, p \in call.asked, py.declared, declared, table)
    BY <1>1, <1>4, <2>2, <2>3 DEF CameAbout
  <2> QED BY <2>2, <2>4 DEF call
<1>5. CASE ~nothing /\ ~open
  <2>1. gate(p) \in {"substitutes", "silent-empty"} => p \notin VariantObjects
    BY Gates
  <2>2. gate(p) \in {"substitutes", "silent-empty"} => OnAnswer(p) = "SUBSTITUTED"
    BY <2>1, <1>5 DEF OnAnswer
  <2>3. CASE gate(p) = "silent-empty"
    <3>1. call = [verdicts |-> {OnAnswer(p)}, sends |-> FALSE, asked |-> {}]
      BY <1>5, <2>3 DEF Call
    <3> HIDE DEF call
    <3>2. call.verdicts = {"SUBSTITUTED"} /\ call.asked = {} /\ call.sends = FALSE
      BY <3>1, <2>2, <2>3
    <3>3. verdict = "SUBSTITUTED"
      BY <3>2 DEF call
    <3>4. CameAbout(p, verdict, p \in call.asked, py.declared, declared, table)
      BY <1>5, <2>3, <3>2, <3>3 DEF CameAbout
    <3> QED BY <3>2, <3>4 DEF call
  <2>4. CASE gate(p) = "substitutes" /\ Substitute(p) \in declared
    <3>1. call = [verdicts |-> Outcomes(py.catalog, p, Substitute(p), OnAnswer(p)), sends |-> TRUE,
                  asked |-> {}]
      BY <1>5, <2>4 DEF Call
    <3> HIDE DEF call
    <3>2. call.verdicts \subseteq {"FAILED", "SUBSTITUTED"} /\ call.asked = {}
      BY <1>2, <3>1, <2>2, <2>4
    <3>3. verdict \in {"FAILED", "SUBSTITUTED"}
      BY <3>2 DEF call
    <3>4. CameAbout(p, verdict, p \in call.asked, py.declared, declared, table)
      BY <1>5, <2>4, <3>2, <3>3 DEF CameAbout
    <3> QED BY <3>2, <3>4 DEF call
  <2>5. CASE gate(p) = "refuses" \/ (gate(p) = "substitutes" /\ Substitute(p) \notin declared)
    <3>1. call = [verdicts |-> {"GATED"}, sends |-> FALSE, asked |-> {}]
      BY <1>5, <2>5 DEF Call
    <3> HIDE DEF call
    <3>2. call.verdicts = {"GATED"} /\ call.asked = {} /\ call.sends = FALSE
      BY <3>1
    <3>3. verdict = "GATED"
      BY <3>2 DEF call
    <3>4. CameAbout(p, verdict, p \in call.asked, py.declared, declared, table)
      BY <1>5, <2>5, <3>2, <3>3 DEF CameAbout
    <3> QED BY <3>2, <3>4 DEF call
  <2> QED BY <1>5, <2>3, <2>4, <2>5, Gates
<1> QED BY <1>3, <1>4, <1>5

(* One probe is issued: its row is added to those there are. *)
LEMMA RecordedKeeps ==
  ASSUME PyKeeps(py), World, PyAt("probe"), NEW p \in py.todo, IsFirst(PROBE_ORDER, p, py.todo),
         NEW declared,
         declared = IF p \in VariantObjects THEN Effective(Declared(py.catalog)) ELSE py.declared,
         NEW call, call = Call(p, declared),
         NEW verdict, verdict \in call.verdicts \/ (call.sends /\ verdict = "FAILED")
  PROVE  PyKeeps(Recorded(p, verdict, call.asked, {declared}))
<1> DEFINE run == Recorded(p, verdict, call.asked, {declared})
           rows == With(py.rows, {p}, Row(verdict, p))
<1>1. /\ PyShape(py) /\ py.pc = "probe" /\ ~py.hard /\ py.mode # "absent"
      /\ py.todo \cup DOMAIN py.rows = PyProbes /\ p \notin DOMAIN py.rows
  BY DEF PyKeeps, PyAt
<1>2. /\ DOMAIN rows = DOMAIN py.rows \cup {p}
      /\ rows[p] = [verdict |-> verdict, declared |-> Signature(p) \in py.declared]
      /\ \A q \in DOMAIN py.rows : rows[q] = py.rows[q]
  BY <1>1 DEF With, Row
<1>3. /\ run = [pc |-> run.pc, catalog |-> py.catalog, mode |-> py.mode, hard |-> py.hard,
                declared |-> py.declared, objects |-> py.objects \cup {declared},
                todo |-> py.todo \ {p}, rows |-> rows, asked |-> py.asked \cup call.asked,
                versions |-> Seen, left |-> py.left]
      /\ run.pc \in {"probe", "write"} /\ (run.pc = "write" => py.todo = {p})
  <2>1. py = [pc |-> py.pc, catalog |-> py.catalog, mode |-> py.mode, hard |-> py.hard,
              declared |-> py.declared, objects |-> py.objects, todo |-> py.todo,
              rows |-> py.rows, asked |-> py.asked, versions |-> py.versions, left |-> py.left]
    BY <1>1 DEF PyShape
  <2>2. run = [py EXCEPT !.rows = rows, !.todo = py.todo \ {p}, !.asked = py.asked \cup call.asked,
                         !.objects = py.objects \cup {declared}, !.versions = Seen,
                         !.pc = IF py.todo = {p} THEN "write" ELSE "probe"]
    BY <2>1 DEF Recorded
  <2> HIDE DEF rows, run
  <2>3. run = [pc |-> IF py.todo = {p} THEN "write" ELSE "probe",
               catalog |-> py.catalog, mode |-> py.mode, hard |-> py.hard,
               declared |-> py.declared, objects |-> py.objects \cup {declared},
               todo |-> py.todo \ {p}, rows |-> rows, asked |-> py.asked \cup call.asked,
               versions |-> Seen, left |-> py.left]
    BY <2>1, <2>2
  <2> QED BY <2>3 DEF rows
<1>4. /\ run.catalog = py.catalog /\ run.mode = py.mode /\ run.hard = py.hard
      /\ run.declared = py.declared /\ run.objects = py.objects \cup {declared}
      /\ run.todo = py.todo \ {p} /\ run.rows = rows /\ run.asked = py.asked \cup call.asked
      /\ run.versions = Seen /\ run.left = py.left
  BY <1>3
<1> HIDE DEF run, rows
<1>5. version[py.catalog] \in Versions
  BY <1>1 DEF World, PyShape
<1>6. PyShape(run)
  <2>1. run = [pc |-> run.pc, catalog |-> run.catalog, mode |-> run.mode, hard |-> run.hard,
            declared |-> run.declared, objects |-> run.objects, todo |-> run.todo,
            rows |-> run.rows, asked |-> run.asked, versions |-> run.versions, left |-> run.left]
    BY <1>3, <1>4
  <2> QED BY <1>1, <1>3, <1>4, <1>5, <2>1 DEF PyShape, Seen
<1>7. /\ call.asked \in {{}, {p}}
      /\ CameAbout(p, verdict, p \in call.asked, py.declared, declared, py.rows["load_table"].verdict)
  BY CallCameAbout
<1>8. p = "load_credentials" => "load_table" \in DOMAIN py.rows
  <2>1. SUFFICES ASSUME p = "load_credentials" PROVE "load_table" \in DOMAIN py.rows
    OBVIOUS
  <2>2. "load_table" \in PyProbes
    BY <1>1, <2>1, ClientAssumption DEF PyProbes, ISSUED
  <2>3. "load_table" \notin py.todo
    BY <2>1, TableFirst DEF IsFirst
  <2> QED BY <2>2, <2>3, <1>1
<1>9. run.objects \subseteq Declarations(run.catalog, run.versions)
  <2>1. py.declared \in py.objects /\ py.objects \subseteq Declarations(py.catalog, py.versions)
    BY <1>1 DEF PyKeeps
  <2>2. Declarations(py.catalog, py.versions) \subseteq Declarations(py.catalog, Seen)
    BY DEF Declarations, Seen
  <2>3. Effective(Declared(py.catalog)) \in Declarations(py.catalog, Seen)
    BY DEF Declarations, Seen, Declared
  <2> QED BY <1>4, <2>1, <2>2, <2>3
<1>10. run.asked \subseteq DOMAIN run.rows
  BY <1>2, <1>4, <1>7 DEF PyKeeps
<1>11. run.declared \in run.objects
  BY <1>1, <1>4 DEF PyKeeps
<1>12. ASSUME NEW q \in DOMAIN run.rows
       PROVE  RowTrue(q, run.rows, run.asked, run.objects, run.declared)
  <2>1. CASE q = p
    <3>1. p = "load_credentials" => rows["load_table"] = py.rows["load_table"]
      BY <1>2, <1>8
    <3>2. CameAbout(p, verdict, p \in call.asked, py.declared, declared, rows["load_table"].verdict)
      BY <1>7, <3>1, OtherTable
    <3>3. p \in run.asked <=> p \in call.asked
      BY <1>1, <1>4 DEF PyKeeps
    <3>4. rows[p].verdict = verdict /\ rows[p].declared = (Signature(p) \in py.declared)
      BY <1>2
    <3>5. CameAbout(p, rows[p].verdict, p \in run.asked, py.declared, declared, rows["load_table"].verdict)
      BY <3>2, <3>3, <3>4
    <3>6. declared \in run.objects /\ (p \notin VariantObjects => declared = py.declared)
      BY <1>4
    <3> QED BY <1>4, <2>1, <3>4, <3>5, <3>6 DEF RowTrue
  <2>2. CASE q # p
    <3>1. q \in DOMAIN py.rows /\ rows[q] = py.rows[q]
      BY <1>2, <1>4, <2>2
    <3>2. RowTrue(q, py.rows, py.asked, py.objects, py.declared)
      BY <3>1 DEF PyKeeps
    <3>3. PICK through \in py.objects :
            /\ q \notin VariantObjects => through = py.declared
            /\ CameAbout(q, py.rows[q].verdict, q \in py.asked, py.declared, through,
                         py.rows["load_table"].verdict)
      BY <3>2 DEF RowTrue
    <3>4. q = "load_credentials" => rows["load_table"] = py.rows["load_table"]
      BY <1>2, <3>1 DEF PyKeeps
    <3>5. CameAbout(q, py.rows[q].verdict, q \in py.asked, py.declared, through, rows["load_table"].verdict)
      BY <3>3, <3>4, OtherTable
    <3>6. q \in run.asked <=> q \in py.asked
      BY <1>4, <1>7, <2>2
    <3>7. CameAbout(q, rows[q].verdict, q \in run.asked, py.declared, through, rows["load_table"].verdict)
      BY <3>1, <3>5, <3>6
    <3>8. rows[q].declared = (Signature(q) \in py.declared)
      BY <3>1, <3>2 DEF RowTrue
    <3>9. through \in run.objects
      BY <1>4, <3>3
    <3> QED BY <1>4, <3>3, <3>7, <3>8, <3>9 DEF RowTrue
  <2> QED BY <2>1, <2>2
<1>13. "load_credentials" \in DOMAIN run.rows => "load_table" \in DOMAIN run.rows
  BY <1>2, <1>4, <1>8 DEF PyKeeps
<1>14. /\ run.todo \cup DOMAIN run.rows = PyProbes
       /\ run.todo \cap DOMAIN run.rows = {}
       /\ run.pc = "write" => run.todo = {}
  BY <1>1, <1>2, <1>3, <1>4 DEF PyKeeps
<1>15. PyKeeps(run)
  BY <1>1, <1>3, <1>4, <1>6, <1>9, <1>10, <1>11, <1>12, <1>13, <1>14 DEF PyKeeps
<1> QED BY <1>15 DEF run

LEMMA PyNext ==
  ASSUME PyInv, World, [Next]_vars PROVE PyInv'
<1> USE DEF PyInv
<1>1. CASE UNCHANGED py
  BY <1>1
<1>2. ASSUME NEW set \in SUBSET Catalogs, StartPy(set) PROVE PyKeeps(py')
  BY <1>2, StartKeeps DEF StartPy
<1>3. ASSUME Construct PROVE PyKeeps(py')
  <2> DEFINE declared == Effective(Declared(py.catalog))
             run == [py EXCEPT !.declared = declared, !.objects = {declared}, !.pc = "probe", !.versions = Seen]
  <2>1. PyKeeps(py) /\ py.pc = "config" /\ PyShape(py) /\ py' = run
    BY <1>3 DEF Construct, PyAt, PyKeeps
  <2>2. run = [pc |-> "probe", catalog |-> py.catalog, mode |-> py.mode, hard |-> py.hard,
               declared |-> declared, objects |-> {declared}, todo |-> py.todo,
               rows |-> py.rows, asked |-> py.asked, versions |-> Seen, left |-> py.left]
    <3>1. py = [pc |-> py.pc, catalog |-> py.catalog, mode |-> py.mode, hard |-> py.hard,
                declared |-> py.declared, objects |-> py.objects, todo |-> py.todo,
                rows |-> py.rows, asked |-> py.asked, versions |-> py.versions, left |-> py.left]
      BY <2>1 DEF PyShape
    <3>2. run = [py EXCEPT !.declared = declared, !.objects = {declared}, !.pc = "probe", !.versions = Seen]
      OBVIOUS
    <3> HIDE DEF declared, run
    <3> QED BY <3>1, <3>2
  <2>3. declared \in Declarations(py.catalog, Seen)
    BY DEF Declarations, Seen, Declared
  <2>4. version[py.catalog] \in Versions
    BY <2>1 DEF World, PyShape
  <2> HIDE DEF declared, run
  <2>5. PyShape(run)
    BY <2>1, <2>2, <2>4 DEF PyShape, Seen
  <2>6. PyKeeps(run)
    BY <2>1, <2>2, <2>3, <2>5 DEF PyKeeps
  <2> QED BY <2>1, <2>6
<1>4. ASSUME PyFails PROVE PyKeeps(py')
  <2> DEFINE run == [py EXCEPT !.hard = TRUE, !.pc = "write"]
  <2>1. PyKeeps(py) /\ PyShape(py) /\ py' = run
    BY <1>4 DEF PyFails, PyAt, PyKeeps
  <2>2. run = [pc |-> "write", catalog |-> py.catalog, mode |-> py.mode, hard |-> TRUE,
               declared |-> py.declared, objects |-> py.objects, todo |-> py.todo,
               rows |-> py.rows, asked |-> py.asked, versions |-> py.versions, left |-> py.left]
    <3>1. py = [pc |-> py.pc, catalog |-> py.catalog, mode |-> py.mode, hard |-> py.hard,
                declared |-> py.declared, objects |-> py.objects, todo |-> py.todo,
                rows |-> py.rows, asked |-> py.asked, versions |-> py.versions, left |-> py.left]
      BY <2>1 DEF PyShape
    <3>2. run = [py EXCEPT !.hard = TRUE, !.pc = "write"]
      OBVIOUS
    <3> HIDE DEF run
    <3> QED BY <3>1, <3>2
  <2> HIDE DEF run
  <2>3. PyShape(run)
    BY <2>1, <2>2 DEF PyShape
  <2>4. PyKeeps(run)
    BY <2>1, <2>2, <2>3 DEF PyKeeps
  <2> QED BY <2>1, <2>4
<1>5. ASSUME IssuePy PROVE PyKeeps(py')
  <2>1. PyKeeps(py) /\ PyAt("probe")
    BY <1>5 DEF IssuePy, PyAt
  <2>2. PICK p \in py.todo :
          /\ IsFirst(PROBE_ORDER, p, py.todo)
          /\ LET declared == IF p \in VariantObjects THEN Effective(Declared(py.catalog)) ELSE py.declared
                 call == Call(p, declared)
             IN \E verdict : /\ verdict \in call.verdicts \/ (call.sends /\ verdict = "FAILED")
                             /\ py' = Recorded(p, verdict, call.asked, {declared})
    BY <1>5 DEF IssuePy
  <2> QED BY <2>1, <2>2, RecordedKeeps
<1>6. ASSUME WritePy PROVE py' = Off \/ PyKeeps(py')
  <2>1. PyKeeps(py) /\ PyShape(py)
    BY <1>6 DEF WritePy, PyAt, PyKeeps
  <2>2. \/ py' = Off
        \/ \E c \in py.left : py' = PyStart(c, py.left \ {c})
    BY <1>6 DEF WritePy
  <2>3. ASSUME NEW c \in py.left PROVE PyKeeps(PyStart(c, py.left \ {c}))
    BY <2>1, StartKeeps DEF PyShape
  <2> QED BY <2>2, <2>3
<1>6a. CASE PyDies
  BY <1>6a DEF PyDies
<1>6b. ASSUME OpenPy PROVE PyKeeps(py')
  <2> DEFINE run == py'
  <2>1. PyKeeps(py) /\ PyShape(py) /\ py.pc = "write" /\ py' = [py EXCEPT !.pc = "dump"]
    BY <1>6b DEF OpenPy, PyAt, PyKeeps
  <2>2. run = [pc |-> "dump", catalog |-> py.catalog, mode |-> py.mode, hard |-> py.hard,
               declared |-> py.declared, objects |-> py.objects, todo |-> py.todo,
               rows |-> py.rows, asked |-> py.asked, versions |-> py.versions, left |-> py.left]
    BY <2>1 DEF PyShape
  <2> HIDE DEF run
  <2>3. PyShape(run)
    BY <2>1, <2>2 DEF PyShape
  <2>4. PyKeeps(run)
    BY <2>1, <2>2, <2>3 DEF PyKeeps
  <2> QED BY <2>4 DEF run
<1>7. CASE \/ \E set \in SUBSET Catalogs, delegation \in BOOLEAN : StartRust(set, delegation)
           \/ IssueRust \/ Unanswered \/ BinaryDies \/ DriverDies \/ OpenRust \/ WriteRust
           \/ \E c \in Catalogs : RunHarness(c) \/ ChangeCatalog(c)
           \/ UNCHANGED vars
  BY <1>1, <1>7 DEF StartRust, IssueRust, Unanswered, BinaryDies, DriverDies, OpenRust, WriteRust, RunHarness,
                    ChangeCatalog, vars
<1> QED BY <1>2, <1>3, <1>4, <1>5, <1>6, <1>6a, <1>6b, <1>7 DEF Next

LEMMA Told ==
  ASSUME NEW p, NEW verdict, NEW sent, NEW own, NEW declared, NEW table,
         CameAbout(p, verdict, sent, own, declared, table)
  PROVE  verdict \in {"OK", "FAILED", "GATED", "SUBSTITUTED"}
BY DEF CameAbout, AnswerOf

(* The document of a run that has ended. *)
LEMMA PyDocumentTrue ==
  ASSUME PyKeeps(py), PyAt("dump")
  PROVE  /\ PyTrue(PyDocument, py.catalog)
         /\ ~py.hard => PyPlain(PyDocument)
<1> DEFINE d == PyDocument
<1>1. /\ d.mode = py.mode /\ d.asked = py.asked /\ d.objects = py.objects /\ d.versions = py.versions
      /\ \A p \in Considered : d.row[p] = PyVerdict(p)
  BY DEF PyDocument
<1> HIDE DEF d
<1>2. DOMAIN py.rows \subseteq PyProbes
  BY DEF PyKeeps
<1>3. "config" \notin PyProbes
  BY DEF PyProbes, ISSUED
<1>4. \A p \in Considered :
        /\ p \in DOMAIN py.rows => d.row[p] = py.rows[p]
        /\ p \notin DOMAIN py.rows => d.row[p].verdict \in {"IMPLICIT", "NOT-EXPRESSIBLE", "NOT-ISSUED"}
  <2> SUFFICES ASSUME NEW p \in Considered
               PROVE  /\ p \in DOMAIN py.rows => PyVerdict(p) = py.rows[p]
                      /\ p \notin DOMAIN py.rows =>
                           PyVerdict(p).verdict \in {"IMPLICIT", "NOT-EXPRESSIBLE", "NOT-ISSUED"}
    BY <1>1
  <2>1. CASE p \in DOMAIN py.rows
    <3>1. p # "config" /\ py_status(p) \in RUNNABLE
      BY <1>2, <1>3, <2>1 DEF PyProbes, ISSUED, py_status, RUNNABLE
    <3> QED BY <2>1, <3>1 DEF PyVerdict
  <2>2. CASE p = "config"
    BY <1>2, <1>3, <2>2 DEF PyVerdict
  <2>3. CASE p \notin DOMAIN py.rows /\ p # "config" /\ py_status(p) \notin RUNNABLE
    BY <2>3 DEF PyVerdict
  <2>4. CASE p \notin DOMAIN py.rows /\ p # "config" /\ py_status(p) \in RUNNABLE
    BY <2>4 DEF PyVerdict
  <2> QED BY <2>1, <2>2, <2>3, <2>4
<1>5. ASSUME NEW p \in DOMAIN py.rows
      PROVE  /\ RowTrue(p, d.row, d.asked, d.objects, py.declared) /\ py.declared \in d.objects
             /\ d.row[p].verdict \in {"OK", "FAILED", "GATED", "SUBSTITUTED"}
  <2>1. RowTrue(p, py.rows, py.asked, py.objects, py.declared)
    BY DEF PyKeeps
  <2>2. PICK declared \in py.objects :
          /\ p \notin VariantObjects => declared = py.declared
          /\ CameAbout(p, py.rows[p].verdict, p \in py.asked, py.declared, declared,
                       py.rows["load_table"].verdict)
    BY <2>1 DEF RowTrue
  <2>3. p \in Considered /\ d.row[p] = py.rows[p]
    BY <1>2, <1>4 DEF PyProbes
  <2>4. p = "load_credentials" => d.row["load_table"] = py.rows["load_table"]
    BY <1>2, <1>4 DEF PyKeeps, PyProbes
  <2>5. CameAbout(p, py.rows[p].verdict, p \in py.asked, py.declared, declared, d.row["load_table"].verdict)
    BY <2>2, <2>4, OtherTable
  <2>6. CameAbout(p, d.row[p].verdict, p \in d.asked, py.declared, declared, d.row["load_table"].verdict)
    BY <1>1, <2>3, <2>5
  <2>7. d.row[p].verdict \in {"OK", "FAILED", "GATED", "SUBSTITUTED"}
    BY <2>6, Told
  <2>8. py.declared \in d.objects
    BY <1>1 DEF PyKeeps
  <2> QED BY <1>1, <2>1, <2>2, <2>3, <2>6, <2>7, <2>8 DEF RowTrue
<1>6. PyTrue(d, py.catalog)
  <2>1. d.objects \subseteq Declarations(py.catalog, d.versions)
    BY <1>1 DEF PyKeeps
  <2>2. ASSUME NEW p \in DOMAIN py.rows
        PROVE  p \in ISSUED /\ \E own \in d.objects : RowTrue(p, d.row, d.asked, d.objects, own)
    BY <1>2, <1>5 DEF PyProbes
  <2> QED BY <1>4, <2>1, <2>2 DEF PyTrue
<1>7. ASSUME ~py.hard PROVE PyPlain(d)
  <2>1. py.mode # "absent" => PyProbes \subseteq DOMAIN py.rows
    BY <1>7 DEF PyKeeps, PyAt
  <2>2. py.mode # "absent" => d.objects # {}
    BY <1>1, <1>7 DEF PyKeeps, PyAt
  <2> QED BY <1>1, <1>5, <2>1, <2>2 DEF PyPlain
<1> QED BY <1>6, <1>7 DEF d

LEMMA PyFilesNext ==
  ASSUME PyInv, PyFilesInv, [Next]_vars PROVE PyFilesInv'
<1>1. CASE UNCHANGED pyFiles
  BY <1>1 DEF PyFilesInv, pyFiles
<1>2. CASE WritePy \/ OpenPy
  <2> DEFINE c == py.catalog
  <2>1. PICK content :
          /\ PyFile(content)
          /\ content.whole => PyTrue(content.holds, c) /\ (~py.hard => PyPlain(content.holds))
    <3>1. CASE OpenPy
      BY <3>1 DEF OpenPy, Torn
    <3>2. CASE WritePy
      <4>1. PyKeeps(py) /\ PyAt("dump") /\ PyFile(File(PyDocument))
        BY <3>2 DEF WritePy, PyInv, PyAt
      <4>2. File(PyDocument).holds = PyDocument
        BY DEF File
      <4> QED BY <4>1, <4>2, PyDocumentTrue
    <3> QED BY <1>2, <3>1, <3>2
  <2>2. c \in Catalogs
    BY <1>2 DEF WritePy, OpenPy, PyInv, PyAt, PyKeeps, PyShape
  <2>3. CASE py.hard
    <3>1. pyFailed' = [pyFailed EXCEPT ![c] = content] /\ pyRun' = pyRun
      BY <2>1, <2>3 DEF PyFile
    <3> HIDE DEF c
    <3>2. /\ IsFunction(pyFailed', Catalogs)
          /\ pyFailed'[c] = content
          /\ \A y \in Catalogs : y # c => pyFailed'[y] = pyFailed[y]
      BY <3>1, <2>2 DEF PyFilesInv, IsFunction
    <3> QED BY <3>1, <3>2, <2>1 DEF PyFilesInv
  <2>4. CASE ~py.hard
    <3>1. pyRun' = [pyRun EXCEPT ![c] = content] /\ pyFailed' = pyFailed
      BY <2>1, <2>4 DEF PyFile
    <3> HIDE DEF c
    <3>2. /\ IsFunction(pyRun', Catalogs)
          /\ pyRun'[c] = content
          /\ \A y \in Catalogs : y # c => pyRun'[y] = pyRun[y]
      BY <3>1, <2>2 DEF PyFilesInv, IsFunction
    <3> QED BY <3>1, <3>2, <2>1, <2>4 DEF PyFilesInv
  <2> QED BY <2>3, <2>4
<1>3. CASE \/ \E set \in SUBSET Catalogs, delegation \in BOOLEAN : StartRust(set, delegation)
           \/ IssueRust \/ Unanswered \/ BinaryDies \/ DriverDies \/ OpenRust \/ WriteRust
           \/ \E set \in SUBSET Catalogs : StartPy(set)
           \/ Construct \/ PyFails \/ IssuePy \/ PyDies
           \/ \E c \in Catalogs : RunHarness(c) \/ ChangeCatalog(c)
           \/ UNCHANGED vars
  <2>1. UNCHANGED pyFiles
    BY <1>3 DEF StartRust, IssueRust, Unanswered, BinaryDies, DriverDies, OpenRust, WriteRust, StartPy, Construct,
                PyFails, IssuePy, PyDies, RunHarness, ChangeCatalog, vars, pyFiles
  <2> QED BY <2>1, <1>1
<1> QED BY <1>2, <1>3 DEF Next

-----------------------------------------------------------------------------
(***************************************************************************)
(* The harness's evidence, and the invariant.                              *)
(***************************************************************************)
LEMMA PaperNext ==
  ASSUME PaperInv, World, [Next]_vars PROVE PaperInv'
<1>1. CASE UNCHANGED paper1
  BY <1>1 DEF PaperInv
<1>2. ASSUME NEW c \in Catalogs, RunHarness(c) PROVE PaperInv'
  <2>1. PICK tier \in {Probes, Probes \ WriteProbes}, lost \in {{}} \cup {{p} : p \in Considered},
             prefixed \in BOOLEAN :
          paper1' = [paper1 EXCEPT ![c] = File(Saw(c, tier, lost, prefixed))]
    BY <1>2 DEF RunHarness
  <2> DEFINE d == Saw(c, tier, lost, prefixed)
  <2>2. /\ d.version = version[c] /\ d.lost = lost /\ d.asked = tier \cap Considered
        /\ d.declared = IF "config" \in lost THEN {} ELSE Declared(c)
        /\ d.works = {p \in (tier \cap Considered) \ lost :
                        Served(c, Signature(p)) /\ ~(prefixed /\ "config" \in lost)}
    BY DEF Saw
  <2>3. paper1' = [paper1 EXCEPT ![c] = File(d)]
    BY <2>1
  <2> HIDE DEF d
  <2>4. Found(d, c)
    <3>1. d.version \in Versions /\ d.works \subseteq Considered
      BY <2>2 DEF World
    <3>2. ASSUME d.lost = {}
          PROVE  /\ d.declared = Declares(c, d.version)
                 /\ \A p \in Considered :
                      p \in d.works <=> p \in d.asked /\ Signature(p) \in Serves(c, d.version)
      BY <2>2, <3>2 DEF Declared, Served
    <3> QED BY <3>1, <3>2 DEF Found
  <2>5. /\ IsFunction(paper1', Catalogs)
        /\ paper1'[c].holds = d
        /\ \A y \in Catalogs : y # c => paper1'[y] = paper1[y]
    BY <2>3 DEF PaperInv, IsFunction, File
  <2> QED BY <2>4, <2>5 DEF PaperInv
<1>3. CASE \/ \E set \in SUBSET Catalogs, delegation \in BOOLEAN : StartRust(set, delegation)
           \/ IssueRust \/ Unanswered \/ BinaryDies \/ DriverDies \/ OpenRust \/ WriteRust
           \/ \E set \in SUBSET Catalogs : StartPy(set)
           \/ Construct \/ PyFails \/ IssuePy \/ OpenPy \/ WritePy \/ PyDies
           \/ \E c \in Catalogs : ChangeCatalog(c)
           \/ UNCHANGED vars
  <2>1. UNCHANGED paper1
    BY <1>3 DEF StartRust, IssueRust, Unanswered, BinaryDies, DriverDies, OpenRust, WriteRust, StartPy, Construct,
                PyFails, IssuePy, OpenPy, WritePy, PyDies, ChangeCatalog, vars
  <2> QED BY <2>1, <1>1
<1> QED BY <1>2, <1>3 DEF Next

Inv == RustInv /\ RustFilesInv /\ PyInv /\ PyFilesInv /\ PaperInv

LEMMA Invariant == Spec => []Inv
<1>1. Init => Inv
  BY DEF Init, Inv, RustInv, RustFilesInv, PyInv, PyFilesInv, PaperInv, IsFunction, NoFile
<1>2. Inv /\ World /\ [Next]_vars => Inv'
  BY RustNext, RustFilesNext, PyNext, PyFilesNext, PaperNext DEF Inv
<1> QED BY <1>1, <1>2, WorldInvariant, PTL DEF Spec

-----------------------------------------------------------------------------
(***************************************************************************)
(* The properties.                                                         *)
(***************************************************************************)
LEMMA PyRowsTrue ==
  ASSUME NEW d, NEW c, PyTrue(d, c) PROVE PyRows(d)
<1> SUFFICES ASSUME NEW p \in Considered
             PROVE  /\ d.row[p].verdict = "OK" => p \in d.asked
                    /\ d.row[p].verdict \in {"GATED", "SUBSTITUTED"} =>
                         p \notin d.asked \/ \E o, q \in d.objects : o # q
                    /\ d.row[p].verdict = "FAILED" =>
                         \/ p \in d.asked
                         \/ gate(p) = "substitutes" /\ ~d.row[p].declared
                         \/ p = "load_credentials" /\ d.row["load_table"].verdict # "OK"
  BY DEF PyRows
<1>1. CASE d.row[p].verdict \in {"IMPLICIT", "NOT-EXPRESSIBLE", "NOT-ISSUED"}
  BY <1>1
<1>2. CASE d.row[p].verdict \notin {"IMPLICIT", "NOT-EXPRESSIBLE", "NOT-ISSUED"}
  <2>1. PICK own \in d.objects : RowTrue(p, d.row, d.asked, d.objects, own)
    BY <1>2 DEF PyTrue
  <2>2. PICK declared \in d.objects :
          /\ p \notin VariantObjects => declared = own
          /\ CameAbout(p, d.row[p].verdict, p \in d.asked, own, declared, d.row["load_table"].verdict)
    BY <2>1 DEF RowTrue
  <2>3. d.row[p].declared = (Signature(p) \in own)
    BY <2>1 DEF RowTrue
  <2>4. gate(p) = "substitutes" => declared = own
    BY <2>2, Gates
  <2>5. d.row[p].verdict \in {"GATED", "SUBSTITUTED"} /\ p \in d.asked => declared # own
    BY <2>2 DEF CameAbout, AnswerOf
  <2>6. d.row[p].verdict = "OK" => p \in d.asked
    BY <2>2 DEF CameAbout
  <2>7. d.row[p].verdict = "FAILED" =>
          \/ p \in d.asked
          \/ gate(p) = "substitutes" /\ ~d.row[p].declared
          \/ p = "load_credentials" /\ d.row["load_table"].verdict # "OK"
    BY <2>2, <2>3, <2>4 DEF CameAbout
  <2> QED BY <2>5, <2>6, <2>7
<1> QED BY <1>1, <1>2

(* A row of either client says what happened to the probe's request.       *)
THEOREM RowsAreTrue == Spec => []RowsSayWhatWasSent
<1>1. Inv => RowsSayWhatWasSent
  BY PyRowsTrue DEF Inv, RustFilesInv, PyFilesInv, RowsSayWhatWasSent
<1> QED BY <1>1, Invariant, PTL

(* A file under the name that is read holds a run.                         *)
THEOREM EvidenceIsARun == Spec => []PlainEvidenceIsARun
<1>1. Inv => PlainEvidenceIsARun
  BY DEF Inv, RustFilesInv, PyFilesInv, RustPlain, PyPlain, PlainEvidenceIsARun, RustProbes, PyProbes
<1> QED BY <1>1, Invariant, PTL

(* When both met one version of the catalog, every object of the client    *)
(* read the declaration that the harness read.                             *)
LEMMA OneDeclaration ==
  ASSUME Inv, NEW c \in Catalogs, Comparable(c), NEW p \in Considered,
         pyRun[c].holds.row[p].verdict \notin {"IMPLICIT", "NOT-EXPRESSIBLE", "NOT-ISSUED"}
  PROVE  LET d == pyRun[c].holds
             declared == Effective(paper1[c].holds.declared) IN
         /\ p \in ISSUED
         /\ d.row[p].declared = (Signature(p) \in declared)
         /\ CameAbout(p, d.row[p].verdict, p \in d.asked, declared, declared, d.row["load_table"].verdict)
<1> DEFINE d == pyRun[c].holds
           declared == Effective(paper1[c].holds.declared)
<1>1. PyTrue(d, c) /\ Found(paper1[c].holds, c)
  BY DEF Inv, PyFilesInv, PaperInv, Comparable
<1>2. d.versions = {paper1[c].holds.version} /\ paper1[c].holds.declared = Declares(c, paper1[c].holds.version)
  BY <1>1 DEF Comparable, Found
<1>3. \A o \in d.objects : o = declared
  BY <1>1, <1>2 DEF PyTrue, Declarations
<1>4. p \in ISSUED /\ \E own \in d.objects : RowTrue(p, d.row, d.asked, d.objects, own)
  BY <1>1 DEF PyTrue
<1>5. RowTrue(p, d.row, d.asked, d.objects, declared)
  BY <1>3, <1>4
<1>6. PICK through \in d.objects :
        CameAbout(p, d.row[p].verdict, p \in d.asked, declared, through, d.row["load_table"].verdict)
  BY <1>5 DEF RowTrue
<1>7. through = declared
  BY <1>3
<1> QED BY <1>4, <1>5, <1>6, <1>7 DEF RowTrue

(* What the comparison says of a closed gate is true of the catalog.       *)
THEOREM ComparisonIsReal == Spec => []AgreementIsReal
<1>1. Inv => AgreementIsReal
  <2> SUFFICES ASSUME Inv, NEW c \in both, Comparable(c), NEW p \in gated(c)
               PROVE  LET answers == Signature(p) \in Serves(c, paper1[c].holds.version) IN
                      IF WillNotAsk(c, p) THEN answers /\ p \notin pyRun[c].holds.asked
                                          ELSE answers => p \notin paper1[c].holds.asked
    BY DEF AgreementIsReal
  <2> DEFINE d == pyRun[c].holds
             h == paper1[c].holds
             declared == Effective(h.declared)
  <2>1. c \in Catalogs /\ p \in Considered /\ d.row[p].verdict \in {"GATED", "SUBSTITUTED"}
    BY DEF both, gated
  <2>2. /\ d.row[p].declared = (Signature(p) \in declared)
        /\ CameAbout(p, d.row[p].verdict, p \in d.asked, declared, declared, d.row["load_table"].verdict)
    BY <2>1, OneDeclaration
  <2>3. p \in h.works <=> p \in h.asked /\ Signature(p) \in Serves(c, h.version)
    BY <2>1 DEF Inv, PaperInv, Comparable, Found
  <2> HIDE DEF d, h, declared
  <2>4. Signature(p) \notin declared /\ p \notin d.asked
    BY <2>1, <2>2 DEF CameAbout, AnswerOf
  <2>5. WillNotAsk(c, p) <=> p \in h.works
    BY <2>2, <2>4 DEF WillNotAsk, d, h
  <2> QED BY <2>3, <2>4, <2>5 DEF d, h
<1> QED BY <1>1, Invariant, PTL

(* What gate_cost.py predicts of pyiceberg is what pyiceberg does.         *)
THEOREM CostIsForetold == Spec => []GateCostForetold
<1>1. Inv => GateCostForetold
  <2> SUFFICES ASSUME Inv, NEW c \in Catalogs, Comparable(c), pyRun[c].holds.mode # "absent",
                      NEW p \in DOMAIN cost(c) \cap ISSUED
               PROVE  LET verdict == pyRun[c].holds.row[p].verdict IN
                      \/ verdict \in cost(c)[p]
                      \/ verdict = "FAILED" /\ cost(c)[p] # {"GATED"}
                      \/ /\ verdict = "GATED" /\ gate(p) = "substitutes"
                         /\ Substitute(p) \notin Effective(paper1[c].holds.declared)
                      \/ p = "load_credentials" /\ pyRun[c].holds.row["load_table"].verdict # "OK"
    BY DEF GateCostForetold
  <2> DEFINE d == pyRun[c].holds
             h == paper1[c].holds
             declared == Effective(h.declared)
  <2>1. p \in h.works /\ p \notin Variants /\ p \in ISSUED /\ cost(c)[p] = Predicted(c, p)
    BY DEF cost
  <2>2. p \in Considered
    BY <2>1 DEF Inv, PaperInv, Comparable, Found
  <2>3. d.row[p].verdict \notin {"IMPLICIT", "NOT-EXPRESSIBLE", "NOT-ISSUED"}
    BY <2>1, <2>2 DEF Inv, PyFilesInv, PyPlain, PyProbes, Comparable
  <2>4. CameAbout(p, d.row[p].verdict, p \in d.asked, declared, declared, d.row["load_table"].verdict)
    BY <2>2, <2>3, OneDeclaration
  <2>5. CostEffective(h.declared) = declared
    BY DEF CostEffective, Effective
  <2>6. /\ Signature(p) \in declared \/ gate(p) = "none" => Predicted(c, p) = {"OK"}
        /\ Signature(p) \notin declared /\ gate(p) = "refuses" => Predicted(c, p) = {"GATED"}
        /\ Signature(p) \notin declared /\ gate(p) \in {"silent-empty", "substitutes"}
             => Predicted(c, p) = {"SUBSTITUTED"}
    BY <2>5 DEF Predicted
  <2> HIDE DEF d, h, declared
  <2>7. \/ d.row[p].verdict \in Predicted(c, p)
        \/ d.row[p].verdict = "FAILED" /\ Predicted(c, p) # {"GATED"}
        \/ d.row[p].verdict = "GATED" /\ gate(p) = "substitutes" /\ Substitute(p) \notin declared
        \/ p = "load_credentials" /\ d.row["load_table"].verdict # "OK"
    BY <2>4, <2>6, Gates DEF CameAbout, AnswerOf
  <2> QED BY <2>1, <2>7 DEF d, h, declared
<1> QED BY <1>1, Invariant, PTL

=============================================================================
