-------------------------- MODULE RustWritesProofs --------------------------
(***************************************************************************)
(* Theorems about RustWrites, for every catalog, with requests lost and    *)
(* the binary dying anywhere: a report agrees with the log beside it, and  *)
(* lacks rows only where the run was cut; a run nobody cut is green on a   *)
(* catalog that serves everything, and cleans up after itself.             *)
(***************************************************************************)
EXTENDS RustWrites, TLAPS

(* What the proofs need to know of the eighteen probes. *)
LEMMA StepCount == Len(Steps) = 18 /\ Positions = 1..18
BY DEF Steps, Positions

LEMMA StepFacts ==
  ASSUME NEW p \in Positions
  PROVE  /\ Len(Steps[p].calls) \in 0..2
         /\ Steps[p].calls = << >> <=> Len(Steps[p].calls) = 0
         /\ Aborts(p) <=> p = 3
         /\ \A k \in 1..Len(Steps[p].calls) :
              /\ Steps[p].calls[k].do = "exists" <=> Steps[p].row = "_residue_check"
              /\ Steps[p].calls[k].on \in Objects /\ Target(Steps[p].calls[k]) \in Objects
<1> USE DEF Objects, Target, Aborts, Call, Probe, Create, Commit, Find, Drop, Rename, DropT4
<1>1. p \in 1..18
  BY StepCount
<1>2. CASE p \in {1, 2}
  BY <1>2 DEF Steps
<1>3. CASE p = 3
  BY <1>3 DEF Steps
<1>4. CASE p = 4
  BY <1>4 DEF Steps
<1>5. CASE p = 5
  BY <1>5 DEF Steps
<1>6. CASE p = 6
  BY <1>6 DEF Steps
<1>7. CASE p = 7
  BY <1>7 DEF Steps
<1>8. CASE p \in {8, 9}
  BY <1>8 DEF Steps
<1>9. CASE p \in {10, 11}
  BY <1>9 DEF Steps
<1>10. CASE p \in {12, 13}
  BY <1>10 DEF Steps
<1>11. CASE p \in {14, 15}
  BY <1>11 DEF Steps
<1>12. CASE p \in {16, 17}
  BY <1>12 DEF Steps
<1>13. CASE p = 18
  BY <1>13 DEF Steps
<1> QED BY <1>1, <1>2, <1>3, <1>4, <1>5, <1>6, <1>7, <1>8, <1>9, <1>10, <1>11, <1>12, <1>13

-----------------------------------------------------------------------------
(***************************************************************************)
(* The inductive invariant.                                                *)
(***************************************************************************)

(* Rows and log agree, probe by probe. *)
Agree(r, w, p) ==
  /\ r[p] = "OK" => WireSaysOk(w, p)
  /\ r[p] = "FAILED" => ~WireSaysOk(w, p)
  /\ r[p] = "UNSUPPORTED" => \A e \in w : e.pos # p

(* The probe under way has no row yet, and the request under way is one of *)
(* its requests.                                                           *)
InFlight ==
  /\ stage # "idle" => call <= Len(Calls)
  /\ call = 1 \/ call <= Len(Calls)
  /\ stage # "idle" \/ phase \in {"starting", "running"} => rows[pos] = "MISSING"
  /\ stage = "answered" => answer # "none"

(* The rows before it are there, those after it are not, and a binary that *)
(* ended by itself has come to the end or to the abort.                    *)
InOrder ==
  /\ \A p \in Positions : p > pos => rows[p] = "MISSING"
  /\ \A p \in Positions : p < pos => rows[p] # "MISSING"
  /\ phase = "exited" /\ ~died =>
       rows[pos] # "MISSING" /\ (pos = Len(Steps) \/ rows[3] = "FAILED")

(* The log holds no more than the requests made so far, and of the probe   *)
(* under way all but those whose answer was lost.                          *)
LogSoFar ==
  /\ \A e \in wire : e.pos <= pos
  /\ rows[pos] = "MISSING" =>
       /\ \A e \in wire : e.pos = pos =>
            e.call < call \/ (e.call = call /\ stage = "returned" /\ e.status = answer)
       /\ \A k \in 1..2 : k < call => Logged(wire, pos, k, Wanted(pos))
       /\ stage = "returned" /\ answer # "none" => Logged(wire, pos, call, {answer})

RowsAgree == \A p \in Positions : Agree(rows, wire, p)

Reported == report.new => phase = "over" /\ ReportMatchesWire /\ MissingOnlyAfterAbort

Inv == TypeOK /\ InFlight /\ InOrder /\ LogSoFar /\ RowsAgree /\ Reported
-----------------------------------------------------------------------------
LEMMA InitInv == Init => Inv
<1> SUFFICES ASSUME Init PROVE Inv
  OBVIOUS
<1> USE DEF Init
<1>1. catalog \in CatalogType
  BY CatalogsAssumption
<1>2. TypeOK
  <2>1. catalog.faults \in 0..1 /\ 1 \in Positions
    BY <1>1, StepCount DEF CatalogType
  <2>2. rows \in Rows /\ wire \in Wire
    <3>1. rows = [p \in Positions |-> "MISSING"] /\ "MISSING" \in Verdicts
      BY DEF Verdicts
    <3>2. rows \in Rows
      BY <3>1 DEF Rows
    <3>3. wire \in Wire
      BY DEF Wire
    <3> QED BY <3>2, <3>3
  <2>3. report \in {AsItWas} \cup [new : {TRUE}, rows : Rows, wire : Wire]
    OBVIOUS
  <2>4. catalog \in CatalogType /\ objs \subseteq Objects /\ faults \in 0..1
    BY <1>1, <2>1
  <2>5. phase \in {"starting", "running", "exited", "over"} /\ answer \in Statuses
    BY DEF Statuses
  <2>6. pos \in Positions /\ call \in 1..2
    BY <2>1
  <2>7. meta \in BOOLEAN /\ died \in BOOLEAN
    BY Zenon
  <2>8. stage = "idle"
    OBVIOUS
  <2> HIDE DEF Init
  <2> QED BY <2>2, <2>3, <2>4, <2>5, <2>6, <2>7, <2>8 DEF TypeOK
<1>3. InFlight /\ InOrder
  BY StepCount DEF InFlight, InOrder
<1>4. LogSoFar /\ RowsAgree
  BY StepCount DEF LogSoFar, RowsAgree, Agree
<1>5. Reported
  BY DEF Reported, AsItWas
<1> QED BY <1>2, <1>3, <1>4, <1>5 DEF Inv

(* A row is written for the probe under way, and the binary goes on to the *)
(* next one, ends, or aborts.                                              *)
LEMMA RowWritten ==
  ASSUME Inv, phase = "running", NEW v \in {"OK", "FAILED", "UNSUPPORTED"},
         rows' = [rows EXCEPT ![pos] = v], stage' = "idle",
         Agree([rows EXCEPT ![pos] = v], wire, pos),
         Advance \/ (phase' = "exited" /\ UNCHANGED <<pos, call>> /\ pos = 3 /\ v = "FAILED"),
         UNCHANGED <<catalog, objs, faults, meta, died, answer, wire, report>>
  PROVE  Inv'
<1> USE DEF Inv
<1>1. /\ rows' \in Rows /\ rows'[pos] = v /\ v # "MISSING"
      /\ \A p \in Positions : p # pos => rows'[p] = rows[p]
  BY DEF TypeOK, Rows, Verdicts
<1>2. /\ phase' \in {"running", "exited"} /\ pos' \in Positions /\ call' \in 1..2
      /\ phase' = "exited" => pos' = pos /\ (pos = Len(Steps) \/ (pos = 3 /\ v = "FAILED"))
      /\ phase' = "running" => pos' = pos + 1 /\ call' = 1
  BY StepCount DEF Advance, TypeOK
<1>3. TypeOK'
  BY <1>1, <1>2 DEF TypeOK
<1>4. pos \in Positions /\ Positions = 1..18
  BY StepCount DEF TypeOK
<1>5. InFlight'
  <2>1. phase' = "exited" => Calls' = Calls /\ call' = call
    BY <1>2 DEF Calls, Advance
  <2>2. phase' = "running" => rows'[pos'] = "MISSING"
    BY <1>1, <1>2, <1>4 DEF InOrder, TypeOK
  <2> QED BY <1>2, <2>1, <2>2 DEF InFlight
<1>6. InOrder'
  BY <1>1, <1>2, <1>4, StepCount DEF InOrder, TypeOK
<1>7. LogSoFar'
  <2>1. \A e \in wire : e.pos \in Positions
    BY DEF TypeOK, Wire
  <2>2. \A e \in wire' : e.pos <= pos'
    BY <1>2, <1>4, <2>1, StepCount DEF LogSoFar
  <2>3. CASE phase' = "exited"
    BY <1>1, <1>2, <2>2, <2>3 DEF LogSoFar
  <2>4. CASE phase' = "running"
    BY <1>2, <1>4, <2>1, <2>2, <2>4 DEF LogSoFar
  <2> QED BY <1>2, <2>3, <2>4
<1>8. RowsAgree'
  BY <1>1 DEF RowsAgree, Agree
<1>9. Reported'
  BY DEF Reported
<1> QED BY <1>3, <1>5, <1>6, <1>7, <1>8, <1>9

LEMMA StubKeeps ==
  ASSUME Inv, Stub
  PROVE  Inv'
<1>1. pos \in Positions /\ call \in 1..2 /\ rows[pos] = "MISSING"
  BY DEF Inv, TypeOK, InFlight, Stub
<1>2. Len(Calls) = 0
  BY <1>1, StepFacts DEF Stub, Calls
<1>3. stage = "idle" /\ call = 1
  BY <1>1, <1>2 DEF Inv, InFlight
<1>4. \A e \in wire : e.pos # pos
  <2>1. \A e \in wire : e.call \in 1..2
    BY DEF Inv, TypeOK, Wire
  <2> QED BY <1>1, <1>3, <2>1 DEF Inv, LogSoFar
<1>5. [rows EXCEPT ![pos] = "UNSUPPORTED"][pos] = "UNSUPPORTED"
  BY <1>1 DEF Inv, TypeOK, Rows
<1>6. Agree([rows EXCEPT ![pos] = "UNSUPPORTED"], wire, pos)
  BY <1>4, <1>5 DEF Agree
<1> QED BY <1>3, <1>6, RowWritten DEF Stub

(* What the binary takes an answer for is what the log will say of it. *)
LEMMA OkIsWanted ==
  ASSUME Inv, stage # "idle"
  PROVE  /\ Ok(Current) <=> answer \in Wanted(pos)
         /\ call \in 1..Len(Calls)
<1>1. pos \in Positions /\ call \in 1..2 /\ call <= Len(Calls)
  BY DEF Inv, TypeOK, InFlight
<1>2. Len(Calls) \in 0..2
  BY <1>1, StepFacts DEF Calls
<1>3. call \in 1..Len(Calls)
  BY <1>1, <1>2
<1>4. Current.do = "exists" <=> Steps[pos].row = "_residue_check"
  BY <1>1, <1>3, StepFacts DEF Calls, Current
<1> QED BY <1>3, <1>4 DEF Ok, Wanted

LEMMA RecordKeeps ==
  ASSUME Inv, Record
  PROVE  Inv'
<1>1. /\ phase = "running" /\ stage = "returned"
      /\ pos \in Positions /\ call \in 1..2 /\ rows[pos] = "MISSING"
  BY DEF Inv, TypeOK, InFlight, Record, RecordOk, RecordError
<1>2. /\ Ok(Current) <=> answer \in Wanted(pos)
      /\ call \in 1..Len(Calls)
  BY <1>1, OkIsWanted
<1>3. Len(Calls) \in 0..2
  BY <1>1, StepFacts DEF Calls
<1>4. CASE RecordOk
  <2>1. Ok(Current) /\ call = Len(Calls)
    BY <1>4 DEF RecordOk
  <2>2. ASSUME NEW k \in 1..Len(Calls)
        PROVE  Logged(wire, pos, k, Wanted(pos))
    <3>1. CASE k < call
      BY <1>1, <1>3, <3>1 DEF Inv, LogSoFar
    <3>2. CASE k = call
      <4>1. answer \in Wanted(pos) /\ answer # "none"
        BY <1>2, <2>1 DEF Wanted
      <4>2. Logged(wire, pos, call, {answer})
        BY <1>1, <4>1 DEF Inv, LogSoFar
      <4> QED BY <3>2, <4>1, <4>2 DEF Logged
    <3> QED BY <1>3, <2>1, <3>1, <3>2
  <2>3. WireSaysOk(wire, pos)
    BY <2>2 DEF WireSaysOk, Calls
  <2>4. [rows EXCEPT ![pos] = "OK"][pos] = "OK"
    BY <1>1 DEF Inv, TypeOK, Rows
  <2>5. Agree([rows EXCEPT ![pos] = "OK"], wire, pos)
    BY <2>3, <2>4 DEF Agree
  <2> QED BY <1>1, <1>4, <2>5, RowWritten DEF RecordOk
<1>5. CASE RecordError
  <2>1. answer \notin Wanted(pos)
    BY <1>2, <1>5 DEF RecordError
  <2>2. ~Logged(wire, pos, call, Wanted(pos))
    BY <1>1, <2>1 DEF Inv, LogSoFar, Logged
  <2>3. ~WireSaysOk(wire, pos)
    BY <1>2, <2>2 DEF WireSaysOk, Calls
  <2>4. [rows EXCEPT ![pos] = "FAILED"][pos] = "FAILED"
    BY <1>1 DEF Inv, TypeOK, Rows
  <2>5. Agree([rows EXCEPT ![pos] = "FAILED"], wire, pos)
    BY <2>3, <2>4 DEF Agree
  <2>6. Aborts(pos) => pos = 3
    BY <1>1, StepFacts
  <2> QED BY <1>1, <1>5, <2>5, <2>6, RowWritten DEF RecordError
<1> QED BY <1>4, <1>5 DEF Record

LEMMA BinaryKeeps ==
  ASSUME Inv, Binary
  PROVE  Inv'
<1> USE DEF Inv
<1>1. CASE BinaryStarts \/ BuildFails \/ BinaryDies
  <2> USE DEF BinaryStarts, BuildFails, BinaryDies
  <2>1. TypeOK'
    BY <1>1 DEF TypeOK
  <2>2. InFlight'
    BY <1>1 DEF InFlight, Calls
  <2>3. InOrder'
    BY <1>1 DEF InOrder
  <2>4. LogSoFar'
    BY <1>1 DEF LogSoFar
  <2>5. RowsAgree' /\ Reported'
    BY <1>1 DEF RowsAgree, Reported
  <2> QED BY <2>1, <2>2, <2>3, <2>4, <2>5
<1>2. CASE Ask
  <2>1. TypeOK'
    BY <1>2 DEF Ask, TypeOK
  <2>2. InFlight' /\ InOrder'
    BY <1>2 DEF Ask, InFlight, InOrder, Calls
  <2>3. LogSoFar'
    BY <1>2 DEF Ask, LogSoFar
  <2>4. RowsAgree' /\ Reported'
    BY <1>2 DEF Ask, RowsAgree, Reported
  <2> QED BY <2>1, <2>2, <2>3, <2>4
<1>3. CASE NextCall
  <2>1. /\ stage = "returned" /\ phase = "running" /\ rows[pos] = "MISSING"
        /\ pos \in Positions /\ call \in 1..2
    BY <1>3 DEF NextCall, InFlight, TypeOK
  <2>2. answer \in Wanted(pos) /\ Len(Calls) \in 0..2 /\ answer # "none"
    BY <1>3, <2>1, OkIsWanted, StepFacts DEF NextCall, Calls, Wanted
  <2>3. call' \in 1..2 /\ call' <= Len(Calls) /\ call' = call + 1
    <3>1. call < Len(Calls) /\ call' = call + 1
      BY <1>3 DEF NextCall
    <3>2. \A n \in 0..2, c \in 1..2 : c < n => c + 1 \in 1..2 /\ c + 1 <= n
      OBVIOUS
    <3>3. call + 1 \in 1..2 /\ call + 1 <= Len(Calls)
      BY <3>1, <3>2, <2>1, <2>2
    <3> QED BY <3>1, <3>3
  <2>4. TypeOK'
    BY <1>3, <2>3 DEF NextCall, TypeOK
  <2>5. InFlight' /\ InOrder'
    BY <1>3, <2>3 DEF NextCall, InFlight, InOrder, Calls
  <2>6. LogSoFar'
    <3>1. Logged(wire, pos, call, Wanted(pos))
      BY <2>1, <2>2 DEF LogSoFar, Logged
    <3>2. \A k \in 1..2 : k < call' => Logged(wire, pos, k, Wanted(pos))
      BY <2>1, <2>3, <3>1 DEF LogSoFar
    <3>3. \A e \in wire : e.call \in 1..2
      BY DEF TypeOK, Wire
    <3>4. \A e \in wire : e.pos = pos => e.call < call'
      BY <2>1, <2>3, <3>3 DEF LogSoFar
    <3> QED BY <1>3, <3>2, <3>4 DEF NextCall, LogSoFar
  <2>7. RowsAgree' /\ Reported'
    BY <1>3 DEF NextCall, RowsAgree, Reported
  <2> QED BY <2>4, <2>5, <2>6, <2>7
<1> QED BY <1>1, <1>2, <1>3, StubKeeps, RecordKeeps DEF Binary

(* The catalog's state stays within the scratch objects. *)
LEMMA ObjectsKept ==
  ASSUME TypeOK, stage = "asked", call \in 1..Len(Calls)
  PROVE  /\ Applied(Current, objs, catalog) \subseteq Objects
         /\ Reply(Current, objs, catalog) \in Statuses
<1>1. Current.on \in Objects /\ Target(Current) \in Objects
  <2>1. pos \in Positions
    BY DEF TypeOK
  <2> QED BY <2>1, StepFacts DEF Current, Calls
<1>2. Applied(Current, objs, catalog) \subseteq Objects
  BY <1>1 DEF Applied, TypeOK
<1>3. Reply(Current, objs, catalog) \in Statuses
  BY DEF Reply, Statuses, TypeOK, CatalogType
<1> QED BY <1>2, <1>3

LEMMA ReplyNotNone ==
  ASSUME TypeOK
  PROVE  Reply(Current, objs, catalog) # "none"
BY DEF Reply, TypeOK, CatalogType

LEMMA ProxyKeeps ==
  ASSUME Inv, Proxy
  PROVE  Inv'
<1> USE DEF Inv
<1>1. CASE CatalogAnswers \/ Unreachable \/ AnswerLost
  <2>1. stage = "asked" /\ stage' \in {"answered", "returned"}
        /\ (stage' = "returned" <=> answer' = "none")
        /\ UNCHANGED <<catalog, phase, meta, died, pos, call, rows, wire, report>>
    BY <1>1, ReplyNotNone DEF CatalogAnswers, Unreachable, AnswerLost, TypeOK
  <2>2. call \in 1..Len(Calls)
    BY <2>1, OkIsWanted
  <2>3. objs' \subseteq Objects /\ answer' \in Statuses \cup {"none"}
    <3>1. /\ Applied(Current, objs, catalog) \subseteq Objects
          /\ Reply(Current, objs, catalog) \in Statuses
      BY <2>1, <2>2, ObjectsKept
    <3> QED BY <1>1, <3>1 DEF CatalogAnswers, Unreachable, AnswerLost, TypeOK, Statuses
  <2>4. faults' \in 0..1
    BY <1>1 DEF CatalogAnswers, Unreachable, AnswerLost, TypeOK
  <2>5. TypeOK'
    BY <2>1, <2>3, <2>4 DEF TypeOK
  <2>6. InFlight' /\ InOrder'
    BY <2>1 DEF InFlight, InOrder, Calls
  <2>7. LogSoFar'
    BY <2>1 DEF LogSoFar
  <2>8. RowsAgree' /\ Reported'
    BY <2>1 DEF RowsAgree, Reported, ReportMatchesWire, MissingOnlyAfterAbort
  <2> QED BY <2>5, <2>6, <2>7, <2>8
<1>2. CASE ProxyLogs
  <2> DEFINE e0 == [pos |-> pos, call |-> call, status |-> answer]
  <2>1. /\ stage = "answered" /\ stage' = "returned" /\ phase # "over"
        /\ wire' = wire \cup {e0}
        /\ UNCHANGED <<catalog, objs, faults, phase, meta, died, pos, call, answer,
                       rows, report>>
    BY <1>2 DEF ProxyLogs
  <2>2. pos \in Positions /\ call \in 1..2 /\ rows[pos] = "MISSING"
    BY <2>1 DEF TypeOK, InFlight
  <2>3. answer \in Statuses /\ call \in 1..Len(Calls)
    BY <2>1, OkIsWanted DEF InFlight, TypeOK
  <2>4. e0 \in [pos : Positions, call : 1..2, status : Statuses]
    BY <2>2, <2>3
  <2>5. TypeOK'
    BY <2>1, <2>4 DEF TypeOK, Wire
  <2>6. InFlight' /\ InOrder'
    BY <2>1 DEF InFlight, InOrder, Calls
  <2>7. LogSoFar'
    <3>1. \A e \in wire' : e.pos <= pos'
      BY <2>1, <2>2, StepCount DEF LogSoFar
    <3>2. \A e \in wire' : e.pos = pos' =>
            e.call < call' \/ (e.call = call' /\ stage' = "returned" /\ e.status = answer')
      BY <2>1, <2>2 DEF LogSoFar
    <3>3. \A k \in 1..2 : k < call' => Logged(wire', pos', k, Wanted(pos)')
      BY <2>1, <2>2 DEF LogSoFar, Logged
    <3>4. Logged(wire', pos', call', {answer'})
      <4>1. e0 \in wire' /\ e0.pos = pos /\ e0.call = call /\ e0.status = answer
        BY <2>1
      <4>2. pos' = pos /\ call' = call /\ answer' = answer
        BY <2>1
      <4> HIDE DEF e0
      <4> QED BY <4>1, <4>2 DEF Logged
    <3> QED BY <3>1, <3>2, <3>3, <3>4 DEF LogSoFar
  <2>8. RowsAgree'
    <3>1. ASSUME NEW p \in Positions, p # pos PROVE Agree(rows', wire', p)
      <4>1. \A k, ok : Logged(wire', p, k, ok) <=> Logged(wire, p, k, ok)
        BY <2>1, <3>1 DEF Logged
      <4>2. WireSaysOk(wire', p) <=> WireSaysOk(wire, p)
        BY <4>1 DEF WireSaysOk
      <4> QED BY <2>1, <3>1, <4>2 DEF RowsAgree, Agree
    <3>2. Agree(rows', wire', pos)
      BY <2>1, <2>2 DEF Agree
    <3> QED BY <2>1, <3>1, <3>2 DEF RowsAgree
  <2>9. Reported'
    BY <2>1 DEF Reported, ReportMatchesWire, MissingOnlyAfterAbort
  <2> QED BY <2>5, <2>6, <2>7, <2>8, <2>9
<1> QED BY <1>1, <1>2 DEF Proxy

LEMMA DriverKeeps ==
  ASSUME Inv, Driver
  PROVE  Inv'
<1> USE DEF Inv
<1>1. UNCHANGED <<catalog, objs, faults, meta, died, pos, call, stage, answer, rows, wire>>
      /\ phase' = "over"
  BY DEF Driver, TimesOut, WriteReport
<1>2. InFlight' /\ InOrder' /\ LogSoFar' /\ RowsAgree'
  BY <1>1 DEF InFlight, InOrder, LogSoFar, RowsAgree, Calls
<1>3. CASE TimesOut \/ (WriteReport /\ UNCHANGED report)
  <2>1. report' = report
    BY <1>3 DEF TimesOut
  <2>2. TypeOK' /\ Reported'
    BY <1>1, <2>1 DEF TypeOK, Reported, ReportMatchesWire, MissingOnlyAfterAbort
  <2> QED BY <1>2, <2>2
<1>4. CASE WriteReport /\ report' = [new |-> TRUE, rows |-> rows, wire |-> wire]
  <2>1. phase = "exited"
    BY <1>4 DEF WriteReport
  <2>2. TypeOK'
    BY <1>1, <1>4 DEF TypeOK
  <2>3. ReportMatchesWire'
    BY <1>1, <1>4 DEF ReportMatchesWire, RowsAgree, Agree
  <2>4. MissingOnlyAfterAbort'
    <3>1. ASSUME NEW p \in Positions, NEW q \in Positions, rows[p] = "MISSING", p <= q
          PROVE  rows[q] = "MISSING" /\ (died \/ rows[3] = "FAILED")
      <4>1. Positions = 1..18 /\ Len(Steps) = 18 /\ pos \in Positions
        BY StepCount DEF TypeOK
      <4>2. p >= pos
        BY <3>1, <4>1 DEF InOrder
      <4>3. CASE ~died
        BY <2>1, <3>1, <4>1, <4>2, <4>3 DEF InOrder
      <4>4. CASE died
        BY <3>1, <4>1, <4>2, <4>4 DEF InOrder
      <4> QED BY <4>3, <4>4
    <3> QED BY <1>1, <1>4, <3>1 DEF MissingOnlyAfterAbort
  <2> QED BY <1>1, <1>2, <2>2, <2>3, <2>4 DEF Reported
<1> QED BY <1>3, <1>4 DEF Driver, WriteReport

LEMMA NextInv == Inv /\ [Next]_vars => Inv'
<1> SUFFICES ASSUME Inv, [Next]_vars PROVE Inv'
  OBVIOUS
<1>1. CASE UNCHANGED vars
  BY <1>1 DEF vars, Inv, TypeOK, InFlight, InOrder, LogSoFar, RowsAgree, Reported,
    ReportMatchesWire, MissingOnlyAfterAbort, Calls
<1> QED BY <1>1, BinaryKeeps, ProxyKeeps, DriverKeeps DEF Next

-----------------------------------------------------------------------------
(* The state of a write run keeps its types, whatever the catalog answers  *)
(* and whoever breaks off.                                                 *)
THEOREM WriteTypes == Spec => []TypeOK
<1>1. Inv => TypeOK
  BY DEF Inv
<1> QED BY InitInv, NextInv, <1>1, PTL DEF Spec

(* A report of a write run agrees with the log it is printed beside, with  *)
(* requests lost, answers lost and the binary dying anywhere.              *)
THEOREM ReportIsMeasured == Spec => []ReportMatchesWire
<1>1. Inv => ReportMatchesWire
  BY DEF Inv, Reported, ReportMatchesWire
<1> QED BY InitInv, NextInv, <1>1, PTL DEF Spec

(* A report lacks rows only at its end, and only when the binary broke off *)
(* or the table could not be created.                                      *)
THEOREM MissingExplained == Spec => []MissingOnlyAfterAbort
<1>1. Inv => MissingOnlyAfterAbort
  BY DEF Inv, Reported, MissingOnlyAfterAbort
<1> QED BY InitInv, NextInv, <1>1, PTL DEF Spec

-----------------------------------------------------------------------------
(***************************************************************************)
(* What the run leaves on the catalog.  As long as no request is lost and  *)
(* the binary lives, what exists under the scratch name is a function of   *)
(* the probe under way and of what the catalog refuses: that is the        *)
(* invariant that tells how a probe's answer depends on those before it.   *)
(***************************************************************************)
CleanupServed(cat) ==
  cat.refused \cap {"createTable", "renameTable", "purgeTable", "dropTable",
                    "dropNested", "dropNamespace"} = {}

Clean == ~died /\ Untroubled /\ CleanupServed(catalog)

Has(cat, at, o) == IF at \in cat.refused THEN {} ELSE {o}

(* What exists when probe p begins. *)
Left(p, cat) ==
  CASE p \in {2, 3}       -> Has(cat, "createNamespace", "ns")
    [] p \in 4..8         -> {"ns", "t1"}
    [] p \in {9, 11}      -> {"ns", "t2"}
    [] p = 10             -> {"ns", "t2", "t3"}
    [] p \in {12, 15, 17} -> {"ns"}
    [] p \in {13, 14}     -> {"ns"} \cup Has(cat, "createNested", "child")
    [] p = 16             -> {"ns"} \cup Has(cat, "createTableV1", "t4")
    [] OTHER              -> {}

(* What exists when it has made its last request: without the namespace    *)
(* there is no table either.                                               *)
After(p, cat) ==
  IF p = 3 /\ "createNamespace" \in cat.refused THEN {} ELSE Left(p + 1, cat)

Green(p) == IF Steps[p].calls = << >> THEN "UNSUPPORTED" ELSE "OK"

Answered == stage \in {"answered", "returned"}

Tidy ==
  Clean =>
    /\ phase = "exited" => stage = "idle" /\ objs = {}
    /\ phase \in {"starting", "running"} =>
         /\ objs = IF Answered /\ call = Len(Calls) THEN After(pos, catalog)
                                                    ELSE Left(pos, catalog)
         /\ Answered => answer = Reply(Current, Left(pos, catalog), catalog)

GreenSoFar ==
  Clean /\ catalog.refused = {} =>
    \A p \in Positions : rows[p] \in {"MISSING", Green(p)}

TidyInv == Inv /\ faults <= catalog.faults /\ Tidy /\ GreenSoFar /\ ControlIsGreen

(* What one request is to do, of those a probe makes on what it finds.      *)
Serves(c, p, last, cat) ==
  /\ Applied(c, Left(p, cat), cat) = IF last THEN After(p, cat) ELSE Left(p, cat)
  /\ ~last => After(p, cat) = Left(p, cat)
  /\ p = 3 => (Reply(c, Left(p, cat), cat) = "200" <=>
                 "createNamespace" \notin cat.refused)
  /\ cat.refused = {} =>
       \/ Reply(c, Left(p, cat), cat) = "200"
       \/ c.do = "exists" /\ Reply(c, Left(p, cat), cat) = "404"

(* One request of the suite on what the probes before it have left.        *)
LEMMA OneRequest ==
  ASSUME NEW cat \in CatalogType, CleanupServed(cat), NEW p \in Positions,
         NEW k \in 1..Len(Steps[p].calls)
  PROVE  Serves(Steps[p].calls[k], p, k = Len(Steps[p].calls), cat)
<1>0. p \in 1..18 /\ cat.with \in {"404", "501"}
  BY StepCount DEF CatalogType
<1>1. CASE p = 1
  <2>1. Steps[p].calls = << Call("create", "ns", "createNamespace") >>
    BY <1>1 DEF Steps, Create, Commit, Find, Drop, Rename, DropT4, Probe
  <2>2. Left(p, cat) = {}
    BY <1>1 DEF Left
  <2>3. After(p, cat) = Has(cat, "createNamespace", "ns")
    BY <1>1 DEF After, Left
  <2>4. k = 1 /\ Len(Steps[p].calls) = 1
    BY <2>1
  <2>5. Steps[p].calls[k] = Call("create", "ns", "createNamespace")
    BY <2>1, <2>4
  <2> QED BY <1>0, <1>1, <2>2, <2>3, <2>4, <2>5
      DEF Serves, Call, CleanupServed, Has, Reply, Applied, Found, Free, Target
<1>2. CASE p = 2
  BY <1>2 DEF Steps, Probe, Create
<1>3. CASE p = 3
  <2>1. Steps[p].calls = << Call("create", "t1", "createTable") >>
    BY <1>3 DEF Steps, Create, Commit, Find, Drop, Rename, DropT4, Probe
  <2>2. Left(p, cat) = Has(cat, "createNamespace", "ns")
    BY <1>3 DEF Left
  <2>3. After(p, cat) = (IF "createNamespace" \in cat.refused THEN {} ELSE {"ns", "t1"})
    BY <1>3 DEF After, Left
  <2>4. k = 1 /\ Len(Steps[p].calls) = 1
    BY <2>1
  <2>5. Steps[p].calls[k] = Call("create", "t1", "createTable")
    BY <2>1, <2>4
  <2> QED BY <1>0, <1>3, <2>2, <2>3, <2>4, <2>5
      DEF Serves, Call, CleanupServed, Has, Reply, Applied, Found, Free, Target
<1>4. CASE p = 4
  <2>1. Steps[p].calls = << Call("find", "t1", "loadTable"), Call("find", "t1", "setProperties") >>
    BY <1>4 DEF Steps, Create, Commit, Find, Drop, Rename, DropT4, Probe
  <2>2. Left(p, cat) = {"ns", "t1"}
    BY <1>4 DEF Left
  <2>3. After(p, cat) = {"ns", "t1"}
    BY <1>4 DEF After, Left
  <2>4. k \in {1, 2} /\ Len(Steps[p].calls) = 2
    BY <2>1
  <2>5. Steps[p].calls[k] \in {Call("find", "t1", "loadTable"), Call("find", "t1", "setProperties")}
    BY <2>1, <2>4
  <2> QED BY <1>0, <1>4, <2>2, <2>3, <2>4, <2>5
      DEF Serves, Call, CleanupServed, Has, Reply, Applied, Found, Free, Target
<1>5. CASE p = 5
  <2>1. Steps[p].calls = << Call("find", "t1", "loadTable"), Call("find", "t1", "removeProperties") >>
    BY <1>5 DEF Steps, Create, Commit, Find, Drop, Rename, DropT4, Probe
  <2>2. Left(p, cat) = {"ns", "t1"}
    BY <1>5 DEF Left
  <2>3. After(p, cat) = {"ns", "t1"}
    BY <1>5 DEF After, Left
  <2>4. k \in {1, 2} /\ Len(Steps[p].calls) = 2
    BY <2>1
  <2>5. Steps[p].calls[k] \in {Call("find", "t1", "loadTable"), Call("find", "t1", "removeProperties")}
    BY <2>1, <2>4
  <2> QED BY <1>0, <1>5, <2>2, <2>3, <2>4, <2>5
      DEF Serves, Call, CleanupServed, Has, Reply, Applied, Found, Free, Target
<1>6. CASE p = 6
  <2>1. Steps[p].calls = << Call("find", "t1", "loadTable"), Call("find", "t1", "addSchema") >>
    BY <1>6 DEF Steps, Create, Commit, Find, Drop, Rename, DropT4, Probe
  <2>2. Left(p, cat) = {"ns", "t1"}
    BY <1>6 DEF Left
  <2>3. After(p, cat) = {"ns", "t1"}
    BY <1>6 DEF After, Left
  <2>4. k \in {1, 2} /\ Len(Steps[p].calls) = 2
    BY <2>1
  <2>5. Steps[p].calls[k] \in {Call("find", "t1", "loadTable"), Call("find", "t1", "addSchema")}
    BY <2>1, <2>4
  <2> QED BY <1>0, <1>6, <2>2, <2>3, <2>4, <2>5
      DEF Serves, Call, CleanupServed, Has, Reply, Applied, Found, Free, Target
<1>7. CASE p = 7
  <2>1. Steps[p].calls = << Call("find", "t1", "loadTable"), Call("find", "t1", "upgrade") >>
    BY <1>7 DEF Steps, Create, Commit, Find, Drop, Rename, DropT4, Probe
  <2>2. Left(p, cat) = {"ns", "t1"}
    BY <1>7 DEF Left
  <2>3. After(p, cat) = {"ns", "t1"}
    BY <1>7 DEF After, Left
  <2>4. k \in {1, 2} /\ Len(Steps[p].calls) = 2
    BY <2>1
  <2>5. Steps[p].calls[k] \in {Call("find", "t1", "loadTable"), Call("find", "t1", "upgrade")}
    BY <2>1, <2>4
  <2> QED BY <1>0, <1>7, <2>2, <2>3, <2>4, <2>5
      DEF Serves, Call, CleanupServed, Has, Reply, Applied, Found, Free, Target
<1>8. CASE p = 8
  <2>1. Steps[p].calls = << Call("rename", "t1", "renameTable") >>
    BY <1>8 DEF Steps, Create, Commit, Find, Drop, Rename, DropT4, Probe
  <2>2. Left(p, cat) = {"ns", "t1"}
    BY <1>8 DEF Left
  <2>3. After(p, cat) = {"ns", "t2"}
    BY <1>8 DEF After, Left
  <2>4. k = 1 /\ Len(Steps[p].calls) = 1
    BY <2>1
  <2>5. Steps[p].calls[k] = Call("rename", "t1", "renameTable")
    BY <2>1, <2>4
  <2> QED BY <1>0, <1>8, <2>2, <2>3, <2>4, <2>5
      DEF Serves, Call, CleanupServed, Has, Reply, Applied, Found, Free, Target
<1>9. CASE p = 9
  <2>1. Steps[p].calls = << Call("create", "t3", "createTable") >>
    BY <1>9 DEF Steps, Create, Commit, Find, Drop, Rename, DropT4, Probe
  <2>2. Left(p, cat) = {"ns", "t2"}
    BY <1>9 DEF Left
  <2>3. After(p, cat) = {"ns", "t2", "t3"}
    BY <1>9 DEF After, Left
  <2>4. k = 1 /\ Len(Steps[p].calls) = 1
    BY <2>1
  <2>5. Steps[p].calls[k] = Call("create", "t3", "createTable")
    BY <2>1, <2>4
  <2> QED BY <1>0, <1>9, <2>2, <2>3, <2>4, <2>5
      DEF Serves, Call, CleanupServed, Has, Reply, Applied, Found, Free, Target
<1>10. CASE p = 10
  <2>1. Steps[p].calls = << Call("drop", "t3", "purgeTable") >>
    BY <1>10 DEF Steps, Create, Commit, Find, Drop, Rename, DropT4, Probe
  <2>2. Left(p, cat) = {"ns", "t2", "t3"}
    BY <1>10 DEF Left
  <2>3. After(p, cat) = {"ns", "t2"}
    BY <1>10 DEF After, Left
  <2>4. k = 1 /\ Len(Steps[p].calls) = 1
    BY <2>1
  <2>5. Steps[p].calls[k] = Call("drop", "t3", "purgeTable")
    BY <2>1, <2>4
  <2> QED BY <1>0, <1>10, <2>2, <2>3, <2>4, <2>5
      DEF Serves, Call, CleanupServed, Has, Reply, Applied, Found, Free, Target
<1>11. CASE p = 11
  <2>1. Steps[p].calls = << Call("drop", "t2", "dropTable") >>
    BY <1>11 DEF Steps, Create, Commit, Find, Drop, Rename, DropT4, Probe
  <2>2. Left(p, cat) = {"ns", "t2"}
    BY <1>11 DEF Left
  <2>3. After(p, cat) = {"ns"}
    BY <1>11 DEF After, Left
  <2>4. k = 1 /\ Len(Steps[p].calls) = 1
    BY <2>1
  <2>5. Steps[p].calls[k] = Call("drop", "t2", "dropTable")
    BY <2>1, <2>4
  <2> QED BY <1>0, <1>11, <2>2, <2>3, <2>4, <2>5
      DEF Serves, Call, CleanupServed, Has, Reply, Applied, Found, Free, Target
<1>12. CASE p = 12
  <2>1. Steps[p].calls = << Call("create", "child", "createNested") >>
    BY <1>12 DEF Steps, Create, Commit, Find, Drop, Rename, DropT4, Probe
  <2>2. Left(p, cat) = {"ns"}
    BY <1>12 DEF Left
  <2>3. After(p, cat) = {"ns"} \cup Has(cat, "createNested", "child")
    BY <1>12 DEF After, Left
  <2>4. k = 1 /\ Len(Steps[p].calls) = 1
    BY <2>1
  <2>5. Steps[p].calls[k] = Call("create", "child", "createNested")
    BY <2>1, <2>4
  <2> QED BY <1>0, <1>12, <2>2, <2>3, <2>4, <2>5
      DEF Serves, Call, CleanupServed, Has, Reply, Applied, Found, Free, Target
<1>13. CASE p = 13
  <2>1. Steps[p].calls = << Call("find", "child", "loadNested") >>
    BY <1>13 DEF Steps, Create, Commit, Find, Drop, Rename, DropT4, Probe
  <2>2. Left(p, cat) = {"ns"} \cup Has(cat, "createNested", "child")
    BY <1>13 DEF Left
  <2>3. After(p, cat) = {"ns"} \cup Has(cat, "createNested", "child")
    BY <1>13 DEF After, Left
  <2>4. k = 1 /\ Len(Steps[p].calls) = 1
    BY <2>1
  <2>5. Steps[p].calls[k] = Call("find", "child", "loadNested")
    BY <2>1, <2>4
  <2> QED BY <1>0, <1>13, <2>2, <2>3, <2>4, <2>5
      DEF Serves, Call, CleanupServed, Has, Reply, Applied, Found, Free, Target
<1>14. CASE p = 14
  <2>1. Steps[p].calls = << Call("drop", "child", "dropNested") >>
    BY <1>14 DEF Steps, Create, Commit, Find, Drop, Rename, DropT4, Probe
  <2>2. Left(p, cat) = {"ns"} \cup Has(cat, "createNested", "child")
    BY <1>14 DEF Left
  <2>3. After(p, cat) = {"ns"}
    BY <1>14 DEF After, Left
  <2>4. k = 1 /\ Len(Steps[p].calls) = 1
    BY <2>1
  <2>5. Steps[p].calls[k] = Call("drop", "child", "dropNested")
    BY <2>1, <2>4
  <2> QED BY <1>0, <1>14, <2>2, <2>3, <2>4, <2>5
      DEF Serves, Call, CleanupServed, Has, Reply, Applied, Found, Free, Target
<1>15. CASE p = 15
  <2>1. Steps[p].calls = << Call("create", "t4", "createTableV1") >>
    BY <1>15 DEF Steps, Create, Commit, Find, Drop, Rename, DropT4, Probe
  <2>2. Left(p, cat) = {"ns"}
    BY <1>15 DEF Left
  <2>3. After(p, cat) = {"ns"} \cup Has(cat, "createTableV1", "t4")
    BY <1>15 DEF After, Left
  <2>4. k = 1 /\ Len(Steps[p].calls) = 1
    BY <2>1
  <2>5. Steps[p].calls[k] = Call("create", "t4", "createTableV1")
    BY <2>1, <2>4
  <2> QED BY <1>0, <1>15, <2>2, <2>3, <2>4, <2>5
      DEF Serves, Call, CleanupServed, Has, Reply, Applied, Found, Free, Target
<1>16. CASE p = 16
  <2>1. Steps[p].calls = << Call("drop", "t4", "dropTable") >>
    BY <1>16 DEF Steps, Create, Commit, Find, Drop, Rename, DropT4, Probe
  <2>2. Left(p, cat) = {"ns"} \cup Has(cat, "createTableV1", "t4")
    BY <1>16 DEF Left
  <2>3. After(p, cat) = {"ns"}
    BY <1>16 DEF After, Left
  <2>4. k = 1 /\ Len(Steps[p].calls) = 1
    BY <2>1
  <2>5. Steps[p].calls[k] = Call("drop", "t4", "dropTable")
    BY <2>1, <2>4
  <2> QED BY <1>0, <1>16, <2>2, <2>3, <2>4, <2>5
      DEF Serves, Call, CleanupServed, Has, Reply, Applied, Found, Free, Target
<1>17. CASE p = 17
  <2>1. Steps[p].calls = << Call("drop", "ns", "dropNamespace") >>
    BY <1>17 DEF Steps, Create, Commit, Find, Drop, Rename, DropT4, Probe
  <2>2. Left(p, cat) = {"ns"}
    BY <1>17 DEF Left
  <2>3. After(p, cat) = {}
    BY <1>17 DEF After, Left
  <2>4. k = 1 /\ Len(Steps[p].calls) = 1
    BY <2>1
  <2>5. Steps[p].calls[k] = Call("drop", "ns", "dropNamespace")
    BY <2>1, <2>4
  <2> QED BY <1>0, <1>17, <2>2, <2>3, <2>4, <2>5
      DEF Serves, Call, CleanupServed, Has, Reply, Applied, Found, Free, Target
<1>18. CASE p = 18
  <2>1. Steps[p].calls = << Call("exists", "ns", "namespaceExists") >>
    BY <1>18 DEF Steps, Create, Commit, Find, Drop, Rename, DropT4, Probe
  <2>2. Left(p, cat) = {}
    BY <1>18 DEF Left
  <2>3. After(p, cat) = {}
    BY <1>18 DEF After, Left
  <2>4. k = 1 /\ Len(Steps[p].calls) = 1
    BY <2>1
  <2>5. Steps[p].calls[k] = Call("exists", "ns", "namespaceExists")
    BY <2>1, <2>4
  <2> QED BY <1>0, <1>18, <2>2, <2>3, <2>4, <2>5
      DEF Serves, Call, CleanupServed, Has, Reply, Applied, Found, Free, Target
<1> QED BY <1>0, <1>1, <1>2, <1>3, <1>4, <1>5, <1>6, <1>7, <1>8, <1>9, <1>10, <1>11, <1>12, <1>13, <1>14, <1>15, <1>16, <1>17, <1>18

LEMMA TidyInit == Init => TidyInv
<1> SUFFICES ASSUME Init PROVE TidyInv
  OBVIOUS
<1>1. Inv
  BY InitInv
<1>2. pos = 1 /\ stage = "idle" /\ objs = {} /\ phase = "starting" /\ report = AsItWas
      /\ faults = catalog.faults /\ rows = [p \in Positions |-> "MISSING"]
  BY DEF Init
<1>3. Left(pos, catalog) = {}
  BY <1>2 DEF Left
<1>4. Tidy
  BY <1>2, <1>3 DEF Tidy, Answered
<1>5. GreenSoFar
  BY <1>2 DEF GreenSoFar
<1>6. ControlIsGreen
  BY <1>2 DEF ControlIsGreen, AsItWas
<1>7. faults <= catalog.faults
  BY <1>1, <1>2 DEF Inv, TypeOK
<1> QED BY <1>1, <1>4, <1>5, <1>6, <1>7 DEF TidyInv

(* A run that was troubled stays so. *)
LEMMA CleanBefore ==
  ASSUME TidyInv, [Next]_vars
  PROVE  /\ catalog' = catalog /\ faults' <= catalog.faults
         /\ Clean' => Clean /\ UNCHANGED faults
<1>1. faults \in 0..1 /\ catalog.faults \in 0..1 /\ faults <= catalog.faults
  BY DEF TidyInv, Inv, TypeOK, CatalogType
<1>2. catalog' = catalog
  BY DEF Next, Binary, Proxy, Driver, BinaryStarts, BuildFails, BinaryDies, Ask, Stub,
         NextCall, Record, RecordOk, RecordError, CatalogAnswers, Unreachable,
         AnswerLost, ProxyLogs, TimesOut, WriteReport, vars
<1>3. faults' = faults \/ faults' = faults - 1
  BY DEF Next, Binary, Proxy, Driver, BinaryStarts, BuildFails, BinaryDies, Ask, Stub,
         NextCall, Record, RecordOk, RecordError, CatalogAnswers, Unreachable,
         AnswerLost, ProxyLogs, TimesOut, WriteReport, vars
<1>4. died => died'
  BY DEF Next, Binary, Proxy, Driver, BinaryStarts, BuildFails, BinaryDies, Ask, Stub,
         NextCall, Record, RecordOk, RecordError, CatalogAnswers, Unreachable,
         AnswerLost, ProxyLogs, TimesOut, WriteReport, vars
<1>5. faults' <= catalog.faults /\ (faults' = catalog.faults => faults' = faults)
  BY <1>1, <1>3
<1> QED BY <1>2, <1>4, <1>5 DEF Clean, Untroubled

(* A request that came back came from what the probes before it had left,  *)
(* and has made of it what its probe should.                               *)
LEMMA CameBack ==
  ASSUME TidyInv, Clean, phase \in {"starting", "running"}, Answered
  PROVE  /\ call \in 1..Len(Calls) /\ pos \in 1..18
         /\ objs = After(pos, catalog)
         /\ call < Len(Calls) => objs = Left(pos, catalog)
         /\ pos = 3 => (answer = "200" <=> "createNamespace" \notin catalog.refused)
         /\ catalog.refused = {} => Ok(Current)
<1>1. stage # "idle" /\ catalog \in CatalogType /\ pos \in Positions /\ Positions = 1..18
  BY StepCount DEF Answered, TidyInv, Inv, TypeOK
<1>2. call \in 1..Len(Calls)
  BY <1>1, OkIsWanted DEF TidyInv
<1>3. Serves(Current, pos, call = Len(Calls), catalog)
  BY <1>1, <1>2, OneRequest DEF Clean, Current, Calls
<1>4. answer = Reply(Current, Left(pos, catalog), catalog)
  BY DEF TidyInv, Tidy
<1>5. objs = IF call = Len(Calls) THEN After(pos, catalog) ELSE Left(pos, catalog)
  BY DEF TidyInv, Tidy
<1>6. call # Len(Calls) => After(pos, catalog) = Left(pos, catalog)
  BY <1>3 DEF Serves
<1>7. pos = 3 => (answer = "200" <=> "createNamespace" \notin catalog.refused)
  BY <1>3, <1>4 DEF Serves
<1>8. catalog.refused = {} => Ok(Current)
  BY <1>3, <1>4 DEF Serves, Ok
<1>9. pos \in 1..18 /\ Len(Calls) \in 0..2
  BY <1>1, StepFacts DEF Calls
<1>10. call < Len(Calls) => objs = Left(pos, catalog)
  BY <1>2, <1>5, <1>9
<1> QED BY <1>2, <1>5, <1>6, <1>7, <1>8, <1>9, <1>10

(* A row is written: the binary goes on with what the probe has left, or   *)
(* ends with nothing left.                                                 *)
LEMMA RowKeepsTidy ==
  ASSUME TidyInv, Stub \/ Record
  PROVE  Tidy' /\ GreenSoFar'
<1>1. phase = "running" /\ rows[pos] = "MISSING" /\ pos \in Positions /\ Positions = 1..18
      /\ Len(Steps) = 18 /\ rows \in Rows
  BY StepCount DEF TidyInv, Inv, TypeOK, InFlight, Stub, Record, RecordOk, RecordError
<1>2. SUFFICES ASSUME Clean'
               PROVE  /\ phase' = "exited" => stage' = "idle" /\ objs' = {}
                      /\ phase' = "running" => objs' = Left(pos', catalog')
                      /\ phase' \in {"running", "exited"}
                      /\ ~Answered'
                      /\ catalog'.refused = {} =>
                           \A p \in Positions : rows'[p] \in {"MISSING", Green(p)}
  BY DEF Tidy, GreenSoFar, Clean
<1>3. Clean /\ catalog' = catalog /\ objs' = objs
  BY <1>2, CleanBefore DEF Next, Binary, Stub, Record, RecordOk, RecordError
<1>4. catalog.refused = {} => \A p \in Positions : rows[p] \in {"MISSING", Green(p)}
  BY <1>3 DEF TidyInv, GreenSoFar
<1>5. CASE Stub
  <2>1. Len(Calls) = 0 /\ stage = "idle" /\ pos = 2 /\ call = 1
    <3>1. Len(Calls) = 0
      BY <1>1, <1>5, StepFacts DEF Stub, Calls
    <3>2. pos = 2
      BY <1>1, <1>5 DEF Stub, Calls, Steps, Call, Probe, Create, Commit, Find, Drop, Rename, DropT4
    <3>3. call \in 1..2 /\ stage = "idle" /\ call = 1
      BY <3>1 DEF TidyInv, Inv, InFlight, TypeOK
    <3> QED BY <3>1, <3>2, <3>3
  <2>2. phase' = "running" /\ pos' = 3 /\ stage' = "idle" /\ rows' = [rows EXCEPT ![pos] = "UNSUPPORTED"]
    BY <1>1, <1>5, <2>1 DEF Stub, Advance
  <2>3. objs = Left(2, catalog)
    BY <1>1, <1>3, <2>1 DEF TidyInv, Tidy, Answered
  <2>4. Left(3, catalog) = Left(2, catalog)
    BY DEF Left
  <2>5. Green(pos) = "UNSUPPORTED"
    BY <1>5 DEF Green, Stub, Calls
  <2> QED BY <1>1, <1>3, <1>4, <2>2, <2>3, <2>4, <2>5 DEF Answered, Rows
<1>6. CASE Record
  <2>1. stage = "returned" /\ stage' = "idle" /\ Calls # << >>
    <3>1. stage = "returned" /\ stage' = "idle"
      BY <1>6 DEF Record, RecordOk, RecordError
    <3>2. call \in 1..Len(Calls)
      BY <3>1, OkIsWanted DEF TidyInv
    <3> QED BY <3>1, <3>2
  <2>2. /\ pos \in 1..18 /\ call \in 1..Len(Calls) /\ objs = After(pos, catalog)
        /\ pos = 3 => (answer = "200" <=> "createNamespace" \notin catalog.refused)
        /\ catalog.refused = {} => Ok(Current)
    BY <1>1, <1>3, <2>1, CameBack DEF Answered
  <2>3. Aborts(pos) <=> pos = 3
    BY <1>1, StepFacts
  <2>4. CASE RecordOk
    <3>1. Advance /\ rows' = [rows EXCEPT ![pos] = "OK"]
      BY <2>4 DEF RecordOk
    <3>2. pos = 3 => "createNamespace" \notin catalog.refused
      <4>1. pos = 3 => Current.do # "exists"
        BY <1>1, <2>2, <2>3, StepFacts DEF Current, Calls, Aborts
      <4> QED BY <2>2, <2>4, <4>1 DEF RecordOk, Ok
    <3>3. objs = Left(pos + 1, catalog)
      BY <2>2, <3>2 DEF After
    <3>4. Left(19, catalog) = {}
      BY DEF Left
    <3>5. Green(pos) = "OK"
      BY <2>1 DEF Green, Calls
    <3>6. \/ phase' = "exited" /\ pos = 18
          \/ phase' = "running" /\ pos' = pos + 1
      BY <1>1, <3>1 DEF Advance
    <3> QED BY <1>1, <1>3, <1>4, <2>1, <3>1, <3>3, <3>4, <3>5, <3>6 DEF Answered, Rows
  <2>5. CASE RecordError
    <3>1. ~Ok(Current) /\ catalog.refused # {}
      BY <2>2, <2>5 DEF RecordError
    <3>2. IF pos = 3 THEN phase' = "exited" ELSE Advance
      BY <2>3, <2>5 DEF RecordError
    <3>3. pos = 3 => objs = {}
      BY <2>2, <3>1 DEF Ok, After
    <3>4. pos # 3 => objs = Left(pos + 1, catalog)
      BY <2>2 DEF After
    <3>5. Left(19, catalog) = {}
      BY DEF Left
    <3>6. \/ phase' = "exited" /\ pos \in {3, 18}
          \/ phase' = "running" /\ pos' = pos + 1 /\ pos # 3
      BY <1>1, <3>2 DEF Advance
    <3> QED BY <1>3, <2>1, <3>1, <3>3, <3>4, <3>5, <3>6 DEF Answered
  <2> QED BY <1>6, <2>4, <2>5 DEF Record
<1> QED BY <1>5, <1>6

LEMMA StepKeepsTidy ==
  ASSUME TidyInv, Next, ~Stub, ~Record
  PROVE  Tidy' /\ GreenSoFar'
<1>1. GreenSoFar'
  BY CleanBefore DEF TidyInv, GreenSoFar, Next, Binary, Proxy, Driver, BinaryStarts, BuildFails,
         BinaryDies, Ask, NextCall, CatalogAnswers, Unreachable, AnswerLost, ProxyLogs, TimesOut, WriteReport
<1>2. SUFFICES ASSUME Clean' PROVE Tidy'
  BY <1>1 DEF Tidy
<1>3. Clean /\ catalog' = catalog /\ faults' = faults
  BY <1>2, CleanBefore
<1>4. Tidy
  BY DEF TidyInv
<1>5. CASE BinaryStarts
  BY <1>3, <1>4, <1>5 DEF Tidy, Answered, Calls, Current, BinaryStarts
<1>6. CASE BuildFails \/ BinaryDies
  BY <1>2, <1>6 DEF Clean, BuildFails, BinaryDies
<1>7. CASE Ask
  BY <1>3, <1>4, <1>7 DEF Tidy, Answered, Calls, Current, Ask
<1>8. CASE NextCall
  <2>1. phase = "running" /\ stage = "returned" /\ call < Len(Calls) /\ stage' = "idle"
        /\ UNCHANGED <<phase, objs, pos, catalog>>
    BY <1>8 DEF NextCall
  <2>2. objs = Left(pos, catalog)
    BY <1>3, <2>1, CameBack DEF Answered
  <2> QED BY <2>1, <2>2 DEF Tidy, Answered
<1>9. CASE CatalogAnswers
  <2>1. stage = "asked" /\ stage' = "answered" /\ UNCHANGED <<phase, pos, call, catalog>>
        /\ answer' = Reply(Current, objs, catalog)
        /\ objs' = Applied(Current, objs, catalog)
    BY <1>9 DEF CatalogAnswers
  <2>2. CASE phase \in {"starting", "running"}
    <3>1. objs = Left(pos, catalog)
      BY <1>3, <1>4, <2>1, <2>2 DEF Tidy, Answered
    <3>2. call \in 1..Len(Calls) /\ pos \in Positions /\ catalog \in CatalogType
      BY <2>1, OkIsWanted DEF TidyInv, Inv, TypeOK
    <3>3. Serves(Current, pos, call = Len(Calls), catalog)
      BY <1>3, <3>2, OneRequest DEF Clean, Current, Calls
    <3>4. objs' = IF call = Len(Calls) THEN After(pos, catalog) ELSE Left(pos, catalog)
      BY <2>1, <3>1, <3>3 DEF Serves
    <3>5. Calls' = Calls /\ Current' = Current
      BY <2>1 DEF Calls, Current
    <3> QED BY <2>1, <2>2, <3>1, <3>4, <3>5 DEF Tidy, Answered
  <2>3. CASE phase \notin {"starting", "running"}
    BY <1>3, <1>4, <2>1, <2>3 DEF Tidy
  <2> QED BY <2>2, <2>3
<1>10. CASE Unreachable \/ AnswerLost
  <2>1. faults' = faults - 1 /\ faults \in 0..1
    BY <1>10 DEF Unreachable, AnswerLost, TidyInv, Inv, TypeOK
  <2> QED BY <1>3, <2>1
<1>11. CASE ProxyLogs
  BY <1>3, <1>4, <1>11 DEF Tidy, Answered, Calls, Current, ProxyLogs
<1>12. CASE Driver
  BY <1>12 DEF Driver, TimesOut, WriteReport, Tidy
<1> QED BY <1>5, <1>6, <1>7, <1>8, <1>9, <1>10, <1>11, <1>12 DEF Next, Binary, Proxy

(* The report that is written holds a row of every probe, or the run was   *)
(* cut.                                                                    *)
LEMMA ReportKeepsGreen ==
  ASSUME TidyInv, Next
  PROVE  ControlIsGreen'
<1>1. SUFFICES ASSUME report'.new, Clean', catalog'.refused = {}
               PROVE  \A p \in Positions : report'.rows[p] = Green(p)
  BY DEF ControlIsGreen, Green, Clean, CleanupServed
<1>2. Clean /\ catalog' = catalog
  BY <1>1, CleanBefore
<1>3. CASE report' = report
  BY <1>1, <1>2, <1>3 DEF TidyInv, ControlIsGreen, Green, Clean
<1>4. CASE WriteReport /\ report' = [new |-> TRUE, rows |-> rows, wire |-> wire]
  <2>1. phase = "exited" /\ ~died
    BY <1>2, <1>4 DEF WriteReport, Clean
  <2>2. \A p \in Positions : rows[p] \in {"MISSING", Green(p)}
    BY <1>1, <1>2 DEF TidyInv, GreenSoFar
  <2>3. Green(3) # "FAILED" /\ 3 \in Positions /\ Positions = 1..18 /\ pos \in Positions /\ Len(Steps) = 18
    BY StepCount DEF Green, TidyInv, Inv, TypeOK
  <2>4. pos = 18 /\ rows[18] # "MISSING" /\ \A p \in Positions : p < 18 => rows[p] # "MISSING"
    BY <2>1, <2>2, <2>3 DEF TidyInv, Inv, InOrder
  <2> QED BY <1>4, <2>2, <2>3, <2>4
<1>5. report' = report \/ (WriteReport /\ report' = [new |-> TRUE, rows |-> rows, wire |-> wire])
  BY DEF Next, Binary, Proxy, Driver, BinaryStarts, BuildFails, BinaryDies, Ask, Stub,
         NextCall, Record, RecordOk, RecordError, CatalogAnswers, Unreachable,
         AnswerLost, ProxyLogs, TimesOut, WriteReport
<1> QED BY <1>3, <1>4, <1>5

LEMMA TidyStep == TidyInv /\ [Next]_vars => TidyInv'
<1> SUFFICES ASSUME TidyInv, [Next]_vars PROVE TidyInv'
  OBVIOUS
<1>1. Inv'
  BY NextInv DEF TidyInv
<1>2. (faults <= catalog.faults)'
  BY CleanBefore
<1>3. CASE Next
  BY <1>1, <1>2, <1>3, RowKeepsTidy, StepKeepsTidy, ReportKeepsGreen DEF TidyInv
<1>4. CASE UNCHANGED vars
  BY <1>1, <1>2, <1>4 DEF vars, TidyInv, Tidy, GreenSoFar, ControlIsGreen, Clean, Untroubled,
     Answered, Calls, Current
<1> QED BY <1>3, <1>4

(* On a catalog that serves everything, with no request lost and the       *)
(* binary alive to its end, every row of the report is green: no probe     *)
(* trips over what another left.                                           *)
THEOREM ControlRun == Spec => []ControlIsGreen
<1>1. TidyInv => ControlIsGreen
  BY DEF TidyInv
<1> QED BY TidyInit, TidyStep, <1>1, PTL DEF Spec

(* A run that ended by itself leaves nothing on the catalog, whatever it   *)
(* refuses besides creating the table, renaming it and dropping things.    *)
THEOREM NothingStays == Spec => []NothingLeft
<1>1. TidyInv => NothingLeft
  BY DEF TidyInv, Tidy, NothingLeft, Clean, CleanupServed
<1> QED BY TidyInit, TidyStep, <1>1, PTL DEF Spec
=============================================================================
