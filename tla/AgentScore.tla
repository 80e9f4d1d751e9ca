----------------------------- MODULE AgentScore -----------------------------
(***************************************************************************)
(* The scorers of the agent matrix (iceberg-agent/run_matrix.py): what the *)
(* text after the stamped header states, against the captured truth.  A    *)
(* text is a sequence of the statements the patterns tell apart.           *)
(***************************************************************************)
EXTENDS Integers, Sequences, FiniteSets

Rows(n) == <<"rows", n>>              \* a number beside "rows", on one line
Column(c) == <<"column", c>>          \* a column name as a whole word
Version(id) == <<"version", id>>      \* a snapshot id or a metadata location
Claim(about, n) == <<"claim", about, n>>    \* in the words that state a value
Beside(about, n) == <<"beside", about, n>>  \* only near the words for it
Echo(n) == <<"echo", n>>              \* the scan's own MIN and MAX, quoted

(* header: {} if the run died before its header, else {its catalog_calls}; *)
(* around: the question, the thinking, the tool log.                       *)
Body(header, around, answer) == [header |-> header, around |-> around, answer |-> answer]
Died == Body({}, << >>, << >>)

answer_of(body) == IF body.header = {} THEN << >> ELSE body.answer

Says(body, statement) == \E i \in DOMAIN answer_of(body) : answer_of(body)[i] = statement

score(body, truth) ==
  [correct_row_count |-> Says(body, Rows(truth.rows)),
   cites_snapshot |-> Says(body, Version(truth.snapshot_id)),
   cites_metadata |-> Says(body, Version(truth.metadata_location)),
   names_all_columns |-> \A c \in truth.columns : Says(body, Column(c)),
   invented_column |-> Says(body, Column("region")) /\ "region" \notin truth.columns,
   catalog_calls |-> body.header]

(* What an answer says last of a value is what it says. *)
last_stated(about, body) ==
  LET stated == {i \in DOMAIN answer_of(body) :
                   answer_of(body)[i][1] = "claim" /\ answer_of(body)[i][2] = about}
  IN {answer_of(body)[i][3] : i \in {j \in stated : \A k \in stated : k <= j}}

Correct(about, n, body) ==
  /\ Says(body, Claim(about, n)) \/ Says(body, Beside(about, n))
  /\ last_stated(about, body) \subseteq {n}

score_scan(body, truth) ==
  [correct_max_id |-> Correct("max", truth.max_id, body),
   correct_count |-> Correct("count", truth.ids_at_least_10, body),
   cites_snapshot |-> Says(body, Version(truth.snapshot_id)),
   catalog_calls |-> body.header]

-----------------------------------------------------------------------------
(***************************************************************************)
(* The planted answers of publish_evidence.self_test.                      *)
(***************************************************************************)
METADATA_CHECKS == {"correct_row_count", "cites_snapshot", "cites_metadata", "names_all_columns"}
SCAN_CHECKS == {"correct_max_id", "correct_count"}

wrap(answer) == Body({3}, << >>, answer)
Good(truth) ==
  << Rows(truth.rows), Column("id"), Column("ts"), Column("payload"), Column("region"),
     Version(truth.snapshot_id), Version(truth.metadata_location) >>

Passing(truth) ==
  LET mx == truth.max_id
      n == truth.ids_at_least_10
  IN { << Claim("max", mx), Claim("count", n), Version(truth.snapshot_id) >>,
       << Claim("count", truth.rows), Claim("count", n), Claim("max", mx) >>,
       << Claim("max", mx), Beside("max", n), Claim("count", n) >>,
       << Claim("max", mx), Claim("count", n), Echo(10), Echo(mx) >>,
       << Beside("max", mx), Claim("count", n), Version(truth.snapshot_id), Echo(0) >> }

Failing(truth) ==
  LET mx == truth.max_id
      n == truth.ids_at_least_10
  IN { << Claim("max", n), Claim("count", mx) >>,
       << Claim("max", mx), Claim("count", n), Claim("max", mx - 2), Claim("count", n + 3) >> }

self_test(truth) ==
  /\ \A k \in METADATA_CHECKS : score(wrap(Good(truth)), truth)[k]
  /\ \A k \in METADATA_CHECKS \cup {"invented_column"} :
       ~score(Body({3}, Good(truth), << >>), truth)[k]
  /\ LET vacuous == wrap(<< Column("payload"), Column("region") >>)
     IN ~score(vacuous, truth).correct_row_count /\ ~score(vacuous, truth).names_all_columns
  /\ \A k \in SCAN_CHECKS :
       /\ \A answer \in Passing(truth) : score_scan(wrap(answer), truth)[k]
       /\ \A answer \in Failing(truth) : ~score_scan(wrap(answer), truth)[k]
=============================================================================
