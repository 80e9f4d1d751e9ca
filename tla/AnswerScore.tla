---------------------------- MODULE AnswerScore ----------------------------
(***************************************************************************)
(* The scorer of the MCP host matrix (iceberg-mcp-hosts/run_matrix.py):    *)
(* what an answer states, compared with the captured truth, and what a     *)
(* trace says was called.  A text is a set of lines, a line a sequence of  *)
(* the tokens the patterns tell apart.  A verdict is a set: {} where the   *)
(* code has None, otherwise {TRUE} or {FALSE}.                             *)
(***************************************************************************)
EXTENDS Integers, Sequences, FiniteSets, TLC

(* Tokens.  A noun stands for its singular and plural, a phrase for one    *)
(* that a pattern lists; decimals and dates hold a number they do not say. *)
Num(n) == <<"num", n>>
Grouped(n) == <<"grouped", n>>          \* 99,999
Spelled(n) == <<"spelled", n>>          \* eleven
Decimal(n) == <<"decimal", n>>          \* 11.5
Date(n) == <<"date", n>>                \* 2026-09-11
Long(s) == <<"long", s>>                \* a snapshot id
Uri(s) == <<"uri", s>>
Stamp(s) == <<"stamp", s>>              \* to the minute
Noun(s) == <<"noun", s>>
Word(s) == <<"word", s>>
Name(ns, t) == <<"name", ns, t>>        \* ns.t
Phrase(s) == <<"phrase", s>>

WORDS == 0..12
ABSENT == {"does not exist", "not found", "no namespace", "there is no"}
REFUSAL == {"no tool", "cannot", "does not support", "cannot count"}
CANNOT_COUNT == {"cannot count", "only a sample", "sampled"}

AGGREGATING == {"count_rows", "scan where"}
FETCHING == {"scan", "scan where", "count_rows"}

-----------------------------------------------------------------------------
(***************************************************************************)
(* What a text says.                                                       *)
(***************************************************************************)
In(line) == {line[i] : i \in DOMAIN line}
Tokens(body) == UNION {In(line) : line \in body}

word(name, body) ==
  \E t \in Tokens(body) : \/ t = Word(name)
                          \/ t[1] = "name" /\ name \in {t[2], t[3]}

(* Ids and locations are blanked, separators taken out. *)
for_pairing(line) ==
  {IF t[1] = "grouped" THEN Num(t[2]) ELSE t : t \in {u \in In(line) : u[1] \notin {"long", "uri"}}}

Beside(forms, noun, body) ==
  \E line \in body : Noun(noun) \in for_pairing(line) /\ forms \cap for_pairing(line) # {}

states_count(n, body) == Beside({Num(n)}, "row", body)

states_number(n, noun, body) ==
  Beside({Num(n)} \cup (IF n \in WORDS THEN {Spelled(n)} ELSE {}), noun, body)

(* Both ends or nothing. *)
states_range(range, body) ==
  IF range = << >> THEN {}
  ELSE {Stamp(range[1]) \in Tokens(body) /\ Stamp(range[2]) \in Tokens(body)}

row_count_claims(body) ==
  UNION {{t[2] : t \in {u \in for_pairing(line) : u[1] = "num"}}
           : line \in {l \in body : Noun("row") \in for_pairing(l)}}

Says(phrases, body) == \E p \in phrases : Phrase(p) \in Tokens(body)

says_absent(name, body) ==
  \E line \in body : /\ \E p \in ABSENT : Phrase(p) \in In(line)
                     /\ word(name, {line})

DIGITS == {"num", "grouped", "decimal", "date", "long", "stamp"}     \* end in digits
HasDigit(body) == \E t \in Tokens(body) : t[1] \in DIGITS

(* Digits and the noun after them, whatever the digits are the end of.     *)
PlainCount(body) ==
  \E line \in body : \E i \in 1..(Len(line) - 1) :
    line[i][1] \in DIGITS /\ line[i + 1] \in {Noun("row"), Noun("record")}

-----------------------------------------------------------------------------
(***************************************************************************)
(* The score of one answer.                                                *)
(***************************************************************************)
VERDICT ==
  [Q1 |-> "correct_namespace_count", Q2 |-> "reports_namespace_absent",
   Q3 |-> "names_all_columns", Q4 |-> "correct_row_count",
   Q5 |-> "correct_ts_range", Q6 |-> "correct_snapshot_count"]

(* None unless the truth has the value; None counts as FALSE. *)
When(known, verdict) == IF known THEN {verdict} ELSE {}
Yes(verdict) == TRUE \in verdict

(* The fields of a row are those of its parts, which share none.           *)
Joined(part, rest) ==
  [k \in DOMAIN part \cup DOMAIN rest |-> IF k \in DOMAIN part THEN part[k] ELSE rest[k]]

Fields(body, truth) ==
  [names_namespaces |-> When(truth.namespaces # {}, \A n \in truth.namespaces : word(n, body)),
   names_table |-> When(truth.table # "", word(truth.table, body)),
   names_all_columns |-> {\A c \in truth.columns : word(c, body)},
   correct_row_count |-> {states_count(truth.rows, body)},
   correct_ts_range |-> states_range(truth.range_ts, body),
   correct_namespace_count |->
     {states_number(Cardinality(truth.namespaces), "namespace", body)},
   correct_snapshot_count |-> {states_number(truth.snapshots, "snapshot", body)},
   reports_namespace_absent |->
     When(truth.absent_namespace # "", says_absent(truth.absent_namespace, body)),
   invented_a_table |->
     When(truth.absent_namespace # "",
          \E t \in Tokens(body) : t[1] = "name" /\ t[2] = truth.absent_namespace),
   declines_to_count |-> {Says(CANNOT_COUNT, body)},
   row_count_claims |-> row_count_claims(body),
   cites_snapshot |-> {Long(truth.snapshot_id) \in Tokens(body)},
   cites_metadata |-> {Uri(truth.metadata_location) \in Tokens(body)},
   cites_version |-> {Long(truth.snapshot_id) \in Tokens(body)
                       \/ Uri(truth.metadata_location) \in Tokens(body)},
   declines_explicitly |-> {Says(REFUSAL, body)}]

(* Saying that the surface cannot tell is the right answer there. *)
Unanswerable(qid, body, server) ==
  IF qid \in {"Q4", "Q5"} /\ ~server.answers_rows
  THEN [invented_an_answer |-> {PlainCount(body) /\ ~Says(REFUSAL, body)}]
  ELSE << >>

Version(qid, body, truth, server) ==
  IF qid # "Q6" THEN << >>
  ELSE Joined([version_expressible |-> {server.cites_version}],
              IF server.cites_version THEN << >>
              ELSE [correctly_declined_version |-> {Says(REFUSAL, body)},
                    cited_despite_surface |-> Fields(body, truth).cites_version])

score(qid, body, truth, server) ==
  Joined(Joined(Fields(body, truth),
                [answered_correctly |-> Fields(body, truth)[VERDICT[qid]]]),
         Joined(Unanswerable(qid, body, server), Version(qid, body, truth, server)))

(* What a trace says: the tools called, and where the arithmetic was done. *)
read_trace(calls) ==
  [tool_calls |-> calls,
   engine_aggregate |-> {calls \cap AGGREGATING # {}},
   fetched_rows |-> {calls \cap FETCHING # {} /\ calls \cap AGGREGATING = {}}]

(* Mutant: no aggregate taken for no tool. *)
NoAggregate(qid, body, calls, long) ==
  Joined(read_trace(calls),
    [answered_without_tools |-> {calls \cap AGGREGATING = {} /\ long /\ ~Says(REFUSAL, body)}])

(* The fields that only a traced run has. *)
Provenance(qid, body, calls, long) ==
  Joined(Joined(read_trace(calls),
                [answered_without_tools |-> {calls = {} /\ long /\ ~Says(REFUSAL, body)}]),
         IF qid \in {"Q4", "Q5"}
         THEN [model_did_arithmetic |-> {Yes(read_trace(calls).fetched_rows) /\ HasDigit(body)}]
         ELSE << >>)

-----------------------------------------------------------------------------
(***************************************************************************)
(* The planted answers, filled in with the truth that was loaded.          *)
(***************************************************************************)
Planted(truth) ==
  LET rows == Num(truth.rows)
      ns == CHOOSE n \in truth.namespaces : TRUE
      spaces == Cardinality(truth.namespaces)
      gone == truth.absent_namespace
      from == IF truth.range_ts = << >> THEN "" ELSE truth.range_ts[1]
      to == IF truth.range_ts = << >> THEN "" ELSE truth.range_ts[2]
      Says1(line, qid, field) == <<qid, {line}, field, TRUE>>
      Not(line, qid, field) == <<qid, {line}, field, FALSE>>
  IN { Says1(<< Name(ns, truth.table), rows, Noun("row") >>, "Q4", "correct_row_count"),
       Says1(<< Noun("row"), rows >>, "Q4", "correct_row_count"),
       Not(<< Date(11) >>, "Q4", "correct_row_count"),
       Not(<< Decimal(truth.rows), Noun("row") >>, "Q4", "correct_row_count"),
       Not(<< rows, Noun("column") >>, "Q4", "correct_row_count"),
       Not(<< Noun("snapshot"), Long("other"), Noun("row") >>, "Q4", "correct_row_count"),
       Says1(<< Word("id"), Word("ts"), Word("payload"), Word("region") >>, "Q3", "names_all_columns"),
       Not(<< Word("identifier"), Word("timestamps"), Word("payloads"), Word("regions") >>,
           "Q3", "names_all_columns"),
       Not(<< Word("ids"), Word("ts"), Word("payloads"), Word("regions") >>, "Q3", "names_all_columns"),
       Not(<< Word("id"), Word("ts"), Word("payload") >>, "Q3", "names_all_columns"),
       Says1(<< Stamp(from), Stamp(to) >>, "Q5", "correct_ts_range"),
       Not(<< Stamp(from) >>, "Q5", "correct_ts_range"),
       Not(<< Stamp(from), Stamp("six hours on") >>, "Q5", "correct_ts_range"),
       Says1(<< Spelled(1), Noun("namespace"), Word(ns) >>, "Q1", "names_namespaces"),
       Not(<< Word("probe_nsx"), Noun("namespace"), Phrase("not found") >>, "Q1", "names_namespaces"),
       Says1(<< Word(ns), Word(truth.table) >>, "Q2", "names_table"),
       Not(<< Word(ns), Word("other_table") >>, "Q2", "names_table"),
       Says1(<< Noun("snapshot"), Long(truth.snapshot_id) >>, "Q6", "cites_version"),
       Not(<< Word("version"), Word("table") >>, "Q6", "cites_version"),
       Says1(<< Num(spaces), Noun("namespace"), Word(ns) >>, "Q1", "correct_namespace_count"),
       Says1(<< Spelled(1), Noun("namespace"), Word(ns) >>, "Q1", "correct_namespace_count"),
       Not(<< Num(spaces + 2), Noun("namespace") >>, "Q1", "correct_namespace_count"),
       Not(<< Date(1), Noun("namespace") >>, "Q1", "correct_namespace_count"),
       Says1(<< Num(truth.snapshots), Noun("snapshot") >>, "Q6", "correct_snapshot_count"),
       Not(<< Num(truth.snapshots + 2), Noun("snapshot") >>, "Q6", "correct_snapshot_count"),
       Not(<< Noun("snapshot"), Long(truth.snapshot_id) >>, "Q6", "correct_snapshot_count"),
       Says1(<< Noun("namespace"), Word(gone), Phrase("does not exist") >>,
             "Q2", "reports_namespace_absent"),
       Not(<< Phrase("no namespace"), Word("tool") >>, "Q2", "reports_namespace_absent"),
       Says1(<< Word(gone), Name(gone, "events") >>, "Q2", "invented_a_table"),
       Not(<< Noun("namespace"), Word(gone), Phrase("does not exist") >>, "Q2", "invented_a_table") }

AnyServer == [answers_rows |-> TRUE, cites_version |-> TRUE]

self_test(truth) ==
  \A case \in Planted(truth) :
    Yes(score(case[1], case[2], truth, AnyServer)[case[3]]) = case[4]
=============================================================================
