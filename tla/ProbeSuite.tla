----------------------------- MODULE ProbeSuite -----------------------------
(***************************************************************************)
(* The probe suite of iceberg-conformance/probe/spec.py: the 33 requests   *)
(* in the order the runner sends them, the endpoint each one exercises,    *)
(* the probe its result depends on, and the pure functions that turn a     *)
(* reply into a verdict and a verdict into a judgement of what the catalog *)
(* declared.  No state: CatalogRun steps through Suite.                    *)
(***************************************************************************)
EXTENDS Integers, Sequences

(***************************************************************************)
(* PROBES (14 reads, GET /v1/config first) followed by WRITE_PROBES.       *)
(***************************************************************************)
Suite ==
  << "config",
     "list_namespaces", "list_namespaces_paged", "list_namespaces_parent",
     "load_namespace", "head_namespace", "list_tables",
     "load_table", "load_table_snapshots_all", "head_table",
     "load_credentials", "list_views", "plan_table_scan", "report_metrics",
     "create_namespace", "update_namespace_props",
     "create_table", "commit_table", "commit_remove_properties",
     "commit_add_schema", "commit_set_current_schema",
     "commit_upgrade_format_version", "commit_transaction",
     "rename_table", "drop_table_purge", "drop_table",
     "create_view", "load_view", "head_view", "replace_view",
     "rename_view", "drop_view",
     "drop_namespace" >>

SuiteLen == 33
ReadLen  == 14

Probes      == {Suite[i] : i \in 1..SuiteLen}
WriteProbes == {Suite[i] : i \in (ReadLen + 1)..SuiteLen}

UpdateActions ==
  { "commit_remove_properties", "commit_add_schema",
    "commit_set_current_schema", "commit_upgrade_format_version" }

(* Probes with a variant_of: they share another probe's endpoint. *)
Variants ==
  { "list_namespaces_paged", "list_namespaces_parent",
    "load_table_snapshots_all", "drop_table_purge" } \cup UpdateActions

(* The endpoint signature, named by the one probe that is not a variant.   *)
(* Query parameters and scratch placeholders are not part of it.           *)
Signature(p) ==
  CASE p \in {"list_namespaces_paged", "list_namespaces_parent"}
                                        -> "list_namespaces"
    [] p = "load_table_snapshots_all"   -> "load_table"
    [] p = "drop_table_purge"           -> "drop_table"
    [] p \in UpdateActions              -> "commit_table"
    [] OTHER                            -> p

Endpoints == Probes \ Variants

(* HEAD requests: whatever the catalog answers, its reply carries no body. *)
HeadProbes == {"head_namespace", "head_table", "head_view"}

NoProbe == "none"

(* The probe that must have succeeded for p's result to mean anything.     *)
DependsOn(p) ==
  CASE p \in {"update_namespace_props", "create_table", "create_view",
              "drop_namespace"}
                    -> "create_namespace"
    [] p \in {"commit_table", "commit_transaction", "rename_table",
              "drop_table_purge", "drop_table"} \cup UpdateActions
                    -> "create_table"
    [] p \in {"load_view", "head_view", "replace_view", "rename_view",
              "drop_view"}
                    -> "create_view"
    [] OTHER        -> NoProbe

-----------------------------------------------------------------------------
(***************************************************************************)
(* Replies.  Of an HTTP answer the harness tells apart its status, whether *)
(* its body says the route does not exist ("noroute": _ROUTE_MISSING       *)
(* matches) and whether it is an error payload inside a success            *)
(* ("smuggled": _ERROR_IN_BODY matches).  "unknownop" is both: Glue's      *)
(* UnknownOperationException.  NoReply is the exception path: nothing came *)
(* back.                                                                   *)
(***************************************************************************)
Bodies  == {"plain", "noroute", "smuggled", "unknownop", "none"}
Replies == [status : Nat, body : Bodies]

None    == 0
NoReply == [status |-> None, body |-> "none"]

OK            == "OK"
FALSE_OK      == "200_WITH_ERROR"
SKIPPED       == "SKIPPED"
INDETERMINATE == "INDETERMINATE"
TRANSPORT_ERROR == "TRANSPORT_ERROR"

Failures ==
  { FALSE_OK, TRANSPORT_ERROR, INDETERMINATE, "NOT_IMPLEMENTED", "NOT_FOUND",
    "BAD_REQUEST", "UNAUTHORIZED", "METHOD_NOT_ALLOWED", "CONFLICT",
    "SERVER_ERROR", "HTTP_OTHER" }

Verdicts == {OK, SKIPPED} \cup Failures

classify(status) ==
  CASE status = None            -> TRANSPORT_ERROR
    [] status \in 200..299      -> OK
    [] status = 400             -> "BAD_REQUEST"
    [] status \in {401, 403}    -> "UNAUTHORIZED"
    [] status = 404             -> "NOT_FOUND"
    [] status = 405             -> "METHOD_NOT_ALLOWED"
    [] status = 409             -> "CONFLICT"
    [] status = 501             -> "NOT_IMPLEMENTED"
    [] status >= 500 /\ status # 501 -> "SERVER_ERROR"
    [] OTHER                    -> "HTTP_OTHER"

looks_like_error_body(reply) == reply.body \in {"smuggled", "unknownop"}

route_is_missing(reply) ==
  /\ reply.status # None
  /\ reply.status = 405 \/ reply.body \in {"noroute", "unknownop"}

-----------------------------------------------------------------------------
(***************************************************************************)
(* What a catalog claims against what it does.                             *)
(***************************************************************************)
HONEST          == "declared, works"
OVERCLAIM       == "DECLARED, FAILS"
UNDECLARED_OK   == "undeclared, works"
HONEST_OMISSION == "undeclared, fails"

Judgements == {HONEST, OVERCLAIM, UNDECLARED_OK, HONEST_OMISSION}

reconcile(declared, works) ==
  CASE declared /\ works   -> HONEST
    [] declared /\ ~works  -> OVERCLAIM
    [] ~declared /\ works  -> UNDECLARED_OK
    [] ~declared /\ ~works -> HONEST_OMISSION
=============================================================================
