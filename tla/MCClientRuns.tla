---------------------------- MODULE MCClientRuns ----------------------------
(* Instances of ClientRuns for TLC. *)
EXTENDS ClientRuns

TwoCatalogs == <<"apache-polaris", "aws-glue">>
OneOfEach(c) == IF c = "apache-polaris" THEN "oauth2" ELSE "sigv4"
Followed ==
  {"config", "list_namespaces", "list_namespaces_paged", "load_namespace", "head_namespace",
   "load_table", "load_credentials", "list_views", "report_metrics", "create_table"}

(* Polaris answers more than it declares, and declares other endpoints     *)
(* later; Glue answers little and declares nothing.                        *)
Answered(c, v) ==
  IF c = "aws-glue" THEN {"config", "list_namespaces", "load_namespace", "load_table"}
  ELSE Followed \ (IF v = 1 THEN {"report_metrics"} ELSE {"load_credentials"})
Named(c, v) ==
  CASE c = "aws-glue" -> {}
    [] c # "aws-glue" /\ v = 1 -> {"list_namespaces", "load_namespace", "load_table", "create_table"}
    [] c # "aws-glue" /\ v = 2 -> {"head_table", "load_table", "load_credentials", "list_views"}
=============================================================================
