---------------------------- MODULE MCCatalogRun ----------------------------
(* Instances of CatalogRun for TLC. *)
EXTENDS CatalogRun

BadRequest  == [status |-> 400, body |-> "plain"]
NoRoute     == [status |-> 404, body |-> "noroute"]
NotAllowed  == [status |-> 405, body |-> "plain"]
Unimplemented == [status |-> 501, body |-> "plain"]
Smuggled    == [status |-> 200, body |-> "smuggled"]
UnknownOp   == [status |-> 200, body |-> "unknownop"]
Expired     == [status |-> 401, body |-> "plain"]
GatewayError == [status |-> 504, body |-> "plain"]

(* A catalog that refuses the endpoints of U with r and, besides, the      *)
(* variant probes of V (a query parameter, an update action, the purge).   *)
Catalog(U, r, V) ==
  [p \in Probes |-> IF Signature(p) \in U THEN r
                    ELSE IF p \in V THEN BadRequest ELSE Success]

(* Endpoints the write tier's order depends on vary one by one; those      *)
(* nothing depends on vary together.                                       *)
Groups ==
  { {"create_namespace"}, {"create_table"}, {"rename_table"}, {"drop_table"},
    {"create_view"}, {"rename_view"}, {"drop_view"}, {"drop_namespace"},
    {"commit_table", "commit_transaction", "load_view", "head_view",
     "replace_view", "update_namespace_props", "load_credentials"} }

(* Every combination of refused groups, in each style of refusal. *)
ManyCatalogs ==
  { Catalog(UNION G, r, V) :
      G \in SUBSET Groups,
      r \in {NoRoute, NotAllowed, Unimplemented, UnknownOp},
      V \in {{}, {"drop_table_purge", "commit_add_schema", "list_namespaces_parent"}} }

(* The catalogs for passes in which requests fail. *)
FewCatalogs ==
  { Catalog({}, NoRoute, {}),
    Catalog({"create_view", "commit_transaction"}, Smuggled, {"drop_table_purge"}) }

(* Catalogs that let the suite create what it cannot drop. *)
Undroppable == { Catalog({"drop_table"}, Unimplemented, {}) }

OneCatalog == { Catalog({}, NoRoute, {}) }

(* On one of the many, one write pass is made in which nothing goes wrong; *)
(* the few may also meet faults, outages and kills.                        *)
AllCatalogs == ManyCatalogs \cup FewCatalogs

Calm ==
  route \notin FewCatalogs =>
    /\ runs' = 1 /\ allow' /\ ~dark' /\ trouble' = {}
    /\ declared' \in {{}, Endpoints}
    /\ phase' = "ended" => phase = "writing"

AllDeclared  == { Endpoints }
SomeDeclared == { Endpoints, Endpoints \ {"drop_table", "list_views"} }

NoRejections  == {}
TwoRejections == {Expired, GatewayError}

Both == BOOLEAN
Yes  == {TRUE}
No   == {FALSE}
=============================================================================
