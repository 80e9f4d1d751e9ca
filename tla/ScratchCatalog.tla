--------------------------- MODULE ScratchCatalog ---------------------------
(***************************************************************************)
(* The catalog server as the probe suite sees it (external: the vendors'   *)
(* code is not in the repository).  Only what the write tier can reach is  *)
(* kept: whether the scratch namespace exists and which scratch tables and *)
(* views are in it.  The operators are pure; CatalogRun holds the state.   *)
(*                                                                         *)
(* A request is addressed with the runner's ctx: the names it believes the *)
(* scratch table and view have, and the table uuid it learned.             *)
(***************************************************************************)
EXTENDS ProbeSuite

Names == {"probe", "probe_r"}     \* scratch_tbl / scratch_view, and with "_r"

Renamed(n) == "probe_r"           \* the suite renames each object once

Scratch == [ns : BOOLEAN, tables : SUBSET Names, views : SUBSET Names]
Absent  == [ns |-> FALSE, tables |-> {}, views |-> {}]

Contexts == [prefix : BOOLEAN, tbl : Names, view : Names, uuid : BOOLEAN]

Success  == [status |-> 200, body |-> "plain"]
NotFound == [status |-> 404, body |-> "plain"]   \* "the given table does not exist"
Conflict == [status |-> 409, body |-> "plain"]

(* What the endpoint addresses exists.  Reads go to the seeded fixture.    *)
Addressed(e, s, c) ==
  CASE e \in {"update_namespace_props", "create_table", "create_view",
              "drop_namespace"}
                  -> s.ns
    [] e \in {"commit_table", "commit_transaction", "rename_table", "drop_table"}
                  -> c.tbl \in s.tables
    [] e \in {"load_view", "head_view", "replace_view", "rename_view", "drop_view"}
                  -> c.view \in s.views
    [] OTHER      -> TRUE

(* Nothing stands in its way: a name already taken, a namespace that is    *)
(* not empty, or an assert-table-uuid requirement that does not hold.      *)
Unopposed(e, s, c) ==
  CASE e = "create_namespace" -> ~s.ns
    [] e = "create_table"     -> c.tbl \notin s.tables
    [] e = "create_view"      -> c.view \notin s.views
    [] e = "commit_table"     -> c.uuid
    [] e = "rename_table"     -> Renamed(c.tbl) \notin s.tables
    [] e = "rename_view"      -> Renamed(c.view) \notin s.views
    [] e = "drop_namespace"   -> s.tables = {} /\ s.views = {}
    [] OTHER                  -> TRUE

Served(e, s, c) == Addressed(e, s, c) /\ Unopposed(e, s, c)

(* The reply of a served endpoint. *)
Answer(e, s, c) ==
  IF Served(e, s, c) THEN Success
  ELSE IF Addressed(e, s, c) THEN Conflict ELSE NotFound

(* The scratch namespace after a served endpoint has handled the request.  *)
Applied(e, s, c) ==
  IF ~Served(e, s, c) THEN s
  ELSE CASE e = "create_namespace" -> [s EXCEPT !.ns = TRUE]
         [] e = "create_table"     -> [s EXCEPT !.tables = @ \cup {c.tbl}]
         [] e = "rename_table"     ->
              [s EXCEPT !.tables = (@ \ {c.tbl}) \cup {Renamed(c.tbl)}]
         [] e = "drop_table"       -> [s EXCEPT !.tables = @ \ {c.tbl}]
         [] e = "create_view"      -> [s EXCEPT !.views = @ \cup {c.view}]
         [] e = "rename_view"      ->
              [s EXCEPT !.views = (@ \ {c.view}) \cup {Renamed(c.view)}]
         [] e = "drop_view"        -> [s EXCEPT !.views = @ \ {c.view}]
         [] e = "drop_namespace"   -> [s EXCEPT !.ns = FALSE]
         [] OTHER                  -> s
=============================================================================
