---------------------------- MODULE MCRustWrites ----------------------------
(* Instances of RustWrites for TLC. *)
EXTENDS RustWrites, FiniteSets

Refusals(n) == {r \in SUBSET Endpoints : Cardinality(r) <= n}

(* Up to two endpoints refused, or one and a request lost on the way. *)
SomeCatalogs ==
  [refused : Refusals(2), with : {"404", "501"}, faults : {0}]
  \cup [refused : Refusals(1), with : {"404", "501"}, faults : {1}]
=============================================================================
