----------------------------- MODULE Pseudonyms -----------------------------
(***************************************************************************)
(* anonymize_evidence.py, as the publishers use it: one map from account   *)
(* identifiers to pseudonyms over all the texts, applied to each of them.  *)
(* An identifier is [kind, parts]; a part of one may be another, as a      *)
(* project's name is of its bucket's.  A text is the set of the            *)
(* identifiers in it, and a masked text, of the names that stand for each; *)
(* what surrounds them is left out.                                        *)
(***************************************************************************)
EXTENDS Integers, Sequences, FiniteSets

(* What the patterns match and number; what is looked for afterwards, with *)
(* the literals of .known-identifiers ("redacted").                        *)
PATTERNS == {"catalog-host", "managed-bucket", "bucket", "aws-account", "guid",
             "gcp-project-number", "gcp-project"}
RESIDUAL == {"guid", "aws-account", "gcp-project-number", "gcp-project", "catalog-host", "email",
             "redacted"}

(* By kind, without gaps; the order, that of first appearance, is left out. *)
Numbered(ids) ==
  LET rank == CHOOSE f \in [ids -> 1..Cardinality(ids)] : \A x, y \in ids : f[x] = f[y] => x = y
  IN [id \in ids |->
        <<id.kind, Cardinality({x \in ids : x.kind = id.kind /\ rank[x] <= rank[id]})>>]

build_map(ids) == {id \in ids : id.kind \in PATTERNS}

(* The literals of .known-identifiers that occur join what is matched. *)
Mapping(ids, known) == Numbered(build_map(ids) \cup (ids \cap known))

Left(kind) == <<kind, 0>>     \* what no pseudonym replaced
PartsMasked(id, mapping) ==
  {IF \E x \in DOMAIN mapping : x.parts = {part}
   THEN mapping[CHOOSE x \in DOMAIN mapping : x.parts = {part}]
   ELSE Left(id.kind) : part \in id.parts}

(* Mutant: the shortest first. *)
ShortestFirst(id, mapping) == PartsMasked(id, mapping)

(* The longest first: an identifier that is mapped is replaced whole.  One *)
(* that is not keeps its shape, whatever is replaced in it.                *)
Masked(id, mapping) ==
  IF id \in DOMAIN mapping THEN {mapping[id]} ELSE {Left(id.kind)} \cup PartsMasked(id, mapping)

apply_map(text, mapping) == {Masked(id, mapping) : id \in text}

(* What still looks like an identifier after that, the pseudonyms of a     *)
(* project among it: only those of a guid, an account and a host are known *)
(* for what they are.  (What begins with one of the first two is a OneLake *)
(* path and no email.)                                                     *)
residual_scan(masked) ==
  {kind \in RESIDUAL : \E mask \in masked : \E name \in mask :
     \/ name = Left(kind)
     \/ name[1] = kind /\ kind \in {"gcp-project-number", "gcp-project"}}
=============================================================================
