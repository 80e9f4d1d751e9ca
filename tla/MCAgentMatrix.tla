---------------------------- MODULE MCAgentMatrix ---------------------------
(* Instances of AgentMatrix for TLC. *)
EXTENDS AgentMatrix

SomeAxes == {"A", "B", "D"}
OneLeg == {"gcp"}
TwoCatalogs == {Polaris, "google-lakehouse"}
TwoTimes == {1, 2}

Project == [kind |-> "redacted", parts |-> {"project"}]
InHeader == [kind |-> "gcp-project", parts |-> {"other"}]
SomeKnown == {Project}
Bucket == [kind |-> "bucket", parts |-> {"project", "iceberg"}]
Email == [kind |-> "email", parts |-> {"someone"}]

Right(axis, version) ==
  Body({3}, << >>,
       IF axis \in ScanAxes
       THEN << Claim("max", 22 + version), Claim("count", 7 + version), Version(version) >>
       ELSE << Rows(10 + version), Column("id"), Column("ts"), Column("payload"),
               Column("region"), Version(version), Version(100 + version) >>)
Wrong(axis) ==
  Body({2}, Right(axis, 1).answer,
       IF axis \in ScanAxes
       THEN << Claim("max", 23), Claim("count", 8), Claim("count", 11) >> ELSE << Rows(9) >>)

Answer(body, ids, usual) == [body |-> body, ids |-> ids, usual |-> usual]
IdsOf(cell) == IF cell.catalog = Polaris THEN {Project} ELSE {Project, Bucket}
WrongIds(axis) ==
  CASE axis = "A" -> {Project} [] axis = "B" -> {InHeader} [] axis = "D" -> {Email}

Answers(axis, cell) ==
  { Answer([v \in Versions |-> Right(axis, v)], IdsOf(cell), TRUE),
    Answer([v \in Versions |-> Wrong(axis)], WrongIds(axis), FALSE),
    Answer([v \in Versions |-> Died], {}, FALSE) }

(* The times of two runs are only compared under one label: let the first  *)
(* take 1.                                                                 *)
FirstTakesOne ==
  \A l \in Labels :
    capture[l] # capture'[l] /\ capture'[l].there =>
      \/ capture[l].there \/ archive[l[1]].there
      \/ capture'[l].holds.took = 1

(* The tables, the truth and the scorer move while no publication is under *)
(* way (the truth it grades by it reads first, once), and not between a    *)
(* run and its dump.                                                       *)
Calm == world # world' => publisher = Off /\ (At("off") \/ At("cells"))

(* A publication starts when the axis it reads first can be read, and      *)
(* reads it: one that starts earlier waits for that, or comes to nothing.  *)
Prompt ==
  /\ publisher = Off /\ publisher' # Off => Readable("A")
  /\ driver # driver' /\ Reading => publisher.todo # Axes

(* With troubles and two times: three runs, and an archive of single axes,   *)
(* listed as such.  With neither, and one program at a time: four runs, any  *)
(* archive and any listing.                                                  *)
Few == runs <= 3 /\ (Archived = {} \/ (listed = {"SUPERSEDED_D"} /\ "B" \notin Archived))
Smooth ==
  /\ troubles = 0 /\ \A l \in Labels : capture[l].there => capture[l].holds.took = 1
  /\ At("off") \/ publisher = Off
FewOrSmooth == Few' \/ Smooth'
=============================================================================
