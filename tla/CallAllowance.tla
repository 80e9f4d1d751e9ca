--------------------------- MODULE CallAllowance ---------------------------
(***************************************************************************)
(* What the catalog-call budget promises, as the model reading the answers *)
(* sees it: an answer gets at most Limit catalog calls, and a call is      *)
(* refused only once the answer has had them all.                          *)
(***************************************************************************)
EXTENDS Naturals

CONSTANT Limit

VARIABLES through, refused    \* of the answer being written

Init == through = 0 /\ refused = FALSE

Grant == through < Limit /\ through' = through + 1 /\ UNCHANGED refused

Refuse == through = Limit /\ refused' = TRUE /\ UNCHANGED through

NewAnswer == through' = 0 /\ refused' = FALSE

Next == Grant \/ Refuse \/ NewAnswer

Spec == Init /\ [][Next]_<<through, refused>>
=============================================================================
