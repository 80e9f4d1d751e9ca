----------------------------- MODULE MCMcpTrace -----------------------------
(* Instances of McpTrace for TLC. *)
EXTENDS McpTrace

(* A garbage line and a notification are treated alike on the way up. *)
ThreeKinds == {"request", "notification", "blank"}
Requests == {"request"}
PlainText == {"blank", "garbage"}
BareNumber == {"scalar"}
=============================================================================
