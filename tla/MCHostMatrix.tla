---------------------------- MODULE MCHostMatrix ----------------------------
(* An instance of HostMatrix for TLC: two hosts, of which one keeps its    *)
(* servers in global state, both servers; a run over the servers, a run    *)
(* that shares a cell with it, and one of the other host.                  *)
EXTENDS HostMatrix

TwoHosts == {"claude", "agy"}
AgyIsGlobal == {"agy"}
SomeConfigs == {[axis |-> "A", held |-> "agy", only |-> Servers],
               [axis |-> "B", held |-> "ours_engine", only |-> {"agy"}],
               [axis |-> "A", held |-> "claude", only |-> {"ours_rows"}]}
=============================================================================
