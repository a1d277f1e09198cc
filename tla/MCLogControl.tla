----------------------------- MODULE MCLogControl -----------------------------
(* Small log configurations for TLC. *)
EXTENDS LogControl

Debug == [ours |-> TRUE, severity |-> "debug"]
Info == [ours |-> TRUE, severity |-> "info"]
Error == [ours |-> TRUE, severity |-> "error"]
Misspelt == [ours |-> TRUE, severity |-> "verbose"]
Other == [ours |-> FALSE, severity |-> "error"]

MCLevels == {"debug", "info", "error"}
MCSeverities == MCLevels \cup {"verbose"}

\* None for the service, one among others, two, and a refused one between two.
MCArrays ==
  {<<>>, <<Other>>, <<Debug>>, <<Other, Error, Other>>, <<Debug, Error>>, <<Info, Misspelt, Debug>>}
=============================================================================
