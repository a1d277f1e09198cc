---------------------------- MODULE MCFileWatcher ----------------------------
(* A root, one directory and one or two files in it, for TLC. *)
EXTENDS FileWatcher

CONSTANTS r, d, f, g

SmallTree == [p \in {d, f} |-> IF p = d THEN r ELSE d]
WideTree == [p \in {d, f, g} |-> IF p = d THEN r ELSE d]

\* watcher() of the controller keeps Create and Write.
OperatorOps == {"Create", "Write"}
AllOps == {}
=============================================================================
