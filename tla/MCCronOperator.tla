---------------------------- MODULE MCCronOperator ----------------------------
(* A root, one user's directory with the crontab, and a file beside it. *)
EXTENDS CronOperator

CONSTANTS r, d, f, g

Tree == [p \in {d, f, g} |-> IF p = f THEN d ELSE r]
CrontabOf == [u \in {d} |-> f]

\* watcher() of the controller keeps Create and Write.
OperatorOps == {"Create", "Write"}
=============================================================================
