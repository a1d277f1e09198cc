---------------------------- MODULE MCCronWrapper ----------------------------
(* Overlapping executions of one user for TLC. *)
EXTENDS CronWrapper

CONSTANTS e1, e2
=============================================================================
