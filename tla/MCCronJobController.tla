------------------------ MODULE MCCronJobController ------------------------
(* Small instances of CronJobController for TLC. *)
EXTENDS CronJobController, TLC

CONSTANTS a, b, c, n1, n2, n3

\* No file or a file of one line.
OneLine == {<<>>, <<{a}>>, <<{b}>>}
\* ... where there is a third one.
OneOfThree == OneLine \cup {<<{c}>>}
\* One line or two, under one environment.
TwoLines == {<<>>, <<{a}>>, <<{a, b}>>}
\* A line that occurs under two environments that are equal as strings.
Repeated == {<<>>, <<{a}, {a}>>, <<{a, b}>>}

NoFaults == {}
ProcessFaults == {"crash", "api"}
RecoverableFaults == {"crash", "api", "kubectl", "inplace", "denied"}
AllFaults == {"crash", "api", "kubectl", "inplace", "denied", "broken"}

NameSymmetry == Permutations(Names)
=============================================================================
