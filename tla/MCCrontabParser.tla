--------------------------- MODULE MCCrontabParser ---------------------------
(* Every file of up to MaxLines lines, for TLC. *)
EXTENDS CrontabParser, SequencesExt

CONSTANT MaxLines

\* Keys and values are texts, spelt as sequences; a key of one character that
\* begins another key makes two environments with the same string.
MCKeys == {<<"A">>, <<"A", "B">>}
MCValues == {<<"B", "C">>, <<"C">>}
MCTexts == {"cmd", "job"}

\* The keys in order: the shorter one is the prefix of the other one.
SortedKeys(env) == SetToSortSeq(DOMAIN env, LAMBDA k, l : Len(k) < Len(l))

\* ConvertMapToString writes keys and values without separators.
ConvertMapToString(env) ==
  FoldLeft(LAMBDA built_, k : built_ \o k \o env[k], <<>>, SortedKeys(env))

MCEnvStrings == {ConvertMapToString(env) : env \in Env}
MCFiles == UNION {[1 .. n -> Line] : n \in 0 .. MaxLines}
MCOutcomes == {"ok", "missing", "directory", "denied", "unopened", "broken"}
=============================================================================
