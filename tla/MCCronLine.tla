------------------------------ MODULE MCCronLine ------------------------------
(* Lines over a few words, and assignments that need care, for TLC. *)
EXTENDS CronLine

Star == "*"
At == "@midnight"
Quoted == "\"x\""
EndsInStar == "a*"
HoldsAt == "x@midnight"

ShortWords == {Star, At, Quoted}
WordSet == ShortWords \cup {EndsInStar, HoldsAt, "a", "x"}
EscapedWords == [w \in {Quoted} |-> "\\\\\\\"x\\\\\\\""]
AheadOf ==
  [pair \in {<<EndsInStar, Star>>, <<HoldsAt, At>>} |-> IF pair[2] = Star THEN <<"a">> ELSE <<"x">>]

Line(words, indent, trailing) ==
  [words |-> words, trailing |-> trailing,
   blanks |-> [k \in DOMAIN words |-> IF k = 1 THEN indent ELSE 1]]

LinesUpTo(n, indents) ==
  {Line(s, i, t) : s \in UNION {[1 .. k -> ShortWords] : k \in 1 .. n}, i \in indents, t \in BOOLEAN}

\* Lines whose command holds their schedule again, at the start of a word or
\* inside of one, or nearly so.
Five == <<Star, Star, Star, Star, Star>>
FourAfter(word) == Five \o <<Quoted, word, Star, Star, Star, Star, Quoted>>
Nested == {Line(FourAfter(w), i, FALSE) : w \in {Star, EndsInStar}, i \in {0, 1}}
Spaced == {[l EXCEPT !.blanks[k] = 2] : l \in Nested, k \in {2, 6, 7, 8}}
NestedMacro == {Line(<<At, Quoted, w>>, i, FALSE) : w \in {At, HoldsAt}, i \in {0, 1}}

SomeLines == LinesUpTo(6, {0}) \cup LinesUpTo(5, {1}) \cup Nested \cup Spaced \cup NestedMacro
MacroLines == {l \in LinesUpTo(6, {0}) : l.words[1] = At}

N == <<"n">>
TZName == <<"t", "z">>
CronTZName == <<"c", "t", "z">>
Cmd == <<"cmd">>
Username == <<"username">>
Sorted == <<CronTZName, Cmd, N, TZName, Username>>

\* Among them two that read the same: n=tzv, and n= with tz=v.
Assignments ==
  { <<>>,
    [x \in {N} |-> <<"t", "z", "v">>],
    [x \in {N, TZName} |-> IF x = N THEN <<>> ELSE <<"v">>],
    [x \in {CronTZName, TZName} |-> IF x = TZName THEN <<"v">> ELSE <<"u">>],
    [x \in {CronTZName} |-> <<"u">>],
    [x \in {Cmd, Username} |-> <<"v">>] }

Zones == {<<>>, <<"u">>}
User == <<"owner">>
=============================================================================
