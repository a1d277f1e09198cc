------------------------------- MODULE CronLine -------------------------------
(***************************************************************************)
(* What becomes of one line of a crontab: createCronJob splits it and      *)
(* writes a CronJob (internal/controller/cronjob_controller.go), Kubernetes *)
(* starts a pod for it, and the wrapper in the pod asks for an ODP that    *)
(* runs the command (cronwrapper, config.go and server.go).  Meanwhile the *)
(* assignments above the line are edited and the operator is deployed      *)
(* again with another time zone or image.                                  *)
(*                                                                         *)
(* A line is a sequence of words, with a number of blanks in front of      *)
(* each; names and values of assignments are sequences of letters.  What   *)
(* kind of blank it is, and how many a command holds, is left out.         *)
(***************************************************************************)
EXTENDS Naturals, Sequences, SequencesExt

CONSTANTS
  Words,
  Fields,         \* words that are a field of a schedule
  Macros,         \* words like @midnight
  Letters,        \* words of one character
  Escaped,        \* per word with quotes, the word with each of them escaped
  Ahead,          \* per word that ends in a field or holds a macro, and that
                  \* field or macro: what the word has ahead of it
  Lines,          \* lines: words, the number of blanks in front of each, and
                  \* whether a blank follows the last
  Envs,           \* assignments: functions from names to values
  NameOrder,      \* the names an assignment may have, sorted
  TZ, CRON_TZ, POD_CMD, POD_USERNAME,  \* names with a meaning
  Owner,          \* the user, as a value
  TimeZones,      \* what the operator's own TimeZone may be, <<>> for none
  Images,         \* wrapper images
  MaxEdits,       \* bound on the edits of the assignments
  MaxDeploys      \* bound on new deployments of the operator

ASSUME LineAssumption ==
  /\ Fields \cup Macros \cup Letters \subseteq Words
  /\ Fields \cap Macros = {}
  /\ DOMAIN Escaped \subseteq Words
  /\ POD_CMD # POD_USERNAME
  /\ DOMAIN Ahead \subseteq Words \X (Fields \cup Macros)
  /\ \A pair \in DOMAIN Ahead : pair[1] # pair[2] /\ Ahead[pair] \in Seq(Words)
  /\ \A line \in Lines :
       /\ line.words \in Seq(Words) \ {<<>>} /\ line.trailing \in BOOLEAN
       /\ line.blanks \in Seq(Nat) /\ Len(line.blanks) = Len(line.words)
       /\ \A k \in 2 .. Len(line.words) : line.blanks[k] > 0
  /\ \A e \in Envs : DOMAIN e \subseteq {NameOrder[k] : k \in DOMAIN NameOrder}
  /\ MaxEdits \in Nat /\ MaxDeploys \in Nat

VARIABLES
  line,      \* the line
  env,       \* the assignments in force for it
  timezone,  \* the operator's environment
  image,
  jobs,      \* the CronJob objects
  settled,   \* the file has been reconciled since the last change
  request,   \* the last request to the ODP factory
  edits, deploys

vars == <<line, env, timezone, image, jobs, settled, request, edits, deploys>>

NoRequest == [username |-> <<>>, command |-> <<>>, line |-> <<>>]

-----------------------------------------------------------------------------
(* The identifier of a line: its assignments as one string *)

\* ConvertMapToString: names and values, sorted by name, nothing between them.
ConvertMapToString(e) ==
  FlattenSeq([k \in DOMAIN NameOrder |->
    IF NameOrder[k] \in DOMAIN e THEN NameOrder[k] \o e[NameOrder[k]] ELSE <<>>])

\* Mutant of Identifier: the assignments do not count.
IdentifierOfLine(l, e, i) == <<l, i>>

\* Md5calc of the concatenation, taken as injective.
Identifier(l, e, i) == <<l, i, ConvertMapToString(e)>>

-----------------------------------------------------------------------------
(* createCronJob *)

Indented(l) == l.blanks[1] > 0

\* The words that a blank follows.
Complete(l) == IF l.trailing THEN Len(l.words) ELSE Len(l.words) - 1

\* Mutant of ScheduleLength: a macro is a word like any other.
ScheduleLengthOfFields(l) == IF Complete(l) >= 5 THEN 5 ELSE 0

\* The first match of ^(\s*\S+\s){5}|(^\s*@\S+), in words: five words each
\* with a blank, or else a macro; the blanks in front of each are part of it.
ScheduleLength(l) ==
  IF Complete(l) >= 5 THEN 5 ELSE IF l.words[1] \in Macros THEN 1 ELSE 0

Schedule(l) ==
  LET n == ScheduleLength(l)
  IN  [words |-> SubSeq(l.words, 1, n), blanks |-> SubSeq(l.blanks, 1, n)]

\* Without a schedule the line is split into its characters.
CreatePanics(l) ==
  /\ ScheduleLength(l) = 0
  /\ Len(l.words) = 1 /\ l.words[1] \in Letters
  /\ ~Indented(l) /\ ~l.trailing

\* Where the schedule occurs in the rest of the line: five words with a blank
\* after the fifth, or the macro, with the same blanks.  The blanks it starts
\* with may be the last of several; without any, it may start inside a word.
\* The first five words have taken a blank of the sixth.
Occurs(l, k) ==
  LET n == ScheduleLength(l)
      room == IF n = 5 /\ k = 6 THEN l.blanks[k] - 1 ELSE l.blanks[k]
  IN  /\ k + n - 1 <= (IF n = 5 THEN Complete(l) ELSE Len(l.words))
      /\ \/ l.words[k] = l.words[1] /\ room >= l.blanks[1]
         \/ ~Indented(l) /\ <<l.words[k], l.words[1]>> \in DOMAIN Ahead
      /\ \A m \in 2 .. n : /\ l.words[k + m - 1] = l.words[m]
                          /\ l.blanks[k + m - 1] = l.blanks[m]

\* What the word in which the schedule occurs has ahead of it.
Piece(l, k) == IF l.words[k] = l.words[1] THEN <<>> ELSE Ahead[<<l.words[k], l.words[1]>>]

\* strings.Split(line, schedule)[1]: up to the next occurrence.
Command(l) ==
  LET first == ScheduleLength(l) + 1
      ends == {k \in first .. Len(l.words) : Occurs(l, k)}
  IN  IF ends = {}
      THEN SubSeq(l.words, first, Len(l.words))
      ELSE SubSeq(l.words, first, Min(ends) - 1) \o Piece(l, Min(ends))

\* What the API server takes: five fields, whatever blanks are in between, or a
\* macro with none in front.
Accepted(schedule) ==
  \/ Len(schedule.words) = 5 /\ \A k \in 1 .. 5 : schedule.words[k] \in Fields
  \/ Len(schedule.words) = 1 /\ schedule.words[1] \in Macros /\ schedule.blanks[1] = 0

Override(first, last) ==
  [n \in DOMAIN first \cup DOMAIN last |-> IF n \in DOMAIN last THEN last[n] ELSE first[n]]

NonEmpty(e) == [n \in {m \in DOMAIN e : e[m] # <<>>} |-> e[n]]

ForTheWrapper(command) ==
  [n \in {POD_CMD, POD_USERNAME} |-> IF n = POD_CMD THEN command ELSE Owner]

\* Mutant of mergeEnvVariables: the file's assignments come last.
mergeEnvVariablesFirst(e, command) == Override(ForTheWrapper(command), NonEmpty(e))

\* Empty values are left out; of a name that comes twice the last one counts.
mergeEnvVariables(e, command) == Override(NonEmpty(e), ForTheWrapper(command))

\* <<>> is no time zone: that of the cluster.
SelectedTimezone(e, default) ==
  IF TZ \in DOMAIN e THEN e[TZ] ELSE IF CRON_TZ \in DOMAIN e THEN e[CRON_TZ] ELSE default

\* The object; line, of and under are its history: what it was made of.
CronJob(l, e, z, i) ==
  [id |-> Identifier(l, e, i), schedule |-> Schedule(l), image |-> i,
   env |-> mergeEnvVariables(e, Command(l)), zone |-> SelectedTimezone(e, z),
   line |-> l, of |-> e, under |-> z]

-----------------------------------------------------------------------------

Init ==
  /\ line \in Lines /\ env \in Envs
  /\ timezone \in TimeZones /\ image \in Images
  /\ jobs = {} /\ settled = FALSE
  /\ request = NoRequest
  /\ edits = 0 /\ deploys = 0

\* Reconcile: the jobs of other identifiers are deleted, the line's own is
\* made unless it is there.  A panic only starts the process again.
Reconcile ==
  LET id == Identifier(line, env, image)
      kept == {j \in jobs : j.id = id}
  IN  /\ ~settled
      /\ kept = {} => ~CreatePanics(line)
      /\ jobs' = IF kept = {} /\ Accepted(Schedule(line)) THEN {CronJob(line, env, timezone, image)} ELSE kept
      /\ settled' = TRUE
      /\ UNCHANGED <<line, env, timezone, image, request, edits, deploys>>

delimitCommand(command) ==
  [k \in DOMAIN command |->
     IF command[k] \in DOMAIN Escaped THEN Escaped[command[k]] ELSE command[k]]

\* The schedule of a job is due: the wrapper reads its environment
\* (getOsEnvString trims the blanks around the command) and asks for an ODP.
Fire(j) ==
  /\ request' = [username |-> j.env[POD_USERNAME],
                 command |-> delimitCommand(j.env[POD_CMD]),
                 line |-> j.line]
  /\ UNCHANGED <<line, env, timezone, image, jobs, settled, edits, deploys>>

\* The user edits the assignments.
Edit(e) ==
  /\ edits < MaxEdits
  /\ edits' = edits + 1
  /\ e # env
  /\ env' = e
  /\ settled' = FALSE
  /\ UNCHANGED <<line, timezone, image, jobs, request, deploys>>

\* The operator is deployed with other settings; it starts with a Reconcile.
Deploy(z, i) ==
  /\ deploys < MaxDeploys
  /\ deploys' = deploys + 1
  /\ timezone' = z /\ image' = i
  /\ settled' = FALSE
  /\ UNCHANGED <<line, env, jobs, request, edits>>

Next ==
  \/ Reconcile
  \/ \E j \in jobs : Fire(j)
  \/ \E e \in Envs : Edit(e)
  \/ \E z \in TimeZones, i \in Images : Deploy(z, i)

Spec == Init /\ [][Next]_vars

-----------------------------------------------------------------------------
(* Properties *)

\* What crontab(5) means by a line: a macro or five fields, and a command.
IsMacroLine(l) == l.words[1] \in Macros /\ Len(l.words) > 1
IsFieldLine(l) == Len(l.words) > 5 /\ \A k \in 1 .. 5 : l.words[k] \in Fields
CommandOf(l) == IF IsMacroLine(l) THEN Tail(l.words) ELSE SubSeq(l.words, 6, Len(l.words))

\* A command that holds the schedule of its own line is cut there.
HoldsItsSchedule(l) == \E k \in ScheduleLength(l) + 1 .. Len(l.words) : Occurs(l, k)

\* An ODP is asked for in the name of the owner, whatever the file assigns to
\* the names the wrapper reads, and with the command of the line.
RequestsCarryTheLine ==
  request # NoRequest =>
    /\ request.username = Owner
    /\ HoldsItsSchedule(request.line)
         \/ request.command = delimitCommand(CommandOf(request.line))

HasJob(l, words) == \E j \in jobs : j.line = l /\ j.schedule.words = words

\* Once it is reconciled, a line with five fields has a job for them, and so
\* has a line with a macro that is too short to be taken for five fields.  The
\* fields may be indented; a macro may not: cronregex takes the blanks in front
\* of it into the schedule, and the API server refuses them.
LinesAreServed ==
  settled =>
    /\ IsFieldLine(line) => HasJob(line, SubSeq(line.words, 1, 5))
    /\ IsMacroLine(line) /\ ~Indented(line) /\ Complete(line) < 5 =>
         HasJob(line, <<line.words[1]>>)

\* The job was made of other assignments that read the same as one string.
Collides(j) == j.of # env /\ ConvertMapToString(j.of) = ConvertMapToString(env)

\* Once it is reconciled, a line has no job but one with the image in use, the
\* assignments of the file, and the time zone they select: TZ before CRON_TZ
\* before the operator's own, of which later values reach no job that is there.
JobsAreCurrent ==
  settled =>
    \A j \in jobs :
      /\ j.image = image
      /\ \/ Collides(j)
         \/ /\ \A n \in DOMAIN env \ {POD_CMD, POD_USERNAME} :
                 env[n] # <<>> => n \in DOMAIN j.env /\ j.env[n] = env[n]
            /\ TZ \in DOMAIN env => j.zone = env[TZ]
            /\ TZ \notin DOMAIN env =>
                 j.zone = IF CRON_TZ \in DOMAIN env THEN env[CRON_TZ] ELSE j.under

\* "@midnight": "/home/maverick/bin/cleanup-logs.sh": a line that starts with
\* a macro is run by the macro.
MacrosAreServed ==
  settled /\ IsMacroLine(line) => HasJob(line, <<line.words[1]>>)
=============================================================================
