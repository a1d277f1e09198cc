---------------------------- MODULE CrontabParser ----------------------------
(***************************************************************************)
(* GetFSEntryForUser (internal/fsclient/fsclient.go): how one user's       *)
(* crontab becomes the associations of commands and environments that the *)
(* controller compares with the CronJobs.                                  *)
(*                                                                         *)
(* A line is what its two regular expressions make of it: skipped, an      *)
(* assignment of a value to a key, or a command.  The md5 of user, line,   *)
(* image and environment is taken as injective in the line and in the      *)
(* string ConvertMapToString makes of the environment; user and image do   *)
(* not change during a call.                                               *)
(***************************************************************************)
EXTENDS Naturals, Sequences

CONSTANTS
  Keys, Values,    \* what assignments are made of
  Texts,           \* the command lines
  EnvStrings,      \* what ConvertMapToString returns
  MapAsString(_),  \* ConvertMapToString
  Files,           \* the files to read
  Outcomes         \* how Stat and Open may end

Line ==
  [kind : {"skipped"}]
    \cup [kind : {"assignment"}, key : Keys, value : Values]
    \cup [kind : {"command"}, text : Texts]

Env == UNION {[K -> Values] : K \in SUBSET Keys}

ASSUME FilesAssumption == Files \subseteq Seq(Line)
ASSUME OutcomesAssumption ==
  Outcomes \subseteq {"ok", "missing", "directory", "denied", "unopened", "broken"}
ASSUME MapAsStringAssumption == \A env \in Env : MapAsString(env) \in EnvStrings

VARIABLES
  file,                    \* the lines of the file
  stage,                   \* "open", "scan", "returned" or "panicked"
  scanned,                 \* how many lines Scan has returned
  usercrons,               \* commands of the association being built
  allUsercrons,            \* commands of the file
  mapOfEnVars,             \* environment of the next command
  isPreviousLineACommand,
  listOfAssociations

built == <<usercrons, allUsercrons, mapOfEnVars, isPreviousLineACommand, listOfAssociations>>
vars == <<file, stage, scanned, built>>

-----------------------------------------------------------------------------
\* The key of the Usercrons maps; their values are the texts.
Identifier(text, env) == [text |-> text, env |-> MapAsString(env)]

Identifiers == [text : Texts, env : EnvStrings]

\* createAssociation: both maps are copied.
Association(crons, env) == [EnvVars |-> env, Usercrons |-> crons]

Associations == [EnvVars : Env, Usercrons : SUBSET Identifiers]

\* Mutant of Set: the two groups of the expression are swapped.
SetSwapped(env, key, value) ==
  [k \in (DOMAIN env) \cup {value} |-> IF k = value THEN key ELSE env[k]]

\* mapOfEnVars[key] = value
Set(env, key, value) ==
  [k \in (DOMAIN env) \cup {key} |-> IF k = key THEN value ELSE env[k]]

NoEnv == [k \in {} |-> k]

Init ==
  /\ file \in Files
  /\ stage = "open"
  /\ scanned = 0
  /\ usercrons = {}
  /\ allUsercrons = {}
  /\ mapOfEnVars = NoEnv
  /\ isPreviousLineACommand = FALSE
  /\ listOfAssociations = <<>>

Open(outcome) ==
  /\ stage = "open"
  /\ stage' = CASE outcome = "ok" -> "scan"
                [] outcome \in {"missing", "directory", "denied"} -> "returned"
                [] outcome = "broken" -> "panicked"      \* fsinfo is nil
                [] outcome = "unopened" -> "returned"    \* a nil file reads as an error
  /\ listOfAssociations' = IF outcome = "unopened"
                           THEN <<Association(usercrons, mapOfEnVars)>>
                           ELSE listOfAssociations
  /\ UNCHANGED <<file, scanned, usercrons, allUsercrons, mapOfEnVars, isPreviousLineACommand>>

\* Scan returns the next line.
Scan(kind) ==
  /\ stage = "scan"
  /\ scanned < Len(file)
  /\ file[scanned + 1].kind = kind
  /\ scanned' = scanned + 1
  /\ UNCHANGED <<file, stage>>

SkipLine ==
  /\ Scan("skipped")
  /\ UNCHANGED built

\* Mutants of CloseAssociation: the assignment takes effect first; the map of
\* commands is not replaced.
CloseAfterAssignment ==
  IF isPreviousLineACommand
  THEN /\ listOfAssociations' =
            Append(listOfAssociations,
                   Association(usercrons,
                     Set(mapOfEnVars, file[scanned + 1].key, file[scanned + 1].value)))
       /\ usercrons' = {}
  ELSE UNCHANGED <<listOfAssociations, usercrons>>
CloseKeepingCommands ==
  /\ listOfAssociations' = IF isPreviousLineACommand
                           THEN Append(listOfAssociations, Association(usercrons, mapOfEnVars))
                           ELSE listOfAssociations
  /\ UNCHANGED usercrons

\* An assignment that follows a command closes the association.
CloseAssociation ==
  IF isPreviousLineACommand
  THEN /\ listOfAssociations' =
            Append(listOfAssociations, Association(usercrons, mapOfEnVars))
       /\ usercrons' = {}
  ELSE UNCHANGED <<listOfAssociations, usercrons>>

Assign ==
  LET line == file[scanned + 1]
  IN  /\ Scan("assignment")
      /\ CloseAssociation
      /\ mapOfEnVars' = Set(mapOfEnVars, line.key, line.value)
      /\ isPreviousLineACommand' = FALSE
      /\ UNCHANGED allUsercrons

AddCommand ==
  LET unique == Identifier(file[scanned + 1].text, mapOfEnVars)
  IN  /\ Scan("command")
      /\ usercrons' = usercrons \cup {unique}
      /\ allUsercrons' = allUsercrons \cup {unique}
      /\ isPreviousLineACommand' = TRUE
      /\ UNCHANGED <<mapOfEnVars, listOfAssociations>>

\* Mutant of Return: the last association is forgotten.
ReturnUnfinished ==
  /\ stage = "scan"
  /\ stage' = "returned"
  /\ UNCHANGED <<file, scanned, built>>

\* Scan ends at the end of the file, or before it at a read error or a line
\* that is too long; what was built so far is returned either way.
Return ==
  /\ stage = "scan"
  /\ stage' = "returned"
  /\ listOfAssociations' = Append(listOfAssociations, Association(usercrons, mapOfEnVars))
  /\ UNCHANGED <<file, scanned, usercrons, allUsercrons, mapOfEnVars, isPreviousLineACommand>>

Next ==
  \/ \E outcome \in Outcomes : Open(outcome)
  \/ SkipLine
  \/ Assign
  \/ AddCommand
  \/ Return

Spec == Init /\ [][Next]_vars

-----------------------------------------------------------------------------
(* Properties *)

\* Every variable keeps the shape its declaration gives it.
TypeOK ==
  /\ file \in Files
  /\ stage \in {"open", "scan", "returned", "panicked"}
  /\ scanned \in 0 .. Len(file)
  /\ usercrons \subseteq Identifiers /\ allUsercrons \subseteq Identifiers
  /\ mapOfEnVars \in Env
  /\ isPreviousLineACommand \in BOOLEAN
  /\ listOfAssociations \in Seq(Associations)

\* The associations, with the one being built while the scan lasts.
AllAssociations ==
  {listOfAssociations[k] : k \in DOMAIN listOfAssociations}
    \cup (IF stage = "scan" THEN {Association(usercrons, mapOfEnVars)} ELSE {})

\* The lines among the first n that assign key, and the environment they
\* leave: for every key the value of the last one.
Assigning(n, key) ==
  {m \in 1 .. n : file[m].kind = "assignment" /\ file[m].key = key}
LastOf(lines) == CHOOSE m \in lines : \A l \in lines : l <= m
EnvAfter(n) ==
  [key \in {k \in Keys : Assigning(n, k) # {}} |-> file[LastOf(Assigning(n, key))].value]

\* What the first n lines ask for, and what the associations do.
Written(n) ==
  {<<file[m].text, EnvAfter(m)>> : m \in {l \in 1 .. n : file[l].kind = "command"}}
Asked ==
  UNION {{<<c.text, assoc.EnvVars>> : c \in assoc.Usercrons} : assoc \in AllAssociations}

\* A command is run under the assignments above it, the last one of a key, and
\* under none below it; no line is lost and none is added, at the end of the
\* file as well as after a read that is cut short.
CommandsKeepTheirEnvironment == Asked = Written(scanned)

\* createCronJob computes the identifier again, from the text and the
\* environment of the association: it is the one the controller compared with
\* the annotations of the jobs.
RecomputedIdentifier ==
  \A assoc \in AllAssociations : \A c \in assoc.Usercrons :
    c = Identifier(c.text, assoc.EnvVars)

\* DeleteFunc looks a line up in the associations, CreateFunc in the set of
\* all identifiers: neither result knows a line the other does not.
ResultsAgree ==
  allUsercrons = UNION {assoc.Usercrons : assoc \in AllAssociations}

=============================================================================
