------------------------- MODULE CrontabParserProofs -------------------------
(* Theorems about CrontabParser: for every file, of any length. *)
EXTENDS CrontabParser, TLAPS

LEMMA LineKinds ==
  ASSUME TypeOK, NEW m \in 1 .. Len(file)
  PROVE  /\ file[m] \in Line
         /\ file[m].kind = "assignment" => file[m].key \in Keys /\ file[m].value \in Values
         /\ file[m].kind = "command" => file[m].text \in Texts
  <1>1. file \in Seq(Line)
    BY FilesAssumption DEF TypeOK
  <1>2. file[m] \in Line
    BY <1>1
  <1>3. QED
    BY <1>2 DEF Line

LEMMA SetType ==
  ASSUME NEW env \in Env, NEW key \in Keys, NEW value \in Values
  PROVE  Set(env, key, value) \in Env
  <1>1. PICK K \in SUBSET Keys : env \in [K -> Values]
    BY DEF Env
  <1>2. Set(env, key, value) \in [K \cup {key} -> Values]
    BY <1>1 DEF Set
  <1>3. QED
    BY <1>2 DEF Env

LEMMA IdentifierType ==
  ASSUME NEW text \in Texts, NEW env \in Env
  PROVE  Identifier(text, env) \in Identifiers
  BY MapAsStringAssumption DEF Identifier, Identifiers

\* The association being built has commands exactly when the flag says so.
FlagMeansCommands == isPreviousLineACommand <=> usercrons # {}

\* The next command's environment is the one the lines above it leave.
EnvIsCurrent == stage \in {"open", "scan"} => mapOfEnVars = EnvAfter(scanned)

\* Nothing is built before the file is open.
OpenShape ==
  stage = "open" =>
    scanned = 0 /\ usercrons = {} /\ allUsercrons = {} /\ listOfAssociations = <<>>

ShapeInv == TypeOK /\ FlagMeansCommands /\ EnvIsCurrent /\ OpenShape

ParserInv ==
  ShapeInv /\ CommandsKeepTheirEnvironment /\ RecomputedIdentifier /\ ResultsAgree

LEMMA NoEnvType == NoEnv \in Env
  <1>1. NoEnv \in [{} -> Values]
    BY DEF NoEnv
  <1>2. QED
    BY <1>1 DEF Env

LEMMA TypeStep ==
  ASSUME TypeOK, [Next]_vars
  PROVE  TypeOK'
  <1> USE DEF TypeOK
  <1>0. file \in Seq(Line) /\ Len(file) \in Nat
    BY FilesAssumption
  <1>1. Association(usercrons, mapOfEnVars) \in Associations
    BY DEF Association, Associations
  <1>2. ASSUME NEW outcome \in Outcomes, Open(outcome)
        PROVE  TypeOK'
    <2>1. stage' \in {"open", "scan", "returned", "panicked"}
      BY <1>2, OutcomesAssumption DEF Open
    <2>2. listOfAssociations' \in Seq(Associations)
      BY <1>1, <1>2 DEF Open
    <2>3. QED
      BY <1>2, <2>1, <2>2 DEF Open
  <1>3. CASE SkipLine
    BY <1>0, <1>3 DEF SkipLine, Scan, built
  <1>4. CASE Assign
    <2>1. scanned' \in 0 .. Len(file) /\ scanned + 1 \in 1 .. Len(file)
      BY <1>0, <1>4 DEF Assign, Scan
    <2>2. mapOfEnVars' \in Env
      BY <1>4, <2>1, LineKinds, SetType DEF Assign, Scan
    <2>3. listOfAssociations' \in Seq(Associations) /\ usercrons' \subseteq Identifiers
      <3>1. CloseAssociation
        BY <1>4 DEF Assign
      <3>2. listOfAssociations \in Seq(Associations) /\ usercrons \subseteq Identifiers
        OBVIOUS
      <3>3. CASE isPreviousLineACommand
        <4>1. /\ listOfAssociations' = Append(listOfAssociations, Association(usercrons, mapOfEnVars))
              /\ usercrons' = {}
          BY <3>1, <3>3 DEF CloseAssociation
        <4> HIDE DEF TypeOK
        <4>2. QED
          BY <1>1, <3>2, <4>1
      <3>4. CASE ~isPreviousLineACommand
        BY <3>1, <3>2, <3>4 DEF CloseAssociation
      <3>5. QED
        BY <3>3, <3>4
    <2>4. /\ file' = file /\ stage' = stage
          /\ isPreviousLineACommand' = FALSE /\ allUsercrons' = allUsercrons
      BY <1>4 DEF Assign, Scan
    <2>5. QED
      BY <2>1, <2>2, <2>3, <2>4
  <1>5. CASE AddCommand
    <2>1. scanned' \in 0 .. Len(file) /\ scanned + 1 \in 1 .. Len(file)
      BY <1>0, <1>5 DEF AddCommand, Scan
    <2>2. Identifier(file[scanned + 1].text, mapOfEnVars) \in Identifiers
      BY <1>5, <2>1, LineKinds, IdentifierType DEF AddCommand, Scan
    <2>3. QED
      BY <1>5, <2>1, <2>2 DEF AddCommand, Scan
  <1>6. CASE Return
    BY <1>1, <1>6 DEF Return
  <1>7. CASE UNCHANGED vars
    BY <1>7 DEF vars, built
  <1>8. QED
    BY <1>2, <1>3, <1>4, <1>5, <1>6, <1>7 DEF Next

\* One more line changes the environment when it is an assignment, and then
\* only at its key.
LEMMA EnvAfterStep ==
  ASSUME TypeOK, scanned < Len(file)
  PROVE  EnvAfter(scanned + 1) =
           IF file[scanned + 1].kind = "assignment"
           THEN Set(EnvAfter(scanned), file[scanned + 1].key, file[scanned + 1].value)
           ELSE EnvAfter(scanned)
  <1> DEFINE n == scanned + 1
             line == file[n]
             Old(k) == Assigning(scanned, k)
             New(k) == Assigning(n, k)
  <1>1. scanned \in Nat /\ Len(file) \in Nat /\ n \in 1 .. Len(file)
    BY FilesAssumption DEF TypeOK
  <1>2. ASSUME NEW k, line.kind = "assignment" => line.key # k
        PROVE  New(k) = Old(k)
    BY <1>1, <1>2 DEF Assigning
  <1>3. ASSUME line.kind = "assignment"
        PROVE  /\ line.key \in Keys
               /\ n \in New(line.key)
               /\ LastOf(New(line.key)) = n
    <2>1. line.key \in Keys
      BY <1>1, <1>3, LineKinds
    <2>2. n \in New(line.key) /\ \A l \in New(line.key) : l \in Nat /\ l <= n
      BY <1>1, <1>3 DEF Assigning
    <2>3. \A m \in New(line.key) : (\A l \in New(line.key) : l <= m) => m = n
      BY <1>1, <2>2
    <2>4. QED
      BY <2>1, <2>2, <2>3 DEF LastOf
  <1>4. CASE line.kind # "assignment"
    BY <1>2, <1>4 DEF EnvAfter
  <1>5. CASE line.kind = "assignment"
    <2>1. {k \in Keys : New(k) # {}} = {k \in Keys : Old(k) # {}} \cup {line.key}
      BY <1>2, <1>3, <1>5
    <2>2. \A k \in {x \in Keys : New(x) # {}} :
            file[LastOf(New(k))].value = IF k = line.key THEN line.value ELSE EnvAfter(scanned)[k]
      BY <1>2, <1>3, <1>5, <2>1 DEF EnvAfter
    <2>3. DOMAIN EnvAfter(scanned) = {k \in Keys : Old(k) # {}}
      BY DEF EnvAfter
    <2>4. QED
      BY <1>5, <2>1, <2>2, <2>3 DEF EnvAfter, Set
  <1>6. QED
    BY <1>4, <1>5

LEMMA ShapeStep ==
  ASSUME ShapeInv, [Next]_vars
  PROVE  ShapeInv'
  <1> USE DEF ShapeInv
  <1>1. TypeOK'
    BY TypeStep
  <1>2. ASSUME NEW n \in Nat, file' = file
        PROVE  EnvAfter(n)' = EnvAfter(n)
    BY <1>2 DEF EnvAfter, Assigning
  <1>3. ASSUME NEW outcome \in Outcomes, Open(outcome)
        PROVE  ShapeInv'
    <2>1. stage' # "open" /\ UNCHANGED <<file, scanned, usercrons, mapOfEnVars, isPreviousLineACommand>>
      BY <1>3, OutcomesAssumption DEF Open
    <2>2. EnvIsCurrent'
      BY <1>2, <1>3, <2>1 DEF EnvIsCurrent, TypeOK, Open
    <2>3. QED
      BY <1>1, <2>1, <2>2 DEF OpenShape, FlagMeansCommands
  <1>4. ASSUME NEW kind, Scan(kind)
        PROVE  /\ EnvAfter(scanned)' = EnvAfter(scanned + 1)
               /\ kind = file[scanned + 1].kind
               /\ stage' = "scan" /\ stage = "scan"
               /\ scanned < Len(file)
    BY <1>4, <1>2 DEF Scan, TypeOK
  <1>5. CASE SkipLine
    <2>1. EnvAfter(scanned)' = EnvAfter(scanned)
      BY <1>4, <1>5, EnvAfterStep DEF SkipLine
    <2>2. QED
      BY <1>1, <1>4, <1>5, <2>1
      DEF SkipLine, built, EnvIsCurrent, OpenShape, FlagMeansCommands
  <1>6. CASE Assign
    <2>1. EnvAfter(scanned)' = Set(EnvAfter(scanned), file[scanned + 1].key, file[scanned + 1].value)
      BY <1>4, <1>6, EnvAfterStep DEF Assign
    <2>2. mapOfEnVars' = EnvAfter(scanned)'
      BY <1>4, <1>6, <2>1 DEF Assign, EnvIsCurrent
    <2>3. usercrons' = {} /\ ~isPreviousLineACommand'
      BY <1>6 DEF Assign, CloseAssociation, FlagMeansCommands
    <2>4. stage' = "scan"
      BY <1>4, <1>6 DEF Assign
    <2>5. QED
      BY <1>1, <2>2, <2>3, <2>4 DEF EnvIsCurrent, OpenShape, FlagMeansCommands
  <1>7. CASE AddCommand
    <2>1. EnvAfter(scanned)' = EnvAfter(scanned)
      BY <1>4, <1>7, EnvAfterStep DEF AddCommand
    <2>2. usercrons' # {} /\ isPreviousLineACommand' /\ mapOfEnVars' = mapOfEnVars
      BY <1>7 DEF AddCommand
    <2>3. stage' = "scan" /\ stage = "scan"
      BY <1>4, <1>7 DEF AddCommand
    <2>4. QED
      BY <1>1, <2>1, <2>2, <2>3 DEF EnvIsCurrent, OpenShape, FlagMeansCommands
  <1>8. CASE Return
    BY <1>1, <1>8 DEF Return, EnvIsCurrent, OpenShape, FlagMeansCommands
  <1>9. CASE UNCHANGED vars
    <2>1. EnvAfter(scanned)' = EnvAfter(scanned)
      BY <1>2, <1>9 DEF vars, TypeOK
    <2>2. QED
      BY <1>1, <1>9, <2>1 DEF vars, built, EnvIsCurrent, OpenShape, FlagMeansCommands
  <1>10. QED
    BY <1>3, <1>5, <1>6, <1>7, <1>8, <1>9 DEF Next

LEMMA RangeOfAppend ==
  ASSUME NEW S, NEW s \in Seq(S), NEW x \in S
  PROVE  {Append(s, x)[k] : k \in DOMAIN Append(s, x)} = {s[k] : k \in DOMAIN s} \cup {x}
  <1>1. Len(Append(s, x)) = Len(s) + 1 /\ Len(s) \in Nat
    OBVIOUS
  <1>2. \A k \in 1 .. Len(s) : Append(s, x)[k] = s[k]
    OBVIOUS
  <1>3. Append(s, x)[Len(s) + 1] = x
    OBVIOUS
  <1>4. DOMAIN Append(s, x) = (1 .. Len(s)) \cup {Len(s) + 1} /\ DOMAIN s = 1 .. Len(s)
    BY <1>1
  <1>5. QED
    BY <1>2, <1>3, <1>4

\* What each step makes of the associations.
Closed == {listOfAssociations[k] : k \in DOMAIN listOfAssociations}

LEMMA AssociationsStep ==
  ASSUME ShapeInv, [Next]_vars
  PROVE  \/ /\ AllAssociations' = AllAssociations
            /\ UNCHANGED allUsercrons
            /\ UNCHANGED <<file, scanned>> \/ SkipLine
         \/ /\ \A assoc \in AllAssociations \cup AllAssociations' : assoc.Usercrons = {}
            /\ allUsercrons = {} /\ allUsercrons' = {}
            /\ UNCHANGED <<file, scanned>> /\ scanned = 0
         \/ /\ Assign
            /\ UNCHANGED allUsercrons
            /\ \E empty \in AllAssociations' : empty.Usercrons = {}
                 /\ (AllAssociations' = AllAssociations \cup {empty}
                      \/ AllAssociations' \cup {Association({}, mapOfEnVars)}
                           = AllAssociations \cup {empty})
         \/ /\ AddCommand
            /\ AllAssociations = Closed \cup {Association(usercrons, mapOfEnVars)}
            /\ AllAssociations' = Closed \cup {Association(usercrons', mapOfEnVars)}
  <1> USE DEF ShapeInv
  <1>0. /\ Association(usercrons, mapOfEnVars) \in Associations
        /\ listOfAssociations \in Seq(Associations)
    BY DEF Association, Associations, TypeOK
  <1>1. ASSUME NEW outcome \in Outcomes, Open(outcome)
        PROVE  /\ \A assoc \in AllAssociations \cup AllAssociations' : assoc.Usercrons = {}
               /\ allUsercrons = {} /\ allUsercrons' = {}
               /\ UNCHANGED <<file, scanned>> /\ scanned = 0
    <2>1. /\ scanned = 0 /\ usercrons = {} /\ allUsercrons = {} /\ listOfAssociations = <<>>
          /\ UNCHANGED <<file, scanned, usercrons, allUsercrons, mapOfEnVars>>
          /\ stage = "open"
      BY <1>1 DEF Open, OpenShape
    <2>2. AllAssociations = {}
      BY <2>1 DEF AllAssociations
    <2>3. listOfAssociations' \in {<<>>, <<Association({}, mapOfEnVars)>>}
      BY <1>1, <2>1 DEF Open
    <2>4. \A k \in DOMAIN listOfAssociations' : listOfAssociations'[k] = Association({}, mapOfEnVars)
      BY <2>3
    <2>5. AllAssociations' \subseteq {Association({}, mapOfEnVars)}
      BY <2>1, <2>4 DEF AllAssociations
    <2>6. QED
      BY <2>1, <2>2, <2>5 DEF Association
  <1>2. CASE SkipLine
    BY <1>2 DEF SkipLine, Scan, built, AllAssociations
  <1>3. CASE Assign
    <2>1. stage = "scan" /\ stage' = "scan" /\ usercrons' = {} /\ UNCHANGED allUsercrons
      BY <1>3 DEF Assign, Scan, CloseAssociation, FlagMeansCommands
    <2> DEFINE empty == Association({}, mapOfEnVars')
    <2>2. empty \in AllAssociations' /\ empty.Usercrons = {}
      BY <2>1 DEF AllAssociations, Association
    <2>3. CASE isPreviousLineACommand
      <3>1. listOfAssociations' = Append(listOfAssociations, Association(usercrons, mapOfEnVars))
        BY <1>3, <2>3 DEF Assign, CloseAssociation
      <3>2. Closed' = Closed \cup {Association(usercrons, mapOfEnVars)}
        BY <1>0, <3>1, RangeOfAppend DEF Closed
      <3>3. AllAssociations' = AllAssociations \cup {empty}
        BY <2>1, <3>2 DEF AllAssociations, Closed
      <3>4. QED
        BY <1>3, <2>1, <2>2, <3>3
    <2>4. CASE ~isPreviousLineACommand
      <3>1. usercrons = {} /\ listOfAssociations' = listOfAssociations
        BY <1>3, <2>4 DEF Assign, CloseAssociation, FlagMeansCommands
      <3>2. AllAssociations' \cup {Association({}, mapOfEnVars)} = AllAssociations \cup {empty}
        BY <2>1, <3>1 DEF AllAssociations
      <3>3. QED
        BY <1>3, <2>1, <2>2, <3>2
    <2>5. QED
      BY <2>3, <2>4
  <1>4. CASE AddCommand
    BY <1>4 DEF AddCommand, Scan, AllAssociations, Closed
  <1>5. CASE Return
    <2>1. Closed' = Closed \cup {Association(usercrons, mapOfEnVars)}
      BY <1>0, <1>5, RangeOfAppend DEF Return, Closed
    <2>2. AllAssociations' = AllAssociations
      BY <1>5, <2>1 DEF Return, AllAssociations, Closed
    <2>3. QED
      BY <1>5, <2>2 DEF Return
  <1>6. CASE UNCHANGED vars
    BY <1>6 DEF vars, built, AllAssociations
  <1>7. QED
    BY <1>1, <1>2, <1>3, <1>4, <1>5, <1>6 DEF Next

\* Associations without commands neither ask for anything nor know a line.
Pairs(assocs) == UNION {{<<c.text, assoc.EnvVars>> : c \in assoc.Usercrons} : assoc \in assocs}
Known(assocs) == UNION {assoc.Usercrons : assoc \in assocs}

LEMMA EmptyAssociations ==
  ASSUME NEW S, NEW T, \A assoc \in T : assoc.Usercrons = {}
  PROVE  Pairs(S \cup T) = Pairs(S) /\ Known(S \cup T) = Known(S)
  BY DEF Pairs, Known

LEMMA OneMoreAssociation ==
  ASSUME NEW S, NEW x
  PROVE  /\ Pairs(S \cup {x}) = Pairs(S) \cup {<<c.text, x.EnvVars>> : c \in x.Usercrons}
         /\ Known(S \cup {x}) = Known(S) \cup x.Usercrons
  <1>1. Pairs(S \cup {x}) = Pairs(S) \cup {<<c.text, x.EnvVars>> : c \in x.Usercrons}
    BY DEF Pairs
  <1>2. Known(S \cup {x}) = Known(S) \cup x.Usercrons
    BY DEF Known
  <1>3. QED
    BY <1>1, <1>2

\* What is asked for and known changes with a command only, by that command.
LEMMA AskedStep ==
  ASSUME ShapeInv, [Next]_vars
  PROVE  IF AddCommand
         THEN LET text == file[scanned + 1].text
              IN  /\ Asked' = Asked \cup {<<text, mapOfEnVars>>}
                  /\ Known(AllAssociations)' =
                       Known(AllAssociations) \cup {Identifier(text, mapOfEnVars)}
         ELSE Asked' = Asked /\ Known(AllAssociations)' = Known(AllAssociations)
  <1>0. /\ Asked = Pairs(AllAssociations)
        /\ Asked' = Pairs(AllAssociations')
        /\ Known(AllAssociations)' = Known(AllAssociations')
    BY DEF Asked, Pairs, Known
  <1>1. ASSUME Assign \/ ~AddCommand
        PROVE  Asked' = Asked /\ Known(AllAssociations)' = Known(AllAssociations)
    <2>1. CASE AllAssociations' = AllAssociations
      BY <1>0, <2>1
    <2>2. CASE \A assoc \in AllAssociations \cup AllAssociations' : assoc.Usercrons = {}
      BY <1>0, <2>2 DEF Pairs, Known
    <2>3. ASSUME NEW empty \in AllAssociations', empty.Usercrons = {},
                 \/ AllAssociations' = AllAssociations \cup {empty}
                 \/ AllAssociations' \cup {Association({}, mapOfEnVars)} = AllAssociations \cup {empty}
          PROVE  Asked' = Asked /\ Known(AllAssociations)' = Known(AllAssociations)
      <3>1. /\ Pairs(AllAssociations \cup {empty}) = Pairs(AllAssociations)
            /\ Known(AllAssociations \cup {empty}) = Known(AllAssociations)
        BY <2>3, EmptyAssociations
      <3>2. \A assoc \in {Association({}, mapOfEnVars)} : assoc.Usercrons = {}
        BY DEF Association
      <3>3. /\ Pairs(AllAssociations' \cup {Association({}, mapOfEnVars)}) = Pairs(AllAssociations')
            /\ Known(AllAssociations' \cup {Association({}, mapOfEnVars)}) = Known(AllAssociations')
        BY <3>2, EmptyAssociations
      <3>4. QED
        BY <1>0, <2>3, <3>1, <3>3
    <2>4. ~(Assign /\ AddCommand)
      BY DEF Assign, AddCommand, Scan
    <2>5. QED
      BY <1>1, <2>1, <2>2, <2>3, <2>4, AssociationsStep
  <1>2. ASSUME AddCommand
        PROVE  LET text == file[scanned + 1].text
               IN  /\ Asked' = Asked \cup {<<text, mapOfEnVars>>}
                   /\ Known(AllAssociations)' =
                        Known(AllAssociations) \cup {Identifier(text, mapOfEnVars)}
    <2> DEFINE text == file[scanned + 1].text
    <2>1. /\ AllAssociations = Closed \cup {Association(usercrons, mapOfEnVars)}
          /\ AllAssociations' =
               Closed \cup {Association(usercrons \cup {Identifier(text, mapOfEnVars)}, mapOfEnVars)}
      BY <1>2 DEF AddCommand, Scan, AllAssociations, Closed
    <2>2. Identifier(text, mapOfEnVars).text = text
      BY DEF Identifier
    <2>3. ASSUME NEW crons
          PROVE  /\ Pairs(Closed \cup {Association(crons, mapOfEnVars)}) =
                      Pairs(Closed) \cup {<<c.text, mapOfEnVars>> : c \in crons}
                 /\ Known(Closed \cup {Association(crons, mapOfEnVars)}) = Known(Closed) \cup crons
      <3>1. /\ Association(crons, mapOfEnVars).EnvVars = mapOfEnVars
            /\ Association(crons, mapOfEnVars).Usercrons = crons
        BY DEF Association
      <3>2. QED
        BY <3>1, OneMoreAssociation
    <2>4. {<<c.text, mapOfEnVars>> : c \in usercrons \cup {Identifier(text, mapOfEnVars)}} =
            {<<c.text, mapOfEnVars>> : c \in usercrons} \cup {<<text, mapOfEnVars>>}
      BY <2>2
    <2>5. /\ Pairs(AllAssociations') = Pairs(AllAssociations) \cup {<<text, mapOfEnVars>>}
          /\ Known(AllAssociations') =
               Known(AllAssociations) \cup {Identifier(text, mapOfEnVars)}
      <3>1. /\ Pairs(AllAssociations) = Pairs(Closed) \cup {<<c.text, mapOfEnVars>> : c \in usercrons}
            /\ Known(AllAssociations) = Known(Closed) \cup usercrons
        BY <2>1, <2>3
      <3>2. /\ Pairs(AllAssociations') =
                 Pairs(Closed) \cup {<<c.text, mapOfEnVars>> :
                                       c \in usercrons \cup {Identifier(text, mapOfEnVars)}}
            /\ Known(AllAssociations') =
                 Known(Closed) \cup (usercrons \cup {Identifier(text, mapOfEnVars)})
        BY <2>1, <2>3
      <3>3. QED
        BY <2>4, <3>1, <3>2
    <2>6. QED
      BY <1>0, <2>5
  <1>3. QED
    BY <1>1, <1>2

\* One more line is one more demand when it is a command.
LEMMA WrittenStep ==
  ASSUME TypeOK, scanned < Len(file)
  PROVE  Written(scanned + 1) =
           IF file[scanned + 1].kind = "command"
           THEN Written(scanned) \cup {<<file[scanned + 1].text, EnvAfter(scanned + 1)>>}
           ELSE Written(scanned)
  <1>1. scanned \in Nat /\ Len(file) \in Nat
    BY FilesAssumption DEF TypeOK
  <1>2. {l \in 1 .. scanned + 1 : file[l].kind = "command"} =
          {l \in 1 .. scanned : file[l].kind = "command"}
            \cup (IF file[scanned + 1].kind = "command" THEN {scanned + 1} ELSE {})
    BY <1>1
  <1>3. QED
    BY <1>2 DEF Written

LEMMA WrittenUnchanged ==
  ASSUME file' = file
  PROVE  \A n \in Nat : Written(n)' = Written(n)
  BY DEF Written, EnvAfter, Assigning

LEMMA EnvironmentStep ==
  ASSUME ShapeInv, CommandsKeepTheirEnvironment, [Next]_vars
  PROVE  CommandsKeepTheirEnvironment'
  <1> USE DEF CommandsKeepTheirEnvironment
  <1>1. file' = file /\ scanned \in Nat
    BY DEF ShapeInv, TypeOK, Next, Open, SkipLine, Assign, AddCommand, Return, Scan, vars
  <1>2. ASSUME NEW kind, Scan(kind)
        PROVE  /\ scanned' = scanned + 1 /\ scanned < Len(file)
               /\ kind = file[scanned + 1].kind /\ stage = "scan"
               /\ Written(scanned)' = Written(scanned + 1)
    BY <1>1, <1>2, WrittenUnchanged DEF Scan
  <1>3. CASE AddCommand
    <2>1. /\ Written(scanned)' =
               Written(scanned) \cup {<<file[scanned + 1].text, EnvAfter(scanned + 1)>>}
          /\ EnvAfter(scanned + 1) = EnvAfter(scanned)
      BY <1>2, <1>3, WrittenStep, EnvAfterStep DEF AddCommand, ShapeInv
    <2>2. EnvAfter(scanned) = mapOfEnVars
      BY <1>2, <1>3 DEF AddCommand, ShapeInv, EnvIsCurrent
    <2>3. QED
      BY <1>3, <2>1, <2>2, AskedStep
  <1>4. CASE SkipLine \/ Assign
    <2>1. Written(scanned)' = Written(scanned)
      BY <1>2, <1>4, WrittenStep DEF SkipLine, Assign, ShapeInv
    <2>2. ~AddCommand
      BY <1>4 DEF SkipLine, Assign, AddCommand, Scan
    <2>3. QED
      BY <2>1, <2>2, AskedStep
  <1>5. ASSUME scanned' = scanned
        PROVE  CommandsKeepTheirEnvironment'
    <2>1. Written(scanned)' = Written(scanned)
      BY <1>1, <1>5, WrittenUnchanged
    <2>2. ~AddCommand
      BY <1>1, <1>5 DEF AddCommand, Scan
    <2>3. QED
      BY <2>1, <2>2, AskedStep
  <1>6. QED
    BY <1>3, <1>4, <1>5 DEF Next, Open, Return, vars

LEMMA IdentifierStep ==
  ASSUME ShapeInv, RecomputedIdentifier, [Next]_vars
  PROVE  RecomputedIdentifier'
  <1> DEFINE Fits(assoc) == \A c \in assoc.Usercrons : c = Identifier(c.text, assoc.EnvVars)
  <1>1. \A assoc \in AllAssociations : Fits(assoc)
    BY DEF RecomputedIdentifier
  <1>2. SUFFICES \A assoc \in AllAssociations' : Fits(assoc)
    BY DEF RecomputedIdentifier
  <1>3. CASE AllAssociations' = AllAssociations
    BY <1>1, <1>3
  <1>4. CASE \A assoc \in AllAssociations \cup AllAssociations' : assoc.Usercrons = {}
    BY <1>4
  <1>5. ASSUME NEW empty \in AllAssociations', empty.Usercrons = {},
               \/ AllAssociations' = AllAssociations \cup {empty}
               \/ AllAssociations' \cup {Association({}, mapOfEnVars)} = AllAssociations \cup {empty}
        PROVE  \A assoc \in AllAssociations' : Fits(assoc)
    <2>1. AllAssociations' \subseteq AllAssociations \cup {empty}
      BY <1>5
    <2>2. Fits(empty)
      BY <1>5
    <2>3. QED
      BY <1>1, <2>1, <2>2
  <1>6. ASSUME AddCommand,
               AllAssociations = Closed \cup {Association(usercrons, mapOfEnVars)},
               AllAssociations' = Closed \cup {Association(usercrons', mapOfEnVars)}
        PROVE  \A assoc \in AllAssociations' : Fits(assoc)
    <2>1. \A c \in usercrons : c = Identifier(c.text, mapOfEnVars)
      <3>1. Fits(Association(usercrons, mapOfEnVars))
        BY <1>1, <1>6
      <3>2. /\ Association(usercrons, mapOfEnVars).EnvVars = mapOfEnVars
            /\ Association(usercrons, mapOfEnVars).Usercrons = usercrons
        BY DEF Association
      <3>3. QED
        BY <3>1, <3>2
    <2>2. \A c \in usercrons' : c = Identifier(c.text, mapOfEnVars)
      <3>1. usercrons' = usercrons \cup {Identifier(file[scanned + 1].text, mapOfEnVars)}
        BY <1>6 DEF AddCommand
      <3>2. Identifier(file[scanned + 1].text, mapOfEnVars).text = file[scanned + 1].text
        BY DEF Identifier
      <3>3. QED
        BY <2>1, <3>1, <3>2
    <2>3. Fits(Association(usercrons', mapOfEnVars))
      BY <2>2 DEF Association
    <2>4. QED
      BY <1>1, <1>6, <2>3
  <1>7. QED
    BY <1>3, <1>4, <1>5, <1>6, AssociationsStep

LEMMA ResultsStep ==
  ASSUME ShapeInv, ResultsAgree, [Next]_vars
  PROVE  ResultsAgree'
  <1>1. /\ ResultsAgree <=> allUsercrons = Known(AllAssociations)
        /\ ResultsAgree' <=> allUsercrons' = Known(AllAssociations)'
    BY DEF ResultsAgree, Known
  <1>2. CASE AddCommand
    BY <1>1, <1>2, AskedStep DEF AddCommand
  <1>3. CASE ~AddCommand
    <2>1. allUsercrons' = allUsercrons
      BY <1>3 DEF Next, Open, SkipLine, Assign, Return, vars, built
    <2>2. QED
      BY <1>1, <1>3, <2>1, AskedStep
  <1>4. QED
    BY <1>2, <1>3

LEMMA ParserInvariant == Spec => []ParserInv
  <1>1. ASSUME Init
        PROVE  ParserInv
    <2>1. EnvAfter(0) = NoEnv /\ Written(0) = {}
      BY DEF EnvAfter, Assigning, NoEnv, Written
    <2>2. TypeOK
      <3>1. file \in Seq(Line)
        BY <1>1, FilesAssumption DEF Init
      <3>2. Len(file) \in Nat
        BY <3>1
      <3>3. scanned \in 0 .. Len(file)
        BY <1>1, <3>2 DEF Init
      <3>4. listOfAssociations \in Seq(Associations)
        BY <1>1 DEF Init
      <3>5. isPreviousLineACommand \in BOOLEAN /\ mapOfEnVars \in Env
        BY <1>1, NoEnvType DEF Init
      <3>6. QED
        BY <1>1, <3>3, <3>4, <3>5 DEF Init, TypeOK
    <2>3. AllAssociations = {}
      BY <1>1 DEF Init, AllAssociations
    <2>4. QED
      BY <1>1, <2>1, <2>2, <2>3
      DEF Init, ParserInv, ShapeInv, FlagMeansCommands, EnvIsCurrent, OpenShape,
          CommandsKeepTheirEnvironment, Asked, RecomputedIdentifier, ResultsAgree
  <1>2. ParserInv /\ [Next]_vars => ParserInv'
    BY ShapeStep, EnvironmentStep, IdentifierStep, ResultsStep DEF ParserInv
  <1>3. QED
    BY <1>1, <1>2, PTL DEF Spec

\* Every command of every file runs under exactly the assignments above it.
THEOREM CommandsRunAsWritten == Spec => []CommandsKeepTheirEnvironment
  BY ParserInvariant, PTL DEF ParserInv

\* Whatever is read, and wherever the reading ends, every variable keeps its
\* type.
THEOREM ReaderTypeCorrect == Spec => []TypeOK
  BY ParserInvariant, PTL DEF ParserInv, ShapeInv

\* The annotation of a created job is the identifier the line was looked up by:
\* a line does not lose its job to the next comparison.
THEOREM IdentifiersAreStable == Spec => []RecomputedIdentifier
  BY ParserInvariant, PTL DEF ParserInv

\* The two results of GetFSEntryForUser hold the same lines.
THEOREM ResultsHoldTheSameLines == Spec => []ResultsAgree
  BY ParserInvariant, PTL DEF ParserInv
=============================================================================
