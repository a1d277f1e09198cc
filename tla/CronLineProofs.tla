---------------------------- MODULE CronLineProofs ----------------------------
(* Theorems about CronLine, for every value of its constants. *)
EXTENDS CronLine, SequenceTheorems, TLAPS

\* Every job is what createCronJob makes of the line, assignments and settings
\* it was made of, and its schedule is one the API server took.
JobsMade ==
  \A j \in jobs :
    /\ j.line \in Lines
    /\ Accepted(Schedule(j.line))
    /\ j = CronJob(j.line, j.of, j.under, j.image)

\* A reconciled file has no job of another identifier, and one of its own.
SettledShape ==
  settled =>
    /\ \A j \in jobs : j.id = Identifier(line, env, image)
    /\ Accepted(Schedule(line)) => jobs # {}

LineInv == line \in Lines /\ JobsMade /\ SettledShape

LEMMA MadeFields ==
  ASSUME NEW l, NEW e, NEW z, NEW i
  PROVE  /\ CronJob(l, e, z, i).line = l /\ CronJob(l, e, z, i).of = e
         /\ CronJob(l, e, z, i).under = z /\ CronJob(l, e, z, i).image = i
         /\ CronJob(l, e, z, i).id = Identifier(l, e, i)
         /\ CronJob(l, e, z, i).schedule = Schedule(l)
         /\ CronJob(l, e, z, i).env = mergeEnvVariables(e, Command(l))
         /\ CronJob(l, e, z, i).zone = SelectedTimezone(e, z)
  BY DEF CronJob

\* A line without a schedule in front is refused, so a panic is no loss.
LEMMA PanicsAreRefused ==
  ASSUME NEW l \in Lines, CreatePanics(l)
  PROVE  ~Accepted(Schedule(l))
  <1>1. ScheduleLength(l) = 0 /\ l.words \in Seq(Words)
    BY LineAssumption DEF CreatePanics
  <1>2. Len(Schedule(l).words) = 0
    BY <1>1 DEF Schedule
  <1>3. QED
    BY <1>2 DEF Accepted

LEMMA LineInvStep ==
  ASSUME LineInv, [Next]_vars
  PROVE  LineInv'
  <1>1. CASE Reconcile
    <2> DEFINE id == Identifier(line, env, image)
               kept == {j \in jobs : j.id = id}
               new == CronJob(line, env, timezone, image)
    <2>1. /\ jobs' = IF kept = {} /\ Accepted(Schedule(line)) THEN {new} ELSE kept
          /\ UNCHANGED <<line, env, timezone, image>>
      BY <1>1 DEF Reconcile
    <2>2. /\ new.line = line /\ new.of = env /\ new.under = timezone /\ new.image = image
          /\ new.id = id
      BY MadeFields
    <2>3. new = CronJob(new.line, new.of, new.under, new.image)
      BY <2>2
    <2> HIDE DEF new, id
    <2>4. JobsMade'
      <3>1. CASE kept = {} /\ Accepted(Schedule(line))
        BY <2>1, <2>2, <2>3, <3>1 DEF JobsMade, LineInv
      <3>2. CASE ~(kept = {} /\ Accepted(Schedule(line)))
        BY <2>1, <3>2 DEF JobsMade, LineInv
      <3>3. QED
        BY <3>1, <3>2
    <2>5. SettledShape'
      <3>1. Identifier(line, env, image)' = id
        BY <2>1 DEF id, Identifier, ConvertMapToString
      <3>2. \A j \in jobs' : j.id = id
        BY <2>1, <2>2
      <3>3. Accepted(Schedule(line)) => jobs' # {}
        BY <2>1
      <3>4. QED
        BY <2>1, <3>1, <3>2, <3>3 DEF SettledShape
    <2>6. QED
      BY <2>1, <2>4, <2>5 DEF LineInv
  <1>2. CASE \/ \E j \in jobs : Fire(j)
             \/ UNCHANGED vars
    <2>1. UNCHANGED <<line, env, timezone, image, jobs, settled>>
      BY <1>2 DEF Fire, vars
    <2>2. QED
      BY <2>1 DEF LineInv, JobsMade, SettledShape, Identifier, ConvertMapToString
  <1>3. CASE \/ \E e \in Envs : Edit(e)
             \/ \E z \in TimeZones, i \in Images : Deploy(z, i)
    <2>1. ~settled' /\ UNCHANGED <<line, jobs>>
      BY <1>3 DEF Edit, Deploy
    <2>2. QED
      BY <2>1 DEF LineInv, JobsMade, SettledShape
  <1>4. QED
    BY <1>1, <1>2, <1>3 DEF Next

LEMMA LineInvariant == Spec => []LineInv
  <1>1. Init => LineInv
    BY DEF Init, LineInv, JobsMade, SettledShape
  <1>2. LineInv /\ [Next]_vars => LineInv'
    BY LineInvStep
  <1>3. QED
    BY <1>1, <1>2, PTL DEF Spec

\* A reconciled line has only jobs with the image in use, the assignments of
\* the file and the zone they select, unless other assignments read the same.
THEOREM JobsStayCurrent == Spec => []JobsAreCurrent
  <1>1. LineInv => JobsAreCurrent
    <2>1. SUFFICES ASSUME LineInv, settled, NEW j \in jobs
                   PROVE  /\ j.image = image
                          /\ \/ Collides(j)
                             \/ /\ \A n \in DOMAIN env \ {POD_CMD, POD_USERNAME} :
                                     env[n] # <<>> => n \in DOMAIN j.env /\ j.env[n] = env[n]
                                /\ TZ \in DOMAIN env => j.zone = env[TZ]
                                /\ TZ \notin DOMAIN env =>
                                     j.zone = IF CRON_TZ \in DOMAIN env THEN env[CRON_TZ] ELSE j.under
      BY DEF JobsAreCurrent
    <2>2. j = CronJob(j.line, j.of, j.under, j.image)
      BY <2>1 DEF LineInv, JobsMade
    <2>3. /\ j.id = Identifier(j.line, j.of, j.image)
          /\ j.env = mergeEnvVariables(j.of, Command(j.line))
          /\ j.zone = SelectedTimezone(j.of, j.under)
      BY <2>2, MadeFields
    <2>4. j.image = image /\ ConvertMapToString(j.of) = ConvertMapToString(env)
      BY <2>1, <2>3 DEF LineInv, SettledShape, Identifier
    <2>5. CASE j.of # env
      BY <2>4, <2>5 DEF Collides
    <2>6. CASE j.of = env
      <3>1. ASSUME NEW n \in DOMAIN env \ {POD_CMD, POD_USERNAME}, env[n] # <<>>
            PROVE  n \in DOMAIN j.env /\ j.env[n] = env[n]
        BY <2>3, <2>6, <3>1 DEF mergeEnvVariables, Override, NonEmpty, ForTheWrapper
      <3>2. QED
        BY <2>3, <2>4, <2>6, <3>1 DEF SelectedTimezone
    <2>7. QED
      BY <2>5, <2>6
  <1>2. QED
    BY <1>1, LineInvariant, PTL

\* A reconciled line of five fields has its job, indented or not, and so has a
\* short line that starts with a macro and is not indented.
THEOREM LinesHaveJobs == Spec => []LinesAreServed
  <1>1. ASSUME LineInv, settled, Accepted(Schedule(line))
        PROVE  HasJob(line, Schedule(line).words)
    <2>1. PICK j \in jobs : j.id = Identifier(line, env, image)
      BY <1>1 DEF LineInv, SettledShape
    <2>2. j = CronJob(j.line, j.of, j.under, j.image)
      BY <1>1 DEF LineInv, JobsMade
    <2>3. j.id = Identifier(j.line, j.of, j.image) /\ j.schedule = Schedule(j.line)
      BY <2>2, MadeFields
    <2>4. j.line = line
      BY <2>1, <2>3 DEF Identifier
    <2>5. QED
      BY <2>3, <2>4 DEF HasJob
  <1>2. ASSUME LineInv, settled, IsFieldLine(line)
        PROVE  HasJob(line, SubSeq(line.words, 1, 5))
    <2>1. line.words \in Seq(Words)
      BY <1>2, LineAssumption DEF LineInv
    <2>2. ScheduleLength(line) = 5
      BY <1>2, <2>1 DEF IsFieldLine, ScheduleLength, Complete
    <2>3. Schedule(line).words = SubSeq(line.words, 1, 5) /\ Len(line.words) > 5
      BY <1>2, <2>2 DEF Schedule, IsFieldLine
    <2>4. /\ Len(Schedule(line).words) = 5
          /\ \A k \in 1 .. 5 : Schedule(line).words[k] = line.words[k]
      BY <2>1, <2>3
    <2>5. Accepted(Schedule(line))
      BY <1>2, <2>4 DEF Accepted, IsFieldLine
    <2>6. QED
      BY <1>1, <1>2, <2>3, <2>5
  <1>3. ASSUME LineInv, settled, IsMacroLine(line), ~Indented(line), Complete(line) < 5
        PROVE  HasJob(line, <<line.words[1]>>)
    <2>1. line.words \in Seq(Words) /\ Len(line.words) > 1 /\ line.words[1] \in Macros
      BY <1>3, LineAssumption DEF LineInv, IsMacroLine
    <2>2. ScheduleLength(line) = 1
      <3>1. Complete(line) \in Int
        BY <2>1 DEF Complete
      <3>2. QED
        BY <1>3, <2>1, <3>1 DEF ScheduleLength
    <2>3. Schedule(line).words = <<line.words[1]>>
      <3>1. Schedule(line).words = SubSeq(line.words, 1, 1)
        BY <2>2 DEF Schedule
      <3>2. SubSeq(line.words, 1, 1) \in Seq(Words) /\ Len(SubSeq(line.words, 1, 1)) = 1
            /\ SubSeq(line.words, 1, 1)[1] = line.words[1]
        BY <2>1
      <3>3. /\ <<line.words[1]>> \in Seq(Words) /\ Len(<<line.words[1]>>) = 1
            /\ <<line.words[1]>>[1] = line.words[1]
        <4>1. line.words[1] \in Words
          BY <2>1
        <4>2. QED
          BY <4>1
      <3>4. SubSeq(line.words, 1, 1) = <<line.words[1]>>
        <4>1. \A k \in 1 .. 1 : SubSeq(line.words, 1, 1)[k] = <<line.words[1]>>[k]
          BY <3>2, <3>3
        <4>2. QED
          BY <3>2, <3>3, <4>1, SeqEqual, Zenon
      <3>5. QED
        BY <3>1, <3>4
    <2>4. Schedule(line).blanks[1] = 0
      <3>1. line.blanks \in Seq(Nat) /\ Len(line.blanks) = Len(line.words)
        BY <1>3, LineAssumption DEF LineInv
      <3>2. line.blanks[1] = 0
        BY <1>3, <2>1, <3>1 DEF Indented
      <3>3. Schedule(line).blanks = SubSeq(line.blanks, 1, 1)
        BY <2>2 DEF Schedule
      <3>4. QED
        BY <2>1, <3>1, <3>2, <3>3
    <2>5. Accepted(Schedule(line))
      BY <2>1, <2>3, <2>4 DEF Accepted
    <2>6. QED
      BY <1>1, <1>3, <2>3, <2>5
  <1>4. LineInv => LinesAreServed
    BY <1>2, <1>3 DEF LinesAreServed
  <1>5. QED
    BY <1>4, LineInvariant, PTL

\* What is left of a line behind its schedule is what crontab(5) calls the
\* command, unless it holds the schedule again.
LEMMA CommandIsKept ==
  ASSUME NEW l \in Lines, Accepted(Schedule(l)), ~HoldsItsSchedule(l)
  PROVE  Command(l) = CommandOf(l)
  <1> DEFINE n == ScheduleLength(l)
  <1>1. l.words \in Seq(Words) \ {<<>>}
    BY LineAssumption
  <1>2. Command(l) = SubSeq(l.words, n + 1, Len(l.words))
    BY DEF HoldsItsSchedule, Command
  <1>3. Complete(l) \in Int /\ Complete(l) <= Len(l.words)
    BY <1>1 DEF Complete
  <1>4. CASE n = 5
    <2>1. Len(l.words) >= 5
      BY <1>3, <1>4 DEF ScheduleLength
    <2>2. Len(Schedule(l).words) = 5 /\ Schedule(l).words[1] = l.words[1]
      BY <1>1, <1>4, <2>1 DEF Schedule
    <2>3. l.words[1] \in Fields
      BY <2>2 DEF Accepted
    <2>4. ~IsMacroLine(l)
      BY <2>3, LineAssumption DEF IsMacroLine
    <2>5. QED
      BY <1>2, <1>4, <2>4 DEF CommandOf
  <1>5. CASE n = 1
    <2>1. l.words[1] \in Macros /\ Complete(l) < 5
      BY <1>3, <1>5 DEF ScheduleLength
    <2>2. CASE Len(l.words) > 1
      <3>1. SubSeq(l.words, 2, Len(l.words)) = Tail(l.words)
        BY <1>1
      <3>2. QED
        BY <1>2, <1>5, <2>1, <2>2, <3>1 DEF CommandOf, IsMacroLine
    <2>3. CASE Len(l.words) = 1
      <3>1. SubSeq(l.words, 2, 1) = <<>> /\ SubSeq(l.words, 6, 1) = <<>>
        BY <1>1
      <3>2. QED
        BY <1>2, <1>5, <2>3, <3>1 DEF CommandOf, IsMacroLine
    <2>4. Len(l.words) > 1 \/ Len(l.words) = 1
      <3>1. Len(l.words) \in Nat \ {0}
        BY <1>1, EmptySeq
      <3>2. \A k \in Nat \ {0} : k > 1 \/ k = 1
        OBVIOUS
      <3>3. QED
        BY <3>1, <3>2, Zenon
    <2>5. QED
      BY <2>2, <2>3, <2>4
  <1>6. CASE n = 0
    <2>1. Len(Schedule(l).words) = 0
      BY <1>1, <1>6 DEF Schedule
    <2>2. QED
      BY <2>1 DEF Accepted
  <1>7. QED
    BY <1>4, <1>5, <1>6 DEF ScheduleLength

\* Whatever the file assigns and however often it and the operator's settings
\* change, a request carries the owner and the command of the job's line.
THEOREM RequestsAreTheOwners == Spec => []RequestsCarryTheLine
  <1>1. Init => RequestsCarryTheLine
    BY DEF Init, RequestsCarryTheLine
  <1>2. ASSUME LineInv, RequestsCarryTheLine, [Next]_vars
        PROVE  RequestsCarryTheLine'
    <2>1. ASSUME NEW j \in jobs, Fire(j)
          PROVE  RequestsCarryTheLine'
      <3>1. /\ j.line \in Lines /\ Accepted(Schedule(j.line))
            /\ j = CronJob(j.line, j.of, j.under, j.image)
        BY <1>2 DEF LineInv, JobsMade
      <3>2. j.env = mergeEnvVariables(j.of, Command(j.line))
        BY <3>1, MadeFields
      <3>3. j.env[POD_USERNAME] = Owner /\ j.env[POD_CMD] = Command(j.line)
        BY <3>2, LineAssumption DEF mergeEnvVariables, Override, ForTheWrapper
      <3>4. /\ request'.username = Owner
            /\ request'.command = delimitCommand(Command(j.line))
            /\ request'.line = j.line
        BY <2>1, <3>3 DEF Fire
      <3>5. QED
        BY <3>1, <3>4, CommandIsKept DEF RequestsCarryTheLine
    <2>2. CASE UNCHANGED request
      BY <1>2, <2>2 DEF RequestsCarryTheLine
    <2>3. QED
      BY <1>2, <2>1, <2>2 DEF Next, Reconcile, Edit, Deploy, vars
  <1>3. QED
    BY <1>1, <1>2, LineInvariant, PTL DEF Spec
=============================================================================
