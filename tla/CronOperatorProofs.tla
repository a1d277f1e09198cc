-------------------------- MODULE CronOperatorProofs --------------------------
(* Theorems about CronOperator and their proofs. *)
EXTENDS CronOperator, FileWatcherProofs

WriteOf(d) == [op |-> "Write", path |-> d]

\* The list that tells what this cycle will do.
\* While it is being read, what has no info yet counts with its old one.
Found ==
  CASE poller = "walk" -> [p \in Paths |-> IF fileList[p] # Absent THEN fileList[p] ELSE files[p]]
    [] poller \in {"select", "forward", "save"} -> fileList
    [] OTHER -> files

\* The clock is ahead of all that was ever written or listed.
ClockIsAhead ==
  \A p \in Paths, list \in {disk, files, fileList} :
    list[p] # Absent => list[p].mtime < clock

\* The walk makes each of its calls once: what is listed is not read again, and
\* its directory was listed and read before.
ReadOnce ==
  poller = "walk" =>
    /\ \A p \in Paths : fileList[p] # Absent => <<"lstat", p>> \notin todo
    /\ \A p \in Paths : <<"names", p>> \in todo => fileList[p] # Absent
    /\ \A p \in Paths \ {Root} :
         fileList[p] # Absent \/ <<"lstat", p>> \in todo =>
           fileList[Parent[p]] # Absent /\ <<"names", Parent[p]>> \notin todo

\* A directory that was found without its crontab has changed since, if there
\* is one now.
ChangedSinceEmpty(d) ==
  /\ poller \in {"walk", "select", "forward", "save"}
  /\ poller = "walk" => <<"names", d>> \notin todo /\ <<"lstat", Crontab[d]>> \notin todo
  /\ Exists(Crontab[d]) /\ fileList[Crontab[d]] = Absent /\ fileList[d] # Absent
  => disk[d].mtime # fileList[d].mtime

FoundEmpty == \A d \in Users : ChangedSinceEmpty(d)

\* A Write event of a directory is being found, sent or handled.
WriteComes(d) ==
  \/ poller = "walk" /\ fileList[d] # Absent /\ files[d].mtime # fileList[d].mtime
  \/ poller = "select" /\ diff = "spawned" /\ files[d].mtime # fileList[d].mtime
  \/ WriteOf(d) \in pending
  \/ poller = "forward" /\ event = WriteOf(d)
  \/ consumer = "busy" /\ current = WriteOf(d)

\* Jobs from before a restart whose crontab has gone.
Orphaned(d) == d \in notes /\ Version(d) = Absent

\* What will bring the jobs of a listed user up to date, or end the process.
Due(d) ==
  \/ poller = "fail"
  \/ poller = "unstarted" /\ Crontab[d] \in toRead
  \/ Orphaned(d)
  \/ Found[d] = Absent
  \/ ~Exists(d) \/ disk[d].mtime # Found[d].mtime
  \/ WriteComes(d)

Served(d) ==
  ~Follows(d) => IF files[d] = Absent THEN Orphaned(d) ELSE Due(d)

UsersServed == life = "up" => \A d \in Users \ unnoticed : Served(d)

OperatorInv ==
  ShapeInv /\ OperatorTypeOK /\ ClockIsAhead /\ ReadOnce /\ FoundEmpty /\ UsersServed

-----------------------------------------------------------------------------
(* The watcher inside of the process *)

\* The process ends before the watcher is started.
Panic == \E p \in toRead : ReconcileStray(p)

LEMMA PanicStep ==
  ASSUME Panic
  PROVE  /\ life = "up" /\ life' = "exited" /\ poller = "unstarted"
         /\ UNCHANGED <<fsVars, mu, fieldVars, poller, pollVars, diffVars, endVars, historyVars>>
         /\ UNCHANGED <<processVars, jobVars>>
  BY DEF Panic, ReconcileStray

\* A step of the operator is one of the watcher, or the start or the panic of
\* its process.
LEMMA OperatorSteps ==
  ASSUME [OperatorNext]_operatorVars
  PROVE  (\E listed : Process(listed)) \/ Panic \/ [Next]_vars
  <1>1. CASE Restart
    BY <1>1 DEF Restart
  <1>2. CASE (\E p \in toRead : ReconcileFile(p)) \/ (\E d \in notes : CreateFunc(d))
             \/ UNCHANGED operatorVars
    BY <1>2 DEF ReconcileFile, CreateFunc, operatorVars
  <1>3. CASE StartPolling \/ PollerGoes \/ DiffGoes \/ Handle
    BY <1>3
    DEF StartPolling, PollerGoes, Receive, EndCycle, Exit, PollerStep, DiffGoes, Handle, Next, Poller
  <1>4. CASE (\E p \in Paths : WriteCrontab(p)) \/ UserStep
    BY <1>4 DEF WriteCrontab, UserStep, Next, FileSystem
  <1>5. QED
    BY <1>1, <1>2, <1>3, <1>4 DEF OperatorNext, Panic

LEMMA PanicShape ==
  ASSUME ShapeInv, Panic
  PROVE  ShapeInv'
  <1>1. TypeOK'
    BY PanicStep
    DEF ShapeInv, TypeOK, fsVars, fieldVars, pollVars, diffVars, endVars, historyVars
  <1>2. Tree' /\ PendingIsCurrent'
    BY PanicStep, TreeUnchanged, ChangesUnchanged
    DEF ShapeInv, PendingIsCurrent, fsVars, fieldVars, pollVars, diffVars
  <1>3. MutexShape' /\ DiffShape' /\ EventShape'
    BY PanicStep DEF ShapeInv, MutexShape, DiffShape, EventShape, pollVars, diffVars, endVars
  <1>4. QED
    BY <1>1, <1>2, <1>3 DEF ShapeInv

LEMMA ProcessShape ==
  ASSUME ShapeInv, NEW listed, Process(listed)
  PROVE  ShapeInv'
  <1>1. TypeOK'
    <2>1. NoEvent \in Event
      BY WatcherAssumption DEF NoEvent, Event
    <2>2. 0 \in 0 .. MaxStarts /\ [p \in Paths |-> 0] \in [Paths -> 0 .. MaxTime]
      BY WatcherAssumption
    <2>3. disk' \in Listing /\ clock' \in 1 .. MaxTime /\ files' \in Listing
      BY DEF ShapeInv, TypeOK, Process, fsVars
    <2>4. QED
      BY <2>1, <2>2, <2>3, NothingType DEF Process, TypeOK
  <1>2. Tree'
    BY TreeUnchanged DEF ShapeInv, Process, fsVars
  <1>3. MutexShape' /\ DiffShape' /\ EventShape' /\ PendingIsCurrent'
    BY DEF Process, MutexShape, DiffShape, EventShape, PendingIsCurrent
  <1>4. QED
    BY <1>1, <1>2, <1>3 DEF ShapeInv

LEMMA VersionType ==
  ASSUME TypeOK, NEW d \in Users
  PROVE  Version(d) \in (Inodes \X (0 .. MaxTime)) \cup {Absent}
  <1>1. Crontab[d] \in Paths
    BY OperatorAssumption
  <1>2. CASE Exists(Crontab[d])
    <2>1. disk[Crontab[d]] \in Info
      BY <1>1, <1>2, InfoType DEF TypeOK, Exists
    <2>2. QED
      BY <1>2, <2>1 DEF Version, Info
  <1>3. CASE ~Exists(Crontab[d])
    BY <1>3 DEF Version
  <1>4. QED
    BY <1>2, <1>3

LEMMA ReconcileType ==
  ASSUME OperatorTypeOK, NEW d \in Users, Reconcile(d)
  PROVE  /\ jobs' \in [Users -> (Inodes \X (0 .. MaxTime)) \cup {Absent}]
         /\ notes' \subseteq Users /\ unnoticed' \subseteq Users
  <1>1. Version(d) \in (Inodes \X (0 .. MaxTime)) \cup {Absent}
    BY VersionType DEF OperatorTypeOK
  <1>2. QED
    BY <1>1 DEF OperatorTypeOK, Reconcile

LEMMA OperatorTypeStep ==
  ASSUME ShapeInv, OperatorTypeOK, [OperatorNext]_operatorVars
  PROVE  ShapeInv' /\ OperatorTypeOK'
  <1> DEFINE JobTypes == /\ jobs' \in [Users -> (Inodes \X (0 .. MaxTime)) \cup {Absent}]
                         /\ notes' \subseteq Users /\ unnoticed' \subseteq Users
             ProcessTypes == toRead' \subseteq Paths \ Dirs /\ current' \in Event
  <1>0. ShapeInv'
    BY OperatorSteps, ProcessShape, PanicShape, ShapeStep
  <1> SUFFICES JobTypes /\ ProcessTypes
    BY <1>0 DEF OperatorTypeOK, ShapeInv
  <1>1. CASE Restart
    <2>1. NoEvent \in Event
      BY WatcherAssumption DEF NoEvent, Event
    <2>2. QED
      BY <1>1, <2>1 DEF Restart, Process, WatchedFiles, OperatorTypeOK
  <1>2. ASSUME NEW p \in toRead, ReconcileFile(p)
        PROVE  JobTypes /\ ProcessTypes
    <2>1. ProcessTypes
      BY <1>2 DEF ReconcileFile, OperatorTypeOK
    <2>2. CASE \E d \in Users : Crontab[d] = p
      <3>1. Parent[p] \in Users /\ Reconcile(Parent[p])
        BY <1>2, <2>2, OperatorAssumption DEF ReconcileFile
      <3>2. QED
        BY <2>1, <3>1, ReconcileType
    <2>3. CASE ~ \E d \in Users : Crontab[d] = p
      BY <1>2, <2>1, <2>3 DEF ReconcileFile, jobVars, OperatorTypeOK
    <2>4. QED
      BY <2>2, <2>3
  <1>3. CASE StartPolling \/ Exit \/ (PollerStep /\ UNCHANGED <<processVars, jobVars>>) \/ DiffGoes
             \/ Panic \/ UNCHANGED operatorVars
    BY <1>3, PanicStep DEF StartPolling, Exit, DiffGoes, processVars, jobVars, operatorVars, OperatorTypeOK
  <1>4. CASE Receive
    BY <1>4 DEF Receive, jobVars, OperatorTypeOK, TypeOK
  <1>5. CASE EndCycle
    BY <1>5 DEF EndCycle, processVars, OperatorTypeOK
  <1>6. CASE Handle
    <2>1. ProcessTypes
      BY <1>6 DEF Handle, processVars, OperatorTypeOK
    <2>2. CASE current.op = "Write" /\ current.path \in Users
      BY <1>6, <2>1, <2>2, ReconcileType DEF Handle
    <2>3. CASE ~(current.op = "Write" /\ current.path \in Users)
      BY <1>6, <2>1, <2>3 DEF Handle, jobVars, OperatorTypeOK
    <2>4. QED
      BY <2>2, <2>3
  <1>7. ASSUME NEW d \in notes, CreateFunc(d)
        PROVE  JobTypes /\ ProcessTypes
    BY <1>7 DEF CreateFunc, processVars, OperatorTypeOK
  <1>8. CASE (\E p \in Paths : WriteCrontab(p)) \/ UserStep
    BY <1>8 DEF WriteCrontab, UserStep, processVars, OperatorTypeOK
  <1>9. QED
    BY <1>1, <1>2, <1>3, <1>4, <1>5, <1>6, <1>7, <1>8 DEF OperatorNext, PollerGoes, Panic

LEMMA OperatorTypeStarts ==
  ASSUME OperatorInit
  PROVE  ShapeInv /\ OperatorTypeOK
  <1>1. ShapeInv
    BY InitShape DEF OperatorInit
  <1>2. NoEvent \in Event
    BY WatcherAssumption DEF NoEvent, Event
  <1>3. QED
    BY <1>1, <1>2 DEF OperatorInit, WatchedFiles, OperatorTypeOK, ShapeInv

\* Every variable of the process keeps its type, with any users and tree, any
\* number of changes, exits and restarts.
THEOREM OperatorTypeCorrect == OperatorSpec => []OperatorTypeOK
  BY OperatorTypeStarts, OperatorTypeStep, PTL DEF OperatorSpec

-----------------------------------------------------------------------------
(* What the users do *)

\* Where a user of the file system leaves a trace: on the directory.
Traced(d) ==
  \/ disk'[d] = disk[d] /\ disk'[Crontab[d]] = disk[Crontab[d]]
  \/ disk'[d] = Absent
  \/ disk'[d].mtime = clock

\* All that is on the disk after a step was there before, or is new.
OldOrNew ==
  \A x \in Paths :
    disk'[x] # Absent =>
      disk'[x].mtime = clock \/ \E y \in Paths : disk[y] # Absent /\ disk'[x] = disk[y]

LEMMA NowIsNew ==
  ASSUME NEW info \in Info
  PROVE  Now(info).mtime = clock
  BY DEF Now, Info

\* What Relink does to the directories and to all other paths.
LEMMA RelinkTraces ==
  ASSUME TypeOK, NEW d \in Listing, NEW p \in Paths \ {Root}, NEW info,
         d[Parent[p]] # Absent
  PROVE  /\ Relink(d, p, info)[p] = info
         /\ Parent[p] # p => Relink(d, p, info)[Parent[p]].mtime = clock
         /\ \A q \in Paths : q # p /\ q # Parent[p] => Relink(d, p, info)[q] = d[q]
  <1>1. Parent[p] \in Paths /\ d[Parent[p]] \in Info
    BY InfoType, WatcherAssumption
  <1>2. Now(d[Parent[p]]).mtime = clock
    BY <1>1, NowIsNew
  <1>3. \A q \in Paths : Relink(d, p, info)[q] =
          IF q = p THEN info ELSE IF q = Parent[p] THEN Now(d[q]) ELSE d[q]
    BY DEF Relink
  <1>4. QED
    BY <1>1, <1>2, <1>3

LEMMA CrontabFacts ==
  ASSUME NEW d \in Users
  PROVE  /\ d \in Dirs /\ d \in Paths /\ d # Root
         /\ Crontab[d] \in Paths /\ Crontab[d] \notin Dirs /\ Crontab[d] # Root
         /\ Parent[Crontab[d]] = d
  BY OperatorAssumption, WatcherAssumption

LEMMA UserTraces ==
  ASSUME ShapeInv,
         (\E p \in Paths : Put(p) \/ Unlink(p)) \/ (\E p, q \in Paths : RenameTo(p, q))
  PROVE  OldOrNew /\ \A d \in Users : Traced(d)
  <1>0. TypeOK /\ Tree /\ disk \in Listing
    BY DEF ShapeInv, TypeOK
  <1>1. ASSUME NEW p \in Paths, Put(p)
        PROVE  OldOrNew /\ \A d \in Users : Traced(d)
    <2>1. /\ p \in Paths \ {Root} /\ disk[Parent[p]] # Absent
          /\ Parent[p] \in Dirs /\ Parent[p] # p
      BY <1>0, <1>1, WatcherAssumption DEF Put, Exists
    <2>2. PICK i : disk' = Relink(disk, p, [mtime |-> clock, inode |-> i, mode |-> "open"])
      BY <1>1 DEF Put
    <2>3. /\ disk'[p].mtime = clock /\ disk'[Parent[p]].mtime = clock
          /\ \A q \in Paths : q # p /\ q # Parent[p] => disk'[q] = disk[q]
      BY <1>0, <2>1, <2>2, RelinkTraces
    <2>4. OldOrNew
      BY <2>3 DEF OldOrNew
    <2>5. ASSUME NEW d \in Users
          PROVE  Traced(d)
      BY <2>1, <2>3, CrontabFacts DEF Traced
    <2>6. QED
      BY <2>4, <2>5
  <1>2. ASSUME NEW p \in Paths, Unlink(p)
        PROVE  OldOrNew /\ \A d \in Users : Traced(d)
    <2>1. CASE p = Root
      <3>1. \A q \in Paths : q # Root => disk'[q] = disk[q]
        BY <1>2, <2>1 DEF Unlink, Relink
      <3>2. disk'[Root] = Absent
        BY <1>2, <2>1 DEF Unlink, Relink
      <3>3. OldOrNew
        BY <3>1, <3>2 DEF OldOrNew
      <3>4. ASSUME NEW d \in Users
            PROVE  Traced(d)
        BY <3>1, CrontabFacts DEF Traced
      <3>5. QED
        BY <3>3, <3>4
    <2>2. CASE p # Root
      <3>1. /\ p \in Paths \ {Root} /\ disk[Parent[p]] # Absent
            /\ Parent[p] \in Dirs /\ Parent[p] # p
        BY <1>0, <1>2, <2>2, WatcherAssumption DEF Unlink, Tree, Exists
      <3>2. /\ disk'[p] = Absent /\ disk'[Parent[p]].mtime = clock
            /\ \A q \in Paths : q # p /\ q # Parent[p] => disk'[q] = disk[q]
        BY <1>0, <1>2, <3>1, RelinkTraces DEF Unlink
      <3>3. OldOrNew
        BY <3>2 DEF OldOrNew
      <3>4. ASSUME NEW d \in Users
            PROVE  Traced(d)
        BY <3>1, <3>2, CrontabFacts DEF Traced
      <3>5. QED
        BY <3>3, <3>4
    <2>3. QED
      BY <2>1, <2>2
  <1>3. ASSUME NEW p \in Paths, NEW q \in Paths, RenameTo(p, q)
        PROVE  OldOrNew /\ \A d \in Users : Traced(d)
    <2> DEFINE linked == Relink(disk, q, disk[p])
    <2>1. /\ p # q /\ p \notin Dirs /\ q \notin Dirs
          /\ p \in Paths \ {Root} /\ q \in Paths \ {Root}
          /\ Parent[p] \in Dirs /\ Parent[q] \in Dirs
          /\ disk[Parent[p]] # Absent /\ disk[Parent[q]] # Absent
          /\ disk[p] \in Info
      BY <1>0, <1>3, WatcherAssumption, InfoType DEF RenameTo, Tree, Exists
    <2>2. /\ linked \in Listing
          /\ \A x \in Paths \ {q} : linked[x] = Absent <=> disk[x] = Absent
      BY <1>0, <2>1, RelinkStep
    <2>3. /\ linked[q] = disk[p] /\ linked[Parent[q]].mtime = clock
          /\ \A x \in Paths : x # q /\ x # Parent[q] => linked[x] = disk[x]
      BY <1>0, <2>1, RelinkTraces
    <2>4. linked[Parent[p]] # Absent
      BY <2>1, <2>2, WatcherAssumption
    <2>5. disk' = Relink(linked, p, Absent)
      BY <1>3 DEF RenameTo
    <2> HIDE DEF linked
    <2>6. /\ disk'[p] = Absent /\ disk'[Parent[p]].mtime = clock
          /\ \A x \in Paths : x # p /\ x # Parent[p] => disk'[x] = linked[x]
      BY <1>0, <2>1, <2>2, <2>4, <2>5, RelinkTraces
    <2>7. OldOrNew
      BY <2>1, <2>3, <2>6, AbsentAssumption DEF OldOrNew
    <2>8. ASSUME NEW d \in Users
          PROVE  Traced(d)
      BY <2>1, <2>3, <2>6, CrontabFacts DEF Traced
    <2>9. QED
      BY <2>7, <2>8
  <1>4. QED
    BY <1>1, <1>2, <1>3

\* A write in place changes a time, and nothing of the directories.
LEMMA WriteTraces ==
  ASSUME ShapeInv, NEW p \in Paths, WriteInPlace(p)
  PROVE  /\ OldOrNew
         /\ \A x \in Paths : x # p => disk'[x] = disk[x]
         /\ disk'[p] # Absent /\ disk[p] # Absent /\ p \notin Dirs
  <1>1. disk \in Listing /\ disk[p] \in Info /\ TypeOK
    BY InfoType DEF ShapeInv, TypeOK, WriteInPlace, Exists
  <1>2. Now(disk[p]) # Absent /\ Now(disk[p]).mtime = clock
    BY <1>1, NowType, NowIsNew
  <1>3. /\ disk'[p] = Now(disk[p])
        /\ \A x \in Paths : x # p => disk'[x] = disk[x]
    BY <1>1 DEF WriteInPlace, Listing
  <1>4. QED
    BY <1>2, <1>3 DEF OldOrNew, WriteInPlace, Exists

-----------------------------------------------------------------------------
(* The clock and the lists *)

\* The clock stays ahead when every list is an old one and the users write
\* with the time it shows.
LEMMA ListsBehindClock ==
  ASSUME ShapeInv, ClockIsAhead, clock' = clock,
         \A p \in Paths : \A list \in {disk', files', fileList'} :
           list[p] # Absent => \E old \in {disk, files, fileList} : list[p] = old[p]
  PROVE  ClockIsAhead'
  BY DEF ClockIsAhead

\* A call of the walk adds at most an info of the disk to the list.
LEMMA WalkCallReads ==
  ASSUME TypeOK, WalkCall
  PROVE  \A p \in Paths : fileList'[p] \in {disk[p], fileList[p]}
  BY DEF TypeOK, Listing, WalkCall, Lstat, ReadDirNames, Vanished

LEMMA UsersBehindClock ==
  ASSUME ShapeInv, ClockIsAhead, clock' = clock + 1, OldOrNew,
         UNCHANGED <<files, fileList>>
  PROVE  ClockIsAhead'
  <1>1. clock \in Nat /\ {disk, files, fileList} \subseteq Listing
    BY DEF ShapeInv, TypeOK
  <1>2. ASSUME NEW list \in {disk, files, fileList}, NEW p \in Paths, list[p] # Absent
        PROVE  list[p].mtime < clock + 1
    <2>1. list[p].mtime \in Nat
      BY <1>1, <1>2, InfoType DEF Info
    <2>2. list[p].mtime < clock
      BY <1>2 DEF ClockIsAhead
    <2>3. QED
      BY <1>1, <2>1, <2>2
  <1>3. ASSUME NEW p \in Paths, disk'[p] # Absent
        PROVE  disk'[p].mtime < clock + 1
    BY <1>1, <1>2, <1>3 DEF OldOrNew
  <1>4. QED
    BY <1>2, <1>3 DEF ClockIsAhead

LEMMA ClockStep ==
  ASSUME OperatorInv, [OperatorNext]_operatorVars
  PROVE  ClockIsAhead'
  <1>0. ShapeInv /\ ClockIsAhead
    BY DEF OperatorInv
  <1>1. CASE Restart
    <2>1. \A p \in Paths : Nothing[p] = Absent
      BY DEF Nothing
    <2>2. QED
      BY <1>0, <1>1, <2>1, ListsBehindClock DEF Restart, Process, fsVars
  <1>2. CASE (\E p \in Paths : WriteCrontab(p)) \/ UserStep
    <2>1. OldOrNew
      BY <1>0, <1>2, UserTraces, WriteTraces DEF WriteCrontab, UserStep
    <2>2. clock' = clock + 1 /\ UNCHANGED <<files, fileList>>
      BY <1>2 DEF WriteCrontab, UserStep, Put, Unlink, RenameTo, WriteInPlace, Tick, fieldVars, pollVars
    <2>3. QED
      BY <1>0, <2>1, <2>2, UsersBehindClock
  <1>3. CASE PollerStep /\ UNCHANGED <<processVars, jobVars>>
    <2>1. \A p \in Paths : Nothing[p] = Absent
      BY DEF Nothing
    <2>2. UNCHANGED <<disk, clock, files>>
      BY <1>3, WalkCallStep
      DEF PollerStep, Walk, WalkCall, WalkBegin, WalkEnd, CycleDone, Wake, fsVars, fieldVars
    <2>3. CASE WalkCall
      BY <1>0, <2>2, <2>3, WalkCallReads, ListsBehindClock DEF ShapeInv
    <2>4. CASE WalkBegin \/ WalkEnd \/ CycleDone \/ Wake
      <3>1. fileList' \in {Nothing, fileList}
        BY <2>4 DEF WalkBegin, WalkEnd, CycleDone, Wake, pollVars
      <3>2. QED
        BY <1>0, <2>1, <2>2, <3>1, ListsBehindClock
    <2>5. QED
      BY <1>3, <2>3, <2>4 DEF PollerStep, Walk, WalkCall
  <1>4. CASE EndCycle
    BY <1>0, <1>4, ListsBehindClock DEF EndCycle, Save, fsVars, pollVars
  <1>5. CASE Exit \/ Receive \/ DiffGoes \/ Handle \/ StartPolling
    <2>1. UNCHANGED <<disk, clock, files, fileList>>
      BY <1>5
      DEF Exit, SendError, Receive, Forward, DiffGoes, Diff, DiffBegin, DiffSend, DiffEnd,
          Handle, Handled, StartPolling, Start, fsVars, fieldVars, pollVars
    <2>2. QED
      BY <1>0, <2>1, ListsBehindClock
  <1>6. CASE (\E p \in toRead : ReconcileFile(p)) \/ (\E d \in notes : CreateFunc(d))
             \/ Panic \/ UNCHANGED operatorVars
    <2>1. UNCHANGED <<disk, clock, files, fileList>>
      BY <1>6, PanicStep DEF ReconcileFile, CreateFunc, operatorVars, vars, fsVars, fieldVars, pollVars
    <2>2. QED
      BY <1>0, <2>1, ListsBehindClock
  <1>7. QED
    BY <1>1, <1>2, <1>3, <1>4, <1>5, <1>6 DEF OperatorNext, PollerGoes, Panic

-----------------------------------------------------------------------------
(* What a walk reads *)

LEMMA ReadOnceStep ==
  ASSUME ShapeInv, ReadOnce, [OperatorNext]_operatorVars
  PROVE  ReadOnce'
  <1>1. ASSUME NEW p \in Paths, Lstat(p), poller' = "walk"
        PROVE  ReadOnce'
    <2>1. /\ fileList' = [fileList EXCEPT ![p] = disk[p]]
          /\ todo' = (todo \ {<<"lstat", p>>}) \cup (IF p \in Dirs THEN {<<"names", p>>} ELSE {})
          /\ <<"lstat", p>> \in todo /\ poller = "walk" /\ Exists(p)
      BY <1>1 DEF Lstat, Vanished, Call
    <2>2. fileList'[p] # Absent /\ \A q \in Paths : q # p => fileList'[q] = fileList[q]
      BY <2>1 DEF ShapeInv, TypeOK, Listing, Exists
    <2>3. /\ \A q \in Paths : <<"lstat", q>> \in todo' <=> <<"lstat", q>> \in todo /\ q # p
          /\ \A q \in Paths : <<"names", q>> \in todo' => <<"names", q>> \in todo \/ q = p
      BY <2>1
    <2>4. fileList[p] = Absent /\ \A q \in Paths \ {Root} : Parent[q] \in Paths
      BY <2>1, WatcherAssumption DEF ReadOnce
    <2>5. QED
      BY <2>1, <2>2, <2>3, <2>4 DEF ReadOnce
  <1>2. ASSUME NEW p \in Paths, ReadDirNames(p), poller' = "walk"
        PROVE  ReadOnce'
    <2>1. /\ fileList' = fileList
          /\ todo' = (todo \ {<<"names", p>>}) \cup {<<"lstat", q>> : q \in {c \in Children(p) : Exists(c)}}
          /\ <<"names", p>> \in todo /\ poller = "walk"
      BY <1>2 DEF ReadDirNames, Vanished, Call
    <2>2. /\ \A q \in Paths : <<"names", q>> \in todo' <=> <<"names", q>> \in todo /\ q # p
          /\ \A q \in Paths : <<"lstat", q>> \in todo' => <<"lstat", q>> \in todo \/ (q # Root /\ Parent[q] = p)
      BY <2>1 DEF Children
    <2>3. \A q \in Paths \ {Root} : Parent[q] \in Paths
      BY WatcherAssumption
    <2>4. QED
      BY <2>1, <2>2, <2>3 DEF ReadOnce
  <1>3. CASE WalkBegin
    <2>1. todo' \subseteq {<<"lstat", Root>>} /\ \A p \in Paths : fileList'[p] = Absent
      BY <1>3 DEF WalkBegin, Nothing
    <2>2. QED
      BY <2>1 DEF ReadOnce
  <1>4. CASE UNCHANGED <<poller, todo, fileList>>
    BY <1>4 DEF ReadOnce
  <1>5. CASE poller' # "walk"
    BY <1>5 DEF ReadOnce
  <1>6. Panic \/ UNCHANGED vars \/ Handled \/ FileSystem
          => UNCHANGED <<poller, todo, fileList>>
    BY PanicStep
    DEF vars, Handled, FileSystem, Put, WriteInPlace, Unlink, RenameTo, ChangeMode, Tick, pollVars
  <1>7. Start \/ Close \/ CloseReceived \/ WalkEnd \/ SendError \/ Forward \/ CycleDone \/ Save \/ Wake
          => poller' # "walk" \/ UNCHANGED <<poller, todo, fileList>>
    BY DEF Start, Close, CloseReceived, WalkEnd, SendError, Forward, CycleDone, Save, Wake, pollVars
  <1>8. Diff \/ (\E listed : Process(listed)) => poller' # "walk" \/ UNCHANGED <<poller, todo, fileList>>
    BY DEF Diff, DiffBegin, DiffSend, DiffEnd, Process, pollVars
  <1>9. QED
    BY <1>1, <1>2, <1>3, <1>4, <1>5, <1>6, <1>7, <1>8, OperatorSteps DEF Next, Poller, Walk

-----------------------------------------------------------------------------
(* Directories found without their crontab *)

LEMMA FoundBehindClock ==
  ASSUME ClockIsAhead, NEW p \in Paths, Found[p] # Absent
  PROVE  Found[p].mtime < clock
  BY DEF ClockIsAhead, Found

LEMMA CrontabHasDirectory ==
  ASSUME Tree, NEW d \in Users, Exists(Crontab[d])
  PROVE  Exists(d)
  BY CrontabFacts DEF Tree

\* The users do not write what is found, and write the directories.
LEMMA UsersChange ==
  ASSUME OperatorInv, ShapeInv', NEW d \in Users,
         (\E p \in Paths : WriteCrontab(p)) \/ UserStep
  PROVE  /\ Found' = Found /\ clock \in Nat
         /\ UNCHANGED <<life, files, poller, pollVars, diffVars, consumer, processVars, jobs, notes>>
         /\ \/ disk'[d] = disk[d] /\ Exists(Crontab[d])' = Exists(Crontab[d])
            \/ ~Exists(d)'
            \/ disk'[d].mtime = clock
  <1>0. ShapeInv /\ clock \in Nat
    BY DEF OperatorInv, ShapeInv, TypeOK
  <1>1. UNCHANGED <<life, files, poller, pollVars, diffVars, consumer, processVars, jobs, notes>>
    BY DEF WriteCrontab, UserStep, Put, Unlink, RenameTo, WriteInPlace, Tick, fieldVars, endVars
  <1>2. Found' = Found
    BY <1>1 DEF Found, pollVars
  <1>3. ASSUME NEW p \in Paths, WriteCrontab(p)
        PROVE  disk'[d] = disk[d] /\ Exists(Crontab[d])' = Exists(Crontab[d])
    BY <1>0, <1>3, WriteTraces, CrontabFacts DEF WriteCrontab, Exists
  <1>4. CASE UserStep
    BY <1>0, <1>1, <1>2, <1>4, UserTraces DEF UserStep, Traced, Exists
  <1>5. QED
    BY <1>0, <1>1, <1>2, <1>3, <1>4

\* A crontab that is there is listed, or still has to be, once the names in
\* its directory have been read.
CallKeepsEmpty(d) ==
  LET unread(calls) == <<"names", d>> \in calls \/ <<"lstat", Crontab[d]>> \in calls
  IN  \/ unread(todo')
      \/ fileList'[Crontab[d]] # Absent
      \/ ~Exists(Crontab[d])
      \/ ~unread(todo) /\ fileList[Crontab[d]] = Absent /\ fileList'[d] = fileList[d]

LEMMA CallOfEmpty ==
  ASSUME TypeOK, WalkCall, poller' = "walk", NEW d \in Users
  PROVE  CallKeepsEmpty(d)
  <1>1. ASSUME NEW p \in Paths, Lstat(p)
        PROVE  CallKeepsEmpty(d)
    <2>1. /\ Exists(p) /\ fileList' = [fileList EXCEPT ![p] = disk[p]]
          /\ todo' = (todo \ {<<"lstat", p>>}) \cup (IF p \in Dirs THEN {<<"names", p>>} ELSE {})
      BY <1>1 DEF Lstat, Vanished
    <2>2. fileList'[p] # Absent /\ \A q \in Paths : q # p => fileList'[q] = fileList[q]
      BY <2>1 DEF TypeOK, Listing, Exists
    <2>3. CASE p = d
      BY <2>1, <2>3, CrontabFacts DEF CallKeepsEmpty
    <2>4. CASE p = Crontab[d]
      BY <2>2, <2>4 DEF CallKeepsEmpty
    <2>5. CASE p # d /\ p # Crontab[d]
      <3>1. /\ fileList'[d] = fileList[d] /\ fileList'[Crontab[d]] = fileList[Crontab[d]]
        BY <2>2, <2>5, CrontabFacts
      <3>2. /\ <<"names", d>> \in todo => <<"names", d>> \in todo'
            /\ <<"lstat", Crontab[d]>> \in todo => <<"lstat", Crontab[d]>> \in todo'
        BY <2>1, <2>5
      <3>3. QED
        BY <3>1, <3>2 DEF CallKeepsEmpty
    <2>6. QED
      BY <2>3, <2>4, <2>5
  <1>2. ASSUME NEW p \in Paths, ReadDirNames(p)
        PROVE  CallKeepsEmpty(d)
    <2>1. /\ fileList' = fileList
          /\ todo' = (todo \ {<<"names", p>>}) \cup {<<"lstat", q>> : q \in {c \in Children(p) : Exists(c)}}
      BY <1>2 DEF ReadDirNames, Vanished
    <2>2. CASE p = d
      <3>1. Crontab[d] \in Children(p)
        BY <2>2, CrontabFacts DEF Children
      <3>2. Exists(Crontab[d]) => <<"lstat", Crontab[d]>> \in todo'
        BY <2>1, <3>1
      <3>3. QED
        BY <3>2 DEF CallKeepsEmpty
    <2>3. CASE p # d
      <3>1. /\ <<"names", d>> \in todo => <<"names", d>> \in todo'
            /\ <<"lstat", Crontab[d]>> \in todo => <<"lstat", Crontab[d]>> \in todo'
        BY <2>1, <2>3
      <3>2. QED
        BY <2>1, <3>1 DEF CallKeepsEmpty
    <2>4. QED
      BY <2>2, <2>3
  <1>3. QED
    BY <1>1, <1>2 DEF WalkCall

LEMMA FoundEmptyStep ==
  ASSUME OperatorInv, ShapeInv', [OperatorNext]_operatorVars, NEW d \in Users
  PROVE  ChangedSinceEmpty(d)'
  <1>0. ShapeInv /\ ClockIsAhead /\ ChangedSinceEmpty(d)
    BY DEF OperatorInv, FoundEmpty
  <1>1. CASE Restart \/ EndCycle \/ Wake
    BY <1>1 DEF Restart, Process, EndCycle, Save, Wake, ChangedSinceEmpty
  <1>2. CASE (\E p \in Paths : WriteCrontab(p)) \/ UserStep
    <2>1. CASE disk'[d] = disk[d] /\ Exists(Crontab[d])' = Exists(Crontab[d])
      BY <1>0, <1>2, <2>1, UsersChange DEF ChangedSinceEmpty, pollVars
    <2>2. CASE ~Exists(d)'
      <3>1. ~Exists(Crontab[d])'
        BY <2>2, CrontabFacts DEF ShapeInv, Tree
      <3>2. QED
        BY <3>1 DEF ChangedSinceEmpty
    <2>3. CASE disk'[d].mtime = clock
      <3>1. fileList' = fileList /\ clock \in Nat
        BY <1>2, UsersChange DEF pollVars
      <3>2. fileList[d] # Absent => fileList[d].mtime < clock
        BY <1>0, CrontabFacts DEF ClockIsAhead
      <3>3. QED
        BY <2>3, <3>1, <3>2 DEF ChangedSinceEmpty
    <2>4. QED
      BY <1>2, <2>1, <2>2, <2>3, UsersChange
  <1>3. CASE WalkBegin
    BY <1>3, CrontabFacts DEF WalkBegin, Nothing, ChangedSinceEmpty
  <1>4. CASE WalkCall
    <2>1. disk' = disk /\ (poller' = "walk" => CallKeepsEmpty(d))
      BY <1>0, <1>4, WalkCallStep, CallOfEmpty DEF fsVars, ShapeInv
    <2>2. poller = "walk" /\ poller' \in {"walk", "fail"}
      BY <1>4, WalkCallStep
    <2>3. QED
      BY <1>0, <2>1, <2>2 DEF ChangedSinceEmpty, CallKeepsEmpty, Exists
  <1>5. CASE StartPolling
    <2>1. poller' = "list" \/ UNCHANGED <<disk, poller, files, todo, fileList>>
      BY <1>5 DEF StartPolling, Start, fsVars, pollVars
    <2>2. QED
      BY <1>0, <2>1 DEF ChangedSinceEmpty, Exists
  <1>6. CASE DiffGoes \/ Receive \/ CycleDone
    <2>1. /\ UNCHANGED <<disk, fileList>>
          /\ poller' = poller
              \/ (poller \in {"select", "forward"} /\ poller' \in {"select", "forward", "save"})
          /\ UNCHANGED <<files, todo>>
      BY <1>6
      DEF DiffGoes, Diff, DiffBegin, DiffSend, DiffEnd, Receive, Forward, CycleDone,
          fsVars, fieldVars, pollVars
    <2>2. QED
      BY <1>0, <2>1 DEF ChangedSinceEmpty, Exists
  <1>7. CASE Exit \/ Handle \/ (\E p \in toRead : ReconcileFile(p)) \/ (\E c \in notes : CreateFunc(c))
             \/ Panic \/ UNCHANGED operatorVars
    <2>1. UNCHANGED <<disk, poller, files, todo, fileList>>
      BY <1>7, PanicStep
      DEF Exit, SendError, Handle, Handled, ReconcileFile, CreateFunc, operatorVars,
          vars, fsVars, fieldVars, pollVars
    <2>2. QED
      BY <1>0, <2>1 DEF ChangedSinceEmpty, Exists
  <1>8. CASE WalkEnd
    BY <1>0, <1>8 DEF WalkEnd, ChangedSinceEmpty, Exists, fsVars
  <1>9. QED
    BY <1>1, <1>2, <1>3, <1>4, <1>5, <1>6, <1>7, <1>8
    DEF OperatorNext, PollerGoes, PollerStep, Walk, WalkCall, Panic

-----------------------------------------------------------------------------
(* Users are served *)

LEMMA RestartServes ==
  ASSUME OperatorInv, Restart, NEW d \in Users
  PROVE  Served(d)'
  <1>1. /\ UNCHANGED <<disk, jobs>>
        /\ poller' = "unstarted"
        /\ toRead' = {p \in Paths \ Dirs : disk[p] # Absent}
        /\ notes' = {c \in Users : jobs[c] # Absent}
    BY DEF Restart, Process, WatchedFiles, fsVars
  <1>2. CASE Exists(Crontab[d])
    <2>1. Crontab[d] \in toRead'
      BY <1>1, <1>2, CrontabFacts DEF Exists
    <2>2. files'[d] # Absent
      BY <1>2, CrontabHasDirectory DEF OperatorInv, ShapeInv, Restart, Process, Exists
    <2>3. QED
      BY <1>1, <2>1, <2>2 DEF Served, Due
  <1>3. CASE ~Exists(Crontab[d])
    <2>1. Version(d)' = Absent
      BY <1>1, <1>3 DEF Version, Exists
    <2>2. ~Follows(d)' => Orphaned(d)'
      BY <1>1, <2>1 DEF Follows, Orphaned
    <2>3. QED
      BY <2>2 DEF Served, Due
  <1>4. QED
    BY <1>2, <1>3

\* A reconciled user is served; others are as they were.
LEMMA ReconcileServes ==
  ASSUME OperatorInv, NEW c \in Users, Reconcile(c), NEW d \in Users, disk' = disk
  PROVE  /\ d = c => Follows(d)'
         /\ d # c => UNCHANGED <<jobs[d], Version(d), Follows(d)>>
                    /\ (Orphaned(d) => Orphaned(d)')
                    /\ (d \notin unnoticed' => d \notin unnoticed)
  <1>1. jobs' = [jobs EXCEPT ![c] = Version(c)] /\ jobs \in [Users -> (Inodes \X (0 .. MaxTime)) \cup {Absent}]
    BY DEF Reconcile, OperatorInv, OperatorTypeOK
  <1>2. Version(d)' = Version(d)
    BY DEF Version, Exists
  <1>3. notes \subseteq notes' /\ unnoticed' = unnoticed \ {c}
    BY DEF Reconcile
  <1>4. QED
    BY <1>1, <1>2, <1>3 DEF Follows, Orphaned

LEMMA ReconcileFileServes ==
  ASSUME OperatorInv, UsersServed, life = "up", NEW p \in toRead, ReconcileFile(p),
         NEW d \in Users \ unnoticed'
  PROVE  Served(d)'
  <1>1. /\ UNCHANGED <<disk, files, poller, fileList, event, diff, pending, consumer, current>>
        /\ poller = "unstarted" /\ toRead' = toRead \ {p}
    BY DEF ReconcileFile, vars, fsVars, fieldVars, pollVars, diffVars, endVars
  <1>2. CASE d \notin unnoticed /\ UNCHANGED <<Follows(d)>> /\ (Orphaned(d) => Orphaned(d)') /\ Crontab[d] # p
    <2>1. Served(d)
      BY <1>2 DEF UsersServed
    <2>2. Due(d) => Due(d)'
      BY <1>1, <1>2 DEF Due, WriteComes, Found, Exists, WriteOf
    <2>3. QED
      BY <1>1, <1>2, <2>1, <2>2 DEF Served
  <1>3. CASE \E c \in Users : Crontab[c] = p
    <2>1. Parent[p] \in Users /\ Reconcile(Parent[p])
      BY <1>3, CrontabFacts DEF ReconcileFile
    <2>2. CASE Parent[p] = d
      BY <1>1, <2>1, <2>2, ReconcileServes DEF Served
    <2>3. CASE Parent[p] # d
      BY <1>1, <1>2, <2>1, <2>3, ReconcileServes, CrontabFacts
    <2>4. QED
      BY <2>2, <2>3
  <1>4. CASE ~ \E c \in Users : Crontab[c] = p
    <2>1. UNCHANGED jobVars
      BY <1>4 DEF ReconcileFile
    <2>2. QED
      BY <1>1, <1>2, <1>4, <2>1 DEF jobVars, Follows, Orphaned, Version, Exists
  <1>5. QED
    BY <1>3, <1>4

LEMMA HandleServes ==
  ASSUME OperatorInv, UsersServed, life = "up", Handle, NEW d \in Users \ unnoticed'
  PROVE  Served(d)'
  <1>1. /\ UNCHANGED <<disk, files, poller, fileList, event, diff, pending, toRead, current>>
        /\ consumer = "busy"
    BY DEF Handle, Handled, fsVars, fieldVars, pollVars, diffVars, processVars
  <1>2. CASE d \notin unnoticed /\ UNCHANGED <<Follows(d)>> /\ (Orphaned(d) => Orphaned(d)') /\ current # WriteOf(d)
    <2>1. Served(d)
      BY <1>2 DEF UsersServed
    <2>2. Due(d) => Due(d)'
      BY <1>1, <1>2 DEF Due, WriteComes, Found, Exists, WriteOf
    <2>3. QED
      BY <1>1, <1>2, <2>1, <2>2 DEF Served
  <1>3. CASE current.op = "Write" /\ current.path \in Users
    <2>1. Reconcile(current.path)
      BY <1>3 DEF Handle
    <2>2. CASE current.path = d
      BY <1>1, <1>3, <2>1, <2>2, ReconcileServes DEF Served
    <2>3. CASE current.path # d
      BY <1>1, <1>2, <1>3, <2>1, <2>3, ReconcileServes DEF WriteOf
    <2>4. QED
      BY <2>2, <2>3
  <1>4. CASE ~(current.op = "Write" /\ current.path \in Users)
    <2>1. UNCHANGED jobVars
      BY <1>4 DEF Handle
    <2>2. current # WriteOf(d)
      BY <1>4 DEF WriteOf
    <2>3. QED
      BY <1>1, <1>2, <2>1, <2>2 DEF jobVars, Follows, Orphaned, Version, Exists
  <1>5. QED
    BY <1>3, <1>4

LEMMA CreateFuncServes ==
  ASSUME OperatorInv, UsersServed, life = "up", NEW c \in notes, CreateFunc(c),
         NEW d \in Users \ unnoticed'
  PROVE  Served(d)'
  <1>1. /\ UNCHANGED <<disk, files, poller, fileList, event, diff, pending, consumer, processVars>>
        /\ notes' = notes \ {c} /\ d \notin unnoticed
        /\ Version(d)' = Version(d)
        /\ jobs \in [Users -> (Inodes \X (0 .. MaxTime)) \cup {Absent}]
    BY DEF CreateFunc, vars, fsVars, fieldVars, pollVars, diffVars, endVars, Version, Exists,
       OperatorInv, OperatorTypeOK
  <1>2. Served(d)
    BY <1>1 DEF UsersServed
  <1>3. ASSUME ~Follows(d)'
        PROVE  ~Follows(d) /\ (Orphaned(d) => Orphaned(d)')
    <2>1. CASE d = c
      BY <1>1, <1>3, <2>1 DEF CreateFunc, Follows, Orphaned
    <2>2. CASE d # c
      BY <1>1, <1>3, <2>2 DEF CreateFunc, Follows, Orphaned
    <2>3. QED
      BY <2>1, <2>2
  <1>4. ~Follows(d)' /\ Due(d) => Due(d)'
    BY <1>1, <1>3 DEF Due, WriteComes, Found, Exists, WriteOf, processVars
  <1>5. QED
    BY <1>1, <1>2, <1>3, <1>4 DEF Served

\* The steps of a running process that leave the jobs alone.
LEMMA SameJobs ==
  ASSUME NEW d \in Users, UNCHANGED <<disk, jobVars>>
  PROVE  /\ UNCHANGED <<Follows(d), Orphaned(d), Exists(d), disk[d], unnoticed>>
  BY DEF Follows, Orphaned, Exists, Version, jobVars

\* A step that leaves jobs, disk and files alone has to keep what is due.
LEMMA DueServes ==
  ASSUME UsersServed, life = "up", NEW d \in Users \ unnoticed', UNCHANGED <<disk, files, jobVars>>,
         Due(d) /\ files[d] # Absent => Due(d)'
  PROVE  Served(d)'
  <1>1. Served(d)
    BY SameJobs DEF UsersServed
  <1>2. QED
    BY <1>1, SameJobs DEF Served

LEMMA StartServes ==
  ASSUME OperatorInv, UsersServed, life = "up", StartPolling, life' = "up",
         NEW d \in Users \ unnoticed'
  PROVE  Served(d)'
  <1>1. /\ UNCHANGED <<disk, files, fileList, event, diff, pending, consumer, current, jobVars>>
        /\ poller = "unstarted" /\ poller' = "list" /\ toRead = {}
    BY DEF StartPolling, Start, fsVars, pollVars, diffVars, processVars, OperatorInv, ShapeInv,
       TypeOK, DiffShape
  <1>2. Due(d) => Due(d)'
    BY <1>1, SameJobs DEF Due, WriteComes, Found, WriteOf
  <1>3. QED
    BY <1>1, <1>2, DueServes

LEMMA WalkBeginServes ==
  ASSUME OperatorInv, UsersServed, life = "up", WalkBegin, UNCHANGED <<processVars, jobVars>>,
         NEW d \in Users \ unnoticed'
  PROVE  Served(d)'
  <1>1. /\ UNCHANGED <<disk, files, event, diff, pending, consumer, current, jobVars>>
        /\ poller = "list" /\ poller' = "walk" /\ fileList' = Nothing
    BY DEF WalkBegin, fsVars, fieldVars, diffVars, endVars, processVars
  <1>2. Found'[d] = files[d] /\ Found = files
    BY <1>1, CrontabFacts DEF Found, Nothing
  <1>3. Due(d) /\ files[d] # Absent => Due(d)'
    BY <1>1, <1>2, SameJobs DEF Due, WriteComes, WriteOf
  <1>4. QED
    BY <1>1, <1>3, DueServes

LEMMA WalkCallAdds ==
  ASSUME TypeOK, ReadOnce, WalkCall
  PROVE  \A p \in Paths : fileList'[p] # fileList[p] => fileList[p] = Absent
  <1>1. ASSUME NEW p \in Paths, Lstat(p)
        PROVE  \A q \in Paths : fileList'[q] # fileList[q] => fileList[q] = Absent
    <2>1. fileList[p] = Absent
      BY <1>1 DEF Lstat, Call, ReadOnce
    <2>2. QED
      BY <1>1, <2>1 DEF Lstat, Vanished, TypeOK, Listing
  <1>2. ASSUME NEW p \in Paths, ReadDirNames(p)
        PROVE  fileList' = fileList
    BY <1>2 DEF ReadDirNames, Vanished
  <1>3. QED
    BY <1>1, <1>2 DEF WalkCall

LEMMA WalkCallServes ==
  ASSUME OperatorInv, UsersServed, life = "up", WalkCall, UNCHANGED <<processVars, jobVars>>,
         NEW d \in Users \ unnoticed'
  PROVE  Served(d)'
  <1>1. /\ UNCHANGED <<disk, files, event, diff, pending, consumer, current, jobVars>>
        /\ poller = "walk" /\ poller' \in {"walk", "fail"}
    BY WalkCallStep DEF fsVars, fieldVars, diffVars, endVars, processVars
  <1>2. CASE poller' = "fail"
    BY <1>1, <1>2, DueServes DEF Due
  <1>3. CASE poller' = "walk"
    <2>1. /\ Found[d] = IF fileList[d] # Absent THEN fileList[d] ELSE files[d]
          /\ Found'[d] = IF fileList'[d] # Absent THEN fileList'[d] ELSE files[d]
      BY <1>1, <1>3, CrontabFacts DEF Found
    <2>2. CASE fileList'[d] = fileList[d]
      <3>1. Due(d) => Due(d)'
        BY <1>1, <1>3, <2>1, <2>2, SameJobs DEF Due, WriteComes, WriteOf
      <3>2. QED
        BY <1>1, <3>1, DueServes
    \* What made d due on the disk is in the list now.
    <2>3. CASE fileList'[d] # fileList[d]
      <3>1. fileList'[d] = disk[d] /\ fileList[d] = Absent
        BY <1>3, <2>3, WalkCallReads, WalkCallAdds, CrontabFacts DEF OperatorInv, ShapeInv
      <3>2. Due(d) /\ files[d] # Absent => Due(d)'
        BY <1>1, <1>3, <2>1, <2>3, <3>1, SameJobs DEF Due, WriteComes, WriteOf, Exists
      <3>3. QED
        BY <1>1, <3>2, DueServes
    <2>4. QED
      BY <2>2, <2>3
  <1>4. QED
    BY <1>1, <1>2, <1>3

LEMMA WalkEndServes ==
  ASSUME OperatorInv, UsersServed, life = "up", WalkEnd, UNCHANGED <<processVars, jobVars>>,
         NEW d \in Users \ unnoticed'
  PROVE  Served(d)'
  <1>1. /\ UNCHANGED <<disk, files, fileList, event, pending, consumer, current, jobVars>>
        /\ poller = "walk" /\ poller' = "select" /\ diff' = "spawned"
    BY DEF WalkEnd, fsVars, fieldVars, endVars, processVars
  <1>2. /\ Found[d] = IF fileList[d] # Absent THEN fileList[d] ELSE files[d]
        /\ Found' = fileList
    BY <1>1, CrontabFacts DEF Found
  <1>3. Due(d) => Due(d)'
    BY <1>1, <1>2, SameJobs DEF Due, WriteComes, WriteOf
  <1>4. QED
    BY <1>1, <1>3, DueServes

LEMMA DiffBeginServes ==
  ASSUME OperatorInv, UsersServed, life = "up", DiffBegin, UNCHANGED <<processVars, jobVars>>,
         NEW d \in Users \ unnoticed'
  PROVE  Served(d)'
  <1>1. /\ UNCHANGED <<disk, files, poller, fileList, event, consumer, processVars, jobVars>>
        /\ diff = "spawned" /\ pending = {} /\ pending' = Changes
    BY DEF DiffBegin, fsVars, fieldVars, pollVars, endVars, OperatorInv, ShapeInv, DiffShape
  <1>2. ASSUME files[d] # Absent, fileList[d] # Absent, files[d].mtime # fileList[d].mtime
        PROVE  WriteOf(d) \in Changes
    BY <1>2, CrontabFacts DEF Changes, InBoth, WriteOf
  <1>3. Due(d) /\ files[d] # Absent => Due(d)'
    BY <1>1, <1>2, SameJobs DEF Due, WriteComes, Found, WriteOf, processVars
  <1>4. QED
    BY <1>1, <1>3, DueServes

\* Without a limit no event is cut off, and the filter keeps a Write.
LEMMA DiffSendServes ==
  ASSUME OperatorInv, UsersServed, life = "up", NEW e \in pending, DiffSend(e),
         UNCHANGED <<processVars, jobVars>>, NEW d \in Users \ unnoticed'
  PROVE  Served(d)'
  <1>1. /\ UNCHANGED <<disk, files, fileList, consumer, processVars, jobVars>>
        /\ diff = "sending" /\ poller = "select" /\ poller' \in {"select", "forward"}
        /\ pending' = pending \ {e} /\ event' = e
        /\ e.op = "Write" => poller' = "forward"
    BY SettingsAssumption DEF DiffSend, Excess, fsVars, fieldVars, endVars
  <1>2. WriteOf(d).op = "Write"
    BY DEF WriteOf
  <1>3. Due(d) => Due(d)'
    BY <1>1, <1>2, SameJobs DEF Due, WriteComes, Found, processVars
  <1>4. QED
    BY <1>1, <1>3, DueServes

LEMMA ReceiveServes ==
  ASSUME OperatorInv, UsersServed, life = "up", Receive, NEW d \in Users \ unnoticed'
  PROVE  Served(d)'
  <1>1. /\ UNCHANGED <<disk, files, fileList, pending, jobVars>>
        /\ poller = "forward" /\ poller' = "select"
        /\ consumer = "ready" /\ consumer' = "busy" /\ current' = event
    BY DEF Receive, Forward, fsVars, fieldVars, pollVars, diffVars
  <1>2. Due(d) => Due(d)'
    BY <1>1, SameJobs DEF Due, WriteComes, Found, WriteOf
  <1>3. QED
    BY <1>1, <1>2, DueServes

\* The end of pollEvents and of the wait for it, and of the sleep.
LEMMA MovesServe ==
  ASSUME OperatorInv, UsersServed, life = "up", DiffEnd \/ CycleDone \/ Wake,
         UNCHANGED <<processVars, jobVars>>, NEW d \in Users \ unnoticed'
  PROVE  Served(d)'
  <1>1. /\ UNCHANGED <<disk, files, fileList, pending, event, consumer, processVars, jobVars>>
        /\ diff' = "spawned" <=> diff = "spawned"
        /\ \/ poller' = poller
           \/ poller = "select" /\ poller' = "save" /\ diff # "spawned"
           \/ poller = "sleep" /\ poller' = "list"
    BY DEF DiffEnd, CycleDone, Wake, fsVars, fieldVars, pollVars, diffVars, endVars
  <1>2. Due(d) => Due(d)'
    BY <1>1, SameJobs DEF Due, WriteComes, Found, WriteOf, processVars
  <1>3. QED
    BY <1>1, <1>2, DueServes

\* A directory that came empty and is not empty any more will be seen again;
\* one that went is not followed up.
LEMMA EndCycleServes ==
  ASSUME OperatorInv, UsersServed, life = "up", EndCycle, NEW d \in Users \ unnoticed'
  PROVE  Served(d)'
  <1>1. /\ UNCHANGED <<disk, jobs, notes, pending, event, consumer, current>>
        /\ poller = "save" /\ poller' = "sleep" /\ files' = fileList
        /\ Found = fileList /\ Found' = fileList /\ pending = {}
    BY DEF EndCycle, Save, Found, fsVars, pollVars, diffVars, endVars, processVars,
       OperatorInv, ShapeInv, DiffShape
  <1>2. UNCHANGED <<Follows(d), Orphaned(d), Exists(d)>>
    BY <1>1 DEF Follows, Orphaned, Exists, Version
  <1>3. d \notin Gone /\ (d \in unnoticed => d \in NewAndEmpty)
    BY DEF EndCycle
  <1>4. CASE d \notin unnoticed
    <2>1. Served(d)
      BY <1>4 DEF UsersServed
    <2>2. files[d] # Absent => fileList[d] # Absent
      BY <1>3, CrontabFacts DEF Gone
    <2>3. Due(d) => Due(d)'
      BY <1>1, <1>2 DEF Due, WriteComes, WriteOf
    <2>4. Orphaned(d)' => Due(d)'
      BY DEF Due
    <2>5. QED
      BY <1>1, <1>2, <2>1, <2>2, <2>3, <2>4 DEF Served
  <1>5. CASE d \in unnoticed
    <2>1. jobs[d] = Absent /\ fileList[Crontab[d]] = Absent /\ fileList[d] # Absent
      BY <1>3, <1>5 DEF NewAndEmpty, New
    <2>2. ~Follows(d) => Exists(Crontab[d])
      BY <2>1 DEF Follows, Version
    <2>3. ~Follows(d) => disk[d].mtime # fileList[d].mtime
      BY <1>1, <2>1, <2>2 DEF OperatorInv, FoundEmpty, ChangedSinceEmpty
    <2>4. QED
      BY <1>1, <1>2, <2>1, <2>3 DEF Served, Due
  <1>6. QED
    BY <1>4, <1>5

LEMMA UsersServe ==
  ASSUME OperatorInv, ShapeInv', UsersServed, life = "up",
         (\E p \in Paths : WriteCrontab(p)) \/ UserStep,
         NEW d \in Users \ unnoticed'
  PROVE  Served(d)'
  <1>1. /\ Found' = Found /\ clock \in Nat
        /\ UNCHANGED <<life, files, poller, pollVars, diffVars, consumer, processVars, jobs, notes>>
    BY UsersChange
  <1>2. d \notin unnoticed /\ Served(d)
    BY DEF WriteCrontab, UserStep, UsersServed
  <1>3. CASE Version(d)' = Version(d) /\ disk'[d] = disk[d]
    <2>1. UNCHANGED <<Follows(d), Orphaned(d), Exists(d)>>
      BY <1>1, <1>3 DEF Follows, Orphaned, Exists
    <2>2. Due(d) => Due(d)'
      BY <1>1, <1>3, <2>1 DEF Due, WriteComes, WriteOf, pollVars, diffVars, processVars
    <2>3. QED
      BY <1>1, <1>2, <2>1, <2>2 DEF Served
  <1>4. ASSUME NEW p \in Paths, WriteCrontab(p)
        PROVE  Version(d)' = Version(d) /\ disk'[d] = disk[d]
    <2>1. p # Crontab[d]
      BY <1>4 DEF WriteCrontab
    <2>2. disk'[d] = disk[d] /\ disk'[Crontab[d]] = disk[Crontab[d]]
      BY <1>4, <2>1, WriteTraces, CrontabFacts DEF WriteCrontab, OperatorInv
    <2>3. QED
      BY <2>2 DEF Version, Exists
  <1>5. CASE UserStep
    <2>1. Traced(d) /\ (files[d] = Absent => disk'[d] = disk[d])
      BY <1>5, UserTraces DEF UserStep, OperatorInv
    <2>2. CASE disk'[d] = disk[d] /\ disk'[Crontab[d]] = disk[Crontab[d]]
      BY <1>3, <2>2 DEF Version, Exists
    <2>3. CASE files[d] = Absent /\ disk'[d] = Absent
      <3>1. ~Exists(Crontab[d]) /\ ~Exists(Crontab[d])'
        BY <2>1, <2>3, CrontabFacts DEF OperatorInv, ShapeInv, Tree, Exists
      <3>2. QED
        BY <1>3, <2>1, <2>3, <3>1 DEF Version
    <2>4. CASE files[d] = Absent /\ disk'[d] # Absent /\ disk'[d].mtime = clock
      <3>1. disk[d].mtime < clock
        BY <2>1, <2>4, CrontabFacts DEF OperatorInv, ClockIsAhead
      <3>2. QED
        BY <1>1, <2>1, <2>4, <3>1
    <2>5. CASE files[d] # Absent /\ disk'[d] = Absent
      BY <1>1, <2>5 DEF Served, Due, Exists
    <2>6. CASE files[d] # Absent /\ disk'[d].mtime = clock
      <3>1. Found[d] # Absent => Found[d].mtime < clock
        BY FoundBehindClock, CrontabFacts DEF OperatorInv
      <3>2. QED
        BY <1>1, <2>6, <3>1 DEF Served, Due
    <2>7. QED
      BY <2>1, <2>2, <2>3, <2>4, <2>5, <2>6 DEF Traced
  <1>6. QED
    BY <1>3, <1>4, <1>5

LEMMA OperatorStep ==
  ASSUME OperatorInv, [OperatorNext]_operatorVars
  PROVE  OperatorInv'
  <1>1. ShapeInv' /\ OperatorTypeOK' /\ ClockIsAhead' /\ ReadOnce' /\ FoundEmpty'
    BY OperatorTypeStep, ClockStep, ReadOnceStep, FoundEmptyStep DEF OperatorInv, FoundEmpty
  <1>2. UsersServed'
    <2> SUFFICES ASSUME life' = "up", NEW d \in Users \ unnoticed'
                 PROVE  Served(d)'
      BY DEF UsersServed
    <2>1. CASE Restart
      BY <2>1, RestartServes
    <2>2. CASE Exit \/ Panic
      BY <2>2, PanicStep DEF Exit, SendError
    <2>3. CASE ~Restart /\ ~UNCHANGED operatorVars
      <3>1. life = "up"
        BY <2>3
        DEF OperatorNext, ReconcileFile, StartPolling, Start, PollerGoes, Receive, Forward,
            EndCycle, Save, Exit, SendError, PollerStep, Walk, WalkBegin, WalkEnd, CycleDone, Wake,
            DiffGoes, Diff, DiffBegin, DiffSend, DiffEnd, Handle, Handled, CreateFunc,
            WriteCrontab, WriteInPlace, UserStep, Put, Unlink, RenameTo, Tick,
            ReconcileStray, Lstat, ReadDirNames, Call
      <3>2. UsersServed
        BY DEF OperatorInv
      <3>3. QED
        BY <1>1, <2>2, <2>3, <3>1, <3>2, ReconcileFileServes, StartServes, WalkBeginServes,
           WalkCallServes, WalkEndServes, DiffBeginServes, DiffSendServes, ReceiveServes, MovesServe,
           EndCycleServes, HandleServes, CreateFuncServes, UsersServe
        DEF OperatorNext, PollerGoes, PollerStep, Walk, WalkCall, DiffGoes, Diff, Panic
    <2>4. CASE UNCHANGED operatorVars
      <3>1. /\ UNCHANGED <<life, disk, files, poller, fileList, event, diff, pending, consumer,
                           toRead, current, jobVars>>
        BY <2>4 DEF operatorVars, vars, fsVars, fieldVars, pollVars, diffVars, endVars, processVars
      <3>2. Due(d) => Due(d)'
        BY <3>1, SameJobs DEF Due, WriteComes, Found, WriteOf
      <3>3. QED
        BY <3>1, <3>2, DueServes DEF OperatorInv
    <2>5. QED
      BY <2>1, <2>3, <2>4
  <1>3. QED
    BY <1>1, <1>2 DEF OperatorInv

LEMMA OperatorStarts ==
  ASSUME OperatorInit
  PROVE  OperatorInv
  <1>1. /\ ShapeInv /\ OperatorTypeOK
        /\ poller = "unstarted" /\ files = disk
    BY OperatorTypeStarts DEF OperatorInit, Init
  <1>2. ClockIsAhead
    <2>1. \A p \in Paths : Nothing[p] = Absent
      BY DEF Nothing
    <2>2. ASSUME NEW p \in Paths, disk[p] # Absent
          PROVE  disk[p].mtime = 0
      <3>1. disk[p] = [mtime |-> 0, inode |-> Home[p], mode |-> "open"]
        BY <2>2 DEF OperatorInit, Init, Exists
      <3>2. QED
        BY <3>1
    <2>3. clock = 1 /\ fileList = Nothing
      BY DEF OperatorInit, Init
    <2>4. QED
      BY <1>1, <2>1, <2>2, <2>3 DEF ClockIsAhead
  <1>3. ReadOnce /\ FoundEmpty
    BY <1>1 DEF ReadOnce, FoundEmpty, ChangedSinceEmpty
  <1>4. ASSUME NEW d \in Users
        PROVE  Served(d)
    <2>1. ~Follows(d) => Exists(Crontab[d])
      BY DEF OperatorInit, Follows, Version
    <2>2. Exists(Crontab[d]) => Exists(d) /\ Crontab[d] \in toRead
      BY <1>1, CrontabHasDirectory, CrontabFacts DEF OperatorInit, WatchedFiles, Exists, ShapeInv
    <2>3. QED
      BY <1>1, <2>1, <2>2 DEF Served, Due, Exists
  <1>5. QED
    BY <1>1, <1>2, <1>3, <1>4 DEF OperatorInv, UsersServed

\* When the process has come to rest, the jobs of every user are those of the
\* crontab: with any users and tree, however the users' changes, the walks, the
\* consumer, the notifications and restarts were ordered before.
THEOREM SettledUsersAreServed == OperatorSpec => []SettledFollows
  <1>1. OperatorInv => SettledFollows
    <2>1. ASSUME OperatorInv, life = "up", poller = "sleep", consumer = "ready",
                 files = disk, notes = {}, NEW d \in Users \ unnoticed
          PROVE  Follows(d)
      <3>1. pending = {} /\ Found = files
        BY <2>1 DEF OperatorInv, ShapeInv, DiffShape, Found
      <3>2. ~Orphaned(d) /\ ~WriteComes(d)
        BY <2>1, <3>1 DEF Orphaned, WriteComes
      <3>3. files[d] # Absent => ~Due(d)
        BY <2>1, <3>1, <3>2 DEF Due, Exists
      <3>4. QED
        BY <2>1, <3>2, <3>3 DEF OperatorInv, UsersServed, Served
    <2>2. QED
      BY <2>1 DEF SettledFollows
  <1>2. QED
    BY <1>1, OperatorStarts, OperatorStep, PTL DEF OperatorSpec

-----------------------------------------------------------------------------
(* The watcher keeps its promises from process to process *)

\* A new process has compared nothing yet.
LEMMA ProcessFeed ==
  ASSUME ShapeInv, NEW listed, Process(listed)
  PROVE  FeedInv' /\ Feed!Begin
  <1>1. /\ life = "exited" /\ life' = "up" /\ poller' = "unstarted"
        /\ ~running' /\ watched' /\ wg' = 1 /\ caller' = "idle"
        /\ files' = disk /\ disk \in Listing
    BY DEF Process, ShapeInv, TypeOK
  <1>2. CycleCovers' /\ CycleCounts' /\ NoChangeLost' /\ LifeShape'
    BY <1>1 DEF CycleCovers, CycleCounts, NoChangeLost, InCycle, LifeShape
  <1>3. FeedInv'
    BY <1>2, ProcessShape DEF FeedInv, CycleInv
  <1>4. Feed!Begin
    BY <1>1 DEF Feed!Begin, FeedState, FeedFound, FeedTold, Comparing
  <1>5. QED
    BY <1>3, <1>4

\* A process that ends before it compares anything.
LEMMA PanicFeed ==
  ASSUME FeedInv, Panic
  PROVE  FeedInv' /\ Feed!End
  <1>1. CycleCovers' /\ CycleCounts' /\ NoChangeLost' /\ LifeShape'
    BY PanicStep DEF CycleCovers, CycleCounts, NoChangeLost, InCycle, LifeShape, FeedInv, fieldVars, endVars
  <1>2. FeedInv'
    BY <1>1, PanicShape DEF FeedInv, CycleInv
  <1>3. Feed!End
    BY PanicStep
    DEF Feed!End, FeedState, FeedFound, FeedTold, Comparing, fieldVars, pollVars, historyVars
  <1>4. QED
    BY <1>2, <1>3

LEMMA OperatorFeedInvariant == OperatorSpec => []FeedInv
  <1>1. ASSUME OperatorInit
        PROVE  FeedInv
    <2>1. Init
      BY <1>1 DEF OperatorInit
    <2>2. CycleCovers /\ CycleCounts /\ NoChangeLost /\ LifeShape
      BY <2>1 DEF Init, CycleCovers, CycleCounts, NoChangeLost, InCycle, LifeShape
    <2>3. QED
      BY <2>1, <2>2, InitShape DEF FeedInv, CycleInv
  <1>2. ASSUME FeedInv, [OperatorNext]_operatorVars
        PROVE  FeedInv'
    <2>1. CASE [Next]_vars
      BY <1>2, <2>1, CycleStep, LifeStep DEF FeedInv, CycleInv
    <2>2. CASE \E listed : Process(listed)
      BY <1>2, <2>2, ProcessFeed DEF FeedInv, CycleInv
    <2>3. QED
      BY <1>2, <2>1, <2>2, OperatorSteps, PanicFeed
  <1>3. QED
    BY <1>1, <1>2, PTL DEF OperatorSpec

\* Inside of the operator, and across its exits and restarts, the watcher is
\* still the abstract feed: what the consumer, the predicates and the kubelet
\* add takes nothing away from it, and a new process begins with its own list.
THEOREM OperatorImplementsChangeFeed == OperatorSpec => ImplementsChangeFeed
  <1>1. OperatorInit => Feed!Init
    BY FeedStarts DEF OperatorInit
  <1>2. ASSUME FeedInv, FeedInv', [OperatorNext]_operatorVars
        PROVE  [Feed!Next]_(Feed!vars)
    <2>1. CASE [Next]_vars
      BY <1>2, <2>1, FeedStep
    <2>2. CASE \E listed : Process(listed)
      BY <1>2, <2>2, ProcessFeed DEF FeedInv, CycleInv, Feed!Next
    <2>3. CASE Panic
      BY <1>2, <2>3, PanicFeed DEF Feed!Next
    <2>4. QED
      BY <1>2, <2>1, <2>2, <2>3, OperatorSteps
  <1>3. QED
    BY <1>1, <1>2, OperatorFeedInvariant, PTL DEF OperatorSpec, ImplementsChangeFeed, Feed!Spec

\* No cycle of any process accepts a list before the consumer has received all
\* the Write events it found, whatever the consumer does with them.
THEOREM OperatorHearsOfEveryChange == OperatorSpec => []NoChangeLost
  BY OperatorFeedInvariant, PTL DEF FeedInv, CycleInv

=============================================================================
