----------------------------- MODULE CronOperator -----------------------------
(***************************************************************************)
(* The operator process around the polling watcher (func watcher and the   *)
(* event predicates of internal/controller/cronjob_controller.go): what it *)
(* reconciles at start, what its consumer does with the events, and what   *)
(* is left of it after log.Fatalln and a restart by the kubelet.           *)
(*                                                                         *)
(* A user is a directory with a crontab of the same name in it.  The jobs  *)
(* of a user are those of one version of the crontab, or none: a pass of   *)
(* Reconcile is one step here, and CronJobController says what happens     *)
(* inside of it.                                                           *)
(***************************************************************************)
EXTENDS FileWatcher

CONSTANTS
  Users,    \* the directories of the users
  Crontab   \* the crontab in each; no other file has the name of a user

ASSUME OperatorAssumption ==
  /\ Users \subseteq Dirs \ {Root}
  /\ Crontab \in [Users -> Paths \ Dirs]
  /\ \A d \in Users : Parent[d] = Root /\ Parent[Crontab[d]] = d

\* How watcher() sets the watcher up: its filter keeps Write, and there is no
\* limit on the events of a cycle.
ASSUME SettingsAssumption == "Write" \in Ops /\ MaxEvents = 0

VARIABLES
  toRead,     \* the watched files that are not reconciled yet, before Start
  current,    \* the event the consumer is busy with
  jobs,       \* per user, the version of the crontab that has its jobs
  notes,      \* users with notifications of created jobs not yet handled
  unnoticed   \* history: users with a change that need not show in a Write
              \* event of their directory

processVars == <<toRead, current>>
jobVars == <<jobs, notes, unnoticed>>
operatorVars == <<vars, processVars, jobVars>>

\* What GetFSEntryForUser finds: no crontab, or one version of it.
Version(d) ==
  IF Exists(Crontab[d]) THEN <<disk[Crontab[d]].inode, disk[Crontab[d]].mtime>> ELSE Absent

\* Mutant of WatchedFiles: directories are not left out.
WatchedPaths(list) == {p \in Paths : list[p] # Absent}

\* The files among what AddRecursive listed.
WatchedFiles(list) == {p \in Paths \ Dirs : list[p] # Absent}

-----------------------------------------------------------------------------
(* Start, end and restart of the process *)

OperatorInit ==
  /\ Init
  /\ toRead = WatchedFiles(files) /\ current = NoEvent
  /\ jobs = [d \in Users |-> Absent] /\ notes = {} /\ unnoticed = {}

\* A new process lists the tree; without a root it exits again.
Process(listed) ==
  /\ life = "exited"
  /\ Exists(Root)
  /\ life' = "up" /\ mu' = "free"
  /\ running' = FALSE /\ watched' = TRUE /\ files' = disk
  /\ wg' = 1 /\ poller' = "unstarted" /\ starts' = 0
  /\ todo' = {} /\ fileList' = Nothing /\ numEvents' = 0 /\ event' = NoEvent
  /\ diff' = "none" /\ pending' = {} /\ leaked' = 0
  /\ consumer' = "ready" /\ caller' = "idle"
  /\ delivered' = {} /\ seen' = [p \in Paths |-> 0]
  /\ toRead' = WatchedFiles(disk) /\ current' = NoEvent
  /\ notes' = listed
  /\ unnoticed' = {}
  /\ UNCHANGED <<fsVars, jobs>>

\* Mutant of Restart: the jobs that are there already are not looked at.
RestartUnlisted == Process({})

\* Its informer lists the jobs there are.
Restart == Process({d \in Users : jobs[d] # Absent})

Reconcile(d) ==
  /\ jobs' = [jobs EXCEPT ![d] = Version(d)]
  /\ notes' = IF Version(d) \in {Absent, jobs[d]} THEN notes ELSE notes \cup {d}
  /\ unnoticed' = unnoticed \ {d}

\* A file beside the directories of the users.
Stray(p) == p \notin Dirs /\ Parent[p] = Root /\ Exists(p)

\* The loop over WatchedFiles: every file is reconciled as a user of its own
\* name, who exists if it is a crontab.
ReconcileFile(p) ==
  /\ life = "up" /\ poller = "unstarted"
  /\ p \in toRead
  /\ ~Stray(p)
  /\ toRead' = toRead \ {p}
  /\ IF \E d \in Users : Crontab[d] = p
     THEN Reconcile(Parent[p])
     ELSE UNCHANGED jobVars
  /\ UNCHANGED <<vars, current>>

\* os.Stat of a path below a file fails with ENOTDIR, not with ErrNotExist: the
\* info is nil, and fsinfo.IsDir() ends the process.
ReconcileStray(p) ==
  /\ life = "up" /\ poller = "unstarted"
  /\ p \in toRead
  /\ Stray(p)
  /\ life' = "exited"
  /\ UNCHANGED <<fsVars, mu, fieldVars, poller, pollVars, diffVars, endVars, historyVars>>
  /\ UNCHANGED <<processVars, jobVars>>

\* w.Start, after the loop.
StartPolling ==
  /\ toRead = {}
  /\ Start
  /\ UNCHANGED <<processVars, jobVars>>

-----------------------------------------------------------------------------
(* The consumer and the predicate CreateFunc *)

Receive ==
  /\ Forward
  /\ current' = event
  /\ UNCHANGED <<toRead, jobVars>>

\* Mutant of Handle: only the crontabs themselves are looked at.
HandleFiles ==
  /\ Handled
  /\ IF current.op = "Write" /\ \E d \in Users : Crontab[d] = current.path
     THEN Reconcile(Parent[current.path])
     ELSE UNCHANGED jobVars
  /\ UNCHANGED processVars

\* A Write event of a directory reconciles the user of its name; the root is
\* no user's, and all other events are dropped.
Handle ==
  /\ Handled
  /\ IF current.op = "Write" /\ current.path \in Users
     THEN Reconcile(current.path)
     ELSE UNCHANGED jobVars
  /\ UNCHANGED processVars

\* CreateFunc deletes a job whose line is not in the file.
CreateFunc(d) ==
  /\ life = "up"
  /\ d \in notes
  /\ notes' = notes \ {d}
  /\ jobs' = IF jobs[d] = Version(d) THEN jobs ELSE [jobs EXCEPT ![d] = Absent]
  /\ UNCHANGED <<vars, processVars, unnoticed>>

\* The directories this cycle has found, without a crontab to serve.
NewAndEmpty == {d \in Users \cap New : jobs[d] = Absent /\ fileList[Crontab[d]] = Absent}

\* The cycle is over.  A directory that went has had no Write event, one that
\* came empty needs none.
EndCycle ==
  /\ Save
  /\ unnoticed' = (unnoticed \ NewAndEmpty) \cup (Users \cap Gone)
  /\ UNCHANGED <<processVars, jobs, notes>>

PollerStep == Walk \/ CycleDone \/ Wake

\* An error ends the process and what it had in memory.
Exit ==
  /\ SendError
  /\ UNCHANGED <<processVars, jobVars>>

-----------------------------------------------------------------------------
(* The users *)

\* A write in place does not touch the directory.
WriteCrontab(p) ==
  /\ WriteInPlace(p)
  /\ unnoticed' = unnoticed \cup {d \in Users : Crontab[d] = p}
  /\ UNCHANGED <<processVars, jobs, notes>>

\* A change in a directory the watcher has not listed yet may have gone by the
\* time it does.
UserStep ==
  /\ \/ \E p \in Paths : Put(p) \/ Unlink(p)
     \/ \E p, q \in Paths : RenameTo(p, q)
  /\ unnoticed' = unnoticed \cup {d \in Users : files[d] = Absent /\ disk'[d] # disk[d]}
  /\ UNCHANGED <<processVars, jobs, notes>>

PollerGoes == Receive \/ EndCycle \/ Exit \/ (PollerStep /\ UNCHANGED <<processVars, jobVars>>)
DiffGoes == Diff /\ UNCHANGED <<processVars, jobVars>>

OperatorNext ==
  \/ Restart
  \/ \E p \in toRead : ReconcileFile(p) \/ ReconcileStray(p)
  \/ StartPolling
  \/ PollerGoes
  \/ DiffGoes
  \/ Handle
  \/ \E d \in notes : CreateFunc(d)
  \/ \E p \in Paths : WriteCrontab(p)
  \/ UserStep

OperatorSpec == OperatorInit /\ [][OperatorNext]_operatorVars

\* As in FileWatcher, and the kubelet restarts the process.
OperatorFairSpec ==
  /\ OperatorSpec
  /\ WF_operatorVars(Restart)
  /\ WF_operatorVars(StartPolling \/ \E p \in toRead : ReconcileFile(p) \/ ReconcileStray(p))
  /\ SF_operatorVars(PollerGoes) /\ SF_operatorVars(DiffGoes)
  /\ WF_operatorVars(Handle)
  /\ WF_operatorVars(\E d \in notes : CreateFunc(d))

-----------------------------------------------------------------------------
(* Properties *)

\* Every variable keeps the shape its declaration gives it.
OperatorTypeOK ==
  /\ TypeOK
  /\ toRead \subseteq Paths \ Dirs /\ current \in Event
  /\ jobs \in [Users -> (Inodes \X (0 .. MaxTime)) \cup {Absent}]
  /\ notes \subseteq Users /\ unnoticed \subseteq Users

Follows(d) == jobs[d] = Version(d)

\* Between two cycles, with nothing new on the disk and no notification left,
\* the jobs of every user are those of the crontab, however the changes raced
\* with the listing at start, the walks, the consumer and restarts.
SettledFollows ==
  (/\ life = "up" /\ poller = "sleep" /\ consumer = "ready"
   /\ files = disk /\ notes = {})
  => \A d \in Users \ unnoticed : Follows(d)

\* Once users leave their files alone, the jobs are and stay those of the
\* crontabs, but for the changes the watcher cannot notice.  Without a root, or
\* with a file beside the directories, no new process stays up.
JobsFollowFiles ==
  <>[](Exists(Root) /\ (\A p \in Paths : ~Stray(p)) => \A d \in Users \ unnoticed : Follows(d))

=============================================================================
