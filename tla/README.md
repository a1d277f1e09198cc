# Verification of the ODP cron operator

The operator turns users' crontab files into Kubernetes `CronJob` objects. Each
user has a directory under `ROOT_FS_PATH` with one file, both named after the
user. The operator polls the tree, reads the files that may have changed and
creates or deletes jobs until the namespace holds one for every line. The job's
pod runs the cron wrapper, which asks the ODP factory for a pod of the user and
waits for it. This directory holds TLA+ models of that program, TLC runs on
small instances and proofs for all of them.

    tlc -config CronJobPasses.cfg MCCronJobController
    tlapm CronJobControllerProofs.tla

## Inventory

| Part | Source | State it keeps | Operations |
|---|---|---|---|
| CronJob controller | `internal/controller/cronjob_controller.go` | none of its own: the informer cache, the jobs at the API server | `Reconcile`, `CreateFunc`, `DeleteFunc`, `UpdateFunc`, `watcher`, `createCronJob` |
| Crontab reader | `internal/fsclient/fsclient.go` | locals of one call | `GetFSEntryForUser`, `createAssociation`, `ConvertMapToString` |
| File watcher | `internal/watcher/*.go` | names, files, filters, running, under a mutex; four channels | `AddRecursive`, `Start`, `pollEvents`, `Close`, and an API the operator does not use |
| Operator process | `cmd/eric-odp-cron-operator/main.go` | the manager | start, end |
| Cron wrapper | `src/cronwrapper/cmd/...` | instance id, growing sleep | one request, polling until ready, failed or given up |
| Log control | `src/cronwrapper/internal/logctl`, `configwatcher` | log level, throttle flag | file events, throttled callback |
| Wrapper libraries | `config`, `logger`, `httputils`, `metric` | configuration, counters | start-up, I/O |
| API types, charts | `internal/api`, `charts` | - | generated code, deployment |

How they interact: the watcher's goroutine sends `Write` events for modified
directories to a consumer goroutine of the controller, which calls `Reconcile`
with the directory's name. `Reconcile` reads the file, lists the user's jobs
from the informer cache and calls the API server. The API server's watch feeds
the cache and, later, the two predicates, which read the file once more and
call the API server themselves. They always return false, so the controller's
work queue only sees updates, and reconciles under the name of the job, for
which there is neither a file nor a job. Nothing is shared under a lock: the file, the
cache and the API server are all read at one time and acted upon at another.

Hard behaviours, with their lines under `hazards` in `PROJECT.json`: the stale
cache; two actors reconciling one user; a file read before and used after an
edit; the cache that is not started when the first files are reconciled; errors
that are logged and not retried; files that are unreadable for a while; panics
and restarts; a poller that compares lists while others replace them.

What makes each part correct:

- controller: files and jobs agree when it is idle; no actor undoes the other
  for a line that stays; no line comes back; users do not affect one another;
- a line: the job it gets has its schedule, its assignments and its time zone,
  and the factory is asked for its command in its owner's name;
- the process: whatever the walks, the deliveries and the exits on errors
  interrupt, the jobs become those of the files;
- reader: each command runs under the assignments above it and no others, and
  has one identifier wherever that is computed;
- watcher: every difference is reported by the cycle that finds it, every
  change is found, `Close` ends;
- wrapper: one request per execution, an answer for every outcome of the
  factory, an end in bounded time;
- log control: the level is that of the file some time after its last change.

## Modules

| Module | Models | EXTENDS |
|---|---|---|
| `CronSchedule` | the promise: lines get and lose jobs because somebody read the file | - |
| `CronJobController` | the control loop: both actors, informer, API server, faults, restarts | standard modules |
| `MCCronJobController` | contents and fault sets for TLC | `CronJobController` |
| `CronJobControllerProofs` | its theorems, the refinement among them | `CronJobController`, `TLAPS` |
| `CronJobQuiescenceProofs` | the theorems about quiet states: files and jobs agree, no line has too many jobs | `CronJobControllerProofs`, `Functions`, `FiniteSetTheorems` |
| `CrontabParser` | `GetFSEntryForUser`, line by line | standard modules |
| `MCCrontabParser` | all files up to a length; `ConvertMapToString` on texts | `CrontabParser`, `SequencesExt` |
| `CrontabParserProofs` | its theorems | `CrontabParser`, `TLAPS` |
| `CronLine` | one line: identifier, schedule, command, environment, time zone, request | `SequencesExt` |
| `MCCronLine` | lines over three words, assignments that need care | `CronLine` |
| `CronLineProofs` | its theorems | `CronLine`, `TLAPS` |
| `ChangeFeed` | the promise: each list is compared with the one accepted before, and accepted once told | - |
| `FileWatcher` | the poll cycle, its goroutines and mutex, `Close`, the file system | standard modules |
| `MCFileWatcher` | two trees and two filters | `FileWatcher` |
| `FileWatcherProofs` | its theorems | `FileWatcher`, `TLAPS` |
| `CronOperator` | the process around the watcher: start, consumer, exit, restart | `FileWatcher` |
| `MCCronOperator` | one user's directory with two files | `CronOperator` |
| `CronOperatorProofs` | its theorems | `CronOperator`, `FileWatcherProofs` |
| `CronExecution` | the promise: one request at a time, one pod per execution, success with one's own | - |
| `CronWrapper` | overlapping executions of a user's lines, the ODP factory | standard modules |
| `MCCronWrapper` | two executions | `CronWrapper` |
| `CronWrapperProofs` | its theorems | `CronWrapper`, `TLAPS` |
| `LogControl` | file events, forwarding goroutine, throttle, callback, level | standard modules |
| `MCLogControl` | files with entries of several services | `LogControl` |
| `LogControlProofs` | its theorems | `LogControl`, `TLAPS` |

How they fit together: `CronOperator` composes the watcher with the consumer
and the passes, each pass one step; `CronJobController` opens such a pass, with
the directories that changed as a set; `CrontabParser` opens its read of the
file, and `CronLine` its creation of a job and what becomes of that; the wrapper
runs in the job. `CronSchedule` is what all of it comes to for a user; `ChangeFeed` is
what the consumer may rely on, and `CronExecution` what somebody may who looks at
the pods of a job. `CronJobController` implements the first, `FileWatcher` and
`CronOperator` the second, `CronWrapper` the third.

An operator whose comment begins with "Mutant of" is a seeded fault: it replaces
the definition it names in a run that must then fail. Nothing else uses it.

### CronSchedule

The state is what a user could see: the lines of the files, whether these can
be read, which lines have a job, and what each reader remembers. A line gets a
job from a reader that found it in the file, and loses it to one that did not,
or to somebody else where there is somebody (`Losable`). A reader may forget and
the process may end at any time. `CronJobController` implements it under the
mapping `Schedule`: jobs are counted by user and line, so duplicates, names, the
cache, the event queues and the order of the calls are hidden, and an actor's
`snap` is what it remembers.

### CronJobController

The actor `"watcher"` is the goroutine that runs `Reconcile` for every file at
start and then for every modified directory; `"handler"` is the informer's
goroutine that runs the predicates. An actor's pass has a `stage`, an `owner`,
the content it read (`snap`) and the API calls it still has to make (`creates`,
`deletes`). One step is one read of the file, one list, or one API call, since
everything else may happen between those.

A crontab is what `GetFSEntryForUser` returns: a sequence of sets of
identifiers, one per association. `FSEntry` gives the empty sequence for a
missing or unreadable file, as the code does. `"denied"` is a file without read
permission, which its directory does not show; `"broken"` one that `Stat` fails
on with another error than "does not exist", after which the code dereferences
a nil `FileInfo` and the process ends.

`jobs` is the API server's state. `stream` is the watch: its events reach the
cache in order (`SyncEvent`) and are then queued for the predicates (`notes`).
`toSync` is the initial list. In phase `"starting"` the cache is not started,
`List` fails and both its results are empty. In phase `"running"` a list waits
until `toSync` is empty. `dirty` and `requests` abstract the poller: the users
whose directory changed, and those the current cycle has still to hand over;
`FileWatcher` models how it does that.

`gaps` and `misread` are history variables. They name what the code leaves
undone for good: a failed API call, a job deleted by somebody else before the
informer listed, a file written in place (its directory keeps its time), and a
user whose file was last read without permission. `QuiescentConsistent` speaks
of all other lines. The next pass over a user empties its gaps, and a restart
all of them, so the property also says that these do repair. `rushed` says that
a file has changed before everything was quiet, or the process has ended.

A `Rejected` identifier has a schedule the API server refuses; a `Panics` one is
a line of one character, on which `createCronJob` indexes out of range. An API
call whose reply is lost is one that succeeds: the code treats both alike.

### CrontabParser

The variables are those of the function, with its names. A line is what the two
regular expressions make of it. The identifier is the pair of the text and the
string of the environment: md5 is taken as injective on these, user and image
are fixed during a call. `ConvertMapToString` is a constant operator; the proofs
need no more of it than its type, and `MCCrontabParser` gives it the code's
definition, with two keys that make different environments equal as strings.
`Return` may happen before the last line, which is a read error or a line that
is too long: the code uses the result all the same.

The two models meet in `IdsOf` and `CallsFor`: `content[k]` of the controller is
`listOfAssociations[k].Usercrons` of the reader. `RecomputedIdentifier` is what
lets the controller use one identifier where the code computes it twice.

### CronLine

A line is a sequence of words with a number of blanks in front of each, and
perhaps one at the end. That is what the expression in `cronregex` tells apart:
`Complete` words are those a blank follows, five of them are a schedule, and a
macro at the start is one if there are fewer. Both alternatives begin with
`\s*`, so the blanks in front belong to the schedule (`Schedule`): fields may be
indented, a macro may not, since the API server looks for its `@` first.
`strings.Split` by the schedule is modelled with its effect, the text up to the
next occurrence, with the same blanks between the words (`Occurs`). Without
blanks in front it may begin inside of a word, which then leaves a `Piece` to the
command: `Ahead` says of each word that ends in a field, or holds a macro, what
comes before. A line without a schedule is split into its characters, which
panics if there is only one. What kind of blank it is, and how many of them a
command holds, is left out; the wrapper trims those around it.

The identifier is the line, the image and `ConvertMapToString` of the
assignments, and not the time zone. `mergeEnvVariables` appends the user name
and the command, and of two entries of a name the API server keeps the last.
The API server takes five fields or a macro as a schedule; which ones exist,
and which time zones, is not modelled. `Reconcile` is a pass with nothing
going on around it, since `CronJobController` has the races: `settled` says
that it has happened since the last edit or deployment. `Fire` is the start of
a pod: `getOsEnvString` and `delimitCommand`, up to what the request holds.
`line`, `of` and `under` in a job are history: the line, the assignments and
the operator's time zone it was made from.

### ChangeFeed

The state is the list accepted last (`known`), the one compared with it
(`found`) and the modified paths the consumer was told of (`told`). `Accept` is
the promise: without a limit, and with `Write` in the filter (`Complete`), the
consumer knows of all that was modified between the two lists when the second
one becomes the known one. So a change is told in the cycle that finds it, or
is found again. `Close` and the end of the process end the promise, and `Begin`
makes a new one from another list. `FileWatcher` implements it under the mapping
`Feed`, which hides the goroutines, the mutex, the channels, the walk and every
event but `Write`.

### FileWatcher

`poller` is the goroutine in `Start`, `diff` the `pollEvents` of the cycle. The
channels are unbuffered, so a send and its receive are one step. The walk is
made call by call, with the users' steps between any two calls: `todo` holds the
`lstat` and `readDirNames` calls still to make, `fileList` what was found so far.
A directory's names are read after its info, and its entries after its names. Of
the order in which `filepath.Walk` goes through them nothing else is kept, so
the model allows more orders than the code. A file or a directory that has gone
since its name was read is an error (`Vanished`), and the controller's consumer
ends the process on any error (`SendError`). `AddRecursive` makes the same calls
at start, before anybody is told anything; there they are one step. The
branches of `retrieveFileList` for `os.IsNotExist` are
not in the model: `fmt.Errorf("%v", err)` hides the error from that test.
`mu` says who holds the mutex when a step leaves it held; a step that takes and
releases it only needs it free. The consumer ends the process on any error, so
nothing follows `SendError` here; `CronOperator` starts the process again.

### CronOperator

It shares the watcher's variables and steps and adds the process. `toRead` are
the files `AddRecursive` listed and the loop in `watcher` has still to
reconcile; `current` is the event in the consumer's hand; `jobs` says which
version of a crontab, by inode and time, a user's jobs are of. A pass of
`Reconcile` is one step, without errors. `notes` are jobs `CreateFunc` has still
to look at: those just created, and after a restart all there are. That is what
removes the jobs of a user whose files went while the process was down.
`unnoticed` is history: users with a change that need not show in a `Write`
event of their directory. These are a write in place, the removal of the
directory with its crontab, and a change in a directory that the watcher has not
listed yet, which gives `Create` events if it gives any. They are served at the
next change of the directory or the next start; a directory that is listed
without a crontab, and whose user has no jobs, needs neither (`NewAndEmpty`): the
crontab that comes later changes it. `SettingsAssumption` is the watcher as
`watcher()` sets it up: under a limit, or without `Write` in the filter, changes
of the directory would be lost. A regular file beside the directories of the users (`Stray`) ends the
process at start, if it was listed and is still there: `GetFSEntryForUser` looks
below it, `os.Stat` fails with another error than the one it tests for, and the
`nil` info is dereferenced (`ReconcileStray`). No process stays up while there
is such a file, so `JobsFollowFiles` speaks of trees without one. Changes of
mode, which the filter drops, are not among the users' steps, and neither is `Close`, which the operator never
calls. While the root is missing a new process exits at once; `Restart` waits
for it.

### CronExecution

`outcome` is how far an execution is, `asked` says whose request was not handled
yet, `pods` are the On Demand Pods. A pod is made by a request, so an execution
that has ended makes at most one more; and by no request of an execution that
has one. A pod that became ready stays ready. `Succeed` needs the execution's own
pod. `"givenup"` and `"succeeded"` are told apart here only: the wrapper leaves
with the same exit status 0 in both cases. `CronWrapper` implements it with
`Outcome`, which hides the clock, the ids, the sleeps and the answers.

### CronWrapper

An execution is one pod of a `CronJob`; `stage` is the place in
`requestODPFactoryForODP`. The pods are never restarted (`RestartPolicyNever`,
`BackoffLimit` 0), so a failure is final. `posts` and `answer` are the two
directions of the connection: a connection that fails (`LoseAnswer`) ends the
process with `log.Fatal` while its request may still arrive. `Die` stands for
the other ways the process ends: `log.Fatal` in the goroutine of the metrics or
of the log watch, and eviction.

The factory is not in this repository. It is modelled by what
`api/client/odp-factory.yaml` promises: an unknown instance id starts a
creation, a known one is reported, an error is repeated until it expires. A
ready ODP runs its command and is kept for as long as its requester asks. The
clock may show two starts the same nanosecond unless `ClockTicks`. The command a
request carries is in `CronLine`.

### LogControl

`events` is fsnotify's queue, `forwarding` the goroutine of
`configwatcher.Watch` with an event in its hand, `loop` the `select` of
`logctl.Watch` and the callback it runs. The channel is unbuffered, so sending
and receiving are one step, and neither happens during a callback. The ticker is
a step that may come at any time. The callback reads the file in one step and
applies the entries one by one. `noticed` says that the last replacement made an
event; before `AddWatch` none does.

## Runs

| Run | Bounds | Shows |
|---|---|---|
| `cron_passes` | 1 user, 2 lines, one of them in two associations, 3 names, 2 edits, 1 fault of any kind | `QuiescentConsistent`, `AtMostOneJob`, `ScheduledStaysScheduled`, `NoResurrection`, types |
| `cron_users` | 2 users, 3 lines, one panicking and one refused, 2 edits, 1 crash or API error | `SnapshotJustified` across users, `ImplementsSchedule` |
| `cron_convergence` | 1 user, 1 edit, 1 fault the operator can recover from | `Convergence` |
| `crontab_files` | all files of at most 4 lines out of 7 | the reader's three properties |
| `watcher_reports` | directory and 2 files, 2 changes between any two calls of the walk, the operator's filter, no limit | `NoChangeLost`, `ChangeIsReported`, types |
| `watcher_closes` | directory and 1 file, 1 change, 1 event per cycle, `Close` at any time, a second `Start` | `PendingIsCurrent`, `SenderHasReceiver`, `NoChangeLost`, `CloseReturns`, `ImplementsChangeFeed` |
| `operator_follows` | a user's directory with crontab, a file beside the directory, each there or not, 2 changes, any number of exits | `SettledFollows`, `JobsFollowFiles`, `ImplementsChangeFeed` across restarts, types |
| `line_requests` | all lines of at most 6 words out of 3, indented ones of at most 5, and some that hold their own schedule, at the start or inside of a word, with one blank more or less; 6 sets of assignments, 2 time zones, 2 images, 1 edit, 1 deployment | `RequestsCarryTheLine`, `LinesAreServed`, `JobsAreCurrent` |
| `line_macro` | lines of at most 6 words that start with a macro | violation, see Findings |
| `wrapper_executions` | 2 executions, sleeps of 2 and 4 seconds with a maximum of 3 | `OneOdpPerExecution`, `SuccessRunsTheCommand`, `GivesUpAfterMaxSleep`, `EveryStartEnds`, `ImplementsCronExecution`, types |
| `log_throttle` | 4 replacements, 6 arrays, unreadable files, null | `QuietFollows`, `LevelFollowsFile`, types |
| `log_updates` | 1 replacement | violation, see Findings |

Why the bounds are enough: a disagreement between the two actors needs one
edit between a read and a call, and one event in flight; two edits add the one
that takes the first one back, three names a job for each of the two actors and
one left over from before. Symmetry is used on names in safety
runs only; they are compared for equality and nothing else. A name is used again only when
no trace of it is left anywhere, so a few stand for the endless supply of uuids.
In the reader an association is decided by the order of an assignment, a
command and another assignment of the same key, which four lines hold; the
proof covers all lengths. In the watcher the races are between one change and
each of the times a cycle looks at the tree or the lists; a second change
hides the first one or comes while it is delivered, and a file that is renamed
over another one needs two files. For the process, two changes are one before
and one during an exit, with a restart between them. Five fields and a word of
the command, or a macro and five words, make six; every way a blank can be
missing is shorter. An indented line differs from the same line without the
indent in its schedule, which five words decide, and in where that occurs again. Executions
affect one another through one ODP only, which takes two of them; a sleep is
below or above the maximum. A replacement of the log file can meet one event in the queue, one in
the forwarding goroutine and one callback; the fourth comes after all of them.

Deadlock is not checked: the operator rests when nothing changes, and each model
stops when its edits and faults are used up. That nothing stops too early is
what the liveness properties say.

`AtMostOneJob` allows a line as many jobs as some file holds it times, and speaks
of quiet times: each edit waits until nothing is left to do, nothing has failed
and the process has not restarted (`rushed`). Otherwise duplicates do arise in
the code: at a restart, when the cache is not started and every line looks new;
and when `DeleteFunc` and `Reconcile` both create a line. They stay while the
line does, and `QuiescentConsistent` shows that they all go with it.

### Fairness

`CronJobController`: weak fairness of each goroutine, of the informer and of the
restart: the Go scheduler runs what can run, the API server answers, the kubelet
restarts the container. Edits and faults are never forced. `Convergence`
excludes `"broken"` files and panicking lines, with which the process restarts
into the same panic for ever. `FileWatcher`: strong fairness of the goroutines
that wait for the mutex, which Go's mutex hands to a starving waiter, and of the
`select` of `Start`, which chooses among ready channels at random; weak fairness
of the consumer and of `Start`. `CronOperator`: the same, and weak fairness of
the reconciliation at start, of the informer's goroutine and of the kubelet's
restart; `JobsFollowFiles` needs all of them, since a walk error may end any
cycle and only the next process finishes its work. `CronWrapper`: weak fairness of a started
process and of the factory's answer. The code has no deadline for the request,
so a factory that neither answers nor closes the connection holds an execution
for ever; whether an ODP ever settles is left open. `LogControl`: weak fairness
of the two goroutines, the ticker included.

## Proofs

`CronJobControllerProofs`, from `ConstantsAssumption` alone (no finiteness, no
bound on users, lines, names, faults or the length of the event queues):

- `TypeCorrect`: `TypeOK` is not inductive, since a creation by an actor
  without an owner would add a job of nobody. `PassShape` rules that out: an
  idle actor has no owner, no content and no calls, and calls exist in the last
  stage only. One lemma per group of actions, one step per action.
- `SnapshotsJustified`: inductive with the two above.
- `ScheduledLinesKeepAJob` and `RemovedLinesStayRemoved`: from the invariant and
  `OperatorJobs`, which says that a step of the operator adds or takes one job
  by one pending call.
- `ControllerImplementsSchedule`: initial states map to initial states, and each
  step maps to a step of `CronSchedule` or to none. The invariant is needed
  where a call is made: that it is a call of a pass, for a line that the pass
  found in the file, or did not find.

`CronJobQuiescenceProofs`, from the same assumption: `SettledFilesAndJobsAgree`.
What is true of a state at rest has to be true, in a form of its own, of all the
states before it. `SettlingInv` has three parts. `InformerInv`: what the cache,
the watch and the initial list say together is what the API server has.
`LinesAwaited`: of a line without a job, somebody still has the creation to
make, or the read of the file, the list or the event that leads to it.
`JobsDoomed`: the same for a job whose line is not in the file. The exceptions
are those that `gaps` and `misread` name, and each way to get into them is a
step that adds to one of the two.

`CalmLinesGetOneJob` counts. It speaks of calm times: no fault, no restart, and
each edit waits for quiet. `CalmInv` bounds the jobs of a line together with the
creations the watcher's pass still has to make (`Counted`). Four facts keep that
sum down. The predicates find that everything is as the file says and make no
calls (`HandlerRests`, from `EventsAgree`). The list a pass uses shows every job
of its user (`ListIsComplete`), so it creates no line that has a job. No user is
asked for twice at a time (`OneTurn`). And the content a pass has read is that of
the file (`PassIsCurrent`), since an edit would have waited. A pass over a line
without jobs adds as many creations as the file holds the line times, and each
creation becomes one job. The sums are cardinalities, for which the library's
facts about finite sets are cited; `Counted` carries the finiteness along.

`CrontabParserProofs`, for files of any length: `ParserInv` adds that the flag
says whether the association has commands, and that the environment is the one
the scanned lines leave (`EnvIsCurrent`). `EnvAfterStep` relates the definition
of that environment, by the last assignment of each key, to one more line;
`AssociationsStep` says what each step does to the associations.
`ReaderTypeCorrect` is its type invariant.

`CronLineProofs`, for any lines, assignments, time zones and images:
`RequestsAreTheOwners` (a request is made in the owner's name and with the
line's command, whatever the assignments say, unless the line holds its own
schedule a second time), `LinesHaveJobs` (five fields, indented or not, or a
macro that is not indented and has few words behind it) and `JobsStayCurrent`. The invariant
says that a job is what `createCronJob` makes of the line, assignments and
settings it was made from, and that after a pass every job has the identifier of
the line; the identifier tells the image and, up to `Collides`, the assignments.

`FileWatcherProofs`, for any tree, filter and limit, with `Close` and a second
`Start` at any time: `ShapeInv` says which stages of the goroutines exclude one
another and who holds the mutex in each; `ComparedListsStay` and
`WatcherTypeCorrect` are parts of it. `CyclesDeliverWhatTheyFind` adds what a
cycle has sent and what is pending, which together are what it found, and counts
the former. `SendersHaveReceivers` follows from `ShapeInv`: the mutex and the
channel never block one another, whichever way a cycle is cut short.

`WatcherImplementsChangeFeed` maps each step to one of `ChangeFeed` or to none.
The invariant is needed in three places. `Tell` needs an event to be of what was
modified, which `CycleCovers` and `PendingIsCurrent` give; `Accept` needs all of
it to be told (`NoChangeLost`); and `LifeShape` says that only `Close` clears the
list, and only once, in a process that is up. `EventShape` covers the event that is
on its way when `Close` clears the list it was found with.

`CronOperatorProofs`, for any users and tree, with `SettingsAssumption`:
`OperatorTypeCorrect`, and `SettledUsersAreServed`. `OperatorInv` says of every
user whose jobs are not those of the crontab what will change that (`Due`): the
loop at start, a notification, a directory that differs from what the current
cycle has found or from what the last one listed, or an event on its way.
`ReadOnce` says that the walk makes no call twice: what is listed is not read
again, and its directory was listed and read before. Two facts about time carry
it. The clock is ahead of all that was written or listed,
so that a change after a walk is told from the walk (`ClockIsAhead`); and a
directory whose crontab came after the walk of its entries has changed since
(`FoundEmpty`), since a directory's info is taken before its entries. A file
beside the directories ends the process with nothing else changed. `OperatorImplementsChangeFeed` and
`OperatorHearsOfEveryChange` carry the watcher's invariant over to the process:
its own steps leave the watcher alone, or begin another one (`ProcessFeed`).

`CronWrapperProofs`, for any number of executions and any integers as first and
longest sleep: `TypeCorrect` bounds every sleep, `GivenUpLate` follows from it.
`AtMostOneOdp` rests on `RequestInv`: every request and every ODP belongs to an
execution that has started, under the id it keeps. `SuccessIsOnesOwn` needs
`ClockTicks`: then ids differ (`IdsStep`), so an ODP that is reported ready under
an execution's id is its own, and `ReadyStays` keeps it.
`WrapperImplementsCronExecution` maps each step to one of `CronExecution` or to
none, under the same assumption. It adds `RequestsInTurn`: a request is on its
way only while its execution waits or has failed, and an answer only when the
request is not. Without that an execution could ask twice, or succeed with a
request that still makes a pod.

`LogControlProofs`: `ThrottleLosesNothing`, by `LogInv`. The flag is set for as
long as a callback lasts, what it has applied so far is obeyed, and what it
loaded is the file as it is now unless an event is still on its way.
`LogTypeCorrect` is the type invariant.

Every invariant, action property and refinement that a passing run checks is a
theorem. Only model-checked is all liveness, which is out of the prover's reach:
`Convergence`, `ChangeIsReported`, `CloseReturns`, `JobsFollowFiles`,
`EveryStartEnds` and `LevelFollowsFile`.

## Findings

- `line_macro`: `cronregex` (`cronjob_controller.go:152`) tries five words before
  it tries a macro. A line with a macro and a command of five words or more has
  the macro and four words of the command as its schedule, which the API
  server refuses; it never gets a job. `cronjob_controller_test.go:26`
  and `:57` expect the macro as the schedule and the rest as the command.
- `log_updates`: `server.go:45` says that the callback is invoked whenever the
  configmap is updated. An update before the directory is watched is not read,
  and neither is the file a process starts with.

Met while modelling, reachable in the models, and without a run of their own:

- `watcher.go:25` documents `ErrWatchedFileDeleted` for a watched file or folder
  that has been deleted. It is never sent: the errors that could cause it are
  wrapped so that `os.IsNotExist` does not recognise them. The operator gets the
  wrapped error, with the mutex held by the sender, and exits (`SendError`).
- `watcher.go:20` describes `Start` as forbidden only until `Close` is called.
  A second `Start` calls `wg.Done` on a counter of zero and panics (the step
  `Start` with `wg = 0`). The operator never calls `Close`.
- `server.go:95` calls the instance id unique. It is made of the wall clock and of
  `UNIQUE_CRON_ID`, which nothing sets. Two executions of a user that read the
  same nanosecond share an ODP; the command of the second one does not run.
  This is why `SuccessRunsTheCommand` needs `ClockTicks`.
- `server.go:178` reports that the schedule ends "without execution". The ODP is
  still being created and runs the command when it is ready (`Settle` after
  `"gaveup"`).

- `cronjob_controller.go:58` admits blanks before a macro (`\s*@\S+`), as it does
  before fields; the fixture `internal/controller/crontab/crontab:3` has a line
  of the latter kind, and `cronjob_controller_test.go:57` trims both before it
  compares them. The code does not trim the schedule (`:153`, `:172`), and the
  API server refuses a macro with blanks in front: such a line has no job.
  `LinesAreServed` leaves it out (`Indented`).
- `fsclient.go:61` tests for a file that does not exist, not for one below a
  regular file. A file directly under the root, reconciled at start as if it
  were a user's, makes `:66` dereference `nil`; the operator then restarts into
  the same file and serves nobody (`ReconcileStray`).

## Plan

What is left, in this order:

1. `WatchList`: the file list under `Add`, `Remove`, `RemoveRecursive` and
   `Ignore` by several goroutines, which matters once the operator calls them.
2. Two operators at once, as during a rolling update: `CronJobController` with
   two sets of actors over the same files and jobs. The bounds of `cron_passes`
   do not fit; a smaller event model is needed.
3. Proofs: the safety part of the liveness properties, that what has still to
   happen is never forgotten (`CalmInv` and `OperatorInv` are of this kind);
   for `LogControl`, an abstract specification of what a level follows.

## Not modelled

The wrapper's libraries (logging facade, HTTP clients, metrics): start-up and
I/O. The API types are generated and unused by the controller. Log lines,
metrics and flags carry no behaviour. Of the watcher's library, the operations
the operator never calls (`Add`, `Remove`, `RemoveRecursive`, `Ignore`, the
hooks, `TriggerEvent`). Edits of a job by others are not repaired by the code
and not modelled. The clock of the file system is taken to tell any two changes
apart; where it does not, the second one is the in-place write of
`CronJobController`. md5 is taken as injective on what it is given.
