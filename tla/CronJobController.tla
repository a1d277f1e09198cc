-------------------------- MODULE CronJobController --------------------------
(***************************************************************************)
(* The operator's control loop (internal/controller/cronjob_controller.go) *)
(* between users' crontab files and the CronJob objects of the namespace.  *)
(*                                                                         *)
(* Two goroutines issue API calls.  "watcher" runs Reconcile(user) once    *)
(* for every file at start and then for every user directory the poller    *)
(* finds modified.  "handler" runs the event predicates CreateFunc and     *)
(* DeleteFunc, one informer notification at a time.  Both read the         *)
(* crontab, then act on what they read while the file, the API server and  *)
(* the informer cache move on.                                             *)
(*                                                                         *)
(* A crontab is abstracted to what GetFSEntryForUser returns: a sequence   *)
(* of associations, each a set of identifiers (the md5 of user, line,      *)
(* image and environment); <<>> is a missing file.                         *)
(***************************************************************************)
EXTENDS Naturals, Sequences, FiniteSets

CONSTANTS
  Users,      \* the crontab owners
  Ids,        \* identifiers of crontab lines
  Names,      \* names a CronJob object can get (uuid based)
  Contents,   \* what a crontab file may hold
  Panics,     \* identifiers whose line makes createCronJob index out of range
  Rejected,   \* identifiers whose schedule the API server refuses
  NoUser,     \* owner of an actor that is not in a pass
  Faults,     \* the kinds of fault the environment may inject
  MaxEdits,   \* bound on the changes users make to their files
  MaxFaults   \* bound on the injected faults

ASSUME ConstantsAssumption ==
  /\ Contents \subseteq Seq(SUBSET Ids)
  /\ <<>> \in Contents
  /\ Panics \subseteq Ids
  /\ Rejected \subseteq Ids
  /\ NoUser \notin Users
  /\ Faults \subseteq {"crash", "api", "kubectl", "inplace", "denied", "broken"}
  /\ MaxEdits \in Nat
  /\ MaxFaults \in Nat

Actors == {"watcher", "handler"}
Job == [name : Names, user : Users, id : Ids]
Event == [type : {"added", "deleted"}, job : Job]

VARIABLES
  crontab,    \* per user, the content of the file
  access,     \* per user, how reading the file ends
  jobs,       \* the CronJob objects at the API server
  phase,      \* "down", "starting" (informer cache not started), "running"
  toSync,     \* objects of the informer's initial list, not yet in the cache
  stream,     \* watch events on their way to the informer
  cache,      \* the informer cache, read by List
  notes,      \* notifications queued for the event predicates
  dirty,      \* users whose directory changed since the last poll
  requests,   \* users the watcher goroutine still has to reconcile
  polling,    \* the reconciliation of every file at start is over
  stage,      \* per actor: "idle", "list" or "calls"
  owner,      \* per actor, the user of the pass
  snap,       \* per actor, what GetFSEntryForUser returned in this pass
  creates,    \* per actor, the createCronJob calls still to make
  deletes,    \* per actor, the Delete calls still to make
  gaps,       \* history: changes no later step of the operator will notice
  misread,    \* history: users whose file was last read while inaccessible
  rushed,     \* history: a file changed while the operator was not settled, or
              \* the process has ended
  edits, faults

fsVars == <<crontab, access>>
informerVars == <<toSync, stream, cache, notes>>
watchVars == <<dirty, requests, polling>>
passVars == <<stage, owner, snap, creates, deletes>>
historyVars == <<gaps, misread, rushed>>
boundVars == <<edits, faults>>
vars == <<fsVars, jobs, phase, informerVars, watchVars, passVars, historyVars, boundVars>>

-----------------------------------------------------------------------------
(* Crontabs and CronJob objects *)

\* The second result of GetFSEntryForUser: every identifier of the file.
IdsOf(content) == UNION {content[k] : k \in DOMAIN content}

\* Mutant of FSEntry: the associations are appended once more, as by a result
\* that is not made anew for each call.
FSEntryTwice(u) == IF access[u] = "ok" THEN crontab[u] \o crontab[u] ELSE <<>>

\* GetFSEntryForUser(u): a file that cannot be opened reads as a missing one.
FSEntry(u) == IF access[u] = "ok" THEN crontab[u] ELSE <<>>

\* One createCronJob call per association an identifier of `wanted' is in.
CallsFor(content, wanted) ==
  {c \in (DOMAIN content) \X Ids : c[2] \in content[c[1]] \cap wanted}

JobsOf(u, i) == {j \in jobs : j.user = u /\ j.id = i}

NamesInUse ==
  {j.name : j \in jobs \cup cache \cup toSync \cup UNION {deletes[a] : a \in Actors}}
    \cup {stream[k].job.name : k \in DOMAIN stream}
    \cup {notes[k].job.name : k \in DOMAIN notes}

\* The API server sends a watch event once the informer has listed.
Emit(type, j) ==
  stream' = IF phase = "running"
            THEN Append(stream, [type |-> type, job |-> j])
            ELSE stream

Fault(kind) ==
  /\ kind \in Faults
  /\ faults < MaxFaults
  /\ faults' = faults + 1

-----------------------------------------------------------------------------
(* The life of the process *)

Init ==
  /\ crontab \in [Users -> Contents]
  /\ access = [u \in Users |-> "ok"]
  /\ jobs = {}
  /\ phase = "down"
  /\ toSync = {} /\ stream = <<>> /\ cache = {} /\ notes = <<>>
  /\ dirty = {} /\ requests = {} /\ polling = FALSE
  /\ stage = [a \in Actors |-> "idle"]
  /\ owner = [a \in Actors |-> NoUser]
  /\ snap = [a \in Actors |-> <<>>]
  /\ creates = [a \in Actors |-> {}]
  /\ deletes = [a \in Actors |-> {}]
  /\ gaps = {} /\ misread = {} /\ rushed = FALSE
  /\ edits = 0 /\ faults = 0

\* The process ends; what it held in memory is lost, the files and jobs stay.
Down ==
  /\ phase' = "down"
  /\ toSync' = {} /\ stream' = <<>> /\ cache' = {} /\ notes' = <<>>
  /\ dirty' = {} /\ requests' = {} /\ polling' = FALSE
  /\ stage' = [a \in Actors |-> "idle"]
  /\ owner' = [a \in Actors |-> NoUser]
  /\ snap' = [a \in Actors |-> <<>>]
  /\ creates' = [a \in Actors |-> {}]
  /\ deletes' = [a \in Actors |-> {}]
  /\ gaps' = {} /\ misread' = {} /\ rushed' = TRUE

\* Mutant of Restart: the watcher starts without reconciling what it found.
RestartUnreconciled ==
  /\ phase = "down"
  /\ phase' = "starting"
  /\ UNCHANGED <<fsVars, jobs, informerVars, watchVars, passVars, historyVars, boundVars>>

\* The deployment starts the container again: SetupWithManager spawns the
\* watcher goroutine, which lists the tree and reconciles every file in it.
Restart ==
  /\ phase = "down"
  /\ phase' = "starting"
  /\ requests' = {u \in Users : crontab[u] # <<>> \/ access[u] = "broken"}
  /\ UNCHANGED <<fsVars, jobs, informerVars, dirty, polling, passVars, historyVars, boundVars>>

\* Manager.Start starts the informer, which lists the existing jobs.
CacheStart ==
  /\ phase = "starting"
  /\ phase' = "running"
  /\ toSync' = jobs
  /\ UNCHANGED <<fsVars, jobs, stream, cache, notes, watchVars, passVars, historyVars, boundVars>>

-----------------------------------------------------------------------------
(* The informer: the cache is updated first, the predicates run later *)

SyncInitial(j) ==
  /\ toSync' = toSync \ {j}
  /\ cache' = cache \cup {j}
  /\ notes' = Append(notes, [type |-> "added", job |-> j])
  /\ UNCHANGED <<fsVars, jobs, phase, stream, watchVars, passVars, historyVars, boundVars>>

SyncEvent ==
  /\ toSync = {}
  /\ stream # <<>>
  /\ cache' = IF Head(stream).type = "added"
              THEN cache \cup {Head(stream).job}
              ELSE cache \ {Head(stream).job}
  /\ notes' = Append(notes, Head(stream))
  /\ stream' = Tail(stream)
  /\ UNCHANGED <<fsVars, jobs, phase, toSync, watchVars, passVars, historyVars, boundVars>>

-----------------------------------------------------------------------------
(* The watcher goroutine and Reconcile *)

\* A poll cycle sends a Write event for every directory modified since the
\* last one.  The next cycle starts once all have been received; the first
\* one when every file found at start has been reconciled.
Poll ==
  /\ phase # "down"
  /\ requests = {}
  /\ dirty # {}
  /\ polling \/ stage["watcher"] = "idle"
  /\ requests' = dirty
  /\ dirty' = {}
  /\ polling' = TRUE
  /\ UNCHANGED <<fsVars, jobs, phase, informerVars, passVars, historyVars, boundVars>>

\* A pass acts on what it read for as long as it lasts.
Read(a, u) ==
  /\ owner' = [owner EXCEPT ![a] = u]
  /\ snap' = [snap EXCEPT ![a] = FSEntry(u)]

\* Reconcile(u) up to GetFSEntryForUser, which dereferences a nil FileInfo
\* when Stat fails with anything but "does not exist".
BeginReconcile(u) ==
  /\ stage["watcher"] = "idle"
  /\ u \in requests
  /\ IF access[u] = "broken"
     THEN Down /\ UNCHANGED <<fsVars, jobs, boundVars>>
     ELSE /\ Read("watcher", u)
          /\ requests' = requests \ {u}
          /\ stage' = [stage EXCEPT !["watcher"] = "list"]
          /\ gaps' = {g \in gaps : g[1] # u}
          /\ misread' = IF access[u] = "denied" THEN misread \cup {u} ELSE misread \ {u}
          /\ UNCHANGED <<fsVars, jobs, phase, informerVars, dirty, polling,
                         creates, deletes, rushed, boundVars>>

\* Mutant of ListedFor: the selector keeps the jobs of every user.
ListedForAll(u) == IF phase = "starting" THEN {} ELSE cache

\* List, with the label selector of the user: it reads the cache, and fails
\* before the cache is started, which reads as no jobs.
ListedFor(u) == IF phase = "starting" THEN {} ELSE {j \in cache : j.user = u}

\* Mutant of MissingCalls: the test for a line that has its job is gone.
EveryCall(content, listed) == CallsFor(content, IdsOf(content))

\* Mutant of ExtraJobs: a clean-up of duplicates that spares none of them.
ExtraOrDoubled(content, listed) ==
  {j \in listed : j.id \notin IdsOf(content) \/ \E k \in listed \ {j} : k.id = j.id}

\* The lines without a listed job, and the listed jobs without a line.
MissingCalls(content, listed) == CallsFor(content, IdsOf(content) \ {j.id : j \in listed})
ExtraJobs(content, listed) == {j \in listed : j.id \notin IdsOf(content)}

\* getValidK8sCronjobsSchedulesForUser; a started cache makes it wait for the
\* first sync.
ListJobs ==
  LET listed == ListedFor(owner["watcher"])
  IN  /\ stage["watcher"] = "list"
      /\ phase = "running" => toSync = {}
      /\ stage' = [stage EXCEPT !["watcher"] = "calls"]
      /\ creates' = [creates EXCEPT !["watcher"] = MissingCalls(snap["watcher"], listed)]
      /\ deletes' = [deletes EXCEPT !["watcher"] = ExtraJobs(snap["watcher"], listed)]
      /\ UNCHANGED <<fsVars, jobs, phase, informerVars, watchVars, owner, snap,
                     historyVars, boundVars>>

-----------------------------------------------------------------------------
(* The predicates CreateFunc and DeleteFunc, up to their first API call *)

\* Mutant of EventCreates: the deleted job is created again unseen.
EventRecreates(e, content) == IF e.type = "deleted" THEN {<<1, e.job.id>>} ELSE {}

\* Mutant of EventDeletes: CreateFunc only looks.
EventDeletesNone(e, content) == {}

\* DeleteFunc creates the job of a line that is still in the file again, ...
EventCreates(e, content) ==
  IF e.type = "deleted" THEN CallsFor(content, {e.job.id}) ELSE {}

\* ... CreateFunc deletes a job whose line is not.
EventDeletes(e, content) ==
  IF e.type = "added" /\ e.job.id \notin IdsOf(content) THEN {e.job} ELSE {}

HandleEvent ==
  LET e == Head(notes)
      u == e.job.user
  IN  /\ stage["handler"] = "idle"
      /\ notes # <<>>
      /\ IF access[u] = "broken"
         THEN Down /\ UNCHANGED <<fsVars, jobs, boundVars>>
         ELSE /\ Read("handler", u)
              /\ notes' = Tail(notes)
              /\ stage' = [stage EXCEPT !["handler"] = "calls"]
              /\ creates' = [creates EXCEPT !["handler"] = EventCreates(e, FSEntry(u))]
              /\ deletes' = [deletes EXCEPT !["handler"] = EventDeletes(e, FSEntry(u))]
              /\ misread' = IF access[u] = "denied" THEN misread \cup {u} ELSE misread
              /\ UNCHANGED <<fsVars, jobs, phase, toSync, stream, cache, watchVars,
                             gaps, rushed, boundVars>>

-----------------------------------------------------------------------------
(* The API calls of a pass: the creations, association by association, then *)
(* the deletions.  An error is logged and the loop goes on, so a call whose *)
(* answer is lost after the API server applied it is one that succeeds.     *)

\* The calls of the first association that has any left, in map order.
NextCreates(a) == {c \in creates[a] : \A d \in creates[a] : c[1] <= d[1]}

CreateDone(a, c) == creates' = [creates EXCEPT ![a] = @ \ {c}]

\* strings.Split of a one-character line by its empty schedule has no [1].
CreatePanics(a, c) ==
  /\ c[2] \in Panics
  /\ Down
  /\ UNCHANGED <<fsVars, jobs, boundVars>>

CreateSucceeds(a, c) ==
  /\ c[2] \notin Panics \cup Rejected
  /\ \E n \in Names \ NamesInUse :
       LET j == [name |-> n, user |-> owner[a], id |-> c[2]]
       IN  jobs' = jobs \cup {j} /\ Emit("added", j)
  /\ CreateDone(a, c)
  /\ UNCHANGED <<fsVars, phase, toSync, cache, notes, watchVars, stage, owner, snap,
                 deletes, historyVars, boundVars>>

CreateRefused(a, c) ==
  /\ c[2] \in Rejected \ Panics
  /\ CreateDone(a, c)
  /\ UNCHANGED <<fsVars, jobs, phase, informerVars, watchVars, stage, owner, snap,
                 deletes, historyVars, boundVars>>

CreateFails(a, c) ==
  /\ Fault("api")
  /\ c[2] \notin Panics
  /\ CreateDone(a, c)
  /\ gaps' = gaps \cup {<<owner[a], c[2]>>}
  /\ UNCHANGED <<fsVars, jobs, phase, informerVars, watchVars, stage, owner, snap,
                 deletes, misread, rushed, edits>>

CreateCall(a) ==
  \E c \in NextCreates(a) :
    CreatePanics(a, c) \/ CreateSucceeds(a, c) \/ CreateRefused(a, c) \/ CreateFails(a, c)

DeleteDone(a, j) ==
  /\ deletes' = [deletes EXCEPT ![a] = @ \ {j}]
  /\ UNCHANGED <<fsVars, phase, toSync, cache, notes, watchVars, stage, owner, snap,
                 creates, misread, rushed, edits>>

\* A job that is already gone is a NotFound error.
DeleteSucceeds(a, j) ==
  /\ IF j \in jobs THEN Emit("deleted", j) ELSE UNCHANGED stream
  /\ jobs' = jobs \ {j}
  /\ UNCHANGED <<gaps, faults>>
  /\ DeleteDone(a, j)

DeleteFails(a, j) ==
  /\ Fault("api")
  /\ gaps' = gaps \cup {<<j.user, j.id>>}
  /\ UNCHANGED <<jobs, stream>>
  /\ DeleteDone(a, j)

DeleteCall(a) ==
  /\ creates[a] = {}
  /\ \E j \in deletes[a] : DeleteSucceeds(a, j) \/ DeleteFails(a, j)

Return(a) ==
  /\ stage[a] = "calls"
  /\ creates[a] = {} /\ deletes[a] = {}
  /\ stage' = [stage EXCEPT ![a] = "idle"]
  /\ owner' = [owner EXCEPT ![a] = NoUser]
  /\ snap' = [snap EXCEPT ![a] = <<>>]
  /\ UNCHANGED <<fsVars, jobs, phase, informerVars, watchVars, creates, deletes,
                 historyVars, boundVars>>

-----------------------------------------------------------------------------
(* The environment: users, cluster administrators, faults *)

\* Nothing the operator has to do is left.
Quiescent ==
  /\ phase = "running"
  /\ toSync = {} /\ stream = <<>> /\ notes = <<>>
  /\ dirty = {} /\ requests = {}
  /\ \A a \in Actors : stage[a] = "idle"

Touch(u) == dirty' = IF phase = "down" THEN dirty ELSE dirty \cup {u}

UserChange(u, content) ==
  /\ edits < MaxEdits
  /\ edits' = edits + 1
  /\ content # crontab[u]
  /\ rushed' = (rushed \/ ~Quiescent)
  /\ crontab' = [crontab EXCEPT ![u] = content]

\* The file is replaced, created or removed: its directory changes.
Edit(u, content) ==
  /\ UserChange(u, content)
  /\ Touch(u)
  /\ UNCHANGED <<access, jobs, phase, informerVars, requests, polling, passVars,
                 gaps, misread, faults>>

\* The file is written in place: its directory keeps its modification time.
Rewrite(u, content) ==
  /\ Fault("inplace")
  /\ <<>> \notin {content, crontab[u]}
  /\ UserChange(u, content)
  /\ gaps' = gaps \cup ({u} \X {i \in Ids : i \in IdsOf(content) <=> i \notin IdsOf(crontab[u])})
  /\ UNCHANGED <<access, jobs, phase, informerVars, watchVars, passVars, misread>>

\* The file loses its read permission, which its directory does not show, ...
Deny(u) ==
  /\ Fault("denied")
  /\ access[u] = "ok"
  /\ crontab[u] # <<>>
  /\ access' = [access EXCEPT ![u] = "denied"]
  /\ UNCHANGED <<crontab, jobs, phase, informerVars, watchVars, passVars, historyVars, edits>>

\* ... or becomes a link that Stat cannot follow.
Break(u) ==
  /\ Fault("broken")
  /\ access[u] = "ok"
  /\ access' = [access EXCEPT ![u] = "broken"]
  /\ Touch(u)
  /\ UNCHANGED <<crontab, jobs, phase, informerVars, requests, polling, passVars,
                 historyVars, edits>>

RestoreAccess(u) ==
  /\ access[u] # "ok"
  /\ access' = [access EXCEPT ![u] = "ok"]
  /\ IF access[u] = "broken" THEN Touch(u) ELSE UNCHANGED dirty
  /\ UNCHANGED <<crontab, jobs, phase, informerVars, requests, polling, passVars,
                 historyVars, boundVars>>

\* A job is deleted behind the operator's back.  Before the informer has
\* listed, no event will tell.
ExternalDelete(j) ==
  /\ Fault("kubectl")
  /\ jobs' = jobs \ {j}
  /\ Emit("deleted", j)
  /\ gaps' = IF phase = "starting" THEN gaps \cup {<<j.user, j.id>>} ELSE gaps
  /\ UNCHANGED <<fsVars, phase, toSync, cache, notes, watchVars, passVars, misread, rushed, edits>>

Crash ==
  /\ Fault("crash")
  /\ phase # "down"
  /\ Down
  /\ UNCHANGED <<fsVars, jobs, edits>>

Environment ==
  \/ \E u \in Users, content \in Contents : Edit(u, content) \/ Rewrite(u, content)
  \/ \E u \in Users : Deny(u) \/ Break(u) \/ RestoreAccess(u)
  \/ \E j \in jobs : ExternalDelete(j)
  \/ Crash

Operator ==
  \/ Restart
  \/ CacheStart
  \/ \E j \in toSync : SyncInitial(j)
  \/ SyncEvent
  \/ Poll
  \/ \E u \in Users : BeginReconcile(u)
  \/ ListJobs
  \/ HandleEvent
  \/ \E a \in Actors : CreateCall(a) \/ DeleteCall(a) \/ Return(a)

Next == Operator \/ Environment

Spec == Init /\ [][Next]_vars

\* The Go scheduler runs every goroutine that can run, the API server answers,
\* the kubelet restarts the container.  Users and faults are not forced.
Fairness ==
  /\ WF_vars(Restart)
  /\ WF_vars(CacheStart)
  /\ WF_vars((\E j \in toSync : SyncInitial(j)) \/ SyncEvent)
  /\ WF_vars(Poll)
  /\ WF_vars((\E u \in Users : BeginReconcile(u)) \/ ListJobs
               \/ CreateCall("watcher") \/ DeleteCall("watcher") \/ Return("watcher"))
  /\ WF_vars(HandleEvent \/ CreateCall("handler") \/ DeleteCall("handler") \/ Return("handler"))

FairSpec == Spec /\ Fairness

-----------------------------------------------------------------------------
(* Properties *)

\* Every variable keeps the shape its declaration gives it.
TypeOK ==
  /\ crontab \in [Users -> Contents]
  /\ access \in [Users -> {"ok", "denied", "broken"}]
  /\ jobs \subseteq Job
  /\ phase \in {"down", "starting", "running"}
  /\ toSync \subseteq Job /\ stream \in Seq(Event)
  /\ cache \subseteq Job /\ notes \in Seq(Event)
  /\ dirty \subseteq Users /\ requests \subseteq Users /\ polling \in BOOLEAN
  /\ stage \in [Actors -> {"idle", "list", "calls"}]
  /\ owner \in [Actors -> Users \cup {NoUser}]
  /\ snap \in [Actors -> Contents]
  /\ creates \in [Actors -> SUBSET (Nat \X Ids)]
  /\ deletes \in [Actors -> SUBSET Job]
  /\ gaps \subseteq Users \X Ids /\ misread \subseteq Users /\ rushed \in BOOLEAN
  /\ edits \in 0 .. MaxEdits /\ faults \in 0 .. MaxFaults

\* An idle actor keeps nothing of its last pass, and a pass makes no call
\* before it has compared the file with the jobs.
PassShape ==
  \A a \in Actors :
    /\ stage[a] = "idle" <=> owner[a] = NoUser
    /\ stage[a] = "idle" => snap[a] = <<>>
    /\ stage[a] # "calls" => creates[a] = {} /\ deletes[a] = {}

InFile(u, i) == i \in IdsOf(crontab[u])
HasJob(u, i) == JobsOf(u, i) # {}

\* An actor is in the middle of a pass that read i in the file of u.
ReadBy(a, u, i) == owner[a] = u /\ i \in IdsOf(snap[a])

\* A pass only calls the API for its own user: it creates what it read in the
\* file and deletes what it did not read there, whatever the other actor, the
\* cache and the file have done since.
SnapshotJustified ==
  \A a \in Actors :
    /\ \A c \in creates[a] : c[2] \in IdsOf(snap[a])
    /\ \A j \in deletes[a] : j.user = owner[a] /\ j.id \notin IdsOf(snap[a])

\* The operator never takes the last job of a line that is in the file and
\* that every pass over that user in progress has read there: no actor undoes
\* what the other one does for a line that stays.
ScheduledStaysScheduled ==
  [][Operator =>
       \A u \in Users, i \in Ids :
         (/\ InFile(u, i) /\ HasJob(u, i)
          /\ \A a \in Actors : owner[a] = u => ReadBy(a, u, i))
         => HasJob(u, i)']_vars

\* The operator never adds a job for a line that is not in the file, unless a
\* pass that read it before it went away is still in progress.
NoResurrection ==
  [][Operator =>
       \A u \in Users, i \in Ids :
         (~InFile(u, i) /\ \A a \in Actors : ~ReadBy(a, u, i))
         => JobsOf(u, i)' \subseteq JobsOf(u, i)]_vars

Consistent(u, i) == InFile(u, i) <=> HasJob(u, i)

\* What the operator can answer for: a line whose schedule the API server
\* takes, of a file it could read, with no change it cannot notice.
Answerable(u, i) == u \notin misread /\ <<u, i>> \notin gaps /\ i \notin Rejected

\* When nothing is left to do, the lines of the files and the jobs of the
\* namespace agree, whatever edits, stale lists, crashes, deletions by others
\* and concurrent passes led there.  What the code never retries is excluded
\* by name, in Answerable.
QuiescentConsistent ==
  Quiescent => \A u \in Users, i \in Ids : Answerable(u, i) => Consistent(u, i)

\* How often a file may hold a line.
Occurrences(i) ==
  {Cardinality({k \in DOMAIN content : i \in content[k]}) : content \in Contents}

\* When users wait for the operator to settle before each edit and nothing
\* fails, the stale cache and the two actors never give a line more jobs than
\* a file holds it times.
AtMostOneJob ==
  ~rushed /\ faults = 0 =>
    \A u \in Users, i \in Ids :
      \E n \in Occurrences(i) : Cardinality(JobsOf(u, i)) <= n

\* What CronSchedule sees of a state: which lines are in a file and have a job,
\* not how often or by which object.
Schedule ==
  INSTANCE CronSchedule WITH
    Readers <- Actors,
    NoView <- <<NoUser, {}>>,
    Losable <- "kubectl" \in Faults,
    lines <- [u \in Users |-> IdsOf(crontab[u])],
    readable <- [u \in Users |-> access[u] = "ok"],
    scheduled <- {<<j.user, j.id>> : j \in jobs},
    views <- [a \in Actors |-> <<owner[a], IdsOf(snap[a])>>]

\* A line gets a job only from an actor that read it in its owner's file, and
\* loses the last one only to an actor that did not find it there, or to
\* somebody outside the operator where there is one.
ImplementsSchedule == Schedule!Spec

\* Once users stop editing, files and jobs agree for ever.
Convergence ==
  <>[](\A u \in Users, i \in Ids : Answerable(u, i) => Consistent(u, i))

=============================================================================
