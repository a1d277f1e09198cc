----------------------- MODULE CronJobControllerProofs -----------------------
(* Theorems about CronJobController, for every value of its constants. *)
EXTENDS CronJobController, TLAPS

\* What the helpers on crontabs return.
LEMMA IdsOfType == \A content \in Seq(SUBSET Ids) : IdsOf(content) \subseteq Ids
  BY DEF IdsOf

LEMMA CallsForType ==
  ASSUME NEW content \in Seq(SUBSET Ids), NEW wanted
  PROVE  /\ CallsFor(content, wanted) \subseteq Nat \X Ids
         /\ \A c \in CallsFor(content, wanted) : c[2] \in wanted /\ c[2] \in IdsOf(content)
  <1>1. CallsFor(content, wanted) \subseteq (DOMAIN content) \X Ids
    BY DEF CallsFor
  <1>2. DOMAIN content \subseteq Nat
    OBVIOUS
  <1>3. ASSUME NEW c \in CallsFor(content, wanted)
        PROVE  c[2] \in wanted /\ c[2] \in IdsOf(content)
    BY DEF CallsFor, IdsOf
  <1>4. QED
    BY <1>1, <1>2, <1>3

\* A read returns the content of some file.
LEMMA FSEntryType ==
  ASSUME TypeOK, NEW u \in Users
  PROVE  FSEntry(u) \in Contents
  BY ConstantsAssumption DEF TypeOK, FSEntry

\* The end of the process leaves every variable it resets well-typed.
LEMMA DownResets ==
  ASSUME Down,
         crontab' \in [Users -> Contents],
         access' \in [Users -> {"ok", "denied", "broken"}],
         jobs' \subseteq Job,
         edits' \in 0 .. MaxEdits, faults' \in 0 .. MaxFaults
  PROVE  TypeOK'
  <1>2. /\ stream' \in Seq(Event) /\ notes' \in Seq(Event)
        /\ toSync' \subseteq Job /\ cache' \subseteq Job
    BY DEF Down
  <1>3. /\ phase' \in {"down", "starting", "running"} /\ polling' \in BOOLEAN
        /\ dirty' \subseteq Users /\ requests' \subseteq Users
        /\ gaps' \subseteq Users \X Ids /\ misread' \subseteq Users /\ rushed' \in BOOLEAN
    BY DEF Down
  <1>4. /\ stage' \in [Actors -> {"idle", "list", "calls"}]
        /\ owner' \in [Actors -> Users \cup {NoUser}]
        /\ snap' \in [Actors -> Contents]
    BY ConstantsAssumption DEF Down
  <1>5. /\ creates' \in [Actors -> SUBSET (Nat \X Ids)]
        /\ deletes' \in [Actors -> SUBSET Job]
    BY DEF Down
  <1>6. QED
    BY <1>2, <1>3, <1>4, <1>5 DEF TypeOK

LEMMA DownType ==
  ASSUME TypeOK, Down, UNCHANGED <<fsVars, jobs, boundVars>>
  PROVE  TypeOK'
  BY DownResets DEF TypeOK, fsVars, boundVars

\* The API server's events are about jobs.
LEMMA EmitType ==
  ASSUME TypeOK, NEW type \in {"added", "deleted"}, NEW j \in Job, Emit(type, j)
  PROVE  stream' \in Seq(Event)
  <1>1. [type |-> type, job |-> j] \in Event
    BY DEF Event
  <1>2. QED
    BY <1>1 DEF TypeOK, Emit

LEMMA CreateCallType ==
  ASSUME TypeOK, PassShape, NEW a \in Actors, CreateCall(a)
  PROVE  TypeOK'
  <1>1. PICK c \in NextCreates(a) :
          CreatePanics(a, c) \/ CreateSucceeds(a, c) \/ CreateRefused(a, c) \/ CreateFails(a, c)
    BY DEF CreateCall
  <1>2. c \in creates[a] /\ c \in Nat \X Ids
    BY DEF NextCreates, TypeOK
  <1>3. owner[a] \in Users
    BY <1>2 DEF PassShape, TypeOK
  <1>4. CASE CreatePanics(a, c)
    BY <1>4, DownType DEF CreatePanics
  <1>5. CASE CreateSucceeds(a, c)
    <2>1. PICK n \in Names :
            LET j == [name |-> n, user |-> owner[a], id |-> c[2]]
            IN  jobs' = jobs \cup {j} /\ Emit("added", j)
      BY <1>5 DEF CreateSucceeds
    <2>2. [name |-> n, user |-> owner[a], id |-> c[2]] \in Job
      BY <1>2, <1>3 DEF Job
    <2>3. jobs' \subseteq Job /\ stream' \in Seq(Event)
      BY <2>1, <2>2, EmitType DEF TypeOK
    <2>4. creates' \in [Actors -> SUBSET (Nat \X Ids)]
      BY <1>5 DEF CreateSucceeds, CreateDone, TypeOK
    <2>5. QED
      BY <1>5, <2>3, <2>4
      DEF CreateSucceeds, TypeOK, fsVars, watchVars, historyVars, boundVars
  <1>6. CASE CreateRefused(a, c)
    BY <1>6 DEF CreateRefused, CreateDone, TypeOK, fsVars, informerVars, watchVars, historyVars, boundVars
  <1>7. CASE CreateFails(a, c)
    <2>1. gaps' \subseteq Users \X Ids /\ faults' \in 0 .. MaxFaults
      BY <1>2, <1>3, <1>7, ConstantsAssumption DEF CreateFails, Fault, TypeOK
    <2>2. creates' \in [Actors -> SUBSET (Nat \X Ids)]
      BY <1>7 DEF CreateFails, CreateDone, TypeOK
    <2>3. QED
      BY <1>7, <2>1, <2>2 DEF CreateFails, TypeOK, fsVars, informerVars, watchVars
  <1>8. QED
    BY <1>1, <1>4, <1>5, <1>6, <1>7

LEMMA DeleteCallType ==
  ASSUME TypeOK, NEW a \in Actors, DeleteCall(a)
  PROVE  TypeOK'
  <1>1. PICK j \in deletes[a] : DeleteSucceeds(a, j) \/ DeleteFails(a, j)
    BY DEF DeleteCall
  <1>2. j \in Job
    BY DEF TypeOK
  <1>3. /\ DeleteDone(a, j)
        /\ deletes' \in [Actors -> SUBSET Job]
    BY <1>1 DEF DeleteSucceeds, DeleteFails, DeleteDone, TypeOK
  <1>4. CASE DeleteSucceeds(a, j)
    <2>1. stream' \in Seq(Event)
      BY <1>2, <1>4, EmitType DEF DeleteSucceeds, TypeOK
    <2>2. QED
      BY <1>3, <1>4, <2>1 DEF DeleteSucceeds, DeleteDone, TypeOK, fsVars, watchVars
  <1>5. CASE DeleteFails(a, j)
    <2>1. gaps' \subseteq Users \X Ids /\ faults' \in 0 .. MaxFaults
      BY <1>2, <1>5, ConstantsAssumption DEF DeleteFails, Fault, TypeOK, Job
    <2>2. QED
      BY <1>3, <1>5, <2>1 DEF DeleteFails, DeleteDone, TypeOK, fsVars, watchVars
  <1>6. QED
    BY <1>1, <1>4, <1>5

LEMMA OperatorType ==
  ASSUME TypeOK, PassShape, Operator
  PROVE  TypeOK'
  <1>1. CASE Restart
    BY <1>1 DEF Restart, TypeOK, fsVars, informerVars, passVars, historyVars, boundVars
  <1>2. CASE CacheStart
    BY <1>2 DEF CacheStart, TypeOK, fsVars, watchVars, passVars, historyVars, boundVars
  <1>3. ASSUME NEW j \in toSync, SyncInitial(j)
        PROVE  TypeOK'
    <2>1. [type |-> "added", job |-> j] \in Event
      BY DEF TypeOK, Event
    <2>2. QED
      BY <1>3, <2>1 DEF SyncInitial, TypeOK, fsVars, watchVars, passVars, historyVars, boundVars
  <1>4. CASE SyncEvent
    <2>1. stream \in Seq(Event) /\ notes \in Seq(Event) /\ stream # <<>>
      BY <1>4 DEF SyncEvent, TypeOK
    <2>2. Head(stream) \in Event /\ Tail(stream) \in Seq(Event)
      BY <2>1
    <2>3. stream' \in Seq(Event) /\ notes' \in Seq(Event)
      BY <1>4, <2>1, <2>2 DEF SyncEvent
    <2>4. Head(stream).job \in Job
      BY <2>2 DEF Event
    <2>5. cache' \subseteq Job
      BY <1>4, <2>4 DEF SyncEvent, TypeOK
    <2>6. QED
      BY <1>4, <2>3, <2>5 DEF SyncEvent, TypeOK, fsVars, watchVars, passVars, historyVars, boundVars
  <1>5. CASE Poll
    BY <1>5 DEF Poll, TypeOK, fsVars, informerVars, passVars, historyVars, boundVars
  <1>6. ASSUME NEW u \in Users, BeginReconcile(u)
        PROVE  TypeOK'
    <2>1. CASE access[u] = "broken"
      BY <1>6, <2>1, DownType DEF BeginReconcile
    <2>2. CASE access[u] # "broken"
      BY <1>6, <2>2, FSEntryType
      DEF BeginReconcile, Read, Actors, TypeOK, fsVars, informerVars, boundVars
    <2>3. QED
      BY <2>1, <2>2
  <1>7. CASE ListJobs
    <2>1. snap["watcher"] \in Seq(SUBSET Ids)
      BY ConstantsAssumption DEF TypeOK, Actors
    <2>2. /\ MissingCalls(snap["watcher"], ListedFor(owner["watcher"])) \subseteq Nat \X Ids
          /\ ExtraJobs(snap["watcher"], ListedFor(owner["watcher"])) \subseteq Job
      <3>1. MissingCalls(snap["watcher"], ListedFor(owner["watcher"])) \subseteq Nat \X Ids
        BY <2>1, CallsForType DEF MissingCalls
      <3>2. ListedFor(owner["watcher"]) \subseteq Job
        BY DEF ListedFor, TypeOK
      <3>3. QED
        BY <3>1, <3>2 DEF ExtraJobs
    <2>3. creates' \in [Actors -> SUBSET (Nat \X Ids)]
      BY <1>7, <2>2 DEF ListJobs, TypeOK
    <2>4. deletes' \in [Actors -> SUBSET Job]
      BY <1>7, <2>2 DEF ListJobs, TypeOK
    <2>5. stage' \in [Actors -> {"idle", "list", "calls"}]
      BY <1>7 DEF ListJobs, TypeOK
    <2>6. QED
      BY <1>7, <2>3, <2>4, <2>5
      DEF ListJobs, TypeOK, fsVars, informerVars, watchVars, historyVars, boundVars
  <1>8. CASE HandleEvent
    <2> DEFINE e == Head(notes)
               u == e.job.user
    <2>1. e \in Event /\ u \in Users /\ Tail(notes) \in Seq(Event)
      <3>1. notes \in Seq(Event) /\ notes # <<>>
        BY <1>8 DEF HandleEvent, TypeOK
      <3>2. e \in Event /\ Tail(notes) \in Seq(Event)
        BY <3>1
      <3>3. QED
        BY <3>2 DEF Event, Job
    <2>2. CASE access[u] = "broken"
      BY <1>8, <2>2, DownType DEF HandleEvent
    <2>3. CASE access[u] # "broken"
      <3>1. FSEntry(u) \in Contents /\ FSEntry(u) \in Seq(SUBSET Ids)
        BY <2>1, FSEntryType, ConstantsAssumption
      <3>2. EventCreates(e, FSEntry(u)) \subseteq Nat \X Ids
        BY <3>1, CallsForType DEF EventCreates
      <3>3. EventDeletes(e, FSEntry(u)) \subseteq Job
        BY <2>1 DEF EventDeletes, Event
      <3>4. /\ creates' \in [Actors -> SUBSET (Nat \X Ids)]
            /\ deletes' \in [Actors -> SUBSET Job]
        <4>1. /\ creates' = [creates EXCEPT !["handler"] = EventCreates(e, FSEntry(u))]
              /\ deletes' = [deletes EXCEPT !["handler"] = EventDeletes(e, FSEntry(u))]
          BY <1>8, <2>3 DEF HandleEvent
        <4>2. QED
          BY <3>2, <3>3, <4>1 DEF TypeOK
      <3>5. /\ stage' \in [Actors -> {"idle", "list", "calls"}]
            /\ owner' \in [Actors -> Users \cup {NoUser}]
            /\ snap' \in [Actors -> Contents]
            /\ misread' \subseteq Users
        <4>1. /\ stage' = [stage EXCEPT !["handler"] = "calls"]
              /\ owner' = [owner EXCEPT !["handler"] = u]
              /\ snap' = [snap EXCEPT !["handler"] = FSEntry(u)]
              /\ misread' \subseteq misread \cup {u}
          BY <1>8, <2>3 DEF HandleEvent, Read
        <4>2. QED
          BY <2>1, <3>1, <4>1 DEF TypeOK
      <3>6. notes' \in Seq(Event)
        BY <1>8, <2>1, <2>3 DEF HandleEvent
      <3>7. UNCHANGED <<fsVars, jobs, phase, toSync, stream, cache, watchVars, gaps, rushed, boundVars>>
        BY <1>8, <2>3 DEF HandleEvent
      <3>8. QED
        BY <3>4, <3>5, <3>6, <3>7 DEF TypeOK, fsVars, watchVars, boundVars
    <2>4. QED
      BY <2>2, <2>3
  <1>9. ASSUME NEW a \in Actors, Return(a)
        PROVE  TypeOK'
    BY <1>9, ConstantsAssumption
    DEF Return, TypeOK, fsVars, informerVars, watchVars, historyVars, boundVars
  <1>10. QED
    BY <1>1, <1>2, <1>3, <1>4, <1>5, <1>6, <1>7, <1>8, <1>9, CreateCallType, DeleteCallType DEF Operator

LEMMA EnvironmentType ==
  ASSUME TypeOK, Environment
  PROVE  TypeOK'
  <1>1. ASSUME NEW u \in Users, NEW content \in Contents, Edit(u, content)
        PROVE  TypeOK'
    BY <1>1, ConstantsAssumption
    DEF Edit, UserChange, Touch, TypeOK, informerVars, passVars, historyVars
  <1>2. ASSUME NEW u \in Users, NEW content \in Contents, Rewrite(u, content)
        PROVE  TypeOK'
    BY <1>2, ConstantsAssumption
    DEF Rewrite, UserChange, Fault, TypeOK, informerVars, watchVars, passVars
  <1>3. ASSUME NEW u \in Users, Deny(u)
        PROVE  TypeOK'
    BY <1>3, ConstantsAssumption
    DEF Deny, Fault, TypeOK, informerVars, watchVars, passVars, historyVars
  <1>4. ASSUME NEW u \in Users, Break(u)
        PROVE  TypeOK'
    BY <1>4, ConstantsAssumption
    DEF Break, Fault, Touch, TypeOK, informerVars, passVars, historyVars
  <1>5. ASSUME NEW u \in Users, RestoreAccess(u)
        PROVE  TypeOK'
    BY <1>5
    DEF RestoreAccess, Touch, TypeOK, informerVars, passVars, historyVars, boundVars
  <1>6. ASSUME NEW j \in jobs, ExternalDelete(j)
        PROVE  TypeOK'
    <2>1. j \in Job
      BY DEF TypeOK
    <2>2. stream' \in Seq(Event)
      BY <1>6, <2>1, EmitType DEF ExternalDelete
    <2>3. gaps' \subseteq Users \X Ids /\ faults' \in 0 .. MaxFaults
      BY <1>6, <2>1, ConstantsAssumption DEF ExternalDelete, Fault, TypeOK, Job
    <2>4. QED
      BY <1>6, <2>2, <2>3 DEF ExternalDelete, TypeOK, fsVars, watchVars, passVars
  <1>7. CASE Crash
    <2>1. /\ crontab' \in [Users -> Contents]
          /\ access' \in [Users -> {"ok", "denied", "broken"}]
          /\ jobs' \subseteq Job
          /\ edits' \in 0 .. MaxEdits /\ faults' \in 0 .. MaxFaults
      BY <1>7, ConstantsAssumption DEF Crash, Fault, TypeOK, fsVars
    <2>2. QED
      BY <1>7, <2>1, DownResets DEF Crash
  <1>8. QED
    BY <1>1, <1>2, <1>3, <1>4, <1>5, <1>6, <1>7 DEF Environment

\* Nothing a step writes into a pass lets it start, or keep, a call early.
LEMMA PassShapeStep ==
  ASSUME TypeOK, PassShape, [Next]_vars
  PROVE  PassShape'
  <1> USE ConstantsAssumption
  <1>1. CASE Down
    BY <1>1 DEF Down, PassShape
  <1>2. CASE UNCHANGED passVars
    BY <1>2 DEF PassShape, passVars
  <1>3. ASSUME NEW u \in Users, BeginReconcile(u), ~Down
        PROVE  PassShape'
    BY <1>3 DEF BeginReconcile, Read, PassShape, TypeOK, Actors
  <1>4. CASE ListJobs
    BY <1>4 DEF ListJobs, PassShape, TypeOK, Actors
  <1>5. ASSUME HandleEvent, ~Down
        PROVE  PassShape'
    <2>1. Head(notes).job.user \in Users
      <3>1. notes \in Seq(Event) /\ notes # <<>>
        BY <1>5 DEF HandleEvent, TypeOK
      <3>2. Head(notes) \in Event
        BY <3>1
      <3>3. QED
        BY <3>2 DEF Event, Job
    <2>2. stage["handler"] = "idle"
      BY <1>5 DEF HandleEvent
    <2>3. /\ stage' = [stage EXCEPT !["handler"] = "calls"]
          /\ owner' = [owner EXCEPT !["handler"] = Head(notes).job.user]
          /\ \E s : snap' = [snap EXCEPT !["handler"] = s]
          /\ \E c : creates' = [creates EXCEPT !["handler"] = c]
          /\ \E d : deletes' = [deletes EXCEPT !["handler"] = d]
      BY <1>5 DEF HandleEvent, Read
    <2>4. QED
      BY <2>1, <2>2, <2>3 DEF PassShape, TypeOK, Actors
  <1>6. ASSUME NEW a \in Actors, CreateCall(a), ~Down
        PROVE  PassShape'
    <2>1. PICK c \in creates[a] : CreateDone(a, c)
      BY <1>6 DEF CreateCall, NextCreates, CreatePanics, CreateSucceeds, CreateRefused, CreateFails
    <2>2. UNCHANGED <<stage, owner, snap, deletes>>
      BY <1>6 DEF CreateCall, CreatePanics, CreateSucceeds, CreateRefused, CreateFails
    <2>3. QED
      BY <2>1, <2>2 DEF CreateDone, PassShape, TypeOK
  <1>7. ASSUME NEW a \in Actors, DeleteCall(a)
        PROVE  PassShape'
    <2>1. PICK j \in deletes[a] : DeleteDone(a, j)
      BY <1>7 DEF DeleteCall, DeleteSucceeds, DeleteFails
    <2>2. QED
      BY <2>1 DEF DeleteDone, PassShape, TypeOK
  <1>8. ASSUME NEW a \in Actors, Return(a)
        PROVE  PassShape'
    BY <1>8 DEF Return, PassShape, TypeOK
  <1>9. CASE Operator
    <2>1. CASE Restart \/ CacheStart \/ (\E j \in toSync : SyncInitial(j)) \/ SyncEvent \/ Poll
      BY <2>1, <1>2 DEF Restart, CacheStart, SyncInitial, SyncEvent, Poll
    <2>2. QED
      BY <1>1, <1>3, <1>4, <1>5, <1>6, <1>7, <1>8, <1>9, <2>1 DEF Operator
  <1>10. CASE Environment
    BY <1>1, <1>2, <1>10
    DEF Environment, Edit, Rewrite, Deny, Break, RestoreAccess, ExternalDelete, Crash
  <1>11. CASE UNCHANGED vars
    BY <1>2, <1>11 DEF vars
  <1>12. QED
    BY <1>9, <1>10, <1>11 DEF Next

\* Every reachable state is well-typed, with any number of users, lines, names,
\* edits and faults; PassShape makes the owner of a call a user.
THEOREM TypeCorrect == Spec => [](TypeOK /\ PassShape)
  <1>1. Init => TypeOK /\ PassShape
    <2>1. ASSUME Init
          PROVE  /\ snap \in [Actors -> Contents]
                 /\ stream \in Seq(Event) /\ notes \in Seq(Event)
                 /\ edits \in 0 .. MaxEdits /\ faults \in 0 .. MaxFaults
      BY <2>1, ConstantsAssumption DEF Init
    <2>2. ASSUME Init
          PROVE  PassShape
      BY <2>2 DEF Init, PassShape
    <2>3. ASSUME Init
          PROVE  /\ crontab \in [Users -> Contents]
                 /\ access \in [Users -> {"ok", "denied", "broken"}]
                 /\ stage \in [Actors -> {"idle", "list", "calls"}]
                 /\ owner \in [Actors -> Users \cup {NoUser}]
                 /\ creates \in [Actors -> SUBSET (Nat \X Ids)]
                 /\ deletes \in [Actors -> SUBSET Job]
      BY <2>3 DEF Init
    <2>4. ASSUME Init
          PROVE  /\ jobs = {} /\ toSync = {} /\ cache = {} /\ dirty = {} /\ requests = {}
                 /\ gaps = {} /\ misread = {}
                 /\ phase \in {"down", "starting", "running"}
                 /\ polling \in BOOLEAN /\ rushed \in BOOLEAN
      BY <2>4 DEF Init
    <2>5. QED
      BY <2>1, <2>2, <2>3, <2>4 DEF TypeOK
  <1>2. TypeOK /\ PassShape /\ [Next]_vars => (TypeOK /\ PassShape)'
    <2>1. ASSUME TypeOK, UNCHANGED vars
          PROVE  TypeOK'
      BY <2>1 DEF TypeOK, vars, fsVars, informerVars, watchVars, passVars, historyVars, boundVars
    <2>2. QED
      BY <2>1, OperatorType, EnvironmentType, PassShapeStep DEF Next
  <1>3. QED
    BY <1>1, <1>2, PTL DEF Spec

-----------------------------------------------------------------------------
(* What a pass may do *)

LEMMA SnapshotStep ==
  ASSUME TypeOK, PassShape, SnapshotJustified, [Next]_vars
  PROVE  SnapshotJustified'
  <1>1. CASE Down
    BY <1>1 DEF Down, SnapshotJustified
  <1>2. CASE UNCHANGED passVars
    BY <1>2 DEF SnapshotJustified, passVars
  <1>3. ASSUME NEW u \in Users, BeginReconcile(u), ~Down
        PROVE  SnapshotJustified'
    <2>1. creates["watcher"] = {} /\ deletes["watcher"] = {}
      BY <1>3 DEF BeginReconcile, PassShape, Actors
    <2>2. QED
      BY <1>3, <2>1 DEF BeginReconcile, Read, SnapshotJustified, TypeOK, Actors
  <1>4. CASE ListJobs
    <2> DEFINE content == snap["watcher"]
               listed == ListedFor(owner["watcher"])
    <2>1. content \in Seq(SUBSET Ids)
      BY ConstantsAssumption DEF TypeOK, Actors
    <2>2. \A c \in MissingCalls(content, listed) : c[2] \in IdsOf(content)
      BY <2>1, CallsForType DEF MissingCalls
    <2>3. \A j \in ExtraJobs(content, listed) :
            j.user = owner["watcher"] /\ j.id \notin IdsOf(content)
      BY DEF ExtraJobs, ListedFor
    <2>4. QED
      BY <1>4, <2>2, <2>3 DEF ListJobs, SnapshotJustified, TypeOK, Actors
  <1>5. ASSUME HandleEvent, ~Down
        PROVE  SnapshotJustified'
    <2> DEFINE e == Head(notes)
               u == e.job.user
               content == FSEntry(u)
    <2>1. u \in Users
      <3>1. notes \in Seq(Event) /\ notes # <<>>
        BY <1>5 DEF HandleEvent, TypeOK
      <3>2. e \in Event
        BY <3>1
      <3>3. QED
        BY <3>2 DEF Event, Job
    <2>2. content \in Seq(SUBSET Ids)
      BY <2>1, FSEntryType, ConstantsAssumption
    <2>3. \A c \in EventCreates(e, content) : c[2] \in IdsOf(content)
      BY <2>2, CallsForType DEF EventCreates
    <2>4. \A j \in EventDeletes(e, content) : j.user = u /\ j.id \notin IdsOf(content)
      BY DEF EventDeletes
    <2>5. /\ owner' = [owner EXCEPT !["handler"] = u]
          /\ snap' = [snap EXCEPT !["handler"] = content]
          /\ creates' = [creates EXCEPT !["handler"] = EventCreates(e, content)]
          /\ deletes' = [deletes EXCEPT !["handler"] = EventDeletes(e, content)]
      BY <1>5 DEF HandleEvent, Read
    <2>6. QED
      BY <2>3, <2>4, <2>5 DEF SnapshotJustified, TypeOK, Actors
  <1>6. ASSUME NEW a \in Actors, CreateCall(a), ~Down
        PROVE  SnapshotJustified'
    <2>1. PICK c \in creates[a] : CreateDone(a, c)
      BY <1>6 DEF CreateCall, NextCreates, CreatePanics, CreateSucceeds, CreateRefused, CreateFails
    <2>2. UNCHANGED <<stage, owner, snap, deletes>>
      BY <1>6 DEF CreateCall, CreatePanics, CreateSucceeds, CreateRefused, CreateFails
    <2>3. QED
      BY <2>1, <2>2 DEF CreateDone, SnapshotJustified, TypeOK
  <1>7. ASSUME NEW a \in Actors, DeleteCall(a)
        PROVE  SnapshotJustified'
    <2>1. PICK j \in deletes[a] : DeleteDone(a, j)
      BY <1>7 DEF DeleteCall, DeleteSucceeds, DeleteFails
    <2>2. QED
      BY <2>1 DEF DeleteDone, SnapshotJustified, TypeOK
  <1>8. ASSUME NEW a \in Actors, Return(a)
        PROVE  SnapshotJustified'
    BY <1>8 DEF Return, SnapshotJustified, TypeOK
  <1>9. CASE Operator
    <2>1. CASE Restart \/ CacheStart \/ (\E j \in toSync : SyncInitial(j)) \/ SyncEvent \/ Poll
      BY <2>1, <1>2 DEF Restart, CacheStart, SyncInitial, SyncEvent, Poll
    <2>2. QED
      BY <1>1, <1>3, <1>4, <1>5, <1>6, <1>7, <1>8, <1>9, <2>1 DEF Operator
  <1>10. CASE Environment
    BY <1>1, <1>2, <1>10
    DEF Environment, Edit, Rewrite, Deny, Break, RestoreAccess, ExternalDelete, Crash
  <1>11. CASE UNCHANGED vars
    BY <1>2, <1>11 DEF vars
  <1>12. QED
    BY <1>9, <1>10, <1>11 DEF Next

PassInv == TypeOK /\ PassShape /\ SnapshotJustified

LEMMA PassInvariant == Spec => []PassInv
  <1>1. Init => SnapshotJustified
    BY DEF Init, SnapshotJustified
  <1>2. SnapshotJustified /\ (TypeOK /\ PassShape) /\ [Next]_vars => SnapshotJustified'
    BY SnapshotStep
  <1>3. QED
    BY <1>1, <1>2, TypeCorrect, PTL DEF Spec, PassInv

\* Whatever the cache, the file and the other actor did since a pass read the
\* file, every call it still makes is about its own user and what it read.
THEOREM SnapshotsJustified == Spec => []SnapshotJustified
  BY PassInvariant, PTL DEF PassInv

\* A step of the operator adds or takes at most one job, and only by a call of
\* a pass.
LEMMA OperatorJobs ==
  ASSUME Operator
  PROVE  \/ UNCHANGED jobs
         \/ \E a \in Actors : \E c \in creates[a], n \in Names :
              jobs' = jobs \cup {[name |-> n, user |-> owner[a], id |-> c[2]]}
         \/ \E a \in Actors : \E j \in deletes[a] : jobs' = jobs \ {j}
  <1>1. CASE \/ Restart \/ CacheStart \/ (\E j \in toSync : SyncInitial(j)) \/ SyncEvent \/ Poll
             \/ (\E u \in Users : BeginReconcile(u)) \/ ListJobs \/ HandleEvent
             \/ (\E a \in Actors : Return(a))
    BY <1>1 DEF Restart, CacheStart, SyncInitial, SyncEvent, Poll, BeginReconcile, ListJobs,
                HandleEvent, Return
  <1>2. ASSUME NEW a \in Actors, CreateCall(a)
        PROVE  \/ UNCHANGED jobs
               \/ \E c \in creates[a], n \in Names :
                    jobs' = jobs \cup {[name |-> n, user |-> owner[a], id |-> c[2]]}
    BY <1>2 DEF CreateCall, NextCreates, CreatePanics, CreateSucceeds, CreateRefused, CreateFails
  <1>3. ASSUME NEW a \in Actors, DeleteCall(a)
        PROVE  \/ UNCHANGED jobs
               \/ \E j \in deletes[a] : jobs' = jobs \ {j}
    BY <1>3 DEF DeleteCall, DeleteSucceeds, DeleteFails
  <1>4. QED
    BY <1>1, <1>2, <1>3 DEF Operator

\* No line that stays in the file loses its last job to the operator, in any
\* interleaving of the two actors with edits, events and faults.
THEOREM ScheduledLinesKeepAJob == Spec => ScheduledStaysScheduled
  <1> DEFINE Keeps ==
        Operator =>
          \A u \in Users, i \in Ids :
            (/\ InFile(u, i) /\ HasJob(u, i)
             /\ \A a \in Actors : owner[a] = u => ReadBy(a, u, i))
            => HasJob(u, i)'
  <1>1. ASSUME PassInv, Operator, NEW u \in Users, NEW i \in Ids,
               HasJob(u, i), \A a \in Actors : owner[a] = u => ReadBy(a, u, i)
        PROVE  HasJob(u, i)'
    <2>1. PICK j \in jobs : j.user = u /\ j.id = i
      BY <1>1 DEF HasJob, JobsOf
    <2>2. ASSUME NEW a \in Actors, NEW d \in deletes[a]
          PROVE  d # j
      BY <1>1, <2>1 DEF PassInv, SnapshotJustified, ReadBy
    <2>3. j \in jobs'
      BY <1>1, <2>2, OperatorJobs
    <2>4. QED
      BY <2>1, <2>3 DEF HasJob, JobsOf
  <1>2. PassInv /\ [Next]_vars => [Keeps]_vars
    BY <1>1
  <1>3. QED
    BY <1>2, PassInvariant, PTL DEF Spec, ScheduledStaysScheduled

\* No line that has left the file gets a job again, once the passes that read
\* it have returned.
THEOREM RemovedLinesStayRemoved == Spec => NoResurrection
  <1> DEFINE Adds ==
        Operator =>
          \A u \in Users, i \in Ids :
            (~InFile(u, i) /\ \A a \in Actors : ~ReadBy(a, u, i))
            => JobsOf(u, i)' \subseteq JobsOf(u, i)
  <1>1. ASSUME PassInv, Operator, NEW u \in Users, NEW i \in Ids,
               \A a \in Actors : ~ReadBy(a, u, i)
        PROVE  JobsOf(u, i)' \subseteq JobsOf(u, i)
    <2>1. ASSUME NEW a \in Actors, NEW c \in creates[a], owner[a] = u
          PROVE  c[2] # i
      BY <1>1, <2>1 DEF PassInv, SnapshotJustified, ReadBy
    <2>2. QED
      BY <1>1, <2>1, OperatorJobs DEF JobsOf
  <1>2. PassInv /\ [Next]_vars => [Adds]_vars
    BY <1>1
  <1>3. QED
    BY <1>2, PassInvariant, PTL DEF Spec, NoResurrection

-----------------------------------------------------------------------------
(* CronJobController implements CronSchedule *)

LEMMA NothingRead == IdsOf(<<>>) = {}
  BY DEF IdsOf

\* An idle actor is a reader without a view, one in a pass is not.
LEMMA ViewOfActor ==
  ASSUME TypeOK, PassShape, NEW a \in Actors
  PROVE  /\ stage[a] = "idle" => <<owner[a], IdsOf(snap[a])>> = <<NoUser, {}>>
         /\ stage[a] # "idle" => owner[a] \in Users /\ owner[a] # NoUser
  BY NothingRead DEF PassShape, TypeOK

LEMMA SameView ==
  ASSUME UNCHANGED <<fsVars, jobs, owner, snap>>
  PROVE  UNCHANGED Schedule!vars
  BY DEF Schedule!vars, Schedule!fileVars, fsVars, IdsOf

LEMMA ReadLooks ==
  ASSUME TypeOK, PassShape, NEW a \in Actors, NEW u \in Users,
         stage[a] = "idle", Read(a, u), UNCHANGED <<fsVars, jobs>>
  PROVE  Schedule!Next
  <1> DEFINE views == [b \in Actors |-> <<owner[b], IdsOf(snap[b])>>]
             seen == IF access[u] = "ok" THEN IdsOf(crontab[u]) ELSE {}
  <1>1. IdsOf(FSEntry(u)) = seen
    BY NothingRead DEF FSEntry
  <1>2. views' = [views EXCEPT ![a] = <<u, seen>>]
    <2>1. owner' = [owner EXCEPT ![a] = u] /\ snap' = [snap EXCEPT ![a] = FSEntry(u)]
      BY DEF Read
    <2>2. ASSUME NEW b \in Actors
          PROVE  <<owner'[b], IdsOf(snap'[b])>> = IF b = a THEN <<u, seen>> ELSE views[b]
      BY <1>1, <2>1 DEF TypeOK
    <2>3. QED
      BY <2>2 DEF IdsOf
  <1>3. views[a] = <<NoUser, {}>>
    BY ViewOfActor
  <1>4. Schedule!Look(a, u)
    <2> DEFINE lines == [v \in Users |-> IdsOf(crontab[v])]
               readable == [v \in Users |-> access[v] = "ok"]
    <2>1. seen = IF readable[u] THEN lines[u] ELSE {}
      OBVIOUS
    <2>2. views' = [views EXCEPT ![a] = <<u, IF readable[u] THEN lines[u] ELSE {}>>]
      BY <1>2, <2>1
    <2>3. /\ UNCHANGED <<lines, readable>>
          /\ UNCHANGED {<<j.user, j.id>> : j \in jobs}
      BY DEF fsVars, IdsOf
    <2>4. QED
      BY <1>3, <2>2, <2>3 DEF Schedule!Look, Schedule!fileVars, IdsOf
  <1>5. QED
    BY <1>4 DEF Schedule!Next

LEMMA DownEnds ==
  ASSUME Down, UNCHANGED <<fsVars, jobs>>
  PROVE  Schedule!Next
  <1>1. [a \in Actors |-> <<owner'[a], IdsOf(snap'[a])>>] = [a \in Actors |-> <<NoUser, {}>>]
    BY NothingRead DEF Down
  <1>2. Schedule!End
    BY <1>1 DEF Schedule!End, Schedule!fileVars, fsVars, IdsOf
  <1>3. QED
    BY <1>2 DEF Schedule!Next

LEMMA ReturnForgets ==
  ASSUME TypeOK, NEW a \in Actors, Return(a)
  PROVE  Schedule!Next
  <1> DEFINE views == [b \in Actors |-> <<owner[b], IdsOf(snap[b])>>]
  <1>1. ASSUME NEW b \in Actors
        PROVE  <<owner'[b], IdsOf(snap'[b])>> = IF b = a THEN <<NoUser, {}>> ELSE views[b]
    BY NothingRead DEF Return, TypeOK
  <1>2. views' = [views EXCEPT ![a] = <<NoUser, {}>>]
    BY <1>1 DEF IdsOf
  <1>3. Schedule!Forget(a)
    BY <1>2 DEF Return, Schedule!Forget, Schedule!fileVars, fsVars, IdsOf
  <1>4. QED
    BY <1>3 DEF Schedule!Next

LEMMA CreateSchedules ==
  ASSUME TypeOK, PassShape, SnapshotJustified, NEW a \in Actors, CreateCall(a)
  PROVE  [Schedule!Next]_(Schedule!vars)
  <1>1. PICK c \in creates[a] :
          CreatePanics(a, c) \/ CreateSucceeds(a, c) \/ CreateRefused(a, c) \/ CreateFails(a, c)
    BY DEF CreateCall, NextCreates
  <1>2. CASE CreatePanics(a, c)
    BY <1>2, DownEnds DEF CreatePanics
  <1>3. CASE CreateRefused(a, c) \/ CreateFails(a, c)
    BY <1>3, SameView DEF CreateRefused, CreateFails
  <1>4. CASE CreateSucceeds(a, c)
    <2>1. c[2] \in Ids /\ c[2] \in IdsOf(snap[a])
      BY <1>1 DEF TypeOK, SnapshotJustified
    <2>2. owner[a] # NoUser
      BY <1>1, ViewOfActor DEF PassShape
    <2>3. PICK n : jobs' = jobs \cup {[name |-> n, user |-> owner[a], id |-> c[2]]}
      BY <1>4 DEF CreateSucceeds
    <2>4. {<<j.user, j.id>> : j \in jobs'} = {<<j.user, j.id>> : j \in jobs} \cup {<<owner[a], c[2]>>}
      <3> DEFINE created == [name |-> n, user |-> owner[a], id |-> c[2]]
      <3>1. created.user = owner[a] /\ created.id = c[2] /\ jobs' = jobs \cup {created}
        BY <2>3
      <3> HIDE DEF created
      <3>2. QED
        BY <3>1
    <2>5. Schedule!Schedule(a, c[2])
      BY <1>4, <2>1, <2>2, <2>4
      DEF CreateSucceeds, Schedule!Schedule, Schedule!fileVars, fsVars, IdsOf
    <2>6. QED
      BY <2>1, <2>5 DEF Schedule!Next
  <1>5. QED
    BY <1>1, <1>2, <1>3, <1>4

\* The pair of a job that goes has none any more, or another job keeps it.
LEMMA OneJobLess ==
  ASSUME NEW j \in jobs, jobs' = jobs \ {j}
  PROVE  \/ {<<k.user, k.id>> : k \in jobs'} = {<<k.user, k.id>> : k \in jobs}
         \/ {<<k.user, k.id>> : k \in jobs'} = {<<k.user, k.id>> : k \in jobs} \ {<<j.user, j.id>>}
  <1>1. CASE \E k \in jobs \ {j} : k.user = j.user /\ k.id = j.id
    BY <1>1
  <1>2. CASE \A k \in jobs \ {j} : ~(k.user = j.user /\ k.id = j.id)
    BY <1>2
  <1>3. QED
    BY <1>1, <1>2

LEMMA DeleteUnschedules ==
  ASSUME TypeOK, PassShape, SnapshotJustified, NEW a \in Actors, DeleteCall(a)
  PROVE  [Schedule!Next]_(Schedule!vars)
  <1>1. PICK j \in deletes[a] : DeleteSucceeds(a, j) \/ DeleteFails(a, j)
    BY DEF DeleteCall
  <1>2. /\ UNCHANGED <<fsVars, owner, snap>>
        /\ UNCHANGED jobs \/ (j \in jobs /\ jobs' = jobs \ {j})
    BY <1>1 DEF DeleteSucceeds, DeleteFails, DeleteDone
  <1>3. CASE UNCHANGED jobs
    BY <1>2, <1>3, SameView
  <1>4. CASE j \in jobs /\ jobs' = jobs \ {j}
    <2>1. j.user = owner[a] /\ j.id \notin IdsOf(snap[a])
      BY DEF SnapshotJustified
    <2>2. j.id \in Ids
      BY DEF TypeOK, Job
    <2>3. owner[a] # NoUser
      BY ViewOfActor DEF PassShape
    <2>4. CASE {<<k.user, k.id>> : k \in jobs'} = {<<k.user, k.id>> : k \in jobs}
      BY <1>2, <2>4 DEF Schedule!vars, Schedule!fileVars, fsVars, IdsOf
    <2>5. CASE {<<k.user, k.id>> : k \in jobs'} = {<<k.user, k.id>> : k \in jobs} \ {<<j.user, j.id>>}
      <3>1. Schedule!Unschedule(a, j.id)
        BY <1>2, <2>1, <2>2, <2>3, <2>5
        DEF Schedule!Unschedule, Schedule!fileVars, fsVars, IdsOf
      <3>2. QED
        BY <2>2, <3>1 DEF Schedule!Next
    <2>6. QED
      BY <1>4, <2>4, <2>5, OneJobLess
  <1>5. QED
    BY <1>2, <1>3, <1>4

LEMMA OperatorRefines ==
  ASSUME PassInv, Operator
  PROVE  [Schedule!Next]_(Schedule!vars)
  <1> USE DEF PassInv
  <1>1. CASE \/ Restart \/ CacheStart \/ (\E j \in toSync : SyncInitial(j)) \/ SyncEvent \/ Poll
             \/ ListJobs
    BY <1>1, SameView
    DEF Restart, CacheStart, SyncInitial, SyncEvent, Poll, ListJobs, passVars
  <1>2. ASSUME NEW u \in Users, BeginReconcile(u)
        PROVE  Schedule!Next
    BY <1>2, ReadLooks, DownEnds DEF BeginReconcile, Actors
  <1>3. CASE HandleEvent
    <2>1. Head(notes).job.user \in Users
      <3>1. notes \in Seq(Event) /\ notes # <<>>
        BY <1>3 DEF HandleEvent, TypeOK
      <3>2. Head(notes) \in Event
        BY <3>1
      <3>3. QED
        BY <3>2 DEF Event, Job
    <2>2. QED
      BY <1>3, <2>1, ReadLooks, DownEnds DEF HandleEvent, Actors
  <1>4. ASSUME NEW a \in Actors, CreateCall(a) \/ DeleteCall(a) \/ Return(a)
        PROVE  [Schedule!Next]_(Schedule!vars)
    BY <1>4, CreateSchedules, DeleteUnschedules, ReturnForgets
  <1>5. QED
    BY <1>1, <1>2, <1>3, <1>4 DEF Operator

\* A step that only changes files or the access to them.
LEMMA FilesChange ==
  ASSUME TypeOK', UNCHANGED <<jobs, owner, snap>>
  PROVE  Schedule!Next
  <1>1. [u \in Users |-> IdsOf(crontab'[u])] \in [Users -> SUBSET Ids]
    BY IdsOfType, ConstantsAssumption DEF TypeOK
  <1>2. [u \in Users |-> access'[u] = "ok"] \in [Users -> BOOLEAN]
    OBVIOUS
  <1>3. Schedule!Change
    BY <1>1, <1>2 DEF Schedule!Change, IdsOf
  <1>4. QED
    BY <1>3 DEF Schedule!Next

LEMMA EnvironmentRefines ==
  ASSUME TypeOK, TypeOK', Environment
  PROVE  [Schedule!Next]_(Schedule!vars)
  <1>1. ASSUME NEW u \in Users,
               \/ \E content \in Contents : Edit(u, content) \/ Rewrite(u, content)
               \/ Deny(u) \/ Break(u) \/ RestoreAccess(u)
        PROVE  Schedule!Next
    BY <1>1, FilesChange DEF Edit, Rewrite, Deny, Break, RestoreAccess, passVars
  <1>2. ASSUME NEW j \in jobs, ExternalDelete(j)
        PROVE  [Schedule!Next]_(Schedule!vars)
    <2>1. j.user \in Users /\ j.id \in Ids
      BY DEF TypeOK, Job
    <2>2. /\ UNCHANGED <<fsVars, owner, snap>>
          /\ jobs' = jobs \ {j}
          /\ "kubectl" \in Faults
      BY <1>2 DEF ExternalDelete, Fault, passVars
    <2>3. CASE {<<k.user, k.id>> : k \in jobs'} = {<<k.user, k.id>> : k \in jobs}
      BY <2>2, <2>3 DEF Schedule!vars, Schedule!fileVars, fsVars, IdsOf
    <2>4. CASE {<<k.user, k.id>> : k \in jobs'} = {<<k.user, k.id>> : k \in jobs} \ {<<j.user, j.id>>}
      <3>1. Schedule!Lose(j.user, j.id)
        BY <2>2, <2>4 DEF Schedule!Lose, Schedule!fileVars, fsVars, IdsOf
      <3>2. QED
        BY <2>1, <3>1 DEF Schedule!Next
    <2>5. QED
      BY <2>2, <2>3, <2>4, OneJobLess
  <1>3. CASE Crash
    BY <1>3, DownEnds DEF Crash
  <1>4. QED
    BY <1>1, <1>2, <1>3 DEF Environment

\* Every behaviour of the controller, with any number of users, lines, names
\* and faults, is one of the abstract schedule: each API call is a step of it,
\* each read of a file a look, and everything else a stutter.
THEOREM ControllerImplementsSchedule == Spec => ImplementsSchedule
  <1>1. Init => Schedule!Init
    <2>1. ASSUME Init
          PROVE  [u \in Users |-> IdsOf(crontab[u])] \in [Users -> SUBSET Ids]
      BY <2>1, IdsOfType, ConstantsAssumption DEF Init
    <2>2. ASSUME Init
          PROVE  /\ [u \in Users |-> access[u] = "ok"] = [u \in Users |-> TRUE]
                 /\ {<<j.user, j.id>> : j \in jobs} = {}
      BY <2>2 DEF Init
    <2>3. ASSUME Init
          PROVE  [a \in Actors |-> <<owner[a], IdsOf(snap[a])>>] = [a \in Actors |-> <<NoUser, {}>>]
      BY <2>3, NothingRead DEF Init
    <2>4. QED
      BY <2>1, <2>2, <2>3 DEF Schedule!Init
  <1>2. PassInv /\ PassInv' /\ [Next]_vars => [Schedule!Next]_(Schedule!vars)
    <2>1. ASSUME UNCHANGED vars
          PROVE  UNCHANGED Schedule!vars
      BY <2>1, SameView DEF vars, passVars
    <2>2. QED
      BY <2>1, OperatorRefines, EnvironmentRefines DEF Next, PassInv
  <1>3. QED
    BY <1>1, <1>2, PassInvariant, PTL DEF Spec, ImplementsSchedule, Schedule!Spec
=============================================================================
